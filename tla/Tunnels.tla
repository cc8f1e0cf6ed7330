------------------------------ MODULE Tunnels ------------------------------
(***************************************************************************)
(* The tunnels of a client: a goroutine that keeps "helper ssh-server"     *)
(* running on the host (outer), a goroutine that speaks ssh to it over two *)
(* pipes (inner), and the caller that waits for them.                      *)
(*                                                                         *)
(*   "execute"    sshtunnel.ExecuteCommand: devpod up, with a tunnel server*)
(*                that the remote command sends its result to              *)
(*   "container"  ContainerTunnel.Run: devpod ssh, with the workspace lock,*)
(*                a second ssh connection into the container and a loop    *)
(*                that refreshes the options                               *)
(*   "direct"     NewTunnel: devpod ssh through a proxy provider           *)
(*                                                                         *)
(* The end of the outer goroutine does not close the pipe the inner one    *)
(* reads from: only the return of the caller does.                         *)
(***************************************************************************)
EXTENDS Naturals, Sequences

CONSTANTS MaxTunnelFaults    \* bound: processes that fail, connections lost

ASSUME TunnelAssumption == MaxTunnelFaults \in Nat

VARIABLES form,       \* which of the three
          caller,     \* the calling function
          outer,      \* the goroutine with the remote helper
          inner,      \* the goroutine with the ssh connection
          session,    \* what the inner goroutine runs remotely
          nested,     \* container: the goroutine with "container-tunnel"
          refresh,    \* container: updateConfig
          errs,       \* errChan, or the two channels of the select
          cancelled,  \* cancelCtx
          result,     \* whether the remote command has sent its result
          wsLock,     \* container: the workspace lock is held
          silent,     \* the helper ended without an error while in use
          ret,        \* what the caller returned
          tunnelFaults

tunnelVars == <<form, caller, outer, inner, session, nested, refresh, errs,
                cancelled, result, wsLock, silent, ret, tunnelFaults>>

Over == {"ended", "none"}

\* What the goroutines report to the caller.
Messages == {"outer ok", "outer error", "inner ok", "inner error"}

\* The shape of the state.
TunnelTypeOK ==
    /\ form \in {"execute", "container", "direct"}
    /\ caller \in {"lock", "status", "serve", "first", "second", "select",
                   "returned", "panicked"}
    /\ outer \in {"none", "inject", "up", "ended"}
    /\ inner \in {"none", "connect", "open", "run", "close", "ended"}
    /\ session \in {"none", "running", "stuck", "ok", "error"}
    /\ nested \in {"none", "running", "ended"}
    /\ refresh \in {"none", "wait", "update", "ended"}
    /\ errs \in Seq(Messages)
    /\ cancelled \in BOOLEAN /\ result \in BOOLEAN /\ wsLock \in BOOLEAN
    /\ silent \in BOOLEAN
    /\ ret \in {"none", "ok", "error"}
    /\ tunnelFaults \in 0..MaxTunnelFaults

TunnelInit ==
    /\ form \in {"execute", "container", "direct"}
    /\ caller = IF form = "container" THEN "lock"
                ELSE IF form = "execute" THEN "serve" ELSE "select"
    /\ outer = IF form = "container" THEN "none" ELSE "inject"
    /\ inner = IF form = "container" THEN "none" ELSE "connect"
    /\ session = "none" /\ nested = "none" /\ refresh = "none"
    /\ errs = << >>
    /\ cancelled = FALSE /\ result = FALSE /\ wsLock = FALSE /\ silent = FALSE
    /\ ret = "none" /\ tunnelFaults = 0

TunnelFault == tunnelFaults < MaxTunnelFaults /\ tunnelFaults' = tunnelFaults + 1

Gone == caller \in {"returned", "panicked"}   \* the deferred Close and cancel ran

Return(r) ==
    /\ caller' = "returned" /\ ret' = r /\ cancelled' = TRUE
    /\ wsLock' = FALSE

----------------------------------------------------------------------------
\* jumpContainer: the lock, then startWait, which waits while the instance is
\* busy and fails when it is stopped or not found.
LockForSession ==
    /\ caller = "lock"
    /\ wsLock' = TRUE /\ caller' = "status"
    /\ UNCHANGED <<form, outer, inner, session, nested, refresh, errs, cancelled,
                   result, silent, ret, tunnelFaults>>

StartWait ==
    /\ caller = "status"
    /\ \/ /\ caller' = "select" /\ outer' = "inject" /\ inner' = "connect"
          /\ UNCHANGED <<wsLock, ret, cancelled>>
       \/ /\ Return("error") /\ UNCHANGED <<outer, inner>>
    /\ UNCHANGED <<form, session, nested, refresh, errs, result, silent, tunnelFaults>>

----------------------------------------------------------------------------
\* The helper is injected and runs.
HelperUp ==
    /\ outer = "inject"
    /\ outer' = "up"
    /\ UNCHANGED <<form, caller, inner, session, nested, refresh, errs, cancelled,
                   result, wsLock, silent, ret, tunnelFaults>>

\* The outer goroutine ends: its error, or nil, is sent; "execute" cancels.
OuterEnds(e) ==
    /\ outer' = "ended"
    /\ errs' = Append(errs, e)
    /\ cancelled' = (cancelled \/ form = "execute")

HelperFails ==
    /\ outer \in {"inject", "up"} /\ TunnelFault
    /\ OuterEnds("outer error")
    /\ UNCHANGED <<form, caller, inner, session, nested, refresh, result, wsLock,
                   silent, ret>>

\* An end by a signal, by a canceled context or with exit code 0 is no error.
HelperEndsSilently ==
    /\ outer \in {"inject", "up"} /\ TunnelFault
    /\ OuterEnds("outer ok")
    /\ silent' = TRUE
    /\ UNCHANGED <<form, caller, inner, session, nested, refresh, result, wsLock, ret>>

\* Its stdin is closed by the ssh client or by the caller, or its context is
\* cancelled ("container" only: the others pass the caller's own context).
HelperStops ==
    /\ outer \in {"inject", "up"}
    /\ inner = "ended" \/ Gone \/ (form = "container" /\ cancelled)
    /\ OuterEnds("outer ok")
    /\ UNCHANGED <<form, caller, inner, session, nested, refresh, result, wsLock,
                   silent, ret, tunnelFaults>>

----------------------------------------------------------------------------
\* Mutant: the handshake does not see that the tunnel is gone.
ConnectUnclosed ==
    /\ inner = "connect" /\ outer = "up"
    /\ inner' = "open"
    /\ refresh' = IF form = "container" THEN "wait" ELSE refresh
    /\ nested' = IF form = "container" THEN "running" ELSE nested
    /\ UNCHANGED <<form, caller, outer, session, errs, cancelled, result, wsLock,
                   silent, ret, tunnelFaults>>

\* StdioClient: the handshake needs the helper; a pipe closed by the caller
\* ends it.
Connect ==
    /\ inner = "connect"
    /\ \/ /\ outer = "up"
          /\ inner' = "open"
          /\ refresh' = IF form = "container" THEN "wait" ELSE refresh
          /\ nested' = IF form = "container" THEN "running" ELSE nested
          /\ UNCHANGED <<errs, cancelled>>
       \/ /\ Gone
          /\ inner' = "ended" /\ errs' = Append(errs, "inner error")
          /\ cancelled' = (cancelled \/ form = "execute")
          /\ UNCHANGED <<refresh, nested>>
    /\ UNCHANGED <<form, caller, outer, session, result, wsLock, silent, ret, tunnelFaults>>

\* The connection is there; the handler of devpod ssh lets go of the lock.
Connected ==
    /\ inner = "open" /\ ~Gone
    /\ wsLock' = FALSE
    /\ inner' = "run" /\ session' = "running"
    /\ UNCHANGED <<form, caller, outer, nested, refresh, errs, cancelled, result,
                   silent, ret, tunnelFaults>>

\* NewSession fails: its error is sent and the code goes on with a nil session.
SessionFails ==
    /\ form = "execute" /\ inner = "open" /\ outer = "up" /\ TunnelFault
    /\ caller' = "panicked" /\ ret' = "error"
    /\ UNCHANGED <<form, outer, inner, session, nested, refresh, errs, cancelled,
                   result, wsLock, silent>>

\* The ssh agent cannot be forwarded: the error is sent, the command runs.
AgentForwardFails ==
    /\ form = "execute" /\ inner = "open" /\ ~Gone /\ TunnelFault
    /\ errs' = Append(errs, "inner error")
    /\ inner' = "run" /\ session' = "running"
    /\ UNCHANGED <<form, caller, outer, nested, refresh, cancelled, result, wsLock,
                   silent, ret>>

\* The remote command of up: SendResult, then its end without an error.
SendResult ==
    /\ form = "execute" /\ inner = "run" /\ session = "running" /\ outer = "up"
    /\ result' = TRUE /\ session' = "ok"
    /\ UNCHANGED <<form, caller, outer, inner, nested, refresh, errs, cancelled,
                   wsLock, silent, ret, tunnelFaults>>

CommandFails ==
    /\ form = "execute" /\ inner = "run" /\ session = "running" /\ outer = "up"
    /\ session' = "error"
    /\ UNCHANGED <<form, caller, outer, inner, nested, refresh, errs, cancelled,
                   result, wsLock, silent, ret, tunnelFaults>>

\* The user leaves the session, or its command or a forwarded port ends.
SessionEnds ==
    /\ form # "execute" /\ inner = "run" /\ session = "running" /\ outer = "up"
    /\ session' \in {"ok", "error"}
    /\ UNCHANGED <<form, caller, outer, inner, nested, refresh, errs, cancelled,
                   result, wsLock, silent, ret, tunnelFaults>>

\* StartSSHSession: the ssh server of the session does not start (its user is
\* unknown, say).  Its error is sent to a channel that nobody reads, and the
\* handshake goes on waiting.
SessionServerFails ==
    /\ form # "execute" /\ inner = "run" /\ session = "running" /\ TunnelFault
    /\ session' = "stuck"
    /\ UNCHANGED <<form, caller, outer, inner, nested, refresh, errs, cancelled,
                   result, wsLock, silent, ret>>

\* container-tunnel dies with its container: the goroutine closes its end of
\* the pipe and the nested connection is over.
ContainerGone ==
    /\ nested = "running" /\ outer = "up" /\ TunnelFault
    /\ nested' = "ended"
    /\ UNCHANGED <<form, caller, outer, inner, session, refresh, errs, cancelled,
                   result, wsLock, silent, ret>>

NestedEnds ==
    /\ nested = "running" /\ (cancelled \/ Gone \/ inner \in {"close", "ended"})
    /\ nested' = "ended"
    /\ UNCHANGED <<form, caller, outer, inner, session, refresh, errs, cancelled,
                   result, wsLock, silent, ret, tunnelFaults>>

\* The session breaks: its connection has been closed, or its context is over.
\* "execute" runs its command with the context of the caller's caller.
SessionBreaks ==
    /\ inner \in {"open", "run"} /\ session \in {"none", "running", "stuck"}
    /\ Gone \/ (form = "container" /\ (nested = "ended" \/ cancelled))
    /\ session' = "error"
    /\ inner' = "run"
    /\ UNCHANGED <<form, caller, outer, nested, refresh, errs, cancelled, result,
                   wsLock, silent, ret, tunnelFaults>>

\* The inner goroutine sends what its command returned, then cancels and
\* closes the ssh client.
InnerSends ==
    /\ inner = "run" /\ session \in {"ok", "error"}
    /\ errs' = Append(errs, IF session = "ok" THEN "inner ok" ELSE "inner error")
    /\ inner' = "close"
    /\ UNCHANGED <<form, caller, outer, session, nested, refresh, cancelled, result,
                   wsLock, silent, ret, tunnelFaults>>

InnerEnds ==
    /\ inner = "close"
    /\ inner' = "ended" /\ cancelled' = TRUE
    /\ UNCHANGED <<form, caller, outer, session, nested, refresh, errs, result,
                   wsLock, silent, ret, tunnelFaults>>

----------------------------------------------------------------------------
\* updateConfig: every thirty seconds the options are refreshed and the agent
\* is told; an error is only logged.
RefreshTick ==
    /\ refresh = "wait" /\ ~cancelled
    /\ refresh' = "update"
    /\ UNCHANGED <<form, caller, outer, inner, session, nested, errs, cancelled,
                   result, wsLock, silent, ret, tunnelFaults>>

RefreshDone ==
    /\ refresh = "update" /\ (outer = "up" \/ cancelled)
    /\ refresh' = "wait"
    /\ UNCHANGED <<form, caller, outer, inner, session, nested, errs, cancelled,
                   result, wsLock, silent, ret, tunnelFaults>>

RefreshStops ==
    /\ refresh = "wait" /\ cancelled
    /\ refresh' = "ended"
    /\ UNCHANGED <<form, caller, outer, inner, session, nested, errs, cancelled,
                   result, wsLock, silent, ret, tunnelFaults>>

----------------------------------------------------------------------------
\* RunWithResult serves the remote command until the context is cancelled.  Its other
\* branch, the end of Serve, is never taken: Accept of the stdio listener hands out the
\* one connection and then blocks for good, it returns no error.
TunnelServerReturns ==
    /\ caller = "serve" /\ cancelled
    /\ caller' = "first"
    /\ UNCHANGED <<form, outer, inner, session, nested, refresh, errs, cancelled,
                   result, wsLock, silent, ret, tunnelFaults>>

\* Mutant: the goroutine that returns first decides alone.
WaitFirstOnly ==
    /\ caller = "first" /\ errs # << >>
    /\ errs' = Tail(errs)
    /\ Return(IF Head(errs) \in {"outer error", "inner error"} THEN "error" ELSE "ok")
    /\ UNCHANGED <<form, outer, inner, session, nested, refresh, result, silent, tunnelFaults>>

\* ExecuteCommand: the first message decides only when it is an error.
WaitFirst ==
    /\ caller = "first" /\ errs # << >>
    /\ errs' = Tail(errs)
    /\ IF Head(errs) \in {"outer error", "inner error"}
       THEN Return("error")
       ELSE caller' = "second" /\ UNCHANGED <<ret, cancelled, wsLock>>
    /\ UNCHANGED <<form, outer, inner, session, nested, refresh, result, silent, tunnelFaults>>

WaitSecond ==
    /\ caller = "second" /\ errs # << >>
    /\ errs' = Tail(errs)
    /\ Return(IF Head(errs) \in {"outer error", "inner error"} THEN "error" ELSE "ok")
    /\ UNCHANGED <<form, outer, inner, session, nested, refresh, result, silent, tunnelFaults>>

\* The select of Run and of NewTunnel: whichever goroutine ends first.
Select ==
    /\ caller = "select" /\ errs # << >>
    /\ \E i \in 1..Len(errs) :
          Return(IF errs[i] \in {"outer error", "inner error"} THEN "error" ELSE "ok")
    /\ UNCHANGED <<form, outer, inner, session, nested, refresh, errs, result,
                   silent, tunnelFaults>>

----------------------------------------------------------------------------
Goroutines ==
    \/ LockForSession \/ StartWait \/ HelperUp \/ HelperStops \/ Connect \/ Connected
    \/ NestedEnds \/ SessionBreaks \/ InnerSends \/ InnerEnds \/ RefreshDone
    \/ RefreshStops \/ TunnelServerReturns \/ WaitFirst \/ WaitSecond \/ Select

Remote == SendResult \/ CommandFails

TunnelNext ==
    \/ Goroutines \/ Remote \/ SessionEnds \/ RefreshTick
    \/ HelperFails \/ HelperEndsSilently \/ SessionFails \/ AgentForwardFails
    \/ SessionServerFails \/ ContainerGone

\* Every goroutine runs on, and the remote command of up ends; the session of
\* a user need not.
TunnelFairness ==
    /\ WF_tunnelVars(Goroutines)
    /\ WF_tunnelVars(LockForSession \/ StartWait \/ TunnelServerReturns \/ WaitFirst
                     \/ WaitSecond \/ Select)
    /\ WF_tunnelVars(HelperUp \/ HelperStops)
    /\ WF_tunnelVars(Connect \/ Connected \/ SessionBreaks \/ InnerSends \/ InnerEnds)
    /\ WF_tunnelVars(NestedEnds)
    /\ WF_tunnelVars(RefreshDone) /\ WF_tunnelVars(RefreshStops)
    /\ WF_tunnelVars(Remote)

TunnelSpec == TunnelInit /\ [][TunnelNext]_tunnelVars /\ TunnelFairness

----------------------------------------------------------------------------
\* ExecuteCommand returns no error only when the remote command has sent its
\* result and ended well, whichever goroutine ends first.
SuccessHasResult == form = "execute" /\ ret = "ok" => result /\ session = "ok"

\* When the caller of a session has returned, or its goroutine is done, no
\* goroutine stays behind: neither the helper, nor the ssh connections, nor the
\* refresh of the options.
NothingLeftBehind ==
    caller = "returned" ~> (/\ outer \in Over /\ inner \in Over
                            /\ nested \in Over /\ refresh \in Over)
=============================================================================
