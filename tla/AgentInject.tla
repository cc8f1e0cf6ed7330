---------------------------- MODULE AgentInject ----------------------------
(***************************************************************************)
(* How a command reaches an instance that may not be up yet, and that may  *)
(* have no agent or an agent of another version: the loop of               *)
(* InjectAgentAndExecute (pkg/agent/inject.go), one attempt of             *)
(* InjectAndExecute (pkg/inject/inject.go) and the script it sends         *)
(* (pkg/inject/inject.sh).  Two clients may inject into one instance; a    *)
(* script goes on alone when its client has given up on it.                *)
(*                                                                         *)
(* The agent binary at INSTALL_PATH is "none", "part" (cut off), "own"     *)
(* (the version of the clients) or "other".                                *)
(***************************************************************************)
EXTENDS Naturals, FiniteSets

CONSTANTS Clients,          \* calls of InjectAgentAndExecute
          MaxAttempts,      \* bound: attempts before the five minutes are over
          MaxInjectFaults   \* bound: connections, downloads, disks that fail

ASSUME InjectAssumption == MaxAttempts \in Nat \ {0} /\ MaxInjectFaults \in Nat

VARIABLES kind,       \* "workspace" (a command, download preferred), "dev" (the same by a
                      \* development build, which never prefers the download) or
                      \* "container" (no command, inject preferred)
          bin,        \* the file at INSTALL_PATH
          cache,      \* devpod-cache/devpod-linux-* on the clients' computer
          at,         \* where the call of a client is
          attempts,   \* attempts it has made
          sh,         \* the script of each attempt
          line,       \* the line on its way from the script to the client
          held,       \* whether the client still holds the streams
          got,        \* what the script's stdin delivers
          runs,       \* the attempts that started the command, and on what
          disturbed,  \* scripts during which another script touched the binary
          lostDone,   \* a "done" was lost with its connection
          faults

injectVars == <<kind, bin, cache, at, attempts, sh, line, held, got, runs,
                disturbed, lostDone, faults>>

Calls == Clients \X (1..MaxAttempts)
Cur(c) == <<c, attempts[c]>>
Binaries == {"none", "part", "own", "other"}
Ended == {"ok", "failed"}

\* The shape of the state.
InjectTypeOK ==
    /\ kind \in [Clients -> {"workspace", "dev", "container"}]
    /\ bin \in Binaries /\ cache \in Binaries
    /\ at \in [Clients -> {"idle", "ping", "line", "sending", "sent", "piping",
                           "rerun", "rerunning", "sleeping"} \cup Ended]
    /\ attempts \in [Clients -> 0..MaxAttempts]
    /\ sh \in [Calls -> {"no", "start", "ping", "check", "remove", "download",
                         "arm", "receive", "verify", "say", "command", "over"}]
    /\ line \in [Calls -> {"none", "ping", "arm", "done"}]
    /\ held \in [Calls -> BOOLEAN]
    /\ got \in [Calls -> {"none", "pong", "part", "own", "other"}]
    /\ runs \subseteq Calls \X {"script", "rerun"} \X Binaries \X BOOLEAN
    /\ disturbed \subseteq Calls
    /\ lostDone \in BOOLEAN /\ faults \in 0..MaxInjectFaults

InjectInit ==
    /\ kind \in [Clients -> {"workspace", "container"}] \cup [Clients -> {"dev", "container"}]
    /\ bin \in {"none", "own", "other"}
    /\ cache \in {"none", "part", "other"}   \* a part: a download that was killed
    /\ at = [c \in Clients |-> "idle"]
    /\ attempts = [c \in Clients |-> 0]
    /\ sh = [x \in Calls |-> "no"]
    /\ line = [x \in Calls |-> "none"]
    /\ held = [x \in Calls |-> TRUE]
    /\ got = [x \in Calls |-> "none"]
    /\ runs = {} /\ disturbed = {} /\ lostDone = FALSE /\ faults = 0

HasCommand(c) == kind[c] # "container"

Fault == faults < MaxInjectFaults /\ faults' = faults + 1

\* The file at INSTALL_PATH becomes b by the script x.
Install(x, b) ==
    /\ bin' = b
    /\ disturbed' = IF b = bin THEN disturbed
                    ELSE disturbed \cup {y \in Calls \ {x} : sh[y] \notin {"no", "over"}}

----------------------------------------------------------------------------
\* InjectAndExecute: the script is generated and exec starts it.
Attempt(c) ==
    /\ \/ at[c] = "idle"
       \/ at[c] = "sleeping"
    /\ attempts' = [attempts EXCEPT ![c] = @ + 1]
    /\ sh' = [sh EXCEPT ![<<c, attempts[c] + 1>>] = "start"]
    /\ at' = [at EXCEPT ![c] = "ping"]
    /\ UNCHANGED <<kind, bin, cache, line, held, got, runs, disturbed, lostDone, faults>>

\* Mutant: a command that ran is tried again.
AfterErrorRetries(c, wasExecuted) ==
    at' = [at EXCEPT ![c] = IF attempts[c] = MaxAttempts THEN "failed" ELSE "sleeping"]

\* What InjectAgentAndExecute makes of an error: the time is over, or the
\* command was executed, or it waits three seconds and tries again.
AfterError(c, wasExecuted) ==
    at' = [at EXCEPT ![c] =
              IF wasExecuted \/ attempts[c] = MaxAttempts THEN "failed" ELSE "sleeping"]

\* The attempt is over for the client: its streams are closed, what is on its
\* way is lost, and nobody waits for the script.
Abandon(c) ==
    /\ held' = [held EXCEPT ![Cur(c)] = FALSE]
    /\ line' = [line EXCEPT ![Cur(c)] = "none"]
    /\ lostDone' = (lostDone \/ line[Cur(c)] = "done")

\* The instance cannot be reached, or no "ping" came within the timeout.
NoPing(c) ==
    /\ at[c] = "ping" /\ Fault
    /\ Abandon(c) /\ AfterError(c, FALSE)
    /\ UNCHANGED <<kind, bin, cache, attempts, sh, got, runs, disturbed>>

\* The script ended without the line that the client is waiting for.
EndOfStream(c) ==
    /\ at[c] \in {"ping", "line", "sent"}
    /\ sh[Cur(c)] = "over" /\ line[Cur(c)] = "none"
    /\ Abandon(c) /\ AfterError(c, FALSE)
    /\ UNCHANGED <<kind, bin, cache, attempts, sh, got, runs, disturbed, faults>>

\* The connection breaks: exec ends, with or without the script.
Breaks(c) ==
    /\ at[c] \in {"line", "sent"} /\ Fault
    /\ Abandon(c) /\ AfterError(c, FALSE)
    /\ UNCHANGED <<kind, bin, cache, attempts, sh, got, runs, disturbed>>

\* performMutualHandshake
Handshake(c) ==
    /\ at[c] = "ping" /\ line[Cur(c)] = "ping"
    /\ line' = [line EXCEPT ![Cur(c)] = "none"]
    /\ got' = [got EXCEPT ![Cur(c)] = "pong"]
    /\ at' = [at EXCEPT ![c] = "line"]
    /\ UNCHANGED <<kind, bin, cache, attempts, sh, held, runs, disturbed, lostDone, faults>>

\* The answer of the script: it has the agent, or it wants the binary.
ReadAnswer(c) ==
    /\ at[c] = "line" /\ line[Cur(c)] \in {"arm", "done"}
    /\ line' = [line EXCEPT ![Cur(c)] = "none"]
    /\ at' = [at EXCEPT ![c] = IF line[Cur(c)] = "arm" THEN "sending" ELSE "piping"]
    /\ UNCHANGED <<kind, bin, cache, attempts, sh, held, got, runs, disturbed, lostDone, faults>>

\* injectBinary of pkg/agent: the client's own executable, else whatever lies
\* in the cache, else a download into the cache, of which another client may find a part.
LocalFile(c) ==
    \/ /\ cache' = cache
       /\ got' = [got EXCEPT ![Cur(c)] = "own"]
    \/ /\ cache # "none" /\ cache' = cache
       /\ got' = [got EXCEPT ![Cur(c)] = cache]
    \/ /\ cache = "none" /\ cache' = "own"
       /\ got' = [got EXCEPT ![Cur(c)] = "own"]
    \/ /\ cache = "none" /\ cache' = cache
       /\ \E d \in Clients \ {c} : at[d] = "sending"
       /\ got' = [got EXCEPT ![Cur(c)] = "part"]

SendBinary(c) ==
    /\ at[c] = "sending"
    /\ LocalFile(c)
    /\ at' = [at EXCEPT ![c] = "sent"]
    /\ UNCHANGED <<kind, bin, attempts, sh, line, held, runs, disturbed, lostDone, faults>>

\* The download of the binary fails (the cache file is removed), or the copy
\* into the script's stdin breaks off.
SendFails(c) ==
    /\ at[c] = "sending" /\ Fault
    /\ \E part \in {"none", "part"} : got' = [got EXCEPT ![Cur(c)] =
                                           IF part = "part" THEN "part" ELSE @]
    /\ Abandon(c) /\ AfterError(c, FALSE)
    /\ UNCHANGED <<kind, bin, cache, attempts, sh, runs, disturbed>>

\* "done" after the binary: the command is run again without the script.
Injected(c) ==
    /\ at[c] = "sent" /\ line[Cur(c)] = "done"
    /\ line' = [line EXCEPT ![Cur(c)] = "none"]
    /\ at' = [at EXCEPT ![c] = IF HasCommand(c) THEN "rerun" ELSE "ok"]
    /\ UNCHANGED <<kind, bin, cache, attempts, sh, held, got, runs, disturbed, lostDone, faults>>

Rerun(c) ==
    /\ at[c] = "rerun"
    /\ runs' = runs \cup {<<Cur(c), "rerun", bin, Cur(c) \in disturbed>>}
    /\ at' = [at EXCEPT ![c] = "rerunning"]
    /\ UNCHANGED <<kind, bin, cache, attempts, sh, line, held, got, disturbed, lostDone, faults>>

\* A binary that is not there or not whole does not execute.
RerunEnds(c) ==
    /\ at[c] = "rerunning"
    /\ \/ /\ \E r \in runs : r[1] = Cur(c) /\ r[3] \in {"own", "other"}
          /\ at' = [at EXCEPT ![c] = "ok"]
       \/ AfterError(c, TRUE)
    /\ UNCHANGED <<kind, bin, cache, attempts, sh, line, held, got, runs, disturbed, lostDone, faults>>

\* The streams of the client and the command are joined; the first side to end
\* ends both.  An error of the command arrives before its end of stream does.
PipeEnds(c) ==
    /\ at[c] = "piping"
    /\ \/ /\ sh[Cur(c)] \in {"command", "over"}
          /\ at' = [at EXCEPT ![c] = "ok"]
       \/ /\ sh[Cur(c)] = "over"
          /\ AfterError(c, TRUE)
    /\ held' = [held EXCEPT ![Cur(c)] = FALSE]
    /\ UNCHANGED <<kind, bin, cache, attempts, sh, line, got, runs, disturbed, lostDone, faults>>

----------------------------------------------------------------------------
\* The script: a line to a client that has gone ends it (SIGPIPE).
Says(x, l, next) ==
    IF held[x]
    THEN /\ line' = [line EXCEPT ![x] = l]
         /\ sh' = [sh EXCEPT ![x] = next]
    ELSE /\ line' = line
         /\ sh' = [sh EXCEPT ![x] = "over"]

ScriptPings(x) ==
    /\ sh[x] = "start" /\ Says(x, "ping", "ping")
    /\ UNCHANGED <<kind, bin, cache, at, attempts, held, got, runs, disturbed, lostDone, faults>>

\* "we don't want the script to do anything without us"
ScriptReadsPong(x) ==
    /\ sh[x] = "ping"
    /\ \/ got[x] = "pong" /\ sh' = [sh EXCEPT ![x] = "check"]
       \/ got[x] # "pong" /\ ~held[x] /\ sh' = [sh EXCEPT ![x] = "over"]
    /\ UNCHANGED <<kind, bin, cache, at, attempts, line, held, got, runs, disturbed, lostDone, faults>>

\* ExistsCheck, before the installation
ScriptChecks(x) ==
    /\ sh[x] = "check"
    /\ sh' = [sh EXCEPT ![x] = IF bin = "own" THEN "say" ELSE "remove"]
    /\ UNCHANGED <<kind, bin, cache, at, attempts, line, held, got, runs, disturbed, lostDone, faults>>

\* The old binary is removed.  Without root, or on a noexec mount, the script
\* ends before or after that.
ScriptRemoves(x) ==
    /\ sh[x] = "remove"
    /\ \/ /\ Install(x, "none") /\ faults' = faults
          /\ sh' = [sh EXCEPT ![x] =
                       IF kind[x[1]] = "workspace" THEN "download" ELSE "arm"]
       \/ /\ Fault /\ (Install(x, "none") \/ UNCHANGED <<bin, disturbed>>)
          /\ sh' = [sh EXCEPT ![x] = "over"]
    /\ UNCHANGED <<kind, cache, at, attempts, line, held, got, runs, lostDone>>

\* Up to three tries.  The URL may hold another version.  When all fail the
\* script exits: the inject of "download || inject" is never reached.
ScriptDownloads(x) ==
    /\ sh[x] = "download"
    /\ \/ /\ Install(x, "own") /\ faults' = faults
          /\ sh' = [sh EXCEPT ![x] = "verify"]
       \/ /\ Fault /\ Install(x, "other")
          /\ sh' = [sh EXCEPT ![x] = "verify"]
       \/ /\ Fault /\ UNCHANGED <<bin, disturbed>>
          /\ sh' = [sh EXCEPT ![x] = "over"]
    /\ UNCHANGED <<kind, cache, at, attempts, line, held, got, runs, lostDone>>

ScriptAsksForBinary(x) ==
    /\ sh[x] = "arm" /\ Says(x, "arm", "receive")
    /\ UNCHANGED <<kind, bin, cache, at, attempts, held, got, runs, disturbed, lostDone, faults>>

\* cat until the end of the stdin, mv, chmod.  A stream that breaks off, or a
\* disk that fills up, leaves a part, which is moved like the whole.
ScriptReceives(x) ==
    /\ sh[x] = "receive" /\ (got[x] # "pong" \/ ~held[x])
    /\ \/ /\ Install(x, IF got[x] = "pong" THEN "part" ELSE got[x])
          /\ faults' = faults
       \/ Fault /\ Install(x, "part")
    /\ Says(x, "done", "over")
    /\ UNCHANGED <<kind, cache, at, attempts, held, got, runs, lostDone>>

\* ExistsCheck, after the installation
ScriptVerifies(x) ==
    /\ sh[x] = "verify"
    /\ sh' = [sh EXCEPT ![x] = IF bin = "own" THEN "say" ELSE "over"]
    /\ UNCHANGED <<kind, bin, cache, at, attempts, line, held, got, runs, disturbed, lostDone, faults>>

\* echo "done", then the command.
ScriptRuns(x) ==
    /\ sh[x] = "say"
    /\ Says(x, "done", IF HasCommand(x[1]) THEN "command" ELSE "over")
    /\ runs' = IF held[x] /\ HasCommand(x[1])
               THEN runs \cup {<<x, "script", bin, x \in disturbed>>} ELSE runs
    /\ UNCHANGED <<kind, bin, cache, at, attempts, held, got, disturbed, lostDone, faults>>

\* The command ends by itself, or because its streams are closed.
CommandEnds(x) ==
    /\ sh[x] = "command"
    /\ sh' = [sh EXCEPT ![x] = "over"]
    /\ UNCHANGED <<kind, bin, cache, at, attempts, line, held, got, runs, disturbed, lostDone, faults>>

----------------------------------------------------------------------------
ClientStep(c) ==
    \/ Attempt(c) \/ EndOfStream(c) \/ Handshake(c) \/ ReadAnswer(c)
    \/ SendBinary(c) \/ Injected(c) \/ Rerun(c) \/ RerunEnds(c) \/ PipeEnds(c)

ScriptStep(x) ==
    \/ ScriptPings(x) \/ ScriptReadsPong(x) \/ ScriptChecks(x) \/ ScriptRemoves(x)
    \/ ScriptDownloads(x) \/ ScriptAsksForBinary(x) \/ ScriptReceives(x)
    \/ ScriptVerifies(x) \/ ScriptRuns(x) \/ CommandEnds(x)

InjectNext ==
    \/ \E c \in Clients : ClientStep(c) \/ NoPing(c) \/ Breaks(c) \/ SendFails(c)
    \/ \E x \in Calls : ScriptStep(x)

InjectSpec == InjectInit /\ [][InjectNext]_injectVars

----------------------------------------------------------------------------
\* A call starts its command once, whatever it retries: only a "done" that is
\* lost with its connection (readLine fails, wasExecuted is false) can make a
\* second attempt start it again.
CommandOnce ==
    \A r1, r2 \in runs : r1[1][1] = r2[1][1] /\ ~lostDone => r1[1] = r2[1]

\* A command that the script starts runs on the version of the client: the
\* check before and the check after the download see to it, unless another
\* script, of another client or of an attempt given up, exchanges the binary
\* in between.
OwnVersionRuns ==
    \A r \in runs : r[2] = "script" /\ ~r[4] => r[3] = "own"

\* A script whose client gave up before the handshake leaves the instance
\* alone: the installed binary changes only by a script that was answered.
UnansweredScriptHarmless ==
    [][bin' # bin => \E x \in Calls : sh[x] # sh'[x] /\ got[x] # "none"]_injectVars

=============================================================================
