--------------------------- MODULE PlatformDaemon ----------------------------
(***************************************************************************)
(* The client daemon of a pro provider (pkg/daemon/platform): a process    *)
(* that listens on a unix socket and proxies connections to its local http *)
(* server (or to tailscale).  Its goroutines are the accept loop of the    *)
(* socket, the http server, the watcher of the platform's login and the    *)
(* watcher of the netmap.  A /shutdown request, a signal or a failing      *)
(* goroutine ends it; `pro delete' asks it to shut down and dials the      *)
(* socket until that fails.                                                *)
(*                                                                         *)
(* stopChan has one place.  Sending to it hands the token to one of the    *)
(* goroutines that wait for it (which of two is up to the runtime), or     *)
(* leaves it in the channel, or blocks while it is full.                   *)
(***************************************************************************)
EXTENDS Integers, FiniteSets

CONSTANTS Daemons,       \* the daemon processes of one provider
          DaemonUsers,   \* connections of clients
          NoDaemon,
          RacingStarts,  \* two daemons may be started at the same time
          MaxSignals     \* bound: signals

ASSUME PlatformDaemonAssumption ==
    /\ NoDaemon \notin Daemons /\ RacingStarts \in BOOLEAN
    /\ MaxSignals \in Nat

VARIABLES
    dm,      \* the daemons
    path,    \* whose socket the path of the socket leads to
    conn,    \* the connections
    signals

daemonVars == <<dm, path, conn, signals>>

NotStarted == [phase |-> "absent",  \* absent, probed, serving, cleanup, closing, gone
               token |-> 0,         \* what stopChan holds
               serve |-> "select",  \* ListenAndServe
               watch |-> "call",    \* watchPlatform
               accepts |-> TRUE,    \* the accept loop of the socket runs
               served |-> FALSE,    \* errChan of ListenAndServe holds a result
               ended |-> FALSE,     \* errChan of Start holds a result
               canceled |-> FALSE,  \* the context of the process
               listener |-> TRUE, socket |-> FALSE,
               asked |-> FALSE]     \* history: something that may end it has happened

Gone == [NotStarted EXCEPT !.phase = "gone"]

NoConn == [op |-> "none", pc |-> "idle", to |-> NoDaemon]

DaemonInit ==
    /\ dm = [d \in Daemons |-> NotStarted]
    /\ path = NoDaemon /\ signals = 0
    /\ conn = [c \in DaemonUsers |-> NoConn]

Live(d) == dm[d].phase \in {"serving", "cleanup", "closing"}
Reading(d) == {c \in DaemonUsers : conn[c].to = d /\ conn[c].pc = "reading"}

\* Dialling the socket succeeds.
Answers == path # NoDaemon /\ dm[path].socket

\* The process is gone: the kernel closes its connections.
Exit(d) == conn' = [c \in DaemonUsers |->
    IF conn[c].to = d THEN [conn[c] EXCEPT !.pc = "ended"] ELSE conn[c]]

-----------------------------------------------------------------------------
(* Starting *)

\* `pro daemon start', and Init: listen dials the path to see if it is in use ...
Probe(d) ==
    /\ dm[d].phase = "absent"
    /\ RacingStarts \/ \A o \in Daemons : dm[o].phase # "probed"
    /\ dm' = [dm EXCEPT ![d].phase = IF Answers THEN "gone" ELSE "probed"]
    /\ UNCHANGED <<path, conn, signals>>

\* ... and otherwise removes it and listens.  Without DERP connection or state
\* store the process ends with the socket it has.
Bind(d) ==
    /\ dm[d].phase = "probed"
    /\ path' = d
    /\ \E ok \in BOOLEAN : dm' = [dm EXCEPT ![d].phase = IF ok THEN "serving" ELSE "gone",
                                            ![d].socket = ok]
    /\ UNCHANGED <<conn, signals>>

-----------------------------------------------------------------------------
(* Connections: doRequest, waitDaemonStopped, Listen and handler *)

\* A request, or the dial of `pro delete' that never sends anything.
Connect(c, op) ==
    /\ conn[c] = NoConn
    /\ conn' = [conn EXCEPT ![c] = IF Answers THEN [op |-> op, pc |-> "queued", to |-> path]
                                   ELSE [NoConn EXCEPT !.op = op, !.pc = "ended"]]
    /\ UNCHANGED <<dm, path, signals>>

\* The accept loop reads the first byte of a connection before it takes the next.
Accept(d, c) ==
    /\ Live(d) /\ dm[d].socket /\ dm[d].accepts /\ Reading(d) = {}
    /\ conn[c].to = d /\ conn[c].pc = "queued"
    /\ conn' = [conn EXCEPT ![c].pc = "reading"]
    /\ UNCHANGED <<dm, path, signals>>

Classify(c) ==
    /\ conn[c].pc = "reading" /\ conn[c].op # "probe"
    /\ conn' = [conn EXCEPT ![c].pc = "dialing"]
    /\ UNCHANGED <<dm, path, signals>>

\* The handler of the connection dials the local server.
DialLocal(c) ==
    /\ conn[c].pc = "dialing"
    /\ conn' = [conn EXCEPT ![c].pc = IF dm[conn[c].to].listener THEN "serving" ELSE "ended"]
    /\ UNCHANGED <<dm, path, signals>>

\* The other handlers of the server: status, version, self, and what is asked of
\* the platform.
ServeRequest(c) ==
    /\ conn[c].pc = "serving" /\ conn[c].op = "status"
    /\ conn' = [conn EXCEPT ![c].pc = "ended"]
    /\ UNCHANGED <<dm, path, signals>>

\* The client leaves: its time is over, or its process ends.  An unknown client
\* is closed and the loop goes on.
HangUp(c) ==
    /\ conn[c].pc \in {"queued", "reading", "dialing"}
    /\ conn' = [conn EXCEPT ![c].pc = "ended"]
    /\ UNCHANGED <<dm, path, signals>>

-----------------------------------------------------------------------------
(* Stopping *)

\* The goroutines that wait for stopChan.
Receivers(d) == {r \in {"serve", "watch"} : dm[d][r] = "select"}

\* Mutant: stopChan has no place of its own.
SentUnbuffered(d, daemon) ==
    \E r \in Receivers(d) :
        dm' = [dm EXCEPT ![d] = IF r = "serve" THEN [daemon EXCEPT !.serve = "returned", !.ended = TRUE]
                                ELSE [daemon EXCEPT !.watch = "returned", !.served = TRUE]]

\* stopChan <- struct{}{}: one that waits gets the token and returns, and its result
\* goes to the channel of its caller.
Sent(d, daemon) ==
    \/ \E r \in Receivers(d) :
          dm' = [dm EXCEPT ![d] = IF r = "serve" THEN [daemon EXCEPT !.serve = "returned", !.ended = TRUE]
                                  ELSE [daemon EXCEPT !.watch = "returned", !.served = TRUE]]
    \/ /\ Receivers(d) = {} /\ dm[d].token = 0
       /\ dm' = [dm EXCEPT ![d] = [daemon EXCEPT !.token = 1]]

\* The handler of /shutdown: Close sends the token ...
Shutdown(c) ==
    /\ conn[c].pc = "serving" /\ conn[c].op = "shutdown"
    /\ LET d == conn[c].to IN Sent(d, [dm[d] EXCEPT !.asked = TRUE])
    /\ conn' = [conn EXCEPT ![c].pc = "sent"]
    /\ UNCHANGED <<path, signals>>

\* ... and closes the listener: Serve returns, which its caller hears if there is
\* room in the channel.
ShutdownCloses(c) ==
    /\ conn[c].pc = "sent"
    /\ conn' = [conn EXCEPT ![c].pc = "ended"]
    /\ dm' = [dm EXCEPT ![conn[c].to].listener = FALSE, ![conn[c].to].served = TRUE]
    /\ UNCHANGED <<path, signals>>

\* ListenAndServe hears from one of its goroutines.
ServeEnds(d) ==
    /\ Live(d) /\ dm[d].serve = "select" /\ dm[d].served
    /\ dm' = [dm EXCEPT ![d].serve = "returned", ![d].ended = TRUE]
    /\ UNCHANGED <<path, conn, signals>>

\* watchPlatform: a call without timeout (what it says of the login is left out), and
\* the wait for the next.
WatchCall(d) ==
    /\ Live(d) /\ dm[d].watch = "call"
    /\ dm' = IF dm[d].token = 1
             THEN [dm EXCEPT ![d].token = 0, ![d].watch = "returned", ![d].served = TRUE]
             ELSE [dm EXCEPT ![d].watch = "select"]
    /\ UNCHANGED <<path, conn, signals>>

WatchInterval(d) ==
    /\ Live(d) /\ dm[d].watch = "select"
    /\ dm' = [dm EXCEPT ![d].watch = "call"]
    /\ UNCHANGED <<path, conn, signals>>

\* watchNetmap returns the error of its stream.
NetmapEnds(d) ==
    /\ dm[d].phase = "serving" /\ ~dm[d].ended
    /\ dm' = [dm EXCEPT ![d].ended = TRUE, ![d].asked = TRUE]
    /\ UNCHANGED <<path, conn, signals>>

\* withGracefulShutdown: the first signal cancels the context, a later one ends the
\* process where it is, unless the goroutine of the first has not yet left its loop.
Signal(d) ==
    /\ Live(d) /\ signals < MaxSignals /\ signals' = signals + 1
    /\ \/ /\ dm' = [dm EXCEPT ![d].canceled = TRUE, ![d].asked = TRUE]
          /\ UNCHANGED <<path, conn>>
       \/ /\ dm[d].canceled /\ Exit(d)
          /\ dm' = [dm EXCEPT ![d] = Gone]
          /\ UNCHANGED path

\* Start returns: the tailscale server is closed, then the local server ...
StartReturns(d) ==
    /\ dm[d].phase = "serving" /\ (dm[d].ended \/ dm[d].canceled)
    /\ dm' = [dm EXCEPT ![d].phase = "cleanup"]
    /\ UNCHANGED <<path, conn, signals>>

CleanupCloses(d) ==
    /\ dm[d].phase = "cleanup"
    /\ Sent(d, [dm[d] EXCEPT !.phase = "closing"])
    /\ UNCHANGED <<path, conn, signals>>

\* ... then the socket, whose path is removed whoever listens there, and the
\* process ends.
SocketCloses(d) ==
    /\ dm[d].phase = "closing"
    /\ dm' = [dm EXCEPT ![d] = Gone]
    /\ path' = NoDaemon
    /\ Exit(d)
    /\ UNCHANGED signals

-----------------------------------------------------------------------------
ConnNext(c) ==
    \/ \E op \in {"shutdown", "status", "probe"} : Connect(c, op)
    \/ \E d \in Daemons : Accept(d, c)
    \/ Classify(c) \/ DialLocal(c) \/ ServeRequest(c) \/ HangUp(c)
    \/ Shutdown(c) \/ ShutdownCloses(c)

DaemonStep(d) ==
    \/ Probe(d) \/ Bind(d) \/ ServeEnds(d) \/ WatchCall(d) \/ WatchInterval(d)
    \/ NetmapEnds(d) \/ Signal(d) \/ StartReturns(d) \/ CleanupCloses(d) \/ SocketCloses(d)

PlatformDaemonNext == (\E d \in Daemons : DaemonStep(d)) \/ (\E c \in DaemonUsers : ConnNext(c))

\* The goroutines run; the call to the platform may hang, and clients may stay away.
DaemonFairness ==
    /\ \A d \in Daemons : WF_daemonVars(ServeEnds(d) \/ StartReturns(d) \/ CleanupCloses(d) \/ SocketCloses(d))
    /\ \A c \in DaemonUsers : WF_daemonVars(Shutdown(c) \/ ShutdownCloses(c))

DaemonSpec == DaemonInit /\ [][PlatformDaemonNext]_daemonVars /\ DaemonFairness

-----------------------------------------------------------------------------
Stops(d) == {c \in DaemonUsers : conn[c].to = d /\ conn[c].op = "shutdown"}

\* A /shutdown request ends the daemon, whatever the platform does meanwhile, unless
\* another one is in flight: the token of the deferred Close then finds the place of
\* stopChan (local_server.go:161) taken, and Start never returns.
ShutdownEnds == \A d \in Daemons :
    (\E c \in Stops(d) : conn[c].pc = "sent")
        ~> (dm[d].phase = "gone" \/ Cardinality(Stops(d)) > 1)

\* A daemon ends only because it was asked to, got a signal or lost the netmap: no
\* client that connects, sends nothing and goes away ends it (daemon.go:Listen).
EndsOnlyWhenAsked == \A d \in Daemons :
    dm[d].phase \in {"cleanup", "closing"} => dm[d].asked

\* "listen to socket for early return in case it's already in use": two daemons of a
\* provider never serve together.
OneDaemon == Cardinality({d \in Daemons : dm[d].phase = "serving"}) <= 1
==============================================================================
