---------------------------- MODULE PortForwards ----------------------------
(***************************************************************************)
(* Port forwarding of a session: the watcher in the container              *)
(* (pkg/netstat) compares the open ports with those of its last pass and   *)
(* calls Forward and StopForward over the tunnel; the forwarder on the     *)
(* client (pkg/tunnel/forwarder.go) keeps a goroutine with a local listener*)
(* per port (pkg/ssh/forward.go).  RunServices starts everything again,    *)
(* with a new forwarder, when the connection of the services is lost.      *)
(* Other programs of the client's host, another session among them, may    *)
(* have the local port: then the forward fails, and that is only logged.   *)
(* With EXIT_AFTER_TIMEOUT the extra ports end the client once no          *)
(* connection has used them for a while (connection_counter.go).           *)
(***************************************************************************)
EXTENDS Naturals, FiniteSets

CONSTANTS Ports,            \* ports a program in the container or on the host may open
          FixedPorts,       \* ports of devcontainer.json, forwarded anyway
          MaxPortChanges,   \* bound: programs that start or stop listening
          MaxBreaks,        \* bound: lost connections of the services
          MaxConnections    \* bound: connections to the extra port

ASSUME PortAssumption ==
    /\ FixedPorts \subseteq Ports
    /\ MaxPortChanges \in Nat /\ MaxBreaks \in Nat /\ MaxConnections \in Nat

VARIABLES open,        \* ports that are listened on in the container
          changes,
          gen,         \* the forwarder: one more with every retry
          watched,     \* Watcher.forwardedPorts
          pass,        \* runOnce: the ports found and the calls left
          portMap,     \* forwarder.portMap: ports with a cancel function
          starting,    \* goroutines that have not listened yet: <<gen, port>>
          listener,    \* the goroutine, or other program, that listens locally, per port
          refused,     \* history: ports whose last forward found another program there
          stopped,     \* goroutines whose context is cancelled
          conns,       \* connections to the extra port
          made,        \* connections made so far
          generation,  \* connectionCounter.generation
          timers,      \* running timeouts: <<generation, connections made>>
          exited       \* the timeout ended the client: what its timer knew

portVars == <<open, changes, gen, watched, pass, portMap, starting, listener,
              refused, stopped, conns, made, generation, timers, exited>>

Free == <<0, "free">>
Other == <<0, "other">>
NoPass == [new |-> {}, stop |-> {}, start |-> {}, on |-> FALSE]
Forwards == (0..(MaxBreaks + 1)) \X Ports   \* those of devcontainer.json are the 0th
Running == exited = {}

\* The shape of the state.
PortTypeOK ==
    /\ open \subseteq Ports /\ changes \in 0..MaxPortChanges
    /\ gen \in 1..(MaxBreaks + 1)
    /\ watched \subseteq Ports /\ portMap \subseteq Ports
    /\ pass \in [new : SUBSET Ports, stop : SUBSET Ports, start : SUBSET Ports,
                 on : BOOLEAN]
    /\ refused \subseteq Ports
    /\ starting \subseteq Forwards /\ stopped \subseteq Forwards
    /\ listener \in [Ports -> Forwards \cup {Free, Other}]
    /\ conns \in 0..MaxConnections /\ made \in 0..MaxConnections
    /\ generation \in 0..MaxConnections
    /\ timers \subseteq (0..MaxConnections) \X (0..MaxConnections)
    /\ exited \subseteq (0..MaxConnections) \X (0..MaxConnections)

\* RunServices: the ports of devcontainer.json are forwarded once, whether that
\* succeeds or not; the watcher and its forwarder start with nothing.
PortInit ==
    /\ open \in SUBSET Ports /\ changes = 0 /\ gen = 1
    /\ watched = {} /\ pass = NoPass /\ portMap = {}
    /\ starting = {0} \X FixedPorts /\ stopped = {} /\ refused = {}
    /\ listener \in [Ports -> {Free, Other}]
    /\ conns = 0 /\ made = 0 /\ generation = 0 /\ timers = {} /\ exited = {}

counterVars == <<conns, made, generation, timers, exited>>

----------------------------------------------------------------------------
Program(p) ==
    /\ changes < MaxPortChanges
    /\ changes' = changes + 1
    /\ open' = IF p \in open THEN open \ {p} ELSE open \cup {p}
    /\ UNCHANGED <<gen, watched, pass, portMap, starting, listener, refused, stopped>>
    /\ UNCHANGED counterVars

\* Another program on the client's host takes a local port, or gives it back.
OtherProgram(p) ==
    /\ changes < MaxPortChanges
    /\ changes' = changes + 1
    /\ \/ listener[p] = Free /\ listener' = [listener EXCEPT ![p] = Other]
       \/ listener[p] = Other /\ listener' = [listener EXCEPT ![p] = Free]
    /\ UNCHANGED <<open, gen, watched, pass, portMap, starting, refused, stopped>>
    /\ UNCHANGED counterVars

\* runOnce: what is open now against what was open then.  A pass comes every
\* three seconds: the goroutines that the last one started or stopped are
\* through with it.
FindPorts ==
    /\ Running /\ ~pass.on
    /\ starting = {} /\ \A p \in Ports : listener[p] \notin stopped
    /\ pass' = [new |-> open, stop |-> watched \ open, start |-> open \ watched,
                on |-> TRUE]
    /\ UNCHANGED <<open, changes, gen, watched, portMap, starting, listener, refused, stopped>>
    /\ UNCHANGED counterVars

\* forwarder.StopForward: the goroutine in the map is cancelled.
StopForward(p) ==
    /\ Running /\ p \in pass.stop
    /\ pass' = [pass EXCEPT !.stop = @ \ {p}]
    /\ portMap' = portMap \ {p}
    /\ stopped' = IF p \in portMap THEN stopped \cup {<<gen, p>>} ELSE stopped
    /\ UNCHANGED <<open, changes, gen, watched, starting, listener, refused>>
    /\ UNCHANGED counterVars

\* Mutant: an open port is noted and not forwarded.
ForwardUnstarted(p) ==
    /\ Running /\ pass.stop = {} /\ p \in pass.start
    /\ pass' = [pass EXCEPT !.start = @ \ {p}]
    /\ portMap' = portMap \cup {p}
    /\ starting' = starting
    /\ UNCHANGED <<open, changes, gen, watched, listener, refused, stopped>>
    /\ UNCHANGED counterVars

\* forwarder.Forward: not a port that is forwarded otherwise or already.
Forward(p) ==
    /\ Running /\ pass.stop = {} /\ p \in pass.start
    /\ pass' = [pass EXCEPT !.start = @ \ {p}]
    /\ IF p \in FixedPorts \cup portMap
       THEN UNCHANGED <<portMap, starting, stopped>>
       ELSE /\ portMap' = portMap \cup {p}
            /\ starting' = starting \cup {<<gen, p>>}
            /\ stopped' = stopped \ {<<gen, p>>}
    /\ UNCHANGED <<open, changes, gen, watched, listener, refused>>
    /\ UNCHANGED counterVars

\* The pass is over only when every call succeeded.
PassDone ==
    /\ Running /\ pass.on /\ pass.stop = {} /\ pass.start = {}
    /\ watched' = pass.new
    /\ pass' = NoPass
    /\ UNCHANGED <<open, changes, gen, portMap, starting, listener, refused, stopped>>
    /\ UNCHANGED counterVars

\* PortForward: net.Listen fails when another goroutine or program has the port; the
\* error is logged, the map keeps its entry, and nothing tries again.
Listen(f) ==
    /\ Running /\ f \in starting
    /\ starting' = starting \ {f}
    /\ CASE listener[f[2]] = Free  -> /\ listener' = [listener EXCEPT ![f[2]] = f]
                                      /\ refused' = refused \ {f[2]}
         [] listener[f[2]] = Other -> refused' = refused \cup {f[2]} /\ UNCHANGED listener
         [] OTHER                  -> UNCHANGED <<listener, refused>>
    /\ UNCHANGED <<open, changes, gen, watched, pass, portMap, stopped>>
    /\ UNCHANGED counterVars

\* portForwarding: the listener of a cancelled goroutine is closed.
ListenerCloses(p) ==
    /\ listener[p] \in stopped
    /\ listener' = [listener EXCEPT ![p] = Free]
    /\ UNCHANGED <<open, changes, gen, watched, pass, portMap, starting, refused, stopped>>
    /\ UNCHANGED counterVars

\* The connection of the services is lost: retry.OnError starts a new
\* credentials server and a new forwarder; the goroutines of the old one keep
\* their listeners, for their contexts are their own.
ServicesRetry ==
    /\ Running /\ gen <= MaxBreaks
    /\ gen' = gen + 1
    /\ watched' = {} /\ pass' = NoPass /\ portMap' = {}
    /\ UNCHANGED <<open, changes, starting, listener, refused, stopped>>
    /\ UNCHANGED counterVars

----------------------------------------------------------------------------
\* connectionCounter.Add and Dec, and the timeout of Dec.
ConnectionAdd ==
    /\ Running /\ made < MaxConnections
    /\ conns' = conns + 1 /\ made' = made + 1
    /\ UNCHANGED <<open, changes, gen, watched, pass, portMap, starting, listener,
                   refused, stopped, generation, timers, exited>>

ConnectionDec ==
    /\ Running /\ conns > 0
    /\ conns' = conns - 1
    /\ IF conns = 1
       THEN /\ generation' = generation + 1
            /\ timers' = timers \cup {<<generation + 1, made>>}
       ELSE UNCHANGED <<generation, timers>>
    /\ UNCHANGED <<open, changes, gen, watched, pass, portMap, starting, listener,
                   refused, stopped, made, exited>>

Timeout(t) ==
    /\ Running /\ t \in timers
    /\ timers' = timers \ {t}
    /\ exited' = IF t[1] = generation /\ conns = 0 THEN {t} ELSE {}
    /\ UNCHANGED <<open, changes, gen, watched, pass, portMap, starting, listener,
                   refused, stopped, conns, made, generation>>

----------------------------------------------------------------------------
PortNext ==
    \/ \E p \in Ports : \/ Program(p) \/ OtherProgram(p) \/ StopForward(p)
                        \/ Forward(p) \/ ListenerCloses(p)
    \/ \E f \in Forwards : Listen(f)
    \/ FindPorts \/ PassDone \/ ServicesRetry
    \/ ConnectionAdd \/ ConnectionDec \/ \E t \in timers : Timeout(t)

PortFairness ==
    /\ WF_portVars(FindPorts) /\ WF_portVars(PassDone)
    /\ \A p \in Ports : /\ WF_portVars(StopForward(p)) /\ WF_portVars(Forward(p))
                        /\ WF_portVars(ListenerCloses(p))
    /\ \A f \in Forwards : WF_portVars(Listen(f))

PortSpec == PortInit /\ [][PortNext]_portVars /\ PortFairness

----------------------------------------------------------------------------
Forwarded(p) == listener[p] \in Forwards

\* A port that stays open in the container is forwarded sooner or later and
\* stays so, through every lost connection: the watcher starts anew, and a new
\* forwarder that finds the port taken by its predecessor loses nothing.  Except
\* where the last forward found another program on the local port: no pass and no
\* retry comes back to it, even when that program is gone.
OpenPortsForwarded ==
    \A p \in Ports : <>[](p \in open \ refused /\ Running) => <>[]Forwarded(p)

\* The timeout of an extra port ends the client only when no connection was
\* made while it ran: a connection that came and went starts a new timeout.
IdleForWholeTimeout == \A t \in exited : t[2] = made /\ conns = 0
=============================================================================
