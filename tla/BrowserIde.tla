----------------------------- MODULE BrowserIde -----------------------------
(***************************************************************************)
(* An IDE in the browser (cmd/up.go): after up each process looks for a    *)
(* free local port, starts a goroutine that opens the browser once the     *)
(* port answers, a backhaul ssh process that keeps an agent socket alive,  *)
(* and a tunnel through a second ssh process over which the port is        *)
(* forwarded to the IDE in the container.  Several workspaces do this on   *)
(* the same computer, with the same default port.                          *)
(***************************************************************************)
EXTENDS Integers, FiniteSets

CONSTANTS BrowserUps,   \* up processes, each with a workspace of its own
          LastPort      \* ports 1 (the default) .. LastPort are searched

ASSUME BrowserIdeAssumption == LastPort \in Nat \ {0}

BrowserPorts == 1..LastPort

VARIABLES up,         \* each process: pc, port, whether its port was given by the user
          idePort,   \* who listens on a local port
          opener,     \* the goroutine that opens the browser
          shown,      \* whose IDE the browser shows
          backhaul, helper,   \* the two ssh processes
          clash       \* processes that chose a port another one had chosen, too

browserVars == <<up, idePort, opener, shown, backhaul, helper, clash>>

BrowserInit ==
    /\ up \in [BrowserUps -> {[pc |-> "start", port |-> 1, bound |-> b, reason |-> "none"] : b \in BOOLEAN}]
    /\ idePort = [p \in BrowserPorts |-> {}]
    /\ opener = [u \in BrowserUps |-> "none"] /\ shown = [u \in BrowserUps |-> {}]
    /\ backhaul = [u \in BrowserUps |-> "none"] /\ helper = [u \in BrowserUps |-> "none"]
    /\ clash = {}

IdeAt(u, pc) == up[u].pc = pc
Going(u) == up[u].pc # "returned"

\* Mutant: the default port, free or not.
FindDefaultPort == {1}

\* FindAvailablePort: the first port nobody listens on.  It ends with an error if there
\* is none, or if a port it comes to neither accepts a connection nor can be listened on.
FindAvailablePort ==
    {p \in BrowserPorts : idePort[p] = {} /\ \A q \in 1..p - 1 : idePort[q] # {}}

Choose(u, p) ==
    /\ up' = [up EXCEPT ![u].pc = "tunnel", ![u].port = p]
    /\ opener' = [opener EXCEPT ![u] = "polling"]
    /\ clash' = LET same == {v \in BrowserUps \ {u} : /\ Going(v) /\ up[v].pc # "start" /\ up[v].port = p
                                                      /\ idePort[p] # {v}}
                IN IF same = {} THEN clash ELSE clash \cup same \cup {u}

\* startVSCodeInBrowser and the like; parseAddressAndPort takes the port the user gave.
ParseAddressAndPort(u) ==
    /\ IdeAt(u, "start")
    /\ \/ up[u].bound /\ Choose(u, 1)
       \/ ~up[u].bound /\ \E p \in FindAvailablePort : Choose(u, p)
       \/ /\ ~up[u].bound
          /\ up' = [up EXCEPT ![u].pc = "returned", ![u].reason = "port"]
          /\ UNCHANGED <<opener, clash>>
    /\ UNCHANGED <<idePort, shown, backhaul, helper>>

\* startBrowserTunnel: the backhaul if there is an agent socket, and the ssh process of
\* the tunnel.
StartBrowserTunnel(u) ==
    /\ IdeAt(u, "tunnel")
    /\ up' = [up EXCEPT ![u].pc = "connect"]
    /\ helper' = [helper EXCEPT ![u] = "running"]
    /\ backhaul' \in {backhaul, [backhaul EXCEPT ![u] = "running"]}
    /\ UNCHANGED <<idePort, opener, shown, clash>>

\* The handler of NewTunnel: RunServices forwards the port.  A port that is taken is
\* only logged, and the command goes on.
RunServices(u) ==
    /\ IdeAt(u, "connect") /\ helper[u] = "running"
    /\ up' = [up EXCEPT ![u].pc = "serving"]
    /\ idePort' = IF idePort[up[u].port] = {} THEN [idePort EXCEPT ![up[u].port] = {u}] ELSE idePort
    /\ UNCHANGED <<opener, shown, backhaul, helper, clash>>

\* tryOpen: once a second until the url answers ...
TryOpen(u) ==
    /\ opener[u] = "polling" /\ Going(u)
    /\ idePort[up[u].port] # {}
    /\ opener' = [opener EXCEPT ![u] = "reachable"]
    /\ UNCHANGED <<up, idePort, shown, backhaul, helper, clash>>

\* ... and a second later the browser is started.
OpenBrowser(u) ==
    /\ opener[u] = "reachable" /\ Going(u)
    /\ opener' = [opener EXCEPT ![u] = "done"]
    /\ shown' = [shown EXCEPT ![u] = idePort[up[u].port]]
    /\ UNCHANGED <<up, idePort, backhaul, helper, clash>>

\* The ssh process of the tunnel or RunServices ends with an error, or the user
\* interrupts: the signal reaches the children in the foreground, too.
HelperEnds(u) ==
    /\ helper[u] = "running"
    /\ helper' = [helper EXCEPT ![u] = "ended"]
    /\ UNCHANGED <<up, idePort, opener, shown, backhaul, clash>>

\* An interrupt before the tunnel is begun finds no children: a backhaul that is still
\* started is not tied to the context.
Interrupt(u) ==
    /\ Going(u) /\ up[u].reason = "none"
    /\ up' = [up EXCEPT ![u].reason = IF up[u].pc \in {"start", "tunnel"} THEN "early" ELSE "interrupt"]
    /\ helper' = [helper EXCEPT ![u] = IF @ = "running" THEN "ended" ELSE @]
    /\ backhaul' = [backhaul EXCEPT ![u] = IF @ = "running" THEN "ended" ELSE @]
    /\ UNCHANGED <<idePort, opener, shown, clash>>

\* Whichever of the two tunnel goroutines ends first ends the process, and its
\* listeners with it.
BrowserReturn(u) ==
    /\ Going(u) /\ (helper[u] = "ended" \/ up[u].reason # "none")
    /\ up' = [up EXCEPT ![u].pc = "returned"]
    /\ idePort' = [p \in BrowserPorts |-> idePort[p] \ {u}]
    /\ helper' = [helper EXCEPT ![u] = IF @ = "running" THEN "ended" ELSE @]
    /\ UNCHANGED <<opener, shown, backhaul, clash>>

BrowserStep(u) ==
    \/ ParseAddressAndPort(u) \/ StartBrowserTunnel(u) \/ RunServices(u)
    \/ TryOpen(u) \/ OpenBrowser(u) \/ BrowserReturn(u)

BrowserNext == \E u \in BrowserUps : BrowserStep(u) \/ HelperEnds(u) \/ Interrupt(u)

BrowserSpec == BrowserInit /\ [][BrowserNext]_browserVars

-----------------------------------------------------------------------------
\* The browser never shows the IDE of another workspace, although all of them want the
\* same port, and listeners come and go, unless two processes chose the port before
\* either of them listened, or the user gave it.
OwnIdeShown ==
    \A u \in BrowserUps : u \notin clash /\ ~up[u].bound => shown[u] \subseteq {u}

=============================================================================
