-------------------------- MODULE Processes_proofs --------------------------
(***************************************************************************)
(* Theorems about processes of devpod that run beside each other: any      *)
(* number of devpod up with an IDE in the browser (BrowserIde), and any    *)
(* number of clients that inject the agent, with any number of attempts    *)
(* and faults (AgentInject), and the daemon in the container with any      *)
(* number of sessions, intervals and timeouts (ContainerDaemon).           *)
(***************************************************************************)
EXTENDS BrowserIde, AgentInject, ContainerDaemon, TLAPS

-----------------------------------------------------------------------------
(* Ports of IDEs in the browser *)

UpPcs == {"start", "tunnel", "connect", "serving", "returned"}

BrowserTypeOK ==
    /\ up \in [BrowserUps -> [pc : UpPcs, port : BrowserPorts, bound : BOOLEAN,
                              reason : {"none", "port", "early", "interrupt"}]]
    /\ idePort \in [BrowserPorts -> SUBSET BrowserUps]
    /\ shown \in [BrowserUps -> SUBSET BrowserUps]
    /\ opener \in [BrowserUps -> {"none", "polling", "reachable", "done"}]
    /\ clash \subseteq BrowserUps

\* A process that has a port and is not over.
Chosen(u) == up[u].pc \in {"tunnel", "connect", "serving"}

\* A process that searched its port, and met nobody there.
Alone(u) == u \notin clash /\ ~up[u].bound

\* On the port of such a process nobody else listens ...
OwnPortOnly == \A u \in BrowserUps : Chosen(u) /\ Alone(u) => idePort[up[u].port] \subseteq {u}

\* ... and another process has the same port only because it was told to use it when
\* the first one listened already, and cannot get it.
SharedIsTaken ==
    \A u, v \in BrowserUps :
        u # v /\ Chosen(u) /\ Chosen(v) /\ Alone(u) /\ up[u].port = up[v].port
            => idePort[up[u].port] = {u}

\* The goroutine that opens the browser starts with the choice of the port.
OpenerWaits == \A u \in BrowserUps : up[u].pc = "start" => opener[u] = "none"

BrowserInv == BrowserTypeOK /\ OpenerWaits /\ OwnPortOnly /\ SharedIsTaken /\ OwnIdeShown

\* The initial states satisfy the invariant.
LEMMA BrowserInvInit == BrowserInit => BrowserInv
<1> SUFFICES ASSUME BrowserInit PROVE BrowserInv
  OBVIOUS
<1>0. 1 \in BrowserPorts BY BrowserIdeAssumption DEF BrowserPorts
<1>1. BrowserTypeOK
  BY <1>0 DEF BrowserInit, BrowserTypeOK, UpPcs
<1>2. \A u \in BrowserUps : up[u].pc = "start"
  BY DEF BrowserInit
<1> QED
  BY <1>1, <1>2 DEF BrowserInit, BrowserInv, OpenerWaits, OwnPortOnly, SharedIsTaken, OwnIdeShown, Chosen

\* Steps that leave port and place of every process that has one, and the listeners,
\* alone.
LEMMA PortsKept ==
    ASSUME BrowserInv, BrowserTypeOK', OpenerWaits', UNCHANGED <<idePort, shown, clash>>,
           \A u \in BrowserUps : /\ Chosen(u)' => Chosen(u)
                                 /\ up'[u].port = up[u].port /\ up'[u].bound = up[u].bound
    PROVE  BrowserInv'
  BY DEF BrowserInv, OwnPortOnly, SharedIsTaken, OwnIdeShown, Alone

\* A process chooses a port: one that is free, or the one it was told.
LEMMA ChooseKeeps ==
    ASSUME BrowserInv, NEW u \in BrowserUps, NEW p \in BrowserPorts,
           IdeAt(u, "start"), Choose(u, p), up[u].bound \/ idePort[p] = {},
           UNCHANGED <<idePort, shown>>
    PROVE  BrowserInv'
<1> DEFINE same == {v \in BrowserUps \ {u} : /\ Going(v) /\ up[v].pc # "start" /\ up[v].port = p
                                             /\ idePort[p] # {v}}
<1>t. BrowserTypeOK BY DEF BrowserInv
<1>1. /\ up' = [up EXCEPT ![u].pc = "tunnel", ![u].port = p]
      /\ opener' = [opener EXCEPT ![u] = "polling"]
      /\ clash' = IF same = {} THEN clash ELSE clash \cup same \cup {u}
  BY DEF Choose
<1>2. /\ clash \subseteq clash' /\ same \subseteq clash' /\ (same # {} => u \in clash')
      /\ clash' \subseteq BrowserUps
  BY <1>1, <1>t DEF BrowserTypeOK
<1>3. /\ up'[u].port = p /\ up'[u].bound = up[u].bound /\ up'[u].pc = "tunnel"
      /\ \A v \in BrowserUps \ {u} : up'[v] = up[v]
  BY <1>1, <1>t DEF BrowserTypeOK
<1>4. BrowserTypeOK'
  <2> DEFINE U == [pc : UpPcs, port : BrowserPorts, bound : BOOLEAN,
                   reason : {"none", "port", "early", "interrupt"}]
  <2>1. up[u] \in U BY <1>t DEF BrowserTypeOK
  <2>2. [up[u] EXCEPT !.pc = "tunnel", !.port = p] \in U BY <2>1 DEF UpPcs
  <2>3. up' \in [BrowserUps -> U]
    <3>1. up'[u] = [up[u] EXCEPT !.pc = "tunnel", !.port = p] BY <1>1, <1>t DEF BrowserTypeOK
    <3>2. \A v \in BrowserUps : up[v] \in U BY <1>t DEF BrowserTypeOK
    <3>3. up' = [v \in BrowserUps |-> up'[v]] BY <1>1, <1>t DEF BrowserTypeOK
    <3> HIDE DEF U
    <3>4. \A v \in BrowserUps : up'[v] \in U BY <1>3, <2>2, <3>1, <3>2
    <3> QED BY <3>3, <3>4
  <2>4. opener' \in [BrowserUps -> {"none", "polling", "reachable", "done"}]
    BY <1>1, <1>t DEF BrowserTypeOK
  <2> QED BY <1>2, <1>t, <2>3, <2>4 DEF BrowserTypeOK
<1>5. \A v \in BrowserUps : Chosen(v) => Going(v) /\ up[v].pc # "start"
  BY DEF Chosen, Going
<1>6. \A v \in BrowserUps \ {u} : Chosen(v) /\ up[v].port = p /\ v \notin clash' => idePort[p] = {v}
  BY <1>2, <1>5
<1>7. u \notin clash' => \A v \in BrowserUps \ {u} : Chosen(v) /\ up[v].port = p => idePort[p] = {v}
  BY <1>2, <1>5
<1> HIDE DEF same
<1>8. OwnPortOnly'
  BY <1>2, <1>3 DEF BrowserInv, OwnPortOnly, Alone, Chosen
<1>9. SharedIsTaken'
  <2> SUFFICES ASSUME NEW v \in BrowserUps, NEW w \in BrowserUps,
                      v # w, Chosen(v)', Chosen(w)', Alone(v)', up'[v].port = up'[w].port
               PROVE  idePort[up'[v].port] = {v}
    BY DEF SharedIsTaken
  <2>1. CASE v = u
    <3>1. Chosen(w) /\ up[w].port = p /\ u \notin clash' /\ ~up[u].bound
      BY <2>1, <1>3 DEF Chosen, Alone
    <3>2. idePort[p] = {w} BY <2>1, <3>1, <1>7
    <3> QED BY <3>1, <3>2
  <2>2. CASE w = u
    BY <2>2, <1>3, <1>6 DEF Chosen, Alone
  <2>3. CASE v # u /\ w # u
    BY <2>3, <1>2, <1>3 DEF BrowserInv, SharedIsTaken, Chosen, Alone
  <2> QED BY <2>1, <2>2, <2>3
<1>10. OwnIdeShown'
  BY <1>2, <1>3 DEF BrowserInv, OwnIdeShown
<1>11. OpenerWaits'
  BY <1>1, <1>3, <1>t DEF BrowserInv, OpenerWaits, BrowserTypeOK
<1> QED BY <1>4, <1>8, <1>9, <1>10, <1>11 DEF BrowserInv

\* Every step of every process keeps it.
LEMMA BrowserInvNext == BrowserInv /\ [BrowserNext]_browserVars => BrowserInv'
<1> SUFFICES ASSUME BrowserInv, [BrowserNext]_browserVars PROVE BrowserInv'
  OBVIOUS
<1>t. BrowserTypeOK BY DEF BrowserInv
<1> USE DEF IdeAt
<1>1. ASSUME NEW u \in BrowserUps, ParseAddressAndPort(u) PROVE BrowserInv'
  <2>1. up[u].pc = "start" /\ UNCHANGED <<idePort, shown>>
    BY <1>1 DEF ParseAddressAndPort
  <2>2. CASE up[u].bound /\ Choose(u, 1)
    <3>1. 1 \in BrowserPorts BY BrowserIdeAssumption DEF BrowserPorts
    <3> QED BY <2>1, <2>2, <3>1, ChooseKeeps
  <2>3. ASSUME NEW p \in FindAvailablePort, Choose(u, p) PROVE BrowserInv'
    <3>1. p \in BrowserPorts /\ idePort[p] = {} BY DEF FindAvailablePort
    <3> QED BY <2>1, <2>3, <3>1, ChooseKeeps
  <2>4. CASE up' = [up EXCEPT ![u].pc = "returned", ![u].reason = "port"] /\ UNCHANGED <<opener, clash>>
    <3>1. BrowserTypeOK' BY ZenonT(60), <1>t, <2>1, <2>4 DEF BrowserTypeOK, UpPcs
    <3>2. \A v \in BrowserUps : /\ Chosen(v)' => Chosen(v)
                                /\ up'[v].port = up[v].port /\ up'[v].bound = up[v].bound
      BY <1>t, <2>4 DEF BrowserTypeOK, Chosen
    <3>3. OpenerWaits' BY <1>t, <2>4 DEF BrowserTypeOK, BrowserInv, OpenerWaits
    <3> QED BY <2>1, <2>4, <3>1, <3>2, <3>3, PortsKept
  <2> QED BY <1>1, <2>2, <2>3, <2>4 DEF ParseAddressAndPort
<1>2. ASSUME NEW u \in BrowserUps, StartBrowserTunnel(u) PROVE BrowserInv'
  <2>1. BrowserTypeOK' BY <1>t, <1>2 DEF StartBrowserTunnel, BrowserTypeOK, UpPcs
  <2>2. \A v \in BrowserUps : /\ Chosen(v)' => Chosen(v)
                              /\ up'[v].port = up[v].port /\ up'[v].bound = up[v].bound
    BY <1>t, <1>2 DEF StartBrowserTunnel, BrowserTypeOK, Chosen
  <2>3. OpenerWaits' BY <1>t, <1>2 DEF StartBrowserTunnel, BrowserTypeOK, BrowserInv, OpenerWaits
  <2> QED BY <1>2, <2>1, <2>2, <2>3, PortsKept DEF StartBrowserTunnel
<1>3. ASSUME NEW u \in BrowserUps, RunServices(u) PROVE BrowserInv'
  <2>1. BrowserTypeOK' BY <1>t, <1>3 DEF RunServices, BrowserTypeOK, UpPcs
  <2>2. \A v \in BrowserUps : /\ Chosen(v)' => Chosen(v)
                              /\ up'[v].port = up[v].port /\ up'[v].bound = up[v].bound
    BY <1>t, <1>3 DEF RunServices, BrowserTypeOK, Chosen
  <2>w. OpenerWaits' BY <1>t, <1>3 DEF RunServices, BrowserTypeOK, BrowserInv, OpenerWaits
  <2>3. CASE idePort[up[u].port] # {}
    BY <1>3, <2>1, <2>2, <2>w, <2>3, PortsKept DEF RunServices
  <2>4. CASE idePort[up[u].port] = {}
    <3>0. UNCHANGED <<clash, shown>> BY <1>3 DEF RunServices
    <3>1. Chosen(u) BY <1>3 DEF RunServices, Chosen
    <3>2. /\ idePort'[up[u].port] = {u}
          /\ \A p \in BrowserPorts : p # up[u].port => idePort'[p] = idePort[p]
      BY <1>t, <1>3, <2>4 DEF RunServices, BrowserTypeOK
    <3>3. \A v \in BrowserUps : v # u /\ Chosen(v) /\ Alone(v) => up[v].port # up[u].port
      BY <2>4, <3>1 DEF BrowserInv, SharedIsTaken
    <3>4. \A v \in BrowserUps : up[v].port \in BrowserPorts BY <1>t DEF BrowserTypeOK
    <3>5. \A v \in BrowserUps : Alone(v)' <=> Alone(v) BY <2>2, <3>0 DEF Alone
    <3>6. OwnPortOnly'
      BY <2>2, <3>2, <3>3, <3>4, <3>5 DEF BrowserInv, OwnPortOnly
    <3>7. SharedIsTaken'
      BY <2>2, <3>2, <3>3, <3>4, <3>5 DEF BrowserInv, SharedIsTaken
    <3>8. OwnIdeShown'
      BY <2>2, <3>0 DEF BrowserInv, OwnIdeShown
    <3> QED BY <2>1, <2>w, <3>6, <3>7, <3>8 DEF BrowserInv
  <2> QED BY <2>3, <2>4
<1>4. ASSUME NEW u \in BrowserUps, TryOpen(u) \/ HelperEnds(u) PROVE BrowserInv'
  <2>1. UNCHANGED <<up, idePort, shown, clash>> BY <1>4 DEF TryOpen, HelperEnds
  <2>2. BrowserTypeOK' BY ZenonT(60), <1>t, <1>4 DEF TryOpen, HelperEnds, BrowserTypeOK
  <2>3. OpenerWaits'
    BY <1>t, <1>4 DEF TryOpen, HelperEnds, BrowserTypeOK, BrowserInv, OpenerWaits
  <2> QED BY <2>1, <2>2, <2>3, PortsKept DEF Chosen
<1>5. ASSUME NEW u \in BrowserUps, OpenBrowser(u) PROVE BrowserInv'
  <2>1. UNCHANGED <<up, idePort, clash>> BY <1>5 DEF OpenBrowser
  <2>2. BrowserTypeOK' BY <1>t, <1>5 DEF OpenBrowser, BrowserTypeOK
  <2>3. OwnPortOnly' /\ SharedIsTaken'
    BY <2>1 DEF BrowserInv, OwnPortOnly, SharedIsTaken, Chosen, Alone
  <2>4. /\ shown'[u] = idePort[up[u].port]
        /\ \A v \in BrowserUps \ {u} : shown'[v] = shown[v]
    BY <1>t, <1>5 DEF OpenBrowser, BrowserTypeOK
  <2>5. ASSUME Alone(u) PROVE idePort[up[u].port] \subseteq {u}
    <3>1. up[u].pc \in UpPcs \ {"returned"} BY <1>t, <1>5 DEF OpenBrowser, Going, BrowserTypeOK
    <3>2. CASE up[u].pc = "start"
      BY <1>5, <3>2 DEF BrowserInv, OpenerWaits, OpenBrowser
    <3>3. CASE Chosen(u)
      BY <2>5, <3>3 DEF BrowserInv, OwnPortOnly
    <3> QED BY <3>1, <3>2, <3>3 DEF UpPcs, Chosen
  <2>6. OwnIdeShown'
    BY <2>1, <2>4, <2>5 DEF BrowserInv, OwnIdeShown, Alone
  <2>7. OpenerWaits'
    BY <1>t, <1>5 DEF OpenBrowser, BrowserTypeOK, BrowserInv, OpenerWaits
  <2> QED BY <2>2, <2>3, <2>6, <2>7 DEF BrowserInv
<1>6. ASSUME NEW u \in BrowserUps, Interrupt(u) PROVE BrowserInv'
  <2>1. BrowserTypeOK' BY <1>t, <1>6 DEF Interrupt, BrowserTypeOK, UpPcs
  <2>2. \A v \in BrowserUps : /\ Chosen(v)' => Chosen(v)
                              /\ up'[v].port = up[v].port /\ up'[v].bound = up[v].bound
    BY <1>t, <1>6 DEF Interrupt, BrowserTypeOK, Chosen
  <2>3. OpenerWaits' BY <1>t, <1>6 DEF Interrupt, BrowserTypeOK, BrowserInv, OpenerWaits
  <2> QED BY <1>6, <2>1, <2>2, <2>3, PortsKept DEF Interrupt
<1>7. ASSUME NEW u \in BrowserUps, BrowserReturn(u) PROVE BrowserInv'
  <2>0. UNCHANGED <<clash, shown>> BY <1>7 DEF BrowserReturn
  <2>1. BrowserTypeOK' BY <1>t, <1>7 DEF BrowserReturn, BrowserTypeOK, UpPcs
  <2>2. /\ \A v \in BrowserUps : /\ Chosen(v)' => Chosen(v) /\ v # u
                                 /\ up'[v].port = up[v].port /\ up'[v].bound = up[v].bound
        /\ \A p \in BrowserPorts : idePort'[p] = idePort[p] \ {u}
    BY <1>t, <1>7 DEF BrowserReturn, BrowserTypeOK, Chosen
  <2>3. \A v \in BrowserUps : up[v].port \in BrowserPorts BY <1>t DEF BrowserTypeOK
  <2>4. \A v \in BrowserUps : Alone(v)' <=> Alone(v) BY <2>0, <2>2 DEF Alone
  <2>5. OwnPortOnly' BY <2>2, <2>3, <2>4 DEF BrowserInv, OwnPortOnly
  <2>6. SharedIsTaken'
    <3> SUFFICES ASSUME NEW v \in BrowserUps, NEW w \in BrowserUps,
                        v # w, Chosen(v)', Chosen(w)', Alone(v)', up'[v].port = up'[w].port
                 PROVE  idePort'[up'[v].port] = {v}
      BY DEF SharedIsTaken
    <3>1. idePort[up[v].port] = {v} BY <2>2, <2>4 DEF BrowserInv, SharedIsTaken
    <3>2. v # u BY <2>2
    <3> QED BY <2>2, <2>3, <3>1, <3>2
  <2>7. OwnIdeShown' BY <2>0, <2>2 DEF BrowserInv, OwnIdeShown
  <2>8. OpenerWaits' BY <1>t, <1>7 DEF BrowserReturn, BrowserTypeOK, BrowserInv, OpenerWaits
  <2> QED BY <2>1, <2>5, <2>6, <2>7, <2>8 DEF BrowserInv
<1>8. CASE UNCHANGED browserVars
  BY <1>8 DEF browserVars, BrowserInv, BrowserTypeOK, OpenerWaits, OwnPortOnly, SharedIsTaken,
         OwnIdeShown, Chosen, Alone
<1> QED
  BY <1>1, <1>2, <1>3, <1>4, <1>5, <1>6, <1>7, <1>8 DEF BrowserNext, BrowserStep

\* The invariant holds in every reachable state.
LEMMA BrowserInvAlways == BrowserSpec => []BrowserInv
  BY BrowserInvInit, BrowserInvNext, PTL DEF BrowserSpec

\* For any number of up processes and ports: a browser never shows the IDE of another
\* workspace, unless two processes chose a port before either listened on it, or the
\* user gave the port.
THEOREM OwnIdeShownHolds == BrowserSpec => []OwnIdeShown
  BY BrowserInvAlways, PTL DEF BrowserInv

-----------------------------------------------------------------------------
(* Injecting the agent *)

AtPcs == {"idle", "ping", "line", "sending", "sent", "piping", "rerun", "rerunning", "sleeping",
          "ok", "failed"}
ShPcs == {"no", "start", "ping", "check", "remove", "download", "arm", "receive", "verify", "say",
          "command", "over"}

\* Where everybody is.
InjectPlaces ==
    /\ kind \in [Clients -> {"workspace", "dev", "container"}]
    /\ bin \in Binaries /\ cache \in Binaries
    /\ at \in [Clients -> AtPcs] /\ sh \in [Calls -> ShPcs]
    /\ line \in [Calls -> {"none", "ping", "arm", "done"}]
    /\ held \in [Calls -> BOOLEAN]
    /\ got \in [Calls -> {"none", "pong", "part", "own", "other"}]

\* What is counted and remembered.
InjectCounts ==
    /\ attempts \in [Clients -> 0..MaxAttempts] /\ faults \in 0..MaxInjectFaults
    /\ lostDone \in BOOLEAN /\ disturbed \subseteq Calls
    /\ runs \subseteq Calls \X {"script", "rerun"} \X Binaries \X BOOLEAN

\* An attempt has a script once it was made, and its streams are untouched before.
Started ==
    \A x \in Calls : /\ sh[x] = "no" <=> attempts[x[1]] < x[2]
                     /\ sh[x] = "no" => got[x] = "none" /\ line[x] = "none"

\* An attempt is made again only within the time, and only after the last was given up.
AttemptsLeft ==
    \A c \in Clients : /\ at[c] = "idle" <=> attempts[c] = 0
                       /\ at[c] = "sleeping" => attempts[c] < MaxAttempts /\ ~held[Cur(c)]

\* A client holds the streams of its last attempt only.
OnlyLastHeld == \A x \in Calls : sh[x] # "no" /\ held[x] => x[2] = attempts[x[1]]

\* The script before its answer.
Early == {"start", "ping", "check", "remove", "download", "arm", "verify", "say"}

\* While a script has not answered, a client that holds its streams waits for it.
EarlyIsAwaited ==
    \A x \in Calls : sh[x] \in Early /\ held[x]
                        => at[x[1]] \in {"ping", "line"} /\ line[x] \in {"none", "ping"}

\* A script that goes beyond the handshake was answered, and a client before the
\* handshake has not answered.
GoesOnAnswered ==
    /\ \A x \in Calls : sh[x] \notin {"no", "start", "ping", "over"} => got[x] # "none"
    /\ \A c \in Clients : at[c] = "ping" => got[Cur(c)] = "none"

\* A command that was started by the last attempt, whose client knows it, or has it on
\* its way, and will not try again.
OfLast(r) ==
    /\ r[1] = Cur(r[1][1])
    /\ at[r[1][1]] \in {"line", "piping", "rerunning", "ok", "failed"}
    /\ at[r[1][1]] = "line" => line[r[1]] = "done"

\* Unless a "done" was lost, every command was.
RunIsLast ==
    ~lostDone => \A r \in runs : OfLast(r)

\* A script that is about to start the command has seen the right binary, and knows
\* of it, or was disturbed.
OwnIsThere == \A x \in Calls : sh[x] = "say" /\ x \notin disturbed => bin = "own"

InjectInv ==
    /\ InjectPlaces /\ InjectCounts /\ Started /\ AttemptsLeft /\ OnlyLastHeld
    /\ EarlyIsAwaited /\ GoesOnAnswered /\ RunIsLast /\ OwnIsThere /\ OwnVersionRuns

\* An attempt is a client and a number.
LEMMA CallsArePairs ==
    ASSUME NEW x \in Calls
    PROVE  x = <<x[1], x[2]>> /\ x[1] \in Clients /\ x[2] \in 1..MaxAttempts
  BY DEF Calls

\* The initial states satisfy the invariant.
LEMMA InjectInvInit == InjectInit => InjectInv
<1> SUFFICES ASSUME InjectInit PROVE InjectInv
  OBVIOUS
<1>1. InjectPlaces BY DEF InjectInit, InjectPlaces, AtPcs, ShPcs, Binaries
<1>2. InjectCounts
  <2>1. attempts \in [Clients -> 0..MaxAttempts] BY InjectAssumption DEF InjectInit
  <2>2. faults \in 0..MaxInjectFaults BY InjectAssumption DEF InjectInit
  <2> QED BY <2>1, <2>2 DEF InjectInit, InjectCounts
<1>3. Started BY CallsArePairs DEF InjectInit, Started
<1>4. AttemptsLeft /\ OnlyLastHeld /\ EarlyIsAwaited /\ GoesOnAnswered /\ RunIsLast /\ OwnIsThere
      /\ OwnVersionRuns
  BY CallsArePairs
  DEF InjectInit, AttemptsLeft, OnlyLastHeld, EarlyIsAwaited, GoesOnAnswered, RunIsLast, OwnIsThere,
      OwnVersionRuns, Early, OfLast
<1> QED BY <1>1, <1>2, <1>3, <1>4 DEF InjectInv

\* Every step of a client, of a script and every fault keeps it.
LEMMA InjectInvNext == InjectInv /\ [InjectNext]_injectVars => InjectInv'
<1> SUFFICES ASSUME InjectInv, [InjectNext]_injectVars PROVE InjectInv'
  OBVIOUS
<1>a. InjectPlaces BY DEF InjectInv
<1>b. InjectCounts BY DEF InjectInv
<1>c. \A c \in Clients : at[c] # "idle" => Cur(c) \in Calls
  BY <1>b, InjectAssumption DEF InjectInv, AttemptsLeft, InjectCounts, Cur, Calls
<1>d. \A c \in Clients : Cur(c)[1] = c /\ Cur(c)[2] = attempts[c] BY DEF Cur
<1>e. \A x \in Calls : x = <<x[1], x[2]>> /\ x[1] \in Clients /\ x[2] \in 1..MaxAttempts
  BY CallsArePairs
<1>f. Fault => faults' \in 0..MaxInjectFaults
  BY <1>b, InjectAssumption DEF Fault, InjectCounts
<1>g. \A r \in runs : r[1] \in Calls /\ r[1][1] \in Clients
  BY <1>b, <1>e DEF InjectCounts
<1>l. \A x \in Calls : sh[x] # "no" /\ held[x] => x = Cur(x[1])
  BY <1>e DEF InjectInv, OnlyLastHeld, Cur
<1>r. ~lostDone => \A r \in runs : OfLast(r)
  BY DEF InjectInv, RunIsLast
<1>t. \A x \in Calls : sh[x] \in Early /\ held[x]
                          => at[x[1]] \in {"ping", "line"} /\ line[x] \in {"none", "ping"}
  BY DEF InjectInv, EarlyIsAwaited
<1>h. ASSUME NEW c \in Clients, at[c] \in {"ping", "line", "sent", "sending"}, Abandon(c),
             AfterError(c, FALSE), UNCHANGED <<attempts, sh, runs>>
      PROVE  AttemptsLeft' /\ EarlyIsAwaited' /\ RunIsLast'
  <2>1. \A d \in Clients : Cur(d)' = Cur(d) BY <1>h DEF Cur
  <2>2. Cur(c) \in Calls /\ Cur(c)[1] = c BY <1>h, <1>c, <1>d
  <2>3. \A d \in Clients : d # c => at'[d] = at[d] BY <1>a, <1>h DEF AfterError, InjectPlaces
  <2>4. at'[c] \in {"failed", "sleeping"} /\ (at'[c] = "sleeping" => attempts[c] # MaxAttempts)
    BY <1>a, <1>h DEF AfterError, InjectPlaces
  <2>5. ~held'[Cur(c)] BY <1>a, <1>h, <2>2 DEF Abandon, InjectPlaces
  <2>6. \A x \in Calls : x # Cur(c) => held'[x] = held[x] /\ line'[x] = line[x]
    BY <1>a, <1>h DEF Abandon, InjectPlaces
  <2>7. AttemptsLeft'
    <3> SUFFICES ASSUME NEW d \in Clients
                 PROVE  /\ at'[d] = "idle" <=> attempts[d] = 0
                        /\ at'[d] = "sleeping" => attempts[d] < MaxAttempts /\ ~held'[Cur(d)]
      BY <1>h, <2>1 DEF AttemptsLeft
    <3>1. /\ at[d] = "idle" <=> attempts[d] = 0
          /\ at[d] = "sleeping" => attempts[d] < MaxAttempts /\ ~held[Cur(d)]
      BY DEF InjectInv, AttemptsLeft
    <3>2. CASE d = c
      <4>1. attempts[c] \in 0..MaxAttempts BY <1>b DEF InjectCounts
      <4> QED BY <3>1, <3>2, <4>1, <1>h, <2>4, <2>5, InjectAssumption
    <3>3. CASE d # c
      <4>1. Cur(d) # Cur(c) BY <1>d, <3>3
      <4>2. at[d] = "sleeping" => Cur(d) \in Calls BY <1>c
      <4> QED BY <2>3, <2>6, <3>1, <3>3, <4>1, <4>2
    <3> QED BY <3>2, <3>3
  <2>8. EarlyIsAwaited'
    <3> SUFFICES ASSUME NEW x \in Calls, sh[x] \in Early, held'[x]
                 PROVE  at'[x[1]] \in {"ping", "line"} /\ line'[x] \in {"none", "ping"}
      BY <1>h DEF EarlyIsAwaited
    <3>1. x # Cur(c) BY <2>5
    <3>2. held[x] /\ line'[x] = line[x] BY <2>6, <3>1
    <3>3. x[1] \in Clients /\ x = Cur(x[1]) BY <1>e, <1>l, <3>2 DEF Early
    <3>4. at'[x[1]] = at[x[1]] BY <2>3, <3>1, <3>3
    <3> QED BY <1>t, <3>2, <3>4
  <2>9. RunIsLast'
    <3> SUFFICES ASSUME ~lostDone', NEW r \in runs
                 PROVE  /\ r[1] = Cur(r[1][1])
                        /\ at'[r[1][1]] \in {"line", "piping", "rerunning", "ok", "failed"}
                        /\ at'[r[1][1]] = "line" => line'[r[1]] = "done"
      BY <1>g, <1>h, <2>1 DEF RunIsLast, OfLast
    <3>1. ~lostDone /\ line[Cur(c)] # "done" BY <1>h DEF Abandon
    <3>2. r[1] \in Calls /\ r[1][1] \in Clients BY <1>g
    <3>i. OfLast(r) BY <1>r, <3>1
    <3>3. r[1][1] # c BY <1>h, <3>i, <3>1 DEF OfLast
    <3>4. r[1] # Cur(c) BY <2>2, <3>3
    <3> QED BY <2>3, <2>6, <3>i, <3>2, <3>3, <3>4 DEF OfLast
  <2> QED BY <2>7, <2>8, <2>9
<1>1. ASSUME NEW c \in Clients, Attempt(c) PROVE InjectInv'
  <2>p. attempts[c] \in 0..MaxAttempts /\ attempts[c] < MaxAttempts /\ attempts[c] + 1 \in 1..MaxAttempts
    BY <1>1, <1>b, InjectAssumption DEF InjectInv, AttemptsLeft, InjectCounts, Attempt
  <2>q. /\ attempts'[c] = attempts[c] + 1 /\ at'[c] = "ping"
        /\ \A d \in Clients : d # c => attempts'[d] = attempts[d] /\ at'[d] = at[d]
    BY <1>1, <1>a, <1>b DEF Attempt, InjectPlaces, InjectCounts
  <2>n. <<c, attempts[c] + 1>> \in Calls BY <2>p DEF Calls
  <2>s. /\ sh'[<<c, attempts[c] + 1>>] = "start"
        /\ \A y \in Calls : y # <<c, attempts[c] + 1>> => sh'[y] = sh[y]
    BY <1>1, <1>a, <2>n DEF Attempt, InjectPlaces
  <2>o. sh[<<c, attempts[c] + 1>>] = "no" /\ got[<<c, attempts[c] + 1>>] = "none"
        /\ line[<<c, attempts[c] + 1>>] = "none"
    BY <2>n, <2>p DEF InjectInv, Started
  <2>u. UNCHANGED <<line, held, got, runs, lostDone>> BY <1>1 DEF Attempt
  <2>v. \A d \in Clients : d # c => Cur(d)' = Cur(d) BY <2>q DEF Cur
  <2>w. Cur(c)' = <<c, attempts[c] + 1>> BY <2>q DEF Cur
  <2>1. InjectPlaces' BY <1>1, <1>a, <1>c DEF Attempt, InjectPlaces, AtPcs, ShPcs, Binaries
  <2>2. InjectCounts'
    <3>1. attempts' \in [Clients -> 0..MaxAttempts]
      <4>1. attempts' = [attempts EXCEPT ![c] = attempts[c] + 1] BY <1>1 DEF Attempt
      <4>2. attempts[c] + 1 \in 0..MaxAttempts BY <2>p, InjectAssumption
      <4> QED BY <4>1, <4>2, <1>b DEF InjectCounts
    <3> QED BY <1>1, <1>b, <3>1 DEF Attempt, InjectCounts
  <2>3. Started' BY <1>1, <1>a, <1>b, <1>c, <1>d, <1>e, <1>g DEF InjectInv, InjectPlaces, InjectCounts, Attempt, Cur, Started
  <2>4. AttemptsLeft' BY <1>1, <1>a, <1>b, <1>c, <1>d, <1>e, <1>g DEF InjectInv, InjectPlaces, InjectCounts, Attempt, Cur, AttemptsLeft
  <2>5. OnlyLastHeld'
    <3> SUFFICES ASSUME NEW y \in Calls, sh'[y] # "no", held[y] PROVE y[2] = attempts'[y[1]]
      BY <2>u DEF OnlyLastHeld
    <3>1. CASE y = <<c, attempts[c] + 1>> BY <3>1, <2>q
    <3>2. CASE y # <<c, attempts[c] + 1>>
      <4>1. sh[y] # "no" /\ y = Cur(y[1]) BY <1>l, <2>s, <3>2
      <4>2. y[1] # c
        <5> SUFFICES ASSUME y[1] = c PROVE FALSE OBVIOUS
        <5>1. y = Cur(c) /\ at[c] = "sleeping"
          BY <1>1, <1>b, <1>e, <4>1, InjectAssumption DEF Attempt, InjectInv, AttemptsLeft, Cur, InjectCounts
        <5> QED BY <5>1 DEF InjectInv, AttemptsLeft
      <4> QED BY <1>d, <1>e, <2>q, <4>1, <4>2
    <3> QED BY <3>1, <3>2
  <2>6. EarlyIsAwaited'
    <3> SUFFICES ASSUME NEW y \in Calls, sh'[y] \in Early, held[y]
                 PROVE  at'[y[1]] \in {"ping", "line"} /\ line[y] \in {"none", "ping"}
      BY <2>u DEF EarlyIsAwaited
    <3>1. CASE y = <<c, attempts[c] + 1>> BY <3>1, <2>o, <2>q
    <3>2. CASE y # <<c, attempts[c] + 1>>
      <4>1. at[y[1]] \in {"ping", "line"} /\ line[y] \in {"none", "ping"} BY <1>t, <2>s, <3>2
      <4>2. y[1] # c BY <1>1, <4>1 DEF Attempt
      <4> QED BY <1>e, <2>q, <4>1, <4>2
    <3> QED BY <3>1, <3>2
  <2>7. GoesOnAnswered'
    <3>1. \A y \in Calls : sh[y] \notin {"no", "start", "ping", "over"} => got[y] # "none"
      BY DEF InjectInv, GoesOnAnswered
    <3>2. \A d \in Clients : at[d] = "ping" => got[Cur(d)] = "none" BY DEF InjectInv, GoesOnAnswered
    <3>3. \A y \in Calls : sh'[y] \notin {"no", "start", "ping", "over"} => got[y] # "none"
      BY <2>s, <3>1
    <3>4. \A d \in Clients : at'[d] = "ping" => got[Cur(d)'] = "none"
      BY <2>o, <2>q, <2>v, <2>w, <3>2
    <3> QED BY <2>u, <3>3, <3>4 DEF GoesOnAnswered
  <2>8. RunIsLast' BY <1>1, <1>a, <1>b, <1>c, <1>d, <1>e, <1>g DEF InjectInv, InjectPlaces, InjectCounts, Attempt, Cur, RunIsLast, OfLast
  <2>9. OwnIsThere' BY <1>1, <1>a, <1>b, <1>c, <1>d, <1>e, <1>g DEF InjectInv, InjectPlaces, InjectCounts, Attempt, Cur, OwnIsThere
  <2>10. OwnVersionRuns' BY <1>1, <1>a, <1>b, <1>c, <1>d, <1>e, <1>g DEF InjectInv, InjectPlaces, InjectCounts, Attempt, Cur, OwnVersionRuns
  <2> QED BY <2>1, <2>2, <2>3, <2>4, <2>5, <2>6, <2>7, <2>8, <2>9, <2>10 DEF InjectInv
<1>2. ASSUME NEW c \in Clients, EndOfStream(c) PROVE InjectInv'
  <2>0. AttemptsLeft' /\ EarlyIsAwaited' /\ RunIsLast' BY <1>2, <1>h DEF EndOfStream
  <2>1. InjectPlaces' BY <1>2, <1>a, <1>c DEF EndOfStream, Abandon, AfterError, InjectPlaces, AtPcs, ShPcs, Binaries
  <2>2. InjectCounts' BY <1>2, <1>b, <1>c, <1>f DEF EndOfStream, Abandon, AfterError, InjectCounts
  <2>3. Started' BY <1>2, <1>a, <1>b, <1>c, <1>d, <1>e, <1>g DEF InjectInv, InjectPlaces, InjectCounts, EndOfStream, Abandon, AfterError, Cur, Started
  <2>4. AttemptsLeft'
    BY <2>0
  <2>5. OnlyLastHeld' BY <1>2, <1>a, <1>b, <1>c, <1>d, <1>e, <1>g DEF InjectInv, InjectPlaces, InjectCounts, EndOfStream, Abandon, AfterError, Cur, OnlyLastHeld
  <2>6. EarlyIsAwaited'
    BY <2>0
  <2>7. GoesOnAnswered' BY <1>2, <1>a, <1>b, <1>c, <1>d, <1>e, <1>g DEF InjectInv, InjectPlaces, InjectCounts, EndOfStream, Abandon, AfterError, Cur, GoesOnAnswered
  <2>8. RunIsLast'
    BY <2>0
  <2>9. OwnIsThere' BY <1>2, <1>a, <1>b, <1>c, <1>d, <1>e, <1>g DEF InjectInv, InjectPlaces, InjectCounts, EndOfStream, Abandon, AfterError, Cur, OwnIsThere
  <2>10. OwnVersionRuns' BY <1>2, <1>a, <1>b, <1>c, <1>d, <1>e, <1>g DEF InjectInv, InjectPlaces, InjectCounts, EndOfStream, Abandon, AfterError, Cur, OwnVersionRuns
  <2> QED BY <2>1, <2>2, <2>3, <2>4, <2>5, <2>6, <2>7, <2>8, <2>9, <2>10 DEF InjectInv
<1>3. ASSUME NEW c \in Clients, Handshake(c) PROVE InjectInv'
  <2>1. InjectPlaces' BY <1>3, <1>a, <1>c DEF Handshake, InjectPlaces, AtPcs, ShPcs, Binaries
  <2>2. InjectCounts' BY <1>3, <1>b, <1>c, <1>f DEF Handshake, InjectCounts
  <2>3. Started' BY <1>3, <1>a, <1>b, <1>c, <1>d, <1>e, <1>g DEF InjectInv, InjectPlaces, InjectCounts, Handshake, Cur, Started
  <2>4. AttemptsLeft' BY <1>3, <1>a, <1>b, <1>c, <1>d, <1>e, <1>g DEF InjectInv, InjectPlaces, InjectCounts, Handshake, Cur, AttemptsLeft
  <2>5. OnlyLastHeld' BY <1>3, <1>a, <1>b, <1>c, <1>d, <1>e, <1>g DEF InjectInv, InjectPlaces, InjectCounts, Handshake, Cur, OnlyLastHeld
  <2>6. EarlyIsAwaited' BY <1>3, <1>a, <1>b, <1>c, <1>d, <1>e, <1>g DEF InjectInv, InjectPlaces, InjectCounts, Handshake, Cur, EarlyIsAwaited, Early
  <2>7. GoesOnAnswered' BY <1>3, <1>a, <1>b, <1>c, <1>d, <1>e, <1>g DEF InjectInv, InjectPlaces, InjectCounts, Handshake, Cur, GoesOnAnswered
  <2>8. RunIsLast' BY <1>3, <1>a, <1>b, <1>c, <1>d, <1>e, <1>g DEF InjectInv, InjectPlaces, InjectCounts, Handshake, Cur, RunIsLast, OfLast
  <2>9. OwnIsThere' BY <1>3, <1>a, <1>b, <1>c, <1>d, <1>e, <1>g DEF InjectInv, InjectPlaces, InjectCounts, Handshake, Cur, OwnIsThere
  <2>10. OwnVersionRuns' BY <1>3, <1>a, <1>b, <1>c, <1>d, <1>e, <1>g DEF InjectInv, InjectPlaces, InjectCounts, Handshake, Cur, OwnVersionRuns
  <2> QED BY <2>1, <2>2, <2>3, <2>4, <2>5, <2>6, <2>7, <2>8, <2>9, <2>10 DEF InjectInv
<1>4. ASSUME NEW c \in Clients, ReadAnswer(c) PROVE InjectInv'
  <2>u. UNCHANGED <<attempts, sh, held, runs, lostDone>> BY <1>4 DEF ReadAnswer
  <2>v. \A d \in Clients : Cur(d)' = Cur(d) BY <2>u DEF Cur
  <2>q. \A d \in Clients : d # c => at'[d] = at[d] BY <1>4, <1>a DEF ReadAnswer, InjectPlaces
  <2>s. \A y \in Calls : y # Cur(c) => line'[y] = line[y] BY <1>4, <1>a DEF ReadAnswer, InjectPlaces
  <2>o. at'[c] = IF line[Cur(c)] = "arm" THEN "sending" ELSE "piping" BY <1>4, <1>a DEF ReadAnswer, InjectPlaces
  <2>1. InjectPlaces' BY <1>4, <1>a, <1>c DEF ReadAnswer, InjectPlaces, AtPcs, ShPcs, Binaries
  <2>2. InjectCounts' BY <1>4, <1>b, <1>c, <1>f DEF ReadAnswer, InjectCounts
  <2>3. Started' BY <1>4, <1>a, <1>b, <1>c, <1>d, <1>e, <1>g DEF InjectInv, InjectPlaces, InjectCounts, ReadAnswer, Cur, Started
  <2>4. AttemptsLeft' BY <1>4, <1>a, <1>b, <1>c, <1>d, <1>e, <1>g DEF InjectInv, InjectPlaces, InjectCounts, ReadAnswer, Cur, AttemptsLeft
  <2>5. OnlyLastHeld' BY <1>4, <1>a, <1>b, <1>c, <1>d, <1>e, <1>g DEF InjectInv, InjectPlaces, InjectCounts, ReadAnswer, Cur, OnlyLastHeld
  <2>6. EarlyIsAwaited'
    <3> SUFFICES ASSUME NEW y \in Calls, sh[y] \in Early, held[y]
                 PROVE  at'[y[1]] \in {"ping", "line"} /\ line'[y] \in {"none", "ping"}
      BY <2>u DEF EarlyIsAwaited
    <3>1. y = Cur(y[1]) /\ y[1] \in Clients BY <1>e, <1>l DEF Early
    <3>2. at[y[1]] \in {"ping", "line"} /\ line[y] \in {"none", "ping"} BY <1>t
    <3>3. y # Cur(c) BY <1>4, <3>2 DEF ReadAnswer
    <3> QED BY <2>q, <2>s, <3>1, <3>2, <3>3
  <2>7. GoesOnAnswered' BY <1>4, <1>a, <1>b, <1>c, <1>d, <1>e, <1>g DEF InjectInv, InjectPlaces, InjectCounts, ReadAnswer, Cur, GoesOnAnswered
  <2>8. RunIsLast'
    <3> SUFFICES ASSUME ~lostDone, NEW r \in runs
                 PROVE  /\ r[1] = Cur(r[1][1])
                        /\ at'[r[1][1]] \in {"line", "piping", "rerunning", "ok", "failed"}
                        /\ at'[r[1][1]] = "line" => line'[r[1]] = "done"
      BY <1>g, <2>u, <2>v DEF RunIsLast, OfLast
    <3>i. OfLast(r) BY <1>r
    <3>1. r[1] \in Calls /\ r[1][1] \in Clients BY <1>g
    <3>2. CASE r[1][1] = c
      <4>1. line[Cur(c)] = "done" BY <1>4, <3>i, <3>2 DEF ReadAnswer, OfLast
      <4> QED BY <2>o, <3>i, <3>2, <4>1 DEF OfLast
    <3>3. CASE r[1][1] # c
      <4>1. r[1] # Cur(c) BY <1>d, <3>3
      <4> QED BY <2>q, <2>s, <3>i, <3>1, <3>3, <4>1 DEF OfLast
    <3> QED BY <3>2, <3>3
  <2>9. OwnIsThere' BY <1>4, <1>a, <1>b, <1>c, <1>d, <1>e, <1>g DEF InjectInv, InjectPlaces, InjectCounts, ReadAnswer, Cur, OwnIsThere
  <2>10. OwnVersionRuns' BY <1>4, <1>a, <1>b, <1>c, <1>d, <1>e, <1>g DEF InjectInv, InjectPlaces, InjectCounts, ReadAnswer, Cur, OwnVersionRuns
  <2> QED BY <2>1, <2>2, <2>3, <2>4, <2>5, <2>6, <2>7, <2>8, <2>9, <2>10 DEF InjectInv
<1>5. ASSUME NEW c \in Clients, SendBinary(c) PROVE InjectInv'
  <2>1. InjectPlaces' BY <1>5, <1>a, <1>c DEF SendBinary, LocalFile, InjectPlaces, AtPcs, ShPcs, Binaries
  <2>2. InjectCounts' BY <1>5, <1>b, <1>c, <1>f DEF SendBinary, LocalFile, InjectCounts
  <2>3. Started' BY <1>5, <1>a, <1>b, <1>c, <1>d, <1>e, <1>g DEF InjectInv, InjectPlaces, InjectCounts, SendBinary, LocalFile, Cur, Started
  <2>4. AttemptsLeft' BY <1>5, <1>a, <1>b, <1>c, <1>d, <1>e, <1>g DEF InjectInv, InjectPlaces, InjectCounts, SendBinary, LocalFile, Cur, AttemptsLeft
  <2>5. OnlyLastHeld' BY <1>5, <1>a, <1>b, <1>c, <1>d, <1>e, <1>g DEF InjectInv, InjectPlaces, InjectCounts, SendBinary, LocalFile, Cur, OnlyLastHeld
  <2>6. EarlyIsAwaited' BY <1>5, <1>a, <1>b, <1>c, <1>d, <1>e, <1>g DEF InjectInv, InjectPlaces, InjectCounts, SendBinary, LocalFile, Cur, EarlyIsAwaited, Early
  <2>7. GoesOnAnswered'
    <3>1. \A y \in Calls : got'[y] # "none" \/ got'[y] = got[y]
      BY <1>5, <1>a, <1>c DEF SendBinary, LocalFile, InjectPlaces
    <3>2. \A d \in Clients : d # c => at'[d] = at[d] BY <1>5, <1>a DEF SendBinary, InjectPlaces
    <3>3. \A d \in Clients : d # c /\ at[d] = "ping" => got'[Cur(d)] = got[Cur(d)]
      BY <1>5, <1>a, <1>c, <1>d DEF SendBinary, LocalFile, InjectPlaces
    <3>4. at'[c] # "ping" BY <1>5, <1>a DEF SendBinary, InjectPlaces
    <3>5. UNCHANGED <<sh, attempts>> BY <1>5 DEF SendBinary
    <3>6. \A d \in Clients : Cur(d)' = Cur(d) BY <3>5 DEF Cur
    <3>7. \A y \in Calls : sh[y] \notin {"no", "start", "ping", "over"} => got[y] # "none"
      BY DEF InjectInv, GoesOnAnswered
    <3>8. \A d \in Clients : at[d] = "ping" => got[Cur(d)] = "none" BY DEF InjectInv, GoesOnAnswered
    <3> QED BY <3>1, <3>2, <3>3, <3>4, <3>5, <3>6, <3>7, <3>8 DEF GoesOnAnswered
  <2>8. RunIsLast' BY <1>5, <1>a, <1>b, <1>c, <1>d, <1>e, <1>g DEF InjectInv, InjectPlaces, InjectCounts, SendBinary, LocalFile, Cur, RunIsLast, OfLast
  <2>9. OwnIsThere' BY <1>5, <1>a, <1>b, <1>c, <1>d, <1>e, <1>g DEF InjectInv, InjectPlaces, InjectCounts, SendBinary, LocalFile, Cur, OwnIsThere
  <2>10. OwnVersionRuns' BY <1>5, <1>a, <1>b, <1>c, <1>d, <1>e, <1>g DEF InjectInv, InjectPlaces, InjectCounts, SendBinary, LocalFile, Cur, OwnVersionRuns
  <2> QED BY <2>1, <2>2, <2>3, <2>4, <2>5, <2>6, <2>7, <2>8, <2>9, <2>10 DEF InjectInv
<1>6. ASSUME NEW c \in Clients, Injected(c) PROVE InjectInv'
  <2>1. InjectPlaces' BY <1>6, <1>a, <1>c DEF Injected, InjectPlaces, AtPcs, ShPcs, Binaries
  <2>2. InjectCounts' BY <1>6, <1>b, <1>c, <1>f DEF Injected, InjectCounts
  <2>3. Started' BY <1>6, <1>a, <1>b, <1>c, <1>d, <1>e, <1>g DEF InjectInv, InjectPlaces, InjectCounts, Injected, Cur, Started
  <2>4. AttemptsLeft' BY <1>6, <1>a, <1>b, <1>c, <1>d, <1>e, <1>g DEF InjectInv, InjectPlaces, InjectCounts, Injected, Cur, AttemptsLeft
  <2>5. OnlyLastHeld' BY <1>6, <1>a, <1>b, <1>c, <1>d, <1>e, <1>g DEF InjectInv, InjectPlaces, InjectCounts, Injected, Cur, OnlyLastHeld
  <2>6. EarlyIsAwaited' BY <1>6, <1>a, <1>b, <1>c, <1>d, <1>e, <1>g DEF InjectInv, InjectPlaces, InjectCounts, Injected, Cur, EarlyIsAwaited, Early
  <2>7. GoesOnAnswered' BY <1>6, <1>a, <1>b, <1>c, <1>d, <1>e, <1>g DEF InjectInv, InjectPlaces, InjectCounts, Injected, Cur, GoesOnAnswered
  <2>8. RunIsLast' BY <1>6, <1>a, <1>b, <1>c, <1>d, <1>e, <1>g DEF InjectInv, InjectPlaces, InjectCounts, Injected, Cur, RunIsLast, OfLast
  <2>9. OwnIsThere' BY <1>6, <1>a, <1>b, <1>c, <1>d, <1>e, <1>g DEF InjectInv, InjectPlaces, InjectCounts, Injected, Cur, OwnIsThere
  <2>10. OwnVersionRuns' BY <1>6, <1>a, <1>b, <1>c, <1>d, <1>e, <1>g DEF InjectInv, InjectPlaces, InjectCounts, Injected, Cur, OwnVersionRuns
  <2> QED BY <2>1, <2>2, <2>3, <2>4, <2>5, <2>6, <2>7, <2>8, <2>9, <2>10 DEF InjectInv
<1>7. ASSUME NEW c \in Clients, Rerun(c) PROVE InjectInv'
  <2>1. InjectPlaces' BY <1>7, <1>a, <1>c DEF Rerun, InjectPlaces, AtPcs, ShPcs, Binaries
  <2>2. InjectCounts'
    <3>1. <<Cur(c), "rerun", bin, Cur(c) \in disturbed>> \in Calls \X {"script", "rerun"} \X Binaries \X BOOLEAN
      <4>1. Cur(c) \in Calls /\ bin \in Binaries BY <1>7, <1>a, <1>c DEF Rerun, InjectPlaces
      <4>2. (Cur(c) \in disturbed) \in BOOLEAN OBVIOUS
      <4> QED BY <4>1, <4>2, Zenon
    <3>2. runs' = runs \cup {<<Cur(c), "rerun", bin, Cur(c) \in disturbed>>} BY <1>7 DEF Rerun
    <3>3. runs' \subseteq Calls \X {"script", "rerun"} \X Binaries \X BOOLEAN
      BY <1>b, <3>1, <3>2 DEF InjectCounts
    <3> QED BY <1>7, <1>b, <3>3 DEF Rerun, InjectCounts
  <2>3. Started' BY <1>7, <1>a, <1>b, <1>c, <1>d, <1>e, <1>g DEF InjectInv, InjectPlaces, InjectCounts, Rerun, Cur, Started
  <2>4. AttemptsLeft' BY <1>7, <1>a, <1>b, <1>c, <1>d, <1>e, <1>g DEF InjectInv, InjectPlaces, InjectCounts, Rerun, Cur, AttemptsLeft
  <2>5. OnlyLastHeld' BY <1>7, <1>a, <1>b, <1>c, <1>d, <1>e, <1>g DEF InjectInv, InjectPlaces, InjectCounts, Rerun, Cur, OnlyLastHeld
  <2>6. EarlyIsAwaited' BY <1>7, <1>a, <1>b, <1>c, <1>d, <1>e, <1>g DEF InjectInv, InjectPlaces, InjectCounts, Rerun, Cur, EarlyIsAwaited, Early
  <2>7. GoesOnAnswered' BY <1>7, <1>a, <1>b, <1>c, <1>d, <1>e, <1>g DEF InjectInv, InjectPlaces, InjectCounts, Rerun, Cur, GoesOnAnswered
  <2>8. RunIsLast' BY <1>7, <1>a, <1>b, <1>c, <1>d, <1>e, <1>g DEF InjectInv, InjectPlaces, InjectCounts, Rerun, Cur, RunIsLast, OfLast
  <2>9. OwnIsThere' BY <1>7, <1>a, <1>b, <1>c, <1>d, <1>e, <1>g DEF InjectInv, InjectPlaces, InjectCounts, Rerun, Cur, OwnIsThere
  <2>10. OwnVersionRuns' BY <1>7, <1>a, <1>b, <1>c, <1>d, <1>e, <1>g DEF InjectInv, InjectPlaces, InjectCounts, Rerun, Cur, OwnVersionRuns
  <2> QED BY <2>1, <2>2, <2>3, <2>4, <2>5, <2>6, <2>7, <2>8, <2>9, <2>10 DEF InjectInv
<1>8. ASSUME NEW c \in Clients, RerunEnds(c) PROVE InjectInv'
  <2>1. InjectPlaces' BY <1>8, <1>a, <1>c DEF RerunEnds, AfterError, InjectPlaces, AtPcs, ShPcs, Binaries
  <2>2. InjectCounts' BY <1>8, <1>b, <1>c, <1>f DEF RerunEnds, AfterError, InjectCounts
  <2>3. Started' BY <1>8, <1>a, <1>b, <1>c, <1>d, <1>e, <1>g DEF InjectInv, InjectPlaces, InjectCounts, RerunEnds, AfterError, Cur, Started
  <2>4. AttemptsLeft' BY <1>8, <1>a, <1>b, <1>c, <1>d, <1>e, <1>g DEF InjectInv, InjectPlaces, InjectCounts, RerunEnds, AfterError, Cur, AttemptsLeft
  <2>5. OnlyLastHeld' BY <1>8, <1>a, <1>b, <1>c, <1>d, <1>e, <1>g DEF InjectInv, InjectPlaces, InjectCounts, RerunEnds, AfterError, Cur, OnlyLastHeld
  <2>6. EarlyIsAwaited' BY <1>8, <1>a, <1>b, <1>c, <1>d, <1>e, <1>g DEF InjectInv, InjectPlaces, InjectCounts, RerunEnds, AfterError, Cur, EarlyIsAwaited, Early
  <2>7. GoesOnAnswered' BY <1>8, <1>a, <1>b, <1>c, <1>d, <1>e, <1>g DEF InjectInv, InjectPlaces, InjectCounts, RerunEnds, AfterError, Cur, GoesOnAnswered
  <2>8. RunIsLast' BY <1>8, <1>a, <1>b, <1>c, <1>d, <1>e, <1>g DEF InjectInv, InjectPlaces, InjectCounts, RerunEnds, AfterError, Cur, RunIsLast, OfLast
  <2>9. OwnIsThere' BY <1>8, <1>a, <1>b, <1>c, <1>d, <1>e, <1>g DEF InjectInv, InjectPlaces, InjectCounts, RerunEnds, AfterError, Cur, OwnIsThere
  <2>10. OwnVersionRuns' BY <1>8, <1>a, <1>b, <1>c, <1>d, <1>e, <1>g DEF InjectInv, InjectPlaces, InjectCounts, RerunEnds, AfterError, Cur, OwnVersionRuns
  <2> QED BY <2>1, <2>2, <2>3, <2>4, <2>5, <2>6, <2>7, <2>8, <2>9, <2>10 DEF InjectInv
<1>9. ASSUME NEW c \in Clients, PipeEnds(c) PROVE InjectInv'
  <2>1. InjectPlaces' BY <1>9, <1>a, <1>c DEF PipeEnds, AfterError, InjectPlaces, AtPcs, ShPcs, Binaries
  <2>2. InjectCounts' BY <1>9, <1>b, <1>c, <1>f DEF PipeEnds, AfterError, InjectCounts
  <2>3. Started' BY <1>9, <1>a, <1>b, <1>c, <1>d, <1>e, <1>g DEF InjectInv, InjectPlaces, InjectCounts, PipeEnds, AfterError, Cur, Started
  <2>4. AttemptsLeft' BY <1>9, <1>a, <1>b, <1>c, <1>d, <1>e, <1>g DEF InjectInv, InjectPlaces, InjectCounts, PipeEnds, AfterError, Cur, AttemptsLeft
  <2>5. OnlyLastHeld' BY <1>9, <1>a, <1>b, <1>c, <1>d, <1>e, <1>g DEF InjectInv, InjectPlaces, InjectCounts, PipeEnds, AfterError, Cur, OnlyLastHeld
  <2>6. EarlyIsAwaited' BY <1>9, <1>a, <1>b, <1>c, <1>d, <1>e, <1>g DEF InjectInv, InjectPlaces, InjectCounts, PipeEnds, AfterError, Cur, EarlyIsAwaited, Early
  <2>7. GoesOnAnswered' BY <1>9, <1>a, <1>b, <1>c, <1>d, <1>e, <1>g DEF InjectInv, InjectPlaces, InjectCounts, PipeEnds, AfterError, Cur, GoesOnAnswered
  <2>8. RunIsLast' BY <1>9, <1>a, <1>b, <1>c, <1>d, <1>e, <1>g DEF InjectInv, InjectPlaces, InjectCounts, PipeEnds, AfterError, Cur, RunIsLast, OfLast
  <2>9. OwnIsThere' BY <1>9, <1>a, <1>b, <1>c, <1>d, <1>e, <1>g DEF InjectInv, InjectPlaces, InjectCounts, PipeEnds, AfterError, Cur, OwnIsThere
  <2>10. OwnVersionRuns' BY <1>9, <1>a, <1>b, <1>c, <1>d, <1>e, <1>g DEF InjectInv, InjectPlaces, InjectCounts, PipeEnds, AfterError, Cur, OwnVersionRuns
  <2> QED BY <2>1, <2>2, <2>3, <2>4, <2>5, <2>6, <2>7, <2>8, <2>9, <2>10 DEF InjectInv
<1>10. ASSUME NEW c \in Clients, NoPing(c) PROVE InjectInv'
  <2>0. AttemptsLeft' /\ EarlyIsAwaited' /\ RunIsLast' BY <1>10, <1>h DEF NoPing
  <2>1. InjectPlaces' BY <1>10, <1>a, <1>c DEF NoPing, Abandon, AfterError, InjectPlaces, AtPcs, ShPcs, Binaries
  <2>2. InjectCounts' BY <1>10, <1>b, <1>c, <1>f DEF NoPing, Abandon, AfterError, InjectCounts
  <2>3. Started' BY <1>10, <1>a, <1>b, <1>c, <1>d, <1>e, <1>g DEF InjectInv, InjectPlaces, InjectCounts, NoPing, Abandon, AfterError, Cur, Started
  <2>4. AttemptsLeft'
    BY <2>0
  <2>5. OnlyLastHeld' BY <1>10, <1>a, <1>b, <1>c, <1>d, <1>e, <1>g DEF InjectInv, InjectPlaces, InjectCounts, NoPing, Abandon, AfterError, Cur, OnlyLastHeld
  <2>6. EarlyIsAwaited'
    BY <2>0
  <2>7. GoesOnAnswered' BY <1>10, <1>a, <1>b, <1>c, <1>d, <1>e, <1>g DEF InjectInv, InjectPlaces, InjectCounts, NoPing, Abandon, AfterError, Cur, GoesOnAnswered
  <2>8. RunIsLast'
    BY <2>0
  <2>9. OwnIsThere' BY <1>10, <1>a, <1>b, <1>c, <1>d, <1>e, <1>g DEF InjectInv, InjectPlaces, InjectCounts, NoPing, Abandon, AfterError, Cur, OwnIsThere
  <2>10. OwnVersionRuns' BY <1>10, <1>a, <1>b, <1>c, <1>d, <1>e, <1>g DEF InjectInv, InjectPlaces, InjectCounts, NoPing, Abandon, AfterError, Cur, OwnVersionRuns
  <2> QED BY <2>1, <2>2, <2>3, <2>4, <2>5, <2>6, <2>7, <2>8, <2>9, <2>10 DEF InjectInv
<1>11. ASSUME NEW c \in Clients, Breaks(c) PROVE InjectInv'
  <2>0. AttemptsLeft' /\ EarlyIsAwaited' /\ RunIsLast' BY <1>11, <1>h DEF Breaks
  <2>1. InjectPlaces' BY <1>11, <1>a, <1>c DEF Breaks, Abandon, AfterError, InjectPlaces, AtPcs, ShPcs, Binaries
  <2>2. InjectCounts' BY <1>11, <1>b, <1>c, <1>f DEF Breaks, Abandon, AfterError, InjectCounts
  <2>3. Started' BY <1>11, <1>a, <1>b, <1>c, <1>d, <1>e, <1>g DEF InjectInv, InjectPlaces, InjectCounts, Breaks, Abandon, AfterError, Cur, Started
  <2>4. AttemptsLeft'
    BY <2>0
  <2>5. OnlyLastHeld' BY <1>11, <1>a, <1>b, <1>c, <1>d, <1>e, <1>g DEF InjectInv, InjectPlaces, InjectCounts, Breaks, Abandon, AfterError, Cur, OnlyLastHeld
  <2>6. EarlyIsAwaited'
    BY <2>0
  <2>7. GoesOnAnswered' BY <1>11, <1>a, <1>b, <1>c, <1>d, <1>e, <1>g DEF InjectInv, InjectPlaces, InjectCounts, Breaks, Abandon, AfterError, Cur, GoesOnAnswered
  <2>8. RunIsLast'
    BY <2>0
  <2>9. OwnIsThere' BY <1>11, <1>a, <1>b, <1>c, <1>d, <1>e, <1>g DEF InjectInv, InjectPlaces, InjectCounts, Breaks, Abandon, AfterError, Cur, OwnIsThere
  <2>10. OwnVersionRuns' BY <1>11, <1>a, <1>b, <1>c, <1>d, <1>e, <1>g DEF InjectInv, InjectPlaces, InjectCounts, Breaks, Abandon, AfterError, Cur, OwnVersionRuns
  <2> QED BY <2>1, <2>2, <2>3, <2>4, <2>5, <2>6, <2>7, <2>8, <2>9, <2>10 DEF InjectInv
<1>12. ASSUME NEW c \in Clients, SendFails(c) PROVE InjectInv'
  <2>0. AttemptsLeft' /\ EarlyIsAwaited' /\ RunIsLast' BY <1>12, <1>h DEF SendFails
  <2>1. InjectPlaces' BY <1>12, <1>a, <1>c DEF SendFails, Abandon, AfterError, InjectPlaces, AtPcs, ShPcs, Binaries
  <2>2. InjectCounts' BY <1>12, <1>b, <1>c, <1>f DEF SendFails, Abandon, AfterError, InjectCounts
  <2>3. Started' BY <1>12, <1>a, <1>b, <1>c, <1>d, <1>e, <1>g DEF InjectInv, InjectPlaces, InjectCounts, SendFails, Abandon, AfterError, Cur, Started
  <2>4. AttemptsLeft'
    BY <2>0
  <2>5. OnlyLastHeld' BY <1>12, <1>a, <1>b, <1>c, <1>d, <1>e, <1>g DEF InjectInv, InjectPlaces, InjectCounts, SendFails, Abandon, AfterError, Cur, OnlyLastHeld
  <2>6. EarlyIsAwaited'
    BY <2>0
  <2>7. GoesOnAnswered' BY SMTT(30), <1>12, <1>a, <1>b, <1>c, <1>d, <1>e, <1>g DEF InjectInv, InjectPlaces, InjectCounts, SendFails, Abandon, AfterError, Cur, GoesOnAnswered
  <2>8. RunIsLast'
    BY <2>0
  <2>9. OwnIsThere' BY <1>12, <1>a, <1>b, <1>c, <1>d, <1>e, <1>g DEF InjectInv, InjectPlaces, InjectCounts, SendFails, Abandon, AfterError, Cur, OwnIsThere
  <2>10. OwnVersionRuns' BY <1>12, <1>a, <1>b, <1>c, <1>d, <1>e, <1>g DEF InjectInv, InjectPlaces, InjectCounts, SendFails, Abandon, AfterError, Cur, OwnVersionRuns
  <2> QED BY <2>1, <2>2, <2>3, <2>4, <2>5, <2>6, <2>7, <2>8, <2>9, <2>10 DEF InjectInv
<1>13. ASSUME NEW x \in Calls, ScriptPings(x) PROVE InjectInv'
  <2>1. InjectPlaces' BY <1>13, <1>a, <1>c DEF ScriptPings, Says, InjectPlaces, AtPcs, ShPcs, Binaries
  <2>2. InjectCounts' BY <1>13, <1>b, <1>c, <1>f DEF ScriptPings, Says, InjectCounts
  <2>3. Started' BY <1>13, <1>a, <1>b, <1>c, <1>d, <1>e, <1>g DEF InjectInv, InjectPlaces, InjectCounts, ScriptPings, Says, Cur, Started
  <2>4. AttemptsLeft' BY <1>13, <1>a, <1>b, <1>c, <1>d, <1>e, <1>g DEF InjectInv, InjectPlaces, InjectCounts, ScriptPings, Says, Cur, AttemptsLeft
  <2>5. OnlyLastHeld' BY <1>13, <1>a, <1>b, <1>c, <1>d, <1>e, <1>g DEF InjectInv, InjectPlaces, InjectCounts, ScriptPings, Says, Cur, OnlyLastHeld
  <2>6. EarlyIsAwaited' BY <1>13, <1>a, <1>b, <1>c, <1>d, <1>e, <1>g DEF InjectInv, InjectPlaces, InjectCounts, ScriptPings, Says, Cur, EarlyIsAwaited, Early
  <2>7. GoesOnAnswered' BY <1>13, <1>a, <1>b, <1>c, <1>d, <1>e, <1>g DEF InjectInv, InjectPlaces, InjectCounts, ScriptPings, Says, Cur, GoesOnAnswered
  <2>8. RunIsLast'
    <3>0. UNCHANGED <<at, attempts, runs, lostDone, held>> BY <1>13 DEF ScriptPings
    <3>1. \A d \in Clients : Cur(d)' = Cur(d) BY <3>0 DEF Cur
    <3> SUFFICES ASSUME ~lostDone, NEW r \in runs
                 PROVE  /\ r[1] = Cur(r[1][1])
                        /\ at[r[1][1]] \in {"line", "piping", "rerunning", "ok", "failed"}
                        /\ at[r[1][1]] = "line" => line'[r[1]] = "done"
      BY <1>g, <3>0, <3>1 DEF RunIsLast, OfLast
    <3>i. OfLast(r) BY <1>r
    <3>2. r[1] \in Calls BY <1>g
    <3>3. at[r[1][1]] = "line" /\ r[1] = x => ~held[x] BY <1>13, <1>t, <3>2, <3>i DEF ScriptPings, Early, OfLast
    <3>4. line'[r[1]] = line[r[1]] \/ (r[1] = x /\ held[x])
      BY <1>13, <1>a, <3>2 DEF ScriptPings, Says, InjectPlaces
    <3> QED BY <3>i, <3>3, <3>4 DEF OfLast
  <2>9. OwnIsThere' BY <1>13, <1>a, <1>b, <1>c, <1>d, <1>e, <1>g DEF InjectInv, InjectPlaces, InjectCounts, ScriptPings, Says, Cur, OwnIsThere
  <2>10. OwnVersionRuns' BY <1>13, <1>a, <1>b, <1>c, <1>d, <1>e, <1>g DEF InjectInv, InjectPlaces, InjectCounts, ScriptPings, Says, Cur, OwnVersionRuns
  <2> QED BY <2>1, <2>2, <2>3, <2>4, <2>5, <2>6, <2>7, <2>8, <2>9, <2>10 DEF InjectInv
<1>14. ASSUME NEW x \in Calls, ScriptReadsPong(x) PROVE InjectInv'
  <2>1. InjectPlaces' BY <1>14, <1>a, <1>c DEF ScriptReadsPong, InjectPlaces, AtPcs, ShPcs, Binaries
  <2>2. InjectCounts' BY <1>14, <1>b, <1>c, <1>f DEF ScriptReadsPong, InjectCounts
  <2>3. Started' BY <1>14, <1>a, <1>b, <1>c, <1>d, <1>e, <1>g DEF InjectInv, InjectPlaces, InjectCounts, ScriptReadsPong, Cur, Started
  <2>4. AttemptsLeft' BY <1>14, <1>a, <1>b, <1>c, <1>d, <1>e, <1>g DEF InjectInv, InjectPlaces, InjectCounts, ScriptReadsPong, Cur, AttemptsLeft
  <2>5. OnlyLastHeld' BY <1>14, <1>a, <1>b, <1>c, <1>d, <1>e, <1>g DEF InjectInv, InjectPlaces, InjectCounts, ScriptReadsPong, Cur, OnlyLastHeld
  <2>6. EarlyIsAwaited' BY <1>14, <1>a, <1>b, <1>c, <1>d, <1>e, <1>g DEF InjectInv, InjectPlaces, InjectCounts, ScriptReadsPong, Cur, EarlyIsAwaited, Early
  <2>7. GoesOnAnswered' BY <1>14, <1>a, <1>b, <1>c, <1>d, <1>e, <1>g DEF InjectInv, InjectPlaces, InjectCounts, ScriptReadsPong, Cur, GoesOnAnswered
  <2>8. RunIsLast' BY <1>14, <1>a, <1>b, <1>c, <1>d, <1>e, <1>g DEF InjectInv, InjectPlaces, InjectCounts, ScriptReadsPong, Cur, RunIsLast, OfLast
  <2>9. OwnIsThere' BY <1>14, <1>a, <1>b, <1>c, <1>d, <1>e, <1>g DEF InjectInv, InjectPlaces, InjectCounts, ScriptReadsPong, Cur, OwnIsThere
  <2>10. OwnVersionRuns' BY <1>14, <1>a, <1>b, <1>c, <1>d, <1>e, <1>g DEF InjectInv, InjectPlaces, InjectCounts, ScriptReadsPong, Cur, OwnVersionRuns
  <2> QED BY <2>1, <2>2, <2>3, <2>4, <2>5, <2>6, <2>7, <2>8, <2>9, <2>10 DEF InjectInv
<1>15. ASSUME NEW x \in Calls, ScriptChecks(x) PROVE InjectInv'
  <2>1. InjectPlaces' BY <1>15, <1>a, <1>c DEF ScriptChecks, InjectPlaces, AtPcs, ShPcs, Binaries
  <2>2. InjectCounts' BY <1>15, <1>b, <1>c, <1>f DEF ScriptChecks, InjectCounts
  <2>3. Started' BY <1>15, <1>a, <1>b, <1>c, <1>d, <1>e, <1>g DEF InjectInv, InjectPlaces, InjectCounts, ScriptChecks, Cur, Started
  <2>4. AttemptsLeft' BY <1>15, <1>a, <1>b, <1>c, <1>d, <1>e, <1>g DEF InjectInv, InjectPlaces, InjectCounts, ScriptChecks, Cur, AttemptsLeft
  <2>5. OnlyLastHeld' BY <1>15, <1>a, <1>b, <1>c, <1>d, <1>e, <1>g DEF InjectInv, InjectPlaces, InjectCounts, ScriptChecks, Cur, OnlyLastHeld
  <2>6. EarlyIsAwaited' BY <1>15, <1>a, <1>b, <1>c, <1>d, <1>e, <1>g DEF InjectInv, InjectPlaces, InjectCounts, ScriptChecks, Cur, EarlyIsAwaited, Early
  <2>7. GoesOnAnswered' BY <1>15, <1>a, <1>b, <1>c, <1>d, <1>e, <1>g DEF InjectInv, InjectPlaces, InjectCounts, ScriptChecks, Cur, GoesOnAnswered
  <2>8. RunIsLast' BY <1>15, <1>a, <1>b, <1>c, <1>d, <1>e, <1>g DEF InjectInv, InjectPlaces, InjectCounts, ScriptChecks, Cur, RunIsLast, OfLast
  <2>9. OwnIsThere' BY <1>15, <1>a, <1>b, <1>c, <1>d, <1>e, <1>g DEF InjectInv, InjectPlaces, InjectCounts, ScriptChecks, Cur, OwnIsThere
  <2>10. OwnVersionRuns' BY <1>15, <1>a, <1>b, <1>c, <1>d, <1>e, <1>g DEF InjectInv, InjectPlaces, InjectCounts, ScriptChecks, Cur, OwnVersionRuns
  <2> QED BY <2>1, <2>2, <2>3, <2>4, <2>5, <2>6, <2>7, <2>8, <2>9, <2>10 DEF InjectInv
<1>16. ASSUME NEW x \in Calls, ScriptRemoves(x) PROVE InjectInv'
  <2>1. InjectPlaces' BY <1>16, <1>a, <1>c DEF ScriptRemoves, Install, InjectPlaces, AtPcs, ShPcs, Binaries
  <2>2. InjectCounts' BY <1>16, <1>b, <1>c, <1>f DEF ScriptRemoves, Install, InjectCounts
  <2>3. Started' BY <1>16, <1>a, <1>b, <1>c, <1>d, <1>e, <1>g DEF InjectInv, InjectPlaces, InjectCounts, ScriptRemoves, Install, Cur, Started
  <2>4. AttemptsLeft' BY <1>16, <1>a, <1>b, <1>c, <1>d, <1>e, <1>g DEF InjectInv, InjectPlaces, InjectCounts, ScriptRemoves, Install, Cur, AttemptsLeft
  <2>5. OnlyLastHeld' BY <1>16, <1>a, <1>b, <1>c, <1>d, <1>e, <1>g DEF InjectInv, InjectPlaces, InjectCounts, ScriptRemoves, Install, Cur, OnlyLastHeld
  <2>6. EarlyIsAwaited' BY <1>16, <1>a, <1>b, <1>c, <1>d, <1>e, <1>g DEF InjectInv, InjectPlaces, InjectCounts, ScriptRemoves, Install, Cur, EarlyIsAwaited, Early
  <2>7. GoesOnAnswered' BY <1>16, <1>a, <1>b, <1>c, <1>d, <1>e, <1>g DEF InjectInv, InjectPlaces, InjectCounts, ScriptRemoves, Install, Cur, GoesOnAnswered
  <2>8. RunIsLast' BY <1>16, <1>a, <1>b, <1>c, <1>d, <1>e, <1>g DEF InjectInv, InjectPlaces, InjectCounts, ScriptRemoves, Install, Cur, RunIsLast, OfLast
  <2>9. OwnIsThere' BY <1>16, <1>a, <1>b, <1>c, <1>d, <1>e, <1>g DEF InjectInv, InjectPlaces, InjectCounts, ScriptRemoves, Install, Cur, OwnIsThere
  <2>10. OwnVersionRuns' BY <1>16, <1>a, <1>b, <1>c, <1>d, <1>e, <1>g DEF InjectInv, InjectPlaces, InjectCounts, ScriptRemoves, Install, Cur, OwnVersionRuns
  <2> QED BY <2>1, <2>2, <2>3, <2>4, <2>5, <2>6, <2>7, <2>8, <2>9, <2>10 DEF InjectInv
<1>17. ASSUME NEW x \in Calls, ScriptDownloads(x) PROVE InjectInv'
  <2>1. InjectPlaces' BY <1>17, <1>a, <1>c DEF ScriptDownloads, Install, InjectPlaces, AtPcs, ShPcs, Binaries
  <2>2. InjectCounts' BY <1>17, <1>b, <1>c, <1>f DEF ScriptDownloads, Install, InjectCounts
  <2>3. Started' BY <1>17, <1>a, <1>b, <1>c, <1>d, <1>e, <1>g DEF InjectInv, InjectPlaces, InjectCounts, ScriptDownloads, Install, Cur, Started
  <2>4. AttemptsLeft' BY <1>17, <1>a, <1>b, <1>c, <1>d, <1>e, <1>g DEF InjectInv, InjectPlaces, InjectCounts, ScriptDownloads, Install, Cur, AttemptsLeft
  <2>5. OnlyLastHeld' BY <1>17, <1>a, <1>b, <1>c, <1>d, <1>e, <1>g DEF InjectInv, InjectPlaces, InjectCounts, ScriptDownloads, Install, Cur, OnlyLastHeld
  <2>6. EarlyIsAwaited' BY <1>17, <1>a, <1>b, <1>c, <1>d, <1>e, <1>g DEF InjectInv, InjectPlaces, InjectCounts, ScriptDownloads, Install, Cur, EarlyIsAwaited, Early
  <2>7. GoesOnAnswered' BY <1>17, <1>a, <1>b, <1>c, <1>d, <1>e, <1>g DEF InjectInv, InjectPlaces, InjectCounts, ScriptDownloads, Install, Cur, GoesOnAnswered
  <2>8. RunIsLast' BY <1>17, <1>a, <1>b, <1>c, <1>d, <1>e, <1>g DEF InjectInv, InjectPlaces, InjectCounts, ScriptDownloads, Install, Cur, RunIsLast, OfLast
  <2>9. OwnIsThere' BY <1>17, <1>a, <1>b, <1>c, <1>d, <1>e, <1>g DEF InjectInv, InjectPlaces, InjectCounts, ScriptDownloads, Install, Cur, OwnIsThere
  <2>10. OwnVersionRuns' BY <1>17, <1>a, <1>b, <1>c, <1>d, <1>e, <1>g DEF InjectInv, InjectPlaces, InjectCounts, ScriptDownloads, Install, Cur, OwnVersionRuns
  <2> QED BY <2>1, <2>2, <2>3, <2>4, <2>5, <2>6, <2>7, <2>8, <2>9, <2>10 DEF InjectInv
<1>18. ASSUME NEW x \in Calls, ScriptAsksForBinary(x) PROVE InjectInv'
  <2>1. InjectPlaces' BY <1>18, <1>a, <1>c DEF ScriptAsksForBinary, Says, InjectPlaces, AtPcs, ShPcs, Binaries
  <2>2. InjectCounts' BY <1>18, <1>b, <1>c, <1>f DEF ScriptAsksForBinary, Says, InjectCounts
  <2>3. Started' BY <1>18, <1>a, <1>b, <1>c, <1>d, <1>e, <1>g DEF InjectInv, InjectPlaces, InjectCounts, ScriptAsksForBinary, Says, Cur, Started
  <2>4. AttemptsLeft' BY <1>18, <1>a, <1>b, <1>c, <1>d, <1>e, <1>g DEF InjectInv, InjectPlaces, InjectCounts, ScriptAsksForBinary, Says, Cur, AttemptsLeft
  <2>5. OnlyLastHeld' BY <1>18, <1>a, <1>b, <1>c, <1>d, <1>e, <1>g DEF InjectInv, InjectPlaces, InjectCounts, ScriptAsksForBinary, Says, Cur, OnlyLastHeld
  <2>6. EarlyIsAwaited' BY <1>18, <1>a, <1>b, <1>c, <1>d, <1>e, <1>g DEF InjectInv, InjectPlaces, InjectCounts, ScriptAsksForBinary, Says, Cur, EarlyIsAwaited, Early
  <2>7. GoesOnAnswered' BY <1>18, <1>a, <1>b, <1>c, <1>d, <1>e, <1>g DEF InjectInv, InjectPlaces, InjectCounts, ScriptAsksForBinary, Says, Cur, GoesOnAnswered
  <2>8. RunIsLast'
    <3>0. UNCHANGED <<at, attempts, runs, lostDone, held>> BY <1>18 DEF ScriptAsksForBinary
    <3>1. \A d \in Clients : Cur(d)' = Cur(d) BY <3>0 DEF Cur
    <3> SUFFICES ASSUME ~lostDone, NEW r \in runs
                 PROVE  /\ r[1] = Cur(r[1][1])
                        /\ at[r[1][1]] \in {"line", "piping", "rerunning", "ok", "failed"}
                        /\ at[r[1][1]] = "line" => line'[r[1]] = "done"
      BY <1>g, <3>0, <3>1 DEF RunIsLast, OfLast
    <3>i. OfLast(r) BY <1>r
    <3>2. r[1] \in Calls BY <1>g
    <3>3. at[r[1][1]] = "line" /\ r[1] = x => ~held[x] BY <1>18, <1>t, <3>2, <3>i DEF ScriptAsksForBinary, Early, OfLast
    <3>4. line'[r[1]] = line[r[1]] \/ (r[1] = x /\ held[x])
      BY <1>18, <1>a, <3>2 DEF ScriptAsksForBinary, Says, InjectPlaces
    <3> QED BY <3>i, <3>3, <3>4 DEF OfLast
  <2>9. OwnIsThere' BY <1>18, <1>a, <1>b, <1>c, <1>d, <1>e, <1>g DEF InjectInv, InjectPlaces, InjectCounts, ScriptAsksForBinary, Says, Cur, OwnIsThere
  <2>10. OwnVersionRuns' BY <1>18, <1>a, <1>b, <1>c, <1>d, <1>e, <1>g DEF InjectInv, InjectPlaces, InjectCounts, ScriptAsksForBinary, Says, Cur, OwnVersionRuns
  <2> QED BY <2>1, <2>2, <2>3, <2>4, <2>5, <2>6, <2>7, <2>8, <2>9, <2>10 DEF InjectInv
<1>19. ASSUME NEW x \in Calls, ScriptReceives(x) PROVE InjectInv'
  <2>1. InjectPlaces' BY <1>19, <1>a, <1>c DEF ScriptReceives, Says, Install, InjectPlaces, AtPcs, ShPcs, Binaries
  <2>2. InjectCounts' BY <1>19, <1>b, <1>c, <1>f DEF ScriptReceives, Says, Install, InjectCounts
  <2>3. Started' BY <1>19, <1>a, <1>b, <1>c, <1>d, <1>e, <1>g DEF InjectInv, InjectPlaces, InjectCounts, ScriptReceives, Says, Install, Cur, Started
  <2>4. AttemptsLeft' BY <1>19, <1>a, <1>b, <1>c, <1>d, <1>e, <1>g DEF InjectInv, InjectPlaces, InjectCounts, ScriptReceives, Says, Install, Cur, AttemptsLeft
  <2>5. OnlyLastHeld' BY <1>19, <1>a, <1>b, <1>c, <1>d, <1>e, <1>g DEF InjectInv, InjectPlaces, InjectCounts, ScriptReceives, Says, Install, Cur, OnlyLastHeld
  <2>6. EarlyIsAwaited' BY <1>19, <1>a, <1>b, <1>c, <1>d, <1>e, <1>g DEF InjectInv, InjectPlaces, InjectCounts, ScriptReceives, Says, Install, Cur, EarlyIsAwaited, Early
  <2>7. GoesOnAnswered' BY <1>19, <1>a, <1>b, <1>c, <1>d, <1>e, <1>g DEF InjectInv, InjectPlaces, InjectCounts, ScriptReceives, Says, Install, Cur, GoesOnAnswered
  <2>8. RunIsLast' BY <1>19, <1>a, <1>b, <1>c, <1>d, <1>e, <1>g DEF InjectInv, InjectPlaces, InjectCounts, ScriptReceives, Says, Install, Cur, RunIsLast, OfLast
  <2>9. OwnIsThere'
    <3> SUFFICES ASSUME NEW y \in Calls, sh'[y] = "say", y \notin disturbed' PROVE bin' = "own"
      BY DEF OwnIsThere
    <3>1. y # x /\ sh[y] = "say" BY <1>19, <1>a DEF ScriptReceives, Says, InjectPlaces
    <3>2. PICK b : Install(x, b) BY <1>19 DEF ScriptReceives
    <3>3. y \notin disturbed /\ bin' = bin BY <3>1, <3>2 DEF Install
    <3> QED BY <3>1, <3>3 DEF InjectInv, OwnIsThere
  <2>10. OwnVersionRuns' BY <1>19, <1>a, <1>b, <1>c, <1>d, <1>e, <1>g DEF InjectInv, InjectPlaces, InjectCounts, ScriptReceives, Says, Install, Cur, OwnVersionRuns
  <2> QED BY <2>1, <2>2, <2>3, <2>4, <2>5, <2>6, <2>7, <2>8, <2>9, <2>10 DEF InjectInv
<1>20. ASSUME NEW x \in Calls, ScriptVerifies(x) PROVE InjectInv'
  <2>1. InjectPlaces' BY <1>20, <1>a, <1>c DEF ScriptVerifies, InjectPlaces, AtPcs, ShPcs, Binaries
  <2>2. InjectCounts' BY <1>20, <1>b, <1>c, <1>f DEF ScriptVerifies, InjectCounts
  <2>3. Started' BY <1>20, <1>a, <1>b, <1>c, <1>d, <1>e, <1>g DEF InjectInv, InjectPlaces, InjectCounts, ScriptVerifies, Cur, Started
  <2>4. AttemptsLeft' BY <1>20, <1>a, <1>b, <1>c, <1>d, <1>e, <1>g DEF InjectInv, InjectPlaces, InjectCounts, ScriptVerifies, Cur, AttemptsLeft
  <2>5. OnlyLastHeld' BY <1>20, <1>a, <1>b, <1>c, <1>d, <1>e, <1>g DEF InjectInv, InjectPlaces, InjectCounts, ScriptVerifies, Cur, OnlyLastHeld
  <2>6. EarlyIsAwaited' BY <1>20, <1>a, <1>b, <1>c, <1>d, <1>e, <1>g DEF InjectInv, InjectPlaces, InjectCounts, ScriptVerifies, Cur, EarlyIsAwaited, Early
  <2>7. GoesOnAnswered' BY <1>20, <1>a, <1>b, <1>c, <1>d, <1>e, <1>g DEF InjectInv, InjectPlaces, InjectCounts, ScriptVerifies, Cur, GoesOnAnswered
  <2>8. RunIsLast' BY <1>20, <1>a, <1>b, <1>c, <1>d, <1>e, <1>g DEF InjectInv, InjectPlaces, InjectCounts, ScriptVerifies, Cur, RunIsLast, OfLast
  <2>9. OwnIsThere' BY <1>20, <1>a, <1>b, <1>c, <1>d, <1>e, <1>g DEF InjectInv, InjectPlaces, InjectCounts, ScriptVerifies, Cur, OwnIsThere
  <2>10. OwnVersionRuns' BY <1>20, <1>a, <1>b, <1>c, <1>d, <1>e, <1>g DEF InjectInv, InjectPlaces, InjectCounts, ScriptVerifies, Cur, OwnVersionRuns
  <2> QED BY <2>1, <2>2, <2>3, <2>4, <2>5, <2>6, <2>7, <2>8, <2>9, <2>10 DEF InjectInv
<1>21. ASSUME NEW x \in Calls, ScriptRuns(x) PROVE InjectInv'
  <2>p. PICK n \in ShPcs : sh' = [sh EXCEPT ![x] = n] BY <1>21 DEF ScriptRuns, Says, ShPcs
  <2>q. UNCHANGED <<at, attempts, held, lostDone, disturbed, bin>> BY <1>21 DEF ScriptRuns
  <2>r. \A d \in Clients : Cur(d)' = Cur(d) BY <2>q DEF Cur
  <2>s. \A r \in runs' : r \in runs \/ (held[x] /\ r = <<x, "script", bin, x \in disturbed>>)
    BY <1>21 DEF ScriptRuns
  <2>1. InjectPlaces' BY <1>21, <1>a, <1>c DEF ScriptRuns, Says, InjectPlaces, AtPcs, ShPcs, Binaries
  <2>2. InjectCounts'
    <3>1. <<x, "script", bin, x \in disturbed>> \in Calls \X {"script", "rerun"} \X Binaries \X BOOLEAN
      <4>1. bin \in Binaries BY <1>a DEF InjectPlaces
      <4>2. (x \in disturbed) \in BOOLEAN OBVIOUS
      <4> QED BY <4>1, <4>2, Zenon
    <3>2. runs' \subseteq Calls \X {"script", "rerun"} \X Binaries \X BOOLEAN
      BY <1>b, <2>s, <3>1 DEF InjectCounts
    <3> QED BY <1>21, <1>b, <3>2 DEF ScriptRuns, InjectCounts
  <2>3. Started' BY <1>21, <1>a, <1>b, <1>c, <1>d, <1>e, <1>g DEF InjectInv, InjectPlaces, InjectCounts, ScriptRuns, Says, Cur, Started
  <2>4. AttemptsLeft' BY <1>21, <1>a, <1>b, <1>c, <1>d, <1>e, <1>g DEF InjectInv, InjectPlaces, InjectCounts, ScriptRuns, Says, Cur, AttemptsLeft
  <2>5. OnlyLastHeld' BY <1>21, <1>a, <1>b, <1>c, <1>d, <1>e, <1>g DEF InjectInv, InjectPlaces, InjectCounts, ScriptRuns, Says, Cur, OnlyLastHeld
  <2>6. EarlyIsAwaited' BY <1>21, <1>a, <1>b, <1>c, <1>d, <1>e, <1>g DEF InjectInv, InjectPlaces, InjectCounts, ScriptRuns, Says, Cur, EarlyIsAwaited, Early
  <2>7. GoesOnAnswered' BY <1>21, <1>a, <1>b, <1>c, <1>d, <1>e, <1>g DEF InjectInv, InjectPlaces, InjectCounts, ScriptRuns, Says, Cur, GoesOnAnswered
  <2>8. RunIsLast'
    <3> SUFFICES ASSUME ~lostDone, NEW r \in runs'
                 PROVE  /\ r[1] = Cur(r[1][1]) /\ r[1][1] \in Clients
                        /\ at[r[1][1]] \in {"line", "piping", "rerunning", "ok", "failed"}
                        /\ at[r[1][1]] = "line" => line'[r[1]] = "done"
      BY <2>q, <2>r DEF RunIsLast, OfLast
    <3>1. held[x] => at[x[1]] \in {"ping", "line"} /\ x = Cur(x[1]) /\ line'[x] = "done"
      BY <1>21, <1>a, <1>l, <1>t DEF ScriptRuns, Says, Early, InjectPlaces
    <3>2. CASE r \in runs
      <4>1. r[1] \in Calls /\ r[1][1] \in Clients BY <1>g, <3>2
      <4>2. line'[r[1]] = line[r[1]] \/ line'[r[1]] = "done"
        BY <1>21, <1>a, <4>1 DEF ScriptRuns, Says, InjectPlaces
      <4>3. OfLast(r) BY <1>r, <3>2
      <4> QED BY <4>1, <4>2, <4>3 DEF OfLast
    <3>3. CASE held[x] /\ r = <<x, "script", bin, x \in disturbed>>
      <4>1. r[1] = x BY <3>3
      <4>2. at[x[1]] # "ping"
        BY <1>21, <1>e, <3>1, <3>3 DEF ScriptRuns, InjectInv, GoesOnAnswered
      <4> QED BY <1>e, <3>1, <3>3, <4>1, <4>2
    <3> QED BY <2>s, <3>2, <3>3
  <2>9. OwnIsThere' BY <1>21, <1>a, <1>b, <1>c, <1>d, <1>e, <1>g DEF InjectInv, InjectPlaces, InjectCounts, ScriptRuns, Says, Cur, OwnIsThere
  <2>10. OwnVersionRuns'
    <3> SUFFICES ASSUME NEW r \in runs', r[2] = "script", ~r[4] PROVE r[3] = "own"
      BY DEF OwnVersionRuns
    <3>1. CASE r \in runs BY <3>1 DEF InjectInv, OwnVersionRuns
    <3>2. CASE r = <<x, "script", bin, x \in disturbed>>
      <4>1. r[3] = bin /\ r[4] = (x \in disturbed) BY <3>2
      <4>2. x \notin disturbed BY <4>1
      <4>3. bin = "own" BY <1>21, <4>2 DEF ScriptRuns, InjectInv, OwnIsThere
      <4> QED BY <4>1, <4>3
    <3> QED BY <2>s, <3>1, <3>2
  <2> QED BY <2>1, <2>2, <2>3, <2>4, <2>5, <2>6, <2>7, <2>8, <2>9, <2>10 DEF InjectInv
<1>22. ASSUME NEW x \in Calls, CommandEnds(x) PROVE InjectInv'
  <2>1. InjectPlaces' BY <1>22, <1>a, <1>c DEF CommandEnds, InjectPlaces, AtPcs, ShPcs, Binaries
  <2>2. InjectCounts' BY <1>22, <1>b, <1>c, <1>f DEF CommandEnds, InjectCounts
  <2>3. Started' BY <1>22, <1>a, <1>b, <1>c, <1>d, <1>e, <1>g DEF InjectInv, InjectPlaces, InjectCounts, CommandEnds, Cur, Started
  <2>4. AttemptsLeft' BY <1>22, <1>a, <1>b, <1>c, <1>d, <1>e, <1>g DEF InjectInv, InjectPlaces, InjectCounts, CommandEnds, Cur, AttemptsLeft
  <2>5. OnlyLastHeld' BY <1>22, <1>a, <1>b, <1>c, <1>d, <1>e, <1>g DEF InjectInv, InjectPlaces, InjectCounts, CommandEnds, Cur, OnlyLastHeld
  <2>6. EarlyIsAwaited' BY <1>22, <1>a, <1>b, <1>c, <1>d, <1>e, <1>g DEF InjectInv, InjectPlaces, InjectCounts, CommandEnds, Cur, EarlyIsAwaited, Early
  <2>7. GoesOnAnswered' BY <1>22, <1>a, <1>b, <1>c, <1>d, <1>e, <1>g DEF InjectInv, InjectPlaces, InjectCounts, CommandEnds, Cur, GoesOnAnswered
  <2>8. RunIsLast' BY <1>22, <1>a, <1>b, <1>c, <1>d, <1>e, <1>g DEF InjectInv, InjectPlaces, InjectCounts, CommandEnds, Cur, RunIsLast, OfLast
  <2>9. OwnIsThere' BY <1>22, <1>a, <1>b, <1>c, <1>d, <1>e, <1>g DEF InjectInv, InjectPlaces, InjectCounts, CommandEnds, Cur, OwnIsThere
  <2>10. OwnVersionRuns' BY <1>22, <1>a, <1>b, <1>c, <1>d, <1>e, <1>g DEF InjectInv, InjectPlaces, InjectCounts, CommandEnds, Cur, OwnVersionRuns
  <2> QED BY <2>1, <2>2, <2>3, <2>4, <2>5, <2>6, <2>7, <2>8, <2>9, <2>10 DEF InjectInv
<1>23. CASE UNCHANGED injectVars
  BY <1>23 DEF injectVars, InjectInv, InjectPlaces, InjectCounts, Started, AttemptsLeft, OnlyLastHeld, EarlyIsAwaited, GoesOnAnswered, RunIsLast, OwnIsThere, OwnVersionRuns, OfLast, Cur
<1> QED
  BY <1>1, <1>2, <1>3, <1>4, <1>5, <1>6, <1>7, <1>8, <1>9, <1>10, <1>11, <1>12, <1>13,
     <1>14, <1>15, <1>16, <1>17, <1>18, <1>19, <1>20, <1>21, <1>22, <1>23
  DEF InjectNext, ClientStep, ScriptStep

\* The invariant holds in every reachable state.
LEMMA InjectInvAlways == InjectSpec => []InjectInv
  BY InjectInvInit, InjectInvNext, PTL DEF InjectSpec

\* The state of clients, scripts and streams keeps its shape.
THEOREM InjectTypeCorrect == InjectSpec => []InjectTypeOK
<1>1. InjectInv => InjectTypeOK
  BY DEF InjectInv, InjectPlaces, InjectCounts, InjectTypeOK, AtPcs, ShPcs, Ended
<1> QED BY <1>1, InjectInvAlways, PTL

\* A call of InjectAgentAndExecute starts its command in one attempt only, however
\* often it retries and however many clients inject, unless a "done" was lost.
THEOREM CommandOnceHolds == InjectSpec => []CommandOnce
<1>1. InjectInv => CommandOnce
  BY DEF InjectInv, RunIsLast, OfLast, CommandOnce
<1> QED BY <1>1, InjectInvAlways, PTL

\* A command that an undisturbed script starts runs on the client's version.
THEOREM OwnVersionRunsHolds == InjectSpec => []OwnVersionRuns
<1>1. InjectInv => OwnVersionRuns
  BY DEF InjectInv
<1> QED BY <1>1, InjectInvAlways, PTL

\* A script that was never answered changes nothing on the instance.
THEOREM UnansweredScriptIsHarmless == InjectSpec => UnansweredScriptHarmless
<1> DEFINE Harmless == bin' # bin => \E x \in Calls : sh[x] # sh'[x] /\ got[x] # "none"
<1>1. InjectInv /\ [InjectNext]_injectVars => [Harmless]_injectVars
  <2> SUFFICES ASSUME InjectInv, InjectNext, bin' # bin
               PROVE  \E x \in Calls : sh[x] # sh'[x] /\ got[x] # "none"
    OBVIOUS
  <2>1. PICK x \in Calls : ScriptRemoves(x) \/ ScriptDownloads(x) \/ ScriptReceives(x)
    BY DEF InjectNext, ClientStep, ScriptStep, Attempt, EndOfStream, Handshake, ReadAnswer, SendBinary,
           Injected, Rerun, RerunEnds, PipeEnds, NoPing, Breaks, SendFails, ScriptPings, ScriptReadsPong,
           ScriptChecks, ScriptAsksForBinary, ScriptVerifies, ScriptRuns, CommandEnds
  <2>2. sh[x] \in {"remove", "download", "receive"}
    BY <2>1 DEF ScriptRemoves, ScriptDownloads, ScriptReceives
  <2>3. got[x] # "none" BY <2>2 DEF InjectInv, GoesOnAnswered
  <2>4. sh'[x] # sh[x]
    BY <2>1, <2>2 DEF ScriptRemoves, ScriptDownloads, ScriptReceives, Says, InjectInv, InjectPlaces
  <2> QED BY <2>3, <2>4
<1> QED BY <1>1, InjectInvAlways, PTL DEF InjectSpec, UnansweredScriptHarmless

-----------------------------------------------------------------------------
(* The daemon in the container *)

\* The times of a session: it has just touched the activity file, or written it when it
\* connected, and it touches it again before the clock goes on.  Whoever wrote the file last
\* did so no earlier, unless the session has not touched it yet.
SessionTimes ==
    \A s \in Sessions :
        /\ since[s] # NoTime => touch[s] # NoTime
        /\ touch[s] # NoTime =>
              /\ since[s] \in Nat /\ now <= touch[s] /\ touch[s] <= now + TouchInterval
              /\ \/ touch[s] = since[s] + TouchInterval
                 \/ activity = NoTime
                 \/ touch[s] <= activity + TouchInterval

ContainerInv == TypeOK /\ SessionTimes

\* Nobody is connected at first.
LEMMA ContainerInvInit == Init => ContainerInv
<1> SUFFICES ASSUME Init PROVE ContainerInv
  OBVIOUS
<1>1. TypeOK
  <2>1. <<>> \in Seq(Goroutines) /\ Len(<<>>) <= Capacity
    BY DEF Capacity
  <2>2. config \in [tasks : SUBSET Tasks, timeout : Timeouts]
    BY DEF Init
  <2> QED
    BY <2>1, <2>2 DEF Init, TypeOK, Times
<1>2. SessionTimes
  BY DEF Init, SessionTimes
<1> QED
  BY <1>1, <1>2 DEF ContainerInv

\* A step of the goroutines leaves the sessions alone.
LEMMA GoroutineSteps ==
    ASSUME ContainerInv, UNCHANGED <<now, activity, touch, since>>, TypeOK'
    PROVE  ContainerInv'
  BY DEF ContainerInv, SessionTimes

\* Every step keeps the types and the times.
LEMMA ContainerInvNext == ContainerInv /\ [Next]_vars => ContainerInv'
<1> SUFFICES ASSUME ContainerInv, [Next]_vars PROVE ContainerInv'
  OBVIOUS
<1>t. TypeOK /\ SessionTimes
  BY DEF ContainerInv
<1>a. /\ CheckInterval \in Nat /\ TouchInterval \in Nat /\ NoTime \notin Nat /\ Timeouts \subseteq Nat
      /\ {"reaper", "network", "timeout", "ssh", "idle", "sshKill", "signals"} = Goroutines
  BY ContainerDaemonAssumption DEF Goroutines, WaitGroup
<1>b. \A g \in Goroutines, v \in {"none", "running", "sending", "done"} :
         Becomes(g, v) => task' \in [Goroutines -> {"none", "running", "sending", "done"}]
  BY <1>t DEF TypeOK, Becomes
<1>1. CASE RunTasks
  <2>1. TypeOK'
    BY <1>1, <1>t, <1>a DEF RunTasks, TypeOK, Times
  <2>2. SessionTimes'
    BY <1>1, <1>t, <1>a DEF RunTasks, TypeOK, Times, SessionTimes
  <2> QED
    BY <2>1, <2>2 DEF ContainerInv
<1>2. CASE Receive
  <2>1. Tail(errChan) \in Seq(Goroutines) /\ Len(Tail(errChan)) <= Capacity
    BY <1>2, <1>t DEF Receive, TypeOK, Capacity
  <2>2. TypeOK'
    BY <1>2, <1>t, <2>1 DEF Receive, TypeOK, timeVars
  <2> QED
    BY <1>2, <2>2, GoroutineSteps DEF Receive, timeVars
<1>3. CASE WaitTasks
  <2>1. TypeOK'
    BY <1>3, <1>t DEF WaitTasks, TypeOK, timeVars
  <2> QED
    BY <1>3, <2>1, GoroutineSteps DEF WaitTasks, timeVars
<1>4. ASSUME NEW g \in Goroutines, Send(g) PROVE ContainerInv'
  <2>1. Append(errChan, g) \in Seq(Goroutines) /\ Len(Append(errChan, g)) <= Capacity
    BY <1>4, <1>t DEF Send, TypeOK, Capacity
  <2>2. TypeOK'
    BY <1>4, <1>t, <1>b, <2>1 DEF Send, TypeOK, timeVars
  <2> QED
    BY <1>4, <2>2, GoroutineSteps DEF Send, timeVars
<1>5. ASSUME NEW g \in Goroutines, Cancelled(g) \/ Fails(g) PROVE ContainerInv'
  <2>1. UNCHANGED <<now, config, main, errChan, cancelled, sshProcess, timeVars>>
        /\ task' \in [Goroutines -> {"none", "running", "sending", "done"}]
    BY <1>5, <1>b DEF Cancelled, Fails
  <2>2. TypeOK'
    BY <1>t, <2>1 DEF TypeOK, timeVars
  <2> QED
    BY <2>1, <2>2, GoroutineSteps DEF timeVars
<1>6. CASE Ssh \/ SshExits
  <2>1. UNCHANGED <<now, config, main, errChan, cancelled, timeVars>>
        /\ sshProcess' \in {"none", "running", "exited"}
    BY <1>6, <1>t DEF Ssh, StartSsh, WaitSsh, KillSsh, SshDone, SshExits, TypeOK
  <2>2. task' \in [Goroutines -> {"none", "running", "sending", "done"}]
    BY <1>6, <1>t, <1>a, <1>b DEF Ssh, StartSsh, WaitSsh, KillSsh, SshDone, SshExits, TypeOK
  <2>3. TypeOK'
    BY <1>t, <2>1, <2>2 DEF TypeOK, timeVars
  <2> QED
    BY <2>1, <2>3, GoroutineSteps DEF timeVars
<1>7. CASE CheckTimeout
  <2>1. task' \in [Goroutines -> {"none", "running", "sending", "done"}]
    BY <1>7, <1>t, <1>a, <1>b DEF CheckTimeout, TypeOK
  <2>2. TypeOK'
    BY <1>7, <1>t, <1>a, <2>1 DEF CheckTimeout, TypeOK
  <2> QED
    BY <1>7, <2>2, GoroutineSteps DEF CheckTimeout
<1>8. ASSUME NEW s \in Sessions, Connect(s) PROVE ContainerInv'
  <2>1. TypeOK'
    BY <1>8, <1>t, <1>a DEF Connect, TypeOK, Times
  <2>2. SessionTimes'
    BY <1>8, <1>t, <1>a DEF Connect, TypeOK, Times, SessionTimes
  <2> QED
    BY <2>1, <2>2 DEF ContainerInv
<1>9. ASSUME NEW s \in Sessions, Touch(s) PROVE ContainerInv'
  <2>1. TypeOK'
    BY <1>9, <1>t, <1>a DEF Touch, TypeOK, Times
  <2>2. SessionTimes'
    BY <1>9, <1>t, <1>a DEF Touch, TypeOK, Times, SessionTimes
  <2> QED
    BY <2>1, <2>2 DEF ContainerInv
<1>10. ASSUME NEW s \in Sessions, Disconnect(s) PROVE ContainerInv'
  <2>1. TypeOK'
    BY <1>10, <1>t, <1>a DEF Disconnect, TypeOK, Times
  <2>2. SessionTimes'
    BY <1>10, <1>t, <1>a DEF Disconnect, TypeOK, Times, SessionTimes
  <2> QED
    BY <2>1, <2>2 DEF ContainerInv
<1>11. CASE RemoveActivityFile
  <2>1. TypeOK'
    BY <1>11, <1>t DEF RemoveActivityFile, TypeOK, Times
  <2>2. SessionTimes'
    BY <1>11, <1>t DEF RemoveActivityFile, SessionTimes
  <2> QED
    BY <2>1, <2>2 DEF ContainerInv
<1>12. CASE Tick
  <2>1. TypeOK'
    BY <1>12, <1>t DEF Tick, TypeOK, timeVars
  <2>2. SessionTimes'
    BY <1>12, <1>t, <1>a DEF Tick, TypeOK, Times, SessionTimes, timeVars
  <2> QED
    BY <2>1, <2>2 DEF ContainerInv
<1>13. CASE UNCHANGED vars
  <2>1. TypeOK'
    BY <1>13, <1>t DEF TypeOK, vars, timeVars
  <2> QED
    BY <1>13, <2>1, GoroutineSteps DEF vars, timeVars
<1> QED
  BY <1>1, <1>2, <1>3, <1>4, <1>5, <1>6, <1>7, <1>8, <1>9, <1>10, <1>11, <1>12, <1>13
     DEF Next, Run, Goroutine, Stutter

\* Goroutines, channel and times keep their shape, and the channel is never over its capacity.
THEOREM ContainerDaemonTypeCorrect == Spec => []TypeOK
  BY ContainerInvInit, ContainerInvNext, PTL DEF ContainerInv, Spec

\* A user who has been connected for longer than a touch interval is not cut off, whoever else
\* connects and disconnects, and also when the activity file is removed.
THEOREM SessionIsKeptHolds == Spec => SessionIsKept
<1>1. ContainerInv =>
        [CheckTimeout /\ task'["timeout"] = "sending" /\ config.timeout > TouchInterval
            => \A s \in Sessions : since[s] # NoTime => now - since[s] <= TouchInterval]_vars
  <2> SUFFICES ASSUME ContainerInv, CheckTimeout, task'["timeout"] = "sending", config.timeout > TouchInterval,
                      NEW s \in Sessions, since[s] # NoTime
               PROVE  now - since[s] <= TouchInterval
    OBVIOUS
  <2>1. activity # NoTime /\ activity + config.timeout <= now
    BY DEF CheckTimeout, ContainerInv, TypeOK
  <2>2. /\ activity \in Nat /\ config.timeout \in Nat /\ now \in Nat /\ touch[s] \in Nat /\ since[s] \in Nat
        /\ TouchInterval \in Nat
    BY <2>1, ContainerDaemonAssumption DEF ContainerInv, TypeOK, Times, SessionTimes
  <2>3. /\ now <= touch[s] /\ (touch[s] = since[s] + TouchInterval \/ touch[s] <= activity + TouchInterval)
    BY <2>1 DEF ContainerInv, SessionTimes
  <2> QED
    BY <2>1, <2>2, <2>3
<1> QED
  BY <1>1, ContainerInvInit, ContainerInvNext, PTL DEF Spec, SessionIsKept

=============================================================================
