---------------------------- MODULE MCProcesses -----------------------------
(* What processes share, one thing at a time: the lock files of one computer   *)
(* (three processes, two workspaces and two machines, so that two workspaces   *)
(* can share a machine and a third process can wait behind the other two), its *)
(* ports for IDEs in the browser (two processes and two ports), and the agent  *)
(* binary of an instance (two clients).  What is not looked at takes no steps. *)
EXTENDS WorkspaceLock, BrowserIde, AgentInject, TLC

VARIABLE part   \* what is looked at

processVars == <<part, lockVars, browserVars, injectVars>>

LocksUnused ==
    /\ LockInit
    /\ lockWs = [p \in Procs |-> CHOOSE w \in Workspaces : TRUE]
    /\ lockMachine = [p \in Procs |-> NoMachine]

BrowsersUnused ==
    BrowserInit /\ \A u \in BrowserUps : ~up[u].bound

InjectOver ==
    /\ kind = [c \in Clients |-> "workspace"] /\ bin = "own" /\ cache = "none"
    /\ at = [c \in Clients |-> "ok"] /\ attempts = [c \in Clients |-> 1]
    /\ sh = [x \in Calls |-> "no"] /\ line = [x \in Calls |-> "none"]
    /\ held = [x \in Calls |-> TRUE] /\ got = [x \in Calls |-> "none"]
    /\ runs = {} /\ disturbed = {} /\ lostDone = FALSE /\ faults = 0

\* At most one of the clients is a development build or injects for a container.
InjectSmall == InjectInit /\ \A c, d \in Clients : "workspace" \notin {kind[c], kind[d]} => c = d

PartInit ==
    /\ IF part = "locks" THEN LockInit ELSE LocksUnused
    /\ IF part = "ports" THEN BrowserInit ELSE BrowsersUnused
    /\ IF part = "agent" THEN InjectSmall ELSE InjectOver

ProcessesInit == part \in {"locks", "ports", "agent"} /\ PartInit

ProcessesNext ==
    /\ part' = part
    /\ \/ part = "locks" /\ LockNext /\ UNCHANGED <<browserVars, injectVars>>
       \/ part = "ports" /\ BrowserNext /\ UNCHANGED <<lockVars, injectVars>>
       \/ part = "agent" /\ InjectNext /\ UNCHANGED <<lockVars, browserVars>>

Symmetry == Permutations(Clients)

ProcessesSpec == ProcessesInit /\ [][ProcessesNext]_processVars
=============================================================================
