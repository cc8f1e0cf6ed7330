----------------------------- MODULE MCMachine ------------------------------
(* The machine, one part at a time: the daemon that shuts it down, with two   *)
(* workspaces of different timeouts of which the one used last decides, and   *)
(* the agent's folder of one workspace that is created, lost by the client    *)
(* and created again.  The part that is not looked at takes no steps.         *)
EXTENDS AgentDaemon, AgentWorkspace, TLC

VARIABLE part   \* the part that is looked at

machineVars == <<part, agentDaemonVars, vars>>

Symmetry == Permutations(Workspaces) \cup Permutations(UIDs)

DaemonUnused ==
    AgentDaemonInit /\ autoStop = {} /\ timeout = [v \in Workspaces |-> CHOOSE t \in Timeouts : TRUE]

FolderUnused ==
    Init /\ ~localAgent /\ source = [u \in UIDs |-> CHOOSE s \in Sources : TRUE]

MachineInit ==
    \/ part = "daemon" /\ AgentDaemonInit /\ FolderUnused
    \/ part = "folder" /\ DaemonUnused /\ Init

MachineNext ==
    /\ part' = part
    /\ \/ part = "daemon" /\ AgentDaemonNext /\ UNCHANGED vars
       \/ part = "folder" /\ Next /\ UNCHANGED agentDaemonVars

MachineSpec == MachineInit /\ [][MachineNext]_machineVars
=============================================================================
