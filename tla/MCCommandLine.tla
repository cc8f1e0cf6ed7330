---------------------------- MODULE MCCommandLine ----------------------------
(* Commands of one of two kinds: those about workspaces and machines, which   *)
(* may overlap, and those about contexts, providers and pro instances, one     *)
(* after the other.  Processes, workspaces and the machines devpod names       *)
(* itself are interchangeable.                                                 *)
EXTENDS WorkspaceCommands, Settings, TLC

VARIABLE part   \* the kind of commands

commandVars == <<part, vars, settingsVars>>

Symmetry == Permutations(Procs) \cup Permutations(Workspaces \ Existing)
                \cup Permutations(Existing)
                \cup Permutations(Machines \ {SingleMachine})

\* Of the initial states any one will do for the other commands.
WorkspacesUnused ==
    /\ kind = (CHOOSE k \in Kinds : TRUE)
    /\ lockWs = [q \in Procs |-> CHOOSE w \in Workspaces : TRUE]

CommandInit ==
    /\ part \in {"workspaces", "settings"}
    /\ Init /\ SettingsInit
    /\ part = "settings" => WorkspacesUnused

\* No command is left to run.
SettingsOver == com = Idle /\ coms = MaxSettingsCommands /\ UNCHANGED settingsVars

CommandNext ==
    /\ part' = part
    /\ \/ part = "workspaces" /\ Next /\ UNCHANGED settingsVars
       \/ part = "settings" /\ (SettingsNext \/ SettingsOver) /\ UNCHANGED vars

CommandSpec == CommandInit /\ [][CommandNext]_commandVars
=============================================================================
