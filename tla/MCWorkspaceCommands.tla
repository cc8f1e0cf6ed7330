-------------------------- MODULE MCWorkspaceCommands -------------------------
(* Processes, workspaces and the machines devpod names itself are             *)
(* interchangeable; the single machine is not.                                *)
EXTENDS WorkspaceCommands, TLC

Symmetry == Permutations(Procs) \cup Permutations(Workspaces \ Existing)
                \cup Permutations(Existing)
                \cup Permutations(Machines \ {SingleMachine})
=============================================================================
