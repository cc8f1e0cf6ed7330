--------------------------- MODULE MCAgentWorkspace --------------------------
(* Up to three UIDs: the workspace is created, lost by the client and created *)
(* again.                                                                     *)
EXTENDS AgentWorkspace, TLC

Symmetry == Permutations(UIDs)
=============================================================================
