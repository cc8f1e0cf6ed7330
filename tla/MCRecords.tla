----------------------------- MODULE MCRecords ------------------------------
(* The records the client keeps of its workspaces, one kind at a time: the    *)
(* workspace folders that List compares with the platform (three UIDs over    *)
(* two ids: two workspaces with one name, or an old and a new one, beside a   *)
(* workspace that keeps the list from being empty) and the sections in the    *)
(* user's ssh config.  The part that is not looked at takes no steps.         *)
EXTENDS WorkspaceList, SshConfig

VARIABLE part   \* the part that is looked at

recordVars == <<part, vars, sshVars>>

Symmetry == Permutations(UIDs) \cup Permutations(IDs) \cup Permutations(Writers)

\* The user's ssh configs: none, a host, everything above a host, and an option that
\* begins with Host above the first one.
SomeFiles ==
    {<<>>, <<Line("Host", "u"), Line("HostName", "u")>>,
     <<Line("Include", "u"), Line("#", "u"), Line("Host", "u")>>,
     <<Line("HostName", "u"), Line("Host", "u")>>}
SomeLines == {Line(kind, "u") : kind \in {"Include", "#", "Host", "HostName"}}

ListUnused ==
    /\ Init /\ tgt = (CHOOSE i \in IDs : TRUE)
    /\ home = [u \in UIDs |-> [id |-> tgt, provider |-> Local, own |-> TRUE]]

SshUnused == SshInit /\ file = <<>>

RecordsInit ==
    \/ part = "list" /\ Init /\ SshUnused
    \/ part = "ssh" /\ ListUnused /\ SshInit

RecordsNext ==
    /\ part' = part
    /\ \/ part = "list" /\ Next /\ UNCHANGED sshVars
       \/ part = "ssh" /\ SshNext /\ UNCHANGED vars

RecordsSpec == RecordsInit /\ [][RecordsNext]_recordVars
=============================================================================
