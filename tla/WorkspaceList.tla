---------------------------- MODULE WorkspaceList ----------------------------
(***************************************************************************)
(* The list of workspaces (pkg/workspace/list.go) that every command looks *)
(* its workspace up in.  A workspace of a pro provider is an instance on   *)
(* a platform and has a local record, workspaces/<id>/workspace.json, only *)
(* once it is used here.  List merges the two by UID and removes the       *)
(* records whose instance is gone; findWorkspace writes the record of the  *)
(* instance it finds, createWorkspace that of a new one, and Delete        *)
(* removes the record and, with --force, the instance.  The platform       *)
(* changes by itself at any time, and every request to it may fail.        *)
(***************************************************************************)
EXTENDS Naturals

CONSTANTS IDs,          \* workspace ids
          UIDs,         \* workspace UIDs
          Providers,    \* daemon (pro) providers
          Local,        \* a provider that is not pro
          NoRecord, Unset, Failed,
          Commands,     \* the commands that may be run
          Faults,       \* requests that may fail: "list", "get", "create", "delete"
          MaxCommands   \* bound: commands

ASSUME ListAssumption ==
    /\ Local \notin Providers
    /\ Commands \subseteq {"list", "get", "up", "delete", "import"}
    /\ NoRecord \notin [id : IDs, uid : UIDs, pro : BOOLEAN, imported : BOOLEAN]
    /\ MaxCommands \in Nat

VARIABLES
    home,      \* UID -> its id, its provider and whether this user owns it
    local,     \* id -> the local record
    remote,    \* UIDs with an instance on the platform
    used,      \* UIDs that were given away
    pc, cmd, tgt, force, uid, \* the running command
    records,   \* localWorkspaces
    results,   \* proWorkspaceResults: provider -> UIDs or Failed
    todo,      \* records not checked yet
    kept,      \* a record was kept: cleanedLocalWorkspaces is not empty
    cfg,       \* the record the command loaded
    commands

scanVars == <<records, results, todo, kept>>
argVars == <<cmd, tgt, force>>
vars == <<home, local, remote, used, pc, argVars, uid, scanVars, cfg, commands>>

Record(i, u, pro, imported) == [id |-> i, uid |-> u, pro |-> pro, imported |-> imported]

Init ==
    /\ home \in [UIDs -> [id : IDs, provider : Providers \cup {Local}, own : BOOLEAN]]
    /\ \A u \in UIDs : home[u].provider = Local => home[u].own
    /\ local = [i \in IDs |-> NoRecord]
    /\ remote = {} /\ used = {}
    /\ pc = "idle" /\ cmd = "none" /\ tgt \in IDs /\ force = FALSE /\ uid = Unset
    /\ records = {} /\ results = [q \in Providers |-> Unset] /\ todo = {} /\ kept = FALSE
    /\ cfg = NoRecord
    /\ commands = 0

Goto(l) == pc' = l

Pro(u) == home[u].provider # Local

\* DeleteWorkspaceFolder and SaveWorkspaceConfig
DeleteWorkspaceFolder(i) == local' = [local EXCEPT ![i] = NoRecord]
SaveWorkspaceConfig(r) == local' = [local EXCEPT ![r.id] = r]

-----------------------------------------------------------------------------
(* The platform: other devices and other users. *)

CreateElsewhere(u) ==
    /\ u \notin used /\ Pro(u)
    /\ remote' = remote \cup {u} /\ used' = used \cup {u}
    /\ UNCHANGED <<home, local, pc, argVars, uid, scanVars, cfg, commands>>

DeleteElsewhere(u) ==
    /\ u \in remote
    /\ remote' = remote \ {u}
    /\ UNCHANGED <<home, local, used, pc, argVars, uid, scanVars, cfg, commands>>

\* The id that an import gives: a new one if a workspace of another UID has the id of
\* the instance, and none if it is imported already.
ImportIds(u) ==
    LET i == home[u].id IN
    IF local[i] = NoRecord THEN {i}
    ELSE IF local[i].uid = u THEN {} ELSE {j \in IDs : local[j] = NoRecord}

\* devpod pro import-workspace, of an instance that somebody else owns or, with --own,
\* that is the user's.
Import(u) ==
    /\ pc = "idle" /\ commands < MaxCommands /\ "import" \in Commands
    /\ u \in remote
    /\ \E i \in ImportIds(u) : SaveWorkspaceConfig(Record(i, u, TRUE, ~home[u].own))
    /\ commands' = commands + 1
    /\ UNCHANGED <<home, remote, used, pc, argVars, uid, scanVars, cfg>>

-----------------------------------------------------------------------------
(* List *)

Start ==
    /\ pc = "idle" /\ commands < MaxCommands
    /\ cmd' \in Commands \ {"import"}
    /\ tgt' \in IDs
    /\ force' \in (IF cmd' = "delete" THEN BOOLEAN ELSE {FALSE})
    /\ Goto("local")
    /\ commands' = commands + 1
    /\ UNCHANGED <<home, local, remote, used, uid, scanVars, cfg>>

\* The local records are read first ...
ListLocalWorkspaces ==
    /\ pc = "local"
    /\ records' = {local[i] : i \in IDs} \ {NoRecord}
    /\ results' = [q \in Providers |-> Unset]
    /\ Goto("pro")
    /\ UNCHANGED <<home, local, remote, used, argVars, uid, todo, kept, cfg, commands>>

\* ... then every provider is asked for the instances of this user, concurrently.
ListProWorkspaces(q) ==
    /\ pc = "pro" /\ results[q] = Unset
    /\ \/ results' = [results EXCEPT ![q] = {u \in remote : home[u].provider = q /\ home[u].own}]
       \/ "list" \in Faults /\ results' = [results EXCEPT ![q] = Failed]
    /\ UNCHANGED <<home, local, remote, used, pc, argVars, uid, records, todo, kept, cfg, commands>>

\* wg.Wait()
AllListed ==
    /\ pc = "pro" /\ \A q \in Providers : results[q] # Unset
    /\ todo' = records /\ kept' = FALSE
    /\ Goto("clean")
    /\ UNCHANGED <<home, local, remote, used, argVars, uid, records, results, cfg, commands>>

\* checkInstanceExists: an error means no.
CheckInstanceExists(u, answer) ==
    \/ answer = (u \in remote)
    \/ "get" \in Faults /\ answer = FALSE

\* Mutant: a failed request counts as an empty answer.
ShouldDeleteOnError(r, answer) ==
    LET res == results[home[r.uid].provider] IN
    ~(r.imported /\ answer) /\ (IF res = Failed THEN TRUE ELSE r.uid \notin res)

\* shouldDeleteLocalWorkspace
ShouldDelete(r, answer) ==
    LET res == results[home[r.uid].provider] IN
    res # Failed /\ ~(r.imported /\ answer) /\ r.uid \notin res

\* One round of the loop over the local records.
CleanLocalWorkspace(r) ==
    /\ pc = "clean" /\ r \in todo
    /\ todo' = todo \ {r}
    /\ \E answer \in BOOLEAN :
        /\ CheckInstanceExists(r.uid, answer)
        /\ \/ r.pro /\ ShouldDelete(r, answer) /\ DeleteWorkspaceFolder(r.id) /\ UNCHANGED kept
           \/ ~(r.pro /\ ShouldDelete(r, answer)) /\ kept' = TRUE /\ UNCHANGED local
    /\ UNCHANGED <<home, remote, used, pc, argVars, uid, records, results, cfg, commands>>

\* Each record that is kept appends all of them.
CleanedLocal == IF kept THEN records ELSE {}

ProWorkspaces == UNION {results[q] : q \in {p \in Providers : results[p] # Failed}}

\* By UID, the instance before the record.
Merged == {r \in CleanedLocal : r.uid \notin ProWorkspaces}
              \cup {Record(home[u].id, u, TRUE, FALSE) : u \in ProWorkspaces}

\* Mutant: the record that is written is not marked as imported.
FindWorkspaceUnmarked ==
    /\ pc = "clean" /\ todo = {}
    /\ \E r \in Merged :
            /\ cmd # "list" /\ r.id = tgt
            /\ IF r.pro THEN SaveWorkspaceConfig(r) ELSE UNCHANGED local
            /\ Goto("load")
    /\ UNCHANGED <<home, remote, used, argVars, uid, scanVars, cfg, commands>>

\* findWorkspace: one of the list with this id, in the order of a Go map.
FindWorkspace ==
    /\ pc = "clean" /\ todo = {}
    /\ \/ cmd = "list" /\ Goto("idle") /\ UNCHANGED local
       \/ \E r \in Merged :
            /\ cmd # "list" /\ r.id = tgt
            /\ IF r.pro THEN SaveWorkspaceConfig([r EXCEPT !.imported = TRUE]) ELSE UNCHANGED local
            /\ Goto("load")
       \/ /\ cmd # "list" /\ \A r \in Merged : r.id # tgt
          /\ Goto(IF cmd = "up" THEN "create" ELSE "idle")
          /\ UNCHANGED local
    /\ UNCHANGED <<home, remote, used, argVars, uid, scanVars, cfg, commands>>

-----------------------------------------------------------------------------
(* What the commands do with it *)

\* loadExistingWorkspace
LoadExistingWorkspace ==
    /\ pc = "load"
    /\ cfg' = local[tgt]
    /\ Goto(IF local[tgt] # NoRecord /\ cmd = "delete" THEN "delete" ELSE "idle")
    /\ UNCHANGED <<home, local, remote, used, argVars, uid, scanVars, commands>>

\* createWorkspace: the record comes first ...
CreateWorkspace ==
    /\ pc = "create"
    /\ \/ \E u \in UIDs \ used :
            /\ home[u].own /\ home[u].id = tgt
            /\ uid' = u /\ used' = used \cup {u}
            /\ SaveWorkspaceConfig(Record(tgt, u, FALSE, FALSE))
            /\ Goto(IF Pro(u) THEN "instance" ELSE "idle")
       \/ /\ \A u \in UIDs \ used : ~(home[u].own /\ home[u].id = tgt)
          /\ Goto("idle")
          /\ UNCHANGED <<local, used, uid>>
    /\ UNCHANGED <<home, remote, argVars, scanVars, cfg, commands>>

\* ... then the instance; an error removes the record again.
CreateInstance ==
    /\ pc = "instance"
    /\ \/ /\ remote' = remote \cup {uid}
          /\ Goto("metadata")
          /\ UNCHANGED local
       \/ /\ "create" \in Faults
          /\ DeleteWorkspaceFolder(tgt)
          /\ Goto("idle")
          /\ UNCHANGED remote
    /\ UNCHANGED <<home, used, argVars, uid, scanVars, cfg, commands>>

\* ... and then the record says that it is a pro workspace.
SaveProMetadata ==
    /\ pc = "metadata"
    /\ SaveWorkspaceConfig(Record(tgt, uid, TRUE, FALSE))
    /\ Goto("idle")
    /\ UNCHANGED <<home, remote, used, argVars, uid, scanVars, cfg, commands>>

\* The process is killed.
Crash ==
    /\ "crash" \in Faults /\ pc # "idle"
    /\ Goto("idle")
    /\ UNCHANGED <<home, local, remote, used, argVars, uid, scanVars, cfg, commands>>

\* "only remove local folder if workspace is imported or pro", unless forced.
Delete ==
    /\ pc = "delete"
    /\ \/ /\ ~force /\ cfg.imported
          /\ DeleteWorkspaceFolder(tgt)
          /\ UNCHANGED remote
       \/ /\ force \/ ~cfg.imported
          /\ remote' = remote \ {cfg.uid}
          /\ DeleteWorkspaceFolder(tgt)
       \/ /\ force \/ ~cfg.imported
          /\ "delete" \in Faults /\ Pro(cfg.uid)
          /\ IF force THEN DeleteWorkspaceFolder(tgt) \/ UNCHANGED local ELSE UNCHANGED local
          /\ UNCHANGED remote
    /\ Goto("idle")
    /\ UNCHANGED <<home, used, argVars, uid, scanVars, cfg, commands>>

-----------------------------------------------------------------------------

Finished == pc = "idle" /\ commands = MaxCommands /\ UNCHANGED vars

Step ==
    \/ Start \/ ListLocalWorkspaces \/ AllListed \/ FindWorkspace \/ LoadExistingWorkspace
    \/ CreateWorkspace \/ CreateInstance \/ SaveProMetadata \/ Delete \/ Crash
    \/ \E q \in Providers : ListProWorkspaces(q)
    \/ \E r \in todo : CleanLocalWorkspace(r)

Platform == \E u \in UIDs : CreateElsewhere(u) \/ DeleteElsewhere(u) \/ Import(u)

Next == Step \/ Platform \/ Finished

Spec == Init /\ [][Next]_vars

-----------------------------------------------------------------------------
(* Properties *)

Places == {"idle", "local", "pro", "clean", "load", "create", "instance", "metadata", "delete"}

Records == [id : IDs, uid : UIDs, pro : BOOLEAN, imported : BOOLEAN]

\* The shape of the state.
TypeOK ==
    /\ home \in [UIDs -> [id : IDs, provider : Providers \cup {Local}, own : BOOLEAN]]
    /\ local \in [IDs -> Records \cup {NoRecord}]
    /\ remote \subseteq UIDs /\ used \subseteq UIDs /\ remote \subseteq used
    /\ pc \in Places /\ tgt \in IDs /\ force \in BOOLEAN /\ uid \in UIDs \cup {Unset}
    /\ cmd \in {"none", "list", "get", "up", "delete"}
    /\ records \subseteq Records /\ todo \subseteq Records /\ kept \in BOOLEAN
    /\ \A q \in Providers : results[q] \in {Unset, Failed} \/ results[q] \subseteq UIDs
    /\ cfg \in Records \cup {NoRecord}
    /\ commands \in 0..MaxCommands

\* List removes a record of the user's own workspace only when its instance is
\* gone, whatever the platform does meanwhile and whichever requests fail.
OwnIsKept ==
    [][\A i \in IDs :
        pc = "clean" /\ local[i] # NoRecord /\ local'[i] = NoRecord
            => ~(home[local[i].uid].own /\ local[i].uid \in remote)]_vars

\* Delete without --force leaves the instance of a workspace that is known to be a
\* pro workspace alone.
InstanceNeedsForce ==
    [][\A u \in UIDs :
        pc = "delete" /\ pc' = "idle" /\ ~force /\ u \in remote /\ cfg.pro => u \in remote']_vars
=============================================================================
