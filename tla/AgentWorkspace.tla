---------------------------- MODULE AgentWorkspace ---------------------------
(***************************************************************************)
(* One workspace id on the host the agent runs on: what agent workspace    *)
(* up, build, stop, delete and container-tunnel do to its folder           *)
(* (workspace.json, content/, the busy file) and its container, for a      *)
(* series of client commands, each of which may fail at every step or be   *)
(* killed between two of them.  The client's locks admit one command at a  *)
(* time.  A client that has no record of the id starts a new workspace     *)
(* with a new UID over whatever an earlier one left on the host.           *)
(***************************************************************************)
EXTENDS Naturals

CONSTANTS UIDs,         \* workspace UIDs
          NoUID,
          Sources,      \* kinds of workspace source
          Commands,     \* client commands that may be run
          Faults,       \* the kinds of failure that may happen
          MaxCommands   \* bound: client commands

ASSUME AgentWorkspaceAssumption ==
    /\ NoUID \notin UIDs
    /\ Sources \subseteq {"git", "folder", "image", "container"}
    /\ MaxCommands \in Nat

VARIABLES
    source,       \* UID -> kind of source
    localAgent,   \* the agent runs on the client's host
    clientUid,    \* the client's workspace.json
    clientResult, \* the client has a workspace_result.json
    used,         \* UIDs given to workspaces so far
    info,         \* UID in the agent's workspace.json
    content,      \* the content folder: whose it is and how far the download got
    userFolder,   \* the user's own folder is there
    busy,         \* the busy file
    containers,   \* UIDs that have a dev container
    undeletable,  \* UIDs whose container could not be removed
    pc, cmd, uid, recreate, reset, force, \* the running command
    exists,       \* what InitContentFolder returned
    commands,
    excuses       \* history: what has happened that the properties make exceptions for:
                  \* something a later up takes for a finished download, files that are
                  \* left without their workspace.json, a folder that was taken over

clientVars == <<clientUid, clientResult, used>>
folderVars == <<info, content, busy>>
argVars == <<cmd, uid, recreate, reset, force>>
vars == <<source, localAgent, clientVars, folderVars, userFolder, containers, undeletable,
          pc, argVars, exists, commands, excuses>>

NoContent == [owner |-> NoUID, state |-> "none"]
Content(u, s) == [owner |-> u, state |-> s]

Init ==
    /\ source \in [UIDs -> Sources]
    /\ localAgent \in BOOLEAN
    /\ clientUid = NoUID /\ clientResult = FALSE /\ used = {}
    /\ info = NoUID /\ content = NoContent /\ busy = FALSE
    /\ userFolder = TRUE
    /\ containers = {} /\ undeletable = {}
    /\ pc = "idle" /\ cmd = "none" /\ uid = NoUID
    /\ recreate = FALSE /\ reset = FALSE /\ force = FALSE /\ exists = FALSE
    /\ commands = 0 /\ excuses = {}

\* decodeWorkspaceInfoAndWrite: a local folder is used in place when the client's
\* workspace folder is visible to the agent.
InPlace(u) == source[u] = "folder" /\ localAgent

Goto(l) == pc' = l

\* The command is over, and what it was called with forgotten.
Return ==
    /\ pc' = "idle" /\ cmd' = "none" /\ uid' = NoUID
    /\ recreate' = FALSE /\ reset' = FALSE /\ force' = FALSE /\ exists' = FALSE

Excuses(E) == excuses' = excuses \cup E
Excuse(e) == Excuses({e})

\* Only up and build look whether the folder is another workspace's: the others
\* take it over.
Takeover == IF cmd \in {"stop", "ssh", "delete"} /\ info \notin {NoUID, uid} THEN {"takeover"} ELSE {}

\* os.RemoveAll(Origin), which may leave any part of the folder.
RemoveFolder == info' = NoUID /\ content' = NoContent /\ busy' = FALSE

RemovePart ==
    /\ info' \in {info, NoUID}
    /\ content' \in {content, NoContent} \cup (IF content.state = "none" THEN {} ELSE {[content EXCEPT !.state = "partial"]})
    /\ busy' \in {busy, FALSE}

\* Files are left that no workspace.json names the owner of.
Unowned == IF content'.state # "none" /\ info' = NoUID THEN {"remove"} ELSE {}

-----------------------------------------------------------------------------
(* The client: Resolve gives an unknown id a new UID and records it. *)

Start ==
    /\ pc = "idle" /\ commands < MaxCommands
    /\ commands' = commands + 1
    /\ \E c \in Commands :
        /\ cmd' = c
        /\ \/ /\ c \in {"up", "build"}
              /\ uid' \in (IF clientUid # NoUID THEN {clientUid} ELSE UIDs \ used)
              /\ clientUid' = uid' /\ used' = used \cup {uid'}
              /\ Goto("write")
           \/ /\ c \in {"stop", "ssh", "delete"} /\ clientUid # NoUID
              /\ uid' = clientUid
              /\ UNCHANGED <<clientUid, used>>
              /\ Goto(IF c = "delete" THEN "rmContainer" ELSE "write")
        /\ reset' \in (IF c = "up" THEN BOOLEAN ELSE {FALSE})
        /\ recreate' \in (IF c = "up" THEN BOOLEAN ELSE {FALSE}) /\ (reset' => recreate')
        /\ force' \in (IF c = "delete" THEN BOOLEAN ELSE {FALSE})
    /\ UNCHANGED <<source, localAgent, clientResult, folderVars, userFolder, containers,
                   undeletable, exists, excuses>>

\* A killed command, on either side: the agent exits when its stdin closes, perhaps in the
\* middle of a removal.
Crash ==
    /\ "crash" \in Faults /\ pc # "idle"
    /\ Return
    /\ \/ UNCHANGED folderVars /\ Excuse("download")
       \/ pc \in {"rmOld", "rmFolder"} /\ RemovePart /\ Excuses({"download"} \cup Takeover \cup Unowned)
    /\ UNCHANGED <<source, localAgent, clientVars, userFolder, containers, undeletable, commands>>

-----------------------------------------------------------------------------
(* decodeWorkspaceInfoAndWrite *)

OldWorkspace == cmd \in {"up", "build"} /\ info \notin {NoUID, uid}

\* removeContainer, unless devpod did not make it: TRUE if it did not fail.
RemoveContainer(u, ok) ==
    \/ ok /\ containers' = containers \ {u} /\ UNCHANGED undeletable
    \/ /\ ~ok /\ "container" \in Faults /\ source[u] # "container"
       /\ undeletable' = undeletable \cup {u}
       /\ UNCHANGED containers

\* Another UID is in the folder: its container goes, an error is only logged ...
DeleteOldContainer ==
    /\ pc = "write" /\ OldWorkspace
    /\ \E ok \in BOOLEAN : RemoveContainer(info, ok)
    /\ Goto("rmOld")
    /\ UNCHANGED <<source, localAgent, clientVars, folderVars, userFolder, argVars, exists, commands, excuses>>

\* Mutant: the old workspace loses its config, but not its content.
DeleteOldConfig ==
    /\ pc = "rmOld"
    /\ info' = NoUID
    /\ Goto("rewrite")
    /\ UNCHANGED <<source, localAgent, clientVars, content, busy, userFolder, containers,
                   undeletable, argVars, exists, commands, excuses>>

\* ... and then the folder; an error is ignored, and the new config written over what is left.
DeleteOldFolder ==
    /\ pc = "rmOld"
    /\ \/ RemoveFolder /\ UNCHANGED excuses
       \/ "remove" \in Faults /\ RemovePart /\ Excuses(IF content'.state # "none" THEN {"remove"} ELSE {})
    /\ Goto("rewrite")
    /\ UNCHANGED <<source, localAgent, clientVars, userFolder, containers, undeletable, argVars,
                   exists, commands>>

\* stop, which only stops the container, is done with this.
WriteWorkspaceInfo ==
    /\ (pc = "write" /\ ~OldWorkspace) \/ pc = "rewrite"
    /\ info' = uid
    /\ Excuses(Takeover)
    /\ \/ cmd = "stop" /\ Return
       \/ cmd # "stop" /\ Goto(IF cmd = "ssh" THEN "content" ELSE "busy") /\ UNCHANGED <<argVars, exists>>
    /\ UNCHANGED <<source, localAgent, clientVars, content, busy, userFolder, containers,
                   undeletable, commands>>

-----------------------------------------------------------------------------
(* up and build *)

CreateBusyFile ==
    /\ pc = "busy"
    /\ busy' = TRUE
    /\ Goto("init")
    /\ UNCHANGED <<source, localAgent, clientVars, info, content, userFolder, containers,
                   undeletable, argVars, exists, commands, excuses>>

\* initWorkspace before prepareWorkspace: the tunnel to the client.
InitWorkspace ==
    /\ pc = "init"
    /\ \/ Goto("content")
       \/ "tunnel" \in Faults /\ Goto("initFailed")
    /\ UNCHANGED <<source, localAgent, clientVars, folderVars, userFolder, containers,
                   undeletable, argVars, exists, commands, excuses>>

HasContentFolder == IF InPlace(uid) THEN userFolder ELSE content.state # "none"

\* os.RemoveAll(ContentFolder) and os.MkdirAll(ContentFolder)
SetContentFolder(s) ==
    IF InPlace(uid) THEN userFolder' = (s # "none") /\ UNCHANGED content
    ELSE content' = (IF s = "none" THEN NoContent ELSE Content(uid, s)) /\ UNCHANGED userFolder

\* The removal may fail and leave something (s): the command goes on, or returns another error.
RemoveContentFolder(s) ==
    \/ SetContentFolder("none") /\ UNCHANGED excuses
    \/ "remove" \in Faults /\ SetContentFolder(s) /\ Excuse("remove")

\* An existing folder is taken as it is; a new one stays unless the binaries cannot
\* be downloaded.  container-tunnel calls this too.
InitContentFolder ==
    /\ pc = "content"
    /\ \/ /\ HasContentFolder
          /\ exists' = TRUE
          /\ Goto(IF cmd = "ssh" THEN "tunnel" ELSE "prepare")
          /\ UNCHANGED <<content, userFolder, argVars, excuses>>
       \/ /\ ~HasContentFolder
          /\ SetContentFolder("empty")
          /\ IF cmd = "ssh" THEN Excuse("download") ELSE UNCHANGED excuses
          /\ exists' = clientResult
          /\ Goto(IF cmd = "ssh" THEN "tunnel" ELSE "prepare")
          /\ UNCHANGED argVars
       \/ /\ ~HasContentFolder /\ "binaries" \in Faults
          /\ RemoveContentFolder("empty")
          /\ IF cmd = "ssh" THEN Return
             ELSE exists' = FALSE /\ Goto("initFailed") /\ UNCHANGED argVars
    /\ UNCHANGED <<source, localAgent, clientVars, info, busy, containers, undeletable, commands>>

\* The rest of prepareWorkspace up to the download.
Kept == exists /\ (~recreate \/ (source[uid] = "git" /\ ~reset))

\* Mutant: a reset empties the content folder of every source.
PrepareWorkspaceResetsAll ==
    /\ pc = "prepare"
    /\ IF reset THEN SetContentFolder("none") ELSE UNCHANGED <<content, userFolder>>
    /\ Goto(IF source[uid] = "git" /\ ~Kept THEN "clone" ELSE "docker")
    /\ UNCHANGED <<source, localAgent, clientVars, info, busy, containers, undeletable, argVars,
                   exists, commands, excuses>>

PrepareWorkspace ==
    /\ pc = "prepare"
    /\ \/ /\ Kept \/ InPlace(uid) \/ source[uid] = "container"
          /\ Goto("docker")
          /\ UNCHANGED <<content, userFolder, excuses>>
       \/ /\ ~Kept /\ source[uid] = "git"
          /\ IF reset THEN RemoveContentFolder("partial") ELSE UNCHANGED <<content, userFolder, excuses>>
          /\ Goto("clone")
       \/ /\ ~Kept /\ source[uid] = "folder" /\ ~InPlace(uid)
          /\ Goto("upload")
          /\ UNCHANGED <<content, userFolder, excuses>>
       \/ /\ ~Kept /\ source[uid] = "image"
          /\ SetContentFolder("complete")
          /\ Goto("docker")
          /\ UNCHANGED excuses
    /\ UNCHANGED <<source, localAgent, clientVars, info, busy, containers, undeletable, argVars,
                   exists, commands>>

\* Mutant: a failed clone is not cleaned up.
CloneRepositoryLeaves ==
    /\ pc = "clone"
    /\ \/ SetContentFolder("complete") /\ Goto("docker")
       \/ "clone" \in Faults /\ SetContentFolder("partial") /\ Goto("initFailed")
    /\ UNCHANGED <<source, localAgent, clientVars, info, busy, containers, undeletable, argVars,
                   exists, commands, excuses>>

\* CloneRepositoryForWorkspace: "cleanup workspace dir if clone failed"; an error
\* before git clone (git cannot be installed, the ssh key not be written) leaves it.
\* git clone needs an empty folder.  When an up --reset fails here, the client keeps the
\* result of the up before, for which InitContentFolder takes the workspace as it is.
CloneRepository ==
    /\ pc = "clone"
    /\ \/ content.state # "partial" /\ SetContentFolder("complete") /\ Goto("docker") /\ UNCHANGED excuses
       \/ /\ "clone" \in Faults \/ content.state = "partial"
          /\ Goto("initFailed")
          /\ \/ /\ SetContentFolder("none")
                /\ IF clientResult /\ ~localAgent THEN Excuse("download") ELSE UNCHANGED excuses
             \/ "remove" \in Faults /\ SetContentFolder("partial") /\ Excuse("remove")
       \/ /\ "install" \in Faults /\ Goto("initFailed")
          /\ Excuse("download")
          /\ UNCHANGED <<content, userFolder>>
    /\ UNCHANGED <<source, localAgent, clientVars, info, busy, containers, undeletable, argVars,
                   exists, commands>>

DownloadLocalFolder ==
    /\ pc = "upload"
    /\ \/ SetContentFolder("complete") /\ Goto("docker") /\ UNCHANGED excuses
       \/ "upload" \in Faults /\ SetContentFolder("partial") /\ Goto("initFailed") /\ Excuse("download")
    /\ UNCHANGED <<source, localAgent, clientVars, info, busy, containers, undeletable, argVars,
                   exists, commands>>

\* The rest of initWorkspace waits for the installation of docker.
InstallDocker ==
    /\ pc = "docker"
    /\ Goto("runner") \/ ("docker" \in Faults /\ Goto("initFailed"))
    /\ UNCHANGED <<source, localAgent, clientVars, folderVars, userFolder, containers,
                   undeletable, argVars, exists, commands, excuses>>

\* up: DeleteWorkspaceFolder removes the client's folder, if it is on this host.
InitFailed ==
    /\ pc = "initFailed"
    /\ IF cmd = "up" /\ localAgent
       THEN clientUid' = NoUID /\ clientResult' = FALSE ELSE UNCHANGED <<clientUid, clientResult>>
    /\ Goto("end")
    /\ UNCHANGED <<source, localAgent, used, folderVars, userFolder, containers, undeletable,
                   argVars, exists, commands, excuses>>

\* runner.Up or runner.Build
RunnerUp ==
    /\ pc = "runner"
    /\ \/ /\ containers' = IF cmd = "up" /\ source[uid] # "container" THEN containers \cup {uid} ELSE containers
          /\ Goto(IF cmd = "up" THEN "result" ELSE "end")
       \/ "container" \in Faults /\ Goto("end") /\ UNCHANGED containers
    /\ UNCHANGED <<source, localAgent, clientVars, folderVars, userFolder, undeletable, argVars,
                   exists, commands, excuses>>

SendResult ==
    /\ pc = "result"
    /\ clientResult' = TRUE
    /\ Goto("end")
    /\ UNCHANGED <<source, localAgent, clientUid, used, folderVars, userFolder, containers,
                   undeletable, argVars, exists, commands, excuses>>

DeleteBusyFile ==
    /\ pc = "end"
    /\ busy' = FALSE
    /\ Return
    /\ UNCHANGED <<source, localAgent, clientVars, info, content, userFolder, containers,
                   undeletable, commands, excuses>>

-----------------------------------------------------------------------------
(* container-tunnel and delete *)

\* startDevContainer starts the container, without a build, if it is not running.
StartDevContainer ==
    /\ pc = "tunnel"
    /\ \/ containers' = IF source[uid] # "container" THEN containers \cup {uid} ELSE containers
       \/ "container" \in Faults /\ UNCHANGED containers
    /\ Return
    /\ UNCHANGED <<source, localAgent, clientVars, folderVars, userFolder, undeletable, commands, excuses>>

\* agent workspace delete: an error of the container keeps the folder; the client
\* then keeps its record as well, unless it was called with --force.
DeleteContainer ==
    /\ pc = "rmContainer"
    /\ \/ RemoveContainer(uid, TRUE) /\ Goto("rmFolder") /\ UNCHANGED <<argVars, exists>>
       \/ RemoveContainer(uid, FALSE) /\ force /\ Goto("rmClient") /\ UNCHANGED <<argVars, exists>>
       \/ RemoveContainer(uid, FALSE) /\ ~force /\ Return
    /\ UNCHANGED <<source, localAgent, clientVars, folderVars, userFolder, commands, excuses>>

DeleteFolder ==
    /\ pc = "rmFolder"
    /\ RemoveFolder \/ ("remove" \in Faults /\ RemovePart)
    /\ Excuses(Takeover \cup Unowned)
    /\ Goto("rmClient")
    /\ UNCHANGED <<source, localAgent, clientVars, userFolder, containers, undeletable, argVars,
                   exists, commands>>

DeleteClient ==
    /\ pc = "rmClient"
    /\ clientUid' = NoUID /\ clientResult' = FALSE
    /\ Return
    /\ UNCHANGED <<source, localAgent, used, folderVars, userFolder, containers, undeletable,
                   commands, excuses>>

-----------------------------------------------------------------------------

\* All commands were run, or all UIDs given away.
Finished ==
    /\ pc = "idle"
    /\ commands = MaxCommands \/ (clientUid = NoUID /\ used = UIDs)
    /\ UNCHANGED vars

Step ==
    \/ DeleteOldContainer \/ DeleteOldFolder \/ WriteWorkspaceInfo
    \/ CreateBusyFile \/ InitWorkspace \/ InitContentFolder \/ PrepareWorkspace
    \/ CloneRepository \/ DownloadLocalFolder \/ InstallDocker \/ InitFailed
    \/ RunnerUp \/ SendResult \/ DeleteBusyFile
    \/ StartDevContainer \/ DeleteContainer \/ DeleteFolder \/ DeleteClient

Next == Start \/ Crash \/ Step \/ Finished

Spec == Init /\ [][Next]_vars

-----------------------------------------------------------------------------
(* Properties *)

Places == {"idle", "write", "rmOld", "rewrite", "busy", "init", "content", "prepare", "clone", "upload",
           "docker", "initFailed", "runner", "result", "end", "tunnel", "rmContainer",
           "rmFolder", "rmClient"}

\* The shape of the state.
TypeOK ==
    /\ source \in [UIDs -> Sources] /\ localAgent \in BOOLEAN
    /\ clientUid \in UIDs \cup {NoUID} /\ clientResult \in BOOLEAN /\ used \subseteq UIDs
    /\ info \in UIDs \cup {NoUID} /\ busy \in BOOLEAN
    /\ content \in [owner : UIDs \cup {NoUID}, state : {"none", "empty", "partial", "complete"}]
    /\ userFolder \in BOOLEAN
    /\ containers \subseteq UIDs /\ undeletable \subseteq UIDs
    /\ pc \in Places
    /\ cmd \in {"none", "up", "build", "stop", "ssh", "delete"}
    /\ uid \in UIDs \cup {NoUID}
    /\ recreate \in BOOLEAN /\ reset \in BOOLEAN /\ force \in BOOLEAN /\ exists \in BOOLEAN
    /\ commands \in Nat
    /\ excuses \subseteq {"download", "takeover", "remove"}

\* Whatever fails and whenever a command is killed, devpod never removes the folder
\* that the user works in.
UserFolderKept == userFolder

\* A dev container is started and an image built only from files that belong to
\* this workspace, never from what an earlier workspace of the same name left,
\* wherever commands failed or were killed.  Two exceptions: after a takeover, and
\* after a removal of the old folder (os.RemoveAll, whose error is ignored) that left
\* files but not the workspace.json that says whose they are.
OwnContent ==
    /\ pc \in {"docker", "runner", "tunnel"} /\ excuses \cap {"takeover", "remove"} = {}
    /\ ~InPlace(uid) /\ content.state # "none"
    => content.owner = uid

\* Every dev container can be found again, wherever commands were killed: its UID is
\* in workspace.json, or its removal was tried and failed.  Except after a takeover.
NoOrphanContainer ==
    "takeover" \notin excuses => \A u \in containers : info = u \/ u \in undeletable

Incomplete ==
    /\ pc = "runner" /\ source[uid] \in {"git", "folder"} /\ ~InPlace(uid)
    /\ content.state # "complete"

\* A download that fails is tried again: up and build reach the dev container only
\* with all of the workspace's files, whatever failed before.  The exceptions, all of
\* which leave a folder or a result that the next up takes for a download: a kill, an
\* error before git clone, a broken upload, an ssh that made the folder, a folder that
\* could not be removed, and an up --reset of a remote workspace whose clone failed.
DownloadIsRetried == excuses = {} => ~Incomplete

\* "cleanup workspace dir if clone failed, otherwise we won't try to clone again when
\* rebuilding this workspace": no matter what happens between the two attempts.
CloneIsRetried == ~Incomplete
=============================================================================
