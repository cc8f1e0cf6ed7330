--------------------------- MODULE Machine_proofs ---------------------------
(***************************************************************************)
(* Theorems about the machine.  Its daemon, for any workspaces, timeouts   *)
(* and intervals and any number of commands and restarts: an idle machine  *)
(* goes down, one that is used does not.  The agent's folder, for every    *)
(* set of UIDs, of sources, commands and failures and for any number of    *)
(* commands: the user's folder stays, the files of two workspaces do not   *)
(* mix, no dev container is lost and what was not downloaded is downloaded *)
(* again.                                                                  *)
(***************************************************************************)
EXTENDS AgentDaemon, AgentWorkspace, TLAPS

-----------------------------------------------------------------------------
(* The agent's folder of a workspace *)

\* Where a command is determines what kind of command it is, and what it has
\* written.
CommandAt ==
    /\ pc # "idle" => uid \in UIDs
    /\ pc = "write" => cmd \in {"up", "build", "stop", "ssh"}
    /\ pc \in {"rmOld", "rewrite"} => cmd \in {"up", "build"}
    /\ pc = "rmOld" => info # uid
    /\ pc \in {"rmContainer", "rmFolder"} => cmd = "delete"
    /\ pc = "clone" => source[uid] = "git"
    /\ pc = "upload" => ~InPlace(uid)
    /\ reset => cmd = "up"

\* Past the write of workspace.json the folder is this command's.
FolderTaken ==
    pc \in {"busy", "init", "content", "prepare", "clone", "upload", "docker", "runner", "result", "tunnel"}
        => info = uid

\* The files in the content folder belong to the workspace in workspace.json.
ContentOwned ==
    excuses \cap {"takeover", "remove"} = {} /\ content.state # "none" => content.owner = info /\ info # NoUID

\* Nothing of another workspace is left when the new config is written.
RewriteIsClean ==
    excuses \cap {"takeover", "remove"} = {} /\ pc = "rewrite" => content.state = "none"

\* Before a folder is removed its container is gone, or could not be removed.
ContainerGone ==
    "takeover" \notin excuses =>
        /\ pc \in {"rmOld", "rewrite"} => containers \subseteq undeletable
        /\ pc = "rmFolder" => uid \notin containers

AgentInv ==
    /\ TypeOK
    /\ CommandAt
    /\ FolderTaken
    /\ UserFolderKept
    /\ ContentOwned
    /\ RewriteIsClean
    /\ NoOrphanContainer
    /\ ContainerGone

-----------------------------------------------------------------------------

\* No workspace, no container and nothing in the folder.
LEMMA AgentInvInit == Init => AgentInv
<1> SUFFICES ASSUME Init PROVE AgentInv
  OBVIOUS
<1>1. /\ clientResult \in BOOLEAN /\ busy \in BOOLEAN /\ userFolder \in BOOLEAN
      /\ recreate \in BOOLEAN /\ reset \in BOOLEAN /\ force \in BOOLEAN /\ exists \in BOOLEAN
  BY Zenon DEF Init
<1>2. TypeOK
  BY <1>1, AgentWorkspaceAssumption DEF Init, TypeOK, NoContent, Places
<1> QED
  BY <1>2 DEF Init, AgentInv, CommandAt, FolderTaken, UserFolderKept, ContentOwned, RewriteIsClean,
         NoOrphanContainer, ContainerGone, NoContent

\* A step that leaves the user's folder, and leaves the content folder or makes it the
\* running command's.
FolderSet ==
    /\ userFolder' /\ userFolder' \in BOOLEAN
    /\ content' \in [owner : UIDs \cup {NoUID}, state : {"none", "empty", "partial", "complete"}]
    /\ content' = content \/ (content'.state # "none" => content'.owner = uid)

\* What a command that removes or fills its folder does to it, provided that it removes
\* none that is used in place.
LEMMA ContentFolderSet ==
  ASSUME AgentInv, uid \in UIDs, NEW s \in {"none", "empty", "partial", "complete"},
         SetContentFolder(s), InPlace(uid) => s # "none"
  PROVE  FolderSet
<1>1. CASE InPlace(uid)
  <2>1. userFolder' = TRUE
    BY <1>1, Zenon DEF SetContentFolder
  <2> QED
    BY <1>1, <2>1 DEF AgentInv, TypeOK, SetContentFolder, FolderSet
<1>2. CASE ~InPlace(uid)
  BY <1>2 DEF AgentInv, TypeOK, UserFolderKept, SetContentFolder, Content, NoContent, FolderSet
<1> QED
  BY <1>1, <1>2

\* The state of a command that has returned.
Returned ==
    /\ pc' = "idle" /\ cmd' = "none" /\ uid' = NoUID /\ ~reset'
    /\ recreate' \in BOOLEAN /\ reset' \in BOOLEAN /\ force' \in BOOLEAN /\ exists' \in BOOLEAN

\* A command that returns forgets what it was called with.
LEMMA ReturnMeans == Return => Returned
  BY Zenon DEF Return, Returned

\* What os.RemoveAll leaves of a folder: all, some or none of it.
PartRemoved ==
    /\ info' \in {info, NoUID} /\ busy' \in BOOLEAN
    /\ content' \in [owner : UIDs \cup {NoUID}, state : {"none", "empty", "partial", "complete"}]
    /\ content'.state # "none" => content.state # "none" /\ content'.owner = content.owner

\* A failed removal of a workspace folder leaves at most what was in it.
LEMMA PartRemovedMeans ==
  ASSUME TypeOK, RemovePart
  PROVE  PartRemoved
<1>1. busy' \in BOOLEAN
  BY Zenon DEF TypeOK, RemovePart
<1> QED
  BY <1>1 DEF TypeOK, RemovePart, NoContent, PartRemoved

\* A whole removal leaves nothing.
LEMMA FolderRemovedMeans ==
  ASSUME RemoveFolder
  PROVE  PartRemoved /\ content'.state = "none"
<1>1. busy' \in BOOLEAN
  BY Zenon DEF RemoveFolder
<1> QED
  BY <1>1 DEF RemoveFolder, NoContent, PartRemoved

\* Files without a workspace.json are left only with an excuse.
UnownedIsExcused == content'.state # "none" /\ info' = NoUID => "remove" \in excuses'

\* Every step of a command, its failures and a kill keep the invariant.
LEMMA AgentInvStep == AgentInv /\ [Next]_vars => AgentInv'
<1> SUFFICES ASSUME AgentInv, [Next]_vars PROVE AgentInv'
  OBVIOUS
<1> USE AgentWorkspaceAssumption
    DEF AgentInv, TypeOK, Places, CommandAt, FolderTaken, UserFolderKept, ContentOwned, RewriteIsClean,
        NoOrphanContainer, ContainerGone, InPlace, Goto, clientVars, folderVars, argVars, Excuses, Excuse
<1>1. CASE Start
  <2>1. PICK c \in Commands :
          /\ cmd' = c
          /\ \/ /\ c \in {"up", "build"}
                /\ uid' \in (IF clientUid # NoUID THEN {clientUid} ELSE UIDs \ used)
                /\ clientUid' = uid' /\ used' = used \cup {uid'}
                /\ pc' = "write"
             \/ /\ c \in {"stop", "ssh", "delete"} /\ clientUid # NoUID
                /\ uid' = clientUid
                /\ UNCHANGED <<clientUid, used>>
                /\ pc' = IF c = "delete" THEN "rmContainer" ELSE "write"
          /\ reset' \in (IF c = "up" THEN BOOLEAN ELSE {FALSE})
          /\ recreate' \in (IF c = "up" THEN BOOLEAN ELSE {FALSE})
          /\ force' \in (IF c = "delete" THEN BOOLEAN ELSE {FALSE})
    BY <1>1 DEF Start
  <2>2. reset' \in BOOLEAN /\ recreate' \in BOOLEAN /\ force' \in BOOLEAN
    BY <2>1, Zenon
  <2>3. uid' \in UIDs /\ clientUid' \in UIDs /\ used' \subseteq UIDs
    BY <2>1
  <2>4. reset' => cmd' = "up"
    BY <2>1, Zenon
  <2> QED
    BY <1>1, <2>1, <2>2, <2>3, <2>4 DEF Start
<1>2. CASE Crash
  <2>1. CASE UNCHANGED folderVars /\ Excuse("download")
    BY <1>2, <2>1, ReturnMeans DEF Crash, Returned
  <2>2. CASE pc \in {"rmOld", "rmFolder"} /\ RemovePart /\ Excuses({"download"} \cup Takeover \cup Unowned)
    <3>1. PartRemoved /\ excuses \subseteq excuses' /\ excuses' \subseteq {"download", "takeover", "remove"}
      BY <2>2, PartRemovedMeans DEF Takeover, Unowned
    <3>2. UnownedIsExcused
      BY <2>2 DEF Unowned, UnownedIsExcused
    <3>3. cmd = "delete" /\ info \notin {NoUID, uid} => "takeover" \in excuses'
      BY <2>2 DEF Takeover
    <3>4. Returned /\ UNCHANGED <<source, localAgent, clientVars, userFolder, containers, undeletable, commands>>
      BY <1>2, ReturnMeans DEF Crash
    <3>5. NoOrphanContainer'
      BY <2>2, <3>1, <3>3, <3>4 DEF PartRemoved
    <3> QED
      BY <3>1, <3>2, <3>4, <3>5 DEF PartRemoved, UnownedIsExcused, Returned
  <2> QED
    BY <1>2, <2>1, <2>2 DEF Crash
<1>3. CASE DeleteOldContainer
  BY <1>3 DEF DeleteOldContainer, OldWorkspace, RemoveContainer
<1>4. CASE DeleteOldFolder
  <2>1. pc = "rmOld" /\ pc' = "rewrite"
        /\ UNCHANGED <<source, localAgent, clientVars, userFolder, containers, undeletable, argVars, exists, commands>>
    BY <1>4 DEF DeleteOldFolder
  <2>2. CASE RemoveFolder /\ UNCHANGED excuses
    <3>1. PartRemoved /\ content'.state = "none"
      BY <2>2, FolderRemovedMeans
    <3> QED
      BY <2>1, <2>2, <3>1 DEF PartRemoved
  <2>3. CASE RemovePart /\ Excuses(IF content'.state # "none" THEN {"remove"} ELSE {})
    <3>1. PartRemoved
      BY <2>3, PartRemovedMeans
    <3> QED
      BY <2>1, <2>3, <3>1 DEF PartRemoved
  <2> QED
    BY <1>4, <2>2, <2>3 DEF DeleteOldFolder
<1>5. CASE WriteWorkspaceInfo
  <2>1. /\ (pc = "write" /\ (cmd \in {"up", "build"} => info \in {NoUID, uid})) \/ pc = "rewrite"
        /\ info' = uid /\ excuses' = excuses \cup Takeover
        /\ UNCHANGED <<source, localAgent, clientVars, content, busy, userFolder, containers, undeletable, commands>>
    BY <1>5 DEF WriteWorkspaceInfo, OldWorkspace
  <2>2. \/ cmd = "stop" /\ Returned
        \/ pc' \in {"content", "busy"} /\ UNCHANGED <<argVars, exists>>
    BY <1>5, ReturnMeans DEF WriteWorkspaceInfo
  <2>3. cmd \in {"stop", "ssh"} /\ info \notin {NoUID, uid} => "takeover" \in excuses'
    BY <2>1 DEF Takeover
  <2>4. excuses \subseteq excuses' /\ excuses' \subseteq {"download", "takeover", "remove"}
    BY <2>1 DEF Takeover
  <2>5. TypeOK' /\ CommandAt' /\ FolderTaken' /\ UserFolderKept' /\ RewriteIsClean'
    BY <2>1, <2>2, <2>4 DEF Returned
  <2>6. ContentOwned'
    BY <2>1, <2>3, <2>4
  <2>7. NoOrphanContainer' /\ ContainerGone'
    BY <2>1, <2>2, <2>3, <2>4 DEF Returned
  <2> QED
    BY <2>5, <2>6, <2>7
<1>6. CASE CreateBusyFile
  BY <1>6 DEF CreateBusyFile
<1>7. CASE InitWorkspace
  BY <1>7 DEF InitWorkspace
<1>8. CASE InitContentFolder
  <2>1. FolderSet
    <3>1. CASE HasContentFolder
      <4>1. UNCHANGED <<content, userFolder>>
        BY <1>8, <3>1 DEF InitContentFolder
      <4> QED
        BY <4>1 DEF FolderSet
    <3>2. CASE ~HasContentFolder
      <4>1. ~InPlace(uid) /\ uid \in UIDs
        BY <1>8, <3>2 DEF InitContentFolder, HasContentFolder
      <4>2. SetContentFolder("empty") \/ SetContentFolder("none")
        BY <1>8, <3>2 DEF InitContentFolder, RemoveContentFolder
      <4> QED
        BY <4>1, <4>2, ContentFolderSet
    <3> QED
      BY <3>1, <3>2
  <2>2. exists' \in BOOLEAN
    BY <1>8, Zenon DEF InitContentFolder, Return
  <2>3. /\ pc = "content"
        /\ \/ pc' \in {"tunnel", "prepare", "initFailed"} /\ UNCHANGED argVars
           \/ Returned
        /\ excuses' \in {excuses, excuses \cup {"download"}, excuses \cup {"remove"}}
        /\ UNCHANGED <<source, localAgent, clientVars, info, busy, containers, undeletable, commands>>
    BY <1>8, ReturnMeans DEF InitContentFolder, RemoveContentFolder
  <2> QED
    BY <2>1, <2>2, <2>3 DEF FolderSet, Returned
<1>9. CASE PrepareWorkspace
  <2>1. \/ UNCHANGED <<content, userFolder>>
        \/ source[uid] = "git" /\ (SetContentFolder("none") \/ SetContentFolder("partial"))
        \/ SetContentFolder("complete")
    BY <1>9 DEF PrepareWorkspace, RemoveContentFolder
  <2>2. FolderSet
    <3>1. CASE UNCHANGED <<content, userFolder>>
      BY <3>1 DEF FolderSet
    <3>2. CASE source[uid] = "git" /\ (SetContentFolder("none") \/ SetContentFolder("partial"))
      BY <1>9, <3>2, ContentFolderSet DEF PrepareWorkspace
    <3>3. CASE SetContentFolder("complete")
      BY <1>9, <3>3, ContentFolderSet DEF PrepareWorkspace
    <3> QED
      BY <2>1, <3>1, <3>2, <3>3
  <2>3. excuses' \in {excuses, excuses \cup {"remove"}}
    BY <1>9 DEF PrepareWorkspace, RemoveContentFolder
  <2> QED
    BY <1>9, <2>2, <2>3 DEF PrepareWorkspace, FolderSet
<1>10. CASE CloneRepository
  <2>1. source[uid] = "git" /\ uid \in UIDs
    BY <1>10 DEF CloneRepository
  <2>2. FolderSet
    <3>1. CASE UNCHANGED <<content, userFolder>>
      BY <3>1 DEF FolderSet
    <3>2. CASE SetContentFolder("none") \/ SetContentFolder("partial") \/ SetContentFolder("complete")
      BY <2>1, <3>2, ContentFolderSet
    <3> QED
      BY <1>10, <3>1, <3>2 DEF CloneRepository
  <2>3. /\ pc = "clone" /\ pc' \in {"docker", "initFailed"}
        /\ excuses' \in {excuses, excuses \cup {"download"}, excuses \cup {"remove"}}
        /\ UNCHANGED <<source, localAgent, clientVars, info, busy, containers, undeletable, argVars,
                       exists, commands>>
    BY <1>10 DEF CloneRepository, Excuse
  <2> QED
    BY <2>2, <2>3 DEF FolderSet
<1>11. CASE DownloadLocalFolder
  <2>1. FolderSet
    <3>1. SetContentFolder("complete") \/ SetContentFolder("partial")
      BY <1>11 DEF DownloadLocalFolder
    <3> QED
      BY <1>11, <3>1, ContentFolderSet DEF DownloadLocalFolder
  <2>2. /\ pc = "upload" /\ pc' \in {"docker", "initFailed"}
        /\ excuses' \in {excuses, excuses \cup {"download"}}
        /\ UNCHANGED <<source, localAgent, clientVars, info, busy, containers, undeletable, argVars,
                       exists, commands>>
    BY <1>11 DEF DownloadLocalFolder, Excuse
  <2> QED
    BY <2>1, <2>2 DEF FolderSet
<1>12. CASE InstallDocker
  BY <1>12 DEF InstallDocker
<1>13. CASE InitFailed
  <2>1. clientResult' \in BOOLEAN
    BY <1>13, Zenon DEF InitFailed
  <2> QED
    BY <1>13, <2>1 DEF InitFailed
<1>14. CASE RunnerUp
  BY <1>14 DEF RunnerUp
<1>15. CASE SendResult
  BY <1>15 DEF SendResult
<1>16. CASE DeleteBusyFile
  <2>1. busy' \in BOOLEAN
    BY <1>16, Zenon DEF DeleteBusyFile
  <2> QED
    BY <1>16, <2>1, ReturnMeans DEF DeleteBusyFile, Returned
<1>17. CASE StartDevContainer
  BY <1>17, ReturnMeans DEF StartDevContainer, Returned
<1>18. CASE DeleteContainer
  BY <1>18, ReturnMeans DEF DeleteContainer, RemoveContainer, Returned
<1>19. CASE DeleteFolder
  <2>1. pc = "rmFolder" /\ pc' = "rmClient" /\ cmd = "delete"
        /\ UNCHANGED <<source, localAgent, clientVars, userFolder, containers, undeletable, argVars, exists, commands>>
    BY <1>19 DEF DeleteFolder
  <2>2. PartRemoved
    BY <1>19, FolderRemovedMeans, PartRemovedMeans DEF DeleteFolder
  <2>3. UnownedIsExcused /\ excuses \subseteq excuses' /\ excuses' \subseteq {"download", "takeover", "remove"}
    BY <1>19 DEF DeleteFolder, Takeover, Unowned, UnownedIsExcused
  <2>4. info \notin {NoUID, uid} => "takeover" \in excuses'
    BY <1>19, <2>1 DEF DeleteFolder, Takeover
  <2>5. NoOrphanContainer'
    BY <2>1, <2>2, <2>3, <2>4 DEF PartRemoved
  <2> QED
    BY <2>1, <2>2, <2>3, <2>5 DEF PartRemoved, UnownedIsExcused
<1>20. CASE DeleteClient
  <2>1. clientResult' \in BOOLEAN
    BY <1>20, Zenon DEF DeleteClient
  <2> QED
    BY <1>20, <2>1, ReturnMeans DEF DeleteClient, Returned
<1>21. CASE UNCHANGED vars
  BY <1>21 DEF vars
<1> QED
  BY <1>1, <1>2, <1>3, <1>4, <1>5, <1>6, <1>7, <1>8, <1>9, <1>10, <1>11, <1>12, <1>13, <1>14, <1>15, <1>16, <1>17, <1>18, <1>19, <1>20, <1>21 DEF Next, Step, Finished

\* The invariant holds in every reachable state.
LEMMA AgentInvAlways == Spec => []AgentInv
  BY AgentInvInit, AgentInvStep, PTL DEF Spec

\* The state keeps its shape: no command, failure or kill leads out of it.
THEOREM AgentTypeCorrect == Spec => []TypeOK
  BY AgentInvAlways, PTL DEF AgentInv

\* prepareWorkspace, InitContentFolder and CloneRepositoryForWorkspace remove content
\* folders, none of them the folder the user works in.
THEOREM UserFolderAlwaysKept == Spec => []UserFolderKept
  BY AgentInvAlways, PTL DEF AgentInv

\* A dev container is never started from what an earlier workspace of the same name
\* left in the folder, however many workspaces there were and wherever they stopped.
THEOREM OwnContentHolds == Spec => []OwnContent
<1>1. AgentInv => OwnContent
  BY DEF AgentInv, OwnContent, FolderTaken, ContentOwned
<1> QED
  BY <1>1, AgentInvAlways, PTL

\* No dev container is lost: workspace.json names it, or its removal failed.
THEOREM NoOrphanContainerHolds == Spec => []NoOrphanContainer
  BY AgentInvAlways, PTL DEF AgentInv

-----------------------------------------------------------------------------
(* Downloads *)

\* A workspace whose files are downloaded to its content folder.
Downloaded(u) == source[u] \in {"git", "folder"} /\ ~InPlace(u)

\* A record that the client removed never comes back: the next one has a new UID.
RecordAt ==
    /\ pc \notin {"idle", "end"} => uid = clientUid
    /\ clientUid # NoUID => clientUid \in used
    /\ clientResult => clientUid # NoUID
    /\ content.state # "none" => content.owner \in used

\* What is not complete belongs to a workspace that the client has forgotten, or is
\* about to forget: unless it is being downloaded.
LeftIncomplete ==
    /\ pc \notin {"prepare", "clone", "upload", "rmClient"}
    /\ content.state \notin {"none", "complete"} /\ Downloaded(content.owner)
    => content.owner # clientUid

\* A workspace that was set up once has all of its files, unless it is downloaded
\* again or about to be forgotten.
ResultHasFiles ==
    /\ clientResult /\ Downloaded(clientUid)
    /\ pc \notin {"clone", "upload", "rmClient"} /\ ~(pc = "initFailed" /\ cmd = "up" /\ localAgent)
    => content.state = "complete" /\ content.owner = clientUid

\* It is cloned again only for up --reset.
ClonedAgain ==
    clientResult /\ pc \in {"prepare", "clone"} /\ Downloaded(uid) => IF pc = "prepare" THEN exists ELSE reset

\* What prepareWorkspace takes for downloaded is, and so is what it leaves.
TakenIsComplete ==
    /\ (pc = "prepare" /\ exists) \/ pc \in {"docker", "runner", "result"}
    /\ Downloaded(uid)
    => content.state = "complete"

DownloadsKnown == RecordAt /\ LeftIncomplete /\ ResultHasFiles /\ ClonedAgain /\ TakenIsComplete

RetryInv == excuses = {} => DownloadsKnown

\* What the actions that fill or remove the content folder make of it.
LEMMA ContentFolderMeans ==
  ASSUME TypeOK, uid \in UIDs, ~InPlace(uid), NEW s \in {"none", "empty", "partial", "complete"},
         SetContentFolder(s)
  PROVE  content'.state = s /\ (s # "none" => content'.owner = uid)
  BY DEF SetContentFolder, Content, NoContent

\* Every step keeps what is known of unfinished downloads, as long as there is no excuse.
LEMMA RetryInvStep == AgentInv /\ RetryInv /\ [Next]_vars => RetryInv'
<1> SUFFICES ASSUME AgentInv, RetryInv, [Next]_vars, excuses' = {} PROVE DownloadsKnown'
  BY DEF RetryInv
<1>0. excuses = {}
  BY DEF Next, Step, Finished, vars, Start, Crash, DeleteOldContainer, DeleteOldFolder, WriteWorkspaceInfo,
     CreateBusyFile, InitWorkspace, InitContentFolder, PrepareWorkspace, CloneRepository,
     DownloadLocalFolder, InstallDocker, InitFailed, RunnerUp, SendResult, DeleteBusyFile,
     StartDevContainer, DeleteContainer, DeleteFolder, DeleteClient, RemoveContentFolder, Excuses, Excuse
<1>a. DownloadsKnown
  BY <1>0 DEF RetryInv
<1>b. TypeOK /\ CommandAt /\ (content.state # "none" => content.owner = info /\ info # NoUID)
  BY <1>0 DEF AgentInv, ContentOwned
<1>c. pc \in {"content", "prepare", "clone", "upload", "docker", "runner", "result"} => info = uid
  BY DEF AgentInv, FolderTaken
<1> USE <1>0, <1>a, <1>b, <1>c, AgentWorkspaceAssumption
    DEF TypeOK, Places, CommandAt, DownloadsKnown, RecordAt, LeftIncomplete, ResultHasFiles, ClonedAgain,
        TakenIsComplete, Downloaded, InPlace, Goto, clientVars, folderVars, argVars, Excuses, Excuse
<1>1. CASE Start
  <2>1. \E c \in Commands :
          \/ /\ uid' \in (IF clientUid # NoUID THEN {clientUid} ELSE UIDs \ used)
             /\ clientUid' = uid' /\ used' = used \cup {uid'}
             /\ pc' = "write"
          \/ /\ clientUid # NoUID
             /\ uid' = clientUid
             /\ UNCHANGED <<clientUid, used>>
             /\ pc' = IF c = "delete" THEN "rmContainer" ELSE "write"
    BY <1>1 DEF Start
  <2>2. UNCHANGED <<content, clientResult, source, localAgent>> /\ pc = "idle"
    BY <1>1 DEF Start
  <2> QED
    BY <2>1, <2>2
<1>2. CASE Crash
  BY <1>2 DEF Crash
<1>3. CASE DeleteOldContainer
  BY <1>3 DEF DeleteOldContainer
<1>4. CASE DeleteOldFolder
  <2>1. content'.state = "none" /\ pc = "rmOld" /\ pc' = "rewrite" /\ UNCHANGED <<source, localAgent, clientVars, argVars>>
    BY <1>4 DEF DeleteOldFolder, RemoveFolder, NoContent
  <2>2. clientResult => ~Downloaded(clientUid)
    BY <2>1
  <2> QED
    BY <2>1, <2>2
<1>5. CASE WriteWorkspaceInfo
  BY <1>5 DEF WriteWorkspaceInfo, Return
<1>6. CASE CreateBusyFile
  BY <1>6 DEF CreateBusyFile
<1>7. CASE InitWorkspace
  BY <1>7 DEF InitWorkspace
<1>8. CASE InitContentFolder
  <2>0. uid \in UIDs /\ pc = "content" /\ uid = clientUid /\ clientUid \in used
        /\ UNCHANGED <<source, localAgent, clientVars>>
    BY <1>8 DEF InitContentFolder
  <2>1. CASE HasContentFolder
    <3>1. UNCHANGED <<content, argVars>> /\ pc' \in {"tunnel", "prepare"} /\ exists' = TRUE
      BY <1>8, <2>1 DEF InitContentFolder
    <3>2. Downloaded(uid) => content.state # "none" /\ content.owner = uid
      BY <2>0, <2>1 DEF HasContentFolder
    <3> QED
      BY <2>0, <3>1, <3>2
  <2>2. CASE ~HasContentFolder
    <3>1. ~InPlace(uid)
      BY <2>0, <2>2 DEF AgentInv, UserFolderKept, HasContentFolder
    <3>2. \/ SetContentFolder("empty") /\ pc' = "prepare" /\ exists' = clientResult /\ UNCHANGED argVars
          \/ SetContentFolder("none") /\ (pc' = "idle" \/ (pc' = "initFailed" /\ UNCHANGED argVars))
      BY <1>8, <2>2 DEF InitContentFolder, RemoveContentFolder, Return
    <3>a. clientResult => ~Downloaded(uid)
      BY <2>0, <2>2, <3>1 DEF HasContentFolder
    <3>3. CASE SetContentFolder("empty") /\ pc' = "prepare" /\ exists' = clientResult /\ UNCHANGED argVars
      <4>1. content'.state = "empty" /\ content'.owner = uid
        BY <2>0, <3>1, <3>3, ContentFolderMeans
      <4> QED
        BY <2>0, <3>3, <3>a, <4>1
    <3>4. CASE SetContentFolder("none") /\ (pc' = "idle" \/ (pc' = "initFailed" /\ UNCHANGED argVars))
      <4>1. content'.state = "none"
        BY <2>0, <3>1, <3>4, ContentFolderMeans
      <4> QED
        BY <2>0, <3>4, <3>a, <4>1
    <3> QED
      BY <3>2, <3>3, <3>4
  <2> QED
    BY <2>1, <2>2
<1>9. CASE PrepareWorkspace
  <2>0. uid \in UIDs /\ pc = "prepare" /\ uid = clientUid /\ clientUid \in used
        /\ UNCHANGED <<source, localAgent, clientVars, argVars, exists>>
    BY <1>9 DEF PrepareWorkspace
  <2>1. CASE pc' = "docker" /\ UNCHANGED content /\ (Kept \/ ~Downloaded(uid))
    BY <2>0, <2>1 DEF Kept
  <2>2. CASE pc' \in {"clone", "upload"} /\ UNCHANGED content /\ ~Kept /\ (pc' = "clone" => source[uid] = "git")
    BY <2>0, <2>2 DEF Kept
  <2>3. CASE source[uid] = "git" /\ reset /\ SetContentFolder("none") /\ pc' = "clone"
    BY <2>0, <2>3, ContentFolderMeans
  <2>4. CASE source[uid] = "image" /\ SetContentFolder("complete") /\ pc' = "docker"
    <3>1. content'.state = "complete" /\ content'.owner = uid
      BY <2>0, <2>4, ContentFolderMeans
    <3> QED
      BY <2>0, <2>4, <3>1
  <2> QED
    BY <1>9, <2>0, <2>1, <2>2, <2>3, <2>4 DEF PrepareWorkspace, RemoveContentFolder
<1>10. CASE CloneRepository
  <2>0. uid \in UIDs /\ pc = "clone" /\ uid = clientUid /\ clientUid \in used /\ ~InPlace(uid)
        /\ UNCHANGED <<source, localAgent, clientVars, argVars>>
    BY <1>10 DEF CloneRepository
  <2>1. CASE SetContentFolder("complete") /\ pc' = "docker"
    <3>1. content'.state = "complete" /\ content'.owner = uid
      BY <2>0, <2>1, ContentFolderMeans
    <3> QED
      BY <2>0, <2>1, <3>1
  <2>2. CASE SetContentFolder("none") /\ pc' = "initFailed" /\ ~(clientResult /\ ~localAgent)
    <3>1. content'.state = "none"
      BY <2>0, <2>2, ContentFolderMeans
    <3> QED
      BY <2>0, <2>2, <3>1
  <2> QED
    BY <1>10, <2>1, <2>2 DEF CloneRepository
<1>11. CASE DownloadLocalFolder
  <2>0. uid \in UIDs /\ pc = "upload" /\ uid = clientUid /\ clientUid \in used /\ ~InPlace(uid)
        /\ UNCHANGED <<source, localAgent, clientVars, argVars>>
    BY <1>11 DEF DownloadLocalFolder
  <2>1. SetContentFolder("complete") /\ pc' = "docker"
    BY <1>11 DEF DownloadLocalFolder, Excuse
  <2>2. content'.state = "complete" /\ content'.owner = uid
    BY <2>0, <2>1, ContentFolderMeans
  <2> QED
    BY <2>0, <2>1, <2>2
<1>12. CASE InstallDocker
  BY <1>12 DEF InstallDocker
<1>13. CASE InitFailed
  BY <1>13 DEF InitFailed
<1>14. CASE RunnerUp
  BY <1>14 DEF RunnerUp
<1>15. CASE SendResult
  <2>1. pc = "result" /\ pc' = "end" /\ UNCHANGED <<source, localAgent, clientUid, used, content, argVars>>
    BY <1>15 DEF SendResult
  <2>2. uid \in UIDs /\ uid = clientUid /\ (Downloaded(uid) => content.state = "complete" /\ content.owner = uid)
    BY <2>1
  <2> QED
    BY <2>1, <2>2
<1>16. CASE DeleteBusyFile
  BY <1>16 DEF DeleteBusyFile, Return
<1>17. CASE StartDevContainer
  BY <1>17 DEF StartDevContainer, Return
<1>18. CASE DeleteContainer
  BY <1>18 DEF DeleteContainer, Return
<1>19. CASE DeleteFolder
  <2>1. PartRemoved /\ pc = "rmFolder" /\ pc' = "rmClient" /\ UNCHANGED <<source, localAgent, clientVars, argVars>>
    BY <1>19, FolderRemovedMeans, PartRemovedMeans DEF DeleteFolder
  <2> QED
    BY <2>1 DEF PartRemoved
<1>20. CASE DeleteClient
  BY <1>20 DEF DeleteClient, Return
<1>21. CASE UNCHANGED vars
  BY <1>21 DEF vars
<1> QED
  BY <1>1, <1>2, <1>3, <1>4, <1>5, <1>6, <1>7, <1>8, <1>9, <1>10, <1>11, <1>12, <1>13, <1>14, <1>15, <1>16, <1>17, <1>18, <1>19, <1>20, <1>21 DEF Next, Step, Finished

\* prepareWorkspace downloads again what an earlier up or build failed to download, for
\* any number of workspaces, commands and failures, as long as none of the excuses of
\* DownloadIsRetried happened.
THEOREM DownloadIsRetriedHolds == Spec => []DownloadIsRetried
<1>1. Init => RetryInv
  BY AgentWorkspaceAssumption
     DEF Init, RetryInv, DownloadsKnown, RecordAt, LeftIncomplete, ResultHasFiles, ClonedAgain, TakenIsComplete, NoContent
<1>2. AgentInv /\ RetryInv => DownloadIsRetried
  BY DEF RetryInv, DownloadsKnown, TakenIsComplete, DownloadIsRetried, Incomplete, Downloaded
<1> QED
  BY <1>1, <1>2, AgentInvAlways, RetryInvStep, PTL DEF Spec

-----------------------------------------------------------------------------
(* The daemon of the machine *)

\* An activity that the patrol has seen.
Seen == [activity : Nat, workspace : Workspaces]

\* The daemon wakes at its time; nothing was written or started in the future; and
\* a daemon has touched all that it found when it started.
ClockRuns ==
    /\ started <= now /\ lastUse <= now
    /\ daemon # "absent" => now <= wake /\ wake <= now + Interval
    /\ \A w \in Workspaces : mtime[w] # NoTime =>
          mtime[w] <= lastUse /\ (daemon # "absent" => started <= mtime[w])

\* A client that is connected refreshes in time, and for as long as its refreshes
\* failed its config is old.
Fresh(w) ==
    heartbeat[w] # NoTime =>
        /\ now <= heartbeat[w] /\ heartbeat[w] <= now + UpdateInterval
        /\ mtime[w] # NoTime => heartbeat[w] <= mtime[w] + (missed[w] + 1) * UpdateInterval

\* What a patrol has read is not newer than its latestActivity, or was written since.
LatestIs ==
    latest # NoTime => started <= latest.activity /\ latest.activity <= lastUse + BusyGrace

Scanned ==
    daemon = "scan" => \A w \in autoStop \cap Written :
        w \in scan \/ mtime[w] = now \/ (latest # NoTime /\ mtime[w] <= latest.activity)

\* The daemon wakes before an unused machine is overdue.
WakesInTime ==
    daemon # "absent" /\ failures = 0 /\ autoStop \cap Written # {}
        => wake < lastUse + BusyGrace + LongestTimeout + Interval

DaemonInv ==
    /\ AgentDaemonTypeOK
    /\ ClockRuns
    /\ \A w \in Workspaces : Fresh(w)
    /\ LatestIs
    /\ Scanned
    /\ WakesInTime

-----------------------------------------------------------------------------

\* LongestTimeout is one of the timeouts, and none is longer.
LEMMA LongestTimeoutIs == LongestTimeout \in Nat /\ \A t \in Timeouts : t <= LongestTimeout
  BY DaemonAssumption DEF LongestTimeout

\* One refresh more that fails is one interval more.
LEMMA OneMoreMissed ==
    ASSUME NEW n \in Nat
    PROVE  /\ (n + 1) * UpdateInterval \in Nat
           /\ UpdateInterval <= (n + 1) * UpdateInterval
           /\ ((n + 1) + 1) * UpdateInterval = (n + 1) * UpdateInterval + UpdateInterval
           /\ (0 + 1) * UpdateInterval = UpdateInterval
<1> DEFINE u == UpdateInterval
<1>1. u \in Nat /\ u >= 1
  BY DaemonAssumption
<1>2. n * u \in Nat
  BY <1>1
<1>3. (n + 1) * u = n * u + u /\ ((n + 1) + 1) * u = n * u + u + u
  BY <1>1
<1> HIDE DEF u
<1>4. (n + 1) * u \in Nat /\ u <= (n + 1) * u /\ ((n + 1) + 1) * u = (n + 1) * u + u /\ (0 + 1) * u = u
  BY <1>1, <1>2, <1>3
<1> QED
  BY <1>4 DEF u

\* The daemon is not installed yet and there is no workspace.
LEMMA DaemonInvInit == AgentDaemonInit => DaemonInv
<1> SUFFICES ASSUME AgentDaemonInit PROVE DaemonInv
  OBVIOUS
<1>1. on \in BOOLEAN
  BY Zenon DEF AgentDaemonInit
<1>2. AgentDaemonTypeOK
  BY <1>1, DaemonAssumption DEF AgentDaemonInit, AgentDaemonTypeOK, Times
<1>3. \A w \in Workspaces : Fresh(w)
  BY DEF AgentDaemonInit, Fresh
<1>4. ClockRuns /\ LatestIs /\ Scanned /\ WakesInTime
  BY DaemonAssumption DEF AgentDaemonInit, ClockRuns, LatestIs, Scanned, WakesInTime
<1> QED
  BY <1>2, <1>3, <1>4 DEF DaemonInv


\* A step of a command writes, touches or removes configs, all of them now.
WrittenNow == \A w \in Workspaces : mtime'[w] \in {mtime[w], now, NoTime}

\* What such a step keeps, for a client that it leaves as it is.
LEMMA FreshKept ==
    ASSUME DaemonInv, NEW w \in Workspaces, WrittenNow, now' = now,
           heartbeat'[w] = heartbeat[w], missed'[w] = missed[w]
    PROVE  Fresh(w)'
<1> DEFINE k == (missed[w] + 1) * UpdateInterval
<1>1. missed[w] \in Nat /\ heartbeat[w] \in Nat \cup {NoTime} /\ mtime[w] \in Nat \cup {NoTime} /\ now \in Nat
  BY DEF DaemonInv, AgentDaemonTypeOK, Times
<1>2. k \in Nat /\ UpdateInterval <= k /\ UpdateInterval \in Nat
  BY <1>1, OneMoreMissed, DaemonAssumption
<1>3. heartbeat[w] # NoTime =>
        /\ now <= heartbeat[w] /\ heartbeat[w] <= now + UpdateInterval
        /\ mtime[w] # NoTime => heartbeat[w] <= mtime[w] + k
  BY DEF DaemonInv, Fresh
<1>4. mtime'[w] \in {mtime[w], now, NoTime}
  BY DEF WrittenNow
<1>5. mtime[w] # NoTime => mtime[w] <= now
  BY <1>1 DEF DaemonInv, AgentDaemonTypeOK, ClockRuns
<1> HIDE DEF k
<1>6. heartbeat[w] # NoTime =>
        /\ now <= heartbeat[w] /\ heartbeat[w] <= now + UpdateInterval
        /\ mtime'[w] # NoTime => heartbeat[w] <= mtime'[w] + k
  BY <1>1, <1>2, <1>3, <1>4, <1>5
<1> QED
  BY <1>6 DEF Fresh, k

\* A step of a command that leaves the daemon alone.
LEMMA CommandKeeps ==
    ASSUME DaemonInv, AgentDaemonTypeOK', WrittenNow, lastUse' = now,
           UNCHANGED <<now, timeout, autoStop, patrolVars, failures>>
    PROVE  ClockRuns' /\ LatestIs' /\ Scanned' /\ WakesInTime'
<1> USE DaemonAssumption DEF DaemonInv
<1>1. ClockRuns'
  BY DEF AgentDaemonTypeOK, Times, ClockRuns, WrittenNow, patrolVars
<1>2. LatestIs'
  BY DEF AgentDaemonTypeOK, ClockRuns, LatestIs, patrolVars, Seen
<1>3. Scanned'
  BY DEF AgentDaemonTypeOK, Times, Scanned, Written, WrittenNow, patrolVars
<1>4. WakesInTime'
  BY <1>1, LongestTimeoutIs DEF AgentDaemonTypeOK, ClockRuns, WakesInTime, patrolVars
<1> QED
  BY <1>1, <1>2, <1>3, <1>4

\* The start of a daemon, by an up, by the machine or by the service manager.
LEMMA PatrolKeeps ==
    ASSUME DaemonInv, AgentDaemonTypeOK', Patrol, lastUse' = now,
           UNCHANGED <<now, timeout, autoStop, failures>>
    PROVE  WrittenNow /\ ClockRuns' /\ LatestIs' /\ Scanned' /\ WakesInTime'
<1> USE DaemonAssumption DEF DaemonInv, Patrol
<1>1. \A w \in Workspaces : mtime'[w] = IF mtime[w] = NoTime THEN NoTime ELSE now
  BY DEF InitialTouch
<1>2. ClockRuns'
  BY <1>1 DEF AgentDaemonTypeOK, ClockRuns
<1>3. LatestIs' /\ Scanned'
  BY DEF LatestIs, Scanned
<1>4. WakesInTime'
  BY <1>2, LongestTimeoutIs DEF AgentDaemonTypeOK, WakesInTime
<1> QED
  BY <1>1, <1>2, <1>3, <1>4 DEF WrittenNow

\* A step that leaves the files and clients as they are.
LEMMA FilesKept ==
    ASSUME DaemonInv, AgentDaemonTypeOK, UNCHANGED <<now, fileVars, clientFileVars>>
    PROVE  \A w \in Workspaces : Fresh(w)'
<1>1. WrittenNow
  BY DEF WrittenNow, fileVars
<1> QED
  BY <1>1, FreshKept DEF fileVars, clientFileVars

\* Every step of the clock, of the commands and of the daemon keeps the invariant.
LEMMA DaemonInvStep == DaemonInv /\ [AgentDaemonNext]_agentDaemonVars => DaemonInv'
<1> SUFFICES ASSUME DaemonInv, [AgentDaemonNext]_agentDaemonVars PROVE DaemonInv'
  OBVIOUS
<1>0. AgentDaemonTypeOK /\ ClockRuns /\ LatestIs /\ Scanned /\ WakesInTime
  BY DEF DaemonInv
<1> USE DaemonAssumption
<1>t. now \in Nat /\ now + UpdateInterval \in Nat /\ now + Interval \in Nat /\ machineCommands + 1 \in Nat
      /\ now + 1 \in Nat
  BY <1>0 DEF AgentDaemonTypeOK
<1>1. ASSUME NEW w \in Workspaces, Begin(w), machineCommands' = machineCommands + 1, lastUse' = now
      PROVE  DaemonInv'
  <2>1. UNCHANGED <<now, timeout, autoStop, on, patrolVars, failures>>
    BY <1>1 DEF Begin, UpBegin, Connect, StopWorkspace, DeleteWorkspace, clientFileVars
  <2>2. /\ mtime' \in {[mtime EXCEPT ![w] = now], [mtime EXCEPT ![w] = NoTime]}
        /\ busyFiles' \subseteq Workspaces
        /\ up' \in [Workspaces -> {"none", "written", "busy"}]
    BY <1>0, <1>1 DEF Begin, UpBegin, Connect, StopWorkspace, DeleteWorkspace, WriteInfo, clientFileVars,
       AgentDaemonTypeOK
  <2>3. /\ mtime' \in [Workspaces -> Times] /\ WrittenNow
    BY <1>0, <1>t, <2>2 DEF AgentDaemonTypeOK, Times, WrittenNow
  <2>4. \/ UNCHANGED <<heartbeat, missed>>
        \/ /\ heartbeat' = [heartbeat EXCEPT ![w] = now + UpdateInterval]
           /\ missed' = [missed EXCEPT ![w] = 0] /\ mtime' = [mtime EXCEPT ![w] = now]
    BY <1>1 DEF Begin, UpBegin, Connect, StopWorkspace, DeleteWorkspace, WriteInfo, clientFileVars
  <2>5. heartbeat' \in [Workspaces -> Times] /\ missed' \in [Workspaces -> Nat]
    BY <1>0, <1>t, <2>4 DEF AgentDaemonTypeOK, Times
  <2>6. AgentDaemonTypeOK'
    BY <1>0, <1>1, <1>t, <2>1, <2>2, <2>3, <2>5 DEF AgentDaemonTypeOK, patrolVars
  <2>7. ASSUME NEW v \in Workspaces PROVE Fresh(v)'
    <3>1. CASE heartbeat'[v] = heartbeat[v] /\ missed'[v] = missed[v]
      BY <2>1, <2>3, <3>1, FreshKept
    <3>2. CASE ~(heartbeat'[v] = heartbeat[v] /\ missed'[v] = missed[v])
      <4>1. v = w /\ heartbeat'[v] = now + UpdateInterval /\ missed'[v] = 0 /\ mtime'[v] = now
        BY <1>0, <2>4, <3>2 DEF AgentDaemonTypeOK
      <4> QED
        BY <1>t, <2>1, <4>1, OneMoreMissed DEF Fresh
    <3> QED
      BY <3>1, <3>2
  <2>8. ClockRuns' /\ LatestIs' /\ Scanned' /\ WakesInTime'
    BY <1>1, <2>1, <2>3, <2>6, CommandKeeps
  <2> QED
    BY <2>6, <2>7, <2>8 DEF DaemonInv
<1>2. ASSUME NEW w \in Workspaces, UpBusy(w) \/ UpEnd(w), lastUse' = now, UNCHANGED machineCommands
      PROVE  DaemonInv'
  <2>1. UNCHANGED <<now, timeout, autoStop, on, mtime, heartbeat, missed, patrolVars, failures>>
    BY <1>2 DEF UpBusy, UpEnd
  <2>2. up' \in [Workspaces -> {"none", "written", "busy"}] /\ busyFiles' \subseteq Workspaces
    BY <1>0, <1>2 DEF UpBusy, UpEnd, AgentDaemonTypeOK
  <2>3. AgentDaemonTypeOK' /\ WrittenNow
    BY <1>0, <1>2, <2>1, <2>2 DEF AgentDaemonTypeOK, patrolVars, WrittenNow
  <2>4. ClockRuns' /\ LatestIs' /\ Scanned' /\ WakesInTime'
    BY <1>2, <2>1, <2>3, CommandKeeps
  <2>5. \A v \in Workspaces : Fresh(v)'
    BY <2>1, <2>3, FreshKept
  <2> QED
    BY <2>3, <2>4, <2>5 DEF DaemonInv
<1>3. ASSUME NEW w \in Workspaces, UpdateConfig(w) \/ Disconnect(w), lastUse' = now,
             UNCHANGED machineCommands
      PROVE  DaemonInv'
  <2>1. UNCHANGED <<now, timeout, autoStop, on, busyFiles, up, patrolVars, failures>>
    BY <1>3 DEF UpdateConfig, Disconnect, fileVars
  <2>2. CASE Disconnect(w)
    <3>1. /\ heartbeat' = [heartbeat EXCEPT ![w] = NoTime] /\ missed' = [missed EXCEPT ![w] = 0]
          /\ mtime' = mtime
      BY <2>2 DEF Disconnect, fileVars
    <3>2. heartbeat' \in [Workspaces -> Times] /\ missed' \in [Workspaces -> Nat] /\ WrittenNow
      BY <1>0, <3>1 DEF AgentDaemonTypeOK, Times, WrittenNow
    <3>3. AgentDaemonTypeOK'
      BY <1>0, <1>3, <2>1, <3>1, <3>2 DEF AgentDaemonTypeOK, patrolVars
    <3>4. ASSUME NEW v \in Workspaces PROVE Fresh(v)'
      <4>1. CASE v = w
        BY <1>0, <3>1, <4>1 DEF Fresh, AgentDaemonTypeOK
      <4>2. CASE v # w
        BY <1>0, <2>1, <3>1, <3>2, <4>2, FreshKept DEF AgentDaemonTypeOK
      <4> QED
        BY <4>1, <4>2
    <3>5. ClockRuns' /\ LatestIs' /\ Scanned' /\ WakesInTime'
      BY <1>3, <2>1, <3>2, <3>3, CommandKeeps
    <3> QED
      BY <3>3, <3>4, <3>5 DEF DaemonInv
  <2>3. CASE UpdateConfig(w)
    <3>0. missed[w] \in Nat /\ heartbeat[w] = now /\ mtime[w] \in Nat \cup {NoTime}
      BY <1>0, <2>3 DEF AgentDaemonTypeOK, UpdateConfig, Times
    <3>1. /\ heartbeat' = [heartbeat EXCEPT ![w] = now + UpdateInterval]
          /\ \/ mtime' = [mtime EXCEPT ![w] = now] /\ missed' = [missed EXCEPT ![w] = 0]
             \/ mtime' = mtime /\ missed' = [missed EXCEPT ![w] = missed[w] + 1]
      BY <1>0, <2>3 DEF UpdateConfig, WriteInfo, AgentDaemonTypeOK
    <3>2. /\ heartbeat' \in [Workspaces -> Times] /\ missed' \in [Workspaces -> Nat]
          /\ mtime' \in [Workspaces -> Times]
      BY <1>0, <1>t, <3>0, <3>1 DEF AgentDaemonTypeOK, Times
    <3>3. WrittenNow
      BY <1>0, <3>1 DEF AgentDaemonTypeOK, WrittenNow
    <3>4. AgentDaemonTypeOK'
      BY <1>0, <1>3, <2>1, <3>2 DEF AgentDaemonTypeOK, patrolVars
    <3>5. ASSUME NEW v \in Workspaces PROVE Fresh(v)'
      <4>1. CASE v = w
        <5>1. heartbeat'[w] = now + UpdateInterval
          BY <1>0, <3>1 DEF AgentDaemonTypeOK
        <5>2. CASE mtime'[w] = now /\ missed'[w] = 0
          BY <1>t, <2>1, <4>1, <5>1, <5>2, OneMoreMissed DEF Fresh
        <5>3. CASE mtime'[w] = mtime[w] /\ missed'[w] = missed[w] + 1
          <6> DEFINE k == (missed[w] + 1) * UpdateInterval
          <6>1. k \in Nat /\ ((missed[w] + 1) + 1) * UpdateInterval = k + UpdateInterval
            BY <3>0, OneMoreMissed
          <6>2. mtime[w] # NoTime => now <= mtime[w] + k
            BY <1>t, <3>0 DEF DaemonInv, Fresh
          <6> HIDE DEF k
          <6>3. mtime[w] # NoTime => now + UpdateInterval <= mtime[w] + (k + UpdateInterval)
            BY <1>t, <3>0, <6>1, <6>2
          <6>4. mtime'[w] # NoTime => heartbeat'[w] <= mtime'[w] + (missed'[w] + 1) * UpdateInterval
            BY <5>1, <5>3, <6>1, <6>3
          <6> QED
            BY <1>t, <2>1, <4>1, <5>1, <6>4 DEF Fresh
        <5> QED
          BY <1>0, <3>0, <3>1, <5>2, <5>3 DEF AgentDaemonTypeOK
      <4>2. CASE v # w
        BY <1>0, <2>1, <3>1, <3>3, <4>2, FreshKept DEF AgentDaemonTypeOK
      <4> QED
        BY <4>1, <4>2
    <3>6. ClockRuns' /\ LatestIs' /\ Scanned' /\ WakesInTime'
      BY <1>3, <2>1, <3>3, <3>4, CommandKeeps
    <3> QED
      BY <3>4, <3>5, <3>6 DEF DaemonInv
  <2> QED
    BY <1>3, <2>2, <2>3
<1>4. ASSUME Patrol, lastUse' = now, UNCHANGED <<now, timeout, autoStop, busyFiles, clientFileVars, failures>>,
             on' \in BOOLEAN, machineCommands' \in Nat
      PROVE  DaemonInv'
  <2>1. mtime' \in [Workspaces -> Times]
    BY <1>0, <1>t, <1>4 DEF Patrol, InitialTouch, AgentDaemonTypeOK, Times
  <2>2. AgentDaemonTypeOK'
    BY <1>0, <1>t, <1>4, <2>1 DEF Patrol, AgentDaemonTypeOK, clientFileVars
  <2>3. WrittenNow /\ ClockRuns' /\ LatestIs' /\ Scanned' /\ WakesInTime'
    BY <1>4, <2>2, PatrolKeeps
  <2>4. \A v \in Workspaces : Fresh(v)'
    BY <1>4, <2>3, FreshKept DEF clientFileVars
  <2> QED
    BY <2>2, <2>3, <2>4 DEF DaemonInv
<1>5. ASSUME Tick, UNCHANGED <<lastUse, machineCommands>> PROVE DaemonInv'
  <2>1. /\ now' = now + 1 /\ daemon # "scan" /\ (daemon = "sleep" => now < wake)
        /\ UNCHANGED <<timeout, autoStop, fileVars, clientFileVars, on, patrolVars, failures, lastUse, machineCommands>>
    BY <1>5 DEF Tick
  <2>2. AgentDaemonTypeOK'
    BY <1>0, <1>t, <2>1 DEF AgentDaemonTypeOK, fileVars, clientFileVars, patrolVars
  <2>3. ClockRuns' /\ LatestIs' /\ Scanned' /\ WakesInTime'
    BY <1>0, <2>1 DEF AgentDaemonTypeOK, Times, ClockRuns, LatestIs, Scanned, WakesInTime, Written,
       fileVars, patrolVars
  <2>4. ASSUME NEW w \in Workspaces PROVE Fresh(w)'
    <3>1. heartbeat[w] # NoTime => now < heartbeat[w]
      BY <1>5 DEF Tick
    <3>2. heartbeat[w] \in Nat \cup {NoTime}
      BY <1>0 DEF AgentDaemonTypeOK, Times
    <3>3. heartbeat[w] # NoTime => now + 1 <= heartbeat[w] /\ heartbeat[w] <= (now + 1) + UpdateInterval
      BY <1>t, <3>1, <3>2 DEF DaemonInv, Fresh
    <3> QED
      BY <2>1, <3>3 DEF DaemonInv, Fresh, fileVars, clientFileVars
  <2> QED
    BY <2>2, <2>3, <2>4 DEF DaemonInv
<1>6. ASSUME DoOnce, UNCHANGED <<lastUse, machineCommands>> PROVE DaemonInv'
  <2>1. AgentDaemonTypeOK'
    BY <1>0, <1>6 DEF DoOnce, AgentDaemonTypeOK, Written, fileVars, clientFileVars
  <2>2. ClockRuns' /\ LatestIs' /\ Scanned' /\ WakesInTime'
    BY <1>0, <1>6 DEF DoOnce, ClockRuns, LatestIs, Scanned, WakesInTime, Written, fileVars, patrolVars
  <2> QED
    BY <1>0, <1>6, <2>1, <2>2, FilesKept DEF DaemonInv, DoOnce
<1>7. ASSUME NEW w \in Workspaces, GetActivity(w), UNCHANGED <<lastUse, machineCommands>> PROVE DaemonInv'
  <2>0. UNCHANGED <<now, timeout, autoStop, fileVars, clientFileVars, on, daemon, wake, started, failures>>
        /\ daemon = "scan" /\ scan' = scan \ {w}
    BY <1>7 DEF GetActivity
  <2>1. CASE latest' = latest /\ (w \in autoStop \cap Written => latest # NoTime /\ Activity(w) <= latest.activity)
    <3>1. AgentDaemonTypeOK'
      BY <1>0, <1>7, <2>0, <2>1 DEF AgentDaemonTypeOK, fileVars, clientFileVars
    <3>2. ClockRuns' /\ LatestIs' /\ WakesInTime'
      BY <1>0, <1>7, <2>0, <2>1 DEF ClockRuns, LatestIs, WakesInTime, Written, fileVars
    <3>3. w \in autoStop \cap Written => latest # NoTime /\ mtime[w] <= latest.activity
      BY <1>0, <2>1 DEF Activity, Written, AgentDaemonTypeOK, Times
    <3>4. Scanned'
      BY <1>0, <2>0, <2>1, <3>3 DEF Scanned, Written, fileVars
    <3> QED
      BY <1>0, <2>0, <3>1, <3>2, <3>4, FilesKept DEF DaemonInv
  <2>2. CASE /\ w \in autoStop \cap Written /\ latest' = [activity |-> Activity(w), workspace |-> w]
             /\ latest # NoTime => Activity(w) > latest.activity
    <3>1. mtime[w] \in Nat /\ Activity(w) \in Nat /\ mtime[w] <= Activity(w) /\ Activity(w) <= mtime[w] + BusyGrace
      BY <1>0, <2>2 DEF Activity, Written, AgentDaemonTypeOK, Times
    <3>2. latest' \in Seen /\ latest' # NoTime /\ latest'.activity = Activity(w)
      BY <2>2, <3>1 DEF Seen
    <3>3. AgentDaemonTypeOK'
      BY <1>0, <1>7, <2>0, <3>2 DEF AgentDaemonTypeOK, fileVars, clientFileVars, Seen
    <3>4. ClockRuns' /\ WakesInTime'
      BY <1>0, <1>7, <2>0 DEF ClockRuns, WakesInTime, Written, fileVars
    <3>5. LatestIs'
      BY <1>0, <1>7, <2>0, <2>2, <3>1, <3>2 DEF ClockRuns, LatestIs, Written, AgentDaemonTypeOK
    <3>6. latest # NoTime => latest.activity \in Nat
      BY <1>0 DEF AgentDaemonTypeOK
    <3>7. Scanned'
      BY <1>0, <2>0, <2>2, <3>1, <3>2, <3>6 DEF Scanned, Written, fileVars, AgentDaemonTypeOK, Times
    <3> QED
      BY <1>0, <2>0, <3>3, <3>4, <3>5, <3>7, FilesKept DEF DaemonInv
  <2>3. Activity(w) \in Nat \/ w \notin Written
    BY <1>0 DEF Activity, Written, AgentDaemonTypeOK, Times
  <2>4. latest # NoTime => latest.activity \in Nat
    BY <1>0 DEF AgentDaemonTypeOK
  <2> QED
    BY <1>7, <2>1, <2>2, <2>3, <2>4 DEF GetActivity
<1>8. ASSUME Decide, UNCHANGED <<lastUse, machineCommands>> PROVE DaemonInv'
  <2>0. /\ daemon = "scan" /\ scan = {} /\ scan' = {} /\ latest' = NoTime
        /\ UNCHANGED <<now, timeout, autoStop, fileVars>>
    BY <1>8 DEF Decide
  <2>1. CASE PowerOff /\ UNCHANGED failures
    <3>1. AgentDaemonTypeOK'
      <4>1. on' \in BOOLEAN
        BY <2>1, Zenon DEF PowerOff
      <4> QED
        BY <1>0, <1>8, <2>0, <2>1, <4>1 DEF PowerOff, AgentDaemonTypeOK, Times, fileVars
    <3>2. ClockRuns' /\ LatestIs' /\ Scanned' /\ WakesInTime'
      BY <1>0, <1>8, <2>0, <2>1 DEF PowerOff, ClockRuns, LatestIs, Scanned, WakesInTime, fileVars, AgentDaemonTypeOK
    <3>3. \A w \in Workspaces : Fresh(w)'
      BY <2>1 DEF PowerOff, Fresh
    <3> QED
      BY <3>1, <3>2, <3>3 DEF DaemonInv
  <2>2. CASE Sleep
    <3>1. failures' \in Nat /\ (failures' = 0 => failures = 0 /\ (latest # NoTime => ~Expired))
      <4>1. ~PowerOff
        BY <2>2 DEF PowerOff, Sleep
      <4>2. \/ (latest # NoTime => ~Expired) /\ failures' = failures
            \/ failures' = failures + 1
        BY <1>8, <4>1 DEF Decide
      <4>3. failures \in Nat
        BY <1>0 DEF AgentDaemonTypeOK
      <4> QED
        BY <4>2, <4>3
    <3>2. AgentDaemonTypeOK'
      BY <1>0, <1>8, <1>t, <2>0, <2>2, <3>1 DEF Sleep, AgentDaemonTypeOK, fileVars
    <3>3. ClockRuns' /\ LatestIs' /\ Scanned'
      BY <1>0, <1>8, <2>0, <2>2 DEF Sleep, ClockRuns, LatestIs, Scanned, fileVars, AgentDaemonTypeOK
    <3>4. WakesInTime'
      <4> SUFFICES ASSUME failures' = 0, autoStop \cap Written # {}
                   PROVE  now + Interval < lastUse + BusyGrace + LongestTimeout + Interval
        BY <1>8, <2>0, <2>2 DEF WakesInTime, Sleep, Written, fileVars
      <4>1. PICK w \in autoStop \cap Written : TRUE
        OBVIOUS
      <4>2. mtime[w] = now \/ latest # NoTime
        BY <1>0, <2>0, <4>1 DEF Scanned
      <4>3. CASE mtime[w] = now
        BY <1>0, <1>t, <4>1, <4>3, LongestTimeoutIs DEF ClockRuns, AgentDaemonTypeOK, Written
      <4>4. CASE latest # NoTime
        <5>1. latest.activity \in Nat /\ timeout[latest.workspace] \in Timeouts
          BY <1>0, <4>4 DEF AgentDaemonTypeOK
        <5>2. ~(latest.activity + timeout[latest.workspace] <= now)
          BY <3>1, <4>4 DEF Expired
        <5>3. timeout[latest.workspace] \in Nat /\ timeout[latest.workspace] <= LongestTimeout
          BY <5>1, LongestTimeoutIs
        <5> QED
          BY <1>0, <1>t, <4>4, <5>1, <5>2, <5>3, LongestTimeoutIs DEF LatestIs, AgentDaemonTypeOK
      <4> QED
        BY <4>2, <4>3, <4>4
    <3>5. \A w \in Workspaces : Fresh(w)'
      <4>1. WrittenNow
        BY <2>0 DEF WrittenNow, fileVars
      <4> QED
        BY <2>0, <2>2, <4>1, FreshKept DEF Sleep
    <3> QED
      BY <3>2, <3>3, <3>4, <3>5 DEF DaemonInv
  <2> QED
    BY <1>8, <2>1, <2>2 DEF Decide
<1>9. CASE UNCHANGED agentDaemonVars
  <2>1. AgentDaemonTypeOK' /\ ClockRuns' /\ LatestIs' /\ Scanned' /\ WakesInTime'
    BY <1>0, <1>9 DEF agentDaemonVars, fileVars, clientFileVars, patrolVars, AgentDaemonTypeOK, ClockRuns, LatestIs,
       Scanned, WakesInTime, Written
  <2> QED
    BY <1>0, <1>9, <2>1, FilesKept DEF DaemonInv, agentDaemonVars
<1>10. ASSUME Boot \/ Restart \/ \E w \in Workspaces : InstallDaemon(w),
              lastUse' = now, machineCommands' \in Nat
       PROVE  DaemonInv'
  <2>1. Patrol /\ UNCHANGED <<now, timeout, autoStop, busyFiles, clientFileVars, failures>>
    BY <1>10 DEF Boot, Restart, InstallDaemon
  <2>2. on' \in BOOLEAN
    <3>1. on' = TRUE \/ on' = on
      BY <1>10, Zenon DEF Boot, Restart, InstallDaemon
    <3> QED
      BY <1>0, <3>1, Zenon DEF AgentDaemonTypeOK
  <2> QED
    BY <1>4, <1>10, <2>1, <2>2
<1>11. machineCommands \in Nat
  BY <1>0 DEF AgentDaemonTypeOK
<1> QED
  BY <1>1, <1>2, <1>3, <1>5, <1>6, <1>7, <1>8, <1>9, <1>10, <1>11, <1>t DEF AgentDaemonNext, Continue, End


\* The invariant holds in every reachable state.
LEMMA DaemonInvAlways == AgentDaemonSpec => []DaemonInv
  BY DaemonInvInit, DaemonInvStep, PTL DEF AgentDaemonSpec

\* The state of the machine, its files and its daemon keeps its shape.
THEOREM AgentDaemonTypeCorrect == AgentDaemonSpec => []AgentDaemonTypeOK
  BY DaemonInvAlways, PTL DEF DaemonInv

\* The daemon's only way to turn the machine off is the end of a patrol that has read
\* every workspace and found the latest activity expired.
LEMMA ShutdownMeans ==
    ASSUME DaemonInv, [AgentDaemonNext]_agentDaemonVars, ShutsDown
    PROVE  /\ daemon = "scan" /\ scan = {} /\ latest # NoTime /\ latest \in Seen
           /\ latest.activity + timeout[latest.workspace] <= now
           /\ timeout[latest.workspace] \in Nat
<1>1. on /\ ~on' BY DEF ShutsDown
<1>2. Decide
  BY <1>1 DEF AgentDaemonNext, agentDaemonVars, Boot, Restart, Begin, Continue, UpBegin, Connect, StopWorkspace,
     DeleteWorkspace, UpBusy, InstallDaemon, UpEnd, UpdateConfig, Disconnect, Tick, DoOnce, GetActivity, End
<1>3. ~Sleep
  BY <1>1 DEF Sleep
<1>4. daemon = "scan" /\ scan = {} /\ latest # NoTime /\ Expired
  BY <1>2, <1>3 DEF Decide
<1>5. latest \in Seen
  BY <1>4 DEF DaemonInv, AgentDaemonTypeOK, Seen
<1>6. timeout[latest.workspace] \in Nat
  BY <1>5, DaemonAssumption DEF DaemonInv, AgentDaemonTypeOK, Seen
<1> QED
  BY <1>4, <1>5, <1>6 DEF Expired

\* What ShutdownOnlyIdle says of a step.
LEMMA ShutdownIsIdle ==
    ASSUME DaemonInv, [AgentDaemonNext]_agentDaemonVars, ShutsDown
    PROVE  /\ started + timeout[latest.workspace] <= now
           /\ \A w \in autoStop \cap Written :
                 mtime[w] = now \/ mtime[w] + timeout[latest.workspace] <= now
<1>1. /\ daemon = "scan" /\ scan = {} /\ latest # NoTime /\ latest \in Seen
      /\ latest.activity + timeout[latest.workspace] <= now
      /\ timeout[latest.workspace] \in Nat
  BY ShutdownMeans
<1>2. started \in Nat /\ now \in Nat /\ latest.activity \in Nat /\ started <= latest.activity
  BY <1>1 DEF DaemonInv, AgentDaemonTypeOK, LatestIs, Seen
<1>3. \A w \in autoStop \cap Written : mtime[w] \in Nat /\ (mtime[w] = now \/ mtime[w] <= latest.activity)
  BY <1>1 DEF DaemonInv, AgentDaemonTypeOK, Scanned, Written, Times
<1> QED
  BY <1>1, <1>2, <1>3

\* The machine goes down only after a whole timeout in which every workspace with a
\* shutdown command was quiet and neither machine nor daemon was started, for any
\* workspaces, timeouts and intervals: a workspace written during the patrol excepted.
THEOREM ShutdownOnlyIdleHolds == AgentDaemonSpec => ShutdownOnlyIdle
<1>1. DaemonInv /\ [AgentDaemonNext]_agentDaemonVars =>
        [ShutsDown =>
          /\ started + timeout[latest.workspace] <= now
          /\ \A w \in autoStop \cap Written :
                mtime[w] = now \/ mtime[w] + timeout[latest.workspace] <= now]_agentDaemonVars
  BY ShutdownIsIdle
<1> QED
  BY <1>1, DaemonInvAlways, PTL DEF AgentDaemonSpec, ShutdownOnlyIdle

\* A machine goes down under a connected client only when refreshes in a row have failed
\* for about the whole timeout.
THEOREM ConnectedIsKeptHolds == AgentDaemonSpec => ConnectedIsKept
<1>1. ASSUME DaemonInv, [AgentDaemonNext]_agentDaemonVars, ShutsDown, NEW w \in autoStop \cap Written,
             heartbeat[w] # NoTime, mtime[w] # now
      PROVE  (missed[w] + 1) * UpdateInterval >= timeout[latest.workspace]
  <2> DEFINE k == (missed[w] + 1) * UpdateInterval
             t == timeout[latest.workspace]
  <2>1. mtime[w] + t <= now /\ t \in Nat
    BY <1>1, ShutdownIsIdle, ShutdownMeans
  <2>2. w \in Workspaces /\ mtime[w] \in Nat /\ heartbeat[w] \in Nat /\ missed[w] \in Nat /\ now \in Nat
        /\ mtime[w] # NoTime
    BY <1>1 DEF DaemonInv, AgentDaemonTypeOK, Written, Times
  <2>3. k \in Nat
    BY <2>2, OneMoreMissed
  <2>4. now <= heartbeat[w] /\ heartbeat[w] <= mtime[w] + k
    BY <1>1, <2>2 DEF DaemonInv, Fresh
  <2> HIDE DEF k, t
  <2>5. k >= t
    BY <2>1, <2>2, <2>3, <2>4
  <2> QED
    BY <2>5 DEF k, t
<1>2. DaemonInv /\ [AgentDaemonNext]_agentDaemonVars =>
        [ShutsDown =>
          \A w \in autoStop \cap Written :
            heartbeat[w] # NoTime /\ mtime[w] # now
              => (missed[w] + 1) * UpdateInterval >= timeout[latest.workspace]]_agentDaemonVars
  BY <1>1
<1> QED
  BY <1>2, DaemonInvAlways, PTL DEF AgentDaemonSpec, ConnectedIsKept

\* An unused machine is never up for longer than grace, timeout and one patrol after the
\* last command: no left-over busy file and no workspace without a shutdown command
\* keeps it.
THEOREM IdleIsShutDownHolds == AgentDaemonSpec => []IdleIsShutDown
<1>1. DaemonInv => IdleIsShutDown
  BY LongestTimeoutIs, DaemonAssumption DEF DaemonInv, AgentDaemonTypeOK, ClockRuns, WakesInTime, IdleIsShutDown
<1> QED
  BY <1>1, DaemonInvAlways, PTL

=============================================================================
