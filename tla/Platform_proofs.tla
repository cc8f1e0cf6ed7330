-------------------------- MODULE Platform_proofs --------------------------
(***************************************************************************)
(* Theorems about the parts of DevPod Pro and of Kubernetes: SleepMode, for*)
(* any annotations, AddCluster, KubernetesDriver, for any options and      *)
(* limits, and ProStart.                                                   *)
(***************************************************************************)
EXTENDS ProStart, KubernetesDriver, SleepMode, AddCluster, TLAPS

-----------------------------------------------------------------------------
(* Sleep mode *)

Annotations == SleepKeys \cup Foreign

SleepTypeOK ==
    /\ annotations \subseteq Annotations
    /\ sleepCmd \in [pc : {"idle", "patch", "wait"}, kind : {"sleep", "wakeup"},
                     old : SUBSET Annotations, new : SUBSET Annotations, polls : Nat]

\* What a command is about to patch takes away no annotation of others.
PatchSparesOthers == sleepCmd.old \cap Foreign \subseteq sleepCmd.new

SleepInv == SleepTypeOK /\ PatchSparesOthers

\* Nothing is about to be patched at first.
LEMMA SleepInvInit == SleepInit => SleepInv
  BY DEF SleepInit, NoSleepCommand, SleepInv, SleepTypeOK, PatchSparesOthers,
         SleepKeys, Annotations

\* Whichever map the copy shares with the object, reading and changing the instance
\* keeps what others wrote.
LEMMA ReadSparesOthers ==
    ASSUME NEW kind \in {"sleep", "wakeup"}, NEW changed \in SUBSET Annotations,
           ReadInstance(kind, changed), SleepInv,
           annotations \cap Foreign \subseteq changed
    PROVE  SleepInv'
<1>1. /\ sleepCmd' = [pc |-> "patch", kind |-> kind, new |-> changed, polls |-> 0,
                      old |-> IF noMap THEN annotations ELSE changed]
      /\ annotations' = annotations
  BY DEF ReadInstance
<1>2. (IF noMap THEN annotations ELSE changed) \in {annotations, changed}
  OBVIOUS
<1> QED BY <1>1, <1>2 DEF SleepInv, SleepTypeOK, PatchSparesOthers

\* Every step of a command, of the platform and of other clients keeps the invariant.
LEMMA SleepInvNext == SleepInv /\ [SleepNext]_sleepVars => SleepInv'
<1> SUFFICES ASSUME SleepInv, [SleepNext]_sleepVars PROVE SleepInv'
  OBVIOUS
<1>0. annotations \subseteq Annotations BY DEF SleepInv, SleepTypeOK
<1>1. ASSUME NEW p \in BOOLEAN, Sleep(p) PROVE SleepInv'
  <2> DEFINE changed == annotations \cup {ForceSleep} \cup (IF p THEN {Duration} ELSE {})
  <2>1. changed \in SUBSET Annotations BY <1>0 DEF Annotations, SleepKeys
  <2>2. annotations \cap Foreign \subseteq changed OBVIOUS
  <2>3. ReadInstance("sleep", changed) BY <1>1 DEF Sleep
  <2> HIDE DEF changed
  <2> QED BY <2>1, <2>2, <2>3, ReadSparesOthers
<1>2. CASE Wakeup
  <2> DEFINE changed == (annotations \ {ForceSleep, Duration}) \cup {Activity}
  <2>1. changed \in SUBSET Annotations BY <1>0 DEF Annotations, SleepKeys
  <2>2. annotations \cap Foreign \subseteq changed
    BY SleepModeAssumption DEF SleepKeys
  <2>3. ReadInstance("wakeup", changed) BY <1>2 DEF Wakeup
  <2> HIDE DEF changed
  <2> QED BY <2>1, <2>2, <2>3, ReadSparesOthers
<1>3. CASE SendPatch
  <2>1. CASE sleepCmd' = NoSleepCommand /\ annotations' = annotations
    BY <2>1 DEF NoSleepCommand, SleepInv, SleepTypeOK, PatchSparesOthers
  <2>2. CASE /\ sleepCmd' = [sleepCmd EXCEPT !.pc = "wait"]
             /\ annotations' = Patch(annotations, sleepCmd.old, sleepCmd.new)
    <3>1. annotations' \subseteq Annotations
      BY <2>2 DEF Patch, SleepInv, SleepTypeOK
    <3> QED BY <2>2, <3>1 DEF SleepInv, SleepTypeOK, PatchSparesOthers
  <2> QED BY <1>3, <2>1, <2>2 DEF SendPatch
<1>4. CASE PollPhase
  <2>1. sleepCmd' \in {NoSleepCommand, [sleepCmd EXCEPT !.polls = @ + 1]}
    BY <1>4 DEF PollPhase
  <2>2. annotations' = annotations BY <1>4 DEF PollPhase
  <2> QED BY <2>1, <2>2 DEF SleepInv, SleepTypeOK, PatchSparesOthers, NoSleepCommand
<1>5. CASE PlatformSleeps \/ PlatformWakes
  BY <1>5 DEF PlatformSleeps, PlatformWakes, SleepInv, SleepTypeOK, PatchSparesOthers
<1>6. ASSUME NEW k \in Foreign \cup {Activity}, OtherAnnotates(k) PROVE SleepInv'
  BY <1>6 DEF OtherAnnotates, SleepInv, SleepTypeOK, PatchSparesOthers, Annotations, SleepKeys
<1>7. CASE UNCHANGED sleepVars
  BY <1>7 DEF sleepVars, SleepInv, SleepTypeOK, PatchSparesOthers
<1> QED BY <1>1, <1>2, <1>3, <1>4, <1>5, <1>6, <1>7 DEF SleepNext

\* devpod pro sleep and wakeup patch the annotations of the sleep mode only: what any
\* other client wrote on the instance, before the command read it or after, stays.
THEOREM OthersAnnotationsAlwaysKept == SleepSpec => OthersAnnotationsKept
<1>1. SleepInv /\ [SleepNext]_sleepVars => [annotations \cap Foreign \subseteq annotations']_sleepVars
  <2> SUFFICES ASSUME SleepInv, SleepNext PROVE annotations \cap Foreign \subseteq annotations'
    BY DEF sleepVars
  <2>1. CASE UNCHANGED annotations
    BY <2>1
  <2>2. CASE annotations' = Patch(annotations, sleepCmd.old, sleepCmd.new)
    BY <2>2 DEF Patch, SleepInv, PatchSparesOthers
  <2>3. ASSUME NEW k, annotations' = annotations \cup {k}
        PROVE  annotations \cap Foreign \subseteq annotations'
    BY <2>3
  <2> QED
    BY <2>1, <2>2, <2>3 DEF SleepNext, Sleep, Wakeup, ReadInstance, SendPatch, PollPhase,
                            PlatformSleeps, PlatformWakes, OtherAnnotates
<1> QED BY <1>1, SleepInvInit, SleepInvNext, PTL DEF SleepSpec, OthersAnnotationsKept

-----------------------------------------------------------------------------
(* Adding a cluster *)

AddPcs == {"idle", "create", "key", "pod", "helm", "join", "cluster", "failed", "added"}

AddTypeOK ==
    /\ cluster \in {"none", "created", "initialized"}
    /\ chart \in {"none", "installed"}
    /\ helm \in {"none", "running", "ran", "failed", "closed"}
    /\ adding \in [pc : AddPcs, wait : BOOLEAN, polls : Nat, helmError : BOOLEAN]
    /\ errVar \in BOOLEAN /\ waited \in BOOLEAN /\ raced \in BOOLEAN

\* The goroutine lives only while the main one waits for the pod or for helm, and
\* has ended when its result was received, which is how its error becomes known.
HelmAt ==
    /\ helm \in {"running", "ran", "failed"} => adding.pc \in {"pod", "helm"}
    /\ adding.pc \in {"join", "cluster", "added"} => helm = "closed"
    /\ adding.pc \in {"create", "key"} => helm = "none"
    /\ adding.pc \in {"create", "key", "pod", "helm"} => ~adding.helmError

\* What the goroutine knows: unless err was overwritten, no error means that the
\* chart is there.
HelmTrue ==
    ~raced => /\ helm = "ran" /\ ~errVar => chart = "installed"
              /\ helm = "closed" /\ ~adding.helmError => chart = "installed"

\* What the main goroutine knows of the pod and of the cluster.
MainTrue ==
    /\ adding.pc \in {"helm", "join"} /\ ~raced => (errVar <=> ~waited)
    /\ adding.pc \in {"cluster", "added"} /\ ~raced => waited /\ ~adding.helmError
    /\ adding.pc \in {"key", "pod", "helm", "join", "cluster", "added"} => cluster # "none"
    /\ adding.pc = "added" /\ adding.wait => cluster = "initialized"

AddInv == AddTypeOK /\ HelmAt /\ HelmTrue /\ MainTrue

\* Nothing is added at first.
LEMMA AddInvInit == AddInit => AddInv
<1> SUFFICES ASSUME AddInit PROVE AddInv
  OBVIOUS
<1>1. AddTypeOK BY DEF AddInit, AddTypeOK, AddPcs
<1>2. adding.pc = "idle" BY DEF AddInit
<1>3. HelmAt /\ HelmTrue /\ MainTrue BY <1>2 DEF AddInit, HelmAt, HelmTrue, MainTrue
<1> QED BY <1>1, <1>3 DEF AddInv

\* What it means that the main goroutine goes on.
LEMMA AddGotoMeans ==
    ASSUME NEW pc \in AddPcs, AddTypeOK, AddGoto(pc)
    PROVE  /\ adding' \in [pc : AddPcs, wait : BOOLEAN, polls : Nat, helmError : BOOLEAN]
           /\ adding'.pc = pc /\ adding'.wait = adding.wait
           /\ adding'.helmError = adding.helmError
  BY DEF AddTypeOK, AddGoto

\* Every step of the two goroutines, of the cluster and of the platform keeps it.
LEMMA AddInvNext == AddInv /\ [AddNext]_addVars => AddInv'
<1> SUFFICES ASSUME AddInv, [AddNext]_addVars PROVE AddInv'
  OBVIOUS
<1> USE DEF AddInv, HelmAt, HelmTrue, MainTrue, Adding
<1> DEFINE Record == [pc : AddPcs, wait : BOOLEAN, polls : Nat, helmError : BOOLEAN]
<1>t. AddTypeOK BY DEF AddInv
<1>1. ASSUME NEW wait \in BOOLEAN, AddStart(wait) PROVE AddInv'
  <2>1. adding' \in Record /\ adding'.pc = "create" /\ ~adding'.helmError
    BY <1>1 DEF AddStart, AddPcs
  <2> QED BY <1>1, <1>t, <2>1 DEF AddStart, AddTypeOK
<1>2. CASE CreateCluster
  <2>1. CASE AddGoto("key") /\ cluster' = (IF cluster = "none" THEN "created" ELSE cluster)
    <3>1. /\ adding' \in Record /\ adding'.pc = "key"
          /\ adding'.wait = adding.wait /\ adding'.helmError = adding.helmError
      BY <2>1, <1>t, AddGotoMeans DEF AddPcs
    <3> QED BY <1>2, <1>t, <2>1, <3>1 DEF CreateCluster, AddTypeOK
  <2>2. CASE AddGoto("failed")
    <3>1. /\ adding' \in Record /\ adding'.pc = "failed"
          /\ adding'.wait = adding.wait /\ adding'.helmError = adding.helmError
      BY <2>2, <1>t, AddGotoMeans DEF AddPcs
    <3> QED BY <1>2, <1>t, <2>2, <3>1 DEF CreateCluster, AddTypeOK
  <2> QED BY <1>2, <2>1, <2>2 DEF CreateCluster
<1>3. CASE GetAccessKey
  <2>1. CASE AddGoto("pod")
    <3>1. /\ adding' \in Record /\ adding'.pc = "pod"
          /\ adding'.wait = adding.wait /\ adding'.helmError = adding.helmError
      BY <2>1, <1>t, AddGotoMeans DEF AddPcs
    <3> QED BY <1>3, <1>t, <2>1, <3>1 DEF GetAccessKey, AddTypeOK
  <2>2. CASE AddGoto("failed") /\ helm' = helm
    <3>1. /\ adding' \in Record /\ adding'.pc = "failed"
          /\ adding'.wait = adding.wait /\ adding'.helmError = adding.helmError
      BY <2>2, <1>t, AddGotoMeans DEF AddPcs
    <3> QED BY <1>3, <1>t, <2>2, <3>1 DEF GetAccessKey, AddTypeOK
  <2> QED BY <1>3, <2>1, <2>2 DEF GetAccessKey
<1>4. CASE HelmRuns
  BY <1>4, <1>t DEF HelmRuns, AddTypeOK
<1>5. CASE HelmReports
  BY <1>5, <1>t DEF HelmReports, AddTypeOK
<1>6. CASE PodAppears \/ AgentPodChanges
  BY <1>6, <1>t DEF PodAppears, AgentPodChanges, AddTypeOK
<1>7. CASE ClusterInitialized
  BY <1>7, <1>t DEF ClusterInitialized, AddTypeOK
<1>8. CASE PollPod
  <2>1. CASE adding' = [adding EXCEPT !.polls = @ + 1] /\ UNCHANGED <<waited, errVar, raced>>
    <3>1. /\ adding' \in Record /\ adding'.pc = adding.pc
          /\ adding'.wait = adding.wait /\ adding'.helmError = adding.helmError
      BY <2>1, <1>t DEF AddTypeOK
    <3> QED BY <1>8, <1>t, <2>1, <3>1 DEF PollPod, AddTypeOK
  <2>2. CASE AddGoto("helm")
    <3>1. /\ adding' \in Record /\ adding'.pc = "helm"
          /\ adding'.wait = adding.wait /\ adding'.helmError = adding.helmError
      BY <2>2, <1>t, AddGotoMeans DEF AddPcs
    <3> QED BY <1>8, <1>t, <2>2, <3>1 DEF PollPod, AddTypeOK
  <2> QED BY <1>8, <2>1, <2>2 DEF PollPod
<1>9. CASE ReceiveHelm
  <2>1. /\ adding' \in Record /\ adding'.pc = "join" /\ adding'.wait = adding.wait
        /\ (adding'.helmError <=> helm = "failed")
    BY <1>9, <1>t DEF ReceiveHelm, AddTypeOK, AddPcs
  <2> QED BY <1>9, <1>t, <2>1 DEF ReceiveHelm, AddTypeOK
<1>10. CASE Join
  <2>1. CASE AddGoto("failed")
    <3>1. /\ adding' \in Record /\ adding'.pc = "failed"
          /\ adding'.wait = adding.wait /\ adding'.helmError = adding.helmError
      BY <2>1, <1>t, AddGotoMeans DEF AddPcs
    <3> QED BY <1>10, <1>t, <2>1, <3>1 DEF Join, AddTypeOK
  <2>2. CASE AddGoto("cluster") /\ ~adding.helmError /\ (~errVar \/ waited) /\ adding.wait
    <3>1. /\ adding' \in Record /\ adding'.pc = "cluster"
          /\ adding'.wait = adding.wait /\ adding'.helmError = adding.helmError
      BY <2>2, <1>t, AddGotoMeans DEF AddPcs
    <3> QED BY <1>10, <1>t, <2>2, <3>1 DEF Join, AddTypeOK
  <2>3. CASE AddGoto("added") /\ ~adding.helmError /\ (~errVar \/ waited) /\ ~adding.wait
    <3>1. /\ adding' \in Record /\ adding'.pc = "added"
          /\ adding'.wait = adding.wait /\ adding'.helmError = adding.helmError
      BY <2>3, <1>t, AddGotoMeans DEF AddPcs
    <3> QED BY <1>10, <1>t, <2>3, <3>1 DEF Join, AddTypeOK
  <2> QED BY <1>10, <1>t, <2>1, <2>2, <2>3 DEF Join, AddTypeOK
<1>11. CASE PollCluster
  <2>1. CASE AddGoto("added") /\ cluster = "initialized"
    <3>1. /\ adding' \in Record /\ adding'.pc = "added"
          /\ adding'.wait = adding.wait /\ adding'.helmError = adding.helmError
      BY <2>1, <1>t, AddGotoMeans DEF AddPcs
    <3> QED BY <1>11, <1>t, <2>1, <3>1 DEF PollCluster, AddTypeOK
  <2>2. CASE adding' = [adding EXCEPT !.polls = @ + 1]
    <3>1. /\ adding' \in Record /\ adding'.pc = adding.pc
          /\ adding'.wait = adding.wait /\ adding'.helmError = adding.helmError
      BY <2>2, <1>t DEF AddTypeOK
    <3> QED BY <1>11, <1>t, <2>2, <3>1 DEF PollCluster, AddTypeOK
  <2>3. CASE AddGoto("failed")
    <3>1. /\ adding' \in Record /\ adding'.pc = "failed"
          /\ adding'.wait = adding.wait /\ adding'.helmError = adding.helmError
      BY <2>3, <1>t, AddGotoMeans DEF AddPcs
    <3> QED BY <1>11, <1>t, <2>3, <3>1 DEF PollCluster, AddTypeOK
  <2> QED BY <1>11, <2>1, <2>2, <2>3 DEF PollCluster
<1>12. CASE KillAdd
  <2>1. adding' \in Record /\ adding'.pc = "idle" /\ adding'.helmError = adding.helmError
    BY <1>12, <1>t DEF KillAdd, AddTypeOK, AddPcs
  <2> QED BY <1>12, <1>t, <2>1 DEF KillAdd, AddTypeOK
<1>13. CASE UNCHANGED addVars
  BY <1>13, <1>t DEF addVars, AddTypeOK
<1> QED
  BY <1>1, <1>2, <1>3, <1>4, <1>5, <1>6, <1>7, <1>8, <1>9, <1>10, <1>11, <1>12, <1>13
  DEF AddNext, AddSteps

\* "Successfully added cluster" is true, whichever goroutine is ahead and however
\* often the command failed or was killed before, if no goroutine overwrote the err
\* of the other.
THEOREM AddedIsReadyHolds == AddSpec => []AddedIsReady
<1>1. AddInv => AddedIsReady
  BY DEF AddInv, AddTypeOK, HelmAt, HelmTrue, MainTrue, AddedIsReady, Added
<1> QED BY <1>1, AddInvInit, AddInvNext, PTL DEF AddSpec

-----------------------------------------------------------------------------
(* The Kubernetes driver *)

K8sPcs == {"idle", "find", "claim", "serviceAccount", "daemonSecret", "pullSecret", "compare",
           "createPod", "waitRunning", "deletePod", "waitDeleted", "deleteClaim",
           "deleteBinding", "deleteSecrets", "deletePull", "done"}

K8sCalls == [op : {"none", "up", "stop", "delete"}, pc : K8sPcs, recreate : BOOLEAN,
             stage : {"none", "start", "run"}, options : Options \cup {Nothing}, polls : Nat,
             then : {"none", "done", "claim", "createPod", "waitRunning", "deleteClaim"},
             unread : SUBSET {"pod", "daemon", "pull"}]

Pods == [phase : {"pending", "running", "succeeded", "failed", "terminating"},
         options : Options \cup {Nothing}, settings : Settings]

K8sTypeOK ==
    /\ call \in K8sCalls
    /\ pvc \in Options \cup {Nothing} /\ pod \in Pods \cup {Nothing}
    /\ secrets \in [daemon : Options \cup {Nothing}, pull : Options \cup {Nothing}]
    /\ binding \in BOOLEAN
    /\ settings \in Settings /\ wanted \in Options

AfterClaim == {"deleteBinding", "deleteSecrets", "deletePull", "done"}

\* The pod is gone, or will be.
PodGoes == pod # Nothing => Phase("terminating")

\* A delete goes through its places in order, and what it deleted stays away; what it
\* leaves is what it could not read, or what its options do not name.
DeletesInOrder ==
    call.op = "delete" =>
        /\ call.pc \in {"deletePod", "waitDeleted", "deleteClaim"} \cup AfterClaim
        /\ call.then = "deleteClaim"
        /\ call.pc = "waitDeleted" => PodGoes
        /\ call.pc \in {"deleteClaim"} \cup AfterClaim => PodGoes /\ (pod # Nothing => "pod" \in call.unread)
        /\ call.pc \in AfterClaim => pvc = Nothing
        /\ call.pc \in {"deleteSecrets", "deletePull", "done"} => (binding => settings \notin WithRole)
        /\ call.pc \in {"deletePull", "done"} => (secrets.daemon # Nothing => "daemon" \in call.unread)
        /\ call.pc = "done" =>
              (secrets.pull # Nothing => settings \notin NamesPullSecrets \/ "pull" \in call.unread)

\* An up that is about to delete a pod that runs, or may come to run, found its options
\* changed.  Nobody changes them back while the command runs.
DeletesForOptions ==
    /\ call.op = "up" /\ ~call.recreate /\ call.pc = "deletePod"
    /\ Phase("pending") \/ Phase("running")
    => pod.settings # settings

\* A command that deletes the pod knows what comes after.
ThenKnown == call.pc \in {"deletePod", "waitDeleted"} => call.then # "none"

K8sInv == K8sTypeOK /\ DeletesInOrder /\ DeletesForOptions /\ ThenKnown

\* There is nothing in the cluster at first.
LEMMA K8sInvInit == K8sInit => K8sInv
<1> SUFFICES ASSUME K8sInit PROVE K8sInv
  OBVIOUS
<1>1. call \in K8sCalls /\ call.op = "none" /\ call.pc = "idle"
  BY DEF K8sInit, NoCall, K8sCalls, K8sPcs
<1>2. K8sTypeOK
  BY <1>1 DEF K8sInit, K8sTypeOK
<1> QED BY <1>1, <1>2 DEF K8sInv, DeletesInOrder, DeletesForOptions, ThenKnown

\* What it means that a command goes on ...
LEMMA ContinueMeans ==
    ASSUME NEW pc \in K8sPcs, K8sTypeOK, Continue(pc)
    PROVE  /\ call' \in K8sCalls
           /\ call'.pc = pc /\ call'.op = call.op /\ call'.then = call.then
           /\ call'.recreate = call.recreate /\ call'.unread = call.unread
  BY DEF K8sTypeOK, K8sCalls, Continue

\* ... that it goes on over what it could not read ...
LEMMA UnreadMeans ==
    ASSUME NEW pc \in K8sPcs, NEW object \in {"pod", "daemon", "pull"}, K8sTypeOK, Unread(object, pc)
    PROVE  /\ call' \in K8sCalls
           /\ call'.pc = pc /\ call'.op = call.op /\ call'.then = call.then
           /\ call'.recreate = call.recreate /\ call'.unread = call.unread \cup {object}
  BY DEF K8sTypeOK, K8sCalls, Unread

\* ... and that it returns.
LEMMA K8sReturnMeans ==
    ASSUME K8sReturn
    PROVE  call' \in K8sCalls /\ call'.op = "none" /\ call'.pc = "idle"
  BY DEF K8sReturn, NoCall, K8sCalls, K8sPcs

\* A command that returns leaves nothing to keep but the types.
LEMMA K8sReturnKeeps ==
    ASSUME K8sReturn, K8sTypeOK, UNCHANGED <<clusterVars, settings, wanted>>
    PROVE  K8sInv'
<1>1. call' \in K8sCalls /\ call'.op = "none" /\ call'.pc = "idle" BY K8sReturnMeans
<1> QED BY <1>1 DEF K8sInv, K8sTypeOK, DeletesInOrder, DeletesForOptions, ThenKnown, clusterVars

\* runContainer ends with the next stage or with the command.
LEMMA RunContainerReturnsMeans ==
    ASSUME RunContainerReturns, K8sTypeOK
    PROVE  /\ call' \in K8sCalls
           /\ call'.pc \in {"serviceAccount", "done"} /\ call'.op = call.op
  BY DEF RunContainerReturns, K8sTypeOK, K8sCalls, K8sPcs

\* Every request of a command, its failure, and every change of the cluster keeps it.
LEMMA K8sInvNext == K8sInv /\ [K8sNext]_k8sVars => K8sInv'
<1> SUFFICES ASSUME K8sInv, [K8sNext]_k8sVars PROVE K8sInv'
  OBVIOUS
<1>t. K8sTypeOK BY DEF K8sInv
<1> USE DEF At, AfterClaim, PodGoes
<1>1. ASSUME NEW op \in {"up", "stop", "delete"}, NEW r \in BOOLEAN, K8sCall(op, r) PROVE K8sInv'
  <2>1. /\ call' \in K8sCalls /\ call'.op = op
        /\ call'.pc = IF op = "up" THEN "find" ELSE "deletePod"
        /\ call'.then = IF op = "delete" THEN "deleteClaim" ELSE "done"
    BY <1>1 DEF K8sCall, NoCall, K8sCalls, K8sPcs
  <2>2. UNCHANGED <<pvc, pod, secrets, binding, settings, wanted>>
    BY <1>1 DEF K8sCall, clusterVars
  <2> QED BY <1>t, <2>1, <2>2 DEF K8sInv, K8sTypeOK, DeletesInOrder, DeletesForOptions, ThenKnown
<1>2. CASE K8sFind
  <2>1. /\ call' \in K8sCalls /\ call'.op = call.op /\ call'.recreate = call.recreate
        /\ call'.pc = "deletePod" => call.recreate
        /\ call'.then = "claim"
    BY ZenonT(60), <1>2, <1>t DEF K8sFind, K8sTypeOK, K8sCalls, K8sPcs
  <2>2. UNCHANGED <<pvc, pod, secrets, binding, settings, wanted>>
    BY <1>2 DEF K8sFind, clusterVars, Quiet
  <2>3. call.pc = "find" BY <1>2 DEF K8sFind
  <2> QED BY <1>t, <2>1, <2>2, <2>3 DEF K8sInv, K8sTypeOK, DeletesInOrder, DeletesForOptions, ThenKnown
<1>3. CASE CreatePersistentVolumeClaim
  <2>1. call' \in K8sCalls /\ call'.op = call.op /\ call'.pc = "serviceAccount"
    BY <1>3, <1>t, ContinueMeans DEF CreatePersistentVolumeClaim, K8sPcs
  <2>2. UNCHANGED <<pod, secrets, binding, settings, wanted>>
    BY <1>3 DEF CreatePersistentVolumeClaim, Quiet
  <2>3. call.pc = "claim" /\ pvc' \in Options \cup {Nothing}
    BY <1>3, <1>t DEF CreatePersistentVolumeClaim, K8sTypeOK, K8sCalls
  <2> QED BY <1>t, <2>1, <2>2, <2>3 DEF K8sInv, K8sTypeOK, DeletesInOrder, DeletesForOptions, ThenKnown
<1>4. CASE CreateServiceAccount
  <2>1. call' \in K8sCalls /\ call'.op = call.op /\ call'.pc = "daemonSecret"
    BY <1>4, <1>t, ContinueMeans DEF CreateServiceAccount, K8sPcs
  <2>2. UNCHANGED <<pvc, pod, secrets, settings, wanted>>
    BY <1>4 DEF CreateServiceAccount, Quiet
  <2>3. call.pc = "serviceAccount" /\ binding' \in BOOLEAN
    BY <1>4, <1>t DEF CreateServiceAccount
  <2> QED BY <1>t, <2>1, <2>2, <2>3 DEF K8sInv, K8sTypeOK, DeletesInOrder, DeletesForOptions, ThenKnown
<1>5. CASE EnsureDaemonConfigSecret
  <2>1. call' \in K8sCalls /\ call'.op = call.op /\ call'.pc = "pullSecret"
    BY <1>5, <1>t, ContinueMeans DEF EnsureDaemonConfigSecret, K8sPcs
  <2>2. UNCHANGED <<pvc, pod, binding, settings, wanted>>
    BY <1>5 DEF EnsureDaemonConfigSecret, Quiet
  <2>3. /\ call.pc = "daemonSecret"
        /\ secrets' \in [daemon : Options \cup {Nothing}, pull : Options \cup {Nothing}]
    BY <1>5, <1>t DEF EnsureDaemonConfigSecret, K8sTypeOK, K8sCalls
  <2> QED BY <1>t, <2>1, <2>2, <2>3 DEF K8sInv, K8sTypeOK, DeletesInOrder, DeletesForOptions, ThenKnown
<1>6. CASE EnsurePullSecret
  <2>1. call' \in K8sCalls /\ call'.op = call.op /\ call'.pc = "compare"
    BY <1>6, <1>t, ContinueMeans DEF EnsurePullSecret, K8sPcs
  <2>2. UNCHANGED <<pvc, pod, binding, settings, wanted>>
    BY <1>6 DEF EnsurePullSecret, Quiet
  <2>3. /\ call.pc = "pullSecret"
        /\ secrets' \in [daemon : Options \cup {Nothing}, pull : Options \cup {Nothing}]
    BY <1>6, <1>t DEF EnsurePullSecret, K8sTypeOK, K8sCalls
  <2> QED BY <1>t, <2>1, <2>2, <2>3 DEF K8sInv, K8sTypeOK, DeletesInOrder, DeletesForOptions, ThenKnown
<1>7. CASE ComparePod
  <2>1. UNCHANGED <<pvc, pod, secrets, binding, settings, wanted>> /\ call.pc = "compare"
    BY <1>7 DEF ComparePod, clusterVars, Quiet
  <2>2. /\ call' \in K8sCalls /\ call'.op = call.op
        /\ call'.pc = "deletePod" => pod.settings # settings
        /\ call'.pc \in {"deletePod", "waitDeleted"} => call'.then # "none"
    <3>1. CASE RunContainerReturns
      BY <3>1, <1>t, RunContainerReturnsMeans
    <3>2. CASE /\ ~(pod # Nothing /\ OptionsEqual)
               /\ call' = [call EXCEPT !.pc = IF pod = Nothing THEN "createPod" ELSE "deletePod",
                                       !.then = "createPod"]
      <4>1. /\ call' \in K8sCalls /\ call'.op = call.op
            /\ call'.pc = (IF pod = Nothing THEN "createPod" ELSE "deletePod")
            /\ call'.then = "createPod"
        BY ZenonT(60), <3>2, <1>t DEF K8sTypeOK, K8sCalls, K8sPcs
      <4> QED BY <3>2, <4>1 DEF OptionsEqual
    <3> QED BY <1>7, <3>1, <3>2 DEF ComparePod
  <2> QED BY <1>t, <2>1, <2>2 DEF K8sInv, K8sTypeOK, DeletesInOrder, DeletesForOptions, ThenKnown
<1>8. CASE RunPod
  <2>1. CASE pod # Nothing
    BY <1>8, <2>1, <1>t, K8sReturnKeeps DEF RunPod, Quiet, clusterVars
  <2>2. CASE pod = Nothing
    <3>1. call' \in K8sCalls /\ call'.op = call.op /\ call'.pc = "waitRunning"
      BY <1>8, <2>2, <1>t, ContinueMeans DEF RunPod, K8sPcs
    <3>2. UNCHANGED <<pvc, secrets, binding, settings, wanted>> /\ call.pc = "createPod"
      BY <1>8 DEF RunPod, Quiet
    <3>3. pod' \in Pods
      BY <1>8, <2>2, <1>t DEF RunPod, NewPod, Pods, K8sTypeOK, K8sCalls
    <3> QED BY <1>t, <3>1, <3>2, <3>3 DEF K8sInv, K8sTypeOK, DeletesInOrder, DeletesForOptions, ThenKnown
  <2> QED BY <2>1, <2>2
<1>9. CASE WaitPodRunning
  <2>1. UNCHANGED <<pvc, pod, secrets, binding, settings, wanted>> /\ call.pc = "waitRunning"
    BY <1>9 DEF WaitPodRunning, clusterVars, Quiet
  <2>2. CASE K8sReturn
    BY <2>1, <2>2, <1>t, K8sReturnKeeps DEF clusterVars
  <2>3. CASE RunContainerReturns
    <3>1. call' \in K8sCalls /\ call'.pc \in {"serviceAccount", "done"} /\ call'.op = call.op
      BY <2>3, <1>t, RunContainerReturnsMeans
    <3> QED BY <1>t, <2>1, <3>1 DEF K8sInv, K8sTypeOK, DeletesInOrder, DeletesForOptions, ThenKnown
  <2>4. CASE Poll
    <3>1. call' \in K8sCalls /\ call'.pc = call.pc /\ call'.op = call.op
      BY <2>4, <1>t DEF Poll, K8sTypeOK, K8sCalls
    <3> QED BY <1>t, <2>1, <3>1 DEF K8sInv, K8sTypeOK, DeletesInOrder, DeletesForOptions, ThenKnown
  <2>5. CASE Phase("succeeded") /\ call' = [call EXCEPT !.pc = "deletePod", !.then = "waitRunning"]
    <3>1. /\ call' \in K8sCalls /\ call'.pc = "deletePod" /\ call'.op = call.op
          /\ call'.then = "waitRunning"
      BY <2>5, <1>t DEF K8sTypeOK, K8sCalls, K8sPcs
    <3>2. ~Phase("pending")' /\ ~Phase("running")'
      BY <2>1, <2>5 DEF Phase
    <3> QED BY <1>t, <2>1, <3>1, <3>2 DEF K8sInv, K8sTypeOK, DeletesInOrder, DeletesForOptions, ThenKnown
  <2> QED BY <1>9, <2>2, <2>3, <2>4, <2>5 DEF WaitPodRunning
<1>10. CASE DeletePod
  <2>1. UNCHANGED <<pvc, secrets, binding, settings, wanted>> /\ call.pc = "deletePod"
    BY <1>10 DEF DeletePod, Quiet
  <2>2. CASE pod = Nothing
    <3>1. Continue(call.then) /\ pod' = Nothing
      BY <1>10, <2>2 DEF DeletePod
    <3>2. call.then \in K8sPcs \ {"deletePod", "waitDeleted"}
      BY <1>t, <2>1 DEF K8sTypeOK, K8sCalls, K8sPcs, K8sInv, ThenKnown
    <3>3. /\ call' \in K8sCalls
          /\ call'.pc = call.then /\ call'.op = call.op /\ call'.then = call.then
      BY <3>1, <3>2, <1>t, ContinueMeans
    <3> QED
      BY <1>t, <2>1, <3>1, <3>3 DEF K8sInv, K8sTypeOK, DeletesInOrder, DeletesForOptions, ThenKnown, Phase
  <2>3. CASE pod # Nothing
    <3>1. /\ call' \in K8sCalls
          /\ call'.pc = "waitDeleted" /\ call'.op = call.op /\ call'.then = call.then
      BY <1>10, <2>3, <1>t, ContinueMeans DEF DeletePod, K8sPcs
    <3>2. pod' \in Pods /\ pod'.phase = "terminating"
      BY <1>10, <2>3, <1>t DEF DeletePod, K8sTypeOK, Pods
    <3> QED BY <1>t, <2>1, <3>1, <3>2 DEF K8sInv, K8sTypeOK, DeletesInOrder, DeletesForOptions, ThenKnown, Phase
  <2> QED BY <2>2, <2>3
<1>11. CASE WaitPodDeleted
  <2>1. UNCHANGED <<pvc, pod, secrets, binding, settings, wanted>> /\ call.pc = "waitDeleted"
    BY <1>11 DEF WaitPodDeleted, clusterVars, Quiet, Refused
  <2>a. call.then \in K8sPcs \ {"deletePod", "waitDeleted"}
    BY <1>t, <2>1 DEF K8sTypeOK, K8sCalls, K8sPcs, K8sInv, ThenKnown
  <2>2. CASE pod = Nothing /\ Continue(call.then)
    <3>1. /\ call' \in K8sCalls
          /\ call'.pc = call.then /\ call'.op = call.op /\ call'.then = call.then
      BY <2>2, <2>a, <1>t, ContinueMeans
    <3> QED
      BY <1>t, <2>1, <2>a, <2>2, <3>1
      DEF K8sInv, K8sTypeOK, DeletesInOrder, DeletesForOptions, ThenKnown, Phase, PodGoes
  <2>3. CASE pod # Nothing /\ Poll
    <3>1. call' \in K8sCalls /\ call'.pc = call.pc /\ call'.op = call.op /\ call'.then = call.then
      BY <2>3, <1>t DEF Poll, K8sTypeOK, K8sCalls
    <3> QED
      BY <1>t, <2>1, <3>1 DEF K8sInv, K8sTypeOK, DeletesInOrder, DeletesForOptions, ThenKnown, PodGoes, Phase
  <2>4. CASE Unread("pod", call.then)
    <3>1. /\ call' \in K8sCalls
          /\ call'.pc = call.then /\ call'.op = call.op /\ call'.then = call.then
          /\ call'.unread = call.unread \cup {"pod"}
      BY <2>4, <2>a, <1>t, UnreadMeans
    <3>2. DeletesInOrder'
      BY <2>1, <2>a, <3>1 DEF K8sInv, DeletesInOrder, PodGoes, Phase, AfterClaim
    <3> QED
      BY <1>t, <2>1, <2>a, <3>1, <3>2 DEF K8sInv, K8sTypeOK, DeletesForOptions, ThenKnown
  <2> QED BY <1>11, <2>2, <2>3, <2>4 DEF WaitPodDeleted
<1>12. CASE WaitTimedOut \/ K8sDone \/ K8sFails
  BY <1>12, <1>t, K8sReturnKeeps DEF WaitTimedOut, K8sDone, K8sFails, Quiet, Refused, clusterVars
<1>13. CASE DeleteClaim
  <2>1. /\ call' \in K8sCalls
        /\ call'.pc = "deleteBinding" /\ call'.op = call.op /\ call'.then = call.then /\ call'.unread = call.unread
    BY <1>13, <1>t, ContinueMeans DEF DeleteClaim, K8sPcs
  <2>2. /\ pvc' = Nothing /\ UNCHANGED <<pod, secrets, binding, settings, wanted>>
        /\ call.pc = "deleteClaim"
    BY <1>13 DEF DeleteClaim, Quiet
  <2> QED BY <1>t, <2>1, <2>2 DEF K8sInv, K8sTypeOK, DeletesInOrder, DeletesForOptions, ThenKnown, Phase
<1>14. CASE DeleteBinding
  <2>1. /\ call' \in K8sCalls
        /\ call'.pc = "deleteSecrets" /\ call'.op = call.op /\ call'.then = call.then /\ call'.unread = call.unread
    BY <1>14, <1>t, ContinueMeans DEF DeleteBinding, K8sPcs
  <2>2. /\ UNCHANGED <<pvc, pod, secrets, settings, wanted>> /\ call.pc = "deleteBinding"
        /\ binding' \in BOOLEAN /\ (binding' => settings \notin WithRole)
    BY <1>14 DEF DeleteBinding, Quiet
  <2> QED BY <1>t, <2>1, <2>2 DEF K8sInv, K8sTypeOK, DeletesInOrder, DeletesForOptions, ThenKnown, Phase
<1>15. CASE DeleteSecrets
  <2>1. UNCHANGED <<pvc, pod, binding, settings, wanted>>
    BY <1>15 DEF DeleteSecrets, RemoveSecret, Quiet, Refused
  <2>2. ASSUME NEW name \in {"daemon", "pull"}, NEW pc \in {"deletePull", "done"},
               name = "daemon" => call.pc = "deleteSecrets" /\ pc = "deletePull",
               name = "pull" => call.pc = "deletePull" /\ pc = "done",
               RemoveSecret(name, pc)
        PROVE  K8sInv'
    <3>1. CASE secrets' = [secrets EXCEPT ![name] = Nothing] /\ Continue(pc)
      <4>1. /\ call' \in K8sCalls /\ call'.pc = pc /\ call'.op = call.op
            /\ call'.then = call.then /\ call'.unread = call.unread
        BY <2>2, <3>1, <1>t, ContinueMeans DEF K8sPcs
      <4>2. /\ secrets' \in [daemon : Options \cup {Nothing}, pull : Options \cup {Nothing}]
            /\ name = "daemon" => secrets'.daemon = Nothing
            /\ name = "pull" => secrets'.pull = Nothing /\ secrets'.daemon = secrets.daemon
        BY <2>2, <3>1, <1>t DEF K8sTypeOK
      <4>3. DeletesInOrder'
        BY <2>1, <2>2, <4>1, <4>2 DEF K8sInv, DeletesInOrder, PodGoes, Phase, AfterClaim
      <4> QED
        BY <1>t, <2>1, <2>2, <4>1, <4>2, <4>3 DEF K8sInv, K8sTypeOK, DeletesForOptions, ThenKnown
    <3>2. CASE Unread(name, pc) /\ secrets' = secrets
      <4>1. /\ call' \in K8sCalls /\ call'.pc = pc /\ call'.op = call.op
            /\ call'.then = call.then /\ call'.unread = call.unread \cup {name}
        BY <2>2, <3>2, <1>t, UnreadMeans DEF K8sPcs
      <4>2. DeletesInOrder'
        BY <2>1, <2>2, <3>2, <4>1 DEF K8sInv, DeletesInOrder, PodGoes, Phase, AfterClaim
      <4> QED
        BY <1>t, <2>1, <2>2, <3>2, <4>1, <4>2 DEF K8sInv, K8sTypeOK, DeletesForOptions, ThenKnown
    <3> QED BY <2>2, <3>1, <3>2 DEF RemoveSecret
  <2>3. CASE /\ call.pc = "deletePull" /\ settings \notin NamesPullSecrets
             /\ Continue("done") /\ secrets' = secrets
    <3>1. /\ call' \in K8sCalls /\ call'.pc = "done" /\ call'.op = call.op
          /\ call'.then = call.then /\ call'.unread = call.unread
      BY <2>3, <1>t, ContinueMeans DEF K8sPcs
    <3> QED
      BY <1>t, <2>1, <2>3, <3>1
      DEF K8sInv, K8sTypeOK, DeletesInOrder, DeletesForOptions, ThenKnown, PodGoes, Phase, AfterClaim
  <2> QED BY <1>15, <2>2, <2>3 DEF DeleteSecrets
<1>16. CASE PodChanges
  <2>1. UNCHANGED <<pvc, secrets, binding, settings, wanted, call>> /\ pod # Nothing
    BY <1>16 DEF PodChanges
  <2>2. CASE pod' = Nothing
    BY <1>t, <2>1, <2>2 DEF K8sInv, K8sTypeOK, DeletesInOrder, DeletesForOptions, ThenKnown, Phase
  <2>3. ASSUME NEW p \in {"running", "succeeded", "failed"}, pod' = [pod EXCEPT !.phase = p],
               Phase("pending") \/ (Phase("running") /\ p # "running")
        PROVE  K8sInv'
    <3>1. pod' \in Pods /\ pod'.settings = pod.settings /\ pod'.phase = p
      BY <1>t, <2>1, <2>3 DEF K8sTypeOK, Pods
    <3> QED
      BY <1>t, <2>1, <2>3, <3>1 DEF K8sInv, K8sTypeOK, DeletesInOrder, DeletesForOptions, ThenKnown, Phase
  <2> QED BY <1>16, <2>2, <2>3 DEF PodChanges
<1>17. CASE UserChanges
  BY <1>17, <1>t
  DEF UserChanges, clusterVars, K8sInv, K8sTypeOK, DeletesInOrder, DeletesForOptions, ThenKnown
<1>18. CASE UNCHANGED k8sVars
  BY <1>18, <1>t
  DEF k8sVars, clusterVars, K8sInv, K8sTypeOK, DeletesInOrder, DeletesForOptions, ThenKnown, Phase
<1> QED
  BY <1>1, <1>2, <1>3, <1>4, <1>5, <1>6, <1>7, <1>8, <1>9, <1>10, <1>11, <1>12, <1>13, <1>14,
     <1>15, <1>16, <1>17, <1>18 DEF K8sNext, K8sStep

\* The invariant holds in every reachable state.
LEMMA K8sInvAlways == K8sSpec => []K8sInv
  BY K8sInvInit, K8sInvNext, PTL DEF K8sSpec

\* The driver's state keeps its shape.
THEOREM K8sTypeCorrect == K8sSpec => []K8sTypeOK
  BY K8sInvAlways, PTL DEF K8sInv

\* A delete that succeeds leaves nothing of the workspace in the cluster, whichever
\* requests of earlier commands failed and whatever the cluster did to the pod, but for
\* what it could not read and what the options of the provider no longer name.
THEOREM DeleteLeavesNothingHolds == K8sSpec => []DeleteLeavesNothing
<1>1. K8sInv => DeleteLeavesNothing
  BY DEF K8sInv, DeletesInOrder, DeleteLeavesNothing, At, AfterClaim, PodGoes
<1> QED BY <1>1, K8sInvAlways, PTL

\* An up without --recreate ends the processes in a running pod only when the
\* provider's options have changed since the pod was made.
THEOREM RunningPodAlwaysKept == K8sSpec => RunningPodKept
<1> DEFINE Kept == Phase("running") /\ call.op = "up" /\ ~call.recreate /\ pod' # Nothing /\ pod'.phase = "terminating"
                     => pod.settings # settings
<1>1. K8sInv /\ [K8sNext]_k8sVars => [Kept]_k8sVars
  <2> SUFFICES ASSUME K8sInv, K8sNext, Phase("running"), call.op = "up", ~call.recreate,
                      pod' # Nothing, pod'.phase = "terminating"
               PROVE  pod.settings # settings
    OBVIOUS
  <2>1. CASE pod' = pod
    BY <2>1 DEF Phase
  <2>2. CASE DeletePod
    BY <2>2 DEF DeletePod, At, K8sInv, DeletesForOptions
  <2>3. CASE RunPod
    BY <2>3 DEF RunPod, Phase
  <2>4. CASE PodChanges
    BY <2>4 DEF PodChanges, Phase, K8sInv, K8sTypeOK, Pods
  <2> QED
    BY <2>1, <2>2, <2>3, <2>4
    DEF K8sNext, K8sStep, K8sCall, K8sFind, CreatePersistentVolumeClaim, CreateServiceAccount,
        EnsureDaemonConfigSecret, EnsurePullSecret, ComparePod, WaitPodRunning, WaitPodDeleted,
        WaitTimedOut, DeleteClaim, DeleteBinding, DeleteSecrets, RemoveSecret, K8sDone, K8sFails,
        UserChanges, clusterVars
<1> QED BY <1>1, K8sInvAlways, PTL DEF K8sSpec, RunningPodKept

-----------------------------------------------------------------------------
(* pro start and pro reset password *)

UninstallPlaces == {"helmUninstall", "unregister", "deleteSecret", "deleteRest"}
DockerPlaces == {"dockerFind", "dockerStop", "dockerRemove", "dockerRun", "dockerWait"}
\* After ensureAdminPassword.
ShownPlaces == {"reach", "router", "local", "remote", "login", "done", "forwarding"}

StartPcs == UninstallPlaces \cup DockerPlaces \cup ShownPlaces
            \cup {"idle", "check", "helm", "helmAgain", "purge", "success", "waitPod", "adminUser",
                  "adminSecret", "resetUser", "resetSecret"}

Starts == [pc : StartPcs, op : {"none", "start", "resetPassword"}, docker : BOOLEAN, reset : BOOLEAN,
           upgrade : BOOLEAN, wait : BOOLEAN, login : BOOLEAN, password : Passwords \cup {None},
           then : {"none", "check", "helm", "done", "forwarding"}, pings : Nat,
           helmFailed : BOOLEAN, shown : Passwords \cup {None}]

StartTypeOK ==
    /\ start \in Starts
    /\ admin \in References \cup {"nobody", "noPassword"}
    /\ adminSecrets \in [References -> Passwords \cup {None}]

\* What is known at the places of a command: where an uninstall and a login lead, that
\* ensureAdminPassword found a user with a reference, and which ones are of docker.
StartPlaces ==
    /\ start.pc \in UninstallPlaces => start.then \in {"check", "helm"}
    /\ start.pc = "login" => start.then \in {"done", "forwarding"}
    /\ start.pc \in {"adminSecret", "resetSecret"} => admin \in References
    /\ start.pc \in DockerPlaces => start.docker

\* A password is kept for showing only after ensureAdminPassword, and from then on it
\* is the admin's.
ShownIsTheAdmins ==
    start.op = "start" /\ ~start.docker /\ start.shown # None
        => /\ start.pc \in ShownPlaces
           /\ admin \in {"nobody", "noPassword"} \/ (admin \in References /\ adminSecrets[admin] = start.shown)

\* From ensureAdminPassword on the platform runs, so that its chart brings no admin that
\* the command has not looked at.
ReleaseUp ==
    \/ start.pc \in {"adminUser", "adminSecret"}
    \/ start.op = "start" /\ ~start.docker /\ start.shown # None
    => release # None /\ release.up

StartInv == StartTypeOK /\ StartPlaces /\ ShownIsTheAdmins /\ ReleaseUp

\* The initial states satisfy the invariant.
LEMMA StartInvInit == StartInit => StartInv
<1> SUFFICES ASSUME StartInit PROVE StartInv
  OBVIOUS
<1>1. start \in Starts /\ start.pc = "idle" /\ start.op = "none"
  BY DEF StartInit, NoStart, Starts, StartPcs
<1>2. StartTypeOK
  BY <1>1 DEF StartInit, StartTypeOK
<1> QED
  BY <1>1, <1>2 DEF StartInv, StartPlaces, ShownIsTheAdmins, ReleaseUp, UninstallPlaces, DockerPlaces

\* What it means that a command goes on ...
LEMMA GotoMeans ==
    ASSUME NEW pc \in StartPcs, StartTypeOK, Goto(pc)
    PROVE  /\ start' \in Starts /\ start'.pc = pc /\ start'.then = start.then
           /\ start'.op = start.op /\ start'.docker = start.docker /\ start'.shown = start.shown
  BY DEF StartTypeOK, Starts, Goto

\* ... that it waits ...
LEMMA PingMeans ==
    ASSUME StartTypeOK, Ping
    PROVE  /\ start' \in Starts /\ start'.pc = start.pc /\ start'.then = start.then
           /\ start'.op = start.op /\ start'.docker = start.docker /\ start'.shown = start.shown
  BY DEF StartTypeOK, Starts, Ping

\* ... and that it ends: nothing is left to show.
LEMMA EndKeeps ==
    ASSUME StartInv, start' = NoStart,
           admin' \in References \cup {"nobody", "noPassword"},
           adminSecrets' \in [References -> Passwords \cup {None}]
    PROVE  StartInv'
<1>1. start' \in Starts /\ start'.pc = "idle" /\ start'.op = "none"
  BY DEF NoStart, Starts, StartPcs
<1> QED
  BY <1>1 DEF StartInv, StartTypeOK, StartPlaces, ShownIsTheAdmins, ReleaseUp, UninstallPlaces, DockerPlaces

\* A step of the command that neither shows a password nor touches the admin's.
LEMMA QuietStepKeeps ==
    ASSUME StartInv, UNCHANGED <<admin, adminSecrets>>, start' \in Starts,
           start'.op = start.op, start'.docker = start.docker, start'.shown = start.shown,
           start.pc \in ShownPlaces => start'.pc \in ShownPlaces /\ release' = release,
           start'.pc \in {"adminUser", "adminSecret"} => release' # None /\ release'.up,
           StartPlaces'
    PROVE  StartInv'
<1>1. StartTypeOK' BY DEF StartInv, StartTypeOK
<1>2. ShownIsTheAdmins' BY DEF StartInv, ShownIsTheAdmins
<1>3. ReleaseUp' BY DEF StartInv, ShownIsTheAdmins, ReleaseUp
<1> QED BY <1>1, <1>2, <1>3 DEF StartInv

\* Before ensureAdminPassword there is nothing to show.
LEMMA NothingShown ==
    ASSUME StartInv, start.pc \notin ShownPlaces
    PROVE  ~(start.op = "start" /\ ~start.docker /\ start.shown # None)
  BY DEF StartInv, ShownIsTheAdmins

\* Every request of the two commands, their failures and what happens around them
\* keeps it.
LEMMA StartInvNext == StartInv /\ [StartNext]_startVars => StartInv'
<1> SUFFICES ASSUME StartInv, [StartNext]_startVars PROVE StartInv'
  OBVIOUS
<1>t. StartTypeOK BY DEF StartInv
<1>p. StartPlaces BY DEF StartInv
<1> USE DEF StartAt
<1>1. ASSUME NEW d \in BOOLEAN, NEW r \in BOOLEAN, NEW u \in BOOLEAN, NEW w \in BOOLEAN,
             NEW l \in BOOLEAN, NEW p \in Passwords \cup {None}, StartRuns(d, r, u, w, l, p)
      PROVE  StartInv'
  <2> DEFINE pw == IF p = None THEN DefaultPassword ELSE p
             pc == IF d THEN "dockerFind" ELSE IF r THEN "helmUninstall" ELSE "check"
  <2>a. pw \in Passwords BY ProStartAssumption
  <2>b. pc \in StartPcs BY DEF StartPcs, UninstallPlaces, DockerPlaces
  <2>c. start' = [pc |-> pc, op |-> "start", docker |-> d, reset |-> r, upgrade |-> u, wait |-> w,
                  login |-> l, password |-> pw, then |-> "check", pings |-> 0,
                  helmFailed |-> FALSE, shown |-> None]
    BY <1>1 DEF StartRuns, NoStart
  <2>d. start' \in Starts
    <3> HIDE DEF pw, pc
    <3> QED BY <2>a, <2>b, <2>c DEF Starts
  <2>1. /\ start' \in Starts /\ start'.shown = None /\ start'.docker = d /\ start'.then = "check"
        /\ start'.pc = (IF d THEN "dockerFind" ELSE IF r THEN "helmUninstall" ELSE "check")
    BY <2>c, <2>d
  <2>2. UNCHANGED <<admin, adminSecrets>>
    BY <1>1 DEF StartRuns
  <2> QED
    BY <1>t, <2>1, <2>2
    DEF StartInv, StartTypeOK, StartPlaces, ShownIsTheAdmins, ReleaseUp, UninstallPlaces, DockerPlaces
<1>2. ASSUME NEW p \in Passwords, ResetPasswordRuns(p) PROVE StartInv'
  <2>1. start' \in Starts /\ start'.pc = "resetUser" /\ start'.op = "resetPassword"
    BY <1>2 DEF ResetPasswordRuns, NoStart, Starts, StartPcs
  <2>2. UNCHANGED <<admin, adminSecrets>>
    BY <1>2 DEF ResetPasswordRuns
  <2> QED
    BY <1>t, <2>1, <2>2
    DEF StartInv, StartTypeOK, StartPlaces, ShownIsTheAdmins, ReleaseUp, UninstallPlaces, DockerPlaces
<1>3. CASE HelmUninstall
  <2>1. UNCHANGED <<admin, adminSecrets>> /\ start.pc = "helmUninstall"
    BY <1>3 DEF HelmUninstall
  <2>2. CASE Goto("unregister")
    <3>1. /\ start' \in Starts /\ start'.pc = "unregister" /\ start'.then = start.then
          /\ start'.op = start.op /\ start'.docker = start.docker /\ start'.shown = start.shown
      BY <2>2, <1>t, GotoMeans DEF StartPcs, UninstallPlaces, DockerPlaces, ShownPlaces
    <3>2. StartPlaces'
      BY <2>1, <3>1, <1>p DEF StartPlaces, UninstallPlaces, DockerPlaces, ShownPlaces
    <3> QED BY <2>1, <3>1, <3>2, QuietStepKeeps DEF ShownPlaces
  <2>3. CASE start' = [start EXCEPT !.pc = "unregister", !.helmFailed = TRUE]
    <3>1. /\ start' \in Starts /\ start'.pc = "unregister" /\ start'.then = start.then
          /\ start'.op = start.op /\ start'.docker = start.docker /\ start'.shown = start.shown
      BY <2>3, <1>t DEF StartTypeOK, Starts, StartPcs, UninstallPlaces, DockerPlaces, ShownPlaces
    <3>2. StartPlaces'
      BY <2>1, <3>1, <1>p DEF StartPlaces, UninstallPlaces, DockerPlaces, ShownPlaces
    <3> QED BY <2>1, <3>1, <3>2, QuietStepKeeps DEF ShownPlaces
  <2> QED BY <1>3, <2>2, <2>3 DEF HelmUninstall
<1>4. CASE DeleteUser
  <2>1. start.pc = "unregister" /\ Goto("deleteSecret") /\ adminSecrets' = adminSecrets
    BY <1>4 DEF DeleteUser
  <2>2. admin' \in {admin, "nobody"} BY <1>4 DEF DeleteUser
  <2>3. /\ start' \in Starts /\ start'.pc = "deleteSecret" /\ start'.then = start.then
        /\ start'.op = start.op /\ start'.docker = start.docker /\ start'.shown = start.shown
    BY <2>1, <1>t, GotoMeans DEF StartPcs, UninstallPlaces
  <2>4. ~(start.op = "start" /\ ~start.docker /\ start.shown # None)
    BY <2>1, NothingShown DEF ShownPlaces
  <2>5. StartTypeOK' BY <1>t, <2>1, <2>2, <2>3 DEF StartTypeOK
  <2> QED
    BY <1>p, <2>1, <2>3, <2>4, <2>5
    DEF StartInv, StartPlaces, ShownIsTheAdmins, ReleaseUp, UninstallPlaces, DockerPlaces
<1>5. CASE DeleteSecret
  <2>1. start.pc = "deleteSecret" /\ Goto("deleteRest") /\ admin' = admin
    BY <1>5 DEF DeleteSecret
  <2>2. adminSecrets' \in [References -> Passwords \cup {None}]
    BY <1>5, <1>t DEF DeleteSecret, StartTypeOK
  <2>3. /\ start' \in Starts /\ start'.pc = "deleteRest" /\ start'.then = start.then
        /\ start'.op = start.op /\ start'.docker = start.docker /\ start'.shown = start.shown
    BY <2>1, <1>t, GotoMeans DEF StartPcs, UninstallPlaces
  <2>4. ~(start.op = "start" /\ ~start.docker /\ start.shown # None)
    BY <2>1, NothingShown DEF ShownPlaces
  <2>5. StartTypeOK' BY <1>t, <2>1, <2>2, <2>3 DEF StartTypeOK
  <2> QED
    BY <1>p, <2>1, <2>3, <2>4, <2>5
    DEF StartInv, StartPlaces, ShownIsTheAdmins, ReleaseUp, UninstallPlaces, DockerPlaces
<1>6. CASE DeleteRest
  <2>1. UNCHANGED <<admin, adminSecrets>> /\ start.pc = "deleteRest" /\ Goto(start.then)
    BY <1>6 DEF DeleteRest
  <2>2. start.then \in {"check", "helm"} BY <2>1, <1>p DEF StartPlaces, UninstallPlaces
  <2>3. /\ start' \in Starts /\ start'.pc = start.then
        /\ start'.op = start.op /\ start'.docker = start.docker /\ start'.shown = start.shown
    BY <2>1, <2>2, <1>t, GotoMeans DEF StartPcs
  <2>4. StartPlaces' BY <2>2, <2>3 DEF StartPlaces, UninstallPlaces, DockerPlaces
  <2> QED BY <2>1, <2>2, <2>3, <2>4, QuietStepKeeps DEF ShownPlaces
<1>7. CASE CheckInstalled
  <2>1. UNCHANGED <<admin, adminSecrets>> /\ start.pc = "check"
    BY <1>7 DEF CheckInstalled
  <2>2. CASE Goto("helm")
    <3>1. /\ start' \in Starts /\ start'.pc = "helm" /\ start'.then = start.then
          /\ start'.op = start.op /\ start'.docker = start.docker /\ start'.shown = start.shown
      BY <2>2, <1>t, GotoMeans DEF StartPcs, UninstallPlaces, DockerPlaces, ShownPlaces
    <3>2. StartPlaces'
      BY <2>1, <3>1, <1>p DEF StartPlaces, UninstallPlaces, DockerPlaces, ShownPlaces
    <3> QED BY <2>1, <3>1, <3>2, QuietStepKeeps DEF ShownPlaces
  <2>3. CASE Goto("success")
    <3>1. /\ start' \in Starts /\ start'.pc = "success" /\ start'.then = start.then
          /\ start'.op = start.op /\ start'.docker = start.docker /\ start'.shown = start.shown
      BY <2>3, <1>t, GotoMeans DEF StartPcs, UninstallPlaces, DockerPlaces, ShownPlaces
    <3>2. StartPlaces'
      BY <2>1, <3>1, <1>p DEF StartPlaces, UninstallPlaces, DockerPlaces, ShownPlaces
    <3> QED BY <2>1, <3>1, <3>2, QuietStepKeeps DEF ShownPlaces
  <2>4. CASE start' = [start EXCEPT !.pc = "helmUninstall", !.then = "helm"]
    <3>1. /\ start' \in Starts /\ start'.pc = "helmUninstall" /\ start'.then = "helm"
          /\ start'.op = start.op /\ start'.docker = start.docker /\ start'.shown = start.shown
      BY <2>4, <1>t DEF StartTypeOK, Starts, StartPcs, UninstallPlaces, DockerPlaces, ShownPlaces
    <3>2. StartPlaces'
      BY <2>1, <3>1, <1>p DEF StartPlaces, UninstallPlaces, DockerPlaces, ShownPlaces
    <3> QED BY <2>1, <3>1, <3>2, QuietStepKeeps DEF ShownPlaces
  <2> QED BY <1>7, <2>2, <2>3, <2>4 DEF CheckInstalled
<1>8. CASE UpgradeRelease
  <2>1. UNCHANGED <<admin, adminSecrets>> /\ start.pc \in {"helm", "helmAgain"}
    BY <1>8 DEF UpgradeRelease
  <2>2. CASE Goto("success")
    <3>1. /\ start' \in Starts /\ start'.pc = "success" /\ start'.then = start.then
          /\ start'.op = start.op /\ start'.docker = start.docker /\ start'.shown = start.shown
      BY <2>2, <1>t, GotoMeans DEF StartPcs, UninstallPlaces, DockerPlaces, ShownPlaces
    <3>2. StartPlaces'
      BY <2>1, <3>1, <1>p DEF StartPlaces, UninstallPlaces, DockerPlaces, ShownPlaces
    <3> QED BY <2>1, <3>1, <3>2, QuietStepKeeps DEF ShownPlaces
  <2> QED BY <1>8, <2>2 DEF UpgradeRelease
<1>9. CASE UpgradeReleaseFails
  <2>1. UNCHANGED <<admin, adminSecrets>> /\ start.pc \in {"helm", "helmAgain"}
    BY <1>9 DEF UpgradeReleaseFails
  <2>2. CASE Goto("purge")
    <3>1. /\ start' \in Starts /\ start'.pc = "purge" /\ start'.then = start.then
          /\ start'.op = start.op /\ start'.docker = start.docker /\ start'.shown = start.shown
      BY <2>2, <1>t, GotoMeans DEF StartPcs, UninstallPlaces, DockerPlaces, ShownPlaces
    <3>2. StartPlaces'
      BY <2>1, <3>1, <1>p DEF StartPlaces, UninstallPlaces, DockerPlaces, ShownPlaces
    <3> QED BY <2>1, <3>1, <3>2, QuietStepKeeps DEF ShownPlaces
  <2>3. CASE start' = NoStart
    BY <2>1, <2>3, <1>t, EndKeeps DEF StartTypeOK
  <2> QED BY <1>9, <2>2, <2>3 DEF UpgradeReleaseFails
<1>10. CASE Purge
  <2>1. UNCHANGED <<admin, adminSecrets>> /\ start.pc = "purge"
    BY <1>10 DEF Purge
  <2>2. CASE Goto("helmAgain")
    <3>1. /\ start' \in Starts /\ start'.pc = "helmAgain" /\ start'.then = start.then
          /\ start'.op = start.op /\ start'.docker = start.docker /\ start'.shown = start.shown
      BY <2>2, <1>t, GotoMeans DEF StartPcs, UninstallPlaces, DockerPlaces, ShownPlaces
    <3>2. StartPlaces'
      BY <2>1, <3>1, <1>p DEF StartPlaces, UninstallPlaces, DockerPlaces, ShownPlaces
    <3> QED BY <2>1, <3>1, <3>2, QuietStepKeeps DEF ShownPlaces
  <2> QED BY <1>10, <2>2 DEF Purge
<1>11. CASE Success
  <2>1. UNCHANGED <<admin, adminSecrets>> /\ start.pc = "success"
    BY <1>11 DEF Success
  <2>2. CASE Goto("waitPod")
    <3>1. /\ start' \in Starts /\ start'.pc = "waitPod" /\ start'.then = start.then
          /\ start'.op = start.op /\ start'.docker = start.docker /\ start'.shown = start.shown
      BY <2>2, <1>t, GotoMeans DEF StartPcs, UninstallPlaces, DockerPlaces, ShownPlaces
    <3>2. StartPlaces'
      BY <2>1, <3>1, <1>p DEF StartPlaces, UninstallPlaces, DockerPlaces, ShownPlaces
    <3> QED BY <2>1, <3>1, <3>2, QuietStepKeeps DEF ShownPlaces
  <2>3. CASE Goto("done")
    <3>1. /\ start' \in Starts /\ start'.pc = "done" /\ start'.then = start.then
          /\ start'.op = start.op /\ start'.docker = start.docker /\ start'.shown = start.shown
      BY <2>3, <1>t, GotoMeans DEF StartPcs, UninstallPlaces, DockerPlaces, ShownPlaces
    <3>2. StartPlaces'
      BY <2>1, <3>1, <1>p DEF StartPlaces, UninstallPlaces, DockerPlaces, ShownPlaces
    <3> QED BY <2>1, <3>1, <3>2, QuietStepKeeps DEF ShownPlaces
  <2> QED BY <1>11, <2>2, <2>3 DEF Success
<1>12. CASE WaitForPodReady
  <2>1. UNCHANGED <<admin, adminSecrets>> /\ start.pc = "waitPod"
    BY <1>12 DEF WaitForPodReady
  <2>2. CASE Goto("adminUser") /\ release # None /\ release.up /\ release' = release
    <3>1. /\ start' \in Starts /\ start'.pc = "adminUser" /\ start'.then = start.then
          /\ start'.op = start.op /\ start'.docker = start.docker /\ start'.shown = start.shown
      BY <2>2, <1>t, GotoMeans DEF StartPcs, UninstallPlaces, DockerPlaces, ShownPlaces
    <3>2. StartPlaces'
      BY <2>1, <3>1, <1>p DEF StartPlaces, UninstallPlaces, DockerPlaces, ShownPlaces
    <3> QED BY <2>1, <2>2, <3>1, <3>2, QuietStepKeeps DEF ShownPlaces
  <2>3. CASE Ping
    <3>1. /\ start' \in Starts /\ start'.pc = start.pc /\ start'.then = start.then
          /\ start'.op = start.op /\ start'.docker = start.docker /\ start'.shown = start.shown
      BY <2>3, <1>t, PingMeans
    <3>2. StartPlaces'
      BY <2>1, <3>1, <1>p DEF StartPlaces
    <3> QED BY <2>1, <3>1, <3>2, QuietStepKeeps DEF ShownPlaces
  <2>4. CASE start' = NoStart
    BY <2>1, <2>4, <1>t, EndKeeps DEF StartTypeOK
  <2> QED BY <1>12, <2>2, <2>3, <2>4 DEF WaitForPodReady
<1>13. CASE EnsureAdminUser
  <2>1. start.pc = "adminUser" /\ UNCHANGED <<release, admin, adminSecrets>>
    BY <1>13 DEF EnsureAdminUser
  <2>2. release # None /\ release.up BY <2>1 DEF StartInv, ReleaseUp
  <2>3. CASE admin \notin References
    <3>1. /\ start' \in Starts /\ start'.pc = "reach"
      BY ZenonT(60), <1>13, <2>3, <1>t DEF EnsureAdminUser, StartTypeOK, Starts, StartPcs, ShownPlaces
    <3>2. admin' \in {"nobody", "noPassword"} BY <2>1, <2>3, <1>t DEF StartTypeOK
    <3> QED
      BY <1>t, <2>1, <2>2, <3>1, <3>2
      DEF StartInv, StartTypeOK, StartPlaces, ShownIsTheAdmins, ReleaseUp, UninstallPlaces, DockerPlaces, ShownPlaces
  <2>4. CASE admin \in References
    <3>1. /\ start' \in Starts /\ start'.pc = "adminSecret"
          /\ start'.op = start.op /\ start'.docker = start.docker /\ start'.shown = start.shown
      BY <1>13, <2>4, <1>t, GotoMeans DEF EnsureAdminUser, StartPcs
    <3>2. ~(start.op = "start" /\ ~start.docker /\ start.shown # None)
      BY <2>1, NothingShown DEF ShownPlaces
    <3>3. StartTypeOK' BY <1>t, <2>1, <3>1 DEF StartTypeOK
    <3> QED
      BY <2>1, <2>2, <2>4, <3>1, <3>2, <3>3
      DEF StartInv, StartPlaces, ShownIsTheAdmins, ReleaseUp, UninstallPlaces, DockerPlaces
  <2> QED BY <2>3, <2>4
<1>14. CASE EnsureAdminPassword
  <2>1. start.pc = "adminSecret" /\ UNCHANGED <<release, admin>> BY <1>14 DEF EnsureAdminPassword
  <2>2. admin \in References BY <2>1, <1>p DEF StartPlaces
  <2>3. start.password \in Passwords \cup {None} BY <1>t DEF StartTypeOK, Starts
  <2>4. adminSecrets' \in [References -> Passwords \cup {None}]
    BY <1>14, <2>2, <2>3, <1>t DEF EnsureAdminPassword, StartTypeOK
  <2>5. /\ start' \in Starts /\ start'.pc = "reach"
        /\ start'.shown = IF adminSecrets'[admin] = start.password THEN start.password ELSE None
    BY <1>14, <2>3, <1>t DEF EnsureAdminPassword, StartTypeOK, Starts, StartPcs, ShownPlaces
  <2>6. StartTypeOK' BY <1>t, <2>1, <2>4, <2>5 DEF StartTypeOK
  <2>7. ShownIsTheAdmins' BY <2>1, <2>2, <2>5 DEF ShownIsTheAdmins, ShownPlaces
  <2>8. ReleaseUp' BY <2>1 DEF StartInv, ReleaseUp
  <2> QED BY <2>5, <2>6, <2>7, <2>8 DEF StartInv, StartPlaces, UninstallPlaces, DockerPlaces
<1>15. CASE ChooseAddress
  <2>1. UNCHANGED <<release, admin, adminSecrets>> /\ start.pc = "reach"
    BY <1>15 DEF ChooseAddress
  <2>2. CASE Goto("router")
    <3>1. /\ start' \in Starts /\ start'.pc = "router" /\ start'.then = start.then
          /\ start'.op = start.op /\ start'.docker = start.docker /\ start'.shown = start.shown
      BY <2>2, <1>t, GotoMeans DEF StartPcs, UninstallPlaces, DockerPlaces, ShownPlaces
    <3>2. StartPlaces'
      BY <2>1, <3>1, <1>p DEF StartPlaces, UninstallPlaces, DockerPlaces, ShownPlaces
    <3> QED BY <2>1, <3>1, <3>2, QuietStepKeeps DEF ShownPlaces
  <2>3. CASE Goto("local")
    <3>1. /\ start' \in Starts /\ start'.pc = "local" /\ start'.then = start.then
          /\ start'.op = start.op /\ start'.docker = start.docker /\ start'.shown = start.shown
      BY <2>3, <1>t, GotoMeans DEF StartPcs, UninstallPlaces, DockerPlaces, ShownPlaces
    <3>2. StartPlaces'
      BY <2>1, <3>1, <1>p DEF StartPlaces, UninstallPlaces, DockerPlaces, ShownPlaces
    <3> QED BY <2>1, <3>1, <3>2, QuietStepKeeps DEF ShownPlaces
  <2>4. CASE Goto("remote")
    <3>1. /\ start' \in Starts /\ start'.pc = "remote" /\ start'.then = start.then
          /\ start'.op = start.op /\ start'.docker = start.docker /\ start'.shown = start.shown
      BY <2>4, <1>t, GotoMeans DEF StartPcs, UninstallPlaces, DockerPlaces, ShownPlaces
    <3>2. StartPlaces'
      BY <2>1, <3>1, <1>p DEF StartPlaces, UninstallPlaces, DockerPlaces, ShownPlaces
    <3> QED BY <2>1, <3>1, <3>2, QuietStepKeeps DEF ShownPlaces
  <2> QED BY <1>15, <2>2, <2>3, <2>4 DEF ChooseAddress
<1>16. CASE PingLoftRouter
  <2>1. UNCHANGED <<release, admin, adminSecrets>> /\ start.pc = "router"
    BY <1>16 DEF PingLoftRouter
  <2>2. CASE Ping
    <3>1. /\ start' \in Starts /\ start'.pc = start.pc /\ start'.then = start.then
          /\ start'.op = start.op /\ start'.docker = start.docker /\ start'.shown = start.shown
      BY <2>2, <1>t, PingMeans
    <3>2. StartPlaces'
      BY <2>1, <3>1, <1>p DEF StartPlaces
    <3> QED BY <2>1, <3>1, <3>2, QuietStepKeeps
  <2>3. CASE start' = [start EXCEPT !.pc = "login", !.then = "done"]
    <3>1. /\ start' \in Starts /\ start'.pc = "login" /\ start'.then = "done"
          /\ start'.op = start.op /\ start'.docker = start.docker /\ start'.shown = start.shown
      BY <2>3, <1>t DEF StartTypeOK, Starts, StartPcs, UninstallPlaces, DockerPlaces, ShownPlaces
    <3>2. StartPlaces'
      BY <2>1, <3>1, <1>p DEF StartPlaces, UninstallPlaces, DockerPlaces, ShownPlaces
    <3> QED BY <2>1, <3>1, <3>2, QuietStepKeeps DEF ShownPlaces
  <2>4. CASE start' = [start EXCEPT !.pc = "login", !.then = "forwarding"]
    <3>1. /\ start' \in Starts /\ start'.pc = "login" /\ start'.then = "forwarding"
          /\ start'.op = start.op /\ start'.docker = start.docker /\ start'.shown = start.shown
      BY <2>4, <1>t DEF StartTypeOK, Starts, StartPcs, UninstallPlaces, DockerPlaces, ShownPlaces
    <3>2. StartPlaces'
      BY <2>1, <3>1, <1>p DEF StartPlaces, UninstallPlaces, DockerPlaces, ShownPlaces
    <3> QED BY <2>1, <3>1, <3>2, QuietStepKeeps DEF ShownPlaces
  <2> QED BY <1>16, <2>2, <2>3, <2>4 DEF PingLoftRouter, LoginThen
<1>17. CASE SuccessLocal
  <2>1. UNCHANGED <<release, admin, adminSecrets>> /\ start.pc = "local"
    BY <1>17 DEF SuccessLocal
  <2>2. CASE start' = [start EXCEPT !.pc = "login", !.then = "forwarding"]
    <3>1. /\ start' \in Starts /\ start'.pc = "login" /\ start'.then = "forwarding"
          /\ start'.op = start.op /\ start'.docker = start.docker /\ start'.shown = start.shown
      BY <2>2, <1>t DEF StartTypeOK, Starts, StartPcs, UninstallPlaces, DockerPlaces, ShownPlaces
    <3>2. StartPlaces'
      BY <2>1, <3>1, <1>p DEF StartPlaces, UninstallPlaces, DockerPlaces, ShownPlaces
    <3> QED BY <2>1, <3>1, <3>2, QuietStepKeeps DEF ShownPlaces
  <2> QED BY <1>17, <2>2 DEF SuccessLocal, LoginThen
<1>18. CASE SuccessRemote
  <2>1. UNCHANGED <<release, admin, adminSecrets>> /\ start.pc = "remote"
    BY <1>18 DEF SuccessRemote
  <2>2. CASE Goto("done")
    <3>1. /\ start' \in Starts /\ start'.pc = "done" /\ start'.then = start.then
          /\ start'.op = start.op /\ start'.docker = start.docker /\ start'.shown = start.shown
      BY <2>2, <1>t, GotoMeans DEF StartPcs, UninstallPlaces, DockerPlaces, ShownPlaces
    <3>2. StartPlaces'
      BY <2>1, <3>1, <1>p DEF StartPlaces, UninstallPlaces, DockerPlaces, ShownPlaces
    <3> QED BY <2>1, <3>1, <3>2, QuietStepKeeps DEF ShownPlaces
  <2>3. CASE Ping
    <3>1. /\ start' \in Starts /\ start'.pc = start.pc /\ start'.then = start.then
          /\ start'.op = start.op /\ start'.docker = start.docker /\ start'.shown = start.shown
      BY <2>3, <1>t, PingMeans
    <3>2. StartPlaces'
      BY <2>1, <3>1, <1>p DEF StartPlaces
    <3> QED BY <2>1, <3>1, <3>2, QuietStepKeeps
  <2>4. CASE start' = NoStart
    BY <2>1, <2>4, <1>t, EndKeeps DEF StartTypeOK
  <2> QED BY <1>18, <2>2, <2>3, <2>4 DEF SuccessRemote
<1>19. CASE Login
  <2>1. UNCHANGED <<release, admin, adminSecrets>> /\ start.pc = "login"
    BY <1>19 DEF Login
  <2>2. start.then \in {"done", "forwarding"} BY <2>1, <1>p DEF StartPlaces
  <2>3. CASE Goto(start.then)
    <3>1. /\ start' \in Starts /\ start'.pc = start.then
          /\ start'.op = start.op /\ start'.docker = start.docker /\ start'.shown = start.shown
      BY <2>2, <2>3, <1>t, GotoMeans DEF StartPcs, ShownPlaces
    <3>2. StartPlaces' BY <2>2, <3>1 DEF StartPlaces, UninstallPlaces, DockerPlaces
    <3> QED BY <2>1, <2>2, <3>1, <3>2, QuietStepKeeps DEF ShownPlaces
  <2>4. CASE start' = NoStart
    BY <2>1, <2>4, <1>t, EndKeeps DEF StartTypeOK
  <2> QED BY <1>19, <2>3, <2>4 DEF Login
<1>20. CASE DockerFind \/ RunInDocker
  <2>1. UNCHANGED <<admin, adminSecrets>> /\ start.pc \in {"dockerFind", "dockerRun"}
    BY <1>20 DEF DockerFind, RunInDocker
  <2>2. start.docker BY <2>1, <1>p DEF StartPlaces, DockerPlaces
  <2> DEFINE InDocker == start' \in Starts /\ start'.docker /\ start'.pc \in DockerPlaces \cup {"done"}
  <2>3. InDocker
    <3>1. ASSUME NEW pc \in {"dockerStop", "dockerRun"}, Goto(pc) PROVE InDocker
      BY <2>2, <3>1, <1>t, GotoMeans DEF StartPcs, DockerPlaces
    <3>2. CASE start' = [start EXCEPT !.pc = IF start.wait THEN "dockerWait" ELSE "done",
                                      !.shown = start.password]
      BY ZenonT(60), <2>2, <3>2, <1>t DEF StartTypeOK, Starts, StartPcs, DockerPlaces, ShownPlaces
    <3> QED BY <1>20, <3>1, <3>2 DEF DockerFind, RunInDocker
  <2> QED
    BY <1>t, <2>1, <2>3
    DEF StartInv, StartTypeOK, StartPlaces, ShownIsTheAdmins, ReleaseUp, UninstallPlaces, DockerPlaces
<1>21. CASE UninstallDocker
  <2>1. UNCHANGED <<admin, adminSecrets>> /\ start.pc \in {"dockerStop", "dockerRemove"}
    BY <1>21 DEF UninstallDocker
  <2>2. CASE Goto("dockerRemove")
    <3>1. /\ start' \in Starts /\ start'.pc = "dockerRemove" /\ start'.then = start.then
          /\ start'.op = start.op /\ start'.docker = start.docker /\ start'.shown = start.shown
      BY <2>2, <1>t, GotoMeans DEF StartPcs, UninstallPlaces, DockerPlaces, ShownPlaces
    <3>2. StartPlaces'
      BY <2>1, <3>1, <1>p DEF StartPlaces, UninstallPlaces, DockerPlaces, ShownPlaces
    <3> QED BY <2>1, <3>1, <3>2, QuietStepKeeps DEF ShownPlaces
  <2>3. CASE Goto("dockerRun")
    <3>1. /\ start' \in Starts /\ start'.pc = "dockerRun" /\ start'.then = start.then
          /\ start'.op = start.op /\ start'.docker = start.docker /\ start'.shown = start.shown
      BY <2>3, <1>t, GotoMeans DEF StartPcs, UninstallPlaces, DockerPlaces, ShownPlaces
    <3>2. StartPlaces'
      BY <2>1, <3>1, <1>p DEF StartPlaces, UninstallPlaces, DockerPlaces, ShownPlaces
    <3> QED BY <2>1, <3>1, <3>2, QuietStepKeeps DEF ShownPlaces
  <2> QED BY <1>21, <2>2, <2>3 DEF UninstallDocker
<1>22. CASE SuccessDocker
  <2>1. UNCHANGED <<admin, adminSecrets>> /\ start.pc = "dockerWait"
    BY <1>22 DEF SuccessDocker
  <2>2. CASE Goto("done")
    <3>1. /\ start' \in Starts /\ start'.pc = "done" /\ start'.then = start.then
          /\ start'.op = start.op /\ start'.docker = start.docker /\ start'.shown = start.shown
      BY <2>2, <1>t, GotoMeans DEF StartPcs, UninstallPlaces, DockerPlaces, ShownPlaces
    <3>2. StartPlaces'
      BY <2>1, <3>1, <1>p DEF StartPlaces, UninstallPlaces, DockerPlaces, ShownPlaces
    <3> QED BY <2>1, <3>1, <3>2, QuietStepKeeps DEF ShownPlaces
  <2>3. CASE Ping
    <3>1. /\ start' \in Starts /\ start'.pc = start.pc /\ start'.then = start.then
          /\ start'.op = start.op /\ start'.docker = start.docker /\ start'.shown = start.shown
      BY <2>3, <1>t, PingMeans
    <3>2. StartPlaces'
      BY <2>1, <3>1, <1>p DEF StartPlaces
    <3> QED BY <2>1, <3>1, <3>2, QuietStepKeeps DEF ShownPlaces
  <2>4. CASE start' = NoStart
    BY <2>1, <2>4, <1>t, EndKeeps DEF StartTypeOK
  <2> QED BY <1>22, <2>2, <2>3, <2>4 DEF SuccessDocker
<1>23. ASSUME NEW flag \in BOOLEAN, ResetUser(flag) PROVE StartInv'
  <2>1. start.pc = "resetUser" BY <1>23 DEF ResetUser
  <2>2. /\ admin' \in References \cup {"nobody", "noPassword"}
        /\ adminSecrets' \in [References -> Passwords \cup {None}]
    BY <1>23, <1>t DEF ResetUser, StartTypeOK, References
  <2>3. CASE start' = NoStart
    BY <2>2, <2>3, EndKeeps
  <2>4. CASE Goto("resetSecret") /\ admin' \in References
    <3>1. /\ start' \in Starts /\ start'.pc = "resetSecret"
          /\ start'.op = start.op /\ start'.docker = start.docker /\ start'.shown = start.shown
      BY <2>4, <1>t, GotoMeans DEF StartPcs
    <3>2. ~(start.op = "start" /\ ~start.docker /\ start.shown # None)
      BY <2>1, NothingShown DEF ShownPlaces
    <3>3. StartTypeOK' BY <2>2, <3>1 DEF StartTypeOK
    <3> QED
      BY <2>4, <3>1, <3>2, <3>3
      DEF StartInv, StartPlaces, ShownIsTheAdmins, ReleaseUp, UninstallPlaces, DockerPlaces
  <2> QED BY <1>23, <2>3, <2>4 DEF ResetUser, References
<1>24. CASE ResetSecret
  <2>1. start.pc = "resetSecret" /\ Goto("done") /\ admin' = admin
    BY <1>24 DEF ResetSecret
  <2>2. start.password \in Passwords \cup {None} BY <1>t DEF StartTypeOK, Starts
  <2>3. adminSecrets' \in [References -> Passwords \cup {None}]
    BY <1>24, <2>2, <1>t DEF ResetSecret, StartTypeOK
  <2>4. /\ start' \in Starts /\ start'.pc = "done"
        /\ start'.op = start.op /\ start'.docker = start.docker /\ start'.shown = start.shown
    BY <2>1, <1>t, GotoMeans DEF StartPcs, ShownPlaces
  <2>5. ~(start.op = "start" /\ ~start.docker /\ start.shown # None)
    BY <2>1, NothingShown DEF ShownPlaces
  <2>6. StartTypeOK' BY <1>t, <2>1, <2>3, <2>4 DEF StartTypeOK
  <2> QED
    BY <2>4, <2>5, <2>6
    DEF StartInv, StartPlaces, ShownIsTheAdmins, ReleaseUp, UninstallPlaces, DockerPlaces
<1>25. CASE StartDone \/ StartStops
  BY <1>25, <1>t, EndKeeps DEF StartDone, StartStops, StartTypeOK
<1>26. CASE PlatformComesUp
  <2>1. start' = start /\ ~release.up BY <1>26 DEF PlatformComesUp
  <2>a. /\ start.pc \notin {"adminUser", "adminSecret"}
        /\ ~(start.op = "start" /\ ~start.docker /\ start.shown # None)
    BY <2>1 DEF StartInv, ReleaseUp
  <2>b. ReleaseUp' BY <2>1, <2>a DEF ReleaseUp
  <2>2. CASE UNCHANGED <<admin, adminSecrets>>
    BY <2>1, <2>2, <2>b DEF StartInv, StartTypeOK, StartPlaces, ShownIsTheAdmins
  <2>3. ASSUME admin = "nobody", admin' = "chart",
               NEW p \in Passwords,
               adminSecrets' = [adminSecrets EXCEPT !["chart"] = IF @ = None THEN p ELSE @]
        PROVE  StartInv'
    <3>1. adminSecrets' \in [References -> Passwords \cup {None}]
      BY <2>3, <1>t DEF StartTypeOK, References
    <3>2. "nobody" \notin References /\ "chart" \in References BY DEF References
    <3>3. StartTypeOK' BY <1>t, <2>1, <2>3, <3>1, <3>2 DEF StartTypeOK
    <3>4. StartPlaces' BY <1>p, <2>1, <2>3, <3>2 DEF StartPlaces
    <3>5. ShownIsTheAdmins' BY <2>1, <2>a DEF ShownIsTheAdmins
    <3> QED BY <3>3, <3>4, <3>5, <2>b DEF StartInv
  <2> QED BY <1>26, <2>2, <2>3 DEF PlatformComesUp
<1>27. CASE Surroundings
  <2>1. start' = start /\ start.pc = "idle" /\ adminSecrets' = adminSecrets
    BY <1>27 DEF Surroundings
  <2>2. admin' \in References \cup {"nobody", "noPassword"}
    BY <1>27, <1>t DEF Surroundings, StartTypeOK
  <2>3. ~(start.op = "start" /\ ~start.docker /\ start.shown # None)
    BY <2>1, NothingShown DEF ShownPlaces
  <2> QED
    BY <1>t, <2>1, <2>2, <2>3
    DEF StartInv, StartTypeOK, StartPlaces, ShownIsTheAdmins, ReleaseUp, UninstallPlaces, DockerPlaces
<1>28. CASE UNCHANGED startVars
  BY <1>28 DEF startVars, StartInv, StartTypeOK, StartPlaces, ShownIsTheAdmins, ReleaseUp
<1> QED
  BY <1>1, <1>2, <1>3, <1>4, <1>5, <1>6, <1>7, <1>8, <1>9, <1>10, <1>11, <1>12, <1>13, <1>14,
     <1>15, <1>16, <1>17, <1>18, <1>19, <1>20, <1>21, <1>22, <1>23, <1>24, <1>25, <1>26, <1>27, <1>28
  DEF StartNext, StartStep

\* A password that "pro start" shows after an installation in a cluster is the one of
\* user admin, over failed and killed installations, resets, left-over secrets and
\* "pro reset password", if there is an admin with a password reference at all.
THEOREM ShownPasswordWorksHolds == StartSpec => []ShownPasswordWorks
<1>1. StartInv => ShownPasswordWorks
  BY DEF StartInv, ShownIsTheAdmins, ShownPasswordWorks
<1> QED BY <1>1, StartInvInit, StartInvNext, PTL DEF StartSpec

=============================================================================
