-------------------------- MODULE KubernetesDriver ---------------------------
(***************************************************************************)
(* The Kubernetes driver (pkg/driver/kubernetes) as the runner calls it:   *)
(* up finds the volume claim of the workspace and starts its pod, or       *)
(* creates claim, service account, secrets and pod; stop deletes the pod,  *)
(* delete all of it.  The run options are kept in an annotation of the     *)
(* claim.  The cluster starts, ends and evicts pods on its own, requests   *)
(* fail, and the driver polls with a timeout.                              *)
(***************************************************************************)
EXTENDS Integers

CONSTANTS Options,       \* versions of the run options (devcontainer.json)
          Settings,      \* values of the provider's own options
          WithRole,      \* those that name a cluster role
          NamesPullSecrets, \* those that say whether there are pull secrets
          Nothing,
          MaxPolls,      \* the timeouts of the two waits, in polls
          MaxCalls,      \* bound: commands
          MaxRefusals    \* bound: failing requests

ASSUME KubernetesDriverAssumption ==
    /\ MaxPolls \in Nat \ {0} /\ MaxCalls \in Nat /\ MaxRefusals \in Nat
    /\ WithRole \subseteq Settings /\ NamesPullSecrets \subseteq Settings
    /\ Nothing \notin Options \cup Settings

VARIABLES
    pvc,        \* the claim: the options in its annotation
    pod,        \* the pod: its phase, what it was made from
    secrets,    \* the options whose daemon config and pull secret are stored
    binding,    \* there is a role binding
    settings,   \* the provider options now
    wanted,     \* devcontainer.json now
    call,       \* the running command
    calls, refusals

clusterVars == <<pvc, pod, secrets, binding>>
k8sVars == <<clusterVars, settings, wanted, call, calls, refusals>>

NoCall == [op |-> "none", pc |-> "idle", recreate |-> FALSE, stage |-> "none",
           options |-> Nothing, polls |-> 0, then |-> "none", unread |-> {}]

K8sInit ==
    /\ pvc = Nothing /\ pod = Nothing
    /\ secrets = [daemon |-> Nothing, pull |-> Nothing] /\ binding = FALSE
    /\ settings \in Settings /\ wanted \in Options
    /\ call = NoCall /\ calls = 0 /\ refusals = 0

At(pc) == call.pc = pc
Phase(p) == pod # Nothing /\ pod.phase = p

\* A request that fails.
Refused == refusals < MaxRefusals /\ refusals' = refusals + 1 /\ UNCHANGED <<settings, wanted, calls>>

\* The command goes on at pc; a wait counts its polls from zero.
Continue(pc) == call' = [call EXCEPT !.pc = pc, !.polls = 0]
K8sReturn == call' = NoCall

\* It goes on though it could not read an object, which it takes for gone.
Unread(object, pc) ==
    call' = [call EXCEPT !.pc = pc, !.polls = 0, !.unread = @ \cup {object}]

Quiet == UNCHANGED <<settings, wanted, calls, refusals>>

-----------------------------------------------------------------------------
(* The commands *)

K8sCall(op, recreate) ==
    /\ At("idle") /\ calls < MaxCalls /\ (recreate => op = "up")
    /\ calls' = calls + 1
    /\ call' = [NoCall EXCEPT !.op = op, !.recreate = recreate,
                              !.pc = IF op = "up" THEN "find" ELSE "deletePod",
                              !.then = IF op = "delete" THEN "deleteClaim" ELSE "done"]
    /\ UNCHANGED <<clusterVars, settings, wanted, refusals>>

\* FindDevContainer by the claim: an existing one is started if its pod does not
\* run, and reprovisioned; --recreate deletes the pod and runs the new options.
K8sFind ==
    /\ At("find")
    /\ call' = [call EXCEPT
         !.pc = IF pvc # Nothing /\ ~call.recreate THEN "serviceAccount"
                ELSE IF call.recreate THEN "deletePod" ELSE "claim",
         !.then = "claim",
         !.stage = IF pvc # Nothing /\ ~call.recreate /\ ~Phase("running") THEN "start" ELSE "run",
         !.options = IF pvc # Nothing /\ ~call.recreate THEN pvc ELSE wanted]
    /\ Quiet /\ UNCHANGED clusterVars

\* createPersistentVolumeClaim, when there is none: the only place that writes the
\* annotation.
CreatePersistentVolumeClaim ==
    /\ At("claim")
    /\ pvc' = IF pvc = Nothing THEN call.options ELSE pvc
    /\ Continue("serviceAccount")
    /\ Quiet /\ UNCHANGED <<pod, secrets, binding>>

\* runContainer: the service account and, with a cluster role, its binding ...
CreateServiceAccount ==
    /\ At("serviceAccount")
    /\ binding' = (binding \/ settings \in WithRole)
    /\ Continue("daemonSecret")
    /\ Quiet /\ UNCHANGED <<pvc, pod, secrets>>

\* ... the secret with the daemon's configuration, if there is one, which is replaced if
\* it differs ...
EnsureDaemonConfigSecret ==
    /\ At("daemonSecret")
    /\ secrets' \in {secrets, [secrets EXCEPT !.daemon = call.options]}
    /\ Continue("pullSecret")
    /\ Quiet /\ UNCHANGED <<pvc, pod, binding>>

\* ... the pull secret, if it is enabled and there are credentials for the registry ...
EnsurePullSecret ==
    /\ At("pullSecret")
    /\ \/ secrets' = secrets
       \/ settings \in NamesPullSecrets /\ secrets' = [secrets EXCEPT !.pull = call.options]
    /\ Continue("compare")
    /\ Quiet /\ UNCHANGED <<pvc, pod, binding>>

\* Where runContainer leads: StartDevContainer is followed by RunDevContainer.
RunContainerReturns ==
    call' = IF call.stage = "start"
            THEN [call EXCEPT !.pc = "serviceAccount", !.stage = "run"]
            ELSE [call EXCEPT !.pc = "done"]

\* optionsEqual: the options but for those that say where the pod is.
OptionsEqual == pod.settings = settings

\* ... and the pod: one that was made with the same provider options is kept,
\* whatever its phase.
ComparePod ==
    /\ At("compare")
    /\ IF pod # Nothing /\ OptionsEqual
       THEN RunContainerReturns
       ELSE call' = [call EXCEPT !.pc = IF pod = Nothing THEN "createPod" ELSE "deletePod",
                                 !.then = "createPod"]
    /\ Quiet /\ UNCHANGED clusterVars

\* What the pod is made of, with the provider's options in its annotation.
NewPod == [phase |-> "pending", options |-> call.options, settings |-> settings]

\* runPod: Create fails if a pod of that name is there.
RunPod ==
    /\ At("createPod")
    /\ IF pod # Nothing THEN K8sReturn /\ UNCHANGED pod
       ELSE /\ pod' = NewPod
            /\ Continue("waitRunning")
    /\ Quiet /\ UNCHANGED <<pvc, secrets, binding>>

-----------------------------------------------------------------------------
(* The waits *)

TimedOut == call.polls >= MaxPolls

Poll == call' = [call EXCEPT !.polls = @ + 1]

\* waitPodRunning: a pod that is gone ends the wait like one that runs; one that
\* has succeeded is deleted, one that failed is an error.
WaitPodRunning ==
    /\ At("waitRunning") /\ ~TimedOut
    /\ \/ (pod = Nothing \/ Phase("running")) /\ RunContainerReturns
       \/ (Phase("pending") \/ Phase("terminating")) /\ Poll
       \/ Phase("succeeded") /\ call' = [call EXCEPT !.pc = "deletePod", !.then = "waitRunning"]
       \/ Phase("failed") /\ K8sReturn
    /\ Quiet /\ UNCHANGED clusterVars

\* waitPodDeleted: the request, and the wait until the pod is gone.
DeletePod ==
    /\ At("deletePod")
    /\ IF pod = Nothing THEN Continue(call.then) /\ UNCHANGED pod
       ELSE pod' = [pod EXCEPT !.phase = "terminating"] /\ Continue("waitDeleted")
    /\ Quiet /\ UNCHANGED <<pvc, secrets, binding>>

\* Any error of the request is taken for a pod that is gone.
WaitPodDeleted ==
    /\ At("waitDeleted") /\ ~TimedOut
    /\ \/ pod = Nothing /\ Continue(call.then) /\ Quiet
       \/ pod # Nothing /\ Poll /\ Quiet
       \/ pod # Nothing /\ Unread("pod", call.then) /\ Refused
    /\ UNCHANGED clusterVars

WaitTimedOut ==
    /\ call.pc \in {"waitRunning", "waitDeleted"} /\ TimedOut
    /\ K8sReturn
    /\ Quiet /\ UNCHANGED clusterVars

-----------------------------------------------------------------------------
(* Delete, the end of a command, and the cluster *)

\* Mutant: the delete ends with the claim.
DeleteClaimOnly ==
    /\ At("deleteClaim")
    /\ pvc' = Nothing /\ Continue("done")
    /\ Quiet /\ UNCHANGED <<pod, secrets, binding>>

DeleteClaim ==
    /\ At("deleteClaim")
    /\ pvc' = Nothing /\ Continue("deleteBinding")
    /\ Quiet /\ UNCHANGED <<pod, secrets, binding>>

\* Only while the options still name a cluster role.
DeleteBinding ==
    /\ At("deleteBinding")
    /\ binding' = (binding /\ settings \notin WithRole) /\ Continue("deleteSecrets")
    /\ Quiet /\ UNCHANGED <<pvc, pod, secrets>>

\* DeleteSecret; secretExists is false for a secret that cannot be read, which is then left.
RemoveSecret(name, pc) ==
    \/ secrets' = [secrets EXCEPT ![name] = Nothing] /\ Continue(pc) /\ Quiet
    \/ secrets[name] # Nothing /\ Unread(name, pc) /\ Refused /\ UNCHANGED secrets

\* The daemon's secret, and the pull secret if the options still name it.
DeleteSecrets ==
    /\ \/ At("deleteSecrets") /\ RemoveSecret("daemon", "deletePull")
       \/ At("deletePull") /\ settings \in NamesPullSecrets /\ RemoveSecret("pull", "done")
       \/ At("deletePull") /\ settings \notin NamesPullSecrets /\ Continue("done") /\ Quiet /\ UNCHANGED secrets
    /\ UNCHANGED <<pvc, pod, binding>>

\* The command succeeded; the setup of an up needs a running pod.
K8sDone ==
    /\ At("done")
    /\ K8sReturn
    /\ Quiet /\ UNCHANGED clusterVars

\* A request fails where its error is returned, or the process is killed.
K8sFails ==
    /\ ~At("idle") /\ ~At("done") /\ Refused
    /\ K8sReturn
    /\ UNCHANGED clusterVars

\* Pods start, end, are evicted, and go when they are deleted.
PodChanges ==
    /\ pod # Nothing
    /\ \/ Phase("pending") /\ \E p \in {"running", "failed"} : pod' = [pod EXCEPT !.phase = p]
       \/ Phase("running") /\ \E p \in {"succeeded", "failed"} : pod' = [pod EXCEPT !.phase = p]
       \/ Phase("terminating") /\ pod' = Nothing
    /\ UNCHANGED <<pvc, secrets, binding, settings, wanted, call, calls, refusals>>

\* The user changes devcontainer.json or the provider's options.
UserChanges ==
    /\ At("idle")
    /\ wanted' \in Options /\ settings' \in Settings
    /\ UNCHANGED <<clusterVars, call, calls, refusals>>

K8sStep ==
    \/ K8sFind \/ CreatePersistentVolumeClaim \/ CreateServiceAccount
    \/ EnsureDaemonConfigSecret \/ EnsurePullSecret \/ ComparePod \/ RunPod
    \/ WaitPodRunning \/ DeletePod \/ WaitPodDeleted \/ WaitTimedOut
    \/ DeleteClaim \/ DeleteBinding \/ DeleteSecrets \/ K8sDone

K8sNext ==
    \/ \E op \in {"up", "stop", "delete"}, r \in BOOLEAN : K8sCall(op, r)
    \/ K8sStep \/ K8sFails \/ PodChanges \/ UserChanges

K8sSpec == K8sInit /\ [][K8sNext]_k8sVars

-----------------------------------------------------------------------------
(* Properties *)

\* A delete that succeeds leaves nothing of the workspace in the cluster, even after an
\* up that broke off or was killed at any request.  Except that it goes on, without an
\* error, over a secret it could not read, over a pod that is still terminating because
\* it could not be read, and over a role binding and a pull secret that its options no
\* longer name.
DeleteLeavesNothing ==
    At("done") /\ call.op = "delete" =>
        /\ pvc = Nothing /\ (binding => settings \notin WithRole)
        /\ pod # Nothing => Phase("terminating") /\ "pod" \in call.unread
        /\ secrets.daemon # Nothing => "daemon" \in call.unread
        /\ secrets.pull # Nothing => settings \notin NamesPullSecrets \/ "pull" \in call.unread

\* An up without --recreate takes a running pod down only if it was made with
\* other provider options: the processes of the user live on.
RunningPodKept ==
    [][Phase("running") /\ call.op = "up" /\ ~call.recreate /\ pod' # Nothing /\ pod'.phase = "terminating"
       => pod.settings # settings]_k8sVars

=============================================================================
