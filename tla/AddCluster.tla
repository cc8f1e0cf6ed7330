----------------------------- MODULE AddCluster -----------------------------
(***************************************************************************)
(* devpod pro add cluster (cmd/pro/add/cluster.go): registers a cluster at *)
(* the platform, installs the agent with helm in a goroutine, waits for    *)
(* its pod meanwhile and then for the result of helm.  The goroutine and   *)
(* the main one assign the same variable err, a data race.  A failed or    *)
(* killed command is run again.                                            *)
(***************************************************************************)
EXTENDS Integers

CONSTANTS MaxAdds, MaxPodPolls, MaxClusterPolls

ASSUME AddClusterAssumption ==
    {MaxAdds, MaxPodPolls, MaxClusterPolls} \subseteq Nat

VARIABLES cluster,    \* the cluster object: "none", "created", "initialized"
          chart,      \* the helm release in the cluster: "none" or "installed"
          agentPod,   \* the agent's pod: "none", "starting", "ready", "broken"
          helm,       \* the goroutine: "none", "running", "ran", "failed", "closed"
          adding,     \* the main goroutine
          errVar,     \* the variable err, as the end of the command will see it
          waited,     \* what WaitForPodReady returned
          raced,      \* one goroutine overwrote err before the other had read it
          adds

addVars == <<cluster, chart, agentPod, helm, adding, errVar, waited, raced, adds>>

AddInit ==
    /\ cluster = "none" /\ chart = "none" /\ agentPod = "none" /\ helm = "none"
    /\ adding = [pc |-> "idle", wait |-> FALSE, polls |-> 0, helmError |-> FALSE]
    /\ errVar = FALSE /\ waited = FALSE /\ raced = FALSE /\ adds = 0

Adding(pc) == adding.pc = pc
AddGoto(pc) == adding' = [adding EXCEPT !.pc = pc, !.polls = 0]

AddStart(wait) ==
    /\ adding.pc \in {"idle", "failed", "added"} /\ adds < MaxAdds
    /\ adds' = adds + 1
    /\ adding' = [pc |-> "create", wait |-> wait, polls |-> 0, helmError |-> FALSE]
    /\ helm' = "none" /\ errVar' = FALSE /\ waited' = FALSE /\ raced' = FALSE
    /\ UNCHANGED <<cluster, chart, agentPod>>

\* A cluster that exists already is not an error, so the command can be repeated.
CreateCluster ==
    /\ Adding("create")
    /\ \/ cluster' = (IF cluster = "none" THEN "created" ELSE cluster) /\ AddGoto("key")
       \/ cluster' = cluster /\ AddGoto("failed")
    /\ UNCHANGED <<chart, agentPod, helm, errVar, waited, raced, adds>>

\* The access key, the helm arguments and the kube client; then the goroutine starts.
GetAccessKey ==
    /\ Adding("key")
    /\ \/ helm' = "running" /\ AddGoto("pod")
       \/ helm' = helm /\ AddGoto("failed")
    /\ UNCHANGED <<cluster, chart, agentPod, errVar, waited, raced, adds>>

\* err = helmCmd.Run(), the err of the main goroutine.
HelmRuns ==
    /\ helm = "running" /\ helm' = "ran"
    /\ \/ /\ chart' = "installed" /\ errVar' = FALSE
          /\ agentPod' = IF agentPod = "none" THEN "starting" ELSE agentPod
       \/ errVar' = TRUE /\ UNCHANGED <<chart, agentPod>>
    /\ raced' = (raced \/ Adding("helm"))
    /\ UNCHANGED <<cluster, adding, waited, adds>>

\* if err != nil: the error is sent, else the channel closed.
HelmReports ==
    /\ helm = "ran"
    /\ helm' = IF errVar THEN "failed" ELSE "closed"
    /\ UNCHANGED <<cluster, chart, agentPod, adding, errVar, waited, raced, adds>>

\* helm upgrade --install without --wait creates the pod before it ends.
PodAppears ==
    /\ helm = "running" /\ agentPod = "none" /\ agentPod' = "starting"
    /\ UNCHANGED <<cluster, chart, helm, adding, errVar, waited, raced, adds>>

AgentPodChanges ==
    /\ \/ agentPod \in {"starting", "broken"} /\ agentPod' \in {"ready", "broken"} \ {agentPod}
       \/ agentPod = "ready" /\ agentPod' = "starting"
    /\ UNCHANGED <<cluster, chart, helm, adding, errVar, waited, raced, adds>>

ClusterInitialized ==
    /\ cluster = "created" /\ agentPod = "ready" /\ cluster' = "initialized"
    /\ UNCHANGED <<chart, agentPod, helm, adding, errVar, waited, raced, adds>>

\* WaitForPodReady: a broken container is an error, a missing pod is polled for up to
\* the timeout.
PollPod ==
    /\ Adding("pod")
    /\ \/ /\ agentPod \in {"none", "starting"} /\ adding.polls < MaxPodPolls
          /\ adding' = [adding EXCEPT !.polls = @ + 1] /\ UNCHANGED <<waited, errVar, raced>>
       \/ /\ agentPod \in {"ready", "broken"} \/ adding.polls = MaxPodPolls
          /\ waited' = (agentPod = "ready") /\ errVar' = ~waited' /\ AddGoto("helm")
          /\ raced' = (raced \/ helm = "ran")
    /\ UNCHANGED <<cluster, chart, agentPod, helm, adds>>

\* Mutant: a failed helm closes the channel without a word.
ReceiveHelmSilently ==
    /\ Adding("helm") /\ helm \in {"failed", "closed"}
    /\ adding' = [adding EXCEPT !.pc = "join", !.helmError = FALSE]
    /\ helm' = "closed"
    /\ errVar' = (errVar /\ helm # "failed")
    /\ UNCHANGED <<cluster, chart, agentPod, waited, raced, adds>>

\* <-errChan: the unbuffered channel hands over the error or is closed.
ReceiveHelm ==
    /\ Adding("helm") /\ helm \in {"failed", "closed"}
    /\ adding' = [adding EXCEPT !.pc = "join", !.helmError = helm = "failed"]
    /\ helm' = "closed"
    /\ UNCHANGED <<cluster, chart, agentPod, errVar, waited, raced, adds>>

\* errors.Join(err, <-errChan): err may be read before or after the goroutine wrote it.
Join ==
    /\ Adding("join")
    /\ \E err \in {errVar, ~waited} :
          IF err \/ adding.helmError THEN AddGoto("failed")
          ELSE AddGoto(IF adding.wait THEN "cluster" ELSE "added")
    /\ UNCHANGED <<cluster, chart, agentPod, helm, errVar, waited, raced, adds>>

\* --wait: until the platform has initialized the cluster.
PollCluster ==
    /\ Adding("cluster")
    /\ \/ cluster = "initialized" /\ AddGoto("added")
       \/ cluster # "initialized" /\ adding.polls < MaxClusterPolls /\ adding' = [adding EXCEPT !.polls = @ + 1]
       \/ AddGoto("failed")
    /\ UNCHANGED <<cluster, chart, agentPod, helm, errVar, waited, raced, adds>>

\* The process dies, helm (CommandContext) with it; the chart may have been installed.
KillAdd ==
    /\ adding.pc \notin {"idle", "failed", "added"}
    /\ adding' = [adding EXCEPT !.pc = "idle"]
    /\ helm' = "none"
    /\ chart' \in IF helm = "running" THEN {chart, "installed"} ELSE {chart}
    /\ UNCHANGED <<cluster, agentPod, errVar, waited, raced, adds>>

AddSteps == CreateCluster \/ GetAccessKey \/ PollPod \/ ReceiveHelm \/ Join \/ PollCluster

AddNext ==
    \/ \E wait \in BOOLEAN : AddStart(wait)
    \/ AddSteps \/ HelmRuns \/ HelmReports \/ PodAppears \/ AgentPodChanges \/ ClusterInitialized \/ KillAdd

AddSpec == AddInit /\ [][AddNext]_addVars

-----------------------------------------------------------------------------
Added == adding.pc = "added"

\* "Successfully added cluster" is said only if helm installed the agent, its pod was
\* seen ready, the cluster is registered and, with --wait, initialized, whichever of
\* the two goroutines is ahead and however often the command was repeated, unless one
\* overwrites the err of the other.
AddedIsReady ==
    Added /\ ~raced => /\ chart = "installed" /\ waited /\ ~adding.helmError
                       /\ cluster # "none"
                       /\ adding.wait => cluster = "initialized"

=============================================================================
