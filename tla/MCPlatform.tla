----------------------------- MODULE MCPlatform -----------------------------
(* The platform and the cluster from the client's side, one part at a time:   *)
(* the daemon of a pro provider, the watch it serves, the installation of the *)
(* platform, the Kubernetes driver, sleep mode and the clusters of a          *)
(* platform.  The parts that are not looked at were never begun, or are over, *)
(* and take no steps.                                                         *)
EXTENDS PlatformDaemon, WorkspaceWatcher, ProStart, KubernetesDriver, SleepMode, AddCluster

VARIABLE part   \* the part that is looked at

platformVars == <<part, daemonVars, watcherVars, startVars, k8sVars, sleepVars, addVars>>

WatcherOver ==
    /\ inst = [i \in Instances |-> [there |-> FALSE, mine |-> TRUE, version |-> 0]]
    /\ changes = 0 /\ transferred = {} /\ events = <<>>
    /\ store = <<>> /\ metrics = {} /\ started = FALSE
    /\ handler = [pc |-> "idle", list |-> NoList]
    /\ collector = [pc |-> "sync", list |-> NoList, pings |-> {}]
    /\ throttle = [pending |-> NoList, timer |-> FALSE, elapsed |-> TRUE]
    /\ timerList = NoList /\ shown = NoList /\ connected = FALSE /\ written = 0

K8sUnused ==
    K8sInit /\ settings = (CHOOSE s \in Settings : TRUE) /\ wanted = (CHOOSE o \in Options : TRUE)

SleepUnused == SleepInit /\ annotations = {}

PartInit ==
    /\ DaemonInit /\ StartInit /\ AddInit
    /\ IF part = "watch" THEN WatcherInit ELSE WatcherOver
    /\ IF part = "kubernetes" THEN K8sInit ELSE K8sUnused
    /\ IF part = "sleep" THEN SleepInit ELSE SleepUnused

PlatformInit ==
    part \in {"daemon", "watch", "start", "kubernetes", "sleep", "cluster"} /\ PartInit

PlatformNext ==
    /\ part' = part
    /\ \/ /\ part = "daemon" /\ PlatformDaemonNext
          /\ UNCHANGED <<watcherVars, startVars, k8sVars, sleepVars, addVars>>
       \/ /\ part = "watch" /\ WatcherNext
          /\ UNCHANGED <<daemonVars, startVars, k8sVars, sleepVars, addVars>>
       \/ /\ part = "start" /\ StartNext
          /\ UNCHANGED <<daemonVars, watcherVars, k8sVars, sleepVars, addVars>>
       \/ /\ part = "kubernetes" /\ K8sNext
          /\ UNCHANGED <<daemonVars, watcherVars, startVars, sleepVars, addVars>>
       \/ /\ part = "sleep" /\ SleepNext
          /\ UNCHANGED <<daemonVars, watcherVars, startVars, k8sVars, addVars>>
       \/ /\ part = "cluster" /\ AddNext
          /\ UNCHANGED <<daemonVars, watcherVars, startVars, k8sVars, sleepVars>>

PlatformSpec ==
    /\ PlatformInit /\ [][PlatformNext]_platformVars
    /\ DaemonFairness /\ WatcherFairness
=============================================================================
