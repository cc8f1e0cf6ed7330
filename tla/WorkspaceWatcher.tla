-------------------------- MODULE WorkspaceWatcher ---------------------------
(***************************************************************************)
(* /watch-workspaces of the local server (workspace_watcher.go and         *)
(* throttle in local_server.go): an informer's events keep a store of the  *)
(* user's workspace instances, a collector pings them, and both hand the   *)
(* list of the store to a throttle, which writes it to the client at most  *)
(* once per interval, the latest one when the interval is over.            *)
(*                                                                         *)
(* The handler of the events and the collector are two goroutines: the     *)
(* list is made under the lock of the store and given to the throttle      *)
(* under another; the timer of the throttle writes without its lock.       *)
(***************************************************************************)
EXTENDS Integers, Sequences, SequencesExt

CONSTANTS Instances,         \* names of workspace instances
          NoList,
          MaxPlatformChanges \* bound: changes on the platform

ASSUME WorkspaceWatcherAssumption == MaxPlatformChanges \in Nat

VARIABLES
    inst,      \* the platform: [there, mine, version] of every instance
    changes,
    transferred, \* history: instances whose owner has changed
    events,    \* events of the informer that its handler has not seen
    store,     \* instanceStore.instances: the version of each
    metrics,   \* the instances with samples in instanceStore.metrics
    started,
    handler, collector,   \* the two goroutines: [pc, list], with the pings under way
    throttle,  \* [pending, timer, elapsed]: what the closure of throttle keeps
    timerList, \* the list the timer's goroutine is about to write
    shown,     \* the list the client got last
    connected,
    written    \* history: calls of f since an interval was last over

platformSide == <<inst, changes, transferred>>
watcherVars == <<platformSide, events, store, metrics, started, handler, collector,
                 throttle, timerList, shown, connected, written>>

Event(type, i, v) == [type |-> type, i |-> i, mine |-> v.mine, version |-> v.version]

\* The informer lists what there is, in some order.
WatcherInit ==
    /\ inst \in [Instances -> {[there |-> FALSE, mine |-> TRUE, version |-> 0],
                               [there |-> TRUE, mine |-> TRUE, version |-> 1],
                               [there |-> TRUE, mine |-> FALSE, version |-> 1]}]
    /\ changes = 0 /\ transferred = {}
    /\ \E listed \in SetToSeqs({i \in Instances : inst[i].there}) :
          events = [n \in DOMAIN listed |-> Event("add", listed[n], inst[listed[n]])]
    /\ store = <<>> /\ metrics = {} /\ started = FALSE
    /\ handler = [pc |-> "idle", list |-> NoList]
    /\ collector = [pc |-> "sync", list |-> NoList, pings |-> {}]
    /\ throttle = [pending |-> NoList, timer |-> FALSE, elapsed |-> TRUE]
    /\ timerList = NoList /\ shown = NoList /\ connected = TRUE /\ written = 0

-----------------------------------------------------------------------------
(* The platform *)

Changes(i, v, type) ==
    /\ connected /\ changes < MaxPlatformChanges /\ changes' = changes + 1
    /\ inst' = [inst EXCEPT ![i] = v]
    /\ transferred' = IF v.mine # inst[i].mine THEN transferred \cup {i} ELSE transferred
    /\ events' = Append(events, Event(type, i, v))
    /\ UNCHANGED <<store, metrics, started, handler, collector, throttle, timerList, shown, connected, written>>

InstanceCreated(i) == ~inst[i].there
    /\ Changes(i, [inst[i] EXCEPT !.there = TRUE, !.version = @ + 1], "add")
InstanceUpdated(i) == inst[i].there
    /\ \E mine \in BOOLEAN : Changes(i, [inst[i] EXCEPT !.mine = mine, !.version = @ + 1], "update")
InstanceDeleted(i) == inst[i].there
    /\ Changes(i, [inst[i] EXCEPT !.there = FALSE], "delete")

-----------------------------------------------------------------------------
(* throttle *)

\* f: it writes if the client is still there.
Write(list) == shown' = IF connected THEN list ELSE shown

\* The function throttle returns: an immediate call, or the list is kept, for the
\* timer that is set or that is set now.
OnChange(list) ==
    \/ /\ ~throttle.timer /\ throttle.elapsed
       /\ throttle' = [throttle EXCEPT !.elapsed = FALSE]
       /\ Write(list) /\ written' = written + 1
    \/ /\ throttle.timer \/ ~throttle.elapsed
       /\ throttle' = [throttle EXCEPT !.pending = list, !.timer = TRUE]
       /\ UNCHANGED <<shown, written>>

\* The timer's goroutine takes the list under the lock ...
TimerFires ==
    /\ throttle.timer /\ throttle.elapsed /\ timerList = NoList
    /\ timerList' = throttle.pending
    /\ throttle' = [pending |-> NoList, timer |-> FALSE, elapsed |-> FALSE]
    /\ written' = written + 1

TimerTakes ==
    /\ TimerFires
    /\ UNCHANGED <<platformSide, events, store, metrics, started, handler, collector, shown, connected>>

\* ... and calls f without it.
TimerWrites ==
    /\ timerList # NoList /\ timerList' = NoList
    /\ Write(timerList)
    /\ UNCHANGED <<platformSide, events, store, metrics, started, handler, collector, throttle, connected, written>>

\* The interval since the last call is over.
IntervalOver ==
    /\ connected /\ ~throttle.elapsed
    /\ throttle' = [throttle EXCEPT !.elapsed = TRUE] /\ written' = 0
    /\ UNCHANGED <<platformSide, events, store, metrics, started, handler, collector, timerList, shown, connected>>

-----------------------------------------------------------------------------
(* The event handlers and the store *)

\* instanceStore.Add, also called by Update, which looks at the new owner itself.
Add(e) == store' = IF e.mine THEN (e.i :> e.version) @@ store ELSE store

\* Mutant: the instance itself is forgotten only with its metrics.
DeleteWithMetrics(e) ==
    /\ store' = IF e.mine /\ e.i \in metrics THEN Restrict(store, DOMAIN store \ {e.i}) ELSE store
    /\ metrics' = IF e.mine THEN metrics \ {e.i} ELSE metrics

\* instanceStore.Delete, with the owner the instance had at the end.
Delete(e) ==
    /\ store' = IF e.mine THEN Restrict(store, DOMAIN store \ {e.i}) ELSE store
    /\ metrics' = IF e.mine THEN metrics \ {e.i} ELSE metrics

HandleEvent ==
    /\ connected /\ handler.pc = "idle" /\ events # <<>>
    /\ LET e == Head(events) IN
         \/ e.type = "add" /\ Add(e) /\ UNCHANGED metrics
         \/ e.type = "update" /\ e.mine /\ Add(e) /\ UNCHANGED metrics
         \/ e.type = "update" /\ ~e.mine /\ UNCHANGED <<store, metrics>>
         \/ e.type = "delete" /\ Delete(e)
    /\ events' = Tail(events)
    /\ handler' = [handler EXCEPT !.pc = "stored"]
    /\ UNCHANGED <<platformSide, started, collector, throttle, timerList, shown, connected, written>>

\* if started.Load() { onChange(instanceStore.List()) }
HandlerLists ==
    /\ connected /\ handler.pc = "stored"
    /\ handler' = IF started THEN [pc |-> "listed", list |-> store]
                  ELSE [handler EXCEPT !.pc = "idle"]
    /\ UNCHANGED <<platformSide, events, store, metrics, started, collector, throttle, timerList,
                   shown, connected, written>>

HandlerCalls ==
    /\ connected /\ handler.pc = "listed"
    /\ OnChange(handler.list)
    /\ handler' = [pc |-> "idle", list |-> NoList]
    /\ UNCHANGED <<platformSide, events, store, metrics, started, collector, timerList, connected>>

-----------------------------------------------------------------------------
(* The collector: WaitForCacheSync, the initial message and collectWorkspaceMetrics *)

CollectorStep(pc) == collector' = [collector EXCEPT !.pc = pc]

\* The cache has synced when the informer has the list; the handler may lag.
CacheSynced ==
    /\ connected /\ collector.pc = "sync"
    /\ started' = TRUE /\ CollectorStep("kick")
    /\ UNCHANGED <<platformSide, events, store, metrics, handler, throttle, timerList, shown, connected, written>>

CollectorLists ==
    /\ connected /\ collector.pc \in {"kick", "pinged"} /\ collector.pings = {}
    /\ collector' = [collector EXCEPT !.list = store,
                        !.pc = IF @ = "kick" THEN "kickListed" ELSE "listed"]
    /\ UNCHANGED <<platformSide, events, store, metrics, started, handler, throttle, timerList,
                   shown, connected, written>>

CollectorCalls ==
    /\ connected /\ collector.pc \in {"kickListed", "listed"}
    /\ OnChange(collector.list)
    /\ collector' = [collector EXCEPT !.list = NoList,
                        !.pc = IF @ = "kickListed" THEN "update" ELSE "wait"]
    /\ UNCHANGED <<platformSide, events, store, metrics, started, handler, timerList, connected>>

\* updateWorkspaceLatencies: a goroutine for every peer that is in the store; without
\* tailscale status there is none.
UpdateWorkspaceLatencies ==
    /\ connected /\ collector.pc = "update"
    /\ \E peers \in SUBSET DOMAIN store :
          collector' = [collector EXCEPT !.pc = "pinged", !.pings = peers]
    /\ UNCHANGED <<platformSide, events, store, metrics, started, handler, throttle, timerList,
                   shown, connected, written>>

\* An answer adds a sample, also for an instance that is no longer in the store.
Pinged(i) ==
    /\ connected /\ i \in collector.pings
    /\ collector' = [collector EXCEPT !.pings = @ \ {i}]
    /\ \E answered \in BOOLEAN : metrics' = IF answered THEN metrics \cup {i} ELSE metrics
    /\ UNCHANGED <<platformSide, events, store, started, handler, throttle, timerList,
                   shown, connected, written>>

Tick ==
    /\ connected /\ collector.pc = "wait"
    /\ CollectorStep("update")
    /\ UNCHANGED <<platformSide, events, store, metrics, started, handler, throttle, timerList,
                   shown, connected, written>>

\* The context of the request is done: informer and collector stop, the store goes; a
\* timer that is set still runs.
ClientLeaves ==
    /\ connected /\ connected' = FALSE
    /\ events' = <<>> /\ store' = <<>> /\ metrics' = {}
    /\ handler' = [pc |-> "idle", list |-> NoList]
    /\ collector' = [pc |-> "done", list |-> NoList, pings |-> {}]
    /\ UNCHANGED <<platformSide, started, throttle, timerList, shown, written>>

-----------------------------------------------------------------------------
WatcherRuns ==
    \/ HandleEvent \/ HandlerLists \/ HandlerCalls
    \/ CacheSynced \/ CollectorLists \/ CollectorCalls \/ UpdateWorkspaceLatencies
    \/ \E i \in Instances : Pinged(i)

WatcherNext ==
    \/ WatcherRuns \/ TimerTakes \/ TimerWrites \/ IntervalOver \/ Tick \/ ClientLeaves
    \/ \E i \in Instances : InstanceCreated(i) \/ InstanceUpdated(i) \/ InstanceDeleted(i)

\* Goroutines run, timers fire; neither a change nor a leaving client is promised.
WatcherFairness ==
    /\ WF_watcherVars(HandleEvent) /\ WF_watcherVars(HandlerLists) /\ WF_watcherVars(HandlerCalls)
    /\ WF_watcherVars(CacheSynced) /\ WF_watcherVars(CollectorLists) /\ WF_watcherVars(CollectorCalls)
    /\ WF_watcherVars(UpdateWorkspaceLatencies) /\ WF_watcherVars(\E i \in Instances : Pinged(i))
    /\ WF_watcherVars(TimerTakes) /\ WF_watcherVars(TimerWrites)
    /\ WF_watcherVars(IntervalOver) /\ WF_watcherVars(Tick)

WatcherSpec == WatcherInit /\ [][WatcherNext]_watcherVars /\ WatcherFairness

-----------------------------------------------------------------------------
\* What a client that watches is to see; an instance that has changed owner is left
\* out (Update and Delete ignore what is not the user's, so it stays in the store).
ShownIsPlatform ==
    /\ shown # NoList
    /\ \A i \in Instances \ transferred :
          IF inst[i].there /\ inst[i].mine
          THEN i \in DOMAIN shown /\ shown[i] = inst[i].version
          ELSE i \notin DOMAIN shown

\* However the handler, the collector and the timer of throttle interleave, a client
\* that stays is in the end shown the user's instances as the platform has them.
ListConverges == <>[](ShownIsPlatform \/ ~connected)

\* "f is called at most once every interval" (local_server.go, throttle).
AtMostOncePerInterval == written <= 1

\* The default filter shows no instance of another user: what is shown was the user's
\* own at some time.
OnlyOwnShown == shown # NoList =>
    \A i \in DOMAIN shown : inst[i].mine \/ i \in transferred
==============================================================================
