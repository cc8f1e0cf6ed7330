-------------------------- MODULE WorkspaceCommands --------------------------
(***************************************************************************)
(* The devpod commands that create, use, stop and delete workspaces and    *)
(* machines, as processes on one host that share the folders under         *)
(* ~/.devpod, the lock files and the provider.  up and build resolve the   *)
(* workspace before they lock it; delete --force and the machine commands  *)
(* take no lock at all.  Every file access and every provider command is a *)
(* step of its own, any provider command may fail and any process may be   *)
(* killed, at most MaxFaults times.                                        *)
(***************************************************************************)
EXTENDS WorkspaceLock, Naturals, FiniteSets

CONSTANTS Kinds,          \* provider kinds: "none", "own" (a machine each), "single"
          Commands,       \* the commands that may be started
          SingleMachine,  \* the machine of a single machine provider, or one a user names
          Existing,       \* workspaces that exist at the start
          NoConfig,       \* no readable workspace.json
          MaxFaults,      \* bound: failing provider commands and killed processes
          MaxActive       \* bound: commands running at the same time

ASSUME CommandsAssumption ==
    /\ Kinds \subseteq {"none", "own", "single"} /\ SingleMachine \in Machines
    /\ IsFiniteSet(Procs) /\ MaxFaults \in Nat /\ MaxActive \in Nat
    /\ Existing \subseteq Workspaces
    /\ \E f \in [Existing -> Machines] : \A v, w \in Existing : f[v] = f[w] => v = w
    /\ NoConfig \notin [uid : Procs \cup {NoProc}, machine : Machines \cup {NoMachine}, autoDelete : BOOLEAN]

VARIABLES
    kind,           \* the kind of the default provider
    wsConfig,       \* workspaces/<id>/workspace.json
    wsResult,       \* workspaces that have a workspace_result.json
    machineFolder,  \* machines that have a machines/<id>/machine.json
    machine,        \* what the provider's status command answers
    container,      \* <<workspace, machine>> -> state of the dev container
    pc, cmd, tgt, tgtMachine, \* each process: place, command, arguments
    cfg,            \* the workspace config in memory
    existed,        \* build: what Exists said before Resolve
    faults

diskVars == <<wsConfig, wsResult, machineFolder>>
cloudVars == <<machine, container>>
argVars == <<cmd, tgt, tgtMachine>>
vars == <<lockVars, kind, diskVars, cloudVars, pc, argVars, cfg, existed, faults>>

Places == Machines \cup {NoMachine}

Config(p, m, auto) == [uid |-> p, machine |-> m, autoDelete |-> auto]

ExistingMachine == CHOOSE f \in [Existing -> Machines] :
                      \A v, w \in Existing : f[v] = f[w] => v = w

ExistingConfig(k, w) ==
    CASE k = "none"   -> Config(NoProc, NoMachine, FALSE)
      [] k = "single" -> Config(NoProc, SingleMachine, FALSE)
      [] k = "own"    -> Config(NoProc, ExistingMachine[w], TRUE)

Init ==
    /\ LockInit
    /\ kind \in Kinds
    /\ wsConfig = [w \in Workspaces |-> IF w \in Existing THEN ExistingConfig(kind, w) ELSE NoConfig]
    /\ wsResult = Existing
    /\ machineFolder = {wsConfig[w].machine : w \in Existing} \ {NoMachine}
    /\ machine = [m \in Machines |-> IF m \in machineFolder THEN "Running" ELSE "NotFound"]
    /\ container = [c \in Workspaces \X Places |->
          IF c[1] \in Existing /\ wsConfig[c[1]].machine = c[2] THEN "running" ELSE "none"]
    /\ pc = [p \in Procs |-> "idle"]
    /\ cmd = [p \in Procs |-> "none"]
    /\ tgt = lockWs
    /\ \A p, q \in Procs : lockWs[p] = lockWs[q]
    /\ tgtMachine = [p \in Procs |-> NoMachine]
    /\ cfg = [p \in Procs |-> NoConfig]
    /\ existed = [p \in Procs |-> FALSE]
    /\ faults = 0

-----------------------------------------------------------------------------
(* Helpers *)

Goto(p, l) == pc' = [pc EXCEPT ![p] = l]

Ws(p) == tgt[p]
Mach(p) == cfg[p].machine
Here(p) == <<Ws(p), Mach(p)>>

Fault == faults < MaxFaults /\ faults' = faults + 1

\* A locked command unlocks by defer; build then runs its deferred delete, if it
\* has registered one; every other command ends.
AfterRun(p) == IF cmd[p] = "build" /\ ~existed[p] THEN "buildDelete" ELSE "exit"
Return(p) == IF lockPc[p] = "held" THEN "unlock" ELSE "exit"

\* List of the local workspaces: the ids whose workspace.json can be loaded.
Listed == {w \in Workspaces : wsConfig[w] # NoConfig}

UsersOf(m) == {w \in Listed : wsConfig[w].machine = m}

\* workspaceClient.Status without ContainerStatus.
Status(p) ==
    IF Mach(p) # NoMachine THEN machine[Mach(p)]
    ELSE IF Ws(p) \in Listed \cup wsResult THEN "Running" ELSE "NotFound"

\* The provider's command reaches the host the agent runs on (isMachineRunning).
Reachable(p) == IF Mach(p) = NoMachine THEN TRUE ELSE machine[Mach(p)] = "Running"

\* DeleteWorkspaceFolder: the ssh config entry and the whole folder.
DeleteWorkspaceFolder(w) ==
    /\ wsConfig' = [wsConfig EXCEPT ![w] = NoConfig]
    /\ wsResult' = wsResult \ {w}
    /\ UNCHANGED machineFolder

SaveWorkspaceConfig(w, c) ==
    /\ wsConfig' = [wsConfig EXCEPT ![w] = c]
    /\ UNCHANGED <<wsResult, machineFolder>>

IsSingle(p) == kind = "single" /\ Mach(p) = SingleMachine

\* Stop and Delete of the workspace client act on the container unless the
\* machine belongs to this workspace alone.
JustContainer(p) == Mach(p) = NoMachine \/ ~cfg[p].autoDelete

\* A machine id of CreateNewUIDShort that nothing refers to.
FreshMachine(m) ==
    /\ m # SingleMachine /\ m \notin machineFolder /\ machine[m] = "NotFound"
    /\ \A w \in Listed : wsConfig[w].machine # m
    /\ \A q \in Procs : lockMachine[q] # m /\ (cfg[q] # NoConfig => cfg[q].machine # m)

-----------------------------------------------------------------------------
(* Starting a command *)

WorkspaceCommand == {"up", "build", "stop", "delete", "forceDelete"}
MachineCommand == {"machineCreate", "machineStart", "machineStop", "machineDelete"}

ASSUME KnownCommands == Commands \subseteq WorkspaceCommand \cup MachineCommand

Start(p) ==
    /\ pc[p] = "idle"
    /\ Cardinality({q \in Procs : pc[q] \notin {"idle", "done"}}) < MaxActive
    /\ \E c \in Commands :
        /\ cmd' = [cmd EXCEPT ![p] = c]
        /\ \/ /\ c \in WorkspaceCommand
              /\ \E w \in Workspaces : tgt' = [tgt EXCEPT ![p] = w]
              /\ \E m \in (IF c \in {"up", "build"} /\ kind = "own" THEN machineFolder ELSE {}) \cup {NoMachine} :
                    tgtMachine' = [tgtMachine EXCEPT ![p] = m]
              /\ Goto(p, CASE c = "up" -> "resolve" [] c = "build" -> "buildExists" [] OTHER -> "get")
              /\ UNCHANGED cfg
           \/ /\ c \in MachineCommand /\ kind # "none"
              /\ \E m \in (IF c = "machineCreate" THEN {SingleMachine} ELSE machineFolder) : cfg' = [cfg EXCEPT ![p] = Config(NoProc, m, FALSE)]
              /\ Goto(p, IF c = "machineCreate" THEN "machineResolve" ELSE "machineGet")
              /\ UNCHANGED <<tgt, tgtMachine>>
    /\ UNCHANGED <<lockVars, kind, diskVars, cloudVars, existed, faults>>

-----------------------------------------------------------------------------
(* workspace.Resolve: everything up and build do before they lock *)

\* build: exists := Exists(...)
BuildExists(p) ==
    /\ pc[p] = "buildExists"
    /\ existed' = [existed EXCEPT ![p] = Ws(p) \in Listed]
    /\ Goto(p, "resolve")
    /\ UNCHANGED <<lockVars, kind, diskVars, cloudVars, argVars, cfg, faults>>

\* resolveWorkspace: load the workspace if Exists finds it, else create it.
ResolveWorkspace(p) ==
    /\ pc[p] = "resolve"
    /\ Goto(p, IF Ws(p) \in Listed THEN "load" ELSE "create")
    /\ UNCHANGED <<lockVars, kind, diskVars, cloudVars, argVars, cfg, existed, faults>>

\* Get: findWorkspace, then loadExistingWorkspace.
GetWorkspace(p) ==
    /\ pc[p] = "get"
    /\ Goto(p, IF Ws(p) \in Listed THEN "load"
               ELSE IF cmd[p] = "stop" THEN "exit" ELSE "loadFailed")
    /\ UNCHANGED <<lockVars, kind, diskVars, cloudVars, argVars, cfg, existed, faults>>

\* loadExistingWorkspace reads workspace.json.  Only up changes the time of use.
LoadWorkspaceConfig(p) ==
    /\ pc[p] = "load"
    /\ \/ /\ Ws(p) \in Listed
          /\ cfg' = [cfg EXCEPT ![p] = wsConfig[Ws(p)]]
          /\ Goto(p, IF cmd[p] = "up" THEN "touch" ELSE "loadMachine")
       \/ /\ Ws(p) \notin Listed
          /\ Goto(p, IF cmd[p] \in {"delete", "forceDelete"} THEN "loadFailed" ELSE "exit")
          /\ UNCHANGED cfg
    /\ UNCHANGED <<lockVars, kind, diskVars, cloudVars, argVars, existed, faults>>

\* ... saves it with a new LastUsedTimestamp ...
ChangeLastUsed(p) ==
    /\ pc[p] = "touch"
    /\ SaveWorkspaceConfig(Ws(p), cfg[p])
    /\ Goto(p, "loadMachine")
    /\ UNCHANGED <<lockVars, kind, cloudVars, argVars, cfg, existed, faults>>

\* ... and reads machine.json of the machine it names.
LoadMachineConfig(p) ==
    /\ pc[p] = "loadMachine"
    /\ Goto(p, IF Mach(p) \in machineFolder \cup {NoMachine}
               THEN CASE cmd[p] \in {"up", "build"} -> "configure"
                      [] cmd[p] \in {"stop", "delete"} -> "lock"
                      [] cmd[p] = "forceDelete" -> "deleteSingle"
               ELSE IF cmd[p] \in {"delete", "forceDelete"} THEN "loadFailed" ELSE "exit")
    /\ UNCHANGED <<lockVars, kind, diskVars, cloudVars, argVars, cfg, existed, faults>>

\* createWorkspace up to SaveWorkspaceConfig.  A machine asked for with --machine
\* must exist; a failure removes the workspace folder, whoever's it is.
CreateWorkspace(p) ==
    /\ pc[p] = "create"
    /\ \/ /\ tgtMachine[p] # NoMachine /\ tgtMachine[p] \notin machineFolder
          /\ Goto(p, "cleanup")
          /\ UNCHANGED <<cfg, diskVars>>
       \/ \E m \in Places, auto \in BOOLEAN :
          /\ IF tgtMachine[p] # NoMachine
             THEN m = tgtMachine[p] /\ m \in machineFolder /\ ~auto
             ELSE \/ kind = "none" /\ m = NoMachine /\ ~auto
                  \/ kind = "single" /\ m = SingleMachine /\ ~auto
                  \/ kind = "own" /\ m \in Machines /\ FreshMachine(m) /\ auto
          /\ cfg' = [cfg EXCEPT ![p] = Config(p, m, auto)]
          /\ SaveWorkspaceConfig(Ws(p), Config(p, m, auto))
          /\ Goto(p, IF m = NoMachine THEN "configure"
                     ELSE IF tgtMachine[p] # NoMachine THEN "reuse" ELSE "machineExists")
    /\ UNCHANGED <<lockVars, kind, cloudVars, argVars, existed, faults>>

\* "only create machine if it does not exist yet"
MachineExists(p) ==
    /\ pc[p] = "machineExists"
    /\ Goto(p, IF Mach(p) \in machineFolder THEN "reuse" ELSE "createMachine")
    /\ UNCHANGED <<lockVars, kind, diskVars, cloudVars, argVars, cfg, existed, faults>>

\* Reuse of an existing machine: LoadMachineConfig.
ReuseMachine(p) ==
    /\ pc[p] = "reuse"
    /\ Goto(p, IF Mach(p) \in machineFolder THEN "configure" ELSE "cleanup")
    /\ UNCHANGED <<lockVars, kind, diskVars, cloudVars, argVars, cfg, existed, faults>>

\* createMachine: the machine folder is written before the machine exists.
CreateMachineFolder(p) ==
    /\ pc[p] = "createMachine"
    /\ machineFolder' = machineFolder \cup {Mach(p)}
    /\ Goto(p, "machineOptions")
    /\ UNCHANGED <<lockVars, kind, wsConfig, wsResult, cloudVars, argVars, cfg, existed, faults>>

\* RefreshOptions of the new machine reloads its folder and resolves the options,
\* which runs commands that may fail.
RefreshMachineOptions(p) ==
    /\ pc[p] = "machineOptions"
    /\ \/ /\ Mach(p) \in machineFolder
          /\ Goto(p, "providerCreate")
          /\ UNCHANGED faults
       \/ /\ IF Mach(p) \in machineFolder THEN Fault ELSE UNCHANGED faults
          /\ Goto(p, IF cmd[p] = "machineCreate" THEN "exit" ELSE "cleanupMachine")
    /\ UNCHANGED <<lockVars, kind, diskVars, cloudVars, argVars, cfg, existed>>

\* The error paths of createWorkspace: DeleteMachineFolder, DeleteWorkspaceFolder.
CleanupMachine(p) ==
    /\ pc[p] = "cleanupMachine"
    /\ machineFolder' = machineFolder \ {Mach(p)}
    /\ Goto(p, "cleanup")
    /\ UNCHANGED <<lockVars, kind, wsConfig, wsResult, cloudVars, argVars, cfg, existed, faults>>

CleanupWorkspace(p) ==
    /\ pc[p] = "cleanup"
    /\ DeleteWorkspaceFolder(Ws(p))
    /\ Goto(p, "exit")
    /\ UNCHANGED <<lockVars, kind, cloudVars, argVars, cfg, existed, faults>>

\* RefreshIDEOptions and the dev container flags save the config if it changes.
Configure(p) ==
    /\ pc[p] = "configure"
    /\ SaveWorkspaceConfig(Ws(p), cfg[p]) \/ UNCHANGED diskVars
    /\ Goto(p, "refresh")
    /\ UNCHANGED <<lockVars, kind, cloudVars, argVars, cfg, existed, faults>>

\* client.RefreshOptions: reload machine.json (or workspace.json, without a
\* machine), resolve the options, which runs commands that may fail ...
RefreshOptions(p) ==
    /\ pc[p] = "refresh"
    /\ LET found == IF Mach(p) = NoMachine THEN Ws(p) \in Listed ELSE Mach(p) \in machineFolder IN
       \/ /\ found
          /\ cfg' = [cfg EXCEPT ![p] = IF Mach(p) = NoMachine THEN wsConfig[Ws(p)] ELSE @]
          /\ Goto(p, "saveOptions")
          /\ UNCHANGED faults
       \/ /\ IF found THEN Fault ELSE UNCHANGED faults
          /\ Goto(p, "exit")
          /\ UNCHANGED cfg
    /\ UNCHANGED <<lockVars, kind, diskVars, cloudVars, argVars, existed>>

\* ... and write it back if an option changed.
SaveOptions(p) ==
    /\ pc[p] = "saveOptions"
    /\ \/ UNCHANGED diskVars
       \/ /\ Mach(p) # NoMachine
          /\ machineFolder' = machineFolder \cup {Mach(p)}
          /\ UNCHANGED <<wsConfig, wsResult>>
       \/ /\ Mach(p) = NoMachine
          /\ SaveWorkspaceConfig(Ws(p), cfg[p])
    /\ Goto(p, "lock")
    /\ UNCHANGED <<lockVars, kind, cloudVars, argVars, cfg, existed, faults>>

-----------------------------------------------------------------------------
(* Locking *)

TakeLocks(p) ==
    \/ /\ pc[p] = "lock"
       /\ Lock(p, Ws(p), Mach(p))
       /\ Goto(p, "locking")
    \/ /\ pc[p] = "locking"
       /\ LockWorkspace(p) \/ LockMachine(p)
       /\ Goto(p, IF lockPc'[p] = "held" THEN "status" ELSE "locking")
    \/ /\ pc[p] = "locking"
       /\ LockFails(p)
       /\ Goto(p, AfterRun(p))

AcquireLocks(p) ==
    /\ TakeLocks(p)
    /\ UNCHANGED <<kind, diskVars, cloudVars, argVars, cfg, existed, faults>>

ReleaseLocks(p) ==
    /\ pc[p] = "unlock"
    /\ \/ UnlockMachine(p) /\ UNCHANGED pc
       \/ UnlockWorkspace(p) /\ Goto(p, AfterRun(p))
    /\ UNCHANGED <<kind, diskVars, cloudVars, argVars, cfg, existed, faults>>

\* The process ends; what a failed Lock left locked goes with it.
ExitProcess(p) ==
    /\ pc[p] = "exit"
    /\ Goto(p, "done")
    /\ IF lockPc[p] = "idle" THEN UNCHANGED lockVars ELSE Exit(p)
    /\ cfg' = [cfg EXCEPT ![p] = NoConfig]
    /\ UNCHANGED <<kind, diskVars, cloudVars, argVars, existed, faults>>

\* The process is killed.  A create command it ran may still succeed or not.
Crash(p) ==
    /\ pc[p] \notin {"idle", "done", "exit"}
    /\ Fault
    /\ Goto(p, "done")
    /\ IF lockPc[p] = "idle" THEN UNCHANGED lockVars ELSE Exit(p)
    /\ cfg' = [cfg EXCEPT ![p] = NoConfig]
    /\ IF pc[p] = "creating"
       THEN \E s \in {"Running", "NotFound"} :
              machine' = [machine EXCEPT ![Mach(p)] = IF @ = "Busy" THEN s ELSE @]
       ELSE UNCHANGED machine
    /\ UNCHANGED <<kind, diskVars, container, argVars, existed>>

-----------------------------------------------------------------------------
(* The critical sections *)

\* Mutant: startWait also waits for a stopped machine.
StartWaitStopped(p) ==
    /\ pc[p] = "status" /\ cmd[p] \in {"up", "build"}
    /\ Status(p) \notin {"Busy", "Stopped"}
    /\ Goto(p, IF Status(p) = "NotFound" /\ Mach(p) # NoMachine THEN "providerCreate" ELSE "agentUp")
    /\ UNCHANGED <<lockVars, kind, diskVars, cloudVars, argVars, cfg, existed, faults>>

\* startWait(create = TRUE): wait while the machine is busy, start or create it.
StartWait(p) ==
    /\ pc[p] = "status" /\ cmd[p] \in {"up", "build"}
    /\ Status(p) # "Busy"
    /\ Goto(p, CASE Status(p) = "Stopped" -> "providerStart"
                 [] Status(p) = "NotFound" /\ Mach(p) # NoMachine -> "providerCreate"
                 [] OTHER -> "agentUp")
    /\ UNCHANGED <<lockVars, kind, diskVars, cloudVars, argVars, cfg, existed, faults>>

\* agent workspace up (build: no container is started).
AgentUp(p) ==
    /\ pc[p] = "agentUp"
    /\ \/ /\ Reachable(p)
          /\ container' = [container EXCEPT ![Here(p)] = IF cmd[p] = "up" THEN "running" ELSE @]
          /\ Goto(p, IF cmd[p] = "up" THEN "saveResult" ELSE "unlock")
          /\ UNCHANGED faults
       \/ /\ IF Reachable(p) THEN Fault ELSE UNCHANGED faults
          /\ Goto(p, "unlock")
          /\ UNCHANGED container
    /\ UNCHANGED <<lockVars, kind, diskVars, machine, argVars, cfg, existed>>

\* SaveWorkspaceResult makes the workspace folder if it is not there.
SaveWorkspaceResult(p) ==
    /\ pc[p] = "saveResult"
    /\ wsResult' = wsResult \cup {Ws(p)}
    /\ Goto(p, "unlock")
    /\ UNCHANGED <<lockVars, kind, wsConfig, machineFolder, cloudVars, argVars, cfg, existed, faults>>

\* stop: the workspace must be running.  A single machine is stopped when no
\* other workspace is listed on it.
StopStatus(p) ==
    /\ pc[p] = "status" /\ cmd[p] = "stop"
    /\ Goto(p, IF Status(p) = "Running" THEN "stopSingle" ELSE "unlock")
    /\ UNCHANGED <<lockVars, kind, diskVars, cloudVars, argVars, cfg, existed, faults>>

StopSingleMachine(p) ==
    /\ pc[p] = "stopSingle"
    /\ Goto(p, IF IsSingle(p) /\ UsersOf(SingleMachine) \subseteq {Ws(p)}
               THEN IF SingleMachine \in machineFolder THEN "providerStop" ELSE "unlock"
               ELSE IF JustContainer(p) THEN "agentStop" ELSE "providerStop")
    /\ UNCHANGED <<lockVars, kind, diskVars, cloudVars, argVars, cfg, existed, faults>>

AgentStop(p) ==
    /\ pc[p] = "agentStop"
    /\ \/ /\ Reachable(p)
          /\ container' = [container EXCEPT ![Here(p)] = IF @ = "running" THEN "stopped" ELSE @]
          /\ UNCHANGED faults
       \/ /\ IF Reachable(p) THEN Fault ELSE UNCHANGED faults
          /\ UNCHANGED container
    /\ Goto(p, Return(p))
    /\ UNCHANGED <<lockVars, kind, diskVars, machine, argVars, cfg, existed>>

\* delete: a workspace whose machine is gone needs --force.
DeleteStatus(p) ==
    /\ pc[p] = "status" /\ cmd[p] = "delete"
    /\ Goto(p, IF Status(p) = "NotFound" THEN "unlock" ELSE "deleteSingle")
    /\ UNCHANGED <<lockVars, kind, diskVars, cloudVars, argVars, cfg, existed, faults>>

\* The status command of a machine provider fails: up, stop and delete return its error.
StatusFails(p) ==
    /\ pc[p] = "status" /\ Mach(p) # NoMachine
    /\ Fault
    /\ Goto(p, "unlock")
    /\ UNCHANGED <<lockVars, kind, diskVars, cloudVars, argVars, cfg, existed>>

\* Mutant: only the container is ever deleted.
DeleteContainerOnly(p) ==
    /\ pc[p] = "deleteSingle"
    /\ Goto(p, "agentDelete")
    /\ UNCHANGED <<lockVars, kind, diskVars, cloudVars, argVars, cfg, existed, faults>>

\* deleteSingleMachine, or else workspaceClient.Delete.
DeleteSingleMachine(p) ==
    /\ pc[p] = "deleteSingle"
    /\ Goto(p, IF IsSingle(p) /\ UsersOf(SingleMachine) \subseteq {Ws(p)}
               THEN IF SingleMachine \in machineFolder THEN "providerDelete" ELSE Return(p)
               ELSE IF JustContainer(p) THEN "agentDelete" ELSE "providerDelete")
    /\ UNCHANGED <<lockVars, kind, diskVars, cloudVars, argVars, cfg, existed, faults>>

\* build: "delete workspace if we have created it", with Force and without a lock.
BuildDelete(p) ==
    /\ pc[p] = "buildDelete"
    /\ Goto(p, IF JustContainer(p) THEN "agentDelete" ELSE "providerDelete")
    /\ UNCHANGED <<lockVars, kind, diskVars, cloudVars, argVars, cfg, existed, faults>>

Forced(p) == cmd[p] \in {"forceDelete", "build"}

\* workspaceClient.Delete of the container, if the machine is running.
AgentDelete(p) ==
    /\ pc[p] = "agentDelete"
    /\ \/ /\ ~Reachable(p)
          /\ Goto(p, "rmWorkspace")
          /\ UNCHANGED <<container, faults>>
       \/ /\ Reachable(p)
          /\ container' = [container EXCEPT ![Here(p)] = "none"]
          /\ Goto(p, "rmWorkspace")
          /\ UNCHANGED faults
       \/ /\ Fault
          /\ Goto(p, IF Forced(p) THEN "rmWorkspace" ELSE Return(p))
          /\ UNCHANGED container
    /\ UNCHANGED <<lockVars, kind, diskVars, machine, argVars, cfg, existed>>

\* machineClient.Delete: the machine folder goes after the machine.
DeleteMachineFolder(p) ==
    /\ pc[p] = "rmMachine"
    /\ machineFolder' = machineFolder \ {Mach(p)}
    /\ Goto(p, IF cmd[p] = "machineDelete" THEN "exit" ELSE "rmWorkspace")
    /\ UNCHANGED <<lockVars, kind, wsConfig, wsResult, cloudVars, argVars, cfg, existed, faults>>

\* The workspace folder goes last.
DeleteWorkspace(p) ==
    /\ pc[p] = "rmWorkspace"
    /\ DeleteWorkspaceFolder(Ws(p))
    /\ Goto(p, Return(p))
    /\ UNCHANGED <<lockVars, kind, cloudVars, argVars, cfg, existed, faults>>

\* Mutant: --force does not help when the workspace cannot be loaded.
DeleteLoadFailedKeeps(p) ==
    /\ pc[p] = "loadFailed"
    /\ Goto(p, "exit")
    /\ UNCHANGED <<lockVars, kind, diskVars, cloudVars, argVars, cfg, existed, faults>>

\* delete of a workspace that cannot be loaded: only --force removes its folder.
DeleteLoadFailed(p) ==
    /\ pc[p] = "loadFailed"
    /\ IF Ws(p) \in Listed /\ cmd[p] = "forceDelete"
       THEN DeleteWorkspaceFolder(Ws(p)) ELSE UNCHANGED diskVars
    /\ Goto(p, "exit")
    /\ UNCHANGED <<lockVars, kind, cloudVars, argVars, cfg, existed, faults>>

-----------------------------------------------------------------------------
(* The machine commands *)

ResolveMachine(p) ==
    /\ pc[p] = "machineResolve"
    /\ machineFolder' = machineFolder \cup {Mach(p)}
    /\ Goto(p, "machineOptions")
    /\ UNCHANGED <<lockVars, kind, wsConfig, wsResult, cloudVars, argVars, cfg, existed, faults>>

GetMachine(p) ==
    /\ pc[p] = "machineGet"
    /\ Goto(p, IF Mach(p) \notin machineFolder THEN "exit"
               ELSE CASE cmd[p] = "machineStart" -> "providerStart"
                      [] cmd[p] = "machineStop" -> "providerStop"
                      [] cmd[p] = "machineDelete" -> "machineUsers")
    /\ UNCHANGED <<lockVars, kind, diskVars, cloudVars, argVars, cfg, existed, faults>>

\* Mutant: machine delete does not look for workspaces.
MachineUsersUnchecked(p) ==
    /\ pc[p] = "machineUsers"
    /\ Goto(p, "providerDelete")
    /\ UNCHANGED <<lockVars, kind, diskVars, cloudVars, argVars, cfg, existed, faults>>

\* "cannot delete machine, because workspace is still using it"
MachineUsers(p) ==
    /\ pc[p] = "machineUsers"
    /\ Goto(p, IF UsersOf(Mach(p)) = {} THEN "providerDelete" ELSE "exit")
    /\ UNCHANGED <<lockVars, kind, diskVars, cloudVars, argVars, cfg, existed, faults>>

-----------------------------------------------------------------------------
(* The provider: create, start, stop and delete of a machine *)

ProviderCreate(p) ==
    /\ pc[p] = "providerCreate"
    /\ machine' = [machine EXCEPT ![Mach(p)] = IF @ = "NotFound" THEN "Busy" ELSE @]
    /\ Goto(p, "creating")
    /\ UNCHANGED <<lockVars, kind, diskVars, container, argVars, cfg, existed, faults>>

\* Success: createWorkspace, startWait or machine create go on.  Failure: the
\* caller cleans up; a machine that was deleted meanwhile is a failure too.
ProviderCreated(p) ==
    /\ pc[p] = "creating"
    /\ \/ /\ machine[Mach(p)] # "NotFound"
          /\ machine' = [machine EXCEPT ![Mach(p)] = "Running"]
          /\ Goto(p, CASE cmd[p] = "machineCreate" -> "exit"
                       [] lockPc[p] = "held" -> "agentUp"
                       [] OTHER -> "configure")
          /\ UNCHANGED faults
       \/ /\ IF machine[Mach(p)] = "NotFound" THEN UNCHANGED faults ELSE Fault
          /\ machine' = [machine EXCEPT ![Mach(p)] = IF @ = "Busy" THEN "NotFound" ELSE @]
          /\ Goto(p, CASE cmd[p] = "machineCreate" -> "exit"
                       [] lockPc[p] = "held" -> "unlock"
                       [] OTHER -> "cleanupMachine")
    /\ UNCHANGED <<lockVars, kind, diskVars, container, argVars, cfg, existed>>

ProviderStart(p) ==
    /\ pc[p] = "providerStart"
    /\ \/ /\ machine[Mach(p)] \in {"Stopped", "Running"}
          /\ machine' = [machine EXCEPT ![Mach(p)] = "Running"]
          /\ Goto(p, IF lockPc[p] = "held" THEN "agentUp" ELSE "exit")
          /\ UNCHANGED faults
       \/ /\ IF machine[Mach(p)] \in {"Stopped", "Running"} THEN Fault ELSE UNCHANGED faults
          /\ Goto(p, Return(p))
          /\ UNCHANGED machine
    /\ UNCHANGED <<lockVars, kind, diskVars, container, argVars, cfg, existed>>

\* The containers of a machine stop and vanish with it.
OnMachine(m, from, to) ==
    [c \in Workspaces \X Places |->
        IF c[2] = m /\ container[c] \in from THEN to ELSE container[c]]

ProviderStop(p) ==
    /\ pc[p] = "providerStop"
    /\ \/ /\ machine[Mach(p)] \in {"Stopped", "Running"}
          /\ machine' = [machine EXCEPT ![Mach(p)] = "Stopped"]
          /\ container' = OnMachine(Mach(p), {"running"}, "stopped")
          /\ UNCHANGED faults
       \/ /\ IF machine[Mach(p)] \in {"Stopped", "Running"} THEN Fault ELSE UNCHANGED faults
          /\ UNCHANGED <<machine, container>>
    /\ Goto(p, Return(p))
    /\ UNCHANGED <<lockVars, kind, diskVars, argVars, cfg, existed>>

ProviderDelete(p) ==
    /\ pc[p] = "providerDelete"
    /\ \/ /\ machine' = [machine EXCEPT ![Mach(p)] = "NotFound"]
          /\ container' = OnMachine(Mach(p), {"running", "stopped"}, "none")
          /\ Goto(p, "rmMachine")
          /\ UNCHANGED faults
       \/ /\ Fault
          /\ Goto(p, IF Forced(p) THEN "rmMachine" ELSE Return(p))
          /\ UNCHANGED <<machine, container>>
    /\ UNCHANGED <<lockVars, kind, diskVars, argVars, cfg, existed>>

-----------------------------------------------------------------------------

Resolve(p) ==
    \/ BuildExists(p) \/ ResolveWorkspace(p) \/ GetWorkspace(p) \/ LoadWorkspaceConfig(p)
    \/ ChangeLastUsed(p) \/ LoadMachineConfig(p) \/ CreateWorkspace(p) \/ MachineExists(p)
    \/ ReuseMachine(p) \/ CreateMachineFolder(p) \/ RefreshMachineOptions(p)
    \/ CleanupMachine(p) \/ CleanupWorkspace(p) \/ Configure(p) \/ RefreshOptions(p)
    \/ SaveOptions(p)

Work(p) ==
    \/ AcquireLocks(p) \/ ReleaseLocks(p) \/ StartWait(p) \/ AgentUp(p) \/ SaveWorkspaceResult(p)
    \/ StopStatus(p) \/ StopSingleMachine(p) \/ AgentStop(p)
    \/ DeleteStatus(p) \/ StatusFails(p) \/ DeleteSingleMachine(p) \/ BuildDelete(p) \/ AgentDelete(p)
    \/ DeleteMachineFolder(p) \/ DeleteWorkspace(p) \/ DeleteLoadFailed(p)
    \/ ResolveMachine(p) \/ GetMachine(p) \/ MachineUsers(p)
    \/ ProviderCreate(p) \/ ProviderCreated(p) \/ ProviderStart(p) \/ ProviderStop(p)
    \/ ProviderDelete(p)
    \/ ExitProcess(p)

AllDone == \A p \in Procs : pc[p] = "done"

\* Every command was run: nothing is left to do.
Finished == AllDone /\ UNCHANGED vars

Next == \/ \E p \in Procs : Start(p) \/ Resolve(p) \/ Work(p) \/ Crash(p)
        \/ Finished

Spec == Init /\ [][Next]_vars

\* A process goes on until it ends: provider and agent commands return, and
\* tryLock gives up after five minutes.
FairSpec == Spec /\ \A p \in Procs : WF_vars(Resolve(p) \/ Work(p))

-----------------------------------------------------------------------------
(* Properties *)

Labels == {"idle", "done", "exit", "buildExists", "resolve", "get", "load", "touch", "loadMachine",
           "loadFailed", "create", "machineExists", "reuse", "createMachine", "machineOptions",
           "cleanupMachine", "cleanup", "configure", "refresh", "saveOptions", "lock", "locking",
           "unlock", "status", "agentUp", "saveResult", "stopSingle", "agentStop", "deleteSingle",
           "buildDelete", "agentDelete", "rmMachine", "rmWorkspace", "machineResolve", "machineGet",
           "machineUsers", "providerCreate", "creating", "providerStart", "providerStop",
           "providerDelete"}

Configs == [uid : Procs \cup {NoProc}, machine : Places, autoDelete : BOOLEAN]

\* The shape of the shared and of the process state.
TypeOK ==
    /\ LockTypeOK
    /\ kind \in Kinds
    /\ wsConfig \in [Workspaces -> Configs \cup {NoConfig}]
    /\ wsResult \subseteq Workspaces
    /\ machineFolder \subseteq Machines
    /\ machine \in [Machines -> {"NotFound", "Busy", "Stopped", "Running"}]
    /\ container \in [Workspaces \X Places -> {"none", "running", "stopped"}]
    /\ pc \in [Procs -> Labels]
    /\ cmd \in [Procs -> WorkspaceCommand \cup MachineCommand \cup {"none"}]
    /\ tgt \in [Procs -> Workspaces]
    /\ tgtMachine \in [Procs -> Places]
    /\ cfg \in [Procs -> Configs \cup {NoConfig}]
    /\ existed \in [Procs -> BOOLEAN]
    /\ faults \in 0..MaxFaults

Steps(p) == pc'[p] # pc[p]

\* delete --force gets rid of the workspace, also when the folders are in a state
\* that a killed command left behind and that no other command can load.
ForceDeleteRecovers ==
    [][\A p \in Procs :
        Steps(p) /\ pc[p] = "exit" /\ cmd[p] = "forceDelete" => Ws(p) \notin Listed]_vars

Unlocked(p) == cmd[p] \in {"forceDelete", "build", "machineStart", "machineStop", "machineDelete"}

\* From the moment its container runs until an up saves its result and unlocks, the
\* container is not stopped or removed and its machine not stopped or deleted,
\* neither by a stop or delete of the same workspace nor by one of another workspace
\* on the same machine.  Only the commands that take no lock can do that.
UpUndisturbed ==
    [][\A p \in Procs :
        lockPc[p] = "held" /\ pc[p] = "saveResult" /\ Reachable(p) /\ container[Here(p)] = "running"
            => \/ container'[Here(p)] = "running"
               \/ \E q \in Procs : Steps(q) /\ Unlocked(q)]_vars

Quiet == \A p \in Procs : pc[p] \in {"idle", "done"}

\* The machines devpod creates itself.  The single one is left out if machine create may
\* make it, or if there are builds: their deferred delete never removes it.
WorkspaceMachines == IF kind = "single" /\ {"machineCreate", "build"} \cap Commands = {}
                     THEN Machines ELSE Machines \ {SingleMachine}

\* The machines devpod creates for workspaces do not outlive them: whenever no
\* command is running, the folder of such a machine belongs to a listed workspace.
\* (A machine of machine create is the user's.)
NoUnusedMachine == Quiet => \A m \in machineFolder \cap WorkspaceMachines : UsersOf(m) # {}

\* Every command ends: nobody waits for ever on a lock file or on a busy machine.
EveryCommandEnds == \A p \in Procs : pc[p] # "idle" ~> pc[p] = "done"

Overlaps == \E p, q \in Procs : p # q /\ {pc[p], pc[q]} \cap {"idle", "done"} = {}

\* "check if there are workspaces that still use this machine": the folder of a
\* machine is only removed when no other workspace names it, by machine delete and
\* by the deletion of the last workspace on a single machine, whatever failed
\* before.  Exceptions are commands that overlap (the check is then old), and
\* the deletion of the workspace that the machine was created for.
UsedMachineIsKept ==
    [][\A p \in Procs :
        Steps(p) /\ pc[p] = "rmMachine" /\ ~Overlaps /\ ~cfg[p].autoDelete
            => UsersOf(Mach(p)) \subseteq (IF cmd[p] \in WorkspaceCommand THEN {Ws(p)} ELSE {})]_vars

=============================================================================
