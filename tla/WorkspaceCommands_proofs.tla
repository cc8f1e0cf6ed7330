---------------------- MODULE WorkspaceCommands_proofs ----------------------
(***************************************************************************)
(* Proofs about the commands of the CLI and the locks they take, for any   *)
(* processes, workspaces and machines.  First the locks (WorkspaceLock):   *)
(* LocksAccounted says who holds which file at each place of Lock and      *)
(* Unlock.  Then the commands at the same time: CmdInv says what a place   *)
(* in a command tells of its locks and its config, so that nobody touches  *)
(* the container of an up under its locks.  Then the commands one after    *)
(* the other, with failures and kills: SeqInv is the order in which the    *)
(* folders are written and removed, so that no machine is left behind and  *)
(* none is deleted that is in use.                                         *)
(***************************************************************************)
EXTENDS WorkspaceCommands, FiniteSetTheorems, TLAPS

\* Only a client with a machine goes on to lock one.
MachineToLock == \A p \in Procs : lockPc[p] = "tryMachine" => lockMachine[p] # NoMachine

\* The inductive invariant: types and the accounting of the lock files.
LockInv == LockTypeOK /\ LocksAccounted /\ MachineToLock

\* Every process starts idle and every lock file free.
LEMMA LockInvInit == LockInit => LockInv
  BY LockAssumption DEF LockInit, LockInv, LockTypeOK, LocksAccounted, LockPcs, MachineToLock

\* Each step of Lock, its failures, Unlock and process exit keeps the accounting.
LEMMA LockInvStep == LockInv /\ [LockNext]_lockVars => LockInv'
<1> SUFFICES ASSUME LockInv, [LockNext]_lockVars PROVE LockInv'
  OBVIOUS
<1> USE LockAssumption DEF LockInv, LockTypeOK, LockPcs, MachineToLock
<1>1. ASSUME NEW p \in Procs, NEW w \in Workspaces, NEW m \in Machines \cup {NoMachine},
             Lock(p, w, m)
      PROVE  LockInv'
  BY <1>1 DEF Lock, LocksAccounted
<1>2. ASSUME NEW p \in Procs, LockWorkspace(p)
      PROVE  LockInv'
  BY <1>2 DEF LockWorkspace, LocksAccounted
<1>3. ASSUME NEW p \in Procs, LockMachine(p)
      PROVE  LockInv'
  BY <1>3 DEF LockMachine, LocksAccounted
<1>4. ASSUME NEW p \in Procs, LockFails(p)
      PROVE  LockInv'
  BY <1>4 DEF LockFails, LocksAccounted
<1>5. ASSUME NEW p \in Procs, UnlockMachine(p)
      PROVE  LockInv'
  BY <1>5 DEF UnlockMachine, LocksAccounted
<1>6. ASSUME NEW p \in Procs, UnlockWorkspace(p)
      PROVE  LockInv'
  BY <1>6 DEF UnlockWorkspace, LocksAccounted
<1>7. ASSUME NEW p \in Procs, Exit(p)
      PROVE  LockInv'
  BY <1>7 DEF Exit, LocksAccounted
<1>8. CASE UNCHANGED lockVars
  BY <1>8 DEF lockVars, LocksAccounted
<1> QED
  BY <1>1, <1>2, <1>3, <1>4, <1>5, <1>6, <1>7, <1>8 DEF LockNext, LockStep

\* The accounting holds in every reachable state.
LEMMA LockInvAlways == LockSpec => []LockInv
  BY LockInvInit, LockInvStep, PTL DEF LockSpec

\* The lock state keeps its shape: no step of Lock or Unlock gives a lock file an
\* owner that is not a process.
THEOREM LockTypeCorrect == LockSpec => []LockTypeOK
  BY LockInvAlways, PTL DEF LockInv

\* No failure path, Unlock or process exit leaves a lock file unaccounted for.
THEOREM LocksAlwaysAccounted == LockSpec => []LocksAccounted
  BY LockInvAlways, PTL DEF LockInv

\* Two commands are never between Lock and Unlock on one workspace or one machine.
THEOREM MutualExclusionHolds == LockSpec => []MutualExclusion
<1>1. LockInv => MutualExclusion
  <2> SUFFICES ASSUME LockInv,
                      NEW p \in Procs, NEW q \in Procs,
                      lockPc[p] = "held", lockPc[q] = "held", p # q
               PROVE  /\ lockWs[p] # lockWs[q]
                      /\ lockMachine[p] = NoMachine \/ lockMachine[p] # lockMachine[q]
    BY DEF MutualExclusion
  <2>1. workspaceLock[lockWs[p]] = p /\ workspaceLock[lockWs[q]] = q
    BY DEF LockInv, LocksAccounted
  <2>2. /\ lockMachine[p] # NoMachine => machineLock[lockMachine[p]] = p
        /\ lockMachine[q] # NoMachine => machineLock[lockMachine[q]] = q
    BY DEF LockInv, LocksAccounted
  <2> QED
    BY <2>1, <2>2
<1> QED
  BY <1>1, LockInvAlways, PTL

\* A process that waits for a workspace lock may wait for a process that waits for
\* a machine lock, but the holder of a machine lock waits for nobody: there is no
\* circle of waiting commands.
THEOREM NoWaitCycleHolds == LockSpec => []NoWaitCycle
<1>1. LockInv => NoWaitCycle
  <2> SUFFICES ASSUME LockInv, NEW S \in (SUBSET Procs) \ {{}},
                      \A p \in S : \E q \in S : WaitsFor(p, q)
               PROVE  FALSE
    BY DEF NoWaitCycle
  <2>1. PICK p \in S : TRUE
    OBVIOUS
  <2>2. PICK q \in S : WaitsFor(p, q)
    OBVIOUS
  <2>3. PICK r \in S : WaitsFor(q, r)
    OBVIOUS
  <2>4. PICK s \in S : WaitsFor(r, s)
    OBVIOUS
  <2>5. \A a, b \in Procs : WaitsFor(a, b) =>
            lockPc[b] \in {"tryMachine", "held", "unlocking", "failed"}
    <3> SUFFICES ASSUME NEW a \in Procs, NEW b \in Procs, WaitsFor(a, b)
                 PROVE  lockPc[b] \in {"tryMachine", "held", "unlocking", "failed"}
      OBVIOUS
    <3>1. CASE lockPc[a] = "tryWorkspace" /\ workspaceLock[lockWs[a]] = b
      BY <3>1, LockAssumption DEF LockInv, LockTypeOK, LocksAccounted
    <3>2. CASE lockPc[a] = "tryMachine" /\ machineLock[lockMachine[a]] = b
      BY <3>2, LockAssumption DEF LockInv, LockTypeOK, LocksAccounted, MachineToLock
    <3> QED
      BY <3>1, <3>2 DEF WaitsFor
  <2>6. lockPc[q] = "tryMachine"
    BY <2>2, <2>3, <2>5 DEF WaitsFor
  <2>7. lockPc[r] = "held"
    BY <2>3, <2>6, LockAssumption DEF WaitsFor, LockInv, LockTypeOK, LocksAccounted, MachineToLock
  <2> QED
    BY <2>4, <2>7 DEF WaitsFor
<1> QED
  BY <1>1, LockInvAlways, PTL

\* Lock and Unlock implement exclusive use: entering the critical section takes
\* resources nobody uses, leaving it (by Unlock or by exit) gives them back, and
\* every other step of the locks is invisible.
THEOREM LockImplementsExclusiveUse == LockSpec => ImplementsExclusiveUse
<1> DEFINE Res == ({"workspace"} \X Workspaces) \cup ({"machine"} \X Machines)
<1>1. LockInit => Exclusive!Init
  BY DEF LockInit, Exclusive!Init, inUse
<1>2. LockInv /\ [LockNext]_lockVars => [Exclusive!Next]_inUse
  <2> SUFFICES ASSUME LockInv, [LockNext]_lockVars
               PROVE  [Exclusive!Next]_inUse
    OBVIOUS
  <2> USE DEF LockInv, LockTypeOK
  <2>1. ASSUME NEW p \in Procs, NEW w \in Workspaces, NEW m \in Machines \cup {NoMachine},
               Lock(p, w, m)
        PROVE  inUse' = inUse
    BY <2>1 DEF Lock, inUse
  <2>2. ASSUME NEW p \in Procs, NEW R \in SUBSET Res,
               inUse[p] = {}, inUse' = [inUse EXCEPT ![p] = R],
               \A q \in Procs : inUse[q] \cap R = {}
        PROVE  Exclusive!Next
    BY <2>2 DEF Exclusive!Next, Exclusive!Take
  <2>3. ASSUME NEW p \in Procs, LockWorkspace(p)
        PROVE  [Exclusive!Next]_inUse
    <3>1. CASE lockMachine[p] # NoMachine
      <4>1. inUse' = inUse
        BY <2>3, <3>1 DEF LockWorkspace, inUse
      <4> QED BY <4>1
    <3>2. CASE lockMachine[p] = NoMachine
      <4> DEFINE R == {<<"workspace", lockWs[p]>>}
      <4>1. R \in SUBSET Res /\ inUse[p] = {}
        BY <2>3 DEF LockWorkspace, inUse
      <4>2. inUse' = [inUse EXCEPT ![p] = R]
        BY <2>3, <3>2 DEF LockWorkspace, inUse
      <4>3. ASSUME NEW q \in Procs PROVE inUse[q] \cap R = {}
        <5>1. lockPc[q] = "held" => lockWs[q] # lockWs[p]
          BY <2>3, LockAssumption DEF LockWorkspace, LocksAccounted
        <5> QED BY <5>1 DEF inUse
      <4> QED BY <2>2, <4>1, <4>2, <4>3
    <3> QED BY <3>1, <3>2
  <2>4. ASSUME NEW p \in Procs, LockMachine(p)
        PROVE  [Exclusive!Next]_inUse
    <3> DEFINE R == {<<"workspace", lockWs[p]>>, <<"machine", lockMachine[p]>>}
    <3>1. lockMachine[p] \in Machines /\ lockPc[p] = "tryMachine"
      BY <2>4 DEF LockMachine, MachineToLock
    <3>2. R \in SUBSET Res /\ inUse[p] = {}
      BY <3>1 DEF inUse
    <3>3. inUse' = [inUse EXCEPT ![p] = R]
      BY ZenonT(60), <2>4, <3>1, LockAssumption DEF LockMachine, inUse
    <3>4. ASSUME NEW q \in Procs PROVE inUse[q] \cap R = {}
      <4>1. lockPc[q] = "held" => lockWs[q] # lockWs[p] /\ lockMachine[q] # lockMachine[p]
        <5> SUFFICES ASSUME lockPc[q] = "held"
                     PROVE  lockWs[q] # lockWs[p] /\ lockMachine[q] # lockMachine[p]
          OBVIOUS
        <5>1. q # p /\ workspaceLock[lockWs[q]] = q /\ workspaceLock[lockWs[p]] = p
          BY <3>1 DEF LocksAccounted
        <5>2. lockMachine[q] # NoMachine => machineLock[lockMachine[q]] = q
          BY DEF LocksAccounted
        <5>3. machineLock[lockMachine[p]] = NoProc /\ lockMachine[p] # NoMachine
          BY <2>4, <3>1, LockAssumption DEF LockMachine
        <5> QED BY <5>1, <5>2, <5>3, LockAssumption
      <4> QED BY <4>1 DEF inUse
    <3> QED BY <2>2, <3>2, <3>3, <3>4
  <2>5. ASSUME NEW p \in Procs, LockFails(p) \/ UnlockWorkspace(p)
        PROVE  inUse' = inUse
    BY <2>5 DEF LockFails, UnlockWorkspace, inUse
  <2>6. ASSUME NEW p \in Procs, UnlockMachine(p) \/ Exit(p)
        PROVE  Exclusive!Next
    <3>1. inUse' = [inUse EXCEPT ![p] = {}]
      BY <2>6 DEF UnlockMachine, Exit, inUse
    <3> QED BY <3>1 DEF Exclusive!Next, Exclusive!GiveBack
  <2>7. CASE UNCHANGED lockVars
    <3>1. inUse' = inUse
      BY <2>7 DEF lockVars, inUse
    <3> QED BY <3>1
  <2> QED
    BY <2>1, <2>3, <2>4, <2>5, <2>6, <2>7 DEF LockNext, LockStep
<1> QED
  BY <1>1, <1>2, LockInvAlways, PTL DEF LockSpec, ImplementsExclusiveUse, Exclusive!Spec

\* Where the locks are free, and where they are held.
FreePlaces == {"idle", "done", "buildExists", "resolve", "get", "load", "touch", "loadMachine", "loadFailed",
               "create", "machineExists", "reuse", "createMachine", "machineOptions", "cleanupMachine",
               "cleanup", "configure", "refresh", "saveOptions", "lock", "machineResolve", "machineGet",
               "machineUsers"}
HeldPlaces == {"status", "agentUp", "saveResult", "stopSingle", "agentStop"}
\* Where a command of its own may come with the locks and without.
ProviderPlaces == {"providerCreate", "creating", "providerStart"}
EndPlaces == {"deleteSingle", "agentDelete", "rmMachine", "rmWorkspace", "providerStop", "providerDelete"}
\* Where a command has a workspace config in memory, and where that names a machine.
NoConfigPlaces == {"idle", "done", "exit", "buildExists", "resolve", "get", "load", "loadFailed", "create", "cleanup"}
MachinePlaces == {"machineExists", "reuse", "createMachine", "machineOptions", "cleanupMachine", "machineResolve",
                  "machineGet", "machineUsers", "providerCreate", "creating", "providerStart", "providerStop",
                  "providerDelete", "rmMachine"}

\* The commands that come to a place.
AtCommand(l, c) ==
    /\ l \in {"buildExists", "buildDelete"} => c = "build"
    /\ l \in {"touch", "saveResult"} => c = "up"
    /\ l \in {"resolve", "create", "machineExists", "reuse", "createMachine", "cleanupMachine", "cleanup",
              "configure", "refresh", "saveOptions", "agentUp"} => c \in {"up", "build"}
    /\ l \in {"load", "loadMachine"} => c \in WorkspaceCommand
    /\ l = "get" => c \in {"stop", "delete", "forceDelete"}
    /\ l \in {"loadFailed", "deleteSingle"} => c \in {"delete", "forceDelete"}
    /\ l \in {"machineOptions", "providerCreate", "creating"} => c \in {"up", "build", "machineCreate"}
    /\ l \in {"lock", "locking", "status", "unlock"} => c \in {"up", "build", "stop", "delete"}
    /\ l \in {"stopSingle", "agentStop"} => c = "stop"
    /\ l \in {"agentDelete", "rmWorkspace"} => c \in {"delete", "forceDelete", "build"}
    /\ l \in {"rmMachine", "providerDelete"} => c \in {"delete", "forceDelete", "build", "machineDelete"}
    /\ l = "machineResolve" => c = "machineCreate"
    /\ l = "machineGet" => c \in {"machineStart", "machineStop", "machineDelete"}
    /\ l = "machineUsers" => c = "machineDelete"
    /\ l = "providerStart" => c \in {"up", "build", "machineStart"}
    /\ l = "providerStop" => c \in {"stop", "machineStop"}

\* What the locks are at a place.
AtLock(l, c, lp) ==
    /\ l \in FreePlaces => lp = "idle"
    /\ l = "locking" => lp \in {"tryWorkspace", "tryMachine"}
    /\ l \in HeldPlaces => lp = "held"
    /\ l = "unlock" => lp \in {"held", "unlocking"}
    /\ l \in {"exit", "buildDelete"} => lp \in {"idle", "failed"}
    /\ l \in ProviderPlaces => lp \in {"idle", "held"}
    /\ l \in EndPlaces => lp \in {"idle", "held", "failed"}
    /\ l \in EndPlaces /\ c \in {"stop", "delete"} => lp = "held"
    /\ l \in EndPlaces /\ c = "build" => lp # "held"
    /\ c \in MachineCommand \cup {"forceDelete"} => lp = "idle"

\* What a command has in memory: the config that its locks were made from.
AtConfig(l, k, w, lp, lw, lm) ==
    /\ l \notin NoConfigPlaces => k \in Configs
    /\ l \in MachinePlaces => k.machine \in Machines
    /\ lp # "idle" => lw = w /\ k \in Configs /\ lm = k.machine

ProcAt(p) ==
    /\ AtCommand(pc[p], cmd[p])
    /\ AtLock(pc[p], cmd[p], lockPc[p])
    /\ AtConfig(pc[p], cfg[p], tgt[p], lockPc[p], lockWs[p], lockMachine[p])

\* The type of what all commands share.
SharedTypeOK ==
    /\ wsConfig \in [Workspaces -> Configs \cup {NoConfig}]
    /\ wsResult \subseteq Workspaces
    /\ machineFolder \subseteq Machines
    /\ machine \in [Machines -> {"NotFound", "Busy", "Stopped", "Running"}]
    /\ container \in [Workspaces \X Places -> {"none", "running", "stopped"}]

\* Commands are those that may be started.
CommandsKnown == \A p \in Procs : cmd[p] \in Commands \cup {"none"}

CmdInv == TypeOK /\ LockInv /\ CommandsKnown /\ \A p \in Procs : ProcAt(p)

-----------------------------------------------------------------------------

\* A step of one command that leaves the locks, and changes its place and its config.
LEMMA MoveKeeps ==
    ASSUME CmdInv, NEW p \in Procs, NEW l \in Labels, NEW k \in Configs \cup {NoConfig},
           Goto(p, l), cfg' = [cfg EXCEPT ![p] = k], UNCHANGED <<lockVars, kind, argVars>>,
           SharedTypeOK', existed' \in [Procs -> BOOLEAN], faults' \in 0..MaxFaults,
           AtCommand(l, cmd[p]), AtLock(l, cmd[p], lockPc[p]),
           AtConfig(l, k, tgt[p], lockPc[p], lockWs[p], lockMachine[p])
    PROVE  CmdInv'
<1>1. TypeOK /\ LockInv /\ CommandsKnown /\ \A q \in Procs : ProcAt(q)
  BY DEF CmdInv
<1>2. /\ pc' = [pc EXCEPT ![p] = l] /\ UNCHANGED <<cmd, tgt, tgtMachine, lockPc, lockWs, lockMachine>>
      /\ UNCHANGED <<workspaceLock, machineLock, kind>>
  BY DEF Goto, lockVars, argVars
<1>3. /\ pc'[p] = l /\ cfg'[p] = k
      /\ \A q \in Procs : q # p => pc'[q] = pc[q] /\ cfg'[q] = cfg[q]
  BY <1>1, <1>2 DEF TypeOK
<1>4. TypeOK'
  BY <1>1, <1>2 DEF TypeOK, SharedTypeOK, LockTypeOK
<1>5. LockInv' /\ CommandsKnown'
  BY <1>1, <1>2 DEF LockInv, LockTypeOK, LocksAccounted, MachineToLock, CommandsKnown
<1>6. ASSUME NEW q \in Procs PROVE ProcAt(q)'
  <2>1. CASE q = p
    BY <1>2, <1>3, <2>1 DEF ProcAt
  <2>2. CASE q # p
    <3>1. /\ pc'[q] = pc[q] /\ cfg'[q] = cfg[q] /\ cmd'[q] = cmd[q] /\ tgt'[q] = tgt[q]
          /\ lockPc'[q] = lockPc[q] /\ lockWs'[q] = lockWs[q] /\ lockMachine'[q] = lockMachine[q]
      BY <1>2, <1>3, <2>2
    <3> QED
      BY <1>1, <3>1 DEF ProcAt
  <2> QED
    BY <2>1, <2>2
<1> QED
  BY <1>4, <1>5, <1>6 DEF CmdInv

\* The same for a step that keeps the config, too.
LEMMA GoKeeps ==
    ASSUME CmdInv, NEW p \in Procs, NEW l \in Labels,
           Goto(p, l), UNCHANGED <<lockVars, kind, argVars, cfg>>,
           SharedTypeOK', existed' \in [Procs -> BOOLEAN], faults' \in 0..MaxFaults,
           AtCommand(l, cmd[p]), AtLock(l, cmd[p], lockPc[p]),
           AtConfig(l, cfg[p], tgt[p], lockPc[p], lockWs[p], lockMachine[p])
    PROVE  CmdInv'
<1>1. cfg[p] \in Configs \cup {NoConfig} /\ cfg' = [cfg EXCEPT ![p] = cfg[p]]
  BY DEF CmdInv, TypeOK
<1> QED
  BY <1>1, MoveKeeps

\* A step of one command on the lock files.
LEMMA LockKeeps ==
    ASSUME CmdInv, NEW p \in Procs, NEW l \in Labels, NEW k \in Configs \cup {NoConfig},
           Goto(p, l), cfg' = [cfg EXCEPT ![p] = k], LockNext \/ UNCHANGED lockVars,
           \A q \in Procs : q # p => lockPc'[q] = lockPc[q] /\ lockWs'[q] = lockWs[q] /\ lockMachine'[q] = lockMachine[q],
           UNCHANGED <<kind, argVars>>, SharedTypeOK', existed' \in [Procs -> BOOLEAN], faults' \in 0..MaxFaults,
           AtCommand(l, cmd[p]), AtLock(l, cmd[p], lockPc'[p]),
           AtConfig(l, k, tgt[p], lockPc'[p], lockWs'[p], lockMachine'[p])
    PROVE  CmdInv'
<1>1. TypeOK /\ LockInv /\ CommandsKnown /\ \A q \in Procs : ProcAt(q)
  BY DEF CmdInv
<1>2. /\ pc' = [pc EXCEPT ![p] = l] /\ UNCHANGED <<cmd, tgt, tgtMachine, kind>>
  BY DEF Goto, argVars
<1>3. /\ pc'[p] = l /\ cfg'[p] = k
      /\ \A q \in Procs : q # p => pc'[q] = pc[q] /\ cfg'[q] = cfg[q]
  BY <1>1, <1>2 DEF TypeOK
<1>4. LockInv'
  BY <1>1, LockInvStep
<1>5. TypeOK'
  BY <1>1, <1>2, <1>4 DEF TypeOK, SharedTypeOK, LockInv
<1>6. CommandsKnown'
  BY <1>1, <1>2 DEF CommandsKnown
<1>7. ASSUME NEW q \in Procs PROVE ProcAt(q)'
  <2>1. CASE q = p
    BY <1>2, <1>3, <2>1 DEF ProcAt
  <2>2. CASE q # p
    <3>1. /\ pc'[q] = pc[q] /\ cfg'[q] = cfg[q] /\ cmd'[q] = cmd[q] /\ tgt'[q] = tgt[q]
          /\ lockPc'[q] = lockPc[q] /\ lockWs'[q] = lockWs[q] /\ lockMachine'[q] = lockMachine[q]
      BY <1>2, <1>3, <2>2
    <3> QED
      BY <1>1, <3>1 DEF ProcAt
  <2> QED
    BY <2>1, <2>2
<1> QED
  BY <1>4, <1>5, <1>6, <1>7 DEF CmdInv

\* Nobody runs a command and nothing is locked.
LEMMA CmdInvInit == Init => CmdInv
<1> SUFFICES ASSUME Init PROVE CmdInv
  OBVIOUS
<1>1. LockInv
  BY LockInvInit DEF Init
<1>2. ExistingMachine \in [Existing -> Machines]
  BY CommandsAssumption DEF ExistingMachine
<1>3. \A w \in Existing : ExistingConfig(kind, w) \in Configs
  BY <1>2, CommandsAssumption DEF Init, ExistingConfig, Config, Configs, Places
<1>4. wsConfig \in [Workspaces -> Configs \cup {NoConfig}]
  BY <1>3 DEF Init
<1>5. machineFolder \subseteq Machines
  <2>1. \A w \in Existing : wsConfig[w] \in Configs
    BY <1>3, CommandsAssumption DEF Init
  <2> QED
    BY <2>1 DEF Init, Configs, Places
<1>6. TypeOK
  <2>1. /\ kind \in Kinds /\ wsResult \subseteq Workspaces
        /\ machine \in [Machines -> {"NotFound", "Busy", "Stopped", "Running"}]
        /\ container \in [Workspaces \X Places -> {"none", "running", "stopped"}]
    BY CommandsAssumption DEF Init
  <2>2. /\ pc \in [Procs -> Labels] /\ tgtMachine \in [Procs -> Places] /\ existed \in [Procs -> BOOLEAN]
        /\ cmd \in [Procs -> WorkspaceCommand \cup MachineCommand \cup {"none"}]
        /\ cfg \in [Procs -> Configs \cup {NoConfig}]
    BY DEF Init, Labels, Places
  <2>3. tgt \in [Procs -> Workspaces]
    BY DEF Init, LockInit
  <2>4. faults \in 0..MaxFaults
    BY CommandsAssumption DEF Init
  <2> QED
    BY <1>1, <1>4, <1>5, <2>1, <2>2, <2>3, <2>4 DEF TypeOK, LockInv
<1>7. CommandsKnown
  BY DEF Init, CommandsKnown
<1>8. ASSUME NEW p \in Procs PROVE ProcAt(p)
  BY  DEF Init, LockInit, ProcAt, AtCommand, AtLock, AtConfig, FreePlaces, HeldPlaces, ProviderPlaces, EndPlaces,
     NoConfigPlaces, MachinePlaces, MachineCommand
<1> QED
  BY <1>1, <1>6, <1>7, <1>8 DEF CmdInv

\* Every step of every command keeps the invariant.
LEMMA CmdInvNext == CmdInv /\ [Next]_vars => CmdInv'
<1> SUFFICES ASSUME CmdInv, [Next]_vars PROVE CmdInv'
  OBVIOUS
<1>t. TypeOK /\ LockInv /\ CommandsKnown /\ SharedTypeOK /\ \A p \in Procs : ProcAt(p)
  BY DEF CmdInv, TypeOK, SharedTypeOK
<1>1. ASSUME NEW p \in Procs, NEW l \in Labels, Goto(p, l),
             UNCHANGED <<lockVars, kind, diskVars, cloudVars, argVars, cfg, existed, faults>>,
             AtCommand(l, cmd[p]), AtLock(l, cmd[p], lockPc[p]),
             AtConfig(l, cfg[p], tgt[p], lockPc[p], lockWs[p], lockMachine[p])
      PROVE  CmdInv'
  <2>1. SharedTypeOK' /\ existed' \in [Procs -> BOOLEAN] /\ faults' \in 0..MaxFaults
    BY <1>t, <1>1 DEF TypeOK, SharedTypeOK, diskVars, cloudVars
  <2> QED
    BY <1>1, <2>1, GoKeeps
<1>10. ASSUME NEW p \in Procs, ResolveWorkspace(p)
      PROVE  CmdInv'
  <2> DEFINE l == IF Ws(p) \in Listed THEN "load" ELSE "create"
  <2>1. Goto(p, l) /\ UNCHANGED <<lockVars, kind, diskVars, cloudVars, argVars, cfg, existed, faults>>
    BY <1>10 DEF ResolveWorkspace
  <2>2. /\ pc[p] = "resolve" /\ ProcAt(p) /\ cfg[p] \in Configs \cup {NoConfig}
        /\ cmd[p] \in WorkspaceCommand \cup MachineCommand \cup {"none"}
    BY <1>t, <1>10 DEF ResolveWorkspace, TypeOK
  <2>3. l \in Labels /\ AtCommand(l, cmd[p]) /\ AtLock(l, cmd[p], lockPc[p])
        /\ AtConfig(l, cfg[p], tgt[p], lockPc[p], lockWs[p], lockMachine[p])
    BY <1>10, <2>2 DEF ResolveWorkspace, ProcAt, AtCommand, AtLock, AtConfig, FreePlaces, HeldPlaces, NoConfigPlaces,
       MachinePlaces, Labels, WorkspaceCommand
  <2> HIDE DEF l
  <2> QED
    BY <1>1, <2>1, <2>3
<1>11. ASSUME NEW p \in Procs, GetWorkspace(p)
      PROVE  CmdInv'
  <2> DEFINE l == IF Ws(p) \in Listed THEN "load"
              ELSE IF cmd[p] = "stop" THEN "exit" ELSE "loadFailed"
  <2>1. Goto(p, l) /\ UNCHANGED <<lockVars, kind, diskVars, cloudVars, argVars, cfg, existed, faults>>
    BY <1>11 DEF GetWorkspace
  <2>2. /\ pc[p] = "get" /\ ProcAt(p) /\ cfg[p] \in Configs \cup {NoConfig}
        /\ cmd[p] \in WorkspaceCommand \cup MachineCommand \cup {"none"}
    BY <1>t, <1>11 DEF GetWorkspace, TypeOK
  <2>3. l \in Labels /\ AtCommand(l, cmd[p]) /\ AtLock(l, cmd[p], lockPc[p])
        /\ AtConfig(l, cfg[p], tgt[p], lockPc[p], lockWs[p], lockMachine[p])
    BY <1>11, <2>2 DEF GetWorkspace, ProcAt, AtCommand, AtLock, AtConfig, FreePlaces, HeldPlaces, EndPlaces,
       NoConfigPlaces, MachinePlaces, Labels, WorkspaceCommand
  <2> HIDE DEF l
  <2> QED
    BY <1>1, <2>1, <2>3
<1>12. ASSUME NEW p \in Procs, LoadMachineConfig(p)
      PROVE  CmdInv'
  <2> DEFINE l == IF Mach(p) \in machineFolder \cup {NoMachine}
              THEN CASE cmd[p] \in {"up", "build"} -> "configure"
                     [] cmd[p] \in {"stop", "delete"} -> "lock"
                     [] cmd[p] = "forceDelete" -> "deleteSingle"
              ELSE IF cmd[p] \in {"delete", "forceDelete"} THEN "loadFailed" ELSE "exit"
  <2>1. Goto(p, l) /\ UNCHANGED <<lockVars, kind, diskVars, cloudVars, argVars, cfg, existed, faults>>
    BY <1>12 DEF LoadMachineConfig
  <2>2. /\ pc[p] = "loadMachine" /\ ProcAt(p) /\ cfg[p] \in Configs \cup {NoConfig}
        /\ cmd[p] \in WorkspaceCommand \cup MachineCommand \cup {"none"}
    BY <1>t, <1>12 DEF LoadMachineConfig, TypeOK
  <2>3. l \in Labels /\ AtCommand(l, cmd[p]) /\ AtLock(l, cmd[p], lockPc[p])
        /\ AtConfig(l, cfg[p], tgt[p], lockPc[p], lockWs[p], lockMachine[p])
    BY <1>12, <2>2 DEF LoadMachineConfig, ProcAt, AtCommand, AtLock, AtConfig, FreePlaces, HeldPlaces, EndPlaces,
       NoConfigPlaces, MachinePlaces, Labels, WorkspaceCommand
  <2> HIDE DEF l
  <2> QED
    BY <1>1, <2>1, <2>3
<1>13. ASSUME NEW p \in Procs, MachineExists(p)
      PROVE  CmdInv'
  <2> DEFINE l == IF Mach(p) \in machineFolder THEN "reuse" ELSE "createMachine"
  <2>1. Goto(p, l) /\ UNCHANGED <<lockVars, kind, diskVars, cloudVars, argVars, cfg, existed, faults>>
    BY <1>13 DEF MachineExists
  <2>2. /\ pc[p] = "machineExists" /\ ProcAt(p) /\ cfg[p] \in Configs \cup {NoConfig}
        /\ cmd[p] \in WorkspaceCommand \cup MachineCommand \cup {"none"}
    BY <1>t, <1>13 DEF MachineExists, TypeOK
  <2>3. l \in Labels /\ AtCommand(l, cmd[p]) /\ AtLock(l, cmd[p], lockPc[p])
        /\ AtConfig(l, cfg[p], tgt[p], lockPc[p], lockWs[p], lockMachine[p])
    BY <1>13, <2>2 DEF MachineExists, ProcAt, AtCommand, AtLock, AtConfig, FreePlaces, HeldPlaces, NoConfigPlaces,
       MachinePlaces, Labels
  <2> HIDE DEF l
  <2> QED
    BY <1>1, <2>1, <2>3
<1>14. ASSUME NEW p \in Procs, ReuseMachine(p)
      PROVE  CmdInv'
  <2> DEFINE l == IF Mach(p) \in machineFolder THEN "configure" ELSE "cleanup"
  <2>1. Goto(p, l) /\ UNCHANGED <<lockVars, kind, diskVars, cloudVars, argVars, cfg, existed, faults>>
    BY <1>14 DEF ReuseMachine
  <2>2. /\ pc[p] = "reuse" /\ ProcAt(p) /\ cfg[p] \in Configs \cup {NoConfig}
        /\ cmd[p] \in WorkspaceCommand \cup MachineCommand \cup {"none"}
    BY <1>t, <1>14 DEF ReuseMachine, TypeOK
  <2>3. l \in Labels /\ AtCommand(l, cmd[p]) /\ AtLock(l, cmd[p], lockPc[p])
        /\ AtConfig(l, cfg[p], tgt[p], lockPc[p], lockWs[p], lockMachine[p])
    BY <1>14, <2>2 DEF ReuseMachine, ProcAt, AtCommand, AtLock, AtConfig, FreePlaces, HeldPlaces, NoConfigPlaces,
       MachinePlaces, Labels
  <2> HIDE DEF l
  <2> QED
    BY <1>1, <2>1, <2>3
<1>15. ASSUME NEW p \in Procs, StartWait(p)
      PROVE  CmdInv'
  <2> DEFINE l == CASE Status(p) = "Stopped" -> "providerStart"
                [] Status(p) = "NotFound" /\ Mach(p) # NoMachine -> "providerCreate"
                [] OTHER -> "agentUp"
  <2>1. Goto(p, l) /\ UNCHANGED <<lockVars, kind, diskVars, cloudVars, argVars, cfg, existed, faults>>
    BY <1>15 DEF StartWait
  <2>2. /\ pc[p] = "status" /\ ProcAt(p) /\ cfg[p] \in Configs \cup {NoConfig}
        /\ cmd[p] \in WorkspaceCommand \cup MachineCommand \cup {"none"}
    BY <1>t, <1>15 DEF StartWait, TypeOK
  <2>3. l \in Labels /\ AtCommand(l, cmd[p]) /\ AtLock(l, cmd[p], lockPc[p])
        /\ AtConfig(l, cfg[p], tgt[p], lockPc[p], lockWs[p], lockMachine[p])
    BY <1>15, <2>2 DEF StartWait, ProcAt, AtCommand, AtLock, AtConfig, FreePlaces, HeldPlaces, EndPlaces,
       MachinePlaces, Labels, Configs, Status, Mach, Places
  <2> HIDE DEF l
  <2> QED
    BY <1>1, <2>1, <2>3
<1>16. ASSUME NEW p \in Procs, StopStatus(p)
      PROVE  CmdInv'
  <2> DEFINE l == IF Status(p) = "Running" THEN "stopSingle" ELSE "unlock"
  <2>1. Goto(p, l) /\ UNCHANGED <<lockVars, kind, diskVars, cloudVars, argVars, cfg, existed, faults>>
    BY <1>16 DEF StopStatus
  <2>2. /\ pc[p] = "status" /\ ProcAt(p) /\ cfg[p] \in Configs \cup {NoConfig}
        /\ cmd[p] \in WorkspaceCommand \cup MachineCommand \cup {"none"}
    BY <1>t, <1>16 DEF StopStatus, TypeOK
  <2>3. l \in Labels /\ AtCommand(l, cmd[p]) /\ AtLock(l, cmd[p], lockPc[p])
        /\ AtConfig(l, cfg[p], tgt[p], lockPc[p], lockWs[p], lockMachine[p])
    BY <1>16, <2>2 DEF StopStatus, ProcAt, AtCommand, AtLock, AtConfig, FreePlaces, HeldPlaces, MachinePlaces, Labels
  <2> HIDE DEF l
  <2> QED
    BY <1>1, <2>1, <2>3
<1>17. ASSUME NEW p \in Procs, StopSingleMachine(p)
      PROVE  CmdInv'
  <2> DEFINE l == IF IsSingle(p) /\ UsersOf(SingleMachine) \subseteq {Ws(p)}
              THEN IF SingleMachine \in machineFolder THEN "providerStop" ELSE "unlock"
              ELSE IF JustContainer(p) THEN "agentStop" ELSE "providerStop"
  <2>1. Goto(p, l) /\ UNCHANGED <<lockVars, kind, diskVars, cloudVars, argVars, cfg, existed, faults>>
    BY <1>17 DEF StopSingleMachine
  <2>2. /\ pc[p] = "stopSingle" /\ ProcAt(p) /\ cfg[p] \in Configs \cup {NoConfig}
        /\ cmd[p] \in WorkspaceCommand \cup MachineCommand \cup {"none"}
    BY <1>t, <1>17 DEF StopSingleMachine, TypeOK
  <2>3. l \in Labels /\ AtCommand(l, cmd[p]) /\ AtLock(l, cmd[p], lockPc[p])
        /\ AtConfig(l, cfg[p], tgt[p], lockPc[p], lockWs[p], lockMachine[p])
    BY <1>17, <2>2, CommandsAssumption DEF StopSingleMachine, ProcAt, AtCommand, AtLock, AtConfig, FreePlaces,
       HeldPlaces, MachinePlaces, Labels, Configs, IsSingle, JustContainer, Mach, Places
  <2> HIDE DEF l
  <2> QED
    BY <1>1, <2>1, <2>3
<1>18. ASSUME NEW p \in Procs, DeleteStatus(p)
      PROVE  CmdInv'
  <2> DEFINE l == IF Status(p) = "NotFound" THEN "unlock" ELSE "deleteSingle"
  <2>1. Goto(p, l) /\ UNCHANGED <<lockVars, kind, diskVars, cloudVars, argVars, cfg, existed, faults>>
    BY <1>18 DEF DeleteStatus
  <2>2. /\ pc[p] = "status" /\ ProcAt(p) /\ cfg[p] \in Configs \cup {NoConfig}
        /\ cmd[p] \in WorkspaceCommand \cup MachineCommand \cup {"none"}
    BY <1>t, <1>18 DEF DeleteStatus, TypeOK
  <2>3. l \in Labels /\ AtCommand(l, cmd[p]) /\ AtLock(l, cmd[p], lockPc[p])
        /\ AtConfig(l, cfg[p], tgt[p], lockPc[p], lockWs[p], lockMachine[p])
    BY <1>18, <2>2 DEF DeleteStatus, ProcAt, AtCommand, AtLock, AtConfig, FreePlaces, HeldPlaces, MachinePlaces,
       Labels
  <2> HIDE DEF l
  <2> QED
    BY <1>1, <2>1, <2>3
<1>19. ASSUME NEW p \in Procs, DeleteSingleMachine(p)
      PROVE  CmdInv'
  <2> DEFINE l == IF IsSingle(p) /\ UsersOf(SingleMachine) \subseteq {Ws(p)}
              THEN IF SingleMachine \in machineFolder THEN "providerDelete" ELSE Return(p)
              ELSE IF JustContainer(p) THEN "agentDelete" ELSE "providerDelete"
  <2>1. Goto(p, l) /\ UNCHANGED <<lockVars, kind, diskVars, cloudVars, argVars, cfg, existed, faults>>
    BY <1>19 DEF DeleteSingleMachine
  <2>2. /\ pc[p] = "deleteSingle" /\ ProcAt(p) /\ cfg[p] \in Configs \cup {NoConfig}
        /\ cmd[p] \in WorkspaceCommand \cup MachineCommand \cup {"none"}
    BY <1>t, <1>19 DEF DeleteSingleMachine, TypeOK
  <2>3. l \in Labels /\ AtCommand(l, cmd[p]) /\ AtLock(l, cmd[p], lockPc[p])
        /\ AtConfig(l, cfg[p], tgt[p], lockPc[p], lockWs[p], lockMachine[p])
    BY <1>19, <2>2, CommandsAssumption DEF DeleteSingleMachine, ProcAt, AtCommand, AtLock, AtConfig, FreePlaces,
       HeldPlaces, EndPlaces, NoConfigPlaces, MachinePlaces, Labels, Configs, IsSingle, JustContainer, Mach, Places,
       Return
  <2> HIDE DEF l
  <2> QED
    BY <1>1, <2>1, <2>3
<1>20. ASSUME NEW p \in Procs, BuildDelete(p)
      PROVE  CmdInv'
  <2> DEFINE l == IF JustContainer(p) THEN "agentDelete" ELSE "providerDelete"
  <2>1. Goto(p, l) /\ UNCHANGED <<lockVars, kind, diskVars, cloudVars, argVars, cfg, existed, faults>>
    BY <1>20 DEF BuildDelete
  <2>2. /\ pc[p] = "buildDelete" /\ ProcAt(p) /\ cfg[p] \in Configs \cup {NoConfig}
        /\ cmd[p] \in WorkspaceCommand \cup MachineCommand \cup {"none"}
    BY <1>t, <1>20 DEF BuildDelete, TypeOK
  <2>3. l \in Labels /\ AtCommand(l, cmd[p]) /\ AtLock(l, cmd[p], lockPc[p])
        /\ AtConfig(l, cfg[p], tgt[p], lockPc[p], lockWs[p], lockMachine[p])
    BY <1>20, <2>2 DEF BuildDelete, ProcAt, AtCommand, AtLock, AtConfig, FreePlaces, HeldPlaces, ProviderPlaces,
       NoConfigPlaces, MachinePlaces, Labels, Configs, JustContainer, Mach, Places
  <2> HIDE DEF l
  <2> QED
    BY <1>1, <2>1, <2>3
<1>21. ASSUME NEW p \in Procs, GetMachine(p)
      PROVE  CmdInv'
  <2> DEFINE l == IF Mach(p) \notin machineFolder THEN "exit"
              ELSE CASE cmd[p] = "machineStart" -> "providerStart"
                     [] cmd[p] = "machineStop" -> "providerStop"
                     [] cmd[p] = "machineDelete" -> "machineUsers"
  <2>1. Goto(p, l) /\ UNCHANGED <<lockVars, kind, diskVars, cloudVars, argVars, cfg, existed, faults>>
    BY <1>21 DEF GetMachine
  <2>2. /\ pc[p] = "machineGet" /\ ProcAt(p) /\ cfg[p] \in Configs \cup {NoConfig}
        /\ cmd[p] \in WorkspaceCommand \cup MachineCommand \cup {"none"}
    BY <1>t, <1>21 DEF GetMachine, TypeOK
  <2>3. l \in Labels /\ AtCommand(l, cmd[p]) /\ AtLock(l, cmd[p], lockPc[p])
        /\ AtConfig(l, cfg[p], tgt[p], lockPc[p], lockWs[p], lockMachine[p])
    BY <1>21, <2>2 DEF GetMachine, ProcAt, AtCommand, AtLock, AtConfig, FreePlaces, HeldPlaces, NoConfigPlaces,
       MachinePlaces, Labels
  <2> HIDE DEF l
  <2> QED
    BY <1>1, <2>1, <2>3
<1>22. ASSUME NEW p \in Procs, MachineUsers(p)
      PROVE  CmdInv'
  <2> DEFINE l == IF UsersOf(Mach(p)) = {} THEN "providerDelete" ELSE "exit"
  <2>1. Goto(p, l) /\ UNCHANGED <<lockVars, kind, diskVars, cloudVars, argVars, cfg, existed, faults>>
    BY <1>22 DEF MachineUsers
  <2>2. /\ pc[p] = "machineUsers" /\ ProcAt(p) /\ cfg[p] \in Configs \cup {NoConfig}
        /\ cmd[p] \in WorkspaceCommand \cup MachineCommand \cup {"none"}
    BY <1>t, <1>22 DEF MachineUsers, TypeOK
  <2>3. l \in Labels /\ AtCommand(l, cmd[p]) /\ AtLock(l, cmd[p], lockPc[p])
        /\ AtConfig(l, cfg[p], tgt[p], lockPc[p], lockWs[p], lockMachine[p])
    BY <1>22, <2>2 DEF MachineUsers, ProcAt, AtCommand, AtLock, AtConfig, FreePlaces, HeldPlaces, NoConfigPlaces,
       MachinePlaces, Labels
  <2> HIDE DEF l
  <2> QED
    BY <1>1, <2>1, <2>3
<1>23. ASSUME NEW p \in Procs, StatusFails(p)
      PROVE  CmdInv'
  <2>1. PICK l \in {"unlock"} : Goto(p, l)
    BY <1>23 DEF StatusFails
  <2>2. UNCHANGED <<lockVars, kind, argVars, cfg>> /\ pc[p] = "status" /\ existed' \in [Procs -> BOOLEAN]
    BY <1>t, <1>23 DEF StatusFails, TypeOK
  <2>3. ProcAt(p) /\ cfg[p] \in Configs \cup {NoConfig}
        /\ cmd[p] \in WorkspaceCommand \cup MachineCommand \cup {"none"} /\ tgt[p] \in Workspaces
    BY <1>t DEF TypeOK
  <2>4. l \in Labels /\ AtCommand(l, cmd[p]) /\ AtLock(l, cmd[p], lockPc[p])
        /\ AtConfig(l, cfg[p], tgt[p], lockPc[p], lockWs[p], lockMachine[p])
    BY <2>1, <2>2, <2>3 DEF ProcAt, AtCommand, AtLock, AtConfig, FreePlaces, HeldPlaces, NoConfigPlaces,
       MachinePlaces, ProviderPlaces, EndPlaces, Labels
  <2>5. faults' \in 0..MaxFaults
    BY <1>t, <1>23, CommandsAssumption DEF StatusFails, Fault, TypeOK
  <2>6. SharedTypeOK'
    BY <1>t, <1>23, <2>2 DEF StatusFails, SharedTypeOK, diskVars, cloudVars
  <2> QED
    BY <2>1, <2>2, <2>4, <2>5, <2>6, GoKeeps
<1>30. ASSUME NEW p \in Procs, BuildExists(p)
      PROVE  CmdInv'
  <2>1. PICK l \in {"resolve"} : Goto(p, l)
    BY <1>30 DEF BuildExists
  <2>2. UNCHANGED <<lockVars, kind, argVars, cfg>> /\ pc[p] = "buildExists" /\ existed' \in [Procs -> BOOLEAN]
    BY <1>t, <1>30 DEF BuildExists, TypeOK
  <2>3. ProcAt(p) /\ cfg[p] \in Configs \cup {NoConfig}
        /\ cmd[p] \in WorkspaceCommand \cup MachineCommand \cup {"none"} /\ tgt[p] \in Workspaces
    BY <1>t DEF TypeOK
  <2>4. l \in Labels /\ AtCommand(l, cmd[p]) /\ AtLock(l, cmd[p], lockPc[p])
        /\ AtConfig(l, cfg[p], tgt[p], lockPc[p], lockWs[p], lockMachine[p])
    BY <2>1, <2>2, <2>3 DEF ProcAt, AtCommand, AtLock, AtConfig, FreePlaces, HeldPlaces, NoConfigPlaces,
       MachinePlaces, Labels
  <2>5. faults' \in 0..MaxFaults
    BY <1>t, <1>30, CommandsAssumption DEF BuildExists, TypeOK
  <2>6. pc[p] \notin NoConfigPlaces => cfg[p] \in Configs /\ (pc[p] \in MachinePlaces => cfg[p].machine \in Machines)
    BY <2>3 DEF ProcAt, AtConfig
  <2>7. SharedTypeOK'
    BY <1>t, <1>30, <2>2, <2>3, <2>6 DEF BuildExists, SharedTypeOK, diskVars, cloudVars
  <2> QED
    BY <2>1, <2>2, <2>4, <2>5, <2>7, GoKeeps
<1>31. ASSUME NEW p \in Procs, ChangeLastUsed(p)
      PROVE  CmdInv'
  <2>1. PICK l \in {"loadMachine"} : Goto(p, l)
    BY <1>31 DEF ChangeLastUsed
  <2>2. UNCHANGED <<lockVars, kind, argVars, cfg>> /\ pc[p] = "touch" /\ existed' \in [Procs -> BOOLEAN]
    BY <1>t, <1>31 DEF ChangeLastUsed, TypeOK
  <2>3. ProcAt(p) /\ cfg[p] \in Configs \cup {NoConfig}
        /\ cmd[p] \in WorkspaceCommand \cup MachineCommand \cup {"none"} /\ tgt[p] \in Workspaces
    BY <1>t DEF TypeOK
  <2>4. l \in Labels /\ AtCommand(l, cmd[p]) /\ AtLock(l, cmd[p], lockPc[p])
        /\ AtConfig(l, cfg[p], tgt[p], lockPc[p], lockWs[p], lockMachine[p])
    BY <2>1, <2>2, <2>3 DEF ProcAt, AtCommand, AtLock, AtConfig, FreePlaces, HeldPlaces, NoConfigPlaces,
       MachinePlaces, Labels, WorkspaceCommand
  <2>5. faults' \in 0..MaxFaults
    BY <1>t, <1>31, CommandsAssumption DEF ChangeLastUsed, TypeOK
  <2>6. pc[p] \notin NoConfigPlaces => cfg[p] \in Configs /\ (pc[p] \in MachinePlaces => cfg[p].machine \in Machines)
    BY <2>3 DEF ProcAt, AtConfig
  <2>7. SharedTypeOK'
    BY <1>t, <1>31, <2>2, <2>3, <2>6 DEF ChangeLastUsed, SharedTypeOK, cloudVars, SaveWorkspaceConfig
  <2> QED
    BY <2>1, <2>2, <2>4, <2>5, <2>7, GoKeeps
<1>32. ASSUME NEW p \in Procs, CreateMachineFolder(p)
      PROVE  CmdInv'
  <2>1. PICK l \in {"machineOptions"} : Goto(p, l)
    BY <1>32 DEF CreateMachineFolder
  <2>2. UNCHANGED <<lockVars, kind, argVars, cfg>> /\ pc[p] = "createMachine" /\ existed' \in [Procs -> BOOLEAN]
    BY <1>t, <1>32 DEF CreateMachineFolder, TypeOK
  <2>3. ProcAt(p) /\ cfg[p] \in Configs \cup {NoConfig}
        /\ cmd[p] \in WorkspaceCommand \cup MachineCommand \cup {"none"} /\ tgt[p] \in Workspaces
    BY <1>t DEF TypeOK
  <2>4. l \in Labels /\ AtCommand(l, cmd[p]) /\ AtLock(l, cmd[p], lockPc[p])
        /\ AtConfig(l, cfg[p], tgt[p], lockPc[p], lockWs[p], lockMachine[p])
    BY <2>1, <2>2, <2>3 DEF ProcAt, AtCommand, AtLock, AtConfig, FreePlaces, HeldPlaces, NoConfigPlaces,
       MachinePlaces, Labels
  <2>5. faults' \in 0..MaxFaults
    BY <1>t, <1>32, CommandsAssumption DEF CreateMachineFolder, TypeOK
  <2>6. pc[p] \notin NoConfigPlaces => cfg[p] \in Configs /\ (pc[p] \in MachinePlaces => cfg[p].machine \in Machines)
    BY <2>3 DEF ProcAt, AtConfig
  <2>7. SharedTypeOK'
    BY <1>t, <1>32, <2>2, <2>3, <2>6 DEF CreateMachineFolder, SharedTypeOK, NoConfigPlaces, MachinePlaces, cloudVars,
       Mach
  <2> QED
    BY <2>1, <2>2, <2>4, <2>5, <2>7, GoKeeps
<1>33. ASSUME NEW p \in Procs, RefreshMachineOptions(p)
      PROVE  CmdInv'
  <2>1. PICK l \in {"providerCreate", IF cmd[p] = "machineCreate" THEN "exit" ELSE "cleanupMachine"} : Goto(p, l)
    BY <1>33 DEF RefreshMachineOptions
  <2>2. UNCHANGED <<lockVars, kind, argVars, cfg>> /\ pc[p] = "machineOptions" /\ existed' \in [Procs -> BOOLEAN]
    BY <1>t, <1>33 DEF RefreshMachineOptions, TypeOK
  <2>3. ProcAt(p) /\ cfg[p] \in Configs \cup {NoConfig}
        /\ cmd[p] \in WorkspaceCommand \cup MachineCommand \cup {"none"} /\ tgt[p] \in Workspaces
    BY <1>t DEF TypeOK
  <2>4. l \in Labels /\ AtCommand(l, cmd[p]) /\ AtLock(l, cmd[p], lockPc[p])
        /\ AtConfig(l, cfg[p], tgt[p], lockPc[p], lockWs[p], lockMachine[p])
    BY <2>1, <2>2, <2>3 DEF ProcAt, AtCommand, AtLock, AtConfig, FreePlaces, HeldPlaces, NoConfigPlaces,
       MachinePlaces, Labels
  <2>5. faults' \in 0..MaxFaults
    BY <1>t, <1>33, CommandsAssumption DEF RefreshMachineOptions, Fault, TypeOK
  <2>6. pc[p] \notin NoConfigPlaces => cfg[p] \in Configs /\ (pc[p] \in MachinePlaces => cfg[p].machine \in Machines)
    BY <2>3 DEF ProcAt, AtConfig
  <2>7. SharedTypeOK'
    BY <1>t, <1>33, <2>2, <2>3, <2>6 DEF RefreshMachineOptions, SharedTypeOK, diskVars, cloudVars
  <2> QED
    BY <2>1, <2>2, <2>4, <2>5, <2>7, GoKeeps
<1>34. ASSUME NEW p \in Procs, CleanupMachine(p)
      PROVE  CmdInv'
  <2>1. PICK l \in {"cleanup"} : Goto(p, l)
    BY <1>34 DEF CleanupMachine
  <2>2. UNCHANGED <<lockVars, kind, argVars, cfg>> /\ pc[p] = "cleanupMachine" /\ existed' \in [Procs -> BOOLEAN]
    BY <1>t, <1>34 DEF CleanupMachine, TypeOK
  <2>3. ProcAt(p) /\ cfg[p] \in Configs \cup {NoConfig}
        /\ cmd[p] \in WorkspaceCommand \cup MachineCommand \cup {"none"} /\ tgt[p] \in Workspaces
    BY <1>t DEF TypeOK
  <2>4. l \in Labels /\ AtCommand(l, cmd[p]) /\ AtLock(l, cmd[p], lockPc[p])
        /\ AtConfig(l, cfg[p], tgt[p], lockPc[p], lockWs[p], lockMachine[p])
    BY <2>1, <2>2, <2>3 DEF ProcAt, AtCommand, AtLock, AtConfig, FreePlaces, HeldPlaces, NoConfigPlaces,
       MachinePlaces, Labels
  <2>5. faults' \in 0..MaxFaults
    BY <1>t, <1>34, CommandsAssumption DEF CleanupMachine, TypeOK
  <2>6. pc[p] \notin NoConfigPlaces => cfg[p] \in Configs /\ (pc[p] \in MachinePlaces => cfg[p].machine \in Machines)
    BY <2>3 DEF ProcAt, AtConfig
  <2>7. SharedTypeOK'
    BY <1>t, <1>34, <2>2, <2>3, <2>6 DEF CleanupMachine, SharedTypeOK, cloudVars
  <2> QED
    BY <2>1, <2>2, <2>4, <2>5, <2>7, GoKeeps
<1>35. ASSUME NEW p \in Procs, CleanupWorkspace(p)
      PROVE  CmdInv'
  <2>1. PICK l \in {"exit"} : Goto(p, l)
    BY <1>35 DEF CleanupWorkspace
  <2>2. UNCHANGED <<lockVars, kind, argVars, cfg>> /\ pc[p] = "cleanup" /\ existed' \in [Procs -> BOOLEAN]
    BY <1>t, <1>35 DEF CleanupWorkspace, TypeOK
  <2>3. ProcAt(p) /\ cfg[p] \in Configs \cup {NoConfig}
        /\ cmd[p] \in WorkspaceCommand \cup MachineCommand \cup {"none"} /\ tgt[p] \in Workspaces
    BY <1>t DEF TypeOK
  <2>4. l \in Labels /\ AtCommand(l, cmd[p]) /\ AtLock(l, cmd[p], lockPc[p])
        /\ AtConfig(l, cfg[p], tgt[p], lockPc[p], lockWs[p], lockMachine[p])
    BY <2>1, <2>2, <2>3 DEF ProcAt, AtCommand, AtLock, AtConfig, FreePlaces, HeldPlaces, NoConfigPlaces,
       MachinePlaces, Labels
  <2>5. faults' \in 0..MaxFaults
    BY <1>t, <1>35, CommandsAssumption DEF CleanupWorkspace, TypeOK
  <2>6. pc[p] \notin NoConfigPlaces => cfg[p] \in Configs /\ (pc[p] \in MachinePlaces => cfg[p].machine \in Machines)
    BY <2>3 DEF ProcAt, AtConfig
  <2>7. SharedTypeOK'
    BY <1>t, <1>35, <2>2, <2>3, <2>6 DEF CleanupWorkspace, SharedTypeOK, cloudVars, DeleteWorkspaceFolder
  <2> QED
    BY <2>1, <2>2, <2>4, <2>5, <2>7, GoKeeps
<1>36. ASSUME NEW p \in Procs, Configure(p)
      PROVE  CmdInv'
  <2>1. PICK l \in {"refresh"} : Goto(p, l)
    BY <1>36 DEF Configure
  <2>2. UNCHANGED <<lockVars, kind, argVars, cfg>> /\ pc[p] = "configure" /\ existed' \in [Procs -> BOOLEAN]
    BY <1>t, <1>36 DEF Configure, TypeOK
  <2>3. ProcAt(p) /\ cfg[p] \in Configs \cup {NoConfig}
        /\ cmd[p] \in WorkspaceCommand \cup MachineCommand \cup {"none"} /\ tgt[p] \in Workspaces
    BY <1>t DEF TypeOK
  <2>4. l \in Labels /\ AtCommand(l, cmd[p]) /\ AtLock(l, cmd[p], lockPc[p])
        /\ AtConfig(l, cfg[p], tgt[p], lockPc[p], lockWs[p], lockMachine[p])
    BY <2>1, <2>2, <2>3 DEF ProcAt, AtCommand, AtLock, AtConfig, FreePlaces, HeldPlaces, NoConfigPlaces,
       MachinePlaces, Labels
  <2>5. faults' \in 0..MaxFaults
    BY <1>t, <1>36, CommandsAssumption DEF Configure, TypeOK
  <2>6. pc[p] \notin NoConfigPlaces => cfg[p] \in Configs /\ (pc[p] \in MachinePlaces => cfg[p].machine \in Machines)
    BY <2>3 DEF ProcAt, AtConfig
  <2>7. SharedTypeOK'
    BY <1>t, <1>36, <2>2, <2>3, <2>6 DEF Configure, SharedTypeOK, diskVars, cloudVars, SaveWorkspaceConfig
  <2> QED
    BY <2>1, <2>2, <2>4, <2>5, <2>7, GoKeeps
<1>37. ASSUME NEW p \in Procs, SaveOptions(p)
      PROVE  CmdInv'
  <2>1. PICK l \in {"lock"} : Goto(p, l)
    BY <1>37 DEF SaveOptions
  <2>2. UNCHANGED <<lockVars, kind, argVars, cfg>> /\ pc[p] = "saveOptions" /\ existed' \in [Procs -> BOOLEAN]
    BY <1>t, <1>37 DEF SaveOptions, TypeOK
  <2>3. ProcAt(p) /\ cfg[p] \in Configs \cup {NoConfig}
        /\ cmd[p] \in WorkspaceCommand \cup MachineCommand \cup {"none"} /\ tgt[p] \in Workspaces
    BY <1>t DEF TypeOK
  <2>4. l \in Labels /\ AtCommand(l, cmd[p]) /\ AtLock(l, cmd[p], lockPc[p])
        /\ AtConfig(l, cfg[p], tgt[p], lockPc[p], lockWs[p], lockMachine[p])
    BY <2>1, <2>2, <2>3 DEF ProcAt, AtCommand, AtLock, AtConfig, FreePlaces, HeldPlaces, NoConfigPlaces,
       MachinePlaces, Labels
  <2>5. faults' \in 0..MaxFaults
    BY <1>t, <1>37, CommandsAssumption DEF SaveOptions, TypeOK
  <2>6. pc[p] \notin NoConfigPlaces => cfg[p] \in Configs /\ (pc[p] \in MachinePlaces => cfg[p].machine \in Machines)
    BY <2>3 DEF ProcAt, AtConfig
  <2>7. SharedTypeOK'
    BY <1>t, <1>37, <2>2, <2>3, <2>6 DEF SaveOptions, SharedTypeOK, Configs, Places, NoConfigPlaces, diskVars,
       cloudVars, SaveWorkspaceConfig, Mach
  <2> QED
    BY <2>1, <2>2, <2>4, <2>5, <2>7, GoKeeps
<1>38. ASSUME NEW p \in Procs, AgentUp(p)
      PROVE  CmdInv'
  <2>1. PICK l \in {IF cmd[p] = "up" THEN "saveResult" ELSE "unlock", "unlock"} : Goto(p, l)
    BY <1>38 DEF AgentUp
  <2>2. UNCHANGED <<lockVars, kind, argVars, cfg>> /\ pc[p] = "agentUp" /\ existed' \in [Procs -> BOOLEAN]
    BY <1>t, <1>38 DEF AgentUp, TypeOK
  <2>3. ProcAt(p) /\ cfg[p] \in Configs \cup {NoConfig}
        /\ cmd[p] \in WorkspaceCommand \cup MachineCommand \cup {"none"} /\ tgt[p] \in Workspaces
    BY <1>t DEF TypeOK
  <2>4. l \in Labels /\ AtCommand(l, cmd[p]) /\ AtLock(l, cmd[p], lockPc[p])
        /\ AtConfig(l, cfg[p], tgt[p], lockPc[p], lockWs[p], lockMachine[p])
    BY <2>1, <2>2, <2>3 DEF ProcAt, AtCommand, AtLock, AtConfig, FreePlaces, HeldPlaces, EndPlaces, MachinePlaces,
       Labels
  <2>5. faults' \in 0..MaxFaults
    BY <1>t, <1>38, CommandsAssumption DEF AgentUp, Fault, TypeOK
  <2>6. pc[p] \notin NoConfigPlaces => cfg[p] \in Configs /\ (pc[p] \in MachinePlaces => cfg[p].machine \in Machines)
    BY <2>3 DEF ProcAt, AtConfig
  <2>7. SharedTypeOK'
    BY <1>t, <1>38, <2>2, <2>3, <2>6 DEF AgentUp, SharedTypeOK, diskVars
  <2> QED
    BY <2>1, <2>2, <2>4, <2>5, <2>7, GoKeeps
<1>39. ASSUME NEW p \in Procs, SaveWorkspaceResult(p)
      PROVE  CmdInv'
  <2>1. PICK l \in {"unlock"} : Goto(p, l)
    BY <1>39 DEF SaveWorkspaceResult
  <2>2. UNCHANGED <<lockVars, kind, argVars, cfg>> /\ pc[p] = "saveResult" /\ existed' \in [Procs -> BOOLEAN]
    BY <1>t, <1>39 DEF SaveWorkspaceResult, TypeOK
  <2>3. ProcAt(p) /\ cfg[p] \in Configs \cup {NoConfig}
        /\ cmd[p] \in WorkspaceCommand \cup MachineCommand \cup {"none"} /\ tgt[p] \in Workspaces
    BY <1>t DEF TypeOK
  <2>4. l \in Labels /\ AtCommand(l, cmd[p]) /\ AtLock(l, cmd[p], lockPc[p])
        /\ AtConfig(l, cfg[p], tgt[p], lockPc[p], lockWs[p], lockMachine[p])
    BY <2>1, <2>2, <2>3 DEF ProcAt, AtCommand, AtLock, AtConfig, FreePlaces, HeldPlaces, MachinePlaces, Labels
  <2>5. faults' \in 0..MaxFaults
    BY <1>t, <1>39, CommandsAssumption DEF SaveWorkspaceResult, TypeOK
  <2>6. pc[p] \notin NoConfigPlaces => cfg[p] \in Configs /\ (pc[p] \in MachinePlaces => cfg[p].machine \in Machines)
    BY <2>3 DEF ProcAt, AtConfig
  <2>7. SharedTypeOK'
    BY <1>t, <1>39, <2>2, <2>3, <2>6 DEF SaveWorkspaceResult, SharedTypeOK, cloudVars, Ws
  <2> QED
    BY <2>1, <2>2, <2>4, <2>5, <2>7, GoKeeps
<1>40. ASSUME NEW p \in Procs, AgentStop(p)
      PROVE  CmdInv'
  <2>1. PICK l \in {Return(p)} : Goto(p, l)
    BY <1>40 DEF AgentStop
  <2>2. UNCHANGED <<lockVars, kind, argVars, cfg>> /\ pc[p] = "agentStop" /\ existed' \in [Procs -> BOOLEAN]
    BY <1>t, <1>40 DEF AgentStop, TypeOK
  <2>3. ProcAt(p) /\ cfg[p] \in Configs \cup {NoConfig}
        /\ cmd[p] \in WorkspaceCommand \cup MachineCommand \cup {"none"} /\ tgt[p] \in Workspaces
    BY <1>t DEF TypeOK
  <2>4. l \in Labels /\ AtCommand(l, cmd[p]) /\ AtLock(l, cmd[p], lockPc[p])
        /\ AtConfig(l, cfg[p], tgt[p], lockPc[p], lockWs[p], lockMachine[p])
    BY <2>1, <2>2, <2>3 DEF ProcAt, AtCommand, AtLock, AtConfig, FreePlaces, HeldPlaces, MachinePlaces, Labels, Return
  <2>5. faults' \in 0..MaxFaults
    BY <1>t, <1>40, CommandsAssumption DEF AgentStop, Fault, TypeOK
  <2>6. pc[p] \notin NoConfigPlaces => cfg[p] \in Configs /\ (pc[p] \in MachinePlaces => cfg[p].machine \in Machines)
    BY <2>3 DEF ProcAt, AtConfig
  <2>7. SharedTypeOK'
    BY <1>t, <1>40, <2>2, <2>3, <2>6 DEF AgentStop, SharedTypeOK, diskVars
  <2> QED
    BY <2>1, <2>2, <2>4, <2>5, <2>7, GoKeeps
<1>41. ASSUME NEW p \in Procs, AgentDelete(p)
      PROVE  CmdInv'
  <2>1. PICK l \in {"rmWorkspace", IF Forced(p) THEN "rmWorkspace" ELSE Return(p)} : Goto(p, l)
    BY <1>41 DEF AgentDelete
  <2>2. UNCHANGED <<lockVars, kind, argVars, cfg>> /\ pc[p] = "agentDelete" /\ existed' \in [Procs -> BOOLEAN]
    BY <1>t, <1>41 DEF AgentDelete, TypeOK
  <2>3. ProcAt(p) /\ cfg[p] \in Configs \cup {NoConfig}
        /\ cmd[p] \in WorkspaceCommand \cup MachineCommand \cup {"none"} /\ tgt[p] \in Workspaces
    BY <1>t DEF TypeOK
  <2>4. l \in Labels /\ AtCommand(l, cmd[p]) /\ AtLock(l, cmd[p], lockPc[p])
        /\ AtConfig(l, cfg[p], tgt[p], lockPc[p], lockWs[p], lockMachine[p])
    BY <2>1, <2>2, <2>3 DEF ProcAt, AtCommand, AtLock, AtConfig, FreePlaces, HeldPlaces, ProviderPlaces, EndPlaces,
       NoConfigPlaces, MachinePlaces, Labels, Return
  <2>5. faults' \in 0..MaxFaults
    BY <1>t, <1>41, CommandsAssumption DEF AgentDelete, Fault, TypeOK
  <2>6. pc[p] \notin NoConfigPlaces => cfg[p] \in Configs /\ (pc[p] \in MachinePlaces => cfg[p].machine \in Machines)
    BY <2>3 DEF ProcAt, AtConfig
  <2>7. SharedTypeOK'
    BY <1>t, <1>41, <2>2, <2>3, <2>6 DEF AgentDelete, SharedTypeOK, diskVars
  <2> QED
    BY <2>1, <2>2, <2>4, <2>5, <2>7, GoKeeps
<1>42. ASSUME NEW p \in Procs, DeleteMachineFolder(p)
      PROVE  CmdInv'
  <2>1. PICK l \in {IF cmd[p] = "machineDelete" THEN "exit" ELSE "rmWorkspace"} : Goto(p, l)
    BY <1>42 DEF DeleteMachineFolder
  <2>2. UNCHANGED <<lockVars, kind, argVars, cfg>> /\ pc[p] = "rmMachine" /\ existed' \in [Procs -> BOOLEAN]
    BY <1>t, <1>42 DEF DeleteMachineFolder, TypeOK
  <2>3. ProcAt(p) /\ cfg[p] \in Configs \cup {NoConfig}
        /\ cmd[p] \in WorkspaceCommand \cup MachineCommand \cup {"none"} /\ tgt[p] \in Workspaces
    BY <1>t DEF TypeOK
  <2>4. l \in Labels /\ AtCommand(l, cmd[p]) /\ AtLock(l, cmd[p], lockPc[p])
        /\ AtConfig(l, cfg[p], tgt[p], lockPc[p], lockWs[p], lockMachine[p])
    BY <2>1, <2>2, <2>3 DEF ProcAt, AtCommand, AtLock, AtConfig, FreePlaces, HeldPlaces, ProviderPlaces, EndPlaces,
       NoConfigPlaces, MachinePlaces, Labels, WorkspaceCommand
  <2>5. faults' \in 0..MaxFaults
    BY <1>t, <1>42, CommandsAssumption DEF DeleteMachineFolder, TypeOK
  <2>6. pc[p] \notin NoConfigPlaces => cfg[p] \in Configs /\ (pc[p] \in MachinePlaces => cfg[p].machine \in Machines)
    BY <2>3 DEF ProcAt, AtConfig
  <2>7. SharedTypeOK'
    BY <1>t, <1>42, <2>2, <2>3, <2>6 DEF DeleteMachineFolder, SharedTypeOK, cloudVars
  <2> QED
    BY <2>1, <2>2, <2>4, <2>5, <2>7, GoKeeps
<1>43. ASSUME NEW p \in Procs, DeleteWorkspace(p)
      PROVE  CmdInv'
  <2>1. PICK l \in {Return(p)} : Goto(p, l)
    BY <1>43 DEF DeleteWorkspace
  <2>2. UNCHANGED <<lockVars, kind, argVars, cfg>> /\ pc[p] = "rmWorkspace" /\ existed' \in [Procs -> BOOLEAN]
    BY <1>t, <1>43 DEF DeleteWorkspace, TypeOK
  <2>3. ProcAt(p) /\ cfg[p] \in Configs \cup {NoConfig}
        /\ cmd[p] \in WorkspaceCommand \cup MachineCommand \cup {"none"} /\ tgt[p] \in Workspaces
    BY <1>t DEF TypeOK
  <2>4. l \in Labels /\ AtCommand(l, cmd[p]) /\ AtLock(l, cmd[p], lockPc[p])
        /\ AtConfig(l, cfg[p], tgt[p], lockPc[p], lockWs[p], lockMachine[p])
    BY <2>1, <2>2, <2>3 DEF ProcAt, AtCommand, AtLock, AtConfig, FreePlaces, HeldPlaces, ProviderPlaces, EndPlaces,
       NoConfigPlaces, MachinePlaces, Labels, Return
  <2>5. faults' \in 0..MaxFaults
    BY <1>t, <1>43, CommandsAssumption DEF DeleteWorkspace, TypeOK
  <2>6. pc[p] \notin NoConfigPlaces => cfg[p] \in Configs /\ (pc[p] \in MachinePlaces => cfg[p].machine \in Machines)
    BY <2>3 DEF ProcAt, AtConfig
  <2>7. SharedTypeOK'
    BY <1>t, <1>43, <2>2, <2>3, <2>6 DEF DeleteWorkspace, SharedTypeOK, cloudVars, DeleteWorkspaceFolder
  <2> QED
    BY <2>1, <2>2, <2>4, <2>5, <2>7, GoKeeps
<1>44. ASSUME NEW p \in Procs, DeleteLoadFailed(p)
      PROVE  CmdInv'
  <2>1. PICK l \in {"exit"} : Goto(p, l)
    BY <1>44 DEF DeleteLoadFailed
  <2>2. UNCHANGED <<lockVars, kind, argVars, cfg>> /\ pc[p] = "loadFailed" /\ existed' \in [Procs -> BOOLEAN]
    BY <1>t, <1>44 DEF DeleteLoadFailed, TypeOK
  <2>3. ProcAt(p) /\ cfg[p] \in Configs \cup {NoConfig}
        /\ cmd[p] \in WorkspaceCommand \cup MachineCommand \cup {"none"} /\ tgt[p] \in Workspaces
    BY <1>t DEF TypeOK
  <2>4. l \in Labels /\ AtCommand(l, cmd[p]) /\ AtLock(l, cmd[p], lockPc[p])
        /\ AtConfig(l, cfg[p], tgt[p], lockPc[p], lockWs[p], lockMachine[p])
    BY <2>1, <2>2, <2>3 DEF ProcAt, AtCommand, AtLock, AtConfig, FreePlaces, HeldPlaces, EndPlaces, NoConfigPlaces,
       MachinePlaces, Labels
  <2>5. faults' \in 0..MaxFaults
    BY <1>t, <1>44, CommandsAssumption DEF DeleteLoadFailed, TypeOK
  <2>6. pc[p] \notin NoConfigPlaces => cfg[p] \in Configs /\ (pc[p] \in MachinePlaces => cfg[p].machine \in Machines)
    BY <2>3 DEF ProcAt, AtConfig
  <2>7. SharedTypeOK'
    BY <1>t, <1>44, <2>2, <2>3, <2>6 DEF DeleteLoadFailed, SharedTypeOK, diskVars, cloudVars, DeleteWorkspaceFolder
  <2> QED
    BY <2>1, <2>2, <2>4, <2>5, <2>7, GoKeeps
<1>45. ASSUME NEW p \in Procs, ResolveMachine(p)
      PROVE  CmdInv'
  <2>1. PICK l \in {"machineOptions"} : Goto(p, l)
    BY <1>45 DEF ResolveMachine
  <2>2. UNCHANGED <<lockVars, kind, argVars, cfg>> /\ pc[p] = "machineResolve" /\ existed' \in [Procs -> BOOLEAN]
    BY <1>t, <1>45 DEF ResolveMachine, TypeOK
  <2>3. ProcAt(p) /\ cfg[p] \in Configs \cup {NoConfig}
        /\ cmd[p] \in WorkspaceCommand \cup MachineCommand \cup {"none"} /\ tgt[p] \in Workspaces
    BY <1>t DEF TypeOK
  <2>4. l \in Labels /\ AtCommand(l, cmd[p]) /\ AtLock(l, cmd[p], lockPc[p])
        /\ AtConfig(l, cfg[p], tgt[p], lockPc[p], lockWs[p], lockMachine[p])
    BY <2>1, <2>2, <2>3 DEF ProcAt, AtCommand, AtLock, AtConfig, FreePlaces, HeldPlaces, NoConfigPlaces,
       MachinePlaces, Labels
  <2>5. faults' \in 0..MaxFaults
    BY <1>t, <1>45, CommandsAssumption DEF ResolveMachine, TypeOK
  <2>6. pc[p] \notin NoConfigPlaces => cfg[p] \in Configs /\ (pc[p] \in MachinePlaces => cfg[p].machine \in Machines)
    BY <2>3 DEF ProcAt, AtConfig
  <2>7. SharedTypeOK'
    BY <1>t, <1>45, <2>2, <2>3, <2>6 DEF ResolveMachine, SharedTypeOK, NoConfigPlaces, MachinePlaces, cloudVars, Mach
  <2> QED
    BY <2>1, <2>2, <2>4, <2>5, <2>7, GoKeeps
<1>46. ASSUME NEW p \in Procs, ProviderCreate(p)
      PROVE  CmdInv'
  <2>1. PICK l \in {"creating"} : Goto(p, l)
    BY <1>46 DEF ProviderCreate
  <2>2. UNCHANGED <<lockVars, kind, argVars, cfg>> /\ pc[p] = "providerCreate" /\ existed' \in [Procs -> BOOLEAN]
    BY <1>t, <1>46 DEF ProviderCreate, TypeOK
  <2>3. ProcAt(p) /\ cfg[p] \in Configs \cup {NoConfig}
        /\ cmd[p] \in WorkspaceCommand \cup MachineCommand \cup {"none"} /\ tgt[p] \in Workspaces
    BY <1>t DEF TypeOK
  <2>4. l \in Labels /\ AtCommand(l, cmd[p]) /\ AtLock(l, cmd[p], lockPc[p])
        /\ AtConfig(l, cfg[p], tgt[p], lockPc[p], lockWs[p], lockMachine[p])
    BY <2>1, <2>2, <2>3 DEF ProcAt, AtCommand, AtLock, AtConfig, FreePlaces, HeldPlaces, ProviderPlaces, EndPlaces,
       NoConfigPlaces, MachinePlaces, Labels
  <2>5. faults' \in 0..MaxFaults
    BY <1>t, <1>46, CommandsAssumption DEF ProviderCreate, TypeOK
  <2>6. pc[p] \notin NoConfigPlaces => cfg[p] \in Configs /\ (pc[p] \in MachinePlaces => cfg[p].machine \in Machines)
    BY <2>3 DEF ProcAt, AtConfig
  <2>7. SharedTypeOK'
    BY <1>t, <1>46, <2>2, <2>3, <2>6 DEF ProviderCreate, SharedTypeOK, diskVars
  <2> QED
    BY <2>1, <2>2, <2>4, <2>5, <2>7, GoKeeps
<1>47. ASSUME NEW p \in Procs, ProviderCreated(p)
      PROVE  CmdInv'
  <2>1. PICK l \in {CASE cmd[p] = "machineCreate" -> "exit" [] lockPc[p] = "held" -> "agentUp"
                    [] OTHER -> "configure",
                    CASE cmd[p] = "machineCreate" -> "exit" [] lockPc[p] = "held" -> "unlock"
                      [] OTHER -> "cleanupMachine"} : Goto(p, l)
    BY <1>47 DEF ProviderCreated
  <2>2. UNCHANGED <<lockVars, kind, argVars, cfg>> /\ pc[p] = "creating" /\ existed' \in [Procs -> BOOLEAN]
    BY <1>t, <1>47 DEF ProviderCreated, TypeOK
  <2>3. ProcAt(p) /\ cfg[p] \in Configs \cup {NoConfig}
        /\ cmd[p] \in WorkspaceCommand \cup MachineCommand \cup {"none"} /\ tgt[p] \in Workspaces
    BY <1>t DEF TypeOK
  <2>4. l \in Labels /\ AtCommand(l, cmd[p]) /\ AtLock(l, cmd[p], lockPc[p])
        /\ AtConfig(l, cfg[p], tgt[p], lockPc[p], lockWs[p], lockMachine[p])
    BY <2>1, <2>2, <2>3 DEF ProcAt, AtCommand, AtLock, AtConfig, FreePlaces, HeldPlaces, ProviderPlaces, EndPlaces,
       NoConfigPlaces, MachinePlaces, Labels, WorkspaceCommand
  <2>5. faults' \in 0..MaxFaults
    BY <1>t, <1>47, CommandsAssumption DEF ProviderCreated, Fault, TypeOK
  <2>6. pc[p] \notin NoConfigPlaces => cfg[p] \in Configs /\ (pc[p] \in MachinePlaces => cfg[p].machine \in Machines)
    BY <2>3 DEF ProcAt, AtConfig
  <2>7. SharedTypeOK'
    BY <1>t, <1>47, <2>2, <2>3, <2>6 DEF ProviderCreated, SharedTypeOK, diskVars
  <2> QED
    BY <2>1, <2>2, <2>4, <2>5, <2>7, GoKeeps
<1>48. ASSUME NEW p \in Procs, ProviderStart(p)
      PROVE  CmdInv'
  <2>1. PICK l \in {IF lockPc[p] = "held" THEN "agentUp" ELSE "exit", Return(p)} : Goto(p, l)
    BY <1>48 DEF ProviderStart
  <2>2. UNCHANGED <<lockVars, kind, argVars, cfg>> /\ pc[p] = "providerStart" /\ existed' \in [Procs -> BOOLEAN]
    BY <1>t, <1>48 DEF ProviderStart, TypeOK
  <2>3. ProcAt(p) /\ cfg[p] \in Configs \cup {NoConfig}
        /\ cmd[p] \in WorkspaceCommand \cup MachineCommand \cup {"none"} /\ tgt[p] \in Workspaces
    BY <1>t DEF TypeOK
  <2>4. l \in Labels /\ AtCommand(l, cmd[p]) /\ AtLock(l, cmd[p], lockPc[p])
        /\ AtConfig(l, cfg[p], tgt[p], lockPc[p], lockWs[p], lockMachine[p])
    BY <2>1, <2>2, <2>3 DEF ProcAt, AtCommand, AtLock, AtConfig, FreePlaces, HeldPlaces, ProviderPlaces, EndPlaces,
       NoConfigPlaces, MachinePlaces, Labels, WorkspaceCommand, Return
  <2>5. faults' \in 0..MaxFaults
    BY <1>t, <1>48, CommandsAssumption DEF ProviderStart, Fault, TypeOK
  <2>6. pc[p] \notin NoConfigPlaces => cfg[p] \in Configs /\ (pc[p] \in MachinePlaces => cfg[p].machine \in Machines)
    BY <2>3 DEF ProcAt, AtConfig
  <2>7. SharedTypeOK'
    BY <1>t, <1>48, <2>2, <2>3, <2>6 DEF ProviderStart, SharedTypeOK, diskVars
  <2> QED
    BY <2>1, <2>2, <2>4, <2>5, <2>7, GoKeeps
<1>49. ASSUME NEW p \in Procs, ProviderStop(p)
      PROVE  CmdInv'
  <2>1. PICK l \in {Return(p)} : Goto(p, l)
    BY <1>49 DEF ProviderStop
  <2>2. UNCHANGED <<lockVars, kind, argVars, cfg>> /\ pc[p] = "providerStop" /\ existed' \in [Procs -> BOOLEAN]
    BY <1>t, <1>49 DEF ProviderStop, TypeOK
  <2>3. ProcAt(p) /\ cfg[p] \in Configs \cup {NoConfig}
        /\ cmd[p] \in WorkspaceCommand \cup MachineCommand \cup {"none"} /\ tgt[p] \in Workspaces
    BY <1>t DEF TypeOK
  <2>4. l \in Labels /\ AtCommand(l, cmd[p]) /\ AtLock(l, cmd[p], lockPc[p])
        /\ AtConfig(l, cfg[p], tgt[p], lockPc[p], lockWs[p], lockMachine[p])
    BY <2>1, <2>2, <2>3 DEF ProcAt, AtCommand, AtLock, AtConfig, FreePlaces, HeldPlaces, EndPlaces, NoConfigPlaces,
       MachinePlaces, Labels, WorkspaceCommand, Return
  <2>5. faults' \in 0..MaxFaults
    BY <1>t, <1>49, CommandsAssumption DEF ProviderStop, Fault, TypeOK
  <2>6. pc[p] \notin NoConfigPlaces => cfg[p] \in Configs /\ (pc[p] \in MachinePlaces => cfg[p].machine \in Machines)
    BY <2>3 DEF ProcAt, AtConfig
  <2>7. SharedTypeOK'
    BY <1>t, <1>49, <2>2, <2>3, <2>6 DEF ProviderStop, SharedTypeOK, diskVars, OnMachine
  <2> QED
    BY <2>1, <2>2, <2>4, <2>5, <2>7, GoKeeps
<1>50. ASSUME NEW p \in Procs, ProviderDelete(p)
      PROVE  CmdInv'
  <2>1. PICK l \in {"rmMachine", IF Forced(p) THEN "rmMachine" ELSE Return(p)} : Goto(p, l)
    BY <1>50 DEF ProviderDelete
  <2>2. UNCHANGED <<lockVars, kind, argVars, cfg>> /\ pc[p] = "providerDelete" /\ existed' \in [Procs -> BOOLEAN]
    BY <1>t, <1>50 DEF ProviderDelete, TypeOK
  <2>3. ProcAt(p) /\ cfg[p] \in Configs \cup {NoConfig}
        /\ cmd[p] \in WorkspaceCommand \cup MachineCommand \cup {"none"} /\ tgt[p] \in Workspaces
    BY <1>t DEF TypeOK
  <2>4. l \in Labels /\ AtCommand(l, cmd[p]) /\ AtLock(l, cmd[p], lockPc[p])
        /\ AtConfig(l, cfg[p], tgt[p], lockPc[p], lockWs[p], lockMachine[p])
    BY <2>1, <2>2, <2>3 DEF ProcAt, AtCommand, AtLock, AtConfig, FreePlaces, HeldPlaces, ProviderPlaces, EndPlaces,
       NoConfigPlaces, MachinePlaces, Labels, WorkspaceCommand, Return
  <2>5. faults' \in 0..MaxFaults
    BY <1>t, <1>50, CommandsAssumption DEF ProviderDelete, Fault, TypeOK
  <2>6. pc[p] \notin NoConfigPlaces => cfg[p] \in Configs /\ (pc[p] \in MachinePlaces => cfg[p].machine \in Machines)
    BY <2>3 DEF ProcAt, AtConfig
  <2>7. SharedTypeOK'
    BY <1>t, <1>50, <2>2, <2>3, <2>6 DEF ProviderDelete, SharedTypeOK, diskVars, OnMachine
  <2> QED
    BY <2>1, <2>2, <2>4, <2>5, <2>7, GoKeeps
<1>60. ASSUME NEW p \in Procs, LoadWorkspaceConfig(p)
       PROVE  CmdInv'
  <2>1. /\ pc[p] = "load" /\ SharedTypeOK' /\ existed' \in [Procs -> BOOLEAN] /\ faults' \in 0..MaxFaults
        /\ UNCHANGED <<lockVars, kind, argVars>>
    BY <1>t, <1>60 DEF LoadWorkspaceConfig, TypeOK, SharedTypeOK, diskVars, cloudVars
  <2>2. ProcAt(p) /\ tgt[p] \in Workspaces
    BY <1>t DEF TypeOK
  <2>3. CASE Ws(p) \in Listed /\ cfg' = [cfg EXCEPT ![p] = wsConfig[Ws(p)]]
             /\ Goto(p, IF cmd[p] = "up" THEN "touch" ELSE "loadMachine")
    <3> DEFINE l == IF cmd[p] = "up" THEN "touch" ELSE "loadMachine"
               k == wsConfig[Ws(p)]
    <3>1. k \in Configs
      BY <1>t, <2>2, <2>3 DEF SharedTypeOK, Ws, Listed
    <3>2. Goto(p, l) /\ cfg' = [cfg EXCEPT ![p] = k]
      BY <2>3
    <3> HIDE DEF k
    <3>3. l \in Labels /\ AtCommand(l, cmd[p]) /\ AtLock(l, cmd[p], lockPc[p])
          /\ AtConfig(l, k, tgt[p], lockPc[p], lockWs[p], lockMachine[p])
      BY <2>1, <2>2, <3>1 DEF ProcAt, AtCommand, AtLock, AtConfig, FreePlaces, HeldPlaces, EndPlaces, MachinePlaces,
         Labels
    <3> HIDE DEF l
    <3> QED
      BY <2>1, <3>1, <3>2, <3>3, MoveKeeps
  <2>4. CASE Ws(p) \notin Listed /\ Goto(p, IF cmd[p] \in {"delete", "forceDelete"} THEN "loadFailed" ELSE "exit")
             /\ UNCHANGED cfg
    <3> DEFINE l == IF cmd[p] \in {"delete", "forceDelete"} THEN "loadFailed" ELSE "exit"
    <3>1. Goto(p, l) /\ UNCHANGED cfg
      BY <2>4
    <3>2. l \in Labels /\ AtCommand(l, cmd[p]) /\ AtLock(l, cmd[p], lockPc[p])
          /\ AtConfig(l, cfg[p], tgt[p], lockPc[p], lockWs[p], lockMachine[p])
      BY <2>1, <2>2 DEF ProcAt, AtCommand, AtLock, AtConfig, FreePlaces, HeldPlaces, EndPlaces, NoConfigPlaces,
         MachinePlaces, Labels
    <3> HIDE DEF l
    <3> QED
      BY <2>1, <3>1, <3>2, GoKeeps
  <2> QED
    BY <1>60, <2>3, <2>4 DEF LoadWorkspaceConfig
<1>61. ASSUME NEW p \in Procs, CreateWorkspace(p)
       PROVE  CmdInv'
  <2>1. /\ pc[p] = "create" /\ existed' \in [Procs -> BOOLEAN] /\ faults' \in 0..MaxFaults
        /\ UNCHANGED <<lockVars, kind, cloudVars, argVars>>
    BY <1>t, <1>61 DEF CreateWorkspace, TypeOK
  <2>2. ProcAt(p) /\ tgt[p] \in Workspaces /\ tgtMachine[p] \in Places
    BY <1>t DEF TypeOK
  <2>3. CASE Goto(p, "cleanup") /\ UNCHANGED <<cfg, diskVars>>
    <3>1. SharedTypeOK'
      BY <1>t, <2>1, <2>3 DEF SharedTypeOK, diskVars, cloudVars
    <3>2. "cleanup" \in Labels /\ AtCommand("cleanup", cmd[p]) /\ AtLock("cleanup", cmd[p], lockPc[p])
          /\ AtConfig("cleanup", cfg[p], tgt[p], lockPc[p], lockWs[p], lockMachine[p])
      BY <2>1, <2>2 DEF ProcAt, AtCommand, AtLock, AtConfig, FreePlaces, HeldPlaces, NoConfigPlaces, MachinePlaces,
         Labels
    <3> QED
      BY <2>1, <2>3, <3>1, <3>2, GoKeeps
  <2>4. ASSUME NEW m \in Places, NEW auto \in BOOLEAN,
               cfg' = [cfg EXCEPT ![p] = Config(p, m, auto)], SaveWorkspaceConfig(Ws(p), Config(p, m, auto)),
               Goto(p, IF m = NoMachine THEN "configure"
                       ELSE IF tgtMachine[p] # NoMachine THEN "reuse" ELSE "machineExists")
        PROVE  CmdInv'
    <3> DEFINE l == IF m = NoMachine THEN "configure"
                    ELSE IF tgtMachine[p] # NoMachine THEN "reuse" ELSE "machineExists"
               k == Config(p, m, auto)
    <3>1. k \in Configs /\ k.machine = m
      BY DEF Config, Configs
    <3>2. Goto(p, l) /\ cfg' = [cfg EXCEPT ![p] = k] /\ SaveWorkspaceConfig(Ws(p), k)
      BY <2>4
    <3> HIDE DEF k
    <3>3. l \in Labels /\ AtCommand(l, cmd[p]) /\ AtLock(l, cmd[p], lockPc[p])
          /\ AtConfig(l, k, tgt[p], lockPc[p], lockWs[p], lockMachine[p])
      BY <2>1, <2>2, <3>1 DEF ProcAt, AtCommand, AtLock, AtConfig, FreePlaces, HeldPlaces, MachinePlaces, Labels,
         Places
    <3> HIDE DEF l
    <3>4. SharedTypeOK'
      BY <1>t, <2>1, <2>2, <3>1, <3>2 DEF SharedTypeOK, SaveWorkspaceConfig, Ws, cloudVars
    <3> QED
      BY <2>1, <3>1, <3>2, <3>3, <3>4, MoveKeeps
  <2> QED
    BY <1>61, <2>3, <2>4 DEF CreateWorkspace
<1>62. ASSUME NEW p \in Procs, RefreshOptions(p)
       PROVE  CmdInv'
  <2>1. /\ pc[p] = "refresh" /\ SharedTypeOK' /\ existed' \in [Procs -> BOOLEAN] /\ faults' \in 0..MaxFaults
        /\ UNCHANGED <<lockVars, kind, argVars>>
    BY <1>t, <1>62, CommandsAssumption DEF RefreshOptions, Fault, TypeOK, SharedTypeOK, diskVars, cloudVars
  <2>2. ProcAt(p) /\ tgt[p] \in Workspaces /\ cfg \in [Procs -> Configs \cup {NoConfig}]
    BY <1>t DEF TypeOK
  <2>3. PICK l \in {"saveOptions", "exit"}, k \in Configs : Goto(p, l) /\ cfg' = [cfg EXCEPT ![p] = k]
    <3>1. cfg[p] \in Configs
      BY <2>1, <2>2 DEF ProcAt, AtConfig, NoConfigPlaces
    <3>2. cfg = [cfg EXCEPT ![p] = cfg[p]]
      BY <2>2
    <3>3. Ws(p) \in Listed => wsConfig[Ws(p)] \in Configs
      BY <1>t, <2>2 DEF SharedTypeOK, Ws, Listed
    <3>4. CASE Goto(p, "exit") /\ UNCHANGED cfg
      BY <3>1, <3>2, <3>4
    <3>5. CASE Mach(p) = NoMachine /\ Ws(p) \in Listed /\ Goto(p, "saveOptions")
               /\ cfg' = [cfg EXCEPT ![p] = wsConfig[Ws(p)]]
      BY <3>3, <3>5
    <3>6. CASE Mach(p) # NoMachine /\ Goto(p, "saveOptions") /\ cfg' = [cfg EXCEPT ![p] = cfg[p]]
      BY <3>1, <3>6
    <3> QED
      BY <1>62, <3>4, <3>5, <3>6 DEF RefreshOptions
  <2>4. l \in Labels /\ AtCommand(l, cmd[p]) /\ AtLock(l, cmd[p], lockPc[p])
        /\ AtConfig(l, k, tgt[p], lockPc[p], lockWs[p], lockMachine[p])
    BY <2>1, <2>2, <2>3 DEF ProcAt, AtCommand, AtLock, AtConfig, FreePlaces, HeldPlaces, MachinePlaces, Labels
  <2> QED
    BY <2>1, <2>3, <2>4, MoveKeeps
<1>63. ASSUME NEW p \in Procs, AcquireLocks(p)
       PROVE  CmdInv'
  <2>1. /\ UNCHANGED <<kind, diskVars, cloudVars, argVars, cfg, existed, faults>> /\ TakeLocks(p)
    BY <1>63 DEF AcquireLocks
  <2>2. /\ SharedTypeOK' /\ existed' \in [Procs -> BOOLEAN] /\ faults' \in 0..MaxFaults
        /\ cfg[p] \in Configs \cup {NoConfig} /\ cfg' = [cfg EXCEPT ![p] = cfg[p]]
    BY <1>t, <2>1 DEF TypeOK, SharedTypeOK, diskVars, cloudVars
  <2>3. ProcAt(p) /\ tgt[p] \in Workspaces /\ lockPc[p] \in LockPcs /\ LockTypeOK
        /\ (pc[p] \in {"lock", "locking"} => cfg[p] \in Configs /\ Mach(p) \in Machines \cup {NoMachine})
    BY <1>t DEF TypeOK, LockTypeOK, ProcAt, AtConfig, NoConfigPlaces, Configs, Places, Mach
  <2>4. CASE pc[p] = "lock" /\ Lock(p, Ws(p), Mach(p)) /\ Goto(p, "locking")
    <3>1. LockNext
      BY <2>3, <2>4 DEF LockNext, LockStep, Ws
    <3>2. /\ lockPc'[p] = "tryWorkspace" /\ lockWs'[p] = tgt[p] /\ lockMachine'[p] = cfg[p].machine
          /\ \A q \in Procs : q # p => lockPc'[q] = lockPc[q] /\ lockWs'[q] = lockWs[q] /\ lockMachine'[q] = lockMachine[q]
      BY <2>3, <2>4 DEF Lock, LockTypeOK, Ws, Mach
    <3>3. "locking" \in Labels /\ AtCommand("locking", cmd[p]) /\ AtLock("locking", cmd[p], lockPc'[p])
          /\ AtConfig("locking", cfg[p], tgt[p], lockPc'[p], lockWs'[p], lockMachine'[p])
      BY <2>3, <2>4, <3>2 DEF ProcAt, AtCommand, AtLock, AtConfig, FreePlaces, HeldPlaces, ProviderPlaces, EndPlaces,
         MachinePlaces, Labels, MachineCommand
    <3> QED
      BY <2>1, <2>2, <2>4, <3>1, <3>2, <3>3, LockKeeps
  <2>5. ASSUME pc[p] = "locking", LockWorkspace(p) \/ LockMachine(p) \/ LockFails(p),
               NEW l, Goto(p, l),
               \/ lockPc'[p] = "held" /\ l = "status"
               \/ lockPc'[p] \in {"tryWorkspace", "tryMachine"} /\ l = "locking"
               \/ lockPc'[p] = "failed" /\ l = AfterRun(p)
        PROVE  CmdInv'
    <3>1. LockNext
      BY <2>5 DEF LockNext, LockStep
    <3>2. /\ lockPc'[p] # "idle" /\ lockWs'[p] = lockWs[p] /\ lockMachine'[p] = lockMachine[p]
          /\ \A q \in Procs : q # p => lockPc'[q] = lockPc[q] /\ lockWs'[q] = lockWs[q] /\ lockMachine'[q] = lockMachine[q]
      BY <2>3, <2>5 DEF LockWorkspace, LockMachine, LockFails, LockTypeOK
    <3>3. lockPc[p] # "idle"
      BY <2>3, <2>5 DEF ProcAt, AtLock
    <3>4. l \in Labels /\ AtCommand(l, cmd[p]) /\ AtLock(l, cmd[p], lockPc'[p])
      BY <2>3, <2>5 DEF ProcAt, AtCommand, AtLock, FreePlaces, HeldPlaces, ProviderPlaces, EndPlaces, Labels, AfterRun
    <3>5. AtConfig(l, cfg[p], tgt[p], lockPc'[p], lockWs'[p], lockMachine'[p])
      BY <2>3, <2>5, <3>2, <3>3 DEF ProcAt, AtConfig, MachinePlaces, AfterRun
    <3> QED
      BY <2>1, <2>2, <2>5, <3>1, <3>2, <3>4, <3>5, LockKeeps
  <2>6. CASE pc[p] = "locking" /\ (LockWorkspace(p) \/ LockMachine(p))
             /\ Goto(p, IF lockPc'[p] = "held" THEN "status" ELSE "locking")
    <3>1. lockPc'[p] \in {"held", "tryMachine"}
      BY <2>3, <2>6 DEF LockWorkspace, LockMachine, LockTypeOK
    <3> QED
      BY <2>5, <2>6, <3>1
  <2>7. CASE pc[p] = "locking" /\ LockFails(p) /\ Goto(p, AfterRun(p))
    <3>1. lockPc'[p] = "failed"
      BY <2>3, <2>7 DEF LockFails, LockTypeOK
    <3> QED
      BY <2>5, <2>7, <3>1
  <2> QED
    BY <2>1, <2>4, <2>6, <2>7 DEF TakeLocks
<1>64. ASSUME NEW p \in Procs, ReleaseLocks(p)
       PROVE  CmdInv'
  <2>1. /\ UNCHANGED <<kind, diskVars, cloudVars, argVars, cfg, existed, faults>> /\ pc[p] = "unlock"
        /\ \/ UnlockMachine(p) /\ UNCHANGED pc
           \/ UnlockWorkspace(p) /\ Goto(p, AfterRun(p))
    BY <1>64 DEF ReleaseLocks
  <2>2. /\ SharedTypeOK' /\ existed' \in [Procs -> BOOLEAN] /\ faults' \in 0..MaxFaults
        /\ cfg[p] \in Configs \cup {NoConfig} /\ cfg' = [cfg EXCEPT ![p] = cfg[p]] /\ pc = [pc EXCEPT ![p] = pc[p]]
    BY <1>t, <2>1 DEF TypeOK, SharedTypeOK, diskVars, cloudVars
  <2>3. ProcAt(p) /\ LockTypeOK
    BY <1>t DEF TypeOK
  <2>4. PICK l : /\ Goto(p, l)
                 /\ \/ lockPc'[p] = "unlocking" /\ l = "unlock"
                    \/ lockPc'[p] = "idle" /\ l = AfterRun(p)
    BY <2>1, <2>2, <2>3 DEF UnlockMachine, UnlockWorkspace, LockTypeOK, Goto
  <2>5. LockNext
    BY <2>1 DEF LockNext, LockStep
  <2>6. /\ lockWs'[p] = lockWs[p] /\ lockMachine'[p] = lockMachine[p]
        /\ \A q \in Procs : q # p => lockPc'[q] = lockPc[q] /\ lockWs'[q] = lockWs[q] /\ lockMachine'[q] = lockMachine[q]
    BY <2>1, <2>3 DEF UnlockMachine, UnlockWorkspace, LockTypeOK
  <2>7. lockPc[p] # "idle"
    BY <2>1, <2>3 DEF ProcAt, AtLock
  <2>8. l \in Labels /\ AtCommand(l, cmd[p]) /\ AtLock(l, cmd[p], lockPc'[p])
    BY <2>1, <2>3, <2>4 DEF ProcAt, AtCommand, AtLock, HeldPlaces, ProviderPlaces, EndPlaces, Labels, AfterRun
  <2>9. AtConfig(l, cfg[p], tgt[p], lockPc'[p], lockWs'[p], lockMachine'[p])
    BY <2>1, <2>3, <2>4, <2>6, <2>7 DEF ProcAt, AtConfig, MachinePlaces, NoConfigPlaces, AfterRun
  <2> QED
    BY <2>1, <2>2, <2>4, <2>5, <2>6, <2>8, <2>9, LockKeeps
\* A process that ends, by itself or killed.
<1>65. ASSUME NEW p \in Procs, Goto(p, "done"), IF lockPc[p] = "idle" THEN UNCHANGED lockVars ELSE Exit(p),
              cfg' = [cfg EXCEPT ![p] = NoConfig], UNCHANGED <<kind, argVars, existed>>,
              SharedTypeOK', faults' \in 0..MaxFaults
       PROVE  CmdInv'
  <2>1. LockTypeOK /\ existed' \in [Procs -> BOOLEAN]
    BY <1>t, <1>65 DEF TypeOK
  <2>2. LockNext \/ UNCHANGED lockVars
    BY <1>65 DEF LockNext, LockStep
  <2>3. /\ lockPc'[p] = "idle"
        /\ \A q \in Procs : q # p => lockPc'[q] = lockPc[q] /\ lockWs'[q] = lockWs[q] /\ lockMachine'[q] = lockMachine[q]
    BY <1>65, <2>1 DEF Exit, LockTypeOK, lockVars
  <2>4. "done" \in Labels /\ AtCommand("done", cmd[p]) /\ AtLock("done", cmd[p], lockPc'[p])
        /\ AtConfig("done", NoConfig, tgt[p], lockPc'[p], lockWs'[p], lockMachine'[p])
    BY <2>3 DEF AtCommand, AtLock, AtConfig, HeldPlaces, EndPlaces, NoConfigPlaces, MachinePlaces, Labels
  <2>5. NoConfig \in Configs \cup {NoConfig}
    OBVIOUS
  <2> QED
    BY <1>65, <2>1, <2>2, <2>3, <2>4, <2>5, LockKeeps
<1>66. ASSUME NEW p \in Procs, ExitProcess(p)
       PROVE  CmdInv'
  <2>1. SharedTypeOK' /\ faults' \in 0..MaxFaults
    BY <1>t, <1>66 DEF ExitProcess, TypeOK, SharedTypeOK, diskVars, cloudVars
  <2> QED
    BY <1>65, <1>66, <2>1 DEF ExitProcess
<1>67. ASSUME NEW p \in Procs, Crash(p)
       PROVE  CmdInv'
  <2>1. faults' \in 0..MaxFaults
    BY <1>t, <1>67, CommandsAssumption DEF Crash, Fault, TypeOK
  <2>2. machine' \in [Machines -> {"NotFound", "Busy", "Stopped", "Running"}]
    BY <1>t, <1>67 DEF Crash, SharedTypeOK
  <2>3. SharedTypeOK'
    BY <1>t, <1>67, <2>2 DEF Crash, SharedTypeOK, diskVars
  <2> QED
    BY <1>65, <1>67, <2>1, <2>3 DEF Crash
<1>68. ASSUME NEW p \in Procs, Start(p)
       PROVE  CmdInv'
  <2>1. pc[p] = "idle" /\ UNCHANGED <<lockVars, kind, diskVars, cloudVars, existed, faults>>
    BY <1>68 DEF Start
  <2>2. PICK c \in Commands, w \in Workspaces, m \in Places, k \in Configs \cup {NoConfig}, l \in Labels :
          /\ cmd' = [cmd EXCEPT ![p] = c] /\ tgt' = [tgt EXCEPT ![p] = w] /\ tgtMachine' = [tgtMachine EXCEPT ![p] = m]
          /\ cfg' = [cfg EXCEPT ![p] = k] /\ Goto(p, l) /\ AtCommand(l, c)
          /\ l \in FreePlaces /\ (l \notin NoConfigPlaces => k \in Configs)
          /\ (l \in MachinePlaces => k \in Configs /\ k.machine \in Machines)
    <3>1. PICK c \in Commands : cmd' = [cmd EXCEPT ![p] = c] /\
             \/ /\ c \in WorkspaceCommand
                /\ \E w \in Workspaces : tgt' = [tgt EXCEPT ![p] = w]
                /\ \E m \in (IF c \in {"up", "build"} /\ kind = "own" THEN machineFolder ELSE {}) \cup {NoMachine} :
                      tgtMachine' = [tgtMachine EXCEPT ![p] = m]
                /\ Goto(p, CASE c = "up" -> "resolve" [] c = "build" -> "buildExists" [] OTHER -> "get")
                /\ UNCHANGED cfg
             \/ /\ c \in MachineCommand
                /\ \E m \in (IF c = "machineCreate" THEN {SingleMachine} ELSE machineFolder) :
                      cfg' = [cfg EXCEPT ![p] = Config(NoProc, m, FALSE)]
                /\ Goto(p, IF c = "machineCreate" THEN "machineResolve" ELSE "machineGet")
                /\ UNCHANGED <<tgt, tgtMachine>>
      BY <1>68 DEF Start
    <3>2. /\ tgt = [tgt EXCEPT ![p] = tgt[p]] /\ tgt[p] \in Workspaces
          /\ tgtMachine = [tgtMachine EXCEPT ![p] = tgtMachine[p]] /\ tgtMachine[p] \in Places
          /\ cfg = [cfg EXCEPT ![p] = cfg[p]] /\ cfg[p] \in Configs \cup {NoConfig}
          /\ machineFolder \subseteq Machines
      BY <1>t DEF TypeOK
    <3>3. CASE c \in WorkspaceCommand
      <4>1. PICK w \in Workspaces : tgt' = [tgt EXCEPT ![p] = w]
        BY <3>1, <3>3 DEF WorkspaceCommand, MachineCommand
      <4>2. PICK m \in Places : tgtMachine' = [tgtMachine EXCEPT ![p] = m]
        BY <3>1, <3>2, <3>3 DEF WorkspaceCommand, MachineCommand, Places
      <4>3. UNCHANGED cfg /\ Goto(p, CASE c = "up" -> "resolve" [] c = "build" -> "buildExists" [] OTHER -> "get")
        BY <3>1, <3>3 DEF WorkspaceCommand, MachineCommand
      <4> DEFINE l == CASE c = "up" -> "resolve" [] c = "build" -> "buildExists" [] OTHER -> "get"
      <4>4. l \in Labels /\ l \in FreePlaces /\ l \in NoConfigPlaces /\ l \notin MachinePlaces /\ AtCommand(l, c)
        BY <3>3 DEF Labels, FreePlaces, NoConfigPlaces, MachinePlaces, AtCommand, WorkspaceCommand
      <4>5. Goto(p, l)
        BY <4>3
      <4> HIDE DEF l
      <4> QED
        BY <3>1, <3>2, <4>1, <4>2, <4>3, <4>4, <4>5
    <3>4. CASE c \in MachineCommand
      <4>1. PICK m \in Machines : cfg' = [cfg EXCEPT ![p] = Config(NoProc, m, FALSE)]
        BY <3>1, <3>2, <3>4, CommandsAssumption DEF WorkspaceCommand, MachineCommand
      <4>2. UNCHANGED <<tgt, tgtMachine>> /\ Goto(p, IF c = "machineCreate" THEN "machineResolve" ELSE "machineGet")
        BY <3>1, <3>4 DEF WorkspaceCommand, MachineCommand
      <4> DEFINE l == IF c = "machineCreate" THEN "machineResolve" ELSE "machineGet"
                 k == Config(NoProc, m, FALSE)
      <4>3. k \in Configs /\ k.machine \in Machines
        BY DEF Config, Configs, Places
      <4>4. l \in Labels /\ l \in FreePlaces /\ AtCommand(l, c)
        BY <3>4 DEF Labels, FreePlaces, AtCommand, MachineCommand
      <4>5. Goto(p, l) /\ cfg' = [cfg EXCEPT ![p] = k]
        BY <4>1, <4>2
      <4> HIDE DEF l, k
      <4> QED
        BY <3>1, <3>2, <4>2, <4>3, <4>4, <4>5
    <3> QED
      BY <3>3, <3>4, KnownCommands
  <2>3. SharedTypeOK' /\ existed' \in [Procs -> BOOLEAN] /\ faults' \in 0..MaxFaults
    BY <1>t, <2>1 DEF TypeOK, SharedTypeOK, diskVars, cloudVars
  <2>4. LockInv' /\ lockPc' = lockPc /\ lockWs' = lockWs /\ lockMachine' = lockMachine
    BY <1>t, <2>1, LockInvStep DEF lockVars
  <2>5. /\ pc'[p] = l /\ cmd'[p] = c /\ tgt'[p] = w /\ cfg'[p] = k
        /\ \A q \in Procs : q # p => pc'[q] = pc[q] /\ cmd'[q] = cmd[q] /\ tgt'[q] = tgt[q] /\ cfg'[q] = cfg[q]
    BY <1>t, <2>2 DEF TypeOK, Goto
  <2>6. CommandsKnown'
    BY <1>t, <2>5 DEF CommandsKnown
  <2>7. TypeOK'
    BY <1>t, <2>1, <2>2, <2>3, <2>4, KnownCommands DEF TypeOK, SharedTypeOK, LockInv, Goto
  <2>8. ASSUME NEW q \in Procs PROVE ProcAt(q)'
    <3>1. CASE q # p
      <4>1. /\ pc'[q] = pc[q] /\ cfg'[q] = cfg[q] /\ cmd'[q] = cmd[q] /\ tgt'[q] = tgt[q]
        BY <2>5, <3>1
      <4> QED
        BY <1>t, <2>4, <4>1 DEF ProcAt
    <3>2. CASE q = p
      <4>1. lockPc[p] = "idle"
        BY <1>t, <2>1 DEF ProcAt, AtLock, FreePlaces
      <4>2. AtLock(l, c, "idle") /\ AtConfig(l, k, w, "idle", lockWs[p], lockMachine[p])
        BY <2>2 DEF AtLock, AtConfig, FreePlaces, HeldPlaces, ProviderPlaces, EndPlaces
      <4> QED
        BY <2>2, <2>4, <2>5, <3>2, <4>1, <4>2 DEF ProcAt
    <3> QED
      BY <3>1, <3>2
  <2> QED
    BY <2>4, <2>6, <2>7, <2>8 DEF CmdInv
<1>69. CASE UNCHANGED vars
  <2>1. /\ UNCHANGED <<lockVars, kind, wsConfig, wsResult, machineFolder, machine, container, pc, cmd, tgt, tgtMachine>>
        /\ UNCHANGED <<cfg, existed, faults>> /\ UNCHANGED <<lockPc, lockWs, lockMachine>>
    BY <1>69 DEF vars, diskVars, cloudVars, argVars, lockVars
  <2>2. LockInv'
    BY <1>t, <2>1, LockInvStep
  <2>3. TypeOK' /\ CommandsKnown'
    BY <1>t, <2>1, <2>2 DEF TypeOK, CommandsKnown, LockInv
  <2>4. ASSUME NEW q \in Procs PROVE ProcAt(q)'
    BY <1>t, <2>1 DEF ProcAt
  <2> QED
    BY <2>2, <2>3, <2>4 DEF CmdInv
<1> QED
  BY <1>10, <1>11, <1>12, <1>13, <1>14, <1>15, <1>16, <1>17, <1>18, <1>19, <1>20, <1>21, <1>22, <1>23, <1>30, <1>31, <1>32,
     <1>33, <1>34, <1>35, <1>36, <1>37, <1>38, <1>39, <1>40, <1>41, <1>42, <1>43, <1>44, <1>45, <1>46, <1>47, <1>48,
     <1>49, <1>50, <1>60, <1>61, <1>62, <1>63, <1>64, <1>66, <1>67, <1>68, <1>69 DEF Next, Resolve, Work, Finished

\* The invariant holds in every reachable state.
LEMMA CmdInvAlways == Spec => []CmdInv
  BY CmdInvInit, CmdInvNext, PTL DEF Spec

\* The folders, the provider and every process keep their shape.
THEOREM CommandsTypeCorrect == Spec => []TypeOK
  BY CmdInvAlways, PTL DEF CmdInv

\* Only these steps change a container that runs.
LEMMA WhoStopsContainers ==
    ASSUME CmdInv, Next, NEW c \in Workspaces \X Places, container[c] = "running", container'[c] # "running"
    PROVE  \E q \in Procs : /\ \/ AgentStop(q) /\ c = Here(q)
                               \/ AgentDelete(q) /\ c = Here(q)
                               \/ ProviderStop(q) /\ c[2] = Mach(q)
                               \/ ProviderDelete(q) /\ c[2] = Mach(q)
<1>1. container \in [Workspaces \X Places -> {"none", "running", "stopped"}]
  BY DEF CmdInv, TypeOK
<1>2. container # container'
  OBVIOUS
<1>3. PICK q \in Procs : AgentUp(q) \/ AgentStop(q) \/ AgentDelete(q) \/ ProviderStop(q) \/ ProviderDelete(q)
  <2>1. PICK q \in Procs : Start(q) \/ Resolve(q) \/ Work(q) \/ Crash(q)
    BY <1>2 DEF Next, Finished, vars, cloudVars
  <2>2. ~Start(q) /\ ~Crash(q)
    BY <1>2 DEF Start, Crash, cloudVars
  <2>3. ~Resolve(q)
    BY <1>2 DEF Resolve, cloudVars, BuildExists, ResolveWorkspace, GetWorkspace, LoadWorkspaceConfig, ChangeLastUsed,
       LoadMachineConfig, CreateWorkspace, MachineExists, ReuseMachine, CreateMachineFolder, RefreshMachineOptions,
       CleanupMachine, CleanupWorkspace, Configure, RefreshOptions, SaveOptions
  <2>4. ~AcquireLocks(q) /\ ~ReleaseLocks(q) /\ ~StartWait(q) /\ ~SaveWorkspaceResult(q) /\ ~StopStatus(q)
        /\ ~StopSingleMachine(q) /\ ~DeleteStatus(q) /\ ~DeleteSingleMachine(q) /\ ~BuildDelete(q) /\ ~StatusFails(q)
    BY <1>2 DEF cloudVars, AcquireLocks, ReleaseLocks, StartWait, SaveWorkspaceResult, StopStatus, StopSingleMachine,
       DeleteStatus, StatusFails, DeleteSingleMachine, BuildDelete
  <2>5. ~DeleteMachineFolder(q) /\ ~DeleteWorkspace(q) /\ ~DeleteLoadFailed(q) /\ ~ResolveMachine(q) /\ ~GetMachine(q)
        /\ ~MachineUsers(q) /\ ~ProviderCreate(q) /\ ~ProviderCreated(q) /\ ~ProviderStart(q) /\ ~ExitProcess(q)
    BY <1>2 DEF cloudVars, DeleteMachineFolder, DeleteWorkspace, DeleteLoadFailed, ResolveMachine, GetMachine,
       MachineUsers, ProviderCreate, ProviderCreated, ProviderStart, ExitProcess
  <2> QED
    BY <2>1, <2>2, <2>3, <2>4, <2>5 DEF Work
<1>4. ~AgentUp(q)
  BY <1>1 DEF AgentUp
<1>5. AgentStop(q) => c = Here(q)
  BY <1>1 DEF AgentStop
<1>6. AgentDelete(q) => c = Here(q)
  BY <1>1 DEF AgentDelete
<1>7. ProviderStop(q) => c[2] = Mach(q)
  BY <1>1 DEF ProviderStop, OnMachine
<1>8. ProviderDelete(q) => c[2] = Mach(q)
  BY <1>1 DEF ProviderDelete, OnMachine
<1> QED
  BY <1>3, <1>4, <1>5, <1>6, <1>7, <1>8

\* From the start of its container until an up has saved its result nobody stops or
\* removes the container or its machine except the commands that take no lock, for any
\* number of commands at the same time, any workspaces that share a machine, any
\* failures and kills.
THEOREM UpUndisturbedHolds == Spec => UpUndisturbed
<1>1. CmdInv /\ [Next]_vars =>
        [\A p \in Procs :
            lockPc[p] = "held" /\ pc[p] = "saveResult" /\ Reachable(p) /\ container[Here(p)] = "running"
                => \/ container'[Here(p)] = "running"
                   \/ \E q \in Procs : Steps(q) /\ Unlocked(q)]_vars
  <2> SUFFICES ASSUME CmdInv, Next, NEW p \in Procs, lockPc[p] = "held", pc[p] = "saveResult",
                      container[Here(p)] = "running", container'[Here(p)] # "running"
               PROVE  \E q \in Procs : Steps(q) /\ Unlocked(q)
    OBVIOUS
  <2>1. TypeOK /\ LockInv /\ ProcAt(p) /\ Here(p) \in Workspaces \X Places /\ cfg[p].machine \in Places
        /\ lockWs[p] = tgt[p] /\ lockMachine[p] = cfg[p].machine
    <3>1. TypeOK /\ LockInv /\ ProcAt(p) /\ tgt[p] \in Workspaces
      BY DEF CmdInv, TypeOK
    <3>2. cfg[p] \in Configs /\ lockWs[p] = tgt[p] /\ lockMachine[p] = cfg[p].machine
      BY <3>1 DEF ProcAt, AtConfig, NoConfigPlaces
    <3> QED
      BY <3>1, <3>2 DEF Here, Ws, Mach, Configs
  <2>2. PICK q \in Procs : \/ AgentStop(q) /\ Here(p) = Here(q)
                           \/ AgentDelete(q) /\ Here(p) = Here(q)
                           \/ ProviderStop(q) /\ Here(p)[2] = Mach(q)
                           \/ ProviderDelete(q) /\ Here(p)[2] = Mach(q)
    BY <2>1, WhoStopsContainers
  <2>3. ProcAt(q) /\ pc[q] \in {"agentStop", "agentDelete", "providerStop", "providerDelete"} /\ Steps(q)
    <3>1. ProcAt(q) /\ pc \in [Procs -> Labels]
      BY DEF CmdInv, TypeOK
    <3>2. pc[q] \in {"agentStop", "agentDelete", "providerStop", "providerDelete"}
      BY <2>2 DEF AgentStop, AgentDelete, ProviderStop, ProviderDelete
    <3>3. pc'[q] \in {"unlock", "exit", "rmWorkspace", "rmMachine"}
      BY <2>2, <3>1 DEF AgentStop, AgentDelete, ProviderStop, ProviderDelete, Goto, Return
    <3> QED
      BY <3>1, <3>2, <3>3 DEF Steps
  <2>4. SUFFICES ASSUME ~Unlocked(q) PROVE FALSE
    BY <2>3
  <2>5. cmd[q] \in {"stop", "delete"} /\ lockPc[q] = "held"
    BY <2>3, <2>4 DEF ProcAt, AtCommand, AtLock, HeldPlaces, EndPlaces, Unlocked
  <2>6. lockWs[q] = tgt[q] /\ lockMachine[q] = cfg[q].machine
    BY <2>3, <2>5 DEF ProcAt, AtConfig
  <2>7. p # q
    BY <2>3
  <2>8. /\ workspaceLock[lockWs[p]] = p /\ workspaceLock[lockWs[q]] = q
        /\ lockMachine[p] # NoMachine => machineLock[lockMachine[p]] = p
        /\ lockMachine[q] # NoMachine => machineLock[lockMachine[q]] = q
    BY <2>1, <2>5 DEF LockInv, LocksAccounted
  <2>9. Here(p) # Here(q)
    BY <2>1, <2>6, <2>7, <2>8 DEF Here, Ws
  <2>10. ProviderStop(q) \/ ProviderDelete(q)
    BY <2>2, <2>9
  <2>11. pc[q] \in MachinePlaces /\ Here(p)[2] = Mach(q)
    BY <2>2, <2>9, <2>10 DEF ProviderStop, ProviderDelete, MachinePlaces
  <2>12. cfg[q].machine \in Machines /\ cfg[p].machine = cfg[q].machine
    BY <2>3, <2>11 DEF ProcAt, AtConfig, Here, Mach
  <2> QED
    BY <2>1, <2>6, <2>7, <2>8, <2>12, LockAssumption
<1> QED
  BY <1>1, CmdInvAlways, PTL DEF UpUndisturbed, Spec

-----------------------------------------------------------------------------
(* Commands one after the other *)

Active(p) == pc[p] \notin {"idle", "done"}
OneActive == \A p, q \in Procs : Active(p) /\ Active(q) => p = q

\* The workspaces whose deletion deletes a machine: any on the single machine, otherwise
\* the one that it was created for.
Owns(w, m) == w \in Listed /\ wsConfig[w].machine = m /\ (kind # "single" => wsConfig[w].autoDelete)

\* Every machine folder has such a workspace, at every step of a command: the workspace
\* folder comes first and goes last.
FoldersOwned == \A m \in machineFolder \cap WorkspaceMachines : \E w \in Workspaces : Owns(w, m)
OnlySingle == kind = "single" => machineFolder \subseteq {SingleMachine}

\* The workspace of this command may be deleted.
Spared(p) == \A m \in machineFolder \cap WorkspaceMachines : \E w \in Workspaces \ {Ws(p)} : Owns(w, m)

\* Where a command works on the config that is in workspace.json.
CurrentPlaces == {"touch", "loadMachine", "machineExists", "reuse", "createMachine", "machineOptions",
                  "cleanupMachine", "configure", "refresh", "saveOptions", "lock", "locking", "status", "agentUp",
                  "saveResult", "stopSingle", "agentStop", "deleteSingle", "buildDelete", "providerCreate",
                  "creating", "providerStart", "providerStop", "providerDelete", "rmMachine"}

\* What a command alone on the host knows at a place.
SeqPlace(p, l) ==
    /\ l \in CurrentPlaces /\ cmd[p] \in WorkspaceCommand => cfg[p] = wsConfig[Ws(p)]
    /\ l = "unlock" /\ cmd[p] = "build" => cfg[p] = wsConfig[Ws(p)]
    /\ l \in {"machineExists", "createMachine"}
          => \/ kind = "single" /\ Mach(p) = SingleMachine
             \/ kind = "own" /\ cfg[p].autoDelete
    /\ l \in {"cleanup", "loadFailed", "agentDelete", "rmWorkspace"} => Spared(p)
    /\ l = "create" => Ws(p) \notin Listed
    /\ l \in {"providerDelete", "rmMachine"}
          => cfg[p].autoDelete \/ UsersOf(Mach(p)) \subseteq (IF cmd[p] \in WorkspaceCommand THEN {Ws(p)} ELSE {})
    /\ l = "deleteSingle" /\ cmd[p] = "forceDelete" => Mach(p) \in machineFolder \cup {NoMachine}
    /\ l = "exit" /\ cmd[p] = "forceDelete" => Ws(p) \notin Listed
    /\ l = "saveOptions" => Mach(p) \in machineFolder \cup {NoMachine}
    /\ l = "machineResolve" => Mach(p) = SingleMachine

SeqInv == OneActive /\ FoldersOwned /\ OnlySingle /\ \A p \in Procs : SeqPlace(p, pc[p])

\* A process that does nothing knows nothing.
LEMMA InactiveKnows == ASSUME NEW p \in Procs, ~Active(p) PROVE SeqPlace(p, pc[p])
  BY DEF Active, SeqPlace, CurrentPlaces

\* A step of the only command, with what it means for the folders and for its place.
LEMMA StepKeepsSeq ==
    ASSUME SeqInv, NEW p \in Procs, Active(p), \A q \in Procs : q # p => pc'[q] = pc[q],
           FoldersOwned', OnlySingle', SeqPlace(p, pc[p])'
    PROVE  SeqInv'
<1>1. \A q \in Procs : q # p => ~Active(q) /\ ~Active(q)'
  BY DEF SeqInv, OneActive, Active
<1>2. OneActive'
  BY <1>1 DEF OneActive
<1>3. ASSUME NEW q \in Procs PROVE SeqPlace(q, pc[q])'
  <2>1. CASE q # p
    <3>1. pc'[q] \in {"idle", "done"}
      BY <1>1, <2>1 DEF Active
    <3> QED
      BY <3>1 DEF SeqPlace, CurrentPlaces
  <2> QED
    BY <2>1
<1> QED
  BY <1>2, <1>3 DEF SeqInv

\* A step that leaves the folders and the memory of the command.
LEMMA ControlKeepsSeq ==
    ASSUME SeqInv, CmdInv, NEW p \in Procs, Active(p), NEW l, Goto(p, l),
           UNCHANGED <<kind, wsConfig, machineFolder, cmd, tgt, cfg>>, SeqPlace(p, l)
    PROVE  SeqInv'
<1>1. pc'[p] = l /\ \A q \in Procs : q # p => pc'[q] = pc[q]
  BY DEF CmdInv, TypeOK, Goto
<1>2. FoldersOwned' /\ OnlySingle'
  BY DEF SeqInv, FoldersOwned, OnlySingle, Owns, Listed, WorkspaceMachines
<1>3. Spared(p)' = Spared(p)
  BY DEF Spared, Owns, Listed, WorkspaceMachines, Ws
<1>4. Ws(p)' = Ws(p) /\ Mach(p)' = Mach(p) /\ Listed' = Listed /\ UsersOf(Mach(p))' = UsersOf(Mach(p))
  BY DEF Ws, Mach, Listed, UsersOf
<1>5. SeqPlace(p, pc[p])'
  BY <1>1, <1>3, <1>4 DEF SeqPlace
<1> QED
  BY <1>1, <1>2, <1>5, StepKeepsSeq

\* A workspace whose machine has no folder may go.
LEMMA SparedWithoutFolder ==
    ASSUME FoldersOwned, NEW p \in Procs, Ws(p) \notin Listed \/ wsConfig[Ws(p)].machine \notin machineFolder
    PROVE  Spared(p)
  BY DEF FoldersOwned, Spared, Owns

\* And so may one of which only the container is deleted, except the last on the single machine.
LEMMA SparedByContainer ==
    ASSUME FoldersOwned, OnlySingle, NEW p \in Procs, cfg[p] = wsConfig[Ws(p)], JustContainer(p),
           machineFolder \subseteq Machines,
           IsSingle(p) => ~(UsersOf(SingleMachine) \subseteq {Ws(p)}) \/ "build" \in Commands
    PROVE  Spared(p)
<1> SUFFICES ASSUME NEW m \in machineFolder \cap WorkspaceMachines
             PROVE  \E w \in Workspaces \ {Ws(p)} : Owns(w, m)
  BY DEF Spared
<1>1. PICK w \in Workspaces : Owns(w, m)
  BY DEF FoldersOwned
<1>2. CASE w # Ws(p)
  BY <1>1, <1>2
<1>3. CASE w = Ws(p)
  <2>1. Mach(p) = m /\ m \in Machines /\ m # NoMachine
    BY <1>1, <1>3, LockAssumption DEF Owns, Mach
  <2>2. ~cfg[p].autoDelete
    BY <2>1 DEF JustContainer
  <2>3. kind = "single" /\ m = SingleMachine
    BY <1>1, <1>3, <2>2 DEF Owns, OnlySingle
  <2>4. "build" \notin Commands
    BY <2>3 DEF WorkspaceMachines
  <2>5. PICK v \in UsersOf(SingleMachine) : v # Ws(p)
    BY <2>1, <2>3, <2>4 DEF IsSingle
  <2> QED
    BY <2>3, <2>5 DEF UsersOf, Listed, Owns
<1> QED
  BY <1>2, <1>3

\* Every step keeps what holds when commands run one after the other.
LEMMA SeqInvNext == ASSUME MaxActive = 1 PROVE SeqInv /\ CmdInv /\ [Next]_vars => SeqInv'
<1> SUFFICES ASSUME SeqInv, CmdInv, [Next]_vars PROVE SeqInv'
  OBVIOUS
<1>t. TypeOK /\ CommandsKnown /\ FoldersOwned /\ OnlySingle /\ \A p \in Procs : ProcAt(p) /\ SeqPlace(p, pc[p])
  BY DEF CmdInv, SeqInv
<1>100. ASSUME NEW p \in Procs, MachineExists(p)
       PROVE  SeqInv'
  <2>1. PICK l \in {IF Mach(p) \in machineFolder THEN "reuse" ELSE "createMachine"} : Goto(p, l)
    BY <1>100 DEF MachineExists
  <2>2. pc[p] = "machineExists" /\ UNCHANGED <<kind, wsConfig, machineFolder, cmd, tgt, cfg>>
    BY <1>100 DEF MachineExists, diskVars, argVars
  <2>3. ProcAt(p) /\ SeqPlace(p, "machineExists") /\ Active(p)
    BY <1>t, <2>2 DEF Active
  <2>s. SeqPlace(p, l)
    BY <2>1, <2>2, <2>3 DEF SeqPlace, CurrentPlaces
  <2> QED
    BY <2>1, <2>2, <2>3, <2>s, ControlKeepsSeq
<1>101. ASSUME NEW p \in Procs, ReuseMachine(p)
       PROVE  SeqInv'
  <2>1. PICK l \in {IF Mach(p) \in machineFolder THEN "configure" ELSE "cleanup"} : Goto(p, l)
    BY <1>101 DEF ReuseMachine
  <2>2. pc[p] = "reuse" /\ UNCHANGED <<kind, wsConfig, machineFolder, cmd, tgt, cfg>>
    BY <1>101 DEF ReuseMachine, diskVars, argVars
  <2>3. ProcAt(p) /\ SeqPlace(p, "reuse") /\ Active(p)
    BY <1>t, <2>2 DEF Active
  <2>4. l = "cleanup" => Spared(p)
    <3>1. cfg[p] = wsConfig[Ws(p)]
      BY <2>2, <2>3 DEF SeqPlace, CurrentPlaces, ProcAt, AtCommand, WorkspaceCommand
    <3>2. l = "cleanup" => wsConfig[Ws(p)].machine \notin machineFolder
      BY <2>1, <3>1 DEF Mach
    <3> QED
      BY <1>t, <3>2, SparedWithoutFolder
  <2>s. SeqPlace(p, l)
    BY <2>1, <2>2, <2>3, <2>4 DEF SeqPlace, CurrentPlaces
  <2> QED
    BY <2>1, <2>2, <2>3, <2>s, ControlKeepsSeq
<1>102. ASSUME NEW p \in Procs, StartWait(p)
       PROVE  SeqInv'
  <2>1. PICK l \in {CASE Status(p) = "Stopped" -> "providerStart"
                    [] Status(p) = "NotFound" /\ Mach(p) # NoMachine -> "providerCreate" [] OTHER -> "agentUp"}
                    : Goto(p, l)
    BY <1>102 DEF StartWait
  <2>2. pc[p] = "status" /\ UNCHANGED <<kind, wsConfig, machineFolder, cmd, tgt, cfg>>
    BY <1>102 DEF StartWait, diskVars, argVars
  <2>3. ProcAt(p) /\ SeqPlace(p, "status") /\ Active(p)
    BY <1>t, <2>2 DEF Active
  <2>s. SeqPlace(p, l)
    BY <2>1, <2>2, <2>3 DEF SeqPlace, CurrentPlaces
  <2> QED
    BY <2>1, <2>2, <2>3, <2>s, ControlKeepsSeq
<1>103. ASSUME NEW p \in Procs, StopStatus(p)
       PROVE  SeqInv'
  <2>1. PICK l \in {IF Status(p) = "Running" THEN "stopSingle" ELSE "unlock"} : Goto(p, l)
    BY <1>103 DEF StopStatus
  <2>2. pc[p] = "status" /\ UNCHANGED <<kind, wsConfig, machineFolder, cmd, tgt, cfg>>
    BY <1>103 DEF StopStatus, diskVars, argVars
  <2>3. ProcAt(p) /\ SeqPlace(p, "status") /\ Active(p)
    BY <1>t, <2>2 DEF Active
  <2>s. SeqPlace(p, l)
    BY <2>1, <2>2, <2>3 DEF SeqPlace, CurrentPlaces, WorkspaceCommand
  <2> QED
    BY <2>1, <2>2, <2>3, <2>s, ControlKeepsSeq
<1>104. ASSUME NEW p \in Procs, StopSingleMachine(p)
       PROVE  SeqInv'
  <2>1. PICK l \in {IF IsSingle(p) /\ UsersOf(SingleMachine) \subseteq {Ws(p)}
                    THEN IF SingleMachine \in machineFolder THEN "providerStop" ELSE "unlock"
                    ELSE IF JustContainer(p) THEN "agentStop" ELSE "providerStop"} : Goto(p, l)
    BY <1>104 DEF StopSingleMachine
  <2>2. pc[p] = "stopSingle" /\ UNCHANGED <<kind, wsConfig, machineFolder, cmd, tgt, cfg>>
    BY <1>104 DEF StopSingleMachine, diskVars, argVars
  <2>3. ProcAt(p) /\ SeqPlace(p, "stopSingle") /\ Active(p)
    BY <1>t, <2>2 DEF Active
  <2>s. SeqPlace(p, l)
    BY <2>1, <2>2, <2>3 DEF SeqPlace, CurrentPlaces, ProcAt, AtCommand
  <2> QED
    BY <2>1, <2>2, <2>3, <2>s, ControlKeepsSeq
<1>147. ASSUME NEW p \in Procs, StatusFails(p)
       PROVE  SeqInv'
  <2>1. PICK l \in {"unlock"} : Goto(p, l)
    BY <1>147 DEF StatusFails
  <2>2. pc[p] = "status" /\ UNCHANGED <<kind, wsConfig, machineFolder, cmd, tgt, cfg>>
    BY <1>147 DEF StatusFails, diskVars, argVars
  <2>3. ProcAt(p) /\ SeqPlace(p, "status") /\ Active(p)
    BY <1>t, <2>2 DEF Active
  <2>s. SeqPlace(p, l)
    BY <2>1, <2>2, <2>3 DEF SeqPlace, CurrentPlaces, ProcAt, AtCommand, WorkspaceCommand
  <2> QED
    BY <2>1, <2>2, <2>3, <2>s, ControlKeepsSeq
<1>105. ASSUME NEW p \in Procs, DeleteStatus(p)
       PROVE  SeqInv'
  <2>1. PICK l \in {IF Status(p) = "NotFound" THEN "unlock" ELSE "deleteSingle"} : Goto(p, l)
    BY <1>105 DEF DeleteStatus
  <2>2. pc[p] = "status" /\ UNCHANGED <<kind, wsConfig, machineFolder, cmd, tgt, cfg>>
    BY <1>105 DEF DeleteStatus, diskVars, argVars
  <2>3. ProcAt(p) /\ SeqPlace(p, "status") /\ Active(p)
    BY <1>t, <2>2 DEF Active
  <2>s. SeqPlace(p, l)
    BY <2>1, <2>2, <2>3 DEF SeqPlace, CurrentPlaces, ProcAt, AtCommand, WorkspaceCommand
  <2> QED
    BY <2>1, <2>2, <2>3, <2>s, ControlKeepsSeq
<1>106. ASSUME NEW p \in Procs, MachineUsers(p)
       PROVE  SeqInv'
  <2>1. PICK l \in {IF UsersOf(Mach(p)) = {} THEN "providerDelete" ELSE "exit"} : Goto(p, l)
    BY <1>106 DEF MachineUsers
  <2>2. pc[p] = "machineUsers" /\ UNCHANGED <<kind, wsConfig, machineFolder, cmd, tgt, cfg>>
    BY <1>106 DEF MachineUsers, diskVars, argVars
  <2>3. ProcAt(p) /\ SeqPlace(p, "machineUsers") /\ Active(p)
    BY <1>t, <2>2 DEF Active
  <2>s. SeqPlace(p, l)
    BY <2>1, <2>2, <2>3 DEF SeqPlace, ProcAt, AtCommand, WorkspaceCommand
  <2> QED
    BY <2>1, <2>2, <2>3, <2>s, ControlKeepsSeq
<1>107. ASSUME NEW p \in Procs, GetMachine(p)
       PROVE  SeqInv'
  <2>1. PICK l \in {IF Mach(p) \notin machineFolder THEN "exit"
                    ELSE CASE cmd[p] = "machineStart" -> "providerStart"
                    [] cmd[p] = "machineStop" -> "providerStop" [] cmd[p] = "machineDelete" -> "machineUsers"}
                    : Goto(p, l)
    BY <1>107 DEF GetMachine
  <2>2. pc[p] = "machineGet" /\ UNCHANGED <<kind, wsConfig, machineFolder, cmd, tgt, cfg>>
    BY <1>107 DEF GetMachine, diskVars, argVars
  <2>3. ProcAt(p) /\ SeqPlace(p, "machineGet") /\ Active(p)
    BY <1>t, <2>2 DEF Active
  <2>s. SeqPlace(p, l)
    BY <2>1, <2>2, <2>3 DEF SeqPlace, ProcAt, AtCommand, WorkspaceCommand
  <2> QED
    BY <2>1, <2>2, <2>3, <2>s, ControlKeepsSeq
<1>108. ASSUME NEW p \in Procs, BuildExists(p)
       PROVE  SeqInv'
  <2>1. PICK l \in {"resolve"} : Goto(p, l)
    BY <1>108 DEF BuildExists
  <2>2. pc[p] = "buildExists" /\ UNCHANGED <<kind, wsConfig, machineFolder, cmd, tgt, cfg>>
    BY <1>108 DEF BuildExists, diskVars, argVars
  <2>3. ProcAt(p) /\ SeqPlace(p, "buildExists") /\ Active(p)
    BY <1>t, <2>2 DEF Active
  <2>s. SeqPlace(p, l)
    BY <2>1, <2>2, <2>3 DEF SeqPlace, CurrentPlaces
  <2> QED
    BY <2>1, <2>2, <2>3, <2>s, ControlKeepsSeq
<1>109. ASSUME NEW p \in Procs, RefreshMachineOptions(p)
       PROVE  SeqInv'
  <2>1. PICK l \in {"providerCreate", IF cmd[p] = "machineCreate" THEN "exit" ELSE "cleanupMachine"} : Goto(p, l)
    BY <1>109 DEF RefreshMachineOptions
  <2>2. pc[p] = "machineOptions" /\ UNCHANGED <<kind, wsConfig, machineFolder, cmd, tgt, cfg>>
    BY <1>109 DEF RefreshMachineOptions, diskVars, argVars
  <2>3. ProcAt(p) /\ SeqPlace(p, "machineOptions") /\ Active(p)
    BY <1>t, <2>2 DEF Active
  <2>s. SeqPlace(p, l)
    BY <2>1, <2>2, <2>3 DEF SeqPlace, CurrentPlaces
  <2> QED
    BY <2>1, <2>2, <2>3, <2>s, ControlKeepsSeq
<1>110. ASSUME NEW p \in Procs, AgentUp(p)
       PROVE  SeqInv'
  <2>1. PICK l \in {IF cmd[p] = "up" THEN "saveResult" ELSE "unlock", "unlock"} : Goto(p, l)
    BY <1>110 DEF AgentUp
  <2>2. pc[p] = "agentUp" /\ UNCHANGED <<kind, wsConfig, machineFolder, cmd, tgt, cfg>>
    BY <1>110 DEF AgentUp, diskVars, argVars
  <2>3. ProcAt(p) /\ SeqPlace(p, "agentUp") /\ Active(p)
    BY <1>t, <2>2 DEF Active
  <2>s. SeqPlace(p, l)
    BY <2>1, <2>2, <2>3 DEF SeqPlace, CurrentPlaces, WorkspaceCommand
  <2> QED
    BY <2>1, <2>2, <2>3, <2>s, ControlKeepsSeq
<1>111. ASSUME NEW p \in Procs, SaveWorkspaceResult(p)
       PROVE  SeqInv'
  <2>1. PICK l \in {"unlock"} : Goto(p, l)
    BY <1>111 DEF SaveWorkspaceResult
  <2>2. pc[p] = "saveResult" /\ UNCHANGED <<kind, wsConfig, machineFolder, cmd, tgt, cfg>>
    BY <1>111 DEF SaveWorkspaceResult, diskVars, argVars
  <2>3. ProcAt(p) /\ SeqPlace(p, "saveResult") /\ Active(p)
    BY <1>t, <2>2 DEF Active
  <2>s. SeqPlace(p, l)
    BY <2>1, <2>2, <2>3 DEF SeqPlace, CurrentPlaces, ProcAt, AtCommand
  <2> QED
    BY <2>1, <2>2, <2>3, <2>s, ControlKeepsSeq
<1>112. ASSUME NEW p \in Procs, AgentStop(p)
       PROVE  SeqInv'
  <2>1. PICK l \in {Return(p)} : Goto(p, l)
    BY <1>112 DEF AgentStop
  <2>2. pc[p] = "agentStop" /\ UNCHANGED <<kind, wsConfig, machineFolder, cmd, tgt, cfg>>
    BY <1>112 DEF AgentStop, diskVars, argVars
  <2>3. ProcAt(p) /\ SeqPlace(p, "agentStop") /\ Active(p)
    BY <1>t, <2>2 DEF Active
  <2>s. SeqPlace(p, l)
    BY <2>1, <2>2, <2>3 DEF SeqPlace, CurrentPlaces, ProcAt, AtCommand, Return
  <2> QED
    BY <2>1, <2>2, <2>3, <2>s, ControlKeepsSeq
<1>113. ASSUME NEW p \in Procs, AgentDelete(p)
       PROVE  SeqInv'
  <2>1. PICK l \in {"rmWorkspace", IF Forced(p) THEN "rmWorkspace" ELSE Return(p)} : Goto(p, l)
    BY <1>113 DEF AgentDelete
  <2>2. pc[p] = "agentDelete" /\ UNCHANGED <<kind, wsConfig, machineFolder, cmd, tgt, cfg>>
    BY <1>113 DEF AgentDelete, diskVars, argVars
  <2>3. ProcAt(p) /\ SeqPlace(p, "agentDelete") /\ Active(p)
    BY <1>t, <2>2 DEF Active
  <2>s. SeqPlace(p, l)
    BY <2>1, <2>2, <2>3 DEF SeqPlace, CurrentPlaces, Return, Forced
  <2> QED
    BY <2>1, <2>2, <2>3, <2>s, ControlKeepsSeq
<1>114. ASSUME NEW p \in Procs, ProviderCreate(p)
       PROVE  SeqInv'
  <2>1. PICK l \in {"creating"} : Goto(p, l)
    BY <1>114 DEF ProviderCreate
  <2>2. pc[p] = "providerCreate" /\ UNCHANGED <<kind, wsConfig, machineFolder, cmd, tgt, cfg>>
    BY <1>114 DEF ProviderCreate, diskVars, argVars
  <2>3. ProcAt(p) /\ SeqPlace(p, "providerCreate") /\ Active(p)
    BY <1>t, <2>2 DEF Active
  <2>s. SeqPlace(p, l)
    BY <2>1, <2>2, <2>3 DEF SeqPlace, CurrentPlaces
  <2> QED
    BY <2>1, <2>2, <2>3, <2>s, ControlKeepsSeq
<1>115. ASSUME NEW p \in Procs, ProviderCreated(p)
       PROVE  SeqInv'
  <2>1. PICK l \in {CASE cmd[p] = "machineCreate" -> "exit" [] lockPc[p] = "held" -> "agentUp"
                    [] OTHER -> "configure",
                    CASE cmd[p] = "machineCreate" -> "exit" [] lockPc[p] = "held" -> "unlock"
                      [] OTHER -> "cleanupMachine"} : Goto(p, l)
    BY <1>115 DEF ProviderCreated
  <2>2. pc[p] = "creating" /\ UNCHANGED <<kind, wsConfig, machineFolder, cmd, tgt, cfg>>
    BY <1>115 DEF ProviderCreated, diskVars, argVars
  <2>3. ProcAt(p) /\ SeqPlace(p, "creating") /\ Active(p)
    BY <1>t, <2>2 DEF Active
  <2>s. SeqPlace(p, l)
    BY <2>1, <2>2, <2>3 DEF SeqPlace, CurrentPlaces, WorkspaceCommand
  <2> QED
    BY <2>1, <2>2, <2>3, <2>s, ControlKeepsSeq
<1>116. ASSUME NEW p \in Procs, ProviderStart(p)
       PROVE  SeqInv'
  <2>1. PICK l \in {IF lockPc[p] = "held" THEN "agentUp" ELSE "exit", Return(p)} : Goto(p, l)
    BY <1>116 DEF ProviderStart
  <2>2. pc[p] = "providerStart" /\ UNCHANGED <<kind, wsConfig, machineFolder, cmd, tgt, cfg>>
    BY <1>116 DEF ProviderStart, diskVars, argVars
  <2>3. ProcAt(p) /\ SeqPlace(p, "providerStart") /\ Active(p)
    BY <1>t, <2>2 DEF Active
  <2>s. SeqPlace(p, l)
    BY <2>1, <2>2, <2>3 DEF SeqPlace, CurrentPlaces, ProcAt, AtCommand, WorkspaceCommand, Return
  <2> QED
    BY <2>1, <2>2, <2>3, <2>s, ControlKeepsSeq
<1>117. ASSUME NEW p \in Procs, ProviderStop(p)
       PROVE  SeqInv'
  <2>1. PICK l \in {Return(p)} : Goto(p, l)
    BY <1>117 DEF ProviderStop
  <2>2. pc[p] = "providerStop" /\ UNCHANGED <<kind, wsConfig, machineFolder, cmd, tgt, cfg>>
    BY <1>117 DEF ProviderStop, diskVars, argVars
  <2>3. ProcAt(p) /\ SeqPlace(p, "providerStop") /\ Active(p)
    BY <1>t, <2>2 DEF Active
  <2>s. SeqPlace(p, l)
    BY <2>1, <2>2, <2>3 DEF SeqPlace, CurrentPlaces, ProcAt, AtCommand, Return
  <2> QED
    BY <2>1, <2>2, <2>3, <2>s, ControlKeepsSeq
<1>118. ASSUME NEW p \in Procs, ProviderDelete(p)
       PROVE  SeqInv'
  <2>1. PICK l \in {"rmMachine", IF Forced(p) THEN "rmMachine" ELSE Return(p)} : Goto(p, l)
    BY <1>118 DEF ProviderDelete
  <2>2. pc[p] = "providerDelete" /\ UNCHANGED <<kind, wsConfig, machineFolder, cmd, tgt, cfg>>
    BY <1>118 DEF ProviderDelete, diskVars, argVars
  <2>3. ProcAt(p) /\ SeqPlace(p, "providerDelete") /\ Active(p)
    BY <1>t, <2>2 DEF Active
  <2>s. SeqPlace(p, l)
    BY <2>1, <2>2, <2>3 DEF SeqPlace, CurrentPlaces, Return, Forced
  <2> QED
    BY <2>1, <2>2, <2>3, <2>s, ControlKeepsSeq
<1>119. ASSUME NEW p \in Procs, GetWorkspace(p)
       PROVE  SeqInv'
  <2>1. PICK l \in {IF Ws(p) \in Listed THEN "load" ELSE IF cmd[p] = "stop" THEN "exit" ELSE "loadFailed"}
                    : Goto(p, l)
    BY <1>119 DEF GetWorkspace
  <2>2. pc[p] = "get" /\ UNCHANGED <<kind, wsConfig, machineFolder, cmd, tgt, cfg>>
    BY <1>119 DEF GetWorkspace, diskVars, argVars
  <2>3. ProcAt(p) /\ SeqPlace(p, "get") /\ Active(p)
    BY <1>t, <2>2 DEF Active
  <2>4. l = "loadFailed" => Spared(p)
    BY <1>t, <2>1, SparedWithoutFolder
  <2>s. SeqPlace(p, l)
    BY <2>1, <2>2, <2>3, <2>4 DEF SeqPlace, CurrentPlaces
  <2> QED
    BY <2>1, <2>2, <2>3, <2>s, ControlKeepsSeq
<1>120. ASSUME NEW p \in Procs, LoadMachineConfig(p)
       PROVE  SeqInv'
  <2>1. PICK l \in {IF Mach(p) \in machineFolder \cup {NoMachine} THEN CASE cmd[p] \in {"up", "build"} -> "configure"
                    [] cmd[p] \in {"stop", "delete"} -> "lock" [] cmd[p] = "forceDelete" -> "deleteSingle"
                    ELSE IF cmd[p] \in {"delete", "forceDelete"} THEN "loadFailed" ELSE "exit"} : Goto(p, l)
    BY <1>120 DEF LoadMachineConfig
  <2>2. pc[p] = "loadMachine" /\ UNCHANGED <<kind, wsConfig, machineFolder, cmd, tgt, cfg>>
    BY <1>120 DEF LoadMachineConfig, diskVars, argVars
  <2>3. ProcAt(p) /\ SeqPlace(p, "loadMachine") /\ Active(p)
    BY <1>t, <2>2 DEF Active
  <2>4. l = "loadFailed" => Spared(p)
    <3>1. cfg[p] = wsConfig[Ws(p)]
      BY <2>2, <2>3 DEF SeqPlace, CurrentPlaces, ProcAt, AtCommand
    <3>2. l = "loadFailed" => wsConfig[Ws(p)].machine \notin machineFolder
      BY <2>1, <2>2, <2>3, <3>1 DEF Mach, ProcAt, AtCommand, WorkspaceCommand
    <3> QED
      BY <1>t, <3>2, SparedWithoutFolder
  <2>s. SeqPlace(p, l)
    BY <2>1, <2>2, <2>3, <2>4 DEF SeqPlace, CurrentPlaces, ProcAt, AtCommand, WorkspaceCommand
  <2> QED
    BY <2>1, <2>2, <2>3, <2>s, ControlKeepsSeq
<1>121. ASSUME NEW p \in Procs, DeleteSingleMachine(p)
       PROVE  SeqInv'
  <2>1. PICK l \in {IF IsSingle(p) /\ UsersOf(SingleMachine) \subseteq {Ws(p)}
                    THEN IF SingleMachine \in machineFolder THEN "providerDelete" ELSE Return(p)
                    ELSE IF JustContainer(p) THEN "agentDelete" ELSE "providerDelete"}
                    : Goto(p, l)
    BY <1>121 DEF DeleteSingleMachine
  <2>2. pc[p] = "deleteSingle" /\ UNCHANGED <<kind, wsConfig, machineFolder, cmd, tgt, cfg>>
    BY <1>121 DEF DeleteSingleMachine, diskVars, argVars
  <2>3. ProcAt(p) /\ SeqPlace(p, "deleteSingle") /\ Active(p)
    BY <1>t, <2>2 DEF Active
  <2>4. cfg[p] = wsConfig[Ws(p)]
    BY <2>2, <2>3 DEF SeqPlace, CurrentPlaces, ProcAt, AtCommand, WorkspaceCommand
  <2>5. l = "agentDelete" => Spared(p)
    <3>1. l = "agentDelete" => JustContainer(p) /\ ~(IsSingle(p) /\ UsersOf(SingleMachine) \subseteq {Ws(p)})
      BY <2>1 DEF Return
    <3>2. machineFolder \subseteq Machines /\ cmd[p] \in Commands \cup {"none"}
      BY <1>t DEF TypeOK, CommandsKnown
    <3> QED
      BY <1>t, <2>2, <2>3, <2>4, <3>1, <3>2, SparedByContainer
  <2>6. l = "providerDelete" => cfg[p].autoDelete \/ UsersOf(Mach(p)) \subseteq {Ws(p)}
    BY <2>1 DEF IsSingle, JustContainer, Return
  <2>7. cmd[p] = "forceDelete" => l \notin {"exit", "unlock"}
    BY <2>1, <2>3, CommandsAssumption, LockAssumption DEF SeqPlace, IsSingle
  <2>8. l \in {"providerDelete", "agentDelete", "exit", "unlock"} /\ cmd[p] \in {"delete", "forceDelete"}
    BY <2>1, <2>2, <2>3 DEF Return, ProcAt, AtCommand
  <2>s. SeqPlace(p, l)
    BY <2>2, <2>4, <2>5, <2>6, <2>7, <2>8 DEF SeqPlace, CurrentPlaces, WorkspaceCommand
  <2> QED
    BY <2>1, <2>2, <2>3, <2>s, ControlKeepsSeq
<1>122. ASSUME NEW p \in Procs, BuildDelete(p)
       PROVE  SeqInv'
  <2>1. PICK l \in {IF JustContainer(p) THEN "agentDelete" ELSE "providerDelete"} : Goto(p, l)
    BY <1>122 DEF BuildDelete
  <2>2. pc[p] = "buildDelete" /\ UNCHANGED <<kind, wsConfig, machineFolder, cmd, tgt, cfg>>
    BY <1>122 DEF BuildDelete, diskVars, argVars
  <2>3. ProcAt(p) /\ SeqPlace(p, "buildDelete") /\ Active(p)
    BY <1>t, <2>2 DEF Active
  <2>4. cfg[p] = wsConfig[Ws(p)]
    BY <2>2, <2>3 DEF SeqPlace, CurrentPlaces, ProcAt, AtCommand, WorkspaceCommand
  <2>5. l = "agentDelete" => Spared(p)
    <3>1. l = "agentDelete" => JustContainer(p)
      BY <2>1
    <3>2. machineFolder \subseteq Machines /\ cmd[p] \in Commands \cup {"none"}
      BY <1>t DEF TypeOK, CommandsKnown
    <3> QED
      BY <1>t, <2>2, <2>3, <2>4, <3>1, <3>2, SparedByContainer DEF ProcAt, AtCommand
  <2>s. SeqPlace(p, l)
    BY <2>1, <2>2, <2>3, <2>4, <2>5 DEF SeqPlace, JustContainer
  <2> QED
    BY <2>1, <2>2, <2>3, <2>s, ControlKeepsSeq
<1>123. ASSUME NEW p \in Procs, ResolveWorkspace(p)
       PROVE  SeqInv'
  <2>1. PICK l \in {IF Ws(p) \in Listed THEN "load" ELSE "create"} : Goto(p, l)
    BY <1>123 DEF ResolveWorkspace
  <2>2. pc[p] = "resolve" /\ UNCHANGED <<kind, wsConfig, machineFolder, cmd, tgt, cfg>>
    BY <1>123 DEF ResolveWorkspace, diskVars, argVars
  <2>3. ProcAt(p) /\ SeqPlace(p, "resolve") /\ Active(p)
    BY <1>t, <2>2 DEF Active
  <2>s. SeqPlace(p, l)
    BY <2>1, <2>2, <2>3 DEF SeqPlace, CurrentPlaces
  <2> QED
    BY <2>1, <2>2, <2>3, <2>s, ControlKeepsSeq
\* Saving what is saved already changes nothing.
<1>130. ASSUME NEW p \in Procs, Active(p), NEW l, Goto(p, l), cfg[p] = wsConfig[Ws(p)], SeqPlace(p, l),
               SaveWorkspaceConfig(Ws(p), cfg[p]) \/ UNCHANGED diskVars, UNCHANGED <<kind, argVars, cfg>>
        PROVE  SeqInv'
  <2>1. wsConfig' = wsConfig /\ machineFolder' = machineFolder /\ UNCHANGED <<cmd, tgt>>
    BY <1>t, <1>130 DEF SaveWorkspaceConfig, diskVars, argVars, TypeOK
  <2> QED
    BY <1>130, <2>1, ControlKeepsSeq
<1>131. ASSUME NEW p \in Procs, ChangeLastUsed(p) \/ Configure(p)
        PROVE  SeqInv'
  <2>1. PICK l \in {"loadMachine", "refresh"} : Goto(p, l) /\ pc[p] \in {"touch", "configure"}
    BY <1>131 DEF ChangeLastUsed, Configure
  <2>2. SeqPlace(p, pc[p]) /\ cmd[p] \in WorkspaceCommand /\ Active(p)
    BY <1>t, <2>1 DEF ProcAt, AtCommand, WorkspaceCommand, Active
  <2>3. cfg[p] = wsConfig[Ws(p)] /\ SeqPlace(p, l)
    BY <2>1, <2>2 DEF SeqPlace, CurrentPlaces
  <2> QED
    BY <1>130, <1>131, <2>1, <2>2, <2>3 DEF ChangeLastUsed, Configure
<1>132. ASSUME NEW p \in Procs, SaveOptions(p)
        PROVE  SeqInv'
  <2>1. pc[p] = "saveOptions" /\ Goto(p, "lock") /\ UNCHANGED <<kind, argVars, cfg>>
    BY <1>132 DEF SaveOptions
  <2>2. SeqPlace(p, pc[p]) /\ cmd[p] \in WorkspaceCommand /\ Active(p)
    BY <1>t, <2>1 DEF ProcAt, AtCommand, WorkspaceCommand, Active
  <2>3. cfg[p] = wsConfig[Ws(p)] /\ SeqPlace(p, "lock") /\ Mach(p) \in machineFolder \cup {NoMachine}
    BY <2>1, <2>2 DEF SeqPlace, CurrentPlaces
  <2>4. SaveWorkspaceConfig(Ws(p), cfg[p]) \/ UNCHANGED diskVars
    <3>1. CASE UNCHANGED diskVars
      BY <3>1
    <3>2. CASE Mach(p) # NoMachine /\ machineFolder' = machineFolder \cup {Mach(p)} /\ UNCHANGED <<wsConfig, wsResult>>
      BY <2>3, <3>2 DEF diskVars
    <3> QED
      BY <1>132, <3>1, <3>2 DEF SaveOptions
  <2> QED
    BY <1>130, <2>1, <2>2, <2>3, <2>4
<1>133. ASSUME NEW p \in Procs, RefreshOptions(p)
        PROVE  SeqInv'
  <2>1. pc[p] = "refresh" /\ UNCHANGED <<kind, wsConfig, machineFolder, cmd, tgt>>
    BY <1>133 DEF RefreshOptions, diskVars, argVars
  <2>2. SeqPlace(p, pc[p]) /\ cmd[p] \in {"up", "build"} /\ Active(p)
    BY <1>t, <2>1 DEF ProcAt, AtCommand, Active
  <2>3. cfg[p] = wsConfig[Ws(p)] /\ cfg = [cfg EXCEPT ![p] = cfg[p]]
    BY <1>t, <2>1, <2>2 DEF SeqPlace, CurrentPlaces, WorkspaceCommand, TypeOK
  <2>4. CASE UNCHANGED cfg /\ Goto(p, "exit")
    <3>1. SeqPlace(p, "exit")
      BY <2>2 DEF SeqPlace, CurrentPlaces
    <3> QED
      BY <2>1, <2>2, <2>4, <3>1, ControlKeepsSeq
  <2>5. CASE (IF Mach(p) = NoMachine THEN Ws(p) \in Listed ELSE Mach(p) \in machineFolder)
             /\ cfg' = [cfg EXCEPT ![p] = IF Mach(p) = NoMachine THEN wsConfig[Ws(p)] ELSE cfg[p]]
             /\ Goto(p, "saveOptions")
    <3>1. UNCHANGED cfg
      BY <2>3, <2>5
    <3>2. SeqPlace(p, "saveOptions")
      BY <2>3, <2>5 DEF SeqPlace, CurrentPlaces
    <3> QED
      BY <2>1, <2>2, <2>5, <3>1, <3>2, ControlKeepsSeq
  <2> QED
    BY <1>133, <2>4, <2>5 DEF RefreshOptions
<1>134. ASSUME NEW p \in Procs, AcquireLocks(p)
        PROVE  SeqInv'
  <2>1. PICK l \in {"locking", "status", AfterRun(p)} : Goto(p, l)
    BY <1>134 DEF AcquireLocks, TakeLocks
  <2>2. pc[p] \in {"lock", "locking"} /\ UNCHANGED <<kind, wsConfig, machineFolder, cmd, tgt, cfg>>
    BY <1>134 DEF AcquireLocks, TakeLocks, diskVars, argVars
  <2>3. SeqPlace(p, pc[p]) /\ cmd[p] \in {"up", "build", "stop", "delete"} /\ Active(p)
    BY <1>t, <2>2 DEF ProcAt, AtCommand, Active
  <2>4. SeqPlace(p, l)
    BY <2>1, <2>2, <2>3 DEF SeqPlace, CurrentPlaces, WorkspaceCommand, AfterRun
  <2> QED
    BY <2>1, <2>2, <2>3, <2>4, ControlKeepsSeq
<1>135. ASSUME NEW p \in Procs, ReleaseLocks(p)
        PROVE  SeqInv'
  <2>1. PICK l \in {"unlock", AfterRun(p)} : Goto(p, l)
    <3>1. pc[p] = "unlock" /\ pc = [pc EXCEPT ![p] = pc[p]]
      BY <1>t, <1>135 DEF ReleaseLocks, TypeOK
    <3> QED
      BY <1>135, <3>1 DEF ReleaseLocks, Goto
  <2>2. pc[p] = "unlock" /\ UNCHANGED <<kind, wsConfig, machineFolder, cmd, tgt, cfg>>
    BY <1>135 DEF ReleaseLocks, diskVars, argVars
  <2>3. SeqPlace(p, pc[p]) /\ cmd[p] \in {"up", "build", "stop", "delete"} /\ Active(p)
    BY <1>t, <2>2 DEF ProcAt, AtCommand, Active
  <2>4. SeqPlace(p, l)
    BY <2>1, <2>2, <2>3 DEF SeqPlace, CurrentPlaces, AfterRun
  <2> QED
    BY <2>1, <2>2, <2>3, <2>4, ControlKeepsSeq
<1>136. ASSUME NEW p \in Procs, ExitProcess(p) \/ Crash(p)
        PROVE  SeqInv'
  <2>1. Goto(p, "done") /\ Active(p) /\ UNCHANGED <<kind, wsConfig, machineFolder>>
    BY <1>136 DEF ExitProcess, Crash, diskVars, Active
  <2>2. pc'[p] = "done" /\ \A q \in Procs : q # p => pc'[q] = pc[q]
    BY <1>t, <2>1 DEF TypeOK, Goto
  <2>3. FoldersOwned' /\ OnlySingle'
    BY <1>t, <2>1 DEF FoldersOwned, OnlySingle, Owns, Listed, WorkspaceMachines
  <2>4. SeqPlace(p, pc[p])'
    BY <2>2 DEF SeqPlace, CurrentPlaces
  <2> QED
    BY <2>1, <2>2, <2>3, <2>4, StepKeepsSeq
<1>137. ASSUME NEW p \in Procs, LoadWorkspaceConfig(p)
        PROVE  SeqInv'
  <2>1. pc[p] = "load" /\ UNCHANGED <<kind, wsConfig, machineFolder, cmd, tgt>>
    BY <1>137 DEF LoadWorkspaceConfig, diskVars, argVars
  <2>2. Active(p) /\ cfg \in [Procs -> Configs \cup {NoConfig}] /\ pc \in [Procs -> Labels]
    BY <1>t, <2>1 DEF Active, TypeOK
  <2>3. CASE Ws(p) \notin Listed /\ UNCHANGED cfg
             /\ Goto(p, IF cmd[p] \in {"delete", "forceDelete"} THEN "loadFailed" ELSE "exit")
    <3>1. Spared(p)
      BY <1>t, <2>3, SparedWithoutFolder
    <3>2. PICK l \in {"loadFailed", "exit"} : Goto(p, l) /\ (l = "exit" => cmd[p] # "forceDelete")
      BY <2>3
    <3>3. SeqPlace(p, l)
      BY <3>1, <3>2 DEF SeqPlace, CurrentPlaces
    <3> QED
      BY <2>1, <2>2, <2>3, <3>2, <3>3, ControlKeepsSeq
  <2>4. CASE cfg' = [cfg EXCEPT ![p] = wsConfig[Ws(p)]] /\ Goto(p, IF cmd[p] = "up" THEN "touch" ELSE "loadMachine")
    <3>1. /\ pc'[p] \in {"touch", "loadMachine"} /\ \A q \in Procs : q # p => pc'[q] = pc[q]
          /\ cfg'[p] = wsConfig[Ws(p)]
      BY <2>2, <2>4 DEF Goto
    <3>2. FoldersOwned' /\ OnlySingle'
      BY <1>t, <2>1 DEF FoldersOwned, OnlySingle, Owns, Listed, WorkspaceMachines
    <3>3. SeqPlace(p, pc[p])'
      BY <2>1, <3>1 DEF SeqPlace, CurrentPlaces, Ws
    <3> QED
      BY <2>2, <3>1, <3>2, <3>3, StepKeepsSeq
  <2> QED
    BY <1>137, <2>3, <2>4 DEF LoadWorkspaceConfig
<1>138. ASSUME NEW p \in Procs, CreateWorkspace(p)
        PROVE  SeqInv'
  <2>1. pc[p] = "create" /\ UNCHANGED <<kind, cmd, tgt, tgtMachine>>
    BY <1>138 DEF CreateWorkspace, argVars
  <2>2. Active(p) /\ Ws(p) \notin Listed /\ Ws(p) \in Workspaces
    BY <1>t, <2>1 DEF Active, SeqPlace, TypeOK, Ws
  <2>3. CASE Goto(p, "cleanup") /\ UNCHANGED <<cfg, diskVars>>
    <3>1. Spared(p)
      BY <1>t, <2>2, SparedWithoutFolder
    <3>2. SeqPlace(p, "cleanup")
      BY <3>1 DEF SeqPlace, CurrentPlaces
    <3> QED
      BY <2>1, <2>2, <2>3, <3>2, ControlKeepsSeq DEF diskVars
  <2>4. ASSUME NEW m \in Places, NEW auto \in BOOLEAN,
               IF tgtMachine[p] # NoMachine
               THEN m = tgtMachine[p] /\ m \in machineFolder /\ ~auto
               ELSE \/ kind = "none" /\ m = NoMachine /\ ~auto
                    \/ kind = "single" /\ m = SingleMachine /\ ~auto
                    \/ kind = "own" /\ m \in Machines /\ FreshMachine(m) /\ auto,
               cfg' = [cfg EXCEPT ![p] = Config(p, m, auto)], SaveWorkspaceConfig(Ws(p), Config(p, m, auto)),
               Goto(p, IF m = NoMachine THEN "configure"
                       ELSE IF tgtMachine[p] # NoMachine THEN "reuse" ELSE "machineExists")
        PROVE  SeqInv'
    <3> DEFINE k == Config(p, m, auto)
    <3>1. k \in Configs /\ k.machine = m /\ k.autoDelete = auto /\ k # NoConfig
      BY CommandsAssumption DEF Config, Configs, Places
    <3>2. /\ cfg' = [cfg EXCEPT ![p] = k] /\ wsConfig' = [wsConfig EXCEPT ![Ws(p)] = k] /\ UNCHANGED machineFolder
      BY <2>4 DEF SaveWorkspaceConfig
    <3> HIDE DEF k
    <3>3. /\ cfg'[p] = k /\ wsConfig'[Ws(p)] = k /\ Ws(p)' = Ws(p)
          /\ \A w \in Workspaces : w # Ws(p) => wsConfig'[w] = wsConfig[w]
      BY <1>t, <2>1, <2>2, <3>2 DEF TypeOK, Ws
    <3>4. \A w \in Workspaces, n \in Machines : Owns(w, n) => Owns(w, n)'
      BY <2>1, <2>2, <3>3 DEF Owns, Listed
    <3>5. FoldersOwned' /\ OnlySingle'
      <4>1. machineFolder \subseteq Machines /\ WorkspaceMachines' = WorkspaceMachines
        BY <1>t, <2>1 DEF TypeOK, WorkspaceMachines
      <4> QED
        BY <1>t, <2>1, <3>2, <3>4, <4>1 DEF FoldersOwned, OnlySingle
    <3>6. /\ pc'[p] \in {"configure", "reuse", "machineExists"} /\ \A q \in Procs : q # p => pc'[q] = pc[q]
          /\ pc'[p] = "machineExists" => \/ kind = "single" /\ k.machine = SingleMachine
                                         \/ kind = "own" /\ k.autoDelete
      <4> DEFINE l == IF m = NoMachine THEN "configure"
                      ELSE IF tgtMachine[p] # NoMachine THEN "reuse" ELSE "machineExists"
      <4>1. pc' = [pc EXCEPT ![p] = l] /\ pc \in [Procs -> Labels]
        BY <1>t, <2>4 DEF TypeOK, Goto
      <4>2. l \in {"configure", "reuse", "machineExists"}
        OBVIOUS
      <4>3. l = "machineExists" => m # NoMachine /\ tgtMachine[p] = NoMachine
        OBVIOUS
      <4>4. l = "machineExists" => \/ kind = "single" /\ m = SingleMachine
                                   \/ kind = "own" /\ auto
        <5>1. tgtMachine[p] = NoMachine => \/ kind = "none" /\ m = NoMachine
                                           \/ kind = "single" /\ m = SingleMachine
                                           \/ kind = "own" /\ auto
          BY <2>4
        <5> QED
          BY <4>3, <5>1
      <4> HIDE DEF l
      <4> QED
        BY <3>1, <4>1, <4>2, <4>4
    <3>7. SeqPlace(p, pc[p])'
      BY <2>1, <3>3, <3>6 DEF SeqPlace, CurrentPlaces, Mach
    <3> QED
      BY <2>2, <3>5, <3>6, <3>7, StepKeepsSeq
  <2> QED
    BY <1>138, <2>3, <2>4 DEF CreateWorkspace
\* A machine folder goes, and the workspace that had it is free to go.
<1>139. ASSUME NEW p \in Procs, CleanupMachine(p) \/ DeleteMachineFolder(p)
        PROVE  SeqInv'
  <2>1. /\ pc[p] \in {"cleanupMachine", "rmMachine"} /\ UNCHANGED <<kind, wsConfig, cmd, tgt, cfg>>
        /\ machineFolder' = machineFolder \ {Mach(p)}
    BY <1>139 DEF CleanupMachine, DeleteMachineFolder, argVars
  <2>2. Active(p) /\ SeqPlace(p, pc[p]) /\ cmd[p] \in WorkspaceCommand \cup MachineCommand
    BY <1>t, <2>1 DEF Active, ProcAt, AtCommand, WorkspaceCommand, MachineCommand
  <2>3. /\ pc'[p] \in {"cleanup", "rmWorkspace", "exit"} /\ \A q \in Procs : q # p => pc'[q] = pc[q]
        /\ pc'[p] \in {"cleanup", "rmWorkspace"} => cmd[p] \in WorkspaceCommand
        /\ pc'[p] = "exit" => cmd[p] = "machineDelete"
    BY <1>t, <1>139, <2>1 DEF CleanupMachine, DeleteMachineFolder, TypeOK, Goto, ProcAt, AtCommand, WorkspaceCommand
  <2>4. FoldersOwned' /\ OnlySingle'
    BY <1>t, <2>1 DEF FoldersOwned, OnlySingle, Owns, Listed, WorkspaceMachines
  <2>5. cmd[p] \in WorkspaceCommand => Spared(p)'
    <3>1. cmd[p] \in WorkspaceCommand => wsConfig[Ws(p)].machine = Mach(p)
      BY <2>1, <2>2 DEF SeqPlace, CurrentPlaces, Mach
    <3>2. \A w, m : Owns(w, m)' <=> Owns(w, m)
      BY <2>1 DEF Owns, Listed
    <3>3. Ws(p)' = Ws(p) /\ WorkspaceMachines' = WorkspaceMachines
      BY <2>1 DEF Ws, WorkspaceMachines
    <3>4. \A m : Owns(Ws(p), m) => wsConfig[Ws(p)].machine = m
      BY DEF Owns
    <3> QED
      BY <1>t, <2>1, <3>1, <3>2, <3>3, <3>4 DEF FoldersOwned, Spared
  <2>6. SeqPlace(p, pc[p])'
    BY <2>1, <2>3, <2>5 DEF SeqPlace, CurrentPlaces
  <2> QED
    BY <2>2, <2>3, <2>4, <2>6, StepKeepsSeq
<1>140. ASSUME NEW p \in Procs, CreateMachineFolder(p) \/ ResolveMachine(p)
        PROVE  SeqInv'
  <2>1. /\ pc[p] \in {"createMachine", "machineResolve"} /\ UNCHANGED <<kind, wsConfig, cmd, tgt, cfg>>
        /\ machineFolder' = machineFolder \cup {Mach(p)} /\ Goto(p, "machineOptions")
    BY <1>140 DEF CreateMachineFolder, ResolveMachine, argVars
  <2>2. Active(p) /\ SeqPlace(p, pc[p]) /\ ProcAt(p) /\ cmd[p] \in Commands \cup {"none"} /\ tgt[p] \in Workspaces
    BY <1>t, <2>1 DEF Active, CommandsKnown, TypeOK
  <2>3. /\ pc'[p] = "machineOptions" /\ \A q \in Procs : q # p => pc'[q] = pc[q]
    BY <1>t, <2>1 DEF TypeOK, Goto
  <2>4. pc[p] = "createMachine" => Owns(Ws(p), Mach(p)) /\ Ws(p) \in Workspaces
    <3>1. pc[p] = "createMachine" => /\ cfg[p] = wsConfig[Ws(p)] /\ cfg[p] \in Configs
                                     /\ (kind # "single" => cfg[p].autoDelete)
      BY <2>2 DEF SeqPlace, CurrentPlaces, ProcAt, AtCommand, AtConfig, NoConfigPlaces, WorkspaceCommand
    <3>2. NoConfig \notin Configs
      BY CommandsAssumption DEF Configs, Places
    <3> QED
      BY <2>2, <3>1, <3>2 DEF Owns, Listed, Ws, Mach
  <2>5. pc[p] = "machineResolve" => Mach(p) \notin WorkspaceMachines
    BY <2>2 DEF SeqPlace, ProcAt, AtCommand, WorkspaceMachines
  <2>6. /\ WorkspaceMachines' = WorkspaceMachines /\ \A w, m : Owns(w, m)' <=> Owns(w, m)
    BY <2>1 DEF Owns, Listed, WorkspaceMachines
  <2>7. FoldersOwned'
    BY <1>t, <2>1, <2>4, <2>5, <2>6 DEF FoldersOwned
  <2>8. OnlySingle'
    BY <1>t, <2>1, <2>2 DEF OnlySingle, SeqPlace
  <2>9. SeqPlace(p, pc[p])'
    <3>1. cmd[p] \in WorkspaceCommand => cfg[p] = wsConfig[Ws(p)]
      BY <2>1, <2>2 DEF SeqPlace, CurrentPlaces, ProcAt, AtCommand, WorkspaceCommand
    <3> QED
      BY <2>1, <2>3, <3>1 DEF SeqPlace, Ws
  <2> QED
    BY <2>2, <2>3, <2>7, <2>8, <2>9, StepKeepsSeq
\* A workspace folder goes: every machine folder has another workspace.
<1>141. ASSUME NEW p \in Procs, Active(p), NEW l \in {"exit", "unlock"}, Goto(p, l), Spared(p),
               l = "unlock" => cmd[p] # "build",
               DeleteWorkspaceFolder(Ws(p)), UNCHANGED <<kind, argVars, cfg>>
        PROVE  SeqInv'
  <2>1. /\ UNCHANGED <<kind, cmd, tgt, cfg, machineFolder>> /\ wsConfig' = [wsConfig EXCEPT ![Ws(p)] = NoConfig]
        /\ Ws(p) \in Workspaces /\ wsConfig \in [Workspaces -> Configs \cup {NoConfig}]
    BY <1>t, <1>141 DEF DeleteWorkspaceFolder, argVars, TypeOK, Ws
  <2>2. /\ pc'[p] = l /\ \A q \in Procs : q # p => pc'[q] = pc[q]
    BY <1>t, <1>141 DEF TypeOK, Goto
  <2>3. /\ wsConfig'[Ws(p)] = NoConfig /\ Ws(p)' = Ws(p)
        /\ \A w \in Workspaces : w # Ws(p) => wsConfig'[w] = wsConfig[w]
    BY <2>1 DEF Ws
  <2>4. \A w \in Workspaces \ {Ws(p)}, m \in Machines : Owns(w, m) => Owns(w, m)'
    BY <2>1, <2>3 DEF Owns, Listed
  <2>5. FoldersOwned' /\ OnlySingle'
    <3>1. machineFolder \subseteq Machines /\ WorkspaceMachines' = WorkspaceMachines
      BY <1>t, <2>1 DEF TypeOK, WorkspaceMachines
    <3> QED
      BY <1>t, <1>141, <2>1, <2>4, <3>1 DEF FoldersOwned, OnlySingle, Spared
  <2>6. Ws(p)' \notin Listed'
    BY <2>3 DEF Listed
  <2>7. SeqPlace(p, pc[p])'
    BY <1>141, <2>1, <2>2, <2>6 DEF SeqPlace, CurrentPlaces
  <2> QED
    BY <1>141, <2>2, <2>5, <2>7, StepKeepsSeq
<1>142. ASSUME NEW p \in Procs, CleanupWorkspace(p)
        PROVE  SeqInv'
  <2>1. pc[p] = "cleanup" /\ Goto(p, "exit") /\ DeleteWorkspaceFolder(Ws(p)) /\ UNCHANGED <<kind, argVars, cfg>>
    BY <1>142 DEF CleanupWorkspace
  <2>2. Active(p) /\ Spared(p)
    BY <1>t, <2>1 DEF Active, SeqPlace
  <2> QED
    BY <1>141, <2>1, <2>2
<1>143. ASSUME NEW p \in Procs, DeleteWorkspace(p)
        PROVE  SeqInv'
  <2>1. pc[p] = "rmWorkspace" /\ Goto(p, Return(p)) /\ DeleteWorkspaceFolder(Ws(p)) /\ UNCHANGED <<kind, argVars, cfg>>
    BY <1>143 DEF DeleteWorkspace
  <2>2. Active(p) /\ Spared(p)
    BY <1>t, <2>1 DEF Active, SeqPlace
  <2>3. Return(p) \in {"exit", "unlock"} /\ (Return(p) = "unlock" => cmd[p] # "build")
    BY <1>t, <2>1 DEF Return, ProcAt, AtLock, EndPlaces
  <2> QED
    BY <1>141, <2>1, <2>2, <2>3
<1>144. ASSUME NEW p \in Procs, DeleteLoadFailed(p)
        PROVE  SeqInv'
  <2>1. pc[p] = "loadFailed" /\ Goto(p, "exit") /\ UNCHANGED <<kind, argVars, cfg>>
    BY <1>144 DEF DeleteLoadFailed
  <2>2. Active(p) /\ Spared(p)
    BY <1>t, <2>1 DEF Active, SeqPlace
  <2>3. CASE DeleteWorkspaceFolder(Ws(p))
    BY <1>141, <2>1, <2>2, <2>3
  <2>4. CASE UNCHANGED diskVars /\ ~(Ws(p) \in Listed /\ cmd[p] = "forceDelete")
    <3>1. SeqPlace(p, "exit")
      BY <2>4 DEF SeqPlace, CurrentPlaces
    <3> QED
      BY <2>1, <2>2, <2>4, <3>1, ControlKeepsSeq DEF diskVars, argVars
  <2> QED
    BY <1>144, <2>3, <2>4 DEF DeleteLoadFailed
\* A command starts when no other is running.
<1>145. ASSUME NEW p \in Procs, Start(p)
        PROVE  SeqInv'
  <2>1. UNCHANGED <<kind, wsConfig, machineFolder>> /\ pc[p] = "idle"
    BY <1>145 DEF Start, diskVars
  <2>2. \A q \in Procs : ~Active(q)
    <3> DEFINE S == {q \in Procs : pc[q] \notin {"idle", "done"}}
    <3>1. Cardinality(S) < 1
      BY <1>145 DEF Start
    <3>2. IsFiniteSet(S)
      BY CommandsAssumption, FS_Subset
    <3>3. S = {}
      BY <3>1, <3>2, FS_CardinalityType, FS_EmptySet
    <3> QED
      BY <3>3 DEF Active
  <2>3. PICK l : Goto(p, l)
    BY <1>145 DEF Start
  <2>4. \A q \in Procs : q # p => pc'[q] = pc[q]
    BY <1>t, <2>3 DEF TypeOK, Goto
  <2>5. OneActive'
    BY <2>2, <2>4 DEF OneActive, Active
  <2>6. FoldersOwned' /\ OnlySingle'
    BY <1>t, <2>1 DEF FoldersOwned, OnlySingle, Owns, Listed, WorkspaceMachines
  <2>7. /\ pc'[p] \in {"resolve", "buildExists", "get", "machineResolve", "machineGet"}
        /\ pc'[p] = "machineResolve" => cfg'[p].machine = SingleMachine
    <3>1. PICK c \in Commands : Start(p)!3!(c)
      BY <1>145 DEF Start
    <3> QED
      BY <1>t, <3>1 DEF TypeOK, Goto, Config
  <2>8. SeqPlace(p, pc[p])'
    BY <2>7 DEF SeqPlace, CurrentPlaces, Mach
  <2>9. ASSUME NEW q \in Procs, q # p PROVE SeqPlace(q, pc[q])'
    <3>1. pc'[q] \in {"idle", "done"}
      BY <2>2, <2>4, <2>9 DEF Active
    <3> QED
      BY <3>1 DEF SeqPlace, CurrentPlaces
  <2> QED
    BY <2>5, <2>6, <2>8, <2>9 DEF SeqInv
<1>146. CASE UNCHANGED vars
  <2>1. UNCHANGED <<kind, wsConfig, machineFolder, pc, cmd, tgt, cfg>>
    BY <1>146 DEF vars, diskVars, argVars
  <2>2. OneActive' /\ FoldersOwned' /\ OnlySingle'
    BY <2>1 DEF SeqInv, OneActive, Active, FoldersOwned, OnlySingle, Owns, Listed, WorkspaceMachines
  <2>3. ASSUME NEW p \in Procs PROVE SeqPlace(p, pc[p])'
    <3>1. Spared(p)' = Spared(p)
      BY <2>1 DEF Spared, Owns, Listed, WorkspaceMachines, Ws
    <3>2. Ws(p)' = Ws(p) /\ Mach(p)' = Mach(p) /\ Listed' = Listed /\ UsersOf(Mach(p))' = UsersOf(Mach(p))
      BY <2>1 DEF Ws, Mach, Listed, UsersOf
    <3> QED
      BY <1>t, <2>1, <3>1, <3>2 DEF SeqPlace
  <2> QED
    BY <2>2, <2>3 DEF SeqInv
<1> QED
  <2>1. CASE UNCHANGED vars
    BY <1>146, <2>1
  <2>2. ASSUME NEW p \in Procs, Resolve(p) PROVE SeqInv'
    BY <2>2, <1>100, <1>101, <1>108, <1>109, <1>119, <1>120, <1>123, <1>131, <1>132, <1>133, <1>137, <1>138, <1>139,
       <1>140, <1>142 DEF Resolve
  <2>3. ASSUME NEW p \in Procs, Work(p) PROVE SeqInv'
    BY <2>3, <1>102, <1>103, <1>104, <1>105, <1>106, <1>107, <1>110, <1>111, <1>112, <1>113, <1>114, <1>115, <1>116,
       <1>117, <1>118, <1>121, <1>122, <1>134, <1>135, <1>136, <1>139, <1>140, <1>143, <1>144, <1>147 DEF Work
  <2> QED
    BY <2>1, <2>2, <2>3, <1>136, <1>145 DEF Next, Finished

\* At the start every machine folder is that of a workspace that exists.
LEMMA SeqInvInit == Init => SeqInv
<1> SUFFICES ASSUME Init PROVE SeqInv
  OBVIOUS
<1>1. /\ kind \in {"none", "own", "single"} /\ Existing \subseteq Workspaces
      /\ wsConfig = [w \in Workspaces |-> IF w \in Existing THEN ExistingConfig(kind, w) ELSE NoConfig]
      /\ machineFolder = {wsConfig[w].machine : w \in Existing} \ {NoMachine}
      /\ pc = [p \in Procs |-> "idle"]
  BY CommandsAssumption DEF Init
<1>2. OneActive /\ \A p \in Procs : ~Active(p)
  BY <1>1 DEF OneActive, Active
<1>3. \A p \in Procs : SeqPlace(p, pc[p])
  BY <1>2, InactiveKnows
<1>4. ASSUME NEW w \in Existing
      PROVE  /\ w \in Listed /\ (kind # "single" /\ wsConfig[w].machine # NoMachine => wsConfig[w].autoDelete)
             /\ kind = "single" => wsConfig[w].machine = SingleMachine
  <2>1. wsConfig[w] = ExistingConfig(kind, w) /\ w \in Workspaces
    BY <1>1
  <2>2. ExistingMachine \in [Existing -> Machines] /\ NoConfig \notin Configs /\ SingleMachine \in Machines
    BY CommandsAssumption DEF ExistingMachine, Configs, Places
  <2>c. \A m \in Places, auto \in BOOLEAN : Config(NoProc, m, auto) \in Configs
    BY DEF Config, Configs
  <2>3. CASE kind = "none"
    <3>1. wsConfig[w] = Config(NoProc, NoMachine, FALSE)
      BY <2>1, <2>3 DEF ExistingConfig
    <3>2. wsConfig[w].machine = NoMachine /\ wsConfig[w].autoDelete = FALSE
      BY <3>1 DEF Config
    <3>3. wsConfig[w] \in Configs
      BY <2>2, <2>c, <3>1 DEF Places
    <3>4. w \in Listed
      BY <2>1, <2>2, <3>3 DEF Listed
    <3> QED
      BY <2>3, <3>2, <3>4
  <2>4. CASE kind = "single"
    <3>1. wsConfig[w] = Config(NoProc, SingleMachine, FALSE)
      BY <2>1, <2>4 DEF ExistingConfig
    <3>2. wsConfig[w].machine = SingleMachine /\ wsConfig[w].autoDelete = FALSE
      BY <3>1 DEF Config
    <3>3. wsConfig[w] \in Configs
      BY <2>2, <2>c, <3>1 DEF Places
    <3>4. w \in Listed
      BY <2>1, <2>2, <3>3 DEF Listed
    <3> QED
      BY <2>4, <3>2, <3>4
  <2>5. CASE kind = "own"
    <3>1. wsConfig[w] = Config(NoProc, ExistingMachine[w], TRUE) /\ ExistingMachine[w] \in Machines
      BY <2>1, <2>2, <2>5 DEF ExistingConfig
    <3>2. wsConfig[w].machine = ExistingMachine[w] /\ wsConfig[w].autoDelete = TRUE
      BY <3>1 DEF Config
    <3>3. wsConfig[w] \in Configs
      BY <2>2, <2>c, <3>1 DEF Places
    <3>4. w \in Listed
      BY <2>1, <2>2, <3>3 DEF Listed
    <3> QED
      BY <2>5, <3>2, <3>4
  <2> QED
    BY <1>1, <2>3, <2>4, <2>5
<1>5. FoldersOwned
  BY <1>1, <1>4 DEF FoldersOwned, Owns
<1>6. OnlySingle
  BY <1>1, <1>4 DEF OnlySingle
<1> QED
  BY <1>2, <1>3, <1>5, <1>6 DEF SeqInv

\* It holds in every reachable state if at most one command runs at a time.
LEMMA SeqInvAlways == ASSUME MaxActive = 1 PROVE Spec => []SeqInv
  BY SeqInvInit, SeqInvNext, CmdInvAlways, PTL DEF Spec

\* Commands that run one after the other, and each of which may fail or be killed at any
\* step, leave no machine folder without a workspace.
THEOREM NoUnusedMachineHolds == ASSUME MaxActive = 1 PROVE Spec => []NoUnusedMachine
<1>1. SeqInv => NoUnusedMachine
  <2> SUFFICES ASSUME SeqInv, NEW m \in machineFolder \cap WorkspaceMachines PROVE UsersOf(m) # {}
    BY DEF NoUnusedMachine
  <2>1. PICK w \in Workspaces : Owns(w, m)
    BY DEF SeqInv, FoldersOwned
  <2> QED
    BY <2>1 DEF Owns, UsersOf
<1> QED
  BY <1>1, SeqInvAlways, PTL

\* They remove the folder of a machine only when no other workspace names it, or with the
\* workspace that it was created for.
THEOREM UsedMachineIsKeptHolds == ASSUME MaxActive = 1 PROVE Spec => UsedMachineIsKept
<1>1. SeqInv =>
        [\A p \in Procs :
            Steps(p) /\ pc[p] = "rmMachine" /\ ~Overlaps /\ ~cfg[p].autoDelete
                => UsersOf(Mach(p)) \subseteq (IF cmd[p] \in WorkspaceCommand THEN {Ws(p)} ELSE {})]_vars
  BY DEF SeqInv, SeqPlace
<1> QED
  BY <1>1, SeqInvAlways, PTL DEF UsedMachineIsKept

\* And a delete --force that comes to its end has removed the workspace, whatever the
\* commands before it left behind.
THEOREM ForceDeleteRecoversHolds == ASSUME MaxActive = 1 PROVE Spec => ForceDeleteRecovers
<1>1. SeqInv =>
        [\A p \in Procs :
            Steps(p) /\ pc[p] = "exit" /\ cmd[p] = "forceDelete" => Ws(p) \notin Listed]_vars
  BY DEF SeqInv, SeqPlace
<1> QED
  BY <1>1, SeqInvAlways, PTL DEF ForceDeleteRecovers

=============================================================================
