---------------------------- MODULE WorkspaceLock ----------------------------
(***************************************************************************)
(* The file locks every devpod command takes around its critical section   *)
(* (pkg/client/clientimplementation/workspace_client.go and               *)
(* proxy_client.go).  A command first locks the file of its workspace and, *)
(* when the workspace runs on a machine, then the file of that machine.    *)
(* Both are flock(2) locks: TryLock polls, gives up after five minutes or  *)
(* when the context is cancelled, and the operating system releases every  *)
(* lock of a process that exits.                                           *)
(***************************************************************************)
CONSTANTS Procs,        \* devpod processes
          Workspaces,   \* workspace ids
          Machines,     \* machine ids
          NoProc,       \* the lock file is not locked
          NoMachine     \* a workspace without a machine has no machine lock

ASSUME LockAssumption == /\ NoProc \notin Procs
                         /\ NoMachine \notin Machines

VARIABLES
    lockPc,        \* where a process is in Lock / Unlock
    lockWs,        \* the workspace of the client the process built
    lockMachine,   \* the machine of that client, or NoMachine
    workspaceLock, \* <id>.workspace.lock: who holds it
    machineLock    \* <id>.machine.lock: who holds it

lockVars == <<lockPc, lockWs, lockMachine, workspaceLock, machineLock>>

LockPcs == {"idle", "tryWorkspace", "tryMachine", "held", "failed", "unlocking"}

LockInit ==
    /\ lockPc = [p \in Procs |-> "idle"]
    /\ lockWs \in [Procs -> Workspaces]
    /\ lockMachine = [p \in Procs |-> NoMachine]
    /\ workspaceLock = [w \in Workspaces |-> NoProc]
    /\ machineLock = [m \in Machines |-> NoProc]

\* initLock: the lock handles of the client; which machine the workspace has
\* was read from its config before.
Lock(p, w, m) ==
    /\ lockPc[p] = "idle"
    /\ lockPc' = [lockPc EXCEPT ![p] = "tryWorkspace"]
    /\ lockWs' = [lockWs EXCEPT ![p] = w]
    /\ lockMachine' = [lockMachine EXCEPT ![p] = m]
    /\ UNCHANGED <<workspaceLock, machineLock>>

\* Mutant: the result of TryLock is not looked at.
LockWorkspaceUnguarded(p) ==
    /\ lockPc[p] = "tryWorkspace"
    /\ workspaceLock' = [workspaceLock EXCEPT ![lockWs[p]] = p]
    /\ lockPc' = [lockPc EXCEPT ![p] = IF lockMachine[p] = NoMachine
                                       THEN "held" ELSE "tryMachine"]
    /\ UNCHANGED <<lockWs, lockMachine, machineLock>>

\* TryLock on the workspace file succeeds.
LockWorkspace(p) ==
    /\ lockPc[p] = "tryWorkspace"
    /\ workspaceLock[lockWs[p]] = NoProc
    /\ workspaceLock' = [workspaceLock EXCEPT ![lockWs[p]] = p]
    /\ lockPc' = [lockPc EXCEPT ![p] = IF lockMachine[p] = NoMachine
                                       THEN "held" ELSE "tryMachine"]
    /\ UNCHANGED <<lockWs, lockMachine, machineLock>>

\* Mutant: the machine may be locked before the workspace.
LockMachineAnyOrder(p) ==
    /\ lockPc[p] \in {"tryWorkspace", "tryMachine"} /\ lockMachine[p] # NoMachine
    /\ machineLock[lockMachine[p]] \in {NoProc, p}
    /\ machineLock' = [machineLock EXCEPT ![lockMachine[p]] = p]
    /\ lockPc' = [lockPc EXCEPT ![p] = IF @ = "tryMachine" THEN "held" ELSE @]
    /\ UNCHANGED <<lockWs, lockMachine, workspaceLock>>

\* TryLock on the machine file succeeds.
LockMachine(p) ==
    /\ lockPc[p] = "tryMachine"
    /\ machineLock[lockMachine[p]] = NoProc
    /\ machineLock' = [machineLock EXCEPT ![lockMachine[p]] = p]
    /\ lockPc' = [lockPc EXCEPT ![p] = "held"]
    /\ UNCHANGED <<lockWs, lockMachine, workspaceLock>>

\* tryLock times out, is cancelled or TryLock fails.  Lock returns the error
\* and leaves a workspace lock it already has: the command ends without Unlock.
LockFails(p) ==
    /\ lockPc[p] \in {"tryWorkspace", "tryMachine"}
    /\ lockPc' = [lockPc EXCEPT ![p] = "failed"]
    /\ UNCHANGED <<lockWs, lockMachine, workspaceLock, machineLock>>

\* Unlock releases the machine first...
UnlockMachine(p) ==
    /\ lockPc[p] = "held"
    /\ machineLock' = [m \in Machines |->
                          IF m = lockMachine[p] THEN NoProc ELSE machineLock[m]]
    /\ lockPc' = [lockPc EXCEPT ![p] = "unlocking"]
    /\ UNCHANGED <<lockWs, lockMachine, workspaceLock>>

\* ... and then the workspace.
UnlockWorkspace(p) ==
    /\ lockPc[p] = "unlocking"
    /\ workspaceLock' = [workspaceLock EXCEPT ![lockWs[p]] = NoProc]
    /\ lockPc' = [lockPc EXCEPT ![p] = "idle"]
    /\ UNCHANGED <<lockWs, lockMachine, machineLock>>

\* The process exits, regularly or killed: the kernel drops its flocks.
Exit(p) ==
    /\ lockPc[p] # "idle"
    /\ lockPc' = [lockPc EXCEPT ![p] = "idle"]
    /\ workspaceLock' = [w \in Workspaces |->
                            IF workspaceLock[w] = p THEN NoProc ELSE workspaceLock[w]]
    /\ machineLock' = [m \in Machines |->
                            IF machineLock[m] = p THEN NoProc ELSE machineLock[m]]
    /\ UNCHANGED <<lockWs, lockMachine>>

LockStep(p) ==
    \/ \E w \in Workspaces, m \in Machines \cup {NoMachine} : Lock(p, w, m)
    \/ LockWorkspace(p)
    \/ LockMachine(p)
    \/ LockFails(p)
    \/ UnlockMachine(p)
    \/ UnlockWorkspace(p)
    \/ Exit(p)

LockNext == \E p \in Procs : LockStep(p)

LockSpec == LockInit /\ [][LockNext]_lockVars

-----------------------------------------------------------------------------
(* Properties *)

\* The shape of the lock state.
LockTypeOK ==
    /\ lockPc \in [Procs -> LockPcs]
    /\ lockWs \in [Procs -> Workspaces]
    /\ lockMachine \in [Procs -> Machines \cup {NoMachine}]
    /\ workspaceLock \in [Workspaces -> Procs \cup {NoProc}]
    /\ machineLock \in [Machines -> Procs \cup {NoProc}]

\* Between Lock and Unlock a command is alone on its workspace and alone on its
\* machine, also when the other command works on another workspace of the same
\* (shared) machine.
MutualExclusion ==
    \A p, q \in Procs :
        lockPc[p] = "held" /\ lockPc[q] = "held" /\ p # q
            => /\ lockWs[p] # lockWs[q]
               /\ lockMachine[p] = NoMachine \/ lockMachine[p] # lockMachine[q]

\* A lock file is locked by exactly the processes that are past its TryLock and
\* not yet past its Unlock: no path through Lock, its failures, Unlock or a
\* killed process leaves a lock behind that nobody will release.
LocksAccounted ==
    /\ \A p \in Procs :
         /\ lockPc[p] \in {"tryMachine", "held", "unlocking"} => workspaceLock[lockWs[p]] = p
         /\ lockPc[p] = "held" /\ lockMachine[p] # NoMachine => machineLock[lockMachine[p]] = p
    /\ \A w \in Workspaces : workspaceLock[w] # NoProc =>
         /\ lockWs[workspaceLock[w]] = w
         /\ lockPc[workspaceLock[w]] \in {"tryMachine", "held", "unlocking", "failed"}
    /\ \A m \in Machines : machineLock[m] # NoProc =>
         /\ lockMachine[machineLock[m]] = m
         /\ lockPc[machineLock[m]] = "held"

\* p polls a lock file that q holds.
WaitsFor(p, q) ==
    \/ lockPc[p] = "tryWorkspace" /\ workspaceLock[lockWs[p]] = q
    \/ lockPc[p] = "tryMachine" /\ machineLock[lockMachine[p]] = q

\* Workspace first, machine second: no set of processes waits in a circle, so
\* the five minute limit is never what resolves a deadlock.
NoWaitCycle ==
    \A S \in (SUBSET Procs) \ {{}} : \E p \in S : \A q \in S : ~WaitsFor(p, q)

\* What the locks promise: every workspace and every machine is used by at most
\* one command at a time.
inUse == [p \in Procs |->
            IF lockPc[p] # "held" THEN {}
            ELSE {<<"workspace", lockWs[p]>>} \cup
                 (IF lockMachine[p] = NoMachine THEN {} ELSE {<<"machine", lockMachine[p]>>})]

Exclusive == INSTANCE ExclusiveUse WITH
    Users <- Procs,
    Resources <- ({"workspace"} \X Workspaces) \cup ({"machine"} \X Machines),
    using <- inUse

\* Lock and Unlock implement that promise.
ImplementsExclusiveUse == Exclusive!Spec
=============================================================================
