---------------------------- MODULE PlatformTasks ----------------------------
(***************************************************************************)
(* Workspaces of a daemon provider (pkg/client/clientimplementation/       *)
(* daemonclient, pkg/platform/instance.go): up, stop and delete of an      *)
(* instance on the platform.  Up brings the template of the instance up to *)
(* date, looks for an up task that still runs, cancels it, creates its own *)
(* task and observes it; stop creates a task and observes it; delete asks  *)
(* for the deletion and waits for it.  Processes are interrupted and       *)
(* killed, requests fail and log streams break.                            *)
(*                                                                         *)
(* observeTask has three goroutines around a channel with one place: the   *)
(* caller receives from it; the printer of the logs sends its result to    *)
(* it; the canceller waits for the end of the context, but also receives   *)
(* from the channel.  A value sent goes to one of the two that wait.       *)
(***************************************************************************)
EXTENDS Integers, Sequences

CONSTANTS TaskClients,    \* processes that work on the one instance
          NoTask,
          MaxTaskCommands, \* bound: commands
          MaxInstances,   \* bound: instances, one after the other
          MaxRequestFaults, \* bound: failing requests, broken streams and kills
          MaxInterrupts   \* bound: interrupted commands

ASSUME PlatformTasksAssumption ==
    /\ NoTask \notin Nat
    /\ {MaxTaskCommands, MaxInstances, MaxRequestFaults, MaxInterrupts} \subseteq Nat

VARIABLES
    instance,  \* the instance: whether its template has changes and is to be synced
    tasks,     \* the tasks of its instances
    cl,        \* the processes
    raced,     \* history: an up task was created after another up had looked for one
    taskCommands, requestFaults, interrupts

taskVars == <<instance, tasks, cl, raced, taskCommands, requestFaults, interrupts>>

NoCommand == [op |-> "none", pc |-> "idle", force |-> FALSE, task |-> NoTask,
         found |-> NoTask,         \* the active task of somebody else
         canceled |-> FALSE,       \* its context is done
         excused |-> FALSE,        \* history: its stream or its cancel request failed
         canceller |-> "none", printer |-> "none",   \* none, waits, sends or done
         exit |-> 0, chan |-> "empty",
         outcome |-> "none"]       \* of the last command

TasksInit ==
    /\ instance = [there |-> TRUE, deleting |-> FALSE, number |-> 1, syncOnce |-> FALSE, changes |-> FALSE]
    /\ tasks = <<>>
    /\ cl = [c \in TaskClients |-> NoCommand]
    /\ raced = FALSE /\ taskCommands = 0 /\ requestFaults = 0 /\ interrupts = 0

Pc(c, pc) == cl' = [cl EXCEPT ![c].pc = pc]
Ends(c, outcome) == cl' = [cl EXCEPT ![c] = [NoCommand EXCEPT !.op = cl[c].op, !.task = cl[c].task,
                                !.excused = cl[c].excused, !.outcome = outcome]]
Requests(c) == cl[c].pc \in {"find", "patch", "wait", "active", "cancel", "create", "result",
                             "delete", "gone"}
Quiescent == UNCHANGED <<taskCommands, requestFaults, interrupts>>

-----------------------------------------------------------------------------
(* The platform *)

TaskEnds(t) ==
    /\ tasks[t].status = "Running"
    /\ \E status \in {"Succeeded", "Failed"} : tasks' = [tasks EXCEPT ![t].status = status]
    /\ UNCHANGED <<instance, cl, raced>> /\ Quiescent

TemplateChanges ==
    /\ instance.there /\ instance' = [instance EXCEPT !.changes = TRUE]
    /\ UNCHANGED <<tasks, cl, raced>> /\ Quiescent

\* The controller syncs the template and removes the field that asked for it.
TemplateSyncs ==
    /\ instance.there /\ instance.syncOnce
    /\ instance' = [instance EXCEPT !.syncOnce = FALSE, !.changes = FALSE]
    /\ UNCHANGED <<tasks, cl, raced>> /\ Quiescent

\* The finalizers of a deleted instance have run.
InstanceGoes ==
    /\ instance.there /\ instance.deleting
    /\ instance' = [instance EXCEPT !.there = FALSE]
    /\ UNCHANGED <<tasks, cl, raced>> /\ Quiescent

\* `devpod up' of a new workspace, and Create of the local client.
InstanceIsCreated ==
    /\ ~instance.there /\ instance.number < MaxInstances
    /\ instance' = [there |-> TRUE, deleting |-> FALSE, number |-> instance.number + 1,
                    syncOnce |-> FALSE, changes |-> FALSE]
    /\ UNCHANGED <<tasks, cl, raced>> /\ Quiescent

-----------------------------------------------------------------------------
(* The commands *)

TaskCommand(c, op, force) ==
    /\ cl[c].pc = "idle" /\ (force => op = "delete")
    /\ taskCommands < MaxTaskCommands /\ taskCommands' = taskCommands + 1
    /\ cl' = [cl EXCEPT ![c] = [NoCommand EXCEPT !.op = op, !.force = force, !.pc = "find"]]
    /\ UNCHANGED <<instance, tasks, raced, requestFaults, interrupts>>

\* FindInstance; up of a migrated instance needs --recreate or --reset; and
\* templateUpdateRequired.
FindInstance(c) ==
    /\ cl[c].pc = "find"
    /\ \E migrated \in BOOLEAN :
       IF ~instance.there THEN Ends(c, IF cl[c].op = "delete" THEN "ok" ELSE "failed")
       ELSE IF cl[c].op = "up" /\ migrated THEN Ends(c, "failed")
       ELSE Pc(c, IF cl[c].op = "delete" THEN "delete"
                  ELSE IF cl[c].op = "stop" THEN "create"
                  ELSE IF instance.changes THEN "patch" ELSE "active")
    /\ UNCHANGED <<instance, tasks, raced>> /\ Quiescent

\* UpdateInstance: the patch asks for one sync ...
UpdateInstance(c) ==
    /\ cl[c].pc = "patch"
    /\ IF instance.there
       THEN instance' = [instance EXCEPT !.syncOnce = TRUE] /\ Pc(c, "wait")
       ELSE Ends(c, "failed") /\ UNCHANGED instance
    /\ UNCHANGED <<tasks, raced>> /\ Quiescent

\* ... and WaitForInstance polls until the field has gone, for 30 seconds.
WaitForInstance(c) ==
    /\ cl[c].pc = "wait"
    /\ IF instance.there /\ ~instance.syncOnce THEN Pc(c, "active") ELSE Ends(c, "failed")
    /\ UNCHANGED <<instance, tasks, raced>> /\ Quiescent

IsActive(t) == tasks[t].of = instance.number /\ tasks[t].type = "up" /\ tasks[t].status = "Running"
Active == {t \in DOMAIN tasks : IsActive(t)}

\* findActiveUpTask: the first one in the list.
FindActiveUpTask(c) ==
    /\ cl[c].pc = "active"
    /\ IF Active = {} THEN Pc(c, "create")
       ELSE \E t \in Active : /\ \A s \in Active : t <= s
                             /\ cl' = [cl EXCEPT ![c].pc = "cancel", ![c].found = t]
    /\ UNCHANGED <<instance, tasks, raced>> /\ Quiescent

\* Mutant: the new task is created beside the active one.
CancelFoundLater(c) ==
    /\ cl[c].pc = "cancel" /\ Pc(c, "create")
    /\ UNCHANGED <<instance, tasks, raced>> /\ Quiescent

\* The task that was found is cancelled; it may have ended since, and then the platform
\* may refuse, which ends the command.
CancelFound(c) ==
    /\ cl[c].pc = "cancel"
    /\ IF tasks[cl[c].found].status = "Running"
       THEN tasks' = [tasks EXCEPT ![cl[c].found].status = "Failed"] /\ Pc(c, "create")
       ELSE (Pc(c, "create") \/ Ends(c, "failed")) /\ UNCHANGED tasks
    /\ UNCHANGED <<instance, raced>> /\ Quiescent

\* The platform has a new task: another up that has looked for one does not know of it.
TaskIsCreated(c) ==
    /\ tasks' = Append(tasks, [of |-> instance.number, type |-> cl[c].op, status |-> "Running"])
    /\ raced' = (raced \/ \E o \in TaskClients \ {c} :
                    cl[c].op = "up" /\ cl[o].op = "up" /\ cl[o].pc \in {"cancel", "create"})

\* Up and Stop create their task; observeTask starts its goroutines.
CreateTask(c) ==
    /\ cl[c].pc = "create"
    /\ IF instance.there
       THEN /\ TaskIsCreated(c)
            /\ cl' = [cl EXCEPT ![c].pc = "observe", ![c].task = Len(tasks) + 1,
                                ![c].canceller = "waits", ![c].printer = "reads"]
       ELSE Ends(c, "failed") /\ UNCHANGED <<tasks, raced>>
    /\ UNCHANGED instance /\ Quiescent

\* The answer to the request is lost: the command ends and its task runs.
AnswerIsLost(c) ==
    /\ cl[c].pc = "create" /\ instance.there
    /\ requestFaults < MaxRequestFaults /\ requestFaults' = requestFaults + 1
    /\ TaskIsCreated(c) /\ Ends(c, "failed")
    /\ UNCHANGED <<instance, taskCommands, interrupts>>

-----------------------------------------------------------------------------
(* observeTask *)

\* A value is sent: one of those that wait receives it, and if nobody does it stays.
\* A canceller that receives it returns and the value is lost.
Send(c, process, value) ==
    \/ /\ process.chan = "empty"
       /\ cl' = [cl EXCEPT ![c] = [process EXCEPT !.chan = value]]
    \/ /\ process.canceller = "waits"
       /\ cl' = [cl EXCEPT ![c] = [process EXCEPT !.canceller = "done"]]

Ended(c) == tasks[cl[c].task].status # "Running"
ExitOf(c) == IF tasks[cl[c].task].status = "Succeeded" THEN 0 ELSE 1

\* printLogs ends: with the exit code of the task, or the stream ends without one ...
PrinterEnds(c) ==
    /\ cl[c].pc = "observe" /\ cl[c].printer = "reads" /\ Ended(c)
    /\ Send(c, [cl[c] EXCEPT !.printer = "done", !.exit = ExitOf(c)], "nil")
    /\ UNCHANGED <<instance, tasks, raced>> /\ Quiescent

\* ... or it breaks.
StreamBreaks(c) ==
    /\ cl[c].pc = "observe" /\ cl[c].printer = "reads" /\ requestFaults < MaxRequestFaults
    /\ requestFaults' = requestFaults + 1
    /\ \/ Send(c, [cl[c] EXCEPT !.printer = "done", !.exit = 0, !.excused = TRUE], "nil")
       \/ Send(c, [cl[c] EXCEPT !.printer = "done", !.exit = -1, !.excused = TRUE], "error")
    /\ UNCHANGED <<instance, tasks, raced, taskCommands, interrupts>>

\* Mutant: the end of the context only ends the printer of the logs.
CancelNothing(c) ==
    /\ cl[c].pc = "observe" /\ cl[c].canceled /\ cl[c].canceller = "waits"
    /\ cl' = [cl EXCEPT ![c].canceller = "sends"]
    /\ UNCHANGED <<instance, tasks, raced>> /\ Quiescent

\* The context is done: the canceller cancels the task and sends what came of it.
CancelTask(c) ==
    /\ cl[c].pc = "observe" /\ cl[c].canceled /\ cl[c].canceller = "waits"
    /\ tasks' = IF Ended(c) THEN tasks ELSE [tasks EXCEPT ![cl[c].task].status = "Failed"]
    /\ cl' = [cl EXCEPT ![c].canceller = "sends"]
    /\ UNCHANGED <<instance, raced>> /\ Quiescent

\* The cancellation fails, or five seconds pass.
CancelTaskFails(c) ==
    /\ cl[c].pc = "observe" /\ cl[c].canceled /\ cl[c].canceller = "waits"
    /\ requestFaults < MaxRequestFaults /\ requestFaults' = requestFaults + 1
    /\ cl' = [cl EXCEPT ![c].canceller = "sends", ![c].excused = TRUE]
    /\ UNCHANGED <<instance, tasks, raced, taskCommands, interrupts>>

CancellerSends(c) ==
    /\ cl[c].pc = "observe" /\ cl[c].canceller = "sends" /\ cl[c].chan = "empty"
    /\ cl' = [cl EXCEPT ![c].canceller = "done", ![c].chan = "error"]
    /\ UNCHANGED <<instance, tasks, raced>> /\ Quiescent

\* The caller receives: waitTaskDone goes on to the result; Stop does not look at the
\* exit code.
ObserveReturns(c) ==
    /\ cl[c].pc = "observe" /\ cl[c].chan # "empty"
    /\ IF cl[c].chan = "error" THEN Ends(c, "failed")
       ELSE IF cl[c].op = "stop" THEN Ends(c, "ok")
       ELSE IF cl[c].exit # 0 THEN Ends(c, "failed")
       ELSE Pc(c, "result")
    /\ UNCHANGED <<instance, tasks, raced>> /\ Quiescent

\* The platform has a result of the task or has none; the status is not read.
GetResult(c) ==
    /\ cl[c].pc = "result"
    /\ \E outcome \in {"ok", "failed"} : Ends(c, outcome)
    /\ UNCHANGED <<instance, tasks, raced>> /\ Quiescent

-----------------------------------------------------------------------------
(* Delete *)

DeleteInstance(c) ==
    /\ cl[c].pc = "delete"
    /\ \/ instance.there /\ instance' = [instance EXCEPT !.deleting = TRUE] /\ Pc(c, "gone")
       \/ ~instance.there /\ UNCHANGED instance
          /\ IF cl[c].force THEN Pc(c, "gone") ELSE Ends(c, "failed")
    /\ UNCHANGED <<tasks, raced>> /\ Quiescent

\* The folder of the workspace goes; then the instance is polled until it is not found
\* or is a new one that nobody deletes, or the time is over.
PollGone(c) ==
    /\ cl[c].pc = "gone"
    /\ Ends(c, IF instance.there /\ instance.deleting THEN "failed" ELSE "ok")
    /\ UNCHANGED <<instance, tasks, raced>> /\ Quiescent

-----------------------------------------------------------------------------
(* Faults *)

\* A request fails, also because the user interrupts the command; only the deletion with --force goes on.
RequestFails(c) ==
    /\ Requests(c) /\ requestFaults < MaxRequestFaults /\ requestFaults' = requestFaults + 1
    /\ IF cl[c].pc = "delete" /\ cl[c].force THEN Pc(c, "gone") ELSE Ends(c, "failed")
    /\ UNCHANGED <<instance, tasks, raced, taskCommands, interrupts>>

Killed(c) ==
    /\ cl[c].pc # "idle" /\ requestFaults < MaxRequestFaults /\ requestFaults' = requestFaults + 1
    /\ cl' = [cl EXCEPT ![c] = NoCommand]
    /\ UNCHANGED <<instance, tasks, raced, taskCommands, interrupts>>

Interrupted(c) ==
    /\ cl[c].pc = "observe" /\ ~cl[c].canceled /\ interrupts < MaxInterrupts
    /\ interrupts' = interrupts + 1
    /\ cl' = [cl EXCEPT ![c].canceled = TRUE]
    /\ UNCHANGED <<instance, tasks, raced, taskCommands, requestFaults>>

-----------------------------------------------------------------------------
TaskClientStep(c) ==
    \/ FindInstance(c) \/ UpdateInstance(c) \/ WaitForInstance(c) \/ FindActiveUpTask(c)
    \/ CancelFound(c) \/ CreateTask(c)
    \/ PrinterEnds(c) \/ CancelTask(c) \/ CancellerSends(c) \/ ObserveReturns(c) \/ GetResult(c)
    \/ DeleteInstance(c) \/ PollGone(c)

TasksNext ==
    \/ TemplateChanges \/ TemplateSyncs \/ InstanceGoes \/ InstanceIsCreated
    \/ \E t \in DOMAIN tasks : TaskEnds(t)
    \/ \E c \in TaskClients :
          \/ \E op \in {"up", "stop", "delete"}, force \in BOOLEAN : TaskCommand(c, op, force)
          \/ TaskClientStep(c)
          \/ StreamBreaks(c) \/ AnswerIsLost(c) \/ CancelTaskFails(c) \/ RequestFails(c) \/ Killed(c) \/ Interrupted(c)

TasksSpec == TasksInit /\ [][TasksNext]_taskVars

-----------------------------------------------------------------------------
(* Properties *)

\* An up or stop that returns, interrupted or not, leaves no task of its own running on
\* the platform, whichever of the goroutines of observeTask comes first and whoever else
\* cancels the task (up.go:186, "cancel ongoing task if context is done").  Not so if it is
\* killed, if its stream of logs breaks off, or if the request that creates or cancels the
\* task fails: then nobody cancels what may run.
NoTaskLeftRunning == \A c \in TaskClients :
    cl[c].pc = "idle" /\ cl[c].task # NoTask /\ ~cl[c].excused => tasks[cl[c].task].status # "Running"

\* One up task of an instance runs at a time (up.go:80, "if we have an active up task, cancel
\* it before creating a new one"), whatever fails, is killed or is lost on the way, as long
\* as no up creates its task after another one has looked and before that creates its own.
OneUpTask == ~raced => \A s, t \in Active : s = t
==============================================================================
