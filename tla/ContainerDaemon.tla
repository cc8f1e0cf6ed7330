--------------------------- MODULE ContainerDaemon ---------------------------
(***************************************************************************)
(* The daemon inside the dev container (cmd/agent/container/daemon.go):    *)
(* the network server, the ssh server process, the inactivity timeout and  *)
(* the signal handler are goroutines that report their end through one     *)
(* buffered channel.  Run takes the first report, cancels the others and   *)
(* waits for those in the wait group.  The timeout monitor reads the       *)
(* modification time of the activity file, which the ssh session of a      *)
(* connected user (cmd/helper/ssh_server.go) touches.                      *)
(***************************************************************************)
EXTENDS Integers, Sequences

CONSTANTS Sessions,       \* ssh sessions of users
          Tasks,          \* what may be configured besides the timeout
          Timeouts,       \* containerInactivityTimeout; 0 is none
          CheckInterval,  \* the ticker of the timeout monitor: 10 seconds
          TouchInterval,  \* the sleep of an ssh session: 10 seconds
          NoTime,         \* no activity file, no session
          MaxTime         \* bound: the clock

ASSUME ContainerDaemonAssumption ==
    /\ Tasks \subseteq {"reaper", "network", "ssh"}
    /\ Timeouts \subseteq Nat /\ MaxTime \in Nat
    /\ CheckInterval \in Nat \ {0} /\ TouchInterval \in Nat \ {0}
    /\ NoTime \notin Nat

VARIABLES
    now,
    config,     \* the tasks to run (the reaper as pid 1), and the timeout
    main,       \* Run: "load", "receive", "wait", "exited"
    task,       \* each goroutine: "none", "running", "sending", "done"
    errChan,    \* the reports, by sender
    cancelled,  \* ctx is done
    sshProcess, \* the ssh server: "none", "running", "exited"
    activity,   \* modification time of the activity file
    check,      \* the ticker's next tick
    touch,      \* when a session touches the file next
    since,      \* when a session connected
    lastUse     \* history: the last time a session was there

timeVars == <<activity, check, touch, since, lastUse>>
vars == <<now, config, main, task, errChan, cancelled, sshProcess, timeVars>>

\* Mutant: a channel for fewer reports than there can be.
CapacityOfTwo == 2

\* make(chan error, 4)
Capacity == 4

\* The goroutines in the wait group, and the two that are not.
WaitGroup == {"reaper", "network", "timeout", "ssh", "idle"}
Goroutines == WaitGroup \cup {"sshKill", "signals"}

Init ==
    /\ now = 0
    /\ config \in [tasks : SUBSET Tasks, timeout : Timeouts]
    /\ main = "load"
    /\ task = [g \in Goroutines |-> "none"]
    /\ errChan = <<>>
    /\ cancelled = FALSE
    /\ sshProcess = "none"
    /\ activity = NoTime /\ check = 0 /\ lastUse = 0
    /\ touch = [s \in Sessions |-> NoTime]
    /\ since = [s \in Sessions |-> NoTime]

-----------------------------------------------------------------------------
(* Run *)

Configured == config.tasks \cup {"signals"}
    \cup (IF config.timeout > 0 THEN {"timeout"} ELSE {})
    \cup (IF config.tasks \subseteq {"reaper"} /\ config.timeout = 0 THEN {"idle"} ELSE {})

\* loadConfig, setupActivityFile and the start of the goroutines; an error of the
\* first two ends the daemon.
RunTasks ==
    /\ main = "load"
    /\ \/ /\ main' = "receive"
          /\ task' = [g \in Goroutines |-> IF g \in Configured THEN "running" ELSE "none"]
          /\ activity' = IF config.timeout > 0 THEN now ELSE activity
          /\ check' = now + CheckInterval
       \/ /\ main' = "exited"
          /\ UNCHANGED <<task, activity, check>>
    /\ UNCHANGED <<now, config, errChan, cancelled, sshProcess, touch, since, lastUse>>

\* err := <-errChan; cancel()
Receive ==
    /\ main = "receive" /\ errChan # <<>>
    /\ errChan' = Tail(errChan)
    /\ cancelled' = TRUE
    /\ main' = "wait"
    /\ UNCHANGED <<now, config, task, sshProcess, timeVars>>

\* wg.Wait(), os.Exit
WaitTasks ==
    /\ main = "wait"
    /\ \A g \in WaitGroup : task[g] \in {"none", "done"}
    /\ main' = "exited"
    /\ UNCHANGED <<now, config, task, errChan, cancelled, sshProcess, timeVars>>

-----------------------------------------------------------------------------
(* The goroutines *)

Alive == main # "exited"

Becomes(g, s) == task' = [task EXCEPT ![g] = s]

\* errChan <- err, the last thing each goroutine does.
Send(g) ==
    /\ Alive /\ task[g] = "sending" /\ Len(errChan) < Capacity
    /\ errChan' = Append(errChan, g)
    /\ Becomes(g, "done")
    /\ UNCHANGED <<now, config, main, cancelled, sshProcess, timeVars>>

\* The reaper, the idle goroutine, the network server, the timeout monitor and the
\* signal handler return when ctx is done.
Cancelled(g) ==
    /\ Alive /\ cancelled /\ g \in {"reaper", "idle", "network", "timeout", "signals"}
    /\ task[g] = "running"
    /\ Becomes(g, "done")
    /\ UNCHANGED <<now, config, main, errChan, cancelled, sshProcess, timeVars>>

\* The network server fails, or a signal arrives.
Fails(g) ==
    /\ Alive /\ g \in {"network", "signals"} /\ task[g] = "running"
    /\ Becomes(g, "sending")
    /\ UNCHANGED <<now, config, main, errChan, cancelled, sshProcess, timeVars>>

\* One tick of the monitor; without the file it goes on.
CheckTimeout ==
    /\ Alive /\ task["timeout"] = "running" /\ now >= check
    /\ check' = check + CheckInterval
    /\ IF activity # NoTime /\ activity + config.timeout <= now
       THEN Becomes("timeout", "sending") ELSE UNCHANGED task
    /\ UNCHANGED <<now, config, main, errChan, cancelled, sshProcess, activity, touch, since, lastUse>>

\* sshCmd.Start, and the goroutine that will kill the process.
StartSsh ==
    /\ Alive /\ task["ssh"] = "running" /\ sshProcess = "none"
    /\ \/ /\ sshProcess' = "running"
          /\ Becomes("sshKill", "running")
       \/ /\ Becomes("ssh", "sending")
          /\ UNCHANGED sshProcess
    /\ UNCHANGED <<now, config, main, errChan, cancelled, timeVars>>

\* The ssh server ends by itself.
SshExits ==
    /\ sshProcess = "running"
    /\ sshProcess' = "exited"
    /\ UNCHANGED <<now, config, main, task, errChan, cancelled, timeVars>>

\* sshCmd.Wait: a process that was killed or reaped by somebody else is an error.
WaitSsh ==
    /\ Alive /\ task["ssh"] = "running" /\ sshProcess = "exited"
    /\ Becomes("ssh", "sending") \/ Becomes("ssh", "done")
    /\ UNCHANGED <<now, config, main, errChan, cancelled, sshProcess, timeVars>>

\* ctx is done: SIGTERM.  It fails when the process is gone.
KillSsh ==
    /\ Alive /\ cancelled /\ task["sshKill"] = "running"
    /\ \/ sshProcess = "running" /\ sshProcess' = "exited" /\ Becomes("sshKill", "done")
       \/ sshProcess = "exited" /\ UNCHANGED sshProcess
          /\ (Becomes("sshKill", "sending") \/ Becomes("sshKill", "done"))
    /\ UNCHANGED <<now, config, main, errChan, cancelled, timeVars>>

\* close(done)
SshDone ==
    /\ Alive /\ task["sshKill"] = "running" /\ task["ssh"] = "done"
    /\ Becomes("sshKill", "done")
    /\ UNCHANGED <<now, config, main, errChan, cancelled, sshProcess, timeVars>>

-----------------------------------------------------------------------------
(* The sessions *)

InUse == \E s \in Sessions : touch[s] # NoTime

\* ssh-server --stdio --track-activity writes the file if there is none.
Connect(s) ==
    /\ main \in {"receive", "wait"} /\ touch[s] = NoTime
    /\ touch' = [touch EXCEPT ![s] = now + TouchInterval]
    /\ since' = [since EXCEPT ![s] = now]
    /\ activity' = IF activity = NoTime THEN now ELSE activity
    /\ lastUse' = now
    /\ UNCHANGED <<now, config, main, task, errChan, cancelled, sshProcess, check>>

\* Mutant: the file is written only when there is none.
TouchMissing(s) ==
    /\ Alive /\ touch[s] # NoTime /\ now >= touch[s]
    /\ activity' = IF activity = NoTime THEN now ELSE activity
    /\ touch' = [touch EXCEPT ![s] = now + TouchInterval]
    /\ UNCHANGED <<now, config, main, task, errChan, cancelled, sshProcess, check, since, lastUse>>

Touch(s) ==
    /\ Alive /\ touch[s] # NoTime /\ now >= touch[s]
    /\ activity' = now
    /\ touch' = [touch EXCEPT ![s] = now + TouchInterval]
    /\ UNCHANGED <<now, config, main, task, errChan, cancelled, sshProcess, check, since, lastUse>>

Disconnect(s) ==
    /\ touch[s] # NoTime
    /\ touch' = [touch EXCEPT ![s] = NoTime]
    /\ since' = [since EXCEPT ![s] = NoTime]
    /\ lastUse' = now
    /\ UNCHANGED <<now, config, main, task, errChan, cancelled, sshProcess, activity, check>>

\* Somebody clears /tmp.
RemoveActivityFile ==
    /\ Alive /\ activity # NoTime
    /\ activity' = NoTime
    /\ UNCHANGED <<now, config, main, task, errChan, cancelled, sshProcess, check, touch, since, lastUse>>

\* Nothing that is due is put off; goroutines are much faster than the clock.
Tick ==
    /\ now < MaxTime /\ main = "receive" /\ errChan = <<>>
    /\ \A g \in Goroutines : task[g] # "sending"
    /\ task["timeout"] = "running" => now < check
    /\ \A s \in Sessions : touch[s] # NoTime => now < touch[s]
    /\ now' = now + 1
    /\ UNCHANGED <<config, main, task, errChan, cancelled, sshProcess, timeVars>>

-----------------------------------------------------------------------------

Goroutine(g) == Send(g) \/ Cancelled(g)

Ssh == StartSsh \/ WaitSsh \/ KillSsh \/ SshDone

Run == RunTasks \/ Receive \/ WaitTasks

\* Either the daemon has ended, or the clock has reached its bound.
RunEnded == main = "exited" \/ now = MaxTime
Stutter == RunEnded /\ UNCHANGED vars

Next ==
    \/ Run \/ Ssh \/ SshExits \/ CheckTimeout \/ RemoveActivityFile \/ Tick
    \/ \E g \in Goroutines : Goroutine(g) \/ Fails(g)
    \/ \E s \in Sessions : Connect(s) \/ Touch(s) \/ Disconnect(s)
    \/ Stutter

Spec == Init /\ [][Next]_vars

\* The goroutines and Run are scheduled.
Fairness == WF_vars(Run) /\ WF_vars(Ssh) /\ \A g \in Goroutines : WF_vars(Goroutine(g))

FairSpec == Spec /\ Fairness

-----------------------------------------------------------------------------
(* Properties *)

Times == Nat \cup {NoTime}

\* The shape of the state.
TypeOK ==
    /\ now \in Nat /\ main \in {"load", "receive", "wait", "exited"}
    /\ config \in [tasks : SUBSET Tasks, timeout : Timeouts]
    /\ task \in [Goroutines -> {"none", "running", "sending", "done"}]
    /\ errChan \in Seq(Goroutines) /\ Len(errChan) <= Capacity
    /\ cancelled \in BOOLEAN /\ sshProcess \in {"none", "running", "exited"}
    /\ activity \in Times /\ check \in Nat /\ lastUse \in Nat
    /\ touch \in [Sessions -> Times] /\ since \in [Sessions -> Times]

\* The first report ends the daemon, however many others arrive with it: Run reads
\* only one, so a goroutine of the wait group must never be stuck in its send, nor
\* the ssh server survive the cancellation.
ReportEndsDaemon == errChan # <<>> ~> main = "exited"

\* Nobody is left behind: when the daemon exits, the ssh server it started has
\* ended.
SshEndsFirst == main = "exited" => sshProcess # "running"

\* A user who has been connected for longer than one touch interval is not cut off
\* by the timeout, for timeouts that are longer than this interval.  (A file that
\* somebody removed under a session is written again at the next touch.)
SessionIsKept ==
    [][CheckTimeout /\ task'["timeout"] = "sending" /\ config.timeout > TouchInterval
        => \A s \in Sessions : since[s] # NoTime => now - since[s] <= TouchInterval]_vars

=============================================================================
