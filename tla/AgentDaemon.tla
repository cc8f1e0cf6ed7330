----------------------------- MODULE AgentDaemon -----------------------------
(***************************************************************************)
(* The daemon that shuts an unused machine down (cmd/agent/daemon.go) and  *)
(* the agent commands it watches.  Activity is the modification time of    *)
(* each workspace.json in the agent folder: agent workspace up, stop,      *)
(* container-tunnel and update-config write it.  An up also leaves a busy  *)
(* file while it runs, which postpones the shutdown by BusyGrace.  A       *)
(* connected client refreshes workspace.json every UpdateInterval.         *)
(*                                                                         *)
(* A sleep that is over is acted on before the clock goes on; the patrol   *)
(* reads the workspaces one by one and the commands run in between.        *)
(***************************************************************************)
EXTENDS Integers

CONSTANTS Workspaces,      \* workspaces on this machine
          Timeouts,        \* values of agent.timeout
          Interval,        \* how often the daemon patrols
          UpdateInterval,  \* how often a connected client writes workspace.json
          BusyGrace,       \* 20 minutes
          NoTime,          \* there is no workspace.json, no session
          MaxTime,         \* bound: the clock
          MaxFailures,     \* bound: failing shutdown commands
          MaxMachineCommands \* bound: agent commands and daemon restarts

ASSUME DaemonAssumption ==
    /\ Timeouts \subseteq Nat /\ \E t \in Timeouts : \A u \in Timeouts : u <= t
    /\ Interval \in Nat \ {0} /\ UpdateInterval \in Nat \ {0}
    /\ BusyGrace \in Nat \ {0} /\ MaxTime \in Nat /\ MaxFailures \in Nat /\ MaxMachineCommands \in Nat
    /\ NoTime \notin Nat /\ NoTime \notin [activity : Nat, workspace : Workspaces]

VARIABLES
    now,
    timeout,    \* the inactivity timeout in each workspace's config
    autoStop,   \* workspaces with a shutdown command
    mtime,      \* modification time of workspace.json, or NoTime
    busyFiles,  \* workspaces with a busy file
    up,         \* agent workspace up of a workspace: "none", "written", "busy"
    heartbeat,  \* when the connected client refreshes next, or NoTime
    missed,     \* refreshes in a row that failed
    on,         \* the machine runs
    daemon,     \* "absent", "sleep", "scan"
    wake,       \* end of the daemon's sleep
    scan,       \* matches not read yet
    latest,     \* latestActivity and its workspace, or NoTime
    started,    \* when this daemon process started
    failures,   \* shutdown commands that failed
    machineCommands,   \* agent commands and daemon restarts so far
    lastUse     \* history: the last agent command, or the last start of the daemon

patrolVars == <<daemon, wake, scan, latest, started>>
fileVars == <<mtime, busyFiles>>
clientFileVars == <<up, heartbeat, missed>>
agentDaemonVars == <<now, timeout, autoStop, fileVars, clientFileVars, on, patrolVars, failures, machineCommands, lastUse>>

AgentDaemonInit ==
    /\ now = 0
    /\ timeout \in [Workspaces -> Timeouts]
    /\ autoStop \in SUBSET Workspaces
    /\ mtime = [w \in Workspaces |-> NoTime]
    /\ busyFiles = {}
    /\ up = [w \in Workspaces |-> "none"]
    /\ heartbeat = [w \in Workspaces |-> NoTime]
    /\ missed = [w \in Workspaces |-> 0]
    /\ on = TRUE
    /\ daemon = "absent"
    /\ wake = 0 /\ scan = {} /\ latest = NoTime /\ started = 0
    /\ failures = 0 /\ machineCommands = 0 /\ lastUse = 0

Written == {w \in Workspaces : mtime[w] # NoTime}

-----------------------------------------------------------------------------
(* The clock: nothing that is due is put off. *)

Tick ==
    /\ now < MaxTime
    /\ daemon = "sleep" => now < wake
    /\ daemon # "scan"
    /\ \A w \in Workspaces : heartbeat[w] # NoTime => now < heartbeat[w]
    /\ now' = now + 1
    /\ UNCHANGED <<timeout, autoStop, fileVars, clientFileVars, on, patrolVars, failures>>

-----------------------------------------------------------------------------
(* The agent commands *)

\* writeWorkspaceInfo
WriteInfo(w) == mtime' = [mtime EXCEPT ![w] = now]

\* agent workspace up: the config is written first, the busy file after it.
UpBegin(w) ==
    /\ on /\ up[w] = "none"
    /\ WriteInfo(w)
    /\ up' = [up EXCEPT ![w] = "written"]
    /\ UNCHANGED <<now, timeout, autoStop, busyFiles, heartbeat, missed, on, patrolVars, failures>>

UpBusy(w) ==
    /\ up[w] = "written"
    /\ busyFiles' = busyFiles \cup {w}
    /\ up' = [up EXCEPT ![w] = "busy"]
    /\ UNCHANGED <<now, timeout, autoStop, mtime, heartbeat, missed, on, patrolVars, failures>>

\* initialTouch: "make sure we don't immediately resleep on startup".  A file that cannot
\* be touched, which would leave the others untouched, is left out.
InitialTouch == mtime' = [w \in Workspaces |-> IF mtime[w] = NoTime THEN NoTime ELSE now]

\* patrol: touch every workspace, then sleep.
Patrol ==
    /\ InitialTouch
    /\ daemon' = "sleep"
    /\ wake' = now + Interval
    /\ started' = now
    /\ scan' = {}
    /\ latest' = NoTime

\* installDaemon installs and starts the service, unless it is running.
InstallDaemon(w) ==
    /\ up[w] = "busy" /\ w \in autoStop /\ daemon = "absent"
    /\ Patrol
    /\ UNCHANGED <<now, timeout, autoStop, busyFiles, clientFileVars, on, failures>>

\* The deferred DeleteWorkspaceBusyFile, or the process is killed before it, maybe
\* before there is a busy file.
UpEnd(w) ==
    /\ up[w] # "none"
    /\ up' = [up EXCEPT ![w] = "none"]
    /\ busyFiles' \in (IF up[w] = "busy" THEN {busyFiles \ {w}, busyFiles} ELSE {busyFiles})
    /\ UNCHANGED <<now, timeout, autoStop, mtime, heartbeat, missed, on, patrolVars, failures>>

\* container-tunnel writes the config and then lives as long as the connection.
Connect(w) ==
    /\ on /\ heartbeat[w] = NoTime
    /\ WriteInfo(w)
    /\ heartbeat' = [heartbeat EXCEPT ![w] = now + UpdateInterval]
    /\ missed' = [missed EXCEPT ![w] = 0]
    /\ UNCHANGED <<now, timeout, autoStop, busyFiles, up, on, patrolVars, failures>>

\* Mutant: update-config succeeds without writing the config.
UpdateConfigUnwritten(w) ==
    /\ heartbeat[w] = now
    /\ heartbeat' = [heartbeat EXCEPT ![w] = now + UpdateInterval]
    /\ missed' = [missed EXCEPT ![w] = 0]
    /\ UNCHANGED <<now, timeout, autoStop, fileVars, up, on, patrolVars, failures>>

\* updateConfig: RefreshOptions, then update-config; an error skips this round.
UpdateConfig(w) ==
    /\ heartbeat[w] = now
    /\ heartbeat' = [heartbeat EXCEPT ![w] = now + UpdateInterval]
    /\ \/ WriteInfo(w) /\ missed' = [missed EXCEPT ![w] = 0]
       \/ UNCHANGED mtime /\ missed' = [missed EXCEPT ![w] = @ + 1]
    /\ UNCHANGED <<now, timeout, autoStop, busyFiles, up, on, patrolVars, failures>>

Disconnect(w) ==
    /\ heartbeat[w] # NoTime
    /\ heartbeat' = [heartbeat EXCEPT ![w] = NoTime]
    /\ missed' = [missed EXCEPT ![w] = 0]
    /\ UNCHANGED <<now, timeout, autoStop, fileVars, up, on, patrolVars, failures>>

\* agent workspace stop
StopWorkspace(w) ==
    /\ on /\ up[w] = "none" /\ w \in Written
    /\ WriteInfo(w)
    /\ UNCHANGED <<now, timeout, autoStop, busyFiles, clientFileVars, on, patrolVars, failures>>

\* agent workspace delete removes the folder with both files.
DeleteWorkspace(w) ==
    /\ on /\ up[w] = "none" /\ w \in Written
    /\ mtime' = [mtime EXCEPT ![w] = NoTime]
    /\ busyFiles' = busyFiles \ {w}
    /\ UNCHANGED <<now, timeout, autoStop, clientFileVars, on, patrolVars, failures>>

-----------------------------------------------------------------------------
(* The daemon *)

\* The sleep is over: glob the workspace configs.
DoOnce ==
    /\ daemon = "sleep" /\ now >= wake
    /\ daemon' = "scan"
    /\ scan' = Written
    /\ latest' = NoTime
    /\ UNCHANGED <<now, timeout, autoStop, fileVars, clientFileVars, on, wake, started, failures>>

\* Mutant: a busy file counts as activity now.
ActivityOfBusy(w) == IF w \in busyFiles THEN now ELSE mtime[w]

\* What getActivity returns for a config that can be read and has a shutdown
\* command.
Activity(w) == mtime[w] + (IF w \in busyFiles THEN BusyGrace ELSE 0)

\* Mutant: the workspace read last wins, not the one used last.
GetActivityLast(w) ==
    /\ daemon = "scan" /\ w \in scan
    /\ scan' = scan \ {w}
    /\ latest' = IF w \in Written /\ w \in autoStop
                 THEN [activity |-> Activity(w), workspace |-> w] ELSE latest
    /\ UNCHANGED <<now, timeout, autoStop, fileVars, clientFileVars, on, daemon, wake, started, failures>>

\* One match: a config that is gone or has no shutdown command is skipped.
GetActivity(w) ==
    /\ daemon = "scan" /\ w \in scan
    /\ scan' = scan \ {w}
    /\ latest' = IF w \in Written /\ w \in autoStop
                    /\ (latest # NoTime => Activity(w) > latest.activity)
                 THEN [activity |-> Activity(w), workspace |-> w] ELSE latest
    /\ UNCHANGED <<now, timeout, autoStop, fileVars, clientFileVars, on, daemon, wake, started, failures>>

Expired == latest.activity + timeout[latest.workspace] <= now

\* The machine goes down with everything that runs on it; the files stay.
PowerOff ==
    /\ on' = FALSE
    /\ daemon' = "absent"
    /\ up' = [w \in Workspaces |-> "none"]
    /\ heartbeat' = [w \in Workspaces |-> NoTime]
    /\ missed' = [w \in Workspaces |-> 0]
    /\ wake' = 0 /\ started' = 0

Sleep ==
    /\ daemon' = "sleep"
    /\ wake' = now + Interval
    /\ UNCHANGED <<on, up, heartbeat, missed, started>>

\* The end of doOnce: stay up, or run the shutdown command of the workspace that
\* was used last.
Decide ==
    /\ daemon = "scan" /\ scan = {}
    /\ \/ (latest # NoTime => ~Expired) /\ Sleep /\ UNCHANGED failures
       \/ latest # NoTime /\ Expired /\ PowerOff /\ UNCHANGED failures
       \/ /\ latest # NoTime /\ Expired /\ Sleep
          /\ failures < MaxFailures /\ failures' = failures + 1
    /\ scan' = {} /\ latest' = NoTime
    /\ UNCHANGED <<now, timeout, autoStop, fileVars>>

\* The machine is started again, and the service with it.
Boot ==
    /\ ~on
    /\ on' = TRUE
    /\ Patrol
    /\ UNCHANGED <<now, timeout, autoStop, busyFiles, clientFileVars, failures>>

\* The service manager restarts a daemon that was killed.
Restart ==
    /\ on /\ daemon # "absent"
    /\ Patrol
    /\ UNCHANGED <<now, timeout, autoStop, busyFiles, clientFileVars, on, failures>>

-----------------------------------------------------------------------------

\* A new command or daemon process.
Begin(w) == UpBegin(w) \/ Connect(w) \/ StopWorkspace(w) \/ DeleteWorkspace(w)

\* A running command goes on.
Continue(w) ==
    UpBusy(w) \/ InstallDaemon(w) \/ UpEnd(w) \/ UpdateConfig(w) \/ Disconnect(w)

\* The clock has reached its bound.
End == now = MaxTime /\ UNCHANGED agentDaemonVars

AgentDaemonNext ==
    \/ /\ Boot \/ Restart \/ \E w \in Workspaces : Begin(w)
       /\ machineCommands < MaxMachineCommands /\ machineCommands' = machineCommands + 1
       /\ lastUse' = now
    \/ /\ \E w \in Workspaces : Continue(w)
       /\ lastUse' = now
       /\ UNCHANGED machineCommands
    \/ /\ Tick \/ DoOnce \/ Decide \/ \E w \in Workspaces : GetActivity(w)
       /\ UNCHANGED <<lastUse, machineCommands>>
    \/ End

AgentDaemonSpec == AgentDaemonInit /\ [][AgentDaemonNext]_agentDaemonVars

-----------------------------------------------------------------------------
(* Properties *)

Times == Nat \cup {NoTime}

\* The shape of the state.
AgentDaemonTypeOK ==
    /\ now \in Nat
    /\ timeout \in [Workspaces -> Timeouts]
    /\ autoStop \subseteq Workspaces
    /\ mtime \in [Workspaces -> Times]
    /\ busyFiles \subseteq Workspaces
    /\ up \in [Workspaces -> {"none", "written", "busy"}]
    /\ heartbeat \in [Workspaces -> Times]
    /\ missed \in [Workspaces -> Nat]
    /\ on \in BOOLEAN
    /\ daemon \in {"absent", "sleep", "scan"}
    /\ wake \in Nat /\ started \in Nat /\ failures \in Nat
    /\ machineCommands \in Nat /\ lastUse \in Nat
    /\ scan \subseteq Workspaces
    /\ latest \in [activity : Nat, workspace : Workspaces] \cup {NoTime}

ShutsDown == on /\ ~on'

\* The machine is only shut down after a whole timeout of the workspace used last, in
\* which every workspace with a shutdown command was quiet and neither the machine nor
\* the daemon was started, however old the configs are that a start finds: a workspace
\* written while the patrol was reading is the only exception.
ShutdownOnlyIdle ==
    [][ShutsDown =>
        /\ started + timeout[latest.workspace] <= now
        /\ \A w \in autoStop \cap Written :
              mtime[w] = now \/ mtime[w] + timeout[latest.workspace] <= now]_agentDaemonVars

\* A connected user keeps the machine: it goes down under a session only after
\* refreshes failed for about the whole timeout.  (Timeouts shorter than
\* UpdateInterval cannot be kept.)
ConnectedIsKept ==
    [][ShutsDown =>
        \A w \in autoStop \cap Written :
            heartbeat[w] # NoTime /\ mtime[w] # now
              => (missed[w] + 1) * UpdateInterval >= timeout[latest.workspace]]_agentDaemonVars

LongestTimeout == CHOOSE t \in Timeouts : \A u \in Timeouts : u <= t

\* An unused machine does go down: once no up runs, neither a busy file that a killed up
\* left behind nor a workspace without a shutdown command keeps it up for longer than
\* the grace, the timeout and one patrol after the last agent command.
IdleIsShutDown ==
    /\ on /\ daemon # "absent" /\ failures = 0 /\ autoStop \cap Written # {}
    /\ \A w \in Workspaces : up[w] = "none"
    => now < lastUse + BusyGrace + LongestTimeout + Interval
=============================================================================
