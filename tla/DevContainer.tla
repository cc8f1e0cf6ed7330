----------------------------- MODULE DevContainer ----------------------------
(***************************************************************************)
(* The dev container runner (pkg/devcontainer): up, stop and delete of one *)
(* workspace's container through a docker, docker compose or custom        *)
(* driver.  Up finds the container, builds an image and runs a new one if  *)
(* there is none or --recreate is given, starts a stopped one, and runs    *)
(* the setup of ContainerSetup in it with the details it has read.  Every  *)
(* call of docker may fail, the process may be killed anywhere, and the    *)
(* user may stop the container, remove it or edit files between commands.  *)
(***************************************************************************)
EXTENDS ContainerSetup

CONSTANTS Configs,      \* what devcontainer.json and the provider may ask for
          NoContainer,
          MaxUps,       \* bound: commands
          MaxUpFaults     \* bound: faults

\* kind: where the container comes from, with features or not; driver: who runs
\* it; image: what an unknown kind falls back to; dockerless: it may build the
\* image inside the container.
ASSUME DevContainerAssumption ==
    /\ Configs \subseteq [kind : {"image", "dockerfile", "container", "compose", "unknown"},
                          features : BOOLEAN, driver : {"docker", "custom", "reprovision"},
                          image : {"fallback", "language", "none"}, dockerless : BOOLEAN]
    /\ MaxUps \in Nat /\ MaxUpFaults \in Nat

VARIABLES
    config,     \* the workspace's configuration
    version,    \* of the files the image is built from
    registry,   \* versions whose prebuilt image is in the registry
    container,  \* the container of the driver; kept: the image its claim remembers
    clock,      \* time stamps of containers and of their starts
    project,    \* the files of the compose project: "none", "present", "lost"
    upCmd,        \* the command: its step, options and what it has read
    upCommands, upFaults

runnerVars == <<config, version, registry, container, clock, project, upCmd, upCommands, upFaults>>
devVars == <<runnerVars, setupVars>>

NoImage == [version |-> 0, dockerless |-> FALSE]
NoUp == [pc |-> "idle", up |-> FALSE, recreate |-> FALSE, image |-> NoImage,
         details |-> NoContainer]

DevInit ==
    /\ SetupInit
    /\ config \in Configs
    /\ version = 1 /\ registry = {}
    /\ container = IF config.kind = "container"
                   THEN [created |-> 0, started |-> 0, running |-> TRUE, image |-> NoImage,
                         kept |-> NoImage]
                   ELSE NoContainer
    /\ clock = 0
    /\ project = "none"
    /\ upCmd = NoUp
    /\ upCommands = 0 /\ upFaults = 0

UpStep(pc) == upCmd' = [upCmd EXCEPT !.pc = pc]
Exists == container # NoContainer
ContainerRunning == Exists /\ container.running

\* A new container: its files, processes and history start afresh.
FromScratch ==
    /\ clock' = clock + 1
    /\ container' = [created |-> clock + 1, started |-> clock + 1, running |-> TRUE,
                     image |-> upCmd.image, kept |-> upCmd.image]
    /\ fs' = NewFiles
    /\ procs' = NoProcs
    /\ ran' = [h \in HookNames |-> 0]
    /\ broken' = FALSE
    /\ UNCHANGED <<setup, setupInfo, run>>

\* A new pod for a claim that is there: the mounts are on the claim, with the build
\* information and the clone, and what was cut off in them stays so.
NewPod(image) ==
    /\ clock' = clock + 1
    /\ container' = [container EXCEPT !.started = clock + 1, !.running = TRUE, !.image = image]
    /\ fs' = [NewFiles EXCEPT !.mount = fs.mount, !.context = fs.context, !.fallback = fs.fallback,
                              !.repo = fs.repo]
    /\ procs' = NoProcs
    /\ ran' = [h \in HookNames |-> 0]
    /\ UNCHANGED <<setup, setupInfo, run, broken>>

\* The Kubernetes driver finds a container by its claim, which only a delete removes.
\* (Another custom driver is taken to run a new container each time.)
HasClaim == Exists /\ config.driver = "reprovision"

NewContainer == IF HasClaim THEN NewPod(upCmd.image) ELSE FromScratch

\* A start of the existing container: its files stay.
StartContainer ==
    /\ clock' = clock + 1
    /\ container' = [container EXCEPT !.running = TRUE, !.started = clock + 1]
    /\ ran' = [ran EXCEPT !["postStart"] = 0]
    /\ UNCHANGED <<setup, setupInfo, run, fs, procs, broken>>

StopContainer ==
    /\ container' = [container EXCEPT !.running = FALSE]
    /\ procs' = [n \in DOMAIN NoProcs |-> [procs[n] EXCEPT !.running = 0]]
    /\ UNCHANGED <<clock, setup, setupInfo, run, fs, ran, broken>>

ContainerRemoved == container' = NoContainer /\ UNCHANGED <<clock, setupVars>>

-----------------------------------------------------------------------------
(* Up *)

Up(recreate) ==
    /\ upCmd.pc = "idle" /\ upCommands < MaxUps
    /\ upCommands' = upCommands + 1
    /\ upCmd' = [NoUp EXCEPT !.pc = "initialize", !.up = TRUE, !.recreate = recreate]
    /\ UNCHANGED <<config, version, registry, container, clock, project, upFaults, setupVars>>

\* runDefaultContainer: a configuration without an image falls back to an image
\* or to the one for the language of the project, if it is detected.
NoDefaultImage == config.kind = "unknown" /\ config.image = "none"

\* initializeCommand, and the choice of how the container is run.
RunInitializeCommand ==
    /\ upCmd.pc = "initialize"
    /\ UpStep(IF config.kind = "compose" THEN "composeFind"
            ELSE IF NoDefaultImage
            THEN "refused" ELSE "find")
    /\ UNCHANGED <<config, version, registry, container, clock, project, upCommands, upFaults, setupVars>>

Refuse ==
    /\ UpStep("refused")
    /\ UNCHANGED <<config, version, registry, container, clock, project, upCommands, upFaults, setupVars>>

Built(image) ==
    /\ upCmd' = [upCmd EXCEPT !.image = image,
                          !.pc = IF upCmd.recreate THEN "delete" ELSE "run"]
    /\ UNCHANGED <<config, version, registry, container, clock, project, upCommands, upFaults, setupVars>>

\* runSingleContainer: a container of the user is never recreated.
RunSingleContainer ==
    /\ upCmd.pc = "find"
    /\ upCmd' = [upCmd EXCEPT !.details = container,
                          !.pc = IF upCmd.recreate /\ config.kind = "container" THEN "refused"
                                 ELSE IF ~upCmd.recreate /\ Exists THEN "start"
                                 ELSE "build"]
    /\ UNCHANGED <<config, version, registry, container, clock, project, upCommands, upFaults, setupVars>>

\* StartDevContainer of a stopped container; the details stay as they were read, but
\* for a driver that reprovisions.  Its pod is made anew from the options that the
\* claim was made with.
RestartContainer ==
    /\ upCmd.pc = "start"
    /\ IF upCmd.details.running THEN UNCHANGED <<clock, container, setupVars>>
       ELSE IF config.driver = "reprovision" THEN NewPod(container.kept) ELSE StartContainer
    /\ UpStep(IF config.driver = "reprovision" THEN "reprovision" ELSE "setup")
    /\ UNCHANGED <<config, version, registry, project, upCommands, upFaults>>

\* RunDevContainer without options: the pod stays, or is replaced because the options
\* of the provider have changed; the details are read anew.
Reprovision ==
    /\ upCmd.pc = "reprovision"
    /\ UNCHANGED <<clock, container, setupVars>> \/ NewPod(container.kept)
    /\ upCmd' = [upCmd EXCEPT !.pc = "setup", !.details = container']
    /\ UNCHANGED <<config, version, registry, project, upCommands, upFaults>>

\* extendImage: an image without features is used as it is.
AsIs == config.kind \in {"image", "unknown"} /\ ~config.features

\* The hash of the files is the tag of a prebuilt image.
Prebuilt == version \in registry

\* dockerlessFallback: a driver that is not docker leaves the build to the container.
LeftToContainer == ~AsIs /\ ~Prebuilt /\ config.driver # "docker"

\* buildImage: the image of the current files (a local image of the same hash is the
\* same version), or the build information for one that the container builds.
BuildImage ==
    /\ upCmd.pc = "build" /\ config.kind # "container"
    /\ IF LeftToContainer /\ ~config.dockerless
       THEN Refuse
       ELSE Built([version |-> version, dockerless |-> LeftToContainer])

\* The container of the user is gone: there is nothing to build.
BuildNothing == upCmd.pc = "build" /\ config.kind = "container" /\ Refuse

\* The old container goes: docker deletes it, another driver stops it.
DeleteOnRecreate ==
    /\ upCmd.pc = "delete"
    /\ IF ~Exists THEN UNCHANGED <<container, clock, setupVars>>
       ELSE IF config.driver = "docker" THEN ContainerRemoved ELSE StopContainer
    /\ UpStep("run")
    /\ UNCHANGED <<config, version, registry, project, upCommands, upFaults>>

\* runContainer, and the details of what runs.
RunContainer ==
    /\ upCmd.pc = "run"
    /\ NewContainer
    /\ upCmd' = [upCmd EXCEPT !.pc = "setup", !.details = container']
    /\ UNCHANGED <<config, version, registry, project, upCommands, upFaults>>

\* docker run succeeded and the update of the user's ids failed: the container is
\* there all the same.
RunContainerFailsLate ==
    /\ upCmd.pc = "run" /\ config.driver = "docker"
    /\ FromScratch
    /\ UpStep("failed")
    /\ UNCHANGED <<config, version, registry, project, upCommands>>

-----------------------------------------------------------------------------
(* Up with docker compose *)

\* runDockerCompose: only a running container that need not be recreated is taken
\* as it is; a known project is started again unless it is to be recreated.
RunDockerCompose ==
    /\ upCmd.pc = "composeFind"
    /\ upCmd' = [upCmd EXCEPT !.details = container,
                          !.pc = IF ContainerRunning /\ ~upCmd.recreate THEN "setup"
                                 ELSE IF project # "none" /\ ~upCmd.recreate THEN "composeRestart"
                                 ELSE "composeBuild"]
    /\ UNCHANGED <<config, version, registry, container, clock, project, upCommands, upFaults, setupVars>>

\* `up` with the files of the project; if one is lost it fails, the container is
\* forgotten and the project is built anew.
ComposeRestart ==
    /\ upCmd.pc = "composeRestart"
    /\ IF project = "present"
       THEN /\ IF Exists THEN StartContainer ELSE FromScratch
            /\ upCmd' = [upCmd EXCEPT !.pc = "setup", !.details = container']
       ELSE /\ upCmd' = [upCmd EXCEPT !.pc = "composeBuild", !.details = NoContainer]
            /\ UNCHANGED <<container, clock, setupVars>>
    /\ UNCHANGED <<config, version, registry, project, upCommands, upFaults>>

\* `up` failed with all files there: the container that was found is kept.
ComposeRestartFails ==
    /\ upCmd.pc = "composeRestart" /\ project = "present"
    /\ UpStep("composeBuild")
    /\ UNCHANGED <<config, version, registry, container, clock, project, upCommands, setupVars>>

\* extendedDockerComposeUp: the project's override file is written.
WriteOverrideFiles == project' = "present"

\* The persisted files of an earlier build are not recognised (absolute paths
\* never have the prefix), so the image is built and the override files are
\* written.
BuildAndExtendDockerCompose ==
    /\ upCmd.pc = "composeBuild"
    /\ upCmd' = [upCmd EXCEPT !.image = [version |-> version, dockerless |-> FALSE],
                          !.pc = IF upCmd.details # NoContainer /\ upCmd.recreate
                                 THEN "composeDelete" ELSE "composeUp"]
    /\ WriteOverrideFiles
    /\ UNCHANGED <<config, version, registry, container, clock, upCommands, upFaults, setupVars>>

\* Mutant: the container is left to compose, which does not recreate it.
ComposeDeleteNothing ==
    /\ upCmd.pc = "composeDelete"
    /\ UpStep("composeUp")
    /\ UNCHANGED <<config, version, registry, container, clock, project, upCommands, upFaults, setupVars>>

\* The container that was found is stopped and deleted.
ComposeDelete ==
    /\ upCmd.pc = "composeDelete"
    /\ ContainerRemoved
    /\ UpStep("composeUp")
    /\ UNCHANGED <<config, version, registry, project, upCommands, upFaults>>

\* `up -d`: with the container that was found it is started as it is
\* (--no-recreate), else compose makes a new one.
ComposeUp ==
    /\ upCmd.pc = "composeUp"
    /\ IF Exists /\ upCmd.details # NoContainer THEN StartContainer ELSE FromScratch
    /\ upCmd' = [upCmd EXCEPT !.pc = "setup", !.details = container']
    /\ UNCHANGED <<config, version, registry, project, upCommands, upFaults>>

-----------------------------------------------------------------------------
(* Setup, stop, delete, and what happens around the commands *)

\* setupContainer: the agent is injected and the setup command starts, with the
\* details the runner has.  Mounts are streamed for drivers that are not docker, with
\* the build information that this up has written; it is removed when the up returns.
\* --reset implies --recreate.
SetupContainer ==
    /\ upCmd.pc = "setup" /\ setup = "idle"
    /\ ContainerRunning
    /\ setup' = "connect"
    /\ setupInfo' \in SetupInfos
    /\ \E reset \in BOOLEAN :
          /\ reset => upCmd.recreate
          /\ run' = [created |-> upCmd.details.created, started |-> upCmd.details.started,
                     recreate |-> upCmd.recreate, reset |-> reset,
                     dockerless |-> container.image.dockerless,
                     info |-> IF upCmd.image.dockerless THEN upCmd.image.version ELSE 0,
                     streamed |-> FALSE, lent |-> FALSE,
                     todo |-> IF config.driver = "docker" THEN {} ELSE setupInfo'.mounts]
    /\ UNCHANGED <<runnerVars, fs, procs, ran, broken>>

\* The result arrives, or the tunnel ends without one.
SetupEnds ==
    /\ upCmd.pc = "setup" /\ setup \in {"ok", "failed"}
    /\ setup' = "idle"
    /\ UpStep(setup) /\ run' = NoRun
    /\ UNCHANGED <<config, version, registry, container, clock, project, upCommands, upFaults, setupInfo, fs, procs, ran, broken>>

\* runner.Stop and runner.Delete: nothing to do without a container, and the
\* container of the user is not deleted.
StopOrDelete(delete) ==
    /\ upCmd.pc = "idle" /\ upCommands < MaxUps
    /\ upCommands' = upCommands + 1
    /\ IF ~Exists THEN UNCHANGED <<container, clock, setupVars>>
       ELSE IF ~delete THEN StopContainer
       ELSE IF config.kind # "container" THEN ContainerRemoved
       ELSE UNCHANGED <<container, clock, setupVars>>
    /\ project' = IF delete /\ Exists THEN "none" ELSE project
    /\ UNCHANGED <<config, version, registry, upCmd, upFaults>>

\* The command is over.
UpReturned ==
    /\ upCmd.pc \in {"ok", "failed", "refused"}
    /\ upCmd' = NoUp
    /\ UNCHANGED <<config, version, registry, container, clock, project, upCommands, upFaults, setupVars>>

\* A step of the runner returns an error, or the runner is killed: it leaves what
\* the step had not begun.
RunnerFails ==
    /\ upCmd.pc \in {"initialize", "find", "start", "build", "delete", "run", "reprovision",
                   "composeFind", "composeBuild", "composeDelete", "composeUp", "setup"}
    /\ setup = "idle"
    /\ UpStep("failed")
    /\ UNCHANGED <<config, version, registry, container, clock, project, upCommands, setupVars>>

\* runner.Build: the image is built, tagged and pushed as a prebuild; with the
\* docker driver only.
PushPrebuild ==
    /\ upCmd.pc = "idle" /\ upCommands < MaxUps /\ config.driver = "docker"
    /\ config.kind # "container"
    /\ upCommands' = upCommands + 1
    /\ registry' = registry \cup {version}
    /\ UNCHANGED <<config, version, container, clock, project, upCmd, upFaults, setupVars>>

\* The user changes devcontainer.json or the Dockerfile.
EditConfig ==
    /\ upCmd.pc = "idle" /\ version = 1
    /\ version' = 2
    /\ UNCHANGED <<config, registry, container, clock, project, upCmd, upCommands, upFaults, setupVars>>

\* Between commands the container exits, or the user removes it or a file of the
\* project.
Outside ==
    /\ upCmd.pc = "idle" /\ upFaults < MaxUpFaults
    /\ \/ ContainerRunning /\ StopContainer /\ UNCHANGED project
       \/ Exists /\ ContainerRemoved /\ UNCHANGED project
       \/ project = "present" /\ project' = "lost" /\ UNCHANGED <<container, clock, setupVars>>
    /\ upFaults' = upFaults + 1
    /\ UNCHANGED <<config, version, registry, upCmd, upCommands>>

UserEdits(m) ==
    /\ upCmd.pc = "idle" /\ ContainerRunning /\ fs.mount[m] = "full"
    /\ fs' = [fs EXCEPT !.mount[m] = "edited"]
    /\ UNCHANGED <<runnerVars, setup, setupInfo, run, procs, ran, broken>>

UpFault ==
    /\ upFaults < MaxUpFaults /\ upFaults' = upFaults + 1
    /\ \/ RunnerFails \/ RunContainerFailsLate \/ ComposeRestartFails
       \/ (SetupFault \/ SetupLogs) /\ UNCHANGED <<config, version, registry, container, clock, project, upCmd, upCommands>>

DevNext ==
    \/ \E r \in BOOLEAN : Up(r) \/ StopOrDelete(r)
    \/ RunInitializeCommand \/ RunSingleContainer \/ RestartContainer \/ Reprovision
    \/ BuildImage \/ BuildNothing \/ DeleteOnRecreate \/ RunContainer
    \/ RunDockerCompose \/ ComposeRestart \/ BuildAndExtendDockerCompose \/ ComposeDelete \/ ComposeUp
    \/ SetupContainer \/ SetupEnds \/ UpReturned \/ Outside \/ PushPrebuild \/ EditConfig
    \/ \E m \in Mounts : UserEdits(m)
    \/ UpFault
    \/ SetupStep /\ UNCHANGED runnerVars

DevSpec == DevInit /\ [][DevNext]_devVars

-----------------------------------------------------------------------------
(* Properties *)

SetupDone == upCmd.pc = "setup" /\ setup = "ok"

\* Work is done, or its error was logged, which is all that the setup promises of it.
DoneOrLogged(work) == work \in fs.applied \cup fs.logged

\* A setup that reports success in a container where none was cut off has done
\* everything it was asked for, even what a marker guards: mounts and clone are
\* complete, a dockerless image is built, the environment is patched, the hooks have
\* run, the keys are there, the lent git helper is gone and one daemon runs.  Excepted
\* is the work whose error the code only logs (the result file, the chown, the
\* environment file, /etc/profile, the keys, the helper), if one was logged.
SetupComplete ==
    SetupDone /\ ~broken =>
        /\ config.driver # "docker" => \A m \in setupInfo.mounts : fs.mount[m] \in {"full", "edited"}
        /\ (container.image.dockerless => fs.built # 0) /\ (setupInfo.pull => fs.repo = "full")
        /\ \A w \in {"result", "chown", "profile", setupInfo.env} : DoneOrLogged(w)
        /\ \A h \in setupInfo.hooks \ {"postStart"} : ran[h] >= 1
        /\ NewKeys \subseteq fs.keys \/ "keys" \in fs.logged
        /\ fs.helpers = 0 \/ "helper" \in fs.logged
        /\ setupInfo.timeout => procs["daemon"].running = 1

\* An up with --recreate that succeeds runs what devcontainer.json and the
\* Dockerfile say now, not the image or the container of an earlier version.  An image
\* that is built in the container is built from what they say now if the workspace
\* mount was streamed; a mount that persists is only streamed anew with --reset, and
\* else the information of the earlier build is built again.
RecreateApplies ==
    SetupDone /\ upCmd.recreate =>
        /\ container.image.version = version
        /\ container.image.dockerless /\ run.streamed => fs.built = version
=============================================================================
