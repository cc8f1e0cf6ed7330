---------------------------- MODULE ContainerSetup ---------------------------
(***************************************************************************)
(* The setup command inside the dev container                              *)
(* (cmd/agent/container/setup.go): mounts are streamed in, a dockerless    *)
(* image is built, git credentials are lent, the repository is cloned, the *)
(* environment is patched, the lifecycle hooks run, the IDE and the daemon *)
(* are started and the result is sent.  Much of the work is guarded by     *)
(* marker files in /var/devpod that are written BEFORE the work, and the   *)
(* errors of some of it are only logged.  The process dies with its        *)
(* connection, at any step; what it wrote stays in the container.          *)
(***************************************************************************)
EXTENDS Integers, Sequences, FiniteSets

CONSTANTS Mounts,      \* bind mounts that are streamed into the container
          WorkspaceMount,  \* the one that holds the build context
          SetupInfos,  \* the options of a setup
          NoMarker

Hooks == <<"onCreate", "updateContent", "postCreate", "postStart", "postAttach">>
HookNames == {Hooks[n] : n \in 1..Len(Hooks)}
Markers == {"chown", "env", "envFlags", "profile", "kube"} \cup (HookNames \ {"postAttach"})

ASSUME ContainerSetupAssumption ==
    /\ WorkspaceMount \in Mounts
    /\ SetupInfos \subseteq
         [mounts : SUBSET Mounts, git : BOOLEAN,
          pull : BOOLEAN, env : STRING, keys : 0..2, hooks : SUBSET HookNames,
          ide : {"none", "extensions", "browser"}, timeout : BOOLEAN]

VARIABLES
    setup,    \* the step of the setup process, or "idle", "ok", "failed"
    setupInfo,     \* its options
    run,      \* the details it was given, and its progress
    fs,       \* the files of the container
    procs,    \* background processes of the container, with the pid file
    ran,      \* history: how often each hook ran, in this container or start
    broken    \* history: a setup of this container was cut off or failed

setupVars == <<setup, setupInfo, run, fs, procs, ran, broken>>

\* The files of a new container.  context and fallback: the version of the build
\* information in the build context and in the fallback folder, 0 without; built: the
\* version a dockerless image was built from; logged: work whose error was logged.
NewFiles ==
    [mount   |-> [m \in Mounts |-> "empty"],
     context |-> 0, fallback |-> 0, built |-> 0, repo |-> "none",
     helpers |-> 0, keys |-> {}, applied |-> {}, logged |-> {},
     marker  |-> [n \in Markers |-> NoMarker]]

NoProcs == [n \in {"daemon", "extensions", "browser"} |-> [running |-> 0, pid |-> FALSE]]

\* info: the version of the build information on the side of the runner, 0 without;
\* streamed: this setup has streamed the workspace mount.
NoRun == [created |-> 0, started |-> 0, recreate |-> FALSE, reset |-> FALSE, dockerless |-> FALSE,
          info |-> 0, streamed |-> FALSE, todo |-> {}, lent |-> FALSE]

SetupInit ==
    /\ setup = "idle"
    /\ setupInfo = CHOOSE i \in SetupInfos : TRUE
    /\ run = NoRun
    /\ fs = NewFiles
    /\ procs = NoProcs
    /\ ran = [h \in HookNames |-> 0]
    /\ broken = FALSE

SetupGoto(s) == setup' = s

\* Mutant: the deferred cleanup is missing.
LeaveLent(f) == f

\* The deferred cleanup of Run: git config --unset, which refuses to remove a
\* helper when more than one is configured.
Unlend(f) == IF run.lent /\ f.helpers = 1 THEN [f EXCEPT !.helpers = 0] ELSE f

\* Run returns.
SetupReturns(outcome) ==
    /\ setup' = outcome
    /\ fs' = Unlend(fs)
    /\ broken' = (broken \/ outcome = "failed")

\* An error that Run returns, where the code has one.
SetupFails ==
    /\ setup \in {"connect", "chown", "profile", "sock", "ide", "daemon", "send"}
    /\ SetupReturns("failed")
    /\ UNCHANGED <<setupInfo, run, procs, ran>>

\* The connection closes or the process is killed: no deferred call runs.
SetupKilled ==
    /\ setup \notin {"idle", "ok", "failed"}
    /\ setup' = "failed" /\ broken' = TRUE
    /\ UNCHANGED <<setupInfo, run, fs, procs, ran>>

-----------------------------------------------------------------------------
(* Run, up to the environment *)

\* The tunnel client pings and the options are decoded.
Connect ==
    /\ setup = "connect"
    /\ SetupGoto("mounts")
    /\ UNCHANGED <<setupInfo, run, fs, procs, ran, broken>>

\* A mount that has files is left alone, unless the workspace is reset.
NeedsStream(m) == run.reset \/ fs.mount[m] = "empty"

\* The build information comes with the workspace mount, if there is some; what the
\* mount has already is only overlaid.
StreamedInfo(m) == IF m = WorkspaceMount /\ run.info # 0 THEN run.info ELSE fs.context

StreamMount(m) ==
    /\ setup = "mounts" /\ m \in run.todo
    /\ fs' = IF NeedsStream(m) THEN [fs EXCEPT !.mount[m] = "full", !.context = StreamedInfo(m)] ELSE fs
    /\ run' = [run EXCEPT !.todo = @ \ {m},
                         !.streamed = @ \/ (m = WorkspaceMount /\ NeedsStream(m))]
    /\ UNCHANGED <<setup, setupInfo, procs, ran, broken>>

\* The stream breaks off: what was extracted stays.
StreamMountFails(m) ==
    /\ setup = "mounts" /\ m \in run.todo
    /\ NeedsStream(m)
    /\ \E rest \in {"partial", fs.mount[m]}, info \in {fs.context, StreamedInfo(m)} :
          fs' = Unlend([fs EXCEPT !.mount[m] = rest, !.context = info])
    /\ setup' = "failed" /\ broken' = TRUE
    /\ UNCHANGED <<setupInfo, run, procs, ran>>

MountsStreamed ==
    /\ setup = "mounts" /\ run.todo = {}
    /\ SetupGoto("dockerless")
    /\ UNCHANGED <<setupInfo, run, fs, procs, ran, broken>>

\* The image is built once in a container, from the build information of the context,
\* or of the fallback folder if the context has none; without any the setup fails.  The
\* information is moved to the fallback folder after the build (an error of that is
\* logged, and leaves the same information where the next build looks first).
BuildInfo == IF fs.context # 0 THEN fs.context ELSE fs.fallback

DockerlessBuild ==
    /\ setup = "dockerless"
    /\ IF run.dockerless /\ fs.built = 0 /\ BuildInfo = 0
       THEN SetupReturns("failed")
       ELSE /\ fs' = IF ~run.dockerless \/ fs.built # 0 THEN fs
                     ELSE [fs EXCEPT !.built = BuildInfo, !.context = 0, !.fallback = BuildInfo]
            /\ SetupGoto("git") /\ UNCHANGED broken
    /\ UNCHANGED <<setupInfo, run, procs, ran>>

\* The build fails: the information is in the context.
DockerlessBuildFails ==
    /\ setup = "dockerless" /\ run.dockerless /\ fs.built = 0 /\ BuildInfo # 0
    /\ fs' = Unlend([fs EXCEPT !.context = BuildInfo, !.fallback = IF fs.context = 0 THEN 0 ELSE @])
    /\ setup' = "failed" /\ broken' = TRUE
    /\ UNCHANGED <<setupInfo, run, procs, ran>>

\* configureSystemGitCredentials; an error is only logged.
ConfigureSystemGitCredentials ==
    /\ setup = "git"
    /\ \/ /\ setupInfo.git
          /\ fs' = [fs EXCEPT !.helpers = @ + 1]
          /\ run' = [run EXCEPT !.lent = TRUE]
       \/ UNCHANGED <<fs, run>>
    /\ SetupGoto("clone")
    /\ UNCHANGED <<setupInfo, procs, ran, broken>>

\* A repository is there as soon as it has a .git folder.
NeedsClone == setupInfo.pull /\ (fs.repo = "none" \/ run.recreate)

\* The clone of a workspace that is pulled from inside the container, into an
\* emptied folder.
CloneInside ==
    /\ setup = "clone"
    /\ fs' = IF NeedsClone THEN [fs EXCEPT !.repo = "full"] ELSE fs
    /\ SetupGoto("result")
    /\ UNCHANGED <<setupInfo, run, procs, ran, broken>>

\* A clone that fails cleans up; one that is killed leaves a part.
CloneInsideFails ==
    /\ setup = "clone" /\ NeedsClone
    /\ \/ fs' = Unlend([fs EXCEPT !.repo = "none"])
       \/ fs' = [fs EXCEPT !.repo = "partial"]
    /\ setup' = "failed" /\ broken' = TRUE
    /\ UNCHANGED <<setupInfo, run, procs, ran>>

-----------------------------------------------------------------------------
(* SetupContainer: the steps that a marker file guards *)

MarkerFileExists(name, content) ==
    /\ fs.marker[name] # NoMarker
    /\ content = {} \/ fs.marker[name] = content

\* The marker comes first, the work is a step of its own.
Guarded(name, content, work, next) ==
    IF MarkerFileExists(name, content)
    THEN SetupGoto(next) /\ UNCHANGED fs
    ELSE SetupGoto(work) /\ fs' = [fs EXCEPT !.marker[name] = content]

\* WriteResult.
WriteResult ==
    /\ setup = "result"
    /\ fs' = [fs EXCEPT !.applied = @ \cup {"result"}]
    /\ SetupGoto("chown")
    /\ UNCHANGED <<setupInfo, run, procs, ran, broken>>

ChownWorkspace ==
    /\ setup = "chown"
    /\ Guarded("chown", {}, "chownWork", "env")
    /\ UNCHANGED <<setupInfo, run, procs, ran, broken>>

PatchEtcEnvironment ==
    /\ setup = "env"
    /\ Guarded("env", {setupInfo.env}, "envWork", "envFlags")
    /\ UNCHANGED <<setupInfo, run, procs, ran, broken>>

PatchEtcEnvironmentFlags ==
    /\ setup = "envFlags"
    /\ Guarded("envFlags", {setupInfo.env}, "envFlagsWork", "profile")
    /\ UNCHANGED <<setupInfo, run, procs, ran, broken>>

PatchEtcProfile ==
    /\ setup = "profile"
    /\ Guarded("profile", {}, "profileWork", "sock")
    /\ UNCHANGED <<setupInfo, run, procs, ran, broken>>

\* The work behind a marker: chown, envfile.MergeAndApply, sed.
GuardedWork ==
    /\ \E w \in {<<"chownWork", "chown", "env">>, <<"envWork", setupInfo.env, "envFlags">>,
                 <<"envFlagsWork", setupInfo.env, "profile">>, <<"profileWork", "profile", "sock">>} :
          /\ setup = w[1]
          /\ fs' = [fs EXCEPT !.applied = @ \cup {w[2]}]
          /\ SetupGoto(w[3])
    /\ UNCHANGED <<setupInfo, run, procs, ran, broken>>

\* LinkRootHome, whose error is logged, and ChownAgentSock.
ChownAgentSock ==
    /\ setup = "sock"
    /\ SetupGoto("kube")
    /\ UNCHANGED <<setupInfo, run, fs, procs, ran, broken>>

\* SetupKubeConfig: the marker stays even if the config cannot be fetched or
\* merged; the error is logged.
SetupKubeConfig ==
    /\ setup = "kube"
    /\ SetupGoto("keys")
    /\ fs' = IF MarkerFileExists("kube", {}) THEN fs ELSE [fs EXCEPT !.marker["kube"] = {}]
    /\ UNCHANGED <<setupInfo, run, procs, ran, broken>>

\* setupPlatformGitSSHKeys: of the files of earlier keys only those that are
\* written again are removed.
NewKeys == 0..(setupInfo.keys - 1)

SetupPlatformGitSSHKeys ==
    /\ setup = "keys"
    /\ fs' = IF setupInfo.keys = 0 THEN fs
             ELSE [fs EXCEPT !.keys = @ \cup NewKeys]
    /\ SetupGoto("hook1")
    /\ UNCHANGED <<setupInfo, run, procs, ran, broken>>

-----------------------------------------------------------------------------
(* RunLifecycleHooks *)

HookStep == <<"hook1", "hook2", "hook3", "hook4", "hook5">>
HookWork == <<"hook1Work", "hook2Work", "hook3Work", "hook4Work", "hook5Work">>
AfterHook(n) == IF n < Len(Hooks) THEN HookStep[n + 1] ELSE "ide"

\* What the marker of a hook holds.
HookContent(h) == IF h = "postStart" THEN {run.started} ELSE {run.created}

\* run: without commands, or with its marker, the hook is skipped; postAttach has
\* no marker.
RunHook(n) ==
    /\ setup = HookStep[n]
    /\ IF Hooks[n] \notin setupInfo.hooks THEN SetupGoto(AfterHook(n)) /\ UNCHANGED fs
       ELSE IF Hooks[n] = "postAttach" THEN SetupGoto(HookWork[n]) /\ UNCHANGED fs
       ELSE Guarded(Hooks[n], HookContent(Hooks[n]), HookWork[n], AfterHook(n))
    /\ UNCHANGED <<setupInfo, run, procs, ran, broken>>

\* The commands of the hook run.
HookEnds(n) ==
    /\ setup = HookWork[n]
    /\ ran' = [ran EXCEPT ![Hooks[n]] = @ + 1]
    /\ SetupGoto(AfterHook(n))
    /\ UNCHANGED <<setupInfo, run, fs, procs, broken>>

\* The first command that fails ends the setup; the marker stays.
HookFails(n) ==
    /\ setup = HookWork[n]
    /\ ran' = [ran EXCEPT ![Hooks[n]] = @ + 1]
    /\ SetupReturns("failed")
    /\ UNCHANGED <<setupInfo, run, procs>>

-----------------------------------------------------------------------------
(* The end of Run: IDE, daemon, result *)

\* single.Single: start the process unless the one in the pid file runs, then
\* write the pid file; a kill in between leaves a process without one.
Single(n) ==
    \/ procs[n].pid /\ procs[n].running > 0 /\ UNCHANGED procs
    \/ /\ ~(procs[n].pid /\ procs[n].running > 0)
       /\ procs' = [procs EXCEPT ![n] = [running |-> @.running + 1, pid |-> TRUE]]

\* setupVSCode and setupOpenVSCode: extensions install in the background, once
\* at a time; a browser IDE also starts its server.
InstallIDE ==
    /\ setup = "ide"
    /\ IF setupInfo.ide = "extensions" THEN Single("extensions")
       ELSE IF setupInfo.ide = "browser" THEN Single("browser") ELSE UNCHANGED procs
    /\ SetupGoto("daemon")
    /\ UNCHANGED <<setupInfo, run, fs, ran, broken>>

\* The daemon of the container, when a timeout is set.
StartContainerDaemon ==
    /\ setup = "daemon"
    /\ IF setupInfo.timeout THEN Single("daemon") ELSE UNCHANGED procs
    /\ SetupGoto("send")
    /\ UNCHANGED <<setupInfo, run, fs, ran, broken>>

\* Killed between the start of the daemon and its pid file.
KilledBeforePid ==
    /\ setup = "daemon" /\ setupInfo.timeout
    /\ ~(procs["daemon"].pid /\ procs["daemon"].running > 0)
    /\ procs' = [procs EXCEPT !["daemon"].running = @ + 1]
    /\ setup' = "failed" /\ broken' = TRUE
    /\ UNCHANGED <<setupInfo, run, fs, ran>>

\* The extensions are installed.
ExtensionsDone ==
    /\ procs["extensions"].running > 0
    /\ procs' = [procs EXCEPT !["extensions"].running = @ - 1]
    /\ UNCHANGED <<setup, setupInfo, run, fs, ran, broken>>

\* SetupResult, and the deferred cleanup.
SetupResult ==
    /\ setup = "send"
    /\ SetupReturns("ok")
    /\ UNCHANGED <<setupInfo, run, procs, ran>>

\* Work that fails is logged and the setup goes on: WriteResult, the chown, the
\* environment file and the sed of /etc/profile.
WorkFails ==
    /\ \E w \in {<<"result", "result", "chown">>, <<"chownWork", "chown", "env">>,
                 <<"envWork", setupInfo.env, "envFlags">>, <<"envFlagsWork", setupInfo.env, "profile">>,
                 <<"profileWork", "profile", "sock">>} :
          /\ setup = w[1]
          /\ fs' = [fs EXCEPT !.logged = @ \cup {w[2]}]
          /\ SetupGoto(w[3])
    /\ UNCHANGED <<setupInfo, run, procs, ran, broken>>

\* Earlier keys are gone and some of the new ones are not written.
KeysFail ==
    /\ setup = "keys" /\ setupInfo.keys # 0
    /\ \E k \in SUBSET NewKeys :
          fs' = [fs EXCEPT !.keys = (@ \ NewKeys) \cup k, !.logged = @ \cup {"keys"}]
    /\ SetupGoto("hook1")
    /\ UNCHANGED <<setupInfo, run, procs, ran, broken>>

\* git config --unset refuses, say because the image has a helper of its own.
UnlendFails ==
    /\ setup = "send" /\ run.lent
    /\ setup' = "ok"
    /\ fs' = [fs EXCEPT !.logged = @ \cup {"helper"}]
    /\ UNCHANGED <<setupInfo, run, procs, ran, broken>>

SetupStep ==
    \/ Connect \/ MountsStreamed \/ DockerlessBuild \/ ConfigureSystemGitCredentials
    \/ \E m \in Mounts : StreamMount(m)
    \/ CloneInside \/ WriteResult \/ ChownWorkspace \/ PatchEtcEnvironment
    \/ PatchEtcEnvironmentFlags \/ PatchEtcProfile \/ GuardedWork \/ ChownAgentSock
    \/ SetupKubeConfig \/ SetupPlatformGitSSHKeys
    \/ \E n \in 1..Len(Hooks) : RunHook(n) \/ HookEnds(n)
    \/ InstallIDE \/ StartContainerDaemon \/ ExtensionsDone \/ SetupResult

SetupFault ==
    \/ SetupFails \/ SetupKilled \/ DockerlessBuildFails \/ CloneInsideFails \/ KilledBeforePid
    \/ \E m \in Mounts : StreamMountFails(m)
    \/ \E n \in 1..Len(Hooks) : HookFails(n)

SetupLogs == WorkFails \/ KeysFail \/ UnlendFails
=============================================================================
