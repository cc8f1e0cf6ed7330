------------------------------- MODULE ProStart ------------------------------
(***************************************************************************)
(* "devpod pro start" (cmd/pro/start.go), which installs the platform into *)
(* a cluster with helm or into docker, and "devpod pro reset password"     *)
(* (cmd/pro/reset/password.go), which works on the same admin user.  Each  *)
(* request is a step: it may fail, and the command may be killed before    *)
(* the next.  Helm, docker and the platform itself are external.           *)
(***************************************************************************)
EXTENDS Integers

CONSTANTS Passwords,      \* passwords the user may choose
          DefaultPassword, \* the UID of the namespace, or of the machine
          None,
          MaxStarts,      \* bound: commands
          MaxMishaps,     \* bound: failing requests, kills, crashes
          MaxPings        \* the timeouts, in polls

ASSUME ProStartAssumption ==
    /\ DefaultPassword \in Passwords /\ None \notin Passwords
    /\ MaxStarts \in Nat /\ MaxMishaps \in Nat /\ MaxPings \in Nat \ {0}

VARIABLES
    start,      \* the running command
    release,    \* the helm release: the start that made it, is there a deployment, does it run
    admin,      \* where the password of user admin is: a reference, no password, or no user
    adminSecrets, \* the secret behind each reference
    registered, \* the platform's other objects in the cluster
    box,        \* the docker container: the start that made it, does it run
    cli,        \* the address the CLI is logged in to
    starts, mishaps

startVars == <<start, release, admin, adminSecrets, registered, box, cli, starts, mishaps>>

\* The secret of the chart, and the randomly named one of reset password.
References == {"chart", "random"}

NoStart == [pc |-> "idle", op |-> "none", docker |-> FALSE, reset |-> FALSE, upgrade |-> FALSE,
            wait |-> FALSE, login |-> FALSE, password |-> None, then |-> "none",
            pings |-> 0, helmFailed |-> FALSE, shown |-> None]

StartInit ==
    /\ start = NoStart /\ release = None /\ admin = "nobody"
    /\ adminSecrets = [r \in References |-> None] /\ registered = FALSE
    /\ box = None /\ cli = None /\ starts = 0 /\ mishaps = 0

StartAt(pc) == start.pc = pc
Goto(pc) == start' = [start EXCEPT !.pc = pc, !.pings = 0]
StartQuiet == UNCHANGED <<starts, mishaps>>
Mishap == mishaps < MaxMishaps /\ mishaps' = mishaps + 1 /\ UNCHANGED starts

\* The commands, with their flags; Run reads the default password if none is given.
StartRuns(docker, reset, upgrade, wait, login, password) ==
    /\ StartAt("idle") /\ starts < MaxStarts /\ (login => wait /\ ~docker)
    /\ starts' = starts + 1
    /\ start' = [NoStart EXCEPT !.op = "start", !.docker = docker, !.reset = reset,
                    !.upgrade = upgrade, !.wait = wait, !.login = login,
                    !.password = IF password = None THEN DefaultPassword ELSE password,
                    !.pc = IF docker THEN "dockerFind" ELSE IF reset THEN "helmUninstall" ELSE "check",
                    !.then = "check"]
    /\ UNCHANGED <<release, admin, adminSecrets, registered, box, cli, mishaps>>

ResetPasswordRuns(password) ==
    /\ StartAt("idle") /\ starts < MaxStarts
    /\ starts' = starts + 1
    /\ start' = [NoStart EXCEPT !.op = "resetPassword", !.password = password, !.pc = "resetUser"]
    /\ UNCHANGED <<release, admin, adminSecrets, registered, box, cli, mishaps>>

-----------------------------------------------------------------------------
(* uninstall *)

\* An error of helm is only logged.
HelmUninstall ==
    /\ StartAt("helmUninstall")
    /\ \/ release' = None /\ Goto("unregister") /\ StartQuiet
       \/ /\ release # None /\ Mishap
          /\ start' = [start EXCEPT !.pc = "unregister", !.helmFailed = TRUE]
          /\ UNCHANGED release
    /\ UNCHANGED <<admin, adminSecrets, registered, box, cli>>

\* deleteUser: if the user cannot be read it is left.
DeleteUser ==
    /\ StartAt("unregister")
    /\ \/ admin' = "nobody" /\ StartQuiet
       \/ admin # "nobody" /\ Mishap /\ UNCHANGED admin
    /\ Goto("deleteSecret")
    /\ UNCHANGED <<release, adminSecrets, registered, box, cli>>

\* The secret of the chart, then the router's, the webhooks and the API services.
DeleteSecret ==
    /\ StartAt("deleteSecret")
    /\ adminSecrets' = [adminSecrets EXCEPT !["chart"] = None]
    /\ Goto("deleteRest")
    /\ StartQuiet /\ UNCHANGED <<release, admin, registered, box, cli>>

DeleteRest ==
    /\ StartAt("deleteRest")
    /\ registered' = FALSE
    /\ Goto(start.then)
    /\ StartQuiet /\ UNCHANGED <<release, admin, adminSecrets, box, cli>>

-----------------------------------------------------------------------------
(* Installing and upgrading *)

\* isAlreadyInstalled asks for the deployment.  An existing installation is
\* upgraded on --upgrade, or if the user enables the ingress; a new one is made
\* after the remains of an old one are removed.
CheckInstalled ==
    /\ StartAt("check")
    /\ IF release # None /\ release.deployed
       THEN \E ingress \in BOOLEAN :
               IF start.upgrade \/ ingress THEN Goto("helm") ELSE Goto("success")
       ELSE start' = [start EXCEPT !.pc = "helmUninstall", !.then = "helm"]
    /\ StartQuiet /\ UNCHANGED <<release, admin, adminSecrets, registered, box, cli>>

\* helm upgrade --install: a release that is there is kept and changed.
Installed(deployed) ==
    [by |-> IF release = None THEN starts ELSE release.by, deployed |-> deployed, up |-> FALSE]

UpgradeRelease ==
    /\ start.pc \in {"helm", "helmAgain"}
    /\ release' = Installed(TRUE)
    /\ Goto("success")
    /\ StartQuiet /\ UNCHANGED <<admin, adminSecrets, registered, box, cli>>

\* It fails half way; only with --reset the objects in the way are deleted and it
\* is tried once more.
UpgradeReleaseFails ==
    /\ start.pc \in {"helm", "helmAgain"} /\ Mishap
    /\ \E deployed \in BOOLEAN : release' \in {release, Installed(deployed)}
    /\ IF start.pc = "helm" /\ start.reset THEN Goto("purge") ELSE start' = NoStart
    /\ UNCHANGED <<admin, adminSecrets, registered, box, cli>>

\* kubectl delete of the chart's manifests; its errors are ignored.
Purge ==
    /\ StartAt("purge")
    /\ release' = IF release = None THEN None ELSE [release EXCEPT !.deployed = FALSE, !.up = FALSE]
    /\ Goto("helmAgain")
    /\ StartQuiet /\ UNCHANGED <<admin, adminSecrets, registered, box, cli>>

-----------------------------------------------------------------------------
(* After the installation *)

Success ==
    /\ StartAt("success")
    /\ Goto(IF start.wait THEN "waitPod" ELSE "done")
    /\ StartQuiet /\ UNCHANGED <<release, admin, adminSecrets, registered, box, cli>>

Ping == start' = [start EXCEPT !.pings = @ + 1]

\* WaitForPodReady: until the manager runs, or the time is up.
WaitForPodReady ==
    /\ StartAt("waitPod")
    /\ IF release # None /\ release.up THEN Goto("adminUser")
       ELSE IF start.pings >= MaxPings THEN start' = NoStart ELSE Ping
    /\ StartQuiet /\ UNCHANGED <<release, admin, adminSecrets, registered, box, cli>>

\* ensureAdminPassword: the user.  One without a password reference is left alone, and so
\* is a missing one: "admin == nil" never holds, for Get returns an empty user with its
\* NotFound.
EnsureAdminUser ==
    /\ StartAt("adminUser")
    /\ IF admin \in References THEN Goto("adminSecret")
       ELSE start' = [start EXCEPT !.pc = "reach", !.shown = start.password]
    /\ StartQuiet /\ UNCHANGED <<release, admin, adminSecrets, registered, box, cli>>

\* Mutant: the password asked for is shown, whatever the secret holds.
EnsureAdminPasswordShown ==
    /\ StartAt("adminSecret")
    /\ adminSecrets' = [adminSecrets EXCEPT ![admin] = IF @ = None THEN start.password ELSE @]
    /\ start' = [start EXCEPT !.pc = "reach", !.shown = start.password]
    /\ StartQuiet /\ UNCHANGED <<release, admin, registered, box, cli>>

\* Then its secret: an existing one stays, and if it holds another password the
\* command forgets its own and shows a hint instead.
EnsureAdminPassword ==
    /\ StartAt("adminSecret")
    /\ adminSecrets' = [adminSecrets EXCEPT ![admin] = IF @ = None THEN start.password ELSE @]
    /\ start' = [start EXCEPT !.pc = "reach",
                    !.shown = IF adminSecrets'[admin] = start.password THEN start.password ELSE None]
    /\ StartQuiet /\ UNCHANGED <<release, admin, registered, box, cli>>

\* Without an ingress (isInstalledLocally) the router's domain is tried, unless
\* --no-tunnel; with one its host, if it answers or the user wants to wait for it.
ChooseAddress ==
    /\ StartAt("reach")
    /\ \E way \in {"router", "local", "remote"} : Goto(way)
    /\ StartQuiet /\ UNCHANGED <<release, admin, adminSecrets, registered, box, cli>>

LoginThen(pc) == start' = [start EXCEPT !.pc = "login", !.then = pc]

\* pingLoftRouter, and if the domain does not answer in time a forwarded port.
PingLoftRouter ==
    /\ StartAt("router")
    /\ \/ LoginThen("done")
       \/ start.pings < MaxPings /\ Ping
       \/ start.pings >= MaxPings /\ LoginThen("forwarding")
    /\ StartQuiet /\ UNCHANGED <<release, admin, adminSecrets, registered, box, cli>>

\* successLocal ends in a port that is forwarded until the user ends the command.
SuccessLocal ==
    /\ StartAt("local")
    /\ LoginThen("forwarding")
    /\ StartQuiet /\ UNCHANGED <<release, admin, adminSecrets, registered, box, cli>>

\* successRemote waits for the DNS record, and does not log in.
SuccessRemote ==
    /\ StartAt("remote")
    /\ \/ Goto("done")
       \/ start.pings < MaxPings /\ Ping
       \/ start.pings >= MaxPings /\ start' = NoStart
    /\ StartQuiet /\ UNCHANGED <<release, admin, adminSecrets, registered, box, cli>>

\* login: not if the CLI knows the address (the router's, or localhost) already; else with the password shown.
Login ==
    /\ StartAt("login")
    /\ IF ~start.login \/ cli = start.then THEN Goto(start.then) /\ UNCHANGED cli
       ELSE IF admin \in References /\ start.shown = adminSecrets[admin]
       THEN Goto(start.then) /\ cli' = start.then
       ELSE start' = NoStart /\ UNCHANGED cli
    /\ StartQuiet /\ UNCHANGED <<release, admin, adminSecrets, registered, box>>

-----------------------------------------------------------------------------
(* In docker *)

\* findLoftContainer removes a container that does not run; --reset and --upgrade
\* replace one that does.
DockerFind ==
    /\ StartAt("dockerFind")
    /\ IF box # None /\ box.up
       THEN IF start.reset \/ start.upgrade THEN Goto("dockerStop")
            ELSE start' = [start EXCEPT !.pc = IF start.wait THEN "dockerWait" ELSE "done",
                                        !.shown = start.password]
       ELSE Goto("dockerRun")
    /\ box' = IF box # None /\ ~box.up THEN None ELSE box
    /\ StartQuiet /\ UNCHANGED <<release, admin, adminSecrets, registered, cli>>

UninstallDocker ==
    /\ \/ StartAt("dockerStop") /\ box' = [box EXCEPT !.up = FALSE] /\ Goto("dockerRemove")
       \/ StartAt("dockerRemove") /\ box' = None /\ Goto("dockerRun")
    /\ StartQuiet /\ UNCHANGED <<release, admin, adminSecrets, registered, cli>>

\* docker run may leave a container that has exited.
RunInDocker ==
    /\ StartAt("dockerRun")
    /\ \E up \in BOOLEAN : box' = [by |-> starts, up |-> up]
    /\ start' = [start EXCEPT !.pc = IF start.wait THEN "dockerWait" ELSE "done",
                              !.shown = start.password]
    /\ StartQuiet /\ UNCHANGED <<release, admin, adminSecrets, registered, cli>>

\* successDocker: until it can be reached, or has exited, or the time is up.
SuccessDocker ==
    /\ StartAt("dockerWait")
    /\ \/ box.up /\ Goto("done")
       \/ box.up /\ start.pings < MaxPings /\ Ping
       \/ (~box.up \/ start.pings >= MaxPings) /\ start' = NoStart
    /\ StartQuiet /\ UNCHANGED <<release, admin, adminSecrets, registered, box, cli>>

-----------------------------------------------------------------------------
(* pro reset password *)

\* The user is created with --create; one without a password gets a reference with --force.
ResetUser(flag) ==
    /\ StartAt("resetUser")
    /\ IF admin \in References THEN Goto("resetSecret") /\ UNCHANGED <<admin, adminSecrets>>
       ELSE IF flag THEN /\ admin' = "random" /\ Goto("resetSecret")
                         /\ adminSecrets' = [adminSecrets EXCEPT !["random"] = None]
       ELSE start' = NoStart /\ UNCHANGED <<admin, adminSecrets>>
    /\ StartQuiet /\ UNCHANGED <<release, registered, box, cli>>

ResetSecret ==
    /\ StartAt("resetSecret")
    /\ adminSecrets' = [adminSecrets EXCEPT ![admin] = start.password]
    /\ Goto("done")
    /\ StartQuiet /\ UNCHANGED <<release, admin, registered, box, cli>>

-----------------------------------------------------------------------------
(* The end of a command, and what happens around it *)

StartDone ==
    /\ StartAt("done")
    /\ start' = NoStart
    /\ StartQuiet /\ UNCHANGED <<release, admin, adminSecrets, registered, box, cli>>

\* A request fails or the command is killed; a forwarding ends with ctrl-c.
StartStops ==
    /\ \/ ~StartAt("idle") /\ ~StartAt("done") /\ ~StartAt("forwarding") /\ Mishap
       \/ StartAt("forwarding") /\ StartQuiet
    /\ start' = NoStart
    /\ UNCHANGED <<release, admin, adminSecrets, registered, box, cli>>

\* The platform comes up: it registers its objects, and its chart brings an admin
\* with the password it was given, if there is none.
PlatformComesUp ==
    /\ release # None /\ release.deployed /\ ~release.up
    /\ release' = [release EXCEPT !.up = TRUE] /\ registered' = TRUE
    /\ \/ UNCHANGED <<admin, adminSecrets>>
       \/ /\ admin = "nobody" /\ admin' = "chart"
          /\ \E p \in Passwords : adminSecrets' = [adminSecrets EXCEPT !["chart"] = IF @ = None THEN p ELSE @]
    /\ UNCHANGED <<start, box, cli, starts, mishaps>>

\* The container exits, or an administrator takes the password away (single sign-on).
Surroundings ==
    /\ StartAt("idle") /\ Mishap
    /\ \/ box # None /\ box.up /\ box' = [box EXCEPT !.up = FALSE] /\ UNCHANGED admin
       \/ admin \in References /\ admin' = "noPassword" /\ UNCHANGED box
    /\ UNCHANGED <<start, release, adminSecrets, registered, cli>>

StartStep ==
    \/ HelmUninstall \/ DeleteUser \/ DeleteSecret \/ DeleteRest \/ CheckInstalled
    \/ UpgradeRelease \/ Purge \/ Success \/ WaitForPodReady \/ EnsureAdminUser
    \/ EnsureAdminPassword \/ ChooseAddress \/ PingLoftRouter \/ SuccessLocal
    \/ SuccessRemote \/ Login \/ DockerFind \/ UninstallDocker
    \/ RunInDocker \/ SuccessDocker \/ (\E flag \in BOOLEAN : ResetUser(flag)) \/ ResetSecret
    \/ StartDone

StartNext ==
    \/ \E d, r, u, w, l \in BOOLEAN, p \in Passwords \cup {None} : StartRuns(d, r, u, w, l, p)
    \/ \E p \in Passwords : ResetPasswordRuns(p)
    \/ StartStep \/ UpgradeReleaseFails \/ StartStops \/ PlatformComesUp \/ Surroundings

StartSpec == StartInit /\ [][StartNext]_startVars

-----------------------------------------------------------------------------
(* Properties *)

\* A password that an installation in a cluster shows is the admin's: over failed
\* and killed installations, resets, secrets that an uninstall left behind and
\* "pro reset password".  Except where there is no admin, or one without a password
\* reference: the command goes on and shows the password it was given.
ShownPasswordWorks ==
    start.pc \in {"done", "forwarding"} /\ start.op = "start" /\ ~start.docker /\ start.shown # None
        => admin \in {"nobody", "noPassword"} \/ (admin \in References /\ adminSecrets[admin] = start.shown)

=============================================================================
