------------------------ MODULE ContainerCredentials ------------------------
(***************************************************************************)
(* The credentials of the client in the container.  Every session runs     *)
(* "agent container credentials-server" through RunServices: it writes the *)
(* docker and git helpers into the user's configuration, then serves one   *)
(* fixed port and passes each request on to its client over the tunnel.    *)
(* Which helpers it writes the flags of its session say.                   *)
(* Sessions share the port, the git configuration and the docker           *)
(* configuration.  git and docker in the container ask the port.           *)
(*                                                                         *)
(* The end of the tunnel ends the server with os.Exit                      *)
(* (NewTunnelClient with exitOnClose): deferred functions do not run.      *)
(***************************************************************************)
EXTENDS Naturals, FiniteSets

CONSTANTS Sessions, NoSession,
          MaxServerRuns,     \* bound: starts of a session's server
          MaxCredFaults,     \* bound: servers killed, configurations that fail
          MaxAsks            \* bound: requests of git

ASSUME CredAssumption ==
    /\ NoSession \notin Sessions
    /\ MaxServerRuns \in Nat \ {0} /\ MaxCredFaults \in Nat /\ MaxAsks \in Nat

VARIABLES client,     \* RunServices of each session
          gitHelper,  \* sessions with --configure-git-helper
          srv,        \* its credentials server
          serverRuns,
          port,       \* the session whose server listens on the port
          gitcfg,     \* ~/.gitconfig: the credential helper, the signing helper,
                      \* the identity of the user
          seen,       \* what a server has read of it and will write
          docker,     \* docker's configuration names the helper
          torn,       \* two servers found the port free before either listened,
                      \* or a write of the git configuration was cut off
          ask,        \* a request of git or docker, and how far it got
          asks, credFaults

credVars == <<client, gitHelper, srv, serverRuns, port, gitcfg, seen, docker, torn, ask,
              asks, credFaults>>

GitConfigs == [cred : {"none", "user", "devpod"}, sign : BOOLEAN, ident : BOOLEAN]
Empty == [cred |-> "none", sign |-> FALSE, ident |-> FALSE]
Requests == [what : {"git", "docker"}, at : {"none", "helper", "server", "client"},
             by : Sessions \cup {NoSession}]
NoRequest == [what |-> "git", at |-> "none", by |-> NoSession]
Starting == {"docker", "user", "readCred", "writeCred", "readSign", "writeSign", "listen"}
Ending == {"unreadSign", "unwriteSign", "unreadCred", "unwriteCred"}
Up == Starting \cup Ending \cup {"ping", "check", "serving"}

\* The shape of the state.
CredTypeOK ==
    /\ client \in [Sessions -> {"off", "services", "blocked", "ended"}]
    /\ gitHelper \subseteq Sessions
    /\ srv \in [Sessions -> Up \cup {"off"}]
    /\ serverRuns \in [Sessions -> 0..MaxServerRuns]
    /\ port \in Sessions \cup {NoSession}
    /\ gitcfg \in GitConfigs /\ seen \in [Sessions -> GitConfigs]
    /\ docker \in BOOLEAN /\ torn \in BOOLEAN
    /\ ask \in Requests
    /\ asks \in 0..MaxAsks /\ credFaults \in 0..MaxCredFaults

CredInit ==
    /\ client = [s \in Sessions |-> "off"]
    /\ gitHelper = {}
    /\ srv = [s \in Sessions |-> "off"]
    /\ serverRuns = [s \in Sessions |-> 0]
    /\ port = NoSession
    /\ gitcfg \in {Empty, [cred |-> "user", sign |-> FALSE, ident |-> TRUE]}
    /\ seen = [s \in Sessions |-> Empty]
    /\ docker = FALSE /\ torn = FALSE
    /\ ask = NoRequest /\ asks = 0 /\ credFaults = 0

CredFault == credFaults < MaxCredFaults /\ credFaults' = credFaults + 1
To(s, pc) == srv' = [srv EXCEPT ![s] = pc]

----------------------------------------------------------------------------
\* RunServices of a new session starts its server.
OpenSession(s) ==
    /\ client[s] = "off"
    /\ client' = [client EXCEPT ![s] = "services"]
    /\ gitHelper' \in {gitHelper, gitHelper \cup {s}}
    /\ To(s, "ping")
    /\ serverRuns' = [serverRuns EXCEPT ![s] = 1]
    /\ UNCHANGED <<port, gitcfg, seen, docker, torn, ask, asks, credFaults>>

\* A server that ended with an error is started again, always.
Retry(s) ==
    /\ client[s] = "services" /\ srv[s] = "off"
    /\ serverRuns[s] < MaxServerRuns
    /\ serverRuns' = [serverRuns EXCEPT ![s] = @ + 1]
    /\ To(s, "ping")
    /\ UNCHANGED <<client, gitHelper, port, gitcfg, seen, docker, torn, ask, asks, credFaults>>

\* The session ends, and with it the tunnel: the server exits where it is.  A
\* write that it was in the middle of leaves the file truncated.
CloseSession(s) ==
    /\ client[s] \in {"services", "blocked"}
    /\ client' = [client EXCEPT ![s] = "ended"]
    /\ To(s, "off")
    /\ port' = IF port = s THEN NoSession ELSE port
    /\ \/ UNCHANGED <<gitcfg, torn, credFaults>>
       \/ /\ srv[s] \in {"writeCred", "writeSign", "unwriteCred", "unwriteSign"}
          /\ CredFault /\ gitcfg' = Empty /\ torn' = TRUE
    /\ seen' = [seen EXCEPT ![s] = Empty]
    /\ UNCHANGED <<gitHelper, serverRuns, docker, ask, asks>>

\* The server is killed alone.
ServerKilled(s) ==
    /\ srv[s] # "off" /\ CredFault
    /\ To(s, "off")
    /\ port' = IF port = s THEN NoSession ELSE port
    /\ seen' = [seen EXCEPT ![s] = Empty]
    /\ UNCHANGED <<client, gitHelper, serverRuns, gitcfg, docker, torn, ask, asks>>

----------------------------------------------------------------------------
\* CredentialsServerCmd.Run
PingClient(s) ==
    /\ srv[s] = "ping" /\ To(s, "check")
    /\ UNCHANGED <<client, gitHelper, serverRuns, port, gitcfg, seen, docker, torn, ask, asks, credFaults>>

\* Mutant: a taken port is not noticed.
CheckPortNever(s) ==
    /\ srv[s] = "check" /\ To(s, "docker")
    /\ torn' = (torn \/ \E t \in Sessions \ {s} : srv[t] \in Starting \cup Ending)
    /\ UNCHANGED <<client, gitHelper, serverRuns, port, gitcfg, seen, docker, ask, asks, credFaults>>

\* A port that is taken ends the server without an error, and its client waits
\* for a tunnel server that ends only with the session.
CheckPort(s) ==
    /\ srv[s] = "check"
    /\ IF port = NoSession
       THEN /\ To(s, "docker") /\ client' = client
            /\ torn' = (torn \/ \E t \in Sessions \ {s} : srv[t] \in Starting \cup Ending)
       ELSE /\ To(s, "off") /\ torn' = torn
            /\ client' = [client EXCEPT ![s] = "blocked"]
    /\ UNCHANGED <<gitHelper, serverRuns, port, gitcfg, seen, docker, ask, asks, credFaults>>

\* configureCredentials, for --configure-docker-helper: the helper script and the
\* credentials store; nothing ever takes them back.
ConfigureDocker(s) ==
    /\ srv[s] = "docker"
    /\ \/ To(s, "user") /\ docker' \in {docker, TRUE} /\ UNCHANGED credFaults
       \/ To(s, "off") /\ docker' = docker /\ CredFault
    /\ UNCHANGED <<client, gitHelper, serverRuns, port, gitcfg, seen, torn, ask, asks>>

\* What the text of the git configuration becomes.  Every [credential] section
\* goes before the helper is added, the user's own too; of the signing helper
\* only its program is taken back.
WithUser(c) == [c EXCEPT !.ident = TRUE]
WithoutCredentialHelper(c) == [c EXCEPT !.cred = "none"]
WithCredentialHelper(c) ==
    IF c.cred = "devpod" THEN c ELSE [WithoutCredentialHelper(c) EXCEPT !.cred = "devpod"]
WithSigningHelper(c) == [c EXCEPT !.sign = TRUE]
WithoutSigningHelper(c) == [c EXCEPT !.sign = FALSE]

\* configureGitUserLocally: "don't override what is already there".  An error of this
\* or of a later step ends the server.
ConfigureGitUser(s) ==
    /\ srv[s] = "user"
    /\ \/ To(s, "readCred") /\ gitcfg' = WithUser(gitcfg) /\ UNCHANGED credFaults
       \/ To(s, "off") /\ gitcfg' = gitcfg /\ CredFault
    /\ UNCHANGED <<client, gitHelper, serverRuns, port, seen, docker, torn, ask, asks>>

\* The git configuration is read, changed as a text and written whole.
ReadGitConfig(s, from, to) ==
    /\ srv[s] = from /\ To(s, to)
    /\ seen' = [seen EXCEPT ![s] = gitcfg]
    /\ UNCHANGED <<client, gitHelper, serverRuns, port, gitcfg, docker, torn, ask, asks, credFaults>>

WriteGitConfig(s, from, to, content) ==
    /\ srv[s] = from /\ To(s, to)
    /\ gitcfg' = content /\ seen' = [seen EXCEPT ![s] = Empty]
    /\ UNCHANGED <<client, gitHelper, serverRuns, port, docker, torn, ask, asks, credFaults>>

ConfigFails(s, from, to) ==
    /\ srv[s] = from /\ To(s, to) /\ CredFault
    /\ seen' = [seen EXCEPT ![s] = Empty]
    /\ UNCHANGED <<client, gitHelper, serverRuns, port, gitcfg, docker, torn, ask, asks>>

\* ConfigureHelper of gitcredentials, for --configure-git-helper: nothing is written
\* when the helper is there.
ConfigureHelper(s) ==
    \/ s \notin gitHelper /\ WriteGitConfig(s, "readCred", "readSign", gitcfg)
    \/ s \in gitHelper /\ ReadGitConfig(s, "readCred", "writeCred")
    \/ ConfigFails(s, "writeCred", "off")
    \/ WriteGitConfig(s, "writeCred", "readSign",
                      IF seen[s].cred = "devpod" THEN gitcfg
                      ELSE WithCredentialHelper(seen[s]))

\* ConfigureHelper of gitsshsigning, when the client signs with ssh; its error takes
\* the credential helper back.
ConfigureSigning(s) ==
    \/ ConfigFails(s, "writeSign", "unreadCred")
    \/ ReadGitConfig(s, "readSign", "writeSign")
    \/ WriteGitConfig(s, "readSign", "listen", gitcfg)
    \/ WriteGitConfig(s, "writeSign", "listen",
                      IF seen[s].sign THEN gitcfg ELSE WithSigningHelper(seen[s]))

\* RunCredentialsServer: a port taken in the meantime is an error, and only an
\* error takes the helpers back.
ListenOnPort(s) ==
    /\ srv[s] = "listen"
    /\ IF port = NoSession THEN port' = s /\ To(s, "serving")
                           ELSE port' = port /\ To(s, "unreadSign")
    /\ UNCHANGED <<client, gitHelper, serverRuns, gitcfg, seen, docker, torn, ask, asks, credFaults>>

RemoveSigning(s) ==
    \/ ReadGitConfig(s, "unreadSign", "unwriteSign")
    \/ WriteGitConfig(s, "unwriteSign", "unreadCred", WithoutSigningHelper(seen[s]))

RemoveHelper(s) ==
    \/ s \notin gitHelper /\ WriteGitConfig(s, "unreadCred", "off", gitcfg)
    \/ s \in gitHelper /\ ReadGitConfig(s, "unreadCred", "unwriteCred")
    \/ WriteGitConfig(s, "unwriteCred", "off",
                      IF seen[s].cred = "none" THEN gitcfg
                      ELSE WithoutCredentialHelper(seen[s]))

----------------------------------------------------------------------------
\* git or docker in the container asks for credentials: the helper that its
\* configuration names is run.
Ask(what) ==
    /\ ask.at = "none" /\ asks < MaxAsks
    /\ IF what = "git" THEN gitcfg.cred = "devpod" ELSE docker
    /\ ask' = [NoRequest EXCEPT !.what = what, !.at = "helper"]
    /\ asks' = asks + 1
    /\ UNCHANGED <<client, gitHelper, srv, serverRuns, port, gitcfg, seen, docker, torn, credFaults>>

\* GitCredentialsCmd, DockerCredentialsCmd: the workspace server of a platform
\* workspace may answer; else the port is asked; when nobody listens there are
\* no credentials, which is no error.
GitPosts ==
    /\ ask.at = "helper" /\ ask.what = "git"
    /\ ask' \in {NoRequest, IF port = NoSession THEN NoRequest
                            ELSE [ask EXCEPT !.at = "server", !.by = port]}
    /\ UNCHANGED <<client, gitHelper, srv, serverRuns, port, gitcfg, seen, docker, torn, asks, credFaults>>

DockerPosts ==
    /\ ask.at = "helper" /\ ask.what = "docker"
    /\ ask' \in {NoRequest, IF port = NoSession THEN NoRequest
                            ELSE [ask EXCEPT !.at = "server", !.by = port]}
    /\ UNCHANGED <<client, gitHelper, srv, serverRuns, port, gitcfg, seen, docker, torn, asks, credFaults>>

\* The handlers of the server pass the request on to the client.
ServerPasses ==
    /\ ask.at = "server" /\ port = ask.by
    /\ ask' = [ask EXCEPT !.at = "client"]
    /\ UNCHANGED <<client, gitHelper, srv, serverRuns, port, gitcfg, seen, docker, torn, asks, credFaults>>

\* The tunnel server of the client: its own git, its own docker configuration.
AnswerGit ==
    /\ ask.at = "client" /\ ask.what = "git" /\ client[ask.by] = "services"
    /\ ask' = NoRequest
    /\ UNCHANGED <<client, gitHelper, srv, serverRuns, port, gitcfg, seen, docker, torn, asks, credFaults>>

AnswerDocker ==
    /\ ask.at = "client" /\ ask.what = "docker" /\ client[ask.by] = "services"
    /\ ask' = NoRequest
    /\ UNCHANGED <<client, gitHelper, srv, serverRuns, port, gitcfg, seen, docker, torn, asks, credFaults>>

\* The server or its tunnel went: an error, and no credentials.
RequestLost ==
    /\ ask.at \in {"server", "client"}
    /\ port # ask.by \/ client[ask.by] # "services"
    /\ ask' = NoRequest
    /\ UNCHANGED <<client, gitHelper, srv, serverRuns, port, gitcfg, seen, docker, torn, asks, credFaults>>

----------------------------------------------------------------------------
ServerStep(s) ==
    \/ PingClient(s) \/ CheckPort(s) \/ ConfigureDocker(s) \/ ConfigureGitUser(s)
    \/ ConfigureHelper(s) \/ ConfigureSigning(s) \/ ListenOnPort(s) 
    \/ RemoveSigning(s) \/ RemoveHelper(s)

Answering == GitPosts \/ DockerPosts \/ ServerPasses \/ AnswerGit \/ AnswerDocker \/ RequestLost

CredNext ==
    \/ \E s \in Sessions : \/ OpenSession(s) \/ Retry(s) \/ CloseSession(s)
                           \/ ServerKilled(s) \/ ServerStep(s)
    \/ \E what \in {"git", "docker"} : Ask(what)
    \/ Answering

CredSpec == CredInit /\ [][CredNext]_credVars

----------------------------------------------------------------------------
\* While a server listens, git finds it: the helper is configured.  Exceptions: a
\* server without --configure-git-helper, whose port also turns away the servers of
\* later sessions that have it; two servers that found the port free at the same
\* time, when the loser takes back what the winner needs; and a write that was cut off.
ListeningIsConfigured ==
    port # NoSession /\ ~torn /\ port \in gitHelper => gitcfg.cred = "devpod"

=============================================================================
