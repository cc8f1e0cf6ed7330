----------------------------- MODULE SshConfig -----------------------------
(***************************************************************************)
(* The user's ssh config (pkg/ssh/config.go).  up puts a marked section    *)
(* for the workspace into it and delete takes it out: each reads the file, *)
(* transforms its lines and writes the whole file back, with a mutex that  *)
(* other devpod processes do not see.  The user edits the file, too.       *)
(***************************************************************************)
EXTENDS Integers, Sequences, FiniteSets, SequencesExt

CONSTANTS Hosts,         \* <workspace>.devpod
          Writers,       \* devpod processes
          UserFiles,     \* ssh configs a user may have
          UserLines,     \* lines a user may write
          MaxRewrites, MaxEdits

\* Lines: "start", "Host", "option" and "end" of the section of a host, and a user's
\* "Include", "#", "Host", "option" or "HostName" (an option that begins with Host).
Line(kind, of) == <<kind, of>>
Section(h) == <<Line("start", h), Line("Host", h), Line("option", h), Line("end", h)>>
Foreign(line) == line[2] \notin Hosts

ASSUME SshConfigAssumption ==
    /\ UserFiles \subseteq Seq(UserLines)
    /\ \A l \in UserLines : Foreign(l)
    /\ MaxRewrites \in Nat /\ MaxEdits \in Nat

VARIABLES file,      \* ~/.ssh/config
          writer,    \* what each process does
          stale,     \* writers that read the file before somebody else changed it
          users,     \* what the user has written
          wanted,    \* the hosts of the last up or delete that was done
          lost,      \* a stale writer wrote, or one was killed after it truncated the file
          rewrites, edits

sshVars == <<file, writer, stale, users, wanted, lost, rewrites, edits>>

Quiet == [pc |-> "idle", host |-> CHOOSE h \in Hosts : TRUE, add |-> FALSE, new |-> <<>>]

SshInit ==
    /\ file \in UserFiles
    /\ writer = [p \in Writers |-> Quiet]
    /\ stale = {} /\ users = file /\ wanted = {} /\ lost = FALSE
    /\ rewrites = 0 /\ edits = 0

\* The lines at some positions, in their order.
Pick(lines, at) ==
    [k \in 1..Cardinality(at) |-> lines[CHOOSE i \in at : Cardinality({j \in at : j <= i}) = k]]

\* Mutant: the end marker is not recognised.
RemoveFromConfigToEnd(lines, h) ==
    SubSeq(lines, 1, SelectInSeq(Append(lines, Line("start", h)), LAMBDA l : l = Line("start", h)) - 1)

\* removeFromConfig (transformHostSection): the markers of the host go, and what is inside:
\* after a start marker with no end marker since.
RemoveFromConfig(lines, h) ==
    LET Inside(i) == \E j \in 1..i : /\ lines[j] = Line("start", h)
                                    /\ \A k \in j..i : lines[k] # Line("end", h)
    IN Pick(lines, {i \in DOMAIN lines : ~Inside(i) /\ lines[i] # Line("end", h)})

IsComment(l) == l[1] \in {"#", "start", "end"}

\* The first line that begins with Host, or with HostName or the like.
FirstHost(lines) == SelectInSeq(lines, LAMBDA l : l[1] \in {"Host", "HostName"})

\* Mutant: the comments above the first host are left where they are.
SectionLineBelowComments(lines) == IF FirstHost(lines) = 0 THEN Len(lines) ELSE FirstHost(lines) - 1

\* Where addHostSection puts the section: above the first host and the comments that
\* belong to it, or at the end.
SectionLine(lines) ==
    LET first == FirstHost(lines)
        comments == IF first = 0 THEN 0
                    ELSE CHOOSE n \in 0..first - 1 :
                            /\ \A i \in first - n..first - 1 : IsComment(lines[i])
                            /\ n = first - 1 \/ ~IsComment(lines[first - n - 1])
    IN IF first = 0 THEN Len(lines) ELSE first - 1 - comments

AddHostSection(lines, h) ==
    LET at == SectionLine(lines)
    IN SubSeq(lines, 1, at) \o Section(h) \o SubSeq(lines, at + 1, Len(lines))

\* ConfigureSSHConfig and RemoveFromConfig read the file and build the new one.
ReadConfig(p, h, add) ==
    /\ writer[p].pc = "idle" /\ rewrites < MaxRewrites
    /\ LET without == RemoveFromConfig(file, h)
           new == IF add THEN AddHostSection(without, h) ELSE without
       IN writer' = [writer EXCEPT ![p] = [pc |-> "write", host |-> h, add |-> add, new |-> new]]
    /\ stale' = stale \ {p} /\ rewrites' = rewrites + 1
    /\ UNCHANGED <<file, users, wanted, lost, edits>>

\* The file changes for everybody who has read it.
Others(p) == {q \in Writers \ {p} : writer[q].pc # "idle"}

\* os.WriteFile truncates the file ...
Truncate(p) ==
    /\ writer[p].pc = "write"
    /\ file' = <<>>
    /\ writer' = [writer EXCEPT ![p].pc = "truncated"]
    /\ stale' = stale \cup Others(p)
    /\ UNCHANGED <<users, wanted, lost, rewrites, edits>>

\* ... and writes it.
WriteConfig(p) ==
    /\ writer[p].pc = "truncated"
    /\ file' = writer[p].new
    /\ writer' = [writer EXCEPT ![p].pc = "idle"]
    /\ stale' = stale \cup Others(p)
    /\ wanted' = IF writer[p].add THEN wanted \cup {writer[p].host} ELSE wanted \ {writer[p].host}
    /\ lost' = (lost \/ p \in stale)
    /\ UNCHANGED <<users, rewrites, edits>>

KillWriter(p) ==
    /\ writer[p].pc # "idle"
    /\ lost' = (lost \/ writer[p].pc = "truncated")
    /\ writer' = [writer EXCEPT ![p].pc = "idle"]
    /\ UNCHANGED <<file, stale, users, wanted, rewrites, edits>>

\* The user's editor: an option is written below a host of the user, not below a section.
UserEdits(l) ==
    /\ edits < MaxEdits /\ edits' = edits + 1
    /\ \/ IsComment(l) \/ l[1] = "Host"
       \/ \E i \in DOMAIN file : file[i][1] = "Host" /\ Foreign(file[i])
       \/ \A i \in DOMAIN file : Foreign(file[i])
    /\ file' = Append(file, l) /\ users' = Append(users, l)
    /\ stale' = {q \in Writers : writer[q].pc # "idle"}
    /\ UNCHANGED <<writer, wanted, lost, rewrites>>

SshNext ==
    \/ \E p \in Writers : \/ \E h \in Hosts, add \in BOOLEAN : ReadConfig(p, h, add)
                          \/ Truncate(p) \/ WriteConfig(p) \/ KillWriter(p)
    \/ \E l \in UserLines : UserEdits(l)

SshSpec == SshInit /\ [][SshNext]_sshVars
-----------------------------------------------------------------------------
\* A host has no line, or the four of its section, above all hosts of the user.
Whole(lines, h) ==
    LET own == {i \in DOMAIN lines : lines[i][2] = h}
    IN own # {} => \E i \in DOMAIN lines :
                      /\ own = i..i + 3 /\ SubSeq(lines, i, i + 3) = Section(h)
                      /\ \A j \in 1..i - 1 : lines[j][1] # "Host" \/ ~Foreign(lines[j])

\* Every workspace has at most one section, it is complete and stands above all hosts
\* of the user ("keep our blocks on top of the hosts", config.go:98), whatever order
\* processes and the user rewrite the file in, and wherever one is killed: sections
\* never nest, and the rewrite of one never cuts another.
SectionsWhole == \A h \in Hosts : Whole(file, h)

\* No rewrite is under way and none went wrong.
Settled == ~lost /\ \A p \in Writers : writer[p].pc # "truncated"

\* The host a line belongs to: the one of the last Host line at or above it.
Owner(lines, i) ==
    LET above == {j \in 1..i : lines[j][1] = "Host"}
    IN IF above = {} THEN <<>> ELSE lines[CHOOSE j \in above : \A k \in above : k <= j]

\* The user's lines, each with the host it applies to.
UserPart(lines) ==
    LET all == [i \in DOMAIN lines |-> <<lines[i], IF IsComment(lines[i]) THEN lines[i] ELSE Owner(lines, i)>>]
    IN Pick(all, {i \in DOMAIN lines : Foreign(lines[i])})

\* Every option that begins with Host comes after a Host line.
Regular(lines) == FirstHost(lines) = 0 \/ lines[FirstHost(lines)][1] = "Host"

\* Over any sequence of ups and deletes the user's lines stay, in their order and
\* under the same Host, and the sections are those of the workspaces that are up,
\* unless two rewrites overlap, one is killed half way, or the first line with the
\* prefix Host is an option such as HostName, which the code takes for a host.
UserLinesKept ==
    Settled => /\ Regular(users) => UserPart(file) = UserPart(users)
               /\ {h \in Hosts : \E i \in DOMAIN file : file[i][2] = h} = wanted

=============================================================================
