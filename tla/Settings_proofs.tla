-------------------------- MODULE Settings_proofs ---------------------------
(***************************************************************************)
(* The binaries of the providers, for any contexts, providers, versions    *)
(* and number of commands, failures and kills: a version that gives a      *)
(* checksum never runs with a binary that does not match it, unless an     *)
(* update was cut off, and a provider add that fails leaves nothing.       *)
(* Then the records of the workspaces beside the instances of the          *)
(* platform (WorkspaceList), for any ids, UIDs and providers and any       *)
(* number of commands: the removal of stale records leaves those of the    *)
(* user's instances that exist, and delete without --force leaves the      *)
(* instance of an imported workspace.                                      *)
(***************************************************************************)
EXTENDS Settings, WorkspaceList, TLAPS

SettingsKinds == {"add", "clone", "update", "use", "set", "delete", "login", "pro delete", "create context",
                  "use context", "delete context", "set context", "use ide", "set ide"}

SettingsPcs == {"run", "parse", "download", "fetch", "failed", "save json", "save state", "save pro", "configure",
                "install", "delete", "delete folder", "delete pro", "done"}

Binaries == Versions \cup {None, "part"}

\* What is inside the contexts of a copy of config.yaml, what a command was given and what
\* it remembers does not matter here: only which fields there are.
CopyRecords(P, O, S) ==
    [context : Contexts, originalContext : Contexts \cup {None}, originalProvider : P, overridden : O,
     contexts : S]

\* Every context has a map of the states of its providers.
HasStates(contexts) == \A c \in DOMAIN contexts : "states" \in DOMAIN contexts[c]

IsCopy(x) == (\E P, O, S : x \in CopyRecords(P, O, S)) /\ HasStates(x.contexts)

IsFile(f) == (f = NoFile \/ f.context \in Contexts) /\ HasStates(f.contexts)

CommandRecords(G, C, B) ==
    [kind : SettingsKinds, override : Contexts \cup {None}, overrideProvider : {None, ProProvider},
     provider : ProviderNames, version : Versions \cup {None}, given : G, flag : BOOLEAN,
     copy : C, pc : SettingsPcs, tries : Nat, before : B]

IsCommand(x) == (\E G, C, B : x \in CommandRecords(G, C, B)) /\ IsCopy(x.copy)

SettingsTypeOK ==
    /\ folder \in [Contexts -> [ProviderNames -> [json : Versions \cup {None}, binary : Binaries]]]
    /\ cache \in [Versions -> Binaries]
    /\ pro \in [Contexts -> ProviderNames \cup {None}]
    /\ IsFile(conf)
    /\ com = Idle \/ IsCommand(com)

\* A command that installs has a version to install.
Versioned ==
    /\ com.kind \in {"add", "clone", "update"} => com.version \in Versions
    /\ com.kind = "login" /\ com.pc \in {"run", "install", "save json"} => com.version \in Versions

\* While a binary is fetched its provider has no provider.json yet, or is being updated.
Installing ==
    com.pc \in {"download", "fetch", "save json", "install"} =>
        /\ \/ com.kind \in {"add", "clone", "login"} /\ folder[InContext][com.provider].json = None
           \/ com.kind = "update" /\ <<InContext, com.provider>> \in interrupted
        /\ com.pc \in {"download", "fetch"} => com.kind # "login"
        /\ com.pc = "install" => com.kind = "login"

\* Before provider.json is written the binary is the verified one.
BinaryFirst ==
    com.pc = "save json" /\ com.version \in Checksum
        => folder[InContext][com.provider].binary = com.version

SettingsInv ==
    /\ SettingsTypeOK
    /\ Versioned
    /\ Installing
    /\ BinaryFirst
    /\ VerifiedBinary

-----------------------------------------------------------------------------

\* Contexts that are changed, made or removed leave contexts with states.
LEMMA ContextChanged ==
    ASSUME NEW cs, HasStates(cs), NEW c, NEW v
    PROVE  /\ HasStates([cs EXCEPT ![c].states = v])
           /\ HasStates([cs EXCEPT ![c].provider = v])
           /\ HasStates(PutAt(cs, c, NoContext)) /\ HasStates(Without(cs, c))
  BY DEF HasStates, PutAt, Without, NoContext

\* The copy of config.yaml that a command works on has a context.
LEMMA LoadConfigMeans ==
    ASSUME IsFile(conf), NEW c \in Contexts \cup {None}, NEW p \in {None, ProProvider}
    PROVE  IsCopy(LoadConfig(c, p))
<1> DEFINE now == Or(c, Or(conf.context, DefaultContext))
           all == IF now \in DOMAIN conf.contexts THEN conf.contexts ELSE PutAt(conf.contexts, now, NoContext)
           op == IF p = None \/ conf = NoFile THEN None ELSE all[now].provider
           v == Or(p, all[now].provider)
           cs == [all EXCEPT ![now].provider = v]
<1>1. conf.context \in Contexts \cup {None}
  BY DEF IsFile, NoFile
<1>2. now \in Contexts
  BY <1>1, SettingsAssumption DEF Or
<1>3. (IF c = None THEN None ELSE conf.context) \in Contexts \cup {None}
  BY <1>1
<1>4. LoadConfig(c, p) = [context |-> now, originalContext |-> IF c = None THEN None ELSE conf.context,
                         originalProvider |-> op, overridden |-> now, contexts |-> cs]
  BY DEF LoadConfig
<1> HIDE DEF now, op, v
<1>6. HasStates(all)
  BY ContextChanged DEF IsFile
<1> HIDE DEF all
<1>7. HasStates(cs)
  BY <1>6, ContextChanged
<1> HIDE DEF cs
<1>5. LoadConfig(c, p) \in CopyRecords({op}, {now}, {cs}) /\ LoadConfig(c, p).contexts = cs
  BY <1>2, <1>3, <1>4 DEF CopyRecords
<1> QED
  BY <1>5, <1>7 DEF IsCopy

\* A change of what is inside the contexts leaves a copy.
LEMMA CopyChanged ==
    ASSUME NEW x, IsCopy(x), NEW y, HasStates(y)
    PROVE  /\ IsCopy([x EXCEPT !.contexts = y]) /\ [x EXCEPT !.contexts = y].context = x.context
           /\ [x EXCEPT !.contexts = y].contexts = y
           /\ [x EXCEPT !.contexts = y].originalContext = x.originalContext
<1>1. PICK P, O, S : x \in CopyRecords(P, O, S)
  BY DEF IsCopy
<1>2. /\ [x EXCEPT !.contexts = y] \in CopyRecords(P, O, {y}) /\ [x EXCEPT !.contexts = y].context = x.context
      /\ [x EXCEPT !.contexts = y].contexts = y
      /\ [x EXCEPT !.contexts = y].originalContext = x.originalContext
  BY <1>1 DEF CopyRecords
<1> QED
  BY <1>2 DEF IsCopy

\* So does a change of the current context.
LEMMA CopyMoved ==
    ASSUME NEW x, IsCopy(x), NEW c \in Contexts
    PROVE  IsCopy([x EXCEPT !.context = c])
<1>1. PICK P, O, S : x \in CopyRecords(P, O, S)
  BY DEF IsCopy
<1>2. [x EXCEPT !.context = c] \in CopyRecords(P, O, S) /\ [x EXCEPT !.context = c].contexts = x.contexts
  BY <1>1 DEF CopyRecords
<1> QED
  BY <1>2 DEF IsCopy

\* SaveConfig writes a config.yaml that names a context, and the states as they are.
LEMMA SavedMeans ==
    ASSUME NEW x, IsCopy(x)
    PROVE  IsFile(Saved(x)) /\ Saved(x).context = Or(x.originalContext, x.context)
<1>1. PICK P, O, S : x \in CopyRecords(P, O, S)
  BY DEF IsCopy
<1>2. x.context \in Contexts /\ x.originalContext \in Contexts \cup {None}
  BY <1>1 DEF CopyRecords
<1> DEFINE c == Or(x.originalContext, x.context)
           v == Or(x.originalProvider, x.contexts[c].provider)
           cs == IF x.overridden = c THEN [x.contexts EXCEPT ![c].provider = v] ELSE x.contexts
<1>3. c \in Contexts
  BY <1>2 DEF Or
<1>4. Saved(x) = [context |-> c, contexts |-> cs]
  BY DEF Saved
<1> HIDE DEF c, v
<1>5. HasStates(cs)
  BY ContextChanged DEF IsCopy
<1> HIDE DEF cs
<1> QED
  BY <1>3, <1>4, <1>5 DEF IsFile, c

\* The fields of a command.
LEMMA CommandMeans ==
    ASSUME NEW x, IsCommand(x)
    PROVE  /\ x # Idle /\ x.kind \in SettingsKinds /\ x.pc \in SettingsPcs
           /\ x.provider \in ProviderNames /\ x.version \in Versions \cup {None}
           /\ x.copy.context \in Contexts /\ x.override \in Contexts \cup {None}
           /\ x.overrideProvider \in {None, ProProvider}
<1>1. PICK G, C, B : x \in CommandRecords(G, C, B)
  BY DEF IsCommand
<1>2. PICK P, O, S : x.copy \in CopyRecords(P, O, S)
  BY DEF IsCommand, IsCopy
<1>3. /\ x.kind \in SettingsKinds /\ x.pc \in SettingsPcs
      /\ x.provider \in ProviderNames /\ x.version \in Versions \cup {None}
      /\ x.override \in Contexts \cup {None} /\ x.overrideProvider \in {None, ProProvider}
  BY <1>1 DEF CommandRecords
<1>4. x.copy.context \in Contexts
  BY <1>2 DEF CopyRecords
<1>5. x # Idle
  <2>1. Idle.kind = "none"
    BY DEF Idle
  <2> QED
    BY <1>3, <2>1 DEF SettingsKinds
<1> QED
  BY <1>3, <1>4, <1>5

\* A command that goes to its next step.
Moves(l) ==
    /\ IsCommand(com') /\ com'.pc = l
    /\ com'.kind = com.kind /\ com'.provider = com.provider /\ com'.version = com.version
    /\ com'.copy.context = com.copy.context

\* A step to the next point of a command.
LEMMA GotoMeans ==
    ASSUME IsCommand(com), NEW l \in SettingsPcs, com' = [com EXCEPT !.pc = l]
    PROVE  Moves(l)
<1>1. PICK G, C, B : com \in CommandRecords(G, C, B)
  BY DEF IsCommand
<1>2. /\ com' \in CommandRecords(G, C, B) /\ com'.pc = l /\ com'.copy = com.copy
      /\ com'.kind = com.kind /\ com'.provider = com.provider /\ com'.version = com.version
  BY <1>1 DEF CommandRecords
<1> QED
  BY <1>2 DEF Moves, IsCommand

\* The same with a changed copy of config.yaml.
LEMMA GotoWithCopy ==
    ASSUME IsCommand(com), NEW l \in SettingsPcs, NEW y, IsCopy(y),
           \/ com' = [com EXCEPT !.copy = y, !.pc = l]
           \/ com' = [com EXCEPT !.pc = l, !.copy = y]
    PROVE  /\ IsCommand(com') /\ com'.pc = l /\ com'.copy = y
           /\ com'.kind = com.kind /\ com'.provider = com.provider /\ com'.version = com.version
<1>1. PICK G, C, B : com \in CommandRecords(G, C, B)
  BY DEF IsCommand
<1>2. CASE com' = [com EXCEPT !.copy = y, !.pc = l]
  <2>1. com' \in CommandRecords(G, {y}, B) /\ com'.pc = l /\ com'.copy = y
        /\ com'.kind = com.kind /\ com'.provider = com.provider /\ com'.version = com.version
    BY <1>1, <1>2 DEF CommandRecords
  <2> QED
    BY <2>1 DEF IsCommand
<1>3. CASE com' = [com EXCEPT !.pc = l, !.copy = y]
  <2>1. com' \in CommandRecords(G, {y}, B) /\ com'.pc = l /\ com'.copy = y
        /\ com'.kind = com.kind /\ com'.provider = com.provider /\ com'.version = com.version
    BY <1>1, <1>3 DEF CommandRecords
  <2> QED
    BY <2>1 DEF IsCommand
<1> QED
  BY <1>2, <1>3

Folders == [json : Versions \cup {None}, binary : Binaries]

\* A change of one provider's folder keeps VerifiedBinary if it keeps it for that provider.
LEMMA VerifiedKept ==
    ASSUME VerifiedBinary, NEW c \in Contexts, NEW p \in ProviderNames,
           \A d \in Contexts, q \in ProviderNames : d # c \/ q # p => folder'[d][q] = folder[d][q],
           interrupted' \in {interrupted, interrupted \cup {<<c, p>>}, interrupted \ {<<c, p>>}},
           folder'[c][p].json \in Checksum /\ <<c, p>> \notin interrupted'
               => folder'[c][p].binary \in {folder'[c][p].json, None}
    PROVE  VerifiedBinary'
<1> SUFFICES ASSUME NEW d \in Contexts, NEW q \in ProviderNames,
                    folder'[d][q].json \in Checksum, <<d, q>> \notin interrupted'
             PROVE  folder'[d][q].binary \in {folder'[d][q].json, None}
  BY DEF VerifiedBinary
<1>1. CASE d = c /\ q = p
  BY <1>1
<1>2. CASE d # c \/ q # p
  <2>1. <<d, q>> # <<c, p>>
    BY <1>2
  <2>2. <<d, q>> \notin interrupted
    BY <2>1
  <2> QED
    BY <1>2, <2>2 DEF VerifiedBinary
<1> QED
  BY <1>1, <1>2

\* Nothing is configured and nothing installed.
LEMMA SettingsInvInit == SettingsInit => SettingsInv
<1> SUFFICES ASSUME SettingsInit PROVE SettingsInv
  OBVIOUS
<1>1. com.kind = "none" /\ com.pc = "none" /\ com = Idle
  BY DEF SettingsInit, Idle
<1>2. folder \in [Contexts -> [ProviderNames -> [json : Versions \cup {None}, binary : Binaries]]]
  BY DEF SettingsInit, NoFolder, Binaries
<1>a. IsFile(conf)
  BY DEF SettingsInit, IsFile, NoFile, HasStates
<1>3. SettingsTypeOK
  BY <1>1, <1>2, <1>a DEF SettingsInit, SettingsTypeOK, Binaries
<1>4. VerifiedBinary
  BY SettingsAssumption DEF SettingsInit, VerifiedBinary, NoFolder
<1> QED
  BY <1>1, <1>3, <1>4 DEF SettingsInv, Versioned, Installing, BinaryFirst

\* A step after which no command runs and the folders are as they were.
LEMMA EndsKeeps ==
    ASSUME SettingsInv, com' = Idle, UNCHANGED <<folder, interrupted>>,
           cache' \in [Versions -> Binaries], pro' \in [Contexts -> ProviderNames \cup {None}],
           IsFile(conf')
    PROVE  SettingsInv'
<1>1. com'.kind = "none" /\ com'.pc = "none"
  BY DEF Idle
<1>2. VerifiedBinary'
  BY DEF SettingsInv, VerifiedBinary
<1> QED
  BY <1>1, <1>2 DEF SettingsInv, SettingsTypeOK, Versioned, Installing, BinaryFirst

\* A step that leaves the folders and goes on where nothing is being installed.
LEMMA GoesOnKeeps ==
    ASSUME SettingsInv, IsCommand(com'), UNCHANGED <<folder, interrupted, cache>>,
           pro' \in [Contexts -> ProviderNames \cup {None}],
           com'.kind = com.kind, com'.version = com.version \/ com.kind = "login",
           com'.pc \in SettingsPcs \ {"run", "download", "fetch", "save json", "install"},
           IsFile(conf')
    PROVE  SettingsInv'
<1>1. VerifiedBinary'
  BY DEF SettingsInv, VerifiedBinary
<1>2. Versioned' /\ Installing' /\ BinaryFirst'
  BY DEF SettingsInv, Versioned, Installing, BinaryFirst
<1> QED
  BY <1>1, <1>2 DEF SettingsInv, SettingsTypeOK

\* A new command.
LEMMA BeginKeeps ==
    ASSUME SettingsInv, NEW kind \in SettingsKinds, NEW context \in Contexts \cup {None},
           NEW provider \in {None, ProProvider}, NEW p \in ProviderNames, NEW v \in Versions \cup {None},
           NEW given, NEW flag \in BOOLEAN, kind \in {"add", "clone", "update", "login"} => v \in Versions,
           Begin(kind, context, provider, p, v, given, flag)
    PROVE  SettingsInv'
<1> DEFINE copy == LoadConfig(context, provider)
           before == IF kind \in {"add", "clone"} THEN [conf |-> conf, folder |-> folder] ELSE None
<1>1. IsCopy(copy)
  BY LoadConfigMeans DEF SettingsInv, SettingsTypeOK
<1>2. com' = [kind |-> kind, override |-> context, overrideProvider |-> provider, provider |-> p, version |-> v,
              given |-> given, flag |-> flag, copy |-> copy, pc |-> "run", tries |-> 0, before |-> before]
  BY DEF Begin
<1> HIDE DEF copy, before
<1>3. com' \in CommandRecords({given}, {copy}, {before}) /\ com'.copy = copy /\ com'.kind = kind
      /\ com'.version = v /\ com'.pc = "run"
  BY <1>2 DEF CommandRecords, SettingsPcs
<1>4. IsCommand(com')
  BY <1>1, <1>3 DEF IsCommand
<1>5. UNCHANGED <<conf, folder, cache, pro, interrupted>>
  BY DEF Begin
<1>6. VerifiedBinary'
  BY <1>5 DEF SettingsInv, VerifiedBinary
<1>7. Versioned' /\ Installing' /\ BinaryFirst'
  BY <1>3 DEF Versioned, Installing, BinaryFirst
<1> QED
  BY <1>4, <1>5, <1>6, <1>7 DEF SettingsInv, SettingsTypeOK

\* A step of an installation: the binary changes, provider.json does not.
LEMMA InstallKeeps ==
    ASSUME SettingsInv, IsCommand(com), NEW l \in {"fetch", "save json"}, Moves(l),
           NEW g \in Folders, folder'[InContext][com.provider] = g,
           g.json = folder[InContext][com.provider].json,
           folder' \in [Contexts -> [ProviderNames -> Folders]],
           \A d \in Contexts, q \in ProviderNames :
               d # InContext \/ q # com.provider => folder'[d][q] = folder[d][q],
           cache' \in [Versions -> Binaries], UNCHANGED <<conf, pro, interrupted>>,
           com.pc \in {"download", "fetch"} \/ (com.pc = "install" /\ l = "save json"),
           l = "save json" /\ com.version \in Checksum => g.binary = com.version
    PROVE  SettingsInv'
<1>1. com.provider \in ProviderNames /\ com.copy.context \in Contexts
  BY CommandMeans
<1>2. /\ \/ com.kind \in {"add", "clone", "login"} /\ g.json = None
         \/ com.kind = "update" /\ <<com.copy.context, com.provider>> \in interrupted
      /\ com.pc \in {"download", "fetch"} => com.kind # "login"
      /\ com.pc = "install" => com.kind = "login"
  BY DEF SettingsInv, Installing, InContext
<1>3. None \notin Checksum
  BY SettingsAssumption
<1>4. VerifiedBinary'
  BY <1>1, <1>2, <1>3, VerifiedKept DEF SettingsInv, InContext
<1>5. Versioned'
  BY <1>2 DEF SettingsInv, Versioned, Moves
<1>6. com'.provider = com.provider /\ com'.copy.context = com.copy.context /\ com'.kind = com.kind
      /\ com'.version = com.version /\ com'.pc = l
  BY DEF Moves
<1>7. folder'[com'.copy.context][com'.provider] = g
  BY <1>6 DEF InContext
<1>8. Installing'
  BY <1>2, <1>6, <1>7 DEF Installing, InContext
<1>9. BinaryFirst'
  BY <1>6, <1>7 DEF BinaryFirst, InContext
<1> QED
  BY <1>4, <1>5, <1>8, <1>9 DEF SettingsInv, SettingsTypeOK, Folders, Moves

\* Every step of a command, its failures and a kill keep the invariant.
LEMMA SettingsInvNext == SettingsInv /\ [SettingsNext]_settingsVars => SettingsInv'
<1> SUFFICES ASSUME SettingsInv, [SettingsNext]_settingsVars PROVE SettingsInv'
  OBVIOUS
<1>t. /\ folder \in [Contexts -> [ProviderNames -> Folders]] /\ cache \in [Versions -> Binaries]
      /\ pro \in [Contexts -> ProviderNames \cup {None}]
      /\ IsFile(conf)
      /\ com = Idle \/ IsCommand(com)
      /\ Versioned /\ Installing /\ BinaryFirst /\ VerifiedBinary
  BY DEF SettingsInv, SettingsTypeOK, Folders
<1>i. com.pc # "none" \/ com.kind # "none" => IsCommand(com)
  BY <1>t DEF Idle
<1>c. IsCommand(com) =>
        /\ com.kind \in SettingsKinds /\ com.pc \in SettingsPcs
        /\ com.provider \in ProviderNames /\ com.version \in Versions \cup {None}
        /\ com.copy.context \in Contexts /\ com.override \in Contexts \cup {None}
        /\ com.overrideProvider \in {None, ProProvider} /\ IsCopy(com.copy)
  BY CommandMeans DEF IsCommand
<1>n. None \notin Checksum /\ Checksum \subseteq Versions /\ None \notin Versions
  BY SettingsAssumption
<1>1. ASSUME NEW context \in Contexts \cup {None}, NEW provider \in {None, ProProvider},
             \/ \E p \in ProviderNames, flag \in BOOLEAN, given \in BOOLEAN :
                  \/ \E kind \in {"add", "clone", "update"}, v \in Versions :
                        Begin(kind, context, provider, p, v, given, flag)
                  \/ \E kind \in {"use", "set"} :
                        Begin(kind, context, provider, p, folder[LoadConfig(context, provider).context][p].json, given, flag)
             \/ \E p \in ProviderNames, flag \in BOOLEAN : Begin("delete", context, provider, p, None, FALSE, flag)
             \/ \E v \in Versions, flag \in BOOLEAN : Begin("login", context, provider, ProProvider, v, FALSE, flag)
             \/ \E kind \in {"pro delete", "create context", "use context", "delete context", "set context", "use ide", "set ide"} :
                  Begin(kind, context, provider, ProProvider, None, FALSE, TRUE)
      PROVE  SettingsInv'
  <2>1. ASSUME NEW p \in ProviderNames, NEW flag \in BOOLEAN, NEW given,
               NEW kind \in {"add", "clone", "update"}, NEW v \in Versions,
               Begin(kind, context, provider, p, v, given, flag)
        PROVE  SettingsInv'
    BY <2>1, BeginKeeps DEF SettingsKinds
  <2>2. ASSUME NEW p \in ProviderNames, NEW flag \in BOOLEAN, NEW given, NEW kind \in {"use", "set"},
               Begin(kind, context, provider, p, folder[LoadConfig(context, provider).context][p].json, given, flag)
        PROVE  SettingsInv'
    <3> DEFINE copy == LoadConfig(context, provider)
    <3>1. IsCopy(copy)
      BY <1>t, LoadConfigMeans
    <3>2. copy.context \in Contexts
      BY <3>1 DEF IsCopy, CopyRecords
    <3> HIDE DEF copy
    <3>3. folder[copy.context][p] \in Folders
      BY <1>t, <3>2
    <3>4. folder[copy.context][p].json \in Versions \cup {None}
      BY <3>3 DEF Folders
    <3>5. kind \in SettingsKinds /\ kind \notin {"add", "clone", "update", "login"}
      BY DEF SettingsKinds
    <3> QED
      BY ZenonT(60), <2>2, <3>4, <3>5, BeginKeeps DEF copy
  <2>3. ASSUME NEW p \in ProviderNames, NEW flag \in BOOLEAN, Begin("delete", context, provider, p, None, FALSE, flag)
        PROVE  SettingsInv'
    BY <2>3, BeginKeeps DEF SettingsKinds
  <2>4. ASSUME NEW v \in Versions, NEW flag \in BOOLEAN, Begin("login", context, provider, ProProvider, v, FALSE, flag)
        PROVE  SettingsInv'
    <3>1. ProProvider \in ProviderNames /\ "login" \in SettingsKinds
      BY SettingsAssumption DEF SettingsKinds
    <3> QED
      BY <2>4, <3>1, BeginKeeps
  <2>5. ASSUME NEW kind \in {"pro delete", "create context", "use context", "delete context", "set context", "use ide", "set ide"},
               Begin(kind, context, provider, ProProvider, None, FALSE, TRUE)
        PROVE  SettingsInv'
    <3>1. TRUE \in BOOLEAN /\ kind \in SettingsKinds /\ kind \notin {"add", "clone", "update", "login"}
          /\ ProProvider \in ProviderNames
      BY SettingsAssumption DEF SettingsKinds
    <3> QED
      BY <2>5, <3>1, BeginKeeps
  <2> QED
    BY <1>1, <2>1, <2>2, <2>3, <2>4, <2>5
\* Commands that end, with or without a new config.yaml.
<1>2. CASE CommandReturns
  BY <1>2, <1>t, EndsKeeps DEF CommandReturns
<1>3. ASSUME NEW x, IsCopy(x), com' = Idle, conf' \in {conf, Saved(x)}, UNCHANGED <<folder, cache, pro, interrupted>>
      PROVE  SettingsInv'
  <2>1. IsFile(conf')
    BY <1>3, <1>t, SavedMeans
  <2> QED
    BY <1>3, <1>t, <2>1, EndsKeeps
<1>4. ASSUME NEW x, IsCopy(x), SaveAndReturn(x) PROVE SettingsInv'
  BY <1>3, <1>4 DEF SaveAndReturn
\* Steps that leave the folders.
<1>5. ASSUME IsCommand(com), NEW l \in SettingsPcs \ {"run", "download", "fetch", "save json", "install"},
             SettingsGoto(l), UNCHANGED <<folder, cache, interrupted>>,
             pro' \in [Contexts -> ProviderNames \cup {None}], IsFile(conf')
      PROVE  SettingsInv'
  <2>1. Moves(l)
    BY <1>5, GotoMeans DEF SettingsGoto
  <2> QED
    BY <1>5, <2>1, GoesOnKeeps DEF Moves
\* Resolving and installing a provider.
<1>6. CASE ResolveProvider
  <2>1. IsCommand(com) /\ SettingsGoto("parse") /\ UNCHANGED <<conf, folder, cache, pro, interrupted>>
    BY <1>6, <1>i DEF ResolveProvider, Running
  <2> QED
    BY <1>5, <1>t, <2>1 DEF SettingsPcs
<1>7. CASE StartInstall
  <2>1. /\ IsCommand(com) /\ SettingsGoto("download") /\ UNCHANGED <<conf, folder, cache, pro, interrupted>>
        /\ com.kind \in {"add", "clone"} /\ folder[com.copy.context][com.provider] = NoFolder
    BY <1>7, <1>i DEF StartInstall, Running, InContext
  <2>2. Moves("download")
    BY <2>1, GotoMeans DEF SettingsGoto, SettingsPcs
  <2>3. NoFolder.json = None
    BY DEF NoFolder
  <2>4. Versioned' /\ Installing' /\ BinaryFirst'
    BY <1>t, <2>1, <2>2, <2>3 DEF Moves, Versioned, Installing, BinaryFirst, InContext
  <2>5. VerifiedBinary'
    BY <1>t, <2>1 DEF VerifiedBinary
  <2> QED
    BY <1>t, <2>1, <2>2, <2>4, <2>5 DEF SettingsInv, SettingsTypeOK, Moves, Folders
<1>8. CASE StartUpdate
  <2>1. /\ IsCommand(com) /\ com.kind = "update" /\ UNCHANGED <<folder, cache, pro>>
        /\ interrupted' = interrupted \cup {<<InContext, com.provider>>}
        /\ conf' = Saved(com.copy) /\ SettingsGoto("download")
    BY <1>8, <1>i DEF StartUpdate, Running
  <2>2. Moves("download")
    BY <2>1, GotoMeans DEF SettingsGoto, SettingsPcs
  <2>4. IsFile(conf')
    BY <1>c, <2>1, SavedMeans
  <2>6. VerifiedBinary'
    BY <1>t, <2>1 DEF VerifiedBinary
  <2>7. Versioned' /\ Installing' /\ BinaryFirst'
    BY <1>t, <2>1, <2>2 DEF Moves, Versioned, Installing, BinaryFirst, InContext
  <2> QED
    BY <1>t, <2>1, <2>2, <2>4, <2>6, <2>7 DEF SettingsInv, SettingsTypeOK, Folders, Moves
<1>9. CASE HaveBinary
  <2>1. /\ IsCommand(com) /\ com.pc = "download" /\ SettingsGoto("save json")
        /\ VerifyBinary(folder[InContext][com.provider].binary, com.version)
        /\ UNCHANGED <<conf, folder, cache, pro, interrupted>>
    BY <1>9, <1>i DEF HaveBinary
  <2>2. Moves("save json")
    BY <2>1, GotoMeans DEF SettingsGoto, SettingsPcs
  <2>3. folder[InContext][com.provider] \in Folders
    BY <1>c, <1>t, <2>1 DEF InContext
  <2>4. com.version \in Checksum => folder[InContext][com.provider].binary = com.version
    BY <2>1 DEF VerifyBinary
  <2> QED
    BY <1>t, <2>1, <2>2, <2>3, <2>4, InstallKeeps
<1>10. ASSUME IsCommand(com), com.pc \in {"download", "fetch", "install"}, NEW b \in Binaries,
              NEW l \in {"fetch", "save json"}, SettingsGoto(l), com.pc = "install" => l = "save json",
              folder' = [folder EXCEPT ![InContext][com.provider].binary = b],
              cache' \in [Versions -> Binaries], UNCHANGED <<conf, pro, interrupted>>,
              l = "save json" /\ com.version \in Checksum => b = com.version
       PROVE  SettingsInv'
  <2> DEFINE g == [folder[InContext][com.provider] EXCEPT !.binary = b]
  <2>1. com.provider \in ProviderNames /\ InContext \in Contexts
    BY <1>10, <1>c DEF InContext
  <2>2. folder[InContext][com.provider] \in Folders
    BY <1>t, <2>1
  <2>3. g \in Folders /\ g.binary = b /\ g.json = folder[InContext][com.provider].json
    BY <1>10, <2>2 DEF Folders
  <2>4. folder' = [folder EXCEPT ![InContext][com.provider] = g]
    BY <1>10
  <2> HIDE DEF g
  <2>5. /\ folder' \in [Contexts -> [ProviderNames -> Folders]] /\ folder'[InContext][com.provider] = g
        /\ \A d \in Contexts, q \in ProviderNames :
              d # InContext \/ q # com.provider => folder'[d][q] = folder[d][q]
    BY <1>t, <2>1, <2>3, <2>4
  <2>6. Moves(l)
    BY <1>10, GotoMeans DEF SettingsGoto, SettingsPcs
  <2> QED
    BY <1>10, <2>3, <2>5, <2>6, InstallKeeps
<1>11. CASE FromCache
  <2>1. /\ IsCommand(com) /\ com.pc = "download" /\ com.kind \in {"add", "clone", "update"}
        /\ UNCHANGED <<conf, pro, interrupted>>
    BY <1>11, <1>i DEF FromCache
  <2>2. com.version \in Versions /\ cache[com.version] \in Binaries /\ None \in Binaries
    BY <1>t, <2>1 DEF Versioned, Binaries
  <2>3. CASE VerifyBinary(cache[com.version], com.version)
    <3>1. /\ folder' = [folder EXCEPT ![InContext][com.provider].binary = cache[com.version]]
          /\ SettingsGoto("save json") /\ cache' = cache
      BY <1>11, <2>3 DEF FromCache
    <3>2. com.version \in Checksum => cache[com.version] = com.version
      BY <2>3 DEF VerifyBinary
    <3> QED
      BY <1>t, <1>10, <2>1, <2>2, <3>1, <3>2
  <2>4. CASE ~VerifyBinary(cache[com.version], com.version)
    <3>1. /\ folder' = [folder EXCEPT ![InContext][com.provider].binary = None]
          /\ SettingsGoto("fetch") /\ cache' = [cache EXCEPT ![com.version] = None]
      BY <1>11, <2>4 DEF FromCache
    <3>2. cache' \in [Versions -> Binaries]
      BY <1>t, <2>2, <3>1
    <3> QED
      BY <1>10, <2>1, <2>2, <3>1, <3>2
  <2> QED
    BY <2>3, <2>4
<1>12. CASE Fetch
  <2>1. /\ IsCommand(com) /\ com.pc = "fetch" /\ SettingsGoto("save json") /\ UNCHANGED <<conf, pro, interrupted>>
        /\ folder' = [folder EXCEPT ![InContext][com.provider].binary = com.version]
        /\ cache' = [cache EXCEPT ![com.version] = com.version]
    BY <1>12, <1>i DEF Fetch
  <2>2. com.version \in Versions /\ com.version \in Binaries
    BY <1>t, <2>1 DEF Versioned, Installing, Binaries
  <2>3. cache' \in [Versions -> Binaries]
    BY <1>t, <2>1, <2>2
  <2> QED
    BY <1>10, <2>1, <2>2, <2>3
<1>13. CASE InstallBuiltIn
  <2>1. /\ IsCommand(com) /\ com.pc = "install" /\ SettingsGoto("save json") /\ UNCHANGED <<conf, cache, pro, interrupted>>
        /\ folder' = [folder EXCEPT ![InContext][com.provider].binary = com.version]
    BY <1>13, <1>i DEF InstallBuiltIn
  <2>2. com.version \in Binaries
    BY <1>t, <2>1 DEF Versioned, Installing, Binaries
  <2> QED
    BY <1>t, <1>10, <2>1, <2>2
<1>14. CASE FetchWrong
  <2>1. /\ IsCommand(com) /\ com.pc = "fetch" /\ UNCHANGED <<conf, folder, cache, pro, interrupted>>
        /\ com' = [com EXCEPT !.tries = com.tries + 1, !.pc = IF com.tries = 2 THEN "failed" ELSE "fetch"]
    BY <1>14, <1>i DEF FetchWrong
  <2>2. PICK l \in {"failed", "fetch"} : com' = [com EXCEPT !.tries = com.tries + 1, !.pc = l]
    BY <2>1
  <2>3. Moves(l)
    <3>1. PICK G, C, B : com \in CommandRecords(G, C, B)
      BY <2>1 DEF IsCommand
    <3>2. com.tries \in Nat /\ l \in SettingsPcs
      BY <3>1 DEF CommandRecords, SettingsPcs
    <3> DEFINE n == com.tries + 1
    <3>a. n \in Nat
      BY <3>2
    <3>3. com' = [com EXCEPT !.tries = n, !.pc = l]
      BY <2>2
    <3> HIDE DEF n
    <3>4. /\ com' \in CommandRecords(G, C, B) /\ com'.pc = l /\ com'.copy = com.copy
          /\ com'.kind = com.kind /\ com'.provider = com.provider /\ com'.version = com.version
      BY <3>1, <3>2, <3>3, <3>a DEF CommandRecords
    <3> QED
      BY <2>1, <3>4 DEF Moves, IsCommand
  <2>4. Versioned' /\ Installing' /\ BinaryFirst'
    BY <1>t, <2>1, <2>3 DEF Moves, Versioned, Installing, BinaryFirst, InContext
  <2>5. VerifiedBinary'
    BY <1>t, <2>1 DEF VerifiedBinary
  <2> QED
    BY <1>t, <2>1, <2>3, <2>4, <2>5 DEF SettingsInv, SettingsTypeOK, Moves, Folders
<1>15. CASE FetchFails
  <2>1. IsCommand(com) /\ SettingsGoto("failed") /\ UNCHANGED <<conf, folder, cache, pro, interrupted>>
    BY <1>15, <1>i DEF FetchFails
  <2> QED
    BY <1>5, <1>t, <2>1 DEF SettingsPcs
\* What is written or removed of the folder when a command ends or is killed.
<1>16. ASSUME IsCommand(com), com' = Idle, NEW g \in Folders,
              folder' = [folder EXCEPT ![InContext][com.provider] = g],
              cache' \in [Versions -> Binaries], UNCHANGED <<conf, pro, interrupted>>,
              \/ g.json = None \/ g.binary = None
              \/ g.json = folder[InContext][com.provider].json /\ <<InContext, com.provider>> \in interrupted
       PROVE  SettingsInv'
  <2>1. com.provider \in ProviderNames /\ InContext \in Contexts
    BY <1>16, <1>c DEF InContext
  <2>2. /\ folder' \in [Contexts -> [ProviderNames -> Folders]] /\ folder'[InContext][com.provider] = g
        /\ \A d \in Contexts, q \in ProviderNames :
              d # InContext \/ q # com.provider => folder'[d][q] = folder[d][q]
    BY <1>16, <1>t, <2>1
  <2>3. VerifiedBinary'
    BY <1>16, <1>n, <1>t, <2>1, <2>2, VerifiedKept
  <2>4. com'.kind = "none" /\ com'.pc = "none"
    BY <1>16 DEF Idle
  <2>5. Versioned' /\ Installing' /\ BinaryFirst'
    BY <2>4 DEF Versioned, Installing, BinaryFirst
  <2> QED
    BY <1>16, <1>t, <2>2, <2>3, <2>5 DEF SettingsInv, SettingsTypeOK, Folders
<1>17. CASE DownloadFailed
  <2> DEFINE old == folder[InContext][com.provider]
             g == IF com.kind = "update" THEN [old EXCEPT !.binary = None] ELSE NoFolder
  <2>1. /\ IsCommand(com) /\ com' = Idle /\ UNCHANGED <<conf, cache, pro, interrupted>>
    BY <1>17, <1>i DEF DownloadFailed
  <2>2. folder' = [folder EXCEPT ![InContext][com.provider] = g]
    BY <1>17 DEF DownloadFailed
  <2>3. old \in Folders
    BY <1>c, <1>t, <2>1 DEF InContext
  <2>4. g \in Folders /\ g.binary = None
    BY <2>3 DEF Folders, NoFolder, Binaries
  <2> HIDE DEF g
  <2> QED
    BY <1>t, <1>16, <2>1, <2>2, <2>4
<1>a. ASSUME IsCommand(com), com' = Idle, com.pc \in {"failed", "delete folder"}, PartRemoved,
             UNCHANGED <<conf, cache, pro, interrupted>>
      PROVE  SettingsInv'
  <2> DEFINE old == folder[InContext][com.provider]
  <2>1. old \in Folders /\ com.provider \in ProviderNames /\ InContext \in Contexts
    BY <1>a, <1>c, <1>t DEF InContext
  <2>2. PICK j \in {old.json, None}, b \in {old.binary, None} :
           folder' = [folder EXCEPT ![InContext][com.provider] = [json |-> j, binary |-> b]]
    BY <1>a DEF PartRemoved
  <2> DEFINE g == [json |-> j, binary |-> b]
  <2>3. g \in Folders /\ g.json = j /\ g.binary = b
    BY <2>1, <2>2 DEF Folders, Binaries
  <2>4. CASE j = None \/ b = None
    BY <1>16, <1>a, <1>t, <2>2, <2>3, <2>4
  <2>5. CASE j = old.json /\ b = old.binary
    <3>1. folder' = folder
      <4>1. g = old
        BY <2>1, <2>5 DEF Folders
      <4> QED
        BY <1>t, <2>1, <2>2, <4>1
    <3> QED
      BY <1>a, <1>t, <3>1, EndsKeeps
  <2> QED
    BY <2>2, <2>4, <2>5
<1>b. CASE WriteFails
  <2>1. IsCommand(com) /\ com' = Idle /\ UNCHANGED <<conf, cache, pro, interrupted>>
    BY <1>b, <1>i DEF WriteFails
  <2>2. CASE com.pc \in {"failed", "delete folder"}
    BY <1>a, <1>b, <2>1, <2>2 DEF WriteFails
  <2>3. CASE com.pc \notin {"failed", "delete folder"}
    <3>1. UNCHANGED folder
      BY <1>b, <2>3 DEF WriteFails
    <3> QED
      BY <1>t, <2>1, <3>1, EndsKeeps
  <2> QED
    BY <2>2, <2>3
<1>18. CASE KillCommand
  <2>1. IsCommand(com) /\ com' = Idle /\ UNCHANGED <<conf, pro, interrupted>>
    BY <1>18, <1>t DEF KillCommand
  <2>2. CASE UNCHANGED <<folder, cache>>
    BY <1>t, <2>1, <2>2, EndsKeeps
  <2>4. CASE com.pc \in {"failed", "delete folder"} /\ PartRemoved /\ UNCHANGED cache
    BY <1>a, <2>1, <2>4
  <2>3. CASE /\ com.pc \in {"download", "fetch"}
             /\ folder' = [folder EXCEPT ![InContext][com.provider].binary = "part"]
             /\ cache' \in {cache, [cache EXCEPT ![com.version] = "part"]}
    <3> DEFINE old == folder[InContext][com.provider]
               g == [old EXCEPT !.binary = "part"]
    <3>2. old \in Folders
      BY <1>c, <1>t, <2>1 DEF InContext
    <3>3. g \in Folders /\ g.json = old.json
      BY <3>2 DEF Folders, Binaries
    <3>4. folder' = [folder EXCEPT ![InContext][com.provider] = g]
      BY <2>3
    <3>5. cache' \in [Versions -> Binaries]
      BY <1>t, <2>3 DEF Binaries
    <3>6. g.json = None \/ <<InContext, com.provider>> \in interrupted
      BY <1>t, <2>3, <3>3 DEF Installing
    <3> HIDE DEF g
    <3> QED
      BY <1>16, <2>1, <3>3, <3>4, <3>5, <3>6
  <2> QED
    BY <1>18, <2>2, <2>3, <2>4 DEF KillCommand
<1>19. CASE SaveProviderConfig
  <2> DEFINE old == folder[InContext][com.provider]
             g == [old EXCEPT !.json = com.version]
             l == IF com.kind = "add" \/ com.kind = "login" THEN "save state" ELSE IF com.flag THEN "configure" ELSE "done"
  <2>1. /\ IsCommand(com) /\ com.pc = "save json" /\ UNCHANGED <<conf, cache, pro>>
        /\ interrupted' = interrupted \ {<<InContext, com.provider>>}
    BY <1>19, <1>i DEF SaveProviderConfig
  <2>2. com' = [com EXCEPT !.pc = l] /\ folder' = [folder EXCEPT ![InContext][com.provider] = g]
    BY <1>19 DEF SaveProviderConfig, SettingsGoto
  <2>3. l \in {"save state", "configure", "done"}
    OBVIOUS
  <2>4. com.provider \in ProviderNames /\ InContext \in Contexts /\ com.version \in Versions
    BY <1>c, <1>t, <2>1 DEF InContext, Versioned, Installing
  <2>5. old \in Folders
    BY <1>t, <2>4
  <2>6. g \in Folders /\ g.json = com.version /\ g.binary = old.binary
    BY <2>4, <2>5 DEF Folders
  <2>7. com.version \in Checksum => g.binary = g.json
    BY <1>t, <2>1, <2>6 DEF BinaryFirst
  <2> HIDE DEF g, l
  <2>8. Moves(l)
    BY <2>1, <2>2, <2>3, GotoMeans DEF SettingsPcs
  <2>9. /\ folder' \in [Contexts -> [ProviderNames -> Folders]] /\ folder'[InContext][com.provider] = g
        /\ \A d \in Contexts, q \in ProviderNames :
              d # InContext \/ q # com.provider => folder'[d][q] = folder[d][q]
    BY <1>t, <2>2, <2>4, <2>6
  <2>10. VerifiedBinary'
    BY <1>t, <2>1, <2>4, <2>6, <2>7, <2>9, VerifiedKept
  <2>11. Versioned' /\ Installing' /\ BinaryFirst'
    BY <1>t, <2>3, <2>8 DEF Moves, Versioned, Installing, BinaryFirst
  <2> QED
    BY <1>t, <2>1, <2>8, <2>9, <2>10, <2>11 DEF SettingsInv, SettingsTypeOK, Folders, Moves
<1>20. CASE DeleteFolder
  <2> DEFINE l == IF com.kind = "pro delete" THEN "delete pro" ELSE "done"
  <2>1. /\ IsCommand(com) /\ UNCHANGED <<conf, cache, pro>>
        /\ interrupted' = interrupted \ {<<InContext, com.provider>>}
        /\ folder' = [folder EXCEPT ![InContext][com.provider] = NoFolder]
        /\ com' = [com EXCEPT !.pc = l]
    BY <1>20, <1>i DEF DeleteFolder, SettingsGoto
  <2>2. l \in {"delete pro", "done"}
    OBVIOUS
  <2>3. com.provider \in ProviderNames /\ InContext \in Contexts
    BY <1>c, <2>1 DEF InContext
  <2>4. NoFolder \in Folders /\ NoFolder.json = None
    BY DEF NoFolder, Folders, Binaries
  <2> HIDE DEF l
  <2>5. Moves(l)
    BY <2>1, <2>2, GotoMeans DEF SettingsPcs
  <2>6. /\ folder' \in [Contexts -> [ProviderNames -> Folders]] /\ folder'[InContext][com.provider] = NoFolder
        /\ \A d \in Contexts, q \in ProviderNames :
              d # InContext \/ q # com.provider => folder'[d][q] = folder[d][q]
    BY <1>t, <2>1, <2>3, <2>4
  <2>7. VerifiedBinary'
    <3>1. folder'[InContext][com.provider].json \notin Checksum
      BY <1>n, <2>4, <2>6
    <3>2. interrupted' \in {interrupted, interrupted \cup {<<InContext, com.provider>>},
                            interrupted \ {<<InContext, com.provider>>}}
      BY <2>1
    <3>3. folder'[InContext][com.provider].json \in Checksum /\ <<InContext, com.provider>> \notin interrupted'
              => folder'[InContext][com.provider].binary \in {folder'[InContext][com.provider].json, None}
      BY <3>1
    <3>4. VerifiedBinary
      BY <1>t
    <3> QED
      BY <2>3, <2>6, <3>2, <3>3, <3>4, VerifiedKept
  <2>8. Versioned' /\ Installing' /\ BinaryFirst'
    BY <1>t, <2>2, <2>5 DEF Moves, Versioned, Installing, BinaryFirst
  <2> QED
    BY <1>t, <2>1, <2>5, <2>6, <2>7, <2>8 DEF SettingsInv, SettingsTypeOK, Folders, Moves
\* Steps that write config.yaml from a changed copy.
<1>21. ASSUME IsCommand(com), NEW x, IsCopy(x), x.context = com.copy.context, conf' = Saved(x),
              NEW l \in SettingsPcs \ {"run", "download", "fetch", "save json", "install"},
              com' = [com EXCEPT !.copy = x, !.pc = l], UNCHANGED <<folder, cache, pro, interrupted>>
       PROVE  SettingsInv'
  <2>1. IsCommand(com') /\ com'.pc = l /\ com'.kind = com.kind /\ com'.version = com.version
    BY <1>21, GotoWithCopy
  <2>2. IsFile(conf')
    BY <1>21, SavedMeans
  <2> QED
    BY <1>21, <1>t, <2>1, <2>2, GoesOnKeeps
<1>22. CASE SaveState
  <2> DEFINE ctx == [com.copy.contexts EXCEPT ![InContext].states =
                        PutAt(@, com.provider, [init |-> FALSE])]
             x == [com.copy EXCEPT !.contexts = ctx]
             l == IF com.kind = "login" THEN "save pro" ELSE IF com.flag THEN "configure" ELSE "done"
  <2>1. IsCommand(com) /\ UNCHANGED <<folder, cache, pro, interrupted>>
    BY <1>22, <1>i DEF SaveState
  <2>2. conf' = Saved(x) /\ com' = [com EXCEPT !.copy = x, !.pc = l]
    BY <1>22 DEF SaveState
  <2>3. l \in {"save pro", "configure", "done"}
    OBVIOUS
  <2>h. HasStates(ctx)
    BY <1>c, <2>1 DEF IsCopy, HasStates
  <2> HIDE DEF ctx, l
  <2>4. IsCopy(x) /\ x.context = com.copy.context
    BY <1>c, <2>1, <2>h, CopyChanged
  <2> HIDE DEF x
  <2> QED
    BY <1>21, <2>1, <2>2, <2>3, <2>4 DEF SettingsPcs
<1>23. CASE Use
  <2>1. IsCommand(com) /\ UNCHANGED <<folder, cache, pro, interrupted>>
    BY <1>23, <1>i DEF Use, Running
  <2> DEFINE ctx == [com.copy.contexts EXCEPT ![InContext].provider = com.provider]
             x == [com.copy EXCEPT !.contexts = ctx]
  <2>2. \/ SettingsGoto("configure") /\ UNCHANGED conf
        \/ conf' = Saved(x) /\ com' = Idle
    BY <1>23 DEF Use
  <2>h. HasStates(ctx)
    BY <1>c, <2>1 DEF IsCopy, HasStates
  <2> HIDE DEF ctx
  <2>3. IsCopy(x)
    BY <1>c, <2>1, <2>h, CopyChanged
  <2> HIDE DEF x
  <2>4. CASE SettingsGoto("configure") /\ UNCHANGED conf
    BY <1>5, <1>t, <2>1, <2>4 DEF SettingsPcs
  <2>5. CASE conf' = Saved(x) /\ com' = Idle
    BY <1>3, <2>1, <2>3, <2>5
  <2> QED
    BY <2>2, <2>4, <2>5
<1>24. CASE SetOptions
  <2>1. IsCommand(com) /\ SettingsGoto("configure") /\ UNCHANGED <<conf, folder, cache, pro, interrupted>>
    BY <1>24, <1>i DEF SetOptions, Running
  <2> QED
    BY <1>5, <1>t, <2>1 DEF SettingsPcs
<1>25. CASE ConfigureProvider
  <2> DEFINE copy == LoadConfig(InContext, None)
             ctx == [copy.contexts EXCEPT ![InContext].states = Configured(copy)]
             states == [copy EXCEPT !.contexts = ctx]
             ctx2 == [states.contexts EXCEPT ![InContext].provider = com.provider]
             states2 == [states EXCEPT !.contexts = ctx2]
  <2>1. IsCommand(com) /\ com' = Idle /\ UNCHANGED <<folder, cache, pro, interrupted>>
    BY <1>25, <1>i DEF ConfigureProvider
  <2>2. conf' = Saved(IF com.kind = "set" THEN states ELSE states2)
    BY <1>25 DEF ConfigureProvider
  <2>3. IsCopy(copy)
    BY <1>c, <1>t, <2>1, LoadConfigMeans DEF InContext
  <2> HIDE DEF copy
  <2>h. HasStates(ctx)
    BY <2>3 DEF IsCopy, HasStates
  <2> HIDE DEF ctx
  <2>4. IsCopy(states)
    BY <2>3, <2>h, CopyChanged
  <2> HIDE DEF states
  <2>g. HasStates(ctx2)
    BY <2>4 DEF IsCopy, HasStates
  <2> HIDE DEF ctx2
  <2>5. IsCopy(states2)
    BY <2>4, <2>g, CopyChanged
  <2> HIDE DEF states2
  <2>6. CASE com.kind = "set"
    BY <1>3, <2>1, <2>2, <2>4, <2>6
  <2>7. CASE com.kind # "set"
    BY <1>3, <2>1, <2>2, <2>5, <2>7
  <2> QED
    BY <2>6, <2>7
<1>26. CASE ConfigureFails
  <2>1. IsCommand(com) /\ UNCHANGED <<conf, folder, cache, pro, interrupted>>
    BY <1>26, <1>i DEF ConfigureFails
  <2>2. \/ com' = Idle
        \/ com' = [com EXCEPT !.pc = "delete", !.copy = LoadConfig(com.override, None)]
    BY <1>26 DEF ConfigureFails
  <2>3. CASE com' = Idle
    BY <1>t, <2>1, <2>3, EndsKeeps
  <2>4. CASE com' = [com EXCEPT !.pc = "delete", !.copy = LoadConfig(com.override, None)]
    <3> DEFINE y == LoadConfig(com.override, None)
    <3>1. IsCopy(y)
      BY <1>c, <1>t, <2>1, LoadConfigMeans
    <3>2. com' = [com EXCEPT !.pc = "delete", !.copy = y]
      BY <2>4
    <3> HIDE DEF y
    <3>3. IsCommand(com') /\ com'.pc = "delete" /\ com'.kind = com.kind /\ com'.version = com.version
      BY <2>1, <3>1, <3>2, GotoWithCopy DEF SettingsPcs
    <3> QED
      BY <1>t, <2>1, <3>3, GoesOnKeeps DEF SettingsPcs
  <2> QED
    BY <2>2, <2>3, <2>4
<1>27. CASE DeleteProviderConfig
  <2> DEFINE ctx1 == [com.copy.contexts EXCEPT ![InContext].provider = IF @ = com.provider THEN None ELSE @]
             x1 == [com.copy EXCEPT !.contexts = ctx1]
             ctx2 == [x1.contexts EXCEPT ![InContext].states = Without(@, com.provider)]
             x2 == [x1 EXCEPT !.contexts = ctx2]
  <2>1. IsCommand(com) /\ SettingsGoto("delete folder") /\ UNCHANGED <<folder, cache, pro, interrupted>>
    BY <1>27, <1>i DEF DeleteProviderConfig
  <2>2. conf' = Saved(x2)
    BY <1>27 DEF DeleteProviderConfig
  <2>h. HasStates(ctx1)
    BY <1>c, <2>1 DEF IsCopy, HasStates
  <2> HIDE DEF ctx1
  <2>3. IsCopy(x1)
    BY <1>c, <2>1, <2>h, CopyChanged
  <2> HIDE DEF x1
  <2>g. HasStates(ctx2)
    BY <2>3 DEF IsCopy, HasStates
  <2> HIDE DEF ctx2
  <2>4. IsCopy(x2)
    BY <2>3, <2>g, CopyChanged
  <2> HIDE DEF x2
  <2>5. IsFile(conf')
    BY <2>2, <2>4, SavedMeans
  <2> QED
    BY <1>5, <1>t, <2>1, <2>5 DEF SettingsPcs
<1>28. CASE DeleteProvider
  <2>1. IsCommand(com) /\ (com' = Idle \/ SettingsGoto("delete")) /\ UNCHANGED <<conf, folder, cache, pro, interrupted>>
    BY <1>28, <1>i DEF DeleteProvider, Running
  <2>2. CASE com' = Idle
    BY <1>t, <2>1, <2>2, EndsKeeps
  <2>3. CASE SettingsGoto("delete")
    BY <1>5, <1>t, <2>1, <2>3 DEF SettingsPcs
  <2> QED
    BY <2>1, <2>2, <2>3
<1>29. CASE Login
  <2>1. /\ IsCommand(com) /\ com.kind = "login" /\ com.pc = "run"
        /\ UNCHANGED <<conf, folder, cache, pro, interrupted>>
    BY <1>29, <1>i DEF Login, Running
  <2>2. PICK G, C, B : com \in CommandRecords(G, C, B)
    BY <2>1 DEF IsCommand
  <2>3. CASE com' = Idle
    BY <1>t, <2>1, <2>3, EndsKeeps
  <2>4. ASSUME pro[InContext] # None,
               com' = [com EXCEPT !.provider = pro[InContext], !.pc = "configure",
                                  !.version = folder[InContext][pro[InContext]].json]
        PROVE  SettingsInv'
    <3>1. InContext \in Contexts /\ pro[InContext] \in ProviderNames
      BY <1>c, <1>t, <2>1, <2>4 DEF InContext
    <3>2. folder[InContext][pro[InContext]] \in Folders
      BY <1>t, <3>1
    <3>3. folder[InContext][pro[InContext]].json \in Versions \cup {None}
      BY <3>2 DEF Folders
    <3>4. com' \in CommandRecords(G, C, B) /\ com'.pc = "configure" /\ com'.kind = com.kind /\ com'.copy = com.copy
      BY <2>2, <2>4, <3>1, <3>3 DEF CommandRecords, SettingsPcs
    <3>5. IsCommand(com')
      BY <2>1, <3>4 DEF IsCommand
    <3> QED
      BY <1>t, <2>1, <3>4, <3>5, GoesOnKeeps DEF SettingsPcs
  <2>5. ASSUME NEW name \in {ProProvider, AltProvider}, folder[InContext][name] = NoFolder,
               com' = [com EXCEPT !.provider = name, !.pc = "install"]
        PROVE  SettingsInv'
    <3>1. name \in ProviderNames
      BY SettingsAssumption
    <3>2. /\ com' \in CommandRecords(G, C, B) /\ com'.pc = "install" /\ com'.kind = com.kind /\ com'.copy = com.copy
          /\ com'.provider = name /\ com'.version = com.version
      BY <2>2, <2>5, <3>1 DEF CommandRecords, SettingsPcs
    <3>3. IsCommand(com')
      BY <2>1, <3>2 DEF IsCommand
    <3>4. NoFolder.json = None
      BY DEF NoFolder
    <3>5. Versioned' /\ BinaryFirst'
      BY <1>t, <2>1, <3>2 DEF Versioned, BinaryFirst
    <3>6. Installing'
      BY <2>1, <2>5, <3>2, <3>4 DEF Installing, InContext
    <3>7. VerifiedBinary'
      BY <1>t, <2>1 DEF VerifiedBinary
    <3> QED
      BY <1>t, <2>1, <3>3, <3>5, <3>6, <3>7 DEF SettingsInv, SettingsTypeOK, Folders
  <2>6. CASE pro[InContext] # None
    <3>1. \/ com' = Idle
          \/ com' = [com EXCEPT !.provider = pro[InContext], !.pc = "configure",
                                !.version = folder[InContext][pro[InContext]].json]
      BY <1>29, <2>6 DEF Login
    <3> QED
      BY <2>3, <2>4, <2>6, <3>1
  <2>7. CASE pro[InContext] = None
    <3> DEFINE name == IF folder[InContext][ProProvider].json = None THEN ProProvider ELSE AltProvider
    <3>1. \/ com' = Idle
          \/ folder[InContext][name] = NoFolder /\ com' = [com EXCEPT !.provider = name, !.pc = "install"]
      BY <1>29, <2>7 DEF Login
    <3>2. name \in {ProProvider, AltProvider}
      OBVIOUS
    <3> HIDE DEF name
    <3> QED
      BY <2>3, <2>5, <3>1, <3>2
  <2> QED
    BY <2>6, <2>7
<1>30. CASE SaveProInstance
  <2> DEFINE l == IF com.flag THEN "configure" ELSE "done"
  <2>1. IsCommand(com) /\ UNCHANGED <<conf, folder, cache, interrupted>> /\ SettingsGoto(l)
        /\ pro' = [pro EXCEPT ![InContext] = com.provider]
    BY <1>30, <1>i DEF SaveProInstance
  <2>2. l \in {"configure", "done"}
    OBVIOUS
  <2>3. pro' \in [Contexts -> ProviderNames \cup {None}]
    BY <1>c, <1>t, <2>1
  <2> HIDE DEF l
  <2> QED
    BY <1>5, <1>t, <2>1, <2>2, <2>3 DEF SettingsPcs
<1>31. CASE ProDelete
  <2>1. IsCommand(com) /\ UNCHANGED <<conf, folder, cache, pro, interrupted>>
    BY <1>31, <1>i DEF ProDelete, Running
  <2>2. CASE com' = Idle
    BY <1>t, <2>1, <2>2, EndsKeeps
  <2>3. CASE com' # Idle
    <3>1. pro[InContext] # None /\ com' = [com EXCEPT !.provider = pro[InContext], !.pc = "delete"]
      BY <1>31, <2>3 DEF ProDelete
    <3>2. pro[InContext] \in ProviderNames
      BY <1>c, <1>t, <2>1, <3>1 DEF InContext
    <3>3. PICK G, C, B : com \in CommandRecords(G, C, B)
      BY <2>1 DEF IsCommand
    <3>4. com' \in CommandRecords(G, C, B) /\ com'.pc = "delete" /\ com'.kind = com.kind /\ com'.copy = com.copy
          /\ com'.version = com.version
      BY <3>1, <3>2, <3>3 DEF CommandRecords, SettingsPcs
    <3>5. IsCommand(com')
      BY <2>1, <3>4 DEF IsCommand
    <3> QED
      BY <1>t, <2>1, <3>4, <3>5, GoesOnKeeps DEF SettingsPcs
  <2> QED
    BY <2>2, <2>3
<1>32. CASE ProDeleteInstance
  <2>1. com' = Idle /\ UNCHANGED <<conf, folder, cache, interrupted>>
        /\ pro' = [pro EXCEPT ![InContext] = None]
    BY <1>32 DEF ProDeleteInstance
  <2>2. pro' \in [Contexts -> ProviderNames \cup {None}]
    BY <1>t, <2>1
  <2> QED
    BY <1>t, <2>1, <2>2, EndsKeeps
\* The context and ide commands.
<1>33. ASSUME IsCommand(com) PROVE IsCopy(Plain) /\ Argument \in Contexts
  <2>1. Argument \in Contexts
    BY <1>33, <1>c, SettingsAssumption DEF Argument, Or
  <2>2. IsCopy(Plain)
    BY <1>33, <1>c, <1>t, LoadConfigMeans DEF Plain
  <2> QED
    BY <2>1, <2>2
<1>34. CASE CreateContext
  <2> DEFINE x == [Plain EXCEPT !.contexts = PutAt(Plain.contexts, Argument, NoContext)]
             y == [x EXCEPT !.context = Argument]
  <2>1. IsCommand(com) /\ (CommandReturns \/ SaveAndReturn(y))
    BY <1>34, <1>i DEF CreateContext, Running
  <2>h. HasStates(PutAt(Plain.contexts, Argument, NoContext))
    BY <1>33, <2>1, ContextChanged DEF IsCopy
  <2>2. IsCopy(x)
    BY <1>33, <2>1, <2>h, CopyChanged
  <2> HIDE DEF x
  <2>3. IsCopy(y)
    BY <1>33, <2>1, <2>2, CopyMoved
  <2> HIDE DEF y
  <2> QED
    BY <1>2, <1>4, <2>1, <2>3
<1>35. CASE UseContext
  <2> DEFINE y == [Plain EXCEPT !.context = Argument]
  <2>1. IsCommand(com) /\ (CommandReturns \/ SaveAndReturn(y))
    BY <1>35, <1>i DEF UseContext, Running
  <2>2. IsCopy(y)
    BY <1>33, <2>1, CopyMoved
  <2> HIDE DEF y
  <2> QED
    BY <1>2, <1>4, <2>1, <2>2
<1>36. CASE DeleteContext
  <2> DEFINE x == [com.copy EXCEPT !.contexts = Without(com.copy.contexts, InContext)]
             y == [x EXCEPT !.context = DefaultContext]
             o == IF y.originalContext = InContext THEN DefaultContext ELSE y.originalContext
             z == [y EXCEPT !.originalContext = o]
  <2>1. IsCommand(com) /\ (CommandReturns \/ SaveAndReturn(z))
    BY <1>36, <1>i DEF DeleteContext, Running
  <2>h. HasStates(Without(com.copy.contexts, InContext))
    BY <1>c, <2>1, ContextChanged DEF IsCopy
  <2>2. IsCopy(x)
    BY <1>c, <2>1, <2>h, CopyChanged
  <2> HIDE DEF x
  <2>3. IsCopy(y)
    BY <2>2, CopyMoved, SettingsAssumption
  <2> HIDE DEF y
  <2>4. PICK P, O, S : y \in CopyRecords(P, O, S)
    BY <2>3 DEF IsCopy
  <2>5. o \in Contexts \cup {None}
    BY <2>4, SettingsAssumption DEF CopyRecords
  <2> HIDE DEF o
  <2>6. z \in CopyRecords(P, O, S) /\ z.contexts = y.contexts
    BY <2>4, <2>5 DEF CopyRecords
  <2>7. IsCopy(z)
    BY <2>3, <2>6 DEF IsCopy
  <2> HIDE DEF z
  <2> QED
    BY <1>2, <1>4, <2>1, <2>7
<1>37. CASE SetContextOptions
  BY <1>2, <1>4, <1>33, <1>37, <1>i DEF SetContextOptions, Running
<1>38. CASE UseIde
  BY <1>4, <1>c, <1>38, <1>i DEF UseIde, Running
<1>39. CASE SetIdeOptions
  BY <1>4, <1>c, <1>39, <1>i DEF SetIdeOptions, Running
<1>40. CASE UNCHANGED settingsVars
  <2>1. UNCHANGED <<conf, folder, cache, pro, com, interrupted>>
    BY <1>40 DEF settingsVars
  <2>2. Versioned' /\ Installing' /\ BinaryFirst' /\ VerifiedBinary'
    BY <1>t, <2>1 DEF Versioned, Installing, BinaryFirst, VerifiedBinary, InContext
  <2> QED
    BY <1>t, <2>1, <2>2 DEF SettingsInv, SettingsTypeOK, Folders
<1>41. CASE ResolveProviderFails \/ InvalidProvider \/ Refused \/ Done
  BY <1>2, <1>41 DEF ResolveProviderFails, InvalidProvider, Refused, Done
<1> QED
  BY <1>1, <1>6, <1>7, <1>8, <1>9, <1>11, <1>12, <1>13, <1>14, <1>15, <1>17, <1>18, <1>19, <1>20, <1>22, <1>23,
     <1>24, <1>25, <1>26, <1>27, <1>28, <1>29, <1>30, <1>31, <1>32, <1>34, <1>35, <1>36, <1>37, <1>38, <1>39,
     <1>40, <1>41, <1>b DEF SettingsNext

\* The invariant holds in every reachable state.
LEMMA SettingsInvAlways == SettingsSpec => []SettingsInv
  BY SettingsInvInit, SettingsInvNext, PTL DEF SettingsSpec

\* A provider whose version gives a checksum never has another binary, for any number of
\* contexts, providers, versions, commands and faults: except one whose update was cut off.
THEOREM VerifiedBinaryHolds == SettingsSpec => []VerifiedBinary
  BY SettingsInvAlways, PTL DEF SettingsInv


-----------------------------------------------------------------------------
(* A provider add that fails *)

\* In config.yaml, or in a copy of it, context d has a state of provider q.
Has(f, d, q) == d \in DOMAIN f.contexts /\ q \in DOMAIN f.contexts[d].states

SameStates(f, g) == \A d \in Contexts, q \in ProviderNames : Has(f, d, q) <=> Has(g, d, q)

\* The same but for provider p of context c.
OtherStates(f, g, c, p) ==
    \A d \in Contexts, q \in ProviderNames : d # c \/ q # p => (Has(f, d, q) <=> Has(g, d, q))

OtherFolders(f, g, c, p) ==
    \A d \in Contexts, q \in ProviderNames : d # c \/ q # p => f[d][q] = g[d][q]

BeforeSave == {"run", "parse", "download", "fetch", "failed", "save json", "save state"}
WithFolder == {"download", "fetch", "failed", "save json", "save state", "configure", "delete", "delete folder"}

\* The context of the copy is the one that a new copy would have.
SameContext ==
    com.pc \in BeforeSave \cup {"configure"} =>
        /\ InContext = Or(com.override, Or(conf.context, DefaultContext))
        /\ com.override = None => com.copy.originalContext = None

\* Where the states are those before the command, where the provider's own may be there as well,
\* and where they are those before the command again.
StatesThen ==
    /\ com.pc \in BeforeSave =>
          SameStates(conf, com.before.conf) /\ SameStates(com.copy, com.before.conf)
    /\ com.pc \in {"configure", "delete"} => OtherStates(conf, com.before.conf, InContext, com.provider)
    /\ com.pc = "delete" => SameStates(com.copy, conf)
    /\ com.pc = "delete folder" \/ (com.pc = "done" /\ com.flag) => SameStates(conf, com.before.conf)

\* The same for the folders.
FoldersThen ==
    /\ com.before.folder \in [Contexts -> [ProviderNames -> Folders]]
    /\ com.pc \in {"run", "parse"} \/ (com.pc = "done" /\ com.flag) => folder = com.before.folder
    /\ com.pc \in WithFolder =>
          /\ com.before.folder[InContext][com.provider] = NoFolder
          /\ ~Has(com.before.conf, InContext, com.provider)
          /\ OtherFolders(folder, com.before.folder, InContext, com.provider)

AddPlaces == com.pc \in BeforeSave \cup WithFolder \cup {"done"}

Adding == com.kind \in {"add", "clone"}

\* What `provider add` and the copy of a provider have changed so far.
AddInv == SettingsInv /\ (Adding => SameContext /\ StatesThen /\ FoldersThen /\ AddPlaces)

\* LoadConfig reads the states of the file.
LEMMA LoadConfigStates ==
    ASSUME IsFile(conf), NEW c, NEW p
    PROVE  /\ SameStates(LoadConfig(c, p), conf)
           /\ LoadConfig(c, p).context = Or(c, Or(conf.context, DefaultContext))
           /\ c = None => LoadConfig(c, p).originalContext = None
<1> DEFINE now == Or(c, Or(conf.context, DefaultContext))
           all == IF now \in DOMAIN conf.contexts THEN conf.contexts ELSE PutAt(conf.contexts, now, NoContext)
           v == Or(p, all[now].provider)
           cs == [all EXCEPT ![now].provider = v]
<1>1. /\ LoadConfig(c, p).contexts = cs /\ LoadConfig(c, p).context = now
      /\ c = None => LoadConfig(c, p).originalContext = None
  BY DEF LoadConfig
<1> HIDE DEF now, v
<1>2. ASSUME NEW d, NEW q
      PROVE  d \in DOMAIN all /\ q \in DOMAIN all[d].states <=> Has(conf, d, q)
  BY DEF Has, PutAt, NoContext
<1>3. HasStates(all)
  BY ContextChanged DEF IsFile
<1> HIDE DEF all
<1>4. ASSUME NEW d, NEW q
      PROVE  d \in DOMAIN cs /\ q \in DOMAIN cs[d].states <=> d \in DOMAIN all /\ q \in DOMAIN all[d].states
  BY <1>3 DEF HasStates
<1> HIDE DEF cs
<1>5. SameStates(LoadConfig(c, p), conf)
  BY <1>1, <1>2, <1>4 DEF SameStates, Has
<1> QED
  BY <1>1, <1>5 DEF now

\* SaveConfig writes the states of the copy.
LEMMA SavedStates ==
    ASSUME NEW x, HasStates(x.contexts)
    PROVE  SameStates(Saved(x), x)
<1> DEFINE c == Or(x.originalContext, x.context)
           v == Or(x.originalProvider, x.contexts[c].provider)
           cs == IF x.overridden = c THEN [x.contexts EXCEPT ![c].provider = v] ELSE x.contexts
<1>1. Saved(x).contexts = cs
  BY DEF Saved
<1> HIDE DEF c, v
<1>2. ASSUME NEW d, NEW q
      PROVE  d \in DOMAIN cs /\ q \in DOMAIN cs[d].states
                 <=> d \in DOMAIN x.contexts /\ q \in DOMAIN x.contexts[d].states
  BY DEF HasStates
<1> HIDE DEF cs
<1> QED
  BY <1>1, <1>2 DEF SameStates, Has

\* Without the folder that came to them the folders are as they were.
LEMMA FolderBack ==
    ASSUME NEW f \in [Contexts -> [ProviderNames -> Folders]], NEW g \in [Contexts -> [ProviderNames -> Folders]],
           NEW c \in Contexts, NEW p \in ProviderNames, g[c][p] = NoFolder, OtherFolders(f, g, c, p)
    PROVE  [f EXCEPT ![c][p] = NoFolder] = g
<1> DEFINE h == [f EXCEPT ![c][p] = NoFolder]
<1>1. h = [d \in Contexts |-> IF d = c THEN [f[c] EXCEPT ![p] = NoFolder] ELSE f[d]]
  OBVIOUS
<1>2. ASSUME NEW d \in Contexts PROVE h[d] = g[d]
  <2>1. g[d] \in [ProviderNames -> Folders] /\ f[d] \in [ProviderNames -> Folders]
    OBVIOUS
  <2>2. DOMAIN h[d] = ProviderNames /\ h[d] = [q \in ProviderNames |-> h[d][q]]
    BY <1>1, <2>1
  <2>3. \A q \in ProviderNames : h[d][q] = g[d][q]
    BY <1>1, <2>1 DEF OtherFolders
  <2> QED
    BY <2>1, <2>2, <2>3
<1> QED
  BY <1>1, <1>2

\* A command keeps what it was given and remembers.
LEMMA GotoKeeps ==
    ASSUME IsCommand(com), NEW l, com' = [com EXCEPT !.pc = l]
    PROVE  /\ com'.pc = l /\ com'.kind = com.kind /\ com'.provider = com.provider /\ com'.flag = com.flag
           /\ com'.override = com.override /\ com'.before = com.before /\ com'.copy = com.copy
<1>1. PICK G, C, B : com \in CommandRecords(G, C, B)
  BY DEF IsCommand
<1> QED
  BY <1>1 DEF CommandRecords

\* The same with another copy.
LEMMA GotoCopyKeeps ==
    ASSUME IsCommand(com), NEW l, NEW y,
           \/ com' = [com EXCEPT !.copy = y, !.pc = l]
           \/ com' = [com EXCEPT !.pc = l, !.copy = y]
    PROVE  /\ com'.pc = l /\ com'.kind = com.kind /\ com'.provider = com.provider /\ com'.flag = com.flag
           /\ com'.override = com.override /\ com'.before = com.before /\ com'.copy = y
<1>1. PICK G, C, B : com \in CommandRecords(G, C, B)
  BY DEF IsCommand
<1> QED
  BY <1>1 DEF CommandRecords

\* Nothing runs at first.
LEMMA AddInvInit == SettingsInit => AddInv
<1> SUFFICES ASSUME SettingsInit PROVE AddInv
  OBVIOUS
<1>1. com.kind = "none"
  BY DEF SettingsInit, Idle
<1> QED
  BY <1>1, SettingsInvInit DEF AddInv, Adding

\* A new command remembers the state it finds.
LEMMA AddBegins ==
    ASSUME SettingsInv, NEW kind, NEW context, NEW provider, NEW p, NEW v, NEW given, NEW flag,
           Begin(kind, context, provider, p, v, given, flag)
    PROVE  Adding' => SameContext' /\ StatesThen' /\ FoldersThen' /\ AddPlaces'
<1> DEFINE copy == LoadConfig(context, provider)
           before == IF kind \in {"add", "clone"} THEN [conf |-> conf, folder |-> folder] ELSE None
<1>1. com' = [kind |-> kind, override |-> context, overrideProvider |-> provider, provider |-> p, version |-> v,
              given |-> given, flag |-> flag, copy |-> copy, pc |-> "run", tries |-> 0, before |-> before]
  BY DEF Begin
<1>2. IsFile(conf) /\ folder \in [Contexts -> [ProviderNames -> Folders]]
  BY DEF SettingsInv, SettingsTypeOK, Folders
<1>3. /\ SameStates(copy, conf) /\ copy.context = Or(context, Or(conf.context, DefaultContext))
      /\ context = None => copy.originalContext = None
  BY <1>2, LoadConfigStates
<1>4. kind \in {"add", "clone"} => before.conf = conf /\ before.folder = folder
  OBVIOUS
<1> HIDE DEF copy, before
<1>5. /\ com'.kind = kind /\ com'.override = context /\ com'.copy = copy /\ com'.pc = "run" /\ com'.before = before
  BY <1>1
<1>6. UNCHANGED <<conf, folder>>
  BY DEF Begin
<1>7. SUFFICES ASSUME kind \in {"add", "clone"} PROVE SameContext' /\ StatesThen' /\ FoldersThen' /\ AddPlaces'
  BY <1>5 DEF Adding
<1>8. SameContext'
  BY <1>3, <1>5, <1>6 DEF SameContext, InContext
<1>9. StatesThen'
  BY <1>3, <1>4, <1>5, <1>6, <1>7 DEF StatesThen, SameStates, Has
<1>10. FoldersThen'
  BY <1>2, <1>4, <1>5, <1>6, <1>7 DEF FoldersThen, WithFolder
<1>11. AddPlaces'
  BY <1>5 DEF AddPlaces, BeforeSave
<1> QED
  BY <1>8, <1>9, <1>10, <1>11

\* A step that changes the provider's own folder at most and does not save config.yaml.
LEMMA AddGoesOn ==
    ASSUME AddInv, Adding, IsCommand(com), com.pc \in BeforeSave \cap WithFolder,
           com'.pc \in BeforeSave \cap WithFolder, UNCHANGED conf,
           com'.kind = com.kind, com'.provider = com.provider, com'.flag = com.flag,
           com'.override = com.override, com'.before = com.before, com'.copy = com.copy,
           \A d \in Contexts, q \in ProviderNames :
               d # InContext \/ q # com.provider => folder'[d][q] = folder[d][q]
    PROVE  SameContext' /\ StatesThen' /\ FoldersThen' /\ AddPlaces'
<1>1. SameContext /\ StatesThen /\ FoldersThen
  BY DEF AddInv
<1>2. SameContext'
  BY <1>1 DEF SameContext, InContext
<1>3. StatesThen'
  BY <1>1 DEF StatesThen, SameStates, Has, BeforeSave, WithFolder
<1>4. FoldersThen'
  <2>1. /\ com.before.folder \in [Contexts -> [ProviderNames -> Folders]]
        /\ com.before.folder[InContext][com.provider] = NoFolder
        /\ ~Has(com.before.conf, InContext, com.provider)
        /\ OtherFolders(folder, com.before.folder, InContext, com.provider)
    BY <1>1 DEF FoldersThen
  <2>2. InContext' = InContext
    BY DEF InContext
  <2>3. com'.pc \notin {"run", "parse", "done"}
    BY DEF WithFolder
  <2>4. OtherFolders(folder', com.before.folder, InContext, com.provider)
    BY <2>1 DEF OtherFolders
  <2>5. ~Has(com'.before.conf, InContext', com'.provider)
    BY <2>1, <2>2
  <2>6. OtherFolders(folder, com.before.folder, InContext, com.provider)'
    BY <2>2, <2>4 DEF OtherFolders
  <2> QED
    BY <2>1, <2>2, <2>3, <2>5, <2>6 DEF FoldersThen, Has
<1>5. AddPlaces'
  BY DEF AddPlaces
<1> QED
  BY <1>2, <1>3, <1>4, <1>5

\* The steps of the commands beside the first: those that never end one, and the others.
GoingOn ==
    \/ ResolveProvider \/ StartInstall \/ StartUpdate \/ HaveBinary \/ FromCache \/ Fetch \/ FetchWrong \/ FetchFails
    \/ SaveProviderConfig \/ SaveState \/ SetOptions \/ DeleteProviderConfig \/ DeleteFolder \/ InstallBuiltIn
    \/ SaveProInstance

Deciding == Use \/ ConfigureFails \/ DeleteProvider \/ Login \/ ProDelete

Ending ==
    \/ ResolveProviderFails \/ InvalidProvider \/ Refused \/ DownloadFailed \/ Done \/ ConfigureProvider
    \/ ProDeleteInstance \/ CreateContext \/ UseContext \/ DeleteContext \/ SetContextOptions \/ UseIde
    \/ SetIdeOptions \/ WriteFails \/ KillCommand

\* Every step is a first one or one of those.
LEMMA SettingsSteps ==
    SettingsNext => \/ \E kind, context, provider, p, v, given, flag : Begin(kind, context, provider, p, v, given, flag)
                    \/ GoingOn \/ Deciding \/ Ending
<1> SUFFICES ASSUME SettingsNext
             PROVE  \/ \E kind, context, provider, p, v, given, flag : Begin(kind, context, provider, p, v, given, flag)
                    \/ GoingOn \/ Deciding \/ Ending
  OBVIOUS
<1> QED
  BY ZenonT(60) DEF SettingsNext, GoingOn, Deciding, Ending

\* Steps that end a command end it.
LEMMA EndingEnds == Ending => com' = Idle
  BY DEF Ending, ResolveProviderFails, InvalidProvider, Refused, DownloadFailed, Done, ConfigureProvider,
     ProDeleteInstance, CreateContext, UseContext, DeleteContext, SetContextOptions, UseIde, SetIdeOptions, WriteFails, KillCommand,
     CommandReturns, SaveAndReturn

\* The others keep the kind of the command.
LEMMA KindKept ==
    ASSUME IsCommand(com)
    PROVE  /\ GoingOn => com'.kind = com.kind
           /\ Deciding => com' = Idle \/ com'.kind = com.kind
<1>1. PICK G, C, B : com \in CommandRecords(G, C, B)
  BY DEF IsCommand
<1>2. ASSUME NEW l, com' = [com EXCEPT !.pc = l] PROVE com'.kind = com.kind
  BY <1>1, <1>2 DEF CommandRecords
<1>3. ASSUME NEW x, NEW l, com' = [com EXCEPT !.copy = x, !.pc = l] \/ com' = [com EXCEPT !.pc = l, !.copy = x]
      PROVE  com'.kind = com.kind
  BY <1>1, <1>3 DEF CommandRecords
<1>4. ASSUME GoingOn PROVE com'.kind = com.kind
  <2>1. CASE SaveState
    BY <1>3, <2>1 DEF SaveState
  <2>2. CASE FetchWrong
    BY <1>1, <2>2 DEF FetchWrong, CommandRecords
  <2>3. CASE ~(SaveState \/ FetchWrong)
    BY <1>2, <1>4, <2>3 DEF GoingOn, ResolveProvider, StartInstall, StartUpdate, HaveBinary, FromCache, Fetch,
       FetchFails, SaveProviderConfig, SetOptions, DeleteProviderConfig, DeleteFolder, InstallBuiltIn, SaveProInstance, SettingsGoto
  <2> QED
    BY <2>1, <2>2, <2>3
<1>5. ASSUME Deciding PROVE com' = Idle \/ com'.kind = com.kind
  <2>1. CASE Use \/ DeleteProvider
    BY <1>2, <2>1 DEF Use, DeleteProvider, SettingsGoto
  <2>2. CASE ConfigureFails
    BY <1>3, <2>2 DEF ConfigureFails
  <2>3. CASE Login \/ ProDelete
    BY <1>1, <2>3 DEF Login, ProDelete, CommandRecords
  <2> QED
    BY <1>5, <2>1, <2>2, <2>3 DEF Deciding
<1> QED
  BY <1>4, <1>5

\* Each step of an add, its failures and what it deletes after one keep the invariant.
LEMMA AddInvNext == AddInv /\ [SettingsNext]_settingsVars => AddInv'
<1> SUFFICES ASSUME AddInv, [SettingsNext]_settingsVars PROVE AddInv'
  OBVIOUS
<1>i. SettingsInv /\ SettingsInv'
  BY SettingsInvNext DEF AddInv
<1> SUFFICES Adding' => SameContext' /\ StatesThen' /\ FoldersThen' /\ AddPlaces'
  BY <1>i DEF AddInv
<1> DEFINE Goal == SameContext' /\ StatesThen' /\ FoldersThen' /\ AddPlaces'
<1>t. /\ folder \in [Contexts -> [ProviderNames -> Folders]] /\ IsFile(conf)
      /\ com = Idle \/ IsCommand(com)
  BY <1>i DEF SettingsInv, SettingsTypeOK, Folders
<1>d. Idle.kind = "none" /\ Idle.pc = "none"
  BY DEF Idle
<1>c. Adding => /\ IsCommand(com) /\ IsCopy(com.copy) /\ com.provider \in ProviderNames /\ InContext \in Contexts
                /\ com.override \in Contexts \cup {None}
                /\ SameContext /\ StatesThen /\ FoldersThen /\ AddPlaces
  BY <1>t, <1>d, CommandMeans DEF Adding, IsCommand, AddInv, InContext
<1>1. ASSUME NEW kind, NEW context, NEW provider, NEW p, NEW v, NEW given, NEW flag,
             Begin(kind, context, provider, p, v, given, flag)
      PROVE  Adding' => Goal
  BY <1>1, <1>i, AddBegins
\* The command has ended.
<1>2. ASSUME com' = Idle PROVE Adding' => Goal
  BY <1>2, <1>d DEF Adding
<1>3. ASSUME CommandReturns PROVE Adding' => Goal
  BY <1>2, <1>3 DEF CommandReturns
\* Steps that only go on, and those of the download.
<1>4. ASSUME Adding, NEW l, com' = [com EXCEPT !.pc = l]
      PROVE  /\ com'.pc = l /\ com'.kind = com.kind /\ com'.provider = com.provider /\ com'.flag = com.flag
             /\ com'.override = com.override /\ com'.before = com.before /\ com'.copy = com.copy
  BY <1>4, <1>c, GotoKeeps
<1>5. ASSUME Adding, NEW l \in BeforeSave \cap WithFolder, com.pc \in BeforeSave \cap WithFolder,
             com' = [com EXCEPT !.pc = l], UNCHANGED conf,
             UNCHANGED folder \/ \E g : folder' = [folder EXCEPT ![InContext][com.provider] = g]
      PROVE  Goal
  <2>1. \A d \in Contexts, q \in ProviderNames : d # InContext \/ q # com.provider => folder'[d][q] = folder[d][q]
    BY <1>5, <1>c, <1>t
  <2> QED
    BY <1>4, <1>5, <1>c, <2>1, AddGoesOn
<1>6. ASSUME Adding, ResolveProvider PROVE Goal
  <2>1. com.pc = "run" /\ com' = [com EXCEPT !.pc = "parse"] /\ UNCHANGED <<conf, folder>>
    BY <1>6 DEF ResolveProvider, Running, SettingsGoto
  <2>2. /\ com'.pc = "parse" /\ com'.provider = com.provider /\ com'.flag = com.flag
        /\ com'.override = com.override /\ com'.before = com.before /\ com'.copy = com.copy
    BY <1>4, <1>6, <2>1
  <2>3. SameContext'
    BY <1>6, <1>c, <2>1, <2>2 DEF SameContext, InContext, BeforeSave
  <2>4. StatesThen'
    BY <1>6, <1>c, <2>1, <2>2 DEF StatesThen, BeforeSave, SameStates, Has
  <2>5. FoldersThen' /\ AddPlaces'
    BY <1>6, <1>c, <2>1, <2>2 DEF FoldersThen, WithFolder, BeforeSave, AddPlaces
  <2> QED
    BY <2>3, <2>4, <2>5
<1>7. ASSUME Adding, StartInstall PROVE Goal
  <2>1. /\ com.pc \in {"run", "parse"} /\ com' = [com EXCEPT !.pc = "download"]
        /\ UNCHANGED <<conf, folder>> /\ folder[InContext][com.provider] = NoFolder
        /\ com.provider \notin DOMAIN com.copy.contexts[com.copy.context].states
    BY <1>7 DEF StartInstall, Running, SettingsGoto, States
  <2>2. Adding
    BY <1>7
  <2>3. /\ com'.pc = "download" /\ com'.provider = com.provider /\ com'.flag = com.flag
        /\ com'.override = com.override /\ com'.before = com.before /\ com'.copy = com.copy
    BY <1>4, <2>1, <2>2
  <2>4. ~Has(com.before.conf, InContext, com.provider)
    <3>1. ~Has(com.copy, InContext, com.provider)
      BY <2>1 DEF Has, InContext
    <3>2. SameStates(com.copy, com.before.conf)
      BY <1>c, <2>1, <2>2 DEF StatesThen, BeforeSave
    <3> QED
      BY <1>c, <2>2, <3>1, <3>2 DEF SameStates
  <2>5. SameContext'
    BY <1>c, <2>1, <2>2, <2>3 DEF SameContext, InContext, BeforeSave
  <2>6. StatesThen'
    BY <1>c, <2>1, <2>2, <2>3 DEF StatesThen, BeforeSave, SameStates, Has
  <2>7. folder = com.before.folder /\ com.before.folder \in [Contexts -> [ProviderNames -> Folders]]
    BY <1>c, <2>1, <2>2 DEF FoldersThen
  <2>8. FoldersThen' /\ AddPlaces'
    BY <2>1, <2>3, <2>4, <2>7 DEF FoldersThen, OtherFolders, WithFolder, AddPlaces, InContext, Has
  <2> QED
    BY <2>5, <2>6, <2>8
<1>8. ASSUME Adding, HaveBinary \/ FromCache \/ Fetch \/ FetchFails PROVE Goal
  <2> DEFINE old == folder[InContext][com.provider]
  <2>1. \/ com.pc \in {"download", "fetch"} /\ com' = [com EXCEPT !.pc = "save json"]
        \/ com.pc = "download" /\ com' = [com EXCEPT !.pc = "fetch"]
        \/ com.pc = "fetch" /\ com' = [com EXCEPT !.pc = "failed"]
    BY <1>8 DEF HaveBinary, FromCache, Fetch, FetchFails, SettingsGoto
  <2>2. UNCHANGED conf
    BY <1>8 DEF HaveBinary, FromCache, Fetch, FetchFails
  <2>3. UNCHANGED folder \/ \E b : folder' = [folder EXCEPT ![InContext][com.provider].binary = b]
    BY <1>8 DEF HaveBinary, FromCache, Fetch, FetchFails
  <2>4. UNCHANGED folder \/ \E g : folder' = [folder EXCEPT ![InContext][com.provider] = g]
    <3>1. ASSUME NEW b, folder' = [folder EXCEPT ![InContext][com.provider].binary = b]
          PROVE  folder' = [folder EXCEPT ![InContext][com.provider] = [old EXCEPT !.binary = b]]
      BY <3>1
    <3> QED
      BY <2>3, <3>1
  <2>5. /\ {"download", "fetch", "save json", "failed"} \subseteq BeforeSave \cap WithFolder
    BY DEF BeforeSave, WithFolder
  <2> QED
    BY <1>5, <1>8, <2>1, <2>2, <2>4, <2>5
<1>9. ASSUME Adding, FetchWrong PROVE Goal
  <2>1. /\ com.pc = "fetch" /\ UNCHANGED <<conf, folder>>
        /\ com' = [com EXCEPT !.tries = com.tries + 1, !.pc = IF com.tries = 2 THEN "failed" ELSE "fetch"]
    BY <1>9 DEF FetchWrong
  <2>2. PICK G, C, B : com \in CommandRecords(G, C, B)
    BY <1>9, <1>c DEF IsCommand
  <2>3. /\ com'.pc \in {"failed", "fetch"} /\ com'.kind = com.kind /\ com'.provider = com.provider /\ com'.flag = com.flag
        /\ com'.override = com.override /\ com'.before = com.before /\ com'.copy = com.copy
    BY <2>1, <2>2 DEF CommandRecords
  <2>4. com.pc \in BeforeSave \cap WithFolder /\ com'.pc \in BeforeSave \cap WithFolder
    BY <2>1, <2>3 DEF BeforeSave, WithFolder
  <2> QED
    BY <1>9, <1>c, <2>1, <2>3, <2>4, AddGoesOn
\* provider.json: the state is saved next, or was there before.
<1>10. ASSUME Adding, SaveProviderConfig PROVE Goal
  <2> DEFINE old == folder[InContext][com.provider]
             g == [old EXCEPT !.json = com.version]
             l == IF com.kind = "add" \/ com.kind = "login" THEN "save state" ELSE IF com.flag THEN "configure" ELSE "done"
  <2>1. /\ com.pc = "save json" /\ com' = [com EXCEPT !.pc = l] /\ UNCHANGED conf
        /\ folder' = [folder EXCEPT ![InContext][com.provider] = g]
    BY <1>10 DEF SaveProviderConfig, SettingsGoto
  <2>2. l \in {"save state", "configure", "done"} /\ (l = "done" => ~com.flag)
    OBVIOUS
  <2> HIDE DEF g, l
  <2>3. com.pc \in BeforeSave \cap WithFolder
    BY <2>1 DEF BeforeSave, WithFolder
  <2>4. CASE l = "save state"
    <3>1. l \in BeforeSave \cap WithFolder
      BY <2>4 DEF BeforeSave, WithFolder
    <3> QED
      BY <1>5, <1>10, <2>1, <2>3, <3>1
  <2>5. CASE l # "save state"
    <3>1. /\ com'.pc = l /\ com'.provider = com.provider /\ com'.flag = com.flag
          /\ com'.override = com.override /\ com'.before = com.before /\ com'.copy = com.copy
      BY <1>4, <1>10, <2>1
    <3>2. InContext' = InContext
      BY <3>1 DEF InContext
    <3>3. SameContext'
      BY <1>10, <1>c, <2>1, <3>1, <3>2 DEF SameContext, BeforeSave
    <3>4. SameStates(conf, com.before.conf)
      BY <1>10, <1>c, <2>1 DEF StatesThen, BeforeSave
    <3>5. StatesThen'
      BY <2>1, <2>2, <2>5, <3>1, <3>4 DEF StatesThen, BeforeSave, SameStates, OtherStates, Has
    <3>6. /\ com.before.folder \in [Contexts -> [ProviderNames -> Folders]]
          /\ com.before.folder[InContext][com.provider] = NoFolder
          /\ ~Has(com.before.conf, InContext, com.provider)
          /\ OtherFolders(folder, com.before.folder, InContext, com.provider)
      BY <1>10, <1>c, <2>1 DEF FoldersThen, WithFolder
    <3>7. OtherFolders(folder', com.before.folder, InContext, com.provider)
      BY ZenonT(60), <1>10, <1>c, <1>t, <2>1, <3>6 DEF OtherFolders
    <3>8. FoldersThen' /\ AddPlaces'
      BY ZenonT(60), <2>2, <2>5, <3>1, <3>2, <3>6, <3>7 DEF FoldersThen, WithFolder, AddPlaces, OtherFolders, Has
    <3> QED
      BY <3>3, <3>5, <3>8
  <2> QED
    BY <2>4, <2>5
\* The provider's own state comes to those that were there.
<1>11. ASSUME Adding, SaveState PROVE Goal
  <2> DEFINE cs == com.copy.contexts
             v == PutAt(cs[InContext].states, com.provider, [init |-> FALSE])
             ctx == [cs EXCEPT ![InContext].states = v]
             x == [com.copy EXCEPT !.contexts = ctx]
             l == IF com.flag THEN "configure" ELSE "done"
  <2>1. com.pc = "save state" /\ UNCHANGED folder /\ com.kind # "login"
    BY <1>11 DEF SaveState, Adding
  <2>2. conf' = Saved(x) /\ com' = [com EXCEPT !.copy = x, !.pc = l]
    BY <1>11, <2>1 DEF SaveState
  <2>3. l \in {"configure", "done"} /\ (l = "done" => ~com.flag)
    OBVIOUS
  <2>4. ASSUME NEW d \in Contexts, NEW q \in ProviderNames, d # InContext \/ q # com.provider
        PROVE  d \in DOMAIN ctx /\ q \in DOMAIN ctx[d].states <=> Has(com.copy, d, q)
    BY <1>11, <1>c, <2>4 DEF Has, PutAt, IsCopy, HasStates
  <2>5. HasStates(ctx)
    BY <1>11, <1>c DEF IsCopy, HasStates
  <2> HIDE DEF ctx, l
  <2>6. IsCopy(x) /\ x.context = com.copy.context /\ x.contexts = ctx /\ x.originalContext = com.copy.originalContext
    BY <1>11, <1>c, <2>5, CopyChanged
  <2> HIDE DEF x
  <2>7. SameStates(Saved(x), x) /\ Saved(x).context = Or(x.originalContext, x.context)
    BY <2>5, <2>6, SavedStates, SavedMeans
  <2>8. /\ com'.pc = l /\ com'.provider = com.provider /\ com'.flag = com.flag
        /\ com'.override = com.override /\ com'.before = com.before /\ com'.copy = x
    BY <1>11, <1>c, <2>2, GotoCopyKeeps
  <2>9. InContext' = InContext
    BY <2>6, <2>8 DEF InContext
  <2>10. SameContext'
    <3>1. /\ InContext = Or(com.override, Or(conf.context, DefaultContext))
          /\ com.override = None => com.copy.originalContext = None
      BY <1>11, <1>c, <2>1 DEF SameContext, BeforeSave
    <3>2. com.override = None => conf'.context = InContext
      BY <2>2, <2>6, <2>7, <3>1 DEF Or, InContext
    <3>3. None \notin Contexts
      BY SettingsAssumption
    <3>4. InContext = Or(com.override, Or(conf'.context, DefaultContext))
      BY <1>11, <1>c, <3>1, <3>2, <3>3 DEF Or
    <3> QED
      BY <2>6, <2>8, <2>9, <3>1, <3>4 DEF SameContext
  <2>11. StatesThen'
    <3>1. SameStates(com.copy, com.before.conf)
      BY <1>11, <1>c, <2>1 DEF StatesThen, BeforeSave
    <3>2. OtherStates(conf', com.before.conf, InContext, com.provider)
      BY <2>2, <2>4, <2>6, <2>7, <3>1 DEF OtherStates, SameStates, Has
    <3>3. OtherStates(conf', com'.before.conf, InContext', com'.provider)
      BY <2>8, <2>9, <3>2
    <3>4. com'.pc \notin BeforeSave /\ com'.pc \notin {"delete", "delete folder"} /\ ~(com'.pc = "done" /\ com'.flag)
      BY <2>3, <2>8 DEF BeforeSave
    <3> QED
      BY <3>3, <3>4 DEF StatesThen, OtherStates, Has
  <2>12. FoldersThen' /\ AddPlaces'
    BY ZenonT(60), <1>11, <1>c, <2>1, <2>3, <2>8, <2>9 DEF FoldersThen, WithFolder, AddPlaces, OtherFolders, Has
  <2> QED
    BY <2>10, <2>11, <2>12
\* What was added is deleted from a new copy of config.yaml.
<1>12. ASSUME Adding, ConfigureFails PROVE Goal
  <2> DEFINE y == LoadConfig(com.override, None)
  <2>1. com.pc = "configure" /\ UNCHANGED <<conf, folder>> /\ com' = [com EXCEPT !.pc = "delete", !.copy = y]
    BY <1>12 DEF ConfigureFails, Adding
  <2>2. SameStates(y, conf) /\ y.context = Or(com.override, Or(conf.context, DefaultContext))
    BY <1>t, LoadConfigStates
  <2> HIDE DEF y
  <2>3. /\ com'.pc = "delete" /\ com'.provider = com.provider /\ com'.flag = com.flag
        /\ com'.before = com.before /\ com'.copy = y
    BY <1>12, <1>c, <2>1, GotoCopyKeeps
  <2>4. InContext' = InContext
    BY <1>12, <1>c, <2>1, <2>2, <2>3 DEF SameContext, InContext
  <2>5. SameContext'
    BY <2>3 DEF SameContext, BeforeSave
  <2>6. StatesThen'
    BY <1>12, <1>c, <2>1, <2>2, <2>3, <2>4 DEF StatesThen, BeforeSave, OtherStates, SameStates, Has
  <2>7. FoldersThen' /\ AddPlaces'
    BY <1>12, <1>c, <2>1, <2>3, <2>4 DEF FoldersThen, WithFolder, AddPlaces, OtherFolders, Has
  <2> QED
    BY <2>5, <2>6, <2>7
<1>13. ASSUME Adding, DeleteProviderConfig PROVE Goal
  <2> DEFINE cs == com.copy.contexts
             u == IF cs[InContext].provider = com.provider THEN None ELSE cs[InContext].provider
             ctx1 == [cs EXCEPT ![InContext].provider = u]
             x1 == [com.copy EXCEPT !.contexts = ctx1]
             v == Without(ctx1[InContext].states, com.provider)
             ctx2 == [ctx1 EXCEPT ![InContext].states = v]
             x2 == [x1 EXCEPT !.contexts = ctx2]
  <2>1. com.pc = "delete" /\ com' = [com EXCEPT !.pc = "delete folder"] /\ UNCHANGED folder
    BY <1>13 DEF DeleteProviderConfig, SettingsGoto
  <2>a. HasStates(cs)
    BY <1>13, <1>c DEF IsCopy
  <2> HIDE DEF u
  <2>2. ASSUME NEW d, NEW q
        PROVE  d \in DOMAIN ctx1 /\ q \in DOMAIN ctx1[d].states <=> Has(com.copy, d, q)
    BY <2>a DEF Has, HasStates
  <2>3. HasStates(ctx1)
    BY <2>a, ContextChanged
  <2>4. IsCopy(x1) /\ x1.contexts = ctx1
    BY <1>13, <1>c, <2>3, CopyChanged
  <2>5. conf' = Saved(x2)
    BY ZenonT(60), <1>13, <2>4 DEF DeleteProviderConfig, u
  <2> HIDE DEF x1, ctx1, cs
  <2>6. ASSUME NEW d \in Contexts, NEW q \in ProviderNames
        PROVE  d \in DOMAIN ctx2 /\ q \in DOMAIN ctx2[d].states
                   <=> (d # InContext \/ q # com.provider) /\ d \in DOMAIN ctx1 /\ q \in DOMAIN ctx1[d].states
    BY <2>3 DEF HasStates, Without
  <2>7. HasStates(ctx2)
    BY <2>3, ContextChanged
  <2> HIDE DEF ctx2
  <2>8. x2.contexts = ctx2
    BY <2>4, <2>7, CopyChanged
  <2> HIDE DEF x2
  <2>9. SameStates(conf', x2)
    BY <2>5, <2>7, <2>8, SavedStates
  <2>10. /\ OtherStates(conf, com.before.conf, InContext, com.provider) /\ SameStates(com.copy, conf)
         /\ ~Has(com.before.conf, InContext, com.provider)
    BY <1>13, <1>c, <2>1 DEF StatesThen, FoldersThen, WithFolder
  <2>11. SameStates(conf', com.before.conf)
    <3> SUFFICES ASSUME NEW d \in Contexts, NEW q \in ProviderNames
                 PROVE  Has(conf', d, q) <=> Has(com.before.conf, d, q)
      BY DEF SameStates
    <3>1. Has(conf', d, q) <=> (d # InContext \/ q # com.provider) /\ Has(com.copy, d, q)
      BY <2>2, <2>6, <2>8, <2>9 DEF SameStates, Has
    <3>2. Has(com.copy, d, q) <=> Has(conf, d, q)
      BY <2>10 DEF SameStates
    <3>3. d # InContext \/ q # com.provider => (Has(conf, d, q) <=> Has(com.before.conf, d, q))
      BY <2>10 DEF OtherStates
    <3> QED
      BY <2>10, <3>1, <3>2, <3>3
  <2>12. /\ com'.pc = "delete folder" /\ com'.provider = com.provider /\ com'.flag = com.flag
         /\ com'.before = com.before /\ com'.copy = com.copy
    BY <1>4, <1>13, <2>1
  <2>13. InContext' = InContext
    BY <2>12 DEF InContext
  <2>14. SameContext'
    BY <2>12 DEF SameContext, BeforeSave
  <2>15. StatesThen'
    BY <2>11, <2>12 DEF StatesThen, BeforeSave, SameStates, Has
  <2>16. FoldersThen' /\ AddPlaces'
    BY ZenonT(60), <1>13, <1>c, <2>1, <2>12, <2>13 DEF FoldersThen, WithFolder, AddPlaces, OtherFolders, Has
  <2> QED
    BY <2>14, <2>15, <2>16
<1>14. ASSUME Adding, DeleteFolder PROVE Goal
  <2>1. /\ com.pc = "delete folder" /\ com' = [com EXCEPT !.pc = "done"] /\ UNCHANGED conf
        /\ folder' = [folder EXCEPT ![InContext][com.provider] = NoFolder]
    BY <1>14 DEF DeleteFolder, SettingsGoto, Adding
  <2>2. /\ com'.pc = "done" /\ com'.before = com.before /\ com'.copy = com.copy
    BY <1>4, <1>14, <2>1
  <2>3. folder' = com.before.folder
    BY <1>14, <1>c, <1>t, <2>1, FolderBack DEF FoldersThen, WithFolder
  <2>4. SameContext'
    BY <2>2 DEF SameContext, BeforeSave
  <2>5. StatesThen'
    BY <1>14, <1>c, <2>1, <2>2 DEF StatesThen, BeforeSave, SameStates, Has
  <2>6. FoldersThen' /\ AddPlaces'
    BY <1>14, <1>c, <2>2, <2>3 DEF FoldersThen, WithFolder, AddPlaces
  <2> QED
    BY <2>4, <2>5, <2>6
\* No other step is one of an add that goes on.
<1>15. ASSUME Adding, \/ StartUpdate \/ Use \/ SetOptions \/ DeleteProvider \/ Login \/ ProDelete \/ InstallBuiltIn
                      \/ SaveProInstance
       PROVE  FALSE
  BY <1>15, <1>c DEF Adding, StartUpdate, Use, SetOptions, DeleteProvider, Login, ProDelete, Running, InstallBuiltIn,
     SaveProInstance, AddPlaces, BeforeSave, WithFolder
<1>16. ASSUME Ending PROVE Adding' => Goal
  BY <1>2, <1>16, EndingEnds
<1>17. CASE UNCHANGED settingsVars
  <2>1. UNCHANGED <<conf, folder, com>>
    BY <1>17 DEF settingsVars
  <2>2. Adding' => Adding
    BY <2>1 DEF Adding
  <2>3. SameContext => SameContext'
    BY <2>1 DEF SameContext, InContext
  <2>4. StatesThen => StatesThen'
    BY <2>1 DEF StatesThen, SameStates, OtherStates, Has, InContext
  <2>5. FoldersThen => FoldersThen'
    BY <2>1 DEF FoldersThen, OtherFolders, Has, InContext
  <2>6. AddPlaces => AddPlaces'
    BY <2>1 DEF AddPlaces
  <2> QED
    BY <1>c, <2>2, <2>3, <2>4, <2>5, <2>6
<1>18. ASSUME Adding, GoingOn \/ Deciding PROVE Goal
  <2> HIDE DEF Goal
  <2> QED
    BY <1>6, <1>7, <1>8, <1>9, <1>10, <1>11, <1>12, <1>13, <1>14, <1>15, <1>18 DEF GoingOn, Deciding
<1>19. ASSUME ~Adding, com # Idle, GoingOn \/ Deciding PROVE Adding' => Goal
  <2>1. com' = Idle \/ com'.kind = com.kind
    BY <1>19, <1>t, KindKept
  <2> QED
    BY <1>2, <1>19, <2>1 DEF Adding
<1>20. ASSUME com = Idle, GoingOn \/ Deciding PROVE FALSE
  <2>1. com.kind = "none" /\ com.pc = "none"
    BY <1>20, <1>d
  <2> QED
    BY <1>20, <2>1 DEF GoingOn, Deciding, ResolveProvider, StartInstall, StartUpdate, HaveBinary, FromCache, Fetch,
       FetchWrong, FetchFails, SaveProviderConfig, SaveState, Use, SetOptions, ConfigureFails, DeleteProviderConfig,
       DeleteFolder, DeleteProvider, Login, InstallBuiltIn, SaveProInstance, ProDelete, Running
<1>21. CASE SettingsNext
  <2>1. CASE \E kind, context, provider, p, v, given, flag : Begin(kind, context, provider, p, v, given, flag)
    BY <1>1, <2>1
  <2>2. CASE GoingOn \/ Deciding
    BY <1>18, <1>19, <1>20, <2>2
  <2> QED
    BY <1>16, <1>21, <2>1, <2>2, SettingsSteps
<1> QED
  BY <1>17, <1>21

\* The invariant holds in every reachable state.
LEMMA AddInvAlways == SettingsSpec => []AddInv
  BY AddInvInit, AddInvNext, PTL DEF SettingsSpec

\* Where the provider has a state it has provider.json.
JsonThere ==
    Adding /\ com.pc \in {"save state", "configure", "delete"} => folder[InContext][com.provider].json # None

\* provider.json is written before the state, and goes after it.
LEMMA JsonThereNext == AddInv /\ JsonThere /\ [SettingsNext]_settingsVars => JsonThere'
<1> SUFFICES ASSUME AddInv, JsonThere, [SettingsNext]_settingsVars, Adding',
                    com'.pc \in {"save state", "configure", "delete"}
             PROVE  folder'[InContext'][com'.provider].json # None
  BY DEF JsonThere
<1>t. /\ folder \in [Contexts -> [ProviderNames -> Folders]] /\ IsFile(conf)
      /\ com = Idle \/ IsCommand(com)
  BY DEF AddInv, SettingsInv, SettingsTypeOK, Folders
<1>d. Idle.kind = "none" /\ Idle.pc = "none"
  BY DEF Idle
<1>e. com' # Idle
  BY <1>d DEF Adding
<1>1. CASE UNCHANGED settingsVars
  BY <1>1 DEF settingsVars, JsonThere, Adding, InContext
<1>2. ASSUME NEW kind, NEW context, NEW provider, NEW p, NEW v, NEW given, NEW flag,
             Begin(kind, context, provider, p, v, given, flag)
      PROVE  FALSE
  BY <1>2 DEF Begin
<1>3. CASE SettingsNext
  <2>1. GoingOn \/ Deciding
    BY <1>2, <1>3, <1>e, SettingsSteps, EndingEnds
  <2>2. IsCommand(com) /\ Adding
    <3>1. com # Idle
      BY <2>1, <1>d DEF GoingOn, Deciding, ResolveProvider, StartInstall, StartUpdate, HaveBinary, FromCache, Fetch,
         FetchWrong, FetchFails, SaveProviderConfig, SaveState, Use, SetOptions, ConfigureFails, DeleteProviderConfig,
         DeleteFolder, DeleteProvider, Login, InstallBuiltIn, SaveProInstance, ProDelete, Running
    <3> QED
      BY <1>t, <1>e, <2>1, <3>1, KindKept DEF Adding
  <2>3. com.provider \in ProviderNames /\ InContext \in Contexts /\ SameContext /\ AddPlaces /\ IsCopy(com.copy)
    BY <2>2, CommandMeans DEF AddInv, IsCommand, InContext
  <2>4. CASE SaveProviderConfig
    <3>1. com.pc = "save json" /\ folder' = [folder EXCEPT ![InContext][com.provider].json = com.version]
      BY <2>4 DEF SaveProviderConfig
    <3>2. com.version # None
      BY <2>2, SettingsAssumption DEF AddInv, SettingsInv, Versioned, Adding
    <3>3. com'.provider = com.provider /\ com'.copy = com.copy
      BY <2>2, <2>4, GotoKeeps DEF SaveProviderConfig, SettingsGoto
    <3>4. folder[InContext][com.provider] \in Folders
      BY <1>t, <2>3
    <3>5. folder'[InContext][com.provider].json = com.version
      BY <1>t, <2>3, <3>1, <3>4 DEF Folders
    <3> QED
      BY <3>2, <3>3, <3>5 DEF InContext
  <2>5. CASE SaveState
    <3> DEFINE w == PutAt(com.copy.contexts[InContext].states, com.provider, [init |-> FALSE])
               ctx == [com.copy.contexts EXCEPT ![InContext].states = w]
               x == [com.copy EXCEPT !.contexts = ctx]
               l == IF com.kind = "login" THEN "save pro" ELSE IF com.flag THEN "configure" ELSE "done"
    <3>1. com.pc = "save state" /\ UNCHANGED folder /\ com' = [com EXCEPT !.copy = x, !.pc = l]
      BY <2>5 DEF SaveState
    <3>2. HasStates(ctx)
      BY <2>3, ContextChanged DEF IsCopy
    <3> HIDE DEF ctx, l
    <3>3. x.context = com.copy.context
      BY <2>3, <3>2, CopyChanged
    <3> HIDE DEF x
    <3>4. com'.provider = com.provider /\ com'.copy = x
      BY <2>2, <3>1, GotoCopyKeeps
    <3> QED
      BY <2>2, <3>1, <3>3, <3>4 DEF JsonThere, InContext
  <2>6. CASE ConfigureFails
    <3> DEFINE y == LoadConfig(com.override, None)
    <3>1. com.pc = "configure" /\ UNCHANGED folder /\ com' = [com EXCEPT !.pc = "delete", !.copy = y]
      BY <2>2, <2>6 DEF ConfigureFails, Adding
    <3>2. y.context = InContext
      BY <1>t, <2>3, <3>1, LoadConfigStates DEF SameContext
    <3> HIDE DEF y
    <3>3. com'.provider = com.provider /\ com'.copy = y
      BY <2>2, <3>1, GotoCopyKeeps
    <3> QED
      BY <2>2, <3>1, <3>2, <3>3 DEF JsonThere, InContext
  <2>7. ASSUME \/ ResolveProvider \/ StartInstall \/ HaveBinary \/ FromCache \/ Fetch \/ FetchFails
               \/ DeleteProviderConfig \/ DeleteFolder
        PROVE  FALSE
    <3>1. PICK l \in {"parse", "download", "fetch", "save json", "failed", "delete folder", "delete pro", "done"} :
             com' = [com EXCEPT !.pc = l]
      BY <2>7 DEF ResolveProvider, StartInstall, HaveBinary, FromCache, Fetch, FetchFails, DeleteProviderConfig,
         DeleteFolder, SettingsGoto
    <3>2. com'.pc = l
      BY <2>2, <3>1, GotoKeeps
    <3> QED
      BY <3>2
  <2>8. ~FetchWrong
    <3>1. ASSUME FetchWrong PROVE com'.pc \in {"failed", "fetch"}
      <4>1. PICK G, C, B : com \in CommandRecords(G, C, B)
        BY <2>2 DEF IsCommand
      <4> QED
        BY <3>1, <4>1 DEF FetchWrong, CommandRecords
    <3> QED
      BY <3>1
  <2>9. ~(\/ StartUpdate \/ Use \/ SetOptions \/ DeleteProvider \/ Login \/ ProDelete \/ InstallBuiltIn \/ SaveProInstance)
    BY <2>2, <2>3 DEF Adding, StartUpdate, Use, SetOptions, DeleteProvider, Login, ProDelete, Running, InstallBuiltIn,
       SaveProInstance, AddPlaces, BeforeSave, WithFolder
  <2> QED
    BY <2>1, <2>4, <2>5, <2>6, <2>7, <2>8, <2>9 DEF GoingOn, Deciding
<1> QED
  BY <1>1, <1>3

\* Both hold in every reachable state.
LEMMA JsonThereAlways == SettingsSpec => [](AddInv /\ JsonThere)
<1>1. SettingsInit => JsonThere
  BY DEF SettingsInit, JsonThere, Adding, Idle
<1> QED
  BY <1>1, AddInvAlways, JsonThereNext, PTL DEF SettingsSpec

\* `provider add` that does not succeed leaves the other providers as they were, for any contexts,
\* providers, versions and earlier commands, failed or killed; nothing of its own provider either
\* unless one of its writes fails or it is killed, and then no state without provider.json.
THEOREM AddAllOrNothingHolds == SettingsSpec => AddAllOrNothing
<1> DEFINE own == <<InContext, com.provider>>
           Others == /\ \A c \in Contexts, p \in ProviderNames :
                           <<c, p>> # own => folder'[c][p] = com.before.folder[c][p]
                     /\ StatesOf(conf') \ {own} = StatesOf(com.before.conf) \ {own}
           Left == own \in StatesOf(conf') \ StatesOf(com.before.conf)
                       => folder'[InContext][com.provider].json # None
           Same == folder' = com.before.folder /\ StatesOf(conf') = StatesOf(com.before.conf)
           AddStep == com.kind \in {"add", "clone"} /\ com' = Idle /\ ~AddSucceeds => AddLeaves
<1>a. AddLeaves <=> Others /\ Left /\ (~WriteFails /\ ~KillCommand => Same)
  BY DEF AddLeaves
<1>1. ASSUME AddInv, JsonThere, [SettingsNext]_settingsVars PROVE [AddStep]_settingsVars
  <2> SUFFICES ASSUME SettingsNext, com.kind \in {"add", "clone"}, com' = Idle, ~ConfigureProvider,
                      ~(com.pc = "done" /\ ~com.flag)
               PROVE  Others /\ Left /\ (~WriteFails /\ ~KillCommand => Same)
    BY <1>1, <1>a DEF AddSucceeds
  <2>t. /\ folder \in [Contexts -> [ProviderNames -> Folders]]
        /\ com = Idle \/ IsCommand(com)
    BY <1>1 DEF AddInv, SettingsInv, SettingsTypeOK, Folders
  <2>a. Adding /\ SameContext /\ StatesThen /\ FoldersThen /\ AddPlaces
    BY <1>1 DEF AddInv, Adding
  <2>c. IsCommand(com) /\ com.provider \in ProviderNames /\ InContext \in Contexts
    BY <2>t, CommandMeans DEF Idle, InContext
  <2>f. com.flag \in BOOLEAN
    BY <2>c DEF IsCommand, CommandRecords
  <2>1. \/ CommandReturns /\ (com.pc \in {"run", "parse"} \/ (com.pc = "done" /\ com.flag))
        \/ DownloadFailed \/ WriteFails \/ KillCommand
    <3>1. com.kind # "none" /\ com # Idle
      BY <2>a DEF Adding, Idle
    <3>2. ASSUME NEW kind, NEW context, NEW provider, NEW p, NEW v, NEW given, NEW flag,
                 Begin(kind, context, provider, p, v, given, flag)
          PROVE  FALSE
      BY <3>1, <3>2 DEF Begin
    <3>3. ~GoingOn
      <4>1. com'.kind = "none"
        BY DEF Idle
      <4> QED
        BY <2>c, <3>1, <4>1, KindKept
    <3>4. ~Deciding
      <4>1. ~(Use \/ DeleteProvider \/ Login \/ ProDelete)
        BY <2>a DEF Use, DeleteProvider, Login, ProDelete, Running, Adding
      <4>2. ~ConfigureFails
        <5>1. ASSUME ConfigureFails PROVE com'.kind = com.kind
          <6>1. com' = [com EXCEPT !.pc = "delete", !.copy = LoadConfig(com.override, None)]
            BY <2>a, <5>1 DEF ConfigureFails, Adding
          <6> QED
            BY <2>c, <6>1, GotoCopyKeeps
        <5>2. com'.kind = "none"
          BY DEF Idle
        <5> QED
          BY <3>1, <5>1, <5>2
      <4> QED
        BY <4>1, <4>2 DEF Deciding
    <3>5. Ending
      BY <3>2, <3>3, <3>4, SettingsSteps
    <3>6. ~(\/ ProDeleteInstance \/ CreateContext \/ UseContext \/ DeleteContext \/ SetContextOptions \/ UseIde
            \/ SetIdeOptions)
      BY <2>a DEF ProDeleteInstance, CreateContext, UseContext, DeleteContext, SetContextOptions, UseIde, SetIdeOptions,
         Running, Adding, AddPlaces, BeforeSave, WithFolder
    <3>7. ResolveProviderFails \/ InvalidProvider \/ Refused \/ DownloadFailed \/ Done \/ WriteFails \/ KillCommand
      BY <3>5, <3>6 DEF Ending
    <3> QED
      BY <2>a, <2>f, <3>7 DEF ResolveProviderFails, InvalidProvider, Refused, Done, Running, Adding
  <2>2. ~WriteFails /\ ~KillCommand => folder' = com.before.folder /\ SameStates(conf', com.before.conf)
    <3>1. CASE CommandReturns /\ (com.pc \in {"run", "parse"} \/ (com.pc = "done" /\ com.flag))
      BY <2>a, <3>1 DEF CommandReturns, StatesThen, FoldersThen, BeforeSave, SameStates, Has
    <3>2. CASE DownloadFailed
      <4>1. /\ com.pc = "failed" /\ UNCHANGED conf
            /\ folder' = [folder EXCEPT ![InContext][com.provider] = NoFolder]
        BY <2>a, <3>2 DEF DownloadFailed, Adding
      <4>2. /\ com.before.folder \in [Contexts -> [ProviderNames -> Folders]]
            /\ com.before.folder[InContext][com.provider] = NoFolder
            /\ OtherFolders(folder, com.before.folder, InContext, com.provider)
        BY <2>a, <4>1 DEF FoldersThen, WithFolder
      <4>4. folder' = com.before.folder
        BY <2>c, <2>t, <4>1, <4>2, FolderBack
      <4>3. SameStates(conf', com.before.conf)
        BY <2>a, <4>1 DEF StatesThen, BeforeSave, SameStates, Has
      <4> QED
        BY <4>3, <4>4
    <3> QED
      BY <2>1, <3>1, <3>2
  <2>3. ASSUME WriteFails \/ KillCommand PROVE Others /\ Left
    <3>1. UNCHANGED conf
      BY <2>3 DEF WriteFails, KillCommand
    <3>2. \/ UNCHANGED folder
          \/ \E g : folder' = [folder EXCEPT ![InContext][com.provider] = g]
      <4>1. CASE PartRemoved
        BY <4>1 DEF PartRemoved
      <4>2. CASE folder' = [folder EXCEPT ![InContext][com.provider].binary = "part"]
        <5>1. folder' = [folder EXCEPT ![InContext][com.provider] = [folder[InContext][com.provider] EXCEPT !.binary = "part"]]
          BY <4>2
        <5> QED
          BY <5>1
      <4> QED
        BY <2>3, <4>1, <4>2 DEF WriteFails, KillCommand
    <3>3. OtherFolders(folder', folder, InContext, com.provider)
      BY <2>c, <2>t, <3>2 DEF OtherFolders
    <3>4. /\ OtherFolders(folder, com.before.folder, InContext, com.provider)
          /\ OtherStates(conf, com.before.conf, InContext, com.provider)
      BY <2>a, <2>f DEF AddPlaces, StatesThen, FoldersThen, WithFolder, BeforeSave, OtherFolders, OtherStates, SameStates
    <3>5. Others
      <4>1. \A c \in Contexts, p \in ProviderNames : <<c, p>> # own => folder'[c][p] = com.before.folder[c][p]
        BY <3>3, <3>4 DEF OtherFolders
      <4>2. StatesOf(conf') \ {own} = StatesOf(com.before.conf) \ {own}
        <5>1. \A d \in Contexts, q \in ProviderNames :
                 <<d, q>> # own => (Has(conf', d, q) <=> Has(com.before.conf, d, q))
          BY <3>1, <3>4 DEF OtherStates, Has
        <5> QED
          BY <5>1 DEF StatesOf, Has
      <4> QED
        BY <4>1, <4>2
    <3>6. Left
      <4>1. CASE com.pc \in {"save state", "configure", "delete"}
        <5>1. UNCHANGED folder
          BY <2>3, <4>1 DEF WriteFails, KillCommand
        <5> QED
          BY <1>1, <2>a, <4>1, <5>1 DEF JsonThere
      <4>2. CASE com.pc \notin {"save state", "configure", "delete"}
        <5>1. SameStates(conf, com.before.conf)
          BY <2>a, <2>f, <4>2 DEF AddPlaces, StatesThen, WithFolder, BeforeSave
        <5>2. Has(conf', InContext, com.provider) <=> Has(com.before.conf, InContext, com.provider)
          BY <2>c, <3>1, <5>1 DEF SameStates, Has
        <5> QED
          BY <2>c, <5>2 DEF StatesOf, Has
      <4> QED
        BY <4>1, <4>2
    <3> QED
      BY <3>5, <3>6
  <2>4. ASSUME folder' = com.before.folder, SameStates(conf', com.before.conf) PROVE Others /\ Left /\ Same
    <3>1. StatesOf(conf') = StatesOf(com.before.conf)
      BY <2>4 DEF SameStates, StatesOf, Has
    <3> QED
      BY <2>4, <3>1
  <2> HIDE DEF Others, Left, Same
  <2> QED
    BY <2>2, <2>3, <2>4
<1>2. [][AddStep]_settingsVars <=> AddAllOrNothing
  BY DEF AddAllOrNothing
<1> QED
  BY <1>1, <1>2, JsonThereAlways, PTL DEF SettingsSpec

-----------------------------------------------------------------------------
(* The list of workspaces *)

Homes == [UIDs -> [id : IDs, provider : Providers \cup {Local}, own : BOOLEAN]]

\* A record is of a UID that was given away, and one that says pro is of an instance.
Known(r) == r \in Records /\ r.uid \in used /\ (r.pro => Pro(r.uid))

LocalKnown == \A i \in IDs : local[i] # NoRecord => Known(local[i]) /\ local[i].id = i

\* Instances are of pro providers, also the one that is about to be made.
InstancesPro ==
    /\ \A u \in remote : Pro(u)
    /\ pc \in {"instance", "metadata"} => uid \in used /\ Pro(uid)

\* While a command lists, a record that it has read is still there or was removed.
RecordsRead ==
    /\ pc \in {"pro", "clean"} => \A r \in records : Known(r) /\ local[r.id] \in {r, NoRecord}
    /\ pc = "clean" => todo \subseteq records

\* The answer of a provider names every own instance that one of the records is of: a UID is
\* given away once, so an instance that is made after the answer has no record yet.
Answer(q) ==
    /\ results[q] \subseteq {u \in used : home[u].provider = q}
    /\ \A r \in records :
          home[r.uid].provider = q /\ home[r.uid].own /\ r.uid \in remote => r.uid \in results[q]

AnswersRight ==
    /\ DOMAIN results = Providers /\ results = [q \in Providers |-> results[q]]
    /\ pc \in {"pro", "clean"} => \A q \in Providers : results[q] \in {Unset, Failed} \/ Answer(q)
    /\ pc = "clean" => \A q \in Providers : results[q] # Unset

\* What findWorkspace leaves is marked as imported if it is pro.
Marked(r) == r # NoRecord /\ r.pro => r.imported

FoundIsMarked ==
    /\ pc = "load" => Marked(local[tgt])
    /\ pc = "delete" => Marked(cfg) /\ cfg # NoRecord

ListInv == TypeOK /\ LocalKnown /\ InstancesPro /\ RecordsRead /\ AnswersRight /\ FoundIsMarked

\* There are no records at first.
LEMMA ListInvInit == Init => ListInv
<1> SUFFICES ASSUME Init PROVE ListInv
  OBVIOUS
<1>1. TypeOK
  <2>1. \A q \in Providers : results[q] = Unset
    BY DEF Init
  <2>2. home \in Homes /\ local \in [IDs -> Records \cup {NoRecord}]
    BY DEF Init, Homes
  <2>3. /\ remote = {} /\ used = {} /\ records = {} /\ todo = {} /\ kept = FALSE /\ force = FALSE
        /\ pc = "idle" /\ cmd = "none" /\ tgt \in IDs /\ uid = Unset /\ cfg = NoRecord /\ commands = 0
    BY DEF Init
  <2>4. commands \in 0..MaxCommands
    BY <2>3, ListAssumption
  <2>5. \A q \in Providers : results[q] \in {Unset, Failed} \/ results[q] \subseteq UIDs
    BY <2>1
  <2>6. force \in BOOLEAN /\ kept \in BOOLEAN
    BY <2>3
  <2>7. remote \subseteq UIDs /\ used \subseteq UIDs /\ remote \subseteq used /\ records \subseteq Records /\ todo \subseteq Records
    BY <2>3
  <2> QED
    BY <2>2, <2>3, <2>4, <2>5, <2>6, <2>7 DEF TypeOK, Places, Homes
<1>2. LocalKnown /\ InstancesPro /\ RecordsRead /\ AnswersRight /\ FoundIsMarked
  BY DEF Init, LocalKnown, InstancesPro, RecordsRead, AnswersRight, FoundIsMarked
<1> QED
  BY <1>1, <1>2 DEF ListInv

\* A record that is saved has the place of its id.
LEMMA SavedKnown ==
    ASSUME TypeOK, LocalKnown, NEW r \in Records, r.uid \in used', r.pro => Pro(r.uid), used \subseteq used', used' \subseteq UIDs,
           SaveWorkspaceConfig(r), UNCHANGED home
    PROVE  LocalKnown' /\ local' \in [IDs -> Records \cup {NoRecord}]
<1>1. r.id \in IDs
  BY DEF Records
<1>2. local' = [local EXCEPT ![r.id] = r] /\ local \in [IDs -> Records \cup {NoRecord}]
  BY DEF SaveWorkspaceConfig, TypeOK
<1>3. local' \in [IDs -> Records \cup {NoRecord}]
  BY <1>1, <1>2
<1>4. LocalKnown'
  BY <1>1, <1>2 DEF LocalKnown, Known, Pro
<1> QED
  BY <1>3, <1>4

\* Other places keep their records when one is removed.
LEMMA RemovedKnown ==
    ASSUME TypeOK, LocalKnown, NEW i \in IDs, DeleteWorkspaceFolder(i), UNCHANGED <<home, used>>
    PROVE  /\ LocalKnown' /\ local' \in [IDs -> Records \cup {NoRecord}]
           /\ \A j \in IDs : local'[j] \in {local[j], NoRecord}
<1>1. local' = [local EXCEPT ![i] = NoRecord] /\ local \in [IDs -> Records \cup {NoRecord}]
  BY DEF DeleteWorkspaceFolder, TypeOK
<1>2. \A j \in IDs : local'[j] \in {local[j], NoRecord}
  BY <1>1
<1>3. LocalKnown'
  BY <1>1, <1>2 DEF LocalKnown, Known, Pro
<1> QED
  BY <1>1, <1>2, <1>3

\* What a command that lists may find: records that it read, and instances.
LEMMA MergedKnown ==
    ASSUME ListInv, pc = "clean", NEW r \in Merged
    PROVE  Known(r) /\ (r \in records \/ r.pro)
<1>1. CASE r \in CleanedLocal
  BY <1>1 DEF CleanedLocal, ListInv, RecordsRead
<1>2. CASE \E u \in ProWorkspaces : r = Record(home[u].id, u, TRUE, FALSE)
  <2>1. PICK u \in ProWorkspaces : r = Record(home[u].id, u, TRUE, FALSE)
    BY <1>2
  <2>2. PICK q \in Providers : u \in results[q] /\ results[q] # Failed
    BY <2>1 DEF ProWorkspaces
  <2>3. u \in used /\ home[u].provider = q
    BY <2>2 DEF ListInv, AnswersRight, Answer
  <2>4. u \in UIDs /\ Pro(u) /\ home[u].id \in IDs
    BY <2>3, ListAssumption DEF ListInv, TypeOK, Pro
  <2> QED
    BY <2>1, <2>3, <2>4 DEF Known, Records, Record
<1> QED
  BY <1>1, <1>2 DEF Merged
\* Every step keeps the invariant.
LEMMA ListInvNext == ListInv /\ [Next]_vars => ListInv'
<1> SUFFICES ASSUME ListInv, [Next]_vars PROVE ListInv'
  OBVIOUS
<1>t. TypeOK /\ LocalKnown /\ InstancesPro /\ RecordsRead /\ AnswersRight /\ FoundIsMarked
  BY DEF ListInv
<1>1. ASSUME NEW u \in UIDs, CreateElsewhere(u) PROVE ListInv'
  <2>1. /\ u \notin used /\ Pro(u) /\ remote' = remote \cup {u} /\ used' = used \cup {u}
        /\ UNCHANGED <<home, local, pc, cmd, tgt, force, uid, records, results, todo, kept, cfg, commands>>
    BY <1>1 DEF CreateElsewhere, argVars, scanVars
  <2>2. TypeOK'
    BY <1>t, <2>1 DEF TypeOK
  <2>3. LocalKnown' /\ InstancesPro' /\ RecordsRead' /\ FoundIsMarked'
    BY <1>t, <2>1 DEF LocalKnown, InstancesPro, RecordsRead, FoundIsMarked, Known, Pro, Marked
  <2>4. AnswersRight'
    <3>1. ASSUME NEW q \in Providers, Answer(q), pc \in {"pro", "clean"} PROVE Answer(q)'
      BY <1>t, <2>1, <3>1 DEF Answer, RecordsRead, Known
    <3> QED
      BY <1>t, <2>1, <3>1 DEF AnswersRight
  <2> QED
    BY <2>2, <2>3, <2>4 DEF ListInv
<1>2. ASSUME NEW u \in UIDs, DeleteElsewhere(u) PROVE ListInv'
  <2>1. /\ remote' = remote \ {u}
        /\ UNCHANGED <<home, local, used, pc, cmd, tgt, force, uid, records, results, todo, kept, cfg, commands>>
    BY <1>2 DEF DeleteElsewhere, argVars, scanVars
  <2>2. TypeOK'
    BY <1>t, <2>1 DEF TypeOK
  <2>3. LocalKnown' /\ InstancesPro' /\ RecordsRead' /\ FoundIsMarked'
    BY <1>t, <2>1 DEF LocalKnown, InstancesPro, RecordsRead, FoundIsMarked, Known, Pro, Marked
  <2>4. AnswersRight'
    BY <1>t, <2>1 DEF AnswersRight, Answer
  <2> QED
    BY <2>2, <2>3, <2>4 DEF ListInv
<1>3. ASSUME NEW u \in UIDs, Import(u) PROVE ListInv'
  <2>0. PICK i \in ImportIds(u) : SaveWorkspaceConfig(Record(i, u, TRUE, ~home[u].own))
    BY <1>3 DEF Import
  <2>i. i \in IDs /\ (~home[u].own) \in BOOLEAN
    <3>1. home[u].id \in IDs
      BY <1>t DEF TypeOK
    <3>2. ImportIds(u) \subseteq IDs
      BY <3>1 DEF ImportIds
    <3> QED
      BY <2>0, <3>2
  <2> DEFINE r == Record(i, u, TRUE, ~home[u].own)
  <2>1. /\ pc = "idle" /\ u \in remote /\ commands < MaxCommands /\ SaveWorkspaceConfig(r) /\ commands' = commands + 1
        /\ UNCHANGED <<home, remote, used, pc, cmd, tgt, force, uid, records, results, todo, kept, cfg>>
    BY <1>3, <2>0 DEF Import, argVars, scanVars
  <2>2. r \in Records /\ r.uid = u /\ u \in used /\ Pro(u)
    BY <1>t, <2>i, <2>1 DEF Record, Records, TypeOK, InstancesPro
  <2> HIDE DEF r
  <2>3. LocalKnown' /\ local' \in [IDs -> Records \cup {NoRecord}]
    BY <1>t, <2>1, <2>2, SavedKnown DEF TypeOK
  <2>4. TypeOK'
    BY <1>t, <2>1, <2>3, ListAssumption DEF TypeOK
  <2>5. InstancesPro' /\ RecordsRead' /\ FoundIsMarked' /\ AnswersRight'
    BY <1>t, <2>1 DEF InstancesPro, RecordsRead, FoundIsMarked, AnswersRight, Pro
  <2> QED
    BY <2>3, <2>4, <2>5 DEF ListInv
<1>4. CASE Start
  <2>1. /\ pc = "idle" /\ commands < MaxCommands /\ pc' = "local" /\ tgt' \in IDs /\ commands' = commands + 1
        /\ UNCHANGED <<home, local, remote, used, uid, records, results, todo, kept, cfg>>
    BY <1>4 DEF Start, Goto, scanVars
  <2>2. cmd' \in {"list", "get", "up", "delete"} /\ force' \in BOOLEAN
    BY <1>4, ListAssumption DEF Start
  <2>3. TypeOK'
    BY <1>t, <2>1, <2>2, ListAssumption DEF TypeOK, Places
  <2>4. LocalKnown' /\ InstancesPro' /\ RecordsRead' /\ FoundIsMarked' /\ AnswersRight'
    BY <1>t, <2>1 DEF LocalKnown, InstancesPro, RecordsRead, FoundIsMarked, AnswersRight, Known, Pro
  <2> QED
    BY <2>3, <2>4 DEF ListInv
<1>5. CASE ListLocalWorkspaces
  <2>1. /\ pc = "local" /\ pc' = "pro" /\ records' = {local[i] : i \in IDs} \ {NoRecord}
        /\ results' = [q \in Providers |-> Unset]
        /\ UNCHANGED <<home, local, remote, used, cmd, tgt, force, uid, todo, kept, cfg, commands>>
    BY <1>5 DEF ListLocalWorkspaces, Goto, argVars
  <2>2. \A r \in records' : Known(r) /\ local[r.id] = r /\ r \in Records
    BY <1>t, <2>1 DEF LocalKnown, Known
  <2>3. TypeOK'
    BY <1>t, <2>1, <2>2 DEF TypeOK, Places
  <2>4. LocalKnown' /\ InstancesPro' /\ FoundIsMarked' /\ AnswersRight'
    BY <1>t, <2>1 DEF LocalKnown, InstancesPro, FoundIsMarked, AnswersRight, Known, Pro
  <2>5. RecordsRead'
    BY <2>1, <2>2 DEF RecordsRead, Known, Pro
  <2> QED
    BY <2>3, <2>4, <2>5 DEF ListInv
<1>6. ASSUME NEW q \in Providers, ListProWorkspaces(q) PROVE ListInv'
  <2>1. /\ pc = "pro"
        /\ UNCHANGED <<home, local, remote, used, pc, cmd, tgt, force, uid, records, todo, kept, cfg, commands>>
    BY <1>6 DEF ListProWorkspaces, argVars
  <2>2. PICK x : /\ results' = [results EXCEPT ![q] = x]
                 /\ x = Failed \/ x = {u \in remote : home[u].provider = q /\ home[u].own}
    BY <1>6 DEF ListProWorkspaces
  <2>3. /\ results'[q] = x /\ DOMAIN results' = Providers
        /\ results' = [y \in Providers |-> results'[y]]
        /\ \A y \in Providers : y # q => results'[y] = results[y]
    BY <1>t, <2>2 DEF AnswersRight
  <2>4. results'[q] = Failed \/ Answer(q)'
    BY <1>t, <2>1, <2>2, <2>3 DEF TypeOK, Answer
  <2>5. \A y \in Providers : y # q => Answer(y)' = Answer(y)
    BY <2>1, <2>3 DEF Answer
  <2>6. AnswersRight'
    BY <1>t, <2>1, <2>3, <2>4, <2>5 DEF AnswersRight
  <2>7. TypeOK'
    <3>1. \A y \in Providers : results'[y] \in {Unset, Failed} \/ results'[y] \subseteq UIDs
      BY <1>t, <2>2, <2>3 DEF TypeOK
    <3> QED
      BY <1>t, <2>1, <3>1 DEF TypeOK
  <2>8. LocalKnown' /\ InstancesPro' /\ RecordsRead' /\ FoundIsMarked'
    BY <1>t, <2>1 DEF LocalKnown, InstancesPro, RecordsRead, FoundIsMarked, Known, Pro
  <2> QED
    BY <2>6, <2>7, <2>8 DEF ListInv
<1>7. CASE AllListed
  <2>1. /\ pc = "pro" /\ (\A q \in Providers : results[q] # Unset) /\ todo' = records /\ kept' = FALSE /\ pc' = "clean"
        /\ UNCHANGED <<home, local, remote, used, cmd, tgt, force, uid, records, results, cfg, commands>>
    BY <1>7 DEF AllListed, Goto, argVars
  <2>2. TypeOK'
    BY <1>t, <2>1 DEF TypeOK, Places
  <2>3. LocalKnown' /\ InstancesPro' /\ RecordsRead' /\ FoundIsMarked'
    BY <1>t, <2>1 DEF LocalKnown, InstancesPro, RecordsRead, FoundIsMarked, Known, Pro
  <2>4. AnswersRight'
    BY <1>t, <2>1 DEF AnswersRight, Answer
  <2> QED
    BY <2>2, <2>3, <2>4 DEF ListInv
<1>8. ASSUME NEW r \in todo, CleanLocalWorkspace(r) PROVE ListInv'
  <2>1. /\ pc = "clean" /\ todo' = todo \ {r}
        /\ UNCHANGED <<home, remote, used, pc, cmd, tgt, force, uid, records, results, cfg, commands>>
    BY <1>8 DEF CleanLocalWorkspace, argVars
  <2>2. (DeleteWorkspaceFolder(r.id) /\ UNCHANGED kept) \/ (kept' = TRUE /\ UNCHANGED local)
    BY <1>8 DEF CleanLocalWorkspace
  <2>3. r \in Records /\ r.id \in IDs
    BY <1>t DEF TypeOK, Records
  <2>4. /\ LocalKnown' /\ local' \in [IDs -> Records \cup {NoRecord}] /\ kept' \in BOOLEAN
        /\ \A j \in IDs : local'[j] \in {local[j], NoRecord}
    <3>1. CASE DeleteWorkspaceFolder(r.id) /\ UNCHANGED kept
      BY <1>t, <2>1, <2>3, <3>1, RemovedKnown DEF TypeOK
    <3>2. CASE kept' = TRUE /\ UNCHANGED local
      BY <1>t, <2>1, <3>2 DEF TypeOK, LocalKnown, Known, Pro
    <3> QED
      BY <2>2, <3>1, <3>2
  <2>5. TypeOK'
    BY <1>t, <2>1, <2>4 DEF TypeOK
  <2>6. InstancesPro' /\ FoundIsMarked'
    BY <1>t, <2>1 DEF InstancesPro, FoundIsMarked, Pro
  <2>7. AnswersRight'
    BY <1>t, <2>1 DEF AnswersRight, Answer
  <2>8. RecordsRead'
    BY <1>t, <2>1, <2>4 DEF RecordsRead, Known, Pro, Records
  <2> QED
    BY <2>4, <2>5, <2>6, <2>7, <2>8 DEF ListInv
<1>9. CASE FindWorkspace
  <2>1. /\ pc = "clean" /\ pc' \in {"idle", "load", "create"}
        /\ UNCHANGED <<home, remote, used, cmd, tgt, force, uid, records, results, todo, kept, cfg, commands>>
    BY <1>9 DEF FindWorkspace, Goto, argVars, scanVars
  <2>2. LocalKnown' /\ local' \in [IDs -> Records \cup {NoRecord}] /\ (pc' = "load" => Marked(local'[tgt]))
    <3>1. CASE UNCHANGED local /\ pc' # "load"
      BY <1>t, <2>1, <3>1 DEF TypeOK, LocalKnown, Known, Pro
    <3>2. ASSUME NEW r \in Merged, r.id = tgt,
                 IF r.pro THEN SaveWorkspaceConfig([r EXCEPT !.imported = TRUE]) ELSE UNCHANGED local
          PROVE  LocalKnown' /\ local' \in [IDs -> Records \cup {NoRecord}] /\ Marked(local'[tgt])
      <4>1. Known(r) /\ (r \in records \/ r.pro)
        BY <2>1, MergedKnown
      <4>2. CASE r.pro
        <5> DEFINE x == [r EXCEPT !.imported = TRUE]
        <5>1. x \in Records /\ x.uid = r.uid /\ x.id = tgt /\ x.imported
          BY <3>2, <4>1 DEF Known, Records
        <5>2. SaveWorkspaceConfig(x) /\ x.uid \in used' /\ Pro(x.uid)
          BY <2>1, <3>2, <4>1, <4>2, <5>1 DEF Known
        <5> HIDE DEF x
        <5>3. LocalKnown' /\ local' \in [IDs -> Records \cup {NoRecord}]
          BY <1>t, <2>1, <5>1, <5>2, SavedKnown DEF TypeOK
        <5>4. local'[tgt] = x
          BY <1>t, <5>1, <5>2 DEF SaveWorkspaceConfig, TypeOK
        <5> QED
          BY <5>1, <5>3, <5>4 DEF Marked
      <4>3. CASE ~r.pro
        <5>1. UNCHANGED local /\ local[tgt] \in {r, NoRecord}
          BY <1>t, <2>1, <3>2, <4>1, <4>3 DEF RecordsRead
        <5>2. LocalKnown' /\ local' \in [IDs -> Records \cup {NoRecord}]
          BY <1>t, <2>1, <5>1 DEF TypeOK, LocalKnown, Known, Pro
        <5> QED
          BY <4>3, <5>1, <5>2 DEF Marked
      <4> QED
        BY <4>2, <4>3
    <3> QED
      BY <1>9, <3>1, <3>2 DEF FindWorkspace, Goto
  <2>3. TypeOK'
    BY <1>t, <2>1, <2>2 DEF TypeOK, Places
  <2>4. InstancesPro' /\ RecordsRead' /\ FoundIsMarked' /\ AnswersRight'
    BY <1>t, <2>1, <2>2 DEF InstancesPro, RecordsRead, FoundIsMarked, AnswersRight, Pro
  <2> QED
    BY <2>2, <2>3, <2>4 DEF ListInv
<1>10. CASE LoadExistingWorkspace
  <2>1. /\ pc = "load" /\ cfg' = local[tgt] /\ pc' \in {"delete", "idle"} /\ (pc' = "delete" => local[tgt] # NoRecord)
        /\ UNCHANGED <<home, local, remote, used, cmd, tgt, force, uid, records, results, todo, kept, commands>>
    BY <1>10 DEF LoadExistingWorkspace, Goto, argVars, scanVars
  <2>2. TypeOK'
    BY <1>t, <2>1 DEF TypeOK, Places
  <2>3. LocalKnown' /\ InstancesPro' /\ RecordsRead' /\ AnswersRight'
    BY <1>t, <2>1 DEF LocalKnown, InstancesPro, RecordsRead, AnswersRight, Known, Pro
  <2>4. FoundIsMarked'
    BY <1>t, <2>1 DEF FoundIsMarked, Marked
  <2> QED
    BY <2>2, <2>3, <2>4 DEF ListInv
<1>11. CASE CreateWorkspace
  <2>1. /\ pc = "create" /\ UNCHANGED <<home, remote, cmd, tgt, force, records, results, todo, kept, cfg, commands>>
    BY <1>11 DEF CreateWorkspace, argVars, scanVars
  <2>2. ASSUME NEW u \in UIDs \ used, uid' = u, used' = used \cup {u},
               SaveWorkspaceConfig(Record(tgt, u, FALSE, FALSE)), Goto(IF Pro(u) THEN "instance" ELSE "idle")
        PROVE  ListInv'
    <3> DEFINE r == Record(tgt, u, FALSE, FALSE)
    <3>1. r \in Records /\ r.uid = u /\ ~r.pro /\ SaveWorkspaceConfig(r)
      BY <1>t, <2>2 DEF Record, Records, TypeOK
    <3> HIDE DEF r
    <3>2. LocalKnown' /\ local' \in [IDs -> Records \cup {NoRecord}]
      BY <1>t, <2>1, <2>2, <3>1, SavedKnown DEF TypeOK
    <3>3. pc' \in {"instance", "idle"} /\ (pc' = "instance" => Pro(u))
      BY <2>2 DEF Goto
    <3>4. TypeOK'
      BY <1>t, <2>1, <2>2, <3>2, <3>3 DEF TypeOK, Places
    <3>5. InstancesPro' /\ RecordsRead' /\ FoundIsMarked' /\ AnswersRight'
      BY <1>t, <2>1, <2>2, <3>3 DEF InstancesPro, RecordsRead, FoundIsMarked, AnswersRight, Pro
    <3> QED
      BY <3>2, <3>4, <3>5 DEF ListInv
  <2>3. CASE Goto("idle") /\ UNCHANGED <<local, used, uid>>
    <3>1. TypeOK'
      BY <1>t, <2>1, <2>3 DEF TypeOK, Places, Goto
    <3>2. LocalKnown' /\ InstancesPro' /\ RecordsRead' /\ FoundIsMarked' /\ AnswersRight'
      BY <1>t, <2>1, <2>3 DEF LocalKnown, InstancesPro, RecordsRead, FoundIsMarked, AnswersRight, Known, Pro, Goto
    <3> QED
      BY <3>1, <3>2 DEF ListInv
  <2> QED
    BY <1>11, <2>2, <2>3 DEF CreateWorkspace
<1>12. CASE CreateInstance
  <2>1. /\ pc = "instance" /\ pc' \in {"metadata", "idle"} /\ remote' \in {remote, remote \cup {uid}}
        /\ UNCHANGED <<home, used, cmd, tgt, force, uid, records, results, todo, kept, cfg, commands>>
        /\ DeleteWorkspaceFolder(tgt) \/ UNCHANGED local
    BY <1>12 DEF CreateInstance, Goto, argVars, scanVars
  <2>2. LocalKnown' /\ local' \in [IDs -> Records \cup {NoRecord}]
    <3>1. CASE DeleteWorkspaceFolder(tgt)
      BY <1>t, <2>1, <3>1, RemovedKnown DEF TypeOK
    <3>2. CASE UNCHANGED local
      BY <1>t, <2>1, <3>2 DEF TypeOK, LocalKnown, Known, Pro
    <3> QED
      BY <2>1, <3>1, <3>2
  <2>3. TypeOK'
    BY <1>t, <2>1, <2>2 DEF TypeOK, Places, InstancesPro
  <2>4. InstancesPro' /\ RecordsRead' /\ FoundIsMarked' /\ AnswersRight'
    BY <1>t, <2>1 DEF InstancesPro, RecordsRead, FoundIsMarked, AnswersRight, Pro
  <2> QED
    BY <2>2, <2>3, <2>4 DEF ListInv
<1>13. CASE SaveProMetadata
  <2> DEFINE r == Record(tgt, uid, TRUE, FALSE)
  <2>1. /\ pc = "metadata" /\ pc' = "idle" /\ SaveWorkspaceConfig(r)
        /\ UNCHANGED <<home, remote, used, cmd, tgt, force, uid, records, results, todo, kept, cfg, commands>>
    BY <1>13 DEF SaveProMetadata, Goto, argVars, scanVars
  <2>2. r \in Records /\ r.uid = uid /\ uid \in used /\ Pro(uid)
    BY <1>t, <2>1 DEF Record, Records, TypeOK, InstancesPro
  <2> HIDE DEF r
  <2>3. LocalKnown' /\ local' \in [IDs -> Records \cup {NoRecord}]
    BY <1>t, <2>1, <2>2, SavedKnown DEF TypeOK
  <2>4. TypeOK'
    BY <1>t, <2>1, <2>3 DEF TypeOK, Places
  <2>5. InstancesPro' /\ RecordsRead' /\ FoundIsMarked' /\ AnswersRight'
    BY <1>t, <2>1 DEF InstancesPro, RecordsRead, FoundIsMarked, AnswersRight, Pro
  <2> QED
    BY <2>3, <2>4, <2>5 DEF ListInv
<1>14. CASE Crash
  <2>1. /\ pc' = "idle"
        /\ UNCHANGED <<home, local, remote, used, cmd, tgt, force, uid, records, results, todo, kept, cfg, commands>>
    BY <1>14 DEF Crash, Goto, argVars, scanVars
  <2>2. TypeOK'
    BY <1>t, <2>1 DEF TypeOK, Places
  <2>3. LocalKnown' /\ InstancesPro' /\ RecordsRead' /\ FoundIsMarked' /\ AnswersRight'
    BY <1>t, <2>1 DEF LocalKnown, InstancesPro, RecordsRead, FoundIsMarked, AnswersRight, Known, Pro
  <2> QED
    BY <2>2, <2>3 DEF ListInv
<1>15. CASE Delete
  <2>1. /\ pc = "delete" /\ pc' = "idle" /\ remote' \in {remote, remote \ {cfg.uid}}
        /\ UNCHANGED <<home, used, cmd, tgt, force, uid, records, results, todo, kept, cfg, commands>>
        /\ DeleteWorkspaceFolder(tgt) \/ UNCHANGED local
    BY <1>15 DEF Delete, Goto, argVars, scanVars
  <2>2. LocalKnown' /\ local' \in [IDs -> Records \cup {NoRecord}]
    <3>1. CASE DeleteWorkspaceFolder(tgt)
      BY <1>t, <2>1, <3>1, RemovedKnown DEF TypeOK
    <3>2. CASE UNCHANGED local
      BY <1>t, <2>1, <3>2 DEF TypeOK, LocalKnown, Known, Pro
    <3> QED
      BY <2>1, <3>1, <3>2
  <2>3. TypeOK'
    BY <1>t, <2>1, <2>2 DEF TypeOK, Places
  <2>4. InstancesPro' /\ RecordsRead' /\ FoundIsMarked' /\ AnswersRight'
    BY <1>t, <2>1 DEF InstancesPro, RecordsRead, FoundIsMarked, AnswersRight, Pro
  <2> QED
    BY <2>2, <2>3, <2>4 DEF ListInv
<1>16. CASE UNCHANGED vars
  <2>1. UNCHANGED <<home, local, remote, used, pc, cmd, tgt, force, uid, records, results, todo, kept, cfg, commands>>
    BY <1>16 DEF vars, argVars, scanVars
  <2>2. TypeOK'
    BY <1>t, <2>1 DEF TypeOK
  <2>3. LocalKnown' /\ InstancesPro' /\ RecordsRead' /\ FoundIsMarked'
    BY <1>t, <2>1 DEF LocalKnown, InstancesPro, RecordsRead, FoundIsMarked, Known, Pro
  <2>4. AnswersRight'
    BY <1>t, <2>1 DEF AnswersRight, Answer
  <2> QED
    BY <2>2, <2>3, <2>4 DEF ListInv
<1> QED
  BY <1>1, <1>2, <1>3, <1>4, <1>5, <1>6, <1>7, <1>8, <1>9, <1>10, <1>11, <1>12, <1>13, <1>14, <1>15, <1>16
     DEF Next, Step, Platform, Finished

\* The invariant holds in every reachable state.
LEMMA ListInvAlways == Spec => []ListInv
  BY ListInvInit, ListInvNext, PTL DEF Spec

\* Records, answers and commands keep their shape.
THEOREM ListTypeCorrect == Spec => []TypeOK
  BY ListInvAlways, PTL DEF ListInv

\* List never removes the record of an own workspace whose instance exists, for any
\* workspaces and providers, whatever the platform does while it is asked and whatever fails.
THEOREM OwnIsKeptHolds == Spec => OwnIsKept
<1>1. ListInv /\ [Next]_vars =>
        [\A i \in IDs :
            pc = "clean" /\ local[i] # NoRecord /\ local'[i] = NoRecord
                => ~(home[local[i].uid].own /\ local[i].uid \in remote)]_vars
  <2> SUFFICES ASSUME ListInv, Next, NEW i \in IDs, pc = "clean", local[i] # NoRecord, local'[i] = NoRecord
               PROVE  ~(home[local[i].uid].own /\ local[i].uid \in remote)
    BY DEF vars
  <2>1. TypeOK /\ RecordsRead /\ AnswersRight /\ local' # local
    BY DEF ListInv
  <2>2. FindWorkspace \/ \E r \in todo : CleanLocalWorkspace(r)
    BY <2>1 DEF Next, Step, Platform, Finished, CreateElsewhere, DeleteElsewhere, Import, Start, ListLocalWorkspaces,
       ListProWorkspaces, AllListed, LoadExistingWorkspace, CreateWorkspace, CreateInstance, SaveProMetadata, Delete,
       Crash
  <2>3. ~FindWorkspace
    <3> SUFFICES ASSUME FindWorkspace PROVE FALSE
      OBVIOUS
    <3>1. PICK r \in Merged : r.id = tgt /\ SaveWorkspaceConfig([r EXCEPT !.imported = TRUE])
      BY <2>1 DEF FindWorkspace
    <3>2. r \in Records
      BY <3>1, MergedKnown DEF Known
    <3>3. [r EXCEPT !.imported = TRUE] \in Records /\ NoRecord \notin Records
      BY <3>2, ListAssumption DEF Records
    <3> QED
      BY <2>1, <3>1, <3>3 DEF SaveWorkspaceConfig, TypeOK
  <2>4. PICK r \in todo : CleanLocalWorkspace(r)
    BY <2>2, <2>3
  <2>5. /\ r \in records /\ Known(r) /\ local[r.id] \in {r, NoRecord}
    BY <2>1, <2>4 DEF TypeOK, RecordsRead
  <2>6. PICK answer \in BOOLEAN : r.pro /\ ShouldDelete(r, answer) /\ DeleteWorkspaceFolder(r.id)
    BY <2>1, <2>4 DEF CleanLocalWorkspace
  <2>7. local[i] = r
    BY <2>1, <2>5, <2>6 DEF DeleteWorkspaceFolder, TypeOK
  <2> DEFINE q == home[r.uid].provider
  <2>8. q \in Providers
    BY <2>1, <2>5, <2>6 DEF Known, Records, Pro, TypeOK
  <2>9. results[q] # Failed /\ results[q] # Unset /\ r.uid \notin results[q]
    BY <2>1, <2>6, <2>8 DEF ShouldDelete, AnswersRight
  <2>10. Answer(q)
    BY <2>1, <2>8, <2>9 DEF AnswersRight
  <2> QED
    BY <2>5, <2>7, <2>9, <2>10 DEF Answer
<1> QED
  BY <1>1, ListInvAlways, PTL DEF Spec, OwnIsKept

\* A delete without --force takes no instance away that was known to be one.
THEOREM InstanceNeedsForceHolds == Spec => InstanceNeedsForce
<1>1. ListInv /\ [Next]_vars =>
        [\A u \in UIDs :
            pc = "delete" /\ pc' = "idle" /\ ~force /\ u \in remote /\ cfg.pro => u \in remote']_vars
  <2> SUFFICES ASSUME ListInv, Next, NEW u \in UIDs, pc = "delete", pc' = "idle", ~force, u \in remote, cfg.pro
               PROVE  u \in remote'
    BY DEF vars
  <2>1. cfg.imported
    BY DEF ListInv, FoundIsMarked, Marked
  <2>2. Delete \/ Crash
    BY DEF Next, Step, Platform, Finished, CreateElsewhere, DeleteElsewhere, Import, Start, ListLocalWorkspaces,
       ListProWorkspaces, AllListed, FindWorkspace, CleanLocalWorkspace, LoadExistingWorkspace, CreateWorkspace,
       CreateInstance, SaveProMetadata
  <2> QED
    BY <2>1, <2>2 DEF Delete, Crash
<1> QED
  BY <1>1, ListInvAlways, PTL DEF Spec, InstanceNeedsForce

=============================================================================
