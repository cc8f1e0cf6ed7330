------------------------------ MODULE Settings ------------------------------
(***************************************************************************)
(* The commands that change what DevPod keeps in its folder about          *)
(* contexts, providers and pro instances: config.yaml, the folder of every *)
(* provider with provider.json and the binaries, the record of every pro   *)
(* instance, and the cache of binaries in the temporary folder.  A command *)
(* loads config.yaml, works on its copy, and saves the whole file, some of *)
(* them several times.  One command runs at a time; it may fail or be      *)
(* killed between any two steps.                                           *)
(***************************************************************************)
EXTENDS Integers, FiniteSets

CONSTANTS
    Contexts, DefaultContext,    \* DefaultContext is the context named "default"
    ProviderNames,
    ProProvider, AltProvider,    \* the two names pro login tries
    Versions,                    \* the versions of a provider's provider.yaml
    Checksum,                    \* those that give a checksum for their binaries
    None,
    MaxSettingsCommands, MaxSettingsFaults       \* bounds on commands and on failures and kills

ASSUME SettingsAssumption ==
    /\ DefaultContext \in Contexts /\ {ProProvider, AltProvider} \subseteq ProviderNames
    /\ Checksum \subseteq Versions
    /\ None \notin Contexts \cup ProviderNames \cup Versions
    /\ MaxSettingsCommands \in Nat /\ MaxSettingsFaults \in Nat

VARIABLES
    conf,        \* config.yaml, or NoFile
    folder,      \* provider folders: provider.json and the binary
    cache,       \* the cached binary of every version
    pro,              \* the provider of the pro instance, by context
    com,         \* the command that runs
    interrupted, \* the providers with an update that did not get to its end
    coms, settingsFaults

settingsVars == <<conf, folder, cache, pro, com, interrupted, coms, settingsFaults>>

NoContext == [provider |-> None, states |-> [p \in {} |-> None]]
NoFile == [context |-> None, contexts |-> [c \in {} |-> NoContext]]
NoFolder == [json |-> None, binary |-> None]
Idle == [kind |-> "none", pc |-> "none"]
PutAt(f, x, v) == [y \in DOMAIN f \cup {x} |-> IF y = x THEN v ELSE f[y]]
Without(f, x) == [y \in DOMAIN f \ {x} |-> f[y]]
Or(x, y) == IF x = None THEN y ELSE x

-----------------------------------------------------------------------------
\* The copy LoadConfig returns, with the --context and --provider of the command.
LoadConfig(context, provider) ==
    LET now == Or(context, Or(conf.context, DefaultContext))
        all == IF now \in DOMAIN conf.contexts THEN conf.contexts ELSE PutAt(conf.contexts, now, NoContext)
    IN [context |-> now,
        originalContext |-> IF context = None THEN None ELSE conf.context,
        originalProvider |-> IF provider = None \/ conf = NoFile THEN None ELSE all[now].provider,
        overridden |-> now,
        contexts |-> [all EXCEPT ![now].provider = Or(provider, @)]]

\* What SaveConfig writes: the overrides are taken back.
Saved(copy) ==
    LET c == Or(copy.originalContext, copy.context)
    IN [context |-> c,
        contexts |-> IF copy.overridden = c
                     THEN [copy.contexts EXCEPT ![c].provider = Or(copy.originalProvider, @)]
                     ELSE copy.contexts]

\* Config.Contexts[config.DefaultContext] is dereferenced.
SaveCrashes(copy) == Or(copy.originalContext, copy.context) \notin DOMAIN copy.contexts

InContext == com.copy.context
States(copy) == copy.contexts[copy.context].states

\* LoadAllProviders: a folder without provider.json is an error for all providers.
ProvidersLoad == \A p \in ProviderNames : folder[InContext][p].json = None => folder[InContext][p].binary = None

\* FindProvider
Found(p) == ProvidersLoad /\ folder[InContext][p].json # None

-----------------------------------------------------------------------------
SettingsInit ==
    /\ conf = NoFile
    /\ folder = [c \in Contexts |-> [p \in ProviderNames |-> NoFolder]]
    /\ cache = [v \in Versions |-> None]
    /\ pro = [c \in Contexts |-> None]
    /\ com = Idle /\ interrupted = {} /\ coms = 0 /\ settingsFaults = 0

\* A command starts with LoadConfig.
Begin(kind, context, provider, p, v, given, flag) ==
    /\ com = Idle /\ coms < MaxSettingsCommands
    /\ com' = [kind |-> kind, override |-> context, overrideProvider |-> provider, provider |-> p, version |-> v, given |-> given,
               flag |-> flag, copy |-> LoadConfig(context, provider), pc |-> "run", tries |-> 0,
               before |-> IF kind \in {"add", "clone"} THEN [conf |-> conf, folder |-> folder] ELSE None]
    /\ coms' = coms + 1
    /\ UNCHANGED <<conf, folder, cache, pro, interrupted, settingsFaults>>

SettingsGoto(l) == com' = [com EXCEPT !.pc = l]
Running(kinds, l) == com.kind \in kinds /\ com.pc = l

\* The command ends, with an error or without.
CommandReturns ==
    /\ com' = Idle
    /\ UNCHANGED <<conf, folder, cache, pro, interrupted, coms, settingsFaults>>

SettingsFault == settingsFaults < MaxSettingsFaults /\ settingsFaults' = settingsFaults + 1
NoFault == UNCHANGED settingsFaults

-----------------------------------------------------------------------------
\* ResolveProvider: provider.yaml is built in, a file, a download or a release.
ResolveProvider ==
    /\ Running({"add", "update"}, "run")
    /\ com.kind = "update" => com.provider \in DOMAIN States(com.copy)
    /\ SettingsGoto("parse")
    /\ UNCHANGED <<conf, folder, cache, pro, interrupted, coms, settingsFaults>>

ResolveProviderFails == Running({"add", "update"}, "run") /\ CommandReturns

\* ParseProvider: what has come is no valid provider.
InvalidProvider == Running({"add", "update"}, "parse") /\ CommandReturns

\* installProvider, up to the download: the name has to be free.
StartInstall ==
    /\ Running({"add"}, "parse") \/ Running({"clone"}, "run")
    /\ com.provider \notin DOMAIN States(com.copy)
    /\ folder[InContext][com.provider] = NoFolder
    /\ com.kind = "clone" => \E q \in DOMAIN States(com.copy) : Found(q) /\ folder[InContext][q].json = com.version
    /\ SettingsGoto("download")
    /\ UNCHANGED <<conf, folder, cache, pro, interrupted, coms, settingsFaults>>

Refused ==
    /\ \/ /\ Running({"add"}, "parse") \/ Running({"clone"}, "run")
          /\ \/ com.provider \in DOMAIN States(com.copy)
             \/ folder[InContext][com.provider] # NoFolder
             \/ com.kind = "clone" /\ ~\E q \in DOMAIN States(com.copy) : Found(q) /\ folder[InContext][q].json = com.version
       \/ Running({"use", "set"}, "run") /\ ~Found(com.provider)
       \/ Running({"set"}, "run") /\ ~com.given
       \/ Running({"update"}, "run") /\ com.provider \notin DOMAIN States(com.copy)
       \/ Running({"login"}, "run") /\ pro[InContext] = None /\ ~ProvidersLoad
    /\ CommandReturns

\* updateProvider saves config.yaml first, without the options that the new version does
\* not define.
StartUpdate ==
    /\ Running({"update"}, "parse") /\ com.provider \in DOMAIN States(com.copy)
    /\ conf' = Saved(com.copy) /\ SettingsGoto("download")
    /\ interrupted' = interrupted \cup {<<InContext, com.provider>>}
    /\ UNCHANGED <<folder, cache, pro, coms, settingsFaults>>

\* Mutant: what lies there is taken for the binary.
VerifyBinaryExists(binary, v) == binary # None

\* verifyBinary: without a checksum any file will do.
VerifyBinary(binary, v) == binary # None /\ (v \in Checksum => binary = v)

\* DownloadBinaries: the file is there, or is copied from the cache, or is downloaded.  The
\* cache goes by the hash of the url; here every version has a url of its own.
HaveBinary ==
    /\ com.kind \in {"add", "clone", "update"} /\ com.pc = "download"
    /\ VerifyBinary(folder[InContext][com.provider].binary, com.version)
    /\ SettingsGoto("save json")
    /\ UNCHANGED <<conf, folder, cache, pro, interrupted, coms, settingsFaults>>

\* A binary in the cache that has the checksum is copied, another one is removed.
FromCache ==
    /\ com.kind \in {"add", "clone", "update"} /\ com.pc = "download"
    /\ ~VerifyBinary(folder[InContext][com.provider].binary, com.version)
    /\ IF VerifyBinary(cache[com.version], com.version)
       THEN /\ folder' = [folder EXCEPT ![InContext][com.provider].binary = cache[com.version]]
            /\ SettingsGoto("save json")
       ELSE /\ folder' = [folder EXCEPT ![InContext][com.provider].binary = None]
            /\ SettingsGoto("fetch")
    /\ cache' = IF VerifyBinary(cache[com.version], com.version) THEN cache
                ELSE [cache EXCEPT ![com.version] = None]
    /\ UNCHANGED <<conf, pro, interrupted, coms, settingsFaults>>

\* downloadBinary, and the copy to the cache.
Fetch ==
    /\ com.pc = "fetch"
    /\ folder' = [folder EXCEPT ![InContext][com.provider].binary = com.version]
    /\ cache' = [cache EXCEPT ![com.version] = com.version]
    /\ SettingsGoto("save json")
    /\ UNCHANGED <<conf, pro, interrupted, coms, settingsFaults>>

\* The file does not have the checksum: it is removed, and fetched three times at most.
FetchWrong ==
    /\ com.pc = "fetch" /\ com.version \in Checksum /\ NoFault
    /\ com' = [com EXCEPT !.tries = @ + 1, !.pc = IF com.tries = 2 THEN "failed" ELSE "fetch"]
    /\ UNCHANGED <<conf, folder, cache, pro, interrupted, coms>>

FetchFails ==
    /\ com.pc = "fetch" /\ SettingsFault
    /\ SettingsGoto("failed")
    /\ UNCHANGED <<conf, folder, cache, pro, interrupted, coms>>

\* installProvider removes the folder, updateProvider the binaries.
DownloadFailed ==
    /\ com.pc = "failed"
    /\ folder' = [folder EXCEPT ![InContext][com.provider] =
                     IF com.kind = "update" THEN [@ EXCEPT !.binary = None] ELSE NoFolder]
    /\ com' = Idle
    /\ UNCHANGED <<conf, cache, pro, interrupted, coms, settingsFaults>>

SaveProviderConfig ==
    /\ com.pc = "save json"
    /\ folder' = [folder EXCEPT ![InContext][com.provider].json = com.version]
    /\ SettingsGoto(IF com.kind = "add" \/ com.kind = "login" THEN "save state" ELSE IF com.flag THEN "configure" ELSE "done")
    /\ interrupted' = interrupted \ {<<InContext, com.provider>>}
    /\ UNCHANGED <<conf, cache, pro, coms, settingsFaults>>

\* AddProviderRaw
SaveState ==
    /\ com.pc = "save state"
    /\ LET copy == [com.copy EXCEPT !.contexts[InContext].states =
                        PutAt(@, com.provider, [init |-> FALSE])]
       IN conf' = Saved(copy) /\ com' = [com EXCEPT !.copy = copy,
                                                    !.pc = IF com.kind = "login" THEN "save pro"
                                                           ELSE IF com.flag THEN "configure" ELSE "done"]
    /\ UNCHANGED <<folder, cache, pro, interrupted, coms, settingsFaults>>

Done == com.pc = "done" /\ CommandReturns

-----------------------------------------------------------------------------
\* `provider use` of a provider that has a state and without options only switches.
Use ==
    /\ Running({"use"}, "run") /\ Found(com.provider)
    /\ IF com.flag \/ com.given \/ com.provider \notin DOMAIN States(com.copy)
       THEN SettingsGoto("configure") /\ UNCHANGED conf
       ELSE /\ conf' = Saved([com.copy EXCEPT !.contexts[InContext].provider = com.provider])
            /\ com' = Idle
    /\ UNCHANGED <<folder, cache, pro, interrupted, coms, settingsFaults>>

\* `provider set-options`
SetOptions ==
    /\ Running({"set"}, "run") /\ Found(com.provider) /\ com.given
    /\ SettingsGoto("configure")
    /\ UNCHANGED <<conf, folder, cache, pro, interrupted, coms, settingsFaults>>

\* The states of the copy once setOptions and init are through.
Configured(copy) == PutAt(States(copy), com.provider, [init |-> TRUE])

\* ConfigureProvider: options, init, default provider.
ConfigureProvider ==
    /\ com.pc = "configure"
    /\ folder[InContext][com.provider].binary # None
    /\ LET copy == LoadConfig(InContext, None)
           states == [copy EXCEPT !.contexts[InContext].states = Configured(copy)]
       IN conf' = Saved(IF com.kind = "set" THEN states
                        ELSE [states EXCEPT !.contexts[InContext].provider = com.provider])
    /\ com' = Idle
    /\ UNCHANGED <<folder, cache, pro, interrupted, coms, settingsFaults>>

\* A dry run, or an option or init that fails: nothing is saved.  `provider add`
\* deletes what it has added.
ConfigureFails ==
    /\ com.pc = "configure"
    /\ IF folder[InContext][com.provider].binary = None \/ com.kind = "set" THEN NoFault ELSE SettingsFault
    /\ IF com.kind \in {"add", "clone"}
       THEN com' = [com EXCEPT !.pc = "delete", !.copy = LoadConfig(com.override, None)]
       ELSE com' = Idle
    /\ UNCHANGED <<conf, folder, cache, pro, interrupted, coms>>

\* Mutant: the folder stays.
DeleteProviderConfigOnly ==
    /\ com.pc = "delete"
    /\ LET copy == [com.copy EXCEPT !.contexts[InContext].provider = IF @ = com.provider THEN None ELSE @,
                                    !.contexts[InContext].states = Without(@, com.provider)]
       IN conf' = Saved(copy)
    /\ SettingsGoto(IF com.kind = "pro delete" THEN "delete pro" ELSE "done")
    /\ UNCHANGED <<folder, cache, pro, interrupted, coms, settingsFaults>>

\* DeleteProviderConfig: first the state, then the folder.
DeleteProviderConfig ==
    /\ com.pc = "delete"
    /\ LET copy == [com.copy EXCEPT !.contexts[InContext].provider = IF @ = com.provider THEN None ELSE @,
                                    !.contexts[InContext].states = Without(@, com.provider)]
       IN conf' = Saved(copy)
    /\ SettingsGoto("delete folder")
    /\ UNCHANGED <<folder, cache, pro, interrupted, coms, settingsFaults>>

DeleteFolder ==
    /\ com.pc = "delete folder"
    /\ folder' = [folder EXCEPT ![InContext][com.provider] = NoFolder]
    /\ interrupted' = interrupted \ {<<InContext, com.provider>>}
    /\ SettingsGoto(IF com.kind = "pro delete" THEN "delete pro" ELSE "done")
    /\ UNCHANGED <<conf, cache, pro, coms, settingsFaults>>

\* `provider delete`: unless forced (flag), not a provider that an instance
\* or one of the workspaces, which are not modelled here, uses.
DeleteProvider ==
    /\ Running({"delete"}, "run")
    /\ \/ ~com.flag /\ com' = Idle
       \/ (com.flag \/ pro[InContext] # com.provider) /\ SettingsGoto("delete")
    /\ UNCHANGED <<conf, folder, cache, pro, interrupted, coms, settingsFaults>>

-----------------------------------------------------------------------------
\* `pro login`: an instance that is known has its provider.  The built-in provider has
\* no binaries to download.
Login ==
    /\ Running({"login"}, "run")
    /\ IF pro[InContext] # None
       THEN IF folder[InContext][pro[InContext]].json = None THEN com' = Idle
            ELSE com' = [com EXCEPT !.provider = pro[InContext], !.pc = "configure",
                                    !.version = folder[InContext][pro[InContext]].json]
       ELSE /\ ProvidersLoad
            /\ LET name == IF folder[InContext][ProProvider].json = None THEN ProProvider ELSE AltProvider
               IN IF folder[InContext][name] # NoFolder \/ name \in DOMAIN States(com.copy)
                  THEN com' = Idle ELSE com' = [com EXCEPT !.provider = name, !.pc = "install"]
    /\ UNCHANGED <<conf, folder, cache, pro, interrupted, coms, settingsFaults>>

InstallBuiltIn ==
    /\ com.pc = "install"
    /\ folder' = [folder EXCEPT ![InContext][com.provider].binary = com.version]
    /\ SettingsGoto("save json")
    /\ UNCHANGED <<conf, cache, pro, interrupted, coms, settingsFaults>>

SaveProInstance ==
    /\ com.pc = "save pro"
    /\ pro' = [pro EXCEPT ![InContext] = com.provider]
    /\ SettingsGoto(IF com.flag THEN "configure" ELSE "done")
    /\ UNCHANGED <<conf, folder, cache, interrupted, coms, settingsFaults>>

\* `pro delete`: the provider has to load.
ProDelete ==
    /\ Running({"pro delete"}, "run")
    /\ IF pro[InContext] = None THEN com' = Idle
       ELSE IF folder[InContext][pro[InContext]].json = None THEN com' = Idle
       ELSE com' = [com EXCEPT !.provider = pro[InContext], !.pc = "delete"]
    /\ UNCHANGED <<conf, folder, cache, pro, interrupted, coms, settingsFaults>>

ProDeleteInstance ==
    /\ com.pc = "delete pro"
    /\ pro' = [pro EXCEPT ![InContext] = None]
    /\ com' = Idle
    /\ UNCHANGED <<conf, folder, cache, interrupted, coms, settingsFaults>>

-----------------------------------------------------------------------------
\* The context and ide commands load, change and save in one go.
SaveAndReturn(copy) ==
    /\ conf' = IF SaveCrashes(copy) THEN conf ELSE Saved(copy)
    /\ com' = Idle
    /\ UNCHANGED <<folder, cache, pro, interrupted, coms, settingsFaults>>

Argument == Or(com.override, DefaultContext)
Plain == LoadConfig(None, com.overrideProvider)

CreateContext ==
    /\ Running({"create context"}, "run")
    /\ IF Argument \in DOMAIN Plain.contexts THEN CommandReturns
       ELSE SaveAndReturn([Plain EXCEPT !.contexts = PutAt(@, Argument, NoContext), !.context = Argument])

UseContext ==
    /\ Running({"use context"}, "run")
    /\ IF Argument \notin DOMAIN Plain.contexts THEN CommandReturns
       ELSE SaveAndReturn([Plain EXCEPT !.context = Argument])

\* The context is loaded as the current one: one that is not there comes to be.
DeleteContext ==
    /\ Running({"delete context"}, "run")
    /\ IF InContext = DefaultContext THEN CommandReturns
       ELSE SaveAndReturn([com.copy EXCEPT !.contexts = Without(@, InContext), !.context = DefaultContext,
                               !.originalContext = IF @ = InContext THEN DefaultContext ELSE @])

\* set-options of a context, and the ide commands, change nothing the properties see
\* beside the overrides that every save takes back.
SetContextOptions ==
    /\ Running({"set context"}, "run")
    /\ IF Argument \notin DOMAIN Plain.contexts THEN CommandReturns ELSE SaveAndReturn(Plain)

UseIde == Running({"use ide"}, "run") /\ SaveAndReturn(com.copy)
SetIdeOptions == Running({"set ide"}, "run") /\ SaveAndReturn(com.copy)

\* os.RemoveAll that does not get to its end leaves any part of a folder.
PartRemoved ==
    LET f == folder[InContext][com.provider] IN
    \E j \in {f.json} \cup (IF com.pc = "delete folder" THEN {None} ELSE {}), b \in {f.binary, None} :
        folder' = [folder EXCEPT ![InContext][com.provider] = [json |-> j, binary |-> b]]

\* provider.json, config.yaml or the record of the instance cannot be written, or a folder
\* not be removed: the command returns, and cleans nothing up.
WriteFails ==
    /\ com.pc \in {"failed", "save json", "save state", "save pro", "delete", "delete folder", "delete pro"}
    /\ SettingsFault
    /\ com' = Idle
    /\ IF com.pc \in {"failed", "delete folder"} THEN PartRemoved ELSE UNCHANGED folder
    /\ UNCHANGED <<conf, cache, pro, interrupted, coms>>

\* The process is killed, perhaps while it writes the binary or the cache or removes the folder.
KillCommand ==
    /\ com # Idle /\ SettingsFault
    /\ com' = Idle
    /\ \/ UNCHANGED <<folder, cache>>
       \/ /\ com.pc = "fetch" \/ (com.pc = "download" /\ ~VerifyBinary(folder[InContext][com.provider].binary, com.version))
          /\ folder' = [folder EXCEPT ![InContext][com.provider].binary = "part"]
          /\ cache' \in {cache, [cache EXCEPT ![com.version] = "part"]}
       \/ com.pc \in {"failed", "delete folder"} /\ PartRemoved /\ UNCHANGED cache
    /\ UNCHANGED <<conf, pro, interrupted, coms>>

SettingsNext ==
    \/ \E context \in Contexts \cup {None}, provider \in {None, ProProvider} :
         \/ \E p \in ProviderNames, flag \in BOOLEAN, given \in BOOLEAN :
              \/ \E kind \in {"add", "clone", "update"}, v \in Versions :
                    Begin(kind, context, provider, p, v, given, flag)
              \/ \E kind \in {"use", "set"} :
                    Begin(kind, context, provider, p, folder[LoadConfig(context, provider).context][p].json, given, flag)
         \/ \E p \in ProviderNames, flag \in BOOLEAN : Begin("delete", context, provider, p, None, FALSE, flag)
         \/ \E v \in Versions, flag \in BOOLEAN : Begin("login", context, provider, ProProvider, v, FALSE, flag)
         \/ \E kind \in {"pro delete", "create context", "use context", "delete context", "set context", "use ide", "set ide"} :
              Begin(kind, context, provider, ProProvider, None, FALSE, TRUE)
    \/ ResolveProvider \/ ResolveProviderFails \/ InvalidProvider \/ StartInstall \/ Refused \/ StartUpdate \/ HaveBinary \/ FromCache \/ Fetch \/ FetchWrong
    \/ FetchFails \/ DownloadFailed \/ SaveProviderConfig \/ SaveState \/ Done
    \/ Use \/ SetOptions \/ ConfigureProvider \/ ConfigureFails \/ DeleteProviderConfig
    \/ DeleteFolder \/ DeleteProvider \/ Login \/ InstallBuiltIn \/ SaveProInstance \/ ProDelete
    \/ ProDeleteInstance \/ CreateContext \/ UseContext \/ DeleteContext \/ SetContextOptions
    \/ UseIde \/ SetIdeOptions \/ WriteFails \/ KillCommand

SettingsSpec == SettingsInit /\ [][SettingsNext]_settingsVars

-----------------------------------------------------------------------------
StatesOf(file) ==
    {x \in Contexts \X ProviderNames :
        x[1] \in DOMAIN file.contexts /\ x[2] \in DOMAIN file.contexts[x[1]].states}

\* `provider add` has added its provider, and configured it if that was asked for.
AddSucceeds == ConfigureProvider \/ (com.pc = "done" /\ ~com.flag)

\* What `provider add` that does not succeed leaves.
AddLeaves ==
    LET own == <<InContext, com.provider>> IN
    /\ \A c \in Contexts, p \in ProviderNames : <<c, p>> # own => folder'[c][p] = com.before.folder[c][p]
    /\ StatesOf(conf') \ {own} = StatesOf(com.before.conf) \ {own}
    /\ own \in StatesOf(conf') \ StatesOf(com.before.conf) => folder'[InContext][com.provider].json # None
    /\ ~WriteFails /\ ~KillCommand
          => folder' = com.before.folder /\ StatesOf(conf') = StatesOf(com.before.conf)

\* `provider add` that does not succeed leaves the providers and their folders as they
\* were: what was there is checked before the download, and a failed configuration deletes
\* what was added (cmd/provider/add.go).  When provider.json or config.yaml cannot be
\* written, the folder not be removed, or the process is killed, nothing is cleaned up:
\* then too every other provider is as it was, and what is left of the new one is a
\* folder, with provider.json if the provider also has a state.
AddAllOrNothing ==
    [][com.kind \in {"add", "clone"} /\ com' = Idle /\ ~AddSucceeds => AddLeaves]_settingsVars

\* A provider whose version gives a checksum never has another binary, over downloads
\* that break off, wrong files, retries and a cache that somebody killed half way; only
\* an update that did not get to its end may leave one.
VerifiedBinary ==
    \A c \in Contexts, p \in ProviderNames :
        LET f == folder[c][p] IN
        f.json \in Checksum /\ <<c, p>> \notin interrupted => f.binary \in {f.json, None}

=============================================================================
