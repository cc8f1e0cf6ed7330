CONSTANTS
    Procs = {p1, p2}
    Workspaces = {w1, w2}
    Machines = {m1, m2, m3}
    SingleMachine = m1
    NoProc = NoProc
    NoMachine = NoMachine
    NoConfig = NoConfig
    Kinds = {"none", "own", "single"}
    Commands = {"up", "build", "stop", "delete", "forceDelete", "machineCreate", "machineStart", "machineStop", "machineDelete"}
    Existing = {w1}
    MaxFaults = 1
    MaxActive = 2
    Contexts = {default, work}
    DefaultContext = default
    ProviderNames = {p, pp}
    ProProvider = pp
    AltProvider = p
    Versions = {v1, v2}
    Checksum = {v2}
    None = none
    MaxSettingsCommands = 2
    MaxSettingsFaults = 1
SYMMETRY Symmetry
SPECIFICATION CommandSpec
INVARIANTS VerifiedBinary
PROPERTIES UpUndisturbed AddAllOrNothing
