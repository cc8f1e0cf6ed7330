CONSTANTS
    Procs = {p1, p2}
    Workspaces = {w1}
    Machines = {m1, m2}
    SingleMachine = m1
    NoProc = NoProc
    NoMachine = NoMachine
    NoConfig = NoConfig
    Kinds = {"none", "own", "single"}
    Commands = {"up", "build", "stop", "delete", "forceDelete", "machineCreate", "machineStart", "machineStop", "machineDelete"}
    Existing = {w1}
    MaxFaults = 1
    MaxActive = 2
SPECIFICATION FairSpec
PROPERTIES EveryCommandEnds
