CONSTANTS
    Procs = {p1, p2, p3}
    Workspaces = {w1, w2}
    Machines = {m1, m2, m3, m4}
    SingleMachine = m1
    NoProc = NoProc
    NoMachine = NoMachine
    NoConfig = NoConfig
    Kinds = {"none", "own", "single"}
    Commands = {"up", "build", "stop", "delete", "forceDelete", "machineCreate", "machineStart", "machineStop", "machineDelete"}
    Existing = {}
    MaxFaults = 1
    MaxActive = 1
SYMMETRY Symmetry
SPECIFICATION Spec
INVARIANTS NoUnusedMachine
PROPERTIES ForceDeleteRecovers UsedMachineIsKept
