CONSTANTS
    Procs = {p1, p2, p3}
    Workspaces = {w1, w2}
    Machines = {m1, m2}
    NoProc = NoProc
    NoMachine = NoMachine
    BrowserUps = {b1, b2}
    LastPort = 2
    Clients = {a, b}
    MaxAttempts = 2
    MaxInjectFaults = 2
SYMMETRY Symmetry
SPECIFICATION ProcessesSpec
CHECK_DEADLOCK FALSE
INVARIANTS NoWaitCycle OwnIdeShown CommandOnce
PROPERTIES ImplementsExclusiveUse
