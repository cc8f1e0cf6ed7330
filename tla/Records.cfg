CONSTANTS
    IDs = {i1, i2}
    UIDs = {u1, u2, u3}
    Providers = {pro}
    Local = Local
    NoRecord = NoRecord
    Unset = Unset
    Failed = Failed
    Commands = {"list", "get", "up", "delete", "import"}
    Faults = {"list", "get", "create", "delete", "crash"}
    MaxCommands = 3
    Hosts = {"a", "b"}
    Writers = {w1, w2}
    UserFiles <- SomeFiles
    UserLines <- SomeLines
    MaxRewrites = 3
    MaxEdits = 1
SYMMETRY Symmetry
SPECIFICATION RecordsSpec
CHECK_DEADLOCK FALSE
INVARIANTS SectionsWhole UserLinesKept
PROPERTIES OwnIsKept InstanceNeedsForce
