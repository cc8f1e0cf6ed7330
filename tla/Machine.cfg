CONSTANTS
    Workspaces = {w1, w2}
    Timeouts = {2, 3}
    Interval = 1
    UpdateInterval = 1
    BusyGrace = 1
    NoTime = NoTime
    MaxTime = 5
    MaxFailures = 1
    MaxMachineCommands = 3
    UIDs = {u1, u2}
    NoUID = NoUID
    Sources = {"git", "folder", "image", "container"}
    Commands = {"up", "build", "stop", "ssh", "delete"}
    Faults = {"crash", "remove", "tunnel", "binaries", "install", "clone", "upload", "docker", "container"}
    MaxCommands = 4
SYMMETRY Symmetry
SPECIFICATION MachineSpec
INVARIANTS IdleIsShutDown UserFolderKept OwnContent DownloadIsRetried
PROPERTIES ShutdownOnlyIdle ConnectedIsKept
