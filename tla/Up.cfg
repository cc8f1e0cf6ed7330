CONSTANTS
    u1 = u1
    u2 = u2
    Empty = empty
    UserValues = {u1, u2, empty}
    Static <- MCStatic
    SubOptions <- MCSubOptions
    MaxResolves = 2
    MaxExpiries = 1
    MaxGiven = 1
    Nodes = {n1, n2, n3, n4}
    Root = root
    MaxGraphSteps = 9
    n1 = n1
    n2 = n2
    n3 = n3
    n4 = n4
    OciFeatures = {n1}
    UrlFeatures = {n2}
    LocalFeatures = {n3}
    Overrides <- SomeOverrides
    MaxInstallsAfter = 3
    MaxBuilds = 2
    Mounts = {m1}
    WorkspaceMount = m1
    SetupInfos <- Infos
    NoMarker = NoMarker
    Configs <- AllConfigs
    NoContainer = NoContainer
    MaxUps = 3
    MaxUpFaults = 1
    TaskClients = {a, b}
    NoTask = NoTask
    MaxTaskCommands = 2
    MaxInstances = 2
    MaxRequestFaults = 1
    MaxInterrupts = 1
SPECIFICATION UpSpec
CHECK_DEADLOCK FALSE
INVARIANTS
    SavedIsConsistent GraphSound SetupComplete RecreateApplies
    NoTaskLeftRunning OneUpTask FeaturesInstalled
PROPERTIES
    ParentsFirst
