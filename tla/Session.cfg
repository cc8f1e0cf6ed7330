CONSTANTS
    MaxTunnelFaults = 3
    Ports = {p1, p2}
    FixedPorts = {p2}
    MaxPortChanges = 3
    MaxBreaks = 2
    MaxConnections = 2
    Sessions = {s1, s2}
    NoSession = none
    MaxServerRuns = 2
    MaxCredFaults = 2
    MaxAsks = 1
SPECIFICATION SessionSpec
CHECK_DEADLOCK FALSE
INVARIANTS SuccessHasResult ListeningIsConfigured
PROPERTIES NothingLeftBehind 
