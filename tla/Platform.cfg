CONSTANTS
    Daemons = {d1, d2}
    DaemonUsers = {c1, c2}
    NoDaemon = NoDaemon
    RacingStarts = FALSE
    MaxSignals = 1
    Instances = {i1}
    NoList = NoList
    MaxPlatformChanges = 2
    Passwords = {p1, p2}
    DefaultPassword = p1
    None = None
    MaxStarts = 2
    MaxMishaps = 2
    MaxPings = 1
    Options = {o1, o2}
    Settings = {t1, t2}
    WithRole = {t1}
    NamesPullSecrets = {t2}
    Nothing = Nothing
    MaxPolls = 2
    MaxCalls = 3
    MaxRefusals = 2
    ForceSleep = force
    Duration = duration
    Activity = activity
    Foreign = {x}
    MaxSleepCommands = 3
    MaxSleepPolls = 2
    MaxForeign = 3
    MaxAdds = 2
    MaxPodPolls = 2
    MaxClusterPolls = 2
SPECIFICATION PlatformSpec
CHECK_DEADLOCK FALSE
INVARIANTS ShownPasswordWorks  AddedIsReady
PROPERTIES ShutdownEnds ListConverges
