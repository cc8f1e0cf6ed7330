CONSTANTS
    Sessions = {s1}
    Tasks = {"reaper", "network", "ssh"}
    Timeouts = {0, 2}
    CheckInterval = 1
    TouchInterval = 1
    NoTime = NoTime
    MaxTime = 4
SPECIFICATION FairSpec
PROPERTIES SessionIsKept ReportEndsDaemon
