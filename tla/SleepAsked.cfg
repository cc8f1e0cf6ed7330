CONSTANTS
    ForceSleep = force
    Duration = duration
    Activity = activity
    Foreign = {x}
    MaxSleepCommands = 3
    MaxSleepPolls = 2
    MaxForeign = 3
SPECIFICATION SleepSpec
INVARIANTS SleepIsAsked
CHECK_DEADLOCK FALSE
