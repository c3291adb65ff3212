SPECIFICATION FairSpec
CONSTANTS
    MaxRuns = 3
    MaxRequests = 4
    MaxFaults = 3
    FatalLimit = 2
    BoundedLimit = 3
CHECK_DEADLOCK FALSE
INVARIANTS OneBackend NeverStranded CrashesAreKept
PROPERTY WantedComesUp
