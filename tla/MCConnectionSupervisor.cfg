SPECIFICATION MCFairSpec
CONSTANTS
    Rungs = 2
    MaxUser = 4
    MaxFaults = 3
    MaxSignals = 3
INVARIANTS NoSessionAgainstIntent RetryIsNotAbsorbed OnlyOneSkipsTheDelay
PROPERTY ConnectionComesBack
