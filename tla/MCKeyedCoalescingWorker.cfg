SPECIFICATION WorkerFairSpec
CONSTANTS
    k1 = k1
    k2 = k2
    Keys <- MCKeys
    Inputs <- MCInputs
    KeyOf <- MCKeyOf
    MaxValueFailures = 2
CHECK_DEADLOCK FALSE
INVARIANTS EachRequestOnce DrainedMeansDone
PROPERTY AllDealtWith
