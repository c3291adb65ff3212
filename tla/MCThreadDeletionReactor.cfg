SPECIFICATION FairSpec
CONSTANTS
    t1 = t1
    q1 = q1
    q2 = q2
    Threads = {t1}
    Requests = {q1, q2}
    MaxEvents = 4
    MaxFailures = 1
INVARIANT FencePassedMeansCleaned
PROPERTIES CleanUpSparesNewIncarnation EveryFenceOpens
