SPECIFICATION FairSpec
CONSTANTS
    approval = approval
    question = question
    minute = minute
    merge = merge
    Requests <- MCRequests
    KindOf <- MCKindOf
    Sweeps <- MCSweeps
    MaxSequence = 4
    MaxRestarts = 1
CHECK_DEADLOCK FALSE
INVARIANT SettledIsAtRest
PROPERTIES SettlesOnlyCandidates StopsNobodyWhoCameBack StaleThreadsSettle
