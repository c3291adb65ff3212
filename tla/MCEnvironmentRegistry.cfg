SPECIFICATION MCFairSpec
CONSTANTS
    e1 = e1
    e2 = e2
    none = none
    Entries = {e1, e2}
    None = none
    MaxRequests = 4
INVARIANT NoStraySupervisor
PROPERTIES PlatformKeepsItsEntry FollowerIsCurrent
