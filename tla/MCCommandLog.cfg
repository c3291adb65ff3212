SPECIFICATION FairSpec
CONSTANTS
    p1 = p1  p2 = p2  t1 = t1  t2 = t2  r1 = r1
    k1 = k1  k2 = k2  k3 = k3  k4 = k4  k5 = k5  k6 = k6  k7 = k7  k8 = k8
    c1 = c1  c2 = c2
    None = None
    Projects = {p1, p2}
    Threads = {t1, t2}
    Roots = {r1}
    CommandIds = {k1, k2, k3, k4, k5, k6, k7, k8}
    Clients = {c1}
    Commands <- MCCatalogCommands
    MaxDispatches = 4
    MaxFaults = 2
    ReconcileMayFail = FALSE
    MaxCrashes = 1
PROPERTIES
    ImplementsCommandLog
    EveryDispatchAnswered
