SPECIFICATION Spec
CONSTANTS
    t1 = t1
    t2 = t2
    f1 = f1
    f2 = f2
    f3 = f3
    Threads = {t1}
    Files = {f1, f2}
    MaxEvents = 5
    MaxFaults = 1
    MaxCrashes = 2
SYMMETRY Symmetry
INVARIANT CursorMeansCleaned
PROPERTY CleanUpKeepsReferencedFiles
