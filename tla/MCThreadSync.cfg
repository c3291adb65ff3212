SPECIFICATION FairSpec
CONSTANTS
    MaxReplay = 2
    MaxItems = 2
    MaxUnread = 1
    MaxEvents = 4
    MaxDisruptions = 1
ACTION_CONSTRAINT SaveEndsTheScope
INVARIANTS NothingMissing MarkerMeansCaughtUp RecreatedThreadIsFresh
PROPERTY CatchesUp
