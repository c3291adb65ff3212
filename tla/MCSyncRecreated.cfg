SPECIFICATION Spec
CONSTANTS
    MaxReplay = 2
    MaxItems = 3
    MaxUnread = 1
    MaxEvents = 5
    MaxDisruptions = 0
INVARIANT NoMixedHistory
