SPECIFICATION FairSpec
CONSTANTS
    f1 = f1
    f2 = f2
    plain = plain
    link = link
    refresh = refresh
    turnEnd = turnEnd
    Followers = {f1, f2}
    Spellings = {plain, link}
    SpellingOf <- MCSpellingOf
    Requests = {refresh, turnEnd}
    KindOf <- MCKindOf
    PathOf <- MCPathOf
    FingerprintOf <- MCFingerprintOf
    MaxVersion = 3
    MaxFailures = 1
    MaxChanges = 3
CHECK_DEADLOCK FALSE
INVARIANTS FollowersShowTheCache PolledWhileFollowed
PROPERTIES StatusNeverGoesBack FollowersCatchUp EveryFollowerLearns
