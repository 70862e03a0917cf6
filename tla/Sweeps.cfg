SPECIFICATION FairSpec
CONSTANTS
    IssueIds = {i1}
    Fingerprints = {f1}
    Requests = {r1, r2}
    Silenced = {r2}
    Durations = {1}
    Thresholds = {2}
    Windows = {1}
    Keep = 1
    MaxAge = 1
    Batch = 2
    MaxTime = 3
    MaxTries = 1

INVARIANTS MuteBookkeeping
PROPERTIES ExpiredMuteEnds OverLimitIsPruned
CHECK_DEADLOCK FALSE
