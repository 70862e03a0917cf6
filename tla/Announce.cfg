SPECIFICATION Spec
CONSTANTS
    IssueIds = {i1}
    Fingerprints = {f1}
    Requests = {r1}
    Silenced = {}
    Durations = {}
    Thresholds = {}
    Windows = {}
    Keep = 1
    MaxAge = 0
    Batch = 1
    MaxTime = 1
    MaxTries = 2

INVARIANTS NewIssuesAnnounced
CHECK_DEADLOCK FALSE
