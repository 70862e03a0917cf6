SPECIFICATION Spec
CONSTANTS
    IssueIds = {i1, i2}
    Fingerprints = {f1, f2}
    Requests = {r1, r2}
    Silenced = {}
    Durations = {}
    Thresholds = {}
    Windows = {}
    Keep = 1
    MaxAge = 0
    Batch = 1
    MaxTime = 2
    MaxTries = 2
SYMMETRY Symmetry
INVARIANTS UniqueFingerprint CountCoversStored AnnouncedOnce
PROPERTIES OnlyRetentionDeletes
CHECK_DEADLOCK FALSE
