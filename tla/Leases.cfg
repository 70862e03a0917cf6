SPECIFICATION TimedSpec
CONSTANTS
    Issues = {1, 2}
    Targets = {t1}
    LabelSets = {l1}
    Intervals = {1, 3}
    MinLease = 3
    Page = 1
    MaxQueued = 1
    MaxFaults = 0
INVARIANTS LeaseHolds
CHECK_DEADLOCK FALSE
