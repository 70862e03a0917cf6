SPECIFICATION FairSpec
CONSTANTS
    Issues = {1}
    Targets = {t1}
    LabelSets = {l1, l2}
    Intervals = {1}
    MinLease = 2
    Page = 1
    MaxQueued = 1
    MaxFaults = 1
INVARIANTS NoUntrackedFiring
PROPERTIES ClosedIsForgotten TrackedAlertFires
CHECK_DEADLOCK FALSE
