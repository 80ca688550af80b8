\* A stale save, then the death of the submit that holds the draft.
CONSTANTS
    Tabs = {t1, t2, t3}
    Ids = {i1}
    None = None
    NoId = NoId
    Origin = Origin
    Legacy = FALSE
    SlowSubmits = FALSE
    Visits = {"submit", "get"}
    Faults = {"crash"}
    MaxFaults = 1
SPECIFICATION FairSpec
PROPERTIES ExpiredClaimResolved
CHECK_DEADLOCK FALSE
