\* Two requests of every kind, one fault of every kind, fair scheduling.
CONSTANTS
    Tabs = {t1, t2}
    Ids = {i1}
    None = None
    NoId = NoId
    Origin = Origin
    Legacy = FALSE
    SlowSubmits = TRUE
    Visits = {"submit", "step", "get", "remove", "restart"}
    Faults = {"crash", "lookup", "commit", "put", "result", "expiry"}
    MaxFaults = 1
SPECIFICATION FairSpec
PROPERTIES ClaimResolved EveryTabAnswered
\* The handlers end.
CHECK_DEADLOCK FALSE
