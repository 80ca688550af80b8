\* Three submits or reloads of one draft saved since v2.0.0, one fault.
CONSTANTS
    Tabs = {t1, t2, t3}
    Ids = {i1}
    None = None
    NoId = NoId
    Origin = Origin
    Legacy = FALSE
    SlowSubmits = TRUE
    Visits = {"submit", "get"}
    Faults = {"crash", "lookup", "commit"}
    MaxFaults = 1
SYMMETRY Symmetry
SPECIFICATION Spec
INVARIANTS ReceivedIsFiled AttachmentsKept DraftKept FailedAttemptCleansUp
PROPERTIES ClaimRespected
\* The handlers end.
CHECK_DEADLOCK FALSE
