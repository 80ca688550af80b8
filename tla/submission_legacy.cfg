\* Four requests on a draft saved before v2.0.0, which has no report id yet.
CONSTANTS
    Tabs = {t1, t2, t3, t4}
    Ids = {i1, i2}
    None = None
    NoId = NoId
    Origin = Origin
    Legacy = TRUE
    SlowSubmits = FALSE
    Visits = {"submit", "get", "step"}
    Faults = {}
    MaxFaults = 0
SYMMETRY SymmetryLegacy
SPECIFICATION Spec
PROPERTIES ImplementsOneDraft
\* The handlers end.
CHECK_DEADLOCK FALSE
