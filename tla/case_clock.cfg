\* An acknowledgement that overtakes a closure, then a second closure.
CONSTANTS
    a1 = a1
    a2 = a2
    m1 = m1
    Handlers = {h1, h2, h3}
    Admins = {a1, a2}
    Managers = {}
    Maker <- MCMaker
    None = None
    Job = Job
    Operations = {"acknowledge", "status"}
    Retention = 1
    Day = 2
    MaxTime = 3
SYMMETRY Symmetry
SPECIFICATION Spec
PROPERTIES RetentionClock
\* The handlers end.
CHECK_DEADLOCK FALSE
