\* One case, two replicas: both notices, both reminders, both jobs twice.
CONSTANTS
    Cases = {c1}
    Digests = {d1, d2}
    Reminders = {r1, r2}
    Settings <- MCSettings
    None = None
SPECIFICATION FairSpec
INVARIANTS NothingLost RemindedOnce ErasedUnnamed
PROPERTIES EventuallyTold ImplementsOutbox
\* The case is deleted, and there is nothing left to tell.
CHECK_DEADLOCK FALSE
