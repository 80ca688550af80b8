\* Three requests of every kind on an account with one session.
CONSTANTS
    Requests = {r1, r2, r3}
    First = First
    None = None
    Operations = {"login", "sso", "mfa", "setup", "refresh", "logout", "password", "reset", "deactivate", "reactivate"}
    Drift = 1
    MaxTime = 3
SYMMETRY RequestSymmetry
SPECIFICATION Spec
INVARIANTS OthersCurrent EndedForGood CodeOnce ResetHolds
PROPERTIES ImplementsSignIn
\* The handlers end.
CHECK_DEADLOCK FALSE
