\* Three requests of every kind on one case; three guesses at a limit of two, at
\* either threshold; three uploads of which two fit the spool and not the drafts
\* together.
CONSTANTS
    a1 = a1
    a2 = a2
    m1 = m1
    u1 = u1
    u2 = u2
    u3 = u3
    Handlers = {h1, h2, h3}
    Admins = {a1, a2, m1}
    Managers = {m1}
    Maker <- MCMaker
    None = None
    Job = Job
    Operations = {"acknowledge", "status", "reply", "assign", "reveal", "request", "cancel", "confirm", "answer"}
    Retention = 1
    Day = 2
    MaxTime = 3
    Guesses = {h1, h2, h3}
    MaxAttempts = 2
    Lockout = 2
    Thresholds = {1, 2}
    Window = 2
    Uploads = {u1, u2, u3}
    Size <- MCSize
    Capacity = 3
    Room = 3
    Nobody = Nobody
    MaxMinutes = 3
SYMMETRY Symmetry
SPECIFICATION MCSpec
INVARIANTS ThreadOrdered FeedbackIsAMessage SomeoneGoesOn AttemptsBounded SprayNoticed UploadsFit
PROPERTIES FourEyes RetentionClockSerial LockNotExtended
\* The requests end.
CHECK_DEADLOCK FALSE
