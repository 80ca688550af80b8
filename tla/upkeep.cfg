\* Two runs over two attachments; two saves and two page views; two runs over two
\* values; two replicas over two days.  The parts share no state, so the same two
\* values name the actors of each, and one symmetry serves all of them.
CONSTANTS
    Jobs = {x1, x2}
    Files = {y1, y2}
    Absent = Absent
    Saves = {y1, y2}
    Pages = {x1, x2}
    NoSnapshot = NoSnapshot
    NoRow = NoRow
    MaxRestarts = 1
    Fields = {y1, y2}
    Runs = {x1, x2}
    NoValue = NoValue
    Handlers = Handlers
    MaxKey = 3
    MaxText = 2
    Replicas = {x1, x2}
    Day = 4
    LockTtl = 3
    NoConsent = NoConsent
    MaxClock = 8
    MaxIds = 2
    MaxEras = 1
    Patience = 1
SYMMETRY Symmetry
SPECIFICATION Spec
INVARIANTS FilesFollowRows BrandCurrent ValuesKept CountedDaily
\* The runs, the saves and the page views end.
CHECK_DEADLOCK FALSE
