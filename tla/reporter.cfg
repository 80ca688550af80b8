\* Three or four requests about two cases, sessions of two hours.
CONSTANTS
    Requests = {r1, r2, r3, r4}
    c1 = c1
    c2 = c2
    Cases = {c1, c2}
    Life = 2
    None = None
    Mixes <- MCMixes
SYMMETRY Symmetry
SPECIFICATION Spec
INVARIANTS SessionsEnd LinkedOnce
\* The requests end.
CHECK_DEADLOCK FALSE
