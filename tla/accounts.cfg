\* Three requests of any kind, on a new instance or one with two administrators.
CONSTANTS
    Requests = {r1, r2, r3}
    a1 = a1
    a2 = a2
    o1 = o1
    i1 = i1
    People = {a1, a2}
    Staff <- MCStaff
    Names <- MCNames
    Lower <- MCLower
    Orgs = {o1}
    Tenancy = TRUE
    LdapOn = TRUE
    Configured = FALSE
    Identities = {i1}
    None = None
    Mixes <- MCMixes
    MaxTurns <- MCMaxTurns
SYMMETRY Symmetry
SPECIFICATION Spec
INVARIANTS MadeOnce SomeoneAdministers SignOnLands
PROPERTIES TierKept
\* The requests end.
CHECK_DEADLOCK FALSE
