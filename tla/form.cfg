\* Two tabs of one browser on two organisations' forms, each with a category
\* of its own.
CONSTANTS
    o1 = o1
    o2 = o2
    l1 = l1
    c1 = c1
    Tabs = {t1, t2}
    Orgs = {o1, o2}
    Default = o1
    Slugs = {c1, c2}
    Categories <- MCCategories
    Builtin = {}
    Places = {l1}
    PlaceOrg <- MCPlaceOrg
    None = None
    Changes = {"category", "location", "organisation", "mode"}
    MaxChanges = 1
SYMMETRY Symmetry
SPECIFICATION MCSpec
INVARIANTS AnonymousUnnamed StepsAnswered FiledComplete
\* The requests end.
CHECK_DEADLOCK FALSE
