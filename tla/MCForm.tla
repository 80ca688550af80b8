------------------------------- MODULE MCForm -------------------------------
(* Small instances of Form. *)
EXTENDS Form, TLC

CONSTANTS o1, o2, l1, c1

MCPlaceOrg == [p \in Places |-> IF p = l1 THEN o1 ELSE o2]
\* Each organisation has a category the other has not.
MCCategories == {<<o, c>> \in Orgs \X Slugs : o = o1 <=> c = c1}

\* The office offers everything at first, or only the default form's category.
MCInit ==
    /\ FormInit
    /\ active \in {Categories, {c \in Categories : c[1] = Default}}
    /\ open = IF active = Categories THEN Places ELSE {}

MCSpec == MCInit /\ [][FormNext]_formVars

\* Tabs are interchangeable.
Symmetry == Permutations(Tabs)
=============================================================================
