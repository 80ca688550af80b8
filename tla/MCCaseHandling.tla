--------------------------- MODULE MCCaseHandling ---------------------------
(* Small instances of CaseHandling for TLC. *)
EXTENDS CaseHandling, TLC

CONSTANTS a1, a2, m1

\* a1 made the case manager's account.
MCMaker == [a \in Admins |-> IF a = m1 THEN a1 ELSE None]

Symmetry == Permutations(Handlers)
=============================================================================
