------------------------------ MODULE MCAccess ------------------------------
EXTENDS Access, TLC

\* Requests are interchangeable.
RequestSymmetry == Permutations(Requests)
=============================================================================
