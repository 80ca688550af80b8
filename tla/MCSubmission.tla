---------------------------- MODULE MCSubmission ----------------------------
(* Small instances of Submission for TLC. *)
EXTENDS Submission, TLC

Symmetry == Permutations(Tabs)
SymmetryLegacy == Permutations(Tabs) \cup Permutations(Ids)
=============================================================================
