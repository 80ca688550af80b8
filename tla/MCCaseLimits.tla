---------------------------- MODULE MCCaseLimits ----------------------------
(* Small instances of CaseHandling and of Limits.  They share no state:     *)
(* `part' says which of them, or of the two halves of Limits, a behaviour   *)
(* is about, so that their states add up instead of multiplying.            *)
EXTENDS MCCaseHandling, Limits

\* The guesses are named like the handlers, so that one permutation serves both.
CONSTANTS u1, u2, u3

VARIABLE part

MCSize == [u \in Uploads |-> IF u = u1 THEN 2 ELSE 1]

Parts == {"case", "attempts", "uploads"}

\* Only the attempts are about the threshold.
MCInit ==
    /\ part \in Parts /\ Init /\ LimitsInit
    /\ part # "attempts" => threshold = 2

MCNext ==
    /\ UNCHANGED part
    /\ \/ part = "case" /\ Next /\ UNCHANGED limitsVars
       \/ part = "attempts" /\ AttemptsNext /\ UNCHANGED vars
       \/ part = "uploads" /\ UploadsNext /\ UNCHANGED vars

MCSpec == MCInit /\ [][MCNext]_<<part, vars, limitsVars>>

CaseLimitsTypeOK == part \in Parts /\ TypeOK /\ LimitsTypeOK
=============================================================================
