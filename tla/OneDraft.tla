------------------------------ MODULE OneDraft ------------------------------
(***************************************************************************)
(* What the final submit promises the reporter, without Redis, scripts,    *)
(* timeouts or cleanup: a draft becomes one report at most, once and for   *)
(* good, and a tab is told "received" only with that report's case number. *)
(* Submission implements it.                                               *)
(***************************************************************************)
CONSTANTS Tabs, None
VARIABLES reports,  \* the case numbers the draft was filed under
          told      \* per tab: the case number on its page

vars == <<reports, told>>

Init == reports = {} /\ told = [r \in Tabs |-> None]

File(c) == reports = {} /\ reports' = {c} /\ UNCHANGED told

Tell(r) ==
    /\ \E c \in reports : told' = [told EXCEPT ![r] = c]
    /\ UNCHANGED reports

\* Any other answer, or none: the tab shows no case number.
Hush(r) == told' = [told EXCEPT ![r] = None] /\ UNCHANGED reports

Next == (\E c \in Tabs : File(c)) \/ (\E r \in Tabs : Tell(r) \/ Hush(r))

Spec == Init /\ [][Next]_vars
=============================================================================
