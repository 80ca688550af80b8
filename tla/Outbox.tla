-------------------------------- MODULE Outbox --------------------------------
(***************************************************************************)
(* What the office may expect of its notices, without Redis, digests,      *)
(* replicas and the commands of forget_case: a notice waits from its event *)
(* on, until the channels that work take it, all at the same time and for  *)
(* good, or a fault loses it; it is withdrawn with its case only.  Notices *)
(* implements it.                                                          *)
(***************************************************************************)
CONSTANTS Cases, Kinds
VARIABLES channels, \* where the instance sends its notices
          report,   \* per case: not filed yet, there, or deleted
          waiting,  \* notices not told yet
          told,     \* which channel took which notice
          lost      \* what a fault lost

vars == <<channels, report, waiting, told, lost>>

Notice == Kinds \X Cases

Init ==
    /\ report = [c \in Cases |-> "none"]
    /\ waiting = {} /\ told = {} /\ lost = {}

\* A report, and with it its notice; a reply that no notice tells of yet.
Arrive(c) ==
    /\ report[c] = "none"
    /\ report' = [report EXCEPT ![c] = "there"]
    /\ waiting' = waiting \cup {<<"new_reports", c>>}
    /\ UNCHANGED <<channels, told, lost>>

Reply(c) ==
    LET n == <<"new_messages", c>> IN
    /\ report[c] = "there"
    /\ n \notin waiting \cup lost /\ \A x \in channels : <<x, n>> \notin told
    /\ waiting' = waiting \cup {n}
    /\ UNCHANGED <<channels, report, told, lost>>

Delete(c) ==
    /\ report[c] = "there"
    /\ report' = [report EXCEPT ![c] = "deleted"]
    /\ UNCHANGED <<channels, waiting, told, lost>>

\* What waits no more is never told again.
Tell(ns, ok) ==
    /\ ns \subseteq waiting /\ ok \subseteq channels /\ ok # {}
    /\ told \cap (ok \X ns) = {}
    /\ told' = told \cup (ok \X ns)
    /\ waiting' = waiting \ ns
    /\ UNCHANGED <<channels, report, lost>>

Lose(ns) ==
    /\ ns \subseteq waiting
    /\ lost' = lost \cup ns
    /\ waiting' = waiting \ ns
    /\ UNCHANGED <<channels, report, told>>

\* The case is deleted, or there is nobody to tell.
Withdraw(n) ==
    /\ n \in waiting
    /\ report[n[2]] = "deleted" \/ channels = {}
    /\ waiting' = waiting \ {n}
    /\ UNCHANGED <<channels, report, told, lost>>

Next ==
    \/ \E c \in Cases : Arrive(c) \/ Reply(c) \/ Delete(c)
    \/ \E ns \in SUBSET Notice : Lose(ns) \/ \E ok \in SUBSET channels : Tell(ns, ok)
    \/ \E n \in Notice : Withdraw(n)

Spec == Init /\ [][Next]_vars
=============================================================================
