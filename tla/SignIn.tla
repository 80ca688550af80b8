-------------------------------- MODULE SignIn --------------------------------
(***************************************************************************)
(* What a sign-in promises, without Redis and the requests' steps: one     *)
(* token lets one login in, one login has one session, a session is        *)
(* replaced at once by one successor, and what has ended stays ended.      *)
(* Access implements it.                                                   *)
(***************************************************************************)
CONSTANT Keys

VARIABLES
    offered,  \* who was given a token for the second factor
    tokens,   \* ... that counts still
    entering, \* logins whose token was taken
    known,    \* who was given a session
    live      \* ... that stands still

vars == <<offered, tokens, entering, known, live>>

\* The account is signed in once.
Init ==
    /\ offered = {} /\ tokens = {} /\ entering = {}
    /\ \E k \in Keys : known = {k} /\ live = {k}

\* A token after the password, or after a wrong code.
Offer(h) ==
    /\ h \notin offered
    /\ offered' = offered \cup {h}
    /\ tokens' = tokens \cup {h}
    /\ entering' = entering \ {h}
    /\ UNCHANGED <<known, live>>

Enter(h, t) ==
    /\ t \in tokens
    /\ h \notin offered \cup entering \cup known
    /\ tokens' = tokens \ {t}
    /\ entering' = entering \cup {h}
    /\ UNCHANGED <<offered, known, live>>

Refuse(h) ==
    /\ h \in entering
    /\ entering' = entering \ {h}
    /\ UNCHANGED <<offered, tokens, known, live>>

Admit(h) ==
    /\ h \in entering /\ h \notin known
    /\ entering' = entering \ {h}
    /\ known' = known \cup {h}
    /\ live' = live \cup {h}
    /\ UNCHANGED <<offered, tokens>>

\* The successor may have ended before its holder is answered.
Renew(h, old) ==
    /\ old \in live /\ h \notin known
    /\ known' = known \cup {h}
    /\ live' \in {live \ {old}, (live \ {old}) \cup {h}}
    /\ UNCHANGED <<offered, tokens, entering>>

\* A log-out, a sweep, an expiry.
End(ks) ==
    /\ tokens' = tokens \ ks /\ live' = live \ ks
    /\ UNCHANGED <<offered, entering, known>>

Next ==
    \/ \E h \in Keys : Offer(h) \/ Refuse(h) \/ Admit(h)
    \/ \E h, k \in Keys : Enter(h, k) \/ Renew(h, k)
    \/ \E ks \in SUBSET Keys : End(ks)

Spec == Init /\ [][Next]_vars
=============================================================================
