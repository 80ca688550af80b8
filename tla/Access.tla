-------------------------------- MODULE Access --------------------------------
(***************************************************************************)
(* One account's way in: the two factors, the session, and what ends it    *)
(* (src/app/api/auth.py, src/app/services/auth.py, mfa.py, api/deps.py),   *)
(* with the changes others make to the account (src/app/api/admin.py).     *)
(*                                                                         *)
(* Sessions and the tokens between the factors are keys in Redis, the      *)
(* account is a row.  A request reads one, then the other, then stores a   *)
(* key: a change of the account, and the sweep that ends its sessions, may *)
(* fall in between.  A token, a session, a password or a TOTP secret is    *)
(* named by the request that made it.                                      *)
(***************************************************************************)
EXTENDS Naturals, FiniteSets

CONSTANTS
    Requests,    \* the requests, one handler each
    First,       \* the password, the secret and the session the account starts with
    None,
    Operations,  \* what is asked: SUBSET Kinds
    Drift,       \* steps the authenticator's clock is ahead
    MaxTime      \* bound: the clock, in TOTP steps of 30 s, stops there

Kinds == {"login", "sso", "mfa", "setup", "refresh", "logout",
          "password", "reset", "deactivate", "reactivate"}

ASSUME ConstantsAssumption ==
    /\ Operations \subseteq Kinds
    /\ First \notin Requests /\ None \notin Requests \cup {First}
    /\ Drift \in Nat /\ MaxTime \in Nat

VARIABLES
    acct,      \* the account's row in "admin_users"
    \* Redis
    sessions, pending, setups,  \* keys of sessions, of logins before the code, before enrolment
    used,      \* totp_used: codes and when their mark expires
    \* the handlers
    pc,        \* per request: its next step, or how it was answered
    op,        \* per request: what it asks
    snap,      \* per request: the account as loaded
    \* history and environment
    now,
    cred,      \* per key: the password, the secret and the activation it was won with
    won,       \* per request: the code that was accepted
    late,      \* requests that marked their code when its window was over
    epoch,     \* the last deactivation
    ended,     \* sessions that were ended
    raced,     \* logins a sweep fell into
    proved,    \* secrets an enrolment has shown a code of
    overran    \* a handler has written on an account changed since it loaded it

redis   == <<sessions, pending, setups>>
marks   == <<used, won, late>>
ghosts  == <<epoch, proved, overran>>
vars    == <<acct, redis, marks, pc, op, snap, now, cred, ended, raced, ghosts>>

Names   == Requests \cup {First}
Account == [active : BOOLEAN, enrolled : BOOLEAN, secret : Names, password : Names,
            mustChange : BOOLEAN]
Code    == [secret : Names, step : Nat]
Ask     == [kind : Kinds, token : Names \cup {None}, password : Names \cup {None},
            code : Code \cup {None}]
Cred    == [password : Names \cup {None}, secret : Names \cup {None}, epoch : Names \cup {None}]

Steps   == {"second", "load", "code", "mark", "again", "enrol", "start", "signed_in", "store",
            "retire", "undo", "commit", "sweep"}
Answers == {"refused", "totp", "setup", "session", "done", "unswept"}

NoAsk  == [kind |-> "logout", token |-> None, password |-> None, code |-> None]
NoCred == [password |-> None, secret |-> None, epoch |-> None]
FirstCred == [password |-> First, secret |-> First, epoch |-> First]
Fresh  == [active |-> TRUE, enrolled |-> TRUE, secret |-> First, password |-> First,
           mustChange |-> FALSE]

TypeOK ==
    /\ acct \in Account
    /\ sessions \subseteq Names /\ pending \subseteq Requests /\ setups \subseteq Requests
    /\ used \subseteq [code : Code, until : Nat]
    /\ pc \in [Requests -> {"idle"} \cup Steps \cup Answers]
    /\ op \in [Requests -> Ask]
    /\ snap \in [Requests -> Account]
    /\ now \in Nat
    /\ cred \in [Names -> Cred]
    /\ won \in [Requests -> Code \cup {None}] /\ late \subseteq Requests
    /\ epoch \in Names
    /\ ended \subseteq Names /\ raced \subseteq Requests /\ proved \subseteq Names
    /\ overran \in BOOLEAN

Init ==
    /\ acct = Fresh
    /\ sessions = {First} /\ pending = {} /\ setups = {} /\ used = {}
    /\ pc = [h \in Requests |-> "idle"]
    /\ op = [h \in Requests |-> NoAsk]
    /\ snap = [h \in Requests |-> Fresh]
    /\ now = 0
    /\ cred = [k \in Names |-> IF k = First THEN FirstCred ELSE NoCred]
    /\ won = [h \in Requests |-> None] /\ late = {}
    /\ epoch = First /\ ended = {} /\ raced = {} /\ proved = {First} /\ overran = FALSE

----------------------------------------------------------------------------
(* Codes *)

\* verify_totp: the code of this secret, one step early or late.
Verifies(secret, code) ==
    /\ code # None
    /\ code.secret = secret
    /\ code.step =< now + 1 /\ now =< code.step + 1

\* Mutant: the mark lives two steps, ex=60.
UsedUntilShort == now + 2

\* consume_totp: ex=90 on the mark.
UsedUntil == now + 3

Marked(code) == \E u \in used : u.code = code

----------------------------------------------------------------------------
(* Steps of the handlers *)

At(h, l)  == pc[h] = l
Kind(h)   == op[h].kind
Token(h)  == op[h].token

\* On to step l, asking o with the account as in s; an answer ends the locals.
Move(h, l, o, s) ==
    /\ pc' = [pc EXCEPT ![h] = l]
    /\ op' = [op EXCEPT ![h] = IF l \in Answers THEN [o EXCEPT !.password = None, !.code = None] ELSE o]
    /\ snap' = [snap EXCEPT ![h] = IF l \in Answers THEN Fresh ELSE s]

Go(h, l) == Move(h, l, op[h], snap[h])

\* The keys a page has handed out: whose cookie or form holds one.
Held(l) == {t \in Requests : At(t, l)} \cup (IF l = "session" THEN {First} ELSE {})

\* What is typed as a code: what the authenticator shows, whose clock may run
\* ahead, a code accepted before, or none that counts.
Codes == {[secret |-> acct.secret, step |-> now + Drift], None} \cup {won[h] : h \in Requests}

Asks(kind, tokens, passwords, codes) ==
    [kind : {kind} \cap Operations, token : tokens, password : passwords, code : codes]

\* login_post, and an LDAP or OIDC login at its end: the account is loaded, the
\* password is checked (or the attempts are used up), then _second_factor.
Login(h) ==
    \E o \in Asks("login", {None}, {acct.password, None}, {None}) \cup Asks("sso", {None}, {None}, {None}) :
        /\ At(h, "idle")
        /\ IF o.kind = "login" => o.password = acct.password
           THEN /\ Move(h, "second", o, acct)
                /\ cred' = [cred EXCEPT ![h] =
                       [password |-> o.password, secret |-> None, epoch |-> epoch]]
           ELSE Move(h, "refused", o, acct) /\ UNCHANGED cred
        /\ UNCHANGED <<acct, redis, marks, now, ended, raced, ghosts>>

\* _second_factor
SecondFactor(h) ==
    /\ At(h, "second")
    /\ CASE ~snap[h].active -> Go(h, "refused") /\ UNCHANGED redis
         [] snap[h].active /\ ~snap[h].enrolled ->
                setups' = setups \cup {h} /\ Go(h, "setup") /\ UNCHANGED <<sessions, pending>>
         [] OTHER ->
                pending' = pending \cup {h} /\ Go(h, "totp") /\ UNCHANGED <<sessions, setups>>
    /\ UNCHANGED <<acct, marks, now, cred, ended, raced, ghosts>>

\* Mutant: GET, not GETDEL.
ConsumeTokenNot(h) ==
    \E o \in Asks("mfa", Held("totp"), {None}, Codes)
             \cup Asks("setup", Held("setup"), {None}, Codes) :
        /\ At(h, "idle")
        /\ IF o.token \in pending \cup setups
           THEN Move(h, "load", o, snap[h]) /\ cred' = [cred EXCEPT ![h] = cred[o.token]]
           ELSE Move(h, "refused", o, snap[h]) /\ UNCHANGED cred
        /\ UNCHANGED <<acct, redis, marks, now, ended, raced, ghosts>>

\* login_mfa_post, mfa_setup_post: the token is consumed with GETDEL.
ConsumeToken(h) ==
    \E o \in Asks("mfa", Held("totp"), {None}, Codes)
             \cup Asks("setup", Held("setup"), {None}, Codes) :
        /\ At(h, "idle")
        /\ IF o.token \in pending \cup setups
           THEN /\ Move(h, "load", o, snap[h])
                /\ cred' = [cred EXCEPT ![h] = cred[o.token]]
                /\ raced' = IF o.token \in raced THEN raced \cup {h} ELSE raced
           ELSE Move(h, "refused", o, snap[h]) /\ UNCHANGED <<cred, raced>>
        /\ pending' = pending \ {o.token} /\ setups' = setups \ {o.token}
        /\ UNCHANGED <<acct, sessions, marks, now, ended, ghosts>>

\* Enrolled or inactive accounts are not set up; a sign-in loads what there is.
LoadUser(h) ==
    /\ At(h, "load")
    /\ Move(h, IF Kind(h) = "setup" /\ (~acct.active \/ acct.enrolled) THEN "refused" ELSE "code",
            op[h], acct)
    /\ UNCHANGED <<acct, redis, marks, now, cred, ended, raced, ghosts>>

\* claim_admin_attempt refuses, or the password was wrong: the token is gone, the
\* password is not changed.
Locked(h) ==
    /\ At(h, "code") /\ Kind(h) # "setup"
    /\ Go(h, "refused")
    /\ UNCHANGED <<acct, redis, marks, now, cred, ended, raced, ghosts>>

\* A code that does not count: a password change ends, a login may try again.
WrongCode(h) == Go(h, IF Kind(h) = "password" THEN "refused" ELSE "again")

\* consume_totp: verify_totp, with the secret as loaded ...
VerifyCode(h) ==
    /\ At(h, "code")
    /\ IF Verifies(snap[h].secret, op[h].code) THEN Go(h, "mark") ELSE WrongCode(h)
    /\ UNCHANGED <<acct, redis, marks, now, cred, ended, raced, ghosts>>

\* ... then SET NX of the mark, however much later Redis gets to it.
MarkCode(h) ==
    LET code == op[h].code IN
    /\ At(h, "mark")
    /\ IF Marked(code)
       THEN WrongCode(h) /\ UNCHANGED <<marks, cred>>
       ELSE /\ used' = used \cup {[code |-> code, until |-> UsedUntil]}
            /\ won' = [won EXCEPT ![h] = code]
            /\ late' = IF now > code.step + 1 THEN late \cup {h} ELSE late
            /\ cred' = [cred EXCEPT ![h].secret = code.secret]
            /\ Go(h, CASE Kind(h) = "mfa"   -> "start"
                       [] Kind(h) = "setup" -> "enrol"
                       [] OTHER             -> "commit")
    /\ UNCHANGED <<acct, redis, now, ended, raced, ghosts>>

\* A wrong code: a new token for another try.
Again(h) ==
    /\ At(h, "again")
    /\ IF Kind(h) = "mfa"
       THEN pending' = pending \cup {h} /\ Go(h, "totp") /\ UNCHANGED setups
       ELSE setups' = setups \cup {h} /\ Go(h, "setup") /\ UNCHANGED pending
    /\ UNCHANGED <<acct, sessions, marks, now, cred, ended, raced, ghosts>>

\* _start_session: what was loaded decides.
StartSession(h) ==
    /\ At(h, "start")
    /\ IF snap[h].active
       THEN sessions' = sessions \cup {h} /\ Go(h, "session")
       ELSE Go(h, "refused") /\ UNCHANGED sessions
    /\ UNCHANGED <<acct, pending, setups, marks, now, cred, ended, raced, ghosts>>

\* session_refresh and account_password: get_signed_in_admin, first the key ...
ValidateSession(h) ==
    \E o \in Asks("refresh", Held("session"), {None}, {None})
             \cup Asks("password", Held("session"), {acct.password}, Codes) :
        /\ At(h, "idle")
        /\ Move(h, IF o.token \in sessions THEN "signed_in" ELSE "refused", o, snap[h])
        /\ UNCHANGED <<acct, redis, marks, now, cred, ended, raced, ghosts>>

\* ... then the account.  A password change checks the old password on it.
SignedIn(h) ==
    /\ At(h, "signed_in")
    /\ LET next == IF Kind(h) = "refresh" THEN "store"
                   ELSE IF op[h].password = acct.password THEN "code" ELSE "refused"
       IN Move(h, IF acct.active /\ acct.enrolled THEN next ELSE "refused", op[h], acct)
    /\ UNCHANGED <<acct, redis, marks, now, cred, ended, raced, ghosts>>

\* The new session first ...
StoreNew(h) ==
    /\ At(h, "store")
    /\ sessions' = sessions \cup {h}
    /\ cred' = [cred EXCEPT ![h] = cred[Token(h)]]
    /\ raced' = IF Token(h) \in raced THEN raced \cup {h} ELSE raced
    /\ Go(h, "retire")
    /\ UNCHANGED <<acct, pending, setups, marks, now, ended, ghosts>>

\* Mutant: the old session may be gone already.
RetireOldAnyway(h) ==
    /\ At(h, "retire")
    /\ sessions' = sessions \ {Token(h)}
    /\ Go(h, "session")
    /\ UNCHANGED <<acct, pending, setups, marks, now, cred, ended, raced, ghosts>>

\* ... then the old one goes; gone already, it was revoked meanwhile.
RetireOld(h) ==
    /\ At(h, "retire")
    /\ sessions' = sessions \ {Token(h)}
    /\ Go(h, IF Token(h) \in sessions THEN "session" ELSE "undo")
    /\ UNCHANGED <<acct, pending, setups, marks, now, cred, ended, raced, ghosts>>

UndoRefresh(h) ==
    /\ At(h, "undo")
    /\ sessions' = sessions \ {h}
    /\ Go(h, "refused")
    /\ UNCHANGED <<acct, pending, setups, marks, now, cred, ended, raced, ghosts>>

Logout(h) ==
    \E o \in Asks("logout", Held("session"), {None}, {None}) :
        /\ At(h, "idle")
        /\ sessions' = sessions \ {o.token}
        /\ ended' = ended \cup ({o.token} \cap sessions)
        /\ Move(h, "done", o, snap[h])
        /\ UNCHANGED <<acct, pending, setups, marks, now, cred, raced, ghosts>>

----------------------------------------------------------------------------
(* Changes of the account: loaded, then UPDATE and COMMIT of what differs    *)
(* from what was loaded, then the sweep                                      *)

\* reset_user_totp, deactivate_user, reactivate_user.  Whether this administrator
\* may (the role, the tier, the last administrator) is checked in between: refused,
\* the request changes nothing.
LoadTarget(h) ==
    \E o \in UNION {Asks(k, {None}, {None}, {None}) : k \in {"reset", "deactivate", "reactivate"}} :
        /\ At(h, "idle")
        /\ Move(h, "commit", o, acct)
        /\ UNCHANGED <<acct, redis, marks, now, cred, ended, raced, ghosts>>

\* The ORM writes a flag only where it differs from the one loaded.
Flag(loaded, new, current) == IF loaded # new THEN new ELSE current

Write(h, new) ==
    /\ acct' = new
    /\ overran' = (overran \/ acct # snap[h])

\* mfa_setup_post
Enrol(h) ==
    /\ At(h, "enrol")
    /\ Write(h, [acct EXCEPT !.enrolled = Flag(snap[h].enrolled, TRUE, @)])
    /\ proved' = proved \cup {snap[h].secret}
    /\ Go(h, "start")
    /\ UNCHANGED <<redis, marks, now, cred, ended, raced, epoch>>

\* account_password: the caller's session goes on under the new password.
ChangePassword(h) ==
    /\ At(h, "commit") /\ Kind(h) = "password"
    /\ Write(h, [acct EXCEPT !.password = h,
                             !.mustChange = Flag(snap[h].mustChange, FALSE, @)])
    /\ cred' = [cred EXCEPT ![Token(h)].password = h]
    /\ Go(h, "sweep")
    /\ UNCHANGED <<redis, marks, now, ended, raced, epoch, proved>>

\* Mutant: the old authenticator stays enrolled.
ResetAuthenticatorKeepsEnrolment(h) ==
    /\ At(h, "commit") /\ Kind(h) = "reset"
    /\ Write(h, [acct EXCEPT !.secret = h, !.password = h,
                             !.mustChange = Flag(snap[h].mustChange, TRUE, @)])
    /\ Go(h, "sweep")
    /\ UNCHANGED <<redis, marks, now, cred, ended, raced, epoch, proved>>

\* reset_user_totp: a new secret, not enrolled, and a temporary password.
ResetAuthenticator(h) ==
    /\ At(h, "commit") /\ Kind(h) = "reset"
    /\ Write(h, [acct EXCEPT !.secret = h, !.password = h,
                             !.enrolled = Flag(snap[h].enrolled, FALSE, @),
                             !.mustChange = Flag(snap[h].mustChange, TRUE, @)])
    /\ Go(h, "sweep")
    /\ UNCHANGED <<redis, marks, now, cred, ended, raced, epoch, proved>>

Deactivate(h) ==
    /\ At(h, "commit") /\ Kind(h) = "deactivate"
    /\ Write(h, [acct EXCEPT !.active = Flag(snap[h].active, FALSE, @)])
    /\ epoch' = IF acct.active /\ ~acct'.active THEN h ELSE epoch
    /\ Go(h, "sweep")
    /\ UNCHANGED <<redis, marks, now, cred, ended, raced, proved>>

Reactivate(h) ==
    /\ At(h, "commit") /\ Kind(h) = "reactivate"
    /\ Write(h, [acct EXCEPT !.active = Flag(snap[h].active, TRUE, @)])
    /\ Go(h, "done")
    /\ UNCHANGED <<redis, marks, now, cred, ended, raced, epoch, proved>>

\* Logins that have read the account or their token and not yet stored a key.
InFlight == {h \in Requests : pc[h] \in {"second", "load", "code", "mark", "again", "enrol", "start"}}

\* Mutant: the tokens between the factors are left.
SweepSessionsOnly(h) ==
    /\ At(h, "sweep")
    /\ sessions' = IF Kind(h) = "password" THEN sessions \cap {Token(h)} ELSE {}
    /\ ended' = ended \cup (sessions \ sessions')
    /\ raced' = raced \cup InFlight
    /\ Go(h, "done")
    /\ UNCHANGED <<acct, pending, setups, marks, now, cred, ghosts>>

\* revoke_user_sessions: one script.
Sweep(h) ==
    /\ At(h, "sweep")
    /\ sessions' = IF Kind(h) = "password" THEN sessions \cap {Token(h)} ELSE {}
    /\ pending' = {} /\ setups' = {}
    /\ ended' = ended \cup (sessions \ sessions')
    /\ raced' = raced \cup InFlight
    /\ Go(h, "done")
    /\ UNCHANGED <<acct, marks, now, cred, ghosts>>

\* Redis does not answer: the change is committed, the keys stay.
SweepFails(h) ==
    /\ At(h, "sweep")
    /\ Go(h, "unswept")
    /\ UNCHANGED <<acct, redis, marks, now, cred, ended, raced, ghosts>>

----------------------------------------------------------------------------
(* Time *)

Expire(k) ==
    /\ k \in sessions \cup pending \cup setups
    /\ sessions' = sessions \ {k} /\ pending' = pending \ {k} /\ setups' = setups \ {k}
    /\ ended' = ended \cup ({k} \cap sessions)
    /\ UNCHANGED <<acct, marks, pc, op, snap, now, cred, raced, ghosts>>

\* A mark ends somewhere in its last step, as it began somewhere in its first ...
MarkExpires(u) ==
    /\ u.until =< now
    /\ used' = used \ {u}
    /\ UNCHANGED <<acct, redis, pc, op, snap, now, cred, won, late, ended, raced, ghosts>>

\* ... and is gone by the next.
Tick ==
    /\ now < MaxTime
    /\ now' = now + 1
    /\ used' = {u \in used : now < u.until}
    /\ UNCHANGED <<acct, redis, pc, op, snap, cred, won, late, ended, raced, ghosts>>

Handler(h) ==
    \/ Login(h) \/ SecondFactor(h)
    \/ ConsumeToken(h) \/ LoadUser(h) \/ Locked(h) \/ VerifyCode(h) \/ MarkCode(h)
    \/ Again(h)
    \/ Enrol(h) \/ StartSession(h)
    \/ ValidateSession(h) \/ SignedIn(h) \/ StoreNew(h) \/ RetireOld(h) \/ UndoRefresh(h)
    \/ Logout(h)
    \/ LoadTarget(h) \/ ChangePassword(h) \/ ResetAuthenticator(h) \/ Deactivate(h) \/ Reactivate(h)
    \/ Sweep(h) \/ SweepFails(h)

Next ==
    \/ \E h \in Requests : Handler(h)
    \/ \E k \in Names : Expire(k)
    \/ \E u \in used : MarkExpires(u)
    \/ Tick

Spec == Init /\ [][Next]_vars

----------------------------------------------------------------------------
(* Properties *)

\* The keys whose holder has been answered.
Live == (sessions \cap Held("session")) \cup (pending \cap Held("totp"))
        \cup (setups \cap Held("setup"))

\* A key was won with what the account has now.
Current(k) ==
    /\ cred[k].password \in {None, acct.password}
    /\ cred[k].secret \in {None, acct.secret}
    /\ cred[k].epoch = epoch

Swept == \A h \in Requests : pc[h] \notin {"sweep", "unswept"}

\* After the sweep no session stands that was won with a password or an
\* authenticator since replaced, or before a deactivation, except those of the
\* logins the sweep fell into.  However refreshes, retries, two sweeps or two
\* changes interleave, nothing else is left.
OthersCurrent == Swept => \A k \in Live \ raced : Current(k)

\* A session that was ended has no successor: a refresh under way goes too.
EndedForGood ==
    \A h \in sessions \ {First} : Kind(h) = "refresh" /\ At(h, "session") => Token(h) \notin ended

\* A code counts once, for one session or one password change: of the requests that
\* mark it in its window one gets through.  Who verified it in the window and marks it
\* after, when the first mark may have ended, is not kept out.
CodeOnce ==
    \A g, h \in Requests : g # h /\ won[g] # None /\ won[g] = won[h] => {g, h} \cap late # {}

\* A login is one login: a password checked once gives at most one session (and a
\* session at most one successor), however often its token is sent.
OneSuccessor ==
    \A g, h \in sessions \ {First} :
        g # h /\ At(g, "session") /\ At(h, "session")
        /\ Kind(g) \in {"mfa", "setup", "refresh"} /\ Kind(h) \in {"mfa", "setup", "refresh"}
        => Token(g) # Token(h)

\* Logins that have taken their token and not been answered.
Entering == {h \in Requests : Kind(h) \in {"mfa", "setup"}
                              /\ pc[h] \in {"load", "code", "mark", "again", "enrol", "start"}}

\* The requests' separate commands do together what a single sign-in does: a token
\* read and deleted, a successor stored before the old session goes and taken back
\* when it was gone, and a sweep in between let nobody in twice and nothing return.
SignIn == INSTANCE SignIn WITH
    Keys <- Names,
    offered <- {h \in Requests : pc[h] \in {"totp", "setup"}},
    tokens <- pending \cup setups,
    entering <- Entering,
    known <- Held("session"),
    live <- sessions \cap Held("session")
ImplementsSignIn == SignIn!Spec

\* An account counts as enrolled only with a secret somebody has shown a code of,
\* and a password an administrator has seen is marked to be replaced, as long as
\* no handler has written on an account changed since it loaded it.
ResetHolds ==
    ~overran =>
        /\ acct.enrolled => acct.secret \in proved
        /\ acct.password # First /\ Kind(acct.password) = "reset" => acct.mustChange
=============================================================================
