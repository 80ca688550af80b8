----------------------------- MODULE AccessProofs -----------------------------
(* What holds of an account's sessions however many requests there are: a  *)
(* code counts once, an ended session has no successor, the requests       *)
(* implement one sign-in, what a sweep leaves standing is current, and a   *)
(* reset holds.                                                            *)
EXTENDS Access, TLAPS

----------------------------------------------------------------------------
(* Types, and which request is where *)

Keyed == {"mfa", "setup", "refresh"}

\* What a request asks fits the step it is at, and the session it was sent with
\* was handed out.
Placed(h) ==
    /\ pc[h] = "second" => Kind(h) \in {"login", "sso"}
    /\ pc[h] \in {"load", "again", "enrol", "start"} => Kind(h) \in {"mfa", "setup"}
    /\ pc[h] \in {"code", "mark"} => Kind(h) \in {"mfa", "setup", "password"}
    /\ pc[h] = "signed_in" => Kind(h) \in {"refresh", "password"}
    /\ pc[h] \in {"store", "retire", "undo"} => Kind(h) = "refresh"
    /\ pc[h] \in {"commit", "sweep", "unswept"} =>
           Kind(h) \in {"password", "reset", "deactivate", "reactivate"}
    /\ pc[h] \in {"totp", "setup"} => Kind(h) \in {"login", "sso", "mfa", "setup"}
    /\ pc[h] = "session" => Kind(h) \in Keyed
    /\ Kind(h) \in {"refresh", "password"} =>
           Token(h) = First \/ (Token(h) \in Requests /\ pc[Token(h)] = "session")
    /\ Kind(h) \in {"mfa", "setup"} =>
           Token(h) \in Requests /\ pc[Token(h)] \in {"totp", "setup"}

\* A code about to be marked was verified with the secret as loaded, at this step of
\* the clock or before.
Verified(h) ==
    pc[h] = "mark" =>
        /\ op[h].code \in Code /\ op[h].code # None
        /\ op[h].code.secret = snap[h].secret /\ op[h].code.step =< now + 1

VerifiedInv == \A h \in Requests : Verified(h)

TypeInv == TypeOK /\ (\A h \in Requests : Placed(h)) /\ VerifiedInv

LEMMA FreshAccount == Fresh \in Account
BY DEF Fresh, Account, Names

LEMMA AsksAsk ==
    ASSUME NEW k \in Kinds, NEW T \in SUBSET (Names \cup {None}),
           NEW P \in SUBSET (Names \cup {None}), NEW C \in SUBSET (Code \cup {None}),
           NEW o \in Asks(k, T, P, C)
    PROVE  /\ o \in Ask /\ o.kind = k /\ o.token \in T /\ o.password \in P /\ o.code \in C
BY DEF Asks, Ask

LEMMA MoveFacts ==
    ASSUME TypeOK, NEW h \in Requests, NEW l \in {"idle"} \cup Steps \cup Answers,
           NEW o \in Ask, NEW s \in Account, Move(h, l, o, s)
    PROVE  /\ pc' \in [Requests -> {"idle"} \cup Steps \cup Answers]
           /\ op' \in [Requests -> Ask]
           /\ snap' \in [Requests -> Account]
           /\ \A g \in Requests \ {h} : pc'[g] = pc[g] /\ op'[g] = op[g] /\ snap'[g] = snap[g]
           /\ pc'[h] = l /\ op'[h].kind = o.kind /\ op'[h].token = o.token
           /\ l \notin Answers => op'[h] = o /\ snap'[h] = s
<1> DEFINE o2 == IF l \in Answers THEN [o EXCEPT !.password = None, !.code = None] ELSE o
           s2 == IF l \in Answers THEN Fresh ELSE s
<1>1. o2 \in Ask /\ o2.kind = o.kind /\ o2.token = o.token BY DEF Ask
<1>2. s2 \in Account BY FreshAccount
<1>3. pc' = [pc EXCEPT ![h] = l] /\ op' = [op EXCEPT ![h] = o2] /\ snap' = [snap EXCEPT ![h] = s2]
  BY DEF Move
<1> HIDE DEF o2, s2
<1>4. /\ pc' \in [Requests -> {"idle"} \cup Steps \cup Answers]
      /\ op' \in [Requests -> Ask]
      /\ snap' \in [Requests -> Account]
  BY <1>1, <1>2, <1>3 DEF TypeOK
<1>5. \A g \in Requests \ {h} : pc'[g] = pc[g] /\ op'[g] = op[g] /\ snap'[g] = snap[g]
  BY <1>3 DEF TypeOK
<1>6. pc'[h] = l /\ op'[h] = o2 /\ snap'[h] = s2 BY <1>3 DEF TypeOK
<1>7. l \notin Answers => o2 = o /\ s2 = s BY DEF o2, s2
<1>8. QED BY <1>1, <1>4, <1>5, <1>6, <1>7

\* The step of one request: it is under way, it takes the request to l as kind k
\* with token t, and leaves the others where they are.
Moved(h, l, k, t) ==
    /\ pc[h] \in {"idle"} \cup Steps
    /\ pc' \in [Requests -> {"idle"} \cup Steps \cup Answers]
    /\ op' \in [Requests -> Ask]
    /\ snap' \in [Requests -> Account]
    /\ \A g \in Requests \ {h} : pc'[g] = pc[g] /\ op'[g] = op[g] /\ snap'[g] = snap[g]
    /\ pc'[h] = l /\ op'[h].kind = k /\ op'[h].token = t

LEMMA GoMoved ==
    ASSUME TypeOK, NEW h \in Requests, NEW l \in {"idle"} \cup Steps \cup Answers,
           Go(h, l), pc[h] \in {"idle"} \cup Steps
    PROVE  /\ Moved(h, l, Kind(h), Token(h))
           /\ l \notin Answers => op'[h] = op[h] /\ snap'[h] = snap[h]
<1>1. op[h] \in Ask /\ snap[h] \in Account BY DEF TypeOK
<1>2. QED BY <1>1, MoveFacts DEF Go, Moved, Kind, Token

LEMMA MoveMoved ==
    ASSUME TypeOK, NEW h \in Requests, NEW l \in {"idle"} \cup Steps \cup Answers,
           NEW o \in Ask, NEW s \in Account, Move(h, l, o, s), pc[h] \in {"idle"} \cup Steps
    PROVE  /\ Moved(h, l, o.kind, o.token)
           /\ l \notin Answers => op'[h] = o /\ snap'[h] = s
BY MoveFacts DEF Moved

\* What a step must respect for every request to stay where it belongs.
LEMMA MovedPlaced ==
    ASSUME TypeInv, NEW h \in Requests, NEW l, NEW k, NEW t, Moved(h, l, k, t),
           l = "second" => k \in {"login", "sso"},
           l \in {"load", "again", "enrol", "start"} => k \in {"mfa", "setup"},
           l \in {"code", "mark"} => k \in {"mfa", "setup", "password"},
           l = "signed_in" => k \in {"refresh", "password"},
           l \in {"store", "retire", "undo"} => k = "refresh",
           l \in {"commit", "sweep", "unswept"} => k \in {"password", "reset", "deactivate", "reactivate"},
           l \in {"totp", "setup"} => k \in {"login", "sso", "mfa", "setup"},
           l = "session" => k \in Keyed,
           k \in {"refresh", "password"} =>
               t = First \/ (t \in Requests /\ pc[t] = "session"),
           k \in {"mfa", "setup"} => t \in Requests /\ pc[t] \in {"totp", "setup"}
    PROVE  \A g \in Requests : Placed(g)'
<1>1. \A t2 \in Requests : pc[t2] \in {"session", "totp", "setup"} => pc'[t2] = pc[t2]
  BY DEF Moved, Steps
<1>2. ASSUME NEW g \in Requests PROVE Placed(g)'
  <2>1. CASE g = h BY <1>1, <2>1 DEF Moved, Placed, Kind, Token
  <2>2. CASE g # h
    <3>1. pc'[g] = pc[g] /\ op'[g] = op[g] BY <2>2 DEF Moved
    <3>2. Placed(g) BY DEF TypeInv
    <3>3. QED BY <1>1, <3>1, <3>2 DEF Placed, Kind, Token
  <2>3. QED BY <2>1, <2>2
<1>3. QED BY <1>2

\* The rest of the types: what the steps do to the other variables.
OthersOK ==
    /\ acct \in Account
    /\ sessions \subseteq Names /\ pending \subseteq Requests /\ setups \subseteq Requests
    /\ used \subseteq [code : Code, until : Nat]
    /\ now \in Nat
    /\ cred \in [Names -> Cred]
    /\ won \in [Requests -> Code \cup {None}] /\ late \subseteq Requests
    /\ epoch \in Names
    /\ ended \subseteq Names /\ raced \subseteq Requests /\ proved \subseteq Names
    /\ overran \in BOOLEAN

LEMMA MovedType ==
    ASSUME NEW h \in Requests, NEW l, NEW k, NEW t, Moved(h, l, k, t), OthersOK',
           \A g \in Requests : Placed(g)'
    PROVE  TypeOK' /\ \A g \in Requests : Placed(g)'
BY DEF Moved, OthersOK, TypeOK

LEMMA CodesCode == TypeOK => Codes \in SUBSET (Code \cup {None})
<1> SUFFICES ASSUME TypeOK PROVE Codes \in SUBSET (Code \cup {None}) OBVIOUS
<1>1. now + Drift \in Nat BY ConstantsAssumption DEF TypeOK
<1>2. acct.secret \in Names BY DEF TypeOK, Account
<1>3. \A g \in Requests : won[g] \in Code \cup {None} BY DEF TypeOK
<1>4. QED BY <1>1, <1>2, <1>3 DEF Codes, Code

LEMMA HeldHeld ==
    /\ Held("session") \in SUBSET Names
    /\ Held("totp") \in SUBSET Requests /\ Held("setup") \in SUBSET Requests
    /\ \A t \in Held("totp") : pc[t] = "totp"
    /\ \A t \in Held("setup") : pc[t] = "setup"
    /\ \A t \in Held("session") : t = First \/ (t \in Requests /\ pc[t] = "session")
BY DEF Held, At, Names

\* What a request may ask at first, by its kind.
LEMMA LoginAsks ==
    ASSUME TypeOK,
           NEW o \in Asks("login", {None}, {acct.password, None}, {None})
                     \cup Asks("sso", {None}, {None}, {None})
    PROVE  o \in Ask /\ o.kind \in {"login", "sso"} /\ o.token = None
           /\ o.password \in Names \cup {None} /\ o.code = None
           /\ (o.kind = "sso" => o.password = None)
<1>1. acct.password \in Names BY DEF TypeOK, Account
<1>2. CASE o \in Asks("login", {None}, {acct.password, None}, {None})
  <2>1. o \in Ask /\ o.kind = "login" /\ o.token \in {None} /\ o.password \in {acct.password, None}
        /\ o.code \in {None}
    BY <1>1, <1>2, AsksAsk, "login" \in Kinds DEF Kinds
  <2>2. QED BY <2>1, <1>1
<1>3. CASE o \in Asks("sso", {None}, {None}, {None})
  <2>1. o \in Ask /\ o.kind = "sso" /\ o.token \in {None} /\ o.password \in {None} /\ o.code \in {None}
    BY <1>3, AsksAsk, "sso" \in Kinds DEF Kinds
  <2>2. QED BY <2>1
<1>4. QED BY <1>2, <1>3

LEMMA TokenAsks ==
    ASSUME TypeOK,
           NEW o \in Asks("mfa", Held("totp"), {None}, Codes)
                     \cup Asks("setup", Held("setup"), {None}, Codes)
    PROVE  /\ o \in Ask /\ o.kind \in {"mfa", "setup"}
           /\ o.token \in Requests /\ pc[o.token] \in {"totp", "setup"}
<1>1. CASE o \in Asks("mfa", Held("totp"), {None}, Codes)
  <2>1. o \in Ask /\ o.kind = "mfa" /\ o.token \in Held("totp")
    BY <1>1, AsksAsk, CodesCode, HeldHeld, "mfa" \in Kinds DEF Kinds, Names
  <2>2. QED BY <2>1, HeldHeld
<1>2. CASE o \in Asks("setup", Held("setup"), {None}, Codes)
  <2>1. o \in Ask /\ o.kind = "setup" /\ o.token \in Held("setup")
    BY <1>2, AsksAsk, CodesCode, HeldHeld, "setup" \in Kinds DEF Kinds, Names
  <2>2. QED BY <2>1, HeldHeld
<1>3. QED BY <1>1, <1>2

LEMMA SessionAsks ==
    ASSUME TypeOK,
           NEW o \in Asks("refresh", Held("session"), {None}, {None})
                     \cup Asks("password", Held("session"), {acct.password}, Codes)
                     \cup Asks("logout", Held("session"), {None}, {None})
    PROVE  /\ o \in Ask /\ o.kind \in {"refresh", "password", "logout"}
           /\ o.token = First \/ (o.token \in Requests /\ pc[o.token] = "session")
<1>0. acct.password \in Names BY DEF TypeOK, Account
<1>1. CASE o \in Asks("refresh", Held("session"), {None}, {None})
  <2>1. o \in Ask /\ o.kind = "refresh" /\ o.token \in Held("session")
    BY <1>1, AsksAsk, HeldHeld, "refresh" \in Kinds DEF Kinds
  <2>2. QED BY <2>1, HeldHeld
<1>2. CASE o \in Asks("password", Held("session"), {acct.password}, Codes)
  <2>1. o \in Ask /\ o.kind = "password" /\ o.token \in Held("session")
    BY <1>0, <1>2, AsksAsk, CodesCode, HeldHeld, "password" \in Kinds DEF Kinds
  <2>2. QED BY <2>1, HeldHeld
<1>3. CASE o \in Asks("logout", Held("session"), {None}, {None})
  <2>1. o \in Ask /\ o.kind = "logout" /\ o.token \in Held("session")
    BY <1>3, AsksAsk, HeldHeld, "logout" \in Kinds DEF Kinds
  <2>2. QED BY <2>1, HeldHeld
<1>4. QED BY <1>1, <1>2, <1>3

LEMMA TargetAsks ==
    ASSUME NEW o \in UNION {Asks(k, {None}, {None}, {None}) : k \in {"reset", "deactivate", "reactivate"}}
    PROVE  o \in Ask /\ o.kind \in {"reset", "deactivate", "reactivate"} /\ o.token = None
<1>1. PICK k \in {"reset", "deactivate", "reactivate"} : o \in Asks(k, {None}, {None}, {None})
  OBVIOUS
<1>2. k \in Kinds BY DEF Kinds
<1>3. o \in Ask /\ o.kind = k /\ o.token \in {None} BY <1>1, <1>2, AsksAsk
<1>4. QED BY <1>3

\* Every step of a handler keeps the types and the places.
LEMMA HandlerType ==
    ASSUME TypeInv, NEW h \in Requests, Handler(h)
    PROVE  TypeOK' /\ \A g \in Requests : Placed(g)'
<1> USE DEF TypeInv, marks
<1>0. /\ OthersOK /\ Placed(h) /\ Verified(h) /\ op[h] \in Ask /\ snap[h] \in Account /\ acct \in Account
      /\ Token(h) \in Names \cup {None} /\ h \in Names /\ cred[h] \in Cred
      /\ None \in Code \cup {None}
  BY DEF OthersOK, TypeOK, Names, Ask, Token, VerifiedInv
<1>1. CASE Login(h)
  <2>1. PICK o \in Asks("login", {None}, {acct.password, None}, {None})
                  \cup Asks("sso", {None}, {None}, {None}) :
           /\ At(h, "idle")
           /\ \/ /\ Move(h, "second", o, acct)
                 /\ cred' = [cred EXCEPT ![h] =
                        [password |-> o.password, secret |-> None, epoch |-> epoch]]
              \/ Move(h, "refused", o, acct) /\ UNCHANGED cred
           /\ UNCHANGED <<acct, redis, used, late, now, won, ended, raced, ghosts>>
    BY <1>1 DEF Login
  <2>2. o \in Ask /\ o.kind \in {"login", "sso"} /\ o.password \in Names \cup {None}
    BY <2>1, LoginAsks
  <2>3. \E l \in {"second", "refused"} : Moved(h, l, o.kind, o.token)
    BY <1>0, <2>1, <2>2, MoveMoved DEF At, Steps, Answers
  <2>4. OthersOK'
    <3>1. [password |-> o.password, secret |-> None, epoch |-> epoch] \in Cred
      BY <1>0, <2>2 DEF Cred, OthersOK
    <3>2. cred' \in [Names -> Cred] BY <1>0, <2>1, <3>1 DEF OthersOK
    <3>3. QED BY <1>0, <2>1, <3>2 DEF OthersOK, redis, ghosts
  <2>5. \A g \in Requests : Placed(g)' BY <2>2, <2>3, MovedPlaced
  <2>6. QED BY <2>3, <2>4, <2>5, MovedType
<1>2. CASE SecondFactor(h)
  <2>1. \E l \in {"refused", "setup", "totp"} : Moved(h, l, Kind(h), Token(h))
    BY <1>2, GoMoved DEF SecondFactor, At, Steps, Answers
  <2>2. Kind(h) \in {"login", "sso"} BY <1>0, <1>2 DEF SecondFactor, At, Placed
  <2>3. OthersOK' BY <1>0, <1>2 DEF SecondFactor, OthersOK, redis, ghosts
  <2>4. \A g \in Requests : Placed(g)' BY <2>1, <2>2, MovedPlaced
  <2>5. QED BY <2>1, <2>3, <2>4, MovedType
<1>3. CASE ConsumeToken(h)
  <2>1. PICK o \in Asks("mfa", Held("totp"), {None}, Codes)
                  \cup Asks("setup", Held("setup"), {None}, Codes) :
           /\ At(h, "idle")
           /\ \/ /\ Move(h, "load", o, snap[h])
                 /\ cred' = [cred EXCEPT ![h] = cred[o.token]]
                 /\ raced' = IF o.token \in raced THEN raced \cup {h} ELSE raced
              \/ Move(h, "refused", o, snap[h]) /\ UNCHANGED <<cred, raced>>
           /\ pending' = pending \ {o.token} /\ setups' = setups \ {o.token}
           /\ UNCHANGED <<acct, sessions, used, late, now, won, ended, ghosts>>
    BY <1>3 DEF ConsumeToken
  <2>2. /\ o \in Ask /\ o.kind \in {"mfa", "setup"}
        /\ o.token \in Requests /\ pc[o.token] \in {"totp", "setup"}
    BY <2>1, TokenAsks
  <2>3. \E l \in {"load", "refused"} : Moved(h, l, o.kind, o.token)
    BY <1>0, <2>1, <2>2, MoveMoved DEF At, Steps, Answers
  <2>4. OthersOK'
    <3>1. cred[o.token] \in Cred BY <1>0, <2>2 DEF OthersOK, Names
    <3>2. cred' \in [Names -> Cred] BY <1>0, <2>1, <3>1 DEF OthersOK
    <3>3. raced' \subseteq Requests BY <1>0, <2>1 DEF OthersOK
    <3>4. QED BY <1>0, <2>1, <3>2, <3>3 DEF OthersOK, ghosts
  <2>5. \A g \in Requests : Placed(g)' BY <2>2, <2>3, MovedPlaced
  <2>6. QED BY <2>3, <2>4, <2>5, MovedType
<1>4. CASE LoadUser(h)
  <2>1. \E l \in {"refused", "code"} : Moved(h, l, Kind(h), Token(h))
    BY <1>0, <1>4, MoveMoved DEF LoadUser, At, Steps, Answers, Kind, Token
  <2>2. /\ Kind(h) \in {"mfa", "setup"}
        /\ Token(h) \in Requests /\ pc[Token(h)] \in {"totp", "setup"}
    BY <1>0, <1>4 DEF LoadUser, At, Placed
  <2>3. OthersOK' BY <1>0, <1>4 DEF LoadUser, OthersOK, redis, ghosts
  <2>4. \A g \in Requests : Placed(g)' BY <2>1, <2>2, MovedPlaced
  <2>5. QED BY <2>1, <2>3, <2>4, MovedType
<1>5. CASE Locked(h)
  <2>1. Moved(h, "refused", Kind(h), Token(h))
    BY <1>5, GoMoved DEF Locked, At, Steps, Answers
  <2>2. OthersOK' BY <1>0, <1>5 DEF Locked, OthersOK, redis, ghosts
  <2>3. \A g \in Requests : Placed(g)' BY <1>0, <2>1, MovedPlaced DEF Placed
  <2>4. QED BY <2>1, <2>2, <2>3, MovedType
<1>6. CASE VerifyCode(h)
  <2>1. Kind(h) \in {"mfa", "setup", "password"} /\ pc[h] = "code"
    BY <1>0, <1>6 DEF VerifyCode, At, Placed
  <2>2. \/ Go(h, "mark")
        \/ Kind(h) = "password" /\ Go(h, "refused")
        \/ Kind(h) # "password" /\ Go(h, "again")
    BY <1>6 DEF VerifyCode, WrongCode
  <2>3. \/ Moved(h, "mark", Kind(h), Token(h))
        \/ Kind(h) = "password" /\ Moved(h, "refused", Kind(h), Token(h))
        \/ Kind(h) # "password" /\ Moved(h, "again", Kind(h), Token(h))
    BY <2>1, <2>2, GoMoved DEF Steps, Answers
  <2>4. OthersOK' BY <1>0, <1>6 DEF VerifyCode, OthersOK, redis, marks, ghosts
  <2>5. \A g \in Requests : Placed(g)' BY <1>0, <2>1, <2>3, MovedPlaced DEF Placed
  <2>6. QED BY <2>3, <2>4, <2>5, MovedType
<1>7. CASE Again(h)
  <2>1. \E l \in {"totp", "setup"} : Moved(h, l, Kind(h), Token(h))
    BY <1>7, GoMoved DEF Again, At, Steps, Answers
  <2>2. Kind(h) \in {"mfa", "setup"} BY <1>0, <1>7 DEF Again, At, Placed
  <2>3. OthersOK' BY <1>0, <1>7 DEF Again, OthersOK, ghosts
  <2>4. \A g \in Requests : Placed(g)' BY <1>0, <2>1, <2>2, MovedPlaced DEF Placed
  <2>5. QED BY <2>1, <2>3, <2>4, MovedType
<1>8. CASE Enrol(h)
  <2>1. Moved(h, "start", Kind(h), Token(h))
    BY <1>8, GoMoved DEF Enrol, At, Steps, Answers
  <2>2. Kind(h) \in {"mfa", "setup"} BY <1>0, <1>8 DEF Enrol, At, Placed
  <2>3. acct' \in Account BY <1>0, <1>8 DEF Enrol, Write, Flag, Account
  <2>4. overran' \in BOOLEAN BY <1>0, <1>8 DEF Enrol, Write, OthersOK
  <2>5. proved' \subseteq Names BY <1>0, <1>8 DEF Enrol, OthersOK, Account
  <2>6. OthersOK' BY <1>0, <1>8, <2>3, <2>4, <2>5 DEF Enrol, OthersOK, redis
  <2>7. \A g \in Requests : Placed(g)' BY <1>0, <2>1, <2>2, MovedPlaced DEF Placed
  <2>8. QED BY <2>1, <2>6, <2>7, MovedType
<1>9. CASE StartSession(h)
  <2>1. \E l \in {"session", "refused"} : Moved(h, l, Kind(h), Token(h))
    BY <1>9, GoMoved DEF StartSession, At, Steps, Answers
  <2>2. Kind(h) \in {"mfa", "setup"} BY <1>0, <1>9 DEF StartSession, At, Placed
  <2>3. OthersOK' BY <1>0, <1>9 DEF StartSession, OthersOK, ghosts
  <2>4. \A g \in Requests : Placed(g)' BY <1>0, <2>1, <2>2, MovedPlaced DEF Placed, Keyed
  <2>5. QED BY <2>1, <2>3, <2>4, MovedType
<1>10. CASE ValidateSession(h)
  <2>1. PICK o \in Asks("refresh", Held("session"), {None}, {None})
                  \cup Asks("password", Held("session"), {acct.password}, Codes) :
           /\ At(h, "idle")
           /\ Move(h, "signed_in", o, snap[h]) \/ Move(h, "refused", o, snap[h])
           /\ UNCHANGED <<acct, redis, used, late, now, cred, won, ended, raced, ghosts>>
    BY <1>10 DEF ValidateSession
  <2>2. /\ o \in Ask /\ o.kind \in {"refresh", "password", "logout"}
        /\ o.token = First \/ (o.token \in Requests /\ pc[o.token] = "session")
    BY <2>1, SessionAsks
  <2>3. o.kind # "logout" BY <2>1 DEF Asks
  <2>4. \E l \in {"signed_in", "refused"} : Moved(h, l, o.kind, o.token)
    BY <1>0, <2>1, <2>2, MoveMoved DEF At, Steps, Answers
  <2>5. OthersOK' BY <1>0, <2>1 DEF OthersOK, redis, ghosts
  <2>6. \A g \in Requests : Placed(g)' BY <2>2, <2>3, <2>4, MovedPlaced
  <2>7. QED BY <2>4, <2>5, <2>6, MovedType
<1>11. CASE SignedIn(h)
  <2>1. Kind(h) \in {"refresh", "password"} BY <1>0, <1>11 DEF SignedIn, At, Placed
  <2>2. \/ Kind(h) = "refresh" /\ Move(h, "store", op[h], acct)
        \/ Kind(h) = "password" /\ Move(h, "code", op[h], acct)
        \/ Move(h, "refused", op[h], acct)
    BY <1>11, <2>1 DEF SignedIn
  <2>3. \/ Kind(h) = "refresh" /\ Moved(h, "store", Kind(h), Token(h))
        \/ Kind(h) = "password" /\ Moved(h, "code", Kind(h), Token(h))
        \/ Moved(h, "refused", Kind(h), Token(h))
    BY <1>0, <1>11, <2>2, MoveMoved DEF SignedIn, At, Steps, Answers, Kind, Token
  <2>4. OthersOK' BY <1>0, <1>11 DEF SignedIn, OthersOK, redis, ghosts
  <2>5. \A g \in Requests : Placed(g)' BY <1>0, <2>3, MovedPlaced DEF Placed
  <2>6. QED BY <2>3, <2>4, <2>5, MovedType
<1>12. CASE StoreNew(h)
  <2>1. Moved(h, "retire", Kind(h), Token(h))
    BY <1>12, GoMoved DEF StoreNew, At, Steps, Answers
  <2>2. Kind(h) = "refresh" /\ Token(h) \in Names
    BY <1>0, <1>12 DEF StoreNew, At, Placed, Names
  <2>3. cred' \in [Names -> Cred]
    <3>1. cred[Token(h)] \in Cred BY <1>0, <2>2 DEF OthersOK
    <3>2. QED BY <1>0, <1>12, <3>1 DEF StoreNew, OthersOK
  <2>4. raced' \subseteq Requests BY <1>0, <1>12 DEF StoreNew, OthersOK
  <2>5. OthersOK' BY <1>0, <1>12, <2>3, <2>4 DEF StoreNew, OthersOK, ghosts
  <2>6. \A g \in Requests : Placed(g)' BY <1>0, <2>1, <2>2, MovedPlaced DEF Placed
  <2>7. QED BY <2>1, <2>5, <2>6, MovedType
<1>13. CASE RetireOld(h)
  <2>1. \E l \in {"session", "undo"} : Moved(h, l, Kind(h), Token(h))
    BY <1>13, GoMoved DEF RetireOld, At, Steps, Answers
  <2>2. Kind(h) = "refresh" BY <1>0, <1>13 DEF RetireOld, At, Placed
  <2>3. OthersOK' BY <1>0, <1>13 DEF RetireOld, OthersOK, ghosts
  <2>4. \A g \in Requests : Placed(g)' BY <1>0, <2>1, <2>2, MovedPlaced DEF Placed, Keyed
  <2>5. QED BY <2>1, <2>3, <2>4, MovedType
<1>14. CASE UndoRefresh(h)
  <2>1. Moved(h, "refused", Kind(h), Token(h))
    BY <1>14, GoMoved DEF UndoRefresh, At, Steps, Answers
  <2>2. OthersOK' BY <1>0, <1>14 DEF UndoRefresh, OthersOK, ghosts
  <2>3. \A g \in Requests : Placed(g)' BY <1>0, <2>1, MovedPlaced DEF Placed
  <2>4. QED BY <2>1, <2>2, <2>3, MovedType
<1>15. CASE Logout(h)
  <2>1. PICK o \in Asks("logout", Held("session"), {None}, {None}) :
           /\ At(h, "idle")
           /\ sessions' = sessions \ {o.token}
           /\ ended' = ended \cup ({o.token} \cap sessions)
           /\ Move(h, "done", o, snap[h])
           /\ UNCHANGED <<acct, pending, setups, used, late, now, cred, won, raced, ghosts>>
    BY <1>15 DEF Logout
  <2>2. o \in Ask /\ o.kind = "logout" BY <2>1, SessionAsks DEF Asks
  <2>3. Moved(h, "done", o.kind, o.token)
    BY <1>0, <2>1, <2>2, MoveMoved DEF At, Steps, Answers
  <2>4. OthersOK' BY <1>0, <2>1 DEF OthersOK, ghosts
  <2>5. \A g \in Requests : Placed(g)' BY <2>2, <2>3, MovedPlaced
  <2>6. QED BY <2>3, <2>4, <2>5, MovedType
<1>16. CASE LoadTarget(h)
  <2>1. PICK o \in UNION {Asks(k, {None}, {None}, {None}) : k \in {"reset", "deactivate", "reactivate"}} :
           /\ At(h, "idle")
           /\ Move(h, "commit", o, acct)
           /\ UNCHANGED <<acct, redis, used, late, now, cred, won, ended, raced, ghosts>>
    BY <1>16 DEF LoadTarget
  <2>2. o \in Ask /\ o.kind \in {"reset", "deactivate", "reactivate"} BY <2>1, TargetAsks
  <2>3. Moved(h, "commit", o.kind, o.token)
    BY <1>0, <2>1, <2>2, MoveMoved DEF At, Steps, Answers
  <2>4. OthersOK' BY <1>0, <2>1 DEF OthersOK, redis, ghosts
  <2>5. \A g \in Requests : Placed(g)' BY <2>2, <2>3, MovedPlaced
  <2>6. QED BY <2>3, <2>4, <2>5, MovedType
<1>17. CASE ChangePassword(h)
  <2>1. Moved(h, "sweep", Kind(h), Token(h))
    BY <1>17, GoMoved DEF ChangePassword, At, Steps, Answers
  <2>2. Kind(h) = "password" /\ Token(h) \in Names
    BY <1>0, <1>17 DEF ChangePassword, At, Placed, Names
  <2>3. acct' \in Account BY <1>0, <1>17 DEF ChangePassword, Write, Flag, Account
  <2>4. overran' \in BOOLEAN BY <1>0, <1>17 DEF ChangePassword, Write, OthersOK
  <2>5. cred' \in [Names -> Cred]
    <3>1. cred[Token(h)] \in Cred BY <1>0, <2>2 DEF OthersOK
    <3>2. [cred[Token(h)] EXCEPT !.password = h] \in Cred BY <1>0, <3>1 DEF Cred
    <3>3. QED BY <1>0, <1>17, <3>2 DEF ChangePassword, OthersOK
  <2>6. OthersOK' BY <1>0, <1>17, <2>3, <2>4, <2>5 DEF ChangePassword, OthersOK, redis
  <2>7. \A g \in Requests : Placed(g)' BY <1>0, <2>1, <2>2, MovedPlaced DEF Placed
  <2>8. QED BY <2>1, <2>6, <2>7, MovedType
<1>18. CASE ResetAuthenticator(h)
  <2>1. Moved(h, "sweep", Kind(h), Token(h))
    BY <1>18, GoMoved DEF ResetAuthenticator, At, Steps, Answers
  <2>2. Kind(h) = "reset" BY <1>18 DEF ResetAuthenticator
  <2>3. acct' \in Account BY <1>0, <1>18 DEF ResetAuthenticator, Write, Flag, Account
  <2>4. overran' \in BOOLEAN BY <1>0, <1>18 DEF ResetAuthenticator, Write, OthersOK
  <2>5. OthersOK' BY <1>0, <1>18, <2>3, <2>4 DEF ResetAuthenticator, OthersOK, redis
  <2>6. \A g \in Requests : Placed(g)' BY <2>1, <2>2, MovedPlaced
  <2>7. QED BY <2>1, <2>5, <2>6, MovedType
<1>19. CASE Deactivate(h)
  <2>1. Moved(h, "sweep", Kind(h), Token(h))
    BY <1>19, GoMoved DEF Deactivate, At, Steps, Answers
  <2>2. Kind(h) = "deactivate" BY <1>19 DEF Deactivate
  <2>3. acct' \in Account BY <1>0, <1>19 DEF Deactivate, Write, Flag, Account
  <2>4. overran' \in BOOLEAN BY <1>0, <1>19 DEF Deactivate, Write, OthersOK
  <2>5. OthersOK' BY <1>0, <1>19, <2>3, <2>4 DEF Deactivate, OthersOK, redis
  <2>6. \A g \in Requests : Placed(g)' BY <2>1, <2>2, MovedPlaced
  <2>7. QED BY <2>1, <2>5, <2>6, MovedType
<1>20. CASE Reactivate(h)
  <2>1. Moved(h, "done", Kind(h), Token(h))
    BY <1>20, GoMoved DEF Reactivate, At, Steps, Answers
  <2>2. Kind(h) = "reactivate" BY <1>20 DEF Reactivate
  <2>3. acct' \in Account BY <1>0, <1>20 DEF Reactivate, Write, Flag, Account
  <2>4. overran' \in BOOLEAN BY <1>0, <1>20 DEF Reactivate, Write, OthersOK
  <2>5. OthersOK' BY <1>0, <1>20, <2>3, <2>4 DEF Reactivate, OthersOK, redis
  <2>6. \A g \in Requests : Placed(g)' BY <2>1, <2>2, MovedPlaced
  <2>7. QED BY <2>1, <2>5, <2>6, MovedType
<1>21. CASE Sweep(h)
  <2>1. Moved(h, "done", Kind(h), Token(h))
    BY <1>21, GoMoved DEF Sweep, At, Steps, Answers
  <2>2. /\ Kind(h) \in {"password", "reset", "deactivate", "reactivate"}
        /\ pc[h] = "sweep"
    BY <1>0, <1>21 DEF Sweep, At, Placed
  <2>3. OthersOK' BY <1>0, <1>21 DEF Sweep, OthersOK, redis, ghosts, InFlight
  <2>4. \A g \in Requests : Placed(g)' BY <1>0, <2>1, <2>2, MovedPlaced DEF Placed
  <2>5. QED BY <2>1, <2>3, <2>4, MovedType
<1>22. CASE SweepFails(h)
  <2>1. Moved(h, "unswept", Kind(h), Token(h))
    BY <1>22, GoMoved DEF SweepFails, At, Steps, Answers
  <2>2. /\ Kind(h) \in {"password", "reset", "deactivate", "reactivate"}
        /\ pc[h] = "sweep"
    BY <1>0, <1>22 DEF SweepFails, At, Placed
  <2>3. OthersOK' BY <1>0, <1>22 DEF SweepFails, OthersOK, redis, ghosts
  <2>4. \A g \in Requests : Placed(g)' BY <1>0, <2>1, <2>2, MovedPlaced DEF Placed
  <2>5. QED BY <2>1, <2>3, <2>4, MovedType
<1>23. CASE MarkCode(h)
  <2> DEFINE code == op[h].code
  <2>0. code \in Code \cup {None} BY <1>0 DEF Ask
  <2>1. Kind(h) \in {"mfa", "setup", "password"} /\ pc[h] = "mark"
    BY <1>0, <1>23 DEF MarkCode, At, Placed
  <2>2. \/ UNCHANGED <<used, won, late, cred>>
        \/ /\ code \in Code
           /\ used' = used \cup {[code |-> code, until |-> UsedUntil]}
           /\ won' = [won EXCEPT ![h] = code]
           /\ late' \subseteq late \cup {h}
           /\ cred' = [cred EXCEPT ![h].secret = code.secret]
    BY <1>0, <1>23, <2>1 DEF MarkCode, Verified, marks
  <2>3. \/ Kind(h) = "mfa" /\ (Go(h, "start") \/ Go(h, "again"))
        \/ Kind(h) = "setup" /\ (Go(h, "enrol") \/ Go(h, "again"))
        \/ Kind(h) = "password" /\ (Go(h, "commit") \/ Go(h, "refused"))
    BY <1>23, <2>1 DEF MarkCode, WrongCode
  <2>4. \/ Kind(h) \in {"mfa", "setup"} /\ \E l \in {"start", "enrol", "again"} : Moved(h, l, Kind(h), Token(h))
        \/ Kind(h) = "password" /\ \E l \in {"commit", "refused"} : Moved(h, l, Kind(h), Token(h))
    BY <2>1, <2>3, GoMoved DEF Steps, Answers
  <2>5. OthersOK'
    <3>1. UsedUntil \in Nat BY <1>0 DEF UsedUntil, OthersOK
    <3>2. used' \subseteq [code : Code, until : Nat] BY <1>0, <2>2, <3>1 DEF OthersOK
    <3>3. won' \in [Requests -> Code \cup {None}] /\ late' \subseteq Requests
      BY <1>0, <2>2 DEF OthersOK
    <3>4. code \in Code => [cred[h] EXCEPT !.secret = code.secret] \in Cred
      BY <1>0 DEF Cred, Code
    <3>5. cred' \in [Names -> Cred] BY <1>0, <2>2, <3>4 DEF OthersOK
    <3>6. QED BY <1>0, <1>23, <3>2, <3>3, <3>5 DEF MarkCode, OthersOK, redis, ghosts
  <2>6. \A g \in Requests : Placed(g)' BY <1>0, <2>4, MovedPlaced DEF Placed
  <2>7. QED BY <2>4, <2>5, <2>6, MovedType
<1>24. QED BY <1>1, <1>2, <1>3, <1>4, <1>5, <1>6, <1>7, <1>8, <1>9, <1>10, <1>11, <1>12, <1>13, <1>14, <1>15, <1>16, <1>17, <1>18, <1>19, <1>20, <1>21, <1>22, <1>23 DEF Handler

\* Nothing but VerifyCode brings a request to its mark.
LEMMA HandlerVerified ==
    ASSUME TypeInv, NEW h \in Requests, Handler(h)
    PROVE  VerifiedInv'
<1>0. /\ TypeOK /\ op[h] \in Ask /\ snap[h] \in Account /\ acct \in Account /\ now' = now
  BY DEF TypeInv, TypeOK, Handler, Login, SecondFactor, ConsumeToken, LoadUser, Locked, VerifyCode, MarkCode,
     Again, Enrol, StartSession, ValidateSession, SignedIn, StoreNew, RetireOld, UndoRefresh, Logout,
     LoadTarget, ChangePassword, ResetAuthenticator, Deactivate, Reactivate, Sweep, SweepFails
<1>1. CASE VerifyCode(h)
  <2>1. \/ Verifies(snap[h].secret, op[h].code) /\ Move(h, "mark", op[h], snap[h])
        \/ \E l \in {"refused", "again"} : Move(h, l, op[h], snap[h])
    BY <1>1 DEF VerifyCode, WrongCode, Go
  <2>2. CASE Verifies(snap[h].secret, op[h].code) /\ Move(h, "mark", op[h], snap[h])
    <3>1. /\ \A g \in Requests \ {h} : pc'[g] = pc[g] /\ op'[g] = op[g] /\ snap'[g] = snap[g]
          /\ op'[h] = op[h] /\ snap'[h] = snap[h]
      BY <1>0, <2>2, MoveFacts DEF Steps, Answers
    <3>2. op[h].code \in Code /\ op[h].code # None BY <1>0, <2>2 DEF Verifies, Ask
    <3> QED BY <1>0, <2>2, <3>1, <3>2 DEF VerifiedInv, Verified, Verifies, TypeInv
  <2>3. CASE \E l \in {"refused", "again"} : Move(h, l, op[h], snap[h])
    <3>1. /\ \A g \in Requests \ {h} : pc'[g] = pc[g] /\ op'[g] = op[g] /\ snap'[g] = snap[g]
          /\ pc'[h] # "mark"
      BY <1>0, <2>3, MoveFacts DEF Steps, Answers
    <3> QED BY <1>0, <3>1 DEF VerifiedInv, Verified, TypeInv
  <2> QED BY <2>1, <2>2, <2>3
<1>2. CASE ~VerifyCode(h)
  <2> DEFINE Others == {"second", "load", "code", "again", "enrol", "start", "signed_in", "store", "retire",
                        "undo", "commit", "sweep"} \cup Answers
  <2>1. \E l \in Others, o \in Ask, s \in Account : Move(h, l, o, s)
    <3>1. CASE Login(h)
      <4>1. PICK o \in Asks("login", {None}, {acct.password, None}, {None})
                      \cup Asks("sso", {None}, {None}, {None}) :
               Move(h, "second", o, acct) \/ Move(h, "refused", o, acct)
        BY <3>1 DEF Login
      <4>2. o \in Ask BY <1>0, LoginAsks
      <4> QED BY <1>0, <4>1, <4>2 DEF Answers
    <3>2. CASE ConsumeToken(h)
      <4>1. PICK o \in Asks("mfa", Held("totp"), {None}, Codes)
                      \cup Asks("setup", Held("setup"), {None}, Codes) :
               Move(h, "load", o, snap[h]) \/ Move(h, "refused", o, snap[h])
        BY <3>2 DEF ConsumeToken
      <4>2. o \in Ask BY <1>0, TokenAsks
      <4> QED BY <1>0, <4>1, <4>2 DEF Answers
    <3>3. CASE ValidateSession(h)
      <4>1. PICK o \in Asks("refresh", Held("session"), {None}, {None})
                      \cup Asks("password", Held("session"), {acct.password}, Codes) :
               Move(h, "signed_in", o, snap[h]) \/ Move(h, "refused", o, snap[h])
        BY <3>3 DEF ValidateSession
      <4>2. o \in Ask BY <1>0, <4>1, SessionAsks
      <4> QED BY <1>0, <4>1, <4>2 DEF Answers
    <3>4. CASE Logout(h)
      <4>1. PICK o \in Asks("logout", Held("session"), {None}, {None}) : Move(h, "done", o, snap[h])
        BY <3>4 DEF Logout
      <4>2. o \in Ask BY <1>0, <4>1, SessionAsks
      <4> QED BY <1>0, <4>1, <4>2 DEF Answers
    <3>5. CASE LoadTarget(h)
      <4>1. PICK o \in UNION {Asks(k, {None}, {None}, {None}) : k \in {"reset", "deactivate", "reactivate"}} :
               Move(h, "commit", o, acct)
        BY <3>5 DEF LoadTarget
      <4>2. o \in Ask BY <4>1, TargetAsks
      <4> QED BY <1>0, <4>1, <4>2 DEF Answers
    <3>6. CASE LoadUser(h) BY <1>0, <3>6 DEF LoadUser, Answers
    <3>7. CASE SignedIn(h) BY <1>0, <3>7 DEF SignedIn, Answers
    <3>8. CASE \/ SecondFactor(h) \/ Locked(h) \/ MarkCode(h) \/ Again(h)
               \/ Enrol(h) \/ StartSession(h) \/ StoreNew(h) \/ RetireOld(h) \/ UndoRefresh(h)
               \/ ChangePassword(h) \/ ResetAuthenticator(h) \/ Deactivate(h) \/ Reactivate(h)
               \/ Sweep(h) \/ SweepFails(h)
      <4>1. \E l \in Others : Go(h, l)
        BY <3>8 DEF SecondFactor, Locked, MarkCode, WrongCode, Again, Enrol, StartSession, StoreNew, RetireOld,
              UndoRefresh, ChangePassword, ResetAuthenticator, Deactivate, Reactivate, Sweep, SweepFails,
              Answers
      <4> QED BY <1>0, <4>1 DEF Go
    <3> QED BY <1>2, <3>1, <3>2, <3>3, <3>4, <3>5, <3>6, <3>7, <3>8 DEF Handler
  <2>2. PICK l \in Others, o \in Ask, s \in Account : Move(h, l, o, s) BY <2>1
  <2>3. /\ \A g \in Requests \ {h} : pc'[g] = pc[g] /\ op'[g] = op[g] /\ snap'[g] = snap[g]
        /\ pc'[h] # "mark"
    BY <1>0, <2>2, MoveFacts DEF Steps, Answers
  <2> QED BY <1>0, <2>3 DEF VerifiedInv, Verified, TypeInv
<1> QED BY <1>1, <1>2

LEMMA TypeInit == Init => TypeInv
<1> SUFFICES ASSUME Init PROVE TypeInv OBVIOUS
<1>1. NoAsk \in Ask /\ FirstCred \in Cred /\ NoCred \in Cred
  BY DEF NoAsk, Ask, FirstCred, NoCred, Cred, Names, Kinds
<1>2. TypeOK BY <1>1, FreshAccount DEF Init, TypeOK, Names
<1>3. \A h \in Requests : Placed(h) BY DEF Init, Placed, Kind, NoAsk
<1>4. VerifiedInv BY DEF Init, VerifiedInv, Verified
<1>5. QED BY <1>2, <1>3, <1>4 DEF TypeInv

LEMMA TypeStep == TypeInv /\ [Next]_vars => TypeInv'
<1> SUFFICES ASSUME TypeInv, [Next]_vars PROVE TypeInv' OBVIOUS
<1> USE DEF TypeInv
<1>1. ASSUME NEW h \in Requests, Handler(h) PROVE TypeInv' BY <1>1, HandlerType, HandlerVerified
<1>2. CASE UNCHANGED <<acct, pc, op, snap, cred, won, late, raced, ghosts>>
  <2>1. (\A h \in Requests : Placed(h)) => \A h \in Requests : Placed(h)'
    BY <1>2 DEF Placed, Kind, Token
  <2>2. now' \in Nat /\ now =< now' => (VerifiedInv => VerifiedInv')
    BY <1>2 DEF VerifiedInv, Verified, TypeOK, Code
  <2>3. ASSUME NEW k \in Names, Expire(k) PROVE TypeInv'
    BY <1>2, <2>1, <2>2, <2>3 DEF TypeOK, Expire, marks, ghosts
  <2>4. ASSUME NEW u \in used, MarkExpires(u) PROVE TypeInv'
    BY <1>2, <2>1, <2>2, <2>4 DEF TypeOK, MarkExpires, redis, ghosts
  <2>5. CASE Tick BY <1>2, <2>1, <2>2, <2>5 DEF TypeOK, Tick, redis, ghosts
  <2>6. CASE UNCHANGED vars BY <1>2, <2>1, <2>2, <2>6 DEF TypeOK, vars, redis, marks, ghosts
  <2> QED BY <1>1, <2>3, <2>4, <2>5, <2>6 DEF Next
<1>3. QED BY <1>1, <1>2 DEF Next, Expire, MarkExpires, Tick, vars, marks

\* Types: rows, keys, marks and what each request has loaded keep their shape.  A
\* request is only ever at a step of what it asks (Placed).
THEOREM AccessTypeCorrect == Spec => []TypeOK
<1>1. TypeInv => TypeOK BY DEF TypeInv
<1>2. QED BY <1>1, TypeInit, TypeStep, PTL DEF Spec

----------------------------------------------------------------------------
(* Codes: an accepted code is marked until no clock accepts it any more *)

\* The clock is past every step in which the code could have been verified, or the
\* mark stands until then.
Covered(code) ==
    \/ now >= code.step + 2
    \/ \E u \in used : u.code = code /\ u.until >= code.step + 2

MarkedLongEnough == \A h \in Requests : won[h] # None => Covered(won[h])

CodeInv == MarkedLongEnough /\ CodeOnce

LEMMA OnlyMarkCode ==
    ASSUME NEW h \in Requests, Handler(h)
    PROVE  MarkCode(h) \/ UNCHANGED <<won, used, late, now>>
BY DEF Handler, Login, SecondFactor, ConsumeToken, LoadUser, Locked, VerifyCode, Again, Enrol, StartSession,
       ValidateSession, SignedIn, StoreNew, RetireOld, UndoRefresh, Logout, LoadTarget, ChangePassword,
       ResetAuthenticator, Deactivate, Reactivate, Sweep, SweepFails, marks

LEMMA CodeKept == UNCHANGED <<won, used, late, now>> /\ CodeInv => CodeInv'
BY DEF CodeInv, MarkedLongEnough, CodeOnce, Covered

LEMMA CodeMarked ==
    ASSUME TypeInv, CodeInv, NEW h \in Requests, MarkCode(h)
    PROVE  CodeInv'
<1> DEFINE code == op[h].code
<1>1. now' = now /\ now \in Nat BY DEF MarkCode, TypeInv, TypeOK
<1>2. /\ code \in Code /\ code # None /\ code.step \in Nat /\ code.step =< now + 1
  <2>1. pc[h] = "mark" BY DEF MarkCode, At
  <2>2. code \in Code /\ code.step =< now + 1 BY <2>1 DEF TypeInv, VerifiedInv, Verified
  <2>3. code # None BY <2>1 DEF TypeInv, VerifiedInv, Verified
  <2> QED BY <2>2, <2>3 DEF Code
<1>3. CASE Marked(code) BY <1>1, <1>3, CodeKept DEF MarkCode, marks
<1>4. CASE ~Marked(code)
  <2>1. /\ used' = used \cup {[code |-> code, until |-> now + 3]}
        /\ won' = [won EXCEPT ![h] = code]
        /\ late' = IF now > code.step + 1 THEN late \cup {h} ELSE late
    BY <1>4 DEF MarkCode, UsedUntil
  <2>2. won'[h] = code /\ \A g \in Requests \ {h} : won'[g] = won[g]
    BY <2>1 DEF TypeInv, TypeOK
  \* In its window, a code won before is still marked.
  <2>3. ASSUME NEW g \in Requests, won[g] = code PROVE h \in late'
    <3>1. Covered(code) BY <1>2, <2>3 DEF CodeInv, MarkedLongEnough
    <3>2. now >= code.step + 2 BY <1>4, <3>1 DEF Covered, Marked
    <3> QED BY <1>1, <1>2, <2>1, <3>2
  <2>4. late \subseteq late' BY <2>1
  <2>5. CodeOnce'
    <3> SUFFICES ASSUME NEW f \in Requests, NEW g \in Requests,
                        f # g, won'[f] # None, won'[f] = won'[g]
                 PROVE  {f, g} \cap late' # {}
      BY DEF CodeOnce
    <3>1. CASE f = h BY <2>2, <2>3, <3>1
    <3>2. CASE g = h BY <2>2, <2>3, <3>2
    <3>3. CASE f # h /\ g # h BY <2>2, <2>4, <3>3 DEF CodeInv, CodeOnce
    <3> QED BY <3>1, <3>2, <3>3
  <2>6. ASSUME NEW c \in Code, c # None, NEW g \in Requests, won'[g] = c PROVE Covered(c)'
    <3>1. CASE g = h
      <4> DEFINE m == [code |-> code, until |-> now + 3]
      <4>1. m \in used' /\ m.code = c BY <2>1, <2>2, <2>6, <3>1
      <4>2. m.until >= c.step + 2 BY <1>1, <1>2, <2>2, <2>6, <3>1
      <4> QED BY <4>1, <4>2 DEF Covered
    <3>2. CASE g # h
      <4>1. won[g] = c /\ Covered(c) BY <2>2, <2>6, <3>2 DEF CodeInv, MarkedLongEnough
      <4>2. used \subseteq used' BY <2>1
      <4> QED BY <1>1, <4>1, <4>2 DEF Covered
    <3> QED BY <3>1, <3>2
  <2>7. \A g \in Requests : won'[g] # None => won'[g] \in Code
    BY <1>2, <2>2 DEF TypeInv, TypeOK
  <2>8. MarkedLongEnough' BY <2>6, <2>7 DEF MarkedLongEnough, Covered
  <2> QED BY <2>5, <2>8 DEF CodeInv
<1> QED BY <1>3, <1>4

\* A mark that ends, by itself or with the step it was set for, has covered its code.
LEMMA CoverStays ==
    ASSUME TypeInv, NEW code \in Code, Covered(code), now' \in Nat, now' >= now,
           \A u \in used : u \in used' \/ u.until =< now'
    PROVE  Covered(code)'
<1>1. code.step \in Nat /\ now \in Nat BY DEF Code, TypeInv, TypeOK
<1>2. CASE now >= code.step + 2 BY <1>1, <1>2 DEF Covered
<1>3. CASE \E u \in used : u.code = code /\ u.until >= code.step + 2
  <2>1. PICK u \in used : u.code = code /\ u.until >= code.step + 2 BY <1>3
  <2>2. u.until \in Nat BY DEF TypeInv, TypeOK
  <2>3. CASE u \in used' BY <2>1, <2>3 DEF Covered
  <2>4. CASE u.until =< now' BY <1>1, <2>1, <2>2, <2>4 DEF Covered
  <2> QED BY <2>3, <2>4
<1> QED BY <1>2, <1>3 DEF Covered

LEMMA CodeAged ==
    ASSUME TypeInv, CodeInv, Tick \/ \E u \in used : MarkExpires(u)
    PROVE  CodeInv'
<1>1. UNCHANGED <<won, late>> BY DEF Tick, MarkExpires
<1>2. now \in Nat /\ now' \in Nat /\ now' >= now /\ \A u \in used : u \in used' \/ u.until =< now'
  BY DEF Tick, MarkExpires, TypeInv, TypeOK
<1>3. \A g \in Requests : won[g] # None => won[g] \in Code BY DEF TypeInv, TypeOK
<1>4. MarkedLongEnough' BY <1>1, <1>2, <1>3, CoverStays DEF CodeInv, MarkedLongEnough
<1>5. CodeOnce' BY <1>1 DEF CodeInv, CodeOnce
<1> QED BY <1>4, <1>5 DEF CodeInv

\* A code counts once in its window: the mark that consume_totp sets outlives every
\* step in which verify_totp would take the code, with the authenticator's clock early
\* or late, so of two that win with one code, a session or a password change each, one
\* had verified it in the window and set its mark after.
THEOREM CodeCorrect == Spec => []CodeOnce
<1>1. Init => CodeInv BY DEF Init, CodeInv, MarkedLongEnough, CodeOnce
<1>2. TypeInv /\ CodeInv /\ [Next]_vars => CodeInv'
  <2> SUFFICES ASSUME TypeInv, CodeInv, [Next]_vars PROVE CodeInv' OBVIOUS
  <2>1. ASSUME NEW h \in Requests, Handler(h) PROVE CodeInv'
    BY <2>1, OnlyMarkCode, CodeKept, CodeMarked
  <2>2. ASSUME NEW k \in Names, Expire(k) PROVE CodeInv' BY <2>2, CodeKept DEF Expire, marks
  <2>3. CASE Tick \/ \E u \in used : MarkExpires(u) BY <2>3, CodeAged
  <2>4. CASE UNCHANGED vars BY <2>4, CodeKept DEF vars, marks
  <2>5. QED BY <2>1, <2>2, <2>3, <2>4 DEF Next
<1>3. CodeInv => CodeOnce BY DEF CodeInv
<1>4. QED BY <1>1, <1>2, <1>3, TypeInit, TypeStep, PTL DEF Spec

----------------------------------------------------------------------------
(* Keys: who holds one, and that an ended or spent one stays so *)

TokenKinds == {"mfa", "setup"}

\* A request whose key is stored has been answered with it or is about to.
KeyPlaced ==
    /\ \A h \in Requests : h \in sessions => pc[h] \in {"session", "retire", "undo"}
    /\ \A h \in Requests : h \in pending => pc[h] = "totp"
    /\ \A h \in Requests : h \in setups => pc[h] = "setup"
    /\ \A h \in Requests : h \in ended => pc[h] \in {"session", "retire", "undo", "refused"}
    /\ ended \cap sessions = {}

\* The session a refresh has replaced is gone, and was not ended.
Replaced ==
    /\ \A h \in Requests : Kind(h) = "refresh" /\ pc[h] = "session" => Token(h) \notin ended \cup sessions
    /\ \A g, h \in Requests :
           /\ g # h /\ Kind(g) = "refresh" /\ Kind(h) = "refresh"
           /\ pc[g] = "session" /\ pc[h] = "session"
           => Token(g) # Token(h)

\* The token a login came with is gone, and nobody else came with it.
Spent ==
    /\ \A h \in Requests : Kind(h) \in TokenKinds /\ pc[h] # "refused" => Token(h) \notin pending \cup setups
    /\ \A g, h \in Requests :
           /\ g # h /\ Kind(g) \in TokenKinds /\ Kind(h) \in TokenKinds
           /\ pc[g] # "refused" /\ pc[h] # "refused"
           => Token(g) # Token(h)

KeyInv == KeyPlaced /\ Replaced /\ Spent

\* What the handlers' steps do to the keys.
KeysAlone(h, l, k, t) ==
    /\ UNCHANGED <<sessions, pending, setups, ended>>
    /\ pc[h] \notin {"retire", "undo"} /\ l \notin {"session", "totp", "setup"}
    /\ k \in TokenKinds => k = Kind(h) /\ t = Token(h) /\ pc[h] \notin {"refused", "idle"}
KeyGiven(h, l, k, t) ==
    /\ pc[h] \in {"second", "again"} /\ k = Kind(h) /\ t = Token(h) /\ k # "refresh"
    /\ \/ l = "totp" /\ pending' = pending \cup {h} /\ UNCHANGED setups
       \/ l = "setup" /\ setups' = setups \cup {h} /\ UNCHANGED pending
    /\ UNCHANGED <<sessions, ended>>
KeySpent(h, l, k, t) ==
    /\ pc[h] = "idle" /\ k \in TokenKinds
    /\ l = "refused" \/ (l = "load" /\ t \in pending \cup setups)
    /\ pending' = pending \ {t} /\ setups' = setups \ {t}
    /\ UNCHANGED <<sessions, ended>>
SessionGiven(h, l, k, t) ==
    /\ k = Kind(h) /\ t = Token(h)
    /\ \/ pc[h] = "start" /\ l = "session" /\ k \in TokenKinds
       \/ pc[h] = "store" /\ l = "retire" /\ k = "refresh"
    /\ sessions' = sessions \cup {h}
    /\ UNCHANGED <<pending, setups, ended>>
SessionReplaced(h, l, k, t) ==
    /\ pc[h] = "retire" /\ k = Kind(h) /\ t = Token(h) /\ k = "refresh"
    /\ (l = "session" /\ t \in sessions) \/ (l = "undo" /\ t \notin sessions)
    /\ sessions' = sessions \ {t}
    /\ UNCHANGED <<pending, setups, ended>>
SessionUndone(h, l, k, t) ==
    /\ pc[h] = "undo" /\ l = "refused" /\ k = "refresh"
    /\ sessions' = sessions \ {h}
    /\ UNCHANGED <<pending, setups, ended>>
KeysEnded(h, l, k, t) ==
    /\ pc[h] \in {"idle", "sweep"} /\ l = "done" /\ k \notin TokenKinds
    /\ sessions' \subseteq sessions /\ pending' \subseteq pending /\ setups' \subseteq setups
    /\ ended' = ended \cup (sessions \ sessions')

KeyStep(h, l, k, t) ==
    /\ Moved(h, l, k, t)
    /\ \/ KeysAlone(h, l, k, t) \/ KeyGiven(h, l, k, t) \/ KeySpent(h, l, k, t)
       \/ SessionGiven(h, l, k, t) \/ SessionReplaced(h, l, k, t) \/ SessionUndone(h, l, k, t)
       \/ KeysEnded(h, l, k, t)

LEMMA HandlerKeys ==
    ASSUME TypeInv, NEW h \in Requests, Handler(h)
    PROVE  \E l, k, t : KeyStep(h, l, k, t)
<1> USE DEF KeyStep
<1>0. Placed(h) /\ op[h] \in Ask /\ snap[h] \in Account /\ acct \in Account /\ TypeOK
  BY DEF TypeInv, TypeOK
<1>1. CASE Login(h)
  <2>1. PICK o \in Asks("login", {None}, {acct.password, None}, {None})
                  \cup Asks("sso", {None}, {None}, {None}) :
           /\ At(h, "idle")
           /\ Move(h, "second", o, acct) \/ Move(h, "refused", o, acct)
           /\ UNCHANGED <<redis, ended>>
    BY <1>1 DEF Login
  <2>2. o \in Ask /\ o.kind \in {"login", "sso"} BY <1>0, <2>1, LoginAsks
  <2>3. PICK l \in {"second", "refused"} : Moved(h, l, o.kind, o.token)
    BY <1>0, <2>1, <2>2, MoveMoved DEF At, Steps, Answers
  <2>4. KeysAlone(h, l, o.kind, o.token) BY <2>1, <2>2, <2>3 DEF KeysAlone, At, redis, TokenKinds
  <2>5. QED BY <2>3, <2>4
<1>2. CASE SecondFactor(h)
  <2>1. pc[h] = "second" /\ Kind(h) \in {"login", "sso"} BY <1>0, <1>2 DEF SecondFactor, At, Placed
  <2>2. \/ Go(h, "refused") /\ UNCHANGED redis
        \/ setups' = setups \cup {h} /\ Go(h, "setup") /\ UNCHANGED <<sessions, pending>>
        \/ pending' = pending \cup {h} /\ Go(h, "totp") /\ UNCHANGED <<sessions, setups>>
    BY <1>2 DEF SecondFactor
  <2>3. UNCHANGED ended BY <1>2 DEF SecondFactor
  <2>4. CASE Go(h, "refused") /\ UNCHANGED redis
    <3>1. Moved(h, "refused", Kind(h), Token(h)) BY <1>0, <2>1, <2>4, GoMoved DEF Steps, Answers
    <3>2. KeysAlone(h, "refused", Kind(h), Token(h))
      BY <2>1, <2>3, <2>4 DEF KeysAlone, redis, TokenKinds
    <3>3. QED BY <3>1, <3>2
  <2>5. CASE setups' = setups \cup {h} /\ Go(h, "setup") /\ UNCHANGED <<sessions, pending>>
    <3>1. Moved(h, "setup", Kind(h), Token(h)) BY <1>0, <2>1, <2>5, GoMoved DEF Steps, Answers
    <3>2. KeyGiven(h, "setup", Kind(h), Token(h)) BY <2>1, <2>3, <2>5 DEF KeyGiven
    <3>3. QED BY <3>1, <3>2
  <2>6. CASE pending' = pending \cup {h} /\ Go(h, "totp") /\ UNCHANGED <<sessions, setups>>
    <3>1. Moved(h, "totp", Kind(h), Token(h)) BY <1>0, <2>1, <2>6, GoMoved DEF Steps, Answers
    <3>2. KeyGiven(h, "totp", Kind(h), Token(h)) BY <2>1, <2>3, <2>6 DEF KeyGiven
    <3>3. QED BY <3>1, <3>2
  <2>7. QED BY <2>2, <2>4, <2>5, <2>6
<1>3. CASE ConsumeToken(h)
  <2>1. PICK o \in Asks("mfa", Held("totp"), {None}, Codes)
                  \cup Asks("setup", Held("setup"), {None}, Codes) :
           /\ At(h, "idle")
           /\ \/ Move(h, "load", o, snap[h]) /\ o.token \in pending \cup setups
              \/ Move(h, "refused", o, snap[h])
           /\ pending' = pending \ {o.token} /\ setups' = setups \ {o.token}
           /\ UNCHANGED <<sessions, ended>>
    BY <1>3 DEF ConsumeToken
  <2>2. o \in Ask /\ o.kind \in {"mfa", "setup"} BY <1>0, <2>1, TokenAsks
  <2>3. \E l \in {"load", "refused"} :
            Moved(h, l, o.kind, o.token) /\ (l = "load" => o.token \in pending \cup setups)
    BY <1>0, <2>1, <2>2, MoveMoved DEF At, Steps, Answers
  <2>4. PICK l \in {"load", "refused"} :
            Moved(h, l, o.kind, o.token) /\ (l = "load" => o.token \in pending \cup setups)
    BY <2>3
  <2>5. KeySpent(h, l, o.kind, o.token) BY <2>1, <2>2, <2>4 DEF KeySpent, At, TokenKinds
  <2>6. QED BY <2>4, <2>5
<1>4. CASE LoadUser(h)
  <2>1. PICK l \in {"refused", "code"} : Moved(h, l, Kind(h), Token(h))
    BY <1>0, <1>4, MoveMoved DEF LoadUser, At, Steps, Answers, Kind, Token
  <2>2. KeysAlone(h, l, Kind(h), Token(h)) BY <1>4, <2>1 DEF LoadUser, KeysAlone, At, redis
  <2>3. QED BY <2>1, <2>2
<1>5. CASE Locked(h)
  <2>1. PICK l \in {"refused"} : Moved(h, l, Kind(h), Token(h))
    BY <1>0, <1>5, GoMoved DEF Locked, At, Steps, Answers
  <2>2. KeysAlone(h, l, Kind(h), Token(h)) BY <1>5, <2>1 DEF Locked, KeysAlone, At, redis
  <2>3. QED BY <2>1, <2>2
<1>6. CASE VerifyCode(h)
  <2>1. pc[h] = "code" BY <1>6 DEF VerifyCode, At
  <2>2. \E l \in {"mark", "again", "refused"} : Go(h, l) BY <1>6 DEF VerifyCode, WrongCode
  <2>3. PICK l \in {"mark", "again", "refused"} : Moved(h, l, Kind(h), Token(h))
    BY <1>0, <2>1, <2>2, GoMoved DEF Steps, Answers
  <2>4. KeysAlone(h, l, Kind(h), Token(h)) BY <1>6, <2>1, <2>3 DEF VerifyCode, KeysAlone, redis
  <2>5. QED BY <2>3, <2>4
<1>7. CASE Again(h)
  <2>1. pc[h] = "again" /\ Kind(h) \in {"mfa", "setup"} BY <1>0, <1>7 DEF Again, At, Placed
  <2>2. CASE Kind(h) = "mfa"
    <3>1. Moved(h, "totp", Kind(h), Token(h)) BY <1>0, <1>7, <2>1, <2>2, GoMoved DEF Again, Steps, Answers
    <3>2. KeyGiven(h, "totp", Kind(h), Token(h)) BY <1>7, <2>1, <2>2 DEF Again, KeyGiven
    <3>3. QED BY <3>1, <3>2
  <2>3. CASE Kind(h) # "mfa"
    <3>1. Moved(h, "setup", Kind(h), Token(h)) BY <1>0, <1>7, <2>1, <2>3, GoMoved DEF Again, Steps, Answers
    <3>2. KeyGiven(h, "setup", Kind(h), Token(h)) BY <1>7, <2>1, <2>3 DEF Again, KeyGiven
    <3>3. QED BY <3>1, <3>2
  <2>4. QED BY <2>2, <2>3
<1>8. CASE Enrol(h)
  <2>1. PICK l \in {"start"} : Moved(h, l, Kind(h), Token(h))
    BY <1>0, <1>8, GoMoved DEF Enrol, At, Steps, Answers
  <2>2. KeysAlone(h, l, Kind(h), Token(h)) BY <1>8, <2>1 DEF Enrol, KeysAlone, At, redis
  <2>3. QED BY <2>1, <2>2
<1>9. CASE StartSession(h)
  <2>1. pc[h] = "start" /\ Kind(h) \in {"mfa", "setup"} BY <1>0, <1>9 DEF StartSession, At, Placed
  <2>2. CASE snap[h].active
    <3>1. Moved(h, "session", Kind(h), Token(h))
      BY <1>0, <1>9, <2>1, <2>2, GoMoved DEF StartSession, Steps, Answers
    <3>2. SessionGiven(h, "session", Kind(h), Token(h))
      BY <1>9, <2>1, <2>2 DEF StartSession, SessionGiven, TokenKinds
    <3>3. QED BY <3>1, <3>2
  <2>3. CASE ~snap[h].active
    <3>1. Moved(h, "refused", Kind(h), Token(h))
      BY <1>0, <1>9, <2>1, <2>3, GoMoved DEF StartSession, Steps, Answers
    <3>2. KeysAlone(h, "refused", Kind(h), Token(h)) BY <1>9, <2>1, <2>3 DEF StartSession, KeysAlone
    <3>3. QED BY <3>1, <3>2
  <2>4. QED BY <2>2, <2>3
<1>10. CASE ValidateSession(h)
  <2>1. PICK o \in Asks("refresh", Held("session"), {None}, {None})
                  \cup Asks("password", Held("session"), {acct.password}, Codes) :
           /\ At(h, "idle")
           /\ Move(h, "signed_in", o, snap[h]) \/ Move(h, "refused", o, snap[h])
           /\ UNCHANGED <<redis, ended>>
    BY <1>10 DEF ValidateSession
  <2>2. o \in Ask /\ o.kind \in {"refresh", "password", "logout"} BY <1>0, <2>1, SessionAsks
  <2>3. PICK l \in {"signed_in", "refused"} : Moved(h, l, o.kind, o.token)
    BY <1>0, <2>1, <2>2, MoveMoved DEF At, Steps, Answers
  <2>4. KeysAlone(h, l, o.kind, o.token) BY <2>1, <2>2, <2>3 DEF KeysAlone, At, redis, TokenKinds
  <2>5. QED BY <2>3, <2>4
<1>11. CASE SignedIn(h)
  <2>1. PICK l \in {"store", "code", "refused"} : Moved(h, l, Kind(h), Token(h))
    BY <1>0, <1>11, MoveMoved DEF SignedIn, At, Steps, Answers, Kind, Token
  <2>2. KeysAlone(h, l, Kind(h), Token(h)) BY <1>11, <2>1 DEF SignedIn, KeysAlone, At, redis
  <2>3. QED BY <2>1, <2>2
<1>12. CASE StoreNew(h)
  <2>1. pc[h] = "store" /\ Kind(h) = "refresh" BY <1>0, <1>12 DEF StoreNew, At, Placed
  <2>2. Moved(h, "retire", Kind(h), Token(h)) BY <1>0, <1>12, <2>1, GoMoved DEF StoreNew, Steps, Answers
  <2>3. SessionGiven(h, "retire", Kind(h), Token(h)) BY <1>12, <2>1 DEF StoreNew, SessionGiven
  <2>4. QED BY <2>2, <2>3
<1>13. CASE RetireOld(h)
  <2>1. pc[h] = "retire" /\ Kind(h) = "refresh" BY <1>0, <1>13 DEF RetireOld, At, Placed
  <2> DEFINE l == IF Token(h) \in sessions THEN "session" ELSE "undo"
  <2>2. Moved(h, l, Kind(h), Token(h)) BY <1>0, <1>13, <2>1, GoMoved DEF RetireOld, Steps, Answers
  <2>3. SessionReplaced(h, l, Kind(h), Token(h)) BY <1>13, <2>1 DEF RetireOld, SessionReplaced
  <2>4. QED BY <2>2, <2>3
<1>14. CASE UndoRefresh(h)
  <2>1. pc[h] = "undo" /\ Kind(h) = "refresh" BY <1>0, <1>14 DEF UndoRefresh, At, Placed
  <2>2. Moved(h, "refused", Kind(h), Token(h)) BY <1>0, <1>14, <2>1, GoMoved DEF UndoRefresh, Steps, Answers
  <2>3. SessionUndone(h, "refused", Kind(h), Token(h)) BY <1>14, <2>1 DEF UndoRefresh, SessionUndone
  <2>4. QED BY <2>2, <2>3
<1>15. CASE Logout(h)
  <2>1. PICK o \in Asks("logout", Held("session"), {None}, {None}) :
           /\ At(h, "idle")
           /\ sessions' = sessions \ {o.token}
           /\ ended' = ended \cup ({o.token} \cap sessions)
           /\ Move(h, "done", o, snap[h])
           /\ UNCHANGED <<pending, setups>>
    BY <1>15 DEF Logout
  <2>2. o \in Ask /\ o.kind = "logout" BY <1>0, <2>1, SessionAsks DEF Asks
  <2>3. Moved(h, "done", o.kind, o.token) BY <1>0, <2>1, <2>2, MoveMoved DEF At, Steps, Answers
  <2>4. KeysEnded(h, "done", o.kind, o.token) BY <2>1, <2>2 DEF KeysEnded, At, TokenKinds
  <2>5. QED BY <2>3, <2>4
<1>16. CASE LoadTarget(h)
  <2>1. PICK o \in UNION {Asks(k, {None}, {None}, {None}) : k \in {"reset", "deactivate", "reactivate"}} :
           At(h, "idle") /\ Move(h, "commit", o, acct) /\ UNCHANGED <<redis, ended>>
    BY <1>16 DEF LoadTarget
  <2>2. o \in Ask /\ o.kind \in {"reset", "deactivate", "reactivate"} BY <2>1, TargetAsks
  <2>3. Moved(h, "commit", o.kind, o.token) BY <1>0, <2>1, <2>2, MoveMoved DEF At, Steps, Answers
  <2>4. KeysAlone(h, "commit", o.kind, o.token) BY <2>1, <2>2 DEF KeysAlone, At, redis, TokenKinds
  <2>5. QED BY <2>3, <2>4
<1>17. CASE ChangePassword(h)
  <2>1. PICK l \in {"sweep"} : Moved(h, l, Kind(h), Token(h))
    BY <1>0, <1>17, GoMoved DEF ChangePassword, At, Steps, Answers
  <2>2. KeysAlone(h, l, Kind(h), Token(h)) BY <1>17, <2>1 DEF ChangePassword, KeysAlone, At, redis
  <2>3. QED BY <2>1, <2>2
<1>18. CASE ResetAuthenticator(h)
  <2>1. PICK l \in {"sweep"} : Moved(h, l, Kind(h), Token(h))
    BY <1>0, <1>18, GoMoved DEF ResetAuthenticator, At, Steps, Answers
  <2>2. KeysAlone(h, l, Kind(h), Token(h)) BY <1>18, <2>1 DEF ResetAuthenticator, KeysAlone, At, redis
  <2>3. QED BY <2>1, <2>2
<1>19. CASE Deactivate(h)
  <2>1. PICK l \in {"sweep"} : Moved(h, l, Kind(h), Token(h))
    BY <1>0, <1>19, GoMoved DEF Deactivate, At, Steps, Answers
  <2>2. KeysAlone(h, l, Kind(h), Token(h)) BY <1>19, <2>1 DEF Deactivate, KeysAlone, At, redis
  <2>3. QED BY <2>1, <2>2
<1>20. CASE Reactivate(h)
  <2>1. PICK l \in {"done"} : Moved(h, l, Kind(h), Token(h))
    BY <1>0, <1>20, GoMoved DEF Reactivate, At, Steps, Answers
  <2>2. KeysAlone(h, l, Kind(h), Token(h)) BY <1>20, <2>1 DEF Reactivate, KeysAlone, At, redis
  <2>3. QED BY <2>1, <2>2
<1>21. CASE Sweep(h)
  <2>1. /\ pc[h] = "sweep"
        /\ Kind(h) \in {"password", "reset", "deactivate", "reactivate"}
    BY <1>0, <1>21 DEF Sweep, At, Placed
  <2>2. Moved(h, "done", Kind(h), Token(h)) BY <1>0, <1>21, <2>1, GoMoved DEF Sweep, Steps, Answers
  <2>3. KeysEnded(h, "done", Kind(h), Token(h)) BY <1>21, <2>1 DEF Sweep, KeysEnded, TokenKinds
  <2>4. QED BY <2>2, <2>3
<1>22. CASE SweepFails(h)
  <2>1. PICK l \in {"unswept"} : Moved(h, l, Kind(h), Token(h))
    BY <1>0, <1>22, GoMoved DEF SweepFails, At, Steps, Answers
  <2>2. KeysAlone(h, l, Kind(h), Token(h)) BY <1>22, <2>1 DEF SweepFails, KeysAlone, At, redis
  <2>3. QED BY <2>1, <2>2
<1>23. CASE MarkCode(h)
  <2>1. pc[h] = "mark" BY <1>23 DEF MarkCode, At
  <2>2. \E l \in {"start", "enrol", "commit", "again", "refused"} : Go(h, l)
    BY <1>23 DEF MarkCode, WrongCode
  <2>3. PICK l \in {"start", "enrol", "commit", "again", "refused"} : Moved(h, l, Kind(h), Token(h))
    BY <1>0, <2>1, <2>2, GoMoved DEF Steps, Answers
  <2>4. KeysAlone(h, l, Kind(h), Token(h)) BY <1>23, <2>1, <2>3 DEF MarkCode, KeysAlone, redis
  <2>5. QED BY <2>3, <2>4
<1>24. QED BY <1>1, <1>2, <1>3, <1>4, <1>5, <1>6, <1>7, <1>8, <1>9, <1>10, <1>11, <1>12, <1>13, <1>14, <1>15, <1>16, <1>17, <1>18, <1>19, <1>20, <1>21, <1>22, <1>23 DEF Handler

LEMMA KeyKept ==
    ASSUME TypeInv, KeyInv, NEW h \in Requests, NEW l, NEW k, NEW t, KeyStep(h, l, k, t)
    PROVE  KeyInv'
<1>0. /\ pc[h] \in {"idle"} \cup Steps
      /\ \A g \in Requests \ {h} : pc'[g] = pc[g] /\ Kind(g)' = Kind(g) /\ Token(g)' = Token(g)
      /\ pc'[h] = l /\ Kind(h)' = k /\ Token(h)' = t
  BY DEF KeyStep, Moved, Kind, Token
\* The token of a login or of a refresh is not this request's own key.
<1>1. \A g \in Requests : Kind(g) \in Keyed => Token(g) # h
  BY <1>0, ConstantsAssumption DEF TypeInv, Placed, Keyed, Steps
<1>2. CASE KeysAlone(h, l, k, t)
  <2>1. KeyPlaced' BY <1>0, <1>2 DEF KeysAlone, KeyInv, KeyPlaced, Steps
  <2>2. Replaced' BY <1>0, <1>2 DEF KeysAlone, KeyInv, Replaced
  <2>3. Spent' BY <1>0, <1>2 DEF KeysAlone, KeyInv, Spent, Steps
  <2>4. QED BY <2>1, <2>2, <2>3 DEF KeyInv
<1>3. CASE KeyGiven(h, l, k, t)
  <2>1. KeyPlaced' BY <1>0, <1>3 DEF KeyGiven, KeyInv, KeyPlaced, Steps
  <2>2. Replaced' BY <1>0, <1>3 DEF KeyGiven, KeyInv, Replaced
  <2>3. pending' \subseteq pending \cup {h} /\ setups' \subseteq setups \cup {h} BY <1>3 DEF KeyGiven
  <2>4. Spent' BY <1>0, <1>1, <1>3, <2>3 DEF KeyGiven, KeyInv, Spent, Keyed, TokenKinds
  <2>5. QED BY <2>1, <2>2, <2>4 DEF KeyInv
<1>4. CASE KeySpent(h, l, k, t)
  <2>1. KeyPlaced' BY <1>0, <1>4 DEF KeySpent, KeyInv, KeyPlaced
  <2>2. Replaced' BY <1>0, <1>4 DEF KeySpent, KeyInv, Replaced, TokenKinds
  <2>3. Spent' BY <1>0, <1>4 DEF KeySpent, KeyInv, Spent
  <2>4. QED BY <2>1, <2>2, <2>3 DEF KeyInv
<1>5. CASE SessionGiven(h, l, k, t)
  <2>1. h \notin ended BY <1>5 DEF SessionGiven, KeyInv, KeyPlaced
  <2>2. KeyPlaced' BY <1>0, <1>5, <2>1 DEF SessionGiven, KeyInv, KeyPlaced
  <2>3. Replaced' BY <1>0, <1>1, <1>5 DEF SessionGiven, KeyInv, Replaced, Keyed, TokenKinds
  <2>4. Spent' BY <1>0, <1>5 DEF SessionGiven, KeyInv, Spent, TokenKinds
  <2>5. QED BY <2>2, <2>3, <2>4 DEF KeyInv
<1>6. CASE SessionReplaced(h, l, k, t)
  <2>1. KeyPlaced' BY <1>0, <1>6 DEF SessionReplaced, KeyInv, KeyPlaced
  <2>2. Replaced' BY <1>0, <1>6 DEF SessionReplaced, KeyInv, KeyPlaced, Replaced
  <2>3. Spent' BY <1>0, <1>6 DEF SessionReplaced, KeyInv, Spent, TokenKinds
  <2>4. QED BY <2>1, <2>2, <2>3 DEF KeyInv
<1>7. CASE SessionUndone(h, l, k, t)
  <2>1. KeyPlaced' BY <1>0, <1>7 DEF SessionUndone, KeyInv, KeyPlaced
  <2>2. Replaced' BY <1>0, <1>7 DEF SessionUndone, KeyInv, Replaced
  <2>3. Spent' BY <1>0, <1>7 DEF SessionUndone, KeyInv, Spent, TokenKinds
  <2>4. QED BY <2>1, <2>2, <2>3 DEF KeyInv
<1>8. CASE KeysEnded(h, l, k, t)
  <2>1. KeyPlaced' BY <1>0, <1>8 DEF KeysEnded, KeyInv, KeyPlaced
  <2>2. Replaced' BY <1>0, <1>8 DEF KeysEnded, KeyInv, Replaced
  <2>3. Spent' BY <1>0, <1>8 DEF KeysEnded, KeyInv, Spent
  <2>4. QED BY <2>1, <2>2, <2>3 DEF KeyInv
<1>9. QED BY <1>2, <1>3, <1>4, <1>5, <1>6, <1>7, <1>8 DEF KeyStep

LEMMA KeyInit == Init => KeyInv
BY ConstantsAssumption DEF Init, KeyInv, KeyPlaced, Replaced, Spent, Kind, NoAsk, TokenKinds

LEMMA KeyNext == TypeInv /\ KeyInv /\ [Next]_vars => KeyInv'
<1> SUFFICES ASSUME TypeInv, KeyInv, [Next]_vars PROVE KeyInv' OBVIOUS
<1>1. ASSUME NEW h \in Requests, Handler(h) PROVE KeyInv' BY <1>1, HandlerKeys, KeyKept
<1>2. ASSUME NEW k \in Names, Expire(k) PROVE KeyInv'
  BY <1>2 DEF KeyInv, KeyPlaced, Replaced, Spent, Kind, Token, Expire
<1>3. CASE Tick \/ \E u \in used : MarkExpires(u)
  BY <1>3 DEF KeyInv, KeyPlaced, Replaced, Spent, Kind, Token, Tick, MarkExpires, redis
<1>4. CASE UNCHANGED vars BY <1>4 DEF KeyInv, KeyPlaced, Replaced, Spent, Kind, Token, vars, redis
<1>5. QED BY <1>1, <1>2, <1>3, <1>4 DEF Next

\* A session that was ended, by a logout, a sweep or its expiry, has no successor:
\* session_refresh stores the new key before it deletes the old one, and takes the
\* new one back when the old one is gone already.
THEOREM EndedCorrect == Spec => []EndedForGood
<1>1. TypeInv /\ KeyInv => EndedForGood
  BY DEF TypeInv, TypeOK, Names, KeyInv, Replaced, EndedForGood, At
<1>2. QED BY <1>1, TypeInit, TypeStep, KeyInit, KeyNext, PTL DEF Spec

\* One login, one session: GETDEL gives a token to one request, and a session is
\* replaced by the one refresh whose delete found it.
THEOREM SuccessorCorrect == Spec => []OneSuccessor
<1>1. TypeInv /\ KeyInv => OneSuccessor
  <2> SUFFICES ASSUME TypeInv, KeyInv, NEW g \in sessions \ {First}, NEW h \in sessions \ {First},
                      g # h, At(g, "session"), At(h, "session"), Kind(g) \in Keyed, Kind(h) \in Keyed
               PROVE  Token(g) # Token(h)
    BY DEF OneSuccessor, Keyed
  <2>1. g \in Requests /\ h \in Requests BY DEF TypeInv, TypeOK, Names
  <2>2. Placed(g) /\ Placed(h) BY <2>1 DEF TypeInv
  <2>3. CASE Kind(g) = "refresh" /\ Kind(h) = "refresh" BY <2>1, <2>3 DEF KeyInv, Replaced, At
  <2>4. CASE Kind(g) # "refresh" /\ Kind(h) # "refresh"
    BY <2>1, <2>4 DEF KeyInv, Spent, At, Keyed, TokenKinds
  <2>5. CASE (Kind(g) = "refresh") # (Kind(h) = "refresh")
    BY <2>2, <2>5, ConstantsAssumption DEF Placed, Keyed
  <2>6. QED BY <2>3, <2>4, <2>5
<1>2. QED BY <1>1, TypeInit, TypeStep, KeyInit, KeyNext, PTL DEF Spec

----------------------------------------------------------------------------
(* The requests implement the sign-in *)

\* What the abstract sign-in sees of the requests.
Offered == {g \in Requests : pc[g] \in {"totp", "setup"}}
Known   == Held("session")
Standing == sessions \cap Known

LEMMA SignInVars ==
    ASSUME UNCHANGED <<Offered, Entering, Known>>, pending' \cup setups' = pending \cup setups,
           Standing' = Standing
    PROVE  UNCHANGED SignIn!vars
BY DEF SignIn!vars, Offered, Known, Standing

\* A step moves one request; the others are seen where they were.
LEMMA SeenMoved ==
    ASSUME NEW h \in Requests, NEW l, NEW k, NEW t, Moved(h, l, k, t)
    PROVE  /\ \A g \in Requests \ {h} : (g \in Entering') = (g \in Entering)
           /\ h \in Entering' <=> k \in TokenKinds /\ l \in {"load", "code", "mark", "again", "enrol", "start"}
           /\ h \notin Offered /\ h \notin Known \ {First}
           /\ Offered' = IF l \in {"totp", "setup"} THEN Offered \cup {h} ELSE Offered
           /\ Known' = IF l = "session" THEN Known \cup {h} ELSE Known
<1>1. /\ pc[h] \in {"idle"} \cup Steps
      /\ \A g \in Requests \ {h} : pc'[g] = pc[g] /\ Kind(g)' = Kind(g)
      /\ pc'[h] = l /\ Kind(h)' = k
  BY DEF Moved, Kind
<1>2. \A g \in Requests \ {h} : (g \in Entering') = (g \in Entering) BY <1>1 DEF Entering
<1>3. h \in Entering' <=> k \in TokenKinds /\ l \in {"load", "code", "mark", "again", "enrol", "start"}
  BY <1>1 DEF Entering, TokenKinds
<1>4. h \notin Offered /\ h \notin Known \ {First}
  BY <1>1, ConstantsAssumption DEF Offered, Known, Held, At, Steps
<1>5. Offered' = IF l \in {"totp", "setup"} THEN Offered \cup {h} ELSE Offered
  BY <1>1 DEF Offered, Steps
<1>6. Known' = IF l = "session" THEN Known \cup {h} ELSE Known
  BY <1>1 DEF Known, Held, At, Steps
<1>7. QED BY <1>2, <1>3, <1>4, <1>5, <1>6

LEMMA EntersStay ==
    ASSUME NEW h \in Requests, \A g \in Requests \ {h} : (g \in Entering') = (g \in Entering)
    PROVE  /\ h \in Entering' /\ h \in Entering => Entering' = Entering
           /\ h \notin Entering' => Entering' = Entering \ {h}
           /\ h \in Entering' => Entering' = Entering \cup {h}
BY DEF Entering

LEMMA HandlerSignIn ==
    ASSUME TypeInv, TypeInv', KeyInv, NEW h \in Requests, Handler(h)
    PROVE  [SignIn!Next]_(SignIn!vars)
<1>1. PICK l, k, t : KeyStep(h, l, k, t) BY HandlerKeys
<1>2. Moved(h, l, k, t) BY <1>1 DEF KeyStep
<1> DEFINE Moving == {"load", "code", "mark", "again", "enrol", "start"}
           Tokens == pending \cup setups
<1>3. /\ \A g \in Requests \ {h} : (g \in Entering') = (g \in Entering)
      /\ h \in Entering' <=> k \in TokenKinds /\ l \in Moving
      /\ h \notin Offered /\ h \notin Known
      /\ Offered' = IF l \in {"totp", "setup"} THEN Offered \cup {h} ELSE Offered
      /\ Known' = IF l = "session" THEN Known \cup {h} ELSE Known
  BY <1>2, SeenMoved, ConstantsAssumption
<1>4. h \in Entering <=> Kind(h) \in TokenKinds /\ pc[h] \in Moving BY DEF Entering, TokenKinds
<1>5. /\ h \in Entering' /\ h \in Entering => Entering' = Entering
      /\ h \notin Entering' => Entering' = Entering \ {h}
      /\ h \in Entering' => Entering' = Entering \cup {h}
  BY <1>3, EntersStay
<1>6. h \in Names /\ Placed(h) BY DEF Names, TypeInv
\* First and the requests named by a key.
<1>7. Tokens \subseteq Names /\ Standing \subseteq Names /\ sessions \subseteq Names
  BY DEF TypeInv, TypeOK, Names, Standing
<1>8. CASE KeysAlone(h, l, k, t)
  <2>1. /\ Offered' = Offered /\ Known' = Known /\ Tokens' = Tokens /\ sessions' = sessions
        /\ Standing' = Standing
    BY <1>3, <1>8 DEF KeysAlone, Standing
  <2>2. h \in Entering' => h \in Entering
    BY <1>2, <1>3, <1>4, <1>6, <1>8 DEF KeysAlone, Moved, Placed, TokenKinds, Steps
  <2>3. CASE Entering' = Entering BY <2>1, <2>3, SignInVars
  <2>4. CASE Entering' # Entering
    <3>1. h \in Entering /\ Entering' = Entering \ {h} BY <1>5, <2>2, <2>4
    <3>2. SignIn!Refuse(h) BY <2>1, <3>1 DEF SignIn!Refuse, Offered, Known, Standing
    <3>3. QED BY <1>6, <3>2 DEF SignIn!Next
  <2>5. QED BY <2>3, <2>4
<1>9. CASE KeyGiven(h, l, k, t)
  <2>1. /\ Offered' = Offered \cup {h} /\ Known' = Known /\ Tokens' = Tokens \cup {h}
        /\ sessions' = sessions /\ Standing' = Standing
    BY <1>3, <1>9 DEF KeyGiven, Standing
  <2>2. Entering' = Entering \ {h} BY <1>3, <1>5, <1>9 DEF KeyGiven
  <2>3. SignIn!Offer(h) BY <1>3, <2>1, <2>2 DEF SignIn!Offer, Offered, Known, Standing
  <2>4. QED BY <1>6, <2>3 DEF SignIn!Next
<1>10. CASE KeySpent(h, l, k, t)
  <2>1. /\ Offered' = Offered /\ Known' = Known /\ Tokens' = Tokens \ {t}
        /\ sessions' = sessions /\ Standing' = Standing
    BY <1>3, <1>10 DEF KeySpent, Standing
  <2>2. h \notin Entering BY <1>4, <1>10 DEF KeySpent
  <2>3. CASE l = "load"
    <3>1. Entering' = Entering \cup {h} BY <1>3, <1>5, <1>10, <2>3 DEF KeySpent
    <3>2. t \in Tokens BY <1>10, <2>3 DEF KeySpent
    <3>3. SignIn!Enter(h, t)
      BY <1>3, <2>1, <2>2, <3>1, <3>2 DEF SignIn!Enter, Offered, Known, Standing
    <3>4. QED BY <1>6, <1>7, <3>2, <3>3 DEF SignIn!Next
  <2>4. CASE l = "refused"
    <3>1. Entering' = Entering BY <1>3, <1>5, <2>2, <2>4
    <3>2. Tokens' = Tokens \ (Tokens \cap {t}) /\ Standing' = Standing \ (Tokens \cap {t})
      BY <2>1 DEF KeyInv, KeyPlaced, Standing, Known, Held, At, TypeInv, TypeOK
    <3>3. SignIn!End(Tokens \cap {t})
      BY <2>1, <3>1, <3>2 DEF SignIn!End, Offered, Known, Standing
    <3>4. QED BY <1>7, <3>3 DEF SignIn!Next
  <2>5. QED BY <1>10, <2>3, <2>4 DEF KeySpent
<1>11. CASE SessionGiven(h, l, k, t)
  <2>1. Tokens' = Tokens /\ Offered' = Offered /\ sessions' = sessions \cup {h}
    BY <1>3, <1>11 DEF SessionGiven
  <2>2. CASE pc[h] = "start" /\ l = "session" /\ k \in TokenKinds
    <3>1. h \in Entering /\ Entering' = Entering \ {h}
      BY <1>3, <1>4, <1>5, <1>11, <2>2 DEF SessionGiven
    <3>2. Known' = Known \cup {h} /\ Standing' = Standing \cup {h}
      BY <1>3, <2>1, <2>2 DEF Standing
    <3>3. SignIn!Admit(h) BY <1>3, <2>1, <3>1, <3>2 DEF SignIn!Admit, Offered, Known, Standing
    <3>4. QED BY <1>6, <3>3 DEF SignIn!Next
  <2>3. CASE pc[h] = "store" /\ l = "retire" /\ k = "refresh"
    <3>1. Known' = Known /\ Standing' = Standing BY <1>3, <2>1, <2>3 DEF Standing
    <3>2. Entering' = Entering BY <1>3, <1>4, <1>5, <2>3
    <3>3. QED BY <2>1, <3>1, <3>2, SignInVars
  <2>4. QED BY <1>11, <2>2, <2>3 DEF SessionGiven
<1>12. CASE SessionReplaced(h, l, k, t)
  <2>1. /\ Tokens' = Tokens /\ Offered' = Offered /\ sessions' = sessions \ {t}
        /\ l \in {"session", "undo"}
    BY <1>3, <1>12 DEF SessionReplaced
  <2>2. Entering' = Entering BY <1>3, <1>4, <1>5, <1>12, <2>1 DEF SessionReplaced
  <2>3. CASE l = "session"
    <3>1. t \in Known BY <1>6, <1>12 DEF SessionReplaced, Placed, Known, Held, At
    <3>2. t \in Standing BY <1>12, <2>3, <3>1 DEF SessionReplaced, Standing
    <3>3. Known' = Known \cup {h} BY <1>3, <2>3
    <3>4. Standing' \in {Standing \ {t}, (Standing \ {t}) \cup {h}}
      <4>1. CASE h \in sessions BY <1>3, <2>1, <3>1, <3>3, <4>1 DEF Standing
      <4>2. CASE h \notin sessions BY <2>1, <3>3, <4>2 DEF Standing
      <4>3. QED BY <4>1, <4>2
    <3>5. SignIn!Renew(h, t)
      BY <1>3, <2>1, <2>2, <3>2, <3>3, <3>4 DEF SignIn!Renew, Offered, Known, Standing
    <3>6. QED BY <1>6, <1>7, <3>2, <3>5 DEF SignIn!Next
  <2>4. CASE l = "undo"
    <3>1. sessions' = sessions /\ Known' = Known BY <1>3, <1>12, <2>1, <2>4 DEF SessionReplaced
    <3>2. QED BY <2>1, <2>2, <3>1, SignInVars DEF Standing
  <2>5. QED BY <2>1, <2>3, <2>4
<1>13. CASE SessionUndone(h, l, k, t)
  <2>1. /\ Tokens' = Tokens /\ Offered' = Offered /\ sessions' = sessions \ {h} /\ Known' = Known
    BY <1>3, <1>13 DEF SessionUndone
  <2>2. Entering' = Entering BY <1>3, <1>4, <1>5, <1>13 DEF SessionUndone
  <2>3. Standing' = Standing BY <1>3, <2>1 DEF Standing
  <2>4. QED BY <2>1, <2>2, <2>3, SignInVars
<1>14. CASE KeysEnded(h, l, k, t)
  <2>1. /\ Offered' = Offered /\ Known' = Known
        /\ Tokens' \subseteq Tokens /\ sessions' \subseteq sessions /\ Standing' \subseteq Standing
    BY <1>3, <1>14 DEF KeysEnded, Standing
  <2>2. Entering' = Entering BY <1>3, <1>4, <1>5, <1>14 DEF KeysEnded
  <2>3. Tokens \cap Standing = {}
    BY ConstantsAssumption DEF KeyInv, KeyPlaced, Standing, Known, Held, At, TypeInv, TypeOK
  <2> DEFINE K == (Tokens \ Tokens') \cup (Standing \ Standing')
  <2>4. Tokens' = Tokens \ K /\ Standing' = Standing \ K BY <2>1, <2>3
  <2>5. SignIn!End(K) BY <2>1, <2>2, <2>4 DEF SignIn!End, Offered, Known, Standing
  <2>6. K \in SUBSET Names BY <1>7
  <2>7. QED BY <2>5, <2>6 DEF SignIn!Next
<1>15. QED BY <1>1, <1>8, <1>9, <1>10, <1>11, <1>12, <1>13, <1>14 DEF KeyStep

LEMMA SignInStep ==
    ASSUME TypeInv, TypeInv', KeyInv, [Next]_vars
    PROVE  [SignIn!Next]_(SignIn!vars)
<1>1. ASSUME NEW h \in Requests, Handler(h) PROVE [SignIn!Next]_(SignIn!vars)
  BY <1>1, HandlerSignIn
<1>2. ASSUME NEW k \in Names, Expire(k) PROVE [SignIn!Next]_(SignIn!vars)
  <2>1. /\ pending' \cup setups' = (pending \cup setups) \ {k} /\ sessions' = sessions \ {k}
        /\ Offered' = Offered /\ Known' = Known /\ Entering' = Entering
    BY <1>2 DEF Expire, Offered, Known, Held, At, Entering, Kind
  <2>2. Standing' = Standing \ {k} BY <2>1 DEF Standing
  <2>3. SignIn!End({k}) BY <2>1, <2>2 DEF SignIn!End, Offered, Known, Standing
  <2>4. QED BY <1>2, <2>3 DEF SignIn!Next
<1>3. CASE Tick \/ (\E u \in used : MarkExpires(u)) \/ UNCHANGED vars
  <2>1. UNCHANGED <<Offered, Entering, Known, pending, setups, sessions>>
    BY <1>3 DEF Tick, MarkExpires, vars, redis, Offered, Known, Held, At, Entering, Kind
  <2>2. QED BY <2>1, SignInVars DEF Standing
<1>4. QED BY <1>1, <1>2, <1>3 DEF Next

LEMMA SignInInit == Init => SignIn!Init
<1> SUFFICES ASSUME Init PROVE SignIn!Init OBVIOUS
<1>1. Held("session") = {First} /\ sessions = {First} BY DEF Init, Held, At
<1>2. Entering = {} /\ \A h \in Requests : pc[h] \notin {"totp", "setup"} BY DEF Init, Entering
<1>3. First \in Names BY DEF Names
<1>4. QED BY <1>1, <1>2, <1>3 DEF Init, SignIn!Init

\* _second_factor, login_mfa_post, mfa_setup_post, session_refresh, the log-out and
\* revoke_user_sessions act as one sign-in, whatever falls between their commands: a
\* token lets one login in, a login or a session has one successor, and neither a
\* token nor a session comes back.
THEOREM SignInCorrect == Spec => ImplementsSignIn
<1>1. TypeInv /\ TypeInv' /\ KeyInv /\ [Next]_vars => [SignIn!Next]_(SignIn!vars) BY SignInStep
<1>2. QED BY <1>1, SignInInit, TypeInit, TypeStep, KeyInit, KeyNext, PTL
          DEF Spec, ImplementsSignIn, SignIn!Spec

----------------------------------------------------------------------------
(* What a sweep leaves standing *)

\* A sweep still to come, or one that failed, which would not spare the key c.
Waiting(z, c) ==
    /\ pc[z] \in {"sweep", "unswept"}
    /\ ~(Kind(z) = "password" /\ Token(z) = c)

Good(c) == Current(c) \/ \E z \in Requests : Waiting(z, c)

\* A key somebody holds, or a request that may yet be answered with one.
IsKey(c) ==
    \/ c = First /\ c \in sessions
    \/ /\ c \in Requests
       /\ \/ pc[c] = "session" /\ c \in sessions
          \/ pc[c] = "totp" /\ c \in pending
          \/ pc[c] = "setup" /\ c \in setups
          \/ pc[c] \in {"second", "load", "code", "mark", "again", "enrol", "start"} /\ Kind(c) # "password"
          \/ pc[c] = "retire" /\ c \in sessions /\ Token(c) \in sessions

\* The secret a login checks its code with is the account's, or a sweep is to come.
SecretLoaded(h) ==
    pc[h] \in {"code", "mark"} /\ Kind(h) # "password" =>
        \/ snap[h].secret = acct.secret
        \/ \E z \in Requests : pc[z] \in {"sweep", "unswept"}

CurrentInv ==
    /\ \A h \in Requests \ raced : SecretLoaded(h)
    /\ \A c \in Names \ raced : IsKey(c) => Good(c)

\* Nobody but the request itself becomes a key by its step.
LEMMA OtherKeys ==
    ASSUME TypeInv, NEW h \in Requests, Handler(h)
    PROVE  /\ Moved(h, pc'[h], Kind(h)', Token(h)')
           /\ \A c \in Names \ {h} : IsKey(c)' => IsKey(c)
<1>1. PICK l, k, t : KeyStep(h, l, k, t) BY HandlerKeys
<1>2. /\ pc[h] \in {"idle"} \cup Steps
      /\ \A g \in Requests \ {h} : pc'[g] = pc[g] /\ Kind(g)' = Kind(g) /\ Token(g)' = Token(g)
      /\ pc'[h] = l /\ Kind(h)' = k /\ Token(h)' = t
  BY <1>1 DEF KeyStep, Moved, Kind, Token
<1>3. Moved(h, pc'[h], Kind(h)', Token(h)') BY <1>1, <1>2 DEF KeyStep
<1>4. sessions' \subseteq sessions \cup {h} /\ pending' \subseteq pending \cup {h} /\ setups' \subseteq setups \cup {h}
  BY <1>1 DEF KeyStep, KeysAlone, KeyGiven, KeySpent, SessionGiven, SessionReplaced, SessionUndone, KeysEnded
<1>5. \A g \in Requests : pc[g] = "retire" => Token(g) # h
  BY <1>2, ConstantsAssumption DEF TypeInv, Placed, Steps
<1>6. ASSUME NEW c \in Names \ {h}, IsKey(c)' PROVE IsKey(c)
  <2>1. CASE c = First BY <1>4, <1>6, <2>1, ConstantsAssumption DEF IsKey
  <2>2. CASE c \in Requests BY <1>2, <1>4, <1>5, <1>6, <2>2, ConstantsAssumption DEF IsKey
  <2>3. QED BY <2>1, <2>2 DEF Names
<1>7. QED BY <1>3, <1>6

\* A step that neither changes the account's credentials nor ends a sweep.
Calm(h) ==
    /\ acct'.password = acct.password /\ acct'.secret = acct.secret /\ epoch' = epoch
    /\ pc[h] = "sweep" => pc'[h] = "unswept" /\ Kind(h)' = Kind(h) /\ Token(h)' = Token(h)
    /\ \A c \in Names \ {h} : cred'[c] = cred[c]
    /\ raced \subseteq raced'

LEMMA WaitingStays ==
    ASSUME TypeInv, NEW h \in Requests, Moved(h, pc'[h], Kind(h)', Token(h)'), Calm(h),
           NEW z \in Requests, NEW c
    PROVE  /\ pc[z] \in {"sweep", "unswept"} => pc'[z] \in {"sweep", "unswept"}
           /\ Waiting(z, c) => Waiting(z, c)'
<1>1. CASE z = h BY <1>1 DEF Moved, Calm, Waiting, Steps
<1>2. CASE z # h BY <1>2 DEF Moved, Waiting, Kind, Token
<1>3. QED BY <1>1, <1>2

LEMMA GoodStays ==
    ASSUME TypeInv, NEW h \in Requests, Moved(h, pc'[h], Kind(h)', Token(h)'), Calm(h),
           NEW c \in Names, Good(c), cred'[c] = cred[c]
    PROVE  Good(c)'
<1>1. CASE Current(c)
  <2>1. Current(c)' BY <1>1 DEF Current, Calm
  <2>2. QED BY <2>1 DEF Good
<1>2. CASE \E z \in Requests : Waiting(z, c) BY <1>2, WaitingStays DEF Good
<1>3. QED BY <1>1, <1>2 DEF Good

\* After a calm step it is only the request itself that needs an argument.
LEMMA CalmStep ==
    ASSUME TypeInv, CurrentInv, NEW h \in Requests, Handler(h), Calm(h),
           h \notin raced' /\ IsKey(h)' => Good(h)' \/ (IsKey(h) /\ h \notin raced /\ cred'[h] = cred[h]),
           h \notin raced' => SecretLoaded(h)'
    PROVE  CurrentInv'
<1>1. /\ Moved(h, pc'[h], Kind(h)', Token(h)')
      /\ \A c \in Names \ {h} : IsKey(c)' => IsKey(c)
  BY OtherKeys
<1>2. ASSUME NEW c \in Names \ raced', IsKey(c)' PROVE Good(c)'
  <2>1. CASE c = h
    <3>1. CASE Good(h)' BY <2>1, <3>1
    <3>2. CASE IsKey(h) /\ h \notin raced /\ cred'[h] = cred[h]
      <4>1. Good(c) BY <2>1, <3>2 DEF CurrentInv
      <4>2. QED BY <1>1, <2>1, <3>2, <4>1, GoodStays
    <3>3. QED BY <1>2, <2>1, <3>1, <3>2
  <2>2. CASE c # h
    <3>1. IsKey(c) /\ c \notin raced /\ cred'[c] = cred[c] BY <1>1, <1>2, <2>2 DEF Calm
    <3>2. Good(c) BY <3>1 DEF CurrentInv
    <3>3. QED BY <1>1, <3>1, <3>2, GoodStays
  <2>3. QED BY <2>1, <2>2
<1>3. ASSUME NEW g \in Requests \ raced' PROVE SecretLoaded(g)'
  <2>1. CASE g = h BY <1>3, <2>1
  <2>2. CASE g # h
    <3>1. SecretLoaded(g) BY <2>2 DEF CurrentInv, Calm
    <3>2. pc'[g] = pc[g] /\ Kind(g)' = Kind(g) /\ snap'[g] = snap[g] BY <1>1, <2>2 DEF Moved, Kind
    <3>3. \A z \in Requests : pc[z] \in {"sweep", "unswept"} => pc'[z] \in {"sweep", "unswept"}
      BY <1>1, WaitingStays
    <3>4. QED BY <3>1, <3>2, <3>3 DEF SecretLoaded, Calm
  <2>3. QED BY <2>1, <2>2
<1>4. QED BY <1>2, <1>3 DEF CurrentInv

\* Steps after which the request is no key and has loaded no secret.
LEMMA NoKeyStep ==
    ASSUME TypeInv, CurrentInv, NEW h \in Requests, Handler(h), Calm(h),
           pc'[h] \in {"refused", "signed_in", "store", "commit", "undo", "done", "unswept"}
              \/ (pc'[h] = "code" /\ Kind(h)' = "password")
    PROVE  CurrentInv'
<1>1. ~IsKey(h)' BY ConstantsAssumption DEF IsKey
<1>2. SecretLoaded(h)' BY DEF SecretLoaded
<1>3. QED BY <1>1, <1>2, CalmStep

\* Steps of a request that was a key and stays one.
LEMMA SameKeyStep ==
    ASSUME TypeInv, CurrentInv, NEW h \in Requests, Handler(h), Calm(h),
           IsKey(h), raced' = raced, cred'[h] = cred[h], SecretLoaded(h)'
    PROVE  CurrentInv'
BY CalmStep

\* The account's credentials or its epoch change: the request's own sweep is to
\* come, and spares at most the session it was sent with.
LEMMA ChangeStep ==
    ASSUME TypeInv, CurrentInv, NEW h \in Requests, Handler(h),
           pc[h] = "commit", pc'[h] = "sweep", raced' = raced,
           Kind(h)' = Kind(h), Token(h)' = Token(h),
           Kind(h) = "password" =>
               /\ Token(h) \in Names => cred' = [cred EXCEPT ![Token(h)].password = h]
               /\ acct'.password = h /\ acct'.secret = acct.secret /\ epoch' = epoch
    PROVE  CurrentInv'
<1>1. /\ Moved(h, pc'[h], Kind(h)', Token(h)')
      /\ \A c \in Names \ {h} : IsKey(c)' => IsKey(c)
  BY OtherKeys
<1>2. ASSUME NEW c \in Names \ raced, IsKey(c)' PROVE Good(c)'
  <2>1. CASE ~(Kind(h) = "password" /\ Token(h) = c)
    <3>1. Waiting(h, c)' BY <2>1 DEF Waiting
    <3>2. QED BY <3>1 DEF Good
  <2>2. CASE Kind(h) = "password" /\ Token(h) = c
    <3>1. c # h BY <2>2, ConstantsAssumption DEF TypeInv, Placed
    <3>2. Good(c) BY <1>1, <1>2, <3>1 DEF CurrentInv
    <3>3. CASE Current(c)
      <4>1. cred'[c] = [cred[c] EXCEPT !.password = h] /\ cred[c] \in Cred
        BY <2>2 DEF TypeInv, TypeOK
      <4>2. cred'[c].password = h /\ cred'[c].secret = cred[c].secret /\ cred'[c].epoch = cred[c].epoch
        BY <4>1 DEF Cred
      <4>3. Current(c)' BY <2>2, <3>3, <4>2 DEF Current
      <4>4. QED BY <4>3 DEF Good
    <3>4. CASE \E z \in Requests : Waiting(z, c)
      <4>1. PICK z \in Requests : Waiting(z, c) BY <3>4
      <4>2. z # h BY <2>2, <4>1 DEF Waiting
      <4>3. Waiting(z, c)' BY <1>1, <4>1, <4>2 DEF Waiting, Moved, Kind, Token
      <4>4. QED BY <4>3 DEF Good
    <3>5. QED BY <3>2, <3>3, <3>4 DEF Good
  <2>3. QED BY <2>1, <2>2
<1>3. \A g \in Requests : SecretLoaded(g)' BY DEF SecretLoaded
<1>4. QED BY <1>2, <1>3 DEF CurrentInv

\* The sweep: of the keys it finds only the session it was sent with stays, which
\* is current unless another sweep is to come.
LEMMA SweepStep ==
    ASSUME TypeInv, KeyInv, CurrentInv, NEW h \in Requests, Handler(h), Sweep(h)
    PROVE  CurrentInv'
<1>1. /\ Moved(h, pc'[h], Kind(h)', Token(h)')
      /\ \A c \in Names \ {h} : IsKey(c)' => IsKey(c)
  BY OtherKeys
<1>2. /\ pc[h] = "sweep" /\ pc'[h] = "done"
      /\ sessions' = IF Kind(h) = "password" THEN sessions \cap {Token(h)} ELSE {}
      /\ pending' = {} /\ setups' = {} /\ raced' = raced \cup InFlight
      /\ acct' = acct /\ cred' = cred /\ epoch' = epoch
  BY DEF Sweep, At, Go, Move, TypeInv, TypeOK, ghosts
<1>3. ASSUME NEW g \in Requests \ raced' PROVE SecretLoaded(g)'
  <2>1. pc'[g] \notin {"code", "mark"} BY <1>1, <1>2 DEF Moved, InFlight
  <2>2. QED BY <2>1 DEF SecretLoaded
<1>4. ASSUME NEW c \in Names \ raced', IsKey(c)' PROVE Good(c)'
  <2>1. c # h BY <1>2, <1>4, ConstantsAssumption DEF IsKey
  <2>2. IsKey(c) /\ c \notin raced BY <1>1, <1>2, <1>4, <2>1
  <2>3. c \in Requests => pc'[c] = pc[c] BY <1>1, <2>1 DEF Moved
  <2>4. c \in sessions'
    BY <1>2, <1>4, <2>3 DEF IsKey, InFlight
  <2>5. Kind(h) = "password" /\ Token(h) = c BY <1>2, <2>4
  <2>6. Good(c) BY <2>2 DEF CurrentInv
  <2>7. CASE Current(c)
    <3>1. Current(c)' BY <1>2, <2>7 DEF Current
    <3>2. QED BY <3>1 DEF Good
  <2>8. CASE \E z \in Requests : Waiting(z, c)
    <3>1. PICK z \in Requests : Waiting(z, c) BY <2>8
    <3>2. z # h BY <2>5, <3>1 DEF Waiting
    <3>3. Waiting(z, c)' BY <1>1, <3>1, <3>2 DEF Waiting, Moved, Kind, Token
    <3>4. QED BY <3>3 DEF Good
  <2>9. QED BY <2>6, <2>7, <2>8 DEF Good
<1>5. QED BY <1>3, <1>4 DEF CurrentInv

\* A key copied from a good one is good: no sweep spares a request under way.
LEMMA GoodCopied ==
    ASSUME TypeInv, NEW h \in Requests, Moved(h, pc'[h], Kind(h)', Token(h)'), Calm(h), pc[h] # "sweep",
           NEW c \in Names, Good(c), cred'[h] = cred[c]
    PROVE  Good(h)'
<1>1. CASE Current(c)
  <2>1. Current(h)' BY <1>1 DEF Current, Calm
  <2>2. QED BY <2>1 DEF Good
<1>2. CASE \E z \in Requests : Waiting(z, c)
  <2>1. PICK z \in Requests : Waiting(z, c) BY <1>2
  <2>2. z # h /\ pc'[z] = pc[z] /\ Kind(z)' = Kind(z) /\ Token(z)' = Token(z)
    BY <2>1 DEF Waiting, Moved, Kind, Token, Steps
  <2>3. Kind(z) = "password" => Token(z) # h
    BY ConstantsAssumption DEF TypeInv, Placed, Moved, Steps
  <2>4. Waiting(z, h)' BY <2>1, <2>2, <2>3 DEF Waiting
  <2>5. QED BY <2>4 DEF Good
<1>3. QED BY <1>1, <1>2 DEF Good

LEMMA HandlerCurrent ==
    ASSUME TypeInv, KeyInv, CurrentInv, NEW h \in Requests, Handler(h)
    PROVE  CurrentInv'
<1>0. /\ Placed(h) /\ op[h] \in Ask /\ snap[h] \in Account /\ acct \in Account /\ TypeOK
      /\ Moved(h, pc'[h], Kind(h)', Token(h)') /\ h \in Names /\ cred \in [Names -> Cred]
  BY OtherKeys DEF TypeInv, TypeOK, Names
<1>1. CASE Login(h)
  <2>1. PICK o \in Asks("login", {None}, {acct.password, None}, {None})
                  \cup Asks("sso", {None}, {None}, {None}) :
           /\ At(h, "idle")
           /\ \/ /\ o.kind = "login" => o.password = acct.password
                 /\ Move(h, "second", o, acct)
                 /\ cred' = [cred EXCEPT ![h] =
                        [password |-> o.password, secret |-> None, epoch |-> epoch]]
              \/ Move(h, "refused", o, acct) /\ UNCHANGED cred
           /\ UNCHANGED <<acct, raced, epoch>>
    BY <1>1 DEF Login, ghosts
  <2>2. /\ o \in Ask /\ o.kind \in {"login", "sso"}
        /\ o.kind = "sso" => o.password = None
    BY <1>0, <2>1, LoginAsks
  <2>3. Calm(h) BY <1>0, <2>1 DEF Calm, At
  <2>4. CASE Move(h, "refused", o, acct)
    <3>1. pc'[h] = "refused" BY <1>0, <2>2, <2>4, MoveFacts DEF Answers
    <3>2. QED BY <2>3, <3>1, NoKeyStep
  <2>5. CASE /\ o.kind = "login" => o.password = acct.password
             /\ Move(h, "second", o, acct)
             /\ cred' = [cred EXCEPT ![h] =
                    [password |-> o.password, secret |-> None, epoch |-> epoch]]
    <3>1. pc'[h] = "second" BY <1>0, <2>2, <2>5, MoveFacts DEF Steps
    <3>2. cred'[h] = [password |-> o.password, secret |-> None, epoch |-> epoch] BY <1>0, <2>5
    <3>3. Current(h)' BY <2>1, <2>2, <2>5, <3>2 DEF Current
    <3>4. Good(h)' BY <3>3 DEF Good
    <3>5. SecretLoaded(h)' BY <3>1 DEF SecretLoaded
    <3>6. QED BY <2>3, <3>4, <3>5, CalmStep
  <2>6. QED BY <2>1, <2>4, <2>5
<1>2. CASE SecondFactor(h)
  <2>1. pc[h] = "second" /\ Kind(h) \in {"login", "sso"} BY <1>0, <1>2 DEF SecondFactor, At, Placed
  <2>2. \E l \in {"refused", "setup", "totp"} : Go(h, l) BY <1>2 DEF SecondFactor
  <2>3. pc'[h] \notin {"code", "mark"} BY <1>0, <2>1, <2>2, GoMoved DEF Moved, Steps, Answers
  <2>4. Calm(h) /\ raced' = raced /\ cred' = cred BY <1>2, <2>1 DEF SecondFactor, Calm, ghosts
  <2>5. IsKey(h) BY <2>1 DEF IsKey
  <2>6. SecretLoaded(h)' BY <2>3 DEF SecretLoaded
  <2>7. QED BY <2>4, <2>5, <2>6, SameKeyStep
<1>3. CASE ConsumeToken(h)
  <2>1. PICK o \in Asks("mfa", Held("totp"), {None}, Codes)
                  \cup Asks("setup", Held("setup"), {None}, Codes) :
           /\ At(h, "idle")
           /\ \/ /\ o.token \in pending \cup setups
                 /\ Move(h, "load", o, snap[h])
                 /\ cred' = [cred EXCEPT ![h] = cred[o.token]]
                 /\ raced' = IF o.token \in raced THEN raced \cup {h} ELSE raced
              \/ Move(h, "refused", o, snap[h]) /\ UNCHANGED <<cred, raced>>
           /\ UNCHANGED <<acct, epoch>>
    BY <1>3 DEF ConsumeToken, ghosts
  <2>2. o \in Ask /\ o.token \in Requests BY <1>0, <2>1, TokenAsks
  <2>3. Calm(h) BY <1>0, <2>1 DEF Calm, At
  <2>4. CASE Move(h, "refused", o, snap[h])
    <3>1. pc'[h] = "refused" BY <1>0, <2>2, <2>4, MoveFacts DEF Answers
    <3>2. QED BY <2>3, <3>1, NoKeyStep
  <2>5. CASE /\ o.token \in pending \cup setups
             /\ Move(h, "load", o, snap[h])
             /\ cred' = [cred EXCEPT ![h] = cred[o.token]]
             /\ raced' = IF o.token \in raced THEN raced \cup {h} ELSE raced
    <3>1. pc'[h] = "load" BY <1>0, <2>2, <2>5, MoveFacts DEF Steps
    <3>2. IsKey(o.token) BY <2>2, <2>5 DEF KeyInv, KeyPlaced, IsKey
    <3>3. ASSUME h \notin raced' PROVE Good(h)'
      <4>1. o.token \notin raced BY <2>5, <3>3
      <4>2. Good(o.token) /\ o.token \in Names BY <2>2, <3>2, <4>1 DEF CurrentInv, Names
      <4>3. cred'[h] = cred[o.token] BY <1>0, <2>5
      <4>4. pc[h] # "sweep" BY <2>1 DEF At
      <4>5. QED BY <1>0, <2>3, <4>2, <4>3, <4>4, GoodCopied
    <3>4. SecretLoaded(h)' BY <3>1 DEF SecretLoaded
    <3>5. QED BY <2>3, <3>3, <3>4, CalmStep
  <2>6. QED BY <2>1, <2>4, <2>5
<1>4. CASE LoadUser(h)
  <2>1. pc[h] = "load" /\ Kind(h) \in {"mfa", "setup"} BY <1>0, <1>4 DEF LoadUser, At, Placed
  <2>2. \E l \in {"refused", "code"} : Move(h, l, op[h], acct) BY <1>4 DEF LoadUser
  <2>3. pc'[h] \in {"code", "mark"} => snap'[h] = acct BY <1>0, <2>2, MoveFacts DEF Steps, Answers
  <2>4. Calm(h) /\ raced' = raced /\ cred' = cred /\ acct' = acct
    BY <1>4, <2>1 DEF LoadUser, Calm, ghosts
  <2>5. IsKey(h) BY <2>1 DEF IsKey
  <2>6. SecretLoaded(h)' BY <2>3, <2>4 DEF SecretLoaded
  <2>7. QED BY <2>4, <2>5, <2>6, SameKeyStep
<1>5. CASE Locked(h)
  <2>1. pc[h] = "code" BY <1>5 DEF Locked, At
  <2>2. pc'[h] = "refused" BY <1>0, <1>5, <2>1, GoMoved DEF Locked, Moved, Steps, Answers
  <2>3. Calm(h) BY <1>5, <2>1 DEF Locked, Calm, ghosts
  <2>4. QED BY <2>2, <2>3, NoKeyStep
<1>6. CASE VerifyCode(h)
  <2>1. pc[h] = "code" /\ Kind(h) \in {"mfa", "setup", "password"}
    BY <1>0, <1>6 DEF VerifyCode, At, Placed
  <2>2. Calm(h) /\ raced' = raced /\ cred' = cred /\ acct' = acct
    BY <1>0, <1>6, <2>1 DEF VerifyCode, Calm, ghosts
  <2>3. CASE Kind(h) = "password" /\ Go(h, "refused")
    <3>1. pc'[h] = "refused" BY <1>0, <2>1, <2>3, GoMoved DEF Moved, Steps, Answers
    <3>2. QED BY <2>2, <3>1, NoKeyStep
  <2>4. CASE Go(h, "mark")
    <3>1. pc'[h] = "mark" /\ Kind(h)' = Kind(h) /\ snap'[h] = snap[h]
      BY <1>0, <2>1, <2>4, MoveFacts DEF Go, Kind, Steps, Answers
    <3>2. CASE Kind(h) = "password"
      <4>1. ~IsKey(h)' BY <2>1, <3>1, <3>2, ConstantsAssumption DEF IsKey
      <4>2. SecretLoaded(h)' BY <3>1, <3>2 DEF SecretLoaded
      <4>3. QED BY <2>2, <4>1, <4>2, CalmStep
    <3>3. CASE Kind(h) # "password"
      <4>1. IsKey(h) BY <2>1, <3>3 DEF IsKey
      <4>2. ASSUME h \notin raced PROVE SecretLoaded(h)'
        <5>1. SecretLoaded(h) BY <4>2 DEF CurrentInv
        <5>2. \A z \in Requests : pc[z] \in {"sweep", "unswept"} => pc'[z] \in {"sweep", "unswept"}
          BY <1>0, <2>2, WaitingStays
        <5>3. QED BY <2>1, <2>2, <3>1, <3>3, <5>1, <5>2 DEF SecretLoaded
      <4>3. QED BY <2>2, <4>1, <4>2, CalmStep
    <3>4. QED BY <3>2, <3>3
  <2>5. CASE Kind(h) # "password" /\ Go(h, "again")
    <3>1. pc'[h] = "again" BY <1>0, <2>1, <2>5, GoMoved DEF Moved, Steps, Answers
    <3>2. IsKey(h) BY <2>1, <2>5 DEF IsKey
    <3>3. SecretLoaded(h)' BY <3>1 DEF SecretLoaded
    <3>4. QED BY <2>2, <3>2, <3>3, SameKeyStep
  <2>6. QED BY <1>6, <2>3, <2>4, <2>5 DEF VerifyCode, WrongCode
<1>7. CASE Again(h)
  <2>1. pc[h] = "again" /\ Kind(h) \in {"mfa", "setup"} BY <1>0, <1>7 DEF Again, At, Placed
  <2>2. \E l \in {"totp", "setup"} : Go(h, l) BY <1>7 DEF Again
  <2>3. pc'[h] \notin {"code", "mark"} BY <1>0, <2>1, <2>2, GoMoved DEF Moved, Steps, Answers
  <2>4. Calm(h) /\ raced' = raced /\ cred' = cred
    BY <1>0, <1>7, <2>1 DEF Again, Calm, ghosts
  <2>5. IsKey(h) BY <2>1 DEF IsKey
  <2>6. SecretLoaded(h)' BY <2>3 DEF SecretLoaded
  <2>7. QED BY <2>4, <2>5, <2>6, SameKeyStep
<1>8. CASE Enrol(h)
  <2>1. pc[h] = "enrol" /\ Kind(h) \in {"mfa", "setup"} BY <1>0, <1>8 DEF Enrol, At, Placed
  <2>2. \E l \in {"start"} : Go(h, l) BY <1>8 DEF Enrol
  <2>3. pc'[h] \notin {"code", "mark"} BY <1>0, <2>1, <2>2, GoMoved DEF Moved, Steps, Answers
  <2>4. Calm(h) /\ raced' = raced /\ cred' = cred
    BY <1>0, <1>8, <2>1 DEF Enrol, Calm, ghosts, Write, Account
  <2>5. IsKey(h) BY <2>1 DEF IsKey
  <2>6. SecretLoaded(h)' BY <2>3 DEF SecretLoaded
  <2>7. QED BY <2>4, <2>5, <2>6, SameKeyStep
<1>9. CASE StartSession(h)
  <2>1. pc[h] = "start" /\ Kind(h) \in {"mfa", "setup"} BY <1>0, <1>9 DEF StartSession, At, Placed
  <2>2. \E l \in {"session", "refused"} : Go(h, l) BY <1>9 DEF StartSession
  <2>3. pc'[h] \notin {"code", "mark"} BY <1>0, <2>1, <2>2, GoMoved DEF Moved, Steps, Answers
  <2>4. Calm(h) /\ raced' = raced /\ cred' = cred
    BY <1>0, <1>9, <2>1 DEF StartSession, Calm, ghosts
  <2>5. IsKey(h) BY <2>1 DEF IsKey
  <2>6. SecretLoaded(h)' BY <2>3 DEF SecretLoaded
  <2>7. QED BY <2>4, <2>5, <2>6, SameKeyStep
<1>10. CASE ValidateSession(h)
  <2>1. PICK o \in Asks("refresh", Held("session"), {None}, {None})
                  \cup Asks("password", Held("session"), {acct.password}, Codes) :
           /\ At(h, "idle")
           /\ Move(h, "signed_in", o, snap[h]) \/ Move(h, "refused", o, snap[h])
           /\ UNCHANGED <<acct, cred, raced, epoch>>
    BY <1>10 DEF ValidateSession, ghosts
  <2>2. o \in Ask BY <1>0, <2>1, SessionAsks
  <2>3. pc'[h] \in {"signed_in", "refused"} BY <1>0, <2>1, <2>2, MoveFacts DEF Steps, Answers
  <2>4. Calm(h) BY <2>1 DEF Calm, At
  <2>5. QED BY <2>3, <2>4, NoKeyStep
<1>11. CASE SignedIn(h)
  <2>1. pc[h] = "signed_in" /\ Kind(h) \in {"refresh", "password"} BY <1>0, <1>11 DEF SignedIn, At, Placed
  <2>2. \/ Move(h, "store", op[h], acct) \/ Move(h, "refused", op[h], acct)
        \/ Kind(h) = "password" /\ Move(h, "code", op[h], acct)
    BY <1>11, <2>1 DEF SignedIn
  <2>3. pc'[h] \in {"store", "refused"} \/ (pc'[h] = "code" /\ Kind(h)' = "password")
    BY <1>0, <2>2, MoveFacts DEF Kind, Steps, Answers
  <2>4. Calm(h) BY <1>11, <2>1 DEF SignedIn, Calm, ghosts
  <2>5. QED BY <2>3, <2>4, NoKeyStep
<1>12. CASE StoreNew(h)
  <2>1. pc[h] = "store" /\ Kind(h) = "refresh" BY <1>0, <1>12 DEF StoreNew, At, Placed
  <2>2. Token(h) = First \/ (Token(h) \in Requests /\ pc[Token(h)] = "session") BY <1>0, <2>1 DEF Placed
  <2>3. /\ pc'[h] = "retire" /\ Token(h)' = Token(h)
        /\ sessions' = sessions \cup {h}
        /\ cred' = [cred EXCEPT ![h] = cred[Token(h)]]
        /\ raced' = IF Token(h) \in raced THEN raced \cup {h} ELSE raced
    BY <1>0, <1>12, <2>1, GoMoved DEF StoreNew, Moved, Token, Steps
  <2>4. Calm(h) BY <1>0, <1>12, <2>1, <2>3 DEF StoreNew, Calm, ghosts
  <2>5. ASSUME h \notin raced', IsKey(h)' PROVE Good(h)'
    <3>1. Token(h) \in sessions
      BY <2>1, <2>2, <2>3, <2>5, ConstantsAssumption DEF IsKey
    <3>2. IsKey(Token(h)) /\ Token(h) \in Names BY <2>2, <3>1 DEF IsKey, Names
    <3>3. Token(h) \notin raced BY <2>3, <2>5
    <3>4. Good(Token(h)) BY <3>2, <3>3 DEF CurrentInv
    <3>5. cred'[h] = cred[Token(h)] BY <1>0, <2>3
    <3>6. QED BY <1>0, <2>1, <2>4, <3>2, <3>4, <3>5, GoodCopied
  <2>6. SecretLoaded(h)' BY <2>3 DEF SecretLoaded
  <2>7. QED BY <2>4, <2>5, <2>6, CalmStep
<1>13. CASE RetireOld(h)
  <2>1. pc[h] = "retire" /\ Kind(h) = "refresh" BY <1>0, <1>13 DEF RetireOld, At, Placed
  <2>2. Calm(h) /\ raced' = raced /\ cred' = cred /\ sessions' \subseteq sessions
    BY <1>13, <2>1 DEF RetireOld, Calm, ghosts
  <2>3. CASE Token(h) \notin sessions
    <3>1. pc'[h] = "undo" BY <1>0, <1>13, <2>1, <2>3, GoMoved DEF RetireOld, Moved, Steps
    <3>2. QED BY <2>2, <3>1, NoKeyStep
  <2>4. CASE Token(h) \in sessions
    <3>1. pc'[h] = "session" BY <1>0, <1>13, <2>1, <2>4, GoMoved DEF RetireOld, Moved, Steps, Answers
    <3>2. IsKey(h)' => IsKey(h) BY <2>1, <2>2, <2>4, <3>1, ConstantsAssumption DEF IsKey
    <3>3. SecretLoaded(h)' BY <3>1 DEF SecretLoaded
    <3>4. QED BY <2>2, <3>2, <3>3, CalmStep
  <2>5. QED BY <2>3, <2>4
<1>14. CASE UndoRefresh(h)
  <2>1. pc[h] = "undo" BY <1>14 DEF UndoRefresh, At
  <2>2. pc'[h] = "refused" BY <1>0, <1>14, <2>1, GoMoved DEF UndoRefresh, Moved, Steps, Answers
  <2>3. Calm(h) BY <1>14, <2>1 DEF UndoRefresh, Calm, ghosts
  <2>4. QED BY <2>2, <2>3, NoKeyStep
<1>15. CASE Logout(h)
  <2>1. PICK o \in Asks("logout", Held("session"), {None}, {None}) :
           At(h, "idle") /\ Move(h, "done", o, snap[h]) /\ UNCHANGED <<acct, cred, raced, epoch>>
    BY <1>15 DEF Logout, ghosts
  <2>2. o \in Ask BY <1>0, <2>1, SessionAsks
  <2>3. pc'[h] = "done" BY <1>0, <2>1, <2>2, MoveFacts DEF Answers
  <2>4. Calm(h) BY <2>1 DEF Calm, At
  <2>5. QED BY <2>3, <2>4, NoKeyStep
<1>16. CASE LoadTarget(h)
  <2>1. PICK o \in UNION {Asks(k, {None}, {None}, {None}) : k \in {"reset", "deactivate", "reactivate"}} :
           At(h, "idle") /\ Move(h, "commit", o, acct) /\ UNCHANGED <<acct, cred, raced, epoch>>
    BY <1>16 DEF LoadTarget, ghosts
  <2>2. o \in Ask BY <2>1, TargetAsks
  <2>3. pc'[h] = "commit" BY <1>0, <2>1, <2>2, MoveFacts DEF Steps
  <2>4. Calm(h) BY <2>1 DEF Calm, At
  <2>5. QED BY <2>3, <2>4, NoKeyStep
<1>17. CASE ChangePassword(h)
  <2>1. pc[h] = "commit" /\ raced' = raced BY <1>17 DEF ChangePassword, At
  <2>2. pc'[h] = "sweep" /\ Kind(h)' = Kind(h) /\ Token(h)' = Token(h)
    BY <1>0, <1>17, <2>1, GoMoved DEF ChangePassword, Moved, Kind, Token, Steps
  <2>3. /\ cred' = [cred EXCEPT ![Token(h)].password = h]
        /\ acct'.password = h /\ acct'.secret = acct.secret /\ epoch' = epoch
    BY <1>0, <1>17 DEF ChangePassword, Write, Account
  <2>4. QED BY <2>1, <2>2, <2>3, ChangeStep
<1>18. CASE ResetAuthenticator(h)
  <2>1. pc[h] = "commit" /\ raced' = raced BY <1>18 DEF ResetAuthenticator, At
  <2>2. pc'[h] = "sweep" /\ Kind(h)' = Kind(h) /\ Token(h)' = Token(h)
    BY <1>0, <1>18, <2>1, GoMoved DEF ResetAuthenticator, Moved, Kind, Token, Steps
  <2>3. Kind(h) # "password" BY <1>18 DEF ResetAuthenticator
  <2>4. QED BY <2>1, <2>2, <2>3, ChangeStep
<1>19. CASE Deactivate(h)
  <2>1. pc[h] = "commit" /\ raced' = raced BY <1>19 DEF Deactivate, At
  <2>2. pc'[h] = "sweep" /\ Kind(h)' = Kind(h) /\ Token(h)' = Token(h)
    BY <1>0, <1>19, <2>1, GoMoved DEF Deactivate, Moved, Kind, Token, Steps
  <2>3. Kind(h) # "password" BY <1>19 DEF Deactivate
  <2>4. QED BY <2>1, <2>2, <2>3, ChangeStep
<1>20. CASE Reactivate(h)
  <2>1. pc[h] = "commit" BY <1>20 DEF Reactivate, At
  <2>2. pc'[h] = "done" BY <1>0, <1>20, <2>1, GoMoved DEF Reactivate, Moved, Steps, Answers
  <2>3. Calm(h) BY <1>0, <1>20, <2>1 DEF Reactivate, Calm, Write, Account
  <2>4. QED BY <2>2, <2>3, NoKeyStep
<1>21. CASE Sweep(h)
  BY <1>21, SweepStep
<1>22. CASE SweepFails(h)
  <2>1. pc[h] = "sweep" BY <1>22 DEF SweepFails, At
  <2>2. pc'[h] = "unswept" /\ Kind(h)' = Kind(h) /\ Token(h)' = Token(h)
    BY <1>0, <1>22, <2>1, GoMoved DEF SweepFails, Moved, Kind, Token, Steps, Answers
  <2>3. Calm(h) BY <1>22, <2>1, <2>2 DEF SweepFails, Calm, ghosts
  <2>4. QED BY <2>2, <2>3, NoKeyStep
<1>23. CASE MarkCode(h)
  <2> DEFINE code == op[h].code
  <2>1. /\ pc[h] = "mark" /\ Kind(h) \in {"mfa", "setup", "password"}
        /\ code \in Code /\ code.secret = snap[h].secret
    BY <1>0, <1>23 DEF MarkCode, At, Placed, TypeInv, VerifiedInv, Verified
  <2>2. /\ raced' = raced /\ acct' = acct /\ epoch' = epoch
        /\ \/ /\ code.secret = snap[h].secret
              /\ cred' = [cred EXCEPT ![h].secret = code.secret]
              /\ \E l \in {"start", "enrol", "commit"} : Go(h, l)
           \/ cred' = cred /\ (Go(h, "again") \/ Go(h, "refused"))
    BY <1>23, <2>1 DEF MarkCode, WrongCode, ghosts
  <2>3. Calm(h) BY <1>0, <2>1, <2>2 DEF Calm
  <2>4. Kind(h)' = Kind(h) /\ pc'[h] \in {"start", "enrol", "commit", "again", "refused"}
    BY <1>0, <2>1, <2>2, GoMoved DEF Moved, Kind, Steps, Answers
  <2>5. SecretLoaded(h)' BY <2>4 DEF SecretLoaded
  <2>6. CASE Kind(h) = "password"
    <3>1. pc'[h] \in {"commit", "refused"}
      <4>1. Go(h, "commit") \/ Go(h, "refused") BY <1>23, <2>6 DEF MarkCode, WrongCode
      <4>2. QED BY <1>0, <2>1, <4>1, GoMoved DEF Moved, Steps, Answers
    <3>2. QED BY <2>3, <3>1, NoKeyStep
  <2>7. CASE Kind(h) # "password"
    <3>1. IsKey(h) BY <2>1, <2>7 DEF IsKey
    <3>2. CASE cred' = cred BY <2>2, <2>3, <2>5, <3>1, <3>2, SameKeyStep
    <3>3. CASE /\ code.secret = snap[h].secret
               /\ cred' = [cred EXCEPT ![h].secret = code.secret]
      <4>1. ASSUME h \notin raced PROVE Good(h)'
        <5>1. Good(h) BY <1>0, <3>1, <4>1 DEF CurrentInv
        <5>2. SecretLoaded(h) BY <4>1 DEF CurrentInv
        <5>3. CASE \E z \in Requests : pc[z] \in {"sweep", "unswept"}
          <6>1. PICK z \in Requests : pc[z] \in {"sweep", "unswept"} BY <5>3
          <6>2. ~(Kind(z) = "password" /\ Token(z) = h)
            BY <2>1, ConstantsAssumption DEF TypeInv, Placed
          <6>3. Waiting(z, h) BY <6>1, <6>2 DEF Waiting
          <6>4. Waiting(z, h)' BY <1>0, <2>3, <6>3, WaitingStays
          <6>5. QED BY <6>4 DEF Good
        <5>4. CASE snap[h].secret = acct.secret /\ Current(h)
          <6>1. code.secret = acct.secret BY <2>1, <5>4
          <6>2. cred'[h] = [cred[h] EXCEPT !.secret = code.secret] /\ cred[h] \in Cred BY <1>0, <3>3
          <6>3. /\ cred'[h].secret = acct.secret /\ cred'[h].password = cred[h].password
                /\ cred'[h].epoch = cred[h].epoch
            BY <6>1, <6>2 DEF Cred
          <6>4. Current(h)' BY <2>2, <5>4, <6>3 DEF Current
          <6>5. QED BY <6>4 DEF Good
        <5>5. QED BY <2>1, <2>7, <5>1, <5>2, <5>3, <5>4 DEF SecretLoaded, Good, Waiting
      <4>2. QED BY <2>2, <2>3, <2>5, <4>1, CalmStep
    <3>4. QED BY <2>2, <3>2, <3>3
  <2>8. QED BY <2>6, <2>7
<1>24. QED BY <1>1, <1>2, <1>3, <1>4, <1>5, <1>6, <1>7, <1>8, <1>9, <1>10, <1>11, <1>12, <1>13, <1>14, <1>15, <1>16, <1>17, <1>18, <1>19, <1>20, <1>21, <1>22, <1>23 DEF Handler

\* What others do leaves it: an expired key is none, the clock ends no sweep.
LEMMA CurrentRest ==
    ASSUME TypeInv, CurrentInv, UNCHANGED <<acct, pc, op, snap, cred, epoch, raced>>,
           sessions' \subseteq sessions, pending' \subseteq pending, setups' \subseteq setups
    PROVE  CurrentInv'
<1>1. \A h \in Requests : SecretLoaded(h) => SecretLoaded(h)' BY DEF SecretLoaded, Kind
<1>2. \A c \in Names : IsKey(c)' => IsKey(c) BY DEF IsKey, Kind, Token
<1>3. \A c \in Names : Good(c) => Good(c)' BY DEF Good, Current, Waiting, Kind, Token
<1>4. QED BY <1>1, <1>2, <1>3 DEF CurrentInv

\* After the sweep that follows a password change, a reset of the authenticator or
\* a deactivation, every session and every token between the factors was won with
\* what the account has now.  The one exception is a login that the sweep fell
\* into, and what came of it.
THEOREM SweepCorrect == Spec => []OthersCurrent
<1>1. Init => CurrentInv
  <2> SUFFICES ASSUME Init PROVE CurrentInv OBVIOUS
  <2>1. Current(First) BY DEF Init, Current, Fresh, FirstCred, Names
  <2>2. \A c \in Names : IsKey(c) => c = First BY DEF Init, IsKey, Names
  <2>3. \A h \in Requests : SecretLoaded(h) BY DEF Init, SecretLoaded
  <2>4. QED BY <2>1, <2>2, <2>3 DEF CurrentInv, Good
<1>2. TypeInv /\ KeyInv /\ CurrentInv /\ [Next]_vars => CurrentInv'
  <2> SUFFICES ASSUME TypeInv, KeyInv, CurrentInv, [Next]_vars PROVE CurrentInv' OBVIOUS
  <2>1. ASSUME NEW h \in Requests, Handler(h) PROVE CurrentInv' BY <2>1, HandlerCurrent
  <2>2. ASSUME NEW k \in Names, Expire(k) PROVE CurrentInv' BY <2>2, CurrentRest DEF Expire, ghosts
  <2>3. CASE Tick \/ \E u \in used : MarkExpires(u) BY <2>3, CurrentRest DEF Tick, MarkExpires, redis, ghosts
  <2>4. CASE UNCHANGED vars BY <2>4, CurrentRest DEF vars, redis, ghosts
  <2>5. QED BY <2>1, <2>2, <2>3, <2>4 DEF Next
<1>3. TypeInv /\ CurrentInv => OthersCurrent
  <2> SUFFICES ASSUME TypeInv, CurrentInv, Swept, NEW c \in Live \ raced PROVE Current(c)
    BY DEF OthersCurrent
  <2>1. c \in Names /\ IsKey(c) BY DEF Live, Held, At, IsKey, Names
  <2>2. \A z \in Requests : ~Waiting(z, c) BY DEF Swept, Waiting
  <2>3. QED BY <2>1, <2>2 DEF CurrentInv, Good
<1>4. QED BY <1>1, <1>2, <1>3, TypeInit, TypeStep, KeyInit, KeyNext, PTL DEF Spec

----------------------------------------------------------------------------
(* What a reset leaves of the account *)

\* As long as no handler has overrun another: the secret of an enrolled account was
\* shown, and the password's maker, when an administrator, has marked it.
ResetInv ==
    ~overran =>
        /\ acct.enrolled => acct.secret \in proved
        /\ acct.password \in Requests =>
               /\ pc[acct.password] # "idle"
               /\ Kind(acct.password) = "reset" => acct.mustChange

\* A request that has begun is never idle again and asks the same to its end.
LEMMA KindStays ==
    ASSUME TypeInv, NEW h \in Requests, Handler(h)
    PROVE  \A p \in Requests : pc[p] # "idle" => pc'[p] # "idle" /\ op'[p].kind = op[p].kind
<1>1. \A p \in Requests \ {h} : pc'[p] = pc[p] /\ op'[p] = op[p] BY OtherKeys DEF Moved
<1>2. ASSUME pc[h] # "idle" PROVE pc'[h] # "idle" /\ op'[h].kind = op[h].kind
  <2>1. \E l \in Steps \cup Answers, s \in {acct, snap[h]} : Move(h, l, op[h], s)
    <3>1. CASE LoadUser(h) \/ SignedIn(h)
      BY <3>1 DEF LoadUser, SignedIn, Steps, Answers, Kind
    <3>2. CASE \/ SecondFactor(h) \/ Locked(h) \/ VerifyCode(h) \/ MarkCode(h) \/ Again(h)
               \/ Enrol(h) \/ StartSession(h) \/ StoreNew(h) \/ RetireOld(h) \/ UndoRefresh(h)
               \/ ChangePassword(h) \/ ResetAuthenticator(h) \/ Deactivate(h) \/ Reactivate(h)
               \/ Sweep(h) \/ SweepFails(h)
      <4>1. \E l \in Steps \cup Answers : Go(h, l)
        BY <3>2 DEF SecondFactor, Locked, VerifyCode, MarkCode, WrongCode, Again, Enrol, StartSession, StoreNew, RetireOld,
              UndoRefresh, ChangePassword, ResetAuthenticator, Deactivate, Reactivate, Sweep, SweepFails,
              Steps, Answers
      <4> QED BY <4>1 DEF Go
    <3> QED
      BY <1>2, <3>1, <3>2 DEF Handler, Login, ConsumeToken, ValidateSession, Logout, LoadTarget, At
  <2>2. PICK l \in Steps \cup Answers, s \in {acct, snap[h]} : Move(h, l, op[h], s) BY <2>1
  <2>3. op[h] \in Ask /\ s \in Account BY DEF TypeInv, TypeOK
  <2>4. pc'[h] = l /\ op'[h].kind = op[h].kind BY <2>2, <2>3, MoveFacts DEF TypeInv
  <2>5. "idle" \notin Steps \cup Answers BY DEF Steps, Answers
  <2> QED BY <2>4, <2>5
<1> QED BY <1>1, <1>2

\* Who writes on the account as it was loaded writes what it stands for.
LEMMA WriteReset ==
    ASSUME TypeInv, ResetInv, NEW h \in Requests, Handler(h), ~overran',
           Enrol(h) \/ ChangePassword(h) \/ ResetAuthenticator(h) \/ Deactivate(h) \/ Reactivate(h)
    PROVE  ResetInv'
<1>1. acct = snap[h] /\ ~overran
  BY DEF Write, Enrol, ChangePassword, ResetAuthenticator, Deactivate, Reactivate
<1>2. acct \in Account /\ h \in Requests BY DEF TypeInv, TypeOK
<1>3. \A p \in Requests : pc[p] # "idle" => pc'[p] # "idle" /\ op'[p].kind = op[p].kind BY KindStays
<1>4. CASE Enrol(h)
  <2>1. /\ acct' = [acct EXCEPT !.enrolled = Flag(snap[h].enrolled, TRUE, @)]
        /\ proved' = proved \cup {snap[h].secret}
    BY <1>4 DEF Enrol, Write
  <2>2. acct'.secret = acct.secret /\ acct'.password = acct.password /\ acct'.mustChange = acct.mustChange
    BY <1>2, <2>1 DEF Account
  <2> QED BY <1>1, <1>3, <2>1, <2>2 DEF ResetInv, Kind
<1>5. CASE ChangePassword(h)
  <2>1. /\ acct' = [acct EXCEPT !.password = h, !.mustChange = Flag(snap[h].mustChange, FALSE, @)]
        /\ UNCHANGED proved /\ pc[h] = "commit" /\ Kind(h) = "password"
    BY <1>5 DEF ChangePassword, Write, At, ghosts
  <2>2. acct'.secret = acct.secret /\ acct'.password = h /\ acct'.enrolled = acct.enrolled
    BY <1>2, <2>1 DEF Account
  <2>3. pc'[h] # "idle" /\ op'[h].kind = "password" BY <1>3, <2>1 DEF Kind
  <2>4. acct'.enrolled => acct'.secret \in proved' BY <1>1, <2>1, <2>2 DEF ResetInv
  <2>5. pc'[acct'.password] # "idle" /\ op'[acct'.password].kind # "reset" BY <2>2, <2>3
  <2> QED BY <2>4, <2>5 DEF ResetInv, Kind
<1>6. CASE ResetAuthenticator(h)
  <2>1. /\ acct' = [acct EXCEPT !.secret = h, !.password = h,
                                !.enrolled = Flag(snap[h].enrolled, FALSE, @),
                                !.mustChange = Flag(snap[h].mustChange, TRUE, @)]
        /\ pc[h] = "commit"
    BY <1>6 DEF ResetAuthenticator, Write, At
  <2>2. acct'.password = h /\ acct'.enrolled = FALSE /\ acct'.mustChange = TRUE
    BY <1>1, <1>2, <2>1 DEF Account, Flag
  <2>3. pc'[h] # "idle" BY <1>3, <2>1
  <2> QED BY <2>2, <2>3 DEF ResetInv
<1>7. CASE Deactivate(h) \/ Reactivate(h)
  <2>1. \E b : acct' = [acct EXCEPT !.active = b]
    BY <1>7 DEF Deactivate, Reactivate, Write
  <2>2. /\ acct'.secret = acct.secret /\ acct'.password = acct.password
        /\ acct'.enrolled = acct.enrolled /\ acct'.mustChange = acct.mustChange
    BY <1>2, <2>1 DEF Account
  <2>3. UNCHANGED proved BY <1>7 DEF Deactivate, Reactivate
  <2> QED BY <1>1, <1>3, <2>2, <2>3 DEF ResetInv, Kind
<1> QED BY <1>4, <1>5, <1>6, <1>7

LEMMA ResetNext == TypeInv /\ ResetInv /\ [Next]_vars => ResetInv'
<1> SUFFICES ASSUME TypeInv, ResetInv, [Next]_vars PROVE ResetInv' OBVIOUS
<1>1. CASE UNCHANGED <<acct, pc, op, ghosts>> BY <1>1 DEF ResetInv, ghosts, Kind
<1>2. ASSUME NEW h \in Requests, Handler(h), ~overran' PROVE ResetInv'
  <2>1. CASE Enrol(h) \/ ChangePassword(h) \/ ResetAuthenticator(h) \/ Deactivate(h) \/ Reactivate(h)
    BY <1>2, <2>1, WriteReset
  <2>2. CASE UNCHANGED <<acct, proved, overran>>
    BY <1>2, <2>2, KindStays DEF ResetInv, Kind
  <2> QED
    BY <1>2, <2>1, <2>2 DEF Handler, Login, SecondFactor, ConsumeToken, LoadUser, Locked, VerifyCode, MarkCode, Again,
       StartSession, ValidateSession, SignedIn, StoreNew, RetireOld, UndoRefresh, Logout, LoadTarget,
       Sweep, SweepFails, ghosts
<1>3. (\E k \in Names : Expire(k)) \/ (\E u \in used : MarkExpires(u)) \/ Tick \/ UNCHANGED vars
      => UNCHANGED <<acct, pc, op, ghosts>>
  BY DEF Expire, MarkExpires, Tick, vars
<1>4. overran' => ResetInv' BY DEF ResetInv
<1> QED BY <1>1, <1>2, <1>3, <1>4 DEF Next

\* What enrolment, a reset and a password change write stands, however requests
\* interleave, as long as none has written on what another had changed.
THEOREM ResetCorrect == Spec => []ResetHolds
<1>1. Init => ResetInv
  BY ConstantsAssumption DEF Init, ResetInv, Fresh
<1>2. TypeInv /\ ResetInv => ResetHolds
  <2> SUFFICES ASSUME TypeInv, ResetInv, ~overran, acct.password # First, Kind(acct.password) = "reset"
               PROVE  acct.mustChange
    BY DEF ResetInv, ResetHolds
  <2>1. acct.password \in Requests BY DEF TypeInv, TypeOK, Account, Names
  <2> QED BY <2>1 DEF ResetInv
<1> QED BY <1>1, <1>2, TypeInit, TypeStep, ResetNext, PTL DEF Spec
=============================================================================
