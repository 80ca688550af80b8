--------------------------- MODULE AccountsProofs ---------------------------
(***************************************************************************)
(* What holds of the accounts for any requests, people, names and mixes:   *)
(* one account by the wizard and distinct names, someone who administers,  *)
(* the superadmin tier, and where a link and a login land.  A step is      *)
(* split by what it does to the rows (RowsStep) and by how its request     *)
(* gets to where it is next (GetsTo); each invariant is kept by the few    *)
(* effects that are left.                                                  *)
(***************************************************************************)
EXTENDS Accounts, FiniteSetTheorems, TLAPS

----------------------------------------------------------------------------
(* What a request holds at each step *)

\* No account is ever deleted, so whoever is loaded is there.
IsAccount(u) == u \in Accounts /\ user[u] # None

Held(l, o, s) ==
    /\ l \in {"name", "insert", "target", "count", "write"} => IsAccount(o.by)
    /\ l \in {"name", "insert"} => o.kind = "create"
    /\ l \in {"target", "count", "write"} =>
          IsAccount(o.target) /\ o.kind \in {"role", "deactivate", "reactivate", "reset"}
    /\ l \in {"count", "write", "link"} => s \in Row
    /\ l = "exchange" =>
          /\ o.target \in Requests /\ pc[o.target] = "sent"
          /\ op[o.target].kind = "link" => IsAccount(o.by) /\ s \in Row
          /\ o.key = None \/ o.key \in Requests
    /\ l \in {"link", "linked", "unlink"} => IsAccount(o.by)

\* A request's account is made by its last step but the deletion of the token.
MadeLast == \A r \in Requests : user[r] # None => pc[r] \in {"delete", "done"}

StoreType ==
    /\ user \in [Accounts -> Row \cup {None}] /\ complete \in BOOLEAN
    /\ token \in Requests \cup {None, "configured"} /\ states \subseteq Requests
    /\ session \in [Accounts -> Nat]
    /\ mix \in Mixes /\ turns \in 0..MaxTurns[mix]
    /\ installers \subseteq Requests /\ stale \subseteq Requests \X Steps
    /\ overran \subseteq {"names", "roles"}

HandlerType ==
    /\ pc \in [Requests -> {"idle"} \cup Steps \cup Answers]
    /\ op \in [Requests -> Ask]
    /\ rank \in [Requests -> Roles]
    /\ snap \in [Requests -> Row \cup {None}]

TypeInv ==
    /\ StoreType /\ HandlerType /\ MadeLast
    /\ \A r \in Requests : Held(pc[r], op[r], snap[r])

LEMMA NothingAsked == Nothing \in Ask /\ AnyName \in Names /\ AnyOrg \in Orgs
<1>1. AnyName \in Names /\ AnyOrg \in Orgs BY AccountsAssumption DEF AnyName, AnyOrg
<1>2. QED BY <1>1 DEF Nothing, Ask, Kinds, Managing, Roles

LEMMA InitTypeInv == Init => TypeInv
<1> SUFFICES ASSUME Init PROVE TypeInv OBVIOUS
<1>0. mix \in Mixes /\ MaxTurns[mix] \in Nat /\ Staff[mix] \in [People -> Row]
  BY AccountsAssumption DEF Init
<1>1. user \in [Accounts -> Row \cup {None}] BY <1>0 DEF Init, Accounts
<1>2. StoreType BY <1>0, <1>1, AccountsAssumption DEF Init, StoreType
<1>3. HandlerType BY NothingAsked DEF Init, HandlerType, Roles
<1>4. MadeLast BY AccountsAssumption DEF Init, MadeLast, Accounts
<1>5. \A r \in Requests : Held(pc[r], op[r], snap[r]) BY DEF Init, Held
<1>6. QED BY <1>2, <1>3, <1>4, <1>5 DEF TypeInv

\* A step of a request changes its own locals only.
LEMMA MoveFrame ==
    ASSUME HandlerType, NEW r \in Requests, NEW l, NEW o, NEW k, NEW s, Move(r, l, o, k, s)
    PROVE  /\ pc'[r] = l
           /\ op'[r] = IF l \in {"refused", "done"} THEN Nothing ELSE o
           /\ rank'[r] = IF l \in Answers THEN "case_manager" ELSE k
           /\ snap'[r] = IF l \in Answers THEN None ELSE s
           /\ \A q \in Requests : q # r =>
                 pc'[q] = pc[q] /\ op'[q] = op[q] /\ rank'[q] = rank[q] /\ snap'[q] = snap[q]
           /\ UNCHANGED bound
BY DEF Move, HandlerType

LEMMA MoveType ==
    ASSUME HandlerType, NEW r \in Requests, NEW l \in Steps \cup Answers,
           NEW o \in Ask, NEW k \in Roles, NEW s \in Row \cup {None}, Move(r, l, o, k, s)
    PROVE  HandlerType'
<1>1. (IF l \in {"refused", "done"} THEN Nothing ELSE o) \in Ask BY NothingAsked
<1>2. (IF l \in Answers THEN "case_manager" ELSE k) \in Roles BY DEF Roles
<1>3. (IF l \in Answers THEN None ELSE s) \in Row \cup {None} OBVIOUS
<1>4. QED BY <1>1, <1>2, <1>3 DEF Move, HandlerType

\* What is there stays there.
Lasting == \A u \in Accounts : user[u] # None => user'[u] # None

LEMMA HeldLasts ==
    ASSUME TypeInv, Lasting, NEW r \in Requests, pc[r] # "sent",
           \A q \in Requests : q # r => pc'[q] = pc[q] /\ op'[q] = op[q] /\ snap'[q] = snap[q],
           NEW l, NEW o, NEW s, Held(l, o, s)
    PROVE  Held(l, o, s)'
<1>1. \A u : IsAccount(u) => IsAccount(u)' BY DEF Lasting, IsAccount
<1>2. \A q \in Requests : pc[q] = "sent" => pc'[q] = "sent" /\ op'[q] = op[q] OBVIOUS
<1>3. QED BY <1>1, <1>2 DEF Held

LEMMA MoveInv ==
    ASSUME TypeInv, StoreType', Lasting, NEW r \in Requests,
           NEW l \in Steps \cup Answers, NEW o \in Ask, NEW k \in Roles, NEW s \in Row \cup {None},
           Move(r, l, o, k, s), pc[r] \in {"idle"} \cup Steps, Held(l, o, s),
           user'[r] # None => l \in {"delete", "done"},
           \A q \in Requests : q # r /\ user'[q] # None => user[q] # None
    PROVE  TypeInv'
<1>1. HandlerType /\ HandlerType' BY MoveType DEF TypeInv
<1>2. /\ pc'[r] = l /\ op'[r] = (IF l \in {"refused", "done"} THEN Nothing ELSE o)
      /\ snap'[r] = (IF l \in Answers THEN None ELSE s)
      /\ \A q \in Requests : q # r => pc'[q] = pc[q] /\ op'[q] = op[q] /\ snap'[q] = snap[q]
  BY <1>1, MoveFrame
<1>3. pc[r] # "sent" BY DEF Steps
<1>4. MadeLast' BY <1>2 DEF TypeInv, MadeLast
<1>5. ASSUME NEW q \in Requests PROVE Held(pc[q], op[q], snap[q])'
  <2>1. CASE q = r
    <3>1. Held(l, o, s)' BY <1>2, <1>3, HeldLasts
    <3>2. CASE l \in Answers
      <4>1. l \in {"refused", "done", "sent", "second"} \/ (l = "linked" /\ op'[r] = o)
        BY <1>2, <3>2 DEF Answers
      <4>2. pc'[r] = l BY <1>2
      <4>3. QED BY <2>1, <3>1, <4>1, <4>2 DEF Held
    <3>3. CASE l \notin Answers
      <4>1. pc'[r] = l /\ op'[r] = o /\ snap'[r] = s BY <1>2, <3>3 DEF Answers
      <4>2. QED BY <2>1, <3>1, <4>1 DEF Held
    <3>4. QED BY <3>2, <3>3
  <2>2. CASE q # r
    <3>1. PICK l0, o0, s0 : l0 = pc[q] /\ o0 = op[q] /\ s0 = snap[q] OBVIOUS
    <3>2. Held(l0, o0, s0) BY <3>1 DEF TypeInv
    <3>3. Held(l0, o0, s0)' BY <1>2, <1>3, <3>2, HeldLasts
    <3>4. pc'[q] = l0 /\ op'[q] = o0 /\ snap'[q] = s0 BY <1>2, <2>2, <3>1
    <3>5. QED BY <3>3, <3>4 DEF Held
  <2>3. QED BY <2>1, <2>2
<1>6. QED BY <1>1, <1>4, <1>5 DEF TypeInv

LEMMA QuietMove ==
    ASSUME TypeInv, Unwritten, complete' \in BOOLEAN,
           token' \in Requests \cup {None, "configured"}, states' \subseteq Requests,
           session' \in [Accounts -> Nat], NEW r \in Requests,
           NEW l \in Steps \cup Answers, NEW o \in Ask, NEW k \in Roles, NEW s \in Row \cup {None},
           Move(r, l, o, k, s), pc[r] \in {"idle"} \cup Steps, Held(l, o, s),
           pc[r] = "delete" => l = "done"
    PROVE  TypeInv'
<1>1. UNCHANGED <<user, installers, stale, overran, mix, turns>> BY DEF Unwritten, Move, bound
<1>2. StoreType' BY <1>1 DEF TypeInv, StoreType
<1>3. user'[r] # None => l \in {"delete", "done"}
  BY <1>1 DEF TypeInv, MadeLast, Steps
<1>4. Lasting /\ \A q \in Requests : q # r /\ user'[q] # None => user[q] # None
  BY <1>1 DEF Lasting
<1>5. QED BY <1>2, <1>3, <1>4, MoveInv

LEMMA Locals ==
    ASSUME TypeInv, NEW r \in Requests
    PROVE  /\ op[r] \in Ask /\ rank[r] \in Roles /\ snap[r] \in Row \cup {None}
           /\ Held(pc[r], op[r], snap[r]) /\ r \in Accounts
           /\ complete \in BOOLEAN /\ token \in Requests \cup {None, "configured"}
           /\ states \subseteq Requests /\ session \in [Accounts -> Nat]
           /\ user \in [Accounts -> Row \cup {None}] /\ None \notin Row
BY AccountsAssumption DEF TypeInv, HandlerType, StoreType, Accounts

\* The most of them: a handler that writes no row goes on, or answers.
LEMMA GoType ==
    ASSUME TypeInv, NEW r \in Requests, NEW l \in Steps \cup Answers, Go(r, l), Unwritten,
           pc[r] \in Steps, UNCHANGED <<complete, session>>,
           token' \in Requests \cup {None, "configured"}, states' \subseteq Requests,
           Held(l, op[r], snap[r]), pc[r] = "delete" => l = "done"
    PROVE  TypeInv'
<1>1. Move(r, l, op[r], rank[r], snap[r]) BY DEF Go
<1>2. QED BY <1>1, Locals, QuietMove

LEMMA SetupType ==
    ASSUME TypeInv, NEW r \in Requests, Setup(r)
    PROVE  TypeInv'
<1> USE Locals
<1>1. CASE OpenSetup(r)
  <2> DEFINE l == IF complete THEN "done" ELSE "token"
             o == [Nothing EXCEPT !.kind = "setup_page"]
  <2>1. Move(r, l, o, "case_manager", None) /\ pc[r] = "idle"
        /\ UNCHANGED <<complete, redis>> /\ Unwritten
    BY <1>1 DEF OpenSetup, Start, Free, At
  <2>2. o \in Ask BY NothingAsked DEF Ask, Kinds
  <2>3. l \in {"done", "token"} OBVIOUS
  <2>4. Held(l, o, None) /\ l \in Steps \cup Answers BY <2>3 DEF Held, Steps, Answers
  <2>5. "case_manager" \in Roles BY DEF Roles
  <2> HIDE DEF l, o
  <2>6. QED BY <2>1, <2>2, <2>4, <2>5, QuietMove DEF redis
<1>2. CASE EnsureToken(r)
  <2>1. Go(r, "done") /\ Unwritten /\ pc[r] = "token" /\ UNCHANGED <<complete, states, session>>
        /\ token' \in Requests \cup {None, "configured"}
    BY <1>2 DEF EnsureToken, At
  <2>2. QED BY <2>1, GoType DEF Held, Steps, Answers
<1>3. ASSUME NEW n \in Names, NEW supplied \in {token, None}, PostSetup(r, n, supplied)
      PROVE  TypeInv'
  <2> DEFINE l == IF complete THEN "done" ELSE "check"
             o == [Nothing EXCEPT !.kind = "setup", !.name = n, !.key = supplied]
  <2>1. Move(r, l, o, "case_manager", None) /\ pc[r] = "idle"
        /\ UNCHANGED <<complete, redis>> /\ Unwritten
    BY <1>3 DEF PostSetup, Start, Free, At
  <2>2. o \in Ask BY NothingAsked, <1>3 DEF Ask, Kinds
  <2>3. l \in {"done", "check"} OBVIOUS
  <2>4. Held(l, o, None) /\ l \in Steps \cup Answers BY <2>3 DEF Held, Steps, Answers
  <2>5. "case_manager" \in Roles BY DEF Roles
  <2> HIDE DEF l, o
  <2>6. QED BY <2>1, <2>2, <2>4, <2>5, QuietMove DEF redis
<1>4. ASSUME NEW ok \in BOOLEAN, CheckToken(r, ok) PROVE TypeInv'
  <2>1. PICK l \in {"create", "refused"} : Go(r, l) BY <1>4 DEF CheckToken
  <2>2. Unwritten /\ pc[r] = "check" /\ UNCHANGED <<complete, token, states, session>>
    BY <1>4 DEF CheckToken, At, redis
  <2>3. QED BY <2>1, <2>2, GoType DEF Held, Steps, Answers
<1>5. ASSUME NEW dies \in BOOLEAN, DeleteToken(r, dies) PROVE TypeInv'
  <2>1. Go(r, "done") /\ Unwritten /\ pc[r] = "delete" /\ UNCHANGED <<complete, states, session>>
        /\ token' \in Requests \cup {None, "configured"}
    BY <1>5 DEF DeleteToken, At
  <2>2. QED BY <2>1, GoType DEF Held, Steps, Answers
<1>6. CASE CreateInitial(r)
  <2>0. pc[r] = "create" /\ UNCHANGED redis BY <1>6 DEF CreateInitial, At
  <2>1. CASE complete \/ NameUsed(op[r].name)
    <3>1. PICK l \in {"done", "refused"} : Go(r, l) BY <1>6, <2>1 DEF CreateInitial
    <3>2. Unwritten /\ UNCHANGED complete BY <1>6, <2>1 DEF CreateInitial
    <3>3. QED BY <2>0, <3>1, <3>2, GoType DEF Held, Steps, Answers, redis
  <2>2. CASE ~(complete \/ NameUsed(op[r].name))
    <3>1. /\ user' = [user EXCEPT ![r] = Initial(op[r].name)] /\ installers' = installers \cup {r}
          /\ complete' = TRUE /\ Go(r, "delete") /\ UNCHANGED <<stale, overran>>
      BY <1>6, <2>2 DEF CreateInitial, Insert
    <3>2. Initial(op[r].name) \in Row BY NothingAsked DEF Initial, Row, Ask, Roles
    <3>3. Move(r, "delete", op[r], rank[r], snap[r]) /\ UNCHANGED bound BY <3>1 DEF Go, Move
    <3>4. StoreType'
      BY <2>0, <3>1, <3>2, <3>3 DEF TypeInv, StoreType, bound, redis
    <3>5. Lasting /\ \A q \in Requests : q # r /\ user'[q] # None => user[q] # None
      BY <3>1, <3>2 DEF Lasting, Accounts
    <3>6. Held("delete", op[r], snap[r]) BY DEF Held
    <3>7. QED BY <2>0, <3>3, <3>4, <3>5, <3>6, MoveInv DEF Steps
  <2>3. QED BY <2>1, <2>2
<1>7. QED BY <1>1, <1>2, <1>3, <1>4, <1>5, <1>6 DEF Setup

\* A row is added, or a constraint refuses it.
LEMMA AddType ==
    ASSUME TypeInv, NEW r \in Requests, NEW row \in Row, Add(r, row), pc[r] \in {"insert", "provision"},
           UNCHANGED <<complete, redis>>
    PROVE  TypeInv'
<1> USE Locals
<1>1. CASE Go(r, "refused") /\ Unwritten
  BY <1>1, GoType DEF Held, Steps, Answers, redis
<1>2. CASE Change(r, r, row, "names", {"insert", "provision"}) /\ Go(r, "done") /\ UNCHANGED installers
  <2>1. user' = [user EXCEPT ![r] = row] /\ overran' \subseteq overran \cup {"names"}
    BY <1>2 DEF Change
  <2>2. stale' \subseteq Requests \X Steps
    <3>1. stale' \subseteq stale \cup {<<q, pc[q]>> : q \in {q \in Requests : pc[q] \in {"insert", "provision"}}}
      BY <1>2 DEF Change
    <3>2. QED BY <3>1 DEF TypeInv, StoreType, Steps
  <2>3. Move(r, "done", op[r], rank[r], snap[r]) /\ UNCHANGED bound BY <1>2 DEF Go, Move
  <2>4. StoreType' BY <1>2, <2>1, <2>2, <2>3 DEF TypeInv, StoreType, bound, redis
  <2>5. Lasting /\ \A q \in Requests : q # r /\ user'[q] # None => user[q] # None
    BY <2>1 DEF Lasting, Accounts
  <2>6. Held("done", op[r], snap[r]) BY DEF Held
  <2>7. QED BY <2>3, <2>4, <2>5, <2>6, MoveInv DEF Steps, Answers
<1>3. QED BY <1>1, <1>2 DEF Add

LEMMA CallType ==
    ASSUME TypeInv, NEW r \in Requests, NEW o \in Ask, Call(r, o),
           o.by \in Accounts, o.kind # "create" => IsAccount(o.target)
    PROVE  TypeInv'
<1> USE Locals
<1> DEFINE l == IF o.kind = "create" THEN "name" ELSE "target"
<1>1. /\ o.kind \in Managing /\ SignedIn(o.by) /\ pc[r] = "idle"
      /\ Move(r, l, o, user[o.by].role, None)
      /\ UNCHANGED <<complete, redis>> /\ Unwritten
  BY DEF Call, Start, Free, At
<1>2. IsAccount(o.by) BY <1>1 DEF SignedIn, Exists, IsAccount
<1>3. user[o.by].role \in Roles BY <1>2 DEF IsAccount, Row
<1>4. Held(l, o, None) BY <1>1, <1>2 DEF Held, Managing
<1>5. l \in Steps BY DEF Steps
<1> HIDE DEF l
<1>6. QED BY <1>1, <1>3, <1>4, <1>5, QuietMove DEF redis

LEMMA WrittenRow ==
    ASSUME NEW r \in Requests, NEW row \in Row, op[r] \in Ask
    PROVE  Written(r, row) \in Row
<1>1. [row EXCEPT !.role = op[r].role] \in Row BY DEF Row, Ask
<1>2. [row EXCEPT !.active = FALSE] \in Row /\ [row EXCEPT !.active = TRUE] \in Row BY DEF Row
<1>3. \A a, b \in BOOLEAN : [row EXCEPT !.enrolled = a, !.mustChange = b] \in Row BY DEF Row
<1>4. [row EXCEPT !.enrolled = @ /\ ~snap[r].enrolled,
                  !.mustChange = @ \/ (snap[r].password /\ ~snap[r].mustChange)] \in Row
  BY <1>3
<1>5. QED BY <1>1, <1>2, <1>4 DEF Written

LEMMA LoadedRow ==
    ASSUME TypeInv, NEW r \in Requests, pc[r] = "target"
    PROVE  Loaded(r) \in Row
<1>1. user[op[r].target] \in Row /\ rank[r] \in Roles BY Locals DEF Held, IsAccount
<1>2. \A row \in Row : \A k \in Roles : [row EXCEPT !.active = TRUE, !.role = k] \in Row BY DEF Row
<1>3. QED BY <1>1, <1>2 DEF Loaded

LEMMA WriteType ==
    ASSUME TypeInv, NEW r \in Requests, WriteRow(r)
    PROVE  TypeInv'
<1> USE Locals
<1> DEFINE u == op[r].target
           row == Written(r, user[u])
<1>1. /\ pc[r] = "write" /\ UNCHANGED <<complete, redis, installers>> /\ Go(r, "done")
      /\ Change(r, u, row, "roles", {"count", "write"})
  BY DEF WriteRow, At
<1>2. u \in Accounts /\ user[u] \in Row BY <1>1 DEF Held, IsAccount
<1>3. row \in Row BY <1>2, WrittenRow
<1>4. user' = [user EXCEPT ![u] = row] /\ overran' \subseteq overran \cup {"roles"}
  BY <1>1 DEF Change
<1>5. stale' \subseteq Requests \X Steps
  <2>1. stale' \subseteq stale \cup {<<q, pc[q]>> : q \in {q \in Requests : pc[q] \in {"count", "write"}}}
    BY <1>1 DEF Change
  <2>2. QED BY <2>1 DEF TypeInv, StoreType, Steps
<1> HIDE DEF row
<1>6. Move(r, "done", op[r], rank[r], snap[r]) /\ UNCHANGED bound BY <1>1 DEF Go, Move
<1>7. StoreType'
  BY <1>1, <1>2, <1>3, <1>4, <1>5, <1>6 DEF TypeInv, StoreType, bound, redis
<1>8. \A q \in Accounts : user'[q] # None <=> user[q] # None BY <1>2, <1>3, <1>4
<1>9. Lasting /\ \A q \in Requests : user'[q] # None => user[q] # None
  BY <1>8 DEF Lasting, Accounts
<1>10. Held("done", op[r], snap[r]) BY DEF Held
<1>11. QED BY <1>1, <1>6, <1>7, <1>9, <1>10, MoveInv DEF Steps, Answers

LEMMA ManageType ==
    ASSUME TypeInv, NEW r \in Requests, Manage(r)
    PROVE  TypeInv'
<1> USE Locals
<1>1. ASSUME NEW by \in Existing, NEW n \in Names, NEW role \in Roles, NEW org \in Orgs,
             Call(r, [Nothing EXCEPT !.kind = "create", !.by = by, !.name = n, !.role = role,
                                     !.org = org])
      PROVE  TypeInv'
  <2> DEFINE o == [Nothing EXCEPT !.kind = "create", !.by = by, !.name = n, !.role = role, !.org = org]
  <2>1. by \in Accounts BY DEF Existing
  <2>2. o \in Ask /\ o.by = by /\ o.kind = "create" BY <2>1, NothingAsked DEF Ask, Kinds, Managing
  <2>3. Call(r, o) BY <1>1
  <2> HIDE DEF o
  <2>4. QED BY <2>1, <2>2, <2>3, CallType
<1>2. ASSUME NEW by \in Existing, NEW target \in Existing, NEW role \in Roles,
             Call(r, [Nothing EXCEPT !.kind = "role", !.by = by, !.target = target, !.role = role])
      PROVE  TypeInv'
  <2> DEFINE o == [Nothing EXCEPT !.kind = "role", !.by = by, !.target = target, !.role = role]
  <2>1. by \in Accounts /\ IsAccount(target) /\ target \in Accounts
    BY DEF Existing, Exists, IsAccount
  <2>2. o \in Ask /\ o.by = by /\ o.kind = "role" /\ o.target = target
    BY <2>1, NothingAsked DEF Ask, Kinds, Managing
  <2>3. Call(r, o) BY <1>2
  <2> HIDE DEF o
  <2>4. QED BY <2>1, <2>2, <2>3, CallType
<1>3. ASSUME NEW kind \in {"deactivate", "reactivate", "reset"}, NEW by \in Existing,
             NEW target \in Existing,
             Call(r, [Nothing EXCEPT !.kind = kind, !.by = by, !.target = target])
      PROVE  TypeInv'
  <2> DEFINE o == [Nothing EXCEPT !.kind = kind, !.by = by, !.target = target]
  <2>1. by \in Accounts /\ IsAccount(target) /\ target \in Accounts
    BY DEF Existing, Exists, IsAccount
  <2>2. o \in Ask /\ o.by = by /\ o.kind = kind /\ o.target = target
    BY <2>1, NothingAsked DEF Ask, Kinds, Managing
  <2>3. Call(r, o) BY <1>3
  <2> HIDE DEF o
  <2>4. QED BY <2>1, <2>2, <2>3, CallType
<1>4. CASE CheckName(r)
  <2>1. PICK l \in {"refused", "insert"} : Go(r, l) BY <1>4 DEF CheckName
  <2>2. Unwritten /\ pc[r] = "name" /\ UNCHANGED <<complete, redis>> BY <1>4 DEF CheckName, At
  <2>3. Held(l, op[r], snap[r]) BY <2>2 DEF Held
  <2>4. QED BY <2>1, <2>2, <2>3, GoType DEF Steps, Answers, redis
<1>5. CASE InsertAccount(r)
  <2>1. pc[r] = "insert" /\ Add(r, NewRow(r)) /\ UNCHANGED <<complete, redis>>
    BY <1>5 DEF InsertAccount, At
  <2>2. user[op[r].by] \in Row BY <2>1 DEF Held, IsAccount
  <2>3. NewOrg(r) \in Orgs BY <2>2 DEF NewOrg, Row, Ask
  <2>4. NewRow(r) \in Row BY <2>3 DEF NewRow, Row, Ask
  <2>5. QED BY <2>1, <2>4, AddType
<1>6. CASE LoadTarget(r)
  <2>0. pc[r] = "target" /\ UNCHANGED <<complete, redis>> /\ Unwritten BY <1>6 DEF LoadTarget, At
  <2>1. CASE ~May(r, Loaded(r))
    <3>1. Go(r, "refused") BY <1>6, <2>1 DEF LoadTarget
    <3>2. QED BY <2>0, <3>1, GoType DEF Held, Steps, Answers, redis
  <2>2. CASE May(r, Loaded(r))
    <3>1. PICK l \in {"count", "write"} : Move(r, l, op[r], rank[r], Loaded(r))
      BY <1>6, <2>2 DEF LoadTarget
    <3>2. Loaded(r) \in Row BY <2>0, LoadedRow
    <3>3. Held(l, op[r], Loaded(r)) BY <2>0, <3>2 DEF Held
    <3>4. QED BY <2>0, <3>1, <3>2, <3>3, QuietMove DEF Steps, redis
  <2>3. QED BY <2>1, <2>2
<1>7. CASE Count(r)
  <2>1. PICK l \in {"refused", "write"} : Go(r, l) BY <1>7 DEF Count
  <2>2. Unwritten /\ pc[r] = "count" /\ UNCHANGED <<complete, redis>> BY <1>7 DEF Count, At
  <2>3. Held(l, op[r], snap[r]) BY <2>2 DEF Held
  <2>4. QED BY <2>1, <2>2, <2>3, GoType DEF Steps, Answers, redis
<1>8. CASE WriteRow(r) BY <1>8, WriteType
<1>9. QED BY <1>1, <1>2, <1>3, <1>4, <1>5, <1>6, <1>7, <1>8 DEF Manage

LEMMA DirectoryType ==
    ASSUME TypeInv, NEW r \in Requests, Directory(r)
    PROVE  TypeInv'
<1> USE Locals
<1>1. ASSUME NEW n \in Names, LdapLogin(r, n) PROVE TypeInv'
  <2> DEFINE l == IF \E u \in Existing : user[u].ldap = n THEN "done" ELSE "taken"
             o == [Nothing EXCEPT !.kind = "ldap", !.name = n]
  <2>1. Move(r, l, o, "case_manager", None) /\ pc[r] = "idle"
        /\ UNCHANGED <<complete, redis>> /\ Unwritten
    BY <1>1 DEF LdapLogin, Start, Free, At
  <2>2. o \in Ask BY NothingAsked DEF Ask, Kinds
  <2>3. l \in {"done", "taken"} OBVIOUS
  <2>4. Held(l, o, None) /\ l \in Steps \cup Answers BY <2>3 DEF Held, Steps, Answers
  <2>5. "case_manager" \in Roles BY DEF Roles
  <2> HIDE DEF l, o
  <2>6. QED BY <2>1, <2>2, <2>4, <2>5, QuietMove DEF redis
<1>2. CASE LdapTaken(r)
  <2>1. PICK l \in {"refused", "provision"} : Go(r, l) BY <1>2 DEF LdapTaken
  <2>2. Unwritten /\ pc[r] = "taken" /\ UNCHANGED <<complete, redis>> BY <1>2 DEF LdapTaken, At
  <2>3. Held(l, op[r], snap[r]) BY <2>2 DEF Held
  <2>4. QED BY <2>1, <2>2, <2>3, GoType DEF Steps, Answers, redis
<1>3. CASE Provision(r)
  <2> DEFINE row == [name |-> op[r].name, role |-> "case_manager", active |-> TRUE,
                     enrolled |-> FALSE, mustChange |-> FALSE, password |-> FALSE,
                     ldap |-> op[r].name, sub |-> None, org |-> AnyOrg]
  <2>1. pc[r] = "provision" /\ Add(r, row) /\ UNCHANGED <<complete, redis>>
    BY <1>3 DEF Provision, At
  <2>2. row \in Row BY NothingAsked DEF Row, Ask, Roles
  <2> HIDE DEF row
  <2>3. QED BY <2>1, <2>2, AddType
<1>4. QED BY <1>1, <1>2, <1>3 DEF Directory

LEMMA SentType ==
    ASSUME TypeInv, NEW r \in Requests, pc[r] = "idle", NEW o \in Ask,
           Move(r, "sent", o, "case_manager", None), states' = states \cup {r},
           UNCHANGED <<complete, token, session>>, Unwritten
    PROVE  TypeInv'
<1>1. "case_manager" \in Roles /\ Held("sent", o, None) BY DEF Roles, Held
<1>2. QED BY <1>1, Locals, QuietMove DEF Answers

\* A handler writes one row that is there.
LEMMA EditType ==
    ASSUME TypeInv, NEW r \in Requests, NEW l \in Steps \cup Answers, Go(r, l), pc[r] \in Steps,
           NEW u \in Accounts, user[u] # None, NEW row \in Row, user' = [user EXCEPT ![u] = row],
           UNCHANGED <<complete, redis, installers, stale, overran>>,
           Held(l, op[r], snap[r]), pc[r] # "delete"
    PROVE  TypeInv'
<1> USE Locals
<1>1. Move(r, l, op[r], rank[r], snap[r]) /\ UNCHANGED bound BY DEF Go, Move
<1>2. \A q \in Accounts : user'[q] # None <=> user[q] # None OBVIOUS
<1>3. StoreType' BY <1>1 DEF TypeInv, StoreType, bound, redis
<1>4. Lasting /\ \A q \in Requests : user'[q] # None => user[q] # None
  BY <1>2 DEF Lasting, Accounts
<1>5. user'[r] = None BY <1>4 DEF TypeInv, MadeLast, Steps
<1>6. QED BY <1>1, <1>3, <1>4, <1>5, MoveInv

LEMMA SignOnType ==
    ASSUME TypeInv, NEW r \in Requests, SignOn(r)
    PROVE  TypeInv'
<1> USE Locals
<1>1. ASSUME NEW u \in Existing, StartLink(r, u) PROVE TypeInv'
  <2> DEFINE o == [Nothing EXCEPT !.kind = "link", !.by = u, !.session = session[u]]
  <2>1. u \in Accounts BY DEF Existing
  <2>2. o \in Ask BY <2>1, NothingAsked DEF Ask, Kinds
  <2>3. /\ pc[r] = "idle" /\ Move(r, "sent", o, "case_manager", None)
        /\ states' = states \cup {r} /\ UNCHANGED <<complete, token, session>> /\ Unwritten
    BY <1>1 DEF StartLink, Start, Free, At
  <2> HIDE DEF o
  <2>4. QED BY <2>2, <2>3, SentType
<1>2. CASE StartLogin(r)
  <2> DEFINE o == [Nothing EXCEPT !.kind = "login"]
  <2>1. o \in Ask BY NothingAsked DEF Ask, Kinds
  <2>2. /\ pc[r] = "idle" /\ Move(r, "sent", o, "case_manager", None)
        /\ states' = states \cup {r} /\ UNCHANGED <<complete, token, session>> /\ Unwritten
    BY <1>2 DEF StartLogin, Start, Free, At
  <2> HIDE DEF o
  <2>3. QED BY <2>1, <2>2, SentType
<1>3. ASSUME NEW u \in Existing, StartUnlink(r, u) PROVE TypeInv'
  <2> DEFINE l == IF user[u].sub = None THEN "done"
                  ELSE IF OtherWayIn(user[u]) THEN "unlink" ELSE "refused"
             o == [Nothing EXCEPT !.kind = "unlink", !.by = u]
  <2>1. u \in Accounts /\ user[u] \in Row BY DEF Existing, Exists
  <2>2. o \in Ask /\ o.by = u BY <2>1, NothingAsked DEF Ask, Kinds
  <2>3. /\ pc[r] = "idle" /\ Move(r, l, o, "case_manager", user[u])
        /\ UNCHANGED <<complete, redis>> /\ Unwritten
    BY <1>3 DEF StartUnlink, Free, At
  <2>4. l \in {"done", "unlink", "refused"} OBVIOUS
  <2>5. Held(l, o, user[u]) /\ l \in Steps \cup Answers
    BY <2>1, <2>2, <2>4 DEF Held, Steps, Answers, IsAccount
  <2>6. "case_manager" \in Roles BY DEF Roles
  <2> HIDE DEF l, o
  <2>7. QED BY <2>1, <2>2, <2>3, <2>5, <2>6, QuietMove DEF redis
<1>4. CASE Link(r)
  <2> DEFINE u == op[r].by
  <2>0. pc[r] = "link" /\ UNCHANGED <<complete, redis, installers, stale, overran>>
    BY <1>4 DEF Link, At
  <2>1. IsAccount(u) /\ user[u] \in Row /\ u \in Accounts BY <2>0 DEF Held, IsAccount
  <2>2. \/ Go(r, "refused") /\ UNCHANGED user
        \/ Go(r, "linked") /\ UNCHANGED user
        \/ Go(r, "linked") /\ user' = [user EXCEPT ![u].sub = op[r].who]
    BY <1>4 DEF Link
  <2>3. CASE UNCHANGED user
    <3>1. PICK l \in {"refused", "linked"} : Go(r, l) BY <2>2
    <3>2. Held(l, op[r], snap[r]) BY <2>1, <3>1 DEF Held
    <3>3. Unwritten BY <2>0, <2>3 DEF Unwritten
    <3>4. QED BY <2>0, <3>1, <3>2, <3>3, GoType DEF Steps, Answers, redis
  <2>4. CASE Go(r, "linked") /\ user' = [user EXCEPT ![u].sub = op[r].who]
    <3>1. [user[u] EXCEPT !.sub = op[r].who] \in Row BY <2>1 DEF Row, Ask
    <3>2. PICK row \in Row : user' = [user EXCEPT ![u] = row] BY <2>1, <2>4, <3>1
    <3>3. Held("linked", op[r], snap[r]) BY <2>1 DEF Held
    <3>4. user[u] # None BY <2>1 DEF IsAccount
    <3> HIDE DEF u
    <3>5. QED BY <2>0, <2>1, <2>4, <3>2, <3>3, <3>4, EditType DEF Steps, Answers
  <2>5. QED BY <2>2, <2>3, <2>4
<1>5. CASE Unlink(r)
  <2> DEFINE u == op[r].by
  <2>0. /\ pc[r] = "unlink" /\ UNCHANGED <<complete, redis, installers, stale, overran>>
        /\ user' = [user EXCEPT ![u].sub = None] /\ Go(r, "done")
    BY <1>5 DEF Unlink, At
  <2>1. IsAccount(u) /\ user[u] \in Row /\ u \in Accounts BY <2>0 DEF Held, IsAccount
  <2>2. [user[u] EXCEPT !.sub = None] \in Row BY <2>1 DEF Row
  <2>3. PICK row \in Row : user' = [user EXCEPT ![u] = row] BY <2>0, <2>1, <2>2
  <2>4. Held("done", op[r], snap[r]) BY DEF Held
  <2>5. user[u] # None BY <2>1 DEF IsAccount
  <2> HIDE DEF u
  <2>6. QED BY <2>0, <2>1, <2>3, <2>4, <2>5, EditType DEF Steps, Answers
<1>6. ASSUME NEW c \in Requests, NEW u \in Existing \cup {None}, NEW d \in Requests \cup {None},
             NEW i \in Identities, Callback(r, c, u, d, i)
      PROVE  TypeInv'
  <2> DEFINE o == [Nothing EXCEPT !.kind = "callback", !.by = u, !.target = c, !.key = d,
                                  !.who = i, !.session = IF u = None THEN 0 ELSE session[u]]
             s == IF u = None THEN None ELSE user[u]
  <2>1. /\ pc[c] = "sent" /\ pc[r] = "idle" /\ Move(r, "exchange", o, "case_manager", s)
        /\ op[c].kind = "link" => u # None
        /\ UNCHANGED <<complete, redis>> /\ Unwritten
    BY <1>6 DEF Callback, Free, At
  <2>2. u # None => u \in Accounts /\ user[u] \in Row /\ user[u] # None
    BY DEF Existing, Exists
  <2>3. c \in Accounts BY DEF Accounts
  <2>4. (IF u = None THEN 0 ELSE session[u]) \in Nat BY <2>2
  <2>5. o \in Ask /\ o.by = u /\ o.target = c /\ o.key = d
    <3>1. PICK n \in Nat : n = IF u = None THEN 0 ELSE session[u] BY <2>4
    <3>2. o = [Nothing EXCEPT !.kind = "callback", !.by = u, !.target = c, !.key = d, !.who = i,
                              !.session = n]
      BY <3>1
    <3> HIDE DEF o
    <3>3. u \in Accounts \cup {None} BY <2>2
    <3>4. QED BY <2>3, <3>2, <3>3, NothingAsked DEF Ask, Kinds
  <2>6. s \in Row \cup {None} /\ (u # None => s \in Row) BY <2>2
  <2> HIDE DEF o, s
  <2>7. Held("exchange", o, s) BY <2>1, <2>2, <2>5, <2>6 DEF Held, IsAccount
  <2>8. "case_manager" \in Roles BY DEF Roles
  <2>9. QED BY <2>1, <2>5, <2>6, <2>7, <2>8, QuietMove DEF Steps, redis
<1>7. ASSUME NEW ok \in BOOLEAN, Exchange(r, ok) PROVE TypeInv'
  <2>1. /\ pc[r] = "exchange" /\ states' = states \ {op[r].target} /\ Unwritten
        /\ UNCHANGED <<complete, token, session>>
    BY <1>7 DEF Exchange, At
  <2>2. PICK l \in {"refused", "link", "second"} :
            Go(r, l) /\ (l = "link" => op[op[r].target].kind = "link")
    BY <1>7 DEF Exchange
  <2>3. Held(l, op[r], snap[r]) BY <2>1, <2>2 DEF Held
  <2>4. QED BY <2>1, <2>2, <2>3, GoType DEF Steps, Answers
<1>8. QED BY <1>1, <1>2, <1>3, <1>4, <1>5, <1>6, <1>7 DEF SignOn

\* What a holder or the host changes of a row keeps its name, its tier and its link.
Touched(u) ==
    /\ user' = [user EXCEPT ![u] = [user[u] EXCEPT !.enrolled = user'[u].enrolled,
                      !.mustChange = user'[u].mustChange, !.password = user'[u].password]]
    /\ user'[u] \in Row

LEMMA HolderStep ==
    ASSUME TypeInv, NEW u \in Existing, Holder(u)
    PROVE  /\ TypeInv'
           /\ UNCHANGED <<complete, token, states, pc, op, rank, snap, mix, installers, stale, overran>>
           /\ UNCHANGED user \/ Touched(u)
<1>0. /\ u \in Accounts /\ user[u] \in Row /\ user[u] # None /\ None \notin Row
      /\ user \in [Accounts -> Row \cup {None}] /\ session \in [Accounts -> Nat]
  BY AccountsAssumption DEF TypeInv, StoreType, Existing, Exists
<1>1. /\ UNCHANGED <<complete, token, states, pc, op, rank, snap, mix, installers, stale, overran>>
      /\ turns < MaxTurns[mix] /\ turns' = turns + 1
  BY DEF Holder, NewSession, Enrol, ReplacePassword, HostPassword, HostTotp, Update, Turn
<1>2. session' \in [Accounts -> Nat]
  BY <1>0 DEF Holder, NewSession, Enrol, ReplacePassword, HostPassword, HostTotp, Update
<1>3. UNCHANGED user \/ Touched(u)
  <2>1. ASSUME NEW row \in {[user[u] EXCEPT !.enrolled = TRUE], [user[u] EXCEPT !.mustChange = FALSE],
                            [user[u] EXCEPT !.password = TRUE, !.mustChange = TRUE]},
               user' = [user EXCEPT ![u] = row]
        PROVE  Touched(u)
    <3>1. row \in Row BY <1>0 DEF Row
    <3>2. user'[u] = row BY <1>0, <2>1
    <3>3. row = [user[u] EXCEPT !.enrolled = row.enrolled, !.mustChange = row.mustChange,
                                !.password = row.password]
      BY <1>0 DEF Row
    <3>4. QED BY <2>1, <3>1, <3>2, <3>3 DEF Touched
  <2>2. QED BY <2>1 DEF Holder, NewSession, Enrol, ReplacePassword, HostPassword, HostTotp, Update
<1>4. user' \in [Accounts -> Row \cup {None}]
      /\ \A q \in Accounts : user'[q] # None <=> user[q] # None
  <2>1. CASE UNCHANGED user BY <1>0, <2>1
  <2>2. CASE Touched(u)
    <3>1. PICK row : user' = [user EXCEPT ![u] = row] BY <2>2 DEF Touched
    <3>2. row \in Row BY <1>0, <2>2, <3>1 DEF Touched
    <3>3. QED BY <1>0, <3>1, <3>2
  <2>3. QED BY <1>3, <2>1, <2>2
<1>5. turns' \in 0..MaxTurns[mix]
  <2>1. MaxTurns[mix] \in Nat /\ turns \in Nat BY AccountsAssumption DEF TypeInv, StoreType
  <2>2. QED BY <1>1, <2>1
<1>6. StoreType' BY <1>1, <1>2, <1>4, <1>5 DEF TypeInv, StoreType
<1>7. HandlerType' BY <1>1 DEF TypeInv, HandlerType
<1>8. MadeLast' BY <1>1, <1>4 DEF TypeInv, MadeLast, Accounts
<1>9. \A r \in Requests : Held(pc[r], op[r], snap[r])' BY <1>1, <1>4 DEF TypeInv, Held, IsAccount
<1>10. QED BY <1>1, <1>3, <1>6, <1>7, <1>8, <1>9 DEF TypeInv

LEMMA TypeStep ==
    ASSUME TypeInv, [Next]_vars
    PROVE  TypeInv'
<1>1. CASE UNCHANGED vars
  BY <1>1 DEF vars, redis, bound, TypeInv, StoreType, HandlerType, MadeLast, Held, IsAccount
<1>2. ASSUME NEW r \in Requests, Setup(r) \/ Manage(r) \/ Directory(r) \/ SignOn(r) PROVE TypeInv'
  BY <1>2, SetupType, ManageType, DirectoryType, SignOnType
<1>3. ASSUME NEW u \in Existing, Holder(u) PROVE TypeInv' BY <1>3, HolderStep
<1>4. QED BY <1>1, <1>2, <1>3 DEF Next

LEMMA TypeInvHolds == Spec => []TypeInv
<1>1. Init => TypeInv BY InitTypeInv
<1>2. TypeInv /\ [Next]_vars => TypeInv' BY TypeStep
<1>3. QED BY <1>1, <1>2, PTL DEF Spec

\* Rows, states, sessions and what every request has loaded keep their types, for
\* any accounts, names, organisations and mixes of requests.
THEOREM AccountsTypeCorrect == Spec => []TypeOK
<1>1. TypeInv => TypeOK BY DEF TypeInv, StoreType, HandlerType, TypeOK
<1>2. QED BY <1>1, TypeInvHolds, PTL

\* What a write changes of the row.
LEMMA WrittenFields ==
    ASSUME NEW r \in Requests, NEW row \in Row
    PROVE  LET w == Written(r, row) IN
           /\ w.name = row.name /\ w.sub = row.sub
           /\ w.role = IF op[r].kind = "role" /\ snap[r].role # op[r].role THEN op[r].role ELSE row.role
           /\ w.active = IF op[r].kind = "deactivate" /\ snap[r].active THEN FALSE
                         ELSE IF op[r].kind = "reactivate" /\ ~snap[r].active THEN TRUE ELSE row.active
<1>1. CASE op[r].kind = "role" BY <1>1 DEF Written, Row
<1>2. CASE op[r].kind = "deactivate" BY <1>2 DEF Written, Row
<1>3. CASE op[r].kind = "reactivate" BY <1>3 DEF Written, Row
<1>4. CASE op[r].kind \notin {"role", "deactivate", "reactivate"} BY <1>4 DEF Written, Row
<1>5. QED BY <1>1, <1>2, <1>3, <1>4

\* What every step of a request leaves alone.
Others(r) ==
    \A q \in Requests : q # r =>
        pc'[q] = pc[q] /\ op'[q] = op[q] /\ rank'[q] = rank[q] /\ snap'[q] = snap[q]

LEMMA OneActs ==
    ASSUME TypeInv, NEW r \in Requests, Setup(r) \/ Manage(r) \/ Directory(r) \/ SignOn(r)
    PROVE  Others(r)
<1>1. ASSUME NEW l, NEW o, NEW k, NEW s, Move(r, l, o, k, s) PROVE Others(r)
  BY <1>1, MoveFrame DEF TypeInv, Others
<1>2. ASSUME NEW l, Go(r, l) PROVE Others(r) BY <1>1, <1>2 DEF Go
<1>3. CASE Setup(r)
  BY <1>1, <1>2, <1>3 DEF Setup, OpenSetup, EnsureToken, CreateInitial, PostSetup, CheckToken, DeleteToken,
     Start
<1>4. CASE Manage(r)
  <2>1. ASSUME NEW o, Call(r, o) PROVE Others(r) BY <1>1, <2>1 DEF Call, Start
  <2>2. CASE CheckName(r) \/ Count(r) \/ WriteRow(r) BY <1>2, <2>2 DEF CheckName, Count, WriteRow
  <2>3. CASE InsertAccount(r) BY <1>2, <2>3 DEF InsertAccount, Add
  <2>4. CASE LoadTarget(r) BY <1>1, <1>2, <2>4 DEF LoadTarget
  <2>5. QED BY <1>4, <2>1, <2>2, <2>3, <2>4 DEF Manage
<1>5. CASE Directory(r)
  BY <1>1, <1>2, <1>5 DEF Directory, LdapLogin, LdapTaken, Provision, Add, Start
<1>6. CASE SignOn(r)
  <2>1. ASSUME NEW u, StartLink(r, u) \/ StartUnlink(r, u) PROVE Others(r)
    BY <1>1, <2>1 DEF StartLink, StartUnlink, Start
  <2>2. CASE StartLogin(r) BY <1>1, <2>2 DEF StartLogin, Start
  <2>3. CASE Link(r) \/ Unlink(r) BY <1>2, <2>3 DEF Link, Unlink
  <2>4. ASSUME NEW s, NEW u, NEW c, NEW i, Callback(r, s, u, c, i) PROVE Others(r)
    BY <1>1, <2>4 DEF Callback
  <2>5. ASSUME NEW ok, Exchange(r, ok) PROVE Others(r) BY <1>2, <2>5 DEF Exchange
  <2>6. QED BY <1>6, <2>1, <2>2, <2>3, <2>4, <2>5 DEF SignOn
<1>7. QED BY <1>3, <1>4, <1>5, <1>6

\* An account is made: by the wizard, on the accounts page or by a directory login.
Makes(r, row) ==
    /\ user[r] = None /\ user' = [user EXCEPT ![r] = row] /\ row \in Row /\ row.sub = None

\* A change or a link of a row that is there.
LinksRow(r) ==
    /\ Link(r) \/ Unlink(r)
    /\ pc[r] \in {"link", "unlink"} /\ pc'[r] \in {"linked", "done"}
    /\ \E u \in Existing, i \in Identities \cup {None} : user' = [user EXCEPT ![u].sub = i]
    /\ UNCHANGED <<complete, redis, installers, stale, overran>>

\* Every step of a request, by what it does to the rows.
LEMMA RowsStep ==
    ASSUME TypeInv, NEW r \in Requests, Setup(r) \/ Manage(r) \/ Directory(r) \/ SignOn(r)
    PROVE  \/ Unwritten /\ UNCHANGED complete
           \/ /\ CreateInitial(r) /\ Makes(r, Initial(op[r].name)) /\ ~complete /\ complete'
              /\ installers' = installers \cup {r} /\ UNCHANGED <<stale, overran>>
              /\ pc'[r] = "delete"
           \/ /\ pc[r] \in {"insert", "provision"} /\ pc'[r] = "done"
              /\ UNCHANGED <<complete, installers>>
              /\ \E row \in Row :
                    /\ Makes(r, row) /\ row.name = op[r].name
                    /\ row.role = IF pc[r] = "insert" THEN op[r].role ELSE "case_manager"
                    /\ Change(r, r, row, "names", {"insert", "provision"})
           \/ WriteRow(r) /\ pc'[r] = "done" /\ UNCHANGED complete
           \/ LinksRow(r)
<1> DEFINE Goal ==
           \/ Unwritten /\ UNCHANGED complete
           \/ /\ CreateInitial(r) /\ Makes(r, Initial(op[r].name)) /\ ~complete /\ complete'
              /\ installers' = installers \cup {r} /\ UNCHANGED <<stale, overran>>
              /\ pc'[r] = "delete"
           \/ /\ pc[r] \in {"insert", "provision"} /\ pc'[r] = "done"
              /\ UNCHANGED <<complete, installers>>
              /\ \E row \in Row :
                    /\ Makes(r, row) /\ row.name = op[r].name
                    /\ row.role = IF pc[r] = "insert" THEN op[r].role ELSE "case_manager"
                    /\ Change(r, r, row, "names", {"insert", "provision"})
           \/ WriteRow(r) /\ pc'[r] = "done" /\ UNCHANGED complete
           \/ LinksRow(r)
<1> USE Locals
<1>0. ASSUME NEW l, Go(r, l) PROVE pc'[r] = l BY <1>0, MoveFrame DEF Go, TypeInv
<1>1. user[r] = None \/ pc[r] \in {"delete", "done"} BY DEF TypeInv, MadeLast
<1>2. CASE CreateInitial(r)
  <2>1. CASE complete \/ NameUsed(op[r].name) BY <1>2, <2>1 DEF CreateInitial
  <2>2. CASE ~(complete \/ NameUsed(op[r].name))
    <3>1. Initial(op[r].name) \in Row BY NothingAsked DEF Initial, Row, Ask, Roles
    <3>2. pc[r] = "create" /\ Go(r, "delete") BY <1>2, <2>2 DEF CreateInitial, At
    <3>3. QED BY <1>0, <1>1, <1>2, <2>2, <3>1, <3>2 DEF CreateInitial, Insert, Makes, Initial
  <2>3. QED BY <2>1, <2>2
<1>3. ASSUME NEW row \in Row, Add(r, row), pc[r] \in {"insert", "provision"}, UNCHANGED <<complete, redis>>,
             row.name = op[r].name, row.sub = None,
             row.role = IF pc[r] = "insert" THEN op[r].role ELSE "case_manager"
      PROVE  Goal
  <2>1. CASE Go(r, "refused") /\ Unwritten BY <1>3, <2>1
  <2>2. CASE Change(r, r, row, "names", {"insert", "provision"}) /\ Go(r, "done") /\ UNCHANGED installers
    <3>1. pc'[r] = "done" BY <1>0, <2>2
    <3>2. Makes(r, row) BY <1>1, <1>3, <2>2 DEF Makes, Change
    <3>3. QED BY <1>3, <2>2, <3>1, <3>2
  <2>3. QED BY <1>3, <2>1, <2>2 DEF Add
<1>4. CASE InsertAccount(r)
  <2>1. pc[r] = "insert" /\ Add(r, NewRow(r)) /\ UNCHANGED <<complete, redis>>
    BY <1>4 DEF InsertAccount, At
  <2>2. user[op[r].by] \in Row BY <2>1 DEF Held, IsAccount
  <2>3. NewOrg(r) \in Orgs BY <2>2 DEF NewOrg, Row, Ask
  <2>4. NewRow(r) \in Row BY <2>3 DEF NewRow, Row, Ask
  <2>5. NewRow(r).name = op[r].name /\ NewRow(r).sub = None /\ NewRow(r).role = op[r].role
    BY DEF NewRow
  <2>6. QED BY <1>3, <2>1, <2>4, <2>5
<1>5. CASE Provision(r)
  <2> DEFINE row == [name |-> op[r].name, role |-> "case_manager", active |-> TRUE,
                     enrolled |-> FALSE, mustChange |-> FALSE, password |-> FALSE,
                     ldap |-> op[r].name, sub |-> None, org |-> AnyOrg]
  <2>1. pc[r] = "provision" /\ Add(r, row) /\ UNCHANGED <<complete, redis>>
    BY <1>5 DEF Provision, At
  <2>2. row \in Row BY NothingAsked DEF Row, Ask, Roles
  <2>3. row.name = op[r].name /\ row.sub = None /\ row.role = "case_manager" OBVIOUS
  <2> HIDE DEF row
  <2>4. QED BY <1>3, <2>1, <2>2, <2>3
<1>6. CASE WriteRow(r) BY <1>0, <1>6 DEF WriteRow
<1>7. CASE Link(r) \/ Unlink(r)
  <2>1. /\ pc[r] \in {"link", "unlink"} /\ UNCHANGED <<complete, redis, installers, stale, overran>>
    BY <1>7 DEF Link, Unlink, At
  <2>2. op[r].by \in Existing BY <2>1 DEF Held, IsAccount, Existing, Exists
  <2>3. CASE UNCHANGED user BY <2>1, <2>3 DEF Unwritten
  <2>4. CASE ~UNCHANGED user
    <3>1. \E i \in {op[r].who, None} : user' = [user EXCEPT ![op[r].by].sub = i]
      BY <1>7, <2>4 DEF Link, Unlink
    <3>2. op[r].who \in Identities \cup {None} BY DEF Ask
    <3>3. Go(r, "linked") \/ Go(r, "done") BY <1>7, <2>4 DEF Link, Unlink
    <3>4. QED BY <1>0, <1>7, <2>1, <2>2, <3>1, <3>2, <3>3 DEF LinksRow
  <2>5. QED BY <2>3, <2>4
<1>8. CASE Setup(r)
  BY <1>2, <1>8 DEF Setup, OpenSetup, EnsureToken, PostSetup, CheckToken, DeleteToken
<1>9. CASE Manage(r) \/ Directory(r)
  <2>1. ASSUME NEW o, Call(r, o) PROVE Unwritten /\ UNCHANGED complete BY <2>1 DEF Call
  <2>2. CASE CheckName(r) \/ LoadTarget(r) \/ Count(r)
    BY <2>2 DEF CheckName, LoadTarget, Count
  <2>3. CASE Directory(r) BY <1>5, <2>3 DEF Directory, LdapLogin, LdapTaken
  <2>4. CASE Manage(r) BY <1>4, <1>6, <2>1, <2>2, <2>4 DEF Manage
  <2>5. QED BY <1>9, <2>3, <2>4
<1>10. CASE SignOn(r)
  BY <1>7, <1>10 DEF SignOn, StartLink, StartUnlink, StartLogin, Callback, Exchange
<1>11. QED BY <1>8, <1>9, <1>10

\* How a request gets to the steps that the invariants speak of.
Gets(r) ==
    /\ pc[r] \in {"idle"} \cup Steps
    /\ states' \subseteq states \cup {r}
    /\ pc'[r] = "insert" =>
          /\ Go(r, "insert") /\ ~NameTaken(op[r].name)
          /\ op[r].role = "superadmin" => rank[r] = "superadmin"
    /\ pc'[r] = "provision" => Go(r, "provision") /\ ~NameTaken(op[r].name)
    /\ pc'[r] = "count" =>
          /\ pc[r] = "target" /\ Move(r, "count", op[r], rank[r], Loaded(r))
          /\ May(r, Loaded(r)) /\ Lessens(r, Loaded(r))
    /\ pc'[r] = "write" =>
          \/ /\ pc[r] = "target" /\ Move(r, "write", op[r], rank[r], Loaded(r))
             /\ May(r, Loaded(r)) /\ ~Lessens(r, Loaded(r))
          \/ pc[r] = "count" /\ Go(r, "write") /\ Enough
    /\ pc'[r] \in {"link", "second"} =>
          /\ pc[r] = "exchange" /\ Go(r, pc'[r])
          /\ op[r].target \in states /\ states' = states \ {op[r].target} /\ Bound(r, op[r].target)
          /\ pc'[r] = "link" <=> op[op[r].target].kind = "link"
    /\ pc'[r] = "linked" => Link(r) /\ Go(r, "linked")

LEMMA GetsTo ==
    ASSUME TypeInv, NEW r \in Requests, Setup(r) \/ Manage(r) \/ Directory(r) \/ SignOn(r)
    PROVE  Gets(r)
<1> DEFINE Plain == pc[r] \in {"idle"} \cup Steps
                    /\ pc'[r] \notin {"insert", "provision", "count", "write", "link", "second", "linked"}
                    /\ states' \subseteq states \cup {r}
<1>0. ASSUME NEW l, NEW o, NEW k, NEW s, Move(r, l, o, k, s) PROVE pc'[r] = l
  BY <1>0, MoveFrame DEF TypeInv
<1>1. ASSUME NEW l, Go(r, l) PROVE pc'[r] = l BY <1>0, <1>1 DEF Go
<1>2. Plain => Gets(r) BY DEF Gets
<1>3. pc \in [Requests -> {"idle"} \cup Steps \cup Answers] BY DEF TypeInv, HandlerType
<1>4. CASE Setup(r)
  <2>1. ASSUME NEW n, NEW supplied, PostSetup(r, n, supplied) PROVE Plain
    BY <1>3, <2>1 DEF PostSetup, Start, Free, At, Move, redis
  <2>2. CASE OpenSetup(r) BY <1>2, <1>3, <2>2 DEF OpenSetup, Start, Free, At, Move, redis
  <2>3. CASE EnsureToken(r) BY <1>2, <1>1, <2>3 DEF EnsureToken, At, Steps, redis
  <2>4. CASE CreateInitial(r) BY <1>2, <1>1, <2>4 DEF CreateInitial, At, Steps, redis
  <2>5. ASSUME NEW b, CheckToken(r, b) PROVE Gets(r)
    BY <1>1, <2>5 DEF CheckToken, At, Steps, Gets, redis
  <2>6. ASSUME NEW b, DeleteToken(r, b) PROVE Plain BY <1>1, <2>6 DEF DeleteToken, At, Steps, redis
  <2>7. QED BY <1>2, <1>4, <2>1, <2>2, <2>3, <2>4, <2>5, <2>6 DEF Setup
<1>5. CASE InsertAccount(r) \/ Provision(r)
  BY <1>1, <1>5 DEF InsertAccount, Provision, Add, At, Steps, Gets, redis
<1>6. CASE Manage(r)
  <2>1. ASSUME NEW o, Call(r, o) PROVE Plain
    BY <1>3, <2>1 DEF Call, Start, Free, At, Move, redis
  <2>2. CASE CheckName(r) BY <1>1, <2>2 DEF CheckName, At, Steps, Gets, redis
  <2>3. CASE LoadTarget(r)
    <3>1. CASE ~May(r, Loaded(r)) BY <1>1, <2>3, <3>1 DEF LoadTarget, At, Steps, Gets, redis
    <3>2. CASE May(r, Loaded(r)) /\ Lessens(r, Loaded(r))
      BY <1>0, <2>3, <3>2 DEF LoadTarget, At, Steps, Gets, redis
    <3>3. CASE May(r, Loaded(r)) /\ ~Lessens(r, Loaded(r))
      BY <1>0, <2>3, <3>3 DEF LoadTarget, At, Steps, Gets, redis
    <3>4. QED BY <3>1, <3>2, <3>3
  <2>4. CASE Count(r) BY <1>1, <2>4 DEF Count, At, Steps, Gets, redis
  <2>5. CASE WriteRow(r) BY <1>1, <2>5 DEF WriteRow, At, Steps, Gets, redis
  <2>6. QED BY <1>2, <1>5, <1>6, <2>1, <2>2, <2>3, <2>4, <2>5 DEF Manage
<1>7. CASE Directory(r)
  <2>1. ASSUME NEW n, LdapLogin(r, n) PROVE Plain BY <1>3, <2>1 DEF LdapLogin, Start, Free, At, Move, redis
  <2>2. CASE LdapTaken(r) BY <1>1, <2>2 DEF LdapTaken, At, Steps, Gets, redis
  <2>3. QED BY <1>2, <1>5, <1>7, <2>1, <2>2 DEF Directory
<1>8. CASE SignOn(r)
  <2>1. ASSUME NEW u, StartLink(r, u) PROVE Plain BY <1>3, <2>1 DEF StartLink, Start, Free, At, Move
  <2>2. ASSUME NEW u, StartUnlink(r, u) PROVE Plain BY <1>3, <2>2 DEF StartUnlink, Free, At, Move, redis
  <2>3. CASE StartLogin(r) BY <1>2, <1>3, <2>3 DEF StartLogin, Start, Free, At, Move
  <2>4. CASE Link(r) BY <1>1, <2>4 DEF Link, At, Steps, Gets, redis
  <2>5. CASE Unlink(r) BY <1>2, <1>1, <2>5 DEF Unlink, At, Steps, redis
  <2>6. ASSUME NEW s, NEW u, NEW c, NEW i, Callback(r, s, u, c, i) PROVE Plain
    BY <1>0, <2>6 DEF Callback, Free, At, redis
  <2>7. ASSUME NEW ok, Exchange(r, ok) PROVE Gets(r)
    <3>1. pc[r] = "exchange" /\ states' = states \ {op[r].target} BY <2>7 DEF Exchange, At
    <3>2. PICK l \in {"refused", "link", "second"} :
            /\ Go(r, l)
            /\ l # "refused" => op[r].target \in states /\ Bound(r, op[r].target)
            /\ l # "refused" => (l = "link" <=> op[op[r].target].kind = "link")
      BY <2>7 DEF Exchange
    <3>3. pc'[r] = l BY <1>1, <3>2
    <3>4. QED BY <3>1, <3>2, <3>3 DEF Gets, Steps
  <2>8. QED BY <1>2, <1>8, <2>1, <2>2, <2>3, <2>4, <2>6, <2>7, <2>5 DEF SignOn
<1>9. QED BY <1>4, <1>6, <1>7, <1>8
----------------------------------------------------------------------------
(* Names: one account by the wizard, and no two that differ in case only *)

\* Whoever is about to add an account, and was not overtaken, adds a new name.
NewName(r, l) ==
    l \in {"insert", "provision"} /\ <<r, l>> \notin stale =>
        \A u \in Existing \ installers : Lower[user[u].name] # Lower[op[r].name]

NameInv ==
    /\ ~complete => installers = {}
    /\ \A r, q \in installers : r = q
    /\ NamesDistinct
    /\ \A r \in Requests : NewName(r, pc[r])

\* The names stay, and who is about to add one is as before or has just looked.
LEMMA NameQuiet ==
    ASSUME NameInv, Existing' = Existing, \A u \in Existing : user'[u].name = user[u].name,
           UNCHANGED <<complete, installers>>, overran \subseteq overran',
           \A q \in Requests : pc'[q] \in {"insert", "provision"} /\ <<q, pc'[q]>> \notin stale' =>
              \/ pc'[q] = pc[q] /\ op'[q] = op[q] /\ <<q, pc[q]>> \notin stale
              \/ \A u \in Existing : Lower[user[u].name] # Lower[op'[q].name]
    PROVE  NameInv'
<1>1. NamesDistinct' BY DEF NameInv, NamesDistinct
<1>2. ASSUME NEW q \in Requests PROVE NewName(q, pc[q])' BY DEF NameInv, NewName
<1>3. QED BY <1>1, <1>2 DEF NameInv

LEMMA NameUnwritten ==
    ASSUME TypeInv, NameInv, NEW r \in Requests, Others(r), Gets(r), Unwritten, UNCHANGED complete
    PROVE  NameInv'
<1>1. UNCHANGED <<user, installers, stale, overran>> /\ Existing' = Existing
  BY DEF Unwritten, Existing, Exists
<1>2. \A l, o, k, s : Move(r, l, o, k, s) /\ l \notin {"refused", "done"} => op'[r] = o
  BY MoveFrame DEF TypeInv
<1>3. pc'[r] \in {"insert", "provision"} =>
          op'[r] = op[r] /\ \A u \in Existing : Lower[user[u].name] # Lower[op[r].name]
  BY <1>2 DEF Gets, Go, NameTaken
<1>4. \A q \in Requests : pc'[q] \in {"insert", "provision"} /\ <<q, pc'[q]>> \notin stale' =>
              \/ pc'[q] = pc[q] /\ op'[q] = op[q] /\ <<q, pc[q]>> \notin stale
              \/ \A u \in Existing : Lower[user[u].name] # Lower[op'[q].name]
  BY <1>1, <1>3 DEF Others
<1>5. QED BY <1>1, <1>4, NameQuiet

\* A row that is there is changed, its name not.
LEMMA NameChanged ==
    ASSUME TypeInv, NameInv, NEW u \in Existing, NEW row \in Row, user' = [user EXCEPT ![u] = row],
           row.name = user[u].name,
           UNCHANGED <<complete, installers>>, overran \subseteq overran',
           \A q \in Requests : pc'[q] \in {"insert", "provision"} /\ <<q, pc'[q]>> \notin stale' =>
              pc'[q] = pc[q] /\ op'[q] = op[q] /\ <<q, pc[q]>> \notin stale
    PROVE  NameInv'
<1>1. user \in [Accounts -> Row \cup {None}] /\ None \notin Row
  BY AccountsAssumption DEF TypeInv, StoreType
<1>2. Existing' = Existing BY <1>1 DEF Existing, Exists
<1>3. \A v \in Existing : user'[v].name = user[v].name BY <1>1 DEF Existing
<1>4. QED BY <1>2, <1>3, NameQuiet

LEMMA NameMade ==
    ASSUME TypeInv, NEW r \in Requests, Others(r), NEW row \in Row, Makes(r, row)
    PROVE  /\ Existing' = Existing \cup {r} /\ r \notin Existing
           /\ user'[r] = row /\ \A u \in Existing : user'[u] = user[u]
<1>1. user \in [Accounts -> Row \cup {None}] /\ None \notin Row /\ r \in Accounts
  BY AccountsAssumption DEF TypeInv, StoreType, Accounts
<1>2. QED BY <1>1 DEF Makes, Existing, Exists

LEMMA NameStep ==
    ASSUME TypeInv, NameInv, [Next]_vars
    PROVE  NameInv'
<1>1. CASE UNCHANGED vars
  <2>1. Existing' = Existing BY <1>1 DEF vars, Existing, Exists
  <2>2. QED BY <1>1, <2>1, NameQuiet DEF vars
<1>2. ASSUME NEW r \in Requests, Setup(r) \/ Manage(r) \/ Directory(r) \/ SignOn(r) PROVE NameInv'
  <2>0. Others(r) /\ Gets(r) BY <1>2, OneActs, GetsTo
  <2>1. CASE Unwritten /\ UNCHANGED complete BY <2>0, <2>1, NameUnwritten
  <2>2. ASSUME NEW row \in Row, Makes(r, row), ~complete, complete', installers' = installers \cup {r},
               UNCHANGED <<stale, overran>>, pc'[r] = "delete"
        PROVE  NameInv'
    <3>1. /\ Existing' = Existing \cup {r} /\ r \notin Existing
          /\ user'[r] = row /\ \A u \in Existing : user'[u] = user[u]
      BY <2>0, <2>2, NameMade
    <3>2. installers = {} /\ installers' = {r} BY <2>2 DEF NameInv
    <3>3. Existing' \ installers' = Existing /\ Existing \ installers = Existing BY <3>1, <3>2
    <3>4. NamesDistinct' BY <2>2, <3>1, <3>3 DEF NameInv, NamesDistinct
    <3>5. ASSUME NEW q \in Requests PROVE NewName(q, pc[q])'
      BY <2>0, <2>2, <3>1, <3>3 DEF NameInv, NewName, Others
    <3>6. QED BY <2>2, <3>2, <3>4, <3>5 DEF NameInv
  <2>3. ASSUME pc[r] \in {"insert", "provision"}, pc'[r] = "done", UNCHANGED <<complete, installers>>,
               NEW row \in Row, Makes(r, row), row.name = op[r].name,
               Change(r, r, row, "names", {"insert", "provision"})
        PROVE  NameInv'
    <3>1. /\ Existing' = Existing \cup {r} /\ r \notin Existing
          /\ user'[r] = row /\ \A u \in Existing : user'[u] = user[u]
      BY <2>0, <2>3, NameMade
    <3>2. overran \subseteq overran' /\ (<<r, pc[r]>> \in stale => "names" \in overran')
      BY <2>3 DEF Change
    <3>3. <<r, pc[r]>> \in stale
          \/ \A u \in Existing \ installers : Lower[user[u].name] # Lower[row.name]
      BY <2>3 DEF NameInv, NewName
    <3>4. NamesDistinct' BY <2>3, <3>1, <3>2, <3>3 DEF NameInv, NamesDistinct
    <3>5. ASSUME NEW q \in Requests PROVE NewName(q, pc[q])'
      <4>1. CASE q = r BY <2>3, <4>1 DEF NewName
      <4>2. CASE q # r /\ pc[q] \in {"insert", "provision"}
        <5>1. row # user[r] BY <2>3, AccountsAssumption DEF Makes
        <5>2. <<q, pc[q]>> \in stale' BY <2>3, <4>2, <5>1 DEF Change
        <5>3. QED BY <2>0, <4>2, <5>2 DEF NewName, Others
      <4>3. CASE q # r /\ pc[q] \notin {"insert", "provision"}
        BY <2>0, <4>3 DEF NewName, Others
      <4>4. QED BY <4>1, <4>2, <4>3
    <3>6. QED BY <2>3, <3>4, <3>5 DEF NameInv
  <2>4. CASE WriteRow(r) /\ pc'[r] = "done" /\ UNCHANGED complete
    <3> DEFINE u == op[r].target
               row == Written(r, user[u])
    <3>1. /\ pc[r] = "write" /\ UNCHANGED installers
          /\ Change(r, u, row, "roles", {"count", "write"})
      BY <2>4 DEF WriteRow, At
    <3>2. u \in Existing /\ user[u] \in Row BY <3>1, Locals DEF Held, IsAccount, Existing, Exists
    <3>3. row \in Row BY <3>2, Locals, WrittenRow
    <3>4. row.name = user[u].name BY <3>2, WrittenFields
    <3>5. ASSUME NEW q \in Requests, q # r, <<q, pc[q]>> \notin stale' PROVE <<q, pc[q]>> \notin stale
      BY <3>1, <3>5 DEF Change
    <3>6. user' = [user EXCEPT ![u] = row] /\ overran \subseteq overran' BY <3>1 DEF Change
    <3>7. \A q \in Requests : pc'[q] \in {"insert", "provision"} /\ <<q, pc'[q]>> \notin stale' =>
              pc'[q] = pc[q] /\ op'[q] = op[q] /\ <<q, pc[q]>> \notin stale
      BY <2>0, <2>4, <3>5 DEF Others
    <3> HIDE DEF u, row
    <3>8. QED BY <2>4, <3>1, <3>2, <3>3, <3>4, <3>6, <3>7, NameChanged
  <2>5. CASE LinksRow(r)
    <3>1. PICK u \in Existing, i \in Identities \cup {None} : user' = [user EXCEPT ![u].sub = i]
      BY <2>5 DEF LinksRow
    <3>2. user[u] \in Row BY DEF TypeInv, StoreType, Existing, Exists
    <3>3. [user[u] EXCEPT !.sub = i] \in Row /\ [user[u] EXCEPT !.sub = i].name = user[u].name
      BY <3>2 DEF Row
    <3>4. PICK row \in Row : row.name = user[u].name /\ user' = [user EXCEPT ![u] = row]
      BY <3>1, <3>3
    <3>5. \A q \in Requests : pc'[q] \in {"insert", "provision"} /\ <<q, pc'[q]>> \notin stale' =>
              pc'[q] = pc[q] /\ op'[q] = op[q] /\ <<q, pc[q]>> \notin stale
      BY <2>0, <2>5 DEF Others, LinksRow
    <3>6. QED BY <2>5, <3>4, <3>5, NameChanged DEF LinksRow
  <2>6. Initial(op[r].name) \in Row BY Locals, NothingAsked DEF Initial, Row, Ask, Roles
  <2>7. QED BY <1>2, <2>1, <2>2, <2>3, <2>4, <2>5, <2>6, RowsStep
<1>3. ASSUME NEW u \in Existing, Holder(u) PROVE NameInv'
  <2>1. UNCHANGED <<complete, pc, op, installers, stale, overran>> /\ (UNCHANGED user \/ Touched(u))
    BY <1>3, HolderStep
  <2>2. CASE UNCHANGED user
    <3>1. Existing' = Existing BY <2>2 DEF Existing, Exists
    <3>2. QED BY <2>1, <2>2, <3>1, NameQuiet
  <2>3. CASE Touched(u)
    <3>1. u \in Accounts /\ user[u] \in Row /\ user \in [Accounts -> Row \cup {None}]
      BY DEF TypeInv, StoreType, Existing, Exists
    <3>2. user'[u].name = user[u].name /\ user' = [user EXCEPT ![u] = user'[u]] /\ user'[u] \in Row
      BY <2>3, <3>1 DEF Touched, Row
    <3>3. PICK row \in Row : row.name = user[u].name /\ user' = [user EXCEPT ![u] = row] BY <3>2
    <3>4. QED BY <2>1, <3>3, NameChanged
  <2>4. QED BY <2>1, <2>2, <2>3
<1>4. QED BY <1>1, <1>2, <1>3 DEF Next

LEMMA NameInvHolds == Spec => []NameInv
<1>1. Init => NameInv
  <2> SUFFICES ASSUME Init PROVE NameInv OBVIOUS
  <2>1. NamesDistinct BY AccountsAssumption DEF Init, NamesDistinct, Existing, Exists, Accounts
  <2>2. QED BY <2>1 DEF Init, NameInv, NewName
<1>2. TypeInv /\ NameInv /\ [Next]_vars => NameInv' BY NameStep
<1>3. QED BY <1>1, <1>2, TypeInvHolds, PTL DEF Spec

\* However many browsers open /setup on however many replicas, the wizard makes one
\* account; and no two accounts have names that differ in case only, unless their
\* handlers overlapped.
THEOREM MadeCorrect == Spec => []MadeOnce
<1>1. NameInv => MadeOnce
  <2> SUFFICES ASSUME NameInv PROVE OneInstaller BY DEF NameInv, MadeOnce
  <2>1. CASE installers = {} BY <2>1, FS_EmptySet DEF OneInstaller
  <2>2. ASSUME NEW r \in installers PROVE OneInstaller
    <3>1. installers = {r} BY DEF NameInv
    <3>2. QED BY <3>1, FS_Singleton DEF OneInstaller
  <2>3. QED BY <2>1, <2>2
<1>2. QED BY <1>1, NameInvHolds, PTL
----------------------------------------------------------------------------
(* Roles: someone administers, and the superadmin tier is kept *)

\* What a change was checked against.
Checked(r) ==
    /\ op[r].kind = "reactivate" /\ op[r].target = op[r].by => snap[r].active
    /\ op[r].kind # "reset" /\ snap[r].role = "superadmin" => rank[r] = "superadmin"
    /\ op[r].kind # "reactivate" => op[r].target # op[r].by
    /\ op[r].kind = "role" /\ op[r].role = "superadmin" => rank[r] = "superadmin"

\* The row's role and activity are still those that were loaded.
SameTier(r) == op[r].target # op[r].by => Tier(user[op[r].target]) = Tier(snap[r])

RoleAt(r) ==
    /\ pc[r] \in {"count", "write"} => Checked(r)
    /\ pc[r] = "count" => Lessens(r, snap[r])
    /\ pc[r] = "count" /\ <<r, "count">> \notin stale => SameTier(r)
    /\ pc[r] = "write" /\ <<r, "write">> \notin stale =>
          /\ Lessens(r, snap[r]) => Enough
          /\ <<r, "count">> \notin stale \/ ~Lessens(r, snap[r]) => SameTier(r)
    /\ pc[r] = "insert" /\ op[r].role = "superadmin" => rank[r] = "superadmin"

RoleInv == SomeoneAdministers /\ \A r \in Requests : RoleAt(r)

\* A step that leaves the tiers of the rows there are as they were.
TiersStay == \A u \in Existing : user'[u] # None /\ Tier(user'[u]) = Tier(user[u])

LEMMA AdministratorsStay ==
    ASSUME TypeInv, TypeInv', TiersStay
    PROVE  Administrators \subseteq Administrators'
<1> SUFFICES ASSUME NEW u \in Administrators PROVE u \in Administrators' OBVIOUS
<1>1. u \in Existing /\ user[u].active /\ Privileged(user[u].role) BY DEF Administrators
<1>2. user'[u] # None /\ Tier(user'[u]) = Tier(user[u]) /\ u \in Accounts /\ user[u] # None
  BY <1>1 DEF TiersStay, Existing, Exists
<1>3. user'[u].active = user[u].active /\ user'[u].role = user[u].role BY <1>2 DEF Tier
<1>4. QED BY <1>1, <1>2, <1>3 DEF Administrators, Existing, Exists

LEMMA EnoughStays ==
    ASSUME Enough, Administrators \subseteq Administrators'
    PROVE  Enough'
<1>1. IsFiniteSet(Accounts) BY AccountsAssumption, FS_Union DEF Accounts
<1>2. IsFiniteSet(Administrators) /\ IsFiniteSet(Administrators')
  BY <1>1, FS_Subset DEF Administrators, Existing
<1>3. PICK S : S = Administrators' OBVIOUS
<1>4. Cardinality(Administrators) =< Cardinality(S) /\ Cardinality(S) \in Nat
      /\ Cardinality(Administrators) \in Nat
  BY <1>2, <1>3, FS_Subset, FS_CardinalityType
<1>5. Cardinality(S) > 1 BY <1>4 DEF Enough
<1>6. QED BY <1>3, <1>5 DEF Enough

\* Who takes no part in a step was overtaken by it, or is where it was.
LEMMA RoleOthers ==
    ASSUME TypeInv, TypeInv', NEW q \in Requests, RoleAt(q),
           pc'[q] = pc[q], op'[q] = op[q], rank'[q] = rank[q], snap'[q] = snap[q],
           \A l : <<q, l>> \in stale => <<q, l>> \in stale',
           TiersStay \/ (pc[q] \in {"count", "write"} => <<q, pc[q]>> \in stale')
    PROVE  RoleAt(q)'
<1>1. Checked(q) => Checked(q)' BY DEF Checked
<1>2. Lessens(q, snap[q])' <=> Lessens(q, snap[q]) BY DEF Lessens
<1>3. CASE TiersStay
  <2>1. Enough => Enough' BY <1>3, AdministratorsStay, EnoughStays
  <2>2. pc[q] \in {"count", "write"} /\ SameTier(q) => SameTier(q)'
    <3>1. pc[q] \in {"count", "write"} => op[q].target \in Existing
      BY Locals DEF Held, IsAccount, Existing, Exists
    <3>2. QED BY <1>3, <3>1 DEF SameTier, TiersStay
  <2>3. QED BY <1>1, <1>2, <2>1, <2>2 DEF RoleAt
<1>4. CASE pc[q] \in {"count", "write"} => <<q, pc[q]>> \in stale'
  BY <1>1, <1>2, <1>4 DEF RoleAt
<1>5. QED BY <1>3, <1>4

LEMMA RoleUnwritten ==
    ASSUME TypeInv, TypeInv', RoleInv, NEW r \in Requests, Others(r), Gets(r), Unwritten,
           UNCHANGED complete
    PROVE  RoleInv'
<1>1. UNCHANGED <<user, installers, stale, overran>> BY DEF Unwritten
<1>2. TiersStay BY <1>1 DEF TiersStay, Existing, Exists
<1>3. Administrators \subseteq Administrators' BY <1>2, AdministratorsStay
<1>4. SomeoneAdministers' BY <1>1, <1>3 DEF RoleInv, SomeoneAdministers
<1>5. ASSUME NEW q \in Requests, q # r PROVE RoleAt(q)'
  BY <1>1, <1>2, <1>5, RoleOthers DEF RoleInv, Others
<1>6. \A l, o, k, s : Move(r, l, o, k, s) /\ l \notin Answers =>
          op'[r] = o /\ rank'[r] = k /\ snap'[r] = s
  BY MoveFrame DEF TypeInv, Answers
<1>7. ASSUME pc'[r] \notin {"insert", "count", "write"} PROVE RoleAt(r)' BY <1>7 DEF RoleAt
<1>8. ASSUME pc'[r] = "insert" PROVE RoleAt(r)'
  <2>1. op'[r] = op[r] /\ rank'[r] = rank[r] BY <1>6, <1>8 DEF Gets, Go, Answers
  <2>2. QED BY <1>8, <2>1 DEF Gets, RoleAt
<1>9. ASSUME pc[r] = "target", NEW l \in {"count", "write"}, pc'[r] = l,
             Move(r, l, op[r], rank[r], Loaded(r)), May(r, Loaded(r)),
             l = "count" <=> Lessens(r, Loaded(r))
      PROVE  RoleAt(r)'
  <2>1. op'[r] = op[r] /\ rank'[r] = rank[r] /\ snap'[r] = Loaded(r) BY <1>6, <1>9 DEF Answers
  <2>2. Loaded(r) \in Row /\ user[op[r].target] \in Row BY <1>9, LoadedRow, Locals DEF Held, IsAccount
  <2>3. op[r].target # op[r].by => Loaded(r) = user[op[r].target] BY DEF Loaded
  <2>4. op[r].target = op[r].by => Loaded(r).active BY <2>2 DEF Loaded, Row
  <2>5. Checked(r)' BY <1>9, <2>1, <2>4 DEF Checked, May, MayManage
  <2>6. SameTier(r)' BY <1>1, <2>1, <2>3 DEF SameTier
  <2>7. Lessens(r, snap[r])' <=> Lessens(r, Loaded(r)) BY <2>1 DEF Lessens
  <2>8. QED BY <1>9, <2>5, <2>6, <2>7 DEF RoleAt
<1>10. ASSUME pc[r] = "count", pc'[r] = "write", Go(r, "write"), Enough PROVE RoleAt(r)'
  <2>1. op'[r] = op[r] /\ rank'[r] = rank[r] /\ snap'[r] = snap[r] BY <1>6, <1>10 DEF Go, Answers
  <2>2. Checked(r) /\ Lessens(r, snap[r]) BY <1>10 DEF RoleInv, RoleAt
  <2>3. Checked(r)' BY <2>1, <2>2 DEF Checked
  <2>4. Lessens(r, snap[r])' BY <2>1, <2>2 DEF Lessens
  <2>5. Enough' BY <1>3, <1>10, EnoughStays
  <2>6. <<r, "count">> \notin stale => SameTier(r)'
    BY <1>1, <1>10, <2>1 DEF RoleInv, RoleAt, SameTier
  <2>7. QED BY <1>1, <1>10, <2>3, <2>4, <2>5, <2>6 DEF RoleAt
<1>11. ASSUME pc'[r] = "count" PROVE RoleAt(r)' BY <1>9, <1>11 DEF Gets
<1>12. ASSUME pc'[r] = "write" PROVE RoleAt(r)' BY <1>9, <1>10, <1>12 DEF Gets
<1>13. QED BY <1>4, <1>5, <1>7, <1>8, <1>11, <1>12 DEF RoleInv

\* A step that keeps the tiers, or makes an account.
LEMMA RoleStays ==
    ASSUME TypeInv, TypeInv', RoleInv, TiersStay, overran \subseteq overran',
           complete' => complete \/ Administrators' # {},
           \A q \in Requests :
              /\ \A l : <<q, l>> \in stale /\ pc'[q] # "done" => <<q, l>> \in stale'
              /\ \/ pc'[q] \notin {"insert", "count", "write"}
                 \/ pc'[q] = pc[q] /\ op'[q] = op[q] /\ rank'[q] = rank[q] /\ snap'[q] = snap[q]
    PROVE  RoleInv'
<1>1. Administrators \subseteq Administrators' BY AdministratorsStay
<1>2. SomeoneAdministers' BY <1>1 DEF RoleInv, SomeoneAdministers
<1>3. ASSUME NEW q \in Requests PROVE RoleAt(q)'
  <2>1. CASE pc'[q] \notin {"insert", "count", "write"} BY <2>1 DEF RoleAt
  <2>2. CASE pc'[q] \in {"insert", "count", "write"}
    <3>1. RoleAt(q) BY DEF RoleInv
    <3>2. \A l : <<q, l>> \in stale => <<q, l>> \in stale' BY <2>2
    <3>3. QED BY <2>2, <3>1, <3>2, RoleOthers
  <2>3. QED BY <2>1, <2>2
<1>4. QED BY <1>2, <1>3 DEF RoleInv

\* The UPDATE of a change.
LEMMA RoleWrite ==
    ASSUME TypeInv, TypeInv', RoleInv, NEW r \in Requests, Others(r), WriteRow(r), pc'[r] = "done",
           UNCHANGED complete
    PROVE  RoleInv'
<1> DEFINE u == op[r].target
           row == Written(r, user[u])
<1>1. /\ pc[r] = "write" /\ Change(r, u, row, "roles", {"count", "write"})
  BY DEF WriteRow, At
<1>2. /\ u \in Existing /\ u \in Accounts /\ user[u] \in Row /\ row \in Row /\ user[u] # None
      /\ row # None /\ user \in [Accounts -> Row \cup {None}] /\ snap[r] \in Row
      /\ op[r].kind \in {"role", "deactivate", "reactivate", "reset"}
  BY <1>1, Locals, WrittenRow DEF Held, IsAccount, Existing, Exists
<1>3. /\ row.role = (IF op[r].kind = "role" /\ snap[r].role # op[r].role THEN op[r].role
                     ELSE user[u].role)
      /\ row.active = (IF op[r].kind = "deactivate" /\ snap[r].active THEN FALSE
                       ELSE IF op[r].kind = "reactivate" /\ ~snap[r].active THEN TRUE
                       ELSE user[u].active)
  BY <1>2, WrittenFields
<1>4. /\ user' = [user EXCEPT ![u] = row]
      /\ overran' = overran \cup (IF <<r, pc[r]>> \in stale THEN {"roles"} ELSE {})
      /\ stale' = {p \in stale \cup {<<q, pc[q]>> :
                       q \in {q \in Requests : row # user[u] /\ pc[q] \in {"count", "write"}}} : p[1] # r}
  BY <1>1 DEF Change
<1> HIDE DEF u, row
<1>5. user'[u] = row /\ \A v \in Accounts : v # u => user'[v] = user[v] BY <1>2, <1>4
<1>6. \A q \in Requests : q # r => \A l : <<q, l>> \in stale => <<q, l>> \in stale' BY <1>4
<1>7. CASE Tier(row) = Tier(user[u])
  <2>1. TiersStay BY <1>2, <1>5, <1>7 DEF TiersStay, Existing, Exists
  <2>2. overran \subseteq overran' BY <1>4
  <2>3. \A q \in Requests : q # r =>
           pc'[q] = pc[q] /\ op'[q] = op[q] /\ rank'[q] = rank[q] /\ snap'[q] = snap[q]
    BY DEF Others
  <2>4. QED BY <1>6, <2>1, <2>2, <2>3, RoleStays
<1>8. CASE Tier(row) # Tier(user[u])
  <2>1. row # user[u] BY <1>8
  <2>2. ASSUME NEW q \in Requests PROVE RoleAt(q)'
    <3>1. CASE q = r BY <3>1 DEF RoleAt
    <3>2. CASE q # r
      <4>1. pc[q] \in {"count", "write"} => <<q, pc[q]>> \in stale' BY <1>4, <2>1, <3>2
      <4>2. QED BY <1>6, <3>2, <4>1, RoleOthers DEF RoleInv, Others
    <3>3. QED BY <3>1, <3>2
  <2>3. RoleAt(r) /\ Checked(r) BY <1>1 DEF RoleInv, RoleAt
  <2>4. op[r].target # op[r].by
    <3>1. op[r].kind = "reactivate" /\ op[r].target = op[r].by => row.role = user[u].role /\ row.active = user[u].active
      BY <1>3, <2>3 DEF Checked
    <3>2. QED BY <1>2, <1>8, <2>3, <3>1 DEF Tier, Checked
  <2>5. \A v \in Administrators : v # u => v \in Administrators'
    BY <1>5 DEF Administrators, Existing, Exists
  <2>6. CASE <<r, "write">> \in stale
    <3>1. "roles" \in overran' BY <1>1, <1>4, <2>6
    <3>2. QED BY <2>2, <3>1 DEF RoleInv, SomeoneAdministers
  <2>7. ASSUME <<r, "write">> \notin stale, complete PROVE Administrators' # {} \/ "roles" \in overran'
    <3>1. CASE Lessens(r, snap[r])
      <4>1. Cardinality(Administrators) > 1 BY <1>1, <2>3, <2>7, <3>1 DEF RoleAt, Enough
      <4>2. Administrators # {} /\ Administrators # {u}
        <5>1. Administrators # {} BY <4>1, FS_EmptySet
        <5>2. Cardinality({u}) = 1 BY FS_Singleton
        <5>3. Administrators # {u} BY <4>1, <5>2
        <5>4. QED BY <5>1, <5>3
      <4>3. PICK v \in Administrators : v # u BY <4>2
      <4>4. QED BY <2>5, <4>3
    <3>2. CASE ~Lessens(r, snap[r])
      <4>1. Tier(user[u]) = Tier(snap[r]) BY <1>1, <2>3, <2>4, <2>7, <3>2 DEF RoleAt, SameTier, u
      <4>2. user[u].role = snap[r].role /\ user[u].active = snap[r].active
        BY <1>2, <4>1, AccountsAssumption DEF Tier
      <4>3. user[u].active /\ Privileged(user[u].role) => row.active /\ Privileged(row.role)
        BY <1>2, <1>3, <3>2, <4>2 DEF Lessens
      <4>4. u \in Administrators => u \in Administrators'
        BY <1>2, <1>5, <4>3 DEF Administrators, Existing, Exists
      <4>5. Administrators # {} \/ "roles" \in overran BY <2>7 DEF RoleInv, SomeoneAdministers
      <4>6. QED BY <1>4, <2>5, <4>4, <4>5
    <3>3. QED BY <3>1, <3>2
  <2>8. CASE <<r, "write">> \notin stale
    BY <2>2, <2>7, <2>8 DEF RoleInv, SomeoneAdministers
  <2>9. QED BY <2>6, <2>8
<1>9. QED BY <1>7, <1>8

LEMMA RoleStep ==
    ASSUME TypeInv, TypeInv', RoleInv, [Next]_vars
    PROVE  RoleInv'
<1>1. CASE UNCHANGED vars
  <2>1. TiersStay BY <1>1 DEF vars, TiersStay, Existing, Exists
  <2>2. complete' => complete BY <1>1 DEF vars
  <2>3. QED BY <1>1, <2>1, <2>2, RoleStays DEF vars
<1>2. ASSUME NEW r \in Requests, Setup(r) \/ Manage(r) \/ Directory(r) \/ SignOn(r) PROVE RoleInv'
  <2>0. Others(r) /\ Gets(r) BY <1>2, OneActs, GetsTo
  <2>1. \A q \in Requests : q # r =>
           pc'[q] = pc[q] /\ op'[q] = op[q] /\ rank'[q] = rank[q] /\ snap'[q] = snap[q]
    BY <2>0 DEF Others
  <2>2. CASE Unwritten /\ UNCHANGED complete BY <2>0, <2>2, RoleUnwritten
  <2>3. ASSUME NEW row \in Row, Makes(r, row) PROVE TiersStay /\ r \in Existing' /\ user'[r] = row
    BY <2>0, <2>3, NameMade, AccountsAssumption DEF TiersStay, Existing, Exists
  <2>4. CASE /\ Makes(r, Initial(op[r].name)) /\ ~complete /\ complete'
             /\ UNCHANGED <<stale, overran>> /\ pc'[r] = "delete"
    <3>1. PICK row : row = Initial(op[r].name) OBVIOUS
    <3>2. row.active /\ Privileged(row.role) BY <3>1 DEF Initial, Privileged
    <3>3. Makes(r, row) /\ row \in Row BY <2>4, <3>1 DEF Makes
    <3>4. TiersStay /\ r \in Existing' /\ user'[r] = row BY <2>3, <3>3
    <3>5. r \in Administrators' BY <3>2, <3>4 DEF Administrators, Existing, Exists
    <3>6. QED BY <2>1, <2>4, <3>4, <3>5, RoleStays
  <2>5. ASSUME pc'[r] = "done", UNCHANGED complete, NEW row \in Row, Makes(r, row),
               Change(r, r, row, "names", {"insert", "provision"})
        PROVE  RoleInv'
    <3>1. TiersStay BY <2>3, <2>5
    <3>2. overran \subseteq overran' BY <2>5 DEF Change
    <3>3. \A q \in Requests : q # r => \A l : <<q, l>> \in stale => <<q, l>> \in stale'
      BY <2>5 DEF Change
    <3>4. complete' => complete BY <2>5
    <3>5. QED BY <2>1, <2>5, <3>1, <3>2, <3>3, <3>4, RoleStays
  <2>6. CASE WriteRow(r) /\ pc'[r] = "done" /\ UNCHANGED complete BY <2>0, <2>6, RoleWrite
  <2>7. CASE LinksRow(r)
    <3>1. PICK u \in Existing, i \in Identities \cup {None} : user' = [user EXCEPT ![u].sub = i]
      BY <2>7 DEF LinksRow
    <3>2. /\ u \in Accounts /\ user[u] \in Row /\ user \in [Accounts -> Row \cup {None}]
          /\ None \notin Row
      BY AccountsAssumption DEF TypeInv, StoreType, Existing, Exists
    <3>3. [user[u] EXCEPT !.sub = i] \in Row BY <3>2 DEF Row
    <3>4. PICK row \in Row : row = [user[u] EXCEPT !.sub = i] /\ user' = [user EXCEPT ![u] = row]
      BY <3>1, <3>3
    <3>5. Tier(row) = Tier(user[u]) BY <3>2, <3>4 DEF Tier, Row
    <3>6. TiersStay BY <3>2, <3>4, <3>5 DEF TiersStay, Existing, Exists
    <3>7. UNCHANGED <<complete, stale, overran>> /\ pc'[r] \in {"linked", "done"} BY <2>7 DEF LinksRow
    <3>8. QED BY <2>1, <3>6, <3>7, RoleStays
  <2>8. QED BY <1>2, <2>2, <2>4, <2>5, <2>6, <2>7, RowsStep
<1>3. ASSUME NEW u \in Existing, Holder(u) PROVE RoleInv'
  <2>1. /\ UNCHANGED <<complete, pc, op, rank, snap, installers, stale, overran>>
        /\ UNCHANGED user \/ Touched(u)
    BY <1>3, HolderStep
  <2>2. TiersStay
    <3>1. /\ u \in Accounts /\ user[u] \in Row /\ user \in [Accounts -> Row \cup {None}]
          /\ None \notin Row /\ user[u] # None
      BY AccountsAssumption DEF TypeInv, StoreType, Existing, Exists
    <3>2. CASE UNCHANGED user BY <3>2 DEF TiersStay, Existing, Exists
    <3>3. CASE Touched(u)
      <4>1. PICK row \in Row : row = user'[u] BY <3>3 DEF Touched
      <4>2. PICK a, b, c : user' = [user EXCEPT ![u] = [user[u] EXCEPT !.enrolled = a,
                                             !.mustChange = b, !.password = c]]
        BY <3>3 DEF Touched
      <4>3. user'[u].role = user[u].role /\ user'[u].active = user[u].active
        BY <3>1, <4>2 DEF Row
      <4>4. Tier(user'[u]) = Tier(user[u]) /\ user'[u] # None BY <3>1, <4>1, <4>3 DEF Tier
      <4>5. \A v \in Accounts : v # u => user'[v] = user[v] BY <3>1, <4>2
      <4>6. QED BY <4>4, <4>5 DEF TiersStay, Existing, Exists
    <3>4. QED BY <2>1, <3>2, <3>3
  <2>3. complete' => complete BY <2>1
  <2>4. QED BY <2>1, <2>2, <2>3, RoleStays
<1>4. QED BY <1>1, <1>2, <1>3 DEF Next

LEMMA RoleInvHolds == Spec => []RoleInv
<1>1. Init => RoleInv
  <2> SUFFICES ASSUME Init PROVE RoleInv OBVIOUS
  <2>1. ASSUME complete PROVE Administrators # {}
    <3>1. /\ user = [u \in Accounts |-> IF u \in People THEN Staff[mix][u] ELSE None] /\ mix \in Mixes
      BY <2>1 DEF Init
    <3>2. PICK u \in People : Staff[mix][u].active /\ Staff[mix][u].role # "case_manager"
      BY <3>1, AccountsAssumption
    <3>3. Staff[mix][u] \in Row /\ u \in Accounts BY <3>1, AccountsAssumption DEF Accounts
    <3>4. user[u] = Staff[mix][u] /\ user[u] # None BY <3>1, <3>3, AccountsAssumption
    <3>5. Privileged(user[u].role)
      BY <3>2, <3>3, <3>4 DEF Row, Roles, Privileged
    <3>6. u \in Administrators
      BY <3>2, <3>3, <3>4, <3>5 DEF Administrators, Existing, Exists
    <3>7. QED BY <3>6
  <2>2. SomeoneAdministers BY <2>1 DEF SomeoneAdministers
  <2>3. ASSUME NEW r \in Requests PROVE RoleAt(r) BY DEF Init, RoleAt
  <2>4. QED BY <2>2, <2>3 DEF RoleInv
<1>2. TypeInv /\ TypeInv' /\ RoleInv /\ [Next]_vars => RoleInv' BY RoleStep
<1>3. QED BY <1>1, <1>2, TypeInvHolds, PTL DEF Spec

\* Whatever is changed by whomever, an instance that is set up has someone active who
\* may run it, unless two changes of the tiers overlapped.
THEOREM AdministeredCorrect == Spec => []SomeoneAdministers
<1>1. RoleInv => SomeoneAdministers BY DEF RoleInv
<1>2. QED BY <1>1, RoleInvHolds, PTL

\* Who may change the tier of u in a step that changes it.
Entitled(u) ==
    \/ u \in installers' \ installers
    \/ \E r \in Requests :
          /\ pc[r] \in {"write", "insert"} /\ pc'[r] = "done"
          /\ rank[r] = "superadmin" \/ \E l \in Steps : <<r, l>> \in stale
          /\ u # op[r].by

Retiered(u) == (Super(user[u]) \/ Super(user'[u])) /\ Tier(user[u]) # Tier(user'[u])

LEMMA MadeEntitled ==
    ASSUME TypeInv, RoleInv, NEW r \in Requests, NEW row \in Row, Makes(r, row), Others(r),
           pc[r] \in {"insert", "provision"}, pc'[r] = "done",
           row.role = IF pc[r] = "insert" THEN op[r].role ELSE "case_manager",
           NEW u \in Accounts, Retiered(u)
    PROVE  Entitled(u)
<1>1. /\ Existing' = Existing \cup {r} /\ r \notin Existing
      /\ user'[r] = row /\ \A v \in Existing : user'[v] = user[v]
  BY NameMade
<1>2. \A v \in Accounts : v # r => user'[v] = user[v]
  BY Locals DEF Makes
<1>3. u = r BY <1>2 DEF Retiered
<1>4. user[r] = None BY DEF Makes
<1>5. row.role = "superadmin" BY <1>1, <1>3, <1>4 DEF Retiered, Super
<1>6. pc[r] = "insert" /\ op[r].role = "superadmin" BY <1>5
<1>7. rank[r] = "superadmin" BY <1>6 DEF RoleInv, RoleAt
<1>8. op[r].by # r BY <1>4, <1>6, Locals DEF Held, IsAccount
<1>9. QED BY <1>3, <1>6, <1>7, <1>8 DEF Entitled

LEMMA WriteEntitled ==
    ASSUME TypeInv, RoleInv, NEW r \in Requests, WriteRow(r), pc'[r] = "done",
           NEW u \in Accounts, Retiered(u)
    PROVE  Entitled(u)
<1> DEFINE row == Written(r, user[op[r].target])
<1>1. pc[r] = "write" /\ user' = [user EXCEPT ![op[r].target] = row]
  BY DEF WriteRow, At, Change
<1>2. /\ op[r].target \in Accounts /\ user[op[r].target] \in Row /\ row \in Row
      /\ user \in [Accounts -> Row \cup {None}] /\ snap[r] \in Row
      /\ op[r].kind \in {"role", "deactivate", "reactivate", "reset"}
  BY <1>1, Locals, WrittenRow DEF Held, IsAccount
<1>3. /\ row.role = (IF op[r].kind = "role" /\ snap[r].role # op[r].role THEN op[r].role
                     ELSE user[op[r].target].role)
      /\ row.active = (IF op[r].kind = "deactivate" /\ snap[r].active THEN FALSE
                       ELSE IF op[r].kind = "reactivate" /\ ~snap[r].active THEN TRUE
                       ELSE user[op[r].target].active)
  BY <1>2, WrittenFields
<1> HIDE DEF row
<1>4. u = op[r].target /\ user'[u] = row BY <1>1, <1>2 DEF Retiered
<1>5. row # None /\ user[u] # None /\ user[u] \in Row BY <1>2, <1>4, AccountsAssumption
<1>6. /\ row.role # user[u].role \/ row.active # user[u].active
      /\ row.role = "superadmin" \/ user[u].role = "superadmin"
  BY <1>4, <1>5 DEF Retiered, Tier, Super
<1>7. Checked(r) BY <1>1 DEF RoleInv, RoleAt
<1>8. op[r].target # op[r].by BY <1>2, <1>3, <1>4, <1>6, <1>7 DEF Checked
<1>9. ASSUME \A l \in Steps : <<r, l>> \notin stale PROVE rank[r] = "superadmin"
  <2>1. <<r, "write">> \notin stale /\ <<r, "count">> \notin stale BY <1>9 DEF Steps
  <2>2. SameTier(r) BY <1>1, <2>1 DEF RoleInv, RoleAt
  <2>3. snap[r].role = user[u].role
    BY <1>2, <1>4, <1>5, <1>8, <2>2, AccountsAssumption DEF SameTier, Tier
  <2>4. op[r].kind # "reset" BY <1>3, <1>4, <1>6
  <2>5. CASE user[u].role = "superadmin" BY <1>7, <2>3, <2>4, <2>5 DEF Checked
  <2>6. CASE user[u].role # "superadmin"
    <3>1. op[r].kind = "role" /\ op[r].role = "superadmin" BY <1>3, <1>4, <1>6, <2>6
    <3>2. QED BY <1>7, <3>1 DEF Checked
  <2>7. QED BY <2>5, <2>6
<1>10. rank[r] = "superadmin" \/ \E l \in Steps : <<r, l>> \in stale BY <1>9
<1>11. QED BY <1>1, <1>4, <1>8, <1>10 DEF Entitled

\* A superadmin is made, unmade, activated or deactivated by the wizard, or by another who
\* was superadmin when the request began, unless the row changed after it was loaded.
THEOREM TiersCorrect == Spec => TierKept
<1>1. ASSUME TypeInv, NameInv, RoleInv, [Next]_vars
      PROVE  [\A u \in Accounts : Retiered(u) => Entitled(u)]_vars
  <2> SUFFICES ASSUME Next, NEW u \in Accounts, Retiered(u) PROVE Entitled(u)
    BY <1>1
  <2>1. ASSUME NEW r \in Requests, Setup(r) \/ Manage(r) \/ Directory(r) \/ SignOn(r)
        PROVE  Entitled(u)
    <3>0. Others(r) BY <1>1, <2>1, OneActs
    <3>1. CASE Unwritten BY <3>1 DEF Unwritten, Retiered
    <3>2. ASSUME NEW row, Makes(r, row), ~complete, installers' = installers \cup {r}
          PROVE  Entitled(u)
      <4>1. r \notin installers BY <1>1, <3>2 DEF NameInv
      <4>2. u = r BY <1>1, <3>2, Locals DEF Makes, Retiered
      <4>3. QED BY <3>2, <4>1, <4>2 DEF Entitled
    <3>3. ASSUME pc[r] \in {"insert", "provision"}, pc'[r] = "done",
                 NEW row \in Row, Makes(r, row),
                 row.role = IF pc[r] = "insert" THEN op[r].role ELSE "case_manager"
          PROVE  Entitled(u)
      BY <1>1, <3>0, <3>3, MadeEntitled
    <3>4. CASE WriteRow(r) /\ pc'[r] = "done" BY <1>1, <3>4, WriteEntitled
    <3>5. CASE LinksRow(r)
      <4>1. PICK v \in Existing, i \in Identities \cup {None} : user' = [user EXCEPT ![v].sub = i]
        BY <3>5 DEF LinksRow
      <4>2. v \in Accounts /\ user[v] \in Row /\ user \in [Accounts -> Row \cup {None}]
        BY <1>1 DEF TypeInv, StoreType, Existing, Exists
      <4>3. user'[v].role = user[v].role /\ user'[v].active = user[v].active /\ user'[v] \in Row
        BY <4>1, <4>2 DEF Row
      <4>4. Tier(user'[v]) = Tier(user[v]) BY <4>2, <4>3, AccountsAssumption DEF Tier
      <4>5. QED BY <4>1, <4>2, <4>4 DEF Retiered
    <3>6. QED BY <1>1, <2>1, <3>1, <3>2, <3>3, <3>4, <3>5, RowsStep
  <2>2. ASSUME NEW v \in Existing, Holder(v) PROVE Entitled(u)
    <3>1. UNCHANGED user \/ Touched(v) BY <1>1, <2>2, HolderStep
    <3>2. CASE UNCHANGED user BY <3>2 DEF Retiered
    <3>3. CASE Touched(v)
      <4>1. v \in Accounts /\ user[v] \in Row /\ user \in [Accounts -> Row \cup {None}]
        BY <1>1 DEF TypeInv, StoreType, Existing, Exists
      <4>2. PICK a, b, c : user' = [user EXCEPT ![v] = [user[v] EXCEPT !.enrolled = a,
                                             !.mustChange = b, !.password = c]]
        BY <3>3 DEF Touched
      <4>3. user'[v].role = user[v].role /\ user'[v].active = user[v].active /\ user'[v] \in Row
        BY <3>3, <4>1, <4>2 DEF Row, Touched
      <4>4. Tier(user'[v]) = Tier(user[v]) BY <4>1, <4>3, AccountsAssumption DEF Tier
      <4>5. QED BY <4>1, <4>2, <4>4 DEF Retiered
    <3>4. QED BY <3>1, <3>2, <3>3
  <2>3. QED BY <2>1, <2>2 DEF Next
<1>2. [\A u \in Accounts : Retiered(u) => Entitled(u)]_vars
      => [\A u \in Accounts :
         (Super(user[u]) \/ Super(user'[u])) /\ Tier(user[u]) # Tier(user'[u]) =>
            \/ u \in installers' \ installers
            \/ \E r \in Requests :
                  /\ pc[r] \in {"write", "insert"} /\ pc'[r] = "done"
                  /\ rank[r] = "superadmin" \/ \E l \in Steps : <<r, l>> \in stale
                  /\ u # op[r].by]_vars
  BY DEF Retiered, Entitled
<1>3. QED BY <1>1, <1>2, NameInvHolds, TypeInvHolds, RoleInvHolds, PTL DEF Spec, TierKept
----------------------------------------------------------------------------
(* Single sign-on: a link and a login land where they were asked for *)

\* Who took a state took it alone, and for what it was made.
Took(r) == pc[r] \in {"link", "linked", "second"}

Landed(r) ==
    LET s == op[r].target IN
    /\ s \in Requests /\ pc[s] = "sent" /\ s \notin states
    /\ pc[r] = "second" => op[r].key = s
    /\ pc[r] \in {"link", "linked"} =>
          op[s].kind = "link" /\ op[s].by = op[r].by /\ op[s].session = op[r].session

TakenOnce ==
    /\ \A r \in Requests : Took(r) => Landed(r)
    /\ \A r, q \in Requests : Took(r) /\ Took(q) /\ op[r].target = op[q].target => r = q

LinkedOnce ==
    /\ \A u, v \in Existing : u # v /\ user[u].sub # None => user[u].sub # user[v].sub
    /\ \A u \in Existing : user[u].sub # None =>
          \E r \in Requests : pc[r] = "linked" /\ op[r].by = u /\ op[r].who = user[u].sub

LinkInv == TakenOnce /\ LinkedOnce

LEMMA TakenStep ==
    ASSUME TypeInv, TakenOnce, NEW r \in Requests, Others(r), Gets(r)
    PROVE  TakenOnce'
<1>1. pc[r] \in {"idle"} \cup Steps /\ states' \subseteq states \cup {r} BY DEF Gets
<1>2. ASSUME NEW q \in Requests, q # r, Took(q)'
      PROVE  Took(q) /\ Landed(q)' /\ op'[q] = op[q] /\ op[q].target # r
  <2>1. Took(q) /\ Landed(q) BY <1>2 DEF Took, Others, TakenOnce
  <2>2. PICK s \in Requests : s = op[q].target BY <2>1 DEF Landed
  <2>3. pc[s] = "sent" /\ s \notin states BY <2>1, <2>2 DEF Landed
  <2>4. s # r BY <1>1, <2>3 DEF Steps
  <2>5. pc'[s] = "sent" /\ op'[s] = op[s] /\ s \notin states' BY <1>1, <2>3, <2>4 DEF Others
  <2>6. pc'[q] = pc[q] /\ op'[q] = op[q] BY <1>2 DEF Others
  <2>7. Landed(q)' BY <2>1, <2>2, <2>5, <2>6 DEF Landed
  <2>8. QED BY <2>1, <2>2, <2>4, <2>6, <2>7
<1>3. \A l, o, k, s : Move(r, l, o, k, s) /\ l \notin {"refused", "done"} => op'[r] = o
  BY MoveFrame DEF TypeInv
<1>4. ASSUME Took(r)'
      PROVE  /\ op'[r] = op[r] /\ Landed(r)'
             /\ \A q \in Requests : q # r /\ Took(q)' => op[q].target # op[r].target
  <2>1. CASE pc'[r] \in {"link", "second"}
    <3> DEFINE s == op[r].target
    <3>1. /\ pc[r] = "exchange" /\ Go(r, pc'[r]) /\ s \in states /\ states' = states \ {s}
          /\ Bound(r, s) /\ (pc'[r] = "link" <=> op[s].kind = "link")
      BY <2>1 DEF Gets
    <3>2. op'[r] = op[r] BY <1>3, <2>1, <3>1 DEF Go
    <3>3. s \in Requests /\ pc[s] = "sent" BY <3>1, Locals DEF Held
    <3>4. s # r /\ pc'[s] = "sent" /\ op'[s] = op[s] BY <3>1, <3>3 DEF Others
    <3>5. Landed(r)' BY <2>1, <3>1, <3>2, <3>3, <3>4 DEF Landed, Bound
    <3>6. ASSUME NEW q \in Requests, q # r, Took(q)' PROVE op[q].target # s
      <4>1. Landed(q) BY <1>2, <3>6 DEF TakenOnce
      <4>2. QED BY <3>1, <4>1 DEF Landed
    <3>7. QED BY <3>2, <3>5, <3>6
  <2>2. CASE pc'[r] = "linked"
    <3>1. pc[r] = "link" /\ Go(r, "linked") BY <2>2 DEF Gets, Link, At
    <3>2. op'[r] = op[r] BY <1>3, <3>1 DEF Go
    <3>3. Took(r) /\ Landed(r) BY <3>1 DEF Took, TakenOnce
    <3>4. PICK s \in Requests : s = op[r].target BY <3>3 DEF Landed
    <3>5. pc[s] = "sent" /\ s \notin states BY <3>3, <3>4 DEF Landed
    <3>6. s # r BY <3>1, <3>5
    <3>7. pc'[s] = "sent" /\ op'[s] = op[s] /\ s \notin states' BY <1>1, <3>5, <3>6 DEF Others
    <3>8. Landed(r)' BY <2>2, <3>1, <3>2, <3>3, <3>4, <3>7 DEF Landed
    <3>9. ASSUME NEW q \in Requests, q # r, Took(q)' PROVE op[q].target # op[r].target
      BY <1>2, <3>3, <3>9 DEF TakenOnce
    <3>10. QED BY <3>2, <3>8, <3>9
  <2>3. QED BY <1>4, <2>1, <2>2 DEF Took
<1>5. ASSUME NEW q \in Requests, Took(q)' PROVE Landed(q)' BY <1>2, <1>4, <1>5
<1>6. ASSUME NEW p \in Requests, NEW q \in Requests, Took(p)', Took(q)', op'[p].target = op'[q].target
      PROVE  p = q
  <2>1. CASE p # r /\ q # r BY <1>2, <1>6, <2>1 DEF TakenOnce
  <2>2. CASE p = r \/ q = r BY <1>2, <1>4, <1>6, <2>2
  <2>3. QED BY <2>1, <2>2
<1>7. QED BY <1>5, <1>6 DEF TakenOnce

\* No row gets an identity, and who has linked one stays so.
SubsKept == \A u \in Existing' : user'[u].sub # None => u \in Existing /\ user[u].sub = user'[u].sub

LinkersStay == \A q \in Requests : pc[q] = "linked" => pc'[q] = "linked" /\ op'[q] = op[q]

LEMMA LinkedKept ==
    ASSUME LinkedOnce, SubsKept, LinkersStay
    PROVE  LinkedOnce'
<1>1. ASSUME NEW u \in Existing', NEW v \in Existing', u # v, user'[u].sub # None
      PROVE  user'[u].sub # user'[v].sub
  BY <1>1 DEF LinkedOnce, SubsKept
<1>2. ASSUME NEW u \in Existing', user'[u].sub # None
      PROVE  \E r \in Requests : pc'[r] = "linked" /\ op'[r].by = u /\ op'[r].who = user'[u].sub
  BY <1>2 DEF LinkedOnce, SubsKept, LinkersStay
<1>3. QED BY <1>1, <1>2 DEF LinkedOnce

LEMMA LinkedLink ==
    ASSUME TypeInv, LinkedOnce, NEW r \in Requests, Link(r), Others(r), Gets(r)
    PROVE  LinkedOnce'
<1>1. LinkersStay
  <2>1. pc[r] = "link" BY DEF Link, At
  <2>2. QED BY <2>1 DEF LinkersStay, Others
<1>2. CASE UNCHANGED user
  <2>1. SubsKept BY <1>2 DEF SubsKept, Existing, Exists
  <2>2. QED BY <1>1, <2>1, LinkedKept
<1>3. CASE ~UNCHANGED user
  <2> DEFINE u == op[r].by
  <2>1. /\ pc[r] = "link" /\ Go(r, "linked") /\ user' = [user EXCEPT ![u].sub = op[r].who]
        /\ \A v \in Existing : v # u => user[v].sub # op[r].who
    BY <1>3 DEF Link, At
  <2>2. /\ u \in Accounts /\ user[u] \in Row /\ user[u] # None /\ None \notin Row
        /\ user \in [Accounts -> Row \cup {None}]
    BY <2>1, Locals DEF Held, IsAccount
  <2>3. op[r].who \in Identities \cup {None} BY Locals DEF Ask
  <2>4. [user[u] EXCEPT !.sub = op[r].who] \in Row BY <2>2, <2>3 DEF Row
  <2>5. user'[u].sub = op[r].who /\ user'[u] # None /\ \A v \in Accounts : v # u => user'[v] = user[v]
    BY <2>1, <2>2, <2>4 DEF Row
  <2>6. pc'[r] = "linked" /\ op'[r] = op[r]
    <3>1. Move(r, "linked", op[r], rank[r], snap[r]) BY <2>1 DEF Go
    <3>2. QED BY <3>1, MoveFrame DEF TypeInv
  <2>7. Existing' = Existing BY <2>2, <2>5 DEF Existing, Exists
  <2>8. ASSUME NEW v \in Existing, NEW w \in Existing, v # w, user'[v].sub # None
        PROVE  user'[v].sub # user'[w].sub
    <3>1. v \in Accounts /\ w \in Accounts BY DEF Existing
    <3>2. CASE v = u BY <2>1, <2>5, <2>8, <3>1, <3>2
    <3>3. CASE w = u BY <2>1, <2>5, <2>8, <3>1, <3>3
    <3>4. CASE v # u /\ w # u BY <2>5, <2>8, <3>1, <3>4 DEF LinkedOnce
    <3>5. QED BY <3>2, <3>3, <3>4
  <2>9. ASSUME NEW v \in Existing, user'[v].sub # None
        PROVE  \E q \in Requests : pc'[q] = "linked" /\ op'[q].by = v /\ op'[q].who = user'[v].sub
    <3>1. v \in Accounts BY DEF Existing
    <3>2. CASE v = u BY <2>5, <2>6, <3>2
    <3>3. CASE v # u BY <1>1, <2>5, <2>9, <3>1, <3>3 DEF LinkedOnce, LinkersStay
    <3>4. QED BY <3>2, <3>3
  <2>10. QED BY <2>7, <2>8, <2>9 DEF LinkedOnce
<1>4. QED BY <1>2, <1>3

LEMMA LinkStep ==
    ASSUME TypeInv, LinkInv, [Next]_vars
    PROVE  LinkInv'
<1>0. /\ user \in [Accounts -> Row \cup {None}] /\ None \notin Row
      /\ \A u \in Existing : u \in Accounts /\ user[u] \in Row
  BY AccountsAssumption DEF TypeInv, StoreType, Existing, Exists
<1>1. CASE UNCHANGED vars
  <2>1. TakenOnce' BY <1>1 DEF vars, redis, LinkInv, TakenOnce, Took, Landed
  <2>2. SubsKept /\ LinkersStay BY <1>1 DEF vars, SubsKept, LinkersStay, Existing, Exists
  <2>3. QED BY <2>1, <2>2, LinkedKept DEF LinkInv
<1>2. ASSUME NEW r \in Requests, Setup(r) \/ Manage(r) \/ Directory(r) \/ SignOn(r) PROVE LinkInv'
  <2>0. Others(r) /\ Gets(r) BY <1>2, OneActs, GetsTo
  <2>1. TakenOnce' BY <2>0, TakenStep DEF LinkInv
  <2>2. LinkersStay BY <2>0 DEF LinkersStay, Others, Gets, Steps
  <2>3. ASSUME SubsKept PROVE LinkInv' BY <2>1, <2>2, <2>3, LinkedKept DEF LinkInv
  <2>4. CASE Unwritten
    <3>1. SubsKept BY <2>4 DEF SubsKept, Unwritten, Existing, Exists
    <3>2. QED BY <2>3, <3>1
  <2>5. ASSUME NEW row, Makes(r, row) PROVE LinkInv'
    <3>1. row \in Row /\ row.sub = None BY <2>5 DEF Makes
    <3>2. /\ Existing' = Existing \cup {r} /\ user'[r] = row
          /\ \A u \in Existing : user'[u] = user[u]
      BY <2>0, <2>5, <3>1, NameMade
    <3>3. SubsKept BY <3>1, <3>2 DEF SubsKept
    <3>4. QED BY <2>3, <3>3
  <2>6. CASE WriteRow(r)
    <3> DEFINE u == op[r].target
               row == Written(r, user[u])
    <3>1. pc[r] = "write" /\ user' = [user EXCEPT ![u] = row]
      BY <2>6 DEF WriteRow, At, Change
    <3>2. u \in Existing /\ u \in Accounts /\ user[u] \in Row
      BY <3>1, Locals DEF Held, IsAccount, Existing, Exists
    <3>3. row \in Row /\ row.sub = user[u].sub BY <3>2, Locals, WrittenRow, WrittenFields
    <3> HIDE DEF row
    <3>4. SubsKept BY <1>0, <3>1, <3>2, <3>3 DEF SubsKept, Existing, Exists
    <3>5. QED BY <2>3, <3>4
  <2>7. CASE Link(r) BY <2>0, <2>1, <2>7, LinkedLink DEF LinkInv
  <2>8. CASE Unlink(r)
    <3>1. pc[r] = "unlink" /\ user' = [user EXCEPT ![op[r].by].sub = None] BY <2>8 DEF Unlink, At
    <3>2. op[r].by \in Existing BY <3>1, Locals DEF Held, IsAccount, Existing, Exists
    <3>3. PICK row : row = [user[op[r].by] EXCEPT !.sub = None] OBVIOUS
    <3>4. row \in Row /\ row.sub = None BY <1>0, <3>2, <3>3 DEF Row
    <3>5. user' = [user EXCEPT ![op[r].by] = row] BY <3>1, <3>3
    <3>6. SubsKept BY <1>0, <3>2, <3>4, <3>5 DEF SubsKept, Existing, Exists
    <3>7. QED BY <2>3, <3>6
  <2>9. QED BY <1>2, <2>4, <2>5, <2>6, <2>7, <2>8, RowsStep DEF LinksRow
<1>3. ASSUME NEW u \in Existing, Holder(u) PROVE LinkInv'
  <2>1. UNCHANGED <<states, pc, op>> /\ (UNCHANGED user \/ Touched(u)) BY <1>3, HolderStep
  <2>2. TakenOnce' BY <2>1 DEF LinkInv, TakenOnce, Took, Landed
  <2>3. LinkersStay BY <2>1 DEF LinkersStay
  <2>4. SubsKept
    <3>1. CASE UNCHANGED user BY <3>1 DEF SubsKept, Existing, Exists
    <3>2. CASE Touched(u)
      <4>1. PICK a, b, c : user' = [user EXCEPT ![u] = [user[u] EXCEPT !.enrolled = a,
                                             !.mustChange = b, !.password = c]]
        BY <3>2 DEF Touched
      <4>2. user'[u].sub = user[u].sub BY <1>0, <4>1 DEF Row
      <4>3. \A v \in Accounts : v # u => user'[v] = user[v] BY <1>0, <4>1
      <4>4. QED BY <4>2, <4>3 DEF SubsKept, Existing, Exists
    <3>3. QED BY <2>1, <3>1, <3>2
  <2>5. QED BY <2>2, <2>3, <2>4, LinkedKept DEF LinkInv
<1>4. QED BY <1>1, <1>2, <1>3 DEF Next

\* Neither a link nor a login of someone else's making takes effect here, whatever
\* browsers, states, sessions and callbacks come together.
THEOREM SignOnCorrect == Spec => []SignOnLands
<1>1. Init => LinkInv
  <2> SUFFICES ASSUME Init PROVE LinkInv OBVIOUS
  <2>1. TakenOnce BY DEF Init, TakenOnce, Took
  <2>2. ASSUME NEW u \in Existing PROVE user[u].sub = None
    BY AccountsAssumption DEF Init, Existing, Exists, Accounts
  <2>3. QED BY <2>1, <2>2 DEF LinkInv, LinkedOnce
<1>2. TypeInv /\ LinkInv /\ [Next]_vars => LinkInv' BY LinkStep
<1>3. LinkInv => SignOnLands
  <2> SUFFICES ASSUME LinkInv PROVE SignOnLands OBVIOUS
  <2>1. LoginLands BY DEF LinkInv, TakenOnce, Took, Landed, LoginLands, At
  <2>2. ASSUME NEW u \in Existing, user[u].sub # None
        PROVE  \E r \in Requests :
                  /\ At(r, "linked") /\ op[r].by = u /\ op[r].who = user[u].sub
                  /\ LET s == op[r].target IN
                       /\ op[s].kind = "link" /\ op[s].by = u /\ op[s].session = op[r].session
                       /\ s \notin states
                       /\ \A q \in Requests \ {r} : At(q, "linked") => op[q].target # s
    <3>1. PICK r \in Requests : pc[r] = "linked" /\ op[r].by = u /\ op[r].who = user[u].sub
      BY <2>2 DEF LinkInv, LinkedOnce
    <3>2. Landed(r) BY <3>1 DEF LinkInv, TakenOnce, Took
    <3>3. \A q \in Requests \ {r} : At(q, "linked") => op[q].target # op[r].target
      BY <3>1 DEF LinkInv, TakenOnce, Took, At
    <3>4. QED BY <3>1, <3>2, <3>3 DEF Landed, At
  <2>3. LinkLands BY <2>2 DEF LinkInv, LinkedOnce, LinkLands
  <2>4. QED BY <2>1, <2>3 DEF SignOnLands
<1>4. QED BY <1>1, <1>2, <1>3, TypeInvHolds, PTL DEF Spec
=============================================================================
