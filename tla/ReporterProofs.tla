--------------------------- MODULE ReporterProofs ---------------------------
(* What holds of the reporters' sessions and the links between cases,      *)
(* however many requests, cases and replies there are.                     *)
EXTENDS Reporter, TLAPS
LOCAL INSTANCE Integers

----------------------------------------------------------------------------
(* Types, and what a request holds at its step *)

LoginKey(r) == <<r, "login">>
FreshKey(r) == <<r, "fresh">>

LEMMA KeyNames ==
    /\ \A r \in Requests : LoginKey(r) \in Keys /\ FreshKey(r) \in Keys
    /\ \A q, r \in Requests : LoginKey(q) # FreshKey(r)
    /\ \A q, r \in Requests : (LoginKey(q) = LoginKey(r) => q = r) /\ (FreshKey(q) = FreshKey(r) => q = r)
    /\ None \notin Keys /\ None \notin Cases
    /\ \A k \in Keys : \E r \in Requests : k = LoginKey(r) \/ k = FreshKey(r)
BY ReporterAssumption DEF Keys, LoginKey, FreshKey

\* What the step of a request relies on in its locals.
Placed(l, o) ==
    /\ l \in {"load", "post", "ttl", "fresh", "drop", "signed_in", "sent", "closed"} => o.key \in Keys
    /\ l \in {"load", "login", "post", "ttl", "fresh", "drop", "look"} => o.case \in Cases
    /\ l = "auth" => o.creds \in Cases
    /\ l = "load" => o.creds \in Cases \cup {None}
    /\ l = "fresh" => o.left >= 1
    /\ l = "insert" => o.pair \in Pairs

OthersOK ==
    /\ cases \subseteq Cases /\ closed \subseteq Cases /\ messages \subseteq [by : Requests, case : Cases]
    /\ links \subseteq [by : Requests, pair : Pairs]
    /\ session \in [Keys -> Session \cup {None}]
    /\ now \in Nat
    /\ sweep \in [Cases -> {"no", "scanning", "swept", "unswept"}]
    /\ found \in [Cases -> SUBSET Keys]
    /\ mix \in Mixes
    /\ born \in [Keys -> Nat] /\ root \in [Keys -> Keys]
    /\ ended \subseteq Keys /\ crossing \subseteq Keys /\ loose \subseteq Keys
    /\ doubled \subseteq Requests

TypeInv ==
    /\ TypeOK
    /\ \A r \in Requests : Placed(pc[r], op[r])
    /\ \A k \in Keys : session[k] # None => session[k] \in Session

\* The step of one request: to l, with the locals o.
Moved(r, l, o) ==
    /\ pc' \in [Requests -> {"idle"} \cup Steps \cup Answers]
    /\ op' \in [Requests -> Local]
    /\ \A q \in Requests \ {r} : pc'[q] = pc[q] /\ op'[q] = op[q]
    /\ pc'[r] = l /\ op'[r].key = o.key
    /\ l \notin Answers => op'[r] = o
    /\ mix' = mix

LEMMA MoveFacts ==
    ASSUME TypeInv, NEW r \in Requests, NEW l \in {"idle"} \cup Steps \cup Answers,
           NEW o \in Local, Move(r, l, o)
    PROVE  Moved(r, l, o)
<1> DEFINE o2 == IF l \in Answers THEN [Nothing EXCEPT !.key = o.key] ELSE o
<1>1. o2 \in Local /\ o2.key = o.key BY DEF Local, Nothing, Kinds
<1>2. pc' = [pc EXCEPT ![r] = l] /\ op' = [op EXCEPT ![r] = o2] /\ mix' = mix BY DEF Move
<1>3. l \notin Answers => o2 = o OBVIOUS
<1> HIDE DEF o2
<1> QED BY <1>1, <1>2, <1>3 DEF Moved, TypeInv, TypeOK

LEMMA MovedType ==
    ASSUME TypeInv, NEW r \in Requests, NEW l, NEW o, Moved(r, l, o), OthersOK', Placed(l, o)
    PROVE  TypeInv'
<1>1. ASSUME NEW q \in Requests PROVE Placed(pc[q], op[q])'
  <2>1. CASE q = r /\ l \notin Answers BY <2>1 DEF Moved, Placed
  <2>2. CASE q = r /\ l \in Answers BY <2>2 DEF Moved, Placed, Answers
  <2>3. CASE q # r BY <2>3 DEF Moved, Placed, TypeInv
  <2> QED BY <2>1, <2>2, <2>3
<1>2. \A k \in Keys : session'[k] # None => session'[k] \in Session BY DEF OthersOK
<1> QED BY <1>1, <1>2 DEF OthersOK, Moved, TypeInv, TypeOK

LEMMA OthersNow == TypeInv => OthersOK
BY DEF TypeInv, TypeOK, OthersOK

LEMMA IssuedKeys == TypeInv => Issued \subseteq Keys
BY DEF TypeInv, Placed, Issued

LEMMA SignInKeys == TypeInv => \A q \in InFlight : SignInOf(q) \in Keys
BY KeyNames DEF TypeInv, TypeOK, Placed, InFlight, SignInOf, LoginKey, At

LEMMA NothingLocal ==
    /\ Nothing \in Local /\ Nothing.key = None
    /\ \A o \in Local : /\ o.key \in Keys \cup {None} /\ o.creds \in Cases \cup {None}
                        /\ o.case \in Cases \cup {None} /\ o.left \in Nat
BY DEF Nothing, Local, Kinds

\* The steps that leave the sessions and their histories alone.
Quiet == UNCHANGED <<cases, session, now, sweeps, born, root, ended, crossing, loose>>

\* One lemma per handler: where it goes, with what, and what it changes.
LEMMA SignInMoves ==
    ASSUME TypeInv, NEW r \in Requests, NEW c \in mix.cases, SignIn(r, c)
    PROVE  \E o \in Local : Moved(r, "auth", o) /\ o.key = None /\ Placed("auth", o)
<1> DEFINE o == [Nothing EXCEPT !.kind = "sign_in", !.creds = c]
<1>1. c \in Cases BY ReporterAssumption DEF TypeInv, TypeOK
<1>2. o \in Local /\ o.key = None /\ o.creds = c BY <1>1 DEF Nothing, Local, Kinds
<1>3. Move(r, "auth", o) BY DEF SignIn
<1> HIDE DEF o
<1> QED BY <1>1, <1>2, <1>3, MoveFacts DEF Steps, Placed

LEMMA AuthMoves ==
    ASSUME TypeInv, NEW r \in Requests, Auth(r)
    PROVE  \E l \in {"login", "refused"}, o \in Local :
              /\ Moved(r, l, o) /\ o.key = op[r].key /\ Placed(l, o)
              /\ l = "login" => o.case \in cases
<1>1. op[r] \in Local /\ op[r].creds \in Cases BY DEF Auth, At, TypeInv, TypeOK, Placed
<1>2. CASE op[r].creds \in cases
  <2> DEFINE b == op[r].creds \in closed
  <2> DEFINE o == [op[r] EXCEPT !.case = op[r].creds, !.closed = b]
  <2>0. b \in BOOLEAN OBVIOUS
  <2> HIDE DEF b
  <2>1. o \in Local /\ o.key = op[r].key /\ o.case = op[r].creds BY <1>1, <2>0 DEF Local
  <2> USE DEF b
  <2>2. Move(r, "login", o) BY <1>2 DEF Auth
  <2> HIDE DEF o
  <2> QED BY <1>1, <1>2, <2>1, <2>2, MoveFacts DEF Steps, Placed
<1>3. CASE op[r].creds \notin cases
  BY <1>1, <1>3, MoveFacts DEF Auth, Go, Answers, Placed
<1> QED BY <1>2, <1>3

LEMMA ViewMoves ==
    ASSUME TypeInv, NEW r \in Requests, NEW k \in Issued, View(r, k)
    PROVE  \E l \in {"look", "form"}, o \in Local : Moved(r, l, o) /\ o.key = None /\ Placed(l, o)
<1> DEFINE l == IF Live(k) THEN "look" ELSE "form"
           o == [Nothing EXCEPT !.case = IF Live(k) THEN session[k].case ELSE None]
<1>1. Live(k) => session[k].case \in Cases BY IssuedKeys DEF TypeInv, Session, Live
<1>2. o \in Local /\ o.key = None /\ (l = "look" => o.case \in Cases) BY <1>1 DEF Nothing, Local, Kinds
<1>3. Move(r, l, o) BY DEF View
<1>4. l \in {"look", "form"} OBVIOUS
<1> HIDE DEF o, l
<1> QED BY <1>2, <1>3, <1>4, MoveFacts DEF Steps, Answers, Placed

LEMMA ReplyMoves ==
    ASSUME TypeInv, NEW r \in Requests, NEW k \in Issued \cup {None}, NEW creds \in mix.cases \cup {None},
           Reply(r, k, creds)
    PROVE  \/ k \in Keys /\ Live(k) /\ \E o \in Local :
                 Moved(r, "load", o) /\ o.key = k /\ o.case = session[k].case /\ Placed("load", o)
           \/ ~(k # None /\ Live(k)) /\ \E l \in {"unsent", "auth"}, o \in Local :
                 Moved(r, l, o) /\ o.key = None /\ Placed(l, o)
<1> DEFINE n == [Nothing EXCEPT !.kind = "reply", !.creds = creds]
<1>1. creds \in Cases \cup {None} BY ReporterAssumption DEF TypeInv, TypeOK
<1>2. n \in Local /\ n.key = None /\ n.creds = creds BY <1>1 DEF Nothing, Local, Kinds
<1>3. CASE k # None /\ Live(k)
  <2>1. k \in Keys /\ session[k].case \in Cases BY <1>3, IssuedKeys DEF TypeInv, Session, Live
  <2> DEFINE o == [n EXCEPT !.key = k, !.case = session[k].case]
  <2>2. o \in Local /\ o.key = k /\ o.case = session[k].case /\ o.creds = creds BY <1>2, <2>1 DEF Local
  <2>3. Move(r, "load", o) BY <1>3 DEF Reply
  <2> HIDE DEF o, n
  <2> QED BY <1>1, <1>3, <2>1, <2>2, <2>3, MoveFacts DEF Steps, Placed
<1>4. CASE ~(k # None /\ Live(k))
  <2> DEFINE l == IF creds = None THEN "unsent" ELSE "auth"
  <2>1. Move(r, l, n) BY <1>4 DEF Reply
  <2>2. l \in {"unsent", "auth"} /\ (l = "auth" => n.creds \in Cases) BY <1>1, <1>2
  <2> HIDE DEF l, n
  <2> QED BY <1>2, <1>4, <2>1, <2>2, MoveFacts DEF Steps, Answers, Placed
<1> QED BY <1>3, <1>4

LEMMA LookMoves ==
    ASSUME TypeInv, NEW r \in Requests, Look(r)
    PROVE  \E l \in {"shown", "form"} : Moved(r, l, op[r]) /\ Placed(l, op[r])
<1>1. op[r] \in Local BY DEF TypeInv, TypeOK
<1> QED BY <1>1, MoveFacts DEF Look, Go, Answers, Placed

LEMMA LoadMoves ==
    ASSUME TypeInv, NEW r \in Requests, NEW ok \in BOOLEAN, Load(r, ok)
    PROVE  \E l \in {"post", "refused", "unsent", "auth"}, o \in Local :
              /\ Moved(r, l, o) /\ o.key = op[r].key /\ o.case = op[r].case /\ Placed(l, o)
              /\ l = "post" => o.case \in cases
<1>1. /\ op[r] \in Local /\ op[r].creds \in Cases \cup {None} /\ op[r].case \in Cases /\ op[r].key \in Keys
      /\ pc[r] = "load"
  BY DEF Load, At, TypeInv, TypeOK, Placed
<1>2. CASE op[r].case \in cases
  <2> DEFINE b == op[r].case \in closed
  <2> DEFINE o == [op[r] EXCEPT !.closed = b]
             l == IF ok THEN "post" ELSE "refused"
  <2>0. b \in BOOLEAN OBVIOUS
  <2> HIDE DEF b
  <2>1. o \in Local /\ o.key = op[r].key /\ o.case = op[r].case BY <1>1, <2>0 DEF Local
  <2> USE DEF b
  <2>2. Move(r, l, o) /\ l \in {"post", "refused"} BY <1>2 DEF Load
  <2> HIDE DEF o, l
  <2> QED BY <1>1, <1>2, <2>1, <2>2, MoveFacts DEF Steps, Answers, Placed
<1>3. CASE op[r].case \notin cases
  <2> DEFINE l == IF op[r].creds = None THEN "unsent" ELSE "auth"
  <2>1. Move(r, l, op[r]) /\ l \in {"unsent", "auth"} /\ (l = "auth" => op[r].creds \in Cases)
    BY <1>1, <1>3 DEF Load, Go
  <2> HIDE DEF l
  <2> QED BY <1>1, <2>1, MoveFacts DEF Steps, Answers, Placed
<1> QED BY <1>2, <1>3

\* Post, InsertLink and Die keep their locals, and so do a log-out and an unlinking.
LEMMA GoMoves ==
    ASSUME TypeInv, NEW r \in Requests, NEW l \in Steps \cup Answers, Go(r, l),
           l \notin {"signed_in", "sent", "closed"},
           l \in Steps => (l = "drop" /\ pc[r] = "fresh") \/ (l = "ttl" /\ pc[r] = "post")
    PROVE  Moved(r, l, op[r]) /\ Placed(l, op[r])
<1>1. op[r] \in Local /\ Placed(pc[r], op[r]) BY DEF TypeInv, TypeOK
<1>2. Moved(r, l, op[r]) BY <1>1, MoveFacts DEF Go
<1> QED BY <1>1, <1>2 DEF Placed, Steps, Answers

----------------------------------------------------------------------------
(* What a step does to the sessions *)

\* A request has made its sign-in's key, a fresh key: it is past the steps before.
Made(r)      == pc[r] \notin {"idle", "auth", "load", "login"}
FreshMade(r) == pc[r] \in {"drop", "sent", "closed", "error"}

\* Steps that neither make a key nor drop one, nor begin with a key.
QuietStep(r) ==
    /\ \E l \in {"auth", "login", "look", "form", "unsent", "done", "insert", "refused", "post",
                 "ttl", "error", "shown", "linked"}, o \in Local :
          /\ Moved(r, l, o) /\ Placed(l, o)
          /\ o.key \in {None, op[r].key}
          /\ Made(r) => l \notin {"auth", "login"}
          /\ l = "login" => pc[r] = "auth" /\ o.case \in cases
          /\ l \in {"post", "ttl"} =>
                /\ o.key = op[r].key
                /\ \/ pc[r] = "load" /\ o.case \in cases
                   \/ pc[r] = "post" /\ o.case = op[r].case
    /\ pc[r] \in {"idle", "auth", "load", "post", "look", "insert"}
    /\ Quiet

LoginStep(r) ==
    /\ pc[r] = "login"
    /\ \E l \in {"signed_in", "post", "refused"}, o \in Local :
          Moved(r, l, o) /\ Placed(l, o) /\ o.key = LoginKey(r) /\ o.case = op[r].case
    /\ session'[LoginKey(r)] = [case |-> op[r].case, until |-> now + Life]
    /\ \A k \in Keys \ {LoginKey(r)} : session'[k] = session[k] /\ born'[k] = born[k]
    /\ born'[LoginKey(r)] = now
    /\ UNCHANGED <<cases, now, sweeps, root, ended, crossing, loose>>

ReplyStep(r) ==
    /\ pc[r] = "idle"
    /\ \E o \in Local :
          /\ Moved(r, "load", o) /\ Placed("load", o)
          /\ Live(o.key) /\ o.case = session[o.key].case
          /\ crossing' = crossing \cup Overlapped(o.key)
    /\ UNCHANGED <<cases, session, now, sweeps, born, root, ended, loose>>

TtlStep(r) ==
    /\ pc[r] = "ttl"
    /\ \E o \in Local :
          /\ Moved(r, "fresh", o) /\ Placed("fresh", o)
          /\ o.key = op[r].key /\ o.case = op[r].case
          /\ Live(o.key) => o.left = Left(o.key)
    /\ loose' = IF Live(op[r].key) THEN loose ELSE loose \cup {root[op[r].key]}
    /\ UNCHANGED <<cases, session, now, sweeps, born, root, ended, crossing>>

FreshStep(r) ==
    /\ pc[r] = "fresh"
    /\ Moved(r, "drop", op[r]) /\ Placed("drop", op[r])
    /\ session'[FreshKey(r)] = [case |-> op[r].case, until |-> now + op[r].left]
    /\ root'[FreshKey(r)] = root[op[r].key]
    /\ \A k \in Keys \ {FreshKey(r)} : session'[k] = session[k] /\ root'[k] = root[k]
    /\ UNCHANGED <<cases, now, sweeps, born, ended, crossing, loose>>

DropStep(r) ==
    /\ pc[r] = "drop"
    /\ \E l \in {"closed", "sent"}, o \in Local :
          Moved(r, l, o) /\ Placed(l, o) /\ o.key = FreshKey(r)
    /\ session'[op[r].key] = None
    /\ \A k \in Keys \ {op[r].key} : session'[k] = session[k]
    /\ UNCHANGED <<cases, now, sweeps, born, root, ended, crossing, loose>>

LogoutStep(r, k) ==
    /\ pc[r] = "idle" /\ k \in Keys
    /\ Moved(r, "done", op[r]) /\ Placed("done", op[r])
    /\ session'[k] = None
    /\ \A j \in Keys \ {k} : session'[j] = session[j]
    /\ ended' = IF Live(k) THEN ended \cup {root[k]} ELSE ended
    /\ crossing' = crossing \cup Overlapped(k)
    /\ UNCHANGED <<cases, now, sweeps, born, root, loose>>

DieStep(r) ==
    /\ pc[r] \in {"ttl", "fresh", "drop"}
    /\ Moved(r, "error", op[r]) /\ Placed("error", op[r])
    /\ crossing' = crossing \cup {SignInOf(r)}
    /\ UNCHANGED <<cases, session, now, sweeps, born, root, ended, loose>>

LEMMA QuietSteps ==
    ASSUME TypeInv, NEW r \in Requests,
           \/ \E c \in mix.cases : SignIn(r, c)
           \/ \E k \in Issued : View(r, k)
           \/ Auth(r) \/ Look(r) \/ Post(r) \/ InsertLink(r)
           \/ \E ok \in BOOLEAN : Load(r, ok)
           \/ \E pair \in Pairs : Link(r, pair)
           \/ \E l \in links : Unlink(r, l)
    PROVE  QuietStep(r)
<1>1. CASE \E c \in mix.cases : SignIn(r, c)
  BY <1>1, SignInMoves DEF SignIn, Free, At, QuietStep, Quiet, rows, sweeps, history, Made
<1>2. CASE \E k \in Issued : View(r, k)
  BY <1>2, ViewMoves DEF View, Free, At, QuietStep, Quiet, rows, sweeps, history, Made
<1>3. CASE Auth(r)
  BY <1>3, AuthMoves DEF Auth, At, QuietStep, Quiet, rows, sweeps, history, Made
<1>4. CASE Look(r)
  <2>1. op[r] \in Local BY DEF TypeInv, TypeOK
  <2> QED BY <1>4, <2>1, LookMoves DEF Look, At, QuietStep, Quiet, rows, sweeps, history, Made
<1>5. CASE Post(r)
  <2>1. op[r] \in Local BY DEF TypeInv, TypeOK
  <2>2. PICK l \in {"ttl", "error"} : Go(r, l) BY <1>5 DEF Post
  <2>3. pc[r] = "post" BY <1>5 DEF Post, At
  <2>4. Moved(r, l, op[r]) /\ Placed(l, op[r]) BY <2>2, <2>3, GoMoves DEF Steps, Answers
  <2>5. Quiet BY <1>5 DEF Post, Quiet, sweeps, history
  <2> QED BY <2>1, <2>2, <2>3, <2>4, <2>5 DEF QuietStep, Made
<1>6. CASE InsertLink(r)
  <2>1. op[r] \in Local BY DEF TypeInv, TypeOK
  <2>2. PICK l \in {"linked", "error"} : Go(r, l) BY <1>6 DEF InsertLink
  <2>3. Moved(r, l, op[r]) /\ Placed(l, op[r]) BY <2>2, GoMoves DEF Steps, Answers
  <2>4. Quiet /\ pc[r] = "insert" BY <1>6 DEF InsertLink, Quiet, sweeps, At
  <2> QED BY <2>1, <2>2, <2>3, <2>4 DEF QuietStep, Made
<1>7. CASE \E ok \in BOOLEAN : Load(r, ok)
  <2>1. PICK ok \in BOOLEAN : Load(r, ok) BY <1>7
  <2>2. pc[r] = "load" /\ Quiet BY <2>1 DEF Load, At, Quiet, rows, sweeps, history
  <2> QED BY <2>1, <2>2, LoadMoves DEF QuietStep, Made
<1>8. CASE \E pair \in Pairs : Link(r, pair)
  <2>1. PICK pair \in Pairs : Link(r, pair) BY <1>8
  <2> DEFINE o == [Nothing EXCEPT !.kind = "link", !.pair = pair]
  <2>2. PICK l \in {"insert", "refused"} : Move(r, l, o) BY <2>1 DEF Link
  <2>3. pair \subseteq Cases BY DEF Pairs
  <2>4. o \in Local /\ o.key = None /\ o.pair = pair BY <2>3 DEF Nothing, Local, Kinds
  <2>5. pc[r] = "idle" /\ Quiet BY <2>1 DEF Link, Free, At, Quiet, rows, sweeps, history
  <2> HIDE DEF o
  <2>6. Moved(r, l, o) BY <2>2, <2>4, MoveFacts DEF Steps, Answers
  <2>7. Placed(l, o) BY <2>2, <2>4 DEF Placed
  <2> QED BY <2>2, <2>4, <2>5, <2>6, <2>7 DEF QuietStep, Made
<1>9. CASE \E l \in links : Unlink(r, l)
  <2>1. op[r] \in Local BY DEF TypeInv, TypeOK
  <2>2. Go(r, "done") /\ pc[r] = "idle" /\ Quiet
    BY <1>9 DEF Unlink, Free, At, Quiet, sweeps, history
  <2>3. Moved(r, "done", op[r]) /\ Placed("done", op[r]) BY <2>2, GoMoves DEF Steps, Answers
  <2> QED BY <2>1, <2>2, <2>3 DEF QuietStep, Made
<1> QED BY <1>1, <1>2, <1>3, <1>4, <1>5, <1>6, <1>7, <1>8, <1>9

LEMMA LoginSteps ==
    ASSUME TypeInv, NEW r \in Requests, NEW ok \in BOOLEAN, Login(r, ok)
    PROVE  LoginStep(r)
<1>1. /\ op[r] \in Local /\ op[r].case \in Cases /\ pc[r] = "login" /\ session \in [Keys -> Session \cup {None}]
      /\ born \in [Keys -> Nat]
  BY DEF Login, At, TypeInv, TypeOK, Placed
<1> DEFINE o == [op[r] EXCEPT !.key = LoginKey(r)]
<1>2. o \in Local /\ o.key = LoginKey(r) /\ o.case = op[r].case BY <1>1, KeyNames DEF Local
<1>3. PICK l \in {"signed_in", "post", "refused"} : Move(r, l, o) BY DEF Login, LoginKey
<1>4. /\ session' = [session EXCEPT ![LoginKey(r)] = [case |-> op[r].case, until |-> now + Life]]
      /\ born' = [born EXCEPT ![LoginKey(r)] = now]
      /\ UNCHANGED <<cases, now, sweeps, root, ended, crossing, loose>>
  BY DEF Login, Put, LoginKey, rows
<1> HIDE DEF o
<1>5. Moved(r, l, o) BY <1>2, <1>3, MoveFacts DEF Steps, Answers
<1>6. Placed(l, o) BY <1>1, <1>2, <1>3, KeyNames DEF Placed
<1> QED BY <1>1, <1>2, <1>3, <1>4, <1>5, <1>6, KeyNames DEF LoginStep

LEMMA ReplySteps ==
    ASSUME TypeInv, NEW r \in Requests, NEW k \in Issued \cup {None}, NEW creds \in mix.cases \cup {None},
           Reply(r, k, creds)
    PROVE  ReplyStep(r) \/ QuietStep(r)
<1>1. pc[r] = "idle" BY DEF Reply, Free, At
<1>2. CASE k # None /\ Live(k)
  <2>1. crossing' = crossing \cup Overlapped(k) BY <1>2 DEF Reply
  <2>2. UNCHANGED <<cases, session, now, sweeps, born, root, ended, loose>> BY DEF Reply, rows
  <2> QED BY <1>1, <1>2, <2>1, <2>2, ReplyMoves DEF ReplyStep
<1>3. CASE ~(k # None /\ Live(k))
  <2>1. crossing' = crossing BY <1>3 DEF Reply
  <2>2. Quiet BY <2>1 DEF Reply, rows, Quiet
  <2>3. PICK l \in {"unsent", "auth"}, o \in Local : Moved(r, l, o) /\ o.key = None /\ Placed(l, o)
    BY <1>3, ReplyMoves, KeyNames
  <2>4. ~Made(r) BY <1>1 DEF Made
  <2> QED BY <1>1, <2>2, <2>3, <2>4 DEF QuietStep
<1> QED BY <1>2, <1>3

LEMMA TtlSteps ==
    ASSUME TypeInv, NEW r \in Requests, Ttl(r)
    PROVE  TtlStep(r)
<1>1. /\ op[r] \in Local /\ op[r].key \in Keys /\ op[r].case \in Cases /\ pc[r] = "ttl" /\ now \in Nat
      /\ Live(op[r].key) => session[op[r].key].until \in Nat
  BY DEF Ttl, At, TypeInv, TypeOK, Placed, Live, Session
<1>2. Left(op[r].key) \in Nat /\ Left(op[r].key) >= 1 BY <1>1 DEF Left
<1> DEFINE n == Left(op[r].key)
<1> DEFINE o == [op[r] EXCEPT !.left = n]
<1>3. Move(r, "fresh", o) BY DEF Ttl
<1>4. /\ loose' = IF Live(op[r].key) THEN loose ELSE loose \cup {root[op[r].key]}
      /\ UNCHANGED <<cases, session, now, sweeps, born, root, ended, crossing>>
  BY DEF Ttl, rows
<1> HIDE DEF n
<1>5. o \in Local /\ o.key = op[r].key /\ o.case = op[r].case /\ o.left = n BY <1>1, <1>2 DEF Local, n
<1> HIDE DEF o
<1>6. Moved(r, "fresh", o) BY <1>3, <1>5, MoveFacts DEF Steps
<1>7. Placed("fresh", o) BY <1>1, <1>2, <1>5 DEF Placed, n
<1>8. o.left = Left(o.key) BY <1>5 DEF n
<1> QED BY <1>1, <1>4, <1>5, <1>6, <1>7, <1>8 DEF TtlStep

LEMMA FreshSteps ==
    ASSUME TypeInv, NEW r \in Requests, Fresh(r)
    PROVE  FreshStep(r)
<1>1. /\ session \in [Keys -> Session \cup {None}] /\ root \in [Keys -> Keys] /\ pc[r] = "fresh"
  BY DEF Fresh, At, TypeInv, TypeOK
<1>2. /\ session' = [session EXCEPT ![FreshKey(r)] = [case |-> op[r].case, until |-> now + op[r].left]]
      /\ root' = [root EXCEPT ![FreshKey(r)] = root[op[r].key]]
      /\ Go(r, "drop")
      /\ UNCHANGED <<cases, now, sweeps, born, ended, crossing, loose>>
  BY DEF Fresh, Put, FreshKey, rows
<1>3. Moved(r, "drop", op[r]) /\ Placed("drop", op[r]) BY <1>1, <1>2, GoMoves DEF Steps, Answers
<1> QED BY <1>1, <1>2, <1>3, KeyNames DEF FreshStep

LEMMA DropSteps ==
    ASSUME TypeInv, NEW r \in Requests, DropOld(r)
    PROVE  DropStep(r)
<1>1. /\ op[r] \in Local /\ op[r].key \in Keys /\ pc[r] = "drop" /\ session \in [Keys -> Session \cup {None}]
  BY DEF DropOld, At, TypeInv, TypeOK, Placed
<1> DEFINE o == [op[r] EXCEPT !.key = FreshKey(r)]
<1>2. o \in Local /\ o.key = FreshKey(r) BY <1>1, KeyNames DEF Local
<1>3. PICK l \in {"closed", "sent"} : Move(r, l, o) BY DEF DropOld, FreshKey
<1>4. /\ session' = [session EXCEPT ![op[r].key] = None]
      /\ UNCHANGED <<cases, now, sweeps, born, root, ended, crossing, loose>>
  BY DEF DropOld, Drop, rows, history
<1> HIDE DEF o
<1>5. Moved(r, l, o) BY <1>2, <1>3, MoveFacts DEF Answers
<1>6. Placed(l, o) BY <1>2, <1>3, KeyNames DEF Placed
<1> QED BY <1>1, <1>2, <1>3, <1>4, <1>5, <1>6 DEF DropStep

LEMMA LogoutSteps ==
    ASSUME TypeInv, NEW r \in Requests, NEW k \in Issued, Logout(r, k)
    PROVE  LogoutStep(r, k)
<1>1. k \in Keys /\ session \in [Keys -> Session \cup {None}] /\ pc[r] = "idle" BY IssuedKeys DEF Logout, Free, At, TypeInv, TypeOK
<1>2. /\ session' = [session EXCEPT ![k] = None]
      /\ ended' = IF Live(k) THEN ended \cup {root[k]} ELSE ended
      /\ crossing' = crossing \cup Overlapped(k)
      /\ Go(r, "done")
      /\ UNCHANGED <<cases, now, sweeps, born, root, loose>>
  BY DEF Logout, Drop, rows
<1>3. Moved(r, "done", op[r]) /\ Placed("done", op[r]) BY <1>2, GoMoves DEF Steps, Answers
<1> QED BY <1>1, <1>2, <1>3 DEF LogoutStep

LEMMA DieSteps ==
    ASSUME TypeInv, NEW r \in Requests, Die(r)
    PROVE  DieStep(r)
<1>1. Go(r, "error") BY DEF Die
<1>2. Moved(r, "error", op[r]) /\ Placed("error", op[r]) BY <1>1, GoMoves DEF Steps, Answers
<1> QED BY <1>2 DEF Die, DieStep, rows

LEMMA HandleSteps ==
    ASSUME TypeInv, NEW r \in Requests, Handle(r)
    PROVE  \/ QuietStep(r) \/ LoginStep(r) \/ ReplyStep(r) \/ TtlStep(r) \/ FreshStep(r) \/ DropStep(r)
           \/ (\E k \in Issued : LogoutStep(r, k)) \/ DieStep(r)
BY QuietSteps, LoginSteps, ReplySteps, TtlSteps, FreshSteps, DropSteps, LogoutSteps, DieSteps DEF Handle

----------------------------------------------------------------------------
(* Types stay *)

\* One step of a request, whatever it is.
LEMMA SomeMove ==
    ASSUME TypeInv, NEW r \in Requests, Handle(r)
    PROVE  \E l \in {"idle"} \cup Steps \cup Answers, o \in Local : Moved(r, l, o) /\ Placed(l, o)
<1>1. op[r] \in Local BY DEF TypeInv, TypeOK
<1>2. CASE QuietStep(r) BY <1>2 DEF QuietStep, Steps, Answers
<1>3. CASE LoginStep(r) BY <1>3 DEF LoginStep, Steps, Answers
<1>4. CASE ReplyStep(r) BY <1>4 DEF ReplyStep, Steps
<1>5. CASE TtlStep(r) BY <1>5 DEF TtlStep, Steps
<1>6. CASE FreshStep(r) BY <1>1, <1>6 DEF FreshStep, Steps
<1>7. CASE DropStep(r) BY <1>7 DEF DropStep, Answers
<1>8. CASE \E k \in Issued : LogoutStep(r, k) BY <1>1, <1>8 DEF LogoutStep, Answers
<1>9. CASE DieStep(r) BY <1>1, <1>9 DEF DieStep, Answers
<1> QED BY <1>2, <1>3, <1>4, <1>5, <1>6, <1>7, <1>8, <1>9, HandleSteps

LEMMA OverlappedKeys == TypeInv => \A k \in Keys : Overlapped(k) \subseteq Keys
BY DEF TypeInv, TypeOK, Overlapped

LEMMA OthersStay ==
    ASSUME TypeInv, NEW r \in Requests, Handle(r)
    PROVE  OthersOK'
<1>1. OthersOK BY OthersNow
<1>2. PICK l \in {"idle"} \cup Steps \cup Answers, o \in Local : Moved(r, l, o) BY SomeMove
<1>3. mix' = mix BY <1>2 DEF Moved
<1>4. /\ pc[r] \in {"post", "ttl", "fresh", "drop"} => op[r].key \in Keys
      /\ pc[r] \in {"login", "post", "ttl", "fresh", "drop"} => op[r].case \in Cases
      /\ op[r].left \in Nat
      /\ pc[r] = "insert" => op[r].pair \in Pairs
  BY NothingLocal DEF TypeInv, TypeOK, Placed
<1>5. CASE \/ \E c \in mix.cases : SignIn(r, c)
           \/ \E k \in Issued : View(r, k)
           \/ Auth(r) \/ Look(r)
           \/ \E ok \in BOOLEAN : Load(r, ok)
           \/ \E pair \in Pairs : Link(r, pair)
  <2>1. UNCHANGED <<rows, session, now, sweeps, history>>
    BY <1>5 DEF SignIn, View, Auth, Look, Load, Link
  <2> QED BY <1>1, <1>3, <2>1 DEF OthersOK, rows, sweeps, history
<1>6. CASE Post(r)
  <2>1. op[r].case \in cases => op[r].case \in Cases BY <1>1 DEF OthersOK
  <2>2. pc[r] = "post" BY <1>6 DEF Post, At
  <2>3. messages' \subseteq [by : Requests, case : Cases] BY <1>1, <1>4, <1>6, <2>2 DEF Post, OthersOK
  <2>4. UNCHANGED <<cases, closed, links, session, now, sweeps, history>> BY <1>6 DEF Post
  <2> QED BY <1>1, <1>3, <2>3, <2>4 DEF OthersOK, sweeps, history
<1>7. CASE InsertLink(r)
  <2>1. pc[r] = "insert" BY <1>7 DEF InsertLink, At
  <2>2. links' \subseteq [by : Requests, pair : Pairs] /\ doubled' \subseteq Requests
    BY <1>1, <1>4, <1>7, <2>1 DEF InsertLink, OthersOK
  <2>3. UNCHANGED <<cases, closed, messages, session, now, sweeps, born, root, ended, crossing, loose>>
    BY <1>7 DEF InsertLink
  <2> QED BY <1>1, <1>3, <2>2, <2>3 DEF OthersOK, sweeps
<1>8. CASE \E l0 \in links : Unlink(r, l0)
  <2>1. links' \subseteq links BY <1>8 DEF Unlink
  <2>2. UNCHANGED <<cases, closed, messages, session, now, sweeps, history>> BY <1>8 DEF Unlink
  <2> QED BY <1>1, <1>3, <2>1, <2>2 DEF OthersOK, sweeps, history
<1>9. CASE \E ok \in BOOLEAN : Login(r, ok)
  <2>1. pc[r] = "login" /\ UNCHANGED <<rows, now, sweeps, root, ended, crossing, loose, doubled>>
    BY <1>9 DEF Login, At
  <2>2. /\ session' = [session EXCEPT ![LoginKey(r)] = [case |-> op[r].case, until |-> now + Life]]
        /\ born' = [born EXCEPT ![LoginKey(r)] = now]
    BY <1>9 DEF Login, Put, LoginKey
  <2>3. [case |-> op[r].case, until |-> now + Life] \in Session
    BY <1>1, <1>4, <2>1, ReporterAssumption DEF OthersOK, Session
  <2>4. session' \in [Keys -> Session \cup {None}] /\ born' \in [Keys -> Nat]
    BY <1>1, <2>2, <2>3, KeyNames DEF OthersOK
  <2> QED BY <1>1, <1>3, <2>1, <2>4 DEF OthersOK, rows, sweeps
<1>10. CASE \E k \in Issued \cup {None}, creds \in mix.cases \cup {None} : Reply(r, k, creds)
  <2>1. crossing' \subseteq Keys
    BY <1>1, <1>10, IssuedKeys, OverlappedKeys DEF Reply, OthersOK
  <2>2. UNCHANGED <<rows, session, now, sweeps, born, root, ended, loose, doubled>> BY <1>10 DEF Reply
  <2> QED BY <1>1, <1>3, <2>1, <2>2 DEF OthersOK, rows, sweeps
<1>11. CASE Ttl(r)
  <2>1. pc[r] = "ttl" BY <1>11 DEF Ttl, At
  <2>2. loose' \subseteq Keys BY <1>1, <1>4, <1>11, <2>1 DEF Ttl, OthersOK
  <2>3. UNCHANGED <<rows, session, now, sweeps, born, root, ended, crossing, doubled>> BY <1>11 DEF Ttl
  <2> QED BY <1>1, <1>3, <2>2, <2>3 DEF OthersOK, rows, sweeps
<1>12. CASE Fresh(r)
  <2>1. pc[r] = "fresh" /\ UNCHANGED <<rows, now, sweeps, born, ended, crossing, loose, doubled>>
    BY <1>12 DEF Fresh, At
  <2>2. /\ session' = [session EXCEPT ![FreshKey(r)] = [case |-> op[r].case, until |-> now + op[r].left]]
        /\ root' = [root EXCEPT ![FreshKey(r)] = root[op[r].key]]
    BY <1>12 DEF Fresh, Put, FreshKey
  <2>3. [case |-> op[r].case, until |-> now + op[r].left] \in Session
    BY <1>1, <1>4, <2>1 DEF OthersOK, Session
  <2>4. session' \in [Keys -> Session \cup {None}] /\ root' \in [Keys -> Keys]
    BY <1>1, <1>4, <2>1, <2>2, <2>3, KeyNames DEF OthersOK
  <2> QED BY <1>1, <1>3, <2>1, <2>4 DEF OthersOK, rows, sweeps
<1>13. CASE DropOld(r)
  <2>1. session' \in [Keys -> Session \cup {None}] BY <1>1, <1>13 DEF DropOld, Drop, OthersOK
  <2>2. UNCHANGED <<rows, now, sweeps, history>> BY <1>13 DEF DropOld
  <2> QED BY <1>1, <1>3, <2>1, <2>2 DEF OthersOK, rows, sweeps, history
<1>14. CASE \E k \in Issued : Logout(r, k)
  <2>1. PICK k \in Keys : Logout(r, k) BY <1>14, IssuedKeys
  <2>2. session' \in [Keys -> Session \cup {None}] BY <1>1, <2>1 DEF Logout, Drop, OthersOK
  <2>3. ended' \subseteq Keys /\ crossing' \subseteq Keys
    BY <1>1, <2>1, OverlappedKeys DEF Logout, OthersOK
  <2>4. UNCHANGED <<rows, now, sweeps, born, root, loose, doubled>> BY <2>1 DEF Logout
  <2> QED BY <1>1, <1>3, <2>2, <2>3, <2>4 DEF OthersOK, rows, sweeps
<1>15. CASE Die(r)
  <2>1. crossing' \subseteq Keys BY <1>1, <1>15, SignInKeys DEF Die, OthersOK, InFlight
  <2>2. UNCHANGED <<rows, session, now, sweeps, born, root, ended, loose, doubled>> BY <1>15 DEF Die
  <2> QED BY <1>1, <1>3, <2>1, <2>2 DEF OthersOK, rows, sweeps
<1> QED BY <1>5, <1>6, <1>7, <1>8, <1>9, <1>10, <1>11, <1>12, <1>13, <1>14, <1>15 DEF Handle

\* The steps of nobody: what is left alone by all of them.
Around == UNCHANGED <<pc, op, mix, born, root, ended, doubled>>

LEMMA AroundType ==
    ASSUME TypeInv, Around, OthersOK'
    PROVE  TypeInv'
<1>1. \A r \in Requests : Placed(pc[r], op[r])' BY DEF Around, TypeInv, Placed
<1>2. \A k \in Keys : session'[k] # None => session'[k] \in Session BY DEF OthersOK
<1> QED BY <1>1, <1>2 DEF TypeInv, TypeOK, Around, OthersOK

LEMMA AroundStays ==
    ASSUME TypeInv, NEW c \in Cases,
           \/ Delete(c) \/ SweepFails(c) \/ CloseOrReopen(c)
           \/ \E also \in SUBSET {k \in LiveKeys : session[k].case = c} : Sweep(c, also)
    PROVE  Around /\ OthersOK'
<1>1. OthersOK BY OthersNow
<1>2. CASE Delete(c)
  <2>1. crossing' \subseteq Keys
    BY <1>1, <1>2, SignInKeys DEF Delete, OthersOK
  <2>2. LiveKeys \subseteq Keys BY DEF LiveKeys
  <2>3. found' \in [Cases -> SUBSET Keys] /\ sweep' \in [Cases -> {"no", "scanning", "swept", "unswept"}]
    BY <1>1, <1>2, <2>2 DEF Delete, OthersOK
  <2> QED BY <1>1, <1>2, <2>1, <2>3 DEF Delete, OthersOK, Around
<1>3. CASE SweepFails(c)
  BY <1>1, <1>3 DEF SweepFails, OthersOK, Around, rows, history
<1>4. CASE CloseOrReopen(c)
  BY <1>1, <1>4 DEF CloseOrReopen, OthersOK, Around, sweeps, history
<1>5. CASE \E also \in SUBSET {k \in LiveKeys : session[k].case = c} : Sweep(c, also)
  BY <1>1, <1>5 DEF Sweep, OthersOK, Around, rows, history
<1> QED BY <1>2, <1>3, <1>4, <1>5

LEMMA TickStays ==
    ASSUME TypeInv, Tick
    PROVE  Around /\ OthersOK'
<1>1. OthersOK BY OthersNow
<1>2. now' \in Nat BY <1>1 DEF Tick, OthersOK
<1>3. session' \in [Keys -> Session \cup {None}] BY <1>1 DEF Tick, OthersOK
<1>4. loose' \subseteq Keys
  <2>1. \A q \in Requests : At(q, "fresh") => op[q].key \in Keys BY DEF TypeInv, Placed, At
  <2> QED BY <1>1, <2>1 DEF Tick, OthersOK
<1> QED BY <1>1, <1>2, <1>3, <1>4 DEF Tick, OthersOK, Around, rows, sweeps

LEMMA InitType == Init => TypeInv
<1> SUFFICES ASSUME Init PROVE TypeInv
  OBVIOUS
<1>1. Nothing \in Local BY NothingLocal
<1>2. op \in [Requests -> Local] /\ \A r \in Requests : Placed(pc[r], op[r]) BY <1>1 DEF Init, Placed
<1>3. mix \in Mixes /\ cases \subseteq Cases BY ReporterAssumption DEF Init
<1>4. \A k \in Keys : session[k] = None BY DEF Init
<1> QED BY <1>2, <1>3, <1>4, ReporterAssumption DEF Init, TypeInv, TypeOK

LEMMA TypeStep ==
    ASSUME TypeInv, Next
    PROVE  TypeInv'
<1>1. CASE \E r \in Requests : Handle(r)
  BY <1>1, SomeMove, OthersStay, MovedType
<1>2. CASE \E c \in Cases : Delete(c) \/ SweepFails(c) \/ CloseOrReopen(c)
  BY <1>2, AroundStays, AroundType
<1>3. CASE \E c \in Cases : \E also \in SUBSET {k \in LiveKeys : session[k].case = c} : Sweep(c, also)
  BY <1>3, AroundStays, AroundType
<1>4. CASE Tick
  BY <1>4, TickStays, AroundType
<1> QED BY <1>1, <1>2, <1>3, <1>4 DEF Next

----------------------------------------------------------------------------
(* Every key goes back to a sign-in *)

KeyOk(k) ==
    /\ \E q \in Requests : root[k] = LoginKey(q) /\ Made(q)
    /\ \A q \in Requests : k = FreshKey(q) => FreshMade(q)

RootInv ==
    /\ \A q \in Requests : root[LoginKey(q)] = LoginKey(q)
    /\ \A k \in Keys : Live(k) => KeyOk(k)
    /\ \A q \in Requests : op[q].key # None => KeyOk(op[q].key)
    /\ \A q \in Requests :
          pc[q] = "drop" => op[q].key # FreshKey(q) /\ root[FreshKey(q)] = root[op[q].key]
    /\ \A k \in ended : \E q \in Requests : k = LoginKey(q) /\ Made(q)

\* Nobody goes back to before making a key.
Forward == \A q \in Requests : (Made(q) => Made(q)') /\ (FreshMade(q) => FreshMade(q)')

LEMMA ForwardStep ==
    ASSUME TypeInv, NEW r \in Requests, Handle(r)
    PROVE  Forward
<1>1. PICK l \in {"idle"} \cup Steps \cup Answers, o \in Local : Moved(r, l, o) BY SomeMove
<1>2. \A q \in Requests \ {r} : pc'[q] = pc[q] BY <1>1 DEF Moved
<1>3. (Made(r) => Made(r)') /\ (FreshMade(r) => FreshMade(r)')
  <2>1. CASE QuietStep(r) BY <2>1 DEF QuietStep, Moved, Made, FreshMade
  <2>2. CASE LoginStep(r) BY <2>2 DEF LoginStep, Moved, Made, FreshMade
  <2>3. CASE ReplyStep(r) BY <2>3 DEF ReplyStep, Moved, Made, FreshMade
  <2>4. CASE TtlStep(r) BY <2>4 DEF TtlStep, Moved, Made, FreshMade
  <2>5. CASE FreshStep(r) BY <2>5 DEF FreshStep, Moved, Made, FreshMade
  <2>6. CASE DropStep(r) BY <2>6 DEF DropStep, Moved, Made, FreshMade
  <2>7. CASE \E k \in Issued : LogoutStep(r, k) BY <2>7 DEF LogoutStep, Moved, Made, FreshMade
  <2>8. CASE DieStep(r) BY <2>8 DEF DieStep, Moved, Made, FreshMade
  <2> QED BY <2>1, <2>2, <2>3, <2>4, <2>5, <2>6, <2>7, <2>8, HandleSteps
<1> QED BY <1>2, <1>3 DEF Made, FreshMade, Forward

\* A key that was made stays one when no key's root changes.
LEMMA KeyStays ==
    ASSUME Forward, NEW k, KeyOk(k), root'[k] = root[k]
    PROVE  KeyOk(k)'
BY DEF KeyOk, Forward

\* Steps of r that make no key: those there are are old, and so is the one it holds.
LEMMA RootKept ==
    ASSUME TypeInv, RootInv, Forward, NEW r \in Requests, NEW l, NEW o, Moved(r, l, o),
           root' = root, \A k \in Keys : Live(k)' => Live(k),
           o.key # None => KeyOk(o.key)', l # "drop",
           \A k \in ended' : k \in ended \/ \E j \in Keys : KeyOk(j) /\ k = root[j]
    PROVE  RootInv'
<1>1. \A q \in Requests : root'[LoginKey(q)] = LoginKey(q) BY DEF RootInv
<1>2. \A k \in Keys : Live(k)' => KeyOk(k)' BY KeyStays DEF RootInv
<1>3. ASSUME NEW q \in Requests, op'[q].key # None PROVE KeyOk(op[q].key)'
  <2>1. CASE q = r BY <1>3, <2>1 DEF Moved
  <2>2. CASE q # r
    <3>1. op'[q] = op[q] BY <2>2 DEF Moved
    <3> QED BY <1>3, <3>1, KeyStays DEF RootInv
  <2> QED BY <2>1, <2>2
<1>4. ASSUME NEW q \in Requests, pc'[q] = "drop"
      PROVE  op'[q].key # FreshKey(q) /\ root'[FreshKey(q)] = root'[op'[q].key]
  <2>1. q # r /\ pc[q] = "drop" /\ op'[q] = op[q] BY <1>4 DEF Moved
  <2> QED BY <2>1 DEF RootInv
<1>5. ASSUME NEW k \in ended' PROVE \E q \in Requests : k = LoginKey(q) /\ Made(q)'
  BY <1>5 DEF RootInv, KeyOk, Forward
<1> QED BY <1>1, <1>2, <1>3, <1>4, <1>5 DEF RootInv, FreshKey, LoginKey

LEMMA RootHandle ==
    ASSUME TypeInv, RootInv, NEW r \in Requests, Handle(r)
    PROVE  RootInv'
<1>1. Forward BY ForwardStep
<1>2. /\ op[r].key # None => KeyOk(op[r].key)
      /\ pc[r] \in {"ttl", "fresh", "drop"} => op[r].key \in Keys
  BY DEF RootInv, TypeInv, Placed
<1>3. CASE QuietStep(r)
  <2>1. PICK l, o : Moved(r, l, o) /\ o.key \in {None, op[r].key} /\ l # "drop" BY <1>3 DEF QuietStep
  <2>2. root' = root /\ ended' = ended /\ session' = session BY <1>3 DEF QuietStep, Quiet
  <2>3. o.key # None => KeyOk(o.key)' BY <1>1, <1>2, <2>1, <2>2, KeyStays
  <2> QED BY <1>1, <2>1, <2>2, <2>3, RootKept DEF Live
<1>4. CASE LoginStep(r)
  <2>1. PICK l \in {"signed_in", "post", "refused"}, o \in Local : Moved(r, l, o) /\ o.key = LoginKey(r)
    BY <1>4 DEF LoginStep
  <2>2. root' = root /\ ended' = ended /\ \A k \in Keys \ {LoginKey(r)} : session'[k] = session[k]
    BY <1>4 DEF LoginStep
  <2>3. Made(r)' BY <2>1 DEF Moved, Made
  <2>4. KeyOk(LoginKey(r))' BY <2>2, <2>3, KeyNames DEF KeyOk, RootInv
  <2>5. \A q \in Requests : root'[LoginKey(q)] = LoginKey(q) BY <2>2 DEF RootInv
  <2>6. \A k \in Keys : Live(k)' => KeyOk(k)'
    <3>1. \A k \in Keys \ {LoginKey(r)} : Live(k)' => KeyOk(k)' BY <1>1, <2>2, KeyStays DEF RootInv, Live
    <3> QED BY <2>4, <3>1
  <2>7. ASSUME NEW q \in Requests, op'[q].key # None PROVE KeyOk(op[q].key)'
    <3>1. CASE q = r BY <2>1, <2>4, <3>1 DEF Moved
    <3>2. CASE q # r
      <4>1. op'[q] = op[q] BY <2>1, <3>2 DEF Moved
      <4> QED BY <1>1, <2>2, <2>7, <4>1, KeyStays DEF RootInv
    <3> QED BY <3>1, <3>2
  <2>8. ASSUME NEW q \in Requests, pc'[q] = "drop"
        PROVE  op'[q].key # FreshKey(q) /\ root'[FreshKey(q)] = root'[op'[q].key]
    <3>1. q # r /\ pc[q] = "drop" /\ op'[q] = op[q] BY <2>1, <2>8 DEF Moved
    <3> QED BY <2>2, <3>1 DEF RootInv
  <2>9. \A k \in ended' : \E q \in Requests : k = LoginKey(q) /\ Made(q)' BY <1>1, <2>2 DEF RootInv, Forward
  <2> QED BY <2>5, <2>6, <2>7, <2>8, <2>9 DEF RootInv, FreshKey, LoginKey
<1>5. CASE ReplyStep(r)
  <2>1. PICK o \in Local : Moved(r, "load", o) /\ Live(o.key) /\ Placed("load", o) BY <1>5 DEF ReplyStep
  <2>2. root' = root /\ ended' = ended /\ session' = session BY <1>5 DEF ReplyStep
  <2>3. KeyOk(o.key)' BY <1>1, <2>1, <2>2, KeyStays DEF RootInv, Placed
  <2> QED BY <1>1, <2>1, <2>2, <2>3, RootKept DEF Live
<1>6. CASE TtlStep(r)
  <2>1. PICK o \in Local : Moved(r, "fresh", o) /\ o.key = op[r].key BY <1>6 DEF TtlStep
  <2>2. root' = root /\ ended' = ended /\ session' = session BY <1>6 DEF TtlStep
  <2>3. o.key # None => KeyOk(o.key)' BY <1>1, <1>2, <2>1, <2>2, KeyStays
  <2> QED BY <1>1, <2>1, <2>2, <2>3, RootKept DEF Live
<1>7. CASE FreshStep(r)
  <2>1. /\ Moved(r, "drop", op[r]) /\ pc[r] = "fresh" /\ ended' = ended
        /\ root'[FreshKey(r)] = root[op[r].key]
        /\ \A k \in Keys \ {FreshKey(r)} : session'[k] = session[k] /\ root'[k] = root[k]
    BY <1>7 DEF FreshStep
  <2>2. op[r].key \in Keys /\ KeyOk(op[r].key) BY <1>2, <2>1, KeyNames
  <2>3. ~FreshMade(r) /\ FreshMade(r)' BY <2>1 DEF FreshMade, Moved
  <2>4. \A k \in Keys : KeyOk(k) => k # FreshKey(r) BY <2>3 DEF KeyOk
  <2>5. \A k \in Keys : KeyOk(k) => KeyOk(k)' BY <1>1, <2>1, <2>4, KeyStays
  <2>6. KeyOk(FreshKey(r))' BY <1>1, <2>1, <2>2, <2>3, KeyNames DEF KeyOk, Forward
  <2>7. \A q \in Requests : root'[LoginKey(q)] = LoginKey(q) BY <2>1, KeyNames DEF RootInv
  <2>8. \A k \in Keys : Live(k)' => KeyOk(k)' BY <2>1, <2>5, <2>6 DEF RootInv, Live
  <2>9. \A q \in Requests : op[q].key # None => op[q].key \in Keys /\ KeyOk(op[q].key)
    BY NothingLocal DEF RootInv, TypeInv, TypeOK
  <2>10. \A q \in Requests : op'[q].key = op[q].key BY <2>1 DEF Moved
  <2>11. \A q \in Requests : op'[q].key # None => KeyOk(op[q].key)' BY <2>5, <2>9, <2>10 DEF KeyOk
  <2>12. ASSUME NEW q \in Requests, pc'[q] = "drop"
         PROVE  op'[q].key # FreshKey(q) /\ root'[FreshKey(q)] = root'[op'[q].key]
    <3>1. CASE q = r BY <2>1, <2>2, <2>4, <2>10, <3>1
    <3>2. CASE q # r
      <4>1. pc[q] = "drop" /\ op[q].key \in Keys BY <2>1, <2>12, <3>2 DEF Moved, TypeInv, Placed
      <4>2. op[q].key # FreshKey(r) /\ FreshKey(q) # FreshKey(r) BY <2>4, <2>9, <3>2, <4>1, KeyNames
      <4> QED BY <2>1, <2>10, <4>1, <4>2, KeyNames DEF RootInv
    <3> QED BY <3>1, <3>2
  <2>13. \A k \in ended' : \E q \in Requests : k = LoginKey(q) /\ Made(q)' BY <1>1, <2>1 DEF RootInv, Forward
  <2> QED BY <2>7, <2>8, <2>11, <2>12, <2>13 DEF RootInv, FreshKey, LoginKey
<1>8. CASE DropStep(r)
  <2>1. PICK l \in {"closed", "sent"}, o \in Local : Moved(r, l, o) /\ o.key = FreshKey(r) BY <1>8 DEF DropStep
  <2>2. /\ root' = root /\ ended' = ended /\ session'[op[r].key] = None /\ pc[r] = "drop"
        /\ \A k \in Keys \ {op[r].key} : session'[k] = session[k]
    BY <1>8 DEF DropStep
  <2>3. KeyOk(op[r].key) /\ root[FreshKey(r)] = root[op[r].key] BY <1>2, <2>2, KeyNames DEF RootInv
  <2>4. \A q \in Requests : FreshKey(r) = FreshKey(q) => FreshMade(q) BY <2>2, KeyNames DEF FreshMade
  <2>5. KeyOk(FreshKey(r)) BY <2>3, <2>4 DEF KeyOk
  <2>6. KeyOk(o.key)' BY <1>1, <2>1, <2>2, <2>5, KeyStays
  <2>7. \A k \in Keys : Live(k)' => Live(k) BY <2>2 DEF Live
  <2> QED BY <1>1, <2>1, <2>2, <2>6, <2>7, RootKept
<1>9. CASE \E k \in Issued : LogoutStep(r, k)
  <2>1. PICK k \in Keys : LogoutStep(r, k) BY <1>9 DEF LogoutStep
  <2>2. /\ Moved(r, "done", op[r]) /\ root' = root /\ session'[k] = None
        /\ \A j \in Keys \ {k} : session'[j] = session[j]
        /\ ended' = IF Live(k) THEN ended \cup {root[k]} ELSE ended
    BY <2>1 DEF LogoutStep
  <2>3. \A j \in Keys : Live(j)' => Live(j) BY <2>2 DEF Live
  <2>4. PICK o : o = op[r] OBVIOUS
  <2>5. Moved(r, "done", o) BY <2>2, <2>4
  <2>6. o.key # None => KeyOk(o.key)' BY <1>1, <1>2, <2>2, <2>4, KeyStays
  <2>7. Live(k) => KeyOk(k) BY DEF RootInv
  <2> QED BY <1>1, <2>2, <2>3, <2>5, <2>6, <2>7, RootKept
<1>10. CASE DieStep(r)
  <2>1. Moved(r, "error", op[r]) /\ root' = root /\ ended' = ended /\ session' = session BY <1>10 DEF DieStep
  <2>2. PICK o : o = op[r] OBVIOUS
  <2>3. Moved(r, "error", o) BY <2>1, <2>2
  <2>4. o.key # None => KeyOk(o.key)' BY <1>1, <1>2, <2>1, <2>2, KeyStays
  <2> QED BY <1>1, <2>1, <2>3, <2>4, RootKept DEF Live
<1> QED BY <1>3, <1>4, <1>5, <1>6, <1>7, <1>8, <1>9, <1>10, HandleSteps

\* The steps of nobody make no key.
LEMMA RootAround ==
    ASSUME TypeInv, RootInv, Around, \A k \in Keys : Live(k)' => Live(k)
    PROVE  RootInv'
<1>1. pc' = pc /\ op' = op /\ root' = root /\ ended' = ended BY DEF Around
<1>2. \A k : KeyOk(k)' <=> KeyOk(k) BY <1>1 DEF KeyOk, Made, FreshMade
<1> QED BY <1>1, <1>2 DEF RootInv, Made, LoginKey, FreshKey

----------------------------------------------------------------------------
(* No session outlives its sign-in *)

TimeInv ==
    /\ \A k \in Keys : Live(k) =>
          /\ session[k].until > now
          /\ session[k].until =< born[root[k]] + Life \/ root[k] \in loose
    /\ \A r \in Requests : pc[r] = "fresh" =>
          \/ now + op[r].left =< born[root[op[r].key]] + Life
          \/ root[op[r].key] \in loose

\* Steps that put no key, and send nobody to put a fresh one.
LEMMA TimeKept ==
    ASSUME TypeInv, TimeInv, now' = now, born' = born, root' = root, loose \subseteq loose',
           \A k \in Keys : session'[k] \in {session[k], None},
           \A q \in Requests : pc'[q] = "fresh" => pc[q] = "fresh" /\ op'[q] = op[q]
    PROVE  TimeInv'
BY DEF TimeInv, Live

LEMMA TimeHandle ==
    ASSUME TypeInv, RootInv, TimeInv, NEW r \in Requests, Handle(r)
    PROVE  TimeInv'
<1>1. now \in Nat /\ born \in [Keys -> Nat] /\ root \in [Keys -> Keys] /\ Life \in Nat \ {0}
  BY ReporterAssumption DEF TypeInv, TypeOK
<1>2. CASE QuietStep(r)
  <2>1. \A q \in Requests : pc'[q] = "fresh" => pc[q] = "fresh" /\ op'[q] = op[q]
    BY <1>2 DEF QuietStep, Moved
  <2> QED BY <1>2, <2>1, TimeKept DEF QuietStep, Quiet
<1>3. CASE LoginStep(r)
  <2> DEFINE k == LoginKey(r)
  <2>1. /\ k \in Keys /\ session'[k].until = now + Life /\ born'[k] = now
        /\ now' = now /\ root' = root /\ loose' = loose
        /\ \A j \in Keys \ {k} : session'[j] = session[j] /\ born'[j] = born[j]
    BY <1>3, KeyNames DEF LoginStep
  <2>2. root[k] = k /\ ~Made(r) BY <1>3 DEF RootInv, LoginStep, Made
  <2>3. \A j \in Keys : KeyOk(j) => root[j] # k BY <2>2, KeyNames DEF KeyOk
  <2>4. ASSUME NEW j \in Keys, Live(j)'
        PROVE  /\ session'[j].until > now'
               /\ session'[j].until =< born'[root'[j]] + Life \/ root'[j] \in loose'
    <3>1. CASE j = k BY <1>1, <2>1, <2>2, <3>1
    <3>2. CASE j # k
      <4>1. Live(j) /\ session'[j] = session[j] BY <2>1, <2>4, <3>2 DEF Live
      <4>2. root[j] # k /\ root[j] \in Keys BY <1>1, <2>3, <4>1 DEF RootInv
      <4> QED BY <2>1, <4>1, <4>2 DEF TimeInv
    <3> QED BY <3>1, <3>2
  <2>5. ASSUME NEW q \in Requests, pc'[q] = "fresh"
        PROVE  \/ now' + op'[q].left =< born'[root'[op'[q].key]] + Life
               \/ root'[op'[q].key] \in loose'
    <3>1. q # r /\ pc[q] = "fresh" /\ op'[q] = op[q] BY <1>3, <2>5 DEF LoginStep, Moved
    <3>2. op[q].key \in Keys BY <3>1 DEF TypeInv, Placed
    <3>3. root[op[q].key] # k /\ root[op[q].key] \in Keys BY <1>1, <2>3, <3>2, KeyNames DEF RootInv
    <3> QED BY <2>1, <3>1, <3>2, <3>3 DEF TimeInv
  <2> QED BY <2>4, <2>5 DEF TimeInv
<1>4. CASE ReplyStep(r)
  <2>1. \A q \in Requests : pc'[q] = "fresh" => pc[q] = "fresh" /\ op'[q] = op[q]
    BY <1>4 DEF ReplyStep, Moved
  <2> QED BY <1>4, <2>1, TimeKept DEF ReplyStep
<1>5. CASE TtlStep(r)
  <2>1. PICK o \in Local : Moved(r, "fresh", o) /\ o.key = op[r].key /\ (Live(o.key) => o.left = Left(o.key))
    BY <1>5 DEF TtlStep
  <2>2. /\ session' = session /\ now' = now /\ born' = born /\ root' = root
        /\ loose' = IF Live(op[r].key) THEN loose ELSE loose \cup {root[op[r].key]}
        /\ pc[r] = "ttl"
    BY <1>5 DEF TtlStep
  <2>3. op[r].key \in Keys BY <2>2 DEF TypeInv, Placed
  <2>4. \A k \in Keys : Live(k)' =>
           /\ session'[k].until > now'
           /\ session'[k].until =< born'[root'[k]] + Life \/ root'[k] \in loose'
    BY <2>2 DEF TimeInv, Live
  <2>5. ASSUME NEW q \in Requests, pc'[q] = "fresh"
        PROVE  \/ now' + op'[q].left =< born'[root'[op'[q].key]] + Life
               \/ root'[op'[q].key] \in loose'
    <3>1. CASE q # r
      <4>1. pc[q] = "fresh" /\ op'[q] = op[q] BY <2>1, <2>5, <3>1 DEF Moved
      <4> QED BY <2>2, <4>1 DEF TimeInv
    <3>2. CASE q = r /\ ~Live(op[r].key)
      BY <2>1, <2>2, <3>2 DEF Moved, Answers
    <3>3. CASE q = r /\ Live(op[r].key)
      <4> DEFINE k == op[r].key
      <4>1. op'[r].key = k /\ op'[r].left = Left(k) BY <2>1, <3>3 DEF Moved, Answers
      <4>2. session[k].until \in Nat /\ session[k].until > now BY <2>3, <3>3 DEF TypeInv, Session, TimeInv, Live
      <4>3. Left(k) = session[k].until - now BY <3>3, <4>2 DEF Left
      <4>4. session[k].until =< born[root[k]] + Life \/ root[k] \in loose BY <2>3, <3>3 DEF TimeInv
      <4>5. now + Left(k) = session[k].until BY <1>1, <4>2, <4>3
      <4> QED BY <2>2, <3>3, <4>1, <4>4, <4>5
    <3> QED BY <3>1, <3>2, <3>3
  <2> QED BY <2>4, <2>5 DEF TimeInv
<1>6. CASE FreshStep(r)
  <2> DEFINE f == FreshKey(r)
             k == op[r].key
  <2>1. /\ f \in Keys /\ session'[f].until = now + op[r].left /\ root'[f] = root[k]
        /\ now' = now /\ born' = born /\ loose' = loose /\ pc[r] = "fresh" /\ op[r].left >= 1 /\ op[r].left \in Nat
        /\ \A j \in Keys \ {f} : session'[j] = session[j] /\ root'[j] = root[j]
    BY <1>6, KeyNames DEF FreshStep, TypeInv, TypeOK, Placed, Local
  <2>2. \A j \in Keys : KeyOk(j) => j # f BY <2>1 DEF KeyOk, FreshMade
  <2>3. ASSUME NEW j \in Keys, Live(j)'
        PROVE  /\ session'[j].until > now'
               /\ session'[j].until =< born'[root'[j]] + Life \/ root'[j] \in loose'
    <3>1. CASE j = f BY <1>1, <2>1, <3>1 DEF TimeInv
    <3>2. CASE j # f BY <2>1, <2>3, <3>2 DEF TimeInv, Live
    <3> QED BY <3>1, <3>2
  <2>4. ASSUME NEW q \in Requests, pc'[q] = "fresh"
        PROVE  \/ now' + op'[q].left =< born'[root'[op'[q].key]] + Life
               \/ root'[op'[q].key] \in loose'
    <3>1. q # r /\ pc[q] = "fresh" /\ op'[q] = op[q] BY <1>6, <2>4 DEF FreshStep, Moved
    <3>2. op[q].key \in Keys BY <3>1 DEF TypeInv, Placed
    <3>3. op[q].key # f BY <2>2, <3>2, KeyNames DEF RootInv
    <3> QED BY <2>1, <3>1, <3>2, <3>3 DEF TimeInv
  <2> QED BY <2>3, <2>4 DEF TimeInv
<1>7. CASE DropStep(r)
  <2>1. \A q \in Requests : pc'[q] = "fresh" => pc[q] = "fresh" /\ op'[q] = op[q]
    BY <1>7 DEF DropStep, Moved
  <2>2. \A k \in Keys : session'[k] \in {session[k], None} BY <1>7 DEF DropStep
  <2> QED BY <1>7, <2>1, <2>2, TimeKept DEF DropStep
<1>8. CASE \E k \in Issued : LogoutStep(r, k)
  <2>1. PICK k \in Keys : LogoutStep(r, k) BY <1>8 DEF LogoutStep
  <2>2. \A q \in Requests : pc'[q] = "fresh" => pc[q] = "fresh" /\ op'[q] = op[q]
    BY <2>1 DEF LogoutStep, Moved
  <2>3. \A j \in Keys : session'[j] \in {session[j], None} BY <2>1 DEF LogoutStep
  <2> QED BY <2>1, <2>2, <2>3, TimeKept DEF LogoutStep
<1>9. CASE DieStep(r)
  <2>1. \A q \in Requests : pc'[q] = "fresh" => pc[q] = "fresh" /\ op'[q] = op[q]
    BY <1>9 DEF DieStep, Moved
  <2> QED BY <1>9, <2>1, TimeKept DEF DieStep
<1> QED BY <1>2, <1>3, <1>4, <1>5, <1>6, <1>7, <1>8, <1>9, HandleSteps

LEMMA TimeTick ==
    ASSUME TypeInv, TimeInv, Tick
    PROVE  TimeInv'
<1>1. /\ now \in Nat /\ now' = now + 1
      /\ session' = [k \in Keys |-> IF Live(k) /\ session[k].until =< now + 1 THEN None ELSE session[k]]
      /\ loose' = loose \cup {root[op[r].key] : r \in {q \in Requests : At(q, "fresh")}}
      /\ pc' = pc /\ op' = op /\ born' = born /\ root' = root
  BY DEF Tick, TypeInv, TypeOK
<1>2. ASSUME NEW k \in Keys, Live(k)'
      PROVE  /\ session'[k].until > now'
             /\ session'[k].until =< born'[root'[k]] + Life \/ root'[k] \in loose'
  <2>1. Live(k) /\ session'[k] = session[k] /\ ~(session[k].until =< now + 1) BY <1>1, <1>2 DEF Live
  <2>2. session[k].until \in Nat BY <2>1 DEF TypeInv, Session, Live
  <2> QED BY <1>1, <2>1, <2>2 DEF TimeInv
<1>3. \A q \in Requests : pc'[q] = "fresh" => root'[op'[q].key] \in loose' BY <1>1 DEF At
<1> QED BY <1>2, <1>3 DEF TimeInv

----------------------------------------------------------------------------
(* One key, one reply: and what is ended is gone *)

\* A sign-in nothing crossed has one reply under way and one key: two only while a
\* reply is about to drop the old one.
OneInv ==
    /\ \A p, q \in InFlight : p # q /\ SignInOf(p) = SignInOf(q) => SignInOf(p) \in crossing
    /\ \A j, k \in LiveKeys : j # k /\ root[j] = root[k] =>
          \/ root[k] \in crossing
          \/ \E q \in Requests : pc[q] = "drop" /\ {j, k} = {op[q].key, FreshKey(q)}
    /\ \A q \in InFlight, k \in LiveKeys : root[k] = SignInOf(q) =>
          root[k] \in crossing \/ k = op[q].key \/ (pc[q] = "drop" /\ k = FreshKey(q))

EndInv ==
    /\ \A k \in LiveKeys : root[k] \in ended => root[k] \in crossing
    /\ \A q \in InFlight : SignInOf(q) \in ended => SignInOf(q) \in crossing

LEMMA SignInIs ==
    ASSUME TypeInv, RootInv, NEW q \in InFlight
    PROVE  /\ q \in Requests
           /\ pc[q] = "login" => SignInOf(q) = LoginKey(q)
           /\ pc[q] # "login" => SignInOf(q) = root[op[q].key] /\ op[q].key \in Keys /\ KeyOk(op[q].key)
BY KeyNames DEF InFlight, SignInOf, At, LoginKey, TypeInv, Placed, RootInv

\* A sign-in whose key is still to be made is nobody else's.
LEMMA NewSignIn ==
    ASSUME TypeInv, RootInv, NEW r \in Requests, ~Made(r)
    PROVE  /\ \A q \in InFlight : q # r => SignInOf(q) # LoginKey(r)
           /\ \A k \in LiveKeys : root[k] # LoginKey(r)
           /\ LoginKey(r) \notin ended
<1>1. \A k : KeyOk(k) => root[k] # LoginKey(r) BY KeyNames DEF KeyOk
<1>2. ASSUME NEW q \in InFlight, q # r PROVE SignInOf(q) # LoginKey(r)
  BY <1>1, <1>2, SignInIs, KeyNames
<1>3. \A k \in LiveKeys : root[k] # LoginKey(r) BY <1>1 DEF RootInv, LiveKeys
<1>4. LoginKey(r) \notin ended BY KeyNames DEF RootInv
<1> QED BY <1>2, <1>3, <1>4

LEMMA OtherSignIns ==
    ASSUME TypeInv, NEW r \in Requests, NEW l, NEW o, Moved(r, l, o),
           \A q \in InFlight \ {r} : pc[q] # "login" => root'[op[q].key] = root[op[q].key]
    PROVE  \A q \in Requests \ {r} :
              /\ q \in InFlight' <=> q \in InFlight
              /\ q \in InFlight => SignInOf(q)' = SignInOf(q)
              /\ pc'[q] = pc[q] /\ op'[q] = op[q]
BY DEF Moved, InFlight, SignInOf, At

\* Steps of r that make no key and begin with none.
LEMMA OneKept ==
    ASSUME TypeInv, RootInv, OneInv, NEW r \in Requests, NEW l, NEW o, Moved(r, l, o),
           root' = root, crossing \subseteq crossing', \A k \in Keys : Live(k)' => Live(k),
           pc[r] = "drop" => root[op[r].key] \in crossing',
           l \notin {"load", "login", "drop"},
           l \in {"post", "ttl", "fresh"} => r \in InFlight /\ pc[r] # "login" /\ o.key = op[r].key
    PROVE  OneInv'
<1>1. \A q \in Requests \ {r} :
         /\ q \in InFlight' <=> q \in InFlight
         /\ q \in InFlight => SignInOf(q)' = SignInOf(q)
         /\ pc'[q] = pc[q] /\ op'[q] = op[q]
  BY OtherSignIns
<1>2. r \in InFlight' => r \in InFlight /\ SignInOf(r)' = SignInOf(r) /\ op'[r].key = op[r].key
  BY DEF InFlight, SignInOf, At, Moved
<1>3. \A q \in InFlight' : q \in InFlight /\ SignInOf(q)' = SignInOf(q)
  BY <1>1, <1>2 DEF InFlight
<1>4. \A k \in LiveKeys' : k \in LiveKeys /\ k \in Keys BY DEF LiveKeys
<1>5. \A p, q \in InFlight' : p # q /\ SignInOf(p)' = SignInOf(q)' => SignInOf(p)' \in crossing'
  BY <1>3 DEF OneInv
<1>6. ASSUME NEW j \in LiveKeys', NEW k \in LiveKeys', j # k, root'[j] = root'[k]
      PROVE  \/ root'[k] \in crossing'
             \/ \E q \in Requests : pc'[q] = "drop" /\ {j, k} = {op'[q].key, FreshKey(q)}
  <2>1. CASE root[k] \in crossing BY <2>1
  <2>2. CASE \E q \in Requests : pc[q] = "drop" /\ {j, k} = {op[q].key, FreshKey(q)}
    <3>1. PICK q \in Requests : pc[q] = "drop" /\ {j, k} = {op[q].key, FreshKey(q)} BY <2>2
    <3>2. CASE q = r
      <4>1. op[r].key \in {j, k} BY <3>1, <3>2
      <4> QED BY <1>6, <3>1, <3>2, <4>1
    <3>3. CASE q # r BY <1>1, <3>1, <3>3
    <3> QED BY <3>2, <3>3
  <2> QED BY <1>4, <1>6, <2>1, <2>2 DEF OneInv
<1>7. ASSUME NEW q \in InFlight', NEW k \in LiveKeys', root'[k] = SignInOf(q)'
      PROVE  root'[k] \in crossing' \/ k = op'[q].key \/ (pc'[q] = "drop" /\ k = FreshKey(q))
  <2>1. root[k] = SignInOf(q) /\ q \in InFlight /\ k \in LiveKeys BY <1>3, <1>4, <1>7
  <2>2. root[k] \in crossing \/ k = op[q].key \/ (pc[q] = "drop" /\ k = FreshKey(q)) BY <2>1 DEF OneInv
  <2>3. CASE q = r
    <3>1. pc[r] = "drop" => root[k] = root[op[r].key] BY <2>1, <2>3 DEF SignInOf, At
    <3> QED BY <1>2, <1>7, <2>2, <2>3, <3>1
  <2>4. CASE q # r BY <1>1, <2>1, <2>2, <2>4 DEF InFlight
  <2> QED BY <2>3, <2>4
<1> QED BY <1>5, <1>6, <1>7 DEF OneInv, FreshKey

LEMMA EndKept ==
    ASSUME TypeInv, RootInv, EndInv, NEW r \in Requests, NEW l, NEW o, Moved(r, l, o),
           root' = root, crossing \subseteq crossing', ended' = ended, \A k \in Keys : Live(k)' => Live(k),
           l \notin {"load", "login", "drop"},
           l \in {"post", "ttl", "fresh"} => r \in InFlight /\ pc[r] # "login" /\ o.key = op[r].key
    PROVE  EndInv'
<1>1. \A q \in Requests \ {r} :
         /\ q \in InFlight' <=> q \in InFlight
         /\ q \in InFlight => SignInOf(q)' = SignInOf(q)
  BY OtherSignIns
<1>2. r \in InFlight' => r \in InFlight /\ SignInOf(r)' = SignInOf(r)
  BY DEF InFlight, SignInOf, At, Moved
<1>3. \A q \in InFlight' : q \in InFlight /\ SignInOf(q)' = SignInOf(q)
  BY <1>1, <1>2 DEF InFlight
<1>4. \A k \in LiveKeys' : k \in LiveKeys BY DEF LiveKeys
<1> QED BY <1>3, <1>4 DEF EndInv

\* A request begins its sign-in.
LEMMA OneEnters ==
    ASSUME TypeInv, RootInv, OneInv, EndInv, NEW r \in Requests, NEW o, Moved(r, "login", o), pc[r] = "auth",
           session' = session, root' = root, crossing' = crossing, ended' = ended
    PROVE  OneInv' /\ EndInv'
<1>1. \A q \in Requests \ {r} :
         /\ q \in InFlight' <=> q \in InFlight
         /\ q \in InFlight => SignInOf(q)' = SignInOf(q)
         /\ pc'[q] = pc[q] /\ op'[q] = op[q]
  BY OtherSignIns
<1>2. /\ \A q \in InFlight : q # r => SignInOf(q) # LoginKey(r)
      /\ \A k \in LiveKeys : root[k] # LoginKey(r)
      /\ LoginKey(r) \notin ended
  BY NewSignIn DEF Made
<1>3. r \notin InFlight /\ SignInOf(r)' = LoginKey(r) /\ pc'[r] = "login"
  BY DEF InFlight, SignInOf, At, LoginKey, Moved
<1>4. LiveKeys' = LiveKeys BY DEF LiveKeys, Live
<1>5. \A q \in InFlight' : q # r => q \in InFlight /\ SignInOf(q)' = SignInOf(q) /\ q \in Requests
  BY <1>1 DEF InFlight
<1>6. \A p, q \in InFlight' : p # q /\ SignInOf(p)' = SignInOf(q)' => SignInOf(p)' \in crossing'
  BY <1>2, <1>3, <1>5 DEF OneInv
<1>7. ASSUME NEW j \in LiveKeys', NEW k \in LiveKeys', j # k, root'[j] = root'[k]
      PROVE  \/ root'[k] \in crossing'
             \/ \E q \in Requests : pc'[q] = "drop" /\ {j, k} = {op'[q].key, FreshKey(q)}
  BY <1>1, <1>4, <1>7 DEF OneInv
<1>8. ASSUME NEW q \in InFlight', NEW k \in LiveKeys', root'[k] = SignInOf(q)'
      PROVE  root'[k] \in crossing' \/ k = op'[q].key \/ (pc'[q] = "drop" /\ k = FreshKey(q))
  BY <1>1, <1>2, <1>3, <1>4, <1>5, <1>8 DEF OneInv
<1>9. EndInv' BY <1>2, <1>3, <1>4, <1>5 DEF EndInv
<1> QED BY <1>6, <1>7, <1>8, <1>9 DEF OneInv, FreshKey

LEMMA OneLogin ==
    ASSUME TypeInv, RootInv, OneInv, EndInv, NEW r \in Requests, LoginStep(r)
    PROVE  OneInv' /\ EndInv'
<1> DEFINE n == LoginKey(r)
<1>1. PICK l \in {"signed_in", "post", "refused"}, o \in Local : Moved(r, l, o) /\ o.key = n BY DEF LoginStep
<1>2. /\ root' = root /\ crossing' = crossing /\ ended' = ended /\ pc[r] = "login"
      /\ \A k \in Keys \ {n} : session'[k] = session[k]
  BY DEF LoginStep
<1>3. \A q \in Requests \ {r} :
         /\ q \in InFlight' <=> q \in InFlight
         /\ q \in InFlight => SignInOf(q)' = SignInOf(q)
         /\ pc'[q] = pc[q] /\ op'[q] = op[q]
  BY <1>1, <1>2, OtherSignIns
<1>4. /\ \A q \in InFlight : q # r => SignInOf(q) # n
      /\ \A k \in LiveKeys : root[k] # n
      /\ n \notin ended /\ root[n] = n
  BY <1>2, NewSignIn DEF Made, RootInv
<1>5. /\ r \in InFlight' => SignInOf(r)' = n
      /\ op'[r].key = n
  BY <1>1, <1>2, <1>4 DEF InFlight, SignInOf, At, Moved
<1>6. \A k \in LiveKeys' : k # n => k \in LiveKeys BY <1>2 DEF LiveKeys, Live
<1>7. \A q \in InFlight' : q # r => q \in InFlight /\ SignInOf(q)' = SignInOf(q) /\ q \in Requests
  BY <1>3 DEF InFlight
<1>8. \A p, q \in InFlight' : p # q /\ SignInOf(p)' = SignInOf(q)' => SignInOf(p)' \in crossing'
  BY <1>2, <1>4, <1>5, <1>7 DEF OneInv
<1>9. ASSUME NEW j \in LiveKeys', NEW k \in LiveKeys', j # k, root'[j] = root'[k]
      PROVE  \/ root'[k] \in crossing'
             \/ \E q \in Requests : pc'[q] = "drop" /\ {j, k} = {op'[q].key, FreshKey(q)}
  <2>1. j # n /\ k # n BY <1>2, <1>4, <1>6, <1>9
  <2>2. j \in LiveKeys /\ k \in LiveKeys BY <1>6, <2>1
  <2> QED BY <1>2, <1>3, <1>9, <2>2 DEF OneInv
<1>10. ASSUME NEW q \in InFlight', NEW k \in LiveKeys', root'[k] = SignInOf(q)'
       PROVE  root'[k] \in crossing' \/ k = op'[q].key \/ (pc'[q] = "drop" /\ k = FreshKey(q))
  <2>1. CASE q = r BY <1>2, <1>4, <1>5, <1>6, <1>10, <2>1
  <2>2. CASE q # r
    <3>1. k # n BY <1>2, <1>4, <1>7, <1>10, <2>2
    <3> QED BY <1>2, <1>3, <1>6, <1>7, <1>10, <2>2, <3>1 DEF OneInv
  <2> QED BY <2>1, <2>2
<1>11. EndInv' BY <1>2, <1>4, <1>5, <1>6, <1>7 DEF EndInv
<1> QED BY <1>8, <1>9, <1>10, <1>11 DEF OneInv, FreshKey

LEMMA OneReply ==
    ASSUME TypeInv, RootInv, OneInv, EndInv, NEW r \in Requests, ReplyStep(r)
    PROVE  OneInv' /\ EndInv'
<1>1. PICK o \in Local : /\ Moved(r, "load", o) /\ Live(o.key) /\ o.key \in Keys
                         /\ crossing' = crossing \cup Overlapped(o.key)
  BY DEF ReplyStep, Placed
<1>2. root' = root /\ session' = session /\ ended' = ended /\ pc[r] = "idle" BY DEF ReplyStep
<1>3. \A q \in Requests \ {r} :
         /\ q \in InFlight' <=> q \in InFlight
         /\ q \in InFlight => SignInOf(q)' = SignInOf(q)
         /\ pc'[q] = pc[q] /\ op'[q] = op[q]
  BY <1>1, <1>2, OtherSignIns
<1>4. /\ op'[r].key = o.key /\ SignInOf(r)' = root[o.key] /\ r \notin InFlight
  BY <1>1, <1>2 DEF InFlight, SignInOf, At, Moved
<1>5. \A q \in InFlight : SignInOf(q) = root[o.key] => root[o.key] \in crossing'
  BY <1>1 DEF Overlapped
<1>6. LiveKeys' = LiveKeys /\ o.key \in LiveKeys BY <1>1, <1>2 DEF LiveKeys, Live
<1>7. \A q \in InFlight' : q # r => q \in InFlight /\ SignInOf(q)' = SignInOf(q) /\ q \in Requests
  BY <1>3 DEF InFlight
<1>8. crossing \subseteq crossing' BY <1>1
<1>9. \A p, q \in InFlight' : p # q /\ SignInOf(p)' = SignInOf(q)' => SignInOf(p)' \in crossing'
  BY <1>4, <1>5, <1>7, <1>8 DEF OneInv
<1>10. ASSUME NEW j \in LiveKeys', NEW k \in LiveKeys', j # k, root'[j] = root'[k]
       PROVE  \/ root'[k] \in crossing'
              \/ \E q \in Requests : pc'[q] = "drop" /\ {j, k} = {op'[q].key, FreshKey(q)}
  <2>1. CASE root[k] \in crossing BY <1>2, <1>8, <2>1
  <2>2. CASE \E q \in Requests : pc[q] = "drop" /\ {j, k} = {op[q].key, FreshKey(q)}
    <3>1. PICK q \in Requests : pc[q] = "drop" /\ {j, k} = {op[q].key, FreshKey(q)} BY <2>2
    <3>2. q # r BY <1>2, <3>1
    <3> QED BY <1>3, <3>1, <3>2
  <2> QED BY <1>2, <1>6, <1>10, <2>1, <2>2 DEF OneInv
<1>11. ASSUME NEW q \in InFlight', NEW k \in LiveKeys', root'[k] = SignInOf(q)'
       PROVE  root'[k] \in crossing' \/ k = op'[q].key \/ (pc'[q] = "drop" /\ k = FreshKey(q))
  <2>1. CASE q = r /\ k # o.key
    <3>1. root[k] = root[o.key] /\ k \in LiveKeys BY <1>2, <1>4, <1>6, <1>11, <2>1
    <3>2. CASE root[k] \in crossing BY <1>2, <1>8, <3>2
    <3>3. CASE \E p \in Requests : pc[p] = "drop" /\ {o.key, k} = {op[p].key, FreshKey(p)}
      <4>1. PICK p \in Requests : pc[p] = "drop" /\ {o.key, k} = {op[p].key, FreshKey(p)} BY <3>3
      <4>2. op[p].key \in {o.key, k} BY <4>1
      <4>3. p \in InFlight /\ SignInOf(p) = root[o.key] BY <3>1, <4>1, <4>2 DEF InFlight, SignInOf, At
      <4> QED BY <1>2, <1>5, <3>1, <4>3
    <3> QED BY <1>6, <2>1, <3>1, <3>2, <3>3 DEF OneInv
  <2>2. CASE q = r /\ k = o.key BY <1>4, <2>2
  <2>3. CASE q # r
    <3>1. q \in InFlight /\ k \in LiveKeys /\ root[k] = SignInOf(q) BY <1>2, <1>6, <1>7, <1>11, <2>3
    <3>2. root[k] \in crossing \/ k = op[q].key \/ (pc[q] = "drop" /\ k = FreshKey(q)) BY <3>1 DEF OneInv
    <3> QED BY <1>2, <1>3, <1>7, <1>8, <2>3, <3>2
  <2> QED BY <2>1, <2>2, <2>3
<1>12. EndInv' BY <1>2, <1>4, <1>6, <1>7, <1>8 DEF EndInv
<1> QED BY <1>9, <1>10, <1>11, <1>12 DEF OneInv, FreshKey

LEMMA OneFresh ==
    ASSUME TypeInv, RootInv, OneInv, EndInv, NEW r \in Requests, FreshStep(r)
    PROVE  OneInv' /\ EndInv'
<1> DEFINE f == FreshKey(r)
           k0 == op[r].key
<1>1. /\ Moved(r, "drop", op[r]) /\ pc[r] = "fresh" /\ root'[f] = root[k0]
      /\ crossing' = crossing /\ ended' = ended
      /\ \A k \in Keys \ {f} : session'[k] = session[k] /\ root'[k] = root[k]
  BY DEF FreshStep
<1>2. \A k : KeyOk(k) => k # f BY <1>1 DEF KeyOk, FreshMade
<1>3. /\ r \in InFlight /\ SignInOf(r) = root[k0] /\ k0 \in Keys /\ k0 # f
      /\ r \in InFlight' /\ pc'[r] = "drop" /\ op'[r].key = k0 /\ SignInOf(r)' = root[k0]
  <2>1. r \in InFlight /\ SignInOf(r) = root[k0] /\ k0 \in Keys /\ k0 # f
    BY <1>1, <1>2, SignInIs DEF InFlight
  <2>2. pc'[r] = "drop" /\ op'[r].key = k0 BY <1>1 DEF Moved
  <2> QED BY <1>1, <2>1, <2>2 DEF InFlight, SignInOf, At
<1>4. \A q \in InFlight \ {r} : pc[q] # "login" => root'[op[q].key] = root[op[q].key]
  BY <1>1, <1>2, SignInIs
<1>5. \A q \in Requests \ {r} :
         /\ q \in InFlight' <=> q \in InFlight
         /\ q \in InFlight => SignInOf(q)' = SignInOf(q)
         /\ pc'[q] = pc[q] /\ op'[q] = op[q]
  <2>1. PICK o : o = op[r] OBVIOUS
  <2>2. Moved(r, "drop", o) BY <1>1, <2>1
  <2> QED BY <1>4, <2>2, OtherSignIns
<1>6. \A q \in InFlight' : q \in InFlight /\ SignInOf(q)' = SignInOf(q) /\ q \in Requests
  BY <1>3, <1>5 DEF InFlight
<1>7. \A k \in LiveKeys' : k # f => k \in LiveKeys /\ root'[k] = root[k] BY <1>1 DEF LiveKeys, Live
<1>8. \A p, q \in InFlight' : p # q /\ SignInOf(p)' = SignInOf(q)' => SignInOf(p)' \in crossing'
  BY <1>1, <1>6 DEF OneInv
<1>9. ASSUME NEW k \in LiveKeys', k # f, root'[k] = root[k0], root[k0] \notin crossing
      PROVE  k = k0
  BY <1>1, <1>3, <1>7, <1>9 DEF OneInv
<1>10. ASSUME NEW j \in LiveKeys', NEW k \in LiveKeys', j # k, root'[j] = root'[k]
       PROVE  \/ root'[k] \in crossing'
              \/ \E q \in Requests : pc'[q] = "drop" /\ {j, k} = {op'[q].key, FreshKey(q)}
  <2>1. CASE j = f BY <1>1, <1>3, <1>9, <1>10, <2>1
  <2>2. CASE k = f BY <1>1, <1>3, <1>9, <1>10, <2>2
  <2>3. CASE j # f /\ k # f
    <3>1. j \in LiveKeys /\ k \in LiveKeys /\ root[j] = root[k] /\ root'[k] = root[k] BY <1>7, <1>10, <2>3
    <3>2. CASE root[k] \in crossing BY <1>1, <3>1, <3>2
    <3>3. CASE \E q \in Requests : pc[q] = "drop" /\ {j, k} = {op[q].key, FreshKey(q)}
      <4>1. PICK q \in Requests : pc[q] = "drop" /\ {j, k} = {op[q].key, FreshKey(q)} BY <3>3
      <4>2. q # r BY <1>1, <4>1
      <4> QED BY <1>5, <4>1, <4>2
    <3> QED BY <1>10, <3>1, <3>2, <3>3 DEF OneInv
  <2> QED BY <2>1, <2>2, <2>3
<1>11. ASSUME NEW q \in InFlight', NEW k \in LiveKeys', root'[k] = SignInOf(q)'
       PROVE  root'[k] \in crossing' \/ k = op'[q].key \/ (pc'[q] = "drop" /\ k = FreshKey(q))
  <2>1. CASE q = r BY <1>1, <1>3, <1>9, <1>11, <2>1
  <2>2. CASE q # r /\ k = f
    <3>1. SignInOf(q) = SignInOf(r) /\ q \in InFlight BY <1>1, <1>3, <1>6, <1>11, <2>2
    <3>2. SignInOf(q) \in crossing BY <1>3, <2>2, <3>1 DEF OneInv
    <3> QED BY <1>1, <1>3, <2>2, <3>1, <3>2
  <2>3. CASE q # r /\ k # f
    <3>1. q \in InFlight /\ k \in LiveKeys /\ root[k] = SignInOf(q) /\ root'[k] = root[k]
      BY <1>6, <1>7, <1>11, <2>3
    <3>2. root[k] \in crossing \/ k = op[q].key \/ (pc[q] = "drop" /\ k = FreshKey(q)) BY <3>1 DEF OneInv
    <3> QED BY <1>1, <1>5, <1>6, <2>3, <3>1, <3>2
  <2> QED BY <2>1, <2>2, <2>3
<1>12. EndInv'
  <2>1. \A k \in LiveKeys' : root'[k] \in ended' => root'[k] \in crossing'
    BY <1>1, <1>3, <1>7 DEF EndInv
  <2>2. \A q \in InFlight' : SignInOf(q)' \in ended' => SignInOf(q)' \in crossing'
    BY <1>1, <1>6 DEF EndInv
  <2> QED BY <2>1, <2>2 DEF EndInv
<1> QED BY <1>8, <1>10, <1>11, <1>12 DEF OneInv, FreshKey

LEMMA OneDrop ==
    ASSUME TypeInv, RootInv, OneInv, EndInv, NEW r \in Requests, DropStep(r)
    PROVE  OneInv' /\ EndInv'
<1> DEFINE k0 == op[r].key
<1>1. PICK l \in {"closed", "sent"}, o \in Local : Moved(r, l, o) BY DEF DropStep
<1>2. /\ root' = root /\ crossing' = crossing /\ ended' = ended /\ session'[k0] = None
      /\ \A k \in Keys \ {k0} : session'[k] = session[k]
  BY DEF DropStep
<1>3. \A q \in Requests \ {r} :
         /\ q \in InFlight' <=> q \in InFlight
         /\ q \in InFlight => SignInOf(q)' = SignInOf(q)
         /\ pc'[q] = pc[q] /\ op'[q] = op[q]
  BY <1>1, <1>2, OtherSignIns
<1>4. r \notin InFlight' BY <1>1 DEF InFlight, Moved
<1>5. \A q \in InFlight' : q \in InFlight /\ SignInOf(q)' = SignInOf(q) /\ q \in Requests /\ q # r
  BY <1>3, <1>4 DEF InFlight
<1>6. \A k \in LiveKeys' : k \in LiveKeys /\ k # k0 BY <1>2 DEF LiveKeys, Live
<1>7. \A p, q \in InFlight' : p # q /\ SignInOf(p)' = SignInOf(q)' => SignInOf(p)' \in crossing'
  BY <1>2, <1>5 DEF OneInv
<1>8. ASSUME NEW j \in LiveKeys', NEW k \in LiveKeys', j # k, root'[j] = root'[k]
      PROVE  \/ root'[k] \in crossing'
             \/ \E q \in Requests : pc'[q] = "drop" /\ {j, k} = {op'[q].key, FreshKey(q)}
  <2>1. CASE root[k] \in crossing BY <1>2, <2>1
  <2>2. CASE \E q \in Requests : pc[q] = "drop" /\ {j, k} = {op[q].key, FreshKey(q)}
    <3>1. PICK q \in Requests : pc[q] = "drop" /\ {j, k} = {op[q].key, FreshKey(q)} BY <2>2
    <3>2. op[q].key \in {j, k} BY <3>1
    <3>3. q # r BY <1>6, <1>8, <3>2
    <3> QED BY <1>3, <3>1, <3>3
  <2> QED BY <1>2, <1>6, <1>8, <2>1, <2>2 DEF OneInv
<1>9. ASSUME NEW q \in InFlight', NEW k \in LiveKeys', root'[k] = SignInOf(q)'
      PROVE  root'[k] \in crossing' \/ k = op'[q].key \/ (pc'[q] = "drop" /\ k = FreshKey(q))
  BY <1>2, <1>3, <1>5, <1>6, <1>9 DEF OneInv
<1>10. EndInv' BY <1>2, <1>5, <1>6 DEF EndInv
<1> QED BY <1>7, <1>8, <1>9, <1>10 DEF OneInv, FreshKey

LEMMA EndLogout ==
    ASSUME TypeInv, RootInv, OneInv, EndInv, NEW r \in Requests, NEW k0 \in Keys, LogoutStep(r, k0)
    PROVE  EndInv'
<1>1. /\ Moved(r, "done", op[r]) /\ root' = root /\ session'[k0] = None /\ pc[r] = "idle"
      /\ \A k \in Keys \ {k0} : session'[k] = session[k]
      /\ ended' = IF Live(k0) THEN ended \cup {root[k0]} ELSE ended
      /\ crossing' = crossing \cup Overlapped(k0)
  BY DEF LogoutStep
<1>2. \A q \in Requests \ {r} :
         /\ q \in InFlight' <=> q \in InFlight
         /\ q \in InFlight => SignInOf(q)' = SignInOf(q)
  <2>1. PICK o : o = op[r] OBVIOUS
  <2>2. Moved(r, "done", o) BY <1>1, <2>1
  <2> QED BY <1>1, <2>2, OtherSignIns
<1>3. r \notin InFlight' BY <1>1 DEF InFlight, Moved
<1>4. \A q \in InFlight' : q \in InFlight /\ SignInOf(q)' = SignInOf(q) BY <1>2, <1>3 DEF InFlight
<1>5. \A k \in LiveKeys' : k \in LiveKeys /\ k # k0 BY <1>1 DEF LiveKeys, Live
<1>6. \A q \in InFlight : SignInOf(q) = root[k0] => root[k0] \in crossing' BY <1>1 DEF Overlapped
<1>7. ASSUME NEW k \in LiveKeys', root[k] = root[k0], Live(k0) PROVE root[k] \in crossing'
  <2>1. k \in LiveKeys /\ k0 \in LiveKeys /\ k # k0 BY <1>5, <1>7 DEF LiveKeys
  <2>2. CASE root[k0] \in crossing BY <1>1, <1>7, <2>2
  <2>3. CASE \E q \in Requests : pc[q] = "drop" /\ {k, k0} = {op[q].key, FreshKey(q)}
    <3>1. PICK q \in Requests : pc[q] = "drop" /\ {k, k0} = {op[q].key, FreshKey(q)} BY <2>3
    <3>2. op[q].key \in {k, k0} BY <3>1
    <3>3. q \in InFlight /\ SignInOf(q) = root[k0] BY <1>7, <3>1, <3>2 DEF InFlight, SignInOf, At
    <3> QED BY <1>6, <1>7, <3>3
  <2> QED BY <1>7, <2>1, <2>2, <2>3 DEF OneInv
<1>8. \A k \in LiveKeys' : root'[k] \in ended' => root'[k] \in crossing' BY <1>1, <1>5, <1>7 DEF EndInv
<1>9. \A q \in InFlight' : SignInOf(q)' \in ended' => SignInOf(q)' \in crossing'
  BY <1>1, <1>4, <1>6 DEF EndInv
<1> QED BY <1>8, <1>9 DEF EndInv

LEMMA OneHandle ==
    ASSUME TypeInv, RootInv, OneInv, EndInv, NEW r \in Requests, Handle(r)
    PROVE  OneInv' /\ EndInv'
<1>1. CASE QuietStep(r)
  <2>1. PICK l, o : /\ Moved(r, l, o)
                    /\ l \notin {"load", "drop"}
                    /\ l = "login" => pc[r] = "auth"
                    /\ l \in {"post", "ttl"} => o.key = op[r].key /\ pc[r] \in {"load", "post"}
                    /\ l # "fresh" /\ pc[r] # "drop"
    BY <1>1 DEF QuietStep
  <2>2. root' = root /\ ended' = ended /\ session' = session /\ crossing' = crossing
    BY <1>1 DEF QuietStep, Quiet
  <2>3. \A k \in Keys : Live(k)' => Live(k) BY <2>2 DEF Live
  <2>4. CASE l = "login" BY <2>1, <2>2, <2>4, OneEnters
  <2>5. CASE l # "login"
    <3>1. l \in {"post", "ttl", "fresh"} => r \in InFlight /\ pc[r] # "login" /\ o.key = op[r].key
      BY <2>1 DEF InFlight
    <3> QED BY <2>1, <2>2, <2>3, <2>5, <3>1, OneKept, EndKept
  <2> QED BY <2>4, <2>5
<1>2. CASE TtlStep(r)
  <2>1. PICK o \in Local : Moved(r, "fresh", o) /\ o.key = op[r].key BY <1>2 DEF TtlStep
  <2>2. root' = root /\ ended' = ended /\ session' = session /\ crossing' = crossing /\ pc[r] = "ttl"
    BY <1>2 DEF TtlStep
  <2>3. r \in InFlight BY <2>2 DEF InFlight
  <2>4. \A k \in Keys : Live(k)' => Live(k) BY <2>2 DEF Live
  <2> QED BY <2>1, <2>2, <2>3, <2>4, OneKept, EndKept
<1>3. CASE \E k \in Issued : LogoutStep(r, k)
  <2>1. PICK k \in Keys : LogoutStep(r, k) BY <1>3 DEF LogoutStep
  <2>2. /\ Moved(r, "done", op[r]) /\ root' = root /\ pc[r] = "idle" /\ crossing \subseteq crossing'
        /\ \A j \in Keys : Live(j)' => Live(j)
    BY <2>1 DEF LogoutStep, Live
  <2>3. PICK o : o = op[r] OBVIOUS
  <2>4. Moved(r, "done", o) BY <2>2, <2>3
  <2>5. OneInv' BY <2>2, <2>4, OneKept
  <2>6. EndInv' BY <2>1, EndLogout
  <2> QED BY <2>5, <2>6
<1>4. CASE DieStep(r)
  <2>1. /\ Moved(r, "error", op[r]) /\ root' = root /\ ended' = ended /\ session' = session
        /\ crossing' = crossing \cup {SignInOf(r)} /\ pc[r] \in {"ttl", "fresh", "drop"}
    BY <1>4 DEF DieStep
  <2>2. PICK o : o = op[r] OBVIOUS
  <2>3. Moved(r, "error", o) BY <2>1, <2>2
  <2>4. crossing \subseteq crossing' /\ root[op[r].key] \in crossing' BY <2>1 DEF SignInOf, At
  <2>5. \A k \in Keys : Live(k)' => Live(k) BY <2>1 DEF Live
  <2> QED BY <2>1, <2>3, <2>4, <2>5, OneKept, EndKept
<1> QED BY <1>1, <1>2, <1>3, <1>4, HandleSteps, OneLogin, OneReply, OneFresh, OneDrop

\* The steps of nobody make no key and begin no request.
LEMMA OneAround ==
    ASSUME TypeInv, OneInv, EndInv, Around, crossing \subseteq crossing', \A k \in Keys : Live(k)' => Live(k)
    PROVE  OneInv' /\ EndInv'
<1>1. pc' = pc /\ op' = op /\ root' = root /\ ended' = ended BY DEF Around
<1>2. InFlight' = InFlight /\ \A q \in InFlight : SignInOf(q)' = SignInOf(q) BY <1>1 DEF InFlight, SignInOf, At
<1>3. \A k \in LiveKeys' : k \in LiveKeys BY DEF LiveKeys
<1>4. \A p, q \in InFlight' : p # q /\ SignInOf(p)' = SignInOf(q)' => SignInOf(p)' \in crossing'
  BY <1>2 DEF OneInv
<1>5. ASSUME NEW j \in LiveKeys', NEW k \in LiveKeys', j # k, root'[j] = root'[k]
      PROVE  \/ root'[k] \in crossing'
             \/ \E q \in Requests : pc'[q] = "drop" /\ {j, k} = {op'[q].key, FreshKey(q)}
  BY <1>1, <1>3, <1>5 DEF OneInv
<1>6. ASSUME NEW q \in InFlight', NEW k \in LiveKeys', root'[k] = SignInOf(q)'
      PROVE  root'[k] \in crossing' \/ k = op'[q].key \/ (pc'[q] = "drop" /\ k = FreshKey(q))
  BY <1>1, <1>2, <1>3, <1>6 DEF OneInv
<1>7. EndInv' BY <1>1, <1>2, <1>3 DEF EndInv
<1> QED BY <1>4, <1>5, <1>6, <1>7 DEF OneInv, FreshKey

----------------------------------------------------------------------------
(* The sessions of a deleted case *)

SweepInv ==
    /\ \A c \in Cases : sweep[c] # "no" => c \notin cases
    /\ \A q \in Requests :
          pc[q] \in {"login", "post", "ttl", "fresh", "drop"} /\ sweep[op[q].case] # "no" =>
              SignInOf(q) \in crossing
    /\ \A k \in LiveKeys :
          /\ sweep[session[k].case] = "scanning" => k \in found[session[k].case] \/ root[k] \in crossing
          /\ sweep[session[k].case] = "swept" => root[k] \in crossing

\* Steps of r that make no key: whoever is about to is as before, or about a case that is there.
LEMMA SweepKept ==
    ASSUME TypeInv, RootInv, SweepInv, NEW r \in Requests, NEW l, NEW o, Moved(r, l, o),
           root' = root, cases' = cases, sweep' = sweep, found' = found, crossing \subseteq crossing',
           \A k \in Keys : session'[k] \in {session[k], None},
           l # "drop",
           l \in {"login", "post", "ttl", "fresh"} =>
              \/ o.case \in cases
              \/ /\ pc[r] \in {"login", "post", "ttl", "fresh", "drop"} /\ l # "login"
                 /\ o.case = op[r].case /\ root[o.key] = SignInOf(r)
    PROVE  SweepInv'
<1>1. \A q \in Requests \ {r} : pc'[q] = pc[q] /\ op'[q] = op[q] BY DEF Moved
<1>2. ASSUME NEW q \in Requests, pc'[q] \in {"login", "post", "ttl", "fresh", "drop"}, sweep'[op'[q].case] # "no"
      PROVE  SignInOf(q)' \in crossing'
  <2>1. CASE q # r
    <3>1. SignInOf(q)' = SignInOf(q) BY <1>1, <2>1 DEF SignInOf, At
    <3> QED BY <1>1, <1>2, <2>1, <3>1 DEF SweepInv
  <2>2. CASE q = r
    <3>1. l \in {"login", "post", "ttl", "fresh"} /\ op'[r] = o /\ pc'[r] = l
      BY <1>2, <2>2 DEF Moved, Answers
    <3>2. ~(o.case \in cases)
      <4>1. cases \subseteq Cases BY DEF TypeInv, TypeOK
      <4> QED BY <1>2, <2>2, <3>1, <4>1 DEF SweepInv
    <3>3. SignInOf(r) \in crossing BY <1>2, <2>2, <3>1, <3>2 DEF SweepInv
    <3>4. SignInOf(r)' = SignInOf(r) BY <3>1, <3>2 DEF SignInOf, At
    <3> QED BY <2>2, <3>3, <3>4
  <2> QED BY <2>1, <2>2
<1>3. \A k \in LiveKeys' : k \in LiveKeys /\ session'[k] = session[k] BY DEF LiveKeys, Live
<1>4. ASSUME NEW k \in LiveKeys'
      PROVE  /\ sweep'[session'[k].case] = "scanning" => k \in found'[session'[k].case] \/ root'[k] \in crossing'
             /\ sweep'[session'[k].case] = "swept" => root'[k] \in crossing'
  BY <1>3 DEF SweepInv
<1>5. \A c \in Cases : sweep'[c] # "no" => c \notin cases' BY DEF SweepInv
<1> QED BY <1>2, <1>4, <1>5 DEF SweepInv

\* Steps that put the key n, about the case of r.
LEMMA SweepPut ==
    ASSUME TypeInv, RootInv, SweepInv, NEW r \in Requests, NEW l \in {"signed_in", "post", "refused", "drop"}, NEW o,
           NEW n \in Keys, Moved(r, l, o), pc[r] \in {"login", "fresh"},
           o.case = op[r].case, cases' = cases, sweep' = sweep, found' = found, crossing' = crossing,
           session'[n].case = op[r].case, root'[n] = SignInOf(r),
           \A k \in Keys \ {n} : session'[k] = session[k] /\ root'[k] = root[k],
           l \in {"post", "drop"} => root'[o.key] = SignInOf(r),
           \A q \in Requests \ {r} : op[q].key # n
    PROVE  SweepInv'
<1>1. \A q \in Requests \ {r} : pc'[q] = pc[q] /\ op'[q] = op[q] BY DEF Moved
<1>2. sweep[op[r].case] # "no" => SignInOf(r) \in crossing BY DEF SweepInv
<1>3. ASSUME NEW q \in Requests, pc'[q] \in {"login", "post", "ttl", "fresh", "drop"}, sweep'[op'[q].case] # "no"
      PROVE  SignInOf(q)' \in crossing'
  <2>1. CASE q # r
    <3>1. pc[q] # "login" => op[q].key \in Keys BY <1>1, <1>3, <2>1 DEF TypeInv, Placed
    <3>2. SignInOf(q)' = SignInOf(q) BY <1>1, <2>1, <3>1 DEF SignInOf, At
    <3> QED BY <1>1, <1>3, <2>1, <3>2 DEF SweepInv
  <2>2. CASE q = r
    <3>1. l \in {"post", "drop"} /\ op'[r] = o /\ pc'[r] = l BY <1>3, <2>2 DEF Moved, Answers
    <3>2. SignInOf(r)' = SignInOf(r) BY <3>1 DEF SignInOf, At
    <3> QED BY <1>2, <1>3, <2>2, <3>1, <3>2
  <2> QED BY <2>1, <2>2
<1>4. ASSUME NEW k \in LiveKeys'
      PROVE  /\ sweep'[session'[k].case] = "scanning" => k \in found'[session'[k].case] \/ root'[k] \in crossing'
             /\ sweep'[session'[k].case] = "swept" => root'[k] \in crossing'
  <2>1. CASE k = n BY <1>2, <2>1
  <2>2. CASE k # n
    <3>1. k \in LiveKeys /\ session'[k] = session[k] /\ root'[k] = root[k] BY <2>2 DEF LiveKeys, Live
    <3> QED BY <3>1 DEF SweepInv
  <2> QED BY <2>1, <2>2
<1>5. \A c \in Cases : sweep'[c] # "no" => c \notin cases' BY DEF SweepInv
<1> QED BY <1>3, <1>4, <1>5 DEF SweepInv

LEMMA SweepHandle ==
    ASSUME TypeInv, RootInv, SweepInv, NEW r \in Requests, Handle(r)
    PROVE  SweepInv'
<1>1. CASE QuietStep(r)
  <2>1. PICK l, o : /\ Moved(r, l, o)
                    /\ l \notin {"fresh", "drop"}
                    /\ l = "login" => o.case \in cases
                    /\ l \in {"post", "ttl"} =>
                          /\ o.key = op[r].key
                          /\ \/ pc[r] = "load" /\ o.case \in cases
                             \/ pc[r] = "post" /\ o.case = op[r].case
    BY <1>1 DEF QuietStep
  <2>2. /\ root' = root /\ cases' = cases /\ sweep' = sweep /\ found' = found
        /\ session' = session /\ crossing' = crossing
    BY <1>1 DEF QuietStep, Quiet, sweeps
  <2>3. l \in {"login", "post", "ttl", "fresh"} =>
           \/ o.case \in cases
           \/ /\ pc[r] \in {"login", "post", "ttl", "fresh", "drop"} /\ l # "login"
              /\ o.case = op[r].case /\ root[o.key] = SignInOf(r)
    BY <2>1 DEF SignInOf, At
  <2> QED BY <2>1, <2>2, <2>3, SweepKept
<1>2. CASE LoginStep(r)
  <2>1. PICK l \in {"signed_in", "post", "refused"}, o \in Local :
           Moved(r, l, o) /\ o.key = LoginKey(r) /\ o.case = op[r].case
    BY <1>2 DEF LoginStep
  <2>2. /\ root' = root /\ cases' = cases /\ sweep' = sweep /\ found' = found /\ crossing' = crossing
        /\ pc[r] = "login" /\ session'[LoginKey(r)].case = op[r].case
        /\ \A k \in Keys \ {LoginKey(r)} : session'[k] = session[k]
    BY <1>2 DEF LoginStep, sweeps
  <2>3. SignInOf(r) = LoginKey(r) /\ root[LoginKey(r)] = LoginKey(r) /\ LoginKey(r) \in Keys
    BY <2>2, KeyNames DEF SignInOf, At, LoginKey, RootInv
  <2>4. \A q \in Requests \ {r} : op[q].key # LoginKey(r)
    <3>1. \A k : KeyOk(k) => root[k] # LoginKey(r) BY <2>2, KeyNames DEF KeyOk, Made
    <3> QED BY <2>3, <3>1, KeyNames DEF RootInv
  <2> QED BY <2>1, <2>2, <2>3, <2>4, SweepPut
<1>3. CASE ReplyStep(r)
  <2>1. PICK o \in Local : Moved(r, "load", o) BY <1>3 DEF ReplyStep
  <2>2. /\ root' = root /\ cases' = cases /\ sweep' = sweep /\ found' = found
        /\ session' = session /\ crossing \subseteq crossing'
    BY <1>3 DEF ReplyStep, sweeps
  <2> QED BY <2>1, <2>2, SweepKept
<1>4. CASE TtlStep(r)
  <2>1. PICK o \in Local : Moved(r, "fresh", o) /\ o.key = op[r].key /\ o.case = op[r].case
    BY <1>4 DEF TtlStep
  <2>2. /\ root' = root /\ cases' = cases /\ sweep' = sweep /\ found' = found
        /\ session' = session /\ crossing' = crossing /\ pc[r] = "ttl"
    BY <1>4 DEF TtlStep, sweeps
  <2>3. root[o.key] = SignInOf(r) BY <2>1, <2>2 DEF SignInOf, At
  <2> QED BY <2>1, <2>2, <2>3, SweepKept
<1>5. CASE FreshStep(r)
  <2>1. /\ Moved(r, "drop", op[r]) /\ pc[r] = "fresh" /\ root'[FreshKey(r)] = root[op[r].key]
        /\ cases' = cases /\ sweep' = sweep /\ found' = found /\ crossing' = crossing
        /\ session'[FreshKey(r)].case = op[r].case
        /\ \A k \in Keys \ {FreshKey(r)} : session'[k] = session[k] /\ root'[k] = root[k]
    BY <1>5 DEF FreshStep, sweeps
  <2>2. PICK o : o = op[r] OBVIOUS
  <2>3. Moved(r, "drop", o) BY <2>1, <2>2
  <2>4. SignInOf(r) = root[op[r].key] /\ op[r].key \in Keys BY <2>1 DEF SignInOf, At, TypeInv, Placed
  <2>5. \A q \in Requests : op[q].key # FreshKey(r)
    BY <2>1, KeyNames DEF RootInv, KeyOk, FreshMade
  <2>6. root'[o.key] = SignInOf(r) BY <2>1, <2>2, <2>4, <2>5
  <2> QED BY <2>1, <2>2, <2>3, <2>4, <2>5, <2>6, SweepPut, KeyNames
<1>6. CASE DropStep(r)
  <2>1. PICK l \in {"closed", "sent"}, o \in Local : Moved(r, l, o) BY <1>6 DEF DropStep
  <2>2. /\ root' = root /\ cases' = cases /\ sweep' = sweep /\ found' = found /\ crossing' = crossing
        /\ \A k \in Keys : session'[k] \in {session[k], None}
    BY <1>6 DEF DropStep, sweeps
  <2> QED BY <2>1, <2>2, SweepKept
<1>7. CASE \E k \in Issued : LogoutStep(r, k)
  <2>1. PICK k \in Keys : LogoutStep(r, k) BY <1>7 DEF LogoutStep
  <2>2. /\ Moved(r, "done", op[r])
        /\ root' = root /\ cases' = cases /\ sweep' = sweep /\ found' = found /\ crossing \subseteq crossing'
        /\ \A j \in Keys : session'[j] \in {session[j], None}
    BY <2>1 DEF LogoutStep, sweeps
  <2>3. PICK o : o = op[r] OBVIOUS
  <2>4. Moved(r, "done", o) BY <2>2, <2>3
  <2> QED BY <2>2, <2>4, SweepKept
<1>8. CASE DieStep(r)
  <2>1. /\ Moved(r, "error", op[r])
        /\ root' = root /\ cases' = cases /\ sweep' = sweep /\ found' = found /\ crossing \subseteq crossing'
        /\ session' = session
    BY <1>8 DEF DieStep, sweeps
  <2>2. PICK o : o = op[r] OBVIOUS
  <2>3. Moved(r, "error", o) BY <2>1, <2>2
  <2> QED BY <2>1, <2>3, SweepKept
<1> QED BY <1>1, <1>2, <1>3, <1>4, <1>5, <1>6, <1>7, <1>8, HandleSteps

LEMMA SweepDelete ==
    ASSUME TypeInv, SweepInv, NEW c \in Cases, Delete(c)
    PROVE  SweepInv'
<1>1. /\ cases' = cases \ {c}
      /\ sweep' = [sweep EXCEPT ![c] = "scanning"]
      /\ found' = [found EXCEPT ![c] = {k \in LiveKeys : session[k].case = c}]
      /\ crossing' = crossing \cup {SignInOf(q) : q \in {p \in InFlight : op[p].case = c}}
      /\ session' = session /\ pc' = pc /\ op' = op /\ root' = root
  BY DEF Delete
<1>2. sweep \in [Cases -> {"no", "scanning", "swept", "unswept"}] /\ found \in [Cases -> SUBSET Keys]
  BY DEF TypeInv, TypeOK
<1>3. \A d \in Cases : sweep'[d] # "no" => d \notin cases' BY <1>1, <1>2 DEF SweepInv
<1>4. ASSUME NEW q \in Requests, pc'[q] \in {"login", "post", "ttl", "fresh", "drop"}, sweep'[op'[q].case] # "no"
      PROVE  SignInOf(q)' \in crossing'
  <2>1. SignInOf(q)' = SignInOf(q) BY <1>1 DEF SignInOf, At
  <2>2. op[q].case \in Cases BY <1>1, <1>4 DEF TypeInv, Placed
  <2>3. CASE op[q].case = c
    <3>1. q \in InFlight BY <1>1, <1>4 DEF InFlight
    <3> QED BY <1>1, <2>1, <2>3, <3>1
  <2>4. CASE op[q].case # c
    <3>1. sweep[op[q].case] # "no" BY <1>1, <1>2, <1>4, <2>2, <2>4
    <3> QED BY <1>1, <1>4, <2>1, <3>1 DEF SweepInv
  <2> QED BY <2>3, <2>4
<1>5. ASSUME NEW k \in LiveKeys'
      PROVE  /\ sweep'[session'[k].case] = "scanning" => k \in found'[session'[k].case] \/ root'[k] \in crossing'
             /\ sweep'[session'[k].case] = "swept" => root'[k] \in crossing'
  <2>1. k \in LiveKeys /\ session[k].case \in Cases BY <1>1, <1>5 DEF LiveKeys, Live, TypeInv, Session
  <2>2. CASE session[k].case = c BY <1>1, <1>2, <2>1, <2>2
  <2>3. CASE session[k].case # c
    <3>1. sweep'[session[k].case] = sweep[session[k].case] /\ found'[session[k].case] = found[session[k].case]
      BY <1>1, <1>2, <2>1, <2>3
    <3> QED BY <1>1, <2>1, <3>1 DEF SweepInv
  <2> QED BY <2>2, <2>3
<1> QED BY <1>3, <1>4, <1>5 DEF SweepInv

\* The scan has dropped what it found, or given up; nobody's key is put.
LEMMA SweepEnds ==
    ASSUME TypeInv, SweepInv, NEW c \in Cases,
           \/ SweepFails(c)
           \/ \E also \in SUBSET {k \in LiveKeys : session[k].case = c} : Sweep(c, also)
    PROVE  SweepInv' /\ \A k \in Keys : session'[k] \in {session[k], None}
<1>1. /\ cases' = cases /\ crossing' = crossing /\ pc' = pc /\ op' = op /\ root' = root
      /\ sweep[c] = "scanning" /\ found' = [found EXCEPT ![c] = {}]
      /\ \E s \in {"swept", "unswept"} : sweep' = [sweep EXCEPT ![c] = s]
  BY DEF SweepFails, Sweep, rows, history
<1>2. sweep \in [Cases -> {"no", "scanning", "swept", "unswept"}] /\ found \in [Cases -> SUBSET Keys]
  BY DEF TypeInv, TypeOK
<1>3. \A k \in Keys : session'[k] \in {session[k], None} BY DEF SweepFails, Sweep
<1>4. \A k \in LiveKeys' : k \in LiveKeys /\ session'[k] = session[k] BY <1>3 DEF LiveKeys, Live
<1>5. \A d \in Cases : sweep'[d] # "no" => sweep[d] # "no" BY <1>1, <1>2
<1>6. \A q \in Requests : SignInOf(q)' = SignInOf(q) BY <1>1 DEF SignInOf, At
<1>7. ASSUME NEW q \in Requests, pc'[q] \in {"login", "post", "ttl", "fresh", "drop"}, sweep'[op'[q].case] # "no"
      PROVE  SignInOf(q)' \in crossing'
  <2>1. op[q].case \in Cases BY <1>1, <1>7 DEF TypeInv, Placed
  <2> QED BY <1>1, <1>5, <1>6, <1>7, <2>1 DEF SweepInv
<1>8. ASSUME NEW k \in LiveKeys', session[k].case = c, sweep'[c] = "swept" PROVE root[k] \in crossing
  <2>1. CASE SweepFails(c) BY <1>2, <1>8, <2>1 DEF SweepFails
  <2>2. CASE \E also \in SUBSET {j \in LiveKeys : session[j].case = c} : Sweep(c, also)
    <3>1. k \notin found[c] BY <1>8, <2>2 DEF Sweep, LiveKeys, Live
    <3> QED BY <1>1, <1>4, <1>8, <3>1 DEF SweepInv
  <2> QED BY <2>1, <2>2
<1>9. ASSUME NEW k \in LiveKeys'
      PROVE  /\ sweep'[session'[k].case] = "scanning" => k \in found'[session'[k].case] \/ root'[k] \in crossing'
             /\ sweep'[session'[k].case] = "swept" => root'[k] \in crossing'
  <2>1. k \in LiveKeys /\ session'[k] = session[k] /\ session[k].case \in Cases
    BY <1>4, <1>9 DEF LiveKeys, Live, TypeInv, Session
  <2>2. CASE session[k].case = c BY <1>1, <1>2, <1>8, <1>9, <2>1, <2>2
  <2>3. CASE session[k].case # c
    <3>1. sweep'[session[k].case] = sweep[session[k].case] /\ found'[session[k].case] = found[session[k].case]
      BY <1>1, <1>2, <2>1, <2>3
    <3> QED BY <1>1, <2>1, <3>1 DEF SweepInv
  <2> QED BY <2>2, <2>3
<1>10. \A d \in Cases : sweep'[d] # "no" => d \notin cases' BY <1>1, <1>5 DEF SweepInv
<1> QED BY <1>3, <1>7, <1>9, <1>10 DEF SweepInv

\* Closing and the clock leave keys, or drop them.
LEMMA SweepAround ==
    ASSUME TypeInv, SweepInv, Around, cases' = cases, sweep' = sweep, found' = found, crossing' = crossing,
           \A k \in Keys : session'[k] \in {session[k], None}
    PROVE  SweepInv'
<1>1. pc' = pc /\ op' = op /\ root' = root BY DEF Around
<1>2. \A q \in Requests : SignInOf(q)' = SignInOf(q) BY <1>1 DEF SignInOf, At
<1>3. \A k \in LiveKeys' : k \in LiveKeys /\ session'[k] = session[k] BY DEF LiveKeys, Live
<1> QED BY <1>1, <1>2, <1>3 DEF SweepInv

----------------------------------------------------------------------------
(* A pair of cases is linked once *)

\* Whoever is about to link a pair that has a link was overtaken.
LinkInv ==
    /\ LinkedOnce
    /\ \A q \in Requests :
          pc[q] = "insert" /\ (\E l \in links : l.pair = op[q].pair) => q \in doubled

\* Steps that link nothing, and send nobody to.
NoLink ==
    /\ links' \subseteq links /\ doubled' = doubled
    /\ \A q \in Requests : pc'[q] = "insert" => pc[q] = "insert" /\ op'[q] = op[q]

LEMMA LinkKept ==
    ASSUME LinkInv, NoLink
    PROVE  LinkInv'
BY DEF LinkInv, NoLink, LinkedOnce

LEMMA NoLinkSteps ==
    ASSUME TypeInv, NEW r \in Requests, Handle(r),
           ~(\E pair \in Pairs : Link(r, pair)), ~InsertLink(r)
    PROVE  NoLink
<1>1. PICK m \in {"idle"} \cup Steps \cup Answers, o \in Local : Moved(r, m, o) BY SomeMove
<1>2. \A q \in Requests : pc'[q] = "insert" => q = r \/ (pc[q] = "insert" /\ op'[q] = op[q])
  BY <1>1 DEF Moved
<1>3. links' \subseteq links /\ doubled' = doubled /\ pc'[r] # "insert"
  <2>1. CASE \E c \in mix.cases : SignIn(r, c)
    <3>1. pc'[r] # "insert" BY <2>1, SignInMoves DEF Moved
    <3> QED BY <2>1, <3>1 DEF SignIn, rows, history
  <2>2. CASE \E k \in Issued : View(r, k)
    <3>1. pc'[r] # "insert" BY <2>2, ViewMoves DEF Moved
    <3> QED BY <2>2, <3>1 DEF View, rows, history
  <2>3. CASE Auth(r)
    <3>1. pc'[r] # "insert" BY <2>3, AuthMoves DEF Moved
    <3> QED BY <2>3, <3>1 DEF Auth, rows, history
  <2>4. CASE Look(r)
    <3>1. pc'[r] # "insert" BY <2>4, LookMoves DEF Moved
    <3> QED BY <2>4, <3>1 DEF Look, rows, history
  <2>5. CASE \E ok \in BOOLEAN : Load(r, ok)
    <3>1. pc'[r] # "insert" BY <2>5, LoadMoves DEF Moved
    <3> QED BY <2>5, <3>1 DEF Load, rows, history
  <2>6. CASE Post(r)
    <3>1. PICK l \in {"ttl", "error"} : pc' = [pc EXCEPT ![r] = l] BY <2>6 DEF Post, Go, Move
    <3>2. pc'[r] # "insert" BY <3>1 DEF TypeInv, TypeOK
    <3> QED BY <2>6, <3>2 DEF Post, history
  <2>7. CASE \E l \in links : Unlink(r, l)
    <3>1. pc' = [pc EXCEPT ![r] = "done"] BY <2>7 DEF Unlink, Go, Move
    <3>2. pc'[r] # "insert" BY <3>1 DEF TypeInv, TypeOK
    <3> QED BY <2>7, <3>2 DEF Unlink, history
  <2>8. CASE \E ok \in BOOLEAN : Login(r, ok)
    <3>1. pc'[r] # "insert" BY <2>8, LoginSteps DEF LoginStep, Moved
    <3> QED BY <2>8, <3>1 DEF Login, rows
  <2>9. CASE \E k \in Issued \cup {None}, creds \in mix.cases \cup {None} : Reply(r, k, creds)
    <3>1. pc'[r] # "insert" BY <2>9, ReplyMoves DEF Moved
    <3> QED BY <2>9, <3>1 DEF Reply, rows
  <2>10. CASE Ttl(r)
    <3>1. pc'[r] # "insert" BY <2>10, TtlSteps DEF TtlStep, Moved
    <3> QED BY <2>10, <3>1 DEF Ttl, rows
  <2>11. CASE Fresh(r)
    <3>1. pc'[r] # "insert" BY <2>11, FreshSteps DEF FreshStep, Moved
    <3> QED BY <2>11, <3>1 DEF Fresh, rows
  <2>12. CASE DropOld(r)
    <3>1. pc'[r] # "insert" BY <2>12, DropSteps DEF DropStep, Moved
    <3> QED BY <2>12, <3>1 DEF DropOld, rows, history
  <2>13. CASE \E k \in Issued : Logout(r, k)
    <3>1. pc'[r] # "insert" BY <2>13, LogoutSteps DEF LogoutStep, Moved
    <3> QED BY <2>13, <3>1 DEF Logout, rows
  <2>14. CASE Die(r)
    <3>1. pc'[r] # "insert" BY <2>14, DieSteps DEF DieStep, Moved
    <3> QED BY <2>14, <3>1 DEF Die, rows
  <2> QED BY <2>1, <2>2, <2>3, <2>4, <2>5, <2>6, <2>7, <2>8, <2>9, <2>10, <2>11, <2>12, <2>13, <2>14 DEF Handle
<1> QED BY <1>2, <1>3 DEF NoLink

LEMMA LinkAsked ==
    ASSUME TypeInv, LinkInv, NEW r \in Requests, NEW pair \in Pairs, Link(r, pair)
    PROVE  LinkInv'
<1>1. links' = links /\ doubled' = doubled BY DEF Link, rows, history
<1> DEFINE o == [Nothing EXCEPT !.kind = "link", !.pair = pair]
<1>2. PICK m \in {"insert", "refused"} : Move(r, m, o) /\ (m = "insert" => Unlinked(pair))
  BY DEF Link
<1>3. o.pair = pair BY DEF Nothing
<1> HIDE DEF o
<1>4. pc'[r] = m /\ (m = "insert" => op'[r] = o)
  BY <1>2 DEF Move, TypeInv, TypeOK, Answers
<1>5. \A q \in Requests \ {r} : pc'[q] = pc[q] /\ op'[q] = op[q] BY <1>2 DEF Move, TypeInv, TypeOK
<1>6. pc'[r] = "insert" => ~(\E l \in links : l.pair = op'[r].pair) BY <1>2, <1>3, <1>4 DEF Unlinked
<1>7. ASSUME NEW q \in Requests, pc'[q] = "insert", \E l \in links' : l.pair = op'[q].pair PROVE q \in doubled'
  BY <1>1, <1>5, <1>6, <1>7 DEF LinkInv
<1> QED BY <1>1, <1>7 DEF LinkInv, LinkedOnce

LEMMA LinkMade ==
    ASSUME TypeInv, LinkInv, NEW r \in Requests, InsertLink(r)
    PROVE  LinkInv'
<1> DEFINE pair == op[r].pair
           n == [by |-> r, pair |-> pair]
<1>1. pc[r] = "insert" BY DEF InsertLink, At
<1>2. PICK m \in {"linked", "error"} : Go(r, m) BY DEF InsertLink
<1>3. /\ pc'[r] # "insert"
      /\ \A q \in Requests \ {r} : pc'[q] = pc[q] /\ op'[q] = op[q]
  BY <1>2 DEF Go, Move, TypeInv, TypeOK
<1>4. CASE ~(pair \subseteq cases)
  <2>1. links' = links /\ doubled' = doubled BY <1>4 DEF InsertLink
  <2>2. NoLink BY <1>3, <2>1 DEF NoLink
  <2> QED BY <2>2, LinkKept
<1>5. CASE pair \subseteq cases
  <2>1. /\ links' = links \cup {n}
        /\ doubled' = doubled \cup {q \in Requests \ {r} : pc[q] = "insert" /\ op[q].pair = pair}
    BY <1>5 DEF InsertLink, At
  <2>2. \A l \in links : l.pair = pair => r \in doubled BY <1>1 DEF LinkInv
  <2>3. ASSUME NEW l \in links', NEW k \in links', l # k, l.pair = k.pair PROVE {l.by, k.by} \cap doubled' # {}
    <3>1. CASE l \in links /\ k \in links
      <4>1. {l.by, k.by} \cap doubled # {} BY <2>3, <3>1 DEF LinkInv, LinkedOnce
      <4> QED BY <2>1, <4>1
    <3>2. CASE l = n /\ k \in links BY <2>1, <2>2, <2>3, <3>2
    <3>3. CASE k = n /\ l \in links BY <2>1, <2>2, <2>3, <3>3
    <3> QED BY <2>1, <2>3, <3>1, <3>2, <3>3
  <2>4. ASSUME NEW q \in Requests, pc'[q] = "insert", NEW l \in links', l.pair = op'[q].pair PROVE q \in doubled'
    <3>1. q # r /\ pc[q] = "insert" /\ op'[q] = op[q] BY <1>3, <2>4
    <3>2. CASE l \in links BY <2>1, <2>4, <3>1, <3>2 DEF LinkInv
    <3>3. CASE l = n BY <2>1, <2>4, <3>1, <3>3
    <3> QED BY <2>1, <2>4, <3>2, <3>3
  <2> QED BY <2>3, <2>4 DEF LinkInv, LinkedOnce
<1> QED BY <1>4, <1>5

LEMMA LinkHandle ==
    ASSUME TypeInv, LinkInv, NEW r \in Requests, Handle(r)
    PROVE  LinkInv'
<1>1. CASE \E pair \in Pairs : Link(r, pair) BY <1>1, LinkAsked
<1>2. CASE InsertLink(r) BY <1>2, LinkMade
<1> QED BY <1>1, <1>2, NoLinkSteps, LinkKept

----------------------------------------------------------------------------
(* Together *)

ReporterInv == TypeInv /\ RootInv /\ TimeInv /\ OneInv /\ EndInv /\ SweepInv /\ LinkInv

LEMMA InitInv == Init => ReporterInv
<1> SUFFICES ASSUME Init PROVE ReporterInv
  OBVIOUS
<1>1. TypeInv BY InitType
<1>2. /\ \A k \in Keys : session[k] = None /\ root[k] = k
      /\ \A r \in Requests : pc[r] = "idle" /\ op[r] = Nothing
      /\ ended = {} /\ links = {} /\ \A c \in Cases : sweep[c] = "no"
  BY DEF Init
<1>3. LiveKeys = {} /\ InFlight = {} BY <1>2 DEF LiveKeys, Live, InFlight
<1>4. RootInv BY <1>2, KeyNames, NothingLocal DEF RootInv, Live
<1>5. TimeInv BY <1>2 DEF TimeInv, Live
<1>6. OneInv /\ EndInv BY <1>3 DEF OneInv, EndInv
<1>7. SweepInv BY <1>2, <1>3 DEF SweepInv
<1>8. LinkInv BY <1>2 DEF LinkInv, LinkedOnce
<1> QED BY <1>1, <1>4, <1>5, <1>6, <1>7, <1>8 DEF ReporterInv

\* Steps of nobody that only drop keys.
LEMMA AroundInv ==
    ASSUME ReporterInv, Around, OthersOK', \A k \in Keys : session'[k] \in {session[k], None},
           crossing \subseteq crossing', links' \subseteq links, SweepInv', TimeInv'
    PROVE  ReporterInv'
<1>1. \A k \in Keys : Live(k)' => Live(k) BY DEF Live
<1>2. TypeInv' BY AroundType DEF ReporterInv
<1>3. RootInv' BY <1>1, RootAround DEF ReporterInv
<1>4. OneInv' /\ EndInv' BY <1>1, OneAround DEF ReporterInv
<1>5. NoLink BY DEF NoLink, Around
<1>6. LinkInv' BY <1>5, LinkKept DEF ReporterInv
<1> QED BY <1>2, <1>3, <1>4, <1>6 DEF ReporterInv

LEMMA InvStep == ReporterInv /\ [Next]_vars => ReporterInv'
<1> SUFFICES ASSUME ReporterInv, [Next]_vars PROVE ReporterInv'
  OBVIOUS
<1>1. TypeInv /\ RootInv /\ TimeInv /\ OneInv /\ EndInv /\ SweepInv /\ LinkInv BY DEF ReporterInv
<1>2. ASSUME NEW r \in Requests, Handle(r) PROVE ReporterInv'
  <2>1. TypeInv' BY <1>1, <1>2, SomeMove, OthersStay, MovedType
  <2> QED BY <1>1, <1>2, <2>1, RootHandle, TimeHandle, OneHandle, SweepHandle, LinkHandle DEF ReporterInv
<1>3. ASSUME NEW c \in Cases, Delete(c) PROVE ReporterInv'
  <2>1. Around /\ OthersOK' BY <1>1, <1>3, AroundStays
  <2>2. /\ session' = session /\ crossing \subseteq crossing' /\ links' \subseteq links
        /\ now' = now /\ loose' = loose
    BY <1>3 DEF Delete
  <2>3. SweepInv' BY <1>1, <1>3, SweepDelete
  <2>4. TimeInv' BY <1>1, <2>1, <2>2, TimeKept DEF Around
  <2> QED BY <2>1, <2>2, <2>3, <2>4, AroundInv
<1>4. ASSUME NEW c \in Cases,
             \/ SweepFails(c)
             \/ \E also \in SUBSET {k \in LiveKeys : session[k].case = c} : Sweep(c, also)
      PROVE  ReporterInv'
  <2>1. Around /\ OthersOK' BY <1>1, <1>4, AroundStays
  <2>2. SweepInv' /\ \A k \in Keys : session'[k] \in {session[k], None} BY <1>1, <1>4, SweepEnds
  <2>3. crossing' = crossing /\ links' = links /\ now' = now /\ loose' = loose
    BY <1>4 DEF SweepFails, Sweep, rows, history
  <2>4. TimeInv' BY <1>1, <2>1, <2>2, <2>3, TimeKept DEF Around
  <2> QED BY <2>1, <2>2, <2>3, <2>4, AroundInv
<1>5. ASSUME NEW c \in Cases, CloseOrReopen(c) PROVE ReporterInv'
  <2>1. Around /\ OthersOK' BY <1>1, <1>5, AroundStays
  <2>2. /\ session' = session /\ crossing' = crossing /\ links' = links /\ cases' = cases
        /\ sweep' = sweep /\ found' = found /\ now' = now /\ loose' = loose
    BY <1>5 DEF CloseOrReopen, sweeps, history
  <2>3. SweepInv' BY <1>1, <2>1, <2>2, SweepAround
  <2>4. TimeInv' BY <1>1, <2>1, <2>2, TimeKept DEF Around
  <2> QED BY <2>1, <2>2, <2>3, <2>4, AroundInv
<1>6. ASSUME Tick PROVE ReporterInv'
  <2>1. Around /\ OthersOK' BY <1>1, <1>6, TickStays
  <2>2. /\ \A k \in Keys : session'[k] \in {session[k], None}
        /\ crossing' = crossing /\ links' = links /\ cases' = cases /\ sweep' = sweep /\ found' = found
    BY <1>6 DEF Tick, rows, sweeps
  <2>3. SweepInv' BY <1>1, <2>1, <2>2, SweepAround
  <2>4. TimeInv' BY <1>1, <1>6, TimeTick
  <2> QED BY <2>1, <2>2, <2>3, <2>4, AroundInv
<1>7. CASE UNCHANGED vars
  <2>1. Around /\ OthersOK'
    BY <1>1, <1>7, OthersNow DEF vars, rows, sweeps, history, Around, OthersOK
  <2>2. /\ session' = session /\ crossing' = crossing /\ links' = links /\ cases' = cases
        /\ sweep' = sweep /\ found' = found /\ now' = now /\ loose' = loose
    BY <1>7 DEF vars, rows, sweeps, history
  <2>3. SweepInv' BY <1>1, <2>1, <2>2, SweepAround
  <2>4. TimeInv' BY <1>1, <2>1, <2>2, TimeKept DEF Around
  <2> QED BY <2>1, <2>2, <2>3, <2>4, AroundInv
<1> QED BY <1>2, <1>3, <1>4, <1>5, <1>6, <1>7 DEF Next

LEMMA SpecInv == Spec => []ReporterInv
BY InitInv, InvStep, PTL DEF Spec

\* Every variable keeps its type, whatever the numbers of requests and cases.
THEOREM ReporterTypeCorrect == Spec => []TypeOK
<1>1. ReporterInv => TypeOK BY DEF ReporterInv, TypeInv
<1> QED BY <1>1, SpecInv, PTL

\* No session outlives its sign-in, and one that was logged out or whose case was
\* deleted has no key, however the replies that replace it interleave: but for
\* those set aside by "loose" and "crossing" (reply_post, status_logout,
\* end_status_sessions).
THEOREM SessionsCorrect == Spec => []SessionsEnd
<1>1. ReporterInv => SessionNotExtended
  <2> SUFFICES ASSUME ReporterInv, NEW k \in LiveKeys
               PROVE  session[k].until =< born[root[k]] + Life \/ root[k] \in loose
    BY DEF SessionNotExtended
  <2> QED BY DEF ReporterInv, TimeInv, LiveKeys
<1>2. ReporterInv => EndedStaysEnded BY DEF ReporterInv, EndInv, SweepInv, EndedStaysEnded
<1>3. ReporterInv => SessionsEnd BY <1>1, <1>2 DEF SessionsEnd
<1> QED BY <1>3, SpecInv, PTL

\* A pair of cases has one link, unless two people linked it at once (link_cases).
THEOREM LinkedCorrect == Spec => []LinkedOnce
<1>1. ReporterInv => LinkedOnce BY DEF ReporterInv, LinkInv
<1> QED BY <1>1, SpecInv, PTL
=============================================================================
