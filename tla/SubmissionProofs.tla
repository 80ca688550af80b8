-------------------------- MODULE SubmissionProofs --------------------------
(***************************************************************************)
(* Theorems about Submission, for every set of tabs and report ids, every  *)
(* interleaving and any number of faults.  In order: types and locals;     *)
(* what the database, the bucket and the answers say (FilingInv); what a   *)
(* step does to the draft's keys; the objects of failed attempts           *)
(* (CleanInv); the one report id of a draft (OneId) and the refinement of  *)
(* OneDraft.                                                               *)
(***************************************************************************)
EXTENDS Submission, TLAPS

\* Where a handler works on a draft it loaded or claimed, where it holds a
\* token, and where it knows another submit's report.
Named   == {"save", "validate", "reject", "insert", "attach", "commit", "ask",
            "finish", "cleanup", "giveback", "cleanother", "yield"}
HasRaw  == {"assign", "lookup", "rescript", "unnamed", "validate", "reject", "insert",
            "attach", "commit", "ask", "cleanup", "giveback"}
Yielded == {"cleanother", "yield", "stored"}

\* What a handler's locals are good for at each of its steps.
LocalFor(l, m) ==
    /\ l \in {"idle", "done"} => m = MemoryOf("get")
    /\ l # "assign" => m.tries < 3
    /\ l \in Named => m.st \in Ids
    /\ l \in HasRaw => m.raw \in Token
    /\ l = "lookup" => m.raw.id \in Ids
    /\ l \in Yielded => m.found \in Tabs

Locals == \A r \in Tabs : LocalFor(pc[r], mem[r])

TypeInv == TypeOK /\ Locals

\* The part of TypeInv that a handler's own move can disturb.
Control ==
    /\ pc \in [Tabs -> Labels] /\ mem \in [Tabs -> Memory] /\ page \in [Tabs -> Page]
    /\ Locals

LEMMA PagesAreTyped ==
    /\ \A w \in {"none", "form", "fresh", "pending", "kept"} : PageOf(w) \in Page
    /\ \A res \in Result : Success(res) \in Page
    /\ \A v \in VisitKinds : MemoryOf(v) \in Memory
    /\ \A c \in Tabs : Received(c) \in Result
BY DEF PageOf, Page, Success, Result, MemoryOf, Memory, VisitKinds, Received

\* A handler that moves on with sound locals, or answers, disturbs no other.
LEMMA GotoControl ==
    ASSUME Control, NEW r \in Tabs, NEW l \in Labels, NEW m \in Memory,
           LocalFor(l, m), Goto(r, l, m)
    PROVE  Control'
BY DEF Control, Locals, Goto

LEMMA ReplyControl ==
    ASSUME Control, NEW r \in Tabs, NEW p \in Page, Reply(r, p)
    PROVE  Control'
<1>1. MemoryOf("get") \in Memory BY PagesAreTyped DEF VisitKinds
<1>2. LocalFor("done", MemoryOf("get"))
  BY DEF LocalFor, Named, HasRaw, Yielded, MemoryOf
<1>3. QED BY <1>1, <1>2 DEF Control, Locals, Reply, Labels

LEMMA LoadedControl ==
    ASSUME Control, NEW r \in Tabs, NEW m \in Memory, m.st \in Ids, m.tries < 3,
           Loaded(r, m)
    PROVE  Control'
<1>1. PageOf("form") \in Page BY PagesAreTyped
<1>2. ASSUME NEW l \in {"save", "claim"} PROVE LocalFor(l, m)
  BY DEF LocalFor, Named, HasRaw, Yielded
<1>3. LocalFor("load", [m EXCEPT !.phase = "second"]) /\ [m EXCEPT !.phase = "second"] \in Memory
  BY DEF LocalFor, Named, HasRaw, Yielded, Memory
<1>4. CASE Goto(r, "save", m)  BY <1>2, <1>4, GotoControl DEF Labels
<1>5. CASE Goto(r, "claim", m) BY <1>2, <1>5, GotoControl DEF Labels
<1>6. CASE Goto(r, "load", [m EXCEPT !.phase = "second"])
  BY <1>3, <1>6, GotoControl DEF Labels
<1>7. CASE Reply(r, PageOf("form")) BY <1>1, <1>7, ReplyControl
<1>8. QED BY <1>4, <1>5, <1>6, <1>7 DEF Loaded

LEMMA NotLoadedControl ==
    ASSUME Control, NEW r \in Tabs, NEW m \in Memory, m.tries < 3, NotLoaded(r, m)
    PROVE  Control'
<1>1. PageOf("form") \in Page /\ PageOf("fresh") \in Page BY PagesAreTyped
<1>2. ASSUME NEW l \in {"kept", "flight", "recover"} PROVE LocalFor(l, m)
  BY DEF LocalFor, Named, HasRaw, Yielded
<1>3. CASE Goto(r, "kept", m)    BY <1>2, <1>3, GotoControl DEF Labels
<1>4. CASE Goto(r, "flight", m)  BY <1>2, <1>4, GotoControl DEF Labels
<1>5. CASE Goto(r, "recover", m) BY <1>2, <1>5, GotoControl DEF Labels
<1>6. CASE Reply(r, PageOf("form"))  BY <1>1, <1>6, ReplyControl
<1>7. CASE Reply(r, PageOf("fresh")) BY <1>1, <1>7, ReplyControl
<1>8. QED BY <1>3, <1>4, <1>5, <1>6, <1>7 DEF NotLoaded

LEMMA RecoveredControl ==
    ASSUME Control, NEW r \in Tabs, mem[r].tries < 3, Recovered(r)
    PROVE  Control'
<1> DEFINE m == [mem[r] EXCEPT !.raw = None, !.found = None]
           n == [mem[r] EXCEPT !.raw = None, !.found = None, !.phase = "second"]
<1>1. m \in Memory /\ n \in Memory BY DEF Control, Memory
<1>2. LocalFor("take", m) /\ LocalFor("load", n)
  BY DEF LocalFor, Named, HasRaw, Yielded, Control, Memory
<1>3. QED BY <1>1, <1>2, GotoControl DEF Recovered, Labels

LEMMA OutcomeControl ==
    ASSUME Control, NEW r \in Tabs, mem[r].tries < 3, Outcome(r)
    PROVE  Control'
<1>1. In(r, "outcome") \in Memory BY DEF Control, Memory, In
<1>2. LocalFor("poll", In(r, "outcome"))
  BY DEF LocalFor, Named, HasRaw, Yielded, Control, Memory, In
<1>3. QED BY <1>1, <1>2, GotoControl DEF Outcome, Labels

\* Going on with unchanged locals, to a step that needs no more of them.
LEMMA StepControl ==
    ASSUME Control, NEW r \in Tabs, NEW l \in Labels \ {"idle", "done", "assign"},
           pc[r] # "assign", Step(r, l),
           l \in Named => pc[r] \in Named,
           l \in HasRaw => pc[r] \in HasRaw,
           l = "lookup" => mem[r].raw.id \in Ids,
           l \in Yielded => pc[r] \in Yielded
    PROVE  Control'
<1>1. mem[r] \in Memory /\ LocalFor(pc[r], mem[r]) BY DEF Control, Locals
<1>2. LocalFor(l, mem[r]) BY <1>1 DEF LocalFor
<1>3. QED BY <1>1, <1>2, GotoControl DEF Step

----------------------------------------------------------------------------
(* Type correctness *)

LEMMA InitTypeInv == Init => TypeInv
<1> SUFFICES ASSUME Init PROVE TypeInv OBVIOUS
<1>1. MemoryOf("get") \in Memory /\ PageOf("none") \in Page
  BY PagesAreTyped DEF VisitKinds
<1>2. TypeOK BY <1>1 DEF Init, TypeOK, Token, Labels
<1>3. LocalFor("idle", MemoryOf("get"))
  BY DEF LocalFor, Named, HasRaw, Yielded, MemoryOf
<1>4. QED BY <1>2, <1>3 DEF Init, TypeInv, Locals

\* The rest of the state, which a move of a handler leaves alone.
Store ==
    /\ draft \in Token \cup {None} /\ claimed \in Token \cup {None}
    /\ pending \in Tabs \cup {None}
    /\ result \in Result \cup {None}
    /\ reportId \in Ids \cup {None}
    /\ open \in [Ids -> Tabs \cup {None}] /\ filed \in [Ids -> Tabs \cup {None}]
    /\ sent \subseteq Tabs /\ objects \subseteq Tabs
    /\ faults \in Nat /\ discarded \in BOOLEAN

LEMMA TypeInvParts == (TypeInv <=> Store /\ Control) /\ (TypeInv' <=> Store' /\ Control')
BY DEF TypeInv, TypeOK, Store, Control

\* The locals that the steps of _load_submission leave.
LEMMA LoadMemory ==
    ASSUME NEW m \in Memory, NEW i \in Ids \cup {None}
    PROVE  /\ [m EXCEPT !.st = i, !.tries = 0] \in Memory
           /\ [m EXCEPT !.st = i, !.tries = 0].st = i
           /\ [m EXCEPT !.st = i, !.tries = 0].tries < 3
           /\ [m EXCEPT !.raw = None, !.st = i, !.tries = 0] \in Memory
           /\ [m EXCEPT !.raw = None, !.st = i, !.tries = 0].st = i
           /\ [m EXCEPT !.raw = None, !.st = i, !.tries = 0].tries < 3
<1>1. 0 \in 0..3 OBVIOUS
<1>2. ASSUME NEW k \in 0..3
      PROVE  /\ [m EXCEPT !.st = i, !.tries = k] \in Memory
             /\ [m EXCEPT !.raw = None, !.st = i, !.tries = k] \in Memory
  BY DEF Memory
<1>3. [m EXCEPT !.st = i, !.tries = 0] \in Memory BY <1>1, <1>2
<1>4. [m EXCEPT !.raw = None, !.st = i, !.tries = 0] \in Memory BY <1>1, <1>2
<1>5. /\ [m EXCEPT !.st = i, !.tries = 0].st = i
      /\ [m EXCEPT !.st = i, !.tries = 0].tries = 0
  BY DEF Memory
<1>6. /\ [m EXCEPT !.raw = None, !.st = i, !.tries = 0].st = i
      /\ [m EXCEPT !.raw = None, !.st = i, !.tries = 0].tries = 0
  BY DEF Memory
<1>7. QED BY <1>3, <1>4, <1>5, <1>6

LEMMA ReadMemory ==
    ASSUME NEW m \in Memory
    PROVE  /\ [m EXCEPT !.raw = None] \in Memory
           /\ [m EXCEPT !.raw = None].tries = m.tries
           /\ \A t \in Token :
               [m EXCEPT !.raw = t].raw = t
           /\ m.tries < 3 => \A t \in Token :
               /\ [m EXCEPT !.raw = t, !.tries = @ + 1] \in Memory
               /\ [m EXCEPT !.raw = t, !.tries = @ + 1].raw = t
<1>1. m.tries < 3 => m.tries + 1 \in 0..3 BY DEF Memory
<1>2. QED BY <1>1 DEF Memory

LEMMA StoreKept == Store /\ UNCHANGED <<redis, db, env>> => Store'
BY DEF Store, redis, db, env

\* What a handler at step l knows of its locals.
LEMMA LocalsAt ==
    ASSUME Control, NEW r \in Tabs
    PROVE  /\ mem[r] \in Memory /\ pc[r] \in Labels
           /\ pc[r] # "assign" => mem[r].tries < 3
           /\ pc[r] \in Named => mem[r].st \in Ids
           /\ pc[r] \in HasRaw => mem[r].raw \in Token
           /\ pc[r] = "lookup" => mem[r].raw.id \in Ids
           /\ pc[r] \in Yielded => mem[r].found \in Tabs
BY DEF Control, Locals, LocalFor

\* The steps by which a handler gets hold of the draft.
LEMMA LoadTypeInv ==
    ASSUME TypeInv, NEW r \in Tabs, Load(r) \/ AssignReportId(r) \/ AssignTooLate(r)
    PROVE  TypeInv'
<1>1. Store /\ Control BY TypeInvParts
<1>2. mem[r] \in Memory BY <1>1, LocalsAt
<1>3. CASE Load(r)
  <2>1. Store' BY <1>1, <1>3, StoreKept DEF Load
  <2>2. CASE draft = None
    <3> DEFINE m == [mem[r] EXCEPT !.st = None, !.tries = 0]
    <3>0. None \in Ids \cup {None} OBVIOUS
    <3>1. m \in Memory /\ m.tries < 3 BY <1>2, <3>0, LoadMemory
    <3>2. NotLoaded(r, m) BY <1>3, <2>2 DEF Load
    <3>3. QED BY <1>1, <2>1, <3>1, <3>2, NotLoadedControl, TypeInvParts
  <2>3. CASE draft # None /\ draft.id # NoId
    <3> DEFINE m == [mem[r] EXCEPT !.st = draft.id, !.tries = 0]
    <3>1. draft.id \in Ids BY <1>1, <2>3 DEF Store, Token
    <3>0. draft.id \in Ids \cup {None} BY <3>1
    <3>2. m \in Memory /\ m.tries < 3 /\ m.st \in Ids BY <1>2, <3>0, <3>1, LoadMemory
    <3>3. Loaded(r, m) BY <1>3, <2>3 DEF Load
    <3>4. QED BY <1>1, <2>1, <3>2, <3>3, LoadedControl, TypeInvParts
  <2>4. CASE draft # None /\ draft.id = NoId
    <3> DEFINE m == [mem[r] EXCEPT !.raw = draft, !.tries = @ + 1]
    <3>1. draft \in Token BY <1>1, <2>4 DEF Store
    <3>2. mem[r].tries < 3 BY <1>1, <1>3, LocalsAt DEF Load, At
    <3>3. m \in Memory /\ m.raw = draft BY <1>2, <3>1, <3>2, ReadMemory
    <3>4. LocalFor("assign", m) BY <3>1, <3>3 DEF LocalFor, Named, HasRaw, Yielded
    <3>5. Goto(r, "assign", m) BY <1>3, <2>4 DEF Load
    <3>6. QED BY <1>1, <2>1, <3>3, <3>4, <3>5, GotoControl, TypeInvParts DEF Labels
  <2>5. QED BY <2>2, <2>3, <2>4
<1>4. CASE AssignReportId(r)
  <2>1. PICK i \in Ids : reportId' = i /\ Loaded(r, [mem[r] EXCEPT !.raw = None, !.st = i, !.tries = 0])
    BY <1>4 DEF AssignReportId
  <2>2. Store' BY <1>1, <1>4, <2>1 DEF Store, AssignReportId, db, env
  <2> DEFINE m == [mem[r] EXCEPT !.raw = None, !.st = i, !.tries = 0]
  <2>. i \in Ids \cup {None} OBVIOUS
  <2>3. m \in Memory /\ m.tries < 3 /\ m.st \in Ids BY <1>2, LoadMemory
  <2>4. QED BY <1>1, <2>1, <2>2, <2>3, LoadedControl, TypeInvParts
<1>5. CASE AssignTooLate(r)
  <2>1. Store' BY <1>1, <1>5, StoreKept DEF AssignTooLate
  <2>2. CASE mem[r].tries < 3
    <3> DEFINE m == [mem[r] EXCEPT !.raw = None]
    <3>1. m \in Memory /\ m.tries < 3 BY <1>2, <2>2, ReadMemory
    <3>2. LocalFor("load", m) BY <3>1 DEF LocalFor, Named, HasRaw, Yielded
    <3>3. Goto(r, "load", m) BY <1>5, <2>2 DEF AssignTooLate
    <3>4. QED BY <1>1, <2>1, <3>1, <3>2, <3>3, GotoControl, TypeInvParts DEF Labels
  <2>3. CASE ~(mem[r].tries < 3)
    <3> DEFINE m == [mem[r] EXCEPT !.raw = None, !.st = None, !.tries = 0]
    <3>0. None \in Ids \cup {None} OBVIOUS
    <3>1. m \in Memory /\ m.tries < 3 BY <1>2, <3>0, LoadMemory
    <3>2. NotLoaded(r, m) BY <1>5, <2>3 DEF AssignTooLate
    <3>3. QED BY <1>1, <2>1, <3>1, <3>2, NotLoadedControl, TypeInvParts
  <2>4. QED BY <2>2, <2>3
<1>6. QED BY <1>3, <1>4, <1>5

\* The handler answers: what is left of it is typed.
LEMMA AnswerTypeInv ==
    ASSUME TypeInv, NEW r \in Tabs, NEW p \in Page, Reply(r, p), Store'
    PROVE  TypeInv'
BY ReplyControl, TypeInvParts

LEMMA SaveTypeInv ==
    ASSUME TypeInv, NEW r \in Tabs, Save(r) \/ Restart(r)
    PROVE  TypeInv'
<1>1. Store /\ Control BY TypeInvParts
<1>2. PageOf("form") \in Page /\ PageOf("fresh") \in Page BY PagesAreTyped
<1>3. CASE Save(r)
  <2>1. mem[r].st \in Ids BY <1>1, <1>3, LocalsAt DEF Save, At, Named
  <2>2. draft' \in Token BY <1>3, <2>1 DEF Save, Token
  <2>3. Store' BY <1>1, <1>3, <2>2 DEF Store, Save, db, env
  <2>4. QED BY <1>2, <1>3, <2>3, AnswerTypeInv DEF Save
<1>4. CASE Restart(r)
  <2>1. Store' BY <1>1, <1>4 DEF Store, Restart, db
  <2>2. QED BY <1>2, <1>4, <2>1, AnswerTypeInv DEF Restart
<1>5. QED BY <1>3, <1>4

LEMMA RecoverTypeInv ==
    ASSUME TypeInv, NEW r \in Tabs,
           RecoverCheck(r) \/ RecoverRead(r) \/ RecoverLookup(r) \/ Recover(r)
    PROVE  TypeInv'
<1>1. Store /\ Control BY TypeInvParts
<1>2. mem[r] \in Memory BY <1>1, LocalsAt
<1>3. CASE RecoverCheck(r)
  <2>1. Store' BY <1>1, <1>3, StoreKept DEF RecoverCheck
  <2>2. mem[r].tries < 3 BY <1>1, <1>3, LocalsAt DEF RecoverCheck, At
  <2>3. CASE Recovered(r) BY <1>1, <2>1, <2>2, <2>3, RecoveredControl, TypeInvParts
  <2>4. CASE Step(r, "claimed")
    BY <1>1, <1>3, <2>1, <2>4, StepControl, TypeInvParts
    DEF RecoverCheck, At, Labels, Named, HasRaw, Yielded
  <2>5. QED BY <1>3, <2>3, <2>4 DEF RecoverCheck
<1>4. CASE RecoverRead(r)
  <2>1. Store' BY <1>1, <1>4, StoreKept DEF RecoverRead
  <2>2. mem[r].tries < 3 BY <1>1, <1>4, LocalsAt DEF RecoverRead, At
  <2>3. CASE claimed = None
    BY <1>1, <1>4, <2>1, <2>2, <2>3, RecoveredControl, TypeInvParts DEF RecoverRead
  <2>4. CASE claimed # None
    <3> DEFINE m == [mem[r] EXCEPT !.raw = claimed]
               l == IF claimed.id = NoId THEN "rescript" ELSE "lookup"
    <3>1. claimed \in Token BY <1>1, <2>4 DEF Store
    <3>2. m \in Memory /\ m.raw = claimed BY <1>2, <3>1 DEF Memory
    <3>3. m.tries < 3 BY <1>2, <2>2 DEF Memory
    <3>4. l = "lookup" => claimed.id \in Ids BY <3>1 DEF Token
    <3>5. LocalFor(l, m) BY <3>1, <3>2, <3>3, <3>4 DEF LocalFor, Named, HasRaw, Yielded
    <3>6. Goto(r, l, m) BY <1>4, <2>4 DEF RecoverRead
    <3>7. l \in Labels BY DEF Labels
    <3>8. QED BY <1>1, <2>1, <3>2, <3>5, <3>6, <3>7, GotoControl, TypeInvParts
  <2>5. QED BY <2>3, <2>4
<1>5. CASE RecoverLookup(r)
  <2> DEFINE m == [mem[r] EXCEPT !.found = filed[mem[r].raw.id]]
  <2>1. Store' BY <1>1, <1>5, StoreKept DEF RecoverLookup
  <2>2. mem[r].raw \in Token /\ mem[r].raw.id \in Ids /\ mem[r].tries < 3
    BY <1>1, <1>5, LocalsAt DEF RecoverLookup, At, HasRaw
  <2>3. filed[mem[r].raw.id] \in Tabs \cup {None} BY <1>1, <2>2 DEF Store
  <2>4. m \in Memory /\ m.raw = mem[r].raw BY <1>2, <2>3 DEF Memory
  <2>5. m.tries < 3 BY <1>2, <2>2 DEF Memory
  <2>6. LocalFor("rescript", m)
    BY <2>2, <2>4, <2>5 DEF LocalFor, Named, HasRaw, Yielded
  <2>7. QED BY <1>1, <1>5, <2>1, <2>4, <2>6, GotoControl, TypeInvParts
        DEF RecoverLookup, Labels
<1>6. CASE Recover(r)
  <2>1. mem[r].raw \in Token /\ mem[r].tries < 3
    BY <1>1, <1>6, LocalsAt DEF Recover, At, HasRaw
  <2>2. mem[r].found # None => Received(mem[r].found) \in Result
    BY <1>2, PagesAreTyped DEF Memory
  <2>3. Store'
    BY <1>1, <1>6, <2>1, <2>2 DEF Store, Recover, RecoverScript, redis, db, env
  <2>4. QED BY <1>1, <1>6, <2>1, <2>3, RecoveredControl, TypeInvParts DEF Recover
<1>7. QED BY <1>3, <1>4, <1>5, <1>6

LEMMA OutcomeTypeInv ==
    ASSUME TypeInv, NEW r \in Tabs,
           \/ Flight(r) \/ PollFinds(r) \/ PollEnds(r)
           \/ TakeFinds(r) \/ TakeNothing(r) \/ StillProcessing(r)
    PROVE  TypeInv'
<1>1. Store /\ Control BY TypeInvParts
<1>2. mem[r] \in Memory BY <1>1, LocalsAt
<1>3. CASE Flight(r)
  <2>1. Store' BY <1>1, <1>3, StoreKept DEF Flight
  <2>2. mem[r].tries < 3 BY <1>1, <1>3, LocalsAt DEF Flight, At
  <2>3. CASE Outcome(r) BY <1>1, <2>1, <2>2, <2>3, OutcomeControl, TypeInvParts
  <2>4. CASE Goto(r, "load", In(r, "second"))
    <3>1. In(r, "second") \in Memory /\ In(r, "second").tries < 3
      BY <1>2, <2>2 DEF Memory, In
    <3>2. LocalFor("load", In(r, "second"))
      BY <3>1 DEF LocalFor, Named, HasRaw, Yielded
    <3>3. QED BY <1>1, <2>1, <2>4, <3>1, <3>2, GotoControl, TypeInvParts DEF Labels
  <2>5. CASE Reply(r, PageOf("fresh")) BY <2>1, <2>5, PagesAreTyped, AnswerTypeInv
  <2>6. QED BY <1>3, <2>3, <2>4, <2>5 DEF Flight
<1>4. CASE PollFinds(r) \/ TakeFinds(r)
  <2>1. TakeResult(r) BY <1>4 DEF PollFinds, TakeFinds
  <2>2. Store' BY <1>1, <2>1 DEF Store, TakeResult, db, env
  <2>3. Success(result) \in Page BY <1>1, <2>1, PagesAreTyped DEF Store, TakeResult
  <2>4. QED BY <2>1, <2>2, <2>3, AnswerTypeInv DEF TakeResult
<1>5. CASE PollEnds(r)
  <2>1. Store' BY <1>1, <1>5, StoreKept DEF PollEnds
  <2>2. QED BY <1>1, <1>5, <2>1, StepControl, TypeInvParts
        DEF PollEnds, At, Labels, Named, HasRaw, Yielded
<1>6. CASE TakeNothing(r)
  <2>1. Store' BY <1>1, <1>6, StoreKept DEF TakeNothing
  <2>2. QED BY <1>1, <1>6, <2>1, StepControl, TypeInvParts
        DEF TakeNothing, At, Labels, Named, HasRaw, Yielded
<1>7. CASE StillProcessing(r)
  <2>1. Store' BY <1>1, <1>7, StoreKept DEF StillProcessing
  <2>2. QED BY <1>7, <2>1, PagesAreTyped, AnswerTypeInv DEF StillProcessing
<1>8. QED BY <1>3, <1>4, <1>5, <1>6, <1>7

LEMMA GiveBackStore ==
    ASSUME Store, NEW r \in Tabs, mem[r].raw \in Token, GiveBackScript(r),
           UNCHANGED <<db, env>>
    PROVE  Store'
BY DEF Store, GiveBackScript, redis, db, env

LEMMA FinishStore ==
    ASSUME Store, NEW r \in Tabs, NEW res \in Result \cup {None}, FinishScript(r, res),
           UNCHANGED <<db, env>>
    PROVE  Store'
BY DEF Store, FinishScript, db, env

LEMMA ClaimTypeInv ==
    ASSUME TypeInv, NEW r \in Tabs,
           ClaimRefused(r) \/ Claim(r) \/ ReturnUnnamed(r) \/ Validate(r) \/ Reject(r)
    PROVE  TypeInv'
<1>1. Store /\ Control BY TypeInvParts
<1>2. mem[r] \in Memory BY <1>1, LocalsAt
<1>3. CASE ClaimRefused(r)
  <2>1. Store' BY <1>1, <1>3, StoreKept DEF ClaimRefused
  <2>2. mem[r].tries < 3 BY <1>1, <1>3, LocalsAt DEF ClaimRefused, At
  <2>3. QED BY <1>1, <1>3, <2>1, <2>2, OutcomeControl, TypeInvParts DEF ClaimRefused
<1>4. CASE Claim(r)
  <2>1. draft \in Token BY <1>1, <1>4 DEF Store, Claim
  <2>2. Store' BY <1>1, <1>4, <2>1 DEF Store, Claim, db, env
  <2>3. mem[r].tries < 3 BY <1>1, <1>4, LocalsAt DEF Claim, At
  <2>4. CASE draft.id = NoId
    <3> DEFINE m == [mem[r] EXCEPT !.raw = draft, !.st = None]
    <3>1. m \in Memory /\ m.raw = draft BY <1>2, <2>1 DEF Memory
    <3>2. m.tries < 3 BY <1>2, <2>3 DEF Memory
    <3>3. LocalFor("unnamed", m)
      BY <2>1, <3>1, <3>2 DEF LocalFor, Named, HasRaw, Yielded
    <3>4. Goto(r, "unnamed", m) BY <1>4, <2>4 DEF Claim
    <3>5. QED BY <1>1, <2>2, <3>1, <3>3, <3>4, GotoControl, TypeInvParts DEF Labels
  <2>5. CASE draft.id # NoId
    <3> DEFINE m == [mem[r] EXCEPT !.raw = draft, !.st = draft.id]
    <3>1. draft.id \in Ids BY <2>1, <2>5 DEF Token
    <3>2. m \in Memory /\ m.raw = draft /\ m.st \in Ids BY <1>2, <2>1, <3>1 DEF Memory
    <3>3. m.tries < 3 BY <1>2, <2>3 DEF Memory
    <3>4. LocalFor("validate", m)
      BY <2>1, <3>2, <3>3 DEF LocalFor, Named, HasRaw, Yielded
    <3>5. Goto(r, "validate", m) BY <1>4, <2>5 DEF Claim
    <3>6. QED BY <1>1, <2>2, <3>2, <3>4, <3>5, GotoControl, TypeInvParts DEF Labels
  <2>6. QED BY <2>4, <2>5
<1>5. CASE ReturnUnnamed(r)
  <2>1. mem[r].raw \in Token BY <1>1, <1>5, LocalsAt DEF ReturnUnnamed, At, HasRaw
  <2>2. Store' BY <1>1, <1>5, <2>1, GiveBackStore DEF ReturnUnnamed
  <2>3. QED BY <1>5, <2>2, PagesAreTyped, AnswerTypeInv DEF ReturnUnnamed
<1>6. CASE Validate(r)
  <2>1. Store' BY <1>1, <1>6, StoreKept DEF Validate
  <2>2. PICK l \in {"insert", "reject"} : Step(r, l) BY <1>6 DEF Validate
  <2>3. QED BY <1>1, <1>6, <2>1, <2>2, StepControl, TypeInvParts
        DEF Validate, At, Labels, Named, HasRaw, Yielded
<1>7. CASE Reject(r)
  <2>1. mem[r].raw \in Token BY <1>1, <1>7, LocalsAt DEF Reject, At, HasRaw
  <2>2. Store' BY <1>1, <1>7, <2>1, GiveBackStore DEF Reject
  <2>3. PICK l \in {"save", "ask"} : Step(r, l) BY <1>7 DEF Reject
  <2>4. QED BY <1>1, <1>7, <2>2, <2>3, StepControl, TypeInvParts
        DEF Reject, At, Labels, Named, HasRaw, Yielded
<1>8. QED BY <1>3, <1>4, <1>5, <1>6, <1>7

LEMMA FileTypeInv ==
    ASSUME TypeInv, NEW r \in Tabs,
           \/ Insert(r) \/ InsertFails(r) \/ Attach(r) \/ AttachFails(r)
           \/ CommitReply(r) \/ CommitUnknown(r)
    PROVE  TypeInv'
<1>1. Store /\ Control BY TypeInvParts
<1>2. mem[r] \in Memory BY <1>1, LocalsAt
<1>3. CASE Insert(r)
  <2>1. Store' BY <1>1, <1>3 DEF Store, Insert, redis, env
  <2>2. QED BY <1>1, <1>3, <2>1, StepControl, TypeInvParts
        DEF Insert, At, Labels, Named, HasRaw, Yielded
<1>4. CASE InsertFails(r)
  <2>1. Store' BY <1>1, <1>4, StoreKept DEF InsertFails
  <2>2. QED BY <1>1, <1>4, <2>1, StepControl, TypeInvParts
        DEF InsertFails, At, Labels, Named, HasRaw, Yielded
<1>5. CASE Attach(r) \/ AttachFails(r)
  <2> DEFINE m == [mem[r] EXCEPT !.stored = TRUE]
  <2>1. Store' BY <1>1, <1>5 DEF Store, Attach, AttachFails, Fault, redis, env
  <2>2. mem[r].raw \in Token /\ mem[r].st \in Ids /\ mem[r].tries < 3 /\ At(r, "attach")
    BY <1>1, <1>5, LocalsAt DEF Attach, AttachFails, At, HasRaw, Named
  <2>3. m \in Memory /\ m.raw = mem[r].raw /\ m.st = mem[r].st BY <1>2 DEF Memory
  <2>4. m.tries < 3 BY <1>2, <2>2 DEF Memory
  <2>5. ASSUME NEW l \in {"commit", "ask"}, Goto(r, l, m) PROVE Control'
    <3>1. LocalFor(l, m) BY <2>2, <2>3, <2>4 DEF LocalFor, Named, HasRaw, Yielded
    <3>2. QED BY <1>1, <2>3, <2>5, <3>1, GotoControl DEF Labels
  <2>6. ASSUME Step(r, "ask") PROVE Control'
    <3>1. "ask" \in Labels \ {"idle", "done", "assign"} BY DEF Labels
    <3>2. pc[r] = "attach" BY <2>2 DEF At
    <3>3. QED BY <1>1, <2>6, <3>1, <3>2, StepControl DEF Named, HasRaw, Yielded
  <2>7. QED BY <1>5, <2>1, <2>5, <2>6, TypeInvParts DEF Attach, AttachFails
<1>6. CASE CommitReply(r)
  <2>1. Store' BY <1>1, <1>6, StoreKept DEF CommitReply
  <2>2. QED BY <1>1, <1>6, <2>1, StepControl, TypeInvParts
        DEF CommitReply, At, Labels, Named, HasRaw, Yielded
<1>7. CASE CommitUnknown(r)
  <2>1. Store' BY <1>1, <1>7, StoreKept DEF CommitUnknown
  <2>2. QED BY <1>1, <1>7, <2>1, StepControl, TypeInvParts
        DEF CommitUnknown, At, Labels, Named, HasRaw, Yielded
<1>8. QED BY <1>3, <1>4, <1>5, <1>6, <1>7

LEMMA SettleTypeInv ==
    ASSUME TypeInv, NEW r \in Tabs,
           \/ Ask(r) \/ CleanUp(r) \/ CleanOther(r) \/ GiveBack(r)
           \/ Finish(r) \/ Yield(r) \/ StoredResult(r)
    PROVE  TypeInv'
<1>1. Store /\ Control BY TypeInvParts
<1>2. mem[r] \in Memory BY <1>1, LocalsAt
<1>3. CASE Ask(r)
  <2> DEFINE case == filed[mem[r].st]
             m == [mem[r] EXCEPT !.found = case]
  <2>1. Store' BY <1>1, <1>3, StoreKept DEF Ask
  <2>2. pc[r] = "ask" BY <1>3 DEF Ask, At
  <2>3. mem[r].raw \in Token /\ mem[r].st \in Ids /\ mem[r].tries < 3
    BY <1>1, <2>2, LocalsAt DEF HasRaw, Named
  <2>4. case \in Tabs \cup {None} BY <1>1, <2>3 DEF Store
  <2>5. CASE Reply(r, PageOf("kept")) BY <2>1, <2>5, PagesAreTyped, AnswerTypeInv
  <2>6. ASSUME NEW l \in {"cleanup", "finish"}, Step(r, l) PROVE TypeInv'
    BY <1>1, <2>1, <2>2, <2>6, StepControl, TypeInvParts
    DEF Labels, Named, HasRaw, Yielded
  <2>7. CASE case \notin {None, r} /\ Goto(r, "cleanother", m)
    <3>1. m \in Memory /\ m.st = mem[r].st /\ m.found = case BY <1>2, <2>4 DEF Memory
    <3>2. m.tries < 3 BY <1>2, <2>3 DEF Memory
    <3>3. LocalFor("cleanother", m)
      BY <2>3, <2>4, <2>7, <3>1, <3>2 DEF LocalFor, Named, HasRaw, Yielded
    <3>4. QED BY <1>1, <2>1, <2>7, <3>1, <3>3, GotoControl, TypeInvParts DEF Labels
  <2>8. QED BY <1>3, <2>5, <2>6, <2>7 DEF Ask
<1>4. CASE CleanUp(r) \/ CleanOther(r)
  <2> DEFINE m == [mem[r] EXCEPT !.stored = FALSE]
  <2>1. PICK l \in {"giveback", "yield"} :
          /\ DeleteStored(r, l)
          /\ pc[r] = IF l = "giveback" THEN "cleanup" ELSE "cleanother"
    BY <1>4 DEF CleanUp, CleanOther, At
  <2>2. Store' BY <1>1, <2>1 DEF Store, DeleteStored, redis, env
  <2>3. /\ m \in Memory /\ m.st = mem[r].st /\ m.raw = mem[r].raw
        /\ m.found = mem[r].found
    BY <1>2 DEF Memory
  <2>4. m.tries = mem[r].tries BY <1>2 DEF Memory
  <2>5. LocalFor(l, m)
    BY <1>1, <2>1, <2>3, <2>4, LocalsAt DEF LocalFor, Named, HasRaw, Yielded
  <2>6. QED BY <1>1, <2>1, <2>2, <2>3, <2>5, GotoControl, TypeInvParts
        DEF DeleteStored, Labels
<1>5. CASE GiveBack(r)
  <2>1. mem[r].raw \in Token /\ mem[r].tries < 3 /\ pc[r] = "giveback"
    BY <1>1, <1>5, LocalsAt DEF GiveBack, At, HasRaw
  <2>2. Store' BY <1>1, <1>5, <2>1, GiveBackStore DEF GiveBack
  <2>3. CASE Step(r, "save")
    BY <1>1, <2>1, <2>2, <2>3, StepControl, TypeInvParts
    DEF Labels, Named, HasRaw, Yielded
  <2>4. CASE Outcome(r) BY <1>1, <2>1, <2>2, <2>4, OutcomeControl, TypeInvParts
  <2>5. QED BY <1>5, <2>3, <2>4 DEF GiveBack
<1>6. CASE Finish(r)
  <2> DEFINE res == [case |-> r, pin |-> TRUE]
  <2>1. res \in Result /\ Success(res) \in Page BY PagesAreTyped DEF Result
  <2>2. Store' BY <1>1, <1>6, <2>1, FinishStore DEF Finish
  <2>3. QED BY <1>6, <2>1, <2>2, AnswerTypeInv DEF Finish
<1>7. CASE Yield(r)
  <2>1. Store' BY <1>1, <1>7, FinishStore DEF Yield
  <2>2. pc[r] = "yield" BY <1>7 DEF Yield, At
  <2>3. QED BY <1>1, <1>7, <2>1, <2>2, StepControl, TypeInvParts
        DEF Yield, Labels, Named, HasRaw, Yielded
<1>8. CASE StoredResult(r)
  <2> DEFINE res == IF result # None /\ result.case = mem[r].found
                    THEN result ELSE Received(mem[r].found)
  <2>1. Store' BY <1>1, <1>8, StoreKept DEF StoredResult
  <2>2. mem[r].found \in Tabs BY <1>1, <1>8, LocalsAt DEF StoredResult, At, Yielded
  <2>3. res \in Result BY <1>1, <2>2, PagesAreTyped DEF Store
  <2>4. QED BY <1>8, <2>1, <2>3, PagesAreTyped, AnswerTypeInv DEF StoredResult
<1>9. QED BY <1>3, <1>4, <1>5, <1>6, <1>7, <1>8

LEMMA FaultTypeInv ==
    ASSUME TypeInv, NEW r \in Tabs,
           \/ RecoverLookupFails(r) \/ AskFails(r) \/ FinishFails(r) \/ Crash(r)
           \/ CheckAgain(r) \/ \E v \in Visits : Start(r, v)
    PROVE  TypeInv'
<1>1. Store /\ Control BY TypeInvParts
<1>2. CASE RecoverLookupFails(r)
  <2>1. Store' BY <1>1, <1>2 DEF Store, RecoverLookupFails, Fault, redis, db
  <2>2. QED BY <1>2, <2>1, PagesAreTyped, AnswerTypeInv DEF RecoverLookupFails
<1>3. CASE AskFails(r)
  <2>1. Store' BY <1>1, <1>3 DEF Store, AskFails, Fault, redis, db
  <2>2. QED BY <1>3, <2>1, PagesAreTyped, AnswerTypeInv DEF AskFails
<1>4. CASE FinishFails(r)
  <2>1. Store' BY <1>1, <1>4 DEF Store, FinishFails, Fault, redis, db
  <2>2. Success([case |-> r, pin |-> TRUE]) \in Page BY PagesAreTyped DEF Result
  <2>3. QED BY <1>4, <2>1, <2>2, AnswerTypeInv DEF FinishFails
<1>5. CASE Crash(r)
  <2>1. Store' BY <1>1, <1>5 DEF Store, Crash, Fault, redis, db
  <2>2. QED BY <1>5, <2>1, PagesAreTyped, AnswerTypeInv DEF Crash
<1>6. CASE CheckAgain(r)
  <2>1. Store' BY <1>1, <1>6 DEF Store, CheckAgain, redis, db, env
  <2>2. mem[r] = MemoryOf("get") BY <1>1, <1>6 DEF Control, Locals, LocalFor, CheckAgain, At
  <2>3. LocalFor("load", mem[r]) BY <2>2 DEF LocalFor, Named, HasRaw, Yielded, MemoryOf
  <2>4. Control' BY <1>1, <1>6, <2>3, PagesAreTyped DEF Control, Locals, CheckAgain, Labels
  <2>5. QED BY <2>1, <2>4, TypeInvParts
<1>7. ASSUME NEW v \in Visits, Start(r, v) PROVE TypeInv'
  <2> DEFINE l == IF v = "restart" THEN "restart" ELSE "load"
  <2>1. Store' BY <1>1, <1>7, StoreKept DEF Start
  <2>2. MemoryOf(v) \in Memory BY PagesAreTyped, ConstantsAssumption
  <2>3. LocalFor(l, MemoryOf(v)) BY DEF LocalFor, Named, HasRaw, Yielded, MemoryOf
  <2>4. QED BY <1>1, <1>7, <2>1, <2>2, <2>3, GotoControl, TypeInvParts DEF Start, Labels
<1>8. QED BY <1>2, <1>3, <1>4, <1>5, <1>6, <1>7

LEMMA EnvironmentTypeInv ==
    ASSUME TypeInv,
           \/ \E r \in Tabs : RollBack(r) \/ CommitLands(r) \/ CommitLost(r)
           \/ PendingExpires \/ ResultExpires \/ DraftExpires
    PROVE  TypeInv'
<1>1. Store /\ Control BY TypeInvParts
<1>2. UNCHANGED <<pc, mem, page>>
  BY DEF RollBack, CommitLands, CommitLost, PendingExpires, ResultExpires, DraftExpires
<1>3. Control' BY <1>1, <1>2 DEF Control, Locals
<1>4. ASSUME NEW r \in Tabs, RollBack(r) \/ CommitLands(r) \/ CommitLost(r)
      PROVE  Store'
  BY <1>1, <1>4 DEF Store, RollBack, CommitLands, CommitLost, Fault, redis, env
<1>5. ASSUME PendingExpires PROVE Store'
  BY <1>1, <1>5 DEF Store, PendingExpires, db, env
<1>6. ASSUME ResultExpires PROVE Store'
  BY <1>1, <1>6 DEF Store, ResultExpires, Fault, db
<1>7. ASSUME DraftExpires PROVE Store'
  BY <1>1, <1>7 DEF Store, DraftExpires, Fault, db
<1>8. QED BY <1>3, <1>4, <1>5, <1>6, <1>7, TypeInvParts

\* No step leaves the types, and every handler keeps the locals it needs.
LEMMA NextTypeInv == TypeInv /\ [Next]_vars => TypeInv'
<1> SUFFICES ASSUME TypeInv, [Next]_vars PROVE TypeInv' OBVIOUS
<1>1. ASSUME NEW r \in Tabs, Handler(r) PROVE TypeInv'
  BY <1>1, LoadTypeInv, SaveTypeInv, RecoverTypeInv, OutcomeTypeInv, ClaimTypeInv,
     FileTypeInv, SettleTypeInv DEF Handler
<1>2. CASE UNCHANGED vars
  BY <1>2 DEF TypeInv, TypeOK, Locals, vars, redis, db, env
<1>3. QED BY <1>1, <1>2, FaultTypeInv, EnvironmentTypeInv DEF Next

\* TypeOK holds of every behaviour, for every number of tabs, every id set and
\* every choice of faults: in particular the loop of _load_submission is
\* bounded, and no handler reaches a step without the draft that step needs.
THEOREM TypeCorrect == Spec => []TypeOK
<1>1. TypeInv => TypeOK BY DEF TypeInv
<1>2. QED BY <1>1, InitTypeInv, NextTypeInv, PTL DEF Spec

----------------------------------------------------------------------------
(* Whoever is told "received" is told of a committed report, and the        *)
(* attachments of a committed report stay                                   *)

IsFiled(c) == c # None /\ \E i \in Ids : filed[i] = c

\* Before its claim succeeded and its INSERT ran, a handler has written nothing;
\* a handler that lost its claim to another submit never claims again.
Unspent(l, m) ==
    \/ l = "idle"
    \/ /\ m.visit # "get" /\ m.phase # "outcome"
       /\ l \in {"load", "assign", "recover", "claimed", "lookup", "rescript",
                 "claim", "validate", "reject", "insert"}

\* What a handler's position says of its transaction.
FilingAt(r, l, m) ==
    /\ l \in {"claim", "validate", "reject", "insert"} => m.visit = "submit" /\ m.phase # "outcome"
    /\ l \in {"poll", "take"} => m.phase = "outcome"
    /\ Unspent(l, m) => r \notin sent /\ \A i \in Ids : r \notin {open[i], filed[i]}
    /\ l \in {"attach", "commit", "ask", "cleanup", "cleanother", "finish"} =>
          \A i \in Ids : r \in {open[i], filed[i]} => i = m.st
    /\ l \in {"attach", "cleanup"} => r \notin sent
    /\ l = "cleanother" => filed[m.st] \notin {None, r}
    /\ l = "finish" => filed[m.st] = r

\* What a handler has seen of a report, and what its answer says.
Seen(m) == m.found # None => IsFiled(m.found)
Said(p) == p.what = "success" => IsFiled(p.case)

Tab(r) == FilingAt(r, pc[r], mem[r]) /\ Seen(mem[r]) /\ Said(page[r])

\* What the database, the bucket and the stored result hold.
Kept ==
    /\ \A i \in Ids : open[i] # None => filed[i] = None
    /\ \A i \in Ids : filed[i] # None => filed[i] \in sent \cap objects
    /\ \A i \in Ids : open[i] \in sent => open[i] \in objects

ResultFiled == result # None => IsFiled(result.case)

FilingInv == TypeInv /\ Kept /\ ResultFiled /\ \A r \in Tabs : Tab(r)

LEMMA InitFiling == Init => FilingInv
<1> SUFFICES ASSUME Init PROVE FilingInv OBVIOUS
<1>1. TypeInv BY InitTypeInv
<1>2. Kept /\ ResultFiled BY ConstantsAssumption DEF Init, Kept, ResultFiled
<1>3. ASSUME NEW r \in Tabs PROVE Tab(r)
  <2>1. r # None BY ConstantsAssumption
  <2>2. pc[r] = "idle" /\ mem[r] = MemoryOf("get") /\ page[r] = PageOf("none")
    BY DEF Init
  <2>3. QED BY <2>1, <2>2
        DEF Init, Tab, FilingAt, Unspent, Seen, Said, MemoryOf, PageOf
<1>4. QED BY <1>1, <1>2, <1>3 DEF FilingInv

\* What one handler's move leaves to the others.
LEMMA MoveFrame ==
    ASSUME TypeInv, NEW r \in Tabs
    PROVE  /\ \A l, m : Goto(r, l, m) =>
               /\ pc'[r] = l /\ mem'[r] = m /\ page' = page
               /\ \A q \in Tabs \ {r} : pc'[q] = pc[q] /\ mem'[q] = mem[q]
           /\ \A p : Reply(r, p) =>
               /\ pc'[r] = "done" /\ mem'[r] = MemoryOf("get") /\ page'[r] = p
               /\ \A q \in Tabs \ {r} :
                   pc'[q] = pc[q] /\ mem'[q] = mem[q] /\ page'[q] = page[q]
BY DEF TypeInv, TypeOK, Goto, Reply

\* A move that leaves the database alone.
LEMMA QuietGoto ==
    ASSUME FilingInv, TypeInv', UNCHANGED db, ResultFiled',
           NEW r \in Tabs, NEW l, NEW m, Goto(r, l, m), FilingAt(r, l, m), Seen(m)
    PROVE  FilingInv'
<1>1. Kept' BY DEF FilingInv, Kept, db
<1>2. ASSUME NEW q \in Tabs PROVE Tab(q)'
  <2>1. CASE q = r
    BY <2>1, MoveFrame DEF FilingInv, Tab, FilingAt, Unspent, Seen, Said, IsFiled, db
  <2>2. CASE q # r
    BY <2>2, MoveFrame DEF FilingInv, Tab, FilingAt, Unspent, Seen, Said, IsFiled, db
  <2>3. QED BY <2>1, <2>2
<1>3. QED BY <1>1, <1>2 DEF FilingInv

LEMMA DoneFiling ==
    \A r \in Tabs : FilingAt(r, "done", MemoryOf("get")) /\ Seen(MemoryOf("get"))
BY DEF FilingAt, Unspent, Seen, MemoryOf

LEMMA QuietReply ==
    ASSUME FilingInv, TypeInv', UNCHANGED db, ResultFiled',
           NEW r \in Tabs, NEW p, Reply(r, p), Said(p)
    PROVE  FilingInv'
<1>1. Kept' BY DEF FilingInv, Kept, db
<1>2. ASSUME NEW q \in Tabs PROVE Tab(q)'
  <2>1. CASE q = r
    BY <2>1, MoveFrame, DoneFiling
    DEF FilingInv, Tab, FilingAt, Unspent, Seen, Said, IsFiled, db
  <2>2. CASE q # r
    BY <2>2, MoveFrame DEF FilingInv, Tab, FilingAt, Unspent, Seen, Said, IsFiled, db
  <2>3. QED BY <2>1, <2>2
<1>3. QED BY <1>1, <1>2 DEF FilingInv

\* Steps of a handler that has no transaction to answer for.
Aside == Labels \ {"attach", "commit", "ask", "cleanup", "cleanother", "finish"}

LEMMA AsideFiling ==
    ASSUME FilingInv, NEW r \in Tabs, NEW l \in Aside, NEW m,
           Unspent(l, m) => Unspent(pc[r], mem[r]),
           l \in {"claim", "validate", "reject", "insert"} => m.visit = "submit" /\ m.phase # "outcome",
           l \in {"poll", "take"} => m.phase = "outcome"
    PROVE  FilingAt(r, l, m)
BY DEF FilingInv, Tab, FilingAt, Aside

LEMMA LoadedFiling ==
    ASSUME FilingInv, TypeInv', UNCHANGED <<db, result>>,
           NEW r \in Tabs, NEW m \in Memory, pc[r] \in {"load", "assign"},
           m.visit = mem[r].visit, m.phase = mem[r].phase, m.found = mem[r].found,
           Loaded(r, m) \/ NotLoaded(r, m)
    PROVE  FilingInv'
<1>1. ResultFiled' BY DEF FilingInv, ResultFiled, IsFiled, db
<1>2. Seen(m) BY DEF FilingInv, Tab, Seen
<1>3. PICK l \in Labels, n \in Memory, p \in {PageOf("form"), PageOf("fresh")} :
        /\ Goto(r, l, n) \/ Reply(r, p)
        /\ n.visit = m.visit /\ n.found = m.found
        /\ n.phase = m.phase \/ (n.phase = "second" /\ n.visit = "get")
        /\ l \in {"save", "load", "kept", "flight", "recover", "claim"}
        /\ l = "claim" => n.visit = "submit" /\ n.phase # "outcome"
  <2> DEFINE n == [m EXCEPT !.phase = "second"]
  <2>1. n \in Memory /\ n.visit = m.visit /\ n.found = m.found /\ n.phase = "second"
    BY DEF Memory
  <2>2. CASE Loaded(r, m) BY <2>1, <2>2 DEF Loaded, Labels
  <2>3. CASE NotLoaded(r, m) BY <2>3 DEF NotLoaded, Labels
  <2>4. QED BY <2>2, <2>3
<1>4. CASE Goto(r, l, n)
  <2>1. FilingAt(r, l, n)
    <3>1. Unspent(l, n) => Unspent(pc[r], mem[r]) BY <1>3 DEF Unspent
    <3>2. l \in Aside BY <1>3 DEF Aside, Labels
    <3>3. QED BY <1>3, <3>1, <3>2, AsideFiling
  <2>2. Seen(n) BY <1>2, <1>3 DEF Seen
  <2>3. UNCHANGED db OBVIOUS
  <2>4. QED BY <1>1, <1>4, <2>1, <2>2, <2>3, QuietGoto
<1>5. CASE Reply(r, p)
  <2>1. Said(p) BY <1>3 DEF Said, PageOf
  <2>2. UNCHANGED db OBVIOUS
  <2>3. QED BY <1>1, <1>5, <2>1, <2>2, QuietReply
<1>6. QED BY <1>3, <1>4, <1>5

LEMMA LoadFiling ==
    ASSUME FilingInv, TypeInv', NEW r \in Tabs,
           Load(r) \/ AssignReportId(r) \/ AssignTooLate(r)
    PROVE  FilingInv'
<1>1. mem[r] \in Memory BY DEF FilingInv, TypeInv, TypeOK
<1>2. pc[r] \in {"load", "assign"} BY DEF Load, AssignReportId, AssignTooLate, At
<1>3. UNCHANGED <<db, result>> BY DEF Load, AssignReportId, AssignTooLate, redis
<1>4. ResultFiled' BY <1>3 DEF FilingInv, ResultFiled, IsFiled, db
<1>5. ASSUME NEW m \in Memory, m.visit = mem[r].visit, m.phase = mem[r].phase,
             m.found = mem[r].found, NEW l \in {"assign", "load"}, Goto(r, l, m)
      PROVE  FilingInv'
  <2>1. Unspent(l, m) => Unspent(pc[r], mem[r]) BY <1>2, <1>5 DEF Unspent
  <2>2. FilingAt(r, l, m) BY <2>1, AsideFiling DEF Aside, Labels
  <2>3. Seen(m) BY <1>5 DEF FilingInv, Tab, Seen
  <2>4. QED BY <1>3, <1>4, <1>5, <2>2, <2>3, QuietGoto
<1>6. ASSUME NEW i \in Ids \cup {None}
      PROVE  LET m == [mem[r] EXCEPT !.st = i, !.tries = 0]
                 n == [mem[r] EXCEPT !.raw = None, !.st = i, !.tries = 0]
             IN /\ m \in Memory /\ n \in Memory
                /\ m.visit = mem[r].visit /\ m.phase = mem[r].phase
                /\ m.found = mem[r].found
                /\ n.visit = mem[r].visit /\ n.phase = mem[r].phase
                /\ n.found = mem[r].found
  <2>1. [mem[r] EXCEPT !.st = i, !.tries = 0] \in Memory BY <1>1, LoadMemory
  <2>2. [mem[r] EXCEPT !.raw = None, !.st = i, !.tries = 0] \in Memory BY <1>1, LoadMemory
  <2>3. QED BY <1>1, <2>1, <2>2 DEF Memory
<1>7. CASE Load(r)
  <2>1. Store /\ Control BY TypeInvParts DEF FilingInv
  <2>2. CASE draft = None
    <3>1. NotLoaded(r, [mem[r] EXCEPT !.st = None, !.tries = 0]) BY <1>7, <2>2 DEF Load
    <3>2. QED BY <1>2, <1>3, <1>6, <3>1, LoadedFiling
  <2>3. CASE draft # None /\ draft.id # NoId
    <3>1. Loaded(r, [mem[r] EXCEPT !.st = draft.id, !.tries = 0]) BY <1>7, <2>3 DEF Load
    <3>2. draft.id \in Ids BY <2>1, <2>3 DEF Store, Token
    <3>3. QED BY <1>2, <1>3, <1>6, <3>1, <3>2, LoadedFiling
  <2>4. CASE draft # None /\ draft.id = NoId
    <3> DEFINE m == [mem[r] EXCEPT !.raw = draft, !.tries = @ + 1]
    <3>1. draft \in Token BY <2>1, <2>4 DEF Store
    <3>2. mem[r].tries < 3 BY <1>7, <2>1, LocalsAt DEF Load, At
    <3>3. m \in Memory BY <1>1, <3>1, <3>2, ReadMemory
    <3>4. m.visit = mem[r].visit /\ m.phase = mem[r].phase /\ m.found = mem[r].found
      BY <1>1 DEF Memory
    <3>5. Goto(r, "assign", m) BY <1>7, <2>4 DEF Load
    <3>6. QED BY <1>5, <3>3, <3>4, <3>5
  <2>5. QED BY <2>2, <2>3, <2>4
<1>8. CASE AssignReportId(r)
  <2>1. PICK i \in Ids : Loaded(r, [mem[r] EXCEPT !.raw = None, !.st = i, !.tries = 0])
    BY <1>8 DEF AssignReportId
  <2>2. QED BY <1>2, <1>3, <1>6, <2>1, LoadedFiling
<1>9. CASE AssignTooLate(r)
  <2>1. CASE mem[r].tries < 3
    <3> DEFINE m == [mem[r] EXCEPT !.raw = None]
    <3>1. m \in Memory BY <1>1, ReadMemory
    <3>2. m.visit = mem[r].visit /\ m.phase = mem[r].phase /\ m.found = mem[r].found
      BY <1>1 DEF Memory
    <3>3. Goto(r, "load", m) BY <1>9, <2>1 DEF AssignTooLate
    <3>4. QED BY <1>5, <3>1, <3>2, <3>3
  <2>2. CASE ~(mem[r].tries < 3)
    <3>1. NotLoaded(r, [mem[r] EXCEPT !.raw = None, !.st = None, !.tries = 0])
      BY <1>9, <2>2 DEF AssignTooLate
    <3>2. QED BY <1>2, <1>3, <1>6, <3>1, LoadedFiling
  <2>3. QED BY <2>1, <2>2
<1>10. QED BY <1>7, <1>8, <1>9

\* Going on with the same locals, to a step that owns no transaction.
LEMMA StepFiling ==
    ASSUME FilingInv, TypeInv', UNCHANGED db, ResultFiled', NEW r \in Tabs,
           NEW l \in Aside \ {"poll", "take"}, Step(r, l),
           Unspent(l, mem[r]) => Unspent(pc[r], mem[r]),
           l \in {"claim", "validate", "reject", "insert"} => pc[r] \in {"claim", "validate", "reject", "insert"}
    PROVE  FilingInv'
<1>1. FilingAt(r, pc[r], mem[r]) /\ Seen(mem[r]) BY DEF FilingInv, Tab
<1>2. FilingAt(r, l, mem[r]) BY <1>1, AsideFiling DEF FilingAt
<1>3. QED BY <1>1, <1>2, QuietGoto DEF Step

LEMMA OutcomeFiling ==
    ASSUME FilingInv, TypeInv', UNCHANGED db, ResultFiled', NEW r \in Tabs, Outcome(r)
    PROVE  FilingInv'
<1> DEFINE m == In(r, "outcome")
<1>1. m.phase = "outcome" /\ m.found = mem[r].found
  BY DEF FilingInv, TypeInv, TypeOK, Memory, In
<1>2. FilingAt(r, "poll", m) BY <1>1, AsideFiling DEF Aside, Labels, Unspent
<1>3. Seen(m) BY <1>1 DEF FilingInv, Tab, Seen
<1>4. QED BY <1>2, <1>3, QuietGoto DEF Outcome

LEMMA RecoveredFiling ==
    ASSUME FilingInv, TypeInv', UNCHANGED db, ResultFiled', NEW r \in Tabs,
           pc[r] \in {"recover", "claimed", "rescript"}, Recovered(r)
    PROVE  FilingInv'
<1> DEFINE m == [mem[r] EXCEPT !.raw = None, !.found = None]
           n == [mem[r] EXCEPT !.raw = None, !.found = None, !.phase = "second"]
<1>1. m.found = None /\ n.found = None /\ n.visit = mem[r].visit
  BY DEF FilingInv, TypeInv, TypeOK, Memory
<1>2. Seen(m) /\ Seen(n) BY <1>1 DEF Seen
<1>3. CASE mem[r].phase = "outcome"
  <2>1. m.phase = "outcome" BY <1>3 DEF FilingInv, TypeInv, TypeOK, Memory
  <2>2. FilingAt(r, "take", m) BY <2>1, AsideFiling DEF Aside, Labels, Unspent
  <2>3. QED BY <1>2, <1>3, <2>2, QuietGoto DEF Recovered
<1>4. CASE mem[r].phase # "outcome"
  <2>1. Unspent("load", n) => Unspent(pc[r], mem[r]) BY <1>1, <1>4 DEF Unspent
  <2>2. FilingAt(r, "load", n) BY <2>1, AsideFiling DEF Aside, Labels
  <2>3. QED BY <1>2, <1>4, <2>2, QuietGoto DEF Recovered
<1>5. QED BY <1>3, <1>4

LEMMA SaveFiling ==
    ASSUME FilingInv, TypeInv', NEW r \in Tabs, Save(r) \/ Restart(r)
    PROVE  FilingInv'
<1>1. UNCHANGED db /\ ResultFiled'
  BY DEF Save, Restart, FilingInv, ResultFiled, IsFiled, db
<1>2. Said(PageOf("form")) /\ Said(PageOf("fresh")) BY DEF Said, PageOf
<1>3. QED BY <1>1, <1>2, QuietReply DEF Save, Restart

LEMMA RecoverFiling ==
    ASSUME FilingInv, TypeInv', NEW r \in Tabs,
           RecoverCheck(r) \/ RecoverRead(r) \/ RecoverLookup(r) \/ Recover(r)
    PROVE  FilingInv'
<1>1. UNCHANGED db BY DEF RecoverCheck, RecoverRead, RecoverLookup, Recover
<1>2. mem[r] \in Memory BY DEF FilingInv, TypeInv, TypeOK
<1>3. CASE RecoverCheck(r)
  <2>1. ResultFiled' /\ pc[r] = "recover"
    BY <1>1, <1>3 DEF RecoverCheck, At, redis, FilingInv, ResultFiled, IsFiled, db
  <2>2. CASE Recovered(r) BY <1>1, <2>1, <2>2, RecoveredFiling
  <2>3. CASE Step(r, "claimed")
    BY <1>1, <2>1, <2>3, StepFiling DEF Aside, Labels, Unspent
  <2>4. QED BY <1>3, <2>2, <2>3 DEF RecoverCheck
<1>4. CASE RecoverRead(r)
  <2>1. ResultFiled' /\ pc[r] = "claimed"
    BY <1>1, <1>4 DEF RecoverRead, At, redis, FilingInv, ResultFiled, IsFiled, db
  <2>2. CASE claimed = None BY <1>1, <1>4, <2>1, <2>2, RecoveredFiling DEF RecoverRead
  <2>3. CASE claimed # None
    <3> DEFINE m == [mem[r] EXCEPT !.raw = claimed]
    <3>1. PICK l \in {"rescript", "lookup"} : Goto(r, l, m) BY <1>4, <2>3 DEF RecoverRead
    <3>2. m.visit = mem[r].visit /\ m.phase = mem[r].phase /\ m.found = mem[r].found
      BY <1>2 DEF Memory
    <3>3. Unspent(l, m) => Unspent(pc[r], mem[r]) BY <2>1, <3>2 DEF Unspent
    <3>4. FilingAt(r, l, m) BY <3>3, AsideFiling DEF Aside, Labels
    <3>5. Seen(m) BY <3>2 DEF FilingInv, Tab, Seen
    <3>6. QED BY <1>1, <2>1, <3>1, <3>4, <3>5, QuietGoto
  <2>4. QED BY <2>2, <2>3
<1>5. CASE RecoverLookup(r)
  <2> DEFINE case == filed[mem[r].raw.id]
             m == [mem[r] EXCEPT !.found = case]
  <2>1. ResultFiled' /\ pc[r] = "lookup"
    BY <1>1, <1>5 DEF RecoverLookup, At, redis, FilingInv, ResultFiled, IsFiled, db
  <2>2. mem[r].raw.id \in Ids BY <2>1 DEF FilingInv, TypeInv, Locals, LocalFor
  <2>3. m.visit = mem[r].visit /\ m.phase = mem[r].phase /\ m.found = case
    BY <1>2 DEF Memory
  <2>4. Unspent("rescript", m) => Unspent(pc[r], mem[r]) BY <2>1, <2>3 DEF Unspent
  <2>5. FilingAt(r, "rescript", m) BY <2>4, AsideFiling DEF Aside, Labels
  <2>6. Seen(m) BY <2>2, <2>3 DEF Seen, IsFiled
  <2>7. QED BY <1>1, <1>5, <2>1, <2>5, <2>6, QuietGoto DEF RecoverLookup
<1>6. CASE Recover(r)
  <2>1. Seen(mem[r]) BY DEF FilingInv, Tab
  <2>2. ResultFiled'
    BY <1>1, <1>6, <2>1
    DEF Recover, RecoverScript, Received, Seen, redis, FilingInv, ResultFiled, IsFiled, db
  <2>3. QED BY <1>1, <1>6, <2>2, RecoveredFiling DEF Recover, At
<1>7. QED BY <1>3, <1>4, <1>5, <1>6

LEMMA PageFiling ==
    ASSUME FilingInv, TypeInv', NEW r \in Tabs,
           \/ Flight(r) \/ PollFinds(r) \/ PollEnds(r)
           \/ TakeFinds(r) \/ TakeNothing(r) \/ StillProcessing(r)
    PROVE  FilingInv'
<1>1. UNCHANGED db
  BY DEF Flight, PollFinds, PollEnds, TakeFinds, TakeNothing, StillProcessing, TakeResult
<1>2. mem[r] \in Memory BY DEF FilingInv, TypeInv, TypeOK
<1>3. \A w \in {"fresh", "kept", "pending"} : Said(PageOf(w)) BY DEF Said, PageOf
<1>4. ResultFiled'
  BY <1>1 DEF Flight, PollFinds, PollEnds, TakeFinds, TakeNothing, StillProcessing,
              TakeResult, redis, FilingInv, ResultFiled, IsFiled, db
<1>5. CASE Flight(r)
  <2>1. CASE Outcome(r) BY <1>1, <1>4, <2>1, OutcomeFiling
  <2>2. CASE mem[r].visit = "get" /\ Goto(r, "load", In(r, "second"))
    <3> DEFINE m == In(r, "second")
    <3>1. m.visit = "get" /\ m.found = mem[r].found BY <1>2, <2>2 DEF Memory, In
    <3>2. FilingAt(r, "load", m) BY <3>1, AsideFiling DEF Aside, Labels, Unspent
    <3>3. Seen(m) BY <3>1 DEF FilingInv, Tab, Seen
    <3>4. QED BY <1>1, <1>4, <2>2, <3>2, <3>3, QuietGoto
  <2>3. CASE Reply(r, PageOf("fresh")) BY <1>1, <1>3, <1>4, <2>3, QuietReply
  <2>4. QED BY <1>5, <2>1, <2>2, <2>3 DEF Flight
<1>6. CASE PollFinds(r) \/ TakeFinds(r)
  <2>1. TakeResult(r) BY <1>6 DEF PollFinds, TakeFinds
  <2>2. Said(Success(result))
    BY <2>1 DEF TakeResult, Said, Success, FilingInv, ResultFiled
  <2>3. QED BY <1>1, <1>4, <2>1, <2>2, QuietReply DEF TakeResult
<1>7. CASE PollEnds(r) \/ TakeNothing(r)
  <2>1. pc[r] \in {"poll", "take"} BY <1>7 DEF PollEnds, TakeNothing, At
  <2>2. mem[r].phase = "outcome" BY <2>1 DEF FilingInv, Tab, FilingAt
  <2>3. PICK l \in {"recover", "load"} : Step(r, l) BY <1>7 DEF PollEnds, TakeNothing
  <2>4. ~Unspent(l, mem[r]) BY <2>2 DEF Unspent
  <2>5. QED BY <1>1, <1>4, <2>3, <2>4, StepFiling DEF Aside, Labels
<1>8. CASE StillProcessing(r)
  BY <1>1, <1>3, <1>4, <1>8, QuietReply DEF StillProcessing
<1>9. QED BY <1>5, <1>6, <1>7, <1>8

LEMMA ClaimFiling ==
    ASSUME FilingInv, TypeInv', NEW r \in Tabs,
           ClaimRefused(r) \/ Claim(r) \/ ReturnUnnamed(r) \/ Validate(r) \/ Reject(r)
    PROVE  FilingInv'
<1>1. UNCHANGED db BY DEF ClaimRefused, Claim, ReturnUnnamed, Validate, Reject
<1>2. mem[r] \in Memory BY DEF FilingInv, TypeInv, TypeOK
<1>3. ResultFiled'
  BY <1>1 DEF ClaimRefused, Claim, ReturnUnnamed, Validate, Reject, GiveBackScript,
              redis, FilingInv, ResultFiled, IsFiled, db
<1>4. CASE ClaimRefused(r) BY <1>1, <1>3, <1>4, OutcomeFiling DEF ClaimRefused
<1>5. CASE Claim(r)
  <2> DEFINE m == [mem[r] EXCEPT !.raw = draft, !.st = None]
             n == [mem[r] EXCEPT !.raw = draft, !.st = draft.id]
  <2>1. pc[r] = "claim" BY <1>5 DEF Claim, At
  <2>2. mem[r].visit = "submit" /\ mem[r].phase # "outcome"
    BY <2>1 DEF FilingInv, Tab, FilingAt
  <2>3. /\ m.visit = mem[r].visit /\ m.phase = mem[r].phase /\ m.found = mem[r].found
        /\ n.visit = mem[r].visit /\ n.phase = mem[r].phase /\ n.found = mem[r].found
    BY <1>2 DEF Memory
  <2>4. Seen(m) /\ Seen(n) BY <2>3 DEF FilingInv, Tab, Seen
  <2>5. FilingAt(r, "unnamed", m)
    BY AsideFiling DEF Aside, Labels, Unspent
  <2>6. Unspent(pc[r], mem[r]) BY <2>1, <2>2 DEF Unspent
  <2>7. FilingAt(r, "validate", n)
    BY <2>2, <2>3, <2>6, AsideFiling DEF Aside, Labels
  <2>8. Goto(r, "unnamed", m) \/ Goto(r, "validate", n) BY <1>5 DEF Claim
  <2>9. QED BY <1>1, <1>3, <2>4, <2>5, <2>7, <2>8, QuietGoto
<1>6. CASE ReturnUnnamed(r)
  <2>1. Said(PageOf("form")) BY DEF Said, PageOf
  <2>2. QED BY <1>1, <1>3, <1>6, <2>1, QuietReply DEF ReturnUnnamed
<1>7. CASE Validate(r)
  <2>1. pc[r] = "validate" BY <1>7 DEF Validate, At
  <2>2. mem[r].visit = "submit" /\ mem[r].phase # "outcome"
    BY <2>1 DEF FilingInv, Tab, FilingAt
  <2>3. Unspent(pc[r], mem[r]) BY <2>1, <2>2 DEF Unspent
  <2>4. PICK l \in {"insert", "reject"} : Step(r, l) BY <1>7 DEF Validate
  <2>5. QED BY <1>1, <1>3, <2>1, <2>3, <2>4, StepFiling DEF Aside, Labels
<1>8. CASE Reject(r)
  <2>1. CASE Step(r, "save")
    BY <1>1, <1>3, <2>1, StepFiling DEF Aside, Labels, Unspent
  <2>2. CASE Step(r, "ask")
    <3>1. pc[r] = "reject" BY <1>8 DEF Reject, At
    <3>2. Unspent(pc[r], mem[r]) BY <3>1 DEF FilingInv, Tab, FilingAt, Unspent
    <3>3. FilingAt(r, "ask", mem[r]) BY <3>2 DEF FilingInv, Tab, FilingAt, Unspent
    <3>4. Seen(mem[r]) BY DEF FilingInv, Tab
    <3>5. QED BY <1>1, <1>3, <2>2, <3>3, <3>4, QuietGoto DEF Step
  <2>3. QED BY <1>8, <2>1, <2>2 DEF Reject
<1>9. QED BY <1>4, <1>5, <1>6, <1>7, <1>8

\* A move of r that touches the database only in its own name, and never a
\* committed report, leaves the other handlers' knowledge true.
LEMMA OthersFiling ==
    ASSUME FilingInv, NEW q \in Tabs,
           pc'[q] = pc[q], mem'[q] = mem[q], page'[q] = page[q],
           \A i \in Ids : filed[i] # None => filed'[i] = filed[i],
           \A i \in Ids : q \in {open'[i], filed'[i]} => q \in {open[i], filed[i]},
           q \in sent' => q \in sent
    PROVE  Tab(q)'
<1>1. q # None BY ConstantsAssumption
<1>2. pc[q] \in {"finish", "cleanother"} => mem[q].st \in Ids
  BY DEF FilingInv, TypeInv, Locals, LocalFor, Named
<1>3. \A c : IsFiled(c) => IsFiled(c)' BY DEF IsFiled
<1>4. Seen(mem[q])' /\ Said(page[q])' BY <1>3 DEF FilingInv, Tab, Seen, Said
<1>5. FilingAt(q, pc[q], mem[q])'
  BY <1>1, <1>2 DEF FilingInv, Tab, FilingAt, Unspent
<1>6. QED BY <1>4, <1>5 DEF Tab

LEMMA InsertFiling ==
    ASSUME FilingInv, TypeInv', NEW r \in Tabs, Insert(r)
    PROVE  FilingInv'
<1> DEFINE st == mem[r].st
<1>1. pc[r] = "insert" /\ open[st] = None /\ filed[st] = None BY DEF Insert, At
<1>2. /\ mem[r].visit = "submit" /\ mem[r].phase # "outcome" /\ st \in Ids
      /\ r \in Tabs /\ r # None
  BY <1>1, ConstantsAssumption DEF FilingInv, Tab, FilingAt, TypeInv, Locals, LocalFor, Named
<1>3. Unspent(pc[r], mem[r]) BY <1>1, <1>2 DEF Unspent
<1>4. r \notin sent /\ \A i \in Ids : r \notin {open[i], filed[i]}
  BY <1>3 DEF FilingInv, Tab, FilingAt
<1>5. /\ open' = [open EXCEPT ![st] = r] /\ open \in [Ids -> Tabs \cup {None}]
      /\ UNCHANGED <<filed, sent, objects, result>>
  BY DEF Insert, redis, FilingInv, TypeInv, TypeOK
<1>6. /\ pc'[r] = "attach" /\ mem'[r] = mem[r] /\ page' = page
      /\ \A q \in Tabs \ {r} : pc'[q] = pc[q] /\ mem'[q] = mem[q]
  BY MoveFrame DEF FilingInv, Insert, Step
<1>7. Kept' BY <1>1, <1>2, <1>4, <1>5 DEF FilingInv, Kept
<1>8. ResultFiled' BY <1>5 DEF FilingInv, ResultFiled, IsFiled
<1>9. ASSUME NEW q \in Tabs, q # r PROVE Tab(q)'
  BY <1>2, <1>5, <1>6, <1>9, OthersFiling
<1>10. Tab(r)'
  <2>1. FilingAt(r, "attach", mem[r])'
    BY <1>4, <1>5, <1>6 DEF FilingAt, Unspent
  <2>2. QED BY <1>5, <1>6, <2>1 DEF FilingInv, Tab, Seen, Said, IsFiled, FilingAt
<1>11. QED BY <1>7, <1>8, <1>9, <1>10 DEF FilingInv

LEMMA AttachFiling ==
    ASSUME FilingInv, TypeInv', NEW r \in Tabs, Attach(r) \/ AttachFails(r)
    PROVE  FilingInv'
<1> DEFINE m == [mem[r] EXCEPT !.stored = TRUE]
<1>1. mem[r] \in Memory BY DEF FilingInv, TypeInv, TypeOK
<1>2. /\ m.st = mem[r].st /\ m.found = mem[r].found BY <1>1 DEF Memory
<1>3. pc[r] = "attach" BY DEF Attach, AttachFails, At
<1>4. r \notin sent /\ \A i \in Ids : r \in {open[i], filed[i]} => i = mem[r].st
  BY <1>3 DEF FilingInv, Tab, FilingAt
<1>5. PICK l \in {"commit", "ask"}, n \in {m, mem[r]} : Goto(r, l, n)
  BY DEF Attach, AttachFails, Step
<1>6. /\ pc'[r] = l /\ mem'[r] = n /\ page' = page
      /\ \A q \in Tabs \ {r} : pc'[q] = pc[q] /\ mem'[q] = mem[q]
  BY <1>5, MoveFrame DEF FilingInv
<1>7. UNCHANGED <<open, filed, result>> BY DEF Attach, AttachFails, redis
<1>8. \/ UNCHANGED sent /\ (UNCHANGED objects \/ objects' = objects \cup {r})
      \/ sent' = sent \cup {r} /\ objects' = objects \cup {r}
  BY DEF Attach, AttachFails
<1>9. Kept' BY <1>7, <1>8 DEF FilingInv, Kept
<1>10. ResultFiled' BY <1>7 DEF FilingInv, ResultFiled, IsFiled
<1>11. ASSUME NEW q \in Tabs, q # r PROVE Tab(q)'
  BY <1>6, <1>7, <1>8, <1>11, OthersFiling
<1>12. Tab(r)'
  <2>1. FilingAt(r, l, n)' BY <1>2, <1>4, <1>5, <1>7 DEF FilingAt, Unspent
  <2>2. Seen(n)' BY <1>2, <1>5, <1>7 DEF FilingInv, Tab, Seen, IsFiled
  <2>3. QED BY <1>6, <1>7, <2>1, <2>2 DEF FilingInv, Tab, Seen, Said, IsFiled, FilingAt
<1>13. QED BY <1>9, <1>10, <1>11, <1>12 DEF FilingInv

LEMMA CommitFiling ==
    ASSUME FilingInv, TypeInv', NEW r \in Tabs,
           InsertFails(r) \/ CommitReply(r) \/ CommitUnknown(r)
    PROVE  FilingInv'
<1>1. UNCHANGED <<db, result>> BY DEF InsertFails, CommitReply, CommitUnknown, redis
<1>2. ResultFiled' BY <1>1 DEF FilingInv, ResultFiled, IsFiled, db
<1>3. pc[r] \in {"insert", "commit"} BY DEF InsertFails, CommitReply, CommitUnknown, At
<1>4. PICK l \in {"ask", "finish"} :
        Step(r, l) /\ (l = "finish" => filed[mem[r].st] = r)
  BY DEF InsertFails, CommitReply, CommitUnknown
<1>5. \A i \in Ids : r \in {open[i], filed[i]} => i = mem[r].st
  <2>1. CASE pc[r] = "commit" BY <2>1 DEF FilingInv, Tab, FilingAt
  <2>2. CASE pc[r] = "insert"
    <3>1. Unspent(pc[r], mem[r]) BY <2>2 DEF FilingInv, Tab, FilingAt, Unspent
    <3>2. QED BY <3>1 DEF FilingInv, Tab, FilingAt
  <2>3. QED BY <1>3, <2>1, <2>2
<1>6. FilingAt(r, l, mem[r]) BY <1>4, <1>5 DEF FilingAt, Unspent
<1>7. Seen(mem[r]) BY DEF FilingInv, Tab
<1>8. QED BY <1>1, <1>2, <1>4, <1>6, <1>7, QuietGoto DEF Step

LEMMA AskFiling ==
    ASSUME FilingInv, TypeInv', NEW r \in Tabs, Ask(r)
    PROVE  FilingInv'
<1> DEFINE case == filed[mem[r].st]
           m == [mem[r] EXCEPT !.found = case]
<1>1. pc[r] = "ask" /\ UNCHANGED <<db, result>> BY DEF Ask, At, redis
<1>2. ResultFiled' BY <1>1 DEF FilingInv, ResultFiled, IsFiled, db
<1>3. mem[r] \in Memory /\ mem[r].st \in Ids /\ Seen(mem[r])
  BY <1>1 DEF FilingInv, TypeInv, TypeOK, Locals, LocalFor, Named, Tab
<1>4. \A i \in Ids : r \in {open[i], filed[i]} => i = mem[r].st
  BY <1>1 DEF FilingInv, Tab, FilingAt
<1>5. CASE Reply(r, PageOf("kept"))
  <2>1. Said(PageOf("kept")) BY DEF Said, PageOf
  <2>2. QED BY <1>1, <1>2, <1>5, <2>1, QuietReply
<1>6. CASE case = None /\ r \notin sent /\ Step(r, "cleanup")
  <2>1. FilingAt(r, "cleanup", mem[r]) BY <1>4, <1>6 DEF FilingAt, Unspent
  <2>2. QED BY <1>1, <1>2, <1>3, <1>6, <2>1, QuietGoto DEF Step
<1>7. CASE case = r /\ Step(r, "finish")
  <2>1. FilingAt(r, "finish", mem[r]) BY <1>4, <1>7 DEF FilingAt, Unspent
  <2>2. QED BY <1>1, <1>2, <1>3, <1>7, <2>1, QuietGoto DEF Step
<1>8. CASE case \notin {None, r} /\ Goto(r, "cleanother", m)
  <2>1. m.st = mem[r].st /\ m.found = case BY <1>3 DEF Memory
  <2>2. FilingAt(r, "cleanother", m) BY <1>4, <1>8, <2>1 DEF FilingAt, Unspent
  <2>3. Seen(m) BY <1>3, <1>8, <2>1 DEF Seen, IsFiled
  <2>4. QED BY <1>1, <1>2, <1>8, <2>2, <2>3, QuietGoto
<1>9. QED BY <1>5, <1>6, <1>7, <1>8 DEF Ask

\* An attempt deletes its objects only when no transaction of its can be, or
\* become, the committed report.
LEMMA CleanFiling ==
    ASSUME FilingInv, TypeInv', NEW r \in Tabs, CleanUp(r) \/ CleanOther(r)
    PROVE  FilingInv'
<1> DEFINE m == [mem[r] EXCEPT !.stored = FALSE]
<1>1. PICK l \in {"giveback", "yield"} : Goto(r, l, m)
  BY DEF CleanUp, CleanOther, DeleteStored
<1>2. pc[r] \in {"cleanup", "cleanother"} BY DEF CleanUp, CleanOther, At
<1>3. /\ UNCHANGED <<open, filed, sent, result>>
      /\ objects' = objects \/ objects' = objects \ {r}
  BY DEF CleanUp, CleanOther, DeleteStored, redis
<1>4. /\ pc'[r] = l /\ mem'[r] = m /\ page' = page
      /\ \A q \in Tabs \ {r} : pc'[q] = pc[q] /\ mem'[q] = mem[q]
  BY <1>1, MoveFrame DEF FilingInv
<1>5. mem[r].st \in Ids /\ mem[r] \in Memory /\ r # None
  BY <1>2, ConstantsAssumption DEF FilingInv, TypeInv, TypeOK, Locals, LocalFor, Named
<1>6. m.found = mem[r].found BY <1>5 DEF Memory
<1>7. \A i \in Ids : r \in sent => r \notin {open[i], filed[i]}
  <2>1. CASE pc[r] = "cleanup" BY <2>1 DEF FilingInv, Tab, FilingAt
  <2>2. CASE pc[r] = "cleanother"
    <3>1. /\ filed[mem[r].st] \notin {None, r}
          /\ \A i \in Ids : r \in {open[i], filed[i]} => i = mem[r].st
      BY <2>2 DEF FilingInv, Tab, FilingAt
    <3>2. open[mem[r].st] = None BY <1>5, <3>1 DEF FilingInv, Kept
    <3>3. QED BY <1>5, <3>1, <3>2
  <2>3. QED BY <1>2, <2>1, <2>2
<1>8. Kept' BY <1>3, <1>5, <1>7 DEF FilingInv, Kept
<1>9. ResultFiled' BY <1>3 DEF FilingInv, ResultFiled, IsFiled
<1>10. ASSUME NEW q \in Tabs, q # r PROVE Tab(q)'
  BY <1>3, <1>4, <1>10, OthersFiling
<1>11. Tab(r)'
  <2>1. ~Unspent(l, m) BY DEF Unspent
  <2>2. FilingAt(r, l, m)' BY <2>1 DEF FilingAt, Unspent
  <2>3. Seen(m)' /\ Said(page[r])'
    BY <1>3, <1>4, <1>6 DEF FilingInv, Tab, Seen, Said, IsFiled
  <2>4. FilingAt(r, pc[r], mem[r])' BY <1>4, <2>2 DEF FilingAt, Unspent
  <2>5. QED BY <1>4, <2>3, <2>4 DEF Tab, Seen
<1>12. QED BY <1>8, <1>9, <1>10, <1>11 DEF FilingInv

LEMMA SettleFiling ==
    ASSUME FilingInv, TypeInv', NEW r \in Tabs,
           GiveBack(r) \/ Finish(r) \/ FinishFails(r) \/ Yield(r) \/ StoredResult(r)
    PROVE  FilingInv'
<1>1. UNCHANGED db BY DEF GiveBack, Finish, FinishFails, Yield, StoredResult
<1>2. r # None BY ConstantsAssumption
<1>3. CASE GiveBack(r)
  <2>1. ResultFiled' /\ pc[r] = "giveback"
    BY <1>1, <1>3 DEF GiveBack, GiveBackScript, At, redis, FilingInv, ResultFiled, IsFiled, db
  <2>2. CASE Step(r, "save")
    BY <1>1, <2>1, <2>2, StepFiling DEF Aside, Labels, Unspent
  <2>3. CASE Outcome(r) BY <1>1, <2>1, <2>3, OutcomeFiling
  <2>4. QED BY <1>3, <2>2, <2>3 DEF GiveBack
<1>4. CASE Finish(r) \/ FinishFails(r)
  <2> DEFINE res == [case |-> r, pin |-> TRUE]
  <2>1. pc[r] = "finish" BY <1>4 DEF Finish, FinishFails, At
  <2>2. filed[mem[r].st] = r /\ mem[r].st \in Ids
    BY <2>1 DEF FilingInv, Tab, FilingAt, TypeInv, Locals, LocalFor, Named
  <2>3. IsFiled(r) BY <1>2, <2>2 DEF IsFiled
  <2>4. result' = res \/ result' = result
    BY <1>4 DEF Finish, FinishFails, FinishScript, redis
  <2>5. ResultFiled' BY <1>1, <2>3, <2>4 DEF FilingInv, ResultFiled, IsFiled, db
  <2>6. Said(Success(res)) BY <2>3 DEF Said, Success
  <2>7. QED BY <1>1, <1>4, <2>5, <2>6, QuietReply DEF Finish, FinishFails
<1>5. CASE Yield(r)
  <2>1. ResultFiled' /\ pc[r] = "yield"
    BY <1>1, <1>5 DEF Yield, FinishScript, At, FilingInv, ResultFiled, IsFiled, db
  <2>2. QED BY <1>1, <1>5, <2>1, StepFiling DEF Yield, Aside, Labels, Unspent
<1>6. CASE StoredResult(r)
  <2> DEFINE res == IF result # None /\ result.case = mem[r].found
                    THEN result ELSE Received(mem[r].found)
  <2>1. ResultFiled' BY <1>1, <1>6 DEF StoredResult, redis, FilingInv, ResultFiled, IsFiled, db
  <2>2. mem[r].found # None
    BY <1>6, ConstantsAssumption
    DEF StoredResult, At, FilingInv, TypeInv, Locals, LocalFor, Yielded
  <2>3. IsFiled(mem[r].found) BY <2>2 DEF FilingInv, Tab, Seen
  <2>4. res.case = mem[r].found BY DEF Received
  <2>5. Said(Success(res)) BY <2>3, <2>4 DEF Said, Success
  <2>6. QED BY <1>1, <1>6, <2>1, <2>5, QuietReply DEF StoredResult
<1>7. QED BY <1>3, <1>4, <1>5, <1>6

LEMMA FaultFiling ==
    ASSUME FilingInv, TypeInv', NEW r \in Tabs,
           \/ RecoverLookupFails(r) \/ AskFails(r) \/ Crash(r)
           \/ CheckAgain(r) \/ \E v \in Visits : Start(r, v)
    PROVE  FilingInv'
<1>1. UNCHANGED <<db, result>>
  BY DEF RecoverLookupFails, AskFails, Crash, CheckAgain, Start, redis
<1>2. ResultFiled' BY <1>1 DEF FilingInv, ResultFiled, IsFiled, db
<1>3. CASE RecoverLookupFails(r) \/ AskFails(r) \/ Crash(r)
  <2>1. PICK w \in {"none", "kept"} : Reply(r, PageOf(w))
    BY <1>3 DEF RecoverLookupFails, AskFails, Crash
  <2>2. Said(PageOf(w)) BY DEF Said, PageOf
  <2>3. QED BY <1>1, <1>2, <2>1, <2>2, QuietReply
<1>4. CASE CheckAgain(r)
  <2>1. /\ pc[r] = "done" /\ mem' = mem /\ page'[r] = PageOf("none") /\ pc'[r] = "load"
        /\ \A q \in Tabs \ {r} : pc'[q] = pc[q] /\ page'[q] = page[q]
    BY <1>4 DEF CheckAgain, At, FilingInv, TypeInv, TypeOK
  <2>2. mem[r] = MemoryOf("get") BY <2>1 DEF FilingInv, TypeInv, Locals, LocalFor
  <2>3. ASSUME NEW q \in Tabs, q # r PROVE Tab(q)'
    BY <1>1, <2>1, <2>3, OthersFiling DEF db
  <2>4. FilingAt(r, pc[r], mem[r])'
    BY <2>1, <2>2 DEF FilingAt, Unspent, MemoryOf
  <2>5. Seen(mem[r])' /\ Said(page[r])' BY <2>1, <2>2 DEF Seen, Said, MemoryOf, PageOf
  <2>6. Kept' BY <1>1 DEF FilingInv, Kept, db
  <2>7. QED BY <1>2, <2>3, <2>4, <2>5, <2>6 DEF FilingInv, Tab
<1>5. ASSUME NEW v \in Visits, Start(r, v) PROVE FilingInv'
  <2> DEFINE m == MemoryOf(v)
  <2>1. pc[r] = "idle" BY <1>5 DEF Start, At
  <2>2. PICK l \in {"restart", "load"} : Goto(r, l, m) BY <1>5 DEF Start
  <2>3. Unspent(pc[r], mem[r]) BY <2>1 DEF Unspent
  <2>4. FilingAt(r, l, m) BY <2>3, AsideFiling DEF Aside, Labels
  <2>5. Seen(m) BY DEF Seen, MemoryOf
  <2>6. QED BY <1>1, <1>2, <2>2, <2>4, <2>5, QuietGoto
<1>6. QED BY <1>3, <1>4, <1>5

LEMMA EnvironmentFiling ==
    ASSUME FilingInv, TypeInv',
           \/ \E r \in Tabs : RollBack(r) \/ CommitLands(r) \/ CommitLost(r)
           \/ PendingExpires \/ ResultExpires \/ DraftExpires
    PROVE  FilingInv'
<1>1. /\ open \in [Ids -> Tabs \cup {None}] /\ filed \in [Ids -> Tabs \cup {None}]
      /\ None \notin sent
  BY ConstantsAssumption DEF FilingInv, TypeInv, TypeOK
<1>2. UNCHANGED <<pc, mem, page, sent, objects>>
  BY DEF RollBack, CommitLands, CommitLost, PendingExpires, ResultExpires, DraftExpires, db
<1>3. ASSUME NEW r \in Tabs, RollBack(r) \/ CommitLost(r) PROVE FilingInv'
  <2>1. PICK i \in Ids : open[i] = r /\ open' = [open EXCEPT ![i] = None]
    BY <1>3 DEF RollBack, CommitLost
  <2>2. UNCHANGED <<filed, result>> BY <1>3 DEF RollBack, CommitLost, redis
  <2>3. Kept' BY <1>1, <1>2, <2>1, <2>2 DEF FilingInv, Kept
  <2>4. ResultFiled' BY <2>2 DEF FilingInv, ResultFiled, IsFiled
  <2>5. ASSUME NEW q \in Tabs PROVE Tab(q)'
    <3>1. \A j \in Ids : q \in {open'[j], filed'[j]} => q \in {open[j], filed[j]}
      BY <1>1, <2>1, <2>2, ConstantsAssumption
    <3>2. \A j \in Ids : filed[j] # None => filed'[j] = filed[j] BY <2>2
    <3>3. pc'[q] = pc[q] /\ mem'[q] = mem[q] /\ page'[q] = page[q] /\ sent' = sent
      BY <1>2
    <3>4. QED BY <3>1, <3>2, <3>3, OthersFiling
  <2>6. QED BY <2>3, <2>4, <2>5 DEF FilingInv
<1>4. ASSUME NEW r \in Tabs, CommitLands(r) PROVE FilingInv'
  <2>1. PICK i \in Ids : /\ open[i] = r /\ open' = [open EXCEPT ![i] = None]
                         /\ filed' = [filed EXCEPT ![i] = r]
    BY <1>4 DEF CommitLands
  <2>2. r \in sent /\ UNCHANGED result BY <1>4 DEF CommitLands, redis
  <2>3. r \in objects /\ filed[i] = None BY <1>1, <2>1, <2>2 DEF FilingInv, Kept
  <2>4. Kept' BY <1>1, <1>2, <2>1, <2>2, <2>3 DEF FilingInv, Kept
  <2>5. \A j \in Ids : filed[j] # None => filed'[j] = filed[j] BY <1>1, <2>1, <2>3
  <2>6. ResultFiled' BY <2>2, <2>5 DEF FilingInv, ResultFiled, IsFiled
  <2>7. ASSUME NEW q \in Tabs PROVE Tab(q)'
    <3>1. \A j \in Ids : q \in {open'[j], filed'[j]} => q \in {open[j], filed[j]}
      BY <1>1, <2>1, ConstantsAssumption
    <3>2. pc'[q] = pc[q] /\ mem'[q] = mem[q] /\ page'[q] = page[q] /\ sent' = sent
      BY <1>2
    <3>3. QED BY <2>5, <3>1, <3>2, OthersFiling
  <2>8. QED BY <2>4, <2>6, <2>7 DEF FilingInv
<1>5. ASSUME PendingExpires \/ ResultExpires \/ DraftExpires PROVE FilingInv'
  <2>1. UNCHANGED db /\ (UNCHANGED result \/ result' = None)
    BY <1>5 DEF PendingExpires, ResultExpires, DraftExpires
  <2>2. Kept' BY <2>1 DEF FilingInv, Kept, db
  <2>3. ResultFiled' BY <2>1 DEF FilingInv, ResultFiled, IsFiled, db
  <2>4. ASSUME NEW q \in Tabs PROVE Tab(q)' BY <1>2, <2>1, OthersFiling DEF db
  <2>5. QED BY <2>2, <2>3, <2>4 DEF FilingInv
<1>6. QED BY <1>3, <1>4, <1>5

LEMMA NextFiling == FilingInv /\ [Next]_vars => FilingInv'
<1> SUFFICES ASSUME FilingInv, [Next]_vars PROVE FilingInv' OBVIOUS
<1>1. TypeInv' BY NextTypeInv DEF FilingInv
<1>2. ASSUME NEW r \in Tabs, Handler(r) PROVE FilingInv'
  BY <1>1, <1>2, LoadFiling, SaveFiling, RecoverFiling, PageFiling, ClaimFiling,
     InsertFiling, AttachFiling, CommitFiling, AskFiling, CleanFiling, SettleFiling
  DEF Handler
<1>3. CASE UNCHANGED vars
  <2>1. UNCHANGED <<open, filed, sent, objects, result, pc, mem, page>>
    BY <1>3 DEF vars, redis, db
  <2>2. Kept' /\ ResultFiled' BY <2>1 DEF FilingInv, Kept, ResultFiled, IsFiled
  <2>3. ASSUME NEW q \in Tabs PROVE Tab(q)' BY <2>1, OthersFiling
  <2>4. QED BY <1>1, <2>2, <2>3 DEF FilingInv
<1>4. QED BY <1>1, <1>2, <1>3, FaultFiling, SettleFiling, EnvironmentFiling DEF Next

----------------------------------------------------------------------------

LEMMA FilingCorrect == Spec => []FilingInv
BY InitFiling, NextFiling, PTL DEF Spec

\* No handler - claimer, late claimer, second click, recovery, reload - shows a
\* case number that is not in the database.
THEOREM ReceivedCorrect == Spec => []ReceivedIsFiled
<1>1. FilingInv => ReceivedIsFiled
  BY DEF FilingInv, Tab, Said, IsFiled, ReceivedIsFiled
<1>2. QED BY <1>1, FilingCorrect, PTL

\* No cleanup deletes the attachments of a report that was, or may yet be,
\* committed: the COMMIT of a handler that gave up can still land.
THEOREM AttachmentsCorrect == Spec => []AttachmentsKept
<1>1. FilingInv => AttachmentsKept
  BY DEF FilingInv, Kept, AttachmentsKept, FiledReports
<1>2. QED BY <1>1, FilingCorrect, PTL

----------------------------------------------------------------------------
(* What a step does to the keys of the draft *)

\* The keys a submit and its recovery hand the draft through.
keys == <<draft, claimed, pending, reportId>>

Saves(r) ==
    /\ pc[r] = "save"
    /\ draft' = [id |-> mem[r].st, by |-> r]
    /\ UNCHANGED <<claimed, pending, reportId, discarded>>

Assigns(r) ==
    /\ AssignReportId(r)
    /\ UNCHANGED <<draft, claimed, pending, discarded>>

Recovers(r) ==
    /\ pc[r] = "rescript"
    /\ pending = None /\ draft = None /\ claimed = mem[r].raw
    /\ claimed' = None /\ pending' = pending
    /\ IF mem[r].found = None
       THEN draft' = claimed /\ reportId' = reportId
       ELSE draft' = draft /\ reportId' = None
    /\ UNCHANGED <<filed, discarded>>

Claims(r) ==
    /\ pc[r] = "claim" /\ draft # None /\ claimed = None
    /\ claimed' = draft /\ draft' = None /\ pending' = r
    /\ UNCHANGED <<reportId, discarded>>

GivesBack(r) ==
    /\ pc[r] \in {"unnamed", "reject", "giveback"} /\ pc'[r] \notin {pc[r], "unnamed"}
    /\ pending \in {None, r}
    /\ draft' = IF draft = None THEN mem[r].raw ELSE draft
    /\ claimed' = None /\ pending' = None
    /\ UNCHANGED <<reportId, discarded>>

Spends(r) ==
    /\ pc[r] \in {"finish", "yield"} /\ pc'[r] \notin {pc[r], "unnamed"}
    /\ pending \in {None, r}
    /\ draft' = None /\ claimed' = None /\ pending' = None /\ reportId' = None
    /\ UNCHANGED <<filed, discarded>>

\* Every step leaves the keys alone or is one of these.
LEMMA KeysStep ==
    ASSUME TypeInv, [Next]_vars
    PROVE  \/ UNCHANGED <<keys, discarded>>
           \/ \E r \in Tabs :
               \/ Saves(r) \/ Assigns(r) \/ Recovers(r) \/ Claims(r)
               \/ GivesBack(r) \/ Spends(r) \/ Restart(r)
           \/ PendingExpires \/ DraftExpires
<1> DEFINE Goal ==
      \/ UNCHANGED <<keys, discarded>>
      \/ \E r \in Tabs :
          \/ Saves(r) \/ Assigns(r) \/ Recovers(r) \/ Claims(r)
          \/ GivesBack(r) \/ Spends(r) \/ Restart(r)
      \/ PendingExpires \/ DraftExpires
<1>1. CASE UNCHANGED vars BY <1>1 DEF vars, redis, env, keys
<1>2. CASE PendingExpires \/ DraftExpires BY <1>2
<1>3. CASE ResultExpires BY <1>3 DEF ResultExpires, keys
<1>4. ASSUME NEW r \in Tabs,
             \/ CheckAgain(r) \/ (\E v \in Visits : Start(r, v))
             \/ RecoverLookupFails(r) \/ AskFails(r) \/ FinishFails(r) \/ Crash(r)
             \/ RollBack(r) \/ CommitLands(r) \/ CommitLost(r)
      PROVE  Goal
  BY <1>4 DEF CheckAgain, Start, RecoverLookupFails, AskFails, FinishFails, Crash,
     RollBack, CommitLands, CommitLost, redis, env, keys
<1>5. ASSUME NEW r \in Tabs, Handler(r) PROVE Goal
  <2>0. pc \in [Tabs -> Labels] BY DEF TypeInv, TypeOK
  <2>1. CASE \/ Load(r) \/ AssignTooLate(r) \/ RecoverCheck(r) \/ RecoverRead(r)
             \/ RecoverLookup(r) \/ Flight(r) \/ PollEnds(r) \/ TakeNothing(r)
             \/ StillProcessing(r) \/ ClaimRefused(r) \/ Validate(r)
    BY <2>1 DEF Load, AssignTooLate, RecoverCheck, RecoverRead, RecoverLookup, Flight,
       PollEnds, TakeNothing, StillProcessing, ClaimRefused, Validate, redis, env, keys
  <2>2. CASE \/ Insert(r) \/ InsertFails(r) \/ Attach(r) \/ AttachFails(r)
             \/ CommitReply(r) \/ CommitUnknown(r) \/ Ask(r) \/ CleanUp(r)
             \/ CleanOther(r) \/ StoredResult(r)
    BY <2>2 DEF Insert, InsertFails, Attach, AttachFails, Fault, CommitReply,
       CommitUnknown, Ask, CleanUp, CleanOther, DeleteStored, StoredResult, redis, env, keys
  <2>3. CASE PollFinds(r) \/ TakeFinds(r)
    BY <2>3 DEF PollFinds, TakeFinds, TakeResult, env, keys
  <2>4. CASE AssignReportId(r) BY <2>4 DEF Assigns, AssignReportId, env
  <2>5. CASE Save(r) BY <2>5 DEF Save, Saves, At, env
  <2>6. CASE Restart(r) BY <2>6
  <2>7. CASE Recover(r)
    BY <2>7 DEF Recover, RecoverScript, Recovers, At, redis, db, env, keys
  <2>8. CASE Claim(r) BY <2>8 DEF Claim, Claims, At, env
  <2>9. ASSUME NEW l \in {"save", "ask", "poll", "done"},
               GiveBackScript(r), pc[r] \in {"unnamed", "reject", "giveback"},
               pc'[r] = l, UNCHANGED env
        PROVE  Goal
    BY <2>9 DEF GiveBackScript, GivesBack, redis, env, keys
  <2>10. CASE ReturnUnnamed(r) \/ Reject(r) \/ GiveBack(r)
    BY <2>0, <2>9, <2>10
    DEF ReturnUnnamed, Reject, GiveBack, At, Reply, Step, Goto, Outcome
  <2>11. CASE Finish(r) \/ Yield(r)
    <3>1. pc[r] \in {"finish", "yield"} /\ pc'[r] \in {"done", "stored"}
      BY <2>0, <2>11 DEF Finish, Yield, At, Reply, Step, Goto
    <3>2. UNCHANGED <<filed, discarded>> BY <2>11 DEF Finish, Yield, db, env
    <3>3. \/ UNCHANGED keys
          \/ /\ pending \in {None, r}
             /\ draft' = None /\ claimed' = None /\ pending' = None /\ reportId' = None
      BY <2>11 DEF Finish, Yield, FinishScript, keys
    <3>4. QED BY <3>1, <3>2, <3>3 DEF Spends
  <2>12. QED
    BY <1>5, <2>1, <2>2, <2>3, <2>4, <2>5, <2>6, <2>7, <2>8, <2>10, <2>11 DEF Handler
<1>6. QED BY <1>1, <1>2, <1>3, <1>4, <1>5 DEF Next

\* While a submit's claim is pending only that submit ends it, whatever the
\* recoveries and the slow submits of other tabs do.
THEOREM ClaimsRespected == Spec => ClaimRespected
<1> DEFINE Respected == \A q \in Tabs :
      pending = q /\ claimed # None /\ claimed' # claimed =>
          pc'[q] # pc[q] \/ discarded'
<1>1. ASSUME TypeInv, [Next]_vars PROVE Respected
  <2>1. CASE UNCHANGED <<keys, discarded>> BY <2>1 DEF keys
  <2>2. ASSUME NEW r \in Tabs,
               Saves(r) \/ Assigns(r) \/ Recovers(r) \/ Claims(r)
        PROVE  Respected
    BY <2>2, ConstantsAssumption DEF Saves, Assigns, Recovers, Claims
  <2>3. ASSUME NEW r \in Tabs, GivesBack(r) \/ Spends(r) PROVE Respected
    BY <2>3, ConstantsAssumption DEF GivesBack, Spends
  <2>4. ASSUME NEW r \in Tabs, Restart(r) PROVE Respected BY <2>4 DEF Restart
  <2>5. CASE PendingExpires \/ DraftExpires
    BY <2>5 DEF PendingExpires, DraftExpires
  <2>6. QED BY <1>1, <2>1, <2>2, <2>3, <2>4, <2>5, KeysStep
<1>2. ASSUME TypeInv, [Next]_vars PROVE [Respected]_vars BY <1>1, <1>2
<1>3. Spec => []TypeInv BY InitTypeInv, NextTypeInv, PTL DEF Spec
<1>4. QED BY <1>2, <1>3, PTL DEF Spec, ClaimRespected

\* Only a COMMIT that lands files a report.
LEMMA FiledStep ==
    ASSUME [Next]_vars
    PROVE  UNCHANGED filed \/ \E r \in Tabs : CommitLands(r)
<1>1. ASSUME NEW r \in Tabs, Handler(r) PROVE UNCHANGED filed
  BY <1>1 DEF Handler, Load, AssignReportId, AssignTooLate, Save, Restart, RecoverCheck,
     RecoverRead, RecoverLookup, Recover, Flight, PollFinds, TakeFinds, TakeResult, PollEnds,
     TakeNothing, StillProcessing, ClaimRefused, Claim, ReturnUnnamed, Validate, Reject,
     Insert, InsertFails, Attach, AttachFails, CommitReply, CommitUnknown, Ask, CleanUp,
     CleanOther, DeleteStored, GiveBack, Finish, Yield, StoredResult, db
<1>2. ASSUME PendingExpires \/ ResultExpires \/ DraftExpires \/ UNCHANGED vars
      PROVE  UNCHANGED filed
  BY <1>2 DEF PendingExpires, ResultExpires, DraftExpires, vars, db
<1>3. ASSUME NEW r \in Tabs,
             \/ CheckAgain(r) \/ (\E v \in Visits : Start(r, v))
             \/ RecoverLookupFails(r) \/ AskFails(r) \/ FinishFails(r) \/ Crash(r)
             \/ RollBack(r) \/ CommitLost(r)
      PROVE  UNCHANGED filed
  BY <1>3 DEF CheckAgain, Start, RecoverLookupFails, AskFails, FinishFails, Crash,
     RollBack, CommitLost, db
<1>4. QED BY <1>1, <1>2, <1>3 DEF Next

\* Committed reports stay.
LEMMA FiledStays ==
    ASSUME FilingInv, [Next]_vars
    PROVE  \A i \in Ids : filed[i] # None => filed'[i] = filed[i]
<1>1. ASSUME NEW r \in Tabs, CommitLands(r)
      PROVE  \A i \in Ids : filed[i] # None => filed'[i] = filed[i]
  <2>1. PICK i \in Ids : open[i] = r /\ filed' = [filed EXCEPT ![i] = r]
    BY <1>1 DEF CommitLands
  <2>2. filed[i] = None BY <2>1, ConstantsAssumption DEF FilingInv, Kept
  <2>3. QED BY <2>1, <2>2 DEF FilingInv, TypeInv, TypeOK
<1>2. QED BY <1>1, FiledStep

\* Until its report exists the draft stays within reach.
LEMMA DraftStep ==
    ASSUME FilingInv, DraftKept, [Next]_vars
    PROVE  DraftKept'
<1> SUFFICES ASSUME FiledReports' = {}, ~discarded' PROVE (draft # None \/ claimed # None)'
  BY DEF DraftKept
<1>0. TypeInv /\ Store /\ Control /\ pc \in [Tabs -> Labels]
  BY TypeInvParts DEF FilingInv, Control
<1>1. \A i \in Ids : filed[i] = None /\ filed'[i] = None
  BY FiledStays DEF FiledReports
<1>2. FiledReports = {} BY <1>1 DEF FiledReports
<1>3. discarded => discarded'
  <2>1. ASSUME NEW r \in Tabs,
               \/ Saves(r) \/ Assigns(r) \/ Recovers(r) \/ Claims(r)
               \/ GivesBack(r) \/ Spends(r)
        PROVE  UNCHANGED discarded
    BY <2>1 DEF Saves, Assigns, Recovers, Claims, GivesBack, Spends
  <2>2. \A r \in Tabs : Restart(r) => discarded' BY DEF Restart
  <2>3. DraftExpires => discarded' BY DEF DraftExpires
  <2>4. PendingExpires => UNCHANGED discarded BY DEF PendingExpires, env
  <2>5. QED BY <1>0, <2>1, <2>2, <2>3, <2>4, KeysStep
<1>4. draft # None \/ claimed # None BY <1>2, <1>3 DEF DraftKept
<1>5. CASE UNCHANGED <<keys, discarded>> BY <1>4, <1>5 DEF keys
<1>6. ASSUME NEW r \in Tabs, Saves(r) \/ Assigns(r) \/ Claims(r)
      PROVE  (draft # None \/ claimed # None)'
  <2>2. CASE Saves(r)
    <3>1. mem[r].st \in Ids BY <1>0, <2>2, LocalsAt DEF Saves, Named
    <3>2. draft' \in Token BY <2>2, <3>1 DEF Saves, Token
    <3>3. QED BY <3>2, AbsentAssumption
  <2>3. QED BY <1>4, <1>6, <2>2 DEF Assigns, Claims
<1>7. ASSUME NEW r \in Tabs, Recovers(r) PROVE draft' # None
  <2>1. ~IsFiled(mem[r].found) BY <1>1 DEF IsFiled
  <2>2. mem[r].found = None BY <2>1 DEF FilingInv, Tab, Seen
  <2>3. QED BY <1>4, <1>7, <2>2 DEF Recovers
<1>8. ASSUME NEW r \in Tabs, GivesBack(r) PROVE draft' # None
  <2>1. mem[r].raw \in Token BY <1>0, <1>8, LocalsAt DEF GivesBack, HasRaw
  <2>2. mem[r].raw # None BY <2>1, AbsentAssumption
  <2>3. QED BY <1>8, <2>2 DEF GivesBack
<1>9. ASSUME NEW r \in Tabs, Spends(r) PROVE FALSE
  <2>1. CASE pc[r] = "finish"
    <3>1. filed[mem[r].st] = r /\ mem[r].st \in Ids
      BY <1>0, <2>1, LocalsAt DEF FilingInv, Tab, FilingAt, Named
    <3>2. QED BY <1>1, <3>1, ConstantsAssumption
  <2>2. CASE pc[r] = "yield"
    <3>1. mem[r].found \in Tabs BY <1>0, <2>2, LocalsAt DEF Yielded
    <3>2. IsFiled(mem[r].found) BY <3>1, ConstantsAssumption DEF FilingInv, Tab, Seen
    <3>3. QED BY <1>1, <3>2 DEF IsFiled
  <2>3. QED BY <1>9, <2>1, <2>2 DEF Spends
<1>10. ASSUME NEW r \in Tabs, Restart(r) PROVE FALSE BY <1>10 DEF Restart
<1>11. CASE PendingExpires BY <1>4, <1>11 DEF PendingExpires
<1>12. CASE DraftExpires BY <1>12 DEF DraftExpires
<1>13. QED
  BY <1>0, <1>5, <1>6, <1>7, <1>8, <1>9, <1>10, <1>11, <1>12, KeysStep

\* No failure between claim and commit loses the answers: until the report
\* exists, the draft is under its own key or under the claim.
THEOREM DraftNeverLost == Spec => []DraftKept
<1>1. Init => DraftKept
  <2>1. Init => draft \in Token BY DEF Init, Token
  <2>2. QED BY <2>1, AbsentAssumption DEF DraftKept
<1>2. FilingInv /\ DraftKept /\ [Next]_vars => DraftKept' BY DraftStep
<1>3. QED BY <1>1, <1>2, FilingCorrect, PTL DEF Spec

----------------------------------------------------------------------------
(* What an attempt leaves in the object store *)

\* Without a fault a COMMIT that was issued is open or filed, and an object put
\* before the COMMIT is still known to the handler that is to delete it.
CleanAt(r, l, m) ==
    /\ r \in sent => \E i \in Ids : r \in {open[i], filed[i]}
    /\ r \in objects \ sent => l \in {"ask", "cleanup", "cleanother"} /\ m.stored
    /\ l = "attach" => open[m.st] = r /\ m.visit = "submit"

CleanInv == faults = 0 => \A r \in Tabs : CleanAt(r, pc[r], mem[r])

\* What another tab's step may do to r's transactions and objects.
LEMMA CleanOthers ==
    ASSUME NEW r \in Tabs, CleanAt(r, pc[r], mem[r]), TypeInv,
           pc'[r] = pc[r], mem'[r] = mem[r],
           r \in sent' <=> r \in sent, r \in objects' <=> r \in objects,
           \A i \in Ids : r \in {open[i], filed[i]} => r \in {open'[i], filed'[i]},
           \A i \in Ids : open[i] = r => open'[i] = r
    PROVE  CleanAt(r, pc[r], mem[r])'
<1>1. pc[r] = "attach" => mem[r].st \in Ids
  BY TypeInvParts, LocalsAt DEF Named
<1>2. QED BY <1>1 DEF CleanAt

\* A step of r outside the part of its work that CleanAt is about.
LEMMA CleanQuiet ==
    ASSUME TypeInv, CleanInv, NEW r \in Tabs, UNCHANGED <<db, faults>>,
           \A q \in Tabs \ {r} : pc'[q] = pc[q] /\ mem'[q] = mem[q],
           pc[r] \notin {"ask", "cleanup", "cleanother"}, pc'[r] # "attach"
    PROVE  CleanInv'
<1> SUFFICES ASSUME faults' = 0, NEW q \in Tabs PROVE CleanAt(q, pc[q], mem[q])'
  BY DEF CleanInv
<1>1. CleanAt(q, pc[q], mem[q]) BY DEF CleanInv
<1>2. UNCHANGED <<open, filed, sent, objects>> BY DEF db
<1>3. CASE q = r BY <1>1, <1>2, <1>3 DEF CleanAt
<1>4. CASE q # r BY <1>1, <1>2, <1>4, CleanOthers
<1>5. QED BY <1>3, <1>4

\* Only an INSERT leads to the attachments.
LEMMA NoAttach ==
    ASSUME TypeInv, NEW r \in Tabs
    PROVE  /\ \A m : Loaded(r, m) \/ NotLoaded(r, m) => pc'[r] # "attach"
           /\ Recovered(r) \/ Outcome(r) => pc'[r] # "attach"
           /\ \A l, m : Goto(r, l, m) => pc'[r] = l
           /\ \A l : Step(r, l) => pc'[r] = l
           /\ \A p : Reply(r, p) => pc'[r] = "done"
<1>0. pc \in [Tabs -> Labels] BY DEF TypeInv, TypeOK
<1>1. \A l, m : Goto(r, l, m) => pc'[r] = l BY <1>0 DEF Goto
<1>2. \A p : Reply(r, p) => pc'[r] = "done" BY <1>0 DEF Reply
<1>3. \A l : Step(r, l) => pc'[r] = l BY <1>1 DEF Step
<1>4. ASSUME NEW m, Loaded(r, m) PROVE pc'[r] # "attach"
  BY <1>1, <1>2, <1>4 DEF Loaded
<1>5. ASSUME NEW m, NotLoaded(r, m) PROVE pc'[r] # "attach"
  BY <1>1, <1>2, <1>5 DEF NotLoaded
<1>6. Recovered(r) \/ Outcome(r) => pc'[r] # "attach"
  BY <1>1 DEF Recovered, Outcome
<1>7. QED BY <1>1, <1>2, <1>3, <1>4, <1>5, <1>6

\* Only r's own locals change in a step of r.
LEMMA OneMoves ==
    ASSUME TypeInv, NEW r \in Tabs,
           Handler(r) \/ CheckAgain(r) \/ \E v \in Visits : Start(r, v)
    PROVE  \A q \in Tabs \ {r} : pc'[q] = pc[q] /\ mem'[q] = mem[q]
<1> DEFINE Goal == \A q \in Tabs \ {r} : pc'[q] = pc[q] /\ mem'[q] = mem[q]
<1>0. pc \in [Tabs -> Labels] /\ mem \in [Tabs -> Memory] BY DEF TypeInv, TypeOK
<1>1. ASSUME NEW l, NEW m, Goto(r, l, m) PROVE Goal BY <1>0, <1>1 DEF Goto
<1>2. ASSUME NEW p, Reply(r, p) PROVE Goal BY <1>0, <1>2 DEF Reply
<1>3. ASSUME NEW l, Step(r, l) PROVE Goal BY <1>1, <1>3 DEF Step
<1>4. ASSUME NEW m, Loaded(r, m) \/ NotLoaded(r, m) PROVE Goal
  BY <1>1, <1>2, <1>4 DEF Loaded, NotLoaded
<1>5. Recovered(r) \/ Outcome(r) => Goal BY <1>1 DEF Recovered, Outcome
<1>6. CASE \/ CheckAgain(r) \/ \E v \in Visits : Start(r, v)
  BY <1>0, <1>1, <1>6 DEF CheckAgain, Start
<1>7. CASE Load(r) \/ AssignReportId(r) \/ AssignTooLate(r)
  BY <1>1, <1>4, <1>7 DEF Load, AssignReportId, AssignTooLate
<1>8. CASE \/ Save(r) \/ Restart(r) \/ RecoverCheck(r) \/ RecoverRead(r)
           \/ RecoverLookup(r) \/ Recover(r)
  BY <1>1, <1>2, <1>3, <1>5, <1>8
  DEF Save, Restart, RecoverCheck, RecoverRead, RecoverLookup, Recover
<1>9. CASE \/ Flight(r) \/ PollFinds(r) \/ PollEnds(r) \/ TakeFinds(r)
           \/ TakeNothing(r) \/ StillProcessing(r)
  BY <1>1, <1>2, <1>3, <1>5, <1>9
  DEF Flight, PollFinds, PollEnds, TakeFinds, TakeNothing, StillProcessing, TakeResult
<1>10. CASE \/ ClaimRefused(r) \/ Claim(r) \/ ReturnUnnamed(r) \/ Validate(r) \/ Reject(r)
  BY <1>1, <1>2, <1>3, <1>5, <1>10
  DEF ClaimRefused, Claim, ReturnUnnamed, Validate, Reject
<1>11. CASE \/ Insert(r) \/ InsertFails(r) \/ Attach(r) \/ AttachFails(r)
            \/ CommitReply(r) \/ CommitUnknown(r)
  BY <1>1, <1>3, <1>11
  DEF Insert, InsertFails, Attach, AttachFails, CommitReply, CommitUnknown
<1>12. CASE \/ Ask(r) \/ CleanUp(r) \/ CleanOther(r) \/ GiveBack(r)
            \/ Finish(r) \/ Yield(r) \/ StoredResult(r)
  BY <1>1, <1>2, <1>3, <1>5, <1>12
  DEF Ask, CleanUp, CleanOther, DeleteStored, GiveBack, Finish, Yield, StoredResult
<1>13. QED BY <1>6, <1>7, <1>8, <1>9, <1>10, <1>11, <1>12 DEF Handler

LEMMA NoFault ==
    ASSUME TypeInv, faults' = 0
    PROVE  \A kind : ~Fault(kind)
BY DEF TypeInv, TypeOK, Fault

LEMMA CleanHandler ==
    ASSUME FilingInv, CleanInv, faults' = 0, NEW r \in Tabs,
           Handler(r) \/ CheckAgain(r) \/ \E v \in Visits : Start(r, v)
    PROVE  CleanInv'
<1>0. TypeInv /\ Store /\ Control BY TypeInvParts DEF FilingInv
<1>1. mem[r] \in Memory BY <1>0, LocalsAt
<1>2. \A q \in Tabs \ {r} : pc'[q] = pc[q] /\ mem'[q] = mem[q] BY <1>0, OneMoves
<1> DEFINE Quiet == /\ UNCHANGED <<db, faults>>
                    /\ pc[r] \notin {"ask", "cleanup", "cleanother"}
                    /\ pc'[r] # "attach"
<1>3. Quiet => CleanInv' BY <1>0, <1>2, CleanQuiet
<1>4. CASE CheckAgain(r) \/ \E v \in Visits : Start(r, v)
  <2>1. UNCHANGED <<db, faults>> /\ pc[r] \in {"idle", "done"}
    BY <1>4 DEF CheckAgain, Start, At, env
  <2>2. pc'[r] # "attach"
    BY <1>0, <1>4, NoAttach DEF CheckAgain, Start, TypeInv, TypeOK
  <2>3. QED BY <1>3, <2>1, <2>2
<1>5. CASE \/ Load(r) \/ AssignReportId(r) \/ AssignTooLate(r) \/ Save(r) \/ Restart(r)
  <2>1. UNCHANGED <<db, faults>>
    BY <1>5 DEF Load, AssignReportId, AssignTooLate, Save, Restart, env
  <2>2. pc[r] \notin {"ask", "cleanup", "cleanother"}
    BY <1>5 DEF Load, AssignReportId, AssignTooLate, Save, Restart, At
  <2>3. pc'[r] # "attach"
    BY <1>0, <1>5, NoAttach DEF Load, AssignReportId, AssignTooLate, Save, Restart
  <2>4. QED BY <1>3, <2>1, <2>2, <2>3
<1>6. CASE \/ RecoverCheck(r) \/ RecoverRead(r) \/ RecoverLookup(r) \/ Recover(r)
  <2>1. UNCHANGED <<db, faults>>
    BY <1>6 DEF RecoverCheck, RecoverRead, RecoverLookup, Recover, env
  <2>2. pc[r] \notin {"ask", "cleanup", "cleanother"}
    BY <1>6 DEF RecoverCheck, RecoverRead, RecoverLookup, Recover, At
  <2>3. pc'[r] # "attach"
    BY <1>0, <1>6, NoAttach DEF RecoverCheck, RecoverRead, RecoverLookup, Recover
  <2>4. QED BY <1>3, <2>1, <2>2, <2>3
<1>7. CASE \/ Flight(r) \/ PollFinds(r) \/ PollEnds(r) \/ TakeFinds(r)
           \/ TakeNothing(r) \/ StillProcessing(r)
  <2>1. UNCHANGED <<db, faults>>
    BY <1>7 DEF Flight, PollFinds, PollEnds, TakeFinds, TakeNothing, StillProcessing,
       TakeResult, env
  <2>2. pc[r] \notin {"ask", "cleanup", "cleanother"}
    BY <1>7 DEF Flight, PollFinds, PollEnds, TakeFinds, TakeNothing, StillProcessing, At
  <2>3. pc'[r] # "attach"
    BY <1>0, <1>7, NoAttach
    DEF Flight, PollFinds, PollEnds, TakeFinds, TakeNothing, StillProcessing, TakeResult
  <2>4. QED BY <1>3, <2>1, <2>2, <2>3
<1>8. CASE \/ ClaimRefused(r) \/ Claim(r) \/ ReturnUnnamed(r) \/ Validate(r) \/ Reject(r)
           \/ InsertFails(r) \/ CommitReply(r) \/ CommitUnknown(r)
  <2>1. UNCHANGED <<db, faults>>
    BY <1>8 DEF ClaimRefused, Claim, ReturnUnnamed, Validate, Reject, InsertFails,
       CommitReply, CommitUnknown, env
  <2>2. pc[r] \notin {"ask", "cleanup", "cleanother"}
    BY <1>8 DEF ClaimRefused, Claim, ReturnUnnamed, Validate, Reject, InsertFails,
       CommitReply, CommitUnknown, At
  <2>3. pc'[r] # "attach"
    BY <1>0, <1>8, NoAttach
    DEF ClaimRefused, Claim, ReturnUnnamed, Validate, Reject, InsertFails,
       CommitReply, CommitUnknown
  <2>4. QED BY <1>3, <2>1, <2>2, <2>3
<1>9. CASE GiveBack(r) \/ Finish(r) \/ Yield(r) \/ StoredResult(r)
  <2>1. UNCHANGED <<db, faults>> BY <1>9 DEF GiveBack, Finish, Yield, StoredResult, env
  <2>2. pc[r] \notin {"ask", "cleanup", "cleanother"}
    BY <1>9 DEF GiveBack, Finish, Yield, StoredResult, At
  <2>3. pc'[r] # "attach"
    BY <1>0, <1>9, NoAttach DEF GiveBack, Finish, Yield, StoredResult
  <2>4. QED BY <1>3, <2>1, <2>2, <2>3
<1>10. ASSUME faults = 0, NEW q \in Tabs, q # r,
              sent' \in {sent, sent \cup {r}},
              objects' \in {objects, objects \cup {r}, objects \ {r}},
              \A i \in Ids : q \in {open[i], filed[i]} => q \in {open'[i], filed'[i]},
              \A i \in Ids : open[i] = q => open'[i] = q
       PROVE  CleanAt(q, pc[q], mem[q])'
  BY <1>0, <1>2, <1>10, CleanOthers DEF CleanInv
<1>11. CASE Insert(r)
  <2>1. /\ UNCHANGED <<filed, sent, objects, faults>> /\ pc[r] = "insert"
        /\ open[mem[r].st] = None /\ filed[mem[r].st] = None
        /\ open' = [open EXCEPT ![mem[r].st] = r]
        /\ Goto(r, "attach", mem[r])
    BY <1>11 DEF Insert, At, env, Step
  <2>2. pc'[r] = "attach" /\ mem'[r] = mem[r] BY <1>0, <2>1, MoveFrame
  <2>3. mem[r].st \in Ids BY <1>0, <2>1, LocalsAt DEF Named
  <2>4. open \in [Ids -> Tabs \cup {None}] BY <1>0 DEF Store
  <2>5. Unspent(pc[r], mem[r]) /\ mem[r].visit = "submit"
    BY <2>1 DEF FilingInv, Tab, FilingAt, Unspent
  <2>6. r \notin sent BY <2>5 DEF FilingInv, Tab, FilingAt
  <2>7. CleanAt(r, pc[r], mem[r]) BY <2>1 DEF CleanInv
  <2>8. open'[mem[r].st] = r BY <2>1, <2>3, <2>4
  <2>9. CleanAt(r, pc[r], mem[r])'
    BY <2>1, <2>2, <2>5, <2>6, <2>7, <2>8 DEF CleanAt
  <2>10. ASSUME NEW q \in Tabs, q # r PROVE CleanAt(q, pc[q], mem[q])'
    <3>1. \A i \in Ids : open[i] = q => open'[i] = q
      BY <2>1, <2>3, <2>4, <2>10, ConstantsAssumption
    <3>2. \A i \in Ids : q \in {open[i], filed[i]} => q \in {open'[i], filed'[i]}
      BY <2>1, <3>1
    <3>3. QED BY <1>10, <2>1, <2>10, <3>1, <3>2
  <2>11. QED BY <2>9, <2>10 DEF CleanInv
<1>12. CASE Attach(r) \/ AttachFails(r)
  <2> DEFINE m == [mem[r] EXCEPT !.stored = TRUE]
  <2>1. /\ UNCHANGED <<open, filed, faults>> /\ pc[r] = "attach"
        /\ \/ /\ sent' = sent \cup {r} /\ objects' = objects \cup {r}
              /\ Goto(r, "commit", m)
           \/ sent' = sent /\ objects' = objects /\ Goto(r, "ask", mem[r])
           \/ sent' = sent /\ objects' = objects \cup {r} /\ Goto(r, "ask", m)
    BY <1>0, <1>12, NoFault DEF Attach, AttachFails, At, env, Step
  <2>2. pc'[r] \in {"commit", "ask"} /\ mem'[r] \in {m, mem[r]}
    BY <1>0, <2>1, MoveFrame
  <2>3. CleanAt(r, pc[r], mem[r]) BY <2>1 DEF CleanInv
  <2>4. open[mem[r].st] = r /\ mem[r].st \in Ids
    BY <1>0, <2>1, <2>3, LocalsAt DEF CleanAt, Named
  <2>5. m.stored BY <1>1 DEF Memory
  <2>6. r \notin objects \ sent BY <2>1, <2>3 DEF CleanAt
  <2>7. \E i \in Ids : r \in {open'[i], filed'[i]} BY <2>1, <2>4
  <2>8. sent' = sent /\ r \in objects' \ sent' => pc'[r] = "ask" /\ mem'[r].stored
    <3>1. CASE sent' = sent \cup {r} BY <3>1
    <3>2. CASE sent' = sent /\ objects' = objects BY <2>6, <3>2
    <3> HIDE DEF m
    <3>3. CASE sent' = sent /\ objects' = objects \cup {r} /\ Goto(r, "ask", m)
      <4>1. pc'[r] = "ask" /\ mem'[r] = m BY <1>0, <3>3, MoveFrame
      <4>2. QED BY <2>5, <4>1
    <3>4. QED BY <2>1, <3>1, <3>2, <3>3
  <2>9. CleanAt(r, pc[r], mem[r])'
    BY <2>1, <2>2, <2>7, <2>8 DEF CleanAt
  <2>10. ASSUME NEW q \in Tabs, q # r PROVE CleanAt(q, pc[q], mem[q])'
    BY <1>10, <2>1, <2>10
  <2>11. QED BY <2>9, <2>10 DEF CleanInv
<1>13. CASE Ask(r)
  <2>1. UNCHANGED <<open, filed, sent, objects, faults>> /\ pc[r] = "ask"
    BY <1>13 DEF Ask, At, db, env
  <2>2. mem[r].st \in Ids BY <1>0, <2>1, LocalsAt DEF Named
  <2>3. CleanAt(r, pc[r], mem[r]) BY <2>1 DEF CleanInv
  <2>4. /\ pc'[r] # "attach"
        /\ r \in objects \ sent => pc'[r] \in {"cleanup", "cleanother"} /\ mem'[r].stored
    <3> DEFINE case == filed[mem[r].st]
               m == [mem[r] EXCEPT !.found = case]
    <3>1. m.stored = mem[r].stored BY <1>1 DEF Memory
    <3>2. case = r => r \in sent
      BY <2>2, ConstantsAssumption DEF FilingInv, Kept
    <3>3. CASE case = None /\ r \in sent /\ Reply(r, PageOf("kept"))
      BY <1>0, <3>3, MoveFrame
    <3>4. CASE case = None /\ r \notin sent /\ Goto(r, "cleanup", mem[r])
      BY <1>0, <2>3, <3>4, MoveFrame DEF CleanAt
    <3>5. CASE case = r /\ Goto(r, "finish", mem[r])
      <4>1. pc'[r] = "finish" BY <1>0, <3>5, MoveFrame
      <4>2. QED BY <3>2, <3>5, <4>1
    <3> HIDE DEF m
    <3>6. CASE Goto(r, "cleanother", m)
      <4>1. pc'[r] = "cleanother" /\ mem'[r] = m BY <1>0, <3>6, MoveFrame
      <4>2. r \in objects \ sent => mem[r].stored BY <2>3 DEF CleanAt
      <4>3. QED BY <3>1, <4>1, <4>2
    <3> USE DEF m
    <3>7. QED BY <1>13, <3>3, <3>4, <3>5, <3>6 DEF Ask, Step
  <2>5. CleanAt(r, pc[r], mem[r])' BY <2>1, <2>3, <2>4 DEF CleanAt
  <2>6. ASSUME NEW q \in Tabs, q # r PROVE CleanAt(q, pc[q], mem[q])'
    BY <1>10, <2>1, <2>6
  <2>7. QED BY <2>5, <2>6 DEF CleanInv
<1>14. CASE CleanUp(r) \/ CleanOther(r)
  <2>1. /\ UNCHANGED <<open, filed, sent, faults>> /\ pc[r] \in {"cleanup", "cleanother"}
        /\ objects' = IF mem[r].stored THEN objects \ {r} ELSE objects
        /\ \E l \in {"giveback", "yield"} : \E m : Goto(r, l, m)
    BY <1>14 DEF CleanUp, CleanOther, DeleteStored, At, env
  <2>2. pc'[r] \in {"giveback", "yield"} BY <1>0, <2>1, MoveFrame
  <2>3. CleanAt(r, pc[r], mem[r]) BY <2>1 DEF CleanInv
  <2>4. r \notin objects' \ sent' BY <2>1, <2>3 DEF CleanAt
  <2>5. CleanAt(r, pc[r], mem[r])' BY <2>1, <2>2, <2>3, <2>4 DEF CleanAt
  <2>6. ASSUME NEW q \in Tabs, q # r PROVE CleanAt(q, pc[q], mem[q])'
    BY <1>10, <2>1, <2>6
  <2>7. QED BY <2>5, <2>6 DEF CleanInv
<1>15. QED
  BY <1>4, <1>5, <1>6, <1>7, <1>8, <1>9, <1>11, <1>12, <1>13, <1>14 DEF Handler

LEMMA CleanEnvironment ==
    ASSUME FilingInv, CleanInv, faults' = 0,
           \/ \E r \in Tabs : RollBack(r) \/ CommitLands(r)
           \/ PendingExpires \/ UNCHANGED vars
    PROVE  CleanInv'
<1>0. TypeInv /\ Store BY TypeInvParts DEF FilingInv
<1>1. UNCHANGED <<pc, mem, sent, objects, faults>>
  BY DEF RollBack, CommitLands, PendingExpires, vars, db, env
<1>2. ASSUME NEW q \in Tabs,
             \A i \in Ids : q \in {open[i], filed[i]} => q \in {open'[i], filed'[i]},
             \A i \in Ids : open[i] = q => open'[i] = q
      PROVE  CleanAt(q, pc[q], mem[q])'
  BY <1>0, <1>1, <1>2, CleanOthers DEF CleanInv
<1>3. CASE PendingExpires \/ UNCHANGED vars
  <2>1. UNCHANGED <<open, filed>> BY <1>3 DEF PendingExpires, vars, db
  <2>2. QED BY <1>2, <2>1 DEF CleanInv
<1>4. ASSUME NEW r \in Tabs, RollBack(r) PROVE CleanInv'
  <2>1. PICK i \in Ids : open[i] = r /\ open' = [open EXCEPT ![i] = None]
    BY <1>4 DEF RollBack
  <2>2. UNCHANGED filed /\ r \notin sent /\ mem[r].visit = "get" BY <1>4 DEF RollBack
  <2>3. open \in [Ids -> Tabs \cup {None}] BY <1>0 DEF Store
  <2>4. ASSUME NEW q \in Tabs, q # r PROVE CleanAt(q, pc[q], mem[q])'
    <3>1. \A j \in Ids : open[j] = q => open'[j] = q BY <2>1, <2>3, <2>4
    <3>2. QED BY <1>2, <2>2, <3>1
  <2>5. CleanAt(r, pc[r], mem[r])'
    <3>1. faults = 0 => CleanAt(r, pc[r], mem[r]) BY DEF CleanInv
    <3>2. QED BY <1>1, <2>2, <3>1 DEF CleanAt
  <2>6. QED BY <2>4, <2>5 DEF CleanInv
<1>5. ASSUME NEW r \in Tabs, CommitLands(r) PROVE CleanInv'
  <2>1. PICK i \in Ids : /\ open[i] = r /\ open' = [open EXCEPT ![i] = None]
                         /\ filed' = [filed EXCEPT ![i] = r]
    BY <1>5 DEF CommitLands
  <2>2. r \in sent BY <1>5 DEF CommitLands
  <2>3. /\ open \in [Ids -> Tabs \cup {None}] /\ filed \in [Ids -> Tabs \cup {None}]
        /\ filed[i] = None
    BY <1>0, <2>1, ConstantsAssumption DEF Store, FilingInv, Kept
  <2>4. \A q \in Tabs, j \in Ids : q \in {open[j], filed[j]} => q \in {open'[j], filed'[j]}
    BY <2>1, <2>3, ConstantsAssumption
  <2>5. ASSUME NEW q \in Tabs, q # r PROVE CleanAt(q, pc[q], mem[q])'
    <3>1. \A j \in Ids : open[j] = q => open'[j] = q BY <2>1, <2>3, <2>5
    <3>2. QED BY <1>2, <2>4, <3>1
  <2>6. CleanAt(r, pc[r], mem[r])'
    <3>1. faults = 0 => CleanAt(r, pc[r], mem[r]) BY DEF CleanInv
    <3>2. pc[r] # "attach" BY <2>2 DEF FilingInv, Tab, FilingAt
    <3>3. QED BY <1>1, <2>4, <3>1, <3>2 DEF CleanAt
  <2>7. QED BY <2>5, <2>6 DEF CleanInv
<1>6. QED BY <1>3, <1>4, <1>5

LEMMA CleanStep ==
    ASSUME FilingInv, CleanInv, [Next]_vars
    PROVE  CleanInv'
<1> SUFFICES ASSUME faults' = 0 PROVE CleanInv' BY DEF CleanInv
<1>1. \A kind : ~Fault(kind) BY NoFault DEF FilingInv
<1>2. ASSUME NEW r \in Tabs,
             \/ RecoverLookupFails(r) \/ AskFails(r) \/ FinishFails(r) \/ Crash(r)
             \/ CommitLost(r)
      PROVE  FALSE
  BY <1>1, <1>2 DEF RecoverLookupFails, AskFails, FinishFails, Crash, CommitLost
<1>3. ~ResultExpires /\ ~DraftExpires BY <1>1 DEF ResultExpires, DraftExpires
<1>4. QED BY <1>2, <1>3, CleanHandler, CleanEnvironment DEF Next

\* An attempt that is over without its report has deleted what it stored, as
\* long as nothing failed on its way: for every interleaving of any number of
\* tabs.
THEOREM CleanUpComplete == Spec => []FailedAttemptCleansUp
<1>1. Init => CleanInv
  <2> SUFFICES ASSUME Init, NEW r \in Tabs PROVE CleanAt(r, pc[r], mem[r]) BY DEF CleanInv
  <2>1. QED BY DEF Init, CleanAt
<1>2. FilingInv /\ CleanInv /\ [Next]_vars => CleanInv' BY CleanStep
<1>3. FilingInv /\ CleanInv => FailedAttemptCleansUp
  <2> SUFFICES ASSUME FilingInv, CleanInv, faults = 0, NEW r \in objects, At(r, "done")
               PROVE  \E i \in Ids : r \in {filed[i], open[i]}
    BY DEF FailedAttemptCleansUp
  <2>1. r \in Tabs BY DEF FilingInv, TypeInv, TypeOK
  <2>2. QED BY <2>1 DEF CleanInv, CleanAt, At
<1>4. QED BY <1>1, <1>2, <1>3, FilingCorrect, PTL DEF Spec

----------------------------------------------------------------------------
(* One draft, one report id *)

\* Where a report id of the draft may lie, and where an unnamed draft may.
IdInKeys(i) ==
    \/ draft # None /\ draft.id = i
    \/ claimed # None /\ claimed.id = i
    \/ reportId = i
IdInMem(m, i) == m.st = i \/ (m.raw # None /\ m.raw.id = i)
Known(i) ==
    \/ IdInKeys(i)
    \/ \E t \in Tabs : IdInMem(mem[t], i)
    \/ open[i] # None \/ filed[i] # None

Bare ==
    \/ draft # None /\ draft.id = NoId
    \/ claimed # None /\ claimed.id = NoId
    \/ \E t \in Tabs : pc[t] = "unnamed"

\* What a handler's locals say of the draft it works on.
Working == {"validate", "reject", "insert", "attach", "commit", "ask", "cleanup", "giveback"}
FoundAt == {"rescript", "cleanother", "yield", "stored"}

DraftAt(l, m) ==
    /\ l = "assign" => m.raw.id = NoId
    /\ l \in Working => m.raw.id \in Ids
    /\ l \notin FoundAt => m.found = None
    /\ l = "rescript" /\ m.found # None => m.raw.id \in Ids

\* Where the locals that r goes on with come from.
Derived(r, l, m) ==
    /\ \/ m.st \in {mem[r].st, None}
       \/ draft # None /\ m.st = draft.id
       \/ AssignReportId(r) /\ m.st = reportId'
    /\ \/ m.raw \in {mem[r].raw, None}
       \/ m.raw \in {draft, claimed}
    /\ l = "unnamed" => Claim(r) /\ draft.id = NoId
    /\ l = "restart" => "restart" \in Visits
    /\ DraftAt(l, m)

DraftInv == TypeInv /\ \A r \in Tabs : DraftAt(pc[r], mem[r])

\* m differs from mem[r] in no field but those that a step of r's work is about.
LEMMA MemFields ==
    ASSUME NEW m \in Memory, NEW s, NEW t, NEW k, NEW w, NEW f
    PROVE  /\ LET n == [m EXCEPT !.st = s, !.tries = k]
              IN n.st = s /\ n.raw = m.raw /\ n.found = m.found
           /\ LET n == [m EXCEPT !.raw = t, !.st = s, !.tries = k]
              IN n.st = s /\ n.raw = t /\ n.found = m.found
           /\ LET n == [m EXCEPT !.raw = t, !.tries = k]
              IN n.st = m.st /\ n.raw = t /\ n.found = m.found
           /\ LET n == [m EXCEPT !.raw = t, !.st = s]
              IN n.st = s /\ n.raw = t /\ n.found = m.found
           /\ LET n == [m EXCEPT !.raw = t]
              IN n.st = m.st /\ n.raw = t /\ n.found = m.found
           /\ LET n == [m EXCEPT !.phase = w]
              IN n.st = m.st /\ n.raw = m.raw /\ n.found = m.found
           /\ LET n == [m EXCEPT !.raw = t, !.found = f]
              IN n.st = m.st /\ n.raw = t /\ n.found = f
           /\ LET n == [m EXCEPT !.raw = t, !.found = f, !.phase = w]
              IN n.st = m.st /\ n.raw = t /\ n.found = f
           /\ LET n == [m EXCEPT !.found = f]
              IN n.st = m.st /\ n.raw = m.raw /\ n.found = f
           /\ LET n == [m EXCEPT !.stored = w]
              IN n.st = m.st /\ n.raw = m.raw /\ n.found = m.found
BY DEF Memory

\* Where st and raw of new locals m come from.
Origins(r, m) ==
    /\ \/ m.st \in {mem[r].st, None}
       \/ draft # None /\ m.st = draft.id
       \/ AssignReportId(r) /\ m.st = reportId'
    /\ \/ m.raw \in {mem[r].raw, None}
       \/ m.raw \in {draft, claimed}

\* Labels that ask nothing of the locals but that no report has been seen.
Plain == Labels \ (Working \cup FoundAt \cup {"assign", "unnamed", "restart"})

LEMMA PlainDerived ==
    ASSUME DraftInv, NEW r \in Tabs, NEW m, Origins(r, m), m.found = None,
           NEW l \in Plain, Goto(r, l, m)
    PROVE  Derived(r, pc'[r], mem'[r])
<1>1. pc'[r] = l /\ mem'[r] = m BY MoveFrame DEF DraftInv
<1>2. DraftAt(l, m) BY DEF DraftAt, Plain, FoundAt
<1>3. QED BY <1>1, <1>2 DEF Derived, Origins, Plain

LEMMA ReplyDerived ==
    ASSUME DraftInv, NEW r \in Tabs, NEW p, Reply(r, p)
    PROVE  Derived(r, pc'[r], mem'[r])
<1>1. pc'[r] = "done" /\ mem'[r] = MemoryOf("get") BY MoveFrame DEF DraftInv
<1>2. QED BY <1>1 DEF Derived, DraftAt, MemoryOf, Working, FoundAt

LEMMA LoadDerived ==
    ASSUME DraftInv, NEW r \in Tabs, NEW m \in Memory, Origins(r, m), m.found = None,
           Loaded(r, m) \/ NotLoaded(r, m)
    PROVE  Derived(r, pc'[r], mem'[r])
<1> DEFINE n == [m EXCEPT !.phase = "second"]
<1>1. n.st = m.st /\ n.raw = m.raw /\ n.found = m.found BY MemFields
<1>2. Origins(r, n) BY <1>1 DEF Origins
<1> HIDE DEF n
<1>3. /\ "save" \in Plain /\ "load" \in Plain /\ "claim" \in Plain /\ "kept" \in Plain
      /\ "flight" \in Plain /\ "recover" \in Plain
  BY DEF Plain, Labels, Working, FoundAt
<1>4. ASSUME NEW l \in Plain, Goto(r, l, m) \/ Goto(r, l, n)
      PROVE  Derived(r, pc'[r], mem'[r])
  BY <1>1, <1>2, <1>4, PlainDerived
<1>5. \/ \E l \in Plain : Goto(r, l, m) \/ Goto(r, l, n)
      \/ \E p : Reply(r, p)
  <2>1. CASE Loaded(r, m) BY <1>3, <2>1 DEF Loaded, n
  <2>2. CASE NotLoaded(r, m) BY <1>3, <2>2 DEF NotLoaded
  <2>3. QED BY <2>1, <2>2
<1>6. QED BY <1>4, <1>5, ReplyDerived

LEMMA OnDerived ==
    ASSUME DraftInv, NEW r \in Tabs, pc[r] \notin FoundAt,
           \/ \E l \in Plain : Step(r, l)
           \/ Recovered(r) \/ Outcome(r) \/ Goto(r, "load", In(r, "second"))
    PROVE  Derived(r, pc'[r], mem'[r])
<1>1. mem[r] \in Memory /\ mem[r].found = None
  BY DEF DraftInv, DraftAt, TypeInv, TypeOK
<1>2. "take" \in Plain /\ "load" \in Plain /\ "poll" \in Plain
  BY DEF Plain, Labels, Working, FoundAt
<1>3. CASE \E l \in Plain : Step(r, l)
  <2>1. Origins(r, mem[r]) BY DEF Origins
  <2>2. QED BY <1>1, <1>3, <2>1, PlainDerived DEF Step
<1>4. CASE Recovered(r)
  <2> DEFINE m == [mem[r] EXCEPT !.raw = None, !.found = None]
             n == [mem[r] EXCEPT !.raw = None, !.found = None, !.phase = "second"]
  <2>1. m.st = mem[r].st /\ m.raw = None /\ m.found = None BY <1>1, MemFields
  <2>2. n.st = mem[r].st /\ n.raw = None /\ n.found = None BY <1>1, MemFields
  <2>3. Goto(r, "take", m) \/ Goto(r, "load", n) BY <1>4 DEF Recovered
  <2> HIDE DEF m, n
  <2>4. Origins(r, m) /\ Origins(r, n) BY <2>1, <2>2 DEF Origins
  <2>5. QED BY <1>2, <2>1, <2>2, <2>3, <2>4, PlainDerived
<1>5. ASSUME NEW w, NEW l \in Plain, Goto(r, l, In(r, w))
      PROVE  Derived(r, pc'[r], mem'[r])
  <2>1. In(r, w).st = mem[r].st /\ In(r, w).raw = mem[r].raw /\ In(r, w).found = None
    BY <1>1, MemFields DEF In
  <2>2. Origins(r, In(r, w)) BY <2>1 DEF Origins
  <2>3. QED BY <1>5, <2>1, <2>2, PlainDerived
<1>6. QED BY <1>2, <1>3, <1>4, <1>5 DEF Outcome

\* The steps of r up to the claim.
LEMMA EarlyDerived ==
    ASSUME DraftInv, NEW r \in Tabs,
           \/ Load(r) \/ AssignReportId(r) \/ AssignTooLate(r) \/ Save(r) \/ Restart(r)
           \/ CheckAgain(r) \/ \E v \in Visits : Start(r, v)
    PROVE  Derived(r, pc'[r], mem'[r])
<1>1. pc[r] \notin FoundAt
  BY DEF Load, AssignReportId, AssignTooLate, Save, Restart, CheckAgain, Start, At, FoundAt
<1>2. /\ mem[r] \in Memory /\ mem[r].found = None
      /\ pc \in [Tabs -> Labels] /\ mem \in [Tabs -> Memory]
  BY <1>1 DEF DraftInv, DraftAt, TypeInv, TypeOK
<1>3. Store /\ Control BY TypeInvParts DEF DraftInv
<1>4. ASSUME NEW i \in Ids \cup {None},
             i = None \/ (draft # None /\ i = draft.id) \/ (AssignReportId(r) /\ i = reportId')
      PROVE  /\ \A m : m = [mem[r] EXCEPT !.st = i, !.tries = 0] =>
                    m \in Memory /\ Origins(r, m) /\ m.found = None
             /\ \A m : m = [mem[r] EXCEPT !.raw = None, !.st = i, !.tries = 0] =>
                    m \in Memory /\ Origins(r, m) /\ m.found = None
  <2> DEFINE m == [mem[r] EXCEPT !.st = i, !.tries = 0]
             n == [mem[r] EXCEPT !.raw = None, !.st = i, !.tries = 0]
  <2>1. m.st = i /\ m.raw = mem[r].raw /\ m.found = mem[r].found BY <1>2, MemFields
  <2>2. n.st = i /\ n.raw = None /\ n.found = mem[r].found BY <1>2, MemFields
  <2>3. m \in Memory /\ n \in Memory BY <1>2, LoadMemory
  <2> HIDE DEF m, n
  <2>4. Origins(r, m) /\ Origins(r, n) BY <1>4, <2>1, <2>2 DEF Origins
  <2>5. QED BY <1>2, <2>1, <2>2, <2>3, <2>4 DEF m, n
<1>6. CASE Load(r)
  <2>1. CASE draft = None
    <3> DEFINE m == [mem[r] EXCEPT !.st = None, !.tries = 0]
    <3>1. NotLoaded(r, m) BY <1>6, <2>1 DEF Load
    <3>2. m \in Memory /\ Origins(r, m) /\ m.found = None BY <1>4
    <3> HIDE DEF m
    <3>3. QED BY <3>1, <3>2, LoadDerived
  <2>2. CASE draft # None /\ draft.id # NoId
    <3> DEFINE m == [mem[r] EXCEPT !.st = draft.id, !.tries = 0]
    <3>1. Loaded(r, m) BY <1>6, <2>2 DEF Load
    <3>2. draft.id \in Ids BY <1>3, <2>2 DEF Store, Token
    <3>3. m \in Memory /\ Origins(r, m) /\ m.found = None BY <1>4, <2>2, <3>2
    <3> HIDE DEF m
    <3>4. QED BY <3>1, <3>3, LoadDerived
  <2>3. CASE draft # None /\ draft.id = NoId
    <3> DEFINE m == [mem[r] EXCEPT !.raw = draft, !.tries = @ + 1]
    <3>1. Goto(r, "assign", m) BY <1>6, <2>3 DEF Load
    <3>2. m.st = mem[r].st /\ m.raw = draft /\ m.found = mem[r].found
      BY <1>2 DEF Memory
    <3> HIDE DEF m
    <3>3. pc'[r] = "assign" /\ mem'[r] = m BY <3>1, MoveFrame DEF DraftInv
    <3>4. DraftAt("assign", m)
      BY <1>2, <2>3, <3>2 DEF DraftAt, Working, FoundAt
    <3>5. QED BY <3>2, <3>3, <3>4 DEF Derived
  <2>4. QED BY <2>1, <2>2, <2>3
<1>7. CASE AssignReportId(r)
  <2>1. PICK i \in Ids :
          reportId' = i /\ Loaded(r, [mem[r] EXCEPT !.raw = None, !.st = i, !.tries = 0])
    BY <1>7 DEF AssignReportId
  <2> DEFINE m == [mem[r] EXCEPT !.raw = None, !.st = i, !.tries = 0]
  <2>2. m \in Memory /\ Origins(r, m) /\ m.found = None BY <1>4, <1>7, <2>1
  <2>3. Loaded(r, m) BY <2>1
  <2> HIDE DEF m
  <2>4. QED BY <2>2, <2>3, LoadDerived
<1>8. CASE AssignTooLate(r)
  <2>1. CASE mem[r].tries < 3
    <3> DEFINE m == [mem[r] EXCEPT !.raw = None]
    <3>1. Goto(r, "load", m) BY <1>8, <2>1 DEF AssignTooLate
    <3>2. m.st = mem[r].st /\ m.raw = None /\ m.found = mem[r].found BY <1>2, MemFields
    <3> HIDE DEF m
    <3>3. Origins(r, m) BY <3>2 DEF Origins
    <3>4. "load" \in Plain BY DEF Plain, Labels, Working, FoundAt
    <3>5. QED BY <1>2, <3>1, <3>2, <3>3, <3>4, PlainDerived
  <2>2. CASE ~(mem[r].tries < 3)
    <3> DEFINE m == [mem[r] EXCEPT !.raw = None, !.st = None, !.tries = 0]
    <3>1. NotLoaded(r, m) BY <1>8, <2>2 DEF AssignTooLate
    <3>2. m \in Memory /\ Origins(r, m) /\ m.found = None BY <1>4
    <3> HIDE DEF m
    <3>3. QED BY <3>1, <3>2, LoadDerived
  <2>3. QED BY <2>1, <2>2
<1>9. CASE Save(r) \/ Restart(r) BY <1>9, ReplyDerived DEF Save, Restart
<1>10. CASE CheckAgain(r)
  <2>1. pc'[r] = "load" /\ mem'[r] = mem[r] BY <1>2, <1>10 DEF CheckAgain
  <2>2. QED BY <1>2, <2>1 DEF Derived, DraftAt, Working, FoundAt
<1>11. ASSUME NEW v \in Visits, Start(r, v) PROVE Derived(r, pc'[r], mem'[r])
  <2>1. /\ pc'[r] = (IF v = "restart" THEN "restart" ELSE "load")
        /\ mem'[r] = MemoryOf(v)
    BY <1>2, <1>11 DEF Start, Goto
  <2>2. QED BY <1>11, <2>1 DEF Derived, DraftAt, MemoryOf, Working, FoundAt
<1>12. QED BY <1>6, <1>7, <1>8, <1>9, <1>10, <1>11

\* The steps that look for a submit in flight and recover its draft.
LEMMA MiddleDerived ==
    ASSUME DraftInv, NEW r \in Tabs,
           \/ RecoverCheck(r) \/ RecoverRead(r) \/ RecoverLookup(r) \/ Recover(r)
           \/ Flight(r) \/ PollFinds(r) \/ PollEnds(r) \/ TakeFinds(r)
           \/ TakeNothing(r) \/ StillProcessing(r) \/ ClaimRefused(r)
    PROVE  Derived(r, pc'[r], mem'[r])
<1>1. /\ mem[r] \in Memory /\ DraftAt(pc[r], mem[r])
      /\ pc \in [Tabs -> Labels] /\ mem \in [Tabs -> Memory]
  BY DEF DraftInv, TypeInv, TypeOK
<1>2. Store /\ Control BY TypeInvParts DEF DraftInv
<1>3. /\ "claimed" \in Plain /\ "recover" \in Plain /\ "load" \in Plain
      /\ "lookup" \in Plain
  BY DEF Plain, Labels, Working, FoundAt
<1>4. CASE \/ RecoverCheck(r) \/ Flight(r) \/ PollEnds(r) \/ TakeNothing(r)
           \/ ClaimRefused(r)
  <2>1. pc[r] \notin FoundAt
    BY <1>4 DEF RecoverCheck, Flight, PollEnds, TakeNothing, ClaimRefused, At, FoundAt
  <2>2. \/ \E l \in Plain : Step(r, l)
        \/ Recovered(r) \/ Outcome(r) \/ Goto(r, "load", In(r, "second"))
        \/ \E p : Reply(r, p)
    BY <1>3, <1>4 DEF RecoverCheck, Flight, PollEnds, TakeNothing, ClaimRefused
  <2>3. QED BY <2>1, <2>2, OnDerived, ReplyDerived
<1>5. CASE PollFinds(r) \/ TakeFinds(r) \/ StillProcessing(r)
  BY <1>5, ReplyDerived DEF PollFinds, TakeFinds, TakeResult, StillProcessing
<1>6. CASE RecoverRead(r)
  <2>1. pc[r] = "claimed" BY <1>6 DEF RecoverRead, At
  <2>2. CASE claimed = None
    BY <1>6, <2>1, <2>2, OnDerived DEF RecoverRead, FoundAt
  <2>3. CASE claimed # None
    <3> DEFINE m == [mem[r] EXCEPT !.raw = claimed]
    <3>1. m.st = mem[r].st /\ m.raw = claimed /\ m.found = mem[r].found
      BY <1>1, MemFields
    <3>2. mem[r].found = None BY <1>1, <2>1 DEF DraftAt, FoundAt
    <3> HIDE DEF m
    <3>3. Goto(r, IF claimed.id = NoId THEN "rescript" ELSE "lookup", m)
      BY <1>6, <2>3 DEF RecoverRead, m
    <3>4. pc'[r] \in {"rescript", "lookup"} /\ mem'[r] = m
      BY <3>3, MoveFrame DEF DraftInv
    <3>5. DraftAt(pc'[r], m)
      BY <3>1, <3>2, <3>4 DEF DraftAt, Working, FoundAt
    <3>6. QED BY <3>1, <3>4, <3>5 DEF Derived
  <2>4. QED BY <2>2, <2>3
<1>7. CASE RecoverLookup(r)
  <2> DEFINE m == [mem[r] EXCEPT !.found = filed[mem[r].raw.id]]
  <2>1. pc[r] = "lookup" /\ Goto(r, "rescript", m) BY <1>7 DEF RecoverLookup, At
  <2>2. m.st = mem[r].st /\ m.raw = mem[r].raw BY <1>1, MemFields
  <2>3. mem[r].raw.id \in Ids BY <1>2, <2>1, LocalsAt
  <2> HIDE DEF m
  <2>4. pc'[r] = "rescript" /\ mem'[r] = m BY <2>1, MoveFrame DEF DraftInv
  <2>5. DraftAt("rescript", m) BY <2>2, <2>3 DEF DraftAt, Working, FoundAt
  <2>6. QED BY <2>2, <2>4, <2>5 DEF Derived
<1>8. CASE Recover(r)
  <2> DEFINE m == [mem[r] EXCEPT !.raw = None, !.found = None]
             n == [mem[r] EXCEPT !.raw = None, !.found = None, !.phase = "second"]
  <2>1. m.st = mem[r].st /\ m.raw = None /\ m.found = None BY <1>1, MemFields
  <2>2. n.st = mem[r].st /\ n.raw = None /\ n.found = None BY <1>1, MemFields
  <2>3. Goto(r, "take", m) \/ Goto(r, "load", n) BY <1>8 DEF Recover, Recovered
  <2> HIDE DEF m, n
  <2>4. Origins(r, m) /\ Origins(r, n) BY <2>1, <2>2 DEF Origins
  <2>5. "take" \in Plain BY DEF Plain, Labels, Working, FoundAt
  <2>6. QED BY <1>3, <2>1, <2>2, <2>3, <2>4, <2>5, PlainDerived
<1>9. QED BY <1>4, <1>5, <1>6, <1>7, <1>8

\* Going on with the same locals among the steps that hold a claim.
LEMMA WorkDerived ==
    ASSUME DraftInv, NEW r \in Tabs, NEW l \in Working \cup {"finish"},
           pc[r] \in Working, Step(r, l)
    PROVE  Derived(r, pc'[r], mem'[r])
<1>1. pc'[r] = l /\ mem'[r] = mem[r] BY MoveFrame DEF Step, DraftInv
<1>2. DraftAt(pc[r], mem[r]) BY DEF DraftInv
<1>3. DraftAt(l, mem[r]) BY <1>2 DEF DraftAt, Working, FoundAt
<1>4. QED BY <1>1, <1>3 DEF Derived, Working

\* The steps from the claim on.
LEMMA LateDerived ==
    ASSUME DraftInv, NEW r \in Tabs,
           \/ Claim(r) \/ ReturnUnnamed(r) \/ Validate(r) \/ Reject(r)
           \/ Insert(r) \/ InsertFails(r) \/ Attach(r) \/ AttachFails(r)
           \/ CommitReply(r) \/ CommitUnknown(r)
           \/ Ask(r) \/ CleanUp(r) \/ CleanOther(r) \/ GiveBack(r)
           \/ Finish(r) \/ Yield(r) \/ StoredResult(r)
    PROVE  Derived(r, pc'[r], mem'[r])
<1>1. /\ mem[r] \in Memory /\ DraftAt(pc[r], mem[r])
      /\ pc \in [Tabs -> Labels] /\ mem \in [Tabs -> Memory]
  BY DEF DraftInv, TypeInv, TypeOK
<1>2. Store /\ Control BY TypeInvParts DEF DraftInv
<1>3. CASE \/ ReturnUnnamed(r) \/ Finish(r) \/ StoredResult(r)
  BY <1>3, ReplyDerived DEF ReturnUnnamed, Finish, StoredResult
<1>4. CASE Claim(r)
  <2>0. pc[r] = "claim" /\ mem[r].found = None
    BY <1>1, <1>4 DEF Claim, At, DraftAt, FoundAt
  <2>1. CASE draft.id = NoId
    <3> DEFINE m == [mem[r] EXCEPT !.raw = draft, !.st = None]
    <3>1. m.st = None /\ m.raw = draft /\ m.found = mem[r].found BY <1>1, MemFields
    <3>2. Goto(r, "unnamed", m) BY <1>4, <2>1 DEF Claim
    <3> HIDE DEF m
    <3>3. pc'[r] = "unnamed" /\ mem'[r] = m BY <3>2, MoveFrame DEF DraftInv
    <3>4. DraftAt("unnamed", m) BY <2>0, <3>1 DEF DraftAt, Working, FoundAt
    <3>5. QED BY <1>4, <2>1, <3>1, <3>3, <3>4 DEF Derived
  <2>2. CASE draft.id # NoId
    <3> DEFINE m == [mem[r] EXCEPT !.raw = draft, !.st = draft.id]
    <3>1. m.st = draft.id /\ m.raw = draft /\ m.found = mem[r].found BY <1>1, MemFields
    <3>2. Goto(r, "validate", m) /\ draft # None BY <1>4, <2>2 DEF Claim
    <3>3. draft.id \in Ids BY <1>2, <2>2, <3>2 DEF Store, Token
    <3> HIDE DEF m
    <3>4. pc'[r] = "validate" /\ mem'[r] = m BY <3>2, MoveFrame DEF DraftInv
    <3>5. DraftAt("validate", m) BY <2>0, <3>1, <3>3 DEF DraftAt, Working, FoundAt
    <3>6. QED BY <3>1, <3>2, <3>4, <3>5 DEF Derived
  <2>3. QED BY <2>1, <2>2
<1>5. CASE \/ Validate(r) \/ Insert(r) \/ InsertFails(r) \/ CommitReply(r)
           \/ CommitUnknown(r)
  <2>1. pc[r] \in Working
    BY <1>5 DEF Validate, Insert, InsertFails, CommitReply, CommitUnknown, At, Working
  <2>2. \E l \in Working \cup {"finish"} : Step(r, l)
    BY <1>5 DEF Validate, Insert, InsertFails, CommitReply, CommitUnknown, Working
  <2>3. QED BY <2>1, <2>2, WorkDerived
<1>6. CASE Reject(r) \/ GiveBack(r)
  <2>1. pc[r] \in Working /\ pc[r] \notin FoundAt
    BY <1>6 DEF Reject, GiveBack, At, Working, FoundAt
  <2>2. "save" \in Plain /\ "ask" \in Working BY DEF Plain, Labels, Working, FoundAt
  <2>3. QED BY <1>6, <2>1, <2>2, WorkDerived, OnDerived DEF Reject, GiveBack
<1>7. ASSUME NEW w, NEW l \in Labels, l \in {"commit", "ask", "giveback"},
             pc[r] \in {"attach", "cleanup"}, Goto(r, l, [mem[r] EXCEPT !.stored = w])
      PROVE  Derived(r, pc'[r], mem'[r])
  <2> DEFINE m == [mem[r] EXCEPT !.stored = w]
  <2>1. m.st = mem[r].st /\ m.raw = mem[r].raw /\ m.found = mem[r].found
    BY <1>1, MemFields
  <2> HIDE DEF m
  <2>2. pc'[r] = l /\ mem'[r] = m BY <1>7, MoveFrame DEF DraftInv, m
  <2>3. DraftAt(l, m) BY <1>1, <1>7, <2>1 DEF DraftAt, Working, FoundAt
  <2>4. QED BY <1>7, <2>1, <2>2, <2>3 DEF Derived
<1>8. CASE Attach(r) \/ AttachFails(r)
  <2>1. pc[r] = "attach" BY <1>8 DEF Attach, AttachFails, At
  <2>2. "commit" \in Labels /\ "ask" \in Labels BY DEF Labels
  <2>3. \/ Step(r, "ask")
        \/ \E l \in {"commit", "ask"} : Goto(r, l, [mem[r] EXCEPT !.stored = TRUE])
    BY <1>8 DEF Attach, AttachFails
  <2>4. QED BY <1>7, <2>1, <2>2, <2>3, WorkDerived DEF Working
<1>9. CASE Ask(r)
  <2> DEFINE m == [mem[r] EXCEPT !.found = filed[mem[r].st]]
  <2>1. pc[r] = "ask" BY <1>9 DEF Ask, At
  <2>2. m.st = mem[r].st /\ m.raw = mem[r].raw BY <1>1, MemFields
  <2>3. \/ \E p : Reply(r, p)
        \/ \E l \in {"cleanup", "finish"} : Step(r, l)
        \/ Goto(r, "cleanother", m)
    BY <1>9 DEF Ask
  <2> HIDE DEF m
  <2>4. CASE Goto(r, "cleanother", m)
    <3>1. pc'[r] = "cleanother" /\ mem'[r] = m BY <2>4, MoveFrame DEF DraftInv
    <3>2. DraftAt("cleanother", m) BY DEF DraftAt, Working, FoundAt
    <3>3. QED BY <2>2, <3>1, <3>2 DEF Derived
  <2>5. QED BY <2>1, <2>3, <2>4, WorkDerived, ReplyDerived DEF Working
<1>10. CASE CleanUp(r)
  <2>1. pc[r] = "cleanup" /\ Goto(r, "giveback", [mem[r] EXCEPT !.stored = FALSE])
    BY <1>10 DEF CleanUp, DeleteStored, At
  <2>2. "giveback" \in Labels BY DEF Labels
  <2>3. QED BY <1>7, <2>1, <2>2
<1>11. CASE CleanOther(r) \/ Yield(r)
  <2> DEFINE m == [mem[r] EXCEPT !.stored = FALSE]
  <2>1. m.st = mem[r].st /\ m.raw = mem[r].raw BY <1>1, MemFields
  <2>2. Goto(r, "yield", m) \/ Goto(r, "stored", mem[r])
    BY <1>11 DEF CleanOther, Yield, DeleteStored, Step
  <2> HIDE DEF m
  <2>3. pc'[r] \in {"yield", "stored"} /\ mem'[r] \in {m, mem[r]}
    BY <2>2, MoveFrame DEF DraftInv
  <2>4. DraftAt(pc'[r], mem'[r]) BY <2>3 DEF DraftAt, Working, FoundAt
  <2>5. QED BY <2>1, <2>3, <2>4 DEF Derived
<1>12. QED BY <1>3, <1>4, <1>5, <1>6, <1>8, <1>9, <1>10, <1>11

\* Every step leaves a tab alone or moves it to locals that are so derived.
LEMMA DerivedStep ==
    ASSUME DraftInv, [Next]_vars
    PROVE  \A r \in Tabs :
              (pc'[r] = pc[r] /\ mem'[r] = mem[r]) \/ Derived(r, pc'[r], mem'[r])
<1> DEFINE Goal(q) == (pc'[q] = pc[q] /\ mem'[q] = mem[q]) \/ Derived(q, pc'[q], mem'[q])
<1>1. CASE UNCHANGED <<pc, mem>> BY <1>1
<1>2. ASSUME NEW r \in Tabs,
             Handler(r) \/ CheckAgain(r) \/ \E v \in Visits : Start(r, v)
      PROVE  \A q \in Tabs : Goal(q)
  <2>1. Derived(r, pc'[r], mem'[r])
    <3>1. CASE CheckAgain(r) \/ \E v \in Visits : Start(r, v) BY <3>1, EarlyDerived
    <3>2. CASE Handler(r)
      BY <3>2, EarlyDerived, MiddleDerived, LateDerived DEF Handler
    <3>3. QED BY <1>2, <3>1, <3>2
  <2>2. \A q \in Tabs \ {r} : pc'[q] = pc[q] /\ mem'[q] = mem[q]
    BY <1>2, OneMoves DEF DraftInv
  <2>3. QED BY <2>1, <2>2
<1>3. ASSUME NEW r \in Tabs,
             RecoverLookupFails(r) \/ AskFails(r) \/ FinishFails(r) \/ Crash(r)
      PROVE  \A q \in Tabs : Goal(q)
  <2>1. PICK p : Reply(r, p)
    BY <1>3 DEF RecoverLookupFails, AskFails, FinishFails, Crash
  <2>2. Derived(r, pc'[r], mem'[r]) BY <2>1, ReplyDerived
  <2>3. \A q \in Tabs \ {r} : pc'[q] = pc[q] /\ mem'[q] = mem[q]
    BY <2>1, MoveFrame DEF DraftInv
  <2>4. QED BY <2>2, <2>3
<1>4. ASSUME NEW r \in Tabs, RollBack(r) \/ CommitLands(r) \/ CommitLost(r)
      PROVE  UNCHANGED <<pc, mem>>
  BY <1>4 DEF RollBack, CommitLands, CommitLost
<1>5. PendingExpires \/ ResultExpires \/ DraftExpires \/ UNCHANGED vars
          => UNCHANGED <<pc, mem>>
  BY DEF PendingExpires, ResultExpires, DraftExpires, vars
<1>6. QED BY <1>1, <1>2, <1>3, <1>4, <1>5 DEF Next

LEMMA DraftInvInductive ==
    /\ Init => DraftInv
    /\ DraftInv /\ [Next]_vars => DraftInv'
<1>1. Init => DraftInv
  <2> SUFFICES ASSUME Init, NEW r \in Tabs PROVE DraftAt(pc[r], mem[r])
    BY InitTypeInv DEF DraftInv
  <2>1. QED BY DEF Init, DraftAt, MemoryOf, Working, FoundAt
<1>2. ASSUME DraftInv, [Next]_vars PROVE DraftInv'
  <2>1. TypeInv' BY <1>2, NextTypeInv DEF DraftInv
  <2>2. ASSUME NEW r \in Tabs PROVE DraftAt(pc'[r], mem'[r])
    BY <1>2, DerivedStep DEF Derived, DraftInv
  <2>3. QED BY <2>1, <2>2 DEF DraftInv, DraftAt
<1>3. QED BY <1>1, <1>2

\* No submit outlasts its "pending" key, and nobody throws the draft away.
Calm == ~SlowSubmits /\ "restart" \notin Visits /\ "expiry" \notin Faults

\* Then a claim is pending as long as its submit has not let go of it.
HolderInv ==
    /\ \A r \in Tabs : pc[r] # "restart"
    /\ pending # None => claimed # None
    /\ \A r \in Tabs : pc[r] = "unnamed" => pending = r

LEMMA HolderStep ==
    ASSUME DraftInv, HolderInv, Calm, [Next]_vars
    PROVE  HolderInv'
<1>0. TypeInv /\ Store /\ DraftInv' BY TypeInvParts, DraftInvInductive DEF DraftInv
<1>1. \A r \in Tabs : pc'[r] # "restart"
  BY DerivedStep DEF Derived, Calm, HolderInv
<1>2. \A r \in Tabs : pc'[r] = "unnamed" => pc[r] = "unnamed" \/ Claim(r)
  BY DerivedStep DEF Derived
<1>3. \A r \in Tabs : Claim(r) => pending' = r /\ claimed' = draft /\ draft # None
  BY DEF Claim
<1> DEFINE Goal == /\ pending' # None => claimed' # None
                   /\ \A r \in Tabs : pc'[r] = "unnamed" => pending' = r
<1>4. ASSUME UNCHANGED <<claimed, pending>> PROVE Goal
  BY <1>2, <1>3, <1>4 DEF HolderInv
<1>5. ASSUME NEW r \in Tabs, Saves(r) \/ Assigns(r) \/ Recovers(r)
      PROVE  Goal
  <2>1. CASE Saves(r) \/ Assigns(r) BY <1>4, <1>5, <2>1 DEF Saves, Assigns
  <2>2. CASE Recovers(r)
    <3>1. pending = None /\ pending' = None BY <2>2 DEF Recovers
    <3>2. QED BY <1>2, <1>3, <3>1, ConstantsAssumption DEF HolderInv
  <2>3. QED BY <1>5, <2>1, <2>2
<1>6. ASSUME NEW r \in Tabs, Claims(r) PROVE Goal
  <2>1. pending = None /\ pending' = r /\ claimed' # None
    BY <1>6 DEF Claims, HolderInv
  <2>2. QED BY <1>2, <1>3, <2>1, ConstantsAssumption DEF HolderInv
<1>7. ASSUME NEW r \in Tabs, GivesBack(r) \/ Spends(r) PROVE Goal
  <2>1. /\ pending' = None /\ pending \in {None, r}
        /\ pc'[r] # "unnamed"
    BY <1>7 DEF GivesBack, Spends
  <2>2. QED BY <1>2, <1>3, <2>1, ConstantsAssumption DEF HolderInv
<1>8. ASSUME NEW r \in Tabs, Restart(r) PROVE Goal
  BY <1>8 DEF Restart, At, HolderInv
<1>9. ASSUME PendingExpires PROVE Goal
  <2>1. pc[pending] \notin Holding /\ pending' = None /\ UNCHANGED pc
    BY <1>9 DEF PendingExpires, Calm
  <2>2. QED BY <2>1 DEF HolderInv, Holding
<1>10. ~DraftExpires BY DEF DraftExpires, Fault, Calm
<1>11. Goal
  BY <1>0, <1>4, <1>5, <1>6, <1>7, <1>8, <1>9, <1>10, KeysStep DEF keys
<1>12. QED BY <1>1, <1>11 DEF HolderInv

\* A step names no id and no unnamed draft that was not in play before, but for
\* the id it assigns.
LEMMA KeysKnown ==
    ASSUME DraftInv, [Next]_vars, NEW i \in Ids, IdInKeys(i)'
    PROVE  Known(i) \/ \E r \in Tabs : AssignReportId(r) /\ reportId' = i
<1>0. TypeInv /\ Store /\ Control BY TypeInvParts DEF DraftInv
<1>1. CASE UNCHANGED keys BY <1>1 DEF keys, IdInKeys, Known
<1>2. ASSUME NEW r \in Tabs, Saves(r) PROVE Known(i)
  BY <1>2 DEF Saves, IdInKeys, Known, IdInMem
<1>3. ASSUME NEW r \in Tabs, Assigns(r)
      PROVE  Known(i) \/ (AssignReportId(r) /\ reportId' = i)
  BY <1>3 DEF Assigns, IdInKeys, Known
<1>4. ASSUME NEW r \in Tabs, Recovers(r) \/ Claims(r) PROVE Known(i)
  BY <1>4, ConstantsAssumption DEF Recovers, Claims, IdInKeys, Known
<1>5. ASSUME NEW r \in Tabs, GivesBack(r) PROVE Known(i)
  <2>1. mem[r].raw \in Token BY <1>0, <1>5, LocalsAt DEF GivesBack, HasRaw
  <2>2. mem[r].raw # None BY <2>1, AbsentAssumption
  <2>3. QED BY <1>5, <2>2 DEF GivesBack, IdInKeys, Known, IdInMem
<1>6. ASSUME NEW r \in Tabs, Spends(r) \/ Restart(r) PROVE Known(i)
  BY <1>6, ConstantsAssumption DEF Spends, Restart, IdInKeys, Known
<1>7. CASE PendingExpires \/ DraftExpires
  BY <1>7 DEF PendingExpires, DraftExpires, IdInKeys, Known
<1>8. QED BY <1>0, <1>1, <1>2, <1>3, <1>4, <1>5, <1>6, <1>7, KeysStep DEF keys

\* A handler that inserts names its own draft's id.
LEMMA DbStep ==
    ASSUME TypeInv, [Next]_vars, NEW i \in Ids, open'[i] # None \/ filed'[i] # None
    PROVE  \/ open[i] # None \/ filed[i] # None
           \/ \E r \in Tabs : mem[r].st = i
<1>0. /\ open \in [Ids -> Tabs \cup {None}] /\ filed \in [Ids -> Tabs \cup {None}]
  BY DEF TypeInv, TypeOK
<1>1. CASE UNCHANGED <<open, filed>> BY <1>1
<1>2. ASSUME NEW r \in Tabs, RollBack(r) \/ CommitLands(r) \/ CommitLost(r)
      PROVE  open[i] # None \/ filed[i] # None
  BY <1>0, <1>2, ConstantsAssumption DEF RollBack, CommitLands, CommitLost
<1>3. ASSUME NEW r \in Tabs, Insert(r)
      PROVE  open[i] # None \/ filed[i] # None \/ mem[r].st = i
  BY <1>0, <1>3 DEF Insert
<1>4. ASSUME NEW r \in Tabs, Handler(r), ~Insert(r) PROVE UNCHANGED <<open, filed>>
  BY <1>4 DEF Handler, Load, AssignReportId, AssignTooLate, Save, Restart, RecoverCheck,
     RecoverRead, RecoverLookup, Recover, Flight, PollFinds, TakeFinds, TakeResult, PollEnds,
     TakeNothing, StillProcessing, ClaimRefused, Claim, ReturnUnnamed, Validate, Reject,
     InsertFails, Attach, AttachFails, CommitReply, CommitUnknown, Ask, CleanUp,
     CleanOther, DeleteStored, GiveBack, Finish, Yield, StoredResult, db
<1>5. CASE PendingExpires \/ ResultExpires \/ DraftExpires \/ UNCHANGED vars
  <2>1. UNCHANGED <<open, filed>>
    BY <1>5 DEF PendingExpires, ResultExpires, DraftExpires, vars, db
  <2>2. QED BY <2>1, <1>1
<1>6. ASSUME NEW r \in Tabs,
             \/ CheckAgain(r) \/ (\E v \in Visits : Start(r, v))
             \/ RecoverLookupFails(r) \/ AskFails(r) \/ FinishFails(r) \/ Crash(r)
      PROVE  UNCHANGED <<open, filed>>
  BY <1>6 DEF CheckAgain, Start, RecoverLookupFails, AskFails, FinishFails, Crash, db
<1>7. QED BY <1>1, <1>2, <1>3, <1>4, <1>5, <1>6 DEF Next

LEMMA KnownStep ==
    ASSUME DraftInv, [Next]_vars, NEW i \in Ids, Known(i)'
    PROVE  Known(i) \/ \E r \in Tabs : AssignReportId(r) /\ reportId' = i
<1>1. CASE IdInKeys(i)' BY <1>1, KeysKnown
<1>2. CASE open'[i] # None \/ filed'[i] # None
  BY <1>2, DbStep DEF DraftInv, Known, IdInMem
<1>3. ASSUME NEW t \in Tabs, IdInMem(mem'[t], i)
      PROVE  Known(i) \/ (AssignReportId(t) /\ reportId' = i)
  <2>1. CASE mem'[t] = mem[t] BY <1>3, <2>1 DEF Known
  <2>2. CASE Derived(t, pc'[t], mem'[t])
    <3>1. mem'[t].st = i => Known(i) \/ (AssignReportId(t) /\ reportId' = i)
      BY <2>2, ConstantsAssumption DEF Derived, Known, IdInMem, IdInKeys
    <3>2. mem'[t].raw # None /\ mem'[t].raw.id = i => Known(i)
      BY <2>2 DEF Derived, Known, IdInMem, IdInKeys
    <3>3. QED BY <1>3, <3>1, <3>2 DEF IdInMem
  <2>3. QED BY <2>1, <2>2, DerivedStep
<1>4. QED BY <1>1, <1>2, <1>3 DEF Known, IdInMem

LEMMA BareStep ==
    ASSUME DraftInv, [Next]_vars, Bare'
    PROVE  Bare
<1>0. TypeInv /\ Store /\ Control BY TypeInvParts DEF DraftInv
<1>1. ASSUME NEW t \in Tabs, pc'[t] = "unnamed" PROVE Bare
  <2>1. pc[t] = "unnamed" \/ (Claim(t) /\ draft.id = NoId)
    BY <1>1, DerivedStep DEF Derived
  <2>2. QED BY <2>1 DEF Bare, Claim
<1> SUFFICES ASSUME \/ draft' # None /\ draft'.id = NoId
                    \/ claimed' # None /\ claimed'.id = NoId
             PROVE  Bare
  BY <1>1 DEF Bare
<1>2. CASE UNCHANGED keys BY <1>2 DEF keys, Bare
<1>3. ASSUME NEW r \in Tabs, Saves(r) PROVE Bare
  <2>1. mem[r].st # NoId
    BY <1>0, <1>3, LocalsAt, ConstantsAssumption DEF Saves, Named
  <2>2. QED BY <1>3, <2>1 DEF Saves, Bare
<1>4. ASSUME NEW r \in Tabs, Assigns(r) \/ Recovers(r) \/ Claims(r) PROVE Bare
  BY <1>4 DEF Assigns, Recovers, Claims, Bare
<1>5. ASSUME NEW r \in Tabs, GivesBack(r) PROVE Bare
  <2>1. CASE pc[r] = "unnamed" BY <2>1 DEF Bare
  <2>2. CASE pc[r] # "unnamed"
    <3>1. mem[r].raw.id # NoId
      BY <1>5, <2>2, ConstantsAssumption DEF GivesBack, DraftInv, DraftAt, Working
    <3>2. QED BY <1>5, <3>1 DEF GivesBack, Bare
  <2>3. QED BY <2>1, <2>2
<1>6. ASSUME NEW r \in Tabs, Spends(r) \/ Restart(r) PROVE Bare
  BY <1>6 DEF Spends, Restart, Bare
<1>7. CASE PendingExpires \/ DraftExpires
  BY <1>7 DEF PendingExpires, DraftExpires, Bare
<1>8. QED BY <1>0, <1>2, <1>3, <1>4, <1>5, <1>6, <1>7, KeysStep DEF keys

\* At most one report id is in play, and while the draft may still be unnamed
\* it is the one that _ASSIGN_REPORT_ID keeps handing out.
OneId ==
    /\ \A i, j \in Ids : Known(i) /\ Known(j) => i = j
    /\ \A i \in Ids : Bare /\ Known(i) => reportId = i

LEMMA OneIdStep ==
    ASSUME DraftInv, OneId, Bare => Calm /\ HolderInv, [Next]_vars
    PROVE  OneId'
<1>0. TypeInv /\ Store /\ Control BY TypeInvParts DEF DraftInv
<1>1. ASSUME NEW r \in Tabs, AssignReportId(r) PROVE OneId'
  <2>1. PICK i \in Ids : reportId' = i /\ (reportId # None => i = reportId)
    BY <1>1 DEF AssignReportId
  <2>2. Bare
    <3>1. pc[r] = "assign" /\ draft = mem[r].raw BY <1>1 DEF AssignReportId, At
    <3>2. draft \in Token BY <1>0, <3>1, LocalsAt DEF HasRaw
    <3>3. draft.id = NoId BY <3>1 DEF DraftInv, DraftAt
    <3>4. QED BY <3>2, <3>3, AbsentAssumption DEF Bare
  <2>3. ASSUME NEW j \in Ids, Known(j) PROVE j = i
    BY <2>1, <2>2, <2>3, ConstantsAssumption DEF OneId
  <2>4. ASSUME NEW j \in Ids, Known(j)' PROVE j = i
    BY <2>1, <2>3, <2>4, KnownStep
  <2>5. QED BY <2>1, <2>4 DEF OneId
<1>2. CASE \A r \in Tabs : ~AssignReportId(r)
  <2>1. ASSUME NEW i \in Ids, Known(i)' PROVE Known(i) BY <1>2, <2>1, KnownStep
  <2>2. ASSUME Bare' PROVE reportId' = reportId
    <3>1. Bare BY <2>2, BareStep
    <3>2. Calm /\ HolderInv BY <3>1
    <3>3. ASSUME NEW t \in Tabs, pc'[t] = "unnamed"
          PROVE  pc[t] = "unnamed" \/ (pending' = t /\ claimed' # None)
      BY <3>3, DerivedStep DEF Derived, Claim
    <3>4. ASSUME NEW r \in Tabs, Recovers(r) PROVE reportId' = reportId
      <4>1. CASE draft' = None /\ claimed' = None
        <5>1. PICK t \in Tabs : pc'[t] = "unnamed" BY <2>2, <4>1 DEF Bare
        <5>2. pc[t] = "unnamed" BY <3>3, <4>1, <5>1
        <5>3. pending = t BY <3>2, <5>2 DEF HolderInv
        <5>4. QED BY <3>4, <5>3, ConstantsAssumption DEF Recovers
      <4>2. QED BY <3>4, <4>1 DEF Recovers
    <3>5. ASSUME NEW r \in Tabs, Spends(r) PROVE FALSE
      <4>1. PICK t \in Tabs : pc'[t] = "unnamed" BY <2>2, <3>5 DEF Bare, Spends
      <4>2. pc[t] = "unnamed" /\ t # r BY <3>3, <3>5, <4>1 DEF Spends
      <4>3. pending = t BY <3>2, <4>2 DEF HolderInv
      <4>4. QED BY <3>5, <4>2, <4>3, ConstantsAssumption DEF Spends
    <3>6. ASSUME NEW r \in Tabs, Restart(r) PROVE FALSE
      BY <3>2, <3>6 DEF Restart, At, HolderInv
    <3>7. ASSUME NEW r \in Tabs, Saves(r) \/ Claims(r) \/ GivesBack(r)
          PROVE  reportId' = reportId
      BY <3>7 DEF Saves, Claims, GivesBack
    <3>8. ASSUME NEW r \in Tabs, Assigns(r) PROVE FALSE BY <1>2, <3>8 DEF Assigns
    <3>9. PendingExpires \/ DraftExpires => reportId' = reportId
      BY DEF PendingExpires, DraftExpires
    <3>10. UNCHANGED <<keys, discarded>> => reportId' = reportId BY DEF keys
    <3>11. QED BY <1>0, <3>4, <3>5, <3>6, <3>7, <3>8, <3>9, <3>10, KeysStep
  <2>3. Bare' => Bare BY BareStep
  <2>4. \A i, j \in Ids : Known(i)' /\ Known(j)' => i = j BY <2>1 DEF OneId
  <2>5. \A i \in Ids : Bare' /\ Known(i)' => reportId' = i BY <2>1, <2>2, <2>3 DEF OneId
  <2>6. QED BY <2>4, <2>5 DEF OneId
<1>3. QED BY <1>1, <1>2

----------------------------------------------------------------------------
(* The submit does what OneDraft promises *)

\* What an answer says of a report, it says as "received".
Quiet(p) == p.what # "success" => p.case = None

\* A step files a report, or one tab gets an answer, or neither.
LEMMA AnswerStep ==
    ASSUME [Next]_vars
    PROVE  \/ (\E r \in Tabs : CommitLands(r)) /\ UNCHANGED page
           \/ UNCHANGED filed /\ UNCHANGED page
           \/ UNCHANGED filed /\ \E r \in Tabs : \E p :
                  Quiet(p) /\ page' = [page EXCEPT ![r] = p]
<1> DEFINE Answered == \/ UNCHANGED page
                       \/ \E r \in Tabs : \E p :
                             Quiet(p) /\ page' = [page EXCEPT ![r] = p]
<1>1. \A r \in Tabs : CommitLands(r) => UNCHANGED page BY DEF CommitLands
<1>2. (\A w : Quiet(PageOf(w))) /\ (\A res : Quiet(Success(res)))
  BY DEF Quiet, PageOf, Success
<1>3. ASSUME NEW r \in Tabs, NEW p, Quiet(p), Reply(r, p) PROVE Answered
  BY <1>3 DEF Reply
<1>4. /\ \A r, l, m : Goto(r, l, m) => UNCHANGED page
      /\ \A r, l : Step(r, l) => UNCHANGED page
      /\ \A r : Outcome(r) \/ Recovered(r) => UNCHANGED page
  BY DEF Goto, Step, Outcome, Recovered
<1>5. \A r \in Tabs : \A m : Loaded(r, m) \/ NotLoaded(r, m) => Answered
  BY <1>2, <1>3, <1>4 DEF Loaded, NotLoaded
<1>6. ASSUME NEW r \in Tabs, Handler(r) PROVE Answered
  <2>1. CASE Load(r) \/ AssignReportId(r) \/ AssignTooLate(r)
    BY <1>4, <1>5, <2>1 DEF Load, AssignReportId, AssignTooLate
  <2>2. CASE Save(r) \/ Restart(r) \/ StillProcessing(r) \/ ReturnUnnamed(r)
    BY <1>2, <1>3, <2>2 DEF Save, Restart, StillProcessing, ReturnUnnamed
  <2>3. CASE \/ RecoverCheck(r) \/ RecoverRead(r) \/ RecoverLookup(r) \/ Recover(r)
             \/ PollEnds(r) \/ TakeNothing(r) \/ ClaimRefused(r) \/ Claim(r)
             \/ Validate(r) \/ Reject(r) \/ Insert(r) \/ InsertFails(r)
    BY <1>4, <2>3 DEF RecoverCheck, RecoverRead, RecoverLookup, Recover, PollEnds,
       TakeNothing, ClaimRefused, Claim, Validate, Reject, Insert, InsertFails
  <2>4. CASE \/ Attach(r) \/ AttachFails(r) \/ CommitReply(r) \/ CommitUnknown(r)
             \/ CleanUp(r) \/ CleanOther(r) \/ GiveBack(r) \/ Yield(r)
    BY <1>4, <2>4 DEF Attach, AttachFails, CommitReply, CommitUnknown, CleanUp,
       CleanOther, DeleteStored, GiveBack, Yield
  <2>5. CASE PollFinds(r) \/ TakeFinds(r)
    BY <1>2, <1>3, <2>5 DEF PollFinds, TakeFinds, TakeResult
  <2>6. CASE Flight(r) \/ Ask(r) BY <1>2, <1>3, <1>4, <2>6 DEF Flight, Ask
  <2>7. CASE Finish(r) \/ StoredResult(r)
    BY <1>2, <1>3, <2>7 DEF Finish, StoredResult
  <2>8. QED BY <1>6, <2>1, <2>2, <2>3, <2>4, <2>5, <2>6, <2>7 DEF Handler
<1>7. ASSUME NEW r \in Tabs,
             \/ RecoverLookupFails(r) \/ AskFails(r) \/ FinishFails(r) \/ Crash(r)
             \/ \E v \in Visits : Start(r, v)
      PROVE  Answered
  BY <1>2, <1>3, <1>4, <1>7 DEF RecoverLookupFails, AskFails, FinishFails, Crash, Start
<1>8. ASSUME NEW r \in Tabs, CheckAgain(r) PROVE Answered
  BY <1>2, <1>8 DEF CheckAgain
<1>9. ASSUME NEW r \in Tabs, RollBack(r) \/ CommitLost(r) PROVE Answered
  BY <1>9 DEF RollBack, CommitLost
<1>10. PendingExpires \/ ResultExpires \/ DraftExpires \/ UNCHANGED vars => Answered
  BY DEF PendingExpires, ResultExpires, DraftExpires, vars
<1>11. Answered
  BY <1>1, <1>6, <1>7, <1>8, <1>9, <1>10 DEF Next
<1>12. QED BY <1>1, <1>11, FiledStep

\* The invariant behind the refinement.
PromiseInv ==
    /\ FilingInv /\ DraftInv /\ OneId
    /\ (~Legacy /\ ~Bare) \/ (Calm /\ HolderInv)
    /\ \A r \in Tabs : Quiet(page[r])

LEMMA InitPromise ==
    ASSUME ~Legacy \/ Calm, Init
    PROVE  PromiseInv
<1>1. FilingInv /\ DraftInv BY InitFiling, DraftInvInductive
<1>2. /\ draft \in Token /\ draft.id \in (IF Legacy THEN {NoId} ELSE Ids)
      /\ claimed = None /\ pending = None /\ reportId = None
      /\ \A r \in Tabs : pc[r] = "idle" /\ mem[r] = MemoryOf("get") /\ page[r] = PageOf("none")
      /\ \A i \in Ids : open[i] = None /\ filed[i] = None
  BY DEF Init, Token
<1>3. \A r \in Tabs : mem[r].st = None /\ mem[r].raw = None
  <2>1. MemoryOf("get").st = None /\ MemoryOf("get").raw = None BY DEF MemoryOf
  <2>2. QED BY <1>2, <2>1
<1>4. \A i \in Ids : Known(i) => draft.id = i
  BY <1>2, <1>3, ConstantsAssumption DEF Known, IdInKeys, IdInMem
<1>5. Bare => Legacy BY <1>2, ConstantsAssumption DEF Bare
<1>6. OneId BY <1>2, <1>4, <1>5, ConstantsAssumption DEF OneId
<1>7. HolderInv BY <1>2 DEF HolderInv
<1>8. \A r \in Tabs : Quiet(page[r]) BY <1>2 DEF Quiet, PageOf
<1>9. QED BY <1>1, <1>5, <1>6, <1>7, <1>8 DEF PromiseInv

LEMMA PromiseStep ==
    ASSUME PromiseInv, [Next]_vars
    PROVE  PromiseInv'
<1>1. FilingInv' /\ DraftInv' BY NextFiling, DraftInvInductive DEF PromiseInv
<1>2. OneId' BY OneIdStep DEF PromiseInv
<1>3. (~Legacy /\ ~Bare)' \/ (Calm /\ HolderInv)'
  <2>1. CASE ~Legacy /\ ~Bare
    <3>1. ~(Bare') BY <2>1, BareStep DEF PromiseInv
    <3>2. QED BY <2>1, <3>1
  <2>2. CASE Calm /\ HolderInv
    <3>1. HolderInv' BY <2>2, HolderStep DEF PromiseInv
    <3>2. QED BY <2>2, <3>1 DEF Calm
  <2>3. QED BY <2>1, <2>2 DEF PromiseInv
<1>4. ASSUME NEW r \in Tabs PROVE Quiet(page'[r])
  <2>1. page \in [Tabs -> Page] BY DEF PromiseInv, DraftInv, TypeInv, TypeOK
  <2>2. Quiet(page[r]) BY DEF PromiseInv
  <2>3. QED BY <2>1, <2>2, AnswerStep
<1>5. QED BY <1>1, <1>2, <1>3, <1>4 DEF PromiseInv, Quiet

\* A COMMIT files the draft's only report; an answer tells of it or of nothing.
LEMMA AbstractStep ==
    ASSUME PromiseInv, PromiseInv', [Next]_vars
    PROVE  [Abstract!Next]_(Abstract!vars)
<1> DEFINE R == {filed[i] : i \in FiledReports}
           T == [r \in Tabs |-> page[r].case]
<1>0. /\ page \in [Tabs -> Page]
      /\ open \in [Ids -> Tabs \cup {None}] /\ filed \in [Ids -> Tabs \cup {None}]
  BY DEF PromiseInv, DraftInv, TypeInv, TypeOK
<1>1. ASSUME NEW r \in Tabs, CommitLands(r), UNCHANGED page
      PROVE  R = {} /\ R' = {r} /\ UNCHANGED T
  <2>1. PICK i \in Ids : open[i] = r /\ filed' = [filed EXCEPT ![i] = r]
    BY <1>1 DEF CommitLands
  <2>2. open[i] # None BY <2>1, ConstantsAssumption
  <2>3. ASSUME NEW j \in Ids PROVE filed[j] = None
    <3>1. filed[i] = None BY <2>2 DEF PromiseInv, FilingInv, Kept
    <3>2. filed[j] # None => j = i
      <4>1. Known(i) BY <2>2 DEF Known
      <4>2. filed[j] # None => Known(j) BY DEF Known
      <4>3. QED BY <4>1, <4>2 DEF PromiseInv, OneId
    <3>3. QED BY <3>1, <3>2
  <2>4. R = {} BY <2>3 DEF FiledReports
  <2>5. \A j \in Ids : filed'[j] = IF j = i THEN r ELSE None BY <1>0, <2>1, <2>3
  <2>6. R' = {r} BY <2>5, ConstantsAssumption DEF FiledReports
  <2>7. QED BY <1>1, <2>4, <2>6
<1>2. UNCHANGED filed => UNCHANGED R BY DEF FiledReports
<1>3. ASSUME NEW r \in Tabs, NEW p, UNCHANGED filed, Quiet(p),
             page' = [page EXCEPT ![r] = p]
      PROVE  \/ \E c \in R : T' = [T EXCEPT ![r] = c]
             \/ T' = [T EXCEPT ![r] = None]
  <2>1. page'[r] = p BY <1>0, <1>3
  <2>2. \A q \in Tabs : page'[q] = IF q = r THEN p ELSE page[q] BY <1>0, <1>3
  <2>3. T' = [T EXCEPT ![r] = p.case] BY <2>2
  <2>4. CASE p.what # "success" BY <1>3, <2>3, <2>4 DEF Quiet
  <2>5. CASE p.what = "success"
    <3>1. \E i \in Ids : filed'[i] = p.case /\ p.case # None
      BY <2>1, <2>5 DEF PromiseInv, FilingInv, Tab, Said, IsFiled
    <3>2. p.case \in R BY <1>3, <3>1 DEF FiledReports
    <3>3. QED BY <2>3, <3>2
  <2>6. QED BY <2>4, <2>5
<1>4. Abstract!vars = <<R, T>> BY DEF Abstract!vars
<1>5. CASE \E r \in Tabs : CommitLands(r) /\ UNCHANGED page
  <2>1. PICK r \in Tabs : CommitLands(r) /\ UNCHANGED page BY <1>5
  <2>2. Abstract!File(r) BY <1>1, <2>1 DEF Abstract!File
  <2>3. QED BY <2>2 DEF Abstract!Next
<1>6. CASE UNCHANGED filed /\ UNCHANGED page
  BY <1>2, <1>6 DEF Abstract!vars
<1>7. CASE UNCHANGED filed /\ \E r \in Tabs : \E p :
              Quiet(p) /\ page' = [page EXCEPT ![r] = p]
  <2>1. PICK r \in Tabs : \E p : Quiet(p) /\ page' = [page EXCEPT ![r] = p] BY <1>7
  <2>2. Abstract!Tell(r) \/ Abstract!Hush(r)
    BY <1>2, <1>3, <1>7, <2>1 DEF Abstract!Tell, Abstract!Hush
  <2>3. QED BY <2>2 DEF Abstract!Next
<1>8. QED BY <1>5, <1>6, <1>7, AnswerStep

\* One draft yields at most one report, and no tab is told of another: for
\* every interleaving, every slow submit and every fault of a draft that had
\* its id from its first save.  A draft from before v2.0.0 gets its id late;
\* for it the promise needs submits that end before their "pending" key does,
\* and a reporter who lets the draft live.
THEOREM SubmitKeepsPromise ==
    ASSUME ~Legacy \/ Calm
    PROVE  Spec => ImplementsOneDraft
<1>1. Init => PromiseInv BY InitPromise
<1>2. PromiseInv /\ [Next]_vars => PromiseInv' BY PromiseStep
<1>3. Init => Abstract!Init
  <2> SUFFICES ASSUME Init PROVE Abstract!Init OBVIOUS
  <2>1. {filed[i] : i \in FiledReports} = {} BY DEF Init, FiledReports
  <2>2. [r \in Tabs |-> page[r].case] = [r \in Tabs |-> None] BY DEF Init, PageOf
  <2>3. QED BY <2>1, <2>2 DEF Abstract!Init
<1>4. PromiseInv /\ PromiseInv' /\ [Next]_vars => [Abstract!Next]_(Abstract!vars)
  BY AbstractStep
<1>5. QED BY <1>1, <1>2, <1>3, <1>4, PTL DEF Spec, ImplementsOneDraft, Abstract!Spec
=============================================================================
