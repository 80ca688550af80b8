------------------------------ MODULE CaseProofs ------------------------------
(* What holds of a case however many handlers work on it and whoever they  *)
(* act for: types, the order of a thread, four eyes on a deletion, what    *)
(* counts as feedback, the retention clock, and that locks are released.   *)
EXTENDS CaseHandling, TLAPS

\* What a handler under way was asked, and the case it had loaded.
Underway(h) ==
    pc[h] \in Steps =>
        /\ op[h] \in Asked
        /\ snap[h].row \in Case
        /\ May(op[h], snap[h].row, snap[h].request)
        /\ op[h].kind \in {"reply", "answer"} <=> pc[h] \in {"audit", "lock", "post"}

TypeInv == TypeOK /\ \A h \in Handlers : Underway(h)

LEMMA AskedOperation ==
    ASSUME NEW o \in Asked
    PROVE  /\ o \in Operation
           /\ o.kind # "answer" => o.by \in Admins
           /\ o.kind = "status" => o.to \in Statuses
           /\ o.kind = "assign" => o.to \in Admins \cup {None}
BY DEF Asked, Operation

LEMMA AnswerTypeInv ==
    ASSUME TypeInv, NEW h \in Handlers, NEW a \in Answers, Answer(h, a)
    PROVE  /\ pc' \in [Handlers -> {"idle"} \cup Steps \cup Answers]
           /\ op' \in [Handlers -> Operation]
           /\ snap' \in [Handlers -> Snapshot]
           /\ latest' \in [Handlers -> Nat]
           /\ \A g \in Handlers : Underway(g)'
           /\ \A g \in Handlers \ {h} : pc'[g] = pc[g] /\ op'[g] = op[g] /\ snap'[g] = snap[g]
                                        /\ latest'[g] = latest[g]
           /\ pc'[h] = a
<1>1. NoOp \in Operation BY DEF NoOp, Operation, Kinds
<1>2. NoSnap \in Snapshot BY DEF NoSnap, Snapshot
<1>3. /\ pc' \in [Handlers -> {"idle"} \cup Steps \cup Answers]
      /\ op' \in [Handlers -> Operation]
      /\ snap' \in [Handlers -> Snapshot]
      /\ latest' \in [Handlers -> Nat]
  BY <1>1, <1>2 DEF TypeInv, TypeOK, Answer
<1>4. /\ \A g \in Handlers \ {h} : pc'[g] = pc[g] /\ op'[g] = op[g] /\ snap'[g] = snap[g]
                                   /\ latest'[g] = latest[g]
      /\ pc'[h] = a
  BY DEF TypeInv, TypeOK, Answer
<1>5. ASSUME NEW g \in Handlers PROVE Underway(g)'
  <2>1. CASE g = h BY <1>4, <2>1 DEF Underway, Steps, Answers
  <2>2. CASE g # h BY <1>4, <2>2 DEF TypeInv, Underway, Asked, May, MayAccess, MayReveal, RequireAdmin
  <2>3. QED BY <2>1, <2>2
<1>6. QED BY <1>3, <1>4, <1>5

LEMMA StepTypeInv ==
    ASSUME TypeInv, NEW h \in Handlers, NEW l \in Steps, Step(h, l),
           pc[h] \in Steps,
           pc[h] \in {"audit", "lock", "post"} <=> l \in {"audit", "lock", "post"}
    PROVE  /\ pc' \in [Handlers -> {"idle"} \cup Steps \cup Answers]
           /\ op' = op /\ snap' = snap /\ latest' = latest
           /\ \A g \in Handlers : Underway(g)'
           /\ \A g \in Handlers \ {h} : pc'[g] = pc[g]
           /\ pc'[h] = l
<1>1. /\ pc' \in [Handlers -> {"idle"} \cup Steps \cup Answers]
      /\ op' = op /\ snap' = snap /\ latest' = latest
      /\ \A g \in Handlers \ {h} : pc'[g] = pc[g]
      /\ pc'[h] = l
  BY DEF TypeInv, TypeOK, Step
<1>2. ASSUME NEW g \in Handlers PROVE Underway(g)'
  BY <1>1 DEF TypeInv, Underway, Asked, May, MayAccess, MayReveal, RequireAdmin
<1>3. QED BY <1>1, <1>2

\* What the services and the UPDATE make of a case is a case.
LEMMA ChangedCase ==
    ASSUME now \in Nat, NEW c \in Case, NEW o \in Asked
    PROVE  Changed(o, c) \in Case
<1>1. o \in Operation /\ (o.kind # "answer" => o.by \in Admins)
      /\ (o.kind = "status" => o.to \in Statuses)
      /\ (o.kind = "assign" => o.to \in Admins \cup {None})
  BY AskedOperation
<1>2. Acknowledged(c) \in Case BY DEF Acknowledged, Case, Statuses, Time
<1>3. ASSUME NEW s \in Statuses PROVE WithStatus(c, s) \in Case
  BY <1>3 DEF WithStatus, Case, Time
<1>4. ASSUME NEW a \in Admins PROVE Taken(c, a) \in Case BY <1>4 DEF Taken, Case
<1>5. ASSUME NEW a \in Admins \cup {None} PROVE [c EXCEPT !.assigned = a] \in Case
  BY <1>5 DEF Case
<1>6. QED BY <1>1, <1>2, <1>3, <1>4, <1>5 DEF Changed

LEMMA FlushedCase ==
    ASSUME row \in Case, NEW o \in Case, NEW n \in Case
    PROVE  Flushed(o, n) \in Case
BY DEF Flushed, Case

LEMMA InitTypeInv == Init => TypeInv
<1> SUFFICES ASSUME Init PROVE TypeInv OBVIOUS
<1>1. row \in Case BY DEF Init, Case, Statuses, Time
<1>2. thread \in Seq(Message) BY DEF Init, Message
<1>3. NoOp \in Operation /\ NoSnap \in Snapshot
  BY DEF NoOp, NoSnap, Operation, Snapshot, Kinds
<1>4. TypeOK BY <1>1, <1>2, <1>3 DEF Init, TypeOK, Time
<1>5. ASSUME NEW h \in Handlers PROVE Underway(h) BY DEF Init, Underway, Steps
<1>6. QED BY <1>4, <1>5 DEF TypeInv

LEMMA LoadTypeInv ==
    ASSUME TypeInv, NEW h \in Handlers, NEW o \in Asked, Load(h, o)
    PROVE  TypeInv'
<1>1. UNCHANGED <<row, request, thread, sharing, locked, reqLocked, doomed, now,
                  lastClosed, known, overran>>
  BY DEF Load, db, locks, history
<1>2. CASE row # None /\ May(o, row, request)
  <2>1. o \in Operation /\ o.kind \in Kinds BY AskedOperation DEF Operation
  <2>2. FirstStep(o) \in Steps
        /\ (o.kind \in {"reply", "answer"} <=> FirstStep(o) \in {"audit", "lock", "post"})
    BY <2>1 DEF FirstStep, Steps, Kinds
  <2>3. [row |-> row, request |-> request] \in Snapshot BY DEF TypeInv, TypeOK, Snapshot
  <2>4. /\ pc' = [pc EXCEPT ![h] = FirstStep(o)]
        /\ op' = [op EXCEPT ![h] = o]
        /\ snap' = [snap EXCEPT ![h] = [row |-> row, request |-> request]]
        /\ latest' = latest
    BY <1>2 DEF Load
  <2>5. TypeOK' BY <1>1, <2>1, <2>2, <2>3, <2>4 DEF TypeInv, TypeOK
  <2>6. ASSUME NEW g \in Handlers PROVE Underway(g)'
    <3>1. CASE g = h
      <4>1. pc'[h] = FirstStep(o) /\ op'[h] = o /\ snap'[h].row = row /\ snap'[h].request = request
        BY <2>4 DEF TypeInv, TypeOK
      <4>2. row \in Case BY <1>2 DEF TypeInv, TypeOK
      <4>3. QED BY <1>2, <2>2, <3>1, <4>1, <4>2
            DEF Underway, Asked, May, MayAccess, MayReveal, RequireAdmin
    <3>2. CASE g # h
      BY <2>4, <3>2 DEF TypeInv, TypeOK, Underway, Asked, May, MayAccess, MayReveal, RequireAdmin
    <3>3. QED BY <3>1, <3>2
  <2>7. QED BY <2>5, <2>6 DEF TypeInv
<1>3. CASE ~(row # None /\ May(o, row, request))
  <2>1. Answer(h, "refused") BY <1>3 DEF Load
  <2>2. "refused" \in Answers BY DEF Answers
  <2>3. QED BY <1>1, <2>1, <2>2, AnswerTypeInv DEF TypeInv, TypeOK
<1>4. QED BY <1>2, <1>3

\* The facts about a handler's own operation that its steps rely on.
LEMMA AtWrite ==
    ASSUME TypeInv, NEW h \in Handlers, pc[h] \in Steps
    PROVE  /\ op[h] \in Asked /\ op[h] \in Operation
           /\ snap[h].row \in Case
           /\ op[h].kind # "answer" => op[h].by \in Admins
BY AskedOperation DEF TypeInv, Underway

LEMMA StoreType ==
    ASSUME TypeInv, row # None, NEW o \in Case, NEW n \in Case, Store(o, n)
    PROVE  row' \in Case /\ lastClosed' \in Time /\ overran' \in BOOLEAN
<1>1. row \in Case BY DEF TypeInv, TypeOK
<1>2. row' \in Case BY <1>1, FlushedCase DEF Store
<1>3. lastClosed' \in Time BY DEF Store, TypeInv, TypeOK, Time
<1>4. overran' \in BOOLEAN BY DEF Store, TypeInv, TypeOK
<1>5. QED BY <1>2, <1>3, <1>4

LEMMA WriteTypeInv ==
    ASSUME TypeInv, NEW h \in Handlers, Write(h)
    PROVE  TypeInv'
<1>1. UNCHANGED <<request, thread, sharing, locked, reqLocked, doomed, now>>
  BY DEF Write, locks
<1>2. pc[h] \in Steps BY DEF Write, At, Steps
<1>3. CASE row = None
  <2>1. Answer(h, "error") /\ UNCHANGED <<row, lastClosed, known, overran>>
    BY <1>3 DEF Write, history
  <2>2. "error" \in Answers BY DEF Answers
  <2>3. QED BY <1>1, <2>1, <2>2, AnswerTypeInv DEF TypeInv, TypeOK
<1>4. CASE row # None
  <2>1. /\ Store(snap[h].row, Changed(op[h], snap[h].row))
        /\ known' = IF op[h].kind = "reveal" THEN known \cup {op[h].by} ELSE known
        /\ Answer(h, "ok")
    BY <1>4 DEF Write
  <2>2. "ok" \in Answers BY DEF Answers
  <2>3. Changed(op[h], snap[h].row) \in Case
    BY <1>2, AtWrite, ChangedCase DEF TypeInv, TypeOK
  <2>4. row' \in Case /\ lastClosed' \in Time /\ overran' \in BOOLEAN
    BY <1>2, <1>4, <2>1, <2>3, AtWrite, StoreType
  <2>5. known' \subseteq Admins BY <1>2, <2>1, AtWrite DEF TypeInv, TypeOK
  <2>6. QED BY <1>1, <2>1, <2>2, <2>4, <2>5, AnswerTypeInv DEF TypeInv, TypeOK
<1>5. QED BY <1>3, <1>4

LEMMA DeletionTypeInv ==
    ASSUME TypeInv, NEW h \in Handlers,
           \/ RequestDeletion(h) \/ CancelDeletion(h) \/ LogWithdrawal(h)
           \/ LockRequest(h) \/ ConfirmDeletion(h)
    PROVE  TypeInv'
<1>1. {"ok", "error", "refused"} \subseteq Answers BY DEF Answers
<1>2. CASE RequestDeletion(h)
  <2>1. UNCHANGED <<row, thread, sharing, locked, reqLocked, doomed, now, lastClosed, known, overran>>
    BY <1>2 DEF RequestDeletion, locks, history
  <2>2. op[h].by \in Admins
    BY <1>2, AtWrite DEF RequestDeletion, At, Steps
  <2>3. request' \in Request \cup {None}
    BY <1>2, <2>2 DEF RequestDeletion, Request, TypeInv, TypeOK
  <2>4. PICK a \in Answers : Answer(h, a) BY <1>1, <1>2 DEF RequestDeletion
  <2>5. QED BY <2>1, <2>3, <2>4, AnswerTypeInv DEF TypeInv, TypeOK
<1>3. CASE CancelDeletion(h)
  <2>1. /\ UNCHANGED <<row, request, thread, sharing, locked, doomed, now, lastClosed, known, overran>>
        /\ Step(h, "withdrawn") /\ reqLocked' \in {h, None}
    BY <1>3 DEF CancelDeletion, db, history
  <2>2. pc[h] = "write" /\ pc[h] \in Steps /\ "withdrawn" \in Steps
    BY <1>3 DEF CancelDeletion, At, Steps
  <2>3. QED BY <2>1, <2>2, StepTypeInv DEF TypeInv, TypeOK
<1>4. CASE LogWithdrawal(h)
  <2>1. UNCHANGED <<row, thread, sharing, locked, doomed, now, lastClosed, known, overran>>
    BY <1>4 DEF LogWithdrawal, history
  <2>2. request' \in {request, None} /\ reqLocked' \in {reqLocked, None} BY <1>4 DEF LogWithdrawal
  <2>3. PICK a \in Answers : Answer(h, a) BY <1>1, <1>4 DEF LogWithdrawal
  <2>4. QED BY <2>1, <2>2, <2>3, AnswerTypeInv DEF TypeInv, TypeOK
<1>5. CASE LockRequest(h)
  <2>1. UNCHANGED <<row, request, thread, sharing, locked, doomed, now, lastClosed, known, overran>>
    BY <1>5 DEF LockRequest, db, history
  <2>2. CASE Step(h, "erase") /\ reqLocked' = h
    <3>1. "erase" \in Steps /\ pc[h] = "dr" /\ pc[h] \in Steps
      BY <1>5 DEF LockRequest, At, Steps
    <3>2. QED BY <2>1, <2>2, <3>1, StepTypeInv DEF TypeInv, TypeOK
  <2>3. CASE Answer(h, "refused") /\ UNCHANGED reqLocked
    BY <1>1, <2>1, <2>3, AnswerTypeInv DEF TypeInv, TypeOK
  <2>4. QED BY <1>5, <2>2, <2>3 DEF LockRequest
<1>6. CASE ConfirmDeletion(h)
  <2>1. UNCHANGED <<sharing, locked, doomed, now, lastClosed, known, overran>>
        /\ row' = None /\ request' = None /\ thread' = <<>> /\ reqLocked' = None
        /\ Answer(h, "ok")
    BY <1>6 DEF ConfirmDeletion, Gone, history
  <2>2. <<>> \in Seq(Message) OBVIOUS
  <2>3. QED BY <1>1, <2>1, <2>2, AnswerTypeInv DEF TypeInv, TypeOK
<1>7. QED BY <1>2, <1>3, <1>4, <1>5, <1>6

\* The day of a time is not after it.
LEMMA DayFloor ==
    ASSUME NEW t \in Nat, NEW d \in Nat \ {0}
    PROVE  t - (t % d) \in Nat
OBVIOUS

LEMMA SentAtNat ==
    ASSUME TypeInv, NEW h \in Handlers
    PROVE  SentAt(h) \in Nat /\ SentAt(h) > latest[h]
<1>1. now \in Nat /\ latest[h] \in Nat BY DEF TypeInv, TypeOK
<1>2. now - (now % Day) \in Nat BY <1>1, DayFloor, ConstantsAssumption
<1>3. QED BY <1>1, <1>2 DEF SentAt

\* Who posts holds the case FOR UPDATE; a case that is there, and it is while
\* somebody holds it, has its receipt in the thread.
LockInv ==
    /\ \A h \in Handlers : pc[h] = "post" => locked = h
    /\ locked # None => row # None
    /\ row # None => thread # <<>>

LEMMA LastTimeNat ==
    ASSUME TypeInv, LockInv, row # None
    PROVE  LastTime \in Nat
<1>1. thread \in Seq(Message) /\ thread # <<>> BY DEF TypeInv, TypeOK, LockInv
<1>2. Len(thread) \in 1..Len(thread) BY <1>1
<1>3. thread[Len(thread)] \in Message BY <1>1, <1>2
<1>4. QED BY <1>3 DEF LastTime, Message

LEMMA ReplyTypeInv ==
    ASSUME TypeInv, LockInv, NEW h \in Handlers,
           AuditReply(h) \/ LockThread(h) \/ Post(h) \/ DeadlockDetected(h)
    PROVE  TypeInv'
<1>1. {"ok", "error", "aborted"} \subseteq Answers BY DEF Answers
<1>2. CASE AuditReply(h)
  <2>1. UNCHANGED <<row, request, thread, locked, reqLocked, doomed, now, lastClosed, known, overran>>
    BY <1>2 DEF AuditReply, db, history
  <2>2. CASE row = None
    <3>1. Answer(h, "error") /\ sharing' = sharing BY <1>2, <2>2 DEF AuditReply
    <3>2. QED BY <1>1, <2>1, <3>1, AnswerTypeInv DEF TypeInv, TypeOK
  <2>3. CASE row # None
    <3>1. Step(h, "lock") /\ sharing' = sharing \cup {h} BY <1>2, <2>3 DEF AuditReply
    <3>2. pc[h] = "audit" /\ pc[h] \in Steps /\ "lock" \in Steps BY <1>2 DEF AuditReply, At, Steps
    <3>3. QED BY <2>1, <3>1, <3>2, StepTypeInv DEF TypeInv, TypeOK
  <2>4. QED BY <2>2, <2>3
<1>3. CASE LockThread(h)
  <2>1. UNCHANGED <<row, request, thread, sharing, reqLocked, doomed, now, lastClosed, known, overran>>
    BY <1>3 DEF LockThread, db, history
  <2>2. CASE row = None
    <3>1. Answer(h, "error") /\ locked' = locked BY <1>3, <2>2 DEF LockThread
    <3>2. QED BY <1>1, <2>1, <3>1, AnswerTypeInv DEF TypeInv, TypeOK
  <2>3. CASE row # None
    <3>0. LastTime \in Nat BY <2>3, LastTimeNat
    <3>1. /\ locked' = h
          /\ pc' = [pc EXCEPT ![h] = "post"]
          /\ latest' = [latest EXCEPT ![h] = LastTime]
          /\ op' = op /\ snap' = snap
      BY <1>3, <2>3 DEF LockThread
    <3>2. pc[h] = "lock" BY <1>3 DEF LockThread, At
    <3>3. TypeOK' BY <2>1, <3>0, <3>1 DEF TypeInv, TypeOK, Steps
    <3>4. ASSUME NEW g \in Handlers PROVE Underway(g)'
      BY <3>1, <3>2 DEF TypeInv, TypeOK, Underway, Asked, May, MayAccess, MayReveal, RequireAdmin, Steps
    <3>5. QED BY <3>3, <3>4 DEF TypeInv
  <2>4. QED BY <2>2, <2>3
<1>4. CASE Post(h)
  <2>1. UNCHANGED <<request, reqLocked, doomed, now>> BY <1>4 DEF Post
  <2>2. locked' = None /\ sharing' = sharing \ {h} /\ Answer(h, "ok") BY <1>4 DEF Post
  <2>3. thread' \in Seq(Message)
    BY <1>4, SentAtNat DEF Post, Message, TypeInv, TypeOK
  <2>4. CASE op[h].kind = "reply"
    <3>0. row # None BY <1>4, ConstantsAssumption DEF Post, At, LockInv
    <3>1. pc[h] \in Steps BY <1>4 DEF Post, At, Steps
    <3>2. WithFeedback(snap[h].row, SentAt(h)) \in Case
      BY <3>1, AtWrite, SentAtNat DEF WithFeedback, Case, Time
    <3>3. Store(snap[h].row, WithFeedback(snap[h].row, SentAt(h))) /\ known' = known
      BY <1>4, <2>4 DEF Post
    <3>4. row' \in Case /\ lastClosed' \in Time /\ overran' \in BOOLEAN
      BY <3>0, <3>1, <3>2, <3>3, AtWrite, StoreType
    <3>5. QED BY <1>1, <2>1, <2>2, <2>3, <3>3, <3>4, AnswerTypeInv DEF TypeInv, TypeOK
  <2>5. CASE op[h].kind # "reply"
    <3>1. UNCHANGED <<row, lastClosed, known, overran>> BY <1>4, <2>5 DEF Post, history
    <3>2. QED BY <1>1, <2>1, <2>2, <2>3, <3>1, AnswerTypeInv DEF TypeInv, TypeOK
  <2>6. QED BY <2>4, <2>5
<1>5. CASE DeadlockDetected(h)
  <2>1. UNCHANGED <<row, request, thread, locked, doomed, now, lastClosed, known, overran>>
        /\ sharing' = sharing \ {h} /\ reqLocked' \in {reqLocked, None} /\ Answer(h, "aborted")
    BY <1>5 DEF DeadlockDetected, db, history
  <2>2. QED BY <1>1, <2>1, AnswerTypeInv DEF TypeInv, TypeOK
<1>6. QED BY <1>2, <1>3, <1>4, <1>5

LEMMA JobTypeInv ==
    ASSUME TypeInv, RetentionJob \/ Tick
    PROVE  TypeInv'
<1> USE DEF RetentionJob, SelectExpired, LockExpired, EraseExpired, JobAborted, Tick
<1>1. UNCHANGED <<sharing, reqLocked, pc, op, snap, latest, lastClosed, known, overran>>
  BY DEF locks, work, history
<1>2. row' \in {row, None} /\ request' \in {request, None} /\ thread' \in {thread, <<>>}
  BY DEF db, Gone
<1>3. locked' \in {locked, None, Job} BY DEF locks
<1>4. doomed' \in BOOLEAN BY DEF TypeInv, TypeOK
<1>5. now' \in Nat
  <2>1. now' = now \/ now' = now + 1 OBVIOUS
  <2>2. now \in Nat BY DEF TypeInv, TypeOK
  <2>3. QED BY <2>1, <2>2
<1>6. <<>> \in Seq(Message) OBVIOUS
<1>7. TypeOK' BY <1>1, <1>2, <1>3, <1>4, <1>5, <1>6 DEF TypeInv, TypeOK
<1>8. ASSUME NEW g \in Handlers PROVE Underway(g)'
  BY <1>1 DEF TypeInv, Underway, Asked, May, MayAccess, MayReveal, RequireAdmin
<1>9. QED BY <1>7, <1>8 DEF TypeInv

LEMMA StutterTypeInv == ASSUME TypeInv, UNCHANGED vars PROVE TypeInv'
<1>1. TypeOK' BY DEF TypeInv, TypeOK, vars, db, locks, work, history
<1>2. ASSUME NEW g \in Handlers PROVE Underway(g)'
  BY DEF TypeInv, Underway, Asked, May, MayAccess, MayReveal, RequireAdmin, vars, work
<1>3. QED BY <1>1, <1>2 DEF TypeInv

LEMMA InitLockInv == Init => LockInv
BY DEF Init, LockInv

LEMMA NextLockInv ==
    ASSUME TypeInv, LockInv, [Next]_vars
    PROVE  LockInv'
<1>1. CASE UNCHANGED vars BY <1>1 DEF LockInv, vars, db, locks, work
<1>2. ASSUME NEW h \in Handlers, NEW o \in Asked, Load(h, o) PROVE LockInv'
  <2>1. UNCHANGED <<row, thread, locked>> BY <1>2 DEF Load, db, locks
  <2>2. \A g \in Handlers : pc'[g] = "post" => pc[g] = "post"
    BY <1>2 DEF Load, FirstStep, Answer, TypeInv, TypeOK
  <2>3. QED BY <2>1, <2>2 DEF LockInv
<1>3. ASSUME NEW h \in Handlers, LockThread(h) PROVE LockInv'
  <2>1. UNCHANGED <<row, thread>> /\ locked = None BY <1>3 DEF LockThread, db
  <2>2. \A g \in Handlers : pc[g] # "post" BY <2>1, ConstantsAssumption DEF LockInv
  <2>3. CASE row = None
    BY <1>3, <2>1, <2>2, <2>3 DEF LockThread, Answer, LockInv, TypeInv, TypeOK
  <2>4. CASE row # None
    BY <1>3, <2>1, <2>2, <2>4 DEF LockThread, LockInv, TypeInv, TypeOK
  <2>5. QED BY <2>3, <2>4
<1>4. ASSUME NEW h \in Handlers, Post(h) PROVE LockInv'
  <2>1. locked' = None BY <1>4 DEF Post
  <2>2. locked = h BY <1>4 DEF Post, At, LockInv
  <2>3. \A g \in Handlers : pc'[g] # "post"
    BY <1>4, <2>2 DEF Post, Answer, LockInv, TypeInv, TypeOK
  <2>4. thread' # <<>> BY <1>4, SentAtNat DEF Post, TypeInv, TypeOK, Message
  <2>5. QED BY <2>1, <2>3, <2>4 DEF LockInv
<1>5. ASSUME NEW h \in Handlers, Write(h) PROVE LockInv'
  <2>1. locked' = None /\ thread' = thread /\ (row = None => row' = None)
    BY <1>5 DEF Write, locks
  <2>2. \A g \in Handlers : pc'[g] # "post"
    BY <1>5, ConstantsAssumption DEF Write, Answer, LockInv, TypeInv, TypeOK
  <2>3. QED BY <2>1, <2>2 DEF LockInv
<1>6. ASSUME NEW h \in Handlers,
             \/ RequestDeletion(h) \/ CancelDeletion(h) \/ LogWithdrawal(h)
             \/ AuditReply(h) \/ DeadlockDetected(h) \/ LockRequest(h)
      PROVE  LockInv'
  <2>1. UNCHANGED <<row, thread, locked>>
    BY <1>6 DEF RequestDeletion, CancelDeletion, LogWithdrawal, AuditReply,
                DeadlockDetected, LockRequest, db, locks
  <2>2. \A g \in Handlers : pc'[g] = "post" => pc[g] = "post"
    BY <1>6 DEF RequestDeletion, CancelDeletion, LogWithdrawal, AuditReply,
                DeadlockDetected, LockRequest,
                Answer, Step, TypeInv, TypeOK
  <2>3. QED BY <2>1, <2>2 DEF LockInv
<1>7. ASSUME NEW h \in Handlers, ConfirmDeletion(h) PROVE LockInv'
  <2>1. locked' = None /\ row' = None BY <1>7 DEF ConfirmDeletion, Gone
  <2>2. \A g \in Handlers : pc'[g] # "post"
    BY <1>7, ConstantsAssumption DEF ConfirmDeletion, Answer, LockInv, TypeInv, TypeOK
  <2>3. QED BY <2>1, <2>2 DEF LockInv
<1>8. CASE SelectExpired \/ Tick
  BY <1>8 DEF SelectExpired, Tick, LockInv, db, locks, work
<1>9. CASE LockExpired
  BY <1>9, ConstantsAssumption DEF LockExpired, LockInv, db, work
<1>10. CASE EraseExpired \/ JobAborted
  BY <1>10, ConstantsAssumption DEF EraseExpired, JobAborted, JobCrosses, Gone, LockInv, db, work
<1>11. QED BY <1>1, <1>2, <1>3, <1>4, <1>5, <1>6, <1>7, <1>8, <1>9, <1>10
       DEF Next, Handler, RetentionJob

LEMMA NextTypeInv == TypeInv /\ LockInv /\ [Next]_vars => TypeInv'
BY LoadTypeInv, WriteTypeInv, DeletionTypeInv, ReplyTypeInv, JobTypeInv, StutterTypeInv
DEF Next, Handler

LEMMA BasicInv == Spec => [](TypeInv /\ LockInv)
<1>1. Init => TypeInv /\ LockInv BY InitTypeInv, InitLockInv
<1>2. TypeInv /\ LockInv /\ [Next]_vars => (TypeInv /\ LockInv)' BY NextTypeInv, NextLockInv
<1>3. QED BY <1>1, <1>2, PTL DEF Spec

\* The case's rows, locks and every handler's locals keep their types, whatever
\* the numbers of handlers and accounts and however their writes overlap.
THEOREM CaseTypeCorrect == Spec => []TypeOK
<1>1. TypeInv /\ LockInv => TypeOK BY DEF TypeInv
<1>2. QED BY <1>1, BasicInv, PTL

----------------------------------------------------------------------------
(* The order of a thread *)

\* Who posts has read the time of the thread's last message, and nobody has
\* posted since.
ThreadInv == ThreadOrdered /\ \A h \in Handlers : pc[h] = "post" => latest[h] = LastTime

LEMMA InitThreadInv == Init => ThreadInv
<1> SUFFICES ASSUME Init PROVE ThreadInv OBVIOUS
<1>1. DOMAIN thread = 1..1 BY DEF Init
<1>2. ThreadOrdered BY <1>1 DEF ThreadOrdered
<1>3. \A h \in Handlers : pc[h] # "post" BY DEF Init
<1>4. QED BY <1>2, <1>3 DEF ThreadInv

\* A later message goes to the end of the thread.
LEMMA LaterAppended ==
    ASSUME thread \in Seq(Message), thread # <<>>, ThreadOrdered,
           NEW m \in Message, m.at > LastTime, thread' = Append(thread, m)
    PROVE  ThreadOrdered'
<1>1. Len(thread) \in Nat /\ Len(thread') = Len(thread) + 1
      /\ DOMAIN thread = 1..Len(thread) /\ DOMAIN thread' = 1..(Len(thread) + 1)
  OBVIOUS
<1>2. \A i \in 1..Len(thread) : thread'[i] = thread[i] /\ thread[i] \in Message OBVIOUS
<1>3. thread'[Len(thread) + 1] = m OBVIOUS
<1>4. Len(thread) >= 1 OBVIOUS
<1>5. ASSUME NEW i \in 1..Len(thread) PROVE thread[i].at =< LastTime
  <2>1. CASE i = Len(thread) BY <1>2, <2>1 DEF LastTime, Message
  <2>2. CASE i < Len(thread)
    <3>1. thread[i].at < thread[Len(thread)].at BY <1>1, <1>4, <2>2 DEF ThreadOrdered
    <3>2. thread[i].at \in Nat /\ thread[Len(thread)].at \in Nat BY <1>2, <1>4 DEF Message
    <3>3. QED BY <3>1, <3>2 DEF LastTime
  <2>3. i = Len(thread) \/ i < Len(thread)
    <3>1. Len(thread) \in Nat BY <1>1
    <3>2. i \in Nat /\ i =< Len(thread) BY <3>1
    <3>3. QED BY <3>1, <3>2
  <2>4. QED BY <2>1, <2>2, <2>3
<1>6. ASSUME NEW i \in 1..(Len(thread) + 1), NEW j \in 1..(Len(thread) + 1), i < j
      PROVE  thread'[i].at < thread'[j].at
  <2>1. i \in 1..Len(thread) /\ thread'[i].at = thread[i].at BY <1>1, <1>2, <1>6
  <2>2. CASE j = Len(thread) + 1
    <3>1. thread[i].at \in Nat /\ LastTime \in Nat /\ m.at \in Nat
      BY <1>2, <1>4, <2>1 DEF LastTime, Message
    <3>2. QED BY <1>3, <1>5, <2>1, <2>2, <3>1
  <2>3. CASE j \in 1..Len(thread) BY <1>1, <1>2, <1>6, <2>1, <2>3 DEF ThreadOrdered
  <2>4. QED BY <1>1, <2>2, <2>3
<1>7. QED BY <1>1, <1>6 DEF ThreadOrdered

LEMMA NextThreadInv ==
    ASSUME TypeInv, LockInv, ThreadInv, [Next]_vars
    PROVE  ThreadInv'
<1>1. CASE UNCHANGED vars BY <1>1 DEF ThreadInv, ThreadOrdered, LastTime, vars, db, work
<1>2. ASSUME NEW h \in Handlers, NEW o \in Asked, Load(h, o) PROVE ThreadInv'
  <2>1. thread' = thread BY <1>2 DEF Load, db
  <2>2. \A g \in Handlers : pc'[g] = "post" => pc[g] = "post" /\ latest'[g] = latest[g]
    BY <1>2 DEF Load, FirstStep, Answer, TypeInv, TypeOK
  <2>3. QED BY <2>1, <2>2 DEF ThreadInv, ThreadOrdered, LastTime
<1>3. ASSUME NEW h \in Handlers, LockThread(h) PROVE ThreadInv'
  <2>1. thread' = thread BY <1>3 DEF LockThread, db
  <2>2. \A g \in Handlers \ {h} : pc'[g] = "post" => pc[g] = "post" /\ latest'[g] = latest[g]
    BY <1>3 DEF LockThread, Answer, TypeInv, TypeOK
  <2>3. pc'[h] = "post" => latest'[h] = LastTime
    BY <1>3 DEF LockThread, Answer, TypeInv, TypeOK
  <2>4. QED BY <2>1, <2>2, <2>3 DEF ThreadInv, ThreadOrdered, LastTime
<1>4. ASSUME NEW h \in Handlers, Post(h) PROVE ThreadInv'
  <2> DEFINE m == [sender |-> IF op[h].kind = "reply" THEN "office" ELSE "reporter",
                   at     |-> SentAt(h)]
  <2>1. locked = h /\ row # None /\ thread # <<>> /\ latest[h] = LastTime
    BY <1>4, ConstantsAssumption DEF Post, At, LockInv, ThreadInv
  <2>2. m \in Message /\ m.at > LastTime BY <2>1, SentAtNat DEF Message
  <2>3. thread' = Append(thread, m) BY <1>4 DEF Post
  <2>4. ThreadOrdered' BY <2>1, <2>2, <2>3, LaterAppended DEF ThreadInv, TypeInv, TypeOK
  <2>5. \A g \in Handlers : pc'[g] # "post"
    BY <1>4, <2>1 DEF Post, Answer, LockInv, TypeInv, TypeOK
  <2>6. QED BY <2>4, <2>5 DEF ThreadInv
<1>5. ASSUME NEW h \in Handlers,
             \/ Write(h) \/ RequestDeletion(h) \/ CancelDeletion(h) \/ LogWithdrawal(h)
             \/ AuditReply(h) \/ DeadlockDetected(h) \/ LockRequest(h)
      PROVE  ThreadInv'
  <2>1. thread' = thread
    BY <1>5 DEF Write, RequestDeletion, CancelDeletion, LogWithdrawal, AuditReply,
                DeadlockDetected, LockRequest, db
  <2>2. \A g \in Handlers : pc'[g] = "post" => pc[g] = "post" /\ latest'[g] = latest[g]
    BY <1>5 DEF Write, RequestDeletion, CancelDeletion, LogWithdrawal, AuditReply,
                DeadlockDetected, LockRequest,
                Answer, Step, TypeInv, TypeOK
  <2>3. QED BY <2>1, <2>2 DEF ThreadInv, ThreadOrdered, LastTime
<1>6. ASSUME NEW h \in Handlers, ConfirmDeletion(h) PROVE ThreadInv'
  <2>1. thread' = <<>> BY <1>6 DEF ConfirmDeletion, Gone
  <2>2. \A g \in Handlers : pc'[g] # "post"
    BY <1>6, ConstantsAssumption DEF ConfirmDeletion, Answer, LockInv, TypeInv, TypeOK
  <2>3. QED BY <2>1, <2>2 DEF ThreadInv, ThreadOrdered
<1>7. CASE SelectExpired \/ LockExpired \/ JobAborted \/ Tick
  BY <1>7 DEF SelectExpired, LockExpired, JobAborted, Tick, ThreadInv, ThreadOrdered, LastTime, db, work
<1>8. CASE EraseExpired
  <2>1. thread' = <<>> /\ \A g \in Handlers : pc'[g] # "post"
    BY <1>8, ConstantsAssumption DEF EraseExpired, Gone, LockInv, work
  <2>2. QED BY <2>1 DEF ThreadInv, ThreadOrdered
<1>9. QED BY <1>1, <1>2, <1>3, <1>4, <1>5, <1>6, <1>7, <1>8 DEF Next, Handler, RetentionJob

\* Two messages of a case never tie and never swap: _next_sent_at's lock and
\* its "just after the last one" suffice for any number of senders.
THEOREM ThreadCorrect == Spec => []ThreadOrdered
<1>1. Init => ThreadInv BY InitThreadInv
<1>2. TypeInv /\ LockInv /\ ThreadInv /\ [Next]_vars => ThreadInv' BY NextThreadInv
<1>3. ThreadInv => ThreadOrdered BY DEF ThreadInv
<1>4. QED BY <1>1, <1>2, <1>3, BasicInv, PTL DEF Spec

----------------------------------------------------------------------------
(* Four eyes *)

\* Who is about to delete holds the request, and the two people are two.
RequestInv ==
    \A h \in Handlers : pc[h] = "erase" =>
        reqLocked = h /\ request # None /\ TwoPairsOfEyes(request.by, op[h].by)

LEMMA InitRequestInv == Init => RequestInv
BY DEF Init, RequestInv

LEMMA NextRequestInv ==
    ASSUME TypeInv, RequestInv, [Next]_vars
    PROVE  RequestInv'
<1>1. CASE UNCHANGED vars BY <1>1 DEF RequestInv, vars, db, locks, work
<1>2. ASSUME NEW h \in Handlers, NEW o \in Asked, Load(h, o) PROVE RequestInv'
  <2>1. UNCHANGED <<request, reqLocked>> BY <1>2 DEF Load, db, locks
  <2>2. \A g \in Handlers : pc'[g] = "erase" => pc[g] = "erase" /\ op'[g] = op[g]
    BY <1>2 DEF Load, FirstStep, Answer, TypeInv, TypeOK
  <2>3. QED BY <2>1, <2>2 DEF RequestInv
<1>3. ASSUME NEW h \in Handlers,
             \/ Write(h) \/ AuditReply(h) \/ LockThread(h) \/ Post(h) \/ DeadlockDetected(h)
      PROVE  RequestInv'
  <2>1. request' = request /\ (reqLocked' = reqLocked \/ (reqLocked = h /\ pc'[h] = "aborted"))
    BY <1>3 DEF Write, AuditReply, LockThread, Post, DeadlockDetected, Answer, db, locks, TypeInv, TypeOK
  <2>2. \A g \in Handlers : pc'[g] = "erase" => pc[g] = "erase" /\ op'[g] = op[g]
    BY <1>3 DEF Write, AuditReply, LockThread, Post, DeadlockDetected, Answer, Step, TypeInv, TypeOK
  <2>3. QED BY <2>1, <2>2 DEF RequestInv
<1>4. ASSUME NEW h \in Handlers, RequestDeletion(h) PROVE RequestInv'
  <2>1. reqLocked' = reqLocked /\ (request # None => request' = request)
    BY <1>4 DEF RequestDeletion, locks
  <2>2. \A g \in Handlers : pc'[g] = "erase" => pc[g] = "erase" /\ op'[g] = op[g]
    BY <1>4 DEF RequestDeletion, Answer, TypeInv, TypeOK
  <2>3. QED BY <2>1, <2>2 DEF RequestInv
<1>5. ASSUME NEW h \in Handlers, CancelDeletion(h) \/ LogWithdrawal(h) PROVE RequestInv'
  <2>1. CASE UNCHANGED <<request, reqLocked>>
    <3>1. \A g \in Handlers : pc'[g] = "erase" => pc[g] = "erase" /\ op'[g] = op[g]
      BY <1>5 DEF CancelDeletion, LogWithdrawal, Answer, Step, TypeInv, TypeOK
    <3>2. QED BY <2>1, <3>1 DEF RequestInv
  <2>2. CASE ~UNCHANGED <<request, reqLocked>>
    <3>1. (CancelDeletion(h) /\ reqLocked = None) \/ (LogWithdrawal(h) /\ reqLocked = h)
      BY <1>5, <2>2 DEF CancelDeletion, LogWithdrawal, db
    <3>2. \A g \in Handlers : pc[g] # "erase"
      BY <3>1, ConstantsAssumption DEF LogWithdrawal, At, RequestInv
    <3>3. \A g \in Handlers : pc'[g] # "erase"
      BY <1>5, <3>2 DEF CancelDeletion, LogWithdrawal, Answer, Step, TypeInv, TypeOK
    <3>4. QED BY <3>3 DEF RequestInv
  <2>3. QED BY <2>1, <2>2
<1>6. ASSUME NEW h \in Handlers, LockRequest(h) PROVE RequestInv'
  <2>1. \A g \in Handlers : pc[g] # "erase"
    BY <1>6, ConstantsAssumption DEF LockRequest, RequestInv
  <2>2. request' = request BY <1>6 DEF LockRequest, db
  <2>3. CASE request # None /\ TwoPairsOfEyes(request.by, op[h].by)
    <3>1. Step(h, "erase") /\ reqLocked' = h BY <1>6, <2>3 DEF LockRequest
    <3>2. op' = op /\ \A g \in Handlers : pc'[g] = "erase" => g = h
      BY <2>1, <3>1 DEF Step, TypeInv, TypeOK
    <3>3. QED BY <2>2, <2>3, <3>1, <3>2 DEF RequestInv
  <2>4. CASE ~(request # None /\ TwoPairsOfEyes(request.by, op[h].by))
    <3>1. Answer(h, "refused") BY <1>6, <2>4 DEF LockRequest
    <3>2. \A g \in Handlers : pc'[g] # "erase" BY <2>1, <3>1 DEF Answer, TypeInv, TypeOK
    <3>3. QED BY <3>2 DEF RequestInv
  <2>5. QED BY <2>3, <2>4
<1>7. ASSUME NEW h \in Handlers, ConfirmDeletion(h) PROVE RequestInv'
  <2>1. reqLocked = h BY <1>7 DEF ConfirmDeletion, At, RequestInv
  <2>2. \A g \in Handlers : pc'[g] # "erase"
    BY <1>7, <2>1 DEF ConfirmDeletion, Answer, RequestInv, TypeInv, TypeOK
  <2>3. QED BY <2>2 DEF RequestInv
<1>8. CASE SelectExpired \/ LockExpired \/ JobAborted \/ Tick
  BY <1>8 DEF SelectExpired, LockExpired, JobAborted, Tick, RequestInv, db, locks, work
<1>9. CASE EraseExpired
  BY <1>9, ConstantsAssumption DEF EraseExpired, RequestInv, work
<1>10. QED BY <1>1, <1>2, <1>3, <1>4, <1>5, <1>6, <1>7, <1>8, <1>9 DEF Next, Handler, RetentionJob

\* A deletion on request is carried out only while the request stands, and by
\* somebody who neither made it nor is tied to whoever did: the lock confirm_delete
\* takes keeps a withdrawal, and a second request, out until it is done.
THEOREM FourEyesCorrect == Spec => FourEyes
<1>1. Init => RequestInv BY InitRequestInv
<1>2. TypeInv /\ LockInv /\ RequestInv /\ [Next]_vars => RequestInv' BY NextRequestInv
<1>3. RequestInv =>
        \A h \in Handlers : At(h, "erase") /\ row # None /\ row' = None /\ pc'[h] = "ok" =>
            request # None /\ TwoPairsOfEyes(request.by, op[h].by)
  BY DEF RequestInv, At
<1>4. QED BY <1>1, <1>2, <1>3, BasicInv, PTL DEF Spec, FourEyes

----------------------------------------------------------------------------
(* What the UPDATE leaves of a case *)

\* Writes without a write in between: the row is what the service made of it.
LEMMA FlushedSame ==
    ASSUME row \in Case, NEW n \in Case
    PROVE  Flushed(row, n) = n
BY DEF Flushed, Case

\* A case that is gone does not come back.
LEMMA GoneForGood ==
    ASSUME TypeInv, LockInv, [Next]_vars, row = None
    PROVE  row' = None
<1>1. ASSUME NEW h \in Handlers, Post(h) PROVE row' = None
  BY <1>1, ConstantsAssumption DEF Post, At, LockInv
<1>2. ASSUME NEW h \in Handlers, Write(h) PROVE row' = None
  BY <1>2 DEF Write
<1>3. QED BY <1>1, <1>2 DEF Next, Handler, vars, db, Load, RequestDeletion, CancelDeletion, LogWithdrawal,
      AuditReply, LockThread, DeadlockDetected, LockRequest, ConfirmDeletion, RetentionJob, SelectExpired,
      LockExpired, EraseExpired, JobAborted, Tick, Gone

\* The row changes by a service's write, by an office reply, or not at all.
LEMMA RowSteps ==
    ASSUME TypeInv, LockInv, [Next]_vars, row' # None
    PROVE  \/ UNCHANGED <<row, lastClosed, overran>>
           \/ \E h \in Handlers : Write(h) /\ row # None
           \/ \E h \in Handlers : Post(h) /\ op[h].kind = "reply" /\ row # None
<1>0. row # None BY GoneForGood
<1>1. ASSUME NEW h \in Handlers, Post(h)
      PROVE  op[h].kind = "reply" \/ UNCHANGED <<row, lastClosed, overran>>
  BY <1>1 DEF Post, history
<1>2. QED BY <1>0, <1>1 DEF Next, Handler, vars, db, history, Load, RequestDeletion, CancelDeletion,
      LogWithdrawal, AuditReply, LockThread, DeadlockDetected, LockRequest, ConfirmDeletion, RetentionJob,
      SelectExpired, LockExpired, EraseExpired, JobAborted, Tick, Gone

----------------------------------------------------------------------------
(* The retention clock *)

\* As long as no write overran another: an open case has no time of closure, and
\* a case that has one got it at its last closure.
ClockInv ==
    ~overran /\ row # None =>
        /\ row.status # "closed" => row.closed = None
        /\ row.closed # None => row.closed = lastClosed

LEMMA InitClockInv == Init => ClockInv
BY DEF Init, ClockInv

LEMMA NextClockInv ==
    ASSUME TypeInv, LockInv, ClockInv, [Next]_vars
    PROVE  ClockInv'
<1> SUFFICES ASSUME ~overran', row' # None PROVE ClockInv' BY DEF ClockInv
<1>1. CASE UNCHANGED <<row, lastClosed, overran>> BY <1>1 DEF ClockInv
<1>2. ASSUME NEW h \in Handlers, Write(h), row # None PROVE ClockInv'
  <2> DEFINE n == Changed(op[h], row)
  <2>1. Store(snap[h].row, Changed(op[h], snap[h].row)) BY <1>2 DEF Write
  <2>2. ~overran /\ snap[h].row = row BY <2>1 DEF Store, TypeInv, TypeOK
  <2>3. pc[h] \in Steps BY <1>2 DEF Write, At, Steps
  <2>4. op[h] \in Asked /\ row \in Case /\ May(op[h], row, snap[h].request)
    BY <2>2, <2>3 DEF TypeInv, Underway
  <2>5. n \in Case BY <2>4, ChangedCase DEF TypeInv, TypeOK
  <2>6. row' = n BY <2>1, <2>2, <2>4, <2>5, FlushedSame DEF Store
  <2>7. lastClosed' = IF row.status # "closed" /\ n.status = "closed" THEN now ELSE lastClosed
    BY <2>1, <2>6 DEF Store
  <2>8. CASE op[h].kind = "status"
    <3>1. row.status \in Statuses /\ op[h].to \in Transitions[row.status]
      BY <2>4, <2>8 DEF May, Case
    <3>2. op[h].to # row.status BY <3>1 DEF Transitions, Statuses
    <3>3. n = WithStatus(row, op[h].to) BY <2>8 DEF Changed
    <3>4. n.status = op[h].to BY <2>4, <3>3 DEF WithStatus, Case
    <3>5. n.closed = IF op[h].to # "closed" THEN None ELSE IF row.closed = None THEN now ELSE row.closed
      BY <2>4, <3>3 DEF WithStatus, Case
    <3>6. QED BY <1>2, <2>2, <2>6, <2>7, <3>2, <3>4, <3>5 DEF ClockInv
  <2>9. CASE op[h].kind # "status"
    <3>1. n.closed = row.closed /\ (n.status = "closed" <=> row.status = "closed")
          /\ (n.status # "closed" => row.status # "closed")
      BY <2>4, <2>9 DEF Changed, Acknowledged, Taken, Case
    <3>2. QED BY <1>2, <2>2, <2>6, <2>7, <3>1 DEF ClockInv
  <2>10. QED BY <2>8, <2>9
<1>3. ASSUME NEW h \in Handlers, Post(h), op[h].kind = "reply", row # None PROVE ClockInv'
  <2> DEFINE n == WithFeedback(row, SentAt(h))
  <2>1. Store(snap[h].row, WithFeedback(snap[h].row, SentAt(h))) BY <1>3 DEF Post
  <2>2. ~overran /\ snap[h].row = row BY <2>1 DEF Store, TypeInv, TypeOK
  <2>3. row \in Case BY <1>3 DEF TypeInv, TypeOK
  <2>4. n \in Case /\ n.status = row.status /\ n.closed = row.closed
    BY <2>3, SentAtNat DEF WithFeedback, Case, Time
  <2>5. row' = n BY <2>1, <2>2, <2>3, <2>4, FlushedSame DEF Store
  <2>6. lastClosed' = lastClosed BY <2>1, <2>4, <2>5 DEF Store
  <2>7. QED BY <1>3, <2>2, <2>4, <2>5, <2>6 DEF ClockInv
<1>4. QED BY <1>1, <1>2, <1>3, RowSteps

\* Where every write was made on the row as it was loaded, update_report_status
\* keeps the clock at the last closure, and what retention selects was due.
THEOREM RetentionClockCorrect == Spec => RetentionClockSerial
<1>1. Init => ClockInv BY InitClockInv
<1>2. TypeInv /\ LockInv /\ ClockInv /\ [Next]_vars => ClockInv' BY NextClockInv
<1>3. ASSUME TypeInv, ClockInv, Next, doomed', ~doomed, ~overran
      PROVE  lastClosed + Retention < now
  <2>1. SelectExpired
    BY <1>3 DEF Next, Handler, Load, Write, RequestDeletion, CancelDeletion, LogWithdrawal, AuditReply,
       LockThread, Post, DeadlockDetected, LockRequest, ConfirmDeletion, RetentionJob, LockExpired, EraseExpired, JobAborted, Tick
  <2>2. QED BY <1>3, <2>1 DEF SelectExpired, ClockInv
<1>4. TypeInv /\ LockInv /\ ClockInv /\ [Next]_vars =>
        [doomed' /\ ~doomed /\ ~overran => lastClosed + Retention < now]_vars
  BY <1>3
<1>5. QED BY <1>1, <1>2, <1>4, BasicInv, PTL DEF Spec, RetentionClockSerial

----------------------------------------------------------------------------
(* What counts as feedback *)

\* What a handler saw acknowledged still is.
AckInv ==
    \A h \in Handlers :
        pc[h] \in Steps /\ row # None /\ snap[h].row.acknowledged # None => row.acknowledged # None

FeedbackInv == FeedbackIsAMessage /\ AckInv

LEMMA InitFeedbackInv == Init => FeedbackInv
BY DEF Init, FeedbackInv, FeedbackIsAMessage, AckInv, Steps

\* An acknowledgement is never taken back, whoever writes the row.
LEMMA AckKept ==
    ASSUME TypeInv, LockInv, [Next]_vars, row' # None, row.acknowledged # None
    PROVE  row'.acknowledged # None
<1>0. row # None /\ row \in Case BY GoneForGood DEF TypeInv, TypeOK
<1>1. CASE UNCHANGED <<row, lastClosed, overran>> BY <1>1
<1>2. ASSUME NEW h \in Handlers, Write(h) PROVE row'.acknowledged # None
  <2>1. snap[h].row \in Case BY <1>2, AtWrite DEF Write, At, Steps
  <2>2. row' = Flushed(snap[h].row, Changed(op[h], snap[h].row)) BY <1>0, <1>2 DEF Write, Store
  <2>3. \/ Changed(op[h], snap[h].row).acknowledged = snap[h].row.acknowledged
        \/ Changed(op[h], snap[h].row).acknowledged = now
    BY <2>1 DEF Changed, Acknowledged, WithStatus, Taken, Case
  <2>4. now # None BY ConstantsAssumption DEF TypeInv, TypeOK
  <2>5. QED BY <2>2, <2>3, <2>4 DEF Flushed
<1>3. ASSUME NEW h \in Handlers, Post(h), op[h].kind = "reply" PROVE row'.acknowledged # None
  <2>1. snap[h].row \in Case BY <1>3, AtWrite DEF Post, At, Steps
  <2>2. row' = Flushed(snap[h].row, WithFeedback(snap[h].row, SentAt(h))) BY <1>3 DEF Post, Store
  <2>3. WithFeedback(snap[h].row, SentAt(h)).acknowledged = snap[h].row.acknowledged
    BY <2>1 DEF WithFeedback, Case
  <2>4. QED BY <2>2, <2>3 DEF Flushed
<1>4. QED BY <1>1, <1>2, <1>3, RowSteps

LEMMA NextAckInv ==
    ASSUME TypeInv, LockInv, AckInv, [Next]_vars
    PROVE  AckInv'
<1> SUFFICES ASSUME NEW g \in Handlers, pc'[g] \in Steps, row' # None,
                    snap'[g].row.acknowledged # None
             PROVE  row'.acknowledged # None
  BY DEF AckInv
<1>0. row # None BY GoneForGood
<1>1. row.acknowledged # None
  <2>1. ASSUME NEW h \in Handlers, NEW o \in Asked, Load(h, o) PROVE row.acknowledged # None
    <3>1. CASE g = h
      <4>1. CASE May(o, row, request)
        BY <1>0, <2>1, <3>1, <4>1 DEF Load, TypeInv, TypeOK
      <4>2. CASE ~May(o, row, request)
        BY <1>0, <2>1, <3>1, <4>2 DEF Load, Answer, TypeInv, TypeOK, Steps
      <4>3. QED BY <4>1, <4>2
    <3>2. CASE g # h
      <4>1. pc'[g] = pc[g] /\ snap'[g] = snap[g] BY <2>1, <3>2 DEF Load, Answer, TypeInv, TypeOK
      <4>2. QED BY <1>0, <4>1 DEF AckInv
    <3>3. QED BY <3>1, <3>2
  <2>2. ASSUME NEW h \in Handlers, Handler(h) PROVE row.acknowledged # None
    <3>1. pc[g] \in Steps /\ snap'[g] = snap[g]
      BY <2>2 DEF Handler, Write, RequestDeletion, CancelDeletion, LogWithdrawal, AuditReply, LockThread, Post,
         DeadlockDetected, LockRequest, ConfirmDeletion, Answer, Step, At, TypeInv, TypeOK, Steps
    <3>2. QED BY <1>0, <3>1 DEF AckInv
  <2>3. CASE RetentionJob \/ Tick \/ UNCHANGED vars
    BY <1>0, <2>3 DEF AckInv, RetentionJob, SelectExpired, LockExpired, EraseExpired, JobAborted, Tick,
       vars, work
  <2>4. QED BY <2>1, <2>2, <2>3 DEF Next
<1>2. QED BY <1>1, AckKept

LEMMA NextFeedback ==
    ASSUME TypeInv, LockInv, FeedbackInv, [Next]_vars
    PROVE  FeedbackIsAMessage'
<1> SUFFICES ASSUME row' # None, row'.feedback # None
             PROVE  /\ row'.acknowledged # None
                    /\ \E i \in DOMAIN thread' : thread'[i] = [sender |-> "office", at |-> row'.feedback]
  BY DEF FeedbackIsAMessage
<1>0. row # None /\ row \in Case BY GoneForGood DEF TypeInv, TypeOK
<1>1. \A i \in DOMAIN thread : i \in DOMAIN thread' /\ thread'[i] = thread[i]
  <2>1. \/ thread' = thread
        \/ \E m \in Message : thread' = Append(thread, m)
    <3>1. ASSUME NEW h \in Handlers, Post(h) PROVE \E m \in Message : thread' = Append(thread, m)
      BY <3>1, SentAtNat DEF Post, Message
    <3>2. QED BY <3>1 DEF Next, Handler, vars, db, Load, Write, RequestDeletion, CancelDeletion, LogWithdrawal,
          AuditReply, LockThread, DeadlockDetected, LockRequest, ConfirmDeletion, SelectExpired,
          RetentionJob, LockExpired, EraseExpired, JobAborted, Tick, Gone
  <2>2. thread \in Seq(Message) BY DEF TypeInv, TypeOK
  <2>3. QED BY <2>1, <2>2
<1>2. CASE row'.feedback = row.feedback
  <2>1. row.acknowledged # None /\ \E i \in DOMAIN thread : thread[i] = [sender |-> "office", at |-> row.feedback]
    BY <1>0, <1>2 DEF FeedbackInv, FeedbackIsAMessage
  <2>2. QED BY <1>1, <1>2, <2>1, AckKept
<1>3. ASSUME NEW h \in Handlers, Write(h) PROVE row'.feedback = row.feedback
  <2>1. snap[h].row \in Case BY <1>3, AtWrite DEF Write, At, Steps
  <2>2. row' = Flushed(snap[h].row, Changed(op[h], snap[h].row)) BY <1>0, <1>3 DEF Write, Store
  <2>3. Changed(op[h], snap[h].row).feedback = snap[h].row.feedback
    BY <2>1 DEF Changed, Acknowledged, WithStatus, Taken, Case
  <2>4. QED BY <2>2, <2>3 DEF Flushed
<1>4. ASSUME NEW h \in Handlers, Post(h), op[h].kind = "reply", row'.feedback # row.feedback
      PROVE  /\ row'.acknowledged # None
             /\ \E i \in DOMAIN thread' : thread'[i] = [sender |-> "office", at |-> row'.feedback]
  <2>1. snap[h].row \in Case /\ pc[h] \in Steps BY <1>4, AtWrite DEF Post, At, Steps
  <2>2. row' = Flushed(snap[h].row, WithFeedback(snap[h].row, SentAt(h))) BY <1>4 DEF Post, Store
  <2>3. snap[h].row.acknowledged # None /\ row'.feedback = SentAt(h)
    BY <1>4, <2>1, <2>2 DEF Flushed, WithFeedback, Case
  <2>4. row.acknowledged # None BY <1>0, <2>1, <2>3 DEF FeedbackInv, AckInv
  <2>5. thread' = Append(thread, [sender |-> "office", at |-> SentAt(h)]) BY <1>4 DEF Post
  <2>6. [sender |-> "office", at |-> SentAt(h)] \in Message BY SentAtNat DEF Message
  <2>7. thread \in Seq(Message) BY DEF TypeInv, TypeOK
  <2>8. Len(thread) + 1 \in DOMAIN thread'
        /\ thread'[Len(thread) + 1] = [sender |-> "office", at |-> SentAt(h)]
    BY <2>5, <2>6, <2>7
  <2>9. QED BY <2>3, <2>4, <2>8, AckKept
<1>5. QED BY <1>2, <1>3, <1>4, RowSteps

\* Whatever was loaded before and written after it: the feedback a case shows
\* is an office message of its thread, sent to an acknowledged case.
THEOREM FeedbackCorrect == Spec => []FeedbackIsAMessage
<1>1. Init => FeedbackInv BY InitFeedbackInv
<1>2. TypeInv /\ LockInv /\ FeedbackInv /\ [Next]_vars => FeedbackInv'
  BY NextFeedback, NextAckInv DEF FeedbackInv
<1>3. FeedbackInv => FeedbackIsAMessage BY DEF FeedbackInv
<1>4. QED BY <1>1, <1>2, <1>3, BasicInv, PTL DEF Spec

----------------------------------------------------------------------------
(* Locks *)

\* Who holds a lock is on the way to the step that releases it, and nobody holds
\* the key share of a case that is gone, or that the job has deleted.
HoldersGoOn ==
    /\ locked \in Handlers => pc[locked] = "post"
    /\ locked = Job => doomed /\ sharing = {}
    /\ \A h \in sharing : pc[h] \in {"lock", "post"}
    /\ reqLocked # None => pc[reqLocked] \in {"erase", "withdrawn"}
    /\ sharing # {} => row # None

LEMMA InitHoldersGoOn == Init => HoldersGoOn
BY ConstantsAssumption DEF Init, HoldersGoOn

LEMMA LockTypes ==
    ASSUME TypeInv
    PROVE  /\ locked \in Handlers \cup {None, Job} /\ reqLocked \in Handlers \cup {None}
           /\ sharing \subseteq Handlers
           /\ None \notin Handlers /\ Job \notin Handlers /\ Job # None
BY ConstantsAssumption DEF TypeInv, TypeOK

\* A step that takes and releases no lock, of a handler that holds none.
LEMMA NoLockTaken ==
    ASSUME TypeInv, HoldersGoOn, UNCHANGED <<locks, doomed>>, row' = row \/ row' # None,
           NEW h \in Handlers, pc[h] \notin {"lock", "post", "erase", "withdrawn"},
           \A g \in Handlers \ {h} : pc'[g] = pc[g]
    PROVE  HoldersGoOn'
<1>1. locked # h /\ h \notin sharing /\ reqLocked # h BY LockTypes DEF HoldersGoOn
<1>2. QED BY <1>1, LockTypes DEF HoldersGoOn, locks

\* With its answer a handler releases what it holds.
LEMMA LocksReleased ==
    ASSUME TypeInv, HoldersGoOn, NEW h \in Handlers, NEW a \in Answers, Answer(h, a),
           sharing' = sharing \ {h},
           reqLocked' = IF reqLocked = h THEN None ELSE reqLocked,
           locked' = IF locked = h THEN None ELSE locked,
           doomed' = doomed, row' = row \/ row' # None
    PROVE  HoldersGoOn'
<1>1. \A g \in Handlers \ {h} : pc'[g] = pc[g] BY AnswerTypeInv
<1>2. QED BY <1>1, LockTypes DEF HoldersGoOn

\* What a handler writes on a case is a case.
LEMMA WritesKeepCase ==
    ASSUME TypeInv, NEW h \in Handlers, Write(h) \/ Post(h), row # None
    PROVE  row' # None
<1>1. snap[h].row \in Case /\ op[h] \in Asked BY AtWrite DEF Write, Post, At, Steps
<1>2. Changed(op[h], snap[h].row) \in Case BY <1>1, ChangedCase DEF TypeInv, TypeOK
<1>3. WithFeedback(snap[h].row, SentAt(h)) \in Case BY <1>1, SentAtNat DEF WithFeedback, Case, Time
<1>4. \/ Store(snap[h].row, Changed(op[h], snap[h].row))
      \/ Store(snap[h].row, WithFeedback(snap[h].row, SentAt(h)))
      \/ row' = row
  BY DEF Write, Post
<1>5. QED BY <1>1, <1>2, <1>3, <1>4, StoreType, NoRowAssumption

LEMMA NextHoldersGoOn ==
    ASSUME TypeInv, LockInv, HoldersGoOn, [Next]_vars
    PROVE  HoldersGoOn'
<1>1. CASE UNCHANGED vars \/ SelectExpired \/ Tick
  BY <1>1 DEF HoldersGoOn, SelectExpired, Tick, vars, db, locks, work
<1>2. CASE LockExpired
  BY <1>2, LockTypes DEF HoldersGoOn, LockExpired, db, work
<1>3. CASE EraseExpired \/ JobAborted
  BY <1>3, LockTypes DEF HoldersGoOn, EraseExpired, JobAborted, JobCrosses, db, work
<1>4. ASSUME NEW h \in Handlers, NEW o \in Asked, Load(h, o) PROVE HoldersGoOn'
  <2>1. \A g \in Handlers \ {h} : pc'[g] = pc[g] BY <1>4 DEF Load, Answer, TypeInv, TypeOK
  <2>2. QED BY <1>4, <2>1, NoLockTaken DEF Load, At, db
<1>5. ASSUME NEW h \in Handlers, Write(h) PROVE HoldersGoOn'
  <2>1. \A g \in Handlers \ {h} : pc'[g] = pc[g] BY <1>5 DEF Write, Answer, TypeInv, TypeOK
  <2>2. row' = row \/ row' # None BY <1>5, WritesKeepCase DEF Write
  <2>3. QED BY <1>5, <2>1, <2>2, NoLockTaken DEF Write, At
<1>6. ASSUME NEW h \in Handlers, RequestDeletion(h) PROVE HoldersGoOn'
  <2>1. \A g \in Handlers \ {h} : pc'[g] = pc[g] BY <1>6 DEF RequestDeletion, Answer, TypeInv, TypeOK
  <2>2. QED BY <1>6, <2>1, NoLockTaken DEF RequestDeletion, At
<1>7. ASSUME NEW h \in Handlers, CancelDeletion(h) \/ LockRequest(h) PROVE HoldersGoOn'
  <2>1. locked # h /\ h \notin sharing
    BY <1>7 DEF CancelDeletion, LockRequest, At, HoldersGoOn
  <2>2. \A g \in Handlers \ {h} : pc'[g] = pc[g]
    BY <1>7 DEF CancelDeletion, LockRequest, Answer, Step, TypeInv, TypeOK
  <2>3. reqLocked' = None \/ (reqLocked' = h /\ pc'[h] \in {"erase", "withdrawn"})
    BY <1>7 DEF CancelDeletion, LockRequest, Step, TypeInv, TypeOK
  <2>4. QED BY <1>7, <2>1, <2>2, <2>3, LockTypes DEF CancelDeletion, LockRequest, HoldersGoOn, db
<1>8. ASSUME NEW h \in Handlers, LogWithdrawal(h) PROVE HoldersGoOn'
  <2>1. locked # h /\ h \notin sharing BY <1>8 DEF LogWithdrawal, At, HoldersGoOn
  <2>2. PICK a \in Answers : Answer(h, a) BY <1>8 DEF LogWithdrawal, Answers
  <2>3. QED BY <1>8, <2>1, <2>2, LocksReleased DEF LogWithdrawal
<1>9. ASSUME NEW h \in Handlers, AuditReply(h) PROVE HoldersGoOn'
  <2>1. CASE row = None
    <3>1. \A g \in Handlers \ {h} : pc'[g] = pc[g]
      BY <1>9, <2>1 DEF AuditReply, Answer, TypeInv, TypeOK
    <3>2. QED BY <1>9, <2>1, <3>1, NoLockTaken DEF AuditReply, At, db, locks
  <2>2. CASE row # None
    <3>1. pc'[h] = "lock" /\ \A g \in Handlers \ {h} : pc'[g] = pc[g]
      BY <1>9, <2>2 DEF AuditReply, Step, TypeInv, TypeOK
    <3>2. reqLocked # h BY <1>9, LockTypes DEF AuditReply, At, HoldersGoOn
    <3>3. QED BY <1>9, <2>2, <3>1, <3>2, LockTypes DEF AuditReply, HoldersGoOn, db
  <2>3. QED BY <2>1, <2>2
<1>10. ASSUME NEW h \in Handlers, LockThread(h) PROVE HoldersGoOn'
  <2>1. reqLocked # h BY <1>10, LockTypes DEF LockThread, At, HoldersGoOn
  <2>2. CASE row = None
    <3>1. sharing = {} /\ locked = None BY <1>10, <2>2 DEF LockThread, HoldersGoOn
    <3>2. \A g \in Handlers \ {h} : pc'[g] = pc[g]
      BY <1>10, <2>2 DEF LockThread, Answer, TypeInv, TypeOK
    <3>3. QED BY <1>10, <2>1, <2>2, <3>1, <3>2, LockTypes DEF LockThread, HoldersGoOn, db
  <2>3. CASE row # None
    <3>1. pc'[h] = "post" /\ \A g \in Handlers \ {h} : pc'[g] = pc[g]
      BY <1>10, <2>3 DEF LockThread, TypeInv, TypeOK
    <3>2. QED BY <1>10, <2>1, <2>3, <3>1, LockTypes DEF LockThread, HoldersGoOn, db
  <2>4. QED BY <2>2, <2>3
<1>11. ASSUME NEW h \in Handlers, Post(h) PROVE HoldersGoOn'
  <2>1. row # None /\ locked = h BY <1>11, LockTypes DEF Post, At, LockInv
  <2>2. row' # None BY <1>11, <2>1, WritesKeepCase
  <2>3. reqLocked # h BY <1>11, LockTypes DEF Post, At, HoldersGoOn
  <2>4. QED BY <1>11, <2>1, <2>2, <2>3, LocksReleased DEF Post, Answers
<1>12. ASSUME NEW h \in Handlers, DeadlockDetected(h) PROVE HoldersGoOn'
  <2>1. pc[h] # "post" BY <1>12, LockTypes DEF DeadlockDetected, RepliesCross, JobCrosses, At, HoldersGoOn
  <2>2. locked # h BY <2>1 DEF HoldersGoOn
  <2>3. QED BY <1>12, <2>2, LocksReleased DEF DeadlockDetected, Answers, db
<1>13. ASSUME NEW h \in Handlers, ConfirmDeletion(h) PROVE HoldersGoOn'
  BY <1>13, LockTypes DEF ConfirmDeletion, HoldersGoOn
<1>14. QED BY <1>1, <1>2, <1>3, <1>4, <1>5, <1>6, <1>7, <1>8, <1>9, <1>10, <1>11, <1>12, <1>13
       DEF Next, Handler, RetentionJob

\* Who waits, waits for a holder of the case, of its key share or of the request;
\* each of them is under way.
LEMMA BlockersAct ==
    ASSUME TypeInv, HoldersGoOn, NEW x \in Actors
    PROVE  /\ Blockers(x) \subseteq {locked, reqLocked} \cup sharing
           /\ Blockers(x) \subseteq Actors
<1>1. Blockers(x) \subseteq ({locked, reqLocked} \cup sharing) \ {None} BY DEF Blockers
<1>2. locked # None => locked \in Actors
  BY LockTypes DEF HoldersGoOn, Actors, InProgress, Steps
<1>3. reqLocked # None => reqLocked \in Actors
  BY LockTypes DEF HoldersGoOn, Actors, InProgress, Steps
<1>4. sharing \subseteq Actors BY LockTypes DEF HoldersGoOn, Actors, InProgress, Steps
<1>5. QED BY <1>1, <1>2, <1>3, <1>4

\* Who posts waits for nobody, who has the key share or the request not for the
\* holder of the request.
LEMMA HoldersWait ==
    ASSUME TypeInv, HoldersGoOn, NEW h \in Handlers
    PROVE  /\ locked = h => Blockers(h) = {}
           /\ h \in sharing => \/ Blockers(h) = {}
                               \/ pc[h] = "lock" /\ Blockers(h) \subseteq {locked} \cup (sharing \ {h})
           /\ reqLocked = h => Blockers(h) \subseteq {locked} \cup sharing
BY LockTypes DEF HoldersGoOn, Blockers

LEMMA RingsCross ==
    ASSUME TypeInv, HoldersGoOn, NEW S \in SUBSET Actors, Ring(S)
    PROVE  Crossing(S)
<1>1. \A x \in S : x \in Handlers \/ x = Job BY DEF Actors, InProgress
<1>2. CASE Job \in S /\ locked = Job
  <2>1. reqLocked # None /\ reqLocked \in S BY <1>2 DEF Ring, Blockers
  <2>2. QED BY <1>2, <2>1 DEF Crossing, JobCrosses
<1>3. CASE ~(Job \in S /\ locked = Job)
  <2>1. locked \notin S BY <1>1, <1>3, LockTypes, HoldersWait DEF Ring
  <2>2. \E z \in S : z \in sharing
    <3>1. PICK x \in S : TRUE BY DEF Ring
    <3>2. PICK y \in S : y \in Blockers(x) BY <3>1 DEF Ring
    <3>3. y \in sharing \/ y = reqLocked BY <2>1, <3>1, <3>2, BlockersAct
    <3>4. CASE y = reqLocked
      <4>1. y \in Handlers BY <1>1, <3>2, <3>4, LockTypes
      <4>2. PICK z \in S : z \in Blockers(y) BY <3>2 DEF Ring
      <4>3. QED BY <2>1, <3>4, <4>1, <4>2, HoldersWait
    <3>5. QED BY <3>2, <3>3, <3>4
  <2>3. ASSUME NEW z \in S, z \in sharing
        PROVE  z \in Handlers /\ pc[z] = "lock" /\ \E w \in S : w \in sharing /\ w # z
    <3>1. z \in Handlers BY <2>3, LockTypes
    <3>2. PICK w \in S : w \in Blockers(z) BY DEF Ring
    <3>3. QED BY <2>1, <2>3, <3>1, <3>2, HoldersWait
  <2>4. PICK g \in S, h \in S : g \in sharing /\ h \in sharing /\ g # h BY <2>2, <2>3
  <2>5. RepliesCross(g, h) BY <2>3, <2>4 DEF RepliesCross, At
  <2>6. QED BY <2>3, <2>4, <2>5 DEF Crossing
<1>4. QED BY <1>2, <1>3

\* However many requests work on a case, with the retention job about to delete
\* it: every ring of waits is that of two replies, or of the job and the holder of
\* the deletion request, which PostgreSQL breaks, and otherwise somebody has its
\* locks; a lock its holder left behind there never is.
THEOREM NobodyStuckCorrect == Spec => [](OnlyKnownRings /\ NobodyStuck)
<1>1. Init => HoldersGoOn BY InitHoldersGoOn
<1>2. TypeInv /\ LockInv /\ HoldersGoOn /\ [Next]_vars => HoldersGoOn' BY NextHoldersGoOn
<1>3. TypeInv /\ HoldersGoOn => OnlyKnownRings BY RingsCross DEF OnlyKnownRings
<1>4. ASSUME TypeInv, HoldersGoOn, Actors # {}, \A x \in Actors : Blockers(x) # {}
      PROVE  Crossing(Actors)
  <2>1. Ring(Actors) BY <1>4, BlockersAct DEF Ring
  <2>2. QED BY <1>4, <2>1, RingsCross
<1>5. TypeInv /\ HoldersGoOn => OnlyKnownRings /\ NobodyStuck BY <1>3, <1>4 DEF NobodyStuck
<1>6. QED BY <1>1, <1>2, <1>5, BasicInv, PTL DEF Spec
=============================================================================
