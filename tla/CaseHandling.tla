---------------------------- MODULE CaseHandling ----------------------------
(***************************************************************************)
(* One case, from receipt to deletion: the office's actions on it          *)
(* (src/app/api/admin.py, src/app/services/report.py), the reporter's      *)
(* replies (src/app/api/reports.py) and the retention job                  *)
(* (src/app/services/retention.py).                                        *)
(*                                                                         *)
(* A handler loads the case, decides on what it loaded, and writes in a    *)
(* transaction of its own at READ COMMITTED.  The ORM writes the columns   *)
(* that differ from what was loaded, over whatever the row holds by then.  *)
(* The last statement that may wait for a lock and the COMMIT after it are *)
(* one step; a transaction that holds one lock while it waits for another  *)
(* takes a step for each.  An audit entry refers to the case, so its       *)
(* INSERT holds the row FOR KEY SHARE until COMMIT.                        *)
(***************************************************************************)
EXTENDS Naturals, Sequences, FiniteSets

CONSTANTS
    Handlers,    \* the requests, one handler each
    Admins,      \* the office's accounts
    Managers,    \* those of them that are case managers
    Maker,       \* per account: the account that made it, or None
    None,
    Job,         \* the retention job, as a holder of locks
    Operations,  \* what a request may ask for: SUBSET Kinds
    Retention,   \* RETENTION_DAYS, in units of the clock
    Day,         \* a day, in units of the clock
    MaxTime      \* bound: the clock stops there

Kinds == {"acknowledge", "status", "reply", "assign", "reveal",
          "request", "cancel", "confirm", "answer"}

ASSUME ConstantsAssumption ==
    /\ Operations \subseteq Kinds
    /\ Managers \subseteq Admins
    /\ Maker \in [Admins -> Admins \cup {None}]
    /\ Retention \in Nat /\ Day \in Nat \ {0} /\ MaxTime \in Nat
    /\ None \notin Handlers \cup Admins \cup Nat
    /\ Job \notin Handlers \cup {None}

VARIABLES
    \* PostgreSQL
    row,        \* the case's row in "reports"
    request,    \* its row in "deletion_requests"
    thread,     \* its rows in "report_messages", in the order of their COMMIT
    sharing,    \* handlers that hold the case FOR KEY SHARE
    locked,     \* the handler, or the job, that holds it FOR UPDATE or has deleted it
    reqLocked,  \* the handler that holds the deletion request, or has deleted it
    \* the handlers and the retention job
    pc,         \* per handler: its next step, or how it answered
    op,         \* per handler: what it was asked
    snap,       \* per handler: the row and the request as loaded
    latest,     \* per handler: the thread's last time as read
    doomed,     \* the job has selected the case
    \* history and environment
    now,
    lastClosed, \* when the case last became closed
    known,      \* who has been shown the reporter's identity
    overran     \* a handler has written on a row changed since it loaded it

db      == <<row, request, thread>>
locks   == <<sharing, locked, reqLocked>>
work    == <<pc, op, snap, latest>>
history == <<lastClosed, known, overran>>
vars    == <<db, locks, work, doomed, now, history>>

Statuses == {"received", "in_review", "pending_feedback", "closed"}
Time     == Nat \cup {None}

Case == [status : Statuses, acknowledged : Time, feedback : Time,
         closed : Time, assigned : Admins \cup {None}]
\* A deletion request is named by the handler that made it.
Request   == [by : Admins, id : Handlers]
Message   == [sender : {"office", "reporter"}, at : Nat]
Operation == [kind : Kinds, by : Admins \cup {None}, to : Statuses \cup Admins \cup {None}]
Snapshot  == [row : Case \cup {None}, request : Request \cup {None}]

\* None stands for no row, and is none.
ASSUME NoRowAssumption == None \notin Case

Answers == {"ok", "refused", "error", "aborted"}
Steps   == {"write", "withdrawn", "audit", "lock", "post", "dr", "erase"}

NoOp   == [kind |-> "answer", by |-> None, to |-> None]
NoSnap == [row |-> None, request |-> None]

TypeOK ==
    /\ row \in Case \cup {None} /\ request \in Request \cup {None}
    /\ thread \in Seq(Message)
    /\ sharing \subseteq Handlers
    /\ locked \in Handlers \cup {None, Job} /\ reqLocked \in Handlers \cup {None}
    /\ pc \in [Handlers -> {"idle"} \cup Steps \cup Answers]
    /\ op \in [Handlers -> Operation]
    /\ snap \in [Handlers -> Snapshot]
    /\ latest \in [Handlers -> Nat]
    /\ doomed \in BOOLEAN
    /\ now \in Nat /\ lastClosed \in Time
    /\ known \subseteq Admins /\ overran \in BOOLEAN

\* create_report: the receipt opens the thread.
Init ==
    /\ row = [status |-> "received", acknowledged |-> None, feedback |-> None,
              closed |-> None, assigned |-> None]
    /\ request = None
    /\ thread = <<[sender |-> "office", at |-> 0]>>
    /\ sharing = {} /\ locked = None /\ reqLocked = None
    /\ pc = [h \in Handlers |-> "idle"]
    /\ op = [h \in Handlers |-> NoOp]
    /\ snap = [h \in Handlers |-> NoSnap]
    /\ latest = [h \in Handlers |-> 0]
    /\ doomed = FALSE
    /\ now = 0 /\ lastClosed = None /\ known = {} /\ overran = FALSE

----------------------------------------------------------------------------
(* What the services do to a case, as loaded *)

\* STATUS_TRANSITIONS
Transitions ==
    [received         |-> {"in_review", "closed"},
     in_review        |-> {"pending_feedback", "closed", "received"},
     pending_feedback |-> {"closed", "in_review"},
     closed           |-> {"in_review"}]

\* acknowledge_report: the first time counts.
Acknowledged(c) ==
    [c EXCEPT !.acknowledged = IF @ = None THEN now ELSE @,
              !.status = IF @ = "received" THEN "in_review" ELSE @]

\* Mutant: reopening keeps the time of closure.
WithStatusKept(c, s) ==
    [c EXCEPT !.status = s,
              !.closed = IF s = "closed" /\ @ = None THEN now ELSE @]

\* update_report_status: closing is stamped, reopening clears the stamp.
WithStatus(c, s) ==
    [c EXCEPT !.status = s,
              !.closed = IF s # "closed" THEN None ELSE IF @ = None THEN now ELSE @]

\* Mutant: feedback may come before the acknowledgement.
WithFeedbackAny(c, at) == [c EXCEPT !.feedback = IF @ = None THEN at ELSE @]

\* add_admin_message
WithFeedback(c, at) ==
    [c EXCEPT !.feedback = IF @ = None /\ c.acknowledged # None THEN at ELSE @]

\* _reveal_gate: whoever reveals it handles it.
Taken(c, a) == [c EXCEPT !.assigned = IF @ = None THEN a ELSE @]

Changed(o, c) ==
    CASE o.kind = "acknowledge" -> Acknowledged(c)
      [] o.kind = "status"      -> WithStatus(c, o.to)
      [] o.kind = "assign"      -> [c EXCEPT !.assigned = o.to]
      [] o.kind = "reveal"      -> Taken(c, o.by)
      [] OTHER                  -> c

\* The UPDATE that turns old into new, on the row as it is by now.
Flushed(old, new) ==
    LET Column(o, n, current) == IF n # o THEN n ELSE current IN
    [status       |-> Column(old.status, new.status, row.status),
     acknowledged |-> Column(old.acknowledged, new.acknowledged, row.acknowledged),
     feedback     |-> Column(old.feedback, new.feedback, row.feedback),
     closed       |-> Column(old.closed, new.closed, row.closed),
     assigned     |-> Column(old.assigned, new.assigned, row.assigned)]

Store(old, new) ==
    /\ row' = Flushed(old, new)
    /\ lastClosed' = IF row.status # "closed" /\ row'.status = "closed" THEN now ELSE lastClosed
    /\ overran' = (overran \/ row # old)

----------------------------------------------------------------------------
(* Who may do what *)

\* _can_access_report within one organisation, then the operation's own rule.
MayAccess(a, c)  == a \in Managers => c.assigned = a
MayReveal(a, c)  == IF c.assigned # None THEN c.assigned = a ELSE a \notin Managers
RequireAdmin     == {"assign", "request", "cancel", "confirm"}

May(o, c, r) ==
    /\ o.kind # "answer" => MayAccess(o.by, c)
    /\ o.kind \in RequireAdmin => o.by \notin Managers
    /\ o.kind = "status" => o.to \in Transitions[c.status]
    /\ o.kind = "reveal" => MayReveal(o.by, c)
    /\ o.kind = "request" => r = None
    /\ o.kind = "cancel" => r # None /\ r.by = o.by
    /\ o.kind = "answer" => c.status # "closed"

\* The account itself and those that made it, directly or through others.
Makers(a) ==
    LET chain[n \in Nat] ==
            IF n = 0 THEN a
            ELSE IF chain[n - 1] = None THEN None ELSE Maker[chain[n - 1]]
    IN {chain[n] : n \in 0..Cardinality(Admins)} \ {None}

\* _one_made_the_other
OneMadeTheOther(a, b) == a \in Makers(b) \/ b \in Makers(a)

TwoPairsOfEyes(a, b) == a # b /\ ~OneMadeTheOther(a, b)

----------------------------------------------------------------------------
(* The handlers *)

At(h, l) == pc[h] = l

Step(h, l) == pc' = [pc EXCEPT ![h] = l] /\ UNCHANGED <<op, snap, latest>>

\* The handler answers; its locals are gone and its transaction is over.
Answer(h, a) ==
    /\ pc' = [pc EXCEPT ![h] = a]
    /\ op' = [op EXCEPT ![h] = NoOp]
    /\ snap' = [snap EXCEPT ![h] = NoSnap]
    /\ latest' = [latest EXCEPT ![h] = 0]

FirstStep(o) ==
    CASE o.kind = "reply"   -> "audit"
      [] o.kind = "answer"  -> "lock"
      [] o.kind = "confirm" -> "dr"
      [] OTHER              -> "write"

\* A request comes in: the case is loaded and the operation is checked on it.
Load(h, o) ==
    /\ At(h, "idle")
    /\ IF row # None /\ May(o, row, request)
       THEN /\ pc' = [pc EXCEPT ![h] = FirstStep(o)]
            /\ op' = [op EXCEPT ![h] = o]
            /\ snap' = [snap EXCEPT ![h] = [row |-> row, request |-> request]]
            /\ UNCHANGED latest
       ELSE Answer(h, "refused")
    /\ UNCHANGED <<db, locks, doomed, now, history>>

\* acknowledge, status, assign and a reveal: UPDATE, audit entry, COMMIT.  With
\* the case gone there is no row to update and none to refer to.
Write(h) ==
    LET o == op[h]
        c == snap[h].row
    IN
    /\ At(h, "write") /\ o.kind \in {"acknowledge", "status", "assign", "reveal"}
    /\ locked = None
    /\ IF row = None
       THEN Answer(h, "error") /\ UNCHANGED <<row, history>>
       ELSE /\ Store(c, Changed(o, c))
            /\ known' = IF o.kind = "reveal" THEN known \cup {o.by} ELSE known
            /\ Answer(h, "ok")
    /\ UNCHANGED <<request, thread, locks, doomed, now>>

\* A DELETE of the request that is not committed yet.
Withdrawing == reqLocked # None /\ At(reqLocked, "withdrawn")

\* request_deletion: deletion_requests.report_id is unique, and the index waits
\* to see whether a withdrawal is committed.
RequestDeletion(h) ==
    /\ At(h, "write") /\ op[h].kind = "request"
    /\ locked = None /\ ~Withdrawing
    /\ IF row # None /\ request = None
       THEN request' = [by |-> op[h].by, id |-> h] /\ Answer(h, "ok")
       ELSE Answer(h, "error") /\ UNCHANGED request
    /\ UNCHANGED <<row, thread, locks, doomed, now, history>>

\* cancel_deletion_request: DELETE, flushed.  Finding the request gone only warns.
CancelDeletion(h) ==
    /\ At(h, "write") /\ op[h].kind = "cancel"
    /\ reqLocked = None
    /\ reqLocked' = IF request = snap[h].request THEN h ELSE None
    /\ Step(h, "withdrawn")
    /\ UNCHANGED <<db, sharing, locked, doomed, now, history>>

\* cancel_delete: the audit entry, which needs the case, and the COMMIT.
LogWithdrawal(h) ==
    /\ At(h, "withdrawn") /\ locked = None
    /\ request' = IF reqLocked = h THEN None ELSE request
    /\ reqLocked' = IF reqLocked = h THEN None ELSE reqLocked
    /\ Answer(h, IF row = None THEN "error" ELSE "ok")
    /\ UNCHANGED <<row, thread, sharing, locked, doomed, now, history>>

\* A reply's audit entry comes first, and its INSERT takes the key share.
AuditReply(h) ==
    /\ At(h, "audit") /\ locked = None
    /\ IF row = None
       THEN Answer(h, "error") /\ UNCHANGED sharing
       ELSE Step(h, "lock") /\ sharing' = sharing \cup {h}
    /\ UNCHANGED <<db, locked, reqLocked, doomed, now, history>>

LastTime == thread[Len(thread)].at

\* Mutant: the last time is read without locking the case.
LockThreadNot(h) ==
    /\ At(h, "lock") /\ locked = None /\ row # None
    /\ pc' = [pc EXCEPT ![h] = "post"]
    /\ latest' = [latest EXCEPT ![h] = LastTime]
    /\ UNCHANGED <<db, locks, op, snap, doomed, now, history>>

\* _next_sent_at: FOR UPDATE waits for every other holder of the row, then the
\* last time is read.
LockThread(h) ==
    /\ At(h, "lock") /\ locked = None /\ sharing \subseteq {h}
    /\ IF row = None
       THEN Answer(h, "error") /\ UNCHANGED locked
       ELSE /\ locked' = h
            /\ pc' = [pc EXCEPT ![h] = "post"]
            /\ latest' = [latest EXCEPT ![h] = LastTime]
            /\ UNCHANGED <<op, snap>>
    /\ UNCHANGED <<db, sharing, reqLocked, doomed, now, history>>

\* The time of a message: the office's is exact, the reporter's is the day.
SentAt(h) ==
    LET earliest == IF op[h].kind = "reply" THEN now ELSE now - (now % Day)
    IN IF latest[h] >= earliest THEN latest[h] + 1 ELSE earliest

\* Mutant: the transaction stays open.
PostOpen(h) ==
    /\ At(h, "post")
    /\ thread' = Append(thread, [sender |-> "reporter", at |-> SentAt(h)])
    /\ Answer(h, "ok")
    /\ UNCHANGED <<row, request, locks, doomed, now, history>>

\* add_admin_message, add_whistleblower_message: INSERT and COMMIT.
Post(h) ==
    LET c  == snap[h].row
        at == SentAt(h)
    IN
    /\ At(h, "post")
    /\ thread' = Append(thread, [sender |-> IF op[h].kind = "reply" THEN "office" ELSE "reporter",
                                 at     |-> at])
    /\ IF op[h].kind = "reply"
       THEN Store(c, WithFeedback(c, at)) /\ UNCHANGED known
       ELSE UNCHANGED <<row, history>>
    /\ locked' = None /\ sharing' = sharing \ {h}
    /\ Answer(h, "ok")
    /\ UNCHANGED <<request, reqLocked, doomed, now>>

\* Two replies that hold the key share and both want the row.
RepliesCross(g, h) == g # h /\ \A i \in {g, h} : i \in sharing /\ At(i, "lock")

\* The job has deleted the case and its cascade wants the request; who holds the
\* request wants the case.
JobCrosses == locked = Job /\ reqLocked # None

\* PostgreSQL ends one transaction of a ring: this one.
DeadlockDetected(h) ==
    /\ (\E g \in Handlers : RepliesCross(g, h)) \/ (JobCrosses /\ reqLocked = h)
    /\ sharing' = sharing \ {h}
    /\ reqLocked' = IF reqLocked = h THEN None ELSE reqLocked
    /\ Answer(h, "aborted")
    /\ UNCHANGED <<db, locked, doomed, now, history>>

\* Mutant: the request is read without FOR UPDATE.
LockRequestNot(h) ==
    /\ At(h, "dr") /\ reqLocked = None
    /\ IF request # None /\ TwoPairsOfEyes(request.by, op[h].by)
       THEN Step(h, "erase")
       ELSE Answer(h, "refused")
    /\ UNCHANGED <<db, locks, doomed, now, history>>

\* confirm_delete: the request under a row lock, and whose eyes it takes.
LockRequest(h) ==
    /\ At(h, "dr") /\ reqLocked = None
    /\ IF request # None /\ TwoPairsOfEyes(request.by, op[h].by)
       THEN Step(h, "erase") /\ reqLocked' = h
       ELSE Answer(h, "refused") /\ UNCHANGED reqLocked
    /\ UNCHANGED <<db, sharing, locked, doomed, now, history>>

\* The case and all that refers to it.
Gone == row' = None /\ request' = None /\ thread' = <<>>

\* confirm_deletion
ConfirmDeletion(h) ==
    /\ At(h, "erase") /\ locked = None /\ sharing = {}
    /\ Gone
    /\ reqLocked' = None
    /\ Answer(h, "ok")
    /\ UNCHANGED <<sharing, locked, doomed, now, history>>

----------------------------------------------------------------------------
(* run_retention_cleanup, and time *)

SelectExpired ==
    /\ ~doomed
    /\ row # None /\ row.status = "closed" /\ row.closed # None
    /\ row.closed + Retention < now
    /\ doomed' = TRUE
    /\ UNCHANGED <<db, locks, work, now, history>>

\* DELETE by id: the row is locked, its columns are not looked at again.  With
\* the case gone by then there is nothing to delete.
LockExpired ==
    /\ doomed /\ locked = None /\ sharing = {}
    /\ IF row = None
       THEN doomed' = FALSE /\ UNCHANGED locked
       ELSE locked' = Job /\ UNCHANGED doomed
    /\ UNCHANGED <<db, sharing, reqLocked, work, now, history>>

\* ON DELETE CASCADE reaches the deletion request; then COMMIT.
EraseExpired ==
    /\ locked = Job /\ reqLocked = None
    /\ Gone
    /\ locked' = None /\ doomed' = FALSE
    /\ UNCHANGED <<sharing, reqLocked, work, now, history>>

\* PostgreSQL ends the job's transaction: "Retention cleanup failed".  The next
\* run selects again.
JobAborted ==
    /\ JobCrosses
    /\ locked' = None /\ doomed' = FALSE
    /\ UNCHANGED <<db, sharing, reqLocked, work, now, history>>

RetentionJob == SelectExpired \/ LockExpired \/ EraseExpired \/ JobAborted

Tick ==
    /\ now < MaxTime
    /\ now' = now + 1
    /\ UNCHANGED <<db, locks, work, doomed, history>>

Asked == {o \in Operation :
    /\ o.kind \in Operations
    /\ o.by \in IF o.kind = "answer" THEN {None} ELSE Admins
    /\ o.to \in CASE o.kind = "status" -> Statuses
                  [] o.kind = "assign" -> Admins \cup {None}
                  [] OTHER             -> {None}}

Handler(h) ==
    \/ Write(h) \/ RequestDeletion(h) \/ CancelDeletion(h) \/ LogWithdrawal(h)
    \/ AuditReply(h) \/ LockThread(h) \/ Post(h) \/ DeadlockDetected(h)
    \/ LockRequest(h) \/ ConfirmDeletion(h)

Next ==
    \/ \E h \in Handlers : (\E o \in Asked : Load(h, o)) \/ Handler(h)
    \/ RetentionJob
    \/ Tick

Spec == Init /\ [][Next]_vars

----------------------------------------------------------------------------
(* Properties *)

\* Two messages of a thread never tie, and the thread reads in the order the
\* messages were posted, though the reporter's times are days.
ThreadOrdered ==
    \A i, j \in DOMAIN thread : i < j => thread[i].at < thread[j].at

\* A deletion asked for and confirmed takes two people, and a request that was
\* withdrawn in time is not carried out.
FourEyes ==
    [][\A h \in Handlers : At(h, "erase") /\ row # None /\ row' = None /\ pc'[h] = "ok" =>
        request # None /\ TwoPairsOfEyes(request.by, op[h].by)]_vars

\* The retention clock runs from the most recent closure: what the job selects
\* has been closed for longer than RETENTION_DAYS.
RetentionClock ==
    [][doomed' /\ ~doomed => lastClosed # None /\ lastClosed + Retention < now]_vars

\* ... as long as no handler has written on a row changed since it loaded it.
RetentionClockSerial ==
    [][doomed' /\ ~doomed /\ ~overran => lastClosed + Retention < now]_vars

\* What counts as the feedback owed to the reporter is a message the office
\* sent to an acknowledged case, whatever was written around it.
FeedbackIsAMessage ==
    row # None /\ row.feedback # None =>
        /\ row.acknowledged # None
        /\ \E i \in DOMAIN thread : thread[i] = [sender |-> "office", at |-> row.feedback]

\* The requests that were let in and are not answered yet.
InProgress == {h \in Handlers : pc[h] \in Steps}

Actors == InProgress \cup (IF doomed THEN {Job} ELSE {})

\* Who holds what the next statement of a request, or of the job, has to wait for.
Blockers(x) ==
    IF x = Job
    THEN (IF locked = Job THEN {reqLocked} ELSE {locked} \cup sharing) \ {None}
    ELSE LET onRow     == IF pc[x] \in {"lock", "erase"} THEN {locked} \cup sharing ELSE {locked}
             onRequest == IF Withdrawing THEN {reqLocked} ELSE {}
         IN  (CASE pc[x] = "post" -> {}
                [] pc[x] = "dr" -> {reqLocked}
                [] pc[x] = "write" /\ op[x].kind = "cancel" -> {reqLocked}
                [] pc[x] = "write" /\ op[x].kind = "request" -> onRow \cup onRequest
                [] OTHER -> onRow) \ {None, x}

\* Each waits for another of them.
Ring(S) == S # {} /\ \A x \in S : Blockers(x) \cap S # {}

\* The rings PostgreSQL has to break, through one of these two pairs.
Crossing(S) ==
    \/ \E g, h \in S \cap Handlers : RepliesCross(g, h)
    \/ {Job, reqLocked} \subseteq S /\ JobCrosses

\* Requests and the job never wait for each other in a ring but through two
\* replies, or through the job and the holder of the deletion request.
OnlyKnownRings == \A S \in SUBSET Actors : Ring(S) => Crossing(S)

\* Nobody waits for a lock that nobody is left to release: as long as a request
\* or the job is under way, one has its locks or is in a ring that is broken.
NobodyStuck == Actors = {} \/ (\E x \in Actors : Blockers(x) = {}) \/ Crossing(Actors)

\* ... and who has its locks, or is of such a ring, does go on.
SomeoneGoesOn ==
    /\ OnlyKnownRings /\ NobodyStuck
    /\ \A h \in InProgress :
         (Blockers(h) = {} \/ \E S \in SUBSET Actors : h \in S /\ Cardinality(S) = 2 /\ Crossing(S))
            <=> ENABLED Handler(h)
    /\ doomed => (Blockers(Job) = {} \/ JobCrosses <=> ENABLED RetentionJob)
=============================================================================
