------------------------------- MODULE Notices -------------------------------
(***************************************************************************)
(* What the office is told (src/app/services/notifications.py,             *)
(* reminders.py): notices of new reports and replies, queued in Redis and  *)
(* sent as a digest, and reminders of deadlines.  Every replica runs both  *)
(* jobs; a deletion takes the case out of the queue and out of the marks   *)
(* (forget_case) while they run.                                           *)
(***************************************************************************)
EXTENDS Naturals, FiniteSets

CONSTANTS
    Cases,
    Digests,    \* replicas, as runners of deliver_notification_digest
    Reminders,  \* replicas, as runners of send_sla_reminders
    Settings,   \* the settings an instance may have, and (a bound) whether reporters reply
    None

Channels == {"email", "webhook"}
Kinds    == {"new_reports", "new_messages"}
Notice   == Kinds \X Cases
Item     == {"ack", "feedback"} \X Cases

ASSUME ConstantsAssumption ==
    /\ Settings \subseteq [channels : SUBSET Channels, batched : BOOLEAN, reminders : BOOLEAN,
                    replies : BOOLEAN]
    /\ None \notin Reminders \cup Item

VARIABLES
    config,   \* which channels, whether notices are batched, whether reminders are on
    stage,    \* per case: its row, then the next command of forget_case
    due,      \* notices of committed events, not yet queued
    \* Redis
    queue,    \* the two sets of _QUEUE_KEYS
    marks,    \* reminder:ack:, reminder:feedback:
    lock,     \* openwhistle:job_lock:sla_reminders: the run that set it
    \* the jobs
    dpc, held,       \* per digest: next step, what it took out of the queue
    rpc, todo, item, \* per reminder run: next step, what is left to check, what it is at
    \* history
    told, again,     \* what a channel took; it took something twice
    lost,            \* notices a fault lost
    recent, twice,   \* reminders sent in their present window; one was sent twice in it
    excused,         \* a run has outlived its lock or failed between a mail and its mark
    stale, named     \* cases somebody held while they were forgotten; mailed afterwards

events == <<config, stage, due>>
redis  == <<queue, marks, lock>>
digest == <<dpc, held>>
remind == <<rpc, todo, item>>
toldOf == <<told, again, lost>>
remindOf == <<recent, twice, excused>>
erased == <<stale, named>>
vars   == <<events, redis, digest, remind, toldOf, remindOf, erased>>

Stages   == {"none", "open", "reports", "messages", "marks", "forgotten", "left"}

TypeOK ==
    /\ config \in Settings
    /\ stage \in [Cases -> Stages]
    /\ due \subseteq Notice /\ queue \subseteq Notice
    /\ marks \subseteq Item /\ lock \in Reminders \cup {None}
    /\ dpc \in [Digests -> {"idle", "deliver", "reports", "messages"}]
    /\ held \in [Digests -> SUBSET Notice]
    /\ rpc \in [Reminders -> {"idle", "select", "next", "mail", "mark", "unlock"}]
    /\ todo \in [Reminders -> SUBSET Item] /\ item \in [Reminders -> Item \cup {None}]
    /\ told \subseteq Channels \X Notice /\ again \in BOOLEAN
    /\ lost \subseteq Notice
    /\ recent \subseteq Item /\ twice \in BOOLEAN /\ excused \in BOOLEAN
    /\ stale \subseteq Cases /\ named \subseteq Cases

Init ==
    /\ config \in Settings
    /\ stage = [c \in Cases |-> "none"]
    /\ due = {} /\ queue = {} /\ marks = {} /\ lock = None
    /\ dpc = [d \in Digests |-> "idle"] /\ held = [d \in Digests |-> {}]
    /\ rpc = [r \in Reminders |-> "idle"]
    /\ todo = [r \in Reminders |-> {}] /\ item = [r \in Reminders |-> None]
    /\ told = {} /\ again = FALSE /\ lost = {}
    /\ recent = {} /\ twice = FALSE /\ excused = FALSE
    /\ stale = {} /\ named = {}

----------------------------------------------------------------------------
(* Events, and sending *)

\* create_report and add_whistleblower_message have committed: the notice is next.
Arrives(c) ==
    /\ stage[c] = "none"
    /\ stage' = [stage EXCEPT ![c] = "open"]
    /\ due' = due \cup {<<"new_reports", c>>}
    /\ UNCHANGED <<config, redis, digest, remind, toldOf, remindOf, erased>>

Replies(c) ==
    LET n == <<"new_messages", c>> IN
    /\ stage[c] = "open" /\ config.replies
    /\ n \notin due \cup queue \cup lost /\ \A x \in Channels : <<x, n>> \notin told
    /\ \A d \in Digests : n \notin held[d]
    /\ due' = due \cup {n}
    /\ UNCHANGED <<config, stage, redis, digest, remind, toldOf, remindOf, erased>>

\* _deliver: the channels in ok take these notices.  The mail names the cases.
Sent(ok, ns) ==
    /\ told' = told \cup (ok \X ns)
    /\ again' = (again \/ told \cap (ok \X ns) # {})
    /\ named' = named \cup {c \in Cases : /\ "email" \in ok /\ stage[c] = "forgotten"
                                          /\ \E k \in Kinds : <<k, c>> \in ns}

\* _queue_or_send: queued, or sent at once and not tried again; Redis may refuse.
Notify(n) ==
    /\ n \in due
    /\ due' = due \ {n}
    /\ \/ /\ config.channels = {}
          /\ UNCHANGED <<queue, told, again, lost, named>>
       \/ /\ config.channels # {} /\ config.batched
          /\ \/ queue' = queue \cup {n} /\ UNCHANGED lost
             \/ lost' = lost \cup {n} /\ UNCHANGED queue
          /\ UNCHANGED <<told, again, named>>
       \/ /\ config.channels # {} /\ ~config.batched
          /\ \E ok \in SUBSET config.channels :
                Sent(ok, {n}) /\ lost' = IF ok = {} THEN lost \cup {n} ELSE lost
          /\ UNCHANGED queue
    /\ UNCHANGED <<config, stage, marks, lock, digest, remind, remindOf, stale>>

----------------------------------------------------------------------------
(* deliver_notification_digest, by the scheduler and at a replica's shutdown *)

DigestAt(d, l, ns) ==
    /\ dpc' = [dpc EXCEPT ![d] = l]
    /\ held' = [held EXCEPT ![d] = ns]

\* Mutant: only new reports count as something to send.
ReadQueueReportsOnly(d) ==
    /\ dpc[d] = "idle" /\ config.batched /\ config.channels # {}
    /\ queue # {}
    /\ queue' = {}
    /\ IF \E c \in Cases : <<"new_reports", c>> \in queue
       THEN DigestAt(d, "deliver", queue) ELSE UNCHANGED digest
    /\ UNCHANGED <<events, marks, lock, remind, toldOf, remindOf, erased>>

\* One MULTI/EXEC reads and empties both sets; an empty queue is not sent.
ReadQueue(d) ==
    /\ dpc[d] = "idle" /\ config.batched /\ config.channels # {}
    /\ queue # {}
    /\ queue' = {}
    /\ DigestAt(d, "deliver", queue)
    /\ UNCHANGED <<events, marks, lock, remind, toldOf, remindOf, erased>>

\* Mutant: what one channel did not take goes back.
DeliverAll(d, ok) ==
    /\ dpc[d] = "deliver"
    /\ Sent(ok, held[d])
    /\ IF ok # config.channels THEN DigestAt(d, "reports", held[d]) ELSE DigestAt(d, "idle", {})
    /\ UNCHANGED <<events, redis, remind, lost, remindOf, stale>>

\* Mutant: what no channel took is gone.
DeliverOnce(d, ok) ==
    /\ dpc[d] = "deliver"
    /\ Sent(ok, held[d])
    /\ DigestAt(d, "idle", {})
    /\ UNCHANGED <<events, redis, remind, lost, remindOf, stale>>

\* _deliver: what no channel took goes back into the queue ...
Deliver(d, ok) ==
    /\ dpc[d] = "deliver"
    /\ Sent(ok, held[d])
    /\ IF ok = {} THEN DigestAt(d, "reports", held[d]) ELSE DigestAt(d, "idle", {})
    /\ UNCHANGED <<events, redis, remind, lost, remindOf, stale>>

\* ... set by set (_requeue).
OfKind(ns, k) == {n \in ns : n[1] = k}

Requeue(d) ==
    /\ \/ dpc[d] = "reports" /\ queue' = queue \cup OfKind(held[d], "new_reports")
          /\ DigestAt(d, "messages", OfKind(held[d], "new_messages"))
       \/ dpc[d] = "messages" /\ queue' = queue \cup held[d] /\ DigestAt(d, "idle", {})
    /\ UNCHANGED <<events, marks, lock, remind, toldOf, remindOf, erased>>

\* Redis refuses, or the replica dies: what the run holds is lost.
DigestFails(d) ==
    /\ dpc[d] # "idle"
    /\ lost' = lost \cup held[d]
    /\ DigestAt(d, "idle", {})
    /\ UNCHANGED <<events, redis, remind, told, again, remindOf, erased>>

----------------------------------------------------------------------------
(* send_sla_reminders *)

RunAt(r, l, is, i) ==
    /\ rpc' = [rpc EXCEPT ![r] = l]
    /\ todo' = [todo EXCEPT ![r] = is]
    /\ item' = [item EXCEPT ![r] = i]

\* Mutant: SET without NX.
TakeLockAnyway(r) ==
    /\ rpc[r] = "idle" /\ config.reminders
    /\ lock' = r
    /\ RunAt(r, "select", {}, None)
    /\ UNCHANGED <<events, queue, marks, digest, toldOf, remindOf, erased>>

TakeLock(r) ==
    /\ rpc[r] = "idle" /\ config.reminders /\ lock = None
    /\ lock' = r
    /\ RunAt(r, "select", {}, None)
    /\ UNCHANGED <<events, queue, marks, digest, toldOf, remindOf, erased>>

\* The open reports, and which of their deadlines are near: as loaded, at the
\* time the run started.
Select(r) ==
    /\ rpc[r] = "select"
    /\ \E is \in SUBSET {i \in Item : stage[i[2]] = "open"} : RunAt(r, "next", is, None)
    /\ UNCHANGED <<events, redis, digest, toldOf, remindOf, erased>>

\* The next check: of one report first the acknowledgement, then the feedback.
Upcoming(r) == {i \in todo[r] : i[1] = "feedback" => <<"ack", i[2]>> \notin todo[r]}

\* _check_ack_reminder, _check_feedback_reminder: EXISTS.
CheckMark(r) ==
    /\ rpc[r] = "next"
    /\ \E i \in Upcoming(r) :
          IF i \in marks THEN RunAt(r, "next", todo[r] \ {i}, None)
                         ELSE RunAt(r, "mail", todo[r] \ {i}, i)
    /\ UNCHANGED <<events, redis, digest, toldOf, remindOf, erased>>

\* _dispatch_reminder: by mail, or only counted.  A mail that fails is not marked.
Mail(r) ==
    /\ rpc[r] = "mail"
    /\ \/ /\ RunAt(r, "mark", todo[r], item[r])
          /\ recent' = recent \cup {item[r]}
          /\ twice' = (twice \/ (~excused /\ item[r] \in recent))
          /\ named' = IF "email" \in config.channels /\ stage[item[r][2]] = "forgotten"
                      THEN named \cup {item[r][2]} ELSE named
       \/ /\ "email" \in config.channels
          /\ RunAt(r, "next", todo[r], None)
          /\ UNCHANGED <<recent, twice, named>>
    /\ UNCHANGED <<events, redis, digest, toldOf, excused, stale>>

Mark(r) ==
    /\ rpc[r] = "mark"
    /\ marks' = marks \cup {item[r]}
    /\ RunAt(r, "next", todo[r], None)
    /\ UNCHANGED <<events, queue, lock, digest, toldOf, remindOf, erased>>

\* Redis refuses EXISTS or SET: on to the next report.
CheckFails(r) ==
    /\ rpc[r] \in {"next", "mark"}
    /\ \E i \in IF rpc[r] = "next" THEN Upcoming(r) ELSE {item[r]} :
          RunAt(r, "next", {j \in todo[r] : j[2] # i[2]}, None)
    /\ excused' = (excused \/ rpc[r] = "mark")
    /\ UNCHANGED <<events, redis, digest, toldOf, recent, twice, erased>>

\* The webhook gets the counts; then the lock goes, whosever it is.
Finish(r) ==
    /\ rpc[r] = "next" /\ todo[r] = {}
    /\ RunAt(r, "unlock", {}, None)
    /\ UNCHANGED <<events, redis, digest, toldOf, remindOf, erased>>

Unlock(r) ==
    /\ rpc[r] = "unlock"
    /\ lock' = None
    /\ RunAt(r, "idle", {}, None)
    /\ UNCHANGED <<events, queue, marks, digest, toldOf, remindOf, erased>>

RunDies(r) ==
    /\ rpc[r] # "idle"
    /\ excused' = (excused \/ rpc[r] = "mark")
    /\ RunAt(r, "idle", {}, None)
    /\ UNCHANGED <<events, redis, digest, toldOf, recent, twice, erased>>

\* ex=300
LockExpires ==
    /\ lock # None
    /\ lock' = None
    /\ excused' = (excused \/ rpc[lock] # "idle")
    /\ UNCHANGED <<events, queue, marks, digest, remind, toldOf, recent, twice, erased>>

\* _dedup_ttl_seconds: a day at least.  The window is over, and a reminder may come again.
MarkExpires(i) ==
    /\ i \in marks
    /\ marks' = marks \ {i} /\ recent' = recent \ {i}
    /\ UNCHANGED <<events, queue, lock, digest, remind, toldOf, twice, excused, erased>>

----------------------------------------------------------------------------
(* Deletion: confirm_delete or run_retention_cleanup has committed, then       *)
(* forget_case                                                                 *)

DeleteCase(c) ==
    /\ stage[c] = "open"
    /\ stage' = [stage EXCEPT ![c] = "reports"]
    /\ UNCHANGED <<config, due, redis, digest, remind, toldOf, remindOf, erased>>

Holds(c, ns) == \E n \in ns : n[2] = c

\* Somebody is about to queue the notice, or to mark a reminder of the case.
InHand(n) == n \in due \/ \E d \in Digests : n \in held[d]
Reminding(c) == \E r \in Reminders : Holds(c, todo[r] \cup ({item[r]} \ {None}))

\* SREM of a set: its notice goes, the next command is l.
ForgetNotice(c, k, l) ==
    LET n == <<k, c>> IN
    /\ queue' = queue \ {n}
    /\ stage' = [stage EXCEPT ![c] = l]
    /\ stale' = IF InHand(n) THEN stale \cup {c} ELSE stale
    /\ UNCHANGED <<config, due, marks, lock, digest, remind, toldOf, remindOf, named>>

\* Mutant: the first set only.
ForgetQueueReports(c) == stage[c] = "reports" /\ ForgetNotice(c, "new_reports", "marks")

\* SREM, set by set ...
ForgetQueue(c) ==
    \/ stage[c] = "reports" /\ ForgetNotice(c, "new_reports", "messages")
    \/ stage[c] = "messages" /\ ForgetNotice(c, "new_messages", "marks")

\* ... and DEL of both marks.
ForgetMarks(c) ==
    /\ stage[c] = "marks"
    /\ marks' = {i \in marks : i[2] # c} /\ recent' = {i \in recent : i[2] # c}
    /\ stage' = [stage EXCEPT ![c] = "forgotten"]
    /\ stale' = IF Reminding(c) THEN stale \cup {c} ELSE stale
    /\ UNCHANGED <<config, due, queue, lock, digest, remind, toldOf, twice, excused, named>>

\* Redis does not answer: the case is deleted, its number stays.
ForgetFails(c) ==
    /\ stage[c] \in {"reports", "messages", "marks"}
    /\ stage' = [stage EXCEPT ![c] = "left"]
    /\ UNCHANGED <<config, due, redis, digest, remind, toldOf, remindOf, erased>>

Next ==
    \/ \E c \in Cases : Arrives(c) \/ Replies(c) \/ DeleteCase(c)
                        \/ ForgetQueue(c) \/ ForgetMarks(c) \/ ForgetFails(c)
    \/ \E n \in Notice : Notify(n)
    \/ \E d \in Digests : ReadQueue(d) \/ Requeue(d) \/ DigestFails(d)
                          \/ \E ok \in SUBSET config.channels : Deliver(d, ok)
    \/ \E r \in Reminders : TakeLock(r) \/ Select(r) \/ CheckMark(r) \/ Mail(r) \/ Mark(r)
                            \/ CheckFails(r) \/ Finish(r) \/ Unlock(r) \/ RunDies(r)
    \/ \E i \in Item : MarkExpires(i)
    \/ LockExpires

Spec == Init /\ [][Next]_vars

\* The scheduler starts the digests and the event loop runs them, and a channel
\* that is tried again and again takes a digest some day.
Fairness ==
    \A d \in Digests :
        /\ WF_vars(ReadQueue(d)) /\ WF_vars(Requeue(d))
        /\ WF_vars(\E ok \in SUBSET config.channels : Deliver(d, ok))
        /\ SF_vars(\E ok \in SUBSET config.channels : ok # {} /\ Deliver(d, ok))

FairSpec == Spec /\ Fairness

----------------------------------------------------------------------------
(* Properties *)

ToldOf(n) == \E x \in Channels : <<x, n>> \in told

\* The notice of a report that is there is on its way until a channel takes it,
\* with two replicas' digests at once and after every outage of the channels; what
\* is lost, a fault of Redis or a replica's death lost.
NothingLost ==
    \A c \in Cases :
        LET n == <<"new_reports", c>> IN
        stage[c] = "open" /\ config.channels # {} =>
            n \in due \cup queue \cup lost \cup UNION {held[d] : d \in Digests} \/ ToldOf(n)

\* No channel gets a notice twice.
ToldOnce == ~again

\* A deadline is reminded of once in its window, as long as no run outlives its
\* lock and none fails between its mail and its mark.
RemindedOnce == ~twice

\* Once forgotten, a case is in no queue and no mark, and no mail names it, unless
\* somebody had it in hand while it was being forgotten.
ErasedUnnamed ==
    \A c \in Cases \ stale : stage[c] = "forgotten" =>
        ~Holds(c, queue \cup due \cup marks) /\ c \notin named

\* A notice waits with its event, in the queue or with a digest.
Waiting == due \cup queue \cup UNION {held[d] : d \in Digests}

ReportOf(c) == CASE stage[c] = "none" -> "none"
                 [] stage[c] = "open" -> "there"
                 [] OTHER             -> "deleted"

\* The queue, the digests of all replicas and forget_case do together what a single
\* outbox does: a notice that was told, lost or withdrawn does not come back, by
\* whichever replica's digest.
Outbox == INSTANCE Outbox WITH
    channels <- config.channels,
    report <- [c \in Cases |-> ReportOf(c)],
    waiting <- Waiting
ImplementsOutbox == Outbox!Spec

\* What is queued is told, unless its case is deleted or a fault loses it.
EventuallyTold ==
    \A n \in Notice : n \in queue ~> (ToldOf(n) \/ n \in lost \/ stage[n[2]] # "open")
=============================================================================
