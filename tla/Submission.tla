----------------------------- MODULE Submission -----------------------------
(***************************************************************************)
(* The reporter's final submit (src/app/api/reports.py): how one draft,    *)
(* kept in Redis, becomes at most one report in the database although the  *)
(* same browser sends several requests at once, workers die, replies get   *)
(* lost and keys expire.                                                   *)
(*                                                                         *)
(* One session id, one draft.  A tab is one request of the reporter's      *)
(* browser and the handler that serves it; after an inconclusive answer    *)
(* the tab may check again.  Every Redis command, Lua script and database  *)
(* statement of a handler is one step; anything may happen between two.    *)
(*                                                                         *)
(* A case number is named by the tab whose transaction drew it, a claim's  *)
(* nonce by the tab that claimed: a tab claims at most once.               *)
(***************************************************************************)
EXTENDS Naturals

CONSTANTS
    Tabs,         \* the requests
    Ids,          \* report ids (uuid4) the draft may be given
    Visits,       \* what a tab may ask for: SUBSET VisitKinds
    None,         \* an absent key, row or value
    NoId,         \* the id of a draft saved before v2.0.0
    Origin,       \* the writer of the draft the behaviour starts with
    Legacy,       \* the draft was saved before v2.0.0
    SlowSubmits,  \* a submit may outlast its own "pending" key
    Faults,       \* the faults that may happen: SUBSET FaultKinds
    MaxFaults     \* bound: how many of them

VisitKinds == {"submit", "step", "get", "remove", "restart"}
FaultKinds == {"crash", "lookup", "commit", "put", "result", "expiry"}

ASSUME ConstantsAssumption ==
    /\ Visits \subseteq VisitKinds
    /\ Faults \subseteq FaultKinds
    /\ MaxFaults \in Nat
    /\ Legacy \in BOOLEAN /\ SlowSubmits \in BOOLEAN
    /\ None \notin Tabs \cup Ids \cup {NoId, Origin}
    /\ NoId \notin Ids
    /\ Origin \notin Tabs

VARIABLES
    \* Redis
    draft,     \* submission-session:<id>
    claimed,   \* ...:claimed, the draft while a submit holds it
    pending,   \* ...:pending, the nonce of that submit
    result,    \* ...:result, the outcome kept for a second click
    reportId,  \* ...:report-id, the id given to a pre-v2.0.0 draft
    \* PostgreSQL and the object store
    open,      \* per report id: the transaction that has inserted it
    filed,     \* per report id: the committed report
    sent,      \* transactions whose COMMIT was issued
    objects,   \* attempts whose attachment lies in the bucket
    \* the handlers
    pc,        \* per tab: its next step
    mem,       \* per tab: the handler's local variables
    page,      \* per tab: the answer
    \* the environment
    faults,    \* faults so far
    discarded  \* the reporter restarted, or the draft's two hours ran out

redis == <<draft, claimed, pending, result, reportId>>
db    == <<open, filed, sent, objects>>
env   == <<faults, discarded>>
vars  == <<redis, db, pc, mem, page, env>>

Token  == [id : Ids \cup {NoId}, by : Tabs \cup {Origin}]
Result == [case : Tabs, pin : BOOLEAN]
Page   == [what : {"none", "form", "fresh", "pending", "kept", "success"},
           case : Tabs \cup {None}, pin : BOOLEAN]

\* A handler's locals: what it was asked, which load it is at ("outcome": inside
\* _submit_outcome), attempts of _load_submission, the report id of the state in
\* memory, a token as read, the answer of _committed_case_number, stored_keys.
Memory == [visit : VisitKinds, phase : {"first", "second", "outcome"}, tries : 0..3,
           st : Ids \cup {None}, raw : Token \cup {None},
           found : Tabs \cup {None}, stored : BOOLEAN]

\* A key that is absent holds no token.
ASSUME AbsentAssumption == None \notin Token

PageOf(what) == [what |-> what, case |-> None, pin |-> FALSE]
Success(res) == [what |-> "success", case |-> res.case, pin |-> res.pin]
Received(c)  == [case |-> c, pin |-> FALSE]
MemoryOf(v)  == [visit |-> v, phase |-> "first", tries |-> 0, st |-> None,
                 raw |-> None, found |-> None, stored |-> FALSE]

Labels == {"idle", "load", "assign", "recover", "claimed", "lookup", "rescript",
           "flight", "poll", "take", "kept", "save", "claim", "unnamed",
           "validate", "reject", "insert", "attach", "commit", "finish",
           "ask", "cleanup", "giveback", "cleanother", "yield", "stored",
           "restart", "done"}

TypeOK ==
    /\ draft \in Token \cup {None} /\ claimed \in Token \cup {None}
    /\ pending \in Tabs \cup {None}
    /\ result \in Result \cup {None}
    /\ reportId \in Ids \cup {None}
    /\ open \in [Ids -> Tabs \cup {None}] /\ filed \in [Ids -> Tabs \cup {None}]
    /\ sent \subseteq Tabs /\ objects \subseteq Tabs
    /\ pc \in [Tabs -> Labels]
    /\ mem \in [Tabs -> Memory]
    /\ page \in [Tabs -> Page]
    /\ faults \in Nat /\ discarded \in BOOLEAN

Init ==
    /\ draft \in [id : IF Legacy THEN {NoId} ELSE Ids, by : {Origin}]
    /\ claimed = None /\ pending = None /\ result = None /\ reportId = None
    /\ open = [i \in Ids |-> None] /\ filed = [i \in Ids |-> None]
    /\ sent = {} /\ objects = {}
    /\ pc = [r \in Tabs |-> "idle"]
    /\ mem = [r \in Tabs |-> MemoryOf("get")]
    /\ page = [r \in Tabs |-> PageOf("none")]
    /\ faults = 0 /\ discarded = FALSE

----------------------------------------------------------------------------
(* Control flow of a handler *)

At(r, l) == pc[r] = l

\* The handler goes on at l with locals m, or answers and is gone.
Goto(r, l, m) ==
    /\ pc' = [pc EXCEPT ![r] = l]
    /\ mem' = [mem EXCEPT ![r] = m]
    /\ UNCHANGED page

Reply(r, p) ==
    /\ pc' = [pc EXCEPT ![r] = "done"]
    /\ mem' = [mem EXCEPT ![r] = MemoryOf("get")]
    /\ page' = [page EXCEPT ![r] = p]

Step(r, l)   == Goto(r, l, mem[r])
In(r, p)     == [mem[r] EXCEPT !.phase = p]
Outcome(r)   == Goto(r, "poll", In(r, "outcome"))

\* One of the faults the run allows, within its bound.
Fault(kind) == kind \in Faults /\ faults < MaxFaults /\ faults' = faults + 1

\* Where a handler goes with locals m once the draft is in memory.  submit_get
\* loads it twice; submit_post claims it or saves it; _submit_outcome answers a
\* POST with a redirect and lets a GET go on to its second load.
Loaded(r, m) ==
    CASE m.visit = "get" /\ m.phase = "second" -> Goto(r, "save", m)
      [] m.visit = "get" /\ m.phase # "second" -> Goto(r, "load", [m EXCEPT !.phase = "second"])
      [] m.visit # "get" /\ m.phase = "outcome" -> Reply(r, PageOf("form"))
      [] m.visit = "submit" /\ m.phase # "outcome" -> Goto(r, "claim", m)
      [] OTHER -> Goto(r, "save", m)

\* Where it goes when there is no draft: a POST first recovers it, then, like a
\* GET at once, looks for a submit in flight; else the wizard starts afresh.
NotLoaded(r, m) ==
    CASE m.phase = "outcome" -> Goto(r, "kept", m)
      [] m.visit = "get" /\ m.phase = "second" -> Reply(r, PageOf("fresh"))
      [] m.visit = "get" /\ m.phase = "first" -> Goto(r, "flight", m)
      [] m.visit = "remove" /\ m.phase # "outcome" -> Reply(r, PageOf("form"))
      [] m.visit \in {"submit", "step"} /\ m.phase = "first" -> Goto(r, "recover", m)
      [] OTHER -> Goto(r, "flight", m)

\* The browser sends the request.
Start(r, v) ==
    /\ At(r, "idle")
    /\ Goto(r, IF v = "restart" THEN "restart" ELSE "load", MemoryOf(v))
    /\ UNCHANGED <<redis, db, env>>

\* "Check again" on the pending page, or a reload after no answer at all.
CheckAgain(r) ==
    /\ At(r, "done")
    /\ page[r].what \in {"none", "pending", "kept"}
    /\ pc' = [pc EXCEPT ![r] = "load"]
    /\ page' = [page EXCEPT ![r] = PageOf("none")]
    /\ UNCHANGED <<redis, db, mem, env>>

----------------------------------------------------------------------------
(* _load_submission *)

Load(r) ==
    /\ At(r, "load")
    /\ IF draft = None THEN NotLoaded(r, [mem[r] EXCEPT !.st = None, !.tries = 0])
       ELSE IF draft.id # NoId THEN Loaded(r, [mem[r] EXCEPT !.st = draft.id, !.tries = 0])
       ELSE Goto(r, "assign", [mem[r] EXCEPT !.raw = draft, !.tries = @ + 1])
    /\ UNCHANGED <<redis, db, env>>

\* uuid4() is new to everyone; the id of r's earlier load is about to go.
NewId(r, i) ==
    /\ \A token \in {draft, claimed} \cup {mem[t].raw : t \in Tabs} :
        token # None => token.id # i
    /\ open[i] = None /\ filed[i] = None
    /\ \A t \in Tabs \ {r} : mem[t].st # i

\* Mutant: SET without NX, every loader keeps the id it drew itself.
AssignReportIdAnew(r) ==
    /\ At(r, "assign") /\ draft = mem[r].raw
    /\ \E i \in Ids :
        /\ NewId(r, i)
        /\ reportId' = i
        /\ Loaded(r, [mem[r] EXCEPT !.raw = None, !.st = i, !.tries = 0])
    /\ UNCHANGED <<draft, claimed, pending, result, db, env>>

\* _ASSIGN_REPORT_ID, while the draft is the one that was read.
AssignReportId(r) ==
    /\ At(r, "assign") /\ draft = mem[r].raw
    /\ \E i \in Ids :
        /\ IF reportId = None THEN NewId(r, i) ELSE i = reportId
        /\ reportId' = i
        /\ Loaded(r, [mem[r] EXCEPT !.raw = None, !.st = i, !.tries = 0])
    /\ UNCHANGED <<draft, claimed, pending, result, db, env>>

\* The draft changed or was spent meanwhile: read again, three times at most.
AssignTooLate(r) ==
    /\ At(r, "assign") /\ draft # mem[r].raw
    /\ IF mem[r].tries < 3
       THEN Goto(r, "load", [mem[r] EXCEPT !.raw = None])
       ELSE NotLoaded(r, [mem[r] EXCEPT !.raw = None, !.st = None, !.tries = 0])
    /\ UNCHANGED <<redis, db, env>>

\* _save_submission: whatever was loaded, over whatever is there now.
Save(r) ==
    /\ At(r, "save")
    /\ draft' = [id |-> mem[r].st, by |-> r]
    /\ Reply(r, PageOf("form"))
    /\ UNCHANGED <<claimed, pending, result, reportId, db, env>>

Restart(r) ==
    /\ At(r, "restart")
    /\ draft' = None /\ reportId' = None /\ discarded' = TRUE
    /\ Reply(r, PageOf("fresh"))
    /\ UNCHANGED <<claimed, pending, result, db, faults>>

----------------------------------------------------------------------------
(* _recover_draft, called by submit_post before its second load and by      *)
(* _submit_outcome                                                          *)

Recovered(r) ==
    IF mem[r].phase = "outcome"
    THEN Goto(r, "take", [mem[r] EXCEPT !.raw = None, !.found = None])
    ELSE Goto(r, "load", [mem[r] EXCEPT !.raw = None, !.found = None, !.phase = "second"])

RecoverCheck(r) ==
    /\ At(r, "recover")
    /\ IF draft # None \/ pending # None THEN Recovered(r) ELSE Step(r, "claimed")
    /\ UNCHANGED <<redis, db, env>>

RecoverRead(r) ==
    /\ At(r, "claimed")
    /\ IF claimed = None THEN Recovered(r)
       ELSE Goto(r, IF claimed.id = NoId THEN "rescript" ELSE "lookup",
                 [mem[r] EXCEPT !.raw = claimed])
    /\ UNCHANGED <<redis, db, env>>

RecoverLookup(r) ==
    /\ At(r, "lookup")
    /\ Goto(r, "rescript", [mem[r] EXCEPT !.found = filed[mem[r].raw.id]])
    /\ UNCHANGED <<redis, db, env>>

\* The database does not answer: the handler fails, the browser sees an error.
RecoverLookupFails(r) ==
    /\ At(r, "lookup") /\ Fault("lookup")
    /\ Reply(r, PageOf("none"))
    /\ UNCHANGED <<redis, db, discarded>>

\* Mutant: the claimed draft is deleted whether or not its report exists.
RecoverScriptDiscards(token, case) ==
    IF pending # None \/ draft # None \/ claimed # token
    THEN UNCHANGED redis
    ELSE /\ claimed' = None /\ UNCHANGED <<pending, draft>>
         /\ IF case = None
            THEN UNCHANGED <<result, reportId>>
            ELSE result' = Received(case) /\ reportId' = None

\* Mutant: the recovery waits for a draft key that only itself could restore.
RecoverScriptWaits(token, case) ==
    IF pending # None \/ draft = None \/ claimed # token
    THEN UNCHANGED redis
    ELSE claimed' = None /\ UNCHANGED <<draft, pending, result, reportId>>

\* _RECOVER_DRAFT
RecoverScript(token, case) ==
    IF pending # None \/ draft # None \/ claimed # token
    THEN UNCHANGED redis
    ELSE /\ claimed' = None /\ UNCHANGED pending
         /\ IF case = None
            THEN draft' = claimed /\ UNCHANGED <<result, reportId>>
            ELSE result' = Received(case) /\ reportId' = None /\ UNCHANGED draft

Recover(r) ==
    /\ At(r, "rescript")
    /\ RecoverScript(mem[r].raw, mem[r].found)
    /\ Recovered(r)
    /\ UNCHANGED <<db, env>>

----------------------------------------------------------------------------
(* _submit_in_flight, _submit_outcome *)

Flight(r) ==
    /\ At(r, "flight")
    /\ IF pending # None \/ result # None \/ claimed # None THEN Outcome(r)
       ELSE IF mem[r].visit = "get" THEN Goto(r, "load", In(r, "second"))
       ELSE Reply(r, PageOf("fresh"))
    /\ UNCHANGED <<redis, db, env>>

\* GETDEL of the stored result: one reader only.
TakeResult(r) ==
    /\ result # None
    /\ result' = None
    /\ Reply(r, Success(result))
    /\ UNCHANGED <<draft, claimed, pending, reportId, db, env>>

\* A POST polls the result while "pending" is there; a GET does not wait.
PollFinds(r) == At(r, "poll") /\ mem[r].visit # "get" /\ TakeResult(r)

PollEnds(r) ==
    /\ At(r, "poll")
    /\ Step(r, "recover")
    /\ UNCHANGED <<redis, db, env>>

TakeFinds(r) == At(r, "take") /\ TakeResult(r)

TakeNothing(r) ==
    /\ At(r, "take") /\ result = None
    /\ Step(r, "load")
    /\ UNCHANGED <<redis, db, env>>

StillProcessing(r) ==
    /\ At(r, "kept")
    /\ Reply(r, PageOf(IF claimed # None THEN "kept" ELSE "pending"))
    /\ UNCHANGED <<redis, db, env>>

----------------------------------------------------------------------------
(* submit_post, the final submit *)

\* _CLAIM_DRAFT
ClaimRefused(r) ==
    /\ At(r, "claim")
    /\ draft = None \/ claimed # None
    /\ Outcome(r)
    /\ UNCHANGED <<redis, db, env>>

\* The state in memory is replaced by the draft that was claimed.
Claim(r) ==
    /\ At(r, "claim") /\ draft # None /\ claimed = None
    /\ claimed' = draft /\ draft' = None /\ pending' = r
    /\ IF draft.id = NoId
       THEN Goto(r, "unnamed", [mem[r] EXCEPT !.raw = draft, !.st = None])
       ELSE Goto(r, "validate", [mem[r] EXCEPT !.raw = draft, !.st = draft.id])
    /\ UNCHANGED <<result, reportId, db, env>>

\* Mutant: the nonce is not compared.
GiveBackScriptAnyClaim(r) ==
    /\ draft' = IF draft = None THEN mem[r].raw ELSE draft
    /\ claimed' = None /\ pending' = None
    /\ UNCHANGED <<result, reportId>>

\* _GIVE_BACK_DRAFT
GiveBackScript(r) ==
    IF pending \notin {None, r}
    THEN UNCHANGED redis
    ELSE /\ draft' = IF draft = None THEN mem[r].raw ELSE draft
         /\ claimed' = None /\ pending' = None
         /\ UNCHANGED <<result, reportId>>

\* A pre-v2.0.0 draft goes back: the next save gives it an id.
ReturnUnnamed(r) ==
    /\ At(r, "unnamed")
    /\ GiveBackScript(r)
    /\ Reply(r, PageOf("form"))
    /\ UNCHANGED <<db, env>>

\* _draft_error passes, or names a step that has to be filled in again.
Validate(r) ==
    /\ At(r, "validate")
    /\ Step(r, "insert") \/ Step(r, "reject")
    /\ UNCHANGED <<redis, db, env>>

\* The draft goes back, then _fail saves it with the error, whoever has it now,
\* unless the deadline or Redis stops it between the two.
Reject(r) ==
    /\ At(r, "reject")
    /\ GiveBackScript(r)
    /\ Step(r, "save") \/ Step(r, "ask")
    /\ UNCHANGED <<db, env>>

\* create_report flushes: the primary key admits one transaction per id.
Insert(r) ==
    LET i == mem[r].st IN
    /\ At(r, "insert")
    /\ open[i] = None /\ filed[i] = None
    /\ open' = [open EXCEPT ![i] = r]
    /\ Step(r, "attach")
    /\ UNCHANGED <<redis, filed, sent, objects, env>>

\* A duplicate key, a row lock not granted in time, a database error.
InsertFails(r) ==
    /\ At(r, "insert")
    /\ Step(r, "ask")
    /\ UNCHANGED <<redis, db, env>>

\* create_attachments, then the COMMIT is issued.
Attach(r) ==
    /\ At(r, "attach")
    /\ objects' = objects \cup {r}
    /\ sent' = sent \cup {r}
    /\ Goto(r, "commit", [mem[r] EXCEPT !.stored = TRUE])
    /\ UNCHANGED <<redis, open, filed, env>>

\* create_attachments fails: before its object was put, after it (a second
\* object or the deadline), or while the put was on its way.
AttachFails(r) ==
    /\ At(r, "attach")
    /\ \/ Step(r, "ask") /\ UNCHANGED <<objects, env>>
       \/ /\ Goto(r, "ask", [mem[r] EXCEPT !.stored = TRUE])
          /\ objects' = objects \cup {r} /\ UNCHANGED env
       \/ /\ Fault("put") /\ Step(r, "ask")
          /\ objects' = objects \cup {r} /\ UNCHANGED discarded
    /\ UNCHANGED <<redis, open, filed, sent>>

CommitReply(r) ==
    /\ At(r, "commit") /\ filed[mem[r].st] = r
    /\ Step(r, "finish")
    /\ UNCHANGED <<redis, db, env>>

\* The deadline, a cancellation, or a lost connection: landed or not.
CommitUnknown(r) ==
    /\ At(r, "commit")
    /\ Step(r, "ask")
    /\ UNCHANGED <<redis, db, env>>

\* Mutant: no report yet is taken for a COMMIT that never happened.
AskOnce(r) ==
    LET case == filed[mem[r].st] IN
    /\ At(r, "ask")
    /\ \/ case = None /\ Step(r, "cleanup")
       \/ case = r /\ Step(r, "finish")
       \/ case \notin {None, r} /\ Goto(r, "cleanother", [mem[r] EXCEPT !.found = case])
    /\ UNCHANGED <<redis, db, env>>

\* Mutant: a COMMIT that was issued is taken for one that happened.
AskTrusting(r) ==
    LET case == filed[mem[r].st] IN
    /\ At(r, "ask")
    /\ \/ case = None /\ r \notin sent /\ Step(r, "cleanup")
       \/ r \in sent /\ Step(r, "finish")
       \/ case \notin {None, r} /\ Goto(r, "cleanother", [mem[r] EXCEPT !.found = case])
    /\ UNCHANGED <<redis, db, env>>

\* The database decides whose report the draft became.
Ask(r) ==
    LET case == filed[mem[r].st] IN
    /\ At(r, "ask")
    /\ \/ case = None /\ r \in sent /\ Reply(r, PageOf("kept"))
       \/ case = None /\ r \notin sent /\ Step(r, "cleanup")
       \/ case = r /\ Step(r, "finish")
       \/ case \notin {None, r} /\ Goto(r, "cleanother", [mem[r] EXCEPT !.found = case])
    /\ UNCHANGED <<redis, db, env>>

AskFails(r) ==
    /\ At(r, "ask") /\ Fault("lookup")
    /\ Reply(r, PageOf("kept"))
    /\ UNCHANGED <<redis, db, discarded>>

\* Mutant: the objects are forgotten, not deleted.
DeleteStoredNot(r, l) ==
    /\ Goto(r, l, [mem[r] EXCEPT !.stored = FALSE])
    /\ UNCHANGED <<redis, db, env>>

\* delete_stored_objects(stored_keys)
DeleteStored(r, l) ==
    /\ objects' = IF mem[r].stored THEN objects \ {r} ELSE objects
    /\ Goto(r, l, [mem[r] EXCEPT !.stored = FALSE])
    /\ UNCHANGED <<redis, open, filed, sent, env>>

CleanUp(r)    == At(r, "cleanup") /\ DeleteStored(r, "giveback")
CleanOther(r) == At(r, "cleanother") /\ DeleteStored(r, "yield")

GiveBack(r) ==
    /\ At(r, "giveback")
    /\ GiveBackScript(r)
    /\ IF pending \in {None, r} THEN Step(r, "save") ELSE Outcome(r)
    /\ UNCHANGED <<db, env>>

\* _FINISH_CLAIM
FinishScript(r, res) ==
    /\ result' = IF res = None THEN result ELSE res
    /\ IF pending \in {None, r}
       THEN draft' = None /\ claimed' = None /\ pending' = None /\ reportId' = None
       ELSE UNCHANGED <<draft, claimed, pending, reportId>>

Finish(r) ==
    LET res == [case |-> r, pin |-> TRUE] IN
    /\ At(r, "finish")
    /\ FinishScript(r, res)
    /\ Reply(r, Success(res))
    /\ UNCHANGED <<db, env>>

\* Redis does not answer: best effort, the page has the PIN.
FinishFails(r) ==
    /\ At(r, "finish") /\ Fault("crash")
    /\ Reply(r, Success([case |-> r, pin |-> TRUE]))
    /\ UNCHANGED <<redis, db, discarded>>

Yield(r) ==
    /\ At(r, "yield")
    /\ FinishScript(r, None)
    /\ Step(r, "stored")
    /\ UNCHANGED <<db, env>>

\* _stored_result_page
StoredResult(r) ==
    LET case == mem[r].found IN
    /\ At(r, "stored")
    /\ Reply(r, Success(IF result # None /\ result.case = case THEN result ELSE Received(case)))
    /\ UNCHANGED <<redis, db, env>>

----------------------------------------------------------------------------
(* The environment *)

\* A transaction that is over without a COMMIT: the session is closed.
RollBack(r) ==
    /\ mem[r].visit = "get"
    /\ r \notin sent
    /\ \E i \in Ids : open[i] = r /\ open' = [open EXCEPT ![i] = None]
    /\ UNCHANGED <<redis, filed, sent, objects, pc, mem, page, env>>

CommitLands(r) ==
    /\ r \in sent
    /\ \E i \in Ids :
        /\ open[i] = r
        /\ open' = [open EXCEPT ![i] = None]
        /\ filed' = [filed EXCEPT ![i] = r]
    /\ UNCHANGED <<redis, sent, objects, pc, mem, page, env>>

\* The connection broke before the COMMIT arrived.
CommitLost(r) ==
    /\ r \in sent /\ Fault("commit")
    /\ \E i \in Ids : open[i] = r /\ open' = [open EXCEPT ![i] = None]
    /\ UNCHANGED <<redis, filed, sent, objects, pc, mem, page, discarded>>

\* The worker goes away, Redis refuses a command, the answer is lost.
Crash(r) ==
    /\ pc[r] # "idle" /\ (At(r, "done") => page[r].what # "none")
    /\ Fault("crash")
    /\ Reply(r, PageOf("none"))
    /\ UNCHANGED <<redis, db, discarded>>

\* From the claim on: the deadline of the submit counts.
Holding == {"unnamed", "validate", "reject", "insert", "attach", "commit",
            "ask", "cleanup", "giveback", "cleanother", "yield", "finish"}

PendingExpires ==
    /\ pending # None
    /\ SlowSubmits \/ pc[pending] \notin Holding
    /\ pending' = None
    /\ UNCHANGED <<draft, claimed, result, reportId, db, pc, mem, page, env>>

ResultExpires ==
    /\ result # None /\ Fault("result")
    /\ result' = None
    /\ UNCHANGED <<draft, claimed, pending, reportId, db, pc, mem, page, discarded>>

\* Two hours without a save.
DraftExpires ==
    /\ Fault("expiry") /\ discarded' = TRUE
    /\ \/ draft # None /\ draft' = None /\ UNCHANGED claimed
       \/ claimed # None /\ claimed' = None /\ UNCHANGED draft
    /\ UNCHANGED <<pending, result, reportId, db, pc, mem, page>>

Handler(r) ==
    \/ Load(r) \/ AssignReportId(r) \/ AssignTooLate(r)
    \/ Save(r) \/ Restart(r)
    \/ RecoverCheck(r) \/ RecoverRead(r) \/ RecoverLookup(r) \/ Recover(r)
    \/ Flight(r) \/ PollFinds(r) \/ PollEnds(r) \/ TakeFinds(r) \/ TakeNothing(r)
    \/ StillProcessing(r)
    \/ ClaimRefused(r) \/ Claim(r) \/ ReturnUnnamed(r) \/ Validate(r) \/ Reject(r)
    \/ Insert(r) \/ InsertFails(r) \/ Attach(r) \/ AttachFails(r)
    \/ CommitReply(r) \/ CommitUnknown(r)
    \/ Ask(r) \/ CleanUp(r) \/ CleanOther(r) \/ GiveBack(r)
    \/ Finish(r) \/ Yield(r) \/ StoredResult(r)

Next ==
    \/ \E r \in Tabs :
        \/ \E v \in Visits : Start(r, v)
        \/ CheckAgain(r)
        \/ Handler(r)
        \/ RecoverLookupFails(r) \/ AskFails(r) \/ FinishFails(r) \/ Crash(r)
        \/ RollBack(r) \/ CommitLands(r) \/ CommitLost(r)
    \/ PendingExpires \/ ResultExpires \/ DraftExpires

Spec == Init /\ [][Next]_vars

\* The scheduler runs every handler, the database settles every transaction,
\* the pending key has a TTL, and the reporter sends the request and checks
\* again.  Crashes and the other faults are never owed.
Fairness ==
    /\ \A r \in Tabs :
        /\ WF_vars(Handler(r))
        /\ WF_vars(\E v \in Visits : Start(r, v))
        /\ WF_vars(CheckAgain(r))
        /\ WF_vars(RollBack(r)) /\ WF_vars(CommitLands(r))
    /\ WF_vars(PendingExpires)

FairSpec == Spec /\ Fairness
----------------------------------------------------------------------------
(* Properties *)

FiledReports == {i \in Ids : filed[i] # None}

\* "Received" is said only of a report that is in the database, under the case
\* number it was committed with, whoever of several submits answers.
ReceivedIsFiled ==
    \A r \in Tabs : page[r].what = "success" =>
        \E i \in Ids : filed[i] = page[r].case

\* The attachments of a committed report are never among the objects that a
\* failed submit cleans up.
AttachmentsKept == \A i \in FiledReports : filed[i] \in objects

\* Until its report exists the draft is somewhere the reporter can get it
\* back from: no failure between claim and commit loses the answers.
DraftKept ==
    FiledReports = {} /\ ~discarded => draft # None \/ claimed # None

\* While a submit's claim is pending only that submit ends it: no recovery and
\* no slow submit that gives back or finishes late takes the draft from it.
ClaimRespected ==
    [][\A q \in Tabs :
        pending = q /\ claimed # None /\ claimed' # claimed =>
            pc'[q] # pc[q] \/ discarded']_vars

\* An attempt that is over without its report leaves no object behind: those
\* put in external storage before a commit that does not happen go, as long as
\* no worker died and neither database nor store lost a reply.
FailedAttemptCleansUp ==
    faults = 0 => \A r \in objects : At(r, "done") => \E i \in Ids : r \in {filed[i], open[i]}

\* One draft yields at most one report (reports.py, the comment above the
\* scripts), however its submits, saves and recoveries interleave, and a tab is
\* told of no other: the submit does what OneDraft promises.
Abstract == INSTANCE OneDraft WITH
    reports <- {filed[i] : i \in FiledReports},
    told    <- [r \in Tabs |-> page[r].case]
ImplementsOneDraft == Abstract!Spec

\* A claimed draft does not stay claimed: once its submit has failed or died it
\* comes back, or its report exists and some tab has said so (unless a stale
\* save has put a second copy under the draft's own key meanwhile: see
\* ExpiredClaimResolved).
ClaimResolved ==
    [](draft = None \/ claimed = None) =>
        (claimed # None) ~> (claimed = None \/ \E r \in Tabs : page[r].what = "success")

\* Once "pending" expires, the claimed draft is given back or the session gets
\* the "received" page, at the latest when the reporter submits again.
ExpiredClaimResolved ==
    (claimed # None /\ pending = None /\ \E r \in Tabs : At(r, "claim"))
        ~> (claimed = None)

\* Every request of the reporter ends with the form or with "received".
EveryTabAnswered ==
    \A r \in Tabs : At(r, "load") ~>
        (At(r, "done") /\ page[r].what \in {"form", "fresh", "success"})
=============================================================================
