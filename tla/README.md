# OpenWhistle in TLA+

OpenWhistle is a whistleblower portal: a FastAPI application over PostgreSQL
(READ COMMITTED, through SQLAlchemy's ORM) and Redis.  The application is
stateless and runs in several replicas; every replica also runs the scheduler of
the background jobs.  Nothing is shared but the database, Redis and the object
store, so every interesting question is one about the order in which requests
and jobs read and write those three.

## 1. Inventory

| Component | State it keeps | Operations | What is hard | Module |
|---|---|---|---|---|
| Final submit (`api/reports.py`, `services/report.py` `create_report`, `services/attachment.py`) | Redis: the draft, its `:claimed`, `:pending`, `:result`, `:report-id` keys; PostgreSQL: reports, attachments; objects in S3 | GET and POST `/submit`, restart, five Lua scripts | double clicks, dying workers, lost COMMITs, lifetimes of keys, objects before COMMIT | `Submission` |
| Reporting form (`api/reports.py`) | the draft, as one value in Redis | six steps, back, remove a file, restart | several tabs that load, change and save one draft; offers that change meanwhile | `Form` |
| Case handling (`api/admin.py`, `services/report.py`) | reports, messages, deletion requests, audit log, links | acknowledge, status, reply, assign, reveal identity, request / confirm / cancel deletion, notes, links | the ORM writes what differs from what it *loaded*; row locks; four eyes | `CaseHandling`, links in `Reporter` |
| Retention job (`services/retention.py`) | deletes reports; a Redis lock | daily run | selects, then deletes by id | `CaseHandling`, `Notices` |
| Reporter access (`/status`, `/reply`) | status sessions, failure counters in Redis | sign in, view, reply, log out | sessions of deleted cases; keys replaced at every reply | `Reporter` |
| Sign-in and sessions (`api/auth.py`, `services/auth.py`, `mfa.py`, `deps.py`) | sessions, tokens between the factors, used codes in Redis; the account | login, second factor, enrolment, refresh, log-out, password change, sweep | a sweep racing a login or a refresh; single use | `Access` |
| Attempt counters, alert (`services/rate_limit.py`), upload budget (`middleware.py`, `_draft_room`) | counters and a lock in Redis, bytes reserved in a process | count, compare, take back; reserve, measure, save | commands of several requests in between | `Limits` |
| Accounts, setup wizard, OIDC, LDAP (`api/admin.py`, `api/wizard.py`, `services/users.py`, `oidc.py`, `ldap_auth.py`) | admin users, setup status and token, OIDC states | set up, create, change role, deactivate, reactivate, reset, link, sign on | checks without locks; callbacks in another browser | `Accounts`, `Access` |
| Notifications, digest, reminders | queue, dedup marks and locks in Redis | queue, deliver, requeue, forget; remind | undelivered digests, erased cases, overlapping runs | `Notices` |
| Attachments and storage | objects, rows | put, delete, re-key | crash between copy, update and delete | `Submission`, `Rekey` |
| Branding | versioned snapshot in Redis | read, change | filling a cache with what was loaded before a change | `Branding` |
| Encryption keys (`services/encryption.py`, `scripts/rotate_encryption_key.py`) | tokens in rows, keys in the environment | seal, rotate | a scan and a write in two transactions beside requests | `Rotation` |
| Installation count (`services/telemetry.py`) | consent row, a lock in Redis | hourly job, switch, reset | every replica at once, answers older than what they are used for | `Telemetry` |
| Categories, locations, organisations | rows | single-row edits | answers checked against them earlier | in `Form` |
| Deadlines, update check, integrity check, PDF, HTTP layer, demo data, other scripts | small or none | | calendar arithmetic, pure I/O or layout | not modelled |

`PROJECT.json` lists every component with its status, and every hazard with the
line it bites at and the properties that watch it.

### What makes each component correct

* Final submit: one draft, one report; "received" only of a committed report;
  neither answers nor attachments lost; every click is answered.
* Case handling: threads in order; deletion takes two independent people; the
  retention clock runs from the last closure; who sees the identity has the case.
* Sign-in: no session outlives the credential it was won with; a code and a token
  count once.  Accounts: somebody can always administer the instance.
* Form: no report incomplete, of a wrong organisation, or with a name its reporter
  did not want to give, however many tabs.
* Reporter: an ended session stays ended; none is prolonged.
* Limits: a bound holds for requests that come at once, and a lock ends.
* Jobs and notifications: nothing lost for good, nothing told twice, nothing about
  an erased case.
* Upkeep: no file and no value lost on the way; pages show the saved brand; one
  count a day.

## 2. Plan

All modules of the plan are written, in this order of importance:

1. `Submission` with the abstract `OneDraft`: the reporter's report must not get
   lost, the most important promise of the system; `Form`: what is in it.
2. `CaseHandling`: the office's handlers, the reporter's replies and the retention
   job on one row.
3. `Access` with the abstract `SignIn`: login, second factor, sessions and the sweep; `Accounts`: who may
   change whom; `Reporter`: the reporter's sessions, links between cases.
4. `Notices` with the abstract `Outbox`: the queue, the digests and the reminders.
5. `Limits`: counters, the upload budget and the drafts' room.
6. `Rekey`, `Branding`, `Rotation`, `Telemetry`: the upkeep of stored data.

Composition.  `Submission` is shown to implement `OneDraft`, `Access`
to implement `SignIn`, `Notices` to implement `Outbox`.  The other modules
meet in a single row or key each, which one of them owns and the others take as
input: `Form` hands `Submission` its draft (`Save`), `Limits` is `Access`'s refusal
(`Locked`), `Accounts` changes what `Access` calls `ResetAuthenticator` and
`Deactivate`, `CaseHandling`'s deletion is `Notices`' `DeleteCase` and `Reporter`'s
`Delete`.

The safety properties of every module are theorems (section 5); what is left to
TLC is named at the end of that section.  What is left to model: the composition
of `Form` with `Submission`, the update check's caches.

## 3. The modules

### Submission, OneDraft

One session id and one draft.  A *tab* is a request of the reporter's browser
together with the handler that serves it; `pc[r]` names the next Redis command,
script or statement, so everything may happen between any two.  `mem[r]` holds
the handler's locals, `page[r]` the answer.

| Model | Code |
|---|---|
| `draft`, `claimed`, `pending`, `result`, `reportId` | the five keys of `_submission_key(session_id)` |
| `open`, `filed`, `sent` | the transaction that inserted a report id, the committed row, COMMITs issued |
| `objects` | attempts whose attachment is in the bucket |
| `Load` ... `Save` | `_load_submission`, `_load_draft`, `_save_submission` (two loads of a GET) |
| `RecoverCheck` ... `RecoverScript` | `_recover_draft` with `_committed_case_number` and `_RECOVER_DRAFT` |
| `Claim` ... `Finish` | the review branch of `submit_post` with `_CLAIM_DRAFT`, `_GIVE_BACK_DRAFT`, `_FINISH_CLAIM` |
| `PollFinds` ... `StillProcessing` | `_await_other_submit`, `_submit_outcome` |
| `Crash`, `CommitLost`, `RecoverLookupFails`, `AskFails`, `AttachFails`, `FinishFails`, `DraftExpires` | the faults; `Faults` and `MaxFaults` bound them |
| `PendingExpires` | the 120 s of `_PENDING_TTL` |

Abstractions.  A case number is named by the tab that drew it and a claim's nonce
by the tab that claimed (a tab claims at most once).  An encrypted token in Redis
is named by its report id and the request that wrote it.  The wizard's steps
before the review only replace the draft and are the action `Save`.  With
`SlowSubmits = FALSE`, `pending` expires only when no live handler holds the
claim (30 s of `_SUBMIT_TIMEOUT_SECONDS` against 120 s); with `TRUE` that
assumption is dropped.  Without it, and only for a draft saved before v2.0.0, a
late `_give_back_draft` of a token that still has no id can bring back a draft
whose report exists, and so can a restart while such a submit is about to give it
back: these drafts are checked with `SlowSubmits = FALSE` and without `restart`.

A COMMIT that was sent and never reached the server does not happen, but the
handler cannot tell: it answers with the pending page and keeps the objects, and
no later step removes them.  `FailedAttemptCleansUp` says that nothing else
leaves objects behind.

`OneDraft` is what the submit promises: a draft is filed once and for good, and
a tab that says "received" names that report.  `ImplementsOneDraft` is the
refinement; what the draft was filed under is a set of case numbers, so that a
second report would show as a second element.

### Form

A request loads the draft (`Begin`), answers one step of it and saves the whole,
or goes on to claim and file.  What the other tabs saved in between is
overwritten.

| Model | Code |
|---|---|
| `draft`, `claimed` | `_submission_key`, its `:claimed` key |
| `state[t]`, `offer[t]` | the draft as the request loaded it, the categories and locations it was offered |
| `Get`, `Remove`, `Restart` | `submit_get`, `submit_remove_attachment`, `submit_restart` |
| `Stale`, `Own`, `Back` | the top of `submit_post`: a page of another step, of another organisation, the back button |
| `PostMode` ... `PostAttachments`, `Claim`, `File` | the branches of `submit_post`; `DraftError` is `_draft_error` |
| `Begin`, `Loadable` | `_tenant`, `_load_draft`; a request that is given a new session id leaves |
| `Change` and what it chooses from | the office's pages for categories, locations and organisations, the mode setting |
| `astray`, `report` | history: a draft was saved without an organisation; what was filed |

Texts, names and files are there or not.  A draft saved without an organisation,
by a stale page of an empty form, may move to another organisation's form
(`_load_draft` says so); `FiledComplete` sets it aside.

### CaseHandling

One case.  A handler loads the row (`Load`), checks the operation on what it
loaded, and writes in a transaction of its own.  `Flushed` is what the ORM's
UPDATE does: columns that differ from the loaded ones are written over whatever
the row holds by then.  Nothing in the office's handlers locks the row before
that, so two handlers overrun each other column by column.

| Model | Code |
|---|---|
| `row`, `request`, `thread` | the rows of `reports`, `deletion_requests`, `report_messages` |
| `sharing`, `locked`, `reqLocked` | FOR KEY SHARE by an audit entry's foreign key; the row FOR UPDATE by `_next_sent_at` or deleted by the job; the request FOR UPDATE by `get_active_deletion_request` or deleted by a withdrawal |
| `Load` | `_get_authorized_report` and the operation's checks (`May`) |
| `Write` | `acknowledge_report`, `update_status`, `assign_report`, `_reveal_gate` with `reveal_identity`, to the COMMIT |
| `AuditReply`, `LockThread`, `Post` | `admin_reply` / `add_admin_message`; the last two also `add_whistleblower_message` |
| `DeadlockDetected`, `JobAborted` | PostgreSQL ends one of two transactions that wait for each other, a request's or the job's |
| `RequestDeletion`, `LockRequest`, `ConfirmDeletion` | `request_delete`, `confirm_delete` |
| `CancelDeletion`, `LogWithdrawal` | `cancel_delete`: the DELETE of the request, then the audit entry, which needs the case, and the COMMIT |
| `SelectExpired`, `LockExpired`, `EraseExpired` | `run_retention_cleanup`: the SELECT, the DELETE's lock on the row, its cascade to the request and the COMMIT |
| `lastClosed`, `known`, `overran` | history: last closure, who saw the identity, whether a write overran another |

A race that the code allows is in the module and no property excludes it: two
admins who reveal the identity of an unassigned case at once are both shown it,
the second while the case is the first one's (`known`): the check and the
assignment use the case as loaded.

Two rings of waits can close, and PostgreSQL ends one transaction of each.  Two
office replies at once each hold the row's key share for their audit entry and
want it FOR UPDATE: one is a 500 and not stored (`RepliesCross`).  The job's
DELETE has the case and its cascade waits for the deletion request, which a
confirmation has FOR UPDATE or a withdrawal has deleted; the confirmation wants
to delete the case, the withdrawal wants its key share for the audit entry
(`JobCrosses`).  Either the request is a 500 and nothing of it is kept, or the job
logs "Retention cleanup failed" and selects again in its next run.  In the code
`unlink_report` can close the same ring through the row of `case_links` it has
deleted, which the cascade wants as well; links are in `Reporter`, without locks.

Abstractions.  One organisation (the tenant check of `_can_access_report` is a
constant of the case), message texts left out, microseconds and days as units of
one clock (`Day`), the last statement that may wait and its COMMIT one step.  The
job deletes several cases in one transaction, here there is one; one that is
under way in another replica is the same transaction twice.  Who made whom (`Maker`) is the account's `created_by_id`; a reset of the
authenticator may change it in the code, here it is a constant.

### Access, SignIn

One account and any number of requests.  A request takes one step per Redis
command, script or statement; `pc[h]` names the next, or how the request was
answered.  A session, a token between the two factors, a password and a TOTP
secret are named by the request that made them.

| Model | Code |
|---|---|
| `acct`, `snap[h]` | the row of `admin_users`, and the row as a request loaded it |
| `sessions`, `pending`, `setups` | the keys of `store_session`, of a login before its code, of a login before its enrolment |
| `used` | `totp_used:`, with the time the mark expires |
| `Login`, `SecondFactor` | `login_post` (and the end of an LDAP or OIDC login), `_second_factor` |
| `ConsumeToken`, `LoadUser`, `Locked`, `VerifyCode`, `MarkCode`, `Again`, `Enrol`, `StartSession` | `login_mfa_post`, `mfa_setup_post`, `consume_totp`, `_start_session` |
| `ValidateSession`, `SignedIn` | `get_signed_in_admin`: the key, then the row |
| `StoreNew`, `RetireOld`, `UndoRefresh`, `Logout` | `session_refresh`, the log-out |
| `LoadTarget`, `ResetAuthenticator`, `Deactivate`, `Reactivate`, `ChangePassword` | the changes of the account, to the COMMIT |
| `Sweep`, `SweepFails` | `revoke_user_sessions`, one script, or Redis not answering |
| `Expire`, `MarkExpires`, `Tick` | lifetimes of keys and of a code's mark, the clock in TOTP steps of 30 s |
| `cred`, `won`, `late`, `epoch`, `ended`, `raced`, `proved`, `overran` | history: what a key was won with, the code that was accepted, who marked it after its window, the last deactivation, ended sessions, logins a sweep fell into, secrets shown a code of, whether a write overran another |

`consume_totp` is two steps: `verify_totp` reads the clock, the `SET NX` with
`ex=90` marks the code some time later.  The mark lives three steps of the clock
from wherever in a step it was made, so it ends within its last one
(`MarkExpires`) or with it (`Tick`).  A code verifies in three steps, and the mark
lasts exactly as long: a request that verifies in the last of them and is held up
until the first mark has ended marks the same code again, and both get in.  The
docstring of `consume_totp` says that a code "authenticates one action";
`CodeOnce` states what holds, with the requests that mark after the window set aside
(`late`).

Abstractions.  The attempt counter is a refusal that may come
at its place.  Whether an administrator may change the account is not modelled;
refused, the request changes nothing.  `Drift` is how far the authenticator's
clock is ahead.  The lifetimes of sessions and tokens are `Expire` at any time.
The one-click login of demonstration instances is left out.

A password change, a reset and a deactivation commit, then sweep.  A login that
has loaded the account or consumed its token before the sweep stores its key
after it, and nobody looks again.  `OthersCurrent` says that this is all: with
those logins set aside (`raced`), nothing that refreshes, retries, two sweeps or
two changes can do leaves an outdated session.  `ResetHolds` says that a reset
authenticator opens nothing before a code of the new secret was shown, and a
temporary password is marked as one.  It is stated for histories in which no
handler has written on an account changed since it loaded it.  Otherwise the ORM, which writes only the
flags that differ from those loaded, can leave a flag of one change beside the
secret or password of another.

`SignIn` is what a sign-in promises, without Redis and the steps of the requests:
a token lets one login in, a login has one session, a session is replaced at once
by one successor, and what has ended stays ended.  The mapping (`ImplementsSignIn`)
takes as a standing session a stored key whose holder has been answered.  So
`StoreNew` and `UndoRefresh` are stutters, `RetireOld` is the renewal, and a refresh
whose old session was revoked between the two leaves no trace.  A successor may
end before it is handed out: the sweep of a password change spares the session
that asked for it and ends the key a refresh of that session has just stored; the
refresh then retires the spared one too, and the page has a dead cookie.
`OneSuccessor` follows and is a theorem only.

### Accounts

The accounts of an instance and the requests that make and change them: a handler
loads its caller, loads the account, checks, and writes what differs.

| Model | Code |
|---|---|
| `user`, `complete`, `states` | `admin_users`, `setup_status`, the OIDC states in Redis with what they are bound to |
| `OpenSetup`, `PostSetup`, `CheckToken`, `CreateInitial`, `DeleteToken` | `setup_get`, `setup_post`, `create_initial_admin` under its advisory lock |
| `Call`, `CheckName`, `InsertAccount` | `require_role`, `create_user` |
| `LoadTarget`, `Count`, `WriteRow` | the role, deactivation, reactivation and reset pages; `SameOrg`, `MayManage`, `Enough` are their checks |
| `LdapLogin`, `LdapTaken`, `Provision` | the directory's branch of `login_post` |
| `StartLink`, `StartLogin`, `Callback`, `Exchange`, `Link`, `Unlink` | `oidc_link`, `oidc_authorize`, `oidc_callback`, `_oidc_link_callback`, `oidc_unlink` |
| `Enrol`, `ReplacePassword`, `HostPassword`, `HostTotp` | the holder's own changes, `reset_admin_password.py` |
| `overran`, `stale`, `installers`, `rank` | history: checks that another write overlapped, targets promoted after they were loaded, the wizard's accounts, the caller's role when it was checked |

Where a check has no lock the properties say so.  The count of administrators and
the UPDATE are two statements: a change that another overtakes between them can
leave nobody (`"roles" \in overran`).  The unique constraint knows one spelling: two accounts
made at once can differ in case only (`"names"`).  The wizard compares no names.
The demo-mode guard, and an inactive organisation chosen for a new account, are
left out.

### Reporter

| Model | Code |
|---|---|
| `session` | the keys of `status_session_key`, with their expiry |
| `Auth`, `Login` | `status_post`, and a reply without a session: case number and PIN, then the key |
| `View`, `Look` | `status_get`, the download of an attachment |
| `Reply`, `Load`, `Post`, `Ttl`, `Fresh`, `DropOld` | `reply_post`: session, case, message, and the new key with what the old one had left |
| `Delete`, `Sweep`, `SweepFails` | `confirm_deletion` and `end_status_sessions` |
| `Link`, `InsertLink`, `Unlink` | `link_report`, `link_cases`, `unlink_report` |
| `born`, `root`, `ended` | history: when the PIN was entered, the sign-in a key goes back to, the sign-ins that were logged out |
| `crossing`, `loose`, `doubled` | history: sign-ins of which two replies overlapped, or one a log-out or deletion, or one died; replies slower than the time they had read; overlapping links |

A reply that had to sign in stores its key before it looks at its text: an empty
or too long one is refused then (422), and the key, which no cookie names, lasts
its two hours (`Login`).  A reply that is under way when its session is logged out or its case deleted
stores its fresh key all the same; the case being gone, it opens the sign-in
form.  Two replies at once leave two keys, and so does one that dies between
storing the fresh key and dropping the old one; a log-out ends one of them.
`SessionsEnd` says that nothing else leaves a key behind, by following every key
to the sign-in it goes back to (`root`).  A key that is gone when the reply asks for its TTL gives a session of one
second.  Two links of one pair at once are both stored.

### Limits

Three counters that share no state.  A guess is one attempt through `_claim`
(`Incr`, `ExpireKey` or `TakeBack` and `Decr`), `Release` and `Reset`; an upload
reserves its length (`Admit`, `Leave`), then measures Redis under the lock of
`_draft_room` (`Measure`, `SaveFiles`, `Unlock`).  The failures of the whole
instance are counted per minute, a command at a time: `Wrong` reads the clock,
`Tally` is the INCR of that minute's bucket, `Prolong` its EXPIRE, `SumUp` the MGET
and the comparison, `Alert` the SET NX EX of the mark.  `threshold` is the setting,
chosen at the start from `Thresholds`; 0 switches the alert off.  A worker may die
between any two commands (`Die`, `Forsake`), and keys expire by the minutes of
`clock`: a bucket or a mark that was set within a minute ends somewhere within the
one it expires in (`BucketExpires`, `MarkExpires`) or with it (`MinutePasses`).

So a mark of `Window` minutes may still stand in the minute after its window.  With
a window of 2, an alert at 0:59 and failures at 1:30 and 2:30 that reach the
threshold, the SET NX at 2:30 is refused, and the buckets 1 and 2 have no alert in
their window: `SprayNoticed` accepts an alert of the minute before it, which is as
much as the code gives (the docstring of `record_instance_login_failure` says
"exactly once per window").  `lapsed` are the failures the code cannot promise
anything of: their INCR came in a later minute than the clock was read in, their
sum more than a minute after it, when the first buckets may be gone, or their
worker died in between.  History: `counted`
is who was let through since the counter appeared, `strays` DECRs of a count not
one's own (the counter had expired or been reset since the INCR), `loose` an
upload that outlived the lock or an INFO that was not answered; `alerts`, `failed`
when an alert was given and which guesses were counted.

### Notices, Outbox

Any number of cases and replicas; every replica runs both jobs.  A step is one
Redis command, one MULTI/EXEC or one attempt to send.

| Model | Code |
|---|---|
| `config` | `_channels_enabled`, `batching_enabled`, `reminder_enabled` |
| `stage` | the case's row, and after its deletion the next command of `forget_case` |
| `due` | a committed report or reply whose `notify_...` call is still to come |
| `queue` | the two sets of `_QUEUE_KEYS` |
| `marks`, `lock` | `reminder:ack:`, `reminder:feedback:`, `openwhistle:job_lock:sla_reminders` |
| `Arrives`, `Replies`, `Notify` | `submit_post` and `add_whistleblower_message` after COMMIT, `_queue_or_send` |
| `ReadQueue`, `Deliver`, `Requeue` | `deliver_notification_digest`, by the scheduler and at shutdown; `_deliver`, `_requeue` |
| `TakeLock`, `Select`, `CheckMark`, `Mail`, `Mark`, `Finish`, `Unlock` | `send_sla_reminders`, `_check_ack_reminder`, `_check_feedback_reminder`, `_dispatch_reminder` |
| `DigestFails`, `CheckFails`, `RunDies`, `ForgetFails` | Redis refusing, a replica dying |
| `LockExpires`, `MarkExpires` | `ex=300`, `_dedup_ttl_seconds` |
| `DeleteCase`, `ForgetQueue`, `ForgetMarks` | `confirm_delete` or `run_retention_cleanup` after COMMIT, then `forget_case` |
| `told`, `again`, `lost`, `recent`, `twice`, `excused`, `stale`, `named` | history: see the comments in the module |

Abstractions.  A case has one notice of its report and one of a reply: the queue
is a set, so a second reply adds nothing until the first is told.  Which deadlines
are near is any subset of the open cases' at `Select`.  A channel that fails has
not delivered.  A replica that dies between a COMMIT and its notice is a `Notify`
that loses it.  The reminders' webhook carries counts only and is left out, and
so are the security alert and the mail to the reporter, which keep no state.

Two things the code does not prevent are set aside by history variables, and
listed as hazards.  A digest that holds a case while it is being forgotten puts
it back if no channel takes the digest, and a reminder run marks it again
(`stale`): the next digest then names an erased case.  A run that takes longer
than the lock's 300 s, or fails between the mail and the mark (`excused`), lets
a deadline be reminded of twice; the lock is deleted without a look at whose it
is.  `ErasedUnnamed` and `RemindedOnce` say that nothing else
in these steps does.  Redis keeps nothing on disk: one that restarts loses queue,
marks and lock, and the next run reminds again.  That is not modelled here.

`Outbox` is what the office may expect of its notices, without Redis, replicas
and the commands of `forget_case`: a notice waits from its event on, until the
channels that work take it, all at once and for good, or a fault loses it; it is
withdrawn only when its case is deleted or no channel is configured.  The mapping
(`ImplementsOutbox`) takes as waiting what is `due`, queued or held by a digest,
and as deleted every case that `forget_case` has begun with or ended.  So a
`ReadQueue` or a `Requeue` without a fault is a stutter, a digest told by one replica
while another puts the same notice back would be a step that `Outbox` does not
have, and no channel gets a notice twice (`ToldOnce`).

### Rekey, Branding, Rotation, Telemetry

* `Rekey`: `rekey_legacy_objects` by several runs (the lock expires after an hour
  and is never released) beside deletions: `StoreNew`, `Repoint`, `DropObject`,
  each able to fail or be the last.  `left` is what nobody is going to delete:
  new objects of a failed store or a dead run, of a run that lost a row to
  another, or of a deletion that read the key before a move.  No file is lost.
* `Branding`: a save commits, increments the version and drops the snapshot; a
  page that misses it reads the version, loads the rows and stores them with the
  version it read.  A save that dies before its INCR leaves the old snapshot for
  up to an hour (`unsaid`).  Redis keeps nothing on disk: a page under way when
  it restarts may store under a version that comes again (`before`).
* `Rotation`: the script reads every value, and writes those of an old key in a
  second transaction, where each UPDATE names the token it read (`Unchanged`).
  Requests seal new values under the current key meanwhile.  The operator follows
  the script's documentation: a new key comes with the old one in
  `ENCRYPTION_KEY_PREVIOUS`, which is emptied after a run that skipped nothing.
* `Telemetry`: `report_if_due` in every replica, with its lock that is never given
  back, and the administrator's switch and reset.  A job under way when Redis
  loses the lock (`torn`) may be the second attempt of a day; a reset during a
  send marks the new identifier as sent.

## 4. The runs

| Run | Shows | Bounds |
|---|---|---|
| `submission_safety` | "received" only of a filed report, attachments and answers kept, failed attempts clean up, a pending claim is respected | 3 tabs, one fault of three kinds: two submits race while a third request recovers |
| `submission_legacy` | the refinement of `OneDraft`, for a draft without id | 4 tabs: submits, page loads that assign ids, stale saves of the steps before; no restart (see the module) |
| `submission_live` | every claim is resolved, every request answered | 2 tabs of every kind, one fault of every kind |
| `case_safety` | `CaseHandling`: thread order, four eyes, feedback is a message, the retention clock without overrunning writes, no ring of waits but the two known ones; `Limits`: the limit of attempts, its lock, the alert, the room for uploads | 3 requests of every kind by 3 accounts and the retention job; 3 guesses at a limit of 2 over 4 minutes, a window of 2 minutes, thresholds 1 and 2; 3 uploads of which 2 fit |
| `access_safety` | the refinement of `SignIn`; sessions are current after the sweep except for logins it fell into, an ended session has no successor, a code marked in its window counts once, a reset holds | 3 requests of every kind, 4 points in time, a clock one step ahead; 4 requests of two subsets of the kinds (login with reset and enrolment; login with refresh, deactivation and reactivation) were checked by hand |
| `notices` | the refinement of `Outbox`: notices are neither dropped nor told twice; they are told in the end, reminders come once, an erased case does not come back | 1 case, 2 digests, 2 reminder runs; digests with reminders off and any channels, reminders by mail or none with notices sent at once (the jobs share the case and nothing else); 2 cases with digests were checked by hand (3.1 million states) |
| `form` | no name in an anonymous draft, no step skipped, no incomplete report | 2 tabs on the forms of 2 organisations, each with a category of its own, offered both or one of them at first, and one change by the office |
| `accounts` | one account by the wizard, names distinct, somebody who can administer, the superadmin tier, links and sign-ons | 3 requests of each mix that can meet (`MCMixes`), on a new instance or one with two administrators (`MCStaff`), 1 or 2 changes by holders or the host (`MCMaxTurns`); 4 requests were checked once more by hand, but for the wizard's mix and that of new accounts with roles |
| `reporter` | sessions end and stay ended, a pair is linked once | 4 requests of sign-ins, replies and log-outs, 3 of the other mixes (`MCMixes`; a wrong `crossing` shows only with four), sessions of two hours |
| `upkeep` | files follow their rows, pages show the brand, values are kept, one count a day | 2 re-keying runs over 2 files; 2 saves, 2 pages, 1 restart of Redis; 2 rotations over 2 values and 3 keys; 2 replicas over 2 days of 4 parts, a lock of 3, 1 restart |
| `submission_stuck` | *violated*: the comment "Once pending expires, the claimed draft is given back ... otherwise the session gets the received page" | 3 tabs, one crash |
| `case_clock` | *violated*: "the retention clock always runs from the most recent closure" | 3 requests |

In `case_safety` and `upkeep` a variable `part` of the MC module (`MCCaseLimits`,
`MCUpkeep`) says which component a
behaviour is about: the parts share no state, so their states add up instead of
multiplying, and nothing that can happen in one is left out.  Two actors of a
kind are what every race here needs, and a third where the second's trace has to
meet a fault.  Every type invariant (`TypeOK` of each MC module) was checked with
these cfgs once more by hand; all are theorems.

The handlers end, so runs of them set `CHECK_DEADLOCK FALSE`.  That no handler of a
case waits for a lock for ever is stated as `SomeoneGoesOn` instead.  `Blockers(x)`
are the transactions the next statement of a request, or of the job, has to wait
for.  Every ring of waits contains one of the two pairs PostgreSQL breaks
(`OnlyKnownRings`); while anybody is under way, somebody waits for nobody or is in
such a pair (`NobodyStuck`); and a request, or the job, can take its next step
exactly when it waits for nobody or is of such a pair (the `ENABLED` conjuncts).
The rings themselves are not excluded: the code has them, and a 500 or a failed
run of the job is what comes of one.

Fairness (`Submission!FairSpec`): the event loop runs every handler that can go
on, PostgreSQL ends every transaction, Redis expires keys, and the reporter
sends the request and reloads an inconclusive page.  Faults are never fair.
`Notices!FairSpec`: the scheduler starts the digests and the event loop runs
them (weak fairness), and a channel that is tried again and again takes a digest
some day (strong fairness): that is an assumption about the mail server, without
which nothing can be promised.  Nothing is assumed of the reminders.

## 5. Proofs

`SubmissionProofs` proves `TypeCorrect == Spec => []TypeOK`.  `TypeOK` alone is
not inductive: what a handler may do next depends on what its locals hold at a
label, so `TypeInv` adds `LocalFor` per label.

The other properties follow, for every number of tabs, ids and faults:

* `ReceivedCorrect` and `AttachmentsCorrect` from `FilingInv`: who holds an open or
  committed transaction at which label, that a handler before its INSERT has
  written nothing, that every case number seen in a lookup, a stored result or a
  page is a committed one, and that what is sent for COMMIT has its objects in the
  bucket.
* `ClaimsRespected` (`ClaimRespected`).  `KeysStep`: every step is one of nine
  effects on the keys, and only the script of the claim's own submit, or the
  reporter's discard, moves a claimed draft while its `pending` key is there.
* `DraftNeverLost` (`DraftKept`).  Given `FilingInv`, whoever drops the claimed
  draft has seen its report committed.
* `CleanUpComplete` (`FailedAttemptCleansUp`).  `CleanInv`: as long as nothing has
  failed, what was sent is committed or open, and objects of an attempt that was
  not sent have their handler about to delete them.
* `SubmitKeepsPromise` (`ImplementsOneDraft`).  Initial states map to initial
  states and every step maps to a step of `OneDraft` or to a stutter
  (`AbstractStep`), given `PromiseInv`.  What it needs beyond `FilingInv` is
  `OneId`: every id in a draft, a claim or a handler's hands is the same.  A draft
  that had its id from its first save keeps it by itself.  One saved before v2.0.0
  gets it late, so there must not be a second copy without one when the first is
  filed; the hypothesis `Calm` says that no submit outlasts its `pending` key, no
  draft expires and nobody restarts.  It is needed: with a page load that has
  assigned an id and not yet saved it, a submit about to give its token back, a
  restart and a second load, six requests file one such draft under two ids.

`CaseProofs` proves, for every number of requests and accounts:

* `CaseTypeCorrect`.  `TypeInv` adds `Underway`: a handler past its load has
  loaded a case on which its operation was allowed, and is at a step of it.
* `ThreadCorrect` (`ThreadOrdered`).  `_next_sent_at` takes the time of the last
  message and adds to it; that gives an order only because the thread cannot
  grow between that read and the COMMIT.  `LockInv`: who posts holds the case's
  lock, and a case that is there has its receipt in the thread.  `ThreadInv`: the
  time such a handler has read is still the last one.
* `FourEyesCorrect` (`FourEyes`).  `RequestInv`: who is about to delete holds the
  lock of a request that stands, made by somebody else.
* `RetentionClockCorrect` (`RetentionClockSerial`).  `ClockInv`: as long as no
  write has overrun another, an open case has no time of closure and a closed
  one that of its last closure.
* `FeedbackCorrect` (`FeedbackIsAMessage`).  `AckInv`: what a handler has seen
  acknowledged still is when it writes.
* `NobodyStuckCorrect` (`OnlyKnownRings` and `NobodyStuck`, the first half of
  `SomeoneGoesOn`).  `HoldersGoOn`: who has the row is about to post or is the job
  about to erase it, who has the request is about to delete the case or to log the
  withdrawal, and nobody holds the key share of a case that is gone.  So whoever
  is waited for is under way (`BlockersAct`), and following the waits of a ring
  leads to two replies that share the row or to the job and the holder of the
  request (`RingsCross`).

`AccessProofs` proves, for every number of requests, every drift and every
horizon:

* `AccessTypeCorrect`.  `Placed` says which kinds of request are at which step,
  and that the token a request came with was handed out to somebody: answers are
  final, so such a request takes no more steps.
* `CodeCorrect` (`CodeOnce`).  `Verified`: whoever is about to mark a code has
  verified it, so its window has begun.  `MarkedLongEnough`: an accepted code is
  marked until no clock accepts it any more.  This is where 90 s against a window
  of three steps of 30 s counts; whoever marks a code when its window is over is
  `late`.
* `EndedCorrect` (`EndedForGood`) and `SuccessorCorrect` (`OneSuccessor`).
  `KeyInv`: a stored key belongs to a request at one of three steps
  (`KeyPlaced`), a replaced session is neither stored nor ended (`Replaced`), a
  consumed token is gone and nobody else came with it (`Spent`).  The handlers'
  22 actions are first reduced to seven effects on the keys (`HandlerKeys`).
* `SignInCorrect` (`ImplementsSignIn`).  From `KeyInv` and the seven effects: each is
  a step of `SignIn` or a stutter (`HandlerSignIn`), and an expiry is an `End`.
* `SweepCorrect` (`OthersCurrent`).  The property speaks of moments without a
  sweep to come, so it is not inductive.  `CurrentInv` says of every key, and of
  every request that may yet become one, that it is current or that a sweep is
  to come that would not spare it (`Good`); of a login that has loaded the
  account, that it checks its code with the current secret or a sweep is to come
  (`SecretLoaded`).
* `ResetCorrect` (`ResetHolds`).  `ResetInv`: as long as no handler has written on
  an account changed since it loaded it, an enrolled secret is proved; whoever
  made the password has begun, and if that was a reset, the password is marked.

`NoticesProofs` proves, for every number of cases and replicas and all settings:

* `NoticesTypeCorrect`, with `Busy`: who mails or marks is at an item, an idle
  digest holds nothing.
* `OnceCorrect` (`ToldOnce`).  `PlaceInv`: a notice is in one place, with its
  event, in the queue or with one digest, and not told before it has left them.
* `OutboxCorrect` (`ImplementsOutbox`).  Initial states map to initial states and
  every step maps to a step of `Outbox` or to a stutter (`OutboxStep`), given
  `PlaceInv`: as a notice is in one place, what leaves its place waits no more, and
  what a digest tells waits nowhere else.
* `KeptCorrect` (`NothingLost`).  `KeptInv` is inductive given the types.
* `RemindedCorrect` (`RemindedOnce`).  `RunInv`: who runs holds the lock; what was
  mailed in the present window is marked or about to be.
* `ErasedCorrect` (`ErasedUnnamed`).  `Cleared`: each command of `forget_case`
  leaves its part clear for good, whatever the jobs do next.

`FormProofs` proves, for any tabs, categories, places and organisations:

* `FormTypeCorrect`, `UnnamedCorrect`, `AnsweredCorrect` and `CompleteCorrect`
  from one invariant, `FormInv`.  `Good` is what holds of every draft, in Redis,
  claimed or in a request's hands; as every request saves a draft it has loaded
  and changed, it is enough that each branch of `submit_post` keeps `Good` of its
  own copy, and stale saves do no harm.  `Filing` carries the last check over the
  claim: what is claimed is the draft that was checked (`_CLAIM_DRAFT` returns
  it), not the one that the request had loaded.

It proves of `Limits`, for any numbers of guesses, failures and uploads, any
limits, windows and sizes:

* `LimitsTypeCorrect`, and `LockCorrect` (`LockNotExtended`) step by step.
* `AttemptsCorrect` (`AttemptsBounded`).  `CountInv`: the counter is the number of
  those who counted since it appeared, less `strays`.  With that a guess that is let
  through keeps `GuessesBounded` by itself.  `NoLifetime`: a counter without a
  lifetime holds only guesses about to set one or be taken back, and dead ones.
* `SprayCorrect` (`SprayNoticed`).  `SprayInv`: a failure counts in a minute that
  has begun (`Dated`); a bucket counted in time is there for every sum made in
  time (`Kept`: its key lives `Window` minutes beyond its own); the mark belongs to
  an alert of at most `Window` minutes ago (`Marked`).  With these, a window that has
  reached the threshold has its alert, or somebody is about to look at it, or one
  of its failures is set aside (`Watched`).
* `UploadsCorrect` (`UploadsFit`).  `UploadsInv`: who has measured and not saved
  holds the lock, and what it is about to save fits.

A sum over a set is the number of elements of a union of disjoint sets, one element
per byte or per failure: the library has theorems on cardinalities, and none on
folds.

`ReporterProofs` proves, for any number of requests and cases:

* `ReporterTypeCorrect`, with `Placed`.  The handlers' actions are first reduced to
  eight effects on the sessions (`HandleSteps`).
* `SessionsCorrect` (`SessionsEnd`).  `RootInv`: every stored or held key goes back
  to a sign-in that was made, and a fresh key is nobody's before it is stored.
  `TimeInv`: a stored key, and one about to be, ends with its sign-in's lifetime.
  `OneInv`: a sign-in that nothing crossed has one request under way and one key,
  two only while a reply is about to drop the old one; without this `EndInv`, that
  nothing is left of an ended sign-in, is not inductive.  `SweepInv`: whoever may
  yet store a key of a deleted case is set aside, and what is stored is among what
  the scan finds.
* `LinkedCorrect` (`LinkedOnce`).  `LinkInv`: whoever is about to link a pair that
  has a link was overtaken.

`UpkeepProofs` proves, for any number of actors:

* `FilesCorrect` (`FilesFollowRows`).  `Past`: a run is done with a file.  Every key
  a row has, or that a run or a deletion has read from one, is the file's first or
  of a run that is done with the file (`Taken`), so what is deleted is never what
  another run is still going to point the row at, nor what the row points at now
  (`JobOk`); and every object is the row's, on somebody's hands or left
  (`ObjectsOk`).
* `BrandCorrect` (`BrandCurrent`).  `PageOk`: the rows a page has loaded are those
  of the version it read, or a save has committed and not yet incremented, or the
  version has gone on.
* `RotationCorrect` (`ValuesKept`).  `RunOk`: what a run has found empty is empty
  or new, what it has written it holds as it read it; so when a run asks for no
  other, every value is under the current key and the old one may go.
* `CountedCorrect` (`CountedDaily`).  `TurnOk`: a job's look is no older than
  `Patience`; who has the lock has it for longer than that, so a job whose look
  was overtaken by a noted success finds the lock taken (`2 * Patience <
  LockTtl`).

* `UpkeepTypeCorrect`: the types of all four.

`AccountsProofs` proves, for any accounts, names, organisations and mixes of
requests.  The actions are first reduced to their effect on the rows (`RowsStep`)
and to how a request gets to its next step (`Gets`):

* `AccountsTypeCorrect`.  `Held`: what a request holds at a label.  No account is
  ever deleted, so whoever was loaded is there.
* `MadeCorrect` (`MadeOnce`).  `NameInv`: before setup is complete nobody was made by
  the wizard, and who is about to add an account, and was not overtaken since it
  looked (`NewName`), adds a name that differs from all.
* `AdministeredCorrect` (`SomeoneAdministers`) and `TiersCorrect` (`TierKept`).
  `RoleInv`: what a change was checked against (`Checked`); as long as it was not
  overtaken, the row still has the tier that was loaded and those who count are
  enough without it (`RoleAt`).  The caller is not the target of a change that
  lessens it, so two changes that overlap are the only way to lose everybody.
* `SignOnCorrect` (`SignOnLands`).  `TakenOnce`: a state is taken by one callback, in
  the browser, the session and the account that asked for it; `LinkedOnce`: an
  identity is on one account, where such a callback put it.

Assumptions: each module's `...Assumption`, evaluated by TLC in its runs; of
`CaseHandling` also that `None` is no row.

Only model-checked: liveness (`ClaimResolved`, `EveryTabAnswered`, `EventuallyTold`)
and the half of `SomeoneGoesOn` that speaks of `ENABLED`, neither of which the prover
handles; and the two statements the code violates, which no proof can be of.

## 6. Not modelled

Cryptography, file cleaning, rendering, HTTP headers, configuration and
deployment have no interleavings to explore.  Deadlines are calendar arithmetic:
a reference definition would repeat `add_months`.  The update check reads feeds
into caches that only a page shows; one thing was noted while reading it: the
comment in `version_check.py` (line 33) says that the daily job keeps the 7 days
of the cache fresh, while an answer 304 renews `_CACHE_KEY` and not
`_ADVISORIES_KEY`.  The failure counter of `/status` words a message and refuses nobody.  See
`components` in `PROJECT.json` for each part and its reason.
