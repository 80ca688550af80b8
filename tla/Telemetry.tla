----------------------------- MODULE Telemetry -----------------------------
(***************************************************************************)
(* The installation count: one row with consent, a random identifier and   *)
(* the last success; a job that every replica runs each hour               *)
(* (src/app/services/telemetry.py), and the administrator's switch and     *)
(* reset (src/app/api/admin.py).                                           *)
(*                                                                         *)
(* A job looks at the row, takes a lock in Redis that nobody gives back,   *)
(* sends, and notes the success it was told of.  Time is counted in parts  *)
(* of a day; the lock ends before the day does.                            *)
(***************************************************************************)
LOCAL INSTANCE Integers

CONSTANTS
    Replicas,  \* each runs one job at a time
    Day,       \* INTERVAL
    LockTtl,   \* _LOCK_TTL_SECONDS
    NoConsent,
    MaxClock,  \* bound: of the clock
    MaxIds,    \* bound: identifiers
    MaxEras,   \* bound: restarts of Redis
    Patience   \* a job whose send is bounded by TIMEOUT_SECONDS ends within it

State == [enabled : BOOLEAN, id : 1..MaxIds, last : -Day..MaxClock]
Never == -Day   \* last_sent_at is NULL: always due

ASSUME TelemetryAssumption ==
    /\ {Day, LockTtl, MaxClock, MaxIds, MaxEras} \subseteq Nat /\ Patience \in Nat
    /\ 2 * Patience < LockTtl /\ LockTtl < Day
    /\ NoConsent \notin State

VARIABLES
    env,       \* locked_by: what the environment says
    consent,   \* the row, or NoConsent
    lockEnds,  \* job_lock:telemetry: when it expires, 0 if it is not set
    turn,      \* per replica: its step, when it began, the row it looked at
    clock, ids,
    era,       \* restarts of Redis, which has nothing on disk
    \* history
    tried,     \* the last attempt: its time and Redis
    success,   \* the last one that was noted: its time and identifier
    torn       \* Redis restarted while these jobs were under way

telemetryVars == <<env, consent, lockEnds, turn, clock, ids, era, tried, success, torn>>

TelemetryTypeOK ==
    /\ env \in {"demo", "env_off", "env_on", "none"}
    /\ consent \in State \cup {NoConsent}
    /\ lockEnds \in 0..(MaxClock + LockTtl) /\ clock \in 0..MaxClock /\ ids \in 0..MaxIds
    /\ turn \in [Replicas -> [pc : {"idle", "lock", "ensure", "send", "note"},
                              at : 0..MaxClock, id : 0..MaxIds]]
    /\ tried \in [at : -Day..MaxClock, era : 0..MaxEras]
    /\ success \in [at : -Day..MaxClock, id : 0..MaxIds]
    /\ era \in 0..MaxEras /\ torn \subseteq Replicas

Idle == [pc |-> "idle", at |-> 0, id |-> 0]

TelemetryInit ==
    /\ env \in {"demo", "env_off", "env_on", "none"}
    /\ consent = NoConsent /\ lockEnds = 0 /\ clock = 0 /\ ids = 0
    /\ turn = [r \in Replicas |-> Idle]
    /\ era = 0 /\ torn = {}
    /\ tried = [at |-> Never, era |-> 0] /\ success = [at |-> Never, id |-> 0]

----------------------------------------------------------------------------
TurnGo(r, l) == turn' = [turn EXCEPT ![r].pc = l]

\* is_enabled, with locked_by before the switch.
Enabled ==
    \/ env = "env_on"
    \/ env = "none" /\ consent # NoConsent /\ consent.enabled

Due == clock - consent.last >= Day

\* report_if_due: the row is read, and what is not enabled or not due ends here.
Look(r) ==
    /\ turn[r].pc = "idle"
    /\ Enabled /\ (consent # NoConsent => Due)
    /\ turn' = [turn EXCEPT ![r] = [pc |-> "lock", at |-> clock,
                                id |-> IF consent = NoConsent THEN 0 ELSE consent.id]]
    /\ torn' = torn \ {r}
    /\ UNCHANGED <<env, consent, lockEnds, clock, ids, era, tried, success>>

\* Mutant: a lock that is already there does not stop the job.
TakeLockAnyway(r) ==
    /\ turn[r].pc = "lock"
    /\ lockEnds' = clock + LockTtl
    /\ TurnGo(r, IF turn[r].id = 0 THEN "ensure" ELSE "send")
    /\ UNCHANGED <<env, consent, clock, ids, era, tried, success, torn>>

\* SET NX EX; the lock is never released, so this day's attempt is this one.
TakeLock(r) ==
    /\ turn[r].pc = "lock"
    /\ IF lockEnds > clock
         THEN turn' = [turn EXCEPT ![r] = Idle] /\ UNCHANGED lockEnds
         ELSE /\ lockEnds' = clock + LockTtl
              /\ TurnGo(r, IF turn[r].id = 0 THEN "ensure" ELSE "send")
    /\ UNCHANGED <<env, consent, clock, ids, era, tried, success, torn>>

\* ensure_state: INSERT ... ON CONFLICT DO NOTHING, and the row that is there then.
Ensured(on) ==
    IF consent # NoConsent
      THEN UNCHANGED ids /\ consent' = [consent EXCEPT !.enabled = on \/ @]
      ELSE /\ ids < MaxIds /\ ids' = ids + 1
           /\ consent' = [enabled |-> on, id |-> ids + 1, last |-> Never]

\* Under TELEMETRY_ENABLED=true the identifier is made with the first report.
EnsureState(r) ==
    /\ turn[r].pc = "ensure"
    /\ Ensured(FALSE)
    /\ turn' = [turn EXCEPT ![r].pc = "send", ![r].id = consent'.id]
    /\ UNCHANGED <<env, lockEnds, clock, era, tried, success, torn>>

\* send_report: one attempt, which succeeds or not.
SendReport(r, ok) ==
    /\ turn[r].pc = "send"
    /\ tried' = IF r \in torn THEN tried ELSE [at |-> clock, era |-> era]
    /\ turn' = [turn EXCEPT ![r] = IF ok THEN [@ EXCEPT !.pc = "note"] ELSE Idle]
    /\ UNCHANGED <<env, consent, lockEnds, clock, ids, era, success, torn>>

\* last_sent_at alone is written: an identifier reset since stays.
NoteSuccess(r) ==
    /\ turn[r].pc = "note"
    /\ consent' = [consent EXCEPT !.last = clock]
    /\ success' = IF r \in torn THEN success ELSE [at |-> clock, id |-> turn[r].id]
    /\ turn' = [turn EXCEPT ![r] = Idle]
    /\ UNCHANGED <<env, lockEnds, clock, ids, era, tried, torn>>

\* run_telemetry_job: the worker, PostgreSQL or Redis fails; the next hour tries again.
CountFails(r) ==
    /\ turn[r].pc # "idle"
    /\ turn' = [turn EXCEPT ![r] = Idle]
    /\ UNCHANGED <<env, consent, lockEnds, clock, ids, era, tried, success, torn>>
----------------------------------------------------------------------------
\* system_telemetry_toggle: 409 where the environment decides; no row is made to be off.
Toggle(wanted) ==
    /\ env = "none"
    /\ IF wanted THEN Ensured(TRUE)
       ELSE /\ consent # NoConsent /\ consent' = [consent EXCEPT !.enabled = FALSE]
            /\ UNCHANGED ids
    /\ UNCHANGED <<env, lockEnds, turn, clock, era, tried, success, torn>>

\* system_telemetry_reset_id: no row, no reset.
ResetId ==
    /\ consent # NoConsent /\ ids < MaxIds
    /\ ids' = ids + 1
    /\ consent' = [consent EXCEPT !.id = ids + 1, !.last = Never]
    /\ UNCHANGED <<env, lockEnds, turn, clock, era, tried, success, torn>>

LockForgotten ==
    /\ era < MaxEras /\ era' = era + 1
    /\ lockEnds' = 0
    /\ torn' = torn \cup {r \in Replicas : turn[r].pc # "idle"}
    /\ UNCHANGED <<env, consent, turn, clock, ids, tried, success>>

Pass ==
    /\ clock < MaxClock
    /\ \A r \in Replicas : turn[r].pc # "idle" => clock < turn[r].at + Patience
    /\ clock' = clock + 1
    /\ UNCHANGED <<env, consent, lockEnds, turn, ids, era, tried, success, torn>>

TelemetryNext ==
    \/ \E r \in Replicas :
          \/ Look(r) \/ TakeLock(r) \/ EnsureState(r) \/ NoteSuccess(r) \/ CountFails(r)
          \/ \E ok \in BOOLEAN : SendReport(r, ok)
    \/ \E wanted \in BOOLEAN : Toggle(wanted)
    \/ ResetId \/ LockForgotten \/ Pass

TelemetrySpec == TelemetryInit /\ [][TelemetryNext]_telemetryVars

----------------------------------------------------------------------------
(* Property *)

\* Whatever the replicas' hours, failed sends, dead workers, switches and new
\* identifiers: who is about to send is as far from the last attempt as the lock
\* lasts, less the time a job takes, unless Redis lost the lock since; and a day
\* from a success that was noted for this identifier, even then.  Only a job that
\* was under way when Redis lost the lock may be the second of a day.
CountedDaily ==
    \A r \in Replicas \ torn : turn[r].pc = "send" =>
       /\ tried.era = era => clock - tried.at >= LockTtl - Patience
       /\ success.id = turn[r].id => clock - success.at >= Day
=============================================================================
