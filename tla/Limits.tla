------------------------------- MODULE Limits -------------------------------
(***************************************************************************)
(* Where the program counts against a bound: wrong sign-ins per user name  *)
(* and over the whole instance (src/app/services/rate_limit.py), uploads   *)
(* in the spool (src/app/middleware.py) and drafts in Redis (_draft_room   *)
(* in src/app/api/reports.py).                                             *)
(*                                                                         *)
(* A counter in Redis is read, compared and written in several commands:   *)
(* an expiry, a reset or another's command may fall between any two.  The  *)
(* counter of attempts is the one of a user name, of a second factor or of *)
(* the setup token: all three go through _claim.                           *)
(***************************************************************************)
EXTENDS Integers, FiniteSets

CONSTANTS
    Guesses,      \* attempts to sign in, one guess each
    MaxAttempts,  \* MAX_LOGIN_ATTEMPTS
    Lockout,      \* LOGIN_LOCKOUT_MINUTES
    Thresholds,   \* what ADMIN_FAILED_LOGIN_ALERT_THRESHOLD may be, 0 switches it off
    Window,       \* ADMIN_FAILED_LOGIN_ALERT_WINDOW_MINUTES
    Uploads,      \* multipart requests, each with a draft of its own
    Size,         \* per upload: the bytes it reserves, and its draft takes
    Capacity,     \* _spool_capacity()
    Room,         \* DRAFT_REDIS_MEMORY_PERCENT of maxmemory
    Nobody,
    MaxMinutes    \* bound: the clock, in minutes, stops there

ASSUME LimitsAssumption ==
    /\ IsFiniteSet(Guesses) /\ IsFiniteSet(Uploads)
    /\ Nobody \notin Uploads
    /\ MaxAttempts \in Nat \ {0} /\ Lockout \in Nat \ {0}
    /\ Thresholds \subseteq Nat /\ Window \in Nat \ {0}
    /\ Size \in [Uploads -> Nat \ {0}]
    /\ Capacity \in Nat /\ Room \in Nat \ {0} /\ MaxMinutes \in Nat

VARIABLES
    \* the counter of attempts, a key in Redis
    there,     \* the key exists
    count,     \* its value
    ttl,       \* minutes it has left, 0: it does not expire
    guess,     \* per guess: its next command, or what came of it
    counted,   \* history: guesses that are in the counter as it is
    strays,    \* history: DECRs of guesses that were not
    \* the count over the instance
    threshold, \* the setting, which stays
    clock,     \* the minute
    minute,    \* per guess: the bucket it counts in
    bucket,    \* per minute: the failures its key counts, none: no key
    ends,      \* per minute: in which one its key expires, 0: it does not
    alerted,   \* in which minute the alert's mark expires, 0: no mark
    alerts,    \* history: when an alert was given
    failed,    \* history: the guesses that were counted over the instance
    lapsed,    \* history: those counted or summed too late, or not to the end
    \* the uploads
    upload,    \* per upload: its next step, or what came of it
    reserved,  \* UploadBudgetMiddleware.reserved
    lock,      \* who holds openwhistle:lock:draft-room
    stored,    \* the uploads whose drafts are in Redis
    loose      \* history: a lock expired before its holder saved, or INFO was not read

counter == <<there, count, ttl, guess, counted, strays>>
spray   == <<threshold, clock, minute, bucket, ends, alerted, alerts, failed, lapsed>>
files   == <<upload, reserved, lock, stored, loose>>
limitsVars == <<counter, spray, files>>

GuessSteps  == {"idle", "expire", "decr", "checking", "tally", "life", "sum", "mark"}
GuessEnds   == {"refused", "right", "wrong", "died"}
UploadSteps == {"idle", "handling", "measured", "release"}
UploadEnds  == {"refused", "no_room", "saved", "failed"}

LimitsTypeOK ==
    /\ there \in BOOLEAN /\ count \in Int /\ ttl \in 0..Lockout
    /\ guess \in [Guesses -> GuessSteps \cup GuessEnds]
    /\ counted \subseteq Guesses /\ strays \in Nat
    /\ threshold \in Thresholds /\ clock \in Nat
    /\ minute \in [Guesses -> Nat]
    /\ bucket \in [0..MaxMinutes -> SUBSET Guesses] /\ ends \in [0..MaxMinutes -> Nat]
    /\ failed \subseteq Guesses /\ lapsed \subseteq Guesses
    /\ alerted \in Nat /\ alerts \subseteq Nat
    /\ upload \in [Uploads -> UploadSteps \cup UploadEnds]
    /\ reserved \in Int
    /\ lock \in Uploads \cup {Nobody}
    /\ stored \subseteq Uploads /\ loose \in BOOLEAN

LimitsInit ==
    /\ there = FALSE /\ count = 0 /\ ttl = 0
    /\ guess = [g \in Guesses |-> "idle"] /\ counted = {} /\ strays = 0
    /\ threshold \in Thresholds /\ clock = 0 /\ minute = [g \in Guesses |-> 0]
    /\ bucket = [m \in 0..MaxMinutes |-> {}] /\ ends = [m \in 0..MaxMinutes |-> 0]
    /\ alerted = 0 /\ alerts = {} /\ failed = {} /\ lapsed = {}
    /\ upload = [u \in Uploads |-> "idle"] /\ reserved = 0 /\ lock = Nobody
    /\ stored = {} /\ loose = FALSE

----------------------------------------------------------------------------
(* Attempts *)

GoGuess(g, l) == guess' = [guess EXCEPT ![g] = l]

\* Mutant: the comparison lets one more through.
AllowedOneMore(n) == n =< MaxAttempts + 1

\* _claim's comparison of what INCR answered.
Allowed(n) == n =< MaxAttempts

\* Mutant: the attempt is counted and its lifetime set in one go, before the comparison.
IncrExtends(g) ==
    /\ guess[g] = "idle"
    /\ there' = TRUE /\ count' = count + 1 /\ ttl' = Lockout
    /\ counted' = counted \cup {g}
    /\ GoGuess(g, IF Allowed(count + 1) THEN "expire" ELSE "decr")
    /\ UNCHANGED <<strays, spray, files>>

\* _claim: INCR, which makes a key that is not there and keeps a lifetime it has.
Incr(g) ==
    /\ guess[g] = "idle"
    /\ there' = TRUE /\ count' = count + 1
    /\ counted' = counted \cup {g}
    /\ GoGuess(g, IF Allowed(count + 1) THEN "expire" ELSE "decr")
    /\ UNCHANGED <<ttl, strays, spray, files>>

\* _claim: EXPIRE, of nothing if the key has gone meanwhile; the guess is checked.
ExpireKey(g) ==
    /\ guess[g] = "expire"
    /\ ttl' = IF there THEN Lockout ELSE 0
    /\ GoGuess(g, "checking")
    /\ UNCHANGED <<there, count, counted, strays, spray, files>>

\* A DECR: of the guess's own count, or of one it is not in.
TakeBack(g) ==
    /\ count' = count - 1
    /\ counted' = counted \ {g}
    /\ strays' = IF g \in counted THEN strays ELSE strays + 1

\* _claim: DECR of a refused attempt, which makes a key that is not there.
Decr(g) ==
    /\ guess[g] = "decr"
    /\ there' = TRUE
    /\ TakeBack(g)
    /\ GoGuess(g, "refused")
    /\ UNCHANGED <<ttl, spray, files>>

\* release_admin_attempt (_DECR_IF_EXISTS): a right password gives its attempt back.
Release(g) ==
    /\ guess[g] = "checking"
    /\ IF there THEN TakeBack(g) ELSE UNCHANGED <<count, counted, strays>>
    /\ GoGuess(g, "right")
    /\ UNCHANGED <<there, ttl, spray, files>>

\* The key goes, and with it what it counted.
Vanish ==
    there' = FALSE /\ count' = 0 /\ ttl' = 0 /\ counted' = {} /\ strays' = 0

\* reset_admin_login_attempts, reset_setup_token_failures: a right code or token.
Reset(g) ==
    /\ guess[g] = "checking"
    /\ Vanish
    /\ GoGuess(g, "right")
    /\ UNCHANGED <<spray, files>>

\* A wrong guess: its attempt stays counted; a password's is counted over the
\* instance as well (_password_failed), in the minute the clock shows now, a code's
\* or the setup token's is not.
Wrong(g, password) ==
    /\ guess[g] = "checking"
    /\ IF password /\ threshold > 0
         THEN GoGuess(g, "tally") /\ minute' = [minute EXCEPT ![g] = clock]
         ELSE GoGuess(g, "wrong") /\ UNCHANGED minute
    /\ UNCHANGED <<there, count, ttl, counted, strays, threshold, clock, bucket, ends,
                   alerted, alerts, failed, lapsed, files>>

\* The worker dies between two commands.
Die(g) ==
    /\ guess[g] \in {"expire", "decr"}
    /\ GoGuess(g, "died")
    /\ UNCHANGED <<there, count, ttl, counted, strays, spray, files>>

----------------------------------------------------------------------------
(* record_instance_login_failure *)

\* INCR of the bucket, in that minute or a later one.
Tally(g) ==
    /\ guess[g] = "tally"
    /\ bucket' = [bucket EXCEPT ![minute[g]] = @ \cup {g}]
    /\ failed' = failed \cup {g}
    /\ lapsed' = IF clock # minute[g] THEN lapsed \cup {g} ELSE lapsed
    /\ GoGuess(g, "life")
    /\ UNCHANGED <<there, count, ttl, counted, strays, threshold, clock, minute, ends,
                   alerted, alerts, files>>

\* EXPIRE of the bucket, unless it has gone meanwhile.
Prolong(g) ==
    /\ guess[g] = "life"
    /\ ends' = [ends EXCEPT ![minute[g]] = IF bucket[minute[g]] # {} THEN clock + Window + 1 ELSE 0]
    /\ GoGuess(g, "sum")
    /\ UNCHANGED <<there, count, ttl, counted, strays, threshold, clock, minute,
                   bucket, alerted, alerts, failed, lapsed, files>>

\* The buckets of the window that ends with minute m.
InWindow(m) == {i \in 0..MaxMinutes : m - Window < i /\ i =< m}
\* Their sum, as the number of the failures counted in them.
Failures(m) == Cardinality(UNION {bucket[i] : i \in InWindow(m)})

\* Mutant: the threshold itself is not enough.
ManyMore(m) == Failures(m) > threshold

Many(m) == Failures(m) >= threshold

\* MGET and the comparison; a minute later the first buckets begin to expire.
SumUp(g) ==
    /\ guess[g] = "sum"
    /\ GoGuess(g, IF Many(minute[g]) THEN "mark" ELSE "wrong")
    /\ lapsed' = IF clock > minute[g] + 1 THEN lapsed \cup {g} ELSE lapsed
    /\ UNCHANGED <<there, count, ttl, counted, strays, threshold, clock, minute,
                   bucket, ends, alerted, alerts, failed, files>>

\* SET NX EX of the mark: who gets it gives the alert (_password_failed).
Alert(g) ==
    /\ guess[g] = "mark"
    /\ IF alerted = 0
         THEN alerted' = clock + Window /\ alerts' = alerts \cup {clock}
         ELSE UNCHANGED <<alerted, alerts>>
    /\ GoGuess(g, "wrong")
    /\ UNCHANGED <<there, count, ttl, counted, strays, threshold, clock, minute,
                   bucket, ends, failed, lapsed, files>>

\* The worker dies between these commands, or Redis does not answer one.
Forsake(g) ==
    /\ guess[g] \in {"tally", "life", "sum", "mark"}
    /\ lapsed' = lapsed \cup ({g} \cap failed)
    /\ GoGuess(g, "wrong")
    /\ UNCHANGED <<there, count, ttl, counted, strays, threshold, clock, minute,
                   bucket, ends, alerted, alerts, failed, files>>

\* A key set within a minute ends within the one it expires in ...
Over(minutes) == minutes # 0 /\ minutes =< clock

BucketExpires(i) ==
    /\ Over(ends[i])
    /\ bucket' = [bucket EXCEPT ![i] = {}] /\ ends' = [ends EXCEPT ![i] = 0]
    /\ UNCHANGED <<counter, threshold, clock, minute, alerted, alerts, failed, lapsed,
                   files>>

MarkExpires ==
    /\ Over(alerted) /\ alerted' = 0
    /\ UNCHANGED <<counter, threshold, clock, minute, bucket, ends, alerts, failed,
                   lapsed, files>>

\* ... and is gone by the next.  The counter's lifetime runs down.
MinutePasses ==
    /\ clock < MaxMinutes
    /\ clock' = clock + 1
    /\ bucket' = [i \in 0..MaxMinutes |-> IF Over(ends[i]) THEN {} ELSE bucket[i]]
    /\ ends' = [i \in 0..MaxMinutes |-> IF Over(ends[i]) THEN 0 ELSE ends[i]]
    /\ alerted' = IF Over(alerted) THEN 0 ELSE alerted
    /\ IF ttl = 1 THEN Vanish
       ELSE /\ ttl' = IF ttl = 0 THEN 0 ELSE ttl - 1
            /\ UNCHANGED <<there, count, counted, strays>>
    /\ UNCHANGED <<guess, threshold, minute, alerts, failed, lapsed, files>>

----------------------------------------------------------------------------
(* Uploads *)

GoUpload(u, l) == upload' = [upload EXCEPT ![u] = l]

\* The bytes of a set of uploads.
Total(S) == Cardinality(UNION {{u} \X (1..Size[u]) : u \in S})

Fits(u) == reserved + Size[u] =< Capacity

\* UploadBudgetMiddleware: reserve or refuse, with no await in between.
Admit(u) ==
    /\ upload[u] = "idle"
    /\ IF Fits(u)
         THEN GoUpload(u, "handling") /\ reserved' = reserved + Size[u]
         ELSE GoUpload(u, "refused") /\ UNCHANGED reserved
    /\ UNCHANGED <<lock, stored, loose, counter, spray>>

\* The handler ends, with an answer or an exception: finally.
Leave(u, how) == GoUpload(u, how) /\ reserved' = reserved - Size[u]

\* read_upload_files refuses a file, or the handler raises.
Fail(u) ==
    /\ upload[u] = "handling"
    /\ Leave(u, "failed")
    /\ UNCHANGED <<lock, stored, loose, counter, spray>>

\* lock.acquire() is not answered within blocking_timeout.
NotAcquired(u) ==
    /\ upload[u] = "handling" /\ lock # Nobody
    /\ Leave(u, "no_room")
    /\ UNCHANGED <<lock, stored, loose, counter, spray>>

\* Mutant: uploads measure without waiting for each other.
LockFreeAlways == TRUE

LockFree == lock = Nobody

\* _draft_room: the lock, then _redis_has_room; an unreadable INFO never blocks.
Measure(u, read) ==
    /\ upload[u] = "handling" /\ LockFree
    /\ lock' = u
    /\ GoUpload(u, IF read => Total(stored) + Size[u] < Room THEN "measured" ELSE "release")
    /\ loose' = (loose \/ ~read)
    /\ UNCHANGED <<reserved, stored, counter, spray>>

\* lock.release(): a LockError when it was taken over.
Unlock(u) == lock' = IF lock = u THEN Nobody ELSE lock

\* _save_submission with the files, inside the lock.
SaveFiles(u) ==
    /\ upload[u] = "measured"
    /\ stored' = stored \cup {u}
    /\ Unlock(u)
    /\ Leave(u, "saved")
    /\ UNCHANGED <<loose, counter, spray>>

\* No room: the reporter is told (attachments_no_room), the lock is released.
TellNoRoom(u) ==
    /\ upload[u] = "release"
    /\ Unlock(u)
    /\ Leave(u, "no_room")
    /\ UNCHANGED <<stored, loose, counter, spray>>

\* The lock's timeout (60 s) ends while its holder still has to save.
LockExpires ==
    /\ lock # Nobody /\ lock' = Nobody
    /\ loose' = (loose \/ upload[lock] = "measured")
    /\ UNCHANGED <<upload, reserved, stored, counter, spray>>

\* A draft expires, is restarted or filed.
DraftGone(u) ==
    /\ u \in stored /\ stored' = stored \ {u}
    /\ UNCHANGED <<upload, reserved, lock, loose, counter, spray>>

----------------------------------------------------------------------------
Attempt(g) ==
    \/ Incr(g) \/ ExpireKey(g) \/ Decr(g) \/ Release(g) \/ Reset(g) \/ Die(g)
    \/ \E password \in BOOLEAN : Wrong(g, password)
    \/ Tally(g) \/ Prolong(g) \/ SumUp(g) \/ Alert(g) \/ Forsake(g)

Upload(u) ==
    \/ Admit(u) \/ Fail(u) \/ NotAcquired(u) \/ SaveFiles(u) \/ TellNoRoom(u) \/ DraftGone(u)
    \/ \E read \in BOOLEAN : Measure(u, read)

AttemptsNext ==
    \/ MinutePasses \/ MarkExpires
    \/ \E i \in 0..MaxMinutes : BucketExpires(i)
    \/ \E g \in Guesses : Attempt(g)

UploadsNext == LockExpires \/ \E u \in Uploads : Upload(u)

LimitsNext == AttemptsNext \/ UploadsNext

LimitsSpec == LimitsInit /\ [][LimitsNext]_limitsVars

----------------------------------------------------------------------------
(* Properties *)

\* Guesses that were let through since the counter was last not there.
LetThrough == {g \in counted : guess[g] \notin {"decr", "died"}}

\* Of the guesses made while a counter lasts, however many come at once, no
\* more are checked than MAX_LOGIN_ATTEMPTS, and one more for each attempt that
\* took back a count other than its own (its counter had expired or been reset
\* between its INCR and its DECR).
GuessesBounded == Cardinality(LetThrough) =< MaxAttempts + strays

\* A locked counter ends by itself: one without a lifetime never locks, unless
\* as many workers died between INCR and EXPIRE as there are attempts.
LockEnds ==
    there /\ ttl = 0 /\ (\A g \in Guesses : guess[g] \notin {"expire", "decr"})
        => \/ count < MaxAttempts
           \/ Cardinality({g \in Guesses : guess[g] = "died"}) >= MaxAttempts

\* However many guess at once, the limit holds and the lock ends.
AttemptsBounded == GuessesBounded /\ LockEnds

\* A locked attempt does not extend the lock.
LockNotExtended ==
    [][count >= MaxAttempts /\ (\A g \in Guesses : guess[g] # "expire") => ttl' =< ttl]_limitsVars

\* The failures counted in the window that ends with minute m.
FailedIn(m) == {g \in failed : minute[g] \in InWindow(m)}

\* Spraying is noticed: when the failures of a window have been counted to the end
\* and reach the threshold, an alert was given in the window or in the minute before
\* it, whose mark still stood.  Set aside are failures whose INCR came in a later
\* minute than their clock was read in, whose sum came more than a minute after it, or
\* whose handler died in between.
SprayNoticed ==
    \A m \in 0..MaxMinutes :
        /\ threshold > 0 /\ Cardinality(FailedIn(m)) >= threshold
        /\ \E g \in FailedIn(m) : minute[g] = m
        /\ \A g \in FailedIn(m) : guess[g] = "wrong" /\ g \notin lapsed
        => \E a \in alerts : m - Window =< a

\* The uploads in flight.
InFlight == {u \in Uploads : upload[u] \notin {"idle"} \cup UploadEnds}

\* The spool never holds more than its part of /tmp, and what a request took of
\* it comes back however the request ends.
SpoolFits == reserved = Total(InFlight) /\ reserved =< Capacity

\* Uploads that come at once do not fill Redis together: the drafts stay under
\* their part of maxmemory, as long as no upload outlived the lock and INFO was read.
RoomKept == loose \/ Total(stored) < Room

\* However many uploads come at once and however they end, both bounds are kept.
UploadsFit == SpoolFits /\ RoomKept
=============================================================================
