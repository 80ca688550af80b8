------------------------------ MODULE Reporter ------------------------------
(***************************************************************************)
(* The reporter's way back to a case: sign-in with case number and PIN,    *)
(* the status session, replies and log-out (src/app/api/reports.py), the   *)
(* end of the sessions of a deleted case (src/app/services/report.py), and *)
(* the links staff make between cases (src/app/api/admin.py).              *)
(*                                                                         *)
(* A session is a key in Redis that names a case, the case is a row: a     *)
(* handler reads the one, then the other, then writes the first again.     *)
(* A deletion, a log-out or the key's expiry may fall in between.  A key   *)
(* and a link are named by the request that made them.                     *)
(***************************************************************************)
EXTENDS Naturals, FiniteSets

CONSTANTS
    Requests,   \* the requests, one handler each
    Cases,
    Life,       \* of a session: 7200 s
    None,
    Mixes       \* bounds: the kinds of requests that come together, how many, about
                \* which cases, and when the clock stops

Kinds == {"sign_in", "view", "reply", "logout", "link", "unlink", "close", "delete"}
Keys  == Requests \X {"login", "fresh"}
Pairs == {{a, b} : a, b \in Cases} \ {{a} : a \in Cases}

ASSUME ReporterAssumption ==
    /\ None \notin Cases \cup Keys
    /\ Life \in Nat \ {0}
    /\ Mixes \subseteq [kinds : SUBSET Kinds, cases : SUBSET Cases, most : Nat, time : Nat]

VARIABLES
    cases,     \* the rows of "reports"
    closed,    \* the closed ones
    messages,  \* rows of "report_messages": the replies
    links,     \* rows of "case_links"
    session,   \* per key in Redis: the case and when the key expires, or None
    now,
    \* the handlers
    pc,        \* per request: its next step, or how it was answered
    op,        \* per request: what it asks, and what it has loaded
    sweep,     \* per case: how far the end of its sessions is
    found,     \* per case: the keys the scan is going to find
    mix,       \* what is asked, and the cases there were
    \* history
    born,      \* per key of a sign-in: when the PIN was entered
    root,      \* per key: the key of the sign-in it goes back to
    ended,     \* the sign-ins that were logged out
    crossing,  \* sign-ins of which two requests overlapped, or one an end, or one died
    loose,     \* sign-ins whose key was gone when a reply asked for its lifetime, or was slow to use it
    doubled    \* link requests that overlapped another for their pair

rows    == <<cases, closed, messages, links>>
history == <<born, root, ended, crossing, loose, doubled>>
sweeps  == <<sweep, found>>
vars    == <<rows, session, now, pc, op, sweeps, mix, history>>

Session == [case : Cases, until : Nat]
Local   == [kind : Kinds, key : Keys \cup {None}, creds : Cases \cup {None}, case : Cases \cup {None},
            closed : BOOLEAN, left : Nat, pair : SUBSET Cases]
Steps   == {"auth", "login", "load", "post", "ttl", "fresh", "drop", "look", "insert"}
Answers == {"refused", "unsent", "error", "signed_in", "sent", "closed", "shown", "form", "done", "linked"}

Nothing == [kind |-> "view", key |-> None, creds |-> None, case |-> None, closed |-> FALSE,
            left |-> 0, pair |-> {}]

TypeOK ==
    /\ cases \subseteq Cases /\ closed \subseteq Cases /\ messages \subseteq [by : Requests, case : Cases]
    /\ links \subseteq [by : Requests, pair : Pairs]
    /\ session \in [Keys -> Session \cup {None}]
    /\ now \in Nat
    /\ pc \in [Requests -> {"idle"} \cup Steps \cup Answers]
    /\ op \in [Requests -> Local]
    /\ sweep \in [Cases -> {"no", "scanning", "swept", "unswept"}]
    /\ found \in [Cases -> SUBSET Keys]
    /\ mix \in Mixes
    /\ born \in [Keys -> Nat] /\ root \in [Keys -> Keys]
    /\ ended \subseteq Keys /\ crossing \subseteq Keys /\ loose \subseteq Keys
    /\ doubled \subseteq Requests

Init ==
    /\ mix \in Mixes /\ cases = mix.cases /\ closed = {} /\ messages = {} /\ links = {}
    /\ session = [k \in Keys |-> None] /\ now = 0
    /\ pc = [r \in Requests |-> "idle"] /\ op = [r \in Requests |-> Nothing]
    /\ sweep = [c \in Cases |-> "no"] /\ found = [c \in Cases |-> {}]
    /\ born = [k \in Keys |-> 0] /\ root = [k \in Keys |-> k]
    /\ ended = {} /\ crossing = {} /\ loose = {} /\ doubled = {}

----------------------------------------------------------------------------
At(r, l)      == pc[r] = l
Begun         == {r \in Requests : ~At(r, "idle")}
Free(r, kind) == At(r, "idle") /\ kind \in mix.kinds /\ Cardinality(Begun) < mix.most
Live(k)       == session[k] # None
LiveKeys      == {k \in Keys : Live(k)}

\* On to step l with the locals o; an answer ends them, except the key it hands out.
Move(r, l, o) ==
    /\ pc' = [pc EXCEPT ![r] = l]
    /\ op' = [op EXCEPT ![r] = IF l \in Answers THEN [Nothing EXCEPT !.key = o.key] ELSE o]
    /\ UNCHANGED mix

Go(r, l) == Move(r, l, op[r])

\* The cookies: keys that were handed out.
Issued == {op[r].key : r \in {q \in Requests : pc[q] \in {"signed_in", "sent", "closed"}}}

\* The handlers that have read a key or are making one, and the sign-ins they are about.
InFlight    == {r \in Requests : pc[r] \in {"load", "login", "post", "ttl", "fresh", "drop"}}
SignInOf(r) == IF At(r, "login") THEN <<r, "login">> ELSE root[op[r].key]

\* The sign-in of key k, if a handler is about it now.
Overlapped(k) == {root[k]} \cap {SignInOf(q) : q \in InFlight}

Put(k, c, until) == session' = [session EXCEPT ![k] = [case |-> c, until |-> until]]
Drop(k)          == session' = [session EXCEPT ![k] = None]

----------------------------------------------------------------------------
(* Sign-in *)

\* status_post: case number and PIN of c, which may be gone.  A wrong pair is
\* refused and counted, and the count is not asked here.
SignIn(r, c) ==
    /\ Free(r, "sign_in")
    /\ Move(r, "auth", [Nothing EXCEPT !.kind = "sign_in", !.creds = c])
    /\ UNCHANGED <<rows, session, now, sweeps, history>>

\* get_report_by_credentials: the row, or none any more.
Auth(r) ==
    /\ At(r, "auth")
    /\ LET c == op[r].creds IN
         IF c \in cases
           THEN Move(r, "login", [op[r] EXCEPT !.case = c, !.closed = c \in closed])
           ELSE Go(r, "refused")
    /\ UNCHANGED <<rows, session, now, sweeps, history>>

\* SET of a new key, ex=7200.  A reply goes on with it; an empty or too long text is
\* refused only then, and the key, which nobody was given, stays.
Login(r, ok) ==
    /\ At(r, "login")
    /\ LET k == <<r, "login">> IN
         /\ Put(k, op[r].case, now + Life)
         /\ born' = [born EXCEPT ![k] = now]
         /\ Move(r, CASE op[r].kind = "sign_in" -> "signed_in" [] ok -> "post" [] OTHER -> "refused",
                 [op[r] EXCEPT !.key = k])
    /\ UNCHANGED <<rows, now, sweeps, root, ended, crossing, loose, doubled>>

----------------------------------------------------------------------------
(* Status page and replies *)

\* status_get, whistleblower_download_attachment: GET of the key.
View(r, k) ==
    /\ Free(r, "view")
    /\ Move(r, IF Live(k) THEN "look" ELSE "form",
            [Nothing EXCEPT !.case = IF Live(k) THEN session[k].case ELSE None])
    /\ UNCHANGED <<rows, session, now, sweeps, history>>

\* get_report_by_id: the case is shown, or the sign-in form again.
Look(r) ==
    /\ At(r, "look")
    /\ Go(r, IF op[r].case \in cases THEN "shown" ELSE "form")
    /\ UNCHANGED <<rows, session, now, sweeps, history>>

\* reply_post: GET of the key; without a session, case number and PIN if the form had them.
Reply(r, k, creds) ==
    /\ Free(r, "reply")
    /\ LET o == [Nothing EXCEPT !.kind = "reply", !.creds = creds] IN
         IF k # None /\ Live(k)
           THEN Move(r, "load", [o EXCEPT !.key = k, !.case = session[k].case])
           ELSE Move(r, IF creds = None THEN "unsent" ELSE "auth", o)
    /\ crossing' = IF k # None /\ Live(k) THEN crossing \cup Overlapped(k) ELSE crossing
    /\ UNCHANGED <<rows, session, now, sweeps, born, root, ended, loose, doubled>>

\* get_report_by_id; an empty or too long text is refused after it.
Load(r, ok) ==
    /\ At(r, "load")
    /\ IF op[r].case \in cases
         THEN Move(r, IF ok THEN "post" ELSE "refused", [op[r] EXCEPT !.closed = op[r].case \in closed])
         ELSE Go(r, IF op[r].creds = None THEN "unsent" ELSE "auth")
    /\ UNCHANGED <<rows, session, now, sweeps, history>>

\* add_whistleblower_message, unless the case was closed when it was loaded: an
\* INSERT that refers to a deleted case fails.
Post(r) ==
    /\ At(r, "post")
    /\ IF op[r].closed \/ op[r].case \in cases
         THEN /\ messages' = IF op[r].closed THEN messages ELSE messages \cup {[by |-> r, case |-> op[r].case]}
              /\ Go(r, "ttl")
         ELSE Go(r, "error") /\ UNCHANGED messages
    /\ UNCHANGED <<cases, closed, links, session, now, sweeps, history>>

\* Mutant: the fresh key starts a lifetime of its own.
LeftFull(k) == Life

\* max(1, TTL): 1 for a key that is gone.
Left(k) == IF Live(k) /\ session[k].until > now THEN session[k].until - now ELSE 1

\* TTL of the key that is to be replaced.
Ttl(r) ==
    /\ At(r, "ttl")
    /\ Move(r, "fresh", [op[r] EXCEPT !.left = Left(op[r].key)])
    /\ loose' = IF Live(op[r].key) THEN loose ELSE loose \cup {root[op[r].key]}
    /\ UNCHANGED <<rows, session, now, sweeps, born, root, ended, crossing, doubled>>

\* SET of the fresh key with that lifetime.
Fresh(r) ==
    /\ At(r, "fresh")
    /\ LET f == <<r, "fresh">>
           k == op[r].key IN
         /\ Put(f, op[r].case, now + op[r].left)
         /\ root' = [root EXCEPT ![f] = root[k]]
    /\ Go(r, "drop")
    /\ UNCHANGED <<rows, now, sweeps, born, ended, crossing, loose, doubled>>

\* DEL of the old one; the answer sets the cookie.
DropOld(r) ==
    /\ At(r, "drop")
    /\ Drop(op[r].key)
    /\ Move(r, IF op[r].closed THEN "closed" ELSE "sent", [op[r] EXCEPT !.key = <<r, "fresh">>])
    /\ UNCHANGED <<rows, now, sweeps, history>>

\* status_logout
Logout(r, k) ==
    /\ Free(r, "logout")
    /\ Drop(k)
    /\ ended' = IF Live(k) THEN ended \cup {root[k]} ELSE ended
    /\ crossing' = crossing \cup Overlapped(k)
    /\ Go(r, "done")
    /\ UNCHANGED <<rows, now, sweeps, born, root, loose, doubled>>

\* The worker dies, or Redis does not answer, after the reply is stored.
Die(r) ==
    /\ pc[r] \in {"ttl", "fresh", "drop"}
    /\ crossing' = crossing \cup {SignInOf(r)}
    /\ Go(r, "error")
    /\ UNCHANGED <<rows, session, now, sweeps, born, root, ended, loose, doubled>>

----------------------------------------------------------------------------
(* Cases end *)

\* confirm_deletion, run_retention_cleanup: the row goes, with its messages and
\* links; then end_status_sessions scans: it finds what is there throughout.
Delete(c) ==
    /\ "delete" \in mix.kinds /\ c \in cases
    /\ cases' = cases \ {c}
    /\ links' = {l \in links : c \notin l.pair}
    /\ messages' = {m \in messages : m.case # c}
    /\ sweep' = [sweep EXCEPT ![c] = "scanning"]
    /\ found' = [found EXCEPT ![c] = {k \in LiveKeys : session[k].case = c}]
    /\ crossing' = crossing \cup {SignInOf(q) : q \in {p \in InFlight : op[p].case = c}}
    /\ UNCHANGED <<closed, session, now, pc, op, mix, born, root, ended, loose, doubled>>

\* end_status_sessions: SCAN, MGET and DEL; a key made meanwhile may be found too.
Sweep(c, also) ==
    /\ sweep[c] = "scanning" /\ found' = [found EXCEPT ![c] = {}]
    /\ session' = [k \in Keys |-> IF k \in found[c] \cup also THEN None ELSE session[k]]
    /\ sweep' = [sweep EXCEPT ![c] = "swept"]
    /\ UNCHANGED <<rows, now, pc, op, mix, history>>

\* Redis does not answer: the sessions are left to expire.
SweepFails(c) ==
    /\ sweep[c] = "scanning" /\ found' = [found EXCEPT ![c] = {}]
    /\ sweep' = [sweep EXCEPT ![c] = "unswept"]
    /\ UNCHANGED <<rows, session, now, pc, op, mix, history>>

\* update_report_status: a case is closed or reopened.
CloseOrReopen(c) ==
    /\ "close" \in mix.kinds /\ c \in cases
    /\ closed' = IF c \in closed THEN closed \ {c} ELSE closed \cup {c}
    /\ UNCHANGED <<cases, messages, links, session, now, pc, op, sweeps, mix, history>>

Tick ==
    /\ now < mix.time /\ now' = now + 1
    /\ session' = [k \in Keys |-> IF Live(k) /\ session[k].until =< now + 1 THEN None ELSE session[k]]
    /\ loose' = loose \cup {root[op[r].key] : r \in {q \in Requests : At(q, "fresh")}}
    /\ UNCHANGED <<rows, pc, op, sweeps, mix, born, root, ended, crossing, doubled>>

----------------------------------------------------------------------------
(* Links between cases *)

\* Mutant: the pair is looked up in the order it was asked.
UnlinkedAny(pair) == TRUE

\* get_link_between: none; two of them raise.
Unlinked(pair) == \A l \in links : l.pair # pair

\* link_report: both cases found, and no link between them.
Link(r, pair) ==
    /\ Free(r, "link")
    /\ Move(r, IF pair \subseteq cases /\ Unlinked(pair) THEN "insert" ELSE "refused",
            [Nothing EXCEPT !.kind = "link", !.pair = pair])
    /\ UNCHANGED <<rows, session, now, sweeps, history>>

\* link_cases: INSERT and COMMIT, of cases that are still there.
InsertLink(r) ==
    /\ At(r, "insert")
    /\ LET pair == op[r].pair IN
         IF pair \subseteq cases
           THEN /\ links' = links \cup {[by |-> r, pair |-> pair]}
                /\ doubled' = doubled \cup {q \in Requests \ {r} : At(q, "insert") /\ op[q].pair = pair}
                /\ Go(r, "linked")
           ELSE Go(r, "error") /\ UNCHANGED <<links, doubled>>
    /\ UNCHANGED <<cases, closed, messages, session, now, sweeps, born, root, ended, crossing, loose>>

\* unlink_report
Unlink(r, l) ==
    /\ Free(r, "unlink") /\ l \in links
    /\ links' = links \ {l}
    /\ Go(r, "done")
    /\ UNCHANGED <<cases, closed, messages, session, now, sweeps, history>>

----------------------------------------------------------------------------
Handle(r) ==
    \/ \E c \in mix.cases : SignIn(r, c)
    \/ Auth(r)
    \/ \E k \in Issued : View(r, k) \/ Logout(r, k)
    \/ \E k \in Issued \cup {None}, creds \in mix.cases \cup {None} : Reply(r, k, creds)
    \/ Look(r) \/ Post(r) \/ Ttl(r) \/ Fresh(r) \/ DropOld(r) \/ Die(r)
    \/ \E ok \in BOOLEAN : Load(r, ok) \/ Login(r, ok)
    \/ \E pair \in Pairs : Link(r, pair)
    \/ InsertLink(r)
    \/ \E l \in links : Unlink(r, l)

Next ==
    \/ \E r \in Requests : Handle(r)
    \/ \E c \in Cases :
          \/ Delete(c) \/ SweepFails(c) \/ CloseOrReopen(c)
          \/ \E also \in SUBSET {k \in LiveKeys : session[k].case = c} : Sweep(c, also)
    \/ Tick

Spec == Init /\ [][Next]_vars

----------------------------------------------------------------------------
(* Properties *)

\* A session ends when its sign-in's lifetime does, whatever replies replaced
\* its key on the way: unless the key was gone when a reply asked how long it
\* had (the fresh one then gets a second) or the reply was slow to use the answer.
SessionNotExtended ==
    \A k \in LiveKeys : session[k].until =< born[root[k]] + Life \/ root[k] \in loose

\* A session that was logged out, or whose case was deleted and the sessions
\* swept, is gone under every key it had or gets: unless two replies of it were
\* under way at once, or one as it was ended, or one died.
EndedStaysEnded ==
    \A k \in LiveKeys :
        root[k] \in ended \/ sweep[session[k].case] = "swept" => root[k] \in crossing

\* A session ends when it was to end, and stays ended.
SessionsEnd == SessionNotExtended /\ EndedStaysEnded

\* A pair of cases is linked once, unless two linked it at the same time.
LinkedOnce ==
    \A l, m \in links : l # m /\ l.pair = m.pair => {l.by, m.by} \cap doubled # {}
=============================================================================
