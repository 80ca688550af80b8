------------------------------ MODULE Accounts ------------------------------
(***************************************************************************)
(* Who may run the instance: the setup wizard (src/app/api/wizard.py), the *)
(* accounts page (src/app/api/admin.py, services/users.py), accounts that  *)
(* a directory login makes and identities an account holder links          *)
(* (src/app/api/auth.py, services/oidc.py, ldap_auth.py), and the script   *)
(* on the host (src/scripts/reset_admin_password.py).                      *)
(*                                                                         *)
(* A handler loads the caller, loads the account it is about, checks, and  *)
(* writes what differs from the row it loaded: no lock is held except by   *)
(* the wizard.  An account or a token is named by the request that made    *)
(* it.  What a sign-in goes through is the module Access.                  *)
(***************************************************************************)
EXTENDS Naturals, FiniteSets

CONSTANTS
    Requests,    \* the requests, one handler each
    People,      \* the accounts an instance in use starts with
    Staff,       \* their rows, per mix
    Names,       \* user names
    Lower,       \* per name: what lower() makes of it
    Orgs,
    Tenancy,     \* MULTI_TENANCY_ENABLED
    LdapOn,      \* LDAP_ENABLED
    Configured,  \* SETUP_TOKEN is set
    Identities,  \* at the identity provider
    None,
    Mixes,       \* bound: the kinds of requests that come together, SUBSET SUBSET Kinds
    MaxTurns     \* bound, per mix: changes by holders and the host

Managing == {"create", "role", "deactivate", "reactivate", "reset"}
Kinds    == Managing \cup {"setup_page", "setup", "ldap", "link", "login", "callback", "unlink"}
Roles    == {"case_manager", "admin", "superadmin"}
Accounts == Requests \cup People

Row == [name : Names, role : Roles, active : BOOLEAN, enrolled : BOOLEAN, mustChange : BOOLEAN,
        password : BOOLEAN, ldap : Names \cup {None}, sub : Identities \cup {None}, org : Orgs]

ASSUME AccountsAssumption ==
    /\ IsFiniteSet(Requests) /\ IsFiniteSet(People)
    /\ Requests \cap People = {}
    /\ None \notin Accounts \cup Names \cup Identities \cup Row
    /\ Staff \in [Mixes -> [People -> Row]]
    /\ \A m \in Mixes :
         /\ \E u \in People : Staff[m][u].active /\ Staff[m][u].role # "case_manager"
         /\ \A u, v \in People : u # v => Lower[Staff[m][u].name] # Lower[Staff[m][v].name]
         /\ \A u \in People : Staff[m][u].sub = None
    /\ Names # {} /\ Orgs # {} /\ Lower \in [Names -> Names]
    /\ Tenancy \in BOOLEAN /\ LdapOn \in BOOLEAN /\ Configured \in BOOLEAN
    /\ Mixes \subseteq SUBSET Kinds /\ MaxTurns \in [Mixes -> Nat]

VARIABLES
    user,      \* per account: its row in "admin_users", or None
    complete,  \* SetupStatus.completed
    token,     \* openwhistle:setup-token
    states,    \* the OIDC states in Redis
    session,   \* per account: the session its holder has
    \* the handlers
    pc,        \* per request: its next step, or how it was answered
    op,        \* per request: what it asks
    rank,      \* per request: the caller's role as loaded
    snap,      \* per request: the row it is about as loaded
    mix,       \* what is asked
    turns,     \* changes by holders and the host so far
    \* history
    installers,  \* accounts the wizard made
    stale,       \* requests whose rows another has changed since, and the step they were at
    overran      \* of what kinds a request wrote that was stale at that step: "names", "roles"

redis == <<token, states, session>>
bound == <<mix, turns>>
vars  == <<user, complete, redis, pc, op, rank, snap, bound, installers, stale, overran>>

Ask == [kind : Kinds, by : Accounts \cup {None}, target : Accounts \cup {None},
        name : Names, role : Roles, org : Orgs, key : Requests \cup {None, "configured"},
        who : Identities \cup {None}, session : Nat]

Steps   == {"token", "check", "create", "delete", "name", "insert", "target", "count", "write",
            "taken", "provision", "exchange", "link", "unlink"}
Answers == {"refused", "done", "sent", "linked", "second"}

AnyName == CHOOSE n \in Names : TRUE
AnyOrg  == CHOOSE o \in Orgs : TRUE

Nothing == [kind |-> "setup_page", by |-> None, target |-> None, name |-> AnyName,
            role |-> "case_manager", org |-> AnyOrg, key |-> None, who |-> None, session |-> 0]

TypeOK ==
    /\ user \in [Accounts -> Row \cup {None}]
    /\ complete \in BOOLEAN
    /\ token \in Requests \cup {None, "configured"}
    /\ states \subseteq Requests
    /\ session \in [Accounts -> Nat]
    /\ pc \in [Requests -> {"idle"} \cup Steps \cup Answers]
    /\ op \in [Requests -> Ask]
    /\ rank \in [Requests -> Roles]
    /\ snap \in [Requests -> Row \cup {None}]
    /\ mix \in Mixes /\ turns \in 0..MaxTurns[mix]
    /\ installers \subseteq Requests /\ stale \subseteq Requests \X Steps
    /\ overran \subseteq {"names", "roles"}

\* An instance in use, or one just installed.
Init ==
    /\ complete \in BOOLEAN /\ mix \in Mixes
    /\ user = [u \in Accounts |-> IF complete /\ u \in People THEN Staff[mix][u] ELSE None]
    /\ token = None /\ states = {} /\ session = [u \in Accounts |-> 0]
    /\ pc = [r \in Requests |-> "idle"]
    /\ op = [r \in Requests |-> Nothing]
    /\ rank = [r \in Requests |-> "case_manager"]
    /\ snap = [r \in Requests |-> None]
    /\ turns = 0
    /\ installers = {} /\ stale = {} /\ overran = {}

----------------------------------------------------------------------------
(* Rows *)

Exists(u) == user[u] # None
Existing  == {u \in Accounts : Exists(u)}

Privileged(role) == role \in {"admin", "superadmin"}

\* count_active_privileged_admins
Administrators == {u \in Existing : user[u].active /\ Privileged(user[u].role)}

\* Mutant: the name is looked up as it is spelled.
NameTakenAsSpelled(n) == \E u \in Existing : user[u].name = n

\* get_user_by_username_ci
NameTaken(n) == \E u \in Existing : Lower[user[u].name] = Lower[n]

\* The unique constraint on the user name.
NameUsed(n) == \E u \in Existing : user[u].name = n

\* get_current_admin: a live session of an account that is active and enrolled
\* and owes no new password.
SignedIn(u) == Exists(u) /\ user[u].active /\ user[u].enrolled /\ ~user[u].mustChange

----------------------------------------------------------------------------
(* Steps of the handlers *)

At(r, l) == pc[r] = l

\* On to step l; an answer ends the locals, except what a state is bound to.
Move(r, l, o, k, s) ==
    /\ pc' = [pc EXCEPT ![r] = l]
    /\ op' = [op EXCEPT ![r] = IF l \in {"refused", "done"} THEN Nothing ELSE o]
    /\ rank' = [rank EXCEPT ![r] = IF l \in Answers THEN "case_manager" ELSE k]
    /\ snap' = [snap EXCEPT ![r] = IF l \in Answers THEN None ELSE s]
    /\ UNCHANGED bound

Go(r, l)      == Move(r, l, op[r], rank[r], snap[r])
Free(r, kind) == At(r, "idle") /\ kind \in mix
Start(r, l, o, k) == Free(r, o.kind) /\ Move(r, l, o, k, None)

Insert(r, row) == user' = [user EXCEPT ![r] = row]

\* A row changes: who has read such rows and not written yet, read old ones; who
\* has yet to count or to look for the name will find the new ones.
Change(r, u, row, kind, checked) ==
    /\ user' = [user EXCEPT ![u] = row]
    /\ stale' = {p \in stale \cup {<<q, pc[q]>> : q \in {q \in Requests : row # user[u] /\ pc[q] \in checked}} :
                   p[1] # r}
    /\ overran' = overran \cup (IF <<r, pc[r]>> \in stale THEN {kind} ELSE {})

Unwritten == UNCHANGED <<user, installers, stale, overran>>

----------------------------------------------------------------------------
(* Setup *)

\* setup_get, and a replica's start: is setup complete?
OpenSetup(r) ==
    /\ Start(r, IF complete THEN "done" ELSE "token", [Nothing EXCEPT !.kind = "setup_page"], "case_manager")
    /\ UNCHANGED <<complete, redis>> /\ Unwritten

\* ensure_setup_token: SET of the configured token, SET NX of a random one.
EnsureToken(r) ==
    /\ At(r, "token")
    /\ token' = IF Configured THEN "configured" ELSE IF token = None THEN r ELSE token
    /\ Go(r, "done")
    /\ UNCHANGED <<complete, states, session>> /\ Unwritten

\* setup_post, with a token read in the log or the environment, or a wrong one.
PostSetup(r, n, supplied) ==
    /\ Start(r, IF complete THEN "done" ELSE "check",
             [Nothing EXCEPT !.kind = "setup", !.name = n, !.key = supplied], "case_manager")
    /\ UNCHANGED <<complete, redis>> /\ Unwritten

\* claim_setup_token_attempt, check_setup_token and the checks of the fields.
CheckToken(r, ok) ==
    /\ At(r, "check")
    /\ Go(r, IF ok /\ token # None /\ op[r].key = token THEN "create" ELSE "refused")
    /\ UNCHANGED <<complete, redis>> /\ Unwritten

Initial(n) ==
    [name |-> n, role |-> "superadmin", active |-> TRUE, enrolled |-> TRUE, mustChange |-> FALSE,
     password |-> TRUE, ldap |-> None, sub |-> None, org |-> AnyOrg]

\* create_initial_admin: under the advisory lock, in one transaction.  A name a
\* directory login has taken meanwhile breaks the unique constraint.
CreateInitial(r) ==
    /\ At(r, "create")
    /\ IF complete \/ NameUsed(op[r].name)
         THEN /\ Go(r, IF complete THEN "done" ELSE "refused")
              /\ UNCHANGED complete /\ Unwritten
         ELSE /\ Insert(r, Initial(op[r].name)) /\ installers' = installers \cup {r}
              /\ complete' = TRUE
              /\ Go(r, "delete")
              /\ UNCHANGED <<stale, overran>>
    /\ UNCHANGED redis

\* delete_setup_token, unless the worker dies before.
DeleteToken(r, dies) ==
    /\ At(r, "delete")
    /\ token' = IF dies THEN token ELSE None
    /\ Go(r, "done")
    /\ UNCHANGED <<complete, states, session>> /\ Unwritten

----------------------------------------------------------------------------
(* The accounts page *)

\* require_admin, require_superadmin: the caller as loaded.
Call(r, o) ==
    /\ o.kind \in Managing /\ SignedIn(o.by)
    /\ IF o.kind = "reset" THEN user[o.by].role = "superadmin" ELSE Privileged(user[o.by].role)
    /\ Start(r, IF o.kind = "create" THEN "name" ELSE "target", o, user[o.by].role)
    /\ UNCHANGED <<complete, redis>> /\ Unwritten

\* _new_account_org: chosen by a superadmin of several organisations.
NewOrg(r) == IF Tenancy /\ rank[r] = "superadmin" THEN op[r].org ELSE user[op[r].by].org

\* create_user: the name, ignoring case, and the tier.
CheckName(r) ==
    /\ At(r, "name")
    /\ Go(r, IF NameTaken(op[r].name) \/ (op[r].role = "superadmin" /\ rank[r] # "superadmin")
             THEN "refused" ELSE "insert")
    /\ UNCHANGED <<complete, redis>> /\ Unwritten

NewRow(r) ==
    [name |-> op[r].name, role |-> op[r].role, active |-> TRUE, enrolled |-> FALSE,
     mustChange |-> TRUE, password |-> TRUE, ldap |-> None, sub |-> None, org |-> NewOrg(r)]

\* An account is added, unless a constraint refuses it.
Add(r, row) ==
    IF NameUsed(row.name) \/ (row.ldap # None /\ \E u \in Existing : user[u].ldap = row.ldap)
      THEN Go(r, "refused") /\ Unwritten
      ELSE /\ Change(r, r, row, "names", {"insert", "provision"})
           /\ Go(r, "done")
           /\ UNCHANGED installers

\* create_user's INSERT: the constraint knows one spelling only.
InsertAccount(r) ==
    /\ At(r, "insert")
    /\ Add(r, NewRow(r))
    /\ UNCHANGED <<complete, redis>>

\* _require_same_org
SameOrg(r, row) == (Tenancy /\ rank[r] # "superadmin") => row.org = user[op[r].by].org

\* Mutant: reactivation and the others check the organisation only.
MayManageOrg(r, row) == SameOrg(r, row)

\* _require_may_manage
MayManage(r, row) ==
    /\ SameOrg(r, row)
    /\ row.role = "superadmin" => rank[r] = "superadmin"

\* What the handler refuses: one's own account, except to reactivate it, and a
\* tier above one's own.
May(r, row) ==
    /\ IF op[r].kind = "reset" THEN SameOrg(r, row) ELSE MayManage(r, row)
    /\ op[r].kind # "reactivate" => op[r].target # op[r].by
    /\ op[r].kind = "role" /\ op[r].role = "superadmin" => rank[r] = "superadmin"

\* Mutant: only a deactivation does.
LessensNot(r, row) == row.active /\ Privileged(row.role) /\ op[r].kind = "deactivate"

\* The change takes an administrator away.
Lessens(r, row) ==
    /\ row.active /\ Privileged(row.role)
    /\ \/ op[r].kind = "deactivate"
       \/ op[r].kind = "role" /\ ~Privileged(op[r].role)

\* get_user_by_id: one's own row is the one the session has already loaded.
Loaded(r) ==
    LET row == user[op[r].target] IN
    IF op[r].target = op[r].by THEN [row EXCEPT !.active = TRUE, !.role = rank[r]] ELSE row

\* The row and the checks on it; no account is ever deleted.
LoadTarget(r) ==
    /\ At(r, "target")
    /\ LET row == Loaded(r) IN
         IF ~May(r, row)
           THEN Go(r, "refused")
           ELSE Move(r, IF Lessens(r, row) THEN "count" ELSE "write", op[r], rank[r], row)
    /\ UNCHANGED <<complete, redis>> /\ Unwritten

\* "Cannot demote the last active administrator."
Enough == Cardinality(Administrators) > 1

Count(r) ==
    /\ At(r, "count")
    /\ Go(r, IF Enough THEN "write" ELSE "refused")
    /\ UNCHANGED <<complete, redis>> /\ Unwritten

\* The row now, with the columns written that differ from what was loaded.
Written(r, row) ==
    LET was == snap[r] IN
    CASE op[r].kind = "role"       -> IF was.role = op[r].role THEN row ELSE [row EXCEPT !.role = op[r].role]
      [] op[r].kind = "deactivate" -> IF was.active THEN [row EXCEPT !.active = FALSE] ELSE row
      [] op[r].kind = "reactivate" -> IF was.active THEN row ELSE [row EXCEPT !.active = TRUE]
      [] OTHER                     -> [row EXCEPT !.enrolled = @ /\ ~was.enrolled,
                                                  !.mustChange = @ \/ (was.password /\ ~was.mustChange)]

\* UPDATE and COMMIT; the sweep of the sessions is the module Access.
WriteRow(r) ==
    /\ At(r, "write")
    /\ Change(r, op[r].target, Written(r, user[op[r].target]), "roles", {"count", "write"})
    /\ Go(r, "done")
    /\ UNCHANGED <<complete, redis, installers>>

----------------------------------------------------------------------------
(* A directory login *)

\* login_post after a bind: the directory's own spelling, looked up.
LdapLogin(r, n) ==
    /\ LdapOn
    /\ Start(r, IF \E u \in Existing : user[u].ldap = n THEN "done" ELSE "taken",
             [Nothing EXCEPT !.kind = "ldap", !.name = n], "case_manager")
    /\ UNCHANGED <<complete, redis>> /\ Unwritten

\* Never merged into a local account of the same name.
LdapTaken(r) ==
    /\ At(r, "taken")
    /\ Go(r, IF NameTaken(op[r].name) THEN "refused" ELSE "provision")
    /\ UNCHANGED <<complete, redis>> /\ Unwritten

\* The account of a first directory login, with the least privilege.
Provision(r) ==
    /\ At(r, "provision")
    /\ Add(r, [name |-> op[r].name, role |-> "case_manager", active |-> TRUE, enrolled |-> FALSE,
               mustChange |-> FALSE, password |-> FALSE, ldap |-> op[r].name, sub |-> None,
               org |-> AnyOrg])
    /\ UNCHANGED <<complete, redis>>

----------------------------------------------------------------------------
(* Single sign-on *)

\* oidc_link: the state is bound to the account and its session.
StartLink(r, u) ==
    /\ Free(r, "link") /\ SignedIn(u)
    /\ Start(r, "sent", [Nothing EXCEPT !.kind = "link", !.by = u, !.session = session[u]], "case_manager")
    /\ states' = states \cup {r}
    /\ UNCHANGED <<complete, token, session>> /\ Unwritten

\* oidc_authorize: the state is bound to the browser, whose cookie this request sets.
StartLogin(r) ==
    /\ Start(r, "sent", [Nothing EXCEPT !.kind = "login"], "case_manager")
    /\ states' = states \cup {r}
    /\ UNCHANGED <<complete, token, session>> /\ Unwritten

\* oidc_callback with the state of s, in a browser signed in as u, or with the
\* login cookie that c set; who the provider knows there is i.
Callback(r, s, u, c, i) ==
    /\ At(s, "sent")
    /\ IF op[s].kind = "link"
         THEN u # None /\ SignedIn(u) /\ c = None
         ELSE u = None /\ (c # None => At(c, "sent") /\ op[c].kind = "login")
    /\ Free(r, "callback")
    /\ Move(r, "exchange",
            [Nothing EXCEPT !.kind = "callback", !.by = u, !.target = s, !.key = c, !.who = i,
                            !.session = IF u = None THEN 0 ELSE session[u]],
            "case_manager", IF u = None THEN None ELSE user[u])
    /\ UNCHANGED <<complete, redis>> /\ Unwritten

\* Mutant: the binding is stored and not compared.
BoundAny(r, s) == TRUE

\* exchange_code: compare_digest of the bindings.
Bound(r, s) ==
    IF op[s].kind = "link" THEN op[s].by = op[r].by /\ op[s].session = op[r].session
    ELSE op[r].key = s

\* exchange_code: GETDEL, then the comparison and the provider's answer; a login
\* finds the account of the identity.
Exchange(r, ok) ==
    /\ At(r, "exchange")
    /\ LET s == op[r].target IN
         /\ states' = states \ {s}
         /\ Go(r, IF ~(ok /\ s \in states /\ Bound(r, s)) THEN "refused"
                  ELSE IF op[s].kind = "link" THEN "link"
                  ELSE IF \E u \in Existing : user[u].sub = op[r].who THEN "second"
                  ELSE "refused")
    /\ UNCHANGED <<complete, token, session>> /\ Unwritten

\* _oidc_link_callback's COMMIT; an identity of another account is never moved.
Link(r) ==
    /\ At(r, "link")
    /\ LET u == op[r].by IN
         IF \E v \in Existing \ {u} : user[v].sub = op[r].who
           THEN Go(r, "refused") /\ UNCHANGED user
           ELSE /\ Go(r, "linked")
                /\ user' = IF snap[r].sub = op[r].who THEN user
                           ELSE [user EXCEPT ![u].sub = op[r].who]
    /\ UNCHANGED <<complete, redis, installers, stale, overran>>

\* oidc_unlink: a password, or a directory name while LDAP is on.
OtherWayIn(row) == row.password \/ (row.ldap # None /\ LdapOn)

\* oidc_unlink: the caller as loaded.
StartUnlink(r, u) ==
    /\ Free(r, "unlink") /\ SignedIn(u)
    /\ Move(r, IF user[u].sub = None THEN "done" ELSE IF OtherWayIn(user[u]) THEN "unlink" ELSE "refused",
            [Nothing EXCEPT !.kind = "unlink", !.by = u], "case_manager", user[u])
    /\ UNCHANGED <<complete, redis>> /\ Unwritten

Unlink(r) ==
    /\ At(r, "unlink")
    /\ user' = [user EXCEPT ![op[r].by].sub = None]
    /\ Go(r, "done")
    /\ UNCHANGED <<complete, redis, installers, stale, overran>>

----------------------------------------------------------------------------
(* Account holders and the host *)

\* One more turn of someone who asks nothing of the handlers above.
Turn ==
    /\ turns < MaxTurns[mix] /\ turns' = turns + 1
    /\ UNCHANGED <<complete, token, states, pc, op, rank, snap, mix, installers, stale, overran>>

\* A new sign-in or a refresh: the session's token is another one.
NewSession(u) ==
    /\ SignedIn(u)
    /\ session' = [session EXCEPT ![u] = @ + 1]
    /\ Turn /\ UNCHANGED user

\* The holder's own steps and the host's script end the sessions they do not use.
Update(u, row) ==
    /\ user' = [user EXCEPT ![u] = row]
    /\ Turn /\ UNCHANGED session

\* mfa_setup_post: the next login enrols an authenticator.
Enrol(u) ==
    /\ user[u].active /\ ~user[u].enrolled
    /\ Update(u, [user[u] EXCEPT !.enrolled = TRUE])

\* account_password: the holder replaces a password another chose.
ReplacePassword(u) ==
    /\ user[u].active /\ user[u].enrolled /\ user[u].mustChange
    /\ Update(u, [user[u] EXCEPT !.mustChange = FALSE])

\* _reset_password of the script.
HostPassword(u) ==
    /\ Update(u, [user[u] EXCEPT !.password = TRUE, !.mustChange = TRUE])

\* _reset_totp of the script: enrolled at once.
HostTotp(u) ==
    /\ Update(u, [user[u] EXCEPT !.enrolled = TRUE])

----------------------------------------------------------------------------
Setup(r) ==
    \/ OpenSetup(r) \/ EnsureToken(r) \/ CreateInitial(r)
    \/ Free(r, "setup") /\ \E n \in Names, supplied \in {token, None} : PostSetup(r, n, supplied)
    \/ \E b \in BOOLEAN : CheckToken(r, b) \/ DeleteToken(r, b)

\* What is asked on the accounts page.
Manage(r) ==
    \/ Free(r, "create") /\ \E by \in Existing, n \in Names, role \in Roles, org \in Orgs :
           Call(r, [Nothing EXCEPT !.kind = "create", !.by = by, !.name = n, !.role = role, !.org = org])
    \/ Free(r, "role") /\ \E by, target \in Existing, role \in Roles :
           Call(r, [Nothing EXCEPT !.kind = "role", !.by = by, !.target = target, !.role = role])
    \/ \E kind \in {"deactivate", "reactivate", "reset"} :
           Free(r, kind) /\ \E by, target \in Existing :
              Call(r, [Nothing EXCEPT !.kind = kind, !.by = by, !.target = target])
    \/ CheckName(r) \/ InsertAccount(r) \/ LoadTarget(r) \/ Count(r) \/ WriteRow(r)

Directory(r) ==
    \/ Free(r, "ldap") /\ \E n \in Names : LdapLogin(r, n)
    \/ LdapTaken(r) \/ Provision(r)

SignOn(r) ==
    \/ \E u \in Existing : StartLink(r, u) \/ StartUnlink(r, u)
    \/ StartLogin(r) \/ Link(r) \/ Unlink(r)
    \/ /\ Free(r, "callback")
       /\ \E s \in Requests, u \in Existing \cup {None}, c \in Requests \cup {None}, i \in Identities :
             Callback(r, s, u, c, i)
    \/ \E ok \in BOOLEAN : Exchange(r, ok)

Holder(u) == NewSession(u) \/ Enrol(u) \/ ReplacePassword(u) \/ HostPassword(u) \/ HostTotp(u)

Next ==
    \/ \E r \in Requests : Setup(r) \/ Manage(r) \/ Directory(r) \/ SignOn(r)
    \/ \E u \in Existing : Holder(u)

Spec == Init /\ [][Next]_vars

----------------------------------------------------------------------------
(* Properties *)

\* Whoever opens /setup, in however many browsers and replicas, and whatever
\* token is written after setup is complete: the wizard makes one account.
OneInstaller == Cardinality(installers) =< 1

\* No two accounts have names that differ in case only, so nobody signs as
\* another: unless two were made at once (the constraint knows one spelling),
\* or the wizard's is one of them, which asks for no other.
NamesDistinct ==
    \A u, v \in Existing \ installers :
        u # v /\ Lower[user[u].name] = Lower[user[v].name] => "names" \in overran

\* The two together: what is made once is made once.
MadeOnce == OneInstaller /\ NamesDistinct

\* An instance in use always has someone active who may run it, unless two
\* changes overlapped: the count and the UPDATE are two statements.
SomeoneAdministers == complete => Administrators # {} \/ "roles" \in overran

\* What the superadmin tier protects of a row.
Tier(row) == IF row = None THEN None ELSE <<row.role, row.active>>
Super(row) == row # None /\ row.role = "superadmin"

\* A superadmin is made, unmade, activated or deactivated by the wizard or by
\* another who was superadmin when the request began; one whose target became
\* superadmin after it was loaded is the exception.
TierKept ==
    [][\A u \in Accounts :
         (Super(user[u]) \/ Super(user'[u])) /\ Tier(user[u]) # Tier(user'[u]) =>
            \/ u \in installers' \ installers
            \/ \E r \in Requests :
                  /\ pc[r] \in {"write", "insert"} /\ pc'[r] = "done"
                  /\ rank[r] = "superadmin" \/ \E l \in Steps : <<r, l>> \in stale
                  /\ u # op[r].by]_vars

\* A linked identity is on one account, and a signed-in session of that very
\* account both asked for the link and completed it, with a state used once.
LinkLands ==
    /\ \A u, v \in Existing : u # v /\ user[u].sub # None => user[u].sub # user[v].sub
    /\ \A u \in Existing : user[u].sub # None =>
         \E r \in Requests :
            /\ At(r, "linked") /\ op[r].by = u /\ op[r].who = user[u].sub
            /\ LET s == op[r].target IN
                 /\ op[s].kind = "link" /\ op[s].by = u /\ op[s].session = op[r].session
                 /\ s \notin states
                 /\ \A q \in Requests \ {r} : At(q, "linked") => op[q].target # s

\* A browser gets to the second factor with the state it was given itself.
LoginLands ==
    \A r \in Requests : At(r, "second") =>
        op[r].key = op[r].target /\ op[r].target \notin states

\* Neither a link nor a login of someone else's making takes effect here.
SignOnLands == LinkLands /\ LoginLands
=============================================================================
