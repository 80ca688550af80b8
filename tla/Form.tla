-------------------------------- MODULE Form --------------------------------
(***************************************************************************)
(* The reporting form, step by step (src/app/api/reports.py), with the     *)
(* categories, locations, organisations and settings its answers are       *)
(* checked against (src/app/services/categories.py, locations.py and their *)
(* pages in src/app/api/admin.py).                                         *)
(*                                                                         *)
(* The answers are one draft in Redis that every request loads, changes    *)
(* and saves as a whole, several tabs of a browser at once.  What an       *)
(* answer is checked against may change at any time.  The draft followed   *)
(* here is the browser's first; a request that is given a new session id   *)
(* works on another one and leaves.  How a claim survives crashes is the   *)
(* subject of Submission: here nothing fails between claim and COMMIT.     *)
(***************************************************************************)
EXTENDS Naturals, FiniteSets

CONSTANTS
    Tabs,        \* requests at one time
    Orgs,        \* the organisations, each with a form of its own
    Default,     \* the default organisation, whose form is /submit
    Slugs,       \* slugs of categories
    Categories,  \* categories there are, or will be: organisation and slug
    Builtin,     \* the default ones among them
    Places,      \* locations
    PlaceOrg,    \* whose each is
    None,
    Changes,     \* what the office changes meanwhile: SUBSET ChangeKinds
    MaxChanges   \* bound: how often

ChangeKinds == {"category", "location", "organisation", "mode"}

Mode == 1
Location == 2
Category == 3
Description == 4
Attachments == 5
Review == 6
Steps == Mode..Review

Modes == {"anonymous", "confidential"}

Draft == [step : Steps, mode : Modes \cup {None}, named : BOOLEAN, place : Places \cup {None},
          category : Slugs \cup {None}, text : BOOLEAN, org : Orgs \cup {None}]
Claims == [by : Tabs, draft : Draft]

ASSUME FormAssumption ==
    /\ Default \in Orgs
    /\ Categories \subseteq Orgs \X Slugs /\ Builtin \subseteq Categories
    /\ PlaceOrg \in [Places -> Orgs]
    /\ None \notin Orgs \cup Slugs \cup Places
    /\ None \notin Modes /\ None \notin Steps /\ None \notin Draft /\ None \notin Claims
    /\ Changes \subseteq ChangeKinds /\ MaxChanges \in Nat

VARIABLES
    \* Redis
    draft,    \* submission-session:<id>, or None
    claimed,  \* the draft a final submit holds, or None
    \* the database
    active,   \* the active categories
    open,     \* the active locations
    orgs,     \* the active organisations
    report,   \* the report filed with the draft's id, or None
    \* settings.submission_mode_enabled
    choice,
    \* the handlers
    pc,       \* per tab
    at,       \* per tab: whose form
    state,    \* per tab: the draft as loaded
    offer,    \* per tab: categories and whether there are locations, as read
    born,     \* the draft has been begun
    astray,   \* history: it was saved without an organisation
    changes   \* office changes so far

redis  == <<draft, claimed>>
office == <<active, open, orgs, choice, changes>>
locals == <<pc, at, state, offer>>
formVars == <<redis, office, report, locals, born, astray>>

Offer == [slugs : SUBSET Slugs, places : BOOLEAN]

\* A draft without answers; text: the description passes its check.
Blank == [step |-> Mode, mode |-> None, named |-> FALSE, place |-> None, category |-> None,
          text |-> FALSE, org |-> None]
NoOffer == [slugs |-> {}, places |-> FALSE]

Report == [mode : Modes, named : BOOLEAN, place : Places \cup {None}, category : Slugs,
           text : BOOLEAN, org : Orgs, began : Orgs \cup {None}]

Kinds == {"get", "post", "remove"}

FormTypeOK ==
    /\ draft \in Draft \cup {None}
    /\ claimed \in Claims \cup {None}
    /\ active \subseteq Categories /\ open \subseteq Places /\ orgs \subseteq Orgs
    /\ report \in Report \cup {None}
    /\ choice \in BOOLEAN
    /\ pc \in [Tabs -> Kinds \cup {"idle", "file"}]
    /\ at \in [Tabs -> Orgs]
    /\ state \in [Tabs -> Draft]
    /\ offer \in [Tabs -> Offer]
    /\ born \in BOOLEAN /\ astray \in BOOLEAN /\ changes \in 0..MaxChanges

FormInit ==
    /\ draft = None /\ claimed = None
    /\ active \in SUBSET Categories /\ Builtin \subseteq active /\ open \in SUBSET Places
    /\ orgs = Orgs /\ report = None /\ choice = TRUE
    /\ pc = [t \in Tabs |-> "idle"] /\ at = [t \in Tabs |-> Default]
    /\ state = [t \in Tabs |-> Blank] /\ offer = [t \in Tabs |-> NoOffer]
    /\ born = FALSE /\ astray = FALSE /\ changes = 0

----------------------------------------------------------------------------
(* What an answer is checked against *)

ActiveCategories(o) == {s \in Slugs : <<o, s>> \in active}
ActiveLocations(o)  == {p \in open : PlaceOrg[p] = o}

HasLocations(o) == ActiveLocations(o) # {}

Offered(o) == [slugs |-> ActiveCategories(o), places |-> HasLocations(o)]

ModeError(mode)          == mode \notin (IF choice THEN Modes ELSE {"anonymous"})
LocationError(place, o)  == place # None /\ place \notin ActiveLocations(o)
CategoryError(slug, ofr) == slug \notin ofr.slugs
DescriptionError(text)   == ~text

\* The steps whose answers no longer pass.
Errors(d, o, ofr) ==
    {s \in Steps :
        \/ s = Mode /\ ModeError(d.mode)
        \/ s = Location /\ ofr.places /\ LocationError(d.place, o)
        \/ s = Category /\ CategoryError(d.category, ofr)
        \/ s = Description /\ DescriptionError(d.text)}

\* Mutant: what passed its step is not checked again.
DraftErrorNot(d, o, ofr) == IF d.mode = None \/ d.category = None THEN Mode ELSE None

\* _draft_error: the first of them, or None.
DraftError(d, o, ofr) ==
    IF Errors(d, o, ofr) = {} THEN None
    ELSE CHOOSE s \in Errors(d, o, ofr) : \A r \in Errors(d, o, ofr) : s =< r

----------------------------------------------------------------------------
(* Requests *)

Move(t, l, d) ==
    /\ pc' = [pc EXCEPT ![t] = l]
    /\ state' = [state EXCEPT ![t] = d]

\* An answer: the locals go.
Done(t) ==
    /\ Move(t, "idle", Blank)
    /\ at' = [at EXCEPT ![t] = Default]
    /\ offer' = [offer EXCEPT ![t] = NoOffer]

\* _load_draft: the draft, unless it is another organisation's.
Loadable(d, o) == d # None /\ d.org \in {o, None}

\* The draft is begun by the first POST, under a session id of the server's.
First == draft = None /\ claimed = None /\ ~born

\* _tenant, then the draft is loaded.  A request that finds none waits for a
\* submit that holds it, or is given a new session id: it changes nothing here.
\* Bound: once a report is filed, no further requests begin.
Begin(t, kind, o) ==
    /\ pc[t] = "idle" /\ o \in orgs /\ report = None
    /\ \/ Loadable(draft, o) /\ Move(t, kind, draft) /\ UNCHANGED born
       \/ First /\ kind = "post" /\ Move(t, kind, Blank) /\ born' = TRUE
    /\ at' = [at EXCEPT ![t] = o]
    /\ UNCHANGED <<redis, office, report, offer, astray>>

\* _save_submission
Save(d) == draft' = d /\ astray' = (astray \/ d.org = None)

\* submit_get: what was loaded is saved again, past a location step that has gone.
Get(t) ==
    /\ pc[t] = "get"
    /\ LET d == state[t]
       IN  Save(IF d.step = Location /\ ~HasLocations(at[t]) THEN [d EXCEPT !.step = Category] ELSE d)
    /\ Done(t)
    /\ UNCHANGED <<claimed, office, report, born>>

\* submit_remove_attachment: on the attachments step only, and if the file is there.
Remove(t, found) ==
    /\ pc[t] = "remove"
    /\ IF state[t].step = Attachments /\ found THEN Save(state[t]) ELSE UNCHANGED <<draft, astray>>
    /\ Done(t)
    /\ UNCHANGED <<claimed, office, report, born>>

\* submit_restart: the draft is deleted, a claimed one is not.
Restart(t, o) ==
    /\ pc[t] = "idle" /\ born /\ o \in orgs
    /\ draft' = None
    /\ UNCHANGED <<claimed, office, report, locals, born, astray>>

\* The steps of submit_post that save the draft and redirect.
Post(t, d) ==
    /\ pc[t] = "post"
    /\ Save(d)
    /\ Done(t)
    /\ UNCHANGED <<claimed, office, report, born>>

\* A page that is not the draft's step, or an unknown action: the draft as it was loaded.
Stale(t) == Post(t, state[t])

\* The draft as loaded, now the organisation's (setdefault).
Own(t) == [state[t] EXCEPT !.org = IF @ = None THEN at[t] ELSE @]

On(t, step) == state[t].step = step

Back(t) ==
    LET prev == IF state[t].step = Mode THEN Mode ELSE state[t].step - 1
    IN  Post(t, [Own(t) EXCEPT !.step = IF ~HasLocations(at[t]) /\ prev = Location THEN Mode ELSE prev])

\* Mutant: what identifies stays in the draft.
WithModeKept(d, mode) == [d EXCEPT !.mode = mode, !.named = (@ \/ mode = "confidential")]

\* The chosen mode, with what identifies; purged in an anonymous draft.
WithMode(d, mode) == [d EXCEPT !.mode = mode, !.named = (mode = "confidential")]

\* Step 1; an address that is none keeps the step.
PostMode(t, mode, mailed) ==
    LET effective == IF choice THEN mode ELSE "anonymous"
        d == WithMode(Own(t), effective)
    IN  /\ On(t, Mode)
        /\ Post(t, IF ModeError(effective) THEN [Own(t) EXCEPT !.step = Mode]
                   ELSE IF effective = "confidential" /\ ~mailed THEN [d EXCEPT !.step = Mode]
                   ELSE [d EXCEPT !.step = IF HasLocations(at[t]) THEN Location ELSE Category])

\* Step 2; without locations the answer stays what it was.
PostLocation(t, place) ==
    /\ On(t, Location)
    /\ Post(t, IF ~HasLocations(at[t]) THEN [Own(t) EXCEPT !.step = Category]
               ELSE IF LocationError(place, at[t]) THEN [Own(t) EXCEPT !.step = Location]
               ELSE [Own(t) EXCEPT !.place = place, !.step = Category])

\* Step 3
PostCategory(t, slug) ==
    /\ On(t, Category)
    /\ Post(t, IF CategoryError(slug, Offered(at[t])) THEN [Own(t) EXCEPT !.step = Category]
               ELSE [Own(t) EXCEPT !.category = slug, !.step = Description])

\* Mutant: a rejected description does not hold the form back.
AfterDescriptionAny(text) == Attachments

AfterDescription(text) == IF DescriptionError(text) THEN Description ELSE Attachments

\* Step 4; a rejected description is kept, to be edited.
PostDescription(t, text) ==
    /\ On(t, Description)
    /\ Post(t, [Own(t) EXCEPT !.text = text, !.step = AfterDescription(text)])

\* Step 5: refused files (read_upload_files) and no room in Redis (_draft_room)
\* keep the step.
PostAttachments(t, accepted) ==
    /\ On(t, Attachments)
    /\ Post(t, [Own(t) EXCEPT !.step = IF accepted THEN Review ELSE Attachments])

\* Step 6: _CLAIM_DRAFT takes the draft as it is now.  Who comes second waits.
Claim(t) ==
    /\ pc[t] = "post" /\ On(t, Review)
    /\ IF draft # None /\ claimed = None
         THEN /\ claimed' = [by |-> t, draft |-> draft] /\ draft' = None
              /\ Move(t, "file", state[t])
              /\ offer' = [offer EXCEPT ![t] = Offered(at[t])]
              /\ UNCHANGED at
         ELSE Done(t) /\ UNCHANGED redis
    /\ UNCHANGED <<office, report, born, astray>>

\* What create_report stores of the claimed draft.
Filed(d, o, ofr) ==
    [mode |-> d.mode, named |-> d.mode = "confidential" /\ d.named,
     place |-> IF ofr.places THEN d.place ELSE None, category |-> d.category, text |-> d.text,
     org |-> o, began |-> d.org]

\* The claimed draft is checked again; it is given back with the step that fails, or
\* filed, or found to be filed already (the primary key), and spent (_FINISH_CLAIM).
File(t) ==
    LET d == claimed.draft
        step == DraftError(d, at[t], offer[t])
    IN  /\ pc[t] = "file"
        /\ claimed' = None
        /\ IF step # None
             THEN Save([d EXCEPT !.step = step]) /\ UNCHANGED report
             ELSE /\ draft' = None /\ UNCHANGED astray
                  /\ report' = IF report = None THEN Filed(d, at[t], offer[t]) ELSE report
        /\ Done(t)
        /\ UNCHANGED <<office, born>>

\* The draft's two hours end.
Expire ==
    /\ draft # None /\ draft' = None
    /\ UNCHANGED <<claimed, office, report, locals, born, astray>>

----------------------------------------------------------------------------
(* The office *)

Change(kind) ==
    /\ kind \in Changes /\ changes < MaxChanges
    /\ changes' = changes + 1
    /\ UNCHANGED <<redis, report, locals, born, astray>>

\* create_category (a slug is one category of an organisation, DuplicateSlugError),
\* reactivate_category
OpenCategory(c) ==
    /\ Change("category") /\ c \notin active
    /\ active' = active \cup {c}
    /\ UNCHANGED <<open, orgs, choice>>

\* deactivate_category: not a default one.
CloseCategory(c) ==
    /\ Change("category") /\ c \in active \ Builtin
    /\ active' = active \ {c}
    /\ UNCHANGED <<open, orgs, choice>>

\* deactivate_location
CloseLocation(p) ==
    /\ Change("location") /\ p \in open
    /\ open' = open \ {p}
    /\ UNCHANGED <<active, orgs, choice>>

\* create_location, reactivate_location
OpenLocation(p) ==
    /\ Change("location") /\ p \notin open
    /\ open' = open \cup {p}
    /\ UNCHANGED <<active, orgs, choice>>

\* deactivate_organisation: not the default one.
DeactivateOrganisation(o) ==
    /\ Change("organisation") /\ o # Default
    /\ orgs' = orgs \ {o}
    /\ UNCHANGED <<active, open, choice>>

\* The operator sets SUBMISSION_MODE_ENABLED.
SetChoice ==
    /\ Change("mode")
    /\ choice' = ~choice
    /\ UNCHANGED <<active, open, orgs>>

----------------------------------------------------------------------------
Request(t) ==
    \/ \E kind \in Kinds, o \in Orgs : Begin(t, kind, o)
    \/ \E o \in Orgs : Restart(t, o)
    \/ Get(t) \/ Stale(t) \/ Back(t)
    \/ \E mode \in Modes \cup {None}, mailed \in BOOLEAN : PostMode(t, mode, mailed)
    \/ \E place \in Places \cup {None} : PostLocation(t, place)
    \/ \E slug \in Slugs \cup {None} : PostCategory(t, slug)
    \/ \E text \in BOOLEAN : PostDescription(t, text)
    \/ \E found \in BOOLEAN : Remove(t, found)
    \/ \E accepted \in BOOLEAN : PostAttachments(t, accepted)
    \/ Claim(t) \/ File(t)

Office ==
    \/ \E c \in Categories : OpenCategory(c) \/ CloseCategory(c)
    \/ \E p \in Places : CloseLocation(p) \/ OpenLocation(p)
    \/ \E o \in Orgs : DeactivateOrganisation(o)
    \/ SetChoice

FormNext == (\E t \in Tabs : Request(t)) \/ Office \/ Expire

FormSpec == FormInit /\ [][FormNext]_formVars

----------------------------------------------------------------------------
(* Properties *)

\* The drafts there are: in Redis, claimed, and in a request's hands.
Drafts == {state[t] : t \in Tabs}
            \cup (IF draft = None THEN {} ELSE {draft})
            \cup (IF claimed = None THEN {} ELSE {claimed.draft})

\* An anonymous draft or report holds nothing that identifies, also when the
\* reporter began confidentially and several tabs save over one another.
AnonymousUnnamed ==
    /\ \A d \in Drafts : d.mode = "anonymous" => ~d.named
    /\ report # None /\ report.mode = "anonymous" => ~report.named

\* No step is passed without its answer, whichever pages are posted in whichever order.
StepsAnswered ==
    \A d \in Drafts :
        /\ d.step > Mode => d.mode # None
        /\ d.step > Category => d.category # None
        /\ d.step > Description => d.text

\* A report is complete and of its organisation, also when the draft was being
\* edited in another tab as it was claimed, and whatever the office changed
\* meanwhile; a draft is filed where it was begun (unless it was once saved
\* without an organisation, which a stale page of an empty form does).
FiledComplete ==
    report # None =>
        /\ report.text
        /\ <<report.org, report.category>> \in Categories
        /\ report.place # None => PlaceOrg[report.place] = report.org
        /\ ~astray => report.began = report.org
=============================================================================
