----------------------------- MODULE FormProofs -----------------------------
(* What holds of the reporting form for any number of tabs, organisations, *)
(* categories and locations, however the office changes them meanwhile; and *)
(* of the bounds on attempts and uploads, for any number of them at once.   *)
EXTENDS Form, Limits, FiniteSetTheorems, TLAPS

----------------------------------------------------------------------------
(* One draft *)

\* What is true of every draft, wherever it is.
Unnamed(d) == d.mode = "anonymous" => ~d.named

Answered(d) ==
    /\ d.step > Mode => d.mode # None
    /\ d.step > Category => d.category # None
    /\ d.step > Description => d.text

Good(d) == d \in Draft /\ Unnamed(d) /\ Answered(d)

LEMMA BlankGood == Blank \in Draft /\ Good(Blank) /\ Blank.org = None
BY FormAssumption DEF Blank, Draft, Good, Unnamed, Answered, Steps, Mode, Location, Category, Description,
   Review, Modes

\* To an earlier step nothing more is needed.
LEMMA StepBack ==
    ASSUME NEW d, Good(d), NEW s \in Steps, s =< d.step
    PROVE  Good([d EXCEPT !.step = s]) /\ [d EXCEPT !.step = s].org = d.org
BY DEF Good, Draft, Unnamed, Answered, Steps, Mode, Category, Description, Review

LEMMA OwnGood ==
    ASSUME NEW t \in Tabs, Good(state[t]), at[t] \in Orgs
    PROVE  /\ Good(Own(t))
           /\ Own(t).step = state[t].step /\ Own(t).mode = state[t].mode
           /\ Own(t).category = state[t].category /\ Own(t).text = state[t].text
           /\ Own(t).place = state[t].place /\ Own(t).named = state[t].named
           /\ Own(t).org = IF state[t].org = None THEN at[t] ELSE state[t].org
BY DEF Own, Good, Draft, Unnamed, Answered

\* An answer, and the step after it.
LEMMA Placed ==
    ASSUME NEW o, Good(o), o.step = Location, NEW place \in Places \cup {None}
    PROVE  Good([o EXCEPT !.place = place, !.step = Category])
           /\ [o EXCEPT !.place = place, !.step = Category].org = o.org
<1> DEFINE d == [o EXCEPT !.place = place, !.step = Category]
<1>1. o \in Draft BY DEF Good
<1>2. d \in Draft
  <2>1. Category \in Steps BY DEF Steps, Mode, Category, Review
  <2> QED BY <1>1, <2>1 DEF Draft
<1>3. /\ d.mode = o.mode /\ d.named = o.named /\ d.category = o.category /\ d.text = o.text
      /\ d.org = o.org /\ d.step = Category
  BY <1>1 DEF Draft
<1>4. Good(d)
  <2> HIDE DEF d
  <2> QED BY <1>2, <1>3 DEF Good, Unnamed, Answered, Mode, Location, Category, Description
<1> QED BY <1>3, <1>4

\* Without locations their step is passed unanswered.
LEMMA Passed ==
    ASSUME NEW o, Good(o), o.step = Location
    PROVE  Good([o EXCEPT !.step = Category]) /\ [o EXCEPT !.step = Category].org = o.org
BY DEF Good, Draft, Unnamed, Answered, Steps, Mode, Location, Category, Description, Review

LEMMA Categorised ==
    ASSUME NEW o, Good(o), o.step = Category, NEW slug \in Slugs
    PROVE  Good([o EXCEPT !.category = slug, !.step = Description])
           /\ [o EXCEPT !.category = slug, !.step = Description].org = o.org
<1> DEFINE d == [o EXCEPT !.category = slug, !.step = Description]
<1>1. o \in Draft BY DEF Good
<1>2. d \in Draft
  <2>1. Description \in Steps BY DEF Steps, Mode, Description, Review
  <2> QED BY <1>1, <2>1 DEF Draft
<1>3. /\ d.mode = o.mode /\ d.named = o.named /\ d.category = slug /\ d.text = o.text
      /\ d.org = o.org /\ d.step = Description
  BY <1>1 DEF Draft
<1>4. Good(d)
  <2> HIDE DEF d
  <2> QED BY <1>2, <1>3, FormAssumption DEF Good, Unnamed, Answered, Mode, Category, Description
<1> QED BY <1>3, <1>4

LEMMA Described ==
    ASSUME NEW o, Good(o), o.step = Description, NEW text \in BOOLEAN,
           NEW s \in {Description, Attachments}, s = Attachments => text
    PROVE  Good([o EXCEPT !.text = text, !.step = s])
           /\ [o EXCEPT !.text = text, !.step = s].org = o.org
<1> DEFINE d == [o EXCEPT !.text = text, !.step = s]
<1>1. o \in Draft BY DEF Good
<1>2. s \in Steps BY DEF Steps, Mode, Description, Attachments, Review
<1>3. d \in Draft BY <1>1, <1>2 DEF Draft
<1>4. /\ d.mode = o.mode /\ d.named = o.named /\ d.category = o.category /\ d.text = text
      /\ d.org = o.org /\ d.step = s
  BY <1>1 DEF Draft
<1>5. Good(d)
  <2> HIDE DEF d
  <2> QED BY <1>3, <1>4 DEF Good, Unnamed, Answered, Mode, Category, Description, Attachments
<1> QED BY <1>4, <1>5

----------------------------------------------------------------------------
(* The invariant *)

\* A filing tab has the claim, and its offer is of its own organisation.
Filing(t) ==
    pc[t] = "file" =>
        /\ claimed # None /\ claimed.by = t
        /\ offer[t].slugs \subseteq {s \in Slugs : <<at[t], s>> \in Categories}

\* One organisation's form: that of the tabs at work, of the draft and of the claim.
OneForm ==
    /\ draft # None => draft.org # None
    /\ claimed # None => claimed.draft.org # None
    /\ draft # None /\ claimed # None => draft.org = claimed.draft.org
    /\ \A t \in Tabs : pc[t] # "idle" =>
          /\ draft # None => draft.org = at[t]
          /\ claimed # None => claimed.draft.org = at[t]
          /\ state[t].org \in {at[t], None}
          /\ state[t].org = None =>
                /\ pc[t] = "post" /\ draft = None /\ claimed = None
                /\ \A u \in Tabs : pc[u] # "idle" => u = t
          /\ \A u \in Tabs : pc[u] # "idle" => at[u] = at[t]

\* What is filed was begun where it is filed.
ReportOk ==
    report # None =>
        /\ report.mode = "anonymous" => ~report.named
        /\ report.text
        /\ <<report.org, report.category>> \in Categories
        /\ report.place # None => PlaceOrg[report.place] = report.org
        /\ ~astray => report.began = report.org

FormInv ==
    /\ FormTypeOK
    /\ draft # None => Good(draft)
    /\ claimed # None => Good(claimed.draft)
    /\ \A t \in Tabs : Good(state[t]) /\ Filing(t)
    /\ ~born => draft = None /\ claimed = None /\ \A t \in Tabs : pc[t] = "idle"
    /\ ~astray => OneForm
    /\ ReportOk

LEMMA FormInitInv == FormInit => FormInv
<1> SUFFICES ASSUME FormInit PROVE FormInv OBVIOUS
<1>1. FormTypeOK
  <2>1. NoOffer \in Offer BY DEF NoOffer, Offer
  <2>2. changes \in 0..MaxChanges BY FormAssumption DEF FormInit
  <2> QED BY <2>1, <2>2, FormAssumption, BlankGood DEF FormInit, FormTypeOK
<1>2. \A t \in Tabs : Good(state[t]) /\ Filing(t) BY BlankGood DEF FormInit, Filing
<1> QED BY <1>1, <1>2 DEF FormInit, FormInv, OneForm, ReportOk

----------------------------------------------------------------------------
(* Steps of a tab *)

\* A request that saves the draft and answers: of the organisation it was loaded for.
LEMMA SaveDone ==
    ASSUME FormInv, NEW t \in Tabs, pc[t] \in {"get", "post", "remove"}, NEW d, Good(d),
           d.org \in {state[t].org, Own(t).org},
           Save(d), Done(t), UNCHANGED <<claimed, office, report, born>>
    PROVE  FormInv'
<1>0. FormTypeOK /\ ReportOk /\ born /\ (~astray => OneForm)
  BY DEF FormInv
<1>a. /\ \A u \in Tabs : Good(state[u]) /\ Filing(u)
      /\ claimed # None => Good(claimed.draft)
  BY DEF FormInv
<1>1. /\ draft' = d /\ astray' = (astray \/ d.org = None)
      /\ pc' = [pc EXCEPT ![t] = "idle"] /\ state' = [state EXCEPT ![t] = Blank]
      /\ at' = [at EXCEPT ![t] = Default] /\ offer' = [offer EXCEPT ![t] = NoOffer]
      /\ UNCHANGED <<claimed, active, open, orgs, choice, changes, report, born>>
  BY DEF Save, Done, Move, office
<1>2. d \in Draft /\ d # None BY FormAssumption DEF Good, Draft
<1>3. /\ FormTypeOK'
      /\ \A u \in Tabs : pc'[u] # "idle" =>
            u # t /\ pc'[u] = pc[u] /\ at'[u] = at[u] /\ state'[u] = state[u] /\ offer'[u] = offer[u]
  <2> NoOffer \in Offer BY DEF NoOffer, Offer
  <2> USE <1>0, <1>1 DEF FormTypeOK
  <2>1. pc' \in [Tabs -> Kinds \cup {"idle", "file"}] OBVIOUS
  <2>2. at' \in [Tabs -> Orgs] BY FormAssumption
  <2>3. state' \in [Tabs -> Draft] BY BlankGood
  <2>4. offer' \in [Tabs -> Offer] OBVIOUS
  <2>5. astray' \in BOOLEAN OBVIOUS
  <2>6. \A u \in Tabs : pc'[u] # "idle" =>
            u # t /\ pc'[u] = pc[u] /\ at'[u] = at[u] /\ state'[u] = state[u] /\ offer'[u] = offer[u]
    OBVIOUS
  <2> QED BY <1>2, <2>1, <2>2, <2>3, <2>4, <2>5, <2>6
<1>4. \A u \in Tabs : Good(state[u])' /\ Filing(u)'
  BY <1>0, <1>a, <1>1, <1>3, BlankGood DEF FormTypeOK, Filing
<1>5. ASSUME ~astray' PROVE OneForm'
  <2>1. ~astray /\ d.org # None /\ OneForm BY <1>0, <1>1, <1>5 DEF FormTypeOK
  <2>2. d.org = at[t] BY <2>1 DEF OneForm, Own
  <2>3. \A u \in Tabs \ {t} : pc[u] # "idle" => at[u] = at[t] /\ state[u].org # None
    BY <2>1 DEF OneForm
  <2> QED BY <1>1, <1>3, <2>1, <2>2, <2>3 DEF OneForm
<1>6. ReportOk' BY <1>0, <1>1 DEF ReportOk, FormTypeOK
<1> QED BY <1>0, <1>a, <1>1, <1>2, <1>3, <1>4, <1>5, <1>6 DEF FormInv

LEMMA GetInv ==
    ASSUME FormInv, NEW t \in Tabs, Get(t)
    PROVE  FormInv'
<1>1. Good(state[t]) /\ at[t] \in Orgs BY DEF FormInv, FormTypeOK
<1> DEFINE d == IF On(t, Location) /\ ~HasLocations(at[t]) THEN [state[t] EXCEPT !.step = Category]
                ELSE state[t]
<1>2. Good(d) /\ d.org = state[t].org
  BY <1>1 DEF Good, Draft, Unnamed, Answered, Steps, Mode, Location, Category, Description, Review, On
<1>3. Save(d) /\ Done(t) /\ UNCHANGED <<claimed, office, report, born>> /\ pc[t] = "get"
  BY DEF Get, On
<1> QED BY <1>2, <1>3, SaveDone

\* A request that answers and changes nothing.
LEMMA DoneInv ==
    ASSUME FormInv, NEW t \in Tabs, Done(t), UNCHANGED <<redis, office, report, born, astray>>
    PROVE  FormInv'
<1>1. /\ pc' = [pc EXCEPT ![t] = "idle"] /\ state' = [state EXCEPT ![t] = Blank]
      /\ at' = [at EXCEPT ![t] = Default] /\ offer' = [offer EXCEPT ![t] = NoOffer]
      /\ UNCHANGED <<draft, astray, claimed, active, open, orgs, choice, changes, report, born>>
  BY DEF Done, Move, office, redis
<1>2. FormTypeOK /\ ReportOk /\ (~astray => OneForm) /\ (~born => \A u \in Tabs : pc[u] = "idle")
  BY DEF FormInv
<1>3. \A u \in Tabs : Good(state[u]) /\ Filing(u) BY DEF FormInv
<1>4. NoOffer \in Offer BY DEF NoOffer, Offer
<1>5. /\ pc' \in [Tabs -> Kinds \cup {"idle", "file"}] /\ at' \in [Tabs -> Orgs]
      /\ state' \in [Tabs -> Draft] /\ offer' \in [Tabs -> Offer]
      /\ pc'[t] = "idle" /\ state'[t] = Blank
      /\ \A u \in Tabs \ {t} :
            pc'[u] = pc[u] /\ at'[u] = at[u] /\ state'[u] = state[u] /\ offer'[u] = offer[u]
  BY <1>1, <1>2, <1>4, BlankGood, FormAssumption DEF FormTypeOK
<1>6. FormTypeOK' BY <1>1, <1>2, <1>5 DEF FormTypeOK
<1>7. \A u \in Tabs : Good(state[u])' /\ Filing(u)' BY <1>1, <1>3, <1>5, BlankGood DEF Filing
<1>8. ~astray' => OneForm' BY <1>1, <1>2, <1>5 DEF OneForm
<1>9. ReportOk' BY <1>1, <1>2 DEF ReportOk
<1> QED BY <1>1, <1>2, <1>5, <1>6, <1>7, <1>8, <1>9 DEF FormInv

LEMMA RemoveInv ==
    ASSUME FormInv, NEW t \in Tabs, NEW found \in BOOLEAN, Remove(t, found)
    PROVE  FormInv'
<1>1. Good(state[t]) BY DEF FormInv
<1>2. CASE On(t, Attachments) /\ found BY <1>1, <1>2, SaveDone DEF Remove, On
<1>3. CASE ~(On(t, Attachments) /\ found)
  <2>1. Done(t) /\ UNCHANGED <<redis, office, report, born, astray>> BY <1>3 DEF Remove, On, redis
  <2> QED BY <2>1, DoneInv
<1> QED BY <1>2, <1>3

\* The steps of submit_post that save and redirect.
LEMMA PostInv ==
    ASSUME FormInv, NEW t \in Tabs, NEW d, Good(d), d.org \in {state[t].org, Own(t).org}, Post(t, d)
    PROVE  FormInv'
BY SaveDone DEF Post

LEMMA OwnOk ==
    ASSUME FormInv, NEW t \in Tabs
    PROVE  /\ Good(state[t]) /\ Good(Own(t)) /\ at[t] \in Orgs
           /\ Own(t).step = state[t].step /\ Own(t).mode = state[t].mode
           /\ Own(t).category = state[t].category /\ Own(t).text = state[t].text
           /\ Own(t).place = state[t].place /\ Own(t).named = state[t].named
BY OwnGood DEF FormInv, FormTypeOK

LEMMA BackInv ==
    ASSUME FormInv, NEW t \in Tabs, Back(t)
    PROVE  FormInv'
<1> DEFINE prev == IF state[t].step = Mode THEN Mode ELSE state[t].step - 1
           s == IF ~HasLocations(at[t]) /\ prev = Location THEN Mode ELSE prev
<1>1. Good(Own(t)) /\ Own(t).step = state[t].step /\ Own(t).step \in Steps BY OwnOk DEF Good, Draft
<1>2. s \in Steps /\ s =< Own(t).step BY <1>1 DEF Steps, Mode, Location, Review
<1>3. Post(t, [Own(t) EXCEPT !.step = s]) BY DEF Back
<1> QED BY <1>1, <1>2, <1>3, StepBack, PostInv

LEMMA PostModeInv ==
    ASSUME FormInv, NEW t \in Tabs, NEW mode \in Modes \cup {None}, NEW mailed \in BOOLEAN,
           PostMode(t, mode, mailed)
    PROVE  FormInv'
<1> DEFINE effective == IF choice THEN mode ELSE "anonymous"
           w == WithMode(Own(t), effective)
           d == IF ModeError(effective) THEN [Own(t) EXCEPT !.step = Mode]
                ELSE IF effective = "confidential" /\ ~mailed THEN [w EXCEPT !.step = Mode]
                ELSE [w EXCEPT !.step = IF HasLocations(at[t]) THEN Location ELSE Category]
<1>1. Good(Own(t)) /\ Own(t).step = Mode BY OwnOk DEF PostMode, On
<1>2. Good([Own(t) EXCEPT !.step = Mode]) /\ [Own(t) EXCEPT !.step = Mode].org = Own(t).org
  <2>1. Mode \in Steps /\ Mode =< Own(t).step BY <1>1 DEF Steps, Mode, Review
  <2> QED BY <1>1, <2>1, StepBack
<1>3. ~ModeError(effective) => effective \in Modes /\ effective # None
  BY FormAssumption DEF ModeError, Modes
<1>4. ASSUME effective \in Modes, effective # None, NEW l \in {Mode, Location, Category}
      PROVE  Good([w EXCEPT !.step = l]) /\ [w EXCEPT !.step = l].org = Own(t).org
  <2>1. w = [Own(t) EXCEPT !.mode = effective, !.named = (effective = "confidential")] BY DEF WithMode
  <2>2. w \in Draft /\ w.org = Own(t).org /\ w.mode = effective /\ w.named = (effective = "confidential")
    BY <1>1, <1>4, <2>1 DEF Good, Draft
  <2> HIDE DEF w, effective
  <2> QED BY <1>4, <2>2 DEF Good, Draft, Unnamed, Answered, Steps, Mode, Location, Category, Description, Review
<1>5. Good(d) /\ d.org = Own(t).org BY <1>2, <1>3, <1>4
<1>6. Post(t, d) BY DEF PostMode
<1> QED BY <1>5, <1>6, PostInv

LEMMA PostLocationInv ==
    ASSUME FormInv, NEW t \in Tabs, NEW place \in Places \cup {None}, PostLocation(t, place)
    PROVE  FormInv'
<1>1. Good(Own(t)) /\ Own(t).step = Location BY OwnOk DEF PostLocation, On
<1>2. CASE ~HasLocations(at[t])
  <2>1. Post(t, [Own(t) EXCEPT !.step = Category]) BY <1>2 DEF PostLocation
  <2>2. Good([Own(t) EXCEPT !.step = Category]) /\ [Own(t) EXCEPT !.step = Category].org = Own(t).org
    BY <1>1, Passed
  <2> QED BY <2>1, <2>2, PostInv
<1>3. CASE HasLocations(at[t]) /\ LocationError(place, at[t])
  <2>1. Post(t, [Own(t) EXCEPT !.step = Location]) BY <1>3 DEF PostLocation
  <2>2. Location \in Steps /\ Location =< Own(t).step BY <1>1 DEF Steps, Mode, Location, Review
  <2>3. Good([Own(t) EXCEPT !.step = Location]) /\ [Own(t) EXCEPT !.step = Location].org = Own(t).org
    BY <1>1, <2>2, StepBack
  <2> QED BY <2>1, <2>3, PostInv
<1>4. CASE HasLocations(at[t]) /\ ~LocationError(place, at[t])
  <2>1. Post(t, [Own(t) EXCEPT !.place = place, !.step = Category]) BY <1>4 DEF PostLocation
  <2> QED BY <1>1, <2>1, Placed, PostInv
<1> QED BY <1>2, <1>3, <1>4

LEMMA PostCategoryInv ==
    ASSUME FormInv, NEW t \in Tabs, NEW slug \in Slugs \cup {None}, PostCategory(t, slug)
    PROVE  FormInv'
<1>1. Good(Own(t)) /\ Own(t).step = Category BY OwnOk DEF PostCategory, On
<1>2. CASE CategoryError(slug, Offered(at[t]))
  <2>1. Post(t, [Own(t) EXCEPT !.step = Category]) BY <1>2 DEF PostCategory
  <2>2. Category \in Steps /\ Category =< Own(t).step BY <1>1 DEF Steps, Mode, Category, Review
  <2>3. Good([Own(t) EXCEPT !.step = Category]) /\ [Own(t) EXCEPT !.step = Category].org = Own(t).org
    BY <1>1, <2>2, StepBack
  <2> QED BY <2>1, <2>3, PostInv
<1>3. CASE ~CategoryError(slug, Offered(at[t]))
  <2>1. slug \in Slugs BY <1>3 DEF CategoryError, Offered, ActiveCategories
  <2>2. Post(t, [Own(t) EXCEPT !.category = slug, !.step = Description]) BY <1>3 DEF PostCategory
  <2> QED BY <1>1, <2>1, <2>2, Categorised, PostInv
<1> QED BY <1>2, <1>3

LEMMA PostDescriptionInv ==
    ASSUME FormInv, NEW t \in Tabs, NEW text \in BOOLEAN, PostDescription(t, text)
    PROVE  FormInv'
<1>1. Good(Own(t)) /\ Own(t).step = Description BY OwnOk DEF PostDescription, On
<1>2. /\ AfterDescription(text) \in {Description, Attachments}
      /\ AfterDescription(text) = Attachments => text
  BY DEF AfterDescription, DescriptionError, Description, Attachments
<1>3. Post(t, [Own(t) EXCEPT !.text = text, !.step = AfterDescription(text)]) BY DEF PostDescription
<1> QED BY <1>1, <1>2, <1>3, Described, PostInv

LEMMA PostAttachmentsInv ==
    ASSUME FormInv, NEW t \in Tabs, NEW accepted \in BOOLEAN, PostAttachments(t, accepted)
    PROVE  FormInv'
<1> DEFINE o == Own(t)
           d == [o EXCEPT !.step = IF accepted THEN Review ELSE Attachments]
<1>1. Good(o) /\ o.step = Attachments BY OwnOk DEF PostAttachments, On
<1>2. Good(d) /\ d.org = o.org
  <2> HIDE DEF o
  <2> QED BY <1>1 DEF Good, Draft, Unnamed, Answered, Steps, Mode, Category, Description, Attachments, Review
<1>3. Post(t, d) BY DEF PostAttachments
<1> QED BY <1>2, <1>3, PostInv

LEMMA StaleInv ==
    ASSUME FormInv, NEW t \in Tabs, Stale(t)
    PROVE  FormInv'
BY OwnOk, PostInv DEF Stale

LEMMA OfferedOk == ASSUME FormTypeOK, NEW o
                   PROVE  /\ Offered(o) \in Offer
                          /\ Offered(o).slugs \subseteq {s \in Slugs : <<o, s>> \in Categories}
BY DEF Offered, Offer, ActiveCategories, HasLocations, FormTypeOK

LEMMA ClaimInv ==
    ASSUME FormInv, NEW t \in Tabs, Claim(t)
    PROVE  FormInv'
<1>1. CASE ~(draft # None /\ claimed = None)
  <2>1. Done(t) /\ UNCHANGED <<redis, office, report, born, astray>> BY <1>1 DEF Claim
  <2> QED BY <2>1, DoneInv
<1>2. CASE draft # None /\ claimed = None
  <2>0. FormTypeOK /\ ReportOk /\ born /\ (~astray => OneForm) /\ Good(draft) /\ pc[t] = "post"
    BY <1>2 DEF FormInv, Claim
  <2>a. \A u \in Tabs : Good(state[u]) /\ Filing(u) BY DEF FormInv
  <2>1. /\ claimed' = [by |-> t, draft |-> draft] /\ draft' = None
        /\ pc' = [pc EXCEPT ![t] = "file"] /\ state' = [state EXCEPT ![t] = state[t]]
        /\ offer' = [offer EXCEPT ![t] = Offered(at[t])]
        /\ UNCHANGED <<at, active, open, orgs, choice, changes, report, born, astray>>
    BY <1>2 DEF Claim, Move, office
  <2>2. claimed' \in Claims /\ claimed'.draft = draft /\ claimed'.by = t
    BY <2>0, <2>1 DEF Claims, Good
  <2>3. claimed' # None BY <2>2, FormAssumption
  <2>4. /\ pc' \in [Tabs -> Kinds \cup {"idle", "file"}] /\ state' = state
        /\ offer' \in [Tabs -> Offer] /\ offer'[t] = Offered(at[t])
        /\ \A u \in Tabs : pc'[u] # "idle" => pc[u] # "idle"
        /\ \A u \in Tabs \ {t} : pc'[u] = pc[u] /\ offer'[u] = offer[u]
    BY <2>0, <2>1, OfferedOk DEF FormTypeOK
  <2>5. FormTypeOK' BY <2>0, <2>1, <2>2, <2>4 DEF FormTypeOK
  <2>6. \A u \in Tabs : Filing(u)'
    <3>1. Filing(t)' BY <2>0, <2>1, <2>2, <2>3, <2>4, OfferedOk DEF Filing
    <3>2. \A u \in Tabs \ {t} : Filing(u)' BY <1>2, <2>a, <2>4 DEF Filing
    <3> QED BY <3>1, <3>2
  <2>7. ~astray' => OneForm'
    <3> SUFFICES ASSUME ~astray PROVE OneForm' BY <2>1
    <3>1. /\ draft.org # None
          /\ \A u \in Tabs : pc[u] # "idle" =>
                draft.org = at[u] /\ state[u].org = at[u] /\ \A v \in Tabs : pc[v] # "idle" => at[v] = at[u]
      BY <1>2, <2>0 DEF OneForm
    <3> QED BY <2>0, <2>1, <2>2, <2>4, <3>1 DEF OneForm
  <2>8. ReportOk' BY <2>0, <2>1 DEF ReportOk
  <2>9. \A u \in Tabs : Good(state[u])' BY <2>a, <2>4
  <2> QED BY <2>0, <2>1, <2>2, <2>5, <2>6, <2>7, <2>8, <2>9 DEF FormInv
<1> QED BY <1>1, <1>2

\* The step a claimed draft is given back with is the first that fails.
LEMMA FirstError ==
    ASSUME NEW d, NEW o, NEW ofr
    PROVE  \/ DraftError(d, o, ofr) = None /\ Errors(d, o, ofr) = {}
           \/ /\ DraftError(d, o, ofr) # None
              /\ DraftError(d, o, ofr) \in Errors(d, o, ofr)
              /\ \A r \in Errors(d, o, ofr) : DraftError(d, o, ofr) =< r
<1> DEFINE E == Errors(d, o, ofr)
           least == CHOOSE s \in E : \A r \in E : s =< r
<1>1. E \subseteq {Mode, Location, Category, Description} /\ E \subseteq Steps BY DEF Errors
<1>2. CASE E = {} BY <1>2 DEF DraftError
<1>3. CASE E # {}
  <2>1. \E s \in E : \A r \in E : s =< r
    <3> HIDE DEF E
    <3>1. CASE Mode \in E BY <1>1, <3>1 DEF Mode, Location, Category, Description
    <3>2. CASE Mode \notin E /\ Location \in E BY <1>1, <3>2 DEF Mode, Location, Category, Description
    <3>3. CASE Mode \notin E /\ Location \notin E /\ Category \in E
      BY <1>1, <3>3 DEF Mode, Location, Category, Description
    <3>4. CASE Mode \notin E /\ Location \notin E /\ Category \notin E
      <4>1. \A r \in E : r = Description BY <1>1, <3>4
      <4> QED BY <1>3, <4>1 DEF Description
    <3> QED BY <3>1, <3>2, <3>3, <3>4
  <2>2. least \in E /\ \A r \in E : least =< r BY <2>1
  <2>3. least # None BY <1>1, <2>2, FormAssumption
  <2>4. DraftError(d, o, ofr) = least BY <1>3 DEF DraftError
  <2> QED BY <2>2, <2>3, <2>4
<1> QED BY <1>2, <1>3

\* What a filing tab holds, and what passed the check before a given step.
LEMMA FileFacts ==
    ASSUME FormInv, NEW t \in Tabs, pc[t] = "file"
    PROVE  /\ claimed # None /\ claimed.by = t /\ Good(claimed.draft) /\ born
           /\ \A u \in Tabs \ {t} : pc[u] # "file"
           /\ offer[t].slugs \subseteq {s \in Slugs : <<at[t], s>> \in Categories}
           /\ at[t] \in Orgs
BY DEF FormInv, Filing, FormTypeOK

LEMMA GivenBackGood ==
    ASSUME NEW d, Good(d), NEW o, NEW ofr, ofr.slugs \subseteq Slugs, NEW s \in Errors(d, o, ofr),
           \A r \in Errors(d, o, ofr) : s =< r
    PROVE  Good([d EXCEPT !.step = s]) /\ [d EXCEPT !.step = s].org = d.org
<1>1. d \in Draft BY DEF Good
<1>2. s \in Steps /\ s \in {Mode, Location, Category, Description} BY DEF Errors
<1>3. [d EXCEPT !.step = s] \in Draft BY <1>1, <1>2 DEF Draft
<1>4. s > Mode => d.mode # None
  <2>1. s > Mode => Mode \notin Errors(d, o, ofr) BY <1>2 DEF Mode, Location, Category, Description
  <2>2. Mode \notin Errors(d, o, ofr) => ~ModeError(d.mode)
    BY DEF Errors, Steps, Mode, Location, Category, Description, Review
  <2>3. ~ModeError(d.mode) => d.mode # None BY FormAssumption DEF ModeError, Modes
  <2> QED BY <2>1, <2>2, <2>3
<1>5. s > Category => d.category # None
  <2>1. s > Category => Category \notin Errors(d, o, ofr) BY <1>2 DEF Mode, Location, Category, Description
  <2>2. Category \notin Errors(d, o, ofr) => ~CategoryError(d.category, ofr)
    BY DEF Errors, Steps, Mode, Location, Category, Description, Review
  <2>3. ~CategoryError(d.category, ofr) => d.category # None BY FormAssumption DEF CategoryError
  <2> QED BY <2>1, <2>2, <2>3
<1>6. ~(s > Description) BY <1>2 DEF Mode, Location, Category, Description
<1>7. Answered([d EXCEPT !.step = s]) /\ Unnamed([d EXCEPT !.step = s]) /\ [d EXCEPT !.step = s].org = d.org
  <2> DEFINE e == [d EXCEPT !.step = s]
  <2>1. /\ e.step = s /\ e.mode = d.mode /\ e.named = d.named /\ e.category = d.category /\ e.text = d.text
        /\ e.org = d.org
    BY <1>1 DEF Draft
  <2>2. Answered(e) /\ Unnamed(e)
    <3> HIDE DEF e
    <3> QED BY <1>4, <1>5, <1>6, <2>1 DEF Answered, Unnamed, Good
  <2> QED BY <2>1, <2>2
<1> QED BY <1>3, <1>7 DEF Good

LEMMA FiledOk ==
    ASSUME NEW d, Good(d), NEW o \in Orgs, NEW ofr \in Offer,
           ofr.slugs \subseteq {s \in Slugs : <<o, s>> \in Categories}, Errors(d, o, ofr) = {}
    PROVE  /\ Filed(d, o, ofr) \in Report
           /\ Filed(d, o, ofr).mode = "anonymous" => ~Filed(d, o, ofr).named
           /\ Filed(d, o, ofr).text
           /\ <<Filed(d, o, ofr).org, Filed(d, o, ofr).category>> \in Categories
           /\ Filed(d, o, ofr).place # None => PlaceOrg[Filed(d, o, ofr).place] = Filed(d, o, ofr).org
           /\ Filed(d, o, ofr).began = d.org /\ Filed(d, o, ofr).org = o
<1> DEFINE place == IF ofr.places THEN d.place ELSE None
           named == d.mode = "confidential" /\ d.named
<1>1. ~ModeError(d.mode) /\ (ofr.places => ~LocationError(d.place, o)) /\ ~CategoryError(d.category, ofr)
      /\ ~DescriptionError(d.text)
  BY DEF Errors, Steps, Mode, Location, Category, Description, Review
<1>2. d.mode \in Modes BY <1>1 DEF ModeError, Modes
<1>3. d.category \in Slugs /\ <<o, d.category>> \in Categories BY <1>1 DEF CategoryError
<1>4. d.text = TRUE BY <1>1 DEF DescriptionError, Good, Draft
<1>5. place \in Places \cup {None} /\ (place # None => PlaceOrg[place] = o)
  BY <1>1 DEF LocationError, ActiveLocations, Good, Draft
<1>6. d.org \in Orgs \cup {None} /\ d.text \in BOOLEAN BY DEF Good, Draft
<1>7. Filed(d, o, ofr) = [mode |-> d.mode, named |-> named, place |-> place,
                          category |-> d.category, text |-> d.text, org |-> o, began |-> d.org]
  BY DEF Filed
<1>8. named \in BOOLEAN OBVIOUS
<1> DEFINE r == Filed(d, o, ofr)
<1>9. r \in Report
  <2> HIDE DEF place, named
  <2> QED BY <1>2, <1>3, <1>5, <1>6, <1>7, <1>8 DEF Report
<1>10. /\ r.mode = d.mode /\ r.text = d.text /\ r.place = place /\ r.category = d.category
       /\ r.org = o /\ r.began = d.org
       /\ r.named = named
  BY <1>7
<1>11. r.mode = "anonymous" => ~r.named BY <1>10
<1> HIDE DEF place, r
<1>12. r.text /\ <<r.org, r.category>> \in Categories BY <1>3, <1>4, <1>10
<1>13. r.place # None => PlaceOrg[r.place] = r.org BY <1>5, <1>10
<1> QED BY <1>9, <1>10, <1>11, <1>12, <1>13 DEF r

LEMMA FileInv ==
    ASSUME FormInv, NEW t \in Tabs, File(t)
    PROVE  FormInv'
<1> DEFINE d == claimed.draft
           step == DraftError(d, at[t], offer[t])
           back == [d EXCEPT !.step = step]
<1>0. /\ FormTypeOK /\ ReportOk /\ (~astray => OneForm) /\ pc[t] = "file"
      /\ \A u \in Tabs : Good(state[u]) /\ Filing(u)
  BY DEF FormInv, File
<1>1. /\ claimed # None /\ Good(d) /\ born
      /\ \A u \in Tabs \ {t} : pc[u] # "file"
      /\ offer[t].slugs \subseteq {s \in Slugs : <<at[t], s>> \in Categories}
      /\ at[t] \in Orgs /\ offer[t] \in Offer
  BY <1>0, FileFacts DEF FormTypeOK
<1>2. /\ claimed' = None
      /\ pc' = [pc EXCEPT ![t] = "idle"] /\ state' = [state EXCEPT ![t] = Blank]
      /\ at' = [at EXCEPT ![t] = Default] /\ offer' = [offer EXCEPT ![t] = NoOffer]
      /\ UNCHANGED <<active, open, orgs, choice, changes, born>>
  BY DEF File, Done, Move, office
<1>3. NoOffer \in Offer BY DEF NoOffer, Offer
<1>4. /\ pc' \in [Tabs -> Kinds \cup {"idle", "file"}] /\ at' \in [Tabs -> Orgs]
      /\ state' \in [Tabs -> Draft] /\ offer' \in [Tabs -> Offer]
      /\ pc'[t] = "idle" /\ state'[t] = Blank
      /\ \A u \in Tabs \ {t} :
            pc'[u] = pc[u] /\ at'[u] = at[u] /\ state'[u] = state[u] /\ offer'[u] = offer[u]
  BY <1>0, <1>2, <1>3, BlankGood, FormAssumption DEF FormTypeOK
<1>5. \A u \in Tabs : Good(state[u])' /\ Filing(u)' BY <1>0, <1>1, <1>4, BlankGood DEF Filing
<1>6. ASSUME ~astray
      PROVE  /\ d.org = at[t] /\ d.org # None
             /\ \A u \in Tabs \ {t} : pc[u] # "idle" =>
                   at[u] = d.org /\ state[u].org = d.org /\ \A v \in Tabs : pc[v] # "idle" => at[v] = at[u]
  BY <1>0, <1>1, <1>6 DEF OneForm
<1>7. /\ draft' = None \/ (Good(draft') /\ draft'.org = d.org)
      /\ astray' \in BOOLEAN /\ (~astray' => ~astray)
      /\ report' \in Report \cup {None} /\ ReportOk'
  <2>1. CASE step # None
    <3> DEFINE E == Errors(d, at[t], offer[t])
    <3>0. \/ step = None /\ E = {}
          \/ step # None /\ step \in E /\ \A r \in E : step =< r
      BY FirstError
    <3>1. step \in E /\ \A r \in E : step =< r
      <4> HIDE DEF E, step
      <4>1. QED BY <2>1, <3>0
    <3>2. Good(back) /\ back.org = d.org
      <4>1. offer[t].slugs \subseteq Slugs BY <1>1
      <4> HIDE DEF d, step
      <4>2. QED BY <1>1, <3>1, <4>1, GivenBackGood
    <3>3. draft' = back /\ astray' = (astray \/ back.org = None) /\ report' = report
      BY <2>1 DEF File, Save
    <3> HIDE DEF back
    <3>4. ReportOk' BY <1>0, <3>3 DEF ReportOk, FormTypeOK
    <3> QED BY <1>0, <3>2, <3>3, <3>4 DEF FormTypeOK
  <2>2. CASE step = None
    <3>1. /\ draft' = None /\ astray' = astray
          /\ report' = IF report = None THEN Filed(d, at[t], offer[t]) ELSE report
      BY <2>2 DEF File
    <3>2. Errors(d, at[t], offer[t]) = {} BY <2>2, FirstError
    <3>3. ReportOk' /\ report' \in Report \cup {None}
      <4>1. CASE report # None BY <1>0, <3>1, <4>1 DEF ReportOk, FormTypeOK
      <4>2. CASE report = None
        <5> DEFINE r == Filed(d, at[t], offer[t])
        <5>1. /\ r \in Report /\ (r.mode = "anonymous" => ~r.named) /\ r.text
              /\ <<r.org, r.category>> \in Categories
              /\ (r.place # None => PlaceOrg[r.place] = r.org)
              /\ r.began = d.org /\ r.org = at[t]
          BY <1>1, <3>2, FiledOk
        <5>2. report' = r /\ astray' = astray BY <3>1, <4>2
        <5>3. ~astray => r.began = r.org BY <1>6, <5>1
        <5> HIDE DEF r
        <5> QED BY <5>1, <5>2, <5>3 DEF ReportOk
      <4> QED BY <4>1, <4>2
    <3> QED BY <1>0, <3>1, <3>3 DEF FormTypeOK
  <2> QED BY <2>1, <2>2
<1>8. FormTypeOK' BY <1>0, <1>2, <1>4, <1>7 DEF FormTypeOK, Good
<1>9. ~astray' => OneForm'
  <2> SUFFICES ASSUME ~astray' PROVE OneForm' OBVIOUS
  <2>1. draft' # None => draft'.org = d.org BY <1>7
  <2>2. /\ d.org # None
        /\ \A u \in Tabs \ {t} : pc[u] # "idle" =>
              at[u] = d.org /\ state[u].org = d.org /\ \A v \in Tabs : pc[v] # "idle" => at[v] = at[u]
    BY <1>6, <1>7
  <2> HIDE DEF d
  <2> QED BY <1>2, <1>4, <2>1, <2>2 DEF OneForm
<1> QED BY <1>1, <1>2, <1>5, <1>7, <1>8, <1>9 DEF FormInv

LEMMA BeginInv ==
    ASSUME FormInv, NEW t \in Tabs, NEW kind \in Kinds, NEW o \in Orgs, Begin(t, kind, o)
    PROVE  FormInv'
<1>0. /\ FormTypeOK /\ ReportOk /\ (~astray => OneForm) /\ pc[t] = "idle"
      /\ \A u \in Tabs : Good(state[u]) /\ Filing(u)
      /\ ~born => draft = None /\ claimed = None /\ \A u \in Tabs : pc[u] = "idle"
      /\ draft # None => Good(draft)
      /\ claimed # None => Good(claimed.draft)
  BY DEF FormInv, Begin
<1>1. /\ at' = [at EXCEPT ![t] = o]
      /\ UNCHANGED <<draft, claimed, active, open, orgs, choice, changes, report, offer, astray>>
  BY DEF Begin, redis, office
<1>2. ReportOk' BY <1>0, <1>1 DEF ReportOk
<1>3. kind # "file" /\ kind # "idle" /\ kind \in Kinds \cup {"idle", "file"} BY DEF Kinds
<1>4. ASSUME NEW d, Good(d), Move(t, kind, d), born' = TRUE,
             ~astray => /\ d.org \in {o, None}
                        /\ draft # None => draft.org = o
                        /\ claimed # None => claimed.draft.org = o
                        /\ d.org = None => kind = "post" /\ draft = None /\ claimed = None
                                           /\ \A u \in Tabs : pc[u] = "idle"
                        /\ \A u \in Tabs : pc[u] # "idle" => at[u] = o /\ state[u].org = o
      PROVE  FormInv'
  <2>1. /\ pc' = [pc EXCEPT ![t] = kind] /\ state' = [state EXCEPT ![t] = d] BY <1>4 DEF Move
  <2>2. /\ pc' \in [Tabs -> Kinds \cup {"idle", "file"}] /\ at' \in [Tabs -> Orgs]
        /\ state' \in [Tabs -> Draft]
        /\ pc'[t] = kind /\ state'[t] = d /\ at'[t] = o
        /\ \A u \in Tabs \ {t} : pc'[u] = pc[u] /\ at'[u] = at[u] /\ state'[u] = state[u]
    BY <1>0, <1>1, <1>3, <1>4, <2>1 DEF FormTypeOK, Good
  <2>3. FormTypeOK' BY <1>0, <1>1, <1>4, <2>2 DEF FormTypeOK
  <2>4. \A u \in Tabs : Good(state[u])' /\ Filing(u)' BY <1>0, <1>1, <1>3, <1>4, <2>2 DEF Filing
  <2>5. ~astray' => OneForm'
    <3> SUFFICES ASSUME ~astray PROVE OneForm' BY <1>1
    <3>1. /\ draft # None => draft.org # None
          /\ claimed # None => claimed.draft.org # None
          /\ draft # None /\ claimed # None => draft.org = claimed.draft.org
      BY <1>0 DEF OneForm
    <3>2. o # None BY FormAssumption
    <3> QED BY <1>1, <1>4, <2>2, <3>1, <3>2 DEF OneForm
  <2> QED BY <1>0, <1>1, <1>2, <1>4, <2>3, <2>4, <2>5 DEF FormInv
<1>5. CASE Loadable(draft, o) /\ Move(t, kind, draft) /\ UNCHANGED born
  <2>1. draft # None /\ draft.org \in {o, None} /\ Good(draft) /\ born = TRUE
    BY <1>0, <1>5 DEF Loadable, FormTypeOK
  <2>2. ASSUME ~astray
        PROVE  /\ draft.org = o
               /\ claimed # None => claimed.draft.org = o
               /\ \A u \in Tabs : pc[u] # "idle" => at[u] = o /\ state[u].org = o
    BY <1>0, <2>1, <2>2 DEF OneForm
  <2>3. o # None BY FormAssumption
  <2> QED BY <1>4, <1>5, <2>1, <2>2, <2>3
<1>6. CASE First /\ kind = "post" /\ Move(t, kind, Blank) /\ born' = TRUE
  BY <1>0, <1>4, <1>6, BlankGood DEF First
<1> QED BY <1>5, <1>6 DEF Begin

\* The draft goes: restart, or the end of its two hours.
LEMMA DropInv ==
    ASSUME FormInv, draft' = None, UNCHANGED <<claimed, office, report, locals, born, astray>>
    PROVE  FormInv'
<1>1. UNCHANGED <<claimed, active, open, orgs, choice, changes, report, pc, at, state, offer, born, astray>>
  BY DEF office, locals
<1>2. \A u \in Tabs : Good(state[u])' /\ Filing(u)' BY <1>1 DEF FormInv, Filing
<1>3. FormTypeOK' BY <1>1 DEF FormInv, FormTypeOK
<1>4. ~astray' => OneForm' BY <1>1 DEF FormInv, OneForm
<1>5. ReportOk' BY <1>1 DEF FormInv, ReportOk
<1> QED BY <1>1, <1>2, <1>3, <1>4, <1>5 DEF FormInv

LEMMA OfficeInv ==
    ASSUME FormInv, Office
    PROVE  FormInv'
<1>1. UNCHANGED <<draft, claimed, report, pc, at, state, offer, born, astray>>
  BY DEF Office, OpenCategory, CloseCategory, CloseLocation, OpenLocation, DeactivateOrganisation, SetChoice,
         Change, redis, locals
<1>2. FormTypeOK BY DEF FormInv
<1>3. active' \subseteq Categories /\ open' \subseteq Places /\ orgs' \subseteq Orgs /\ choice' \in BOOLEAN
  BY <1>2 DEF Office, OpenCategory, CloseCategory, CloseLocation, OpenLocation, DeactivateOrganisation,
              SetChoice, FormTypeOK
<1>4. changes' \in 0..MaxChanges
  <2>1. changes' = changes + 1 /\ changes < MaxChanges
    BY DEF Office, OpenCategory, CloseCategory, CloseLocation, OpenLocation, DeactivateOrganisation, SetChoice,
           Change
  <2> QED BY <1>2, <2>1, FormAssumption DEF FormTypeOK
<1>5. FormTypeOK' BY <1>1, <1>2, <1>3, <1>4 DEF FormTypeOK
<1>6. \A u \in Tabs : Good(state[u])' /\ Filing(u)' BY <1>1 DEF FormInv, Filing
<1>7. ~astray' => OneForm' BY <1>1 DEF FormInv, OneForm
<1>8. ReportOk' BY <1>1 DEF FormInv, ReportOk
<1> QED BY <1>1, <1>5, <1>6, <1>7, <1>8 DEF FormInv

LEMMA RequestInv ==
    ASSUME FormInv, NEW t \in Tabs, Request(t)
    PROVE  FormInv'
<1>1. ASSUME NEW kind \in Kinds, NEW o \in Orgs, Begin(t, kind, o) PROVE FormInv' BY <1>1, BeginInv
<1>2. ASSUME NEW o \in Orgs, Restart(t, o) PROVE FormInv' BY <1>2, DropInv DEF Restart
<1>3. ASSUME NEW mode \in Modes \cup {None}, NEW mailed \in BOOLEAN, PostMode(t, mode, mailed) PROVE FormInv'
  BY <1>3, PostModeInv
<1>4. ASSUME NEW place \in Places \cup {None}, PostLocation(t, place) PROVE FormInv' BY <1>4, PostLocationInv
<1>5. ASSUME NEW slug \in Slugs \cup {None}, PostCategory(t, slug) PROVE FormInv' BY <1>5, PostCategoryInv
<1>6. ASSUME NEW text \in BOOLEAN, PostDescription(t, text) PROVE FormInv' BY <1>6, PostDescriptionInv
<1>7. ASSUME NEW found \in BOOLEAN, Remove(t, found) PROVE FormInv' BY <1>7, RemoveInv
<1>8. ASSUME NEW accepted \in BOOLEAN, PostAttachments(t, accepted) PROVE FormInv' BY <1>8, PostAttachmentsInv
<1>9. CASE Get(t) \/ Stale(t) \/ Back(t) BY <1>9, GetInv, StaleInv, BackInv
<1>10. CASE Claim(t) \/ File(t) BY <1>10, ClaimInv, FileInv
<1> QED BY <1>1, <1>2, <1>3, <1>4, <1>5, <1>6, <1>7, <1>8, <1>9, <1>10 DEF Request

LEMMA FormNextInv == FormInv /\ [FormNext]_formVars => FormInv'
<1> SUFFICES ASSUME FormInv, [FormNext]_formVars PROVE FormInv' OBVIOUS
<1>1. ASSUME NEW t \in Tabs, Request(t) PROVE FormInv' BY <1>1, RequestInv
<1>2. CASE Office BY <1>2, OfficeInv
<1>3. CASE Expire BY <1>3, DropInv DEF Expire
<1>4. CASE UNCHANGED formVars
  BY <1>4 DEF formVars, redis, office, locals, FormInv, FormTypeOK, OneForm, Filing, ReportOk, Good
<1> QED BY <1>1, <1>2, <1>3, <1>4 DEF FormNext

----------------------------------------------------------------------------
(* Theorems *)

LEMMA FormInvariant == FormSpec => []FormInv
BY FormInitInv, FormNextInv, PTL DEF FormSpec

\* The form's state has the types declared of it, whatever the tabs and the office do.
THEOREM FormTypeCorrect == FormSpec => []FormTypeOK
<1>1. FormInv => FormTypeOK BY DEF FormInv
<1> QED BY <1>1, FormInvariant, PTL

\* Nothing that identifies is in an anonymous draft or report.
THEOREM UnnamedCorrect == FormSpec => []AnonymousUnnamed
<1>1. FormInv => AnonymousUnnamed
  <2> SUFFICES ASSUME FormInv PROVE AnonymousUnnamed OBVIOUS
  <2>1. \A d \in Drafts : Good(d) BY DEF FormInv, Drafts
  <2> QED BY <2>1 DEF AnonymousUnnamed, Good, Unnamed, FormInv, ReportOk
<1> QED BY <1>1, FormInvariant, PTL

\* No step of the form is passed without its answer.
THEOREM AnsweredCorrect == FormSpec => []StepsAnswered
<1>1. FormInv => StepsAnswered
  <2> SUFFICES ASSUME FormInv PROVE StepsAnswered OBVIOUS
  <2>1. \A d \in Drafts : Good(d) BY DEF FormInv, Drafts
  <2> QED BY <2>1 DEF StepsAnswered, Good, Answered
<1> QED BY <1>1, FormInvariant, PTL

\* What is filed is complete, of its organisation, and of the one it was begun in.
THEOREM CompleteCorrect == FormSpec => []FiledComplete
<1>1. FormInv => FiledComplete BY DEF FormInv, ReportOk, FiledComplete
<1> QED BY <1>1, FormInvariant, PTL

----------------------------------------------------------------------------
(* The counters' types *)

CounterType ==
    /\ there \in BOOLEAN /\ count \in Int /\ ttl \in 0..Lockout
    /\ counted \subseteq Guesses /\ strays \in Nat
GuessType == guess \in [Guesses -> GuessSteps \cup GuessEnds]
SprayType ==
    /\ threshold \in Thresholds
    /\ clock \in 0..MaxMinutes /\ minute \in [Guesses -> 0..MaxMinutes]
    /\ bucket \in [0..MaxMinutes -> SUBSET Guesses] /\ ends \in [0..MaxMinutes -> Nat]
    /\ alerted \in Nat /\ alerts \subseteq Nat
    /\ failed \subseteq Guesses /\ lapsed \subseteq Guesses
FilesType ==
    /\ upload \in [Uploads -> UploadSteps \cup UploadEnds]
    /\ reserved \in Int /\ lock \in Uploads \cup {Nobody}
    /\ stored \subseteq Uploads /\ loose \in BOOLEAN

\* The clock stays within its bound; the rest is LimitsTypeOK.
LimitsTypes == CounterType /\ GuessType /\ SprayType /\ FilesType

LEMMA Vanished == Vanish => CounterType'
<1> SUFFICES ASSUME Vanish PROVE CounterType' OBVIOUS
<1>1. there' \in BOOLEAN /\ counted' \subseteq Guesses BY DEF Vanish
<1>2. count' \in Int /\ ttl' \in 0..Lockout /\ strays' \in Nat BY LimitsAssumption DEF Vanish
<1>3. QED BY <1>1, <1>2 DEF CounterType

LEMMA InitLimitsTypes == LimitsInit => LimitsTypes
<1> SUFFICES ASSUME LimitsInit PROVE LimitsTypes OBVIOUS
<1> USE LimitsAssumption DEF LimitsInit
<1>1. CounterType
  <2>1. there \in BOOLEAN /\ counted \subseteq Guesses OBVIOUS
  <2>2. count \in Int /\ ttl \in 0..Lockout /\ strays \in Nat OBVIOUS
  <2>3. QED BY <2>1, <2>2 DEF CounterType
<1>2. GuessType BY DEF GuessType, GuessSteps
<1>3. SprayType BY DEF SprayType
<1>4. FilesType
  <2>1. upload \in [Uploads -> UploadSteps \cup UploadEnds] /\ reserved \in Int
    BY DEF UploadSteps
  <2>2. lock \in Uploads \cup {Nobody} /\ stored \subseteq Uploads /\ loose \in BOOLEAN OBVIOUS
  <2>3. QED BY <2>1, <2>2 DEF FilesType
<1>5. QED BY <1>1, <1>2, <1>3, <1>4 DEF LimitsTypes

LEMMA GuessTypeStep ==
    ASSUME GuessType, NEW g \in Guesses, Attempt(g)
    PROVE  GuessType'
<1>1. ASSUME NEW l \in GuessSteps \cup GuessEnds, GoGuess(g, l) PROVE GuessType'
  BY <1>1 DEF GuessType, GoGuess
<1>2. \E l \in {"expire", "decr", "checking", "refused", "right", "tally", "wrong", "died",
                "life", "sum", "mark"} : GoGuess(g, l)
  BY DEF Attempt, Incr, ExpireKey, Decr, Release, Reset, Die, Wrong, Tally, Prolong, SumUp, Alert,
     Forsake
<1>3. QED BY <1>1, <1>2 DEF GuessSteps, GuessEnds

LEMMA AttemptTypes ==
    ASSUME LimitsTypes, NEW g \in Guesses, Attempt(g)
    PROVE  LimitsTypes'
<1>1. GuessType' BY GuessTypeStep DEF LimitsTypes
<1>2. FilesType'
  BY DEF LimitsTypes, FilesType, files, Attempt, Incr, ExpireKey, Decr, Release, Reset, Die,
     Wrong, Tally, Prolong, SumUp, Alert, Forsake
<1>3. CounterType'
  <2> USE LimitsAssumption DEF LimitsTypes, CounterType
  <2>1. CASE Incr(g) BY <2>1 DEF Incr
  <2>2. CASE ExpireKey(g) BY <2>2 DEF ExpireKey
  <2>3. CASE Decr(g) BY <2>3 DEF Decr, TakeBack
  <2>4. CASE Release(g) BY <2>4 DEF Release, TakeBack
  <2>5. CASE Reset(g) BY <2>5, Vanished DEF Reset
  <2>6. CASE Die(g) \/ (\E password \in BOOLEAN : Wrong(g, password))
    BY <2>6 DEF Die, Wrong
  <2>7. CASE Tally(g) \/ Prolong(g) \/ SumUp(g) \/ Alert(g) \/ Forsake(g)
    BY <2>7 DEF Tally, Prolong, SumUp, Alert, Forsake
  <2>8. QED BY <2>1, <2>2, <2>3, <2>4, <2>5, <2>6, <2>7 DEF Attempt
<1>4. SprayType'
  <2>0. SprayType /\ Window \in Nat BY LimitsAssumption DEF LimitsTypes
  <2> USE <2>0 DEF SprayType
  <2>1. ASSUME NEW password \in BOOLEAN, Wrong(g, password) PROVE SprayType'
    BY <2>1 DEF Wrong
  <2>2. CASE Tally(g)
    <3>1. /\ bucket' = [bucket EXCEPT ![minute[g]] = @ \cup {g}]
          /\ failed' = failed \cup {g} /\ lapsed' \in {lapsed, lapsed \cup {g}}
          /\ UNCHANGED <<threshold, clock, minute, ends, alerted, alerts>>
      BY <2>2 DEF Tally
    <3>2. bucket' \in [0..MaxMinutes -> SUBSET Guesses] BY <3>1
    <3>3. failed' \subseteq Guesses /\ lapsed' \subseteq Guesses BY <3>1
    <3>4. QED BY <3>1, <3>2, <3>3
  <2>3. CASE Prolong(g)
    <3>1. /\ \E n \in {clock + Window + 1, 0} : ends' = [ends EXCEPT ![minute[g]] = n]
          /\ UNCHANGED <<threshold, clock, minute, bucket, alerted, alerts, failed, lapsed>>
      BY <2>3 DEF Prolong
    <3>2. clock + Window + 1 \in Nat OBVIOUS
    <3>3. QED BY <3>1, <3>2
  <2>4. CASE Alert(g)
    <3>1. UNCHANGED <<threshold, clock, minute, bucket, ends, failed, lapsed>>
      BY <2>4 DEF Alert
    <3>2. alerted' \in Nat /\ alerts' \subseteq Nat
      <4>1. CASE alerted = 0
        <5>1. alerted' = clock + Window /\ alerts' = alerts \cup {clock} BY <2>4, <4>1 DEF Alert
        <5>2. clock \in Nat OBVIOUS
        <5>3. QED BY <5>1, <5>2
      <4>2. CASE alerted # 0 BY <2>4, <4>2 DEF Alert
      <4>3. QED BY <4>1, <4>2
    <3>3. QED BY <3>1, <3>2
  <2>5. CASE SumUp(g) \/ Forsake(g)
    <3>1. /\ UNCHANGED <<threshold, clock, minute, bucket, ends, alerted, alerts, failed>>
          /\ lapsed' \in {lapsed, lapsed \cup {g}, lapsed \cup ({g} \cap failed)}
      BY <2>5 DEF SumUp, Forsake
    <3>2. QED BY <3>1
  <2>6. CASE Incr(g) \/ ExpireKey(g) \/ Decr(g) \/ Release(g) \/ Reset(g) \/ Die(g)
    BY <2>6 DEF Incr, ExpireKey, Decr, Release, Reset, Die, spray
  <2>7. QED BY <2>1, <2>2, <2>3, <2>4, <2>5, <2>6 DEF Attempt
<1>5. QED BY <1>1, <1>2, <1>3, <1>4 DEF LimitsTypes

LEMMA UploadTypes ==
    ASSUME LimitsTypes, NEW u \in Uploads, Upload(u)
    PROVE  LimitsTypes'
<1>0. UNCHANGED <<counter, spray>>
  BY DEF Upload, Admit, Fail, NotAcquired, SaveFiles, TellNoRoom, DraftGone, Measure
<1>1. CounterType' /\ GuessType' /\ SprayType'
  BY <1>0 DEF LimitsTypes, CounterType, GuessType, SprayType, counter, spray
<1>2. ASSUME NEW l \in UploadSteps \cup UploadEnds, GoUpload(u, l)
      PROVE  upload' \in [Uploads -> UploadSteps \cup UploadEnds]
  BY <1>2 DEF LimitsTypes, FilesType, GoUpload
<1>3. UNCHANGED upload \/ \E l \in {"handling", "refused", "failed", "no_room", "measured",
                                     "release", "saved"} : GoUpload(u, l)
  BY DEF Upload, Admit, Fail, NotAcquired, SaveFiles, TellNoRoom, DraftGone, Measure, Leave
<1>4. upload' \in [Uploads -> UploadSteps \cup UploadEnds]
  BY <1>2, <1>3 DEF UploadSteps, UploadEnds, LimitsTypes, FilesType
<1>5. reserved' \in Int
  <2>1. reserved \in Int /\ Size[u] \in Int
    BY LimitsAssumption DEF LimitsTypes, FilesType
  <2>2. \/ UNCHANGED reserved \/ reserved' = reserved + Size[u]
        \/ reserved' = reserved - Size[u]
    BY DEF Upload, Admit, Fail, NotAcquired, SaveFiles, TellNoRoom, DraftGone, Measure, Leave
  <2>3. QED BY <2>1, <2>2
<1>6. lock' \in Uploads \cup {Nobody} /\ stored' \subseteq Uploads /\ loose' \in BOOLEAN
  <2> USE DEF LimitsTypes, FilesType
  <2>1. CASE Admit(u) \/ Fail(u) \/ NotAcquired(u) BY <2>1 DEF Admit, Fail, NotAcquired
  <2>2. CASE SaveFiles(u) \/ TellNoRoom(u) BY <2>2 DEF SaveFiles, TellNoRoom, Unlock
  <2>3. CASE DraftGone(u) BY <2>3 DEF DraftGone
  <2>4. ASSUME NEW read \in BOOLEAN, Measure(u, read)
        PROVE  lock' \in Uploads \cup {Nobody} /\ stored' \subseteq Uploads /\ loose' \in BOOLEAN
    BY <2>4 DEF Measure
  <2>5. QED BY <2>1, <2>2, <2>3, <2>4 DEF Upload
<1>7. QED BY <1>1, <1>4, <1>5, <1>6 DEF LimitsTypes, FilesType

LEMMA LimitsTypesStep ==
    ASSUME LimitsTypes, [LimitsNext]_limitsVars
    PROVE  LimitsTypes'
<1> USE DEF LimitsTypes, CounterType, GuessType, SprayType, FilesType
<1>1. CASE UNCHANGED limitsVars
  BY <1>1 DEF limitsVars, counter, spray, files
<1>2. CASE MinutePasses
  <2>1. /\ UNCHANGED <<guess, threshold, minute, alerts, failed, lapsed, files>>
        /\ clock' = clock + 1 /\ clock < MaxMinutes
        /\ bucket' = [i \in 0..MaxMinutes |-> IF Over(ends[i]) THEN {} ELSE bucket[i]]
        /\ ends' = [i \in 0..MaxMinutes |-> IF Over(ends[i]) THEN 0 ELSE ends[i]]
        /\ alerted' = IF Over(alerted) THEN 0 ELSE alerted
    BY <1>2 DEF MinutePasses
  <2>2. CounterType'
    <3>1. CASE ttl = 1 BY <1>2, <3>1, Vanished DEF MinutePasses
    <3>2. CASE ttl # 1
      BY <1>2, <3>2, LimitsAssumption DEF MinutePasses
    <3>3. QED BY <3>1, <3>2
  <2>3. clock' \in 0..MaxMinutes BY <2>1, LimitsAssumption
  <2>4. /\ bucket' \in [0..MaxMinutes -> SUBSET Guesses] /\ ends' \in [0..MaxMinutes -> Nat]
        /\ alerted' \in Nat
    BY <2>1
  <2>5. QED BY <2>1, <2>2, <2>3, <2>4 DEF files
<1>7. CASE MarkExpires BY <1>7 DEF MarkExpires, counter, files
<1>8. ASSUME NEW i \in 0..MaxMinutes, BucketExpires(i) PROVE LimitsTypes'
  BY <1>8 DEF BucketExpires, counter, files
<1>3. CASE LockExpires BY <1>3 DEF LockExpires, counter, spray
<1>4. ASSUME NEW g \in Guesses, Attempt(g) PROVE LimitsTypes' BY <1>4, AttemptTypes
<1>5. ASSUME NEW u \in Uploads, Upload(u) PROVE LimitsTypes' BY <1>5, UploadTypes
<1>9. QED
  BY <1>1, <1>2, <1>3, <1>4, <1>5, <1>7, <1>8 DEF LimitsNext, AttemptsNext, UploadsNext

LEMMA LimitsTypesHold == LimitsSpec => []LimitsTypes
<1>1. LimitsInit => LimitsTypes BY InitLimitsTypes
<1>2. LimitsTypes /\ [LimitsNext]_limitsVars => LimitsTypes' BY LimitsTypesStep
<1>3. QED BY <1>1, <1>2, PTL DEF LimitsSpec

\* Counts, minutes and uploads keep their types, for any numbers of guesses and
\* uploads and any bounds.
THEOREM LimitsTypeCorrect == LimitsSpec => []LimitsTypeOK
<1>1. LimitsTypes => LimitsTypeOK
  BY LimitsAssumption
     DEF LimitsTypes, CounterType, GuessType, SprayType, FilesType, LimitsTypeOK
<1>2. QED BY <1>1, LimitsTypesHold, PTL

LEMMA GuessMoves ==
    ASSUME GuessType, NEW g \in Guesses, NEW l, GoGuess(g, l)
    PROVE  guess'[g] = l /\ \A h \in Guesses : h # g => guess'[h] = guess[h]
BY DEF GoGuess, GuessType

----------------------------------------------------------------------------
(* Attempts: the counter is what it counted, less what was taken back of    *)
(* others' counts.                                                          *)

\* A guess that was not counted yet, or was taken back, is not in the counter,
\* and nothing is in one that is not there.
CountInv ==
    /\ count = Cardinality(counted) - strays
    /\ ~there => counted = {} /\ strays = 0 /\ ttl = 0
    /\ \A g \in counted : guess[g] \notin {"idle", "refused"}

\* A counter without a lifetime holds guesses that are about to set one, about
\* to be taken back, or died before.
NoLifetime == there /\ ttl = 0 => \A g \in counted : guess[g] \in {"expire", "decr", "died"}

AttemptsInv == CountInv /\ NoLifetime /\ GuessesBounded

LEMMA GuessesFinite ==
    ASSUME NEW S, NEW T, S \subseteq T, T \subseteq Guesses
    PROVE  /\ IsFiniteSet(S) /\ IsFiniteSet(T)
           /\ Cardinality(S) \in Nat /\ Cardinality(T) \in Nat
           /\ Cardinality(S) =< Cardinality(T)
<1>1. IsFiniteSet(T) BY FS_Subset, LimitsAssumption
<1>2. IsFiniteSet(S) /\ Cardinality(S) =< Cardinality(T) BY <1>1, FS_Subset
<1>3. QED BY <1>1, <1>2, FS_CardinalityType

LEMMA IncrStep ==
    ASSUME LimitsTypes, AttemptsInv, NEW g \in Guesses, Incr(g)
    PROVE  AttemptsInv'
<1> DEFINE l == IF Allowed(count + 1) THEN "expire" ELSE "decr"
<1>1. /\ there' = TRUE /\ count' = count + 1 /\ counted' = counted \cup {g}
      /\ UNCHANGED <<ttl, strays>> /\ guess[g] = "idle"
  BY DEF Incr
<1>2. guess'[g] = l /\ \A h \in Guesses : h # g => guess'[h] = guess[h]
  BY GuessMoves DEF Incr, LimitsTypes
<1>3. /\ counted \subseteq Guesses /\ strays \in Nat /\ g \notin counted
      /\ count = Cardinality(counted) - strays
  BY <1>1 DEF LimitsTypes, CounterType, AttemptsInv, CountInv
<1>4. IsFiniteSet(counted) /\ Cardinality(counted) \in Nat BY <1>3, GuessesFinite
<1>5. Cardinality(counted') = Cardinality(counted) + 1 BY <1>1, <1>3, <1>4, FS_AddElement
<1>6. l \in {"expire", "decr"} OBVIOUS
<1>7. CountInv'
  <2>1. count' = Cardinality(counted') - strays' BY <1>1, <1>3, <1>4, <1>5
  <2>2. ASSUME NEW h \in counted' PROVE guess'[h] \notin {"idle", "refused"}
    <3>1. CASE h = g BY <1>2, <1>6, <3>1
    <3>2. CASE h # g BY <1>1, <1>2, <1>3, <3>2 DEF AttemptsInv, CountInv
    <3>3. QED BY <3>1, <3>2
  <2>3. QED BY <1>1, <2>1, <2>2 DEF CountInv
<1>8. NoLifetime'
  <2> SUFFICES ASSUME ttl' = 0, NEW h \in counted' PROVE guess'[h] \in {"expire", "decr", "died"}
    BY DEF NoLifetime
  <2>1. CASE h = g BY <1>2, <1>6, <2>1
  <2>2. CASE h # g
    <3>1. h \in counted /\ ttl = 0 BY <1>1, <2>2
    <3>2. there BY <3>1 DEF AttemptsInv, CountInv
    <3>3. QED BY <1>2, <1>3, <2>2, <3>1, <3>2 DEF AttemptsInv, NoLifetime
  <2>3. QED BY <2>1, <2>2
<1>9. GuessesBounded'
  <2>1. CASE Allowed(count + 1)
    <3>1. LetThrough' \subseteq counted' BY DEF LetThrough
    <3>2. Cardinality(LetThrough') =< Cardinality(counted')
          /\ Cardinality(LetThrough') \in Nat
      BY <1>1, <1>3, <3>1, GuessesFinite
    <3>3. Cardinality(counted') =< MaxAttempts + strays'
      BY <1>1, <1>3, <1>4, <1>5, <2>1, LimitsAssumption DEF Allowed
    <3>4. QED
      BY <1>1, <1>3, <1>4, <1>5, <3>2, <3>3, LimitsAssumption DEF GuessesBounded
  <2>2. CASE ~Allowed(count + 1)
    <3>1. LetThrough' = LetThrough
      BY <1>1, <1>2, <1>3, <2>2 DEF LetThrough
    <3>2. QED BY <1>1, <3>1 DEF GuessesBounded, AttemptsInv
  <2>3. QED BY <2>1, <2>2
<1>10. QED BY <1>7, <1>8, <1>9 DEF AttemptsInv

\* A count is taken back, by a guess that was refused or was right.
TakenBack(g) ==
    /\ TakeBack(g) /\ UNCHANGED ttl /\ there'
    /\ there \/ guess[g] = "decr"
    /\ GoGuess(g, "refused") \/ GoGuess(g, "right")

LEMMA BackStep ==
    ASSUME LimitsTypes, AttemptsInv, NEW g \in Guesses, TakenBack(g)
    PROVE  AttemptsInv'
<1>1. /\ there' /\ count' = count - 1 /\ counted' = counted \ {g} /\ ttl' = ttl
      /\ strays' = IF g \in counted THEN strays ELSE strays + 1
  BY DEF TakenBack, TakeBack
<1>2. \A h \in Guesses : h # g => guess'[h] = guess[h]
  BY GuessMoves DEF TakenBack, LimitsTypes
<1>3. /\ counted \subseteq Guesses /\ strays \in Nat
      /\ count = Cardinality(counted) - strays
  BY DEF LimitsTypes, CounterType, AttemptsInv, CountInv
<1>4. IsFiniteSet(counted) /\ Cardinality(counted) \in Nat BY <1>3, GuessesFinite
<1>5. Cardinality(counted') =
          IF g \in counted THEN Cardinality(counted) - 1 ELSE Cardinality(counted)
  BY <1>1, <1>4, FS_RemoveElement
<1>6. \A h \in counted' : h \in counted /\ h \in Guesses /\ guess'[h] = guess[h]
  BY <1>1, <1>2, <1>3
<1>7. CountInv'
  <2>1. count' = Cardinality(counted') - strays' BY <1>1, <1>3, <1>4, <1>5
  <2>2. QED BY <1>1, <1>6, <2>1 DEF CountInv, AttemptsInv
<1>8. NoLifetime'
  <2> SUFFICES ASSUME ttl' = 0, NEW h \in counted' PROVE guess'[h] \in {"expire", "decr", "died"}
    BY DEF NoLifetime
  <2>1. there BY <1>6 DEF AttemptsInv, CountInv
  <2>2. QED BY <1>1, <1>6, <2>1 DEF AttemptsInv, NoLifetime
<1>9. GuessesBounded'
  <2>1. LetThrough' \subseteq LetThrough /\ LetThrough \subseteq Guesses
    BY <1>3, <1>6 DEF LetThrough
  <2>2. /\ Cardinality(LetThrough') =< Cardinality(LetThrough)
        /\ Cardinality(LetThrough') \in Nat /\ Cardinality(LetThrough) \in Nat
    BY <2>1, GuessesFinite
  <2>3. strays' >= strays /\ strays' \in Nat BY <1>1, <1>3
  <2>4. Cardinality(LetThrough) =< MaxAttempts + strays BY DEF AttemptsInv, GuessesBounded
  <2>5. QED BY <1>3, <2>2, <2>3, <2>4, LimitsAssumption DEF GuessesBounded
<1>10. QED BY <1>7, <1>8, <1>9 DEF AttemptsInv

LEMMA VanishStep ==
    ASSUME LimitsTypes, Vanish
    PROVE  AttemptsInv'
<1>1. there' = FALSE /\ count' = 0 /\ ttl' = 0 /\ counted' = {} /\ strays' = 0
  BY DEF Vanish
<1>2. Cardinality(counted') = 0 BY <1>1, FS_EmptySet
<1>3. LetThrough' = {} BY <1>1 DEF LetThrough
<1>4. Cardinality(LetThrough') = 0 BY <1>3, FS_EmptySet
<1>5. CountInv' BY <1>1, <1>2 DEF CountInv
<1>6. NoLifetime' BY <1>1 DEF NoLifetime
<1>7. GuessesBounded' BY <1>1, <1>4, LimitsAssumption DEF GuessesBounded
<1>8. QED BY <1>5, <1>6, <1>7 DEF AttemptsInv

\* A step that leaves the count: a guess goes on, a lifetime is set or runs down.
Keeps ==
    /\ UNCHANGED <<there, count, counted, strays>>
    /\ \A h \in Guesses :
         /\ guess[h] \in {"decr", "died"} => guess'[h] \in {"decr", "died"}
         /\ guess'[h] \in {"idle", "refused"} => guess'[h] = guess[h]
    /\ ~there => ttl' = 0
    /\ there /\ ttl' = 0 =>
         /\ ttl = 0
         /\ \A h \in Guesses :
              guess[h] \in {"expire", "decr", "died"} => guess'[h] \in {"expire", "decr", "died"}

LEMMA KeepsStep ==
    ASSUME LimitsTypes, AttemptsInv, Keeps
    PROVE  AttemptsInv'
<1>1. UNCHANGED <<there, count, counted, strays>> /\ counted \subseteq Guesses /\ strays \in Nat
  BY DEF Keeps, LimitsTypes, CounterType
<1>2. CountInv' BY <1>1 DEF AttemptsInv, CountInv, Keeps
<1>3. NoLifetime' BY <1>1 DEF AttemptsInv, NoLifetime, Keeps
<1>4. LetThrough' \subseteq LetThrough /\ LetThrough \subseteq Guesses
  BY <1>1 DEF LetThrough, Keeps
<1>5. /\ Cardinality(LetThrough') =< Cardinality(LetThrough)
      /\ Cardinality(LetThrough') \in Nat /\ Cardinality(LetThrough) \in Nat
  BY <1>4, GuessesFinite
<1>6. GuessesBounded'
  BY <1>1, <1>5, LimitsAssumption DEF AttemptsInv, GuessesBounded
<1>7. QED BY <1>2, <1>3, <1>6 DEF AttemptsInv

LEMMA AttemptsStep ==
    ASSUME LimitsTypes, AttemptsInv, [LimitsNext]_limitsVars
    PROVE  AttemptsInv'
<1>0. /\ ~there => ttl = 0
      /\ ttl \in 0..Lockout /\ Lockout \in Nat \ {0} /\ GuessType
  BY LimitsAssumption DEF AttemptsInv, CountInv, LimitsTypes, CounterType
<1>1. ASSUME NEW g \in Guesses, NEW a, NEW b, guess[g] = a, GoGuess(g, b),
             UNCHANGED <<there, count, counted, strays, ttl>>,
             a = "decr" => b = "died", b \notin {"idle", "refused"}, a # "died",
             a = "expire" => b = "died"
      PROVE  AttemptsInv'
  <2>1. guess'[g] = b /\ \A h \in Guesses : h # g => guess'[h] = guess[h]
    BY <1>0, <1>1, GuessMoves
  <2>2. Keeps BY <1>0, <1>1, <2>1 DEF Keeps
  <2>3. QED BY <2>2, KeepsStep
<1>2. ASSUME UNCHANGED <<there, count, counted, strays, ttl, guess>> PROVE AttemptsInv'
  <2>1. Keeps BY <1>0, <1>2 DEF Keeps
  <2>2. QED BY <2>1, KeepsStep
<1>3. CASE MinutePasses
  <2>1. CASE ttl = 1 BY <1>3, <2>1, VanishStep DEF MinutePasses
  <2>2. CASE ttl # 1
    <3>1. /\ UNCHANGED <<there, count, counted, strays, guess>>
          /\ ttl' = IF ttl = 0 THEN 0 ELSE ttl - 1
      BY <1>3, <2>2 DEF MinutePasses
    <3>2. ttl' = 0 <=> ttl = 0 BY <1>0, <2>2, <3>1
    <3>3. Keeps BY <1>0, <3>1, <3>2 DEF Keeps
    <3>4. QED BY <3>3, KeepsStep
  <2>3. QED BY <2>1, <2>2
<1>4. ASSUME NEW g \in Guesses, Attempt(g) PROVE AttemptsInv'
  <2>1. CASE Incr(g) BY <2>1, IncrStep
  <2>2. CASE ExpireKey(g)
    <3>1. /\ UNCHANGED <<there, count, counted, strays>> /\ guess[g] = "expire"
          /\ ttl' = IF there THEN Lockout ELSE 0
      BY <2>2 DEF ExpireKey
    <3>2. guess'[g] = "checking" /\ \A h \in Guesses : h # g => guess'[h] = guess[h]
      BY <1>0, <2>2, GuessMoves DEF ExpireKey
    <3>3. there => ttl' # 0 BY <1>0, <3>1
    <3>4. Keeps BY <1>0, <3>1, <3>2, <3>3 DEF Keeps
    <3>5. QED BY <3>4, KeepsStep
  <2>3. CASE Decr(g)
    <3>1. TakenBack(g) BY <2>3 DEF Decr, TakenBack
    <3>2. QED BY <3>1, BackStep
  <2>4. CASE Release(g)
    <3>1. CASE there
      <4>1. TakenBack(g) BY <2>4, <3>1 DEF Release, TakenBack
      <4>2. QED BY <4>1, BackStep
    <3>2. CASE ~there
      <4>1. QED BY <1>1, <2>4, <3>2 DEF Release
    <3>3. QED BY <3>1, <3>2
  <2>5. CASE Reset(g) BY <2>5, VanishStep DEF Reset
  <2>6. CASE Die(g) BY <1>1, <2>6 DEF Die
  <2>7. ASSUME NEW password \in BOOLEAN, Wrong(g, password) PROVE AttemptsInv'
    BY <1>1, <2>7 DEF Wrong
  <2>8. CASE Tally(g) BY <1>1, <2>8 DEF Tally
  <2>9. CASE SumUp(g) BY <1>1, <2>9 DEF SumUp
  <2>10. CASE Alert(g) BY <1>1, <2>10 DEF Alert
  <2>11. CASE Prolong(g) BY <1>1, <2>11 DEF Prolong
  <2>12. CASE Forsake(g) BY <1>1, <2>12 DEF Forsake
  <2>13. QED
    BY <1>4, <2>1, <2>2, <2>3, <2>4, <2>5, <2>6, <2>7, <2>8, <2>9, <2>10, <2>11, <2>12
       DEF Attempt
<1>7. ASSUME MarkExpires \/ \E i \in 0..MaxMinutes : BucketExpires(i) PROVE AttemptsInv'
  BY <1>2, <1>7 DEF MarkExpires, BucketExpires, counter
<1>5. CASE UploadsNext \/ UNCHANGED limitsVars
  <2>1. UNCHANGED counter
    BY <1>5 DEF UploadsNext, LockExpires, Upload, Admit, Fail, NotAcquired, SaveFiles, TellNoRoom,
       DraftGone, Measure, limitsVars
  <2>2. QED BY <1>2, <2>1 DEF counter
<1>6. QED BY <1>3, <1>4, <1>5, <1>7 DEF LimitsNext, AttemptsNext

LEMMA AttemptsInvariant == LimitsSpec => [](LimitsTypes /\ AttemptsInv)
<1>1. LimitsInit => AttemptsInv
  <2> SUFFICES ASSUME LimitsInit PROVE AttemptsInv OBVIOUS
  <2>1. counted = {} /\ LetThrough = {} BY DEF LimitsInit, LetThrough
  <2>2. Cardinality(counted) = 0 /\ Cardinality(LetThrough) = 0 BY <2>1, FS_EmptySet
  <2>3. QED
    BY <2>1, <2>2, LimitsAssumption
       DEF LimitsInit, AttemptsInv, CountInv, NoLifetime, GuessesBounded
<1>2. LimitsTypes /\ AttemptsInv /\ [LimitsNext]_limitsVars => AttemptsInv' BY AttemptsStep
<1>3. QED BY <1>1, <1>2, LimitsTypesHold, PTL DEF LimitsSpec

\* However many guess at once, no more guesses are checked than the limit allows,
\* and a counter that locks has a lifetime: GuessesBounded is kept by every step;
\* a counter without a lifetime holds only guesses whose handlers died.
THEOREM AttemptsCorrect == LimitsSpec => []AttemptsBounded
<1>1. ASSUME LimitsTypes, AttemptsInv PROVE LockEnds
  <2> SUFFICES ASSUME there, ttl = 0, \A g \in Guesses : guess[g] \notin {"expire", "decr"},
                      ~(count < MaxAttempts)
               PROVE  Cardinality({g \in Guesses : guess[g] = "died"}) >= MaxAttempts
    BY DEF LockEnds
  <2> DEFINE Dead == {g \in Guesses : guess[g] = "died"}
  <2>1. counted \subseteq Dead
    BY <1>1 DEF AttemptsInv, NoLifetime, LimitsTypes, CounterType
  <2>2. /\ Cardinality(counted) =< Cardinality(Dead)
        /\ Cardinality(counted) \in Nat /\ Cardinality(Dead) \in Nat
    BY <2>1, GuessesFinite
  <2>3. count = Cardinality(counted) - strays /\ strays \in Nat
    BY <1>1 DEF AttemptsInv, CountInv, LimitsTypes, CounterType
  <2> HIDE DEF Dead
  <2>4. Cardinality(Dead) >= MaxAttempts BY <2>2, <2>3, LimitsAssumption
  <2>5. QED BY <2>4 DEF Dead
<1>2. LimitsTypes /\ AttemptsInv => AttemptsBounded BY <1>1 DEF AttemptsBounded, AttemptsInv
<1>3. QED BY <1>2, AttemptsInvariant, PTL

\* An attempt that is refused, or one taken back, never extends a lock: only an
\* EXPIRE does, and that belongs to a guess that was let through.
THEOREM LockCorrect == LimitsSpec => LockNotExtended
<1> DEFINE NotExtended ==
      count >= MaxAttempts /\ (\A g \in Guesses : guess[g] # "expire") => ttl' =< ttl
<1>1. ASSUME LimitsTypes, [LimitsNext]_limitsVars PROVE [NotExtended]_limitsVars
  <2>0. ttl \in Nat BY <1>1, LimitsAssumption DEF LimitsTypes, CounterType
  <2>1. CASE UNCHANGED ttl BY <2>0, <2>1
  <2>2. CASE Vanish BY <2>0, <2>2 DEF Vanish
  <2>3. CASE MinutePasses
    <3>1. Vanish \/ UNCHANGED ttl \/ ttl' = ttl - 1 BY <2>3 DEF MinutePasses
    <3>2. QED BY <2>0, <2>1, <2>2, <3>1
  <2>4. ASSUME NEW g \in Guesses, Attempt(g) PROVE NotExtended
    <3>1. UNCHANGED ttl \/ Vanish \/ guess[g] = "expire"
      BY <2>4 DEF Attempt, Incr, ExpireKey, Decr, Release, Reset, Die, Wrong, Tally, Prolong,
         SumUp, Alert, Forsake
    <3>2. QED BY <2>0, <3>1 DEF Vanish
  <2>7. CASE MarkExpires \/ \E i \in 0..MaxMinutes : BucketExpires(i)
    BY <2>1, <2>7 DEF MarkExpires, BucketExpires, counter
  <2>5. CASE UploadsNext \/ UNCHANGED limitsVars
    <3>1. UNCHANGED counter
      BY <2>5 DEF UploadsNext, LockExpires, Upload, Admit, Fail, NotAcquired, SaveFiles,
         TellNoRoom, DraftGone, Measure, limitsVars
    <3>2. QED BY <2>1, <3>1 DEF counter
  <2>6. QED BY <1>1, <2>3, <2>4, <2>5, <2>7 DEF LimitsNext, AttemptsNext
<1>2. QED BY <1>1, LimitsTypesHold, PTL DEF LimitsSpec, LockNotExtended

----------------------------------------------------------------------------
(* The alert over the instance *)

\* Counted, and still about to sum up and to mark.
Summing == {"life", "sum", "mark"}

\* Who still looks at the sum of the window that ends with minute m.
Looking(m) == \E g \in failed : guess[g] \in Summing /\ minute[g] = m

\* The alert is given, or its mark stood.
Noticed(m) == \E a \in alerts : m - Window =< a

\* The failures of a window reach the threshold, one of them in its last minute.
Reached(m) ==
    /\ threshold > 0 /\ Cardinality(FailedIn(m)) >= threshold
    /\ \E g \in FailedIn(m) : minute[g] = m

\* A failure counts in its minute, which has begun.
Dated ==
    /\ \A g \in failed : guess[g] \in Summing \cup {"wrong"}
    /\ \A g \in Guesses : guess[g] \in {"tally"} \cup Summing => minute[g] =< clock
    /\ \A g \in Guesses : guess[g] \in Summing => g \in failed
    /\ \A g \in failed : minute[g] =< clock

\* A bucket that was counted in time is there as long as a sum in time needs it.
Kept ==
    /\ \A i \in 0..MaxMinutes : ends[i] # 0 => ends[i] >= i + Window + 1
    /\ \A g \in failed : g \in lapsed \/ g \in bucket[minute[g]] \/ clock > minute[g] + Window

\* The mark stands for its alert, to the end of the last minute it may stand in.
Marked == alerted # 0 => clock =< alerted /\ \E a \in alerts : alerted = a + Window

\* Every window that reaches the threshold is noticed, or somebody is about to look
\* at it, or one of its failures is set aside.
Watched ==
    \A m \in 0..MaxMinutes :
        Reached(m) => FailedIn(m) \cap lapsed # {} \/ Looking(m) \/ Noticed(m)

SprayInv == Dated /\ Kept /\ Marked /\ Watched

LEMMA FailuresFinite ==
    ASSUME LimitsTypes, NEW m \in 0..MaxMinutes, FailedIn(m) \subseteq UNION {bucket[i] : i \in InWindow(m)}
    PROVE  Cardinality(FailedIn(m)) =< Failures(m) /\ Failures(m) \in Nat
           /\ Cardinality(FailedIn(m)) \in Nat
<1> DEFINE U == UNION {bucket[i] : i \in InWindow(m)}
<1>1. U \subseteq Guesses BY DEF LimitsTypes, SprayType, InWindow
<1> HIDE DEF U
<1>2. QED BY <1>1, GuessesFinite DEF Failures, U

\* A step that counts no failure: what it must keep for the windows.
LEMMA WatchStep ==
    ASSUME LimitsTypes, Watched, UNCHANGED <<threshold, minute, failed>>,
           lapsed \subseteq lapsed', alerts \subseteq alerts',
           \A m \in 0..MaxMinutes :
             Reached(m) /\ Looking(m) => FailedIn(m) \cap lapsed' # {} \/ Looking(m)' \/ Noticed(m)'
    PROVE  Watched'
<1> SUFFICES ASSUME NEW m \in 0..MaxMinutes, Reached(m)'
             PROVE  (FailedIn(m) \cap lapsed # {} \/ Looking(m) \/ Noticed(m))'
  BY DEF Watched
<1>1. InWindow(m)' = InWindow(m) BY DEF InWindow
<1>2. FailedIn(m)' = FailedIn(m) BY <1>1 DEF FailedIn
<1>3. Reached(m) BY <1>2 DEF Reached
<1>4. FailedIn(m) \cap lapsed # {} \/ Looking(m) \/ Noticed(m) BY <1>3 DEF Watched
<1>5. Noticed(m) => Noticed(m)' BY DEF Noticed
<1>6. QED BY <1>2, <1>3, <1>4, <1>5

\* A step of a guess before it counts, or of nobody: nothing of the sums changes.
LEMMA AsideStep ==
    ASSUME LimitsTypes, SprayInv,
           UNCHANGED <<threshold, clock, minute, bucket, ends, alerted, alerts, failed, lapsed>>,
           \A g \in Guesses :
             \/ guess'[g] = guess[g]
             \/ guess[g] \notin Summing \cup {"wrong"} /\ guess'[g] \notin {"tally"} \cup Summing
    PROVE  SprayInv'
<1>1. failed \subseteq Guesses BY DEF LimitsTypes, SprayType
<1>2. \A g \in failed : guess'[g] = guess[g] BY <1>1 DEF SprayInv, Dated
<1>3. Dated'
  <2>1. \A g \in Guesses : guess'[g] \in {"tally"} \cup Summing => guess'[g] = guess[g] OBVIOUS
  <2>2. QED BY <1>1, <1>2, <2>1 DEF SprayInv, Dated, Summing
<1>4. Kept' /\ Marked' BY DEF SprayInv, Kept, Marked
<1>5. \A m \in 0..MaxMinutes : Looking(m) => Looking(m)' BY <1>2 DEF Looking, Summing
<1>6. Watched' BY <1>5, WatchStep DEF SprayInv
<1>7. QED BY <1>3, <1>4, <1>6 DEF SprayInv

\* A wrong password is on its way to be counted, in the minute it is.
LEMMA WrongStep ==
    ASSUME LimitsTypes, SprayInv, NEW g \in Guesses, NEW password \in BOOLEAN, Wrong(g, password)
    PROVE  SprayInv'
<1>0. /\ UNCHANGED <<threshold, clock, bucket, ends, alerted, alerts, failed, lapsed>>
      /\ guess[g] = "checking" /\ GuessType
      /\ clock \in 0..MaxMinutes /\ minute \in [Guesses -> 0..MaxMinutes] /\ failed \subseteq Guesses
  BY DEF Wrong, LimitsTypes, SprayType
<1>1. g \notin failed BY <1>0 DEF SprayInv, Dated, Summing
<1>2. /\ guess'[g] \in {"tally", "wrong"}
      /\ guess'[g] = "tally" => minute'[g] = clock
      /\ \A h \in Guesses : h # g => guess'[h] = guess[h] /\ minute'[h] = minute[h]
  <2>1. CASE password /\ threshold > 0
    <3>1. GoGuess(g, "tally") /\ minute' = [minute EXCEPT ![g] = clock] BY <2>1 DEF Wrong
    <3>2. QED BY <1>0, <3>1, GuessMoves
  <2>2. CASE ~(password /\ threshold > 0)
    <3>1. GoGuess(g, "wrong") /\ minute' = minute BY <2>2 DEF Wrong
    <3>2. QED BY <1>0, <3>1, GuessMoves
  <2>3. QED BY <2>1, <2>2
<1>3. \A h \in failed : guess'[h] = guess[h] /\ minute'[h] = minute[h] /\ h \in Guesses
  BY <1>0, <1>1, <1>2
<1>4. Dated'
  <2>1. \A h \in failed' : guess'[h] \in Summing \cup {"wrong"} /\ minute'[h] =< clock'
    BY <1>0, <1>3 DEF SprayInv, Dated
  <2>2. ASSUME NEW h \in Guesses, guess'[h] \in {"tally"} \cup Summing
        PROVE  minute'[h] =< clock' /\ (guess'[h] \in Summing => h \in failed')
    <3>1. CASE h = g BY <1>0, <1>2, <2>2, <3>1 DEF Summing
    <3>2. CASE h # g BY <1>0, <1>2, <2>2, <3>2 DEF SprayInv, Dated
    <3>3. QED BY <3>1, <3>2
  <2>3. QED BY <2>1, <2>2 DEF Dated
<1>5. Kept' /\ Marked' BY <1>0, <1>3 DEF SprayInv, Kept, Marked
<1>6. Watched'
  <2> SUFFICES ASSUME NEW m \in 0..MaxMinutes, Reached(m)'
               PROVE  (FailedIn(m) \cap lapsed # {} \/ Looking(m) \/ Noticed(m))'
    BY DEF Watched
  <2>1. InWindow(m)' = InWindow(m) BY DEF InWindow
  <2>2. FailedIn(m)' = FailedIn(m) BY <1>0, <1>3, <2>1 DEF FailedIn
  <2>3. Reached(m) BY <1>0, <1>3, <2>2 DEF Reached, FailedIn
  <2>4. FailedIn(m) \cap lapsed # {} \/ Looking(m) \/ Noticed(m) BY <2>3 DEF SprayInv, Watched
  <2>5. Looking(m) => Looking(m)' BY <1>0, <1>3 DEF Looking
  <2>6. Noticed(m) => Noticed(m)' BY <1>0 DEF Noticed
  <2>7. QED BY <1>0, <2>2, <2>4, <2>5, <2>6
<1>7. QED BY <1>4, <1>5, <1>6 DEF SprayInv

\* A failure that is counted in its minute looks at the window that ends with it; one
\* that is counted later is set aside in every window it is in.
LEMMA TallyStep ==
    ASSUME LimitsTypes, SprayInv, NEW g \in Guesses, Tally(g)
    PROVE  SprayInv'
<1>0. /\ guess[g] = "tally" /\ bucket' = [bucket EXCEPT ![minute[g]] = @ \cup {g}]
      /\ failed' = failed \cup {g} /\ lapsed \subseteq lapsed'
      /\ clock # minute[g] => g \in lapsed'
      /\ UNCHANGED <<threshold, clock, minute, ends, alerted, alerts>>
      /\ clock \in 0..MaxMinutes /\ minute \in [Guesses -> 0..MaxMinutes] /\ failed \subseteq Guesses
      /\ bucket \in [0..MaxMinutes -> SUBSET Guesses] /\ GuessType
  BY DEF Tally, LimitsTypes, SprayType
<1>1. guess'[g] = "life" /\ \A h \in Guesses : h # g => guess'[h] = guess[h]
  BY <1>0, GuessMoves DEF Tally
<1>2. minute[g] =< clock /\ minute[g] \in 0..MaxMinutes BY <1>0 DEF SprayInv, Dated
<1>3. g \notin failed BY <1>0 DEF SprayInv, Dated, Summing
<1>4. Dated'
  <2>1. ASSUME NEW h \in failed' PROVE guess'[h] \in Summing \cup {"wrong"} /\ minute'[h] =< clock'
    <3>1. CASE h = g BY <1>0, <1>1, <1>2, <3>1 DEF Summing
    <3>2. CASE h # g BY <1>0, <1>1, <2>1, <3>2 DEF SprayInv, Dated
    <3>3. QED BY <3>1, <3>2
  <2>2. ASSUME NEW h \in Guesses, guess'[h] \in {"tally"} \cup Summing
        PROVE  minute'[h] =< clock' /\ (guess'[h] \in Summing => h \in failed')
    <3>1. CASE h = g BY <1>0, <1>2, <3>1
    <3>2. CASE h # g BY <1>0, <1>1, <2>2, <3>2 DEF SprayInv, Dated
    <3>3. QED BY <3>1, <3>2
  <2>3. QED BY <2>1, <2>2 DEF Dated
<1>5. Kept'
  <2>1. ASSUME NEW h \in failed'
        PROVE  h \in lapsed' \/ h \in bucket'[minute'[h]] \/ clock' > minute'[h] + Window
    <3>1. CASE h = g BY <1>0, <1>2, <3>1
    <3>2. CASE h # g
      <4>1. h \in failed /\ minute[h] \in 0..MaxMinutes BY <1>0, <2>1, <3>2
      <4>2. bucket[minute[h]] \subseteq bucket'[minute[h]] BY <1>0, <1>2, <4>1
      <4>3. h \in lapsed \/ h \in bucket[minute[h]] \/ clock > minute[h] + Window
        BY <4>1 DEF SprayInv, Kept
      <4>4. QED BY <1>0, <4>2, <4>3
    <3>3. QED BY <3>1, <3>2
  <2>2. QED BY <1>0, <2>1 DEF SprayInv, Kept
<1>6. Marked' BY <1>0 DEF SprayInv, Marked
<1>7. Watched'
  <2> SUFFICES ASSUME NEW m \in 0..MaxMinutes, Reached(m)'
               PROVE  (FailedIn(m) \cap lapsed # {} \/ Looking(m) \/ Noticed(m))'
    BY DEF Watched
  <2>1. InWindow(m)' = InWindow(m) BY DEF InWindow
  <2>2. CASE minute[g] \in InWindow(m)
    <3>1. g \in FailedIn(m)' BY <1>0, <2>1, <2>2 DEF FailedIn
    <3>2. CASE clock # minute[g] BY <1>0, <3>1, <3>2
    <3>3. CASE clock = minute[g]
      <4>1. PICK h \in FailedIn(m)' : minute'[h] = m BY DEF Reached
      <4>2. h \in failed' BY <4>1 DEF FailedIn
      <4>3. m =< clock BY <1>0, <1>4, <4>1, <4>2 DEF Dated
      <4>4. m = minute[g] BY <1>0, <2>2, <3>3, <4>3 DEF InWindow
      <4>5. Looking(m)' BY <1>0, <1>1, <4>4 DEF Looking, Summing
      <4>6. QED BY <4>5
    <3>4. QED BY <3>2, <3>3
  <2>3. CASE minute[g] \notin InWindow(m)
    <3>1. FailedIn(m)' = FailedIn(m) BY <1>0, <2>1, <2>3 DEF FailedIn
    <3>2. Reached(m) BY <1>0, <3>1 DEF Reached
    <3>3. FailedIn(m) \cap lapsed # {} \/ Looking(m) \/ Noticed(m) BY <3>2 DEF SprayInv, Watched
    <3>4. Looking(m) => Looking(m)' BY <1>0, <1>1, <1>3 DEF Looking
    <3>5. Noticed(m) => Noticed(m)' BY <1>0 DEF Noticed
    <3>6. QED BY <1>0, <3>1, <3>3, <3>4, <3>5
  <2>4. QED BY <2>2, <2>3
<1>8. QED BY <1>4, <1>5, <1>6, <1>7 DEF SprayInv

\* A failure goes on to its next command, or ends.
LEMMA GoesOn ==
    ASSUME LimitsTypes, SprayInv, NEW g \in Guesses, guess[g] \in {"tally"} \cup Summing,
           NEW l \in Summing \cup {"wrong"}, GoGuess(g, l), l \in Summing => guess[g] \in Summing,
           UNCHANGED <<clock, minute, failed>>
    PROVE  /\ Dated'
           /\ \A m \in 0..MaxMinutes :
                Looking(m) => Looking(m)' \/ (l = "wrong" /\ minute[g] = m /\ g \in failed)
<1>1. guess'[g] = l /\ \A h \in Guesses : h # g => guess'[h] = guess[h]
  BY GuessMoves DEF LimitsTypes
<1>2. failed \subseteq Guesses BY DEF LimitsTypes, SprayType
<1>3. ASSUME NEW h \in failed PROVE guess'[h] \in Summing \cup {"wrong"} /\ minute[h] =< clock
  BY <1>1, <1>2 DEF SprayInv, Dated
<1>4. ASSUME NEW h \in Guesses, guess'[h] \in {"tally"} \cup Summing
      PROVE  minute[h] =< clock /\ (guess'[h] \in Summing => h \in failed)
  <2>1. CASE h = g BY <1>1, <1>4, <2>1 DEF SprayInv, Dated, Summing
  <2>2. CASE h # g BY <1>1, <1>4, <2>2 DEF SprayInv, Dated
  <2>3. QED BY <2>1, <2>2
<1>5. Dated' BY <1>3, <1>4 DEF Dated
<1>6. ASSUME NEW m \in 0..MaxMinutes, Looking(m)
      PROVE  Looking(m)' \/ (l = "wrong" /\ minute[g] = m /\ g \in failed)
  <2>1. PICK h \in failed : guess[h] \in Summing /\ minute[h] = m BY <1>6 DEF Looking
  <2>2. CASE h = g BY <1>1, <2>1, <2>2 DEF Looking
  <2>3. CASE h # g BY <1>1, <1>2, <2>1, <2>3 DEF Looking
  <2>4. QED BY <2>2, <2>3
<1>7. QED BY <1>5, <1>6

LEMMA ProlongStep ==
    ASSUME LimitsTypes, SprayInv, NEW g \in Guesses, Prolong(g)
    PROVE  SprayInv'
<1>0. /\ guess[g] = "life" /\ GoGuess(g, "sum")
      /\ ends' = [ends EXCEPT ![minute[g]] = IF bucket[minute[g]] # {} THEN clock + Window + 1 ELSE 0]
      /\ UNCHANGED <<threshold, clock, minute, bucket, alerted, alerts, failed, lapsed>>
      /\ clock \in 0..MaxMinutes /\ minute \in [Guesses -> 0..MaxMinutes]
      /\ ends \in [0..MaxMinutes -> Nat] /\ Window \in Nat
  BY LimitsAssumption DEF Prolong, LimitsTypes, SprayType
<1>1. /\ Dated'
      /\ \A m \in 0..MaxMinutes : Looking(m) => Looking(m)'
  BY <1>0, GoesOn DEF Summing
<1>2. Kept'
  <2>1. minute[g] =< clock BY <1>0 DEF SprayInv, Dated, Summing
  <2>2. ASSUME NEW i \in 0..MaxMinutes, ends'[i] # 0 PROVE ends'[i] >= i + Window + 1
    <3>1. CASE i = minute[g]
      <4>1. ends'[i] = clock + Window + 1 BY <1>0, <2>2, <3>1
      <4>2. QED BY <1>0, <2>1, <3>1, <4>1
    <3>2. CASE i # minute[g] BY <1>0, <2>2, <3>2 DEF SprayInv, Kept
    <3>3. QED BY <3>1, <3>2
  <2>3. QED BY <1>0, <2>2 DEF SprayInv, Kept
<1>3. Marked' BY <1>0 DEF SprayInv, Marked
<1>4. Watched' BY <1>0, <1>1, WatchStep DEF SprayInv
<1>5. QED BY <1>1, <1>2, <1>3, <1>4 DEF SprayInv

\* A sum in time sees the whole window, unless one of its failures is set aside.
LEMMA SumUpStep ==
    ASSUME LimitsTypes, SprayInv, NEW g \in Guesses, SumUp(g)
    PROVE  SprayInv'
<1> DEFINE l == IF Many(minute[g]) THEN "mark" ELSE "wrong"
<1>0. /\ guess[g] = "sum" /\ GoGuess(g, l) /\ l \in Summing \cup {"wrong"}
      /\ UNCHANGED <<threshold, clock, minute, bucket, ends, alerted, alerts, failed>>
      /\ lapsed' = IF clock > minute[g] + 1 THEN lapsed \cup {g} ELSE lapsed
      /\ clock \in 0..MaxMinutes /\ minute \in [Guesses -> 0..MaxMinutes]
      /\ Window \in Nat \ {0} /\ threshold \in Nat /\ lapsed \subseteq lapsed'
      /\ failed \subseteq Guesses
  BY LimitsAssumption DEF SumUp, LimitsTypes, SprayType, Summing
<1>1. /\ Dated'
      /\ \A m \in 0..MaxMinutes :
           Looking(m) => Looking(m)' \/ (l = "wrong" /\ minute[g] = m /\ g \in failed)
  <2> HIDE DEF l
  <2>1. QED BY <1>0, GoesOn DEF Summing
<1>2. Kept' /\ Marked' BY <1>0 DEF SprayInv, Kept, Marked
<1>3. ASSUME NEW m \in 0..MaxMinutes, Reached(m), minute[g] = m, l = "wrong", g \in failed
      PROVE  FailedIn(m) \cap lapsed' # {}
  <2> SUFFICES ASSUME FailedIn(m) \cap lapsed' = {} PROVE FALSE OBVIOUS
  <2>1. g \in FailedIn(m) BY <1>0, <1>3 DEF FailedIn, InWindow
  <2>2. clock =< m + 1 BY <1>0, <1>3, <2>1
  <2>3. ASSUME NEW h \in FailedIn(m) PROVE h \in UNION {bucket[i] : i \in InWindow(m)}
    <3>1. h \in failed /\ h \notin lapsed /\ minute[h] \in InWindow(m)
      BY <1>0, <2>3 DEF FailedIn
    <3>2. ~(clock > minute[h] + Window) BY <1>0, <2>2, <3>1 DEF InWindow
    <3>3. h \in bucket[minute[h]] BY <3>1, <3>2 DEF SprayInv, Kept
    <3>4. QED BY <3>1, <3>3
  <2>4. FailedIn(m) \subseteq UNION {bucket[i] : i \in InWindow(m)} BY <2>3
  <2>5. /\ Cardinality(FailedIn(m)) =< Failures(m) /\ Failures(m) \in Nat
        /\ Cardinality(FailedIn(m)) \in Nat
    BY <2>4, FailuresFinite
  <2>6. Failures(m) >= threshold BY <1>0, <1>3, <2>5 DEF Reached
  <2>7. QED BY <1>3, <2>6 DEF Many
<1>4. Watched'
  <2>1. \A m \in 0..MaxMinutes :
          Reached(m) /\ Looking(m) => FailedIn(m) \cap lapsed' # {} \/ Looking(m)' \/ Noticed(m)'
    BY <1>1, <1>3
  <2>2. QED BY <1>0, <2>1, WatchStep DEF SprayInv
<1>5. QED BY <1>1, <1>2, <1>4 DEF SprayInv

\* A mark that is refused is one whose alert is no older than the window and a minute.
LEMMA AlertStep ==
    ASSUME LimitsTypes, SprayInv, NEW g \in Guesses, Alert(g)
    PROVE  SprayInv'
<1>0. /\ guess[g] = "mark" /\ GoGuess(g, "wrong")
      /\ UNCHANGED <<threshold, clock, minute, bucket, ends, failed, lapsed>>
      /\ clock \in 0..MaxMinutes /\ minute \in [Guesses -> 0..MaxMinutes]
      /\ Window \in Nat \ {0} /\ alerts \subseteq Nat /\ alerted \in Nat
  BY LimitsAssumption DEF Alert, LimitsTypes, SprayType
<1>1. /\ Dated'
      /\ \A m \in 0..MaxMinutes : Looking(m) => Looking(m)' \/ minute[g] = m
  BY <1>0, GoesOn DEF Summing
<1>2. Kept' BY <1>0 DEF SprayInv, Kept
<1>3. minute[g] =< clock /\ minute[g] \in 0..MaxMinutes BY <1>0 DEF SprayInv, Dated, Summing
<1>4. /\ Marked' /\ alerts \subseteq alerts'
      /\ \E a \in alerts' : minute[g] - Window =< a
  <2>1. CASE alerted = 0
    <3>1. alerted' = clock + Window /\ alerts' = alerts \cup {clock} BY <2>1 DEF Alert
    <3>2. clock \in alerts' /\ minute[g] - Window =< clock BY <1>0, <1>3, <3>1
    <3>3. Marked' BY <1>0, <3>1, <3>2 DEF Marked
    <3>4. QED BY <3>1, <3>2, <3>3
  <2>2. CASE alerted # 0
    <3>1. UNCHANGED <<alerted, alerts>> BY <2>2 DEF Alert
    <3>2. clock =< alerted /\ \E a \in alerts : alerted = a + Window
      BY <2>2 DEF SprayInv, Marked
    <3>3. PICK a \in alerts : alerted = a + Window BY <3>2
    <3>4. a \in Nat BY <1>0
    <3>5. minute[g] - Window =< a BY <1>0, <1>3, <3>2, <3>3, <3>4
    <3>6. Marked' BY <1>0, <3>1, <3>2 DEF Marked
    <3>7. QED BY <3>1, <3>5, <3>6
  <2>3. QED BY <2>1, <2>2
<1>5. \A m \in 0..MaxMinutes :
        Reached(m) /\ Looking(m) => FailedIn(m) \cap lapsed' # {} \/ Looking(m)' \/ Noticed(m)'
  BY <1>1, <1>4 DEF Noticed
<1>6. Watched' BY <1>0, <1>4, <1>5, WatchStep DEF SprayInv
<1>7. QED BY <1>1, <1>2, <1>4, <1>6 DEF SprayInv

LEMMA ForsakeStep ==
    ASSUME LimitsTypes, SprayInv, NEW g \in Guesses, Forsake(g)
    PROVE  SprayInv'
<1>0. /\ guess[g] \in {"tally"} \cup Summing /\ GoGuess(g, "wrong")
      /\ lapsed' = lapsed \cup ({g} \cap failed)
      /\ UNCHANGED <<threshold, clock, minute, bucket, ends, alerted, alerts, failed>>
      /\ minute \in [Guesses -> 0..MaxMinutes] /\ Window \in Nat \ {0}
  BY LimitsAssumption DEF Forsake, LimitsTypes, SprayType, Summing
<1>1. /\ Dated'
      /\ \A m \in 0..MaxMinutes : Looking(m) => Looking(m)' \/ (minute[g] = m /\ g \in failed)
  BY <1>0, GoesOn DEF Summing
<1>2. Kept' /\ Marked' BY <1>0 DEF SprayInv, Kept, Marked
<1>3. \A m \in 0..MaxMinutes : minute[g] = m /\ g \in failed => g \in FailedIn(m) /\ g \in lapsed'
  BY <1>0 DEF FailedIn, InWindow
<1>4. \A m \in 0..MaxMinutes :
        Reached(m) /\ Looking(m) => FailedIn(m) \cap lapsed' # {} \/ Looking(m)' \/ Noticed(m)'
  BY <1>1, <1>3
<1>5. Watched' BY <1>0, <1>4, WatchStep DEF SprayInv
<1>6. QED BY <1>1, <1>2, <1>5 DEF SprayInv

\* Keys expire and the minute passes: no bucket goes that a sum in time needs, and no
\* mark outlives the last minute it may stand in.
LEMMA ClockStep ==
    ASSUME LimitsTypes, SprayInv,
           MinutePasses \/ MarkExpires \/ \E i \in 0..MaxMinutes : BucketExpires(i)
    PROVE  SprayInv'
<1>0. /\ UNCHANGED <<threshold, minute, guess, alerts, failed, lapsed>>
      /\ clock' = clock \/ (clock' = clock + 1 /\ MinutePasses)
      /\ alerted' = alerted \/ alerted' = 0
      /\ clock \in 0..MaxMinutes /\ minute \in [Guesses -> 0..MaxMinutes] /\ failed \subseteq Guesses
      /\ ends \in [0..MaxMinutes -> Nat] /\ Window \in Nat \ {0} /\ alerted \in Nat
      /\ bucket \in [0..MaxMinutes -> SUBSET Guesses]
  BY LimitsAssumption DEF MinutePasses, MarkExpires, BucketExpires, LimitsTypes, SprayType, counter
<1>1. ASSUME NEW i \in 0..MaxMinutes
      PROVE  \/ bucket'[i] = bucket[i] /\ ends'[i] = ends[i]
             \/ Over(ends[i]) /\ ends'[i] = 0
  <2>1. CASE MinutePasses BY <2>1 DEF MinutePasses
  <2>2. CASE MarkExpires BY <2>2 DEF MarkExpires
  <2>3. ASSUME NEW j \in 0..MaxMinutes, BucketExpires(j)
        PROVE  \/ bucket'[i] = bucket[i] /\ ends'[i] = ends[i]
               \/ Over(ends[i]) /\ ends'[i] = 0
    BY <1>0, <2>3 DEF BucketExpires
  <2>4. QED BY <2>1, <2>2, <2>3
<1>2. clock' \in Nat /\ clock' >= clock BY <1>0
<1>3. Dated' BY <1>0, <1>2 DEF SprayInv, Dated
<1>4. Kept'
  <2>1. ASSUME NEW i \in 0..MaxMinutes, ends'[i] # 0 PROVE ends'[i] >= i + Window + 1
    BY <1>1, <2>1 DEF SprayInv, Kept
  <2>2. ASSUME NEW g \in failed'
        PROVE  g \in lapsed' \/ g \in bucket'[minute'[g]] \/ clock' > minute'[g] + Window
    <3>1. g \in failed /\ minute[g] \in 0..MaxMinutes BY <1>0, <2>2
    <3>2. g \in lapsed \/ g \in bucket[minute[g]] \/ clock > minute[g] + Window
      BY <3>1 DEF SprayInv, Kept
    <3>3. CASE Over(ends[minute[g]])
      <4>1. ends[minute[g]] # 0 /\ ends[minute[g]] =< clock BY <3>3 DEF Over
      <4>2. ends[minute[g]] >= minute[g] + Window + 1 BY <3>1, <4>1 DEF SprayInv, Kept
      <4>3. ends[minute[g]] \in Nat BY <1>0, <3>1
      <4>4. QED BY <1>0, <1>2, <3>1, <4>1, <4>2, <4>3
    <3>4. CASE ~Over(ends[minute[g]])
      <4>1. bucket'[minute[g]] = bucket[minute[g]] BY <1>1, <3>1, <3>4
      <4>2. QED BY <1>0, <1>2, <3>1, <3>2, <4>1
    <3>5. QED BY <3>3, <3>4
  <2>3. QED BY <2>1, <2>2 DEF Kept
<1>5. Marked'
  <2> SUFFICES ASSUME alerted' # 0 PROVE (clock =< alerted /\ \E a \in alerts : alerted = a + Window)'
    BY DEF Marked
  <2>1. alerted' = alerted /\ alerted # 0 BY <1>0
  <2>2. clock =< alerted /\ \E a \in alerts : alerted = a + Window BY <2>1 DEF SprayInv, Marked
  <2>3. CASE clock' = clock BY <1>0, <2>1, <2>2, <2>3
  <2>4. CASE clock' = clock + 1 /\ MinutePasses
    <3>1. ~Over(alerted) BY <2>1, <2>4 DEF MinutePasses
    <3>2. clock' =< alerted BY <1>0, <2>1, <2>2, <2>4, <3>1 DEF Over
    <3>3. QED BY <1>0, <2>1, <2>2, <3>2
  <2>5. QED BY <1>0, <2>3, <2>4
<1>6. Watched'
  <2>1. \A m \in 0..MaxMinutes : Looking(m) => Looking(m)' BY <1>0 DEF Looking
  <2>2. QED BY <1>0, <2>1, WatchStep DEF SprayInv
<1>7. QED BY <1>3, <1>4, <1>5, <1>6 DEF SprayInv

LEMMA SprayStep ==
    ASSUME LimitsTypes, SprayInv, [LimitsNext]_limitsVars
    PROVE  SprayInv'
<1>1. ASSUME NEW g \in Guesses, NEW l \in GuessEnds \cup {"expire", "decr", "checking"},
             guess[g] \in {"idle", "expire", "decr", "checking"}, GoGuess(g, l), UNCHANGED spray
      PROVE  SprayInv'
  <2>1. guess'[g] = l /\ \A h \in Guesses : h # g => guess'[h] = guess[h]
    BY <1>1, GuessMoves DEF LimitsTypes
  <2>2. l \notin {"tally"} \cup Summing /\ guess[g] \notin Summing \cup {"wrong"}
    BY <1>1 DEF GuessEnds, Summing
  <2>3. QED BY <1>1, <2>1, <2>2, AsideStep DEF spray
<1>2. ASSUME NEW g \in Guesses, Attempt(g) PROVE SprayInv'
  <2>1. CASE Incr(g)
    <3>1. GoGuess(g, "expire") \/ GoGuess(g, "decr") BY <2>1 DEF Incr
    <3>2. QED BY <1>1, <2>1, <3>1 DEF Incr
  <2>2. CASE ExpireKey(g) BY <1>1, <2>2 DEF ExpireKey
  <2>3. CASE Decr(g) BY <1>1, <2>3 DEF Decr, GuessEnds
  <2>4. CASE Release(g) BY <1>1, <2>4 DEF Release, GuessEnds
  <2>5. CASE Reset(g) BY <1>1, <2>5 DEF Reset, GuessEnds
  <2>6. CASE Die(g) BY <1>1, <2>6 DEF Die, GuessEnds
  <2>7. QED
    BY <1>2, <2>1, <2>2, <2>3, <2>4, <2>5, <2>6, WrongStep, TallyStep, ProlongStep, SumUpStep,
       AlertStep, ForsakeStep DEF Attempt
<1>3. CASE UploadsNext \/ UNCHANGED limitsVars
  <2>1. UNCHANGED guess /\ UNCHANGED spray
    BY <1>3 DEF UploadsNext, LockExpires, Upload, Admit, Fail, NotAcquired, SaveFiles, TellNoRoom,
       DraftGone, Measure, limitsVars, counter
  <2>2. QED BY <2>1, AsideStep DEF spray
<1>4. QED BY <1>2, <1>3, ClockStep DEF LimitsNext, AttemptsNext

\* Failures spread over many names are noticed: whenever the failures of a window
\* reach the threshold and each was counted in its minute and summed no more than a
\* minute later, an alert was given in the window or in the minute before it, where
\* the mark of that alert had the later ones refused.
THEOREM SprayCorrect == LimitsSpec => []SprayNoticed
<1>1. ASSUME LimitsInit PROVE SprayInv
  <2>1. /\ failed = {} /\ guess = [g \in Guesses |-> "idle"] /\ alerted = 0
        /\ ends = [m \in 0..MaxMinutes |-> 0]
    BY <1>1 DEF LimitsInit
  <2>2. Dated /\ Kept /\ Marked BY <2>1 DEF Dated, Kept, Marked, Summing
  <2>3. Watched BY <2>1 DEF Watched, Reached, FailedIn
  <2>4. QED BY <2>2, <2>3 DEF SprayInv
<1>2. LimitsTypes /\ SprayInv /\ [LimitsNext]_limitsVars => SprayInv' BY SprayStep
<1>3. ASSUME SprayInv PROVE SprayNoticed
  <2> SUFFICES ASSUME NEW m \in 0..MaxMinutes, Reached(m),
                      \A g \in FailedIn(m) : guess[g] = "wrong" /\ g \notin lapsed
               PROVE  Noticed(m)
    BY DEF SprayNoticed, Reached, Noticed
  <2>1. FailedIn(m) \cap lapsed = {} OBVIOUS
  <2>2. ~Looking(m)
    <3> SUFFICES ASSUME NEW g \in failed, guess[g] \in Summing, minute[g] = m PROVE FALSE
      BY DEF Looking
    <3>1. g \in FailedIn(m) BY LimitsAssumption DEF FailedIn, InWindow
    <3>2. QED BY <3>1 DEF Summing
  <2>3. QED BY <1>3, <2>1, <2>2 DEF SprayInv, Watched
<1>4. QED BY <1>1, <1>2, <1>3, LimitsTypesHold, PTL DEF LimitsSpec

----------------------------------------------------------------------------
(* Uploads *)

\* Who has measured has the lock and the room, unless a lock was lost.
UploadsInv ==
    /\ SpoolFits
    /\ \A u \in stored : upload[u] = "saved"
    /\ loose \/ /\ Total(stored) < Room
                /\ \A u \in Uploads : upload[u] = "measured" =>
                     lock = u /\ Total(stored) + Size[u] < Room

\* The bytes of a set of uploads, one by one.
Bytes(S) == UNION {{u} \X (1..Size[u]) : u \in S}

LEMMA BytesFinite ==
    ASSUME NEW S, S \subseteq Uploads
    PROVE  IsFiniteSet(Bytes(S)) /\ Total(S) = Cardinality(Bytes(S)) /\ Total(S) \in Nat
<1> DEFINE F == [u \in Uploads |-> {u} \X (1..Size[u])]
           T == {{u} \X (1..Size[u]) : u \in Uploads}
<1>1. F \in Surjection(Uploads, T) BY DEF Surjection
<1>2. IsFiniteSet(T) BY <1>1, FS_Surjection, LimitsAssumption
<1>3. ASSUME NEW B \in T PROVE IsFiniteSet(B)
  <2>1. PICK u \in Uploads : B = {u} \X (1..Size[u]) BY <1>3
  <2>2. IsFiniteSet({u}) BY FS_Singleton
  <2>3. Size[u] \in Int BY LimitsAssumption
  <2>4. IsFiniteSet(1..Size[u]) BY <2>3, FS_Interval
  <2>5. QED BY <2>1, <2>2, <2>4, FS_Product
<1>4. IsFiniteSet(UNION T)
  <2> HIDE DEF T
  <2>1. QED BY <1>2, <1>3, FS_UNION
<1>5. Bytes(S) \subseteq UNION T BY DEF Bytes
<1>6. IsFiniteSet(Bytes(S))
  <2> HIDE DEF T
  <2>1. QED BY <1>4, <1>5, FS_Subset
<1>7. Total(S) = Cardinality(Bytes(S)) BY DEF Total, Bytes
<1>8. QED BY <1>6, <1>7, FS_CardinalityType

\* A further upload adds its own bytes.
LEMMA TotalAdd ==
    ASSUME NEW S, S \subseteq Uploads, NEW u \in Uploads, u \notin S
    PROVE  Total(S \cup {u}) = Total(S) + Size[u]
<1> DEFINE Mine == {u} \X (1..Size[u])
<1>1. Size[u] \in Nat \ {0} BY LimitsAssumption
<1>2. IsFiniteSet({u}) /\ Cardinality({u}) = 1 BY FS_Singleton
<1>3. IsFiniteSet(1..Size[u]) /\ Cardinality(1..Size[u]) = Size[u]
  <2>1. Size[u] \in Int /\ 1 \in Int /\ ~(1 > Size[u]) /\ Size[u] - 1 + 1 = Size[u] BY <1>1
  <2>2. QED BY <2>1, FS_Interval
<1>4. IsFiniteSet(Mine) /\ Cardinality(Mine) = Size[u]
  <2>1. \A A, B : IsFiniteSet(A) /\ IsFiniteSet(B) =>
            IsFiniteSet(A \X B) /\ Cardinality(A \X B) = Cardinality(A) * Cardinality(B)
    BY FS_Product
  <2>2. IsFiniteSet(Mine) /\ Cardinality(Mine) = Cardinality({u}) * Cardinality(1..Size[u])
    BY <1>2, <1>3, <2>1
  <2>3. Cardinality({u}) * Cardinality(1..Size[u]) = 1 * Size[u] BY <1>2, <1>3
  <2>4. 1 * Size[u] = Size[u] BY <1>1
  <2>5. QED BY <2>2, <2>3, <2>4
<1>5. Bytes(S \cup {u}) = Bytes(S) \cup Mine BY DEF Bytes
<1>6. Bytes(S) \cap Mine = {}
  <2> SUFFICES ASSUME NEW x \in Bytes(S), x \in Mine PROVE FALSE OBVIOUS
  <2>1. PICK v \in S : x \in {v} \X (1..Size[v]) BY DEF Bytes
  <2>2. x[1] = v /\ x[1] = u BY <2>1
  <2>3. QED BY <2>2
<1>7. IsFiniteSet(Bytes(S)) /\ Total(S) = Cardinality(Bytes(S)) /\ Total(S) \in Nat
  BY BytesFinite
<1>8. Total(S \cup {u}) = Cardinality(Bytes(S \cup {u}))
  <2>1. S \cup {u} \subseteq Uploads OBVIOUS
  <2>2. QED BY <2>1, BytesFinite
<1>9. Cardinality(Bytes(S) \cap Mine) = 0 BY <1>6, FS_EmptySet
<1> HIDE DEF Mine
<1>10. Cardinality(Bytes(S) \cup Mine) = Cardinality(Bytes(S)) + Cardinality(Mine)
  <2>1. Cardinality(Bytes(S) \cup Mine)
            = Cardinality(Bytes(S)) + Cardinality(Mine) - Cardinality(Bytes(S) \cap Mine)
    BY <1>4, <1>7, FS_Union
  <2>2. QED BY <1>1, <1>4, <1>7, <1>9, <2>1
<1>11. Total(S \cup {u}) = Cardinality(Bytes(S) \cup Mine) BY <1>5, <1>8
<1>12. QED BY <1>4, <1>7, <1>10, <1>11

LEMMA TotalRemove ==
    ASSUME NEW S, S \subseteq Uploads, NEW u \in S
    PROVE  Total(S \ {u}) = Total(S) - Size[u] /\ Total(S \ {u}) < Total(S)
<1>1. (S \ {u}) \cup {u} = S OBVIOUS
<1>2. Total(S) = Total(S \ {u}) + Size[u]
  <2>1. S \ {u} \subseteq Uploads /\ u \in Uploads /\ u \notin S \ {u} OBVIOUS
  <2>2. QED BY <1>1, <2>1, TotalAdd
<1>3. Total(S \ {u}) \in Nat
  <2>1. S \ {u} \subseteq Uploads OBVIOUS
  <2>2. QED BY <2>1, BytesFinite
<1>4. Size[u] \in Nat \ {0} BY LimitsAssumption
<1>5. QED BY <1>2, <1>3, <1>4

LEMMA UploadMoves ==
    ASSUME FilesType, NEW u \in Uploads, NEW l, GoUpload(u, l)
    PROVE  upload'[u] = l /\ \A v \in Uploads : v # u => upload'[v] = upload[v]
BY DEF GoUpload, FilesType

\* What is reserved stays what is in flight.
Flying(l) == l \notin {"idle"} \cup UploadEnds

LEMMA SpoolStep ==
    ASSUME FilesType, FilesType', SpoolFits, NEW u \in Uploads, NEW l, GoUpload(u, l),
           \/ Flying(upload[u]) /\ Flying(l) /\ UNCHANGED reserved
           \/ ~Flying(upload[u]) /\ ~Flying(l) /\ UNCHANGED reserved
           \/ ~Flying(upload[u]) /\ Flying(l) /\ Fits(u) /\ reserved' = reserved + Size[u]
           \/ Flying(upload[u]) /\ ~Flying(l) /\ reserved' = reserved - Size[u]
    PROVE  SpoolFits'
<1>1. upload'[u] = l /\ \A v \in Uploads : v # u => upload'[v] = upload[v] BY UploadMoves
<1>2. InFlight = {v \in Uploads : Flying(upload[v])} BY DEF InFlight, Flying
<1>3. InFlight' = {v \in Uploads : Flying(upload'[v])} BY DEF InFlight, Flying
<1>4. /\ InFlight \subseteq Uploads /\ Total(InFlight) \in Nat
      /\ reserved = Total(InFlight) /\ reserved =< Capacity
      /\ Capacity \in Nat /\ Size[u] \in Nat \ {0}
  BY <1>2, BytesFinite, LimitsAssumption DEF SpoolFits
<1>5. Total(InFlight)' = Total(InFlight') BY DEF Total
<1>6. CASE (Flying(upload[u]) <=> Flying(l)) /\ UNCHANGED reserved
  <2>1. InFlight' = InFlight BY <1>1, <1>2, <1>3, <1>6
  <2>2. QED BY <1>4, <1>5, <1>6, <2>1 DEF SpoolFits
<1>7. CASE ~Flying(upload[u]) /\ Flying(l) /\ Fits(u) /\ reserved' = reserved + Size[u]
  <2>1. InFlight' = InFlight \cup {u} /\ u \notin InFlight BY <1>1, <1>2, <1>3, <1>7
  <2>2. Total(InFlight') = Total(InFlight) + Size[u] BY <1>4, <2>1, TotalAdd
  <2>3. reserved' = Total(InFlight') /\ reserved' =< Capacity BY <1>4, <1>7, <2>2 DEF Fits
  <2>4. QED BY <1>5, <2>3 DEF SpoolFits
<1>8. CASE Flying(upload[u]) /\ ~Flying(l) /\ reserved' = reserved - Size[u]
  <2>1. InFlight' = InFlight \ {u} /\ u \in InFlight BY <1>1, <1>2, <1>3, <1>8
  <2>2. Total(InFlight') = Total(InFlight) - Size[u] BY <1>4, <2>1, TotalRemove
  <2>3. reserved' = Total(InFlight') /\ reserved' =< Capacity BY <1>4, <1>8, <2>2
  <2>4. QED BY <1>5, <2>3 DEF SpoolFits
<1>9. QED BY <1>6, <1>7, <1>8

\* The next command of an upload that measured with the lock taken.
LEMMA UploadsStep ==
    ASSUME LimitsTypes, LimitsTypes', UploadsInv, NEW u \in Uploads, Upload(u)
    PROVE  UploadsInv'
<1> USE DEF UploadsInv
<1> DEFINE Room1(S) == loose' \/ /\ Total(S) < Room
                                 /\ \A v \in Uploads : upload'[v] = "measured" =>
                                      lock' = v /\ Total(S) + Size[v] < Room
<1>0. /\ FilesType /\ FilesType' /\ stored \subseteq Uploads /\ stored' \subseteq Uploads
      /\ Total(stored) \in Nat /\ Size \in [Uploads -> Nat \ {0}] /\ Room \in Nat
      /\ lock \in Uploads \cup {Nobody} /\ Nobody \notin Uploads
  <2>1. stored \subseteq Uploads /\ stored' \subseteq Uploads BY DEF LimitsTypes, FilesType
  <2>2. QED BY <2>1, BytesFinite, LimitsAssumption DEF LimitsTypes, FilesType
<1>1. Total(stored)' = Total(stored') BY DEF Total
<1>2. ASSUME UNCHANGED <<stored, loose>>, NEW l, GoUpload(u, l), l # "measured",
             upload[u] # "saved",
             \A v \in Uploads : v # u /\ lock = v /\ upload[v] = "measured" => lock' = v
      PROVE  (\A v \in stored' : upload'[v] = "saved") /\ Room1(stored')
  <2>1. upload'[u] = l /\ \A v \in Uploads : v # u => upload'[v] = upload[v]
    BY <1>0, <1>2, UploadMoves
  <2>2. u \notin stored BY <1>2
  <2>3. QED BY <1>0, <1>2, <2>1, <2>2
<1>3. CASE Admit(u)
  <2>1. CASE Fits(u)
    <3>1. GoUpload(u, "handling") /\ reserved' = reserved + Size[u] /\ upload[u] = "idle"
      BY <1>3, <2>1 DEF Admit
    <3>2. SpoolFits' BY <1>0, <2>1, <3>1, SpoolStep DEF Flying, UploadEnds
    <3>3. UNCHANGED <<lock, stored, loose>> BY <1>3 DEF Admit
    <3>4. QED BY <1>1, <1>2, <3>1, <3>2, <3>3
  <2>2. CASE ~Fits(u)
    <3>1. GoUpload(u, "refused") /\ reserved' = reserved /\ upload[u] = "idle"
      BY <1>3, <2>2 DEF Admit
    <3>2. SpoolFits' BY <1>0, <3>1, SpoolStep DEF Flying, UploadEnds
    <3>3. UNCHANGED <<lock, stored, loose>> BY <1>3 DEF Admit
    <3>4. QED BY <1>1, <1>2, <3>1, <3>2, <3>3
  <2>3. QED BY <2>1, <2>2
<1>4. ASSUME NEW how \in {"failed", "no_room"}, upload[u] \in {"handling", "release"},
             Leave(u, how), UNCHANGED <<stored, loose>>,
             \A v \in Uploads : v # u /\ lock = v /\ upload[v] = "measured" => lock' = v
      PROVE  UploadsInv'
  <2>1. GoUpload(u, how) /\ reserved' = reserved - Size[u] BY <1>4 DEF Leave
  <2>2. SpoolFits' BY <1>0, <1>4, <2>1, SpoolStep DEF Flying, UploadEnds
  <2>3. QED BY <1>1, <1>2, <1>4, <2>1, <2>2
<1>5. CASE Fail(u) BY <1>4, <1>5 DEF Fail
<1>6. CASE NotAcquired(u) BY <1>4, <1>6 DEF NotAcquired
<1>7. CASE TellNoRoom(u)
  <2>1. upload[u] = "release" /\ lock' = (IF lock = u THEN Nobody ELSE lock)
        /\ Leave(u, "no_room") /\ UNCHANGED <<stored, loose>>
    BY <1>7 DEF TellNoRoom, Unlock
  <2>2. \A v \in Uploads : v # u /\ lock = v /\ upload[v] = "measured" => lock' = v BY <2>1
  <2>3. QED BY <1>4, <2>1, <2>2
<1>8. CASE SaveFiles(u)
  <2>1. /\ upload[u] = "measured" /\ stored' = stored \cup {u} /\ UNCHANGED loose
        /\ GoUpload(u, "saved") /\ reserved' = reserved - Size[u]
    BY <1>8 DEF SaveFiles, Leave
  <2>2. upload'[u] = "saved" /\ \A v \in Uploads : v # u => upload'[v] = upload[v]
    BY <1>0, <2>1, UploadMoves
  <2>3. SpoolFits' BY <1>0, <2>1, SpoolStep DEF Flying, UploadEnds
  <2>4. u \notin stored BY <2>1
  <2>5. Total(stored') = Total(stored) + Size[u] BY <1>0, <2>1, <2>4, TotalAdd
  <2>6. \A v \in stored' : upload'[v] = "saved" BY <1>0, <2>1, <2>2
  <2>7. CASE loose BY <2>1, <2>3, <2>6, <2>7
  <2>8. CASE ~loose
    <3>1. lock = u /\ Total(stored) + Size[u] < Room BY <2>1, <2>8
    <3>2. \A v \in Uploads : v # u => upload[v] # "measured" BY <2>8, <3>1
    <3>3. \A v \in Uploads : upload'[v] # "measured" BY <2>2, <3>2
    <3>4. QED BY <1>1, <2>3, <2>5, <2>6, <3>1, <3>3
  <2>9. QED BY <2>7, <2>8
<1>9. CASE DraftGone(u)
  <2>1. u \in stored /\ stored' = stored \ {u} /\ UNCHANGED <<upload, reserved, lock, loose>>
    BY <1>9 DEF DraftGone
  <2>2. Total(stored') < Total(stored) /\ Total(stored') \in Nat
    <3>1. Total(stored \ {u}) < Total(stored) BY <1>0, <2>1, TotalRemove
    <3>2. Total(stored') \in Nat BY <1>0, BytesFinite
    <3>3. QED BY <2>1, <3>1, <3>2
  <2>3. SpoolFits'
    <3>1. InFlight' = InFlight BY <2>1 DEF InFlight
    <3>2. QED BY <2>1, <3>1 DEF SpoolFits, Total
  <2>4. \A v \in Uploads : Total(stored) + Size[v] < Room => Total(stored') + Size[v] < Room
    BY <1>0, <2>2
  <2>5. Total(stored) < Room => Total(stored') < Room BY <1>0, <2>2
  <2>6. QED BY <1>1, <2>1, <2>3, <2>4, <2>5
<1>10. ASSUME NEW read \in BOOLEAN, Measure(u, read) PROVE UploadsInv'
  <2> DEFINE l == IF read => Total(stored) + Size[u] < Room THEN "measured" ELSE "release"
  <2>1. /\ upload[u] = "handling" /\ lock = Nobody /\ lock' = u /\ GoUpload(u, l)
        /\ loose' = (loose \/ ~read) /\ UNCHANGED <<reserved, stored>>
    BY <1>10 DEF Measure, LockFree
  <2>2. upload'[u] = l /\ \A v \in Uploads : v # u => upload'[v] = upload[v]
    BY <1>0, <2>1, UploadMoves
  <2>3. SpoolFits'
    <3>1. Flying(upload[u]) /\ Flying(l) BY <2>1 DEF Flying, UploadEnds
    <3> HIDE DEF l
    <3>2. QED BY <1>0, <2>1, <3>1, SpoolStep
  <2>4. \A v \in stored' : upload'[v] = "saved"
    <3>1. u \notin stored BY <2>1
    <3>2. QED BY <1>0, <2>1, <2>2, <3>1
  <2>5. CASE loose' BY <2>3, <2>4, <2>5
  <2>6. CASE ~loose'
    <3>1. ~loose /\ read BY <2>1, <2>6
    <3>2. Total(stored) < Room /\ \A v \in Uploads : upload[v] # "measured"
      BY <1>0, <2>1, <3>1
    <3>3. ASSUME NEW v \in Uploads, upload'[v] = "measured"
          PROVE  lock' = v /\ Total(stored) + Size[v] < Room
      <4>1. v = u BY <2>2, <3>2, <3>3
      <4>2. l = "measured" BY <2>2, <3>3, <4>1
      <4>3. QED BY <2>1, <3>1, <4>1, <4>2
    <3>4. QED BY <1>1, <2>1, <2>3, <2>4, <3>2, <3>3
  <2>7. QED BY <2>5, <2>6
<1>11. QED BY <1>3, <1>5, <1>6, <1>7, <1>8, <1>9, <1>10 DEF Upload

\* However many uploads come at once and however they end: what is reserved is
\* what is in flight and fits the spool, and as long as no upload outlived its
\* lock and INFO was read, the drafts stay under their part of Redis.
THEOREM UploadsCorrect == LimitsSpec => []UploadsFit
<1>1. LimitsInit => UploadsInv
  <2> SUFFICES ASSUME LimitsInit PROVE UploadsInv OBVIOUS
  <2>1. InFlight = {} /\ stored = {} BY DEF LimitsInit, InFlight
  <2>2. UNION {{u} \X (1..Size[u]) : u \in {}} = {} OBVIOUS
  <2>3. Total({}) = 0 BY <2>2, FS_EmptySet DEF Total
  <2>4. reserved = 0 /\ \A u \in Uploads : upload[u] = "idle" BY DEF LimitsInit
  <2>5. SpoolFits BY <2>1, <2>3, <2>4, LimitsAssumption DEF SpoolFits
  <2>6. Total(stored) < Room BY <2>1, <2>3, LimitsAssumption
  <2>7. QED BY <2>1, <2>4, <2>5, <2>6 DEF UploadsInv
<1>2. ASSUME LimitsTypes, UploadsInv, [LimitsNext]_limitsVars PROVE UploadsInv'
  <2>0. LimitsTypes' BY <1>2, LimitsTypesStep
  <2>1. ASSUME UNCHANGED files PROVE UploadsInv'
    BY <1>2, <2>1 DEF files, UploadsInv, SpoolFits, InFlight, Total
  <2>2. CASE AttemptsNext \/ UNCHANGED limitsVars
    <3>1. UNCHANGED files
      BY <2>2 DEF limitsVars, AttemptsNext, MinutePasses, MarkExpires, BucketExpires, Attempt, Incr,
         ExpireKey, Decr, Release, Reset, Die, Wrong, Tally, Prolong, SumUp, Alert, Forsake
    <3>2. QED BY <2>1, <3>1
  <2>3. CASE LockExpires
    <3>1. /\ lock # Nobody /\ lock' = Nobody /\ loose' = (loose \/ upload[lock] = "measured")
          /\ UNCHANGED <<upload, reserved, stored>>
      BY <2>3 DEF LockExpires
    <3>2. SpoolFits' BY <1>2, <3>1 DEF UploadsInv, SpoolFits, InFlight, Total
    <3>3. Total(stored)' = Total(stored) BY <3>1 DEF Total
    <3>4. QED BY <1>2, <3>1, <3>2, <3>3 DEF UploadsInv
  <2>4. ASSUME NEW u \in Uploads, Upload(u) PROVE UploadsInv' BY <1>2, <2>0, <2>4, UploadsStep
  <2>5. QED BY <1>2, <2>2, <2>3, <2>4 DEF LimitsNext, UploadsNext
<1>3. UploadsInv => UploadsFit BY DEF UploadsInv, UploadsFit, RoomKept
<1>4. QED BY <1>1, <1>2, <1>3, LimitsTypesHold, PTL DEF LimitsSpec
=============================================================================
