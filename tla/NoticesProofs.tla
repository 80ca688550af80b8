----------------------------- MODULE NoticesProofs -----------------------------
(* What holds of notices and reminders however many cases and replicas there *)
(* are, whatever the settings: nothing is dropped or told twice, a deadline   *)
(* is reminded of once, an erased case does not come back.                    *)
EXTENDS Notices, TLAPS

----------------------------------------------------------------------------
(* Types *)

\* A run that mails or marks is at an item; a digest that is idle holds nothing.
Busy ==
    /\ \A r \in Reminders : rpc[r] \in {"mail", "mark"} => item[r] \in Item
    /\ \A d \in Digests : dpc[d] = "idle" => held[d] = {}

TypeInv == TypeOK /\ Busy

DigestLabels == {"idle", "deliver", "reports", "messages"}
RunLabels    == {"idle", "select", "next", "mail", "mark", "unlock"}

LEMMA DigestAtFacts ==
    ASSUME TypeInv, NEW d \in Digests, NEW l \in DigestLabels, NEW ns \in SUBSET Notice,
           DigestAt(d, l, ns), l = "idle" => ns = {}
    PROVE  /\ dpc' \in [Digests -> DigestLabels]
           /\ held' \in [Digests -> SUBSET Notice]
           /\ dpc'[d] = l /\ held'[d] = ns
           /\ \A e \in Digests \ {d} : dpc'[e] = dpc[e] /\ held'[e] = held[e]
           /\ \A e \in Digests : dpc'[e] = "idle" => held'[e] = {}
<1>1. dpc' = [dpc EXCEPT ![d] = l] /\ held' = [held EXCEPT ![d] = ns] BY DEF DigestAt
<1>2. dpc' \in [Digests -> DigestLabels] /\ held' \in [Digests -> SUBSET Notice]
  BY <1>1 DEF TypeInv, TypeOK, DigestLabels
<1>3. dpc'[d] = l /\ held'[d] = ns BY <1>1 DEF TypeInv, TypeOK
<1>4. \A e \in Digests \ {d} : dpc'[e] = dpc[e] /\ held'[e] = held[e]
  BY <1>1 DEF TypeInv, TypeOK
<1>5. QED BY <1>2, <1>3, <1>4 DEF TypeInv, Busy

LEMMA RunAtFacts ==
    ASSUME TypeInv, NEW r \in Reminders, NEW l \in RunLabels, NEW is \in SUBSET Item,
           NEW i \in Item \cup {None}, RunAt(r, l, is, i), l \in {"mail", "mark"} => i \in Item
    PROVE  /\ rpc' \in [Reminders -> RunLabels]
           /\ todo' \in [Reminders -> SUBSET Item]
           /\ item' \in [Reminders -> Item \cup {None}]
           /\ rpc'[r] = l /\ todo'[r] = is /\ item'[r] = i
           /\ \A q \in Reminders \ {r} : rpc'[q] = rpc[q] /\ todo'[q] = todo[q] /\ item'[q] = item[q]
           /\ \A q \in Reminders : rpc'[q] \in {"mail", "mark"} => item'[q] \in Item
<1>1. /\ rpc' = [rpc EXCEPT ![r] = l] /\ todo' = [todo EXCEPT ![r] = is]
      /\ item' = [item EXCEPT ![r] = i]
  BY DEF RunAt
<1>2. /\ rpc' \in [Reminders -> RunLabels] /\ todo' \in [Reminders -> SUBSET Item]
      /\ item' \in [Reminders -> Item \cup {None}]
  BY <1>1 DEF TypeInv, TypeOK, RunLabels
<1>3. rpc'[r] = l /\ todo'[r] = is /\ item'[r] = i BY <1>1 DEF TypeInv, TypeOK
<1>4. \A q \in Reminders \ {r} : rpc'[q] = rpc[q] /\ todo'[q] = todo[q] /\ item'[q] = item[q]
  BY <1>1 DEF TypeInv, TypeOK
<1>5. QED BY <1>2, <1>3, <1>4 DEF TypeInv, Busy

\* The part of the types each group of variables has.
EventsOK == config \in Settings /\ stage \in [Cases -> Stages] /\ due \subseteq Notice
RedisOK  == queue \subseteq Notice /\ marks \subseteq Item /\ lock \in Reminders \cup {None}
DigestOK ==
    /\ dpc \in [Digests -> DigestLabels] /\ held \in [Digests -> SUBSET Notice]
    /\ \A d \in Digests : dpc[d] = "idle" => held[d] = {}
RemindOK ==
    /\ rpc \in [Reminders -> RunLabels] /\ todo \in [Reminders -> SUBSET Item]
    /\ item \in [Reminders -> Item \cup {None}]
    /\ \A r \in Reminders : rpc[r] \in {"mail", "mark"} => item[r] \in Item
ToldOK   == told \subseteq Channels \X Notice /\ again \in BOOLEAN /\ lost \subseteq Notice
RecentOK == recent \subseteq Item /\ twice \in BOOLEAN /\ excused \in BOOLEAN
ErasedOK == stale \subseteq Cases /\ named \subseteq Cases

LEMMA TypeParts ==
    TypeInv <=> EventsOK /\ RedisOK /\ DigestOK /\ RemindOK /\ ToldOK /\ RecentOK /\ ErasedOK
BY DEF TypeInv, TypeOK, Busy, EventsOK, RedisOK, DigestOK, RemindOK, ToldOK, RecentOK, ErasedOK,
       DigestLabels, RunLabels

LEMMA TypePartsNext ==
    TypeInv' <=> EventsOK' /\ RedisOK' /\ DigestOK' /\ RemindOK' /\ ToldOK' /\ RecentOK' /\ ErasedOK'
BY DEF TypeInv, TypeOK, Busy, EventsOK, RedisOK, DigestOK, RemindOK, ToldOK, RecentOK, ErasedOK,
       DigestLabels, RunLabels

LEMMA SentOK ==
    ASSUME TypeInv, NEW ok \in SUBSET config.channels, NEW ns \in SUBSET Notice, Sent(ok, ns)
    PROVE  told' \subseteq Channels \X Notice /\ again' \in BOOLEAN /\ named' \subseteq Cases
<1>1. ok \subseteq Channels
  BY ConstantsAssumption DEF TypeInv, TypeOK
<1>2. QED BY <1>1 DEF Sent, TypeInv, TypeOK

\* What a digest or a deletion does to the queue and the history keeps the types.
LEMMA DigestStepTypes ==
    ASSUME TypeInv, NEW d \in Digests,
           \/ ReadQueue(d) \/ Requeue(d) \/ DigestFails(d)
           \/ \E ok \in SUBSET config.channels : Deliver(d, ok)
    PROVE  TypeInv'
<1> USE TypeParts, TypePartsNext
<1>0. held[d] \in SUBSET Notice /\ queue \in SUBSET Notice BY DEF DigestOK, RedisOK
<1>1. CASE ReadQueue(d)
  <2>1. DigestOK' BY <1>0, <1>1, DigestAtFacts DEF ReadQueue, DigestOK, DigestLabels
  <2>2. QED BY <1>1, <2>1
    DEF ReadQueue, events, remind, toldOf, remindOf, erased, EventsOK, RedisOK, RemindOK, ToldOK,
        RecentOK, ErasedOK
<1>2. CASE Requeue(d)
  <2>1. /\ OfKind(held[d], "new_messages") \in SUBSET Notice
        /\ OfKind(held[d], "new_reports") \in SUBSET Notice
    BY <1>0 DEF OfKind
  <2>2. DigestOK' BY <1>0, <1>2, <2>1, DigestAtFacts DEF Requeue, DigestOK, DigestLabels
  <2>3. queue' \subseteq Notice BY <1>0, <1>2, <2>1 DEF Requeue
  <2>4. QED BY <1>2, <2>2, <2>3
    DEF Requeue, events, remind, toldOf, remindOf, erased, EventsOK, RedisOK, RemindOK, ToldOK,
        RecentOK, ErasedOK
<1>3. CASE DigestFails(d)
  <2>1. DigestOK' BY <1>3, DigestAtFacts DEF DigestFails, DigestOK, DigestLabels
  <2>2. QED BY <1>0, <1>3, <2>1
    DEF DigestFails, events, redis, remind, remindOf, erased, EventsOK, RedisOK, RemindOK, ToldOK,
        RecentOK, ErasedOK
<1>4. ASSUME NEW ok \in SUBSET config.channels, Deliver(d, ok) PROVE TypeInv'
  <2>1. DigestOK' BY <1>0, <1>4, DigestAtFacts DEF Deliver, DigestOK, DigestLabels
  <2>2. told' \subseteq Channels \X Notice /\ again' \in BOOLEAN /\ named' \subseteq Cases
    BY <1>0, <1>4, SentOK DEF Deliver
  <2>3. QED BY <1>4, <2>1, <2>2
    DEF Deliver, events, redis, remind, remindOf, EventsOK, RedisOK, RemindOK, ToldOK, RecentOK,
        ErasedOK
<1>5. QED BY <1>1, <1>2, <1>3, <1>4

LEMMA ReminderStepTypes ==
    ASSUME TypeInv, NEW r \in Reminders,
           \/ TakeLock(r) \/ Select(r) \/ CheckMark(r) \/ Mail(r) \/ Mark(r)
           \/ CheckFails(r) \/ Finish(r) \/ Unlock(r) \/ RunDies(r)
    PROVE  TypeInv'
<1> USE TypeParts, TypePartsNext
<1>0. todo[r] \in SUBSET Item /\ item[r] \in Item \cup {None} /\ None \in Item \cup {None}
  BY DEF RemindOK
<1>a. rpc[r] \in {"mail", "mark"} => item[r] \in Item BY DEF RemindOK
<1>1. RemindOK'
  <2>1. ASSUME NEW l \in RunLabels, NEW is \in SUBSET Item, NEW i \in Item \cup {None},
               RunAt(r, l, is, i), l \in {"mail", "mark"} => i \in Item
        PROVE  RemindOK'
    BY <2>1, RunAtFacts DEF RemindOK
  <2>2. CASE TakeLock(r) BY <1>0, <2>1, <2>2 DEF TakeLock, RunLabels
  <2>3. CASE Select(r)
    <3>1. PICK is \in SUBSET {i \in Item : stage[i[2]] = "open"} : RunAt(r, "next", is, None)
      BY <2>3 DEF Select
    <3>2. is \in SUBSET Item OBVIOUS
    <3>3. QED BY <1>0, <2>1, <3>1, <3>2 DEF RunLabels
  <2>4. CASE CheckMark(r)
    <3>1. PICK i \in Upcoming(r) :
             IF i \in marks THEN RunAt(r, "next", todo[r] \ {i}, None)
                            ELSE RunAt(r, "mail", todo[r] \ {i}, i)
      BY <2>4 DEF CheckMark
    <3>2. i \in Item /\ todo[r] \ {i} \in SUBSET Item BY <1>0 DEF Upcoming
    <3>3. QED BY <1>0, <2>1, <3>1, <3>2 DEF RunLabels
  <2>5. CASE Mail(r) BY <1>0, <1>a, <2>1, <2>5 DEF Mail, RunLabels
  <2>6. CASE Mark(r) BY <1>0, <2>1, <2>6 DEF Mark, RunLabels
  <2>7. CASE CheckFails(r)
    <3>1. PICK i : RunAt(r, "next", {j \in todo[r] : j[2] # i[2]}, None)
      BY <2>7 DEF CheckFails
    <3>2. {j \in todo[r] : j[2] # i[2]} \in SUBSET Item BY <1>0
    <3>3. QED BY <1>0, <2>1, <3>1, <3>2 DEF RunLabels
  <2>8. CASE Finish(r) BY <1>0, <2>1, <2>8 DEF Finish, RunLabels
  <2>9. CASE Unlock(r) BY <1>0, <2>1, <2>9 DEF Unlock, RunLabels
  <2>10. CASE RunDies(r) BY <1>0, <2>1, <2>10 DEF RunDies, RunLabels
  <2>11. QED BY <2>2, <2>3, <2>4, <2>5, <2>6, <2>7, <2>8, <2>9, <2>10
<1>2. RedisOK'
  BY <1>a DEF TakeLock, Select, CheckMark, Mail, Mark, CheckFails, Finish, Unlock, RunDies, redis,
         RedisOK
<1>3. RecentOK'
  BY <1>a DEF TakeLock, Select, CheckMark, Mail, Mark, CheckFails, Finish, Unlock, RunDies, remindOf,
         RecentOK
<1>4. ErasedOK'
  <2>1. ASSUME rpc[r] = "mail" PROVE item[r][2] \in Cases BY <1>a, <2>1 DEF Item
  <2>2. QED
    BY <2>1 DEF TakeLock, Select, CheckMark, Mail, Mark, CheckFails, Finish, Unlock, RunDies, erased,
         ErasedOK
<1>5. EventsOK' /\ DigestOK' /\ ToldOK'
  BY DEF TakeLock, Select, CheckMark, Mail, Mark, CheckFails, Finish, Unlock, RunDies, events,
         digest, toldOf, EventsOK, DigestOK, ToldOK
<1>6. QED BY <1>1, <1>2, <1>3, <1>4, <1>5

LEMMA CaseStepTypes ==
    ASSUME TypeInv, NEW c \in Cases,
           \/ Arrives(c) \/ Replies(c) \/ DeleteCase(c)
           \/ ForgetQueue(c) \/ ForgetMarks(c) \/ ForgetFails(c)
    PROVE  TypeInv'
<1> USE TypeParts, TypePartsNext
<1>0. <<"new_reports", c>> \in Notice /\ <<"new_messages", c>> \in Notice BY DEF Notice, Kinds
<1>1. EventsOK'
  BY <1>0 DEF Arrives, Replies, DeleteCase, ForgetQueue, ForgetNotice, ForgetMarks, ForgetFails,
              EventsOK, Stages
<1>2. RedisOK'
  BY DEF Arrives, Replies, DeleteCase, ForgetQueue, ForgetNotice, ForgetMarks, ForgetFails, redis,
         RedisOK
<1>3. DigestOK' /\ RemindOK'
  BY DEF Arrives, Replies, DeleteCase, ForgetQueue, ForgetNotice, ForgetMarks, ForgetFails, digest,
         remind, DigestOK, RemindOK
<1>4. ToldOK' /\ RecentOK'
  BY DEF Arrives, Replies, DeleteCase, ForgetQueue, ForgetNotice, ForgetMarks, ForgetFails, toldOf,
         remindOf, ToldOK, RecentOK
<1>5. ErasedOK'
  BY DEF Arrives, Replies, DeleteCase, ForgetQueue, ForgetNotice, ForgetMarks, ForgetFails, erased,
         ErasedOK
<1>6. QED BY <1>1, <1>2, <1>3, <1>4, <1>5

LEMMA NotifyTypes ==
    ASSUME TypeInv, NEW n \in Notice, Notify(n)
    PROVE  TypeInv'
<1> USE TypeParts, TypePartsNext
<1>1. \A ok \in SUBSET config.channels : Sent(ok, {n}) =>
         told' \subseteq Channels \X Notice /\ again' \in BOOLEAN /\ named' \subseteq Cases
  BY SentOK
<1>2. ToldOK' /\ ErasedOK' BY <1>1 DEF Notify, ToldOK, ErasedOK
<1>3. EventsOK' /\ RedisOK' /\ DigestOK' /\ RemindOK' /\ RecentOK'
  BY DEF Notify, digest, remind, remindOf, EventsOK, RedisOK, DigestOK, RemindOK, RecentOK
<1>4. QED BY <1>2, <1>3

LEMMA ExpiryTypes ==
    ASSUME TypeInv, LockExpires \/ \E i \in Item : MarkExpires(i)
    PROVE  TypeInv'
BY TypeParts, TypePartsNext
   DEF LockExpires, MarkExpires, events, digest, remind, toldOf, erased, EventsOK, RedisOK, DigestOK,
       RemindOK, ToldOK, RecentOK, ErasedOK

\* The steps by who takes them.
DigestStep(d) ==
    \/ ReadQueue(d) \/ Requeue(d) \/ DigestFails(d)
    \/ \E ok \in SUBSET config.channels : Deliver(d, ok)

ReminderStep(r) ==
    \/ TakeLock(r) \/ Select(r) \/ CheckMark(r) \/ Mail(r) \/ Mark(r)
    \/ CheckFails(r) \/ Finish(r) \/ Unlock(r) \/ RunDies(r)

CaseStep(c) ==
    \/ Arrives(c) \/ Replies(c) \/ DeleteCase(c)
    \/ ForgetQueue(c) \/ ForgetMarks(c) \/ ForgetFails(c)

Expiry == LockExpires \/ \E i \in Item : MarkExpires(i)

LEMMA StepKinds ==
    Next => \/ \E c \in Cases : CaseStep(c)
            \/ \E n \in Notice : Notify(n)
            \/ \E d \in Digests : DigestStep(d)
            \/ \E r \in Reminders : ReminderStep(r)
            \/ Expiry
BY DEF Next, CaseStep, DigestStep, ReminderStep, Expiry

LEMMA TypeInit == Init => TypeInv
<1> SUFFICES ASSUME Init PROVE TypeInv OBVIOUS
<1>1. EventsOK /\ RedisOK /\ ToldOK /\ RecentOK /\ ErasedOK
  BY DEF Init, EventsOK, RedisOK, ToldOK, RecentOK, ErasedOK, Stages
<1>2. DigestOK BY DEF Init, DigestOK, DigestLabels
<1>3. RemindOK
  <2>1. item \in [Reminders -> Item \cup {None}] BY DEF Init
  <2>2. rpc \in [Reminders -> RunLabels] /\ todo \in [Reminders -> SUBSET Item]
    BY DEF Init, RunLabels
  <2>3. QED BY <2>1, <2>2 DEF Init, RemindOK
<1>4. QED BY <1>1, <1>2, <1>3, TypeParts

LEMMA TypeStep == TypeInv /\ [Next]_vars => TypeInv'
<1> SUFFICES ASSUME TypeInv, [Next]_vars PROVE TypeInv' OBVIOUS
<1>1. CASE UNCHANGED vars
  BY <1>1 DEF vars, events, redis, digest, remind, toldOf, remindOf, erased, TypeInv, TypeOK, Busy
<1>2. CASE Next
  BY <1>2, StepKinds, CaseStepTypes, NotifyTypes, DigestStepTypes, ReminderStepTypes, ExpiryTypes
  DEF CaseStep, DigestStep, ReminderStep, Expiry
<1>3. QED BY <1>1, <1>2

LEMMA TypeInvariant == Spec => []TypeInv
BY TypeInit, TypeStep, PTL DEF Spec

\* The queue, the marks, what the jobs hold and the histories keep their types, for
\* any number of cases and replicas and any settings.
THEOREM NoticesTypeCorrect == Spec => []TypeOK
BY TypeInvariant, PTL DEF TypeInv

----------------------------------------------------------------------------
(* A notice is in one place *)

\* Told once, because a notice is in one place at a time: with its event, in the
\* queue, or with one digest; nowhere before its case arrives, and not told before
\* it leaves the last of them.
InOnePlace(n) ==
    /\ ~(n \in due /\ n \in queue)
    /\ \A d \in Digests : n \in held[d] =>
          n \notin due \cup queue /\ \A e \in Digests : n \in held[e] => e = d

Untold(n) == \A x \in Channels : <<x, n>> \notin told

PlaceInv(n) ==
    /\ InOnePlace(n)
    /\ InHand(n) \/ n \in queue => Untold(n)
    /\ stage[n[2]] = "none" => ~InHand(n) /\ n \notin queue /\ Untold(n)

OnceInv == ~again /\ \A n \in Notice : PlaceInv(n)

\* The notices' variables a step may leave as they are.
LEMMA PlacesKept ==
    ASSUME TypeInv, OnceInv, UNCHANGED <<due, queue, digest, told, again>>,
           \A c \in Cases : stage'[c] = "none" => stage[c] = "none"
    PROVE  OnceInv'
<1>1. \A n \in Notice : n[2] \in Cases BY DEF Notice
<1>2. QED BY <1>1 DEF OnceInv, PlaceInv, InOnePlace, InHand, Untold, digest

LEMMA OnceArrives ==
    ASSUME TypeInv, OnceInv, NEW c \in Cases, Arrives(c) \/ Replies(c)
    PROVE  OnceInv'
<1>0. \A n \in Notice : n[2] \in Cases BY DEF Notice
<1>1. PICK m \in Notice : /\ m[2] = c /\ due' = due \cup {m}
                          /\ ~InHand(m) /\ m \notin queue /\ Untold(m)
  <2>1. CASE Arrives(c)
    <3>1. <<"new_reports", c>> \in Notice BY DEF Notice, Kinds
    <3>2. QED BY <2>1, <3>1 DEF Arrives, OnceInv, PlaceInv
  <2>2. CASE Replies(c)
    <3>1. <<"new_messages", c>> \in Notice BY DEF Notice, Kinds
    <3>2. QED BY <2>2, <3>1 DEF Replies, InHand, Untold
  <2>3. QED BY <2>1, <2>2
<1>2. UNCHANGED <<queue, held, told, again>> BY DEF Arrives, Replies, redis, digest, toldOf
<1>3. stage'[c] = "open" /\ \A b \in Cases \ {c} : stage'[b] = stage[b]
  BY DEF Arrives, Replies, TypeInv, TypeOK
<1>4. ASSUME NEW n \in Notice PROVE PlaceInv(n)'
  <2>1. PlaceInv(n) BY DEF OnceInv
  <2>2. CASE n = m BY <1>1, <1>2, <1>3, <2>2 DEF PlaceInv, InOnePlace, InHand, Untold
  <2>3. CASE n # m
    <3>1. stage'[n[2]] = "none" => stage[n[2]] = "none" BY <1>0, <1>3
    <3>2. QED BY <1>1, <1>2, <2>1, <2>3, <3>1 DEF PlaceInv, InOnePlace, InHand, Untold
  <2>4. QED BY <2>2, <2>3
<1>5. QED BY <1>2, <1>4 DEF OnceInv

\* What is told is in hand: nobody was told before.
LEMMA SentOnce ==
    ASSUME TypeInv, OnceInv, NEW ok \in SUBSET config.channels, NEW ns \in SUBSET Notice,
           Sent(ok, ns), \A n \in ns : Untold(n)
    PROVE  ~again' /\ \A n \in Notice \ ns : Untold(n) => Untold(n)'
<1>1. ok \subseteq Channels
  BY ConstantsAssumption DEF TypeInv, TypeOK
<1>2. told \cap (ok \X ns) = {} BY <1>1 DEF Untold
<1>3. QED BY <1>2 DEF Sent, OnceInv, Untold

LEMMA OnceNotify ==
    ASSUME TypeInv, OnceInv, NEW n \in Notice, Notify(n)
    PROVE  OnceInv'
<1>0. n \in due /\ due' = due \ {n} /\ UNCHANGED <<stage, held>> BY DEF Notify, digest
<1>1. Untold(n) /\ n \notin queue /\ \A d \in Digests : n \notin held[d]
  BY <1>0 DEF OnceInv, PlaceInv, InOnePlace, InHand
<1>a. stage[n[2]] # "none" BY <1>0 DEF OnceInv, PlaceInv, InHand
<1>2. CASE queue' = queue /\ UNCHANGED <<told, again>>
  BY <1>0, <1>2 DEF OnceInv, PlaceInv, InOnePlace, InHand, Untold
<1>3. CASE queue' = queue \cup {n} /\ UNCHANGED <<told, again>>
  <2>1. ASSUME NEW m \in Notice PROVE PlaceInv(m)'
    <3>1. PlaceInv(m) BY DEF OnceInv
    <3>2. QED BY <1>0, <1>1, <1>a, <1>3, <3>1 DEF PlaceInv, InOnePlace, InHand, Untold
  <2>2. QED BY <1>3, <2>1 DEF OnceInv
<1>4. ASSUME NEW ok \in SUBSET config.channels, Sent(ok, {n}), queue' = queue PROVE OnceInv'
  <2>1. ~again' /\ \A m \in Notice \ {n} : Untold(m) => Untold(m)'
    BY <1>1, <1>4, SentOnce
  <2>2. ASSUME NEW m \in Notice PROVE PlaceInv(m)'
    <3>1. PlaceInv(m) BY DEF OnceInv
    <3>2. QED BY <1>0, <1>1, <1>a, <1>4, <2>1, <3>1 DEF PlaceInv, InOnePlace, InHand
  <2>3. QED BY <2>1, <2>2 DEF OnceInv
<1>5. QED BY <1>2, <1>3, <1>4 DEF Notify

\* A digest's step keeps a notice it does not tell in one place: the queue and what
\* the digest holds exchange notices.
LEMMA OnceExchange ==
    ASSUME TypeInv, OnceInv, NEW d \in Digests, UNCHANGED <<due, stage, told>>,
           \A e \in Digests \ {d} : held'[e] = held[e],
           \A n \in Notice : n \in queue' \/ n \in held'[d] => n \in queue \/ n \in held[d],
           \A n \in Notice : ~(n \in queue' /\ n \in held'[d]),
           ~again'
    PROVE  OnceInv'
<1>1. ASSUME NEW n \in Notice PROVE PlaceInv(n)'
  <2>1. PlaceInv(n) BY DEF OnceInv
  <2>2. InOnePlace(n)'
    BY <2>1 DEF PlaceInv, InOnePlace
  <2>3. InHand(n)' \/ n \in queue' => InHand(n) \/ n \in queue
    BY DEF InHand
  <2>4. QED BY <2>1, <2>2, <2>3 DEF PlaceInv, Untold
<1>2. QED BY <1>1 DEF OnceInv

LEMMA OnceDigest ==
    ASSUME TypeInv, OnceInv, NEW d \in Digests, DigestStep(d)
    PROVE  OnceInv'
<1>0. held[d] \in SUBSET Notice /\ queue \in SUBSET Notice /\ held \in [Digests -> SUBSET Notice]
  BY DEF TypeInv, TypeOK
<1>1. CASE ReadQueue(d)
  <2>1. held[d] = {} BY <1>1 DEF ReadQueue, TypeInv, Busy
  <2>2. held'[d] = queue /\ \A e \in Digests \ {d} : held'[e] = held[e]
    BY <1>0, <1>1 DEF ReadQueue, DigestAt
  <2>3. QED BY <1>1, <2>1, <2>2, OnceExchange DEF ReadQueue, events, toldOf, OnceInv
<1>2. CASE Requeue(d)
  <2>0. \A n \in held[d] : ~(n \in queue) BY <1>0 DEF OnceInv, PlaceInv, InOnePlace
  <2>1. CASE /\ dpc[d] = "reports" /\ queue' = queue \cup OfKind(held[d], "new_reports")
             /\ DigestAt(d, "messages", OfKind(held[d], "new_messages"))
    <3>1. held'[d] = OfKind(held[d], "new_messages") /\ \A e \in Digests \ {d} : held'[e] = held[e]
      BY <1>0, <2>1 DEF DigestAt
    <3>2. \A n \in Notice : ~(n \in queue' /\ n \in held'[d]) BY <2>0, <2>1, <3>1 DEF OfKind
    <3>3. \A n \in Notice : n \in queue' \/ n \in held'[d] => n \in queue \/ n \in held[d]
      BY <2>1, <3>1 DEF OfKind
    <3>4. QED BY <1>2, <3>1, <3>2, <3>3, OnceExchange DEF Requeue, events, toldOf, OnceInv
  <2>2. CASE queue' = queue \cup held[d] /\ DigestAt(d, "idle", {})
    <3>1. held'[d] = {} /\ \A e \in Digests \ {d} : held'[e] = held[e]
      BY <1>0, <2>2 DEF DigestAt
    <3>2. QED BY <1>2, <2>2, <3>1, OnceExchange DEF Requeue, events, toldOf, OnceInv
  <2>3. QED BY <1>2, <2>1, <2>2 DEF Requeue
<1>3. CASE DigestFails(d)
  <2>1. held'[d] = {} /\ \A e \in Digests \ {d} : held'[e] = held[e]
    BY <1>0, <1>3 DEF DigestFails, DigestAt
  <2>2. QED BY <1>3, <2>1, OnceExchange DEF DigestFails, events, redis, OnceInv
<1>4. ASSUME NEW ok \in SUBSET config.channels, Deliver(d, ok) PROVE OnceInv'
  <2>1. \A n \in held[d] : Untold(n) BY <1>0 DEF OnceInv, PlaceInv, InHand
  <2>2. ~again' /\ \A n \in Notice \ held[d] : Untold(n) => Untold(n)'
    BY <1>0, <1>4, <2>1, SentOnce DEF Deliver
  <2>3. UNCHANGED <<due, stage, queue>> BY <1>4 DEF Deliver, events, redis
  <2>4. CASE ok = {}
    <3>1. told' = told BY <1>4, <2>4 DEF Deliver, Sent
    <3>2. held'[d] = held[d] /\ \A e \in Digests \ {d} : held'[e] = held[e]
      BY <1>0, <1>4, <2>4 DEF Deliver, DigestAt
    <3>3. \A n \in Notice : ~(n \in queue' /\ n \in held'[d])
      BY <2>3, <3>2 DEF OnceInv, PlaceInv, InOnePlace
    <3>4. QED BY <2>2, <2>3, <3>1, <3>2, <3>3, OnceExchange
  <2>5. CASE ok # {}
    <3>1. held'[d] = {} /\ \A e \in Digests \ {d} : held'[e] = held[e]
      BY <1>0, <1>4, <2>5 DEF Deliver, DigestAt
    <3>2. ASSUME NEW n \in Notice PROVE PlaceInv(n)'
      <4>1. PlaceInv(n) BY DEF OnceInv
      <4>2. InOnePlace(n)' BY <2>3, <3>1, <4>1 DEF PlaceInv, InOnePlace
      <4>3. CASE n \in held[d]
        <5>1. ~InHand(n)' /\ n \notin queue'
          BY <2>3, <3>1, <4>1, <4>3 DEF PlaceInv, InOnePlace, InHand
        <5>2. stage'[n[2]] # "none" BY <2>3, <4>1, <4>3 DEF PlaceInv, InHand
        <5>3. QED BY <4>2, <5>1, <5>2 DEF PlaceInv
      <4>4. CASE n \notin held[d]
        <5>1. InHand(n)' => InHand(n) BY <2>3, <3>1 DEF InHand
        <5>2. Untold(n) => Untold(n)' BY <2>2, <4>4
        <5>3. QED BY <2>3, <4>1, <4>2, <5>1, <5>2 DEF PlaceInv
      <4>5. QED BY <4>3, <4>4
    <3>3. QED BY <2>2, <3>2 DEF OnceInv
  <2>6. QED BY <2>4, <2>5
<1>5. QED BY <1>1, <1>2, <1>3, <1>4 DEF DigestStep

LEMMA OnceForget ==
    ASSUME TypeInv, OnceInv, NEW c \in Cases, ForgetQueue(c)
    PROVE  OnceInv'
<1>0. \A n \in Notice : n[2] \in Cases BY DEF Notice
<1>1. \A b \in Cases : stage'[b] = "none" => stage[b] = "none"
  BY DEF ForgetQueue, ForgetNotice, TypeInv, TypeOK
<1>2. queue' \subseteq queue /\ UNCHANGED <<due, held, told, again>>
  BY DEF ForgetQueue, ForgetNotice, digest, toldOf
<1>3. ASSUME NEW n \in Notice PROVE PlaceInv(n)'
  <2>1. PlaceInv(n) BY DEF OnceInv
  <2>2. QED BY <1>0, <1>1, <1>2, <2>1 DEF PlaceInv, InOnePlace, InHand, Untold
<1>4. QED BY <1>2, <1>3 DEF OnceInv

LEMMA OnceStep == TypeInv /\ OnceInv /\ [Next]_vars => OnceInv'
<1> SUFFICES ASSUME TypeInv, OnceInv, [Next]_vars PROVE OnceInv' OBVIOUS
<1>1. CASE UNCHANGED vars
  BY <1>1, PlacesKept DEF vars, events, redis, digest, toldOf
<1>2. ASSUME NEW c \in Cases, CaseStep(c) PROVE OnceInv'
  <2>1. CASE DeleteCase(c) \/ ForgetMarks(c) \/ ForgetFails(c)
    <3>1. UNCHANGED <<due, queue, digest, told, again>>
      BY <2>1 DEF DeleteCase, ForgetMarks, ForgetFails, redis, digest, toldOf
    <3>2. \A b \in Cases : stage'[b] = "none" => stage[b] = "none"
      BY <2>1 DEF DeleteCase, ForgetMarks, ForgetFails, TypeInv, TypeOK
    <3>3. QED BY <3>1, <3>2, PlacesKept
  <2>2. QED BY <1>2, <2>1, OnceArrives, OnceForget DEF CaseStep
<1>3. ASSUME NEW r \in Reminders, ReminderStep(r) PROVE OnceInv'
  <2>1. UNCHANGED <<events, queue, digest, toldOf>>
    BY <1>3 DEF ReminderStep, TakeLock, Select, CheckMark, Mail, Mark, CheckFails, Finish, Unlock,
                RunDies, redis
  <2>2. QED BY <2>1, PlacesKept DEF events, toldOf
<1>4. CASE Expiry
  <2>1. UNCHANGED <<events, queue, digest, toldOf>> BY <1>4 DEF Expiry, LockExpires, MarkExpires
  <2>2. QED BY <2>1, PlacesKept DEF events, toldOf
<1>5. QED BY <1>1, <1>2, <1>3, <1>4, StepKinds, OnceNotify, OnceDigest

LEMMA OnceInit == Init => OnceInv
<1> SUFFICES ASSUME Init PROVE OnceInv OBVIOUS
<1>1. ~again BY DEF Init
<1>2. ASSUME NEW n \in Notice PROVE PlaceInv(n)
  BY DEF Init, PlaceInv, InOnePlace, InHand, Untold
<1>3. QED BY <1>1, <1>2 DEF OnceInv

\* deliver_notification_digest and _requeue: no channel gets a notice twice, with any
\* number of replicas reading the queue and any channels failing.
THEOREM OnceCorrect == Spec => []ToldOnce
<1>1. OnceInv => ToldOnce BY DEF OnceInv, ToldOnce
<1>2. QED BY <1>1, OnceInit, OnceStep, TypeInvariant, PTL DEF Spec

----------------------------------------------------------------------------
(* Nothing is dropped *)

\* A notice with a digest, in the queue, lost to a fault or told.
Kept(n) == n \in due \/ n \in queue \/ n \in lost \/ (\E d \in Digests : n \in held[d]) \/ ToldOf(n)

KeptInv ==
    config.channels # {} => \A c \in Cases : stage[c] = "open" => Kept(<<"new_reports", c>>)

LEMMA ReportNotice == \A c \in Cases : <<"new_reports", c>> \in Notice /\ <<"new_reports", c>>[2] = c
BY DEF Notice, Kinds

\* A digest's step keeps what is kept.
LEMMA DigestKeeps ==
    ASSUME TypeInv, NEW d \in Digests, DigestStep(d), NEW n \in Notice, Kept(n)
    PROVE  Kept(n)'
<1>0. held[d] \in SUBSET Notice /\ held \in [Digests -> SUBSET Notice]
  BY DEF TypeInv, TypeOK
<1>a. due' = due /\ told \subseteq told' BY DEF DigestStep, ReadQueue, Requeue, DigestFails, Deliver,
                                               Sent, events, toldOf
<1>b. \A e \in Digests \ {d} : held'[e] = held[e]
  BY <1>0 DEF DigestStep, ReadQueue, Requeue, DigestFails, Deliver, DigestAt
<1>c. lost \subseteq lost'
  BY DEF DigestStep, ReadQueue, Requeue, DigestFails, Deliver, toldOf
<1>d. ToldOf(n) => ToldOf(n)' BY <1>a DEF ToldOf
<1>1. CASE n \in queue
  <2>1. CASE ReadQueue(d)
    <3>1. held'[d] = queue BY <1>0, <2>1 DEF ReadQueue, DigestAt
    <3>2. QED BY <1>1, <3>1 DEF Kept
  <2>2. CASE ~ReadQueue(d)
    <3>1. queue \subseteq queue' BY <2>2 DEF DigestStep, Requeue, DigestFails, Deliver, redis
    <3>2. QED BY <1>1, <3>1 DEF Kept
  <2>3. QED BY <2>1, <2>2
<1>2. CASE n \in held[d]
  <2>1. CASE ReadQueue(d) BY <1>2, <2>1 DEF ReadQueue, TypeInv, Busy
  <2>2. CASE Requeue(d)
    <3>1. CASE /\ queue' = queue \cup OfKind(held[d], "new_reports")
               /\ DigestAt(d, "messages", OfKind(held[d], "new_messages"))
      <4>1. n[1] \in {"new_reports", "new_messages"} BY DEF Notice, Kinds
      <4>2. held'[d] = OfKind(held[d], "new_messages") BY <1>0, <3>1 DEF DigestAt
      <4>3. QED BY <1>2, <3>1, <4>1, <4>2 DEF OfKind, Kept
    <3>2. CASE queue' = queue \cup held[d] BY <1>2, <3>2 DEF Kept
    <3>3. QED BY <2>2, <3>1, <3>2 DEF Requeue
  <2>3. CASE DigestFails(d) BY <1>2, <2>3 DEF DigestFails, Kept
  <2>4. ASSUME NEW ok \in SUBSET config.channels, Deliver(d, ok) PROVE Kept(n)'
    <3>1. CASE ok = {}
      <4>1. held'[d] = held[d] BY <1>0, <2>4, <3>1 DEF Deliver, DigestAt
      <4>2. QED BY <1>2, <4>1 DEF Kept
    <3>2. CASE ok # {}
      <4>1. PICK x \in ok : TRUE BY <3>2
      <4>2. x \in Channels BY ConstantsAssumption DEF TypeInv, TypeOK
      <4>3. <<x, n>> \in told' BY <1>2, <2>4 DEF Deliver, Sent
      <4>4. QED BY <4>2, <4>3 DEF Kept, ToldOf
    <3>3. QED BY <3>1, <3>2
  <2>5. QED BY <2>1, <2>2, <2>3, <2>4 DEF DigestStep
<1>3. QED BY <1>a, <1>b, <1>c, <1>d, <1>1, <1>2 DEF Kept

LEMMA NotifyKeeps ==
    ASSUME TypeInv, NEW m \in Notice, Notify(m), config.channels # {}, NEW n \in Notice, Kept(n)
    PROVE  Kept(n)'
<1>1. held' = held /\ due \subseteq due' \cup {m} BY DEF Notify, digest
<1>2. queue \subseteq queue' /\ lost \subseteq lost' /\ told \subseteq told' BY DEF Notify, Sent
<1>3. m \in queue' \/ m \in lost' \/ ToldOf(m)'
  <2>1. CASE config.batched BY <2>1 DEF Notify
  <2>2. CASE ~config.batched
    <3>1. PICK ok \in SUBSET config.channels :
             Sent(ok, {m}) /\ lost' = IF ok = {} THEN lost \cup {m} ELSE lost
      BY <2>2 DEF Notify
    <3>2. CASE ok = {} BY <3>1, <3>2
    <3>3. CASE ok # {}
      <4>1. PICK x \in ok : TRUE BY <3>3
      <4>2. x \in Channels BY ConstantsAssumption DEF TypeInv, TypeOK
      <4>3. <<x, m>> \in told' BY <3>1 DEF Sent
      <4>4. QED BY <4>2, <4>3 DEF ToldOf
    <3>4. QED BY <3>2, <3>3
  <2>3. QED BY <2>1, <2>2
<1>4. QED BY <1>1, <1>2, <1>3 DEF Kept, ToldOf

LEMMA KeptStep == TypeInv /\ KeptInv /\ [Next]_vars => KeptInv'
<1> SUFFICES ASSUME TypeInv, KeptInv, [Next]_vars PROVE KeptInv' OBVIOUS
<1>0. config' = config
  BY DEF Next, vars, events, Arrives, Replies, DeleteCase, ForgetQueue, ForgetNotice, ForgetMarks,
         ForgetFails, Notify, ReadQueue, Requeue, DigestFails, Deliver, TakeLock, Select, CheckMark,
         Mail, Mark, CheckFails, Finish, Unlock, RunDies, MarkExpires, LockExpires
<1> SUFFICES ASSUME config.channels # {}, NEW c \in Cases, stage'[c] = "open"
             PROVE  Kept(<<"new_reports", c>>)'
  BY <1>0 DEF KeptInv
<1> DEFINE n == <<"new_reports", c>>
<1>a. n \in Notice BY ReportNotice
<1>b. stage[c] = "open" => Kept(n) BY DEF KeptInv
<1>1. CASE UNCHANGED <<events, queue, digest, toldOf>>
  BY <1>b, <1>1 DEF events, digest, toldOf, Kept, ToldOf
<1>2. ASSUME NEW b \in Cases, CaseStep(b) PROVE Kept(n)'
  <2>1. held' = held /\ lost' = lost /\ told' = told /\ due \subseteq due'
    BY <1>2 DEF CaseStep, Arrives, Replies, DeleteCase, ForgetQueue, ForgetNotice, ForgetMarks,
                ForgetFails, digest, toldOf
  <2>2. CASE Arrives(b) /\ b = c BY <2>2 DEF Arrives, Kept
  <2>3. CASE ~(Arrives(b) /\ b = c)
    <3>1. stage[c] = "open"
      BY <1>2, <2>3 DEF CaseStep, Arrives, Replies, DeleteCase, ForgetQueue, ForgetNotice,
                        ForgetMarks, ForgetFails, TypeInv, TypeOK
    <3>2. n \in queue => n \in queue'
      BY <1>2, <3>1 DEF CaseStep, Arrives, Replies, DeleteCase, ForgetQueue, ForgetNotice,
                        ForgetMarks, ForgetFails, redis
    <3>3. QED BY <1>b, <2>1, <3>1, <3>2 DEF Kept, ToldOf
  <2>4. QED BY <2>2, <2>3
<1>3. ASSUME NEW m \in Notice, Notify(m) PROVE Kept(n)'
  <2>1. stage' = stage BY <1>3 DEF Notify
  <2>2. QED BY <1>a, <1>b, <1>3, <2>1, NotifyKeeps
<1>4. ASSUME NEW d \in Digests, DigestStep(d) PROVE Kept(n)'
  <2>1. stage' = stage BY <1>4 DEF DigestStep, ReadQueue, Requeue, DigestFails, Deliver, events
  <2>2. QED BY <1>a, <1>b, <1>4, <2>1, DigestKeeps
<1>5. ASSUME NEW r \in Reminders, ReminderStep(r) PROVE Kept(n)'
  BY <1>1, <1>5 DEF ReminderStep, TakeLock, Select, CheckMark, Mail, Mark, CheckFails, Finish,
                    Unlock, RunDies, redis
<1>6. CASE Expiry BY <1>1, <1>6 DEF Expiry, LockExpires, MarkExpires
<1>7. CASE UNCHANGED vars BY <1>1, <1>7 DEF vars, redis
<1>8. QED BY <1>2, <1>3, <1>4, <1>5, <1>6, <1>7, StepKinds

\* _deliver and _requeue: the notice of a report that is there is with its event, in
\* the queue, with a digest or told, unless a fault has lost it.
THEOREM KeptCorrect == Spec => []NothingLost
<1>1. Init => KeptInv BY DEF Init, KeptInv
<1>2. KeptInv => NothingLost BY DEF KeptInv, NothingLost, Kept
<1>3. QED BY <1>1, <1>2, KeptStep, TypeInvariant, PTL DEF Spec

----------------------------------------------------------------------------
(* Notices implement the outbox *)

LEMMA WaitingIs == \A n : n \in Waiting <=> n \in queue \/ InHand(n)
BY DEF Waiting, InHand

LEMMA WaitingIsNext == \A n : n \in Waiting' <=> n \in queue' \/ InHand(n)'
BY DEF Waiting, InHand

\* A notice in a digest's hands is neither queued nor due, nor with another digest.
LEMMA OnlyHeld ==
    ASSUME TypeInv, OnceInv, NEW d \in Digests
    PROVE  /\ held[d] \in SUBSET Notice
           /\ \A n \in held[d] : /\ n \in Waiting /\ Untold(n) /\ n \notin due \cup queue
                                 /\ \A e \in Digests : n \in held[e] => e = d
<1>1. held[d] \in SUBSET Notice BY DEF TypeInv, TypeOK
<1>2. ASSUME NEW n \in held[d]
      PROVE  /\ n \in Waiting /\ Untold(n) /\ n \notin due \cup queue
             /\ \A e \in Digests : n \in held[e] => e = d
  <2>1. n \in Notice /\ InHand(n) BY <1>1, <1>2 DEF InHand
  <2>2. PlaceInv(n) BY <2>1 DEF OnceInv
  <2>3. QED BY <1>2, <2>1, <2>2, WaitingIs DEF PlaceInv, InOnePlace
<1>3. QED BY <1>1, <1>2

LEMMA ReportsStay ==
    ASSUME UNCHANGED stage
    PROVE  [c \in Cases |-> ReportOf(c)]' = [c \in Cases |-> ReportOf(c)]
BY DEF ReportOf

\* A step the outbox does not notice.
LEMMA OutboxStill ==
    ASSUME UNCHANGED <<config, told, lost>>, Waiting' = Waiting,
           [c \in Cases |-> ReportOf(c)]' = [c \in Cases |-> ReportOf(c)]
    PROVE  UNCHANGED Outbox!vars
BY DEF Outbox!vars

LEMMA CaseOutbox ==
    ASSUME TypeInv, OnceInv, NEW c \in Cases, CaseStep(c)
    PROVE  [Outbox!Next]_(Outbox!vars)
<1> DEFINE R == [b \in Cases |-> ReportOf(b)]
<1>0. config' = config /\ told' = told /\ lost' = lost /\ held' = held
  BY DEF CaseStep, Arrives, Replies, DeleteCase, ForgetQueue, ForgetNotice, ForgetMarks, ForgetFails,
         toldOf, digest
<1>a. config.channels \subseteq Channels BY ConstantsAssumption DEF TypeInv, TypeOK
<1>1. ASSUME NEW l \in Stages, stage' = [stage EXCEPT ![c] = l]
      PROVE  \A b \in Cases : R'[b] = IF b # c THEN R[b]
                                      ELSE IF l = "none" THEN "none" ELSE IF l = "open" THEN "there" ELSE "deleted"
  BY <1>1 DEF ReportOf, TypeInv, TypeOK
<1>2. CASE Arrives(c)
  <2>1. Waiting' = Waiting \cup {<<"new_reports", c>>}
    BY <1>0, <1>2, WaitingIs, WaitingIsNext DEF Arrives, InHand, redis
  <2>2. R[c] = "none" BY <1>2 DEF Arrives, ReportOf
  <2>3. R' = [R EXCEPT ![c] = "there"] BY <1>1, <1>2 DEF Arrives, Stages
  <2>4. Outbox!Arrive(c) BY <1>0, <2>1, <2>2, <2>3 DEF Outbox!Arrive
  <2>5. QED BY <2>4 DEF Outbox!Next
<1>3. CASE Replies(c)
  <2> DEFINE n == <<"new_messages", c>>
  <2>1. Waiting' = Waiting \cup {n}
    BY <1>0, <1>3, WaitingIs, WaitingIsNext DEF Replies, InHand, redis
  <2>2. n \notin Waiting \cup lost /\ \A x \in config.channels : <<x, n>> \notin told
    BY <1>a, <1>3, WaitingIs DEF Replies, InHand
  <2>3. R[c] = "there" BY <1>3 DEF Replies, ReportOf
  <2>4. R' = R BY <1>3, ReportsStay DEF Replies
  <2>5. Outbox!Reply(c) BY <1>0, <2>1, <2>2, <2>3, <2>4 DEF Outbox!Reply
  <2>6. QED BY <2>5 DEF Outbox!Next
<1>4. CASE DeleteCase(c)
  <2>1. Waiting' = Waiting
    BY <1>0, <1>4, WaitingIs, WaitingIsNext DEF DeleteCase, InHand, redis
  <2>2. R[c] = "there" BY <1>4 DEF DeleteCase, ReportOf
  <2>3. R' = [R EXCEPT ![c] = "deleted"] BY <1>1, <1>4 DEF DeleteCase, Stages
  <2>4. Outbox!Delete(c) BY <1>0, <2>1, <2>2, <2>3 DEF Outbox!Delete
  <2>5. QED BY <2>4 DEF Outbox!Next
<1>5. ASSUME NEW k \in Kinds, NEW l \in {"messages", "marks"}, ForgetNotice(c, k, l),
             stage[c] \in {"reports", "messages"}
      PROVE  [Outbox!Next]_(Outbox!vars)
  <2> DEFINE n == <<k, c>>
  <2>1. n \in Notice BY DEF Notice
  <2>2. R[c] = "deleted" BY <1>5 DEF ReportOf
  <2>3. R' = R BY <1>1, <1>5, <2>2 DEF ForgetNotice, Stages
  <2>4. queue' = queue \ {n} /\ due' = due BY <1>5 DEF ForgetNotice
  <2>5. CASE n \in queue
    <3>1. ~InHand(n) BY <2>1, <2>5 DEF OnceInv, PlaceInv, InOnePlace, InHand
    <3>2. Waiting' = Waiting \ {n} /\ n \in Waiting
      BY <1>0, <2>4, <2>5, <3>1, WaitingIs, WaitingIsNext DEF InHand
    <3>3. Outbox!Withdraw(n) BY <1>0, <2>2, <2>3, <3>2 DEF Outbox!Withdraw
    <3>4. QED BY <2>1, <3>3 DEF Outbox!Next, Outbox!Notice, Notice
  <2>6. CASE n \notin queue
    <3>1. Waiting' = Waiting BY <1>0, <2>4, <2>6, WaitingIs, WaitingIsNext DEF InHand
    <3>2. QED BY <1>0, <2>3, <3>1, OutboxStill
  <2>7. QED BY <2>5, <2>6
<1>6. CASE ForgetMarks(c) \/ ForgetFails(c)
  <2>1. Waiting' = Waiting
    BY <1>0, <1>6, WaitingIs, WaitingIsNext DEF ForgetMarks, ForgetFails, InHand, redis
  <2>2. stage[c] \in {"reports", "messages", "marks"} BY <1>6 DEF ForgetMarks, ForgetFails
  <2>3. R[c] = "deleted" BY <2>2 DEF ReportOf
  <2>4. R' = R BY <1>1, <1>6, <2>3 DEF ForgetMarks, ForgetFails, Stages
  <2>5. QED BY <1>0, <2>1, <2>4, OutboxStill
<1>7. QED BY <1>2, <1>3, <1>4, <1>5, <1>6 DEF CaseStep, ForgetQueue, Kinds

LEMMA NotifyOutbox ==
    ASSUME TypeInv, OnceInv, NEW n \in Notice, Notify(n)
    PROVE  [Outbox!Next]_(Outbox!vars)
<1> DEFINE R == [b \in Cases |-> ReportOf(b)]
<1>0. n \in due /\ due' = due \ {n} /\ UNCHANGED <<config, stage, held>> BY DEF Notify, digest
<1>1. /\ n \in Waiting /\ Untold(n) /\ n \notin queue
      /\ \A d \in Digests : n \notin held[d]
  BY <1>0, WaitingIs DEF OnceInv, PlaceInv, InOnePlace, InHand
<1>2. R' = R BY <1>0, ReportsStay
<1>3. queue' = queue => Waiting' = Waiting \ {n}
  BY <1>0, <1>1, WaitingIs, WaitingIsNext DEF InHand
<1>4. {n} \in SUBSET Notice /\ Outbox!Notice = Notice BY DEF Outbox!Notice, Notice
<1>5. CASE config.channels = {} /\ UNCHANGED <<queue, told, lost>>
  <2>1. Outbox!Withdraw(n) BY <1>0, <1>1, <1>2, <1>3, <1>5 DEF Outbox!Withdraw
  <2>2. QED BY <1>4, <2>1 DEF Outbox!Next
<1>6. CASE queue' = queue \cup {n} /\ UNCHANGED <<told, lost>>
  <2>1. Waiting' = Waiting BY <1>0, <1>1, <1>6, WaitingIs, WaitingIsNext DEF InHand
  <2>2. QED BY <1>0, <1>2, <1>6, <2>1, OutboxStill
<1>7. CASE lost' = lost \cup {n} /\ UNCHANGED <<queue, told>>
  <2>1. Outbox!Lose({n}) BY <1>0, <1>1, <1>2, <1>3, <1>7 DEF Outbox!Lose
  <2>2. QED BY <1>4, <2>1 DEF Outbox!Next
<1>8. ASSUME NEW ok \in SUBSET config.channels, ok # {}, told' = told \cup (ok \X {n}),
             UNCHANGED <<queue, lost>>
      PROVE  [Outbox!Next]_(Outbox!vars)
  <2>1. told \cap (ok \X {n}) = {}
    BY <1>1, ConstantsAssumption DEF Untold, TypeInv, TypeOK
  <2>2. Outbox!Tell({n}, ok) BY <1>0, <1>1, <1>2, <1>3, <1>8, <2>1 DEF Outbox!Tell
  <2>3. QED BY <1>4, <2>2 DEF Outbox!Next
<1>9. QED
  <2>1. ASSUME NEW ok \in SUBSET config.channels, Sent(ok, {n}),
               lost' = IF ok = {} THEN lost \cup {n} ELSE lost, queue' = queue
        PROVE  [Outbox!Next]_(Outbox!vars)
    <3>1. told' = told \cup (ok \X {n}) BY <2>1 DEF Sent
    <3>2. CASE ok = {}
      <4>1. told' = told BY <3>1, <3>2
      <4>2. QED BY <1>7, <2>1, <3>2, <4>1
    <3>3. CASE ok # {} BY <1>8, <2>1, <3>1, <3>3
    <3>4. QED BY <3>2, <3>3
  <2>2. QED BY <1>5, <1>6, <1>7, <2>1 DEF Notify

LEMMA DigestOutbox ==
    ASSUME TypeInv, OnceInv, NEW d \in Digests, DigestStep(d)
    PROVE  [Outbox!Next]_(Outbox!vars)
<1> DEFINE R == [b \in Cases |-> ReportOf(b)]
<1>0. config' = config /\ stage' = stage /\ due' = due
  BY DEF DigestStep, ReadQueue, Requeue, DigestFails, Deliver, events
<1>1. R' = R BY <1>0, ReportsStay
<1>2. Outbox!Notice = Notice BY DEF Outbox!Notice, Notice
<1>3. ASSUME NEW l, NEW ns, DigestAt(d, l, ns)
      PROVE  held'[d] = ns /\ \A e \in Digests \ {d} : held'[e] = held[e]
  BY <1>3 DEF DigestAt, TypeInv, TypeOK
<1>4. CASE ReadQueue(d)
  <2>1. held'[d] = queue /\ \A e \in Digests \ {d} : held'[e] = held[e] BY <1>3, <1>4 DEF ReadQueue
  <2>2. held[d] = {} /\ queue' = {} BY <1>4 DEF ReadQueue, TypeInv, Busy
  <2>3. Waiting' = Waiting BY <1>0, <2>1, <2>2, WaitingIs, WaitingIsNext DEF InHand
  <2>4. QED BY <1>0, <1>1, <1>4, <2>3, OutboxStill DEF ReadQueue, toldOf
<1>5. CASE Requeue(d)
  <2>1. PICK ns \in SUBSET held[d] : /\ queue' = queue \cup (held[d] \ ns)
                                     /\ held'[d] = ns
                                     /\ \A e \in Digests \ {d} : held'[e] = held[e]
    <3>1. CASE /\ queue' = queue \cup OfKind(held[d], "new_reports")
               /\ DigestAt(d, "messages", OfKind(held[d], "new_messages"))
      <4>1. OfKind(held[d], "new_reports") = held[d] \ OfKind(held[d], "new_messages")
        BY OnlyHeld DEF OfKind, Notice, Kinds
      <4>2. OfKind(held[d], "new_messages") \in SUBSET held[d] BY DEF OfKind
      <4>3. QED BY <1>3, <3>1, <4>1, <4>2
    <3>2. CASE queue' = queue \cup held[d] /\ DigestAt(d, "idle", {})
      <4>1. held[d] \ {} = held[d] OBVIOUS
      <4>2. QED BY <1>3, <3>2, <4>1
    <3>3. QED BY <1>5, <3>1, <3>2 DEF Requeue
  <2>2. Waiting' = Waiting BY <1>0, <2>1, WaitingIs, WaitingIsNext DEF InHand
  <2>3. QED BY <1>0, <1>1, <1>5, <2>2, OutboxStill DEF Requeue, toldOf
\* What the digest held leaves the outbox.
<1>6. ASSUME held'[d] = {}, \A e \in Digests \ {d} : held'[e] = held[e], queue' = queue
      PROVE  Waiting' = Waiting \ held[d]
  <2>1. ASSUME NEW n PROVE n \in Waiting' <=> n \in Waiting \ held[d]
    BY <1>0, <1>6, OnlyHeld, WaitingIs, WaitingIsNext DEF InHand
  <2>2. QED BY <2>1
<1>7. CASE DigestFails(d)
  <2>1. Waiting' = Waiting \ held[d] BY <1>3, <1>6, <1>7 DEF DigestFails, redis
  <2>2. held[d] \subseteq Waiting /\ held[d] \in SUBSET Notice BY OnlyHeld
  <2>3. Outbox!Lose(held[d]) BY <1>0, <1>1, <1>7, <2>1, <2>2 DEF DigestFails, Outbox!Lose
  <2>4. QED BY <1>2, <2>2, <2>3 DEF Outbox!Next
<1>8. ASSUME NEW ok \in SUBSET config.channels, Deliver(d, ok)
      PROVE  [Outbox!Next]_(Outbox!vars)
  <2>1. /\ told' = told \cup (ok \X held[d]) /\ lost' = lost /\ queue' = queue
    BY <1>8 DEF Deliver, Sent, redis
  <2>2. CASE ok = {}
    <3>1. held'[d] = held[d] /\ \A e \in Digests \ {d} : held'[e] = held[e]
      BY <1>3, <1>8, <2>2 DEF Deliver
    <3>2. Waiting' = Waiting BY <1>0, <2>1, <3>1, WaitingIs, WaitingIsNext DEF InHand
    <3>3. told' = told BY <2>1, <2>2
    <3>4. QED BY <1>0, <1>1, <2>1, <3>2, <3>3, OutboxStill
  <2>3. CASE ok # {}
    <3>1. Waiting' = Waiting \ held[d] BY <1>3, <1>6, <1>8, <2>1, <2>3 DEF Deliver
    <3>2. held[d] \subseteq Waiting /\ held[d] \in SUBSET Notice BY OnlyHeld
    <3>3. told \cap (ok \X held[d]) = {}
      BY OnlyHeld, ConstantsAssumption DEF Untold, TypeInv, TypeOK
    <3>4. Outbox!Tell(held[d], ok) BY <1>0, <1>1, <2>1, <2>3, <3>1, <3>2, <3>3 DEF Outbox!Tell
    <3>5. QED BY <1>2, <3>2, <3>4 DEF Outbox!Next
  <2>4. QED BY <2>2, <2>3
<1>9. QED BY <1>4, <1>5, <1>7, <1>8 DEF DigestStep

LEMMA OutboxStep ==
    ASSUME TypeInv, OnceInv, [Next]_vars
    PROVE  [Outbox!Next]_(Outbox!vars)
<1>1. CASE UNCHANGED <<events, queue, digest, toldOf>>
  <2>1. Waiting' = Waiting BY <1>1, WaitingIs, WaitingIsNext DEF events, digest, InHand
  <2>2. QED BY <1>1, <2>1, OutboxStill, ReportsStay DEF events, toldOf
<1>2. ASSUME NEW r \in Reminders, ReminderStep(r) PROVE [Outbox!Next]_(Outbox!vars)
  BY <1>1, <1>2 DEF ReminderStep, TakeLock, Select, CheckMark, Mail, Mark, CheckFails, Finish,
                    Unlock, RunDies, redis
<1>3. CASE Expiry BY <1>1, <1>3 DEF Expiry, LockExpires, MarkExpires
<1>4. CASE UNCHANGED vars BY <1>1, <1>4 DEF vars, redis
<1>5. QED BY <1>2, <1>3, <1>4, StepKinds, CaseOutbox, NotifyOutbox, DigestOutbox

LEMMA OutboxInit == Init => Outbox!Init
<1> SUFFICES ASSUME Init PROVE Outbox!Init OBVIOUS
<1>1. Waiting = {} BY DEF Init, Waiting
<1>2. [c \in Cases |-> ReportOf(c)] = [c \in Cases |-> "none"] BY DEF Init, ReportOf
<1>3. QED BY <1>1, <1>2 DEF Init, Outbox!Init

\* _queue_or_send, deliver_notification_digest, _requeue and forget_case together are
\* one outbox: whatever replicas read the queue, die or find the channels down, a notice
\* that was told, lost or withdrawn does not come back, and nothing else ends its wait.
THEOREM OutboxCorrect == Spec => ImplementsOutbox
<1>1. OnceInv /\ TypeInv /\ [Next]_vars => [Outbox!Next]_(Outbox!vars) BY OutboxStep
<1>2. QED BY <1>1, OutboxInit, OnceInit, OnceStep, TypeInvariant, PTL
          DEF Spec, ImplementsOutbox, Outbox!Spec

----------------------------------------------------------------------------
(* A reminder comes once in its window *)

\* While every run has kept within its lock and none has failed between mail and
\* mark: who runs holds the lock, so there is one run; what was mailed lately is
\* marked or about to be; and what is about to be mailed was not mailed lately.
RunInv ==
    /\ \A r \in Reminders : rpc[r] # "idle" => lock = r
    /\ \A i \in recent : i \in marks \/ \E r \in Reminders : rpc[r] = "mark" /\ item[r] = i
    /\ \A r \in Reminders : rpc[r] = "mail" => item[r] \notin recent

RemindInv == ~twice /\ (~excused => RunInv)

LEMMA RunKept ==
    ASSUME TypeInv, RemindInv, UNCHANGED <<lock, marks, remind, remindOf>>
    PROVE  RemindInv'
BY DEF RemindInv, RunInv, remind, remindOf

LEMMA RemindedRun ==
    ASSUME TypeInv, RemindInv, NEW r \in Reminders, ReminderStep(r)
    PROVE  RemindInv'
<1>0. todo[r] \in SUBSET Item /\ item[r] \in Item \cup {None} /\ lock \in Reminders \cup {None}
  BY DEF TypeInv, TypeOK
<1>n. None \notin Reminders /\ None \notin Item BY ConstantsAssumption
<1>a. rpc[r] \in {"mail", "mark"} => item[r] \in Item BY DEF TypeInv, Busy
<1>m. ASSUME NEW l, NEW is, NEW i, RunAt(r, l, is, i)
      PROVE  /\ rpc'[r] = l /\ item'[r] = i
             /\ \A q \in Reminders \ {r} : rpc'[q] = rpc[q] /\ item'[q] = item[q]
  BY <1>m DEF RunAt, TypeInv, TypeOK
<1>1. CASE excused
  <2>1. excused' /\ twice' = twice
    BY <1>1 DEF ReminderStep, TakeLock, Select, CheckMark, Mail, Mark, CheckFails, Finish, Unlock,
                RunDies, remindOf, TypeInv, TypeOK
  <2>2. QED BY <2>1 DEF RemindInv
<1>2. CASE ~excused
  <2>0. RunInv /\ ~twice BY <1>2 DEF RemindInv
  <2>a. rpc[r] # "idle" => lock = r /\ \A q \in Reminders \ {r} : rpc[q] = "idle"
    BY <2>0 DEF RunInv
  <2>1. CASE TakeLock(r)
    <3>1. rpc'[r] = "select" /\ \A q \in Reminders \ {r} : rpc'[q] = rpc[q] /\ item'[q] = item[q]
      BY <1>m, <2>1 DEF TakeLock
    <3>2. \A q \in Reminders : rpc[q] = "idle" BY <1>n, <2>0, <2>1 DEF TakeLock, RunInv
    <3>3. QED BY <2>0, <2>1, <3>1, <3>2 DEF TakeLock, remindOf, RemindInv, RunInv
  <2>2. CASE Select(r) \/ Finish(r)
    <3>1. /\ rpc'[r] \in {"next", "unlock"} /\ rpc[r] \in {"select", "next"}
          /\ \A q \in Reminders \ {r} : rpc'[q] = rpc[q] /\ item'[q] = item[q]
      BY <1>m, <2>2 DEF Select, Finish
    <3>2. QED BY <2>0, <2>a, <2>2, <3>1 DEF Select, Finish, redis, remindOf, RemindInv, RunInv
  <2>3. CASE CheckMark(r)
    <3>1. PICK i \in Upcoming(r) :
             IF i \in marks THEN RunAt(r, "next", todo[r] \ {i}, None)
                            ELSE RunAt(r, "mail", todo[r] \ {i}, i)
      BY <2>3 DEF CheckMark
    <3>2. /\ rpc'[r] = "next" \/ (rpc'[r] = "mail" /\ item'[r] = i /\ i \notin marks)
          /\ \A q \in Reminders \ {r} : rpc'[q] = rpc[q] /\ item'[q] = item[q]
      BY <1>m, <3>1
    <3>3. i \notin marks => i \notin recent BY <2>0, <2>a, <2>3 DEF CheckMark, RunInv
    <3>4. QED BY <2>0, <2>a, <2>3, <3>2, <3>3 DEF CheckMark, redis, remindOf, RemindInv, RunInv
  <2>4. CASE Mail(r)
    <3>1. CASE RunAt(r, "mark", todo[r], item[r]) /\ recent' = recent \cup {item[r]}
               /\ twice' = (twice \/ (~excused /\ item[r] \in recent))
      <4>1. /\ rpc'[r] = "mark" /\ item'[r] = item[r]
            /\ \A q \in Reminders \ {r} : rpc'[q] = rpc[q] /\ item'[q] = item[q]
        BY <1>m, <3>1
      <4>2. item[r] \notin recent BY <2>0, <2>4 DEF Mail, RunInv
      <4>3. ~twice' BY <2>0, <3>1, <4>2
      <4>4. RunInv' BY <2>0, <2>a, <2>4, <3>1, <4>1 DEF Mail, redis, RunInv
      <4>5. QED BY <4>3, <4>4 DEF RemindInv
    <3>2. CASE RunAt(r, "next", todo[r], None) /\ UNCHANGED <<recent, twice>>
      <4>1. rpc'[r] = "next" /\ \A q \in Reminders \ {r} : rpc'[q] = rpc[q] /\ item'[q] = item[q]
        BY <1>m, <3>2
      <4>2. QED BY <2>0, <2>a, <2>4, <3>2, <4>1 DEF Mail, redis, RemindInv, RunInv
    <3>3. QED BY <2>4, <3>1, <3>2 DEF Mail
  <2>5. CASE Mark(r)
    <3>1. rpc'[r] = "next" /\ \A q \in Reminders \ {r} : rpc'[q] = rpc[q] /\ item'[q] = item[q]
      BY <1>m, <2>5 DEF Mark
    <3>2. QED BY <2>0, <2>a, <2>5, <3>1 DEF Mark, remindOf, RemindInv, RunInv
  <2>6. CASE CheckFails(r)
    <3>1. CASE rpc[r] = "mark"
      BY <2>0, <2>6, <3>1 DEF CheckFails, RemindInv
    <3>2. CASE rpc[r] = "next"
      <4>1. rpc'[r] = "next" /\ \A q \in Reminders \ {r} : rpc'[q] = rpc[q] /\ item'[q] = item[q]
        BY <1>m, <2>6 DEF CheckFails
      <4>2. QED BY <2>0, <2>a, <2>6, <3>2, <4>1 DEF CheckFails, redis, RemindInv, RunInv
    <3>3. QED BY <2>6, <3>1, <3>2 DEF CheckFails
  <2>7. CASE Unlock(r)
    <3>1. rpc'[r] = "idle" /\ \A q \in Reminders \ {r} : rpc'[q] = rpc[q] /\ item'[q] = item[q]
      BY <1>m, <2>7 DEF Unlock
    <3>2. QED BY <2>0, <2>a, <2>7, <3>1 DEF Unlock, remindOf, RemindInv, RunInv
  <2>8. CASE RunDies(r)
    <3>1. CASE rpc[r] = "mark" BY <2>0, <2>8, <3>1 DEF RunDies, RemindInv
    <3>2. CASE rpc[r] # "mark"
      <4>1. rpc'[r] = "idle" /\ \A q \in Reminders \ {r} : rpc'[q] = rpc[q] /\ item'[q] = item[q]
        BY <1>m, <2>8 DEF RunDies
      <4>2. QED BY <2>0, <2>a, <2>8, <3>2, <4>1 DEF RunDies, redis, RemindInv, RunInv
    <3>3. QED BY <3>1, <3>2
  <2>9. QED BY <2>1, <2>2, <2>3, <2>4, <2>5, <2>6, <2>7, <2>8 DEF ReminderStep
<1>3. QED BY <1>1, <1>2

LEMMA RemindedExpiry ==
    ASSUME TypeInv, RemindInv, Expiry
    PROVE  RemindInv'
<1>1. CASE LockExpires
  <2>1. lock \in Reminders BY <1>1 DEF LockExpires, TypeInv, TypeOK
  <2>2. CASE excused \/ rpc[lock] # "idle" BY <1>1, <2>2 DEF LockExpires, RemindInv
  <2>3. CASE ~excused /\ rpc[lock] = "idle"
    <3>1. RunInv /\ \A r \in Reminders : rpc[r] = "idle" BY <2>1, <2>3 DEF RemindInv, RunInv
    <3>2. QED BY <1>1, <3>1 DEF LockExpires, remind, RemindInv, RunInv
  <2>4. QED BY <2>2, <2>3
<1>2. ASSUME NEW i \in Item, MarkExpires(i) PROVE RemindInv'
  BY <1>2 DEF MarkExpires, remind, RemindInv, RunInv
<1>3. QED BY <1>1, <1>2 DEF Expiry

LEMMA RemindedStep == TypeInv /\ RemindInv /\ [Next]_vars => RemindInv'
<1> SUFFICES ASSUME TypeInv, RemindInv, [Next]_vars PROVE RemindInv' OBVIOUS
<1>1. ASSUME NEW c \in Cases, CaseStep(c) PROVE RemindInv'
  <2>1. CASE ForgetMarks(c)
    BY <2>1 DEF ForgetMarks, remind, RemindInv, RunInv
  <2>2. CASE ~ForgetMarks(c)
    BY <1>1, <2>2, RunKept
    DEF CaseStep, Arrives, Replies, DeleteCase, ForgetQueue, ForgetNotice, ForgetFails, redis
  <2>3. QED BY <2>1, <2>2
<1>2. ASSUME NEW n \in Notice, Notify(n) PROVE RemindInv' BY <1>2, RunKept DEF Notify
<1>3. ASSUME NEW d \in Digests, DigestStep(d) PROVE RemindInv'
  BY <1>3, RunKept DEF DigestStep, ReadQueue, Requeue, DigestFails, Deliver, redis
<1>4. CASE UNCHANGED vars BY <1>4, RunKept DEF vars, redis
<1>5. QED BY <1>1, <1>2, <1>3, <1>4, StepKinds, RemindedRun, RemindedExpiry

\* send_sla_reminders: a deadline is reminded of once in its window, whatever runs
\* overlap in other ways than by outliving the lock or failing before the mark.
THEOREM RemindedCorrect == Spec => []RemindedOnce
<1>1. Init => RemindInv BY DEF Init, RemindInv, RunInv
<1>2. RemindInv => RemindedOnce BY DEF RemindInv, RemindedOnce
<1>3. QED BY <1>1, <1>2, RemindedStep, TypeInvariant, PTL DEF Spec

----------------------------------------------------------------------------
(* An erased case does not come back *)

Away(n) == ~InHand(n) /\ n \notin queue

\* What forget_case has been through is clear of the case, and stays so: every
\* command finds the notice or the mark in nobody's hands, or the case is stale.
Cleared(c) ==
    /\ stage[c] \in {"messages", "marks", "forgotten"} => Away(<<"new_reports", c>>)
    /\ stage[c] \in {"marks", "forgotten"} => Away(<<"new_messages", c>>)
    /\ stage[c] = "forgotten" => c \notin named /\ ~Holds(c, marks) /\ ~Reminding(c)

ErasedInv ==
    /\ \A c \in named : stage[c] = "forgotten"
    /\ \A c \in Cases \ stale : Cleared(c)

LEMMA CaseNotices ==
    ASSUME NEW n \in Notice
    PROVE  n[2] \in Cases /\ n \in {<<"new_reports", n[2]>>, <<"new_messages", n[2]>>}
BY DEF Notice, Kinds

\* A digest and its sending bring nothing near a case that was away from it.
LEMMA SentElsewhere ==
    ASSUME TypeInv, ErasedInv, NEW ok, NEW ns \in SUBSET Notice, Sent(ok, ns),
           \A n \in ns : InHand(n), stage' = stage
    PROVE  /\ \A c \in named' : stage'[c] = "forgotten"
           /\ \A c \in Cases \ stale : c \notin named => c \notin named'
<1>1. \A c \in named' \ named : stage[c] = "forgotten" /\ \E k \in Kinds : <<k, c>> \in ns
  BY DEF Sent
<1>2. ASSUME NEW c \in Cases \ stale, c \notin named, c \in named' PROVE FALSE
  <2>1. PICK k \in Kinds : <<k, c>> \in ns BY <1>1, <1>2
  <2>2. InHand(<<k, c>>) BY <2>1
  <2>3. k \in {"new_reports", "new_messages"} BY DEF Kinds
  <2>4. Cleared(c) /\ stage[c] = "forgotten" BY <1>1, <1>2 DEF ErasedInv
  <2>5. QED BY <2>2, <2>3, <2>4 DEF Cleared, Away
<1>3. QED BY <1>1, <1>2 DEF ErasedInv

LEMMA ClearedKept ==
    ASSUME TypeInv, NEW c \in Cases, Cleared(c), stage'[c] = stage[c],
           \A k \in Kinds : Away(<<k, c>>) => Away(<<k, c>>)',
           stage[c] = "forgotten" /\ c \notin named => c \notin named',
           stage[c] = "forgotten" /\ ~Holds(c, marks) => ~Holds(c, marks'),
           stage[c] = "forgotten" /\ ~Reminding(c) => ~Reminding(c)'
    PROVE  Cleared(c)'
<1>1. /\ Away(<<"new_reports", c>>) => Away(<<"new_reports", c>>)'
      /\ Away(<<"new_messages", c>>) => Away(<<"new_messages", c>>)'
  BY DEF Kinds
<1>2. stage[c] = "forgotten" => ~Holds(c, marks)' BY DEF Cleared, Holds
<1>3. QED BY <1>1, <1>2 DEF Cleared

LEMMA ErasedDigest ==
    ASSUME TypeInv, ErasedInv, NEW d \in Digests, DigestStep(d)
    PROVE  ErasedInv'
<1>0. held[d] \in SUBSET Notice /\ held \in [Digests -> SUBSET Notice] BY DEF TypeInv, TypeOK
<1>1. UNCHANGED <<stage, due, marks, rpc, todo, item, stale>>
  BY DEF DigestStep, ReadQueue, Requeue, DigestFails, Deliver, events, redis, remind, erased
<1>2. \A n : n \in queue' \/ n \in held'[d] => n \in queue \/ n \in held[d]
  <2>1. CASE ReadQueue(d) BY <1>0, <2>1 DEF ReadQueue, DigestAt
  <2>2. CASE Requeue(d) BY <1>0, <2>2 DEF Requeue, DigestAt, OfKind
  <2>3. CASE DigestFails(d) BY <1>0, <2>3 DEF DigestFails, DigestAt, redis
  <2>4. ASSUME NEW ok \in SUBSET config.channels, Deliver(d, ok)
        PROVE  \A n : n \in queue' \/ n \in held'[d] => n \in queue \/ n \in held[d]
    BY <1>0, <2>4 DEF Deliver, DigestAt, redis
  <2>5. QED BY <2>1, <2>2, <2>3, <2>4 DEF DigestStep
<1>3. \A e \in Digests \ {d} : held'[e] = held[e]
  BY <1>0 DEF DigestStep, ReadQueue, Requeue, DigestFails, Deliver, DigestAt
<1>4. \A n : Away(n) => Away(n)' BY <1>1, <1>2, <1>3 DEF Away, InHand
<1>5. /\ \A c \in named' : stage'[c] = "forgotten"
      /\ \A c \in Cases \ stale : c \notin named => c \notin named'
  <2>1. CASE named' = named BY <1>1, <2>1 DEF ErasedInv
  <2>2. ASSUME NEW ok \in SUBSET config.channels, Deliver(d, ok)
        PROVE  /\ \A c \in named' : stage'[c] = "forgotten"
               /\ \A c \in Cases \ stale : c \notin named => c \notin named'
    <3>1. \A n \in held[d] : InHand(n) BY DEF InHand
    <3>2. Sent(ok, held[d]) BY <2>2 DEF Deliver
    <3>3. QED BY <1>0, <1>1, <3>1, <3>2, SentElsewhere
  <2>3. QED BY <2>1, <2>2 DEF DigestStep, ReadQueue, Requeue, DigestFails, erased
<1>6. ASSUME NEW c \in Cases \ stale PROVE Cleared(c)'
  <2>1. Cleared(c) BY DEF ErasedInv
  <2>2. Reminding(c)' <=> Reminding(c) BY <1>1 DEF Reminding, Holds
  <2>3. QED BY <1>1, <1>4, <1>5, <2>1, <2>2, ClearedKept
<1>7. QED BY <1>1, <1>5, <1>6 DEF ErasedInv

LEMMA ErasedNotify ==
    ASSUME TypeInv, ErasedInv, NEW m \in Notice, Notify(m)
    PROVE  ErasedInv'
<1>1. UNCHANGED <<stage, marks, held, rpc, todo, item, stale>> BY DEF Notify, digest, remind
<1>2. m \in due /\ due' = due \ {m} /\ queue' \subseteq queue \cup {m} BY DEF Notify
<1>3. \A n : Away(n) => Away(n)' BY <1>1, <1>2 DEF Away, InHand
<1>4. /\ \A c \in named' : stage'[c] = "forgotten"
      /\ \A c \in Cases \ stale : c \notin named => c \notin named'
  <2>1. CASE named' = named BY <1>1, <2>1 DEF ErasedInv
  <2>2. ASSUME NEW ok \in SUBSET config.channels, Sent(ok, {m})
        PROVE  /\ \A c \in named' : stage'[c] = "forgotten"
               /\ \A c \in Cases \ stale : c \notin named => c \notin named'
    <3>1. \A n \in {m} : InHand(n) BY <1>2 DEF InHand
    <3>2. QED BY <1>1, <2>2, <3>1, SentElsewhere
  <2>3. QED BY <2>1, <2>2 DEF Notify
<1>5. ASSUME NEW c \in Cases \ stale PROVE Cleared(c)'
  <2>1. Cleared(c) BY DEF ErasedInv
  <2>2. Reminding(c)' <=> Reminding(c) BY <1>1 DEF Reminding, Holds
  <2>3. QED BY <1>1, <1>3, <1>4, <2>1, <2>2, ClearedKept
<1>6. QED BY <1>1, <1>4, <1>5 DEF ErasedInv

\* What a run has in hand.
Hand(r) == todo[r] \cup ({item[r]} \ {None})

LEMMA ErasedRun ==
    ASSUME TypeInv, ErasedInv, NEW r \in Reminders, ReminderStep(r)
    PROVE  ErasedInv'
<1>0. todo[r] \in SUBSET Item /\ item[r] \in Item \cup {None} BY DEF TypeInv, TypeOK
<1>a. rpc[r] \in {"mail", "mark"} => item[r] \in Hand(r) /\ item[r] \in Item
  BY ConstantsAssumption DEF TypeInv, Busy, Hand
<1>1. UNCHANGED <<stage, due, queue, held, stale>>
  BY DEF ReminderStep, TakeLock, Select, CheckMark, Mail, Mark, CheckFails, Finish, Unlock, RunDies,
         events, redis, digest, erased
<1>m. ASSUME NEW l, NEW is, NEW i, RunAt(r, l, is, i)
      PROVE  /\ todo'[r] = is /\ item'[r] = i
             /\ \A q \in Reminders \ {r} : todo'[q] = todo[q] /\ item'[q] = item[q]
  BY <1>m DEF RunAt, TypeInv, TypeOK
<1>2. \A q \in Reminders \ {r} : Hand(q)' = Hand(q)
  BY <1>m DEF ReminderStep, TakeLock, Select, CheckMark, Mail, Mark, CheckFails, Finish, Unlock,
              RunDies, Hand
<1>3. \A j \in Hand(r)' : j \in Hand(r) \/ stage[j[2]] = "open"
  <2>1. CASE TakeLock(r) \/ Finish(r) \/ Unlock(r) \/ RunDies(r)
    BY <1>m, <2>1 DEF TakeLock, Finish, Unlock, RunDies, Hand
  <2>2. CASE Select(r) BY <1>m, <2>2 DEF Select, Hand
  <2>3. CASE CheckMark(r) BY <1>m, <2>3 DEF CheckMark, Upcoming, Hand
  <2>4. CASE Mail(r) \/ Mark(r) BY <1>m, <2>4 DEF Mail, Mark, Hand
  <2>5. CASE CheckFails(r)
    <3>1. PICK i : RunAt(r, "next", {j \in todo[r] : j[2] # i[2]}, None)
      BY <2>5 DEF CheckFails
    <3>2. QED BY <1>m, <3>1 DEF Hand
  <2>6. QED BY <2>1, <2>2, <2>3, <2>4, <2>5 DEF ReminderStep
<1>4. \A i \in marks' : i \in marks \/ i \in Hand(r)
  BY <1>a DEF ReminderStep, TakeLock, Select, CheckMark, Mail, Mark, CheckFails, Finish, Unlock,
              RunDies, redis
<1>5. \A c \in named' \ named : stage[c] = "forgotten" /\ \E i \in Hand(r) : i[2] = c
  BY <1>a DEF ReminderStep, TakeLock, Select, CheckMark, Mail, Mark, CheckFails, Finish, Unlock,
              RunDies, erased
<1>6. ASSUME NEW c \in Cases \ stale PROVE Cleared(c)'
  <2>1. Cleared(c) BY DEF ErasedInv
  <2>2. \A n : Away(n) => Away(n)' BY <1>1 DEF Away, InHand
  <2>3. stage[c] = "forgotten" => \A q \in Reminders : \A j \in Hand(q) : j[2] # c
    BY <2>1 DEF Cleared, Reminding, Holds, Hand
  <2>4. stage[c] = "forgotten" => ~Reminding(c)'
    <3>1. stage[c] = "forgotten" => \A q \in Reminders : \A j \in Hand(q)' : j[2] # c
      BY <1>2, <1>3, <2>3
    <3>2. QED BY <3>1 DEF Reminding, Holds, Hand
  <2>5. stage[c] = "forgotten" /\ ~Holds(c, marks) => ~Holds(c, marks') BY <1>4, <2>3 DEF Holds
  <2>6. stage[c] = "forgotten" /\ c \notin named => c \notin named' BY <1>5, <2>3
  <2>7. QED BY <1>1, <2>1, <2>2, <2>4, <2>5, <2>6, ClearedKept
<1>7. QED BY <1>1, <1>5, <1>6 DEF ErasedInv

LEMMA ErasedCase ==
    ASSUME TypeInv, ErasedInv, NEW c \in Cases, CaseStep(c)
    PROVE  ErasedInv'
<1>1. UNCHANGED <<held, rpc, todo, item, named>> /\ queue' \subseteq queue /\ marks' \subseteq marks
      /\ stale \subseteq stale'
  BY DEF CaseStep, Arrives, Replies, DeleteCase, ForgetQueue, ForgetNotice, ForgetMarks, ForgetFails,
         redis, digest, remind, erased
<1>2. \A b \in Cases \ {c} : stage'[b] = stage[b]
  BY DEF CaseStep, Arrives, Replies, DeleteCase, ForgetQueue, ForgetNotice, ForgetMarks, ForgetFails,
         TypeInv, TypeOK
<1>a. stage[c] # "forgotten"
  BY DEF CaseStep, Arrives, Replies, DeleteCase, ForgetQueue, ForgetNotice, ForgetMarks, ForgetFails
<1>b. stage \in [Cases -> Stages] /\ named \subseteq Cases BY DEF TypeInv, TypeOK
<1>3. \A b \in named' : stage'[b] = "forgotten" BY <1>1, <1>2, <1>a, <1>b DEF ErasedInv
<1>4. \A n : n \in due' => n \in due \/ (n[2] = c /\ stage'[c] = "open")
  BY <1>b DEF CaseStep, Arrives, Replies, DeleteCase, ForgetQueue, ForgetNotice, ForgetMarks,
              ForgetFails
<1>5. ASSUME NEW b \in Cases \ stale', b # c PROVE Cleared(b)'
  <2>1. Cleared(b) BY <1>1, <1>5 DEF ErasedInv
  <2>2. \A k \in Kinds : Away(<<k, b>>) => Away(<<k, b>>)'
    BY <1>1, <1>4, <1>5 DEF Away, InHand
  <2>3. Reminding(b)' <=> Reminding(b) BY <1>1 DEF Reminding, Holds
  <2>4. ~Holds(b, marks) => ~Holds(b, marks') BY <1>1 DEF Holds
  <2>5. QED BY <1>1, <1>2, <1>5, <2>1, <2>2, <2>3, <2>4, ClearedKept
<1>6. ASSUME c \notin stale' PROVE Cleared(c)'
  <2>0. Cleared(c) BY <1>1, <1>6 DEF ErasedInv
  <2>1. CASE Arrives(c) \/ Replies(c) \/ DeleteCase(c) \/ ForgetFails(c)
    <3>1. stage'[c] \in {"open", "reports", "left"}
      BY <1>b, <2>1 DEF Arrives, Replies, DeleteCase, ForgetFails
    <3>2. QED BY <3>1 DEF Cleared
  <2>2. CASE stage[c] = "reports" /\ ForgetNotice(c, "new_reports", "messages")
    <3>1. stage'[c] = "messages" BY <1>b, <2>2 DEF ForgetNotice
    <3>2. Away(<<"new_reports", c>>)' BY <1>6, <2>2 DEF ForgetNotice, Away, InHand, digest
    <3>3. QED BY <3>1, <3>2 DEF Cleared
  <2>3. CASE stage[c] = "messages" /\ ForgetNotice(c, "new_messages", "marks")
    <3>1. stage'[c] = "marks" BY <1>b, <2>3 DEF ForgetNotice
    <3>2. Away(<<"new_messages", c>>)' BY <1>6, <2>3 DEF ForgetNotice, Away, InHand, digest
    <3>3. Away(<<"new_reports", c>>)'
      BY <1>6, <2>0, <2>3 DEF Cleared, ForgetNotice, Away, InHand, digest
    <3>4. QED BY <3>1, <3>2, <3>3 DEF Cleared
  <2>4. CASE ForgetMarks(c)
    <3>1. stage'[c] = "forgotten" /\ stage[c] = "marks" BY <1>b, <2>4 DEF ForgetMarks
    <3>2. Away(<<"new_reports", c>>)' /\ Away(<<"new_messages", c>>)'
      BY <2>0, <2>4, <3>1 DEF Cleared, ForgetMarks, Away, InHand, digest
    <3>3. ~Reminding(c)' BY <1>1, <1>6, <2>4 DEF ForgetMarks, Reminding, Holds
    <3>4. ~Holds(c, marks)' BY <2>4 DEF ForgetMarks, Holds
    <3>5. c \notin named' BY <1>1, <1>a DEF ErasedInv
    <3>6. QED BY <3>2, <3>3, <3>4, <3>5 DEF Cleared
  <2>5. QED BY <2>1, <2>2, <2>3, <2>4 DEF CaseStep, ForgetQueue
<1>7. QED BY <1>3, <1>5, <1>6 DEF ErasedInv

LEMMA ErasedStep == TypeInv /\ ErasedInv /\ [Next]_vars => ErasedInv'
<1> SUFFICES ASSUME TypeInv, ErasedInv, [Next]_vars PROVE ErasedInv' OBVIOUS
<1>1. ASSUME UNCHANGED <<stage, due, queue, held, todo, item, stale, named>>, marks' \subseteq marks
      PROVE  ErasedInv'
  <2>1. ASSUME NEW c \in Cases \ stale PROVE Cleared(c)'
    <3>1. Cleared(c) BY DEF ErasedInv
    <3>2. \A n : Away(n) => Away(n)' BY <1>1 DEF Away, InHand
    <3>3. Reminding(c)' <=> Reminding(c) BY <1>1 DEF Reminding, Holds
    <3>4. ~Holds(c, marks) => ~Holds(c, marks') BY <1>1 DEF Holds
    <3>5. QED BY <1>1, <3>1, <3>2, <3>3, <3>4, ClearedKept
  <2>2. QED BY <1>1, <2>1 DEF ErasedInv
<1>2. CASE Expiry
  BY <1>1, <1>2 DEF Expiry, LockExpires, MarkExpires, events, digest, remind, erased
<1>3. CASE UNCHANGED vars BY <1>1, <1>3 DEF vars, events, redis, digest, remind, erased
<1>4. QED BY <1>2, <1>3, StepKinds, ErasedCase, ErasedNotify, ErasedDigest, ErasedRun

\* forget_case: once it is through, the case is in no queue and no mark and no mail
\* names it, unless somebody had it in hand while it was being forgotten.
THEOREM ErasedCorrect == Spec => []ErasedUnnamed
<1>1. Init => ErasedInv BY DEF Init, ErasedInv, Cleared
<1>2. TypeInv /\ ErasedInv => ErasedUnnamed
  <2> SUFFICES ASSUME TypeInv, ErasedInv, NEW c \in Cases \ stale, stage[c] = "forgotten"
               PROVE  ~Holds(c, queue \cup due \cup marks) /\ c \notin named
    BY DEF ErasedUnnamed
  <2>1. Cleared(c) BY DEF ErasedInv
  <2>2. \A n \in queue \cup due : n \in Notice BY DEF TypeInv, TypeOK
  <2>3. \A n \in queue \cup due : n[2] # c
    BY <2>1, <2>2, CaseNotices DEF Cleared, Away, InHand
  <2>4. QED BY <2>1, <2>3 DEF Cleared, Holds
<1>3. QED BY <1>1, <1>2, ErasedStep, TypeInvariant, PTL DEF Spec
=============================================================================
