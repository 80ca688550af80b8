----------------------------- MODULE UpkeepProofs -----------------------------
(* What holds of the upkeep of stored data for any numbers of runs, pages, *)
(* saves, replicas, keys and values.                                       *)
EXTENDS Rekey, Branding, Rotation, Telemetry, TLAPS
LOCAL INSTANCE Integers

----------------------------------------------------------------------------
(* Rekeying *)

\* Run i is done with file f: it will not point the row at New(i, f) any more.
Past(i, f) ==
    \/ job[i].pc = "ended"
    \/ job[i].pc \in {"rows", "repoint", "drop"} /\ (f \notin job[i].todo \/ (job[i].pc = "drop" /\ job[i].file = f))

\* A key the row of f has, or had: f's own name, or one of a run that is done with f.
Taken(f, k) == k = f \/ \E i \in Jobs : k = New(i, f) /\ Past(i, f)

\* A row of f, there or loaded, has such a key; a random key is of a sealed object.
KeyOk(f, row) == row # Absent => Taken(f, row.key) /\ (Uuid(row.key) => row.sealed)

\* What a run works on is among the rows it loaded; it deletes no object that a row is at.
JobOk(j) ==
    /\ \A f \in Files : KeyOk(f, job[j].loaded[f])
    /\ \A f \in job[j].todo : job[j].loaded[f] # Absent
    /\ job[j].pc \in {"repoint", "drop"} => job[j].file \in job[j].todo
    /\ job[j].pc = "drop" /\ att[job[j].file] # Absent => att[job[j].file].key # Old(j)

\* Before the row moves, the new object is there.
StoredOk(j) == job[j].pc = "repoint" => object[New(j, job[j].file)] = "sealed"

\* Who deletes a case deletes the key it read, and the object after the row.
EraserOk(f) ==
    /\ eraser[f].pc \in {"no", "delete"} <=> att[f] # Absent
    /\ eraser[f].pc # "no" => Taken(f, eraser[f].key)

\* InHand, as a predicate.
OnHand(f, k) ==
    \/ \E i \in Jobs : job[i].pc = "repoint" /\ job[i].file = f /\ k = New(i, f)
    \/ \E i \in Jobs : job[i].pc = "drop" /\ job[i].file = f /\ k = Old(i)
    \/ eraser[f].pc = "drop" /\ k = eraser[f].key

\* Every object of f is its row's, or in somebody's hand, or was left behind.
ObjectsOk(f) ==
    /\ att[f] # Absent => object[att[f].key] = Content(att[f].sealed)
    /\ \A k \in KeysOf(f) : object[k] # "absent" => (att[f] # Absent /\ k = att[f].key) \/ k \in left \/ OnHand(f, k)

RekeyInv ==
    /\ RekeyTypeOK
    /\ \A j \in Jobs : JobOk(j) /\ StoredOk(j)
    /\ \A f \in Files : KeyOk(f, att[f]) /\ EraserOk(f) /\ ObjectsOk(f)

\* The keys of a file are its own: two files share none, nor two runs.
LEMMA FileKeys ==
    /\ \A j \in Jobs, f \in Files : New(j, f) \in Objects /\ New(j, f) \in KeysOf(f) /\ Uuid(New(j, f)) /\ New(j, f) # f
    /\ \A i, j \in Jobs, f, g \in Files : New(i, f) = New(j, g) => i = j /\ f = g
    /\ \A f \in Files : f \in KeysOf(f) /\ ~Uuid(f) /\ KeysOf(f) \subseteq Objects
    /\ \A f, g \in Files : f # g => KeysOf(f) \cap KeysOf(g) = {}
BY RekeyAssumption DEF New, Objects, KeysOf, Uuid

\* A taken key is the file's, and never one a run is still going to give it.
LEMMA TakenKeys ==
    ASSUME NEW f \in Files, NEW k, Taken(f, k)
    PROVE  /\ k \in KeysOf(f)
           /\ \A j \in Jobs : ~Past(j, f) => k # New(j, f)
BY FileKeys DEF Taken

JobRecords ==
    [pc : {"idle", "select", "rows", "repoint", "drop", "ended"},
     loaded : [Files -> Row \cup {Absent}], todo : SUBSET Files, file : Files \cup {Absent}]

EraserRecords == [pc : {"no", "delete", "drop", "done"}, key : Objects \cup {Absent}]

LEMMA RekeyTypes ==
    RekeyTypeOK <=>
        /\ att \in [Files -> Row \cup {Absent}]
        /\ object \in [Objects -> {"absent", "plain", "sealed"}]
        /\ jobLock \in BOOLEAN
        /\ job \in [Jobs -> JobRecords]
        /\ eraser \in [Files -> EraserRecords]
        /\ left \subseteq Objects
BY DEF RekeyTypeOK, JobRecords, EraserRecords

\* Where nothing but job changes, and run j alone: what is left to show is of j.
LEMMA OneJob ==
    ASSUME RekeyInv, NEW j \in Jobs, NEW w \in JobRecords, job' = [job EXCEPT ![j] = w],
           \A f \in Files : Past(j, f) => Past(j, f)'
    PROVE  /\ job' \in [Jobs -> JobRecords] /\ job'[j] = w
           /\ \A i \in Jobs \ {j} : job'[i] = job[i]
           /\ \A f \in Files : \A k : Taken(f, k) => Taken(f, k)'
<1>1. job \in [Jobs -> JobRecords] BY RekeyTypes DEF RekeyInv
<1>2. job' \in [Jobs -> JobRecords] /\ job'[j] = w /\ \A i \in Jobs \ {j} : job'[i] = job[i] BY <1>1
<1>3. \A f \in Files, i \in Jobs : Past(i, f) => Past(i, f)' BY <1>2 DEF Past
<1> QED BY <1>2, <1>3 DEF Taken, New

LEMMA OthersKeep ==
    ASSUME RekeyInv, NEW j \in Jobs, NEW w \in JobRecords, job' = [job EXCEPT ![j] = w],
           \A f \in Files : Past(j, f) => Past(j, f)',
           UNCHANGED <<att, eraser>>
    PROVE  /\ \A i \in Jobs \ {j} : JobOk(i)'
           /\ \A f \in Files : KeyOk(f, att[f])' /\ EraserOk(f)'
<1>1. /\ \A i \in Jobs \ {j} : job'[i] = job[i]
      /\ \A f \in Files : \A k : Taken(f, k) => Taken(f, k)'
  BY OneJob
<1>2. ASSUME NEW i \in Jobs \ {j} PROVE JobOk(i)'
  BY <1>1 DEF RekeyInv, JobOk, KeyOk, Old, Uuid
<1>3. ASSUME NEW f \in Files PROVE KeyOk(f, att[f])' /\ EraserOk(f)'
  BY <1>1 DEF RekeyInv, KeyOk, EraserOk, Uuid
<1> QED BY <1>2, <1>3

\* Where a run neither holds an object before nor stops holding one, and no object changes.
LEMMA ObjectsKeep ==
    ASSUME RekeyInv, NEW j \in Jobs, \A i \in Jobs \ {j} : job'[i] = job[i],
           job[j].pc \notin {"repoint", "drop"}, UNCHANGED <<att, object, eraser, left>>
    PROVE  \A f \in Files : ObjectsOk(f)'
<1>1. \A f \in Files : \A k : OnHand(f, k) => OnHand(f, k)' BY DEF OnHand, Old, New
<1> QED BY <1>1 DEF RekeyInv, ObjectsOk, KeysOf

\* Of the objects that runs are still going to point rows at, none is deleted.
LEMMA StoredKeep ==
    ASSUME RekeyInv, NEW j \in Jobs, \A i \in Jobs \ {j} : job'[i] = job[i],
           job'[j].pc # "repoint",
           \A i \in Jobs, f \in Files :
               ~Past(i, f) /\ object[New(i, f)] = "sealed" => object'[New(i, f)] = "sealed"
    PROVE  \A i \in Jobs : StoredOk(i)'
<1> SUFFICES ASSUME NEW i \in Jobs, job'[i].pc = "repoint"
             PROVE  object'[New(i, job'[i].file)] = "sealed"
  BY DEF StoredOk, New
<1>1. i # j /\ job'[i] = job[i] OBVIOUS
<1>2. job[i].file \in job[i].todo /\ StoredOk(i) BY <1>1 DEF RekeyInv, JobOk
<1>3. job[i].file \in Files BY <1>2, RekeyTypes DEF RekeyInv, JobRecords
<1>4. ~Past(i, job[i].file) BY <1>1, <1>2 DEF Past
<1> QED BY <1>1, <1>2, <1>3, <1>4 DEF StoredOk

LEMMA TakeJobLockInv ==
    ASSUME RekeyInv, NEW j \in Jobs, TakeJobLock(j)
    PROVE  RekeyInv'
<1> DEFINE w == [job[j] EXCEPT !.pc = IF jobLock THEN "ended" ELSE "select"]
<1>1. /\ job[j].pc = "idle" /\ job' = [job EXCEPT ![j] = w] /\ jobLock' = TRUE
      /\ UNCHANGED <<att, object, eraser, left>>
  BY DEF TakeJobLock, JobAt, JobGo
<1>2. job[j] \in JobRecords BY RekeyTypes DEF RekeyInv
<1>3. w \in JobRecords BY <1>2 DEF JobRecords
<1>4. \A f \in Files : Past(j, f) => Past(j, f)' BY <1>1 DEF Past
<1>5. /\ job' \in [Jobs -> JobRecords] /\ job'[j] = w /\ \A i \in Jobs \ {j} : job'[i] = job[i]
      /\ \A f \in Files : \A k : Taken(f, k) => Taken(f, k)'
  BY <1>1, <1>3, <1>4, OneJob
<1>6. RekeyTypeOK' BY <1>1, <1>5, RekeyTypes DEF RekeyInv, RekeyTypeOK, JobRecords
<1>7. JobOk(j)'
  <2>1. w.loaded = job[j].loaded /\ w.todo = job[j].todo /\ w.pc \in {"ended", "select"} BY <1>2 DEF JobRecords
  <2> QED BY <1>5, <2>1 DEF RekeyInv, JobOk, KeyOk, Uuid
<1>8. \A f \in Files : ObjectsOk(f)' BY <1>1, <1>5, ObjectsKeep
<1>9. \A i \in Jobs : StoredOk(i)'
  <2>1. job'[j].pc # "repoint" BY <1>2, <1>5 DEF JobRecords
  <2> QED BY <1>1, <1>5, <2>1, StoredKeep
<1> QED BY <1>1, <1>3, <1>4, <1>6, <1>7, <1>8, <1>9, OthersKeep DEF RekeyInv

LEMMA JobLockInv ==
    ASSUME RekeyInv, \/ JobLockExpires
                     \/ UNCHANGED rekeyVars
    PROVE  RekeyInv'
<1>1. UNCHANGED <<att, object, job, eraser, left>> /\ jobLock' \in BOOLEAN
  BY DEF JobLockExpires, rekeyVars, RekeyInv, RekeyTypeOK
<1> QED BY <1>1 DEF RekeyInv, RekeyTypeOK, StoredOk, JobOk, KeyOk, EraserOk, ObjectsOk, Taken, Past, OnHand, Old, New, Uuid, KeysOf

LEMMA SelectRowsInv ==
    ASSUME RekeyInv, NEW j \in Jobs, SelectRows(j)
    PROVE  RekeyInv'
<1> DEFINE T == {f \in Files : Legacy(att[f])}
           w == [job[j] EXCEPT !.pc = "rows", !.loaded = att, !.todo = T]
<1>1. /\ job[j].pc = "select" /\ job' = [job EXCEPT ![j] = w]
      /\ UNCHANGED <<att, object, jobLock, eraser, left>>
  BY DEF SelectRows, JobAt
<1>2. job[j] \in JobRecords /\ att \in [Files -> Row \cup {Absent}] BY RekeyTypes DEF RekeyInv
<1>3. w \in JobRecords /\ w.loaded = att /\ w.todo = T /\ w.pc = "rows" BY <1>2 DEF JobRecords
<1>4. \A f \in Files : Past(j, f) => Past(j, f)' BY <1>1 DEF Past
<1>5. /\ job' \in [Jobs -> JobRecords] /\ job'[j] = w /\ \A i \in Jobs \ {j} : job'[i] = job[i]
      /\ \A f \in Files : \A k : Taken(f, k) => Taken(f, k)'
  <2> HIDE DEF w
  <2> QED BY <1>1, <1>3, <1>4, OneJob
<1>6. RekeyTypeOK' BY <1>1, <1>5, RekeyTypes DEF RekeyInv, RekeyTypeOK, JobRecords
<1>7. JobOk(j)'
  <2>1. \A f \in Files : KeyOk(f, att[f])' BY <1>1, <1>5 DEF RekeyInv, KeyOk, Uuid
  <2>2. \A f \in T : att[f] # Absent BY DEF Legacy
  <2> HIDE DEF w
  <2> QED BY <1>1, <1>3, <1>5, <2>1, <2>2 DEF JobOk, KeyOk, Uuid
<1>8. \A f \in Files : ObjectsOk(f)' BY <1>1, <1>5, ObjectsKeep
<1> HIDE DEF w
<1>9. \A i \in Jobs : StoredOk(i)' BY <1>1, <1>3, <1>5, StoredKeep
<1> QED BY <1>1, <1>3, <1>4, <1>6, <1>7, <1>8, <1>9, OthersKeep DEF RekeyInv

LEMMA RowsDoneInv ==
    ASSUME RekeyInv, NEW j \in Jobs, RowsDone(j)
    PROVE  RekeyInv'
<1> DEFINE w == [NewJob EXCEPT !.pc = "ended"]
<1>1. /\ job[j].pc = "rows" /\ job' = [job EXCEPT ![j] = w]
      /\ UNCHANGED <<att, object, jobLock, eraser, left>>
  BY DEF RowsDone, JobAt, JobEnds
<1>3. /\ w \in JobRecords /\ w.pc = "ended" /\ w.todo = {} /\ w.loaded = [f \in Files |-> Absent]
  BY DEF JobRecords, NewJob
<1>4. \A f \in Files : Past(j, f)'
  BY <1>1, <1>3, RekeyTypes DEF RekeyInv, Past
<1>5. /\ job' \in [Jobs -> JobRecords] /\ job'[j] = w /\ \A i \in Jobs \ {j} : job'[i] = job[i]
  <2> HIDE DEF w
  <2> QED BY <1>1, <1>3, <1>4, OneJob
<1>6. RekeyTypeOK' BY <1>1, <1>5, RekeyTypes DEF RekeyInv, RekeyTypeOK, JobRecords
<1> HIDE DEF w
<1>7. JobOk(j)' BY <1>3, <1>5 DEF JobOk, KeyOk
<1>8. \A f \in Files : ObjectsOk(f)' BY <1>1, <1>5, ObjectsKeep
<1>9. \A i \in Jobs : StoredOk(i)' BY <1>1, <1>3, <1>5, StoredKeep
<1> QED BY <1>1, <1>3, <1>4, <1>6, <1>7, <1>8, <1>9, OthersKeep DEF RekeyInv

LEMMA StoreNewInv ==
    ASSUME RekeyInv, NEW j \in Jobs, NEW f \in Files, StoreNew(j, f)
    PROVE  RekeyInv'
<1> DEFINE w == [job[j] EXCEPT !.pc = "repoint", !.file = f]
<1>1. /\ job[j].pc = "rows" /\ f \in job[j].todo /\ job' = [job EXCEPT ![j] = w]
      /\ object' = [object EXCEPT ![New(j, f)] = "sealed"]
      /\ UNCHANGED <<att, jobLock, eraser, left>>
  BY DEF StoreNew, JobAt
<1>2. job[j] \in JobRecords BY RekeyTypes DEF RekeyInv
<1>3. /\ w \in JobRecords /\ w.pc = "repoint" /\ w.file = f
      /\ w.loaded = job[j].loaded /\ w.todo = job[j].todo
  BY <1>2 DEF JobRecords
<1> HIDE DEF w
<1>4. \A g \in Files : Past(j, g) => Past(j, g)'
  BY <1>1, <1>3, RekeyTypes DEF Past, RekeyInv
<1>5. /\ job' \in [Jobs -> JobRecords] /\ job'[j] = w /\ \A i \in Jobs \ {j} : job'[i] = job[i]
      /\ \A g \in Files : \A k : Taken(g, k) => Taken(g, k)'
  BY <1>1, <1>3, <1>4, OneJob
<1>6. New(j, f) \in Objects /\ object \in [Objects -> {"absent", "plain", "sealed"}]
  BY FileKeys, RekeyTypes DEF RekeyInv
<1>7. RekeyTypeOK' BY <1>1, <1>5, <1>6, RekeyTypes DEF RekeyInv, RekeyTypeOK, JobRecords
<1>8. JobOk(j)' BY <1>1, <1>3, <1>5 DEF RekeyInv, JobOk, KeyOk, Uuid
<1>9. ASSUME NEW g \in Files PROVE ObjectsOk(g)'
  <2>1. \A k : OnHand(g, k) => OnHand(g, k)' BY <1>1, <1>5 DEF OnHand, Old, New
  <2>2. OnHand(f, New(j, f))' BY <1>3, <1>5 DEF OnHand, New
  <2>3. g # f => New(j, f) \notin KeysOf(g) BY FileKeys
  <2>4. att[g] # Absent => att[g].key \in KeysOf(g) /\ att[g].key # New(j, f)
    <3>1. ~Past(j, f) BY <1>1 DEF Past
    <3> QED BY <2>3, <3>1, TakenKeys DEF RekeyInv, KeyOk
  <2>5. KeysOf(g) \subseteq Objects BY FileKeys
  <2>6. \A k \in KeysOf(g) : k # New(j, f) => object'[k] = object[k] BY <1>1, <1>6, <2>5
  <2>7. \A k \in KeysOf(g) : k = New(j, f) => OnHand(g, k)' BY <2>2, <2>3
  <2> QED BY <1>1, <2>1, <2>4, <2>6, <2>7 DEF RekeyInv, ObjectsOk, KeysOf
<1>10. ASSUME NEW i \in Jobs PROVE StoredOk(i)'
  <2>1. \A h \in Jobs, g \in Files : object[New(h, g)] = "sealed" => object'[New(h, g)] = "sealed"
    BY <1>1, <1>6, FileKeys
  <2>2. CASE i = j BY <1>1, <1>3, <1>5, <1>6, <2>2 DEF StoredOk, New
  <2>3. CASE i # j /\ job[i].pc = "repoint"
    <3>1. job[i].file \in job[i].todo BY <2>3 DEF RekeyInv, JobOk
    <3>2. job[i].file \in Files BY <3>1, RekeyTypes DEF RekeyInv, JobRecords
    <3> QED BY <1>5, <2>1, <2>3, <3>2 DEF RekeyInv, StoredOk, New
  <2> QED BY <1>5, <2>2, <2>3 DEF StoredOk
<1> QED BY <1>1, <1>3, <1>4, <1>7, <1>8, <1>9, <1>10, OthersKeep DEF RekeyInv

LEMMA StoreFailsInv ==
    ASSUME RekeyInv, NEW j \in Jobs, NEW f \in Files, NEW made \in BOOLEAN, StoreFails(j, f, made)
    PROVE  RekeyInv'
<1> DEFINE w == [job[j] EXCEPT !.todo = @ \ {f}]
<1>1. /\ job[j].pc = "rows" /\ f \in job[j].todo /\ job' = [job EXCEPT ![j] = w]
      /\ object' = [object EXCEPT ![New(j, f)] = IF made THEN "sealed" ELSE @]
      /\ left' = IF made THEN left \cup {New(j, f)} ELSE left
      /\ UNCHANGED <<att, jobLock, eraser>>
  BY DEF StoreFails, JobAt
<1>2. job[j] \in JobRecords BY RekeyTypes DEF RekeyInv
<1>3. /\ w \in JobRecords /\ w.pc = "rows" /\ w.file = job[j].file
      /\ w.loaded = job[j].loaded /\ w.todo = job[j].todo \ {f}
  BY <1>1, <1>2 DEF JobRecords
<1> HIDE DEF w
<1>4. \A g \in Files : Past(j, g) => Past(j, g)'
  BY <1>1, <1>3, RekeyTypes DEF Past, RekeyInv
<1>5. /\ job' \in [Jobs -> JobRecords] /\ job'[j] = w /\ \A i \in Jobs \ {j} : job'[i] = job[i]
      /\ \A g \in Files : \A k : Taken(g, k) => Taken(g, k)'
  BY <1>1, <1>3, <1>4, OneJob
<1>6. New(j, f) \in Objects /\ object \in [Objects -> {"absent", "plain", "sealed"}]
  BY FileKeys, RekeyTypes DEF RekeyInv
<1>7. RekeyTypeOK'
  <2>1. object' \in [Objects -> {"absent", "plain", "sealed"}] BY <1>1, <1>6
  <2>2. left' \subseteq Objects BY <1>1, <1>6, RekeyTypes DEF RekeyInv
  <2> QED BY <1>1, <1>5, <2>1, <2>2, RekeyTypes DEF RekeyInv, RekeyTypeOK, JobRecords
<1>8. JobOk(j)' BY <1>1, <1>3, <1>5 DEF RekeyInv, JobOk, KeyOk, Uuid
<1>9. ASSUME NEW g \in Files PROVE ObjectsOk(g)'
  <2>1. \A k : OnHand(g, k) => OnHand(g, k)' BY <1>1, <1>5 DEF OnHand, Old, New
  <2>3. g # f => New(j, f) \notin KeysOf(g) BY FileKeys
  <2>4. att[g] # Absent => att[g].key \in KeysOf(g) /\ att[g].key # New(j, f)
    <3>1. ~Past(j, f) BY <1>1 DEF Past
    <3> QED BY <2>3, <3>1, TakenKeys DEF RekeyInv, KeyOk
  <2>5. KeysOf(g) \subseteq Objects BY FileKeys
  <2>6. \A k \in KeysOf(g) : k # New(j, f) \/ ~made => object'[k] = object[k] BY <1>1, <1>6, <2>5
  <2> QED BY <1>1, <2>1, <2>4, <2>6 DEF RekeyInv, ObjectsOk, KeysOf
<1>10. \A i \in Jobs : StoredOk(i)'
  <2>1. \A i \in Jobs, g \in Files : object[New(i, g)] = "sealed" => object'[New(i, g)] = "sealed"
    BY <1>1, <1>6, FileKeys
  <2> QED BY <1>3, <1>5, <2>1, StoredKeep
<1> QED BY <1>1, <1>3, <1>4, <1>7, <1>8, <1>9, <1>10, OthersKeep DEF RekeyInv

\* A run ends, by itself or not: what it held is left behind.
LEMMA RunEndsInv ==
    ASSUME RekeyInv, NEW j \in Jobs, job' = [job EXCEPT ![j] = [NewJob EXCEPT !.pc = "ended"]],
           left' \in SUBSET Objects, left \subseteq left',
           job[j].pc = "repoint" => New(j, job[j].file) \in left',
           job[j].pc = "drop" => Old(j) \in left',
           UNCHANGED <<att, object, jobLock, eraser>>
    PROVE  RekeyInv'
<1> DEFINE w == [NewJob EXCEPT !.pc = "ended"]
<1>3. /\ w \in JobRecords /\ w.pc = "ended" /\ w.todo = {} /\ w.loaded = [f \in Files |-> Absent]
  BY DEF JobRecords, NewJob
<1>1. job' = [job EXCEPT ![j] = w] OBVIOUS
<1> HIDE DEF w
<1>4. \A f \in Files : Past(j, f)'
  BY <1>1, <1>3, RekeyTypes DEF RekeyInv, Past
<1>5. /\ job' \in [Jobs -> JobRecords] /\ job'[j] = w /\ \A i \in Jobs \ {j} : job'[i] = job[i]
  BY <1>1, <1>3, <1>4, OneJob
<1>6. RekeyTypeOK' BY <1>1, <1>5, RekeyTypes DEF RekeyInv, RekeyTypeOK, JobRecords
<1>7. JobOk(j)' BY <1>3, <1>5 DEF JobOk, KeyOk
<1>8. ASSUME NEW f \in Files PROVE ObjectsOk(f)'
  <2>1. \A k : OnHand(f, k) => OnHand(f, k)' \/ k \in left' BY <1>5 DEF OnHand, Old, New
  <2> QED BY <2>1 DEF RekeyInv, ObjectsOk, KeysOf
<1>9. \A i \in Jobs : StoredOk(i)' BY <1>3, <1>5, StoredKeep
<1> QED BY <1>1, <1>3, <1>4, <1>6, <1>7, <1>8, <1>9, OthersKeep DEF RekeyInv

\* The row moves to the new object, and the old one is the run's to delete.
LEMMA RepointInv ==
    ASSUME RekeyInv, NEW j \in Jobs, Repoint(j), NEW f \in Files, job[j].file = f, att[f] # Absent
    PROVE  RekeyInv'
<1> DEFINE w == [job[j] EXCEPT !.pc = "drop"]
<1> DEFINE row == [key |-> New(j, f), sealed |-> TRUE]
<1>1. /\ job[j].pc = "repoint" /\ job' = [job EXCEPT ![j] = w]
      /\ att' = [att EXCEPT ![f] = row]
      /\ left' = IF att[f].key = Old(j) THEN left ELSE left \cup {att[f].key}
      /\ UNCHANGED <<object, jobLock, eraser>>
  BY DEF Repoint, JobAt, JobGo
<1>2. job[j] \in JobRecords /\ att \in [Files -> Row \cup {Absent}] BY RekeyTypes DEF RekeyInv
<1>3. /\ w \in JobRecords /\ w.pc = "drop" /\ w.file = f
      /\ w.loaded = job[j].loaded /\ w.todo = job[j].todo
  BY <1>2 DEF JobRecords
<1>4. f \in job[j].todo /\ job[j].loaded[f] # Absent
  BY <1>1, <1>2 DEF RekeyInv, JobOk, JobRecords
<1>5. row \in Row /\ row # Absent /\ row.key = New(j, f) /\ row.sealed = TRUE
  <2>1. New(j, f) \in Objects BY FileKeys
  <2>2. row \in Row BY <2>1 DEF Row
  <2>3. row # Absent BY <2>2, RekeyAssumption
  <2> QED BY <2>2, <2>3
<1> HIDE DEF w, row
<1>6. \A g \in Files : Past(j, g) => Past(j, g)'
  BY <1>1, <1>3, RekeyTypes DEF Past, RekeyInv
<1>7. /\ job' \in [Jobs -> JobRecords] /\ job'[j] = w /\ \A i \in Jobs \ {j} : job'[i] = job[i]
      /\ \A g \in Files : \A k : Taken(g, k) => Taken(g, k)'
  BY <1>1, <1>3, <1>6, OneJob
<1>8. att'[f] = row /\ \A g \in Files \ {f} : att'[g] = att[g] BY <1>1, <1>2, <1>4
<1>9. RekeyTypeOK'
  <2>1. att' \in [Files -> Row \cup {Absent}] BY <1>1, <1>2, <1>5
  <2>2. att[f].key \in Objects BY <1>2, <1>4 DEF Row
  <2>3. left' \subseteq Objects BY <1>1, <2>2, RekeyTypes DEF RekeyInv
  <2> QED BY <1>1, <1>7, <2>1, <2>3, RekeyTypes DEF RekeyInv, RekeyTypeOK, JobRecords
<1>10. ~Past(j, f) /\ Past(j, f)'
  <2>1. ~Past(j, f) BY <1>1, <1>4 DEF Past
  <2>2. Past(j, f)' BY <1>3, <1>7 DEF Past
  <2> QED BY <2>1, <2>2
<1>11. Taken(f, row.key)' BY <1>5, <1>10 DEF Taken, New
<1>12. \A g \in Files : KeyOk(g, att[g])'
  BY <1>5, <1>7, <1>8, <1>11 DEF RekeyInv, KeyOk, Uuid
<1>13. Old(j)' = Old(j) /\ \A i \in Jobs \ {j} : Old(i)' = Old(i) BY <1>3, <1>7, <1>1 DEF Old
<1>14. ASSUME NEW i \in Jobs PROVE JobOk(i)'
  <2>1. /\ job'[i].loaded = job[i].loaded /\ job'[i].todo = job[i].todo /\ job'[i].file = job[i].file
        /\ Old(i)' = Old(i)
    BY <1>3, <1>7, <1>13
  <2>2. JobOk(i) BY DEF RekeyInv
  <2>3. \A g \in Files : KeyOk(g, job[i].loaded[g])' BY <1>7, <2>1, <2>2 DEF JobOk, KeyOk, Uuid
  <2>4. job'[i].pc \in {"repoint", "drop"} => job'[i].file \in job'[i].todo
    BY <1>3, <1>4, <1>7, <2>1, <2>2 DEF JobOk
  <2>5. job'[i].pc = "drop" /\ att'[job'[i].file] # Absent => att'[job'[i].file].key # Old(i)'
    <3>1. CASE job'[i].pc = "drop" /\ job[i].file = f
      <4>1. job[i].pc \in {"repoint", "drop"} BY <1>1, <1>7, <3>1
      <4>2. f \in job[i].todo /\ KeyOk(f, job[i].loaded[f]) /\ job[i].loaded[f] # Absent
        BY <1>4, <2>2, <3>1, <4>1 DEF JobOk
      <4>3. Taken(f, Old(i)) BY <3>1, <4>2 DEF KeyOk, Old
      <4>4. New(j, f) # Old(i) BY <1>4, <1>10, <4>3, TakenKeys
      <4> QED BY <1>5, <1>8, <2>1, <3>1, <4>4
    <3>2. CASE job'[i].pc = "drop" /\ job[i].file # f
      <4>1. i # j BY <3>2
      <4>2. job[i].pc = "drop" /\ job[i].file \in job[i].todo BY <1>7, <2>2, <3>2, <4>1 DEF JobOk
      <4>3. job[i].file \in Files BY <4>2, RekeyTypes DEF RekeyInv, JobRecords
      <4> QED BY <1>8, <2>1, <2>2, <3>2, <4>2, <4>3 DEF JobOk
    <3> QED BY <3>1, <3>2
  <2> QED BY <2>1, <2>2, <2>3, <2>4, <2>5 DEF JobOk
<1>15. ASSUME NEW g \in Files PROVE EraserOk(g)'
  <2>1. att'[g] # Absent <=> att[g] # Absent BY <1>5, <1>8
  <2> QED BY <1>1, <1>7, <2>1 DEF RekeyInv, EraserOk
<1>16. ASSUME NEW g \in Files PROVE ObjectsOk(g)'
  <2>1. ASSUME NEW k, OnHand(g, k), ~(g = f /\ k = New(j, f)) PROVE OnHand(g, k)'
    <3>1. \A i \in Jobs \ {j} : Old(i)' = Old(i) BY <1>13
    <3> QED BY <1>1, <1>7, <2>1, <3>1 DEF OnHand, New
  <2>2. CASE g # f BY <1>1, <1>8, <2>1, <2>2 DEF RekeyInv, ObjectsOk, KeysOf
  <2>3. CASE g = f
    <3>1. OnHand(f, Old(j))' BY <1>3, <1>7, <1>13 DEF OnHand
    <3>2. ASSUME NEW k, k = att[f].key PROVE k \in left' \/ OnHand(f, k)'
      BY <1>1, <1>3, <1>7, <1>13, <3>2 DEF OnHand
    <3>3. object'[row.key] = Content(row.sealed)
      <4>1. object[New(j, f)] = "sealed" BY <1>1 DEF RekeyInv, StoredOk
      <4> QED BY <1>1, <1>5, <4>1 DEF Content
    <3> QED BY <1>1, <1>5, <1>8, <2>1, <2>3, <3>2, <3>3 DEF RekeyInv, ObjectsOk, KeysOf
  <2> QED BY <2>2, <2>3
<1>17. \A i \in Jobs : StoredOk(i)' BY <1>1, <1>3, <1>7, StoredKeep
<1> QED BY <1>17, <1>9, <1>12, <1>14, <1>15, <1>16 DEF RekeyInv

\* The case is gone: nobody points at the new object, and the run ends.
LEMMA RepointGoneInv ==
    ASSUME RekeyInv, NEW j \in Jobs, Repoint(j), att[job[j].file] = Absent
    PROVE  RekeyInv'
<1> DEFINE w == [NewJob EXCEPT !.pc = "ended"]
<1>1. /\ job[j].pc = "repoint" /\ job' = [job EXCEPT ![j] = w]
      /\ left' = left \cup {New(j, job[j].file)}
      /\ UNCHANGED <<att, object, jobLock, eraser>>
  BY DEF Repoint, JobAt, JobEnds
<1>2. job[j].file \in Files
  <2>1. job[j].file \in job[j].todo BY <1>1 DEF RekeyInv, JobOk
  <2> QED BY <2>1, RekeyTypes DEF RekeyInv, JobRecords
<1>3. left' \in SUBSET Objects BY <1>1, <1>2, FileKeys, RekeyTypes DEF RekeyInv
<1> QED BY <1>1, <1>3, RunEndsInv

\* Deleting a key that f has or had touches no key of another file, and none
\* that a run is still going to give a row.
LEMMA DeleteKeeps ==
    ASSUME RekeyInv, NEW f \in Files, NEW x, Taken(f, x), NEW fails \in BOOLEAN,
           object' = [object EXCEPT ![x] = IF fails THEN @ ELSE "absent"]
    PROVE  /\ x \in Objects
           /\ object' \in [Objects -> {"absent", "plain", "sealed"}]
           /\ \A k \in Objects : k # x => object'[k] = object[k]
           /\ ~fails => object'[x] = "absent"
           /\ \A g \in Files : g # f => x \notin KeysOf(g)
           /\ \A i \in Jobs, g \in Files : ~Past(i, g) => object'[New(i, g)] = object[New(i, g)]
<1>1. x \in KeysOf(f) /\ \A j \in Jobs : ~Past(j, f) => x # New(j, f) BY TakenKeys
<1>2. x \in Objects /\ \A g \in Files : g # f => x \notin KeysOf(g) BY <1>1, FileKeys
<1>3. object \in [Objects -> {"absent", "plain", "sealed"}] BY RekeyTypes DEF RekeyInv
<1>4. object' \in [Objects -> {"absent", "plain", "sealed"}] BY <1>2, <1>3
<1>5. (\A k \in Objects : k # x => object'[k] = object[k]) /\ (~fails => object'[x] = "absent") BY <1>2, <1>3
<1>6. ASSUME NEW i \in Jobs, NEW g \in Files, ~Past(i, g) PROVE object'[New(i, g)] = object[New(i, g)]
  <2>1. New(i, g) \in KeysOf(g) /\ New(i, g) \in Objects BY FileKeys
  <2>2. New(i, g) # x BY <1>1, <1>2, <1>6, <2>1
  <2> QED BY <1>5, <2>1, <2>2
<1> QED BY <1>2, <1>4, <1>5, <1>6

LEMMA DropObjectInv ==
    ASSUME RekeyInv, NEW j \in Jobs, NEW fails \in BOOLEAN, DropObject(j, fails), NEW f \in Files, job[j].file = f
    PROVE  RekeyInv'
<1> DEFINE w == [job[j] EXCEPT !.pc = "rows", !.todo = @ \ {f}, !.file = Absent]
<1>1. /\ job[j].pc = "drop" /\ job' = [job EXCEPT ![j] = w]
      /\ object' = [object EXCEPT ![Old(j)] = IF fails THEN @ ELSE "absent"]
      /\ left' = IF fails THEN left \cup {Old(j)} ELSE left
      /\ UNCHANGED <<att, jobLock, eraser>>
  BY DEF DropObject, JobAt, NextRow
<1>2. job[j] \in JobRecords BY RekeyTypes DEF RekeyInv
<1>3. /\ w \in JobRecords /\ w.pc = "rows" /\ w.loaded = job[j].loaded /\ w.todo = job[j].todo \ {f}
  BY <1>2 DEF JobRecords
<1> HIDE DEF w
<1>4. f \in job[j].todo /\ job[j].loaded[f] # Absent /\ KeyOk(f, job[j].loaded[f]) /\ (att[f] # Absent => att[f].key # Old(j))
  BY <1>1 DEF RekeyInv, JobOk
<1>5. Taken(f, Old(j)) BY <1>4 DEF KeyOk, Old
<1>6. \A g \in Files : Past(j, g) => Past(j, g)'
  BY <1>1, <1>3, RekeyTypes DEF Past, RekeyInv
<1>7. /\ job' \in [Jobs -> JobRecords] /\ job'[j] = w /\ \A i \in Jobs \ {j} : job'[i] = job[i]
      /\ \A g \in Files : \A k : Taken(g, k) => Taken(g, k)'
  BY <1>1, <1>3, <1>6, OneJob
<1>8. ASSUME NEW x, x = Old(j)
      PROVE  /\ x \in Objects /\ object' \in [Objects -> {"absent", "plain", "sealed"}]
             /\ \A k \in Objects : k # x => object'[k] = object[k]
             /\ ~fails => object'[x] = "absent"
             /\ \A g \in Files : g # f => x \notin KeysOf(g)
             /\ \A i \in Jobs, g \in Files : ~Past(i, g) => object'[New(i, g)] = object[New(i, g)]
  BY <1>1, <1>5, <1>8, DeleteKeeps
<1>9. RekeyTypeOK'
  <2>1. left' \subseteq Objects BY <1>1, <1>8, RekeyTypes DEF RekeyInv
  <2> QED BY <1>1, <1>7, <1>8, <2>1, RekeyTypes DEF RekeyInv, RekeyTypeOK, JobRecords
<1>10. JobOk(j)' BY <1>1, <1>3, <1>7 DEF RekeyInv, JobOk, KeyOk, Uuid
<1>11. \A i \in Jobs : StoredOk(i)' BY <1>3, <1>7, <1>8, StoredKeep
<1>12. ASSUME NEW g \in Files PROVE ObjectsOk(g)'
  <2>1. ASSUME NEW k, OnHand(g, k), ~(g = f /\ k = Old(j)) PROVE OnHand(g, k)'
    BY <1>1, <1>7, <2>1 DEF OnHand, Old, New
  <2>2. PICK x : x = Old(j) OBVIOUS
  <2>3. KeysOf(g) \subseteq Objects BY FileKeys
  <2>4. \A k \in KeysOf(g) : k # x => object'[k] = object[k] BY <1>8, <2>2, <2>3
  <2>5. g # f => x \notin KeysOf(g) BY <1>8, <2>2
  <2>6. (~fails => object'[x] = "absent") /\ (fails => x \in left' /\ object'[x] = object[x])
    <3>1. x \in Objects /\ object \in [Objects -> {"absent", "plain", "sealed"}] BY <1>8, <2>2, RekeyTypes DEF RekeyInv
    <3> QED BY <1>1, <1>8, <2>2, <3>1
  <2>7. ASSUME NEW k \in KeysOf(g), object'[k] # "absent"
        PROVE  (att'[g] # Absent /\ k = att'[g].key) \/ k \in left' \/ OnHand(g, k)'
    BY <1>1, <2>1, <2>2, <2>4, <2>5, <2>6, <2>7 DEF RekeyInv, ObjectsOk
  <2>8. att[g] # Absent => att[g].key \in KeysOf(g) /\ att[g].key # x
    BY <1>4, <2>2, <2>5, TakenKeys DEF RekeyInv, KeyOk
  <2> QED BY <1>1, <2>4, <2>7, <2>8 DEF RekeyInv, ObjectsOk, KeysOf
<1> QED BY <1>1, <1>3, <1>6, <1>9, <1>10, <1>11, <1>12, OthersKeep DEF RekeyInv

LEMMA JobDiesInv ==
    ASSUME RekeyInv, NEW j \in Jobs, JobDies(j)
    PROVE  RekeyInv'
<1>1. /\ job' = [job EXCEPT ![j] = [NewJob EXCEPT !.pc = "ended"]]
      /\ left' = CASE job[j].pc = "repoint" -> left \cup {New(j, job[j].file)}
                   [] job[j].pc = "drop"    -> left \cup {Old(j)}
                   [] OTHER                 -> left
      /\ UNCHANGED <<att, object, jobLock, eraser>>
  BY DEF JobDies, JobAt, JobEnds
<1>2. left \subseteq Objects BY RekeyTypes DEF RekeyInv
<1>3. ASSUME job[j].pc \in {"repoint", "drop"} PROVE job[j].file \in Files /\ Old(j) \in Objects
  <2>1. job[j].file \in job[j].todo BY <1>3 DEF RekeyInv, JobOk
  <2>2. job[j].file \in Files BY <2>1, RekeyTypes DEF RekeyInv, JobRecords
  <2>3. job[j].loaded[job[j].file] \in Row
    BY <2>1, <2>2, RekeyTypes DEF RekeyInv, JobOk, JobRecords
  <2> QED BY <2>2, <2>3 DEF Old, Row
<1>4. /\ left' \in SUBSET Objects /\ left \subseteq left'
      /\ job[j].pc = "repoint" => New(j, job[j].file) \in left'
      /\ job[j].pc = "drop" => Old(j) \in left'
  <2>1. CASE job[j].pc = "repoint" BY <1>1, <1>2, <1>3, <2>1, FileKeys
  <2>2. CASE job[j].pc = "drop" BY <1>1, <1>2, <1>3, <2>2
  <2>3. CASE job[j].pc \notin {"repoint", "drop"}
    <3>1. left' = left BY <1>1, <2>3
    <3> QED BY <1>2, <2>3, <3>1
  <2> QED BY <2>1, <2>2, <2>3
<1> HIDE DEF Old
<1> QED BY <1>1, <1>4, RunEndsInv

\* A deletion of a case changes no run: of those, only the rows they meet.
LEMMA RunsKeep ==
    ASSUME RekeyInv, UNCHANGED <<job, object>>, \A f \in Files : att'[f] # Absent => att'[f] = att[f]
    PROVE  /\ \A j \in Jobs : JobOk(j)' /\ StoredOk(j)'
           /\ \A f \in Files : \A k : Taken(f, k) => Taken(f, k)'
           /\ \A f \in Files : KeyOk(f, att[f])'
<1>1. \A f \in Files : \A k : Taken(f, k) => Taken(f, k)' BY DEF Taken, Past, New
<1>2. ASSUME NEW j \in Jobs PROVE JobOk(j)' /\ StoredOk(j)'
  <2>1. job[j].pc = "drop" => job[j].file \in Files
    BY RekeyTypes DEF RekeyInv, JobOk, JobRecords
  <2> QED BY <1>1, <2>1 DEF RekeyInv, JobOk, StoredOk, KeyOk, Old, Uuid, New
<1>3. \A f \in Files : KeyOk(f, att[f])' BY <1>1 DEF RekeyInv, KeyOk, Uuid
<1> QED BY <1>1, <1>2, <1>3

LEMMA ReadKeyInv ==
    ASSUME RekeyInv, NEW f \in Files, ReadKey(f)
    PROVE  RekeyInv'
<1> DEFINE e == [pc |-> "delete", key |-> att[f].key]
<1>1. /\ eraser[f].pc = "no" /\ eraser' = [eraser EXCEPT ![f] = e]
      /\ UNCHANGED <<att, object, jobLock, job, left>>
  BY DEF ReadKey
<1>2. att[f] \in Row /\ att[f] # Absent /\ Taken(f, att[f].key)
  BY <1>1, RekeyTypes DEF RekeyInv, EraserOk, KeyOk
<1>3. e \in EraserRecords /\ e.pc = "delete" /\ e.key = att[f].key BY <1>2 DEF EraserRecords, Row
<1> HIDE DEF e
<1>4. eraser' \in [Files -> EraserRecords] /\ eraser'[f] = e /\ \A g \in Files \ {f} : eraser'[g] = eraser[g]
  BY <1>1, <1>3, RekeyTypes DEF RekeyInv
<1>5. RekeyTypeOK' BY <1>1, <1>4, RekeyTypes DEF RekeyInv, RekeyTypeOK, EraserRecords
<1>6. \A g \in Files : \A k : Taken(g, k) => Taken(g, k)' BY <1>1, RunsKeep
<1>7. ASSUME NEW g \in Files PROVE EraserOk(g)' /\ ObjectsOk(g)'
  <2>1. EraserOk(g)'
    <3>1. ASSUME NEW k, k = att[f].key PROVE Taken(f, k)' BY <1>2, <1>6, <3>1
    <3>2. CASE g = f
      <4>1. \A k : k = eraser'[f].key => Taken(f, k)' BY <1>3, <1>4, <3>1
      <4>2. Taken(f, eraser[f].key)'
        BY <4>1 DEF Taken, New, Past
      <4> QED BY <1>1, <1>2, <1>3, <1>4, <3>2, <4>2 DEF EraserOk
    <3>3. CASE g # f BY <1>1, <1>4, <1>6, <3>3 DEF RekeyInv, EraserOk
    <3> QED BY <3>2, <3>3
  <2>2. \A k : OnHand(g, k) => OnHand(g, k)' BY <1>1, <1>4 DEF OnHand, Old, New
  <2> QED BY <1>1, <2>1, <2>2 DEF RekeyInv, ObjectsOk, KeysOf
<1> QED BY <1>1, <1>5, <1>7, RunsKeep DEF RekeyInv

LEMMA EraseRowInv ==
    ASSUME RekeyInv, NEW f \in Files, EraseRow(f)
    PROVE  RekeyInv'
<1> DEFINE e == [eraser[f] EXCEPT !.pc = "drop"]
<1>1. /\ eraser[f].pc = "delete" /\ eraser' = [eraser EXCEPT ![f] = e]
      /\ att' = [att EXCEPT ![f] = Absent]
      /\ left' = IF att[f].key = eraser[f].key THEN left ELSE left \cup {att[f].key}
      /\ UNCHANGED <<object, jobLock, job>>
  BY DEF EraseRow
<1>2. att[f] \in Row /\ att[f] # Absent
  BY <1>1, RekeyTypes DEF RekeyInv, EraserOk
<1>3. e \in EraserRecords /\ e.pc = "drop" /\ e.key = eraser[f].key
  BY RekeyTypes DEF RekeyInv, EraserRecords
<1> HIDE DEF e
<1>4. eraser' \in [Files -> EraserRecords] /\ eraser'[f] = e /\ \A g \in Files \ {f} : eraser'[g] = eraser[g]
  BY <1>1, <1>3, RekeyTypes DEF RekeyInv
<1>5. att' \in [Files -> Row \cup {Absent}] /\ att'[f] = Absent /\ \A g \in Files \ {f} : att'[g] = att[g]
  BY <1>1, RekeyTypes DEF RekeyInv
<1>6. RekeyTypeOK'
  <2>1. left' \subseteq Objects BY <1>1, <1>2, RekeyTypes DEF RekeyInv, Row
  <2> QED BY <1>1, <1>4, <1>5, <2>1, RekeyTypes DEF RekeyInv, RekeyTypeOK, EraserRecords
<1>7. /\ \A j \in Jobs : JobOk(j)' /\ StoredOk(j)'
      /\ \A g \in Files : \A k : Taken(g, k) => Taken(g, k)'
      /\ \A g \in Files : KeyOk(g, att[g])'
  BY <1>1, <1>5, RunsKeep
<1>8. ASSUME NEW g \in Files PROVE EraserOk(g)' /\ ObjectsOk(g)'
  <2>1. EraserOk(g)'
    <3>1. eraser'[g].key = eraser[g].key BY <1>3, <1>4
    <3>2. eraser[g].pc # "no" => Taken(g, eraser[g].key)'
      BY <1>7, <3>1 DEF RekeyInv, EraserOk
    <3> QED BY <1>1, <1>3, <1>4, <1>5, <3>1, <3>2 DEF RekeyInv, EraserOk
  <2>2. \A k : OnHand(g, k) => OnHand(g, k)' BY <1>1, <1>3, <1>4 DEF OnHand, Old, New
  <2>5. left \subseteq left' /\ object' = object /\ ObjectsOk(g) BY <1>1 DEF RekeyInv
  <2>3. CASE g # f
    <3>1. att'[g] = att[g] BY <1>5, <2>3
    <3>2. ASSUME NEW k \in KeysOf(g), object'[k] # "absent"
          PROVE  (att'[g] # Absent /\ k = att'[g].key) \/ k \in left' \/ OnHand(g, k)'
      BY <2>2, <2>5, <3>1, <3>2 DEF ObjectsOk
    <3>3. att'[g] # Absent => object'[att'[g].key] = Content(att'[g].sealed)
      BY <2>5, <3>1 DEF ObjectsOk
    <3> QED BY <2>1, <3>2, <3>3 DEF ObjectsOk, KeysOf
  <2>4. CASE g = f
    <3>1. ASSUME NEW k, k = att[f].key PROVE k \in left' \/ OnHand(f, k)'
      BY <1>1, <1>3, <1>4, <3>1 DEF OnHand
    <3>2. att'[g] = Absent BY <1>5, <2>4
    <3>3. ASSUME NEW k \in KeysOf(g), object'[k] # "absent"
          PROVE  k \in left' \/ OnHand(g, k)'
      BY <2>2, <2>4, <2>5, <3>1, <3>3 DEF ObjectsOk
    <3> QED BY <2>1, <3>2, <3>3 DEF ObjectsOk, KeysOf
  <2> QED BY <2>1, <2>3, <2>4
<1> QED BY <1>6, <1>7, <1>8 DEF RekeyInv

LEMMA EraseObjectInv ==
    ASSUME RekeyInv, NEW f \in Files, NEW fails \in BOOLEAN, EraseObject(f, fails), NEW x, x = eraser[f].key
    PROVE  RekeyInv'
<1> DEFINE e == [eraser[f] EXCEPT !.pc = "done"]
<1>1. /\ eraser[f].pc = "drop" /\ eraser' = [eraser EXCEPT ![f] = e]
      /\ object' = [object EXCEPT ![x] = IF fails THEN @ ELSE "absent"]
      /\ left' = IF fails THEN left \cup {x} ELSE left
      /\ UNCHANGED <<att, jobLock, job>>
  BY DEF EraseObject
<1>2. Taken(f, x) /\ att[f] = Absent BY <1>1 DEF RekeyInv, EraserOk
<1>3. e \in EraserRecords /\ e.pc = "done" /\ e.key = x
  BY RekeyTypes DEF RekeyInv, EraserRecords
<1> HIDE DEF e
<1>4. eraser' \in [Files -> EraserRecords] /\ eraser'[f] = e /\ \A g \in Files \ {f} : eraser'[g] = eraser[g]
  BY <1>1, <1>3, RekeyTypes DEF RekeyInv
<1>5. /\ x \in Objects /\ object' \in [Objects -> {"absent", "plain", "sealed"}]
      /\ \A k \in Objects : k # x => object'[k] = object[k]
      /\ ~fails => object'[x] = "absent"
      /\ \A g \in Files : g # f => x \notin KeysOf(g)
      /\ \A i \in Jobs, g \in Files : ~Past(i, g) => object'[New(i, g)] = object[New(i, g)]
  BY <1>1, <1>2, DeleteKeeps
<1>6. RekeyTypeOK'
  <2>1. left' \subseteq Objects BY <1>1, <1>5, RekeyTypes DEF RekeyInv
  <2> QED BY <1>1, <1>4, <1>5, <2>1, RekeyTypes DEF RekeyInv, RekeyTypeOK, EraserRecords
<1>7. \A g \in Files : \A k : Taken(g, k) => Taken(g, k)' BY <1>1 DEF Taken, Past, New
<1>8. ASSUME NEW j \in Jobs PROVE JobOk(j)' /\ StoredOk(j)'
  <2>1. JobOk(j)' BY <1>1, <1>7 DEF RekeyInv, JobOk, KeyOk, Old, Uuid
  <2>2. StoredOk(j)'
    <3>1. ASSUME job[j].pc = "repoint" PROVE job[j].file \in Files /\ ~Past(j, job[j].file)
      BY <3>1, RekeyTypes DEF RekeyInv, JobOk, JobRecords, Past
    <3> QED BY <1>1, <1>5, <3>1 DEF RekeyInv, StoredOk, New
  <2> QED BY <2>1, <2>2
<1>9. ASSUME NEW g \in Files PROVE KeyOk(g, att[g])' /\ EraserOk(g)' /\ ObjectsOk(g)'
  <2>1. KeyOk(g, att[g])' BY <1>1, <1>7 DEF RekeyInv, KeyOk, Uuid
  <2>2. EraserOk(g)'
    <3>1. eraser'[g].key = eraser[g].key BY <1>3, <1>4
    <3>2. eraser[g].pc # "no" => Taken(g, eraser[g].key)'
      BY <1>7, <3>1 DEF RekeyInv, EraserOk
    <3> QED BY <1>1, <1>2, <1>3, <1>4, <3>1, <3>2 DEF RekeyInv, EraserOk
  <2>3. ASSUME NEW k, OnHand(g, k), ~(g = f /\ k = x) PROVE OnHand(g, k)'
    BY <1>1, <1>4, <2>3 DEF OnHand, Old, New
  <2>4. KeysOf(g) \subseteq Objects BY FileKeys
  <2>5. \A k \in KeysOf(g) : k # x => object'[k] = object[k] BY <1>5, <2>4
  <2>6. ASSUME NEW k \in KeysOf(g), object'[k] # "absent"
        PROVE  (att'[g] # Absent /\ k = att'[g].key) \/ k \in left' \/ OnHand(g, k)'
    BY <1>1, <1>5, <2>3, <2>5, <2>6 DEF RekeyInv, ObjectsOk
  <2>7. att[g] # Absent => g # f /\ att[g].key \in KeysOf(g)
    BY <1>2, TakenKeys DEF RekeyInv, KeyOk
  <2>8. ObjectsOk(g)' BY <1>1, <1>5, <2>5, <2>6, <2>7 DEF RekeyInv, ObjectsOk, KeysOf
  <2> QED BY <2>1, <2>2, <2>8
<1> QED BY <1>6, <1>8, <1>9 DEF RekeyInv

LEMMA RekeyInitInv == RekeyInit => RekeyInv
<1> SUFFICES ASSUME RekeyInit PROVE RekeyInv OBVIOUS
<1>1. PICK sealed \in [Files -> BOOLEAN] :
          /\ att = [f \in Files |-> [key |-> f, sealed |-> sealed[f]]]
          /\ object = [k \in Objects |-> IF Uuid(k) THEN "absent" ELSE Content(sealed[k])]
  BY DEF RekeyInit
<1>2. \A f \in Files : att[f] \in Row /\ att[f].key = f /\ att[f].sealed = sealed[f] /\ att[f] # Absent
  <2>1. \A f \in Files : att[f] \in Row /\ att[f].key = f /\ att[f].sealed = sealed[f]
    BY <1>1 DEF Row, Objects
  <2> QED BY <2>1, RekeyAssumption
<1>3. \A k \in Objects : object[k] \in {"absent", "plain", "sealed"} BY <1>1 DEF Content
<1>4. NewJob \in JobRecords /\ NewJob.pc = "idle" /\ NewJob.todo = {} /\ NewJob.loaded = [f \in Files |-> Absent]
  BY DEF NewJob, JobRecords
<1>5. \A j \in Jobs : job[j] = NewJob BY DEF RekeyInit
<1>6. \A f \in Files : eraser[f].pc = "no" BY DEF RekeyInit
<1>7. RekeyTypeOK
  <2>1. att \in [Files -> Row \cup {Absent}] BY <1>1, <1>2
  <2>2. object \in [Objects -> {"absent", "plain", "sealed"}] BY <1>1, <1>3
  <2>3. job \in [Jobs -> JobRecords] BY <1>4 DEF RekeyInit
  <2>4. eraser \in [Files -> EraserRecords] BY DEF RekeyInit, EraserRecords
  <2> QED BY <2>1, <2>2, <2>3, <2>4, RekeyTypes DEF RekeyInit
<1>8. \A j \in Jobs : JobOk(j) /\ StoredOk(j) BY <1>4, <1>5 DEF JobOk, StoredOk, KeyOk
<1>9. \A f \in Files : KeyOk(f, att[f]) /\ EraserOk(f) BY <1>2, <1>6, FileKeys DEF KeyOk, EraserOk, Taken
<1>10. ASSUME NEW f \in Files PROVE ObjectsOk(f)
  <2>1. object[f] = Content(sealed[f]) BY <1>1, FileKeys
  <2>2. ASSUME NEW k \in KeysOf(f), k # f PROVE object[k] = "absent"
    <3>1. k \in Objects /\ k \in Jobs \X {f} BY <2>2, FileKeys DEF KeysOf
    <3>2. Uuid(k) BY <3>1, RekeyAssumption DEF Uuid
    <3> QED BY <1>1, <3>1, <3>2
  <2> QED BY <1>2, <2>1, <2>2 DEF ObjectsOk
<1> QED BY <1>7, <1>8, <1>9, <1>10 DEF RekeyInv

LEMMA RekeyNextInv == RekeyInv /\ [RekeyNext]_rekeyVars => RekeyInv'
<1> SUFFICES ASSUME RekeyInv, [RekeyNext]_rekeyVars PROVE RekeyInv' OBVIOUS
<1>1. ASSUME NEW j \in Jobs, job[j].pc \in {"repoint", "drop"} PROVE job[j].file \in Files
  BY <1>1, RekeyTypes DEF RekeyInv, JobOk, JobRecords
<1>2. ASSUME NEW j \in Jobs, Repoint(j) PROVE RekeyInv'
  BY <1>1, <1>2, RepointInv, RepointGoneInv DEF Repoint, JobAt
<1>3. ASSUME NEW j \in Jobs, NEW fails \in BOOLEAN, DropObject(j, fails) PROVE RekeyInv'
  BY <1>1, <1>3, DropObjectInv DEF DropObject, JobAt
<1> QED
  BY <1>2, <1>3, TakeJobLockInv, JobLockInv, SelectRowsInv, RowsDoneInv, StoreNewInv, StoreFailsInv,
     JobDiesInv, ReadKeyInv, EraseRowInv, EraseObjectInv DEF RekeyNext

\* An attachment can be read as long as its row is there; of a deleted one no
\* object stays that nobody is to delete, but for what the code leaves behind.
THEOREM FilesCorrect == RekeySpec => []FilesFollowRows
<1>1. RekeyInv => FilesFollowRows
  <2> SUFFICES ASSUME RekeyInv, NEW f \in Files
               PROVE  IF att[f] # Absent
                        THEN object[att[f].key] = Content(att[f].sealed)
                        ELSE {k \in KeysOf(f) : Has(k)} \subseteq left \cup InHand(f)
    BY DEF FilesFollowRows
  <2>1. ObjectsOk(f) BY DEF RekeyInv
  <2>2. ASSUME NEW k, OnHand(f, k) PROVE k \in InHand(f) BY <2>2 DEF OnHand, InHand, JobAt
  <2> QED BY <2>1, <2>2 DEF ObjectsOk, Has
<1> QED BY <1>1, RekeyInitInv, RekeyNextInv, PTL DEF RekeySpec

----------------------------------------------------------------------------
(* Branding *)

\* A page that is loading has read a version there was, and what it loaded of
\* the current one is what the last save wrote.
PageOk(p) ==
    page[p].pc \in {"load", "store"} /\ p \notin before =>
        /\ page[p].version =< version
        /\ page[p].pc = "store" /\ page[p].version = version => page[p].rows = brand \/ unsaid

BrandInv ==
    /\ BrandingTypeOK
    /\ \A p \in Pages : PageOk(p)
    /\ \A p \in Pages : page[p].pc = "idle" => p \notin before
    /\ snap # NoSnapshot /\ snap.by \notin before => snap.version =< version
    /\ BrandCurrent

LEMMA BrandInitInv == BrandingInit => BrandInv
<1> SUFFICES ASSUME BrandingInit PROVE BrandInv OBVIOUS
<1>1. BrandingTypeOK
  <2>1. restarts \in 0..MaxRestarts /\ version \in Nat BY BrandingAssumption DEF BrandingInit
  <2>2. /\ save \in [Saves -> [pc : {"idle", "commit", "incr", "del", "saved", "refused", "error"}, row : Looks]]
        /\ page \in [Pages -> [pc : {"idle", "load", "store", "shown"}, version : Nat, rows : Looks]]
    BY DEF BrandingInit, Looks
  <2>3. unsaid \in BOOLEAN /\ before \subseteq Pages /\ snap = NoSnapshot /\ brand \in Looks
    BY DEF BrandingInit, Looks
  <2> QED BY <2>1, <2>2, <2>3 DEF BrandingTypeOK
<1>2. \A p \in Pages : page[p].pc = "idle" BY DEF BrandingInit
<1> QED BY <1>1, <1>2 DEF BrandingInit, BrandInv, PageOk, BrandCurrent, Valid

LEMMA BrandSaveInv ==
    ASSUME BrandInv, NEW s \in Saves,
           \/ \E ok \in BOOLEAN : LoadBrand(s, ok)
           \/ CommitBrand(s) \/ IncrVersion(s) \/ DelSnapshot(s) \/ SaveDies(s)
    PROVE  BrandInv'
<1>0. BrandingTypeOK BY DEF BrandInv
<1>1. BrandingTypeOK'
  <2> USE <1>0 DEF BrandingTypeOK
  <2>1. ASSUME NEW ok \in BOOLEAN, LoadBrand(s, ok) PROVE BrandingTypeOK' BY <2>1 DEF LoadBrand
  <2>2. CASE CommitBrand(s)
    <3>1. unsaid' \in BOOLEAN BY <2>2 DEF CommitBrand
    <3>2. brand' \in Looks /\ UNCHANGED <<snap, version, page, restarts, before>> BY <2>2 DEF CommitBrand, Looks
    <3>3. save' \in [Saves -> [pc : {"idle", "commit", "incr", "del", "saved", "refused", "error"}, row : Looks]]
      BY <2>2 DEF CommitBrand, SaveGo
    <3> QED BY <3>1, <3>2, <3>3
  <2>3. CASE IncrVersion(s)
    <3>1. unsaid' \in BOOLEAN BY <2>3 DEF IncrVersion
    <3>2. version' \in Nat /\ UNCHANGED <<brand, snap, page, restarts, before>> BY <2>3 DEF IncrVersion
    <3>3. save' \in [Saves -> [pc : {"idle", "commit", "incr", "del", "saved", "refused", "error"}, row : Looks]]
      BY <2>3 DEF IncrVersion, SaveGo
    <3> QED BY <3>1, <3>2, <3>3
  <2>4. CASE DelSnapshot(s) BY <2>4 DEF DelSnapshot, SaveGo
  <2>5. CASE SaveDies(s) BY <2>5 DEF SaveDies, SaveGo
  <2> QED BY <2>1, <2>2, <2>3, <2>4, <2>5
<1>2. UNCHANGED <<page, restarts, before>>
  BY DEF LoadBrand, CommitBrand, IncrVersion, DelSnapshot, SaveDies
<1>3. \/ UNCHANGED <<brand, version, unsaid>> /\ snap' \in {snap, NoSnapshot}
      \/ UNCHANGED <<version, snap>> /\ unsaid'
      \/ UNCHANGED <<brand, snap>> /\ version' = version + 1
  BY DEF LoadBrand, CommitBrand, IncrVersion, DelSnapshot, SaveDies
<1>4. \A p \in Pages : PageOk(p)'
  BY <1>0, <1>2, <1>3 DEF BrandInv, BrandingTypeOK, PageOk
<1>5. (snap # NoSnapshot /\ snap.by \notin before => snap.version =< version)'
  BY <1>0, <1>2, <1>3 DEF BrandInv, BrandingTypeOK
<1>6. BrandCurrent'
  BY <1>0, <1>2, <1>3 DEF BrandInv, BrandingTypeOK, BrandCurrent, Valid
<1> QED BY <1>1, <1>2, <1>4, <1>5, <1>6 DEF BrandInv

LEMMA BrandPageInv ==
    ASSUME BrandInv, NEW p \in Pages,
           ReadSnapshot(p) \/ LoadRows(p) \/ StoreSnapshot(p) \/ PageWithout(p)
    PROVE  BrandInv'
<1>0. BrandingTypeOK BY DEF BrandInv
<1>1. UNCHANGED <<brand, version, save, restarts, unsaid, before>>
  BY DEF ReadSnapshot, LoadRows, StoreSnapshot, PageWithout
<1>2. BrandingTypeOK'
  BY <1>0, <1>1 DEF BrandingTypeOK, ReadSnapshot, LoadRows, StoreSnapshot, PageWithout, PageGo, Looks, Valid
<1>3. \A q \in Pages \ {p} : page'[q] = page[q]
  BY <1>0 DEF ReadSnapshot, LoadRows, StoreSnapshot, PageWithout, PageGo, BrandingTypeOK
<1>4. page'[p].pc # "idle"
  BY <1>0 DEF ReadSnapshot, LoadRows, StoreSnapshot, PageWithout, PageGo, BrandingTypeOK
<1>5. PageOk(p)'
  <2>1. CASE ReadSnapshot(p) BY <1>0, <1>1, <2>1 DEF ReadSnapshot, PageOk, BrandingTypeOK
  <2>2. CASE LoadRows(p) BY <1>0, <1>1, <2>2 DEF LoadRows, PageOk, BrandInv, BrandingTypeOK
  <2>3. CASE StoreSnapshot(p) \/ PageWithout(p)
    <3>1. page'[p].pc = "shown" BY <1>0, <2>3 DEF StoreSnapshot, PageWithout, PageGo, BrandingTypeOK
    <3> QED BY <3>1 DEF PageOk
  <2> QED BY <2>1, <2>2, <2>3
<1>6. \A q \in Pages \ {p} : PageOk(q)' BY <1>1, <1>3 DEF BrandInv, PageOk
<1>7. (snap # NoSnapshot /\ snap.by \notin before => snap.version =< version)' /\ BrandCurrent'
  <2>1. CASE UNCHANGED snap BY <1>1, <2>1 DEF BrandInv, BrandCurrent, Valid
  <2>2. CASE StoreSnapshot(p)
    <3>1. snap' = [version |-> page[p].version, rows |-> page[p].rows, by |-> p] /\ page[p].pc = "store"
      BY <2>2 DEF StoreSnapshot
    <3> QED BY <1>1, <3>1 DEF BrandInv, PageOk, BrandCurrent, Valid
  <2> QED BY <2>1, <2>2 DEF ReadSnapshot, LoadRows, PageWithout
<1> QED BY <1>1, <1>2, <1>3, <1>4, <1>5, <1>6, <1>7 DEF BrandInv

LEMMA BrandRedisInv ==
    ASSUME BrandInv, SnapshotExpires \/ RedisRestarts
    PROVE  BrandInv'
<1>0. BrandingTypeOK BY DEF BrandInv
<1>1. snap' = NoSnapshot /\ UNCHANGED <<brand, save, page, unsaid>> BY DEF SnapshotExpires, RedisRestarts
<1>2. BrandingTypeOK' BY <1>0, <1>1, BrandingAssumption DEF BrandingTypeOK, SnapshotExpires, RedisRestarts
<1>3. \A p \in Pages : PageOk(p)' BY <1>1 DEF BrandInv, PageOk, SnapshotExpires, RedisRestarts
<1>4. \A p \in Pages : page'[p].pc = "idle" => p \notin before'
  BY <1>1 DEF BrandInv, SnapshotExpires, RedisRestarts
<1> QED BY <1>1, <1>2, <1>3, <1>4 DEF BrandInv, BrandCurrent, Valid

LEMMA BrandNextInv == BrandInv /\ [BrandingNext]_brandingVars => BrandInv'
<1>1. BrandInv /\ UNCHANGED brandingVars => BrandInv'
  BY DEF BrandInv, brandingVars, BrandingTypeOK, PageOk, BrandCurrent, Valid
<1> QED BY <1>1, BrandSaveInv, BrandPageInv, BrandRedisInv DEF BrandingNext

\* The pages show what the last save wrote, once it, or a later one, has told Redis.
THEOREM BrandCorrect == BrandingSpec => []BrandCurrent
<1>1. BrandInv => BrandCurrent BY DEF BrandInv
<1> QED BY <1>1, BrandInitInv, BrandNextInv, PTL DEF BrandingSpec

----------------------------------------------------------------------------
(* Rotation *)

\* What a run at work has read: a value it found empty is empty or new, one it
\* has to write is still to come, was written or was skipped, and what it has
\* written it holds, as it read it.
RunOk(s) ==
    /\ run[s].pc \in {"idle", "scan"} => run[s].set = {} /\ ~run[s].skipped
    /\ run[s].pc = "scan" => \A v \in Fields \ run[s].todo :
          run[s].read[v] = NoValue => token[v] = NoValue \/ token[v].key = current
    /\ run[s].pc = "write" => \A v \in Fields :
          /\ run[s].read[v] = NoValue => token[v] = NoValue \/ token[v].key = current
          /\ run[s].read[v] # NoValue => v \in run[s].todo \/ v \in run[s].set \/ run[s].skipped
          /\ v \in run[s].todo \cup run[s].set => run[s].read[v] # NoValue
          /\ v \in run[s].set => token[v] = run[s].read[v] /\ v \notin run[s].todo

RotationInv ==
    /\ RotationTypeOK
    /\ ValuesKept
    /\ \A s \in Runs : RunOk(s)
    /\ \A s, q \in Runs, v \in Fields : HeldBy(s, v) /\ HeldBy(q, v) => s = q
    /\ done => \A v \in Fields : token[v] = NoValue \/ token[v].key = current

LEMMA RotationInitInv == RotationInit => RotationInv
<1> SUFFICES ASSUME RotationInit PROVE RotationInv OBVIOUS
<1>1. \A s \in Runs : run[s] = NewRun BY DEF RotationInit
<1>2. RotationTypeOK
  <2>1. run \in [Runs -> [pc : {"idle", "scan", "write", "ended"}, todo : SUBSET Fields,
                         read : [Fields -> Token \cup {NoValue}], failed : BOOLEAN,
                         set : SUBSET Fields, skipped : BOOLEAN]]
    BY DEF RotationInit, NewRun
  <2>2. current \in KeyIds /\ text \in [Fields -> 0..MaxText]
    BY RotationAssumption DEF RotationInit, KeyIds
  <2>3. token \in [Fields -> Token \cup {NoValue}] /\ previous \subseteq KeyIds /\ done \in BOOLEAN
    BY DEF RotationInit
  <2> QED BY <2>1, <2>2, <2>3 DEF RotationTypeOK
<1>3. \A v \in Fields : token[v] = NoValue BY DEF RotationInit
<1>4. \A s \in Runs : RunOk(s) BY <1>1 DEF RunOk, NewRun
<1>5. \A s \in Runs, v \in Fields : ~HeldBy(s, v) BY <1>1 DEF HeldBy, NewRun
<1> QED BY <1>2, <1>3, <1>4, <1>5 DEF RotationInv, ValuesKept

\* A value that no run holds gets a new text under the current key, or goes.
LEMMA SealInv ==
    ASSUME RotationInv, NEW v \in Fields, Seal(v) \/ Erase(v)
    PROVE  RotationInv'
<1>0. RotationTypeOK /\ ValuesKept BY DEF RotationInv
<1>1. UNCHANGED <<current, previous, run, done>> /\ ~Held(v) BY DEF Seal, Erase
<1>2. /\ token'[v] = NoValue \/ (token'[v].text = text'[v] /\ token'[v].key = current)
      /\ \A w \in Fields \ {v} : token'[w] = token[w] /\ text'[w] = text[w]
  BY <1>0 DEF Seal, Erase, RotationTypeOK
<1>3. RotationTypeOK'
  <2>1. CASE Seal(v)
    <3>1. text[v] + 1 \in 1..MaxText BY <1>0, <2>1, RotationAssumption DEF Seal, RotationTypeOK
    <3>2. [text |-> text[v] + 1, key |-> current, by |-> Handlers] \in Token
      BY <1>0, <3>1 DEF RotationTypeOK, Token
    <3>3. token' \in [Fields -> Token \cup {NoValue}] BY <1>0, <2>1, <3>2 DEF Seal, RotationTypeOK
    <3>4. text' \in [Fields -> 0..MaxText] BY <1>0, <2>1, <3>1 DEF Seal, RotationTypeOK
    <3> QED BY <1>0, <1>1, <3>3, <3>4 DEF RotationTypeOK
  <2>2. CASE Erase(v) BY <1>0, <2>2 DEF Erase, RotationTypeOK
  <2> QED BY <2>1, <2>2
<1>4. ValuesKept' BY <1>0, <1>1, <1>2 DEF ValuesKept, Accepted
<1>5. \A s \in Runs : RunOk(s)'
  BY <1>1, <1>2 DEF RotationInv, RunOk, Held, HeldBy
<1>6. (\A s, q \in Runs, w \in Fields : HeldBy(s, w) /\ HeldBy(q, w) => s = q)'
  BY <1>1 DEF RotationInv, HeldBy
<1>7. (done => \A w \in Fields : token[w] = NoValue \/ token[w].key = current)'
  BY <1>1, <1>2 DEF RotationInv
<1> QED BY <1>3, <1>4, <1>5, <1>6, <1>7 DEF RotationInv

\* A run that writes nothing.
LEMMA ReadingInv ==
    ASSUME RotationInv, NEW s \in Runs,
           \/ StartRun(s) \/ BeginWrites(s) \/ RunDies(s)
           \/ \E v \in Fields : ScanValue(s, v) \/ WriteValue(s, v)
    PROVE  RotationInv'
<1>0. RotationTypeOK /\ ValuesKept BY DEF RotationInv
<1>1. UNCHANGED <<token, current, previous, done, text>>
  BY DEF StartRun, BeginWrites, RunDies, ScanValue, WriteValue
<1>2. \A q \in Runs \ {s} : run'[q] = run[q]
  BY <1>0 DEF StartRun, BeginWrites, RunDies, ScanValue, WriteValue, RotationTypeOK
<1>3. RotationTypeOK' /\ RunOk(s)' /\ \A v \in Fields : HeldBy(s, v)' => HeldBy(s, v) \/ ~Held(v)
  <2> DEFINE R == [pc : {"idle", "scan", "write", "ended"}, todo : SUBSET Fields,
                   read : [Fields -> Token \cup {NoValue}], failed : BOOLEAN,
                   set : SUBSET Fields, skipped : BOOLEAN]
  <2>0. run \in [Runs -> R] /\ token \in [Fields -> Token \cup {NoValue}] BY <1>0 DEF RotationTypeOK
  <2>a. ASSUME run' \in [Runs -> R] PROVE RotationTypeOK' BY <1>0, <1>1, <2>a DEF RotationTypeOK
  <2>1. CASE StartRun(s)
    <3>1. run' = [run EXCEPT ![s].pc = IF previous = {} THEN "ended" ELSE "scan", ![s].todo = Fields]
          /\ run[s].pc = "idle"
      BY <2>1 DEF StartRun
    <3>2. run' \in [Runs -> R]
      <4> DEFINE l == IF previous = {} THEN "ended" ELSE "scan"
      <4>1. [run[s] EXCEPT !.pc = l, !.todo = Fields] \in R BY <2>0
      <4> QED BY <2>0, <3>1, <4>1
    <3>3. run'[s].pc \in {"ended", "scan"} /\ run'[s].todo = Fields /\ run'[s].set = run[s].set
          /\ run'[s].skipped = run[s].skipped
      BY <2>0, <3>1
    <3> HIDE DEF R
    <3> QED BY <1>1, <2>a, <3>1, <3>2, <3>3 DEF RotationInv, RunOk, HeldBy
  <2>2. CASE BeginWrites(s)
    <3> DEFINE some == {v \in Fields : run[s].read[v] # NoValue}
    <3>1. run' = [run EXCEPT ![s].pc = IF run[s].failed THEN "ended" ELSE "write", ![s].todo = some]
          /\ run[s].pc = "scan" /\ run[s].todo = {}
      BY <2>2 DEF BeginWrites
    <3>2. run' \in [Runs -> R]
      <4> DEFINE l == IF run[s].failed THEN "ended" ELSE "write"
      <4>1. [run[s] EXCEPT !.pc = l, !.todo = some] \in R BY <2>0
      <4> QED BY <2>0, <3>1, <4>1
    <3>3. run'[s].pc \in {"ended", "write"} /\ run'[s].todo = some /\ run'[s].set = run[s].set
          /\ run'[s].skipped = run[s].skipped /\ run'[s].read = run[s].read
      BY <2>0, <3>1
    <3> HIDE DEF R
    <3> QED BY <1>1, <2>a, <3>1, <3>2, <3>3 DEF RotationInv, RunOk, HeldBy
  <2>3. CASE RunDies(s)
    <3>1. run' = [run EXCEPT ![s] = [NewRun EXCEPT !.pc = "ended"]] BY <2>3 DEF RunDies
    <3>2. run' \in [Runs -> R] BY <2>0, <3>1 DEF NewRun
    <3>3. run'[s].pc = "ended" BY <2>0, <3>1 DEF NewRun
    <3> HIDE DEF R
    <3> QED BY <2>a, <3>2, <3>3 DEF RunOk, HeldBy
  <2>4. ASSUME NEW v \in Fields, ScanValue(s, v) PROVE  /\ RotationTypeOK' /\ RunOk(s)'
             /\ \A w \in Fields : HeldBy(s, w)' => HeldBy(s, w) \/ ~Held(w)
    <3> DEFINE bad == token[v] # NoValue /\ token[v].key \notin Accepted
               worse == run[s].failed \/ bad
    <3>1. run' = [run EXCEPT ![s].todo = @ \ {v}, ![s].read[v] = token[v], ![s].failed = worse]
          /\ run[s].pc = "scan"
      BY <2>4 DEF ScanValue
    <3>2. worse \in BOOLEAN OBVIOUS
    <3> HIDE DEF worse
    <3>3. run' \in [Runs -> R]
      <4>1. run[s] \in R BY <2>0
      <4>2. [run[s].read EXCEPT ![v] = token[v]] \in [Fields -> Token \cup {NoValue}] BY <2>0
      <4>3. [run[s] EXCEPT !.todo = run[s].todo \ {v}, !.read = [run[s].read EXCEPT ![v] = token[v]],
                           !.failed = worse] \in R
        BY <3>2, <4>1, <4>2
      <4> QED BY <2>0, <3>1, <4>3
    <3>4. run'[s].pc = "scan" /\ run'[s].todo = run[s].todo \ {v} /\ run'[s].set = run[s].set
          /\ run'[s].skipped = run[s].skipped /\ run'[s].read = [run[s].read EXCEPT ![v] = token[v]]
      BY <2>0, <3>1
    <3>5. run[s].read \in [Fields -> Token \cup {NoValue}] BY <2>0
    <3> HIDE DEF R
    <3> QED BY <1>1, <2>a, <3>1, <3>3, <3>4, <3>5 DEF RotationInv, RunOk, HeldBy
  <2>5. ASSUME NEW v \in Fields, WriteValue(s, v) PROVE  /\ RotationTypeOK' /\ RunOk(s)'
             /\ \A w \in Fields : HeldBy(s, w)' => HeldBy(s, w) \/ ~Held(w)
    <3> DEFINE skip == run[s].skipped \/ ~Unchanged(s, v)
               set == IF Unchanged(s, v) THEN run[s].set \cup {v} ELSE run[s].set
    <3>1. run' = [run EXCEPT ![s].todo = @ \ {v}, ![s].set = set, ![s].skipped = skip]
          /\ run[s].pc = "write" /\ v \in run[s].todo /\ ~Held(v)
      BY <2>5 DEF WriteValue
    <3>2. skip \in BOOLEAN /\ set \subseteq Fields BY <2>0
    <3>a. /\ v \in set => token[v] = run[s].read[v] \/ v \in run[s].set
          /\ v \notin set => skip
          /\ run[s].skipped => skip
          /\ set \subseteq run[s].set \cup {v} /\ run[s].set \subseteq set
      BY DEF Unchanged
    <3> HIDE DEF skip, set
    <3>3. run' \in [Runs -> R]
      <4>1. [run[s] EXCEPT !.todo = run[s].todo \ {v}, !.set = set, !.skipped = skip] \in R BY <2>0, <3>2
      <4> QED BY <2>0, <3>1, <4>1
    <3>4. run'[s].pc = "write" /\ run'[s].todo = run[s].todo \ {v} /\ run'[s].set = set
          /\ run'[s].skipped = skip /\ run'[s].read = run[s].read
      BY <2>0, <3>1
    <3> HIDE DEF R
    <3>5. RunOk(s) BY DEF RotationInv
    <3>6. RunOk(s)'
      <4>1. \A w \in Fields :
              /\ run[s].read[w] = NoValue => token[w] = NoValue \/ token[w].key = current
              /\ run[s].read[w] # NoValue => w \in run[s].todo \/ w \in run[s].set \/ run[s].skipped
              /\ w \in run[s].todo \cup run[s].set => run[s].read[w] # NoValue
              /\ w \in run[s].set => token[w] = run[s].read[w] /\ w \notin run[s].todo
        BY <3>1, <3>5 DEF RunOk
      <4>2. \A w \in Fields :
              /\ run[s].read[w] # NoValue => w \in run[s].todo \ {v} \/ w \in set \/ skip
              /\ w \in (run[s].todo \ {v}) \cup set => run[s].read[w] # NoValue
              /\ w \in set => token[w] = run[s].read[w] /\ w \notin run[s].todo \ {v}
        BY <3>1, <3>a, <4>1
      <4> QED BY <1>1, <3>4, <4>1, <4>2 DEF RunOk
    <3>7. \A w \in Fields : HeldBy(s, w)' => HeldBy(s, w) \/ ~Held(w) BY <3>1, <3>a, <3>4 DEF HeldBy
    <3> QED BY <2>a, <3>3, <3>6, <3>7
  <2> QED BY <2>1, <2>2, <2>3, <2>4, <2>5
<1>4. \A q \in Runs \ {s} : RunOk(q)' BY <1>1, <1>2 DEF RotationInv, RunOk
<1>5. (\A p, q \in Runs, w \in Fields : HeldBy(p, w) /\ HeldBy(q, w) => p = q)'
  <2>1. \A q \in Runs \ {s}, w \in Fields : HeldBy(q, w)' => HeldBy(q, w) /\ Held(w)
    BY <1>2 DEF HeldBy, Held
  <2>2. \A p, q \in Runs, w \in Fields : HeldBy(p, w) /\ HeldBy(q, w) => p = q BY DEF RotationInv
  <2> QED BY <1>3, <2>1, <2>2
<1>6. ValuesKept' /\ (done => \A w \in Fields : token[w] = NoValue \/ token[w].key = current)'
  BY <1>1 DEF RotationInv, ValuesKept, Accepted
<1> QED BY <1>3, <1>4, <1>5, <1>6 DEF RotationInv

LEMMA EndedRun == [NewRun EXCEPT !.pc = "ended"].pc = "ended" /\ NewRun.pc = "idle"
BY DEF NewRun

LEMMA NewRunTyped ==
    LET R == [pc : {"idle", "scan", "write", "ended"}, todo : SUBSET Fields,
              read : [Fields -> Token \cup {NoValue}], failed : BOOLEAN,
              set : SUBSET Fields, skipped : BOOLEAN]
    IN  NewRun \in R /\ [NewRun EXCEPT !.pc = "ended"] \in R
BY DEF NewRun

LEMMA CommitRunInv ==
    ASSUME RotationInv, NEW s \in Runs, CommitRun(s)
    PROVE  RotationInv'
<1> DEFINE held == run[s].set
<1>0. RotationTypeOK /\ ValuesKept /\ RunOk(s) BY DEF RotationInv
<1>1. /\ run[s].pc = "write" /\ run[s].todo = {}
      /\ token' = [v \in Fields |-> IF v \in held THEN [text |-> run[s].read[v].text, key |-> current, by |-> s]
                                    ELSE token[v]]
      /\ done' = (done \/ ~run[s].skipped)
      /\ run' = [run EXCEPT ![s] = [NewRun EXCEPT !.pc = "ended"]]
      /\ UNCHANGED <<current, previous, text>>
  BY DEF CommitRun
<1>2. \A v \in held : v \in Fields /\ token[v] = run[s].read[v] /\ token[v] # NoValue
  BY <1>0, <1>1 DEF RotationTypeOK, RunOk
<1>3. /\ \A v \in held : token'[v].text = text[v] /\ token'[v].key = current /\ token'[v] \in Token
      /\ \A v \in Fields \ held : token'[v] = token[v]
  <2>1. ASSUME NEW v \in held PROVE token'[v].text = text[v] /\ token'[v].key = current /\ token'[v] \in Token
    <3>1. token'[v] = [text |-> token[v].text, key |-> current, by |-> s] BY <1>1, <1>2
    <3>2. token[v] \in Token /\ token[v].text = text[v] BY <1>0, <1>2 DEF RotationTypeOK, ValuesKept
    <3> QED BY <1>0, <3>1, <3>2 DEF Token, RotationTypeOK
  <2>2. \A v \in Fields \ held : token'[v] = token[v] BY <1>1
  <2> QED BY <2>1, <2>2
<1>4. /\ run'[s].pc = "ended" /\ \A q \in Runs \ {s} : run'[q] = run[q]
  BY <1>0, <1>1, EndedRun DEF RotationTypeOK
<1>5. RotationTypeOK'
  <2>1. token' \in [Fields -> Token \cup {NoValue}] BY <1>0, <1>1, <1>3 DEF RotationTypeOK
  <2>2. run' \in [Runs -> [pc : {"idle", "scan", "write", "ended"}, todo : SUBSET Fields,
                           read : [Fields -> Token \cup {NoValue}], failed : BOOLEAN,
                           set : SUBSET Fields, skipped : BOOLEAN]]
    BY <1>0, <1>1, NewRunTyped DEF RotationTypeOK
  <2>3. done' \in BOOLEAN BY <1>1
  <2> QED BY <1>0, <1>1, <2>1, <2>2, <2>3 DEF RotationTypeOK
<1>6. ValuesKept' BY <1>0, <1>1, <1>3 DEF ValuesKept, Accepted
<1>7. \A q \in Runs : RunOk(q)'
  <2>1. RunOk(s)' BY <1>4 DEF RunOk
  <2>2. ASSUME NEW q \in Runs \ {s} PROVE RunOk(q)'
    <3>1. RunOk(q) /\ run'[q] = run[q] BY <1>4 DEF RotationInv
    <3>2. \A v \in run[q].set : run[q].pc = "write" => v \notin held
      BY <1>1 DEF RotationInv, HeldBy, RotationTypeOK
    <3>3. \A v \in Fields : token[v] = NoValue \/ token[v].key = current
                              => token'[v] = NoValue \/ token'[v].key = current'
      BY <1>1, <1>3
    <3> QED BY <1>3, <3>1, <3>2, <3>3 DEF RunOk, RotationInv, RotationTypeOK
  <2> QED BY <2>1, <2>2
<1>8. (\A p, q \in Runs, v \in Fields : HeldBy(p, v) /\ HeldBy(q, v) => p = q)'
  BY <1>4 DEF RotationInv, HeldBy
<1>9. (done => \A v \in Fields : token[v] = NoValue \/ token[v].key = current)'
  <2>1. CASE done BY <1>1, <1>3, <2>1 DEF RotationInv
  <2>2. CASE ~run[s].skipped
    <3>1. \A v \in Fields \ held : token[v] = NoValue \/ token[v].key = current
      BY <1>0, <1>1, <2>2 DEF RunOk
    <3> QED BY <1>1, <1>3, <3>1
  <2> QED BY <1>1, <2>1, <2>2
<1> QED BY <1>5, <1>6, <1>7, <1>8, <1>9 DEF RotationInv

\* The operator recreates the container: no run is at work.
LEMMA OperatorInv ==
    ASSUME RotationInv, NewKey \/ EmptyPrevious
    PROVE  RotationInv'
<1>0. RotationTypeOK /\ ValuesKept BY DEF RotationInv
<1>1. /\ Recreated /\ UNCHANGED <<token, text>>
      /\ \/ current < MaxKey /\ current' = current + 1 /\ previous' = previous \cup {current} /\ done' = FALSE
         \/ done /\ previous' = {} /\ UNCHANGED <<current, done>>
  BY DEF NewKey, EmptyPrevious
<1>2. \A s \in Runs : run'[s] = NewRun \/ run'[s] = [NewRun EXCEPT !.pc = "ended"]
  BY <1>1 DEF Recreated
<1>3. \A s \in Runs : run'[s].pc \in {"idle", "ended"} /\ run'[s].set = {} /\ run'[s].skipped = FALSE
  BY <1>2 DEF NewRun
<1>4. RotationTypeOK'
  <2>1. run' \in [Runs -> [pc : {"idle", "scan", "write", "ended"}, todo : SUBSET Fields,
                           read : [Fields -> Token \cup {NoValue}], failed : BOOLEAN,
                           set : SUBSET Fields, skipped : BOOLEAN]]
    BY <1>1, NewRunTyped DEF Recreated
  <2>2. current' \in KeyIds /\ previous' \subseteq KeyIds
    <3>1. current \in KeyIds /\ previous \subseteq KeyIds BY <1>0 DEF RotationTypeOK
    <3>2. current < MaxKey => current + 1 \in KeyIds BY <3>1, RotationAssumption DEF KeyIds
    <3> QED BY <1>1, <3>1, <3>2
  <2>3. done' \in BOOLEAN BY <1>0, <1>1 DEF RotationTypeOK
  <2> QED BY <1>0, <1>1, <2>1, <2>2, <2>3 DEF RotationTypeOK
<1>5. \A s \in Runs : RunOk(s)' BY <1>3 DEF RunOk
<1>6. \A s \in Runs, v \in Fields : ~HeldBy(s, v)' BY <1>3 DEF HeldBy
<1>7. ValuesKept'
  <2>1. CASE previous' = previous \cup {current} BY <1>0, <1>1, <2>1 DEF ValuesKept, Accepted
  <2>2. CASE done /\ UNCHANGED current
    <3>1. \A v \in Fields : token[v] = NoValue \/ token[v].key = current BY <2>2 DEF RotationInv
    <3> QED BY <1>0, <1>1, <2>2, <3>1 DEF ValuesKept, Accepted
  <2> QED BY <1>1, <2>1, <2>2
<1>8. (done => \A v \in Fields : token[v] = NoValue \/ token[v].key = current)'
  BY <1>1 DEF RotationInv
<1> QED BY <1>4, <1>5, <1>6, <1>7, <1>8 DEF RotationInv

LEMMA RotationNextInv == RotationInv /\ [RotationNext]_rotationVars => RotationInv'
<1>1. RotationInv /\ UNCHANGED rotationVars => RotationInv'
  BY DEF RotationInv, rotationVars, RotationTypeOK, RunOk, HeldBy, ValuesKept, Accepted
<1> QED BY <1>1, SealInv, ReadingInv, CommitRunInv, OperatorInv DEF RotationNext

\* No rotation of the key loses a value, or brings back an earlier one.
THEOREM RotationCorrect == RotationSpec => []ValuesKept
<1>1. RotationInv => ValuesKept BY DEF RotationInv
<1> QED BY <1>1, RotationInitInv, RotationNextInv, PTL DEF RotationSpec

----------------------------------------------------------------------------
(* Telemetry *)

\* Who has taken the lock, of a Redis that still has it.
Holds(r) == r \notin torn /\ turn[r].pc \in {"ensure", "send", "note"}

\* The last success that was noted for the identifier a job has read is a day old.
Fresh(r) ==
    /\ success.id = turn[r].id => turn[r].at - success.at >= Day
    /\ turn[r].id = 0 => success.id = 0

TurnOk(r) ==
    /\ turn[r].pc # "idle" => turn[r].at =< clock /\ clock =< turn[r].at + Patience
    /\ turn[r].pc # "idle" /\ turn[r].id # 0 => consent # NoConsent /\ turn[r].id =< ids
    /\ turn[r].pc = "ensure" => turn[r].id = 0
    /\ turn[r].pc \in {"send", "note"} => turn[r].id # 0
    /\ Holds(r) => lockEnds >= turn[r].at + LockTtl
    /\ r \notin torn /\ turn[r].pc = "lock" => Fresh(r) \/ lockEnds > turn[r].at + Patience
    /\ r \notin torn /\ turn[r].pc = "ensure" => success.id = 0
    /\ r \notin torn /\ turn[r].pc = "send" => Fresh(r)
    /\ r \notin torn /\ turn[r].pc \in {"ensure", "send"} /\ tried.era = era =>
          clock - tried.at >= LockTtl - Patience

\* What the row, the lock and the histories say of each other.
RowOk ==
    /\ tried.era =< era
    /\ tried.era = era => lockEnds >= tried.at + LockTtl - Patience
    /\ success.id =< ids /\ success.at =< clock
    /\ success.id = 0 => success.at = Never
    /\ consent = NoConsent => ids = 0
    /\ consent # NoConsent =>
          consent.id =< ids /\ (success.id = consent.id => consent.last >= success.at)

OneHolder == \A r, q \in Replicas : Holds(r) /\ Holds(q) => r = q

TelInv == TelemetryTypeOK /\ (\A r \in Replicas : TurnOk(r)) /\ RowOk /\ OneHolder

Turns == [pc : {"idle", "lock", "ensure", "send", "note"}, at : 0..MaxClock, id : 0..MaxIds]

LEMMA Nats == /\ Day \in Nat /\ LockTtl \in Nat /\ MaxClock \in Nat /\ MaxIds \in Nat /\ MaxEras \in Nat
              /\ Patience \in Nat /\ 2 * Patience < LockTtl /\ LockTtl < Day
BY TelemetryAssumption

LEMMA TelInitInv == TelemetryInit => TelInv
<1> SUFFICES ASSUME TelemetryInit PROVE TelInv OBVIOUS
<1>1. \A r \in Replicas : turn[r].pc = "idle" /\ turn[r].id = 0 /\ turn[r].at = 0 BY DEF TelemetryInit, Idle
<1>2. TelemetryTypeOK
  <2>1. turn \in [Replicas -> Turns] BY Nats DEF TelemetryInit, Idle, Turns
  <2>2. /\ tried \in [at : -Day..MaxClock, era : 0..MaxEras] /\ success \in [at : -Day..MaxClock, id : 0..MaxIds]
    BY Nats DEF TelemetryInit, Never
  <2>3. lockEnds \in 0..(MaxClock + LockTtl) /\ clock \in 0..MaxClock /\ ids \in 0..MaxIds /\ era \in 0..MaxEras
    BY Nats DEF TelemetryInit
  <2> QED BY <2>1, <2>2, <2>3 DEF TelemetryInit, TelemetryTypeOK, Turns
<1>3. RowOk BY Nats DEF TelemetryInit, RowOk, Never
<1> QED BY <1>1, <1>2, <1>3 DEF TelInv, TurnOk, OneHolder, Holds

\* A job's own step: the other jobs and the clock stand still.
LEMMA LookInv ==
    ASSUME TelInv, NEW r \in Replicas, Look(r)
    PROVE  TelInv'
<1> USE Nats
<1>0. TelemetryTypeOK /\ RowOk /\ OneHolder /\ turn \in [Replicas -> Turns] BY DEF TelInv, TelemetryTypeOK, Turns
<1> DEFINE w == [pc |-> "lock", at |-> clock, id |-> IF consent = NoConsent THEN 0 ELSE consent.id]
<1>1. /\ turn' = [turn EXCEPT ![r] = w] /\ torn' = torn \ {r} /\ turn[r].pc = "idle"
      /\ consent # NoConsent => clock - consent.last >= Day
      /\ UNCHANGED <<env, consent, lockEnds, clock, ids, era, tried, success>>
  BY DEF Look, Due
<1>2. w \in Turns BY <1>0 DEF TelemetryTypeOK, Turns, State
<1>3. turn' \in [Replicas -> Turns] /\ turn'[r] = w /\ \A q \in Replicas \ {r} : turn'[q] = turn[q]
  BY <1>0, <1>1, <1>2
<1>4. TelemetryTypeOK' BY <1>0, <1>1, <1>3 DEF TelemetryTypeOK, Turns
<1>5. TurnOk(r)'
  <2>1. turn'[r].pc = "lock" /\ turn'[r].at = clock BY <1>3
  <2>2. Fresh(r)'
    <3>1. CASE consent = NoConsent
      <4>1. turn'[r].id = 0 BY <1>3, <3>1
      <4>2. success.id = 0 /\ success.at = Never BY <1>0, <3>1 DEF RowOk, TelemetryTypeOK
      <4> QED BY <1>0, <1>1, <2>1, <4>1, <4>2 DEF Fresh, Never, TelemetryTypeOK
    <3>2. CASE consent # NoConsent
      <4>1. turn'[r].id = consent.id BY <1>3, <3>2
      <4>2. consent.id # 0 /\ consent.last \in Int BY <1>0, <3>2 DEF TelemetryTypeOK, State
      <4> QED BY <1>0, <1>1, <2>1, <3>2, <4>1, <4>2 DEF Fresh, RowOk, TelemetryTypeOK
    <3> QED BY <3>1, <3>2
  <2>3. turn'[r].id # 0 => consent' # NoConsent /\ turn'[r].id =< ids BY <1>0, <1>1, <1>3 DEF RowOk
  <2> QED BY <1>0, <1>1, <2>1, <2>2, <2>3 DEF TurnOk, Holds, TelemetryTypeOK
<1>6. \A q \in Replicas \ {r} : TurnOk(q)' BY <1>1, <1>3 DEF TelInv, TurnOk, Holds, Fresh
<1>7. RowOk' BY <1>0, <1>1 DEF RowOk
<1>8. OneHolder' BY <1>0, <1>1, <1>3 DEF OneHolder, Holds
<1> QED BY <1>4, <1>5, <1>6, <1>7, <1>8 DEF TelInv

\* The turn of one job goes on or ends, where nothing else changes for it.
LEMMA TurnEndsInv ==
    ASSUME TelInv, NEW r \in Replicas, turn' = [turn EXCEPT ![r] = Idle],
           UNCHANGED <<env, consent, lockEnds, clock, ids, era, tried, success, torn>>
    PROVE  TelInv'
<1> USE Nats
<1>0. TelemetryTypeOK /\ RowOk /\ OneHolder /\ turn \in [Replicas -> Turns] BY DEF TelInv, TelemetryTypeOK, Turns
<1>1. Idle \in Turns /\ Idle.pc = "idle" BY DEF Idle, Turns
<1>2. turn' \in [Replicas -> Turns] /\ turn'[r].pc = "idle" /\ \A q \in Replicas \ {r} : turn'[q] = turn[q]
  BY <1>0, <1>1
<1>3. TelemetryTypeOK' BY <1>0, <1>2 DEF TelemetryTypeOK, Turns
<1>4. TurnOk(r)' BY <1>2 DEF TurnOk, Holds
<1>5. \A q \in Replicas \ {r} : TurnOk(q)' BY <1>2 DEF TelInv, TurnOk, Holds, Fresh
<1>6. RowOk' BY <1>0 DEF RowOk
<1>7. OneHolder' BY <1>0, <1>2 DEF OneHolder, Holds
<1> QED BY <1>3, <1>4, <1>5, <1>6, <1>7 DEF TelInv

LEMMA TakeLockInv ==
    ASSUME TelInv, NEW r \in Replicas, TakeLock(r)
    PROVE  TelInv'
<1> USE Nats
<1>0. TelemetryTypeOK /\ RowOk /\ OneHolder /\ turn \in [Replicas -> Turns] BY DEF TelInv, TelemetryTypeOK, Turns
<1>a. lockEnds \in Int /\ clock \in Int /\ clock =< MaxClock /\ clock >= 0 BY <1>0 DEF TelemetryTypeOK
<1>1. CASE lockEnds > clock BY <1>1, TurnEndsInv DEF TakeLock
<1>2. CASE lockEnds =< clock
  <2> DEFINE l == IF turn[r].id = 0 THEN "ensure" ELSE "send"
             w == [turn[r] EXCEPT !.pc = l]
  <2>1. /\ lockEnds' = clock + LockTtl /\ turn' = [turn EXCEPT ![r] = w] /\ turn[r].pc = "lock"
        /\ UNCHANGED <<env, consent, clock, ids, era, tried, success, torn>>
    BY <1>2, <1>a DEF TakeLock, TurnGo
  <2>2. w \in Turns /\ w.pc = l /\ w.id = turn[r].id /\ w.at = turn[r].at BY <1>0 DEF Turns
  <2>3. turn' \in [Replicas -> Turns] /\ turn'[r] = w /\ \A q \in Replicas \ {r} : turn'[q] = turn[q]
    BY <1>0, <2>1, <2>2
  <2> HIDE DEF w
  <2>4. lockEnds' \in 0..(MaxClock + LockTtl) /\ lockEnds' >= lockEnds BY <1>2, <1>a, <2>1
  <2>5. TelemetryTypeOK' BY <1>0, <2>1, <2>3, <2>4 DEF TelemetryTypeOK, Turns
  <2>6. \A q \in Replicas : turn[q].at \in Int /\ TurnOk(q) BY <1>0 DEF Turns, TelInv
  <2>7. \A q \in Replicas : ~Holds(q) BY <1>2, <1>a, <2>6 DEF TurnOk, Holds
  <2>8. \A q \in Replicas \ {r} : TurnOk(q)'
    BY <1>a, <2>1, <2>3, <2>4, <2>6, <2>7 DEF TurnOk, Holds, Fresh
  <2>9. r \notin torn => Fresh(r) BY <1>2, <1>a, <2>1, <2>6 DEF TurnOk
  <2>10. tried.era = era => clock - tried.at >= LockTtl - Patience
    BY <1>0, <1>2, <1>a DEF RowOk, TelemetryTypeOK
  <2>11. TurnOk(r)'
    BY <1>a, <2>1, <2>2, <2>3, <2>4, <2>6, <2>9, <2>10 DEF TurnOk, Holds, Fresh
  <2>12. RowOk' BY <1>0, <1>2, <1>a, <2>1, <2>4 DEF RowOk, TelemetryTypeOK
  <2>13. OneHolder' BY <2>1, <2>3, <2>7 DEF OneHolder, Holds
  <2> QED BY <2>5, <2>8, <2>11, <2>12, <2>13 DEF TelInv
<1> QED BY <1>1, <1>2, <1>a

\* The row that ensure_state leaves: a new identifier has no success yet.
LEMMA EnsuredRow ==
    ASSUME TelInv, NEW on \in BOOLEAN, Ensured(on)
    PROVE  /\ consent' \in State /\ consent' # NoConsent
           /\ ids' \in 0..MaxIds /\ ids' >= ids
           /\ consent'.id > 0 /\ consent'.id =< ids'
           /\ success.id = consent'.id => consent'.last >= success.at
<1> USE Nats
<1>0. TelemetryTypeOK /\ RowOk /\ NoConsent \notin State BY TelemetryAssumption DEF TelInv
<1>1. ids \in 0..MaxIds /\ success.id \in Int BY <1>0 DEF TelemetryTypeOK
<1>2. CASE consent # NoConsent
  <2>1. consent \in State BY <1>0, <1>2 DEF TelemetryTypeOK
  <2>2. ids' = ids /\ consent' = [consent EXCEPT !.enabled = on \/ consent.enabled] BY <1>2 DEF Ensured
  <2>3. consent'.id = consent.id /\ consent'.last = consent.last BY <2>1, <2>2 DEF State
  <2>4. consent' \in State
    <3>1. (on \/ consent.enabled) \in BOOLEAN OBVIOUS
    <3> QED BY <2>1, <2>2, <3>1 DEF State
  <2>5. consent.id \in 1..MaxIds BY <2>1 DEF State
  <2> QED BY <1>0, <1>1, <1>2, <2>2, <2>3, <2>4, <2>5 DEF RowOk
<1>3. CASE consent = NoConsent
  <2>1. ids < MaxIds /\ ids' = ids + 1 /\ consent' = [enabled |-> on, id |-> ids + 1, last |-> Never]
    BY <1>3 DEF Ensured
  <2>2. ids + 1 \in 1..MaxIds /\ Never \in -Day..MaxClock BY <1>1, <2>1 DEF Never
  <2>3. consent' \in State BY <2>1, <2>2 DEF State
  <2>4. consent'.id = ids + 1 /\ success.id # ids + 1 BY <1>0, <1>1, <2>1 DEF RowOk
  <2> QED BY <1>0, <1>1, <2>1, <2>2, <2>3, <2>4
<1> QED BY <1>2, <1>3

LEMMA EnsureStateInv ==
    ASSUME TelInv, NEW r \in Replicas, EnsureState(r)
    PROVE  TelInv'
<1> USE Nats
<1>0. TelemetryTypeOK /\ RowOk /\ OneHolder /\ turn \in [Replicas -> Turns] BY DEF TelInv, TelemetryTypeOK, Turns
<1>1. /\ Ensured(FALSE) /\ turn[r].pc = "ensure"
      /\ turn' = [turn EXCEPT ![r].pc = "send", ![r].id = consent'.id]
      /\ UNCHANGED <<env, lockEnds, clock, era, tried, success, torn>>
  BY DEF EnsureState
<1>2. /\ consent' \in State /\ consent' # NoConsent /\ ids' \in 0..MaxIds /\ ids' >= ids
      /\ consent'.id > 0 /\ consent'.id =< ids'
      /\ success.id = consent'.id => consent'.last >= success.at
  BY <1>1, EnsuredRow
<1>3. consent'.id \in 1..MaxIds BY <1>2 DEF State
<1> DEFINE w == [turn[r] EXCEPT !.pc = "send", !.id = consent'.id]
<1>4. w \in Turns /\ w.pc = "send" /\ w.id = consent'.id /\ w.at = turn[r].at
  <2>1. turn[r] \in Turns BY <1>0
  <2>2. /\ [turn[r] EXCEPT !.pc = "send"] \in Turns
        /\ [turn[r] EXCEPT !.pc = "send"].pc = "send" /\ [turn[r] EXCEPT !.pc = "send"].at = turn[r].at
    BY <2>1 DEF Turns
  <2>3. ASSUME NEW t \in Turns, NEW i \in 0..MaxIds
        PROVE  /\ [t EXCEPT !.id = i] \in Turns /\ [t EXCEPT !.id = i].id = i
               /\ [t EXCEPT !.id = i].pc = t.pc /\ [t EXCEPT !.id = i].at = t.at
    BY DEF Turns
  <2>4. consent'.id \in 0..MaxIds BY <1>3
  <2>5. w = [[turn[r] EXCEPT !.pc = "send"] EXCEPT !.id = consent'.id] OBVIOUS
  <2> HIDE DEF w
  <2> QED BY <2>2, <2>3, <2>4, <2>5
<1>5. turn' \in [Replicas -> Turns] /\ turn'[r] = w /\ \A q \in Replicas \ {r} : turn'[q] = turn[q]
  BY <1>0, <1>1, <1>4
<1> HIDE DEF w
<1>6. TelemetryTypeOK' BY <1>0, <1>1, <1>2, <1>5 DEF TelemetryTypeOK, Turns
<1>7. ids \in Int /\ ids' \in Int /\ \A q \in Replicas : turn[q].id \in Int /\ turn[q].at \in Int /\ TurnOk(q)
  BY <1>0, <1>2 DEF Turns, TelemetryTypeOK, TelInv
<1>8. \A q \in Replicas \ {r} : TurnOk(q)' BY <1>1, <1>2, <1>5, <1>7 DEF TurnOk, Holds, Fresh
<1>9. r \notin torn => success.id = 0 BY <1>1, <1>7 DEF TurnOk
<1>10. TurnOk(r)' BY <1>1, <1>2, <1>3, <1>4, <1>5, <1>7, <1>9 DEF TurnOk, Holds, Fresh
<1>11. RowOk' BY <1>0, <1>1, <1>2, <1>7 DEF RowOk, TelemetryTypeOK
<1>12. OneHolder' BY <1>0, <1>1, <1>4, <1>5 DEF OneHolder, Holds
<1> QED BY <1>6, <1>8, <1>10, <1>11, <1>12 DEF TelInv

LEMMA SendReportInv ==
    ASSUME TelInv, NEW r \in Replicas, NEW ok \in BOOLEAN, SendReport(r, ok)
    PROVE  TelInv'
<1> USE Nats
<1>0. TelemetryTypeOK /\ RowOk /\ OneHolder /\ turn \in [Replicas -> Turns] BY DEF TelInv, TelemetryTypeOK, Turns
<1> DEFINE w == IF ok THEN [turn[r] EXCEPT !.pc = "note"] ELSE Idle
<1>1. /\ turn[r].pc = "send"
      /\ tried' = IF r \in torn THEN tried ELSE [at |-> clock, era |-> era]
      /\ turn' = [turn EXCEPT ![r] = w]
      /\ UNCHANGED <<env, consent, lockEnds, clock, ids, era, success, torn>>
  BY DEF SendReport
<1>2. w \in Turns /\ (w.pc = "idle" \/ (w.pc = "note" /\ w.id = turn[r].id /\ w.at = turn[r].at))
  BY <1>0 DEF Turns, Idle
<1>3. turn' \in [Replicas -> Turns] /\ turn'[r] = w /\ \A q \in Replicas \ {r} : turn'[q] = turn[q]
  BY <1>0, <1>1, <1>2
<1> HIDE DEF w
<1>4. clock \in 0..MaxClock /\ lockEnds \in Int /\ era \in 0..MaxEras BY <1>0 DEF TelemetryTypeOK
<1>5. TelemetryTypeOK' BY <1>0, <1>1, <1>3, <1>4 DEF TelemetryTypeOK, Turns
<1>6. \A q \in Replicas : turn[q].id \in Int /\ turn[q].at \in Int /\ TurnOk(q) BY <1>0 DEF Turns, TelInv
<1>7. ASSUME NEW q \in Replicas \ {r} PROVE TurnOk(q)'
  <2>1. TurnOk(q) /\ turn'[q] = turn[q] BY <1>3, <1>6
  <2>2. r \in torn \/ ~Holds(q) BY <1>0, <1>1 DEF OneHolder, Holds
  <2> QED BY <1>1, <2>1, <2>2 DEF TurnOk, Holds, Fresh
<1>8. TurnOk(r)' BY <1>1, <1>2, <1>3, <1>6 DEF TurnOk, Holds, Fresh
<1>9. RowOk'
  <2>1. CASE r \in torn BY <1>0, <1>1, <2>1 DEF RowOk
  <2>2. CASE r \notin torn
    <3>1. tried'.at = clock /\ tried'.era = era BY <1>1, <2>2
    <3>2. lockEnds >= turn[r].at + LockTtl /\ clock =< turn[r].at + Patience
      BY <1>1, <1>6, <2>2 DEF TurnOk, Holds
    <3> QED BY <1>0, <1>1, <1>4, <1>6, <3>1, <3>2 DEF RowOk
  <2> QED BY <2>1, <2>2
<1>10. OneHolder' BY <1>0, <1>1, <1>2, <1>3 DEF OneHolder, Holds
<1> QED BY <1>5, <1>7, <1>8, <1>9, <1>10 DEF TelInv

LEMMA NoteSuccessInv ==
    ASSUME TelInv, NEW r \in Replicas, NoteSuccess(r)
    PROVE  TelInv'
<1> USE Nats
<1>0. TelemetryTypeOK /\ RowOk /\ OneHolder /\ turn \in [Replicas -> Turns] BY DEF TelInv, TelemetryTypeOK, Turns
<1>1. /\ turn[r].pc = "note" /\ turn' = [turn EXCEPT ![r] = Idle]
      /\ consent' = [consent EXCEPT !.last = clock]
      /\ success' = IF r \in torn THEN success ELSE [at |-> clock, id |-> turn[r].id]
      /\ UNCHANGED <<env, lockEnds, clock, ids, era, tried, torn>>
  BY DEF NoteSuccess
<1>2. Idle \in Turns /\ Idle.pc = "idle" BY DEF Idle, Turns
<1>3. turn' \in [Replicas -> Turns] /\ turn'[r].pc = "idle" /\ \A q \in Replicas \ {r} : turn'[q] = turn[q]
  BY <1>0, <1>1, <1>2
<1>4. \A q \in Replicas : turn[q].id \in 0..MaxIds /\ turn[q].at \in Int /\ TurnOk(q) BY <1>0 DEF Turns, TelInv
<1>5. turn[r].id # 0 /\ consent # NoConsent /\ turn[r].id =< ids BY <1>1, <1>4 DEF TurnOk
<1>6. clock \in 0..MaxClock /\ lockEnds \in Int /\ success.at \in Int /\ ids \in Int BY <1>0 DEF TelemetryTypeOK
<1>7. consent \in State /\ NoConsent \notin State BY <1>0, <1>5, TelemetryAssumption DEF TelemetryTypeOK
<1>8. consent' \in State /\ consent'.id = consent.id /\ consent'.last = clock /\ consent' # NoConsent
  <2>1. clock \in -Day..MaxClock BY <1>6
  <2> QED BY <1>1, <1>7, <2>1 DEF State
<1>9. success' \in [at : -Day..MaxClock, id : 0..MaxIds]
  <2>1. clock \in -Day..MaxClock BY <1>6
  <2> QED BY <1>0, <1>1, <1>4, <2>1 DEF TelemetryTypeOK
<1>10. TelemetryTypeOK' BY <1>0, <1>1, <1>3, <1>8, <1>9 DEF TelemetryTypeOK, Turns
<1>11. ASSUME NEW q \in Replicas \ {r} PROVE TurnOk(q)'
  <2>1. TurnOk(q) /\ turn'[q] = turn[q] BY <1>3, <1>4
  <2>2. CASE r \in torn BY <1>1, <1>5, <1>8, <2>1, <2>2 DEF TurnOk, Holds, Fresh
  <2>3. CASE r \notin torn
    <3>1. ~Holds(q) BY <1>0, <1>1, <2>3 DEF OneHolder, Holds
    <3>2. lockEnds >= turn[r].at + LockTtl /\ clock =< turn[r].at + Patience
      BY <1>1, <1>4, <2>3 DEF TurnOk, Holds
    <3>3. turn[q].pc # "idle" => lockEnds > turn[q].at + Patience
      BY <1>4, <1>6, <2>1, <3>2 DEF TurnOk
    <3> QED BY <1>1, <1>5, <1>8, <2>1, <3>1, <3>3 DEF TurnOk, Holds
  <2> QED BY <2>2, <2>3
<1>12. TurnOk(r)' BY <1>3 DEF TurnOk, Holds
<1>13. RowOk'
  <2>1. success'.at =< clock /\ success'.id =< ids /\ (success'.id = 0 => success'.at = Never)
    BY <1>0, <1>1, <1>5, <1>6 DEF RowOk
  <2> QED BY <1>0, <1>1, <1>5, <1>8, <2>1 DEF RowOk
<1>14. OneHolder' BY <1>0, <1>1, <1>3 DEF OneHolder, Holds
<1> QED BY <1>10, <1>11, <1>12, <1>13, <1>14 DEF TelInv

\* The administrator's switch and reset: the row changes under the jobs.
LEMMA SwitchInv ==
    ASSUME TelInv, ResetId \/ \E wanted \in BOOLEAN : Toggle(wanted)
    PROVE  TelInv'
<1> USE Nats
<1>0. TelemetryTypeOK /\ RowOk /\ OneHolder /\ turn \in [Replicas -> Turns] BY DEF TelInv, TelemetryTypeOK, Turns
<1>1. UNCHANGED <<env, lockEnds, turn, clock, era, tried, success, torn>> BY DEF ResetId, Toggle
<1>2. ids \in 0..MaxIds /\ success.id \in Int /\ NoConsent \notin State
  BY <1>0, TelemetryAssumption DEF TelemetryTypeOK
<1>3. /\ consent' \in State /\ consent' # NoConsent /\ ids' \in 0..MaxIds /\ ids' >= ids
      /\ consent'.id =< ids'
      /\ success.id = consent'.id => consent'.last >= success.at
  <2>1. CASE Toggle(TRUE) BY <2>1, EnsuredRow DEF Toggle
  <2>2. CASE Toggle(FALSE)
    <3>1. ids' = ids /\ consent # NoConsent /\ consent' = [consent EXCEPT !.enabled = FALSE] BY <2>2 DEF Toggle
    <3>2. consent \in State BY <1>0, <3>1 DEF TelemetryTypeOK
    <3>3. consent' \in State /\ consent'.id = consent.id /\ consent'.last = consent.last
      BY <3>1, <3>2 DEF State
    <3>4. consent.id =< ids /\ (success.id = consent.id => consent.last >= success.at)
      BY <1>0, <3>1 DEF RowOk
    <3>5. ids' \in 0..MaxIds /\ ids' >= ids BY <1>2, <3>1
    <3>6. consent' # NoConsent BY <1>2, <3>3
    <3> QED BY <3>1, <3>3, <3>4, <3>5, <3>6
  <2>3. CASE ResetId
    <3>1. ids < MaxIds /\ ids' = ids + 1 /\ consent # NoConsent
          /\ consent' = [consent EXCEPT !.id = ids + 1, !.last = Never]
      BY <2>3 DEF ResetId
    <3>2. ids + 1 \in 1..MaxIds /\ Never \in -Day..MaxClock BY <1>2, <3>1 DEF Never
    <3>3. consent \in State BY <1>0, <3>1 DEF TelemetryTypeOK
    <3>4. consent' \in State /\ consent'.id = ids + 1 BY <3>1, <3>2, <3>3 DEF State
    <3> QED BY <1>0, <1>2, <3>1, <3>2, <3>4 DEF RowOk
  <2> QED BY <2>1, <2>2, <2>3
<1>4. TelemetryTypeOK' BY <1>0, <1>1, <1>3 DEF TelemetryTypeOK
<1>5. \A q \in Replicas : turn[q].id \in Int /\ TurnOk(q) BY <1>0 DEF Turns, TelInv
<1>6. \A q \in Replicas : TurnOk(q)' BY <1>1, <1>2, <1>3, <1>5 DEF TurnOk, Holds, Fresh
<1>7. RowOk' BY <1>0, <1>1, <1>2, <1>3 DEF RowOk
<1>8. OneHolder' BY <1>0, <1>1 DEF OneHolder, Holds
<1> QED BY <1>4, <1>6, <1>7, <1>8 DEF TelInv

LEMMA LockForgottenInv ==
    ASSUME TelInv, LockForgotten
    PROVE  TelInv'
<1> USE Nats
<1>0. TelemetryTypeOK /\ RowOk /\ OneHolder BY DEF TelInv
<1>1. /\ era < MaxEras /\ era' = era + 1 /\ lockEnds' = 0
      /\ torn' = torn \cup {r \in Replicas : turn[r].pc # "idle"}
      /\ UNCHANGED <<env, consent, turn, clock, ids, tried, success>>
  BY DEF LockForgotten
<1>2. era \in 0..MaxEras /\ tried.era \in Int BY <1>0 DEF TelemetryTypeOK
<1>3. \A r \in Replicas : turn[r].pc # "idle" => r \in torn' BY <1>1
<1>4. TelemetryTypeOK'
  <2>1. era' \in 0..MaxEras /\ lockEnds' \in 0..(MaxClock + LockTtl) /\ torn' \subseteq Replicas
    BY <1>0, <1>1, <1>2 DEF TelemetryTypeOK
  <2> QED BY <1>0, <1>1, <2>1 DEF TelemetryTypeOK
<1>5. \A r \in Replicas : TurnOk(r)' BY <1>1, <1>3 DEF TelInv, TurnOk, Holds
<1>6. RowOk' BY <1>0, <1>1, <1>2 DEF RowOk
<1>7. OneHolder' BY <1>1, <1>3 DEF OneHolder, Holds
<1> QED BY <1>4, <1>5, <1>6, <1>7 DEF TelInv

LEMMA PassInv ==
    ASSUME TelInv, Pass
    PROVE  TelInv'
<1> USE Nats
<1>0. TelemetryTypeOK /\ RowOk /\ OneHolder /\ turn \in [Replicas -> Turns] BY DEF TelInv, TelemetryTypeOK, Turns
<1>1. /\ clock < MaxClock /\ clock' = clock + 1
      /\ \A r \in Replicas : turn[r].pc # "idle" => clock < turn[r].at + Patience
      /\ UNCHANGED <<env, consent, lockEnds, turn, ids, era, tried, success, torn>>
  BY DEF Pass
<1>2. clock \in 0..MaxClock /\ lockEnds \in Int /\ success.at \in Int /\ tried.at \in Int BY <1>0 DEF TelemetryTypeOK
<1>3. TelemetryTypeOK'
  <2>1. clock' \in 0..MaxClock BY <1>1, <1>2
  <2> QED BY <1>0, <1>1, <2>1 DEF TelemetryTypeOK
<1>4. \A r \in Replicas : turn[r].at \in Int /\ TurnOk(r) BY <1>0 DEF Turns, TelInv
<1>5. \A r \in Replicas : TurnOk(r)' BY <1>1, <1>2, <1>4 DEF TurnOk, Holds, Fresh
<1>6. RowOk' BY <1>0, <1>1, <1>2 DEF RowOk
<1>7. OneHolder' BY <1>0, <1>1 DEF OneHolder, Holds
<1> QED BY <1>3, <1>5, <1>6, <1>7 DEF TelInv

LEMMA TelNextInv == TelInv /\ [TelemetryNext]_telemetryVars => TelInv'
<1> SUFFICES ASSUME TelInv, [TelemetryNext]_telemetryVars PROVE TelInv' OBVIOUS
<1>1. CASE UNCHANGED telemetryVars
  BY <1>1 DEF telemetryVars, TelInv, TelemetryTypeOK, TurnOk, Holds, Fresh, RowOk, OneHolder
<1>2. ASSUME NEW r \in Replicas, CountFails(r) PROVE TelInv' BY <1>2, TurnEndsInv DEF CountFails
<1> QED
  BY <1>1, <1>2, LookInv, TakeLockInv, EnsureStateInv, SendReportInv, NoteSuccessInv, SwitchInv,
     LockForgottenInv, PassInv DEF TelemetryNext

\* One attempt a day, by one replica, but for a job that Redis forgot.
THEOREM CountedCorrect == TelemetrySpec => []CountedDaily
<1>1. TelInv => CountedDaily
  <2> SUFFICES ASSUME TelInv, NEW r \in Replicas \ torn, turn[r].pc = "send"
               PROVE  /\ tried.era = era => clock - tried.at >= LockTtl - Patience
                      /\ success.id = turn[r].id => clock - success.at >= Day
    BY DEF CountedDaily
  <2>1. TurnOk(r) /\ Fresh(r) BY DEF TelInv, TurnOk
  <2>2. turn[r].at \in Int /\ clock \in Int /\ success.at \in Int /\ Day \in Int
    BY Nats DEF TelInv, TelemetryTypeOK
  <2> QED BY <2>1, <2>2 DEF TurnOk, Fresh
<1> QED BY <1>1, TelInitInv, TelNextInv, PTL DEF TelemetrySpec

----------------------------------------------------------------------------
(* Types *)

\* The four kinds of upkeep keep the types of what they store, hold and remember.
THEOREM UpkeepTypeCorrect ==
    /\ RekeySpec => []RekeyTypeOK
    /\ BrandingSpec => []BrandingTypeOK
    /\ RotationSpec => []RotationTypeOK
    /\ TelemetrySpec => []TelemetryTypeOK
<1>1. RekeySpec => []RekeyTypeOK
  <2>1. RekeyInv => RekeyTypeOK BY DEF RekeyInv
  <2>2. QED BY <2>1, RekeyInitInv, RekeyNextInv, PTL DEF RekeySpec
<1>2. BrandingSpec => []BrandingTypeOK
  <2>1. BrandInv => BrandingTypeOK BY DEF BrandInv
  <2>2. QED BY <2>1, BrandInitInv, BrandNextInv, PTL DEF BrandingSpec
<1>3. RotationSpec => []RotationTypeOK
  <2>1. RotationInv => RotationTypeOK BY DEF RotationInv
  <2>2. QED BY <2>1, RotationInitInv, RotationNextInv, PTL DEF RotationSpec
<1>4. TelemetrySpec => []TelemetryTypeOK
  <2>1. TelInv => TelemetryTypeOK BY DEF TelInv
  <2>2. QED BY <2>1, TelInitInv, TelNextInv, PTL DEF TelemetrySpec
<1>5. QED BY <1>1, <1>2, <1>3, <1>4
=============================================================================
