-------------------------------- MODULE Rekey --------------------------------
(***************************************************************************)
(* The job that moves attachments stored under a file's name to random     *)
(* keys and seals the unsealed ones (rekey_legacy_objects in               *)
(* src/app/services/attachment.py), beside the deletion of their cases.    *)
(*                                                                         *)
(* The row and the object are in two stores, so a move is three writes:    *)
(* the new object, the row, the old object.  The job's lock is set once    *)
(* for an hour and never released: a longer run overlaps the next one.     *)
(***************************************************************************)

CONSTANTS
    Jobs,   \* the runs of the job, one per start of a replica
    Files,  \* attachments, each of a case of its own; also the key it was stored under
    Absent

New(j, f)  == <<j, f>>    \* generate_storage_key: a UUID
Objects    == Files \cup (Jobs \X Files)
Uuid(k)    == k \notin Files
KeysOf(f)  == {f} \cup (Jobs \X {f})

Row == [key : Objects, sealed : BOOLEAN]

ASSUME RekeyAssumption ==
    /\ Absent \notin Objects \cup Files \cup Row
    /\ Files \cap (Jobs \X Files) = {}

VARIABLES
    att,      \* per attachment: its row, or Absent once the case is deleted
    object,   \* per key: what the bucket holds
    jobLock,  \* openwhistle:job_lock:s3_rekey
    job,      \* per run: its step, the rows it loaded, and the one it works on
    eraser,   \* per attachment: the deletion of its case
    left      \* history: objects that nobody is going to delete

rekeyVars == <<att, object, jobLock, job, eraser, left>>

RekeyTypeOK ==
    /\ att \in [Files -> Row \cup {Absent}]
    /\ object \in [Objects -> {"absent", "plain", "sealed"}]
    /\ jobLock \in BOOLEAN
    /\ job \in [Jobs -> [pc : {"idle", "select", "rows", "repoint", "drop", "ended"},
                         loaded : [Files -> Row \cup {Absent}], todo : SUBSET Files, file : Files \cup {Absent}]]
    /\ eraser \in [Files -> [pc : {"no", "delete", "drop", "done"}, key : Objects \cup {Absent}]]
    /\ left \subseteq Objects

NewJob == [pc |-> "idle", loaded |-> [f \in Files |-> Absent], todo |-> {}, file |-> Absent]

Content(sealed) == IF sealed THEN "sealed" ELSE "plain"

RekeyInit ==
    /\ \E sealed \in [Files -> BOOLEAN] :
          /\ att = [f \in Files |-> [key |-> f, sealed |-> sealed[f]]]
          /\ object = [k \in Objects |-> IF Uuid(k) THEN "absent" ELSE Content(sealed[k])]
    /\ jobLock = FALSE
    /\ job = [j \in Jobs |-> NewJob]
    /\ eraser = [f \in Files |-> [pc |-> "no", key |-> Absent]]
    /\ left = {}

----------------------------------------------------------------------------
JobAt(j, l)  == job[j].pc = l
JobGo(j, l)  == job' = [job EXCEPT ![j].pc = l]
JobEnds(j)   == job' = [job EXCEPT ![j] = [NewJob EXCEPT !.pc = "ended"]]
Old(j)       == job[j].loaded[job[j].file].key
Has(k)       == object[k] # "absent"
NextRow(j)   == job' = [job EXCEPT ![j].pc = "rows", ![j].todo = @ \ {job[j].file}, ![j].file = Absent]
Legacy(row)  == row # Absent /\ ~ (Uuid(row.key) /\ row.sealed)

\* run_s3_rekey: SET NX ex=3600.
TakeJobLock(j) ==
    /\ JobAt(j, "idle")
    /\ jobLock' = TRUE
    /\ JobGo(j, IF jobLock THEN "ended" ELSE "select")
    /\ UNCHANGED <<att, object, eraser, left>>

JobLockExpires == jobLock /\ jobLock' = FALSE /\ UNCHANGED <<att, object, job, eraser, left>>

\* All rows with a key in the bucket, those to be moved in any order.
SelectRows(j) ==
    /\ JobAt(j, "select")
    /\ job' = [job EXCEPT ![j].pc = "rows", ![j].loaded = att, ![j].todo = {f \in Files : Legacy(att[f])}]
    /\ UNCHANGED <<att, object, jobLock, eraser, left>>

RowsDone(j) ==
    /\ JobAt(j, "rows") /\ job[j].todo = {}
    /\ JobEnds(j)
    /\ UNCHANGED <<att, object, jobLock, eraser, left>>

\* Mutant: the object is moved.
StoreNewMoves(j, f) ==
    /\ JobAt(j, "rows") /\ f \in job[j].todo
    /\ LET row == job[j].loaded[f] IN
         /\ Has(row.key) /\ (row.sealed \/ att[f] # Absent)
         /\ object' = [object EXCEPT ![New(j, f)] = "sealed", ![row.key] = "absent"]
    /\ job' = [job EXCEPT ![j].pc = "repoint", ![j].file = f]
    /\ UNCHANGED <<att, jobLock, eraser, left>>

\* A sealed object is copied; another is read and sealed with the case's key,
\* which a deleted case no longer has.
StoreNew(j, f) ==
    /\ JobAt(j, "rows") /\ f \in job[j].todo
    /\ LET row == job[j].loaded[f] IN
         /\ Has(row.key) /\ (row.sealed \/ att[f] # Absent)
         /\ object' = [object EXCEPT ![New(j, f)] = "sealed"]
    /\ job' = [job EXCEPT ![j].pc = "repoint", ![j].file = f]
    /\ UNCHANGED <<att, jobLock, eraser, left>>

\* The old object is not there, or the bucket does not answer: the row stays as
\* it was.  (A copy whose answer was lost may have been made.)
StoreFails(j, f, made) ==
    /\ JobAt(j, "rows") /\ f \in job[j].todo
    /\ made => Has(job[j].loaded[f].key)
    /\ object' = [object EXCEPT ![New(j, f)] = IF made THEN "sealed" ELSE @]
    /\ left' = IF made THEN left \cup {New(j, f)} ELSE left
    /\ job' = [job EXCEPT ![j].todo = @ \ {f}]
    /\ UNCHANGED <<att, jobLock, eraser>>

\* UPDATE by id and COMMIT, whatever the key is by now; a row that is gone raises
\* and ends the run.
Repoint(j) ==
    /\ JobAt(j, "repoint")
    /\ LET f == job[j].file
           k == New(j, f) IN
         IF att[f] # Absent
           THEN /\ att' = [att EXCEPT ![f] = [key |-> k, sealed |-> TRUE]]
                /\ left' = IF att[f].key = Old(j) THEN left ELSE left \cup {att[f].key}
                /\ JobGo(j, "drop")
           ELSE /\ left' = left \cup {k}
                /\ JobEnds(j)
                /\ UNCHANGED att
    /\ UNCHANGED <<object, jobLock, eraser>>

\* DELETE of the old object, on to the next row; the DELETE may fail.
DropObject(j, fails) ==
    /\ JobAt(j, "drop")
    /\ object' = [object EXCEPT ![Old(j)] = IF fails THEN @ ELSE "absent"]
    /\ left' = IF fails THEN left \cup {Old(j)} ELSE left
    /\ NextRow(j)
    /\ UNCHANGED <<att, jobLock, eraser>>

\* The replica dies, or cancels the job as it shuts down.
JobDies(j) ==
    /\ job[j].pc \in {"select", "rows", "repoint", "drop"}
    /\ left' = CASE JobAt(j, "repoint") -> left \cup {New(j, job[j].file)}
                 [] JobAt(j, "drop")    -> left \cup {Old(j)}
                 [] OTHER               -> left
    /\ JobEnds(j)
    /\ UNCHANGED <<att, object, jobLock, eraser>>

----------------------------------------------------------------------------
(* The deletion of a case *)

\* stored_object_keys
ReadKey(f) ==
    /\ eraser[f].pc = "no"
    /\ eraser' = [eraser EXCEPT ![f] = [pc |-> "delete", key |-> att[f].key]]
    /\ UNCHANGED <<att, object, jobLock, job, left>>

\* DELETE of the case, its rows with it, and COMMIT.
EraseRow(f) ==
    /\ eraser[f].pc = "delete"
    /\ att' = [att EXCEPT ![f] = Absent]
    /\ left' = IF att[f].key = eraser[f].key THEN left ELSE left \cup {att[f].key}
    /\ eraser' = [eraser EXCEPT ![f].pc = "drop"]
    /\ UNCHANGED <<object, jobLock, job>>

\* delete_stored_objects: best effort.
EraseObject(f, fails) ==
    /\ eraser[f].pc = "drop"
    /\ object' = [object EXCEPT ![eraser[f].key] = IF fails THEN @ ELSE "absent"]
    /\ left' = IF fails THEN left \cup {eraser[f].key} ELSE left
    /\ eraser' = [eraser EXCEPT ![f].pc = "done"]
    /\ UNCHANGED <<att, jobLock, job>>

RekeyNext ==
    \/ \E j \in Jobs :
          \/ TakeJobLock(j) \/ SelectRows(j) \/ RowsDone(j) \/ Repoint(j) \/ JobDies(j)
          \/ \E f \in Files : StoreNew(j, f) \/ \E made \in BOOLEAN : StoreFails(j, f, made)
          \/ \E fails \in BOOLEAN : DropObject(j, fails)
    \/ JobLockExpires
    \/ \E f \in Files : ReadKey(f) \/ EraseRow(f) \/ \E fails \in BOOLEAN : EraseObject(f, fails)

RekeySpec == RekeyInit /\ [][RekeyNext]_rekeyVars

----------------------------------------------------------------------------
(* Property *)

\* What somebody is still going to delete, or to point a row at.
InHand(f) ==
    {New(j, f) : j \in {i \in Jobs : JobAt(i, "repoint") /\ job[i].file = f}}
      \cup {Old(j) : j \in {i \in Jobs : JobAt(i, "drop") /\ job[i].file = f}}
      \cup (IF eraser[f].pc = "drop" THEN {eraser[f].key} ELSE {})

\* An attachment can be read as long as its row is there, also where runs
\* overlap or die between any two writes.  Of an attachment that was deleted no
\* object stays, except where a store failed or two were at the row at once.
FilesFollowRows ==
    \A f \in Files :
        IF att[f] # Absent
          THEN object[att[f].key] = Content(att[f].sealed)
          ELSE {k \in KeysOf(f) : Has(k)} \subseteq left \cup InHand(f)
=============================================================================
