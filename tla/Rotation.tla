------------------------------ MODULE Rotation ------------------------------
(***************************************************************************)
(* The change of ENCRYPTION_KEY: what is stored is sealed under one of the *)
(* configured keys, new values under the current one                       *)
(* (src/app/services/encryption.py, crypto.py), and a script rewraps the   *)
(* rest while the instance runs (src/scripts/rotate_encryption_key.py).    *)
(*                                                                         *)
(* The script reads every value first, and writes them all in a second     *)
(* transaction; requests write in between.  A token is its text, its key   *)
(* and who sealed it: sealing twice gives two tokens.  The operator does   *)
(* as the script's documentation says: the old key goes on being accepted  *)
(* until a run has ended without asking for another.                       *)
(***************************************************************************)
LOCAL INSTANCE Integers

CONSTANTS
    Fields,    \* encrypted values, one per row and column
    Runs,      \* runs of the script
    NoValue,
    Handlers,  \* what seals a value that is not a run
    MaxKey,    \* bound: keys, in the order they were made
    MaxText    \* bound: texts of a value

ASSUME RotationAssumption ==
    /\ MaxKey \in Nat \ {0} /\ MaxText \in Nat /\ Handlers \notin Runs

VARIABLES
    token,    \* per value: its column, or NoValue
    current, previous,  \* ENCRYPTION_KEY, ENCRYPTION_KEY_PREVIOUS
    run,      \* per run: its step, what it read, what it has to go through
    done,     \* a run under the current key ended and asked for no other
    text      \* history: per value, the text that was written last

rotationVars == <<token, current, previous, run, done, text>>

KeyIds == 1..MaxKey
Token == [text : 1..MaxText, key : KeyIds, by : Runs \cup {Handlers}]
NewRun == [pc |-> "idle", todo |-> {}, read |-> [v \in Fields |-> NoValue], failed |-> FALSE,
           set |-> {}, skipped |-> FALSE]

RotationTypeOK ==
    /\ token \in [Fields -> Token \cup {NoValue}]
    /\ current \in KeyIds /\ previous \subseteq KeyIds
    /\ run \in [Runs -> [pc : {"idle", "scan", "write", "ended"}, todo : SUBSET Fields,
                         read : [Fields -> Token \cup {NoValue}], failed : BOOLEAN,
                         set : SUBSET Fields, skipped : BOOLEAN]]
    /\ done \in BOOLEAN
    /\ text \in [Fields -> 0..MaxText]

RotationInit ==
    /\ token = [v \in Fields |-> NoValue] /\ text = [v \in Fields |-> 0]
    /\ current = 1 /\ previous = {}
    /\ run = [s \in Runs |-> NewRun]
    /\ done = FALSE

----------------------------------------------------------------------------
\* encryption_keys
Accepted == {current} \cup previous

\* An UPDATE holds its row until the COMMIT.
HeldBy(s, v) == run[s].pc = "write" /\ v \in run[s].set
Held(v)      == \E s \in Runs : HeldBy(s, v)

\* A handler seals a new text under the current key.
Seal(v) ==
    /\ ~ Held(v) /\ text[v] < MaxText
    /\ text' = [text EXCEPT ![v] = @ + 1]
    /\ token' = [token EXCEPT ![v] = [text |-> text[v] + 1, key |-> current, by |-> Handlers]]
    /\ UNCHANGED <<current, previous, run, done>>

\* The row is deleted.
Erase(v) ==
    /\ ~ Held(v) /\ token[v] # NoValue
    /\ token' = [token EXCEPT ![v] = NoValue]
    /\ UNCHANGED <<current, previous, run, done, text>>

----------------------------------------------------------------------------
(* The script *)

\* main: refuses without a previous key.
StartRun(s) ==
    /\ run[s].pc = "idle"
    /\ run' = [run EXCEPT ![s].pc = IF previous = {} THEN "ended" ELSE "scan", ![s].todo = Fields]
    /\ UNCHANGED <<token, current, previous, done, text>>

\* The SELECTs, column by column; a value no configured key opens is named.
ScanValue(s, v) ==
    /\ run[s].pc = "scan" /\ v \in run[s].todo
    /\ run' = [run EXCEPT ![s].todo = @ \ {v}, ![s].read[v] = token[v],
                          ![s].failed = @ \/ (token[v] # NoValue /\ token[v].key \notin Accepted)]
    /\ UNCHANGED <<token, current, previous, done, text>>

\* All read: nothing is written if one could not be.
BeginWrites(s) ==
    /\ run[s].pc = "scan" /\ run[s].todo = {}
    /\ run' = [run EXCEPT ![s].pc = IF run[s].failed THEN "ended" ELSE "write",
                          ![s].todo = {v \in Fields : run[s].read[v] # NoValue}]
    /\ UNCHANGED <<token, current, previous, done, text>>

\* Mutant: UPDATE ... WHERE id = :i.
UnchangedAnyway(s, v) == token[v] # NoValue

\* ... AND column = :old
Unchanged(s, v) == token[v] = run[s].read[v]

\* The guarded UPDATE, once no other transaction holds the row.
WriteValue(s, v) ==
    /\ run[s].pc = "write" /\ v \in run[s].todo /\ ~ Held(v)
    /\ run' = [run EXCEPT ![s].todo = @ \ {v},
                          ![s].set = IF Unchanged(s, v) THEN @ \cup {v} ELSE @,
                          ![s].skipped = @ \/ ~ Unchanged(s, v)]
    /\ UNCHANGED <<token, current, previous, done, text>>

\* COMMIT, and whether the operator is told to run the script again.
CommitRun(s) ==
    /\ run[s].pc = "write" /\ run[s].todo = {}
    /\ token' = [v \in Fields |->
                   IF v \in run[s].set
                     THEN [text |-> run[s].read[v].text, key |-> current, by |-> s] ELSE token[v]]
    /\ done' = (done \/ ~ run[s].skipped)
    /\ run' = [run EXCEPT ![s] = [NewRun EXCEPT !.pc = "ended"]]
    /\ UNCHANGED <<current, previous, text>>

\* The run dies, or two wait for each other's rows: it is rolled back.
RunDies(s) ==
    /\ run[s].pc \in {"scan", "write"}
    /\ run' = [run EXCEPT ![s] = [NewRun EXCEPT !.pc = "ended"]]
    /\ UNCHANGED <<token, current, previous, done, text>>

----------------------------------------------------------------------------
(* The operator: the container is recreated, runs in it end *)

Recreated == run' = [s \in Runs |-> IF run[s].pc = "idle" THEN NewRun ELSE [NewRun EXCEPT !.pc = "ended"]]

NewKey ==
    /\ current < MaxKey
    /\ current' = current + 1 /\ previous' = previous \cup {current}
    /\ done' = FALSE
    /\ Recreated
    /\ UNCHANGED <<token, text>>

EmptyPrevious ==
    /\ done /\ previous # {}
    /\ previous' = {}
    /\ Recreated
    /\ UNCHANGED <<token, current, done, text>>

RotationNext ==
    \/ \E v \in Fields : Seal(v) \/ Erase(v)
    \/ \E s \in Runs :
          \/ StartRun(s) \/ BeginWrites(s) \/ CommitRun(s) \/ RunDies(s)
          \/ \E v \in Fields : ScanValue(s, v) \/ WriteValue(s, v)
    \/ NewKey \/ EmptyPrevious

RotationSpec == RotationInit /\ [][RotationNext]_rotationVars

----------------------------------------------------------------------------
(* Property *)

\* Every value is the text that was written last, under a key the instance has:
\* whatever a run read before, and whatever was written, run or killed meanwhile.
ValuesKept ==
    \A v \in Fields : token[v] # NoValue => token[v].text = text[v] /\ token[v].key \in Accepted
=============================================================================
