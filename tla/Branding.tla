------------------------------ MODULE Branding ------------------------------
(***************************************************************************)
(* The instance's branding: rows in PostgreSQL that the admin page changes *)
(* (src/app/api/branding.py), and the snapshot of them in Redis that every *)
(* page reads (src/app/services/branding.py).                              *)
(*                                                                         *)
(* A page that misses the snapshot loads the rows and stores a new one,    *)
(* after a save may have changed them: the snapshot carries the version    *)
(* that was current before its rows were loaded.  Redis has no copy on     *)
(* disk: it forgets snapshot and version when it restarts.                 *)
(***************************************************************************)
LOCAL INSTANCE Naturals

CONSTANTS
    Saves,       \* posts and resets of the admin page; a save's look is named by it
    Pages,       \* page views
    NoSnapshot,
    NoRow,
    MaxRestarts  \* bound: of Redis

ASSUME BrandingAssumption == NoRow \notin Saves /\ MaxRestarts \in Nat

VARIABLES
    brand,     \* the row of "branding": the save that wrote it, or NoRow
    snap,      \* branding:snapshot
    version,   \* branding:version, 0 if it is not set
    save,      \* per save: its step, and the row it loaded
    page,      \* per page view: its step, the version it read, the rows it loaded
    restarts,
    \* history
    unsaid,    \* a COMMIT that no INCR followed yet
    before     \* page views that were under way when Redis restarted

brandingVars == <<brand, snap, version, save, page, restarts, unsaid, before>>

Looks == Saves \cup {NoRow}

BrandingTypeOK ==
    /\ brand \in Looks
    /\ snap \in [version : Nat, rows : Looks, by : Pages] \cup {NoSnapshot}
    /\ version \in Nat /\ restarts \in 0..MaxRestarts
    /\ save \in [Saves -> [pc : {"idle", "commit", "incr", "del", "saved", "refused", "error"}, row : Looks]]
    /\ page \in [Pages -> [pc : {"idle", "load", "store", "shown"}, version : Nat, rows : Looks]]
    /\ unsaid \in BOOLEAN /\ before \subseteq Pages

BrandingInit ==
    /\ brand = NoRow /\ snap = NoSnapshot /\ version = 0 /\ restarts = 0
    /\ save = [s \in Saves |-> [pc |-> "idle", row |-> NoRow]]
    /\ page = [p \in Pages |-> [pc |-> "idle", version |-> 0, rows |-> NoRow]]
    /\ unsaid = FALSE /\ before = {}

----------------------------------------------------------------------------
SaveGo(s, l) == save' = [save EXCEPT ![s].pc = l]
PageGo(p, l) == page' = [page EXCEPT ![p].pc = l]

\* branding_post, branding_reset: refused (form, demo), or row_for.
LoadBrand(s, ok) ==
    /\ save[s].pc = "idle"
    /\ save' = [save EXCEPT ![s] = [pc |-> IF ok THEN "commit" ELSE "refused", row |-> brand]]
    /\ UNCHANGED <<brand, snap, version, page, restarts, unsaid, before>>

\* COMMIT of an UPDATE, or of an INSERT that the unique index may refuse.
CommitBrand(s) ==
    /\ save[s].pc = "commit"
    /\ IF save[s].row = NoRow /\ brand # NoRow
         THEN SaveGo(s, "error") /\ UNCHANGED <<brand, unsaid>>
         ELSE brand' = s /\ unsaid' = TRUE /\ SaveGo(s, "incr")
    /\ UNCHANGED <<snap, version, page, restarts, before>>

\* invalidate
IncrVersion(s) ==
    /\ save[s].pc = "incr"
    /\ version' = version + 1
    /\ unsaid' = FALSE
    /\ SaveGo(s, "del")
    /\ UNCHANGED <<brand, snap, page, restarts, before>>

DelSnapshot(s) ==
    /\ save[s].pc = "del"
    /\ snap' = NoSnapshot
    /\ SaveGo(s, "saved")
    /\ UNCHANGED <<brand, version, page, restarts, unsaid, before>>

\* The worker dies, or Redis does not answer.
SaveDies(s) ==
    /\ save[s].pc \in {"commit", "incr", "del"}
    /\ SaveGo(s, "error")
    /\ UNCHANGED <<brand, snap, version, page, restarts, unsaid, before>>

----------------------------------------------------------------------------
\* A snapshot loaded before the last invalidate carries an older version.
Valid == snap # NoSnapshot /\ snap.version = version

\* snapshot: MGET, a valid one is used.
ReadSnapshot(p) ==
    /\ page[p].pc = "idle"
    /\ page' = [page EXCEPT ![p] = [pc |-> IF Valid THEN "shown" ELSE "load", version |-> version,
                                    rows |-> IF Valid THEN snap.rows ELSE NoRow]]
    /\ UNCHANGED <<brand, snap, version, save, restarts, unsaid, before>>

LoadRows(p) ==
    /\ page[p].pc = "load"
    /\ page' = [page EXCEPT ![p].pc = "store", ![p].rows = brand]
    /\ UNCHANGED <<brand, snap, version, save, restarts, unsaid, before>>

\* Mutant: the version is that of the moment it is stored.
StoreSnapshotNow(p) ==
    /\ page[p].pc = "store"
    /\ snap' = [version |-> version, rows |-> page[p].rows, by |-> p]
    /\ PageGo(p, "shown")
    /\ UNCHANGED <<brand, version, save, restarts, unsaid, before>>

\* _store, with the version that was read before the rows.
StoreSnapshot(p) ==
    /\ page[p].pc = "store"
    /\ snap' = [version |-> page[p].version, rows |-> page[p].rows, by |-> p]
    /\ PageGo(p, "shown")
    /\ UNCHANGED <<brand, version, save, restarts, unsaid, before>>

\* load_branding: without Redis or the database the page has the environment's.
PageWithout(p) ==
    /\ page[p].pc \in {"idle", "load", "store"}
    /\ page' = [page EXCEPT ![p].pc = "shown", ![p].rows = NoRow]
    /\ UNCHANGED <<brand, snap, version, save, restarts, unsaid, before>>

\* CACHE_SECONDS have passed.
SnapshotExpires ==
    /\ snap # NoSnapshot /\ snap' = NoSnapshot
    /\ UNCHANGED <<brand, version, save, page, restarts, unsaid, before>>

RedisRestarts ==
    /\ restarts < MaxRestarts /\ restarts' = restarts + 1
    /\ snap' = NoSnapshot /\ version' = 0
    /\ before' = before \cup {p \in Pages : page[p].pc \in {"load", "store"}}
    /\ UNCHANGED <<brand, save, page, unsaid>>

BrandingNext ==
    \/ \E s \in Saves :
          \/ \E ok \in BOOLEAN : LoadBrand(s, ok)
          \/ CommitBrand(s) \/ IncrVersion(s) \/ DelSnapshot(s) \/ SaveDies(s)
    \/ \E p \in Pages : ReadSnapshot(p) \/ LoadRows(p) \/ StoreSnapshot(p) \/ PageWithout(p)
    \/ SnapshotExpires \/ RedisRestarts

BrandingSpec == BrandingInit /\ [][BrandingNext]_brandingVars

----------------------------------------------------------------------------
(* Property *)

\* A snapshot pages use is what the last save wrote, once that save, or a later
\* one, has told Redis: however loads, saves and expiry interleave, unless the
\* page that stored it was under way when Redis forgot the version.
BrandCurrent ==
    Valid => snap.rows = brand \/ unsaid \/ snap.by \in before
=============================================================================
