---------------------------- MODULE CatalogRecovery ----------------------------
(* Bundles, snapshots and recovery of the template catalog: what a bundle      *)
(* holds (catalog_bundle.py, catalog_snapshot.py), how a restore lays it over  *)
(* the catalog that is there (catalog_recovery.py), and the normalization of   *)
(* sources (baseline_sources.py), among the edits that others commit.  The     *)
(* four layers are alike and stand as one: objects, their versions, and the    *)
(* children of a version (variants of a field, slots of a composition).        *)
EXTENDS Integers, FiniteSets

CONSTANTS
    Objects,     \* codes of objects
    Children,    \* children a version may have
    MaxNumber,   \* bound: versions of an object
    MaxEdits     \* bound: edits of others

ASSUME RecoveryAssumption ==
    {MaxNumber, MaxEdits} \subseteq Nat \ {0} /\ Objects # {} /\ Children # {}

VARIABLES
    catalog,  \* the tables of the database
    bundles,  \* the files: the baseline, and the copy a restore makes first
    copying,  \* the bundle that is being written, read by read
    restore,  \* the restore under way
    session,  \* its transaction: rows written, rows read, objects edited meanwhile
    outcome,  \* the last restore, until the next edit or restore (for the properties)
    edits     \* edits so far

recoveryVars == <<catalog, bundles, copying, restore, session, outcome, edits>>

Missing == -1          \* no row for the object; 0 is one with nothing published
VersionKeys == Objects \X (1 .. MaxNumber)
NoVersion == [status |-> "none", content |-> "none"]
NoHash == [content |-> "none", children |-> {}]

Empty == [pointer |-> [c \in Objects |-> Missing], version |-> [k \in VersionKeys |-> NoVersion],
          children |-> [k \in VersionKeys |-> {}]]
NoBundle == [written |-> FALSE]
NoRestore == [step |-> "idle"]
NotCopying == [to |-> "none"]
NoSession == [objects |-> {}, versions |-> {}, children |-> {}, seen |-> Empty,
              touched |-> {}, found |-> Empty]
NoOutcome == [done |-> FALSE]
First == CHOOSE child \in Children : TRUE

Exists(cat, k) == cat.version[k] # NoVersion

(* The foreign keys hold. *)
Linked(cat) ==
    \A k \in VersionKeys : /\ Exists(cat, k) => cat.pointer[k[1]] # Missing
                           /\ cat.children[k] # {} => Exists(cat, k)

VersionRow == [status: {"none", "draft", "published", "deprecated"},
               content: {"none", "written", "baseline"}]
Tables == [pointer: [Objects -> Missing .. MaxNumber], version: [VersionKeys -> VersionRow],
           children: [VersionKeys -> SUBSET Children]]
HashRow == [content: {"none", "written", "baseline"}, children: SUBSET Children]
Snapshots == [Objects -> [pointer: Missing .. MaxNumber, hash: HashRow]]
Bundle == [written: {TRUE}, whole: BOOLEAN, tables: Tables, snapshot: Snapshots]
Session == [objects: SUBSET Objects, versions: SUBSET VersionKeys,
            children: SUBSET (VersionKeys \X Children), seen: Tables,
            touched: SUBSET Objects, found: Tables]
Applying == {"objects", "versions", "pointers", "layers", "commit"}
Steps == {"previewed", "copying"} \cup Applying
Outcome == [done: {TRUE}, bundle: Bundle, found: Tables, touched: SUBSET Objects]
Copy == [to: {"baseline", "before"}, reads: 0 .. 6, tables: Tables, seen: Tables, whole: BOOLEAN]

RecoveryTypeOK ==
    /\ catalog \in Tables /\ Linked(catalog)
    /\ bundles \in [{"baseline", "before"} -> Bundle \cup {NoBundle}]
    /\ copying \in Copy \cup {NotCopying}
    /\ restore \in [step: Steps, bundle: Bundle] \cup {NoRestore}
    /\ session \in Session
    /\ outcome \in Outcome \cup {NoOutcome}
    /\ edits \in 0 .. MaxEdits

-----------------------------------------------------------------------------
(* Bundles *)

Hash(cat, k) == [content |-> cat.version[k].content, children |-> cat.children[k]]

(* _snapshot_rows *)
SnapshotOf(cat) ==
    [c \in Objects |->
       [pointer |-> cat.pointer[c],
        hash |-> IF cat.pointer[c] > 0 /\ Exists(cat, <<c, cat.pointer[c]>>)
                   THEN Hash(cat, <<c, cat.pointer[c]>>) ELSE NoHash]]

(* A deviation that RecoveryIsSound detects: no child is removed. *)
SyncedAddingOnly(cat, tables) ==
    [pointer |-> [c \in Objects |-> IF tables.pointer[c] # Missing THEN tables.pointer[c]
                                                                 ELSE cat.pointer[c]],
     version |-> [k \in VersionKeys |-> IF Exists(tables, k) THEN tables.version[k]
                                                      ELSE cat.version[k]],
     children |-> [k \in VersionKeys |-> tables.children[k] \cup cat.children[k]]]

(* apply_catalog_bundle: the rows of the bundle are inserted or written back;  *)
(* children are removed only from versions that have some in the bundle.       *)
Synced(cat, tables) ==
    [pointer |-> [c \in Objects |-> IF tables.pointer[c] # Missing THEN tables.pointer[c]
                                                                 ELSE cat.pointer[c]],
     version |-> [k \in VersionKeys |-> IF Exists(tables, k) THEN tables.version[k]
                                                      ELSE cat.version[k]],
     children |-> [k \in VersionKeys |-> IF tables.children[k] # {} THEN tables.children[k]
                                                             ELSE cat.children[k]]]

(* restore_snapshot raises when an object, a target or its content is not there. *)
Accepts(cat, snapshot) ==
    \A c \in Objects : LET row == snapshot[c]  k == <<c, row.pointer>> IN
      row.pointer # Missing =>
        /\ cat.pointer[c] # Missing
        /\ row.pointer > 0 => Exists(cat, k) /\ Hash(cat, k) = row.hash

Published(cat, snapshot, k) == snapshot[k[1]].pointer = k[2]

(* _restore_layer: the snapshot's versions are published, and no others. *)
RestoreLayer(cat, snapshot) ==
    [cat EXCEPT
       !.pointer = [c \in Objects |->
          IF cat.pointer[c] = Missing THEN Missing
          ELSE IF \E n \in 1 .. MaxNumber : Published(cat, snapshot, <<c, n>>)
            THEN CHOOSE n \in 1 .. MaxNumber : Published(cat, snapshot, <<c, n>>) ELSE 0],
       !.version = [k \in VersionKeys |->
          IF ~Exists(cat, k) THEN NoVersion
          ELSE IF Published(cat, snapshot, k) THEN [cat.version[k] EXCEPT !.status = "published"]
          ELSE IF cat.version[k].status = "published"
            THEN [cat.version[k] EXCEPT !.status = "deprecated"] ELSE cat.version[k]]]

Restores(cat, b) ==
    LET synced == Synced(cat, b.tables) IN Linked(synced) /\ Accepts(synced, b.snapshot)
Restored(cat, b) == RestoreLayer(Synced(cat, b.tables), b.snapshot)

(* What the restore's transaction reads: its own rows of the bundle's tables,  *)
(* over what others have committed by then.                                    *)
Mine(cat, tables, own) ==
    [pointer |-> [c \in Objects |-> IF c \in own.objects THEN tables.pointer[c]
                                                         ELSE cat.pointer[c]],
     version |-> [k \in VersionKeys |-> IF k \in own.versions THEN tables.version[k]
                                                              ELSE cat.version[k]],
     children |-> [k \in VersionKeys |->
        {x \in Children : IF <<k, x>> \in own.children THEN x \in tables.children[k]
                                                       ELSE x \in cat.children[k]}]]
SessionView == Mine(catalog, restore.bundle.tables, session)

(* The commit writes the attributes that the session changed, and no others.   *)
Flushed(cat, seen, next) ==
    [cat EXCEPT
       !.pointer = [c \in Objects |-> IF next.pointer[c] # seen.pointer[c] THEN next.pointer[c]
                                                                          ELSE cat.pointer[c]],
       !.version = [k \in VersionKeys |-> IF next.version[k] # seen.version[k]
          THEN [cat.version[k] EXCEPT !.status = next.version[k].status] ELSE cat.version[k]]]

-----------------------------------------------------------------------------
RecoveryInit ==
    /\ catalog = LET c == CHOOSE c \in Objects : TRUE IN
         [Empty EXCEPT !.pointer[c] = 1, !.children[<<c, 1>>] = {First},
                       !.version[<<c, 1>>] = [status |-> "published", content |-> "written"]]
    /\ bundles = [f \in {"baseline", "before"} |-> NoBundle]
    /\ copying = NotCopying
    /\ restore = NoRestore /\ session = NoSession
    /\ outcome = NoOutcome /\ edits = 0

VersionsOf(cat, c) == [n \in 1 .. MaxNumber |-> <<cat.version[<<c, n>>], cat.children[<<c, n>>]>>]
Changed(cat) == {c \in Objects : \/ cat.pointer[c] # catalog.pointer[c]
                                 \/ VersionsOf(cat, c) # VersionsOf(catalog, c)}

(* Rows that the restore has written are locked until it ends. *)
Unlocked(cat) ==
    /\ \A c \in session.objects : cat.pointer[c] = catalog.pointer[c]
    /\ \A k \in session.versions : cat.version[k] = catalog.version[k]
    /\ \A x \in session.children : x[2] \in cat.children[x[1]] <=> x[2] \in catalog.children[x[1]]

(* Edits of others, also while a restore applies: its advisory lock keeps out  *)
(* only other restores.  From its read of the pointers on, the restore may     *)
(* miss an edit.                                                               *)
Edit(cat) ==
    /\ edits < MaxEdits /\ Unlocked(cat)
    /\ catalog' = cat /\ cat # catalog
    /\ session' = IF restore.step \in {"layers", "commit"}
                    THEN [session EXCEPT !.touched = @ \cup Changed(cat)] ELSE session
    /\ edits' = edits + 1 /\ outcome' = NoOutcome
    /\ copying' = IF copying.to = "none" THEN copying ELSE [copying EXCEPT !.whole = FALSE]
    /\ UNCHANGED <<bundles, restore>>

NumbersOf(c) == {n \in 1 .. MaxNumber : Exists(catalog, <<c, n>>)}

CreateVersion(c) ==
    /\ Cardinality(NumbersOf(c)) < MaxNumber
    /\ \E children \in {{}, {First}} :
         LET k == <<c, Cardinality(NumbersOf(c)) + 1>> IN
         Edit([catalog EXCEPT
                 !.pointer[c] = IF @ = Missing THEN 0 ELSE @,
                 !.version[k] = [status |-> "draft", content |-> "written"],
                 !.children[k] = children])

Publish(c) ==
    \E n \in NumbersOf(c) :
      /\ catalog.version[<<c, n>>].status = "draft"
      /\ LET old == catalog.pointer[c]
             cat == IF old > 0 THEN [catalog EXCEPT !.version[<<c, old>>].status = "deprecated"]
                               ELSE catalog
         IN  Edit([cat EXCEPT !.version[<<c, n>>].status = "published", !.pointer[c] = n])

(* backfill_four_layer_foundation adds variants to a published version. *)
Backfill(c) ==
    /\ catalog.pointer[c] > 0
    /\ \E child \in Children : Edit([catalog EXCEPT !.children[<<c, catalog.pointer[c]>>] =
                                       @ \cup {child}])

(* normalize_baseline_sources: of a catalog with the codes of the snapshot; it *)
(* takes the lock of a restore (restore_snapshot).                             *)
NormalizeSources ==
    /\ bundles["baseline"].written /\ restore.step \in {"idle", "previewed"}
    /\ LET snapshot == bundles["baseline"].snapshot  cat == RestoreLayer(catalog, snapshot)
           baseline(v) == IF v = NoVersion THEN v ELSE [v EXCEPT !.content = "baseline"]
       IN  /\ \A c \in Objects : snapshot[c].pointer = Missing <=> catalog.pointer[c] = Missing
           /\ Accepts(catalog, snapshot)
           /\ Edit([cat EXCEPT !.version = [k \in VersionKeys |-> baseline(@[k])]])

(* A new, empty database.  It is restored into before anything is created in it: *)
(* an object of its own has another id, and the bundle's of that code is refused. *)
Reinstall ==
    /\ restore.step = "idle" /\ copying = NotCopying /\ edits < MaxEdits
    /\ catalog' = Empty /\ edits' = MaxEdits /\ outcome' = NoOutcome
    /\ UNCHANGED <<bundles, copying, restore, session>>

-----------------------------------------------------------------------------
(* create_catalog_bundle: one statement for each table, each of which sees   *)
(* what is committed by then; first the rows, then those of the snapshot.    *)
StartCopy(f) ==
    copying' = [to |-> f, reads |-> 0, tables |-> Empty, seen |-> Empty, whole |-> TRUE]

StartBundle ==
    /\ copying = NotCopying /\ restore.step = "idle" /\ ~bundles["baseline"].written
    /\ StartCopy("baseline")
    /\ UNCHANGED <<catalog, bundles, restore, session, outcome, edits>>

ReadTables(table) ==
    copying' = [copying EXCEPT !.reads = @ + 1, !.tables[table] = catalog[table]]
ReadSnapshot(table) ==
    copying' = [copying EXCEPT !.reads = @ + 1, !.seen[table] = catalog[table]]

ReadBundle ==
    /\ copying.to # "none"
    /\ \/ copying.reads = 0 /\ ReadTables("pointer")
       \/ copying.reads = 1 /\ ReadTables("version")
       \/ copying.reads = 2 /\ ReadTables("children")
       \/ copying.reads = 3 /\ ReadSnapshot("pointer")
       \/ copying.reads = 4 /\ ReadSnapshot("version")
       \/ copying.reads = 5 /\ ReadSnapshot("children")
    /\ UNCHANGED <<catalog, bundles, restore, session, outcome, edits>>

WriteBundle ==
    /\ copying.to # "none" /\ copying.reads = 6
    /\ bundles' = [bundles EXCEPT ![copying.to] =
         [written |-> TRUE, whole |-> copying.whole, tables |-> copying.tables,
          snapshot |-> SnapshotOf(copying.seen)]]
    /\ copying' = NotCopying
    /\ IF restore.step = "copying"
         THEN /\ restore' = [restore EXCEPT !.step = "objects"]
              /\ session' = [NoSession EXCEPT !.found = catalog]
         ELSE UNCHANGED <<restore, session>>
    /\ UNCHANGED <<catalog, outcome, edits>>

Ended == restore' = NoRestore /\ session' = NoSession

(* The tool is interrupted, or the operator does not confirm: nothing of it  *)
(* is committed, and a file that is not whole fails its checksum.            *)
Interrupted ==
    /\ copying # NotCopying \/ restore.step # "idle"
    /\ copying' = NotCopying /\ Ended
    /\ UNCHANGED <<catalog, bundles, outcome, edits>>

(* _restore: the file is read, and what would be done is tried and rolled back. *)
Preview(f) ==
    /\ restore.step = "idle" /\ copying = NotCopying /\ bundles[f].written
    /\ Restores(catalog, bundles[f])
    /\ restore' = [step |-> "previewed", bundle |-> bundles[f]]
    /\ outcome' = NoOutcome
    /\ UNCHANGED <<catalog, bundles, copying, session, edits>>

Confirm ==
    /\ restore.step = "previewed"
    /\ restore' = [restore EXCEPT !.step = "copying"]
    /\ StartCopy("before")
    /\ UNCHANGED <<catalog, bundles, session, outcome, edits>>

(* The bundle that was previewed is applied to what is there by now, in one    *)
(* transaction whose every statement sees what others have committed by then:  *)
(* the rows are written back, table by table,                                  *)
SyncObjects ==
    /\ restore.step = "objects"
    /\ LET synced == Synced(catalog, restore.bundle.tables) IN
         session' = [session EXCEPT !.objects =
                       {c \in Objects : synced.pointer[c] # catalog.pointer[c]}]
    /\ restore' = [restore EXCEPT !.step = "versions"]
    /\ UNCHANGED <<catalog, bundles, copying, outcome, edits>>

(* and fail where a foreign key does; versions and their children in one step, *)
(* since no edit writes rows of both that the bundle has;                      *)
SyncVersions ==
    /\ restore.step = "versions"
    /\ LET synced == Synced(catalog, restore.bundle.tables)
           own == [session EXCEPT
                     !.versions = {k \in VersionKeys : synced.version[k] # catalog.version[k]},
                     !.children = {x \in VersionKeys \X Children :
                        ~(x[2] \in synced.children[x[1]] <=> x[2] \in catalog.children[x[1]])}]
       IN  IF Linked(Mine(catalog, restore.bundle.tables, own))
             THEN session' = own /\ restore' = [restore EXCEPT !.step = "pointers"]
             ELSE Ended
    /\ UNCHANGED <<catalog, bundles, copying, outcome, edits>>

(* then restore_snapshot reads the objects,                                    *)
ReadPointers ==
    /\ restore.step = "pointers"
    /\ session' = [session EXCEPT !.seen.pointer = SessionView.pointer]
    /\ restore' = [restore EXCEPT !.step = "layers"]
    /\ UNCHANGED <<catalog, bundles, copying, outcome, edits>>

(* their versions and the children of these, and compares them;                *)
RestoreLayers ==
    /\ restore.step = "layers"
    /\ LET known(k) == session.seen.pointer[k[1]] # Missing
           seen == [pointer |-> session.seen.pointer,
                    version |-> [k \in VersionKeys |->
                                   IF known(k) THEN SessionView.version[k] ELSE NoVersion],
                    children |-> [k \in VersionKeys |->
                                    IF known(k) THEN SessionView.children[k] ELSE {}]]
       IN  IF Accepts(seen, restore.bundle.snapshot)
             THEN session' = [session EXCEPT !.seen = seen]
                  /\ restore' = [restore EXCEPT !.step = "commit"]
             ELSE Ended
    /\ UNCHANGED <<catalog, bundles, copying, outcome, edits>>

(* and what it changed is committed over what is there.                        *)
CommitRestore ==
    /\ restore.step = "commit"
    /\ catalog' = Flushed(SessionView, session.seen,
                          RestoreLayer(session.seen, restore.bundle.snapshot))
    /\ outcome' = [done |-> TRUE, bundle |-> restore.bundle, found |-> session.found,
                   touched |-> session.touched]
    /\ Ended
    /\ UNCHANGED <<bundles, copying, edits>>

RecoveryNext ==
    \/ \E c \in Objects : CreateVersion(c) \/ Publish(c) \/ Backfill(c)
    \/ NormalizeSources \/ Reinstall
    \/ StartBundle \/ ReadBundle \/ WriteBundle \/ Interrupted
    \/ \E f \in {"baseline", "before"} : Preview(f)
    \/ Confirm \/ SyncObjects \/ SyncVersions \/ ReadPointers \/ RestoreLayers \/ CommitRestore

RecoverySpec == RecoveryInit /\ [][RecoveryNext]_recoveryVars

-----------------------------------------------------------------------------
(* The catalog publishes exactly what the snapshot of the bundle published,   *)
(* with that content, and of what is newer nothing, but for the objects that  *)
(* others edited between the read of the pointers and the commit; and every   *)
(* version that was there when the copy was made still is                     *)
(* (catalog_recovery.py, _restore; catalog_snapshot.py, _restore_layer).      *)
RestoredIsTheSnapshot ==
    LET then == outcome.bundle.snapshot IN
    outcome.done =>
      /\ \A c \in Objects \ outcome.touched : IF then[c].pointer = Missing
           THEN catalog.pointer[c] \in {Missing, 0}
           ELSE SnapshotOf(catalog)[c] = then[c]
      /\ \A k \in VersionKeys :
           /\ k[1] \notin outcome.touched =>
                (catalog.version[k].status = "published" <=> catalog.pointer[k[1]] = k[2])
           /\ Exists(outcome.found, k) => Exists(catalog, k)

(* A bundle that nobody edited under can be restored whatever was done since,  *)
(* unless a version without children in the bundle was given some: these stay  *)
(* (catalog_bundle.py, _remove_extra_behavior_children).                       *)
BundlesStayRestorable ==
    \A f \in {"baseline", "before"} : LET b == bundles[f] IN
      /\ b.written /\ b.whole
      /\ \A k \in VersionKeys :
           Exists(b.tables, k) /\ b.tables.children[k] = {} => catalog.children[k] = {}
      => Restores(catalog, b)

(* A restore can be taken back with the copy that it made: the objects that   *)
(* were there publish again what they published (_write_pre_restore_bundle).  *)
RestoresAreUndone ==
    LET copy == bundles["before"]  back == Restored(catalog, copy) IN
    outcome.done /\ copy.whole /\ Restores(catalog, copy) =>
      \A c \in Objects : outcome.found.pointer[c] # Missing =>
        SnapshotOf(back)[c] = SnapshotOf(outcome.found)[c]

(* What a restore gives, and what it leaves possible. *)
RecoveryIsSound == RestoredIsTheSnapshot /\ BundlesStayRestorable /\ RestoresAreUndone
=============================================================================
