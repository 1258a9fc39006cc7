---------------------------- MODULE BatchProgress ----------------------------
(***************************************************************************)
(* An IngestionBatch and its files: the counters and the status that every *)
(* handler recomputes when it is done with a file (worker.py refresh_batch,*)
(* build_result_deletion.py _refresh_batch), that a reimport adjusts, and  *)
(* that uploads extend.                                                    *)
(*                                                                         *)
(* A session loads the batch, keeps it (materialization loads it at its    *)
(* start, a route with its access check), counts the files in another      *)
(* statement, which sees its own uncommitted file and what the others have *)
(* committed, and its commit writes the columns that differ from the copy  *)
(* it loaded.  The files' way through the handlers is IngestionPipeline's; *)
(* here a session takes its file from one status to a next one.            *)
(***************************************************************************)
EXTENDS Integers, FiniteSets

CONSTANTS
  Files,     \* files that may be uploaded to the batch
  MaxFiles,  \* settings.max_batch_files
  Overlap    \* may sessions run between another one's load and its commit?

ASSUME BatchAssumption ==
  IsFiniteSet(Files) /\ MaxFiles \in Nat \ {0} /\ Overlap \in BOOLEAN

VARIABLES
  kind,       \* source_kind: "upload" or "directory"
  formal,     \* formal_import_status of each file, "absent" without the row
  batch,      \* the row of the batch
  uploading,  \* uploads that passed the check of the limit and are stored
  session     \* the session that works on a file

vars == <<kind, formal, batch, uploading, session>>

-----------------------------------------------------------------------------
Status == {"pending", "needs_review", "materializing", "imported", "partial",
           "deleted", "failed"}

Row == [total: Nat, completed: Nat, failed: Nat, deleted: Nat,
        status: {"pending", "running", "completed", "partial", "failed"}]

Count(form, status) == Cardinality({f \in Files : form[f] = status})

Finished(form) == Count(form, "imported") + Count(form, "partial")
                    + Count(form, "failed") + Count(form, "deleted")

Tally(form, total, status) ==
  [total |-> total, completed |-> Count(form, "imported"),
   failed |-> Count(form, "failed"), deleted |-> Count(form, "deleted"),
   status |-> status]

(* The status of a batch all of whose files are finished. *)
Verdict(form, total) ==
  IF Count(form, "failed") = total THEN "failed"
  ELSE IF Count(form, "failed") > 0 \/ Count(form, "partial") > 0 THEN "partial"
  ELSE "completed"

Started(form) == Count(form, "needs_review") > 0 \/ Count(form, "materializing") > 0

(* refresh_batch *)
Progress(form, total) ==
  Tally(form, total,
        IF Finished(form) = 0 THEN IF Started(form) THEN "running" ELSE "pending"
        ELSE IF Finished(form) < total THEN "running"
        ELSE Verdict(form, total))

(* Mutant: the deleted file is counted as active. *)
AfterDeletionActive(form, total) ==
  Tally(form, total,
        IF total - (Finished(form) - Count(form, "deleted")) > 0 THEN "running"
        ELSE Verdict(form, total))

(* _refresh_batch *)
AfterDeletion(form, total) ==
  Tally(form, total,
        IF total - Finished(form) > 0 THEN "running" ELSE Verdict(form, total))

(* The files a batch has. *)
Added == {f \in Files : formal[f] # "absent"}

NewBatch(total) == [total |-> total, completed |-> 0, failed |-> 0, deleted |-> 0,
                    status |-> "pending"]

NoSession == [pc |-> "none", copy |-> NewBatch(0), new |-> NewBatch(0), to |-> "pending"]

Session == [pc: {"none", "loaded", "counted"}, copy: Row, new: Row, to: Status]

Alone == \A f \in Files : session[f].pc = "none"

Free == Overlap \/ Alone

(* The files as the session of f sees them. *)
With(f, to) == [formal EXCEPT ![f] = to]

(* The row after its commit. *)
Flushed(f, new) ==
  [c \in DOMAIN batch |-> IF new[c] # session[f].copy[c] THEN new[c] ELSE batch[c]]

TypeOK ==
  /\ kind \in {"upload", "directory"}
  /\ formal \in [Files -> Status \cup {"absent"}]
  /\ batch \in Row
  /\ uploading \subseteq Files
  /\ session \in [Files -> Session]

(* create_batch, or import_directory with all its files. *)
Init ==
  /\ uploading = {}
  /\ session = [f \in Files |-> NoSession]
  /\ \E S \in SUBSET Files :
       /\ Cardinality(S) <= MaxFiles
       /\ kind = IF S = {} THEN "upload" ELSE "directory"
       /\ formal = [f \in Files |-> IF f \in S THEN "pending" ELSE "absent"]
       /\ batch = NewBatch(Cardinality(S))

-----------------------------------------------------------------------------
(* An upload: the limit is checked, the file is received and stored ... *)
Offers(f) ==
  /\ kind = "upload" /\ formal[f] = "absent" /\ f \notin uploading
  /\ batch.total < MaxFiles
  /\ uploading' = uploading \cup {f}
  /\ UNCHANGED <<kind, formal, batch, session>>

(* Mutant: the increment is not guarded by the limit. *)
RoomAlways == TRUE

Room == batch.total < MaxFiles

(* ... and its row is inserted with the increment of total_files in place,
   unless the limit is reached by now, or the file was rejected. *)
Adds(f) ==
  /\ f \in uploading /\ Room /\ Free
  /\ formal' = With(f, "pending")
  /\ batch' = [batch EXCEPT !.total = @ + 1]
  /\ uploading' = uploading \ {f}
  /\ UNCHANGED <<kind, session>>

Rejects(f) ==
  /\ f \in uploading
  /\ uploading' = uploading \ {f}
  /\ UNCHANGED <<kind, formal, batch, session>>

-----------------------------------------------------------------------------
(* The first statement of a session that reads the batch. *)
Loads(f) ==
  /\ formal[f] # "absent" /\ session[f].pc = "none" /\ Free
  /\ session' = [session EXCEPT ![f] = [NoSession EXCEPT !.pc = "loaded", !.copy = batch]]
  /\ UNCHANGED <<kind, formal, batch, uploading>>

(* What a handler may make of its file. *)
Outcomes(status) ==
  CASE status = "pending"       -> {"pending", "needs_review", "materializing", "failed"}
    [] status = "failed"        -> {"needs_review", "materializing", "failed"}
    [] status = "needs_review"  -> {"needs_review", "materializing"}
    [] status = "materializing" -> {"imported", "partial", "failed"}
    [] OTHER                    -> {}

(* Its status is flushed, and the files are counted. *)
Counts(f, to, new) ==
  /\ session[f].pc = "loaded"
  /\ session' = [session EXCEPT ![f].pc = "counted", ![f].to = to, ![f].new = new]
  /\ UNCHANGED <<kind, formal, batch, uploading>>

Handles(f) ==
  \E to \in Outcomes(formal[f]) :
    Counts(f, to, Progress(With(f, to), session[f].copy.total))

DeletesResult(f) ==
  /\ formal[f] # "deleted"
  /\ Counts(f, "deleted", AfterDeletion(With(f, "deleted"), session[f].copy.total))

Commits(f) ==
  /\ session[f].pc = "counted"
  /\ formal' = With(f, session[f].to)
  /\ batch' = Flushed(f, session[f].new)
  /\ session' = [session EXCEPT ![f] = NoSession]
  /\ UNCHANGED <<kind, uploading>>

RollsBack(f) ==
  /\ session[f].pc # "none"
  /\ session' = [session EXCEPT ![f] = NoSession]
  /\ UNCHANGED <<kind, formal, batch, uploading>>

(* An approval, and the opening commit of materialize_file: the batch is not
   refreshed. *)
Rematerializes(f) ==
  /\ formal[f] \in {"needs_review", "materializing", "partial", "imported", "failed"}
  /\ session[f].pc = "none" /\ Free
  /\ formal' = With(f, "materializing")
  /\ UNCHANGED <<kind, batch, uploading, session>>

(* Mutant: no floor. *)
LessBelowZero(n) == n - 1

Less(n) == IF n > 0 THEN n - 1 ELSE 0

(* reset_item_for_reimport: the counter of the file's old status is taken
   down on the copy of the batch (a partial file counts as completed here). *)
Subtracted(b, old) ==
  [b EXCEPT !.completed = IF old \in {"imported", "partial"} THEN Less(@) ELSE @,
            !.failed = IF old = "failed" THEN Less(@) ELSE @,
            !.deleted = IF old = "deleted" THEN Less(@) ELSE @,
            !.status = "running"]

Resets(f) ==
  /\ session[f].pc = "loaded"
  /\ formal' = With(f, "pending")
  /\ batch' = Flushed(f, Subtracted(session[f].copy, formal[f]))
  /\ session' = [session EXCEPT ![f] = NoSession]
  /\ UNCHANGED <<kind, uploading>>

Next ==
  \E f \in Files :
    \/ Offers(f) \/ Adds(f) \/ Rejects(f)
    \/ Loads(f) \/ Handles(f) \/ DeletesResult(f) \/ Commits(f) \/ RollsBack(f)
    \/ Rematerializes(f) \/ Resets(f)

Spec == Init /\ [][Next]_vars

-----------------------------------------------------------------------------
(* The number of files recorded is the number of files there are, and it
   never passes the limit, however uploads and refreshes interleave. *)
TotalIsCounted ==
  batch.total = Cardinality(Added) /\ batch.total <= MaxFiles

(* When every file has come to rest and nobody works on the batch, its
   counters and status are what its files say. *)
Resting == \A f \in Files : formal[f] \notin {"pending", "materializing"}

BatchAgrees == Alone /\ Resting => batch = Progress(formal, Cardinality(Added))
=============================================================================
