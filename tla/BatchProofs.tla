----------------------------- MODULE BatchProofs -----------------------------
(***************************************************************************)
(* Proofs about the progress of a batch, for any files and limit.          *)
(***************************************************************************)
EXTENDS BatchProgress, FiniteSetTheorems, TLAPS

USE BatchAssumption

-----------------------------------------------------------------------------
(* Counting. *)
LEMMA CountType ==
  ASSUME NEW form, NEW status
  PROVE  Count(form, status) \in Nat
<1>1. {f \in Files : form[f] = status} \in SUBSET Files
  OBVIOUS
<1>. QED
  BY <1>1, FS_Subset, FS_CardinalityType DEF Count

LEMMA CountPositive ==
  ASSUME NEW form, NEW f \in Files
  PROVE  Count(form, form[f]) > 0
<1> DEFINE S == {g \in Files : form[g] = form[f]}
<1>1. IsFiniteSet(S)
  BY FS_Subset
<1>2. Cardinality(S) # 0
  BY <1>1, FS_EmptySet
<1>. QED
  BY <1>1, <1>2, FS_CardinalityType DEF Count

LEMMA ProgressType ==
  ASSUME NEW form, NEW total \in Nat
  PROVE  /\ Progress(form, total) \in Row
         /\ AfterDeletion(form, total) \in Row
         /\ Progress(form, total).total = total
         /\ AfterDeletion(form, total).total = total
<1>1. Verdict(form, total) \in {"completed", "partial", "failed"}
  BY DEF Verdict
<1>. QED
  BY <1>1, CountType DEF Progress, AfterDeletion, Tally, Row

(* The two refreshes agree on a batch with a deleted file. *)
LEMMA RefreshesAgree ==
  ASSUME NEW form, NEW total \in Nat, NEW f \in Files, form[f] = "deleted"
  PROVE  AfterDeletion(form, total) = Progress(form, total)
<1>1. /\ Count(form, "imported") \in Nat /\ Count(form, "partial") \in Nat
      /\ Count(form, "failed") \in Nat /\ Count(form, "deleted") \in Nat
  BY CountType
<1>2. Count(form, "deleted") > 0
  BY CountPositive
<1>3. Finished(form) \in Nat /\ Finished(form) # 0
  BY <1>1, <1>2 DEF Finished
<1>4. total - Finished(form) > 0 <=> Finished(form) < total
  BY <1>3
<1>. QED
  BY <1>3, <1>4 DEF AfterDeletion, Progress

-----------------------------------------------------------------------------
(* What makes TypeOK and TotalIsCounted inductive, with or without overlap:
   only files the batch has are worked on, and no session touches the total
   it has loaded. *)
SessionsKeepTotal ==
  \A f \in Files :
    /\ session[f].pc # "none" => formal[f] # "absent"
    /\ session[f].pc = "counted" => session[f].new.total = session[f].copy.total

UploadsAreNew == \A f \in uploading : formal[f] = "absent"

TotalInv == TypeOK /\ TotalIsCounted /\ SessionsKeepTotal /\ UploadsAreNew

LEMMA RowFields ==
  ASSUME NEW r \in Row
  PROVE  /\ DOMAIN r = {"total", "completed", "failed", "deleted", "status"}
         /\ r.total \in Nat /\ r.completed \in Nat /\ r.failed \in Nat /\ r.deleted \in Nat
         /\ r.status \in {"pending", "running", "completed", "partial", "failed"}
BY DEF Row

(* The commit of a row over a loaded copy: a row, with the total of the table
   when the session kept the total, and the session's row on a fresh copy. *)
LEMMA FlushedRow ==
  ASSUME NEW f \in Files, session[f].copy \in Row, batch \in Row, NEW new \in Row
  PROVE  /\ Flushed(f, new) \in Row
         /\ new.total = session[f].copy.total => Flushed(f, new).total = batch.total
         /\ session[f].copy = batch => Flushed(f, new) = new
<1> DEFINE c == session[f].copy
           r == Flushed(f, new)
<1>1. r = [total |-> IF new.total # c.total THEN new.total ELSE batch.total,
           completed |-> IF new.completed # c.completed THEN new.completed
                         ELSE batch.completed,
           failed |-> IF new.failed # c.failed THEN new.failed ELSE batch.failed,
           deleted |-> IF new.deleted # c.deleted THEN new.deleted ELSE batch.deleted,
           status |-> IF new.status # c.status THEN new.status ELSE batch.status]
  BY RowFields DEF Flushed
<1>2. r \in Row
  BY <1>1, RowFields DEF Row
<1>3. new.total = c.total => r.total = batch.total
  BY <1>1
<1>4. ASSUME c = batch PROVE r = new
  BY <1>1, <1>4 DEF Row
<1>. QED
  BY <1>2, <1>3, <1>4

LEMMA SubtractedRow ==
  ASSUME NEW r \in Row, NEW old
  PROVE  Subtracted(r, old) \in Row /\ Subtracted(r, old).total = r.total
<1>1. \A n \in Nat : Less(n) \in Nat
  BY DEF Less
<1>. QED
  BY <1>1 DEF Subtracted, Row

LEMMA SessionType ==
  /\ NoSession \in Session
  /\ \A r \in Row : [NoSession EXCEPT !.pc = "loaded", !.copy = r] \in Session
  /\ \A s \in Session, r \in Row, to \in Status :
       [s EXCEPT !.pc = "counted", !.to = to, !.new = r] \in Session
<1>1. NewBatch(0) \in Row
  BY DEF NewBatch, Row
<1>2. NoSession \in Session
  BY <1>1 DEF NoSession, Session, Status
<1>. QED
  BY <1>2 DEF Session

LEMMA OutcomesType ==
  ASSUME NEW status
  PROVE  Outcomes(status) \subseteq Status
BY DEF Outcomes, Status

(* A step that leaves the set of files alone leaves their number alone. *)
LEMMA SameFiles ==
  ASSUME TypeOK, NEW f \in Files, formal[f] # "absent", NEW to \in Status,
         formal' = With(f, to)
  PROVE  Added' = Added /\ formal' \in [Files -> Status \cup {"absent"}]
         /\ formal'[f] = to /\ \A g \in Files \ {f} : formal'[g] = formal[g]
BY DEF TypeOK, With, Added, Status

LEMMA TotalInit == Init => TotalInv
<1> SUFFICES ASSUME Init PROVE TotalInv
  OBVIOUS
<1>1. PICK S \in SUBSET Files :
        /\ Cardinality(S) <= MaxFiles
        /\ kind = IF S = {} THEN "upload" ELSE "directory"
        /\ formal = [f \in Files |-> IF f \in S THEN "pending" ELSE "absent"]
        /\ batch = NewBatch(Cardinality(S))
  BY DEF Init
<1>2. Cardinality(S) \in Nat
  BY FS_Subset, FS_CardinalityType
<1>3. Added = S
  BY <1>1 DEF Added
<1>4. batch \in Row /\ batch.total = Cardinality(S)
  BY <1>1, <1>2 DEF NewBatch, Row
<1>5. session = [f \in Files |-> NoSession] /\ uploading = {}
  BY DEF Init
<1>6. TypeOK
  BY <1>1, <1>4, <1>5, SessionType DEF TypeOK, Status
<1>7. SessionsKeepTotal /\ UploadsAreNew
  BY <1>5 DEF SessionsKeepTotal, UploadsAreNew, NoSession
<1>. QED
  BY <1>1, <1>3, <1>4, <1>6, <1>7 DEF TotalInv, TotalIsCounted

(* A file joins the batch. *)
LEMMA TotalAdds ==
  ASSUME TotalInv, NEW f \in Files, Adds(f)
  PROVE  TotalInv'
<1>1. formal[f] = "absent" /\ f \notin Added
  BY DEF Adds, TotalInv, UploadsAreNew, Added
<1>2. /\ formal \in [Files -> Status \cup {"absent"}] /\ batch \in Row
      /\ formal' = With(f, "pending")
  BY DEF TotalInv, TypeOK, Adds
<1>3. Added' = Added \cup {f}
  BY <1>2 DEF With, Added
<1>4. IsFiniteSet(Added)
  BY FS_Subset DEF Added
<1>5. Cardinality(Added') = Cardinality(Added) + 1
  BY <1>1, <1>3, <1>4, FS_AddElement
<1>6. batch' \in Row /\ batch'.total = batch.total + 1
  BY <1>2 DEF Adds, Row
<1>7. batch.total < MaxFiles
  BY DEF Adds, Room
<1>8. TotalIsCounted'
  BY <1>2, <1>5, <1>6, <1>7, RowFields DEF TotalInv, TotalIsCounted
<1>9. TypeOK'
  BY <1>2, <1>6 DEF TotalInv, TypeOK, Adds, With, Status
<1>10. SessionsKeepTotal' /\ UploadsAreNew'
  BY <1>2 DEF TotalInv, TypeOK, SessionsKeepTotal, UploadsAreNew, Adds, With
<1>. QED
  BY <1>8, <1>9, <1>10 DEF TotalInv

(* A session writes its file and the batch. *)
LEMMA TotalWrites ==
  ASSUME TotalInv, NEW f \in Files, NEW to \in Status, NEW new \in Row,
         formal[f] # "absent", formal' = With(f, to),
         new.total = session[f].copy.total, batch' = Flushed(f, new),
         session' = [session EXCEPT ![f] = NoSession], UNCHANGED <<kind, uploading>>
  PROVE  TotalInv'
<1>1. TypeOK /\ session[f].copy \in Row /\ batch \in Row
  BY DEF TotalInv, TypeOK, Session
<1>2. Added' = Added /\ formal' \in [Files -> Status \cup {"absent"}]
      /\ formal'[f] = to /\ \A g \in Files \ {f} : formal'[g] = formal[g]
  BY <1>1, SameFiles
<1>3. batch' \in Row /\ batch'.total = batch.total
  BY <1>1, FlushedRow
<1>4. TypeOK'
  BY <1>1, <1>2, <1>3, SessionType DEF TypeOK
<1>5. TotalIsCounted'
  BY <1>2, <1>3 DEF TotalInv, TotalIsCounted
<1>6. SessionsKeepTotal'
  BY <1>1, <1>2 DEF TotalInv, TypeOK, SessionsKeepTotal, NoSession, Status
<1>7. UploadsAreNew'
  BY <1>1, <1>2 DEF TotalInv, TypeOK, UploadsAreNew
<1>. QED
  BY <1>4, <1>5, <1>6, <1>7 DEF TotalInv

(* A session only changes what it holds. *)
LEMMA TotalHolds ==
  ASSUME TotalInv, NEW f \in Files, NEW s \in Session,
         session' = [session EXCEPT ![f] = s], UNCHANGED <<kind, formal, batch, uploading>>,
         s.pc # "none" => formal[f] # "absent",
         s.pc = "counted" => s.new.total = s.copy.total
  PROVE  TotalInv'
<1>1. TypeOK'
  BY DEF TotalInv, TypeOK
<1>2. SessionsKeepTotal'
  BY DEF TotalInv, TypeOK, SessionsKeepTotal
<1>3. TotalIsCounted' /\ UploadsAreNew'
  BY DEF TotalInv, TotalIsCounted, UploadsAreNew, Added
<1>. QED
  BY <1>1, <1>2, <1>3 DEF TotalInv

LEMMA TotalCounts ==
  ASSUME TotalInv, NEW f \in Files, NEW to \in Status, NEW new \in Row,
         new.total = session[f].copy.total, Counts(f, to, new)
  PROVE  TotalInv'
<1> DEFINE s == [session[f] EXCEPT !.pc = "counted", !.to = to, !.new = new]
<1>1. session[f] \in Session /\ session[f].pc = "loaded" /\ formal[f] # "absent"
  BY DEF TotalInv, TypeOK, SessionsKeepTotal, Counts
<1>2. s \in Session
  BY <1>1, SessionType
<1>3. s.pc = "counted" /\ s.new.total = s.copy.total
  BY <1>1 DEF Session
<1>4. session' = [session EXCEPT ![f] = s] /\ UNCHANGED <<kind, formal, batch, uploading>>
  BY DEF TotalInv, TypeOK, Counts
<1>. HIDE DEF s
<1>. QED
  BY <1>1, <1>2, <1>3, <1>4, TotalHolds

LEMMA TotalStep == TotalInv /\ [Next]_vars => TotalInv'
<1> SUFFICES ASSUME TotalInv, [Next]_vars PROVE TotalInv'
  OBVIOUS
<1>0. \A f \in Files : /\ session[f] \in Session /\ session[f].copy \in Row
                       /\ session[f].new \in Row /\ session[f].to \in Status
                       /\ session[f].copy.total \in Nat
  BY RowFields DEF TotalInv, TypeOK, Session
<1>1. ASSUME NEW f \in Files, Offers(f) \/ Rejects(f) PROVE TotalInv'
  <2>1. formal[f] = "absent" \/ uploading' \subseteq uploading
    BY <1>1 DEF Offers, Rejects
  <2>2. UNCHANGED <<kind, formal, batch, session>>
    BY <1>1 DEF Offers, Rejects
  <2>3. uploading' \subseteq uploading \cup {f}
    BY <1>1 DEF Offers, Rejects
  <2>4. TypeOK'
    BY <2>2, <2>3 DEF TotalInv, TypeOK
  <2>5. SessionsKeepTotal' /\ TotalIsCounted'
    BY <2>2 DEF TotalInv, SessionsKeepTotal, TotalIsCounted, Added
  <2>6. UploadsAreNew'
    BY <2>1, <2>2, <2>3 DEF TotalInv, UploadsAreNew
  <2>. QED
    BY <2>4, <2>5, <2>6 DEF TotalInv
<1>2. ASSUME NEW f \in Files, Adds(f) PROVE TotalInv'
  BY <1>2, TotalAdds
<1>3. ASSUME NEW f \in Files, Loads(f) PROVE TotalInv'
  <2>1. PICK s \in Session : s = [NoSession EXCEPT !.pc = "loaded", !.copy = batch]
    BY SessionType DEF TotalInv, TypeOK
  <2>2. s.pc = "loaded"
    BY <2>1 DEF NoSession
  <2>. QED
    BY <1>3, <2>1, <2>2, TotalHolds DEF Loads
<1>4. ASSUME NEW f \in Files, Handles(f) PROVE TotalInv'
  <2>1. PICK to \in Outcomes(formal[f]) :
          Counts(f, to, Progress(With(f, to), session[f].copy.total))
    BY <1>4 DEF Handles
  <2>2. to \in Status
    BY OutcomesType
  <2>. QED
    BY <1>0, <2>1, <2>2, ProgressType, TotalCounts
<1>5. ASSUME NEW f \in Files, DeletesResult(f) PROVE TotalInv'
  <2>1. "deleted" \in Status
    BY DEF Status
  <2>. QED
    BY <1>0, <1>5, <2>1, ProgressType, TotalCounts DEF DeletesResult
<1>6. ASSUME NEW f \in Files, Commits(f) PROVE TotalInv'
  <2>1. formal[f] # "absent" /\ session[f].new.total = session[f].copy.total
    BY <1>6 DEF Commits, TotalInv, SessionsKeepTotal
  <2>. QED
    BY <1>0, <1>6, <2>1, TotalWrites DEF Commits
<1>7. ASSUME NEW f \in Files, RollsBack(f) PROVE TotalInv'
  BY <1>7, SessionType, TotalHolds DEF RollsBack, NoSession
<1>8. ASSUME NEW f \in Files, Rematerializes(f) PROVE TotalInv'
  <2>1. "materializing" \in Status /\ formal[f] # "absent"
    BY <1>8 DEF Status, Rematerializes
  <2>2. Added' = Added /\ formal' \in [Files -> Status \cup {"absent"}]
        /\ formal'[f] = "materializing" /\ \A g \in Files \ {f} : formal'[g] = formal[g]
    BY <1>8, <2>1, SameFiles DEF Rematerializes, TotalInv
  <2>3. UNCHANGED <<kind, batch, uploading, session>>
    BY <1>8 DEF Rematerializes
  <2>4. TypeOK' /\ TotalIsCounted'
    BY <2>2, <2>3 DEF TotalInv, TypeOK, TotalIsCounted
  <2>5. SessionsKeepTotal' /\ UploadsAreNew'
    BY <2>1, <2>2, <2>3 DEF TotalInv, TypeOK, SessionsKeepTotal, UploadsAreNew
  <2>. QED
    BY <2>4, <2>5 DEF TotalInv
<1>9. ASSUME NEW f \in Files, Resets(f) PROVE TotalInv'
  <2>1. /\ formal[f] # "absent" /\ "pending" \in Status
        /\ Subtracted(session[f].copy, formal[f]) \in Row
        /\ Subtracted(session[f].copy, formal[f]).total = session[f].copy.total
    BY <1>0, <1>9, SubtractedRow DEF Resets, TotalInv, SessionsKeepTotal, Status
  <2>. QED
    BY <1>9, <2>1, TotalWrites DEF Resets
<1>10. CASE UNCHANGED vars
  BY <1>10 DEF vars, TotalInv, TypeOK, TotalIsCounted, Added, SessionsKeepTotal, UploadsAreNew
<1>. QED
  BY <1>1, <1>2, <1>3, <1>4, <1>5, <1>6, <1>7, <1>8, <1>9, <1>10 DEF Next

(* Every column and every session stays in its type, whatever overlaps. *)
THEOREM TypeCorrect == Spec => []TypeOK
<1>1. TotalInv => TypeOK
  BY DEF TotalInv
<1>. QED
  BY <1>1, TotalInit, TotalStep, PTL DEF Spec

(* total_files is the number of the batch's files and stays within the
   limit, whatever uploads, refreshes and reimports overlap: it is the one
   column that is incremented in place (batches.py:750-756). *)
THEOREM TotalCounted == Spec => []TotalIsCounted
<1>1. TotalInv => TotalIsCounted
  BY DEF TotalInv
<1>. QED
  BY <1>1, TotalInit, TotalStep, PTL DEF Spec

-----------------------------------------------------------------------------
(* Without overlap a session holds what is in the table: at most one works,
   its copy is the row and what it counted is what its commit makes true.
   So the batch agrees with its files whenever they rest, for a file only
   comes to rest by a commit that recounts them all. *)
OneSession ==
  \A f, g \in Files : session[f].pc # "none" /\ session[g].pc # "none" => f = g

CopyIsRow ==
  \A f \in Files :
    /\ session[f].pc # "none" => session[f].copy = batch
    /\ session[f].pc = "counted" =>
         session[f].new = Progress(With(f, session[f].to), batch.total)

RestsAgreed == Resting => batch = Progress(formal, batch.total)

AgreeInv == TotalInv /\ OneSession /\ CopyIsRow /\ RestsAgreed

LEMMA AgreeInit == Init => AgreeInv
<1> SUFFICES ASSUME Init PROVE AgreeInv
  OBVIOUS
<1>1. PICK S \in SUBSET Files :
        /\ formal = [f \in Files |-> IF f \in S THEN "pending" ELSE "absent"]
        /\ batch = NewBatch(Cardinality(S))
  BY DEF Init
<1>2. OneSession /\ CopyIsRow
  BY DEF Init, OneSession, CopyIsRow, NoSession
<1>3. ASSUME Resting PROVE batch = Progress(formal, batch.total)
  <2>1. \A f \in Files : formal[f] = "absent"
    BY <1>1, <1>3 DEF Resting
  <2>2. \A s \in Status : {f \in Files : formal[f] = s} = {}
    BY <2>1 DEF Status
  <2>3. \A s \in Status : Count(formal, s) = 0
    BY <2>2, FS_EmptySet DEF Count
  <2>4. /\ Count(formal, "imported") = 0 /\ Count(formal, "partial") = 0
        /\ Count(formal, "failed") = 0 /\ Count(formal, "deleted") = 0
        /\ Count(formal, "needs_review") = 0 /\ Count(formal, "materializing") = 0
    BY <2>3 DEF Status
  <2>5. Finished(formal) = 0 /\ ~Started(formal)
    BY <2>4 DEF Finished, Started
  <2>. QED
    BY <1>1, <2>4, <2>5 DEF Progress, Tally, NewBatch
<1>. QED
  BY <1>2, <1>3, TotalInit DEF AgreeInv, RestsAgreed

(* While nobody has a session, a file may be made to work again. *)
LEMMA AgreeUnrests ==
  ASSUME AgreeInv, TotalInv', Alone, UNCHANGED session,
         NEW f \in Files, NEW to \in {"pending", "materializing"}, formal' = With(f, to)
  PROVE  AgreeInv'
<1>1. OneSession' /\ CopyIsRow'
  BY DEF Alone, OneSession, CopyIsRow
<1>2. formal'[f] = to
  BY DEF With, AgreeInv, TotalInv, TypeOK
<1>3. ~Resting'
  BY <1>2 DEF Resting
<1>. QED
  BY <1>1, <1>3 DEF AgreeInv, RestsAgreed

LEMMA AgreeHolds ==
  ASSUME AgreeInv, TotalInv', NEW f \in Files, NEW s \in Session,
         session' = [session EXCEPT ![f] = s], UNCHANGED <<formal, batch>>,
         \A g \in Files \ {f} : s.pc = "none" \/ session[g].pc = "none",
         s.pc # "none" => s.copy = batch,
         s.pc = "counted" => s.new = Progress(With(f, s.to), batch.total)
  PROVE  AgreeInv'
<1>1. \A g \in Files : session'[g] = IF g = f THEN s ELSE session[g]
  BY DEF AgreeInv, TotalInv, TypeOK
<1>2. OneSession'
  BY <1>1 DEF AgreeInv, OneSession
<1>3. ASSUME NEW g \in Files
      PROVE  /\ session'[g].pc # "none" => session'[g].copy = batch
             /\ session'[g].pc = "counted" =>
                  session'[g].new = Progress(With(g, session'[g].to), batch.total)
  BY <1>1 DEF AgreeInv, CopyIsRow
<1>4. CopyIsRow'
  BY <1>3 DEF CopyIsRow, With
<1>5. RestsAgreed'
  BY DEF AgreeInv, RestsAgreed, Resting
<1>. QED
  BY <1>2, <1>4, <1>5 DEF AgreeInv

LEMMA AgreeCounts ==
  ASSUME AgreeInv, TotalInv', NEW f \in Files, NEW to \in Status,
         NEW new \in Row, Counts(f, to, new), new = Progress(With(f, to), batch.total)
  PROVE  AgreeInv'
<1>1. PICK s : s = [session[f] EXCEPT !.pc = "counted", !.to = to, !.new = new]
  OBVIOUS
<1>2. session[f] \in Session /\ session[f].pc = "loaded"
  BY DEF AgreeInv, TotalInv, TypeOK, Counts
<1>3. s \in Session
  BY <1>1, <1>2, SessionType
<1>4. /\ s.pc = "counted" /\ s.to = to /\ s.new = new /\ s.copy = session[f].copy
  BY <1>1, <1>2 DEF Session
<1>5. session' = [session EXCEPT ![f] = s] /\ UNCHANGED <<formal, batch>>
  BY <1>1 DEF Counts, AgreeInv, TotalInv, TypeOK
<1>6. s.copy = batch
  BY <1>2, <1>4 DEF AgreeInv, CopyIsRow
<1>7. \A g \in Files \ {f} : session[g].pc = "none"
  BY <1>2 DEF AgreeInv, OneSession
<1>. QED
  BY <1>3, <1>4, <1>5, <1>6, <1>7, AgreeHolds

LEMMA AgreeStep ==
  ASSUME Overlap = FALSE, AgreeInv, [Next]_vars
  PROVE  AgreeInv'
<1>0. TotalInv'
  BY TotalStep DEF AgreeInv
<1>a. \A f \in Files : /\ session[f] \in Session /\ session[f].copy \in Row
                       /\ session[f].new \in Row /\ session[f].to \in Status
                       /\ batch \in Row /\ batch.total \in Nat
  BY RowFields DEF AgreeInv, TotalInv, TypeOK, Session
<1>1. ASSUME NEW f \in Files, Offers(f) \/ Rejects(f) PROVE AgreeInv'
  <2>1. UNCHANGED <<formal, batch, session>>
    BY <1>1 DEF Offers, Rejects
  <2>. QED
    BY <1>0, <2>1 DEF AgreeInv, OneSession, CopyIsRow, RestsAgreed, Resting, With
<1>2. ASSUME NEW f \in Files, Adds(f) PROVE AgreeInv'
  BY <1>0, <1>2, AgreeUnrests DEF Adds, Free
<1>3. ASSUME NEW f \in Files, Loads(f) PROVE AgreeInv'
  <2>1. PICK s \in Session : s = [NoSession EXCEPT !.pc = "loaded", !.copy = batch]
    BY SessionType DEF AgreeInv, TotalInv, TypeOK
  <2>2. s.pc = "loaded" /\ s.copy = batch
    BY <2>1 DEF NoSession
  <2>3. \A g \in Files : session[g].pc = "none"
    BY <1>3 DEF Loads, Free, Alone
  <2>. QED
    BY <1>0, <1>3, <2>1, <2>2, <2>3, AgreeHolds DEF Loads
<1>4. ASSUME NEW f \in Files, Handles(f) PROVE AgreeInv'
  <2>1. PICK to \in Outcomes(formal[f]) :
          Counts(f, to, Progress(With(f, to), session[f].copy.total))
    BY <1>4 DEF Handles
  <2>2. to \in Status
    BY OutcomesType
  <2>3. session[f].copy = batch
    BY <2>1 DEF Counts, AgreeInv, CopyIsRow
  <2>. QED
    BY <1>0, <1>a, <2>1, <2>2, <2>3, ProgressType, AgreeCounts
<1>5. ASSUME NEW f \in Files, DeletesResult(f) PROVE AgreeInv'
  <2>1. "deleted" \in Status
    BY DEF Status
  <2>2. session[f].copy = batch
    BY <1>5 DEF DeletesResult, Counts, AgreeInv, CopyIsRow
  <2>3. With(f, "deleted")[f] = "deleted"
    BY DEF With, AgreeInv, TotalInv, TypeOK
  <2>4. AfterDeletion(With(f, "deleted"), batch.total) = Progress(With(f, "deleted"), batch.total)
    BY <1>a, <2>3, RefreshesAgree
  <2>. QED
    BY <1>0, <1>5, <1>a, <2>1, <2>2, <2>4, ProgressType, AgreeCounts DEF DeletesResult
<1>6. ASSUME NEW f \in Files, Commits(f) PROVE AgreeInv'
  <2>1. /\ session[f].copy = batch
        /\ session[f].new = Progress(With(f, session[f].to), batch.total)
        /\ \A g \in Files \ {f} : session[g].pc = "none"
    BY <1>6 DEF Commits, AgreeInv, CopyIsRow, OneSession
  <2>2. batch' = Progress(formal', batch.total)
    BY <1>6, <1>a, <2>1, FlushedRow DEF Commits
  <2>3. batch'.total = batch.total
    BY <1>a, <2>2, ProgressType
  <2>4. \A g \in Files : session'[g].pc = "none"
    BY <1>6, <2>1 DEF Commits, NoSession, AgreeInv, TotalInv, TypeOK
  <2>5. OneSession' /\ CopyIsRow'
    BY <2>4 DEF OneSession, CopyIsRow
  <2>6. RestsAgreed'
    BY <2>2, <2>3 DEF RestsAgreed
  <2>. QED
    BY <1>0, <2>5, <2>6 DEF AgreeInv
<1>7. ASSUME NEW f \in Files, RollsBack(f) PROVE AgreeInv'
  BY <1>0, <1>7, SessionType, AgreeHolds DEF RollsBack, NoSession
<1>8. ASSUME NEW f \in Files, Rematerializes(f) PROVE AgreeInv'
  BY <1>0, <1>8, AgreeUnrests DEF Rematerializes, Free
<1>9. ASSUME NEW f \in Files, Resets(f) PROVE AgreeInv'
  <2>1. \A g \in Files \ {f} : session[g].pc = "none"
    BY <1>9 DEF Resets, AgreeInv, OneSession
  <2>2. \A g \in Files : session'[g].pc = "none"
    BY <1>9, <2>1 DEF Resets, NoSession, AgreeInv, TotalInv, TypeOK
  <2>3. OneSession' /\ CopyIsRow'
    BY <2>2 DEF OneSession, CopyIsRow
  <2>4. formal'[f] = "pending"
    BY <1>9 DEF Resets, With, AgreeInv, TotalInv, TypeOK
  <2>5. RestsAgreed'
    BY <2>4 DEF RestsAgreed, Resting
  <2>. QED
    BY <1>0, <2>3, <2>5 DEF AgreeInv
<1>10. CASE UNCHANGED vars
  BY <1>0, <1>10 DEF vars, AgreeInv, OneSession, CopyIsRow, RestsAgreed, Resting, With
<1>. QED
  BY <1>1, <1>2, <1>3, <1>4, <1>5, <1>6, <1>7, <1>8, <1>9, <1>10 DEF Next

(* If the sessions on a batch do not overlap, its counters and status are
   right whenever its files rest, whichever refresh function came last and
   whatever was approved, reset, rolled back or uploaded meanwhile. *)
THEOREM AgreesAlone ==
  ASSUME Overlap = FALSE
  PROVE  Spec => []BatchAgrees
<1>1. AgreeInv /\ [Next]_vars => AgreeInv'
  BY AgreeStep
<1>2. AgreeInv => BatchAgrees
  BY DEF AgreeInv, TotalInv, TotalIsCounted, RestsAgreed, BatchAgrees
<1>. QED
  BY <1>1, <1>2, AgreeInit, PTL DEF Spec
=============================================================================
