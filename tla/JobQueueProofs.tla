--------------------------- MODULE JobQueueProofs ---------------------------
(***************************************************************************)
(* Proofs about the job queue, for every set of jobs, keys and workers and *)
(* every retry budget.                                                     *)
(***************************************************************************)
EXTENDS JobQueueProps, FiniteSetTheorems, TLAPS

USE JobQueueAssumption

-----------------------------------------------------------------------------
(* A busy worker has a job: what TypeOK needs to be inductive. *)
BusyHasJob == \A w \in Workers : Busy(w) => wk[w].job \in Jobs

TypeInv == TypeOK /\ BusyHasJob

(* A fresh row is a row. *)
LEMMA NewRowType ==
  ASSUME TypeOK, NEW k \in Keys
  PROVE  NewRow(k) \in Row
<1>1. Cardinality(Inserted) \in Nat
  <2>1. Inserted \subseteq Jobs
    BY DEF Inserted
  <2>2. IsFiniteSet(Inserted)
    BY <2>1, FS_Subset
  <2>. QED
    BY <2>2, FS_CardinalityType
<1>. QED
  BY <1>1 DEF NewRow, BlankRow, Row, JobStatus

(* The rows the operations write are rows. *)
LEMMA EndedType ==
  ASSUME NEW r \in Row, NEW s \in JobStatus
  PROVE  Ended(r, s) \in Row
BY DEF Ended, Row

LEMMA EndedFields ==
  ASSUME NEW r \in Row, NEW s
  PROVE  Ended(r, s).status = s /\ Ended(r, s).owner = None
BY DEF Ended, Row

LEMMA ViewType ==
  ASSUME NEW r \in Row
  PROVE  View(r) \in RowView
BY DEF View, Row, RowView

(* Setting a column, or a field of a worker's or heartbeat's state. *)
LEMMA RowUpdate ==
  ASSUME NEW r \in Row
  PROVE  /\ \A b \in BOOLEAN : [r EXCEPT !.delayed = b] \in Row
         /\ \A l \in {"none", "live", "expired"} : [r EXCEPT !.lease = l] \in Row
BY DEF Row

LEMMA WorkerUpdate ==
  ASSUME NEW s \in WorkerState
  PROVE  /\ \A p \in Phase : [s EXCEPT !.phase = p] \in WorkerState
         /\ \A p \in Phase, h \in {"none", "error", "operator", "shutdown"},
               v \in RowView :
              [s EXCEPT !.phase = p, !.how = h, !.seen = v] \in WorkerState
BY DEF WorkerState

LEMMA HeartbeatUpdate ==
  ASSUME NEW h \in Heartbeat
  PROVE  /\ \A b \in BOOLEAN : [h EXCEPT !.on = b] \in Heartbeat
         /\ [h EXCEPT !.writing = None] \in Heartbeat
         /\ NoBeat \in Heartbeat
BY DEF Heartbeat, NoBeat

LEMMA IdleType ==
  ASSUME NEW p \in Phase
  PROVE  /\ Idle(p) \in WorkerState
         /\ Idle(p).phase = p
         /\ \A j \in Jobs \cup {None} :
              /\ [Idle(p) EXCEPT !.job = j] \in WorkerState
              /\ [Idle(p) EXCEPT !.job = j].phase = p
BY DEF Idle, NoView, View, NoRow, BlankRow, RowView, WorkerState

LEMMA NoRowType ==
  ASSUME NEW s \in {"none", "deleted"}
  PROVE  NoRow(s) \in Row
BY DEF NoRow, BlankRow, Row

LEMMA LeasedType ==
  ASSUME TypeOK, NEW w \in Workers, NEW j \in Jobs, Eligible(w, j)
  PROVE  Leased(jobs[j], w) \in Row
<1>1. jobs[j] \in Row
  BY DEF TypeOK
<1>2. CASE jobs[j].status = "running"
  BY <1>1, <1>2 DEF Leased, Row, JobStatus
<1>3. CASE jobs[j].status # "running"
  <2>1. jobs[j].attempts + 1 \in 0..MaxAttempts
    BY <1>1, <1>3 DEF Eligible, Due, Row
  <2>. QED
    BY <1>1, <1>3, <2>1 DEF Leased, Row, JobStatus
<1>. QED
  BY <1>2, <1>3

(* An ending writes a row, frees its worker or ends its thread. *)
LEMMA WriteType ==
  ASSUME TypeInv, NEW w \in Workers, Busy(w), NEW r \in Row, Write(w, r)
  PROVE  /\ jobs' \in [Jobs -> Row]
         /\ \E p \in {"idle", "exited"} : wk' = [wk EXCEPT ![w] = Idle(p)]
<1>1. wk[w].job \in Jobs
  BY DEF TypeInv, BusyHasJob
<1>2. jobs' \in [Jobs -> Row]
  BY <1>1 DEF TypeInv, TypeOK, Write
<1>. QED
  BY <1>2 DEF Write

(* Types and BusyHasJob are preserved by every step. *)
LEMMA TypeStep == TypeInv /\ [Next]_vars => TypeInv'
<1> SUFFICES ASSUME TypeInv, [Next]_vars
             PROVE  TypeInv'
  OBVIOUS
<1>0. TypeOK
  BY DEF TypeInv
<1>1. ASSUME NEW j \in Jobs, NEW k \in Keys, Enqueue(j, k)
      PROVE  TypeInv'
  <2>1. NewRow(k) \in Row
    BY <1>0, NewRowType
  <2>. QED
    BY <1>1, <2>1 DEF Enqueue, TypeInv, TypeOK, BusyHasJob, Busy
<1>2. ASSUME NEW i \in Items, CancelPending(i)
      PROVE  TypeInv'
  <2>1. \A j \in Jobs : jobs[j] \in Row /\ Ended(jobs[j], "cancelled") \in Row
    BY <1>0, EndedType DEF TypeOK, JobStatus
  <2>. QED
    BY <1>2, <2>1 DEF CancelPending, Cancelled, TypeInv, TypeOK, BusyHasJob, Busy
<1>3. ASSUME NEW i \in Items, DeleteJobs(i)
      PROVE  TypeInv'
  BY <1>3, NoRowType DEF DeleteJobs, Purged, TypeInv, TypeOK, BusyHasJob, Busy
<1>4. ASSUME NEW j \in Jobs, ComeDue(j)
      PROVE  TypeInv'
  BY <1>4, RowUpdate DEF ComeDue, TypeInv, TypeOK, BusyHasJob, Busy
<1>5. ASSUME NEW j \in Jobs, ExpireLease(j)
      PROVE  TypeInv'
  BY <1>5, RowUpdate DEF ExpireLease, TypeInv, TypeOK, BusyHasJob, Busy
<1>6. ASSUME NEW w \in Workers, Start(w)
      PROVE  TypeInv'
  BY <1>6, IdleType DEF Start, Phase, TypeInv, TypeOK, BusyHasJob, Busy
<1>7. ASSUME NEW w \in Workers, Claim(w)
      PROVE  TypeInv'
  <2>1. PICK j \in Jobs :
          /\ Eligible(w, j)
          /\ jobs' = [jobs EXCEPT ![j] = Leased(jobs[j], w)]
          /\ wk' = [wk EXCEPT ![w] = [phase |-> "working", job |-> j, how |-> "none",
                                      seen |-> View(Leased(jobs[j], w))]]
          /\ hb' = [hb EXCEPT ![w].on = TRUE]
    BY <1>7 DEF Claim
  <2>2. Leased(jobs[j], w) \in Row
    BY <1>0, <2>1, LeasedType
  <2>3. View(Leased(jobs[j], w)) \in RowView
    BY <2>2, ViewType
  <2>4. wk'[w] \in WorkerState /\ wk'[w].job = j
    BY <1>0, <2>1, <2>3 DEF TypeOK, WorkerState, Phase
  <2>. QED
    BY <1>7, <2>1, <2>2, <2>4, HeartbeatUpdate
    DEF Claim, TypeInv, TypeOK, BusyHasJob, Busy
<1>8. ASSUME NEW w \in Workers, HeartbeatRead(w)
      PROVE  TypeInv'
  <2>1. [on |-> TRUE, writing |-> wk[w].job] \in Heartbeat
    BY <1>0 DEF TypeOK, WorkerState, Heartbeat
  <2>. QED
    BY <1>8, <2>1, HeartbeatUpdate DEF HeartbeatRead, TypeInv, TypeOK, BusyHasJob, Busy
<1>9. ASSUME NEW w \in Workers, HeartbeatWrite(w)
      PROVE  TypeInv'
  <2>1. jobs' \in [Jobs -> Row]
    BY <1>0, <1>9, RowUpdate DEF HeartbeatWrite, TypeOK
  <2>2. hb' \in [Workers -> Heartbeat]
    BY <1>0, <1>9, HeartbeatUpdate DEF HeartbeatWrite, TypeOK
  <2>. QED
    BY <1>9, <2>1, <2>2 DEF HeartbeatWrite, TypeInv, TypeOK, BusyHasJob, Busy
<1>10. ASSUME NEW w \in Workers, HandlerReturns(w)
       PROVE  TypeInv'
  <2>1. wk'[w] = [wk[w] EXCEPT !.phase = "returned"] /\ wk'[w].job = wk[w].job
    BY <1>0, <1>10 DEF HandlerReturns, TypeOK, WorkerState
  <2>2. wk' \in [Workers -> WorkerState]
    BY <1>0, <1>10, WorkerUpdate DEF HandlerReturns, TypeOK, Phase
  <2>3. hb' \in [Workers -> Heartbeat]
    BY <1>0, <1>10, HeartbeatUpdate DEF HandlerReturns, TypeOK
  <2>. QED
    BY <1>10, <2>1, <2>2, <2>3 DEF HandlerReturns, TypeInv, TypeOK, BusyHasJob, Busy
<1>11. ASSUME NEW w \in Workers, NEW how \in {"error", "operator", "shutdown"},
              NEW reread \in BOOLEAN, HandlerRaises(w, how, reread)
       PROVE  TypeInv'
  <2>1. jobs[wk[w].job] \in Row
    BY <1>0, <1>11 DEF HandlerRaises, TypeInv, TypeOK, BusyHasJob, Busy
  <2>2. (IF reread THEN View(jobs[wk[w].job]) ELSE wk[w].seen) \in RowView
    BY <1>0, <2>1, ViewType DEF TypeOK, WorkerState
  <2>3. wk' = [wk EXCEPT ![w] =
                 [wk[w] EXCEPT !.phase = "raised", !.how = how,
                    !.seen = IF reread THEN View(jobs[wk[w].job]) ELSE wk[w].seen]]
    BY <1>11 DEF HandlerRaises
  <2>4. wk' \in [Workers -> WorkerState]
    BY <1>0, <2>2, <2>3, WorkerUpdate DEF TypeOK, Phase
  <2>5. wk'[w].job = wk[w].job
    BY <1>0, <2>3 DEF TypeOK, WorkerState
  <2>6. hb' \in [Workers -> Heartbeat]
    BY <1>0, <1>11, HeartbeatUpdate DEF HandlerRaises, TypeOK
  <2>. QED
    BY <1>11, <2>3, <2>4, <2>5, <2>6
    DEF HandlerRaises, TypeInv, TypeOK, BusyHasJob, Busy
<1>12. ASSUME NEW w \in Workers, Settle(w)
       PROVE  TypeInv'
  <2>1. Busy(w)
    BY <1>12 DEF Settle, Succeed, Fail, ReleaseForShutdown, DeferForOperator, Busy
  <2>2. PICK r \in Row : Write(w, r)
    <3>0. /\ jobs[wk[w].job] \in Row
          /\ wk[w].seen \in RowView
      BY <1>0, <2>1 DEF TypeInv, TypeOK, BusyHasJob, WorkerState
    <3>1. \A s \in JobStatus : Ended(jobs[wk[w].job], s) \in Row
      BY <3>0, EndedType
    <3>2. CASE Succeed(w)
      BY <3>1, <3>2 DEF Succeed, JobStatus
    <3>3. CASE Fail(w)
      <4>1. [Ended(jobs[wk[w].job], "pending") EXCEPT !.delayed = TRUE] \in Row
        BY <3>1 DEF JobStatus, Row
      <4>. QED
        BY <3>1, <3>3, <4>1 DEF Fail, Failed, Retry, JobStatus
    <3>4. CASE ReleaseForShutdown(w) \/ DeferForOperator(w)
      <4>0. (IF wk[w].seen.attempts > 0 THEN wk[w].seen.attempts - 1 ELSE 0)
              \in 0..MaxAttempts
        BY <3>0 DEF RowView
      <4>1. GivenBack(w) \in Row
        BY ZenonT(30), <3>1, <4>0 DEF GivenBack, JobStatus, Row
      <4>2. [GivenBack(w) EXCEPT !.delayed = TRUE] \in Row
        BY <4>1 DEF Row
      <4>. QED
        BY <3>4, <4>1, <4>2 DEF ReleaseForShutdown, DeferForOperator
    <3>. QED
      BY <1>12, <3>2, <3>3, <3>4 DEF Settle
  <2>3. /\ jobs' \in [Jobs -> Row]
        /\ \E p \in {"idle", "exited"} : wk' = [wk EXCEPT ![w] = Idle(p)]
    BY <2>1, <2>2, WriteType
  <2>4. hb' = hb /\ stopping' \subseteq Workers
    BY <1>0, <1>12
    DEF Settle, Succeed, Fail, ReleaseForShutdown, DeferForOperator, TypeOK
  <2>. QED
    BY <2>3, <2>4, IdleType DEF Phase, TypeInv, TypeOK, BusyHasJob, Busy
<1>13. ASSUME NEW w \in Workers, Stop(w)
       PROVE  TypeInv'
  BY <1>13 DEF Stop, TypeInv, TypeOK, BusyHasJob, Busy
<1>14. ASSUME NEW w \in Workers, Leave(w)
       PROVE  TypeInv'
  BY <1>14, IdleType, HeartbeatUpdate DEF Leave, Phase, TypeInv, TypeOK, BusyHasJob, Busy
<1>15. ASSUME NEW w \in Workers, Crash(w)
       PROVE  TypeInv'
  <2>1. wk[w].job \in Jobs \cup {None}
    BY <1>0 DEF TypeOK, WorkerState
  <2>. QED
    BY <1>15, <2>1, IdleType, HeartbeatUpdate
    DEF Crash, Phase, TypeInv, TypeOK, BusyHasJob, Busy
<1>16. CASE UNCHANGED vars
  BY <1>16 DEF vars, TypeInv, TypeOK, BusyHasJob, Busy
<1>. QED
  BY <1>1, <1>2, <1>3, <1>4, <1>5, <1>6, <1>7, <1>8, <1>9, <1>10, <1>11, <1>12,
     <1>13, <1>14, <1>15, <1>16
  DEF Next, Client, Time, Worker, HandlerEnds

(* Type correctness of the job queue, however late heartbeats are. *)
THEOREM TypeCorrect == Spec => []TypeOK
<1>1. Init => TypeInv
  BY NoRowType, IdleType DEF Init, TypeInv, TypeOK, BusyHasJob, Busy, NoBeat, Heartbeat, Phase
<1>2. TypeInv => TypeOK
  BY DEF TypeInv
<1>. QED
  BY <1>1, <1>2, TypeStep, PTL DEF Spec

-----------------------------------------------------------------------------
(* The ownership discipline, however late heartbeats are.  It rests on one
   more fact: a worker whose copy of the row does not name it is not the
   owner of the row either, so that an ending that writes nothing leaves no
   row behind in its name. *)
NonOwnerKnows ==
  \A w \in Workers : Busy(w) /\ ~Owns(w) => jobs[wk[w].job].owner # w

HolderInv == TypeInv /\ OwnedIffRunning /\ HolderAtWork /\ NonOwnerKnows

(* An ending, if it writes, writes a row that is neither RUNNING nor owned. *)
LEMMA SettleWrites ==
  ASSUME TypeInv, NEW w \in Workers, Settle(w)
  PROVE  /\ Busy(w)
         /\ wk[w].job \in Jobs
         /\ \E r : r.owner = None /\ r.status # "running" /\ Write(w, r)
         /\ UNCHANGED hb
<1>1. Busy(w) /\ UNCHANGED hb
  BY DEF Settle, Succeed, Fail, ReleaseForShutdown, DeferForOperator, Busy
<1>2. wk[w].job \in Jobs
  BY <1>1 DEF TypeInv, BusyHasJob
<1>3. \A s \in {"succeeded", "failed", "pending"} :
        LET r == Ended(jobs[wk[w].job], s) IN
        /\ r.owner = None /\ r.status = s
        /\ \A b \in BOOLEAN, n \in Int :
             /\ [r EXCEPT !.delayed = b].owner = None
             /\ [r EXCEPT !.delayed = b].status = s
             /\ [r EXCEPT !.delayed = FALSE, !.attempts = n].owner = None
             /\ [r EXCEPT !.delayed = FALSE, !.attempts = n].status = s
             /\ [[r EXCEPT !.delayed = FALSE, !.attempts = n]
                    EXCEPT !.delayed = b].owner = None
             /\ [[r EXCEPT !.delayed = FALSE, !.attempts = n]
                    EXCEPT !.delayed = b].status = s
  BY <1>2 DEF TypeInv, TypeOK, Ended, Row
<1>4. (IF wk[w].seen.attempts > 0 THEN wk[w].seen.attempts - 1 ELSE 0) \in Int
  BY DEF TypeInv, TypeOK, WorkerState, RowView
<1>5. CASE Succeed(w)
  BY <1>1, <1>2, <1>3, <1>5 DEF Succeed
<1>6. CASE Fail(w)
  <2>1. CASE wk[w].seen.attempts >= MaxAttempts
    <3>1. Write(w, Ended(jobs[wk[w].job], "failed"))
      BY <1>6, <2>1 DEF Fail, Failed, Retry
    <3>. QED
      BY <1>1, <1>2, <1>3, <3>1
  <2>2. CASE ~(wk[w].seen.attempts >= MaxAttempts)
    <3>1. Write(w, [Ended(jobs[wk[w].job], "pending") EXCEPT !.delayed = TRUE])
      BY <1>6, <2>2 DEF Fail, Failed, Retry
    <3>2. /\ [Ended(jobs[wk[w].job], "pending") EXCEPT !.delayed = TRUE].owner = None
          /\ [Ended(jobs[wk[w].job], "pending") EXCEPT !.delayed = TRUE].status = "pending"
      BY <1>3
    <3>. QED
      BY <1>1, <1>2, <3>1, <3>2
  <2>. QED
    BY <2>1, <2>2
<1>7. CASE ReleaseForShutdown(w)
  BY ZenonT(30), <1>1, <1>2, <1>3, <1>4, <1>7 DEF ReleaseForShutdown, GivenBack
<1>8. CASE DeferForOperator(w)
  BY ZenonT(30), <1>1, <1>2, <1>3, <1>4, <1>8 DEF DeferForOperator, GivenBack
<1>. QED
  BY <1>5, <1>6, <1>7, <1>8 DEF Settle

LEMMA HolderStep == HolderInv /\ [Next]_vars => HolderInv'
<1> SUFFICES ASSUME HolderInv, [Next]_vars
             PROVE  HolderInv'
  OBVIOUS
<1>. USE DEF HolderInv, OwnedIffRunning, HolderAtWork, NonOwnerKnows
<1>a. TypeInv /\ TypeInv'
  BY TypeStep
<1>b. /\ \A j \in Jobs : jobs[j] \in Row
      /\ jobs \in [Jobs -> Row] /\ wk \in [Workers -> WorkerState]
      /\ \A w \in Workers : Busy(w) => wk[w].job \in Jobs
  BY <1>a DEF TypeInv, TypeOK, BusyHasJob
<1>1. ASSUME NEW j \in Jobs, NEW k \in Keys, Enqueue(j, k)
      PROVE  HolderInv'
  BY <1>a, <1>b, <1>1 DEF Enqueue, MayInsert, NewRow, BlankRow, Busy, Owns
<1>2. ASSUME NEW i \in Items, CancelPending(i)
      PROVE  HolderInv'
  <2>1. \A j \in Jobs : \/ jobs'[j] = jobs[j]
                        \/ /\ jobs[j].status = "pending"
                           /\ jobs'[j].status = "cancelled" /\ jobs'[j].owner = None
    BY <1>b, <1>2, EndedFields DEF CancelPending, Cancelled
  <2>. QED
    BY <1>a, <1>b, <1>2, <2>1 DEF CancelPending, Busy, Owns
<1>3. ASSUME NEW i \in Items, DeleteJobs(i)
      PROVE  HolderInv'
  <2>1. \A j \in Jobs : \/ jobs'[j] = jobs[j]
                        \/ jobs'[j].status = "deleted" /\ jobs'[j].owner = None
    BY <1>b, <1>3 DEF DeleteJobs, Purged, NoRow, BlankRow
  <2>. QED
    BY <1>a, <1>b, <1>3, <2>1 DEF DeleteJobs, Busy, Owns
<1>4. ASSUME NEW j \in Jobs, ComeDue(j) \/ ExpireLease(j)
      PROVE  HolderInv'
  <2>1. \A i \in Jobs : jobs'[i].status = jobs[i].status /\ jobs'[i].owner = jobs[i].owner
    BY <1>b, <1>4 DEF ComeDue, ExpireLease, Row
  <2>. QED
    BY <1>a, <1>b, <1>4, <2>1 DEF ComeDue, ExpireLease, Busy, Owns
<1>5. ASSUME NEW w \in Workers, Start(w) \/ Leave(w)
      PROVE  HolderInv'
  <2>1. wk'[w].phase \in {"idle", "exited"} /\ ~Busy(w)
    BY <1>b, <1>5 DEF Start, Leave, Idle, Busy
  <2>2. \A v \in Workers : v # w => wk'[v] = wk[v]
    BY <1>b, <1>5 DEF Start, Leave
  <2>3. \A j \in Jobs : jobs[j].status = "running" => jobs[j].owner # w
    BY <1>5 DEF Start, Leave, Busy
  <2>. QED
    BY <1>a, <1>b, <1>5, <2>1, <2>2, <2>3 DEF Start, Leave, Busy, Owns
<1>6. ASSUME NEW w \in Workers, Claim(w)
      PROVE  HolderInv'
  <2>1. PICK j \in Jobs :
          /\ jobs' = [jobs EXCEPT ![j] = Leased(jobs[j], w)]
          /\ wk' = [wk EXCEPT ![w] = [phase |-> "working", job |-> j, how |-> "none",
                                      seen |-> View(Leased(jobs[j], w))]]
    BY <1>6 DEF Claim
  <2>2. jobs'[j].status = "running" /\ jobs'[j].owner = w
    BY <1>b, <2>1 DEF Leased, Row
  <2>3. wk'[w].phase = "working" /\ wk'[w].job = j /\ wk'[w].seen.owner = w
    BY <1>b, <2>1 DEF Leased, Row, View
  <2>4. \A i \in Jobs : i # j => jobs'[i] = jobs[i]
    BY <1>b, <2>1
  <2>5. \A v \in Workers : v # w => wk'[v] = wk[v]
    BY <1>b, <2>1
  <2>6. \A i \in Jobs : jobs[i].status = "running" => jobs[i].owner # w
    BY <1>6 DEF Claim, Busy
  <2>. QED
    BY <1>a, <1>b, <2>2, <2>3, <2>4, <2>5, <2>6 DEF Busy, Owns
<1>7. ASSUME NEW w \in Workers, HeartbeatRead(w) \/ Stop(w)
      PROVE  HolderInv'
  BY <1>a, <1>7 DEF HeartbeatRead, Stop, Busy, Owns
<1>8. ASSUME NEW w \in Workers, HeartbeatWrite(w)
      PROVE  HolderInv'
  <2>1. \A i \in Jobs : jobs'[i].status = jobs[i].status /\ jobs'[i].owner = jobs[i].owner
    BY <1>b, <1>8 DEF HeartbeatWrite, Row
  <2>2. wk' = wk
    BY <1>8 DEF HeartbeatWrite
  <2>. QED
    BY <1>a, <1>b, <2>1, <2>2 DEF Busy, Owns
<1>9. ASSUME NEW w \in Workers,
             \/ HandlerReturns(w)
             \/ \E how \in {"error", "operator", "shutdown"}, reread \in BOOLEAN :
                  HandlerRaises(w, how, reread)
      PROVE  HolderInv'
  <2>1. /\ Busy(w) /\ wk'[w].phase \in {"returned", "raised"} /\ wk'[w].job = wk[w].job
        /\ wk'[w].seen \in {wk[w].seen, View(jobs[wk[w].job])}
        /\ UNCHANGED jobs
    BY <1>b, <1>9 DEF HandlerReturns, HandlerRaises, Busy, WorkerState
  <2>2. \A v \in Workers : v # w => wk'[v] = wk[v]
    BY <1>b, <1>9 DEF HandlerReturns, HandlerRaises
  <2>3. View(jobs[wk[w].job]).owner = jobs[wk[w].job].owner
    BY DEF View
  <2>. QED
    BY <1>a, <1>b, <2>1, <2>2, <2>3 DEF Busy, Owns
<1>10. ASSUME NEW w \in Workers, Settle(w)
       PROVE  HolderInv'
  <2>1. PICK r : /\ r.owner = None /\ r.status # "running" /\ Write(w, r)
                 /\ Busy(w) /\ wk[w].job \in Jobs
    BY <1>a, <1>10, SettleWrites
  <2>2. wk'[w].phase \in {"idle", "exited"}
    BY <1>b, <2>1 DEF Write, Idle
  <2>3. \A v \in Workers : v # w => wk'[v] = wk[v]
    BY <1>b, <2>1 DEF Write
  <2>4. \A i \in Jobs : i # wk[w].job => jobs'[i] = jobs[i] /\ jobs[i].owner # w
    BY <1>b, <2>1 DEF Write
  <2>5. \/ jobs'[wk[w].job].owner = None /\ jobs'[wk[w].job].status # "running"
        \/ jobs'[wk[w].job] = jobs[wk[w].job] /\ jobs[wk[w].job].owner # w
    BY <1>b, <2>1 DEF Write, Exists, JobStatus
  <2>. QED
    BY <1>a, <1>b, <2>1, <2>2, <2>3, <2>4, <2>5 DEF Busy, Owns
<1>11. ASSUME NEW w \in Workers, Crash(w)
       PROVE  HolderInv'
  <2>1. wk'[w].phase = "exited" /\ wk'[w].job = wk[w].job
    BY <1>b, <1>11 DEF Crash, Idle, Up, Busy
  <2>2. \A v \in Workers : v # w => wk'[v] = wk[v]
    BY <1>b, <1>11 DEF Crash
  <2>. QED
    BY <1>a, <1>b, <1>11, <2>1, <2>2 DEF Crash, Busy, Owns
<1>12. CASE UNCHANGED vars
  BY <1>a, <1>12 DEF vars, Busy, Owns
<1>. QED
  BY <1>1, <1>2, <1>3, <1>4, <1>5, <1>6, <1>7, <1>8, <1>9, <1>10, <1>11, <1>12
  DEF Next, Client, Time, Worker, HandlerEnds

LEMMA HolderInit == Init => HolderInv
<1> SUFFICES ASSUME Init
             PROVE  HolderInv
  OBVIOUS
<1>1. TypeInv
  BY NoRowType, IdleType
  DEF Init, TypeInv, TypeOK, BusyHasJob, Busy, NoBeat, Heartbeat, Phase
<1>2. /\ \A j \in Jobs : jobs[j].status = "none" /\ jobs[j].owner = None
      /\ \A w \in Workers : ~Busy(w)
  BY DEF Init, NoRow, BlankRow, Idle, Busy
<1>. QED
  BY <1>1, <1>2 DEF HolderInv, OwnedIffRunning, HolderAtWork, NonOwnerKnows

LEMMA HolderInvariant == Spec => []HolderInv
BY HolderInit, HolderStep, PTL DEF Spec

(* A RUNNING row is always held by the worker that works on it, or died on
   it, whatever stale endings and late heartbeats do. *)
THEOREM HoldersWork == Spec => []HolderAtWork
<1>1. HolderInv => HolderAtWork
  BY DEF HolderInv
<1>. QED
  BY <1>1, HolderInvariant, PTL

(* An owner is recorded exactly while the row is RUNNING. *)
THEOREM OwnersRun == Spec => []OwnedIffRunning
<1>1. HolderInv => OwnedIffRunning
  BY DEF HolderInv
<1>. QED
  BY <1>1, HolderInvariant, PTL

-----------------------------------------------------------------------------
(* With leases that outlive a running worker.  ViewIsFresh is not inductive
   by itself: a worker's row can be taken only by a claim of an expired
   lease, so the invariant also says that only a dead worker's lease is
   expired, and that the row of a busy worker is RUNNING in its name. *)
HoldsItsRow ==
  \A w \in Workers : Busy(w) =>
    jobs[wk[w].job].status = "running" /\ jobs[wk[w].job].owner = w

RunsAreCounted ==
  \A j \in Jobs :
    /\ jobs[j].status \in {"running", "succeeded"} => jobs[j].attempts >= 1
    /\ jobs[j].status = "none" => jobs[j].attempts = 0

ExpiredMeansGone ==
  \A j \in Jobs : jobs[j].status = "running" /\ jobs[j].lease = "expired" =>
    wk[jobs[j].owner].phase = "exited"

ReliableInv ==
  /\ HolderInv
  /\ ViewIsFresh
  /\ HoldsItsRow
  /\ PendingIsClaimable
  /\ RunsAreCounted
  /\ ExpiredMeansGone

(* What an ending does to the table when the worker's view is the row. *)
Outcome(r, s) ==
  /\ s.owner = None
  /\ \/ s.status = "succeeded" /\ s.attempts = r.attempts
     \/ s.status = "failed" /\ s.attempts = r.attempts /\ r.attempts = MaxAttempts
     \/ s.status = "pending" /\ s.attempts = r.attempts /\ r.attempts < MaxAttempts
     \/ s.status = "pending" /\ s.attempts = r.attempts - 1

LEMMA ReliableSettle ==
  ASSUME ReliableInv, NEW w \in Workers, Settle(w)
  PROVE  /\ Busy(w) /\ wk[w].job \in Jobs
         /\ jobs' = [jobs EXCEPT ![wk[w].job] = jobs'[wk[w].job]]
         /\ Outcome(jobs[wk[w].job], jobs'[wk[w].job])
         /\ wk' = [wk EXCEPT ![w] = Idle("idle")]
<1>1. Busy(w) /\ wk[w].job \in Jobs
  BY SettleWrites DEF ReliableInv, HolderInv
<1>. DEFINE j == wk[w].job
            r == jobs[j]
<1>2. /\ jobs \in [Jobs -> Row] /\ r \in Row /\ r.attempts \in 0..MaxAttempts
      /\ Owns(w) /\ Exists(j) /\ wk[w].seen.attempts = r.attempts /\ r.attempts >= 1
  BY <1>1 DEF ReliableInv, HolderInv, TypeInv, TypeOK, Row, ViewIsFresh, HoldsItsRow,
              RunsAreCounted, Owns
<1>3. ASSUME NEW s, Write(w, s)
      PROVE  jobs' = [jobs EXCEPT ![j] = s] /\ jobs'[j] = s
             /\ wk' = [wk EXCEPT ![w] = Idle("idle")]
  BY <1>1, <1>2, <1>3 DEF Write
<1>4. ASSUME NEW t \in {"succeeded", "failed", "pending"}
      PROVE  /\ Ended(r, t).owner = None /\ Ended(r, t).status = t
             /\ Ended(r, t).attempts = r.attempts
             /\ Ended(r, t) \in Row
  <2>1. t \in JobStatus
    BY DEF JobStatus
  <2>. QED
    BY <1>2, <2>1, EndedType DEF Ended, Row
<1>5. CASE Succeed(w)
  <2>1. Write(w, Ended(r, "succeeded"))
    BY <1>5 DEF Succeed
  <2>. QED
    BY <1>1, <1>3, <1>4, <2>1 DEF Outcome
<1>6. CASE Fail(w)
  <2>1. CASE wk[w].seen.attempts >= MaxAttempts
    <3>1. Write(w, Ended(r, "failed"))
      BY <1>6, <2>1 DEF Fail, Failed, Retry
    <3>2. r.attempts = MaxAttempts
      BY <1>2, <2>1
    <3>. QED
      BY <1>1, <1>3, <1>4, <3>1, <3>2 DEF Outcome
  <2>2. CASE ~(wk[w].seen.attempts >= MaxAttempts)
    <3>. DEFINE s == [Ended(r, "pending") EXCEPT !.delayed = TRUE]
    <3>1. Write(w, s)
      BY <1>6, <2>2 DEF Fail, Failed, Retry
    <3>2. r.attempts < MaxAttempts
      BY <1>2, <2>2
    <3>3. s.owner = None /\ s.status = "pending" /\ s.attempts = r.attempts
      BY <1>4 DEF Row
    <3>. QED
      BY <1>1, <1>3, <3>1, <3>2, <3>3 DEF Outcome
  <2>. QED
    BY <2>1, <2>2
<1>7. CASE ReleaseForShutdown(w) \/ DeferForOperator(w)
  <2>1. /\ GivenBack(w).owner = None /\ GivenBack(w).status = "pending"
        /\ GivenBack(w).attempts = r.attempts - 1
        /\ [GivenBack(w) EXCEPT !.delayed = TRUE].owner = None
        /\ [GivenBack(w) EXCEPT !.delayed = TRUE].status = "pending"
        /\ [GivenBack(w) EXCEPT !.delayed = TRUE].attempts = r.attempts - 1
    BY <1>2, <1>4 DEF GivenBack, Row
  <2>2. Write(w, GivenBack(w)) \/ Write(w, [GivenBack(w) EXCEPT !.delayed = TRUE])
    BY <1>7 DEF ReleaseForShutdown, DeferForOperator
  <2>. QED
    BY <1>1, <1>3, <2>1, <2>2 DEF Outcome
<1>. QED
  BY <1>5, <1>6, <1>7 DEF Settle

LEMMA ReliableStep ==
  ASSUME LeaseLoss = FALSE, ClaimRace = FALSE, ReliableInv, [Next]_vars
  PROVE  ReliableInv'
<1>. USE DEF ViewIsFresh, HoldsItsRow, PendingIsClaimable, RunsAreCounted,
             ExpiredMeansGone
<1>a. HolderInv /\ HolderInv'
  BY HolderStep DEF ReliableInv
<1>b. /\ \A j \in Jobs : jobs[j] \in Row
      /\ jobs \in [Jobs -> Row] /\ wk \in [Workers -> WorkerState]
      /\ \A w \in Workers : Busy(w) => wk[w].job \in Jobs
      /\ \A j \in Jobs : jobs[j].status = "running" => jobs[j].owner \in Workers
  BY <1>a DEF HolderInv, HolderAtWork, TypeInv, TypeOK, BusyHasJob
<1>c. /\ ViewIsFresh /\ HoldsItsRow /\ PendingIsClaimable /\ RunsAreCounted
      /\ ExpiredMeansGone
  BY DEF ReliableInv
<1>d. SUFFICES /\ ViewIsFresh' /\ HoldsItsRow' /\ PendingIsClaimable'
               /\ RunsAreCounted' /\ ExpiredMeansGone'
  BY <1>a DEF ReliableInv
<1>. DEFINE Rest == /\ ViewIsFresh' /\ HoldsItsRow' /\ PendingIsClaimable'
                    /\ RunsAreCounted' /\ ExpiredMeansGone'
(* A step that leaves the workers alone and touches no RUNNING row. *)
<1>e. ASSUME wk' = wk,
             \A j \in Jobs :
               \/ jobs'[j] = jobs[j]
               \/ /\ jobs[j].status # "running"
                  /\ \/ jobs'[j].status \in {"cancelled", "deleted"}
                     \/ jobs'[j].status = "pending" /\ jobs'[j].attempts < MaxAttempts
      PROVE  Rest
  BY <1>b, <1>c, <1>e DEF Busy, Exists
<1>1. ASSUME NEW j \in Jobs, NEW k \in Keys, Enqueue(j, k)
      PROVE  Rest
  BY <1>b, <1>e, <1>1 DEF Enqueue, MayInsert, NewRow, BlankRow
<1>2. ASSUME NEW i \in Items, CancelPending(i) \/ DeleteJobs(i)
      PROVE  Rest
  BY <1>b, <1>e, <1>2, EndedFields
  DEF CancelPending, Cancelled, DeleteJobs, Purged, Quiet, NoRow, BlankRow
<1>3. ASSUME NEW j \in Jobs, ComeDue(j) \/ ExpireLease(j)
      PROVE  Rest
  <2>1. \A i \in Jobs : /\ jobs'[i].status = jobs[i].status
                         /\ jobs'[i].owner = jobs[i].owner
                         /\ jobs'[i].attempts = jobs[i].attempts
    BY <1>b, <1>3 DEF ComeDue, ExpireLease, Row
  <2>2. \A i \in Jobs : jobs'[i].lease = "expired" =>
          jobs[i].lease = "expired" \/ wk[jobs[i].owner].phase = "exited"
    BY <1>b, <1>3 DEF ComeDue, ExpireLease, Row
  <2>3. wk' = wk
    BY <1>3 DEF ComeDue, ExpireLease
  <2>. QED
    BY <1>b, <1>c, <2>1, <2>2, <2>3 DEF Busy, Exists
<1>4. ASSUME NEW w \in Workers, Start(w) \/ Leave(w) \/ Crash(w)
      PROVE  Rest
  <2>1. /\ wk'[w].phase \in {"idle", "exited"}
        /\ wk[w].phase = "exited" => wk'[w].phase = "exited"
        /\ jobs' = jobs
    BY <1>b, <1>4 DEF Start, Leave, Crash, Idle, Up, Busy
  <2>2. \A v \in Workers : v # w => wk'[v] = wk[v]
    BY <1>b, <1>4 DEF Start, Leave, Crash
  <2>. QED
    BY <1>b, <1>c, <2>1, <2>2 DEF Busy, Exists
<1>5. ASSUME NEW w \in Workers, Claim(w)
      PROVE  Rest
  <2>1. PICK j \in Jobs :
          /\ Eligible(w, j)
          /\ jobs' = [jobs EXCEPT ![j] = Leased(jobs[j], w)]
          /\ wk' = [wk EXCEPT ![w] = [phase |-> "working", job |-> j, how |-> "none",
                                      seen |-> View(Leased(jobs[j], w))]]
    BY <1>5 DEF Claim
  <2>2. /\ jobs'[j].status = "running" /\ jobs'[j].owner = w
        /\ jobs'[j].lease = "live" /\ jobs'[j].attempts >= 1
    BY <1>b, <1>c, <2>1 DEF Leased, Row, Eligible, Due
  <2>3. /\ wk'[w].phase = "working" /\ wk'[w].job = j /\ wk'[w].seen.owner = w
        /\ wk'[w].seen.attempts = jobs'[j].attempts
    BY <1>b, <2>1 DEF Leased, Row, View
  <2>4. \A i \in Jobs : i # j => jobs'[i] = jobs[i]
    BY <1>b, <2>1
  <2>5. \A v \in Workers : v # w => wk'[v] = wk[v]
    BY <1>b, <2>1
  <2>6. \A v \in Workers : Busy(v) => wk[v].job # j
    BY <1>c, <2>1 DEF Eligible, Due, Busy
  <2>7. wk[w].phase # "exited"
    BY <1>5 DEF Claim
  <2>. QED
    BY <1>b, <1>c, <2>2, <2>3, <2>4, <2>5, <2>6, <2>7 DEF Busy, Exists, JobStatus
<1>6. ASSUME NEW w \in Workers, HeartbeatRead(w) \/ Stop(w)
      PROVE  Rest
  BY <1>e, <1>6 DEF HeartbeatRead, Stop
<1>7. ASSUME NEW w \in Workers, HeartbeatWrite(w)
      PROVE  Rest
  <2>1. \A i \in Jobs : /\ jobs'[i].status = jobs[i].status
                         /\ jobs'[i].owner = jobs[i].owner
                         /\ jobs'[i].attempts = jobs[i].attempts
                         /\ jobs'[i].lease \in {jobs[i].lease, "live"}
    BY <1>b, <1>7 DEF HeartbeatWrite, Row
  <2>2. wk' = wk
    BY <1>7 DEF HeartbeatWrite
  <2>. QED
    BY <1>b, <1>c, <2>1, <2>2 DEF Busy, Exists
<1>8. ASSUME NEW w \in Workers,
             \/ HandlerReturns(w)
             \/ \E how \in {"error", "operator", "shutdown"}, reread \in BOOLEAN :
                  HandlerRaises(w, how, reread)
      PROVE  Rest
  <2>1. /\ Busy(w) /\ wk'[w].phase \in {"returned", "raised"} /\ wk'[w].job = wk[w].job
        /\ wk'[w].seen \in {wk[w].seen, View(jobs[wk[w].job])}
        /\ UNCHANGED jobs
    BY <1>b, <1>8 DEF HandlerReturns, HandlerRaises, Busy, WorkerState
  <2>2. \A v \in Workers : v # w => wk'[v] = wk[v]
    BY <1>b, <1>8 DEF HandlerReturns, HandlerRaises
  <2>3. /\ View(jobs[wk[w].job]).owner = jobs[wk[w].job].owner
        /\ View(jobs[wk[w].job]).attempts = jobs[wk[w].job].attempts
    BY DEF View
  <2>. QED
    BY <1>b, <1>c, <2>1, <2>2, <2>3 DEF Busy, Exists
<1>9. ASSUME NEW w \in Workers, Settle(w)
      PROVE  Rest
  <2>. DEFINE j == wk[w].job
  <2>1. /\ Busy(w) /\ j \in Jobs
        /\ jobs' = [jobs EXCEPT ![j] = jobs'[j]]
        /\ Outcome(jobs[j], jobs'[j])
        /\ wk' = [wk EXCEPT ![w] = Idle("idle")]
    BY <1>9, ReliableSettle
  <2>2. wk'[w].phase = "idle"
    BY <1>b, <2>1 DEF Idle
  <2>3. \A v \in Workers : v # w => wk'[v] = wk[v]
    BY <1>b, <2>1
  <2>4. \A i \in Jobs : i # j => jobs'[i] = jobs[i]
    BY <1>b, <2>1
  <2>5. /\ jobs[j].attempts \in 0..MaxAttempts /\ jobs[j].attempts >= 1
        /\ jobs[j].owner = w
    BY <1>b, <1>c, <2>1 DEF Row
  <2>6. /\ jobs'[j].status \in {"succeeded", "failed", "pending"}
        /\ jobs'[j].status = "succeeded" => jobs'[j].attempts >= 1
        /\ jobs'[j].status = "pending" => jobs'[j].attempts < MaxAttempts
    BY <2>1, <2>5 DEF Outcome
  <2>7. \A v \in Workers : v # w /\ Busy(v) => wk[v].job # j
    BY <1>c, <2>5
  <2>8. \A i \in Jobs : i # j /\ jobs[i].status = "running" => jobs[i].owner # w
    BY <1>a, <2>1 DEF HolderInv, HolderAtWork
  <2>. QED
    BY <1>b, <1>c, <2>2, <2>3, <2>4, <2>6, <2>7, <2>8 DEF Busy, Exists
<1>10. CASE UNCHANGED vars
  BY <1>e, <1>10 DEF vars
<1>. QED
  BY <1>1, <1>2, <1>3, <1>4, <1>5, <1>6, <1>7, <1>8, <1>9, <1>10
  DEF Next, Client, Time, Worker, HandlerEnds

LEMMA ReliableInvariant ==
  ASSUME LeaseLoss = FALSE, ClaimRace = FALSE
  PROVE  Spec => []ReliableInv
<1>1. Init => ReliableInv
  <2> SUFFICES ASSUME Init
               PROVE  ReliableInv
    OBVIOUS
  <2>1. HolderInv
    BY HolderInit
  <2>2. /\ \A j \in Jobs : jobs[j].status = "none" /\ jobs[j].attempts = 0
        /\ \A w \in Workers : ~Busy(w)
    BY DEF Init, NoRow, BlankRow, Idle, Busy
  <2>. QED
    BY <2>1, <2>2 DEF ReliableInv, ViewIsFresh, HoldsItsRow, PendingIsClaimable,
                      RunsAreCounted, ExpiredMeansGone
<1>2. ReliableInv /\ [Next]_vars => ReliableInv'
  BY ReliableStep
<1>. QED
  BY <1>1, <1>2, PTL DEF Spec

(* While leases outlive running workers, no two workers ever run the same
   job: the claim under SKIP LOCKED, the heartbeats and the owner checks
   together are a mutual exclusion. *)
THEOREM MutualExclusion ==
  ASSUME LeaseLoss = FALSE, ClaimRace = FALSE
  PROVE  Spec => []Exclusive
<1>1. ReliableInv => Exclusive
  BY DEF ReliableInv, HoldsItsRow, Exclusive
<1>. QED
  BY <1>1, ReliableInvariant, PTL

(* ... the attempt count and the owner a worker decides on are the row's ... *)
THEOREM ViewsAreFresh ==
  ASSUME LeaseLoss = FALSE, ClaimRace = FALSE
  PROVE  Spec => []ViewIsFresh
<1>1. ReliableInv => ViewIsFresh
  BY DEF ReliableInv
<1>. QED
  BY <1>1, ReliableInvariant, PTL

(* ... and no job waits with its attempts spent. *)
THEOREM PendingClaimable ==
  ASSUME LeaseLoss = FALSE, ClaimRace = FALSE
  PROVE  Spec => []PendingIsClaimable
<1>1. ReliableInv => PendingIsClaimable
  BY DEF ReliableInv
<1>. QED
  BY <1>1, ReliableInvariant, PTL

-----------------------------------------------------------------------------
(* The refinement of RetryContract, through the mapping of JobQueueProps. *)
States == [j \in Jobs |-> ContractState(j)]
Spents == [j \in Jobs |-> ContractSpent(j)]

LEMMA MappedStatus ==
  ASSUME NEW j \in Jobs
  PROVE  /\ jobs[j].status = "none" => ContractState(j) = "absent"
         /\ jobs[j].status = "pending" => ContractState(j) = "waiting"
         /\ jobs[j].status = "running" => ContractState(j) = "active"
         /\ jobs[j].status = "deleted" => ContractState(j) = "purged"
         /\ \A s \in {"succeeded", "failed", "cancelled"} :
              jobs[j].status = s => ContractState(j) = s
BY DEF ContractState

(* The images of a step that moves one row, and of one that moves none. *)
LEMMA OneRowMoves ==
  ASSUME NEW j \in Jobs, \A i \in Jobs : i # j => jobs'[i] = jobs[i]
  PROVE  /\ States' = [States EXCEPT ![j] = ContractState(j)']
         /\ Spents' = [Spents EXCEPT ![j] = ContractSpent(j)']
<1>1. \A i \in Jobs : i # j => ContractState(i)' = ContractState(i)
  BY DEF ContractState
<1>2. \A i \in Jobs : i # j => ContractSpent(i)' = ContractSpent(i)
  BY DEF ContractSpent
<1>. QED
  BY <1>1, <1>2 DEF States, Spents

LEMMA NoRowMoves ==
  ASSUME \A j \in Jobs : jobs'[j].status = jobs[j].status
                       /\ jobs'[j].attempts = jobs[j].attempts
  PROVE  States' = States /\ Spents' = Spents
<1>1. \A i \in Jobs : ContractState(i)' = ContractState(i)
  BY DEF ContractState
<1>2. \A i \in Jobs : ContractSpent(i)' = ContractSpent(i)
  BY DEF ContractSpent
<1>. QED
  BY <1>1, <1>2 DEF States, Spents

LEMMA ContractStep ==
  ASSUME ClaimRace = FALSE, ReliableInv, [Next]_vars
  PROVE  [Contract!ContractNext]_<<States, Spents>>
<1>. DEFINE Goal == [Contract!ContractNext]_<<States, Spents>>
<1>b. /\ \A j \in Jobs : jobs[j] \in Row
      /\ jobs \in [Jobs -> Row] /\ wk \in [Workers -> WorkerState]
  BY DEF ReliableInv, HolderInv, TypeInv, TypeOK
<1>c. PendingIsClaimable /\ RunsAreCounted
  BY DEF ReliableInv
<1>d. \A j \in Jobs : jobs[j].attempts \in 0..MaxAttempts
  BY <1>b DEF Row
<1>e. \A j \in Jobs : States[j] = ContractState(j) /\ Spents[j] = ContractSpent(j)
  BY DEF States, Spents
<1>f. ASSUME \A j \in Jobs : jobs'[j].status = jobs[j].status
                           /\ jobs'[j].attempts = jobs[j].attempts
      PROVE  Goal
  BY <1>f, NoRowMoves
<1>1. ASSUME NEW j \in Jobs, NEW k \in Keys, Enqueue(j, k)
      PROVE  Goal
  <2>1. \A l \in Jobs : l # j => jobs'[l] = jobs[l]
    BY <1>b, <1>1 DEF Enqueue
  <2>2. /\ jobs[j].status = "none" /\ jobs[j].attempts = 0
        /\ jobs'[j].status = "pending" /\ jobs'[j].attempts = 0
    BY <1>b, <1>c, <1>1 DEF Enqueue, MayInsert, NewRow, BlankRow, RunsAreCounted
  <2>3. ContractState(j) = "absent" /\ ContractState(j)' = "waiting"
    BY <2>2, MappedStatus DEF ContractState
  <2>4. ContractSpent(j)' = ContractSpent(j)
    BY <2>2 DEF ContractSpent
  <2>5. States' = [States EXCEPT ![j] = "waiting"] /\ Spents' = Spents
    BY <2>1, <2>3, <2>4, OneRowMoves DEF Spents
  <2>6. Contract!Submit(j)
    BY <1>e, <2>3, <2>5 DEF Contract!Submit, States, Spents
  <2>. QED
    BY <2>6 DEF Contract!ContractNext
<1>2. ASSUME NEW i \in Items, CancelPending(i)
      PROVE  Goal
  <2>. DEFINE S == {j \in JobsOf(i) : jobs[j].status = "pending"}
  <2>1. \A j \in Jobs : jobs'[j] = IF j \in S THEN Ended(jobs[j], "cancelled") ELSE jobs[j]
    BY <1>2 DEF CancelPending, Cancelled
  <2>2. \A j \in S : /\ j \in Jobs /\ jobs[j].status = "pending"
                     /\ jobs'[j].status = "cancelled"
                     /\ jobs'[j].attempts = jobs[j].attempts
    <3>1. \A j \in Jobs : Ended(jobs[j], "cancelled").attempts = jobs[j].attempts
      BY <1>b DEF Ended, Row
    <3>. QED
      BY <1>b, <2>1, <3>1, EndedFields DEF JobsOf
  <2>3. \A j \in Jobs : /\ ContractState(j)' = IF j \in S THEN "cancelled" ELSE ContractState(j)
                        /\ ContractSpent(j)' = ContractSpent(j)
    BY <2>1, <2>2 DEF ContractState, ContractSpent
  <2>4. \A j \in S : ContractState(j) = "waiting"
    BY <2>2, MappedStatus
  <2>5. Contract!Withdraw(S)
    BY <1>e, <2>2, <2>3, <2>4 DEF Contract!Withdraw, States, Spents
  <2>6. S \in SUBSET Jobs
    BY <2>2
  <2>. QED
    BY <2>5, <2>6 DEF Contract!ContractNext
<1>3. ASSUME NEW i \in Items, DeleteJobs(i)
      PROVE  Goal
  <2>. DEFINE S == JobsOf(i)
  <2>1. \A j \in Jobs : jobs'[j] = IF j \in S THEN NoRow("deleted") ELSE jobs[j]
    BY <1>3 DEF DeleteJobs, Purged
  <2>2. \A j \in S : /\ j \in Jobs /\ jobs[j].status \in JobStatus \ {"running"}
                     /\ jobs'[j].status = "deleted" /\ jobs'[j].attempts = 0
    BY <1>3, <2>1 DEF DeleteJobs, Quiet, JobsOf, Exists, NoRow, BlankRow
  <2>3. \A j \in Jobs : /\ ContractState(j)' = IF j \in S THEN "purged" ELSE ContractState(j)
                        /\ ContractSpent(j)' = IF j \in S THEN 0 ELSE ContractSpent(j)
    BY <2>1, <2>2 DEF ContractState, ContractSpent
  <2>4. \A j \in S : ContractState(j) \notin {"absent", "active"}
    BY <2>2 DEF ContractState, JobStatus
  <2>5. Contract!Purge(S)
    BY <1>e, <2>2, <2>3, <2>4 DEF Contract!Purge, States, Spents
  <2>6. S \in SUBSET Jobs
    BY <2>2
  <2>. QED
    BY <2>5, <2>6 DEF Contract!ContractNext
<1>4. ASSUME NEW j \in Jobs, ComeDue(j) \/ ExpireLease(j)
      PROVE  Goal
  <2>1. \A i \in Jobs : jobs'[i].status = jobs[i].status /\ jobs'[i].attempts = jobs[i].attempts
    BY <1>b, <1>4 DEF ComeDue, ExpireLease, Row
  <2>. QED
    BY <2>1, <1>f
<1>5. ASSUME NEW w \in Workers, Claim(w)
      PROVE  Goal
  <2>1. PICK j \in Jobs : Eligible(w, j) /\ jobs' = [jobs EXCEPT ![j] = Leased(jobs[j], w)]
    BY <1>5 DEF Claim
  <2>2. CASE jobs[j].status = "running"
    <3>1. jobs'[j].status = "running" /\ jobs'[j].attempts = jobs[j].attempts
      BY <1>b, <2>1, <2>2 DEF Leased, Row
    <3>2. \A i \in Jobs : jobs'[i].status = jobs[i].status /\ jobs'[i].attempts = jobs[i].attempts
      BY <1>b, <2>1, <2>2, <3>1
    <3>. QED
      BY <3>2, <1>f
  <2>3. CASE jobs[j].status # "running"
    <3>1. /\ jobs[j].status = "pending" /\ jobs[j].attempts < MaxAttempts
          /\ jobs'[j].status = "running" /\ jobs'[j].attempts = jobs[j].attempts + 1
      BY <1>b, <2>1, <2>3 DEF Eligible, Due, Leased, Row
    <3>2. \A l \in Jobs : l # j => jobs'[l] = jobs[l]
      BY <1>b, <2>1
    <3>3. ContractState(j) = "waiting" /\ ContractState(j)' = "active"
      BY <3>1 DEF ContractState
    <3>4. ContractSpent(j) = jobs[j].attempts /\ ContractSpent(j)' = jobs[j].attempts
      BY <1>d, <3>1 DEF ContractSpent
    <3>5. States' = [States EXCEPT ![j] = "active"] /\ Spents' = Spents
      BY <3>2, <3>3, <3>4, OneRowMoves DEF Spents
    <3>6. Contract!Begin(j)
      BY <1>e, <3>1, <3>3, <3>4, <3>5 DEF Contract!Begin, States, Spents
    <3>. QED
      BY <3>6 DEF Contract!ContractNext
  <2>. QED
    BY <2>2, <2>3
<1>6. ASSUME NEW w \in Workers, Settle(w)
      PROVE  Goal
  <2>1. PICK j \in Jobs :
          /\ Busy(w) /\ j = wk[w].job
          /\ \A i \in Jobs : i # j => jobs'[i] = jobs[i]
          /\ Outcome(jobs[j], jobs'[j])
    BY <1>b, <1>6, ReliableSettle
  <2>2. /\ jobs[j].status = "running"
        /\ jobs[j].attempts \in 0..MaxAttempts /\ jobs[j].attempts >= 1
    BY <1>c, <1>d, <2>1 DEF RunsAreCounted, ReliableInv, HoldsItsRow
  <2>3. ContractState(j) = "active" /\ ContractSpent(j) = jobs[j].attempts - 1
    BY <2>2 DEF ContractState, ContractSpent
  <2>4. /\ States' = [States EXCEPT ![j] = ContractState(j)']
        /\ Spents' = [Spents EXCEPT ![j] = ContractSpent(j)']
    BY <2>1, OneRowMoves
  <2>5. /\ Spents = [i \in Jobs |-> Spents[i]] /\ Spents[j] = jobs[j].attempts - 1
        /\ States[j] = "active"
    BY <1>e, <2>1, <2>3 DEF Spents
  <2>6. CASE jobs'[j].status = "succeeded" /\ jobs'[j].attempts = jobs[j].attempts
    <3>1. ContractState(j)' = "succeeded" /\ ContractSpent(j)' = jobs[j].attempts - 1
      BY <2>6 DEF ContractState, ContractSpent
    <3>2. States' = [States EXCEPT ![j] = "succeeded"] /\ Spents' = Spents
      BY <2>4, <2>5, <3>1
    <3>3. Contract!Finish(j)
      BY <2>5, <3>2 DEF Contract!Finish, States, Spents
    <3>. QED
      BY <2>1, <3>3 DEF Contract!ContractNext
  <2>7. CASE /\ jobs'[j].status = "failed" /\ jobs'[j].attempts = jobs[j].attempts
             /\ jobs[j].attempts = MaxAttempts
    <3>1. ContractState(j)' = "failed" /\ ContractSpent(j)' = jobs[j].attempts
      BY <2>7 DEF ContractState, ContractSpent
    <3>2. States' = [States EXCEPT ![j] = "failed"]
          /\ Spents' = [Spents EXCEPT ![j] = Spents[j] + 1] /\ Spents[j] + 1 = MaxAttempts
      <4>1. Spents[j] + 1 = jobs[j].attempts
        BY <2>2, <2>5
      <4>. QED
        BY <2>2, <2>4, <2>7, <3>1, <4>1
    <3>3. States' = [States EXCEPT ![j] = IF Spents[j] + 1 = MaxAttempts
                                          THEN "failed" ELSE "waiting"]
      BY <3>2
    <3>4. Contract!Err(j)
      <4>1. Spents' = [Spents EXCEPT ![j] = @ + 1]
        BY <3>2
      <4>. QED
        BY <2>5, <3>3, <4>1, Zenon DEF Contract!Err, States, Spents
    <3>. QED
      BY <2>1, <3>4 DEF Contract!ContractNext
  <2>8. CASE /\ jobs'[j].status = "pending" /\ jobs'[j].attempts = jobs[j].attempts
             /\ jobs[j].attempts < MaxAttempts
    <3>1. ContractState(j)' = "waiting" /\ ContractSpent(j)' = jobs[j].attempts
      BY <2>8 DEF ContractState, ContractSpent
    <3>2. States' = [States EXCEPT ![j] = "waiting"]
          /\ Spents' = [Spents EXCEPT ![j] = Spents[j] + 1] /\ Spents[j] + 1 # MaxAttempts
      <4>1. Spents[j] + 1 = jobs[j].attempts
        BY <2>2, <2>5
      <4>2. jobs[j].attempts # MaxAttempts
        BY <2>2, <2>8
      <4>. QED
        BY <2>4, <3>1, <4>1, <4>2
    <3>3. States' = [States EXCEPT ![j] = IF Spents[j] + 1 = MaxAttempts
                                          THEN "failed" ELSE "waiting"]
      BY <3>2
    <3>4. Contract!Err(j)
      <4>1. Spents' = [Spents EXCEPT ![j] = @ + 1]
        BY <3>2
      <4>. QED
        BY <2>5, <3>3, <4>1, Zenon DEF Contract!Err, States, Spents
    <3>. QED
      BY <2>1, <3>4 DEF Contract!ContractNext
  <2>9. CASE jobs'[j].status = "pending" /\ jobs'[j].attempts = jobs[j].attempts - 1
    <3>1. ContractState(j)' = "waiting" /\ ContractSpent(j)' = jobs[j].attempts - 1
      BY <2>9 DEF ContractState, ContractSpent
    <3>2. States' = [States EXCEPT ![j] = "waiting"] /\ Spents' = Spents
      BY <2>4, <2>5, <3>1
    <3>3. Contract!HandBack(j)
      BY <2>5, <3>2 DEF Contract!HandBack, States, Spents
    <3>. QED
      BY <2>1, <3>3 DEF Contract!ContractNext
  <2>. QED
    BY <2>1, <2>6, <2>7, <2>8, <2>9 DEF Outcome
<1>7. ASSUME NEW w \in Workers, HeartbeatWrite(w)
      PROVE  Goal
  <2>1. \A i \in Jobs : jobs'[i].status = jobs[i].status /\ jobs'[i].attempts = jobs[i].attempts
    BY <1>b, <1>7 DEF HeartbeatWrite, Row
  <2>. QED
    BY <2>1, <1>f
<1>8. ASSUME UNCHANGED jobs
      PROVE  Goal
  BY <1>8, <1>f
<1>9. ASSUME NEW w \in Workers,
             \/ Start(w) \/ HeartbeatRead(w) \/ HandlerEnds(w)
             \/ Stop(w) \/ Leave(w) \/ Crash(w)
      PROVE  UNCHANGED jobs
  BY <1>9 DEF Start, HeartbeatRead, HandlerEnds, HandlerReturns, HandlerRaises,
              Stop, Leave, Crash
<1>. QED
  BY <1>1, <1>2, <1>3, <1>4, <1>5, <1>6, <1>7, <1>8, <1>9
  DEF Next, Client, Time, Worker, vars

(* The queue refines the retry contract: reclaims after a crash, restarts,
   heartbeats and stale sessions never show through as a lost, duplicated or
   miscounted run, for any number of workers, jobs and attempts. *)
THEOREM QueueRefinesContract ==
  ASSUME LeaseLoss = FALSE, ClaimRace = FALSE
  PROVE  Spec => ImplementsContract
<1>1. Init => Contract!ContractInit
  BY DEF Init, NoRow, BlankRow, Contract!ContractInit, ContractState, ContractSpent
<1>2. ReliableInv /\ [Next]_vars => [Contract!ContractNext]_Contract!contractVars
  BY ContractStep DEF Contract!contractVars, States, Spents
<1>. QED
  BY <1>1, <1>2, ReliableInvariant, PTL DEF Spec, ImplementsContract, Contract!ContractSpec
=============================================================================
