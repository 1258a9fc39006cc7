------------------------------ MODULE JobQueue ------------------------------
(***************************************************************************)
(* The leased job table (jobs/queue.py) and the worker threads that serve  *)
(* it (worker.py: process_one, lease_heartbeat, _run_worker_loop, main).   *)
(*                                                                         *)
(* A step is one committed database transaction, or one local step of a    *)
(* worker thread between two transactions.  The worker's SQLAlchemy        *)
(* session is created with expire_on_commit=False, so the Job object a     *)
(* worker claimed stays in its identity map as it was at the claim, and    *)
(* session.get(Job, id) in succeed/fail/release/defer returns that copy    *)
(* unless a rollback of an open transaction expired it.  wk[w].seen is     *)
(* that copy, as far as the endings read it: they decide on the copy and   *)
(* write to the table.                                                     *)
(*                                                                         *)
(* Clocks are abstracted: a lease is live or expired, a job is delayed     *)
(* (available_at in the future) or not.                                    *)
(***************************************************************************)
EXTENDS Integers, FiniteSets

CONSTANTS
  Jobs,         \* identities of job rows (UUIDs, never reused)
  Keys,         \* idempotency keys
  Items,        \* ingestion items a job may belong to
  ItemOf,       \* the item a key's job is scoped to
  HermesKeys,   \* keys of RECOGNIZE_TEMPLATE_DIFF jobs, the only cancellable kind
  Workers,      \* worker ids: host:lane:index:random, fresh at every start
  Serves,       \* the keys whose kind the worker's lane allows
  MaxAttempts,  \* Job.max_attempts, 3 wherever the code enqueues
  LeaseLoss,    \* may a lease expire under a worker that still runs?
  ClaimRace,    \* may a job be claimed between a reimport's check and its delete?
  None

ASSUME JobQueueAssumption ==
  /\ IsFiniteSet(Jobs)
  /\ ItemOf \in [Keys -> Items]
  /\ HermesKeys \subseteq Keys
  /\ Serves \in [Workers -> SUBSET Keys]
  /\ MaxAttempts \in Nat \ {0}
  /\ LeaseLoss \in BOOLEAN /\ ClaimRace \in BOOLEAN
  /\ None \notin Jobs \cup Keys \cup Workers

VARIABLES
  jobs,      \* the job table
  wk,        \* the worker threads
  hb,        \* their heartbeat threads
  stopping   \* workers whose `stopped` event is set

vars == <<jobs, wk, hb, stopping>>

-----------------------------------------------------------------------------
(* The job table. *)

JobStatus == {"pending", "running", "succeeded", "failed", "cancelled"}

(* "none": never inserted; "deleted": the row was deleted by a reimport. *)
Row == [key: Keys \cup {None}, status: JobStatus \cup {"none", "deleted"},
        attempts: 0..MaxAttempts, owner: Workers \cup {None},
        lease: {"none", "live", "expired"}, delayed: BOOLEAN, born: Nat]

BlankRow(k, status, n) ==
  [key |-> k, status |-> status, attempts |-> 0, owner |-> None,
   lease |-> "none", delayed |-> FALSE, born |-> n]

NoRow(status) == BlankRow(None, status, 0)

Exists(j) == jobs[j].status \in JobStatus

JobsOf(i) == {j \in Jobs : Exists(j) /\ ItemOf[jobs[j].key] = i}

(* Mutant: running jobs are not looked for. *)
AlwaysQuiet(i) == TRUE

(* No job of the item is RUNNING: the precondition of withdrawing its jobs. *)
Quiet(i) == \A j \in JobsOf(i) : jobs[j].status # "running"

(* Rows inserted so far: created_at orders them. *)
Inserted == {j \in Jobs : jobs[j].status # "none"}

NewRow(k) == BlankRow(k, "pending", Cardinality(Inserted) + 1)

(* enqueue inserts only when no row carries the key (which is also unique). *)
MayInsert(j, k) ==
  /\ jobs[j].status = "none"
  /\ \A i \in Jobs : jobs[i].key # k

(* Mutant: a reclaim spends an attempt as well. *)
LeasedAgain(r, w) ==
  [r EXCEPT !.status = "running", !.owner = w, !.lease = "live", !.attempts = @ + 1]

(* The row as claim leaves it: only a claim of a PENDING row spends an attempt. *)
Leased(r, w) ==
  [r EXCEPT !.status = "running", !.owner = w, !.lease = "live",
            !.attempts = IF r.status = "running" THEN @ ELSE @ + 1]

(* Mutant: the owner is not cleared. *)
EndedOwned(r, status) == [r EXCEPT !.status = status, !.lease = "none"]

Ended(r, status) ==
  [r EXCEPT !.status = status, !.owner = None, !.lease = "none"]

Due(w, j) == jobs[j].key \in Serves[w] /\ ~jobs[j].delayed

(* Mutants: an expired lease is not looked for; a running row is claimed
   whatever its lease. *)
EligiblePending(w, j) ==
  Due(w, j) /\ jobs[j].status = "pending" /\ jobs[j].attempts < MaxAttempts

EligibleLeased(w, j) ==
  /\ Due(w, j)
  /\ \/ jobs[j].status = "pending" /\ jobs[j].attempts < MaxAttempts
     \/ jobs[j].status = "running"

(* The claim predicate: due, and pending with attempts left or running on
   an expired lease. *)
Eligible(w, j) ==
  /\ Due(w, j)
  /\ \/ jobs[j].status = "pending" /\ jobs[j].attempts < MaxAttempts
     \/ /\ jobs[j].status = "running"
        /\ jobs[j].lease = "expired"
        /\ jobs[j].attempts <= MaxAttempts

-----------------------------------------------------------------------------
(* The workers. *)

Phase == {"new", "idle", "working", "returned", "raised", "exited"}

(* The columns of the row that the endings read. *)
View(r) == [key |-> r.key, attempts |-> r.attempts, owner |-> r.owner]

RowView == [key: Keys \cup {None}, attempts: 0..MaxAttempts,
            owner: Workers \cup {None}]

NoView == View(NoRow("none"))

Idle(phase) == [phase |-> phase, job |-> None, seen |-> NoView, how |-> "none"]

(* The worker's thread is between its claim and the end of that job. *)
Busy(w) == wk[w].phase \in {"working", "returned", "raised"}

Up(w) == Busy(w) \/ wk[w].phase = "idle"

(* What session.get(Job, id) and the owner check see. *)
Owns(w) == wk[w].seen.owner = w

NoBeat == [on |-> FALSE, writing |-> None]

WorkerState == [phase: Phase, job: Jobs \cup {None}, seen: RowView,
                how: {"none", "error", "operator", "shutdown"}]

Heartbeat == [on: BOOLEAN, writing: Jobs \cup {None}]

TypeOK ==
  /\ jobs \in [Jobs -> Row]
  /\ wk \in [Workers -> WorkerState]
  /\ hb \in [Workers -> Heartbeat]
  /\ stopping \subseteq Workers

Init ==
  /\ jobs = [j \in Jobs |-> NoRow("none")]
  /\ wk = [w \in Workers |-> Idle("new")]
  /\ hb = [w \in Workers |-> NoBeat]
  /\ stopping = {}

-----------------------------------------------------------------------------
(* Clients of the table. *)

Enqueue(j, k) ==
  /\ MayInsert(j, k)
  /\ jobs' = [jobs EXCEPT ![j] = NewRow(k)]
  /\ UNCHANGED <<wk, hb, stopping>>

(* request_build_result_deletion: under the row locks, refuse while a job of
   the item runs, else cancel every pending one. *)
Cancelled(i) ==
  [j \in Jobs |-> IF j \in JobsOf(i) /\ jobs[j].status = "pending"
                  THEN Ended(jobs[j], "cancelled") ELSE jobs[j]]

CancelPending(i) ==
  /\ Quiet(i)
  /\ jobs' = Cancelled(i)
  /\ UNCHANGED <<wk, hb, stopping>>

(* reset_item_for_reimport: refuse while a job of the item runs, else delete
   all its rows.  The check locks the running rows only, so that a pending
   one may be claimed before the delete takes it away (ClaimRace). *)
Purged(i) ==
  [j \in Jobs |-> IF j \in JobsOf(i) THEN NoRow("deleted") ELSE jobs[j]]

DeleteJobs(i) ==
  /\ ClaimRace \/ Quiet(i)
  /\ jobs' = Purged(i)
  /\ UNCHANGED <<wk, hb, stopping>>

-----------------------------------------------------------------------------
(* Time. *)

(* available_at is reached. *)
ComeDue(j) ==
  /\ jobs[j].delayed
  /\ jobs' = [jobs EXCEPT ![j].delayed = FALSE]
  /\ UNCHANGED <<wk, hb, stopping>>

(* A lease runs out: its holder is gone, or (LeaseLoss) the holder still runs
   but its heartbeats came too late. *)
ExpireLease(j) ==
  /\ jobs[j].status = "running"
  /\ jobs[j].lease = "live"
  /\ LeaseLoss \/ wk[jobs[j].owner].phase = "exited"
  /\ jobs' = [jobs EXCEPT ![j].lease = "expired"]
  /\ UNCHANGED <<wk, hb, stopping>>

-----------------------------------------------------------------------------
(* A worker thread. *)

Start(w) ==
  /\ wk[w].phase = "new"
  /\ wk' = [wk EXCEPT ![w] = Idle("idle")]
  /\ UNCHANGED <<jobs, hb, stopping>>

(* claim: the oldest eligible row, and the heartbeat thread is started. *)
Claim(w) ==
  /\ wk[w].phase = "idle"
  /\ w \notin stopping
  /\ \E j \in Jobs :
       /\ Eligible(w, j)
       /\ \A i \in Jobs : Eligible(w, i) => jobs[j].born <= jobs[i].born
       /\ jobs' = [jobs EXCEPT ![j] = Leased(jobs[j], w)]
       /\ wk' = [wk EXCEPT ![w] = [phase |-> "working", job |-> j, how |-> "none",
                                   seen |-> View(Leased(jobs[j], w))]]
       /\ hb' = [hb EXCEPT ![w].on = TRUE]
  /\ UNCHANGED stopping

(* The heartbeat's transaction reads the row in a session of its own ... *)
HeartbeatRead(w) ==
  LET r == jobs[wk[w].job] IN
  /\ hb[w].on /\ hb[w].writing = None
  /\ hb' = [hb EXCEPT ![w] = IF r.status = "running" /\ r.owner = w
                             THEN [on |-> TRUE, writing |-> wk[w].job]
                             ELSE NoBeat]
  /\ UNCHANGED <<jobs, wk, stopping>>

(* ... and writes lease_expires_at, whoever holds the row by then. *)
HeartbeatWrite(w) ==
  LET j == hb[w].writing IN
  /\ j # None
  /\ jobs' = IF Exists(j) THEN [jobs EXCEPT ![j].lease = "live"] ELSE jobs
  /\ hb' = [hb EXCEPT ![w].writing = None]
  /\ UNCHANGED <<wk, stopping>>

HandlerReturns(w) ==
  /\ wk[w].phase = "working"
  /\ wk' = [wk EXCEPT ![w].phase = "returned"]
  /\ hb' = [hb EXCEPT ![w].on = FALSE]
  /\ UNCHANGED <<jobs, stopping>>

(* The handler raises and database.rollback() runs: with a transaction open
   it expires the Job object, which is read again (reread); after a commit
   it is a no-op and the object of the claim is kept. *)
HandlerRaises(w, how, reread) ==
  /\ wk[w].phase = "working"
  /\ how \in {"operator", "shutdown"} => wk[w].seen.key \in HermesKeys
  /\ how = "shutdown" => w \in stopping
  /\ wk' = [wk EXCEPT ![w].phase = "raised", ![w].how = how,
                      ![w].seen = IF reread THEN View(jobs[wk[w].job]) ELSE @]
  /\ hb' = [hb EXCEPT ![w].on = FALSE]
  /\ UNCHANGED <<jobs, stopping>>

(* The UPDATE of the ending transaction.  Nothing is written without the
   ownership; on a row that is gone it matches nothing, and StaleDataError
   leaves process_one and ends the thread. *)
Write(w, r) ==
  LET j == wk[w].job IN
  \/ /\ Owns(w) /\ Exists(j)
     /\ jobs' = [jobs EXCEPT ![j] = r]
     /\ wk' = [wk EXCEPT ![w] = Idle("idle")]
  \/ /\ Owns(w) /\ ~Exists(j)
     /\ wk' = [wk EXCEPT ![w] = Idle("exited")]
     /\ UNCHANGED jobs
  \/ /\ ~Owns(w)
     /\ wk' = [wk EXCEPT ![w] = Idle("idle")]
     /\ UNCHANGED jobs

Succeed(w) ==
  /\ wk[w].phase = "returned"
  /\ Write(w, Ended(jobs[wk[w].job], "succeeded"))
  /\ UNCHANGED <<hb, stopping>>

Retry(r) == [Ended(r, "pending") EXCEPT !.delayed = TRUE]

(* Mutant: one attempt more than max_attempts. *)
FailedLate(w) ==
  LET r == jobs[wk[w].job] IN
  IF wk[w].seen.attempts > MaxAttempts THEN Ended(r, "failed") ELSE Retry(r)

(* FAILED when the attempts the worker sees are spent, else PENDING again
   after a delay. *)
Failed(w) ==
  LET r == jobs[wk[w].job] IN
  IF wk[w].seen.attempts >= MaxAttempts THEN Ended(r, "failed") ELSE Retry(r)

Fail(w) ==
  /\ wk[w].phase = "raised" /\ wk[w].how = "error"
  /\ Write(w, Failed(w))
  /\ UNCHANGED <<hb, stopping>>

(* Mutant: the lease is dropped, and the row left for a reclaim. *)
GivenBackRunning(w) ==
  [jobs[wk[w].job] EXCEPT !.owner = None, !.lease = "none", !.attempts = wk[w].seen.attempts]

(* Mutant: the attempt stays spent. *)
GivenBackSpent(w) == [Ended(jobs[wk[w].job], "pending") EXCEPT !.delayed = FALSE]

(* The row back to PENDING with the attempt of this claim given back. *)
GivenBack(w) ==
  [Ended(jobs[wk[w].job], "pending") EXCEPT
     !.delayed = FALSE,
     !.attempts = IF wk[w].seen.attempts > 0 THEN wk[w].seen.attempts - 1 ELSE 0]

ReleaseForShutdown(w) ==
  /\ wk[w].phase = "raised" /\ wk[w].how = "shutdown"
  /\ Write(w, GivenBack(w))
  /\ UNCHANGED <<hb, stopping>>

(* The lane is paused as well: process_one sets its stopped event. *)
DeferForOperator(w) ==
  /\ wk[w].phase = "raised" /\ wk[w].how = "operator"
  /\ Write(w, [GivenBack(w) EXCEPT !.delayed = TRUE])
  /\ stopping' = stopping \cup {w}
  /\ UNCHANGED hb

Settle(w) == Succeed(w) \/ Fail(w) \/ ReleaseForShutdown(w) \/ DeferForOperator(w)

(* KeyboardInterrupt, or another thread of the process paused the lane. *)
Stop(w) ==
  /\ Up(w) /\ w \notin stopping
  /\ stopping' = stopping \cup {w}
  /\ UNCHANGED <<jobs, wk, hb>>

(* The loop of a stopped lane ends. *)
Leave(w) ==
  /\ wk[w].phase = "idle" /\ w \in stopping
  /\ wk' = [wk EXCEPT ![w] = Idle("exited")]
  /\ hb' = [hb EXCEPT ![w] = NoBeat]
  /\ stopping' = stopping \ {w}
  /\ UNCHANGED jobs

(* The process is killed; the row it held stays RUNNING. *)
Crash(w) ==
  /\ Up(w)
  /\ wk' = [wk EXCEPT ![w] = [Idle("exited") EXCEPT !.job = wk[w].job]]
  /\ hb' = [hb EXCEPT ![w] = NoBeat]
  /\ stopping' = stopping \ {w}
  /\ UNCHANGED jobs

HandlerEnds(w) ==
  \/ HandlerReturns(w)
  \/ \E how \in {"error", "operator", "shutdown"}, reread \in BOOLEAN :
       HandlerRaises(w, how, reread)

Client ==
  \/ \E j \in Jobs, k \in Keys : Enqueue(j, k)
  \/ \E i \in Items : CancelPending(i) \/ DeleteJobs(i)

Time == \E j \in Jobs : ComeDue(j) \/ ExpireLease(j)

Worker(w) ==
  \/ Start(w) \/ Claim(w) \/ HeartbeatRead(w) \/ HeartbeatWrite(w)
  \/ HandlerEnds(w) \/ Settle(w) \/ Stop(w) \/ Leave(w) \/ Crash(w)

Next == Client \/ Time \/ \E w \in Workers : Worker(w)

Spec == Init /\ [][Next]_vars

(* A handler ends (parsing is finite, recognition has a total timeout), the
   loops keep polling, containers restart (restart: unless-stopped), clocks
   advance; crashes, stops and clients owe nothing. *)
Fairness ==
  /\ \A j \in Jobs : WF_vars(ComeDue(j)) /\ WF_vars(ExpireLease(j))
  /\ \A w \in Workers :
       /\ WF_vars(Start(w)) /\ WF_vars(Claim(w))
       /\ WF_vars(HandlerEnds(w)) /\ WF_vars(Settle(w)) /\ WF_vars(Leave(w))

FairSpec == Spec /\ Fairness
=============================================================================
