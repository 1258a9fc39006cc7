---------------------------- MODULE JobQueueProps ----------------------------
(***************************************************************************)
(* What the job queue must guarantee.  The first group holds however late  *)
(* heartbeats are and whatever reimports delete; the second needs leases   *)
(* that outlive a running worker and reimports that delete no running job  *)
(* (LeaseLoss = FALSE, ClaimRace = FALSE).                                 *)
(***************************************************************************)
EXTENDS JobQueue

(* Every leased row names the worker that is working on it (or died on it):
   no ending, by whichever worker and however stale its view of the row,
   leaves behind a RUNNING row whose owner has gone back to polling.  Such a
   row would block deletion and reimport until its lease expires. *)
HolderAtWork ==
  \A j \in Jobs : jobs[j].status = "running" =>
    /\ jobs[j].owner \in Workers
    /\ wk[jobs[j].owner].job = j
    /\ Busy(jobs[j].owner) \/ wk[jobs[j].owner].phase = "exited"

(* An owner is recorded exactly while the row is RUNNING, so that claim,
   renew and the endings agree on who may write. *)
OwnedIffRunning ==
  \A j \in Jobs : jobs[j].owner # None <=> jobs[j].status = "running"

(* At most one worker runs the handler of a job: the handlers commit several
   transactions each and are written for a single runner. *)
Exclusive ==
  \A v, w \in Workers : Busy(v) /\ Busy(w) /\ wk[v].job = wk[w].job => v = w

(* A PENDING job can be claimed once due: it never waits with its attempts
   already spent, which no claim would ever pick up again. *)
PendingIsClaimable ==
  \A j \in Jobs : jobs[j].status = "pending" => jobs[j].attempts < MaxAttempts

(* The copy of the row the worker decides on is the row: the retry decision
   of fail and the attempt release and defer give back are not stale. *)
ViewIsFresh ==
  \A w \in Workers : Busy(w) =>
    /\ wk[w].seen.owner = w
    /\ wk[w].seen.attempts = jobs[wk[w].job].attempts
    /\ Exists(wk[w].job)

(* The table implements RetryContract. *)
ContractState(j) ==
  CASE jobs[j].status = "none"    -> "absent"
    [] jobs[j].status = "pending" -> "waiting"
    [] jobs[j].status = "running" -> "active"
    [] jobs[j].status = "deleted" -> "purged"
    [] OTHER                      -> jobs[j].status

(* attempts counts the run in progress (and the one that succeeded) too. *)
ContractSpent(j) ==
  IF jobs[j].status \in {"running", "succeeded"}
  THEN jobs[j].attempts - 1 ELSE jobs[j].attempts

Contract == INSTANCE RetryContract WITH
  state <- [j \in Jobs |-> ContractState(j)],
  spent <- [j \in Jobs |-> ContractSpent(j)]

(* Leases, reclaims, crashes, restarts and stale sessions are invisible to
   the clients of the table: the queue refines the retry contract. *)
ImplementsContract == Contract!ContractSpec

(* While for every key some worker that serves it stays up from some time on,
   every pending or running job is settled (or withdrawn): reclaiming, retry
   delays, deferral and hand-backs never strand it. *)
Served(k) == \E w \in Workers : Up(w) /\ w \notin stopping /\ k \in Serves[w]

Unsettled(j) == jobs[j].status \in {"pending", "running"}

EveryJobSettles ==
  (\A k \in Keys : <>[]Served(k)) => \A j \in Jobs : Unsettled(j) ~> ~Unsettled(j)
=============================================================================
