------------------------- MODULE IngestionPipeline -------------------------
(***************************************************************************)
(* One uploaded file (IngestionItem) on its way through the job handlers   *)
(* of worker.py, with the import plans, deletion record and one-file batch *)
(* that go with it, and the API requests that approve, reimport and delete *)
(* it meanwhile.                                                           *)
(*                                                                         *)
(* The job table is used through its contract (RetryContract, which        *)
(* JobQueue refines while leases outlive their workers): a job waits, is   *)
(* run by one worker at a time, fails for good after MaxAttempts errors.   *)
(* A step is one committed transaction.  A session keeps the item it       *)
(* loaded and its commit writes the columns it changed, nothing else;      *)
(* "seen" is that copy, Flushed the write.                                 *)
(***************************************************************************)
EXTENDS Integers, FiniteSets, FiniteSetsExt

CONSTANTS
  MaxAttempts,   \* Job.max_attempts
  MaxPlans,      \* bound: import plans ever approved for the file
  MaxDead,       \* bound: active jobs whose worker has died, at the same time
  Overlap        \* may other transactions run between the reads of an API
                 \* request and its commit?

ASSUME PipelineAssumption ==
  /\ MaxAttempts \in Nat \ {0} /\ MaxPlans \in Nat /\ MaxDead \in Nat
  /\ Overlap \in BOOLEAN

VARIABLES
  item,       \* the columns of the IngestionItem that handlers and routes read
  stored,     \* which of its DocumentProfile and TemplateMatch rows exist
  plans,      \* its ApprovedImportPlans with their executions and records
  deletion,   \* status of its IngestionBuildResultDeletion, "none" without one
  jobs,       \* its jobs, by idempotency key
  run,        \* the handler executions of the active ones
  batch,      \* the IngestionBatch it is the only file of
  api         \* the API request in flight

vars == <<item, stored, plans, deletion, jobs, run, batch, api>>

-----------------------------------------------------------------------------
Plans == 1..MaxPlans

Profile == <<"PROFILE_FILE", 0>>
Match == <<"MATCH_TEMPLATE", 0>>
Recognize == <<"RECOGNIZE_TEMPLATE_DIFF", 0>>
Delete == <<"DELETE_BUILD_RESULT", 0>>
Materialize(p) == <<"MATERIALIZE_FILE", p>>

(* One key per kind is enough: a key is used again only after a reimport
   deleted the row that carried it. *)
Keys == {Profile, Match, Recognize, Delete} \cup {Materialize(p) : p \in Plans}

Item == [status: {"pending", "profiling", "matching", "recognizing", "needs_review",
                  "materializing", "imported", "result_deleted", "failed"},
         evidence: {"pending", "stored", "failed"},
         formal: {"pending", "needs_review", "materializing", "imported", "partial",
                  "deleted", "failed"},
         deletion: {"active", "deletion_pending", "deleted", "deletion_failed"}]

FreshItem == [status |-> "pending", evidence |-> "pending", formal |-> "pending",
              deletion |-> "active"]

Flushed(seen, new) ==
  [c \in DOMAIN item |-> IF new[c] # seen[c] THEN new[c] ELSE item[c]]

Plan == [state: {"none", "live", "retired", "deleted"},
         by: {"match", "user", "provisional", "hermes"}, prev: {0} \cup Plans,
         exec: {"none", "completed", "partial"}, records: BOOLEAN]

PlanRow(state, by, prev) ==
  [state |-> state, by |-> by, prev |-> prev, exec |-> "none", records |-> FALSE]

(* The plan of the highest revision, 0 without one. *)
Latest == Max({0} \cup {p \in Plans : plans[p].state \in {"live", "retired"}})

NextPlan == 1 + Max({0} \cup {p \in Plans : plans[p].state # "none"})

Completed(p) == p # 0 /\ plans[p].exec = "completed"

JobState == {"absent", "waiting", "active", "succeeded", "failed", "cancelled"}

NoJob == [state |-> "absent", spent |-> 0]

(* enqueue returns the row that carries the key, whatever its status. *)
Enqueued(js, k) ==
  IF js[k].state = "absent" THEN [js EXCEPT ![k].state = "waiting"] ELSE js

(* Without Overlap an API request is one transaction, like everything else. *)
Free == Overlap \/ api.op = "none"

NoneActive == \A k \in Keys : jobs[k].state # "active"

(* pc: "working" until the handler returns or raises; "raised" with the item
   expired from the session, "stale" with the copy of the handler's last
   commit kept; "dead" until another worker reclaims the job. *)
Run == [pc: {"none", "working", "returned", "raised", "stale", "dead"}, seen: Item]

At(pc) == [pc |-> pc, seen |-> FreshItem]

One(b) == IF b THEN 1 ELSE 0

(* Mutant: the file's own status written as the batch's. *)
RefreshedVerbatim(formal) ==
  [completed |-> One(formal = "imported"), failed |-> One(formal = "failed"),
   deleted |-> One(formal = "deleted"), status |-> formal]

(* refresh_batch, for a batch of one file. *)
Refreshed(formal) ==
  [completed |-> One(formal = "imported"), failed |-> One(formal = "failed"),
   deleted |-> One(formal = "deleted"),
   status |-> CASE formal \in {"imported", "deleted"}           -> "completed"
                [] formal \in {"partial", "failed", "pending"}  -> formal
                [] OTHER                                        -> "running"]

NoRequest == [op |-> "none", seen |-> FreshItem, latest |-> 0]

TypeOK ==
  /\ item \in Item
  /\ stored \subseteq {"profile", "match"}
  /\ plans \in [Plans -> Plan]
  /\ deletion \in {"none", "pending", "completed", "failed", "restored"}
  /\ jobs \in [Keys -> [state: JobState, spent: 0..MaxAttempts]]
  /\ run \in [Keys -> Run]
  /\ batch \in [completed: 0..1, failed: 0..1, deleted: 0..1,
                status: {"pending", "running", "partial", "completed", "failed"}]
  /\ api \in [op: {"none", "approve", "accept", "reimport"}, seen: Item,
              latest: {0} \cup Plans]

(* The upload has committed. *)
Init ==
  /\ item = FreshItem
  /\ stored = {}
  /\ plans = [p \in Plans |-> PlanRow("none", "match", 0)]
  /\ deletion = "none"
  /\ jobs = Enqueued([k \in Keys |-> NoJob], Profile)
  /\ run = [k \in Keys |-> At("none")]
  /\ batch = Refreshed("pending")
  /\ api = NoRequest

-----------------------------------------------------------------------------
(* A handler begins: validate_job_scope, its own preconditions, and the
   commit of the status it works under. *)
Admitted(k) ==
  /\ k # Delete => item.deletion = "active"
  /\ k = Match => "profile" \in stored
  /\ k = Recognize => {"profile", "match"} \subseteq stored

Opening(k) ==
  CASE k = Profile   -> [item EXCEPT !.status = "profiling"]
    [] k = Match     -> [item EXCEPT !.status = "matching"]
    [] k = Recognize -> [item EXCEPT !.status = "recognizing"]
    [] k = Delete    -> item
    [] OTHER         -> [item EXCEPT !.status = "materializing", !.formal = "materializing"]

Begin(k) ==
  /\ Free
  /\ \/ jobs[k].state = "waiting" /\ jobs[k].spent < MaxAttempts
     \/ run[k].pc = "dead"
  /\ jobs' = [jobs EXCEPT ![k].state = "active"]
  /\ \/ /\ Admitted(k)
        /\ item' = Opening(k)
        /\ run' = [run EXCEPT ![k] = [pc |-> "working", seen |-> Opening(k)]]
     \/ /\ ~Admitted(k)
        /\ run' = [run EXCEPT ![k] = At("raised")]
        /\ UNCHANGED item
  /\ UNCHANGED <<stored, plans, deletion, batch, api>>

(* The handler's last transaction, written over its copy of the item. *)
Commits(k, new, pc) ==
  /\ Free
  /\ run[k].pc = "working"
  /\ item' = Flushed(run[k].seen, new)
  /\ run' = [run EXCEPT ![k] = IF pc = "stale" THEN [pc |-> pc, seen |-> new] ELSE At(pc)]

Seen(k) == run[k].seen

ProfileStored ==
  /\ Commits(Profile, [Seen(Profile) EXCEPT !.evidence = "stored", !.status = "matching"],
             "returned")
  /\ stored' = stored \cup {"profile"}
  /\ jobs' = Enqueued(jobs, Match)
  /\ batch' = Refreshed(item'.formal)
  /\ UNCHANGED <<plans, deletion, api>>

(* The failure is committed before the exception is raised again. *)
ProfileUnreadable ==
  /\ Commits(Profile, [Seen(Profile) EXCEPT !.status = "failed", !.evidence = "failed",
                                            !.formal = "failed"], "stale")
  /\ batch' = Refreshed(item'.formal)
  /\ UNCHANGED <<stored, plans, deletion, jobs, api>>

(* approve_plan of a new plan: the next revision, superseding the latest read. *)
Approves(by, latest) ==
  /\ NextPlan \in Plans
  /\ plans' = [plans EXCEPT ![NextPlan] = PlanRow("live", by, latest)]
  /\ jobs' = Enqueued(jobs, Materialize(NextPlan))

Approved(seen) == [seen EXCEPT !.status = "materializing", !.formal = "materializing"]

(* approve_plan of the plan that is the latest already: it is returned, and
   its job enqueued again, which changes nothing. *)
ApprovedBefore(by) ==
  /\ Latest # 0 /\ plans[Latest].by = by
  /\ jobs' = Enqueued(jobs, Materialize(Latest))
  /\ UNCHANGED plans

Matched ==
  /\ stored' = stored \cup {"match"}
  /\ batch' = Refreshed(item'.formal)
  /\ UNCHANGED <<deletion, api>>

MatchUnknown ==
  /\ Commits(Match, [Seen(Match) EXCEPT !.status = "recognizing",
                                        !.formal = "needs_review"], "returned")
  /\ jobs' = Enqueued(jobs, Recognize)
  /\ Matched /\ UNCHANGED plans

MatchKnown ==
  /\ \/ /\ ~Completed(Latest)
        /\ Commits(Match, Approved(Seen(Match)), "returned")
        /\ Approves("match", Latest)
     \/ /\ Commits(Match, Seen(Match), "returned")
        /\ ApprovedBefore("match")
  /\ Matched

(* ImportPlanError: the match does not make a plan. *)
MatchBlocked ==
  /\ Commits(Match, [Seen(Match) EXCEPT !.status = "needs_review",
                                        !.formal = "needs_review"], "returned")
  /\ Matched /\ UNCHANGED <<plans, jobs>>

MatchBroken ==
  /\ Commits(Match, [Seen(Match) EXCEPT !.status = "failed", !.formal = "failed"], "stale")
  /\ batch' = Refreshed(item'.formal)
  /\ UNCHANGED <<stored, plans, deletion, jobs, api>>

(* approve_hybrid_region_plan supersedes nothing: any other latest plan is an
   ImportPlanError. *)
Recognized ==
  /\ \/ /\ Latest = 0
        /\ Commits(Recognize, Approved(Seen(Recognize)), "returned")
        /\ Approves("provisional", 0)
     \/ /\ Commits(Recognize, Seen(Recognize), "returned")
        /\ ApprovedBefore("provisional")
  /\ batch' = Refreshed(item'.formal)
  /\ UNCHANGED <<stored, deletion, api>>

(* Mutant: an earlier execution is not looked for. *)
ExecutedAgain(p, outcome) ==
  [q \in Plans |-> IF q = p THEN [plans[p] EXCEPT !.exec = outcome, !.records = TRUE]
                   ELSE plans[q]]

(* materialize_plan: an existing execution is returned; a new one deletes the
   records of the plan it supersedes and inserts its own. *)
Executed(p, outcome) ==
  IF plans[p].exec # "none" THEN plans
  ELSE [q \in Plans |->
          IF q = p THEN [plans[p] EXCEPT !.exec = outcome, !.records = TRUE]
          ELSE IF q = plans[p].prev THEN [plans[q] EXCEPT !.records = FALSE]
          ELSE plans[q]]

(* The item takes the status of the execution returned, old or new. *)
Materialized(p, outcome) ==
  LET k == Materialize(p) IN
  /\ plans[p].state = "live" /\ Seen(k).deletion = "active"
  /\ plans[p].exec = "none" => "profile" \in stored
  /\ plans' = Executed(p, outcome)
  /\ Commits(k, [Seen(k) EXCEPT !.status = "imported",
                   !.formal = IF plans'[p].exec = "completed" THEN "imported" ELSE "partial"],
             "returned")
  /\ batch' = Refreshed(item'.formal)
  /\ UNCHANGED <<stored, deletion, jobs, api>>

(* Mutant: the plans stay executable. *)
Stripped == [p \in Plans |-> [plans[p] EXCEPT !.exec = "none", !.records = FALSE]]

(* Executions and records deleted, the plans kept as retired ones. *)
Retired == [p \in Plans |-> [Stripped[p] EXCEPT !.state = IF @ = "live" THEN "retired" ELSE @]]

(* delete_build_result: one transaction, or nothing if it was done before. *)
Deleted ==
  /\ deletion # "completed"
  /\ \A k \in Keys \ {Delete} : jobs[k].state # "active"
  /\ deletion' = "completed"
  /\ plans' = Retired
  /\ stored' = stored \ {"match"}
  /\ Commits(Delete, [Seen(Delete) EXCEPT !.deletion = "deleted", !.formal = "deleted",
                                          !.status = "result_deleted"], "returned")
  /\ batch' = Refreshed(item'.formal)
  /\ UNCHANGED <<jobs, api>>

DeletedBefore ==
  /\ deletion = "completed"
  /\ Commits(Delete, Seen(Delete), "returned")
  /\ UNCHANGED <<stored, plans, deletion, jobs, batch, api>>

(* Any other exception: the open transaction is rolled back. *)
Aborts(k) ==
  /\ Free
  /\ run[k].pc = "working"
  /\ run' = [run EXCEPT ![k] = At("raised")]
  /\ UNCHANGED <<item, stored, plans, deletion, jobs, batch, api>>

-----------------------------------------------------------------------------
(* The end of a job (process_one). *)
Succeeds(k) ==
  /\ Free
  /\ run[k].pc = "returned"
  /\ jobs' = [jobs EXCEPT ![k].state = "succeeded"]
  /\ run' = [run EXCEPT ![k] = At("none")]
  /\ UNCHANGED <<item, stored, plans, deletion, batch, api>>

(* Mutant: a recognition that failed for good leaves the item as it is. *)
GivenUpSilently(k, base) ==
  CASE k = Delete    -> [base EXCEPT !.deletion = "deletion_failed"]
    [] k = Recognize -> base
    [] OTHER         -> [base EXCEPT !.status = "failed", !.formal = "failed"]

(* What the last failure of a job writes on the item. *)
GivenUp(k, base) ==
  CASE k = Delete    -> [base EXCEPT !.deletion = "deletion_failed"]
    [] k = Recognize -> [base EXCEPT !.status = "needs_review", !.formal = "needs_review"]
    [] OTHER         -> [base EXCEPT !.status = "failed", !.formal = "failed"]

Fails(k) ==
  LET spent == jobs[k].spent + 1
      base == IF run[k].pc = "stale" THEN Seen(k) ELSE item
  IN
  /\ Free
  /\ run[k].pc \in {"raised", "stale"}
  /\ run' = [run EXCEPT ![k] = At("none")]
  /\ \/ /\ spent < MaxAttempts
        /\ jobs' = [jobs EXCEPT ![k] = [state |-> "waiting", spent |-> spent]]
        /\ UNCHANGED <<item, deletion, batch>>
     \/ /\ spent = MaxAttempts
        /\ jobs' = [jobs EXCEPT ![k] = [state |-> "failed", spent |-> spent]]
        /\ item' = Flushed(base, GivenUp(k, base))
        /\ deletion' = IF k = Delete THEN "failed" ELSE deletion
        /\ batch' = IF k = Delete THEN batch ELSE Refreshed(item'.formal)
  /\ UNCHANGED <<stored, plans, api>>

(* release_for_shutdown and defer_for_operator_action. *)
HandsBack ==
  /\ Free
  /\ run[Recognize].pc = "working"
  /\ jobs' = [jobs EXCEPT ![Recognize].state = "waiting"]
  /\ run' = [run EXCEPT ![Recognize] = At("none")]
  /\ UNCHANGED <<item, stored, plans, deletion, batch, api>>

Dies(k) ==
  /\ Cardinality({i \in Keys : run[i].pc = "dead"}) < MaxDead
  /\ Free
  /\ run[k].pc \notin {"none", "dead"}
  /\ run' = [run EXCEPT ![k] = At("dead")]
  /\ UNCHANGED <<item, stored, plans, deletion, jobs, batch, api>>

-----------------------------------------------------------------------------
(* API requests. *)

(* Mutant: the jobs that wait are left to the scope check. *)
NotWithdrawn == jobs

Withdrawn == [k \in Keys |-> IF jobs[k].state = "waiting"
                             THEN [jobs[k] EXCEPT !.state = "cancelled"] ELSE jobs[k]]

(* request_build_result_deletion, under the locks of the item and its jobs. *)
RequestDeletion ==
  /\ Free
  /\ deletion \notin {"pending", "completed"}
  /\ NoneActive
  /\ jobs' = Enqueued(Withdrawn, Delete)
  /\ deletion' = "pending"
  /\ item' = [item EXCEPT !.deletion = "deletion_pending"]
  /\ UNCHANGED <<stored, plans, run, batch, api>>

(* Mutant: an executed plan may be superseded. *)
ApprovableAlways(op) ==
  /\ {"profile", "match"} \subseteq stored
  /\ op = "accept" => Latest # 0 /\ plans[Latest].by = "provisional"

(* What approve_plan checks before it writes: the evidence is there, and only
   the decision on a provisional plan may supersede a completed one.  (A
   proposal accepted when its provisional plan is not the latest any more is
   as good as an approval.) *)
Approvable(op) ==
  /\ {"profile", "match"} \subseteq stored
  /\ op = "approve" => ~Completed(Latest)
  /\ op = "accept" => Latest # 0 /\ plans[Latest].by = "provisional"

(* The reads of a request, from require_active_build_result on.  Without
   Overlap only requests that go through are of interest. *)
Reads(op) ==
  /\ api.op = "none"
  /\ item.deletion = "active"
  /\ op # "reimport" => Approvable(op)
  /\ Overlap \/ IF op = "reimport" THEN NoneActive ELSE NextPlan \in Plans
  /\ api' = [op |-> op, seen |-> item, latest |-> Latest]
  /\ UNCHANGED <<item, stored, plans, deletion, jobs, run, batch>>

(* Mutant: no unique (item_id, revision). *)
Overtaken == TRUE

(* A revision inserted or deleted since the reads breaks a constraint. *)
NotOvertaken == Latest = api.latest

CommitsApproval ==
  /\ api.op \in {"approve", "accept"}
  /\ NotOvertaken
  /\ Approves(IF api.op = "approve" THEN "user" ELSE "hermes", api.latest)
  /\ item' = Flushed(api.seen, Approved(api.seen))
  /\ api' = NoRequest
  /\ UNCHANGED <<stored, deletion, run, batch>>

(* What reset_item_for_reimport leaves of the file. *)
Reset(old) ==
  /\ NoneActive
  /\ stored' = {}
  /\ plans' = [p \in Plans |-> IF plans[p].state = "none" THEN plans[p]
                               ELSE PlanRow("deleted", "match", 0)]
  /\ jobs' = Enqueued([k \in Keys |-> NoJob], Profile)
  /\ batch' = [completed |-> IF old \in {"imported", "partial"} THEN 0 ELSE batch.completed,
               failed |-> IF old = "failed" THEN 0 ELSE batch.failed,
               deleted |-> IF old = "deleted" THEN 0 ELSE batch.deleted,
               status |-> "running"]
  /\ UNCHANGED run

(* Mutant: the status of the import is not reset. *)
FormalKept(seen) == [FreshItem EXCEPT !.deletion = seen.deletion, !.formal = seen.formal]

ItemReset(seen) == [FreshItem EXCEPT !.deletion = seen.deletion]

CommitsReimport ==
  /\ api.op = "reimport"
  /\ Reset(api.seen.formal)
  /\ item' = Flushed(api.seen, ItemReset(api.seen))
  /\ api' = NoRequest
  /\ UNCHANGED deletion

Refused ==
  /\ Overlap /\ api.op # "none"
  /\ api' = NoRequest
  /\ UNCHANGED <<item, stored, plans, deletion, jobs, run, batch>>

(* reset_item_for_reimport(restore_deleted=True). *)
RestoreDeleted ==
  /\ Free
  /\ item.deletion = "deleted" /\ deletion = "completed"
  /\ Reset(item.formal)
  /\ item' = FreshItem
  /\ deletion' = "restored"
  /\ UNCHANGED api

-----------------------------------------------------------------------------
Works ==
  \/ ProfileStored \/ ProfileUnreadable
  \/ MatchUnknown \/ MatchKnown \/ MatchBlocked \/ MatchBroken
  \/ Recognized
  \/ \E p \in Plans, outcome \in {"completed", "partial"} : Materialized(p, outcome)
  \/ Deleted \/ DeletedBefore
  \/ \E k \in Keys : Aborts(k)

Ends(k) == Succeeds(k) \/ Fails(k)

Worker == (\E k \in Keys : Begin(k) \/ Ends(k) \/ Dies(k)) \/ Works \/ HandsBack

Request ==
  \/ RequestDeletion \/ RestoreDeleted
  \/ \E op \in {"approve", "accept", "reimport"} : Reads(op)

Responds == CommitsApproval \/ CommitsReimport \/ Refused

Next == Worker \/ Request \/ Responds

Spec == Init /\ [][Next]_vars
=============================================================================
