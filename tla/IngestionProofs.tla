--------------------------- MODULE IngestionProofs ---------------------------
(***************************************************************************)
(* Proofs about one file on its way through the job handlers: for any      *)
(* number of attempts, plans and dead workers, first however requests      *)
(* overlap with the handlers, then for requests that are one transaction.  *)
(***************************************************************************)
EXTENDS IngestionProps, WellFoundedInduction, FiniteSetTheorems, TLAPS

(* A job whose handler has not committed its last transaction.                *)
Unfinished(k) == jobs[k].state = "waiting" \/ run[k].pc \in {"working", "raised", "stale", "dead"}

Done(k) == jobs[k].state # "absent" /\ ~Unfinished(k)

Ordinary == Keys \ {Delete}

(* What is true of the file whatever happens between the reads of a request   *)
(* and its commit, and however many workers die.                              *)
JobsAndRuns == \A k \in Keys : run[k].pc # "none" <=> jobs[k].state = "active"

PlansAndJobs ==
  \A p \in Plans :
    /\ plans[p].state # "live" => plans[p].exec = "none" /\ ~plans[p].records
    /\ plans[p].state = "none" => jobs[Materialize(p)].state = "absent"

WorksUnder(k) ==
  CASE k = Profile -> "profiling" [] k = Match -> "matching" [] k = Recognize -> "recognizing"
    [] OTHER -> "materializing"

CopiesAreHonest ==
  \A k \in Ordinary :
    /\ run[k].pc = "working" =>
         /\ run[k].seen.status = WorksUnder(k) /\ run[k].seen.deletion = "active"
         /\ k \notin {Profile, Match, Recognize} => run[k].seen.formal = "materializing"
    /\ run[k].pc = "stale" => /\ k \in {Profile, Match}
                              /\ run[k].seen.status = "failed" /\ run[k].seen.formal = "failed"

FileInv == TypeOK /\ JobsAndRuns /\ PlansAndJobs /\ CopiesAreHonest /\ PlansFormAChain
           /\ run[Delete].pc # "stale"

(* What requests that are single transactions add.                            *)
RequestIsCurrent ==
  api.op # "none" =>
    /\ api.seen = item /\ api.latest = Latest /\ item.deletion = "active"
    /\ api.op = "approve" => ~Completed(Latest)
    
DeletionIsAlone ==
  /\ item.deletion = "active" => jobs[Delete].state = "absent"
  /\ item.deletion # "active" => \A k \in Ordinary : jobs[k].state \notin {"waiting", "active"}
  /\ run[Delete].pc = "working" => run[Delete].seen = item

AtomicInv == RequestIsCurrent /\ DeletionIsAlone /\ DeletedIsGone /\ ImportedHasData

(* What handlers that are not cut short add: whatever state the file is in,   *)
(* the job that will move it on has still to come.                            *)
MovesOn ==
  item.deletion = "active" =>
    /\ item.status \in {"pending", "profiling"} => Unfinished(Profile)
    /\ item.status = "matching" => Unfinished(Match)
    /\ item.status = "recognizing" => Unfinished(Recognize)
    /\ item.status = "materializing" \/ item.formal = "materializing" =>
         \E p \in Plans : Unfinished(Materialize(p))
    /\ item.status # "result_deleted"
    /\ batch = Refreshed(item.formal) \/ item.formal = "materializing" \/ Unfinished(Profile)

OneAfterAnother ==
  /\ jobs[Match].state # "absent" => Done(Profile)
  /\ jobs[Recognize].state # "absent" => Done(Match)
  /\ \A p \in Plans : plans[p].state \in {"live", "retired"} =>
       /\ plans[p].by = "match" => Done(Match)
       /\ plans[p].by = "provisional" => Done(Recognize)
  /\ run[Profile].pc = "stale" => item.status \notin {"pending", "profiling"}
  /\ run[Match].pc = "stale" => item.status # "matching"

NoneIsDead == \A k \in Keys : run[k].pc # "dead"
RestInv == MovesOn /\ OneAfterAnother /\ NoneIsDead

IngestionInv == FileInv /\ (~Overlap => AtomicInv) /\ (~Overlap /\ MaxDead = 0 => RestInv)

-----------------------------------------------------------------------------
(* Keys, items and the columns that are written *)

LEMMA Bounds ==
  /\ MaxAttempts \in Nat \ {0} /\ MaxPlans \in Nat /\ MaxDead \in Nat /\ Overlap \in BOOLEAN
  /\ Plans \subseteq Nat \ {0} /\ 0 \notin Plans
BY PipelineAssumption DEF Plans

LEMMA KeysDiffer ==
  /\ Profile \in Keys /\ Match \in Keys /\ Recognize \in Keys /\ Delete \in Keys
  /\ \A p \in Plans : Materialize(p) \in Keys
  /\ Profile # Match /\ Profile # Recognize /\ Profile # Delete
  /\ Match # Recognize /\ Match # Delete /\ Recognize # Delete
  /\ \A p : Materialize(p) \notin {Profile, Match, Recognize, Delete}
  /\ \A p, q : Materialize(p) = Materialize(q) => p = q
  /\ \A k \in Keys : \/ k \in {Profile, Match, Recognize, Delete}
                      \/ \E p \in Plans : k = Materialize(p)
BY DEF Keys, Profile, Match, Recognize, Delete, Materialize

LEMMA WorksUnderIs ==
  /\ WorksUnder(Profile) = "profiling" /\ WorksUnder(Match) = "matching"
  /\ WorksUnder(Recognize) = "recognizing"
  /\ \A k \in Keys : k \notin {Profile, Match, Recognize} => WorksUnder(k) = "materializing"
  /\ \A p : WorksUnder(Materialize(p)) = "materializing"
BY KeysDiffer DEF WorksUnder

LEMMA ItemFields ==
  /\ \A x \in Item :
       /\ x.status \in {"pending", "profiling", "matching", "recognizing", "needs_review",
                        "materializing", "imported", "result_deleted", "failed"}
       /\ x.evidence \in {"pending", "stored", "failed"}
       /\ x.formal \in {"pending", "needs_review", "materializing", "imported", "partial",
                        "deleted", "failed"}
       /\ x.deletion \in {"active", "deletion_pending", "deleted", "deletion_failed"}
       /\ DOMAIN x = {"status", "evidence", "formal", "deletion"}
  /\ \A x, y \in Item : x.status = y.status /\ x.evidence = y.evidence
                        /\ x.formal = y.formal /\ x.deletion = y.deletion => x = y
BY DEF Item

LEMMA FreshItemFits == FreshItem \in Item
BY DEF FreshItem, Item

LEMMA FlushedFields ==
  ASSUME item \in Item, NEW seen \in Item, NEW new \in Item
  PROVE  /\ Flushed(seen, new) \in Item
         /\ Flushed(seen, new).status =
              IF new.status # seen.status THEN new.status ELSE item.status
         /\ Flushed(seen, new).evidence =
              IF new.evidence # seen.evidence THEN new.evidence ELSE item.evidence
         /\ Flushed(seen, new).formal =
              IF new.formal # seen.formal THEN new.formal ELSE item.formal
         /\ Flushed(seen, new).deletion =
              IF new.deletion # seen.deletion THEN new.deletion ELSE item.deletion
         /\ seen = item => Flushed(seen, new) = new
<1>1. DOMAIN item = {"status", "evidence", "formal", "deletion"}
  BY DEF Item
<1>. QED
  BY <1>1 DEF Flushed, Item

(* The highest of a set of numbers with a bound.                              *)
LEMMA MaxIs ==
  ASSUME NEW S, S \subseteq Nat, S # {}, NEW bound \in Nat, \A x \in S : x <= bound
  PROVE  Max(S) \in S /\ \A x \in S : x <= Max(S)
<1>. DEFINE Above == {n \in Nat : \A x \in S : x <= n}
<1>1. PICK top \in Above : \A n \in Above : ~(n < top)
  <2>1. Above \subseteq Nat /\ Above # {}
    OBVIOUS
  <2>2. IsWellFoundedOn(OpToRel(<, Nat), Nat)
    BY NatLessThanWellFounded
  <2>. HIDE DEF Above
  <2>3. \E top \in Above : \A n \in Above : ~ (<<n, top>> \in OpToRel(<, Nat))
    BY <2>1, <2>2, WFMin
  <2>4. \A m, n \in Nat : m < n => <<m, n>> \in OpToRel(<, Nat)
    BY DEF OpToRel
  <2>. QED
    BY <2>1, <2>3, <2>4
<1>2. top \in S
  <2>. SUFFICES ASSUME top \notin S PROVE FALSE
    OBVIOUS
  <2>1. PICK x \in S : TRUE
    OBVIOUS
  <2>2. top \in Nat /\ x <= top /\ x # top /\ x \in Nat
    OBVIOUS
  <2>3. top - 1 \in Nat
    BY <2>2
  <2>4. \A y \in S : y <= top - 1
    <3>1. \A y \in S : y \in Nat /\ y <= top /\ y # top
      OBVIOUS
    <3>. QED
      BY <2>2, <3>1
  <2>5. top - 1 \in Above
    BY <2>3, <2>4
  <2>. QED
    BY <1>1, <2>2, <2>5
<1>3. \E x \in S : \A y \in S : x >= y
  BY <1>2
<1>. QED
  BY <1>3 DEF Max

LEMMA LatestIs ==
  /\ Latest \in {0} \cup Plans
  /\ Latest # 0 => plans[Latest].state \in {"live", "retired"}
  /\ \A p \in Plans : plans[p].state \in {"live", "retired"} => p <= Latest
<1>. DEFINE S == {0} \cup {p \in Plans : plans[p].state \in {"live", "retired"}}
<1>1. S \subseteq Nat /\ S # {} /\ \A x \in S : x <= MaxPlans
  BY Bounds DEF Plans
<1>2. Latest = Max(S)
  BY DEF Latest
<1>3. MaxPlans \in Nat
  BY Bounds
<1>. HIDE DEF S
<1>4. Latest \in S /\ \A x \in S : x <= Latest
  BY <1>1, <1>2, <1>3, MaxIs
<1>. QED
  BY <1>4 DEF S

LEMMA NextPlanIs ==
  /\ NextPlan \in Nat \ {0}
  /\ \A p \in Plans : plans[p].state # "none" => p < NextPlan
<1>. DEFINE S == {0} \cup {p \in Plans : plans[p].state # "none"}
<1>1. S \subseteq Nat /\ S # {} /\ \A x \in S : x <= MaxPlans
  BY Bounds DEF Plans
<1>2. NextPlan = 1 + Max(S)
  BY DEF NextPlan
<1>3. MaxPlans \in Nat
  BY Bounds
<1>. HIDE DEF S
<1>4. Max(S) \in S /\ \A x \in S : x <= Max(S)
  BY <1>1, <1>3, MaxIs
<1>5. PICK top : top = Max(S)
  OBVIOUS
<1>6. top \in Nat /\ NextPlan = 1 + top /\ \A x \in S : x \in Nat /\ x <= top
  BY <1>1, <1>2, <1>4, <1>5
<1>7. NextPlan \in Nat \ {0} /\ \A x \in S : x < NextPlan
  BY <1>6
<1>. QED
  BY <1>7 DEF S

JobRows == [Keys -> [state: JobState, spent: 0..MaxAttempts]]

LEMMA EnqueuedFields ==
  ASSUME NEW js, js \in JobRows, NEW k \in Keys
  PROVE  /\ Enqueued(js, k) \in JobRows
         /\ \A j \in Keys : Enqueued(js, k)[j].state =
                              IF j = k /\ js[j].state = "absent" THEN "waiting" ELSE js[j].state
<1>. DEFINE Spent == 0..MaxAttempts
<1>1. js \in [Keys -> [state: JobState, spent: Spent]]
  BY DEF JobRows
<1>. HIDE DEF Spent
<1>2. "waiting" \in JobState
  BY DEF JobState
<1>3. /\ Enqueued(js, k) \in [Keys -> [state: JobState, spent: Spent]]
      /\ \A j \in Keys : Enqueued(js, k)[j].state =
                           IF j = k /\ js[j].state = "absent" THEN "waiting" ELSE js[j].state
  BY <1>1, <1>2 DEF Enqueued
<1>. QED
  BY <1>3 DEF JobRows, Spent

(* Rows that the handlers write                                               *)

Columns == {"pending", "running", "partial", "completed", "failed"}

Batches == [completed: 0..1, failed: 0..1, deleted: 0..1, status: Columns]

LEMMA RefreshedFits == ASSUME NEW x \in Item PROVE Refreshed(x.formal) \in Batches
<1>. DEFINE B == 0..1
            status == CASE x.formal \in {"imported", "deleted"}          -> "completed"
                        [] x.formal \in {"partial", "failed", "pending"} -> x.formal
                        [] OTHER                                         -> "running"
<1>1. \A b \in BOOLEAN : One(b) \in B
  BY DEF One
<1>2. status \in Columns
  <2>1. CASE x.formal \in {"imported", "deleted"}
    BY <2>1 DEF Columns
  <2>2. CASE x.formal \in {"partial", "failed", "pending"}
    BY <2>2 DEF Columns
  <2>3. CASE x.formal \notin {"imported", "deleted", "partial", "failed", "pending"}
    BY <2>3 DEF Columns
  <2>. QED
    BY <2>1, <2>2, <2>3
<1>3. Refreshed(x.formal) =
        [completed |-> One(x.formal = "imported"), failed |-> One(x.formal = "failed"),
         deleted |-> One(x.formal = "deleted"), status |-> status]
  BY DEF Refreshed
<1>4. /\ One(x.formal = "imported") \in B /\ One(x.formal = "failed") \in B
      /\ One(x.formal = "deleted") \in B
  BY <1>1
<1>. HIDE DEF B, status
<1>5. Refreshed(x.formal) \in [completed: B, failed: B, deleted: B, status: Columns]
  BY <1>2, <1>3, <1>4
<1>. QED
  BY <1>5 DEF Batches, B

LEMMA RunFields ==
  /\ \A x \in Run : /\ x.seen \in Item
                    /\ x.pc \in {"none", "working", "returned", "raised", "stale", "dead"}
  /\ \A pc \in {"none", "working", "returned", "raised", "stale", "dead"} :
       /\ At(pc) \in Run /\ At(pc).pc = pc
       /\ \A seen \in Item : [pc |-> pc, seen |-> seen] \in Run
BY FreshItemFits DEF Run, At

LEMMA PlanRows ==
  /\ \A x \in Plan : /\ x.state \in {"none", "live", "retired", "deleted"}
                     /\ x.by \in {"match", "user", "provisional", "hermes"}
                     /\ x.prev \in {0} \cup Plans /\ x.records \in BOOLEAN
                     /\ x.exec \in {"none", "completed", "partial"}
  /\ \A state \in {"none", "live", "retired", "deleted"},
        by \in {"match", "user", "provisional", "hermes"}, prev \in {0} \cup Plans :
       /\ PlanRow(state, by, prev) \in Plan /\ PlanRow(state, by, prev).state = state
       /\ PlanRow(state, by, prev).by = by /\ PlanRow(state, by, prev).prev = prev
       /\ PlanRow(state, by, prev).exec = "none" /\ ~PlanRow(state, by, prev).records
BY DEF Plan, PlanRow

Types == {"none", "approve", "accept", "reimport"}
Statuses == {"none", "pending", "completed", "failed", "restored"}

LEMMA TypeParts ==
  TypeOK <=>
    /\ item \in Item
    /\ stored \subseteq {"profile", "match"}
    /\ plans \in [Plans -> Plan]
    /\ deletion \in {"none", "pending", "completed", "failed", "restored"}
    /\ jobs \in JobRows
    /\ run \in [Keys -> Run]
    /\ batch \in Batches
    /\ api \in [op: Types, seen: Item, latest: {0} \cup Plans]
BY Zenon DEF TypeOK, JobRows, Batches, Columns, Types

LEMMA TypeHolds ==
  ASSUME item' \in Item, stored' \subseteq {"profile", "match"}, plans' \in [Plans -> Plan],
         deletion' \in Statuses, jobs' \in JobRows, run' \in [Keys -> Run], batch' \in Batches,
         api' \in [op: Types, seen: Item, latest: {0} \cup Plans]
  PROVE  TypeOK'
BY Zenon DEF TypeOK, JobRows, Batches, Columns, Types, Statuses

LEMMA FirstJob ==
  /\ Enqueued([k \in Keys |-> NoJob], Profile) \in JobRows
  /\ \A k \in Keys : Enqueued([j \in Keys |-> NoJob], Profile)[k].state =
                       IF k = Profile THEN "waiting" ELSE "absent"
<1>1. PICK js : js = [k \in Keys |-> NoJob]
  OBVIOUS
<1>2. js \in JobRows
  <2>. DEFINE Spent == 0..MaxAttempts
  <2>1. 0 \in Spent
    BY Bounds
  <2>. HIDE DEF Spent
  <2>2. NoJob \in [state: JobState, spent: Spent]
    BY <2>1 DEF NoJob, JobState
  <2>. QED
    BY <1>1, <2>2 DEF JobRows, Spent
<1>3. Profile \in Keys /\ \A j \in Keys : js[j].state = "absent"
  BY <1>1, KeysDiffer DEF NoJob
<1>4. /\ Enqueued(js, Profile) \in JobRows
      /\ \A j \in Keys : Enqueued(js, Profile)[j].state =
           IF j = Profile /\ js[j].state = "absent" THEN "waiting" ELSE js[j].state
  BY <1>2, <1>3, EnqueuedFields
<1>. QED
  BY <1>1, <1>3, <1>4

LEMMA IngestionFirst == Init => IngestionInv
<1>. SUFFICES ASSUME Init PROVE IngestionInv
  OBVIOUS
<1>1. /\ item = FreshItem /\ item \in Item
      /\ item.status = "pending" /\ item.formal = "pending" /\ item.deletion = "active"
  BY FreshItemFits DEF Init, FreshItem
<1>3. /\ jobs \in JobRows
      /\ \A k \in Keys : jobs[k].state = IF k = Profile THEN "waiting" ELSE "absent"
  BY FirstJob DEF Init
<1>4. /\ run \in [Keys -> Run]
      /\ \A k \in Keys : run[k].pc = "none"
  BY RunFields DEF Init
<1>5. /\ plans \in [Plans -> Plan]
      /\ \A p \in Plans : /\ plans[p].state = "none" /\ plans[p].exec = "none"
                          /\ ~plans[p].records
  <2>1. plans = [p \in Plans |-> PlanRow("none", "match", 0)]
    BY DEF Init
  <2>2. /\ PlanRow("none", "match", 0) \in Plan
        /\ PlanRow("none", "match", 0).state = "none" /\ PlanRow("none", "match", 0).exec = "none"
        /\ ~PlanRow("none", "match", 0).records
    BY PlanRows
  <2>. QED
    BY <2>1, <2>2
<1>6. batch \in Batches /\ batch = Refreshed(item.formal)
  BY <1>1, RefreshedFits DEF Init
<1>7. api \in [op: Types, seen: Item, latest: {0} \cup Plans] /\ api.op = "none"
  BY FreshItemFits DEF Init, NoRequest, Types
<1>8. TypeOK
  BY <1>1, <1>3, <1>4, <1>5, <1>6, <1>7, TypeParts DEF Init
<1>9. FileInv
  <2>1. JobsAndRuns
    BY <1>3, <1>4 DEF JobsAndRuns
  <2>2. PlansAndJobs
    BY <1>3, <1>5, KeysDiffer DEF PlansAndJobs
  <2>3. CopiesAreHonest /\ run[Delete].pc # "stale"
    BY <1>4, KeysDiffer DEF CopiesAreHonest, Ordinary
  <2>4. PlansFormAChain
    BY <1>5 DEF PlansFormAChain
  <2>. QED
    BY <1>8, <2>1, <2>2, <2>3, <2>4 DEF FileInv
<1>10. AtomicInv
  <2>1. RequestIsCurrent
    BY <1>7 DEF RequestIsCurrent
  <2>2. DeletionIsAlone
    BY <1>1, <1>3, <1>4, KeysDiffer DEF DeletionIsAlone
  <2>3. DeletedIsGone /\ ImportedHasData
    BY <1>1 DEF DeletedIsGone, ImportedHasData
  <2>. QED
    BY <2>1, <2>2, <2>3 DEF AtomicInv
<1>11. RestInv
  <2>1. Unfinished(Profile)
    BY <1>3, KeysDiffer DEF Unfinished
  <2>2. MovesOn
    BY <1>1, <2>1 DEF MovesOn
  <2>3. OneAfterAnother /\ NoneIsDead
    BY <1>3, <1>4, <1>5, KeysDiffer DEF OneAfterAnother, NoneIsDead
  <2>. QED
    BY <2>2, <2>3 DEF RestInv
<1>. QED
  BY <1>9, <1>10, <1>11 DEF IngestionInv

-----------------------------------------------------------------------------
(* What a step does to the jobs, the runs and the plans *)

(* Jobs that are active stay so, and no materialization appears.              *)
LEMMA PlansStay ==
  ASSUME PlansAndJobs, PlansFormAChain, plans' = plans,
         \A p \in Plans : jobs[Materialize(p)].state = "absent" =>
                            jobs'[Materialize(p)].state = "absent"
  PROVE  PlansAndJobs' /\ PlansFormAChain'
BY DEF PlansAndJobs, PlansFormAChain

(* A chain loses no link when plans are retired, executed or deleted.         *)
LEMMA ChainStays ==
  ASSUME PlansFormAChain,
         \A p \in Plans : plans'[p].state \in {"live", "retired"} =>
           plans[p].state \in {"live", "retired"} /\ plans'[p].prev = plans[p].prev
  PROVE  PlansFormAChain'
BY DEF PlansFormAChain

(* The approval of a new plan: it gets the next number and supersedes the     *)
(* latest, so that the plans still form a chain, and its job is a new one.    *)
LEMMA ApprovesEffect ==
  ASSUME FileInv, NEW by \in {"match", "user", "provisional", "hermes"},
         NEW latest, latest = Latest, Approves(by, latest)
  PROVE  /\ NextPlan \in Plans /\ plans[NextPlan].state = "none"
         /\ plans' \in [Plans -> Plan] /\ jobs' \in JobRows
         /\ \A p \in Plans : plans'[p] = IF p = NextPlan THEN PlanRow("live", by, Latest)
                                         ELSE plans[p]
         /\ \A k \in Keys : jobs'[k].state = IF k = Materialize(NextPlan) THEN "waiting"
                                             ELSE jobs[k].state
         /\ PlansAndJobs' /\ PlansFormAChain'
<1>1. TypeOK /\ PlansAndJobs /\ PlansFormAChain /\ plans \in [Plans -> Plan] /\ jobs \in JobRows
  BY TypeParts DEF FileInv
<1>2. PICK n : n = NextPlan
  OBVIOUS
<1>3. n \in Plans /\ n \in Nat /\ plans[n].state = "none"
  <2>1. n \in Plans
    BY <1>2 DEF Approves
  <2>2. n \in Nat /\ ~(n < n)
    BY <2>1, Bounds
  <2>3. plans[n].state = "none"
    BY <1>2, <2>1, <2>2, NextPlanIs
  <2>. QED
    BY <2>1, <2>2, <2>3
<1>4. jobs[Materialize(n)].state = "absent" /\ Materialize(n) \in Keys
  BY <1>1, <1>3, KeysDiffer DEF PlansAndJobs
<1>5. /\ Latest \in {0} \cup Plans
      /\ \A p \in Plans : plans[p].state \in {"live", "retired"} => p <= Latest
      /\ Latest # 0 => plans[Latest].state \in {"live", "retired"}
  BY LatestIs
<1>6. PICK row : row = PlanRow("live", by, Latest)
  OBVIOUS
<1>7. /\ row \in Plan /\ row.state = "live" /\ row.by = by /\ row.prev = Latest
      /\ row.exec = "none" /\ ~row.records
  BY <1>5, <1>6, PlanRows
<1>8. /\ plans' = [plans EXCEPT ![n] = row]
      /\ jobs' = Enqueued(jobs, Materialize(n))
  BY <1>2, <1>6 DEF Approves
<1>9. /\ plans' \in [Plans -> Plan]
      /\ \A p \in Plans : plans'[p] = IF p = n THEN row ELSE plans[p]
  BY <1>1, <1>3, <1>7, <1>8
<1>10. /\ jobs' \in JobRows
       /\ \A k \in Keys : jobs'[k].state = IF k = Materialize(n) THEN "waiting"
                                           ELSE jobs[k].state
  <2>1. /\ Enqueued(jobs, Materialize(n)) \in JobRows
        /\ \A j \in Keys : Enqueued(jobs, Materialize(n))[j].state =
             IF j = Materialize(n) /\ jobs[j].state = "absent" THEN "waiting" ELSE jobs[j].state
    BY <1>1, <1>4, EnqueuedFields
  <2>. QED
    BY <1>4, <1>8, <2>1
<1>11. PlansAndJobs'
  BY <1>1, <1>7, <1>9, <1>10, KeysDiffer DEF PlansAndJobs
<1>12. PlansFormAChain'
  <2>1. Latest < n
    <3>1. Latest = 0 \/ plans[Latest].state # "none"
      BY <1>5
    <3>2. 0 < n
      BY <1>3, Bounds
    <3>. QED
      BY <1>2, <1>5, <3>1, <3>2, NextPlanIs
  <2>. SUFFICES ASSUME NEW p \in Plans, NEW q \in Plans,
                       plans'[p].state \in {"live", "retired"}
                PROVE  /\ plans'[p].prev < p
                       /\ plans'[q].state \in {"live", "retired"}
                            /\ plans'[q].prev = plans'[p].prev => p = q
    BY DEF PlansFormAChain
  <2>2. ASSUME NEW x \in Plans, x # n, plans'[x].state \in {"live", "retired"}
        PROVE  /\ plans[x].prev < x /\ plans[x].prev # Latest /\ plans'[x].prev = plans[x].prev
               /\ plans[x].state \in {"live", "retired"}
    <3>1. plans'[x] = plans[x]
      BY <1>9, <2>2
    <3>2. plans[x].prev < x /\ x <= Latest
      BY <1>1, <1>5, <2>2, <3>1 DEF PlansFormAChain
    <3>3. plans[x].prev \in Nat /\ x \in Nat /\ Latest \in Nat
      <4>1. plans[x].prev \in {0} \cup Plans
        BY <1>1, PlanRows
      <4>. QED
        BY <1>5, <4>1, Bounds
    <3>. QED
      BY <2>2, <3>1, <3>2, <3>3
  <2>3. plans'[n].prev = Latest
    BY <1>3, <1>7, <1>9
  <2>4. CASE p # n /\ q # n
    BY <1>1, <2>2, <2>4 DEF PlansFormAChain
  <2>5. CASE p = n
    BY <2>1, <2>2, <2>3, <2>5
  <2>6. CASE p # n /\ q = n
    BY <2>2, <2>3, <2>6
  <2>. QED
    BY <2>4, <2>5, <2>6
<1>. QED
  BY <1>2, <1>3, <1>6, <1>9, <1>10, <1>11, <1>12

(* A job is looked up, or one that is not a materialization is added.         *)
LEMMA EnqueuedKeepsPlans ==
  ASSUME FileInv, plans' = plans, NEW k \in Keys, jobs' = Enqueued(jobs, k),
         \A p \in Plans : k = Materialize(p) => plans[p].state # "none"
  PROVE  /\ jobs' \in JobRows /\ PlansAndJobs' /\ PlansFormAChain'
         /\ \A j \in Keys : jobs'[j].state = IF j = k /\ jobs[j].state = "absent"
                                             THEN "waiting" ELSE jobs[j].state
<1>1. PlansAndJobs /\ PlansFormAChain /\ jobs \in JobRows
  BY TypeParts DEF FileInv
<1>2. /\ jobs' \in JobRows
      /\ \A j \in Keys : jobs'[j].state = IF j = k /\ jobs[j].state = "absent"
                                          THEN "waiting" ELSE jobs[j].state
  BY <1>1, EnqueuedFields
<1>3. PlansAndJobs'
  BY <1>1, <1>2, KeysDiffer DEF PlansAndJobs
<1>4. PlansFormAChain'
  BY <1>1 DEF PlansFormAChain
<1>. QED
  BY <1>2, <1>3, <1>4

LEMMA ApprovedBeforeEffect ==
  ASSUME FileInv, NEW by, ApprovedBefore(by)
  PROVE  /\ plans' = plans /\ jobs' \in JobRows /\ PlansAndJobs' /\ PlansFormAChain'
         /\ Latest \in Plans /\ plans[Latest].state \in {"live", "retired"}
         /\ plans[Latest].by = by
         /\ \A j \in Keys : jobs'[j].state = IF j = Materialize(Latest) /\ jobs[j].state = "absent"
                                             THEN "waiting" ELSE jobs[j].state
<1>1. /\ Latest # 0 /\ plans[Latest].by = by /\ jobs' = Enqueued(jobs, Materialize(Latest))
      /\ plans' = plans
  BY DEF ApprovedBefore
<1>2. Latest \in Plans /\ plans[Latest].state \in {"live", "retired"}
  BY <1>1, LatestIs
<1>3. PICK n : n = Latest
  OBVIOUS
<1>4. /\ Materialize(n) \in Keys
      /\ \A p \in Plans : Materialize(n) = Materialize(p) => plans[p].state # "none"
  BY <1>2, <1>3, KeysDiffer
<1>5. /\ jobs' \in JobRows /\ PlansAndJobs' /\ PlansFormAChain'
      /\ \A j \in Keys : jobs'[j].state = IF j = Materialize(n) /\ jobs[j].state = "absent"
                                          THEN "waiting" ELSE jobs[j].state
  BY <1>1, <1>3, <1>4, EnqueuedKeepsPlans
<1>. QED
  BY <1>1, <1>2, <1>3, <1>5

(* A plan is executed at most once, and only its predecessor loses records.   *)
LEMMA ExecutedEffect ==
  ASSUME FileInv, NEW p \in Plans, NEW outcome \in {"completed", "partial"},
         plans[p].state = "live", plans' = Executed(p, outcome), jobs' = jobs
  PROVE  /\ plans' \in [Plans -> Plan] /\ PlansAndJobs' /\ PlansFormAChain'
         /\ plans'[p].exec \in {"completed", "partial"}
         /\ \A q \in Plans : /\ plans'[q].state = plans[q].state /\ plans'[q].by = plans[q].by
                             /\ plans[q].exec # "none" => plans'[q].exec = plans[q].exec
                             /\ q # p => plans'[q].exec = plans[q].exec
<1>1. PlansAndJobs /\ PlansFormAChain /\ plans \in [Plans -> Plan]
  BY TypeParts DEF FileInv
<1>2. CASE plans[p].exec # "none"
  <2>1. plans' = plans
    BY <1>2 DEF Executed
  <2>2. plans[p].exec \in {"completed", "partial"}
    BY <1>1, <1>2, PlanRows
  <2>. QED
    BY <1>1, <2>1, <2>2 DEF PlansAndJobs, PlansFormAChain
<1>3. CASE plans[p].exec = "none"
  <2>1. \A q \in Plans : plans[q] \in Plan
    BY <1>1
  <2>2. plans' = [q \in Plans |->
                    IF q = p THEN [plans[p] EXCEPT !.exec = outcome, !.records = TRUE]
                    ELSE IF q = plans[p].prev THEN [plans[q] EXCEPT !.records = FALSE]
                    ELSE plans[q]]
    BY <1>3 DEF Executed
  <2>3. /\ plans' \in [Plans -> Plan]
        /\ \A q \in Plans :
             /\ plans'[q].state = plans[q].state /\ plans'[q].by = plans[q].by
             /\ plans'[q].prev = plans[q].prev
             /\ plans'[q].exec = (IF q = p THEN outcome ELSE plans[q].exec)
             /\ q # p /\ ~plans[q].records => ~plans'[q].records
    <3>1. PICK mine : mine = [plans[p] EXCEPT !.exec = outcome, !.records = TRUE]
      OBVIOUS
    <3>2. /\ mine \in Plan /\ mine.state = plans[p].state /\ mine.by = plans[p].by
          /\ mine.prev = plans[p].prev /\ mine.exec = outcome
      BY <2>1, <3>1 DEF Plan
    <3>3. ASSUME NEW q \in Plans
          PROVE  /\ plans'[q] \in Plan
                 /\ plans'[q].state = plans[q].state /\ plans'[q].by = plans[q].by
                 /\ plans'[q].prev = plans[q].prev
                 /\ plans'[q].exec = (IF q = p THEN outcome ELSE plans[q].exec)
                 /\ q # p /\ ~plans[q].records => ~plans'[q].records
      <4>1. PICK other : other = [plans[q] EXCEPT !.records = FALSE]
        OBVIOUS
      <4>2. /\ other \in Plan /\ other.state = plans[q].state /\ other.by = plans[q].by
            /\ other.prev = plans[q].prev /\ other.exec = plans[q].exec /\ ~other.records
        BY <2>1, <4>1 DEF Plan
      <4>3. plans'[q] = IF q = p THEN mine ELSE IF q = plans[p].prev THEN other ELSE plans[q]
        BY <2>2, <3>1, <4>1
      <4>4. CASE q = p
        BY <3>2, <4>3, <4>4
      <4>5. CASE q # p /\ q = plans[p].prev
        BY <4>2, <4>3, <4>5
      <4>6. CASE q # p /\ q # plans[p].prev
        BY <2>1, <4>3, <4>6
      <4>. QED
        BY <4>4, <4>5, <4>6
    <3>4. plans' \in [Plans -> Plan]
      BY <2>2, <3>3
    <3>. QED
      BY <3>3, <3>4
  <2>4. PlansAndJobs'
    BY <1>1, <2>3 DEF PlansAndJobs
  <2>5. PlansFormAChain'
    BY <1>1, <2>3, ChainStays
  <2>. QED
    BY <1>3, <2>3, <2>4, <2>5
<1>. QED
  BY <1>2, <1>3

(* After the deletion of a build result no plan can be executed.              *)
LEMMA RetiredEffect ==
  ASSUME FileInv, plans' = Retired, jobs' = jobs
  PROVE  /\ plans' \in [Plans -> Plan] /\ PlansAndJobs' /\ PlansFormAChain'
         /\ \A p \in Plans : /\ plans'[p].state # "live" /\ ~plans'[p].records
                             /\ plans'[p].exec = "none" /\ plans'[p].by = plans[p].by
                             /\ plans'[p].state \in {"live", "retired"} =>
                                  plans[p].state \in {"live", "retired"}
<1>1. PlansAndJobs /\ PlansFormAChain /\ \A p \in Plans : plans[p] \in Plan
  BY TypeParts DEF FileInv
<1>2. plans' \in [Plans -> Plan]
      /\ \A p \in Plans : /\ plans'[p].state = IF plans[p].state = "live" THEN "retired"
                                              ELSE plans[p].state
                          /\ plans'[p].exec = "none" /\ ~plans'[p].records
                          /\ plans'[p].prev = plans[p].prev /\ plans'[p].by = plans[p].by
  <2>1. ASSUME NEW p \in Plans
        PROVE  /\ plans'[p] \in Plan
               /\ plans'[p].state = IF plans[p].state = "live" THEN "retired"
                                    ELSE plans[p].state
               /\ plans'[p].exec = "none" /\ ~plans'[p].records
               /\ plans'[p].prev = plans[p].prev /\ plans'[p].by = plans[p].by
    <3>1. PICK bare : bare = [plans[p] EXCEPT !.exec = "none", !.records = FALSE]
      OBVIOUS
    <3>2. /\ bare \in Plan /\ bare.state = plans[p].state /\ bare.by = plans[p].by
          /\ bare.prev = plans[p].prev /\ bare.exec = "none" /\ ~bare.records
      BY <1>1, <3>1 DEF Plan
    <3>3. plans'[p] = [bare EXCEPT !.state = IF @ = "live" THEN "retired" ELSE @]
      BY <3>1 DEF Retired, Stripped
    <3>. QED
      BY <3>2, <3>3 DEF Plan
  <2>2. plans' \in [Plans -> Plan]
    BY <2>1 DEF Retired
  <2>. QED
    BY <2>1, <2>2
<1>3. PlansAndJobs'
  BY <1>1, <1>2 DEF PlansAndJobs
<1>4. PlansFormAChain'
  BY <1>1, <1>2, ChainStays
<1>. QED
  BY <1>2, <1>3, <1>4

(* A reset leaves no plan of the file alive and no job but the first one.     *)
LEMMA ResetEffect ==
  ASSUME FileInv, NEW old, Reset(old)
  PROVE  /\ NoneActive /\ run' = run /\ stored' = {}
         /\ plans' \in [Plans -> Plan] /\ jobs' \in JobRows /\ batch' \in Batches
         /\ PlansAndJobs' /\ PlansFormAChain'
         /\ \A p \in Plans : plans'[p].state \in {"none", "deleted"}
         /\ \A k \in Keys : jobs'[k].state = IF k = Profile THEN "waiting" ELSE "absent"
<1>1. /\ PlansAndJobs /\ PlansFormAChain /\ \A p \in Plans : plans[p] \in Plan
      /\ batch \in Batches
  BY TypeParts DEF FileInv
<1>2. /\ NoneActive /\ run' = run /\ stored' = {}
      /\ plans' = [p \in Plans |-> IF plans[p].state = "none" THEN plans[p]
                                   ELSE PlanRow("deleted", "match", 0)]
      /\ jobs' = Enqueued([k \in Keys |-> NoJob], Profile)
      /\ batch' = [completed |-> IF old \in {"imported", "partial"} THEN 0 ELSE batch.completed,
                   failed |-> IF old = "failed" THEN 0 ELSE batch.failed,
                   deleted |-> IF old = "deleted" THEN 0 ELSE batch.deleted,
                   status |-> "running"]
  BY DEF Reset
<1>3. PICK row : row = PlanRow("deleted", "match", 0)
  OBVIOUS
<1>4. row \in Plan /\ row.state = "deleted" /\ row.exec = "none" /\ ~row.records
  BY <1>3, PlanRows
<1>5. /\ plans' \in [Plans -> Plan]
      /\ \A p \in Plans : plans'[p] = IF plans[p].state = "none" THEN plans[p] ELSE row
  BY <1>1, <1>2, <1>3, <1>4
<1>6. /\ jobs' \in JobRows
      /\ \A k \in Keys : jobs'[k].state = IF k = Profile THEN "waiting" ELSE "absent"
  BY <1>2, FirstJob
<1>7. batch' \in Batches
  <2>. DEFINE B == 0..1
  <2>1. 0 \in B
    OBVIOUS
  <2>. HIDE DEF B
  <2>2. batch \in [completed: B, failed: B, deleted: B, status: Columns]
    BY <1>1 DEF Batches, B
  <2>3. batch' \in [completed: B, failed: B, deleted: B, status: Columns]
    BY <1>2, <2>1, <2>2 DEF Columns
  <2>. QED
    BY <2>3 DEF Batches, B
<1>8. PlansAndJobs'
  BY <1>1, <1>4, <1>5, <1>6, KeysDiffer DEF PlansAndJobs
<1>9. PlansFormAChain'
  BY <1>1, <1>4, <1>5, ChainStays
<1>. QED
  BY <1>2, <1>4, <1>5, <1>6, <1>7, <1>8, <1>9

(* The last transaction of a handler changes its own run and, of the file,    *)
(* the columns it set to something else than it had read.                     *)
LEMMA CommitsEffect ==
  ASSUME TypeOK, NEW k \in Keys, NEW new \in Item, NEW pc \in {"returned", "stale"},
         Commits(k, new, pc)
  PROVE  /\ Free /\ run[k].pc = "working" /\ Seen(k) \in Item
         /\ item' = Flushed(Seen(k), new) /\ item' \in Item
         /\ run' \in [Keys -> Run] /\ run'[k].pc = pc /\ (pc = "stale" => run'[k].seen = new)
         /\ \A j \in Keys : j # k => run'[j] = run[j]
<1>1. item \in Item /\ run \in [Keys -> Run] /\ run[k].seen \in Item
  BY TypeParts, RunFields
<1>2. PICK row : row = IF pc = "stale" THEN [pc |-> pc, seen |-> new] ELSE At(pc)
  OBVIOUS
<1>3. row \in Run /\ row.pc = pc /\ (pc = "stale" => row.seen = new)
  <2>1. CASE pc = "stale"
    BY <1>2, <2>1, RunFields
  <2>2. CASE pc # "stale"
    BY <1>2, <2>2, RunFields
  <2>. QED
    BY <2>1, <2>2
<1>4. /\ Free /\ run[k].pc = "working" /\ item' = Flushed(run[k].seen, new)
      /\ run' = [run EXCEPT ![k] = row]
  BY <1>2 DEF Commits
<1>5. item' \in Item
  BY <1>1, <1>4, FlushedFields
<1>. QED
  BY <1>1, <1>3, <1>4, <1>5 DEF Seen

CopyIsHonest(k) ==
  /\ run[k].pc = "working" =>
       /\ run[k].seen.status = WorksUnder(k) /\ run[k].seen.deletion = "active"
       /\ k \notin {Profile, Match, Recognize} => run[k].seen.formal = "materializing"
  /\ run[k].pc = "stale" => /\ k \in {Profile, Match}
                            /\ run[k].seen.status = "failed" /\ run[k].seen.formal = "failed"

(* A step of one run, with the job that goes with it.                         *)
LEMMA FileStays ==
  ASSUME FileInv, TypeOK', PlansAndJobs', PlansFormAChain', NEW k \in Keys,
         \A j \in Keys : j # k => run'[j] = run[j],
         \A j \in Keys : j # k => (jobs'[j].state = "active" <=> jobs[j].state = "active"),
         run'[k].pc # "none" <=> jobs'[k].state = "active",
         k \in Ordinary => CopyIsHonest(k)',
         k = Delete => run'[k].pc # "stale"
  PROVE  FileInv'
<1>1. JobsAndRuns /\ CopiesAreHonest /\ run[Delete].pc # "stale" /\ Delete \in Keys
  BY KeysDiffer DEF FileInv
<1>2. JobsAndRuns'
  BY <1>1 DEF JobsAndRuns
<1>3. CopiesAreHonest'
  <2>. SUFFICES ASSUME NEW j \in Ordinary PROVE CopyIsHonest(j)'
    BY DEF CopiesAreHonest, CopyIsHonest
  <2>1. CASE j = k
    BY <2>1 DEF CopyIsHonest
  <2>2. CASE j # k
    <3>1. run'[j] = run[j] /\ CopyIsHonest(j)
      BY <1>1, <2>2 DEF CopiesAreHonest, CopyIsHonest, Ordinary
    <3>. QED
      BY <3>1 DEF CopyIsHonest
  <2>. QED
    BY <2>1, <2>2
<1>4. run'[Delete].pc # "stale"
  BY <1>1
<1>. QED
  BY <1>2, <1>3, <1>4 DEF FileInv

LEMMA CommitKeepsFile ==
  ASSUME FileInv, NEW k \in Keys, NEW new \in Item, NEW pc \in {"returned", "stale"},
         Commits(k, new, pc),
         pc = "stale" => k \in {Profile, Match} /\ new.status = "failed" /\ new.formal = "failed",
         jobs' \in JobRows,
         \A j \in Keys : jobs'[j].state = "active" <=> jobs[j].state = "active",
         plans' \in [Plans -> Plan], PlansAndJobs', PlansFormAChain',
         stored' \subseteq {"profile", "match"}, deletion' \in Statuses,
         batch' \in Batches, api' = api
  PROVE  FileInv'
<1>1. TypeOK /\ JobsAndRuns
  BY DEF FileInv
<1>2. /\ item' \in Item /\ run[k].pc = "working"
      /\ run' \in [Keys -> Run] /\ run'[k].pc = pc /\ (pc = "stale" => run'[k].seen = new)
      /\ \A j \in Keys : j # k => run'[j] = run[j]
  BY <1>1, CommitsEffect
<1>3. jobs'[k].state = "active" /\ run'[k].pc # "none"
  BY <1>1, <1>2 DEF JobsAndRuns
<1>4. api' \in [op: Types, seen: Item, latest: {0} \cup Plans]
  BY <1>1, TypeParts
<1>5. TypeOK'
  BY <1>2, <1>4, TypeHolds
<1>6. CopyIsHonest(k)'
  BY <1>2 DEF CopyIsHonest
<1>7. k = Delete => run'[k].pc # "stale"
  BY <1>2, KeysDiffer
<1>. QED
  BY <1>2, <1>3, <1>5, <1>6, <1>7, FileStays

(* The run of a handler comes to an end, and no other run changes.            *)
HandlerStep(k, pc) ==
  /\ Free /\ run[k].pc = "working" /\ jobs[k].state = "active"
  /\ run'[k].pc = pc /\ \A j \in Keys : j # k => run'[j] = run[j]
  /\ item' \in Item

(* The fields of the file after the last transaction of a handler.            *)
LEMMA HandlerEffect ==
  ASSUME FileInv, NEW k \in Keys, NEW new \in Item, NEW pc \in {"returned", "stale"},
         Commits(k, new, pc), new.deletion = run[k].seen.deletion
  PROVE  /\ HandlerStep(k, pc)
         /\ item'.deletion = item.deletion
         /\ item'.status = IF new.status # run[k].seen.status THEN new.status ELSE item.status
         /\ item'.formal = IF new.formal # run[k].seen.formal THEN new.formal ELSE item.formal
         /\ k \in Ordinary => run[k].seen.status = WorksUnder(k)
<1>1. /\ TypeOK /\ JobsAndRuns /\ CopiesAreHonest /\ item \in Item
  BY TypeParts DEF FileInv
<1>2. /\ Free /\ run[k].pc = "working" /\ run[k].seen \in Item
      /\ item' = Flushed(run[k].seen, new) /\ item' \in Item
      /\ run'[k].pc = pc /\ \A j \in Keys : j # k => run'[j] = run[j]
  BY <1>1, CommitsEffect DEF Seen
<1>3. /\ item'.deletion = item.deletion
      /\ item'.status = IF new.status # run[k].seen.status THEN new.status ELSE item.status
      /\ item'.formal = IF new.formal # run[k].seen.formal THEN new.formal ELSE item.formal
  BY <1>1, <1>2, FlushedFields
<1>4. jobs[k].state = "active" /\ (k \in Ordinary => run[k].seen.status = WorksUnder(k))
  BY <1>1, <1>2 DEF JobsAndRuns, CopiesAreHonest
<1>. QED
  BY <1>2, <1>3, <1>4 DEF HandlerStep

(* What the parts of the invariant say of a handler's copy and of the rows.   *)
LEMMA Rows ==
  ASSUME FileInv
  PROVE  /\ item \in Item /\ stored \subseteq {"profile", "match"} /\ plans \in [Plans -> Plan]
         /\ deletion \in Statuses /\ jobs \in JobRows /\ run \in [Keys -> Run]
         /\ batch \in Batches /\ api \in [op: Types, seen: Item, latest: {0} \cup Plans]
         /\ \A k \in Keys : run[k].seen \in Item
         /\ \A x \in Item : Refreshed(x.formal) \in Batches
         /\ PlansAndJobs /\ PlansFormAChain
BY TypeParts, RunFields, RefreshedFits DEF FileInv, Statuses

LEMMA ProfileStoredEffect ==
  ASSUME FileInv, ProfileStored
  PROVE  /\ FileInv' /\ HandlerStep(Profile, "returned")
         /\ item'.deletion = item.deletion /\ item'.formal = item.formal
         /\ item'.status = "matching" /\ batch' = Refreshed(item'.formal)
         /\ \A j \in Keys : jobs'[j].state = IF j = Match /\ jobs[j].state = "absent"
                                             THEN "waiting" ELSE jobs[j].state
         /\ UNCHANGED <<plans, deletion, api>>
<1>1. Profile \in Keys /\ Match \in Keys /\ Profile \in Ordinary
  BY KeysDiffer DEF Ordinary
<1>2. PICK seen : seen = run[Profile].seen
  OBVIOUS
<1>3. seen \in Item
  BY <1>1, <1>2, Rows
<1>4. PICK new : new = [seen EXCEPT !.evidence = "stored", !.status = "matching"]
  OBVIOUS
<1>5. new \in Item /\ new.status = "matching" /\ new.formal = seen.formal
      /\ new.deletion = seen.deletion
  BY <1>3, <1>4 DEF Item
<1>6. /\ Commits(Profile, new, "returned") /\ stored' = stored \cup {"profile"}
      /\ jobs' = Enqueued(jobs, Match) /\ batch' = Refreshed(item'.formal)
      /\ UNCHANGED <<plans, deletion, api>>
  BY <1>2, <1>4 DEF ProfileStored, Seen
<1>7. /\ HandlerStep(Profile, "returned") /\ item'.deletion = item.deletion
      /\ item'.status = IF new.status # seen.status THEN new.status ELSE item.status
      /\ item'.formal = IF new.formal # seen.formal THEN new.formal ELSE item.formal
      /\ seen.status = WorksUnder(Profile)
  BY <1>1, <1>2, <1>5, <1>6, HandlerEffect
<1>8. /\ jobs' \in JobRows /\ PlansAndJobs' /\ PlansFormAChain'
      /\ \A j \in Keys : jobs'[j].state = IF j = Match /\ jobs[j].state = "absent"
                                          THEN "waiting" ELSE jobs[j].state
  BY <1>1, <1>6, EnqueuedKeepsPlans, KeysDiffer
<1>9. batch' \in Batches /\ stored' \subseteq {"profile", "match"} /\ deletion' \in Statuses
      /\ plans' \in [Plans -> Plan]
  BY <1>6, <1>7, Rows DEF HandlerStep
<1>10. \A j \in Keys : jobs'[j].state = "active" <=> jobs[j].state = "active"
  BY <1>8
<1>11. FileInv'
  BY <1>1, <1>5, <1>6, <1>8, <1>9, <1>10, CommitKeepsFile
<1>. QED
  BY <1>5, <1>6, <1>7, <1>8, <1>11, WorksUnderIs

(* A handler that commits its failure: Profile and Match do.                  *)
LEMMA CommitsFailure ==
  ASSUME FileInv, NEW k \in {Profile, Match}, NEW new,
         NEW evidence \in {"pending", "stored", "failed"},
         new = [run[k].seen EXCEPT !.status = "failed", !.evidence = evidence, !.formal = "failed"],
         Commits(k, new, "stale"), batch' = Refreshed(item'.formal),
         UNCHANGED <<stored, plans, deletion, jobs, api>>
  PROVE  /\ FileInv' /\ HandlerStep(k, "stale") /\ item'.deletion = item.deletion
         /\ item'.status = "failed" /\ item'.formal \in {item.formal, "failed"}
<1>1. k \in Keys /\ k \in Ordinary
  BY KeysDiffer DEF Ordinary
<1>2. PICK seen : seen = run[k].seen
  OBVIOUS
<1>3. seen \in Item
  BY <1>1, <1>2, Rows
<1>4. new \in Item /\ new.status = "failed" /\ new.formal = "failed"
      /\ new.deletion = seen.deletion
  BY ZenonT(30), <1>2, <1>3 DEF Item
<1>5. /\ HandlerStep(k, "stale") /\ item'.deletion = item.deletion
      /\ item'.status = IF new.status # seen.status THEN new.status ELSE item.status
      /\ item'.formal = IF new.formal # seen.formal THEN new.formal ELSE item.formal
      /\ seen.status = WorksUnder(k)
  <2>1. /\ k \in Keys /\ new \in Item /\ new.deletion = run[k].seen.deletion
        /\ Commits(k, new, "stale")
    BY <1>1, <1>2, <1>4
  <2>2. /\ HandlerStep(k, "stale") /\ item'.deletion = item.deletion
        /\ item'.status = IF new.status # run[k].seen.status THEN new.status ELSE item.status
        /\ item'.formal = IF new.formal # run[k].seen.formal THEN new.formal ELSE item.formal
        /\ k \in Ordinary => run[k].seen.status = WorksUnder(k)
    BY <2>1, HandlerEffect
  <2>. QED
    BY <1>1, <1>2, <2>2
<1>6. /\ jobs' \in JobRows /\ PlansAndJobs' /\ PlansFormAChain'
      /\ batch' \in Batches /\ stored' \subseteq {"profile", "match"} /\ deletion' \in Statuses
      /\ plans' \in [Plans -> Plan]
  <2>1. PlansAndJobs' /\ PlansFormAChain'
    BY Rows, PlansStay
  <2>. QED
    BY <1>5, <2>1, Rows DEF HandlerStep
<1>7. \A j \in Keys : jobs'[j].state = "active" <=> jobs[j].state = "active"
  OBVIOUS
<1>8. FileInv'
  BY <1>1, <1>4, <1>6, <1>7, CommitKeepsFile
<1>. QED
  BY <1>4, <1>5, <1>8, WorksUnderIs

LEMMA ProfileUnreadableEffect ==
  ASSUME FileInv, ProfileUnreadable
  PROVE  /\ FileInv' /\ HandlerStep(Profile, "stale") /\ item'.deletion = item.deletion
         /\ item'.status = "failed" /\ item'.formal \in {item.formal, "failed"}
         /\ batch' = Refreshed(item'.formal) /\ UNCHANGED <<plans, deletion, jobs, api>>
<1>1. PICK new : new = [run[Profile].seen EXCEPT !.status = "failed", !.evidence = "failed",
                                                 !.formal = "failed"]
  OBVIOUS
<1>2. /\ Commits(Profile, new, "stale") /\ batch' = Refreshed(item'.formal)
      /\ UNCHANGED <<stored, plans, deletion, jobs, api>>
  BY <1>1 DEF ProfileUnreadable, Seen
<1>. QED
  BY <1>1, <1>2, CommitsFailure

LEMMA MatchBrokenEffect ==
  ASSUME FileInv, MatchBroken
  PROVE  /\ FileInv' /\ HandlerStep(Match, "stale") /\ item'.deletion = item.deletion
         /\ item'.status = "failed" /\ item'.formal \in {item.formal, "failed"}
         /\ batch' = Refreshed(item'.formal) /\ UNCHANGED <<plans, deletion, jobs, api>>
<1>1. PICK seen : seen = run[Match].seen
  OBVIOUS
<1>2. seen \in Item /\ seen.evidence \in {"pending", "stored", "failed"}
  BY <1>1, KeysDiffer, Rows, ItemFields
<1>3. PICK new : new = [seen EXCEPT !.status = "failed", !.evidence = seen.evidence,
                                    !.formal = "failed"]
  OBVIOUS
<1>4. new = [seen EXCEPT !.status = "failed", !.formal = "failed"]
  BY <1>2, <1>3 DEF Item
<1>5. /\ Commits(Match, new, "stale") /\ batch' = Refreshed(item'.formal)
      /\ UNCHANGED <<stored, plans, deletion, jobs, api>>
  BY <1>1, <1>4 DEF MatchBroken, Seen
<1>. QED
  BY <1>1, <1>2, <1>3, <1>5, CommitsFailure

LEMMA MatchUnknownEffect ==
  ASSUME FileInv, MatchUnknown
  PROVE  /\ FileInv' /\ HandlerStep(Match, "returned") /\ item'.deletion = item.deletion
         /\ item'.status = "recognizing" /\ item'.formal \in {item.formal, "needs_review"}
         /\ batch' = Refreshed(item'.formal)
         /\ \A j \in Keys : jobs'[j].state = IF j = Recognize /\ jobs[j].state = "absent"
                                             THEN "waiting" ELSE jobs[j].state
         /\ UNCHANGED <<plans, deletion, api>>
<1>1. Match \in Keys /\ Recognize \in Keys /\ Match \in Ordinary
  BY KeysDiffer DEF Ordinary
<1>2. PICK seen : seen = run[Match].seen
  OBVIOUS
<1>3. seen \in Item
  BY <1>1, <1>2, Rows
<1>4. PICK new : new = [seen EXCEPT !.status = "recognizing", !.formal = "needs_review"]
  OBVIOUS
<1>5. new \in Item /\ new.status = "recognizing" /\ new.formal = "needs_review"
      /\ new.deletion = seen.deletion
  BY <1>3, <1>4 DEF Item
<1>6. /\ Commits(Match, new, "returned") /\ stored' = stored \cup {"match"}
      /\ jobs' = Enqueued(jobs, Recognize) /\ batch' = Refreshed(item'.formal)
      /\ UNCHANGED <<plans, deletion, api>>
  BY <1>2, <1>4 DEF MatchUnknown, Matched, Seen
<1>7. /\ HandlerStep(Match, "returned") /\ item'.deletion = item.deletion
      /\ item'.status = IF new.status # seen.status THEN new.status ELSE item.status
      /\ item'.formal = IF new.formal # seen.formal THEN new.formal ELSE item.formal
      /\ seen.status = WorksUnder(Match)
  BY <1>1, <1>2, <1>5, <1>6, HandlerEffect
<1>8. /\ jobs' \in JobRows /\ PlansAndJobs' /\ PlansFormAChain'
      /\ \A j \in Keys : jobs'[j].state = IF j = Recognize /\ jobs[j].state = "absent"
                                          THEN "waiting" ELSE jobs[j].state
  BY <1>1, <1>6, EnqueuedKeepsPlans, KeysDiffer
<1>9. batch' \in Batches /\ stored' \subseteq {"profile", "match"} /\ deletion' \in Statuses
      /\ plans' \in [Plans -> Plan]
  BY <1>6, <1>7, Rows DEF HandlerStep
<1>10. \A j \in Keys : jobs'[j].state = "active" <=> jobs[j].state = "active"
  BY <1>8
<1>11. FileInv'
  BY <1>1, <1>5, <1>6, <1>8, <1>9, <1>10, CommitKeepsFile
<1>. QED
  BY <1>5, <1>6, <1>7, <1>8, <1>11, WorksUnderIs

LEMMA MatchBlockedEffect ==
  ASSUME FileInv, MatchBlocked
  PROVE  /\ FileInv' /\ HandlerStep(Match, "returned") /\ item'.deletion = item.deletion
         /\ item'.status = "needs_review" /\ item'.formal \in {item.formal, "needs_review"}
         /\ batch' = Refreshed(item'.formal)
         /\ UNCHANGED <<plans, deletion, jobs, api>>
<1>1. Match \in Keys /\ Match \in Ordinary
  BY KeysDiffer DEF Ordinary
<1>2. PICK seen : seen = run[Match].seen
  OBVIOUS
<1>3. seen \in Item
  BY <1>1, <1>2, Rows
<1>4. PICK new : new = [seen EXCEPT !.status = "needs_review", !.formal = "needs_review"]
  OBVIOUS
<1>5. new \in Item /\ new.status = "needs_review" /\ new.formal = "needs_review"
      /\ new.deletion = seen.deletion
  BY <1>3, <1>4 DEF Item
<1>6. /\ Commits(Match, new, "returned") /\ stored' = stored \cup {"match"}
      /\ batch' = Refreshed(item'.formal) /\ UNCHANGED <<plans, deletion, jobs, api>>
  BY <1>2, <1>4 DEF MatchBlocked, Matched, Seen
<1>7. /\ HandlerStep(Match, "returned") /\ item'.deletion = item.deletion
      /\ item'.status = IF new.status # seen.status THEN new.status ELSE item.status
      /\ item'.formal = IF new.formal # seen.formal THEN new.formal ELSE item.formal
      /\ seen.status = WorksUnder(Match)
  BY <1>1, <1>2, <1>5, <1>6, HandlerEffect
<1>8. PlansAndJobs' /\ PlansFormAChain'
  BY <1>6, Rows, PlansStay
<1>9. batch' \in Batches /\ stored' \subseteq {"profile", "match"} /\ deletion' \in Statuses
      /\ plans' \in [Plans -> Plan] /\ jobs' \in JobRows
  BY <1>6, <1>7, Rows DEF HandlerStep
<1>10. \A j \in Keys : jobs'[j].state = "active" <=> jobs[j].state = "active"
  BY <1>6
<1>11. FileInv'
  BY <1>1, <1>5, <1>6, <1>8, <1>9, <1>10, CommitKeepsFile
<1>. QED
  BY <1>5, <1>6, <1>7, <1>11, WorksUnderIs

(* The two outcomes of approve_plan for a plan the program makes itself.      *)
NewPlan(by) ==
  /\ NextPlan \in Plans /\ plans[NextPlan].state = "none"
  /\ \A p \in Plans : plans'[p] = IF p = NextPlan THEN PlanRow("live", by, Latest) ELSE plans[p]
  /\ \A k \in Keys : jobs'[k].state = IF k = Materialize(NextPlan) THEN "waiting"
                                      ELSE jobs[k].state

KnownPlan(by) ==
  /\ plans' = plans
  /\ Latest \in Plans /\ plans[Latest].state \in {"live", "retired"} /\ plans[Latest].by = by
  /\ \A j \in Keys : jobs'[j].state = IF j = Materialize(Latest) /\ jobs[j].state = "absent"
                                      THEN "waiting" ELSE jobs[j].state

LEMMA ApprovalEffect ==
  ASSUME FileInv, NEW k \in {Match, Recognize}, NEW by \in {"match", "provisional"},
         NEW new, NEW latest, latest = Latest,
         \/ /\ new = [run[k].seen EXCEPT !.status = "materializing", !.formal = "materializing"]
            /\ Approves(by, latest)
         \/ new = run[k].seen /\ ApprovedBefore(by),
         Commits(k, new, "returned"), stored' \subseteq {"profile", "match"},
         batch' = Refreshed(item'.formal), UNCHANGED <<deletion, api>>
  PROVE  /\ FileInv' /\ HandlerStep(k, "returned") /\ item'.deletion = item.deletion
         /\ \/ /\ NewPlan(by) /\ item'.status = "materializing"
               /\ item'.formal \in {item.formal, "materializing"}
            \/ KnownPlan(by) /\ item'.status = item.status /\ item'.formal = item.formal
<1>1. k \in Keys /\ k \in Ordinary /\ by \in {"match", "user", "provisional", "hermes"}
  BY KeysDiffer DEF Ordinary
<1>2. PICK seen : seen = run[k].seen
  OBVIOUS
<1>3. seen \in Item
  BY <1>1, <1>2, Rows
<1>4. new \in Item /\ new.deletion = seen.deletion
  BY <1>2, <1>3 DEF Item
<1>5. /\ HandlerStep(k, "returned") /\ item'.deletion = item.deletion
      /\ item'.status = IF new.status # seen.status THEN new.status ELSE item.status
      /\ item'.formal = IF new.formal # seen.formal THEN new.formal ELSE item.formal
      /\ seen.status \in {"matching", "recognizing"}
  <2>1. k \in Keys /\ new \in Item /\ new.deletion = run[k].seen.deletion
    BY <1>1, <1>2, <1>4
  <2>2. /\ HandlerStep(k, "returned") /\ item'.deletion = item.deletion
        /\ item'.status = IF new.status # run[k].seen.status THEN new.status ELSE item.status
        /\ item'.formal = IF new.formal # run[k].seen.formal THEN new.formal ELSE item.formal
        /\ k \in Ordinary => run[k].seen.status = WorksUnder(k)
    BY <2>1, HandlerEffect
  <2>. QED
    BY <1>1, <1>2, <2>2, WorksUnderIs
<1>6. batch' \in Batches /\ deletion' \in Statuses
  BY <1>5, Rows DEF HandlerStep
<1>7. ASSUME jobs' \in JobRows, plans' \in [Plans -> Plan], PlansAndJobs', PlansFormAChain',
             \A j \in Keys : jobs'[j].state = "active" <=> jobs[j].state = "active"
      PROVE  FileInv'
  BY <1>1, <1>4, <1>6, <1>7, CommitKeepsFile
<1>8. CASE /\ new = [run[k].seen EXCEPT !.status = "materializing", !.formal = "materializing"]
           /\ Approves(by, latest)
  <2>1. /\ NextPlan \in Plans /\ plans[NextPlan].state = "none"
        /\ plans' \in [Plans -> Plan] /\ jobs' \in JobRows
        /\ \A p \in Plans : plans'[p] = IF p = NextPlan THEN PlanRow("live", by, Latest)
                                        ELSE plans[p]
        /\ \A j \in Keys : jobs'[j].state = IF j = Materialize(NextPlan) THEN "waiting"
                                            ELSE jobs[j].state
        /\ PlansAndJobs' /\ PlansFormAChain'
    BY <1>1, <1>8, ApprovesEffect
  <2>2. PICK n : n = NextPlan
    OBVIOUS
  <2>3. jobs[Materialize(n)].state = "absent" /\ n \in Plans
    BY <2>1, <2>2, Rows DEF PlansAndJobs
  <2>4. \A j \in Keys : jobs'[j].state = "active" <=> jobs[j].state = "active"
    BY <2>1, <2>2, <2>3
  <2>5. new.status = "materializing" /\ new.formal = "materializing"
    BY <1>2, <1>3, <1>8 DEF Item
  <2>6. FileInv'
    BY <1>7, <2>1, <2>4
  <2>7. NewPlan(by)
    BY <2>1 DEF NewPlan
  <2>. QED
    BY <1>5, <2>5, <2>6, <2>7
<1>9. CASE new = run[k].seen /\ ApprovedBefore(by)
  <2>1. /\ plans' = plans /\ jobs' \in JobRows /\ PlansAndJobs' /\ PlansFormAChain'
        /\ Latest \in Plans /\ plans[Latest].state \in {"live", "retired"}
        /\ plans[Latest].by = by
        /\ \A j \in Keys : jobs'[j].state = IF j = Materialize(Latest) /\ jobs[j].state = "absent"
                                            THEN "waiting" ELSE jobs[j].state
    BY <1>9, ApprovedBeforeEffect
  <2>2. \A j \in Keys : jobs'[j].state = "active" <=> jobs[j].state = "active"
    BY <2>1
  <2>3. FileInv'
    BY <1>7, <2>1, <2>2, Rows
  <2>4. KnownPlan(by)
    BY <2>1 DEF KnownPlan
  <2>. QED
    BY <1>2, <1>5, <1>9, <2>3, <2>4
<1>. QED
  BY <1>8, <1>9

LEMMA MatchKnownEffect ==
  ASSUME FileInv, MatchKnown
  PROVE  /\ FileInv' /\ HandlerStep(Match, "returned") /\ item'.deletion = item.deletion
         /\ \/ /\ ~Completed(Latest) /\ NewPlan("match") /\ item'.status = "materializing"
               /\ item'.formal \in {item.formal, "materializing"}
            \/ KnownPlan("match") /\ item'.status = item.status /\ item'.formal = item.formal
         /\ batch' = Refreshed(item'.formal) /\ UNCHANGED <<deletion, api>>
<1>1. PICK seen, latest : seen = run[Match].seen /\ latest = Latest
  OBVIOUS
<1>2. /\ stored' \subseteq {"profile", "match"} /\ batch' = Refreshed(item'.formal)
      /\ UNCHANGED <<deletion, api>>
  BY Rows DEF MatchKnown, Matched
<1>3. PICK new : /\ \/ /\ new = [seen EXCEPT !.status = "materializing", !.formal = "materializing"]
                       /\ Approves("match", latest) /\ ~Completed(Latest)
                    \/ new = seen /\ ApprovedBefore("match")
                 /\ Commits(Match, new, "returned")
  BY <1>1 DEF MatchKnown, Approved, Seen
<1>4. /\ FileInv' /\ HandlerStep(Match, "returned") /\ item'.deletion = item.deletion
      /\ \/ /\ NewPlan("match") /\ item'.status = "materializing"
            /\ item'.formal \in {item.formal, "materializing"}
         \/ KnownPlan("match") /\ item'.status = item.status /\ item'.formal = item.formal
  BY <1>1, <1>2, <1>3, ApprovalEffect
<1>5. NewPlan("match") => ~ApprovedBefore("match")
  <2>1. SUFFICES ASSUME NewPlan("match"), plans' = plans PROVE FALSE
    BY DEF ApprovedBefore
  <2>2. PICK n : n = NextPlan
    OBVIOUS
  <2>3. n \in Plans /\ plans[n].state = "none" /\ plans'[n] = PlanRow("live", "match", Latest)
    BY <2>1, <2>2 DEF NewPlan
  <2>4. PlanRow("live", "match", Latest).state = "live"
    BY LatestIs, PlanRows
  <2>. QED
    BY <2>1, <2>3, <2>4
<1>. QED
  BY <1>2, <1>3, <1>4, <1>5

LEMMA RecognizedEffect ==
  ASSUME FileInv, Recognized
  PROVE  /\ FileInv' /\ HandlerStep(Recognize, "returned") /\ item'.deletion = item.deletion
         /\ \/ /\ Latest = 0 /\ NewPlan("provisional") /\ item'.status = "materializing"
               /\ item'.formal \in {item.formal, "materializing"}
            \/ KnownPlan("provisional") /\ item'.status = item.status
               /\ item'.formal = item.formal
         /\ batch' = Refreshed(item'.formal) /\ UNCHANGED <<deletion, api>>
<1>1. PICK seen, latest : seen = run[Recognize].seen /\ latest = Latest
  OBVIOUS
<1>2. /\ stored' \subseteq {"profile", "match"} /\ batch' = Refreshed(item'.formal)
      /\ UNCHANGED <<deletion, api>>
  BY Rows DEF Recognized
<1>3. PICK new : /\ \/ /\ new = [seen EXCEPT !.status = "materializing", !.formal = "materializing"]
                       /\ Approves("provisional", latest) /\ Latest = 0
                    \/ new = seen /\ ApprovedBefore("provisional")
                 /\ Commits(Recognize, new, "returned")
  BY <1>1 DEF Recognized, Approved, Seen
<1>4. /\ FileInv' /\ HandlerStep(Recognize, "returned") /\ item'.deletion = item.deletion
      /\ \/ /\ NewPlan("provisional") /\ item'.status = "materializing"
            /\ item'.formal \in {item.formal, "materializing"}
         \/ KnownPlan("provisional") /\ item'.status = item.status /\ item'.formal = item.formal
  BY <1>1, <1>2, <1>3, ApprovalEffect
<1>5. NewPlan("provisional") => ~ApprovedBefore("provisional")
  <2>1. SUFFICES ASSUME NewPlan("provisional"), plans' = plans PROVE FALSE
    BY DEF ApprovedBefore
  <2>2. PICK n : n = NextPlan
    OBVIOUS
  <2>3. n \in Plans /\ plans[n].state = "none"
        /\ plans'[n] = PlanRow("live", "provisional", Latest)
    BY <2>1, <2>2 DEF NewPlan
  <2>4. PlanRow("live", "provisional", Latest).state = "live"
    BY LatestIs, PlanRows
  <2>. QED
    BY <2>1, <2>3, <2>4
<1>. QED
  BY <1>2, <1>3, <1>4, <1>5

LEMMA MaterializedEffect ==
  ASSUME FileInv, NEW p \in Plans, NEW outcome \in {"completed", "partial"},
         Materialized(p, outcome), NEW k, k = Materialize(p)
  PROVE  /\ FileInv' /\ k \in Ordinary /\ HandlerStep(k, "returned")
         /\ item'.deletion = item.deletion /\ item'.status = "imported"
         /\ item'.formal = IF plans'[p].exec = "completed" THEN "imported" ELSE "partial"
         /\ plans[p].state = "live" /\ plans'[p].exec \in {"completed", "partial"}
         /\ \A q \in Plans : /\ plans'[q].state = plans[q].state /\ plans'[q].by = plans[q].by
                             /\ plans[q].exec # "none" => plans'[q].exec = plans[q].exec
         /\ batch' = Refreshed(item'.formal) /\ UNCHANGED <<deletion, jobs, api>>
<1>1. k \in Keys /\ k \in Ordinary /\ k \notin {Profile, Match, Recognize}
  BY KeysDiffer DEF Ordinary
<1>2. PICK seen : seen = run[k].seen
  OBVIOUS
<1>3. seen \in Item
  BY <1>1, <1>2, Rows
<1>4. PICK formal : formal = IF plans'[p].exec = "completed" THEN "imported" ELSE "partial"
  OBVIOUS
<1>5. PICK new : new = [seen EXCEPT !.status = "imported", !.formal = formal]
  OBVIOUS
<1>6. new \in Item /\ new.status = "imported" /\ new.formal = formal
      /\ new.deletion = seen.deletion
  BY <1>3, <1>4, <1>5 DEF Item
<1>7. /\ plans[p].state = "live" /\ plans' = Executed(p, outcome)
      /\ Commits(k, new, "returned") /\ batch' = Refreshed(item'.formal)
      /\ UNCHANGED <<stored, deletion, jobs, api>>
  BY <1>2, <1>4, <1>5 DEF Materialized, Seen
<1>8. /\ HandlerStep(k, "returned") /\ item'.deletion = item.deletion
      /\ item'.status = IF new.status # seen.status THEN new.status ELSE item.status
      /\ item'.formal = IF new.formal # seen.formal THEN new.formal ELSE item.formal
      /\ seen.status = WorksUnder(k)
  BY <1>1, <1>2, <1>6, <1>7, HandlerEffect
<1>9. seen.status = "materializing" /\ seen.formal = "materializing"
  BY <1>1, <1>2, <1>8, WorksUnderIs DEF HandlerStep, FileInv, CopiesAreHonest
<1>10. /\ plans' \in [Plans -> Plan] /\ PlansAndJobs' /\ PlansFormAChain'
       /\ plans'[p].exec \in {"completed", "partial"}
       /\ \A q \in Plans : /\ plans'[q].state = plans[q].state /\ plans'[q].by = plans[q].by
                           /\ plans[q].exec # "none" => plans'[q].exec = plans[q].exec
  BY <1>7, ExecutedEffect
<1>11. batch' \in Batches /\ stored' \subseteq {"profile", "match"} /\ deletion' \in Statuses
       /\ jobs' \in JobRows
  BY <1>7, <1>8, Rows DEF HandlerStep
<1>12. \A j \in Keys : jobs'[j].state = "active" <=> jobs[j].state = "active"
  BY <1>7
<1>13. FileInv'
  BY <1>1, <1>6, <1>7, <1>10, <1>11, <1>12, CommitKeepsFile
<1>. QED
  BY <1>1, <1>4, <1>6, <1>7, <1>8, <1>9, <1>10, <1>13

LEMMA DeletedEffect ==
  ASSUME FileInv, Deleted
  PROVE  /\ FileInv' /\ HandlerStep(Delete, "returned")
         /\ \A k \in Ordinary : jobs[k].state # "active"
         /\ \A p \in Plans : /\ plans'[p].state # "live" /\ ~plans'[p].records
                             /\ plans'[p].exec = "none" /\ plans'[p].by = plans[p].by
                             /\ plans'[p].state \in {"live", "retired"} =>
                                  plans[p].state \in {"live", "retired"}
         /\ deletion' = "completed" /\ "match" \notin stored'
         /\ batch' = Refreshed(item'.formal) /\ UNCHANGED <<jobs, api>>
         /\ run[Delete].seen = item =>
              /\ item'.deletion = "deleted" /\ item'.formal = "deleted"
              /\ item'.status = "result_deleted"
<1>1. Delete \in Keys /\ Delete \notin {Profile, Match}
  BY KeysDiffer
<1>2. PICK seen : seen = run[Delete].seen
  OBVIOUS
<1>3. seen \in Item
  BY <1>1, <1>2, Rows
<1>4. PICK new : new = [seen EXCEPT !.deletion = "deleted", !.formal = "deleted",
                                    !.status = "result_deleted"]
  OBVIOUS
<1>5. new \in Item /\ new.deletion = "deleted" /\ new.formal = "deleted"
      /\ new.status = "result_deleted"
  BY <1>3, <1>4 DEF Item
<1>6. /\ Commits(Delete, new, "returned") /\ plans' = Retired
      /\ deletion' = "completed" /\ stored' = stored \ {"match"}
      /\ batch' = Refreshed(item'.formal) /\ UNCHANGED <<jobs, api>>
      /\ \A k \in Ordinary : jobs[k].state # "active"
  BY <1>2, <1>4 DEF Deleted, Seen, Ordinary
<1>7. /\ Free /\ run[Delete].pc = "working" /\ item' = Flushed(seen, new) /\ item' \in Item
      /\ run'[Delete].pc = "returned" /\ \A j \in Keys : j # Delete => run'[j] = run[j]
  BY <1>1, <1>2, <1>5, <1>6, CommitsEffect DEF FileInv, Seen
<1>8. HandlerStep(Delete, "returned")
  BY <1>1, <1>7 DEF HandlerStep, FileInv, JobsAndRuns
<1>9. /\ plans' \in [Plans -> Plan] /\ PlansAndJobs' /\ PlansFormAChain'
      /\ \A p \in Plans : /\ plans'[p].state # "live" /\ ~plans'[p].records
                          /\ plans'[p].exec = "none" /\ plans'[p].by = plans[p].by
                          /\ plans'[p].state \in {"live", "retired"} =>
                               plans[p].state \in {"live", "retired"}
  BY <1>6, RetiredEffect
<1>10. batch' \in Batches /\ stored' \subseteq {"profile", "match"} /\ deletion' \in Statuses
       /\ jobs' \in JobRows
  BY <1>6, <1>7, Rows DEF Statuses
<1>11. \A j \in Keys : jobs'[j].state = "active" <=> jobs[j].state = "active"
  BY <1>6
<1>12. FileInv'
  BY <1>1, <1>5, <1>6, <1>9, <1>10, <1>11, CommitKeepsFile
<1>13. seen = item => item' = new
  BY <1>3, <1>5, <1>7, Rows, FlushedFields
<1>. QED
  BY <1>2, <1>5, <1>6, <1>8, <1>9, <1>12, <1>13

LEMMA DeletedBeforeEffect ==
  ASSUME FileInv, DeletedBefore
  PROVE  /\ FileInv' /\ HandlerStep(Delete, "returned") /\ item' = item
         /\ UNCHANGED <<stored, plans, deletion, jobs, batch, api>>
<1>1. Delete \in Keys /\ Delete \notin {Profile, Match}
  BY KeysDiffer
<1>2. PICK seen : seen = run[Delete].seen
  OBVIOUS
<1>3. seen \in Item
  BY <1>1, <1>2, Rows
<1>4. /\ Commits(Delete, seen, "returned")
      /\ UNCHANGED <<stored, plans, deletion, jobs, batch, api>>
  BY <1>2 DEF DeletedBefore, Seen
<1>5. /\ Free /\ run[Delete].pc = "working" /\ item' = Flushed(seen, seen) /\ item' \in Item
      /\ run'[Delete].pc = "returned" /\ \A j \in Keys : j # Delete => run'[j] = run[j]
  BY <1>1, <1>2, <1>3, <1>4, CommitsEffect DEF FileInv, Seen
<1>6. HandlerStep(Delete, "returned")
  BY <1>1, <1>5 DEF HandlerStep, FileInv, JobsAndRuns
<1>7. item' = item
  <2>1. /\ item'.status = item.status /\ item'.evidence = item.evidence
        /\ item'.formal = item.formal /\ item'.deletion = item.deletion
    BY <1>3, <1>5, Rows, FlushedFields
  <2>. QED
    BY <1>5, <2>1, Rows, ItemFields
<1>8. PlansAndJobs' /\ PlansFormAChain'
  BY <1>4, Rows, PlansStay
<1>9. /\ batch' \in Batches /\ stored' \subseteq {"profile", "match"} /\ deletion' \in Statuses
      /\ jobs' \in JobRows /\ plans' \in [Plans -> Plan]
  BY <1>4, Rows
<1>10. \A j \in Keys : jobs'[j].state = "active" <=> jobs[j].state = "active"
  BY <1>4
<1>11. FileInv'
  BY <1>1, <1>3, <1>4, <1>8, <1>9, <1>10, CommitKeepsFile
<1>. QED
  BY <1>4, <1>6, <1>7, <1>11

LEMMA RunEndKeepsFile ==
  ASSUME FileInv, NEW k \in Keys, NEW pc \in {"none", "raised", "dead"},
         run' = [run EXCEPT ![k] = At(pc)], jobs[k].state # "absent",
         jobs' \in JobRows, \A j \in Keys : j # k => jobs'[j] = jobs[j],
         pc # "none" <=> jobs'[k].state = "active",
         item' \in Item, deletion' \in Statuses, batch' \in Batches,
         UNCHANGED <<plans, stored, api>>
  PROVE  FileInv' /\ run'[k].pc = pc /\ \A j \in Keys : j # k => run'[j] = run[j]
<1>1. PICK row : row = At(pc)
  OBVIOUS
<1>2. row \in Run /\ row.pc = pc
  BY <1>1, RunFields
<1>3. /\ run' \in [Keys -> Run] /\ run'[k].pc = pc
      /\ \A j \in Keys : j # k => run'[j] = run[j]
  BY <1>1, <1>2, Rows
<1>4. PlansAndJobs' /\ PlansFormAChain'
  <2>1. \A p \in Plans : jobs[Materialize(p)].state = "absent" =>
                            jobs'[Materialize(p)].state = "absent"
    BY KeysDiffer
  <2>. QED
    BY <2>1, Rows, PlansStay
<1>5. TypeOK'
  BY <1>3, Rows, TypeHolds
<1>6. CopyIsHonest(k)'
  BY <1>3 DEF CopyIsHonest
<1>7. \A j \in Keys : j # k => (jobs'[j].state = "active" <=> jobs[j].state = "active")
  OBVIOUS
<1>8. FileInv'
  BY <1>3, <1>4, <1>5, <1>6, <1>7, FileStays
<1>. QED
  BY <1>3, <1>8

(* The state of one job changes.                                              *)
LEMMA JobChanges ==
  ASSUME FileInv, NEW k \in Keys, NEW state \in JobState,
         jobs' = [jobs EXCEPT ![k].state = state]
  PROVE  jobs' \in JobRows /\ jobs'[k].state = state /\ \A j \in Keys : j # k => jobs'[j] = jobs[j]
<1>. DEFINE Spent == 0..MaxAttempts
<1>1. jobs \in [Keys -> [state: JobState, spent: Spent]]
  BY Rows DEF JobRows
<1>. HIDE DEF Spent
<1>2. /\ jobs' \in [Keys -> [state: JobState, spent: Spent]]
      /\ jobs'[k].state = state /\ \A j \in Keys : j # k => jobs'[j] = jobs[j]
  BY <1>1
<1>. QED
  BY <1>2 DEF JobRows, Spent

LEMMA OpeningFields ==
  ASSUME FileInv, NEW k \in Keys, NEW opened, opened = Opening(k)
  PROVE  /\ opened \in Item /\ opened.deletion = item.deletion
         /\ k \in Ordinary => opened.status = WorksUnder(k)
         /\ k = Delete => opened = item
         /\ opened.formal = IF k \in {Profile, Match, Recognize, Delete} THEN item.formal
                            ELSE "materializing"
<1>1. item \in Item
  BY Rows
<1>2. CASE k = Profile
  <2>1. opened = [item EXCEPT !.status = "profiling"]
    BY <1>2, KeysDiffer DEF Opening
  <2>. QED
    BY <1>1, <1>2, <2>1, WorksUnderIs, KeysDiffer DEF Item
<1>3. CASE k = Match
  <2>1. opened = [item EXCEPT !.status = "matching"]
    BY <1>3, KeysDiffer DEF Opening
  <2>. QED
    BY <1>1, <1>3, <2>1, WorksUnderIs, KeysDiffer DEF Item
<1>4. CASE k = Recognize
  <2>1. opened = [item EXCEPT !.status = "recognizing"]
    BY <1>4, KeysDiffer DEF Opening
  <2>. QED
    BY <1>1, <1>4, <2>1, WorksUnderIs, KeysDiffer DEF Item
<1>5. CASE k = Delete
  <2>1. opened = item
    BY <1>5, KeysDiffer DEF Opening
  <2>. QED
    BY <1>1, <1>5, <2>1, KeysDiffer DEF Ordinary
<1>6. CASE k \notin {Profile, Match, Recognize, Delete}
  <2>1. opened = [item EXCEPT !.status = "materializing", !.formal = "materializing"]
    BY <1>6 DEF Opening
  <2>. QED
    BY <1>1, <1>6, <2>1, WorksUnderIs DEF Item
<1>. QED
  BY <1>2, <1>3, <1>4, <1>5, <1>6

LEMMA BeginEffect ==
  ASSUME FileInv, NEW k \in Keys, Begin(k)
  PROVE  /\ FileInv' /\ Free /\ (jobs[k].state = "waiting" \/ run[k].pc = "dead")
         /\ jobs[k].state \in {"waiting", "active"} /\ jobs'[k].state = "active"
         /\ \A j \in Keys : j # k => jobs'[j] = jobs[j]
         /\ \A j \in Keys : j # k => run'[j] = run[j]
         /\ \/ /\ run'[k].pc = "working" /\ run'[k].seen = item'
               /\ item'.deletion = item.deletion /\ (k # Delete => item.deletion = "active")
               /\ k \in Ordinary => item'.status = WorksUnder(k)
               /\ k = Delete => item' = item
               /\ item'.formal = IF k \in {Profile, Match, Recognize, Delete} THEN item.formal
                                 ELSE "materializing"
            \/ run'[k].pc = "raised" /\ item' = item
         /\ UNCHANGED <<stored, plans, deletion, batch, api>>
<1>1. /\ Free /\ (jobs[k].state = "waiting" \/ run[k].pc = "dead")
      /\ jobs' = [jobs EXCEPT ![k].state = "active"]
      /\ UNCHANGED <<stored, plans, deletion, batch, api>>
  BY DEF Begin
<1>2. jobs[k].state \in {"waiting", "active"}
  BY <1>1 DEF FileInv, JobsAndRuns
<1>3. /\ jobs' \in JobRows /\ jobs'[k].state = "active"
      /\ \A j \in Keys : j # k => jobs'[j] = jobs[j]
  <2>1. "active" \in JobState
    BY DEF JobState
  <2>. QED
    BY <1>1, <2>1, JobChanges
<1>4. CASE run' = [run EXCEPT ![k] = At("raised")] /\ item' = item
  BY <1>1, <1>2, <1>3, <1>4, Rows, RunEndKeepsFile
<1>5. CASE /\ Admitted(k) /\ item' = Opening(k)
           /\ run' = [run EXCEPT ![k] = [pc |-> "working", seen |-> Opening(k)]]
  <2>1. PICK opened : opened = Opening(k)
    OBVIOUS
  <2>2. /\ opened \in Item /\ opened.deletion = item.deletion
        /\ k \in Ordinary => opened.status = WorksUnder(k)
        /\ k = Delete => opened = item
        /\ opened.formal = IF k \in {Profile, Match, Recognize, Delete} THEN item.formal
                           ELSE "materializing"
    BY <2>1, OpeningFields
  <2>3. PICK row : row = [pc |-> "working", seen |-> opened]
    OBVIOUS
  <2>4. row \in Run /\ row.pc = "working" /\ row.seen = opened
    BY <2>2, <2>3, RunFields
  <2>5. /\ run' \in [Keys -> Run] /\ run'[k] = row
        /\ \A j \in Keys : j # k => run'[j] = run[j]
    BY <1>5, <2>1, <2>3, <2>4, Rows
  <2>6. item' = opened /\ (k # Delete => item.deletion = "active")
    BY <1>5, <2>1 DEF Admitted
  <2>7. TypeOK'
    BY <1>1, <1>3, <2>2, <2>5, <2>6, Rows, TypeHolds
  <2>8. PlansAndJobs' /\ PlansFormAChain'
    <3>1. \A p \in Plans : jobs[Materialize(p)].state = "absent" =>
                              jobs'[Materialize(p)].state = "absent"
      BY <1>2, <1>3, KeysDiffer
    <3>. QED
      BY <1>1, <3>1, Rows, PlansStay
  <2>9. k \in Ordinary => CopyIsHonest(k)'
    BY <2>2, <2>4, <2>5, <2>6 DEF CopyIsHonest, Ordinary
  <2>10. FileInv'
    BY <1>3, <2>4, <2>5, <2>7, <2>8, <2>9, FileStays
  <2>. QED
    BY <1>1, <1>2, <1>3, <2>2, <2>4, <2>5, <2>6, <2>10
<1>. QED
  BY <1>4, <1>5 DEF Begin

(* A run that stops where it is: aborted, or dead with its worker.            *)
LEMMA StopsEffect ==
  ASSUME FileInv, NEW k \in Keys, Aborts(k) \/ Dies(k)
  PROVE  /\ FileInv' /\ Free /\ run[k].pc # "none" /\ jobs[k].state = "active"
         /\ Aborts(k) => run[k].pc = "working"
         /\ run'[k].pc \in {"raised", "dead"}
         /\ \A j \in Keys : j # k => run'[j] = run[j]
         /\ UNCHANGED <<item, stored, plans, deletion, jobs, batch, api>>
<1>1. /\ Free /\ run[k].pc # "none" /\ (Aborts(k) => run[k].pc = "working")
      /\ UNCHANGED <<item, stored, plans, deletion, jobs, batch, api>>
  BY DEF Aborts, Dies
<1>2. PICK pc \in {"raised", "dead"} : run' = [run EXCEPT ![k] = At(pc)]
  BY DEF Aborts, Dies
<1>3. jobs[k].state = "active"
  BY <1>1 DEF FileInv, JobsAndRuns
<1>4. FileInv' /\ run'[k].pc = pc /\ \A j \in Keys : j # k => run'[j] = run[j]
  BY <1>1, <1>2, <1>3, Rows, RunEndKeepsFile
<1>. QED
  BY <1>1, <1>2, <1>3, <1>4

LEMMA SucceedsEffect ==
  ASSUME FileInv, NEW k \in Keys, Succeeds(k)
  PROVE  /\ FileInv' /\ Free /\ run[k].pc = "returned" /\ jobs[k].state = "active"
         /\ run'[k].pc = "none" /\ jobs'[k].state = "succeeded"
         /\ \A j \in Keys : j # k => run'[j] = run[j]
         /\ \A j \in Keys : j # k => jobs'[j] = jobs[j]
         /\ UNCHANGED <<item, stored, plans, deletion, batch, api>>
<1>1. /\ Free /\ run[k].pc = "returned" /\ jobs' = [jobs EXCEPT ![k].state = "succeeded"]
      /\ run' = [run EXCEPT ![k] = At("none")]
      /\ UNCHANGED <<item, stored, plans, deletion, batch, api>>
  BY DEF Succeeds
<1>2. jobs[k].state = "active"
  BY <1>1 DEF FileInv, JobsAndRuns
<1>3. /\ jobs' \in JobRows /\ jobs'[k].state = "succeeded"
      /\ \A j \in Keys : j # k => jobs'[j] = jobs[j]
  <2>1. "succeeded" \in JobState
    BY DEF JobState
  <2>. QED
    BY <1>1, <2>1, JobChanges
<1>4. FileInv' /\ run'[k].pc = "none" /\ \A j \in Keys : j # k => run'[j] = run[j]
  BY <1>1, <1>2, <1>3, Rows, RunEndKeepsFile
<1>. QED
  BY <1>1, <1>2, <1>3, <1>4

LEMMA HandsBackEffect ==
  ASSUME FileInv, HandsBack
  PROVE  /\ FileInv' /\ Free /\ run[Recognize].pc = "working"
         /\ jobs[Recognize].state = "active"
         /\ run'[Recognize].pc = "none" /\ jobs'[Recognize].state = "waiting"
         /\ \A j \in Keys : j # Recognize => run'[j] = run[j]
         /\ \A j \in Keys : j # Recognize => jobs'[j] = jobs[j]
         /\ UNCHANGED <<item, stored, plans, deletion, batch, api>>
<1>1. /\ Free /\ run[Recognize].pc = "working"
      /\ jobs' = [jobs EXCEPT ![Recognize].state = "waiting"]
      /\ run' = [run EXCEPT ![Recognize] = At("none")]
      /\ UNCHANGED <<item, stored, plans, deletion, batch, api>>
  BY DEF HandsBack
<1>2. jobs[Recognize].state = "active" /\ Recognize \in Keys
  BY <1>1, KeysDiffer DEF FileInv, JobsAndRuns
<1>3. /\ jobs' \in JobRows /\ jobs'[Recognize].state = "waiting"
      /\ \A j \in Keys : j # Recognize => jobs'[j] = jobs[j]
  <2>1. "waiting" \in JobState
    BY DEF JobState
  <2>. QED
    BY <1>1, <1>2, <2>1, JobChanges
<1>4. /\ FileInv' /\ run'[Recognize].pc = "none"
      /\ \A j \in Keys : j # Recognize => run'[j] = run[j]
  BY <1>1, <1>2, <1>3, Rows, RunEndKeepsFile
<1>. QED
  BY <1>1, <1>2, <1>3, <1>4

(* What the last failure of a job leaves of the file: nothing more than the   *)
(* handler has committed already when that is what failed.                    *)
GivesUp(k) ==
  /\ jobs'[k].state = "failed"
  /\ deletion' = IF k = Delete THEN "failed" ELSE deletion
  /\ batch' = IF k = Delete THEN batch ELSE Refreshed(item'.formal)
  /\ \/ /\ run[k].pc = "stale" /\ k \in {Profile, Match} /\ item' = item
     \/ /\ run[k].pc = "raised" /\ k = Delete
        /\ item'.deletion = "deletion_failed"
        /\ item'.status = item.status /\ item'.formal = item.formal
     \/ /\ run[k].pc = "raised" /\ k = Recognize /\ item'.deletion = item.deletion
        /\ item'.status = "needs_review" /\ item'.formal = "needs_review"
     \/ /\ run[k].pc = "raised" /\ k \notin {Delete, Recognize}
        /\ item'.deletion = item.deletion
        /\ item'.status = "failed" /\ item'.formal = "failed"

LEMMA GivenUpFields ==
  ASSUME NEW x \in Item, NEW k, NEW y, y = GivenUp(k, x)
  PROVE  /\ y \in Item
         /\ k = Delete => y.deletion = "deletion_failed" /\ y.status = x.status
                          /\ y.formal = x.formal
         /\ k # Delete => y.deletion = x.deletion
         /\ k = Recognize => y.status = "needs_review" /\ y.formal = "needs_review"
         /\ k \notin {Delete, Recognize} =>
              /\ y.status = "failed" /\ y.formal = "failed"
              /\ x.status = "failed" /\ x.formal = "failed" => y = x
<1>1. CASE k = Delete
  <2>1. y = [x EXCEPT !.deletion = "deletion_failed"]
    BY <1>1, KeysDiffer DEF GivenUp
  <2>. QED
    BY <1>1, <2>1, KeysDiffer DEF Item
<1>2. CASE k = Recognize
  <2>1. y = [x EXCEPT !.status = "needs_review", !.formal = "needs_review"]
    BY <1>2, KeysDiffer DEF GivenUp
  <2>. QED
    BY <1>2, <2>1, KeysDiffer DEF Item
<1>3. CASE k \notin {Delete, Recognize}
  <2>1. y = [x EXCEPT !.status = "failed", !.formal = "failed"]
    BY <1>3 DEF GivenUp
  <2>. QED
    BY ZenonT(30), <1>3, <2>1 DEF Item
<1>. QED
  BY <1>1, <1>2, <1>3

LEMMA FailsEffect ==
  ASSUME FileInv, NEW k \in Keys, Fails(k)
  PROVE  /\ FileInv' /\ Free /\ run[k].pc \in {"raised", "stale"} /\ jobs[k].state = "active"
         /\ run'[k].pc = "none"
         /\ \A j \in Keys : j # k => run'[j] = run[j]
         /\ \A j \in Keys : j # k => jobs'[j] = jobs[j]
         /\ \/ jobs'[k].state = "waiting" /\ UNCHANGED <<item, deletion, batch>>
            \/ GivesUp(k)
         /\ UNCHANGED <<stored, plans, api>>
<1>1. /\ Free /\ run[k].pc \in {"raised", "stale"} /\ run' = [run EXCEPT ![k] = At("none")]
      /\ UNCHANGED <<stored, plans, api>>
  BY DEF Fails
<1>2. /\ jobs[k].state = "active" /\ jobs \in JobRows
      /\ (run[k].pc = "stale" => /\ k \in {Profile, Match} /\ run[k].seen.status = "failed"
                                 /\ run[k].seen.formal = "failed")
  BY <1>1, Rows, KeysDiffer DEF FileInv, JobsAndRuns, CopiesAreHonest, Ordinary
<1>3. PICK spent : spent = jobs[k].spent + 1
  OBVIOUS
<1>. DEFINE Spent == 0..MaxAttempts
<1>4. jobs \in [Keys -> [state: JobState, spent: Spent]]
  BY <1>2 DEF JobRows
<1>5. /\ "waiting" \in JobState /\ "failed" \in JobState
      /\ spent <= MaxAttempts => spent \in Spent
  <2>1. jobs[k].spent \in Spent
    <3>. HIDE DEF Spent
    <3>. QED
      BY <1>4
  <2>. QED
    BY <1>3, <2>1, Bounds DEF JobState
<1>6. ASSUME NEW state \in {"waiting", "failed"}, spent <= MaxAttempts,
             jobs' = [jobs EXCEPT ![k] = [state |-> state, spent |-> spent]]
      PROVE  /\ jobs' \in JobRows /\ jobs'[k].state = state
             /\ \A j \in Keys : j # k => jobs'[j] = jobs[j]
  <2>. HIDE DEF Spent
  <2>1. /\ jobs' \in [Keys -> [state: JobState, spent: Spent]] /\ jobs'[k].state = state
        /\ \A j \in Keys : j # k => jobs'[j] = jobs[j]
    BY <1>4, <1>5, <1>6
  <2>. QED
    BY <2>1 DEF JobRows, Spent
<1>. HIDE DEF Spent
<1>7. CASE /\ spent < MaxAttempts
           /\ jobs' = [jobs EXCEPT ![k] = [state |-> "waiting", spent |-> spent]]
           /\ UNCHANGED <<item, deletion, batch>>
  <2>1. spent <= MaxAttempts
    <3>1. jobs[k].spent \in 0..MaxAttempts
      BY <1>2 DEF JobRows
    <3>. QED
      BY <1>3, <1>7, <3>1, Bounds
  <2>2. /\ jobs' \in JobRows /\ jobs'[k].state = "waiting"
        /\ \A j \in Keys : j # k => jobs'[j] = jobs[j]
    BY <1>6, <1>7, <2>1
  <2>3. FileInv' /\ run'[k].pc = "none" /\ \A j \in Keys : j # k => run'[j] = run[j]
    BY <1>1, <1>2, <1>7, <2>2, Rows, RunEndKeepsFile
  <2>. QED
    BY <1>1, <1>2, <1>7, <2>2, <2>3
<1>8. CASE /\ spent = MaxAttempts
           /\ jobs' = [jobs EXCEPT ![k] = [state |-> "failed", spent |-> spent]]
           /\ LET base == IF run[k].pc = "stale" THEN Seen(k) ELSE item
              IN  item' = Flushed(base, GivenUp(k, base))
           /\ deletion' = IF k = Delete THEN "failed" ELSE deletion
           /\ batch' = IF k = Delete THEN batch ELSE Refreshed(item'.formal)
  <2>1. spent <= MaxAttempts
    BY <1>8, Bounds
  <2>2. /\ jobs' \in JobRows /\ jobs'[k].state = "failed"
        /\ \A j \in Keys : j # k => jobs'[j] = jobs[j]
    BY <1>6, <1>8, <2>1
  <2>3. PICK base : base = IF run[k].pc = "stale" THEN run[k].seen ELSE item
    OBVIOUS
  <2>4. PICK y : y = GivenUp(k, base)
    OBVIOUS
  <2>5. item' = Flushed(base, y) /\ base \in Item
    BY <1>8, <2>3, <2>4, Rows DEF Seen
  <2>6. /\ y \in Item
        /\ k = Delete => y.deletion = "deletion_failed" /\ y.status = base.status
                         /\ y.formal = base.formal
        /\ k # Delete => y.deletion = base.deletion
        /\ k = Recognize => y.status = "needs_review" /\ y.formal = "needs_review"
        /\ k \notin {Delete, Recognize} =>
             /\ y.status = "failed" /\ y.formal = "failed"
             /\ base.status = "failed" /\ base.formal = "failed" => y = base
    BY <2>4, <2>5, GivenUpFields
  <2>7. /\ item' \in Item
        /\ run[k].pc = "raised" => item' = y
        /\ y = base => item' = item
    <3>1. item' \in Item /\ (base = item => item' = y)
      BY <2>5, <2>6, Rows, FlushedFields
    <3>2. ASSUME y = base PROVE item' = item
      <4>1. /\ item'.status = item.status /\ item'.evidence = item.evidence
            /\ item'.formal = item.formal /\ item'.deletion = item.deletion
        BY <2>5, <3>2, Rows, FlushedFields
      <4>. QED
        BY <3>1, <4>1, Rows, ItemFields
    <3>. QED
      BY <2>3, <3>1, <3>2
  <2>8. batch' \in Batches /\ deletion' \in Statuses
    BY <1>8, <2>7, Rows DEF Statuses
  <2>9. FileInv' /\ run'[k].pc = "none" /\ \A j \in Keys : j # k => run'[j] = run[j]
    BY <1>1, <1>2, <2>2, <2>7, <2>8, RunEndKeepsFile
  <2>10. GivesUp(k)
    <3>1. CASE run[k].pc = "stale"
      <4>1. k \in {Profile, Match} /\ k \notin {Delete, Recognize} /\ y = base
        BY <1>2, <2>3, <2>6, <3>1, KeysDiffer
      <4>2. item' = item
        BY <2>7, <4>1
      <4>. QED
        BY <1>8, <2>2, <3>1, <4>1, <4>2 DEF GivesUp
    <3>2. CASE run[k].pc = "raised"
      <4>1. item' = y /\ base = item
        BY <2>3, <2>7, <3>2
      <4>2. CASE k = Delete
        BY <1>8, <2>2, <2>6, <3>2, <4>1, <4>2 DEF GivesUp
      <4>3. CASE k = Recognize
        BY <1>8, <2>2, <2>6, <3>2, <4>1, <4>3, KeysDiffer DEF GivesUp
      <4>4. CASE k \notin {Delete, Recognize}
        BY <1>8, <2>2, <2>6, <3>2, <4>1, <4>4 DEF GivesUp
      <4>. QED
        BY <4>2, <4>3, <4>4
    <3>. QED
      BY <1>1, <3>1, <3>2
  <2>. QED
    BY <1>1, <1>2, <2>2, <2>9, <2>10
<1>. QED
  BY <1>3, <1>7, <1>8, Zenon DEF Fails

(* A step of a request, which touches no run.                                 *)
LEMMA RequestKeepsFile ==
  ASSUME FileInv, run' = run, item' \in Item, stored' \subseteq {"profile", "match"},
         plans' \in [Plans -> Plan], deletion' \in Statuses, jobs' \in JobRows,
         batch' \in Batches, api' \in [op: Types, seen: Item, latest: {0} \cup Plans],
         PlansAndJobs', PlansFormAChain',
         \A k \in Keys : jobs'[k].state = "active" <=> jobs[k].state = "active"
  PROVE  FileInv'
<1>1. TypeOK'
  BY Rows, TypeHolds
<1>2. JobsAndRuns' /\ CopiesAreHonest' /\ run'[Delete].pc # "stale"
  BY DEF FileInv, JobsAndRuns, CopiesAreHonest
<1>. QED
  BY <1>1, <1>2 DEF FileInv

LEMMA NoRequestFits == NoRequest \in [op: Types, seen: Item, latest: {0} \cup Plans]
                       /\ NoRequest.op = "none"
BY FreshItemFits DEF NoRequest, Types

LEMMA RequestDeletionEffect ==
  ASSUME FileInv, RequestDeletion
  PROVE  /\ FileInv' /\ Free /\ run' = run /\ \A k \in Keys : run[k].pc = "none"
         /\ \A k \in Ordinary : jobs'[k].state \notin {"waiting", "active"}
         /\ \A k \in Ordinary : jobs'[k].state = "absent" <=> jobs[k].state = "absent"
         /\ item'.deletion = "deletion_pending"
         /\ UNCHANGED <<stored, plans, batch, api>>
<1>1. /\ Free /\ NoneActive /\ jobs' = Enqueued(Withdrawn, Delete) /\ deletion' = "pending"
      /\ item' = [item EXCEPT !.deletion = "deletion_pending"]
      /\ UNCHANGED <<stored, plans, run, batch, api>>
  BY DEF RequestDeletion
<1>2. item' \in Item /\ item'.deletion = "deletion_pending"
  BY <1>1, Rows DEF Item
<1>3. PICK js : js = Withdrawn
  OBVIOUS
<1>4. /\ js \in JobRows
      /\ \A k \in Keys : js[k].state = IF jobs[k].state = "waiting" THEN "cancelled"
                                       ELSE jobs[k].state
  <2>. DEFINE Spent == 0..MaxAttempts
  <2>1. jobs \in [Keys -> [state: JobState, spent: Spent]]
    BY Rows DEF JobRows
  <2>. HIDE DEF Spent
  <2>2. "cancelled" \in JobState
    BY DEF JobState
  <2>3. /\ js \in [Keys -> [state: JobState, spent: Spent]]
        /\ \A k \in Keys : js[k].state = IF jobs[k].state = "waiting" THEN "cancelled"
                                         ELSE jobs[k].state
    BY <1>3, <2>1, <2>2 DEF Withdrawn
  <2>. QED
    BY <2>3 DEF JobRows, Spent
<1>5. /\ jobs' \in JobRows
      /\ \A k \in Keys : jobs'[k].state = IF k = Delete /\ js[k].state = "absent" THEN "waiting"
                                          ELSE js[k].state
  <2>1. Delete \in Keys
    BY KeysDiffer
  <2>2. /\ Enqueued(js, Delete) \in JobRows
        /\ \A k \in Keys : Enqueued(js, Delete)[k].state =
             IF k = Delete /\ js[k].state = "absent" THEN "waiting" ELSE js[k].state
    BY <1>4, <2>1, EnqueuedFields
  <2>. QED
    BY <1>1, <1>3, <2>2
<1>6. \A k \in Keys : jobs[k].state # "active" /\ jobs'[k].state # "active"
                      /\ run[k].pc = "none"
  BY <1>1, <1>4, <1>5 DEF NoneActive, FileInv, JobsAndRuns
<1>7. \A k \in Ordinary : /\ jobs'[k].state \notin {"waiting", "active"}
                          /\ jobs'[k].state = "absent" <=> jobs[k].state = "absent"
  BY <1>4, <1>5, <1>6 DEF Ordinary
<1>8. PlansAndJobs' /\ PlansFormAChain'
  <2>1. \A p \in Plans : jobs[Materialize(p)].state = "absent" =>
                            jobs'[Materialize(p)].state = "absent"
    BY <1>7, KeysDiffer DEF Ordinary
  <2>. QED
    BY <1>1, <2>1, Rows, PlansStay
<1>9. FileInv'
  <2>1. /\ stored' \subseteq {"profile", "match"} /\ plans' \in [Plans -> Plan]
        /\ deletion' \in Statuses /\ batch' \in Batches
        /\ api' \in [op: Types, seen: Item, latest: {0} \cup Plans]
    BY <1>1, Rows DEF Statuses
  <2>. QED
    BY <1>1, <1>2, <1>5, <1>6, <1>8, <2>1, RequestKeepsFile
<1>. QED
  BY <1>1, <1>2, <1>6, <1>7, <1>9

LEMMA ReadsEffect ==
  ASSUME FileInv, NEW op \in {"approve", "accept", "reimport"}, Reads(op)
  PROVE  /\ FileInv' /\ item.deletion = "active"
         /\ api' = [op |-> op, seen |-> item, latest |-> Latest]
         /\ op = "approve" => ~Completed(Latest)
         /\ UNCHANGED <<item, stored, plans, deletion, jobs, run, batch>>
<1>1. /\ item.deletion = "active" /\ (op = "approve" => ~Completed(Latest))
      /\ api' = [op |-> op, seen |-> item, latest |-> Latest]
      /\ UNCHANGED <<item, stored, plans, deletion, jobs, run, batch>>
  BY DEF Reads, Approvable
<1>2. api' \in [op: Types, seen: Item, latest: {0} \cup Plans]
  BY <1>1, Rows, LatestIs DEF Types
<1>3. PlansAndJobs' /\ PlansFormAChain'
  BY <1>1, Rows, PlansStay
<1>4. FileInv'
  BY <1>1, <1>2, <1>3, Rows, RequestKeepsFile
<1>. QED
  BY <1>1, <1>4

LEMMA RefusedEffect ==
  ASSUME FileInv, Refused
  PROVE  /\ FileInv' /\ Overlap /\ api'.op = "none"
         /\ UNCHANGED <<item, stored, plans, deletion, jobs, run, batch>>
<1>1. /\ Overlap /\ api' = NoRequest
      /\ UNCHANGED <<item, stored, plans, deletion, jobs, run, batch>>
  BY DEF Refused
<1>2. PlansAndJobs' /\ PlansFormAChain'
  BY <1>1, Rows, PlansStay
<1>3. FileInv'
  BY <1>1, <1>2, Rows, NoRequestFits, RequestKeepsFile
<1>. QED
  BY <1>1, <1>3, NoRequestFits

LEMMA CommitsApprovalEffect ==
  ASSUME FileInv, CommitsApproval
  PROVE  /\ FileInv' /\ run' = run /\ item'.deletion = item.deletion
         /\ api.op \in {"approve", "accept"} /\ api'.op = "none"
         /\ NewPlan(IF api.op = "approve" THEN "user" ELSE "hermes")
         /\ item'.formal \in {item.formal, "materializing"}
         /\ api.seen = item => item'.status = "materializing"
         /\ UNCHANGED <<stored, deletion, batch>>
<1>1. PICK by \in {"user", "hermes"} : by = IF api.op = "approve" THEN "user" ELSE "hermes"
  OBVIOUS
<1>2. PICK seen, latest, new :
        /\ seen = api.seen /\ latest = Latest
        /\ new = [seen EXCEPT !.status = "materializing", !.formal = "materializing"]
  OBVIOUS
<1>3. /\ api.op \in {"approve", "accept"} /\ Approves(by, latest)
      /\ item' = Flushed(seen, new) /\ api' = NoRequest
      /\ UNCHANGED <<stored, deletion, run, batch>>
  BY <1>1, <1>2 DEF CommitsApproval, NotOvertaken, Approved
<1>4. seen \in Item
  <2>1. api \in [op: Types, seen: Item, latest: {0} \cup Plans]
    BY Rows
  <2>. HIDE DEF Item
  <2>. QED
    BY <1>2, <2>1
<1>5. new \in Item /\ new.status = "materializing" /\ new.formal = "materializing"
      /\ new.deletion = seen.deletion
  BY <1>2, <1>4 DEF Item
<1>6. /\ item' \in Item /\ item'.deletion = item.deletion
      /\ item'.formal \in {item.formal, "materializing"}
      /\ seen = item => item'.status = "materializing"
  BY <1>3, <1>4, <1>5, Rows, FlushedFields
<1>7. /\ NextPlan \in Plans /\ plans[NextPlan].state = "none"
      /\ plans' \in [Plans -> Plan] /\ jobs' \in JobRows
      /\ \A p \in Plans : plans'[p] = IF p = NextPlan THEN PlanRow("live", by, Latest)
                                      ELSE plans[p]
      /\ \A k \in Keys : jobs'[k].state = IF k = Materialize(NextPlan) THEN "waiting"
                                          ELSE jobs[k].state
      /\ PlansAndJobs' /\ PlansFormAChain'
  BY <1>2, <1>3, ApprovesEffect
<1>8. NewPlan(by)
  BY <1>7 DEF NewPlan
<1>9. \A k \in Keys : jobs'[k].state = "active" <=> jobs[k].state = "active"
  <2>1. PICK n : n = NextPlan
    OBVIOUS
  <2>2. jobs[Materialize(n)].state = "absent"
    BY <1>7, <2>1, Rows DEF PlansAndJobs
  <2>. QED
    BY <1>7, <2>1, <2>2
<1>10. FileInv'
  BY <1>3, <1>6, <1>7, <1>9, Rows, NoRequestFits, RequestKeepsFile
<1>. QED
  BY <1>1, <1>2, <1>3, <1>6, <1>8, <1>10, NoRequestFits

LEMMA CommitsReimportEffect ==
  ASSUME FileInv, CommitsReimport
  PROVE  /\ FileInv' /\ run' = run /\ item'.deletion = item.deletion
         /\ api.op = "reimport" /\ api'.op = "none" /\ NoneActive
         /\ api.seen = item => item'.status = "pending" /\ item'.formal = "pending"
         /\ \A p \in Plans : plans'[p].state \in {"none", "deleted"}
         /\ \A k \in Keys : jobs'[k].state = IF k = Profile THEN "waiting" ELSE "absent"
<1>1. PICK seen, new, old : seen = api.seen /\ new = ItemReset(seen) /\ old = seen.formal
  OBVIOUS
<1>2. /\ api.op = "reimport" /\ Reset(old) /\ item' = Flushed(seen, new) /\ api' = NoRequest
      /\ deletion' = deletion
  BY <1>1 DEF CommitsReimport
<1>3. seen \in Item
  <2>1. api \in [op: Types, seen: Item, latest: {0} \cup Plans]
    BY Rows
  <2>. HIDE DEF Item
  <2>. QED
    BY <1>1, <2>1
<1>4. new \in Item /\ new.status = "pending" /\ new.formal = "pending"
      /\ new.deletion = seen.deletion
  <2>1. new = [FreshItem EXCEPT !.deletion = seen.deletion]
    BY <1>1 DEF ItemReset
  <2>2. seen.deletion \in {"active", "deletion_pending", "deleted", "deletion_failed"}
    BY <1>3, ItemFields
  <2>. QED
    BY <2>1, <2>2 DEF Item, FreshItem
<1>5. /\ item' \in Item /\ item'.deletion = item.deletion
      /\ seen = item => item'.status = "pending" /\ item'.formal = "pending"
  BY <1>2, <1>3, <1>4, Rows, FlushedFields
<1>6. /\ NoneActive /\ run' = run /\ stored' = {}
      /\ plans' \in [Plans -> Plan] /\ jobs' \in JobRows /\ batch' \in Batches
      /\ PlansAndJobs' /\ PlansFormAChain'
      /\ \A p \in Plans : plans'[p].state \in {"none", "deleted"}
      /\ \A k \in Keys : jobs'[k].state = IF k = Profile THEN "waiting" ELSE "absent"
  BY <1>2, ResetEffect
<1>7. FileInv'
  <2>1. \A k \in Keys : jobs'[k].state = "active" <=> jobs[k].state = "active"
    BY <1>6 DEF NoneActive
  <2>. QED
    BY <1>2, <1>5, <1>6, <2>1, Rows, NoRequestFits, RequestKeepsFile
<1>. QED
  BY <1>1, <1>2, <1>5, <1>6, <1>7, NoRequestFits

LEMMA RestoreDeletedEffect ==
  ASSUME FileInv, RestoreDeleted
  PROVE  /\ FileInv' /\ run' = run /\ Free /\ NoneActive /\ api' = api
         /\ item'.deletion = "active" /\ item'.status = "pending" /\ item'.formal = "pending"
         /\ \A p \in Plans : plans'[p].state \in {"none", "deleted"}
         /\ \A k \in Keys : jobs'[k].state = IF k = Profile THEN "waiting" ELSE "absent"
<1>1. PICK old : old = item.formal
  OBVIOUS
<1>2. /\ Free /\ Reset(old) /\ item' = FreshItem /\ deletion' = "restored" /\ api' = api
  BY <1>1 DEF RestoreDeleted
<1>3. item' \in Item /\ item'.deletion = "active" /\ item'.status = "pending"
      /\ item'.formal = "pending"
  BY <1>2, FreshItemFits DEF FreshItem
<1>4. /\ NoneActive /\ run' = run /\ stored' = {}
      /\ plans' \in [Plans -> Plan] /\ jobs' \in JobRows /\ batch' \in Batches
      /\ PlansAndJobs' /\ PlansFormAChain'
      /\ \A p \in Plans : plans'[p].state \in {"none", "deleted"}
      /\ \A k \in Keys : jobs'[k].state = IF k = Profile THEN "waiting" ELSE "absent"
  BY <1>2, ResetEffect
<1>5. FileInv'
  <2>1. \A k \in Keys : jobs'[k].state = "active" <=> jobs[k].state = "active"
    BY <1>4 DEF NoneActive
  <2>2. deletion' \in Statuses
    BY <1>2 DEF Statuses
  <2>. QED
    BY <1>2, <1>3, <1>4, <2>1, <2>2, Rows, RequestKeepsFile
<1>. QED
  BY <1>2, <1>3, <1>4, <1>5

-----------------------------------------------------------------------------
(* Every step, however requests overlap and workers die *)

(* What a step does to the plans: nothing, a new one, an execution, or none   *)
(* of them is live afterwards.                                                *)
PlansStep ==
  \/ plans' = plans
  \/ NewPlan("match") /\ ~Completed(Latest)
  \/ NewPlan("provisional") /\ Latest = 0
  \/ NewPlan("user") /\ api.op = "approve"
  \/ NewPlan("hermes") /\ api.op = "accept"
  \/ \A q \in Plans : /\ plans'[q].state = plans[q].state
                      /\ plans[q].exec # "none" => plans'[q].exec = plans[q].exec
  \/ \A q \in Plans : plans'[q].state # "live"

LEMMA StutterKeepsFile ==
  ASSUME FileInv, UNCHANGED vars
  PROVE  FileInv'
<1>1. /\ item' = item /\ stored' = stored /\ plans' = plans /\ deletion' = deletion
      /\ jobs' = jobs /\ run' = run /\ batch' = batch /\ api' = api
  BY DEF vars
<1>2. PlansAndJobs' /\ PlansFormAChain'
  BY Rows, PlansStay, <1>1
<1>. QED
  BY Rows, RequestKeepsFile, <1>1, <1>2 DEF Statuses

LEMMA WorkerStep ==
  ASSUME FileInv, Worker
  PROVE  FileInv' /\ PlansStep
<1>1. ASSUME NEW k \in Keys, Begin(k) \/ Ends(k) \/ Dies(k) PROVE FileInv' /\ plans' = plans
  <2>1. CASE Begin(k)
    BY <2>1, BeginEffect
  <2>2. CASE Succeeds(k)
    BY <2>2, SucceedsEffect
  <2>3. CASE Fails(k)
    BY <2>3, FailsEffect
  <2>4. CASE Dies(k)
    BY <2>4, StopsEffect
  <2>. QED
    BY <1>1, <2>1, <2>2, <2>3, <2>4 DEF Ends
<1>2. CASE ProfileStored
  BY <1>2, ProfileStoredEffect DEF PlansStep
<1>3. CASE ProfileUnreadable
  BY <1>3, ProfileUnreadableEffect DEF PlansStep
<1>4. CASE MatchUnknown
  BY <1>4, MatchUnknownEffect DEF PlansStep
<1>5. CASE MatchKnown
  <2>1. /\ FileInv'
        /\ (~Completed(Latest) /\ NewPlan("match")) \/ KnownPlan("match")
    BY <1>5, MatchKnownEffect
  <2>. QED
    BY <2>1 DEF PlansStep, KnownPlan
<1>6. CASE MatchBlocked
  BY <1>6, MatchBlockedEffect DEF PlansStep
<1>7. CASE MatchBroken
  BY <1>7, MatchBrokenEffect DEF PlansStep
<1>8. CASE Recognized
  <2>1. /\ FileInv'
        /\ (Latest = 0 /\ NewPlan("provisional")) \/ KnownPlan("provisional")
    BY <1>8, RecognizedEffect
  <2>. QED
    BY <2>1 DEF PlansStep, KnownPlan
<1>9. ASSUME NEW p \in Plans, NEW outcome \in {"completed", "partial"}, Materialized(p, outcome)
      PROVE  FileInv' /\ PlansStep
  <2>1. /\ FileInv'
        /\ \A q \in Plans : /\ plans'[q].state = plans[q].state
                            /\ plans[q].exec # "none" => plans'[q].exec = plans[q].exec
    BY <1>9, MaterializedEffect
  <2>. QED
    BY <2>1 DEF PlansStep
<1>10. CASE Deleted
  <2>1. FileInv' /\ \A q \in Plans : plans'[q].state # "live"
    BY <1>10, DeletedEffect
  <2>. QED
    BY <2>1 DEF PlansStep
<1>11. CASE DeletedBefore
  BY <1>11, DeletedBeforeEffect DEF PlansStep
<1>12. ASSUME NEW k \in Keys, Aborts(k) PROVE FileInv' /\ plans' = plans
  BY <1>12, StopsEffect
<1>13. CASE HandsBack
  BY <1>13, HandsBackEffect DEF PlansStep
<1>14. CASE \E k \in Keys : Begin(k) \/ Ends(k) \/ Dies(k) \/ Aborts(k)
  BY <1>1, <1>12, <1>14 DEF PlansStep
<1>15. CASE \E p \in Plans, outcome \in {"completed", "partial"} : Materialized(p, outcome)
  BY <1>9, <1>15
<1>. QED
  BY Zenon, <1>2, <1>3, <1>4, <1>5, <1>6, <1>7, <1>8, <1>10, <1>11, <1>13, <1>14, <1>15
  DEF Worker, Works

LEMMA RequestStep ==
  ASSUME FileInv, Request \/ Responds
  PROVE  FileInv' /\ PlansStep
<1>1. CASE RequestDeletion
  BY <1>1, RequestDeletionEffect DEF PlansStep
<1>2. CASE RestoreDeleted
  <2>1. FileInv' /\ \A q \in Plans : plans'[q].state \in {"none", "deleted"}
    BY <1>2, RestoreDeletedEffect
  <2>. QED
    BY <2>1 DEF PlansStep
<1>3. ASSUME NEW op \in {"approve", "accept", "reimport"}, Reads(op) PROVE FileInv' /\ PlansStep
  BY <1>3, ReadsEffect DEF PlansStep
<1>4. CASE CommitsApproval
  BY <1>4, CommitsApprovalEffect DEF PlansStep
<1>5. CASE CommitsReimport
  <2>1. FileInv' /\ \A q \in Plans : plans'[q].state \in {"none", "deleted"}
    BY <1>5, CommitsReimportEffect
  <2>. QED
    BY <2>1 DEF PlansStep
<1>6. CASE Refused
  BY <1>6, RefusedEffect DEF PlansStep
<1>. QED
  BY <1>1, <1>2, <1>3, <1>4, <1>5, <1>6 DEF Request, Responds

LEMMA FileStep ==
  ASSUME FileInv, [Next]_vars
  PROVE  FileInv' /\ PlansStep
<1>1. CASE UNCHANGED vars
  BY <1>1, StutterKeepsFile DEF PlansStep, vars
<1>. QED
  BY <1>1, WorkerStep, RequestStep DEF Next

LEMMA FileAlways == Spec => []FileInv
<1>1. Init => FileInv
  BY IngestionFirst DEF IngestionInv
<1>2. FileInv /\ [Next]_vars => FileInv'
  BY FileStep
<1>. QED
  BY <1>1, <1>2, PTL DEF Spec

(* The columns and rows of a file hold the values the handlers and routes     *)
(* write, however they interleave.                                            *)
THEOREM IngestionTypeCorrect == Spec => []TypeOK
<1>1. FileInv => TypeOK
  BY DEF FileInv
<1>. QED
  BY <1>1, FileAlways, PTL

(* Two approvals of one file (by the match, by the recognition, by a user, by *)
(* an accepted proposal) never both supersede the same plan, even when other  *)
(* transactions commit between the reads and the commit of an approval: a     *)
(* revision approved since breaks the unique (item_id, revision).             *)
THEOREM ApprovalsFormAChain == Spec => []PlansFormAChain
<1>1. FileInv => PlansFormAChain
  BY DEF FileInv
<1>. QED
  BY <1>1, FileAlways, PTL

(* materialize_plan records one outcome per plan, whatever is retried, and    *)
(* however often the worker dies after the commit.                            *)
THEOREM PlansExecuteOnce == Spec => ExecutedOnce
<1>1. ASSUME FileInv, [Next]_vars
      PROVE  [\A p \in Plans : plans[p].exec # "none" /\ plans'[p].state = "live" =>
                plans'[p].exec = plans[p].exec]_vars
  <2>1. PlansStep
    BY <1>1, FileStep
  <2>. SUFFICES ASSUME NEW p \in Plans, plans[p].exec # "none", plans'[p].state = "live"
                PROVE  plans'[p].exec = plans[p].exec
    OBVIOUS
  <2>2. plans[p].state = "live"
    BY <1>1 DEF FileInv, PlansAndJobs
  <2>3. ASSUME NEW by, NewPlan(by) PROVE plans'[p] = plans[p]
    BY <2>2, <2>3 DEF NewPlan
  <2>. QED
    BY <2>1, <2>3 DEF PlansStep
<1>. QED
  BY <1>1, FileAlways, PTL DEF Spec, ExecutedOnce

-----------------------------------------------------------------------------
(* Requests that are single transactions *)

(* While the build result is active no deletion is under way.                 *)
LEMMA NothingDeleted ==
  ASSUME FileInv, DeletionIsAlone, item.deletion = "active", item'.deletion = "active",
         jobs'[Delete].state = "absent", run'[Delete] = run[Delete]
  PROVE  DeletionIsAlone' /\ DeletedIsGone'
<1>1. run[Delete].pc = "none"
  BY KeysDiffer DEF FileInv, JobsAndRuns, DeletionIsAlone
<1>. QED
  BY <1>1 DEF DeletionIsAlone, DeletedIsGone

(* The data of an import stays as long as plans are only added.               *)
LEMMA ImportedStays ==
  ASSUME ImportedHasData, item'.formal = item.formal \/ item'.formal \notin {"imported", "partial"},
         \A p \in Plans : plans[p].state = "live" =>
           /\ plans'[p].state = "live"
           /\ plans[p].exec # "none" => plans'[p].exec = plans[p].exec
  PROVE  ImportedHasData'
<1>. SUFFICES ASSUME item'.formal \in {"imported", "partial"}
              PROVE  \E p \in Plans :
                       /\ plans'[p].state = "live"
                       /\ plans'[p].exec = (IF item'.formal = "imported" THEN "completed"
                                            ELSE "partial")
  BY DEF ImportedHasData
<1>1. item'.formal = item.formal
  OBVIOUS
<1>2. PICK p \in Plans : /\ plans[p].state = "live"
                         /\ plans[p].exec = (IF item.formal = "imported" THEN "completed"
                                             ELSE "partial")
  BY <1>1 DEF ImportedHasData
<1>3. plans'[p].state = "live" /\ plans'[p].exec = plans[p].exec
  BY <1>2
<1>. QED
  BY <1>1, <1>2, <1>3

(* A step of an ordinary job: the build result is active and stays so.        *)
LEMMA OrdinaryStep ==
  ASSUME FileInv, AtomicInv, NEW k \in Ordinary, jobs[k].state \in {"waiting", "active"},
         item'.deletion = item.deletion, jobs'[Delete].state = jobs[Delete].state,
         run'[Delete] = run[Delete], api'.op = "none", ImportedHasData'
  PROVE  AtomicInv' /\ item.deletion = "active"
<1>1. item.deletion = "active" /\ jobs[Delete].state = "absent"
  BY DEF AtomicInv, DeletionIsAlone
<1>2. DeletionIsAlone' /\ DeletedIsGone'
  BY <1>1, NothingDeleted DEF AtomicInv
<1>. QED
  BY <1>1, <1>2 DEF AtomicInv, RequestIsCurrent

(* A step of the deletion job that leaves the file as it is.                  *)
LEMMA DeletionStep ==
  ASSUME FileInv, AtomicInv, jobs[Delete].state \in {"waiting", "active"}, item' = item,
         UNCHANGED <<stored, plans, deletion, batch>>,
         jobs'[Delete].state # "absent", \A k \in Ordinary : jobs'[k] = jobs[k],
         run'[Delete].pc = "working" => run'[Delete].seen = item', api'.op = "none"
  PROVE  AtomicInv'
<1>1. item.deletion # "active"
  BY DEF AtomicInv, DeletionIsAlone
<1>2. DeletionIsAlone'
  BY <1>1 DEF AtomicInv, DeletionIsAlone
<1>3. DeletedIsGone'
  BY DEF AtomicInv, DeletedIsGone, Ordinary, Refreshed, One
<1>4. ImportedHasData'
  BY DEF AtomicInv, ImportedHasData
<1>. QED
  BY <1>2, <1>3, <1>4 DEF AtomicInv, RequestIsCurrent

LEMMA OrdinaryKeys ==
  /\ Profile \in Ordinary /\ Match \in Ordinary /\ Recognize \in Ordinary
  /\ \A p \in Plans : Materialize(p) \in Ordinary
  /\ \A k \in Ordinary : k \in Keys /\ k # Delete
BY KeysDiffer DEF Ordinary

(* A handler that leaves the plans as they were, and takes no import back.    *)
LEMMA CommitKeepsAtomic ==
  ASSUME FileInv, AtomicInv, ~Overlap, NEW k \in Ordinary, NEW pc, HandlerStep(k, pc),
         item'.deletion = item.deletion, api' = api,
         item'.formal = item.formal \/ item'.formal \notin {"imported", "partial"},
         jobs'[Delete].state = jobs[Delete].state,
         \A p \in Plans : plans[p].state = "live" => plans'[p] = plans[p]
  PROVE  AtomicInv'
<1>1. api'.op = "none" /\ jobs[k].state = "active" /\ run'[Delete] = run[Delete]
  BY OrdinaryKeys, KeysDiffer DEF HandlerStep, Free
<1>2. ImportedHasData'
  BY ImportedStays DEF AtomicInv
<1>. QED
  BY <1>1, <1>2, OrdinaryStep

LEMMA NewPlanKeeps ==
  ASSUME FileInv, NEW by, NewPlan(by) \/ KnownPlan(by)
  PROVE  /\ jobs'[Delete].state = jobs[Delete].state
         /\ \A p \in Plans : plans[p].state = "live" => plans'[p] = plans[p]
BY KeysDiffer DEF NewPlan, KnownPlan

(* A step that leaves the file as it is, and the handler not at work.         *)
LEMMA QuietStep ==
  ASSUME FileInv, AtomicInv, ~Overlap, Free, NEW k \in Keys,
         jobs[k].state = "active", run'[k].pc # "working", jobs'[k].state # "absent",
         \A j \in Keys : j # k => run'[j] = run[j] /\ jobs'[j] = jobs[j],
         UNCHANGED <<item, stored, plans, deletion, batch, api>>
  PROVE  AtomicInv'
<1>1. api'.op = "none"
  BY DEF Free
<1>2. CASE k = Delete
  <2>1. \A j \in Ordinary : jobs'[j] = jobs[j]
    BY <1>2, OrdinaryKeys
  <2>2. jobs[Delete].state = "active" /\ jobs'[Delete].state # "absent"
        /\ run'[Delete].pc # "working"
    BY <1>2
  <2>. QED
    BY <1>1, <2>1, <2>2, DeletionStep
<1>3. CASE k # Delete
  <2>1. jobs'[Delete].state = jobs[Delete].state /\ run'[Delete] = run[Delete]
    BY <1>3, KeysDiffer
  <2>2. k \in Ordinary /\ item'.deletion = item.deletion
    BY <1>3 DEF Ordinary
  <2>3. ImportedHasData'
    BY ImportedStays DEF AtomicInv
  <2>. QED
    BY <1>1, <2>1, <2>2, <2>3, OrdinaryStep
<1>. QED
  BY <1>2, <1>3

LEMMA AtomicStop ==
  ASSUME FileInv, AtomicInv, ~Overlap, NEW k \in Keys, Aborts(k) \/ Dies(k)
  PROVE  AtomicInv'
<1>1. /\ Free /\ jobs[k].state = "active" /\ run'[k].pc \in {"raised", "dead"}
      /\ \A j \in Keys : j # k => run'[j] = run[j]
      /\ UNCHANGED <<item, stored, plans, deletion, jobs, batch, api>>
  BY StopsEffect
<1>. QED
  BY <1>1, QuietStep

LEMMA AtomicWork ==
  ASSUME FileInv, AtomicInv, ~Overlap, Works
  PROVE  AtomicInv'
<1>1. CASE ProfileStored
  <2>1. jobs'[Delete].state = jobs[Delete].state
    BY <1>1, ProfileStoredEffect, KeysDiffer
  <2>. QED
    BY <1>1, <2>1, ProfileStoredEffect, CommitKeepsAtomic, OrdinaryKeys
<1>2. CASE ProfileUnreadable
  BY <1>2, ProfileUnreadableEffect, CommitKeepsAtomic, OrdinaryKeys
<1>3. CASE MatchUnknown
  <2>1. jobs'[Delete].state = jobs[Delete].state
    BY <1>3, MatchUnknownEffect, KeysDiffer
  <2>. QED
    BY <1>3, <2>1, MatchUnknownEffect, CommitKeepsAtomic, OrdinaryKeys
<1>4. CASE MatchKnown
  <2>1. /\ HandlerStep(Match, "returned") /\ item'.deletion = item.deletion /\ api' = api
        /\ NewPlan("match") \/ KnownPlan("match")
        /\ item'.formal = item.formal \/ item'.formal \notin {"imported", "partial"}
    BY <1>4, MatchKnownEffect
  <2>2. /\ jobs'[Delete].state = jobs[Delete].state
        /\ \A p \in Plans : plans[p].state = "live" => plans'[p] = plans[p]
    BY <2>1, NewPlanKeeps
  <2>. QED
    BY <2>1, <2>2, CommitKeepsAtomic, OrdinaryKeys
<1>5. CASE MatchBlocked
  BY <1>5, MatchBlockedEffect, CommitKeepsAtomic, OrdinaryKeys
<1>6. CASE MatchBroken
  BY <1>6, MatchBrokenEffect, CommitKeepsAtomic, OrdinaryKeys
<1>7. CASE Recognized
  <2>1. /\ HandlerStep(Recognize, "returned") /\ item'.deletion = item.deletion /\ api' = api
        /\ NewPlan("provisional") \/ KnownPlan("provisional")
        /\ item'.formal = item.formal \/ item'.formal \notin {"imported", "partial"}
    BY <1>7, RecognizedEffect
  <2>2. /\ jobs'[Delete].state = jobs[Delete].state
        /\ \A p \in Plans : plans[p].state = "live" => plans'[p] = plans[p]
    BY <2>1, NewPlanKeeps
  <2>. QED
    BY <2>1, <2>2, CommitKeepsAtomic, OrdinaryKeys
<1>8. ASSUME NEW p \in Plans, NEW outcome \in {"completed", "partial"}, Materialized(p, outcome)
      PROVE  AtomicInv'
  <2>1. PICK k : k = Materialize(p)
    OBVIOUS
  <2>2. /\ k \in Ordinary /\ HandlerStep(k, "returned")
        /\ item'.deletion = item.deletion /\ api' = api /\ jobs' = jobs
        /\ item'.formal = IF plans'[p].exec = "completed" THEN "imported" ELSE "partial"
        /\ plans'[p].state = "live" /\ plans'[p].exec \in {"completed", "partial"}
    BY <1>8, <2>1, MaterializedEffect
  <2>3. ImportedHasData'
    BY <2>2 DEF ImportedHasData
  <2>4. api'.op = "none" /\ jobs[k].state = "active" /\ run'[Delete] = run[Delete]
    BY <2>2, OrdinaryKeys, KeysDiffer DEF HandlerStep, Free
  <2>. QED
    BY <2>2, <2>3, <2>4, OrdinaryStep
<1>9. CASE Deleted
  <2>1. /\ HandlerStep(Delete, "returned") /\ \A k \in Ordinary : jobs[k].state # "active"
        /\ \A p \in Plans : plans'[p].state # "live" /\ ~plans'[p].records
        /\ deletion' = "completed" /\ "match" \notin stored'
        /\ batch' = Refreshed(item'.formal) /\ jobs' = jobs /\ api' = api
        /\ run[Delete].seen = item =>
             /\ item'.deletion = "deleted" /\ item'.formal = "deleted"
             /\ item'.status = "result_deleted"
    BY <1>9, DeletedEffect
  <2>2. run[Delete].pc = "working" /\ jobs[Delete].state = "active" /\ api'.op = "none"
        /\ run'[Delete].pc = "returned"
    BY <2>1 DEF HandlerStep, Free
  <2>3. run[Delete].seen = item /\ item.deletion # "active"
    BY <2>2 DEF AtomicInv, DeletionIsAlone
  <2>4. \A k \in Ordinary : jobs'[k].state \notin {"waiting", "active"}
    BY <2>1, <2>3 DEF AtomicInv, DeletionIsAlone
  <2>5. /\ item'.deletion = "deleted" /\ item'.formal = "deleted"
        /\ item'.status = "result_deleted" /\ batch' = Refreshed("deleted")
    BY <2>1, <2>3
  <2>6. DeletedIsGone'
    BY <2>1, <2>4, <2>5 DEF DeletedIsGone, Ordinary, Refreshed, One
  <2>7. DeletionIsAlone' /\ ImportedHasData'
    BY <2>2, <2>4, <2>5 DEF DeletionIsAlone, ImportedHasData
  <2>. QED
    BY <2>2, <2>6, <2>7 DEF AtomicInv, RequestIsCurrent
<1>10. CASE DeletedBefore
  <2>1. /\ HandlerStep(Delete, "returned") /\ item' = item
        /\ UNCHANGED <<stored, plans, deletion, jobs, batch, api>>
    BY <1>10, DeletedBeforeEffect
  <2>2. jobs[Delete].state = "active" /\ run'[Delete].pc = "returned" /\ api'.op = "none"
    BY <2>1 DEF HandlerStep, Free
  <2>. QED
    BY <2>1, <2>2, DeletionStep
<1>11. ASSUME NEW k \in Keys, Aborts(k) PROVE AtomicInv'
  BY <1>11, AtomicStop
<1>12. CASE \E p \in Plans, outcome \in {"completed", "partial"} : Materialized(p, outcome)
  BY <1>8, <1>12
<1>13. CASE \E k \in Keys : Aborts(k)
  BY <1>11, <1>13
<1>. QED
  BY Zenon, <1>1, <1>2, <1>3, <1>4, <1>5, <1>6, <1>7, <1>9, <1>10, <1>12, <1>13 DEF Works

(* The job's own steps, which leave the handler's work as it is, short of the *)
(* last failure.                                                              *)
LEMMA AtomicJob ==
  ASSUME FileInv, AtomicInv, ~Overlap, NEW k \in Keys, Begin(k) \/ Succeeds(k) \/ Fails(k)
  PROVE  AtomicInv'
<1>1. CASE Begin(k)
  <2>1. /\ Free /\ api' = api /\ jobs[k].state \in {"waiting", "active"}
        /\ jobs'[k].state = "active"
        /\ \A j \in Keys : j # k => jobs'[j] = jobs[j] /\ run'[j] = run[j]
        /\ UNCHANGED <<stored, plans, deletion, batch>>
        /\ \/ /\ run'[k].pc = "working" /\ run'[k].seen = item'
              /\ item'.deletion = item.deletion
              /\ k = Delete => item' = item
              /\ item'.formal = IF k \in {Profile, Match, Recognize, Delete} THEN item.formal
                                ELSE "materializing"
           \/ run'[k].pc = "raised" /\ item' = item
    BY <1>1, BeginEffect
  <2>2. api'.op = "none"
    BY <2>1 DEF Free
  <2>3. CASE k = Delete
    <3>1. item' = item /\ (run'[Delete].pc = "working" => run'[Delete].seen = item')
      BY <2>1, <2>3
    <3>2. \A j \in Ordinary : jobs'[j] = jobs[j]
      BY <2>1, <2>3, OrdinaryKeys
    <3>. QED
      BY <2>1, <2>2, <2>3, <3>1, <3>2, DeletionStep
  <2>4. CASE k # Delete
    <3>1. k \in Ordinary /\ item'.deletion = item.deletion
      BY <2>1, <2>4 DEF Ordinary
    <3>2. jobs'[Delete].state = jobs[Delete].state /\ run'[Delete] = run[Delete]
      BY <2>1, <2>4, KeysDiffer
    <3>3. ImportedHasData'
      BY <2>1, ImportedStays DEF AtomicInv
    <3>. QED
      BY <2>1, <2>2, <3>1, <3>2, <3>3, OrdinaryStep
  <2>. QED
    BY <2>3, <2>4
<1>2. CASE Succeeds(k)
  <2>1. /\ Free /\ jobs[k].state = "active"
        /\ run'[k].pc = "none" /\ jobs'[k].state = "succeeded"
        /\ \A j \in Keys : j # k => run'[j] = run[j] /\ jobs'[j] = jobs[j]
        /\ UNCHANGED <<item, stored, plans, deletion, batch, api>>
    BY <1>2, SucceedsEffect
  <2>. QED
    BY <2>1, QuietStep
<1>3. CASE Fails(k)
  <2>1. /\ Free /\ jobs[k].state = "active" /\ run'[k].pc = "none"
        /\ \A j \in Keys : j # k => run'[j] = run[j] /\ jobs'[j] = jobs[j]
        /\ \/ jobs'[k].state = "waiting" /\ UNCHANGED <<item, deletion, batch>>
           \/ GivesUp(k)
        /\ UNCHANGED <<stored, plans, api>>
    BY <1>3, FailsEffect
  <2>2. CASE jobs'[k].state = "waiting" /\ UNCHANGED <<item, deletion, batch>>
    BY <2>1, <2>2, QuietStep
  <2>3. CASE GivesUp(k) /\ k # Delete
    <3>1. /\ item'.deletion = item.deletion
          /\ item'.formal = item.formal \/ item'.formal \notin {"imported", "partial"}
      BY <2>3 DEF GivesUp
    <3>2. ImportedHasData' /\ api'.op = "none"
      BY <2>1, <3>1, ImportedStays DEF AtomicInv, Free
    <3>3. k \in Ordinary
      BY <2>3 DEF Ordinary
    <3>4. jobs'[Delete].state = jobs[Delete].state /\ run'[Delete] = run[Delete]
      BY <2>1, <2>3, KeysDiffer
    <3>. QED
      BY <2>1, <3>1, <3>2, <3>3, <3>4, OrdinaryStep
  <2>4. CASE GivesUp(k) /\ k = Delete
    <3>1. item'.deletion = "deletion_failed" /\ item'.formal = item.formal /\ api'.op = "none"
      BY <2>1, <2>4, KeysDiffer DEF GivesUp, Free
    <3>2. item.deletion # "active"
      BY <2>1, <2>4 DEF AtomicInv, DeletionIsAlone
    <3>3. \A j \in Ordinary : jobs'[j].state \notin {"waiting", "active"}
      BY <2>1, <2>4, <3>2, OrdinaryKeys DEF AtomicInv, DeletionIsAlone
    <3>4. DeletionIsAlone' /\ DeletedIsGone'
      BY <2>1, <2>4, <3>1, <3>3 DEF DeletionIsAlone, DeletedIsGone
    <3>5. ImportedHasData'
      BY <2>1, <3>1, ImportedStays DEF AtomicInv
    <3>. QED
      BY <3>1, <3>4, <3>5 DEF AtomicInv, RequestIsCurrent
  <2>. QED
    BY <2>1, <2>2, <2>3, <2>4
<1>. QED
  BY <1>1, <1>2, <1>3

LEMMA AtomicRequest ==
  ASSUME FileInv, AtomicInv, ~Overlap, Request \/ Responds
  PROVE  AtomicInv'
<1>1. CASE RequestDeletion
  <2>1. /\ Free /\ run' = run /\ \A k \in Keys : run[k].pc = "none"
        /\ \A k \in Ordinary : jobs'[k].state \notin {"waiting", "active"}
        /\ item'.deletion = "deletion_pending"
        /\ UNCHANGED <<stored, plans, batch, api>>
    BY <1>1, RequestDeletionEffect
  <2>2. item'.formal = item.formal
    BY <1>1, Rows DEF RequestDeletion, Item
  <2>3. ImportedHasData'
    BY <2>1, <2>2, ImportedStays DEF AtomicInv
  <2>. QED
    BY <2>1, <2>3, KeysDiffer DEF AtomicInv, RequestIsCurrent, DeletionIsAlone, DeletedIsGone, Free
<1>2. CASE RestoreDeleted
  <2>1. /\ run' = run /\ Free /\ NoneActive /\ api' = api
        /\ item'.deletion = "active" /\ item'.formal = "pending"
        /\ \A k \in Keys : jobs'[k].state = IF k = Profile THEN "waiting" ELSE "absent"
    BY <1>2, RestoreDeletedEffect
  <2>2. jobs'[Delete].state = "absent" /\ run'[Delete].pc = "none"
    BY <2>1, KeysDiffer DEF NoneActive, FileInv, JobsAndRuns
  <2>. QED
    BY <2>1, <2>2 DEF AtomicInv, RequestIsCurrent, DeletionIsAlone, DeletedIsGone,
                      ImportedHasData, Free
<1>3. ASSUME NEW op \in {"approve", "accept", "reimport"}, Reads(op) PROVE AtomicInv'
  <2>1. /\ item.deletion = "active"
        /\ api' = [op |-> op, seen |-> item, latest |-> Latest]
        /\ op = "approve" => ~Completed(Latest)
        /\ UNCHANGED <<item, stored, plans, deletion, jobs, run, batch>>
    BY <1>3, ReadsEffect
  <2>2. PICK latest : latest = Latest
    OBVIOUS
  <2>3. Latest' = latest
    BY <2>1, <2>2 DEF Latest
  <2>4. api'.op = "approve" => ~(latest # 0 /\ plans'[latest].exec = "completed")
    BY <2>1, <2>2 DEF Completed
  <2>5. RequestIsCurrent'
    BY <2>1, <2>2, <2>3, <2>4 DEF RequestIsCurrent, Completed
  <2>6. DeletionIsAlone'
    BY <2>1 DEF AtomicInv, DeletionIsAlone
  <2>7. DeletedIsGone' /\ ImportedHasData'
    BY <2>1 DEF AtomicInv, DeletedIsGone, ImportedHasData
  <2>. QED
    BY <2>5, <2>6, <2>7 DEF AtomicInv
<1>4. CASE CommitsApproval
  <2>1. /\ run' = run /\ item'.deletion = item.deletion
        /\ api.op \in {"approve", "accept"} /\ api'.op = "none"
        /\ item'.formal \in {item.formal, "materializing"}
    BY <1>4, CommitsApprovalEffect
  <2>2. PICK by : NewPlan(by)
    BY <1>4, CommitsApprovalEffect
  <2>3. /\ jobs'[Delete].state = jobs[Delete].state
        /\ \A p \in Plans : plans[p].state = "live" => plans'[p] = plans[p]
    BY <2>2, NewPlanKeeps
  <2>4. item.deletion = "active" /\ jobs[Delete].state = "absent"
    BY <2>1 DEF AtomicInv, RequestIsCurrent, DeletionIsAlone
  <2>5. DeletionIsAlone' /\ DeletedIsGone'
    BY <2>1, <2>3, <2>4, NothingDeleted DEF AtomicInv
  <2>6. ImportedHasData'
    BY <2>1, <2>3, ImportedStays DEF AtomicInv
  <2>. QED
    BY <2>1, <2>5, <2>6 DEF AtomicInv, RequestIsCurrent
<1>5. CASE CommitsReimport
  <2>1. /\ run' = run /\ item'.deletion = item.deletion
        /\ api.op = "reimport" /\ api'.op = "none"
        /\ api.seen = item => item'.formal = "pending"
        /\ \A k \in Keys : jobs'[k].state = IF k = Profile THEN "waiting" ELSE "absent"
    BY <1>5, CommitsReimportEffect
  <2>2. item.deletion = "active" /\ jobs'[Delete].state = "absent" /\ item'.formal = "pending"
    BY <2>1, KeysDiffer DEF AtomicInv, RequestIsCurrent
  <2>3. DeletionIsAlone' /\ DeletedIsGone'
    BY <2>1, <2>2, NothingDeleted DEF AtomicInv
  <2>. QED
    BY <2>1, <2>2, <2>3 DEF AtomicInv, RequestIsCurrent, ImportedHasData
<1>6. CASE Refused
  BY <1>6, RefusedEffect
<1>. QED
  BY <1>1, <1>2, <1>3, <1>4, <1>5, <1>6 DEF Request, Responds

LEMMA AtomicStutter ==
  ASSUME AtomicInv, UNCHANGED vars
  PROVE  AtomicInv'
<1>1. /\ item' = item /\ stored' = stored /\ plans' = plans /\ deletion' = deletion
      /\ jobs' = jobs /\ run' = run /\ batch' = batch /\ api' = api
  BY DEF vars
<1>2. RequestIsCurrent'
  BY <1>1 DEF AtomicInv, RequestIsCurrent, Completed, Latest
<1>3. DeletionIsAlone' /\ DeletedIsGone' /\ ImportedHasData'
  BY <1>1 DEF AtomicInv, DeletionIsAlone, DeletedIsGone, ImportedHasData, Refreshed, One
<1>. QED
  BY <1>2, <1>3 DEF AtomicInv

LEMMA AtomicStep ==
  ASSUME FileInv, AtomicInv, ~Overlap, [Next]_vars
  PROVE  AtomicInv'
<1>1. CASE \E k \in Keys : Begin(k) \/ Ends(k) \/ Dies(k)
  BY <1>1, AtomicJob, AtomicStop DEF Ends
<1>2. CASE Works
  BY <1>2, AtomicWork
<1>3. CASE HandsBack
  <2>1. /\ Free /\ jobs[Recognize].state = "active"
        /\ run'[Recognize].pc = "none" /\ jobs'[Recognize].state = "waiting"
        /\ \A j \in Keys : j # Recognize => run'[j] = run[j] /\ jobs'[j] = jobs[j]
        /\ UNCHANGED <<item, stored, plans, deletion, batch, api>>
    BY <1>3, HandsBackEffect
  <2>. QED
    BY <2>1, KeysDiffer, QuietStep
<1>. QED
  BY <1>1, <1>2, <1>3, AtomicRequest, AtomicStutter DEF Next, Worker

LEMMA AtomicAlways == ASSUME ~Overlap PROVE Spec => [](FileInv /\ AtomicInv)
<1>1. Init => FileInv /\ AtomicInv
  BY IngestionFirst DEF IngestionInv
<1>2. FileInv /\ AtomicInv /\ [Next]_vars => (FileInv /\ AtomicInv)'
  BY FileStep, AtomicStep
<1>. QED
  BY <1>1, <1>2, PTL DEF Spec

(* When the requests are single transactions, a deleted build result is gone  *)
(* altogether: delete_build_result leaves no plan to execute, no record and   *)
(* no match, and no job or request brings one back.                           *)
THEOREM DeletionLeavesNothing == ASSUME ~Overlap PROVE Spec => []DeletedIsGone
<1>1. FileInv /\ AtomicInv => DeletedIsGone
  BY DEF AtomicInv
<1>. QED
  BY <1>1, AtomicAlways, PTL

(* When the requests are single transactions, a file says it is imported only *)
(* while the execution of a plan it still has says so.                        *)
THEOREM ImportsHaveData == ASSUME ~Overlap PROVE Spec => []ImportedHasData
<1>1. FileInv /\ AtomicInv => ImportedHasData
  BY DEF AtomicInv
<1>. QED
  BY <1>1, AtomicAlways, PTL

(* When the requests are single transactions, no approval supersedes a        *)
(* completed import, save that of a proposal on a provisional plan: neither a *)
(* match run again, nor a recognition, nor a user's approval.                 *)
THEOREM CompletedImportsAreFinal == ASSUME ~Overlap PROVE Spec => CompletedIsFinal
<1>1. ASSUME FileInv, AtomicInv, [Next]_vars
      PROVE  [\A p \in Plans : plans[p].state = "none" /\ plans'[p].state = "live" =>
                ~Completed(plans'[p].prev) \/ plans'[p].by = "hermes"]_vars
  <2>1. PlansStep
    BY <1>1, FileStep
  <2>. SUFFICES ASSUME NEW p \in Plans, plans[p].state = "none", plans'[p].state = "live"
                PROVE  ~Completed(plans'[p].prev) \/ plans'[p].by = "hermes"
    OBVIOUS
  <2>2. ASSUME NEW by \in {"match", "provisional", "user", "hermes"}, NewPlan(by)
        PROVE  plans'[p].prev = Latest /\ plans'[p].by = by
    BY <2>2, PlanRows, LatestIs DEF NewPlan
  <2>3. api.op = "approve" => ~Completed(Latest)
    BY <1>1 DEF AtomicInv, RequestIsCurrent
  <2>4. Latest = 0 => ~Completed(Latest)
    BY DEF Completed
  <2>. QED
    BY <2>1, <2>2, <2>3, <2>4 DEF PlansStep
<1>. QED
  BY <1>1, AtomicAlways, PTL DEF Spec, CompletedIsFinal

-----------------------------------------------------------------------------
(* Handlers that are not cut short *)

LEMMA NobodyDies ==
  ASSUME MaxDead = 0, NEW k \in Keys
  PROVE  ~Dies(k)
<1>. DEFINE dead == {i \in Keys : run[i].pc = "dead"}
<1>1. IsFiniteSet(Keys)
  <2>1. IsFiniteSet(Plans)
    BY Bounds, FS_Interval DEF Plans
  <2>2. IsFiniteSet({Materialize(p) : p \in Plans})
    <3>1. PICK jobsOf : jobsOf = {Materialize(p) : p \in Plans}
      OBVIOUS
    <3>2. PICK f : f = [p \in Plans |-> Materialize(p)]
      OBVIOUS
    <3>3. f \in Surjection(Plans, jobsOf)
      BY <3>1, <3>2 DEF Surjection
    <3>. QED
      BY <2>1, <3>1, <3>3, FS_Surjection
  <2>3. IsFiniteSet({Profile, Match, Recognize, Delete})
    <3>1. IsFiniteSet({})
      BY FS_EmptySet
    <3>2. IsFiniteSet({} \cup {Profile})
      BY <3>1, FS_AddElement
    <3>3. IsFiniteSet({} \cup {Profile} \cup {Match})
      BY <3>2, FS_AddElement
    <3>4. IsFiniteSet({} \cup {Profile} \cup {Match} \cup {Recognize})
      BY <3>3, FS_AddElement
    <3>5. IsFiniteSet({} \cup {Profile} \cup {Match} \cup {Recognize} \cup {Delete})
      BY <3>4, FS_AddElement
    <3>6. {} \cup {Profile} \cup {Match} \cup {Recognize} \cup {Delete}
            = {Profile, Match, Recognize, Delete}
      OBVIOUS
    <3>. QED
      BY <3>5, <3>6
  <2>. QED
    BY <2>2, <2>3, FS_Union DEF Keys
<1>2. IsFiniteSet(dead)
  BY <1>1, FS_Subset
<1>3. Cardinality(dead) \in Nat
  BY <1>2, FS_CardinalityType
<1>4. ~(Cardinality(dead) < MaxDead)
  BY <1>3
<1>. QED
  BY <1>4 DEF Dies

(* What the step of one job leaves of the others.                             *)
LEMMA OthersStay ==
  ASSUME FileInv, NEW k \in Keys, \A j \in Keys : j # k => run'[j] = run[j],
         \A j \in Keys : j # k => jobs'[j].state = jobs[j].state \/ jobs[j].state = "absent"
  PROVE  /\ \A j \in Keys : j # k /\ Unfinished(j) => Unfinished(j)'
         /\ \A j \in Keys : j # k /\ Done(j) => Done(j)'
         /\ Unfinished(k) \/ Done(k)' => \A j \in Keys : Done(j) => Done(j)'
<1>1. \A j \in Keys : jobs[j].state = "absent" => run[j].pc = "none"
  BY DEF FileInv, JobsAndRuns
<1>2. ASSUME NEW j \in Keys, j # k PROVE /\ Unfinished(j) => Unfinished(j)'
                                         /\ Done(j) => Done(j)'
  BY <1>1, <1>2 DEF Unfinished, Done
<1>. QED
  BY <1>2 DEF Done

LEMMA OneAfterHolds ==
  ASSUME OneAfterAnother, \A k \in Keys : Done(k) => Done(k)',
         jobs'[Match].state # "absent" => jobs[Match].state # "absent" \/ Done(Profile)',
         jobs'[Recognize].state # "absent" => jobs[Recognize].state # "absent" \/ Done(Match)',
         \A p \in Plans : plans'[p].state \in {"live", "retired"} =>
           \/ plans[p].state \in {"live", "retired"} /\ plans'[p].by = plans[p].by
           \/ /\ plans'[p].by = "match" => Done(Match)'
              /\ plans'[p].by = "provisional" => Done(Recognize)',
         run'[Profile].pc = "stale" => item'.status \notin {"pending", "profiling"},
         run'[Match].pc = "stale" => item'.status # "matching"
  PROVE  OneAfterAnother'
<1>1. jobs'[Match].state # "absent" => Done(Profile)'
  BY KeysDiffer DEF OneAfterAnother
<1>2. jobs'[Recognize].state # "absent" => Done(Match)'
  BY KeysDiffer DEF OneAfterAnother
<1>3. \A p \in Plans : plans'[p].state \in {"live", "retired"} =>
        /\ plans'[p].by = "match" => Done(Match)'
        /\ plans'[p].by = "provisional" => Done(Recognize)'
  BY KeysDiffer DEF OneAfterAnother
<1>. QED
  BY <1>1, <1>2, <1>3 DEF OneAfterAnother

(* A step that leaves the file and its plans as they are.                     *)
LEMMA QuietMoves ==
  ASSUME FileInv, RestInv, NEW k \in Keys, jobs[k].state # "absent",
         \A j \in Keys : j # k => run'[j] = run[j] /\ jobs'[j] = jobs[j],
         Unfinished(k) => Unfinished(k)', Done(k) => Done(k)',
         run'[k].pc \notin {"stale", "dead"}, UNCHANGED <<item, plans, batch>>
  PROVE  RestInv'
<1>1. /\ \A j \in Keys : Unfinished(j) => Unfinished(j)'
      /\ \A j \in Keys : Done(j) => Done(j)'
  BY OthersStay
<1>2. OneAfterAnother'
  <2>1. /\ jobs'[Match].state # "absent" => jobs[Match].state # "absent"
        /\ jobs'[Recognize].state # "absent" => jobs[Recognize].state # "absent"
    BY KeysDiffer
  <2>2. /\ run'[Profile].pc = "stale" => run[Profile].pc = "stale"
        /\ run'[Match].pc = "stale" => run[Match].pc = "stale"
    BY KeysDiffer
  <2>. QED
    BY <1>1, <2>1, <2>2, OneAfterHolds DEF RestInv, OneAfterAnother
<1>3. MovesOn'
  <2>1. ASSUME item.deletion = "active"
        PROVE  /\ item.status \in {"pending", "profiling"} => Unfinished(Profile)'
               /\ item.status = "matching" => Unfinished(Match)'
               /\ item.status = "recognizing" => Unfinished(Recognize)'
               /\ item.status # "result_deleted"
    BY <1>1, <2>1, KeysDiffer DEF RestInv, MovesOn
  <2>2. ASSUME item.deletion = "active",
               item.status = "materializing" \/ item.formal = "materializing"
        PROVE  \E p \in Plans : Unfinished(Materialize(p))'
    BY <1>1, <2>2, KeysDiffer DEF RestInv, MovesOn
  <2>3. item.deletion = "active" =>
          batch' = Refreshed(item'.formal) \/ item.formal = "materializing"
          \/ Unfinished(Profile)'
    BY <1>1, KeysDiffer DEF RestInv, MovesOn, Refreshed, One
  <2>. QED
    BY <2>1, <2>2, <2>3 DEF MovesOn
<1>4. NoneIsDead'
  BY DEF RestInv, NoneIsDead
<1>. QED
  BY <1>2, <1>3, <1>4 DEF RestInv

(* The last transaction of a handler, which names the status it leaves.       *)
LEMMA CommitMoves ==
  ASSUME FileInv, RestInv, NEW k \in Ordinary, item.deletion = "active",
         NEW pc \in {"returned", "stale"}, HandlerStep(k, pc), jobs'[k].state = "active",
         \A j \in Keys : j # k => jobs'[j].state = jobs[j].state \/ jobs[j].state = "absent",
         batch' = Refreshed(item'.formal),
         item'.status \notin {"pending", "profiling", "result_deleted"},
         item'.status = "matching" => Unfinished(Match)',
         item'.status = "recognizing" => Unfinished(Recognize)',
         item'.status = "materializing" => \E p \in Plans : Unfinished(Materialize(p))',
         item'.formal = "materializing" =>
           \/ item.formal = "materializing" /\ k \in {Profile, Match, Recognize}
           \/ item'.status = "materializing"
  PROVE  /\ MovesOn' /\ NoneIsDead' /\ \A j \in Keys : Done(j) => Done(j)'
         /\ pc = "returned" => Done(k)'
         /\ run'[k].pc = pc /\ \A j \in Keys : j # k => run'[j] = run[j]
<1>1. /\ run[k].pc = "working" /\ run'[k].pc = pc /\ \A j \in Keys : j # k => run'[j] = run[j]
      /\ k \in Keys
  BY OrdinaryKeys DEF HandlerStep
<1>2. /\ \A j \in Keys : j # k /\ Unfinished(j) => Unfinished(j)'
      /\ Unfinished(k) \/ Done(k)' => \A j \in Keys : Done(j) => Done(j)'
  BY <1>1, OthersStay
<1>3. Unfinished(k)
  BY <1>1 DEF Unfinished
<1>4. pc = "returned" => Done(k)'
  BY <1>1 DEF Done, Unfinished
<1>5. ASSUME item'.formal = "materializing" PROVE \E p \in Plans : Unfinished(Materialize(p))'
  <2>1. CASE item'.status = "materializing"
    BY <2>1
  <2>2. CASE item'.status # "materializing"
    <3>1. item.formal = "materializing" /\ k \in {Profile, Match, Recognize}
      BY <1>5, <2>2
    <3>2. PICK p \in Plans : Unfinished(Materialize(p))
      BY <3>1 DEF RestInv, MovesOn
    <3>3. Materialize(p) # k /\ Materialize(p) \in Keys
      BY <3>1, KeysDiffer
    <3>. QED
      BY <1>2, <3>2, <3>3
  <2>. QED
    BY <2>1, <2>2
<1>6. MovesOn'
  BY <1>5 DEF MovesOn
<1>7. NoneIsDead'
  BY <1>1 DEF RestInv, NoneIsDead
<1>. QED
  BY <1>1, <1>2, <1>3, <1>4, <1>6, <1>7

(* A handler of an ordinary job runs only while the build result is active.   *)
LEMMA OrdinaryActive ==
  ASSUME AtomicInv, NEW k \in Ordinary, jobs[k].state \in {"waiting", "active"}
  PROVE  item.deletion = "active"
BY DEF AtomicInv, DeletionIsAlone

LEMMA RestProfileStored ==
  ASSUME FileInv, AtomicInv, RestInv, ProfileStored
  PROVE  RestInv'
<1>1. /\ HandlerStep(Profile, "returned") /\ plans' = plans
      /\ item'.formal = item.formal
      /\ item'.status = "matching" /\ batch' = Refreshed(item'.formal)
      /\ \A j \in Keys : jobs'[j].state = IF j = Match /\ jobs[j].state = "absent"
                                          THEN "waiting" ELSE jobs[j].state
  BY ProfileStoredEffect
<1>2. run[Profile].pc = "working" /\ jobs[Profile].state = "active"
      /\ item.deletion = "active"
  BY <1>1, OrdinaryKeys, OrdinaryActive DEF HandlerStep
<1>3. ~Done(Profile)
  BY <1>2 DEF Done, Unfinished
<1>4. jobs[Match].state = "absent" /\ jobs[Recognize].state = "absent"
  BY <1>3 DEF RestInv, OneAfterAnother, Done
<1>5. jobs'[Match].state = "waiting" /\ jobs'[Profile].state = "active"
      /\ jobs'[Recognize].state = "absent"
  BY <1>1, <1>2, <1>4, KeysDiffer
<1>6. Unfinished(Match)'
  BY <1>5 DEF Unfinished
<1>7. /\ MovesOn' /\ NoneIsDead' /\ \A j \in Keys : Done(j) => Done(j)'
      /\ Done(Profile)' /\ run'[Profile].pc = "returned"
      /\ \A j \in Keys : j # Profile => run'[j] = run[j]
  <2>1. \A j \in Keys : j # Profile => jobs'[j].state = jobs[j].state \/ jobs[j].state = "absent"
    BY <1>1
  <2>. QED
    BY <1>1, <1>2, <1>5, <1>6, <2>1, OrdinaryKeys, CommitMoves
<1>8. run'[Match].pc # "stale"
  BY <1>4, <1>7, KeysDiffer DEF FileInv, JobsAndRuns
<1>9. OneAfterAnother'
  BY <1>1, <1>5, <1>7, <1>8, OneAfterHolds DEF RestInv
<1>. QED
  BY <1>7, <1>9 DEF RestInv

(* A handler that commits its failure goes on to fail.                        *)
LEMMA RestFailure ==
  ASSUME FileInv, AtomicInv, RestInv, NEW k \in {Profile, Match}, HandlerStep(k, "stale"),
         item'.status = "failed", item'.formal \in {item.formal, "failed"},
         batch' = Refreshed(item'.formal), UNCHANGED <<plans, jobs>>
  PROVE  RestInv'
<1>1. /\ k \in Ordinary /\ k \in {Profile, Match, Recognize} /\ jobs[k].state = "active"
      /\ item.deletion = "active"
  BY OrdinaryKeys, OrdinaryActive DEF HandlerStep
<1>2. MovesOn' /\ NoneIsDead' /\ \A j \in Keys : Done(j) => Done(j)'
  BY <1>1, CommitMoves
<1>3. OneAfterAnother'
  BY <1>2, OneAfterHolds DEF RestInv
<1>. QED
  BY <1>2, <1>3 DEF RestInv

LEMMA RestMatchUnknown ==
  ASSUME FileInv, AtomicInv, RestInv, MatchUnknown
  PROVE  RestInv'
<1>1. /\ HandlerStep(Match, "returned") /\ plans' = plans
      /\ item'.status = "recognizing" /\ item'.formal \in {item.formal, "needs_review"}
      /\ batch' = Refreshed(item'.formal)
      /\ \A j \in Keys : jobs'[j].state = IF j = Recognize /\ jobs[j].state = "absent"
                                          THEN "waiting" ELSE jobs[j].state
  BY MatchUnknownEffect
<1>2. run[Match].pc = "working" /\ jobs[Match].state = "active" /\ item.deletion = "active"
  BY <1>1, OrdinaryKeys, OrdinaryActive DEF HandlerStep
<1>3. ~Done(Match)
  BY <1>2 DEF Done, Unfinished
<1>4. jobs[Recognize].state = "absent"
  BY <1>3 DEF RestInv, OneAfterAnother
<1>5. jobs'[Match].state = "active" /\ jobs'[Recognize].state = "waiting"
  BY <1>1, <1>2, <1>4, KeysDiffer
<1>6. Unfinished(Recognize)'
  BY <1>5 DEF Unfinished
<1>7. /\ MovesOn' /\ NoneIsDead' /\ \A j \in Keys : Done(j) => Done(j)'
      /\ Done(Match)' /\ run'[Match].pc = "returned"
      /\ \A j \in Keys : j # Match => run'[j] = run[j]
  <2>1. \A j \in Keys : j # Match => jobs'[j].state = jobs[j].state \/ jobs[j].state = "absent"
    BY <1>1
  <2>. QED
    BY <1>1, <1>2, <1>5, <1>6, <2>1, OrdinaryKeys, CommitMoves
<1>9. OneAfterAnother'
  BY <1>1, <1>2, <1>5, <1>7, OneAfterHolds DEF RestInv
<1>. QED
  BY <1>7, <1>9 DEF RestInv

LEMMA RestMatchBlocked ==
  ASSUME FileInv, AtomicInv, RestInv, MatchBlocked
  PROVE  RestInv'
<1>1. /\ HandlerStep(Match, "returned") /\ plans' = plans /\ jobs' = jobs
      /\ item'.status = "needs_review" /\ item'.formal \in {item.formal, "needs_review"}
      /\ batch' = Refreshed(item'.formal)
  BY MatchBlockedEffect
<1>2. jobs[Match].state = "active" /\ item.deletion = "active"
  BY <1>1, OrdinaryKeys, OrdinaryActive DEF HandlerStep
<1>3. MovesOn' /\ NoneIsDead' /\ \A j \in Keys : Done(j) => Done(j)'
  BY <1>1, <1>2, OrdinaryKeys, CommitMoves
<1>4. OneAfterAnother'
  BY <1>1, <1>3, OneAfterHolds DEF RestInv
<1>. QED
  BY <1>3, <1>4 DEF RestInv

(* The plan a handler makes of its own decision is a new one: an older one of *)
(* the same origin would say that the handler had finished before.            *)
LEMMA RestDecision ==
  ASSUME FileInv, AtomicInv, RestInv,
         NEW k, NEW by, <<k, by>> \in {<<Match, "match">>, <<Recognize, "provisional">>},
         HandlerStep(k, "returned"), batch' = Refreshed(item'.formal),
         \/ /\ NewPlan(by) /\ item'.status = "materializing"
            /\ item'.formal \in {item.formal, "materializing"}
         \/ KnownPlan(by)
  PROVE  RestInv'
<1>1. k \in Ordinary /\ k \in {Profile, Match, Recognize} /\ k \in Keys
  BY OrdinaryKeys
<1>2. run[k].pc = "working" /\ jobs[k].state = "active" /\ item.deletion = "active"
  BY <1>1, OrdinaryActive DEF HandlerStep
<1>3. ~Done(k)
  BY <1>2 DEF Done, Unfinished
<1>4. ~KnownPlan(by)
  BY <1>3 DEF KnownPlan, RestInv, OneAfterAnother
<1>5. PICK n : n = NextPlan
  OBVIOUS
<1>6. /\ n \in Plans /\ plans[n].state = "none" /\ item'.status = "materializing"
      /\ \A p \in Plans : p # n => plans'[p] = plans[p]
      /\ plans'[n].by = by
      /\ \A j \in Keys : jobs'[j].state = IF j = Materialize(n) THEN "waiting"
                                          ELSE jobs[j].state
  <2>1. /\ n \in Plans /\ plans[n].state = "none" /\ item'.status = "materializing"
        /\ \A p \in Plans : plans'[p] = IF p = n THEN PlanRow("live", by, Latest) ELSE plans[p]
        /\ \A j \in Keys : jobs'[j].state = IF j = Materialize(n) THEN "waiting"
                                            ELSE jobs[j].state
    BY <1>4, <1>5 DEF NewPlan
  <2>2. plans'[n].by = by
    BY <2>1, PlanRows, LatestIs
  <2>. QED
    BY <2>1, <2>2
<1>7. jobs[Materialize(n)].state = "absent"
  BY <1>6 DEF FileInv, PlansAndJobs
<1>8. Unfinished(Materialize(n))' /\ jobs'[k].state = "active"
  BY <1>1, <1>2, <1>6, KeysDiffer DEF Unfinished
<1>9. /\ MovesOn' /\ NoneIsDead' /\ \A j \in Keys : Done(j) => Done(j)'
      /\ Done(k)' /\ run'[k].pc = "returned"
      /\ \A j \in Keys : j # k => run'[j] = run[j]
  <2>1. \A j \in Keys : j # k => jobs'[j].state = jobs[j].state \/ jobs[j].state = "absent"
    BY <1>6, <1>7
  <2>2. item'.status = "materializing" => \E p \in Plans : Unfinished(Materialize(p))'
    BY <1>6, <1>8
  <2>. QED
    BY <1>1, <1>2, <1>6, <1>8, <2>1, <2>2, CommitMoves
<1>10. OneAfterAnother'
  <2>1. /\ jobs'[Match].state = jobs[Match].state
        /\ jobs'[Recognize].state = jobs[Recognize].state
    BY <1>6, KeysDiffer
  <2>2. \A p \in Plans : plans'[p].state \in {"live", "retired"} =>
           \/ plans[p].state \in {"live", "retired"} /\ plans'[p].by = plans[p].by
           \/ /\ plans'[p].by = "match" => Done(Match)'
              /\ plans'[p].by = "provisional" => Done(Recognize)'
    <3>1. /\ by = "match" => k = Match
          /\ by = "provisional" => k = Recognize
      BY KeysDiffer
    <3>2. /\ plans'[n].by = "match" => Done(Match)'
          /\ plans'[n].by = "provisional" => Done(Recognize)'
      BY <1>6, <1>9, <3>1
    <3>. QED
      BY <1>6, <3>2
  <2>3. item'.status \notin {"pending", "profiling", "matching"}
    BY <1>6
  <2>. QED
    BY <1>9, <2>1, <2>2, <2>3, OneAfterHolds DEF RestInv
<1>. QED
  BY <1>9, <1>10 DEF RestInv

LEMMA RestMaterialized ==
  ASSUME FileInv, AtomicInv, RestInv, NEW p \in Plans, NEW outcome \in {"completed", "partial"},
         Materialized(p, outcome)
  PROVE  RestInv'
<1>1. PICK k : k = Materialize(p)
  OBVIOUS
<1>2. /\ k \in Ordinary /\ HandlerStep(k, "returned") /\ item'.status = "imported"
      /\ item'.formal = IF plans'[p].exec = "completed" THEN "imported" ELSE "partial"
      /\ \A q \in Plans : plans'[q].state = plans[q].state /\ plans'[q].by = plans[q].by
      /\ batch' = Refreshed(item'.formal) /\ jobs' = jobs
  BY <1>1, MaterializedEffect
<1>3. jobs[k].state = "active" /\ item.deletion = "active"
  BY <1>2, OrdinaryActive DEF HandlerStep
<1>4. MovesOn' /\ NoneIsDead' /\ \A j \in Keys : Done(j) => Done(j)'
  BY <1>2, <1>3, CommitMoves
<1>5. OneAfterAnother'
  BY <1>2, <1>4, OneAfterHolds DEF RestInv
<1>. QED
  BY <1>4, <1>5 DEF RestInv

LEMMA RestDeleted ==
  ASSUME FileInv, AtomicInv, RestInv, Deleted
  PROVE  RestInv'
<1>1. /\ HandlerStep(Delete, "returned")
      /\ \A p \in Plans : /\ plans'[p].by = plans[p].by
                          /\ plans'[p].state \in {"live", "retired"} =>
                               plans[p].state \in {"live", "retired"}
      /\ jobs' = jobs
      /\ run[Delete].seen = item =>
           item'.deletion = "deleted" /\ item'.status = "result_deleted"
  BY DeletedEffect
<1>2. /\ run[Delete].pc = "working" /\ run'[Delete].pc = "returned"
      /\ jobs[Delete].state = "active" /\ \A j \in Keys : j # Delete => run'[j] = run[j]
  BY <1>1 DEF HandlerStep
<1>3. item'.deletion = "deleted" /\ item'.status = "result_deleted"
  BY <1>1, <1>2 DEF AtomicInv, DeletionIsAlone
<1>4. \A j \in Keys : Done(j) => Done(j)'
  <2>1. Unfinished(Delete)
    BY <1>2 DEF Unfinished
  <2>. QED
    BY <1>1, <1>2, <2>1, KeysDiffer, OthersStay
<1>5. OneAfterAnother'
  BY <1>1, <1>3, <1>4, OneAfterHolds DEF RestInv
<1>6. MovesOn' /\ NoneIsDead'
  BY <1>2, <1>3 DEF MovesOn, RestInv, NoneIsDead
<1>. QED
  BY <1>5, <1>6 DEF RestInv

LEMMA RestDeletedBefore ==
  ASSUME FileInv, AtomicInv, RestInv, DeletedBefore
  PROVE  RestInv'
<1>1. /\ HandlerStep(Delete, "returned") /\ UNCHANGED <<item, plans, jobs, batch>>
  BY DeletedBeforeEffect
<1>2. /\ run[Delete].pc = "working" /\ run'[Delete].pc = "returned"
      /\ jobs[Delete].state = "active" /\ \A j \in Keys : j # Delete => run'[j] = run[j]
  BY <1>1 DEF HandlerStep
<1>3. \A j \in Keys : Done(j) => Done(j)'
  <2>1. Unfinished(Delete)
    BY <1>2 DEF Unfinished
  <2>. QED
    BY <1>1, <1>2, <2>1, KeysDiffer, OthersStay
<1>4. item.deletion # "active"
  BY <1>2 DEF AtomicInv, DeletionIsAlone
<1>5. MovesOn' /\ NoneIsDead'
  BY <1>1, <1>2, <1>4 DEF MovesOn, RestInv, NoneIsDead
<1>6. run'[Profile] = run[Profile] /\ run'[Match] = run[Match]
  BY <1>2, KeysDiffer
<1>7. OneAfterAnother'
  BY <1>1, <1>3, <1>6, OneAfterHolds DEF RestInv, OneAfterAnother
<1>. QED
  BY <1>5, <1>7 DEF RestInv

LEMMA RestAborts ==
  ASSUME FileInv, RestInv, NEW k \in Keys, Aborts(k)
  PROVE  RestInv'
<1>1. /\ run[k].pc = "working" /\ jobs[k].state = "active" /\ run'[k].pc \in {"raised", "dead"}
      /\ \A j \in Keys : j # k => run'[j] = run[j]
      /\ UNCHANGED <<item, plans, jobs, batch>>
  BY StopsEffect
<1>2. run'[k].pc = "raised"
  BY Rows DEF Aborts, At
<1>3. (Unfinished(k) => Unfinished(k)') /\ (Done(k) => Done(k)')
  BY <1>1, <1>2 DEF Unfinished, Done
<1>. QED
  BY <1>1, <1>2, <1>3, QuietMoves

LEMMA RestWork ==
  ASSUME FileInv, AtomicInv, RestInv, Works
  PROVE  RestInv'
<1>1. CASE ProfileStored
  BY <1>1, RestProfileStored
<1>2. CASE ProfileUnreadable
  BY <1>2, ProfileUnreadableEffect, RestFailure
<1>3. CASE MatchUnknown
  BY <1>3, RestMatchUnknown
<1>4. CASE MatchKnown
  <2>1. /\ HandlerStep(Match, "returned") /\ batch' = Refreshed(item'.formal)
        /\ \/ /\ NewPlan("match") /\ item'.status = "materializing"
              /\ item'.formal \in {item.formal, "materializing"}
           \/ KnownPlan("match")
    BY <1>4, MatchKnownEffect
  <2>. QED
    BY <2>1, RestDecision
<1>5. CASE MatchBlocked
  BY <1>5, RestMatchBlocked
<1>6. CASE MatchBroken
  BY <1>6, MatchBrokenEffect, RestFailure
<1>7. CASE Recognized
  <2>1. /\ HandlerStep(Recognize, "returned") /\ batch' = Refreshed(item'.formal)
        /\ \/ /\ NewPlan("provisional") /\ item'.status = "materializing"
              /\ item'.formal \in {item.formal, "materializing"}
           \/ KnownPlan("provisional")
    BY <1>7, RecognizedEffect
  <2>. QED
    BY <2>1, RestDecision
<1>8. CASE \E p \in Plans, outcome \in {"completed", "partial"} : Materialized(p, outcome)
  BY <1>8, RestMaterialized
<1>9. CASE Deleted
  BY <1>9, RestDeleted
<1>10. CASE DeletedBefore
  BY <1>10, RestDeletedBefore
<1>11. CASE \E k \in Keys : Aborts(k)
  BY <1>11, RestAborts
<1>. QED
  BY Zenon, <1>1, <1>2, <1>3, <1>4, <1>5, <1>6, <1>7, <1>8, <1>9, <1>10, <1>11 DEF Works

LEMMA RestBegin ==
  ASSUME FileInv, AtomicInv, RestInv, NEW k \in Keys, Begin(k)
  PROVE  RestInv'
<1>1. /\ jobs[k].state \in {"waiting", "active"} /\ jobs'[k].state = "active"
      /\ jobs[k].state = "waiting" \/ run[k].pc = "dead"
      /\ \A j \in Keys : j # k => jobs'[j] = jobs[j] /\ run'[j] = run[j]
      /\ \/ /\ run'[k].pc = "working" /\ item'.deletion = item.deletion
            /\ k \in Ordinary => item'.status = WorksUnder(k)
            /\ k = Delete => item' = item
            /\ item'.formal = IF k \in {Profile, Match, Recognize, Delete} THEN item.formal
                              ELSE "materializing"
         \/ run'[k].pc = "raised" /\ item' = item
      /\ UNCHANGED <<plans, batch>>
  BY BeginEffect
<1>2. Unfinished(k) /\ Unfinished(k)' /\ ~Done(k) /\ run'[k].pc \in {"working", "raised"}
  BY <1>1 DEF Unfinished, Done
<1>3. CASE item' = item
  BY <1>1, <1>2, <1>3, QuietMoves
<1>4. CASE item' # item
  <2>1. /\ k \in Ordinary /\ item'.deletion = item.deletion
        /\ item'.status = WorksUnder(k)
        /\ item'.formal = IF k \in {Profile, Match, Recognize} THEN item.formal
                          ELSE "materializing"
    BY <1>1, <1>4 DEF Ordinary
  <2>2. item.deletion = "active"
    BY <1>1, <2>1, OrdinaryActive
  <2>3. /\ \A j \in Keys : Unfinished(j) => Unfinished(j)'
        /\ \A j \in Keys : Done(j) => Done(j)'
    BY <1>1, <1>2, OthersStay
  <2>4. /\ item'.status = "profiling" => k = Profile
        /\ item'.status = "matching" => k = Match
        /\ item'.status = "recognizing" => k = Recognize
        /\ item'.status \in {"profiling", "matching", "recognizing", "materializing"}
        /\ item'.status = "materializing" => k \notin {Profile, Match, Recognize}
    BY <2>1, WorksUnderIs, KeysDiffer
  <2>5. k \notin {Profile, Match, Recognize} => \E p \in Plans : Unfinished(Materialize(p))'
    <3>1. k \notin {Profile, Match, Recognize} => \E p \in Plans : k = Materialize(p)
      BY <2>1, KeysDiffer, OrdinaryKeys
    <3>. QED
      BY <1>2, <3>1
  <2>6. item'.status = "materializing" \/ item'.formal = "materializing" =>
          \E p \in Plans : Unfinished(Materialize(p))'
    <3>1. CASE k \in {Profile, Match, Recognize}
      <4>1. item'.status # "materializing" /\ item'.formal = item.formal
        BY <2>1, <2>4, <3>1
      <4>2. item.formal = "materializing" => \E p \in Plans : Unfinished(Materialize(p))
        BY <2>2 DEF RestInv, MovesOn
      <4>. QED
        BY <2>3, <4>1, <4>2, KeysDiffer
    <3>2. CASE k \notin {Profile, Match, Recognize}
      BY <2>5, <3>2
    <3>. QED
      BY <3>1, <3>2
  <2>7. batch' = Refreshed(item'.formal) \/ item'.formal = "materializing"
        \/ Unfinished(Profile)'
    <3>1. CASE k \in {Profile, Match, Recognize}
      <4>1. item'.formal = item.formal
        BY <2>1, <3>1
      <4>2. batch = Refreshed(item.formal) \/ item.formal = "materializing"
            \/ Unfinished(Profile)
        BY <2>2 DEF RestInv, MovesOn
      <4>. QED
        BY <1>1, <2>3, <4>1, <4>2, KeysDiffer DEF Refreshed, One
    <3>2. CASE k \notin {Profile, Match, Recognize}
      BY <2>1, <3>2
    <3>. QED
      BY <3>1, <3>2
  <2>8. MovesOn'
    BY <1>2, <2>4, <2>6, <2>7 DEF MovesOn
  <2>9. OneAfterAnother'
    <3>1. /\ jobs'[Match].state # "absent" => jobs[Match].state # "absent"
          /\ jobs'[Recognize].state # "absent" => jobs[Recognize].state # "absent"
      BY <1>1, KeysDiffer
    <3>2. /\ run'[Profile].pc = "stale" => k # Profile
          /\ run'[Match].pc = "stale" => k # Match
      BY <1>2
    <3>. QED
      BY <1>1, <2>3, <2>4, <3>1, <3>2, OneAfterHolds DEF RestInv
  <2>10. NoneIsDead'
    BY <1>1, <1>2 DEF RestInv, NoneIsDead
  <2>. QED
    BY <2>8, <2>9, <2>10 DEF RestInv
<1>. QED
  BY <1>3, <1>4

(* The last failure of a job leaves the file where a user can act on it.      *)
LEMMA RestGivesUp ==
  ASSUME FileInv, AtomicInv, RestInv, NEW k \in Keys, jobs[k].state = "active",
         run[k].pc \in {"raised", "stale"}, run'[k].pc = "none", GivesUp(k), plans' = plans,
         \A j \in Keys : j # k => run'[j] = run[j] /\ jobs'[j] = jobs[j]
  PROVE  RestInv'
<1>1. jobs'[k].state = "failed" /\ Unfinished(k) /\ Done(k)'
  BY DEF GivesUp, Unfinished, Done
<1>2. /\ \A j \in Keys : j # k /\ Unfinished(j) => Unfinished(j)'
      /\ \A j \in Keys : Done(j) => Done(j)'
  BY <1>1, OthersStay
<1>3. NoneIsDead'
  BY DEF RestInv, NoneIsDead
<1>4. /\ jobs'[Match].state # "absent" => jobs[Match].state # "absent"
      /\ jobs'[Recognize].state # "absent" => jobs[Recognize].state # "absent"
  BY KeysDiffer
<1>5. /\ run'[Profile].pc = "stale" => run[Profile].pc = "stale"
      /\ run'[Match].pc = "stale" => run[Match].pc = "stale"
  BY KeysDiffer
<1>6. CASE k = Delete
  <2>1. item'.deletion = "deletion_failed" /\ item'.status = item.status
    BY <1>6, KeysDiffer DEF GivesUp
  <2>2. OneAfterAnother'
    BY <1>2, <1>4, <1>5, <2>1, OneAfterHolds DEF RestInv, OneAfterAnother
  <2>3. MovesOn'
    BY <2>1 DEF MovesOn
  <2>. QED
    BY <1>3, <2>2, <2>3 DEF RestInv
<1>7. CASE k # Delete /\ run[k].pc = "stale"
  <2>1. /\ k \in {Profile, Match} /\ item' = item /\ batch' = Refreshed(item'.formal)
        /\ k \in Ordinary
    BY <1>7, KeysDiffer DEF GivesUp, Ordinary
  <2>2. item.deletion = "active"
    BY <2>1, OrdinaryActive
  <2>3. OneAfterAnother'
    BY <1>2, <1>4, <1>5, <2>1, OneAfterHolds DEF RestInv, OneAfterAnother
  <2>4. /\ k = Profile => item.status \notin {"pending", "profiling"}
        /\ k = Match => item.status # "matching"
    BY <1>7 DEF RestInv, OneAfterAnother
  <2>5. /\ item.status \in {"pending", "profiling"} => Unfinished(Profile)'
        /\ item.status = "matching" => Unfinished(Match)'
        /\ item.status = "recognizing" => Unfinished(Recognize)'
        /\ item.status # "result_deleted"
    BY <1>2, <2>1, <2>2, <2>4, KeysDiffer DEF RestInv, MovesOn
  <2>6. item.status = "materializing" \/ item.formal = "materializing" =>
          \E p \in Plans : Unfinished(Materialize(p))'
    <3>1. item.status = "materializing" \/ item.formal = "materializing" =>
            \E p \in Plans : Unfinished(Materialize(p))
      BY <2>2 DEF RestInv, MovesOn
    <3>2. \A p \in Plans : Materialize(p) \in Keys /\ Materialize(p) # k
      BY <2>1, KeysDiffer
    <3>. QED
      BY <1>2, <3>1, <3>2
  <2>7. MovesOn'
    BY <2>1, <2>5, <2>6 DEF MovesOn
  <2>. QED
    BY <1>3, <2>3, <2>7 DEF RestInv
<1>8. CASE k # Delete /\ run[k].pc = "raised"
  <2>1. /\ item'.status \in {"needs_review", "failed"}
        /\ item'.formal \in {"needs_review", "failed"}
        /\ batch' = Refreshed(item'.formal)
    BY <1>8, KeysDiffer DEF GivesUp
  <2>2. OneAfterAnother'
    BY <1>2, <1>4, <2>1, OneAfterHolds DEF RestInv
  <2>3. MovesOn'
    BY <2>1 DEF MovesOn
  <2>. QED
    BY <1>3, <2>2, <2>3 DEF RestInv
<1>. QED
  BY <1>6, <1>7, <1>8

LEMMA RestFails ==
  ASSUME FileInv, AtomicInv, RestInv, NEW k \in Keys, Fails(k)
  PROVE  RestInv'
<1>1. /\ run[k].pc \in {"raised", "stale"} /\ jobs[k].state = "active" /\ run'[k].pc = "none"
      /\ \A j \in Keys : j # k => run'[j] = run[j] /\ jobs'[j] = jobs[j]
      /\ \/ jobs'[k].state = "waiting" /\ UNCHANGED <<item, batch>>
         \/ GivesUp(k)
      /\ plans' = plans
  BY FailsEffect
<1>2. CASE jobs'[k].state = "waiting" /\ UNCHANGED <<item, batch>>
  <2>1. Unfinished(k)' /\ ~Done(k)
    BY <1>1, <1>2 DEF Unfinished, Done
  <2>. QED
    BY <1>1, <1>2, <2>1, QuietMoves
<1>. QED
  BY <1>1, <1>2, RestGivesUp

LEMMA RestSucceeds ==
  ASSUME FileInv, RestInv, NEW k \in Keys, Succeeds(k)
  PROVE  RestInv'
<1>1. /\ run[k].pc = "returned" /\ jobs[k].state = "active"
      /\ run'[k].pc = "none" /\ jobs'[k].state = "succeeded"
      /\ \A j \in Keys : j # k => run'[j] = run[j] /\ jobs'[j] = jobs[j]
      /\ UNCHANGED <<item, plans, batch>>
  BY SucceedsEffect
<1>2. ~Unfinished(k) /\ Done(k)'
  BY <1>1 DEF Unfinished, Done
<1>. QED
  BY <1>1, <1>2, QuietMoves

LEMMA RestHandsBack ==
  ASSUME FileInv, RestInv, HandsBack
  PROVE  RestInv'
<1>1. /\ run[Recognize].pc = "working" /\ jobs[Recognize].state = "active"
      /\ run'[Recognize].pc = "none" /\ jobs'[Recognize].state = "waiting"
      /\ \A j \in Keys : j # Recognize => run'[j] = run[j] /\ jobs'[j] = jobs[j]
      /\ UNCHANGED <<item, plans, batch>>
  BY HandsBackEffect
<1>2. Unfinished(Recognize)' /\ ~Done(Recognize)
  BY <1>1 DEF Unfinished, Done
<1>. QED
  BY <1>1, <1>2, KeysDiffer, QuietMoves

(* A step that touches no job, no run, no plan and not the file.              *)
LEMMA RestStutter ==
  ASSUME RestInv, UNCHANGED <<item, plans, jobs, run, batch>>
  PROVE  RestInv'
<1>1. /\ \A k \in Keys : (Unfinished(k)' <=> Unfinished(k)) /\ (Done(k)' <=> Done(k))
      /\ NoneIsDead'
  BY DEF Unfinished, Done, RestInv, NoneIsDead
<1>2. OneAfterAnother'
  BY <1>1, OneAfterHolds DEF RestInv, OneAfterAnother
<1>3. item.deletion = "active" =>
        /\ item.status \in {"pending", "profiling"} => Unfinished(Profile)'
        /\ item.status = "matching" => Unfinished(Match)'
        /\ item.status = "recognizing" => Unfinished(Recognize)'
        /\ item.status \notin {"result_deleted"}
        /\ item.status = "materializing" \/ item.formal = "materializing" =>
             \E p \in Plans : Unfinished(Materialize(p))'
  BY <1>1, KeysDiffer DEF RestInv, MovesOn
<1>4. item.deletion = "active" =>
        batch' = Refreshed(item'.formal) \/ item.formal = "materializing"
        \/ Unfinished(Profile)'
  BY <1>1, KeysDiffer DEF RestInv, MovesOn, Refreshed, One
<1>5. MovesOn'
  BY <1>3, <1>4 DEF MovesOn
<1>. QED
  BY <1>1, <1>2, <1>5 DEF RestInv

(* A file whose import starts again.                                          *)
LEMMA RestReset ==
  ASSUME FileInv, RestInv, run' = run, NoneActive,
         item'.status = "pending", item'.formal = "pending",
         \A p \in Plans : plans'[p].state \in {"none", "deleted"},
         \A k \in Keys : jobs'[k].state = IF k = Profile THEN "waiting" ELSE "absent"
  PROVE  RestInv'
<1>1. \A k \in Keys : run'[k].pc = "none"
  BY DEF FileInv, JobsAndRuns, NoneActive
<1>2. /\ jobs'[Profile].state = "waiting" /\ jobs'[Match].state = "absent"
      /\ jobs'[Recognize].state = "absent"
  BY KeysDiffer
<1>3. Unfinished(Profile)'
  BY <1>2 DEF Unfinished
<1>4. MovesOn'
  BY <1>3 DEF MovesOn
<1>5. OneAfterAnother' /\ NoneIsDead'
  BY <1>1, <1>2, KeysDiffer DEF OneAfterAnother, NoneIsDead
<1>. QED
  BY <1>4, <1>5 DEF RestInv

LEMMA RestRequest ==
  ASSUME FileInv, AtomicInv, RestInv, ~Overlap, Request \/ Responds
  PROVE  RestInv'
<1>1. CASE RequestDeletion
  <2>1. /\ run' = run /\ \A k \in Keys : run[k].pc = "none"
        /\ \A k \in Ordinary : jobs'[k].state \notin {"waiting", "active"}
        /\ \A k \in Ordinary : jobs'[k].state = "absent" <=> jobs[k].state = "absent"
        /\ item'.deletion = "deletion_pending" /\ plans' = plans
    BY <1>1, RequestDeletionEffect
  <2>2. \A k \in Ordinary : Done(k) => Done(k)'
    BY <2>1, OrdinaryKeys DEF Done, Unfinished
  <2>3. OneAfterAnother'
    BY <2>1, <2>2, OrdinaryKeys DEF RestInv, OneAfterAnother
  <2>4. MovesOn' /\ NoneIsDead'
    BY <2>1 DEF MovesOn, NoneIsDead
  <2>. QED
    BY <2>3, <2>4 DEF RestInv
<1>2. CASE RestoreDeleted
  BY <1>2, RestoreDeletedEffect, RestReset
<1>3. CASE \E op \in {"approve", "accept", "reimport"} : Reads(op)
  BY <1>3, ReadsEffect, RestStutter
<1>4. CASE CommitsApproval
  <2>1. /\ run' = run /\ batch' = batch /\ api.op # "none" /\ item'.deletion = item.deletion
        /\ item'.formal \in {item.formal, "materializing"}
        /\ api.seen = item => item'.status = "materializing"
    BY <1>4, CommitsApprovalEffect
  <2>2. item'.status = "materializing" /\ item.deletion = "active"
    BY <2>1 DEF AtomicInv, RequestIsCurrent
  <2>3. PICK n, by : n = NextPlan /\ by \in {"user", "hermes"} /\ NewPlan(by)
    BY <1>4, CommitsApprovalEffect
  <2>4. /\ n \in Plans /\ plans[n].state = "none"
        /\ \A p \in Plans : p # n => plans'[p] = plans[p]
        /\ plans'[n].by \in {"user", "hermes"}
        /\ \A j \in Keys : jobs'[j].state = IF j = Materialize(n) THEN "waiting"
                                            ELSE jobs[j].state
    <3>1. /\ n \in Plans /\ plans[n].state = "none"
          /\ \A p \in Plans : plans'[p] = IF p = n THEN PlanRow("live", by, Latest)
                                          ELSE plans[p]
          /\ \A j \in Keys : jobs'[j].state = IF j = Materialize(n) THEN "waiting"
                                              ELSE jobs[j].state
      BY <2>3 DEF NewPlan
    <3>2. plans'[n].by = by
      BY <2>3, <3>1, PlanRows, LatestIs
    <3>. QED
      BY <2>3, <3>1, <3>2
  <2>5. jobs[Materialize(n)].state = "absent" /\ Materialize(n) \in Keys
    BY <2>4, KeysDiffer DEF FileInv, PlansAndJobs
  <2>6. Unfinished(Materialize(n))'
    BY <2>4, <2>5 DEF Unfinished
  <2>7. /\ \A j \in Keys : Unfinished(j) => Unfinished(j)'
        /\ \A j \in Keys : Done(j) => Done(j)'
    <3>1. \A j \in Keys : j # Materialize(n) => jobs'[j].state = jobs[j].state
      BY <2>4
    <3>2. ~Done(Materialize(n))
      BY <2>5 DEF Done
    <3>. QED
      BY <2>1, <2>5, <2>6, <3>1, <3>2, OthersStay
  <2>8. batch' = Refreshed(item'.formal) \/ item'.formal = "materializing"
        \/ Unfinished(Profile)'
    <3>1. batch = Refreshed(item.formal) \/ item.formal = "materializing"
          \/ Unfinished(Profile)
      BY <2>2 DEF RestInv, MovesOn
    <3>. QED
      BY <2>1, <2>7, <3>1, KeysDiffer DEF Refreshed, One
  <2>9. MovesOn'
    BY <2>2, <2>4, <2>6, <2>8 DEF MovesOn
  <2>10. OneAfterAnother'
    <3>1. /\ jobs'[Match].state = jobs[Match].state
          /\ jobs'[Recognize].state = jobs[Recognize].state
      BY <2>4, KeysDiffer
    <3>. QED
      BY <2>2, <2>4, <2>7, <3>1, OneAfterHolds DEF RestInv
  <2>11. NoneIsDead'
    BY <2>1 DEF RestInv, NoneIsDead
  <2>. QED
    BY <2>9, <2>10, <2>11 DEF RestInv
<1>5. CASE CommitsReimport
  <2>1. /\ run' = run /\ api.op # "none" /\ NoneActive
        /\ api.seen = item => item'.status = "pending" /\ item'.formal = "pending"
        /\ \A p \in Plans : plans'[p].state \in {"none", "deleted"}
        /\ \A k \in Keys : jobs'[k].state = IF k = Profile THEN "waiting" ELSE "absent"
    BY <1>5, CommitsReimportEffect
  <2>2. item'.status = "pending" /\ item'.formal = "pending"
    BY <2>1 DEF AtomicInv, RequestIsCurrent
  <2>. QED
    BY <2>1, <2>2, RestReset
<1>6. CASE Refused
  BY <1>6, RefusedEffect
<1>. QED
  BY <1>1, <1>2, <1>3, <1>4, <1>5, <1>6 DEF Request, Responds

LEMMA RestStep ==
  ASSUME FileInv, AtomicInv, RestInv, ~Overlap, MaxDead = 0, [Next]_vars
  PROVE  RestInv'
<1>1. CASE \E k \in Keys : Begin(k) \/ Ends(k) \/ Dies(k)
  BY <1>1, RestBegin, RestSucceeds, RestFails, NobodyDies DEF Ends
<1>2. CASE Works
  BY <1>2, RestWork
<1>3. CASE HandsBack
  BY <1>3, RestHandsBack
<1>4. CASE UNCHANGED vars
  BY <1>4, RestStutter DEF vars
<1>. QED
  BY <1>1, <1>2, <1>3, <1>4, RestRequest DEF Next, Worker

(* As long as no handler is cut short between its last commit and the end of  *)
(* its job, and requests are single transactions, a file with no job left has *)
(* come to rest where a user can act on it, and its batch counts it there.    *)
THEOREM FilesComeToRest == ASSUME ~Overlap, MaxDead = 0 PROVE Spec => []RestsWhenIdle
<1>1. Init => FileInv /\ AtomicInv /\ RestInv
  BY IngestionFirst DEF IngestionInv
<1>2. FileInv /\ AtomicInv /\ RestInv /\ [Next]_vars => (FileInv /\ AtomicInv /\ RestInv)'
  BY FileStep, AtomicStep, RestStep
<1>3. FileInv /\ RestInv => RestsWhenIdle
  <2>. SUFFICES ASSUME FileInv, RestInv, ~Busy, item.deletion = "active"
                PROVE  /\ item.status \in {"imported", "needs_review", "failed"}
                       /\ batch = Refreshed(item.formal)
    BY DEF RestsWhenIdle
  <2>1. \A k \in Keys : ~Unfinished(k)
    BY DEF Busy, Unfinished, FileInv, JobsAndRuns
  <2>2. \A p \in Plans : ~Unfinished(Materialize(p))
    BY <2>1, KeysDiffer
  <2>3. item.status \in {"pending", "profiling", "matching", "recognizing", "needs_review",
                         "materializing", "imported", "result_deleted", "failed"}
    BY Rows, ItemFields
  <2>. QED
    BY <2>1, <2>2, <2>3, KeysDiffer DEF RestInv, MovesOn
<1>. QED
  BY <1>1, <1>2, <1>3, PTL DEF Spec
=============================================================================
