--------------------------- MODULE IngestionProps ---------------------------
(* What must hold of a file and its build results. *)
EXTENDS IngestionPipeline

(* Once the build result is deleted nothing of it is alive: no plan can be
   executed, no record or match is left, no ordinary job waits, and the
   file, its deletion record and its batch agree that it is gone. *)
DeletedIsGone ==
  item.deletion = "deleted" =>
    /\ item.status = "result_deleted" /\ item.formal = "deleted"
    /\ deletion = "completed" /\ batch = Refreshed("deleted")
    /\ "match" \notin stored
    /\ \A p \in Plans : plans[p].state # "live" /\ ~plans[p].records
    /\ \A k \in Keys \ {Delete} : jobs[k].state \notin {"waiting", "active"}

(* A file that says it is imported has a live plan whose execution says so. *)
ImportedHasData ==
  item.formal \in {"imported", "partial"} =>
    \E p \in Plans :
      /\ plans[p].state = "live"
      /\ plans[p].exec = (IF item.formal = "imported" THEN "completed" ELSE "partial")

Busy == \E k \in Keys : jobs[k].state \in {"waiting", "active"}

(* When no job is left, the file has come to rest in a state a user can act
   on, and its batch counts it there. *)
RestsWhenIdle ==
  ~Busy /\ item.deletion = "active" /\ api.op = "none" =>
    /\ item.status \in {"imported", "needs_review", "failed"}
    /\ batch = Refreshed(item.formal)

(* A file waiting for its deletion has the job that will do it. *)
DeletionHasJob ==
  item.deletion = "deletion_pending" => jobs[Delete].state \in {"waiting", "active"}

(* Nothing writes on a file any more once its build result is deleted, short
   of the restoration. *)
DeletedStaysPut ==
  [][item.deletion = "deleted" /\ item'.deletion = "deleted" => item' = item]_vars

(* The records of at most one plan of the file are in the data. *)
OneLiveRecordSet ==
  \A p, q \in Plans : plans[p].records /\ plans[q].records => p = q

(* The plans of a file form one chain: two approvals never both supersede the
   same plan, nor both start from none, and each supersedes an earlier one. *)
PlansFormAChain ==
  \A p, q \in Plans :
    plans[p].state \in {"live", "retired"} =>
      /\ plans[p].prev < p
      /\ plans[q].state \in {"live", "retired"} /\ plans[q].prev = plans[p].prev => p = q

(* A plan is executed once: however often its job is run again, the outcome
   first recorded stays until the build result is deleted or reset. *)
ExecutedOnce ==
  [][\A p \in Plans : plans[p].exec # "none" /\ plans'[p].state = "live" =>
       plans'[p].exec = plans[p].exec]_vars

(* A plan whose execution completed is superseded by a governance decision
   on a provisional plan only. *)
CompletedIsFinal ==
  [][\A p \in Plans : plans[p].state = "none" /\ plans'[p].state = "live" =>
       ~Completed(plans'[p].prev) \/ plans'[p].by = "hermes"]_vars
=============================================================================
