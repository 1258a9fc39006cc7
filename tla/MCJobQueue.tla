----------------------------- MODULE MCJobQueue -----------------------------
(* Constants of the job queue's model-checking runs: one ingestion item, and
   workers of a lane that serves every kind. *)
EXTENDS JobQueueProps, TLC

MCItemOf == [k \in Keys |-> CHOOSE i \in Items : TRUE]

MCServesAll == [w \in Workers |-> Keys]

MCSymmetry == Permutations(Workers) \cup Permutations(Jobs)
=============================================================================
