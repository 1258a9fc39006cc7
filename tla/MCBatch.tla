------------------------------- MODULE MCBatch -------------------------------
(* The runs of a batch: files are interchangeable. *)
EXTENDS BatchProgress, TLC

MCSymmetry == Permutations(Files)
=============================================================================
