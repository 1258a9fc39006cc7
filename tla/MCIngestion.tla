---- MODULE MCIngestion ----
(* The ingestion pipeline's model-checking runs: one file. *)
EXTENDS IngestionProps
====
