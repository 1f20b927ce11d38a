---------------------------- MODULE BronzeWorkers ----------------------------
(***************************************************************************)
(* The processes that write one bronze dataset.  A process's name stands   *)
(* for the tokens it holds (new_token() never repeats one).                *)
(***************************************************************************)
CONSTANTS Worker, NoOne

ASSUME WorkerAssumption == NoOne \notin Worker
=============================================================================
