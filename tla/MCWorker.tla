------------------------------ MODULE MCWorker ------------------------------
(***************************************************************************)
(* One task, for model checking the worker.                                *)
(***************************************************************************)
EXTENDS Worker, TLC

OneActivity == "reserve" :> "reserve_inventory"

OneTask == DOMAIN OneActivity

=============================================================================
