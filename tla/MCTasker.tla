------------------------------ MODULE MCTasker ------------------------------
(* Model-checking instance of Tasker. *)
EXTENDS Tasker
=============================================================================
