---------------------------- MODULE MCBlockQueue ----------------------------
(* read_input and two parser threads. *)
EXTENDS BlockQueue
=============================================================================
