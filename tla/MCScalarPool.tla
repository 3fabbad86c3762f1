----------------------------- MODULE MCScalarPool -----------------------------
(* Floats and Bools in turn, every character that matters to either. *)
EXTENDS ScalarPool
=============================================================================
