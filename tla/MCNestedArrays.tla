---------------------------- MODULE MCNestedArrays ----------------------------
(* Arrays of arrays of numbers, with a letter among the characters. *)
EXTENDS NestedArrays

MCLetter == {"a"}
MCDigit == {"1"}
MCContent == {}
=============================================================================
