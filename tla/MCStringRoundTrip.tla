-------------------------- MODULE MCStringRoundTrip --------------------------
EXTENDS StringRoundTrip

(* A quote, a backslash, u, b (an escape and a digit), 0, 8 and a newline. *)
MCAlphabet == {34, 92, 117, 98, 48, 56, 10}

(* A quote, a backslash, /, n, u, a newline, SOH and a byte of UTF-8. *)
MCValueAlphabet == {34, 92, 47, 110, 117, 10, 1, 195}
=============================================================================
