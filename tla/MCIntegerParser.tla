--------------------------- MODULE MCIntegerParser ---------------------------
(* A signed type narrower than intmax_t and an unsigned one of uintmax_t's  *)
(* width, the latter called past whitespace as the container parsers do, or *)
(* with the vertical tab that isWhitespace leaves.                          *)
EXTENDS IntegerParser

MCLongMin == -99
Numerals == {48, 49, 57, 43, 45}    \* 0 1 9 + -
Comma == 44
VerticalTab == 11

SignedType == [min |-> -9, max |-> 10, chars |-> Numerals \cup {Comma, VerticalTab}]
WideType == [min |-> 0, max |-> 199, chars |-> Numerals \cup {Comma}]

MCTypes == {SignedType, WideType}
MCWideTabbed == {[WideType EXCEPT !.chars = @ \cup {VerticalTab}]}
=============================================================================
