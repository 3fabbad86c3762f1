---------------------------- MODULE MCObjectParser ----------------------------
(* Keys, a string value and the items of an array all of the same strings,  *)
(* one of which is the beginning of another and one empty.                  *)
EXTENDS ObjectTexts

MCLetter == {"a"}
MCDigit == {"1"}
MCContent == {"]"}
MCKey == <<<<"]">>, <<"]", "]">>, <<>>>>
MCKind == <<"number", "string", "array">>
MCRequired == {1}
=============================================================================
