----------------------------- MODULE MCReadParse -----------------------------
(* Files that are whole, with more behind, wrong, or cut by a read error    *)
(* wherever one may come.                                                   *)
EXTENDS ReadParse

MCLetter == {"b"}
MCDigit == {"1"}
MCContent == {"b"}
MCKey == <<<<>>, <<"b">>>>
MCKind == <<"number", "string">>
MCRequired == {1}
q == Quote

MCDocument == {
    (* {"":11 ,"b":"b"} *)
    <<"{", q, q, ":", "1", "1", Blank, ",", q, "b", q, ":", q, "b", q, "}">>,
    (* {"":1}1 *)
    <<"{", q, q, ":", "1", "}", "1">>,
    (* {"b":"",} lacks the number *)
    <<"{", q, "b", q, ":", q, q, ",", "}">>,
    (* {"":1,"":b *)
    <<"{", q, q, ":", "1", ",", q, q, ":", "b">>
}
=============================================================================
