---------------------------- MODULE RecordBuilder ----------------------------
(***************************************************************************)
(* What ParseObject promises its caller, without text, chunks or parsers:  *)
(* a record is filled one field at a time, is complete only with every     *)
(* required field, is handed over whole, and the next one starts empty.    *)
(***************************************************************************)
CONSTANTS
    Field,          \* The fields an object may have.
    Required,       \* Those it must have, a subset of Field.
    ValueOf(_)      \* The values of a field.

VARIABLES
    record,     \* The values of the fields given so far.
    status      \* "building", "complete" or "refused".

builderVars == <<record, status>>

Empty == [f \in {} |-> {}]

Init == record = Empty /\ status = "building"

(* A field receives a value; a field given twice keeps the later one. *)
Assign(f) ==
    /\ status = "building"
    /\ DOMAIN record' = DOMAIN record \cup {f}
    /\ record'[f] \in ValueOf(f)
    /\ \A g \in DOMAIN record \ {f} : record'[g] = record[g]
    /\ UNCHANGED status

Finish ==
    /\ status = "building"
    /\ Required \subseteq DOMAIN record
    /\ status' = "complete"
    /\ UNCHANGED record

Refuse ==
    /\ status = "building"
    /\ status' = "refused"
    /\ UNCHANGED record

(* The caller takes a complete record, or drops a refused one. *)
Restart ==
    /\ status \in {"complete", "refused"}
    /\ record' = Empty
    /\ status' = "building"

Next == (\E f \in Field : Assign(f)) \/ Finish \/ Refuse \/ Restart

Spec == Init /\ [][Next]_builderVars
=============================================================================
