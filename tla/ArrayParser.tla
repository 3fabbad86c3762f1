----------------------------- MODULE ArrayParser -----------------------------
(***************************************************************************)
(* ParseArray: an array of one scalar type, read with the pool's parser    *)
(* for that type.  The parser keeps the values so far in out and is taken  *)
(* up again in the middle of an item, a separator or the whitespace around *)
(* them when its chunk ends.                                               *)
(***************************************************************************)
EXTENDS PoolParsers

CONSTANT ItemKind   \* Parser of the items: "string" or "number".

ASSUME ItemAssumption == ItemKind \in Scalar

VARIABLE array      \* ParseArray::out, began, expect_number and finished.

arrayVars == <<poolVars, array>>

(* array: at the top of Parse; arrayFirst: only ']' or an item may follow;  *)
(* arrayLoop: in the while loop, or an item parser just returned to it.     *)
ArrayFrame == {"array", "arrayFirst", "arrayLoop"}

ArrayTypeOK ==
    array \in [out : Seq(Seq(Char)), began : BOOLEAN,
               expect : BOOLEAN, finished : BOOLEAN]

NewArray == [out |-> <<>>, began |-> FALSE, expect |-> TRUE, finished |-> TRUE]

----------------------------------------------------------------------------
(* Parse.  back is the frame of the call that called it. *)

(* Which of the branches at the top of Parse is taken. *)
ArrayResumesItem == frame = "array" /\ ~Finished(ItemKind)
ArrayBegins == frame = "array" /\ Finished(ItemKind) /\ ~array.began
ArrayResumes == frame = "array" /\ Finished(ItemKind) /\ array.began

ResumeItem ==
    /\ ArrayResumesItem
    /\ frame' = EntryFrame(ItemKind)
    /\ UNCHANGED <<ret, look, text, buffer, scan, string, number, array>>

OpenArray ==
    /\ ArrayBegins
    /\ look \in Char \cup {EndOfChunk}
    /\ IF look = "["
       THEN /\ frame' = "arrayFirst"
            /\ array' = [array EXCEPT !.began = TRUE, !.expect = TRUE]
            /\ Advance
            /\ UNCHANGED <<ret, buffer, scan, string, number>>
       ELSE /\ Throw
            /\ UNCHANGED <<ret, look, text, buffer, scan, string, number, array>>

(* An array that has no item yet may still turn out to be empty. *)
AlwaysLoop == "arrayLoop"
ResumedFrame == IF array.out = <<>> THEN "arrayFirst" ELSE "arrayLoop"

ResumeArray ==
    /\ ArrayResumes
    /\ frame' = ResumedFrame
    /\ UNCHANGED <<ret, look, text, buffer, scan, string, number, array>>

(* Every place that skips whitespace before it looks at a character. *)
ArraySkips == frame \in {"arrayFirst", "arrayLoop"} /\ ret = "none"

SkipArrayBlank ==
    /\ ArraySkips
    /\ look = Blank
    /\ Skip
    /\ UNCHANGED <<frame, ret, buffer, scan, string, number, array>>

(* return setFinished(nullptr) *)
ArrayForgets(back) == UNCHANGED array /\ ReturnTo(back, "nullptr")
ArrayNeedsMore(back) ==
    array' = [array EXCEPT !.finished = FALSE] /\ ReturnTo(back, "nullptr")

(* The chunk ends, or a zero character hides the rest of it. *)
EndArrayChunk(back) ==
    /\ ArraySkips
    /\ \/ look = EndOfChunk /\ UNCHANGED <<look, text>>
       \/ look = Nul /\ Skip
    /\ ArrayNeedsMore(back)
    /\ UNCHANGED <<buffer, scan, string, number>>

MayEnd == frame = "arrayFirst" \/ ~array.expect

CloseArray(back) ==
    /\ ArraySkips
    /\ MayEnd
    /\ look = "]"
    /\ array' = [array EXCEPT !.began = FALSE, !.finished = TRUE]
    /\ Advance
    /\ ReturnTo(back, "pointer")
    /\ UNCHANGED <<buffer, scan, string, number>>

ReadItem ==
    /\ ArraySkips
    /\ array.expect
    /\ look \in Char \ {Blank, Nul}
    /\ frame = "arrayFirst" => look # "]"
    /\ frame' = EntryFrame(ItemKind)
    /\ UNCHANGED <<ret, look, text, buffer, scan, string, number, array>>

(* The item parser returned to the loop, or to the branch that resumed it. *)
ItemsPushed == Append(array.out, PoolValue(ItemKind))

KeepItem ==
    /\ frame = "arrayLoop"
    /\ ret = "pointer"
    /\ array' = [array EXCEPT !.out = ItemsPushed, !.expect = FALSE]
    /\ ret' = "none"
    /\ UNCHANGED <<frame, look, text, buffer, scan, string, number>>

WaitForItem(back) ==
    /\ frame = "arrayLoop"
    /\ ret = "nullptr"
    /\ ArrayNeedsMore(back)
    /\ UNCHANGED <<look, text, buffer, scan, string, number>>

Separate ==
    /\ frame = "arrayLoop"
    /\ ret = "none"
    /\ ~array.expect
    /\ look \in Char \ {Blank, Nul, "]"}
    /\ IF look = ","
       THEN /\ array' = [array EXCEPT !.expect = TRUE]
            /\ Advance
            /\ UNCHANGED <<frame, ret, buffer, scan, string, number>>
       ELSE /\ Throw
            /\ UNCHANGED <<ret, look, text, buffer, scan, string, number, array>>

ArrayStep(back) ==
    \/ ResumeItem
    \/ OpenArray
    \/ ResumeArray
    \/ SkipArrayBlank
    \/ EndArrayChunk(back)
    \/ CloseArray(back)
    \/ ReadItem
    \/ KeepItem
    \/ WaitForItem(back)
    \/ Separate
    \/ ScalarStep("arrayLoop") /\ UNCHANGED array

----------------------------------------------------------------------------
(* While an array is read, only the parser of its items may be busy, and in *)
(* the loop only when it has just asked for the next chunk.                 *)
ArrayInv ==
    /\ frame \in {"array", "arrayFirst"} => ret = "none"
    /\ frame \in {"arrayFirst", "arrayLoop"} /\ ret # "nullptr" =>
        string.finished /\ number.finished
    /\ StringBusy \/ frame = "stringStart" => ItemKind = "string"
    /\ NumberBusy => ItemKind = "number"
=============================================================================
