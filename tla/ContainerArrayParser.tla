------------------------- MODULE ContainerArrayParser -------------------------
(***************************************************************************)
(* ParseContainerArray: an array of arrays.  Its items are read by a       *)
(* ParseArray of its own, whose Swap hands each over, and may have to be   *)
(* of one size.  Its Parse is that of ParseArray but for the item.         *)
(***************************************************************************)
EXTENDS ArrayParser

VARIABLES
    outer,      \* ParseContainerArray::out, began, expect_item and finished.
    sameSize    \* The template's parameter SameSize.

containerVars == <<arrayVars, outer, sameSize>>

(* As ArrayFrame; an item's call returns to containerLoop. *)
ContainerFrame == {"container", "containerFirst", "containerLoop"}

ContainerTypeOK ==
    /\ outer \in [out : Seq(Seq(Seq(Char))), began : BOOLEAN,
                  expect : BOOLEAN, finished : BOOLEAN]
    /\ sameSize \in BOOLEAN

ContainerInit ==
    /\ PoolInit
    /\ array = NewArray
    /\ outer = NewArray
    /\ sameSize \in BOOLEAN

----------------------------------------------------------------------------
(* Parse.  back is the frame of the call that called it. *)

ContainerResumesItem ==
    /\ frame = "container"
    /\ ~array.finished
    /\ frame' = "array"
    /\ UNCHANGED <<ret, look, text, buffer, scan, string, number, array, outer>>

OpenContainer ==
    /\ frame = "container"
    /\ array.finished
    /\ ~outer.began
    /\ look \in Char \cup {EndOfChunk}
    /\ IF look = "["
       THEN /\ frame' = "containerFirst"
            /\ outer' = [outer EXCEPT !.began = TRUE, !.expect = TRUE]
            /\ Advance
            /\ UNCHANGED <<ret, buffer, scan, string, number, array>>
       ELSE /\ Throw
            /\ UNCHANGED <<ret, look, text, buffer, scan, string, number, array, outer>>

ResumeContainer ==
    /\ frame = "container"
    /\ array.finished
    /\ outer.began
    /\ frame' = IF outer.out = <<>> THEN "containerFirst" ELSE "containerLoop"
    /\ UNCHANGED <<ret, look, text, buffer, scan, string, number, array, outer>>

ContainerSkips == frame \in {"containerFirst", "containerLoop"} /\ ret = "none"

SkipContainerBlank ==
    /\ ContainerSkips
    /\ look = Blank
    /\ Skip
    /\ UNCHANGED <<frame, ret, buffer, scan, string, number, array, outer>>

ContainerNeedsMore(back) ==
    outer' = [outer EXCEPT !.finished = FALSE] /\ ReturnTo(back, "nullptr")

(* The chunk ends, or a zero character hides the rest of it. *)
EndContainerChunk(back) ==
    /\ ContainerSkips
    /\ \/ look = EndOfChunk /\ UNCHANGED <<look, text>>
       \/ look = Nul /\ Skip
    /\ ContainerNeedsMore(back)
    /\ UNCHANGED <<buffer, scan, string, number, array>>

Closed == [outer EXCEPT !.began = FALSE, !.finished = TRUE]

CloseContainer(back) ==
    /\ ContainerSkips
    /\ frame = "containerFirst" \/ ~outer.expect
    /\ look = "]"
    /\ outer' = Closed
    /\ Advance
    /\ ReturnTo(back, "pointer")
    /\ UNCHANGED <<buffer, scan, string, number, array>>

ReadInner ==
    /\ ContainerSkips
    /\ outer.expect
    /\ look \in Char \ {Blank, Nul}
    /\ frame = "containerFirst" => look # "]"
    /\ frame' = "array"
    /\ UNCHANGED <<ret, look, text, buffer, scan, string, number, array, outer>>

(* p.Swap(out.back()) *)
InnerLeft == array
InnerSwapped == [array EXCEPT !.out = <<>>]

SizeAgrees == sameSize /\ outer.out # <<>> => Len(outer.out[1]) = Len(array.out)

KeepInner ==
    /\ frame = "containerLoop"
    /\ ret = "pointer"
    /\ outer' = [outer EXCEPT !.out = Append(@, array.out),
                             !.expect = IF SizeAgrees THEN FALSE ELSE @]
    /\ array' = InnerSwapped
    /\ IF SizeAgrees THEN ret' = "none" /\ UNCHANGED frame
       ELSE Throw /\ UNCHANGED ret
    /\ UNCHANGED <<look, text, buffer, scan, string, number>>

WaitForInner(back) ==
    /\ frame = "containerLoop"
    /\ ret = "nullptr"
    /\ ContainerNeedsMore(back)
    /\ UNCHANGED <<look, text, buffer, scan, string, number, array>>

SeparateInner ==
    /\ frame = "containerLoop"
    /\ ret = "none"
    /\ ~outer.expect
    /\ look \in Char \ {Blank, Nul, "]"}
    /\ IF look = ","
       THEN /\ outer' = [outer EXCEPT !.expect = TRUE]
            /\ Advance
            /\ UNCHANGED <<frame, ret, buffer, scan, string, number, array>>
       ELSE /\ Throw
            /\ UNCHANGED <<ret, look, text, buffer, scan, string, number, array, outer>>

ContainerStep(back) ==
    /\ \/ ContainerResumesItem
       \/ OpenContainer
       \/ ResumeContainer
       \/ SkipContainerBlank
       \/ EndContainerChunk(back)
       \/ CloseContainer(back)
       \/ ReadInner
       \/ KeepInner
       \/ WaitForInner(back)
       \/ SeparateInner
       \/ ArrayStep("containerLoop") /\ UNCHANGED outer
    /\ UNCHANGED sameSize

----------------------------------------------------------------------------
(* How the two loops, their flags and their frames belong together: a       *)
(* parser is unfinished only below a caller that waits for it, and a loop   *)
(* that runs finds the parser below it at rest.                             *)
InnerRuns == frame \in ScalarFrame \cup ArrayFrame

FlagsInv ==
    /\ array.began /\ array.out = <<>> => array.expect
    /\ outer.began /\ outer.out = <<>> => outer.expect
    /\ ~Finished(ItemKind) => array.began /\ array.expect
    /\ ~Finished(ItemKind) => ~array.finished \/ frame \in ScalarFrame \cup {"arrayLoop"}
    /\ ~array.finished => array.began /\ outer.began /\ outer.expect
    /\ ~array.finished => ~outer.finished \/ frame \notin {"caller", "container"}
    /\ array.out # <<>> =>
        \/ ~array.finished
        \/ frame \in ScalarFrame \cup {"arrayLoop"}
        \/ frame = "containerLoop" /\ ret = "pointer"

FramesInv ==
    /\ InnerRuns => outer.began /\ outer.expect
    /\ frame \in ScalarFrame => array.began /\ array.expect
    /\ frame \in {"arrayFirst", "arrayLoop"} => array.began
    /\ frame = "arrayFirst" => array.out = <<>>
    /\ frame = "arrayLoop" /\ ret # "none" => array.expect
    /\ frame = "arrayLoop" /\ ret = "nullptr" => ~Finished(ItemKind)
    /\ frame \in {"container", "containerFirst"} => ret = "none"
    /\ frame \in {"containerFirst", "containerLoop"} => outer.began
    /\ frame = "containerFirst" => outer.out = <<>>
    /\ frame \in {"containerFirst", "containerLoop"} =>
        IF ret = "nullptr" THEN ~array.finished
        ELSE array.finished /\ string.finished /\ number.finished
    /\ frame = "containerLoop" /\ ret = "pointer" => outer.expect /\ ~array.began
    /\ frame = "caller" /\ outer.finished => ~outer.began
    /\ outer.out # <<>> =>
        \/ outer.began
        \/ frame = "caller" /\ outer.finished /\ text # <<>>

(* A number whose last digit was read is unfinished, or it is over and the  *)
(* character after it is still to be looked at by the loop.                 *)
DigitInv ==
    ItemKind = "number" /\ text # <<>> /\ text[Len(text)] \in Digit =>
        \/ NumberBusy
        \/ /\ frame = "arrayLoop"
           /\ look \in Char \ Digit
           /\ ret = "pointer" \/ (ret = "none" /\ ~array.expect)

ContainerInv == ArrayInv /\ FlagsInv /\ FramesInv /\ DigitInv
=============================================================================
