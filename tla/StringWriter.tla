---------------------------- MODULE StringWriter ----------------------------
(***************************************************************************)
(* The Write of a string: Begin trails curr and what lies between them is  *)
(* written when an escape or the end comes.  A character that no escape    *)
(* exists for, below space, throws after part was written.                 *)
(***************************************************************************)
EXTENDS Naturals, Sequences

VARIABLES
    value,      \* The string to write.
    begin,      \* Begin, as an index into value.
    curr,       \* curr.
    sink,       \* What S.write was given.
    writing     \* idle, loop, written or failed.

writerVars == <<value, begin, curr, sink, writing>>

(* The characters that are escaped: / has an escape too, but is not.        *)
NeedEscape == {34, 92, 10, 9, 13, 12, 8}

EscapeOf(c) ==
    CASE c = 10 -> 110 [] c = 9 -> 116 [] c = 13 -> 114 [] c = 12 -> 102
      [] c = 8 -> 98 [] OTHER -> c

WriterInit ==
    /\ value = <<>>
    /\ begin = 1
    /\ curr = 1
    /\ sink = <<>>
    /\ writing = "idle"

Write(v) ==
    /\ writing = "idle"
    /\ value' = v
    /\ begin' = 1
    /\ curr' = 1
    /\ sink' = <<34>>
    /\ writing' = "loop"

BeginStays == UNCHANGED begin
BeginPast == begin' = curr + 1

WriteEscaped ==
    /\ writing = "loop"
    /\ curr <= Len(value)
    /\ value[curr] \in NeedEscape
    /\ sink' = sink \o SubSeq(value, begin, curr - 1) \o <<92, EscapeOf(value[curr])>>
    /\ BeginPast
    /\ curr' = curr + 1
    /\ UNCHANGED <<value, writing>>

Pass ==
    /\ writing = "loop"
    /\ curr <= Len(value)
    /\ value[curr] \notin NeedEscape
    /\ IF value[curr] >= 32
       THEN curr' = curr + 1 /\ UNCHANGED writing
       ELSE writing' = "failed" /\ UNCHANGED curr
    /\ UNCHANGED <<value, begin, sink>>

(* What is left, if anything, and the last quote. *)
WriteRest ==
    /\ writing = "loop"
    /\ curr > Len(value)
    /\ sink' = sink \o SubSeq(value, begin, Len(value)) \o <<34>>
    /\ writing' = "written"
    /\ UNCHANGED <<value, begin, curr>>

WriterStep == WriteEscaped \/ Pass \/ WriteRest
=============================================================================
