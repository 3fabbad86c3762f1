----------------------------- MODULE NestedArrays -----------------------------
(***************************************************************************)
(* A ParseContainerArray used the way src/test/unittest.cpp uses parsers:  *)
(* chunk after chunk goes to Parse until the array is complete, then Swap  *)
(* takes it and another may follow.  After an exception the parser and its *)
(* pool are dropped.  The text is any, or what Write wrote of a value.     *)
(***************************************************************************)
EXTENDS ContainerArrayParser, ArrayWriter, ArrayTexts, FiniteSets

CONSTANTS
    MaxInner,   \* Bound: items of the inner arrays of the texts and values.
    MaxOuter    \* Bound: inner arrays of them.

ASSUME SizeAssumption == MaxInner \in Nat /\ MaxOuter \in Nat

vars == <<containerVars, writerVars>>

WriterTypeOK ==
    /\ vector \in Seq(Seq(Seq(Digit)))
    /\ chars \in Seq(Digit \cup {"zero"})
    /\ sink \in Seq(Char)
    /\ writing \in {"idle", "range", "element", "written"}

TypeOK ==
    /\ frame \in ScalarFrame \cup ArrayFrame \cup ContainerFrame \cup {"caller", "failed"}
    /\ PoolTypeOK
    /\ ArrayTypeOK
    /\ ContainerTypeOK
    /\ WriterTypeOK

----------------------------------------------------------------------------
Init == ContainerInit /\ WriterInit

(* Parse returned a pointer: Finished() holds after a call. *)
Complete == frame = "caller" /\ outer.finished /\ text # <<>>

Parse ==
    /\ frame = "caller"
    /\ ~Complete
    /\ writing \in {"idle", "written"}
    /\ frame' = "container"
    /\ ret' = "none"
    /\ look' = Unread
    /\ UNCHANGED <<text, buffer, scan, string, number, array, outer, sameSize>>

(* Alt receives out; what Alt held is cut to nothing. *)
Swap ==
    /\ Complete
    /\ outer' = [outer EXCEPT !.out = <<>>]
    /\ text' = <<>>
    /\ UNCHANGED <<frame, ret, look, buffer, scan, string, number, array, sameSize>>

Drop ==
    /\ frame = "failed"
    /\ NewPool
    /\ array' = NewArray
    /\ outer' = NewArray
    /\ UNCHANGED sameSize

(* The text that was written is over once it is read. *)
Renew ==
    /\ Swap \/ Drop
    /\ writing' = "idle"
    /\ vector' = <<>>
    /\ path' = <<>>
    /\ sink' = <<>>
    /\ UNCHANGED chars

(* A value is written instead of the next text. *)
Number == BoundedSeq(Digit, MaxToken) \ {<<>>}
OfOneSize(v) == \A i, j \in DOMAIN v : Len(v[i]) = Len(v[j])
Value == BoundedSeq(BoundedSeq(Number, MaxInner), MaxOuter)

WriteValue ==
    /\ frame = "caller"
    /\ text = <<>>
    /\ \E v \in Value : (sameSize => OfOneSize(v)) /\ Write(v)

(* A first chunk is not empty: Parse looks at its Begin without a test, and *)
(* no caller of it, the tests included, passes one.                         *)
FeedText ==
    \/ writing = "idle" /\ FeedChar
    \/ writing = "written" /\ Len(text) < Len(sink) /\ Feed(sink[Len(text) + 1])
    \/ text # <<>> /\ FeedEnd

Step ==
    /\ writing \in {"idle", "written"}
    /\ \/ ContainerStep("caller")
       \/ FeedText /\ UNCHANGED <<array, outer, sameSize>>

Next ==
    \/ (Parse \/ Step) /\ UNCHANGED writerVars
    \/ Renew
    \/ (WriteValue \/ WriterStep) /\ UNCHANGED containerVars

(* A running call goes on, and every chunk ends. *)
Spec ==
    /\ Init
    /\ [][Next]_vars
    /\ WF_vars(Step /\ UNCHANGED writerVars)
    /\ SF_vars(FeedEnd /\ UNCHANGED <<array, outer, sameSize, writerVars>>)

----------------------------------------------------------------------------
(* The text of an array of arrays. *)
InnerTexts(v) == [i \in DOMAIN v |-> ArrayText(v[i])]
TextOf(v) == Listed(InnerTexts(v))

BeginningsOf ==
    [same \in BOOLEAN |->
        UNION {Prefixes(TextOf(v)) : v \in {w \in Value : same => OfOneSize(w)}}]

Beginnings == BeginningsOf[sameSize]

(* When Parse says it is finished, what was read since the last Swap is     *)
(* exactly an array of the arrays in out, of one size if they have to be:   *)
(* nothing is lost, repeated, joined or put into the next inner array where *)
(* a chunk ended (ParseContainerArray::Parse, ParseArray::Parse).           *)
OutIsWhatWasRead ==
    Complete =>
        /\ WithoutGaps(text) = TextOf(outer.out)
        /\ sameSize => OfOneSize(outer.out)

(* An exception means that no such array starts with the text read and the  *)
(* character that was met, or that an inner array of another size is over:  *)
(* no split of a good text is refused.                                      *)
RefusesOnlyNonArrays ==
    frame = "failed" =>
        \/ look = Unread /\ WithoutGaps(text) \notin Beginnings
        \/ look \in Char /\ WithoutGaps(Append(text, look)) \notin Beginnings
        \/ look \in Digit /\ text # <<>> /\ text[Len(text)] = Gap

(* Between two calls the parsers on the way down to where the chunk ended,  *)
(* and no others, are unfinished and will be resumed: each knows of the one *)
(* below it only by its Finished().  No number that a chunk ended in is     *)
(* taken for a whole one (ParseArrayContainer.hpp 128 and 35).              *)
ItemResumes ==
    frame = "caller" =>
        /\ ~Finished(ItemKind) => ~array.finished /\ array.began /\ array.expect
        /\ ~array.finished => ~outer.finished /\ outer.began /\ outer.expect
        /\ array.out # <<>> => ~array.finished
        /\ ItemKind = "number" /\ text # <<>> /\ text[Len(text)] \in Digit =>
            ~number.finished

(* A running Write is in one of the ranges, at an element of it. *)
PathInv ==
    \/ writing \in {"idle", "written"}
    \/ \E i \in 0..Len(vector) :
            path = <<i>> /\ (writing = "element" => i > 0)
    \/ \E i \in 1..Len(vector) : \E j \in 0..Len(vector[i]) :
            path = <<i, j>> /\ (writing = "element" => j > 0)

(* The inductive invariant behind TypeOK and ItemResumes. *)
ControlInv == TypeOK /\ PathInv /\ (frame # "failed" => PoolInv /\ ContainerInv)

(* What was read of this array, from what the parsers hold. *)
OuterRead ==
    IF outer.began
    THEN IF outer.expect THEN Before(InnerTexts(outer.out)) \o ArrayRead("containerLoop")
         ELSE Opened(InnerTexts(outer.out))
    ELSE IF Complete THEN TextOf(outer.out) ELSE <<>>

(* At every moment the parsers hold exactly the text that was read. *)
ReadInv ==
    /\ WithoutGaps(text) = OuterRead
    /\ ~outer.began /\ ~Complete => text = <<>>
    /\ sameSize => OfOneSize(outer.out)
    /\ ArrayOrder
    /\ array.began => ~array.finished \/ InnerRuns

(* The inductive strengthening of OutIsWhatWasRead. *)
IInv == ControlInv /\ (frame # "failed" => ReadInv)

(* Every call of Parse returns or throws, whatever state the inner parser   *)
(* and the loop are entered in.                                             *)
CallReturns == (frame \notin {"caller", "failed"}) ~> (frame \in {"caller", "failed"})

(* What Write wrote of a value is read back as that value, whatever the     *)
(* sizes of its numbers do to the buffer they are printed in.               *)
ReadsWhatWasWritten ==
    writing = "written" =>
        /\ frame # "failed"
        /\ Complete => outer.out = vector /\ text = sink
=============================================================================
