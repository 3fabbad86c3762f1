-------------------------- MODULE NestedArraysProofs --------------------------
(***************************************************************************)
(* Theorems of NestedArrays for every alphabet, kind of item and bound:    *)
(* its types, that the buffer never serves two parsers at once, that a     *)
(* call goes on in the parser the last chunk ended in, that a finished     *)
(* array is the text that was read, and that only a text is refused with   *)
(* which none begins.  For arrays of numbers, also that what Write writes  *)
(* is never refused and is read as the value it was given.                 *)
(***************************************************************************)
EXTENDS NestedArrays, ArrayParserProofs

(* Where a scalar parser's step leads, and what it leaves of its flag. *)
LEMMA ScalarReturns ==
    ASSUME NEW back, back \notin ScalarFrame \cup {"failed"},
           PoolTypeOK, PoolInv, ArrayInv, ScalarStep(back), frame' # "failed"
    PROVE  /\ frame \in ScalarFrame
           /\ frame' \in ScalarFrame \/ (frame' = back /\ ret' \in {"pointer", "nullptr"})
           /\ frame' = back /\ ret' = "nullptr" => ~Finished(ItemKind)'
           /\ frame' = back /\ ret' = "pointer" => Finished(ItemKind)'
<1>a. ItemKind = "string" \/ ItemKind = "number"  BY ItemAssumption DEF Scalar
<1>b. back # "string" /\ back # "number" /\ back # "numberRest" /\ back # "stringStart"
  BY DEF ScalarFrame
<1>c. /\ frame = "string" \/ frame = "stringStart" => ItemKind = "string"
      /\ frame = "number" \/ frame = "numberRest" => ItemKind = "number"
  BY DEF ArrayInv, StringBusy, NumberBusy
<1>d. /\ string \in [finished : BOOLEAN, value : Seq(Char)]
      /\ number \in [finished : BOOLEAN, value : Seq(Digit)]
  BY DEF PoolTypeOK
<1> USE <1>a, <1>b, <1>c, <1>d DEF ScalarFrame, ReturnTo, Throw, Finished
<1>1. CASE StringStart  BY <1>1 DEF StringStart
<1>2. CASE StringChar  BY <1>2 DEF StringChar
<1>3. CASE StringInvalid  BY <1>3 DEF StringInvalid
<1>4. CASE StringClose(back)  BY <1>4 DEF StringClose
<1>5. CASE StringEnd(back)  BY <1>5 DEF StringEnd
<1>6. CASE NumberDigit  BY <1>6 DEF NumberDigit
<1>7. CASE NumberDirect(back)  BY <1>7 DEF NumberDirect
<1>8. CASE NumberInvalid  BY <1>8 DEF NumberInvalid
<1>9. CASE NumberEnd(back)  BY <1>9 DEF NumberEnd
<1>10. CASE NumberRestDone(back)  BY <1>10 DEF NumberRestDone
<1> QED  BY <1>1, <1>2, <1>3, <1>4, <1>5, <1>6, <1>7, <1>8, <1>9, <1>10 DEF ScalarStep

(* A step of the inner ParseArray keeps the flags and frames in order. *)
LEMMA InnerKeepsFlags ==
    ASSUME PoolTypeOK, ArrayTypeOK, PoolInv, ContainerInv, frame' # "failed",
           ArrayStep("containerLoop"), UNCHANGED outer
    PROVE  FlagsInv' /\ FramesInv'
<1>a. ItemKind = "string" \/ ItemKind = "number"  BY ItemAssumption DEF Scalar
<1>b. ArrayInv /\ FlagsInv /\ FramesInv  BY DEF ContainerInv
<1>c. PoolInv' /\ ArrayInv'
  BY <1>b, ArrayKeepsPool DEF ScalarFrame, ArrayFrame
<1> USE <1>a, <1>b
    DEF FlagsInv, FramesInv, InnerRuns, ScalarFrame, ArrayFrame, ArrayTypeOK, Finished,
        ReturnTo, Throw, ArrayNeedsMore, PoolTypeOK
<1>1. CASE ResumeItem  BY <1>1 DEF ResumeItem, ArrayResumesItem, EntryFrame
<1>2. CASE OpenArray
  <2>1. /\ frame = "array" /\ frame' = "arrayFirst" /\ ret' = ret
        /\ array' = [array EXCEPT !.began = TRUE, !.expect = TRUE]
        /\ UNCHANGED <<string, number>>
    BY <1>2 DEF OpenArray, ArrayBegins
  <2>2. array.out = <<>>  BY <1>2, <2>1 DEF OpenArray, ArrayBegins
  <2>3. /\ array'.out = <<>> /\ array'.began /\ array'.expect
        /\ array'.finished = array.finished
    BY <2>1, <2>2
  <2>4. FlagsInv'  BY <1>2, <2>1, <2>3 DEF OpenArray, ArrayBegins
  <2> QED  BY <2>1, <2>3, <2>4
<1>3. CASE ResumeArray  BY <1>3 DEF ResumeArray, ArrayResumes, ResumedFrame, ArrayInv
<1>4. CASE SkipArrayBlank  BY <1>4 DEF SkipArrayBlank, ArraySkips
<1>5. CASE EndArrayChunk("containerLoop")  BY <1>5 DEF EndArrayChunk, ArraySkips
<1>6. CASE CloseArray("containerLoop")
  BY <1>6 DEF CloseArray, ArraySkips, ArrayInv
<1>7. CASE ReadItem  BY <1>7 DEF ReadItem, ArraySkips, EntryFrame
<1>8. CASE KeepItem
  <2>1. array.out \in Seq(Seq(Char))  OBVIOUS
  <2>2. ItemsPushed # <<>>  BY <2>1, LastAppended DEF ItemsPushed
  <2>3. Finished(ItemKind)  BY <1>8 DEF KeepItem, ArrayInv
  <2> QED  BY <1>8, <2>2, <2>3 DEF KeepItem
<1>9. CASE WaitForItem("containerLoop")  BY <1>9 DEF WaitForItem
<1>10. CASE Separate  BY <1>10 DEF Separate
<1>11. CASE ScalarStep("arrayLoop") /\ UNCHANGED array
  <2>1. /\ frame \in ScalarFrame
        /\ frame' \in ScalarFrame \/ (frame' = "arrayLoop" /\ ret' \in {"pointer", "nullptr"})
        /\ frame' = "arrayLoop" /\ ret' = "nullptr" => ~Finished(ItemKind)'
    BY <1>11, ScalarReturns
  <2> QED  BY <1>11, <2>1
<1> QED
  BY <1>1, <1>2, <1>3, <1>4, <1>5, <1>6, <1>7, <1>8, <1>9, <1>10, <1>11 DEF ArrayStep

(* A step of the inner ParseArray leaves no whole number that is not over. *)
LEMMA InnerKeepsDigit ==
    ASSUME PoolTypeOK, ArrayTypeOK, PoolInv, ContainerInv, frame' # "failed",
           ArrayStep("containerLoop"), ItemKind = "number"
    PROVE  DigitInv'
<1>a. ArrayInv /\ DigitInv  BY DEF ContainerInv
<1>b. /\ {"[", "]", ","} \cap Digit = {}
      /\ EndOfChunk \notin Char
  BY CharAssumption DEF Mark, EndOfChunk, Char, Quote, Blank, Nul
<1> USE <1>a DEF DigitInv, ArrayInv, NumberBusy, StringBusy, ScalarFrame, ReturnTo, Throw, Finished
<1>1. CASE ResumeItem  BY <1>1 DEF ResumeItem, ArrayResumesItem, EntryFrame
<1>2. CASE OpenArray
  <2>1. Advance /\ look = "["  BY <1>2 DEF OpenArray
  <2> QED  BY <2>1, <1>b, AdvancedLast
<1>3. CASE ResumeArray  BY <1>3 DEF ResumeArray, ArrayResumes, ResumedFrame
<1>4. CASE SkipArrayBlank
  <2>1. text' = <<>> \/ text'[Len(text')] \notin Digit
    BY <1>4, SkippedLast DEF SkipArrayBlank
  <2> QED  BY <2>1
<1>5. CASE EndArrayChunk("containerLoop")
  <2>1. CASE look = Nul /\ Skip
    <3>1. text' = <<>> \/ text'[Len(text')] \notin Digit  BY <2>1, SkippedLast
    <3> QED  BY <3>1
  <2>2. CASE look = EndOfChunk /\ UNCHANGED <<look, text>>
    BY <1>5, <2>2, <1>b DEF EndArrayChunk, ArraySkips
  <2> QED  BY <1>5, <2>1, <2>2 DEF EndArrayChunk
<1>6. CASE CloseArray("containerLoop")
  <2>1. Advance /\ look = "]"  BY <1>6 DEF CloseArray
  <2> QED  BY <2>1, <1>b, AdvancedLast
<1>7. CASE ReadItem  BY <1>7 DEF ReadItem, ArraySkips
<1>8. CASE KeepItem
  <2>1. array'.expect = FALSE  BY <1>8 DEF KeepItem, ArrayTypeOK
  <2> QED  BY <1>8, <2>1 DEF KeepItem
<1>9. CASE WaitForItem("containerLoop")  BY <1>9 DEF WaitForItem
<1>10. CASE Separate
  <2>1. Advance /\ look = ","  BY <1>10 DEF Separate
  <2> QED  BY <2>1, <1>b, AdvancedLast
<1>11. CASE ScalarStep("arrayLoop")
  <2> USE DEF PoolTypeOK
  <2>1. frame # "string" /\ frame # "stringStart"  OBVIOUS
  <2>2. CASE NumberDigit  BY <2>2 DEF NumberDigit
  <2>3. CASE NumberDirect("arrayLoop")  BY <2>3 DEF NumberDirect
  <2>4. CASE NumberEnd("arrayLoop")  BY <2>4 DEF NumberEnd
  <2>5. CASE NumberRestDone("arrayLoop")  BY <2>5 DEF NumberRestDone
  <2> QED
    BY <1>11, <2>1, <2>2, <2>3, <2>4, <2>5
    DEF ScalarStep, StringStart, StringChar, StringInvalid, StringClose, StringEnd, NumberInvalid
<1> QED
  BY <1>1, <1>2, <1>3, <1>4, <1>5, <1>6, <1>7, <1>8, <1>9, <1>10, <1>11 DEF ArrayStep

(* The same of all that is kept for it. *)
LEMMA InnerKeepsInv ==
    ASSUME PoolTypeOK, ArrayTypeOK, PoolInv, ContainerInv, frame' # "failed",
           ArrayStep("containerLoop"), UNCHANGED outer
    PROVE  PoolInv' /\ ContainerInv'
<1>1. PoolInv' /\ ArrayInv'
  BY ArrayKeepsPool DEF ContainerInv, ScalarFrame, ArrayFrame
<1>2. FlagsInv' /\ FramesInv'  BY InnerKeepsFlags
<1>3. ItemKind = "number" => DigitInv'  BY InnerKeepsDigit
<1> QED  BY <1>1, <1>2, <1>3 DEF ContainerInv, DigitInv

(* Every step of a container keeps the types. *)
LEMMA ContainerKeepsTypes ==
    ASSUME PoolTypeOK, ArrayTypeOK, ContainerTypeOK, PoolInv, ContainerStep("caller")
    PROVE  /\ PoolTypeOK' /\ ArrayTypeOK' /\ ContainerTypeOK'
           /\ frame' \in ScalarFrame \cup ArrayFrame \cup ContainerFrame \cup {"caller", "failed"}
<1>b. {"[", "]", ",", Blank, Nul} \subseteq Char  BY DEF Char, Mark
<1> USE <1>b DEF PoolTypeOK, ArrayTypeOK, ContainerTypeOK, ArrayFrame, ContainerFrame,
        ContainerNeedsMore, ReturnTo, Throw
<1>0. sameSize' \in BOOLEAN  BY DEF ContainerStep
<1>1. CASE ContainerResumesItem  BY <1>0, <1>1 DEF ContainerResumesItem
<1>2. CASE OpenContainer
  <2>1. CASE look = "["  BY <1>0, <1>2, <2>1, AdvanceKeepsTypes DEF OpenContainer
  <2>2. CASE look # "["  BY <1>0, <1>2, <2>2 DEF OpenContainer
  <2> QED  BY <2>1, <2>2
<1>3. CASE ResumeContainer  BY <1>0, <1>3 DEF ResumeContainer
<1>4. CASE SkipContainerBlank
  <2>1. text' \in Seq(Char \cup {Gap}) /\ look' \in Char \cup {Unread, EndOfChunk}
    BY <1>4, SkipKeepsTypes DEF SkipContainerBlank
  <2> QED  BY <1>0, <1>4, <2>1 DEF SkipContainerBlank, ContainerSkips
<1>5. CASE EndContainerChunk("caller")
  <2>1. text' \in Seq(Char \cup {Gap}) /\ look' \in Char \cup {Unread, EndOfChunk}
    BY <1>5, SkipKeepsTypes DEF EndContainerChunk
  <2> QED  BY <1>0, <1>5, <2>1 DEF EndContainerChunk
<1>6. CASE CloseContainer("caller")
  BY <1>0, <1>6, AdvanceKeepsTypes DEF CloseContainer, Closed
<1>7. CASE ReadInner  BY <1>0, <1>7 DEF ReadInner
<1>8. CASE KeepInner
  <2>1. array.out \in Seq(Seq(Char)) /\ outer.out \in Seq(Seq(Seq(Char)))  OBVIOUS
  <2>2. Append(outer.out, array.out) \in Seq(Seq(Seq(Char)))  BY <2>1, AppendIsSeq
  <2>3. outer' \in [out : Seq(Seq(Seq(Char))), began : BOOLEAN, expect : BOOLEAN, finished : BOOLEAN]
    BY <1>8, <2>2 DEF KeepInner
  <2>4. <<>> \in Seq(Seq(Char))  BY EmptyIsSeq
  <2>5. ArrayTypeOK'  BY <1>8, <2>4 DEF KeepInner, InnerSwapped
  <2> QED  BY <1>0, <1>8, <2>3, <2>5 DEF KeepInner
<1>9. CASE WaitForInner("caller")  BY <1>0, <1>9 DEF WaitForInner
<1>10. CASE SeparateInner
  <2>1. CASE look = ","  BY <1>0, <1>10, <2>1, AdvanceKeepsTypes DEF SeparateInner
  <2>2. CASE look # ","  BY <1>0, <1>10, <2>2 DEF SeparateInner
  <2> QED  BY <2>1, <2>2
<1>11. CASE ArrayStep("containerLoop") /\ UNCHANGED outer
  BY <1>0, <1>11, ArrayKeepsTypes
<1> QED
  BY <1>1, <1>2, <1>3, <1>4, <1>5, <1>6, <1>7, <1>8, <1>9, <1>10, <1>11 DEF ContainerStep

LEMMA InnerIsKept ==
    ASSUME ContainerTypeOK,
           outer' = [outer EXCEPT !.out = Append(outer.out, array.out), !.expect = FALSE]
    PROVE  outer'.out # <<>>
<1>1. outer.out \in Seq(Seq(Seq(Char)))  BY DEF ContainerTypeOK
<1>2. outer'.out = Append(outer.out, array.out)  BY DEF ContainerTypeOK
<1>3. Append(outer.out, array.out) # <<>>  BY <1>1, LastAppended
<1> QED  BY <1>2, <1>3

(* A step of the container that does not throw keeps all in order. *)
LEMMA ContainerKeepsInv ==
    ASSUME PoolTypeOK, ArrayTypeOK, ContainerTypeOK, PoolInv, ContainerInv,
           ContainerStep("caller"), frame' # "failed"
    PROVE  PoolInv' /\ ContainerInv'
<1>a. ArrayInv /\ FlagsInv /\ FramesInv /\ DigitInv  BY DEF ContainerInv
<1>b. /\ {"[", "]", ","} \cap Digit = {}
      /\ EndOfChunk \notin Char
  BY CharAssumption DEF Mark, EndOfChunk, Char, Quote, Blank, Nul
<1>c. ItemKind = "string" \/ ItemKind = "number"  BY ItemAssumption DEF Scalar
<1>d. ASSUME text' = <<>> \/ text'[Len(text')] \notin Digit  PROVE DigitInv'
  BY <1>d DEF DigitInv
<1>e. ASSUME UNCHANGED <<text, number>>, frame \in ContainerFrame, frame' \notin {"number", "numberRest"}
      PROVE  DigitInv'
  BY <1>a, <1>e DEF DigitInv, ContainerFrame, NumberBusy
<1> USE <1>a, <1>c DEF ContainerInv, PoolInv, ArrayInv, FlagsInv, FramesInv, StringBusy, NumberBusy,
        InnerRuns, ScalarFrame, ArrayFrame, ContainerFrame, ContainerSkips, PoolTypeOK,
        ArrayTypeOK, ContainerTypeOK, ContainerNeedsMore, ReturnTo, Throw, Finished
<1>1. CASE ContainerResumesItem
  <2>1. DigitInv'  BY <1>1, <1>e DEF ContainerResumesItem
  <2> QED  BY <1>1, <2>1 DEF ContainerResumesItem
<1>2. CASE OpenContainer
  <2>1. Advance /\ look = "["  BY <1>2 DEF OpenContainer
  <2>2. DigitInv'  BY <2>1, <1>b, <1>d, AdvancedLast
  <2>3. /\ frame = "container" /\ frame' = "containerFirst" /\ array.finished /\ ~outer.began
        /\ outer' = [outer EXCEPT !.began = TRUE, !.expect = TRUE]
        /\ UNCHANGED <<ret, buffer, scan, string, number, array>>
    BY <1>2 DEF OpenContainer
  <2> QED  BY <2>2, <2>3
<1>3. CASE ResumeContainer
  <2>1. DigitInv'  BY <1>3, <1>e DEF ResumeContainer
  <2>2. /\ frame = "container" /\ array.finished /\ outer.began
        /\ UNCHANGED <<ret, buffer, scan, string, number, array, outer>>
        /\ frame' = IF outer.out = <<>> THEN "containerFirst" ELSE "containerLoop"
    BY <1>3 DEF ResumeContainer
  <2>3. string.finished /\ number.finished  BY <2>2
  <2>4. PoolInv' /\ ArrayInv'  BY <2>2, <2>3
  <2>5. FlagsInv' /\ FramesInv'  BY <2>2, <2>3
  <2> QED  BY <2>1, <2>4, <2>5
<1>4. CASE SkipContainerBlank
  <2>1. DigitInv'  BY <1>4, <1>d, SkippedLast DEF SkipContainerBlank
  <2> QED  BY <1>4, <2>1 DEF SkipContainerBlank
<1>5. CASE EndContainerChunk("caller")
  <2>1. DigitInv'  BY <1>5, <1>d, <1>e, SkippedLast DEF EndContainerChunk
  <2> QED  BY <1>5, <2>1 DEF EndContainerChunk
<1>6. CASE CloseContainer("caller")
  <2>1. Advance /\ look = "]"  BY <1>6 DEF CloseContainer
  <2>2. DigitInv'  BY <2>1, <1>b, <1>d, AdvancedLast
  <2>3. text' # <<>>  BY <2>1, AdvancedLast
  <2>4. /\ frame \in {"containerFirst", "containerLoop"} /\ ret = "none"
        /\ frame' = "caller" /\ ret' = "pointer"
        /\ outer' = [outer EXCEPT !.began = FALSE, !.finished = TRUE]
        /\ UNCHANGED <<buffer, scan, string, number, array>>
    BY <1>6 DEF CloseContainer, Closed
  <2>5. PoolInv' /\ ArrayInv'  BY <2>4
  <2>6. FlagsInv' /\ FramesInv'  BY <2>3, <2>4
  <2> QED  BY <2>2, <2>5, <2>6
<1>7. CASE ReadInner
  <2>1. DigitInv'  BY <1>7, <1>e DEF ReadInner
  <2> QED  BY <1>7, <2>1 DEF ReadInner
<1>8. CASE KeepInner
  <2>1. DigitInv'  BY <1>8, <1>e DEF KeepInner
  <2>2. /\ SizeAgrees
        /\ frame = "containerLoop" /\ frame' = frame /\ ret = "pointer" /\ ret' = "none"
        /\ UNCHANGED <<look, text, buffer, scan, string, number>>
    BY <1>8 DEF KeepInner
  <2>3. outer' = [outer EXCEPT !.out = Append(outer.out, array.out), !.expect = FALSE]
    BY <1>8, <2>2 DEF KeepInner
  <2>4. array' = [array EXCEPT !.out = <<>>]  BY <1>8 DEF KeepInner, InnerSwapped
  <2>5. outer'.out # <<>>  BY <2>3, InnerIsKept
  <2>6. PoolInv' /\ ArrayInv'  BY <2>2, <2>4
  <2>7. /\ array.finished /\ array'.finished /\ array'.out = <<>>
        /\ array'.began = array.began /\ array'.expect = array.expect
        /\ string.finished /\ number.finished
    BY <2>2, <2>4
  <2>8. ~array'.began  BY <2>2, <2>7
  <2>9. FlagsInv'  BY <2>2, <2>5, <2>7, <2>8
  <2>10. FramesInv'  BY <2>2, <2>3, <2>7
  <2> QED  BY <2>1, <2>6, <2>9, <2>10
<1>9. CASE WaitForInner("caller")
  <2>1. DigitInv'  BY <1>9, <1>e DEF WaitForInner
  <2>2. /\ frame = "containerLoop" /\ ret = "nullptr" /\ frame' = "caller" /\ ret' = "nullptr"
        /\ outer' = [outer EXCEPT !.finished = FALSE]
        /\ UNCHANGED <<buffer, scan, string, number, array>>
    BY <1>9 DEF WaitForInner
  <2>3. PoolInv' /\ ArrayInv'  BY <2>2
  <2>4. FlagsInv' /\ FramesInv'  BY <2>2
  <2> QED  BY <2>1, <2>3, <2>4
<1>10. CASE SeparateInner
  <2>1. Advance /\ look = ","  BY <1>10 DEF SeparateInner
  <2>2. DigitInv'  BY <2>1, <1>b, <1>d, AdvancedLast
  <2>3. /\ frame = "containerLoop" /\ ret = "none" /\ outer.began /\ array.finished
        /\ outer' = [outer EXCEPT !.expect = TRUE]
        /\ UNCHANGED <<frame, ret, buffer, scan, string, number, array>>
    BY <1>10 DEF SeparateInner
  <2>4. PoolInv' /\ ArrayInv'  BY <2>3
  <2>5. FlagsInv' /\ FramesInv'  BY <2>3
  <2> QED  BY <2>2, <2>4, <2>5
<1>11. CASE ArrayStep("containerLoop") /\ UNCHANGED outer
  BY <1>11, InnerKeepsInv
<1> QED
  BY <1>1, <1>2, <1>3, <1>4, <1>5, <1>6, <1>7, <1>8, <1>9, <1>10, <1>11 DEF ContainerStep

----------------------------------------------------------------------------
(* The values that are written, and the calls of Write. *)
LEMMA ValuesAreTyped ==
    ASSUME NEW v \in Value
    PROVE  v \in Seq(Seq(Seq(Digit)))
<1>1. ASSUME NEW S, NEW T, S \subseteq T, NEW n \in Nat, NEW s \in BoundedSeq(S, n)
      PROVE  s \in Seq(T)
  <2>1. PICK m \in 0..n : s \in [1..m -> S]  BY <1>1 DEF BoundedSeq, SeqOf
  <2> QED  BY <1>1, <2>1
<1>2. Number \subseteq Seq(Digit)  BY <1>1, BoundAssumption DEF Number
<1>3. BoundedSeq(Number, MaxInner) \subseteq Seq(Seq(Digit))
  BY <1>1, <1>2, SizeAssumption
<1> QED  BY <1>1, <1>3, SizeAssumption DEF Value

(* snprintf has room for the whole number and its zero, so what is given to *)
(* S.write is the number's digits and nothing that was in the buffer.       *)
LEMMA PrintedIsDigits ==
    ASSUME WriterTypeOK, NEW digits \in Seq(Digit), NEW size \in Nat, Len(digits) < size,
           size # Len(chars) => size = Len(digits) + 1
    PROVE  /\ Printed(digits, size) \in Seq(Digit \cup {"zero"})
           /\ SubSeq(Printed(digits, size), 1, Len(digits)) = digits
<1> DEFINE print == Printed(digits, size)
<1>1. ASSUME NEW i \in 1..size
      PROVE  print[i] \in Digit \cup {"zero"} /\ (i <= Len(digits) => print[i] = digits[i])
  <2>1. print[i] = IF i <= Len(digits) /\ i < size THEN digits[i]
                   ELSE IF i <= Len(digits) + 1 THEN "zero" ELSE chars[i]
    BY DEF Printed
  <2>2. CASE i <= Len(digits)  BY <2>1, <2>2
  <2>3. CASE i = Len(digits) + 1  BY <2>1, <2>3
  <2>4. CASE i > Len(digits) + 1
    <3>1. size = Len(chars) /\ chars[i] \in Digit \cup {"zero"}  BY <2>4 DEF WriterTypeOK
    <3> QED  BY <2>1, <2>4, <3>1
  <2> QED  BY <2>2, <2>3, <2>4
<1>2. print \in [1..size -> Digit \cup {"zero"}]
  <2>1. DOMAIN print = 1..size /\ print = [i \in 1..size |-> print[i]]  BY DEF Printed
  <2> QED  BY <1>1, <2>1
<1>3. print \in Seq(Digit \cup {"zero"}) /\ Len(print) = size  BY <1>2
<1> HIDE DEF print
<1>4. SubSeq(print, 1, Len(digits)) = digits
  <2>1. /\ SubSeq(print, 1, Len(digits)) \in Seq(Digit \cup {"zero"})
        /\ Len(SubSeq(print, 1, Len(digits))) = Len(digits)
        /\ \A i \in 1..Len(digits) : SubSeq(print, 1, Len(digits))[i] = print[i]
    BY <1>3
  <2>2. \A i \in 1..Len(digits) : SubSeq(print, 1, Len(digits))[i] = digits[i]
    BY <1>1, <2>1
  <2> QED  BY <2>1, <2>2
<1> QED  BY <1>3, <1>4 DEF print

(* The range and the place in it of the innermost Write. *)
LEMMA PlaceOfPath ==
    ASSUME WriterTypeOK, PathInv, writing \in {"range", "element"}
    PROVE  \/ \E i \in 0..Len(vector) :
                /\ path = <<i>> /\ Len(path) = 1 /\ path[1] = i
                /\ At = i /\ InnerRange = vector
                /\ writing = "element" => i > 0
           \/ \E i \in 1..Len(vector) : \E j \in 0..Len(vector[i]) :
                /\ path = <<i, j>> /\ Len(path) = 2 /\ path[1] = i /\ path[2] = j
                /\ At = j /\ InnerRange = vector[i]
                /\ writing = "element" => j > 0
BY DEF PathInv, At, InnerRange

LEMMA SinkIsText ==
    ASSUME NEW s \in Seq(Char), NEW c \in {"[", "]", ","}
    PROVE  Append(s, c) \in Seq(Char)
<1>1. c \in Char  BY DEF Char, Mark
<1> QED  BY <1>1, AppendIsSeq

(* A step of Write keeps its types and stays in the ranges. *)
LEMMA WriterKeepsTypes ==
    ASSUME WriterTypeOK, PathInv, WriterStep
    PROVE  WriterTypeOK' /\ PathInv'
<1> USE DEF WriterTypeOK
<1>1. CASE NextElement
  <2>1. CommaBetween = sink \/ CommaBetween = Append(sink, ",")  BY DEF CommaBetween
  <2>2. sink' \in Seq(Char)  BY <1>1, <2>1, SinkIsText DEF NextElement
  <2>3. PathInv'
    <3> USE <1>1 DEF NextElement, UpTo, PathInv
    <3>1. CASE \E i \in 0..Len(vector) :
                 path = <<i>> /\ Len(path) = 1 /\ At = i /\ InnerRange = vector
      BY <3>1
    <3>2. CASE \E i \in 1..Len(vector) : \E j \in 0..Len(vector[i]) :
                 path = <<i, j>> /\ Len(path) = 2 /\ At = j /\ InnerRange = vector[i]
      BY <3>2
    <3> QED  BY <3>1, <3>2, PlaceOfPath
  <2> QED  BY <1>1, <2>2, <2>3 DEF NextElement
<1>2. CASE WriteInner
  <2>1. sink' \in Seq(Char)  BY <1>2, SinkIsText DEF WriteInner
  <2>2. PICK i \in 1..Len(vector) : path = <<i>>  BY <1>2, PlaceOfPath DEF WriteInner
  <2>3. path' = <<i, 0>> /\ vector' = vector /\ writing' = "range"
    BY <1>2, <2>2 DEF WriteInner
  <2>4. 0 \in 0..Len(vector[i])
    <3>1. vector[i] \in Seq(Seq(Digit))  BY <2>2
    <3> QED  BY <3>1
  <2>5. PathInv'  BY <2>2, <2>3, <2>4 DEF PathInv
  <2> QED  BY <1>2, <2>1, <2>5 DEF WriteInner
<1>3. CASE EndRange
  <2>1. sink' \in Seq(Char)  BY <1>3, SinkIsText DEF EndRange
  <2>2. CASE Len(path) = 1  BY <1>3, <2>1, <2>2 DEF EndRange, PathInv
  <2>3. CASE Len(path) # 1
    <3>1. PICK i \in 1..Len(vector) : path[1] = i
      BY <1>3, <2>3, PlaceOfPath DEF EndRange
    <3>2. path' = <<i>> /\ UNCHANGED <<vector, writing>>  BY <1>3, <2>3, <3>1 DEF EndRange
    <3> QED  BY <1>3, <2>1, <3>2 DEF EndRange, PathInv
  <2> QED  BY <2>2, <2>3
<1>4. CASE WriteScalarType
  <2>a. PICK i \in 1..Len(vector) :
            \E j \in 1..Len(vector[i]) : path = <<i, j>> /\ path[1] = i /\ path[2] = j
    BY <1>4, PlaceOfPath DEF WriteScalarType
  <2>1. PICK j \in 1..Len(vector[i]) : path = <<i, j>> /\ path[1] = i /\ path[2] = j
    BY <2>a
  <2> DEFINE digits == vector[i][j]
             size == IF TooSmall(Len(chars), Len(digits)) THEN Len(digits) + 1 ELSE Len(chars)
  <2>2. digits \in Seq(Digit)
    <3>1. vector[i] \in Seq(Seq(Digit))  OBVIOUS
    <3> QED  BY <3>1
  <2>3. /\ size \in Nat /\ Len(digits) < size
        /\ size # Len(chars) => size = Len(digits) + 1
    BY <2>2 DEF TooSmall
  <2>4. /\ chars' = Printed(digits, size)
        /\ sink' = sink \o SubSeq(chars', 1, Len(digits))
        /\ UNCHANGED <<vector, path>> /\ writing' = "range"
    BY <1>4, <2>1 DEF WriteScalarType
  <2> HIDE DEF digits, size
  <2>5. chars' \in Seq(Digit \cup {"zero"}) /\ SubSeq(chars', 1, Len(digits)) = digits
    BY <2>2, <2>3, <2>4, PrintedIsDigits
  <2>6. digits \in Seq(Char)
    <3>1. Digit \subseteq Char  BY DEF Char
    <3> QED  BY <2>2, <3>1, SeqOfSubset
  <2>7. sink' \in Seq(Char)  BY <2>4, <2>5, <2>6
  <2>8. PathInv'  BY <2>1, <2>4 DEF PathInv
  <2> QED  BY <2>4, <2>5, <2>7, <2>8
<1> QED  BY <1>1, <1>2, <1>3, <1>4 DEF WriterStep

----------------------------------------------------------------------------
LEMMA WrittenIsText == WriterTypeOK => \A i \in 1..Len(sink) : sink[i] \in Char
BY DEF WriterTypeOK

(* What is fed is a character of the alphabet, or the end of the chunk. *)
LEMMA FedIsCharacter ==
    ASSUME PoolTypeOK, WriterTypeOK, FeedText
    PROVE  /\ frame \notin {"caller", "failed"} /\ ret = "none"
           /\ look = Unread /\ look' \in Char \cup {EndOfChunk}
           /\ UNCHANGED <<frame, ret, text, buffer, scan, string, number>>
<1>1. {Quote, Blank, Nul} \cup Content \cup Digit \subseteq Char  BY CharAssumption DEF Char
<1>2. Offer \subseteq Char  BY <1>1 DEF Offer
<1>3. CASE FeedChar  BY <1>2, <1>3 DEF FeedChar, Feed
<1>4. CASE Len(text) < Len(sink) /\ Feed(sink[Len(text) + 1])
  <2>1. Len(text) + 1 \in 1..Len(sink)  BY <1>4 DEF PoolTypeOK, WriterTypeOK
  <2> QED  BY <1>4, <2>1, WrittenIsText DEF Feed
<1>5. CASE FeedEnd  BY <1>5 DEF FeedEnd, Feed
<1> QED  BY <1>3, <1>4, <1>5 DEF FeedText

LEMMA FeedKeepsControlInv ==
    ASSUME ControlInv, FeedText, UNCHANGED <<array, outer, sameSize, writerVars>>
    PROVE  ControlInv'
<1>1. /\ PoolTypeOK /\ WriterTypeOK /\ PathInv /\ ArrayTypeOK /\ ContainerTypeOK
      /\ frame \in ScalarFrame \cup ArrayFrame \cup ContainerFrame \cup {"caller", "failed"}
  BY DEF ControlInv, TypeOK
<1>2. /\ frame \notin {"caller", "failed"} /\ ret = "none"
      /\ look = Unread /\ look' \in Char \cup {EndOfChunk}
      /\ UNCHANGED <<frame, ret, text, buffer, scan, string, number>>
  BY <1>1, FedIsCharacter
<1>3. PoolInv /\ ArrayInv /\ FlagsInv /\ FramesInv /\ DigitInv
  BY <1>2 DEF ControlInv, ContainerInv
<1>4. TypeOK'
  BY <1>1, <1>2 DEF TypeOK, PoolTypeOK, ArrayTypeOK, ContainerTypeOK, WriterTypeOK, writerVars
<1>5. PathInv'  BY <1>1 DEF PathInv, writerVars
<1>6. PoolInv'  BY <1>2, <1>3 DEF PoolInv, StringBusy, NumberBusy
<1>7. ArrayInv'  BY <1>2, <1>3 DEF ArrayInv, StringBusy, NumberBusy
<1>8. FlagsInv'  BY <1>2, <1>3 DEF FlagsInv, Finished
<1>9. FramesInv'  BY <1>2, <1>3 DEF FramesInv, InnerRuns, Finished
<1>10. Unread \notin Char  BY CharAssumption DEF Char, Unread, Mark, Quote, Blank, Nul
<1>11. DigitInv'  BY <1>2, <1>3, <1>10 DEF DigitInv, NumberBusy
<1> QED  BY <1>4, <1>5, <1>6, <1>7, <1>8, <1>9, <1>11 DEF ControlInv, ContainerInv

LEMMA StepsAreOfCalls ==
    ASSUME ContainerStep("caller")
    PROVE  frame # "failed"
BY DEF ContainerStep, ContainerResumesItem, OpenContainer, ResumeContainer, SkipContainerBlank,
   EndContainerChunk, CloseContainer, ReadInner, KeepInner, WaitForInner, SeparateInner,
   ContainerSkips, ArrayStep, ResumeItem, ArrayResumesItem, OpenArray, ArrayBegins,
   ResumeArray, ArrayResumes, SkipArrayBlank, EndArrayChunk, CloseArray, ReadItem, ArraySkips,
   KeepItem, WaitForItem, Separate, ScalarStep, StringStart, StringChar, StringInvalid,
   StringClose, StringEnd, NumberDigit, NumberDirect, NumberInvalid, NumberEnd, NumberRestDone

LEMMA ContainerKeepsControlInv ==
    ASSUME ControlInv, ContainerStep("caller"), UNCHANGED writerVars
    PROVE  ControlInv'
<1>1. /\ PoolTypeOK /\ WriterTypeOK /\ PathInv /\ ArrayTypeOK /\ ContainerTypeOK
  BY DEF ControlInv, TypeOK
<1>2. frame # "failed"  BY StepsAreOfCalls
<1>3. PoolInv /\ ContainerInv  BY <1>2 DEF ControlInv
<1>4. TypeOK'
  BY <1>1, <1>3, ContainerKeepsTypes DEF TypeOK, WriterTypeOK, writerVars
<1>5. PathInv'  BY <1>1 DEF PathInv, writerVars
<1>6. frame' # "failed" => PoolInv' /\ ContainerInv'  BY <1>1, <1>3, ContainerKeepsInv
<1> QED  BY <1>4, <1>5, <1>6 DEF ControlInv

LEMMA ParseKeepsControlInv ==
    ASSUME ControlInv, Parse, UNCHANGED writerVars
    PROVE  ControlInv'
<1>1. /\ PoolTypeOK /\ WriterTypeOK /\ PathInv /\ ArrayTypeOK /\ ContainerTypeOK
  BY DEF ControlInv, TypeOK
<1>2. PoolInv /\ ArrayInv /\ FlagsInv /\ FramesInv /\ DigitInv
  BY DEF ControlInv, ContainerInv, Parse
<1>3. /\ frame = "caller" /\ frame' = "container" /\ ret' = "none"
      /\ ~(outer.finished /\ text # <<>>) /\ look' = Unread
      /\ UNCHANGED <<text, buffer, scan, string, number, array, outer, sameSize>>
  BY DEF Parse, Complete
<1>4. TypeOK'
  BY <1>1, <1>3 DEF TypeOK, ContainerFrame, PoolTypeOK, ArrayTypeOK, ContainerTypeOK, WriterTypeOK,
     writerVars
<1>5. PathInv'  BY <1>1 DEF PathInv, writerVars
<1>6. PoolInv'  BY <1>2, <1>3 DEF PoolInv, StringBusy, NumberBusy, ScalarFrame
<1>7. ArrayInv'  BY <1>2, <1>3 DEF ArrayInv, StringBusy, NumberBusy
<1>8. FlagsInv'  BY <1>2, <1>3 DEF FlagsInv, Finished, ScalarFrame
<1>9. FramesInv'
  BY <1>2, <1>3 DEF FramesInv, InnerRuns, ScalarFrame, ArrayFrame
<1>10. DigitInv'  BY <1>2, <1>3 DEF DigitInv, NumberBusy
<1> QED  BY <1>4, <1>5, <1>6, <1>7, <1>8, <1>9, <1>10 DEF ControlInv, ContainerInv

LEMMA RenewKeepsControlInv ==
    ASSUME ControlInv, Renew
    PROVE  ControlInv'
<1>1. /\ PoolTypeOK /\ WriterTypeOK /\ ArrayTypeOK /\ ContainerTypeOK  BY DEF ControlInv, TypeOK
<1>2. WriterTypeOK' /\ PathInv'
  <2>1. <<>> \in Seq(Seq(Seq(Digit))) /\ <<>> \in Seq(Char)  BY EmptyIsSeq
  <2> QED  BY <1>1, <2>1 DEF WriterTypeOK, PathInv, Renew
<1>3. <<>> \in Seq(Seq(Seq(Char))) /\ <<>> \in Seq(Seq(Char)) /\ <<>> \in Seq(Char)
      /\ <<>> \in Seq(Digit) /\ <<>> \in Seq(Char \cup {Gap})
  BY EmptyIsSeq
<1>4. CASE Swap
  <2>1. PoolInv /\ ArrayInv /\ FlagsInv /\ FramesInv /\ DigitInv
    BY <1>4 DEF ControlInv, ContainerInv, Swap, Complete
  <2>2. /\ frame = "caller" /\ outer.finished /\ outer' = [outer EXCEPT !.out = <<>>] /\ text' = <<>>
        /\ UNCHANGED <<frame, ret, look, buffer, scan, string, number, array, sameSize>>
    BY <1>4 DEF Swap, Complete
  <2>3. /\ outer'.out = <<>> /\ outer'.began = outer.began /\ outer'.expect = outer.expect
        /\ outer'.finished = outer.finished
    BY <1>1, <2>2 DEF ContainerTypeOK
  <2>4. ContainerTypeOK'  BY <1>1, <1>3, <2>2 DEF ContainerTypeOK
  <2>5. TypeOK'  BY <1>1, <1>2, <1>3, <2>2, <2>4 DEF TypeOK, PoolTypeOK, ArrayTypeOK
  <2>6. PoolInv'  BY <2>1, <2>2 DEF PoolInv, StringBusy, NumberBusy
  <2>7. ArrayInv'  BY <2>1, <2>2 DEF ArrayInv, StringBusy, NumberBusy
  <2>8. FlagsInv'  BY <2>1, <2>2, <2>3 DEF FlagsInv, FramesInv, Finished
  <2>9. FramesInv'  BY <2>1, <2>2, <2>3 DEF FramesInv, InnerRuns, ScalarFrame, ArrayFrame
  <2>10. DigitInv'  BY <2>2 DEF DigitInv
  <2> QED  BY <1>2, <2>5, <2>6, <2>7, <2>8, <2>9, <2>10 DEF ControlInv, ContainerInv
<1>5. CASE Drop
  <2> USE <1>5 DEF Drop, NewPool, NewArray
  <2>1. TypeOK'
    BY <1>1, <1>2, <1>3 DEF TypeOK, PoolTypeOK, ArrayTypeOK, ContainerTypeOK
  <2>2. PoolInv' /\ ArrayInv'  BY <1>3 DEF PoolInv, ArrayInv, StringBusy, NumberBusy, ScalarFrame
  <2>3. FlagsInv' /\ FramesInv' /\ DigitInv'
    BY DEF FlagsInv, FramesInv, DigitInv, InnerRuns, Finished, ScalarFrame, ArrayFrame
  <2> QED  BY <1>2, <2>1, <2>2, <2>3 DEF ControlInv, ContainerInv
<1> QED  BY <1>4, <1>5 DEF Renew

LEMMA WrittenKeepsControlInv ==
    ASSUME ControlInv, WriterTypeOK', PathInv', UNCHANGED containerVars
    PROVE  ControlInv'
<1>1. UNCHANGED <<frame, ret, look, text, buffer, scan, string, number, array, outer, sameSize>>
  BY DEF containerVars, arrayVars, poolVars
<1>2. TypeOK'
  BY <1>1 DEF ControlInv, TypeOK, PoolTypeOK, ArrayTypeOK, ContainerTypeOK
<1>3. frame # "failed" => PoolInv' /\ ArrayInv'
  BY <1>1 DEF ControlInv, ContainerInv, PoolInv, ArrayInv, StringBusy, NumberBusy
<1>4. frame # "failed" => FlagsInv' /\ FramesInv' /\ DigitInv'
  BY <1>1 DEF ControlInv, ContainerInv, FlagsInv, FramesInv, DigitInv, InnerRuns, NumberBusy, Finished
<1> QED  BY <1>1, <1>2, <1>3, <1>4 DEF ControlInv, ContainerInv

LEMMA WritingKeepsControlInv ==
    ASSUME ControlInv, WriteValue \/ WriterStep, UNCHANGED containerVars
    PROVE  ControlInv'
<1>1. WriterTypeOK /\ PathInv  BY DEF ControlInv, TypeOK
<1>2. CASE WriteValue
  <2>1. PICK v \in Value : Write(v)  BY <1>2 DEF WriteValue
  <2>2. v \in Seq(Seq(Seq(Digit)))  BY ValuesAreTyped
  <2>3. sink' \in Seq(Char)
    <3>1. "[" \in Char  BY DEF Char, Mark
    <3>2. \A c \in Char : <<c>> \in Seq(Char)  OBVIOUS
    <3> QED  BY <2>1, <3>1, <3>2 DEF Write
  <2>4. path' = <<0>> /\ vector' = v /\ writing' = "range" /\ chars' = chars  BY <2>1 DEF Write
  <2>5. PathInv'  BY <2>2, <2>4 DEF PathInv
  <2>6. WriterTypeOK'  BY <1>1, <2>2, <2>3, <2>4 DEF WriterTypeOK
  <2> QED  BY <2>5, <2>6, WrittenKeepsControlInv
<1>3. CASE WriterStep  BY <1>1, <1>3, WriterKeepsTypes, WrittenKeepsControlInv
<1> QED  BY <1>2, <1>3

LEMMA ControlInitial == Init => ControlInv
<1> SUFFICES ASSUME Init  PROVE ControlInv
  OBVIOUS
<1>1. <<>> \in Seq(Seq(Seq(Char))) /\ <<>> \in Seq(Seq(Char)) /\ <<>> \in Seq(Char)
      /\ <<>> \in Seq(Digit) /\ <<>> \in Seq(Char \cup {Gap})
      /\ <<>> \in Seq(Seq(Seq(Digit))) /\ <<>> \in Seq(Digit \cup {"zero"})
  BY EmptyIsSeq
<1> USE DEF Init, ContainerInit, WriterInit, PoolInit, NewArray
<1>2. TypeOK /\ PathInv
  BY <1>1 DEF TypeOK, PoolTypeOK, ArrayTypeOK, ContainerTypeOK, WriterTypeOK, PathInv
<1>3. PoolInv /\ ArrayInv  BY <1>1 DEF PoolInv, ArrayInv, StringBusy, NumberBusy, ScalarFrame
<1>4. FlagsInv /\ FramesInv /\ DigitInv
  BY DEF FlagsInv, FramesInv, DigitInv, InnerRuns, Finished, ScalarFrame, ArrayFrame
<1> QED  BY <1>2, <1>3, <1>4 DEF ControlInv, ContainerInv

LEMMA ControlKept == ControlInv /\ [Next]_vars => ControlInv'
<1> SUFFICES ASSUME ControlInv, [Next]_vars  PROVE ControlInv'
  OBVIOUS
<1>1. CASE Parse /\ UNCHANGED writerVars  BY <1>1, ParseKeepsControlInv
<1>2. CASE ContainerStep("caller") /\ UNCHANGED writerVars  BY <1>2, ContainerKeepsControlInv
<1>3. CASE FeedText /\ UNCHANGED <<array, outer, sameSize>> /\ UNCHANGED writerVars
  BY <1>3, FeedKeepsControlInv
<1>4. CASE Renew  BY <1>4, RenewKeepsControlInv
<1>5. CASE (WriteValue \/ WriterStep) /\ UNCHANGED containerVars
  BY <1>5, WritingKeepsControlInv
<1>6. CASE UNCHANGED vars
  <2>1. UNCHANGED writerVars /\ UNCHANGED containerVars  BY <1>6 DEF vars
  <2>2. WriterTypeOK' /\ PathInv'
    BY <2>1 DEF ControlInv, TypeOK, WriterTypeOK, PathInv, writerVars
  <2> QED  BY <2>1, <2>2, WrittenKeepsControlInv
<1> QED  BY <1>1, <1>2, <1>3, <1>4, <1>5, <1>6 DEF Next, Step

(* The parser, the parser of its items and the pool always agree on who is  *)
(* in the middle of what.                                                   *)
THEOREM ControlInvariance == Spec => []ControlInv
BY ControlInitial, ControlKept, PTL DEF Spec

(* Between two calls exactly the parsers on the way down to where the chunk *)
(* ended are unfinished, so the next call goes on there.                    *)
THEOREM ItemsResume == Spec => []ItemResumes
<1>1. ControlInv => ItemResumes
  <2> SUFFICES ASSUME ControlInv, frame = "caller"
               PROVE  /\ ~Finished(ItemKind) => ~array.finished /\ array.began /\ array.expect
                      /\ ~array.finished => ~outer.finished /\ outer.began /\ outer.expect
                      /\ array.out # <<>> => ~array.finished
                      /\ ItemKind = "number" /\ text # <<>> /\ text[Len(text)] \in Digit =>
                            ~number.finished
    BY DEF ItemResumes
  <2>1. FlagsInv /\ DigitInv  BY DEF ControlInv, ContainerInv
  <2> QED  BY <2>1 DEF FlagsInv, DigitInv, NumberBusy, ScalarFrame
<1> QED  BY <1>1, ControlInvariance, PTL

----------------------------------------------------------------------------
(* The texts of the inner arrays, one for each. *)
LEMMA InnerTextsAppend ==
    ASSUME NEW vs \in Seq(Seq(Seq(Char))), NEW v \in Seq(Seq(Char))
    PROVE  /\ InnerTexts(vs) \in Seq(Seq(Char))
           /\ InnerTexts(vs) = <<>> <=> vs = <<>>
           /\ InnerTexts(Append(vs, v)) = Append(InnerTexts(vs), ArrayText(v))
<1> DEFINE t == ArrayText(v)
           n == Len(vs)
           more == Append(vs, v)
<1>0. ASSUME NEW u \in Seq(Seq(Char)) PROVE ArrayText(u) \in Seq(Char)
  <2>1. <<>> \in Seq(Char)  BY EmptyIsSeq
  <2>2. ItemTexts(u) \in Seq(Seq(Char))  BY <2>1, ItemTextsAppend
  <2> QED  BY <2>2, OpenedTyped DEF ArrayText
<1>1. ASSUME NEW us \in Seq(Seq(Seq(Char)))
      PROVE  /\ InnerTexts(us) \in Seq(Seq(Char)) /\ Len(InnerTexts(us)) = Len(us)
             /\ \A i \in 1..Len(us) : InnerTexts(us)[i] = ArrayText(us[i])
  <2>1. DOMAIN us = 1..Len(us) /\ Len(us) \in Nat  OBVIOUS
  <2>2. \A i \in 1..Len(us) : us[i] \in Seq(Seq(Char))  OBVIOUS
  <2>3. \A i \in 1..Len(us) : ArrayText(us[i]) \in Seq(Char)  BY <1>0, <2>2
  <2> QED  BY <2>1, <2>3 DEF InnerTexts
<1>2. t \in Seq(Char)  BY <1>0
<1>3. /\ more \in Seq(Seq(Seq(Char))) /\ Len(more) = n + 1 /\ more[n + 1] = v /\ n \in Nat
      /\ \A i \in 1..n : more[i] = vs[i]
  BY AppendProperties
<1>4. /\ Append(InnerTexts(vs), t) \in Seq(Seq(Char))
      /\ Len(Append(InnerTexts(vs), t)) = n + 1
      /\ Append(InnerTexts(vs), t)[n + 1] = t
      /\ \A i \in 1..n : Append(InnerTexts(vs), t)[i] = InnerTexts(vs)[i]
  BY <1>1, <1>2, AppendProperties
<1>5. ASSUME NEW i \in 1..(n + 1)
      PROVE  InnerTexts(more)[i] = Append(InnerTexts(vs), t)[i]
  <2>1. InnerTexts(more)[i] = ArrayText(more[i])  BY <1>1, <1>3
  <2>2. CASE i = n + 1  BY <1>3, <1>4, <2>1, <2>2
  <2>3. CASE i # n + 1
    <3>1. i \in 1..n  BY <1>3, <2>3
    <3>2. more[i] = vs[i] /\ Append(InnerTexts(vs), t)[i] = InnerTexts(vs)[i]
      BY <1>3, <1>4, <3>1
    <3>3. InnerTexts(vs)[i] = ArrayText(vs[i])  BY <1>1, <3>1
    <3> QED  BY <2>1, <3>2, <3>3
  <2> QED  BY <2>2, <2>3
<1>6. InnerTexts(more) \in Seq(Seq(Char)) /\ Len(InnerTexts(more)) = n + 1  BY <1>1, <1>3
<1>7. InnerTexts(vs) \in Seq(Seq(Char)) /\ Len(InnerTexts(vs)) = n  BY <1>1
<1>9. InnerTexts(vs) = <<>> <=> vs = <<>>  BY <1>7
<1> HIDE DEF t, more, n
<1>10. InnerTexts(more) = Append(InnerTexts(vs), t)  BY <1>4, <1>5, <1>6, SeqEqual
<1> QED  BY <1>7, <1>9, <1>10 DEF t, more

(* What OuterRead is, by the flags of the outer array. *)
LEMMA OuterReadCases ==
    ASSUME ContainerTypeOK
    PROVE  /\ outer.out \in Seq(Seq(Seq(Char)))
           /\ InnerTexts(outer.out) \in Seq(Seq(Char))
           /\ InnerTexts(outer.out) = <<>> <=> outer.out = <<>>
           /\ Opened(InnerTexts(outer.out)) \in Seq(Char)
           /\ Before(InnerTexts(outer.out)) \in Seq(Char)
           /\ outer.began /\ outer.expect =>
                OuterRead = Before(InnerTexts(outer.out)) \o ArrayRead("containerLoop")
           /\ outer.began /\ ~outer.expect => OuterRead = Opened(InnerTexts(outer.out))
           /\ ~outer.began /\ ~Complete => OuterRead = <<>>
           /\ ~outer.began /\ Complete => OuterRead = Listed(InnerTexts(outer.out))
<1>1. outer.out \in Seq(Seq(Seq(Char)))  BY DEF ContainerTypeOK
<1>2. <<>> \in Seq(Seq(Char))  BY EmptyIsSeq
<1>3. InnerTexts(outer.out) \in Seq(Seq(Char)) /\ (InnerTexts(outer.out) = <<>> <=> outer.out = <<>>)
  BY <1>1, <1>2, InnerTextsAppend
<1>4. /\ Opened(InnerTexts(outer.out)) \in Seq(Char)
      /\ Before(InnerTexts(outer.out)) \in Seq(Char)
  BY <1>3, OpenedTyped
<1> QED  BY <1>1, <1>3, <1>4 DEF OuterRead, TextOf

LEMMA OuterReadTyped ==
    ASSUME PoolTypeOK, ArrayTypeOK, ContainerTypeOK
    PROVE  OuterRead \in Seq(Char)
<1> DEFINE texts == InnerTexts(outer.out)
<1>1. /\ Opened(texts) \in Seq(Char) /\ Before(texts) \in Seq(Char) /\ texts \in Seq(Seq(Char))
  BY OuterReadCases
<1>2. ArrayRead("containerLoop") \in Seq(Char)  BY ArrayReadTyped
<1>3. Before(texts) \o ArrayRead("containerLoop") \in Seq(Char)
  BY <1>1, <1>2, ConcatProperties
<1>4. Listed(texts) \in Seq(Char) /\ <<>> \in Seq(Char)  BY <1>1, OpenedTyped, EmptyIsSeq
<1> QED  BY <1>1, <1>3, <1>4 DEF OuterRead, TextOf

(* Arrays of one size and another of that size are of one size. *)
LEMMA OneSizeAppend ==
    ASSUME NEW vs \in Seq(Seq(Seq(Char))), NEW v \in Seq(Seq(Char)), OfOneSize(vs),
           vs # <<>> => Len(vs[1]) = Len(v)
    PROVE  OfOneSize(Append(vs, v))
<1> DEFINE more == Append(vs, v)
           n == Len(vs)
<1>1. /\ n \in Nat /\ DOMAIN more = 1..(n + 1) /\ more[n + 1] = v
      /\ \A i \in 1..n : more[i] = vs[i]
  BY AppendProperties
<1>2. \A i \in 1..n : Len(vs[i]) = Len(v)
  <2>1. \A i \in 1..n : vs # <<>> /\ 1 \in DOMAIN vs /\ i \in DOMAIN vs  OBVIOUS
  <2> QED  BY <2>1 DEF OfOneSize
<1>3. \A i \in 1..(n + 1) : Len(more[i]) = Len(v)  BY <1>1, <1>2
<1> QED  BY <1>1, <1>3 DEF OfOneSize

LEMMA NothingOfOneSize == OfOneSize(<<>>)
BY DEF OfOneSize

OuterReadIs ==
    /\ outer.began /\ outer.expect =>
        OuterRead = Before(InnerTexts(outer.out)) \o ArrayRead("containerLoop")
    /\ outer.began /\ ~outer.expect => OuterRead = Opened(InnerTexts(outer.out))
    /\ ~outer.began /\ ~Complete => OuterRead = <<>>
    /\ ~outer.began /\ Complete => OuterRead = Listed(InnerTexts(outer.out))

LEMMA OuterReadIsThat == OuterReadIs
BY DEF OuterReadIs, OuterRead, TextOf

LEMMA OuterReadIsThatNext == OuterReadIs'
BY OuterReadIsThat, PTL

(* Where the inner array is at rest nothing of it is read; where a step of  *)
(* the outer one leaves it alone, what was read of it stays.                *)
LEMMA RestingArray ==
    ASSUME ~array.began, frame # "containerLoop" \/ ret # "pointer"
    PROVE  ArrayRead("containerLoop") = <<>>
BY DEF ArrayRead

(* A step of the container passes a character and puts it behind what was   *)
(* read, or it reads nothing but whitespace.                                *)
ContainerReadsOn ==
    \/ Advance /\ look \in Char /\ OuterRead' = Append(OuterRead, look)
    \/ (UNCHANGED text \/ Skip) /\ OuterRead' = OuterRead

LEMMA ContainerReads ==
    ASSUME PoolTypeOK, ArrayTypeOK, ContainerTypeOK, PoolInv, ContainerInv, ReadInv,
           ContainerStep("caller"), frame' # "failed"
    PROVE  ContainerReadsOn /\ (~outer'.began /\ ~Complete' => text' = <<>>)
<1> DEFINE texts == InnerTexts(outer.out)
<1>a. ArrayInv /\ FlagsInv /\ FramesInv /\ ArrayOrder
  BY DEF ContainerInv, ReadInv
<1>b. /\ outer \in [out : Seq(Seq(Seq(Char))), began : BOOLEAN, expect : BOOLEAN, finished : BOOLEAN]
      /\ array \in [out : Seq(Seq(Char)), began : BOOLEAN, expect : BOOLEAN, finished : BOOLEAN]
  BY DEF ArrayTypeOK, ContainerTypeOK
<1>c. /\ outer.out \in Seq(Seq(Seq(Char)))
      /\ texts \in Seq(Seq(Char)) /\ (texts = <<>> <=> outer.out = <<>>)
      /\ Opened(texts) \in Seq(Char) /\ Before(texts) \in Seq(Char)
      /\ Before(texts) \o <<>> = Before(texts)
  BY OuterReadCases, ConcatEmptySeq
<1>d. texts = InnerTexts(outer.out)  OBVIOUS
<1> HIDE DEF texts
<1>e. /\ outer.began /\ outer.expect =>
            OuterRead = Before(texts) \o ArrayRead("containerLoop")
      /\ outer.began /\ ~outer.expect => OuterRead = Opened(texts)
      /\ ~outer.began /\ ~Complete => OuterRead = <<>>
  BY <1>d, OuterReadIsThat DEF OuterReadIs
<1>f. ASSUME outer'.out = outer.out
      PROVE  /\ outer'.began /\ outer'.expect =>
                  OuterRead' = Before(texts) \o ArrayRead("containerLoop")'
             /\ outer'.began /\ ~outer'.expect => OuterRead' = Opened(texts)
             /\ ~outer'.began /\ Complete' => OuterRead' = Listed(texts)
  <2>1. InnerTexts(outer.out)' = texts  BY <1>d, <1>f DEF InnerTexts, ArrayText, ItemTexts
  <2> QED  BY <2>1, OuterReadIsThatNext DEF OuterReadIs
<1>g. frame # "caller" => ~Complete  BY DEF Complete
<1>h. frame \in ContainerFrame /\ array.finished =>
        /\ ~array.began
        /\ frame # "containerLoop" \/ ret # "pointer" => ArrayRead("containerLoop") = <<>>
  BY RestingArray DEF ReadInv, InnerRuns, ContainerFrame, ScalarFrame, ArrayFrame
<1>i. ~array'.began /\ (frame' # "containerLoop" \/ ret' # "pointer") =>
        ArrayRead("containerLoop")' = <<>>
  BY DEF ArrayRead
<1>j. ASSUME UNCHANGED <<buffer, scan, string, number, array.out, array.began, array.expect>>,
             frame \in ContainerFrame, frame' \in ContainerFrame \cup {"array", "caller"},
             frame # "containerLoop" \/ ret # "pointer",
             frame' # "containerLoop" \/ ret' # "pointer"
      PROVE  ArrayRead("containerLoop")' = ArrayRead("containerLoop")
  <2>1. frame # "string" /\ frame' # "string" /\ frame # "arrayLoop" /\ frame' # "arrayLoop"
    BY <1>j DEF ContainerFrame
  <2>2. ItemRead' = ItemRead
    BY <1>j, <2>1 DEF ItemRead, PartRead, StringBusy
  <2> QED  BY <1>j, <2>2 DEF ArrayRead, ItemTexts
<1>1. CASE ContainerResumesItem
  <2>1. /\ frame = "container" /\ frame' = "array" /\ ~array.finished
        /\ UNCHANGED <<text, buffer, scan, string, number, array, outer>>
    BY <1>1 DEF ContainerResumesItem
  <2>2. ArrayRead("containerLoop")' = ArrayRead("containerLoop")
    BY <1>j, <2>1 DEF ContainerFrame
  <2>3. outer.began /\ outer.expect  BY <1>a, <2>1 DEF FlagsInv
  <2> QED  BY <1>e, <1>f, <2>1, <2>2, <2>3 DEF ContainerReadsOn
<1>2. CASE OpenContainer
  <2>1. /\ frame = "container" /\ frame' = "containerFirst" /\ array.finished /\ ~outer.began
        /\ outer' = [outer EXCEPT !.began = TRUE, !.expect = TRUE]
        /\ Advance /\ look = "[" /\ UNCHANGED array
    BY <1>2 DEF OpenContainer, Throw
  <2>2. look \in Char  BY <2>1 DEF Char, Mark
  <2>3. outer'.out = outer.out /\ outer'.began /\ outer'.expect  BY <1>b, <2>1
  <2>4. ArrayRead("containerLoop")' = <<>>
    BY <1>h, <1>i, <2>1 DEF ContainerFrame
  <2>5. texts = <<>>  BY <1>a, <1>c, <2>1 DEF FramesInv
  <2>6. OuterRead' = <<"[">>  BY <1>c, <1>f, <2>3, <2>4, <2>5, OpenedEmpty
  <2>7. OuterRead = <<>>  BY <1>e, <1>g, <2>1
  <2>8. Append(<<>>, "[") = <<"[">>  OBVIOUS
  <2> QED  BY <2>1, <2>2, <2>3, <2>6, <2>7, <2>8 DEF ContainerReadsOn
<1>3. CASE ResumeContainer
  <2>1. /\ frame = "container" /\ frame' \in {"containerFirst", "containerLoop"}
        /\ ret = "none" /\ outer.began
        /\ UNCHANGED <<ret, text, buffer, scan, string, number, array, outer>>
    BY <1>3, <1>a DEF ResumeContainer, FramesInv
  <2>2. ArrayRead("containerLoop")' = ArrayRead("containerLoop")
    BY <1>j, <2>1 DEF ContainerFrame
  <2> QED  BY <1>b, <1>e, <1>f, <2>1, <2>2 DEF ContainerReadsOn
<1>4. CASE SkipContainerBlank
  <2>1. /\ frame \in {"containerFirst", "containerLoop"} /\ ret = "none" /\ Skip
        /\ UNCHANGED <<frame, ret, buffer, scan, string, number, array, outer>>
    BY <1>4 DEF SkipContainerBlank, ContainerSkips
  <2>2. ArrayRead("containerLoop")' = ArrayRead("containerLoop")
    BY <1>j, <2>1 DEF ContainerFrame
  <2>3. outer.began  BY <1>a, <2>1 DEF FramesInv
  <2> QED  BY <1>b, <1>e, <1>f, <2>1, <2>2, <2>3 DEF ContainerReadsOn
<1>5. CASE EndContainerChunk("caller")
  <2>1. /\ frame \in {"containerFirst", "containerLoop"} /\ ret = "none"
        /\ UNCHANGED text \/ Skip
        /\ frame' = "caller" /\ ret' = "nullptr" /\ outer' = [outer EXCEPT !.finished = FALSE]
        /\ UNCHANGED <<buffer, scan, string, number, array>>
    BY <1>5 DEF EndContainerChunk, ContainerSkips, ContainerNeedsMore, ReturnTo
  <2>2. ArrayRead("containerLoop")' = ArrayRead("containerLoop")
    BY <1>j, <2>1 DEF ContainerFrame
  <2>3. /\ outer.began /\ outer'.began /\ outer'.out = outer.out
        /\ outer'.expect = outer.expect
    BY <1>a, <1>b, <2>1 DEF FramesInv
  <2> QED  BY <1>b, <1>e, <1>f, <2>1, <2>2, <2>3 DEF ContainerReadsOn
<1>6. CASE CloseContainer("caller")
  <2>1. /\ frame \in {"containerFirst", "containerLoop"} /\ ret = "none"
        /\ frame = "containerFirst" \/ ~outer.expect
        /\ look = "]" /\ Advance /\ frame' = "caller"
        /\ outer' = [outer EXCEPT !.began = FALSE, !.finished = TRUE]
    BY <1>6 DEF CloseContainer, ContainerSkips, Closed, ReturnTo
  <2>2. look \in Char /\ text' # <<>>  BY <2>1, AdvancedLast DEF Char, Mark
  <2>3. outer'.out = outer.out /\ ~outer'.began /\ outer'.finished  BY <1>b, <2>1
  <2>4. Complete'  BY <2>1, <2>2, <2>3 DEF Complete
  <2>5. OuterRead' = Append(Opened(texts), "]")  BY <1>c, <1>f, <2>3, <2>4, ListedCloses
  <2>6. outer.began /\ array.finished  BY <1>a, <2>1 DEF FramesInv
  <2>7. OuterRead = Opened(texts)
    <3>1. CASE outer.expect
      <4>1. texts = <<>>  BY <1>a, <1>c, <2>1, <3>1 DEF FramesInv
      <4>2. ArrayRead("containerLoop") = <<>>  BY <1>h, <2>1, <2>6 DEF ContainerFrame
      <4> QED  BY <1>c, <1>e, <2>6, <3>1, <4>1, <4>2, OpenedEmpty
    <3>2. CASE ~outer.expect  BY <1>e, <2>6, <3>2
    <3> QED  BY <3>1, <3>2
  <2> QED  BY <2>1, <2>2, <2>4, <2>5, <2>7 DEF ContainerReadsOn
<1>7. CASE ReadInner
  <2>1. /\ frame \in {"containerFirst", "containerLoop"} /\ ret = "none" /\ outer.expect
        /\ frame' = "array" /\ UNCHANGED <<ret, text, buffer, scan, string, number, array, outer>>
    BY <1>7 DEF ReadInner, ContainerSkips
  <2>2. ArrayRead("containerLoop")' = ArrayRead("containerLoop")
    BY <1>j, <2>1 DEF ContainerFrame
  <2>3. outer.began  BY <1>a, <2>1 DEF FramesInv
  <2> QED  BY <1>e, <1>f, <2>1, <2>2, <2>3 DEF ContainerReadsOn
<1>8. CASE KeepInner
  <2>1. /\ frame = "containerLoop" /\ ret = "pointer" /\ UNCHANGED text
        /\ outer' = [outer EXCEPT !.out = Append(outer.out, array.out), !.expect = FALSE]
    BY <1>8 DEF KeepInner, Throw
  <2>2. outer.began /\ outer.expect /\ ~array.began  BY <1>a, <2>1 DEF FramesInv
  <2>3. outer'.began /\ ~outer'.expect /\ outer'.out = Append(outer.out, array.out)
    BY <1>b, <2>1, <2>2
  <2>4. ArrayRead("containerLoop") = ArrayText(array.out)
    BY <2>1, <2>2 DEF ArrayRead
  <2>5. array.out \in Seq(Seq(Char)) /\ ArrayText(array.out) \in Seq(Char)
    BY <1>b, <2>4, ArrayReadTyped
  <2>6. InnerTexts(Append(outer.out, array.out)) = Append(texts, ArrayText(array.out))
    BY <1>c, <1>d, <2>5, InnerTextsAppend
  <2>7. OuterRead' = Opened(Append(texts, ArrayText(array.out)))
    <3>1. OuterRead' = Opened(InnerTexts(outer.out)')
      BY <2>3, OuterReadIsThatNext DEF OuterReadIs
    <3>2. InnerTexts(outer.out)' = InnerTexts(Append(outer.out, array.out))
      BY <2>3 DEF InnerTexts, ArrayText, ItemTexts
    <3> QED  BY <2>6, <3>1, <3>2
  <2>8. Opened(Append(texts, ArrayText(array.out))) = Before(texts) \o ArrayText(array.out)
    BY <1>c, <2>5, OpenedAppend
  <2> QED  BY <1>e, <2>1, <2>2, <2>3, <2>4, <2>7, <2>8 DEF ContainerReadsOn
<1>9. CASE WaitForInner("caller")
  <2>1. /\ frame = "containerLoop" /\ ret = "nullptr" /\ UNCHANGED text
        /\ frame' = "caller" /\ ret' = "nullptr" /\ outer' = [outer EXCEPT !.finished = FALSE]
        /\ UNCHANGED <<buffer, scan, string, number, array>>
    BY <1>9 DEF WaitForInner, ContainerNeedsMore, ReturnTo
  <2>2. ArrayRead("containerLoop")' = ArrayRead("containerLoop")
    BY <1>j, <2>1 DEF ContainerFrame
  <2>3. /\ outer.began /\ outer'.began /\ outer'.out = outer.out
        /\ outer'.expect = outer.expect
    BY <1>a, <1>b, <2>1 DEF FramesInv
  <2> QED  BY <1>b, <1>e, <1>f, <2>1, <2>2, <2>3 DEF ContainerReadsOn
<1>10. CASE SeparateInner
  <2>1. /\ frame = "containerLoop" /\ ret = "none" /\ ~outer.expect /\ look = "," /\ Advance
        /\ outer' = [outer EXCEPT !.expect = TRUE]
        /\ UNCHANGED <<frame, ret, array>>
    BY <1>10 DEF SeparateInner, Throw
  <2>2. look \in Char /\ outer.began /\ array.finished /\ outer.out # <<>>
    BY <1>a, <2>1 DEF Char, Mark, FramesInv, FlagsInv
  <2>3. outer'.began /\ outer'.expect /\ outer'.out = outer.out  BY <1>b, <2>1, <2>2
  <2>4. ArrayRead("containerLoop")' = <<>>
    BY <1>h, <1>i, <2>1, <2>2 DEF ContainerFrame
  <2>5. OuterRead' = Before(texts)  BY <1>c, <1>f, <2>3, <2>4
  <2>6. Before(texts) = Append(Opened(texts), ",")  BY <1>c, <2>2, BeforeFilled
  <2> QED  BY <1>e, <2>1, <2>2, <2>3, <2>5, <2>6 DEF ContainerReadsOn
<1>11. CASE ArrayStep("containerLoop") /\ UNCHANGED outer
  <2>1. ArrayReadsOn("containerLoop")
    BY <1>11, <1>a, ArrayReads DEF ScalarFrame, ArrayFrame
  <2>2. InnerRuns
    BY <1>11 DEF InnerRuns, ScalarFrame, ArrayFrame, ArrayStep, ResumeItem, ArrayResumesItem,
     OpenArray, ArrayBegins, ResumeArray, ArrayResumes, SkipArrayBlank, EndArrayChunk, CloseArray,
     ReadItem, ArraySkips, KeepItem, WaitForItem, Separate, ScalarStep, StringStart, StringChar,
     StringInvalid, StringClose, StringEnd, NumberDigit, NumberDirect, NumberInvalid, NumberEnd,
     NumberRestDone
  <2>3. /\ outer.began /\ outer.expect /\ outer'.began /\ outer'.expect
        /\ outer'.out = outer.out
    BY <1>11, <1>a, <2>2 DEF FramesInv
  <2>4. /\ OuterRead = Before(texts) \o ArrayRead("containerLoop")
        /\ OuterRead' = Before(texts) \o ArrayRead("containerLoop")'
    BY <1>e, <1>f, <2>3
  <2>5. ArrayRead("containerLoop") \in Seq(Char)  BY ArrayReadTyped
  <2>6. ASSUME look \in Char
        PROVE  Append(Before(texts) \o ArrayRead("containerLoop"), look)
                    = Before(texts) \o Append(ArrayRead("containerLoop"), look)
    BY <1>c, <2>5, <2>6, TextAppends
  <2> QED  BY <2>1, <2>3, <2>4, <2>6 DEF ArrayReadsOn, ContainerReadsOn
<1> QED
  BY <1>1, <1>2, <1>3, <1>4, <1>5, <1>6, <1>7, <1>8, <1>9, <1>10, <1>11 DEF ContainerStep

(* A step of the container keeps the flags of the inner array, and what is  *)
(* pushed is of the size of what is there.                                  *)
LEMMA ContainerKeepsReadFlags ==
    ASSUME PoolTypeOK, ArrayTypeOK, ContainerTypeOK, PoolInv, ContainerInv, ReadInv,
           ContainerStep("caller"), frame' # "failed"
    PROVE  /\ ArrayOrder'
           /\ array'.began => ~array'.finished \/ InnerRuns'
           /\ sameSize' => OfOneSize(outer.out)'
<1>a. ArrayInv /\ FlagsInv /\ FramesInv /\ ArrayOrder
  BY DEF ContainerInv, ReadInv
<1>b. /\ outer \in [out : Seq(Seq(Seq(Char))), began : BOOLEAN, expect : BOOLEAN, finished : BOOLEAN]
      /\ array \in [out : Seq(Seq(Char)), began : BOOLEAN, expect : BOOLEAN, finished : BOOLEAN]
  BY DEF ArrayTypeOK, ContainerTypeOK
<1>c. UNCHANGED sameSize /\ (sameSize => OfOneSize(outer.out))  BY DEF ContainerStep, ReadInv
<1>d. outer'.out = outer.out => (sameSize' => OfOneSize(outer.out)')
  BY <1>c DEF OfOneSize
<1>e. ASSUME frame \in ContainerFrame, frame' \in ContainerFrame \cup {"array", "caller"},
             UNCHANGED <<string, number, array>>,
             frame' = "array" => ~array.finished \/ (ret = "none" /\ frame # "container")
      PROVE  ArrayOrder' /\ (array'.began => ~array'.finished \/ InnerRuns')
  <2>1. array.began => ~array.finished
    BY <1>e DEF ReadInv, InnerRuns, ScalarFrame, ArrayFrame, ContainerFrame
  <2>2. frame' = "array" => array'.began \/ array'.out = <<>>
    BY <1>a, <1>e DEF FlagsInv, ContainerFrame, ScalarFrame
  <2>3. (Finished(ItemKind)' <=> Finished(ItemKind)) /\ (StringBusy' <=> StringBusy)
    BY <1>e DEF Finished, StringBusy, ContainerFrame
  <2>4. ArrayOrder'
    BY <1>a, <1>e, <2>2, <2>3 DEF ArrayOrder, ContainerFrame, ScalarFrame
  <2> QED  BY <1>e, <2>1, <2>4
<1>1. CASE ContainerResumesItem
  <2>1. outer'.out = outer.out  BY <1>1 DEF ContainerResumesItem
  <2>2. ArrayOrder' /\ (array'.began => ~array'.finished \/ InnerRuns')
    BY <1>1, <1>e DEF ContainerResumesItem, ContainerFrame
  <2> QED  BY <1>d, <2>1, <2>2
<1>2. CASE OpenContainer
  <2>1. /\ frame = "container" /\ frame' = "containerFirst" /\ UNCHANGED <<string, number, array>>
        /\ outer' = [outer EXCEPT !.began = TRUE, !.expect = TRUE]
    BY <1>2 DEF OpenContainer, Throw
  <2>2. outer'.out = outer.out  BY <1>b, <2>1
  <2>3. ArrayOrder' /\ (array'.began => ~array'.finished \/ InnerRuns')
    BY <1>e, <2>1 DEF ContainerFrame
  <2> QED  BY <1>d, <2>2, <2>3
<1>3. CASE ResumeContainer
  <2>1. outer'.out = outer.out  BY <1>3 DEF ResumeContainer
  <2>2. ArrayOrder' /\ (array'.began => ~array'.finished \/ InnerRuns')
    BY <1>3, <1>e DEF ResumeContainer, ContainerFrame
  <2> QED  BY <1>d, <2>1, <2>2
<1>4. CASE SkipContainerBlank
  <2>1. outer'.out = outer.out  BY <1>4 DEF SkipContainerBlank
  <2>2. ArrayOrder' /\ (array'.began => ~array'.finished \/ InnerRuns')
    BY <1>4, <1>e DEF SkipContainerBlank, ContainerSkips, ContainerFrame
  <2> QED  BY <1>d, <2>1, <2>2
<1>5. CASE EndContainerChunk("caller")
  <2>1. outer'.out = outer.out  BY <1>5, <1>b DEF EndContainerChunk, ContainerNeedsMore
  <2>2. ArrayOrder' /\ (array'.began => ~array'.finished \/ InnerRuns')
    BY <1>5, <1>e
    DEF EndContainerChunk, ContainerSkips, ContainerNeedsMore, ReturnTo, ContainerFrame
  <2> QED  BY <1>d, <2>1, <2>2
<1>6. CASE CloseContainer("caller")
  <2>1. outer'.out = outer.out  BY <1>6, <1>b DEF CloseContainer, Closed
  <2>2. ArrayOrder' /\ (array'.began => ~array'.finished \/ InnerRuns')
    BY <1>6, <1>e DEF CloseContainer, ContainerSkips, ReturnTo, ContainerFrame
  <2> QED  BY <1>d, <2>1, <2>2
<1>7. CASE ReadInner
  <2>1. outer'.out = outer.out  BY <1>7 DEF ReadInner
  <2>2. ArrayOrder' /\ (array'.began => ~array'.finished \/ InnerRuns')
    BY <1>7, <1>e DEF ReadInner, ContainerSkips, ContainerFrame
  <2> QED  BY <1>d, <2>1, <2>2
<1>8. CASE KeepInner
  <2>1. /\ frame = "containerLoop" /\ ret = "pointer" /\ frame' = "containerLoop" /\ SizeAgrees
        /\ outer' = [outer EXCEPT !.out = Append(outer.out, array.out), !.expect = FALSE]
        /\ array' = [array EXCEPT !.out = <<>>] /\ UNCHANGED <<string, number>>
    BY <1>8 DEF KeepInner, Throw, InnerSwapped
  <2>2. ~array.began  BY <1>a, <2>1 DEF FramesInv
  <2>3. ~array'.began  BY <1>b, <2>1, <2>2
  <2>4. (Finished(ItemKind)' <=> Finished(ItemKind)) /\ (StringBusy' <=> StringBusy)
    BY <2>1 DEF Finished, StringBusy
  <2>5. ArrayOrder'
    BY <1>a, <2>1, <2>2, <2>3, <2>4 DEF ArrayOrder, ScalarFrame
  <2>6. outer.out \in Seq(Seq(Seq(Char))) /\ array.out \in Seq(Seq(Char))  BY <1>b
  <2>7. sameSize => OfOneSize(Append(outer.out, array.out))
    BY <1>c, <2>1, <2>6, OneSizeAppend DEF SizeAgrees
  <2>8. outer'.out = Append(outer.out, array.out)  BY <1>b, <2>1
  <2>9. sameSize' => OfOneSize(outer.out)'  BY <1>c, <2>7, <2>8 DEF OfOneSize
  <2> QED  BY <2>3, <2>5, <2>9
<1>9. CASE WaitForInner("caller")
  <2>1. outer'.out = outer.out  BY <1>9, <1>b DEF WaitForInner, ContainerNeedsMore
  <2>2. ArrayOrder' /\ (array'.began => ~array'.finished \/ InnerRuns')
    BY <1>9, <1>e DEF WaitForInner, ContainerNeedsMore, ReturnTo, ContainerFrame
  <2> QED  BY <1>d, <2>1, <2>2
<1>10. CASE SeparateInner
  <2>1. /\ frame = "containerLoop" /\ UNCHANGED <<frame, string, number, array>>
        /\ outer' = [outer EXCEPT !.expect = TRUE]
    BY <1>10 DEF SeparateInner, Throw
  <2>2. outer'.out = outer.out  BY <1>b, <2>1
  <2>3. ArrayOrder' /\ (array'.began => ~array'.finished \/ InnerRuns')
    BY <1>e, <2>1 DEF ContainerFrame
  <2> QED  BY <1>d, <2>2, <2>3
<1>11. CASE ArrayStep("containerLoop") /\ UNCHANGED outer
  <2>1. ArrayOrder'  BY <1>11, <1>a, ArrayKeepsOrder DEF ScalarFrame, ArrayFrame
  <2>2. array'.began => ~array'.finished \/ InnerRuns'
    <3>1. frame' \in ScalarFrame \cup ArrayFrame \cup {"containerLoop"}
      BY <1>11, ArrayKeepsTypes
    <3>2. frame' = "containerLoop" => ~array'.began \/ ~array'.finished
      <4>1. CASE CloseArray("containerLoop")  BY <1>b, <4>1 DEF CloseArray
      <4>2. CASE EndArrayChunk("containerLoop")
        BY <1>b, <4>2 DEF EndArrayChunk, ArrayNeedsMore
      <4>3. CASE WaitForItem("containerLoop")
        BY <1>b, <4>3 DEF WaitForItem, ArrayNeedsMore
      <4>4. CASE ScalarStep("arrayLoop")
        BY <4>4, <1>a, ScalarKeepsTypes DEF ScalarFrame
      <4>5. CASE \/ ResumeItem \/ OpenArray \/ ResumeArray \/ SkipArrayBlank
                 \/ ReadItem \/ KeepItem \/ Separate
        BY <4>5 DEF ResumeItem, OpenArray, ResumeArray, ResumedFrame, SkipArrayBlank, ArraySkips,
           ReadItem, EntryFrame, KeepItem, Separate, Throw
      <4> QED  BY <1>11, <4>1, <4>2, <4>3, <4>4, <4>5 DEF ArrayStep
    <3> QED  BY <3>1, <3>2 DEF InnerRuns
  <2>3. outer'.out = outer.out  BY <1>11
  <2> QED  BY <1>d, <2>1, <2>2, <2>3
<1> QED
  BY <1>1, <1>2, <1>3, <1>4, <1>5, <1>6, <1>7, <1>8, <1>9, <1>10, <1>11 DEF ContainerStep

(* Every step of a call keeps the parsers' parts and the text together. *)
LEMMA ContainerKeepsReadInv ==
    ASSUME PoolTypeOK, ArrayTypeOK, ContainerTypeOK, PoolInv, ContainerInv, ReadInv,
           ContainerStep("caller"), frame' # "failed"
    PROVE  ReadInv'
<1>1. ContainerReadsOn /\ (~outer'.began /\ ~Complete' => text' = <<>>)  BY ContainerReads
<1>2. /\ Advance /\ look \in Char => WithoutGaps(text)' = Append(WithoutGaps(text), look)
      /\ UNCHANGED text \/ Skip => WithoutGaps(text)' = WithoutGaps(text)
  BY TextGoesOn
<1>3. WithoutGaps(text) = OuterRead  BY DEF ReadInv
<1>4. WithoutGaps(text)' = OuterRead'  BY <1>1, <1>2, <1>3 DEF ContainerReadsOn
<1>5. /\ ArrayOrder'
      /\ array'.began => ~array'.finished \/ InnerRuns'
      /\ sameSize' => OfOneSize(outer.out)'
  BY ContainerKeepsReadFlags
<1> QED  BY <1>1, <1>4, <1>5 DEF ReadInv

(* What is read stays when only the call, or only the character, changes. *)
LEMMA ReadInvStays ==
    ASSUME ReadInv, UNCHANGED <<text, buffer, scan, string, number, array, outer, sameSize>>,
           \/ UNCHANGED <<frame, ret>>
           \/ frame = "caller" /\ frame' = "container" /\ ret' = "none" /\ ~Complete
    PROVE  ReadInv'
<1>1. (Complete' <=> Complete) /\ (InnerRuns => InnerRuns')
  BY DEF Complete, InnerRuns, ScalarFrame, ArrayFrame
<1>2. (StringBusy' <=> StringBusy) /\ (Finished(ItemKind)' <=> Finished(ItemKind))
  BY DEF StringBusy, Finished
<1>3. ItemRead' = ItemRead  BY <1>2 DEF ItemRead, PartRead, PoolValue
<1>4. ArrayRead("containerLoop")' = ArrayRead("containerLoop")
  BY <1>3 DEF ArrayRead, ItemTexts, ArrayText
<1>5. InnerTexts(outer.out)' = InnerTexts(outer.out)  BY DEF InnerTexts, ArrayText, ItemTexts
<1>6. OuterRead' = OuterRead  BY <1>1, <1>4, <1>5 DEF OuterRead, TextOf
<1>7. WithoutGaps(text)' = WithoutGaps(text)  BY DEF WithoutGaps, Without
<1>8. ArrayOrder'  BY <1>2 DEF ReadInv, ArrayOrder, ScalarFrame
<1>9. sameSize' => OfOneSize(outer.out)'  BY DEF ReadInv, OfOneSize
<1> QED  BY <1>1, <1>6, <1>7, <1>8, <1>9 DEF ReadInv

LEMMA RenewKeepsReadInv ==
    ASSUME IInv, Renew
    PROVE  ReadInv'
<1>1. CASE Swap
  <2>1. /\ ReadInv /\ FramesInv /\ frame = "caller" /\ outer.finished /\ text' = <<>>
        /\ outer' = [outer EXCEPT !.out = <<>>]
        /\ UNCHANGED <<frame, ret, string, number, array, sameSize>>
    BY <1>1 DEF IInv, ControlInv, ContainerInv, Swap, Complete
  <2>2. ~outer.began  BY <2>1 DEF FramesInv
  <2>3. ~outer'.began /\ outer'.out = <<>> /\ ~Complete'
    BY <2>1, <2>2 DEF IInv, ControlInv, TypeOK, ContainerTypeOK, Complete
  <2>4. OuterRead' = <<>>  BY <2>3, OuterReadIsThatNext DEF OuterReadIs
  <2>5. WithoutGaps(text)' = <<>>  BY <2>1, WithoutGapsEmpty DEF WithoutGaps, Without
  <2>6. (StringBusy' <=> StringBusy) /\ (Finished(ItemKind)' <=> Finished(ItemKind))
    BY <2>1 DEF StringBusy, Finished
  <2>7. ArrayOrder' /\ (array'.began => ~array'.finished \/ InnerRuns')
    BY <2>1, <2>6 DEF ReadInv, ArrayOrder, InnerRuns
  <2>8. OfOneSize(outer.out)'  BY <2>3 DEF OfOneSize
  <2> QED  BY <2>1, <2>4, <2>5, <2>7, <2>8 DEF ReadInv
<1>2. CASE Drop
  <2>1. /\ frame' = "caller" /\ text' = <<>> /\ string' = [finished |-> TRUE, value |-> <<>>]
        /\ number' = [finished |-> TRUE, value |-> <<>>]
        /\ array' = NewArray /\ outer' = NewArray
    BY <1>2 DEF Drop, NewPool
  <2>2. ~outer'.began /\ outer'.out = <<>> /\ ~Complete' /\ ~array'.began
    BY <2>1 DEF NewArray, Complete
  <2>3. OuterRead' = <<>>  BY <2>2, OuterReadIsThatNext DEF OuterReadIs
  <2>4. WithoutGaps(text)' = <<>>  BY <2>1, WithoutGapsEmpty DEF WithoutGaps, Without
  <2>5. ArrayOrder'
    BY <2>1 DEF ArrayOrder, NewArray, Finished, StringBusy, ScalarFrame
  <2>6. OfOneSize(outer.out)'  BY <2>2 DEF OfOneSize
  <2> QED  BY <2>1, <2>2, <2>3, <2>4, <2>5, <2>6 DEF ReadInv
<1> QED  BY <1>1, <1>2 DEF Renew

(* IInv holds of the first states and every step keeps it: at any moment    *)
(* the parsers hold, in their parts, exactly the text they were given.      *)
THEOREM Invariance == Spec => []IInv
<1>1. Init => IInv
  <2> SUFFICES ASSUME Init  PROVE ReadInv
    BY ControlInitial DEF IInv
  <2> USE DEF Init, ContainerInit, PoolInit, NewArray
  <2>1. ~outer.began /\ outer.out = <<>> /\ ~Complete /\ ~array.began  BY DEF Complete
  <2>2. OuterRead = <<>>  BY <2>1, OuterReadIsThat DEF OuterReadIs
  <2>3. WithoutGaps(text) = <<>>  BY WithoutGapsEmpty
  <2>4. ArrayOrder  BY DEF ArrayOrder, Finished, StringBusy, ScalarFrame
  <2> QED  BY <2>1, <2>2, <2>3, <2>4, NothingOfOneSize DEF ReadInv
<1>2. ControlInv /\ [Next]_vars => ControlInv'  BY ControlKept
<1>3. IInv /\ [Next]_vars => IInv'
  <2> SUFFICES ASSUME IInv, [Next]_vars, frame' # "failed"  PROVE ReadInv'
    BY <1>2 DEF IInv
  <2>a. ControlInv /\ PoolTypeOK /\ ArrayTypeOK /\ ContainerTypeOK /\ WriterTypeOK
    BY DEF IInv, ControlInv, TypeOK
  <2>1. CASE Parse
    <3>1. frame # "failed" /\ ReadInv  BY <2>1 DEF Parse, IInv
    <3> QED  BY <2>1, <3>1, ReadInvStays DEF Parse
  <2>2. CASE ContainerStep("caller")
    <3>1. frame # "failed"  BY <2>2, StepsAreOfCalls
    <3> QED  BY <2>a, <2>2, <3>1, ContainerKeepsReadInv DEF IInv, ControlInv
  <2>3. CASE FeedText /\ UNCHANGED <<array, outer, sameSize>>
    <3>1. /\ frame \notin {"caller", "failed"}
          /\ UNCHANGED <<frame, ret, text, buffer, scan, string, number>>
      BY <2>a, <2>3, FedIsCharacter
    <3> QED  BY <2>3, <3>1, ReadInvStays DEF IInv
  <2>4. CASE Renew  BY <2>4, RenewKeepsReadInv
  <2>5. CASE UNCHANGED containerVars
    <3>1. UNCHANGED <<frame, ret, text, buffer, scan, string, number, array, outer, sameSize>>
      BY <2>5 DEF containerVars, arrayVars, poolVars
    <3> QED  BY <3>1, ReadInvStays DEF IInv
  <2>6. CASE UNCHANGED vars  BY <2>5, <2>6 DEF vars
  <2> QED  BY <2>1, <2>2, <2>3, <2>4, <2>5, <2>6 DEF Next, Step
<1> QED  BY <1>1, <1>3, PTL DEF Spec

(* A complete array is exactly the text read since the last Swap: nothing   *)
(* is lost, repeated or joined, wherever the chunks ended.                  *)
THEOREM NothingLost == Spec => []OutIsWhatWasRead
<1>1. IInv => OutIsWhatWasRead
  <2> SUFFICES ASSUME IInv, Complete
               PROVE  /\ WithoutGaps(text) = TextOf(outer.out)
                      /\ sameSize => OfOneSize(outer.out)
    BY DEF OutIsWhatWasRead
  <2>1. ReadInv /\ FramesInv  BY DEF IInv, ControlInv, ContainerInv, Complete
  <2>2. ~outer.began  BY <2>1 DEF FramesInv, Complete
  <2> QED  BY <2>1, <2>2 DEF ReadInv, OuterRead
<1> QED  BY <1>1, Invariance, PTL
----------------------------------------------------------------------------
(* The texts of arrays whose items are values, and the values whose texts   *)
(* the beginnings are of.                                                   *)
Inner == Seq(Item(ItemKind))

LEMMA InnerTextsTyped ==
    ASSUME NEW vs \in Seq(Inner)
    PROVE  /\ vs \in Seq(Seq(Seq(Char)))
           /\ InnerTexts(vs) \in Seq(Arrays) /\ InnerTexts(vs) \in Seq(Seq(Char))
           /\ Len(InnerTexts(vs)) = Len(vs)
           /\ \A i \in 1..Len(vs) : InnerTexts(vs)[i] = ArrayText(vs[i])
<1> DEFINE m == InnerTexts(vs)
           n == Len(vs)
<1>1. \A v \in Inner : ArrayText(v) \in Arrays  BY DEF Arrays, Inner
<1>2. Arrays \subseteq Seq(Char)  BY ArrayTextTyped DEF Arrays
<1>3. Inner \subseteq Seq(Seq(Char))  BY ItemTextsTyped DEF Inner
<1>4. DOMAIN vs = 1..n /\ n \in Nat /\ \A i \in 1..n : vs[i] \in Inner  OBVIOUS
<1>5. /\ DOMAIN m = 1..n /\ m = [i \in DOMAIN m |-> m[i]]
      /\ \A i \in 1..n : m[i] = ArrayText(vs[i])
  BY <1>4 DEF InnerTexts
<1>6. \A i \in 1..n : m[i] \in Arrays  BY <1>1, <1>4, <1>5
<1> HIDE DEF m, n
<1>7. m \in Seq(Arrays) /\ Len(m) = n  BY <1>4, <1>5, <1>6, FunctionIsSeq
<1>8. m \in Seq(Seq(Char))  BY <1>2, <1>7, SeqOfSubset
<1>9. vs \in Seq(Seq(Seq(Char)))  BY <1>3, SeqOfSubset
<1> QED  BY <1>5, <1>7, <1>8, <1>9 DEF m, n

LEMMA ValuesAreItems ==
    ASSUME NEW v \in Value
    PROVE  v \in Seq(Inner)
<1>1. ASSUME NEW S, NEW T, S \subseteq T, NEW n \in Nat, NEW s \in BoundedSeq(S, n)
      PROVE  s \in Seq(T)
  <2>1. PICK m \in 0..n : s \in [1..m -> S]  BY <1>1 DEF BoundedSeq, SeqOf
  <2> QED  BY <1>1, <2>1
<1>2. ASSUME NEW s \in Number PROVE s \in Item(ItemKind)
  <2>1. s \in BoundedSeq(Digit, MaxToken) /\ s # <<>>  BY DEF Number
  <2>2. s \in Seq(Digit)  BY <1>1, <2>1, BoundAssumption
  <2>3. Digit \subseteq Plain  BY CharsApart DEF Plain
  <2>4. s \in Seq(Plain)  BY <2>2, <2>3, SeqOfSubset
  <2> QED  BY <2>1, <2>2, <2>4 DEF Item
<1>3. Number \subseteq Item(ItemKind)  BY <1>2
<1>4. BoundedSeq(Number, MaxInner) \subseteq Inner  BY <1>1, <1>3, SizeAssumption DEF Inner
<1> QED  BY <1>1, <1>4, SizeAssumption DEF Value

LEMMA BeginningAgrees ==
    ASSUME sameSize \in BOOLEAN, NEW s, s \in Beginnings
    PROVE  \E w \in Seq(Inner) : (sameSize => OfOneSize(w)) /\ Agrees(s, TextOf(w))
<1> DEFINE V(same) == {w \in Value : same => OfOneSize(w)}
           B(same) == UNION {Prefixes(TextOf(v)) : v \in V(same)}
<1>1. Beginnings = B(sameSize)  BY DEF Beginnings, BeginningsOf
<1> HIDE DEF V
<1>2. PICK v \in V(sameSize) : s \in Prefixes(TextOf(v))  BY <1>1
<1>3. v \in Value /\ (sameSize => OfOneSize(v))  BY <1>2 DEF V
<1>4. v \in Seq(Inner)  BY <1>3, ValuesAreItems
<1>5. TextOf(v) \in Seq(Char)
  <2>1. InnerTexts(v) \in Seq(Seq(Char))  BY <1>4, InnerTextsTyped
  <2> QED  BY <2>1, OpenedTyped DEF TextOf
<1>6. Agrees(s, TextOf(v))  BY <1>2, <1>5, PrefixesAgree
<1> QED  BY <1>3, <1>4, <1>6

(* Where the beginning of an array of arrays goes on as r: only the end of  *)
(* the array, or another array and what follows it.                         *)
Follows(vs, r, w, c) ==
    /\ sameSize => OfOneSize(w)
    /\ Len(vs) < Len(w)
    /\ \A i \in 1..Len(vs) : vs[i] = w[i]
    /\ Agrees(r, ArrayText(w[Len(vs) + 1]) \o <<c>>)

LEMMA NestedGoesOn ==
    ASSUME sameSize \in BOOLEAN, NEW vs \in Seq(Inner), NEW r \in Seq(Char),
           Before(InnerTexts(vs)) \o r \in Beginnings
    PROVE  \/ vs = <<>> /\ Agrees(r, <<"]">>)
           \/ \E w \in Seq(Inner) : \E c \in {",", "]"} : Follows(vs, r, w, c)
<1> DEFINE us == InnerTexts(vs)
           T == Arrays
<1>1. us \in Seq(T) /\ Len(us) = Len(vs) /\ \A i \in 1..Len(vs) : us[i] = ArrayText(vs[i])
  BY InnerTextsTyped
<1>2. PICK w \in Seq(Inner) :
        (sameSize => OfOneSize(w)) /\ Agrees(Before(us) \o r, TextOf(w))
  BY BeginningAgrees
<1> DEFINE ts == InnerTexts(w)
           z == <<>>
<1>3. ts \in Seq(T) /\ Len(ts) = Len(w) /\ \A i \in 1..Len(w) : ts[i] = ArrayText(w[i])
  BY InnerTextsTyped
<1>4. ts \in Seq(Seq(Char))  BY InnerTextsTyped
<1>5. Listed(ts) \in Seq(Char) /\ z \in Seq(Char)  BY <1>4, OpenedTyped, EmptyIsSeq
<1>6. Listed(ts) \o z = Listed(ts)  BY <1>5, ConcatEmptySeq
<1>7. Agrees(Before(us) \o r, Listed(ts) \o z)  BY <1>2, <1>6 DEF TextOf
<1>8. T \subseteq Seq(Char) /\ <<>> \notin T /\ Apart(Ended(T, "]"))
  <2>1. Listable(T) /\ "]" \in Closing  BY ArraysListable DEF Closing
  <2> QED  BY <2>1, EndedApart
<1>9. \A x \in Inner : ArrayText(x) \in Seq(Char)  BY ArrayTextTyped DEF Inner
<1>10. /\ Len(vs) \in Nat /\ Len(w) \in Nat
       /\ \A i \in 1..Len(vs) : vs[i] \in Inner
       /\ \A i \in 1..Len(w) : w[i] \in Inner
  OBVIOUS
<1> HIDE DEF T, us, ts, z
<1>11. \/ us = <<>> /\ ts = <<>> /\ Agrees(r, <<"]">>)
       \/ /\ Len(us) < Len(ts)
          /\ \A i \in 1..Len(us) : us[i] = ts[i]
          /\ \E c \in {",", "]"} : Agrees(r, Append(ts[Len(us) + 1], c))
  BY <1>1, <1>3, <1>5, <1>7, <1>8, BracketsGoOn
<1>12. CASE us = <<>> /\ ts = <<>> /\ Agrees(r, <<"]">>)
  <2>1. vs = <<>>  BY <1>1, <1>12, EmptySeq
  <2> QED  BY <1>12, <2>1
<1>13. CASE /\ Len(us) < Len(ts)
            /\ \A i \in 1..Len(us) : us[i] = ts[i]
            /\ \E c \in {",", "]"} : Agrees(r, Append(ts[Len(us) + 1], c))
  <2> DEFINE n == Len(vs) + 1
  <2>1. Len(vs) < Len(w) /\ n \in 1..Len(w) /\ \A i \in 1..Len(vs) : i \in 1..Len(w)
    <3>1. Len(vs) < Len(w)  BY <1>1, <1>3, <1>13
    <3>2. Len(vs) \in Nat /\ Len(w) \in Nat  OBVIOUS
    <3> QED  BY <3>1, <3>2
  <2>2. PICK c \in {",", "]"} : Agrees(r, Append(ts[n], c))  BY <1>1, <1>13
  <2>3. ts[n] = ArrayText(w[n]) /\ ArrayText(w[n]) \in Seq(Char)  BY <1>3, <1>9, <1>10, <2>1
  <2>4. Append(ts[n], c) = ArrayText(w[n]) \o <<c>>
    <3>1. c \in Char  BY CommaIsChar
    <3> QED  BY <2>3, <3>1, AppendIsConcat
  <2>5. ASSUME NEW i \in 1..Len(vs) PROVE vs[i] = w[i]
    <3>1. us[i] = ts[i]  BY <1>1, <1>13
    <3>2. us[i] = ArrayText(vs[i]) /\ ts[i] = ArrayText(w[i])  BY <1>1, <1>3, <2>1
    <3>3. vs[i] \in Inner /\ w[i] \in Inner  BY <1>10, <2>1
    <3> DEFINE x == vs[i]
               y == w[i]
    <3>4. x \in Seq(Item(ItemKind)) /\ y \in Seq(Item(ItemKind)) /\ ArrayText(x) = ArrayText(y)
      BY <3>1, <3>2, <3>3 DEF Inner
    <3> HIDE DEF x, y
    <3>5. z \in Seq(Char) /\ Agrees(ArrayText(x) \o z, ArrayText(y) \o z)
      BY <1>5, <3>4 DEF Agrees
    <3>6. x = y  BY <3>4, <3>5, ArrayApart
    <3> QED  BY <3>6 DEF x, y
  <2>6. Follows(vs, r, w, c)  BY <1>2, <2>1, <2>2, <2>4, <2>5 DEF Follows
  <2> QED  BY <2>6
<1> QED  BY <1>11, <1>12, <1>13

(* The array that is begun is no beginning of a value: neither of the ends  *)
(* of the list nor an array goes on as r does.                              *)
LEMMA Refuted ==
    ASSUME sameSize \in BOOLEAN, NEW vs \in Seq(Inner), NEW r \in Seq(Char),
           vs = <<>> => ~Agrees(r, <<"]">>),
           \A x \in Inner : \A t \in Seq(Char) : ~Agrees(r, ArrayText(x) \o t)
    PROVE  Before(InnerTexts(vs)) \o r \notin Beginnings
<1> SUFFICES ASSUME Before(InnerTexts(vs)) \o r \in Beginnings PROVE FALSE
  OBVIOUS
<1>1. PICK w \in Seq(Inner), c \in {",", "]"} : Follows(vs, r, w, c)  BY NestedGoesOn
<1>2. Len(vs) < Len(w) /\ Agrees(r, ArrayText(w[Len(vs) + 1]) \o <<c>>)
  BY <1>1 DEF Follows
<1>4. w[Len(vs) + 1] \in Inner  BY <1>2, PlaceBehind
<1>5. <<c>> \in Seq(Char)
  <2>1. c \in Char  BY CommaIsChar
  <2> QED  BY <2>1, Single
<1> QED  BY <1>2, <1>4, <1>5

(* What a step that throws leaves is what the exception is about. *)
Refused ==
    \/ look = Unread /\ WithoutGaps(text) \notin Beginnings
    \/ look \in Char /\ WithoutGaps(Append(text, look)) \notin Beginnings
    \/ look \in Digit /\ text # <<>> /\ text[Len(text)] = Gap

LEMMA RefusedStays ==
    ASSUME Refused, UNCHANGED <<look, text, sameSize>>
    PROVE  Refused'
<1>1. WithoutGaps(text)' = WithoutGaps(text)  BY DEF WithoutGaps, Without
<1>2. WithoutGaps(Append(text, look))' = WithoutGaps(Append(text, look))
  BY DEF WithoutGaps, Without
<1>3. Beginnings' = Beginnings
  BY DEF Beginnings, BeginningsOf, TextOf, InnerTexts, ArrayText, ItemTexts
<1> QED  BY <1>1, <1>2, <1>3 DEF Refused

LEMMA RefusedNext ==
    ASSUME Refused'
    PROVE  RefusesOnlyNonArrays'
BY DEF Refused, RefusesOnlyNonArrays

LEMMA ReadWithLook ==
    ASSUME PoolTypeOK, ReadInv, look \in Char
    PROVE  WithoutGaps(Append(text, look)) = Append(OuterRead, look)
<1>1. text \in Seq(Char \cup {Gap})  BY DEF PoolTypeOK
<1>2. WithoutGaps(text) = OuterRead  BY DEF ReadInv
<1> QED  BY <1>1, <1>2, WithoutGapsAppend

(* With what the parsers are entered, and what they hold.  The items are    *)
(* values; an array begins only at a character, and the first one only      *)
(* where the outer array does not end; the loop has had an array.           *)
EntryInv ==
    /\ ItemInv
    /\ outer.out \in Seq(Inner)
    /\ frame = "array" /\ ~array.began =>
        look \in Char \ {Blank, Nul} /\ (outer.out = <<>> => look # "]")
    /\ frame = "containerLoop" /\ ret = "none" => outer.out # <<>>
    /\ frame = "containerLoop" /\ ret = "pointer" => look = Unread
    /\ frame = "container" /\ ~outer.began => look # EndOfChunk

LEMMA OpenContainerRefuses ==
    ASSUME PoolTypeOK, ContainerTypeOK, ReadInv, EntryInv, OpenContainer, frame' = "failed"
    PROVE  Refused /\ UNCHANGED <<look, text>>
<1>1. /\ frame = "container" /\ ~outer.began /\ look \in Char /\ look # "["
      /\ UNCHANGED <<look, text>>
  BY DEF OpenContainer, EntryInv
<1>2. OuterRead = <<>>  BY <1>1, OuterReadIsThat DEF OuterReadIs, Complete
<1> DEFINE q == <<look>>
<1>3. WithoutGaps(Append(text, look)) = q  BY <1>1, <1>2, ReadWithLook
<1>4. q \in Seq(Char) /\ q # <<>> /\ q[1] = look  BY <1>1, Single
<1> HIDE DEF q
<1>5. ASSUME q \in Beginnings PROVE FALSE
  <2>1. sameSize \in BOOLEAN  BY DEF ContainerTypeOK
  <2>2. PICK w \in Seq(Inner) : Agrees(q, TextOf(w))  BY <1>5, <2>1, BeginningAgrees
  <2> DEFINE x == TextOf(w)
  <2>3. x \in Seq(Char) /\ x # <<>> /\ x[1] = "["
    <3> DEFINE ts == InnerTexts(w)
               z == "]"
    <3>1. ts \in Seq(Seq(Char))  BY InnerTextsTyped
    <3>2. Opened(ts) \in Seq(Char) /\ Listed(ts) = Opened(ts) \o <<z>>
      BY <3>1, OpenedTyped DEF Listed
    <3>3. <<z>> \in Seq(Char)
      <4>1. z \in Char  BY CommaIsChar
      <4> QED  BY <4>1, Single
    <3>4. Opened(ts) # <<>> /\ Opened(ts)[1] = "["
      <4> DEFINE c == "["
                 s == Separated(ts)
      <4>1. c \in Char /\ s \in Seq(Char) /\ Opened(ts) = <<c>> \o s
        BY <3>1, CommaIsChar, SeparatedTyped DEF Opened
      <4> HIDE DEF c, s
      <4>2. <<c>> \o s # <<>> /\ (<<c>> \o s)[1] = c  BY <4>1, FirstComes
      <4> QED  BY <4>1, <4>2 DEF c
    <3> HIDE DEF z
    <3>5. /\ Opened(ts) \o <<z>> \in Seq(Char) /\ Opened(ts) \o <<z>> # <<>>
          /\ (Opened(ts) \o <<z>>)[1] = Opened(ts)[1]
      BY <3>2, <3>3, <3>4, FirstStays
    <3> QED  BY <3>2, <3>4, <3>5 DEF TextOf
  <2>4. Agrees(q, x)  BY <2>2
  <2> HIDE DEF x
  <2>5. q[1] = x[1]  BY <1>4, <2>3, <2>4, AgreesFirst
  <2> QED  BY <1>1, <1>4, <2>3, <2>5
<1> QED  BY <1>1, <1>3, <1>5 DEF Refused

(* Where no digit is last of what was read and a whole number is, the       *)
(* number was split by whitespace.                                          *)
LEMMA SplitIsGap ==
    ASSUME PoolTypeOK, ArrayTypeOK, ContainerTypeOK, ContainerInv, ReadInv, ItemInv, DigitAfterItem
    PROVE  look \in Digit /\ text # <<>> /\ text[Len(text)] = Gap
<1>1. frame = "arrayLoop" /\ ret = "none" /\ look \in Digit /\ ItemKind = "number"
  BY DEF DigitAfterItem
<1>2. ArrayInv /\ FramesInv /\ DigitInv /\ ArrayOrder  BY DEF ContainerInv, ReadInv
<1>3. PICK b \in Seq(Char), v \in Item("number") : ArrayRead("containerLoop") = b \o v
  BY <1>2, ItemEndsInDigit
<1> DEFINE o == Before(InnerTexts(outer.out))
<1>4. OuterRead = o \o (b \o v) /\ o \in Seq(Char)
  <2>1. outer.began /\ outer.expect
    BY <1>1, <1>2 DEF FramesInv, InnerRuns, ArrayFrame
  <2>2. OuterRead = o \o ArrayRead("containerLoop")
    BY <2>1, OuterReadIsThat DEF OuterReadIs
  <2>3. o \in Seq(Char)  BY OuterReadCases
  <2> QED  BY <1>3, <2>2, <2>3
<1> HIDE DEF o
<1>5. PICK p \in Seq(Char), d \in Digit : OuterRead = Append(p, d)
  <2>1. v \in Seq(Char)
    <3>1. v \in Seq(Digit)  BY DEF Item
    <3> QED  BY <3>1, SeqOfSubset, CharsApart
  <2>2. o \o b \in Seq(Char) /\ OuterRead = (o \o b) \o v
    BY <1>4, <2>1, ConcatProperties, ConcatAssociative
  <2> DEFINE w == o \o b
  <2>3. w \in Seq(Char) /\ OuterRead = w \o v  BY <2>2
  <2> HIDE DEF w
  <2> QED  BY <2>3, EndsInDigit
<1>6. ~NumberBusy  BY <1>1, <1>2 DEF ArrayInv, NumberBusy
<1>7. text # <<>> => text[Len(text)] \notin Digit
  <2>1. look \notin Char \ Digit  BY <1>1
  <2> QED  BY <1>1, <1>2, <1>6, <2>1 DEF DigitInv
<1>8. text \in Seq(Char \cup {Gap}) /\ WithoutGaps(text) = Append(p, d)
  BY <1>5 DEF PoolTypeOK, ReadInv
<1> QED  BY <1>1, <1>7, <1>8, GapIsLast

LEMMA InnerRefuses ==
    ASSUME PoolTypeOK, ArrayTypeOK, ContainerTypeOK, PoolInv, ContainerInv, ReadInv, EntryInv,
           ArrayStep("containerLoop"), frame # "failed", frame' = "failed"
    PROVE  Refused /\ UNCHANGED <<look, text>>
<1> DEFINE a == ArrayRead("containerLoop")
           o == Before(InnerTexts(outer.out))
<1>1. ArrayInv /\ ArrayOrder /\ ItemInv /\ FramesInv
  BY DEF ContainerInv, ReadInv, EntryInv
<1>2. frame = "array" /\ ~array.began => look \in Char \ {Blank, Nul}  BY DEF EntryInv
<1>3. "containerLoop" \notin ScalarFrame \cup ArrayFrame \cup {"failed"}
  BY DEF ScalarFrame, ArrayFrame
<1>4. /\ UNCHANGED <<look, text>> /\ look \in Char
      /\ \/ DigitAfterItem
         \/ \A ws \in Seq(Item(ItemKind)) : \A t \in Seq(Char) :
                ~Agrees(Append(a, look), ArrayText(ws) \o t)
      /\ Agrees(Append(a, look), <<"]">>) => frame = "array" /\ ~array.began /\ look = "]"
  BY <1>1, <1>2, <1>3, ArrayRefuses
<1>5. CASE DigitAfterItem  BY <1>1, <1>4, <1>5, SplitIsGap DEF Refused
<1>6. CASE \A ws \in Seq(Item(ItemKind)) : \A t \in Seq(Char) :
               ~Agrees(Append(a, look), ArrayText(ws) \o t)
  <2>1. InnerRuns
    <3>1. ArrayStep("containerLoop") => frame \in ScalarFrame \cup ArrayFrame
      BY DEF ArrayStep, ResumeItem, ArrayResumesItem, OpenArray, ArrayBegins,
         ResumeArray, ArrayResumes, SkipArrayBlank, EndArrayChunk, CloseArray, ReadItem, ArraySkips,
         KeepItem, WaitForItem, Separate, ScalarStep, StringStart, StringChar, StringInvalid,
         StringClose, StringEnd, NumberDigit, NumberDirect, NumberInvalid, NumberEnd, NumberRestDone,
         ScalarFrame, ArrayFrame
    <3> QED  BY <3>1 DEF InnerRuns
  <2>2. OuterRead = o \o a
    <3>1. outer.began /\ outer.expect  BY <1>1, <2>1 DEF FramesInv
    <3> QED  BY <3>1, OuterReadIsThat DEF OuterReadIs
  <2>3. o \in Seq(Char) /\ a \in Seq(Char) /\ look \in Char
    BY <1>4, OuterReadCases, ArrayReadTyped
  <2>4. outer.out \in Seq(Inner) /\ sameSize \in BOOLEAN  BY DEF EntryInv, ContainerTypeOK
  <2> DEFINE r == Append(a, look)
  <2>5. outer.out = <<>> => ~Agrees(r, <<"]">>)  BY <1>4 DEF EntryInv
  <2>6. \A x \in Inner : \A t \in Seq(Char) : ~Agrees(r, ArrayText(x) \o t)
    BY <1>6 DEF Inner
  <2>7. Append(OuterRead, look) = o \o r /\ r \in Seq(Char)
    <3> HIDE DEF o, a
    <3> QED  BY <2>2, <2>3, TextAppends
  <2> HIDE DEF r
  <2>8. Before(InnerTexts(outer.out)) \o r \notin Beginnings
    BY <2>4, <2>5, <2>6, <2>7, Refuted
  <2>9. WithoutGaps(Append(text, look)) = Append(OuterRead, look)  BY <2>3, ReadWithLook
  <2> QED  BY <1>4, <2>7, <2>8, <2>9 DEF Refused
<1> QED  BY <1>4, <1>5, <1>6

LEMMA SeparateInnerRefuses ==
    ASSUME PoolTypeOK, ContainerTypeOK, ContainerInv, ReadInv, EntryInv,
           SeparateInner, frame' = "failed"
    PROVE  Refused /\ UNCHANGED <<look, text>>
<1>1. /\ frame = "containerLoop" /\ ret = "none" /\ ~outer.expect /\ UNCHANGED <<look, text>>
      /\ look \in Char /\ look # "]" /\ look # ","
  BY DEF SeparateInner
<1>2. outer.out \in Seq(Inner) /\ outer.out # <<>> /\ sameSize \in BOOLEAN
  BY <1>1 DEF EntryInv, ContainerTypeOK
<1>3. PICK f \in Seq(Inner), l \in Inner : outer.out = Append(f, l)
  BY <1>2, SequenceEmptyOrAppend
<1> DEFINE x == ArrayText(l)
           o == Before(InnerTexts(f))
           q == <<look>>
           r == x \o q
<1>4. l \in Seq(Item(ItemKind))  BY DEF Inner
<1>5. x \in Seq(Char) /\ x # <<>> /\ x[1] = "["  BY <1>4, ArrayTextTyped
<1>6. /\ InnerTexts(f) \in Seq(Seq(Char)) /\ f \in Seq(Seq(Seq(Char)))
  BY InnerTextsTyped
<1>7. InnerTexts(outer.out) = Append(InnerTexts(f), x)
  <2>1. l \in Seq(Seq(Char))  BY <1>4, ItemTextsTyped
  <2> QED  BY <1>3, <1>6, <2>1, InnerTextsAppend
<1>8. o \in Seq(Char) /\ Opened(InnerTexts(outer.out)) = o \o x
  BY <1>5, <1>6, <1>7, OpenedTyped, OpenedAppend
<1>9. OuterRead = o \o x
  <2>1. outer.began  BY <1>1 DEF ContainerInv, FramesInv
  <2> QED  BY <1>1, <1>8, <2>1, OuterReadIsThat DEF OuterReadIs
<1>10. q \in Seq(Char) /\ q # <<>> /\ q[1] = look  BY <1>1, Single
<1> HIDE DEF x, o, q
<1>11. Append(OuterRead, look) = o \o r /\ r \in Seq(Char) /\ r # <<>> /\ r[1] = "["
  <2>1. o \o x \in Seq(Char)  BY <1>5, <1>8, ConcatProperties
  <2>2. Append(o \o x, look) = (o \o x) \o q  BY <1>1, <2>1, AppendIsConcat DEF q
  <2>3. (o \o x) \o q = o \o (x \o q)  BY <1>5, <1>8, <1>10, ConcatAssociative
  <2>4. x \o q \in Seq(Char) /\ x \o q # <<>> /\ (x \o q)[1] = x[1]
    BY <1>5, <1>10, FirstStays
  <2> QED  BY <1>5, <1>9, <2>2, <2>3, <2>4
<1>12. ASSUME o \o r \in Beginnings PROVE FALSE
  <2>1. r \in Seq(Char) /\ Before(InnerTexts(f)) \o r \in Beginnings
    BY <1>11, <1>12 DEF o
  <2>2. ASSUME Agrees(r, <<"]">>) PROVE FALSE
    <3> DEFINE z == <<"]">>
    <3>1. z \in Seq(Char) /\ z # <<>> /\ z[1] = "]"
      <4>1. "]" \in Char  BY CommaIsChar
      <4> QED  BY <4>1, Single
    <3>2. Agrees(r, z)  BY <2>2
    <3> HIDE DEF z, r
    <3>3. r[1] = z[1]  BY <1>11, <3>1, <3>2, AgreesFirst
    <3> QED  BY <1>11, <3>1, <3>3
  <2>3. ASSUME NEW w \in Seq(Inner), NEW c \in {",", "]"}, Follows(f, r, w, c) PROVE FALSE
    <3> DEFINE y == w[Len(f) + 1]
               z == <<c>>
    <3>1. Len(f) < Len(w) /\ Agrees(r, ArrayText(y) \o z)  BY <2>3 DEF Follows
    <3>2. y \in Inner  BY <3>1, PlaceBehind
    <3>3. z \in Seq(Char) /\ z # <<>> /\ z[1] = c
      <4>1. c \in Char  BY CommaIsChar
      <4> QED  BY <4>1, Single
    <3>4. y \in Seq(Item(ItemKind))  BY <3>2 DEF Inner
    <3>5. Agrees(ArrayText(l) \o q, ArrayText(y) \o z)  BY <3>1 DEF x
    <3> HIDE DEF y, z
    <3>6. l = y  BY <1>4, <1>10, <3>3, <3>4, <3>5, ArrayApart
    <3>7. Agrees(x \o q, x \o z)  BY <3>5, <3>6 DEF x
    <3>8. Agrees(q, z)  BY <1>5, <1>10, <3>3, <3>7, AgreesRest
    <3>9. q[1] = z[1]  BY <1>10, <3>3, <3>8, AgreesFirst
    <3> QED  BY <1>1, <1>10, <3>3, <3>9
  <2> HIDE DEF r
  <2> QED  BY <1>2, <2>1, <2>2, <2>3, NestedGoesOn
<1>13. WithoutGaps(Append(text, look)) = Append(OuterRead, look)  BY <1>1, ReadWithLook
<1> QED  BY <1>1, <1>11, <1>12, <1>13 DEF Refused

LEMMA SizeOfNext ==
    ASSUME NEW v \in Seq(Inner), NEW w \in Seq(Inner), v # <<>>, Len(v) < Len(w),
           OfOneSize(w), \A i \in 1..Len(v) : v[i] = w[i]
    PROVE  Len(v[1]) = Len(w[Len(v) + 1])
<1>1. Len(v) \in Nat \ {0}  BY EmptySeq
<1>2. Len(w) \in Nat /\ DOMAIN w = 1..Len(w)  OBVIOUS
<1>3. 1 \in 1..Len(v) /\ 1 \in DOMAIN w /\ Len(v) + 1 \in DOMAIN w  BY <1>1, <1>2
<1>4. v[1] = w[1]  BY <1>3
<1>5. Len(w[1]) = Len(w[Len(v) + 1])  BY <1>3 DEF OfOneSize
<1> QED  BY <1>4, <1>5

LEMMA KeepInnerRefuses ==
    ASSUME PoolTypeOK, ArrayTypeOK, ContainerTypeOK, ContainerInv, ReadInv, EntryInv,
           KeepInner, frame' = "failed"
    PROVE  Refused /\ UNCHANGED <<look, text>>
<1> DEFINE r == ArrayText(array.out)
           z == <<>>
<1>1. /\ frame = "containerLoop" /\ ret = "pointer" /\ UNCHANGED <<look, text>>
      /\ sameSize /\ outer.out # <<>> /\ Len(outer.out[1]) # Len(array.out)
  BY DEF KeepInner, SizeAgrees
<1>2. look = Unread /\ outer.out \in Seq(Inner) /\ array.out \in Seq(Item(ItemKind))
  BY <1>1 DEF EntryInv, ItemInv
<1>3. outer.began /\ outer.expect /\ ~array.began
  BY <1>1 DEF ContainerInv, FramesInv
<1>4. WithoutGaps(text) = Before(InnerTexts(outer.out)) \o r
  <2>1. ArrayRead("containerLoop") = r  BY <1>1, <1>3 DEF ArrayRead
  <2>2. OuterRead = Before(InnerTexts(outer.out)) \o ArrayRead("containerLoop")
    BY <1>3, OuterReadIsThat DEF OuterReadIs
  <2> QED  BY <2>1, <2>2 DEF ReadInv
<1>5. r \in Seq(Char) /\ z \in Seq(Char) /\ r \o z = r
  <2>1. r \in Seq(Char)  BY <1>2, ArrayTextTyped
  <2> QED  BY <2>1, EmptyIsSeq, ConcatEmptySeq
<1>6. ASSUME Before(InnerTexts(outer.out)) \o r \in Beginnings PROVE FALSE
  <2> DEFINE vs == outer.out
  <2>1. sameSize \in BOOLEAN /\ vs \in Seq(Inner) /\ vs # <<>> /\ r \in Seq(Char)
    BY <1>1, <1>2, <1>5
  <2>2. Before(InnerTexts(vs)) \o r \in Beginnings  BY <1>6
  <2>0. Len(vs[1]) # Len(array.out)  BY <1>1
  <2> HIDE DEF vs, r, z
  <2>3. PICK w \in Seq(Inner), c \in {",", "]"} : Follows(vs, r, w, c)
    BY <2>1, <2>2, NestedGoesOn
  <2> DEFINE n == Len(vs) + 1
             y == w[n]
             q == <<c>>
  <2>4. /\ Len(vs) < Len(w) /\ OfOneSize(w) /\ Agrees(r, ArrayText(y) \o q)
        /\ \A i \in 1..Len(vs) : vs[i] = w[i]
    BY <1>1, <2>3 DEF Follows
  <2>5. n \in 1..Len(w) /\ y \in Inner  BY <2>1, <2>4, PlaceBehind
  <2>6. q \in Seq(Char)
    <3>1. c \in Char  BY CommaIsChar
    <3> QED  BY <3>1, Single
  <2>7. y \in Seq(Item(ItemKind))  BY <2>5 DEF Inner
  <2>8. array.out = y
    <3>1. Agrees(ArrayText(array.out) \o z, ArrayText(y) \o q)  BY <1>5, <2>4 DEF r
    <3>2. array.out \in Seq(Item(ItemKind))  BY <1>2
    <3> HIDE DEF y, q, n
    <3> QED  BY <1>5, <2>6, <2>7, <3>1, <3>2, ArrayApart
  <2>9. Len(vs[1]) = Len(w[n])
    <3> HIDE DEF q
    <3> QED  BY <2>1, <2>4, SizeOfNext
  <2> QED  BY <2>0, <2>8, <2>9
<1> QED  BY <1>1, <1>2, <1>4, <1>6 DEF Refused

LEMMA ContainerRefuses ==
    ASSUME PoolTypeOK, ArrayTypeOK, ContainerTypeOK, PoolInv, ContainerInv, ReadInv, EntryInv,
           ContainerStep("caller"), frame' = "failed"
    PROVE  RefusesOnlyNonArrays'
<1>1. UNCHANGED sameSize /\ frame # "failed"  BY StepsAreOfCalls DEF ContainerStep
<1>2. OpenContainer \/ KeepInner \/ SeparateInner \/ ArrayStep("containerLoop")
  BY <1>1 DEF ContainerStep, ContainerResumesItem, ResumeContainer, SkipContainerBlank,
     EndContainerChunk, CloseContainer, ReadInner, WaitForInner, ContainerNeedsMore, ReturnTo
<1>3. Refused /\ UNCHANGED <<look, text>>
  BY <1>1, <1>2, OpenContainerRefuses, KeepInnerRefuses, SeparateInnerRefuses, InnerRefuses
<1>4. Refused'  BY <1>1, <1>3, RefusedStays
<1> QED  BY <1>4, RefusedNext

----------------------------------------------------------------------------
(* What the steps of the outer array, and of the inner one below it, leave  *)
(* of EntryInv.                                                             *)
LEMMA ContainerKeepsEntry ==
    ASSUME PoolTypeOK, ArrayTypeOK, ContainerTypeOK, PoolInv, ContainerInv, ReadInv, EntryInv,
           ContainerStep("caller"), frame' # "failed"
    PROVE  EntryInv'
<1>a. ArrayInv /\ FlagsInv /\ FramesInv /\ ArrayOrder /\ ItemInv
  BY DEF ContainerInv, ReadInv, EntryInv
<1>b. /\ outer \in [out : Seq(Seq(Seq(Char))), began : BOOLEAN, expect : BOOLEAN, finished : BOOLEAN]
      /\ array \in [out : Seq(Seq(Char)), began : BOOLEAN, expect : BOOLEAN, finished : BOOLEAN]
  BY DEF ArrayTypeOK, ContainerTypeOK
<1>c. outer.out \in Seq(Inner)  BY DEF EntryInv
<1>1. CASE ContainerResumesItem
  <2>1. /\ frame = "container" /\ frame' = "array" /\ ~array.finished
        /\ UNCHANGED <<buffer, scan, string, number, array, outer>>
    BY <1>1 DEF ContainerResumesItem
  <2>2. array'.began  BY <1>a, <2>1 DEF FlagsInv
  <2>3. ItemInv'  BY <1>a, <2>1, RestKeepsItems
  <2> QED  BY <1>c, <2>1, <2>2, <2>3 DEF EntryInv
<1>2. CASE OpenContainer
  <2>1. /\ frame = "container" /\ frame' = "containerFirst"
        /\ UNCHANGED <<buffer, scan, string, number, array>>
        /\ outer' = [outer EXCEPT !.began = TRUE, !.expect = TRUE]
    BY <1>2 DEF OpenContainer, Throw
  <2>2. outer'.out = outer.out  BY <1>b, <2>1
  <2>3. ItemInv'  BY <1>a, <2>1, RestKeepsItems
  <2> QED  BY <1>c, <2>1, <2>2, <2>3 DEF EntryInv
<1>3. CASE ResumeContainer
  <2>1. /\ frame = "container" /\ UNCHANGED <<ret, buffer, scan, string, number, array, outer>>
        /\ frame' = IF outer.out = <<>> THEN "containerFirst" ELSE "containerLoop"
    BY <1>3 DEF ResumeContainer
  <2>2. ItemInv'  BY <1>a, <2>1, RestKeepsItems
  <2>3. ret' = "none"  BY <1>a, <2>1 DEF FramesInv
  <2> QED  BY <1>c, <2>1, <2>2, <2>3 DEF EntryInv
<1>4. CASE SkipContainerBlank
  <2>1. /\ frame \in {"containerFirst", "containerLoop"} /\ ret = "none"
        /\ UNCHANGED <<frame, ret, buffer, scan, string, number, array, outer>>
    BY <1>4 DEF SkipContainerBlank, ContainerSkips
  <2>2. ItemInv'  BY <1>a, <2>1, RestKeepsItems
  <2> QED  BY <1>c, <2>1, <2>2 DEF EntryInv
<1>5. CASE EndContainerChunk("caller")
  <2>1. /\ frame \in {"containerFirst", "containerLoop"} /\ frame' = "caller"
        /\ UNCHANGED <<buffer, scan, string, number, array>>
        /\ outer' = [outer EXCEPT !.finished = FALSE]
    BY <1>5 DEF EndContainerChunk, ContainerSkips, ContainerNeedsMore, ReturnTo
  <2>2. outer'.out = outer.out  BY <1>b, <2>1
  <2>3. ItemInv'  BY <1>a, <2>1, RestKeepsItems
  <2> QED  BY <1>c, <2>1, <2>2, <2>3 DEF EntryInv
<1>6. CASE CloseContainer("caller")
  <2>1. /\ frame \in {"containerFirst", "containerLoop"} /\ frame' = "caller"
        /\ UNCHANGED <<buffer, scan, string, number, array>>
        /\ outer' = [outer EXCEPT !.began = FALSE, !.finished = TRUE]
    BY <1>6 DEF CloseContainer, ContainerSkips, Closed, ReturnTo
  <2>2. outer'.out = outer.out  BY <1>b, <2>1
  <2>3. ItemInv'  BY <1>a, <2>1, RestKeepsItems
  <2> QED  BY <1>c, <2>1, <2>2, <2>3 DEF EntryInv
<1>7. CASE ReadInner
  <2>1. /\ frame \in {"containerFirst", "containerLoop"} /\ ret = "none" /\ frame' = "array"
        /\ look \in Char \ {Blank, Nul} /\ (frame = "containerFirst" => look # "]")
        /\ UNCHANGED <<ret, look, buffer, scan, string, number, array, outer>>
    BY <1>7 DEF ReadInner, ContainerSkips
  <2>2. ItemInv'  BY <1>a, <2>1, RestKeepsItems
  <2>3. outer.out = <<>> => look # "]"  BY <2>1 DEF EntryInv
  <2> QED  BY <1>c, <2>1, <2>2, <2>3 DEF EntryInv
<1>8. CASE KeepInner
  <2>1. /\ frame = "containerLoop" /\ ret = "pointer" /\ frame' = "containerLoop" /\ ret' = "none"
        /\ outer' = [outer EXCEPT !.out = Append(outer.out, array.out), !.expect = FALSE]
        /\ array' = [array EXCEPT !.out = <<>>] /\ UNCHANGED <<buffer, scan, string, number>>
    BY <1>8 DEF KeepInner, Throw, InnerSwapped
  <2>2. outer'.out = Append(outer.out, array.out) /\ array'.out = <<>>  BY <1>b, <2>1
  <2>3. array.out \in Inner  BY DEF EntryInv, ItemInv, Inner
  <2>4. outer'.out \in Seq(Inner) /\ outer'.out # <<>>
    BY <1>c, <2>2, <2>3, AppendIsSeq, AppendProperties
  <2>5. ItemInv'  BY <1>a, <2>1, <2>2, RestKeepsItems
  <2> QED  BY <2>1, <2>4, <2>5 DEF EntryInv
<1>9. CASE WaitForInner("caller")
  <2>1. /\ frame = "containerLoop" /\ frame' = "caller"
        /\ UNCHANGED <<buffer, scan, string, number, array>>
        /\ outer' = [outer EXCEPT !.finished = FALSE]
    BY <1>9 DEF WaitForInner, ContainerNeedsMore, ReturnTo
  <2>2. outer'.out = outer.out  BY <1>b, <2>1
  <2>3. ItemInv'  BY <1>a, <2>1, RestKeepsItems
  <2> QED  BY <1>c, <2>1, <2>2, <2>3 DEF EntryInv
<1>10. CASE SeparateInner
  <2>1. /\ frame = "containerLoop" /\ ret = "none"
        /\ UNCHANGED <<frame, ret, buffer, scan, string, number, array>>
        /\ outer' = [outer EXCEPT !.expect = TRUE]
    BY <1>10 DEF SeparateInner, Throw
  <2>2. outer'.out = outer.out /\ outer.out # <<>>  BY <1>b, <2>1 DEF EntryInv
  <2>3. ItemInv'  BY <1>a, <2>1, RestKeepsItems
  <2> QED  BY <1>c, <2>1, <2>2, <2>3 DEF EntryInv
<1>11. CASE ArrayStep("containerLoop") /\ UNCHANGED outer
  <2>1. ItemInv'
    <3>1. "containerLoop" \notin ScalarFrame \cup ArrayFrame \cup {"failed"}
      BY DEF ScalarFrame, ArrayFrame
    <3> QED  BY <1>a, <1>11, <3>1, ArrayKeepsItems
  <2>2. /\ frame' \in ScalarFrame \cup {"arrayFirst", "arrayLoop", "containerLoop"}
        /\ frame' = "containerLoop" =>
              ret' = "nullptr" \/ (ret' = "pointer" /\ look' = Unread)
    <3>1. CASE CloseArray("containerLoop")  BY <3>1 DEF CloseArray, Advance, ReturnTo
    <3>2. CASE EndArrayChunk("containerLoop")
      BY <3>2 DEF EndArrayChunk, ArrayNeedsMore, ReturnTo
    <3>3. CASE WaitForItem("containerLoop")
      BY <3>3 DEF WaitForItem, ArrayNeedsMore, ReturnTo
    <3>4. CASE ScalarStep("arrayLoop")
      BY <3>4, ScalarKeepsTypes DEF ScalarFrame
    <3>5. CASE \/ ResumeItem \/ OpenArray \/ ResumeArray \/ SkipArrayBlank
               \/ ReadItem \/ KeepItem \/ Separate
      BY <3>5 DEF ResumeItem, OpenArray, ResumeArray, ResumedFrame, SkipArrayBlank, ArraySkips,
         ReadItem, EntryFrame, KeepItem, Separate, Throw, ScalarFrame
    <3> QED  BY <1>11, <3>1, <3>2, <3>3, <3>4, <3>5 DEF ArrayStep
  <2> QED  BY <1>c, <1>11, <2>1, <2>2 DEF EntryInv, ScalarFrame
<1> QED
  BY <1>1, <1>2, <1>3, <1>4, <1>5, <1>6, <1>7, <1>8, <1>9, <1>10, <1>11 DEF ContainerStep

LEMMA EntryStays ==
    ASSUME EntryInv, UNCHANGED <<frame, ret, look, buffer, scan, string, number, array, outer>>
    PROVE  EntryInv'
BY DEF EntryInv, ItemInv, TokenInv, Starting, StringBusy, PoolValue

(* The first chunk of an array is not empty, and only the loop that a step  *)
(* leaves looks at another character.                                       *)
LEMMA FeedKeepsEntry ==
    ASSUME PoolTypeOK, ArrayTypeOK, WriterTypeOK, ContainerInv, ReadInv, EntryInv,
           FeedText, UNCHANGED <<array, outer>>
    PROVE  EntryInv'
<1>1. /\ frame \notin {"caller", "failed"} /\ ret = "none"
      /\ look = Unread /\ look' \in Char \cup {EndOfChunk}
      /\ UNCHANGED <<frame, ret, text, buffer, scan, string, number>>
  BY FedIsCharacter
<1>2. ItemInv'
  <2>1. ItemInv /\ array'.out = array.out  BY DEF EntryInv
  <2> QED  BY <1>1, <2>1, RestKeepsItems
<1>3. Unread \notin Char  BY CharsApart
<1>4. frame = "container" /\ ~outer.began => look' # EndOfChunk
  <2> SUFFICES ASSUME frame = "container", ~outer.began PROVE look' # EndOfChunk
    OBVIOUS
  <2>1. text = <<>>  BY DEF ReadInv, Complete
  <2>2. CASE FeedChar
    <3>1. {Quote, Blank, Nul} \cup Content \cup Digit \subseteq Char  BY CharAssumption DEF Char
    <3>2. Offer \subseteq Char  BY <3>1 DEF Offer
    <3>3. EndOfChunk \notin Char  BY CharsApart
    <3> QED  BY <2>2, <3>2, <3>3 DEF FeedChar, Feed
  <2>3. CASE Len(text) < Len(sink) /\ Feed(sink[Len(text) + 1])
    <3>1. Len(text) + 1 \in 1..Len(sink)  BY <2>3 DEF PoolTypeOK, WriterTypeOK
    <3>2. EndOfChunk \notin Char  BY CharsApart
    <3> QED  BY <2>3, <3>1, <3>2, WrittenIsText DEF Feed
  <2> QED  BY <2>1, <2>2, <2>3 DEF FeedText
<1> QED  BY <1>1, <1>2, <1>3, <1>4 DEF EntryInv

LEMMA ParseKeepsEntry ==
    ASSUME EntryInv, Parse
    PROVE  EntryInv'
<1>1. /\ frame = "caller" /\ frame' = "container" /\ look' = Unread
      /\ UNCHANGED <<buffer, scan, string, number, array, outer>>
  BY DEF Parse
<1>2. ItemInv'
  <2>1. ItemInv /\ array'.out = array.out  BY <1>1 DEF EntryInv
  <2> QED  BY <1>1, <2>1, RestKeepsItems
<1>3. Unread # EndOfChunk  BY DEF Unread, EndOfChunk
<1> QED  BY <1>1, <1>2, <1>3 DEF EntryInv

LEMMA EmptyEntry ==
    ASSUME frame = "caller", string.finished, number.finished, array.out = <<>>, outer.out = <<>>
    PROVE  EntryInv
<1>1. <<>> \in Seq(Item(ItemKind)) /\ <<>> \in Seq(Inner)  BY EmptyIsSeq
<1>2. TokenInv /\ ~Starting  BY DEF TokenInv, Starting, StringBusy
<1> QED  BY <1>1, <1>2 DEF EntryInv, ItemInv

LEMMA EmptyEntryNext ==
    ASSUME frame' = "caller", string'.finished, number'.finished, array'.out = <<>>,
           outer'.out = <<>>
    PROVE  EntryInv'
<1>1. <<>> \in Seq(Item(ItemKind)) /\ <<>> \in Seq(Inner)  BY EmptyIsSeq
<1>2. TokenInv' /\ ~Starting'  BY DEF TokenInv, Starting, StringBusy
<1> QED  BY <1>1, <1>2 DEF EntryInv, ItemInv

LEMMA RenewKeepsEntry ==
    ASSUME ContainerTypeOK, frame # "failed" => EntryInv, Renew
    PROVE  EntryInv'
<1>1. CASE Swap
  <2>1. /\ frame = "caller" /\ UNCHANGED <<frame, buffer, scan, string, number, array>>
        /\ outer' = [outer EXCEPT !.out = <<>>]
    BY <1>1 DEF Swap, Complete
  <2>2. outer'.out = <<>> /\ <<>> \in Seq(Inner)  BY <2>1, EmptyIsSeq DEF ContainerTypeOK
  <2>3. ItemInv'
    <3>1. ItemInv /\ array'.out = array.out  BY <2>1 DEF EntryInv
    <3> QED  BY <2>1, <3>1, RestKeepsItems
  <2> QED  BY <2>1, <2>2, <2>3 DEF EntryInv
<1>2. CASE Drop
  BY <1>2, EmptyEntryNext DEF Drop, NewPool, NewArray
<1> QED  BY <1>1, <1>2 DEF Renew

(* The inductive strengthening of RefusesOnlyNonArrays.                     *)
RefuseInv == RefusesOnlyNonArrays /\ (frame # "failed" => EntryInv)

LEMMA RefuseInitial == Init => RefuseInv
<1> SUFFICES ASSUME Init PROVE RefuseInv
  OBVIOUS
<1>1. EntryInv  BY EmptyEntry DEF Init, ContainerInit, PoolInit, NewArray
<1>2. frame # "failed"  BY DEF Init, ContainerInit, PoolInit
<1> QED  BY <1>1, <1>2 DEF RefuseInv, RefusesOnlyNonArrays

(* A failed parser is only dropped; only a step of a call fails.            *)
LEMMA RefuseKept ==
    ASSUME IInv, RefuseInv, [Next]_vars
    PROVE  RefuseInv'
<1>1. ControlInv /\ PoolTypeOK /\ ArrayTypeOK /\ ContainerTypeOK /\ WriterTypeOK
  BY DEF IInv, ControlInv, TypeOK
<1>2. frame # "failed" => EntryInv /\ PoolInv /\ ContainerInv /\ ReadInv
  BY DEF IInv, ControlInv, RefuseInv
<1>3. ASSUME frame' # "failed", EntryInv' PROVE RefuseInv'
  BY <1>3 DEF RefuseInv, RefusesOnlyNonArrays
<1>4. CASE Parse
  <2>1. frame # "failed" /\ frame' # "failed"  BY <1>4 DEF Parse
  <2> QED  BY <1>2, <1>3, <1>4, <2>1, ParseKeepsEntry
<1>5. CASE ContainerStep("caller")
  <2>1. frame # "failed"  BY <1>5, StepsAreOfCalls
  <2>2. CASE frame' = "failed"
    <3>1. RefusesOnlyNonArrays'  BY <1>1, <1>2, <1>5, <2>1, <2>2, ContainerRefuses
    <3> QED  BY <2>2, <3>1 DEF RefuseInv
  <2>3. CASE frame' # "failed"  BY <1>1, <1>2, <1>3, <1>5, <2>1, <2>3, ContainerKeepsEntry
  <2> QED  BY <2>2, <2>3
<1>6. CASE FeedText /\ UNCHANGED <<array, outer, sameSize>>
  <2>1. frame # "failed" /\ frame' # "failed"  BY <1>1, <1>6, FedIsCharacter
  <2> QED  BY <1>1, <1>2, <1>3, <1>6, <2>1, FeedKeepsEntry
<1>7. CASE Renew
  <2>1. frame' # "failed"  BY <1>7 DEF Renew, Swap, Complete, Drop, NewPool
  <2> QED  BY <1>1, <1>2, <1>3, <1>7, <2>1, RenewKeepsEntry
<1>8. CASE UNCHANGED containerVars
  <2>1. UNCHANGED <<frame, ret, look, text, buffer, scan, string, number, array, outer, sameSize>>
    BY <1>8 DEF containerVars, arrayVars, poolVars
  <2>2. CASE frame = "failed"
    <3>1. Refused  BY <2>2 DEF RefuseInv, RefusesOnlyNonArrays, Refused
    <3>2. RefusesOnlyNonArrays'  BY <2>1, <3>1, RefusedStays, RefusedNext
    <3> QED  BY <2>1, <2>2, <3>2 DEF RefuseInv
  <2>3. CASE frame # "failed"  BY <1>2, <1>3, <2>1, <2>3, EntryStays
  <2> QED  BY <2>2, <2>3
<1>9. CASE UNCHANGED vars  BY <1>8, <1>9 DEF vars
<1> QED  BY <1>4, <1>5, <1>6, <1>7, <1>8, <1>9 DEF Next, Step

(* An exception of ParseContainerArray, of the ParseArray below it or of    *)
(* the item's parser means that no array of arrays begins with the text     *)
(* read and the character that was met, or that whitespace split a number.  *)
THEOREM RefusesOnlyBadTexts == Spec => []RefusesOnlyNonArrays
<1>1. IInv /\ RefuseInv /\ [Next]_vars => RefuseInv'  BY RefuseKept
<1>2. RefuseInv => RefusesOnlyNonArrays  BY DEF RefuseInv
<1> QED  BY <1>1, <1>2, RefuseInitial, Invariance, PTL DEF Spec

----------------------------------------------------------------------------
(* What Write gave to the sink where it is at the i-th of these texts, or   *)
(* at its loop after it.                                                    *)
WrittenOf(texts, i) ==
    IF writing = "range" THEN Opened(SubSeq(texts, 1, i))
    ELSE Before(SubSeq(texts, 1, i - 1))

(* The sink has what the ranges that are being written, and the elements    *)
(* before them, are written as.                                             *)
AtInner(i) ==
    /\ path = <<i>> /\ (writing = "element" => i > 0)
    /\ sink = WrittenOf(InnerTexts(vector), i)

AtNumber(i, j) ==
    /\ path = <<i, j>> /\ (writing = "element" => j > 0)
    /\ sink = Before(SubSeq(InnerTexts(vector), 1, i - 1)) \o WrittenOf(ItemTexts(vector[i]), j)

SinkInv ==
    \/ writing = "idle"
    \/ writing = "written" /\ sink = TextOf(vector)
    \/ writing \in {"range", "element"} /\ \E i \in 0..Len(vector) : AtInner(i)
    \/ /\ writing \in {"range", "element"}
       /\ \E i \in 1..Len(vector) : \E j \in 0..Len(vector[i]) : AtNumber(i, j)

(* A written text is of a value Write was given, has no whitespace, and is  *)
(* read character by character from its start.                              *)
Written == Digit \cup {"[", "]", ","}

ReadBackInv ==
    /\ sink \in Seq(Written)
    /\ writing # "idle" => vector \in Value /\ (sameSize => OfOneSize(vector))
    /\ writing \in {"range", "element"} => frame = "caller" /\ text = <<>>
    /\ writing = "written" =>
        /\ frame # "failed"
        /\ Len(text) <= Len(sink) /\ text = SubSeq(sink, 1, Len(text))
        /\ frame # "caller" /\ look \in Char =>
            Len(text) < Len(sink) /\ look = sink[Len(text) + 1]

(* The texts up to one of them, and what comes between.                     *)
LEMMA OpenedUpTo ==
    ASSUME NEW ts \in Seq(Seq(Char)), NEW i \in 1..Len(ts)
    PROVE  Opened(SubSeq(ts, 1, i)) = Before(SubSeq(ts, 1, i - 1)) \o ts[i]
<1> DEFINE T == Seq(Char)
<1>1. ts \in Seq(T)  OBVIOUS
<1> HIDE DEF T
<1>2. Len(ts) \in Nat /\ ts[i] \in T  BY <1>1
<1>3. SubSeq(ts, 1, i - 1) \in Seq(T)  BY <1>1, <1>2
<1>4. SubSeq(ts, 1, i) = Append(SubSeq(ts, 1, i - 1), ts[i])  BY <1>1, <1>2, <1>3
<1>5. SubSeq(ts, 1, i - 1) \in Seq(Seq(Char)) /\ ts[i] \in Seq(Char)  BY <1>2, <1>3 DEF T
<1> QED  BY <1>4, <1>5, OpenedAppend

LEMMA BeforeUpTo ==
    ASSUME NEW ts \in Seq(Seq(Char)), NEW i \in 0..Len(ts)
    PROVE  /\ SubSeq(ts, 1, i) \in Seq(Seq(Char))
           /\ Opened(SubSeq(ts, 1, i)) \in Seq(Char) /\ Before(SubSeq(ts, 1, i)) \in Seq(Char)
           /\ i = 0 => SubSeq(ts, 1, i) = <<>>
           /\ i = 0 => Opened(SubSeq(ts, 1, i)) = <<"[">>
           /\ i = 0 => Before(SubSeq(ts, 1, i)) = Opened(SubSeq(ts, 1, i))
           /\ i # 0 => Before(SubSeq(ts, 1, i)) = Append(Opened(SubSeq(ts, 1, i)), ",")
<1> DEFINE T == Seq(Char)
           u == SubSeq(ts, 1, i)
<1>1. ts \in Seq(T)  OBVIOUS
<1> HIDE DEF T
<1>2. u \in Seq(T) /\ Len(u) = i /\ i \in Nat  BY <1>1
<1>3. u \in Seq(Seq(Char))  BY <1>2 DEF T
<1>4. Opened(u) \in Seq(Char) /\ Before(u) \in Seq(Char)  BY <1>3, OpenedTyped
<1>5. i = 0 => u = <<>>  BY <1>2, EmptySeq
<1>6. ASSUME i # 0 PROVE Before(u) = Append(Opened(u), ",")
  <2>1. Comma(Len(u) + 1) = <<",">>
    <3> HIDE DEF u
    <3>1. Len(u) + 1 # 1  BY <1>2, <1>6
    <3> QED  BY <3>1 DEF Comma
  <2>2. "," \in Char  BY CommaIsChar
  <2> QED  BY <1>4, <2>1, <2>2, AppendIsConcat DEF Before
<1> HIDE DEF u
<1> QED  BY <1>3, <1>4, <1>5, <1>6, OpenedEmpty DEF u

(* What WriteScalarType gives to S.write is the number. *)
LEMMA NumberIsWritten ==
    ASSUME WriterTypeOK, WriteScalarType, NEW i \in 1..Len(vector), NEW j \in 1..Len(vector[i]),
           path = <<i, j>>
    PROVE  /\ sink' = sink \o vector[i][j] /\ UNCHANGED <<vector, path>> /\ writing' = "range"
           /\ vector[i][j] \in Seq(Digit)
<1> DEFINE digits == vector[i][j]
           size == IF TooSmall(Len(chars), Len(digits)) THEN Len(digits) + 1 ELSE Len(chars)
<1>1. path[1] = i /\ path[2] = j  OBVIOUS
<1>2. digits \in Seq(Digit)
  <2>1. vector[i] \in Seq(Seq(Digit))  BY DEF WriterTypeOK
  <2> QED  BY <2>1
<1>3. size \in Nat /\ Len(digits) < size /\ (size # Len(chars) => size = Len(digits) + 1)
  BY <1>2 DEF TooSmall, WriterTypeOK
<1>4. /\ chars' = Printed(digits, size)
      /\ sink' = sink \o SubSeq(chars', 1, Len(digits))
      /\ UNCHANGED <<vector, path>> /\ writing' = "range"
  BY <1>1 DEF WriteScalarType
<1> HIDE DEF digits, size
<1>5. SubSeq(chars', 1, Len(digits)) = digits  BY <1>2, <1>3, <1>4, PrintedIsDigits
<1> QED  BY <1>2, <1>4, <1>5 DEF digits

(* NextElement goes to the next place, and puts a ',' where it is not the   *)
(* first.                                                                   *)
LEMMA PlaceMoves ==
    ASSUME NEW i, NEW j, NEW k
    PROVE  [<<i>> EXCEPT ![1] = k] = <<k>> /\ [<<i, j>> EXCEPT ![2] = k] = <<i, k>>
OBVIOUS

LEMMA NextInner ==
    ASSUME NEW i \in Nat, path = <<i>>, NextElement
    PROVE  /\ writing = "range" /\ i < Len(vector) /\ writing' = "element" /\ path' = <<i + 1>>
           /\ sink' = IF i = 0 THEN sink ELSE Append(sink, ",")
<1>1. Len(path) = 1 /\ At = i /\ InnerRange = vector  BY DEF At, InnerRange
<1>2. path' = [<<i>> EXCEPT ![1] = i + 1]  BY <1>1 DEF NextElement, UpTo
<1> QED  BY <1>1, <1>2, PlaceMoves DEF NextElement, CommaBetween

LEMMA NextNumber ==
    ASSUME NEW i, NEW j \in Nat, path = <<i, j>>, NextElement
    PROVE  /\ writing = "range" /\ j < Len(vector[i]) /\ writing' = "element"
           /\ path' = <<i, j + 1>>
           /\ sink' = IF j = 0 THEN sink ELSE Append(sink, ",")
<1>1. Len(path) = 2 /\ At = j /\ InnerRange = vector[i]  BY DEF At, InnerRange
<1>2. path' = [<<i, j>> EXCEPT ![2] = j + 1]  BY <1>1 DEF NextElement, UpTo
<1>3. path' = <<i, j + 1>>
  <2>1. [<<i, j>> EXCEPT ![2] = j + 1] = <<i, j + 1>>  BY PlaceMoves
  <2> QED  BY <1>2, <2>1
<1>4. writing = "range" /\ j < Len(vector[i]) /\ writing' = "element"  BY <1>1 DEF NextElement
<1>5. sink' = IF j = 0 THEN sink ELSE Append(sink, ",")  BY <1>1 DEF NextElement, CommaBetween
<1> QED  BY <1>3, <1>4, <1>5

LEMMA EndNumbers ==
    ASSUME NEW i, NEW j, path = <<i, j>>, EndRange
    PROVE  /\ writing = "range" /\ j = Len(vector[i]) /\ sink' = Append(sink, "]")
           /\ path' = <<i>> /\ UNCHANGED writing
<1>1. Len(path) = 2 /\ path[1] = i /\ At = j /\ InnerRange = vector[i]  BY DEF At, InnerRange
<1>2. Len(path) # 1  BY <1>1
<1>3. path' = <<i>> /\ UNCHANGED writing  BY <1>1, <1>2 DEF EndRange
<1>4. writing = "range" /\ j = Len(vector[i]) /\ sink' = Append(sink, "]")
  BY <1>1 DEF EndRange
<1> QED  BY <1>3, <1>4

LEMMA VectorTexts ==
    ASSUME vector \in Value, ItemKind = "number"
    PROVE  /\ vector \in Seq(Inner) /\ Len(vector) \in Nat
           /\ InnerTexts(vector) \in Seq(Seq(Char)) /\ Len(InnerTexts(vector)) = Len(vector)
           /\ \A i \in 1..Len(vector) :
                /\ InnerTexts(vector)[i] = ArrayText(vector[i])
                /\ ItemTexts(vector[i]) \in Seq(Seq(Char))
                /\ Len(ItemTexts(vector[i])) = Len(vector[i]) /\ Len(vector[i]) \in Nat
                /\ \A j \in 1..Len(vector[i]) : ItemTexts(vector[i])[j] = vector[i][j]
<1>1. vector \in Seq(Inner)  BY ValuesAreItems
<1>2. \A i \in 1..Len(vector) : vector[i] \in Inner  BY <1>1
<1>3. ASSUME NEW vs \in Inner
      PROVE  /\ ItemTexts(vs) \in Seq(Seq(Char)) /\ Len(ItemTexts(vs)) = Len(vs) /\ Len(vs) \in Nat
             /\ \A j \in 1..Len(vs) : ItemTexts(vs)[j] = vs[j]
  <2>1. vs \in Seq(Item(ItemKind))  BY <1>3 DEF Inner
  <2>2. Len(vs) \in Nat  BY <2>1
  <2> QED  BY <2>1, <2>2, ItemTextsTyped DEF TokenText
<1>4. Len(vector) \in Nat  BY <1>1
<1> QED  BY <1>1, <1>2, <1>3, <1>4, InnerTextsTyped

(* A step of Write puts the next character, or the next number, behind what *)
(* it gave to the sink.                                                     *)
LEMMA WriterKeepsSink ==
    ASSUME ItemKind = "number", WriterTypeOK, PathInv, SinkInv, vector \in Value, WriterStep
    PROVE  SinkInv'
<1> DEFINE ts == InnerTexts(vector)
           b(i) == Before(SubSeq(ts, 1, i - 1))
<1>a. /\ vector \in Seq(Inner) /\ Len(vector) \in Nat
      /\ ts \in Seq(Seq(Char)) /\ Len(ts) = Len(vector)
      /\ \A i \in 1..Len(vector) :
            /\ ts[i] = ArrayText(vector[i])
            /\ ItemTexts(vector[i]) \in Seq(Seq(Char))
            /\ Len(ItemTexts(vector[i])) = Len(vector[i]) /\ Len(vector[i]) \in Nat
            /\ \A j \in 1..Len(vector[i]) : ItemTexts(vector[i])[j] = vector[i][j]
  BY VectorTexts
<1>b. \A i \in 1..Len(vector) : b(i) \in Seq(Char) /\ i - 1 \in 0..Len(ts) /\ i \in 0..Len(ts)
  <2> TAKE i \in 1..Len(vector)
  <2>1. i - 1 \in 0..Len(ts) /\ i \in 0..Len(ts)  BY <1>a
  <2> QED  BY <1>a, <2>1, BeforeUpTo
<1>c. UNCHANGED vector
  BY DEF WriterStep, NextElement, WriteInner, EndRange, WriteScalarType
<1>d. InnerTexts(vector)' = ts /\ \A i : ItemTexts(vector[i])' = ItemTexts(vector[i])
  BY <1>c DEF InnerTexts, ArrayText, ItemTexts
<1>e. writing \in {"range", "element"}
  BY DEF WriterStep, NextElement, WriteInner, EndRange, WriteScalarType
<1>f. ASSUME NEW i \in 0..Len(vector), writing' \in {"range", "element"}, AtInner(i)'
      PROVE  SinkInv'
  BY <1>c, <1>f DEF SinkInv
<1>g. ASSUME NEW i \in 1..Len(vector), NEW j \in 0..Len(vector[i]),
             writing' \in {"range", "element"}, AtNumber(i, j)'
      PROVE  SinkInv'
  BY <1>c, <1>g DEF SinkInv
<1>1. ASSUME NEW i \in 0..Len(vector), AtInner(i) PROVE SinkInv'
  <2>2. /\ Len(path) = 1 /\ At = i /\ path[1] = i /\ path = <<i>> /\ InnerRange = vector
        /\ sink = WrittenOf(ts, i) /\ i \in Nat /\ (writing = "element" => i > 0)
    BY <1>1 DEF AtInner, At, InnerRange
  <2>3. /\ SubSeq(ts, 1, i) \in Seq(Seq(Char)) /\ Opened(SubSeq(ts, 1, i)) \in Seq(Char)
        /\ i = 0 => Before(SubSeq(ts, 1, i)) = Opened(SubSeq(ts, 1, i))
        /\ i # 0 => Before(SubSeq(ts, 1, i)) = Append(Opened(SubSeq(ts, 1, i)), ",")
    BY <1>a, BeforeUpTo
  <2> HIDE DEF ts
  <2>4. CASE NextElement
    <3>1. /\ writing = "range" /\ i < Len(vector) /\ writing' = "element" /\ path' = <<i + 1>>
          /\ sink' = IF i = 0 THEN sink ELSE Append(sink, ",")
      BY <2>2, <2>4, NextInner
    <3>2. sink' = Before(SubSeq(ts, 1, i))  BY <2>2, <2>3, <3>1 DEF WrittenOf
    <3>3. i + 1 \in 0..Len(vector) /\ i + 1 > 0 /\ (i + 1) - 1 = i
      <4>1. i \in Nat /\ Len(vector) \in Nat /\ i < Len(vector)  BY <1>a, <2>2, <3>1
      <4> QED  BY <4>1
    <3>4. AtInner(i + 1)'  BY <1>d, <3>1, <3>2, <3>3 DEF AtInner, WrittenOf
    <3> QED  BY <1>f, <3>1, <3>3, <3>4
  <2>5. CASE WriteInner
    <3> DEFINE us == ItemTexts(vector[i])
    <3>1. writing = "element" /\ path' = <<i, 0>> /\ writing' = "range" /\ sink' = Append(sink, "[")
      BY <2>2, <2>5 DEF WriteInner
    <3>2. i \in 1..Len(vector)
      <4>1. i \in Nat /\ i > 0 /\ i \in 0..Len(vector) /\ Len(vector) \in Nat
        BY <1>a, <2>2, <3>1
      <4> QED  BY <4>1
    <3>3. sink = b(i) /\ b(i) \in Seq(Char)
      BY <1>b, <2>2, <3>1, <3>2 DEF WrittenOf, ts
    <3>4. us \in Seq(Seq(Char)) /\ 0 \in 0..Len(us) /\ 0 \in 0..Len(vector[i])
      <4>1. us \in Seq(Seq(Char)) /\ Len(us) = Len(vector[i]) /\ Len(vector[i]) \in Nat
        BY <1>a, <3>2
      <4> QED  BY <4>1
    <3>5. Opened(SubSeq(us, 1, 0)) = <<"[">>  BY <3>4, BeforeUpTo
    <3>6. Append(b(i), "[") = b(i) \o <<"[">>  BY <3>3, CommaIsChar, AppendIsConcat
    <3>7. ItemTexts(vector[i])' = us /\ InnerTexts(vector)' = ts  BY <1>d DEF ts
    <3> HIDE DEF us
    <3>8. AtNumber(i, 0)'
      BY <3>1, <3>3, <3>5, <3>6, <3>7 DEF AtNumber, WrittenOf
    <3> QED  BY <1>g, <3>1, <3>2, <3>4, <3>8
  <2>6. CASE EndRange
    <3>1. writing = "range" /\ i = Len(vector) /\ sink' = Append(sink, "]") /\ writing' = "written"
      BY <2>2, <2>6 DEF EndRange
    <3>2. SubSeq(ts, 1, i) = ts
      <4>1. ts \in Seq(Seq(Char)) /\ i = Len(ts)  BY <1>a, <3>1
      <4> DEFINE T == Seq(Char)
      <4>2. ts \in Seq(T)  BY <4>1
      <4> HIDE DEF T
      <4> QED  BY <4>1, <4>2, SubSeqFull
    <3>3. sink = Opened(ts) /\ Opened(ts) \in Seq(Char)
      BY <2>2, <2>3, <3>1, <3>2 DEF WrittenOf
    <3>4. sink' = Listed(ts)  BY <3>1, <3>3, CommaIsChar, AppendIsConcat DEF Listed
    <3>5. TextOf(vector)' = Listed(ts)  BY <1>d DEF TextOf
    <3> QED  BY <3>1, <3>4, <3>5 DEF SinkInv
  <2>7. ~WriteScalarType  BY <2>2 DEF WriteScalarType
  <2> QED  BY <2>4, <2>5, <2>6, <2>7 DEF WriterStep
<1>2. ASSUME NEW i \in 1..Len(vector), NEW j \in 0..Len(vector[i]), AtNumber(i, j) PROVE SinkInv'
  <2> DEFINE us == ItemTexts(vector[i])
             p == b(i)
             o == Opened(SubSeq(us, 1, j))
  <2>1. /\ Len(path) = 2 /\ At = j /\ path[1] = i /\ path[2] = j /\ path = <<i, j>>
        /\ InnerRange = vector[i] /\ (writing = "element" => j > 0)
        /\ sink = p \o WrittenOf(us, j)
    BY <1>2 DEF AtNumber, At, InnerRange
  <2>2. /\ us \in Seq(Seq(Char)) /\ Len(us) = Len(vector[i]) /\ Len(us) \in Nat
        /\ \A k \in 1..Len(us) : us[k] = vector[i][k]
        /\ ts[i] = ArrayText(vector[i])
    BY <1>a
  <2>3. j \in Nat /\ j \in 0..Len(us)  BY <2>2
  <2>4. p \in Seq(Char)  BY <1>b
  <2>5. ItemTexts(vector[i])' = us /\ b(i)' = p
    BY <1>d
  <2>6. /\ SubSeq(us, 1, j) \in Seq(Seq(Char)) /\ o \in Seq(Char)
        /\ j = 0 => Before(SubSeq(us, 1, j)) = o
        /\ j # 0 => Before(SubSeq(us, 1, j)) = Append(o, ",")
    BY <2>2, <2>3, BeforeUpTo
  <2>7. CASE NextElement
    <3>1. /\ writing = "range" /\ j < Len(vector[i]) /\ writing' = "element"
          /\ path' = <<i, j + 1>> /\ sink' = IF j = 0 THEN sink ELSE Append(sink, ",")
      BY <2>1, <2>3, <2>7, NextNumber
    <3>2. sink = p \o o  BY <2>1, <3>1 DEF WrittenOf
    <3>3. sink' = p \o Before(SubSeq(us, 1, j))
      <4>1. "," \in Char  BY CommaIsChar
      <4> HIDE DEF p, o
      <4>2. Append(p \o o, ",") = p \o Append(o, ",")  BY <2>4, <2>6, <4>1, TextAppends
      <4> QED  BY <2>6, <3>1, <3>2, <4>2
    <3>4. j + 1 \in 0..Len(vector[i]) /\ j + 1 > 0 /\ (j + 1) - 1 = j
      <4>1. j < Len(us) /\ Len(us) = Len(vector[i])  BY <2>2, <3>1
      <4> QED  BY <2>2, <2>3, <4>1
    <3>5. AtNumber(i, j + 1)'  BY <2>5, <3>1, <3>3, <3>4 DEF AtNumber, WrittenOf
    <3> QED  BY <1>g, <3>1, <3>4, <3>5
  <2>8. CASE EndRange
    <3>1. /\ writing = "range" /\ j = Len(vector[i]) /\ sink' = Append(sink, "]")
          /\ path' = <<i>> /\ UNCHANGED writing
      BY <2>1, <2>8, EndNumbers
    <3>2. SubSeq(us, 1, j) = us
      <4> DEFINE T == Seq(Char)
      <4>1. us \in Seq(T) /\ j = Len(us)  BY <2>2, <3>1
      <4> HIDE DEF T, us
      <4> QED  BY <4>1, SubSeqFull
    <3>3. sink = p \o o  BY <2>1, <3>1 DEF WrittenOf
    <3>4. Append(o, "]") = ts[i]
      <4>1. o = Opened(us)  BY <3>2
      <4>2. Append(o, "]") = o \o <<"]">>
        <5> HIDE DEF o
        <5> QED  BY <2>6, CommaIsChar, AppendIsConcat
      <4> QED  BY <2>2, <4>1, <4>2 DEF ArrayText, Listed
    <3>5. sink' = p \o ts[i]
      <4>1. "]" \in Char  BY CommaIsChar
      <4> HIDE DEF p, o, ts
      <4>2. Append(p \o o, "]") = p \o Append(o, "]")  BY <2>4, <2>6, <4>1, TextAppends
      <4> QED  BY <3>1, <3>3, <3>4, <4>2
    <3>6. Opened(SubSeq(ts, 1, i)) = p \o ts[i]
      <4>1. i \in 1..Len(ts)  BY <1>a
      <4> QED  BY <1>a, <4>1, OpenedUpTo
    <3>7. i \in 0..Len(vector)  BY <1>a
    <3>8. AtInner(i)'  BY <1>d, <3>1, <3>5, <3>6 DEF AtInner, WrittenOf
    <3> QED  BY <1>f, <3>1, <3>7, <3>8
  <2>9. CASE WriteScalarType
    <3>1. writing = "element" /\ j \in 1..Len(vector[i]) /\ j \in 1..Len(us)
      <4>1. writing = "element"  BY <2>9 DEF WriteScalarType
      <4>2. j > 0  BY <2>1, <4>1
      <4> QED  BY <2>2, <2>3, <4>1, <4>2
    <3>2. sink' = sink \o vector[i][j] /\ UNCHANGED path /\ writing' = "range"
      BY <2>1, <2>9, <3>1, NumberIsWritten
    <3> DEFINE f == Before(SubSeq(us, 1, j - 1))
               d == us[j]
    <3>3. sink = p \o f  BY <2>1, <3>1 DEF WrittenOf
    <3>4. o = f \o d  BY <2>2, <3>1, OpenedUpTo
    <3>5. f \in Seq(Char) /\ d \in Seq(Char)
      <4>1. j - 1 \in 0..Len(us) /\ us \in Seq(Seq(Char))  BY <2>2, <3>1
      <4>2. f \in Seq(Char)  BY <4>1, BeforeUpTo
      <4> DEFINE T == Seq(Char)
      <4>3. us \in Seq(T)  BY <4>1
      <4> HIDE DEF T
      <4>4. d \in T  BY <3>1, <4>3
      <4> QED  BY <4>2, <4>4 DEF T
    <3>8. d = vector[i][j]  BY <2>2, <3>1
    <3>6. sink' = p \o o
      <4> HIDE DEF p, f, d, o
      <4>1. (p \o f) \o d = p \o (f \o d)  BY <2>4, <3>5, ConcatAssociative
      <4> QED  BY <3>2, <3>3, <3>4, <3>8, <4>1
    <3>7. AtNumber(i, j)'  BY <2>1, <2>5, <3>2, <3>6 DEF AtNumber, WrittenOf
    <3> QED  BY <1>g, <3>2, <3>7
  <2>10. ~WriteInner  BY <2>1 DEF WriteInner
  <2> QED  BY <2>7, <2>8, <2>9, <2>10 DEF WriterStep
<1> QED  BY <1>1, <1>2, <1>e DEF SinkInv

(* A step of a call looks at the character it was fed and passes it, passes *)
(* whitespace, or leaves it to be looked at again.                          *)
LEMMA StepPasses ==
    ASSUME ContainerStep("caller")
    PROVE  /\ frame \notin {"caller", "failed"} /\ UNCHANGED sameSize
           /\ \/ UNCHANGED <<look, text>>
              \/ Advance /\ look \in Char
              \/ Skip /\ look \in {Blank, Nul}
<1>0. UNCHANGED sameSize /\ frame # "failed"  BY StepsAreOfCalls DEF ContainerStep
<1>1. Digit \subseteq Char /\ Quote \in Char  BY DEF Char
<1>2. "[" \in Char /\ "]" \in Char /\ "," \in Char  BY CommaIsChar
<1>3. CASE ScalarStep("arrayLoop")
  BY <1>0, <1>1, <1>3 DEF ScalarStep, StringStart, StringChar, StringInvalid,
     StringClose, StringEnd, NumberDigit, NumberDirect, NumberInvalid, NumberEnd, NumberRestDone
<1>4. CASE ResumeItem \/ OpenArray \/ ResumeArray \/ SkipArrayBlank
            \/ EndArrayChunk("containerLoop") \/ CloseArray("containerLoop")
            \/ ReadItem \/ KeepItem \/ WaitForItem("containerLoop") \/ Separate
  BY <1>0, <1>2, <1>4 DEF ResumeItem, ArrayResumesItem, OpenArray, ArrayBegins,
     ResumeArray, ArrayResumes, SkipArrayBlank, EndArrayChunk, CloseArray, ReadItem, ArraySkips,
     KeepItem, WaitForItem, Separate
<1>5. CASE \/ ContainerResumesItem \/ OpenContainer \/ ResumeContainer \/ SkipContainerBlank
           \/ EndContainerChunk("caller") \/ CloseContainer("caller") \/ ReadInner \/ KeepInner
           \/ WaitForInner("caller") \/ SeparateInner
  BY <1>0, <1>2, <1>5 DEF ContainerResumesItem, OpenContainer, ResumeContainer, SkipContainerBlank,
     EndContainerChunk, CloseContainer, ReadInner, KeepInner, WaitForInner, SeparateInner,
     ContainerSkips
<1> QED  BY <1>3, <1>4, <1>5 DEF ContainerStep, ArrayStep

LEMMA WrittenApart ==
    /\ Written \subseteq Char /\ Blank \notin Written /\ Nul \notin Written
    /\ Unread \notin Char /\ EndOfChunk \notin Char
<1>1. "[" \in Char /\ "]" \in Char /\ "," \in Char /\ Digit \subseteq Char
  BY CommaIsChar DEF Char
<1>2. Blank \notin Digit /\ Nul \notin Digit  BY CharAssumption
<1> QED  BY <1>1, <1>2, CharsApart DEF Written, Blank, Nul

(* A text of characters has no gaps. *)
LEMMA WithoutGapsSame == \A t \in Seq(Char) : WithoutGaps(t) = t
<1> DEFINE T == {t \in Seq(Char) : WithoutGaps(t) = t}
<1>1. <<>> \in T  BY WithoutGapsEmpty, EmptyIsSeq
<1>2. ASSUME NEW u \in Seq(Char), NEW e \in Char, u \in T PROVE Append(u, e) \in T
  <2>1. Append(u, e) \in Seq(Char)  BY AppendIsSeq
  <2>2. u \in Seq(Char \cup {Gap})
    <3>1. Char \subseteq Char \cup {Gap}  OBVIOUS
    <3> QED  BY <3>1, SeqOfSubset
  <2>3. WithoutGaps(Append(u, e)) = Append(WithoutGaps(u), e)  BY <2>2, WithoutGapsAppend
  <2> QED  BY <1>2, <2>1, <2>3
<1>3. Seq(Char) \subseteq T
  <2> HIDE DEF T
  <2> QED  BY <1>1, <1>2, SeqInduction
<1> QED  BY <1>3

(* The first part of a written text is the beginning of an array.           *)
LEMMA WrittenBegins ==
    ASSUME sameSize \in BOOLEAN, vector \in Value, sameSize => OfOneSize(vector),
           sink = TextOf(vector), sink \in Seq(Written), NEW n \in 0..Len(sink)
    PROVE  /\ SubSeq(sink, 1, n) \in Seq(Char) /\ Len(SubSeq(sink, 1, n)) = n
           /\ WithoutGaps(SubSeq(sink, 1, n)) = SubSeq(sink, 1, n)
           /\ SubSeq(sink, 1, n) \in Beginnings
<1>1. sink \in Seq(Char)  BY WrittenApart, SeqOfSubset
<1> DEFINE t == SubSeq(sink, 1, n)
<1>2. t \in Seq(Char) /\ Len(t) = n  BY <1>1
<1> HIDE DEF t
<1>3. WithoutGaps(t) = t  BY <1>2, WithoutGapsSame
<1>4. t \in Prefixes(TextOf(vector))
  <2>1. n \in 0..Len(TextOf(vector)) /\ t = SubSeq(TextOf(vector), 1, n)  BY DEF t
  <2> QED  BY <2>1 DEF Prefixes
<1>5. t \in Beginnings
  <2> DEFINE V(same) == {w \in Value : same => OfOneSize(w)}
             B(same) == UNION {Prefixes(TextOf(v)) : v \in V(same)}
  <2>1. Beginnings = B(sameSize)  BY DEF Beginnings, BeginningsOf
  <2>2. vector \in V(sameSize)  OBVIOUS
  <2> HIDE DEF V
  <2>3. t \in B(sameSize)  BY <1>4, <2>2
  <2> QED  BY <2>1, <2>3
<1> QED  BY <1>2, <1>3, <1>5 DEF t

(* A written text is read on, and not refused: what a step that throws      *)
(* leaves would refuse the beginning of an array.                           *)
LEMMA StepKeepsReadBack ==
    ASSUME PoolTypeOK, ContainerTypeOK, WriterTypeOK, SinkInv, ReadBackInv,
           ContainerStep("caller"), UNCHANGED writerVars, RefusesOnlyNonArrays'
    PROVE  ReadBackInv'
<1>a. UNCHANGED <<vector, path, sink, writing, sameSize>>  BY StepPasses DEF writerVars
<1>b. OfOneSize(vector)' = OfOneSize(vector) /\ Value' = Value
  BY <1>a DEF OfOneSize
<1>1. CASE writing # "written"
  <2>1. writing = "idle"  BY <1>1, StepPasses DEF ReadBackInv, WriterTypeOK
  <2> QED  BY <1>a, <2>1 DEF ReadBackInv
<1>2. CASE writing = "written"
  <2> DEFINE n == Len(text)
             m == Len(sink)
  <2>1. /\ n <= m /\ text = SubSeq(sink, 1, n) /\ n \in Nat /\ m \in Nat
        /\ sink \in Seq(Written) /\ sink = TextOf(vector)
        /\ vector \in Value /\ (sameSize => OfOneSize(vector)) /\ sameSize \in BOOLEAN
    BY <1>2 DEF ReadBackInv, SinkInv, PoolTypeOK, WriterTypeOK, ContainerTypeOK
  <2>2. look \in Char => n < m /\ look = sink[n + 1]
    BY <1>2, StepPasses DEF ReadBackInv
  <2>3. \A k \in 0..m :
            /\ SubSeq(sink, 1, k) \in Seq(Char) /\ Len(SubSeq(sink, 1, k)) = k
            /\ WithoutGaps(SubSeq(sink, 1, k)) = SubSeq(sink, 1, k)
            /\ SubSeq(sink, 1, k) \in Beginnings
    BY <2>1, WrittenBegins
  <2>4. \A k \in 0..(m - 1) : SubSeq(sink, 1, k + 1) = Append(SubSeq(sink, 1, k), sink[k + 1])
    BY <2>1
  <2>5. sink[n + 1] \in Written \/ ~(look \in Char)
    <3>1. look \in Char => n + 1 \in 1..m  BY <2>1, <2>2
    <3> QED  BY <2>1, <3>1
  <2> HIDE DEF n, m
  <2>6. CASE UNCHANGED <<look, text>>
    <3>1. frame' # "failed"
      <4> SUFFICES ASSUME frame' = "failed" PROVE FALSE
        OBVIOUS
      <4>1. Refused'  BY DEF RefusesOnlyNonArrays, Refused
      <4>2. Refused
        <5>1. WithoutGaps(text)' = WithoutGaps(text)  BY <2>6 DEF WithoutGaps, Without
        <5>2. WithoutGaps(Append(text, look))' = WithoutGaps(Append(text, look))
          BY <2>6 DEF WithoutGaps, Without
        <5>3. Beginnings' = Beginnings
          BY <1>a DEF Beginnings, BeginningsOf, TextOf, InnerTexts, ArrayText, ItemTexts
        <5> QED  BY <2>6, <4>1, <5>1, <5>2, <5>3 DEF Refused
      <4>3. n \in 0..m  BY <2>1
      <4>4. WithoutGaps(text) \in Beginnings /\ text \in Seq(Char) /\ Len(text) = n
        BY <2>1, <2>3, <4>3
      <4>5. look \in Char /\ WithoutGaps(Append(text, look)) \notin Beginnings
        <5>1. ~(text # <<>> /\ text[Len(text)] = Gap)
          <6>1. text # <<>> => Len(text) \in 1..Len(text)  BY <4>4, EmptySeq
          <6>2. Gap \notin Char  BY TextChars
          <6> QED  BY <4>4, <6>1, <6>2
        <5> QED  BY <4>2, <4>4, <5>1 DEF Refused
      <4>6. n + 1 \in 0..m /\ n \in 0..(m - 1)  BY <2>1, <2>2, <4>5
      <4>7. Append(text, look) = SubSeq(sink, 1, n + 1)  BY <2>1, <2>2, <2>4, <4>5, <4>6
      <4> QED  BY <2>3, <4>5, <4>6, <4>7
    <3> QED
      BY <1>2, <1>a, <1>b, <2>1, <2>2, <2>6, <3>1 DEF ReadBackInv, n, m
  <2>7. CASE Advance /\ look \in Char
    <3>1. n + 1 \in 0..m /\ n \in 0..(m - 1) /\ n + 1 <= m  BY <2>1, <2>2, <2>7
    <3>2. text' = SubSeq(sink, 1, n + 1) /\ look' = Unread
      BY <2>1, <2>2, <2>4, <2>7, <3>1 DEF Advance
    <3>3. Len(text') = n + 1  BY <2>3, <3>1, <3>2
    <3>4. frame' # "failed"
      <4> SUFFICES ASSUME frame' = "failed" PROVE FALSE
        OBVIOUS
      <4> DEFINE t == SubSeq(sink, 1, n + 1)
      <4>1. Beginnings' = Beginnings
        BY <1>a DEF Beginnings, BeginningsOf, TextOf, InnerTexts, ArrayText, ItemTexts
      <4>2. WithoutGaps(text)' = WithoutGaps(t)  BY <3>2 DEF WithoutGaps, Without
      <4>3. WithoutGaps(text)' \in Beginnings'  BY <2>3, <3>1, <4>1, <4>2
      <4>4. Unread \notin Char /\ Digit \subseteq Char  BY WrittenApart, CharsApart
      <4>5. look' \notin Char /\ look' \notin Digit  BY <3>2, <4>4
      <4> QED  BY <4>3, <4>5 DEF RefusesOnlyNonArrays
    <3>5. Unread \notin Char  BY WrittenApart
    <3>6. Len(text)' <= m /\ text' = SubSeq(sink, 1, Len(text)')  BY <3>1, <3>2, <3>3
    <3> QED
      BY <1>2, <1>a, <1>b, <2>1, <3>2, <3>4, <3>5, <3>6 DEF ReadBackInv, m
  <2>8. ~(Skip /\ look \in {Blank, Nul})
    <3>1. look \in {Blank, Nul} => look \in Char /\ look \notin Written
      BY WrittenApart DEF Char
    <3> QED  BY <2>2, <2>5, <3>1
  <2> QED  BY <2>6, <2>7, <2>8, StepPasses
<1> QED  BY <1>1, <1>2

LEMMA SinkStays ==
    ASSUME SinkInv, UNCHANGED writerVars
    PROVE  SinkInv'
<1>1. UNCHANGED <<vector, path, sink, writing>>  BY DEF writerVars
<1>2. InnerTexts(vector)' = InnerTexts(vector) /\ TextOf(vector)' = TextOf(vector)
  BY <1>1 DEF TextOf, InnerTexts, ArrayText, ItemTexts
<1>3. \A i : ItemTexts(vector[i])' = ItemTexts(vector[i])  BY <1>1 DEF ItemTexts
<1> QED  BY <1>1, <1>2, <1>3 DEF SinkInv, AtInner, AtNumber, WrittenOf

(* A step that reads nothing leaves what was written and what was read.     *)
LEMMA ReadBackStays ==
    ASSUME ReadBackInv, UNCHANGED <<text, sameSize, sink, vector, writing>>,
           writing # "written" => UNCHANGED frame \/ writing = "idle",
           frame' # "failed" \/ frame = "failed",
           frame' # "caller" /\ look' \in Char => UNCHANGED <<frame, look>>
    PROVE  ReadBackInv'
BY DEF ReadBackInv, OfOneSize

LEMMA ReadBackFed ==
    ASSUME PoolTypeOK, WriterTypeOK, ReadBackInv, FeedText, UNCHANGED sameSize,
           UNCHANGED writerVars
    PROVE  ReadBackInv'
<1>1. UNCHANGED <<vector, path, sink, writing>>  BY DEF writerVars
<1>2. /\ frame \notin {"caller", "failed"} /\ UNCHANGED <<frame, text>>
  BY FedIsCharacter
<1>3. CASE writing = "idle"  BY <1>1, <1>3 DEF ReadBackInv
<1>4. CASE writing = "written"
  <2>1. look' \in Char => Len(text) < Len(sink) /\ look' = sink[Len(text) + 1]
    <3>1. EndOfChunk \notin Char  BY WrittenApart
    <3> QED  BY <1>4, <3>1 DEF FeedText, Feed, FeedEnd
  <2> QED  BY <1>1, <1>2, <1>4, <2>1 DEF ReadBackInv, OfOneSize
<1> QED  BY <1>2, <1>3, <1>4 DEF ReadBackInv, WriterTypeOK

(* What a step of Write gives to the sink is written, and nothing is read   *)
(* before the text is whole.                                                *)
LEMMA WriterKeepsReadBack ==
    ASSUME ItemKind = "number", WriterTypeOK, PathInv, ReadBackInv, WriterStep,
           UNCHANGED containerVars
    PROVE  ReadBackInv'
<1>1. UNCHANGED <<frame, text, look, sameSize>>
  BY DEF containerVars, arrayVars, poolVars
<1>2. /\ writing \in {"range", "element"} /\ UNCHANGED vector
      /\ writing' \in {"range", "element", "written"}
  BY DEF WriterStep, NextElement, WriteInner, EndRange, WriteScalarType
<1>3. frame = "caller" /\ text = <<>> /\ vector \in Value /\ (sameSize => OfOneSize(vector))
      /\ sink \in Seq(Written)
  BY <1>2 DEF ReadBackInv
<1>4. sink' \in Seq(Written)
  <2>1. \A c \in {"[", "]", ","} : Append(sink, c) \in Seq(Written)
    BY <1>3, AppendIsSeq DEF Written
  <2>2. CASE NextElement \/ WriteInner \/ EndRange
    BY <1>3, <2>1, <2>2 DEF NextElement, CommaBetween, WriteInner, EndRange
  <2>3. CASE WriteScalarType
    <3>1. PICK i \in 1..Len(vector) : \E j \in 1..Len(vector[i]) : path = <<i, j>>
      BY <2>3, PlaceOfPath DEF WriteScalarType
    <3>2. PICK j \in 1..Len(vector[i]) : path = <<i, j>>  BY <3>1
    <3>3. sink' = sink \o vector[i][j] /\ vector[i][j] \in Seq(Digit)
      BY <2>3, <3>2, NumberIsWritten
    <3> DEFINE d == vector[i][j]
    <3>4. d \in Seq(Written)
      <4>1. Digit \subseteq Written  BY DEF Written
      <4> QED  BY <3>3, <4>1, SeqOfSubset
    <3> HIDE DEF d
    <3>5. sink \o d \in Seq(Written)  BY <1>3, <3>4, ConcatProperties
    <3> QED  BY <3>3, <3>5 DEF d
  <2> QED  BY <2>2, <2>3 DEF WriterStep
<1>5. Len(<<>>) = 0 /\ Len(sink') \in Nat /\ SubSeq(sink', 1, 0) = <<>>
  <2> DEFINE t == sink'
  <2>1. t \in Seq(Written)  BY <1>4
  <2> HIDE DEF t
  <2>2. Len(t) \in Nat /\ SubSeq(t, 1, 0) = <<>> /\ Len(<<>>) = 0  BY <2>1
  <2> QED  BY <2>2 DEF t
<1> QED  BY <1>1, <1>2, <1>3, <1>4, <1>5 DEF ReadBackInv, OfOneSize

(* Write begins with the '[' of a value of one size if that is asked for.   *)
LEMMA WriteBegins ==
    ASSUME ItemKind = "number", WriteValue, UNCHANGED containerVars
    PROVE  SinkInv' /\ ReadBackInv'
<1>1. UNCHANGED <<frame, text, look, sameSize>>
  BY DEF containerVars, arrayVars, poolVars
<1>2. PICK v \in Value : (sameSize => OfOneSize(v)) /\ Write(v)  BY DEF WriteValue
<1>3. /\ vector' = v /\ path' = <<0>> /\ sink' = <<"[">> /\ writing' = "range"
      /\ frame = "caller" /\ text = <<>>
  BY <1>2 DEF Write, WriteValue
<1>4. v \in Seq(Inner)  BY ValuesAreItems
<1>5. InnerTexts(v) \in Seq(Seq(Char)) /\ 0 \in 0..Len(InnerTexts(v)) /\ 0 \in 0..Len(v)
  <2>1. InnerTexts(v) \in Seq(Seq(Char)) /\ Len(InnerTexts(v)) = Len(v) /\ Len(v) \in Nat
    BY <1>4, InnerTextsTyped
  <2> QED  BY <2>1
<1>6. Opened(SubSeq(InnerTexts(v), 1, 0)) = <<"[">>  BY <1>5, BeforeUpTo
<1>7. InnerTexts(vector)' = InnerTexts(v)  BY <1>3 DEF InnerTexts, ArrayText, ItemTexts
<1>8. AtInner(0)'  BY <1>3, <1>6, <1>7 DEF AtInner, WrittenOf
<1>9. SinkInv'  BY <1>3, <1>5, <1>8 DEF SinkInv
<1>10. sink' \in Seq(Written)
  <2>1. "[" \in Written  BY DEF Written
  <2> QED  BY <1>3, <2>1, Single
<1>11. OfOneSize(vector)' = OfOneSize(v)  BY <1>3 DEF OfOneSize
<1>12. ReadBackInv'  BY <1>1, <1>2, <1>3, <1>10, <1>11 DEF ReadBackInv
<1> QED  BY <1>9, <1>12

WriteInv == SinkInv /\ ReadBackInv

LEMMA WriteKept ==
    ASSUME ItemKind = "number", ControlInv, WriteInv, [Next]_vars, RefusesOnlyNonArrays'
    PROVE  WriteInv'
<1>1. /\ PoolTypeOK /\ ContainerTypeOK /\ WriterTypeOK /\ PathInv /\ SinkInv /\ ReadBackInv
  BY DEF ControlInv, TypeOK, WriteInv
<1>2. CASE Parse /\ UNCHANGED writerVars
  <2>1. /\ writing \in {"idle", "written"} /\ frame' = "container" /\ look' = Unread
        /\ UNCHANGED <<text, sameSize, sink, vector, writing>>
    BY <1>2 DEF Parse, writerVars
  <2>2. ReadBackInv'  BY <1>1, <2>1, WrittenApart, ReadBackStays
  <2> QED  BY <1>1, <1>2, <2>2, SinkStays DEF WriteInv
<1>3. CASE ContainerStep("caller") /\ UNCHANGED writerVars
  BY <1>1, <1>3, StepKeepsReadBack, SinkStays DEF WriteInv
<1>4. CASE FeedText /\ UNCHANGED <<array, outer, sameSize>> /\ UNCHANGED writerVars
  BY <1>1, <1>4, ReadBackFed, SinkStays DEF WriteInv
<1>5. CASE Renew
  <2>1. writing' = "idle" /\ sink' = <<>>  BY <1>5 DEF Renew
  <2>2. <<>> \in Seq(Written)  BY EmptyIsSeq
  <2> QED  BY <2>1, <2>2 DEF WriteInv, SinkInv, ReadBackInv
<1>6. CASE WriteValue /\ UNCHANGED containerVars  BY <1>6, WriteBegins DEF WriteInv
<1>7. CASE WriterStep /\ UNCHANGED containerVars
  <2>1. vector \in Value
    BY <1>1, <1>7 DEF ReadBackInv, WriterStep, NextElement, WriteInner, EndRange, WriteScalarType
  <2> QED  BY <1>1, <1>7, <2>1, WriterKeepsSink, WriterKeepsReadBack DEF WriteInv
<1>8. CASE UNCHANGED vars
  <2>1. UNCHANGED <<frame, look, text, sameSize, sink, vector, writing>> /\ UNCHANGED writerVars
    BY <1>8 DEF vars, containerVars, arrayVars, poolVars, writerVars
  <2> QED  BY <1>1, <2>1, ReadBackStays, SinkStays DEF WriteInv
<1> QED  BY <1>2, <1>3, <1>4, <1>5, <1>6, <1>7, <1>8 DEF Next, Step

LEMMA ReadBackImplied ==
    ASSUME IInv, RefuseInv, WriteInv, OutIsWhatWasRead
    PROVE  ReadsWhatWasWritten
<1> SUFFICES ASSUME writing = "written" PROVE frame # "failed" /\ (Complete => outer.out = vector /\ text = sink)
  BY DEF ReadsWhatWasWritten
<1>1. frame # "failed"  BY DEF WriteInv, ReadBackInv
<1>2. ASSUME Complete PROVE outer.out = vector /\ text = sink
  <2> DEFINE us == InnerTexts(outer.out)
             ts == InnerTexts(vector)
             z == <<>>
             n == Len(text)
  <2>1. /\ WithoutGaps(text) = Listed(us) /\ sink = Listed(ts)
        /\ n <= Len(sink) /\ text = SubSeq(sink, 1, n) /\ vector \in Value
        /\ sink \in Seq(Written) /\ text \in Seq(Char \cup {Gap})
        /\ (sameSize => OfOneSize(vector)) /\ sameSize \in BOOLEAN
    BY <1>2 DEF OutIsWhatWasRead, WriteInv, ReadBackInv, SinkInv, TextOf, IInv, ControlInv,
       TypeOK, PoolTypeOK, ContainerTypeOK
  <2>2. outer.out \in Seq(Inner)  BY <1>1 DEF RefuseInv, EntryInv
  <2>3. vector \in Seq(Inner)  BY <2>1, ValuesAreItems
  <2>4. n \in 0..Len(sink)
    <3>1. n \in Nat /\ Len(sink) \in Nat  BY <2>1
    <3> QED  BY <2>1, <3>1
  <2>5. sink = TextOf(vector)  BY <2>1 DEF TextOf
  <2>6. text \in Seq(Char) /\ WithoutGaps(text) = text  BY <2>1, <2>4, <2>5, WrittenBegins
  <2>7. Agrees(text, sink)
    <3>1. sink \in Seq(Char)  BY <2>1, WrittenApart, SeqOfSubset
    <3>2. text \in Prefixes(sink)  BY <2>1, <2>4 DEF Prefixes
    <3> QED  BY <3>1, <3>2, PrefixesAgree
  <2>8. /\ us \in Seq(Arrays) /\ Len(us) = Len(outer.out) /\ us \in Seq(Seq(Char))
        /\ \A i \in 1..Len(outer.out) : us[i] = ArrayText(outer.out[i])
    BY <2>2, InnerTextsTyped
  <2>9. /\ ts \in Seq(Arrays) /\ Len(ts) = Len(vector) /\ ts \in Seq(Seq(Char))
        /\ \A i \in 1..Len(vector) : ts[i] = ArrayText(vector[i])
    BY <2>3, InnerTextsTyped
  <2>10. Arrays \subseteq Seq(Char) /\ <<>> \notin Arrays /\ Apart(Ended(Arrays, "]"))
    <3>1. Listable(Arrays) /\ "]" \in Closing  BY ArraysListable DEF Closing
    <3> QED  BY <3>1, EndedApart
  <2> HIDE DEF us, ts, z, n
  <2>11. us = ts
    <3>1. Listed(us) \in Seq(Char) /\ Listed(ts) \in Seq(Char) /\ z \in Seq(Char)
      BY <2>8, <2>9, OpenedTyped, EmptyIsSeq DEF z
    <3>2. Listed(us) \o z = Listed(us) /\ Listed(ts) \o z = Listed(ts)
      BY <3>1, ConcatEmptySeq DEF z
    <3>3. Agrees(Listed(us) \o z, Listed(ts) \o z)  BY <2>1, <2>6, <2>7, <3>2
    <3> QED  BY <2>8, <2>9, <2>10, <3>1, <3>3, BracketsApart
  <2>12. outer.out = vector
    <3> DEFINE x == outer.out
               y == vector
    <3>1. x \in Seq(Inner) /\ y \in Seq(Inner) /\ Len(x) = Len(y)  BY <2>2, <2>3, <2>8, <2>9, <2>11
    <3>2. ASSUME NEW i \in 1..Len(x) PROVE x[i] = y[i]
      <4>1. us[i] = ArrayText(x[i]) /\ ts[i] = ArrayText(y[i])  BY <2>8, <2>9, <3>1
      <4>2. x[i] \in Inner /\ y[i] \in Inner  BY <3>1
      <4> DEFINE a == x[i]
                 b == y[i]
      <4>3. a \in Seq(Item(ItemKind)) /\ b \in Seq(Item(ItemKind)) /\ ArrayText(a) = ArrayText(b)
        BY <2>11, <4>1, <4>2 DEF Inner
      <4> HIDE DEF a, b
      <4>4. z \in Seq(Char) /\ Agrees(ArrayText(a) \o z, ArrayText(b) \o z)
        BY <4>3, EmptyIsSeq DEF Agrees, z
      <4>5. a = b  BY <4>3, <4>4, ArrayApart
      <4> QED  BY <4>5 DEF a, b
    <3> HIDE DEF x, y
    <3>3. x = y  BY <3>1, <3>2, SeqEqual
    <3> QED  BY <3>3 DEF x, y
  <2>13. text = sink  BY <2>1, <2>6, <2>11
  <2> QED  BY <2>12, <2>13
<1> QED  BY <1>1, <1>2

(* What Write wrote of any value is never refused, wherever it is cut into  *)
(* chunks, and when Parse says it is complete it has given back that value  *)
(* and read the whole text: the writer and the parser are inverse.          *)
THEOREM WriteThenParse == ItemKind = "number" /\ Spec => []ReadsWhatWasWritten
<1> DEFINE Kept == ItemKind = "number" /\ WriteInv
<1>1. ItemKind = "number" /\ Init => Kept
  <2> SUFFICES ASSUME Init PROVE WriteInv
    OBVIOUS
  <2>1. writing = "idle" /\ sink = <<>>  BY DEF Init, WriterInit
  <2>2. <<>> \in Seq(Written)  BY EmptyIsSeq
  <2> QED  BY <2>1, <2>2 DEF WriteInv, SinkInv, ReadBackInv
<1>2. IInv /\ Kept /\ [Next]_vars /\ RefusesOnlyNonArrays' => Kept'
  BY WriteKept DEF IInv
<1>3. IInv /\ RefuseInv /\ [Next]_vars => RefuseInv'  BY RefuseKept
<1>4. RefuseInv => RefusesOnlyNonArrays  BY DEF RefuseInv
<1>5. IInv /\ RefuseInv /\ Kept /\ OutIsWhatWasRead => ReadsWhatWasWritten
  BY ReadBackImplied
<1> QED
  BY <1>1, <1>2, <1>3, <1>4, <1>5, RefuseInitial, Invariance, NothingLost, PTL DEF Spec
=============================================================================
