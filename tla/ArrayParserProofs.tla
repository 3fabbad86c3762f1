-------------------------- MODULE ArrayParserProofs --------------------------
(***************************************************************************)
(* What a step of a scalar parser of the pool, and of ParseArray::Parse    *)
(* around it, keeps, whichever call it returns to.                         *)
(***************************************************************************)
EXTENDS ArrayTexts, SequenceLemmas

LEMMA AppendIsSeq ==
    ASSUME NEW S, NEW s \in Seq(S), NEW e \in S
    PROVE  Append(s, e) \in Seq(S)
OBVIOUS

LEMMA EmptyIsSeq == ASSUME NEW S PROVE <<>> \in Seq(S)
OBVIOUS

LEMMA SeqOfSubset ==
    ASSUME NEW S, NEW T, S \subseteq T, NEW s \in Seq(S)
    PROVE  s \in Seq(T)
OBVIOUS

(* skipWhitespace moves Begin and leaves at most a gap in the history. *)
LEMMA SkipKeepsTypes ==
    ASSUME PoolTypeOK, Skip
    PROVE  text' \in Seq(Char \cup {Gap}) /\ look' \in Char \cup {Unread, EndOfChunk}
<1>1. Append(text, Gap) \in Seq(Char \cup {Gap}) /\ text \in Seq(Char \cup {Gap})
  BY DEF PoolTypeOK
<1> QED  BY <1>1 DEF Skip

(* ++Begin past a character puts it into the history. *)
LEMMA AdvanceKeepsTypes ==
    ASSUME PoolTypeOK, Advance, look \in Char
    PROVE  text' \in Seq(Char \cup {Gap}) /\ look' \in Char \cup {Unread, EndOfChunk}
<1>1. Append(text, look) \in Seq(Char \cup {Gap})  BY DEF PoolTypeOK
<1> QED  BY <1>1 DEF Advance

(* No step of a parser empties the history. *)
LEMMA AdvanceFillsText ==
    ASSUME PoolTypeOK, Advance, look \in Char
    PROVE  text' # <<>>
BY DEF PoolTypeOK, Advance

LEMMA SkipKeepsText ==
    ASSUME PoolTypeOK, Skip, text # <<>>
    PROVE  text' # <<>>
<1>1. Append(text, Gap) # <<>>  BY DEF PoolTypeOK
<1> QED  BY <1>1 DEF Skip

LEMMA ScalarKeepsText ==
    ASSUME NEW back, PoolTypeOK, ScalarStep(back), text # <<>>
    PROVE  text' # <<>>
<1>1. CASE UNCHANGED text  BY <1>1
<1>2. CASE Advance /\ look \in Char  BY <1>2, AdvanceFillsText
<1>3. UNCHANGED text \/ (Advance /\ look \in Char)
  BY DEF ScalarStep, StringStart, StringChar, StringInvalid, StringClose, StringEnd,
     NumberDigit, NumberDirect, NumberInvalid, NumberEnd, NumberRestDone, Char
<1> QED  BY <1>1, <1>2, <1>3

(* Digits and gaps are what the history and the buffer may hold, so every   *)
(* step of ParseString::Parse and of parse_integer keeps the types.         *)
LEMMA ScalarKeepsTypes ==
    ASSUME NEW back, PoolTypeOK, PoolInv, ScalarStep(back)
    PROVE  PoolTypeOK' /\ frame' \in ScalarFrame \cup {back, "failed"}
<1>a. Digit \subseteq Char  BY DEF Char
<1>b. look \in Char => Append(text, look) \in Seq(Char \cup {Gap})
  BY DEF PoolTypeOK
<1>c. look \in Char => Append(buffer, look) \in Seq(Char)
  BY DEF PoolTypeOK
<1>d. look \in Digit => Append(scan, look) \in Seq(Digit)
  BY DEF PoolTypeOK
<1>e. buffer \o scan \in Seq(Char)
  <2>1. scan \in Seq(Char)  BY <1>a DEF PoolTypeOK
  <2> QED  BY <2>1 DEF PoolTypeOK
<1>f. string.value \o buffer \in Seq(Char)
  BY DEF PoolTypeOK
<1>g. Quote \in Char  BY DEF Char
<1> USE <1>a, <1>b, <1>c, <1>d, <1>e, <1>f, <1>g
    DEF PoolTypeOK, ScalarFrame, Advance, ReturnTo, Throw, ClearBuffer, ValueEmptied
<1>h. [string EXCEPT !.value = <<>>] \in [finished : BOOLEAN, value : Seq(Char)]
  <2>1. <<>> \in Seq(Char)  BY EmptyIsSeq
  <2>2. ASSUME NEW v \in Seq(Char)
        PROVE  [string EXCEPT !.value = v] \in [finished : BOOLEAN, value : Seq(Char)]
    BY DEF PoolTypeOK
  <2> QED  BY <2>1, <2>2
<1>i. frame = "numberRest" => buffer \in Seq(Digit)
  BY DEF PoolInv, NumberBusy
<1> USE <1>h, <1>i
<1>1. CASE StringStart  BY <1>1 DEF StringStart
<1>2. CASE StringChar  BY <1>2 DEF StringChar
<1>3. CASE StringInvalid  BY <1>3 DEF StringInvalid
<1>4. CASE StringClose(back)  BY <1>4 DEF StringClose
<1>5. CASE StringEnd(back)  BY <1>5 DEF StringEnd
<1>6. CASE NumberDigit  BY <1>6 DEF NumberDigit
<1>7. CASE NumberDirect(back)  BY <1>7 DEF NumberDirect
<1>8. CASE NumberInvalid  BY <1>8 DEF NumberInvalid
<1>9. CASE NumberEnd(back)
  <2>1. number' \in [finished : BOOLEAN, value : Seq(Digit)]  BY <1>9 DEF NumberEnd
  <2>2. scan' \in Seq(Digit) /\ buffer' \in Seq(Char)  BY <1>9 DEF NumberEnd
  <2> QED  BY <1>9, <2>1, <2>2 DEF NumberEnd
<1>10. CASE NumberRestDone(back)  BY <1>10 DEF NumberRestDone, NumberInBuffer
<1> QED  BY <1>1, <1>2, <1>3, <1>4, <1>5, <1>6, <1>7, <1>8, <1>9, <1>10 DEF ScalarStep

(* A step of a scalar parser that does not throw keeps PoolInv, and makes   *)
(* no parser busy but the one that runs.                                    *)
LEMMA ScalarKeepsPool ==
    ASSUME NEW back, back \notin ScalarFrame \cup {"failed"},
           PoolTypeOK, PoolInv, ScalarStep(back), frame' # "failed"
    PROVE  /\ PoolInv'
           /\ StringBusy' => StringBusy \/ frame = "stringStart"
           /\ NumberBusy' => NumberBusy
<1> USE CharAssumption DEF PoolTypeOK, PoolInv, StringBusy, NumberBusy, ScalarFrame,
        Advance, ReturnTo, Throw, ClearBuffer, ValueEmptied
<1>1. CASE StringStart  BY <1>1 DEF StringStart
<1>2. CASE StringChar  BY <1>2 DEF StringChar
<1>3. CASE StringInvalid  BY <1>3 DEF StringInvalid
<1>4. CASE StringClose(back)  BY <1>4 DEF StringClose
<1>5. CASE StringEnd(back)  BY <1>5 DEF StringEnd
<1>6. CASE NumberDigit
  <2>1. CASE frame = "number"  BY <1>6, <2>1 DEF NumberDigit
  <2>2. CASE frame = "numberRest"
    <3>1. Append(buffer, look) \in Seq(Digit)  BY <1>6, <2>2 DEF NumberDigit
    <3>2. buffer' = Append(buffer, look) /\ UNCHANGED <<frame, ret, scan, string, number>>
      BY <1>6, <2>2 DEF NumberDigit
    <3> QED  BY <2>2, <3>1, <3>2
  <2> QED  BY <1>6, <2>1, <2>2 DEF NumberDigit
<1>7. CASE NumberDirect(back)
  <2>1. ~NumberBusy' /\ (StringBusy' <=> StringBusy)  BY <1>7 DEF NumberDirect
  <2>2. buffer' = <<>> /\ scan' = <<>>  BY <1>7 DEF NumberDirect
  <2> QED  BY <1>7, <2>1, <2>2 DEF NumberDirect
<1>8. CASE NumberInvalid  BY <1>8 DEF NumberInvalid
<1>9. CASE NumberEnd(back)
  <2>1. buffer \in Seq(Digit)  BY <1>9 DEF NumberEnd
  <2>2. buffer' \in Seq(Digit) /\ scan' = <<>>  BY <1>9, <2>1 DEF NumberEnd
  <2>3. ~string.finished <=> StringBusy'  BY <1>9 DEF NumberEnd
  <2> QED  BY <1>9, <2>2, <2>3 DEF NumberEnd
<1>10. CASE NumberRestDone(back)  BY <1>10 DEF NumberRestDone, NumberInBuffer
<1> QED  BY <1>1, <1>2, <1>3, <1>4, <1>5, <1>6, <1>7, <1>8, <1>9, <1>10 DEF ScalarStep

----------------------------------------------------------------------------
(* Every step of an array keeps the types of the pool and of the array. *)
LEMMA ArrayKeepsTypes ==
    ASSUME NEW back, PoolTypeOK, ArrayTypeOK, PoolInv, ArrayStep(back)
    PROVE  /\ PoolTypeOK'
           /\ ArrayTypeOK'
           /\ frame' \in ScalarFrame \cup ArrayFrame \cup {back, "failed"}
<1>a. EntryFrame(ItemKind) \in ScalarFrame  BY DEF EntryFrame, ScalarFrame
<1>b. {"[", "]", ",", Blank, Nul} \subseteq Char  BY DEF Char, Mark
<1> USE <1>a, <1>b DEF PoolTypeOK, ArrayTypeOK, ArrayFrame, ReturnTo, Throw
<1>1. CASE ResumeItem  BY <1>1 DEF ResumeItem
<1>2. CASE OpenArray
  <2>1. CASE look = "["
    BY <1>2, <2>1, AdvanceKeepsTypes DEF OpenArray
  <2>2. CASE look # "["  BY <1>2, <2>2 DEF OpenArray
  <2> QED  BY <2>1, <2>2
<1>3. CASE ResumeArray  BY <1>3 DEF ResumeArray, ResumedFrame
<1>4. CASE SkipArrayBlank
  <2>1. text' \in Seq(Char \cup {Gap}) /\ look' \in Char \cup {Unread, EndOfChunk}
    BY <1>4, SkipKeepsTypes DEF SkipArrayBlank
  <2> QED  BY <1>4, <2>1 DEF SkipArrayBlank, ArraySkips
<1>5. CASE EndArrayChunk(back)
  <2>1. array' \in [out : Seq(Seq(Char)), began : BOOLEAN, expect : BOOLEAN, finished : BOOLEAN]
    BY <1>5 DEF EndArrayChunk, ArrayNeedsMore
  <2>2. text' \in Seq(Char \cup {Gap}) /\ look' \in Char \cup {Unread, EndOfChunk}
    BY <1>5, SkipKeepsTypes DEF EndArrayChunk
  <2> QED  BY <1>5, <2>1, <2>2 DEF EndArrayChunk, ArrayNeedsMore
<1>6. CASE CloseArray(back)  BY <1>6, AdvanceKeepsTypes DEF CloseArray
<1>7. CASE ReadItem  BY <1>7 DEF ReadItem
<1>8. CASE KeepItem
  <2>1. PoolValue(ItemKind) \in Seq(Char)
    <3>1. Digit \subseteq Char  BY DEF Char
    <3>2. number.value \in Seq(Digit) /\ string.value \in Seq(Char)  OBVIOUS
    <3>3. number.value \in Seq(Char)  BY <3>1, <3>2, SeqOfSubset
    <3> QED  BY <3>2, <3>3 DEF PoolValue
  <2>3. array.out \in Seq(Seq(Char))  OBVIOUS
  <2>4. ItemsPushed \in Seq(Seq(Char))  BY <2>1, <2>3, AppendIsSeq DEF ItemsPushed
  <2> QED  BY <1>8, <2>4 DEF KeepItem
<1>9. CASE WaitForItem(back)  BY <1>9 DEF WaitForItem, ArrayNeedsMore
<1>10. CASE Separate
  <2>1. CASE look = ","  BY <1>10, <2>1, AdvanceKeepsTypes DEF Separate
  <2>2. CASE look # ","  BY <1>10, <2>2 DEF Separate
  <2> QED  BY <2>1, <2>2
<1>11. CASE ScalarStep("arrayLoop") /\ UNCHANGED array
  BY <1>11, ScalarKeepsTypes
<1> QED
  BY <1>1, <1>2, <1>3, <1>4, <1>5, <1>6, <1>7, <1>8, <1>9, <1>10, <1>11 DEF ArrayStep

(* A step of an array that does not throw keeps the pool in order, and only *)
(* the parser of its items becomes busy.                                    *)
LEMMA ArrayKeepsPool ==
    ASSUME NEW back, back \notin ScalarFrame \cup ArrayFrame \cup {"failed"},
           PoolTypeOK, ArrayTypeOK, PoolInv, ArrayInv, ArrayStep(back), frame' # "failed"
    PROVE  PoolInv' /\ ArrayInv'
<1>a. ItemKind = "string" \/ ItemKind = "number"  BY ItemAssumption DEF Scalar
<1> USE <1>a DEF PoolTypeOK, PoolInv, ArrayInv, StringBusy, NumberBusy, ScalarFrame,
        ArrayFrame, ReturnTo, Throw, Advance, ArrayNeedsMore
<1>1. CASE ResumeItem  BY <1>1 DEF ResumeItem, ArrayResumesItem, EntryFrame, Finished
<1>2. CASE OpenArray  BY <1>2 DEF OpenArray, ArrayBegins, Finished
<1>3. CASE ResumeArray  BY <1>3 DEF ResumeArray, ArrayResumes, ResumedFrame, Finished
<1>4. CASE SkipArrayBlank  BY <1>4 DEF SkipArrayBlank, ArraySkips
<1>5. CASE EndArrayChunk(back)  BY <1>5 DEF EndArrayChunk, ArraySkips
<1>6. CASE CloseArray(back)  BY <1>6 DEF CloseArray, ArraySkips
<1>7. CASE ReadItem  BY <1>7 DEF ReadItem, ArraySkips, EntryFrame
<1>8. CASE KeepItem  BY <1>8 DEF KeepItem
<1>9. CASE WaitForItem(back)  BY <1>9 DEF WaitForItem
<1>10. CASE Separate  BY <1>10 DEF Separate
<1>11. CASE ScalarStep("arrayLoop") /\ UNCHANGED array
  <2>1. PoolInv' /\ (StringBusy' => StringBusy \/ frame = "stringStart")
                 /\ (NumberBusy' => NumberBusy)
    BY <1>11, ScalarKeepsPool
  <2>2. frame' \in ScalarFrame \cup {"arrayLoop"}  BY <1>11, ScalarKeepsTypes
  <2>3. /\ frame' = "stringStart" => frame = "stringStart"
        /\ frame' = "arrayLoop" => ret' \in {"pointer", "nullptr"}
    BY <1>11 DEF ScalarStep, StringStart, StringChar, StringInvalid, StringClose, StringEnd,
       NumberDigit, NumberDirect, NumberInvalid, NumberEnd, NumberRestDone
  <2> QED  BY <2>1, <2>2, <2>3
<1> QED
  BY <1>1, <1>2, <1>3, <1>4, <1>5, <1>6, <1>7, <1>8, <1>9, <1>10, <1>11 DEF ArrayStep

----------------------------------------------------------------------------
(* Texts. *)

LEMMA TextChars ==
    /\ \A c \in Mark \cup {Quote, Blank, Nul} : c \in Char /\ c # Gap
    /\ Digit \subseteq Char
    /\ Gap \notin Char
    /\ <<Quote>> \in Seq(Char) /\ <<",">> \in Seq(Char)
    /\ <<"[">> \in Seq(Char) /\ <<"]">> \in Seq(Char)
<1>1. Gap \notin Char
  BY CharAssumption DEF Char, Mark, Gap, Quote, Blank, Nul
<1>2. Digit \subseteq Char  BY DEF Char
<1>3. \A c \in Mark \cup {Quote, Blank, Nul} : c \in Char  BY DEF Char
<1>4. Quote \in Char /\ "," \in Char /\ "[" \in Char /\ "]" \in Char
  BY <1>3 DEF Mark
<1>5. \A c \in Char : <<c>> \in Seq(Char)  OBVIOUS
<1> QED  BY <1>1, <1>2, <1>3, <1>4, <1>5

LEMMA WithoutEmpty == \A c : Without(c, <<>>) = <<>>
<1>1. \A c : [i \in DOMAIN <<>> |-> IF (<<>>)[i] = c THEN <<>> ELSE <<(<<>>)[i]>>] = <<>>
  OBVIOUS
<1>2. FlattenSeq(<<>>) = <<>>  BY DEF FlattenSeq
<1> QED  BY <1>1, <1>2 DEF Without

(* What Without flattens. *)
Pieces(c, u) == [i \in DOMAIN u |-> IF u[i] = c THEN <<>> ELSE <<u[i]>>]

LEMMA PiecesTyped ==
    ASSUME NEW S, NEW c, NEW u \in Seq(S)
    PROVE  Pieces(c, u) \in Seq(Seq(S \ {c})) /\ Len(Pieces(c, u)) = Len(u)
<1> DEFINE rest == S \ {c}
<1>1. <<>> \in Seq(rest) /\ \A d \in rest : <<d>> \in Seq(rest)  OBVIOUS
<1>2. \A i \in 1..Len(u) : u[i] # c => u[i] \in rest  OBVIOUS
<1> HIDE DEF rest
<1>3. \A i \in 1..Len(u) : (IF u[i] = c THEN <<>> ELSE <<u[i]>>) \in Seq(rest)  BY <1>1, <1>2
<1>4. DOMAIN u = 1..Len(u) /\ Len(u) \in Nat  OBVIOUS
<1>5. Pieces(c, u) \in Seq(Seq(rest)) /\ Len(Pieces(c, u)) = Len(u)
  BY <1>3, <1>4 DEF Pieces
<1> QED  BY <1>5 DEF rest

LEMMA WithoutTyped ==
    ASSUME NEW S, NEW c, NEW t \in Seq(S)
    PROVE  Without(c, t) \in Seq(S \ {c})
<1> DEFINE rest == S \ {c}
<1>1. Pieces(c, t) \in Seq(Seq(rest))  BY PiecesTyped
<1> HIDE DEF rest
<1>2. FlattenSeq(Pieces(c, t)) \in Seq(rest)  BY <1>1, FlattenTyped
<1> QED  BY <1>2 DEF Without, Pieces, rest

LEMMA WithoutJoins ==
    ASSUME NEW S, NEW c, NEW t \in Seq(S), NEW d \in S
    PROVE  Without(c, Append(t, d)) = Without(c, t) \o (IF d = c THEN <<>> ELSE <<d>>)
<1> DEFINE rest == S \ {c}
           u == Append(t, d)
           last == IF d = c THEN <<>> ELSE <<d>>
<1>1. /\ u \in Seq(S) /\ Len(u) = Len(t) + 1 /\ u[Len(t) + 1] = d
      /\ \A i \in 1..Len(t) : u[i] = t[i]
  BY AppendProperties
<1>2. last \in Seq(rest)
  <2>1. d # c => d \in rest  OBVIOUS
  <2> HIDE DEF rest
  <2>2. <<>> \in Seq(rest) /\ \A e \in rest : <<e>> \in Seq(rest)  OBVIOUS
  <2> QED  BY <2>1, <2>2
<1>3. /\ Pieces(c, u) \in Seq(Seq(rest)) /\ Len(Pieces(c, u)) = Len(t) + 1
      /\ Pieces(c, t) \in Seq(Seq(rest)) /\ Len(Pieces(c, t)) = Len(t)
  BY <1>1, PiecesTyped
<1> HIDE DEF rest
<1>4. /\ Append(Pieces(c, t), last) \in Seq(Seq(rest))
      /\ Len(Append(Pieces(c, t), last)) = Len(t) + 1
      /\ Append(Pieces(c, t), last)[Len(t) + 1] = last
      /\ \A i \in 1..Len(t) : Append(Pieces(c, t), last)[i] = Pieces(c, t)[i]
  <2> HIDE DEF last
  <2> QED  BY <1>2, <1>3, AppendProperties
<1>5. ASSUME NEW i \in 1..(Len(t) + 1)
      PROVE  Pieces(c, u)[i] = Append(Pieces(c, t), last)[i]
  <2>1. CASE i = Len(t) + 1
    <3>1. Pieces(c, u)[Len(t) + 1] = last  BY <1>1 DEF Pieces
    <3> QED  BY <1>4, <2>1, <3>1
  <2>2. CASE i # Len(t) + 1
    <3>1. i \in 1..Len(t)  BY <2>2
    <3>2. Pieces(c, u)[i] = Pieces(c, t)[i]  BY <1>1, <3>1 DEF Pieces
    <3> QED  BY <1>4, <3>1, <3>2
  <2> QED  BY <2>1, <2>2
<1>6. Pieces(c, u) = Append(Pieces(c, t), last)
  <2> HIDE DEF last, u
  <2> QED  BY <1>3, <1>4, <1>5, SeqEqual
<1>7. FlattenSeq(Pieces(c, u)) = FlattenSeq(Pieces(c, t)) \o last
  BY <1>2, <1>3, <1>6, FlattenAppend
<1> QED  BY <1>7 DEF Without, Pieces

(* What is left out is not there, anything else comes last. *)
LEMMA WithoutSkips ==
    ASSUME NEW S, NEW c \in S, NEW t \in Seq(S)
    PROVE  Without(c, Append(t, c)) = Without(c, t)
<1> DEFINE rest == S \ {c}
           w == Without(c, t)
<1>1. Without(c, Append(t, c)) = w \o <<>>
  BY WithoutJoins
<1>2. w \in Seq(rest)  BY WithoutTyped
<1> HIDE DEF rest, w
<1>3. w \o <<>> = w  BY <1>2, ConcatEmptySeq
<1> QED  BY <1>1, <1>3 DEF w

LEMMA WithoutKeeps ==
    ASSUME NEW S, NEW c, NEW t \in Seq(S), NEW d \in S, d # c
    PROVE  Without(c, Append(t, d)) = Append(Without(c, t), d)
<1> DEFINE rest == S \ {c}
           w == Without(c, t)
<1>1. Without(c, Append(t, d)) = w \o <<d>>
  BY WithoutJoins
<1>2. w \in Seq(rest) /\ d \in rest  BY WithoutTyped
<1> HIDE DEF rest, w
<1>3. w \o <<d>> = Append(w, d)  BY <1>2, AppendIsConcat
<1> QED  BY <1>1, <1>3 DEF w

LEMMA WithoutConcat ==
    ASSUME NEW S, NEW c, NEW s \in Seq(S), NEW t \in Seq(S)
    PROVE  Without(c, s \o t) = Without(c, s) \o Without(c, t)
<1> DEFINE Right(u) == Without(c, s \o u) = Without(c, s) \o Without(c, u)
           T == {u \in Seq(S) : Right(u)}
           rest == S \ {c}
<1>0. Without(c, s) \in Seq(rest)  BY WithoutTyped
<1>1. Right(<<>>)
  <2>1. Without(c, <<>>) = <<>>  BY WithoutEmpty
  <2>2. s \o <<>> = s  BY ConcatEmptySeq
  <2> HIDE DEF rest
  <2>3. Without(c, s) \o <<>> = Without(c, s)  BY <1>0, ConcatEmptySeq
  <2> QED  BY <2>1, <2>2, <2>3
<1>2. ASSUME NEW u \in Seq(S), NEW d \in S, Right(u)
      PROVE  Right(Append(u, d))
  <2>1. s \o u \in Seq(S)  BY ConcatProperties
  <2>2. Without(c, u) \in Seq(rest)  BY WithoutTyped
  <2>3. s \o Append(u, d) = Append(s \o u, d)  BY ConcatAppend
  <2>4. CASE d = c
    <3>1. Without(c, Append(s \o u, d)) = Without(c, s \o u)  BY <2>1, <2>4, WithoutSkips
    <3>2. Without(c, Append(u, d)) = Without(c, u)  BY <2>4, WithoutSkips
    <3> QED  BY <1>2, <2>3, <3>1, <3>2
  <2>5. CASE d # c
    <3>1. Without(c, Append(s \o u, d)) = Append(Without(c, s \o u), d)
      <4> DEFINE v == s \o u
      <4>1. v \in Seq(S)  BY <2>1
      <4> HIDE DEF v
      <4>2. Without(c, Append(v, d)) = Append(Without(c, v), d)  BY <2>5, <4>1, WithoutKeeps
      <4> QED  BY <4>2 DEF v
    <3>2. Without(c, Append(u, d)) = Append(Without(c, u), d)  BY <2>5, WithoutKeeps
    <3>3. d \in rest  BY <2>5
    <3> HIDE DEF rest
    <3>4. Without(c, s) \o Append(Without(c, u), d) = Append(Without(c, s) \o Without(c, u), d)
      BY <1>0, <2>2, <3>3, ConcatAppend
    <3> QED  BY <1>2, <2>3, <3>1, <3>2, <3>4
  <2> QED  BY <2>4, <2>5
<1>3. Seq(S) \subseteq T
  <2> HIDE DEF Right
  <2>1. <<>> \in T  BY <1>1, EmptySeq
  <2>2. \A u \in Seq(S) : \A d \in S : u \in T => Append(u, d) \in T
    BY <1>2, AppendProperties
  <2> HIDE DEF T
  <2> QED  BY <2>1, <2>2, SeqInduction
<1> QED  BY <1>3

LEMMA WithoutGapsEmpty == WithoutGaps(<<>>) = <<>>
BY WithoutEmpty DEF WithoutGaps

(* A gap is not in the text without gaps, anything else comes last in it. *)
LEMMA WithoutGapsAppend ==
    ASSUME NEW t \in Seq(Char \cup {Gap})
    PROVE  /\ WithoutGaps(t) \in Seq(Char)
           /\ WithoutGaps(Append(t, Gap)) = WithoutGaps(t)
           /\ \A c \in Char : WithoutGaps(Append(t, c)) = Append(WithoutGaps(t), c)
<1> DEFINE all == Char \cup {Gap}
<1>1. all \ {Gap} = Char /\ t \in Seq(all)  BY TextChars
<1>2. \A c \in Char : c # Gap /\ c \in all  BY TextChars
<1>3. Gap \in all  OBVIOUS
<1> HIDE DEF all
<1>4. Without(Gap, t) \in Seq(all \ {Gap})  BY <1>1, WithoutTyped
<1>5. Without(Gap, Append(t, Gap)) = Without(Gap, t)  BY <1>1, <1>3, WithoutSkips
<1>6. \A d \in all : d # Gap => Without(Gap, Append(t, d)) = Append(Without(Gap, t), d)
  BY <1>1, WithoutKeeps
<1> QED  BY <1>1, <1>2, <1>4, <1>5, <1>6 DEF WithoutGaps

----------------------------------------------------------------------------
LEMMA CommaTyped == \A i : Comma(i) \in Seq(Char) /\ Comma(1) = <<>>
<1>1. <<>> \in Seq(Char)  BY EmptyIsSeq
<1> QED  BY <1>1, TextChars DEF Comma

LEMMA SeparatedTyped ==
    ASSUME NEW texts \in Seq(Seq(Char))
    PROVE  Separated(texts) \in Seq(Char)
<1> DEFINE pieces == [i \in DOMAIN texts |-> Comma(i) \o texts[i]]
<1>1. pieces \in Seq(Seq(Char))
  <2>1. DOMAIN texts = 1..Len(texts) /\ Len(texts) \in Nat  OBVIOUS
  <2>2. ASSUME NEW i \in 1..Len(texts) PROVE Comma(i) \o texts[i] \in Seq(Char)
    <3>1. texts[i] \in Seq(Char)  OBVIOUS
    <3> QED  BY <3>1, CommaTyped, ConcatProperties
  <2>3. \A i \in 1..Len(texts) : pieces[i] \in Seq(Char)  BY <2>1, <2>2
  <2> QED  BY <2>1, <2>3
<1> QED  BY <1>1, FlattenTyped DEF Separated

LEMMA OpenedTyped ==
    ASSUME NEW texts \in Seq(Seq(Char))
    PROVE  /\ Opened(texts) \in Seq(Char)
           /\ Before(texts) \in Seq(Char)
           /\ Listed(texts) \in Seq(Char)
<1>1. Opened(texts) \in Seq(Char)
  BY SeparatedTyped, TextChars, ConcatProperties DEF Opened
<1>2. Before(texts) \in Seq(Char)  BY <1>1, CommaTyped, ConcatProperties DEF Before
<1>3. Listed(texts) \in Seq(Char)  BY <1>1, TextChars, ConcatProperties DEF Listed
<1> QED  BY <1>1, <1>2, <1>3

LEMMA SeparatedEmpty == Separated(<<>>) = <<>>
<1>1. [i \in DOMAIN <<>> |-> Comma(i) \o (<<>>)[i]] = <<>>  OBVIOUS
<1>2. FlattenSeq(<<>>) = <<>>  BY DEF FlattenSeq
<1> QED  BY <1>1, <1>2 DEF Separated

LEMMA OpenedEmpty == Opened(<<>>) = <<"[">> /\ Before(<<>>) = <<"[">>
<1>3. Opened(<<>>) = <<"[">>  BY SeparatedEmpty, TextChars, ConcatEmptySeq DEF Opened
<1>4. Len(<<>>) + 1 = 1  OBVIOUS
<1>5. Before(<<>>) = <<"[">>
  BY <1>3, <1>4, TextChars, CommaTyped, ConcatEmptySeq DEF Before
<1> QED  BY <1>3, <1>5

(* A character put behind the second of two texts. *)
LEMMA TextAppends ==
    ASSUME NEW s \in Seq(Char), NEW t \in Seq(Char), NEW c \in Char
    PROVE  Append(s \o t, c) = s \o Append(t, c) /\ Append(t, c) \in Seq(Char)
<1>1. <<c>> \in Seq(Char) /\ s \o t \in Seq(Char)  BY ConcatProperties
<1>2. Append(s \o t, c) = (s \o t) \o <<c>>  BY <1>1, AppendIsConcat
<1>3. Append(t, c) = t \o <<c>>  BY AppendIsConcat
<1> QED  BY <1>1, <1>2, <1>3, ConcatAssociative

(* Four texts joined from the right, and from the left. *)
LEMMA TextsRegroup ==
    ASSUME NEW a \in Seq(Char), NEW b \in Seq(Char), NEW c \in Seq(Char), NEW d \in Seq(Char)
    PROVE  a \o (b \o (c \o d)) = ((a \o b) \o c) \o d
<1>1. a \o b \in Seq(Char) /\ c \o d \in Seq(Char)  BY ConcatProperties
<1>2. (a \o b) \o (c \o d) = a \o (b \o (c \o d))  BY <1>1, ConcatAssociative
<1>3. ((a \o b) \o c) \o d = (a \o b) \o (c \o d)  BY <1>1, ConcatAssociative
<1> QED  BY <1>2, <1>3

(* A text follows the ',' that the texts before it call for. *)
LEMMA SeparatedAppend ==
    ASSUME NEW texts \in Seq(Seq(Char)), NEW t \in Seq(Char)
    PROVE  Separated(Append(texts, t)) = Separated(texts) \o (Comma(Len(texts) + 1) \o t)
<1> DEFINE pieces(ts) == [i \in DOMAIN ts |-> Comma(i) \o ts[i]]
           n == Len(texts)
           more == Append(texts, t)
           last == Comma(n + 1) \o t
<1>1. /\ more \in Seq(Seq(Char)) /\ Len(more) = n + 1 /\ more[n + 1] = t /\ n \in Nat
      /\ \A i \in 1..n : more[i] = texts[i]
  BY AppendProperties
<1>2. ASSUME NEW ts \in Seq(Seq(Char))
      PROVE  pieces(ts) \in Seq(Seq(Char)) /\ Len(pieces(ts)) = Len(ts)
  <2>1. DOMAIN ts = 1..Len(ts) /\ Len(ts) \in Nat  OBVIOUS
  <2>2. ASSUME NEW i \in 1..Len(ts) PROVE Comma(i) \o ts[i] \in Seq(Char)
    <3>1. ts[i] \in Seq(Char)  OBVIOUS
    <3> QED  BY <3>1, CommaTyped, ConcatProperties
  <2>3. \A i \in 1..Len(ts) : pieces(ts)[i] \in Seq(Char)  BY <2>1, <2>2
  <2> QED  BY <2>1, <2>3
<1>3. last \in Seq(Char)  BY CommaTyped, ConcatProperties
<1>4. pieces(more) = Append(pieces(texts), last)
  <2>1. pieces(more) \in Seq(Seq(Char)) /\ Len(pieces(more)) = n + 1
    BY <1>1, <1>2
  <2>2. pieces(texts) \in Seq(Seq(Char)) /\ Len(pieces(texts)) = n
    BY <1>2
  <2>3. /\ Append(pieces(texts), last) \in Seq(Seq(Char))
        /\ Len(Append(pieces(texts), last)) = n + 1
        /\ Append(pieces(texts), last)[n + 1] = last
        /\ \A i \in 1..n : Append(pieces(texts), last)[i] = pieces(texts)[i]
    <3> HIDE DEF pieces, last, n
    <3> QED  BY <1>3, <2>2, AppendProperties
  <2>4. ASSUME NEW i \in 1..(n + 1)
        PROVE  pieces(more)[i] = Append(pieces(texts), last)[i]
    <3>1. CASE i = n + 1
      <4>1. n + 1 \in DOMAIN more  BY <1>1
      <4>2. pieces(more)[n + 1] = last  BY <1>1, <4>1
      <4> QED  BY <2>3, <3>1, <4>2
    <3>2. CASE i # n + 1
      <4>1. i \in 1..n  BY <1>1, <3>2
      <4>2. pieces(texts)[i] = Comma(i) \o texts[i]  BY <4>1
      <4>3. i \in DOMAIN more  BY <1>1
      <4>4. pieces(more)[i] = Comma(i) \o more[i]  BY <4>3
      <4>5. more[i] = texts[i]  BY <1>1, <4>1
      <4>6. Append(pieces(texts), last)[i] = pieces(texts)[i]  BY <2>3, <4>1
      <4> QED  BY <4>2, <4>4, <4>5, <4>6
    <3> QED  BY <3>1, <3>2
  <2> HIDE DEF pieces, last, more
  <2> QED  BY <2>1, <2>3, <2>4, SeqEqual
<1>5. FlattenSeq(pieces(more)) = FlattenSeq(pieces(texts)) \o last
  BY <1>2, <1>3, <1>4, FlattenAppend
<1> QED  BY <1>5 DEF Separated

LEMMA OpenedAppend ==
    ASSUME NEW texts \in Seq(Seq(Char)), NEW t \in Seq(Char)
    PROVE  Opened(Append(texts, t)) = Before(texts) \o t
<1> DEFINE f == Separated(texts)
           c == Comma(Len(texts) + 1)
           open == <<"[">>
<1>1. f \in Seq(Char) /\ c \in Seq(Char) /\ open \in Seq(Char)
  BY SeparatedTyped, CommaTyped, TextChars
<1>2. Opened(Append(texts, t)) = open \o (f \o (c \o t)) /\ Before(texts) = (open \o f) \o c
  BY SeparatedAppend DEF Opened, Before
<1> HIDE DEF f, c, open
<1>3. open \o (f \o (c \o t)) = ((open \o f) \o c) \o t  BY <1>1, TextsRegroup
<1> QED  BY <1>2, <1>3

LEMMA BeforeFilled ==
    ASSUME NEW texts \in Seq(Seq(Char)), texts # <<>>
    PROVE  Before(texts) = Append(Opened(texts), ",")
<1>1. Opened(texts) \in Seq(Char)  BY OpenedTyped
<1>2. Comma(Len(texts) + 1) = <<",">>
  <2>1. Len(texts) + 1 # 1  OBVIOUS
  <2> QED  BY <2>1 DEF Comma
<1>3. "," \in Char  BY DEF Char, Mark
<1>4. Append(Opened(texts), ",") = Opened(texts) \o <<",">>  BY <1>1, <1>3, AppendIsConcat
<1> QED  BY <1>2, <1>4 DEF Before

LEMMA ListedCloses ==
    ASSUME NEW texts \in Seq(Seq(Char))
    PROVE  Listed(texts) = Append(Opened(texts), "]")
<1>1. Opened(texts) \in Seq(Char)  BY OpenedTyped
<1>2. "]" \in Char  BY DEF Char, Mark
<1> QED  BY <1>1, <1>2, AppendIsConcat DEF Listed

LEMMA TokenTyped ==
    ASSUME NEW kind, NEW v \in Seq(Char)
    PROVE  TokenText(kind, v) \in Seq(Char)
<1>1. <<Quote>> \o v \in Seq(Char)  BY TextChars, ConcatProperties
<1>2. (<<Quote>> \o v) \o <<Quote>> \in Seq(Char)  BY <1>1, TextChars, ConcatProperties
<1> QED  BY <1>2 DEF TokenText

(* The texts of the items, one for each. *)
LEMMA ItemTextsAppend ==
    ASSUME NEW vs \in Seq(Seq(Char)), NEW v \in Seq(Char)
    PROVE  /\ ItemTexts(vs) \in Seq(Seq(Char))
           /\ ItemTexts(vs) = <<>> <=> vs = <<>>
           /\ ItemTexts(<<>>) = <<>>
           /\ ItemTexts(Append(vs, v)) = Append(ItemTexts(vs), TokenText(ItemKind, v))
<1> DEFINE t == TokenText(ItemKind, v)
           n == Len(vs)
           more == Append(vs, v)
<1>1. ASSUME NEW us \in Seq(Seq(Char))
      PROVE  /\ ItemTexts(us) \in Seq(Seq(Char)) /\ Len(ItemTexts(us)) = Len(us)
             /\ \A i \in 1..Len(us) : ItemTexts(us)[i] = TokenText(ItemKind, us[i])
  <2>1. DOMAIN us = 1..Len(us) /\ Len(us) \in Nat  OBVIOUS
  <2>2. \A i \in 1..Len(us) : us[i] \in Seq(Char)  OBVIOUS
  <2>3. \A i \in 1..Len(us) : TokenText(ItemKind, us[i]) \in Seq(Char)
    BY <2>2, TokenTyped
  <2> QED  BY <2>1, <2>3 DEF ItemTexts
<1>2. t \in Seq(Char)  BY TokenTyped
<1>3. /\ more \in Seq(Seq(Char)) /\ Len(more) = n + 1 /\ more[n + 1] = v /\ n \in Nat
      /\ \A i \in 1..n : more[i] = vs[i]
  BY AppendProperties
<1>4. /\ Append(ItemTexts(vs), t) \in Seq(Seq(Char))
      /\ Len(Append(ItemTexts(vs), t)) = n + 1
      /\ Append(ItemTexts(vs), t)[n + 1] = t
      /\ \A i \in 1..n : Append(ItemTexts(vs), t)[i] = ItemTexts(vs)[i]
  BY <1>1, <1>2, AppendProperties
<1>5. ASSUME NEW i \in 1..(n + 1)
      PROVE  ItemTexts(more)[i] = Append(ItemTexts(vs), t)[i]
  <2>1. ItemTexts(more)[i] = TokenText(ItemKind, more[i])  BY <1>1, <1>3
  <2>2. CASE i = n + 1  BY <1>3, <1>4, <2>1, <2>2
  <2>3. CASE i # n + 1
    <3>1. i \in 1..n  BY <1>3, <2>3
    <3>2. more[i] = vs[i] /\ Append(ItemTexts(vs), t)[i] = ItemTexts(vs)[i]
      BY <1>3, <1>4, <3>1
    <3>3. ItemTexts(vs)[i] = TokenText(ItemKind, vs[i])  BY <1>1, <3>1
    <3> QED  BY <2>1, <3>2, <3>3
  <2> QED  BY <2>2, <2>3
<1>6. ItemTexts(more) \in Seq(Seq(Char)) /\ Len(ItemTexts(more)) = n + 1  BY <1>1, <1>3
<1>7. ItemTexts(vs) \in Seq(Seq(Char)) /\ Len(ItemTexts(vs)) = n  BY <1>1
<1>8. ItemTexts(<<>>) = <<>>  BY DEF ItemTexts
<1>9. ItemTexts(vs) = <<>> <=> vs = <<>>  BY <1>7
<1> HIDE DEF t, more, n
<1>10. ItemTexts(more) = Append(ItemTexts(vs), t)  BY <1>4, <1>5, <1>6, SeqEqual
<1> QED  BY <1>7, <1>8, <1>9, <1>10 DEF t, more

----------------------------------------------------------------------------
(* A step of a scalar parser puts the character it passes behind what it    *)
(* has read, and hands over as its value what it has read.                  *)
ReadsOn(back) ==
    \/ /\ Advance /\ look \in Char
       /\ frame' \in ScalarFrame
       /\ PartRead' = Append(PartRead, look)
    \/ /\ UNCHANGED text
       /\ frame' = back /\ ret' = "nullptr"
       /\ PartRead' = PartRead
    \/ /\ Advance /\ look \in Char
       /\ frame = "string" /\ frame' = back /\ ret' = "pointer"
       /\ TokenText("string", string.value)' = Append(PartRead, look)
    \/ /\ UNCHANGED text
       /\ frame \in {"number", "numberRest"} /\ frame' = back /\ ret' = "pointer"
       /\ TokenText("number", number.value)' = PartRead

LEMMA PartReadTyped ==
    ASSUME PoolTypeOK
    PROVE  PartRead \in Seq(Char)
<1>1. buffer \in Seq(Char) /\ scan \in Seq(Char)
  BY TextChars, SeqOfSubset DEF PoolTypeOK
<1>2. <<Quote>> \o buffer \in Seq(Char)  BY <1>1, TextChars, ConcatProperties
<1>3. buffer \o scan \in Seq(Char)  BY <1>1, ConcatProperties
<1> QED  BY <1>2, <1>3 DEF PartRead

(* The parts of a value not over. *)
PartReadIs ==
    /\ StringBusy => PartRead = <<Quote>> \o buffer
    /\ ~StringBusy /\ frame # "number" => PartRead = buffer
    /\ frame = "number" => PartRead = scan
    /\ frame = "stringStart" => PartRead = <<>>
    /\ ~StringBusy /\ ~NumberBusy => PartRead = <<>>

LEMMA PartReadCases == PoolTypeOK /\ PoolInv => PartReadIs
<1> SUFFICES ASSUME PoolTypeOK, PoolInv PROVE PartReadIs
  OBVIOUS
<1>1. buffer \in Seq(Char) /\ scan \in Seq(Char)
  BY TextChars, SeqOfSubset DEF PoolTypeOK
<1>2. /\ buffer \o <<>> = buffer /\ <<>> \o scan = scan
      /\ <<>> \o <<>> = <<>>
  BY <1>1, ConcatEmptySeq
<1>3. StringBusy => PartRead = <<Quote>> \o buffer  BY DEF PartRead
<1>4. ~StringBusy => PartRead = buffer \o scan  BY DEF PartRead
<1>5. frame # "number" => scan = <<>>  BY DEF PoolInv
<1>6. frame = "number" => buffer = <<>> /\ ~StringBusy
  BY DEF PoolInv, NumberBusy
<1>7. frame = "stringStart" => buffer = <<>> /\ ~StringBusy  BY DEF PoolInv, StringBusy
<1>8. ~StringBusy /\ ~NumberBusy => buffer = <<>> /\ frame # "number"
  BY DEF PoolInv, NumberBusy
<1> QED  BY <1>2, <1>3, <1>4, <1>5, <1>6, <1>7, <1>8 DEF PartReadIs

LEMMA PartReadCasesNext == (PoolTypeOK /\ PoolInv => PartReadIs)'
BY PartReadCases, PTL

LEMMA ScalarReads ==
    ASSUME NEW back, back \notin ScalarFrame \cup {"failed"},
           PoolTypeOK, PoolInv, StringBusy => string.value = <<>>,
           ScalarStep(back), frame' # "failed"
    PROVE  ReadsOn(back) /\ (StringBusy' => string'.value = <<>>)
<1>a. PoolTypeOK' /\ PoolInv'  BY ScalarKeepsTypes, ScalarKeepsPool
<1>b. PartReadIs /\ PartReadIs'  BY <1>a, PartReadCases, PartReadCasesNext
<1>c. buffer \in Seq(Char) /\ scan \in Seq(Char) /\ buffer \o <<>> = buffer
  BY TextChars, SeqOfSubset, ConcatEmptySeq DEF PoolTypeOK
<1>d. back # "string" /\ back # "number" /\ back # "numberRest" /\ back # "stringStart"
  BY DEF ScalarFrame
<1>e. string \in [finished : BOOLEAN, value : Seq(Char)]
  BY DEF PoolTypeOK
<1>f. <<Quote>> \in Seq(Char)  BY TextChars
<1> USE <1>a, <1>b, <1>c, <1>d, <1>e, <1>f DEF ReturnTo, Throw, PartReadIs
<1>1. CASE StringStart
  <2>1. /\ frame = "stringStart" /\ look = Quote /\ frame' = "string" /\ Advance
        /\ string' = [string EXCEPT !.value = <<>>] /\ UNCHANGED <<buffer, scan>>
    BY <1>1 DEF StringStart, ValueEmptied
  <2>2. PartRead = <<>> /\ buffer = <<>>  BY <2>1 DEF PoolInv
  <2>3. PartRead' = <<Quote>> \o <<>>  BY <2>1, <2>2 DEF StringBusy
  <2>4. PartRead' = <<Quote>>  BY <2>3, ConcatEmptySeq
  <2>5. Append(PartRead, look) = <<Quote>>  BY <2>1, <2>2
  <2>6. look \in Char  BY <2>1 DEF Char
  <2> QED  BY <2>1, <2>4, <2>5, <2>6 DEF ReadsOn, ScalarFrame
<1>2. CASE StringChar
  <2>1. /\ frame = "string" /\ look \in Char /\ frame' = "string" /\ Advance
        /\ buffer' = Append(buffer, look) /\ UNCHANGED string
    BY <1>2 DEF StringChar
  <2>2. StringBusy /\ StringBusy'  BY <2>1 DEF StringBusy
  <2>3. PartRead = <<Quote>> \o buffer  BY <2>2
  <2>4. Append(PartRead, look) = <<Quote>> \o Append(buffer, look)
    BY <2>1, <2>3, TextAppends
  <2> QED  BY <2>1, <2>2, <2>4 DEF ReadsOn, ScalarFrame
<1>3. CASE StringInvalid  BY <1>3 DEF StringInvalid
<1>4. CASE StringClose(back)
  <2>1. /\ frame = "string" /\ look = Quote /\ frame' = back /\ ret' = "pointer" /\ Advance
        /\ string'.value = string.value \o buffer /\ string'.finished
    BY <1>4 DEF StringClose
  <2>2. StringBusy /\ ~StringBusy'  BY <2>1 DEF StringBusy
  <2>3. PartRead = <<Quote>> \o buffer /\ string.value = <<>>  BY <2>2
  <2>4. string'.value = buffer  BY <2>1, <2>3, ConcatEmptySeq
  <2>5. look \in Char  BY <2>1 DEF Char
  <2>6. PartRead \in Seq(Char)  BY PartReadTyped
  <2>7. Append(PartRead, look) = PartRead \o <<Quote>>
    BY <2>1, <2>5, <2>6, AppendIsConcat
  <2>8. TokenText("string", string.value)' = (<<Quote>> \o buffer) \o <<Quote>>
    BY <2>4, <1>c, <1>f, ConcatAssociative DEF TokenText
  <2> QED  BY <2>1, <2>2, <2>3, <2>5, <2>7, <2>8 DEF ReadsOn
<1>5. CASE StringEnd(back)
  <2>1. /\ frame = "string" /\ frame' = back /\ ret' = "nullptr" /\ UNCHANGED <<text, buffer>>
        /\ string' = [string EXCEPT !.finished = FALSE]
    BY <1>5 DEF StringEnd
  <2>2. StringBusy /\ StringBusy'  BY <2>1 DEF StringBusy
  <2>3. PartRead' = PartRead  BY <2>1, <2>2
  <2> QED  BY <2>1, <2>2, <2>3 DEF ReadsOn
<1>6. CASE NumberDigit
  <2>1. /\ look \in Digit /\ Advance /\ UNCHANGED <<frame, ret, string>>
        /\ \/ frame = "number" /\ scan' = Append(scan, look)
           \/ frame = "numberRest" /\ buffer' = Append(buffer, look)
    BY <1>6 DEF NumberDigit
  <2>2. look \in Char /\ ~StringBusy /\ ~StringBusy' /\ frame' \in ScalarFrame
    BY <2>1, TextChars DEF PoolInv, StringBusy, NumberBusy, ScalarFrame
  <2>3. PartRead' = Append(PartRead, look)  BY <2>1, <2>2
  <2> QED  BY <2>1, <2>2, <2>3 DEF ReadsOn
<1>7. CASE NumberDirect(back)
  <2>1. /\ frame = "number" /\ frame' = back /\ ret' = "pointer" /\ UNCHANGED <<text, string>>
        /\ number'.value = scan
    BY <1>7 DEF NumberDirect
  <2>2. ~StringBusy /\ ~StringBusy'  BY <2>1 DEF PoolInv, StringBusy, NumberBusy
  <2>3. PartRead = scan  BY <2>1
  <2> QED  BY <2>1, <2>2, <2>3 DEF ReadsOn, TokenText
<1>8. CASE NumberInvalid  BY <1>8 DEF NumberInvalid
<1>9. CASE NumberEnd(back)
  <2>1. /\ frame \in {"number", "numberRest"} /\ frame' = back /\ ret' = "nullptr"
        /\ UNCHANGED <<text, string>> /\ buffer' = buffer \o scan
    BY <1>9 DEF NumberEnd
  <2>2. ~StringBusy /\ ~StringBusy'  BY <2>1 DEF PoolInv, StringBusy, NumberBusy
  <2>3. PartRead' = buffer'  BY <2>1, <2>2
  <2>4. PartRead = buffer \o scan  BY <2>2 DEF PartRead
  <2> QED  BY <2>1, <2>2, <2>3, <2>4 DEF ReadsOn
<1>10. CASE NumberRestDone(back)
  <2>1. /\ frame = "numberRest" /\ frame' = back /\ ret' = "pointer" /\ UNCHANGED <<text, string>>
        /\ number'.value = buffer
    BY <1>10 DEF NumberRestDone, NumberInBuffer
  <2>2. ~StringBusy /\ ~StringBusy'  BY <2>1 DEF PoolInv, StringBusy, NumberBusy
  <2>3. PartRead = buffer  BY <2>1, <2>2
  <2> QED  BY <2>1, <2>2, <2>3 DEF ReadsOn, TokenText
<1> QED  BY <1>1, <1>2, <1>3, <1>4, <1>5, <1>6, <1>7, <1>8, <1>9, <1>10 DEF ScalarStep

(* A step of an array puts the character it passes behind what it has read, *)
(* and what it leaves out is whitespace.                                    *)
ArrayReadsOn(back) ==
    \/ /\ Advance /\ look \in Char
       /\ ArrayRead(back)' = Append(ArrayRead(back), look)
    \/ /\ UNCHANGED text \/ Skip
       /\ ArrayRead(back)' = ArrayRead(back)

LEMMA PoolValueTyped ==
    ASSUME PoolTypeOK
    PROVE  PoolValue(ItemKind) \in Seq(Char)
<1>1. string.value \in Seq(Char) /\ number.value \in Seq(Digit)  BY DEF PoolTypeOK
<1>2. number.value \in Seq(Char)  BY <1>1, TextChars, SeqOfSubset
<1> QED  BY <1>1, <1>2 DEF PoolValue

LEMMA ItemReadTyped ==
    ASSUME PoolTypeOK
    PROVE  ItemRead \in Seq(Char)
BY PartReadTyped, PoolValueTyped, TokenTyped DEF ItemRead

LEMMA ArrayReadTyped ==
    ASSUME NEW back, PoolTypeOK, ArrayTypeOK
    PROVE  ArrayRead(back) \in Seq(Char)
<1>1. array.out \in Seq(Seq(Char))  BY DEF ArrayTypeOK
<1>2. ItemTexts(array.out) \in Seq(Seq(Char))
  <2>1. <<>> \in Seq(Char)  BY EmptyIsSeq
  <2> QED  BY <1>1, <2>1, ItemTextsAppend
<1>3. /\ Opened(ItemTexts(array.out)) \in Seq(Char)
      /\ Before(ItemTexts(array.out)) \in Seq(Char)
      /\ ArrayText(array.out) \in Seq(Char)
  BY <1>2, OpenedTyped DEF ArrayText
<1>4. Before(ItemTexts(array.out)) \o ItemRead \in Seq(Char)
  BY <1>3, ItemReadTyped, ConcatProperties
<1>5. <<>> \in Seq(Char)  BY EmptyIsSeq
<1> QED  BY <1>3, <1>4, <1>5 DEF ArrayRead

(* The flags that ArrayRead depends on go on as they should. *)
LEMMA ArrayKeepsOrder ==
    ASSUME NEW back, back \notin ScalarFrame \cup ArrayFrame \cup {"failed"},
           PoolTypeOK, ArrayTypeOK, PoolInv, ArrayInv, ArrayOrder, ArrayStep(back),
           frame' # "failed"
    PROVE  ArrayOrder'
<1>a. ItemKind = "string" \/ ItemKind = "number"  BY ItemAssumption DEF Scalar
<1>b. EntryFrame(ItemKind) \in ScalarFrame  BY DEF EntryFrame, ScalarFrame
<1>c. array.out \in Seq(Seq(Char)) /\ ItemsPushed # <<>>
  <2>1. array.out \in Seq(Seq(Char))  BY DEF ArrayTypeOK
  <2> QED  BY <2>1, PoolValueTyped, AppendProperties DEF ItemsPushed
<1> USE <1>a, <1>c
    DEF ArrayTypeOK, ArrayOrder, ArrayInv, PoolInv, StringBusy, NumberBusy, ScalarFrame,
        ArrayFrame, ReturnTo, Throw, ArrayNeedsMore, Finished
<1>1. CASE ResumeItem  BY <1>1 DEF ResumeItem, ArrayResumesItem, EntryFrame
<1>2. CASE OpenArray
  <2>1. /\ frame = "array" /\ frame' = "arrayFirst" /\ ret' = ret /\ Finished(ItemKind)
        /\ array' = [array EXCEPT !.began = TRUE, !.expect = TRUE]
        /\ UNCHANGED <<string, number>> /\ array.out = <<>>
    BY <1>2 DEF OpenArray, ArrayBegins
  <2> QED  BY <2>1
<1>3. CASE ResumeArray  BY <1>3 DEF ResumeArray, ArrayResumes, ResumedFrame
<1>4. CASE SkipArrayBlank  BY <1>4 DEF SkipArrayBlank, ArraySkips
<1>5. CASE EndArrayChunk(back)  BY <1>5 DEF EndArrayChunk, ArraySkips
<1>6. CASE CloseArray(back)  BY <1>6 DEF CloseArray, ArraySkips
<1>7. CASE ReadItem  BY <1>7, <1>b DEF ReadItem, ArraySkips, EntryFrame
<1>8. CASE KeepItem  BY <1>8 DEF KeepItem
<1>9. CASE WaitForItem(back)  BY <1>9 DEF WaitForItem
<1>10. CASE Separate  BY <1>10 DEF Separate
<1>11. CASE ScalarStep("arrayLoop") /\ UNCHANGED array
  <2>1. StringBusy' => string'.value = <<>>  BY <1>11, ScalarReads
  <2>2. frame \in ScalarFrame  BY <1>11 DEF ScalarStep, StringStart, StringChar, StringInvalid,
     StringClose, StringEnd, NumberDigit, NumberDirect, NumberInvalid, NumberEnd, NumberRestDone
  <2>3. frame' \in ScalarFrame \cup {"arrayLoop"}  BY <1>11, ScalarKeepsTypes
  <2>4. array'.began /\ array'.expect /\ array'.out = array.out  BY <1>11, <2>2
  <2> QED  BY <2>1, <2>3, <2>4
<1> QED
  BY <1>1, <1>2, <1>3, <1>4, <1>5, <1>6, <1>7, <1>8, <1>9, <1>10, <1>11 DEF ArrayStep

(* A text over follows what was read before it: the cases of ReadsOn. *)
LEMMA ArrayReads ==
    ASSUME NEW back, back \notin ScalarFrame \cup ArrayFrame \cup {"failed"},
           PoolTypeOK, ArrayTypeOK, PoolInv, ArrayInv, ArrayOrder, ArrayStep(back),
           frame' # "failed"
    PROVE  ArrayReadsOn(back)
<1> DEFINE outs == ItemTexts(array.out)
<1>a. ItemKind = "string" \/ ItemKind = "number"  BY ItemAssumption DEF Scalar
<1>b. /\ array \in [out : Seq(Seq(Char)), began : BOOLEAN, expect : BOOLEAN, finished : BOOLEAN]
      /\ array.out \in Seq(Seq(Char))
  BY DEF ArrayTypeOK
<1>c. /\ outs \in Seq(Seq(Char)) /\ (array.out = <<>> <=> outs = <<>>)
      /\ Opened(outs) \in Seq(Char) /\ Before(outs) \in Seq(Char)
  <2>1. <<>> \in Seq(Char)  BY EmptyIsSeq
  <2>2. outs \in Seq(Seq(Char)) /\ (array.out = <<>> <=> outs = <<>>)
    BY <1>b, <2>1, ItemTextsAppend
  <2> QED  BY <2>2, OpenedTyped
<1>d. PoolTypeOK' /\ PoolInv' /\ ArrayInv'
  BY ArrayKeepsTypes, ArrayKeepsPool
<1>e. PartReadIs /\ PartReadIs'  BY <1>d, PartReadCases, PartReadCasesNext
<1>f. /\ Finished(ItemKind) /\ frame \in ArrayFrame => ~StringBusy /\ ~NumberBusy
      /\ (Finished(ItemKind) /\ frame \in ArrayFrame => ~StringBusy /\ ~NumberBusy)'
  BY <1>a, <1>d DEF ArrayInv, StringBusy, NumberBusy, Finished, ArrayFrame
<1>g. back \notin {"array", "arrayFirst", "arrayLoop", "string", "number", "numberRest", "stringStart"}
  BY DEF ArrayFrame, ScalarFrame
<1>h. PartRead \in Seq(Char)  BY PartReadTyped
<1> HIDE DEF outs
<1>i. /\ array.began /\ array.expect => ArrayRead(back) = Before(outs) \o ItemRead
      /\ array.began /\ ~array.expect => ArrayRead(back) = Opened(outs)
      /\ ~array.began /\ frame # back => ArrayRead(back) = <<>>
  BY DEF ArrayRead, outs
<1>j. array'.out = array.out =>
        /\ array'.began /\ array'.expect => ArrayRead(back)' = Before(outs) \o ItemRead'
        /\ array'.began /\ ~array'.expect => ArrayRead(back)' = Opened(outs)
        /\ ~array'.began /\ frame' = back /\ ret' = "pointer" => ArrayRead(back)' = Listed(outs)
  BY DEF ArrayRead, ArrayText, ItemTexts, outs
<1>k. /\ ~(frame = "arrayLoop" /\ ret = "pointer") => ItemRead = PartRead
      /\ frame' # "arrayLoop" \/ ret' # "pointer" => ItemRead' = PartRead'
  BY DEF ItemRead
<1>l. UNCHANGED <<buffer, scan>> /\ (StringBusy' <=> StringBusy) => PartRead' = PartRead
  BY DEF PartRead
<1>1. CASE ResumeItem
  <2>1. /\ frame = "array" /\ ~Finished(ItemKind) /\ frame' = EntryFrame(ItemKind)
        /\ UNCHANGED <<ret, text, buffer, scan, string, number, array>>
    BY <1>1 DEF ResumeItem, ArrayResumesItem
  <2>2. StringBusy' <=> StringBusy
    BY <1>a, <2>1 DEF EntryFrame, Finished, StringBusy, PoolInv, NumberBusy
  <2>3. frame' \in ScalarFrame  BY <1>a, <2>1 DEF EntryFrame, ScalarFrame
  <2>4. ItemRead' = ItemRead  BY <1>k, <1>l, <2>1, <2>2, <2>3 DEF ScalarFrame
  <2>5. array.began /\ array.expect  BY <2>1 DEF ArrayOrder
  <2> QED  BY <1>i, <1>j, <2>1, <2>4, <2>5 DEF ArrayReadsOn
<1>2. CASE OpenArray
  <2>1. /\ frame = "array" /\ frame' = "arrayFirst" /\ Finished(ItemKind)
        /\ ~array.began /\ array' = [array EXCEPT !.began = TRUE, !.expect = TRUE]
        /\ Advance /\ look = "[" /\ UNCHANGED <<ret, buffer, scan, string, number>>
    BY <1>2 DEF OpenArray, ArrayBegins, Throw
  <2>2. look \in Char  BY <2>1 DEF Char, Mark
  <2>3. array.out = <<>> /\ outs = <<>>  BY <1>c, <2>1 DEF ArrayOrder
  <2>4. array'.out = array.out /\ array'.began /\ array'.expect  BY <1>b, <2>1
  <2>5. PartRead' = <<>>
    <3>1. Finished(ItemKind)' /\ frame' \in ArrayFrame  BY <2>1 DEF Finished, ArrayFrame
    <3> QED  BY <1>e, <1>f, <3>1 DEF PartReadIs
  <2>6. ArrayRead(back)' = Before(outs) \o <<>>  BY <1>j, <1>k, <2>1, <2>4, <2>5
  <2>7. ArrayRead(back)' = <<"[">>  BY <1>c, <2>3, <2>6, OpenedEmpty, ConcatEmptySeq
  <2>8. ArrayRead(back) = <<>>  BY <1>g, <1>i, <2>1
  <2>9. Append(<<>>, "[") = <<"[">>  OBVIOUS
  <2> QED  BY <2>1, <2>2, <2>7, <2>8, <2>9 DEF ArrayReadsOn
<1>3. CASE ResumeArray
  <2>1. /\ frame = "array" /\ array.began /\ frame' \in {"arrayFirst", "arrayLoop"} /\ ret = "none"
        /\ UNCHANGED <<ret, text, buffer, scan, string, number, array>>
    BY <1>3 DEF ResumeArray, ArrayResumes, ResumedFrame, ArrayInv
  <2>2. StringBusy' <=> StringBusy  BY <2>1 DEF StringBusy
  <2>3. ItemRead' = ItemRead  BY <1>k, <1>l, <2>1, <2>2
  <2> QED  BY <1>b, <1>i, <1>j, <2>1, <2>3 DEF ArrayReadsOn
<1>4. CASE SkipArrayBlank
  <2>1. /\ ret = "none" /\ frame \in {"arrayFirst", "arrayLoop"} /\ Skip
        /\ UNCHANGED <<frame, ret, buffer, scan, string, number, array>>
    BY <1>4 DEF SkipArrayBlank, ArraySkips
  <2>2. StringBusy' <=> StringBusy  BY <2>1 DEF StringBusy
  <2>3. ItemRead' = ItemRead  BY <1>k, <1>l, <2>1, <2>2
  <2>4. array.began  BY <2>1 DEF ArrayOrder
  <2> QED  BY <1>b, <1>i, <1>j, <2>1, <2>3, <2>4 DEF ArrayReadsOn
<1>5. CASE EndArrayChunk(back)
  <2>1. /\ ret = "none" /\ frame \in {"arrayFirst", "arrayLoop"} /\ (UNCHANGED text \/ Skip)
        /\ frame' = back /\ ret' = "nullptr" /\ array' = [array EXCEPT !.finished = FALSE]
        /\ UNCHANGED <<buffer, scan, string, number>>
    BY <1>5 DEF EndArrayChunk, ArraySkips, ArrayNeedsMore, ReturnTo
  <2>2. StringBusy' <=> StringBusy  BY <1>g, <2>1 DEF StringBusy
  <2>3. ItemRead' = ItemRead  BY <1>k, <1>l, <2>1, <2>2
  <2>4. /\ array.began /\ array'.began /\ array'.out = array.out
        /\ array'.expect = array.expect
    BY <1>b, <2>1 DEF ArrayOrder
  <2> QED  BY <1>b, <1>i, <1>j, <2>1, <2>3, <2>4 DEF ArrayReadsOn
<1>6. CASE CloseArray(back)
  <2>1. /\ ret = "none" /\ frame \in {"arrayFirst", "arrayLoop"} /\ look = "]" /\ Advance
        /\ frame = "arrayFirst" \/ ~array.expect
        /\ array' = [array EXCEPT !.began = FALSE, !.finished = TRUE]
        /\ frame' = back /\ ret' = "pointer"
    BY <1>6 DEF CloseArray, ArraySkips, MayEnd, ReturnTo
  <2>2. look \in Char /\ array.began  BY <2>1 DEF Char, Mark, ArrayOrder
  <2>3. array'.out = array.out /\ ~array'.began  BY <1>b, <2>1
  <2>4. ArrayRead(back)' = Listed(outs)  BY <1>j, <2>1, <2>3
  <2>5. Listed(outs) = Append(Opened(outs), "]")  BY <1>c, ListedCloses
  <2>6. ArrayRead(back) = Opened(outs)
    <3>1. CASE array.expect
      <4>1. frame = "arrayFirst" /\ array.out = <<>>  BY <2>1, <3>1 DEF ArrayOrder
      <4>2. outs = <<>> /\ Before(outs) = Opened(outs)  BY <1>c, <4>1, OpenedEmpty
      <4>3. ~StringBusy /\ ~NumberBusy
        BY <2>1 DEF ArrayInv, StringBusy, NumberBusy
      <4>4. ItemRead = <<>>  BY <1>e, <1>k, <2>1, <4>3 DEF PartReadIs
      <4>5. ArrayRead(back) = Before(outs) \o <<>>  BY <1>i, <2>2, <3>1, <4>4
      <4> QED  BY <1>c, <4>2, <4>5, ConcatEmptySeq
    <3>2. CASE ~array.expect  BY <1>i, <2>2, <3>2
    <3> QED  BY <3>1, <3>2
  <2> QED  BY <2>1, <2>2, <2>4, <2>5, <2>6 DEF ArrayReadsOn
<1>7. CASE ReadItem
  <2>1. /\ ret = "none" /\ frame \in {"arrayFirst", "arrayLoop"} /\ array.expect
        /\ frame' = EntryFrame(ItemKind)
        /\ UNCHANGED <<ret, text, buffer, scan, string, number, array>>
    BY <1>7 DEF ReadItem, ArraySkips
  <2>2. array.began /\ string.finished /\ number.finished
    BY <2>1 DEF ArrayOrder, ArrayInv
  <2>3. frame' \in {"stringStart", "number"}  BY <2>1, <2>2 DEF EntryFrame
  <2>4. StringBusy' <=> StringBusy  BY <2>1, <2>2, <2>3 DEF StringBusy
  <2>5. ItemRead' = ItemRead  BY <1>k, <1>l, <2>1, <2>3, <2>4
  <2> QED  BY <1>i, <1>j, <2>1, <2>2, <2>5 DEF ArrayReadsOn
<1>8. CASE KeepItem
  <2>1. /\ frame = "arrayLoop" /\ ret = "pointer" /\ UNCHANGED text
        /\ array' = [array EXCEPT !.out = ItemsPushed, !.expect = FALSE]
    BY <1>8 DEF KeepItem
  <2>2. array.began /\ array.expect  BY <2>1 DEF ArrayOrder
  <2>3. array'.began /\ ~array'.expect /\ array'.out = ItemsPushed  BY <1>b, <2>1, <2>2
  <2>4. ItemRead = TokenText(ItemKind, PoolValue(ItemKind))  BY <2>1 DEF ItemRead
  <2>5. ItemRead \in Seq(Char) /\ PoolValue(ItemKind) \in Seq(Char)
    BY ItemReadTyped, PoolValueTyped
  <2>6. ItemTexts(ItemsPushed) = Append(outs, ItemRead)
    BY <1>b, <2>4, <2>5, ItemTextsAppend DEF ItemsPushed, outs
  <2>7. ArrayRead(back)' = Opened(Append(outs, ItemRead))
    <3>1. ArrayRead(back)' = Opened(ItemTexts(array.out)')  BY <2>3 DEF ArrayRead
    <3>2. ItemTexts(array.out)' = ItemTexts(ItemsPushed)  BY <2>3 DEF ItemTexts
    <3> QED  BY <2>6, <3>1, <3>2
  <2>8. Opened(Append(outs, ItemRead)) = Before(outs) \o ItemRead
    BY <1>c, <2>5, OpenedAppend
  <2> QED  BY <1>i, <2>1, <2>2, <2>7, <2>8 DEF ArrayReadsOn
<1>9. CASE WaitForItem(back)
  <2>1. /\ ret = "nullptr" /\ frame = "arrayLoop" /\ UNCHANGED text
        /\ frame' = back /\ ret' = "nullptr" /\ array' = [array EXCEPT !.finished = FALSE]
        /\ UNCHANGED <<buffer, scan, string, number>>
    BY <1>9 DEF WaitForItem, ArrayNeedsMore, ReturnTo
  <2>2. StringBusy' <=> StringBusy  BY <1>g, <2>1 DEF StringBusy
  <2>3. ItemRead' = ItemRead  BY <1>k, <1>l, <2>1, <2>2
  <2>4. /\ array.began /\ array'.began /\ array'.out = array.out
        /\ array'.expect = array.expect
    BY <1>b, <2>1 DEF ArrayOrder
  <2> QED  BY <1>b, <1>i, <1>j, <2>1, <2>3, <2>4 DEF ArrayReadsOn
<1>10. CASE Separate
  <2>1. /\ frame = "arrayLoop" /\ ret = "none" /\ ~array.expect /\ look = "," /\ Advance
        /\ array' = [array EXCEPT !.expect = TRUE]
        /\ UNCHANGED <<frame, ret, buffer, scan, string, number>>
    BY <1>10 DEF Separate, Throw
  <2>2. array.began /\ array.out # <<>> /\ look \in Char
    BY <2>1 DEF ArrayOrder, Char, Mark
  <2>3. array'.began /\ array'.expect /\ array'.out = array.out  BY <1>b, <2>1, <2>2
  <2>4. ~StringBusy' /\ ~NumberBusy'  BY <2>1 DEF ArrayInv, StringBusy, NumberBusy
  <2>5. ItemRead' = <<>>  BY <1>e, <1>k, <2>1, <2>4 DEF PartReadIs
  <2>6. ArrayRead(back)' = Before(outs)  BY <1>c, <1>j, <2>3, <2>5, ConcatEmptySeq
  <2>7. Before(outs) = Append(Opened(outs), ",")  BY <1>c, <2>2, BeforeFilled
  <2> QED  BY <1>i, <2>1, <2>2, <2>6, <2>7 DEF ArrayReadsOn
<1>11. CASE ScalarStep("arrayLoop") /\ UNCHANGED array
  <2>1. ReadsOn("arrayLoop")  BY <1>11, ScalarReads DEF ArrayOrder, ScalarFrame
  <2>2. frame \in ScalarFrame  BY <1>11 DEF ScalarStep, StringStart, StringChar, StringInvalid,
     StringClose, StringEnd, NumberDigit, NumberDirect, NumberInvalid, NumberEnd, NumberRestDone,
     ScalarFrame
  <2>3. /\ array.began /\ array.expect /\ array'.began /\ array'.expect
        /\ array'.out = array.out
    BY <1>11, <2>2 DEF ArrayOrder
  <2>4. ItemRead = PartRead  BY <1>k, <2>2 DEF ScalarFrame
  <2>5. /\ ArrayRead(back) = Before(outs) \o PartRead
        /\ ArrayRead(back)' = Before(outs) \o ItemRead'
    BY <1>i, <1>j, <2>3, <2>4
  <2>6. frame' = "arrayLoop" /\ ret' = "pointer" =>
            ItemRead' = TokenText(ItemKind, PoolValue(ItemKind))'
    BY DEF ItemRead
  <2>7. look \in Char =>
            Append(ArrayRead(back), look) = Before(outs) \o Append(PartRead, look)
    <3>1. ASSUME look \in Char
          PROVE  Append(Before(outs) \o PartRead, look) = Before(outs) \o Append(PartRead, look)
      BY <1>c, <1>h, <3>1, TextAppends
    <3> QED  BY <2>5, <3>1
  <2>8. CASE Advance /\ look \in Char /\ frame' \in ScalarFrame /\ PartRead' = Append(PartRead, look)
    <3>1. ItemRead' = PartRead'  BY <1>k, <2>8 DEF ScalarFrame
    <3> QED  BY <2>5, <2>7, <2>8, <3>1 DEF ArrayReadsOn
  <2>9. CASE UNCHANGED text /\ frame' = "arrayLoop" /\ ret' = "nullptr" /\ PartRead' = PartRead
    <3>1. ItemRead' = PartRead'  BY <1>k, <2>9
    <3> QED  BY <2>5, <2>9, <3>1 DEF ArrayReadsOn
  <2>10. CASE /\ Advance /\ look \in Char
              /\ frame = "string" /\ frame' = "arrayLoop" /\ ret' = "pointer"
              /\ TokenText("string", string.value)' = Append(PartRead, look)
    <3>1. ItemKind = "string"  BY <2>10 DEF ArrayInv, StringBusy
    <3>2. TokenText(ItemKind, PoolValue(ItemKind))' = TokenText("string", string.value)'
      BY <3>1 DEF PoolValue
    <3>3. ItemRead' = Append(PartRead, look)  BY <2>6, <2>10, <3>2
    <3> QED  BY <2>5, <2>7, <2>10, <3>3 DEF ArrayReadsOn
  <2>11. CASE /\ UNCHANGED text
              /\ frame \in {"number", "numberRest"} /\ frame' = "arrayLoop" /\ ret' = "pointer"
              /\ TokenText("number", number.value)' = PartRead
    <3>1. ItemKind = "number"  BY <2>11 DEF ArrayInv, NumberBusy
    <3>2. TokenText(ItemKind, PoolValue(ItemKind))' = TokenText("number", number.value)'
      BY <3>1 DEF PoolValue
    <3>3. ItemRead' = PartRead  BY <2>6, <2>11, <3>2
    <3> QED  BY <2>5, <2>11, <3>3 DEF ArrayReadsOn
  <2> QED  BY <2>1, <2>8, <2>9, <2>10, <2>11 DEF ReadsOn
<1> QED
  BY <1>1, <1>2, <1>3, <1>4, <1>5, <1>6, <1>7, <1>8, <1>9, <1>10, <1>11 DEF ArrayStep

(* What passing a character, or whitespace, does to the history. *)
LEMMA TextGoesOn ==
    ASSUME PoolTypeOK
    PROVE  /\ Advance /\ look \in Char => WithoutGaps(text)' = Append(WithoutGaps(text), look)
           /\ UNCHANGED text \/ Skip => WithoutGaps(text)' = WithoutGaps(text)
<1>1. text \in Seq(Char \cup {Gap})  BY DEF PoolTypeOK
<1>2. WithoutGaps(text)' = WithoutGaps(text')  BY DEF WithoutGaps, Without
<1>3. /\ WithoutGaps(Append(text, Gap)) = WithoutGaps(text)
      /\ \A c \in Char : WithoutGaps(Append(text, c)) = Append(WithoutGaps(text), c)
  BY <1>1, WithoutGapsAppend
<1>4. ASSUME Advance, look \in Char
      PROVE  WithoutGaps(text)' = Append(WithoutGaps(text), look)
  <2>1. text' = Append(text, look)  BY <1>4 DEF Advance
  <2> QED  BY <1>2, <1>3, <1>4, <2>1
<1>5. ASSUME UNCHANGED text \/ Skip
      PROVE  WithoutGaps(text)' = WithoutGaps(text)
  <2>1. text' = text \/ text' = Append(text, Gap)  BY <1>5 DEF Skip
  <2> QED  BY <1>2, <1>3, <2>1
<1> QED  BY <1>4, <1>5
----------------------------------------------------------------------------
(* Lists as units: every text with the mark behind it.  In Whole the last   *)
(* one has the mark that ends the list, and an empty list is that mark.     *)
Marked(ts) == [i \in 1..Len(ts) |-> Append(ts[i], ",")]

Whole(ts, e) ==
    IF ts = <<>> THEN <<<<e>>>>
    ELSE [i \in 1..Len(ts) |-> Append(ts[i], IF i = Len(ts) THEN e ELSE ",")]

Ended(T, e) == {Append(x, ",") : x \in T} \cup {Append(x, e) : x \in T} \cup {<<e>>}

LEMMA MarkedText ==
    ASSUME NEW x \in Seq(Char), NEW c \in Char
    PROVE  Append(x, c) \in Seq(Char) /\ Append(x, c) = x \o <<c>> /\ <<c>> \in Seq(Char)
<1>1. Append(x, c) = x \o <<c>>  BY AppendIsConcat
<1> QED  BY <1>1, AppendIsSeq

LEMMA CommaIsChar == "," \in Char /\ "[" \in Char /\ "]" \in Char
<1>1. "," \in Mark /\ "[" \in Mark /\ "]" \in Mark  BY DEF Mark
<1> QED  BY <1>1 DEF Char

LEMMA MarkedTyped ==
    ASSUME NEW T, T \subseteq Seq(Char), NEW e \in Char, NEW ts \in Seq(T)
    PROVE  /\ Marked(ts) \in Seq(Ended(T, e)) /\ Len(Marked(ts)) = Len(ts)
           /\ \A i \in 1..Len(ts) : Marked(ts)[i] = Append(ts[i], ",")
           /\ Ended(T, e) \subseteq Seq(Char)
<1>1. Len(ts) \in Nat /\ \A i \in 1..Len(ts) : ts[i] \in T  OBVIOUS
<1>2. \A x \in T : Append(x, ",") \in Ended(T, e)  BY DEF Ended
<1>3. \A x \in T : Append(x, ",") \in Seq(Char) /\ Append(x, e) \in Seq(Char)
  <2> TAKE x \in T
  <2>1. x \in Seq(Char)  OBVIOUS
  <2> QED  BY <2>1, CommaIsChar, MarkedText
<1>4. <<e>> \in Seq(Char)  OBVIOUS
<1>5. Ended(T, e) \subseteq Seq(Char)  BY <1>3, <1>4 DEF Ended
<1>6. Marked(ts) = [i \in 1..Len(ts) |-> Append(ts[i], ",")]  BY DEF Marked
<1> DEFINE m == Marked(ts)
<1>7. /\ DOMAIN m = 1..Len(ts) /\ m = [i \in DOMAIN m |-> m[i]]
      /\ \A i \in 1..Len(ts) : m[i] = Append(ts[i], ",")
  BY <1>6
<1>8. \A i \in 1..Len(ts) : m[i] \in Ended(T, e)  BY <1>1, <1>2, <1>7
<1> DEFINE E == Ended(T, e)
           n == Len(ts)
<1>a. n \in Nat /\ DOMAIN m = 1..n /\ \A i \in 1..n : m[i] \in E  BY <1>1, <1>7, <1>8
<1>b. m = [i \in DOMAIN m |-> m[i]]  BY <1>7
<1> HIDE DEF m, E, n
<1>9. m \in Seq(E) /\ Len(m) = n  BY <1>a, <1>b, FunctionIsSeq
<1> QED  BY <1>5, <1>7, <1>9 DEF m, E, n

LEMMA WholeTyped ==
    ASSUME NEW T, T \subseteq Seq(Char), NEW e \in Char, NEW ts \in Seq(T)
    PROVE  /\ Whole(ts, e) \in Seq(Ended(T, e))
           /\ Len(Whole(ts, e)) = IF ts = <<>> THEN 1 ELSE Len(ts)
           /\ ts = <<>> => Whole(ts, e)[1] = <<e>>
           /\ \A i \in 1..Len(ts) : Whole(ts, e)[i] = Append(ts[i], IF i = Len(ts) THEN e ELSE ",")
<1>1. Len(ts) \in Nat /\ \A i \in 1..Len(ts) : ts[i] \in T  OBVIOUS
<1>2. \A i \in 1..Len(ts) : Append(ts[i], IF i = Len(ts) THEN e ELSE ",") \in Ended(T, e)
  <2>1. \A x \in T : Append(x, ",") \in Ended(T, e) /\ Append(x, e) \in Ended(T, e)
    BY DEF Ended
  <2> QED  BY <1>1, <2>1
<1>3. <<e>> \in Ended(T, e)  BY DEF Ended
<1>4. CASE ts = <<>>
  <2>1. Whole(ts, e) = <<<<e>>>> /\ Len(ts) = 0  BY <1>4 DEF Whole
  <2> QED  BY <1>3, <1>4, <2>1
<1>5. CASE ts # <<>>
  <2>1. Whole(ts, e) = [i \in 1..Len(ts) |-> Append(ts[i], IF i = Len(ts) THEN e ELSE ",")]
    BY <1>5 DEF Whole
  <2> DEFINE E == Ended(T, e)
             n == Len(ts)
             last(i) == IF i = n THEN e ELSE ","
  <2>2. n \in Nat /\ \A i \in 1..n : Append(ts[i], last(i)) \in E  BY <1>1, <1>2
  <2>3. Whole(ts, e) = [i \in 1..n |-> Append(ts[i], last(i))]  BY <2>1
  <2> HIDE DEF E, n, last
  <2>4. /\ Whole(ts, e) \in Seq(E) /\ Len(Whole(ts, e)) = n
        /\ \A i \in 1..n : Whole(ts, e)[i] = Append(ts[i], last(i))
    BY <2>2, <2>3
  <2> QED  BY <1>5, <2>4 DEF E, n, last
<1> QED  BY <1>4, <1>5

LEMMA MarkedAppend ==
    ASSUME NEW ts \in Seq(Seq(Char)), NEW t \in Seq(Char)
    PROVE  Marked(Append(ts, t)) = Append(Marked(ts), Append(t, ","))
<1> DEFINE n == Len(ts)
           more == Append(ts, t)
           l == Append(t, ",")
<1>1. /\ more \in Seq(Seq(Char)) /\ Len(more) = n + 1 /\ more[n + 1] = t /\ n \in Nat
      /\ \A i \in 1..n : more[i] = ts[i]
  BY AppendProperties
<1>2. l \in Seq(Char)  BY CommaIsChar, MarkedText
<1>3. ASSUME NEW us \in Seq(Seq(Char))
      PROVE  /\ Marked(us) \in Seq(Seq(Char)) /\ Len(Marked(us)) = Len(us)
             /\ \A i \in 1..Len(us) : Marked(us)[i] = Append(us[i], ",")
  <2>1. \A i \in 1..Len(us) : Append(us[i], ",") \in Seq(Char)
    <3> TAKE i \in 1..Len(us)
    <3>1. us[i] \in Seq(Char)  OBVIOUS
    <3> QED  BY <3>1, CommaIsChar, MarkedText
  <2> DEFINE m == Marked(us)
  <2>2. /\ DOMAIN m = 1..Len(us) /\ m = [i \in DOMAIN m |-> m[i]]
        /\ \A i \in 1..Len(us) : m[i] = Append(us[i], ",")
    BY DEF Marked
  <2>a. Len(us) \in Nat  OBVIOUS
  <2> HIDE DEF m
  <2>3. \A i \in 1..Len(us) : m[i] \in Seq(Char)  BY <2>1, <2>2
  <2>4. m \in Seq(Seq(Char)) /\ Len(m) = Len(us)  BY <2>2, <2>3, <2>a, FunctionIsSeq
  <2> QED  BY <2>2, <2>4 DEF m
<1> HIDE DEF more, l
<1>4. /\ Append(Marked(ts), l) \in Seq(Seq(Char)) /\ Len(Append(Marked(ts), l)) = n + 1
      /\ Append(Marked(ts), l)[n + 1] = l
      /\ \A i \in 1..n : Append(Marked(ts), l)[i] = Marked(ts)[i]
  <2> DEFINE S == Seq(Char)
             m == Marked(ts)
  <2>1. ts \in Seq(S)  OBVIOUS
  <2>a. l \in S /\ m \in Seq(S) /\ Len(m) = n /\ n \in Nat  BY <1>1, <1>2, <1>3, <2>1
  <2> HIDE DEF S, m, n
  <2>2. /\ Append(m, l) \in Seq(S) /\ Len(Append(m, l)) = n + 1 /\ Append(m, l)[n + 1] = l
        /\ \A i \in 1..n : Append(m, l)[i] = m[i]
    BY <2>a, AppendProperties
  <2> QED  BY <2>2 DEF S, m, n
<1>5. Marked(more) \in Seq(Seq(Char)) /\ Len(Marked(more)) = n + 1  BY <1>1, <1>3
<1>6. ASSUME NEW i \in 1..(n + 1) PROVE Marked(more)[i] = Append(Marked(ts), l)[i]
  <2>1. Marked(more)[i] = Append(more[i], ",")  BY <1>1, <1>3
  <2>2. CASE i = n + 1  BY <1>1, <1>4, <2>1, <2>2 DEF l
  <2>3. CASE i # n + 1
    <3>1. i \in 1..n  BY <1>1, <2>3
    <3>2. Marked(ts)[i] = Append(ts[i], ",")  BY <1>3, <3>1
    <3> QED  BY <1>1, <1>4, <2>1, <3>1, <3>2
  <2> QED  BY <2>2, <2>3
<1>7. Marked(more) = Append(Marked(ts), l)  BY <1>4, <1>5, <1>6, SeqEqual
<1> QED  BY <1>7 DEF more, l

(* The texts with a ',' behind each, and the list that is ended by e.       *)
LEMMA MarkedIsText ==
    ASSUME NEW ts \in Seq(Seq(Char))
    PROVE  Separated(ts) \o Comma(Len(ts) + 1) = FlattenSeq(Marked(ts))
<1> DEFINE Right(us) == Separated(us) \o Comma(Len(us) + 1) = FlattenSeq(Marked(us))
           T == {us \in Seq(Seq(Char)) : Right(us)}
<1>1. Right(<<>>)
  <2>1. Len(<<>>) = 0 /\ Comma(0 + 1) = <<>>  BY DEF Comma
  <2>2. Marked(<<>>) = <<>>  BY DEF Marked
  <2>3. FlattenSeq(<<>>) = <<>>  BY DEF FlattenSeq
  <2>4. <<>> \o <<>> = <<>>  BY ConcatEmptySeq
  <2> QED  BY <2>1, <2>2, <2>3, <2>4, SeparatedEmpty
<1>2. ASSUME NEW u \in Seq(Seq(Char)), NEW x \in Seq(Char), Right(u)
      PROVE  Right(Append(u, x))
  <2> DEFINE s == Separated(u)
             c == Comma(Len(u) + 1)
             m == FlattenSeq(Marked(u))
  <2>1. Len(u) \in Nat /\ Len(Append(u, x)) = Len(u) + 1  OBVIOUS
  <2>2. Comma(Len(u) + 1 + 1) = <<",">>
    <3>1. Len(u) + 1 + 1 # 1  BY <2>1
    <3> QED  BY <3>1 DEF Comma
  <2>3. s \in Seq(Char) /\ c \in Seq(Char) /\ <<",">> \in Seq(Char) /\ Append(x, ",") \in Seq(Char)
    <3>1. s \in Seq(Char)  BY SeparatedTyped
    <3>2. c \in Seq(Char)  BY CommaTyped
    <3>3. <<",">> \in Seq(Char) /\ Append(x, ",") \in Seq(Char)  BY CommaIsChar, MarkedText
    <3> QED  BY <3>1, <3>2, <3>3
  <2>4. Separated(Append(u, x)) = s \o (c \o x)  BY SeparatedAppend
  <2>5. FlattenSeq(Marked(Append(u, x))) = m \o Append(x, ",")
    <3>1. Marked(Append(u, x)) = Append(Marked(u), Append(x, ","))  BY MarkedAppend
    <3>2. Marked(u) \in Seq(Seq(Char))
      <4>1. Seq(Char) \subseteq Seq(Char) /\ "," \in Char  BY CommaIsChar
      <4>2. Marked(u) \in Seq(Ended(Seq(Char), ",")) /\ Ended(Seq(Char), ",") \subseteq Seq(Char)
        BY <4>1, MarkedTyped
      <4> QED  BY <4>2, SeqOfSubset
    <3> QED  BY <2>3, <3>1, <3>2, FlattenAppend
  <2>6. m = s \o c  BY <1>2
  <2>7. Append(x, ",") = x \o <<",">>  BY CommaIsChar, MarkedText
  <2> HIDE DEF s, c, m
  <2>8. (s \o (c \o x)) \o <<",">> = (s \o c) \o (x \o <<",">>)
    <3>1. x \in Seq(Char) /\ c \o x \in Seq(Char) /\ s \o c \in Seq(Char)
      BY <2>3, ConcatProperties
    <3>a. s \in Seq(Char) /\ c \in Seq(Char)  BY <2>3
    <3>2. s \o (c \o x) = (s \o c) \o x  BY <3>1, <3>a, ConcatAssociative
    <3> DEFINE y == s \o c
               d == <<",">>
    <3>3. y \in Seq(Char) /\ d \in Seq(Char)  BY <2>3, <3>1
    <3> HIDE DEF y, d
    <3>4. (y \o x) \o d = y \o (x \o d)  BY <3>1, <3>3, ConcatAssociative
    <3> QED  BY <3>2, <3>4 DEF y, d
  <2>9. Comma(Len(Append(u, x)) + 1) = <<",">>
    <3>1. Len(Append(u, x)) + 1 = Len(u) + 1 + 1  BY <2>1
    <3> QED  BY <2>2, <3>1
  <2>10. Separated(Append(u, x)) \o <<",">> = FlattenSeq(Marked(Append(u, x)))
    BY <2>4, <2>5, <2>6, <2>7, <2>8
  <2> QED  BY <2>9, <2>10
<1>3. Seq(Seq(Char)) \subseteq T
  <2> DEFINE S == Seq(Char)
  <2>1. <<>> \in T  BY <1>1
  <2>2. ASSUME NEW u \in Seq(S), NEW x \in S, u \in T PROVE Append(u, x) \in T
    <3>1. Append(u, x) \in Seq(S)  BY AppendIsSeq
    <3>2. Right(Append(u, x))  BY <1>2, <2>2
    <3> QED  BY <3>1, <3>2
  <2> HIDE DEF T, S
  <2>3. Seq(S) \subseteq T  BY <2>1, <2>2, SeqInduction
  <2> QED  BY <2>3 DEF S
<1> QED  BY <1>3

(* A list that is ended, from its last text on. *)
LEMMA WholeAppend ==
    ASSUME NEW f \in Seq(Seq(Char)), NEW l \in Seq(Char), NEW e \in Char
    PROVE  Whole(Append(f, l), e) = Append(Marked(f), Append(l, e))
<1> DEFINE n == Len(f)
           ts == Append(f, l)
           x == Append(l, e)
           S == Seq(Char)
<1>1. /\ ts \in Seq(S) /\ Len(ts) = n + 1 /\ ts[n + 1] = l /\ n \in Nat /\ ts # <<>>
      /\ \A i \in 1..n : ts[i] = f[i]
  BY AppendProperties
<1>2. x \in S  BY MarkedText
<1>3. Ended(S, e) \subseteq S /\ Marked(f) \in Seq(Ended(S, e)) /\ Len(Marked(f)) = n
      /\ \A i \in 1..n : Marked(f)[i] = Append(f[i], ",")
  <2>1. S \subseteq Seq(Char) /\ f \in Seq(S)  OBVIOUS
  <2> QED  BY <2>1, MarkedTyped
<1>4. Whole(ts, e) \in Seq(Ended(S, e)) /\ Len(Whole(ts, e)) = n + 1
      /\ \A i \in 1..(n + 1) : Whole(ts, e)[i] = Append(ts[i], IF i = n + 1 THEN e ELSE ",")
  <2>1. S \subseteq Seq(Char) /\ ts \in Seq(S)  BY <1>1
  <2> HIDE DEF ts, S, x, n
  <2>2. /\ Whole(ts, e) \in Seq(Ended(S, e))
        /\ Len(Whole(ts, e)) = IF ts = <<>> THEN 1 ELSE Len(ts)
        /\ \A i \in 1..Len(ts) : Whole(ts, e)[i] = Append(ts[i], IF i = Len(ts) THEN e ELSE ",")
    BY <2>1, WholeTyped
  <2> QED  BY <1>1, <2>2
<1> DEFINE m == Marked(f)
           w == Whole(ts, e)
           E == Ended(S, e)
<1> HIDE DEF S, E, ts
<1>5. m \in Seq(S) /\ w \in Seq(S)  BY <1>3, <1>4, SeqOfSubset DEF E
<1> HIDE DEF m, w, x, n
<1>6. /\ Append(m, x) \in Seq(S) /\ Len(Append(m, x)) = n + 1 /\ Append(m, x)[n + 1] = x
      /\ \A i \in 1..n : Append(m, x)[i] = m[i]
  <2>1. m \in Seq(S) /\ x \in S /\ Len(m) = n  BY <1>2, <1>3, <1>5 DEF m
  <2> QED  BY <2>1, AppendProperties
<1>7. ASSUME NEW i \in 1..(n + 1) PROVE w[i] = Append(m, x)[i]
  <2>1. CASE i = n + 1  BY <1>1, <1>4, <1>6, <2>1 DEF x, w
  <2>2. CASE i # n + 1
    <3>1. i \in 1..n  BY <1>1, <2>2
    <3>2. w[i] = Append(ts[i], ",")  BY <1>4, <2>2 DEF w
    <3>3. m[i] = Append(f[i], ",")  BY <1>3, <3>1 DEF m
    <3> QED  BY <1>1, <1>6, <3>1, <3>2, <3>3
  <2> QED  BY <2>1, <2>2
<1>8. Len(w) = n + 1  BY <1>4 DEF w
<1>9. w = Append(m, x)  BY <1>5, <1>6, <1>7, <1>8, SeqEqual
<1> QED  BY <1>9 DEF w, m, ts, x

LEMMA WholeIsText ==
    ASSUME NEW ts \in Seq(Seq(Char)), NEW e \in Char
    PROVE  Separated(ts) \o <<e>> = FlattenSeq(Whole(ts, e))
<1>1. <<e>> \in Seq(Char)  OBVIOUS
<1>2. CASE ts = <<>>
  <2>1. Whole(ts, e) = <<<<e>>>>  BY <1>2 DEF Whole
  <2>2. <<<<e>>>> = Append(<<>>, <<e>>)  OBVIOUS
  <2>3. FlattenSeq(<<>>) = <<>>  BY DEF FlattenSeq
  <2>4. <<>> \in Seq(Seq(Char))  OBVIOUS
  <2>5. FlattenSeq(Append(<<>>, <<e>>)) = FlattenSeq(<<>>) \o <<e>>
    BY <1>1, <2>4, FlattenAppend
  <2> QED  BY <1>2, <2>1, <2>2, <2>3, <2>5, SeparatedEmpty
<1>3. CASE ts # <<>>
  <2>1. PICK u \in Seq(Seq(Char)), x \in Seq(Char) : ts = Append(u, x)
    BY <1>3, SequenceEmptyOrAppend
  <2> DEFINE s == Separated(u)
             c == Comma(Len(u) + 1)
             m == FlattenSeq(Marked(u))
  <2>2. s \in Seq(Char) /\ c \in Seq(Char)  BY SeparatedTyped, CommaTyped
  <2>3. Separated(ts) = s \o (c \o x)  BY <2>1, SeparatedAppend
  <2>4. m = s \o c  BY MarkedIsText
  <2>5. Append(x, e) = x \o <<e>> /\ Append(x, e) \in Seq(Char)  BY MarkedText
  <2>6. FlattenSeq(Whole(ts, e)) = m \o Append(x, e)
    <3>1. Whole(ts, e) = Append(Marked(u), Append(x, e))  BY <2>1, WholeAppend
    <3>2. Marked(u) \in Seq(Seq(Char))
      <4>1. Seq(Char) \subseteq Seq(Char) /\ "," \in Char  BY CommaIsChar
      <4>2. Marked(u) \in Seq(Ended(Seq(Char), ",")) /\ Ended(Seq(Char), ",") \subseteq Seq(Char)
        BY <4>1, MarkedTyped
      <4> QED  BY <4>2, SeqOfSubset
    <3> QED  BY <2>5, <3>1, <3>2, FlattenAppend
  <2> DEFINE d == <<e>>
  <2> HIDE DEF s, c, m, d
  <2>7. (s \o (c \o x)) \o d = (s \o c) \o (x \o d)
    <3>1. x \in Seq(Char) /\ c \o x \in Seq(Char) /\ s \o c \in Seq(Char) /\ d \in Seq(Char)
      BY <1>1, <2>1, <2>2, ConcatProperties DEF d
    <3>a. s \in Seq(Char) /\ c \in Seq(Char)  BY <2>2
    <3>2. s \o (c \o x) = (s \o c) \o x  BY <3>1, <3>a, ConcatAssociative
    <3> DEFINE y == s \o c
    <3>3. y \in Seq(Char)  BY <3>1
    <3> HIDE DEF y
    <3>b. x \in Seq(Char) /\ d \in Seq(Char)  BY <3>1
    <3>4. (y \o x) \o d = y \o (x \o d)  BY <3>3, <3>b, ConcatAssociative
    <3> QED  BY <3>2, <3>4 DEF y
  <2> QED  BY <2>3, <2>4, <2>5, <2>6, <2>7 DEF d
<1> QED  BY <1>2, <1>3

(* Arrays from their units. *)
LEMMA BeforeIsMarked ==
    ASSUME NEW ts \in Seq(Seq(Char))
    PROVE  Before(ts) = <<"[">> \o FlattenSeq(Marked(ts))
<1> DEFINE o == <<"[">>
           s == Separated(ts)
           c == Comma(Len(ts) + 1)
<1>1. Before(ts) = (o \o s) \o c /\ s \o c = FlattenSeq(Marked(ts))
  BY MarkedIsText DEF Before, Opened
<1>2. o \in Seq(Char) /\ s \in Seq(Char) /\ c \in Seq(Char)
  BY TextChars, SeparatedTyped, CommaTyped
<1> HIDE DEF o, s, c
<1>3. (o \o s) \o c = o \o (s \o c)  BY <1>2, ConcatAssociative
<1> QED  BY <1>1, <1>3 DEF o

LEMMA ListedIsWhole ==
    ASSUME NEW ts \in Seq(Seq(Char))
    PROVE  Listed(ts) = <<"[">> \o FlattenSeq(Whole(ts, "]"))
<1> DEFINE o == <<"[">>
           s == Separated(ts)
           c == <<"]">>
<1>1. Listed(ts) = (o \o s) \o c /\ s \o c = FlattenSeq(Whole(ts, "]"))
  BY WholeIsText, CommaIsChar DEF Listed, Opened
<1>2. o \in Seq(Char) /\ s \in Seq(Char) /\ c \in Seq(Char)
  BY TextChars, SeparatedTyped, CommaIsChar, MarkedText
<1> HIDE DEF o, s, c
<1>3. (o \o s) \o c = o \o (s \o c)  BY <1>2, ConcatAssociative
<1> QED  BY <1>1, <1>3 DEF o

(* The marks that end a list, and a list that one of them ends. *)
Closing == {"]", "}"}
EndsWhole(T, ws) == ws # <<>> /\ \A x \in T : ws[Len(ws)] # Append(x, ",")

LEMMA ClosingIsMark == \A e \in Closing : e \in Char /\ e \in Mark /\ e # ","
<1>1. \A e \in Closing : e \in Mark /\ e # ","  BY DEF Closing, Mark
<1> QED  BY <1>1 DEF Char

(* The beginning of a list that goes on as r, and all of a list whose last  *)
(* unit ends differently: the second is the longer one, begins with the     *)
(* texts of the first, and has a unit that goes on as r does.               *)
LEMMA BegunAgrees ==
    ASSUME NEW T, T \subseteq Seq(Char), NEW e \in Char, Apart(Ended(T, e)),
           NEW us \in Seq(T), NEW ws \in Seq(Ended(T, e)), EndsWhole(T, ws),
           NEW r \in Seq(Char), NEW t \in Seq(Char),
           Agrees(FlattenSeq(Marked(us)) \o r, FlattenSeq(ws) \o t)
    PROVE  /\ Len(us) < Len(ws)
           /\ \A i \in 1..Len(us) : ws[i] = Append(us[i], ",")
           /\ Agrees(r, ws[Len(us) + 1])
<1> DEFINE U == Ended(T, e)
           m == Marked(us)
<1>1. /\ m \in Seq(U) /\ Len(m) = Len(us) /\ U \subseteq Seq(Char)
      /\ \A i \in 1..Len(us) : m[i] = Append(us[i], ",")
  BY MarkedTyped
<1>2. Apart(U) /\ ws \in Seq(U) /\ Agrees(FlattenSeq(m) \o r, FlattenSeq(ws) \o t)  OBVIOUS
<1>3. Len(us) \in Nat /\ Len(ws) \in Nat /\ \A i \in 1..Len(us) : us[i] \in T  OBVIOUS
<1>a. Len(ws) # 0  BY <1>2, EmptySeq DEF EndsWhole
<1>b. \A x \in T : ws[Len(ws)] # Append(x, ",")  BY DEF EndsWhole
<1>c. Len(m) = Len(us)  BY <1>1
<1> HIDE DEF U, m
<1>4. /\ \A i \in 1..Len(m) : i <= Len(ws) => m[i] = ws[i]
      /\ Len(m) < Len(ws) => Agrees(r, ws[Len(m) + 1])
  BY <1>1, <1>2, UnitsAgree
<1>5. Len(us) < Len(ws)
  <2> SUFFICES ASSUME Len(ws) <= Len(us) PROVE FALSE
    BY <1>3
  <2>1. Len(ws) \in 1..Len(us)  BY <1>3, <1>a
  <2>2. m[Len(ws)] = ws[Len(ws)]  BY <1>3, <1>4, <1>c, <2>1
  <2>3. m[Len(ws)] = Append(us[Len(ws)], ",") /\ us[Len(ws)] \in T  BY <1>1, <1>3, <2>1
  <2> QED  BY <1>b, <2>2, <2>3
<1>6. \A i \in 1..Len(us) : ws[i] = m[i]  BY <1>3, <1>4, <1>5, <1>c
<1>7. Agrees(r, ws[Len(us) + 1])  BY <1>4, <1>5, <1>c
<1> QED  BY <1>1, <1>5, <1>6, <1>7

(* How the units of a whole list end. *)
LEMMA WholeEnds ==
    ASSUME NEW T, T \subseteq Seq(Char), <<>> \notin T, NEW e \in Closing, NEW ts \in Seq(T)
    PROVE  EndsWhole(T, Whole(ts, e))
<1> DEFINE w == Whole(ts, e)
<1>e. e \in Char  BY ClosingIsMark
<1>1. Len(w) = (IF ts = <<>> THEN 1 ELSE Len(ts)) /\ w \in Seq(Ended(T, e))
  BY <1>e, WholeTyped
<1>b. /\ ts = <<>> => w[1] = <<e>>
      /\ \A i \in 1..Len(ts) : w[i] = Append(ts[i], IF i = Len(ts) THEN e ELSE ",")
  BY <1>e, WholeTyped
<1>c. ts # <<>> => w[Len(ts)] = Append(ts[Len(ts)], e) /\ ts[Len(ts)] \in T
  <2>1. ts # <<>> => Len(ts) \in 1..Len(ts) /\ ts[Len(ts)] \in T  BY EmptySeq
  <2> QED  BY <1>b, <2>1
<1>2. Len(ts) \in Nat /\ (ts # <<>> => Len(ts) # 0) /\ \A i \in 1..Len(ts) : ts[i] \in T
  BY EmptySeq
<1>a. e \in Char /\ e # ","  BY ClosingIsMark
<1> HIDE DEF w
<1>3. w # <<>>  BY <1>1, <1>2, EmptySeq
<1>4. ASSUME NEW x \in T PROVE w[Len(w)] # Append(x, ",")
  <2>0. x \in Seq(Char) /\ x # <<>>  OBVIOUS
  <2>a. \A y \in Seq(Char) : Append(y, e) # Append(x, ",")
    <3> TAKE y \in Seq(Char)
    <3> DEFINE c == ","
    <3>1. c \in Char /\ e \in Char /\ c # e /\ x \in Seq(Char)  BY <1>a, <2>0, CommaIsChar
    <3> HIDE DEF c
    <3>2. Append(y, e) # Append(x, c)  BY <3>1, AppendInjective
    <3> QED  BY <3>2 DEF c
  <2>1. CASE ts = <<>>
    <3>1. <<e>> = Append(<<>>, e) /\ <<>> \in Seq(Char)  OBVIOUS
    <3>a. Len(w) = 1  BY <1>1, <2>1
    <3>2. w[Len(w)] = Append(<<>>, e)  BY <1>b, <2>1, <3>1, <3>a
    <3> QED  BY <2>a, <3>1, <3>2
  <2>2. CASE ts # <<>>
    <3>a. Len(w) = Len(ts)  BY <1>1, <2>2
    <3>1. w[Len(w)] = Append(ts[Len(ts)], e)  BY <1>c, <2>2, <3>a
    <3>2. ts[Len(ts)] \in Seq(Char)  BY <1>c, <2>2
    <3> QED  BY <2>a, <3>1, <3>2
  <2> QED  BY <2>1, <2>2
<1> QED  BY <1>3, <1>4 DEF w, EndsWhole

(* A list is read from its text in one way. *)
LEMMA ListApart ==
    ASSUME NEW T, T \subseteq Seq(Char), <<>> \notin T, NEW e \in Closing,
           Apart(Ended(T, e)), NEW us \in Seq(T), NEW ts \in Seq(T),
           NEW r \in Seq(Char), NEW t \in Seq(Char),
           Agrees(FlattenSeq(Whole(us, e)) \o r, FlattenSeq(Whole(ts, e)) \o t)
    PROVE  us = ts
<1> DEFINE U == Ended(T, e)
           m == Whole(us, e)
           w == Whole(ts, e)
           unit(vs, i) == Append(vs[i], IF i = Len(vs) THEN e ELSE ",")
<1>e. e \in Char /\ "," \in Char /\ e # ","  BY CommaIsChar, ClosingIsMark
<1>0. e \in Char  BY ClosingIsMark
<1>1. m \in Seq(U) /\ Len(m) = (IF us = <<>> THEN 1 ELSE Len(us))  BY <1>0, WholeTyped
<1>2. w \in Seq(U) /\ Len(w) = (IF ts = <<>> THEN 1 ELSE Len(ts))  BY <1>0, WholeTyped
<1>a. /\ us = <<>> => m[1] = <<e>>
      /\ \A i \in 1..Len(us) : m[i] = unit(us, i)
  BY <1>0, WholeTyped
<1>b. /\ ts = <<>> => w[1] = <<e>>
      /\ \A i \in 1..Len(ts) : w[i] = unit(ts, i)
  BY <1>0, WholeTyped
<1>3. U \subseteq Seq(Char)  BY <1>0, MarkedTyped
<1>4. Apart(U) /\ Agrees(FlattenSeq(m) \o r, FlattenSeq(w) \o t)
  OBVIOUS
<1>5. Len(us) \in Nat /\ (us # <<>> => Len(us) # 0)  BY EmptySeq
<1>6. Len(ts) \in Nat /\ (ts # <<>> => Len(ts) # 0)  BY EmptySeq
<1> HIDE DEF U, m, w
<1>c. m \in Seq(U) /\ w \in Seq(U) /\ Len(m) \in Nat /\ Len(w) \in Nat  BY <1>1, <1>2
<1>7. \A i \in 1..Len(m) : i <= Len(w) => m[i] = w[i]
  <2>1. r \in Seq(Char) /\ t \in Seq(Char)  OBVIOUS
  <2>2. /\ \A i \in 1..Len(m) : i <= Len(w) => m[i] = w[i]
        /\ Len(m) < Len(w) => Agrees(r, w[Len(m) + 1])
    BY <1>3, <1>4, <1>c, <2>1, UnitsAgree
  <2> QED  BY <2>2
(* What a unit of one list says of a unit of another. *)
<1>8. ASSUME NEW vs \in Seq(T), NEW v \in Seq(T), NEW i \in 1..Len(vs), NEW j \in 1..Len(v)
      PROVE  /\ unit(vs, i) # <<e>>
             /\ unit(vs, i) = unit(v, j) => vs[i] = v[j] /\ (i = Len(vs) <=> j = Len(v))
  <2>1. vs[i] \in Seq(Char) /\ vs[i] # <<>> /\ v[j] \in Seq(Char)  OBVIOUS
  <2>2. <<e>> = Append(<<>>, e) /\ <<>> \in Seq(Char)  OBVIOUS
  <2> DEFINE x == vs[i]
             y == v[j]
             c == IF i = Len(vs) THEN e ELSE ","
             d == IF j = Len(v) THEN e ELSE ","
  <2>3. x \in Seq(Char) /\ y \in Seq(Char) /\ c \in Char /\ d \in Char /\ x # <<>>
    BY <1>e, <2>1
  <2>4. unit(vs, i) = Append(x, c) /\ unit(v, j) = Append(y, d)  OBVIOUS
  <2>5. c = d => (i = Len(vs) <=> j = Len(v))  BY <1>e
  <2> HIDE DEF x, y, c, d, unit
  <2> DEFINE z == <<>>
  <2>a. z \in Seq(Char) /\ x # z  BY <2>3
  <2>b. Append(z, e) = <<e>>  OBVIOUS
  <2> HIDE DEF z
  <2>6. Append(x, c) # Append(z, e)  BY <1>0, <2>3, <2>a, AppendInjective
  <2>7. Append(x, c) = Append(y, d) => x = y /\ c = d  BY <2>3, AppendInjective
  <2>8. x = vs[i] /\ y = v[j]  BY DEF x, y
  <2> QED  BY <2>4, <2>5, <2>6, <2>7, <2>8, <2>b
<1> HIDE DEF unit
<1>10. Len(us) = Len(ts)
  <2>1. CASE us = <<>> /\ ts = <<>>  BY <2>1
  <2>2. CASE us = <<>> /\ ts # <<>>
    <3>1. 1 \in 1..Len(m) /\ 1 <= Len(w) /\ 1 \in 1..Len(ts)  BY <1>1, <1>2, <1>6, <2>2
    <3>2. <<e>> = unit(ts, 1)  BY <1>a, <1>b, <1>7, <2>2, <3>1
    <3> QED  BY <1>8, <3>1, <3>2
  <2>3. CASE us # <<>> /\ ts = <<>>
    <3>1. 1 \in 1..Len(m) /\ 1 <= Len(w) /\ 1 \in 1..Len(us)  BY <1>1, <1>2, <1>5, <2>3
    <3>2. <<e>> = unit(us, 1)  BY <1>a, <1>b, <1>7, <2>3, <3>1
    <3> QED  BY <1>8, <3>1, <3>2
  <2>4. CASE us # <<>> /\ ts # <<>>
    <3>1. Len(m) = Len(us) /\ Len(w) = Len(ts)  BY <1>1, <1>2, <2>4
    <3> DEFINE n == IF Len(us) < Len(ts) THEN Len(us) ELSE Len(ts)
    <3>2. n \in 1..Len(us) /\ n \in 1..Len(ts) /\ n <= Len(w) /\ n \in 1..Len(m)
      BY <1>5, <1>6, <2>4, <3>1
    <3>3. n = Len(us) \/ n = Len(ts)  OBVIOUS
    <3> HIDE DEF n
    <3>4. unit(us, n) = unit(ts, n)  BY <1>a, <1>b, <1>7, <3>2
    <3> QED  BY <1>8, <3>2, <3>3, <3>4
  <2> QED  BY <2>1, <2>2, <2>3, <2>4
<1>11. ASSUME NEW i \in 1..Len(us) PROVE us[i] = ts[i]
  <2>1. us # <<>> /\ ts # <<>> /\ i \in 1..Len(ts)  BY <1>5, <1>6, <1>10, EmptySeq
  <2>2. i \in 1..Len(m) /\ i <= Len(w)  BY <1>1, <1>2, <1>5, <1>6, <2>1
  <2>3. unit(us, i) = unit(ts, i)  BY <1>a, <1>b, <1>7, <2>1, <2>2
  <2> QED  BY <1>8, <2>1, <2>3
<1> QED  BY <1>10, <1>11, SeqEqual

(* What goes on where the beginning of a list does, in a whole list. *)
LEMMA ListGoesOn ==
    ASSUME NEW T, T \subseteq Seq(Char), <<>> \notin T, NEW e \in Closing,
           Apart(Ended(T, e)), NEW us \in Seq(T), NEW ts \in Seq(T),
           NEW r \in Seq(Char), NEW t \in Seq(Char),
           Agrees(FlattenSeq(Marked(us)) \o r, FlattenSeq(Whole(ts, e)) \o t)
    PROVE  \/ us = <<>> /\ ts = <<>> /\ Agrees(r, <<e>>)
           \/ /\ Len(us) < Len(ts)
              /\ \A i \in 1..Len(us) : us[i] = ts[i]
              /\ \E c \in {",", e} : Agrees(r, Append(ts[Len(us) + 1], c))
<1> DEFINE w == Whole(ts, e)
           n == Len(us)
           unit(i) == Append(ts[i], IF i = Len(ts) THEN e ELSE ",")
<1>1. e \in Char  BY ClosingIsMark
<1>2. w \in Seq(Ended(T, e)) /\ EndsWhole(T, w)  BY <1>1, WholeTyped, WholeEnds
<1>3. Len(w) = (IF ts = <<>> THEN 1 ELSE Len(ts))  BY <1>1, WholeTyped
<1>4. ts = <<>> => w[1] = <<e>>  BY <1>1, WholeTyped
<1>5. \A i \in 1..Len(ts) : w[i] = unit(i)  BY <1>1, WholeTyped
<1>6. Agrees(FlattenSeq(Marked(us)) \o r, FlattenSeq(w) \o t)  OBVIOUS
<1> HIDE DEF w
<1>7. /\ Len(us) < Len(w)
      /\ \A i \in 1..Len(us) : w[i] = Append(us[i], ",")
      /\ Agrees(r, w[Len(us) + 1])
  BY <1>1, <1>2, <1>6, BegunAgrees
<1>8. n \in Nat /\ Len(ts) \in Nat /\ (us # <<>> => n # 0)  BY EmptySeq
<1>9. CASE ts = <<>>
  <2>1. n < 1  BY <1>3, <1>7, <1>9
  <2>2. n = 0 /\ us = <<>>  BY <1>8, <2>1
  <2> QED  BY <1>4, <1>7, <1>9, <2>2
<1>10. CASE ts # <<>>
  <2>1. n < Len(ts)  BY <1>3, <1>7, <1>10
  <2>2. ASSUME NEW i \in 1..n PROVE us[i] = ts[i]
    <3>1. i \in 1..Len(ts) /\ i # Len(ts) /\ us[i] \in T /\ ts[i] \in T  BY <1>8, <2>1
    <3>2. w[i] = Append(us[i], ",")  BY <1>7
    <3>3. w[i] = unit(i)  BY <1>5, <3>1
    <3>4. unit(i) = Append(ts[i], ",")  BY <3>1
    <3> DEFINE x == us[i]
               y == ts[i]
               c == ","
    <3>5. x \in Seq(Char) /\ y \in Seq(Char) /\ c \in Char  BY <3>1, CommaIsChar
    <3>6. Append(x, c) = Append(y, c)  BY <3>2, <3>3, <3>4
    <3> HIDE DEF x, y, c
    <3>7. x = y  BY <3>5, <3>6, AppendInjective
    <3> QED  BY <3>7 DEF x, y
  <2>3. n + 1 \in 1..Len(ts)  BY <1>8, <2>1
  <2> DEFINE c == IF n + 1 = Len(ts) THEN e ELSE ","
  <2>4. c \in {",", e} /\ w[n + 1] = Append(ts[n + 1], c)  BY <1>5, <2>3
  <2> HIDE DEF c
  <2>5. Agrees(r, Append(ts[n + 1], c))  BY <1>7, <2>4
  <2> QED  BY <2>1, <2>2, <2>4, <2>5
<1> QED  BY <1>9, <1>10

(* The same of arrays, from their '[' on. *)
LEMMA BracketsGoOn ==
    ASSUME NEW T, T \subseteq Seq(Char), <<>> \notin T, Apart(Ended(T, "]")),
           NEW us \in Seq(T), NEW ts \in Seq(T), NEW r \in Seq(Char), NEW t \in Seq(Char),
           Agrees(Before(us) \o r, Listed(ts) \o t)
    PROVE  \/ us = <<>> /\ ts = <<>> /\ Agrees(r, <<"]">>)
           \/ /\ Len(us) < Len(ts)
              /\ \A i \in 1..Len(us) : us[i] = ts[i]
              /\ \E c \in {",", "]"} : Agrees(r, Append(ts[Len(us) + 1], c))
<1> DEFINE e == "]"
           o == <<"[">>
           m == FlattenSeq(Marked(us))
           w == FlattenSeq(Whole(ts, e))
<1>1. us \in Seq(Seq(Char)) /\ ts \in Seq(Seq(Char))  BY SeqOfSubset
<1>2. e \in Closing /\ e \in Char  BY ClosingIsMark DEF Closing
<1>3. Before(us) = o \o m /\ Listed(ts) = o \o w  BY <1>1, BeforeIsMarked, ListedIsWhole
<1>4. o \in Seq(Char)  BY TextChars
<1>5. m \in Seq(Char)
  <2>1. Marked(us) \in Seq(Ended(T, e)) /\ Ended(T, e) \subseteq Seq(Char)
    BY <1>2, MarkedTyped
  <2> QED  BY <2>1, SeqOfSubset, FlattenTyped
<1>6. w \in Seq(Char)
  <2>1. Whole(ts, e) \in Seq(Ended(T, e)) /\ Ended(T, e) \subseteq Seq(Char)
    BY <1>2, WholeTyped, MarkedTyped
  <2> QED  BY <2>1, SeqOfSubset, FlattenTyped
<1>7. Agrees((o \o m) \o r, (o \o w) \o t)  BY <1>3
<1>8. Agrees(m \o r, w \o t)
  <2> HIDE DEF o, m, w
  <2> QED  BY <1>4, <1>5, <1>6, <1>7, AgreesRests
<1>9. Apart(Ended(T, e)) /\ Agrees(FlattenSeq(Marked(us)) \o r, FlattenSeq(Whole(ts, e)) \o t)
  BY <1>8
<1> HIDE DEF e
<1>10. \/ us = <<>> /\ ts = <<>> /\ Agrees(r, <<e>>)
       \/ /\ Len(us) < Len(ts)
          /\ \A i \in 1..Len(us) : us[i] = ts[i]
          /\ \E c \in {",", e} : Agrees(r, Append(ts[Len(us) + 1], c))
  BY <1>2, <1>9, ListGoesOn
<1> QED  BY <1>10 DEF e

(* An array is read from its text in one way. *)
LEMMA BracketsApart ==
    ASSUME NEW T, T \subseteq Seq(Char), <<>> \notin T, Apart(Ended(T, "]")),
           NEW us \in Seq(T), NEW ts \in Seq(T), NEW r \in Seq(Char), NEW t \in Seq(Char),
           Agrees(Listed(us) \o r, Listed(ts) \o t)
    PROVE  us = ts
<1> DEFINE e == "]"
           o == <<"[">>
           m == FlattenSeq(Whole(us, e))
           w == FlattenSeq(Whole(ts, e))
<1>1. us \in Seq(Seq(Char)) /\ ts \in Seq(Seq(Char))  BY SeqOfSubset
<1>2. e \in Closing /\ e \in Char  BY ClosingIsMark DEF Closing
<1>3. Listed(us) = o \o m /\ Listed(ts) = o \o w  BY <1>1, ListedIsWhole
<1>4. o \in Seq(Char)  BY TextChars
<1>5. m \in Seq(Char) /\ w \in Seq(Char)
  <2>1. /\ Whole(us, e) \in Seq(Ended(T, e)) /\ Whole(ts, e) \in Seq(Ended(T, e))
        /\ Ended(T, e) \subseteq Seq(Char)
    BY <1>2, WholeTyped, MarkedTyped
  <2> QED  BY <2>1, SeqOfSubset, FlattenTyped
<1>7. Agrees((o \o m) \o r, (o \o w) \o t)  BY <1>3
<1>8. Agrees(m \o r, w \o t)
  <2> HIDE DEF o, m, w
  <2> QED  BY <1>4, <1>5, <1>7, AgreesRests
<1>9. Apart(Ended(T, e)) /\ Agrees(FlattenSeq(Whole(us, e)) \o r, FlattenSeq(Whole(ts, e)) \o t)
  BY <1>8
<1> HIDE DEF e
<1> QED  BY <1>2, <1>9, ListApart
----------------------------------------------------------------------------
(* The values that items can be, and the texts of them.                     *)
Plain == Char \ {Quote, Nul}

Item(kind) == IF kind = "string" THEN Seq(Plain) ELSE Seq(Digit) \ {<<>>}

TextsOf(kind) == {TokenText(kind, v) : v \in Item(kind)}

LEMMA CharsApart ==
    /\ \A c \in Digit : c \in Char /\ c \notin Mark /\ c # Quote /\ c # Blank /\ c # Nul
    /\ \A c \in Mark : c \in Char /\ c \notin Digit /\ c # Quote /\ c # Blank /\ c # Nul
    /\ Quote \in Char /\ Nul \in Char /\ Quote \notin Digit /\ Nul \notin Digit /\ Quote # Nul
    /\ Blank \in Char /\ Blank # Quote /\ Blank # Nul /\ Blank \notin Digit
    /\ Plain \subseteq Char /\ Quote \notin Plain /\ Nul \notin Plain
    /\ Unread \notin Char /\ EndOfChunk \notin Char /\ Unread # EndOfChunk
<1>1. \A c \in Digit : c \notin Mark /\ c # Quote /\ c # Blank /\ c # Nul  BY CharAssumption
<1>2. \A c \in Mark : c # Quote /\ c # Blank /\ c # Nul  BY DEF Mark, Quote, Blank, Nul
<1>3. Quote # Nul /\ Blank # Quote /\ Blank # Nul /\ Unread # EndOfChunk
  BY DEF Quote, Blank, Nul, Unread, EndOfChunk
<1>4. \A c \in {Unread, EndOfChunk} : c \notin Mark /\ c # Quote /\ c # Blank /\ c # Nul
  BY DEF Mark, Quote, Blank, Nul, Unread, EndOfChunk
<1>5. \A c \in {Unread, EndOfChunk} : c \notin Letter /\ c \notin Digit  BY CharAssumption
<1> QED  BY <1>1, <1>2, <1>3, <1>4, <1>5 DEF Char, Plain

LEMMA Quoted ==
    ASSUME NEW v \in Seq(Char), NEW r \in Seq(Char)
    PROVE  /\ TokenText("string", v) \o r = <<Quote>> \o (v \o (<<Quote>> \o r))
           /\ <<Quote>> \o r \in Seq(Char) /\ <<Quote>> \o r # <<>> /\ (<<Quote>> \o r)[1] = Quote
<1> DEFINE q == <<Quote>>
<1>1. q \in Seq(Char)  BY TextChars
<1>4. q \o r \in Seq(Char) /\ q \o r # <<>> /\ (q \o r)[1] = Quote
  BY CharsApart, FirstComes
<1>2. TokenText("string", v) = (q \o v) \o q  BY DEF TokenText
<1> HIDE DEF q
<1>3. q \o (v \o (q \o r)) = ((q \o v) \o q) \o r  BY <1>1, TextsRegroup
<1> QED  BY <1>2, <1>3, <1>4 DEF q

LEMMA ItemTyped ==
    ASSUME NEW kind \in Scalar, NEW v \in Item(kind)
    PROVE  /\ v \in Seq(Char) /\ TokenText(kind, v) \in Seq(Char)
           /\ TokenText(kind, v) # <<>> /\ TokenText(kind, v)[1] \notin Mark
           /\ kind = "string" => TokenText(kind, v)[1] = Quote
           /\ kind = "number" => TokenText(kind, v) = v /\ v[1] \in Digit /\ v # <<>>
<1>1. CASE kind = "string"
  <2>1. v \in Seq(Plain)  BY <1>1 DEF Item
  <2>2. v \in Seq(Char)  BY <2>1, SeqOfSubset, CharsApart
  <2> DEFINE z == <<>>
             q == <<Quote>>
             p == TokenText("string", v)
  <2>3. z \in Seq(Char) /\ q \in Seq(Char)  BY TextChars, EmptyIsSeq
  <2>4. p \in Seq(Char)  BY <2>2, TokenTyped
  <2>5. p \o z = p  BY <2>4, ConcatEmptySeq
  <2>6. p \o z = q \o (v \o (q \o z)) /\ q \o z \in Seq(Char)  BY <2>2, <2>3, Quoted
  <2> DEFINE s == v \o (q \o z)
  <2> HIDE DEF z, p
  <2>7. s \in Seq(Char)
    <3> HIDE DEF q
    <3> QED  BY <2>2, <2>6, ConcatProperties
  <2>8. p = q \o s  BY <2>5, <2>6
  <2> HIDE DEF s
  <2>9. q \o s # <<>> /\ (q \o s)[1] = Quote  BY <2>7, CharsApart, FirstComes
  <2>10. p[1] = Quote /\ p # <<>>  BY <2>8, <2>9
  <2>11. Quote \notin Mark  BY CharsApart
  <2> QED  BY <1>1, <2>2, <2>4, <2>10, <2>11 DEF p
<1>2. CASE kind = "number"
  <2>1. v \in Seq(Digit) /\ v # <<>> /\ TokenText(kind, v) = v  BY <1>2 DEF Item, TokenText
  <2>2. v \in Seq(Char)  BY <2>1, SeqOfSubset, CharsApart
  <2>3. v[1] \in Digit  BY <2>1
  <2> QED  BY <1>2, <2>1, <2>2, <2>3, CharsApart
<1> QED  BY <1>1, <1>2 DEF Scalar

(* A value is read from its text in one way, if what follows a number does  *)
(* not go on with it.                                                       *)
LEMMA TokenApart ==
    ASSUME NEW kind \in Scalar, NEW v \in Item(kind), NEW w \in Item(kind),
           NEW r \in Seq(Char), NEW t \in Seq(Char),
           kind = "number" => r # <<>> /\ t # <<>> /\ r[1] \notin Digit /\ t[1] \notin Digit,
           Agrees(TokenText(kind, v) \o r, TokenText(kind, w) \o t)
    PROVE  v = w
<1>1. CASE kind = "string"
  <2>1. v \in Seq(Plain) /\ w \in Seq(Plain)  BY <1>1 DEF Item
  <2>2. v \in Seq(Char) /\ w \in Seq(Char)  BY <2>1, SeqOfSubset, CharsApart
  <2> DEFINE q == <<Quote>>
             x == q \o r
             y == q \o t
  <2>3. /\ TokenText("string", v) \o r = q \o (v \o x)
        /\ x \in Seq(Char) /\ x # <<>> /\ x[1] = Quote
    BY <2>2, Quoted
  <2>4. /\ TokenText("string", w) \o t = q \o (w \o y)
        /\ y \in Seq(Char) /\ y # <<>> /\ y[1] = Quote
    BY <2>2, Quoted
  <2>5. Agrees(q \o (v \o x), q \o (w \o y))  BY <1>1, <2>3, <2>4
  <2>6. q \in Seq(Char)  BY TextChars
  <2> HIDE DEF q, x, y
  <2>7. v \o x \in Seq(Char) /\ w \o y \in Seq(Char)  BY <2>2, <2>3, <2>4, ConcatProperties
  <2>8. Agrees(v \o x, w \o y)  BY <2>5, <2>6, <2>7, AgreesRest
  <2>9. \A i \in 1..Len(v) : v[i] \in Plain  BY <2>1
  <2>10. \A i \in 1..Len(w) : w[i] \in Plain  BY <2>1
  <2>11. x[1] \notin Plain /\ y[1] \notin Plain  BY <2>3, <2>4, CharsApart
  <2>12. x \in Seq(Char) /\ y \in Seq(Char) /\ x # <<>> /\ y # <<>>  BY <2>3, <2>4
  <2> QED  BY <2>2, <2>8, <2>9, <2>10, <2>11, <2>12, StopApart
<1>2. CASE kind = "number"
  <2>1. v \in Seq(Digit) /\ w \in Seq(Digit)  BY <1>2 DEF Item
  <2>2. v \in Seq(Char) /\ w \in Seq(Char)  BY <2>1, SeqOfSubset, CharsApart
  <2>3. Agrees(v \o r, w \o t)  BY <1>2 DEF TokenText
  <2>4. \A i \in 1..Len(v) : v[i] \in Digit  BY <2>1
  <2>5. \A i \in 1..Len(w) : w[i] \in Digit  BY <2>1
  <2>6. r # <<>> /\ t # <<>> /\ r[1] \notin Digit /\ t[1] \notin Digit  BY <1>2
  <2> QED  BY <2>2, <2>3, <2>4, <2>5, <2>6, StopApart
<1> QED  BY <1>1, <1>2 DEF Scalar

(* Texts that a list may hold: they do not begin with a mark that ends it,  *)
(* and with a mark behind them none begins another.                         *)
Listable(T) ==
    /\ T \subseteq Seq(Char)
    /\ \A x \in T : x # <<>> /\ x[1] \notin Closing
    /\ \A x, y \in T : \A c, d \in Mark : Agrees(x \o <<c>>, y \o <<d>>) => x = y

LEMMA EndedApart ==
    ASSUME NEW T, Listable(T), NEW e \in Closing
    PROVE  Apart(Ended(T, e)) /\ T \subseteq Seq(Char) /\ <<>> \notin T
<1>1. T \subseteq Seq(Char) /\ \A x \in T : x # <<>> /\ x[1] \notin Closing  BY DEF Listable
<1>2. e \in Char /\ e \in Mark /\ \A c \in Mark : c \in Char  BY ClosingIsMark, CharsApart
<1>3. ASSUME NEW u \in Ended(T, e)
      PROVE  u = <<e>> \/ \E x \in T : \E c \in Mark : u = x \o <<c>>
  <2>1. CASE u = <<e>>  BY <2>1
  <2>2. CASE u # <<e>>
    <3>1. PICK x \in T, c \in {",", e} : u = Append(x, c)  BY <2>2 DEF Ended
    <3>2. c \in Mark /\ x \in Seq(Char)  BY <1>1, <1>2, <3>1 DEF Mark
    <3>3. c \in Char  BY <1>2, <3>2
    <3>4. Append(x, c) = x \o <<c>>  BY <3>2, <3>3, AppendIsConcat
    <3> QED  BY <3>1, <3>2, <3>4
  <2> QED  BY <2>1, <2>2
<1>4. ASSUME NEW x \in T, NEW c \in Mark
      PROVE  /\ ~Agrees(x \o <<c>>, <<e>>) /\ ~Agrees(<<e>>, x \o <<c>>)
             /\ x \in Seq(Char) /\ <<c>> \in Seq(Char) /\ c \in Char
  <2> DEFINE s == <<c>>
  <2>1. x \in Seq(Char) /\ s \in Seq(Char) /\ c \in Char  BY <1>1, <1>2
  <2>2. x # <<>> /\ x[1] \notin Closing  BY <1>1
  <2> HIDE DEF s
  <2>3. /\ Len(x \o s) = Len(x) + Len(s)
        /\ \A i \in 1..(Len(x) + Len(s)) : (x \o s)[i] = IF i <= Len(x) THEN x[i] ELSE s[i - Len(x)]
    BY <2>1, ConcatProperties
  <2>4. Len(x) \in Nat /\ Len(s) \in Nat /\ Len(x) # 0  BY <2>1, <2>2, EmptySeq
  <2>5. 1 \in 1..Len(x \o s) /\ 1 <= Len(x \o s)  BY <2>3, <2>4
  <2>6. (x \o s)[1] = x[1]  BY <2>3, <2>4
  <2> DEFINE z == <<e>>
  <2>7. Len(z) = 1 /\ z[1] = e /\ 1 \in 1..Len(z) /\ 1 <= Len(z)  OBVIOUS
  <2> HIDE DEF z
  <2>8. ~Agrees(x \o s, z)  BY <2>2, <2>5, <2>6, <2>7 DEF Agrees
  <2>9. ~Agrees(z, x \o s)  BY <2>2, <2>5, <2>6, <2>7 DEF Agrees
  <2> QED  BY <2>1, <2>8, <2>9 DEF s, z
<1>5. ASSUME NEW u \in Ended(T, e), NEW w \in Ended(T, e), Agrees(u, w)
      PROVE  u = w
  <2>1. CASE u = <<e>> /\ w = <<e>>  BY <2>1
  <2>2. CASE u = <<e>> /\ w # <<e>>
    <3>1. PICK x \in T, c \in Mark : w = x \o <<c>>  BY <1>3, <2>2
    <3> QED  BY <1>4, <1>5, <2>2, <3>1
  <2>3. CASE u # <<e>> /\ w = <<e>>
    <3>1. PICK x \in T, c \in Mark : u = x \o <<c>>  BY <1>3, <2>3
    <3> QED  BY <1>4, <1>5, <2>3, <3>1
  <2>4. CASE u # <<e>> /\ w # <<e>>
    <3>1. PICK x \in T, c \in Mark : u = x \o <<c>>  BY <1>3, <2>4
    <3>2. PICK y \in T, d \in Mark : w = y \o <<d>>  BY <1>3, <2>4
    <3>3. Agrees(x \o <<c>>, y \o <<d>>)  BY <1>5, <3>1, <3>2
    <3>4. x = y  BY <3>3 DEF Listable
    <3> DEFINE s == <<c>>
               z == <<d>>
    <3>5. x \in Seq(Char) /\ s \in Seq(Char) /\ z \in Seq(Char)  BY <1>4
    <3>6. Len(s) = 1 /\ Len(z) = 1 /\ s[1] = c /\ z[1] = d  OBVIOUS
    <3>7. Agrees(x \o s, x \o z)  BY <3>3, <3>4
    <3> HIDE DEF s, z
    <3>8. Agrees(s, z)  BY <3>5, <3>7, AgreesRest
    <3>9. c = d  BY <3>6, <3>8 DEF Agrees
    <3> QED  BY <3>1, <3>2, <3>4, <3>9
  <2> QED  BY <2>1, <2>2, <2>3, <2>4
<1>6. Apart(Ended(T, e))  BY <1>5 DEF Apart
<1> QED  BY <1>1, <1>6

(* Scalar values may be listed. *)
LEMMA TokensListable ==
    ASSUME NEW kind \in Scalar
    PROVE  Listable(TextsOf(kind))
<1>1. \A v \in Item(kind) :
        /\ TokenText(kind, v) \in Seq(Char) /\ TokenText(kind, v) # <<>>
        /\ TokenText(kind, v)[1] \notin Mark
  BY ItemTyped
<1>2. \A x \in TextsOf(kind) : x \in Seq(Char) /\ x # <<>> /\ x[1] \notin Closing
  BY <1>1, ClosingIsMark DEF TextsOf
<1>3. ASSUME NEW x \in TextsOf(kind), NEW y \in TextsOf(kind), NEW c \in Mark, NEW d \in Mark,
             Agrees(x \o <<c>>, y \o <<d>>)
      PROVE  x = y
  <2>1. PICK v \in Item(kind) : x = TokenText(kind, v)  BY DEF TextsOf
  <2>2. PICK w \in Item(kind) : y = TokenText(kind, w)  BY DEF TextsOf
  <2> DEFINE r == <<c>>
             t == <<d>>
  <2>3. c \in Char /\ d \in Char /\ c \notin Digit /\ d \notin Digit  BY CharsApart
  <2>4. /\ r \in Seq(Char) /\ r # <<>> /\ r[1] \notin Digit
        /\ t \in Seq(Char) /\ t # <<>> /\ t[1] \notin Digit
    BY <2>3
  <2>5. Agrees(TokenText(kind, v) \o r, TokenText(kind, w) \o t)  BY <1>3, <2>1, <2>2
  <2> HIDE DEF r, t
  <2>6. v = w  BY <2>4, <2>5, TokenApart
  <2> QED  BY <2>1, <2>2, <2>6
<1> QED  BY <1>2, <1>3 DEF Listable

(* And arrays of them. *)
Arrays == {ArrayText(vs) : vs \in Seq(Item(ItemKind))}

LEMMA ItemTextsTyped ==
    ASSUME NEW vs \in Seq(Item(ItemKind))
    PROVE  /\ vs \in Seq(Seq(Char))
           /\ ItemTexts(vs) \in Seq(TextsOf(ItemKind)) /\ ItemTexts(vs) \in Seq(Seq(Char))
           /\ Len(ItemTexts(vs)) = Len(vs)
           /\ \A i \in 1..Len(vs) : ItemTexts(vs)[i] = TokenText(ItemKind, vs[i])
<1> DEFINE I == Item(ItemKind)
           X == TextsOf(ItemKind)
           m == ItemTexts(vs)
           n == Len(vs)
<1>1. \A v \in I : TokenText(ItemKind, v) \in X  BY DEF TextsOf
<1>2. I \subseteq Seq(Char)  BY ItemTyped, ItemAssumption
<1>3. X \subseteq Seq(Char)  BY ItemTyped, ItemAssumption DEF TextsOf
<1>4. vs \in Seq(I)  OBVIOUS
<1> HIDE DEF I, X
<1>5. DOMAIN vs = 1..n /\ n \in Nat /\ \A i \in 1..n : vs[i] \in I  BY <1>4
<1>6. /\ DOMAIN m = 1..n /\ m = [i \in DOMAIN m |-> m[i]]
      /\ \A i \in 1..n : m[i] = TokenText(ItemKind, vs[i])
  BY <1>5 DEF ItemTexts
<1>7. \A i \in 1..n : m[i] \in X  BY <1>1, <1>5, <1>6
<1> HIDE DEF m, n
<1>8. m \in Seq(X) /\ Len(m) = n  BY <1>5, <1>6, <1>7, FunctionIsSeq
<1>9. vs \in Seq(Seq(Char)) /\ m \in Seq(Seq(Char))  BY <1>2, <1>3, <1>4, <1>8, SeqOfSubset
<1> QED  BY <1>6, <1>8, <1>9 DEF m, n, X

LEMMA ArrayTextTyped ==
    ASSUME NEW vs \in Seq(Item(ItemKind))
    PROVE  /\ ArrayText(vs) \in Seq(Char) /\ ArrayText(vs) # <<>> /\ ArrayText(vs)[1] = "["
<1> DEFINE ts == ItemTexts(vs)
<1>1. ts \in Seq(Seq(Char))  BY ItemTextsTyped
<1>2. Listed(ts) = <<"[">> \o FlattenSeq(Whole(ts, "]"))  BY <1>1, ListedIsWhole
<1>3. FlattenSeq(Whole(ts, "]")) \in Seq(Char)
  <2> DEFINE T == Seq(Char)
  <2>1. T \subseteq Seq(Char) /\ "]" \in Char /\ ts \in Seq(T)  BY <1>1, CommaIsChar
  <2> HIDE DEF ts, T
  <2>2. Whole(ts, "]") \in Seq(Ended(T, "]")) /\ Ended(T, "]") \subseteq Seq(Char)
    BY <2>1, WholeTyped, MarkedTyped
  <2> QED  BY <2>2, SeqOfSubset, FlattenTyped
<1>4. "[" \in Char  BY CommaIsChar
<1> DEFINE s == FlattenSeq(Whole(ts, "]"))
           c == "["
<1> HIDE DEF s, c
<1>5. <<c>> \o s \in Seq(Char) /\ <<c>> \o s # <<>> /\ (<<c>> \o s)[1] = c
  BY <1>3, <1>4, FirstComes DEF s, c
<1> QED  BY <1>2, <1>5 DEF s, c, ArrayText

(* An array is read from its text in one way. *)
LEMMA ArrayApart ==
    ASSUME NEW vs \in Seq(Item(ItemKind)), NEW ws \in Seq(Item(ItemKind)),
           NEW r \in Seq(Char), NEW t \in Seq(Char),
           Agrees(ArrayText(vs) \o r, ArrayText(ws) \o t)
    PROVE  vs = ws
<1> DEFINE T == TextsOf(ItemKind)
           us == ItemTexts(vs)
           ts == ItemTexts(ws)
<1>1. us \in Seq(T) /\ Len(us) = Len(vs) /\ \A i \in 1..Len(vs) : us[i] = TokenText(ItemKind, vs[i])
  BY ItemTextsTyped
<1>2. ts \in Seq(T) /\ Len(ts) = Len(ws) /\ \A i \in 1..Len(ws) : ts[i] = TokenText(ItemKind, ws[i])
  BY ItemTextsTyped
<1>3. T \subseteq Seq(Char) /\ <<>> \notin T /\ Apart(Ended(T, "]"))
  <2>1. Listable(T) /\ "]" \in Closing  BY TokensListable, ItemAssumption DEF Closing
  <2> QED  BY <2>1, EndedApart
<1>4. Agrees(Listed(us) \o r, Listed(ts) \o t)  BY DEF ArrayText
<1> HIDE DEF T, us, ts
<1>5. us = ts  BY <1>1, <1>2, <1>3, <1>4, BracketsApart
<1>6. ASSUME NEW i \in 1..Len(vs) PROVE vs[i] = ws[i]
  <2>1. i \in 1..Len(ws)  BY <1>1, <1>2, <1>5
  <2>2. TokenText(ItemKind, vs[i]) = TokenText(ItemKind, ws[i])  BY <1>1, <1>2, <1>5, <2>1
  <2>3. vs[i] \in Item(ItemKind) /\ ws[i] \in Item(ItemKind)  BY <2>1
  <2> DEFINE z == <<",">>
             x == TokenText(ItemKind, vs[i])
  <2>4. z \in Seq(Char) /\ z # <<>> /\ z[1] \notin Digit  BY TextChars, CharsApart DEF Mark
  <2>5. Agrees(x \o z, x \o z)  BY DEF Agrees
  <2>6. Agrees(TokenText(ItemKind, vs[i]) \o z, TokenText(ItemKind, ws[i]) \o z)
    BY <2>2, <2>5
  <2> HIDE DEF z
  <2> QED  BY <2>3, <2>4, <2>6, TokenApart, ItemAssumption
<1>7. Len(vs) = Len(ws)  BY <1>1, <1>2, <1>5
<1> QED  BY <1>6, <1>7, SeqEqual

LEMMA ArraysListable == Listable(Arrays)
<1>1. \A x \in Arrays : x \in Seq(Char) /\ x # <<>> /\ x[1] = "["
  BY ArrayTextTyped DEF Arrays
<1>2. "[" \notin Closing  BY DEF Closing
<1>3. ASSUME NEW x \in Arrays, NEW y \in Arrays, NEW c \in Mark, NEW d \in Mark,
             Agrees(x \o <<c>>, y \o <<d>>)
      PROVE  x = y
  <2>1. PICK v \in Seq(Item(ItemKind)) : x = ArrayText(v)  BY DEF Arrays
  <2>2. PICK w \in Seq(Item(ItemKind)) : y = ArrayText(w)  BY DEF Arrays
  <2> DEFINE r == <<c>>
             t == <<d>>
  <2>3. r \in Seq(Char) /\ t \in Seq(Char)  BY CharsApart
  <2>4. Agrees(ArrayText(v) \o r, ArrayText(w) \o t)  BY <1>3, <2>1, <2>2
  <2> HIDE DEF r, t
  <2>5. v = w  BY <2>3, <2>4, ArrayApart
  <2> QED  BY <2>1, <2>2, <2>5
<1> QED  BY <1>1, <1>2, <1>3 DEF Listable

(* What goes on where the beginning of an array does, in a whole array. *)
LEMMA ArrayGoesOn ==
    ASSUME NEW vs \in Seq(Item(ItemKind)), NEW ws \in Seq(Item(ItemKind)),
           NEW r \in Seq(Char), NEW t \in Seq(Char),
           Agrees(Before(ItemTexts(vs)) \o r, ArrayText(ws) \o t)
    PROVE  \/ vs = <<>> /\ ws = <<>> /\ Agrees(r, <<"]">>)
           \/ \E v \in Item(ItemKind) : \E c \in {",", "]"} :
                 Agrees(r, TokenText(ItemKind, v) \o <<c>>)
<1> DEFINE T == TextsOf(ItemKind)
           us == ItemTexts(vs)
           ts == ItemTexts(ws)
<1>1. us \in Seq(T) /\ Len(us) = Len(vs)
  BY ItemTextsTyped
<1>2. ts \in Seq(T) /\ Len(ts) = Len(ws) /\ \A i \in 1..Len(ws) : ts[i] = TokenText(ItemKind, ws[i])
  BY ItemTextsTyped
<1>3. T \subseteq Seq(Char) /\ <<>> \notin T /\ Apart(Ended(T, "]"))
  <2>1. Listable(T) /\ "]" \in Closing  BY TokensListable, ItemAssumption DEF Closing
  <2> QED  BY <2>1, EndedApart
<1>4. Agrees(Before(us) \o r, Listed(ts) \o t)  BY DEF ArrayText
<1>0. \A x \in T : x \in Seq(Char)  BY <1>3
<1> HIDE DEF T, us, ts
<1>5. \/ us = <<>> /\ ts = <<>> /\ Agrees(r, <<"]">>)
      \/ /\ Len(us) < Len(ts)
         /\ \A i \in 1..Len(us) : us[i] = ts[i]
         /\ \E c \in {",", "]"} : Agrees(r, Append(ts[Len(us) + 1], c))
  BY <1>1, <1>2, <1>3, <1>4, BracketsGoOn
<1>6. CASE us = <<>> /\ ts = <<>> /\ Agrees(r, <<"]">>)
  <2>1. vs = <<>> /\ ws = <<>>  BY <1>1, <1>2, <1>6, EmptySeq
  <2> QED  BY <1>6, <2>1
<1>7. CASE Len(us) < Len(ts) /\ \E c \in {",", "]"} : Agrees(r, Append(ts[Len(us) + 1], c))
  <2> DEFINE n == Len(us) + 1
  <2>a. Len(us) \in Nat /\ Len(ts) \in Nat /\ Len(ts) = Len(ws)  BY <1>1, <1>2
  <2>b. Len(us) < Len(ts)  BY <1>7
  <2>1. n \in 1..Len(ts) /\ n \in 1..Len(ws)  BY <2>a, <2>b
  <2>2. ts[n] = TokenText(ItemKind, ws[n]) /\ ws[n] \in Item(ItemKind) /\ ts[n] \in Seq(Char)
    BY <1>0, <1>2, <2>1
  <2>3. PICK c \in {",", "]"} : Agrees(r, Append(ts[n], c))  BY <1>7
  <2>4. c \in Mark /\ c \in Char  BY CommaIsChar DEF Mark
  <2>5. Append(ts[n], c) = ts[n] \o <<c>>  BY <2>2, <2>4, AppendIsConcat
  <2> QED  BY <2>2, <2>3, <2>4, <2>5
<1> QED  BY <1>5, <1>6, <1>7
----------------------------------------------------------------------------
(* What the scalar parsers hold can be part of a value: nothing that ends a *)
(* string, and a number has a digit.  They start at a character that their  *)
(* caller has looked at.                                                    *)
Starting == frame = "stringStart" \/ (frame = "number" /\ scan = <<>>)

TokenInv ==
    /\ StringBusy => buffer \in Seq(Plain)
    /\ ~number.finished \/ frame = "numberRest" => buffer # <<>>
    /\ Starting => look \in Char \ {Blank, Nul}

(* A step of a scalar parser that does not throw keeps that, and what it    *)
(* returns is a value.                                                      *)
LEMMA ScalarKeepsTokens ==
    ASSUME NEW back, back \notin ScalarFrame \cup {"failed"},
           PoolTypeOK, PoolInv, TokenInv, StringBusy => string.value = <<>>,
           ScalarStep(back), frame' # "failed"
    PROVE  /\ TokenInv' /\ ~Starting'
           /\ frame' = back /\ ret' = "pointer" =>
                \/ frame = "string" /\ string'.value \in Item("string")
                \/ frame \in {"number", "numberRest"} /\ number'.value \in Item("number")
<1>a. back # "string" /\ back # "number" /\ back # "numberRest" /\ back # "stringStart"
  BY DEF ScalarFrame
<1>b. /\ string \in [finished : BOOLEAN, value : Seq(Char)]
      /\ number \in [finished : BOOLEAN, value : Seq(Digit)]
      /\ buffer \in Seq(Char) /\ scan \in Seq(Digit)
  BY DEF PoolTypeOK
<1>c. EndOfChunk \notin Char  BY CharsApart
<1> USE <1>a, <1>b DEF ReturnTo, Throw, TokenInv, Starting, StringBusy
<1>1. CASE StringStart
  <2>1. /\ frame = "stringStart" /\ frame' = "string" /\ buffer' = buffer /\ buffer = <<>>
        /\ number' = number /\ number.finished
    BY <1>1 DEF StringStart, PoolInv
  <2>2. buffer \in Seq(Plain)  BY <2>1, EmptyIsSeq
  <2> QED  BY <2>1, <2>2
<1>2. CASE StringChar
  <2>1. /\ frame = "string" /\ frame' = "string" /\ buffer' = Append(buffer, look)
        /\ number' = number /\ look \in Plain
    BY <1>2 DEF StringChar, Plain
  <2>2. number.finished  BY <2>1 DEF PoolInv, NumberBusy
  <2>3. buffer' \in Seq(Plain)  BY <2>1, AppendIsSeq
  <2> QED  BY <2>1, <2>2, <2>3
<1>3. CASE StringInvalid  BY <1>3 DEF StringInvalid
<1>4. CASE StringClose(back)
  <2>1. /\ frame = "string" /\ frame' = back /\ number' = number
        /\ string'.finished /\ string'.value = string.value \o buffer
    BY <1>4 DEF StringClose
  <2>2. number.finished  BY <2>1 DEF PoolInv, NumberBusy
  <2>3. buffer \in Seq(Plain) /\ string.value = <<>>  BY <2>1
  <2>4. string'.value = buffer  BY <2>1, <2>3, ConcatEmptySeq
  <2> QED  BY <2>1, <2>2, <2>3, <2>4 DEF Item
<1>5. CASE StringEnd(back)
  <2>1. /\ frame = "string" /\ frame' = back /\ ret' = "nullptr" /\ number' = number
        /\ buffer' = buffer
    BY <1>5 DEF StringEnd
  <2>2. number.finished  BY <2>1 DEF PoolInv, NumberBusy
  <2> QED  BY <2>1, <2>2
<1>6. CASE NumberDigit
  <2>1. /\ frame \in {"number", "numberRest"} /\ frame' = frame /\ number' = number
        /\ look \in Digit /\ string' = string /\ string.finished
    BY <1>6 DEF NumberDigit, PoolInv, NumberBusy
  <2>2. CASE frame = "number"
    <3>1. scan' = Append(scan, look) /\ buffer' = buffer  BY <1>6, <2>2 DEF NumberDigit
    <3>2. scan' # <<>>  BY <2>1, <3>1, AppendProperties
    <3>3. number.finished  BY <2>2 DEF PoolInv
    <3> QED  BY <2>1, <2>2, <3>2, <3>3
  <2>3. CASE frame = "numberRest"
    <3>1. buffer' = Append(buffer, look)  BY <1>6, <2>3 DEF NumberDigit
    <3>2. look \in Char  BY <2>1, CharsApart
    <3>3. buffer' # <<>>  BY <3>1, <3>2, AppendProperties
    <3> QED  BY <2>1, <2>3, <3>3
  <2> QED  BY <2>1, <2>2, <2>3
<1>7. CASE NumberDirect(back)
  <2>1. /\ frame = "number" /\ frame' = back /\ string' = string /\ scan # <<>>
        /\ number'.finished /\ number'.value = scan
    BY <1>7 DEF NumberDirect
  <2>2. string.finished  BY <2>1 DEF PoolInv, NumberBusy
  <2>3. scan \in Item("number")  BY <2>1 DEF Item
  <2> QED  BY <2>1, <2>2, <2>3
<1>8. CASE NumberInvalid  BY <1>8 DEF NumberInvalid
<1>9. CASE NumberEnd(back)
  <2>1. /\ frame \in {"number", "numberRest"} /\ frame' = back /\ ret' = "nullptr"
        /\ string' = string /\ buffer' = buffer \o scan /\ look = EndOfChunk
    BY <1>9 DEF NumberEnd
  <2>2. string.finished  BY <2>1 DEF PoolInv, NumberBusy
  <2>3. buffer # <<>> \/ scan # <<>>  BY <1>c, <2>1
  <2>4. scan \in Seq(Char)  BY CharsApart, SeqOfSubset
  <2>5. buffer \o scan # <<>>
    <3>1. Len(buffer \o scan) = Len(buffer) + Len(scan)  BY <2>4, ConcatProperties
    <3>2. Len(buffer) \in Nat /\ Len(scan) \in Nat  OBVIOUS
    <3>3. Len(buffer) # 0 \/ Len(scan) # 0  BY <2>3, EmptySeq
    <3>4. Len(buffer \o scan) # 0  BY <3>1, <3>2, <3>3
    <3>5. Len(<<>>) = 0  OBVIOUS
    <3> QED  BY <3>4, <3>5
  <2> QED  BY <2>1, <2>2, <2>5
<1>10. CASE NumberRestDone(back)
  <2>1. /\ frame = "numberRest" /\ frame' = back /\ string' = string
        /\ number'.finished /\ number'.value = buffer
    BY <1>10 DEF NumberRestDone, NumberInBuffer
  <2>2. string.finished /\ buffer \in Seq(Digit)  BY <2>1 DEF PoolInv, NumberBusy
  <2>3. buffer \in Item("number")  BY <2>1, <2>2 DEF Item
  <2> QED  BY <2>1, <2>2, <2>3
<1> QED  BY <1>1, <1>2, <1>3, <1>4, <1>5, <1>6, <1>7, <1>8, <1>9, <1>10 DEF ScalarStep

(* A scalar parser throws only where no value of its kind goes on like what *)
(* it has read and the character it met.                                    *)
LEMMA ScalarRefuses ==
    ASSUME NEW back, NEW kind \in Scalar, PoolTypeOK, PoolInv, TokenInv, back # "failed",
           ScalarStep(back), frame' = "failed",
           frame \in {"string", "stringStart"} => kind = "string",
           frame \in {"number", "numberRest"} => kind = "number"
    PROVE  /\ UNCHANGED <<look, text>> /\ look \in Char /\ frame \in ScalarFrame
           /\ \A v \in Item(kind) : \A r \in Seq(Char) :
                  ~Agrees(Append(PartRead, look), TokenText(kind, v) \o r)
           /\ \A c \in Mark : Agrees(Append(PartRead, look), <<c>>) => Starting /\ look = c
<1>a. PartReadIs  BY PartReadCases
<1>b. buffer \in Seq(Char) /\ PartRead \in Seq(Char)  BY PartReadTyped DEF PoolTypeOK
<1>1. frame # "failed"
  BY DEF ScalarStep, StringStart, StringChar, StringInvalid, StringClose, StringEnd,
     NumberDigit, NumberDirect, NumberInvalid, NumberEnd, NumberRestDone
<1>2. StringStart \/ StringInvalid \/ NumberInvalid
  BY <1>1 DEF ScalarStep, StringChar, StringClose, StringEnd,
     NumberDigit, NumberDirect, NumberEnd, NumberRestDone, ReturnTo
<1>3. /\ UNCHANGED <<look, text>>
      /\ \/ Starting /\ look \in Char /\ look # Quote /\ frame = "stringStart"
         \/ Starting /\ look \in Char /\ look \notin Digit /\ frame = "number"
         \/ frame = "string" /\ look = Nul
  <2>1. CASE StringStart
    BY <2>1 DEF StringStart, TokenInv, Starting
  <2>2. CASE StringInvalid  BY <2>2 DEF StringInvalid
  <2>3. CASE NumberInvalid  BY <2>3 DEF NumberInvalid, Starting
  <2> QED  BY <1>2, <2>1, <2>2, <2>3
<1>4. ASSUME Starting, look \in Char,
             \A v \in Item(kind) : look # TokenText(kind, v)[1]
      PROVE  /\ \A v \in Item(kind) : \A r \in Seq(Char) :
                    ~Agrees(Append(PartRead, look), TokenText(kind, v) \o r)
             /\ \A c \in Mark : Agrees(Append(PartRead, look), <<c>>) => look = c
  <2>1. PartRead = <<>>  BY <1>4, <1>a DEF PartReadIs, Starting
  <2>2. Append(PartRead, look) = <<look>>  BY <2>1
  <2> DEFINE s == <<look>>
  <2>3. Len(s) = 1 /\ s[1] = look /\ 1 \in 1..Len(s)  OBVIOUS
  <2> HIDE DEF s
  <2>4. ASSUME NEW v \in Item(kind), NEW r \in Seq(Char), Agrees(s, TokenText(kind, v) \o r)
        PROVE  FALSE
    <3> DEFINE x == TokenText(kind, v)
    <3>1. x \in Seq(Char) /\ x # <<>>  BY ItemTyped
    <3>2. look # x[1]  BY <1>4
    <3>3. Agrees(s, x \o r)  BY <2>4
    <3> HIDE DEF x
    <3>4. /\ Len(x \o r) = Len(x) + Len(r)
          /\ \A i \in 1..(Len(x) + Len(r)) : (x \o r)[i] = IF i <= Len(x) THEN x[i] ELSE r[i - Len(x)]
      BY <3>1, ConcatProperties
    <3>5. Len(x) \in Nat /\ Len(x) # 0 /\ Len(r) \in Nat  BY <3>1, EmptySeq
    <3>6. (x \o r)[1] = x[1] /\ 1 <= Len(x \o r)  BY <3>4, <3>5
    <3> QED  BY <2>3, <3>2, <3>3, <3>6 DEF Agrees
  <2>5. ASSUME NEW c \in Mark, Agrees(s, <<c>>)  PROVE look = c
    <3>1. Len(<<c>>) = 1 /\ <<c>>[1] = c  OBVIOUS
    <3> QED  BY <2>3, <2>5, <3>1 DEF Agrees
  <2> QED  BY <2>2, <2>4, <2>5 DEF s
<1>5. CASE Starting /\ look \in Char /\ look # Quote /\ frame = "stringStart"
  <2>1. \A v \in Item(kind) : look # TokenText(kind, v)[1]  BY <1>5, ItemTyped
  <2> QED  BY <1>3, <1>4, <1>5, <2>1 DEF ScalarFrame
<1>6. CASE Starting /\ look \in Char /\ look \notin Digit /\ frame = "number"
  <2>1. kind = "number"  BY <1>6
  <2>2. \A v \in Item(kind) : look # TokenText(kind, v)[1]  BY <1>6, <2>1, ItemTyped
  <2> QED  BY <1>3, <1>4, <1>6, <2>2 DEF ScalarFrame
<1>7. CASE frame = "string" /\ look = Nul
  <2>1. kind = "string" /\ StringBusy /\ look \in Char  BY <1>7, CharsApart DEF StringBusy
  <2>2. buffer \in Seq(Plain) /\ PartRead = <<Quote>> \o buffer
    BY <2>1, <1>a DEF TokenInv, PartReadIs
  <2> DEFINE q == <<Quote>>
             s == buffer \o <<Nul>>
  <2>3. q \in Seq(Char) /\ <<Nul>> \in Seq(Char) /\ Quote \in Char /\ Nul \in Char
    BY CharsApart
  <2>4. Append(PartRead, look) = q \o s /\ s \in Seq(Char)
    <3> DEFINE n == <<Nul>>
    <3>1. n \in Seq(Char)  BY <2>3
    <3>2. Append(PartRead, look) = PartRead \o n  BY <1>7, <1>b, <2>1, AppendIsConcat
    <3> HIDE DEF q, n
    <3>3. (q \o buffer) \o n = q \o (buffer \o n)  BY <1>b, <2>3, <3>1, ConcatAssociative
    <3>4. buffer \o n \in Seq(Char)  BY <1>b, <3>1, ConcatProperties
    <3> QED  BY <2>2, <3>2, <3>3, <3>4 DEF q, n
  <2>5. ASSUME NEW v \in Item(kind), NEW r \in Seq(Char),
               Agrees(q \o s, TokenText(kind, v) \o r)
        PROVE  FALSE
    <3>1. v \in Seq(Plain) /\ v \in Seq(Char)  BY <2>1, ItemTyped DEF Item
    <3> DEFINE x == q \o r
               n == <<Nul>>
    <3>2. /\ TokenText("string", v) \o r = q \o (v \o x)
          /\ x \in Seq(Char) /\ x # <<>> /\ x[1] = Quote
      BY <3>1, Quoted
    <3>3. n \in Seq(Char) /\ n # <<>> /\ n[1] = Nul  BY <2>3
    <3>4. Agrees(q \o (buffer \o n), q \o (v \o x))  BY <2>1, <2>5, <3>2
    <3> HIDE DEF q, x, n
    <3>5. buffer \o n \in Seq(Char) /\ v \o x \in Seq(Char)
      BY <1>b, <3>1, <3>2, <3>3, ConcatProperties
    <3>6. Agrees(buffer \o n, v \o x)  BY <2>3, <3>4, <3>5, AgreesRest
    <3>7. \A i \in 1..Len(buffer) : buffer[i] \in Plain  BY <2>2
    <3>8. \A i \in 1..Len(v) : v[i] \in Plain  BY <3>1
    <3>9. n[1] \notin Plain /\ x[1] \notin Plain  BY <3>2, <3>3, CharsApart
    <3>a. n \in Seq(Char) /\ n # <<>> /\ x \in Seq(Char) /\ x # <<>>  BY <3>2, <3>3
    <3>10. buffer = v  BY <1>b, <3>1, <3>6, <3>7, <3>8, <3>9, <3>a, StopApart
    <3>11. Agrees(n, x)
      <4>1. Agrees(v \o n, v \o x)  BY <3>6, <3>10
      <4> QED  BY <3>1, <3>a, <4>1, AgreesRest
    <3>12. Len(n) \in Nat \ {0} /\ Len(x) \in Nat \ {0}  BY <3>a, EmptySeq
    <3>13. n[1] = x[1]  BY <3>11, <3>12 DEF Agrees
    <3> QED  BY <3>2, <3>3, <3>13, CharsApart
  <2>6. ASSUME NEW c \in Mark, Agrees(q \o s, <<c>>)  PROVE FALSE
    <3>1. q \o s # <<>> /\ (q \o s)[1] = Quote /\ q \o s \in Seq(Char)
      BY <2>3, <2>4, FirstComes
    <3> DEFINE z == <<c>>
               y == q \o s
    <3>2. Len(z) = 1 /\ z[1] = c /\ c # Quote  BY CharsApart
    <3>3. y # <<>> /\ y[1] = Quote /\ y \in Seq(Char) /\ Agrees(y, z)  BY <2>6, <3>1
    <3> HIDE DEF z, y
    <3>4. Len(y) \in Nat \ {0}  BY <3>3, EmptySeq
    <3> QED  BY <3>2, <3>3, <3>4 DEF Agrees
  <2> HIDE DEF q, s
  <2> QED  BY <1>3, <1>7, <2>1, <2>4, <2>5, <2>6 DEF ScalarFrame
<1> QED  BY <1>3, <1>5, <1>6, <1>7
----------------------------------------------------------------------------
(* The same of an array: its items are values, an item begins only where    *)
(* one may, and the loop is left without one only at the first.             *)
ItemInv ==
    /\ TokenInv
    /\ array.out \in Seq(Item(ItemKind))
    /\ frame = "arrayLoop" /\ ret = "pointer" => PoolValue(ItemKind) \in Item(ItemKind)
    /\ frame = "arrayLoop" /\ ret = "none" => array.out # <<>>
    /\ Starting /\ array.out = <<>> => look # "]"

LEMMA ArrayKeepsItems ==
    ASSUME NEW back, back \notin ScalarFrame \cup ArrayFrame \cup {"failed"},
           PoolTypeOK, ArrayTypeOK, PoolInv, ArrayInv, ArrayOrder, ItemInv, ArrayStep(back),
           frame' # "failed"
    PROVE  ItemInv'
<1>a. ItemKind = "string" \/ ItemKind = "number"  BY ItemAssumption DEF Scalar
<1>b. /\ array \in [out : Seq(Seq(Char)), began : BOOLEAN, expect : BOOLEAN, finished : BOOLEAN]
      /\ back # "string" /\ back # "number" /\ back # "numberRest" /\ back # "stringStart"
      /\ back # "arrayLoop"
  BY DEF ArrayTypeOK, ScalarFrame, ArrayFrame
<1> USE <1>a, <1>b DEF ItemInv, TokenInv, Starting, StringBusy, ReturnTo, Throw, ArrayNeedsMore
<1>1. CASE ResumeItem
  <2>1. /\ frame' \in {"string", "numberRest"} /\ ~Finished(ItemKind)
        /\ UNCHANGED <<ret, look, buffer, scan, string, number, array>>
        /\ frame' = "string" => ~string.finished
        /\ frame' = "numberRest" => ~number.finished
    BY <1>1 DEF ResumeItem, ArrayResumesItem, EntryFrame, Finished
  <2>2. StringBusy' => buffer' \in Seq(Plain)  BY <2>1
  <2>3. ~number'.finished \/ frame' = "numberRest" => buffer' # <<>>  BY <2>1
  <2>4. ~Starting'  BY <2>1
  <2>5. TokenInv'  BY <2>2, <2>3, <2>4
  <2> HIDE DEF TokenInv, Starting
  <2> QED  BY <2>1, <2>4, <2>5
<1>2. CASE OpenArray
  <2>1. /\ frame = "array" /\ frame' = "arrayFirst"
        /\ UNCHANGED <<ret, buffer, scan, string, number>> /\ array'.out = array.out
    BY <1>2 DEF OpenArray, ArrayBegins
  <2> QED  BY <2>1
<1>3. CASE ResumeArray
  <2>1. /\ frame = "array" /\ frame' = ResumedFrame
        /\ UNCHANGED <<ret, look, buffer, scan, string, number, array>> /\ ret = "none"
    BY <1>3 DEF ResumeArray, ArrayResumes, ArrayInv
  <2> QED  BY <2>1 DEF ResumedFrame
<1>4. CASE SkipArrayBlank
  <2>1. /\ frame \in {"arrayFirst", "arrayLoop"}
        /\ UNCHANGED <<frame, ret, buffer, scan, string, number, array>>
    BY <1>4 DEF SkipArrayBlank, ArraySkips
  <2> QED  BY <2>1 DEF PoolValue
<1>5. CASE EndArrayChunk(back)
  <2>1. /\ frame \in {"arrayFirst", "arrayLoop"} /\ frame' = back
        /\ UNCHANGED <<buffer, scan, string, number>> /\ array'.out = array.out
    BY <1>5 DEF EndArrayChunk, ArraySkips
  <2> QED  BY <2>1
<1>6. CASE CloseArray(back)
  <2>1. /\ frame \in {"arrayFirst", "arrayLoop"} /\ frame' = back
        /\ UNCHANGED <<buffer, scan, string, number>> /\ array'.out = array.out
    BY <1>6 DEF CloseArray, ArraySkips
  <2> QED  BY <2>1
<1>7. CASE ReadItem
  <2>1. /\ frame \in {"arrayFirst", "arrayLoop"} /\ ret = "none"
        /\ look \in Char \ {Blank, Nul} /\ (frame = "arrayFirst" => look # "]")
        /\ UNCHANGED <<ret, look, buffer, scan, string, number, array>>
    BY <1>7 DEF ReadItem, ArraySkips
  <2>2. string.finished /\ number.finished  BY <2>1 DEF ArrayInv
  <2>3. frame' \in {"stringStart", "number"}  BY <1>7, <2>2 DEF ReadItem, EntryFrame
  <2> QED  BY <2>1, <2>2, <2>3
<1>8. CASE KeepItem
  <2>1. /\ frame = "arrayLoop" /\ ret = "pointer" /\ frame' = "arrayLoop" /\ ret' = "none"
        /\ UNCHANGED <<buffer, scan, string, number>>
        /\ array'.out = Append(array.out, PoolValue(ItemKind))
    BY <1>8 DEF KeepItem, ItemsPushed
  <2>2. /\ array'.out \in Seq(Item(ItemKind)) /\ array'.out # <<>>
    BY <2>1, AppendIsSeq, AppendProperties
  <2>3. TokenInv' /\ ~Starting'  BY <2>1
  <2> HIDE DEF TokenInv, Starting
  <2> QED  BY <2>1, <2>2, <2>3
<1>9. CASE WaitForItem(back)
  <2>1. /\ frame' = back
        /\ UNCHANGED <<buffer, scan, string, number>> /\ array'.out = array.out
    BY <1>9 DEF WaitForItem
  <2> QED  BY <1>9, <2>1 DEF WaitForItem
<1>10. CASE Separate
  <2>1. /\ frame = "arrayLoop" /\ frame' = "arrayLoop"
        /\ UNCHANGED <<ret, buffer, scan, string, number>> /\ array'.out = array.out
    BY <1>10 DEF Separate
  <2> QED  BY <2>1 DEF PoolValue
<1>11. CASE ScalarStep("arrayLoop") /\ UNCHANGED array
  <2>1. /\ TokenInv' /\ ~Starting'
        /\ frame' = "arrayLoop" /\ ret' = "pointer" =>
             \/ frame = "string" /\ string'.value \in Item("string")
             \/ frame \in {"number", "numberRest"} /\ number'.value \in Item("number")
    <3> HIDE DEF TokenInv, Starting
    <3>1. StringBusy => string.value = <<>>  BY DEF ArrayOrder, StringBusy
    <3>2. "arrayLoop" \notin ScalarFrame \cup {"failed"} /\ TokenInv  BY DEF ScalarFrame
    <3> QED  BY <1>11, <3>1, <3>2, ScalarKeepsTokens
  <2>2. /\ frame = "string" => ItemKind = "string"
        /\ frame \in {"number", "numberRest"} => ItemKind = "number"
    BY DEF ArrayInv, NumberBusy
  <2>3. frame' = "arrayLoop" /\ ret' = "pointer" => PoolValue(ItemKind)' \in Item(ItemKind)
    BY <2>1, <2>2 DEF PoolValue
  <2>4. frame' # "arrayLoop" \/ ret' # "none"
    <3>1. frame' \in ScalarFrame \/ ret' \in {"pointer", "nullptr"}
      BY <1>11 DEF ScalarStep, StringStart, StringChar, StringInvalid, StringClose, StringEnd,
         NumberDigit, NumberDirect, NumberInvalid, NumberEnd, NumberRestDone, ScalarFrame
    <3> QED  BY <3>1 DEF ScalarFrame
  <2> QED  BY <1>11, <2>1, <2>3, <2>4
<1> QED
  BY <1>1, <1>2, <1>3, <1>4, <1>5, <1>6, <1>7, <1>8, <1>9, <1>10, <1>11 DEF ArrayStep

LEMMA BeforeBegins ==
    ASSUME NEW ts \in Seq(Seq(Char))
    PROVE  Before(ts) \in Seq(Char) /\ Before(ts) # <<>> /\ Before(ts)[1] = "["
<1>1. Before(ts) = <<"[">> \o FlattenSeq(Marked(ts))  BY BeforeIsMarked
<1>2. Marked(ts) \in Seq(Seq(Char))
  <2> DEFINE T == Seq(Char)
  <2>1. T \subseteq Seq(Char) /\ ts \in Seq(T) /\ "]" \in Char  BY CommaIsChar
  <2> HIDE DEF T
  <2>2. Marked(ts) \in Seq(Ended(T, "]")) /\ Ended(T, "]") \subseteq Seq(Char)
    BY <2>1, MarkedTyped
  <2> QED  BY <2>2, SeqOfSubset
<1> DEFINE s == FlattenSeq(Marked(ts))
           c == "["
<1>3. s \in Seq(Char)  BY <1>2, FlattenTyped
<1>4. c \in Char /\ Before(ts) = <<c>> \o s  BY <1>1, CommaIsChar
<1> HIDE DEF s, c
<1>5. <<c>> \o s \in Seq(Char) /\ <<c>> \o s # <<>> /\ (<<c>> \o s)[1] = c
  BY <1>3, <1>4, FirstComes
<1> QED  BY <1>4, <1>5 DEF c

(* Digits after a whole number: it was split by whitespace, and the loop    *)
(* that waits for a separator meets the rest of it.                         *)
DigitAfterItem ==
    /\ frame = "arrayLoop" /\ ret = "none" /\ ~array.expect
    /\ ItemKind = "number" /\ look \in Digit

(* An array throws only where no array goes on like what it has read and    *)
(* the character it met, unless a number was split.                         *)
LEMMA SeparateRefuses ==
    ASSUME NEW back, PoolTypeOK, ArrayTypeOK, ItemInv, ArrayOrder,
           Separate, frame' = "failed"
    PROVE  /\ UNCHANGED <<look, text>> /\ look \in Char
           /\ \/ DigitAfterItem
              \/ \A ws \in Seq(Item(ItemKind)) : \A t \in Seq(Char) :
                     ~Agrees(Append(ArrayRead(back), look), ArrayText(ws) \o t)
           /\ ArrayRead(back) \in Seq(Char) /\ ArrayRead(back) # <<>>
           /\ ArrayRead(back)[1] = "["
<1>1. /\ frame = "arrayLoop" /\ ret = "none" /\ ~array.expect /\ UNCHANGED <<look, text>>
      /\ look \in Char /\ look # "]" /\ look # ","
  BY DEF Separate
<1>2. array.out \in Seq(Item(ItemKind)) /\ array.out # <<>>  BY <1>1 DEF ItemInv
<1>3. PICK f \in Seq(Item(ItemKind)), l \in Item(ItemKind) : array.out = Append(f, l)
  BY <1>2, SequenceEmptyOrAppend
<1> DEFINE x == TokenText(ItemKind, l)
           b == Before(ItemTexts(f))
           q == <<look>>
<1>4. /\ f \in Seq(Seq(Char)) /\ l \in Seq(Char) /\ x \in Seq(Char) /\ x # <<>>
      /\ x[1] \notin Mark
  BY ItemTyped, ItemAssumption, ItemTextsTyped
<1>5. ItemTexts(f) \in Seq(Seq(Char)) /\ ItemTexts(array.out) = Append(ItemTexts(f), x)
  BY <1>3, <1>4, ItemTextsAppend
<1>6. b \in Seq(Char) /\ Opened(ItemTexts(array.out)) = b \o x
  BY <1>4, <1>5, OpenedTyped, OpenedAppend
<1>7. ArrayRead(back) = b \o x
  BY <1>1, <1>6 DEF ArrayRead, ArrayOrder
<1>8. q \in Seq(Char) /\ q # <<>> /\ q[1] = look
  <2>1. look \in Char  BY <1>1
  <2> QED  BY <2>1, Single
<1>9. b # <<>> /\ b[1] = "["  BY <1>5, BeforeBegins
<1> HIDE DEF x, b, q
<1>10. ArrayRead(back) \in Seq(Char) /\ ArrayRead(back) # <<>> /\ ArrayRead(back)[1] = "["
  <2>1. b \o x \in Seq(Char) /\ b \o x # <<>> /\ (b \o x)[1] = b[1]
    BY <1>4, <1>6, <1>9, FirstStays
  <2> QED  BY <1>7, <1>9, <2>1
<1>11. Append(ArrayRead(back), look) = b \o (x \o q)
  <2>1. Append(b \o x, look) = (b \o x) \o <<look>>
    BY <1>1, <1>7, <1>10, AppendIsConcat
  <2>2. (b \o x) \o q = b \o (x \o q)  BY <1>4, <1>6, <1>8, ConcatAssociative
  <2> QED  BY <1>7, <2>1, <2>2 DEF q
<1>12. x \o q \in Seq(Char) /\ x \o q # <<>> /\ (x \o q)[1] \notin Mark
  <2>1. x \o q \in Seq(Char) /\ x \o q # <<>> /\ (x \o q)[1] = x[1]
    BY <1>4, <1>8, FirstStays
  <2> QED  BY <1>4, <2>1
<1>13. ASSUME ~DigitAfterItem, NEW ws \in Seq(Item(ItemKind)), NEW t \in Seq(Char),
              Agrees(Append(ArrayRead(back), look), ArrayText(ws) \o t)
       PROVE  FALSE
  <2> DEFINE r == x \o q
  <2>1. r \in Seq(Char) /\ Agrees(Before(ItemTexts(f)) \o r, ArrayText(ws) \o t)
    BY <1>11, <1>12, <1>13 DEF b
  <2> HIDE DEF r
  <2>2. \/ Agrees(r, <<"]">>)
        \/ \E v \in Item(ItemKind) : \E c \in {",", "]"} :
              Agrees(r, TokenText(ItemKind, v) \o <<c>>)
    BY <2>1, ArrayGoesOn
  <2>3. ASSUME Agrees(r, <<"]">>) PROVE FALSE
    <3> DEFINE z == <<"]">>
    <3>1. z \in Seq(Char) /\ z # <<>> /\ z[1] = "]"
      <4>1. "]" \in Char  BY CommaIsChar
      <4> QED  BY <4>1, Single
    <3>2. r \in Seq(Char) /\ r # <<>> /\ r[1] \notin Mark /\ Agrees(r, z)
      BY <1>12, <2>3 DEF r
    <3> HIDE DEF z
    <3>3. r[1] = z[1]  BY <3>1, <3>2, AgreesFirst
    <3>4. "]" \in Mark  BY DEF Mark
    <3> QED  BY <3>1, <3>2, <3>3, <3>4
  <2>4. ASSUME NEW v \in Item(ItemKind), NEW c \in {",", "]"},
               Agrees(r, TokenText(ItemKind, v) \o <<c>>)
        PROVE  FALSE
    <3> DEFINE z == <<c>>
    <3>0. c \in Mark  BY DEF Mark
    <3>1. z \in Seq(Char) /\ z # <<>> /\ z[1] = c /\ z[1] \notin Digit
      <4>1. c \in Char /\ c \notin Digit  BY <3>0, CharsApart
      <4>2. z \in Seq(Char) /\ z # <<>> /\ z[1] = c  BY <4>1, Single
      <4> QED  BY <4>1, <4>2
    <3>2. Agrees(x \o q, TokenText(ItemKind, v) \o z)  BY <2>4 DEF r
    <3>3. ItemKind = "number" => look \notin Digit
      BY <1>1, <1>13 DEF DigitAfterItem
    <3> HIDE DEF z
    <3>4. ItemKind = "number" => q[1] \notin Digit /\ z[1] \notin Digit  BY <1>8, <3>1, <3>3
    <3>5. Agrees(TokenText(ItemKind, l) \o q, TokenText(ItemKind, v) \o z)  BY <3>2 DEF x
    <3>a. q \in Seq(Char) /\ z \in Seq(Char) /\ q # <<>> /\ z # <<>>  BY <1>8, <3>1
    <3>6. l = v  BY <3>4, <3>5, <3>a, TokenApart, ItemAssumption
    <3>7. Agrees(x \o q, x \o z)  BY <3>5, <3>6 DEF x
    <3>8. Agrees(q, z)  BY <1>4, <3>a, <3>7, AgreesRest
    <3>9. q[1] = z[1]  BY <3>8, <3>a, AgreesFirst
    <3> QED  BY <1>1, <1>8, <3>1, <3>9
  <2> QED  BY <2>2, <2>3, <2>4
<1> QED  BY <1>1, <1>10, <1>13

LEMMA OpenRefuses ==
    ASSUME NEW back, back # "array", OpenArray, frame' = "failed", look \in Char
    PROVE  /\ UNCHANGED <<look, text>> /\ frame = "array" /\ ~array.began
           /\ \A ws \in Seq(Item(ItemKind)) : \A t \in Seq(Char) :
                  ~Agrees(Append(ArrayRead(back), look), ArrayText(ws) \o t)
           /\ Append(ArrayRead(back), look) = <<look>>
<1>1. /\ frame = "array" /\ ~array.began /\ look # "[" /\ UNCHANGED <<look, text>>
  BY DEF OpenArray, ArrayBegins
<1>2. ArrayRead(back) = <<>>  BY <1>1 DEF ArrayRead
<1>3. Append(ArrayRead(back), look) = <<look>>  BY <1>2
<1>4. ASSUME NEW ws \in Seq(Item(ItemKind)), NEW t \in Seq(Char),
             Agrees(<<look>>, ArrayText(ws) \o t)
      PROVE  FALSE
  <2> DEFINE x == ArrayText(ws)
             q == <<look>>
  <2>1. x \in Seq(Char) /\ x # <<>> /\ x[1] = "["  BY ArrayTextTyped
  <2>2. q \in Seq(Char) /\ q # <<>> /\ q[1] = look  BY Single
  <2>3. Agrees(q, x \o t)  BY <1>4
  <2> HIDE DEF x, q
  <2>4. x \o t \in Seq(Char) /\ x \o t # <<>> /\ (x \o t)[1] = x[1]  BY <2>1, FirstStays
  <2>5. q[1] = (x \o t)[1]  BY <2>2, <2>3, <2>4, AgreesFirst
  <2> QED  BY <1>1, <2>1, <2>2, <2>4, <2>5
<1> QED  BY <1>1, <1>3, <1>4

LEMMA ItemRefuses ==
    ASSUME NEW back, back # "failed", PoolTypeOK, ArrayTypeOK, PoolInv, ArrayInv, ArrayOrder,
           ItemInv, ScalarStep("arrayLoop"), frame' = "failed"
    PROVE  /\ UNCHANGED <<look, text>> /\ look \in Char
           /\ \A ws \in Seq(Item(ItemKind)) : \A t \in Seq(Char) :
                  ~Agrees(Append(ArrayRead(back), look), ArrayText(ws) \o t)
           /\ ArrayRead(back) \in Seq(Char) /\ ArrayRead(back) # <<>>
           /\ ArrayRead(back)[1] = "["
<1> DEFINE k == ItemKind
           p == PartRead
           b == Before(ItemTexts(array.out))
<1>1. TokenInv  BY DEF ItemInv
<1>2. /\ frame \in {"string", "stringStart"} => k = "string"
      /\ frame \in {"number", "numberRest"} => k = "number"
  BY DEF ArrayInv, StringBusy, NumberBusy
<1>3. /\ UNCHANGED <<look, text>> /\ look \in Char /\ frame \in ScalarFrame
      /\ \A v \in Item(k) : \A r \in Seq(Char) :
             ~Agrees(Append(PartRead, look), TokenText(k, v) \o r)
      /\ \A c \in Mark : Agrees(Append(PartRead, look), <<c>>) => Starting /\ look = c
  <2>1. k \in Scalar /\ "arrayLoop" # "failed"  BY ItemAssumption
  <2> HIDE DEF k
  <2> QED  BY <1>1, <1>2, <2>1, ScalarRefuses
<1>4. array.out \in Seq(Item(ItemKind))  BY DEF ItemInv
<1>5. ItemTexts(array.out) \in Seq(Seq(Char))  BY <1>4, ItemTextsTyped
<1>6. b \in Seq(Char) /\ b # <<>> /\ b[1] = "["  BY <1>5, BeforeBegins
<1>7. p \in Seq(Char)  BY PartReadTyped
<1>8. ArrayRead(back) = b \o p
  <2>1. array.began /\ array.expect /\ frame # "arrayLoop"
    BY <1>3 DEF ArrayOrder, ScalarFrame
  <2> QED  BY <2>1 DEF ArrayRead, ItemRead
<1> HIDE DEF b, p
<1>9. /\ b \o p \in Seq(Char) /\ b \o p # <<>> /\ (b \o p)[1] = "["
  BY <1>6, <1>7, FirstStays
<1>10. look \in Char  BY <1>3
<1>11. Append(b \o p, look) = b \o Append(p, look) /\ Append(p, look) \in Seq(Char)
  BY <1>6, <1>7, <1>10, TextAppends
<1>12. ASSUME NEW ws \in Seq(Item(ItemKind)), NEW t \in Seq(Char),
              Agrees(Append(ArrayRead(back), look), ArrayText(ws) \o t)
       PROVE  FALSE
  <2> DEFINE r == Append(p, look)
  <2>1. r \in Seq(Char) /\ Agrees(Before(ItemTexts(array.out)) \o r, ArrayText(ws) \o t)
    BY <1>8, <1>11, <1>12 DEF b
  <2> HIDE DEF r
  <2>2. \/ array.out = <<>> /\ ws = <<>> /\ Agrees(r, <<"]">>)
        \/ \E v \in Item(ItemKind) : \E c \in {",", "]"} :
              Agrees(r, TokenText(ItemKind, v) \o <<c>>)
    BY <1>4, <2>1, ArrayGoesOn
  <2>3. ASSUME array.out = <<>>, Agrees(r, <<"]">>) PROVE FALSE
    <3>1. "]" \in Mark  BY DEF Mark
    <3>2. Starting /\ look = "]"  BY <1>3, <2>3, <3>1 DEF r, p
    <3> QED  BY <2>3, <3>2 DEF ItemInv
  <2>4. ASSUME NEW v \in Item(ItemKind), NEW c \in {",", "]"},
               Agrees(r, TokenText(ItemKind, v) \o <<c>>)
        PROVE  FALSE
    <3>1. c \in Char  BY CommaIsChar
    <3>2. <<c>> \in Seq(Char)  BY <3>1, Single
    <3> QED  BY <1>3, <2>4, <3>2 DEF r, p
  <2> QED  BY <2>2, <2>3, <2>4
<1> QED  BY <1>3, <1>8, <1>9, <1>12

LEMMA ArrayRefuses ==
    ASSUME NEW back, back \notin ScalarFrame \cup ArrayFrame \cup {"failed"},
           PoolTypeOK, ArrayTypeOK, PoolInv, ArrayInv, ArrayOrder, ItemInv,
           frame = "array" /\ ~array.began => look \in Char \ {Blank, Nul},
           ArrayStep(back), frame # "failed", frame' = "failed"
    PROVE  /\ UNCHANGED <<look, text>> /\ look \in Char
           /\ \/ DigitAfterItem
              \/ \A ws \in Seq(Item(ItemKind)) : \A t \in Seq(Char) :
                     ~Agrees(Append(ArrayRead(back), look), ArrayText(ws) \o t)
           /\ Agrees(Append(ArrayRead(back), look), <<"]">>) =>
                  frame = "array" /\ ~array.began /\ look = "]"
<1>1. back # "failed" /\ back # "array"  BY DEF ArrayFrame
<1>2. OpenArray \/ Separate \/ ScalarStep("arrayLoop")
  BY <1>1 DEF ArrayStep, ResumeItem, ResumeArray, SkipArrayBlank, EndArrayChunk, CloseArray,
     ReadItem, KeepItem, WaitForItem, ArrayNeedsMore, ReturnTo, EntryFrame, ResumedFrame
<1>3. ASSUME ArrayRead(back) \in Seq(Char), ArrayRead(back) # <<>>, ArrayRead(back)[1] = "[",
             look \in Char
      PROVE  ~Agrees(Append(ArrayRead(back), look), <<"]">>)
  <2> DEFINE a == ArrayRead(back)
             q == <<look>>
             z == <<"]">>
  <2>1. z \in Seq(Char) /\ z # <<>> /\ z[1] = "]"
    <3>1. "]" \in Char  BY CommaIsChar
    <3> QED  BY <3>1, Single
  <2>2. q \in Seq(Char) /\ a \in Seq(Char) /\ a # <<>> /\ a[1] = "["  BY <1>3, Single
  <2>3. Append(a, look) = a \o q  BY <1>3, AppendIsConcat
  <2> HIDE DEF a, q, z
  <2>4. a \o q \in Seq(Char) /\ a \o q # <<>> /\ (a \o q)[1] = a[1]  BY <2>2, FirstStays
  <2>5. ~Agrees(a \o q, z)
    <3> SUFFICES ASSUME Agrees(a \o q, z) PROVE FALSE
      OBVIOUS
    <3>1. (a \o q)[1] = z[1]  BY <2>1, <2>4, AgreesFirst
    <3> QED  BY <2>1, <2>2, <2>4, <3>1
  <2> QED  BY <2>3, <2>5 DEF a, z
<1>4. CASE OpenArray
  <2>1. look \in Char  BY <1>4 DEF OpenArray, ArrayBegins
  <2>2. /\ UNCHANGED <<look, text>> /\ frame = "array" /\ ~array.began
        /\ \A ws \in Seq(Item(ItemKind)) : \A t \in Seq(Char) :
               ~Agrees(Append(ArrayRead(back), look), ArrayText(ws) \o t)
        /\ Append(ArrayRead(back), look) = <<look>>
    BY <1>1, <1>4, <2>1, OpenRefuses
  <2>3. ASSUME Agrees(<<look>>, <<"]">>) PROVE look = "]"
    <3>1. Len(<<look>>) = 1 /\ Len(<<"]">>) = 1 /\ <<look>>[1] = look /\ <<"]">>[1] = "]"
      OBVIOUS
    <3> QED  BY <2>3, <3>1 DEF Agrees
  <2> QED  BY <2>1, <2>2, <2>3
<1>5. CASE Separate  BY <1>3, <1>5, SeparateRefuses
<1>6. CASE ScalarStep("arrayLoop")  BY <1>1, <1>3, <1>6, ItemRefuses
<1> QED  BY <1>2, <1>4, <1>5, <1>6

----------------------------------------------------------------------------
(* What parsers that contain this one need as well.                         *)
LEMMA PrefixesAgree ==
    ASSUME NEW S, NEW t \in Seq(S), NEW s \in Prefixes(t)
    PROVE  Agrees(s, t)
<1>1. PICK l \in 0..Len(t) : s = SubSeq(t, 1, l)  BY DEF Prefixes
<1>2. l \in Nat /\ l <= Len(t) /\ Len(t) \in Nat  BY <1>1
<1>3. Len(s) = l /\ \A i \in 1..l : s[i] = t[i]  BY <1>1, <1>2
<1> QED  BY <1>3 DEF Agrees

LEMMA LastAppended ==
    ASSUME NEW S, NEW s \in Seq(S), NEW e
    PROVE  Append(s, e) # <<>> /\ Append(s, e)[Len(Append(s, e))] = e
OBVIOUS

(* After skipWhitespace no digit is last, or the history is as it was. *)
LEMMA SkippedLast ==
    ASSUME PoolTypeOK, Skip
    PROVE  text' = <<>> \/ text'[Len(text')] \notin Digit
<1>1. Gap \notin Digit  BY CharAssumption
<1>2. Append(text, Gap)[Len(Append(text, Gap))] = Gap
  BY LastAppended DEF PoolTypeOK
<1> QED  BY <1>1, <1>2 DEF Skip

(* After ++Begin it is the character that was at Begin. *)
LEMMA AdvancedLast ==
    ASSUME PoolTypeOK, Advance
    PROVE  text' # <<>> /\ text'[Len(text')] = look
BY LastAppended DEF PoolTypeOK, Advance

(* A digit that is not the last of what was read, but of what is left of it *)
(* without whitespace: only whitespace is behind it.                        *)
LEMMA GapIsLast ==
    ASSUME NEW t \in Seq(Char \cup {Gap}), t # <<>> => t[Len(t)] \notin Digit,
           NEW p \in Seq(Char), NEW d \in Digit, WithoutGaps(t) = Append(p, d)
    PROVE  t # <<>> /\ t[Len(t)] = Gap
<1>1. t # <<>>
  <2> SUFFICES ASSUME t = <<>> PROVE FALSE
    OBVIOUS
  <2>1. Append(p, d) = <<>>  BY WithoutGapsEmpty
  <2>2. d \in Char  BY CharsApart
  <2> QED  BY <2>1, <2>2, AppendProperties
<1>2. PICK s \in Seq(Char \cup {Gap}), c \in Char \cup {Gap} : t = Append(s, c)
  BY <1>1, SequenceEmptyOrAppend
<1>3. t[Len(t)] = c  BY <1>2, LastAppended
<1>4. c \notin Digit  BY <1>1, <1>3
<1>5. c = Gap
  <2> SUFFICES ASSUME c \in Char PROVE FALSE
    OBVIOUS
  <2>1. WithoutGaps(t) = Append(WithoutGaps(s), c)  BY <1>2, WithoutGapsAppend
  <2> DEFINE w == WithoutGaps(s)
  <2>2. w \in Seq(Char)  BY <1>2, WithoutGapsAppend
  <2>3. Append(w, c) = Append(p, d) /\ d \in Char  BY <2>1, CharsApart
  <2> HIDE DEF w
  <2>4. c = d  BY <2>2, <2>3, AppendInjective
  <2> QED  BY <1>4, <2>4
<1> QED  BY <1>1, <1>3, <1>5

(* A number ends with a digit, and so does what it is the end of.           *)
LEMMA EndsInDigit ==
    ASSUME NEW b \in Seq(Char), NEW v \in Item("number")
    PROVE  \E p \in Seq(Char) : \E d \in Digit : b \o v = Append(p, d)
<1>1. v \in Seq(Digit) /\ v # <<>>  BY DEF Item
<1>2. PICK g \in Seq(Digit), d \in Digit : v = Append(g, d)
  BY <1>1, SequenceEmptyOrAppend
<1>3. g \in Seq(Char) /\ d \in Char  BY SeqOfSubset, CharsApart
<1>4. b \o v = Append(b \o g, d)  BY <1>2, <1>3, TextAppends
<1>5. b \o g \in Seq(Char)  BY <1>3, ConcatProperties
<1> QED  BY <1>4, <1>5

(* What an array has read ends so where a digit is behind an item.          *)
LEMMA ItemEndsInDigit ==
    ASSUME NEW back, ArrayOrder, ItemInv, DigitAfterItem
    PROVE  \E b \in Seq(Char) : \E v \in Item("number") : ArrayRead(back) = b \o v
<1>1. /\ frame = "arrayLoop" /\ ret = "none" /\ ~array.expect /\ ItemKind = "number"
  BY DEF DigitAfterItem
<1>2. array.out \in Seq(Item(ItemKind)) /\ array.out # <<>> /\ array.began
  BY <1>1 DEF ItemInv, ArrayOrder
<1>3. PICK f \in Seq(Item(ItemKind)), l \in Item(ItemKind) : array.out = Append(f, l)
  BY <1>2, SequenceEmptyOrAppend
<1>4. TokenText(ItemKind, l) = l /\ l \in Seq(Char)
  BY <1>1, ItemTyped, ItemAssumption DEF TokenText
<1>5. ItemTexts(f) \in Seq(Seq(Char)) /\ f \in Seq(Seq(Char))  BY ItemTextsTyped
<1>6. ItemTexts(array.out) = Append(ItemTexts(f), l)  BY <1>3, <1>4, <1>5, ItemTextsAppend
<1> DEFINE b == Before(ItemTexts(f))
<1>7. b \in Seq(Char) /\ Opened(ItemTexts(array.out)) = b \o l
  BY <1>4, <1>5, <1>6, OpenedTyped, OpenedAppend
<1>8. ArrayRead(back) = b \o l  BY <1>1, <1>2, <1>7 DEF ArrayRead
<1> QED  BY <1>1, <1>7, <1>8

(* A step that leaves the pool's parts and the array as they are, with no   *)
(* scalar parser running or none that has looked at a character.            *)
LEMMA RestKeepsItems ==
    ASSUME ItemInv, UNCHANGED <<buffer, scan, string, number>>,
           array'.out = array.out \/ array'.out = <<>>,
           \/ /\ frame \notin {"string", "number", "numberRest", "stringStart"}
              /\ frame' \notin {"string", "number", "numberRest", "stringStart", "arrayLoop"}
           \/ UNCHANGED <<frame, ret, array>> /\ look = Unread
    PROVE  ItemInv'
<1>1. CASE /\ frame \notin {"string", "number", "numberRest", "stringStart"}
           /\ frame' \notin {"string", "number", "numberRest", "stringStart", "arrayLoop"}
  <2>1. TokenInv' /\ ~Starting'  BY <1>1 DEF ItemInv, TokenInv, Starting, StringBusy
  <2>2. <<>> \in Seq(Item(ItemKind))  BY EmptyIsSeq
  <2>3. array'.out \in Seq(Item(ItemKind))  BY <2>2 DEF ItemInv
  <2> QED  BY <1>1, <2>1, <2>3 DEF ItemInv
<1>2. CASE UNCHANGED <<frame, ret, array>> /\ look = Unread
  <2>1. ~Starting /\ ~Starting'
    <3>1. Unread \notin Char  BY CharsApart
    <3> QED  BY <1>2, <3>1 DEF ItemInv, TokenInv, Starting
  <2>2. TokenInv'  BY <1>2, <2>1 DEF ItemInv, TokenInv, StringBusy
  <2> QED  BY <1>2, <2>1, <2>2 DEF ItemInv, PoolValue
<1> QED  BY <1>1, <1>2
=============================================================================
