---------------------------- MODULE StringProofs ----------------------------
(***************************************************************************)
(* Theorems of StringRoundTrip for every alphabet and bound: what is read  *)
(* of a string is what its text says, only what begins no string is        *)
(* refused, and a value that is written is read back.                      *)
(***************************************************************************)
EXTENDS StringRoundTrip, SequenceLemmas

(* The units of a string's text, and the bytes each of them stands for.     *)
Four == {h \in Seq(Hex) : Len(h) = 4}

Unit ==
    {<<c>> : c \in PlainByte} \cup {<<Backslash, c>> : c \in DOMAIN Escape}
    \cup {<<Backslash, LetterU>> \o h : h \in Four}

BytesOf(u) ==
    IF Len(u) = 1 THEN u
    ELSE IF Len(u) = 2 THEN <<Escape[u[2]]>>
    ELSE Utf8(FourDigits(<<u[3], u[4], u[5], u[6]>>))

BytesOfAll(us) == [i \in 1..Len(us) |-> BytesOf(us[i])]
Bytes(us) == FlattenSeq(BytesOfAll(us))

TextOf(us) == <<Quote>> \o FlattenSeq(us)

(* What was read of a unit that is not over. *)
Partial ==
    IF state = "Normal" THEN <<>>
    ELSE IF state = "Escaped" THEN <<Backslash>>
    ELSE <<Backslash, LetterU>> \o hexDigits

ParserTypeOK ==
    /\ frame \in {"caller", "start", "body", "failed"}
    /\ look \in Byte \cup {Unread, EndOfChunk}
    /\ finished \in BOOLEAN /\ complete \in BOOLEAN
    /\ state \in {"Normal", "Escaped", "Unicode"}
    /\ hexDigits \in Seq(Byte) /\ Len(hexDigits) < 4
    /\ buffer \in Seq(Byte) /\ out \in Seq(Byte) /\ text \in Seq(Byte)

(* Before a string, in one, after one, and after an exception.              *)
AtRest ==
    /\ text = <<>> /\ frame \in {"caller", "start"} /\ finished /\ ~complete
    /\ buffer = <<>> /\ state = "Normal" /\ hexDigits = <<>>

Reading ==
    /\ text # <<>> /\ ~complete /\ out = <<>>
    /\ frame = "body" \/ (frame = "caller" /\ ~finished)
    /\ state # "Unicode" => hexDigits = <<>>
    /\ \E us \in Seq(Unit) : text = TextOf(us) \o Partial /\ buffer = Bytes(us)

Done ==
    /\ complete /\ frame = "caller" /\ finished
    /\ buffer = <<>> /\ state = "Normal" /\ hexDigits = <<>>
    /\ \E us \in Seq(Unit) : text = TextOf(us) \o <<Quote>> /\ out = Bytes(us)

(* After p, a part of a unit, there is no c. *)
Wrong(p, c) ==
    \/ p = <<>> /\ c < 32
    \/ p = <<Backslash>> /\ c \notin DOMAIN Escape \cup {LetterU}
    \/ \E h \in Seq(Byte) :
            /\ p = <<Backslash, LetterU>> \o h /\ Len(h) = 3
            /\ ~(Range(Append(h, c)) \subseteq Hex)

Refused ==
    /\ frame = "failed" /\ ~complete
    /\ \/ text = <<>>
       \/ /\ look \in Byte
          /\ \E us \in Seq(Unit), p \in Seq(Byte) : text = TextOf(us) \o p /\ Wrong(p, look)

ReadInv == AtRest \/ Reading \/ Done \/ Refused

----------------------------------------------------------------------------
LEMMA Utf8Typed ==
    ASSUME NEW v \in Nat, v < 65536
    PROVE  Utf8(v) \in Seq(Byte)
<1>1. CASE v < 128
  <2>1. v \in Byte  BY <1>1 DEF Byte
  <2> QED  BY <1>1, <2>1 DEF Utf8
<1>2. CASE ~(v < 128) /\ v < 2048
  <2>1. 192 + ((v \div 64) % 32) \in Byte /\ 128 + (v % 64) \in Byte  BY DEF Byte
  <2> QED  BY <1>2, <2>1 DEF Utf8
<1>3. CASE ~(v < 2048)
  <2>1. /\ 224 + ((v \div 4096) % 16) \in Byte /\ 128 + ((v \div 64) % 64) \in Byte
        /\ 128 + (v % 64) \in Byte
    BY DEF Byte
  <2> QED  BY <1>3, <2>1 DEF Utf8
<1> QED  BY <1>1, <1>2, <1>3

LEMMA FourDigitsTyped ==
    ASSUME NEW a \in Hex, NEW b \in Hex, NEW c \in Hex, NEW d \in Hex
    PROVE  FourDigits(<<a, b, c, d>>) \in Nat /\ FourDigits(<<a, b, c, d>>) < 65536
<1>1. ASSUME NEW x \in Hex PROVE HexValue(x) \in 0..15
  BY DEF Hex, HexValue
<1>2. /\ HexValue(a) \in 0..15 /\ HexValue(b) \in 0..15
      /\ HexValue(c) \in 0..15 /\ HexValue(d) \in 0..15
  BY <1>1
<1>3. FourDigits(<<a, b, c, d>>) = 4096 * HexValue(a) + 256 * HexValue(b) + 16 * HexValue(c) + HexValue(d)
  BY DEF FourDigits
<1> DEFINE p == HexValue(a)
           q == HexValue(b)
           r == HexValue(c)
           t == HexValue(d)
<1> HIDE DEF p, q, r, t
<1>4. p \in 0..15 /\ q \in 0..15 /\ r \in 0..15 /\ t \in 0..15  BY <1>2 DEF p, q, r, t
<1>5. 4096 * p + 256 * q + 16 * r + t \in Nat /\ 4096 * p + 256 * q + 16 * r + t < 65536
  BY <1>4
<1> QED  BY <1>3, <1>5 DEF p, q, r, t

LEMMA EscapeTyped == \A c \in DOMAIN Escape : c \in Byte /\ Escape[c] \in Byte
BY DEF Escape, Byte, Quote, Backslash

(* A unit of four digits. *)
LEMMA UnitOfFour ==
    ASSUME NEW h \in Seq(Byte), Len(h) = 4
    PROVE  /\ <<Backslash, LetterU>> \o h \in Seq(Byte)
           /\ Len(<<Backslash, LetterU>> \o h) = 6
           /\ (<<Backslash, LetterU>> \o h)[1] = Backslash
           /\ (<<Backslash, LetterU>> \o h)[2] = LetterU
           /\ \A i \in 1..4 : (<<Backslash, LetterU>> \o h)[i + 2] = h[i]
<1> DEFINE e == <<Backslash, LetterU>>
<1>1. e \in Seq(Byte) /\ Len(e) = 2 /\ e[1] = Backslash /\ e[2] = LetterU
  BY DEF Backslash, LetterU, Byte
<1> HIDE DEF e
<1>2. /\ e \o h \in Seq(Byte) /\ Len(e \o h) = 6
      /\ \A i \in 1..6 : (e \o h)[i] = IF i <= 2 THEN e[i] ELSE h[i - 2]
  <2>1. /\ e \o h \in Seq(Byte) /\ Len(e \o h) = Len(e) + Len(h)
        /\ \A i \in 1..(Len(e) + Len(h)) :
              (e \o h)[i] = IF i <= Len(e) THEN e[i] ELSE h[i - Len(e)]
    BY <1>1, ConcatProperties
  <2>2. Len(e) + Len(h) = 6  BY <1>1
  <2> QED  BY <1>1, <2>1, <2>2
<1>3. ASSUME NEW i \in 1..4 PROVE (e \o h)[i + 2] = h[i]
  <2>1. i + 2 \in 1..6 /\ ~(i + 2 <= 2) /\ i + 2 - 2 = i  OBVIOUS
  <2> QED  BY <1>2, <2>1
<1>4. (e \o h)[1] = Backslash /\ (e \o h)[2] = LetterU
  <2>1. 1 \in 1..6 /\ 2 \in 1..6  OBVIOUS
  <2> QED  BY <1>1, <1>2, <2>1
<1> QED  BY <1>2, <1>3, <1>4 DEF e

LEMMA HexIsByte == Hex \subseteq Byte
BY DEF Hex, Byte

(* The three kinds of unit. *)
LEMMA UnitKinds ==
    ASSUME NEW u \in Unit
    PROVE  /\ u \in Seq(Byte)
           /\ \/ Len(u) = 1 /\ u[1] \in PlainByte /\ u = <<u[1]>> /\ BytesOf(u) = u
              \/ /\ Len(u) = 2 /\ u[1] = Backslash /\ u[2] \in DOMAIN Escape
                 /\ BytesOf(u) = <<Escape[u[2]]>>
              \/ /\ Len(u) = 6 /\ u[1] = Backslash /\ u[2] = LetterU
                 /\ \A i \in 3..6 : u[i] \in Hex
                 /\ BytesOf(u) = Utf8(FourDigits(<<u[3], u[4], u[5], u[6]>>))
<1>1. CASE \E c \in PlainByte : u = <<c>>
  <2>1. PICK c \in PlainByte : u = <<c>>  BY <1>1
  <2>2. c \in Byte  BY DEF PlainByte, Byte
  <2>3. u \in Seq(Byte) /\ Len(u) = 1 /\ u[1] = c  BY <2>1, <2>2
  <2> QED  BY <2>1, <2>3 DEF BytesOf
<1>2. CASE \E c \in DOMAIN Escape : u = <<Backslash, c>>
  <2>1. PICK c \in DOMAIN Escape : u = <<Backslash, c>>  BY <1>2
  <2>2. c \in Byte /\ Backslash \in Byte  BY EscapeTyped DEF Byte, Backslash
  <2>3. u \in Seq(Byte) /\ Len(u) = 2 /\ u[1] = Backslash /\ u[2] = c  BY <2>1, <2>2
  <2> QED  BY <2>3 DEF BytesOf
<1>3. CASE \E h \in Four : u = <<Backslash, LetterU>> \o h
  <2>1. PICK h \in Four : u = <<Backslash, LetterU>> \o h  BY <1>3
  <2>2. h \in Seq(Hex) /\ Len(h) = 4  BY <2>1 DEF Four
  <2>3. h \in Seq(Byte)  BY <2>2, HexIsByte
  <2>4. /\ u \in Seq(Byte) /\ Len(u) = 6 /\ u[1] = Backslash /\ u[2] = LetterU
        /\ \A i \in 1..4 : u[i + 2] = h[i]
    BY <2>1, <2>2, <2>3, UnitOfFour
  <2>5. ASSUME NEW i \in 3..6 PROVE u[i] \in Hex
    <3>1. i - 2 \in 1..4 /\ i - 2 + 2 = i  OBVIOUS
    <3>2. u[i] = h[i - 2]  BY <2>4, <3>1
    <3>3. h[i - 2] \in Hex  BY <2>2, <3>1
    <3> QED  BY <3>2, <3>3
  <2> QED  BY <2>4, <2>5 DEF BytesOf
<1> QED  BY <1>1, <1>2, <1>3 DEF Unit

LEMMA UnitTyped ==
    ASSUME NEW u \in Unit
    PROVE  u \in Seq(Byte) /\ u # <<>> /\ BytesOf(u) \in Seq(Byte)
<1>1. /\ u \in Seq(Byte)
      /\ \/ Len(u) = 1 /\ BytesOf(u) = u
         \/ Len(u) = 2 /\ u[2] \in DOMAIN Escape /\ BytesOf(u) = <<Escape[u[2]]>>
         \/ /\ Len(u) = 6 /\ \A i \in 3..6 : u[i] \in Hex
            /\ BytesOf(u) = Utf8(FourDigits(<<u[3], u[4], u[5], u[6]>>))
  BY UnitKinds
<1>2. CASE Len(u) = 1  BY <1>1, <1>2
<1>3. CASE Len(u) = 2
  <2>1. Escape[u[2]] \in Byte  BY <1>1, <1>3, EscapeTyped
  <2> QED  BY <1>1, <1>3, <2>1
<1>4. CASE Len(u) = 6
  <2>1. /\ \A i \in 3..6 : u[i] \in Hex
        /\ BytesOf(u) = Utf8(FourDigits(<<u[3], u[4], u[5], u[6]>>))
    BY <1>1, <1>4
  <2>2. u[3] \in Hex /\ u[4] \in Hex /\ u[5] \in Hex /\ u[6] \in Hex  BY <2>1
  <2> DEFINE v == FourDigits(<<u[3], u[4], u[5], u[6]>>)
  <2>3. v \in Nat /\ v < 65536  BY <2>2, FourDigitsTyped
  <2> HIDE DEF v
  <2>4. Utf8(v) \in Seq(Byte)  BY <2>3, Utf8Typed
  <2>5. BytesOf(u) = Utf8(v)  BY <2>1, Zenon DEF v
  <2>6. BytesOf(u) \in Seq(Byte)  BY <2>4, <2>5
  <2>7. u \in Seq(Byte)  BY UnitKinds
  <2>8. u # <<>>  BY <1>4, <2>7
  <2> QED  BY <2>6, <2>7, <2>8
<1> QED  BY <1>1, <1>2, <1>3, <1>4

(* One unit more. *)
LEMMA BytesTyped ==
    ASSUME NEW us \in Seq(Unit)
    PROVE  /\ us \in Seq(Seq(Byte)) /\ BytesOfAll(us) \in Seq(Seq(Byte))
           /\ FlattenSeq(us) \in Seq(Byte) /\ Bytes(us) \in Seq(Byte)
<1>1. \A i \in 1..Len(us) : us[i] \in Unit  OBVIOUS
<1>2. \A u \in Unit : u \in Seq(Byte) /\ BytesOf(u) \in Seq(Byte)  BY UnitTyped
<1>3. us \in Seq(Seq(Byte))  BY <1>2
<1>4. BytesOfAll(us) \in Seq(Seq(Byte))
  <2>1. Len(us) \in Nat /\ \A i \in 1..Len(us) : BytesOf(us[i]) \in Seq(Byte)  BY <1>1, <1>2
  <2> QED  BY <2>1 DEF BytesOfAll
<1>5. FlattenSeq(us) \in Seq(Byte)  BY <1>3, FlattenTyped
<1>6. FlattenSeq(BytesOfAll(us)) \in Seq(Byte)  BY <1>4, FlattenTyped
<1> QED  BY <1>3, <1>4, <1>5, <1>6 DEF Bytes

LEMMA BytesAppend ==
    ASSUME NEW us \in Seq(Unit), NEW u \in Unit
    PROVE  Bytes(Append(us, u)) = Bytes(us) \o BytesOf(u)
<1> DEFINE b == BytesOfAll(us)
           c == BytesOfAll(Append(us, u))
           e == BytesOf(u)
<1>1. b \in Seq(Seq(Byte)) /\ e \in Seq(Byte)  BY BytesTyped, UnitTyped
<1>2. /\ Append(us, u) \in Seq(Unit) /\ Len(Append(us, u)) = Len(us) + 1
      /\ \A i \in 1..Len(us) : Append(us, u)[i] = us[i]
      /\ Append(us, u)[Len(us) + 1] = u
  BY AppendProperties
<1>3. c \in Seq(Seq(Byte))  BY <1>2, BytesTyped
<1>4. Len(b) = Len(us) /\ Len(c) = Len(us) + 1 /\ Len(us) \in Nat
  BY <1>2 DEF BytesOfAll
<1>5. /\ \A i \in 1..Len(us) : b[i] = BytesOf(us[i])
      /\ \A i \in 1..Len(us) + 1 : c[i] = BytesOf(Append(us, u)[i])
  BY <1>2 DEF BytesOfAll
<1>6. Append(b, e) = c
  <2> DEFINE S == Seq(Byte)
  <2>1. b \in Seq(S) /\ c \in Seq(S) /\ e \in S  BY <1>1, <1>3
  <2>2. \A i \in 1..Len(us) : c[i] = b[i]
    <3> TAKE i \in 1..Len(us)
    <3>1. i \in 1..Len(us) + 1  BY <1>4
    <3> QED  BY <1>2, <1>5, <3>1
  <2>3. c[Len(us) + 1] = e
    <3>1. Len(us) + 1 \in 1..Len(us) + 1  BY <1>4
    <3> QED  BY <1>2, <1>5, <3>1
  <2> HIDE DEF b, c, e, S
  <2>4. /\ Append(b, e) \in Seq(S) /\ Len(Append(b, e)) = Len(b) + 1
        /\ \A i \in 1..Len(b) : Append(b, e)[i] = b[i]
        /\ Append(b, e)[Len(b) + 1] = e
    BY <2>1, AppendProperties
  <2>5. \A i \in 1..Len(c) : Append(b, e)[i] = c[i]
    <3> TAKE i \in 1..Len(c)
    <3>1. i \in 1..Len(us) \/ i = Len(us) + 1  BY <1>4
    <3> QED  BY <1>4, <2>2, <2>3, <2>4, <3>1
  <2>6. Len(Append(b, e)) = Len(c)  BY <1>4, <2>4
  <2> QED  BY <2>1, <2>4, <2>5, <2>6, SeqEqual
<1> HIDE DEF b, c, e
<1>7. FlattenSeq(Append(b, e)) = FlattenSeq(b) \o e  BY <1>1, FlattenAppend
<1> QED  BY <1>6, <1>7 DEF b, c, e, Bytes

LEMMA TextTyped ==
    ASSUME NEW us \in Seq(Unit)
    PROVE  TextOf(us) \in Seq(Byte) /\ TextOf(us) # <<>> /\ TextOf(us)[1] = Quote
           /\ Len(TextOf(us)) = Len(FlattenSeq(us)) + 1 /\ Len(FlattenSeq(us)) \in Nat
           /\ \A i \in 1..Len(FlattenSeq(us)) : TextOf(us)[i + 1] = FlattenSeq(us)[i]
<1> DEFINE q == <<Quote>>
           f == FlattenSeq(us)
<1>1. q \in Seq(Byte) /\ Len(q) = 1 /\ q[1] = Quote  BY DEF Quote, Byte
<1>2. f \in Seq(Byte)  BY BytesTyped
<1> HIDE DEF q, f
<1>3. /\ q \o f \in Seq(Byte) /\ Len(q \o f) = Len(q) + Len(f)
      /\ \A i \in 1..(Len(q) + Len(f)) : (q \o f)[i] = IF i <= Len(q) THEN q[i] ELSE f[i - Len(q)]
  BY <1>1, <1>2, ConcatProperties
<1>4. Len(f) \in Nat  BY <1>2
<1>5. (q \o f)[1] = Quote
  <2>1. 1 \in 1..(Len(q) + Len(f))  BY <1>1, <1>4
  <2> QED  BY <1>1, <1>3, <2>1
<1>6. ASSUME NEW i \in 1..Len(f) PROVE (q \o f)[i + 1] = f[i]
  <2>1. i + 1 \in 1..(Len(q) + Len(f)) /\ ~(i + 1 <= Len(q)) /\ i + 1 - Len(q) = i  BY <1>1, <1>4
  <2> QED  BY <1>3, <2>1
<1>7. Len(q \o f) = Len(f) + 1 /\ q \o f # <<>>  BY <1>1, <1>3, <1>4
<1> QED  BY <1>3, <1>4, <1>5, <1>6, <1>7 DEF q, f, TextOf

LEMMA TextAppend ==
    ASSUME NEW us \in Seq(Unit), NEW u \in Unit
    PROVE  TextOf(Append(us, u)) = TextOf(us) \o u
<1> DEFINE q == <<Quote>>
           f == FlattenSeq(us)
<1>1. q \in Seq(Byte)  BY DEF Quote, Byte
<1>2. f \in Seq(Byte) /\ us \in Seq(Seq(Byte)) /\ u \in Seq(Byte)  BY BytesTyped, UnitTyped
<1>3. FlattenSeq(Append(us, u)) = f \o u
  BY <1>2, FlattenAppend
<1> HIDE DEF q, f
<1>4. q \o (f \o u) = (q \o f) \o u  BY <1>1, <1>2, ConcatAssociative
<1> QED  BY <1>3, <1>4 DEF q, f, TextOf

LEMMA NoUnits ==
    /\ <<>> \in Seq(Unit) /\ Bytes(<<>>) = <<>> /\ TextOf(<<>>) = <<Quote>>
<1>1. FlattenSeq(<<>>) = <<>>  BY DEF FlattenSeq
<1>2. BytesOfAll(<<>>) = <<>>  BY DEF BytesOfAll
<1>3. <<Quote>> \in Seq(Byte)  BY DEF Quote, Byte
<1>4. <<Quote>> \o <<>> = <<Quote>>  BY <1>3, ConcatEmptySeq
<1>5. <<>> \in Seq(Unit)  BY EmptySeq
<1> QED  BY <1>1, <1>2, <1>4, <1>5, Zenon DEF Bytes, TextOf

(* Which units the steps of the parser complete. *)
LEMMA PlainUnit ==
    ASSUME NEW c \in PlainByte
    PROVE  <<c>> \in Unit /\ BytesOf(<<c>>) = <<c>>
BY DEF Unit, BytesOf

LEMMA EscapeUnit ==
    ASSUME NEW c \in DOMAIN Escape
    PROVE  <<Backslash, c>> \in Unit /\ BytesOf(<<Backslash, c>>) = <<Escape[c]>>
<1>1. <<Backslash, c>> \in Unit  BY DEF Unit
<1>2. Len(<<Backslash, c>>) = 2 /\ <<Backslash, c>>[2] = c  OBVIOUS
<1> QED  BY <1>1, <1>2 DEF BytesOf

LEMMA DigitsUnit ==
    ASSUME NEW h \in Seq(Byte), Len(h) = 4, Range(h) \subseteq Hex
    PROVE  /\ <<Backslash, LetterU>> \o h \in Unit
           /\ BytesOf(<<Backslash, LetterU>> \o h) = Utf8(FourDigits(h))
<1> DEFINE u == <<Backslash, LetterU>> \o h
<1>1. h \in Seq(Hex)
  <2>1. Range(h) = {h[i] : i \in 1..Len(h)}  BY RangeEquality
  <2>2. \A i \in 1..Len(h) : h[i] \in Hex  BY <2>1
  <2> QED  BY <2>2
<1>2. u \in Unit  BY <1>1 DEF Unit, Four
<1>3. Len(u) = 6 /\ \A i \in 1..4 : u[i + 2] = h[i]  BY UnitOfFour
<1>4. u[3] = h[1] /\ u[4] = h[2] /\ u[5] = h[3] /\ u[6] = h[4]
  <2>1. /\ 1 \in 1..4 /\ 2 \in 1..4 /\ 3 \in 1..4 /\ 4 \in 1..4
        /\ 1 + 2 = 3 /\ 2 + 2 = 4 /\ 3 + 2 = 5 /\ 4 + 2 = 6
    OBVIOUS
  <2> HIDE DEF u
  <2> QED  BY <1>3, <2>1
<1> HIDE DEF u
<1>5. BytesOf(u) = Utf8(FourDigits(<<h[1], h[2], h[3], h[4]>>))  BY <1>3, <1>4 DEF BytesOf
<1>6. FourDigits(<<h[1], h[2], h[3], h[4]>>) = FourDigits(h)  BY DEF FourDigits
<1> QED  BY <1>2, <1>5, <1>6 DEF u

(* What Feed may give. *)
Fed == \E c \in Byte \cup {EndOfChunk} : Feed(c)

LEMMA ParserKeepsTypes ==
    ASSUME ParserTypeOK, Parse \/ StringStep \/ Fed
    PROVE  ParserTypeOK'
<1> USE DEF ParserTypeOK
<1>a. Quote \in Byte /\ Backslash \in Byte /\ LetterU \in Byte /\ <<>> \in Seq(Byte) /\ Len(<<>>) = 0
  BY DEF Quote, Backslash, LetterU, Byte
<1>b. ASSUME look \in Byte, Advance  PROVE text' \in Seq(Byte) /\ look' \in Byte \cup {Unread, EndOfChunk}
  BY <1>b, AppendProperties DEF Advance
<1>1. CASE Parse  BY <1>1 DEF Parse
<1>2. CASE Fed  BY <1>2 DEF Fed, Feed
<1>3. CASE Start
  <2>1. CASE look = Quote  BY <1>3, <1>a, <1>b, <2>1 DEF Start
  <2>2. CASE look # Quote  BY <1>3, <2>2 DEF Start, Throw
  <2> QED  BY <2>1, <2>2
<1>4. CASE Plain
  <2>1. look \in Byte  BY <1>4 DEF Plain
  <2>2. CASE look >= 32
    <3>1. /\ buffer' = Append(buffer, look) /\ Advance
          /\ UNCHANGED <<frame, finished, state, hexDigits, out, complete>>
      BY <1>4, <2>2 DEF Plain
    <3>2. buffer' \in Seq(Byte)  BY <2>1, <3>1
    <3> QED  BY <1>b, <2>1, <3>1, <3>2
  <2>3. CASE ~(look >= 32)  BY <1>4, <2>3 DEF Plain, Throw
  <2> QED  BY <2>2, <2>3
<1>5. CASE Close
  <2>1. out \o buffer \in Seq(Byte)  BY ConcatProperties
  <2> QED  BY <1>5, <1>a, <1>b, <2>1 DEF Close, ClearsBuffer
<1>6. CASE Begin  BY <1>6, <1>a, <1>b DEF Begin
<1>7. CASE Escaped
  <2>1. look \in Byte  BY <1>7 DEF Escaped
  <2>2. CASE /\ look \in DOMAIN Escape /\ state' = "Normal" /\ Advance
             /\ buffer' = Append(buffer, Escape[look])
             /\ UNCHANGED <<frame, finished, hexDigits, out, complete>>
    <3>1. Escape[look] \in Byte  BY <2>2, EscapeTyped
    <3>2. buffer' \in Seq(Byte)  BY <2>2, <3>1
    <3> QED  BY <1>b, <2>1, <2>2, <3>2
  <2>3. CASE /\ state' = "Unicode" /\ Advance
             /\ UNCHANGED <<frame, finished, hexDigits, buffer, out, complete>>
    BY <1>b, <2>1, <2>3
  <2>4. CASE state' = "Normal" /\ Throw /\ UNCHANGED hexDigits  BY <2>4 DEF Throw
  <2> QED  BY <1>7, <2>2, <2>3, <2>4 DEF Escaped
<1>8. CASE Unicode
  <2> DEFINE h == Append(hexDigits, look)
  <2>1. look \in Byte  BY <1>8 DEF Unicode
  <2>2. h \in Seq(Byte) /\ Len(h) = Len(hexDigits) + 1 /\ Len(hexDigits) \in Nat
    BY <2>1, AppendProperties
  <2>3. CASE Len(h) < 4
    <3>1. hexDigits' = h /\ Advance /\ UNCHANGED <<frame, finished, state, buffer, out, complete>>
      BY <1>8, <2>3 DEF Unicode
    <3> HIDE DEF h
    <3> QED  BY <1>b, <2>1, <2>2, <2>3, <3>1
  <2>4. CASE ~(Len(h) < 4)
    <3>1. Len(h) = 4  BY <2>2, <2>4
    <3>2. hexDigits' = <<>> /\ state' = "Normal"  BY <1>8, <2>4 DEF Unicode, DigitsDone
    <3>3. CASE Range(h) \subseteq Hex
      <4> HIDE DEF h
      <4>1. /\ <<Backslash, LetterU>> \o h \in Unit
            /\ BytesOf(<<Backslash, LetterU>> \o h) = Utf8(FourDigits(h))
        BY <2>2, <3>1, <3>3, DigitsUnit
      <4>2. Utf8(FourDigits(h)) \in Seq(Byte)  BY <4>1, UnitTyped
      <4> USE DEF h
      <4>3. /\ buffer' = buffer \o Utf8(FourDigits(h)) /\ Advance
            /\ UNCHANGED <<frame, finished, out, complete>>
        BY <1>8, <2>4, <3>3 DEF Unicode
      <4> HIDE DEF h
      <4>4. buffer' \in Seq(Byte)  BY <4>2, <4>3, ConcatProperties
      <4> QED  BY <1>a, <1>b, <2>1, <3>2, <4>3, <4>4
    <3>4. CASE ~(Range(h) \subseteq Hex)
      <4>1. Throw  BY <1>8, <2>4, <3>4 DEF Unicode
      <4> HIDE DEF h
      <4> QED  BY <1>a, <3>2, <4>1 DEF Throw
    <3> QED  BY <3>3, <3>4
  <2> QED  BY <2>3, <2>4
<1>9. CASE ChunkEnds  BY <1>9 DEF ChunkEnds, Suspend, KeepsState
<1> QED  BY <1>1, <1>2, <1>3, <1>4, <1>5, <1>6, <1>7, <1>8, <1>9 DEF StringStep

(* The text grows by what a step reads of a unit. *)
LEMMA TextGrows ==
    ASSUME NEW us \in Seq(Unit), NEW p \in Seq(Byte), NEW c \in Byte
    PROVE  Append(TextOf(us) \o p, c) = TextOf(us) \o Append(p, c)
<1> DEFINE x == TextOf(us)
<1>1. x \in Seq(Byte)  BY TextTyped
<1> HIDE DEF x
<1>2. x \o Append(p, c) = Append(x \o p, c)  BY <1>1, ConcatAppend
<1> QED  BY <1>2 DEF x

LEMMA UnitEnds ==
    ASSUME NEW us \in Seq(Unit), NEW u \in Unit
    PROVE  /\ Append(us, u) \in Seq(Unit)
           /\ TextOf(us) \o u = TextOf(Append(us, u)) \o <<>>
<1>1. Append(us, u) \in Seq(Unit)  OBVIOUS
<1>2. TextOf(Append(us, u)) \in Seq(Byte)  BY <1>1, TextTyped
<1> QED  BY <1>1, <1>2, TextAppend, ConcatEmptySeq

(* What was read stays what the units say, one character at a time. *)
LEMMA ParserReads ==
    ASSUME ParserTypeOK, ReadInv, Parse \/ StringStep \/ Fed
    PROVE  ReadInv'
<1>a. /\ look \in Byte \cup {Unread, EndOfChunk} /\ Unread \notin Byte /\ EndOfChunk \notin Byte
      /\ hexDigits \in Seq(Byte) /\ buffer \in Seq(Byte) /\ text \in Seq(Byte)
      /\ Quote \in Byte /\ Backslash \in Byte /\ LetterU \in Byte
  BY DEF ParserTypeOK, Unread, EndOfChunk, Byte, Quote, Backslash, LetterU
<1>b. ASSUME Advance, look \in Byte  PROVE text' = Append(text, look) /\ text' # <<>>
  BY <1>a, <1>b, AppendProperties DEF Advance
<1>c. frame = "body" => Reading  BY DEF ReadInv, AtRest, Done, Refused
<1>d. ASSUME Reading, UNCHANGED <<text, complete, out, state, hexDigits, buffer>>,
             frame' = "body" \/ (frame' = "caller" /\ ~finished')
      PROVE  Reading'
  BY <1>d DEF Reading, Partial
<1>1. CASE Parse
  <2>1. CASE AtRest  BY <1>1, <2>1 DEF Parse, AtRest, ReadInv
  <2>2. CASE Reading
    <3>1. Reading'
      <4>1. frame' = "body"  BY <1>1, <2>2 DEF Parse, Reading
      <4>2. UNCHANGED <<text, complete, out, state, hexDigits, buffer>>  BY <1>1 DEF Parse
      <4> QED  BY <1>d, <2>2, <4>1, <4>2
    <3> QED  BY <3>1 DEF ReadInv
  <2> QED  BY <1>1, <2>1, <2>2 DEF ReadInv, Done, Refused, Parse
<1>2. CASE Fed
  <2>1. CASE AtRest  BY <1>2, <2>1 DEF Fed, Feed, AtRest, ReadInv
  <2>2. CASE Reading
    <3>1. Reading'
      <4>1. UNCHANGED <<frame, finished, text, complete, out, state, hexDigits, buffer>>  BY <1>2 DEF Fed, Feed
      <4>2. frame = "body" \/ (frame = "caller" /\ ~finished)  BY <2>2 DEF Reading
      <4> QED  BY <1>d, <2>2, <4>1, <4>2
    <3> QED  BY <3>1 DEF ReadInv
  <2> QED  BY <1>2, <2>1, <2>2 DEF ReadInv, Done, Refused, Fed, Feed
<1>3. CASE Start
  <2>1. AtRest  BY <1>3 DEF Start, ReadInv, Reading, Done, Refused
  <2>2. CASE look = Quote
    <3>1. /\ out' = <<>> /\ frame' = "body" /\ Advance
          /\ UNCHANGED <<finished, state, hexDigits, buffer, complete>>
      BY <1>3, <2>2 DEF Start
    <3>2. text' = Append(<<>>, Quote) /\ text' # <<>>  BY <1>a, <1>b, <2>1, <2>2, <3>1 DEF AtRest
    <3>3. Append(<<>>, Quote) = <<Quote>>  OBVIOUS
    <3>4. TextOf(<<>>) \o <<>> = <<Quote>>
      <4>1. <<Quote>> \in Seq(Byte)  BY <1>a
      <4> QED  BY <4>1, NoUnits, ConcatEmptySeq
    <3>5. Partial' = <<>>  BY <2>1, <3>1 DEF Partial, AtRest
    <3>6. \E us \in Seq(Unit) : text' = TextOf(us) \o Partial' /\ buffer' = Bytes(us)
      <4>1. <<>> \in Seq(Unit) /\ buffer' = Bytes(<<>>)  BY <2>1, <3>1, NoUnits DEF AtRest
      <4>2. text' = TextOf(<<>>) \o Partial'  BY <3>2, <3>3, <3>4, <3>5
      <4> QED  BY <4>1, <4>2
    <3>7. Reading'
      <4>1. /\ ~complete' /\ hexDigits' = <<>> /\ text' # <<>> /\ out' = <<>> /\ frame' = "body"
        BY <2>1, <3>1, <3>2 DEF AtRest
      <4> QED  BY <3>6, <4>1 DEF Reading
    <3> QED  BY <3>7 DEF ReadInv
  <2>3. CASE look # Quote  BY <1>3, <2>1, <2>3 DEF Start, Throw, AtRest, Refused, ReadInv
  <2> QED  BY <2>2, <2>3
<1>4. ASSUME frame = "body", NEW us \in Seq(Unit), text = TextOf(us) \o Partial, buffer = Bytes(us),
             Plain \/ Close \/ Begin \/ Escaped \/ Unicode
      PROVE  ReadInv'
  <2>a. Reading  BY <1>4, <1>c
  <2>b. look \in Byte  BY <1>4, <1>a DEF Plain, Close, Begin, Escaped, Unicode
  <2>c. /\ TextOf(us) \in Seq(Byte) /\ Bytes(us) \in Seq(Byte)  BY TextTyped, BytesTyped
  <2>d. ASSUME NEW u \in Unit, text' = TextOf(us) \o u, buffer' = Bytes(us) \o BytesOf(u),
               state' = "Normal", hexDigits' = <<>>, text' # <<>>, UNCHANGED <<frame, out, complete>>
        PROVE  Reading'
    <3>1. Partial' = <<>>  BY <2>d DEF Partial
    <3>2. text' = TextOf(Append(us, u)) \o Partial'  BY <2>d, <3>1, UnitEnds
    <3>3. buffer' = Bytes(Append(us, u))  BY <2>d, BytesAppend
    <3>4. Append(us, u) \in Seq(Unit)  OBVIOUS
    <3>5. ~complete' /\ out' = <<>> /\ frame' = "body"  BY <1>4, <2>a, <2>d DEF Reading
    <3>6. \E vs \in Seq(Unit) : text' = TextOf(vs) \o Partial' /\ buffer' = Bytes(vs)
      BY <3>2, <3>3, <3>4
    <3> QED  BY <2>d, <3>5, <3>6 DEF Reading
  <2>e. ASSUME text' = TextOf(us) \o Partial', text' # <<>>, state' # "Unicode" => hexDigits' = <<>>,
               UNCHANGED <<frame, out, complete, buffer>>
        PROVE  Reading'
    <3>1. ~complete' /\ out' = <<>> /\ frame' = "body"  BY <1>4, <2>a, <2>e DEF Reading
    <3>2. \E vs \in Seq(Unit) : text' = TextOf(vs) \o Partial' /\ buffer' = Bytes(vs)
      BY <1>4, <2>e
    <3> QED  BY <2>e, <3>1, <3>2 DEF Reading
  <2>f. ASSUME NEW p \in Seq(Byte), text = TextOf(us) \o p, Wrong(p, look), Throw
        PROVE  Refused'
    <3>1. UNCHANGED <<text, look, complete>> /\ frame' = "failed"  BY <2>f DEF Throw
    <3>2. ~complete'  BY <2>a, <3>1 DEF Reading
    <3>3. \E vs \in Seq(Unit), q \in Seq(Byte) : text' = TextOf(vs) \o q /\ Wrong(q, look')
      <4>1. text' = TextOf(us) \o p /\ Wrong(p, look')  BY <2>f, <3>1 DEF Wrong
      <4> QED  BY <4>1
    <3> QED  BY <2>b, <3>1, <3>2, <3>3 DEF Refused
  <2>g. ~complete /\ (state # "Unicode" => hexDigits = <<>>)  BY <2>a DEF Reading
  <2>1. CASE Plain
    <3>1. state = "Normal" /\ look \in Byte \ {Quote, Backslash}  BY <2>1 DEF Plain
    <3>2. Partial = <<>> /\ <<>> \in Seq(Byte)  BY <3>1 DEF Partial
    <3>3. CASE look >= 32
      <4>1. /\ buffer' = Append(buffer, look) /\ Advance
            /\ UNCHANGED <<frame, finished, state, hexDigits, out, complete>>
        BY <2>1, <3>3 DEF Plain
      <4>2. look \in PlainByte  BY <3>1, <3>3 DEF PlainByte, Byte
      <4>3. <<look>> \in Unit /\ BytesOf(<<look>>) = <<look>>  BY <4>2, PlainUnit
      <4>4. Append(Bytes(us), look) = Bytes(us) \o <<look>>  BY <2>b, <2>c, AppendIsConcat
      <4>5. text' = TextOf(us) \o Append(<<>>, look) /\ text' # <<>>
        BY <1>4, <1>b, <2>b, <3>2, <4>1, TextGrows
      <4>6. Append(<<>>, look) = <<look>>  OBVIOUS
      <4>7. Reading'  BY <1>4, <2>d, <2>g, <3>1, <4>1, <4>3, <4>4, <4>5, <4>6
      <4> QED  BY <4>7 DEF ReadInv
    <3>4. CASE ~(look >= 32)
      <4>1. Throw  BY <2>1, <3>4 DEF Plain
      <4>2. Wrong(<<>>, look)  BY <2>b, <3>4 DEF Wrong, Byte
      <4>3. Refused'  BY <1>4, <2>f, <3>2, <4>1, <4>2
      <4> QED  BY <4>3 DEF ReadInv
    <3> QED  BY <3>3, <3>4
  <2>2. CASE Close
    <3>1. /\ state = "Normal" /\ look = Quote /\ out' = out \o buffer /\ finished' /\ buffer' = <<>>
          /\ complete' /\ frame' = "caller" /\ Advance /\ UNCHANGED <<state, hexDigits>>
      BY <2>2 DEF Close, ClearsBuffer
    <3>2. Partial = <<>> /\ <<>> \in Seq(Byte)  BY <3>1 DEF Partial
    <3>3. text' = TextOf(us) \o Append(<<>>, look)  BY <1>4, <1>b, <2>b, <3>1, <3>2, TextGrows
    <3>4. Append(<<>>, look) = <<Quote>>  BY <3>1
    <3>5. out' = Bytes(us)
      <4>1. out = <<>>  BY <2>a DEF Reading
      <4> QED  BY <1>4, <2>c, <3>1, <4>1, ConcatEmptySeq
    <3>6. hexDigits' = <<>>  BY <2>g, <3>1
    <3>7. \E vs \in Seq(Unit) : text' = TextOf(vs) \o <<Quote>> /\ out' = Bytes(vs)
      BY <3>3, <3>4, <3>5
    <3>8. Done'  BY <3>1, <3>6, <3>7 DEF Done
    <3> QED  BY <3>8 DEF ReadInv
  <2>3. CASE Begin
    <3>1. /\ state = "Normal" /\ look = Backslash /\ state' = "Escaped" /\ Advance
          /\ UNCHANGED <<frame, finished, hexDigits, buffer, out, complete>>
      BY <2>3 DEF Begin
    <3>2. Partial = <<>> /\ <<>> \in Seq(Byte)  BY <3>1 DEF Partial
    <3>3. text' = TextOf(us) \o Append(<<>>, look) /\ text' # <<>>
      BY <1>4, <1>b, <2>b, <3>1, <3>2, TextGrows
    <3>4. Append(<<>>, look) = <<Backslash>> /\ Partial' = <<Backslash>>  BY <3>1 DEF Partial
    <3>5. Reading'  BY <2>e, <2>g, <3>1, <3>3, <3>4
    <3> QED  BY <3>5 DEF ReadInv
  <2>4. CASE Escaped
    <3>1. state = "Escaped"  BY <2>4 DEF Escaped
    <3>2. Partial = <<Backslash>> /\ <<Backslash>> \in Seq(Byte)  BY <1>a, <3>1 DEF Partial
    <3>3. Append(<<Backslash>>, look) = <<Backslash, look>>  BY <1>a, <2>b, TwoInOrder
    <3>4. ASSUME Advance PROVE text' = TextOf(us) \o <<Backslash, look>> /\ text' # <<>>
      BY <1>4, <1>b, <2>b, <3>2, <3>3, <3>4, TextGrows
    <3>5. hexDigits = <<>>  BY <2>g, <3>1
    <3>6. CASE /\ look \in DOMAIN Escape /\ state' = "Normal" /\ Advance
               /\ buffer' = Append(buffer, Escape[look])
               /\ UNCHANGED <<frame, finished, hexDigits, out, complete>>
      <4>1. <<Backslash, look>> \in Unit /\ BytesOf(<<Backslash, look>>) = <<Escape[look]>>
        BY <3>6, EscapeUnit
      <4>2. Escape[look] \in Byte  BY <3>6, EscapeTyped
      <4>3. Append(Bytes(us), Escape[look]) = Bytes(us) \o <<Escape[look]>>
        BY <2>c, <4>2, AppendIsConcat
      <4>4. Reading'  BY <1>4, <2>d, <3>4, <3>5, <3>6, <4>1, <4>3
      <4> QED  BY <4>4 DEF ReadInv
    <3>7. CASE /\ look = LetterU /\ state' = "Unicode" /\ Advance
               /\ UNCHANGED <<frame, finished, hexDigits, buffer, out, complete>>
      <4>1. Partial' = <<Backslash, LetterU>>
        <5>1. <<Backslash, LetterU>> \in Seq(Byte)  BY <1>a
        <5>2. Partial' = <<Backslash, LetterU>> \o <<>>  BY <3>5, <3>7 DEF Partial
        <5> QED  BY <5>1, <5>2, ConcatEmptySeq
      <4>2. Reading'  BY <2>e, <3>4, <3>7, <4>1
      <4> QED  BY <4>2 DEF ReadInv
    <3>8. CASE look \notin DOMAIN Escape \cup {LetterU} /\ Throw
      <4>1. Wrong(<<Backslash>>, look)  BY <3>8 DEF Wrong
      <4>2. Refused'  BY <1>4, <2>f, <3>2, <3>8, <4>1
      <4> QED  BY <4>2 DEF ReadInv
    <3> QED  BY <2>4, <3>6, <3>7, <3>8 DEF Escaped
  <2>5. CASE Unicode
    <3> DEFINE h == Append(hexDigits, look)
               e == <<Backslash, LetterU>>
    <3>1. state = "Unicode"  BY <2>5 DEF Unicode
    <3>2. /\ h \in Seq(Byte) /\ Len(h) = Len(hexDigits) + 1 /\ Len(hexDigits) \in Nat
          /\ Len(hexDigits) < 4 /\ e \in Seq(Byte)
      BY <1>a, <2>b, AppendProperties DEF ParserTypeOK
    <3>3. Partial = e \o hexDigits /\ Partial \in Seq(Byte)
      <4>1. Partial = e \o hexDigits  BY <3>1 DEF Partial
      <4> HIDE DEF e
      <4> QED  BY <1>a, <3>2, <4>1, ConcatProperties
    <3>4. Append(Partial, look) = e \o h
      <4> HIDE DEF e
      <4> QED  BY <1>a, <2>b, <3>2, <3>3, ConcatAppend
    <3>5. ASSUME Advance PROVE text' = TextOf(us) \o (e \o h) /\ text' # <<>>
      <4> HIDE DEF e, h
      <4> QED  BY <1>4, <1>b, <2>b, <3>3, <3>4, <3>5, TextGrows
    <3>6. CASE Len(h) < 4
      <4>1. hexDigits' = h /\ Advance /\ UNCHANGED <<frame, finished, state, buffer, out, complete>>
        BY <2>5, <3>6 DEF Unicode
      <4>2. Partial' = e \o h  BY <3>1, <4>1 DEF Partial
      <4> HIDE DEF e, h
      <4>3. Reading'  BY <2>e, <3>1, <3>5, <4>1, <4>2
      <4> QED  BY <4>3 DEF ReadInv
    <3>7. CASE ~(Len(h) < 4) /\ Range(h) \subseteq Hex
      <4>1. /\ hexDigits' = <<>> /\ state' = "Normal" /\ Advance
            /\ buffer' = buffer \o Utf8(FourDigits(h))
            /\ UNCHANGED <<frame, finished, out, complete>>
        BY <2>5, <3>7 DEF Unicode, DigitsDone
      <4> HIDE DEF h
      <4>2. Len(h) = 4  BY <3>2, <3>7
      <4>3. e \o h \in Unit /\ BytesOf(e \o h) = Utf8(FourDigits(h))
        BY <3>2, <3>7, <4>2, DigitsUnit
      <4> HIDE DEF e
      <4>4. Reading'  BY <1>4, <2>d, <3>5, <4>1, <4>3
      <4> QED  BY <4>4 DEF ReadInv
    <3>8. CASE ~(Len(h) < 4) /\ ~(Range(h) \subseteq Hex)
      <4>1. Throw  BY <2>5, <3>8 DEF Unicode
      <4>2. Len(hexDigits) = 3
        <5> DEFINE l == Len(hexDigits)
                   k == Len(h)
        <5> HIDE DEF h
        <5>1. ~(k < 4) /\ k = l + 1 /\ l \in Nat /\ l < 4  BY <3>2, <3>8
        <5> HIDE DEF l, k
        <5>2. l = 3  BY <5>1
        <5> QED  BY <5>2 DEF l
      <4>3. Wrong(Partial, look)  BY <1>a, <3>3, <3>8, <4>2 DEF Wrong
      <4> HIDE DEF e, h
      <4>4. Refused'  BY <1>4, <2>f, <3>3, <4>1, <4>3
      <4> QED  BY <4>4 DEF ReadInv
    <3> QED  BY <3>6, <3>7, <3>8
  <2> QED  BY <1>4, <2>1, <2>2, <2>3, <2>4, <2>5
<1>5. CASE ChunkEnds
  <2>1. Reading  BY <1>5, <1>c DEF ChunkEnds
  <2>2. /\ UNCHANGED <<text, complete, out, state, hexDigits, buffer>>
        /\ frame' = "caller" /\ ~finished'
    BY <1>5 DEF ChunkEnds, Suspend, KeepsState
  <2>3. Reading'  BY <1>d, <2>1, <2>2
  <2> QED  BY <2>3 DEF ReadInv
<1>6. CASE Plain \/ Close \/ Begin \/ Escaped \/ Unicode
  <2>1. frame = "body"  BY <1>6 DEF Plain, Close, Begin, Escaped, Unicode
  <2>2. PICK us \in Seq(Unit) : text = TextOf(us) \o Partial /\ buffer = Bytes(us)
    BY <1>c, <2>1 DEF Reading
  <2> QED  BY <1>4, <1>6, <2>1, <2>2
<1> QED  BY <1>1, <1>2, <1>3, <1>5, <1>6 DEF StringStep

----------------------------------------------------------------------------
(* The recursive functions of StringReader. *)
Going(s, f) ==
    f = [i \in Nat |->
            \/ i > Len(s)
            \/ i = Len(s) /\ s[i] \in {Quote, Backslash}
            \/ s[i] \in PlainByte /\ f[i + 1]
            \/ /\ s[i] = Backslash /\ i < Len(s)
               /\ \/ s[i + 1] \in DOMAIN JsonEscape /\ f[i + 2]
                  \/ /\ s[i + 1] = LetterU
                     /\ \A j \in (i + 2)..(i + 5) :
                            j <= Len(s) => s[j] \in DOMAIN JsonHex
                     /\ f[i + 6]]

LEMMA GoingsExist ==
    ASSUME NEW s \in Seq(Byte)
    PROVE  \E f : Going(s, f)
<1> DEFINE Value(f, i) == 
                \/ i > Len(s)
                \/ i = Len(s) /\ s[i] \in {Quote, Backslash}
                \/ s[i] \in PlainByte /\ f[i + 1]
                \/ /\ s[i] = Backslash /\ i < Len(s)
                   /\ \/ s[i + 1] \in DOMAIN JsonEscape /\ f[i + 2]
                      \/ /\ s[i + 1] = LetterU
                         /\ \A j \in (i + 2)..(i + 5) :
                                j <= Len(s) => s[j] \in DOMAIN JsonHex
                         /\ f[i + 6]
           Above(k, f) == f = [j \in Nat |-> f[j]] /\ \A i \in Nat : i >= k => f[i] = Value(f, i)
           Good == {k \in Nat : \E f : Above(k, f)}
<1>a. Len(s) \in Nat  OBVIOUS
<1>b. ASSUME NEW f, NEW g, NEW i \in Nat, \A j \in Nat : j > i => f[j] = g[j]
      PROVE  Value(f, i) = Value(g, i)
  <2>1. f[i + 1] = g[i + 1] /\ f[i + 2] = g[i + 2] /\ f[i + 3] = g[i + 3] /\ f[i + 6] = g[i + 6]
    BY <1>b
  <2> QED  BY <2>1
<1>c. ASSUME NEW f, NEW i \in Nat, i > Len(s)  PROVE Value(f, i) = TRUE
  BY <1>a, <1>c
<1>d. ASSUME NEW f, f = [i \in Nat |-> Value(f, i)]  PROVE Going(s, f)
  BY <1>d DEF Going
<1> HIDE DEF Value
<1>1. Len(s) + 1 \in Good
  <2> DEFINE f == [i \in Nat |-> TRUE]
  <2>1. \A i \in Nat : i >= Len(s) + 1 => f[i] = Value(f, i)
    <3> TAKE i \in Nat
    <3>1. f[i] = TRUE  OBVIOUS
    <3> HIDE DEF f
    <3>2. i >= Len(s) + 1 => i > Len(s)  BY <1>a
    <3>3. i > Len(s) => Value(f, i) = TRUE  BY <1>c
    <3> QED  BY <3>1, <3>2, <3>3, Zenon
  <2>2. f = [j \in Nat |-> f[j]]  OBVIOUS
  <2> HIDE DEF f
  <2>3. Above(Len(s) + 1, f)  BY <2>1, <2>2
  <2> QED  BY <1>a, <2>3
<1>2. ASSUME NEW k \in Nat, k + 1 \in Good  PROVE k \in Good
  <2>1. PICK f : Above(k + 1, f)  BY <1>2
  <2> DEFINE g == [j \in Nat |-> IF j = k THEN Value(f, k) ELSE f[j]]
  <2>2. g[k] = Value(f, k) /\ \A j \in Nat : j > k => g[j] = f[j]  OBVIOUS
  <2>3. g = [j \in Nat |-> g[j]]  OBVIOUS
  <2> HIDE DEF g
  <2>4. \A i \in Nat : i >= k => g[i] = Value(g, i)
    <3> TAKE i \in Nat
    <3>1. CASE i = k
      <4>1. Value(f, k) = Value(g, k)  BY <1>b, <2>2
      <4> QED  BY <2>2, <3>1, <4>1
    <3>2. CASE i > k
      <4>1. \A j \in Nat : j > i => f[j] = g[j]  BY <2>2, <3>2
      <4>2. Value(f, i) = Value(g, i)  BY <1>b, <4>1
      <4>3. f[i] = Value(f, i)  BY <2>1, <3>2
      <4> QED  BY <2>2, <3>2, <4>2, <4>3
    <3> QED  BY <3>1, <3>2
  <2>5. Above(k, g)  BY <2>3, <2>4
  <2> QED  BY <2>5
<1>3. 0 \in Good
  <2> SUFFICES ASSUME 0 \notin Good PROVE FALSE
    OBVIOUS
  <2>1. Good \subseteq Nat /\ Good # {}  BY <1>1
  <2> HIDE DEF Good
  <2>2. PICK m \in Good : \A k \in Good : m <= k  BY <2>1, LeastMember
  <2>3. m \in Nat /\ m # 0  BY <2>1, <2>2
  <2>4. m - 1 \in Nat /\ (m - 1) + 1 = m /\ ~(m <= m - 1)  BY <2>3
  <2>5. m - 1 \in Good  BY <1>2, <2>2, <2>4
  <2> QED  BY <2>2, <2>4, <2>5
<1>4. PICK f : Above(0, f)  BY <1>3
<1>5. f = [i \in Nat |-> Value(f, i)]  BY <1>4
<1> QED  BY <1>d, <1>5

LEMMA MayGoOnGoes ==
    ASSUME NEW s \in Seq(Byte)
    PROVE  \E f : Going(s, f) /\ MayGoOn(s) = f[1]
<1> DEFINE f == CHOOSE f : Going(s, f)
<1>1. Going(s, f)  BY GoingsExist
<1>2. MayGoOn(s) = f[1]  BY DEF MayGoOn, Going
<1> QED  BY <1>1, <1>2

(* JSON's tables and the code's are the same. *)
LEMMA EscapesAgree ==
    /\ DOMAIN JsonEscape = DOMAIN Escape
    /\ \A c \in DOMAIN Escape : JsonEscape[c] = Escape[c]
<1>1. DOMAIN Escape = {34, 47, 92, 98, 102, 110, 114, 116}  BY DEF Escape, Quote, Backslash
<1>2. DOMAIN JsonEscape = {34, 47, 92, 98, 102, 110, 114, 116}
  BY DEF JsonEscape
<1>3. ASSUME NEW c \in {34, 47, 92, 98, 102, 110, 114, 116}
      PROVE  JsonEscape[c] = Escape[c]
  BY <1>3 DEF JsonEscape, Escape, Quote, Backslash
<1> QED  BY <1>1, <1>2, <1>3

LEMMA HexesAgree ==
    /\ DOMAIN JsonHex = Hex
    /\ \A c \in Hex : JsonHex[c] = HexValue(c)
<1>1. DOMAIN JsonHex = Hex  BY DEF JsonHex, Hex
<1>2. ASSUME NEW c \in Hex PROVE JsonHex[c] = HexValue(c)
  <2>1. c \in (48..57) \cup (65..70) \cup (97..102)  BY DEF Hex
  <2>2. JsonHex[c] = IF c <= 57 THEN c - 48 ELSE (c % 32) + 9  BY <2>1 DEF JsonHex
  <2> QED  BY <2>1, <2>2 DEF HexValue
<1> QED  BY <1>1, <1>2

(* Where a unit is, in what the units make with something behind them. *)
LEMMA UnitPlaces ==
    ASSUME NEW us \in Seq(Unit), NEW r \in Seq(Byte), NEW k \in 1..Len(us)
    PROVE  LET a == Len(FlattenSeq(SubSeq(us, 1, k - 1)))
               s == FlattenSeq(us) \o r
           IN  /\ a \in Nat /\ s \in Seq(Byte)
               /\ Len(FlattenSeq(SubSeq(us, 1, k))) = a + Len(us[k])
               /\ a + Len(us[k]) <= Len(s)
               /\ \A j \in 1..Len(us[k]) : s[a + j] = us[k][j]
<1> DEFINE a == Len(FlattenSeq(SubSeq(us, 1, k - 1)))
           w == FlattenSeq(us)
           n == Len(us[k])
<1>1. us \in Seq(Seq(Byte)) /\ w \in Seq(Byte)  BY BytesTyped
<1>2. /\ a \in Nat /\ n \in Nat /\ Len(w) \in Nat
      /\ Len(FlattenSeq(SubSeq(us, 1, k))) = a + n
      /\ a + n <= Len(w)
      /\ \A j \in 1..n : w[a + j] = us[k][j]
  BY <1>1, FlattenPlaces
<1> HIDE DEF a, w, n
<1>3. /\ w \o r \in Seq(Byte) /\ Len(w \o r) = Len(w) + Len(r)
      /\ \A i \in 1..(Len(w) + Len(r)) : (w \o r)[i] = IF i <= Len(w) THEN w[i] ELSE r[i - Len(w)]
  BY <1>1, ConcatProperties
<1>4. Len(r) \in Nat  OBVIOUS
<1>5. ASSUME NEW j \in 1..n PROVE (w \o r)[a + j] = us[k][j]
  <2>1. a + j \in 1..(Len(w) + Len(r)) /\ a + j <= Len(w)  BY <1>2, <1>4
  <2> QED  BY <1>2, <1>3, <2>1
<1>6. a + n <= Len(w \o r)  BY <1>2, <1>3, <1>4
<1> QED  BY <1>2, <1>3, <1>5, <1>6, Zenon DEF a, w, n

(* What goes on with units goes on after them. *)
LEMMA GoesPast ==
    ASSUME NEW us \in Seq(Unit), NEW r \in Seq(Byte), NEW f, Going(FlattenSeq(us) \o r, f), f[1]
    PROVE  f[Len(FlattenSeq(us)) + 1]
<1> DEFINE s == FlattenSeq(us) \o r
           At(k) == Len(FlattenSeq(SubSeq(us, 1, k))) + 1
           n == Len(us)
           Bad == {k \in 0..n : ~f[At(k)]}
<1>0. n \in Nat /\ us \in Seq(Seq(Byte))  BY BytesTyped
<1>1. At(0) = 1
  <2>1. SubSeq(us, 1, 0) = <<>>  BY SubSeqEmpty
  <2>2. FlattenSeq(<<>>) = <<>>  BY DEF FlattenSeq
  <2>3. At(0) = Len(<<>>) + 1  BY <2>1, <2>2, Zenon
  <2>4. Len(<<>>) + 1 = 1  OBVIOUS
  <2> QED  BY <2>3, <2>4
<1>2. At(n) = Len(FlattenSeq(us)) + 1  BY SubSeqFull
<1>3. ASSUME NEW k \in 1..n, f[At(k - 1)] PROVE f[At(k)]
  <2> DEFINE a == Len(FlattenSeq(SubSeq(us, 1, k - 1)))
             u == us[k]
             i == a + 1
  <2>1. /\ a \in Nat /\ s \in Seq(Byte) /\ At(k) = a + Len(u) + 1 /\ At(k - 1) = i
        /\ a + Len(u) <= Len(s) /\ \A j \in 1..Len(u) : s[a + j] = u[j]
    <3>1. /\ a \in Nat /\ s \in Seq(Byte) /\ Len(FlattenSeq(SubSeq(us, 1, k))) = a + Len(u)
          /\ a + Len(u) <= Len(s) /\ \A j \in 1..Len(u) : s[a + j] = u[j]
      BY UnitPlaces
    <3> QED  BY <3>1, Zenon
  <2>2. u \in Unit  OBVIOUS
  <2> HIDE DEF a, u, At
  <2>3. Going(s, f)  OBVIOUS
  <2> HIDE DEF s
  <2>4. \/ Len(u) = 1 /\ u[1] \in PlainByte
        \/ Len(u) = 2 /\ u[1] = Backslash /\ u[2] \in DOMAIN Escape
        \/ Len(u) = 6 /\ u[1] = Backslash /\ u[2] = LetterU
    BY <2>2, UnitKinds
  <2>a. i \in Nat /\ Len(s) \in Nat  BY <2>1
  <2>b. f[i]  BY <1>3, <2>1, Zenon
  <2>5. /\ i \in Nat /\ Len(s) \in Nat
        /\ \/ i > Len(s)
           \/ i = Len(s) /\ s[i] \in {Quote, Backslash}
           \/ s[i] \in PlainByte /\ f[i + 1]
           \/ /\ s[i] = Backslash /\ i < Len(s)
              /\ \/ s[i + 1] \in DOMAIN JsonEscape /\ f[i + 2]
                 \/ /\ s[i + 1] = LetterU
                    /\ \A j \in (i + 2)..(i + 5) :
                           j <= Len(s) => s[j] \in DOMAIN JsonHex
                    /\ f[i + 6]
    <3> HIDE DEF i
    <3> QED  BY <2>a, <2>b, <2>3 DEF Going
  <2>6. Backslash \notin PlainByte /\ Quote \notin PlainByte /\ LetterU \notin DOMAIN JsonEscape
    BY EscapesAgree DEF PlainByte, Quote, Backslash, LetterU, Escape
  <2>7. CASE Len(u) = 1 /\ u[1] \in PlainByte
    <3>1. 1 \in 1..Len(u)  BY <2>7
    <3>2. s[i] \in PlainByte /\ ~(i > Len(s)) /\ At(k) = i + 1  BY <2>1, <2>5, <2>7, <3>1
    <3> QED  BY <2>5, <2>6, <3>2
  <2>8. CASE Len(u) = 2 /\ u[1] = Backslash /\ u[2] \in DOMAIN Escape
    <3>1. 1 \in 1..Len(u) /\ 2 \in 1..Len(u)  BY <2>8
    <3>2. /\ s[i] = Backslash /\ s[i + 1] \in DOMAIN JsonEscape /\ i < Len(s) /\ At(k) = i + 2
      <4>1. a + 2 = i + 1 /\ a + 1 = i /\ i < Len(s) /\ At(k) = i + 2  BY <2>1, <2>5, <2>8
      <4>2. s[a + 1] = u[1] /\ s[a + 2] = u[2]  BY <2>1, <3>1
      <4> HIDE DEF i
      <4> QED  BY <2>8, <4>1, <4>2, EscapesAgree
    <3>3. ~(i > Len(s)) /\ i # Len(s)  BY <2>5, <3>2
    <3> QED  BY <2>5, <2>6, <3>2, <3>3
  <2>9. CASE Len(u) = 6 /\ u[1] = Backslash /\ u[2] = LetterU
    <3>1. 1 \in 1..Len(u) /\ 2 \in 1..Len(u)  BY <2>9
    <3>2. /\ s[i] = Backslash /\ s[i + 1] = LetterU /\ i < Len(s) /\ At(k) = i + 6
      <4>1. a + 2 = i + 1 /\ a + 1 = i /\ i < Len(s) /\ At(k) = i + 6  BY <2>1, <2>5, <2>9
      <4>2. s[a + 1] = u[1] /\ s[a + 2] = u[2]  BY <2>1, <3>1
      <4> HIDE DEF i
      <4> QED  BY <2>9, <4>1, <4>2
    <3>3. ~(i > Len(s)) /\ i # Len(s)  BY <2>5, <3>2
    <3> QED  BY <2>5, <2>6, <3>2, <3>3
  <2> QED  BY <2>4, <2>7, <2>8, <2>9
<1> HIDE DEF At, s
<1>4. Bad = {}
  <2> SUFFICES ASSUME Bad # {} PROVE FALSE
    OBVIOUS
  <2>1. Bad \subseteq Nat  BY <1>0
  <2> HIDE DEF Bad
  <2>2. PICK m \in Bad : \A k \in Bad : m <= k  BY <2>1, LeastMember
  <2> USE DEF Bad
  <2>3. m \in 0..n /\ ~f[At(m)]  BY <2>2
  <2>4. m # 0  BY <1>1, <2>3
  <2> HIDE DEF n
  <2>5. m \in 1..n /\ m - 1 \in 0..n /\ ~(m <= m - 1)  BY <1>0, <2>3, <2>4
  <2>6. f[At(m - 1)]  BY <2>2, <2>5
  <2>7. f[At(m)]  BY <1>3, <2>5, <2>6
  <2> QED  BY <2>3, <2>7
<1>5. n \in 0..n  BY <1>0
<1> QED  BY <1>2, <1>4, <1>5

(* No string goes on with a wrong end of a unit. *)
LEMMA WrongEnds ==
    ASSUME NEW us \in Seq(Unit), NEW p \in Seq(Byte), NEW c \in Byte, Wrong(p, c)
    PROVE  ~MayGoOn(FlattenSeq(us) \o Append(p, c))
<1> DEFINE w == FlattenSeq(us)
           r == Append(p, c)
           s == w \o r
           i == Len(w) + 1
<1>1. w \in Seq(Byte) /\ Len(w) \in Nat  BY BytesTyped
<1>2. /\ r \in Seq(Byte) /\ Len(r) = Len(p) + 1 /\ r[Len(p) + 1] = c /\ Len(p) \in Nat
      /\ \A j \in 1..Len(p) : r[j] = p[j]
  BY AppendProperties
<1> HIDE DEF w, r
<1>3. /\ s \in Seq(Byte) /\ Len(s) = Len(w) + Len(r)
      /\ \A j \in 1..(Len(w) + Len(r)) : s[j] = IF j <= Len(w) THEN w[j] ELSE r[j - Len(w)]
  BY <1>1, <1>2, ConcatProperties
<1> HIDE DEF s
<1>4. ASSUME NEW j \in 1..Len(r) PROVE s[Len(w) + j] = r[j]
  <2>1. Len(w) + j \in 1..(Len(w) + Len(r)) /\ ~(Len(w) + j <= Len(w)) /\ Len(w) + j - Len(w) = j
    BY <1>1, <1>2
  <2> QED  BY <1>3, <2>1
<1>5. PICK f : Going(s, f) /\ MayGoOn(s) = f[1]  BY <1>3, MayGoOnGoes
<1>6. SUFFICES ASSUME f[1] PROVE FALSE
  BY <1>5, Zenon DEF s, w, r
<1>7. f[i]
  <2>1. Going(FlattenSeq(us) \o r, f)  BY <1>5 DEF s, w
  <2> QED  BY <1>2, <1>6, <2>1, GoesPast DEF w
<1>8. i \in Nat /\ i = Len(w) + 1  BY <1>1
<1> HIDE DEF i
<1>9. \/ i > Len(s)
      \/ i = Len(s) /\ s[i] \in {Quote, Backslash}
      \/ s[i] \in PlainByte /\ f[i + 1]
      \/ /\ s[i] = Backslash /\ i < Len(s)
         /\ \/ s[i + 1] \in DOMAIN Escape /\ f[i + 2]
            \/ /\ s[i + 1] = LetterU
               /\ \A j \in (i + 2)..(i + 5) : j <= Len(s) => s[j] \in Hex
               /\ f[i + 6]
  BY <1>5, <1>7, <1>8, EscapesAgree, HexesAgree DEF Going
<1>10. Len(s) = Len(w) + Len(p) + 1  BY <1>1, <1>2, <1>3
<1>11. CASE p = <<>> /\ c < 32
  <2>1. Len(p) = 0  BY <1>11
  <2>2. Len(s) = i /\ s[i] = c
    <3>1. 1 \in 1..Len(r) /\ Len(p) + 1 = 1  BY <1>2, <2>1
    <3> QED  BY <1>1, <1>2, <1>4, <1>8, <1>10, <2>1, <3>1
  <2>3. c \notin PlainByte /\ c \notin {Quote, Backslash}
    BY <1>11 DEF PlainByte, Quote, Backslash, Byte
  <2> QED  BY <1>8, <1>9, <2>2, <2>3
<1>12. CASE p = <<Backslash>> /\ c \notin DOMAIN Escape \cup {LetterU}
  <2>1. Len(p) = 1 /\ p[1] = Backslash  BY <1>12
  <2>2. Len(s) = i + 1 /\ s[i] = Backslash /\ s[i + 1] = c
    <3>1. /\ 1 \in 1..Len(r) /\ 2 \in 1..Len(r) /\ 1 \in 1..Len(p) /\ Len(p) + 1 = 2
          /\ Len(w) + 1 = i /\ Len(w) + 2 = i + 1 /\ Len(s) = i + 1
      BY <1>1, <1>2, <1>8, <1>10, <2>1
    <3>2. s[Len(w) + 1] = r[1] /\ s[Len(w) + 2] = r[2] /\ r[1] = p[1] /\ r[2] = c
      BY <1>2, <1>4, <3>1
    <3> QED  BY <2>1, <3>1, <3>2
  <2>3. Backslash \notin PlainByte  BY DEF PlainByte
  <2> QED  BY <1>8, <1>9, <1>12, <2>2, <2>3
<1>13. CASE \E h \in Seq(Byte) :
              /\ p = <<Backslash, LetterU>> \o h /\ Len(h) = 3
              /\ ~(Range(Append(h, c)) \subseteq Hex)
  <2>1. PICK h \in Seq(Byte) : /\ p = <<Backslash, LetterU>> \o h /\ Len(h) = 3
                               /\ ~(Range(Append(h, c)) \subseteq Hex)
    BY <1>13
  <2> DEFINE g == Append(h, c)
             e == <<Backslash, LetterU>>
  <2>2. g \in Seq(Byte) /\ Len(g) = 4
    <3>1. g \in Seq(Byte) /\ Len(g) = Len(h) + 1  BY AppendProperties
    <3>2. Len(h) = 3  BY <2>1
    <3> QED  BY <3>1, <3>2
  <2>3. r = e \o g
    <3>1. e \in Seq(Byte)  BY DEF Backslash, LetterU, Byte
    <3>2. p = e \o h  BY <2>1
    <3> HIDE DEF e
    <3>3. e \o Append(h, c) = Append(e \o h, c)  BY <3>1, ConcatAppend
    <3> QED  BY <3>2, <3>3, Zenon DEF r, g
  <2> HIDE DEF g
  <2>4. Len(r) = 6 /\ r[1] = Backslash /\ r[2] = LetterU /\ \A j \in 1..4 : r[j + 2] = g[j]
    BY <2>2, <2>3, UnitOfFour
  <2>5. Len(s) = i + 5 /\ s[i] = Backslash /\ s[i + 1] = LetterU
    <3>1. /\ 1 \in 1..Len(r) /\ 2 \in 1..Len(r) /\ Len(w) + 1 = i /\ Len(w) + 2 = i + 1
          /\ Len(s) = i + 5
      BY <1>1, <1>3, <1>8, <2>4
    <3>2. s[Len(w) + 1] = r[1] /\ s[Len(w) + 2] = r[2]  BY <1>4, <3>1
    <3> QED  BY <2>4, <3>1, <3>2
  <2>6. Backslash \notin PlainByte /\ LetterU \notin DOMAIN Escape
    BY DEF PlainByte, Escape, Backslash, LetterU, Quote
  <2>7. \A j \in (i + 2)..(i + 5) : j <= Len(s) => s[j] \in Hex
    BY <1>8, <1>9, <2>5, <2>6
  <2>8. \A j \in 1..4 : g[j] \in Hex
    <3> TAKE j \in 1..4
    <3>1. /\ j + 2 \in 1..Len(r) /\ Len(w) + (j + 2) = i + j + 1 /\ i + j + 1 \in (i + 2)..(i + 5)
          /\ i + j + 1 <= Len(s)
      BY <1>1, <1>8, <2>4, <2>5
    <3>2. s[Len(w) + (j + 2)] = r[j + 2] /\ r[j + 2] = g[j]  BY <1>4, <2>4, <3>1
    <3>3. s[i + j + 1] \in Hex  BY <2>7, <3>1
    <3> QED  BY <3>1, <3>2, <3>3
  <2>9. Range(g) = {g[j] : j \in 1..Len(g)}  BY <2>2, RangeEquality
  <2>10. Range(g) \subseteq Hex  BY <2>2, <2>8, <2>9
  <2> QED  BY <2>1, <2>10 DEF g
<1> QED  BY <1>11, <1>12, <1>13 DEF Wrong

(* Without the quotes. *)
LEMMA TailOfText ==
    ASSUME NEW us \in Seq(Unit), NEW p \in Seq(Byte)
    PROVE  Tail(TextOf(us) \o p) = FlattenSeq(us) \o p
<1> DEFINE q == <<Quote>>
           f == FlattenSeq(us)
           t == f \o p
           l == q \o t
<1>1. q \in Seq(Byte) /\ Len(q) = 1  BY DEF Quote, Byte
<1>2. f \in Seq(Byte)  BY BytesTyped
<1> HIDE DEF q, f
<1>3. t \in Seq(Byte)  BY <1>2, ConcatProperties
<1>4. (q \o f) \o p = l  BY <1>1, <1>2, ConcatAssociative
<1> HIDE DEF t
<1>5. /\ l \in Seq(Byte) /\ Len(l) = Len(q) + Len(t)
      /\ \A i \in 1..(Len(q) + Len(t)) : l[i] = IF i <= Len(q) THEN q[i] ELSE t[i - Len(q)]
  BY <1>1, <1>3, ConcatProperties
<1> HIDE DEF l
<1>6. Len(t) \in Nat /\ l # <<>>  BY <1>1, <1>3, <1>5
<1>7. /\ Tail(l) \in Seq(Byte) /\ Len(Tail(l)) = Len(l) - 1
      /\ \A i \in 1..Len(Tail(l)) : Tail(l)[i] = l[i + 1]
  BY <1>5, <1>6, HeadTailProperties
<1>8. Len(Tail(l)) = Len(t)  BY <1>1, <1>5, <1>6, <1>7
<1>9. \A i \in 1..Len(Tail(l)) : Tail(l)[i] = t[i]
  <2> TAKE i \in 1..Len(Tail(l))
  <2>1. i + 1 \in 1..(Len(q) + Len(t)) /\ ~(i + 1 <= Len(q)) /\ i + 1 - Len(q) = i
    BY <1>1, <1>6, <1>8
  <2> QED  BY <1>5, <1>7, <2>1
<1>10. Tail(l) = t  BY <1>3, <1>7, <1>8, <1>9, SeqEqual
<1> QED  BY <1>4, <1>10 DEF l, t, q, f, TextOf

(* What is refused begins no string. *)
LEMMA RefusedIsWrong ==
    ASSUME ReadInv
    PROVE  RefusesOnlyNonStrings
<1> SUFFICES ASSUME frame = "failed", text # <<>> PROVE ~MayGoOn(Append(Tail(text), look))
  BY DEF RefusesOnlyNonStrings
<1>1. Refused  BY DEF ReadInv, AtRest, Reading, Done
<1>2. PICK us \in Seq(Unit), p \in Seq(Byte) : text = TextOf(us) \o p /\ Wrong(p, look)
  BY <1>1 DEF Refused
<1>3. look \in Byte  BY <1>1 DEF Refused
<1>4. Tail(text) = FlattenSeq(us) \o p  BY <1>2, TailOfText
<1>5. FlattenSeq(us) \in Seq(Byte)  BY BytesTyped
<1>6. Append(Tail(text), look) = FlattenSeq(us) \o Append(p, look)
  <2> DEFINE w == FlattenSeq(us)
  <2>1. w \o Append(p, look) = Append(w \o p, look)
    <3> HIDE DEF w
    <3> QED  BY <1>3, <1>5, ConcatAppend DEF w
  <2> QED  BY <1>4, <2>1, Zenon
<1> QED  BY <1>2, <1>3, <1>6, WrongEnds

----------------------------------------------------------------------------

(* InOrder is the recursive function that it says it is. *)
Chain(n, point, width, f) ==
    f = [i \in Nat |-> IF i \in 1..n THEN <<point[i]>> \o f[i + width[i]] ELSE <<>>]

Wide(n, width) == \A i \in 1..n : width[i] \in Nat \ {0}

LEMMA ChainsExist ==
    ASSUME NEW n \in Nat, NEW point, NEW width, Wide(n, width)
    PROVE  \E f : Chain(n, point, width, f)
<1> DEFINE Value(f, i) == IF i \in 1..n THEN <<point[i]>> \o f[i + width[i]] ELSE <<>>
           Above(k, f) == f = [j \in Nat |-> f[j]] /\ \A i \in Nat : i >= k => f[i] = Value(f, i)
           Good == {k \in Nat : \E f : Above(k, f)}
<1>a. ASSUME NEW f, NEW g, NEW i \in Nat, \A j \in Nat : j > i => f[j] = g[j]
      PROVE  Value(f, i) = Value(g, i)
  <2>1. CASE i \notin 1..n
    BY <2>1
  <2>2. CASE i \in 1..n
    <3>1. i + width[i] \in Nat /\ i + width[i] > i  BY <2>2 DEF Wide
    <3>2. f[i + width[i]] = g[i + width[i]]  BY <1>a, <3>1
    <3> QED  BY <3>2, Zenon
  <2> QED  BY <2>1, <2>2
<1>b. ASSUME NEW f, NEW i \in Nat, i > n  PROVE Value(f, i) = <<>>
  BY <1>b
<1>c. ASSUME NEW f, f = [i \in Nat |-> Value(f, i)]  PROVE Chain(n, point, width, f)
  BY <1>c DEF Chain
<1> HIDE DEF Value
<1>1. n + 1 \in Good
  <2> DEFINE f == [i \in Nat |-> <<>>]
  <2>1. \A i \in Nat : i >= n + 1 => f[i] = Value(f, i)
    <3> TAKE i \in Nat
    <3>1. f[i] = <<>>  OBVIOUS
    <3> HIDE DEF f
    <3> QED  BY <1>b, <3>1
  <2>2. f = [j \in Nat |-> f[j]]  OBVIOUS
  <2> HIDE DEF f
  <2>3. Above(n + 1, f)  BY <2>1, <2>2
  <2> QED  BY <2>3
<1>2. ASSUME NEW k \in Nat, k + 1 \in Good  PROVE k \in Good
  <2>1. PICK f : Above(k + 1, f)  BY <1>2
  <2> DEFINE g == [j \in Nat |-> IF j = k THEN Value(f, k) ELSE f[j]]
  <2>2. g[k] = Value(f, k) /\ \A j \in Nat : j > k => g[j] = f[j]  OBVIOUS
  <2>3. g = [j \in Nat |-> g[j]]  OBVIOUS
  <2> HIDE DEF g
  <2>4. \A i \in Nat : i >= k => g[i] = Value(g, i)
    <3> TAKE i \in Nat
    <3>1. CASE i = k
      <4>1. Value(f, k) = Value(g, k)  BY <1>a, <2>2
      <4> QED  BY <2>2, <3>1, <4>1
    <3>2. CASE i > k
      <4>1. \A j \in Nat : j > i => f[j] = g[j]  BY <2>2, <3>2
      <4>2. Value(f, i) = Value(g, i)  BY <1>a, <4>1
      <4>3. f[i] = Value(f, i)  BY <2>1, <3>2
      <4> QED  BY <2>2, <3>2, <4>2, <4>3
    <3> QED  BY <3>1, <3>2
  <2>5. Above(k, g)  BY <2>3, <2>4
  <2> QED  BY <2>5
<1>3. 0 \in Good
  <2> SUFFICES ASSUME 0 \notin Good PROVE FALSE
    OBVIOUS
  <2>1. Good \subseteq Nat /\ Good # {}  BY <1>1
  <2> HIDE DEF Good
  <2>2. PICK m \in Good : \A k \in Good : m <= k  BY <2>1, LeastMember
  <2>3. m \in Nat /\ m # 0  BY <2>1, <2>2
  <2>4. m - 1 \in Nat /\ (m - 1) + 1 = m /\ ~(m <= m - 1)  BY <2>3
  <2>5. m - 1 \in Good  BY <1>2, <2>2, <2>4
  <2> QED  BY <2>2, <2>4, <2>5
<1>4. PICK f : Above(0, f)  BY <1>3
<1>5. f = [i \in Nat |-> Value(f, i)]  BY <1>4
<1> QED  BY <1>c, <1>5

LEMMA InOrderChains ==
    ASSUME NEW n \in Nat, NEW point, NEW width, Wide(n, width)
    PROVE  \E f : Chain(n, point, width, f) /\ InOrder(n, point, width) = f[1]
<1> DEFINE f == CHOOSE f : Chain(n, point, width, f)
<1>1. Chain(n, point, width, f)  BY ChainsExist
<1>2. InOrder(n, point, width) = f[1]  BY DEF InOrder, Chain
<1> QED  BY <1>1, <1>2

(* Each part of a text is one place of it. *)
Placed(ws, pts, point, width) ==
    \A k \in 1..Len(ws) :
        /\ ws[k] # <<>>
        /\ point[Len(FlattenSeq(SubSeq(ws, 1, k - 1))) + 1] = pts[k]
        /\ width[Len(FlattenSeq(SubSeq(ws, 1, k - 1))) + 1] = Len(ws[k])

(* What a text says is what its parts say, one after the other. *)
LEMMA PartByPart ==
    ASSUME NEW S, NEW ws \in Seq(Seq(S)), NEW P, NEW pts \in Seq(P), Len(pts) = Len(ws),
           NEW n, n = Len(FlattenSeq(ws)), NEW point, NEW width,
           Wide(n, width), Placed(ws, pts, point, width)
    PROVE  InOrder(n, point, width) = pts
<1> DEFINE m == Len(ws)
           To(k) == Len(FlattenSeq(SubSeq(ws, 1, k)))
<1>a. m \in Nat  OBVIOUS
<1>b. n \in Nat  BY FlattenTyped
<1>c. To(0) = 0
  <2>1. SubSeq(ws, 1, 0) = <<>>  BY SubSeqEmpty
  <2>2. FlattenSeq(<<>>) = <<>>  BY DEF FlattenSeq
  <2>3. To(0) = Len(<<>>)  BY <2>1, <2>2, Zenon
  <2> QED  BY <2>3
<1>d. To(m) = n
  <2> DEFINE T == Seq(S)
  <2>1. ws \in Seq(T)  OBVIOUS
  <2> HIDE DEF T
  <2>2. SubSeq(ws, 1, m) = ws  BY <2>1, SubSeqFull
  <2> QED  BY <2>2, Zenon
<1>e. ASSUME NEW k \in 1..m
      PROVE  /\ To(k - 1) + 1 \in 1..n /\ To(k) = To(k - 1) + Len(ws[k])
             /\ point[To(k - 1) + 1] = pts[k] /\ width[To(k - 1) + 1] = Len(ws[k])
  <2>1. /\ To(k - 1) \in Nat /\ To(k) = To(k - 1) + Len(ws[k]) /\ To(k - 1) + Len(ws[k]) <= n
    BY FlattenPlaces
  <2>2. point[To(k - 1) + 1] = pts[k] /\ width[To(k - 1) + 1] = Len(ws[k])  BY DEF Placed
  <2> HIDE DEF To
  <2>3. ws[k] \in Seq(S) /\ ws[k] # <<>>  BY DEF Placed
  <2>4. Len(ws[k]) \in Nat /\ Len(ws[k]) >= 1
    <3> DEFINE w == ws[k]
    <3>1. w \in Seq(S) /\ w # <<>>  BY <2>3
    <3> HIDE DEF w
    <3>2. Len(w) \in Nat /\ Len(w) >= 1  BY <3>1
    <3> QED  BY <3>2 DEF w
  <2> QED  BY <1>b, <2>1, <2>2, <2>4
<1> HIDE DEF To
<1>1. PICK f : Chain(n, point, width, f) /\ InOrder(n, point, width) = f[1]
  BY <1>b, InOrderChains
<1> DEFINE From(k) == f[To(k) + 1]
           Bad == {k \in 1..(m + 1) : From(k - 1) # SubSeq(pts, k, m)}
<1>2. From(0) = f[1]
  <2>1. To(0) + 1 = 1  BY <1>c
  <2> QED  BY <2>1, Zenon
<1>3. From(m) = <<>>
  <2>1. From(m) = f[n + 1]  BY <1>d
  <2>2. n + 1 \in Nat /\ n + 1 \notin 1..n  BY <1>b
  <2> QED  BY <1>1, <2>1, <2>2 DEF Chain
<1>4. ASSUME NEW k \in 1..m  PROVE From(k - 1) = <<pts[k]>> \o From(k)
  <2> DEFINE i == To(k - 1) + 1
  <2>1. i \in 1..n /\ point[i] = pts[k] /\ width[i] = Len(ws[k])  BY <1>e
  <2>2. i + width[i] = To(k) + 1
    <3>1. To(k) = To(k - 1) + Len(ws[k]) /\ To(k - 1) + 1 \in 1..n  BY <1>e
    <3>2. ws[k] \in Seq(S)  OBVIOUS
    <3>3. Len(ws[k]) \in Nat
      <4> DEFINE w == ws[k]
      <4>1. w \in Seq(S)  BY <3>2
      <4> HIDE DEF w
      <4>2. Len(w) \in Nat  BY <4>1
      <4> QED  BY <4>2 DEF w
    <3>4. To(k - 1) \in Int
      BY FlattenPlaces DEF To
    <3> QED  BY <2>1, <3>1, <3>3, <3>4
  <2>3. i \in Nat  BY <1>b, <2>1
  <2> HIDE DEF i
  <2>4. f[i] = <<point[i]>> \o f[i + width[i]]  BY <1>1, <2>1, <2>3 DEF Chain
  <2>5. f[i] = <<pts[k]>> \o f[To(k) + 1]  BY <2>1, <2>2, <2>4, Zenon
  <2>6. From(k - 1) = f[i]  BY DEF i
  <2> QED  BY <2>5, <2>6, Zenon
<1> HIDE DEF From
<1>5. Bad = {}
  <2> SUFFICES ASSUME Bad # {} PROVE FALSE
    OBVIOUS
  <2>1. Bad \subseteq 1..(m + 1)  OBVIOUS
  <2>2. m + 1 \in Nat  BY <1>a
  <2> HIDE DEF Bad
  <2>3. PICK q \in Bad : \A k \in Bad : k <= q  BY <2>1, <2>2, GreatestMember
  <2>4. q \in 1..(m + 1) /\ From(q - 1) # SubSeq(pts, q, m)  BY <2>3 DEF Bad
  <2>5. q # m + 1
    <3>1. SubSeq(pts, m + 1, m) = <<>>  BY <1>a, SubSeqEmpty
    <3>2. (m + 1) - 1 = m  BY <1>a
    <3> QED  BY <1>3, <2>4, <3>1, <3>2
  <2> HIDE DEF m
  <2>6. q \in 1..m /\ q + 1 \in 1..(m + 1) /\ ~(q + 1 <= q) /\ (q + 1) - 1 = q /\ m \in q..m
    BY <1>a, <2>4, <2>5
  <2>7. q + 1 \notin Bad  BY <2>3, <2>6
  <2>8. From((q + 1) - 1) = SubSeq(pts, q + 1, m)  BY <2>6, <2>7 DEF Bad
  <2>9. From(q - 1) = <<pts[q]>> \o SubSeq(pts, q + 1, m)  BY <1>4, <2>6, <2>8
  <2>10. SubSeq(pts, q, m) = <<pts[q]>> \o SubSeq(pts, q + 1, m)
    <3>1. q \in 1..Len(pts) /\ m \in q..Len(pts)  BY <2>6 DEF m
    <3> QED  BY <3>1, SubSeqRecursiveFirst
  <2> QED  BY <2>4, <2>9, <2>10
<1>6. From(0) = SubSeq(pts, 1, m)
  <2>1. 1 \in 1..(m + 1) /\ 1 - 1 = 0  BY <1>a
  <2> HIDE DEF m
  <2> QED  BY <1>5, <2>1
<1>7. SubSeq(pts, 1, m) = pts  BY SubSeqFull
<1> QED  BY <1>1, <1>2, <1>6, <1>7

(* The code point of a unit. *)
PointOf(u) ==
    IF Len(u) = 1 THEN u[1]
    ELSE IF Len(u) = 2 THEN Escape[u[2]]
    ELSE FourDigits(<<u[3], u[4], u[5], u[6]>>)

Points(us) == [i \in 1..Len(us) |-> PointOf(us[i])]

LEMMA PointTyped ==
    ASSUME NEW u \in Unit
    PROVE  PointOf(u) \in Nat /\ PointOf(u) < 65536
<1>1. /\ u \in Seq(Byte)
      /\ \/ Len(u) = 1 /\ u[1] \in PlainByte
         \/ Len(u) = 2 /\ u[2] \in DOMAIN Escape
         \/ Len(u) = 6 /\ \A i \in 3..6 : u[i] \in Hex
  BY UnitKinds
<1>2. CASE Len(u) = 1 /\ u[1] \in PlainByte
  <2>1. PointOf(u) = u[1]  BY <1>2 DEF PointOf
  <2> QED  BY <1>2, <2>1 DEF PlainByte
<1>3. CASE Len(u) = 2 /\ u[2] \in DOMAIN Escape
  <2>1. PointOf(u) = Escape[u[2]]  BY <1>3 DEF PointOf
  <2>2. Escape[u[2]] \in Byte  BY <1>3, EscapeTyped
  <2> QED  BY <2>1, <2>2 DEF Byte
<1>4. CASE Len(u) = 6 /\ \A i \in 3..6 : u[i] \in Hex
  <2>1. PointOf(u) = FourDigits(<<u[3], u[4], u[5], u[6]>>)  BY <1>4 DEF PointOf
  <2>2. u[3] \in Hex /\ u[4] \in Hex /\ u[5] \in Hex /\ u[6] \in Hex  BY <1>4
  <2> QED  BY <2>1, <2>2, FourDigitsTyped
<1> QED  BY <1>1, <1>2, <1>3, <1>4

LEMMA PointsTyped ==
    ASSUME NEW us \in Seq(Unit)
    PROVE  /\ Points(us) \in Seq(Nat) /\ Len(Points(us)) = Len(us)
           /\ \A k \in 1..Len(us) : Points(us)[k] = PointOf(us[k])
<1>1. Len(us) \in Nat /\ \A k \in 1..Len(us) : PointOf(us[k]) \in Nat
  <2>1. \A k \in 1..Len(us) : us[k] \in Unit  OBVIOUS
  <2> QED  BY <2>1, PointTyped
<1> QED  BY <1>1 DEF Points

LEMMA UnitNotEmpty ==
    ASSUME NEW u \in Unit
    PROVE  u # <<>>
<1>1. Len(u) = 1 \/ Len(u) = 2 \/ Len(u) = 6  BY UnitKinds
<1>2. Len(<<>>) = 0  OBVIOUS
<1> QED  BY <1>1, <1>2

(* What the text says by JSON's grammar are the points of its units. *)
LEMMA CodePointsOfUnits ==
    ASSUME NEW us \in Seq(Unit)
    PROVE  CodePoints(FlattenSeq(us)) = Points(us)
<1> DEFINE s == FlattenSeq(us)
           point == [i \in 1..Len(s) |-> PointAt(s, i)]
           width == [i \in 1..Len(s) |-> PointWidth(s, i)]
<1>1. us \in Seq(Seq(Byte)) /\ s \in Seq(Byte) /\ Len(s) \in Nat  BY BytesTyped
<1>2. Wide(Len(s), width)  BY DEF PointWidth, Wide
<1>3. \A k \in 1..Len(us) : us[k] # <<>>  BY UnitNotEmpty
<1>4. ASSUME NEW k \in 1..Len(us)
      PROVE  /\ point[Len(FlattenSeq(SubSeq(us, 1, k - 1))) + 1] = Points(us)[k]
             /\ width[Len(FlattenSeq(SubSeq(us, 1, k - 1))) + 1] = Len(us[k])
  <2> DEFINE a == Len(FlattenSeq(SubSeq(us, 1, k - 1)))
             u == us[k]
             i == a + 1
  <2>1. a \in Nat /\ a + Len(u) <= Len(s) /\ \A j \in 1..Len(u) : s[a + j] = u[j]
    BY <1>1, FlattenPlaces
  <2>2. u \in Unit  OBVIOUS
  <2>3. Points(us)[k] = PointOf(u)  BY PointsTyped
  <2> HIDE DEF a, u, s
  <2>4. \/ Len(u) = 1 /\ u[1] \in PlainByte
        \/ Len(u) = 2 /\ u[1] = Backslash /\ u[2] \in DOMAIN Escape
        \/ Len(u) = 6 /\ u[1] = Backslash /\ u[2] = LetterU /\ \A j \in 3..6 : u[j] \in Hex
    BY <2>2, UnitKinds
  <2>5. i \in 1..Len(s)  BY <1>1, <2>1, <2>4
  <2>6. point[i] = PointAt(s, i) /\ width[i] = PointWidth(s, i)  BY <2>5
  <2>a. /\ a + 1 = i /\ a + 2 = i + 1 /\ a + 3 = i + 2 /\ a + 4 = i + 3 /\ a + 5 = i + 4
        /\ a + 6 = i + 5
    BY <2>1
  <2> HIDE DEF i, point, width
  <2>7. CASE Len(u) = 1 /\ u[1] \in PlainByte
    <3>1. 1 \in 1..Len(u)  BY <2>7
    <3>2. s[i] = u[1]  BY <2>1, <2>a, <3>1
    <3>3. s[i] # Backslash  BY <2>7, <3>2 DEF PlainByte
    <3>4. PointOf(u) = u[1]  BY <2>7 DEF PointOf
    <3>5. PointAt(s, i) = u[1] /\ PointWidth(s, i) = 1  BY <3>2, <3>3, Zenon DEF PointAt, PointWidth
    <3>6. point[i] = Points(us)[k] /\ width[i] = Len(u)  BY <2>3, <2>6, <2>7, <3>4, <3>5, Zenon
    <3> QED  BY <3>6 DEF a, i, u
  <2>8. CASE Len(u) = 2 /\ u[1] = Backslash /\ u[2] \in DOMAIN Escape
    <3>1. 1 \in 1..Len(u) /\ 2 \in 1..Len(u)  BY <2>8
    <3>2. s[a + 1] = u[1] /\ s[a + 2] = u[2]  BY <2>1, <3>1
    <3>3. s[i] = Backslash /\ s[i + 1] = u[2]  BY <2>8, <2>a, <3>2
    <3>4. s[i + 1] # LetterU  BY <2>8, <3>3 DEF Escape, LetterU, Quote, Backslash
    <3>5. PointOf(u) = JsonEscape[s[i + 1]]  BY <2>8, <3>3, EscapesAgree DEF PointOf
    <3>6. PointAt(s, i) = JsonEscape[s[i + 1]]  BY <3>3, <3>4 DEF PointAt
    <3>7. PointWidth(s, i) = 2  BY <3>3, <3>4 DEF PointWidth
    <3>8. point[i] = Points(us)[k] /\ width[i] = Len(u)
      BY <2>3, <2>6, <2>8, <3>5, <3>6, <3>7, Zenon
    <3> QED  BY <3>8 DEF a, i, u
  <2>9. CASE Len(u) = 6 /\ u[1] = Backslash /\ u[2] = LetterU /\ \A j \in 3..6 : u[j] \in Hex
    <3>2. /\ 1 \in 1..Len(u) /\ 2 \in 1..Len(u) /\ 3 \in 1..Len(u) /\ 4 \in 1..Len(u)
          /\ 5 \in 1..Len(u) /\ 6 \in 1..Len(u)
      BY <2>9
    <3>3. /\ s[a + 1] = u[1] /\ s[a + 2] = u[2] /\ s[a + 3] = u[3] /\ s[a + 4] = u[4]
          /\ s[a + 5] = u[5] /\ s[a + 6] = u[6]
      BY <2>1, <3>2
    <3>4. /\ s[i] = Backslash /\ s[i + 1] = LetterU /\ s[i + 2] = u[3] /\ s[i + 3] = u[4]
          /\ s[i + 4] = u[5] /\ s[i + 5] = u[6]
      BY <2>9, <2>a, <3>3
    <3>5. u[3] \in Hex /\ u[4] \in Hex /\ u[5] \in Hex /\ u[6] \in Hex  BY <2>9
    <3>6. /\ JsonHex[u[3]] = HexValue(u[3]) /\ JsonHex[u[4]] = HexValue(u[4])
          /\ JsonHex[u[5]] = HexValue(u[5]) /\ JsonHex[u[6]] = HexValue(u[6])
      BY <3>5, HexesAgree
    <3>7. PointOf(u) = 4096 * HexValue(u[3]) + 256 * HexValue(u[4]) + 16 * HexValue(u[5]) + HexValue(u[6])
      BY <2>9 DEF PointOf, FourDigits
    <3>8. PointAt(s, i) = 4096 * JsonHex[s[i + 2]] + 256 * JsonHex[s[i + 3]]
                              + 16 * JsonHex[s[i + 4]] + JsonHex[s[i + 5]]
      BY <3>4 DEF PointAt
    <3>9. PointAt(s, i) = PointOf(u)
      <4>1. /\ JsonHex[s[i + 2]] = HexValue(u[3]) /\ JsonHex[s[i + 3]] = HexValue(u[4])
            /\ JsonHex[s[i + 4]] = HexValue(u[5]) /\ JsonHex[s[i + 5]] = HexValue(u[6])
        BY <3>4, <3>6, Zenon
      <4> DEFINE Sum(b, c, d, e) == 4096 * b + 256 * c + 16 * d + e
      <4>2. PointOf(u) = Sum(HexValue(u[3]), HexValue(u[4]), HexValue(u[5]), HexValue(u[6]))
        BY <3>7
      <4>3. PointAt(s, i) = Sum(JsonHex[s[i + 2]], JsonHex[s[i + 3]], JsonHex[s[i + 4]], JsonHex[s[i + 5]])
        BY <3>8
      <4> HIDE DEF Sum
      <4> QED  BY <4>1, <4>2, <4>3, Zenon
    <3>10. PointWidth(s, i) = 6  BY <3>4 DEF PointWidth
    <3>11. point[i] = Points(us)[k] /\ width[i] = Len(u)
      BY <2>3, <2>6, <2>9, <3>9, <3>10, Zenon
    <3> QED  BY <3>11 DEF a, i, u
  <2> QED  BY <2>4, <2>7, <2>8, <2>9
<1>5. Points(us) \in Seq(Nat) /\ Len(Points(us)) = Len(us)  BY PointsTyped
<1>6. CodePoints(s) = InOrder(Len(s), point, width)  BY DEF CodePoints
<1> DEFINE pts == Points(us)
           n == Len(s)
<1>7. InOrder(n, point, width) = pts
  <2>1. pts \in Seq(Nat) /\ Len(pts) = Len(us) /\ n = Len(FlattenSeq(us))  BY <1>5
  <2>2. Placed(us, pts, point, width)  BY <1>3, <1>4 DEF Placed
  <2>3. Wide(n, width)  BY <1>2
  <2> HIDE DEF pts, n, point, width, s
  <2> QED  BY <1>1, <2>1, <2>2, <2>3, PartByPart, Zenon
<1> QED  BY <1>6, <1>7

(* The bytes of a unit are its point in UTF-8. *)
LEMMA BytesAreUtf8 ==
    ASSUME NEW u \in Unit, Len(u) = 1 => u[1] < 128
    PROVE  BytesOf(u) = Utf8(PointOf(u))
<1>1. \/ Len(u) = 1 /\ u = <<u[1]>> /\ BytesOf(u) = u
      \/ Len(u) = 2 /\ u[2] \in DOMAIN Escape /\ BytesOf(u) = <<Escape[u[2]]>>
      \/ Len(u) = 6 /\ BytesOf(u) = Utf8(FourDigits(<<u[3], u[4], u[5], u[6]>>))
  BY UnitKinds
<1>2. CASE Len(u) = 1 /\ u = <<u[1]>> /\ BytesOf(u) = u
  <2>1. PointOf(u) = u[1] /\ u[1] < 128  BY <1>2 DEF PointOf
  <2>2. Utf8(u[1]) = <<u[1]>>  BY <2>1 DEF Utf8
  <2> QED  BY <1>2, <2>1, <2>2
<1>3. CASE Len(u) = 2 /\ u[2] \in DOMAIN Escape /\ BytesOf(u) = <<Escape[u[2]]>>
  <2>1. PointOf(u) = Escape[u[2]]  BY <1>3 DEF PointOf
  <2>2. \A c \in DOMAIN Escape : Escape[c] < 128  BY DEF Escape, Quote, Backslash
  <2>3. Utf8(Escape[u[2]]) = <<Escape[u[2]]>>  BY <1>3, <2>2 DEF Utf8
  <2> QED  BY <1>3, <2>1, <2>3
<1>4. CASE Len(u) = 6 /\ BytesOf(u) = Utf8(FourDigits(<<u[3], u[4], u[5], u[6]>>))
  <2>1. PointOf(u) = FourDigits(<<u[3], u[4], u[5], u[6]>>)  BY <1>4 DEF PointOf
  <2> QED  BY <1>4, <2>1
<1> QED  BY <1>1, <1>2, <1>3, <1>4

(* w is in s after a. *)
Within(s, a, w) == \A j \in 1..Len(w) : s[a + j] = w[j]

(* What UTF-8 puts out is decoded to what was put in. *)
LEMMA Utf8Decodes ==
    ASSUME NEW v \in Nat, v < 65536, NEW s, NEW a \in Nat, Within(s, a, Utf8(v))
    PROVE  CharAt(s, a + 1) = v /\ CharWidth(s, a + 1) = Len(Utf8(v)) /\ Len(Utf8(v)) > 0
<1> DEFINE i == a + 1
<1>a. i + 1 = a + 2 /\ i + 2 = a + 3  OBVIOUS
<1>b. \A j \in 1..Len(Utf8(v)) : s[a + j] = Utf8(v)[j]  BY DEF Within
<1>1. CASE v < 128
  <2>1. Utf8(v) = <<v>>  BY <1>1 DEF Utf8
  <2>2. Len(Utf8(v)) = 1 /\ Utf8(v)[1] = v  BY <2>1
  <2>3. s[a + 1] = v
    <3>1. 1 \in 1..Len(Utf8(v))  BY <2>2
    <3> QED  BY <1>b, <2>2, <3>1
  <2> QED  BY <1>1, <2>2, <2>3 DEF CharAt, CharWidth
<1>2. CASE ~(v < 128) /\ v < 2048
  <2> DEFINE p == 192 + ((v \div 64) % 32)
             q == 128 + (v % 64)
  <2>1. Utf8(v) = <<p, q>>  BY <1>2 DEF Utf8
  <2>2. ~(p < 128) /\ p < 224 /\ 64 * (p - 192) + q - 128 = v /\ p \in Int /\ q \in Int
    BY <1>2
  <2> HIDE DEF p, q
  <2>3. Len(Utf8(v)) = 2 /\ Utf8(v)[1] = p /\ Utf8(v)[2] = q  BY <2>1
  <2>4. 1 \in 1..Len(Utf8(v)) /\ 2 \in 1..Len(Utf8(v))  BY <2>3
  <2>5. s[a + 1] = p /\ s[a + 2] = q  BY <1>b, <2>3, <2>4
  <2>6. s[i] = p /\ s[i + 1] = q  BY <1>a, <2>5
  <2> HIDE DEF i
  <2>7. CharAt(s, i) = v  BY <2>2, <2>6 DEF CharAt
  <2>8. CharWidth(s, i) = 2  BY <2>2, <2>6 DEF CharWidth
  <2> QED  BY <2>3, <2>7, <2>8 DEF i
<1>3. CASE ~(v < 2048)
  <2> DEFINE p == 224 + ((v \div 4096) % 16)
             q == 128 + ((v \div 64) % 64)
             r == 128 + (v % 64)
  <2>1. Utf8(v) = <<p, q, r>>  BY <1>3 DEF Utf8
  <2>2. p \in Int /\ q \in Int /\ r \in Int /\ ~(p < 128) /\ ~(p < 224)  OBVIOUS
  <2>3. 4096 * (p - 224) + 64 * (q - 128) + r - 128 = v
    <3>1. (v \div 4096) % 16 = v \div 4096  OBVIOUS
    <3>2. v = 4096 * (v \div 4096) + 64 * ((v \div 64) % 64) + (v % 64)  OBVIOUS
    <3> QED  BY <3>1, <3>2
  <2> HIDE DEF p, q, r
  <2>4. Len(Utf8(v)) = 3 /\ Utf8(v)[1] = p /\ Utf8(v)[2] = q /\ Utf8(v)[3] = r  BY <2>1
  <2>5. 1 \in 1..Len(Utf8(v)) /\ 2 \in 1..Len(Utf8(v)) /\ 3 \in 1..Len(Utf8(v))  BY <2>4
  <2>6. s[a + 1] = p /\ s[a + 2] = q /\ s[a + 3] = r  BY <1>b, <2>4, <2>5
  <2>7. s[i] = p /\ s[i + 1] = q /\ s[i + 2] = r  BY <1>a, <2>6
  <2> HIDE DEF i
  <2>8. CharAt(s, i) = v  BY <2>2, <2>3, <2>7 DEF CharAt
  <2>9. CharWidth(s, i) = 3  BY <2>2, <2>7 DEF CharWidth
  <2> QED  BY <2>4, <2>8, <2>9 DEF i
<1> QED  BY <1>1, <1>2, <1>3

(* The bytes of units decode to the points of the units. *)
LEMMA DecodedOfUnits ==
    ASSUME NEW us \in Seq(Unit), \A k \in 1..Len(us) : Len(us[k]) = 1 => us[k][1] < 128
    PROVE  Decoded(Bytes(us)) = Points(us)
<1> DEFINE b == BytesOfAll(us)
           s == FlattenSeq(b)
           n == Len(s)
           pts == Points(us)
           point == [i \in 1..Len(s) |-> CharAt(s, i)]
           width == [i \in 1..Len(s) |-> CharWidth(s, i)]
<1>1. b \in Seq(Seq(Byte)) /\ Len(b) = Len(us) /\ \A k \in 1..Len(us) : b[k] = BytesOf(us[k])
  BY BytesTyped DEF BytesOfAll
<1>2. s \in Seq(Byte) /\ n \in Nat  BY <1>1, FlattenTyped
<1>3. pts \in Seq(Nat) /\ Len(pts) = Len(us)  BY PointsTyped
<1>4. Wide(n, width)  BY DEF CharWidth, Wide
<1>5. ASSUME NEW k \in 1..Len(b)
      PROVE  /\ b[k] # <<>>
             /\ point[Len(FlattenSeq(SubSeq(b, 1, k - 1))) + 1] = pts[k]
             /\ width[Len(FlattenSeq(SubSeq(b, 1, k - 1))) + 1] = Len(b[k])
  <2> DEFINE a == Len(FlattenSeq(SubSeq(b, 1, k - 1)))
             u == us[k]
             w == b[k]
             v == PointOf(u)
  <2>1. a \in Nat /\ Len(w) \in Nat /\ a + Len(w) <= n /\ \A j \in 1..Len(w) : s[a + j] = w[j]
    BY <1>1, FlattenPlaces
  <2>2. k \in 1..Len(us)  BY <1>1
  <2>3. u \in Unit /\ (Len(u) = 1 => u[1] < 128)  BY <2>2
  <2>4. w = BytesOf(u)  BY <1>1, <2>2
  <2>5. pts[k] = v  BY <2>2, PointsTyped
  <2> HIDE DEF u, w, a, b, s, pts
  <2>6. v \in Nat /\ v < 65536  BY <2>3, PointTyped
  <2>7. w = Utf8(v)  BY <2>3, <2>4, BytesAreUtf8
  <2> HIDE DEF v
  <2>8. CharAt(s, a + 1) = v /\ CharWidth(s, a + 1) = Len(w) /\ Len(w) > 0
    <3>1. Within(s, a, Utf8(v))  BY <2>1, <2>7, Zenon DEF Within
    <3>2. a \in Nat  BY <2>1
    <3>3. /\ CharAt(s, a + 1) = v /\ CharWidth(s, a + 1) = Len(Utf8(v)) /\ Len(Utf8(v)) > 0
      BY <2>6, <3>1, <3>2, Utf8Decodes
    <3> QED  BY <2>7, <3>3, Zenon
  <2>9. a + 1 \in 1..Len(s)  BY <1>2, <2>1, <2>8
  <2>10. point[a + 1] = v /\ width[a + 1] = Len(w)  BY <2>8, <2>9
  <2>11. w # <<>>  BY <2>8
  <2> HIDE DEF point, width
  <2> QED  BY <2>5, <2>10, <2>11 DEF a, w
<1>6. Decoded(s) = InOrder(n, point, width)  BY DEF Decoded
<1>7. Bytes(us) = s  BY DEF Bytes
<1> HIDE DEF s, pts, point, width
<1>8. Placed(b, pts, point, width)  BY <1>5 DEF Placed
<1> HIDE DEF b
<1>9. InOrder(n, point, width) = pts
  <2>1. Len(pts) = Len(b)  BY <1>1, <1>3
  <2>2. n = Len(FlattenSeq(b))  BY DEF s
  <2> HIDE DEF n
  <2> QED  BY <1>1, <1>3, <1>4, <1>8, <2>1, <2>2, PartByPart, Zenon
<1> QED  BY <1>6, <1>7, <1>9 DEF pts

(* After a string is read, its text is a quote, units and a quote. *)
LEMMA DoneIsText ==
    ASSUME ParserTypeOK, ReadInv
    PROVE  OutIsText
<1> SUFFICES ASSUME complete, Range(text) \subseteq 0..127
             PROVE  /\ text[1] = Quote /\ text[Len(text)] = Quote
                    /\ Decoded(out) = CodePoints(SubSeq(text, 2, Len(text) - 1))
                    /\ buffer = <<>>
  BY DEF OutIsText
<1>1. Done  BY DEF ReadInv, AtRest, Reading, Refused
<1>2. buffer = <<>>  BY <1>1 DEF Done
<1>3. PICK us \in Seq(Unit) : text = TextOf(us) \o <<Quote>> /\ out = Bytes(us)  BY <1>1 DEF Done
<1> DEFINE f == FlattenSeq(us)
           t == TextOf(us)
           n == Len(f)
<1>4. /\ t \in Seq(Byte) /\ t[1] = Quote /\ Len(t) = n + 1 /\ n \in Nat /\ f \in Seq(Byte)
      /\ \A i \in 1..n : t[i + 1] = f[i]
  BY TextTyped, BytesTyped
<1>5. us \in Seq(Seq(Byte))  BY BytesTyped
<1>6. /\ Len(text) = n + 2 /\ \A i \in 1..(n + 1) : text[i] = t[i]
      /\ text[n + 2] = Quote /\ text \in Seq(Byte)
  <2>1. <<Quote>> \in Seq(Byte) /\ Len(<<Quote>>) = 1 /\ <<Quote>>[1] = Quote  BY DEF Quote, Byte
  <2> DEFINE q == <<Quote>>
  <2> HIDE DEF t, f, n, q
  <2>2. /\ t \o q \in Seq(Byte) /\ Len(t \o q) = Len(t) + Len(q)
        /\ \A i \in 1..(Len(t) + Len(q)) : (t \o q)[i] = IF i <= Len(t) THEN t[i] ELSE q[i - Len(t)]
    BY <1>4, <2>1, ConcatProperties DEF q
  <2>3. text = t \o q  BY <1>3 DEF t, q
  <2>4. Len(q) = 1 /\ q[1] = Quote  BY <2>1 DEF q
  <2>5. Len(text) = n + 2  BY <1>4, <2>2, <2>3, <2>4
  <2>6. ASSUME NEW i \in 1..(n + 1) PROVE text[i] = t[i]
    <3>1. i \in 1..(Len(t) + Len(q)) /\ i <= Len(t)  BY <1>4, <2>4
    <3> QED  BY <2>2, <2>3, <3>1
  <2>7. text[n + 2] = Quote
    <3>1. n + 2 \in 1..(Len(t) + Len(q)) /\ ~(n + 2 <= Len(t)) /\ n + 2 - Len(t) = 1  BY <1>4, <2>4
    <3> QED  BY <2>2, <2>3, <2>4, <3>1
  <2> QED  BY <2>2, <2>3, <2>5, <2>6, <2>7
<1>7. SubSeq(text, 2, Len(text) - 1) = f
  <2> HIDE DEF t, f, n
  <2>0. 2 \in 1..(Len(text) + 1) /\ Len(text) - 1 \in 0..Len(text) /\ Len(text) - 1 = n + 1  BY <1>4, <1>6
  <2>1. /\ SubSeq(text, 2, n + 1) \in Seq(Byte)
        /\ Len(SubSeq(text, 2, n + 1)) = n
        /\ \A i \in 1..n : SubSeq(text, 2, n + 1)[i] = text[i + 1]
    <3>1. n + 1 \in 0..Len(text)  BY <1>4, <1>6
    <3>2. SubSeq(text, 2, n + 1) = [i \in 1..n |-> text[2 + i - 1]]
      BY <1>4, <1>6
    <3>3. \A i \in 1..n : 2 + i - 1 = i + 1 /\ text[i + 1] \in Byte
      BY <1>4, <1>6
    <3>4. \A i \in 1..n : text[2 + i - 1] \in Byte  BY <3>3
    <3> DEFINE g == [i \in 1..n |-> text[2 + i - 1]]
    <3>5. g \in Seq(Byte) /\ Len(g) = n  BY <1>4, <3>4
    <3>6. \A i \in 1..n : g[i] = text[i + 1]  BY <3>3
    <3> HIDE DEF g
    <3>7. SubSeq(text, 2, n + 1) = g  BY <3>2 DEF g
    <3> QED  BY <3>5, <3>6, <3>7
  <2>2. \A i \in 1..n : text[i + 1] = f[i]
    <3> TAKE i \in 1..n
    <3>1. i + 1 \in 1..(n + 1)  BY <1>4
    <3> QED  BY <1>4, <1>6, <3>1
  <2>3. Len(f) = n  BY DEF n
  <2>4. SubSeq(text, 2, n + 1) = f  BY <1>4, <2>1, <2>2, <2>3, SeqEqual
  <2> QED  BY <2>0, <2>4
<1>8. \A k \in 1..Len(us) : Len(us[k]) = 1 => us[k][1] < 128
  <2> TAKE k \in 1..Len(us)
  <2> HAVE Len(us[k]) = 1
  <2> DEFINE a == Len(FlattenSeq(SubSeq(us, 1, k - 1)))
             u == us[k]
  <2>1. a \in Nat /\ a + Len(u) <= n /\ \A j \in 1..Len(u) : f[a + j] = u[j]
    BY <1>5, FlattenPlaces
  <2>2. Len(u) = 1  OBVIOUS
  <2> HIDE DEF a, u, f, t
  <2>3. f[a + 1] = u[1] /\ a + 1 \in 1..n
    <3>1. 1 \in 1..Len(u)  BY <2>2
    <3> QED  BY <1>4, <2>1, <2>2, <3>1
  <2>4. text[(a + 1) + 1] = u[1]
    <3>1. (a + 1) + 1 \in 1..(n + 1)  BY <1>4, <2>3
    <3> QED  BY <1>4, <1>6, <2>3, <3>1
  <2>5. (a + 1) + 1 \in 1..Len(text)  BY <1>4, <1>6, <2>3
  <2>6. text[(a + 1) + 1] \in Range(text)
    <3>1. Range(text) = {text[i] : i \in 1..Len(text)}  BY <1>6, RangeEquality
    <3> QED  BY <2>5, <3>1
  <2>7. u[1] \in 0..127  BY <2>4, <2>6
  <2>8. \A c \in 0..127 : c < 128  OBVIOUS
  <2>9. u[1] < 128  BY <2>7, <2>8, Zenon
  <2> QED  BY <2>9 DEF u
<1>9. Decoded(out) = Points(us)  BY <1>3, <1>8, DecodedOfUnits
<1>10. CodePoints(f) = Points(us)  BY CodePointsOfUnits
<1>11. text[1] = Quote
  <2> HIDE DEF t, n
  <2>1. 1 \in 1..(n + 1)  BY <1>4
  <2> QED  BY <1>4, <1>6, <2>1
<1>12. text[Len(text)] = Quote  BY <1>6
<1> QED  BY <1>2, <1>7, <1>9, <1>10, <1>11, <1>12

----------------------------------------------------------------------------
(* No unit begins another, and none begins with a quote: a text is split    *)
(* into units in one way.                                                   *)
Prefixed(s, t) == Len(s) <= Len(t) /\ \A i \in 1..Len(s) : s[i] = t[i]

LEMMA UnitsApart ==
    ASSUME NEW u \in Unit, NEW w \in Unit,
           \A i \in 1..Len(u) : i \in 1..Len(w) => u[i] = w[i]
    PROVE  u = w
<1>0. Backslash \notin PlainByte /\ LetterU \notin DOMAIN Escape
  BY DEF PlainByte, Escape, LetterU, Quote, Backslash
<1>1. /\ u \in Seq(Byte)
      /\ \/ Len(u) = 1 /\ u[1] \in PlainByte
         \/ Len(u) = 2 /\ u[1] = Backslash /\ u[2] \in DOMAIN Escape
         \/ Len(u) = 6 /\ u[1] = Backslash /\ u[2] = LetterU
  BY UnitKinds
<1>2. /\ w \in Seq(Byte)
      /\ \/ Len(w) = 1 /\ w[1] \in PlainByte
         \/ Len(w) = 2 /\ w[1] = Backslash /\ w[2] \in DOMAIN Escape
         \/ Len(w) = 6 /\ w[1] = Backslash /\ w[2] = LetterU
  BY UnitKinds
<1>3. u[1] = w[1]
  <2>1. 1 \in 1..Len(u) /\ 1 \in 1..Len(w)  BY <1>1, <1>2
  <2> QED  BY <2>1
<1>4. Len(u) # 1 /\ Len(w) # 1 => u[2] = w[2]
  <2>1. Len(u) # 1 /\ Len(w) # 1 => 2 \in 1..Len(u) /\ 2 \in 1..Len(w)  BY <1>1, <1>2
  <2> QED  BY <2>1
<1>5. Len(u) = Len(w)  BY <1>0, <1>1, <1>2, <1>3, <1>4
<1> QED  BY <1>1, <1>2, <1>5, SeqEqual

LEMMA UnitBegins ==
    ASSUME NEW u \in Unit
    PROVE  u[1] # Quote /\ 1 \in 1..Len(u)
<1>1. \/ Len(u) = 1 /\ u[1] \in PlainByte
      \/ Len(u) = 2 /\ u[1] = Backslash
      \/ Len(u) = 6 /\ u[1] = Backslash
  BY UnitKinds
<1>2. Quote \notin PlainByte /\ Quote # Backslash  BY DEF PlainByte, Quote, Backslash
<1>3. u[1] # Quote  BY <1>1, <1>2, Zenon
<1>4. 1 \in 1..Len(u)  BY <1>1
<1> QED  BY <1>3, <1>4

LEMMA SameUnits ==
    ASSUME NEW us \in Seq(Unit), NEW ws \in Seq(Unit), NEW r \in Seq(Byte), NEW t \in Seq(Byte),
           t = <<>> \/ t = <<Quote>>,
           Prefixed(FlattenSeq(us) \o r, FlattenSeq(ws) \o t)
    PROVE  Len(us) <= Len(ws) /\ us = SubSeq(ws, 1, Len(us))
<1> DEFINE n == Len(us)
           m == Len(ws)
           T == FlattenSeq(us) \o r
           G == FlattenSeq(ws) \o t
           Bad == {k \in 1..n : ~(k <= m /\ us[k] = ws[k])}
<1>1. n \in Nat /\ m \in Nat  OBVIOUS
<1>2. Len(T) <= Len(G) /\ \A i \in 1..Len(T) : T[i] = G[i]  BY DEF Prefixed
<1>3. Bad = {}
  <2> SUFFICES ASSUME Bad # {} PROVE FALSE
    OBVIOUS
  <2>1. Bad \subseteq Nat  OBVIOUS
  <2>2. PICK k \in Bad : \A j \in Bad : k <= j
    <3> HIDE DEF Bad
    <3> QED  BY <2>1, LeastMember
  <2>3. k \in 1..n /\ ~(k <= m /\ us[k] = ws[k])  BY <2>2
  <2>4. \A j \in 1..(k - 1) : j <= m /\ us[j] = ws[j]
    <3> TAKE j \in 1..(k - 1)
    <3>1. j \in 1..n /\ ~(k <= j)  BY <1>1, <2>3
    <3> HIDE DEF Bad
    <3>2. j \notin Bad  BY <2>2, <3>1
    <3> QED  BY <3>1, <3>2 DEF Bad
  <2>5. SubSeq(us, 1, k - 1) = SubSeq(ws, 1, k - 1)
    <3> DEFINE q == k - 1
    <3>1. q \in 0..Len(us) /\ \A j \in 1..q : j <= Len(ws) /\ us[j] = ws[j]  BY <1>1, <2>3, <2>4
    <3> HIDE DEF q
    <3>2. SubSeq(us, 1, q) = SubSeq(ws, 1, q)  BY <3>1, SameFront
    <3> QED  BY <3>2 DEF q
  <2> DEFINE a == Len(FlattenSeq(SubSeq(us, 1, k - 1)))
             u == us[k]
  <2>6. u \in Unit  BY <2>3
  <2>7. a \in Nat /\ a + Len(u) <= Len(T) /\ \A j \in 1..Len(u) : T[a + j] = u[j]
    BY <2>3, UnitPlaces
  <2>8. 1 \in 1..Len(u) /\ u[1] # Quote  BY <2>6, UnitBegins
  <2>9. T \in Seq(Byte) /\ Len(T) \in Nat
    <3>1. FlattenSeq(us) \in Seq(Byte)  BY BytesTyped
    <3> QED  BY <3>1, ConcatProperties
  <2>10. CASE k <= m
    <3> DEFINE w == ws[k]
    <3>1. k \in 1..m /\ w \in Unit  BY <2>3, <2>10
    <3>2. a = Len(FlattenSeq(SubSeq(ws, 1, k - 1)))  BY <2>5
    <3>3. \A j \in 1..Len(w) : G[a + j] = w[j]
      <4>1. \A j \in 1..Len(ws[k]) : G[Len(FlattenSeq(SubSeq(ws, 1, k - 1))) + j] = ws[k][j]
        BY <3>1, UnitPlaces
      <4> HIDE DEF T, G, a
      <4> QED  BY <3>2, <4>1, Zenon
    <3> HIDE DEF T, G, a, u, w
    <3>4. \A j \in 1..Len(u) : j \in 1..Len(w) => u[j] = w[j]
      <4> TAKE j \in 1..Len(u)
      <4> HAVE j \in 1..Len(w)
      <4>1. Len(u) \in Nat  BY <2>6, UnitKinds
      <4>2. a + j \in 1..Len(T)  BY <2>7, <2>9, <4>1
      <4>3. T[a + j] = u[j] /\ G[a + j] = w[j]  BY <2>7, <3>3
      <4>4. T[a + j] = G[a + j]  BY <1>2, <4>2
      <4> QED  BY <4>3, <4>4
    <3>5. u = w  BY <2>6, <3>1, <3>4, UnitsApart
    <3> QED  BY <2>3, <2>10, <3>5 DEF u, w
  <2>11. CASE ~(k <= m)
    <3>1. k - 1 = m
      <4>1. k - 1 = 0 \/ k - 1 \in 1..(k - 1)  BY <2>3
      <4>2. k - 1 <= m  BY <1>1, <2>4, <4>1
      <4> QED  BY <1>1, <2>3, <2>11, <4>2
    <3>2. SubSeq(ws, 1, k - 1) = ws  BY <3>1, SubSeqFull
    <3>3. a = Len(FlattenSeq(ws))  BY <2>5, <3>2
    <3> DEFINE g == FlattenSeq(ws)
    <3>4. g \in Seq(Byte) /\ Len(g) \in Nat /\ Len(t) \in Nat /\ a = Len(g)  BY <3>3, BytesTyped
    <3> HIDE DEF g
    <3>5. /\ Len(g \o t) = Len(g) + Len(t)
          /\ \A i \in 1..(Len(g) + Len(t)) : (g \o t)[i] = IF i <= Len(g) THEN g[i] ELSE t[i - Len(g)]
      BY <3>4, ConcatProperties
    <3>6. G = g \o t  BY DEF g
    <3> HIDE DEF a, T, G, u
    <3>7. T[a + 1] = u[1] /\ a + 1 \in 1..Len(T)
      <4>1. Len(u) \in Nat  BY <2>6, UnitKinds
      <4> QED  BY <2>7, <2>8, <2>9, <4>1
    <3>8. a + 1 <= Len(g) + Len(t) /\ G[a + 1] = u[1]  BY <1>2, <2>9, <3>4, <3>5, <3>6, <3>7
    <3>9. t = <<Quote>>
      <4>1. t = <<>> => Len(t) = 0  OBVIOUS
      <4> QED  BY <3>4, <3>8, <4>1
    <3>10. a + 1 \in 1..(Len(g) + Len(t)) /\ ~(a + 1 <= Len(g)) /\ a + 1 - Len(g) = 1
      BY <3>4, <3>8
    <3>11. G[a + 1] = t[1]  BY <3>5, <3>6, <3>10
    <3>12. t[1] = Quote  BY <3>9
    <3> QED  BY <2>8, <3>8, <3>11, <3>12
  <2> QED  BY <2>10, <2>11
<1>4. \A k \in 1..n : k <= m /\ us[k] = ws[k]  BY <1>3
<1>5. n <= m
  <2>1. n = 0 \/ n \in 1..n  BY <1>1
  <2> QED  BY <1>1, <1>4, <2>1
<1>6. us = SubSeq(ws, 1, n)
  <2>1. n \in 0..Len(us)  BY <1>1
  <2>2. SubSeq(us, 1, n) = SubSeq(ws, 1, n)  BY <1>4, <2>1, SameFront
  <2>3. SubSeq(us, 1, n) = us  BY SubSeqFull
  <2> QED  BY <2>2, <2>3
<1> QED  BY <1>5, <1>6

----------------------------------------------------------------------------
(* What Write puts out for a character that it does not refuse is a unit    *)
(* that stands for that character.                                          *)
Writable == NeedEscape \cup 32..255

Enc(c) == IF c \in NeedEscape THEN <<92, EscapeOf(c)>> ELSE <<c>>
Encs(v) == [i \in 1..Len(v) |-> Enc(v[i])]
Singles(v) == [i \in 1..Len(v) |-> <<v[i]>>]

LEMMA EncIsUnit ==
    ASSUME NEW c \in Writable
    PROVE  Enc(c) \in Unit /\ BytesOf(Enc(c)) = <<c>> /\ c \in Byte
<1>1. CASE c \in NeedEscape
  <2> DEFINE e == EscapeOf(c)
  <2>1. Enc(c) = <<Backslash, e>>  BY <1>1 DEF Enc, Backslash
  <2>2. e \in {34, 92, 110, 116, 114, 102, 98}  BY <1>1 DEF NeedEscape, EscapeOf
  <2>3. e \in DOMAIN Escape  BY <2>2 DEF Escape, Quote, Backslash
  <2>4. Escape[e] = c  BY <1>1 DEF NeedEscape, EscapeOf, Escape, Quote, Backslash
  <2>5. c \in Byte  BY <1>1 DEF NeedEscape, Byte
  <2> HIDE DEF e
  <2> QED  BY <2>1, <2>3, <2>4, <2>5, EscapeUnit
<1>2. CASE c \notin NeedEscape
  <2>1. c \in PlainByte /\ c \in Byte  BY <1>2 DEF Writable, NeedEscape, PlainByte, Byte, Quote, Backslash
  <2>2. Enc(c) = <<c>>  BY <1>2 DEF Enc
  <2> QED  BY <2>1, <2>2, PlainUnit
<1> QED  BY <1>1, <1>2

LEMMA EncsTyped ==
    ASSUME NEW v \in Seq(Writable)
    PROVE  /\ Encs(v) \in Seq(Unit) /\ Len(Encs(v)) = Len(v)
           /\ \A i \in 1..Len(v) : Encs(v)[i] = Enc(v[i])
<1>1. Len(v) \in Nat /\ \A i \in 1..Len(v) : Enc(v[i]) \in Unit
  <2>1. \A i \in 1..Len(v) : v[i] \in Writable  OBVIOUS
  <2> QED  BY <2>1, EncIsUnit
<1> QED  BY <1>1 DEF Encs

LEMMA SinglesFlatten ==
    ASSUME NEW v \in Seq(Byte)
    PROVE  FlattenSeq(Singles(v)) = v
<1> DEFINE ss == Singles(v)
           f == FlattenSeq(ss)
           n == Len(v)
           To(k) == Len(FlattenSeq(SubSeq(ss, 1, k)))
           Bad == {k \in 0..n : To(k) # k}
<1>0. n \in Nat  OBVIOUS
<1>1. ss \in Seq(Seq(Byte)) /\ Len(ss) = n /\ \A k \in 1..n : ss[k] = <<v[k]>>
  <2>1. \A k \in 1..n : <<v[k]>> \in Seq(Byte)  OBVIOUS
  <2> QED  BY <1>0, <2>1 DEF Singles
<1>2. f \in Seq(Byte)  BY <1>1, FlattenTyped
<1>3. To(0) = 0
  <2>1. SubSeq(ss, 1, 0) = <<>>  BY SubSeqEmpty
  <2>2. FlattenSeq(<<>>) = <<>>  BY DEF FlattenSeq
  <2>3. To(0) = Len(<<>>)  BY <2>1, <2>2, Zenon
  <2> QED  BY <2>3
<1>4. To(n) = Len(f)
  <2> DEFINE S == Seq(Byte)
  <2>1. ss \in Seq(S)  BY <1>1
  <2> HIDE DEF S, ss
  <2>2. SubSeq(ss, 1, Len(ss)) = ss  BY <2>1, SubSeqFull
  <2>3. SubSeq(ss, 1, n) = ss  BY <1>1, <2>2, Zenon
  <2> QED  BY <2>3, Zenon
<1>5. ASSUME NEW k \in 1..n
      PROVE  To(k) = To(k - 1) + 1 /\ f[To(k - 1) + 1] = v[k] /\ To(k - 1) \in Nat
  <2>1. k \in 1..Len(ss)  BY <1>1
  <2>2. /\ To(k - 1) \in Nat /\ To(k) = To(k - 1) + Len(ss[k])
        /\ \A j \in 1..Len(ss[k]) : f[To(k - 1) + j] = ss[k][j]
    BY <1>1, <2>1, FlattenPlaces
  <2> HIDE DEF To, f
  <2>3. Len(ss[k]) = 1 /\ ss[k][1] = v[k] /\ 1 \in 1..Len(ss[k])
    <3>1. ss[k] = <<v[k]>>  BY <1>1, Zenon
    <3>2. \A x : Len(<<x>>) = 1 /\ <<x>>[1] = x  OBVIOUS
    <3>3. Len(ss[k]) = 1 /\ ss[k][1] = v[k]  BY <3>1, <3>2, Zenon
    <3> QED  BY <3>3
  <2> QED  BY <2>2, <2>3
<1> HIDE DEF To, f, ss
<1>6. Bad = {}
  <2> SUFFICES ASSUME Bad # {} PROVE FALSE
    OBVIOUS
  <2>1. Bad \subseteq Nat  OBVIOUS
  <2>2. PICK k \in Bad : \A j \in Bad : k <= j
    <3> HIDE DEF Bad
    <3> QED  BY <2>1, LeastMember
  <2>3. k \in 0..n /\ To(k) # k  BY <2>2
  <2>4. k \in 1..n /\ k - 1 \in 0..n /\ ~(k <= k - 1)  BY <1>0, <1>3, <2>3
  <2>5. k - 1 \notin Bad
    <3> HIDE DEF Bad
    <3> QED  BY <2>2, <2>4
  <2>6. To(k - 1) = k - 1  BY <2>4, <2>5
  <2>7. To(k) = k  BY <1>5, <2>4, <2>6
  <2> QED  BY <2>3, <2>7
<1>7. \A k \in 0..n : To(k) = k  BY <1>6
<1>8. Len(f) = n  BY <1>0, <1>4, <1>7
<1>9. \A k \in 1..n : f[k] = v[k]
  <2> TAKE k \in 1..n
  <2>1. k - 1 \in 0..n /\ (k - 1) + 1 = k  BY <1>0
  <2>2. To(k - 1) = k - 1  BY <1>7, <2>1
  <2>3. f[To(k - 1) + 1] = v[k]  BY <1>5
  <2> QED  BY <2>1, <2>2, <2>3
<1>10. f = v
  <2>1. Len(v) = n  BY DEF n
  <2> QED  BY <1>2, <1>8, <1>9, <2>1, SeqEqual
<1> QED  BY <1>10 DEF f, ss

(* Read back, a value that was written is what it was. *)
LEMMA BytesOfEncs ==
    ASSUME NEW v \in Seq(Writable)
    PROVE  Bytes(Encs(v)) = v
<1>1. v \in Seq(Byte)
  <2>1. \A i \in 1..Len(v) : v[i] \in Byte
    <3>1. \A i \in 1..Len(v) : v[i] \in Writable  OBVIOUS
    <3> QED  BY <3>1, EncIsUnit
  <2> QED  BY <2>1
<1>2. BytesOfAll(Encs(v)) = Singles(v)
  <2>1. \A i \in 1..Len(v) : BytesOf(Encs(v)[i]) = <<v[i]>>
    <3> TAKE i \in 1..Len(v)
    <3>1. v[i] \in Writable  OBVIOUS
    <3>2. Encs(v)[i] = Enc(v[i])  BY EncsTyped
    <3> QED  BY <3>1, <3>2, EncIsUnit
  <2>2. Len(Encs(v)) = Len(v)  BY EncsTyped
  <2> QED  BY <2>1, <2>2 DEF BytesOfAll, Singles
<1>3. FlattenSeq(Singles(v)) = v  BY <1>1, SinglesFlatten
<1> QED  BY <1>2, <1>3, Zenon DEF Bytes

(* One character more is put out, or several that need no escape. *)
LEMMA EncsConcat ==
    ASSUME NEW v \in Seq(Writable), NEW w \in Seq(Writable)
    PROVE  /\ v \o w \in Seq(Writable)
           /\ TextOf(Encs(v \o w)) = TextOf(Encs(v)) \o FlattenSeq(Encs(w))
<1> DEFINE x == v \o w
           a == Encs(v)
           b == Encs(w)
           c == Encs(x)
           q == <<Quote>>
<1>1. /\ x \in Seq(Writable) /\ Len(x) = Len(v) + Len(w)
      /\ \A i \in 1..(Len(v) + Len(w)) : x[i] = IF i <= Len(v) THEN v[i] ELSE w[i - Len(v)]
  BY ConcatProperties
<1>2. Len(v) \in Nat /\ Len(w) \in Nat  OBVIOUS
<1>3. /\ a \in Seq(Unit) /\ Len(a) = Len(v) /\ \A i \in 1..Len(v) : a[i] = Enc(v[i])
      /\ b \in Seq(Unit) /\ Len(b) = Len(w) /\ \A i \in 1..Len(w) : b[i] = Enc(w[i])
      /\ c \in Seq(Unit) /\ Len(c) = Len(x) /\ \A i \in 1..Len(x) : c[i] = Enc(x[i])
  <2> HIDE DEF x
  <2> QED  BY <1>1, EncsTyped
<1> HIDE DEF x, a, b, c
<1>4. c = a \o b
  <2>1. /\ a \o b \in Seq(Unit) /\ Len(a \o b) = Len(a) + Len(b)
        /\ \A i \in 1..(Len(a) + Len(b)) : (a \o b)[i] = IF i <= Len(a) THEN a[i] ELSE b[i - Len(a)]
    <3>1. a \in Seq(Unit) /\ b \in Seq(Unit)  BY <1>3
    <3> QED  BY <3>1, ConcatProperties
  <2>2. \A i \in 1..Len(c) : c[i] = (a \o b)[i]
    <3> TAKE i \in 1..Len(c)
    <3>1. i \in 1..(Len(v) + Len(w))  BY <1>1, <1>3
    <3>2. CASE i <= Len(v)
      <4>1. i \in 1..Len(v) /\ x[i] = v[i]  BY <1>1, <1>2, <3>1, <3>2
      <4>2. (a \o b)[i] = a[i]  BY <1>3, <2>1, <3>1, <3>2
      <4> QED  BY <1>1, <1>3, <3>1, <4>1, <4>2
    <3>3. CASE ~(i <= Len(v))
      <4>1. i - Len(v) \in 1..Len(w) /\ x[i] = w[i - Len(v)]  BY <1>1, <1>2, <3>1, <3>3
      <4>2. (a \o b)[i] = b[i - Len(v)]  BY <1>3, <2>1, <3>1, <3>3
      <4> QED  BY <1>1, <1>3, <3>1, <4>1, <4>2
    <3> QED  BY <3>2, <3>3
  <2>3. Len(c) = Len(a \o b)  BY <1>1, <1>3, <2>1
  <2> QED  BY <1>3, <2>1, <2>2, <2>3, SeqEqual
<1>5. a \in Seq(Seq(Byte)) /\ b \in Seq(Seq(Byte)) /\ FlattenSeq(a) \in Seq(Byte) /\ FlattenSeq(b) \in Seq(Byte)
  BY <1>3, BytesTyped
<1>6. FlattenSeq(a \o b) = FlattenSeq(a) \o FlattenSeq(b)  BY <1>5, FlattenConcat
<1>7. q \in Seq(Byte)  BY DEF Quote, Byte
<1>8. q \o (FlattenSeq(a) \o FlattenSeq(b)) = (q \o FlattenSeq(a)) \o FlattenSeq(b)
  <2> HIDE DEF q
  <2> QED  BY <1>5, <1>7, ConcatAssociative, SMTT(30)
<1>9. TextOf(c) = TextOf(a) \o FlattenSeq(b)  BY <1>4, <1>6, <1>8, Zenon DEF TextOf
<1> QED  BY <1>1, <1>9 DEF a, b, c, x

LEMMA PlainEncs ==
    ASSUME NEW v \in Seq(Writable), \A i \in 1..Len(v) : v[i] \notin NeedEscape
    PROVE  FlattenSeq(Encs(v)) = v
<1>1. Encs(v) = Singles(v)  BY DEF Encs, Singles, Enc
<1>2. v \in Seq(Byte)
  <2>1. \A i \in 1..Len(v) : v[i] \in Byte
    <3>1. \A i \in 1..Len(v) : v[i] \in Writable  OBVIOUS
    <3> QED  BY <3>1, EncIsUnit
  <2> QED  BY <2>1
<1> QED  BY <1>1, <1>2, SinglesFlatten

----------------------------------------------------------------------------
(* What Write has put out: every character of Put, and the last quote.      *)
Put == IF writing = "written" THEN value ELSE SubSeq(value, 1, begin - 1)

WriterInv ==
    /\ writing \in {"idle", "loop", "written", "failed"}
    /\ value \in Seq(Byte) /\ sink \in Seq(Byte)
    /\ begin \in Nat /\ curr \in Nat
    /\ 1 <= begin /\ begin <= curr /\ curr <= Len(value) + 1
    /\ \A i \in 1..(curr - 1) : value[i] \in Writable
    /\ \A i \in begin..(curr - 1) : value[i] \notin NeedEscape
    /\ writing = "written" => curr = Len(value) + 1
    /\ writing \in {"loop", "failed"} => sink = TextOf(Encs(Put))
    /\ writing = "written" => sink = TextOf(Encs(Put)) \o <<Quote>>

LEMMA PutWritable ==
    ASSUME WriterInv
    PROVE  /\ SubSeq(value, 1, begin - 1) \in Seq(Writable)
           /\ SubSeq(value, begin, curr - 1) \in Seq(Writable)
           /\ SubSeq(value, 1, curr - 1) \in Seq(Writable)
           /\ SubSeq(value, 1, curr - 1) = SubSeq(value, 1, begin - 1) \o SubSeq(value, begin, curr - 1)
           /\ FlattenSeq(Encs(SubSeq(value, begin, curr - 1))) = SubSeq(value, begin, curr - 1)
           /\ SubSeq(value, begin, curr - 1) \in Seq(Byte)
<1> DEFINE b == begin
           e == curr - 1
           v == value
<1>1. /\ v \in Seq(Byte) /\ b \in Nat /\ 1 <= b /\ b <= e + 1 /\ e \in Int /\ e <= Len(v) /\ Len(v) \in Nat
      /\ \A i \in 1..e : v[i] \in Writable
      /\ \A i \in b..e : v[i] \notin NeedEscape
  BY DEF WriterInv
<1> HIDE DEF b, e, v
<1>2. SubSeq(v, 1, b - 1) \in Seq(Writable)
  <2>1. b - 1 \in Int /\ 1 \in Int /\ \A i \in 1..(b - 1) : v[i] \in Writable  BY <1>1
  <2> DEFINE q == b - 1
  <2> HIDE DEF q
  <2>2. q \in Int /\ 1 \in Int /\ \A i \in 1..q : v[i] \in Writable  BY <2>1 DEF q
  <2>3. SubSeq(v, 1, q) \in Seq(Writable)  BY <2>2, SubSeqProperties
  <2> QED  BY <2>3 DEF q
<1>3. SubSeq(v, 1, e) \in Seq(Writable)
  <2>1. e \in Int /\ 1 \in Int  BY <1>1
  <2> QED  BY <1>1, <2>1, SubSeqProperties
<1>4. /\ SubSeq(v, b, e) \in Seq(Writable)
      /\ \A i \in 1..Len(SubSeq(v, b, e)) : SubSeq(v, b, e)[i] \notin NeedEscape
  <2>1. b \in Int /\ e \in Int /\ \A i \in b..e : v[i] \in Writable  BY <1>1
  <2>2. /\ SubSeq(v, b, e) \in Seq(Writable)
        /\ Len(SubSeq(v, b, e)) = IF b <= e THEN e - b + 1 ELSE 0
        /\ \A i \in 1..(e - b + 1) : SubSeq(v, b, e)[i] = v[b + i - 1]
    BY <2>1, SubSeqProperties
  <2> DEFINE w == SubSeq(v, b, e)
  <2> HIDE DEF w
  <2>3. ASSUME NEW i \in 1..Len(w) PROVE w[i] \notin NeedEscape
    <3>1. i \in 1..(e - b + 1) /\ b + i - 1 \in b..e  BY <1>1, <2>2 DEF w
    <3>2. w[i] = v[b + i - 1]  BY <2>2, <3>1 DEF w
    <3> QED  BY <1>1, <3>1, <3>2
  <2> QED  BY <2>2, <2>3 DEF w
<1>5. SubSeq(v, b, e) \in Seq(Byte)
  <2>1. b \in Int /\ e \in Int /\ \A i \in b..e : v[i] \in Byte  BY <1>1
  <2> QED  BY <2>1, SubSeqProperties
<1>6. SubSeq(v, 1, e) = SubSeq(v, 1, b - 1) \o SubSeq(v, b, e)
  <2> DEFINE k == b - 1
  <2>1. /\ 1 \in 1..(Len(v) + 1) /\ k \in (1 - 1)..Len(v) /\ e \in k..Len(v) /\ k + 1 = b  BY <1>1
  <2> HIDE DEF k
  <2>2. SubSeq(v, 1, k) \o SubSeq(v, k + 1, e) = SubSeq(v, 1, e)  BY <1>1, <2>1, ConcatAdjacentSubSeq
  <2>3. SubSeq(v, 1, k) \o SubSeq(v, b, e) = SubSeq(v, 1, e)  BY <2>1, <2>2, Zenon
  <2> QED  BY <2>3 DEF k
<1>7. FlattenSeq(Encs(SubSeq(v, b, e))) = SubSeq(v, b, e)  BY <1>4, PlainEncs
<1> QED  BY <1>2, <1>3, <1>4, <1>5, <1>6, <1>7 DEF b, e, v

LEMMA NothingPut == TextOf(Encs(<<>>)) = <<Quote>>
<1>1. Encs(<<>>) = <<>>  BY DEF Encs
<1> QED  BY <1>1, NoUnits

LEMMA WriterBegins ==
    ASSUME NEW v \in Seq(Byte), Write(v)
    PROVE  WriterInv'
<1>1. /\ value' = v /\ begin' = 1 /\ curr' = 1 /\ sink' = <<34>> /\ writing' = "loop"
  BY DEF Write
<1>2. Put' = <<>>
  <2>1. SubSeq(v, 1, 1 - 1) = <<>>
    <3>1. 1 - 1 < 1 /\ 1 \in Int /\ 1 - 1 \in Int  OBVIOUS
    <3> QED  BY <3>1, SubSeqEmpty
  <2> QED  BY <1>1, <2>1 DEF Put
<1>3. sink' = TextOf(Encs(Put'))  BY <1>1, <1>2, NothingPut DEF Quote
<1>4. <<34>> \in Seq(Byte) /\ Len(v) \in Nat  BY DEF Byte
<1>5. \A i \in 1..(1 - 1) : FALSE  OBVIOUS
<1> QED  BY <1>1, <1>3, <1>4, <1>5 DEF WriterInv

LEMMA WriterGoesOn ==
    ASSUME WriterInv, WriterStep
    PROVE  WriterInv'
<1>0. /\ value \in Seq(Byte) /\ sink \in Seq(Byte) /\ Len(value) \in Nat
      /\ begin \in Nat /\ curr \in Nat
      /\ 1 <= begin /\ begin <= curr /\ curr <= Len(value) + 1
      /\ \A i \in 1..(curr - 1) : value[i] \in Writable
      /\ \A i \in begin..(curr - 1) : value[i] \notin NeedEscape
  BY DEF WriterInv
<1>a. writing = "loop" /\ sink = TextOf(Encs(SubSeq(value, 1, begin - 1)))
  BY DEF WriterInv, WriterStep, WriteEscaped, Pass, WriteRest, Put
<1> DEFINE p == SubSeq(value, 1, begin - 1)
           w == SubSeq(value, begin, curr - 1)
           x == SubSeq(value, 1, curr - 1)
<1>b. /\ p \in Seq(Writable) /\ w \in Seq(Writable) /\ x \in Seq(Writable) /\ w \in Seq(Byte)
      /\ x = p \o w /\ FlattenSeq(Encs(w)) = w
  BY PutWritable
<1>c. TextOf(Encs(x)) = sink \o w
  <2> HIDE DEF p, w, x
  <2>1. TextOf(Encs(p \o w)) = TextOf(Encs(p)) \o FlattenSeq(Encs(w))  BY <1>b, EncsConcat
  <2>2. sink = TextOf(Encs(p))  BY <1>a DEF p
  <2> QED  BY <1>b, <2>1, <2>2, Zenon
<1>d. sink \o w \in Seq(Byte)
  <2> HIDE DEF w
  <2> QED  BY <1>0, <1>b, ConcatProperties
<1>1. CASE WriteEscaped
  <2> DEFINE c == value[curr]
  <2>1. /\ curr <= Len(value) /\ c \in NeedEscape
        /\ sink' = sink \o w \o <<92, EscapeOf(c)>>
        /\ begin' = curr + 1 /\ curr' = curr + 1 /\ value' = value /\ writing' = writing
    BY <1>1 DEF WriteEscaped, BeginPast
  <2>2. c \in Writable  BY <2>1 DEF Writable
  <2>3. Put' = SubSeq(value, 1, curr)
    <3>1. (curr + 1) - 1 = curr  BY <1>0
    <3>2. Put' = SubSeq(value, 1, (curr + 1) - 1)  BY <1>a, <2>1 DEF Put
    <3> QED  BY <3>1, <3>2, Zenon
  <2>4. SubSeq(value, 1, curr) = x \o <<c>>
    <3>1. 1 \in 1..Len(value) /\ curr \in 1..Len(value)  BY <1>0, <2>1
    <3> QED  BY <1>0, <3>1, SubSeqRecursiveSecond
  <2> HIDE DEF x, w, p
  <2>5. TextOf(Encs(x \o <<c>>)) = TextOf(Encs(x)) \o FlattenSeq(Encs(<<c>>))
    <3>1. <<c>> \in Seq(Writable)  BY <2>2
    <3> HIDE DEF c
    <3> QED  BY <1>b, <3>1, EncsConcat
  <2>6. FlattenSeq(Encs(<<c>>)) = <<92, EscapeOf(c)>>
    <3> DEFINE e == <<92, EscapeOf(c)>>
    <3>1. Enc(c) = e  BY <2>1 DEF Enc
    <3>2. e \in Seq(Byte)
      <4>1. Enc(c) \in Unit  BY <2>2, EncIsUnit
      <4> QED  BY <3>1, <4>1, UnitTyped
    <3> HIDE DEF e, c
    <3>3. Encs(<<c>>) = <<e>>
      <4>1. Encs(<<c>>) = <<Enc(c)>>  BY DEF Encs
      <4> QED  BY <3>1, <4>1
    <3>4. FlattenSeq(<<e>>) = e
      <4>1. <<>> \in Seq(Seq(Byte)) /\ FlattenSeq(<<>>) = <<>>  BY DEF FlattenSeq
      <4>2. FlattenSeq(Append(<<>>, e)) = FlattenSeq(<<>>) \o e  BY <3>2, <4>1, FlattenAppend
      <4>3. Append(<<>>, e) = <<e>>  OBVIOUS
      <4>4. <<>> \o e = e  BY <3>2, ConcatEmptySeq
      <4> QED  BY <4>1, <4>2, <4>3, <4>4, Zenon
    <3> QED  BY <3>3, <3>4, Zenon DEF e
  <2>7. sink' = TextOf(Encs(Put'))
    <3>1. sink' = TextOf(Encs(x)) \o FlattenSeq(Encs(<<c>>))  BY <1>c, <2>1, <2>6, Zenon
    <3>2. TextOf(Encs(Put')) = TextOf(Encs(x \o <<c>>))  BY <2>3, <2>4, Zenon
    <3> QED  BY <2>5, <3>1, <3>2, Zenon
  <2>8. sink' \in Seq(Byte)
    <3> DEFINE e == <<92, EscapeOf(c)>>
    <3>1. Enc(c) = e  BY <2>1 DEF Enc
    <3>2. e \in Seq(Byte)
      <4>1. Enc(c) \in Unit  BY <2>2, EncIsUnit
      <4> QED  BY <3>1, <4>1, UnitTyped
    <3>3. sink' = (sink \o w) \o e  BY <2>1
    <3> HIDE DEF e
    <3> QED  BY <1>d, <3>2, <3>3, ConcatProperties
  <2>9. \A i \in 1..(curr' - 1) : value'[i] \in Writable
    <3> TAKE i \in 1..(curr' - 1)
    <3>1. i \in 1..(curr - 1) \/ i = curr  BY <1>0, <2>1
    <3> QED  BY <1>0, <2>1, <2>2, <3>1
  <2>10. \A i \in begin'..(curr' - 1) : value'[i] \notin NeedEscape  BY <1>0, <2>1
  <2>11. /\ begin' \in Nat /\ curr' \in Nat
         /\ 1 <= begin' /\ begin' <= curr' /\ curr' <= Len(value') + 1
    BY <1>0, <2>1
  <2>12. value' \in Seq(Byte) /\ writing' = "loop"  BY <1>0, <1>a, <2>1
  <2> QED  BY <2>7, <2>8, <2>9, <2>10, <2>11, <2>12 DEF WriterInv
<1>2. CASE Pass
  <2>1. /\ curr <= Len(value) /\ value[curr] \notin NeedEscape
        /\ begin' = begin /\ value' = value /\ sink' = sink
    BY <1>2 DEF Pass, BeginStays
  <2>2. sink' = TextOf(Encs(SubSeq(value', 1, begin' - 1)))  BY <1>a, <2>1
  <2>3. CASE value[curr] >= 32
    <3>1. curr' = curr + 1 /\ writing' = "loop"  BY <1>2, <1>a, <2>3 DEF Pass
    <3>2. value[curr] \in Writable
      <4>1. curr \in 1..Len(value)  BY <1>0, <2>1
      <4>2. value[curr] \in Byte  BY <1>0, <4>1
      <4> QED  BY <2>3, <4>2 DEF Byte, Writable
    <3>3. \A i \in 1..(curr' - 1) : value'[i] \in Writable
      <4> TAKE i \in 1..(curr' - 1)
      <4>1. i \in 1..(curr - 1) \/ i = curr  BY <1>0, <3>1
      <4> QED  BY <1>0, <2>1, <3>2, <4>1
    <3>4. \A i \in begin'..(curr' - 1) : value'[i] \notin NeedEscape
      <4> TAKE i \in begin'..(curr' - 1)
      <4>1. i \in begin..(curr - 1) \/ i = curr  BY <1>0, <2>1, <3>1
      <4> QED  BY <1>0, <2>1, <4>1
    <3>5. /\ begin' \in Nat /\ curr' \in Nat
          /\ 1 <= begin' /\ begin' <= curr' /\ curr' <= Len(value') + 1
      BY <1>0, <2>1, <3>1
    <3>6. sink' = TextOf(Encs(Put'))  BY <2>2, <3>1 DEF Put
    <3> QED  BY <1>0, <2>1, <3>1, <3>3, <3>4, <3>5, <3>6 DEF WriterInv
  <2>4. CASE ~(value[curr] >= 32)
    <3>1. curr' = curr /\ writing' = "failed"  BY <1>2, <2>4 DEF Pass
    <3>2. sink' = TextOf(Encs(Put'))  BY <2>2, <3>1 DEF Put
    <3> QED  BY <1>0, <2>1, <3>1, <3>2 DEF WriterInv
  <2> QED  BY <2>3, <2>4
<1>3. CASE WriteRest
  <2>1. /\ curr > Len(value) /\ sink' = sink \o SubSeq(value, begin, Len(value)) \o <<34>>
        /\ writing' = "written" /\ value' = value /\ begin' = begin /\ curr' = curr
    BY <1>3 DEF WriteRest
  <2>2. curr = Len(value) + 1 /\ curr - 1 = Len(value)  BY <1>0, <2>1
  <2>3. x = value  BY <1>0, <2>2, SubSeqFull
  <2>4. sink' = (sink \o w) \o <<Quote>>  BY <2>1, <2>2 DEF Quote
  <2>5. Put' = value  BY <2>1 DEF Put
  <2>6. sink' = TextOf(Encs(Put')) \o <<Quote>>
    <3> HIDE DEF x, w
    <3> QED  BY <1>c, <2>3, <2>4, <2>5, Zenon
  <2>7. sink' \in Seq(Byte)
    <3>1. <<Quote>> \in Seq(Byte)  BY DEF Quote, Byte
    <3> DEFINE q == <<Quote>>
    <3> HIDE DEF q, w
    <3> QED  BY <1>d, <2>4, <3>1, ConcatProperties DEF q
  <2> QED  BY <1>0, <2>1, <2>2, <2>6, <2>7 DEF WriterInv
<1> QED  BY <1>1, <1>2, <1>3 DEF WriterStep

----------------------------------------------------------------------------
(* Two texts that go on together: the units of one are the first ones of    *)
(* the other, and what follows them goes on together too.                   *)
LEMMA GoTogether ==
    ASSUME NEW us \in Seq(Unit), NEW ws \in Seq(Unit), NEW r \in Seq(Byte), NEW t \in Seq(Byte),
           t = <<>> \/ t = <<Quote>>,
           Prefixed(FlattenSeq(us) \o r, FlattenSeq(ws) \o t)
    PROVE  \/ us = ws /\ Prefixed(r, t)
           \/ \E w \in Unit : \A i \in 1..Len(r) : i \in 1..Len(w) => r[i] = w[i]
<1> DEFINE f == FlattenSeq(us)
           g == FlattenSeq(ws)
           n == Len(us)
           m == Len(ws)
<1>1. n \in Nat /\ m \in Nat /\ n <= m /\ us = SubSeq(ws, 1, n)  BY SameUnits
<1>2. f \in Seq(Byte) /\ g \in Seq(Byte)  BY BytesTyped
<1>3. /\ Len(f) \in Nat /\ Len(g) \in Nat /\ Len(r) \in Nat /\ Len(t) \in Nat
      /\ Len(f \o r) = Len(f) + Len(r) /\ Len(g \o t) = Len(g) + Len(t)
      /\ \A i \in 1..(Len(f) + Len(r)) : (f \o r)[i] = IF i <= Len(f) THEN f[i] ELSE r[i - Len(f)]
      /\ \A i \in 1..(Len(g) + Len(t)) : (g \o t)[i] = IF i <= Len(g) THEN g[i] ELSE t[i - Len(g)]
  <2> HIDE DEF f, g
  <2> QED  BY <1>2, ConcatProperties
<1>4. Len(f \o r) <= Len(g \o t) /\ \A i \in 1..Len(f \o r) : (f \o r)[i] = (g \o t)[i]
  BY DEF Prefixed
<1>5. \A i \in 1..Len(r) : (g \o t)[Len(f) + i] = r[i]
  <2> HIDE DEF f, g
  <2> TAKE i \in 1..Len(r)
  <2>1. /\ Len(f) + i \in 1..(Len(f) + Len(r)) /\ ~(Len(f) + i <= Len(f)) /\ Len(f) + i - Len(f) = i
    BY <1>3
  <2> QED  BY <1>3, <1>4, <2>1
<1>6. CASE n = m
  <2>1. us = ws  BY <1>1, <1>6, SubSeqFull
  <2>2. f = g  BY <2>1
  <2> HIDE DEF f, g
  <2>3. Len(r) <= Len(t)  BY <1>3, <1>4, <2>2
  <2>4. \A i \in 1..Len(r) : r[i] = t[i]
    <3> TAKE i \in 1..Len(r)
    <3>1. /\ Len(g) + i \in 1..(Len(g) + Len(t)) /\ ~(Len(g) + i <= Len(g)) /\ Len(g) + i - Len(g) = i
      BY <1>3, <2>3
    <3>2. (g \o t)[Len(g) + i] = t[i]  BY <1>3, <3>1
    <3> QED  BY <1>5, <2>2, <3>2
  <2> QED  BY <2>1, <2>3, <2>4 DEF Prefixed
<1>7. CASE n < m
  <2> DEFINE k == n + 1
             w == ws[k]
  <2>1. k \in 1..m /\ k - 1 = n  BY <1>1, <1>7
  <2>2. w \in Unit  BY <2>1
  <2>3. \A j \in 1..Len(ws[k]) : (g \o t)[Len(FlattenSeq(SubSeq(ws, 1, k - 1))) + j] = ws[k][j]
    BY <2>1, UnitPlaces
  <2>4. Len(FlattenSeq(SubSeq(ws, 1, k - 1))) = Len(f)  BY <1>1, <2>1
  <2>5. \A j \in 1..Len(w) : (g \o t)[Len(f) + j] = w[j]
    <3> HIDE DEF f, g
    <3> QED  BY <2>3, <2>4, Zenon
  <2> HIDE DEF f, g, k, w
  <2>6. \A i \in 1..Len(r) : i \in 1..Len(w) => r[i] = w[i]  BY <1>5, <2>5
  <2> QED  BY <2>2, <2>6
<1> QED  BY <1>1, <1>6, <1>7

LEMMA EndsTogether ==
    ASSUME NEW us \in Seq(Unit), NEW ws \in Seq(Unit), NEW t \in Seq(Byte), t = <<>> \/ t = <<Quote>>,
           Prefixed(FlattenSeq(us) \o <<Quote>>, FlattenSeq(ws) \o t)
    PROVE  us = ws /\ t = <<Quote>>
<1> DEFINE q == <<Quote>>
<1>1. q \in Seq(Byte) /\ Len(q) = 1 /\ q[1] = Quote  BY DEF Quote, Byte
<1>2. \/ us = ws /\ Prefixed(q, t)
      \/ \E w \in Unit : \A i \in 1..Len(q) : i \in 1..Len(w) => q[i] = w[i]
  <2> HIDE DEF q
  <2>1. Prefixed(FlattenSeq(us) \o q, FlattenSeq(ws) \o t)  BY DEF q
  <2> QED  BY <1>1, <2>1, GoTogether
<1>3. ~ \E w \in Unit : \A i \in 1..Len(q) : i \in 1..Len(w) => q[i] = w[i]
  <2> HIDE DEF q
  <2> SUFFICES ASSUME NEW w \in Unit, \A i \in 1..Len(q) : i \in 1..Len(w) => q[i] = w[i] PROVE FALSE
    OBVIOUS
  <2>1. w[1] # Quote /\ 1 \in 1..Len(w)  BY UnitBegins
  <2>2. 1 \in 1..Len(q)  BY <1>1
  <2> QED  BY <1>1, <2>1, <2>2
<1>4. us = ws /\ Prefixed(q, t)  BY <1>2, <1>3
<1>5. t # <<>>
  <2>1. Len(<<>>) = 0  OBVIOUS
  <2>2. 1 <= Len(t)  BY <1>1, <1>4 DEF Prefixed
  <2> QED  BY <2>1, <2>2
<1> QED  BY <1>4, <1>5

LEMMA NeverWrong ==
    ASSUME NEW us \in Seq(Unit), NEW ws \in Seq(Unit), NEW p \in Seq(Byte), NEW c \in Byte,
           NEW t \in Seq(Byte), t = <<>> \/ t = <<Quote>>, Wrong(p, c),
           Prefixed(FlattenSeq(us) \o Append(p, c), FlattenSeq(ws) \o t)
    PROVE  FALSE
<1> DEFINE r == Append(p, c)
<1>0. Len(p) \in Nat /\ Len(r) = Len(p) + 1 /\ r \in Seq(Byte) /\ r[Len(p) + 1] = c
      /\ \A i \in 1..Len(p) : r[i] = p[i]
  BY AppendProperties
<1>1. \/ us = ws /\ Prefixed(r, t)
      \/ \E w \in Unit : \A i \in 1..Len(r) : i \in 1..Len(w) => r[i] = w[i]
  <2> HIDE DEF r
  <2>1. Prefixed(FlattenSeq(us) \o r, FlattenSeq(ws) \o t)  BY DEF r
  <2> QED  BY <1>0, <2>1, GoTogether
<1> HIDE DEF r
<1>2. ASSUME Prefixed(r, t) PROVE FALSE
  <2>1. Len(r) <= Len(t) /\ \A i \in 1..Len(r) : r[i] = t[i]  BY <1>2 DEF Prefixed
  <2>2. t = <<>> => Len(t) = 0  OBVIOUS
  <2>3. t = <<Quote>> /\ Len(t) = 1 /\ t[1] = Quote  BY <1>0, <2>1, <2>2
  <2>4. Len(p) = 0 /\ Len(r) = 1  BY <1>0, <2>1, <2>3
  <2>5. p = <<>>  BY <2>4
  <2>6. c = Quote
    <3>1. 1 \in 1..Len(r) /\ Len(p) + 1 = 1  BY <2>4
    <3> QED  BY <1>0, <2>1, <2>3, <3>1
  <2>7. p # <<Backslash>>
    <3>1. Len(<<Backslash>>) = 1  OBVIOUS
    <3> QED  BY <2>4, <3>1
  <2>8. \A h \in Seq(Byte) : Len(h) = 3 => p # <<Backslash, LetterU>> \o h
    <3> TAKE h \in Seq(Byte)
    <3> HAVE Len(h) = 3
    <3> DEFINE e == <<Backslash, LetterU>>
    <3>1. e \in Seq(Byte) /\ Len(e) = 2  BY DEF Backslash, LetterU, Byte
    <3> HIDE DEF e
    <3>2. Len(e \o h) = Len(e) + Len(h)  BY <3>1, ConcatProperties
    <3>3. p # e \o h  BY <2>4, <3>1, <3>2
    <3> QED  BY <3>3 DEF e
  <2>9. ~(c < 32)  BY <2>6 DEF Quote
  <2> QED  BY <2>7, <2>8, <2>9, Zenon DEF Wrong
<1>3. ASSUME NEW w \in Unit, \A i \in 1..Len(r) : i \in 1..Len(w) => r[i] = w[i] PROVE FALSE
  <2>1. \/ Len(w) = 1 /\ w[1] \in PlainByte
        \/ Len(w) = 2 /\ w[1] = Backslash /\ w[2] \in DOMAIN Escape
        \/ Len(w) = 6 /\ w[1] = Backslash /\ w[2] = LetterU /\ \A i \in 3..6 : w[i] \in Hex
    BY UnitKinds
  <2>2. Backslash \notin PlainByte /\ LetterU \notin DOMAIN Escape
    BY DEF PlainByte, Escape, LetterU, Quote, Backslash
  <2>3. 1 \in 1..Len(r) /\ 1 \in 1..Len(w)  BY <1>0, <2>1
  <2>4. r[1] = w[1]  BY <1>3, <2>3
  <2>5. CASE p = <<>> /\ c < 32
    <3>1. Len(p) = 0  BY <2>5
    <3>2. r[1] = c  BY <1>0, <3>1
    <3>3. w[1] \in PlainByte \/ w[1] = Backslash  BY <2>1, Zenon
    <3>4. c \in PlainByte \/ c = Backslash  BY <2>4, <3>2, <3>3, Zenon
    <3>5. \A x \in PlainByte \cup {Backslash} : ~(x < 32)  BY DEF PlainByte, Backslash
    <3> QED  BY <2>5, <3>4, <3>5, Zenon
  <2>6. CASE p = <<Backslash>> /\ c \notin DOMAIN Escape \cup {LetterU}
    <3>1. Len(p) = 1 /\ p[1] = Backslash  BY <2>6
    <3>2. r[1] = Backslash /\ r[2] = c /\ 2 \in 1..Len(r)  BY <1>0, <3>1
    <3>3. Len(w) = 2 \/ Len(w) = 6  BY <2>1, <2>2, <2>4, <3>2
    <3>4. 2 \in 1..Len(w)
      <4>1. 2 \in 1..2 /\ 2 \in 1..6  OBVIOUS
      <4> QED  BY <3>3, <4>1, Zenon
    <3>5. w[2] = c  BY <1>3, <3>2, <3>4
    <3>6. w[2] \in DOMAIN Escape \/ w[2] = LetterU  BY <2>1, <3>3
    <3> QED  BY <2>6, <3>5, <3>6
  <2>7. CASE \E h \in Seq(Byte) : /\ p = <<Backslash, LetterU>> \o h /\ Len(h) = 3
                                  /\ ~(Range(Append(h, c)) \subseteq Hex)
    <3>1. PICK h \in Seq(Byte) : /\ p = <<Backslash, LetterU>> \o h /\ Len(h) = 3
                                 /\ ~(Range(Append(h, c)) \subseteq Hex)
      BY <2>7
    <3> DEFINE d == Append(h, c)
    <3>2. d \in Seq(Byte) /\ Len(d) = 4
      <4>1. Len(h) = 3  BY <3>1
      <4>2. Append(h, c) \in Seq(Byte) /\ Len(Append(h, c)) = Len(h) + 1  BY AppendProperties
      <4> QED  BY <4>1, <4>2
    <3>3. r = <<Backslash, LetterU>> \o d
      <4>1. <<Backslash, LetterU>> \in Seq(Byte)  BY DEF Backslash, LetterU, Byte
      <4> DEFINE e == <<Backslash, LetterU>>
      <4> HIDE DEF e
      <4>2. e \o Append(h, c) = Append(e \o h, c)  BY <4>1, ConcatAppend DEF e
      <4>3. p = e \o h  BY <3>1 DEF e
      <4> QED  BY <4>2, <4>3, Zenon DEF r, e
    <3>0. ~(Range(d) \subseteq Hex)  BY <3>1
    <3> HIDE DEF d
    <3>4. Len(r) = 6 /\ r[1] = Backslash /\ r[2] = LetterU /\ \A i \in 1..4 : r[i + 2] = d[i]
      BY <3>2, <3>3, UnitOfFour
    <3>5. Len(w) # 1  BY <2>1, <2>2, <2>4, <3>4
    <3>6. 2 \in 1..Len(r) /\ 2 \in 1..Len(w)  BY <2>1, <3>4, <3>5
    <3>7. w[2] = LetterU  BY <1>3, <3>4, <3>6
    <3>8. Len(w) = 6 /\ \A i \in 3..6 : w[i] \in Hex  BY <2>1, <2>2, <3>5, <3>7
    <3>9. \A i \in 1..Len(d) : d[i] \in Hex
      <4> TAKE i \in 1..Len(d)
      <4>1. i \in 1..4 /\ i + 2 \in 1..Len(r) /\ i + 2 \in 1..Len(w) /\ i + 2 \in 3..6
        BY <3>2, <3>4, <3>8
      <4>2. r[i + 2] = w[i + 2]  BY <1>3, <4>1
      <4> QED  BY <3>4, <3>8, <4>1, <4>2
    <3>10. Range(d) = {d[i] : i \in 1..Len(d)}  BY <3>2, RangeEquality
    <3> QED  BY <3>0, <3>9, <3>10
  <2> QED  BY <2>5, <2>6, <2>7 DEF Wrong
<1> QED  BY <1>1, <1>2, <1>3

(* The same behind the first quote. *)
LEMMA BehindQuote ==
    ASSUME NEW us \in Seq(Unit), NEW ws \in Seq(Unit), NEW r \in Seq(Byte), NEW t \in Seq(Byte),
           Prefixed(TextOf(us) \o r, TextOf(ws) \o t)
    PROVE  Prefixed(FlattenSeq(us) \o r, FlattenSeq(ws) \o t)
<1> DEFINE q == <<Quote>>
           f == FlattenSeq(us) \o r
           g == FlattenSeq(ws) \o t
<1>1. q \in Seq(Byte) /\ Len(q) = 1  BY DEF Quote, Byte
<1>2. FlattenSeq(us) \in Seq(Byte) /\ FlattenSeq(ws) \in Seq(Byte)  BY BytesTyped
<1>3. f \in Seq(Byte) /\ g \in Seq(Byte)  BY <1>2, ConcatProperties
<1>4. TextOf(us) \o r = q \o f /\ TextOf(ws) \o t = q \o g
  <2> HIDE DEF q
  <2>0. q \in Seq(Byte)  BY <1>1
  <2>1. ASSUME NEW x \in Seq(Byte), NEW y \in Seq(Byte) PROVE (q \o x) \o y = q \o (x \o y)
    BY <2>0, ConcatAssociative
  <2>2. /\ (q \o FlattenSeq(us)) \o r = q \o (FlattenSeq(us) \o r)
        /\ (q \o FlattenSeq(ws)) \o t = q \o (FlattenSeq(ws) \o t)
    BY <1>2, <2>1, Zenon
  <2> QED  BY <2>2, Zenon DEF TextOf, q
<1> HIDE DEF f, g, q
<1>5. ASSUME NEW x \in Seq(Byte)
      PROVE  /\ Len(x) \in Nat /\ Len(q \o x) = 1 + Len(x)
             /\ \A i \in 1..Len(x) : (q \o x)[i + 1] = x[i]
  <2>0. q \in Seq(Byte)  BY <1>1
  <2>1. /\ Len(q \o x) = Len(q) + Len(x) /\ Len(x) \in Nat
        /\ \A i \in 1..(Len(q) + Len(x)) : (q \o x)[i] = IF i <= Len(q) THEN q[i] ELSE x[i - Len(q)]
    BY <2>0, ConcatProperties
  <2>2. \A i \in 1..Len(x) : (q \o x)[i + 1] = x[i]
    <3> TAKE i \in 1..Len(x)
    <3>1. i + 1 \in 1..(Len(q) + Len(x)) /\ ~(i + 1 <= Len(q)) /\ i + 1 - Len(q) = i
      BY <1>1, <2>1
    <3> QED  BY <2>1, <3>1
  <2> QED  BY <1>1, <2>1, <2>2
<1>6. Len(q \o f) <= Len(q \o g) /\ \A i \in 1..Len(q \o f) : (q \o f)[i] = (q \o g)[i]
  BY <1>4 DEF Prefixed
<1>7. /\ Len(f) <= Len(g) /\ Len(f) \in Nat /\ Len(g) \in Nat
      /\ Len(q \o f) = 1 + Len(f)
  <2>1. /\ Len(f) \in Nat /\ Len(g) \in Nat
        /\ Len(q \o f) = 1 + Len(f) /\ Len(q \o g) = 1 + Len(g)
    BY <1>3, <1>5
  <2> QED  BY <1>6, <2>1
<1>8. \A i \in 1..Len(f) : f[i] = g[i]
  <2> TAKE i \in 1..Len(f)
  <2>1. i + 1 \in 1..Len(q \o f) /\ i \in 1..Len(g)  BY <1>7
  <2>2. (q \o f)[i + 1] = f[i] /\ (q \o g)[i + 1] = g[i]  BY <1>3, <1>5, <2>1
  <2>3. (q \o f)[i + 1] = (q \o g)[i + 1]  BY <1>6, <2>1
  <2> QED  BY <2>2, <2>3, Zenon
<1> QED  BY <1>7, <1>8 DEF Prefixed, f, g

----------------------------------------------------------------------------
(* What the parser reads is what Write put out, one character at a time.    *)
TextInv ==
    /\ frame = "caller" => look \notin Byte
    /\ text = <<>> => look # EndOfChunk
    /\ text = <<>> /\ frame = "failed" => look \in Byte \ {Quote}
    /\ complete => look = Unread
    /\ writing = "loop" => frame = "caller" /\ text = <<>>
    /\ Sunk => Prefixed(text, sink)
    /\ Sunk /\ look \in Byte => Len(text) < Len(sink) /\ look = sink[Len(text) + 1]

IInv == ParserTypeOK /\ ReadInv /\ WriterInv /\ TextInv

(* A step of the parser reads a character, or stops at one or at the end.   *)
LEMMA StepReads ==
    ASSUME ParserTypeOK, ReadInv, TextInv, StringStep
    PROVE  \/ /\ look \in Byte /\ text' = Append(text, look) /\ look' = Unread
              /\ frame' \in {"body", "caller"}
           \/ /\ look \in Byte /\ text' = text /\ look' = look /\ complete' = complete
              /\ frame' = "failed" /\ (text = <<>> => look # Quote)
           \/ /\ look = EndOfChunk /\ text' = text /\ look' = look /\ complete' = complete
              /\ frame' = "caller"
<1>1. CASE Start
  <2>1. frame = "start" /\ look # Unread  BY <1>1 DEF Start
  <2>2. text = <<>>  BY <2>1 DEF ReadInv, AtRest, Reading, Done, Refused
  <2>3. look \in Byte  BY <2>1, <2>2 DEF TextInv, ParserTypeOK
  <2> QED  BY <1>1, <2>3 DEF Start, Advance, Throw
<1>2. frame = "body" => text # <<>>  BY DEF ReadInv, AtRest, Reading, Done, Refused
<1>3. CASE Plain  BY <1>2, <1>3 DEF Plain, Advance, Throw
<1>4. CASE Close
  <2>1. look \in Byte  BY <1>4 DEF Close, Quote, Byte
  <2> QED  BY <1>4, <2>1 DEF Close, Advance
<1>5. CASE Begin
  <2>1. look \in Byte  BY <1>5 DEF Begin, Backslash, Byte
  <2> QED  BY <1>5, <2>1 DEF Begin, Advance
<1>6. CASE Escaped  BY <1>2, <1>6 DEF Escaped, Advance, Throw
<1>7. CASE Unicode
  <2>1. look \in Byte /\ frame = "body"  BY <1>7 DEF Unicode
  <2>2. (Advance /\ UNCHANGED frame) \/ Throw  BY <1>7 DEF Unicode
  <2> QED  BY <1>2, <2>1, <2>2 DEF Advance, Throw
<1>8. CASE ChunkEnds  BY <1>8 DEF ChunkEnds, Suspend
<1> QED  BY <1>1, <1>3, <1>4, <1>5, <1>6, <1>7, <1>8 DEF StringStep

(* The next character that Write put out is one. *)
LEMMA FeedsNext ==
    ASSUME ParserTypeOK, WriterInv, FeedText
    PROVE  \E c \in Byte : Feed(c) /\ (Sunk => Len(text) < Len(sink) /\ c = sink[Len(text) + 1])
<1>1. CASE /\ writing = "idle"
           /\ \E c \in IF Len(text) < MaxText THEN Alphabet ELSE {Quote} : Feed(c)
  <2>1. PICK c \in IF Len(text) < MaxText THEN Alphabet ELSE {Quote} : Feed(c)  BY <1>1
  <2>2. c \in Byte  BY <2>1, AlphabetAssumption DEF Quote, Byte
  <2>3. ~Sunk  BY <1>1 DEF Sunk
  <2> QED  BY <2>1, <2>2, <2>3
<1>2. CASE Sunk /\ Len(text) < Len(sink) /\ Feed(sink[Len(text) + 1])
  <2>1. sink[Len(text) + 1] \in Byte
    <3>1. sink \in Seq(Byte) /\ text \in Seq(Byte)  BY DEF WriterInv, ParserTypeOK
    <3>2. Len(text) + 1 \in 1..Len(sink)  BY <1>2, <3>1
    <3> QED  BY <3>1, <3>2
  <2> QED  BY <1>2, <2>1
<1> QED  BY <1>1, <1>2 DEF FeedText

LEMMA ReadKeeps ==
    ASSUME IInv, Read, UNCHANGED writerVars
    PROVE  IInv'
<1>1. ParserTypeOK /\ ReadInv /\ WriterInv /\ TextInv /\ writing # "loop"  BY DEF IInv, Read
<1>2. Parse \/ StringStep \/ Fed
  <2>1. Feed(EndOfChunk) => Fed  BY DEF Fed
  <2>2. FeedText => Fed  BY <1>1, FeedsNext DEF Fed
  <2> QED  BY <2>1, <2>2 DEF Read
<1>3. ParserTypeOK'  BY <1>1, <1>2, ParserKeepsTypes
<1>4. ReadInv'  BY <1>1, <1>2, ParserReads
<1>5. /\ value' = value /\ begin' = begin /\ curr' = curr /\ sink' = sink /\ writing' = writing
  BY DEF writerVars
<1>6. WriterInv'  BY <1>1, <1>5 DEF WriterInv, Put
<1>7. Sunk' = Sunk  BY <1>5 DEF Sunk
<1>8. Unread \notin Byte /\ EndOfChunk \notin Byte /\ Unread # EndOfChunk  BY DEF Unread, EndOfChunk, Byte
<1>9. TextInv'
  <2>1. CASE Parse
    <3>1. /\ look' = Unread /\ text' = text /\ complete' = complete /\ ~complete
          /\ frame' \in {"start", "body"}
      BY <2>1 DEF Parse
    <3> QED  BY <1>1, <1>5, <1>7, <1>8, <3>1 DEF TextInv
  <2>2. CASE Feed(EndOfChunk)
    <3>1. /\ look' = EndOfChunk /\ text' = text /\ complete' = complete /\ frame' = frame /\ frame = "body"
      BY <2>2 DEF Feed
    <3>2. text # <<>> /\ ~complete  BY <1>1, <3>1 DEF ReadInv, AtRest, Reading, Done, Refused
    <3> QED  BY <1>1, <1>5, <1>7, <1>8, <3>1, <3>2 DEF TextInv
  <2>3. CASE FeedText
    <3>1. PICK c \in Byte : Feed(c) /\ (Sunk => Len(text) < Len(sink) /\ c = sink[Len(text) + 1])
      BY <1>1, <2>3, FeedsNext
    <3>2. /\ look' = c /\ text' = text /\ complete' = complete /\ frame' = frame
          /\ frame \in {"start", "body"}
      BY <3>1 DEF Feed
    <3>3. ~complete  BY <1>1, <3>2 DEF ReadInv, AtRest, Reading, Done, Refused
    <3> QED  BY <1>1, <1>5, <1>7, <1>8, <3>1, <3>2, <3>3 DEF TextInv
  <2>4. CASE StringStep
    <3>1. CASE /\ look \in Byte /\ text' = Append(text, look) /\ look' = Unread
               /\ frame' \in {"body", "caller"}
      <4>1. text \in Seq(Byte)  BY <1>1 DEF ParserTypeOK
      <4>2. /\ text' # <<>> /\ Len(text') = Len(text) + 1 /\ Len(text) \in Nat
            /\ text'[Len(text) + 1] = look /\ \A i \in 1..Len(text) : text'[i] = text[i]
        BY <3>1, <4>1, AppendProperties
      <4>3. Sunk => Prefixed(text', sink)
        <5> SUFFICES ASSUME Sunk PROVE Prefixed(text', sink)
          OBVIOUS
        <5>1. /\ Prefixed(text, sink) /\ Len(text) < Len(sink) /\ look = sink[Len(text) + 1]
          BY <1>1, <3>1 DEF TextInv
        <5>2. Len(sink) \in Nat  BY <1>1 DEF WriterInv
        <5>3. Len(text') <= Len(sink)  BY <4>2, <5>1, <5>2
        <5>4. \A i \in 1..Len(text') : text'[i] = sink[i]
          <6> TAKE i \in 1..Len(text')
          <6>1. i \in 1..Len(text) \/ i = Len(text) + 1  BY <4>2
          <6> QED  BY <4>2, <5>1, <6>1 DEF Prefixed
        <5> QED  BY <5>3, <5>4 DEF Prefixed
      <4> QED  BY <1>1, <1>5, <1>7, <1>8, <3>1, <4>2, <4>3 DEF TextInv
    <3>2. CASE /\ look \in Byte /\ text' = text /\ look' = look /\ complete' = complete
               /\ frame' = "failed" /\ (text = <<>> => look # Quote)
      BY <1>1, <1>5, <1>7, <1>8, <3>2 DEF TextInv
    <3>3. CASE /\ look = EndOfChunk /\ text' = text /\ look' = look /\ complete' = complete
               /\ frame' = "caller"
      BY <1>1, <1>5, <1>7, <1>8, <3>3 DEF TextInv
    <3> QED  BY <1>1, <2>4, <3>1, <3>2, <3>3, StepReads
  <2> QED  BY <2>1, <2>2, <2>3, <2>4 DEF Read
<1> QED  BY <1>3, <1>4, <1>6, <1>9 DEF IInv

LEMMA RenewKeeps ==
    ASSUME IInv, Renew
    PROVE  IInv'
<1>1. /\ value' = <<>> /\ begin' = 1 /\ curr' = 1 /\ sink' = <<>> /\ writing' = "idle"
  BY DEF Renew
<1>2. WriterInv'
  <2>1. <<>> \in Seq(Byte) /\ Len(<<>>) = 0  OBVIOUS
  <2>2. \A i \in 1..(1 - 1) : FALSE  OBVIOUS
  <2> QED  BY <1>1, <2>1, <2>2 DEF WriterInv
<1>3. ~Sunk'  BY <1>1 DEF Sunk
<1>4. Unread \notin Byte /\ Unread # EndOfChunk  BY DEF Unread, EndOfChunk, Byte
<1>5. CASE Again
  <2>1. Done /\ look = Unread  BY <1>5 DEF IInv, TextInv, Again, ReadInv, AtRest, Reading, Refused
  <2>2. ParserTypeOK'
    <3>1. OwnString \subseteq Seq(Byte)  BY DEF OwnString, LetterU, Byte
    <3>2. out' \in Seq(Byte)  BY <1>5, <3>1 DEF Again
    <3>3. text' \in Seq(Byte)  BY <1>5 DEF Again
    <3>4. complete' \in BOOLEAN /\ UNCHANGED <<frame, look, finished, state, hexDigits, buffer>>
      BY <1>5 DEF Again
    <3> QED  BY <3>2, <3>3, <3>4 DEF IInv, ParserTypeOK
  <2>3. AtRest'  BY <1>5, <2>1 DEF Again, Done, AtRest
  <2>4. TextInv'  BY <1>1, <1>3, <1>4, <1>5, <2>1 DEF Again, TextInv
  <2> QED  BY <1>2, <2>2, <2>3, <2>4 DEF IInv, ReadInv
<1>6. CASE New
  <2>1. ParserTypeOK'
    <3>1. <<>> \in Seq(Byte) /\ Len(<<>>) < 4  OBVIOUS
    <3>2. hexDigits' \in Seq(Byte) /\ Len(hexDigits') < 4  BY <1>6, <3>1, Zenon DEF New
    <3>3. buffer' \in Seq(Byte) /\ out' \in Seq(Byte) /\ text' \in Seq(Byte)  BY <1>6, <3>1, Zenon DEF New
    <3>4. /\ frame' = "caller" /\ look' = Unread /\ finished' \in BOOLEAN /\ complete' \in BOOLEAN
          /\ state' = "Normal"
      BY <1>6 DEF New
    <3> QED  BY <3>2, <3>3, <3>4 DEF ParserTypeOK
  <2>2. AtRest'  BY <1>6 DEF New, AtRest
  <2>3. TextInv'  BY <1>1, <1>3, <1>4, <1>6 DEF New, TextInv
  <2> QED  BY <1>2, <2>1, <2>2, <2>3 DEF IInv, ReadInv
<1> QED  BY <1>5, <1>6 DEF Renew, Drop, Abandon

LEMMA WritingKeeps ==
    ASSUME IInv, WriteValue \/ WriterStep, UNCHANGED parserVars
    PROVE  IInv'
<1>0. ParserTypeOK /\ ReadInv /\ WriterInv /\ TextInv  BY DEF IInv
<1>1. /\ UNCHANGED <<frame, look, finished, state, hexDigits, buffer, out, complete, text>>
  BY DEF parserVars
<1>2. ParserTypeOK'  BY <1>0, <1>1 DEF ParserTypeOK
<1>3. ReadInv'
  BY <1>0, <1>1 DEF ReadInv, AtRest, Reading, Done, Refused, Partial
<1>4. CASE WriteValue
  <2>1. PICK v \in BoundedSeq(ValueAlphabet, MaxValue) : Write(v)  BY <1>4 DEF WriteValue
  <2>2. v \in Seq(Byte)
    <3>1. v \in UNION {[1..m -> ValueAlphabet] : m \in 0..MaxValue}
      BY <2>1 DEF BoundedSeq, SeqOf
    <3>2. PICK m \in 0..MaxValue : v \in [1..m -> ValueAlphabet]  BY <3>1
    <3>3. m \in Nat  BY <3>2, BoundAssumption
    <3>4. ValueAlphabet \subseteq Byte  BY AlphabetAssumption
    <3> QED  BY <3>2, <3>3, <3>4
  <2>3. WriterInv'  BY <2>1, <2>2, WriterBegins
  <2>4. frame = "caller" /\ text = <<>>  BY <1>4 DEF WriteValue
  <2>5. writing' = "loop"  BY <2>1 DEF Write
  <2>6. TextInv'  BY <1>0, <1>1, <2>4, <2>5 DEF TextInv, Sunk
  <2> QED  BY <1>2, <1>3, <2>3, <2>6 DEF IInv
<1>5. CASE WriterStep
  <2>1. WriterInv'  BY <1>0, <1>5, WriterGoesOn
  <2>2. writing = "loop"  BY <1>5 DEF WriterStep, WriteEscaped, Pass, WriteRest
  <2>3. frame = "caller" /\ text = <<>> /\ look \notin Byte  BY <1>0, <2>2 DEF TextInv
  <2>4. Prefixed(text', sink')
    <3>1. sink' \in Seq(Byte)  BY <2>1 DEF WriterInv
    <3>2. Len(sink') \in Nat /\ Len(<<>>) = 0  BY <3>1
    <3> QED  BY <1>1, <2>3, <3>2 DEF Prefixed
  <2>5. TextInv'  BY <1>0, <1>1, <2>3, <2>4 DEF TextInv
  <2> QED  BY <1>2, <1>3, <2>1, <2>5 DEF IInv
<1> QED  BY <1>4, <1>5

(* The invariant of the round trip. *)
LEMMA Invariance == Spec => []IInv
<1>1. Init => IInv
  <2> SUFFICES ASSUME Init PROVE IInv
    OBVIOUS
  <2> USE DEF Init, WriterInit, ParserInit
  <2>0. <<>> \in Seq(Byte) /\ Len(<<>>) = 0  OBVIOUS
  <2>1. ParserTypeOK
    <3>1. Len(<<>>) < 4  OBVIOUS
    <3>2. hexDigits \in Seq(Byte) /\ Len(hexDigits) < 4  BY <2>0, <3>1, Zenon
    <3>3. buffer \in Seq(Byte) /\ out \in Seq(Byte) /\ text \in Seq(Byte)  BY <2>0, Zenon
    <3>4. /\ frame = "caller" /\ look = Unread /\ finished \in BOOLEAN /\ complete \in BOOLEAN
          /\ state = "Normal"
      OBVIOUS
    <3> QED  BY <3>2, <3>3, <3>4 DEF ParserTypeOK
  <2>2. AtRest  BY DEF AtRest
  <2>3. WriterInv
    <3>1. \A i \in 1..(1 - 1) : FALSE  OBVIOUS
    <3> QED  BY <2>0, <3>1 DEF WriterInv
  <2>4. TextInv
    <3>1. Unread \notin Byte /\ Unread # EndOfChunk  BY DEF Unread, EndOfChunk, Byte
    <3> QED  BY <3>1 DEF TextInv, Sunk
  <2> QED  BY <2>1, <2>2, <2>3, <2>4 DEF IInv, ReadInv
<1>2. IInv /\ [Next]_vars => IInv'
  <2> SUFFICES ASSUME IInv, [Next]_vars PROVE IInv'
    OBVIOUS
  <2>1. CASE Read /\ UNCHANGED writerVars  BY <2>1, ReadKeeps
  <2>2. CASE Renew  BY <2>2, RenewKeeps
  <2>3. CASE (WriteValue \/ WriterStep) /\ UNCHANGED parserVars  BY <2>3, WritingKeeps
  <2>4. CASE UNCHANGED vars
    <3>1. UNCHANGED writerVars /\ UNCHANGED parserVars  BY <2>4 DEF vars
    <3> QED  BY <3>1 DEF IInv, ParserTypeOK, ReadInv, AtRest, Reading, Done, Refused, Partial,
                     WriterInv, Put, TextInv, Sunk, writerVars, parserVars
  <2> QED  BY <2>1, <2>2, <2>3, <2>4 DEF Next
<1> QED  BY <1>1, <1>2, PTL DEF Spec

----------------------------------------------------------------------------
(* Whatever was written is read as what it was, and never refused.          *)
LEMMA ReadsBack ==
    ASSUME IInv
    PROVE  ReadsWhatWasWritten
<1>0. ParserTypeOK /\ ReadInv /\ WriterInv /\ TextInv  BY DEF IInv
<1> DEFINE ws == Encs(Put)
           t == IF writing = "written" THEN <<Quote>> ELSE <<>>
<1>1. t = <<>> \/ t = <<Quote>>  OBVIOUS
<1>2. ASSUME Sunk
      PROVE  /\ Put \in Seq(Writable) /\ ws \in Seq(Unit) /\ sink = TextOf(ws) \o t
             /\ t \in Seq(Byte) /\ Prefixed(text, sink)
  <2>1. Put \in Seq(Writable)
    <3>1. CASE writing = "written"
      <4>1. curr - 1 = Len(value) /\ value \in Seq(Byte)
        <5>1. curr = Len(value) + 1 /\ value \in Seq(Byte)  BY <1>0, <3>1 DEF WriterInv
        <5> QED  BY <5>1
      <4>2. SubSeq(value, 1, curr - 1) = value  BY <4>1, SubSeqFull
      <4>3. SubSeq(value, 1, curr - 1) \in Seq(Writable)  BY <1>0, PutWritable
      <4> QED  BY <3>1, <4>2, <4>3 DEF Put
    <3>2. CASE writing # "written"  BY <1>0, <3>2, PutWritable DEF Put
    <3> QED  BY <3>1, <3>2
  <2>2. ws \in Seq(Unit)  BY <2>1, EncsTyped
  <2>3. TextOf(ws) \in Seq(Byte)  BY <2>2, TextTyped
  <2>4. sink = TextOf(ws) \o t
    <3>1. CASE writing = "written"  BY <1>0, <3>1 DEF WriterInv
    <3>2. CASE writing # "written"
      <4>1. sink = TextOf(ws)  BY <1>0, <1>2, <3>2 DEF WriterInv, Sunk
      <4>2. t = <<>>  BY <3>2
      <4> QED  BY <2>3, <4>1, <4>2, ConcatEmptySeq
    <3> QED  BY <3>1, <3>2
  <2>5. t \in Seq(Byte)
    <3>1. <<Quote>> \in Seq(Byte) /\ <<>> \in Seq(Byte)  BY DEF Quote, Byte
    <3> HIDE DEF t
    <3> QED  BY <1>1, <3>1, Zenon
  <2>6. Prefixed(text, sink)  BY <1>0, <1>2 DEF TextInv
  <2> QED  BY <2>1, <2>2, <2>4, <2>5, <2>6
<1>3. ASSUME Sunk, frame = "failed" PROVE FALSE
  <2>1. Refused  BY <1>0, <1>3 DEF ReadInv, AtRest, Reading, Done
  <2>2. look \in Byte /\ Len(text) < Len(sink) /\ look = sink[Len(text) + 1]
    BY <1>0, <1>3, <2>1 DEF Refused, TextInv
  <2>3. CASE text = <<>>
    <3>1. look # Quote  BY <1>0, <1>3, <2>3 DEF TextInv
    <3>2. sink[1] = Quote
      <4> DEFINE s == TextOf(ws)
      <4>1. s \in Seq(Byte) /\ s # <<>> /\ s[1] = Quote  BY <1>2, <1>3, TextTyped
      <4>2. t \in Seq(Byte) /\ sink = s \o t  BY <1>2, <1>3
      <4> HIDE DEF s, t
      <4>3. /\ Len(s) \in Nat /\ Len(t) \in Nat /\ Len(s) >= 1
            /\ \A i \in 1..(Len(s) + Len(t)) : (s \o t)[i] = IF i <= Len(s) THEN s[i] ELSE t[i - Len(s)]
        BY <4>1, <4>2, ConcatProperties
      <4>4. 1 \in 1..(Len(s) + Len(t)) /\ 1 <= Len(s)  BY <4>3
      <4> QED  BY <4>1, <4>2, <4>3, <4>4
    <3>3. Len(text) + 1 = 1  BY <2>3
    <3> QED  BY <2>2, <3>1, <3>2, <3>3
  <2>4. CASE text # <<>>
    <3>1. PICK us \in Seq(Unit), p \in Seq(Byte) : text = TextOf(us) \o p /\ Wrong(p, look)
      BY <2>1, <2>4 DEF Refused
    <3>2. Prefixed(Append(text, look), sink)
      <4>1. text \in Seq(Byte) /\ Len(sink) \in Nat  BY <1>0 DEF ParserTypeOK, WriterInv
      <4> DEFINE x == Append(text, look)
      <4>2. /\ Len(x) = Len(text) + 1 /\ Len(text) \in Nat /\ x[Len(text) + 1] = look
            /\ \A i \in 1..Len(text) : x[i] = text[i]
        BY <2>2, <4>1, AppendProperties
      <4> HIDE DEF x
      <4>3. Prefixed(text, sink)  BY <1>2, <1>3
      <4>4. \A i \in 1..Len(x) : x[i] = sink[i]
        <5> TAKE i \in 1..Len(x)
        <5>1. i \in 1..Len(text) \/ i = Len(text) + 1  BY <4>2
        <5> QED  BY <2>2, <4>2, <4>3, <5>1 DEF Prefixed
      <4>5. Len(x) <= Len(sink)  BY <2>2, <4>1, <4>2
      <4> QED  BY <4>4, <4>5 DEF Prefixed, x
    <3>3. Append(text, look) = TextOf(us) \o Append(p, look)  BY <2>2, <3>1, TextGrows
    <3>4. ws \in Seq(Unit) /\ t \in Seq(Byte) /\ sink = TextOf(ws) \o t  BY <1>2, <1>3
    <3> HIDE DEF ws, t
    <3>5. Append(p, look) \in Seq(Byte)  BY <2>2
    <3>6. Prefixed(TextOf(us) \o Append(p, look), TextOf(ws) \o t)  BY <3>2, <3>3, <3>4
    <3>7. Prefixed(FlattenSeq(us) \o Append(p, look), FlattenSeq(ws) \o t)
      BY <3>4, <3>5, <3>6, BehindQuote
    <3> QED  BY <1>1, <2>2, <3>1, <3>4, <3>7, NeverWrong
  <2> QED  BY <2>3, <2>4
<1>4. ASSUME Sunk, complete PROVE writing = "written" /\ out = value /\ text = sink
  <2>1. Done  BY <1>0, <1>4 DEF ReadInv, AtRest, Reading, Refused
  <2>2. PICK us \in Seq(Unit) : text = TextOf(us) \o <<Quote>> /\ out = Bytes(us)  BY <2>1 DEF Done
  <2>3. ws \in Seq(Unit) /\ t \in Seq(Byte) /\ sink = TextOf(ws) \o t /\ Prefixed(text, sink)
    BY <1>2, <1>4
  <2>4. us = ws /\ t = <<Quote>>
    <3> DEFINE q == <<Quote>>
    <3>1. q \in Seq(Byte)  BY DEF Quote, Byte
    <3> HIDE DEF ws, t
    <3>2. Prefixed(TextOf(us) \o q, TextOf(ws) \o t)  BY <2>2, <2>3
    <3>3. Prefixed(FlattenSeq(us) \o q, FlattenSeq(ws) \o t)
      <4> HIDE DEF q
      <4> QED  BY <2>3, <3>1, <3>2, BehindQuote
    <3> QED  BY <1>1, <2>3, <3>3, EndsTogether
  <2>5. writing = "written"
    <3>1. <<Quote>> # <<>>  OBVIOUS
    <3> QED  BY <2>4, <3>1
  <2>6. Put = value  BY <2>5 DEF Put
  <2>7. out = value
    <3>1. Put \in Seq(Writable)  BY <1>2, <1>4
    <3>2. Bytes(ws) = Put  BY <3>1, BytesOfEncs
    <3> QED  BY <2>2, <2>4, <2>6, <3>2
  <2>8. text = sink  BY <2>2, <2>3, <2>4
  <2> QED  BY <2>5, <2>7, <2>8
<1>5. writing = "written" => Sunk  BY DEF Sunk
<1>6. writing = "failed" => Sunk /\ writing # "written"  BY DEF Sunk
<1> QED  BY <1>3, <1>4, <1>5, <1>6 DEF ReadsWhatWasWritten

(* Whatever the chunks, out is what the text of the string says             *)
(* (ParseString::Parse, its escapes and the bytes of UTF-8).                *)
THEOREM ReadsText == Spec => []OutIsText
<1>1. IInv => OutIsText  BY DoneIsText DEF IInv
<1> QED  BY <1>1, Invariance, PTL

(* An exception of ParseString::Parse means that no string begins like what *)
(* was read, wherever the chunks ended.                                     *)
THEOREM RefusesNonStrings == Spec => []RefusesOnlyNonStrings
<1>1. IInv => RefusesOnlyNonStrings  BY RefusedIsWrong DEF IInv
<1> QED  BY <1>1, Invariance, PTL

(* ParseString reads any value that Write wrote as what it was, all of it;  *)
(* where Write threw, what it put out is no string to ParseString.          *)
THEOREM RoundTrip == Spec => []ReadsWhatWasWritten
<1>1. IInv => ReadsWhatWasWritten  BY ReadsBack
<1> QED  BY <1>1, Invariance, PTL
=============================================================================
