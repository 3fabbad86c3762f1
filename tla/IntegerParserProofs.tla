------------------------ MODULE IntegerParserProofs ------------------------
(***************************************************************************)
(* Theorems of IntegerParser, for integer types of any width and texts of  *)
(* any length in any chunks: which values are given and what is refused.   *)
(***************************************************************************)
EXTENDS IntegerParser, SequenceLemmas

(* What Magnitude computes, one digit after the other. *)
Sums(digits, f) ==
    f = [n \in 0..Len(digits) |-> IF n = 0 THEN 0 ELSE 10 * f[n - 1] + (digits[n] - 48)]

LEMMA SumsExist ==
    ASSUME NEW S, NEW s \in Seq(S)
    PROVE  \E f : Sums(s, f)
<1> DEFINE Upto(k, f) ==
             f = [n \in 0..k |-> IF n = 0 THEN 0 ELSE 10 * f[n - 1] + (s[n] - 48)]
           Bad == {k \in 0..Len(s) : ~ \E f : Upto(k, f)}
<1>1. Upto(0, [n \in 0..0 |-> 0])  OBVIOUS
<1>2. ASSUME NEW m \in 0..Len(s), m # 0, NEW f, Upto(m - 1, f)
      PROVE  \E g : Upto(m, g)
  <2> DEFINE g == [n \in 0..m |-> IF n = m THEN 10 * f[m - 1] + (s[m] - 48) ELSE f[n]]
  <2>1. \A n \in 0..(m - 1) : f[n] = IF n = 0 THEN 0 ELSE 10 * f[n - 1] + (s[n] - 48)
    BY <1>2
  <2>2. \A n \in 0..m : g[n] = IF n = 0 THEN 0 ELSE 10 * g[n - 1] + (s[n] - 48)
    <3> TAKE n \in 0..m
    <3>1. CASE n = m
      <4>1. m \in 0..m /\ m - 1 \in 0..m /\ m - 1 # m  BY <1>2
      <4>2. g[m] = 10 * f[m - 1] + (s[m] - 48)  BY <4>1
      <4>3. g[m - 1] = f[m - 1]  BY <4>1
      <4> QED  BY <3>1, <4>2, <4>3, <1>2
    <3>2. CASE n # m
      <4>1. n \in 0..(m - 1) /\ (n # 0 => n - 1 \in 0..(m - 1) /\ n - 1 # m)  BY <3>2
      <4>2. g[n] = f[n] /\ (n # 0 => g[n - 1] = f[n - 1])  BY <3>2, <4>1
      <4> QED  BY <2>1, <4>1, <4>2
    <3> QED  BY <3>1, <3>2
  <2>3. Upto(m, g)  BY <2>2
  <2> QED  BY <2>3
<1>3. (\E f : Upto(Len(s), f)) => \E f : Sums(s, f)  BY DEF Sums
<1> HIDE DEF Upto
<1>4. Bad = {}
  <2> SUFFICES ASSUME Bad # {} PROVE FALSE
    OBVIOUS
  <2>1. Bad \subseteq Nat  OBVIOUS
  <2> HIDE DEF Bad
  <2>2. PICK m \in Bad : \A k \in Bad : m <= k  BY <2>1, LeastMember
  <2> USE DEF Bad
  <2>3. m # 0  BY <1>1, <2>2
  <2>4. m \in 0..Len(s) /\ m - 1 \in 0..Len(s) /\ ~(m <= m - 1)  BY <2>3
  <2>5. m - 1 \notin Bad  BY <2>2, <2>4
  <2>6. PICK f : Upto(m - 1, f)  BY <2>4, <2>5
  <2> QED  BY <1>2, <2>3, <2>6
<1>5. Len(s) \in 0..Len(s)  OBVIOUS
<1> QED  BY <1>3, <1>4, <1>5

LEMMA MagnitudeSums ==
    ASSUME NEW S, NEW s \in Seq(S)
    PROVE  \E f : Sums(s, f) /\ Magnitude(s) = f[Len(s)]
<1> DEFINE f == CHOOSE f : Sums(s, f)
<1>1. Sums(s, f)  BY SumsExist
<1>2. Magnitude(s) = f[Len(s)]  BY DEF Magnitude, Sums
<1> QED  BY <1>1, <1>2

(* Two such sums agree as far as the digits do. *)
LEMMA SumsAgree ==
    ASSUME NEW S, NEW s \in Seq(S), NEW t \in Seq(S), NEW f, Sums(s, f), NEW g, Sums(t, g),
           Len(s) <= Len(t), \A i \in 1..Len(s) : t[i] = s[i]
    PROVE  \A n \in 0..Len(s) : f[n] = g[n]
<1> DEFINE Bad == {k \in 0..Len(s) : f[k] # g[k]}
<1>1. \A n \in 0..Len(s) : f[n] = IF n = 0 THEN 0 ELSE 10 * f[n - 1] + (s[n] - 48)
  BY DEF Sums
<1>2. \A n \in 0..Len(t) : g[n] = IF n = 0 THEN 0 ELSE 10 * g[n - 1] + (t[n] - 48)
  BY DEF Sums
<1>3. Bad = {}
  <2> SUFFICES ASSUME Bad # {} PROVE FALSE
    OBVIOUS
  <2>1. Bad \subseteq Nat  OBVIOUS
  <2> HIDE DEF Bad
  <2>2. PICK m \in Bad : \A k \in Bad : m <= k  BY <2>1, LeastMember
  <2> USE DEF Bad
  <2>3. m \in 0..Len(s) /\ m \in 0..Len(t) /\ f[m] # g[m]  BY <2>2
  <2>4. m # 0  BY <1>1, <1>2, <2>3
  <2>5. m - 1 \in 0..Len(s) /\ ~(m <= m - 1) /\ m \in 1..Len(s)  BY <2>3, <2>4
  <2>6. f[m - 1] = g[m - 1]  BY <2>2, <2>5
  <2>7. s[m] = t[m]  BY <2>5
  <2> QED  BY <1>1, <1>2, <2>3, <2>4, <2>6, <2>7
<1> QED  BY <1>3

LEMMA MagnitudeTyped ==
    ASSUME NEW s \in Seq(Digit)
    PROVE  Magnitude(s) \in Nat
<1>1. PICK f : Sums(s, f) /\ Magnitude(s) = f[Len(s)]  BY MagnitudeSums
<1>2. \A n \in 0..Len(s) : f[n] = IF n = 0 THEN 0 ELSE 10 * f[n - 1] + (s[n] - 48)
  BY <1>1 DEF Sums
<1> DEFINE Bad == {k \in 0..Len(s) : f[k] \notin Nat}
<1>3. Bad = {}
  <2> SUFFICES ASSUME Bad # {} PROVE FALSE
    OBVIOUS
  <2>1. Bad \subseteq Nat  OBVIOUS
  <2> HIDE DEF Bad
  <2>2. PICK m \in Bad : \A k \in Bad : m <= k  BY <2>1, LeastMember
  <2> USE DEF Bad
  <2>3. m \in 0..Len(s) /\ f[m] \notin Nat  BY <2>2
  <2>4. m # 0  BY <1>2, <2>3
  <2>5. m - 1 \in 0..Len(s) /\ ~(m <= m - 1) /\ m \in 1..Len(s)  BY <2>3, <2>4
  <2>6. f[m - 1] \in Nat  BY <2>2, <2>5
  <2>7. s[m] - 48 \in Nat  BY <2>5 DEF Digit
  <2>8. f[m] = 10 * f[m - 1] + (s[m] - 48)  BY <1>2, <2>3, <2>4
  <2>9. f[m] \in Nat  BY <2>6, <2>7, <2>8
  <2> QED  BY <2>3, <2>9
<1>4. Len(s) \in 0..Len(s)  OBVIOUS
<1> QED  BY <1>1, <1>3, <1>4

LEMMA MagnitudeOfNone == Magnitude(<<>>) = 0
<1>1. <<>> \in Seq(Digit) /\ Len(<<>>) = 0  OBVIOUS
<1>2. PICK f : Sums(<<>>, f) /\ Magnitude(<<>>) = f[Len(<<>>)]
  <2> DEFINE e == <<>>
  <2>1. e \in Seq(Digit)  OBVIOUS
  <2> HIDE DEF e
  <2>2. \E f : Sums(e, f) /\ Magnitude(e) = f[Len(e)]  BY <2>1, MagnitudeSums
  <2> QED  BY <2>2 DEF e
<1>3. f[0] = 0
  <2>1. 0 \in 0..Len(<<>>)  BY <1>1
  <2> QED  BY <1>2, <2>1 DEF Sums
<1> QED  BY <1>1, <1>2, <1>3

LEMMA MagnitudeAppend ==
    ASSUME NEW s \in Seq(Digit), NEW d \in Digit
    PROVE  Magnitude(Append(s, d)) = 10 * Magnitude(s) + (d - 48)
<1> DEFINE t == Append(s, d)
           n == Len(s)
<1>1. /\ t \in Seq(Digit) /\ Len(t) = n + 1 /\ t[n + 1] = d
      /\ \A i \in 1..n : t[i] = s[i]
  BY AppendProperties
<1> HIDE DEF t
<1>2. PICK f : Sums(s, f) /\ Magnitude(s) = f[Len(s)]  BY MagnitudeSums
<1>3. PICK g : Sums(t, g) /\ Magnitude(t) = g[Len(t)]  BY <1>1, MagnitudeSums
<1>4. n \in Nat /\ n \in 0..Len(s) /\ n <= Len(t)  BY <1>1
<1>5. f[n] = g[n]  BY <1>1, <1>2, <1>3, <1>4, SumsAgree
<1>6. g[n + 1] = 10 * g[n] + (t[n + 1] - 48)
  <2>1. n + 1 \in 0..Len(t) /\ n + 1 # 0 /\ n + 1 - 1 = n  BY <1>1, <1>4
  <2>2. \A k \in 0..Len(t) : g[k] = IF k = 0 THEN 0 ELSE 10 * g[k - 1] + (t[k] - 48)
    BY <1>3 DEF Sums
  <2> QED  BY <2>1, <2>2
<1> QED  BY <1>1, <1>2, <1>3, <1>5, <1>6 DEF t

----------------------------------------------------------------------------
(* What Past chooses, and that nothing else could be chosen. *)
LEMMA PastIs ==
    ASSUME NEW S, NEW s \in Seq(S), NEW kind, NEW i \in 1..(Len(s) + 1)
    PROVE  /\ Past(kind, s, i) \in i..(Len(s) + 1)
           /\ \A k \in i..(Past(kind, s, i) - 1) : s[k] \in kind
           /\ Past(kind, s, i) = Len(s) + 1 \/ s[Past(kind, s, i)] \notin kind
<1> DEFINE T == {j \in i..(Len(s) + 1) : j = Len(s) + 1 \/ s[j] \notin kind}
           Stops(j) == /\ \A k \in i..(j - 1) : s[k] \in kind
                       /\ j = Len(s) + 1 \/ s[j] \notin kind
<1>1. Len(s) \in Nat /\ Len(s) + 1 \in T /\ T \subseteq Nat  OBVIOUS
<1>2. PICK j \in T : \A k \in T : j <= k
  <2> HIDE DEF T
  <2> QED  BY <1>1, LeastMember
<1>3. j \in i..(Len(s) + 1) /\ Stops(j)
  <2>1. ASSUME NEW k \in i..(j - 1) PROVE s[k] \in kind
    <3>1. k \in i..(Len(s) + 1) /\ ~ (j <= k)  BY <1>1, <1>2
    <3>2. k \notin T  BY <1>2, <3>1
    <3> QED  BY <3>1, <3>2
  <2> QED  BY <1>2, <2>1
<1>4. Past(kind, s, i) = CHOOSE k \in i..(Len(s) + 1) : Stops(k)  BY DEF Past
<1> HIDE DEF Stops
<1>5. Past(kind, s, i) \in i..(Len(s) + 1) /\ Stops(Past(kind, s, i))  BY <1>3, <1>4
<1> QED  BY <1>5 DEF Stops

LEMMA PastUnique ==
    ASSUME NEW S, NEW s \in Seq(S), NEW kind, NEW i \in 1..(Len(s) + 1),
           NEW j \in i..(Len(s) + 1), \A k \in i..(j - 1) : s[k] \in kind,
           j = Len(s) + 1 \/ s[j] \notin kind
    PROVE  Past(kind, s, i) = j
<1> DEFINE p == Past(kind, s, i)
<1>1. /\ p \in i..(Len(s) + 1) /\ (\A k \in i..(p - 1) : s[k] \in kind)
      /\ p = Len(s) + 1 \/ s[p] \notin kind
  BY PastIs
<1> HIDE DEF p
<1>2. ~ (j \in i..(p - 1))  BY <1>1
<1>3. ~ (p \in i..(j - 1))  BY <1>1
<1>4. p = j  BY <1>1, <1>2, <1>3
<1> QED  BY <1>4 DEF p

LEMMA CharKinds ==
    /\ \A c \in Sign : c \notin Digit /\ c \notin Space
    /\ \A c \in Digit : c \notin Space
    /\ Digit \subseteq Nat
BY DEF Sign, Digit, Space, Plus, Minus

(* The parts of what strtoimax looks at. *)
Start(s) == Past(Space, s, 1)
HasSign(s) == Start(s) <= Len(s) /\ s[Start(s)] \in Sign
FirstDigit(s) == IF HasSign(s) THEN Start(s) + 1 ELSE Start(s)
EndOf(s) == Past(Digit, s, FirstDigit(s))

LEMMA StrtoIs ==
    ASSUME NEW S, NEW s \in Seq(S)
    PROVE  /\ Strto(s).chars = IF EndOf(s) = FirstDigit(s) THEN 0 ELSE EndOf(s) - 1
           /\ Strto(s).minus = (HasSign(s) /\ s[Start(s)] = Minus /\ EndOf(s) # FirstDigit(s))
           /\ Strto(s).size = Magnitude(SubSeq(s, FirstDigit(s), EndOf(s) - 1))
BY DEF Strto, Start, HasSign, FirstDigit, EndOf

LEMMA StrtoParts ==
    ASSUME NEW S, NEW s \in Seq(S)
    PROVE  /\ Start(s) \in 1..(Len(s) + 1)
           /\ FirstDigit(s) \in 1..(Len(s) + 1)
           /\ FirstDigit(s) \in {Start(s), Start(s) + 1}
           /\ EndOf(s) \in FirstDigit(s)..(Len(s) + 1)
           /\ \A k \in 1..(Start(s) - 1) : s[k] \in Space
           /\ \A k \in FirstDigit(s)..(EndOf(s) - 1) : s[k] \in Digit
           /\ EndOf(s) = Len(s) + 1 \/ s[EndOf(s)] \notin Digit
<1>1. Len(s) \in Nat /\ 1 \in 1..(Len(s) + 1)  OBVIOUS
<1>2. Start(s) \in 1..(Len(s) + 1) /\ \A k \in 1..(Start(s) - 1) : s[k] \in Space
  BY <1>1, PastIs DEF Start
<1>3. FirstDigit(s) \in 1..(Len(s) + 1) /\ FirstDigit(s) \in {Start(s), Start(s) + 1}
  BY <1>1, <1>2 DEF FirstDigit, HasSign
<1>4. /\ EndOf(s) \in FirstDigit(s)..(Len(s) + 1)
      /\ \A k \in FirstDigit(s)..(EndOf(s) - 1) : s[k] \in Digit
      /\ EndOf(s) = Len(s) + 1 \/ s[EndOf(s)] \notin Digit
  <2> HIDE DEF FirstDigit
  <2> QED  BY <1>3, PastIs DEF EndOf
<1> QED  BY <1>2, <1>3, <1>4

LEMMA StrtoTyped ==
    ASSUME NEW S, NEW s \in Seq(S)
    PROVE  Strto(s).chars \in 0..Len(s) /\ Strto(s).size \in Nat
<1>1. /\ FirstDigit(s) \in 1..(Len(s) + 1) /\ EndOf(s) \in FirstDigit(s)..(Len(s) + 1)
      /\ \A k \in FirstDigit(s)..(EndOf(s) - 1) : s[k] \in Digit
  BY StrtoParts
<1>2. FirstDigit(s) \in Int /\ EndOf(s) - 1 \in Int /\ Len(s) \in Nat  BY <1>1
<1>3. SubSeq(s, FirstDigit(s), EndOf(s) - 1) \in Seq(Digit)
  BY <1>1, <1>2, SubSeqProperties
<1>4. Strto(s).size \in Nat  BY <1>3, StrtoIs, MagnitudeTyped
<1>5. Strto(s).chars \in 0..Len(s)  BY <1>1, <1>2, StrtoIs
<1> QED  BY <1>4, <1>5

(* The characters 1 to n of s are a numeral, of i blanks and digits from    *)
(* past j on.                                                               *)
NumeralAt(s, i, j, n) ==
    /\ i \in Nat /\ j \in Nat /\ n \in 0..Len(s)
    /\ i <= j /\ j <= i + 1 /\ j < n
    /\ \A k \in 1..i : s[k] \in Space
    /\ j = i + 1 => s[j] \in Sign
    /\ \A k \in (j + 1)..n : s[k] \in Digit

Valued(s, i, j, n) ==
    IF j = i + 1 /\ s[j] = Minus THEN -Magnitude(SubSeq(s, j + 1, n))
    ELSE Magnitude(SubSeq(s, j + 1, n))

LEMMA DenotesOfPart ==
    ASSUME NEW S, NEW s \in Seq(S), NEW n \in 0..Len(s), NEW v
    PROVE  Denotes(SubSeq(s, 1, n), v) <=>
             \E i, j \in 0..n : /\ NumeralAt(s, i, j, n)
                                /\ j = i + 1 => s[j] \in TypeSign
                                /\ v = Valued(s, i, j, n)
<1> DEFINE u == SubSeq(s, 1, n)
<1>0. TypeSign \subseteq Sign  BY DEF TypeSign, Sign
<1>1. u \in Seq(S) /\ Len(u) = n /\ \A k \in 1..n : u[k] = s[k]
  <2>1. 1 \in Int /\ n \in Int /\ n - 1 + 1 = n /\ n \in Nat /\ \A k \in 1..n : s[k] \in S
    OBVIOUS
  <2>2. /\ u \in Seq(S) /\ Len(u) = IF 1 <= n THEN n - 1 + 1 ELSE 0
        /\ \A k \in 1..(n - 1 + 1) : u[k] = s[1 + k - 1]
    BY <2>1, SubSeqProperties
  <2>3. \A k \in 1..n : 1 + k - 1 = k  OBVIOUS
  <2> HIDE DEF u
  <2> QED  BY <2>1, <2>2, <2>3
<1>2. ASSUME NEW j \in 0..n, j < n
      PROVE  SubSeq(u, j + 1, n) = SubSeq(s, j + 1, n)
  <2>1. /\ 1 \in 1..Len(s) /\ n \in 1..Len(s) /\ j + 1 \in 1..(n - 1 + 1)
        /\ n \in 1..(n - 1 + 1) /\ 1 + (j + 1) - 1 = j + 1 /\ 1 + n - 1 = n
    BY <1>2
  <2>2. SubSeq(u, j + 1, n) = SubSeq(s, 1 + (j + 1) - 1, 1 + n - 1)
    BY <2>1, SubSeqOfSubSeq
  <2> QED  BY <2>1, <2>2
<1> HIDE DEF u
<1> DEFINE One(i, j) ==
        /\ i <= j /\ j <= i + 1 /\ j < Len(u)
        /\ \A k \in 1..i : u[k] \in Space
        /\ j = i + 1 => u[j] \in TypeSign
        /\ \A k \in (j + 1)..Len(u) : u[k] \in Digit
        /\ v = IF j = i + 1 /\ u[j] = Minus THEN -Magnitude(SubSeq(u, j + 1, Len(u)))
               ELSE Magnitude(SubSeq(u, j + 1, Len(u)))
           Other(i, j) ==
        /\ NumeralAt(s, i, j, n)
        /\ j = i + 1 => s[j] \in TypeSign
        /\ v = Valued(s, i, j, n)
<1>3. ASSUME NEW i \in 0..n, NEW j \in 0..n
      PROVE  One(i, j) <=> Other(i, j)
  <2>1. CASE i <= j /\ j <= i + 1 /\ j < n
    <3>1. (\A k \in 1..i : u[k] \in Space) <=> \A k \in 1..i : s[k] \in Space
      <4>1. \A k \in 1..i : k \in 1..n  BY <2>1
      <4> QED  BY <1>1, <4>1
    <3>2. (\A k \in (j + 1)..n : u[k] \in Digit) <=> \A k \in (j + 1)..n : s[k] \in Digit
      <4>1. \A k \in (j + 1)..n : k \in 1..n  OBVIOUS
      <4> QED  BY <1>1, <4>1
    <3>3. j = i + 1 => u[j] = s[j]
      <4>1. j = i + 1 => j \in 1..n  OBVIOUS
      <4> QED  BY <1>1, <4>1
    <3>4. SubSeq(u, j + 1, n) = SubSeq(s, j + 1, n)  BY <1>2, <2>1
    <3>5. (IF j = i + 1 /\ u[j] = Minus THEN -Magnitude(SubSeq(u, j + 1, Len(u)))
           ELSE Magnitude(SubSeq(u, j + 1, Len(u)))) = Valued(s, i, j, n)
      <4>1. SubSeq(u, j + 1, Len(u)) = SubSeq(s, j + 1, n)  BY <1>1, <3>4
      <4>2. CASE j = i + 1  BY <3>3, <4>1, <4>2 DEF Valued
      <4>3. CASE j # i + 1  BY <4>1, <4>3 DEF Valued
      <4> QED  BY <4>2, <4>3
    <3>6. NumeralAt(s, i, j, n) <=>
            /\ \A k \in 1..i : s[k] \in Space
            /\ j = i + 1 => s[j] \in Sign
            /\ \A k \in (j + 1)..n : s[k] \in Digit
      BY <2>1 DEF NumeralAt
    <3>7. One(i, j) <=>
            /\ \A k \in 1..i : s[k] \in Space
            /\ j = i + 1 => s[j] \in TypeSign
            /\ \A k \in (j + 1)..n : s[k] \in Digit
            /\ v = Valued(s, i, j, n)
      BY <1>1, <2>1, <3>1, <3>2, <3>3, <3>5
    <3> QED  BY <1>0, <3>6, <3>7
  <2>2. CASE ~ (i <= j /\ j <= i + 1 /\ j < n)
    BY <1>1, <2>2 DEF NumeralAt
  <2> QED  BY <2>1, <2>2
<1>4. Denotes(u, v) <=> \E i, j \in 0..n : One(i, j)
  BY <1>1 DEF Denotes
<1> HIDE DEF One, Other
<1>5. Denotes(u, v) <=> \E i, j \in 0..n : Other(i, j)  BY <1>3, <1>4
<1> QED  BY <1>5 DEF u, Other

----------------------------------------------------------------------------
(* What strtoimax takes is a numeral, and no digit follows it. *)
LEMMA StrtoTakesNumeral ==
    ASSUME NEW S, NEW s \in Seq(S), NEW n, n = Strto(s).chars, n # 0
    PROVE  /\ NumeralAt(s, Start(s) - 1, FirstDigit(s) - 1, n)
           /\ SignedValue(Strto(s)) = Valued(s, Start(s) - 1, FirstDigit(s) - 1, n)
           /\ n = Len(s) \/ s[n + 1] \notin Digit
<1> DEFINE i == Start(s) - 1
           j == FirstDigit(s) - 1
<1>1. /\ Start(s) \in 1..(Len(s) + 1) /\ FirstDigit(s) \in 1..(Len(s) + 1)
      /\ FirstDigit(s) \in {Start(s), Start(s) + 1}
      /\ EndOf(s) \in FirstDigit(s)..(Len(s) + 1)
      /\ \A k \in 1..(Start(s) - 1) : s[k] \in Space
      /\ \A k \in FirstDigit(s)..(EndOf(s) - 1) : s[k] \in Digit
      /\ EndOf(s) = Len(s) + 1 \/ s[EndOf(s)] \notin Digit
  BY StrtoParts
<1>2. EndOf(s) # FirstDigit(s) /\ n = EndOf(s) - 1
  BY StrtoIs
<1>3. Len(s) \in Nat /\ i \in Nat /\ j \in Nat /\ n \in 0..Len(s) /\ j + 1 = FirstDigit(s)
      /\ i + 1 = Start(s) /\ n + 1 = EndOf(s)
  BY <1>1, <1>2
<1>4. j = i + 1 <=> HasSign(s)
  BY <1>1 DEF FirstDigit
<1>5. j = i + 1 => s[j] \in Sign /\ j = Start(s)
  BY <1>3, <1>4 DEF HasSign
<1>6. i <= j /\ j <= i + 1 /\ j < n  BY <1>1, <1>2
<1>7. (\A k \in 1..i : s[k] \in Space) /\ \A k \in (j + 1)..n : s[k] \in Digit
  BY <1>1, <1>2, <1>3
<1>8. /\ Strto(s).minus = (j = i + 1 /\ s[j] = Minus)
      /\ Strto(s).size = Magnitude(SubSeq(s, j + 1, n))
  BY <1>2, <1>3, <1>4, <1>5, StrtoIs
<1> HIDE DEF i, j
<1>9. NumeralAt(s, i, j, n)  BY <1>3, <1>5, <1>6, <1>7 DEF NumeralAt
<1>10. SignedValue(Strto(s)) = Valued(s, i, j, n)  BY <1>8 DEF SignedValue, Valued
<1>11. n = Len(s) \/ s[n + 1] \notin Digit  BY <1>1, <1>3
<1> QED  BY <1>9, <1>10, <1>11 DEF i, j

(* It takes all of a numeral that no digit follows. *)
LEMMA NumeralIsTaken ==
    ASSUME NEW S, NEW s \in Seq(S), NEW i, NEW j, NEW n, NumeralAt(s, i, j, n),
           n = Len(s) \/ s[n + 1] \notin Digit
    PROVE  /\ Strto(s).chars = n
           /\ SignedValue(Strto(s)) = Valued(s, i, j, n)
           /\ Strto(s).minus = (j = i + 1 /\ s[j] = Minus)
<1>1. /\ i \in Nat /\ j \in Nat /\ n \in 0..Len(s) /\ i <= j /\ j <= i + 1 /\ j < n
      /\ \A k \in 1..i : s[k] \in Space
      /\ j = i + 1 => s[j] \in Sign
      /\ \A k \in (j + 1)..n : s[k] \in Digit
  BY DEF NumeralAt
<1>2. Len(s) \in Nat /\ n \in Nat  BY <1>1
<1>3. s[i + 1] \notin Space /\ (s[i + 1] \in Sign <=> j = i + 1)
  <2>1. CASE j = i + 1  BY <1>1, <2>1, CharKinds
  <2>2. CASE j # i + 1
    <3>1. i + 1 = j + 1 /\ j + 1 \in (j + 1)..n  BY <1>1, <1>2, <2>2
    <3>2. s[i + 1] \in Digit  BY <1>1, <3>1
    <3> QED  BY <2>2, <3>2, CharKinds
  <2> QED  BY <2>1, <2>2
<1>4. Start(s) = i + 1
  <2>1. 1 \in 1..(Len(s) + 1) /\ i + 1 \in 1..(Len(s) + 1) /\ i + 1 - 1 = i
    BY <1>1, <1>2
  <2> QED  BY <1>1, <1>3, <2>1, PastUnique DEF Start
<1>5. HasSign(s) <=> j = i + 1
  <2>1. i + 1 <= Len(s)  BY <1>1, <1>2
  <2> QED  BY <1>3, <1>4, <2>1 DEF HasSign
<1>6. FirstDigit(s) = j + 1  BY <1>1, <1>4, <1>5 DEF FirstDigit
<1>7. EndOf(s) = n + 1
  <2>1. j + 1 \in 1..(Len(s) + 1) /\ n + 1 \in (j + 1)..(Len(s) + 1) /\ n + 1 - 1 = n
    BY <1>1, <1>2
  <2>2. n + 1 = Len(s) + 1 \/ s[n + 1] \notin Digit  BY <1>2
  <2> QED  BY <1>1, <1>6, <2>1, <2>2, PastUnique DEF EndOf
<1>8. /\ Strto(s).chars = n
      /\ Strto(s).minus = (j = i + 1 /\ s[j] = Minus)
      /\ Strto(s).size = Magnitude(SubSeq(s, j + 1, n))
  <2>1. n + 1 # j + 1 /\ n + 1 - 1 = n  BY <1>1, <1>2
  <2>2. j = i + 1 => Start(s) = j  BY <1>4
  <2>3. EndOf(s) # FirstDigit(s) /\ EndOf(s) - 1 = n  BY <1>1, <1>2, <1>6, <1>7, <2>1
  <2>5. Strto(s).chars = n  BY <2>3, StrtoIs
  <2>6. Strto(s).size = Magnitude(SubSeq(s, j + 1, n))  BY <1>6, <2>3, StrtoIs
  <2>7. Strto(s).minus = (HasSign(s) /\ s[Start(s)] = Minus /\ EndOf(s) # FirstDigit(s))
    BY StrtoIs
  <2>4. (HasSign(s) /\ s[Start(s)] = Minus /\ EndOf(s) # FirstDigit(s))
        <=> (j = i + 1 /\ s[j] = Minus)
    BY <1>5, <2>2, <2>3
  <2> QED  BY <2>4, <2>5, <2>6, <2>7
<1>9. SignedValue(Strto(s)) = Valued(s, i, j, n)  BY <1>8 DEF SignedValue, Valued
<1> QED  BY <1>8, <1>9

(* And nothing of blanks and at most a sign. *)
LEMMA NothingIsTaken ==
    ASSUME NEW S, NEW s \in Seq(S), NEW i \in Nat, NEW j \in Nat, i <= j, j <= i + 1,
           j = Len(s), \A k \in 1..i : s[k] \in Space, j = i + 1 => s[j] \in Sign
    PROVE  Strto(s).chars = 0 /\ ~ Strto(s).minus /\ Strto(s).size = 0
<1>1. Len(s) \in Nat  OBVIOUS
<1>2. Start(s) = i + 1
  <2>1. 1 \in 1..(Len(s) + 1) /\ i + 1 \in 1..(Len(s) + 1) /\ i + 1 - 1 = i
    BY <1>1
  <2>2. i + 1 = Len(s) + 1 \/ s[i + 1] \notin Space  BY <1>1, CharKinds
  <2> QED  BY <2>1, <2>2, PastUnique DEF Start
<1>3. FirstDigit(s) = Len(s) + 1
  <2>1. CASE j = i + 1  BY <1>1, <1>2, <2>1 DEF FirstDigit, HasSign
  <2>2. CASE j # i + 1  BY <1>1, <1>2, <2>2 DEF FirstDigit, HasSign
  <2> QED  BY <2>1, <2>2
<1>4. EndOf(s) = Len(s) + 1
  <2>1. EndOf(s) \in FirstDigit(s)..(Len(s) + 1)  BY StrtoParts
  <2> QED  BY <1>1, <1>3, <2>1
<1>5. SubSeq(s, Len(s) + 1, Len(s) + 1 - 1) = <<>>
  BY <1>1, SubSeqEmpty
<1>6. Strto(s).chars = 0  BY <1>3, <1>4, StrtoIs
<1>7. ~ Strto(s).minus  BY <1>3, <1>4, StrtoIs
<1>8. Strto(s).size = 0
  <2>1. Strto(s).size = Magnitude(SubSeq(s, Len(s) + 1, Len(s) + 1 - 1))
    BY <1>3, <1>4, StrtoIs
  <2> QED  BY <1>5, <2>1, MagnitudeOfNone
<1> QED  BY <1>6, <1>7, <1>8

(* In both types the value must be one of the type. *)
LEMMA NoWrap ==
    ASSUME NEW n \in Nat, NEW m \in Nat, n <= m
    PROVE  n % (m + 1) = n
<1>1. m + 1 > 0 /\ n < m + 1 /\ 0 <= n  OBVIOUS
<1> QED  BY <1>1, Z3

LEMMA ConvertsThat ==
    ASSUME type \in Types, NEW S, NEW s \in Seq(S),
           SignedValue(Strto(s)) \in type.min..type.max,
           Signed \/ (~ Strto(s).minus /\ NoMinus(s))
    PROVE  Converts(s)
<1> DEFINE n == Strto(s)
<1>1. n.size \in Nat  BY StrtoTyped
<1>2. /\ type.min \in Int /\ type.max \in Nat /\ LongMin <= type.min /\ type.max <= ULongMax
      /\ type.min < 0 => type.max <= LongMax
      /\ LongMin \in Int /\ LongMax \in Nat /\ ULongMax \in Nat
  BY TypesAssumption
<1>3. CASE Signed
  <2>1. Value(s) = SignedValue(n)  BY <1>3 DEF Value
  <2>2. SignedValue(n) \in LongMin..LongMax  BY <1>2, <1>3 DEF Signed
  <2> QED  BY <1>2, <1>3, <2>1, <2>2 DEF Converts, InRange
<1>4. CASE ~ Signed
  <2>1. ~ n.minus /\ NoMinus(s)  BY <1>4
  <2>2. SignedValue(n) = n.size  BY <2>1 DEF SignedValue
  <2>3. n.size <= ULongMax  BY <1>1, <1>2, <2>2
  <2>4. n.size % (ULongMax + 1) = n.size  BY <1>1, <1>2, <2>3, NoWrap
  <2>5. Value(s) = n.size  BY <1>4, <2>1, <2>4 DEF Value, UnsignedValue
  <2>6. InRange(n.size)  BY <1>1, <1>2, <2>2 DEF InRange
  <2> QED  BY <1>4, <2>1, <2>3, <2>5, <2>6 DEF Converts
<1> QED  BY <1>3, <1>4

(* No characters are converted to 0, of which all are taken. *)
LEMMA NothingConverts ==
    ASSUME type \in Types
    PROVE  Converts(<<>>) /\ Strto(<<>>).chars = 0 /\ Value(<<>>) = 0 /\ 0 \in type.min..type.max
<1> DEFINE e == <<>>
<1>1. e \in Seq(Nat) /\ Len(e) = 0 /\ e = <<>>  OBVIOUS
<1>2. /\ type.min \in Int /\ type.max \in Nat /\ type.min <= 0 /\ ULongMax \in Nat
  BY TypesAssumption
<1> HIDE DEF e
<1>3. Strto(e).chars = 0 /\ ~ Strto(e).minus /\ Strto(e).size = 0
  <2>1. 0 \in Nat /\ 0 <= 0 /\ 0 <= 0 + 1 /\ 0 = Len(e) /\ 0 # 0 + 1  BY <1>1
  <2>2. \A k \in 1..0 : e[k] \in Space  OBVIOUS
  <2> QED  BY <1>1, <2>1, <2>2, NothingIsTaken
<1>4. SignedValue(Strto(e)) = 0  BY <1>3 DEF SignedValue
<1>5. 0 \in type.min..type.max  BY <1>2
<1>6. NoMinus(e)  BY <1>1 DEF NoMinus
<1>7. Converts(e)  BY <1>1, <1>3, <1>4, <1>5, <1>6, ConvertsThat
<1>8. Value(e) = 0
  <2>1. 0 % (ULongMax + 1) = 0  BY <1>2, NoWrap
  <2> QED  BY <1>3, <1>4, <2>1 DEF Value, UnsignedValue
<1> QED  BY <1>3, <1>5, <1>7, <1>8 DEF e

LEMMA ConvertedIs ==
    ASSUME type \in Types, NEW S, NEW s \in Seq(S), Converts(s),
           Signed \/ ~ Strto(s).minus
    PROVE  Value(s) = SignedValue(Strto(s)) /\ Value(s) \in type.min..type.max
<1> DEFINE n == Strto(s)
<1>1. n.size \in Nat  BY StrtoTyped
<1>2. /\ type.min \in Int /\ type.max \in Nat
      /\ LongMin \in Int /\ LongMax \in Nat /\ ULongMax \in Nat
  BY TypesAssumption
<1>3. InRange(Value(s))  BY DEF Converts
<1>4. CASE Signed
  <2>1. Value(s) = SignedValue(n)  BY <1>4 DEF Value
  <2>2. Value(s) \in Int  BY <1>4, <1>2 DEF Converts
  <2> QED  BY <1>2, <1>3, <2>1, <2>2 DEF InRange
<1>5. CASE ~ Signed
  <2>1. n.size <= ULongMax  BY <1>5 DEF Converts
  <2>2. SignedValue(n) = n.size  BY <1>5 DEF SignedValue
  <2>3. n.size % (ULongMax + 1) = n.size  BY <1>1, <1>2, <2>1, NoWrap
  <2>4. Value(s) = n.size  BY <1>5, <2>3 DEF Value, UnsignedValue
  <2> QED  BY <1>1, <1>2, <1>3, <2>2, <2>4 DEF InRange
<1> QED  BY <1>4, <1>5

LEMMA NoMinusBefore ==
    ASSUME ~ Signed, NEW S, NEW s \in Seq(S), NEW i \in Nat, NEW j \in Nat, i <= j, j <= i + 1,
           \A k \in 1..i : s[k] \in Space, j = i + 1 => s[j] \in TypeSign,
           j = i => s[j + 1] \in Digit
    PROVE  NoMinus(s) /\ ~ (j = i + 1 /\ s[j] = Minus)
<1>1. TypeSign = {Plus} /\ Plus # Minus  BY DEF TypeSign, Plus, Minus
<1>2. Minus \in Sign  BY DEF Sign
<1>3. CASE i # 0
  <2>1. 1 \in 1..i  BY <1>3
  <2>2. s[1] # Minus  BY <1>2, <2>1, CharKinds
  <2> QED  BY <1>1, <2>2 DEF NoMinus
<1>4. CASE i = 0 /\ j = 1  BY <1>1, <1>4 DEF NoMinus
<1>5. CASE i = 0 /\ j = 0
  <2>1. s[1] \in Digit  BY <1>5
  <2>2. s[1] # Minus  BY <1>2, <2>1, CharKinds
  <2> QED  BY <1>5, <2>2 DEF NoMinus
<1>6. i = 0 => j = 0 \/ j = 1  OBVIOUS
<1> QED  BY <1>3, <1>4, <1>5, <1>6

(* A numeral of the type is converted. *)
LEMMA NumeralConverts ==
    ASSUME type \in Types, NEW S, NEW s \in Seq(S), NEW i, NEW j, NEW n,
           NumeralAt(s, i, j, n), j = i + 1 => s[j] \in TypeSign,
           Valued(s, i, j, n) \in type.min..type.max, n = Len(s) \/ s[n + 1] \notin Digit
    PROVE  Converts(s) /\ Strto(s).chars = n /\ n # 0
<1>1. /\ i \in Nat /\ j \in Nat /\ n \in 0..Len(s) /\ i <= j /\ j <= i + 1 /\ j < n
      /\ \A k \in 1..i : s[k] \in Space
      /\ \A k \in (j + 1)..n : s[k] \in Digit
  BY DEF NumeralAt
<1>2. /\ Strto(s).chars = n
      /\ SignedValue(Strto(s)) \in type.min..type.max
      /\ Strto(s).minus = (j = i + 1 /\ s[j] = Minus)
  BY NumeralIsTaken
<1>3. CASE Signed  BY <1>1, <1>2, <1>3, ConvertsThat
<1>4. CASE ~ Signed
  <2>1. s[j + 1] \in Digit
    <3>1. j + 1 \in (j + 1)..n  BY <1>1
    <3> QED  BY <1>1, <3>1
  <2>2. NoMinus(s) /\ ~ (j = i + 1 /\ s[j] = Minus)
    BY <1>1, <1>4, <2>1, NoMinusBefore
  <2>3. Converts(s)  BY <1>2, <2>2, ConvertsThat
  <2> QED  BY <1>1, <1>2, <2>3
<1> QED  BY <1>3, <1>4

(* What is converted is the value that the characters taken denote. *)
LEMMA TakenDenotes ==
    ASSUME type \in Types, BlanksSkipped, NEW s \in Seq(type.chars), Converts(s),
           NEW n, n = Strto(s).chars, n # 0
    PROVE  /\ Denotes(SubSeq(s, 1, n), Value(s))
           /\ Value(s) \in type.min..type.max
           /\ n = Len(s) \/ s[n + 1] \notin Digit
<1> DEFINE i == Start(s) - 1
           j == FirstDigit(s) - 1
<1>1. /\ NumeralAt(s, i, j, n)
      /\ SignedValue(Strto(s)) = Valued(s, i, j, n)
      /\ n = Len(s) \/ s[n + 1] \notin Digit
  BY StrtoTakesNumeral
<1> HIDE DEF i, j
<1>2. /\ i \in Nat /\ j \in Nat /\ n \in 0..Len(s) /\ i <= j /\ j <= i + 1 /\ j < n
      /\ \A k \in 1..i : s[k] \in Space
      /\ j = i + 1 => s[j] \in Sign
  BY <1>1 DEF NumeralAt
<1>3. Strto(s).minus = (j = i + 1 /\ s[j] = Minus)  BY <1>1, NumeralIsTaken
<1>4. (j = i + 1 => s[j] \in TypeSign) /\ (Signed \/ ~ Strto(s).minus)
  <2>1. CASE Signed  BY <1>2, <2>1 DEF TypeSign
  <2>2. CASE ~ Signed
    <3>1. type.min >= 0 /\ type.chars \cap Space = {}
      <4>1. type.min \in Int  BY TypesAssumption
      <4>2. type.min >= 0  BY <2>2, <4>1 DEF Signed
      <4> QED  BY <4>2 DEF BlanksSkipped
    <3>2. i = 0
      <4>1. 1 \in 1..Len(s)  BY <1>2
      <4>2. s[1] \notin Space  BY <3>1, <4>1
      <4>3. ~ (1 \in 1..i)  BY <1>2, <4>2
      <4> QED  BY <1>2, <4>3
    <3>3. s # <<>> /\ NoMinus(s)  BY <1>2, <2>2 DEF Converts
    <3>4. j = i + 1 => s[j] # Minus  BY <3>2, <3>3 DEF NoMinus
    <3>5. j = i + 1 => s[j] \in TypeSign  BY <1>2, <2>2, <3>4 DEF TypeSign, Sign
    <3>6. ~ Strto(s).minus  BY <1>3, <3>4
    <3> QED  BY <3>5, <3>6
  <2> QED  BY <2>1, <2>2
<1>5. Value(s) = SignedValue(Strto(s)) /\ Value(s) \in type.min..type.max
  BY <1>4, ConvertedIs
<1>6. i \in 0..n /\ j \in 0..n /\ Value(s) = Valued(s, i, j, n)  BY <1>1, <1>2, <1>5
<1>7. Denotes(SubSeq(s, 1, n), Value(s))
  BY <1>1, <1>2, <1>4, <1>6, DenotesOfPart
<1> QED  BY <1>1, <1>5, <1>7

LEMMA ChunksAreTyped ==
    ASSUME NEW S, NEW n \in Int, NEW chunk \in BoundedSeq(S, n)
    PROVE  chunk \in Seq(S) /\ (n >= 0 => Len(chunk) <= n)
<1>1. PICK k \in 0..n : chunk \in [1..k -> S]  BY DEF BoundedSeq, SeqOf
<1> QED  BY <1>1

(* A number that fits is not taken out of its range by leaving its last digit off. *)
LEMMA LastDigitOff ==
    ASSUME NEW lo \in Int, lo <= 0, NEW hi \in Nat, NEW a \in Nat, NEW k \in Nat
    PROVE  /\ 10 * a + k \in lo..hi => a \in lo..hi
           /\ -(10 * a + k) \in lo..hi => -a \in lo..hi
OBVIOUS

(* parse_integer refuses the first chunk of no numeral but one whose blanks *)
(* were cut off from its digits.                                            *)
LEMMA DirectRefuses ==
    ASSUME type \in Types, NEW chunk \in Seq(type.chars), chunk # <<>>,
           ~ Converts(chunk) \/ (Strto(chunk).chars = 0 /\ ~ LoneSign(chunk)),
           NEW more \in BoundedSeq(Digit \cap type.chars, 1),
           NEW n \in 1..Len(chunk \o more), NEW v \in type.min..type.max,
           Denotes(SubSeq(chunk \o more, 1, n), v),
           n < Len(chunk \o more) => (chunk \o more)[n + 1] \notin Digit \cup Sign
    PROVE  chunk[1] \in Space /\ \A i \in DOMAIN chunk : chunk[i] \notin Digit
<1> DEFINE t == chunk \o more
           m == Len(chunk)
<1>1. more \in Seq(Digit \cap type.chars) /\ Len(more) <= 1  BY ChunksAreTyped
<1>2. /\ more \in Seq(type.chars) /\ m \in Nat /\ m > 0 /\ (Len(more) = 0 \/ Len(more) = 1)
      /\ Len(more) = 1 => more[1] \in Digit
  <2>1. more \in Seq(type.chars) /\ Len(more) \in Nat  BY <1>1
  <2>2. m \in Nat /\ m > 0  OBVIOUS
  <2>3. ASSUME Len(more) = 1 PROVE more[1] \in Digit
    <3>1. 1 \in 1..Len(more)  BY <2>3
    <3>2. more[1] \in Digit \cap type.chars  BY <1>1, <3>1
    <3> QED  BY <3>2
  <2>4. Len(more) = 0 \/ Len(more) = 1
    <3> DEFINE l == Len(more)
    <3>1. l \in Nat /\ l <= 1  BY <1>1, <2>1
    <3> HIDE DEF l
    <3>2. l = 0 \/ l = 1  BY <3>1
    <3> QED  BY <3>2 DEF l
  <2> QED  BY <2>1, <2>2, <2>3, <2>4
<1>3. /\ t \in Seq(type.chars) /\ Len(t) = m + Len(more)
      /\ \A k \in 1..m : t[k] = chunk[k]
      /\ Len(more) = 1 => t[m + 1] = more[1]
  <2>1. /\ t \in Seq(type.chars) /\ Len(t) = m + Len(more)
        /\ \A k \in 1..(m + Len(more)) : t[k] = IF k <= m THEN chunk[k] ELSE more[k - m]
    BY <1>2, ConcatProperties
  <2> HIDE DEF t
  <2>2. \A k \in 1..m : k \in 1..(m + Len(more)) /\ k <= m  BY <1>2
  <2>3. Len(more) = 1 => m + 1 \in 1..(m + Len(more)) /\ ~ (m + 1 <= m) /\ m + 1 - m = 1
    BY <1>2
  <2> QED  BY <2>1, <2>2, <2>3
<1>4. \A a \in 1..m, b \in 1..m : SubSeq(t, a, b) = SubSeq(chunk, a, b)
  BY <1>2, SubSeqOfConcat1
<1>5. /\ n \in 1..Len(t) /\ n \in 0..Len(t) /\ Denotes(SubSeq(t, 1, n), v)
      /\ n < Len(t) => t[n + 1] \notin Digit \cup Sign
  BY <1>3
<1> HIDE DEF t
<1>6. PICK i, j \in 0..n : /\ NumeralAt(t, i, j, n)
                           /\ j = i + 1 => t[j] \in TypeSign
                           /\ v = Valued(t, i, j, n)
  <2> DEFINE Found(i, j) == /\ NumeralAt(t, i, j, n)
                            /\ j = i + 1 => t[j] \in TypeSign
                            /\ v = Valued(t, i, j, n)
  <2>1. t \in Seq(type.chars) /\ n \in 0..Len(t)  BY <1>3, <1>5
  <2>2. Denotes(SubSeq(t, 1, n), v) <=> \E i, j \in 0..n : Found(i, j)
    BY <2>1, DenotesOfPart
  <2> HIDE DEF Found
  <2>3. \E i, j \in 0..n : Found(i, j)  BY <1>5, <2>2
  <2> QED  BY <2>3 DEF Found
<1>7. /\ i \in Nat /\ j \in Nat /\ n \in Nat /\ i <= j /\ j <= i + 1 /\ j < n
      /\ \A k \in 1..i : t[k] \in Space
      /\ j = i + 1 => t[j] \in Sign
      /\ \A k \in (j + 1)..n : t[k] \in Digit
  BY <1>6 DEF NumeralAt
<1>8. j <= m
  <2> DEFINE l == Len(more)
  <2>1. m \in Nat /\ (l = 0 \/ l = 1) /\ n \in Nat /\ n <= m + l /\ j < n
    BY <1>2, <1>3, <1>5, <1>7
  <2> HIDE DEF l, m
  <2> QED  BY <1>7, <2>1
<1>9. /\ \A k \in 1..i : chunk[k] \in Space
      /\ j = i + 1 => chunk[j] \in Sign /\ chunk[j] \in TypeSign /\ chunk[j] = t[j]
      /\ \A k \in (j + 1)..n : k <= m => chunk[k] \in Digit
  <2>1. \A k \in 1..i : k \in 1..m  BY <1>2, <1>7, <1>8
  <2>2. j = i + 1 => j \in 1..m  BY <1>2, <1>7, <1>8
  <2>3. \A k \in (j + 1)..n : k <= m => k \in 1..m  BY <1>2, <1>7
  <2> QED  BY <1>3, <1>6, <1>7, <2>1, <2>2, <2>3
<1>10. CASE n <= m
  <2>1. NumeralAt(chunk, i, j, n)  BY <1>2, <1>7, <1>9, <1>10 DEF NumeralAt
  <2>2. SubSeq(t, j + 1, n) = SubSeq(chunk, j + 1, n)
    <3>1. j + 1 \in 1..m /\ n \in 1..m  BY <1>2, <1>5, <1>7, <1>10
    <3> QED  BY <1>4, <3>1
  <2>3. Valued(chunk, i, j, n) = v  BY <1>6, <1>9, <2>2 DEF Valued
  <2>4. n = Len(chunk) \/ chunk[n + 1] \notin Digit
    <3>1. CASE n = m  BY <3>1
    <3>2. CASE n # m
      <4>1. n + 1 \in 1..m /\ n < Len(t)  BY <1>2, <1>3, <1>7, <1>10, <3>2
      <4> QED  BY <1>3, <1>5, <4>1
    <3> QED  BY <3>1, <3>2
  <2>5. Converts(chunk) /\ Strto(chunk).chars = n /\ n # 0
    BY <1>9, <2>1, <2>3, <2>4, NumeralConverts
  <2> QED  BY <2>5
<1>11. CASE ~ (n <= m)
  <2>1. n = m + 1 /\ Len(more) = 1 /\ t[n] \in Digit
    <3>1. n = m + 1 /\ Len(more) = 1
      <4> DEFINE l == Len(more)
      <4>1. m \in Nat /\ (l = 0 \/ l = 1) /\ n \in Nat /\ n <= m + l
        BY <1>2, <1>3, <1>5, <1>7
      <4> HIDE DEF l, m
      <4>2. n = m + 1 /\ l = 1  BY <1>11, <4>1
      <4> QED  BY <4>2 DEF l
    <3> QED  BY <1>2, <1>3, <3>1
  <2>2. CASE j < m
    <3> DEFINE digits == SubSeq(chunk, j + 1, m)
               d == t[n]
    <3>1. NumeralAt(chunk, i, j, m)  BY <1>2, <1>7, <1>9, <2>1, <2>2 DEF NumeralAt
    <3>2. digits \in Seq(Digit)
      <4>1. \A k \in (j + 1)..m : chunk[k] \in Digit  BY <1>2, <1>7, <1>9, <2>1
      <4> QED  BY <1>2, <1>7, <4>1, SubSeqProperties
    <3>3. SubSeq(t, j + 1, n) = Append(digits, d)
      <4>1. j + 1 \in 1..Len(t) /\ n \in (j + 1)..Len(t) /\ n - 1 = m /\ j + 1 \in 1..m
            /\ m \in 1..m
        BY <1>2, <1>3, <1>5, <1>7, <2>1, <2>2
      <4>2. SubSeq(t, j + 1, n) = SubSeq(t, j + 1, n - 1) \o <<t[n]>>
        BY <1>3, <4>1, SubSeqRecursiveSecond
      <4>3. SubSeq(t, j + 1, n - 1) = digits  BY <1>4, <4>1
      <4> HIDE DEF digits
      <4>4. digits \o <<d>> = Append(digits, d)  BY <2>1, <3>2, AppendIsConcat
      <4> QED  BY <4>2, <4>3, <4>4
    <3> HIDE DEF digits
    <3>4. Magnitude(digits) \in Nat /\ Magnitude(SubSeq(t, j + 1, n)) = 10 * Magnitude(digits) + (d - 48)
      BY <2>1, <3>2, <3>3, MagnitudeTyped, MagnitudeAppend
    <3>5. d - 48 \in Nat  BY <2>1 DEF Digit
    <3>6. Valued(chunk, i, j, m) \in type.min..type.max
      <4>1. type.min \in Int /\ type.min <= 0 /\ type.max \in Nat  BY TypesAssumption
      <4>2. CASE j = i + 1 /\ t[j] = Minus
        <5>1. Valued(chunk, i, j, m) = -Magnitude(digits)
          BY <1>9, <4>2 DEF Valued, digits
        <5>2. v = -(10 * Magnitude(digits) + (d - 48))  BY <1>6, <3>4, <4>2 DEF Valued
        <5> HIDE DEF digits, m, d
        <5> QED  BY <3>4, <3>5, <4>1, <5>1, <5>2, LastDigitOff
      <4>3. CASE ~ (j = i + 1 /\ t[j] = Minus)
        <5>1. Valued(chunk, i, j, m) = Magnitude(digits)
          BY <1>9, <4>3 DEF Valued, digits
        <5>2. v = 10 * Magnitude(digits) + (d - 48)  BY <1>6, <3>4, <4>3 DEF Valued
        <5> HIDE DEF digits, m, d
        <5> QED  BY <3>4, <3>5, <4>1, <5>1, <5>2, LastDigitOff
      <4> QED  BY <4>2, <4>3
    <3>7. Converts(chunk) /\ Strto(chunk).chars = m /\ m # 0
      BY <1>9, <3>1, <3>6, NumeralConverts
    <3> QED  BY <3>7
  <2>3. CASE j = m
    <3>1. Strto(chunk).chars = 0 /\ ~ Strto(chunk).minus /\ Strto(chunk).size = 0
      BY <1>7, <1>9, <2>3, NothingIsTaken
    <3>2. SignedValue(Strto(chunk)) \in type.min..type.max
      <4>1. type.min \in Int /\ type.min <= 0 /\ type.max \in Nat  BY TypesAssumption
      <4>2. SignedValue(Strto(chunk)) = 0  BY <3>1 DEF SignedValue
      <4> QED  BY <4>1, <4>2
    <3>3. CASE i = 0
      <4>1. j = 1 /\ Len(chunk) = 1 /\ chunk[1] \in Sign /\ chunk[1] \in TypeSign
        BY <1>2, <1>7, <1>9, <2>3, <3>3
      <4>2. LoneSign(chunk)  BY <4>1 DEF LoneSign
      <4>3. Signed \/ NoMinus(chunk)
        BY <4>1 DEF NoMinus, TypeSign, Plus, Minus
      <4>4. Converts(chunk)  BY <3>1, <3>2, <4>3, ConvertsThat
      <4> QED  BY <4>2, <4>4
    <3>4. CASE i # 0
      <4>1. chunk[1] \in Space
        <5>1. 1 \in 1..i  BY <1>7, <3>4
        <5> QED  BY <1>9, <5>1
      <4>2. ASSUME NEW k \in DOMAIN chunk PROVE chunk[k] \notin Digit
        <5>1. k \in 1..i \/ (j = i + 1 /\ k = j)  BY <1>2, <1>7, <2>3
        <5> QED  BY <1>9, <5>1, CharKinds
      <4> QED  BY <4>1, <4>2
    <3> QED  BY <3>3, <3>4
  <2> QED  BY <1>2, <1>7, <1>8, <2>2, <2>3
<1> QED  BY <1>10, <1>11

(* Once it has begun, a numeral ends where the buffer's characters end. *)
LEMMA BegunNumeral ==
    ASSUME NEW S, NEW number \in Seq(S), Begun(number), NEW t \in Seq(S), NEW k,
           k = Len(number), k < Len(t), SubSeq(t, 1, k) = number,
           t[k + 1] \notin Digit \cup Sign,
           NEW i, NEW j, NEW n, NumeralAt(t, i, j, n),
           n < Len(t) => t[n + 1] \notin Digit \cup Sign
    PROVE  n = k
<1>1. k \in Nat /\ Len(t) \in Nat  OBVIOUS
<1>2. \A l \in 1..k : t[l] = number[l]
  <2>1. 1 \in Int /\ k \in Int /\ k - 1 + 1 = k /\ \A l \in 1..k : t[l] \in S
    BY <1>1
  <2>2. \A l \in 1..(k - 1 + 1) : SubSeq(t, 1, k)[l] = t[1 + l - 1]
    BY <2>1, SubSeqProperties
  <2>3. \A l \in 1..k : 1 + l - 1 = l  BY <1>1
  <2> QED  BY <2>1, <2>2, <2>3
<1>3. PICK b \in 1..k : /\ \A l \in 1..(b - 1) : number[l] \in Space
                        /\ \A l \in b..k : number[l] \in Digit \cup Sign
  BY DEF Begun
<1>4. \A l \in 1..(b - 1) : t[l] \in Space
  <2>1. \A l \in 1..(b - 1) : l \in 1..k  BY <1>1
  <2> QED  BY <1>2, <1>3, <2>1
<1>5. \A l \in b..k : t[l] \in Digit \cup Sign
  <2>1. \A l \in b..k : l \in 1..k  BY <1>1
  <2> QED  BY <1>2, <1>3, <2>1
<1>6. /\ i \in Nat /\ j \in Nat /\ n \in 0..Len(t) /\ i <= j /\ j <= i + 1 /\ j < n
      /\ \A l \in 1..i : t[l] \in Space
      /\ j = i + 1 => t[j] \in Sign
      /\ \A l \in (j + 1)..n : t[l] \in Digit
  BY DEF NumeralAt
<1>7. i < b
  <2>1. t[b] \notin Space
    <3>1. b \in b..k  BY <1>1
    <3>2. t[b] \in Digit \cup Sign  BY <1>5, <3>1
    <3> QED  BY <3>2, CharKinds
  <2>2. ~ (b \in 1..i)  BY <1>6, <2>1
  <2> QED  BY <1>1, <1>6, <2>2
<1>8. n <= k
  <2>1. ~ (k + 1 \in (j + 1)..n)  BY <1>6
  <2>2. k + 1 # i + 1 \/ j = i  BY <1>6
  <2>3. n \in Nat /\ b \in Nat /\ b <= k  BY <1>1, <1>6
  <2> QED  BY <1>1, <1>6, <1>7, <2>1, <2>2, <2>3
<1>9. n >= b
  <2>1. n \in (j + 1)..n /\ t[n] \in Digit  BY <1>6
  <2>2. t[n] \notin Space  BY <2>1, CharKinds
  <2>3. ~ (n \in 1..(b - 1))  BY <1>4, <2>2
  <2>4. n \in Nat /\ n > 0 /\ b \in Nat  BY <1>6
  <2> QED  BY <2>3, <2>4
<1>10. n = k
  <2>1. n \in Nat /\ b \in Nat  BY <1>6
  <2>2. SUFFICES ASSUME n < k PROVE FALSE
    BY <1>1, <1>8, <2>1
  <2>3. n + 1 \in b..k /\ n < Len(t)  BY <1>1, <1>9, <2>1, <2>2
  <2> QED  BY <1>5, <2>3
<1> QED  BY <1>10

LEMMA PartOfFront ==
    ASSUME NEW S, NEW s \in Seq(S), NEW more \in Seq(S), NEW n \in 0..Len(s)
    PROVE  /\ SubSeq(s \o more, 1, n) = SubSeq(s, 1, n)
           /\ \A i \in 1..Len(s) : (s \o more)[i] = s[i]
           /\ s \o more \in Seq(S)
           /\ Len(s \o more) = Len(s) + Len(more)
<1>1. CASE n = 0  BY <1>1, SubSeqEmpty, ConcatProperties
<1>2. CASE n # 0
  <2>1. 1 \in 1..Len(s) /\ n \in 1..Len(s)  BY <1>2
  <2>2. SubSeq(s \o more, 1, n) = SubSeq(s, 1, n)  BY <2>1, SubSeqOfConcat1
  <2> QED  BY <2>2, ConcatProperties
<1> QED  BY <1>1, <1>2

(* And a later chunk of no numeral at all. *)
LEMMA RestRefuses ==
    ASSUME type \in Types, NEW s \in Seq(type.chars), NEW number \in Seq(type.chars),
           Begun(number), NEW k, k = Len(number), k < Len(s), SubSeq(s, 1, k) = number,
           s[k + 1] \notin Digit \cup Sign,
           NEW more \in BoundedSeq(Digit \cap type.chars, 1),
           NEW n \in 1..Len(s \o more), NEW v \in type.min..type.max,
           Denotes(SubSeq(s \o more, 1, n), v),
           n < Len(s \o more) => (s \o more)[n + 1] \notin Digit \cup Sign
    PROVE  Converts(number) /\ AllOfBuffer(number)
<1> DEFINE t == s \o more
<1>1. more \in Seq(type.chars)
  <2>1. more \in Seq(Digit \cap type.chars)  BY ChunksAreTyped
  <2> QED  BY <2>1
<1>2. k \in Nat /\ Len(s) \in Nat /\ k \in 0..Len(s) /\ k + 1 \in 1..Len(s)  OBVIOUS
<1>3. /\ t \in Seq(type.chars) /\ Len(t) = Len(s) + Len(more) /\ Len(more) \in Nat
      /\ SubSeq(t, 1, k) = number
      /\ t[k + 1] \notin Digit \cup Sign
  BY <1>1, <1>2, PartOfFront
<1>4. /\ n \in 1..Len(t) /\ n \in 0..Len(t) /\ Denotes(SubSeq(t, 1, n), v)
      /\ n < Len(t) => t[n + 1] \notin Digit \cup Sign
  BY <1>3
<1> HIDE DEF t
<1>5. PICK a, b \in 0..n : NumeralAt(t, a, b, n)
  BY <1>3, <1>4, DenotesOfPart
<1>6. n = k
  <2>1. k < Len(t)  BY <1>2, <1>3
  <2> QED  BY <1>3, <1>4, <1>5, <2>1, BegunNumeral
<1>7. Denotes(SubSeq(number, 1, Len(number)), v) /\ Len(number) \in 0..Len(number)
  <2>1. SubSeq(number, 1, Len(number)) = number  BY SubSeqFull
  <2>2. SubSeq(t, 1, n) = number  BY <1>3, <1>6
  <2>3. Denotes(number, v)  BY <1>4, <2>2
  <2>4. Len(number) \in Nat  OBVIOUS
  <2>5. Len(number) \in 0..Len(number)  BY <2>4
  <2> QED  BY <2>1, <2>3, <2>5
<1>8. PICK i, j \in 0..Len(number) :
         /\ NumeralAt(number, i, j, Len(number))
         /\ j = i + 1 => number[j] \in TypeSign
         /\ v = Valued(number, i, j, Len(number))
  <2> DEFINE Found(i, j) == /\ NumeralAt(number, i, j, Len(number))
                            /\ j = i + 1 => number[j] \in TypeSign
                            /\ v = Valued(number, i, j, Len(number))
  <2>1. Denotes(SubSeq(number, 1, Len(number)), v) <=>
          \E i, j \in 0..Len(number) : Found(i, j)
    BY <1>7, DenotesOfPart
  <2> HIDE DEF Found
  <2>2. \E i, j \in 0..Len(number) : Found(i, j)  BY <1>7, <2>1
  <2> QED  BY <2>2 DEF Found
<1>9. Converts(number) /\ Strto(number).chars = Len(number)
  BY <1>8, NumeralConverts
<1> QED  BY <1>9 DEF AllOfBuffer

----------------------------------------------------------------------------
(* What a call leaves: all that CallInv and the properties say of it. *)
After ==
    /\ BlanksSkipped => ValueIsText'
    /\ RefusesOnlyNonIntegers'
    /\ finished' \in BOOLEAN
    /\ used' \in Nat
    /\ result' \in {"more", "done", "failed"}
    /\ result' = "more" => ~finished' /\ buffer' = given' /\ used' = Len(given')
    /\ result' = "more" => Begun(given') \/ (emptyFirst' /\ given' = <<>>)
    /\ result' = "done" => finished' /\ buffer' = <<>>

(* The properties, with nothing of the state left in their parts. *)
DenotesFor(t, s, v) ==
    \E i, j \in 0..Len(s) :
        /\ i <= j /\ j <= i + 1 /\ j < Len(s)
        /\ \A k \in 1..i : s[k] \in Space
        /\ j = i + 1 => s[j] \in (IF t.min < 0 THEN Sign ELSE {Plus})
        /\ \A k \in (j + 1)..Len(s) : s[k] \in Digit
        /\ v = IF j = i + 1 /\ s[j] = Minus
               THEN -Magnitude(SubSeq(s, j + 1, Len(s)))
               ELSE Magnitude(SubSeq(s, j + 1, Len(s)))

Refused(t, s) ==
    ~ \E more \in BoundedSeq(Digit \cap t.chars, 1) :
        \E n \in 1..Len(s \o more) :
            /\ \E v \in t.min..t.max : DenotesFor(t, SubSeq(s \o more, 1, n), v)
            /\ n < Len(s \o more) => (s \o more)[n + 1] \notin Digit \cup Sign

LEMMA DenotesIs ==
    ASSUME NEW s, NEW v
    PROVE  Denotes(s, v) <=> DenotesFor(type, s, v)
BY DEF Denotes, DenotesFor, TypeSign, Signed

LEMMA RefusesIs ==
    /\ RefusesOnlyNonIntegers <=> (result = "failed" => BlanksCutOff \/ Refused(type, given))
    /\ RefusesOnlyNonIntegers'
          <=> (result' = "failed" => BlanksCutOff' \/ Refused(type', given'))
<1>1. RefusesOnlyNonIntegers <=> (result = "failed" => BlanksCutOff \/ Refused(type, given))
  BY DEF RefusesOnlyNonIntegers, Refused, Denotes, DenotesFor, TypeSign, Signed
<1>2. RefusesOnlyNonIntegers'
        <=> (result' = "failed" => BlanksCutOff' \/ Refused(type', given'))
  BY DEF RefusesOnlyNonIntegers, Refused, Denotes, DenotesFor, TypeSign, Signed
<1> QED  BY <1>1, <1>2

LEMMA TextIs ==
    /\ ValueIsText <=>
        (result = "done" =>
           /\ DenotesFor(type, SubSeq(given, 1, used), out) \/ ZeroOfNothing
           /\ out \in type.min..type.max
           /\ used < Len(given) /\ given[used + 1] \notin Digit)
    /\ ValueIsText' <=>
        (result' = "done" =>
           /\ DenotesFor(type', SubSeq(given', 1, used'), out') \/ ZeroOfNothing'
           /\ out' \in type'.min..type'.max
           /\ used' < Len(given') /\ given'[used' + 1] \notin Digit)
BY DEF ValueIsText, Taken, Denotes, DenotesFor, TypeSign, Signed

LEMMA BegunByNumeral ==
    ASSUME NEW S, NEW s \in Seq(S), NEW i, NEW j, NumeralAt(s, i, j, Len(s))
    PROVE  Begun(s)
<1>1. /\ i \in Nat /\ j \in Nat /\ i <= j /\ j <= i + 1 /\ j < Len(s)
      /\ \A k \in 1..i : s[k] \in Space
      /\ j = i + 1 => s[j] \in Sign
      /\ \A k \in (j + 1)..Len(s) : s[k] \in Digit
  BY DEF NumeralAt
<1>2. i + 1 \in 1..Len(s) /\ i + 1 - 1 = i  BY <1>1
<1>3. ASSUME NEW k \in (i + 1)..Len(s) PROVE s[k] \in Digit \cup Sign
  <2>1. k \in (j + 1)..Len(s) \/ (j = i + 1 /\ k = j)  BY <1>1
  <2> QED  BY <1>1, <2>1
<1> QED  BY <1>1, <1>2, <1>3 DEF Begun

LEMMA EmptyIsRight ==
    ASSUME type \in Types, Direct(<<>>), given' = <<>>, buffer = <<>>, emptyFirst'
    PROVE  After
<1>1. Converts(<<>>) /\ Strto(<<>>).chars = 0 /\ Len(<<>>) = 0 /\ <<>> \o <<>> = <<>>
  BY NothingConverts
<1>2. result' = "more" /\ buffer' = <<>> /\ finished' = FALSE /\ used' = Len(given')
  BY <1>1 DEF Direct, NeedsMore
<1> QED  BY <1>1, <1>2 DEF After, ValueIsText, RefusesOnlyNonIntegers

LEMMA DirectIsRight ==
    ASSUME type \in Types, type' = type, NEW chunk \in Seq(type.chars), chunk # <<>>,
           finished, Direct(chunk), given' = chunk, used = 0, buffer = <<>>
    PROVE  After
<1> DEFINE n == Strto(chunk).chars
<1>1. n \in 0..Len(chunk) /\ Len(chunk) \in Nat /\ Len(chunk) > 0  BY StrtoTyped
<1>2. CASE ~ Converts(chunk) \/ (n = 0 /\ ~ LoneSign(chunk))
  <2>1. result' = "failed" /\ used' = 0 /\ finished' = TRUE
    <3>1. n = 0 => n # Len(chunk)  BY <1>1
    <3> HIDE DEF n
    <3> QED  BY <1>2, <3>1 DEF Direct, Throw, n
  <2>2. ASSUME ~ BlanksCutOff',
               NEW more \in BoundedSeq(Digit \cap type.chars, 1),
               NEW m \in 1..Len(chunk \o more), NEW v \in type.min..type.max,
               Denotes(SubSeq(chunk \o more, 1, m), v),
               m < Len(chunk \o more) => (chunk \o more)[m + 1] \notin Digit \cup Sign
        PROVE  FALSE
    <3>1. chunk[1] \in Space /\ \A i \in DOMAIN chunk : chunk[i] \notin Digit
      BY <1>2, <2>2, DirectRefuses
    <3> QED  BY <2>2, <3>1 DEF BlanksCutOff
  <2>3. Refused(type, chunk) \/ BlanksCutOff'  BY <2>2, DenotesIs DEF Refused
  <2>4. RefusesOnlyNonIntegers'  BY <2>3, RefusesIs
  <2> QED  BY <2>1, <2>4 DEF After, ValueIsText
<1>3. CASE Converts(chunk) /\ n # 0 /\ n < Len(chunk)
  <2>1. /\ result' = "done" /\ used' = n /\ out' = Value(chunk)
        /\ finished' = TRUE /\ buffer' = <<>>
    <3>1. ~ (n = Len(chunk)) /\ ~ LoneSign(chunk) /\ 0 + n = n
      <4> DEFINE l == Len(chunk)
      <4>1. n \in Nat /\ n # 0 /\ n < l /\ l \in Nat  BY <1>1, <1>3
      <4> HIDE DEF n, l
      <4>2. ~ (n = l) /\ l # 1 /\ 0 + n = n  BY <4>1
      <4> QED  BY <4>2 DEF LoneSign, l
    <3> HIDE DEF n
    <3> QED  BY <1>3, <3>1 DEF Direct, Done, ClearsBuffer, n
  <2>2. ValueIsText' \/ ~ BlanksSkipped
    <3>1. SUFFICES ASSUME BlanksSkipped PROVE ValueIsText'
      OBVIOUS
    <3>2. /\ Denotes(SubSeq(chunk, 1, n), Value(chunk))
          /\ Value(chunk) \in type.min..type.max
          /\ n = Len(chunk) \/ chunk[n + 1] \notin Digit
      BY <1>3, <3>1, TakenDenotes
    <3>3. n # Len(chunk)  BY <1>3
    <3> HIDE DEF n
    <3>4. DenotesFor(type, SubSeq(chunk, 1, n), Value(chunk))  BY <3>2, DenotesIs
    <3> QED  BY <1>3, <2>1, <3>2, <3>3, <3>4, TextIs
  <2> QED  BY <1>1, <2>1, <2>2 DEF After, RefusesOnlyNonIntegers
<1>4. CASE Converts(chunk) /\ (n = Len(chunk) \/ LoneSign(chunk))
  <2>1. result' = "more" /\ buffer' = <<>> \o chunk /\ finished' = FALSE /\ used' = Len(given')
    <3>1. ~ (n # 0 /\ n < Len(chunk))
      <4> DEFINE l == Len(chunk)
      <4>1. n \in Nat /\ l \in Nat /\ (n = l \/ l = 1)  BY <1>1, <1>4 DEF LoneSign
      <4> HIDE DEF n, l
      <4>2. ~ (n # 0 /\ n < l)  BY <4>1
      <4> QED  BY <4>2 DEF l
    <3>2. n = Len(chunk) => n # 0  BY <1>1
    <3> HIDE DEF n
    <3> QED  BY <1>4, <3>1, <3>2 DEF Direct, NeedsMore, Throw, n
  <2>2. buffer' = chunk  BY <2>1
  <2>3. Begun(chunk)
    <3>1. CASE n = Len(chunk)
      <4>1. n # 0  BY <1>1, <3>1
      <4>2. NumeralAt(chunk, Start(chunk) - 1, FirstDigit(chunk) - 1, Len(chunk))
        BY <3>1, <4>1, StrtoTakesNumeral
      <4> QED  BY <4>2, BegunByNumeral
    <3>2. CASE LoneSign(chunk)
      <4>1. 1 \in 1..Len(chunk) /\ \A l \in 1..Len(chunk) : chunk[l] \in Digit \cup Sign
        <5>1. Len(chunk) = 1 /\ chunk[1] \in Sign  BY <3>2 DEF LoneSign
        <5>2. \A l \in 1..Len(chunk) : l = 1  BY <5>1
        <5> QED  BY <5>1, <5>2
      <4> QED  BY <4>1 DEF Begun
    <3> QED  BY <1>4, <3>1, <3>2
  <2> QED  BY <1>1, <2>1, <2>2, <2>3 DEF After, ValueIsText, RefusesOnlyNonIntegers
<1> QED  BY <1>1, <1>2, <1>3, <1>4
LEMMA FrontTyped ==
    ASSUME NEW S, NEW s \in Seq(S), NEW p \in 0..Len(s)
    PROVE  /\ SubSeq(s, 1, p) \in Seq(S)
           /\ Len(SubSeq(s, 1, p)) = p
           /\ \A i \in 1..p : SubSeq(s, 1, p)[i] = s[i]
<1> DEFINE a == SubSeq(s, 1, p)
<1>1. 1 \in Int /\ p \in Nat /\ p \in Int /\ p - 1 + 1 = p /\ \A i \in 1..p : s[i] \in S
  OBVIOUS
<1>2. /\ a \in Seq(S) /\ Len(a) = IF 1 <= p THEN p - 1 + 1 ELSE 0
      /\ \A i \in 1..(p - 1 + 1) : a[i] = s[1 + i - 1]
  BY <1>1, SubSeqProperties
<1>3. \A i \in 1..p : 1 + i - 1 = i  BY <1>1
<1> HIDE DEF a
<1>4. a \in Seq(S) /\ Len(a) = p /\ \A i \in 1..p : a[i] = s[i]
  BY <1>1, <1>2, <1>3
<1> QED  BY <1>4 DEF a

(* The buffer with the front of a chunk is a front of all that was given. *)
LEMMA FrontOfAll ==
    ASSUME NEW S, NEW before \in Seq(S), NEW chunk \in Seq(S), NEW p \in 0..Len(chunk),
           p < Len(chunk)
    PROVE  LET number == before \o SubSeq(chunk, 1, p)
               s == before \o chunk
           IN
           /\ number \in Seq(S) /\ s \in Seq(S)
           /\ Len(number) = Len(before) + p
           /\ Len(s) = Len(before) + Len(chunk)
           /\ SubSeq(s, 1, Len(number)) = number
           /\ s[Len(number) + 1] = chunk[p + 1]
           /\ \A i \in 1..p : SubSeq(chunk, 1, p)[i] = chunk[i]
<1> DEFINE number == before \o SubSeq(chunk, 1, p)
           s == before \o chunk
           a == SubSeq(chunk, 1, p)
           l == Len(before)
           m == Len(chunk)
           u == SubSeq(s, 1, l + p)
<1>1. p \in Nat /\ l \in Nat /\ m \in Nat /\ p < m  OBVIOUS
<1>2. a \in Seq(S) /\ Len(a) = p /\ \A i \in 1..p : a[i] = chunk[i]
  BY <1>1, FrontTyped
<1> HIDE DEF a
<1>3. /\ number \in Seq(S) /\ Len(number) = l + p
      /\ \A i \in 1..(l + p) : number[i] = IF i <= l THEN before[i] ELSE a[i - l]
  <2>1. number = before \o a  BY DEF a
  <2>2. /\ before \o a \in Seq(S) /\ Len(before \o a) = Len(before) + Len(a)
        /\ \A i \in 1..(Len(before) + Len(a)) :
             (before \o a)[i] = IF i <= Len(before) THEN before[i] ELSE a[i - Len(before)]
    BY <1>2, ConcatProperties
  <2> QED  BY <1>2, <2>1, <2>2
<1>4. /\ s \in Seq(S) /\ Len(s) = l + m
      /\ \A i \in 1..(l + m) : s[i] = IF i <= l THEN before[i] ELSE chunk[i - l]
  BY ConcatProperties
<1>5. u \in Seq(S) /\ Len(u) = l + p /\ \A i \in 1..(l + p) : u[i] = s[i]
  <2>1. \A i \in 1..(l + p) : s[i] \in S
    <3>1. \A i \in 1..(l + p) : i \in 1..Len(s)  BY <1>1, <1>4
    <3> QED  BY <1>4, <3>1
  <2>2. 1 \in Int /\ l + p \in Int /\ (l + p) - 1 + 1 = l + p /\ l + p \in Nat
    BY <1>1
  <2>3. /\ u \in Seq(S) /\ Len(u) = IF 1 <= l + p THEN (l + p) - 1 + 1 ELSE 0
        /\ \A i \in 1..((l + p) - 1 + 1) : u[i] = s[1 + i - 1]
    BY <2>1, <2>2, SubSeqProperties
  <2> DEFINE w == l + p
  <2>4. /\ w \in Nat /\ u \in Seq(S) /\ Len(u) = IF 1 <= w THEN w - 1 + 1 ELSE 0
        /\ \A i \in 1..(w - 1 + 1) : u[i] = s[1 + i - 1]
    BY <2>2, <2>3
  <2> HIDE DEF u, w
  <2>5. Len(u) = w /\ w - 1 + 1 = w /\ \A i \in 1..w : 1 + i - 1 = i  BY <2>4
  <2>6. \A i \in 1..w : u[i] = s[i]  BY <2>4, <2>5
  <2> QED  BY <2>4, <2>5, <2>6 DEF w
<1> HIDE DEF l, m, u, s, number
<1>6. ASSUME NEW i \in 1..(l + p) PROVE u[i] = number[i]
  <2>1. i \in 1..(l + m)  BY <1>1
  <2>2. ~ (i <= l) => i - l \in 1..p  BY <1>1
  <2> QED  BY <1>2, <1>3, <1>4, <1>5, <2>1, <2>2
<1>7. u = number  BY <1>3, <1>5, <1>6, SeqEqual
<1>8. s[l + p + 1] = chunk[p + 1]
  <2> DEFINE w == l + p + 1
  <2>1. w \in 1..(l + m) /\ ~ (w <= l) /\ w - l = p + 1
    BY <1>1
  <2> HIDE DEF w
  <2>2. s[w] = chunk[w - l]  BY <1>4, <2>1
  <2> QED  BY <2>1, <2>2 DEF w
<1> QED  BY <1>2, <1>3, <1>4, <1>7, <1>8 DEF a, l, m, u, s, number

(* More digits and signs go on with what has begun, and begin if nothing has. *)
LEMMA BeginsWith ==
    ASSUME NEW S, NEW more \in Seq(S), more # <<>>,
           \A i \in 1..Len(more) : more[i] \in Digit \cup Sign
    PROVE  Begun(<<>> \o more)
<1>1. <<>> \o more = more  OBVIOUS
<1>2. 1 \in 1..Len(more)  OBVIOUS
<1>3. \A k \in 1..(1 - 1) : more[k] \in Space  OBVIOUS
<1> QED  BY <1>1, <1>2, <1>3 DEF Begun

LEMMA BegunGoesOn ==
    ASSUME NEW S, NEW before \in Seq(S), Begun(before), NEW more \in Seq(S),
           \A i \in 1..Len(more) : more[i] \in Digit \cup Sign
    PROVE  Begun(before \o more)
<1> DEFINE s == before \o more
           l == Len(before)
           m == Len(more)
<1>1. /\ l \in Nat /\ m \in Nat /\ Len(s) = l + m
      /\ \A i \in 1..(l + m) : s[i] = IF i <= l THEN before[i] ELSE more[i - l]
  BY ConcatProperties
<1>2. PICK b \in 1..l : /\ \A k \in 1..(b - 1) : before[k] \in Space
                        /\ \A k \in b..l : before[k] \in Digit \cup Sign
  BY DEF Begun
<1>3. \A i \in 1..m : more[i] \in Digit \cup Sign  OBVIOUS
<1> HIDE DEF s, l, m
<1>4. b \in 1..(l + m)  BY <1>1
<1>5. ASSUME NEW k \in 1..(b - 1) PROVE s[k] \in Space
  <2>1. k \in 1..(l + m) /\ k <= l  BY <1>1, <1>2
  <2> QED  BY <1>1, <1>2, <2>1
<1>6. ASSUME NEW k \in b..(l + m) PROVE s[k] \in Digit \cup Sign
  <2>1. k \in 1..(l + m)  BY <1>1
  <2>2. CASE k <= l
    <3>1. k \in b..l  BY <1>1, <2>2
    <3> QED  BY <1>1, <1>2, <2>1, <2>2, <3>1
  <2>3. CASE ~ (k <= l)
    <3>1. k - l \in 1..m  BY <1>1, <2>3
    <3> QED  BY <1>1, <1>3, <2>1, <2>3, <3>1
  <2> QED  BY <2>2, <2>3
<1>7. Begun(s)  BY <1>1, <1>4, <1>5, <1>6 DEF Begun
<1> QED  BY <1>7 DEF s

LEMMA RestIsRight ==
    ASSUME type \in Types, type' = type, NEW chunk \in Seq(type.chars),
           Rest(chunk), finished \in BOOLEAN, given \in Seq(type.chars),
           Begun(given) \/ (emptyFirst /\ given = <<>>), emptyFirst' = emptyFirst,
           given' = given \o chunk, used = Len(given), buffer = given
    PROVE  After
<1> DEFINE p == Past(Digit \cup Sign, chunk, 1) - 1
           number == given \o SubSeq(chunk, 1, p)
           s == given \o chunk
<1>1. /\ p \in 0..Len(chunk) /\ Len(chunk) \in Nat /\ Len(given) \in Nat
      /\ \A k \in 1..p : chunk[k] \in Digit \cup Sign
      /\ p = Len(chunk) \/ chunk[p + 1] \notin Digit \cup Sign
  <2> DEFINE q == Past(Digit \cup Sign, chunk, 1)
  <2>1. Len(chunk) \in Nat /\ Len(given) \in Nat /\ 1 \in 1..(Len(chunk) + 1)
    OBVIOUS
  <2>2. /\ q \in 1..(Len(chunk) + 1) /\ \A k \in 1..(q - 1) : chunk[k] \in Digit \cup Sign
        /\ q = Len(chunk) + 1 \/ chunk[q] \notin Digit \cup Sign
    BY <2>1, PastIs
  <2> HIDE DEF q
  <2>3. /\ q - 1 \in 0..Len(chunk) /\ q - 1 + 1 = q
        /\ q = Len(chunk) + 1 => q - 1 = Len(chunk)
    BY <2>1, <2>2
  <2> QED  BY <2>1, <2>2, <2>3 DEF q
<1>3. CASE p = Len(chunk)
  <2>1. /\ buffer' = number /\ finished' = FALSE /\ result' = "more"
        /\ used' = Len(given')
    <3> HIDE DEF p
    <3> QED  BY <1>3 DEF Rest, NeedsMore, p
  <2>2. SubSeq(chunk, 1, p) = chunk  BY <1>3, SubSeqFull
  <2>3. buffer' = given'  BY <2>1, <2>2
  <2>4. Begun(given') \/ (emptyFirst' /\ given' = <<>>)
    <3>1. \A i \in 1..Len(chunk) : chunk[i] \in Digit \cup Sign  BY <1>1, <1>3
    <3>2. CASE Begun(given)  BY <3>1, <3>2, BegunGoesOn
    <3>3. CASE emptyFirst /\ given = <<>> /\ chunk # <<>>  BY <3>1, <3>3, BeginsWith
    <3>4. CASE emptyFirst /\ given = <<>> /\ chunk = <<>>  BY <3>4
    <3> QED  BY <3>2, <3>3, <3>4
  <2>5. used' \in Nat
    <3>1. s \in Seq(type.chars)  BY ConcatProperties
    <3>2. Len(s) \in Nat  BY <3>1
    <3> QED  BY <2>1, <3>2
  <2> QED  BY <2>1, <2>3, <2>4, <2>5 DEF After, ValueIsText, RefusesOnlyNonIntegers
<1>4. CASE p # Len(chunk)
  <2> DEFINE k == Len(number)
  <2>1. p < Len(chunk)  BY <1>1, <1>4
  <2>2. /\ number \in Seq(type.chars) /\ s \in Seq(type.chars)
        /\ k = Len(given) + p /\ Len(s) = Len(given) + Len(chunk)
        /\ SubSeq(s, 1, k) = number
        /\ s[k + 1] \notin Digit \cup Sign
        /\ \A i \in 1..p : SubSeq(chunk, 1, p)[i] = chunk[i]
    <3>1. /\ number \in Seq(type.chars) /\ s \in Seq(type.chars)
          /\ Len(number) = Len(given) + p /\ Len(s) = Len(given) + Len(chunk)
          /\ SubSeq(s, 1, Len(number)) = number
          /\ s[Len(number) + 1] = chunk[p + 1]
          /\ \A i \in 1..p : SubSeq(chunk, 1, p)[i] = chunk[i]
      <4>1. p \in 0..Len(chunk) /\ p < Len(chunk)  BY <1>1, <2>1
      <4>2. number = given \o SubSeq(chunk, 1, p) /\ s = given \o chunk  OBVIOUS
      <4> DEFINE S == type.chars
      <4>4. given \in Seq(S) /\ chunk \in Seq(S)  OBVIOUS
      <4> HIDE DEF p, number, s, S
      <4>5. /\ number \in Seq(S) /\ s \in Seq(S)
            /\ Len(number) = Len(given) + p /\ Len(s) = Len(given) + Len(chunk)
            /\ SubSeq(s, 1, Len(number)) = number
            /\ s[Len(number) + 1] = chunk[p + 1]
            /\ \A i \in 1..p : SubSeq(chunk, 1, p)[i] = chunk[i]
        BY <4>1, <4>2, <4>4, FrontOfAll
      <4> QED  BY <4>5 DEF S
    <3>2. chunk[p + 1] \notin Digit \cup Sign  BY <1>1, <1>4
    <3> QED  BY <3>1, <3>2
  <2>3. k \in Nat /\ k < Len(s) /\ Len(s) \in Nat /\ (k = 0 <=> number = <<>>)
    <3>2. number \in Seq(type.chars)  BY <2>2
    <3> HIDE DEF number
    <3>1. k = 0 <=> number = <<>>  BY <3>2
    <3> HIDE DEF p, k
    <3> QED  BY <1>1, <2>1, <2>2, <3>1
  <2>4. Begun(number) \/ (emptyFirst /\ number = <<>>)
    <3> DEFINE a == SubSeq(chunk, 1, p)
    <3>1. a \in Seq(type.chars) /\ Len(a) = p
      <4>1. p \in 0..Len(chunk)  BY <1>1
      <4> HIDE DEF p
      <4> QED  BY <4>1, FrontTyped
    <3>2. \A i \in 1..Len(a) : a[i] \in Digit \cup Sign  BY <1>1, <2>2, <3>1
    <3>3. number = given \o a  OBVIOUS
    <3> HIDE DEF a, p, number
    <3>4. CASE Begun(given)  BY <3>1, <3>2, <3>3, <3>4, BegunGoesOn
    <3>5. CASE emptyFirst /\ given = <<>> /\ a # <<>>  BY <3>1, <3>2, <3>3, <3>5, BeginsWith
    <3>6. CASE emptyFirst /\ given = <<>> /\ a = <<>>  BY <3>3, <3>6
    <3> QED  BY <3>4, <3>5, <3>6
  <2>5. CASE Converts(number) /\ AllOfBuffer(number)
    <3>1. /\ result' = "done" /\ used' = used + p /\ out' = Value(number)
          /\ finished' = TRUE /\ buffer' = <<>>
      <4> HIDE DEF p
      <4> QED  BY <1>4, <2>5 DEF Rest, Done, ClearsBuffer, p
    <3>2. used' = k /\ used' \in Nat /\ k < Len(given')  BY <2>2, <2>3, <3>1
    <3>3. BlanksSkipped => ValueIsText'
      <4> SUFFICES ASSUME BlanksSkipped PROVE ValueIsText'
        OBVIOUS
      <4>5. CASE k = 0
        <5>1. number = <<>> /\ emptyFirst' /\ used' = 0
          <6>1. ~ Begun(<<>>)  BY DEF Begun
          <6> HIDE DEF k, number
          <6> QED  BY <2>3, <2>4, <3>2, <4>5, <6>1
        <5>2. out' = 0 /\ 0 \in type.min..type.max
          <6> HIDE DEF k, number
          <6> QED  BY <3>1, <5>1, NothingConverts
        <5>3. given'[1] \notin Digit \cup Sign /\ 0 < Len(given')
          <6>1. given' = s  OBVIOUS
          <6> HIDE DEF k, number, s
          <6>2. k + 1 = 1  BY <4>5
          <6> QED  BY <2>2, <2>3, <4>5, <6>1, <6>2
        <5>4. ZeroOfNothing'  BY <5>1, <5>2, <5>3 DEF ZeroOfNothing
        <5> HIDE DEF k, number
        <5> QED  BY <5>1, <5>2, <5>3, <5>4, TextIs
      <4> SUFFICES ASSUME k # 0 PROVE ValueIsText'
        BY <4>5
      <4>1. k = Strto(number).chars  BY <2>5 DEF AllOfBuffer
      <4>2. Denotes(SubSeq(number, 1, k), Value(number)) /\ Value(number) \in type.min..type.max
        <5> HIDE DEF number, k
        <5> QED  BY <2>2, <2>3, <2>5, <4>1, TakenDenotes
      <4>3. SubSeq(number, 1, k) = number  BY <2>2, SubSeqFull
      <4>4. DenotesFor(type, SubSeq(s, 1, k), Value(number))  BY <2>2, <4>2, <4>3, DenotesIs
      <4> HIDE DEF k, number
      <4> QED  BY <2>2, <3>1, <3>2, <4>2, <4>4, TextIs
    <3> QED  BY <3>1, <3>2, <3>3 DEF After, RefusesOnlyNonIntegers
  <2>6. CASE ~ (Converts(number) /\ AllOfBuffer(number))
    <3>1. result' = "failed" /\ used' = used /\ finished' = finished /\ ~ finished
      <4> HIDE DEF p
      <4> QED  BY <1>4, <2>6 DEF Rest, Throw, p
    <3>6. Begun(number)
      <4>1. Converts(<<>>) /\ AllOfBuffer(<<>>)  BY NothingConverts DEF AllOfBuffer
      <4> HIDE DEF number
      <4> QED  BY <2>4, <2>6, <4>1
    <3>2. ASSUME NEW more \in BoundedSeq(Digit \cap type.chars, 1),
                 NEW m \in 1..Len(s \o more), NEW v \in type.min..type.max,
                 DenotesFor(type, SubSeq(s \o more, 1, m), v),
                 m < Len(s \o more) => (s \o more)[m + 1] \notin Digit \cup Sign
          PROVE  FALSE
      <4>1. Denotes(SubSeq(s \o more, 1, m), v)  BY <3>2, DenotesIs
      <4> HIDE DEF s, number
      <4> QED  BY <2>2, <2>3, <2>6, <3>2, <3>6, <4>1, RestRefuses
    <3>3. Refused(type, s)  BY <3>2 DEF Refused
    <3>4. RefusesOnlyNonIntegers'  BY <3>3, RefusesIs
    <3>5. used' \in Nat /\ finished' \in BOOLEAN  BY <1>1, <3>1
    <3> QED  BY <3>1, <3>4, <3>5 DEF After, ValueIsText
  <2> QED  BY <2>5, <2>6
<1> QED  BY <1>3, <1>4
(* parse_integer and its caller keep the inductive invariant: between two   *)
(* calls the buffer has all that was given for the number, blanks and then  *)
(* digits and signs alone; nothing else lets a later call convert the       *)
(* buffer and take what follows it for the end of the number.               *)
THEOREM Invariance == Spec => []IInv
<1>1. Init => IInv
  <2> SUFFICES ASSUME Init PROVE IInv
    OBVIOUS
  <2>1. CallInv
    <3>1. result # "more"  BY DEF Init
    <3>2. /\ type \in Types /\ finished \in BOOLEAN
          /\ used \in Nat /\ emptyFirst \in BOOLEAN
      BY DEF Init
    <3>4. given \in Seq(type.chars)
      <4>1. given = <<>>  BY DEF Init
      <4> QED  BY <4>1
    <3>3. result = "idle" /\ finished /\ buffer = <<>> /\ given = <<>> /\ used = 0
      BY DEF Init
    <3> QED  BY <3>1, <3>2, <3>3, <3>4 DEF CallInv
  <2>2. ValueIsText /\ RefusesOnlyNonIntegers
    BY DEF Init, ValueIsText, RefusesOnlyNonIntegers
  <2> QED  BY <2>1, <2>2 DEF IInv
<1>2. IInv /\ [Next]_vars => IInv'
  <2> SUFFICES ASSUME IInv, [Next]_vars PROVE IInv'
    OBVIOUS
  <2>1. /\ type \in Types /\ given \in Seq(type.chars) /\ finished \in BOOLEAN /\ used \in Nat
        /\ result \in {"idle", "more", "done", "failed"}
        /\ result = "idle" => finished /\ buffer = <<>> /\ given = <<>> /\ used = 0
        /\ emptyFirst \in BOOLEAN
        /\ result = "more" => ~finished /\ buffer = given /\ used = Len(given)
        /\ result = "more" => Begun(given) \/ (emptyFirst /\ given = <<>>)
        /\ result = "done" => finished /\ buffer = <<>>
    BY DEF IInv, CallInv
  <2>2. ASSUME type' = type,
               NEW chunk \in BoundedSeq(type.chars, MaxText - Len(given)), Parse(chunk)
        PROVE  IInv'
    <3>1. chunk \in Seq(type.chars)
      <4>1. Len(given) \in Nat  BY <2>1
      <4>2. MaxText - Len(given) \in Int  BY <4>1, TypesAssumption
      <4> QED  BY <4>2, ChunksAreTyped
    <3>2. /\ given' = given \o chunk /\ result \in {"idle", "more"}
          /\ emptyFirst' = IF finished THEN chunk = <<>> ELSE emptyFirst
          /\ Direct(chunk) \/ Rest(chunk)
      BY <2>2 DEF Parse
    <3>3. given' \in Seq(type'.chars)
      BY <2>1, <2>2, <3>1, <3>2, ConcatProperties
    <3>4. After
      <4>1. CASE Direct(chunk)
        <5>1. finished  BY <4>1 DEF Direct
        <5>2. given = <<>> /\ used = 0 /\ buffer = <<>>  BY <2>1, <3>2, <5>1
        <5>3. given' = chunk  BY <3>1, <3>2, <5>2
        <5>4. CASE chunk = <<>>  BY <2>1, <3>2, <4>1, <5>1, <5>2, <5>3, <5>4, EmptyIsRight
        <5>5. CASE chunk # <<>>
          BY <2>1, <2>2, <3>1, <4>1, <5>1, <5>2, <5>3, <5>5, DirectIsRight
        <5> QED  BY <5>4, <5>5
      <4>2. CASE Rest(chunk)
        <5>1. ~ finished  BY <4>2 DEF Rest
        <5>2. /\ buffer = given /\ used = Len(given) /\ emptyFirst' = emptyFirst
              /\ Begun(given) \/ (emptyFirst /\ given = <<>>)
          BY <2>1, <3>2, <5>1
        <5> QED  BY <2>1, <2>2, <3>1, <3>2, <4>2, <5>2, RestIsRight
      <4> QED  BY <3>2, <4>1, <4>2
    <3>6. emptyFirst' \in BOOLEAN  BY <2>1, <3>2
    <3>5. CallInv'  BY <2>1, <2>2, <3>3, <3>4, <3>6 DEF After, CallInv
    <3> QED  BY <3>4, <3>5 DEF After, IInv, BlanksSkipped
  <2>3. ASSUME type' = type, Again PROVE IInv'
    <3>1. CallInv'
      <4>1. result' # "more" /\ result' = "idle"  BY <2>3 DEF Again
      <4>2. finished' /\ buffer' = <<>> /\ given' = <<>> /\ used' = 0 /\ emptyFirst' = FALSE
        BY <2>1, <2>3 DEF Again
      <4>3. type' \in Types /\ used' \in Nat  BY <2>1, <2>3, <4>2
      <4>5. finished' \in BOOLEAN /\ emptyFirst' \in BOOLEAN  BY <2>1, <2>3 DEF Again
      <4>4. given' \in Seq(type'.chars)  BY <4>2
      <4> QED  BY <4>1, <4>2, <4>3, <4>4, <4>5 DEF CallInv
    <3>2. ValueIsText' /\ RefusesOnlyNonIntegers'
      BY <2>3 DEF Again, ValueIsText, RefusesOnlyNonIntegers
    <3> QED  BY <3>1, <3>2 DEF IInv
  <2>4. ASSUME type' = type, Drop PROVE IInv'
    <3>1. CallInv'
      <4>1. result' # "more" /\ result' = "idle"  BY <2>4 DEF Drop
      <4>2. finished' /\ buffer' = <<>> /\ given' = <<>> /\ used' = 0 /\ emptyFirst' = FALSE
        BY <2>1, <2>4 DEF Drop
      <4>3. type' \in Types /\ used' \in Nat  BY <2>1, <2>4, <4>2
      <4>5. finished' \in BOOLEAN /\ emptyFirst' \in BOOLEAN  BY <2>1, <2>4 DEF Drop
      <4>4. given' \in Seq(type'.chars)  BY <4>2
      <4> QED  BY <4>1, <4>2, <4>3, <4>4, <4>5 DEF CallInv
    <3>2. ValueIsText' /\ RefusesOnlyNonIntegers'
      BY <2>4 DEF Drop, ValueIsText, RefusesOnlyNonIntegers
    <3> QED  BY <3>1, <3>2 DEF IInv
  <2>5. ASSUME UNCHANGED vars PROVE IInv'
    <3>1. /\ type' = type /\ finished' = finished /\ buffer' = buffer /\ out' = out
          /\ result' = result /\ given' = given /\ used' = used
          /\ emptyFirst' = emptyFirst
      BY <2>5 DEF vars
    <3>2. CallInv'  BY <2>1, <3>1 DEF CallInv
    <3>3. RefusesOnlyNonIntegers'
      BY <3>1, RefusesIs DEF IInv, BlanksCutOff
    <3>4. BlanksSkipped => ValueIsText'  BY <3>1, TextIs DEF IInv, ZeroOfNothing
    <3> QED  BY <3>2, <3>3, <3>4 DEF IInv, BlanksSkipped
  <2> QED  BY <2>2, <2>3, <2>4, <2>5 DEF Next
<1> QED  BY <1>1, <1>2, PTL DEF Spec

(* Where the callers skip the blanks, as the array and object parsers and   *)
(* their sources do, a number parse_integer gives is what the characters it *)
(* took say, a value of the type, and it took all the digits that follow,   *)
(* or no character says it and the first chunk was empty:                   *)
(* for every type's range and characters, and for every split in chunks.    *)
THEOREM ValuesAreRead ==
    ASSUME BlanksSkipped
    PROVE  Spec => []ValueIsText
<1>1. IInv => ValueIsText  BY DEF IInv
<1> QED  BY <1>1, Invariance, PTL

(* An exception of parse_integer's means that the text starts with no       *)
(* numeral the type can hold and cannot become one with another digit,      *)
(* whatever the range, the characters and the split in chunks are; the one  *)
(* exception is a chunk that ends within the blanks before the number.      *)
THEOREM OnlyNonIntegersRefused == Spec => []RefusesOnlyNonIntegers
<1>1. IInv => RefusesOnlyNonIntegers  BY DEF IInv
<1> QED  BY <1>1, Invariance, PTL
=============================================================================
