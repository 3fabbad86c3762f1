--------------------------- MODULE ScalarPoolProofs ---------------------------
(***************************************************************************)
(* Theorems of ScalarPool for chunks of any length: what the buffer holds, *)
(* which words a Bool and which numerals a Float is given for, and which   *)
(* texts are refused.                                                      *)
(***************************************************************************)
EXTENDS ScalarPool, SequenceLemmas, FiniteSetTheorems

LEMMA WholeIsItself ==
    ASSUME NEW S, NEW s \in Seq(S)
    PROVE  SubSeq(s, 1, Len(s)) = s /\ <<>> \o s = s
OBVIOUS

LEMMA ChunksAreTyped ==
    ASSUME NEW S, NEW n \in Int, NEW chunk \in BoundedSeq(S, n)
    PROVE  chunk \in Seq(S)
<1>1. PICK k \in 0..n : chunk \in [1..k -> S]  BY DEF BoundedSeq, SeqOf
<1> QED  BY <1>1

LEMMA SubSeqIs ==
    ASSUME NEW S, NEW s \in Seq(S), NEW f \in Nat \ {0}, NEW n \in 0..Len(s)
    PROVE  /\ SubSeq(s, f, n) \in Seq(S)
           /\ Len(SubSeq(s, f, n)) = IF f <= n THEN n - f + 1 ELSE 0
           /\ \A i \in 1..(n - f + 1) : SubSeq(s, f, n)[i] = s[f + i - 1]
<1>1. \A i \in f..n : s[i] \in S
  <2>1. ASSUME NEW i \in f..n PROVE i \in 1..Len(s)  OBVIOUS
  <2> QED  BY <2>1
<1> HIDE <1>1
<1>2. f \in Int /\ n \in Int  OBVIOUS
<1>3. /\ SubSeq(s, f, n) \in Seq(S)
      /\ Len(SubSeq(s, f, n)) = IF f <= n THEN n - f + 1 ELSE 0
      /\ \A i \in 1..(n - f + 1) : SubSeq(s, f, n)[i] = s[f + i - 1]
  BY <1>1, <1>2, SubSeqProperties
<1> QED  BY <1>3

(* The definitions of FloatParser for the characters f to n of s. *)
MantissaAt(s, f, n) ==
    /\ \A i \in f..n : s[i] \in Digit \cup {"."}
    /\ \E i \in f..n : s[i] \in Digit
    /\ \A i, j \in f..n : s[i] = "." /\ s[j] = "." => i = j

ExponentAt(s, f, n) ==
    \E first \in {f + 1, f + 2} :
        /\ first <= n
        /\ s[f] = "e"
        /\ first = f + 2 => s[f + 1] \in {"+", "-"}
        /\ \A i \in first..n : s[i] \in Digit

DecimalAt(s, f, n) ==
    \/ MantissaAt(s, f, n)
    \/ \E m \in f..n : MantissaAt(s, f, m) /\ ExponentAt(s, m + 1, n)

(* A set of numbers has at most one member if any two are the same one. *)
LEMMA AtMostOne ==
    ASSUME NEW n \in Nat, NEW T, T \subseteq 1..n
    PROVE  Cardinality(T) <= 1 <=> \A i, j \in T : i = j
<1>1. IsFiniteSet(T)
  <2>1. IsFiniteSet(1..n)  BY FS_Interval
  <2> QED  BY <2>1, FS_Subset
<1>2. Cardinality(T) \in Nat  BY <1>1, FS_CardinalityType
<1>3. CASE T = {}  BY <1>3, FS_EmptySet
<1>4. CASE T # {}
  <2>1. Cardinality(T) # 0  BY <1>1, <1>4, FS_EmptySet
  <2>2. Cardinality(T) = 1 <=> \E x : T = {x}  BY <1>1, FS_Singleton
  <2>3. ASSUME NEW x, T = {x} PROVE \A i, j \in T : i = j  BY <2>3
  <2>4. ASSUME \A i, j \in T : i = j PROVE \E x : T = {x}
    <3>1. PICK x \in T : TRUE  BY <1>4
    <3>2. T = {x}  BY <2>4, <3>1
    <3> QED  BY <3>2
  <2>5. Cardinality(T) <= 1 <=> Cardinality(T) = 1  BY <1>2, <2>1
  <2> QED  BY <2>2, <2>3, <2>4, <2>5
<1> QED  BY <1>3, <1>4

LEMMA MantissaOfPart ==
    ASSUME NEW s \in Seq(Char), NEW f \in Nat \ {0}, NEW n \in 0..Len(s)
    PROVE  Mantissa(SubSeq(s, f, n)) <=> MantissaAt(s, f, n)
<1> DEFINE u == SubSeq(s, f, n)
           T == {i \in DOMAIN u : u[i] = "."}
<1>1. /\ u \in Seq(Char) /\ Len(u) = IF f <= n THEN n - f + 1 ELSE 0
      /\ \A i \in 1..(n - f + 1) : u[i] = s[f + i - 1]
  BY SubSeqIs
<1>2. DOMAIN u = 1..Len(u) /\ Len(u) \in Nat  BY <1>1
<1>3. f \in Int /\ n \in Int  OBVIOUS
<1>4. Mantissa(u) <=>
        /\ \A i \in DOMAIN u : u[i] \in Digit \cup {"."}
        /\ \E i \in DOMAIN u : u[i] \in Digit
        /\ \A i, j \in T : i = j
  <2>1. Cardinality(T) <= 1 <=> \A i, j \in T : i = j
    BY <1>2, AtMostOne
  <2> QED  BY <2>1 DEF Mantissa
<1> HIDE DEF u
<1>5. \A i \in 1..Len(u) : (f + i - 1) \in f..n /\ u[i] = s[f + i - 1]  BY <1>1, <1>2, <1>3
<1>6. \A i \in f..n : (i - f + 1) \in 1..Len(u) /\ u[i - f + 1] = s[i]
  <2>1. ASSUME NEW i \in f..n PROVE (i - f + 1) \in 1..Len(u) /\ u[i - f + 1] = s[i]
    <3>1. (i - f + 1) \in 1..Len(u) /\ f + (i - f + 1) - 1 = i  BY <1>1, <1>3
    <3> QED  BY <1>5, <3>1
  <2> QED  BY <2>1
<1>7. (\A i \in DOMAIN u : u[i] \in Digit \cup {"."}) <=> \A i \in f..n : s[i] \in Digit \cup {"."}
  BY <1>2, <1>5, <1>6
<1>8. (\E i \in DOMAIN u : u[i] \in Digit) <=> \E i \in f..n : s[i] \in Digit
  BY <1>2, <1>5, <1>6
<1>9. (\A i, j \in T : i = j) <=> \A i, j \in f..n : s[i] = "." /\ s[j] = "." => i = j
  <2>1. ASSUME \A i, j \in T : i = j, NEW i \in f..n, NEW j \in f..n, s[i] = ".", s[j] = "."
        PROVE  i = j
    <3>1. (i - f + 1) \in T /\ (j - f + 1) \in T  BY <1>2, <1>6, <2>1
    <3>2. i - f + 1 = j - f + 1  BY <2>1, <3>1
    <3> QED  BY <1>3, <3>2
  <2>2. ASSUME \A i, j \in f..n : s[i] = "." /\ s[j] = "." => i = j, NEW i \in T, NEW j \in T
        PROVE  i = j
    <3>1. i \in 1..Len(u) /\ j \in 1..Len(u) /\ u[i] = "." /\ u[j] = "."  BY <1>2
    <3>2. f + i - 1 = f + j - 1  BY <1>5, <2>2, <3>1
    <3> QED  BY <1>2, <1>3, <3>1, <3>2
  <2> QED  BY <2>1, <2>2
<1> QED  BY <1>4, <1>7, <1>8, <1>9 DEF MantissaAt, u

LEMMA ExponentOfPart ==
    ASSUME NEW s \in Seq(Char), NEW f \in Nat \ {0}, NEW n \in 0..Len(s)
    PROVE  Exponent(SubSeq(s, f, n)) <=> ExponentAt(s, f, n)
<1> DEFINE u == SubSeq(s, f, n)
           Ends(k) == /\ k <= Len(u)
                      /\ u[1] = "e"
                      /\ k = 3 => u[2] \in {"+", "-"}
                      /\ \A i \in k..Len(u) : u[i] \in Digit
           EndsAt(k) == /\ k <= n
                        /\ s[f] = "e"
                        /\ k = f + 2 => s[f + 1] \in {"+", "-"}
                        /\ \A i \in k..n : s[i] \in Digit
<1>1. /\ u \in Seq(Char) /\ Len(u) = IF f <= n THEN n - f + 1 ELSE 0
      /\ \A i \in 1..(n - f + 1) : u[i] = s[f + i - 1]
  BY SubSeqIs
<1>2. Len(u) \in Nat /\ f \in Int /\ n \in Int  BY <1>1
<1>3. Exponent(u) <=> Ends(2) \/ Ends(3)
  <2>1. 2..3 = {2, 3}  OBVIOUS
  <2> QED  BY <2>1 DEF Exponent
<1>4. ExponentAt(s, f, n) <=> EndsAt(f + 1) \/ EndsAt(f + 2)  BY DEF ExponentAt
<1> HIDE DEF u
<1>5. ASSUME NEW k \in {2, 3} PROVE Ends(k) <=> EndsAt(f + k - 1)
  <2>1. k <= Len(u) <=> f + k - 1 <= n  BY <1>1, <1>2
  <2>2. ASSUME k <= Len(u) PROVE Ends(k) <=> EndsAt(f + k - 1)
    <3>1. u[1] = s[f] /\ (k = 3 => u[2] = s[f + 1]) /\ (k = 3 <=> f + k - 1 = f + 2)
      <4>1. f + 1 - 1 = f /\ f + 2 - 1 = f + 1  BY <1>2
      <4>2. 1 \in 1..(n - f + 1) /\ (k = 3 => 2 \in 1..(n - f + 1))  BY <1>1, <1>2, <2>2
      <4>3. u[1] = s[f]  BY <1>1, <4>1, <4>2
      <4>4. k = 3 => u[2] = s[f + 1]  BY <1>1, <4>1, <4>2
      <4>5. k = 3 <=> f + k - 1 = f + 2  BY <1>2
      <4> QED  BY <4>3, <4>4, <4>5
    <3>2. \A i \in k..Len(u) : (f + i - 1) \in (f + k - 1)..n /\ u[i] = s[f + i - 1]
      BY <1>1, <1>2, <2>2
    <3>3. \A i \in (f + k - 1)..n : (i - f + 1) \in k..Len(u) /\ u[i - f + 1] = s[i]
      <4>1. ASSUME NEW i \in (f + k - 1)..n
            PROVE (i - f + 1) \in k..Len(u) /\ u[i - f + 1] = s[i]
        <5>1. (i - f + 1) \in k..Len(u) /\ f + (i - f + 1) - 1 = i  BY <1>1, <1>2, <2>2
        <5> QED  BY <3>2, <5>1
      <4> QED  BY <4>1
    <3>4. (\A i \in k..Len(u) : u[i] \in Digit) <=> \A i \in (f + k - 1)..n : s[i] \in Digit
      BY <3>2, <3>3
    <3> QED  BY <2>1, <2>2, <3>1, <3>4
  <2> QED  BY <2>1, <2>2
<1>6. Ends(2) <=> EndsAt(f + 1)
  <2>1. f + 2 - 1 = f + 1  BY <1>2
  <2> QED  BY <1>5, <2>1
<1>7. Ends(3) <=> EndsAt(f + 2)
  <2>1. f + 3 - 1 = f + 2  BY <1>2
  <2> QED  BY <1>5, <2>1
<1> QED  BY <1>3, <1>4, <1>6, <1>7 DEF u

LEMMA DecimalOfPart ==
    ASSUME NEW s \in Seq(Char), NEW f \in Nat \ {0}, NEW n \in 0..Len(s)
    PROVE  Decimal(SubSeq(s, f, n)) <=> DecimalAt(s, f, n)
<1> DEFINE u == SubSeq(s, f, n)
<1>1. /\ u \in Seq(Char) /\ Len(u) = IF f <= n THEN n - f + 1 ELSE 0
  BY SubSeqIs
<1>2. DOMAIN u = 1..Len(u) /\ Len(u) \in Nat /\ f \in Int /\ n \in Int  BY <1>1
<1>3. Mantissa(u) <=> MantissaAt(s, f, n)  BY MantissaOfPart
<1>4. ASSUME NEW k \in 1..Len(u)
      PROVE  /\ Mantissa(SubSeq(u, 1, k)) <=> MantissaAt(s, f, f + k - 1)
             /\ Exponent(SubSeq(u, k + 1, Len(u))) <=> ExponentAt(s, f + k - 1 + 1, n)
  <2>1. /\ f \in 1..Len(s) /\ n \in 1..Len(s) /\ 1 \in 1..(n - f + 1) /\ k \in 1..(n - f + 1)
        /\ f + k - 1 \in 0..Len(s) /\ f + k \in Nat \ {0} /\ f + k - 1 + 1 = f + k
        /\ f + 1 - 1 = f /\ f + (k + 1) - 1 = f + k /\ f + Len(u) - 1 = n
    BY <1>1, <1>2
  <2>2. SubSeq(u, 1, k) = SubSeq(s, f, f + k - 1)
    <3>1. SubSeq(u, 1, k) = SubSeq(s, f + 1 - 1, f + k - 1)
      BY <2>1, SubSeqOfSubSeq DEF u
    <3> QED  BY <2>1, <3>1
  <2>3. SubSeq(u, k + 1, Len(u)) = SubSeq(s, f + k, n)
    <3>1. CASE k = Len(u)
      <4>1. SubSeq(u, k + 1, Len(u)) = <<>>
        BY <1>2, <3>1, SubSeqEmpty
      <4>2. n < f + k  BY <1>1, <1>2, <3>1
      <4>3. SubSeq(s, f + k, n) = <<>>
        BY <1>2, <4>2, SubSeqEmpty
      <4> QED  BY <4>1, <4>3
    <3>2. CASE k # Len(u)
      <4>1. (k + 1) \in 1..(n - f + 1) /\ Len(u) \in 1..(n - f + 1)  BY <1>1, <1>2, <3>2
      <4>2. SubSeq(u, k + 1, Len(u)) = SubSeq(s, f + (k + 1) - 1, f + Len(u) - 1)
        BY <2>1, <4>1, SubSeqOfSubSeq DEF u
      <4> QED  BY <2>1, <4>2
    <3> QED  BY <3>1, <3>2
  <2>4. Mantissa(SubSeq(s, f, f + k - 1)) <=> MantissaAt(s, f, f + k - 1)
    BY <2>1, MantissaOfPart
  <2>5. Exponent(SubSeq(s, f + k, n)) <=> ExponentAt(s, f + k, n)
    BY <2>1, ExponentOfPart
  <2> QED  BY <2>1, <2>2, <2>3, <2>4, <2>5
<1> HIDE DEF u
<1>5. (\E k \in DOMAIN u : Mantissa(SubSeq(u, 1, k)) /\ Exponent(SubSeq(u, k + 1, Len(u))))
      <=> \E m \in f..n : MantissaAt(s, f, m) /\ ExponentAt(s, m + 1, n)
  <2>1. \A k \in 1..Len(u) : f + k - 1 \in f..n  BY <1>1, <1>2
  <2>2. \A m \in f..n : (m - f + 1) \in 1..Len(u) /\ f + (m - f + 1) - 1 = m  BY <1>1, <1>2
  <2>3. ASSUME NEW m \in f..n, MantissaAt(s, f, m) /\ ExponentAt(s, m + 1, n)
        PROVE  \E k \in DOMAIN u : Mantissa(SubSeq(u, 1, k)) /\ Exponent(SubSeq(u, k + 1, Len(u)))
    <3> DEFINE k == m - f + 1
    <3>1. k \in 1..Len(u) /\ f + k - 1 = m  BY <2>2
    <3> HIDE DEF k
    <3>2. Mantissa(SubSeq(u, 1, k)) /\ Exponent(SubSeq(u, k + 1, Len(u)))
      BY <1>4, <2>3, <3>1
    <3> QED  BY <1>2, <3>1, <3>2
  <2>4. ASSUME NEW k \in DOMAIN u,
               Mantissa(SubSeq(u, 1, k)) /\ Exponent(SubSeq(u, k + 1, Len(u)))
        PROVE  \E m \in f..n : MantissaAt(s, f, m) /\ ExponentAt(s, m + 1, n)
    <3> DEFINE m == f + k - 1
    <3>1. k \in 1..Len(u)  BY <1>2
    <3>2. m \in f..n  BY <2>1, <3>1
    <3>3. MantissaAt(s, f, m) /\ ExponentAt(s, m + 1, n)
      BY <1>4, <2>4, <3>1
    <3> HIDE DEF m
    <3> QED  BY <3>2, <3>3
  <2> QED  BY <2>3, <2>4
<1>6. Decimal(u) <=>
        \/ Mantissa(u)
        \/ \E k \in DOMAIN u : Mantissa(SubSeq(u, 1, k)) /\ Exponent(SubSeq(u, k + 1, Len(u)))
  BY DEF Decimal
<1> QED  BY <1>3, <1>5, <1>6 DEF DecimalAt, u

LEMMA DecimalChars ==
    ASSUME NEW s, NEW f \in Nat, NEW n \in Nat, DecimalAt(s, f, n)
    PROVE  f <= n /\ \A i \in f..n : s[i] \in NumChar
<1>1. CASE MantissaAt(s, f, n)
  BY <1>1 DEF MantissaAt, NumChar, Digit
<1>2. ASSUME NEW m \in f..n, MantissaAt(s, f, m), ExponentAt(s, m + 1, n)
      PROVE  f <= n /\ \A i \in f..n : s[i] \in NumChar
  <2>1. \A i \in f..m : s[i] \in NumChar  BY <1>2 DEF MantissaAt, NumChar
  <2>2. \A i \in (m + 1)..n : s[i] \in NumChar
    <3>1. PICK first \in {m + 1 + 1, m + 1 + 2} :
             /\ first <= n
             /\ s[m + 1] = "e"
             /\ first = m + 1 + 2 => s[m + 1 + 1] \in {"+", "-"}
             /\ \A i \in first..n : s[i] \in Digit
      BY <1>2 DEF ExponentAt
    <3>2. ASSUME NEW i \in (m + 1)..n
          PROVE  \/ i = m + 1
                 \/ i = m + 1 + 1 /\ first = m + 1 + 2
                 \/ i \in first..n
      BY <3>1
    <3> QED  BY <3>1, <3>2 DEF NumChar
  <2> QED  BY <2>1, <2>2
<1> QED  BY <1>1, <1>2 DEF DecimalAt

(* Past a numeral that is part of a longer one, either its exponent begins  *)
(* or it goes on with a single character.                                   *)
LEMMA DecimalGrows ==
    ASSUME NEW s, NEW f \in Nat, NEW n \in Nat, NEW m \in Nat, n < m,
           DecimalAt(s, f, n), DecimalAt(s, f, m), s[n + 1] # "e"
    PROVE  DecimalAt(s, f, n + 1)
<1>1. CASE MantissaAt(s, f, n)
  <2>1. CASE MantissaAt(s, f, m)
    <3>1. MantissaAt(s, f, n + 1)  BY <1>1, <2>1 DEF MantissaAt
    <3> QED  BY <3>1 DEF DecimalAt
  <2>2. ASSUME NEW k \in f..m, MantissaAt(s, f, k), ExponentAt(s, k + 1, m)
        PROVE  DecimalAt(s, f, n + 1)
    <3>1. s[k + 1] = "e"  BY <2>2 DEF ExponentAt
    <3>2. ~ (k + 1 \in f..n)  BY <1>1, <3>1 DEF MantissaAt, Digit
    <3>3. n + 1 <= k  BY <3>1, <3>2
    <3>4. MantissaAt(s, f, n + 1)  BY <1>1, <2>2, <3>3 DEF MantissaAt
    <3> QED  BY <3>4 DEF DecimalAt
  <2> QED  BY <2>1, <2>2 DEF DecimalAt
<1>2. ASSUME NEW k \in f..n, MantissaAt(s, f, k), ExponentAt(s, k + 1, n)
      PROVE  DecimalAt(s, f, n + 1)
  <2>1. PICK a \in {k + 1 + 1, k + 1 + 2} :
           /\ a <= n
           /\ s[k + 1] = "e"
           /\ a = k + 1 + 2 => s[k + 1 + 1] \in {"+", "-"}
           /\ \A i \in a..n : s[i] \in Digit
    BY <1>2 DEF ExponentAt
  <2>2. ~ MantissaAt(s, f, m)
    <3>1. k + 1 \in f..m  BY <2>1
    <3> QED  BY <2>1, <3>1 DEF MantissaAt, Digit
  <2>3. PICK l \in f..m : MantissaAt(s, f, l) /\ ExponentAt(s, l + 1, m)
    BY <2>2 DEF DecimalAt
  <2>4. PICK b \in {l + 1 + 1, l + 1 + 2} :
           /\ b <= m
           /\ s[l + 1] = "e"
           /\ b = l + 1 + 2 => s[l + 1 + 1] \in {"+", "-"}
           /\ \A i \in b..m : s[i] \in Digit
    BY <2>3 DEF ExponentAt
  <2>5. k = l
    <3>1. ~ (k + 1 \in f..l)  BY <2>1, <2>3 DEF MantissaAt, Digit
    <3>2. ~ (l + 1 \in f..k)  BY <1>2, <2>4 DEF MantissaAt, Digit
    <3> QED  BY <3>1, <3>2
  <2>6. s[n + 1] \in Digit
    <3>1. n + 1 \in b..m  BY <2>1, <2>4, <2>5
    <3> QED  BY <2>4, <3>1
  <2>7. \A i \in a..(n + 1) : s[i] \in Digit
    <3>1. \A i \in a..(n + 1) : i \in a..n \/ i = n + 1  BY <2>1
    <3> QED  BY <2>1, <2>6, <3>1
  <2>8. ExponentAt(s, k + 1, n + 1)
    <3>1. a <= n + 1  BY <2>1
    <3> QED  BY <2>1, <2>7, <3>1 DEF ExponentAt
  <2>9. k \in f..(n + 1)  OBVIOUS
  <2> QED  BY <1>2, <2>8, <2>9 DEF DecimalAt
<1> QED  BY <1>1, <1>2 DEF DecimalAt

----------------------------------------------------------------------------
(* What Leading chooses: the first character not of kind is the next one. *)
LEMMA LeadingIs ==
    ASSUME NEW s \in Seq(Char), NEW kind
    PROVE  /\ Leading(kind, s) \in 0..Len(s)
           /\ \A i \in 1..Leading(kind, s) : s[i] \in kind
           /\ Leading(kind, s) = Len(s) \/ s[Leading(kind, s) + 1] \notin kind
<1> DEFINE T == {n \in 0..Len(s) : n = Len(s) \/ s[n + 1] \notin kind}
           Stops(n) == (\A i \in 1..n : s[i] \in kind) /\ (n = Len(s) \/ s[n + 1] \notin kind)
<1>1. Len(s) \in Nat /\ Len(s) \in T /\ T \subseteq Nat  OBVIOUS
<1>2. PICK n \in T : \A k \in T : n <= k
  <2> HIDE DEF T
  <2> QED  BY <1>1, LeastMember
<1>3. n \in 0..Len(s) /\ Stops(n)
  <2>1. ASSUME NEW i \in 1..n PROVE s[i] \in kind
    <3>1. i - 1 \in 0..Len(s) /\ i - 1 + 1 = i /\ ~ (n <= i - 1)  BY <1>1, <1>2
    <3>2. i - 1 \notin T  BY <1>2, <3>1
    <3> QED  BY <3>1, <3>2
  <2> QED  BY <1>2, <2>1
<1>4. Leading(kind, s) = CHOOSE k \in 0..Len(s) : Stops(k)  BY DEF Leading
<1> HIDE DEF Stops
<1>5. Leading(kind, s) \in 0..Len(s) /\ Stops(Leading(kind, s))  BY <1>3, <1>4
<1> QED  BY <1>5 DEF Stops

LEMMA CharKinds ==
    /\ "x" \notin NumChar /\ "nan" \notin NumChar
    /\ \A c \in Separator : c \notin NumChar /\ c \notin {"x", "nan", "0", "e"}
BY DEF NumChar, Digit, Separator

LEMMA UnsignedChars ==
    ASSUME NEW u \in Seq(Char), Unsigned(u)
    PROVE  /\ 1 \in 1..Len(u)
           /\ \A i \in 1..Len(u) : u[i] \notin Separator
           /\ (\A i \in 1..Len(u) : u[i] \in NumChar) => Decimal(u)
<1>1. CASE Decimal(u)
  <2>1. SubSeq(u, 1, Len(u)) = u  BY WholeIsItself
  <2>2. Len(u) \in 0..Len(u) /\ 1 \in Nat \ {0} /\ 1 \in Nat /\ Len(u) \in Nat  OBVIOUS
  <2>3. DecimalAt(u, 1, Len(u))  BY <1>1, <2>1, <2>2, DecimalOfPart
  <2>4. 1 <= Len(u) /\ \A i \in 1..Len(u) : u[i] \in NumChar
    BY <2>2, <2>3, DecimalChars
  <2>5. \A i \in 1..Len(u) : u[i] \notin Separator  BY <2>4, CharKinds
  <2>6. 1 \in 1..Len(u)  BY <2>2, <2>4
  <2> QED  BY <1>1, <2>5, <2>6
<1>2. CASE Hexadecimal(u)
  <2>1. Len(u) > 2 /\ u[2] = "x" /\ u[1] = "0" /\ \A i \in 3..Len(u) : u[i] \in {"0", "e"}
    BY <1>2 DEF Hexadecimal, Digit
  <2>2. 1 \in 1..Len(u) /\ 2 \in 1..Len(u)  BY <2>1
  <2>3. \A i \in 1..Len(u) : i = 1 \/ i = 2 \/ i \in 3..Len(u)  OBVIOUS
  <2>4. \A i \in 1..Len(u) : u[i] \in {"x", "0", "e"}  BY <2>1, <2>3
  <2>5. \A i \in 1..Len(u) : u[i] \notin Separator  BY <2>4, CharKinds
  <2>6. u[2] \notin NumChar  BY <2>1, CharKinds
  <2> QED  BY <2>2, <2>5, <2>6
<1>3. CASE u = <<"nan">>
  <2>1. Len(u) = 1 /\ u[1] = "nan"  BY <1>3
  <2>2. 1 \in 1..Len(u) /\ \A i \in 1..Len(u) : u[i] = "nan"
    <3>1. \A i \in 1..Len(u) : i = 1  BY <2>1
    <3>2. 1 \in 1..Len(u)  BY <2>1
    <3> QED  BY <2>1, <3>1, <3>2
  <2>3. \A i \in 1..Len(u) : u[i] \notin Separator  BY <2>2, CharKinds
  <2>4. u[1] \notin NumChar  BY <2>2, CharKinds
  <2> QED  BY <2>2, <2>3, <2>4
<1> QED  BY <1>1, <1>2, <1>3 DEF Unsigned

(* Where the digits are, after a sign. *)
First(s) == IF s[1] \in {"+", "-"} THEN 2 ELSE 1

LEMMA StrtoIs ==
    ASSUME NEW s \in Seq(Char), s # <<>>, s[1] # "blank"
    PROVE  /\ Strto(s) \in 0..Len(s)
           /\ Strto(s) # 0 =>
                Strto(s) \in First(s)..Len(s) /\ Unsigned(SubSeq(s, First(s), Strto(s)))
           /\ \A n \in First(s)..Len(s) :
                Unsigned(SubSeq(s, First(s), n)) => n <= Strto(s)
<1> DEFINE ends == {n \in First(s)..Len(s) : Unsigned(SubSeq(s, First(s), n))}
           Final(n) == \A m \in ends : m <= n
<1>1. Len(s) \in Nat /\ Len(s) > 0 /\ First(s) \in {1, 2}  BY DEF First
<1>2. Leading({"blank"}, s) = 0
  <2> DEFINE l == Leading({"blank"}, s)
  <2>1. l \in 0..Len(s) /\ \A i \in 1..l : s[i] \in {"blank"}  BY LeadingIs
  <2> HIDE DEF l
  <2>2. ~ (1 \in 1..l)  BY <2>1
  <2>3. l = 0  BY <1>1, <2>1, <2>2
  <2> QED  BY <2>3 DEF l
<1>3. Strto(s) = IF ends = {} THEN 0 ELSE CHOOSE n \in ends : Final(n)
  <2> DEFINE blanks == Leading({"blank"}, s)
             signed == blanks < Len(s) /\ s[blanks + 1] \in {"+", "-"}
             first == IF signed THEN blanks + 2 ELSE blanks + 1
             found == {n \in first..Len(s) : Unsigned(SubSeq(s, first, n))}
  <2>1. Strto(s) = IF found = {} THEN 0 ELSE CHOOSE n \in found : \A m \in found : m <= n
    BY DEF Strto
  <2>2. first = First(s)
    <3>1. blanks = 0  BY <1>2
    <3> HIDE DEF blanks
    <3> QED  BY <1>1, <3>1 DEF First
  <2> HIDE DEF first
  <2> QED  BY <2>1, <2>2
<1>4. CASE ends = {}
  <2>1. Strto(s) = 0  BY <1>3, <1>4
  <2> QED  BY <1>1, <1>4, <2>1
<1>5. CASE ends # {}
  <2>1. ends \subseteq 1..Len(s)  BY <1>1
  <2>2. \E n \in ends : Final(n)
    <3> HIDE DEF ends
    <3> QED  BY <1>1, <1>5, <2>1, GreatestMember
  <2>3. Strto(s) \in ends /\ Final(Strto(s))
    <3> HIDE DEF ends, Final
    <3> QED  BY <1>3, <1>5, <2>2
  <2>4. Strto(s) \in 1..Len(s)  BY <2>1, <2>3
  <2> QED  BY <2>3, <2>4
<1> QED  BY <1>4, <1>5

LEMMA NumeralOfPart ==
    ASSUME NEW s \in Seq(Char), NEW n \in 0..Len(s)
    PROVE  Numeral(SubSeq(s, 1, n)) <=> n # 0 /\ DecimalAt(s, First(s), n)
<1> DEFINE u == SubSeq(s, 1, n)
<1>1. u \in Seq(Char) /\ Len(u) = n /\ \A i \in 1..n : u[i] = s[i]
  <2>1. 1 \in Nat \ {0} /\ n - 1 + 1 = n  OBVIOUS
  <2>2. /\ u \in Seq(Char) /\ Len(u) = IF 1 <= n THEN n - 1 + 1 ELSE 0
        /\ \A i \in 1..(n - 1 + 1) : u[i] = s[1 + i - 1]
    BY <2>1, SubSeqIs
  <2>3. \A i \in 1..n : 1 + i - 1 = i  OBVIOUS
  <2> HIDE DEF u
  <2> QED  BY <2>1, <2>2, <2>3
<1>2. CASE n = 0
  <2>1. u = <<>>  BY <1>1, <1>2
  <2> HIDE DEF u
  <2>2. ~ Numeral(u)  BY <2>1 DEF Numeral
  <2> QED  BY <1>2, <2>2 DEF u
<1>3. CASE n # 0
  <2>1. u # <<>> /\ u[1] = s[1]  BY <1>1, <1>3
  <2>2. 1 \in 1..Len(s) /\ n \in 1..Len(s) /\ First(s) \in Nat \ {0}  BY <1>3 DEF First
  <2>3. Tail(u) = SubSeq(s, 2, n)
    <3>1. Tail(u) = SubSeq(s, 1 + 1, n)  BY <2>2, HeadTailOfSubSeq
    <3> QED  BY <3>1
  <2>4. Decimal(SubSeq(s, First(s), n)) <=> DecimalAt(s, First(s), n)
    BY <2>2, DecimalOfPart
  <2> HIDE DEF u
  <2>5. Numeral(u) <=> Decimal(IF s[1] \in {"+", "-"} THEN Tail(u) ELSE u)
    BY <2>1 DEF Numeral
  <2>6. Numeral(u) <=> Decimal(SubSeq(s, First(s), n))
    BY <2>3, <2>5 DEF First, u
  <2> QED  BY <1>3, <2>4, <2>6 DEF u
<1> QED  BY <1>2, <1>3

LEMMA NumeralChars ==
    ASSUME NEW s \in Seq(Char), NEW n \in 0..Len(s), Numeral(SubSeq(s, 1, n))
    PROVE  n >= First(s) /\ \A i \in 1..n : s[i] \in NumChar
<1>1. n # 0 /\ DecimalAt(s, First(s), n)  BY NumeralOfPart
<1>2. First(s) \in Nat /\ n \in Nat  BY DEF First
<1>3. First(s) <= n /\ \A i \in First(s)..n : s[i] \in NumChar
  BY <1>1, <1>2, DecimalChars
<1>4. ASSUME NEW i \in 1..n PROVE s[i] \in NumChar
  <2>1. CASE i \in First(s)..n  BY <1>3, <2>1
  <2>2. CASE i \notin First(s)..n
    <3>1. i = 1 /\ First(s) = 2  BY <1>2, <2>2 DEF First
    <3> QED  BY <3>1 DEF First, NumChar
  <2> QED  BY <2>1, <2>2
<1> QED  BY <1>2, <1>3, <1>4

(* Strto takes at least every numeral the text begins with. *)
LEMMA StrtoTakesNumerals ==
    ASSUME NEW s \in Seq(Char), NEW n \in 0..Len(s), Numeral(SubSeq(s, 1, n))
    PROVE  s # <<>> /\ s[1] # "blank" /\ n <= Strto(s) /\ n # 0
<1>1. n # 0 /\ DecimalAt(s, First(s), n)  BY NumeralOfPart
<1>2. First(s) \in Nat \ {0} /\ n \in Nat  BY DEF First
<1>3. n >= First(s) /\ \A i \in 1..n : s[i] \in NumChar  BY NumeralChars
<1>4. 1 \in 1..n /\ s # <<>>  BY <1>1
<1>5. s[1] # "blank"  BY <1>3, <1>4 DEF NumChar, Digit
<1>6. Decimal(SubSeq(s, First(s), n))  BY <1>1, <1>2, DecimalOfPart
<1>7. n \in First(s)..Len(s)  BY <1>2, <1>3
<1> QED  BY <1>1, <1>4, <1>5, <1>6, <1>7, StrtoIs DEF Unsigned

(* If what it takes has characters of decimals only, it is a numeral. *)
LEMMA StrtoIsNumeral ==
    ASSUME NEW s \in Seq(Char), s # <<>>, s[1] # "blank", Strto(s) # 0,
           \A i \in 1..Strto(s) : s[i] \in NumChar
    PROVE  Strto(s) \in 1..Len(s) /\ Numeral(SubSeq(s, 1, Strto(s)))
<1> DEFINE n == Strto(s)
           u == SubSeq(s, First(s), n)
<1>1. n \in First(s)..Len(s) /\ Unsigned(u)  BY StrtoIs
<1>2. First(s) \in Nat \ {0} /\ First(s) \in {1, 2}  BY DEF First
<1> HIDE DEF n
<1>3. n \in 1..Len(s) /\ n \in 0..Len(s) /\ n \in Nat  BY <1>1, <1>2
<1>4. /\ u \in Seq(Char) /\ Len(u) = n - First(s) + 1
      /\ \A i \in 1..(n - First(s) + 1) : u[i] = s[First(s) + i - 1]
  BY <1>1, <1>2, <1>3, SubSeqIs
<1>5. \A i \in 1..Len(u) : u[i] \in NumChar
  <2> HIDE DEF u
  <2>1. ASSUME NEW i \in 1..Len(u) PROVE u[i] \in NumChar
    <3>1. i \in 1..(n - First(s) + 1) /\ First(s) + i - 1 \in 1..n
      BY <1>2, <1>3, <1>4
    <3> QED  BY <1>4, <3>1 DEF n
  <2> QED  BY <2>1
<1>6. Decimal(u)  BY <1>1, <1>4, <1>5, UnsignedChars
<1>7. DecimalAt(s, First(s), n)  BY <1>2, <1>3, <1>6, DecimalOfPart
<1>8. Numeral(SubSeq(s, 1, n))  BY <1>3, <1>7, NumeralOfPart
<1> QED  BY <1>3, <1>8 DEF n

(* And no numeral goes on after a separator. *)
LEMMA StrtoStopsAtSeparator ==
    ASSUME NEW s \in Seq(Char), NEW n \in 1..Len(s) - 1, Numeral(SubSeq(s, 1, n)),
           s[n + 1] \in Separator
    PROVE  Strto(s) = n
<1>1. s # <<>> /\ s[1] # "blank" /\ n <= Strto(s)  BY StrtoTakesNumerals
<1>2. n >= First(s) /\ First(s) \in {1, 2}  BY NumeralChars DEF First
<1> DEFINE e == Strto(s)
           u == SubSeq(s, First(s), e)
<1>3. e # 0  BY <1>1
<1>4. e \in First(s)..Len(s) /\ Unsigned(u)  BY <1>1, <1>3, StrtoIs
<1> HIDE DEF e
<1>5. SUFFICES ASSUME n < e PROVE FALSE
  BY <1>1, <1>2, <1>4 DEF e
<1>6. First(s) \in Nat \ {0} /\ e \in 0..Len(s)  BY <1>2, <1>4
<1>7. /\ u \in Seq(Char) /\ Len(u) = e - First(s) + 1
      /\ \A i \in 1..(e - First(s) + 1) : u[i] = s[First(s) + i - 1]
  BY <1>4, <1>6, SubSeqIs
<1> DEFINE i == n + 1 - First(s) + 1
<1>8. i \in 1..Len(u) /\ i \in 1..(e - First(s) + 1) /\ First(s) + i - 1 = n + 1
  BY <1>2, <1>4, <1>5, <1>7
<1>9. u[i] = s[First(s) + i - 1]  BY <1>7, <1>8
<1>10. u[i] = s[n + 1]  BY <1>8, <1>9
<1>11. u[i] \notin Separator
  <2> HIDE DEF i, u
  <2> QED  BY <1>4, <1>7, <1>8, UnsignedChars DEF u
<1> QED  BY <1>10, <1>11

LEMMA StrtoTyped ==
    ASSUME NEW s \in Seq(Char)
    PROVE  Strto(s) \in 0..Len(s)
<1> DEFINE blanks == Leading({"blank"}, s)
           signed == blanks < Len(s) /\ s[blanks + 1] \in {"+", "-"}
           first == IF signed THEN blanks + 2 ELSE blanks + 1
           found == {n \in first..Len(s) : Unsigned(SubSeq(s, first, n))}
           Final(n) == \A m \in found : m <= n
<1>1. blanks \in Nat /\ Len(s) \in Nat  BY LeadingIs
<1>2. Strto(s) = IF found = {} THEN 0 ELSE CHOOSE n \in found : Final(n)
  BY DEF Strto
<1> HIDE DEF blanks
<1>3. found \subseteq 1..Len(s)  BY <1>1
<1> HIDE DEF found
<1>4. ASSUME found = {} PROVE Strto(s) \in 0..Len(s)
  <2>1. Strto(s) = 0  BY <1>2, <1>4
  <2> QED  BY <1>1, <2>1
<1>5. ASSUME found # {} PROVE Strto(s) \in 0..Len(s)
  <2>1. \E n \in found : Final(n)  BY <1>1, <1>3, <1>5, GreatestMember
  <2> HIDE DEF Final
  <2>2. Strto(s) \in found  BY <1>2, <1>5, <2>1
  <2>3. Strto(s) \in 1..Len(s)  BY <1>3, <2>2
  <2> QED  BY <1>1, <2>3
<1> QED  BY <1>4, <1>5

LEMMA LeadingUnique ==
    ASSUME NEW s \in Seq(Char), NEW kind, NEW n \in 0..Len(s) - 1,
           \A i \in 1..n : s[i] \in kind, s[n + 1] \notin kind
    PROVE  Leading(kind, s) = n
<1> DEFINE l == Leading(kind, s)
<1>1. l \in 0..Len(s) /\ (\A i \in 1..l : s[i] \in kind) /\ (l = Len(s) \/ s[l + 1] \notin kind)
  BY LeadingIs
<1> HIDE DEF l
<1>2. ~ (n + 1 \in 1..l)  BY <1>1
<1>3. ~ (l + 1 \in 1..n)  BY <1>1
<1>4. l = n  BY <1>1, <1>2, <1>3
<1> QED  BY <1>4 DEF l

LEMMA PartOfFront ==
    ASSUME NEW S, NEW s \in Seq(S), NEW more \in Seq(S), NEW n \in 0..Len(s)
    PROVE  /\ SubSeq(s \o more, 1, n) = SubSeq(s, 1, n)
           /\ \A i \in 1..Len(s) : (s \o more)[i] = s[i]
           /\ s \o more \in Seq(S)
           /\ Len(s \o more) = Len(s) + Len(more)
<1>1. CASE n = 0  BY <1>1, SubSeqEmpty, ConcatProperties
<1>2. CASE n # 0
  <2>1. 1 \in 1..Len(s) /\ n \in 1..Len(s)  BY <1>2
  <2>2. SubSeq(s \o more, 1, n) = SubSeq(s, 1, n)  BY <2>1, SubSeqOfConcat1
  <2> QED  BY <2>2, ConcatProperties
<1> QED  BY <1>1, <1>2

LEMMA NumCharsAreChars ==
    ASSUME NEW s \in Seq(NumChar)
    PROVE  s \in Seq(Char)
<1>1. NumChar \subseteq Char  BY DEF NumChar, Char, Digit
<1> QED  BY <1>1

(* A numeral with no exponent to follow is the longest, whatever comes. *)
LEMMA NoLongerNumeral ==
    ASSUME NEW s \in Seq(Char), s # <<>>, s[1] # "blank", EndsHere(s), OnlyNumChars(s),
           NEW more \in Seq(Char), NEW n \in (Strto(s) + 1)..Len(s \o more)
    PROVE  ~ Numeral(SubSeq(s \o more, 1, n))
<1> DEFINE t == s \o more
           e == Strto(s)
<1>1. e # 0 /\ e # Len(s) /\ s[e + 1] # "e"  BY DEF EndsHere
<1>2. \A i \in 1..e : s[i] \in NumChar
  <2>1. /\ Leading(NumChar, s) \in 0..Len(s) /\ e \in 0..Len(s)
        /\ \A i \in 1..Leading(NumChar, s) : s[i] \in NumChar
    BY LeadingIs, StrtoTyped
  <2>2. e <= Leading(NumChar, s)  BY DEF OnlyNumChars
  <2> HIDE DEF e
  <2> QED  BY <2>1, <2>2
<1>3. e \in 1..Len(s) /\ Numeral(SubSeq(s, 1, e))  BY <1>1, <1>2, StrtoIsNumeral
<1>4. ~ Numeral(SubSeq(s, 1, e + 1))
  <2>1. e + 1 \in 0..Len(s) /\ ~ (e + 1 <= Strto(s))  BY <1>1, <1>3
  <2> HIDE DEF e
  <2> QED  BY <2>1, StrtoTakesNumerals
<1> HIDE DEF e
<1>5. /\ t \in Seq(Char) /\ Len(t) = Len(s) + Len(more)
      /\ SubSeq(t, 1, e) = SubSeq(s, 1, e)
      /\ SubSeq(t, 1, e + 1) = SubSeq(s, 1, e + 1)
      /\ t[e + 1] = s[e + 1]
  <2>1. e \in 0..Len(s) /\ e + 1 \in 0..Len(s) /\ e + 1 \in 1..Len(s)  BY <1>1, <1>3
  <2> QED  BY <2>1, PartOfFront
<1>6. n \in (e + 1)..Len(t)  BY DEF e
<1> HIDE DEF t
<1>7. SUFFICES ASSUME Numeral(SubSeq(t, 1, n)) PROVE FALSE
  BY DEF t
<1>8. e \in 0..Len(t) /\ e + 1 \in 0..Len(t) /\ n \in 0..Len(t) /\ First(t) \in Nat
  BY <1>1, <1>3, <1>5, <1>6 DEF First
<1>9. e # 0 /\ DecimalAt(t, First(t), e)  BY <1>3, <1>5, <1>8, NumeralOfPart
<1>10. n # 0 /\ DecimalAt(t, First(t), n)  BY <1>5, <1>7, <1>8, NumeralOfPart
<1>11. ~ DecimalAt(t, First(t), e + 1)
  <2>1. e + 1 # 0  BY <1>8
  <2> QED  BY <1>4, <1>5, <1>8, <2>1, NumeralOfPart
<1>12. n # e + 1  BY <1>10, <1>11
<1>13. e \in Nat /\ n \in Nat /\ e < n  BY <1>6, <1>8, <1>12
<1> QED  BY <1>1, <1>5, <1>8, <1>9, <1>10, <1>11, <1>13, DecimalGrows

(* Where a character that no decimal has was given, only what is before it *)
(* could be a numeral, and a separator would have to be next.              *)
LEMMA OnlyNumeral ==
    ASSUME NEW s \in Seq(Char), Leading(NumChar, s) # Len(s),
           NEW more \in Seq(Char), NEW n \in DOMAIN (s \o more),
           Numeral(SubSeq(s \o more, 1, n)),
           n < Len(s \o more) => (s \o more)[n + 1] \in Separator
    PROVE  n = Leading(NumChar, s) /\ n # 0 /\ s[n + 1] \in Separator /\ Numeral(SubSeq(s, 1, n)) /\ Strto(s) = n
<1> DEFINE t == s \o more
           l == Leading(NumChar, s)
<1>1. /\ l \in 0..Len(s) /\ (\A i \in 1..l : s[i] \in NumChar)
      /\ s[l + 1] \notin NumChar /\ Len(s) \in Nat
  BY LeadingIs
<1>2. /\ t \in Seq(Char) /\ Len(t) = Len(s) + Len(more) /\ Len(more) \in Nat
      /\ \A i \in 1..Len(s) : t[i] = s[i]
  BY PartOfFront, <1>1
<1>3. n \in 1..Len(t) /\ n \in 0..Len(t)  BY <1>2
<1> HIDE DEF t
<1>4. Numeral(SubSeq(t, 1, n)) /\ (n < Len(t) => t[n + 1] \in Separator)  BY DEF t
<1>5. \A i \in 1..n : t[i] \in NumChar  BY <1>2, <1>3, <1>4, NumeralChars
<1>6. n <= l
  <2>1. l + 1 \in 1..Len(s)  BY <1>1
  <2>2. t[l + 1] \notin NumChar  BY <1>1, <1>2, <2>1
  <2>3. ~ (l + 1 \in 1..n)  BY <1>5, <2>2
  <2> QED  BY <1>1, <1>3, <2>3
<1>7. n + 1 \in 1..Len(s) /\ n < Len(t)  BY <1>1, <1>2, <1>3, <1>6
<1>8. s[n + 1] \in Separator  BY <1>2, <1>4, <1>7
<1>9. n = l
  <2>1. s[n + 1] \notin NumChar  BY <1>8, CharKinds
  <2>2. ~ (n + 1 \in 1..l)  BY <1>1, <2>1
  <2> QED  BY <1>1, <1>3, <1>6, <2>2
<1>10. Numeral(SubSeq(s, 1, n))
  <2>1. n \in 0..Len(s)  BY <1>7
  <2>2. SubSeq(t, 1, n) = SubSeq(s, 1, n)  BY <2>1, PartOfFront DEF t
  <2> QED  BY <1>4, <2>2
<1>11. n \in 1..Len(s) - 1  BY <1>3, <1>7
<1>12. Strto(s) = n  BY <1>8, <1>10, <1>11, StrtoStopsAtSeparator
<1> QED  BY <1>3, <1>8, <1>9, <1>10, <1>12

(* All that the properties of FloatParser say after a call. *)
LEMMA DirectIsRight ==
    ASSUME NEW chunk \in Seq(Char), chunk # <<>>, Direct(chunk), given' = chunk,
           used = 0, buffer = <<>>
    PROVE  /\ NumeralIsText'
           /\ RefusesOnlyNonNumerals'
           /\ result' = "more" =>
                given' \in Seq(NumChar) /\ given' # <<>> /\ used' = Len(given')
<1> DEFINE e == Strto(chunk)
           l == Leading(NumChar, chunk)
<1>1. /\ l \in 0..Len(chunk) /\ (\A i \in 1..l : chunk[i] \in NumChar)
      /\ e \in 0..Len(chunk) /\ Len(chunk) \in Nat
  BY LeadingIs, StrtoTyped
<1>2. ASSUME NEW more \in BoundedSeq(NumChar, 1)
      PROVE  more \in Seq(Char)
  <2>1. more \in Seq(NumChar)  BY ChunksAreTyped
  <2> QED  BY <2>1, NumCharsAreChars
<1>3. CASE EndsHere(chunk) /\ OnlyNumChars(chunk)
  <2>1. /\ result' = "done" /\ used' = e
        /\ out' = SubSeq(chunk, 1, e)
    BY <1>1, <1>3 DEF Direct, Done, Converted
  <2>2. e # 0 /\ e <= l /\ chunk[1] # "blank"
    <3>1. e # 0 /\ e <= l  BY <1>3 DEF EndsHere, OnlyNumChars
    <3> HIDE DEF e, l
    <3>2. 1 \in 1..l  BY <1>1, <3>1
    <3> QED  BY <1>1, <3>1, <3>2, CharKinds DEF NumChar, Digit
  <2>3. Numeral(SubSeq(chunk, 1, e))
    <3>1. \A i \in 1..e : chunk[i] \in NumChar
      <4> HIDE DEF e, l
      <4> QED  BY <1>1, <2>2
    <3> QED  BY <2>2, <3>1, StrtoIsNumeral
  <2>4. ASSUME NEW more \in BoundedSeq(NumChar, 1), NEW n \in (e + 1)..Len(chunk \o more)
        PROVE  ~ Numeral(SubSeq(chunk \o more, 1, n))
    <3>1. more \in Seq(Char)  BY <1>2
    <3> QED  BY <1>3, <2>2, <3>1, NoLongerNumeral
  <2>5. NumeralIsText'
    <3> HIDE DEF e
    <3> QED  BY <2>1, <2>3, <2>4 DEF NumeralIsText
  <2> QED  BY <2>1, <2>5 DEF RefusesOnlyNonNumerals
<1>4. CASE EndsHere(chunk) /\ ~ OnlyNumChars(chunk)
  <2>1. result' = "failed"  BY <1>4 DEF Direct, Throw
  <2>2. l < e  BY <1>1, <1>4 DEF OnlyNumChars
  <2>3. ASSUME NEW more \in BoundedSeq(NumChar, 1), NEW n \in DOMAIN (chunk \o more),
               Numeral(SubSeq(chunk \o more, 1, n)),
               n < Len(chunk \o more) => (chunk \o more)[n + 1] \in Separator
        PROVE  FALSE
    <3>1. more \in Seq(Char)  BY <1>2
    <3>2. l # Len(chunk)
      <4> HIDE DEF l, e
      <4> QED  BY <1>1, <2>2
    <3>3. e = n /\ n = l  BY <2>3, <3>1, <3>2, OnlyNumeral
    <3> HIDE DEF l, e
    <3> QED  BY <1>1, <2>2, <3>3
  <2>4. RefusesOnlyNonNumerals'  BY <2>3 DEF RefusesOnlyNonNumerals
  <2> QED  BY <2>1, <2>4 DEF NumeralIsText
<1>5. CASE ~ EndsHere(chunk) /\ l = Len(chunk)
  <2>1. result' = "more" /\ used' = Len(given')  BY <1>5 DEF Direct, NeedsMore
  <2>2. chunk \in Seq(NumChar)
    <3> HIDE DEF l
    <3> QED  BY <1>1, <1>5
  <2> QED  BY <2>1, <2>2 DEF NumeralIsText, RefusesOnlyNonNumerals
<1>6. CASE ~ EndsHere(chunk) /\ l # Len(chunk)
  <2>1. result' = "failed"  BY <1>6 DEF Direct, Throw
  <2>2. ASSUME NEW more \in BoundedSeq(NumChar, 1), NEW n \in DOMAIN (chunk \o more),
               Numeral(SubSeq(chunk \o more, 1, n)),
               n < Len(chunk \o more) => (chunk \o more)[n + 1] \in Separator
        PROVE  FALSE
    <3>1. more \in Seq(Char)  BY <1>2
    <3>2. n = l /\ n # 0 /\ chunk[n + 1] \in Separator /\ e = n
      BY <1>6, <2>2, <3>1, OnlyNumeral
    <3>3. chunk[e + 1] # "e"
      <4> HIDE DEF e
      <4> QED  BY <3>2, CharKinds
    <3>4. e # 0 /\ e # Len(chunk)
      <4> HIDE DEF e, l
      <4> QED  BY <1>6, <3>2
    <3> QED  BY <1>6, <3>3, <3>4 DEF EndsHere
  <2>3. RefusesOnlyNonNumerals'  BY <2>2 DEF RefusesOnlyNonNumerals
  <2> QED  BY <2>1, <2>3 DEF NumeralIsText
<1> QED  BY <1>3, <1>4, <1>5, <1>6

(* An empty first chunk only marks the number as begun. *)
LEMMA NothingIsMore ==
    ASSUME Direct(<<>>)
    PROVE  NeedsMore
<1>1. <<>> \in Seq(Char) /\ Len(<<>>) = 0  OBVIOUS
<1>2. Strto(<<>>) = 0 /\ Leading(NumChar, <<>>) = 0
  <2>1. Strto(<<>>) \in 0..Len(<<>>)  BY <1>1, StrtoTyped
  <2>2. Leading(NumChar, <<>>) \in 0..Len(<<>>)  BY <1>1, LeadingIs
  <2> QED  BY <1>1, <2>1, <2>2
<1>3. ~EndsHere(<<>>)  BY <1>2 DEF EndsHere
<1> QED  BY <1>1, <1>2, <1>3 DEF Direct

LEMMA RestIsRight ==
    ASSUME NEW chunk \in Seq(Char), Rest(chunk), given \in Seq(NumChar),
           given # <<>> \/ emptyFirst, emptyFirst' = emptyFirst,
           given' = given \o chunk, used = Len(given), buffer = given
    PROVE  /\ NumeralIsText'
           /\ RefusesOnlyNonNumerals'
           /\ result' = "more" =>
                /\ given' \in Seq(NumChar) /\ used' = Len(given')
                /\ given' # <<>> \/ emptyFirst'
<1> DEFINE l == Leading(NumChar, chunk)
           part == SubSeq(chunk, 1, l)
           number == given \o part
           s == given \o chunk
           k == Len(given) + l
<1>1. /\ l \in 0..Len(chunk) /\ (\A i \in 1..l : chunk[i] \in NumChar) /\ Len(chunk) \in Nat
      /\ l = Len(chunk) \/ chunk[l + 1] \notin NumChar
  BY LeadingIs
<1>2. ASSUME NEW more \in BoundedSeq(NumChar, 1)
      PROVE  more \in Seq(Char)
  <2>1. more \in Seq(NumChar)  BY ChunksAreTyped
  <2> QED  BY <2>1, NumCharsAreChars
<1>3. /\ given \in Seq(Char) /\ Len(given) \in Nat
      /\ Len(given) = 0 => emptyFirst
      /\ \A i \in 1..Len(given) : given[i] \in NumChar
  BY NumCharsAreChars
<1> HIDE DEF l
<1>4. /\ part \in Seq(NumChar) /\ Len(part) = l
      /\ \A i \in 1..l : part[i] = chunk[i]
  <2>1. 1 \in Int /\ l \in Int /\ l - 1 + 1 = l /\ l \in Nat  BY <1>1
  <2>2. /\ part \in Seq(NumChar) /\ Len(part) = IF 1 <= l THEN l - 1 + 1 ELSE 0
        /\ \A i \in 1..(l - 1 + 1) : part[i] = chunk[1 + i - 1]
    BY <1>1, <2>1, SubSeqProperties
  <2>3. \A i \in 1..l : 1 + i - 1 = i  OBVIOUS
  <2> HIDE DEF part
  <2> QED  BY <2>1, <2>2, <2>3
<1> HIDE DEF part
<1>5. /\ number \in Seq(NumChar) /\ Len(number) = k
      /\ \A i \in 1..k : number[i] = IF i <= Len(given) THEN given[i] ELSE part[i - Len(given)]
  BY <1>4, ConcatProperties
<1>6. /\ s \in Seq(Char) /\ Len(s) = Len(given) + Len(chunk)
      /\ \A i \in 1..Len(s) : s[i] = IF i <= Len(given) THEN given[i] ELSE chunk[i - Len(given)]
  BY <1>3, ConcatProperties
<1> HIDE DEF number, s
<1>7. k \in 0..Len(s) /\ k \in Nat /\ (k = 0 => Len(given) = 0)
  BY <1>1, <1>3, <1>6
<1>8. ASSUME NEW i \in 1..k PROVE s[i] \in NumChar /\ s[i] = number[i]
  <2>1. i \in 1..Len(s)  BY <1>7
  <2>2. CASE i <= Len(given)
    <3>1. i \in 1..Len(given)  BY <2>2
    <3>2. s[i] = given[i] /\ number[i] = given[i]  BY <1>5, <1>6, <2>1, <2>2
    <3> QED  BY <1>3, <3>1, <3>2
  <2>3. CASE ~ (i <= Len(given))
    <3>1. i - Len(given) \in 1..l  BY <1>1, <1>3, <2>3
    <3>2. s[i] = chunk[i - Len(given)] /\ number[i] = part[i - Len(given)]
      BY <1>5, <1>6, <2>1, <2>3
    <3> QED  BY <1>1, <1>4, <3>1, <3>2
  <2> QED  BY <2>2, <2>3
<1>9. SubSeq(s, 1, k) = number
  <2> DEFINE u == SubSeq(s, 1, k)
  <2>1. /\ 1 \in Nat \ {0} /\ k - 1 + 1 = k /\ \A i \in 1..k : 1 + i - 1 = i
        /\ (IF 1 <= k THEN k - 1 + 1 ELSE 0) = k
    BY <1>7
  <2>2. /\ u \in Seq(Char) /\ Len(u) = IF 1 <= k THEN k - 1 + 1 ELSE 0
        /\ \A i \in 1..(k - 1 + 1) : u[i] = s[1 + i - 1]
    BY <1>6, <1>7, <2>1, SubSeqIs
  <2> HIDE DEF u, k
  <2>3. Len(u) = Len(number) /\ \A i \in 1..Len(u) : u[i] = number[i]
    BY <1>5, <1>8, <2>1, <2>2
  <2>4. number \in Seq(Char)  BY <1>5, NumCharsAreChars
  <2>5. u = number  BY <2>2, <2>3, <2>4, SeqEqual
  <2> QED  BY <2>5 DEF u
<1>10. CASE l = Len(chunk)
  <2>1. result' = "more" /\ used' = Len(given')  BY <1>10 DEF Rest, NeedsMore, l
  <2>2. k = Len(s)  BY <1>6, <1>10
  <2>3. number = s
    <3>1. SubSeq(s, 1, Len(s)) = s  BY <1>6, WholeIsItself
    <3> QED  BY <1>9, <2>2, <3>1
  <2>4. given' = s  BY DEF s
  <2>5. number # <<>> \/ emptyFirst'
    <3>1. number = <<>> => k = 0  BY <1>5
    <3> HIDE DEF k
    <3> QED  BY <1>3, <1>7, <3>1
  <2> QED  BY <1>5, <2>1, <2>3, <2>4, <2>5 DEF NumeralIsText, RefusesOnlyNonNumerals
<1>11. CASE l # Len(chunk)
  <2>1. /\ out' = Converted(number)
        /\ IF AllOfBuffer(number) THEN Done(l) ELSE Throw
    BY <1>11 DEF Rest, l, number, part
  <2>2. given' = s  BY DEF s
  <2>3. /\ k \in 0..Len(s) - 1 /\ k + 1 \in 1..Len(s)
        /\ s[k + 1] = chunk[l + 1] /\ s[k + 1] \notin NumChar
    <3>1. l + 1 \in 1..Len(chunk)  BY <1>1, <1>11
    <3>2. k \in 0..Len(s) - 1 /\ k + 1 \in 1..Len(s)  BY <1>1, <1>3, <1>6, <3>1
    <3>3. ~ (k + 1 <= Len(given)) /\ k + 1 - Len(given) = l + 1  BY <1>1, <1>3
    <3>4. s[k + 1] = chunk[l + 1]  BY <1>6, <3>2, <3>3
    <3> QED  BY <1>1, <1>11, <3>2, <3>4
  <2>4. CASE AllOfBuffer(number)
    <3>1. result' = "done" /\ used' = k /\ out' = number
      <4>1. result' = "done" /\ used' = used + l  BY <2>1, <2>4 DEF Done
      <4>2. out' = SubSeq(number, 1, Len(number))  BY <2>1, <2>4 DEF AllOfBuffer, Converted
      <4>3. SubSeq(number, 1, Len(number)) = number  BY <1>5, WholeIsItself
      <4> QED  BY <4>1, <4>2, <4>3
    <3>2. ASSUME k = 0 PROVE ZeroOfNothing'
      <4> HIDE DEF k
      <4>1. emptyFirst' /\ used' = 0  BY <1>3, <1>7, <3>1, <3>2
      <4>2. given'[1] \notin NumChar
        <5>1. k + 1 = 1  BY <3>2
        <5> QED  BY <2>2, <2>3, <5>1
      <4> QED  BY <4>1, <4>2 DEF ZeroOfNothing
    <3>5. ASSUME k # 0 PROVE Numeral(number)
      <4>1. number \in Seq(Char) /\ Strto(number) = k /\ k # 0
        BY <1>5, <1>7, <2>4, <3>5, NumCharsAreChars DEF AllOfBuffer
      <4>2. \A i \in 1..k : number[i] \in NumChar  BY <1>8
      <4>3. number # <<>> /\ number[1] # "blank"
        <5>1. 1 \in 1..k  BY <1>7, <3>5
        <5>2. number[1] \in NumChar  BY <4>2, <5>1
        <5>3. number[1] # "blank"  BY <5>2 DEF NumChar, Digit
        <5> QED  BY <1>5, <1>7, <3>5, <5>3
      <4> HIDE DEF k
      <4>4. Numeral(SubSeq(number, 1, Strto(number)))
        BY <4>1, <4>2, <4>3, StrtoIsNumeral
      <4>5. SubSeq(number, 1, Len(number)) = number  BY <1>5, WholeIsItself
      <4> QED  BY <1>5, <4>1, <4>4, <4>5
    <3>6. Numeral(number) \/ ZeroOfNothing'  BY <3>2, <3>5
    <3>3. ASSUME NEW more \in BoundedSeq(NumChar, 1), NEW n \in (k + 1)..Len(s \o more)
          PROVE  ~ Numeral(SubSeq(s \o more, 1, n))
      <4>1. more \in Seq(Char)  BY <1>2
      <4> DEFINE t == s \o more
      <4>2. t \in Seq(Char) /\ \A i \in 1..Len(s) : t[i] = s[i]
        BY <1>6, <1>7, <4>1, PartOfFront
      <4>3. t[k + 1] \notin NumChar  BY <2>3, <4>2
      <4> HIDE DEF t
      <4>4. n \in (k + 1)..Len(t)  BY <3>3 DEF t
      <4>5. n \in 0..Len(t) /\ k + 1 \in 1..n  BY <1>7, <4>2, <4>4
      <4> QED  BY <4>2, <4>3, <4>5, NumeralChars DEF t
    <3>4. NumeralIsText'
      <4> HIDE DEF k
      <4> QED  BY <1>9, <2>2, <3>1, <3>6, <3>3 DEF NumeralIsText
    <3> QED  BY <3>1, <3>4 DEF RefusesOnlyNonNumerals
  <2>5. CASE ~ AllOfBuffer(number)
    <3>1. result' = "failed"  BY <2>1, <2>5 DEF Throw
    <3>2. ASSUME NEW more \in BoundedSeq(NumChar, 1), NEW n \in DOMAIN (s \o more),
                 Numeral(SubSeq(s \o more, 1, n)),
                 n < Len(s \o more) => (s \o more)[n + 1] \in Separator
          PROVE  FALSE
      <4>1. more \in Seq(Char)  BY <1>2
      <4> HIDE DEF k
      <4>2. Leading(NumChar, s) = k
        <5>1. \A i \in 1..k : s[i] \in NumChar  BY <1>8
        <5> QED  BY <1>6, <2>3, <5>1, LeadingUnique
      <4>3. k # Len(s)  BY <2>3, <1>6
      <4>4. n = k /\ n # 0 /\ Numeral(SubSeq(s, 1, n))
        BY <1>6, <3>2, <4>1, <4>2, <4>3, OnlyNumeral
      <4>5. Numeral(number)  BY <1>9, <4>4
      <4>6. number \in Seq(Char) /\ Len(number) \in 0..Len(number)
        BY <1>5, NumCharsAreChars
      <4>7. Numeral(SubSeq(number, 1, Len(number)))  BY <4>5, <4>6, WholeIsItself
      <4>8. Len(number) <= Strto(number)  BY <4>6, <4>7, StrtoTakesNumerals
      <4>9. Strto(number) = Len(number)  BY <4>6, <4>8, StrtoTyped
      <4> QED  BY <2>5, <4>9 DEF AllOfBuffer
    <3>3. RefusesOnlyNonNumerals'  BY <2>2, <3>2 DEF RefusesOnlyNonNumerals
    <3> QED  BY <3>1, <3>3 DEF NumeralIsText
  <2> QED  BY <2>4, <2>5
<1> QED  BY <1>10, <1>11

----------------------------------------------------------------------------
(* A call of ParseFloat::Parse takes up the buffer as the last one left it. *)
LEMMA FloatKeepsInv ==
    ASSUME FloatInv, WordRests, wordText = <<>>, BufferIsUnfinishedValue, FloatStep,
           UNCHANGED wordVars, wordFrame # "failed"
    PROVE  /\ FloatInv'
           /\ BufferIsUnfinishedValue'
           /\ NumeralIsText'
           /\ RefusesOnlyNonNumerals'
<1>1. Words!UnfinishedWord = <<>> /\ Words!UnfinishedWord' = <<>>
  BY DEF Words!UnfinishedWord, wordVars
<1>2. ASSUME NEW chunk \in BoundedSeq(Char, MaxText - Len(given)), Parse(chunk)
      PROVE  /\ FloatInv'
             /\ BufferIsUnfinishedValue'
             /\ NumeralIsText'
             /\ RefusesOnlyNonNumerals'
  <2>1. chunk \in Seq(Char)
    <3>1. MaxText - Len(given) \in Int  BY TextAssumption DEF FloatInv
    <3> QED  BY <1>2, <3>1, ChunksAreTyped
  <2>2. given' = given \o chunk /\ given' \in Seq(Char)  BY <1>2, <2>1 DEF Parse, FloatInv
  <2>3. buffer = IF result = "more" THEN given ELSE <<>>
    BY <1>1, <1>2 DEF BufferIsUnfinishedValue, Parse
  <2> USE <1>1, <2>2 DEF FloatInv, BufferIsUnfinishedValue, NeedsMore, Done, Throw
  <2>4. CASE Direct(chunk)
    <3>1. /\ result = "idle" /\ given = <<>> /\ buffer = <<>> /\ used = 0
          /\ emptyFirst' = (chunk = <<>>)
      BY <1>2, <2>3, <2>4 DEF Direct, Parse
    <3>2. given' = chunk  BY <2>1, <3>1, WholeIsItself
    <3>3. /\ NumeralIsText' /\ RefusesOnlyNonNumerals'
          /\ result' = "more" =>
               /\ given' \in Seq(NumChar) /\ used' = Len(given')
               /\ given' # <<>> \/ emptyFirst'
      <4>1. CASE chunk # <<>>  BY <2>1, <2>4, <3>1, <3>2, <4>1, DirectIsRight
      <4>2. CASE chunk = <<>>
        <5>1. NeedsMore  BY <2>4, <4>2, NothingIsMore
        <5>2. result' = "more" /\ used' = Len(given') /\ given' = <<>> /\ emptyFirst'
          BY <3>1, <3>2, <4>2, <5>1
        <5>3. given' \in Seq(NumChar)  BY <5>2
        <5>4. NumeralIsText' /\ RefusesOnlyNonNumerals'
          BY <5>2 DEF NumeralIsText, RefusesOnlyNonNumerals
        <5> QED  BY <5>2, <5>3, <5>4
      <4> QED  BY <4>1, <4>2
    <3>4. Strto(chunk) \in Nat /\ Len(given') \in Nat  BY <2>1, StrtoTyped
    <3>5. used' \in Nat
      <4>1. used' = used \/ used' = Len(given') \/ used' = used + Strto(chunk)
        BY <2>4 DEF Direct
      <4> QED  BY <3>1, <3>4, <4>1
    <3>6. finished' \in BOOLEAN /\ result' \in {"more", "done", "failed"}
      BY <2>4 DEF Direct
    <3>7. FloatInv'
      <4>1. (result' = "more" => ~ finished') /\ (result' = "done" => finished')
        BY <2>4 DEF Direct
      <4>2. emptyFirst' \in BOOLEAN  BY <3>1
      <4> QED  BY <3>3, <3>5, <3>6, <4>1, <4>2
    <3>8. BufferIsUnfinishedValue'
      <4>1. CASE EndsHere(chunk)  BY <2>4, <3>1, <4>1 DEF Direct
      <4>2. CASE ~EndsHere(chunk) /\ Leading(NumChar, chunk) = Len(chunk)
        <5>1. buffer' = <<>> \o SubSeq(chunk, 1, Len(chunk)) /\ NeedsMore
          BY <2>4, <3>1, <4>2 DEF Direct
        <5>2. buffer' = chunk  BY <2>1, <5>1, WholeIsItself
        <5> QED  BY <3>2, <5>1, <5>2
      <4>3. CASE ~EndsHere(chunk) /\ Leading(NumChar, chunk) # Len(chunk)
        BY <2>4, <3>1, <4>3 DEF Direct
      <4> QED  BY <4>1, <4>2, <4>3
    <3> QED  BY <3>3, <3>7, <3>8
  <2>5. CASE Rest(chunk)
    <3>1. /\ result = "more" /\ buffer = given /\ used = Len(given)
          /\ given \in Seq(NumChar) /\ (given # <<>> \/ emptyFirst)
          /\ emptyFirst' = emptyFirst
      BY <1>2, <2>3, <2>5 DEF Rest, Parse
    <3>2. /\ NumeralIsText' /\ RefusesOnlyNonNumerals'
          /\ result' = "more" =>
               /\ given' \in Seq(NumChar) /\ used' = Len(given')
               /\ given' # <<>> \/ emptyFirst'
      BY <2>1, <2>5, <3>1, RestIsRight
    <3>3. /\ Leading(NumChar, chunk) \in Nat /\ Len(given') \in Nat /\ used \in Nat
      BY <2>1, <3>1, LeadingIs
    <3>4. used' \in Nat  BY <2>5, <3>3 DEF Rest
    <3>5. finished' \in BOOLEAN /\ result' \in {"more", "done", "failed"}
      BY <2>5 DEF Rest
    <3>6. FloatInv'
      <4>1. (result' = "more" => ~ finished') /\ (result' = "done" => finished')
        BY <2>5 DEF Rest
      <4>2. emptyFirst' \in BOOLEAN  BY <3>1
      <4> QED  BY <3>2, <3>4, <3>5, <4>1, <4>2
    <3>7. BufferIsUnfinishedValue'
      <4>1. CASE Leading(NumChar, chunk) = Len(chunk)
        <5>1. buffer' = given \o SubSeq(chunk, 1, Len(chunk)) /\ NeedsMore
          BY <2>5, <3>1, <4>1 DEF Rest
        <5>2. buffer' = given'  BY <2>1, <5>1, WholeIsItself
        <5> QED  BY <5>1, <5>2
      <4>2. CASE Leading(NumChar, chunk) # Len(chunk)
        BY <2>5, <3>1, <4>2 DEF Rest, ClearsBuffer
      <4> QED  BY <4>1, <4>2
    <3> QED  BY <3>2, <3>6, <3>7
  <2> QED  BY <1>2, <2>4, <2>5 DEF Parse
<1>3. CASE Again
  <2>1. <<>> \in Seq(Char)  OBVIOUS
  <2> QED
    BY <1>1, <1>3, <2>1 DEF Again, FloatInv, BufferIsUnfinishedValue, NumeralIsText,
       RefusesOnlyNonNumerals
<1> QED  BY <1>2, <1>3 DEF FloatStep

----------------------------------------------------------------------------
LEMMA TheWords ==
    /\ Words!True \in Seq(Words!Letter) /\ Len(Words!True) = 4
    /\ Words!True[1] = "t" /\ Words!True[4] = "e"
    /\ Words!False \in Seq(Words!Letter) /\ Len(Words!False) = 5
    /\ Words!False[1] = "f" /\ Words!False[5] = "e"
BY DEF Words!True, Words!False, Words!Letter

(* The next letter of the word makes a longer part of it, or the word. *)
LEMMA PartGrows ==
    ASSUME NEW word \in {Words!True, Words!False}, wordText \in Seq(Words!Letter),
           PartOf(word), NEW more, more = Append(wordText, word[Len(wordText) + 1])
    PROVE  /\ more \in Seq(Words!Letter)
           /\ Len(more) = Len(wordText) + 1
           /\ more[1] = wordText[1]
           /\ Words!Starts(more, word)
           /\ Len(more) = Len(word) => more = word
<1>1. word \in Seq(Words!Letter) /\ Len(word) \in Nat  BY TheWords
<1>2. Len(wordText) + 1 \in 1..Len(word)  BY <1>1 DEF PartOf
<1>3. more \in Seq(Words!Letter) /\ Len(more) = Len(wordText) + 1
  BY <1>1, <1>2
<1>4. \A i \in 1..Len(more) : more[i] = word[i]
  <2> SUFFICES ASSUME NEW i \in 1..Len(more)  PROVE more[i] = word[i]
    OBVIOUS
  <2>1. CASE i = Len(wordText) + 1  BY <1>2, <2>1
  <2>2. CASE i # Len(wordText) + 1
    <3>1. i \in 1..Len(wordText) /\ more[i] = wordText[i]  BY <1>3, <2>2
    <3> QED  BY <3>1 DEF PartOf, Words!Starts
  <2> QED  BY <2>1, <2>2
<1>5. more[1] = wordText[1]  BY <1>2 DEF PartOf
<1>6. Words!Starts(more, word)  BY <1>1, <1>2, <1>3, <1>4 DEF Words!Starts
<1>7. Len(more) = Len(word) => more = word  BY <1>1, <1>3, <1>4
<1> QED  BY <1>3, <1>5, <1>6, <1>7

(* A part of one word is none of the other, and with a wrong letter of none. *)
LEMMA PartIsOfOne ==
    ASSUME wordText \in Seq(Words!Letter), NEW c
    PROVE  /\ PartOf(Words!True) => wordText[1] = "t"
           /\ PartOf(Words!False) => wordText[1] = "f"
           /\ PartOf(Words!True) => ~Words!Starts(Append(wordText, c), Words!False)
           /\ PartOf(Words!False) => ~Words!Starts(Append(wordText, c), Words!True)
           /\ PartOf(Words!True) /\ c # Words!True[Len(wordText) + 1] =>
                ~Words!Starts(Append(wordText, c), Words!True)
           /\ PartOf(Words!False) /\ c # Words!False[Len(wordText) + 1] =>
                ~Words!Starts(Append(wordText, c), Words!False)
<1> DEFINE more == Append(wordText, c)
<1>1. /\ DOMAIN more = 1..(Len(wordText) + 1)
      /\ more[Len(wordText) + 1] = c
      /\ Len(wordText) >= 1 => more[1] = wordText[1]
  OBVIOUS
<1>2. Len(wordText) \in Nat /\ DOMAIN wordText = 1..Len(wordText)  OBVIOUS
<1> HIDE DEF more
<1>3. /\ PartOf(Words!True) => Len(wordText) >= 1 /\ wordText[1] = "t"
      /\ PartOf(Words!False) => Len(wordText) >= 1 /\ wordText[1] = "f"
  BY <1>2, TheWords DEF PartOf, Words!Starts
<1>4. /\ PartOf(Words!True) => ~Words!Starts(more, Words!False)
      /\ PartOf(Words!False) => ~Words!Starts(more, Words!True)
  BY <1>1, <1>2, <1>3, TheWords DEF Words!Starts
<1>5. ASSUME NEW word, c # word[Len(wordText) + 1]  PROVE ~Words!Starts(more, word)
  BY <1>1, <1>2, <1>5 DEF Words!Starts
<1> QED  BY <1>3, <1>4, <1>5 DEF more

----------------------------------------------------------------------------
(* A step of ParseBool: the buffer goes along with what was read. *)
LEMMA WordKeepsInv ==
    ASSUME WordInv, FloatInv, FloatRests, BufferIsUnfinishedValue,
           Words!BoolStep, UNCHANGED floatVars
    PROVE  /\ WordInv'
           /\ BufferIsUnfinishedValue'
           /\ RefusesOnlyNonWords'
<1> USE DEF Words!Unread, Words!EndOfChunk
<1>1. result = "idle" /\ result' = "idle"  BY DEF FloatRests, floatVars
<1>2. wordFrame \notin {"failed", "crashed"}
  BY DEF Words!BoolStep, Words!Parse, Words!Again, Words!Feed, Words!Start,
         Words!Resume, Words!Middle, Words!Last
<1>3. buffer = IF wordComplete THEN <<>> ELSE wordText
  BY <1>1, <1>2 DEF BufferIsUnfinishedValue, Words!UnfinishedWord
<1>4. BufferIsUnfinishedValue' <=>
        (wordFrame' # "failed" => buffer' = Words!UnfinishedWord')
  BY <1>1 DEF BufferIsUnfinishedValue
<1>5. /\ wordText \in Seq(Words!Letter)
      /\ wordFrame \in {"caller", "call", "word"}
      /\ wordFinished \in BOOLEAN /\ wordComplete \in BOOLEAN /\ wordOut \in BOOLEAN
      /\ wordEmptyFirst \in BOOLEAN
  BY <1>2 DEF WordInv
<1> USE DEF BegunOf
<1>6. CASE Words!Parse
  BY <1>3, <1>4, <1>5, <1>6 DEF Words!Parse, WordInv, PartOf, Words!Starts,
     Words!UnfinishedWord, RefusesOnlyNonWords, Words!RefusesOnlyNonWords, Words!Word,
     ValueIsWord, Words!ValueIsWord
<1>7. CASE Words!Again
  <2>1. wordFinished /\ buffer = <<>>  BY <1>3, <1>7 DEF Words!Again, WordInv
  <2>2. <<>> \in Seq(Words!Letter)  OBVIOUS
  <2> QED
    BY <1>4, <1>5, <1>7, <2>1, <2>2 DEF Words!Again, WordInv, Words!UnfinishedWord,
       RefusesOnlyNonWords, Words!RefusesOnlyNonWords, ValueIsWord, Words!ValueIsWord
<1>8. ASSUME NEW c \in Words!Char \cup {Words!EndOfChunk}, Words!Feed(c)
      PROVE  WordInv' /\ BufferIsUnfinishedValue' /\ RefusesOnlyNonWords'
  BY <1>3, <1>4, <1>5, <1>8 DEF Words!Feed, WordInv, PartOf, Words!Starts,
     Words!UnfinishedWord, RefusesOnlyNonWords, Words!RefusesOnlyNonWords, Words!Word,
     ValueIsWord, Words!ValueIsWord
<1>9. CASE Words!Start
  <2>1. /\ wordText = <<>> /\ ~wordComplete /\ buffer = <<>>
        /\ wordEmptyFirst' = (wordLook = Words!EndOfChunk)
    BY <1>3, <1>9 DEF Words!Start, WordInv
  <2>4. CASE wordLook = Words!EndOfChunk
    <3>1. Words!NeedsMore /\ wordOut' = wordOut
      BY <1>9, <2>4 DEF Words!Start, Words!Char, Words!Letter, Words!Other
    <3>2. <<>> \in Seq(Words!Letter)  OBVIOUS
    <3> QED
      BY <1>4, <1>5, <2>1, <2>4, <3>1, <3>2 DEF Words!NeedsMore, WordInv,
         Words!UnfinishedWord, RefusesOnlyNonWords, Words!RefusesOnlyNonWords
  <2>2. CASE wordLook \in {"t", "f"}
    <3>1. /\ wordOut' = (wordLook = "t") /\ wordFrame' = "word"
          /\ Words!Push /\ Words!Read
          /\ UNCHANGED <<wordFinished, wordComplete>>
      BY <1>9, <2>1, <2>2 DEF Words!Start
    <3>2. /\ buffer' = wordText' /\ wordText' \in Seq(Words!Letter)
          /\ Len(wordText') = 1 /\ wordText'[1] = wordLook
      <4>1. <<>> \in Seq(Words!Letter) /\ wordLook \in Words!Letter
        BY <2>2 DEF Words!Letter
      <4> QED  BY <2>1, <3>1, <4>1 DEF Words!Push, Words!Read
    <3>3. PartOf(Words!Word)'
      <4>1. CASE wordLook = "t"
        <5>1. Words!Word' = Words!True  BY <3>1, <4>1 DEF Words!Word
        <5>2. Words!Starts(wordText', Words!True)
          BY <3>2, <4>1, TheWords DEF Words!Starts
        <5> QED  BY <3>2, <5>1, <5>2, TheWords DEF PartOf
      <4>2. CASE wordLook = "f"
        <5>1. Words!Word' = Words!False  BY <3>1, <4>2 DEF Words!Word
        <5>2. Words!Starts(wordText', Words!False)
          BY <3>2, <4>2, TheWords DEF Words!Starts
        <5> QED  BY <3>2, <5>1, <5>2, TheWords DEF PartOf
      <4> QED  BY <2>2, <4>1, <4>2
    <3>4. wordEmptyFirst' = FALSE  BY <2>1, <2>2
    <3> QED
      BY <1>4, <1>5, <2>1, <3>1, <3>2, <3>3, <3>4 DEF WordInv, Words!UnfinishedWord,
         RefusesOnlyNonWords, Words!RefusesOnlyNonWords
  <2>3. CASE wordLook \in Words!Char \ {"t", "f"}
    <3>1. /\ Words!Throw /\ wordOut' = wordOut
          /\ wordEmptyFirst' = FALSE
      BY <1>9, <2>3, <2>1 DEF Words!Start, Words!Char, Words!Letter, Words!Other
    <3>2. Append(<<>>, wordLook)[1] = wordLook /\ Len(Append(<<>>, wordLook)) = 1
      OBVIOUS
    <3>3. /\ ~Words!Starts(Append(<<>>, wordLook), Words!True)
          /\ ~Words!Starts(Append(<<>>, wordLook), Words!False)
      BY <2>3, <3>2, TheWords DEF Words!Starts
    <3> QED
      BY <1>4, <1>5, <2>1, <3>1, <3>3 DEF WordInv, Words!Throw, RefusesOnlyNonWords,
         Words!RefusesOnlyNonWords
  <2> QED  BY <1>9, <2>1, <2>2, <2>3, <2>4 DEF Words!Start
<1>10. CASE Words!Resume
  <2>1. ~wordComplete /\ ~wordFinished /\ buffer = wordText
    BY <1>3, <1>10 DEF Words!Resume, WordInv
  <2>2. /\ wordFrame' \in {"word", "crashed"} /\ wordOut' \in BOOLEAN
        /\ UNCHANGED <<wordFinished, buffer, wordComplete, wordText, wordEmptyFirst>>
    BY <1>10 DEF Words!Resume
  <2>3. BegunOf(Words!Word)'
    <3>1. CASE wordEmptyFirst
      BY <1>10, <2>1, <2>2, <3>1 DEF Words!Resume, WordInv
    <3>2. CASE ~wordEmptyFirst
      <4>1. PartOf(IF wordText[1] = "t" THEN Words!True ELSE Words!False)
        BY <1>10, <2>1, <3>2 DEF Words!Resume, WordInv
      <4>2. wordText # <<>>  BY <1>5, <4>1 DEF PartOf
      <4>3. wordOut' = (wordText[1] = "t")  BY <1>10, <2>1, <4>2 DEF Words!Resume
      <4>4. PartOf(Words!Word)'
        BY <2>2, <4>1, <4>3 DEF PartOf, Words!Starts, Words!Word
      <4> QED  BY <2>2, <3>2, <4>4
    <3> QED  BY <1>5, <3>1, <3>2
  <2> HIDE DEF BegunOf
  <2> QED
    BY <1>4, <1>5, <2>1, <2>2, <2>3 DEF WordInv, Words!UnfinishedWord,
       RefusesOnlyNonWords, Words!RefusesOnlyNonWords
<1>12. CASE (Words!Middle \/ Words!Last) /\ wordEmptyFirst
  <2>1. /\ wordFrame = "word" /\ wordOut' = wordOut /\ wordEmptyFirst' = wordEmptyFirst
        /\ wordLook # Words!Unread
    BY <1>12 DEF Words!Middle, Words!Last
  <2>2. ~wordComplete /\ buffer = <<>> /\ wordText = <<>>
    BY <1>3, <1>12, <2>1 DEF WordInv
  <2>3. \/ Words!NeedsMore
        \/ Words!Throw /\ wordLook # "e"
        \/ wordLook = "e" /\ Words!Done
    BY <1>12, <2>2 DEF Words!Middle, Words!Last
  <2>4. CASE Words!NeedsMore
    BY <1>4, <1>5, <1>12, <2>1, <2>2, <2>4 DEF Words!NeedsMore, WordInv,
       Words!UnfinishedWord, RefusesOnlyNonWords, Words!RefusesOnlyNonWords
  <2>5. CASE Words!Throw /\ wordLook # "e"
    BY <1>4, <1>5, <1>12, <2>1, <2>2, <2>5 DEF Words!Throw, WordInv,
       RefusesOnlyNonWords, Words!RefusesOnlyNonWords
  <2>6. CASE wordLook = "e" /\ Words!Done
    <3>1. wordText' = <<"e">>  BY <2>2, <2>6 DEF Words!Done, Words!Read
    <3>2. <<"e">> \in Seq(Words!Letter)  BY DEF Words!Letter
    <3> QED
      BY <1>4, <1>5, <1>12, <2>1, <2>6, <3>1, <3>2 DEF Words!Done, WordInv,
         Words!ClearsBuffer, Words!UnfinishedWord, RefusesOnlyNonWords,
         Words!RefusesOnlyNonWords, ValueIsWord, Words!ValueIsWord
  <2> QED  BY <2>3, <2>4, <2>5, <2>6
<1>11. CASE (Words!Middle \/ Words!Last) /\ ~wordEmptyFirst
  <2> DEFINE n == Len(wordText)
             more == Append(wordText, wordLook)
  <2>1. /\ wordFrame = "word" /\ wordOut' = wordOut /\ wordLook # Words!Unread
        /\ wordEmptyFirst' = wordEmptyFirst /\ ~wordEmptyFirst /\ ~wordEmptyFirst'
    BY <1>11 DEF Words!Middle, Words!Last
  <2>2. ~wordComplete /\ buffer = wordText /\ PartOf(Words!Word)
    BY <1>3, <2>1 DEF WordInv
  <2>3. /\ Words!Word \in {Words!True, Words!False} /\ Words!Word' = Words!Word
        /\ n \in 1..(Len(Words!Word) - 1)
        /\ Len(Words!Word) = IF wordOut THEN 4 ELSE 5
    BY <2>1, <2>2, TheWords DEF Words!Word, PartOf
  <2>4. CASE Words!NeedsMore
    <3>1. PartOf(IF wordText[1] = "t" THEN Words!True ELSE Words!False)
      BY <1>5, <2>2, PartIsOfOne DEF Words!Word
    <3>2. PartOf(IF wordText[1] = "t" THEN Words!True ELSE Words!False)'
      BY <2>4, <3>1 DEF PartOf, Words!Starts, Words!NeedsMore
    <3>3. BegunOf(IF wordText[1] = "t" THEN Words!True ELSE Words!False)'
      BY <2>1, <3>2
    <3> HIDE DEF BegunOf
    <3> QED
      BY <1>4, <1>5, <2>1, <2>2, <2>4, <3>3 DEF Words!NeedsMore, WordInv,
         Words!UnfinishedWord, RefusesOnlyNonWords, Words!RefusesOnlyNonWords
  <2>5. CASE Words!Throw /\ wordLook # Words!Word[n + 1]
    <3>1. ~Words!Starts(more, Words!True) /\ ~Words!Starts(more, Words!False)
      BY <1>5, <2>2, <2>5, PartIsOfOne DEF Words!Word
    <3> HIDE DEF BegunOf
    <3> QED
      BY <1>4, <1>5, <2>1, <2>2, <2>5, <3>1 DEF Words!Throw, WordInv,
         RefusesOnlyNonWords, Words!RefusesOnlyNonWords
  <2>6. CASE /\ wordLook = Words!Word[n + 1]
             /\ Words!Done
             /\ n + 1 = Len(Words!Word)
    <3>1. more = Words!Word  BY <1>5, <2>2, <2>3, <2>6, PartGrows
    <3>2. Words!Word \in Seq(Words!Letter)  BY <2>3, TheWords
    <3>3. wordText' = Words!Word'  BY <2>3, <2>6, <3>1 DEF Words!Done, Words!Read
    <3> HIDE DEF BegunOf
    <3> QED
      BY <1>4, <1>5, <2>1, <2>3, <2>6, <3>2, <3>3 DEF Words!Done, Words!Read, WordInv,
         Words!ClearsBuffer, Words!UnfinishedWord, RefusesOnlyNonWords,
         Words!RefusesOnlyNonWords, ValueIsWord, Words!ValueIsWord
  <2>7. CASE /\ wordLook = Words!Word[n + 1]
             /\ Words!Push /\ Words!Read
             /\ n + 1 < Len(Words!Word)
             /\ UNCHANGED <<wordFrame, wordFinished, wordComplete>>
    <3>1. wordText' = more /\ buffer' = more  BY <2>2, <2>7 DEF Words!Push, Words!Read
    <3>2. /\ more \in Seq(Words!Letter) /\ Len(more) = n + 1
          /\ Words!Starts(more, Words!Word)
      BY <1>5, <2>2, <2>3, <2>7, PartGrows
    <3>3. PartOf(Words!Word)'
      BY <2>3, <2>7, <3>1, <3>2 DEF PartOf, Words!Starts
    <3>4. BegunOf(Words!Word)'  BY <2>1, <3>3
    <3> HIDE DEF BegunOf
    <3> QED
      BY <1>4, <1>5, <2>1, <2>2, <2>7, <3>1, <3>2, <3>4 DEF WordInv,
         Words!UnfinishedWord, RefusesOnlyNonWords, Words!RefusesOnlyNonWords
  <2>8. CASE Words!Middle
    <3>1. n \in 1..3  BY <2>2, <2>8 DEF Words!Middle
    <3>2. \/ Words!NeedsMore
          \/ Words!Throw /\ wordLook # Words!Word[n + 1]
          \/ /\ wordLook = Words!Word[n + 1]
             /\ IF n = 3 /\ wordOut THEN Words!Done
                ELSE /\ Words!Push /\ Words!Read
                     /\ UNCHANGED <<wordFrame, wordFinished, wordComplete>>
      BY <2>2, <2>8 DEF Words!Middle
    <3>3. CASE n = 3 /\ wordOut
      <4>1. n + 1 = Len(Words!Word)  BY <2>3, <3>3
      <4> QED  BY <2>4, <2>5, <2>6, <3>2, <3>3, <4>1
    <3>4. CASE ~(n = 3 /\ wordOut)
      <4>1. n + 1 < Len(Words!Word)
        <5>1. CASE wordOut
          <6>1. Len(Words!Word) = 4 /\ n \in 1..3 /\ n # 3  BY <2>3, <3>1, <3>4, <5>1
          <6> HIDE DEF n
          <6> QED  BY <6>1
        <5>2. CASE ~wordOut
          <6>1. Len(Words!Word) = 5 /\ n \in 1..3  BY <2>3, <3>1, <5>2
          <6> HIDE DEF n
          <6> QED  BY <6>1
        <5> QED  BY <5>1, <5>2
      <4> QED  BY <2>4, <2>5, <2>7, <3>2, <3>4, <4>1
    <3> QED  BY <3>3, <3>4
  <2>9. CASE Words!Last
    <3>1. n = 4 /\ ~wordOut
      <4>1. n \notin 1..3  BY <2>2, <2>9 DEF Words!Last
      <4>2. n \in Nat /\ n >= 1 /\ n <= IF wordOut THEN 3 ELSE 4  BY <1>5, <2>3
      <4> HIDE DEF n
      <4> QED  BY <1>5, <4>1, <4>2
    <3>2. Words!Word[n + 1] = "e"  BY <3>1, TheWords DEF Words!Word
    <3>3. \/ Words!NeedsMore
          \/ Words!Throw /\ wordLook # "e"
          \/ wordLook = "e" /\ Words!Done
      BY <2>9 DEF Words!Last
    <3>4. n + 1 = Len(Words!Word)  BY <2>3, <3>1
    <3> QED  BY <2>4, <2>5, <2>6, <3>2, <3>3, <3>4
  <2> QED  BY <1>11, <2>8, <2>9
<1> QED
  BY <1>5, <1>6, <1>7, <1>8, <1>9, <1>10, <1>11, <1>12 DEF Words!BoolStep

----------------------------------------------------------------------------
(* ParserPool.hpp:8 and ValueParser: one parser at a time holds the buffer,  *)
(* its flag tells that it does, and its part of a word is in it.            *)
THEOREM Invariance == Spec => []IInv
<1>1. PoolInit => IInv
  <2> SUFFICES ASSUME PoolInit PROVE IInv
    OBVIOUS
  <2>1. <<>> \in Seq(Char) /\ <<>> \in Seq(Words!Letter)  OBVIOUS
  <2>2. FloatInv /\ FloatRests /\ NumeralIsText /\ RefusesOnlyNonNumerals
    BY <2>1 DEF PoolInit, Init, FloatInv, FloatRests, NumeralIsText, RefusesOnlyNonNumerals
  <2>3. WordInv
    BY <2>1 DEF PoolInit, Words!Init, WordInv, ValueIsWord, Words!ValueIsWord
  <2>4. BufferIsUnfinishedValue /\ RefusesOnlyNonWords
    BY DEF PoolInit, Init, Words!Init, BufferIsUnfinishedValue, Words!UnfinishedWord,
       RefusesOnlyNonWords, Words!RefusesOnlyNonWords
  <2> QED  BY <2>2, <2>3, <2>4 DEF IInv
<1>2. IInv /\ [Next]_vars => IInv'
  <2> SUFFICES ASSUME IInv, [Next]_vars  PROVE IInv'
    OBVIOUS
  <2>1. CASE WordRests /\ FloatStep /\ UNCHANGED wordVars
    <3>1. wordText = <<>> /\ wordFrame = "caller"  BY <2>1 DEF IInv, WordInv, WordRests
    <3>2. FloatInv' /\ BufferIsUnfinishedValue' /\ NumeralIsText' /\ RefusesOnlyNonNumerals'
      BY <2>1, <3>1, FloatKeepsInv DEF IInv
    <3>3. WordInv' /\ WordRests' /\ RefusesOnlyNonWords'
      BY <2>1 DEF IInv, WordInv, WordRests, RefusesOnlyNonWords, Words!RefusesOnlyNonWords,
         wordVars, BegunOf, PartOf, Words!Starts, Words!Word, ValueIsWord,
         Words!ValueIsWord
    <3> QED  BY <3>2, <3>3 DEF IInv
  <2>2. CASE FloatRests /\ Words!BoolStep /\ UNCHANGED floatVars
    <3>1. WordInv' /\ BufferIsUnfinishedValue' /\ RefusesOnlyNonWords'
      BY <2>2, WordKeepsInv DEF IInv
    <3>2. FloatInv' /\ FloatRests' /\ NumeralIsText' /\ RefusesOnlyNonNumerals'
      BY <2>2 DEF IInv, FloatInv, FloatRests, floatVars, NumeralIsText,
         RefusesOnlyNonNumerals, ZeroOfNothing
    <3> QED  BY <3>1, <3>2 DEF IInv
  <2>3. CASE Drop
    <3>1. <<>> \in Seq(Char) /\ <<>> \in Seq(Words!Letter)  OBVIOUS
    <3> QED
      BY <2>3, <3>1 DEF Drop, New, Words!New, IInv, FloatInv, WordInv, FloatRests, WordRests,
         BufferIsUnfinishedValue, Words!UnfinishedWord, RefusesOnlyNonWords,
         Words!RefusesOnlyNonWords, NumeralIsText, RefusesOnlyNonNumerals
  <2>4. CASE UNCHANGED vars
    BY <2>4 DEF vars, floatVars, wordVars, IInv, FloatInv, WordInv, FloatRests, WordRests,
       BufferIsUnfinishedValue, Words!UnfinishedWord, RefusesOnlyNonWords,
       Words!RefusesOnlyNonWords, BegunOf, PartOf, Words!Starts, Words!Word,
       ValueIsWord, Words!ValueIsWord, NumeralIsText, RefusesOnlyNonNumerals, ZeroOfNothing
  <2> QED  BY <2>1, <2>2, <2>3, <2>4 DEF Next
<1> QED  BY <1>1, <1>2, PTL DEF Spec

(* ParserPool.hpp:8: whichever parser a value went through, the one after   *)
(* it finds an empty buffer, and an unfinished value all that was read.     *)
THEOREM BufferIsOwned == Spec => []BufferIsUnfinishedValue
<1>1. IInv => BufferIsUnfinishedValue  BY DEF IInv
<1> QED  BY <1>1, Invariance, PTL

(* ParseFloat::Parse gives a value only for a whole decimal numeral, or, in *)
(* front of none, for an empty first chunk: of no length is there a numeral, *)
(* or a split of one, that it ends too early.                               *)
THEOREM NumeralsAreRead == Spec => []NumeralIsText
<1>1. IInv => NumeralIsText  BY DEF IInv
<1> QED  BY <1>1, Invariance, PTL

(* ParseFloat::Parse throws only where no numeral and separator began the   *)
(* text, wherever its chunks end.                                           *)
THEOREM OnlyNonNumeralsRefused == Spec => []RefusesOnlyNonNumerals
<1>1. IInv => RefusesOnlyNonNumerals  BY DEF IInv
<1> QED  BY <1>1, Invariance, PTL

(* ParseBool::Parse gives a Bool for its word only, however it was split,   *)
(* but for an e that follows an empty first chunk.                          *)
THEOREM WordsAreRead == Spec => []ValueIsWord
<1>1. IInv => ValueIsWord
  BY DEF IInv, WordInv, ValueIsWord, Words!ValueIsWord
<1> QED  BY <1>1, Invariance, PTL

(* ParseBool::Parse throws only where neither true nor false can follow.    *)
THEOREM OnlyNonWordsRefused == Spec => []RefusesOnlyNonWords
<1>1. IInv => RefusesOnlyNonWords  BY DEF IInv
<1> QED  BY <1>1, Invariance, PTL
=============================================================================
