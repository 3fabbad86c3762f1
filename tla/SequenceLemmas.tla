---------------------------- MODULE SequenceLemmas ----------------------------
(***************************************************************************)
(* Facts about sequences that the proofs of several components need, and   *)
(* what FlattenSeq, a recursive function, computes for every sequence.     *)
(***************************************************************************)
EXTENDS Naturals, Sequences, SequencesExt, SequenceTheorems, WellFoundedInduction, TLAPS

(* Every set of natural numbers has a least member. *)
LEMMA LeastMember ==
    ASSUME NEW T, T \subseteq Nat, T # {}
    PROVE  \E m \in T : \A k \in T : m <= k
<1>1. PICK m \in T : \A k \in T : <<k, m>> \notin OpToRel(<, Nat)
  BY WFMin, NatLessThanWellFounded, Zenon
<1>2. ASSUME NEW k \in T PROVE ~(k < m)
  <2>1. k < m => <<k, m>> \in OpToRel(<, Nat)  BY Zenon DEF OpToRel
  <2> QED  BY <1>1, <2>1
<1> QED  BY <1>2

(* And a greatest one, if it is bounded. *)
LEMMA GreatestMember ==
    ASSUME NEW n \in Nat, NEW T, T \subseteq 1..n, T # {}
    PROVE  \E m \in T : \A k \in T : k <= m
<1> DEFINE U == {m \in Nat : \A k \in T : k <= m}
<1>1. U \subseteq Nat /\ U # {}
  <2>1. n \in U  OBVIOUS
  <2> QED  BY <2>1
<1>2. PICK m \in U : \A k \in U : m <= k
  <2> HIDE DEF U
  <2> QED  BY <1>1, LeastMember
<1>3. m \in T
  <2> SUFFICES ASSUME m \notin T PROVE FALSE
    OBVIOUS
  <2>0. PICK t \in T : TRUE  OBVIOUS
  <2>1. m \in Nat /\ \A k \in T : k \in Nat /\ k >= 1 /\ k <= m /\ k # m  OBVIOUS
  <2>2. m - 1 \in Nat /\ \A k \in T : k <= m - 1  BY <2>0, <2>1
  <2>3. m - 1 \in U  BY <2>2
  <2> QED  BY <1>2, <2>3
<1> QED  BY <1>3

(* What FlattenSeq joins, one sequence after the other. *)
Joined(ss, f) == f = [i \in 1..Len(ss) |-> IF i = 1 THEN ss[i] ELSE f[i - 1] \o ss[i]]

LEMMA JoinedExists ==
    ASSUME NEW S, NEW ss \in Seq(Seq(S)), ss # <<>>
    PROVE  \E f : Joined(ss, f)
<1> DEFINE Upto(k, f) == f = [i \in 1..k |-> IF i = 1 THEN ss[i] ELSE f[i - 1] \o ss[i]]
           Bad == {k \in 1..Len(ss) : ~ \E f : Upto(k, f)}
<1>1. Upto(1, [i \in 1..1 |-> ss[1]])  OBVIOUS
<1>2. ASSUME NEW m \in 1..Len(ss), m # 1, NEW f, Upto(m - 1, f)
      PROVE  \E g : Upto(m, g)
  <2> DEFINE g == [i \in 1..m |-> IF i = m THEN f[m - 1] \o ss[m] ELSE f[i]]
  <2>3. \A i \in 1..(m - 1) : f[i] = IF i = 1 THEN ss[i] ELSE f[i - 1] \o ss[i]
    BY <1>2
  <2>4. \A i \in 1..m : g[i] = IF i = 1 THEN ss[i] ELSE g[i - 1] \o ss[i]
    <3> TAKE i \in 1..m
    <3>1. CASE i = m
      <4>1. m \in 1..m /\ m - 1 \in 1..m /\ m - 1 # m  BY <1>2
      <4>2. g[m] = f[m - 1] \o ss[m]  BY <4>1
      <4>3. g[m - 1] = f[m - 1]  BY <4>1
      <4> QED  BY <3>1, <4>2, <4>3, <1>2
    <3>2. CASE i # m
      <4>1. i \in 1..(m - 1) /\ (i # 1 => i - 1 \in 1..(m - 1) /\ i - 1 # m)  BY <3>2
      <4>2. g[i] = f[i] /\ (i # 1 => g[i - 1] = f[i - 1])  BY <3>2, <4>1
      <4> QED  BY <2>3, <4>1, <4>2
    <3> QED  BY <3>1, <3>2
  <2>5. Upto(m, g)  BY <2>4
  <2> QED  BY <2>5
<1>3. (\E f : Upto(Len(ss), f)) => \E f : Joined(ss, f)  BY DEF Joined
<1> HIDE DEF Upto
<1>4. Bad = {}
  <2> SUFFICES ASSUME Bad # {} PROVE FALSE
    OBVIOUS
  <2>1. Bad \subseteq Nat  OBVIOUS
  <2> HIDE DEF Bad
  <2>2. PICK m \in Bad : \A k \in Bad : m <= k  BY <2>1, LeastMember
  <2> USE DEF Bad
  <2>3. m # 1  BY <1>1, <2>2
  <2>4. m \in 1..Len(ss) /\ m - 1 \in 1..Len(ss) /\ ~(m <= m - 1)  BY <2>3
  <2>5. m - 1 \notin Bad  BY <2>2, <2>4
  <2>6. PICK f : Upto(m - 1, f)  BY <2>4, <2>5
  <2> QED  BY <1>2, <2>3, <2>6
<1>5. Len(ss) \in 1..Len(ss)  OBVIOUS
<1> QED  BY <1>3, <1>4, <1>5

LEMMA FlattenJoined ==
    ASSUME NEW S, NEW ss \in Seq(Seq(S)), ss # <<>>
    PROVE  \E f : Joined(ss, f) /\ FlattenSeq(ss) = f[Len(ss)]
<1> DEFINE f == CHOOSE f : Joined(ss, f)
<1>1. Joined(ss, f)  BY JoinedExists
<1>2. Len(ss) # 0  OBVIOUS
<1>3. FlattenSeq(ss) = f[Len(ss)]  BY <1>2 DEF FlattenSeq, Joined
<1> QED  BY <1>1, <1>3

LEMMA JoinedTyped ==
    ASSUME NEW S, NEW ss \in Seq(Seq(S)), NEW f, Joined(ss, f)
    PROVE  \A i \in 1..Len(ss) : f[i] \in Seq(S)
<1> DEFINE Bad == {k \in 1..Len(ss) : f[k] \notin Seq(S)}
<1>1. \A i \in 1..Len(ss) : f[i] = IF i = 1 THEN ss[i] ELSE f[i - 1] \o ss[i]
  BY DEF Joined
<1>2. Bad = {}
  <2> SUFFICES ASSUME Bad # {} PROVE FALSE
    OBVIOUS
  <2>1. Bad \subseteq Nat  OBVIOUS
  <2> HIDE DEF Bad
  <2>2. PICK m \in Bad : \A k \in Bad : m <= k  BY <2>1, LeastMember
  <2> USE DEF Bad
  <2>3. m \in 1..Len(ss)  OBVIOUS
  <2>4. m # 1  BY <1>1, <2>3
  <2>5. m - 1 \in 1..Len(ss) /\ ~(m <= m - 1)  BY <2>3, <2>4
  <2>6. f[m - 1] \in Seq(S)  BY <2>2, <2>5
  <2>7. f[m] = f[m - 1] \o ss[m]  BY <1>1, <2>3, <2>4
  <2>8. f[m] \in Seq(S)  BY <2>3, <2>6, <2>7
  <2> QED  BY <2>8
<1> QED  BY <1>2

LEMMA FlattenTyped ==
    ASSUME NEW S, NEW ss \in Seq(Seq(S))
    PROVE  FlattenSeq(ss) \in Seq(S)
<1>1. CASE ss = <<>>  BY <1>1 DEF FlattenSeq
<1>2. CASE ss # <<>>
  <2>1. PICK f : Joined(ss, f) /\ FlattenSeq(ss) = f[Len(ss)]  BY <1>2, FlattenJoined
  <2>2. Len(ss) \in 1..Len(ss)  BY <1>2
  <2> QED  BY <2>1, <2>2, JoinedTyped
<1> QED  BY <1>1, <1>2

(* What is flattened last comes last. *)
LEMMA FlattenAppend ==
    ASSUME NEW S, NEW ss \in Seq(Seq(S)), NEW t \in Seq(S)
    PROVE  FlattenSeq(Append(ss, t)) = FlattenSeq(ss) \o t
<1> DEFINE tt == Append(ss, t)
           n == Len(ss)
<1>1. /\ tt \in Seq(Seq(S)) /\ tt # <<>> /\ Len(tt) = n + 1 /\ tt[n + 1] = t
      /\ \A i \in 1..n : tt[i] = ss[i]
  BY AppendProperties
<1>2. PICK g : Joined(tt, g) /\ FlattenSeq(tt) = g[n + 1]  BY <1>1, FlattenJoined
<1> HIDE DEF tt
<1>3. \A i \in 1..(n + 1) : g[i] = IF i = 1 THEN tt[i] ELSE g[i - 1] \o tt[i]
  BY <1>1, <1>2 DEF Joined
<1>4. CASE ss = <<>>
  <2>1. FlattenSeq(ss) = <<>>  BY <1>4 DEF FlattenSeq
  <2>2. n = 0 /\ g[1] = t  BY <1>1, <1>3, <1>4
  <2> QED  BY <1>2, <2>1, <2>2 DEF tt
<1>5. CASE ss # <<>>
  <2>1. PICK f : Joined(ss, f) /\ FlattenSeq(ss) = f[n]  BY <1>5, FlattenJoined
  <2>2. \A i \in 1..n : f[i] = IF i = 1 THEN ss[i] ELSE f[i - 1] \o ss[i]
    BY <2>1 DEF Joined
  <2>3. n \in Nat /\ n # 0  BY <1>5
  <2> HIDE DEF n
  <2> DEFINE Bad == {k \in 1..n : g[k] # f[k]}
  <2>4. Bad = {}
    <3> SUFFICES ASSUME Bad # {} PROVE FALSE
      OBVIOUS
    <3>1. Bad \subseteq Nat  BY <2>3
    <3> HIDE DEF Bad
    <3>2. PICK m \in Bad : \A k \in Bad : m <= k  BY <3>1, LeastMember
    <3> USE DEF Bad
    <3>3. m \in 1..n /\ m \in 1..(n + 1)  BY <2>3
    <3>4. m # 1  BY <1>1, <1>3, <2>2, <3>3
    <3>5. m - 1 \in 1..n /\ ~(m <= m - 1)  BY <2>3, <3>3, <3>4
    <3>6. g[m - 1] = f[m - 1]  BY <3>2, <3>5
    <3>7. g[m] = f[m]  BY <1>1, <1>3, <2>2, <3>3, <3>4, <3>6
    <3> QED  BY <3>7
  <2>5. g[n] = f[n]  BY <2>3, <2>4
  <2>6. g[n + 1] = g[n] \o t
    <3>1. n + 1 \in 1..(n + 1) /\ n + 1 # 1 /\ (n + 1) - 1 = n  BY <2>3
    <3> QED  BY <1>1, <1>3, <3>1
  <2> QED  BY <1>2, <2>1, <2>5, <2>6 DEF tt
<1> QED  BY <1>4, <1>5

(* Two elements, the second appended to the first. *)
LEMMA TwoInOrder ==
    ASSUME NEW S, NEW c \in S, NEW d \in S
    PROVE  Append(<<c>>, d) = <<c, d>>
<1> DEFINE l == Append(<<c>>, d)
           r == <<c, d>>
<1>1. <<c>> \in Seq(S) /\ r \in Seq(S)  OBVIOUS
<1>2. l \in Seq(S) /\ Len(l) = 2 /\ l[1] = c /\ l[2] = d  BY <1>1
<1>3. Len(r) = 2 /\ r[1] = c /\ r[2] = d  OBVIOUS
<1>4. 1 .. 2 = {1, 2}  OBVIOUS
<1> HIDE DEF l, r
<1>5. \A i \in 1 .. Len(l) : l[i] = r[i]  BY <1>2, <1>3, <1>4
<1>6. l = r  BY <1>1, <1>2, <1>3, <1>5, SeqEqual
<1> QED  BY <1>6 DEF l, r

(* An element put behind the second of two sequences. *)
LEMMA ConcatAppend ==
    ASSUME NEW S, NEW s \in Seq(S), NEW t \in Seq(S), NEW e \in S
    PROVE  s \o Append(t, e) = Append(s \o t, e)
<1>1. <<e>> \in Seq(S) /\ s \o t \in Seq(S)  BY ConcatProperties
<1>2. Append(t, e) = t \o <<e>>  BY AppendIsConcat
<1>3. Append(s \o t, e) = (s \o t) \o <<e>>  BY <1>1, AppendIsConcat
<1>4. (s \o t) \o <<e>> = s \o (t \o <<e>>)  BY <1>1, ConcatAssociative
<1> QED  BY <1>2, <1>3, <1>4

(* Induction over sequences, with a set for what is to be shown of them.    *)
LEMMA SeqInduction ==
    ASSUME NEW S, NEW T, <<>> \in T,
           \A u \in Seq(S) : \A e \in S : u \in T => Append(u, e) \in T
    PROVE  Seq(S) \subseteq T
<1> DEFINE Wrong == Seq(S) \ T
           Bad == {k \in Nat : \E u \in Wrong : Len(u) = k}
<1> SUFFICES ASSUME Wrong # {} PROVE FALSE
  OBVIOUS
<1>1. Bad \subseteq Nat /\ Bad # {}
  <2>1. PICK u \in Wrong : TRUE  OBVIOUS
  <2>2. Len(u) \in Nat  OBVIOUS
  <2>3. Len(u) \in Bad  BY <2>2
  <2> QED  BY <2>3
<1> HIDE DEF Bad
<1>2. PICK m \in Bad : \A k \in Bad : m <= k  BY <1>1, LeastMember
<1> USE DEF Bad
<1>3. PICK u \in Wrong : Len(u) = m  BY <1>2
<1>4. u \in Seq(S) /\ u \notin T /\ u # <<>>  BY <1>3
<1>5. PICK v \in Seq(S), e \in S : u = Append(v, e)  BY <1>4, SequenceEmptyOrAppend
<1>6. Len(v) \in Nat /\ m = Len(v) + 1
  <2>1. Len(v) \in Nat /\ Len(Append(v, e)) = Len(v) + 1  BY AppendProperties
  <2> QED  BY <1>3, <1>5, <2>1
<1>7. Len(v) \notin Bad
  <2>1. ~(m <= Len(v))  BY <1>6
  <2> HIDE DEF Bad
  <2> QED  BY <1>2, <2>1
<1>8. v \in T
  <2>1. ~ \E w \in Wrong : Len(w) = Len(v)  BY <1>6, <1>7
  <2> QED  BY <2>1
<1> QED  BY <1>4, <1>5, <1>8

(* What is flattened in two parts. *)
LEMMA FlattenConcat ==
    ASSUME NEW S, NEW ss \in Seq(Seq(S)), NEW tt \in Seq(Seq(S))
    PROVE  FlattenSeq(ss \o tt) = FlattenSeq(ss) \o FlattenSeq(tt)
<1> DEFINE Right(uu) == FlattenSeq(ss \o uu) = FlattenSeq(ss) \o FlattenSeq(uu)
           T == {uu \in Seq(Seq(S)) : Right(uu)}
<1>0. FlattenSeq(ss) \in Seq(S)  BY FlattenTyped
<1>1. Right(<<>>)
  <2>1. FlattenSeq(<<>>) = <<>>  BY DEF FlattenSeq
  <2>2. ss \o <<>> = ss  BY ConcatEmptySeq
  <2>3. FlattenSeq(ss) \o <<>> = FlattenSeq(ss)  BY <1>0, ConcatEmptySeq
  <2> QED  BY <2>1, <2>2, <2>3
<1>2. ASSUME NEW uu \in Seq(Seq(S)), NEW e \in Seq(S), Right(uu)
      PROVE  Right(Append(uu, e))
  <2>1. ss \o uu \in Seq(Seq(S)) /\ FlattenSeq(uu) \in Seq(S)
    BY ConcatProperties, FlattenTyped
  <2>2. ss \o Append(uu, e) = Append(ss \o uu, e)  BY ConcatAppend
  <2>3. FlattenSeq(Append(ss \o uu, e)) = FlattenSeq(ss \o uu) \o e
    BY <2>1, FlattenAppend
  <2>4. FlattenSeq(Append(uu, e)) = FlattenSeq(uu) \o e  BY FlattenAppend
  <2>5. (FlattenSeq(ss) \o FlattenSeq(uu)) \o e = FlattenSeq(ss) \o (FlattenSeq(uu) \o e)
    BY <1>0, <2>1, ConcatAssociative
  <2> QED  BY <1>2, <2>2, <2>3, <2>4, <2>5
<1>3. Seq(Seq(S)) \subseteq T
  <2> HIDE DEF Right
  <2>1. <<>> \in T  BY <1>1, EmptySeq
  <2>2. \A u \in Seq(Seq(S)) : \A e \in Seq(S) : u \in T => Append(u, e) \in T
    BY <1>2, AppendProperties
  <2> DEFINE P == Seq(S)
  <2> HIDE DEF T, P
  <2> QED  BY <2>1, <2>2, SeqInduction DEF P
<1> QED  BY <1>3

LEMMA HeadThenTail ==
    ASSUME NEW S, NEW s \in Seq(S), s # <<>>
    PROVE  <<Head(s)>> \o Tail(s) = s
<1>1. /\ Head(s) = s[1] /\ Head(s) \in S /\ Len(s) \in Nat /\ Len(s) >= 1
      /\ Tail(s) = SubSeq(s, 2, Len(s))
  BY TailIsSubSeq, HeadTailProperties
<1>2. 1 \in 1..Len(s) /\ Len(s) \in 1..Len(s)  BY <1>1
<1>3. SubSeq(s, 1, Len(s)) = <<s[1]>> \o SubSeq(s, 1 + 1, Len(s))
  BY <1>2, SubSeqRecursiveFirst
<1>4. SubSeq(s, 1, Len(s)) = s  BY SubSeqFull
<1> QED  BY <1>1, <1>3, <1>4

(* What is flattened first comes first. *)
LEMMA FlattenHead ==
    ASSUME NEW S, NEW ss \in Seq(Seq(S)), ss # <<>>
    PROVE  FlattenSeq(ss) = Head(ss) \o FlattenSeq(Tail(ss))
<1> DEFINE T == Seq(S)
           h == Head(ss)
<1>1. h \in T /\ Tail(ss) \in Seq(T) /\ <<h>> \o Tail(ss) = ss
  <2>1. ss \in Seq(T)  OBVIOUS
  <2> HIDE DEF T
  <2> QED  BY <2>1, HeadTailProperties, HeadThenTail
<1>2. <<h>> \in Seq(Seq(S))  BY <1>1
<1>3. FlattenSeq(<<h>>) = h
  <2>1. <<>> \in Seq(Seq(S)) /\ Append(<<>>, h) = <<h>>  OBVIOUS
  <2>2. FlattenSeq(Append(<<>>, h)) = FlattenSeq(<<>>) \o h  BY <1>1, <2>1, FlattenAppend
  <2>3. FlattenSeq(<<>>) = <<>>  BY DEF FlattenSeq
  <2> HIDE DEF h
  <2> QED  BY <1>1, <2>1, <2>2, <2>3, ConcatEmptySeq
<1>4. FlattenSeq(<<h>> \o Tail(ss)) = FlattenSeq(<<h>>) \o FlattenSeq(Tail(ss))
  <2> DEFINE a == <<h>>
             b == Tail(ss)
  <2>1. a \in Seq(Seq(S)) /\ b \in Seq(Seq(S))  BY <1>1, <1>2
  <2> HIDE DEF a, b
  <2>2. FlattenSeq(a \o b) = FlattenSeq(a) \o FlattenSeq(b)  BY <2>1, FlattenConcat
  <2> QED  BY <2>2 DEF a, b
<1> QED  BY <1>1, <1>3, <1>4

LEMMA FrontIsPrefix ==
    ASSUME NEW S, NEW s \in Seq(S), NEW t \in Seq(S)
    PROVE  IsPrefix(s, s \o t)
<1> DEFINE u == s \o t
<1>1. /\ u \in Seq(S) /\ Len(u) = Len(s) + Len(t)
      /\ \A i \in 1..(Len(s) + Len(t)) : u[i] = IF i <= Len(s) THEN s[i] ELSE t[i - Len(s)]
  BY ConcatProperties
<1>2. Len(s) \in Nat /\ Len(t) \in Nat  OBVIOUS
<1>3. \A i \in 1..Len(s) : s[i] \in S /\ u[i] = s[i]  BY <1>1, <1>2
<1> HIDE DEF u
<1>4. /\ SubSeq(u, 1, Len(s)) \in Seq(S) /\ Len(SubSeq(u, 1, Len(s))) = Len(s)
      /\ \A i \in 1..Len(s) : SubSeq(u, 1, Len(s))[i] = u[i]
  <2>1. 1 \in Int /\ Len(s) \in Int /\ \A i \in 1..Len(s) : u[i] \in S  BY <1>2, <1>3
  <2>2. /\ SubSeq(u, 1, Len(s)) \in Seq(S)
        /\ Len(SubSeq(u, 1, Len(s))) = IF 1 <= Len(s) THEN Len(s) - 1 + 1 ELSE 0
        /\ \A i \in 1..(Len(s) - 1 + 1) : SubSeq(u, 1, Len(s))[i] = u[1 + i - 1]
    BY <2>1, SubSeqProperties
  <2> DEFINE v == SubSeq(u, 1, Len(s))
  <2> HIDE DEF v
  <2> QED  BY <1>2, <2>2 DEF v
<1>5. SubSeq(u, 1, Len(s)) = s  BY <1>3, <1>4, SeqEqual
<1>6. SubSeq(s, 1, Len(s)) = s  BY SubSeqFull
<1> QED  BY <1>1, <1>2, <1>5, <1>6 DEF IsPrefix, u

(* What comes before, with and after one of the sequences that are joined.  *)
LEMMA FlattenSplit ==
    ASSUME NEW S, NEW ss \in Seq(Seq(S)), NEW k \in 1..Len(ss)
    PROVE  LET before == FlattenSeq(SubSeq(ss, 1, k - 1))
               after  == FlattenSeq(SubSeq(ss, k + 1, Len(ss)))
           IN  /\ before \in Seq(S) /\ after \in Seq(S) /\ ss[k] \in Seq(S)
               /\ FlattenSeq(SubSeq(ss, 1, k)) = before \o ss[k]
               /\ FlattenSeq(ss) = (before \o ss[k]) \o after
<1> DEFINE T == Seq(S)
           n == Len(ss)
           p == SubSeq(ss, 1, k - 1)
           q == SubSeq(ss, 1, k)
           r == SubSeq(ss, k + 1, n)
<1>1. n \in Nat /\ k \in Nat /\ 1 <= k /\ k <= n /\ ss \in Seq(T) /\ ss[k] \in T
  OBVIOUS
<1> HIDE DEF n, T
<1>2. p \in Seq(T) /\ q \in Seq(T) /\ r \in Seq(T)
  <2>1. \A i \in 1..n : ss[i] \in T  BY <1>1 DEF n
  <2>2. (\A i \in 1..(k - 1) : ss[i] \in T) /\ (\A i \in 1..k : ss[i] \in T)
        /\ (\A i \in (k + 1)..n : ss[i] \in T)
    BY <1>1, <2>1
  <2>3. 1 \in Int /\ k - 1 \in Int /\ k \in Int /\ k + 1 \in Int /\ n \in Int  BY <1>1
  <2>4. p \in Seq(T)  BY <2>2, <2>3, SubSeqProperties
  <2>5. q \in Seq(T)  BY <2>2, <2>3, SubSeqProperties
  <2>6. r \in Seq(T)  BY <2>2, <2>3, SubSeqProperties
  <2> QED  BY <2>4, <2>5, <2>6
<1>3. q = Append(p, ss[k])
  <2>1. 1 \in 1..Len(ss) /\ k \in 1..Len(ss)  BY <1>1 DEF n
  <2>2. q = p \o <<ss[k]>>  BY <1>1, <2>1, SubSeqRecursiveSecond
  <2>3. Append(p, ss[k]) = p \o <<ss[k]>>
    <3> HIDE DEF p
    <3> QED  BY <1>1, <1>2, AppendIsConcat
  <2> QED  BY <2>2, <2>3
<1>4. ss = q \o r
  <2>1. 1 \in 1..(Len(ss) + 1) /\ k \in (1 - 1)..Len(ss) /\ n \in k..Len(ss)  BY <1>1 DEF n
  <2>2. q \o r = SubSeq(ss, 1, n)  BY <1>1, <2>1, ConcatAdjacentSubSeq
  <2> QED  BY <1>1, <2>2, SubSeqFull DEF n
<1> HIDE DEF p, q, r
<1> USE DEF T
<1>5. FlattenSeq(p) \in Seq(S) /\ FlattenSeq(r) \in Seq(S)  BY <1>2, FlattenTyped
<1>6. FlattenSeq(q) = FlattenSeq(p) \o ss[k]  BY <1>1, <1>2, <1>3, FlattenAppend
<1>7. FlattenSeq(ss) = FlattenSeq(q) \o FlattenSeq(r)  BY <1>2, <1>4, FlattenConcat
<1> QED  BY <1>1, <1>5, <1>6, <1>7 DEF p, q, r, n

(* And where its elements are. *)
LEMMA FlattenPlaces ==
    ASSUME NEW S, NEW ss \in Seq(Seq(S)), NEW k \in 1..Len(ss)
    PROVE  LET a == Len(FlattenSeq(SubSeq(ss, 1, k - 1)))
           IN  /\ a \in Nat /\ Len(ss[k]) \in Nat /\ Len(FlattenSeq(ss)) \in Nat
               /\ Len(FlattenSeq(SubSeq(ss, 1, k))) = a + Len(ss[k])
               /\ a + Len(ss[k]) <= Len(FlattenSeq(ss))
               /\ \A j \in 1..Len(ss[k]) : FlattenSeq(ss)[a + j] = ss[k][j]
<1> DEFINE p == FlattenSeq(SubSeq(ss, 1, k - 1))
           r == FlattenSeq(SubSeq(ss, k + 1, Len(ss)))
           e == ss[k]
           u == p \o e
<1>1. /\ p \in Seq(S) /\ r \in Seq(S) /\ e \in Seq(S)
      /\ FlattenSeq(SubSeq(ss, 1, k)) = u /\ FlattenSeq(ss) = u \o r
  BY FlattenSplit
<1> HIDE DEF p, r, e
<1>2. /\ u \in Seq(S) /\ Len(u) = Len(p) + Len(e)
      /\ \A i \in 1..(Len(p) + Len(e)) : u[i] = IF i <= Len(p) THEN p[i] ELSE e[i - Len(p)]
  BY <1>1, ConcatProperties
<1> HIDE DEF u
<1>3. /\ Len(u \o r) = Len(u) + Len(r)
      /\ \A i \in 1..(Len(u) + Len(r)) : (u \o r)[i] = IF i <= Len(u) THEN u[i] ELSE r[i - Len(u)]
  <2>1. u \in Seq(S) /\ r \in Seq(S)  BY <1>1, <1>2
  <2> QED  BY <2>1, ConcatProperties
<1>4. Len(p) \in Nat /\ Len(e) \in Nat /\ Len(r) \in Nat  BY <1>1
<1>5. ASSUME NEW j \in 1..Len(e) PROVE FlattenSeq(ss)[Len(p) + j] = e[j]
  <2> DEFINE i == Len(p) + j
  <2>1. i \in 1..(Len(p) + Len(e)) /\ i \in 1..(Len(u) + Len(r)) /\ i <= Len(u) /\ ~(i <= Len(p))
        /\ i - Len(p) = j
    BY <1>2, <1>4
  <2> HIDE DEF i
  <2>2. FlattenSeq(ss)[i] = u[i] /\ u[i] = e[i - Len(p)]  BY <1>1, <1>2, <1>3, <2>1
  <2> QED  BY <2>1, <2>2 DEF i
<1>6. /\ Len(FlattenSeq(ss)) = Len(p) + Len(e) + Len(r)
      /\ Len(FlattenSeq(SubSeq(ss, 1, k))) = Len(p) + Len(e)
  BY <1>1, <1>2, <1>3
<1> DEFINE a == Len(p)
<1>7. /\ a \in Nat /\ Len(e) \in Nat /\ Len(FlattenSeq(ss)) \in Nat
      /\ Len(FlattenSeq(SubSeq(ss, 1, k))) = a + Len(e)
      /\ a + Len(e) <= Len(FlattenSeq(ss))
      /\ \A j \in 1..Len(e) : FlattenSeq(ss)[a + j] = e[j]
  BY <1>4, <1>5, <1>6
<1> QED  BY <1>7, Zenon DEF p, e

----------------------------------------------------------------------------
(* Sequences of which one begins the other, as far as the shorter goes.     *)
Agrees(s, t) == \A i \in 1..Len(s) : i <= Len(t) => s[i] = t[i]

(* No member of U begins another one. *)
Apart(U) == \A u, w \in U : Agrees(u, w) => u = w

LEMMA PrefixAgrees ==
    ASSUME NEW S, NEW s \in Seq(S), NEW t \in Seq(S), IsPrefix(s, t)
    PROVE  Agrees(s, t)
<1>1. Len(s) \in Nat /\ Len(t) \in Nat /\ Len(s) <= Len(t) /\ s = SubSeq(t, 1, Len(s))
  BY SubSeqFull DEF IsPrefix
<1>2. \A i \in 1..Len(s) : t[i] \in S
  <2> TAKE i \in 1..Len(s)
  <2>1. i \in 1..Len(t)  BY <1>1
  <2> QED  BY <2>1
<1> DEFINE n == Len(s)
<1>3. \A i \in 1..(n - 1 + 1) : SubSeq(t, 1, n)[i] = t[1 + i - 1]
  <2>1. 1 \in Int /\ n \in Int /\ \A i \in 1..n : t[i] \in S  BY <1>1, <1>2
  <2> HIDE DEF n
  <2> QED  BY <2>1, SubSeqProperties
<1>4. ASSUME NEW i \in 1..n PROVE s[i] = t[i]
  <2>1. i \in 1..(n - 1 + 1) /\ 1 + i - 1 = i  BY <1>1
  <2> HIDE DEF n
  <2>2. SubSeq(t, 1, n)[i] = t[i]  BY <1>3, <2>1
  <2> QED  BY <1>1, <2>2 DEF n
<1> QED  BY <1>4 DEF Agrees

(* What comes first in two sequences, and behind what both begin with.      *)
LEMMA AgreesFront ==
    ASSUME NEW S, NEW a \in Seq(S), NEW b \in Seq(S), NEW c \in Seq(S), NEW d \in Seq(S),
           Agrees(a \o b, c \o d)
    PROVE  Agrees(a, c)
<1>1. /\ Len(a \o b) = Len(a) + Len(b) /\ Len(c \o d) = Len(c) + Len(d)
      /\ \A i \in 1..(Len(a) + Len(b)) : (a \o b)[i] = IF i <= Len(a) THEN a[i] ELSE b[i - Len(a)]
      /\ \A i \in 1..(Len(c) + Len(d)) : (c \o d)[i] = IF i <= Len(c) THEN c[i] ELSE d[i - Len(c)]
  BY ConcatProperties
<1>2. Len(a) \in Nat /\ Len(b) \in Nat /\ Len(c) \in Nat /\ Len(d) \in Nat  OBVIOUS
<1> SUFFICES ASSUME NEW i \in 1..Len(a), i <= Len(c) PROVE a[i] = c[i]
  BY DEF Agrees
<1>3. i \in 1..(Len(a) + Len(b)) /\ i \in 1..(Len(c) + Len(d))  BY <1>2
<1>4. (a \o b)[i] = (c \o d)[i]
  <2> DEFINE u == a \o b
             w == c \o d
  <2>1. i \in 1..Len(u) /\ i <= Len(w)  BY <1>1, <1>2, <1>3
  <2> QED  BY <2>1 DEF Agrees
<1> QED  BY <1>1, <1>3, <1>4

LEMMA AgreesRest ==
    ASSUME NEW S, NEW a \in Seq(S), NEW b \in Seq(S), NEW c \in Seq(S), Agrees(a \o b, a \o c)
    PROVE  Agrees(b, c)
<1>1. /\ Len(a \o b) = Len(a) + Len(b) /\ Len(a \o c) = Len(a) + Len(c)
      /\ \A i \in 1..(Len(a) + Len(b)) : (a \o b)[i] = IF i <= Len(a) THEN a[i] ELSE b[i - Len(a)]
      /\ \A i \in 1..(Len(a) + Len(c)) : (a \o c)[i] = IF i <= Len(a) THEN a[i] ELSE c[i - Len(a)]
  BY ConcatProperties
<1>2. Len(a) \in Nat /\ Len(b) \in Nat /\ Len(c) \in Nat  OBVIOUS
<1> SUFFICES ASSUME NEW i \in 1..Len(b), i <= Len(c) PROVE b[i] = c[i]
  BY DEF Agrees
<1> DEFINE k == Len(a) + i
<1>3. /\ k \in 1..(Len(a) + Len(b)) /\ k \in 1..(Len(a) + Len(c)) /\ ~(k <= Len(a))
      /\ k - Len(a) = i
  BY <1>2
<1> HIDE DEF k
<1>4. (a \o b)[k] = (a \o c)[k]
  <2> DEFINE u == a \o b
             w == a \o c
  <2>1. k \in 1..Len(u) /\ k <= Len(w)  BY <1>1, <1>2, <1>3
  <2> QED  BY <2>1 DEF Agrees
<1> QED  BY <1>1, <1>3, <1>4

(* The same behind what begins both, in texts of three parts.               *)
LEMMA AgreesRests ==
    ASSUME NEW S, NEW o \in Seq(S), NEW m \in Seq(S), NEW r \in Seq(S),
           NEW w \in Seq(S), NEW t \in Seq(S), Agrees((o \o m) \o r, (o \o w) \o t)
    PROVE  Agrees(m \o r, w \o t)
<1>1. (o \o m) \o r = o \o (m \o r)  BY ConcatAssociative
<1>2. (o \o w) \o t = o \o (w \o t)  BY ConcatAssociative
<1>3. m \o r \in Seq(S) /\ w \o t \in Seq(S)  BY ConcatProperties
<1> QED  BY <1>1, <1>2, <1>3, AgreesRest

LEMMA AgreesBegun ==
    ASSUME NEW S, NEW b \in Seq(S), NEW c \in Seq(S), NEW d \in Seq(S), Agrees(b, c \o d)
    PROVE  Agrees(b, c)
<1>1. b \o <<>> = b /\ <<>> \in Seq(S)  BY ConcatEmptySeq
<1> QED  BY <1>1, AgreesFront

(* As much of two sequences as is the same. *)
LEMMA SameFront ==
    ASSUME NEW S, NEW s \in Seq(S), NEW t \in Seq(S), NEW n \in 0..Len(s),
           \A i \in 1..n : i <= Len(t) /\ s[i] = t[i]
    PROVE  SubSeq(s, 1, n) = SubSeq(t, 1, n)
<1>1. n \in Nat /\ 1 \in Int /\ n \in Int /\ n <= Len(s) /\ Len(s) \in Nat  OBVIOUS
<1>2. \A i \in 1..n : s[i] \in S
  <2> TAKE i \in 1..n
  <2>1. i \in 1..Len(s)  BY <1>1
  <2> QED  BY <2>1
<1>3. \A i \in 1..n : t[i] \in S  BY <1>2
<1> DEFINE x == SubSeq(s, 1, n)
           y == SubSeq(t, 1, n)
<1>4. /\ x \in Seq(S) /\ Len(x) = IF 1 <= n THEN n - 1 + 1 ELSE 0
      /\ \A i \in 1..(n - 1 + 1) : x[i] = s[1 + i - 1]
  BY <1>1, <1>2, SubSeqProperties
<1>5. /\ y \in Seq(S) /\ Len(y) = IF 1 <= n THEN n - 1 + 1 ELSE 0
      /\ \A i \in 1..(n - 1 + 1) : y[i] = t[1 + i - 1]
  BY <1>1, <1>3, SubSeqProperties
<1> HIDE DEF x, y
<1>6. Len(x) = n /\ Len(y) = n  BY <1>1, <1>4, <1>5
<1>7. \A i \in 1..Len(x) : x[i] = y[i]
  <2> TAKE i \in 1..Len(x)
  <2>1. i \in 1..n /\ i \in 1..(n - 1 + 1) /\ 1 + i - 1 = i  BY <1>1, <1>6
  <2> QED  BY <1>4, <1>5, <2>1
<1>8. x = y  BY <1>4, <1>5, <1>6, <1>7, SeqEqual
<1> QED  BY <1>8 DEF x, y

(* Two texts one of which begins the other, if both are made of units that  *)
(* do not begin each other: their units are the same as far as both go, and *)
(* what follows them in one goes on as the other's next unit does.          *)
LEMMA UnitsAgree ==
    ASSUME NEW S, NEW U, U \subseteq Seq(S), Apart(U),
           NEW us \in Seq(U), NEW ws \in Seq(U), NEW r \in Seq(S), NEW t \in Seq(S),
           Agrees(FlattenSeq(us) \o r, FlattenSeq(ws) \o t)
    PROVE  /\ \A i \in 1..Len(us) : i <= Len(ws) => us[i] = ws[i]
           /\ Len(us) < Len(ws) => Agrees(r, ws[Len(us) + 1])
<1> DEFINE n == Len(us)
           m == Len(ws)
<1>0. us \in Seq(Seq(S)) /\ ws \in Seq(Seq(S)) /\ n \in Nat /\ m \in Nat
  OBVIOUS
<1>1. FlattenSeq(us) \in Seq(S) /\ FlattenSeq(ws) \in Seq(S)  BY <1>0, FlattenTyped
<1>2. ASSUME NEW k \in 1..m, k - 1 <= n, \A i \in 1..(k - 1) : us[i] = ws[i]
      PROVE  FlattenSeq(SubSeq(us, 1, k - 1)) = FlattenSeq(SubSeq(ws, 1, k - 1))
  <2> DEFINE h == k - 1
  <2>1. h \in 0..Len(us) /\ \A i \in 1..h : i <= Len(ws) /\ us[i] = ws[i]  BY <1>0, <1>2
  <2> HIDE DEF h
  <2>2. SubSeq(us, 1, h) = SubSeq(ws, 1, h)  BY <1>0, <2>1, SameFront
  <2> QED  BY <2>2 DEF h
<1>3. \A i \in 1..n : i <= m => us[i] = ws[i]
  <2> DEFINE Bad == {i \in 1..n : i <= m /\ us[i] # ws[i]}
  <2> SUFFICES ASSUME Bad # {} PROVE FALSE
    OBVIOUS
  <2>1. Bad \subseteq Nat  OBVIOUS
  <2>2. PICK k \in Bad : \A j \in Bad : k <= j
    <3> HIDE DEF Bad
    <3> QED  BY <2>1, LeastMember
  <2>3. k \in 1..n /\ k \in 1..m /\ us[k] # ws[k]  BY <1>0
  <2>4. \A i \in 1..(k - 1) : us[i] = ws[i]
    <3> TAKE i \in 1..(k - 1)
    <3>1. i \in 1..n /\ i <= m /\ ~(k <= i)  BY <1>0, <2>3
    <3> HIDE DEF Bad
    <3>2. i \notin Bad  BY <2>2, <3>1
    <3> QED  BY <3>1, <3>2 DEF Bad
  <2> DEFINE p == FlattenSeq(SubSeq(us, 1, k - 1))
             q == FlattenSeq(SubSeq(ws, 1, k - 1))
             u == us[k]
             w == ws[k]
             x == FlattenSeq(SubSeq(us, k + 1, n))
             y == FlattenSeq(SubSeq(ws, k + 1, m))
             f == FlattenSeq(us)
             g == FlattenSeq(ws)
  <2>5. p = q
    <3>1. k \in 1..m /\ k - 1 <= n  BY <1>0, <2>3
    <3> QED  BY <1>2, <2>4, <3>1
  <2>6. p \in Seq(S) /\ x \in Seq(S) /\ u \in Seq(S) /\ f = (p \o u) \o x
    BY <1>0, <2>3, FlattenSplit
  <2>7. q \in Seq(S) /\ y \in Seq(S) /\ w \in Seq(S) /\ g = (q \o w) \o y
    BY <1>0, <2>3, FlattenSplit
  <2>8. w \in U /\ u \in U /\ u # w  BY <2>3
  <2>9. Agrees(f \o r, g \o t)  OBVIOUS
  <2>10. f \in Seq(S) /\ g \in Seq(S)  BY <1>1
  <2> HIDE DEF p, q, u, w, x, y, f, g
  <2>11. Agrees(f, g)  BY <2>9, <2>10, AgreesFront
  <2>12. p \o u \in Seq(S) /\ p \o w \in Seq(S)  BY <2>5, <2>6, <2>7, ConcatProperties
  <2>13. Agrees((p \o u) \o x, (p \o w) \o y)  BY <2>5, <2>6, <2>7, <2>11
  <2>14. Agrees(p \o u, p \o w)  BY <2>6, <2>7, <2>12, <2>13, AgreesFront
  <2>15. Agrees(u, w)  BY <2>6, <2>7, <2>14, AgreesRest
  <2> QED  BY <2>8, <2>15 DEF Apart
<1>4. ASSUME n < m PROVE Agrees(r, ws[n + 1])
  <2> DEFINE k == n + 1
             p == FlattenSeq(us)
             q == FlattenSeq(SubSeq(ws, 1, k - 1))
             w == ws[k]
             y == FlattenSeq(SubSeq(ws, k + 1, m))
             g == FlattenSeq(ws)
  <2>1. k \in 1..m /\ k - 1 = n /\ \A i \in 1..(k - 1) : us[i] = ws[i]  BY <1>0, <1>3, <1>4
  <2>2. q \in Seq(S) /\ y \in Seq(S) /\ w \in Seq(S) /\ g = (q \o w) \o y
    <3> HIDE DEF k
    <3> QED  BY <1>0, <2>1, FlattenSplit
  <2>3. p = q
    <3>1. SubSeq(us, 1, k - 1) = us  BY <2>1, SubSeqFull
    <3>2. FlattenSeq(SubSeq(us, 1, k - 1)) = q
      <4>1. k - 1 <= n  BY <1>0, <2>1
      <4> HIDE DEF k
      <4> QED  BY <1>2, <2>1, <4>1
    <3> QED  BY <3>1, <3>2
  <2>4. Agrees(p \o r, g \o t) /\ p \in Seq(S) /\ g \in Seq(S)  BY <1>1
  <2> HIDE DEF p, q, w, y, g
  <2>5. p \o r \in Seq(S) /\ p \o w \in Seq(S)  BY <2>2, <2>4, ConcatProperties
  <2>6. Agrees(p \o r, g)  BY <2>4, <2>5, AgreesBegun
  <2>7. Agrees(p \o r, (p \o w) \o y)  BY <2>2, <2>3, <2>6
  <2>8. Agrees(p \o r, p \o w)  BY <2>2, <2>5, <2>7, AgreesBegun
  <2>9. Agrees(r, w)  BY <2>2, <2>4, <2>8, AgreesRest
  <2> QED  BY <2>9 DEF w
<1> QED  BY <1>3, <1>4

(* A function on 1..n with values in S is a sequence over S of length n.    *)
LEMMA FunctionIsSeq ==
    ASSUME NEW S, NEW n \in Nat, NEW f, DOMAIN f = 1..n, f = [i \in DOMAIN f |-> f[i]],
           \A i \in 1..n : f[i] \in S
    PROVE  f \in Seq(S) /\ Len(f) = n
<1>1. f \in [1..n -> S]  OBVIOUS
<1>2. f \in Seq(S)  BY <1>1, SeqDef
<1> QED  BY <1>2, LenProperties

(* Two texts that begin with members of D and go on with no member of it    *)
(* begin with the same ones.                                                *)
LEMMA StopApart ==
    ASSUME NEW S, NEW D, NEW v \in Seq(S), NEW w \in Seq(S), NEW r \in Seq(S), NEW t \in Seq(S),
           \A i \in 1..Len(v) : v[i] \in D, \A i \in 1..Len(w) : w[i] \in D,
           r # <<>>, t # <<>>, r[1] \notin D, t[1] \notin D, Agrees(v \o r, w \o t)
    PROVE  v = w
<1>1. Len(v) \in Nat /\ Len(w) \in Nat /\ Len(r) \in Nat \ {0} /\ Len(t) \in Nat \ {0}
  BY EmptySeq
<1>2. /\ Len(v \o r) = Len(v) + Len(r)
      /\ \A i \in 1..(Len(v) + Len(r)) :
             (v \o r)[i] = IF i <= Len(v) THEN v[i] ELSE r[i - Len(v)]
  BY ConcatProperties
<1>3. /\ Len(w \o t) = Len(w) + Len(t)
      /\ \A i \in 1..(Len(w) + Len(t)) :
             (w \o t)[i] = IF i <= Len(w) THEN w[i] ELSE t[i - Len(w)]
  BY ConcatProperties
<1>4. \A i \in 1..(Len(v) + Len(r)) : i <= Len(w) + Len(t) => (v \o r)[i] = (w \o t)[i]
  BY <1>2, <1>3 DEF Agrees
<1>5. Len(v) = Len(w)
  <2>1. CASE Len(v) < Len(w)
    <3>1. Len(v) + 1 \in 1..(Len(v) + Len(r)) /\ Len(v) + 1 \in 1..(Len(w) + Len(t))
      BY <1>1, <2>1
    <3>2. (v \o r)[Len(v) + 1] = r[1]
      <4>1. ~(Len(v) + 1 <= Len(v)) /\ Len(v) + 1 - Len(v) = 1  BY <1>1
      <4> QED  BY <1>2, <3>1, <4>1
    <3>3. (w \o t)[Len(v) + 1] = w[Len(v) + 1] /\ w[Len(v) + 1] \in D
      <4>1. Len(v) + 1 \in 1..Len(w)  BY <1>1, <2>1
      <4> QED  BY <1>3, <3>1, <4>1
    <3> QED  BY <1>4, <3>1, <3>2, <3>3
  <2>2. CASE Len(w) < Len(v)
    <3>1. Len(w) + 1 \in 1..(Len(v) + Len(r)) /\ Len(w) + 1 \in 1..(Len(w) + Len(t))
      BY <1>1, <2>2
    <3>2. (w \o t)[Len(w) + 1] = t[1]
      <4>1. ~(Len(w) + 1 <= Len(w)) /\ Len(w) + 1 - Len(w) = 1  BY <1>1
      <4> QED  BY <1>3, <3>1, <4>1
    <3>3. (v \o r)[Len(w) + 1] = v[Len(w) + 1] /\ v[Len(w) + 1] \in D
      <4>1. Len(w) + 1 \in 1..Len(v)  BY <1>1, <2>2
      <4> QED  BY <1>2, <3>1, <4>1
    <3> QED  BY <1>4, <3>1, <3>2, <3>3
  <2> QED  BY <1>1, <2>1, <2>2
<1>6. ASSUME NEW i \in 1..Len(v) PROVE v[i] = w[i]
  <2>1. i \in 1..(Len(v) + Len(r)) /\ i \in 1..(Len(w) + Len(t)) /\ i <= Len(v) /\ i <= Len(w)
    BY <1>1, <1>5
  <2> QED  BY <1>2, <1>3, <1>4, <2>1
<1> QED  BY <1>5, <1>6, SeqEqual

LEMMA FirstComes ==
    ASSUME NEW S, NEW c \in S, NEW s \in Seq(S)
    PROVE  /\ <<c>> \o s \in Seq(S) /\ <<c>> \o s # <<>> /\ (<<c>> \o s)[1] = c
           /\ Len(<<c>> \o s) = 1 + Len(s)
<1> DEFINE q == <<c>>
<1>1. q \in Seq(S) /\ Len(q) = 1 /\ q[1] = c  OBVIOUS
<1> HIDE DEF q
<1>2. /\ q \o s \in Seq(S) /\ Len(q \o s) = Len(q) + Len(s)
      /\ \A i \in 1..(Len(q) + Len(s)) :
             (q \o s)[i] = IF i <= Len(q) THEN q[i] ELSE s[i - Len(q)]
  BY <1>1, ConcatProperties
<1>3. Len(s) \in Nat /\ 1 \in 1..(Len(q) + Len(s)) /\ 1 <= Len(q)  BY <1>1
<1>4. (q \o s)[1] = c  BY <1>1, <1>2, <1>3
<1>5. q \o s # <<>>  BY <1>1, <1>2, <1>3, EmptySeq
<1> QED  BY <1>1, <1>2, <1>4, <1>5 DEF q

(* Sequences that agree begin with the same, and the first of two joined    *)
(* begins both.                                                             *)
LEMMA AgreesFirst ==
    ASSUME NEW S, NEW s \in Seq(S), NEW t \in Seq(S), s # <<>>, t # <<>>, Agrees(s, t)
    PROVE  s[1] = t[1]
<1>1. Len(s) \in Nat \ {0} /\ Len(t) \in Nat \ {0}  BY EmptySeq
<1> QED  BY <1>1 DEF Agrees

LEMMA FirstStays ==
    ASSUME NEW S, NEW s \in Seq(S), NEW t \in Seq(S), s # <<>>
    PROVE  s \o t \in Seq(S) /\ s \o t # <<>> /\ (s \o t)[1] = s[1]
<1>1. /\ s \o t \in Seq(S) /\ Len(s \o t) = Len(s) + Len(t)
      /\ \A i \in 1..(Len(s) + Len(t)) :
             (s \o t)[i] = IF i <= Len(s) THEN s[i] ELSE t[i - Len(s)]
  BY ConcatProperties
<1>2. Len(s) \in Nat \ {0} /\ Len(t) \in Nat  BY EmptySeq
<1>3. Len(s \o t) # 0 /\ (s \o t)[1] = s[1]  BY <1>1, <1>2
<1>4. Len(<<>>) = 0  OBVIOUS
<1> QED  BY <1>1, <1>3, <1>4

LEMMA Single ==
    ASSUME NEW S, NEW c \in S
    PROVE  <<c>> \in Seq(S) /\ <<c>> # <<>> /\ <<c>>[1] = c
<1>1. <<c>> \in Seq(S) /\ Len(<<c>>) = 1 /\ <<c>>[1] = c /\ Len(<<>>) = 0  OBVIOUS
<1> QED  BY <1>1

(* The longer of two sequences has a place behind the shorter one.          *)
LEMMA PlaceBehind ==
    ASSUME NEW S, NEW v \in Seq(S), NEW w \in Seq(S), Len(v) < Len(w)
    PROVE  Len(v) + 1 \in 1..Len(w) /\ w[Len(v) + 1] \in S
<1>1. Len(v) \in Nat /\ Len(w) \in Nat  OBVIOUS
<1>2. Len(v) + 1 \in 1..Len(w)  BY <1>1
<1> QED  BY <1>2
=============================================================================
