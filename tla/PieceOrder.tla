----------------------------- MODULE PieceOrder -----------------------------
(***************************************************************************)
(* The pieces of the generator and the order they go to the header in.     *)
(* C++ wants a piece after those it requires; ParserPool is the exception: *)
(* it holds the pooled parsers, which require ValueParser, which requires  *)
(* ParserPool, and only a declaration of it comes before them.             *)
(***************************************************************************)
EXTENDS Naturals, FiniteSets, Sequences, SequencesExt

CONSTANTS
    Names,      \* The names of the pieces, in the order of strings.
    Requires,   \* requires: what each piece requires.
    Writers,    \* writer: those with a Write function.
    Scalars,    \* scalar: those of a simple value.
    Externals,  \* external: those a format may name.
    Pooled,     \* pooled: the parsers ParserPool holds.
    Pools       \* poolindexes and so on: ParserPool.

Piece == Range(Names)

ASSUME PieceAssumption ==
    /\ IsInjective(Names)
    /\ Requires \in [Piece -> SUBSET Piece]
    /\ {Writers, Scalars, Externals, Pooled, Pools} \subseteq SUBSET Piece
    /\ Pooled \cap Pools = {} /\ Writers \cap Externals = {}

(* What a piece requires in at most k steps, and what it requires at all.   *)
RequiresIn[k \in 0..Len(Names)] ==
    [n \in Piece |->
        IF k = 0 THEN {n}
        ELSE {n} \cup UNION {RequiresIn[k - 1][r] : r \in Requires[n]}]

AllRequires == RequiresIn[Len(Names)]

(* What the pooled pieces among needed require. *)
PooledReqs(needed) == UNION {AllRequires[n] \ {n} : n \in Pooled \cap needed}

Rank == [n \in Piece |-> CHOOSE i \in DOMAIN Names : Names[i] = n]

Size(n) == Cardinality(AllRequires[n])

Differ(set, a, b) == (a \in set) # (b \in set)

BySize(a, b) == Size(a) < Size(b)

Smaller(a, b) == IF Size(a) # Size(b) THEN Size(a) < Size(b) ELSE Rank[a] < Rank[b]

(* The end of compare_pieces, for pieces neither of which requires the      *)
(* other.                                                                   *)
EarlierOfPeers(pooledReqs, a, b) ==
    IF a \in Writers /\ Differ(Scalars, a, b) THEN a \in Scalars
    ELSE IF Differ(pooledReqs, a, b) THEN a \in pooledReqs
    ELSE IF Differ(Pooled, a, b) THEN a \in Pooled
    ELSE IF Differ(Pools, a, b) THEN a \in Pools
    ELSE Smaller(a, b)

(* compare_pieces(a, b) < 0 *)
Earlier(pooledReqs, a, b) ==
    IF Differ(Writers, a, b) THEN b \in Writers
    ELSE IF b \in AllRequires[a]
    THEN a \in AllRequires[b] /\ Size(a) < Size(b)
    ELSE a \in AllRequires[b] \/ EarlierOfPeers(pooledReqs, a, b)

(* What sort! makes of the set if compare_pieces orders it. *)
Sorted(pooledReqs, set) ==
    SortSeq(SelectSeq(Names, LAMBDA n : n \in set),
            LAMBDA a, b : Earlier(pooledReqs, a, b))

(* Whether it does: whatever is sorted before another piece is less. *)
Ordered(pooledReqs, set) ==
    LET s == Sorted(pooledReqs, set)
    IN  \A i, j \in DOMAIN s :
            i < j => Earlier(pooledReqs, s[i], s[j]) /\ ~Earlier(pooledReqs, s[j], s[i])

(* arrange_needed: up to the last pooled piece without the pools, the rest  *)
(* sorted again with them.                                                  *)
Others(needed) == needed \ Pools

LastPooled(needed) ==
    LET others == Sorted(PooledReqs(needed), Others(needed))
    IN  CHOOSE i \in DOMAIN others :
            /\ others[i] \in Pooled
            /\ \A j \in DOMAIN others : j > i => others[j] \notin Pooled

UpToPooled(needed) == SubSeq(Sorted(PooledReqs(needed), Others(needed)), 1, LastPooled(needed))

After(needed) == needed \ Range(UpToPooled(needed))

PoolsFirst(needed) == Sorted(PooledReqs(needed), needed)

Arranged(needed) == UpToPooled(needed) \o Sorted(PooledReqs(needed), After(needed))
=============================================================================
