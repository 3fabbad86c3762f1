------------------------------ MODULE Generator ------------------------------
(***************************************************************************)
(* build with --input: one specification is checked, the pieces it needs   *)
(* are collected and arranged, and the code of its types is made.  Of that *)
(* code the Write functions are modelled, by which separators they write.  *)
(***************************************************************************)
EXTENDS PieceOrder

CONSTANT Specifications     \* What the file read may hold.

VARIABLES
    spec,       \* The specification, one of Specifications.
    phase,      \* Where the script is; refused is exit(4), crashed an exception.
    needed,     \* needed.
    reqs,       \* reqs.
    order,      \* needed once arranged.
    writeOf     \* The lines write_function made for the types.

vars == <<spec, phase, needed, reqs, order, writeOf>>

(* A field of a type that is read or written. *)
IsField(f) ==
    /\ f.format \in Seq(STRING) /\ f.format # <<>>
    /\ {f.required, f.checker, f.accessor} \subseteq BOOLEAN

ASSUME SpecificationAssumption ==
    \A s \in Specifications :
        /\ s.full \in BOOLEAN
        /\ s.requires \subseteq Piece
        /\ \A t \in DOMAIN s.types : \A i \in DOMAIN s.types[t] : IsField(s.types[t][i])
        /\ \A t \in DOMAIN s.generate :
            {s.generate[t].parser, s.generate[t].writer} \subseteq BOOLEAN

Generated == DOMAIN spec.generate
Fields(t) == Range(spec.types[t])
Reads(t) == spec.generate[t].parser
WritesOnly(t) == spec.generate[t].writer /\ ~Reads(t)

(* The lines a Write function has for a field: the separator before it, and *)
(* whether separated is reset after it.                                     *)
Separator == {"never", "always", "unlessSeparated"}
Line == [required : BOOLEAN, separator : Separator, resets : BOOLEAN]

Init ==
    /\ spec \in Specifications
    /\ phase = "check"
    /\ needed = {}
    /\ reqs = {}
    /\ order = <<>>
    /\ writeOf = <<>>

----------------------------------------------------------------------------

(* A format names an external piece or a type that a parser is made for.    *)
FormatFound(f) ==
    IF f \in Piece THEN f \in Externals ELSE f \in Generated /\ Reads(f)

(* The field of a type that is only written says how it is got at. *)
Accessible(f) == f.accessor /\ (f.required \/ f.checker)

Acceptable ==
    /\ Generated \subseteq DOMAIN spec.types
    /\ \A t \in Generated : \A f \in Fields(t) :
        /\ WritesOnly(t) => Accessible(f)
        /\ Reads(t) => \A i \in DOMAIN f.format : FormatFound(f.format[i])

Check ==
    /\ phase = "check"
    /\ phase' = IF Acceptable THEN "need" ELSE "refused"
    /\ UNCHANGED <<spec, needed, reqs, order, writeOf>>

(* What the fields and the specification name, and ParseObject for a type.  *)
Named ==
    spec.requires
    \cup UNION {UNION {Range(f.format) : f \in Fields(t)} : t \in {u \in Generated : Reads(u)}}
    \cup {"ParseObject" : t \in Generated}

(* A name that is not a piece's has no requires: nil['requires'] raises.    *)
Need ==
    /\ phase = "need"
    /\ \/ /\ Named = {}
          /\ needed' = IF spec.full THEN Piece ELSE {}
          /\ phase' = IF spec.full THEN "arrange" ELSE "skipped"
          /\ reqs' = {}
       \/ /\ Named # {} /\ spec.full
          /\ needed' = Named \cup Piece
          /\ phase' = "arrange"
          /\ reqs' = {}
       \/ /\ Named # {} /\ ~spec.full
          /\ needed' = Named \cup Writers
          /\ IF Named \subseteq Piece
             THEN phase' = "close" /\ reqs' = UNION {Requires[n] : n \in needed'}
             ELSE phase' = "crashed" /\ reqs' = {}
    /\ UNCHANGED <<spec, order, writeOf>>

AddsNone == {}
Added == UNION {Requires[n] : n \in reqs}

PushedString == IF \E t \in Generated : Reads(t) THEN {"String"} ELSE {}

NothingToAdd == Added = {}
NoneAdded == Added \subseteq reqs

(* One round of the loop over reqs, the last if nothing was new. *)
Close ==
    /\ phase = "close"
    /\ reqs' = reqs \cup Added
    /\ IF NoneAdded
       THEN /\ needed' = needed \cup reqs' \cup PushedString
            /\ phase' = "arrange"
       ELSE UNCHANGED <<needed, phase>>
    /\ UNCHANGED <<spec, order, writeOf>>

(* Without a pooled piece, rindex is nil and nil + 1 raises. *)
Arrange ==
    /\ phase = "arrange"
    /\ IF needed \subseteq Piece /\ needed \cap Pooled # {}
       THEN phase' = "make" /\ order' = Arranged(needed)
       ELSE phase' = "crashed" /\ UNCHANGED order
    /\ UNCHANGED <<spec, needed, reqs, writeOf>>

----------------------------------------------------------------------------
AllRequired(fields) == \A i \in DOMAIN fields : fields[i].required

AlwaysSeparates(fields, i) == IF i = 1 THEN "never" ELSE "always"

SeparatorBefore(fields, i) ==
    IF i = 1 THEN "never"
    ELSE IF fields[i - 1].required \/ AllRequired(fields) THEN "always"
    ELSE "unlessSeparated"

WriteFunction(fields) ==
    [i \in DOMAIN fields |->
        [required |-> fields[i].required,
         separator |-> SeparatorBefore(fields, i),
         resets |-> ~AllRequired(fields) /\ i # Len(fields)]]

WrittenTypes == {t \in Generated : spec.generate[t].writer}

Make ==
    /\ phase = "make"
    /\ writeOf' = [t \in WrittenTypes |-> WriteFunction(spec.types[t])]
    /\ phase' = "done"
    /\ UNCHANGED <<spec, needed, reqs, order>>

Next == Check \/ Need \/ Close \/ Arrange \/ Make

Spec == Init /\ [][Next]_vars /\ WF_vars(Next)

----------------------------------------------------------------------------
Comma == 0

(* What a Write function writes of an object that has the given fields: the *)
(* places of the fields, and commas.                                        *)
Written(lines, given) ==
    LET Field(before, i) ==
            IF i \notin given THEN before
            ELSE [out |-> before.out
                        \o (IF \/ lines[i].separator = "always"
                               \/ lines[i].separator = "unlessSeparated" /\ ~before.separated
                            THEN <<Comma>> ELSE <<>>)
                        \o <<i>>,
                  separated |-> before.separated /\ ~lines[i].resets]
    IN  FoldLeft(Field, [out |-> <<>>, separated |-> TRUE],
                 [i \in DOMAIN lines |-> i]).out

(* An object is written with a comma between any two fields that are there  *)
(* and no other, whichever of the optional ones are (write_function).       *)
CommasBetweenFields ==
    \A t \in DOMAIN writeOf :
        LET lines == writeOf[t]
        IN  \A given \in SUBSET DOMAIN lines :
                (\A i \in DOMAIN lines : lines[i].required => i \in given) =>
                    LET out == Written(lines, given)
                    IN  /\ SelectSeq(out, LAMBDA c : c # Comma) = SetToSortSeq(given, <)
                        /\ \A i \in DOMAIN out :
                            (out[i] = Comma) <=> (i % 2 = 0)

(* The pieces that are put out are all there are needed: nothing they       *)
(* require is missing, although String comes after the requirements of the  *)
(* others were collected.                                                   *)
NothingMissing ==
    phase \in {"make", "done"} =>
        /\ \A n \in Range(order) : Requires[n] \subseteq Range(order)
        /\ Range(order) = needed /\ Named \subseteq needed

Place(n) == CHOOSE i \in DOMAIN order : order[i] = n

(* Every piece comes after all it requires but ParserPool, and ParserPool   *)
(* after the parsers it holds but before whatever else requires it.         *)
DefinedBeforeUse ==
    phase \in {"make", "done"} =>
        /\ IsInjective(order)
        /\ \A n \in Range(order) : \A r \in (AllRequires[n] \ {n}) \cap Range(order) :
            Place(r) < Place(n) \/ r \in Pools
        /\ \A pool \in Pools \cap Range(order), n \in Range(order) :
            /\ n \in Pooled => Place(n) < Place(pool)
            /\ n \notin Pooled \cup PooledReqs(needed) \cup Pools
               /\ pool \in AllRequires[n] => Place(pool) < Place(n)

(* Both sorts are given an order: compare_pieces is total and has no cycle  *)
(* on the pieces sorted, so the output is the same wherever it is made.     *)
SortsAnOrder ==
    phase = "make" =>
        /\ Ordered(PooledReqs(needed), Others(needed))
        /\ Ordered(PooledReqs(needed), After(needed))

(* The script ends, and with a message or what was asked for: not with an   *)
(* exception (Ruby's, from nil) and not in a loop.                          *)
Ends == <>(phase \in {"done", "skipped", "refused"})

(* README.md:76 "For a writer of type "Foo", there will be a template class *)
(* with indicated field names."                                             *)
WriterIsMade ==
    phase \in {"done", "skipped", "crashed"} => WrittenTypes \subseteq DOMAIN writeOf
=============================================================================
