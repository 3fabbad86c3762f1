----------------------------- MODULE ObjectTexts -----------------------------
(***************************************************************************)
(* What ParseObject promises about the text it reads, however the text was *)
(* cut into chunks and wherever whitespace stood in it.                    *)
(***************************************************************************)
EXTENDS ObjectParser, ArrayTexts, FiniteSets

CONSTANTS
    MaxItems,   \* Bound: items of an array in the documents known here.
    MaxPairs    \* Bound: pairs of a document known here.

ASSUME DocumentAssumption == MaxItems \in Nat /\ MaxPairs \in Nat

(* The values the texts offered hold, and how they are written. *)
TokenOf(kind) ==
    IF kind = "string" THEN BoundedSeq(Content, MaxToken)
    ELSE BoundedSeq(Digit, MaxToken) \ {<<>>}

ValueText(f, v) == IF Kind[f] = "array" THEN ArrayText(v) ELSE TokenText(Kind[f], v)

KeyText(f) == TokenText("string", Key[f]) \o <<":">>

PairText(p) == KeyText(p.field) \o ValueText(p.field, p.value)

Pair ==
    UNION {[field : {f},
            value : IF Kind[f] = "array" THEN BoundedSeq(TokenOf(ItemKind), MaxItems)
                    ELSE TokenOf(Kind[f])] : f \in Field}

(* The pairs of an object, in order.  A ',' before '}' is taken as well. *)
PairList == BoundedSeq(Pair, MaxPairs)

PairTexts(ps) == [i \in DOMAIN ps |-> PairText(ps[i])]

(* An object whose '}' is still to come, and the same where another pair    *)
(* may follow.                                                              *)
ObjectText(ps) == <<"{">> \o Separated(PairTexts(ps))
BeforePair(ps) == ObjectText(ps) \o Comma(Len(ps) + 1)

Texts(ps) ==
    {ObjectText(ps) \o <<"}">>} \cup
    (IF ps = <<>> THEN {} ELSE {ObjectText(ps) \o <<",", "}">>})

Fields(ps) == {ps[i].field : i \in DOMAIN ps}

LastValue(ps, f) ==
    LET places == {i \in DOMAIN ps : ps[i].field = f}
    IN  ps[CHOOSE i \in places : \A j \in places : j <= i].value

(* What out holds after an object of these pairs. *)
Meaning(ps) ==
    [f \in Field |-> IF f \in Fields(ps)
                     THEN [given |-> TRUE, value |-> LastValue(ps, f)]
                     ELSE [given |-> FALSE, value |-> <<>>]]

Good == {ps \in PairList : Required \subseteq Fields(ps)}

Beginnings == UNION {Prefixes(t) : t \in UNION {Texts(ps) : ps \in Good}}

(* The text up to the character an exception was about. *)
Refused == IF look \in Char THEN Append(text, look) ELSE text

(* Whitespace has ended a number, yet another digit follows. *)
SplitNumber ==
    look \in Digit /\ text # <<>> /\ text[Len(text)] = Gap

----------------------------------------------------------------------------
(* What the pool, the array and the object hold of the text that was read.  *)

(* The parser of a key or value has just returned it. *)
Returned == frame = "object" /\ ret = "pointer"

KeyRead == IF Returned THEN TokenText("string", string.value) ELSE PartRead

ValueRead ==
    IF InArray THEN ArrayRead("object")
    ELSE IF Returned THEN TokenText(Kind[active], PoolValue(Kind[active])) ELSE PartRead

(* The pair being read. *)
PairRead ==
    CASE state = "ExpectKey" -> KeyRead
      [] state = "PreColon" -> TokenText("string", Key[activating])
      [] state = "PreValue" -> KeyText(activating)
      [] state = "ExpectValue" -> KeyText(active) \o ValueRead
      [] OTHER -> <<>>

(* The object being read. *)
ObjectRead ==
    CASE state = "NotStarted" -> <<>>
      [] state = "PreComma" -> ObjectText(pairs)
      [] OTHER -> BeforePair(pairs) \o PairRead

(* All that was read is in the pairs kept and in the pair being read, and   *)
(* the pairs kept are in out.                                               *)
ReadInv ==
    /\ out = Meaning(pairs)
    /\ ~Complete => WithoutGaps(text) = ObjectRead
    /\ Complete => WithoutGaps(text) \in Texts(pairs) /\ Required \subseteq Fields(pairs)
    /\ state = "NotStarted" /\ ~Complete => pairs = <<>>
    /\ state = "PreComma" => pairs # <<>>
    /\ InArray => ArrayOrder /\ (array.began \/ array.out = <<>> \/ Returned)
    /\ StringBusy => string.value = <<>>

(* The inductive invariant behind OutIsWhatWasRead as well. *)
IInv == ControlInv /\ (frame # "failed" => ReadInv)

----------------------------------------------------------------------------
(* When Parse says it is finished, the characters read since the last Swap  *)
(* are an object whose pairs, the last of each key counting, are exactly    *)
(* what out holds: no chunk end loses, repeats or joins anything, nothing   *)
(* is left of an earlier object, and every required field is there.         *)
OutIsWhatWasRead ==
    Complete => /\ WithoutGaps(text) \in Texts(pairs)
                /\ out = Meaning(pairs)
                /\ Required \subseteq Fields(pairs)

(* An exception means that no object with the required fields starts with   *)
(* the text read and the character that was met: no split of a good text is *)
(* refused, and a bad one is refused at the first character it can be.      *)
RefusesOnlyNonObjects ==
    frame = "failed" => SplitNumber \/ WithoutGaps(Refused) \notin Beginnings

(* Between two calls the pool and the object agree on what is going on: a   *)
(* pool parser or the array is unfinished exactly when the text stopped     *)
(* inside the key or value the object's state says is being read.           *)
StopsWhereStateSays ==
    frame = "caller" =>
        /\ ~string.finished =>
            \/ state = "ExpectKey"
            \/ state = "ExpectValue" /\ Kind[active] = "string"
            \/ InArray /\ ItemKind = "string" /\ ~array.finished
        /\ ~number.finished =>
            \/ state = "ExpectValue" /\ Kind[active] = "number"
            \/ InArray /\ ItemKind = "number" /\ ~array.finished
        /\ ~array.finished => InArray /\ array.began
        /\ state \in {"PreKey", "PreColon", "PreValue", "PreComma"} =>
            string.finished /\ number.finished /\ array.out = <<>>
        /\ (state = "NotStarted") <=> (text = <<>> \/ Complete)

(* Every call of Parse returns or throws: none of its loops goes round      *)
(* without moving Begin (under a caller whose chunks end).                  *)
CallReturns == (frame \notin {"caller", "failed"}) ~> (frame \in {"caller", "failed"})

(* The record and the call's outcome, as the caller of ParseObject sees     *)
(* them.                                                                    *)
Record == [f \in {g \in Field : out[g].given} |-> out[f].value]

Status ==
    IF frame = "failed" THEN "refused"
    ELSE IF Complete THEN "complete" ELSE "building"

Builder == INSTANCE RecordBuilder WITH record <- Record, status <- Status

(* ParseObject fills a record one field at a time, is finished only with    *)
(* the required fields, and starts the next object with none.               *)
BuildsRecords == Builder!Spec
=============================================================================
