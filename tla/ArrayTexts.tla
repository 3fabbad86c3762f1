------------------------------ MODULE ArrayTexts ------------------------------
(***************************************************************************)
(* How values and arrays of them are written, as texts and not as a parser *)
(* of them.                                                                *)
(***************************************************************************)
EXTENDS ArrayParser, SequencesExt

TokenText(kind, v) == IF kind = "string" THEN <<Quote>> \o v \o <<Quote>> ELSE v

Comma(i) == IF i = 1 THEN <<>> ELSE <<",">>

(* The texts with ',' between them. *)
Separated(texts) == FlattenSeq([i \in DOMAIN texts |-> Comma(i) \o texts[i]])

(* An array whose ']' is still to come, and the same where another text may *)
(* follow.                                                                  *)
Opened(texts) == <<"[">> \o Separated(texts)
Before(texts) == Opened(texts) \o Comma(Len(texts) + 1)

Listed(texts) == Opened(texts) \o <<"]">>

ItemTexts(vs) == [i \in DOMAIN vs |-> TokenText(ItemKind, vs[i])]

ArrayText(vs) == Listed(ItemTexts(vs))

Without(c, s) == FlattenSeq([i \in DOMAIN s |-> IF s[i] = c THEN <<>> ELSE <<s[i]>>])

(* What was read, but for the whitespace that ended numbers. *)
WithoutGaps(t) == Without(Gap, t)

----------------------------------------------------------------------------
(* What the pool and the array hold of the text that was read. *)

(* A value that is not over: a string from its quote on, or digits. *)
PartRead == IF StringBusy THEN <<Quote>> \o buffer ELSE buffer \o scan

(* The item being read, or just read and not yet pushed. *)
ItemRead ==
    IF frame = "arrayLoop" /\ ret = "pointer"
    THEN TokenText(ItemKind, PoolValue(ItemKind)) ELSE PartRead

(* The array being read, or just read and not yet swapped by back. *)
ArrayRead(back) ==
    IF array.began
    THEN IF array.expect THEN Before(ItemTexts(array.out)) \o ItemRead
         ELSE Opened(ItemTexts(array.out))
    ELSE IF frame = back /\ ret = "pointer" THEN ArrayText(array.out) ELSE <<>>

(* The flags of an array and of the pool that ArrayRead depends on. *)
ArrayOrder ==
    /\ frame \in ScalarFrame => array.began /\ array.expect
    /\ frame \in {"arrayFirst", "arrayLoop"} => array.began
    /\ frame = "arrayFirst" => array.out = <<>>
    /\ frame = "arrayLoop" /\ ret # "none" => array.expect
    /\ frame = "array" /\ ~array.began => array.out = <<>>
    /\ array.began /\ array.out = <<>> => array.expect
    /\ ~Finished(ItemKind) => array.began /\ array.expect
    /\ StringBusy => string.value = <<>>
=============================================================================
