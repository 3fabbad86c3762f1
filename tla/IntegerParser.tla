---------------------------- MODULE IntegerParser ----------------------------
(***************************************************************************)
(* parse_integer for the integer types, called as the pool's parser of one *)
(* is: chunk after chunk until Finished.  A chunk is converted in     *)
(* place when the number ends inside it; otherwise its characters wait in  *)
(* the pool's buffer.  Characters are their codes.                         *)
(***************************************************************************)
EXTENDS Integers, Sequences, SequencesExt

CONSTANTS
    Types,              \* The types: their range and the characters given to them.
    LongMin, LongMax,   \* The range of intmax_t, what strtoimax converts to.
    ULongMax,           \* The largest uintmax_t.
    MaxText             \* Bound: characters given for one number.

ASSUME TypesAssumption ==
    /\ LongMin \in Int /\ LongMax \in Nat /\ ULongMax \in Nat /\ MaxText \in Nat
    /\ LongMax <= ULongMax
    /\ \A t \in Types :
        /\ t.min \in Int /\ t.max \in Nat
        /\ LongMin <= t.min /\ t.min <= 0 /\ t.max <= ULongMax
        /\ t.min < 0 => t.max <= LongMax

VARIABLES
    type,       \* The parser's type, one of Types.
    finished,   \* ValueParser::finished.
    buffer,     \* ParserPool::buffer.
    out,        \* The type's Value in the pool.
    result,     \* How the last call ended: idle, more, done or failed.
    given,      \* History: the chunks given for this number.
    used,       \* History: how many of their characters it took.
    emptyFirst  \* History: whether the first of them was empty.

vars == <<type, finished, buffer, out, result, given, used, emptyFirst>>

Digit == 48..57
Plus == 43
Minus == 45
Sign == {Plus, Minus}
Space == {9, 10, 11, 12, 13, 32}    \* isspace, wider than isWhitespace.

Signed == type.min < 0

----------------------------------------------------------------------------
(* strtoimax and strtoumax, base 10: the value and the characters taken. *)

(* The first place from i on that is not one of kind; Len(s) + 1 if none. *)
Past(kind, s, i) ==
    CHOOSE j \in i..(Len(s) + 1) :
        /\ \A k \in i..(j - 1) : s[k] \in kind
        /\ j = Len(s) + 1 \/ s[j] \notin kind

Magnitude(digits) ==
    LET upTo[n \in 0..Len(digits)] ==
            IF n = 0 THEN 0 ELSE 10 * upTo[n - 1] + (digits[n] - 48)
    IN  upTo[Len(digits)]

Strto(s) ==
    LET start == Past(Space, s, 1)
        signed == start <= Len(s) /\ s[start] \in Sign
        first == IF signed THEN start + 1 ELSE start
        end == Past(Digit, s, first)
    IN  [chars |-> IF end = first THEN 0 ELSE end - 1,
         minus |-> signed /\ s[start] = Minus /\ end # first,
         size |-> Magnitude(SubSeq(s, first, end - 1))]

----------------------------------------------------------------------------
(* convert_to_integer: what it returns, and whether it returns. *)
SignedValue(n) == IF n.minus THEN -n.size ELSE n.size
UnsignedValue(n) == (IF n.minus THEN -n.size ELSE n.size) % (ULongMax + 1)

Value(s) == IF Signed THEN SignedValue(Strto(s)) ELSE UnsignedValue(Strto(s))

InRange(v) == type.min <= v /\ v <= type.max

NoMinus(s) == s # <<>> => s[1] # Minus

Converts(s) ==
    /\ IF Signed
       THEN Value(s) \in LongMin..LongMax
       ELSE NoMinus(s) /\ Strto(s).size <= ULongMax
    /\ InRange(Value(s))

----------------------------------------------------------------------------
Init ==
    /\ type \in Types
    /\ finished = TRUE
    /\ buffer = <<>>
    /\ out = 0
    /\ result = "idle"
    /\ given = <<>>
    /\ used = 0
    /\ emptyFirst = FALSE

Throw ==
    /\ result' = "failed"
    /\ UNCHANGED used

(* setFinished. *)
NeedsMore ==
    /\ finished' = FALSE
    /\ result' = "more"
    /\ used' = Len(given')

KeepsBuffer == UNCHANGED buffer
ClearsBuffer == buffer' = <<>>

Done(n) ==
    /\ finished' = TRUE
    /\ ClearsBuffer
    /\ result' = "done"
    /\ used' = used + n

NeverLoneSign(chunk) == FALSE
LoneSign(chunk) == Len(chunk) = 1 /\ chunk[1] \in Sign

(* The number starts in this chunk. *)
Direct(chunk) ==
    /\ finished
    /\ LET taken == Strto(chunk).chars
       IN  IF ~Converts(chunk) THEN Throw /\ UNCHANGED <<finished, buffer, out>>
           ELSE /\ out' = Value(chunk)
                /\ \/ /\ taken = 0
                      /\ chunk # <<>>
                      /\ ~LoneSign(chunk)
                      /\ Throw
                      /\ UNCHANGED <<finished, buffer>>
                   \/ /\ taken # 0
                      /\ taken < Len(chunk)
                      /\ Done(taken)
                   \/ /\ taken = Len(chunk) \/ LoneSign(chunk)
                      /\ buffer' = buffer \o chunk
                      /\ NeedsMore

(* All of the buffer must be the number. *)
AnyOfBuffer(s) == TRUE
AllOfBuffer(s) == Strto(s).chars = Len(s)

(* The number started in an earlier chunk. *)
Rest(chunk) ==
    /\ ~finished
    /\ LET n == Past(Digit \cup Sign, chunk, 1) - 1
           number == buffer \o SubSeq(chunk, 1, n)
       IN  IF n = Len(chunk)
           THEN buffer' = number /\ NeedsMore /\ UNCHANGED out
           ELSE IF ~Converts(number)
           THEN Throw /\ buffer' = Append(number, 0) /\ UNCHANGED <<finished, out>>
           ELSE /\ out' = Value(number)
                /\ IF AllOfBuffer(number) THEN Done(n)
                   ELSE Throw /\ buffer' = Append(number, 0) /\ UNCHANGED finished

(* A chunk may be empty, the first one too: the number counts as begun then *)
(* and the next chunk goes on with an empty buffer.                         *)
Parse(chunk) ==
    /\ result \in {"idle", "more"}
    /\ given' = given \o chunk
    /\ emptyFirst' = IF finished THEN chunk = <<>> ELSE emptyFirst
    /\ Direct(chunk) \/ Rest(chunk)

(* The caller uses the value and reads another. *)
Again ==
    /\ result = "done"
    /\ result' = "idle"
    /\ given' = <<>>
    /\ used' = 0
    /\ emptyFirst' = FALSE
    /\ UNCHANGED <<finished, buffer, out>>

(* The pool an exception went through is dropped, and so is one whose input *)
(* ended inside a number.                                                   *)
Drop ==
    /\ result \in {"failed", "more"}
    /\ finished' = TRUE
    /\ buffer' = <<>>
    /\ out' = 0
    /\ result' = "idle"
    /\ given' = <<>>
    /\ used' = 0
    /\ emptyFirst' = FALSE

Next ==
    /\ UNCHANGED type
    /\ \/ \E chunk \in BoundedSeq(type.chars, MaxText - Len(given)) : Parse(chunk)
       \/ Again
       \/ Drop

Spec == Init /\ [][Next]_vars

----------------------------------------------------------------------------
(* A numeral: blanks, a sign the type may have, digits. *)
TypeSign == IF Signed THEN Sign ELSE {Plus}

Denotes(s, v) ==
    \E i, j \in 0..Len(s) :
        /\ i <= j /\ j <= i + 1 /\ j < Len(s)
        /\ \A k \in 1..i : s[k] \in Space
        /\ j = i + 1 => s[j] \in TypeSign
        /\ \A k \in (j + 1)..Len(s) : s[k] \in Digit
        /\ LET size == Magnitude(SubSeq(s, j + 1, Len(s)))
           IN  v = IF j = i + 1 /\ s[j] = Minus THEN -size ELSE size

Taken == SubSeq(given, 1, used)

(* The 0 that no character stands for, with the first chunk empty and then   *)
(* one in which no number begins, as a lone ','.                            *)
ZeroOfNothing == emptyFirst /\ used = 0 /\ out = 0 /\ given[1] \notin Digit \cup Sign

(* The value given is what the characters taken say, however they were      *)
(* split, it is one of the type, and all digits that follow were taken.     *)
(* After an empty first chunk alone it may come from nothing.               *)
ValueIsText ==
    result = "done" =>
        /\ Denotes(Taken, out) \/ ZeroOfNothing
        /\ out \in type.min..type.max
        /\ used < Len(given) /\ given[used + 1] \notin Digit

(* Blanks the array and object parsers do not pass on, and no digit yet. *)
BlanksCutOff ==
    given # <<>> /\ given[1] \in Space /\ \A i \in DOMAIN given : given[i] \notin Digit

(* An exception means that the text neither starts with a numeral the type  *)
(* can hold nor can still become one: one is refused at no split, unless a  *)
(* sign follows it directly.                                                *)
RefusesOnlyNonIntegers ==
    result = "failed" =>
        \/ BlanksCutOff
        \/ ~ \E more \in BoundedSeq(Digit \cap type.chars, 1) :
             LET t == given \o more
             IN  \E n \in 1..Len(t) :
                    /\ \E v \in type.min..type.max : Denotes(SubSeq(t, 1, n), v)
                    /\ n < Len(t) => t[n + 1] \notin Digit \cup Sign

(* ParseInteger.hpp:17 "Avoid returning negation of value." *)
NoNegation ==
    result = "done" /\ ~Signed =>
        out = Magnitude(SelectSeq(Taken, LAMBDA c : c \in Digit))

----------------------------------------------------------------------------
(* The callers skip the blanks before a number.  An unsigned type does not  *)
(* look past any for the minus, and isWhitespace is narrower than isspace.  *)
BlanksSkipped == \A t \in Types : t.min >= 0 => t.chars \cap Space = {}

(* A text whose last characters are digits and signs, blanks before them.   *)
Begun(s) ==
    \E i \in 1..Len(s) :
        /\ \A k \in 1..(i - 1) : s[k] \in Space
        /\ \A k \in i..Len(s) : s[k] \in Digit \cup Sign

(* Why these hold: the buffer has all that was given for the number, and    *)
(* only its last chunk has anything that may end it.                        *)
CallInv ==
    /\ type \in Types
    /\ given \in Seq(type.chars)
    /\ finished \in BOOLEAN
    /\ used \in Nat
    /\ emptyFirst \in BOOLEAN
    /\ result \in {"idle", "more", "done", "failed"}
    /\ result = "idle" => finished /\ buffer = <<>> /\ given = <<>> /\ used = 0
    /\ result = "more" => ~finished /\ buffer = given /\ used = Len(given)
    /\ result = "more" => Begun(given) \/ (emptyFirst /\ given = <<>>)
    /\ result = "done" => finished /\ buffer = <<>>

IInv ==
    /\ CallInv
    /\ BlanksSkipped => ValueIsText
    /\ RefusesOnlyNonIntegers
=============================================================================
