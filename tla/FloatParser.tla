----------------------------- MODULE FloatParser -----------------------------
(***************************************************************************)
(* ParseFloat and ParseDouble, called as the pool's parser of the type is: *)
(* chunk after chunk until Finished.  A number that ends inside its chunk  *)
(* is converted in place, else its characters wait in the pool's buffer.   *)
(* The value of a numeral is its characters here.                          *)
(***************************************************************************)
EXTENDS Naturals, Sequences, FiniteSets, SequencesExt

CONSTANT MaxText    \* Bound: characters given for one number.

ASSUME TextAssumption == MaxText \in Nat

VARIABLES
    finished,   \* ValueParser::finished.
    buffer,     \* ParserPool::buffer, which other parsers use as well.
    out,        \* The type's Value in the pool: the numeral it came from.
    result,     \* How the last call ended: idle, more, done or failed.
    given,      \* History: the chunks given for this number.
    used,       \* History: how many of their characters it took.
    emptyFirst  \* History: whether the first of them was empty.

floatVars == <<finished, out, result, given, used, emptyFirst>>

Digit == {"0"}      \* One stands for all of them.
WithoutPlus == Digit \cup {".", "e", "-"}
NumChar == Digit \cup {".", "e", "+", "-"}
Separator == {",", "blank"}
(* x as in hexadecimals; nan stands for the whole of INF or NAN. *)
Char == {"0", ".", "e", "+", "-", "x", "nan"} \cup Separator

----------------------------------------------------------------------------
(* strtof and strtod: the characters they take, as many as they can. *)

Mantissa(s) ==
    /\ \A i \in DOMAIN s : s[i] \in Digit \cup {"."}
    /\ \E i \in DOMAIN s : s[i] \in Digit
    /\ Cardinality({i \in DOMAIN s : s[i] = "."}) <= 1

Exponent(s) ==
    \E first \in 2..3 :
        /\ first <= Len(s)
        /\ s[1] = "e"
        /\ first = 3 => s[2] \in {"+", "-"}
        /\ \A i \in first..Len(s) : s[i] \in Digit

Decimal(s) ==
    \/ Mantissa(s)
    \/ \E n \in DOMAIN s : Mantissa(SubSeq(s, 1, n)) /\ Exponent(SubSeq(s, n + 1, Len(s)))

Hexadecimal(s) ==
    /\ Len(s) > 2
    /\ s[1] = "0" /\ s[2] = "x"
    /\ \A i \in 3..Len(s) : s[i] \in Digit \cup {"e"}

Unsigned(s) == Decimal(s) \/ Hexadecimal(s) \/ s = <<"nan">>

(* Past the characters of kind that s begins with. *)
Leading(kind, s) ==
    CHOOSE n \in 0..Len(s) :
        /\ \A i \in 1..n : s[i] \in kind
        /\ n = Len(s) \/ s[n + 1] \notin kind

Strto(s) ==
    LET blanks == Leading({"blank"}, s)
        signed == blanks < Len(s) /\ s[blanks + 1] \in {"+", "-"}
        first == IF signed THEN blanks + 2 ELSE blanks + 1
        ends == {n \in first..Len(s) : Unsigned(SubSeq(s, first, n))}
    IN  IF ends = {} THEN 0 ELSE CHOOSE n \in ends : \A m \in ends : m <= n

Converted(s) == SubSeq(s, 1, Strto(s))

----------------------------------------------------------------------------
(* A number that was not begun: Init, and a pool that replaces another. *)
New ==
    /\ finished' = TRUE
    /\ buffer' = <<>>
    /\ out' = <<>>
    /\ result' = "idle"
    /\ given' = <<>>
    /\ used' = 0
    /\ emptyFirst' = FALSE

Init ==
    /\ finished = TRUE
    /\ buffer = <<>>
    /\ out = <<>>
    /\ result = "idle"
    /\ given = <<>>
    /\ used = 0
    /\ emptyFirst = FALSE

Throw ==
    /\ result' = "failed"
    /\ UNCHANGED <<finished, used>>

(* setFinished: the one without the pool leaves the buffer to its callers. *)
NeedsMore ==
    /\ finished' = FALSE
    /\ result' = "more"
    /\ used' = Len(given')

Done(n) ==
    /\ finished' = TRUE
    /\ result' = "done"
    /\ used' = used + n

KeepsBuffer == UNCHANGED buffer
ClearsBuffer == buffer' = <<>>

(* The number ends in this chunk, unless it may be its exponent that follows. *)
EndsBeforeExponent(chunk) == Strto(chunk) \notin {0, Len(chunk)}
EndsHere(chunk) ==
    LET end == Strto(chunk)
    IN  end # 0 /\ end # Len(chunk) /\ chunk[end + 1] # "e"

(* Hexadecimals, INF and NAN have other characters. *)
OnlyNumChars(chunk) == Strto(chunk) <= Leading(NumChar, chunk)

Direct(chunk) ==
    /\ finished
    /\ out' = Converted(chunk)
    /\ LET copied == Leading(NumChar, chunk)
       IN  \/ /\ EndsHere(chunk)
              /\ IF OnlyNumChars(chunk) THEN Done(Strto(chunk)) ELSE Throw
              /\ UNCHANGED buffer
           \/ /\ ~EndsHere(chunk)
              /\ buffer' = buffer \o SubSeq(chunk, 1, copied)
              /\ IF copied = Len(chunk) THEN NeedsMore ELSE Throw

(* All of the buffer must be the number. *)
AllOfBuffer(s) == Strto(s) = Len(s)

(* The number started in an earlier chunk. *)
Rest(chunk) ==
    /\ ~finished
    /\ LET copied == Leading(NumChar, chunk)
           number == buffer \o SubSeq(chunk, 1, copied)
       IN  \/ /\ copied = Len(chunk)
              /\ buffer' = number
              /\ NeedsMore
              /\ UNCHANGED out
           \/ /\ copied # Len(chunk)
              /\ out' = Converted(number)
              /\ IF AllOfBuffer(number) THEN ClearsBuffer /\ Done(copied)
                 ELSE buffer' = Append(number, "zero") /\ Throw

(* A chunk may be empty, the first one too: the number counts as begun then *)
(* and the next chunk goes on with an empty buffer.                         *)
Parse(chunk) ==
    /\ result \in {"idle", "more"}
    /\ given' = given \o chunk
    /\ emptyFirst' = IF finished THEN chunk = <<>> ELSE emptyFirst
    /\ Direct(chunk) \/ Rest(chunk)

(* The caller swaps the value for one of its own and reads another. *)
Again ==
    /\ result = "done"
    /\ result' = "idle"
    /\ out' = <<>>
    /\ given' = <<>>
    /\ used' = 0
    /\ emptyFirst' = FALSE
    /\ UNCHANGED <<finished, buffer>>

FloatStep ==
    \/ \E chunk \in BoundedSeq(Char, MaxText - Len(given)) : Parse(chunk)
    \/ Again

----------------------------------------------------------------------------
(* What ParseFloat takes for a number, a little more than JSON does. *)
Numeral(s) ==
    s # <<>> /\ Decimal(IF s[1] \in {"+", "-"} THEN Tail(s) ELSE s)

(* The 0 that no character stands for, with the first chunk empty and then   *)
(* one in which no number begins, as a lone ','.                            *)
ZeroOfNothing == emptyFirst /\ used = 0 /\ given[1] \notin NumChar

(* The value given is that of the characters taken, these are a decimal     *)
(* numeral and no hexadecimal, INF or NAN, and in no split does it end      *)
(* before a part of it that the next chunk brings, as its exponent.  After  *)
(* an empty first chunk alone it may come from nothing.                     *)
NumeralIsText ==
    result = "done" =>
        /\ out = SubSeq(given, 1, used)
        /\ Numeral(out) \/ ZeroOfNothing
        /\ \A more \in BoundedSeq(NumChar, 1) :
             LET t == given \o more
             IN  \A n \in (used + 1)..Len(t) : ~Numeral(SubSeq(t, 1, n))

(* An exception means that what was given neither starts with a numeral and *)
(* a separator nor can still become one: no split of a number is refused.   *)
RefusesOnlyNonNumerals ==
    result = "failed" =>
        ~ \E more \in BoundedSeq(NumChar, 1) :
            LET t == given \o more
            IN  \E n \in DOMAIN t :
                    /\ Numeral(SubSeq(t, 1, n))
                    /\ n < Len(t) => t[n + 1] \in Separator
=============================================================================
