---------------------------- MODULE StringReader ----------------------------
(***************************************************************************)
(* What the text of a string says: a definition of the characters that a   *)
(* JSON string stands for, to which out of ParseString is compared.        *)
(***************************************************************************)
EXTENDS StringParser

(* JSON's escapes: what may follow a backslash, and what each stands for.   *)
JsonEscape ==
    [c \in {34, 47, 92, 98, 102, 110, 114, 116} |->
        IF c = 98 THEN 8 ELSE IF c = 116 THEN 9 ELSE IF c = 110 THEN 10
        ELSE IF c = 102 THEN 12 ELSE IF c = 114 THEN 13 ELSE c]

JsonHex ==
    [c \in (48..57) \cup (65..70) \cup (97..102) |->
        IF c <= 57 THEN c - 48 ELSE (c % 32) + 9]

(* What n places say in order: each point is so many places wide. *)
InOrder(n, point, width) ==
    LET From[i \in Nat] ==
            IF i \in 1..n THEN <<point[i]>> \o From[i + width[i]] ELSE <<>>
    IN  From[1]

(* The code points that the inside of a string stands for. *)
PointAt(s, i) ==
    IF s[i] # Backslash THEN s[i]
    ELSE IF s[i + 1] # LetterU THEN JsonEscape[s[i + 1]]
    ELSE 4096 * JsonHex[s[i + 2]] + 256 * JsonHex[s[i + 3]]
             + 16 * JsonHex[s[i + 4]] + JsonHex[s[i + 5]]

PointWidth(s, i) ==
    IF s[i] # Backslash THEN 1 ELSE IF s[i + 1] # LetterU THEN 2 ELSE 6

CodePoints(s) ==
    InOrder(Len(s), [i \in 1..Len(s) |-> PointAt(s, i)],
                    [i \in 1..Len(s) |-> PointWidth(s, i)])

(* The code points of bytes in UTF-8. *)
CharAt(s, i) ==
    IF s[i] < 128 THEN s[i]
    ELSE IF s[i] < 224 THEN 64 * (s[i] - 192) + s[i + 1] - 128
    ELSE 4096 * (s[i] - 224) + 64 * (s[i + 1] - 128) + s[i + 2] - 128

CharWidth(s, i) == IF s[i] < 128 THEN 1 ELSE IF s[i] < 224 THEN 2 ELSE 3

Decoded(s) ==
    InOrder(Len(s), [i \in 1..Len(s) |-> CharAt(s, i)],
                    [i \in 1..Len(s) |-> CharWidth(s, i)])

(* Whether a string may begin with a quote and s. *)
PlainByte == 32..255 \ {Quote, Backslash}

MayGoOn(s) ==
    LET Goes[i \in Nat] ==
            \/ i > Len(s)
            \/ i = Len(s) /\ s[i] \in {Quote, Backslash}
            \/ s[i] \in PlainByte /\ Goes[i + 1]
            \/ /\ s[i] = Backslash /\ i < Len(s)
               /\ \/ s[i + 1] \in DOMAIN JsonEscape /\ Goes[i + 2]
                  \/ /\ s[i + 1] = LetterU
                     /\ \A j \in (i + 2)..(i + 5) :
                            j <= Len(s) => s[j] \in DOMAIN JsonHex
                     /\ Goes[i + 6]
    IN  Goes[1]

(* However the text was split, inside an escape or between its four digits  *)
(* too, out is what it says, in UTF-8 (bytes past ASCII are passed on), and *)
(* the next token begins with an empty buffer (ParseString::Parse).         *)
OutIsText ==
    complete /\ Range(text) \subseteq 0..127 =>
        /\ text[1] = Quote /\ text[Len(text)] = Quote
        /\ Decoded(out) = CodePoints(SubSeq(text, 2, Len(text) - 1))
        /\ buffer = <<>>

(* An exception means that no string begins like the text, whatever an      *)
(* earlier chunk ended in: no escape is refused for having been cut.        *)
RefusesOnlyNonStrings ==
    frame = "failed" =>
        \/ text = <<>>
        \/ ~MayGoOn(Append(Tail(text), look))
=============================================================================
