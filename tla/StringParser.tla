---------------------------- MODULE StringParser ----------------------------
(***************************************************************************)
(* ParseString with its escapes.  Characters and bytes are their codes; a  *)
(* chunk may end in the middle of an escape, whose state the parser keeps. *)
(***************************************************************************)
EXTENDS Naturals, Sequences, Functions

VARIABLES
    frame,      \* caller; start: at the top of Parse; body: in its loop; failed.
    look,       \* *Begin.
    finished,   \* ValueParser::finished.
    state,      \* Normal, Escaped or Unicode.
    hexDigits,  \* hex_digits, the first count of them.
    buffer,     \* ParserPool::buffer.
    out,        \* The String Value in the pool.
    complete,   \* Whether the last call returned a pointer.
    text        \* History: what was read of this string.

parserVars == <<frame, look, finished, state, hexDigits, buffer, out, complete, text>>

Byte == 0..255
Quote == 34
Backslash == 92
LetterU == 117
Unread == 256
EndOfChunk == 257

(* The characters an escape may have, and what they stand for. *)
Escape ==
    [c \in {Quote, 47, Backslash, 98, 102, 110, 114, 116} |->
        CASE c = 98 -> 8 [] c = 102 -> 12 [] c = 110 -> 10 [] c = 114 -> 13
          [] c = 116 -> 9 [] OTHER -> c]

HexUpper == (48..57) \cup (65..70)
Hex == (48..57) \cup (97..102) \cup (65..70)
HexValue(c) == IF c < 65 THEN c - 48 ELSE IF c < 97 THEN c - 55 ELSE c - 87

ParserInit ==
    /\ frame = "caller"
    /\ look = Unread
    /\ finished = TRUE
    /\ state = "Normal"
    /\ hexDigits = <<>>
    /\ buffer = <<>>
    /\ out = <<>>
    /\ complete = FALSE
    /\ text = <<>>

----------------------------------------------------------------------------
(* The code looks at *Begin, or finds Begin = End. *)
Feed(c) ==
    /\ frame \in {"start", "body"}
    /\ look = Unread
    /\ c = EndOfChunk => frame = "body"
    /\ look' = c
    /\ UNCHANGED <<frame, finished, state, hexDigits, buffer, out, complete, text>>

Advance == text' = Append(text, look) /\ look' = Unread

Throw ==
    /\ frame' = "failed"
    /\ UNCHANGED <<look, finished, buffer, out, complete, text>>

Start ==
    /\ frame = "start"
    /\ look # Unread
    /\ IF look = Quote
       THEN /\ out' = <<>>
            /\ frame' = "body"
            /\ Advance
            /\ UNCHANGED <<finished, state, hexDigits, buffer, complete>>
       ELSE Throw /\ UNCHANGED <<state, hexDigits>>

Plain ==
    /\ frame = "body"
    /\ state = "Normal"
    /\ look \in Byte \ {Quote, Backslash}
    /\ IF look >= 32
       THEN /\ buffer' = Append(buffer, look)
            /\ Advance
            /\ UNCHANGED <<frame, finished, state, hexDigits, out, complete>>
       ELSE Throw /\ UNCHANGED <<state, hexDigits>>

KeepsBuffer == UNCHANGED buffer
ClearsBuffer == buffer' = <<>>

Close ==
    /\ frame = "body"
    /\ state = "Normal"
    /\ look = Quote
    /\ out' = out \o buffer
    /\ finished' = TRUE
    /\ ClearsBuffer
    /\ complete' = TRUE
    /\ frame' = "caller"
    /\ Advance
    /\ UNCHANGED <<state, hexDigits>>

Begin ==
    /\ frame = "body"
    /\ state = "Normal"
    /\ look = Backslash
    /\ state' = "Escaped"
    /\ Advance
    /\ UNCHANGED <<frame, finished, hexDigits, buffer, out, complete>>

Escaped ==
    /\ frame = "body"
    /\ state = "Escaped"
    /\ look \in Byte
    /\ \/ /\ look \in DOMAIN Escape
          /\ state' = "Normal"
          /\ buffer' = Append(buffer, Escape[look])
          /\ Advance
          /\ UNCHANGED <<frame, finished, hexDigits, out, complete>>
       \/ /\ look = LetterU
          /\ state' = "Unicode"
          /\ Advance
          /\ UNCHANGED <<frame, finished, hexDigits, buffer, out, complete>>
       \/ /\ look \notin DOMAIN Escape \cup {LetterU}
          /\ state' = "Normal"
          /\ Throw
          /\ UNCHANGED hexDigits

(* The bytes of a character of four hex digits. *)
Utf8TwoOnly(v) ==
    IF v < 128 THEN <<v>> ELSE <<192 + ((v \div 64) % 32), 128 + (v % 64)>>

Utf8(v) ==
    IF v < 128 THEN <<v>>
    ELSE IF v < 2048 THEN <<192 + ((v \div 64) % 32), 128 + (v % 64)>>
    ELSE <<224 + ((v \div 4096) % 16), 128 + ((v \div 64) % 64), 128 + (v % 64)>>

FourDigits(h) ==
    4096 * HexValue(h[1]) + 256 * HexValue(h[2]) + 16 * HexValue(h[3]) + HexValue(h[4])

DigitsDone == hexDigits' = <<>>

(* Only the fourth digit shows whether the four are digits. *)
Unicode ==
    /\ frame = "body"
    /\ state = "Unicode"
    /\ look \in Byte
    /\ LET h == Append(hexDigits, look)
       IN  IF Len(h) < 4
           THEN /\ hexDigits' = h
                /\ Advance
                /\ UNCHANGED <<frame, finished, state, buffer, out, complete>>
           ELSE /\ DigitsDone
                /\ state' = "Normal"
                /\ IF Range(h) \subseteq Hex
                   THEN /\ buffer' = buffer \o Utf8(FourDigits(h))
                        /\ Advance
                        /\ UNCHANGED <<frame, finished, out, complete>>
                   ELSE Throw

(* return setFinished(nullptr, Pool) *)
KeepsState == UNCHANGED <<state, hexDigits>>

Suspend ==
    /\ finished' = FALSE
    /\ frame' = "caller"
    /\ KeepsState
    /\ UNCHANGED <<look, buffer, out, complete, text>>

ChunkEndsInNormal ==
    /\ frame = "body"
    /\ look = EndOfChunk
    /\ IF state = "Normal" THEN Suspend ELSE UNCHANGED parserVars

ChunkEnds ==
    /\ frame = "body"
    /\ look = EndOfChunk
    /\ Suspend

StringStep ==
    Start \/ Plain \/ Close \/ Begin \/ Escaped \/ Unicode \/ ChunkEnds

Parse ==
    /\ frame = "caller"
    /\ ~complete
    /\ frame' = IF finished THEN "start" ELSE "body"
    /\ look' = Unread
    /\ UNCHANGED <<finished, state, hexDigits, buffer, out, complete, text>>

(* The caller swaps out for a string of its own and reads another. *)
OwnString == {<<>>, <<LetterU>>}

Again ==
    /\ frame = "caller"
    /\ complete
    /\ complete' = FALSE
    /\ text' = <<>>
    /\ out' \in OwnString
    /\ UNCHANGED <<frame, look, finished, state, hexDigits, buffer>>

(* A new pool. *)
New ==
    /\ frame' = "caller"
    /\ look' = Unread
    /\ finished' = TRUE
    /\ state' = "Normal"
    /\ hexDigits' = <<>>
    /\ buffer' = <<>>
    /\ out' = <<>>
    /\ complete' = FALSE
    /\ text' = <<>>

(* The pool an exception went through is dropped. *)
Drop == frame = "failed" /\ New
=============================================================================
