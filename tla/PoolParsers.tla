----------------------------- MODULE PoolParsers -----------------------------
(***************************************************************************)
(* The ParserPool and its scalar parsers, as the object and array parsers  *)
(* use them: one String parser (keys and string values share it), one      *)
(* integer parser, one Value for each, and one buffer for both.            *)
(*                                                                         *)
(* A chunk [Begin, End) is read a character at a time: look is *Begin once *)
(* the code looks at it, EndOfChunk when Begin = End.  A call that meets   *)
(* the end of its chunk returns nullptr and is taken up by the next call.  *)
(* The nest of running Parse calls is known from its innermost frame: each *)
(* scalar action is given back, the frame of its caller.                   *)
(*                                                                         *)
(* Escapes, signs and ranges are left out here: a string is its characters *)
(* and a number its digits.                                                *)
(***************************************************************************)
EXTENDS Naturals, Sequences

CONSTANTS
    Letter,     \* Characters that only mean something inside a string.
    Digit,      \* Characters of a number.
    Content,    \* Characters the caller's texts put inside strings.
    MaxText,    \* Bound: no string or number starts after this many.
    MaxToken    \* Bound: characters in one string or number.

Mark == {"{", "}", "[", "]", ":", ","}
Quote == "quote"
Blank == "blank"    \* Any character isWhitespace accepts.
Nul == "nul"        \* The character with code zero, inside a chunk.
Gap == "gap"        \* In the history: whitespace that ended a number.
Char == Letter \cup Digit \cup Mark \cup {Quote, Blank, Nul}

Unread == "unread"          \* The code has not looked at *Begin yet.
EndOfChunk == "endOfChunk"  \* Begin = End.

ASSUME CharAssumption ==
    /\ Letter \cap (Digit \cup Mark \cup {Quote, Blank, Nul}) = {}
    /\ Digit \cap (Mark \cup {Quote, Blank, Nul}) = {}
    /\ {Unread, EndOfChunk, Gap} \cap (Letter \cup Digit) = {}
    /\ Content \subseteq Char \ {Quote, Nul}

ASSUME BoundAssumption == MaxText \in Nat /\ MaxToken \in Nat

VARIABLES
    frame,      \* The innermost running Parse call, or its caller, or failed.
    ret,        \* What the call that just returned gave to frame.
    look,       \* The character at Begin.
    text,       \* History: what was read of this document, but only a mark of the whitespace after a number.
    buffer,     \* ParserPool::buffer.
    scan,       \* The digits of [Begin, end) of a number in this chunk.
    string,     \* ParseString and its Value in the pool.
    number      \* The integer parser and its Value in the pool.

poolVars == <<frame, ret, look, text, buffer, scan, string, number>>

ScalarFrame == {"stringStart", "string", "number", "numberRest"}

PoolTypeOK ==
    /\ ret \in {"none", "pointer", "nullptr"}
    /\ look \in Char \cup {Unread, EndOfChunk}
    /\ text \in Seq(Char \cup {Gap})
    /\ buffer \in Seq(Char)
    /\ scan \in Seq(Digit)
    /\ string \in [finished : BOOLEAN, value : Seq(Char)]
    /\ number \in [finished : BOOLEAN, value : Seq(Digit)]

PoolInit ==
    /\ frame = "caller"
    /\ ret = "none"
    /\ look = Unread
    /\ text = <<>>
    /\ buffer = <<>>
    /\ scan = <<>>
    /\ string = [finished |-> TRUE, value |-> <<>>]
    /\ number = [finished |-> TRUE, value |-> <<>>]

(* A new pool: the caller dropped the one an exception went through. *)
NewPool ==
    /\ frame' = "caller"
    /\ ret' = "none"
    /\ look' = Unread
    /\ text' = <<>>
    /\ buffer' = <<>>
    /\ scan' = <<>>
    /\ string' = [finished |-> TRUE, value |-> <<>>]
    /\ number' = [finished |-> TRUE, value |-> <<>>]

----------------------------------------------------------------------------
(* Reading characters. *)

(* Which parser has read part of a value and not finished it. *)
StringBusy == frame = "string" \/ ~string.finished
NumberBusy == frame \in {"number", "numberRest"} \/ ~number.finished

(* What the caller's text may go on with, within the bounds. *)
Offer ==
    CASE StringBusy ->
            {Quote, Nul} \cup (IF Len(buffer) < MaxToken THEN Content ELSE {})
      [] Len(text) >= MaxText -> {Blank, Nul}
      [] Len(scan) >= MaxToken -> Char \ Digit
      [] NumberBusy /\ Len(buffer) >= MaxToken -> Char \ Digit
      [] OTHER -> Char

(* The code looks at *Begin, or finds Begin = End. *)
Feed(c) ==
    /\ frame \notin {"caller", "failed"}
    /\ ret = "none"
    /\ look = Unread
    /\ look' = c
    /\ UNCHANGED <<frame, ret, text, buffer, scan, string, number>>

FeedChar == \E c \in Offer : Feed(c)
FeedEnd == Feed(EndOfChunk)

(* ++Begin past a character of the document, and past whitespace. *)
Advance == text' = Append(text, look) /\ look' = Unread
SkipStays ==
    /\ UNCHANGED <<look, text>>

Skip ==
    /\ look' = Unread
    /\ text' = IF text # <<>> /\ text[Len(text)] \in Digit
               THEN Append(text, Gap) ELSE text

(* The running call returns to frame back: a pointer when its value is      *)
(* complete, nullptr when it needs the next chunk.                          *)
ReturnTo(back, r) == frame' = back /\ ret' = r

(* setFinished with a pointer and the Pool: the next value finds the buffer *)
(* empty.  The other setFinished leaves it alone.                           *)
KeepBuffer == UNCHANGED buffer
ClearBuffer == buffer' = <<>>

(* An exception leaves every running call; what they changed stays.         *)
Throw == frame' = "failed"

----------------------------------------------------------------------------
(* ParseString::Parse. *)

ValueKept == UNCHANGED string
ValueEmptied == string' = [string EXCEPT !.value = <<>>]

(* The first character must be the quote; the pool's Value is emptied. *)
StringStart ==
    /\ frame = "stringStart"
    /\ look \in Char \cup {EndOfChunk}
    /\ IF look = Quote
       THEN /\ ValueEmptied
            /\ frame' = "string"
            /\ Advance
            /\ UNCHANGED <<ret, buffer, scan, number>>
       ELSE /\ Throw
            /\ UNCHANGED <<ret, look, text, buffer, scan, string, number>>

StringChar ==
    /\ frame = "string"
    /\ look \in Char \ {Quote, Nul}
    /\ buffer' = Append(buffer, look)
    /\ Advance
    /\ UNCHANGED <<frame, ret, scan, string, number>>

(* A control character: the only one here is Nul. *)
StringInvalid ==
    /\ frame = "string"
    /\ look = Nul
    /\ Throw
    /\ UNCHANGED <<ret, look, text, buffer, scan, string, number>>

StringClose(back) ==
    /\ frame = "string"
    /\ look = Quote
    /\ string' = [finished |-> TRUE, value |-> string.value \o buffer]
    /\ ClearBuffer
    /\ Advance
    /\ ReturnTo(back, "pointer")
    /\ UNCHANGED <<scan, number>>

StringEnd(back) ==
    /\ frame = "string"
    /\ look = EndOfChunk
    /\ string' = [string EXCEPT !.finished = FALSE]
    /\ ReturnTo(back, "nullptr")
    /\ UNCHANGED <<look, text, buffer, scan, number>>

----------------------------------------------------------------------------
(* parse_integer and the setFinished of ParseInt32::Parse around it. *)

NumberDigit ==
    /\ look \in Digit
    /\ Advance
    /\ \/ frame = "number" /\ scan' = Append(scan, look) /\ UNCHANGED buffer
       \/ frame = "numberRest" /\ buffer' = Append(buffer, look) /\ UNCHANGED scan
    /\ UNCHANGED <<frame, ret, string, number>>

(* The conversion stops at a character of this chunk: the number is all here. *)
NumberDirect(back) ==
    /\ frame = "number"
    /\ look \in Char \ Digit
    /\ scan # <<>>
    /\ number' = [finished |-> TRUE, value |-> scan]
    /\ ClearBuffer
    /\ scan' = <<>>
    /\ ReturnTo(back, "pointer")
    /\ UNCHANGED <<look, text, string>>

NumberInvalid ==
    /\ frame = "number"
    /\ look \in Char \ Digit
    /\ scan = <<>>
    /\ Throw
    /\ UNCHANGED <<ret, look, text, buffer, scan, string, number>>

(* The conversion reached End: the digits so far go to the buffer. *)

NumberEnd(back) ==
    /\ frame \in {"number", "numberRest"}
    /\ look = EndOfChunk
    /\ buffer' = buffer \o scan
    /\ scan' = <<>>
    /\ number' = [number EXCEPT !.finished = FALSE]
    /\ ReturnTo(back, "nullptr")
    /\ UNCHANGED <<look, text, string>>

(* A later chunk shows where the number ends: the buffer is converted. *)
NumberInBuffer == buffer

NumberRestDone(back) ==
    /\ frame = "numberRest"
    /\ look \in Char \ Digit
    /\ number' = [finished |-> TRUE, value |-> NumberInBuffer]
    /\ ClearBuffer
    /\ ReturnTo(back, "pointer")
    /\ UNCHANGED <<look, text, scan, string>>

----------------------------------------------------------------------------
(* What a caller of a pool parser uses. *)

Scalar == {"string", "number"}

Finished(kind) == IF kind = "string" THEN string.finished ELSE number.finished

PoolValue(kind) == IF kind = "string" THEN string.value ELSE number.value

(* The frame in which Parse of a pool parser starts or goes on. *)
EntryFrame(kind) ==
    IF kind = "string"
    THEN IF string.finished THEN "stringStart" ELSE "string"
    ELSE IF number.finished THEN "number" ELSE "numberRest"

ScalarStep(back) ==
    \/ StringStart
    \/ StringChar
    \/ StringInvalid
    \/ StringClose(back)
    \/ StringEnd(back)
    \/ NumberDigit
    \/ NumberDirect(back)
    \/ NumberInvalid
    \/ NumberEnd(back)
    \/ NumberRestDone(back)

----------------------------------------------------------------------------
(* The one buffer serves every parser of the pool (ParserPool.hpp:8), so at *)
(* any moment at most one of them may be part-way through a value, and the  *)
(* buffer holds nothing unless one is.  An exception ends the use of a pool. *)
BufferOwned ==
    frame # "failed" =>
        /\ ~(StringBusy /\ NumberBusy)
        /\ buffer # <<>> => StringBusy \/ NumberBusy
        /\ frame \in {"stringStart", "number"} => buffer = <<>>

(* The inductive strengthening of BufferOwned: how the frames, the parsers' *)
(* flags and the digits in scan belong together.                            *)
PoolInv ==
    /\ ~(StringBusy /\ NumberBusy)
    /\ frame = "stringStart" => string.finished /\ number.finished
    /\ frame = "number" => number.finished
    /\ frame # "number" => scan = <<>>
    /\ buffer # <<>> => StringBusy \/ NumberBusy
    /\ NumberBusy => buffer \in Seq(Digit)
    /\ frame \in {"stringStart", "number"} => buffer = <<>>
    /\ frame \in ScalarFrame => ret = "none"
    /\ ret = "pointer" => string.finished /\ number.finished
=============================================================================
