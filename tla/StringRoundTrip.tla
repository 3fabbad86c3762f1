--------------------------- MODULE StringRoundTrip ---------------------------
(***************************************************************************)
(* ParseString on any text, or on what Write wrote of a value, in chunks   *)
(* that end anywhere: the two sides of the code agree on the format.       *)
(***************************************************************************)
EXTENDS StringWriter, StringReader, SequencesExt

CONSTANTS
    Alphabet,       \* Characters of the other texts.
    MaxText,        \* Bound: after so many characters only quotes follow.
    ValueAlphabet,  \* Characters of the values.
    MaxValue        \* Bound: their number in a value.

ASSUME AlphabetAssumption == Alphabet \cup ValueAlphabet \subseteq Byte

ASSUME BoundAssumption == MaxText \in Nat /\ MaxValue \in Nat

vars == <<writerVars, parserVars>>

Init == WriterInit /\ ParserInit

(* A value is written instead of the next text. *)
WriteValue ==
    /\ frame = "caller"
    /\ text = <<>>
    /\ finished
    /\ \E v \in BoundedSeq(ValueAlphabet, MaxValue) : Write(v)

(* What Write put out may end with its exception. *)
Sunk == writing \in {"written", "failed"}

FeedText ==
    \/ /\ writing = "idle"
       /\ \E c \in IF Len(text) < MaxText THEN Alphabet ELSE {Quote} : Feed(c)
    \/ Sunk /\ Len(text) < Len(sink) /\ Feed(sink[Len(text) + 1])

Read ==
    /\ writing # "loop"
    /\ Parse \/ StringStep \/ FeedText \/ Feed(EndOfChunk)

(* The parser whose text ends in the middle goes as it was. *)
Abandon ==
    /\ writing = "failed"
    /\ frame = "caller"
    /\ text = sink
    /\ New

(* The text that was written is over once it is read. *)
Renew ==
    /\ Again \/ Drop \/ Abandon
    /\ value' = <<>>
    /\ begin' = 1
    /\ curr' = 1
    /\ sink' = <<>>
    /\ writing' = "idle"

Next ==
    \/ Read /\ UNCHANGED writerVars
    \/ Renew
    \/ (WriteValue \/ WriterStep) /\ UNCHANGED parserVars

(* Calls go on, Write's caller then reads, and every chunk ends, but not    *)
(* each of them before its first character.                                 *)
Spec ==
    /\ Init
    /\ [][Next]_vars
    /\ WF_vars(WriterStep /\ UNCHANGED parserVars)
    /\ WF_vars(Read /\ UNCHANGED writerVars)
    /\ SF_vars(FeedText /\ UNCHANGED writerVars)
    /\ SF_vars(Feed(EndOfChunk) /\ UNCHANGED writerVars)

----------------------------------------------------------------------------
(* Every call of Parse returns or throws, also one that begins in an escape *)
(* or ends in one.                                                          *)
CallReturns == (frame \in {"start", "body"}) ~> (frame \in {"caller", "failed"})

(* What is read is the value that was written, all of it was read, and      *)
(* ParseString never refuses it.  Where Write threw at a control character, *)
(* what it had put out by then is no whole string to any reader.            *)
ReadsWhatWasWritten ==
    /\ Sunk => frame # "failed"
    /\ writing = "written" /\ complete => out = value /\ text = sink
    /\ writing = "failed" => ~complete

(* A value that is written is read in the end, or refused by Write. *)
RoundTripEnds == (writing = "loop") ~> (complete \/ writing = "failed")
=============================================================================
