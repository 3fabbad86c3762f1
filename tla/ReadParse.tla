------------------------------ MODULE ReadParse ------------------------------
(***************************************************************************)
(* readparse: read_input puts a file in blocks through a                   *)
(* FileDescriptorInput, then parse_input gives block after block to a      *)
(* ParseObject until it is finished, and swaps the values out.  All in one *)
(* thread, so the queue is its list here and each Remove finds what it is  *)
(* for at once; BlockQueue has the threads.                                *)
(***************************************************************************)
EXTENDS ObjectTexts

CONSTANTS
    Document,   \* The files: sequences of characters without Nul.
    BlockSize   \* block_size: what one read may return.

ASSUME FileAssumption ==
    /\ Document \subseteq Seq(Char \ {Nul})
    /\ BlockSize \in Nat \ {0}

VARIABLES
    file,       \* The file named on the command line.
    fd,         \* Its descriptor.
    offset,     \* How much of it read has returned.
    eof,        \* FileDescriptorInput::eof.
    readError,  \* History: whether a read failed for good.
    queue,      \* BlockQueue::queue, first in first; a block without its NUL.
    block,      \* parse_input's block, from Begin on.
    place,      \* reading, parsing, done or aborted.
    values      \* ReadSomethingValues out.

inputVars == <<file, fd, offset, eof, readError>>
mainVars == <<inputVars, queue, block, place, values>>
allVars == <<vars, mainVars>>

NoFile == -1    \* open failed.

(* main, up to its call of read_input. *)
MainInit ==
    /\ Init
    /\ file \in Document
    /\ fd \in {3, NoFile}
    /\ offset = 0
    /\ eof = FALSE
    /\ readError = FALSE
    /\ queue = <<>>
    /\ block = <<>>
    /\ place = "reading"
    /\ values = NothingGiven

----------------------------------------------------------------------------
(* FileDescriptorInput::Read in the loop of read_input. *)
InputLoop == place = "reading" /\ ~eof

(* FD_SET(-1) is undefined; a library that checks it aborts. *)
Abort ==
    /\ InputLoop
    /\ fd = NoFile
    /\ place' = "aborted"
    /\ UNCHANGED <<vars, inputVars, queue, block, values>>

(* 0 < count <= block_size: resize, the NUL past the block, and Add. *)
Block(count) == SubSeq(file, offset + 1, offset + count)

AddedFirst(b) == <<b>> \o queue
Added(b) == Append(queue, b)

Got(count) ==
    /\ InputLoop
    /\ fd # NoFile
    /\ offset + count <= Len(file)
    /\ offset' = offset + count
    /\ queue' = Added(Block(count))
    /\ UNCHANGED <<vars, file, fd, eof, readError, block, place, values>>

(* Why there is no character.  notYet: pselect's 0, EAGAIN and EINTR.  For  *)
(* descriptor -1 it is the only answer, as pselect is asked about none.     *)
Answer == {"notYet", "end", "error"}

AnyEndsInput(answer) == TRUE
EndsInput(answer) == answer \in {"end", "error"}

GotNone(answer) ==
    /\ InputLoop
    /\ answer # "notYet" => fd # NoFile
    /\ answer = "end" => offset = Len(file)
    /\ eof' = EndsInput(answer)
    /\ readError' = (answer = "error")
    /\ UNCHANGED <<vars, file, fd, offset, queue, block, place, values>>

(* End, close, and on to parse_input. *)
ReadAll ==
    /\ place = "reading"
    /\ eof
    /\ place' = "parsing"
    /\ UNCHANGED <<vars, inputVars, queue, block, values>>

----------------------------------------------------------------------------
(* parse_input. *)
Parses == place = "parsing" /\ frame = "caller"

TakeBlock ==
    /\ Parses
    /\ queue # <<>>
    /\ Parse
    /\ block' = Head(queue)
    /\ queue' = Tail(queue)
    /\ UNCHANGED <<inputVars, place, values>>

FeedBlock ==
    /\ place = "parsing"
    /\ \/ block # <<>> /\ Feed(Head(block)) /\ block' = Tail(block)
       \/ block = <<>> /\ FeedEnd /\ UNCHANGED block
    /\ UNCHANGED <<array, objectVars, inputVars, queue, place, values>>

ParseBlock ==
    /\ place = "parsing"
    /\ ObjectStep
    /\ UNCHANGED mainVars

(* Also when there is no block left for a parser that is not finished. *)
OnlyFinished == Complete
OneBlock == Complete \/ text # <<>>
LeavesLoop == Complete \/ queue = <<>>

SwapOut ==
    /\ Parses
    /\ LeavesLoop
    /\ values' = out
    /\ place' = "done"
    /\ UNCHANGED <<vars, inputVars, queue, block>>

Reading ==
    \/ \E count \in 1..BlockSize : Got(count)
    \/ \E answer \in Answer : GotNone(answer)
    \/ ReadAll

Parsing == TakeBlock \/ FeedBlock \/ ParseBlock \/ SwapOut

MainNext == Abort \/ Reading \/ Parsing

(* The program runs, and a read of a file does not answer notYet for ever,  *)
(* which changes nothing and so is no step that fairness counts.            *)
MainSpec ==
    /\ MainInit
    /\ [][MainNext]_allVars
    /\ WF_allVars(Reading)
    /\ WF_allVars(Parsing)

----------------------------------------------------------------------------
WithoutBlanks(s) == Without(Blank, s)
Delivered == WithoutBlanks(SubSeq(file, 1, offset))

(* What was read begins with these pairs, and the last value is over. *)
Over(ps) ==
    \/ ps = <<>>
    \/ IsPrefix(WithoutBlanks(ObjectText(ps)), Delivered) /\ Kind[Last(ps).field] # "number"
    \/ \E m \in {",", "}"} : IsPrefix(WithoutBlanks(Append(ObjectText(ps), m)), Delivered)

(* What comes of a file depends on what was read of it, and not on how it   *)
(* came in blocks.  parse_input gets the values of the object if that is    *)
(* whole, and of the pairs that are over if it is not (readparse.cpp swaps  *)
(* all the same); it ends with an exception only if no object begins so.    *)
FileDecides ==
    /\ place = "done" =>
        IF Complete
        THEN \E ps \in Good : \E t \in Texts(ps) :
                IsPrefix(WithoutBlanks(t), Delivered) /\ values = Meaning(ps)
        ELSE \E ps \in PairList :
                /\ values = Meaning(ps)
                /\ ps # <<>> => IsPrefix(WithoutBlanks(ObjectText(ps)), Delivered)
                /\ \A qs \in PairList : Over(qs) => Len(qs) <= Len(ps)
    /\ frame = "failed" => Delivered \notin Beginnings

(* Between read and the parser no character is lost, repeated or put in     *)
(* another place: what was parsed, the character at Begin, the rest of the  *)
(* block and the blocks in the queue are the file as far as it was read,    *)
(* also when the parser has thrown.  That is all of the file once the input *)
(* has ended, unless a read failed: nothing to read yet is not its end.     *)
Looked == IF look \in Char THEN <<look>> ELSE <<>>
OnTheWay == WithoutGaps(text) \o Looked \o block \o FlattenSeq(queue)

BlocksAreTheFile ==
    /\ WithoutBlanks(OnTheWay) = Delivered
    /\ eof /\ ~readError => offset = Len(file)

(* What main gets are the values of the pairs of an object that the file    *)
(* begins with, required ones included, or, where all of the file that was  *)
(* read came before its end, those of the pairs that were over.             *)
ValuesAreTheFile ==
    place = "done" =>
        /\ values = Meaning(pairs)
        /\ IF Complete
           THEN /\ Required \subseteq Fields(pairs)
                /\ \E t \in Texts(pairs) : IsPrefix(WithoutBlanks(t), Delivered)
           ELSE WithoutBlanks(ObjectRead) = Delivered

MainTypeOK ==
    /\ file \in Document
    /\ offset \in 0..Len(file)
    /\ eof \in BOOLEAN /\ readError \in BOOLEAN
    /\ queue \in Seq(Seq(Char \ {Nul}))
    /\ block \in Seq(Char \ {Nul})
    /\ place \in {"reading", "parsing", "done", "aborted"}

(* A call that needs the next chunk has used up its block.                  *)
BlockInv ==
    /\ look # Nul
    /\ look = EndOfChunk => block = <<>>
    /\ ret = "nullptr" => look = EndOfChunk
    /\ frame = "caller" => look \notin Char /\ (Complete \/ block = <<>>)

(* The inductive invariant behind both. *)
MainInv ==
    /\ IInv
    /\ MainTypeOK
    /\ place # "parsing" => frame = "caller"
    /\ place = "done" => values = out /\ (Complete \/ queue = <<>>)
    /\ BlockInv
    /\ BlocksAreTheFile

(* With a file that was opened the program comes to an end, with values or  *)
(* an exception, also if it ends before the object does.                    *)
ProgramEnds == fd # NoFile => <>(place = "done" \/ frame = "failed")

(* InputChannel.hpp:21 "Return true if the channel has closed." of Ended:   *)
(* also when there is none, since the file could not be opened.             *)
InputEnds == (place = "reading") ~> (place # "reading")
=============================================================================
