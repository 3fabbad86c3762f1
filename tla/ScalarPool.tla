------------------------------ MODULE ScalarPool ------------------------------
(***************************************************************************)
(* A pool with a Float and a Bool parser that are given values in turn, as *)
(* by an object that has fields of both.  Each has its own flag and Value, *)
(* and what one leaves in the buffer of the pool the other finds there.    *)
(***************************************************************************)
EXTENDS FloatParser

VARIABLES
    wordFrame, wordLook, wordFinished, wordOut, wordComplete, wordText, wordEmptyFirst

Words == INSTANCE BoolParser WITH
    frame <- wordFrame, look <- wordLook, finished <- wordFinished,
    out <- wordOut, complete <- wordComplete, text <- wordText,
    emptyFirst <- wordEmptyFirst

wordVars ==
    <<wordFrame, wordLook, wordFinished, wordOut, wordComplete, wordText, wordEmptyFirst>>
vars == <<buffer, floatVars, wordVars>>

PoolInit == Init /\ Words!Init

(* The caller goes on with the parser that is not finished. *)
FloatRests == result = "idle"
WordRests == wordFrame = "caller" /\ wordFinished /\ ~wordComplete

(* The pool an exception went through is dropped, and so is one whose input *)
(* ended inside a value; after a crash the program starts anew.             *)
Drop ==
    /\ \/ result \in {"failed", "more"}
       \/ wordFrame \in {"failed", "crashed"}
       \/ wordFrame = "caller" /\ ~wordFinished
    /\ New
    /\ Words!New

Next ==
    \/ WordRests /\ FloatStep /\ UNCHANGED wordVars
    \/ FloatRests /\ Words!BoolStep /\ UNCHANGED floatVars
    \/ Drop

Spec == PoolInit /\ [][Next]_vars

----------------------------------------------------------------------------
(* ParserPool.hpp:8, one buffer for all: it holds the unfinished value and  *)
(* nothing else, so that the next chunk goes on where this one ended and    *)
(* the next value, whichever parser reads it, begins with nothing.          *)
BufferIsUnfinishedValue ==
    result # "failed" /\ wordFrame # "failed" =>
        buffer = IF result = "more" THEN given ELSE Words!UnfinishedWord

(* A Bool is given for exactly the words true and false, wherever the chunk *)
(* ended and whatever was read before with the pool (ParseBool::Parse).     *)
ValueIsWord == Words!ValueIsWord

(* ParseBool::Parse refuses a text only where neither word can follow.      *)
RefusesOnlyNonWords == Words!RefusesOnlyNonWords

----------------------------------------------------------------------------
(* Why these hold: at most one of the parsers is in use, and what is in the *)
(* buffer shows which part of which word the other calls have read.         *)
FloatInv ==
    /\ given \in Seq(Char)
    /\ finished \in BOOLEAN
    /\ result \in {"idle", "more", "done", "failed"}
    /\ used \in Nat
    /\ result = "idle" => finished /\ given = <<>> /\ used = 0
    /\ result = "more" =>
        ~finished /\ given \in Seq(NumChar) /\ used = Len(given)
    /\ result = "more" => given # <<>> \/ emptyFirst
    /\ emptyFirst \in BOOLEAN
    /\ result = "done" => finished

(* Some letters of the word, not all; none after an empty first chunk. *)
PartOf(word) == Len(wordText) \in 1..(Len(word) - 1) /\ Words!Starts(wordText, word)
BegunOf(word) == IF wordEmptyFirst THEN wordText = <<>> ELSE PartOf(word)

WordInv ==
    /\ wordText \in Seq(Words!Letter)
    /\ wordFrame \in {"caller", "call", "word", "failed", "crashed"}
    /\ wordFinished \in BOOLEAN /\ wordComplete \in BOOLEAN /\ wordOut \in BOOLEAN
    /\ wordEmptyFirst \in BOOLEAN
    /\ wordComplete => wordFrame = "caller" /\ wordFinished /\ ValueIsWord
    /\ wordFrame \in {"caller", "call"} /\ ~wordComplete =>
        IF wordFinished THEN wordText = <<>>
        ELSE BegunOf(IF wordText[1] = "t" THEN Words!True ELSE Words!False)
    /\ wordFrame = "word" => BegunOf(Words!Word)

IInv ==
    /\ FloatInv
    /\ WordInv
    /\ FloatRests \/ WordRests
    /\ BufferIsUnfinishedValue
    /\ RefusesOnlyNonWords
    /\ NumeralIsText
    /\ RefusesOnlyNonNumerals
=============================================================================
