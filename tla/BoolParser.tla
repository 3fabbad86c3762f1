----------------------------- MODULE BoolParser -----------------------------
(***************************************************************************)
(* ParseBool called chunk after chunk.  It keeps no state of its own: the  *)
(* size of the pool's buffer says how much of the word was seen and its    *)
(* first character which word it is.                                       *)
(***************************************************************************)
EXTENDS Naturals, Sequences

True == <<"t", "r", "u", "e">>
False == <<"f", "a", "l", "s", "e">>
Letter == {"t", "r", "u", "e", "f", "a", "l", "s"}
Other == "other"    \* A character of neither word.
Unread == "unread"
EndOfChunk == "endOfChunk"

Char == Letter \cup {Other}

VARIABLES
    frame,      \* caller; call: at the top of Parse; word: past it; failed;
                \* crashed.
    look,       \* *Begin.
    finished,   \* ValueParser::finished.
    buffer,     \* ParserPool::buffer.
    out,        \* The Bool Value in the pool.
    complete,   \* Whether the last call returned a pointer.
    text,       \* History: what was read of this word.
    emptyFirst  \* History: whether its first chunk was empty.

vars == <<frame, look, finished, buffer, out, complete, text, emptyFirst>>

Word == IF out THEN True ELSE False

Init ==
    /\ frame = "caller"
    /\ look = Unread
    /\ finished = TRUE
    /\ buffer = <<>>
    /\ out = FALSE
    /\ complete = FALSE
    /\ text = <<>>
    /\ emptyFirst = FALSE

(* A character of the chunk, or its end. *)
Feed(c) ==
    /\ frame \in {"call", "word"}
    /\ look = Unread
    /\ look' = c
    /\ UNCHANGED <<frame, finished, buffer, out, complete, text, emptyFirst>>

Push == buffer' = Append(buffer, look)
Read == text' = Append(text, look) /\ look' = Unread

(* setFinished(nullptr, Pool) *)
EmptiesBuffer ==
    /\ finished' = FALSE
    /\ frame' = "caller"
    /\ buffer' = <<>>
    /\ UNCHANGED <<look, text, complete>>

NeedsMore ==
    /\ finished' = FALSE
    /\ frame' = "caller"
    /\ UNCHANGED <<look, buffer, text, complete>>

(* setFinished(Begin + 1, Pool) *)
KeepsBuffer == UNCHANGED buffer
ClearsBuffer == buffer' = <<>>

Done ==
    /\ finished' = TRUE
    /\ ClearsBuffer
    /\ complete' = TRUE
    /\ frame' = "caller"
    /\ Read

Throw ==
    /\ frame' = "failed"
    /\ UNCHANGED <<look, finished, buffer, text, complete>>

Start ==
    /\ frame = "call"
    /\ finished
    /\ look # Unread
    /\ emptyFirst' = (look = EndOfChunk)
    /\ \/ look = EndOfChunk /\ NeedsMore /\ UNCHANGED out
       \/ /\ look \in {"t", "f"}
          /\ out' = (look = "t")
          /\ Push
          /\ Read
          /\ frame' = "word"
          /\ UNCHANGED <<finished, complete>>
       \/ look \in Char \ {"t", "f"} /\ Throw /\ UNCHANGED out

(* buffer.front() of an empty buffer, as an empty first chunk leaves it: any *)
(* character that was there before, or none as it was never allocated.      *)
Resume ==
    /\ frame = "call"
    /\ ~finished
    /\ \/ buffer # <<>> /\ out' = (buffer[1] = "t") /\ frame' = "word"
       \/ buffer = <<>> /\ out' \in BOOLEAN /\ frame' \in {"word", "crashed"}
    /\ UNCHANGED <<look, finished, buffer, complete, text, emptyFirst>>

(* The comparisons for a buffer of one to three characters. *)
Middle ==
    /\ frame = "word"
    /\ Len(buffer) \in 1..3
    /\ look # Unread
    /\ UNCHANGED <<out, emptyFirst>>
    /\ \/ look = EndOfChunk /\ NeedsMore
       \/ look \in Char /\ look # Word[Len(buffer) + 1] /\ Throw
       \/ /\ look = Word[Len(buffer) + 1]
          /\ IF Len(buffer) = 3 /\ out
             THEN Done
             ELSE Push /\ Read /\ UNCHANGED <<frame, finished, complete>>

(* Any other size is taken for that of "fals", also none. *)
Last ==
    /\ frame = "word"
    /\ Len(buffer) \notin 1..3
    /\ look # Unread
    /\ UNCHANGED <<out, emptyFirst>>
    /\ \/ look = EndOfChunk /\ NeedsMore
       \/ look \in Char \ {"e"} /\ Throw
       \/ look = "e" /\ Done

Parse ==
    /\ frame = "caller"
    /\ ~complete
    /\ frame' = "call"
    /\ look' = Unread
    /\ UNCHANGED <<finished, buffer, out, complete, text, emptyFirst>>

Again ==
    /\ frame = "caller"
    /\ complete
    /\ complete' = FALSE
    /\ text' = <<>>
    /\ emptyFirst' = FALSE
    /\ UNCHANGED <<frame, look, finished, buffer, out>>

(* A new pool. *)
New ==
    /\ frame' = "caller"
    /\ look' = Unread
    /\ finished' = TRUE
    /\ buffer' = <<>>
    /\ out' = FALSE
    /\ complete' = FALSE
    /\ text' = <<>>
    /\ emptyFirst' = FALSE

BoolStep ==
    \/ Parse \/ Again
    \/ \E c \in Char \cup {EndOfChunk} : Feed(c)
    \/ Start \/ Resume \/ Middle \/ Last

----------------------------------------------------------------------------
Starts(s, t) == Len(s) <= Len(t) /\ \A i \in DOMAIN s : s[i] = t[i]

(* A value is given for exactly the words, wherever they were split, but    *)
(* after an empty first chunk for an e.                                     *)
ValueIsWord == complete => text = IF emptyFirst THEN <<"e">> ELSE Word

(* An exception means that neither word starts with what was read, or, after *)
(* an empty first chunk, that it is no e.                                   *)
RefusesOnlyNonWords ==
    frame = "failed" =>
        IF emptyFirst THEN text = <<>> /\ look # "e"
        ELSE ~Starts(Append(text, look), True) /\ ~Starts(Append(text, look), False)

(* What of its buffer a later call needs. *)
UnfinishedWord == IF complete THEN <<>> ELSE text
=============================================================================
