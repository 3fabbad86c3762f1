----------------------------- MODULE BlockQueue -----------------------------
(***************************************************************************)
(* BlockQueue between the thread that runs read_input and threads that     *)
(* take blocks with Remove, wait for them if they want to, and give the    *)
(* emptied ones back to be filled again.                                   *)
(*                                                                         *)
(* What a method does with the mutex held is one step, up to where it      *)
(* waits.  waiter.wait gives up the mutex and sleeps in one step, later    *)
(* than the test of queue and ended before it.  End takes no mutex: the    *)
(* write to ended, an unsynchronised bool, may reach the other threads     *)
(* before or after the notification.                                       *)
(***************************************************************************)
EXTENDS Naturals, Sequences, FiniteSets

CONSTANTS
    Consumer,   \* The threads that call Remove.
    Block,      \* Where the blocks are: the addresses new Block() may give.
    Chunk,      \* What a block can be filled with.
    Zeros,      \* What a new block holds.
    NoBlock,    \* A null BlockPtr.
    MaxChunks   \* Bound: blocks the input fills.

ASSUME ConsumerAssumption == IsFiniteSet(Consumer)
ASSUME BlockAssumption == NoBlock \notin Block /\ Zeros \notin Chunk
ASSUME ChunkBound == MaxChunks \in Nat

VARIABLES
    queue,      \* BlockQueue::queue, its front first.
    available,  \* BlockQueue::available.
    ended,      \* BlockQueue::ended, as the consumers see it.
    content,    \* What each block holds.
    reader,     \* Where read_input is.
    filled,     \* Its buffer.
    consumer,   \* Where each consumer is.
    held,       \* The BlockPtr of each consumer.
    added,      \* History: the chunks put in the queue.
    taken       \* History: the chunks taken from it.

queueVars == <<queue, available, ended>>
readerVars == <<reader, filled>>
consumerVars == <<consumer, held>>
history == <<added, taken>>
vars == <<queueVars, content, readerVars, consumerVars, history>>

(* fill: in the loop; add: calls Add; notify: in Add, the mutex released;   *)
(* end: calls End; stored, notified: half of End has taken effect.          *)
ReaderPlace == {"fill", "add", "notify", "end", "stored", "notified", "done"}

(* call: calls Remove; check: has the mutex, found nothing and is about to  *)
(* wait; waiting; woken: needs the mutex to go on; use: reads its block;    *)
(* null: got none, calls Ended; empty: Ended saw ended; done.               *)
ConsumerPlace == {"call", "check", "waiting", "woken", "use", "null", "empty", "done"}

At(place) == {c \in Consumer : consumer[c] = place}
MutexFree == At("check") = {}

InQueue == {queue[i] : i \in DOMAIN queue}
Referenced == InQueue \cup {available, filled} \cup {held[c] : c \in Consumer}
Fresh == Block \ Referenced

TypeOK ==
    /\ queue \in Seq(Block)
    /\ available \in Block \cup {NoBlock}
    /\ ended \in BOOLEAN
    /\ content \in [Block -> Chunk \cup {Zeros}]
    /\ reader \in ReaderPlace
    /\ filled \in Block \cup {NoBlock}
    /\ consumer \in [Consumer -> ConsumerPlace]
    /\ held \in [Consumer -> Block \cup {NoBlock}]
    /\ added \in Seq(Chunk)
    /\ taken \in Seq(Chunk)

----------------------------------------------------------------------------
Init ==
    /\ queue = <<>>
    /\ available = NoBlock
    /\ ended = FALSE
    /\ content = [b \in Block |-> Zeros]
    /\ reader = "fill"
    /\ filled = NoBlock
    /\ consumer = [c \in Consumer |-> "call"]
    /\ held = [c \in Consumer |-> NoBlock]
    /\ added = <<>>
    /\ taken = <<>>

----------------------------------------------------------------------------
(* read_input. *)

(* Input.Read put something in the buffer, a new one the first time. *)
Fill ==
    /\ reader = "fill"
    /\ Len(added) < MaxChunks
    /\ filled' \in (IF filled = NoBlock THEN Fresh ELSE {filled})
    /\ \E chunk \in Chunk : content' = [content EXCEPT ![filled'] = chunk]
    /\ reader' = "add"
    /\ UNCHANGED <<queueVars, consumerVars, history>>

(* Add up to the unlock; it returns the recycled block or a new one. *)
StaysAvailable == UNCHANGED available
AvailableReset == available' = NoBlock

Add ==
    /\ reader = "add"
    /\ MutexFree
    /\ queue' = <<filled>> \o queue
    /\ IF available = NoBlock
       THEN filled' \in Fresh /\ UNCHANGED available
       ELSE filled' = available /\ AvailableReset
    /\ added' = Append(added, content[filled])
    /\ reader' = "notify"
    /\ UNCHANGED <<ended, content, consumerVars, taken>>

WakesNobody == UNCHANGED consumer
WakesOne ==
    IF At("waiting") = {} THEN UNCHANGED consumer
    ELSE \E c \in At("waiting") : consumer' = [consumer EXCEPT ![c] = "woken"]

NotifyOne ==
    /\ reader = "notify"
    /\ WakesOne
    /\ reader' = "fill"
    /\ UNCHANGED <<queueVars, content, filled, held, history>>

InputEnds ==
    /\ reader = "fill"
    /\ reader' = "end"
    /\ UNCHANGED <<queueVars, content, filled, consumerVars, history>>

(* End. *)
StoreEnded ==
    /\ \/ reader = "end" /\ reader' = "stored"
       \/ reader = "notified" /\ reader' = "done"
    /\ ended' = TRUE
    /\ UNCHANGED <<queue, available, content, filled, consumerVars, history>>

NotifyAll ==
    /\ \/ reader = "end" /\ reader' = "notified"
       \/ reader = "stored" /\ reader' = "done"
    /\ consumer' = [c \in Consumer |->
                        IF consumer[c] = "waiting" THEN "woken" ELSE consumer[c]]
    /\ UNCHANGED <<queueVars, content, filled, held, history>>

----------------------------------------------------------------------------
(* A consumer. *)

(* dequeue with something in the queue; c has the mutex. *)
DequeueNewest(c) ==
    /\ queue # <<>>
    /\ held' = [held EXCEPT ![c] = Head(queue)]
    /\ queue' = Tail(queue)
    /\ taken' = Append(taken, content[Head(queue)])
    /\ consumer' = [consumer EXCEPT ![c] = "use"]

Dequeue(c) ==
    LET last == Len(queue)
    IN  /\ queue # <<>>
        /\ held' = [held EXCEPT ![c] = queue[last]]
        /\ queue' = SubSeq(queue, 1, last - 1)
        /\ taken' = Append(taken, content[queue[last]])
        /\ consumer' = [consumer EXCEPT ![c] = "use"]

DequeueNothing(c) ==
    /\ queue = <<>>
    /\ held' = [held EXCEPT ![c] = NoBlock]
    /\ consumer' = [consumer EXCEPT ![c] = "null"]
    /\ UNCHANGED <<queue, taken>>

(* Remove(Emptied, ...) keeps the block if no other waits to be filled. *)
Recycled(c) ==
    available' \in IF available = NoBlock THEN {NoBlock, held[c]} ELSE {available}

(* Both forms of Remove, waiting for a block or not. *)
Remove(c) ==
    /\ consumer[c] = "call"
    /\ MutexFree
    /\ Recycled(c)
    /\ \/ Dequeue(c)
       \/ DequeueNothing(c)
       \/ /\ queue = <<>>
          /\ ~ended
          /\ consumer' = [consumer EXCEPT ![c] = "check"]
          /\ UNCHANGED <<queue, held, taken>>
    /\ UNCHANGED <<ended, content, readerVars, added>>

Wait(c) ==
    /\ consumer[c] = "check"
    /\ consumer' = [consumer EXCEPT ![c] = "waiting"]
    /\ UNCHANGED <<queueVars, content, readerVars, held, history>>

(* A condition variable may also wake by itself. *)
Spurious(c) ==
    /\ consumer[c] = "waiting"
    /\ consumer' = [consumer EXCEPT ![c] = "woken"]
    /\ UNCHANGED <<queueVars, content, readerVars, held, history>>

(* dequeue(lock, false): a woken thread does not wait again. *)
GoOn(c) ==
    /\ consumer[c] = "woken"
    /\ MutexFree
    /\ Dequeue(c) \/ DequeueNothing(c)
    /\ UNCHANGED <<available, ended, content, readerVars, added>>

Use(c) ==
    /\ consumer[c] = "use"
    /\ consumer' = [consumer EXCEPT ![c] = "call"]
    /\ UNCHANGED <<queueVars, content, readerVars, held, history>>

(* Ended: the flag without the mutex, then Empty with it. *)
SeeEnded(c) ==
    /\ consumer[c] = "null"
    /\ consumer' = [consumer EXCEPT ![c] = IF ended THEN "empty" ELSE "call"]
    /\ UNCHANGED <<queueVars, content, readerVars, held, history>>

SeesNoMore(c) ==
    /\ consumer[c] = "empty"
    /\ consumer' = [consumer EXCEPT ![c] = "done"]
    /\ UNCHANGED <<queueVars, content, readerVars, held, history>>

SeeEmpty(c) ==
    /\ consumer[c] = "empty"
    /\ MutexFree
    /\ consumer' = [consumer EXCEPT ![c] = IF queue = <<>> THEN "done" ELSE "call"]
    /\ UNCHANGED <<queueVars, content, readerVars, held, history>>

----------------------------------------------------------------------------
(* What read_input does without waiting for its input. *)
ReaderStep == Add \/ NotifyOne \/ StoreEnded \/ NotifyAll

ConsumerStep(c) ==
    Remove(c) \/ Wait(c) \/ GoOn(c) \/ Use(c) \/ SeeEnded(c) \/ SeeEmpty(c)

Next ==
    \/ ReaderStep \/ Fill \/ InputEnds
    \/ \E c \in Consumer : ConsumerStep(c) \/ Spurious(c)

(* Threads run, and one that finds the mutex free again and again gets it. *)
(* The input may stop for ever without ending.                              *)
Spec ==
    /\ Init
    /\ [][Next]_vars
    /\ SF_vars(ReaderStep)
    /\ \A c \in Consumer : SF_vars(ConsumerStep(c))

----------------------------------------------------------------------------
(* A block never has two users.  Remove keeps Emptied without taking it     *)
(* away from the caller, and Add takes the filled block while read_input    *)
(* still has it; yet the one being filled, the one to be recycled, those in *)
(* the queue and those the consumers use or may give back all differ.       *)
Holding == {c \in At("call") \cup At("use") : held[c] # NoBlock}
HeldBlocks == {held[c] : c \in Holding}

OneOwner ==
    /\ \A i, j \in DOMAIN queue : queue[i] = queue[j] => i = j
    /\ \A c, d \in Holding : held[c] = held[d] => c = d
    /\ InQueue \cap HeldBlocks = {}
    /\ available # NoBlock => available \notin InQueue \cup HeldBlocks \cup {filled}
    /\ filled # NoBlock => filled \notin InQueue \cup HeldBlocks

(* No consumer sleeps while blocks are left for it: for each block in the   *)
(* queue there is a woken thread yet to look or the notification Add still  *)
(* owes.  Wakeups that come by themselves, and consumers that take a block  *)
(* another was woken for, do not break this.                                *)
Owed == Cardinality(At("woken")) + (IF reader = "notify" THEN 1 ELSE 0)

NoSleeperForgotten == At("waiting") # {} => Len(queue) <= Owed

(* A consumer that was told the queue has ended has left nothing behind:    *)
(* every chunk was taken, although ended is read without the mutex and the  *)
(* queue tested only later.                                                 *)
EndedMeansAllTaken ==
    \A c \in Consumer :
        consumer[c] = "done" => taken = added /\ reader \in {"stored", "done"}

(* The chunks come out once each, in order, as they were put in. *)
Channel == INSTANCE BlockChannel WITH sent <- added, received <- taken

DeliversInOrder == Channel!Spec

(* What the queue holds are the last chunks added, those before it were     *)
(* taken: the inductive invariant behind DeliversInOrder.                   *)
InFlight ==
    /\ Len(added) = Len(taken) + Len(queue)
    /\ \A i \in DOMAIN taken : taken[i] = added[i]
    /\ \A i \in DOMAIN queue : content[queue[i]] = added[Len(added) - i + 1]

(* How the places of the threads and the state they leave belong together. *)
Places ==
    /\ reader = "add" => filled \in Block /\ content[filled] \in Chunk
    /\ ended => reader \in {"stored", "done"}
    /\ At("check") # {} => queue = <<>>
    /\ \A c \in Consumer : consumer[c] \in {"empty", "done"} => ended
    /\ At("done") # {} => queue = <<>>
    /\ \A c \in At("null") \cup At("empty") : held[c] = NoBlock

IInv ==
    /\ TypeOK
    /\ Places
    /\ OneOwner
    /\ InFlight
    /\ NoSleeperForgotten

(* Whatever was added is taken in the end. *)
EveryChunkTaken ==
    \A n \in 1..MaxChunks : (Len(added) >= n) ~> (Len(taken) >= n)

(* BlockQueue.hpp:42 says of Remove "These return nullptrs if nothing       *)
(* present."; a thread that waits is to get one once there will be nothing. *)
EndReachesAll ==
    (reader = "done") ~> \A c \in Consumer : consumer[c] = "done"
=============================================================================
