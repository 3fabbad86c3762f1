-------------------------- MODULE BlockQueueProofs --------------------------
(***************************************************************************)
(* The invariants of BlockQueue for every set of consumers and blocks and  *)
(* every number of chunks, and that it implements BlockChannel.            *)
(***************************************************************************)
EXTENDS BlockQueue, FiniteSetTheorems, TLAPS

(* A step is one of the actions, a consumer's for one consumer. *)
LEMMA StepCases ==
    ASSUME [Next]_vars
    PROVE  \/ Fill \/ Add \/ NotifyOne \/ InputEnds \/ StoreEnded \/ NotifyAll
           \/ \E c \in Consumer :
                Remove(c) \/ Wait(c) \/ Spurious(c) \/ GoOn(c) \/ Use(c)
                    \/ SeeEnded(c) \/ SeeEmpty(c)
           \/ UNCHANGED vars
BY DEF Next, ReaderStep, ConsumerStep

LEMMA EmptySeq == ASSUME NEW S PROVE <<>> \in Seq(S)
OBVIOUS

(* The queue after dequeue has the blocks it had, but the last. *)
LEMMA DequeueEffect ==
    ASSUME TypeOK, NEW c \in Consumer, Dequeue(c)
    PROVE  /\ Len(queue) \in Nat \ {0}
           /\ Len(queue) \in DOMAIN queue
           /\ queue[Len(queue)] \in Block
           /\ queue' \in Seq(Block)
           /\ Len(queue') = Len(queue) - 1
           /\ DOMAIN queue' \subseteq DOMAIN queue
           /\ Len(queue) \notin DOMAIN queue'
           /\ \A i \in DOMAIN queue' : queue'[i] = queue[i]
<1>1. queue \in Seq(Block) /\ queue # <<>>
    BY DEF Dequeue, TypeOK
<1>2. Len(queue) \in Nat \ {0} /\ DOMAIN queue = 1..Len(queue)
    BY <1>1
<1>3. Len(queue) \in DOMAIN queue /\ queue[Len(queue)] \in Block
    BY <1>1, <1>2
<1>4. queue' = SubSeq(queue, 1, Len(queue) - 1)
    BY DEF Dequeue
<1>5. queue' \in Seq(Block) /\ Len(queue') = Len(queue) - 1
    BY <1>1, <1>2, <1>4
<1>6. DOMAIN queue' = 1..(Len(queue) - 1)
    BY <1>2, <1>5
<1>7. \A i \in 1..(Len(queue) - 1) : queue'[i] = queue[i]
    BY <1>1, <1>2, <1>4
<1> QED BY <1>2, <1>3, <1>5, <1>6, <1>7

(* The queue after Add: the filled block, then those it had. *)
LEMMA AddEffect ==
    ASSUME TypeOK, Places, Add
    PROVE  /\ filled \in Block /\ content[filled] \in Chunk
           /\ queue' \in Seq(Block)
           /\ Len(queue') = Len(queue) + 1
           /\ queue'[1] = filled
           /\ \A i \in DOMAIN queue' \ {1} : i - 1 \in DOMAIN queue /\ queue'[i] = queue[i - 1]
           /\ InQueue' = InQueue \cup {filled}
           /\ added' = Append(added, content[filled])
           /\ filled' \in Block
           /\ filled' \in Fresh \/ filled' = available
<1>1. filled \in Block /\ content[filled] \in Chunk
    BY DEF Add, Places
<1>2. queue' = <<filled>> \o queue /\ queue \in Seq(Block)
    BY DEF Add, TypeOK
<1>3. /\ queue' \in Seq(Block)
      /\ Len(queue') = Len(queue) + 1
      /\ queue'[1] = filled
      /\ \A i \in DOMAIN queue' \ {1} : i - 1 \in DOMAIN queue /\ queue'[i] = queue[i - 1]
      /\ \A i \in DOMAIN queue : i + 1 \in DOMAIN queue' /\ queue'[i + 1] = queue[i]
      /\ 1 \in DOMAIN queue'
    BY <1>1, <1>2
<1>4. InQueue' \subseteq InQueue \cup {filled}
    <2> SUFFICES ASSUME NEW i \in DOMAIN queue' PROVE queue'[i] \in InQueue \cup {filled}
        BY DEF InQueue
    <2> QED BY <1>3 DEF InQueue
<1>5. InQueue \cup {filled} \subseteq InQueue'
    BY <1>3 DEF InQueue
<1>6. filled' \in Block /\ (filled' \in Fresh \/ filled' = available)
    BY DEF Add, Fresh, TypeOK
<1> QED BY <1>1, <1>3, <1>4, <1>5, <1>6 DEF Add

----------------------------------------------------------------------------
(* Types. *)

LEMMA TypeInit == Init => TypeOK
<1> SUFFICES ASSUME Init PROVE TypeOK
    OBVIOUS
<1> USE EmptySeq DEF Init
<1>1. content \in [Block -> Chunk \cup {Zeros}]  OBVIOUS
<1>2. consumer \in [Consumer -> ConsumerPlace]  BY DEF ConsumerPlace
<1>3. held \in [Consumer -> Block \cup {NoBlock}]  OBVIOUS
<1> QED BY <1>1, <1>2, <1>3 DEF TypeOK, ReaderPlace

LEMMA TypeStep ==
    ASSUME IInv, [Next]_vars
    PROVE  TypeOK'
<1> USE DEF IInv, TypeOK, ReaderPlace, ConsumerPlace, queueVars, readerVars,
            consumerVars, history
<1>1. CASE Fill
    <2>1. filled' \in Block /\ reader' = "add"
        BY <1>1 DEF Fill, Fresh
    <2>2. content' \in [Block -> Chunk \cup {Zeros}]
        BY <1>1, <2>1 DEF Fill
    <2> QED BY <1>1, <2>1, <2>2 DEF Fill
<1>2. CASE Add
    <2>1. available' \in Block \cup {NoBlock}
        BY <1>2 DEF Add, AvailableReset
    <2>2. /\ content[filled] \in Chunk
          /\ added' = Append(added, content[filled])
          /\ queue' \in Seq(Block)
          /\ filled' \in Block
        BY <1>2, AddEffect
    <2>3. added' \in Seq(Chunk)
        BY <2>2
    <2> QED BY <1>2, <2>1, <2>2, <2>3 DEF Add
<1>3. CASE NotifyOne  BY <1>3 DEF NotifyOne, WakesOne, At
<1>4. CASE InputEnds  BY <1>4 DEF InputEnds
<1>5. CASE StoreEnded  BY <1>5 DEF StoreEnded
<1>6. CASE NotifyAll  BY <1>6 DEF NotifyAll
<1>7. ASSUME NEW c \in Consumer, Dequeue(c)
      PROVE  /\ queue' \in Seq(Block)
             /\ taken' \in Seq(Chunk)
             /\ held' \in [Consumer -> Block \cup {NoBlock}]
             /\ consumer' \in [Consumer -> ConsumerPlace]
    <2>1. Len(queue) \in DOMAIN queue /\ queue[Len(queue)] \in Block /\ queue' \in Seq(Block)
        BY <1>7, DequeueEffect
    <2>2. content[queue[Len(queue)]] = added[Len(added) - Len(queue) + 1]
        BY <2>1 DEF InFlight
    <2>3. Len(added) - Len(queue) + 1 \in DOMAIN added
        BY <2>1 DEF InFlight
    <2>4. content[queue[Len(queue)]] \in Chunk
        BY <2>2, <2>3
    <2> QED BY <1>7, <2>1, <2>4 DEF Dequeue
<1>8. ASSUME NEW c \in Consumer, DequeueNothing(c)
      PROVE  /\ queue' \in Seq(Block)
             /\ taken' \in Seq(Chunk)
             /\ held' \in [Consumer -> Block \cup {NoBlock}]
             /\ consumer' \in [Consumer -> ConsumerPlace]
    BY <1>8 DEF DequeueNothing
<1>9. ASSUME NEW c \in Consumer, Remove(c) PROVE TypeOK'
    <2>1. available' \in Block \cup {NoBlock}
        BY <1>9 DEF Remove, Recycled
    <2> QED BY <1>7, <1>8, <1>9, <2>1 DEF Remove
<1>10. ASSUME NEW c \in Consumer, Wait(c) PROVE TypeOK'  BY <1>10 DEF Wait
<1>11. ASSUME NEW c \in Consumer, Spurious(c) PROVE TypeOK'  BY <1>11 DEF Spurious
<1>12. ASSUME NEW c \in Consumer, GoOn(c) PROVE TypeOK'  BY <1>7, <1>8, <1>12 DEF GoOn
<1>13. ASSUME NEW c \in Consumer, Use(c) PROVE TypeOK'  BY <1>13 DEF Use
<1>14. ASSUME NEW c \in Consumer, SeeEnded(c) PROVE TypeOK'  BY <1>14 DEF SeeEnded
<1>15. ASSUME NEW c \in Consumer, SeeEmpty(c) PROVE TypeOK'  BY <1>15 DEF SeeEmpty
<1>16. CASE UNCHANGED vars  BY <1>16 DEF vars
<1> QED BY <1>1, <1>2, <1>3, <1>4, <1>5, <1>6, <1>9, <1>10, <1>11, <1>12, <1>13,
           <1>14, <1>15, <1>16, StepCases

----------------------------------------------------------------------------
(* Places. *)

LEMMA PlacesStep ==
    ASSUME IInv, [Next]_vars
    PROVE  Places'
<1> USE DEF IInv, TypeOK, Places, At, queueVars, readerVars, consumerVars, history
<1>1. CASE Fill
    <2>1. filled' \in Block /\ content'[filled'] \in Chunk
        BY <1>1 DEF Fill, Fresh
    <2> QED BY <1>1, <2>1 DEF Fill
<1>2. CASE Add
    BY <1>2 DEF Add, MutexFree
<1>3. CASE NotifyOne  BY <1>3 DEF NotifyOne, WakesOne
<1>4. CASE InputEnds  BY <1>4 DEF InputEnds
<1>5. CASE StoreEnded  BY <1>5 DEF StoreEnded
<1>6. CASE NotifyAll  BY <1>6 DEF NotifyAll
<1>7. ASSUME NEW c \in Consumer, Remove(c) PROVE Places'
    <2>1. CASE Dequeue(c)  BY <1>7, <2>1 DEF Remove, Dequeue, MutexFree
    <2>2. CASE DequeueNothing(c)  BY <1>7, <2>2 DEF Remove, DequeueNothing, MutexFree
    <2>3. CASE consumer' = [consumer EXCEPT ![c] = "check"] /\ queue = <<>> /\ UNCHANGED <<queue, held>>
        BY <1>7, <2>3 DEF Remove, MutexFree
    <2> QED BY <1>7, <2>1, <2>2, <2>3 DEF Remove
<1>8. ASSUME NEW c \in Consumer, Wait(c) PROVE Places'  BY <1>8 DEF Wait
<1>9. ASSUME NEW c \in Consumer, Spurious(c) PROVE Places'  BY <1>9 DEF Spurious
<1>10. ASSUME NEW c \in Consumer, GoOn(c) PROVE Places'
    <2>1. CASE Dequeue(c)  BY <1>10, <2>1 DEF GoOn, Dequeue, MutexFree
    <2>2. CASE DequeueNothing(c)  BY <1>10, <2>2 DEF GoOn, DequeueNothing, MutexFree
    <2> QED BY <1>10, <2>1, <2>2 DEF GoOn
<1>11. ASSUME NEW c \in Consumer, Use(c) PROVE Places'  BY <1>11 DEF Use
<1>12. ASSUME NEW c \in Consumer, SeeEnded(c) PROVE Places'  BY <1>12 DEF SeeEnded
<1>13. ASSUME NEW c \in Consumer, SeeEmpty(c) PROVE Places'  BY <1>13 DEF SeeEmpty
<1>14. CASE UNCHANGED vars  BY <1>14 DEF vars
<1> QED BY <1>1, <1>2, <1>3, <1>4, <1>5, <1>6, <1>7, <1>8, <1>9, <1>10, <1>11,
           <1>12, <1>13, <1>14, StepCases

----------------------------------------------------------------------------
(* Owners of blocks. *)

Holds(c) == consumer[c] \in {"call", "use"} /\ held[c] # NoBlock

(* OneOwner, said of the places in the queue and of each consumer. *)
Apart ==
    /\ \A i, j \in DOMAIN queue : queue[i] = queue[j] => i = j
    /\ \A c, d \in Consumer : Holds(c) /\ Holds(d) /\ held[c] = held[d] => c = d
    /\ \A i \in DOMAIN queue, c \in Consumer : Holds(c) => queue[i] # held[c]
    /\ available # NoBlock =>
        /\ \A i \in DOMAIN queue : queue[i] # available
        /\ \A c \in Consumer : Holds(c) => held[c] # available
        /\ available # filled
    /\ filled # NoBlock =>
        /\ \A i \in DOMAIN queue : queue[i] # filled
        /\ \A c \in Consumer : Holds(c) => held[c] # filled

LEMMA OneOwnerMeansApart == OneOwner <=> Apart
BY DEF OneOwner, InQueue, HeldBlocks, Holding, At, Apart, Holds

LEMMA OneOwnerMeansApartNext == OneOwner' <=> Apart'
BY DEF OneOwner, InQueue, HeldBlocks, Holding, At, Apart, Holds

(* A new block is nobody's. *)
LEMMA FreshIsNobodys ==
    ASSUME NEW b \in Fresh
    PROVE  /\ b # available /\ b # filled
           /\ \A i \in DOMAIN queue : queue[i] # b
           /\ \A c \in Consumer : held[c] # b
BY DEF Fresh, Referenced, InQueue

(* A consumer whose place or block changed holds nothing it did not hold,   *)
(* and nobody else's block moved.                                           *)
LEMMA LetGo ==
    ASSUME TypeOK, Apart, UNCHANGED <<queue, available, filled>>,
           \A c \in Consumer : Holds(c)' => Holds(c) /\ held'[c] = held[c]
    PROVE  Apart'
BY DEF Apart

LEMMA DequeueOwner ==
    ASSUME TypeOK, Apart, NEW c \in Consumer, Dequeue(c), UNCHANGED filled,
           available' = available \/ (available' = held[c] /\ Holds(c) /\ available = NoBlock)
    PROVE  Apart'
<1> DEFINE last == queue[Len(queue)]
<1>1. /\ Len(queue) \in DOMAIN queue
      /\ DOMAIN queue' \subseteq DOMAIN queue
      /\ Len(queue) \notin DOMAIN queue'
      /\ \A i \in DOMAIN queue' : queue'[i] = queue[i]
    BY DequeueEffect
<1>2. held'[c] = last /\ \A d \in Consumer \ {c} : held'[d] = held[d] /\ consumer'[d] = consumer[d]
    BY DEF Dequeue, TypeOK
<1>3. \A d \in Consumer \ {c} : Holds(d)' <=> Holds(d)
    BY <1>2 DEF Holds
<1>4. \A i \in DOMAIN queue' : queue'[i] # last
    BY <1>1 DEF Apart
<1>5. \A d \in Consumer : Holds(d) => held[d] # last
    BY <1>1 DEF Apart
<1>6. /\ \A i, j \in DOMAIN queue' : queue'[i] = queue'[j] => i = j
      /\ \A i \in DOMAIN queue', d \in Consumer : Holds(d)' => queue'[i] # held'[d]
      /\ \A d, e \in Consumer : Holds(d)' /\ Holds(e)' /\ held'[d] = held'[e] => d = e
    BY <1>1, <1>2, <1>3, <1>4, <1>5 DEF Apart
<1>7. filled' # NoBlock =>
        /\ \A i \in DOMAIN queue' : queue'[i] # filled'
        /\ \A d \in Consumer : Holds(d)' => held'[d] # filled'
    BY <1>1, <1>2, <1>3 DEF Apart
<1>8. available' # NoBlock =>
        /\ \A i \in DOMAIN queue' : queue'[i] # available'
        /\ \A d \in Consumer : Holds(d)' => held'[d] # available'
        /\ available' # filled'
    BY <1>1, <1>2, <1>3, <1>5 DEF Apart, Holds
<1> QED BY <1>6, <1>7, <1>8 DEF Apart

LEMMA OwnerStep ==
    ASSUME IInv, [Next]_vars
    PROVE  OneOwner'
<1> SUFFICES Apart'
    BY OneOwnerMeansApartNext
<1>a. TypeOK /\ Places /\ Apart
    BY OneOwnerMeansApart DEF IInv
<1> USE <1>a DEF queueVars, readerVars, consumerVars, history
<1>1. CASE Fill
    <2>1. filled' = filled \/ filled' \in Fresh
        BY <1>1 DEF Fill
    <2>2. UNCHANGED <<queue, available, consumer, held>>
        BY <1>1 DEF Fill
    <2> QED BY <2>1, <2>2, FreshIsNobodys DEF Apart, Holds
<1>2. CASE Add
    <2>1. /\ filled \in Block
          /\ queue'[1] = filled
          /\ \A i \in DOMAIN queue' \ {1} : i - 1 \in DOMAIN queue /\ queue'[i] = queue[i - 1]
        BY <1>2, AddEffect
    <2>2. UNCHANGED <<consumer, held>> /\ queue \in Seq(Block) /\ queue' \in Seq(Block)
        BY <1>2, AddEffect DEF Add, TypeOK
    <2>3. filled # NoBlock
        BY <2>1, BlockAssumption
    <2>4. \A i, j \in DOMAIN queue' : queue'[i] = queue'[j] => i = j
        <3> SUFFICES ASSUME NEW i \in DOMAIN queue', NEW j \in DOMAIN queue', queue'[i] = queue'[j]
                     PROVE  i = j
            OBVIOUS
        <3>1. i \in Nat /\ j \in Nat
            BY <2>2
        <3>2. CASE i # 1 /\ j # 1  BY <2>1, <3>1, <3>2 DEF Apart
        <3>3. CASE i = 1 \/ j = 1  BY <2>1, <2>3, <3>3 DEF Apart
        <3> QED BY <3>2, <3>3
    <2>5. \A i \in DOMAIN queue', c \in Consumer : Holds(c)' => queue'[i] # held'[c]
        BY <2>1, <2>2, <2>3 DEF Apart, Holds
    <2>6. \/ filled' \in Fresh /\ available' = NoBlock
          \/ filled' = available /\ available # NoBlock /\ available' = NoBlock
        BY <1>2 DEF Add, AvailableReset
    <2>7. filled' # NoBlock =>
            /\ \A i \in DOMAIN queue' : queue'[i] # filled'
            /\ \A c \in Consumer : Holds(c)' => held'[c] # filled'
        <3>1. CASE filled' \in Fresh
            BY <2>1, <2>2, <3>1, FreshIsNobodys
        <3>2. CASE filled' = available /\ available # NoBlock
            BY <2>1, <2>2, <3>2 DEF Apart, Holds
        <3> QED BY <2>6, <3>1, <3>2
    <2>8. \A c, d \in Consumer : Holds(c)' /\ Holds(d)' /\ held'[c] = held'[d] => c = d
        BY <2>2 DEF Apart, Holds
    <2> QED BY <2>4, <2>5, <2>6, <2>7, <2>8 DEF Apart
<1>3. CASE NotifyOne
    <2>1. \A c \in Consumer : Holds(c)' => Holds(c) /\ held'[c] = held[c]
        BY <1>3 DEF NotifyOne, WakesOne, At, Holds, TypeOK
    <2> QED BY <1>3, <2>1, LetGo DEF NotifyOne
<1>4. CASE InputEnds  BY <1>4, LetGo DEF InputEnds, Holds
<1>5. CASE StoreEnded  BY <1>5, LetGo DEF StoreEnded, Holds
<1>6. CASE NotifyAll
    <2>1. \A c \in Consumer : Holds(c)' => Holds(c) /\ held'[c] = held[c]
        BY <1>6 DEF NotifyAll, Holds, TypeOK
    <2> QED BY <1>6, <2>1, LetGo DEF NotifyAll
<1>7. ASSUME NEW c \in Consumer, Remove(c) PROVE Apart'
    <2>1. \/ available' = available
          \/ available' = held[c] /\ Holds(c) /\ available = NoBlock
        BY <1>7 DEF Remove, Recycled, Holds
    <2>2. CASE Dequeue(c)  BY <1>7, <2>1, <2>2, DequeueOwner DEF Remove
    <2>3. CASE DequeueNothing(c) \/ (consumer' = [consumer EXCEPT ![c] = "check"] /\ UNCHANGED <<queue, held>>)
        <3>1. ~Holds(c)' /\ \A d \in Consumer \ {c} : held'[d] = held[d] /\ (Holds(d)' <=> Holds(d))
            BY <2>3 DEF DequeueNothing, Holds, TypeOK
        <3>2. UNCHANGED <<queue, filled>>
            BY <1>7, <2>3 DEF Remove, DequeueNothing
        <3> QED BY <2>1, <3>1, <3>2 DEF Apart, Holds
    <2> QED BY <1>7, <2>2, <2>3 DEF Remove
<1>8. ASSUME NEW c \in Consumer, Wait(c) PROVE Apart'
    BY <1>8, LetGo DEF Wait, Holds, TypeOK
<1>9. ASSUME NEW c \in Consumer, Spurious(c) PROVE Apart'
    BY <1>9, LetGo DEF Spurious, Holds, TypeOK
<1>10. ASSUME NEW c \in Consumer, GoOn(c) PROVE Apart'
    <2>1. CASE Dequeue(c)  BY <1>10, <2>1, DequeueOwner DEF GoOn
    <2>2. CASE DequeueNothing(c)
        BY <1>10, <2>2, LetGo DEF GoOn, DequeueNothing, Holds, TypeOK
    <2> QED BY <1>10, <2>1, <2>2 DEF GoOn
<1>11. ASSUME NEW c \in Consumer, Use(c) PROVE Apart'
    BY <1>11, LetGo DEF Use, Holds, TypeOK
<1>12. ASSUME NEW c \in Consumer, SeeEnded(c) PROVE Apart'
    <2>1. held[c] = NoBlock
        BY <1>12 DEF SeeEnded, Places, At
    <2> QED BY <1>12, <2>1, LetGo DEF SeeEnded, Holds, TypeOK
<1>13. ASSUME NEW c \in Consumer, SeeEmpty(c) PROVE Apart'
    <2>1. held[c] = NoBlock
        BY <1>13 DEF SeeEmpty, Places, At
    <2> QED BY <1>13, <2>1, LetGo DEF SeeEmpty, Holds, TypeOK
<1>14. CASE UNCHANGED vars  BY <1>14, LetGo DEF vars, Holds
<1> QED BY <1>1, <1>2, <1>3, <1>4, <1>5, <1>6, <1>7, <1>8, <1>9, <1>10, <1>11,
           <1>12, <1>13, <1>14, StepCases

----------------------------------------------------------------------------
(* The order of the chunks. *)

LEMMA DequeueOrder ==
    ASSUME TypeOK, InFlight, NEW c \in Consumer, Dequeue(c), UNCHANGED <<added, content>>
    PROVE  InFlight' /\ Channel!Receive
<1>1. /\ Len(queue) \in Nat \ {0}
      /\ Len(queue) \in DOMAIN queue
      /\ Len(queue') = Len(queue) - 1
      /\ DOMAIN queue' \subseteq DOMAIN queue
      /\ \A i \in DOMAIN queue' : queue'[i] = queue[i]
    BY DequeueEffect
<1>2. Len(added) = Len(taken) + Len(queue) /\ Len(taken) \in Nat /\ Len(added) \in Nat
    BY <1>1 DEF InFlight, TypeOK
<1>3. content[queue[Len(queue)]] = added[Len(taken) + 1]
    <2>1. Len(added) - Len(queue) + 1 = Len(taken) + 1
        BY <1>1, <1>2
    <2> QED BY <1>1, <2>1 DEF InFlight
<1>4. taken' = Append(taken, added[Len(taken) + 1]) /\ taken \in Seq(Chunk)
    BY <1>3 DEF Dequeue, TypeOK
<1>5. Len(taken') = Len(taken) + 1 /\ \A i \in DOMAIN taken' : taken'[i] = added[i]
    BY <1>4, <1>2 DEF InFlight
<1>6. \A i \in DOMAIN queue' : content'[queue'[i]] = added'[Len(added') - i + 1]
    BY <1>1 DEF InFlight
<1>7. InFlight'
    <2>1. Len(added') = Len(taken') + Len(queue')
        BY <1>1, <1>2, <1>5
    <2> QED BY <1>5, <1>6, <2>1 DEF InFlight
<1>8. Channel!Receive
    BY <1>1, <1>2, <1>4 DEF Channel!Receive
<1> QED BY <1>7, <1>8

(* What a step does to the chunks: a consumer takes one, Add gives one, or  *)
(* nothing happens to them.                                                 *)
LEMMA OrderStep ==
    ASSUME IInv, [Next]_vars
    PROVE  InFlight' /\ [Channel!Next]_<<added, taken>>
<1>a. TypeOK /\ Places /\ InFlight /\ Apart
    BY OneOwnerMeansApart DEF IInv
<1> USE <1>a DEF queueVars, readerVars, consumerVars, history
<1>b. ASSUME UNCHANGED <<queue, added, taken>>,
             \A i \in DOMAIN queue : content'[queue[i]] = content[queue[i]]
      PROVE  InFlight' /\ [Channel!Next]_<<added, taken>>
    BY <1>b DEF InFlight
<1>1. CASE Fill
    <2>1. \A i \in DOMAIN queue : queue[i] # filled'
        BY <1>1, FreshIsNobodys DEF Fill, Apart
    <2>2. \A i \in DOMAIN queue : content'[queue[i]] = content[queue[i]]
        BY <1>1, <2>1 DEF Fill, TypeOK
    <2> QED BY <1>1, <1>b, <2>2 DEF Fill
<1>2. CASE Add
    <2>1. /\ content[filled] \in Chunk
          /\ Len(queue') = Len(queue) + 1
          /\ queue'[1] = filled
          /\ \A i \in DOMAIN queue' \ {1} : i - 1 \in DOMAIN queue /\ queue'[i] = queue[i - 1]
          /\ added' = Append(added, content[filled])
          /\ queue' \in Seq(Block) /\ queue \in Seq(Block)
        BY <1>2, AddEffect DEF TypeOK
    <2>2. UNCHANGED <<taken, content>> /\ added \in Seq(Chunk) /\ taken \in Seq(Chunk)
        BY <1>2 DEF Add, TypeOK
    <2>3. Len(added') = Len(added) + 1 /\ Len(added') = Len(taken') + Len(queue')
        <3>1. Len(added) = Len(taken) + Len(queue)
            BY DEF InFlight
        <3>2. Len(added) \in Nat /\ Len(taken) \in Nat /\ Len(queue) \in Nat
            BY <2>1, <2>2
        <3>3. Len(added') = Len(added) + 1
            BY <2>1, <2>2
        <3> QED BY <2>1, <2>2, <3>1, <3>2, <3>3
    <2>4. \A i \in DOMAIN taken' : taken'[i] = added'[i]
        <3>1. \A i \in DOMAIN taken : i \in DOMAIN added
            BY <2>1, <2>2 DEF InFlight
        <3> QED BY <2>1, <2>2, <3>1 DEF InFlight
    <2>5. \A i \in DOMAIN queue' : content'[queue'[i]] = added'[Len(added') - i + 1]
        <3> SUFFICES ASSUME NEW i \in DOMAIN queue'
                     PROVE  content[queue'[i]] = added'[Len(added') - i + 1]
            BY <2>2
        <3>1. CASE i = 1
            BY <2>1, <2>2, <2>3, <3>1
        <3>2. CASE i # 1
            <4>1. i - 1 \in DOMAIN queue /\ queue'[i] = queue[i - 1]
                BY <2>1, <3>2
            <4>2. content[queue[i - 1]] = added[Len(added) - (i - 1) + 1]
                BY <4>1 DEF InFlight
            <4>3. i \in Nat /\ i - 1 \in 1..Len(queue) /\ Len(queue) <= Len(added)
                BY <2>1, <2>2, <4>1 DEF InFlight
            <4>4. Len(added) - (i - 1) + 1 \in 1..Len(added)
                BY <2>2, <4>3
            <4>5. Len(added') - i + 1 = Len(added) - (i - 1) + 1
                BY <2>2, <2>3, <4>3
            <4>6. added'[Len(added') - i + 1] = added[Len(added) - (i - 1) + 1]
                BY <2>1, <2>2, <4>4, <4>5
            <4> QED BY <4>1, <4>2, <4>6
        <3> QED BY <3>1, <3>2
    <2>6. Channel!Send(content[filled])
        BY <2>1, <2>2 DEF Channel!Send
    <2> QED BY <2>1, <2>3, <2>4, <2>5, <2>6 DEF InFlight, Channel!Next
<1>3. CASE NotifyOne  BY <1>3, <1>b DEF NotifyOne
<1>4. CASE InputEnds  BY <1>4, <1>b DEF InputEnds
<1>5. CASE StoreEnded  BY <1>5, <1>b DEF StoreEnded
<1>6. CASE NotifyAll  BY <1>6, <1>b DEF NotifyAll
<1>7. ASSUME NEW c \in Consumer, Remove(c)
      PROVE  InFlight' /\ [Channel!Next]_<<added, taken>>
    <2>1. CASE Dequeue(c)  BY <1>7, <2>1, DequeueOrder DEF Remove, Channel!Next
    <2>2. CASE ~Dequeue(c)  BY <1>7, <2>2, <1>b DEF Remove, DequeueNothing
    <2> QED BY <2>1, <2>2
<1>8. ASSUME NEW c \in Consumer, Wait(c) \/ Spurious(c) \/ Use(c) \/ SeeEnded(c) \/ SeeEmpty(c)
      PROVE  InFlight' /\ [Channel!Next]_<<added, taken>>
    BY <1>8, <1>b DEF Wait, Spurious, Use, SeeEnded, SeeEmpty
<1>9. ASSUME NEW c \in Consumer, GoOn(c)
      PROVE  InFlight' /\ [Channel!Next]_<<added, taken>>
    <2>1. CASE Dequeue(c)  BY <1>9, <2>1, DequeueOrder DEF GoOn, Channel!Next
    <2>2. CASE ~Dequeue(c)  BY <1>9, <2>2, <1>b DEF GoOn, DequeueNothing
    <2> QED BY <2>1, <2>2
<1>10. CASE UNCHANGED vars  BY <1>10, <1>b DEF vars
<1> QED BY <1>1, <1>2, <1>3, <1>4, <1>5, <1>6, <1>7, <1>8, <1>9, <1>10, StepCases

----------------------------------------------------------------------------
(* Wakeups. *)

LEMMA WokenCounted == IsFiniteSet(At("woken")) /\ Cardinality(At("woken")) \in Nat
<1>1. At("woken") \subseteq Consumer
    BY DEF At
<1> QED BY <1>1, ConsumerAssumption, FS_Subset, FS_CardinalityType

LEMMA OneMoreWoken ==
    ASSUME TypeOK, NEW c \in Consumer, consumer[c] # "woken",
           consumer' = [consumer EXCEPT ![c] = "woken"]
    PROVE  Cardinality(At("woken")') = Cardinality(At("woken")) + 1
<1>1. At("woken")' = At("woken") \cup {c} /\ c \notin At("woken")
    BY DEF At, TypeOK
<1> QED BY <1>1, WokenCounted, FS_AddElement

LEMMA OneLessWoken ==
    ASSUME TypeOK, NEW c \in Consumer, consumer[c] = "woken",
           NEW place, place # "woken", consumer' = [consumer EXCEPT ![c] = place]
    PROVE  Cardinality(At("woken")') = Cardinality(At("woken")) - 1
<1>1. At("woken")' = At("woken") \ {c} /\ c \in At("woken")
    BY DEF At, TypeOK
<1> QED BY <1>1, WokenCounted, FS_RemoveElement

LEMMA SameWoken ==
    ASSUME TypeOK, NEW c \in Consumer, consumer[c] # "woken",
           NEW place, place \notin {"woken", "waiting"},
           consumer' = [consumer EXCEPT ![c] = place]
    PROVE  At("woken")' = At("woken") /\ At("waiting")' \subseteq At("waiting")
BY DEF At, TypeOK

LEMMA WakeStep ==
    ASSUME IInv, [Next]_vars
    PROVE  NoSleeperForgotten'
<1> DEFINE woken == Cardinality(At("woken"))
           owes == IF reader = "notify" THEN 1 ELSE 0
<1>a. TypeOK /\ Places /\ NoSleeperForgotten
    BY DEF IInv
<1>b. woken \in Nat /\ woken' \in Nat
    BY WokenCounted, At("woken")' \subseteq Consumer, ConsumerAssumption, FS_Subset,
       FS_CardinalityType DEF At
<1>c. Len(queue) \in Nat /\ owes \in {0, 1}
    BY <1>a DEF TypeOK
<1>d. At("waiting") # {} => Len(queue) <= woken + owes
    BY <1>a DEF NoSleeperForgotten, Owed
<1>e. ASSUME At("waiting")' # {} => Len(queue)' <= woken' + owes'
      PROVE  NoSleeperForgotten'
    BY <1>e DEF NoSleeperForgotten, Owed
<1>f. ASSUME UNCHANGED queue, owes' >= owes, At("woken")' = At("woken"),
             At("waiting")' \subseteq At("waiting")
      PROVE  NoSleeperForgotten'
    BY <1>b, <1>c, <1>d, <1>e, <1>f
<1> HIDE DEF woken, owes
<1> USE DEF queueVars, readerVars, consumerVars, history
<1>1. CASE Fill  BY <1>1, <1>f DEF Fill, owes, At
<1>2. CASE Add
    <2>1. Len(queue') = Len(queue) + 1
        BY <1>2, <1>a, AddEffect
    <2>2. owes = 0 /\ owes' = 1 /\ woken' = woken /\ At("waiting")' = At("waiting")
        BY <1>2 DEF Add, owes, woken, At
    <2> QED BY <1>b, <1>c, <1>d, <1>e, <2>1, <2>2 DEF owes, woken
<1>3. CASE NotifyOne
    <2>1. owes = 1 /\ owes' = 0 /\ UNCHANGED queue
        BY <1>3 DEF NotifyOne, owes
    <2>2. CASE At("waiting") = {}
        BY <1>3, <2>2, <1>e DEF NotifyOne, WakesOne, At
    <2>3. CASE At("waiting") # {}
        <3>1. PICK c \in At("waiting") : consumer' = [consumer EXCEPT ![c] = "woken"]
            BY <1>3, <2>3 DEF NotifyOne, WakesOne
        <3>2. woken' = woken + 1
            BY <3>1, <1>a, OneMoreWoken DEF woken, At
        <3> QED BY <1>b, <1>c, <1>d, <1>e, <2>1, <2>3, <3>2 DEF owes, woken
    <2> QED BY <2>2, <2>3
<1>4. CASE InputEnds  BY <1>4, <1>f DEF InputEnds, owes, At
<1>5. CASE StoreEnded  BY <1>5, <1>f DEF StoreEnded, owes, At
<1>6. CASE NotifyAll
    <2>1. At("waiting")' = {}
        BY <1>6, <1>a DEF NotifyAll, At, TypeOK
    <2> QED BY <2>1, <1>e
<1>7. ASSUME NEW c \in Consumer, Remove(c) PROVE NoSleeperForgotten'
    <2>1. consumer[c] # "woken" /\ owes' = owes
        BY <1>7 DEF Remove, owes
    <2>2. CASE Dequeue(c)
        <3>1. Len(queue') = Len(queue) - 1
            BY <2>2, <1>a, DequeueEffect
        <3>2. woken' = woken /\ At("waiting")' \subseteq At("waiting")
            BY <2>1, <2>2, <1>a, SameWoken DEF Dequeue, woken
        <3> QED BY <1>b, <1>c, <1>d, <1>e, <2>1, <3>1, <3>2 DEF woken, owes
    <2>3. CASE ~Dequeue(c)
        <3>1. UNCHANGED queue
            BY <1>7, <2>3 DEF Remove, DequeueNothing
        <3>2. At("woken")' = At("woken") /\ At("waiting")' \subseteq At("waiting")
            BY <1>7, <2>1, <2>3, <1>a, SameWoken DEF Remove, DequeueNothing
        <3> QED BY <1>c, <1>f, <2>1, <3>1, <3>2
    <2> QED BY <2>2, <2>3
<1>8. ASSUME NEW c \in Consumer, Wait(c) PROVE NoSleeperForgotten'
    <2>1. Len(queue') = 0
        BY <1>8, <1>a DEF Wait, Places, At
    <2>2. owes' \in {0, 1}
        BY DEF owes
    <2> QED BY <1>b, <1>e, <2>1, <2>2 DEF woken, owes
<1>9. ASSUME NEW c \in Consumer, Spurious(c) PROVE NoSleeperForgotten'
    <2>1. woken' = woken + 1
        BY <1>9, <1>a, OneMoreWoken DEF Spurious, woken
    <2>2. UNCHANGED <<queue, reader>> /\ At("waiting") # {}
        BY <1>9 DEF Spurious, At
    <2>3. owes' = owes
        BY <2>2 DEF owes
    <2> QED BY <1>b, <1>c, <1>d, <1>e, <2>1, <2>2, <2>3 DEF woken, owes
<1>10. ASSUME NEW c \in Consumer, GoOn(c) PROVE NoSleeperForgotten'
    <2>1. consumer[c] = "woken" /\ owes' = owes
        BY <1>10 DEF GoOn, owes
    <2>2. At("waiting")' \subseteq At("waiting")
        BY <1>10, <1>a DEF GoOn, Dequeue, DequeueNothing, At, TypeOK
    <2>3. woken' = woken - 1
        BY <1>10, <2>1, <1>a, OneLessWoken DEF GoOn, Dequeue, DequeueNothing, woken
    <2>4. CASE Dequeue(c)
        <3>1. Len(queue') = Len(queue) - 1
            BY <2>4, <1>a, DequeueEffect
        <3> QED BY <1>b, <1>c, <1>d, <1>e, <2>1, <2>2, <2>3, <3>1 DEF woken, owes
    <2>5. CASE DequeueNothing(c)
        <3>1. Len(queue') = 0
            BY <2>5 DEF DequeueNothing
        <3> QED BY <1>b, <1>c, <1>e, <2>1, <3>1 DEF woken, owes
    <2> QED BY <1>10, <2>4, <2>5 DEF GoOn
<1>11. ASSUME NEW c \in Consumer, Use(c) PROVE NoSleeperForgotten'
    <2>1. At("woken")' = At("woken") /\ At("waiting")' \subseteq At("waiting")
        BY <1>11, <1>a, SameWoken DEF Use
    <2> QED BY <1>11, <1>c, <1>f, <2>1 DEF Use, owes
<1>12. ASSUME NEW c \in Consumer, SeeEnded(c) PROVE NoSleeperForgotten'
    <2>1. At("woken")' = At("woken") /\ At("waiting")' \subseteq At("waiting")
        BY <1>12, <1>a, SameWoken DEF SeeEnded
    <2> QED BY <1>12, <1>c, <1>f, <2>1 DEF SeeEnded, owes
<1>13. ASSUME NEW c \in Consumer, SeeEmpty(c) PROVE NoSleeperForgotten'
    <2>1. At("woken")' = At("woken") /\ At("waiting")' \subseteq At("waiting")
        BY <1>13, <1>a, SameWoken DEF SeeEmpty
    <2> QED BY <1>13, <1>c, <1>f, <2>1 DEF SeeEmpty, owes
<1>14. CASE UNCHANGED vars  BY <1>14, <1>f DEF vars, owes, At
<1> QED BY <1>1, <1>2, <1>3, <1>4, <1>5, <1>6, <1>7, <1>8, <1>9, <1>10, <1>11,
           <1>12, <1>13, <1>14, StepCases

----------------------------------------------------------------------------
(* Theorems. *)

LEMMA InitialState == Init => IInv
<1> SUFFICES ASSUME Init PROVE IInv
    OBVIOUS
<1>1. TypeOK  BY TypeInit
<1>2. Places  BY DEF Init, Places, At
<1>3. OneOwner  BY DEF Init, OneOwner, InQueue, HeldBlocks, Holding, At
<1>4. InFlight  BY DEF Init, InFlight
<1>5. NoSleeperForgotten  BY DEF Init, NoSleeperForgotten, At
<1> QED BY <1>1, <1>2, <1>3, <1>4, <1>5 DEF IInv

(* Every state of a BlockQueue in use satisfies the inductive invariant,    *)
(* with any number of consumers, blocks and chunks.                         *)
THEOREM Invariance == Spec => []IInv
<1>1. Init => IInv
    BY InitialState
<1>2. IInv /\ [Next]_vars => IInv'
    BY TypeStep, PlacesStep, OwnerStep, OrderStep, WakeStep DEF IInv
<1> QED BY <1>1, <1>2, PTL DEF Spec

(* No block is ever filled, queued, recycled or used in two places. *)
THEOREM BlocksHaveOneOwner == Spec => []OneOwner
<1>1. IInv => OneOwner
    BY DEF IInv
<1> QED BY <1>1, Invariance, PTL

(* No consumer sleeps on while there are more blocks than wakeups. *)
THEOREM NoLostBlock == Spec => []NoSleeperForgotten
<1>1. IInv => NoSleeperForgotten
    BY DEF IInv
<1> QED BY <1>1, Invariance, PTL

(* Once Ended said so to a consumer, all that was added has been taken. *)
THEOREM EndedIsLast == Spec => []EndedMeansAllTaken
<1>1. IInv => EndedMeansAllTaken
    <2> SUFFICES ASSUME IInv, NEW c \in Consumer, consumer[c] = "done"
                 PROVE  taken = added /\ reader \in {"stored", "done"}
        BY DEF EndedMeansAllTaken
    <2>1. queue = <<>> /\ ended /\ reader \in {"stored", "done"}
        BY DEF IInv, Places, At
    <2>2. added \in Seq(Chunk) /\ taken \in Seq(Chunk)
        BY DEF IInv, TypeOK
    <2>3. Len(added) = Len(taken) /\ \A i \in DOMAIN taken : taken[i] = added[i]
        BY <2>1, <2>2 DEF IInv, InFlight
    <2>4. taken = added
        BY <2>2, <2>3
    <2> QED BY <2>1, <2>4
<1> QED BY <1>1, Invariance, PTL

(* BlockQueue implements a channel that keeps every chunk and their order. *)
THEOREM Refinement == Spec => DeliversInOrder
<1>1. Init => Channel!Init
    BY DEF Init, Channel!Init
<1>2. IInv /\ [Next]_vars => [Channel!Next]_<<added, taken>>
    BY OrderStep
<1> QED BY <1>1, <1>2, Invariance, PTL DEF Spec, DeliversInOrder, Channel!Spec, Channel!channelVars
=============================================================================
