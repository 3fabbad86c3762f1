---------------------------- MODULE BlockChannel ----------------------------
(***************************************************************************)
(* What BlockQueue promises: the chunks come out complete, once each and   *)
(* in the order they went in.                                              *)
(***************************************************************************)
EXTENDS Naturals, Sequences

CONSTANT Chunk

VARIABLES sent, received

channelVars == <<sent, received>>

Init == sent = <<>> /\ received = <<>>

Send(chunk) == sent' = Append(sent, chunk) /\ UNCHANGED received

Receive ==
    /\ Len(received) < Len(sent)
    /\ received' = Append(received, sent[Len(received) + 1])
    /\ UNCHANGED sent

Next == (\E chunk \in Chunk : Send(chunk)) \/ Receive

Spec == Init /\ [][Next]_channelVars
=============================================================================
