---------------------------- MODULE FifoChannel -----------------------------
(***************************************************************************)
(* What an analytic process promises for the images it has received: one   *)
(* result at most for each, in the order of the images, until it dies;     *)
(* then only results it had already handed over still arrive.              *)
(***************************************************************************)
EXTENDS Sequences, Integers

CONSTANTS Images, Capacity

VARIABLE channel   \* oldest first

Init == channel = <<>>

Put(i) ==
  /\ Len(channel) < Capacity
  /\ channel' = Append(channel, i)

Take ==
  /\ channel # <<>>
  /\ channel' = Tail(channel)

Withhold ==
  \E n \in 1 .. Len(channel) :
    channel' = SubSeq(channel, 1, n - 1) \o SubSeq(channel, n + 1, Len(channel))

Forget == \E n \in 0 .. Len(channel) : channel' = SubSeq(channel, 1, n)

Next ==
  \/ \E i \in Images : Put(i)
  \/ Take
  \/ Withhold
  \/ Forget

Spec == Init /\ [][Next]_channel
=============================================================================
