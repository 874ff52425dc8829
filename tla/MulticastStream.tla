-------------------------- MODULE MulticastStream ---------------------------
(***************************************************************************)
(* What a camera stream promises to the analytics that take it, without    *)
(* queue, threads and pauses: images are offered one at a time, each to    *)
(* all who take the stream at that moment, and each is newer than the one  *)
(* before and one of the newest Window that came.  Who takes the stream    *)
(* changes only between two offers.  Nobody need be given an image, and    *)
(* one that was not given before Window newer ones came may be Spoilt.     *)
(***************************************************************************)
EXTENDS Integers, Sequences

CONSTANTS Analytics, Window, Spoilt

VARIABLES
  published,    \* images that came
  offered,      \* the image offered last
  waiting,      \* those who were neither given nor denied it yet
  subscribers,
  received      \* what was given to each analytic

streamVars == <<published, offered, waiting, subscribers, received>>

Init ==
  /\ published = 0 /\ offered = 0 /\ waiting = {}
  /\ subscribers \in SUBSET Analytics
  /\ received = [a \in Analytics |-> <<>>]

Recent(n) == published - n < Window

Publish ==
  /\ published' = published + 1
  /\ UNCHANGED <<offered, waiting, subscribers, received>>

Offer ==
  /\ waiting = {}
  /\ offered' \in offered + 1 .. published /\ Recent(offered')
  /\ waiting' = subscribers
  /\ UNCHANGED <<published, subscribers, received>>

Deny(a) ==
  /\ a \in waiting /\ waiting' = waiting \ {a}
  /\ UNCHANGED <<published, offered, subscribers, received>>

Give(a) ==
  /\ a \in waiting /\ waiting' = waiting \ {a}
  /\ \E content \in {offered, Spoilt} :
       /\ content = offered \/ ~ Recent(offered)
       /\ received' = [received EXCEPT ![a] = Append(@, content)]
  /\ UNCHANGED <<published, offered, subscribers>>

Resubscribe ==
  /\ waiting = {}
  /\ subscribers' \in SUBSET Analytics
  /\ UNCHANGED <<published, offered, waiting, received>>

Next ==
  \/ Publish \/ Offer \/ Resubscribe
  \/ \E a \in Analytics : Deny(a) \/ Give(a)

Spec == Init /\ [][Next]_streamVars
=============================================================================
