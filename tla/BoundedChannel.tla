--------------------------- MODULE BoundedChannel ---------------------------
(***************************************************************************)
(* What flow control promises: at most Capacity images are out at the      *)
(* analytic at any time, and while the channel is open an image that is    *)
(* out comes back as a result or is lost.  A channel that was closed fills *)
(* up with what is still accepted and delivers what it kept.               *)
(***************************************************************************)
EXTENDS Integers

CONSTANT Capacity

VARIABLES inFlight, open

vars == <<inFlight, open>>

Init == inFlight = 0 /\ open = TRUE

Accept ==
  /\ inFlight < Capacity
  /\ inFlight' = inFlight + 1
  /\ UNCHANGED open

Deliver ==
  /\ inFlight > 0
  /\ inFlight' = inFlight - 1
  /\ UNCHANGED open

Lose ==
  /\ open
  /\ \E n \in 1 .. inFlight : inFlight' = inFlight - n
  /\ UNCHANGED open

Close ==
  /\ open
  /\ \E n \in 0 .. inFlight : inFlight' = inFlight - n
  /\ open' = FALSE

Next == Accept \/ Deliver \/ Lose \/ Close

Spec == Init /\ [][Next]_vars

FairSpec == Spec /\ WF_vars(open /\ (Deliver \/ Lose))
=============================================================================
