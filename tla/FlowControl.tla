---------------------------- MODULE FlowControl -----------------------------
(***************************************************************************)
(* The feed of one analytic instance, closed: the server's side from       *)
(* SimpleFlowController, and everything remote (the message queues and the *)
(* analytic process) as the number of images sent and not yet answered.    *)
(* The module ImageFeed puts the analytic process in its place, and        *)
(* ResultPath what the images carry.                                       *)
(***************************************************************************)
EXTENDS SimpleFlowController

VARIABLES
  remote,   \* images written to the input queue whose result is not received
  lost,     \* images that will never be answered
  alive     \* the analytic process

vars == <<consumer, numbOfImagesStillInMq, router, remote, lost, alive>>

TypeOK ==
  /\ ServerTypeOK
  /\ remote \in Nat
  /\ lost \in Nat
  /\ alive \in BOOLEAN

Init ==
  /\ ServerInit
  /\ remote = 0
  /\ lost = 0
  /\ alive = TRUE

MaySend(s) ==
  /\ CanSend(s)
  /\ UNCHANGED <<remote, lost, alive>>

Send(s) ==
  /\ Written(s)
  /\ remote' = remote + 1
  /\ UNCHANGED <<lost, alive>>

SendFails(s) ==
  /\ NotWritten(s)
  /\ UNCHANGED <<remote, lost, alive>>

CountSent(s) ==
  /\ Sent(s)
  /\ UNCHANGED <<remote, lost, alive>>

ReceiveResult ==
  /\ remote > 0
  /\ ResultReceived
  /\ remote' = remote - 1
  /\ UNCHANGED <<lost, alive>>

Credit ==
  /\ Received
  /\ UNCHANGED <<remote, lost, alive>>

Lose(n) ==
  /\ remote' = remote - n
  /\ lost' = lost + n
  /\ UNCHANGED serverVars

\* The analytic gives no result for an image.
LoseImage ==
  /\ alive /\ remote > 0
  /\ Lose(1)
  /\ UNCHANGED alive

\* The analytic process ends with images that it has: the message queues keep no
\* copy, the server is not told and nobody starts another one on these queues.
LoseProcess ==
  /\ alive
  /\ \E n \in 0 .. remote : Lose(n)
  /\ alive' = FALSE

Next ==
  \/ \E s \in Streams : MaySend(s) \/ Send(s) \/ SendFails(s) \/ CountSent(s)
  \/ ReceiveResult
  \/ Credit
  \/ LoseImage
  \/ LoseProcess

Spec == Init /\ [][Next]_vars

-----------------------------------------------------------------------------
\* Images written and not yet taken off the count by the router.
Outstanding == remote + (IF router = "crediting" THEN 1 ELSE 0)

\* What sent() calls minus received() calls come to, as a true integer.
Count == Outstanding + lost - Cardinality(In("counting"))

Capacity == MaxSize + Cardinality(Streams) - 1

(***************************************************************************)
(* Between the check in canSendImageGeneratedAt and the count in sent the  *)
(* mutex is free, so every other consumer may pass the same check: the     *)
(* analytic's queue holds at most one image more than MaxSize for each     *)
(* further stream, never more, and exactly MaxSize with one stream.        *)
(***************************************************************************)
OutstandingBounded == Outstanding <= Capacity

(***************************************************************************)
(* The w-bit counter is exactly sent() minus received(), although          *)
(* received() may overtake the sent() of its own image and wrap it below   *)
(* zero: every image is counted once and every result once, and an image   *)
(* that is lost keeps its place in the counter for good.                   *)
(***************************************************************************)
CounterExact == numbOfImagesStillInMq = Count % Modulus

(***************************************************************************)
(* The counter reads as a huge number (and refuses every stream) only      *)
(* while some consumer is between its write and its sent(), so the wrap    *)
(* repairs itself.                                                         *)
(***************************************************************************)
WrapIsTransient == numbOfImagesStillInMq > Capacity => In("counting") # {}

(***************************************************************************)
(* Flow control and the threads around it implement a channel of Capacity  *)
(* images which, as long as the process lives, delivers or loses what it   *)
(* accepts.                                                                *)
(***************************************************************************)
Channel == INSTANCE BoundedChannel WITH inFlight <- Outstanding, open <- alive

ImplementsChannel == Channel!FairSpec

(***************************************************************************)
(* As long as the process lives and lost fewer than MaxSize images the     *)
(* feed does not close for good: canSendImageGeneratedAt is true again and *)
(* again.  Once it has died nothing opens the feed again.                  *)
(***************************************************************************)
FeedStaysOpen == []alive /\ [](lost < MaxSize) => []<>(numbOfImagesStillInMq < MaxSize)

(***************************************************************************)
(* The strengthening that is inductive: the room that the consumers in     *)
(* the middle of a send will use is already counted.                       *)
(***************************************************************************)
IInv ==
  /\ TypeOK
  /\ CounterExact
  /\ Outstanding + lost + Cardinality(In("sending")) <= Capacity
=============================================================================
