--------------------------- MODULE AnalyticRunner ---------------------------
(***************************************************************************)
(* One analytic process: its producer thread, the main thread that runs    *)
(* the analytic, and its consumer thread, joined by two ImageQueues.  The  *)
(* three loop for ever; nothing stops them but the end of the process.     *)
(*                                                                         *)
(* A thread holds at most one image: received, analysed and result are     *)
(* sequences of length at most one.  The two message queues belong to the  *)
(* module that composes this one with the server.                          *)
(***************************************************************************)
EXTENDS Integers, Sequences

CONSTANTS
  Images,
  QueueSize   \* the size of both internal queues (5 in main)

ASSUME QueueAssumption == QueueSize \in Nat \ {0}

VARIABLES
  alive,
  received,                          \* the producer thread's image
  inQueue, inWaiting, inNotifying,   \* pInputImageQueue
  analysed,                          \* the analytic's image
  outQueue, outWaiting, outNotifying, \* pOutputResultQueue
  result                             \* the consumer thread's image

runnerVars ==
  <<alive, received, inQueue, inWaiting, inNotifying, analysed,
    outQueue, outWaiting, outNotifying, result>>

InputQueue == INSTANCE ImageQueue WITH
  Size <- QueueSize, Pusher <- "producer", Popper <- "analytic",
  queue <- inQueue, waiting <- inWaiting, notifying <- inNotifying

OutputQueue == INSTANCE ImageQueue WITH
  Size <- QueueSize, Pusher <- "analytic", Popper <- "consumer",
  queue <- outQueue, waiting <- outWaiting, notifying <- outNotifying

inVars == <<inQueue, inWaiting, inNotifying>>
outVars == <<outQueue, outWaiting, outNotifying>>

RunnerTypeOK ==
  /\ alive \in BOOLEAN
  /\ \A held \in {received, analysed, result} :
       held \in Seq(Images) /\ Len(held) <= 1
  /\ InputQueue!TypeOK
  /\ OutputQueue!TypeOK

RunnerInit ==
  /\ alive = TRUE
  /\ received = <<>> /\ analysed = <<>> /\ result = <<>>
  /\ InputQueue!Init
  /\ OutputQueue!Init

(***************************************************************************)
(* ProducerThread: receive, decode, push.                                  *)
(***************************************************************************)

ReceiveImage(image) ==
  /\ alive
  /\ received = <<>>
  /\ InputQueue!Outside("producer")
  /\ received' = <<image>>
  /\ UNCHANGED <<alive, inVars, analysed, outVars, result>>

PushInput ==
  /\ alive
  /\ received # <<>>
  /\ \/ InputQueue!Push(received[1]) /\ received' = <<>>
     \/ InputQueue!PushBlocks /\ UNCHANGED received
  /\ UNCHANGED <<alive, analysed, outVars, result>>

(***************************************************************************)
(* The analytic: process() pops an image and pushes its result, if it has  *)
(* one.                                                                    *)
(***************************************************************************)

PopInput ==
  /\ alive
  /\ analysed = <<>>
  /\ OutputQueue!Outside("analytic")
  /\ \/ InputQueue!Pop /\ analysed' = <<Head(inQueue)>>
     \/ InputQueue!PopBlocks /\ UNCHANGED analysed
  /\ UNCHANGED <<alive, received, outVars, result>>

\* An image for which nothing will be pushed.
Withhold ==
  /\ alive
  /\ analysed = <<>>
  /\ OutputQueue!Outside("analytic")
  /\ InputQueue!Pop
  /\ UNCHANGED <<alive, received, analysed, outVars, result>>

PushOutput ==
  /\ alive
  /\ analysed # <<>>
  /\ InputQueue!Outside("analytic")
  /\ \/ OutputQueue!Push(analysed[1]) /\ analysed' = <<>>
     \/ OutputQueue!PushBlocks /\ UNCHANGED analysed
  /\ UNCHANGED <<alive, received, inVars, result>>

(***************************************************************************)
(* ConsumerThread: pop, serialize, send.                                   *)
(***************************************************************************)

PopOutput ==
  /\ alive
  /\ result = <<>>
  /\ \/ OutputQueue!Pop /\ result' = <<Head(outQueue)>>
     \/ OutputQueue!PopBlocks /\ UNCHANGED result
  /\ UNCHANGED <<alive, received, inVars, analysed>>

\* The result sent is result[1].
SendResult ==
  /\ alive
  /\ result # <<>>
  /\ OutputQueue!Outside("consumer")
  /\ result' = <<>>
  /\ UNCHANGED <<alive, received, inVars, analysed, outVars>>

(***************************************************************************)
(* The condition variables.                                                *)
(***************************************************************************)

Notify(t) ==
  /\ alive
  /\ \/ InputQueue!NotifyOne(t) /\ UNCHANGED outVars
     \/ OutputQueue!NotifyOne(t) /\ UNCHANGED inVars
  /\ UNCHANGED <<alive, received, analysed, result>>

Wake(t) ==
  /\ alive
  /\ \/ InputQueue!SpuriousWake(t) /\ UNCHANGED outVars
     \/ OutputQueue!SpuriousWake(t) /\ UNCHANGED inVars
  /\ UNCHANGED <<alive, received, analysed, result>>

\* The process ends: a signal of the Analytic Server, or a crash of the plugin.
RunnerDies ==
  /\ alive
  /\ alive' = FALSE
  /\ received' = <<>> /\ analysed' = <<>> /\ result' = <<>>
  /\ inQueue' = <<>> /\ inWaiting' = {} /\ inNotifying' = {}
  /\ outQueue' = <<>> /\ outWaiting' = {} /\ outNotifying' = {}

\* The images inside the process, oldest first.
Inside == result \o outQueue \o analysed \o inQueue \o received
=============================================================================
