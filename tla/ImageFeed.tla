----------------------------- MODULE ImageFeed ------------------------------
(***************************************************************************)
(* One analytic instance end to end: the consumer threads, flow controller *)
(* and result router of the OpenCCTV Server (SimpleFlowController), the    *)
(* analytic process (AnalyticRunner), and the two message queues between.  *)
(*                                                                         *)
(*   consumer(s) --inputMq--> producer | analytic | consumer --resultsMq-->*)
(*   result router --received()--> flow controller                         *)
(*                                                                         *)
(* An image is the stream it comes from.  The input queue has one sending  *)
(* socket per stream, fair-queued by the receiver: it keeps the order      *)
(* within a stream only, so any of the streams there may come next.        *)
(***************************************************************************)
EXTENDS SimpleFlowController, AnalyticRunner, SequencesExt

ASSUME ImagesAssumption == Images = Streams

VARIABLES
  inputMq,     \* images in the analytic's input queue, as they were sent
  resultsMq,   \* results in the analytic's output queue, oldest first
  lost         \* images without a result: the analytic withheld it, or they died with the process

mqVars == <<inputMq, resultsMq, lost>>
vars == <<serverVars, mqVars, runnerVars>>

TypeOK ==
  /\ ServerTypeOK
  /\ RunnerTypeOK
  /\ inputMq \in Seq(Streams) /\ resultsMq \in Seq(Streams)
  /\ lost \in Nat

Init ==
  /\ ServerInit
  /\ RunnerInit
  /\ inputMq = <<>> /\ resultsMq = <<>>
  /\ lost = 0

(***************************************************************************)
(* The server.                                                             *)
(***************************************************************************)

Send(s) ==
  /\ Written(s)
  /\ inputMq' = Append(inputMq, s)
  /\ UNCHANGED <<resultsMq, lost, runnerVars>>

ReceiveResult ==
  /\ resultsMq # <<>>
  /\ ResultReceived
  /\ resultsMq' = Tail(resultsMq)
  /\ UNCHANGED <<inputMq, lost, runnerVars>>

ServerOnly(step) == step /\ UNCHANGED <<mqVars, runnerVars>>

\* Stream s's consumer goes on with a send it has begun.
FinishSend(s) ==
  \/ Send(s)
  \/ ServerOnly(NotWritten(s))
  \/ ServerOnly(Sent(s))

RouterStep == ReceiveResult \/ ServerOnly(Received)

(***************************************************************************)
(* The analytic process.                                                   *)
(***************************************************************************)

Receive(i) ==
  /\ ReceiveImage(inputMq[i])
  /\ inputMq' = RemoveAt(inputMq, i)
  /\ UNCHANGED <<resultsMq, lost, serverVars>>

\* Mutant: the consumer thread of the process sends its result twice.
AnswerTwice ==
  /\ SendResult
  /\ resultsMq' = resultsMq \o result \o result
  /\ UNCHANGED <<inputMq, lost, serverVars>>

Answer ==
  /\ SendResult
  /\ resultsMq' = resultsMq \o result
  /\ UNCHANGED <<inputMq, lost, serverVars>>

Internal(step) == step /\ UNCHANGED <<serverVars, mqVars>>

WithholdResult ==
  /\ Withhold
  /\ lost' = lost + 1
  /\ UNCHANGED <<inputMq, resultsMq, serverVars>>

Dies ==
  /\ RunnerDies
  /\ lost' = lost + Len(Inside)
  /\ UNCHANGED <<inputMq, resultsMq, serverVars>>

ProducerThread ==
  \/ \E i \in DOMAIN inputMq : Receive(i)
  \/ Internal(PushInput)
  \/ Internal(Notify("producer"))

AnalyticThread ==
  \/ Internal(PopInput)
  \/ WithholdResult
  \/ Internal(PushOutput)
  \/ Internal(Notify("analytic"))

ConsumerThread ==
  \/ Internal(PopOutput)
  \/ Answer
  \/ Internal(Notify("consumer"))

Threads == {"producer", "analytic", "consumer"}

Next ==
  \/ \E s \in Streams : ServerOnly(CanSend(s)) \/ FinishSend(s)
  \/ RouterStep
  \/ ProducerThread
  \/ AnalyticThread
  \/ ConsumerThread
  \/ \E t \in Threads : Internal(Wake(t))
  \/ Dies

Spec == Init /\ [][Next]_vars

(***************************************************************************)
(* Fairness: each thread of the process goes on when it can (a thread that *)
(* waits can only be woken), a consumer finishes the send it has begun and *)
(* the router takes what there is.  No fairness for spurious wake-ups, for *)
(* the camera or for the death of the process, and none that tells whether *)
(* an image has a result.                                                  *)
(***************************************************************************)
Fairness ==
  /\ WF_vars(ProducerThread) /\ WF_vars(AnalyticThread) /\ WF_vars(ConsumerThread)
  /\ \A s \in Streams : WF_vars(FinishSend(s))
  /\ WF_vars(RouterStep)

LiveSpec == Spec /\ Fairness

-----------------------------------------------------------------------------
\* The images that the server has written and has no result of.
Remote == Len(inputMq) + Len(Inside) + Len(resultsMq)

(***************************************************************************)
(* The real queues and threads implement the count of FlowControl, so what *)
(* is proved there of the counter holds of the whole feed.                 *)
(***************************************************************************)
Flow == INSTANCE FlowControl WITH remote <- Remote

ImplementsFlowControl == Flow!Spec

(***************************************************************************)
(* They implement its bounded channel too: while the process lives,        *)
(* threads that wait for one another on two bounded queues deliver what    *)
(* the channel accepted, or the analytic withholds it.                     *)
(***************************************************************************)
ImplementsChannel == Flow!ImplementsChannel

(***************************************************************************)
(* And the feed does not close for good before MaxSize images were lost or *)
(* the process died, whatever the counter read in between.                 *)
(***************************************************************************)
FeedStaysOpen == Flow!FeedStaysOpen

(***************************************************************************)
(* Results reach the server once each at most, in the order in which the   *)
(* process took the images in, whatever the five threads and two queues do.*)
(***************************************************************************)
Pipeline == INSTANCE FifoChannel WITH
  Images <- Streams,
  Capacity <- MaxSize + Cardinality(Streams) - 1,
  channel <- resultsMq \o Inside

OneResultPerImageInOrder == Pipeline!Spec

(***************************************************************************)
(* No thread of the process sleeps on a condition variable while what it   *)
(* waits for is there and nobody is about to notify it.                    *)
(***************************************************************************)
NoLostWakeup == InputQueue!NoLostWakeup /\ OutputQueue!NoLostWakeup

(***************************************************************************)
(* While the process lives the images written to its queue bring the       *)
(* router a result, but those that the analytic has none for: no two       *)
(* threads end up waiting for one another.                                 *)
(***************************************************************************)
ResultsKeepComing ==
  []alive => [](Remote > 0 => <>(router = "crediting" \/ Remote = 0))
=============================================================================
