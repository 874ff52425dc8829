-------------------------- MODULE ImageFeedProofs ---------------------------
(***************************************************************************)
(* The feed of an analytic, for every queue size and every set of streams. *)
(* First the two queues inside the process: every step of the feed is a    *)
(* step of each queue (or leaves it alone, or empties it when the process  *)
(* dies), so the invariant of ImageQueue carries over.  Then what each     *)
(* step does to the images on their way, and from that the two refinements *)
(* the runs check: the feed implements the count of FlowControl, whose     *)
(* invariant then bounds what is out, and what is between the process's    *)
(* input and the server is one first-in first-out pipeline.                *)
(***************************************************************************)
EXTENDS ImageFeed, SequenceTheorems, FiniteSetTheorems, TLAPS

\* The invariant of ImageQueue, for both queues of the process.
QueuesInv == InputQueue!QueueInv /\ OutputQueue!QueueInv

\* The types of the process and of the message queues; the server's come with
\* the invariant of the flow control.
FeedTypeOK ==
  /\ RunnerTypeOK
  /\ inputMq \in Seq(Images) /\ resultsMq \in Seq(Images)
  /\ lost \in Nat

\* Every operation preserves the queue's invariant: whoever changes the queue
\* cannot sleep, so the one waiter its notify_one finds is the other side.
LEMMA InputQueueStep ==
  ASSUME InputQueue!QueueInv, [InputQueue!Next]_(InputQueue!queueVars)
  PROVE  InputQueue!QueueInv'
<1> USE QueueAssumption
<1> USE DEF InputQueue!QueueInv, InputQueue!TypeOK, InputQueue!OnePlace, InputQueue!NoLostWakeup,
            InputQueue!Threads, InputQueue!Outside
<1>1. ASSUME NEW image \in Images, InputQueue!Push(image) PROVE InputQueue!QueueInv'
  BY <1>1 DEF InputQueue!Push
<1>2. CASE InputQueue!PushBlocks
  BY <1>2 DEF InputQueue!PushBlocks
<1>3. CASE InputQueue!Pop
  <2>1. Len(inQueue') = Len(inQueue) - 1 /\ inQueue' \in Seq(Images)
    BY <1>3 DEF InputQueue!Pop
  <2>2. QED
    BY <1>3, <2>1 DEF InputQueue!Pop
<1>4. CASE InputQueue!PopBlocks
  BY <1>4 DEF InputQueue!PopBlocks
<1>5. ASSUME NEW t \in InputQueue!Threads, InputQueue!NotifyOne(t) PROVE InputQueue!QueueInv'
  <2>1. inWaiting' \subseteq inWaiting /\ inNotifying' = inNotifying \ {t} /\ UNCHANGED inQueue
    BY <1>5 DEF InputQueue!NotifyOne
  <2>2. t \notin inWaiting
    BY <1>5 DEF InputQueue!NotifyOne
  <2>3. inWaiting' = {}
    <3>1. CASE inWaiting = {}
      BY <2>1, <3>1
    <3>2. CASE inWaiting # {}
      <4>1. PICK w \in inWaiting : inWaiting' = inWaiting \ {w}
        BY <1>5, <3>2 DEF InputQueue!NotifyOne
      <4>2. inWaiting \subseteq InputQueue!Threads \ {t}
        BY <2>2
      <4>3. QED
        BY <4>1, <4>2
    <3>3. QED
      BY <3>1, <3>2
  <2>4. QED
    BY <2>1, <2>3
<1>6. ASSUME NEW t \in InputQueue!Threads, InputQueue!SpuriousWake(t) PROVE InputQueue!QueueInv'
  BY <1>6 DEF InputQueue!SpuriousWake
<1>7. CASE UNCHANGED InputQueue!queueVars
  BY <1>7 DEF InputQueue!queueVars
<1>8. QED
  BY <1>1, <1>2, <1>3, <1>4, <1>5, <1>6, <1>7 DEF InputQueue!Next

\* The same for the other queue.
LEMMA OutputQueueStep ==
  ASSUME OutputQueue!QueueInv, [OutputQueue!Next]_(OutputQueue!queueVars)
  PROVE  OutputQueue!QueueInv'
<1> USE QueueAssumption
<1> USE DEF OutputQueue!QueueInv, OutputQueue!TypeOK, OutputQueue!OnePlace,
            OutputQueue!NoLostWakeup, OutputQueue!Threads, OutputQueue!Outside
<1>1. ASSUME NEW image \in Images, OutputQueue!Push(image) PROVE OutputQueue!QueueInv'
  BY <1>1 DEF OutputQueue!Push
<1>2. CASE OutputQueue!PushBlocks
  BY <1>2 DEF OutputQueue!PushBlocks
<1>3. CASE OutputQueue!Pop
  <2>1. Len(outQueue') = Len(outQueue) - 1 /\ outQueue' \in Seq(Images)
    BY <1>3 DEF OutputQueue!Pop
  <2>2. QED
    BY <1>3, <2>1 DEF OutputQueue!Pop
<1>4. CASE OutputQueue!PopBlocks
  BY <1>4 DEF OutputQueue!PopBlocks
<1>5. ASSUME NEW t \in OutputQueue!Threads, OutputQueue!NotifyOne(t) PROVE OutputQueue!QueueInv'
  <2>1. outWaiting' \subseteq outWaiting /\ outNotifying' = outNotifying \ {t} /\ UNCHANGED outQueue
    BY <1>5 DEF OutputQueue!NotifyOne
  <2>2. t \notin outWaiting
    BY <1>5 DEF OutputQueue!NotifyOne
  <2>3. outWaiting' = {}
    <3>1. CASE outWaiting = {}
      BY <2>1, <3>1
    <3>2. CASE outWaiting # {}
      <4>1. PICK w \in outWaiting : outWaiting' = outWaiting \ {w}
        BY <1>5, <3>2 DEF OutputQueue!NotifyOne
      <4>2. outWaiting \subseteq OutputQueue!Threads \ {t}
        BY <2>2
      <4>3. QED
        BY <4>1, <4>2
    <3>3. QED
      BY <3>1, <3>2
  <2>4. QED
    BY <2>1, <2>3
<1>6. ASSUME NEW t \in OutputQueue!Threads, OutputQueue!SpuriousWake(t) PROVE OutputQueue!QueueInv'
  BY <1>6 DEF OutputQueue!SpuriousWake
<1>7. CASE UNCHANGED OutputQueue!queueVars
  BY <1>7 DEF OutputQueue!queueVars
<1>8. QED
  BY <1>1, <1>2, <1>3, <1>4, <1>5, <1>6, <1>7 DEF OutputQueue!Next

\* A step of the server, and any step but the process's death, is a step of
\* each queue or leaves it unchanged.
LEMMA QueueSteps ==
  ASSUME QueuesInv, FeedTypeOK, [Next]_vars, ~Dies
  PROVE  /\ [InputQueue!Next]_(InputQueue!queueVars)
         /\ [OutputQueue!Next]_(OutputQueue!queueVars)
<1> USE DEF QueuesInv, InputQueue!QueueInv, InputQueue!TypeOK, FeedTypeOK, RunnerTypeOK,
            InputQueue!queueVars, OutputQueue!queueVars, inVars, outVars
<1> DEFINE Goal == /\ [InputQueue!Next]_(InputQueue!queueVars)
                   /\ [OutputQueue!Next]_(OutputQueue!queueVars)
<1>1. ASSUME UNCHANGED runnerVars PROVE Goal
  BY <1>1 DEF runnerVars
<1>2. ASSUME NEW s \in Streams, ServerOnly(CanSend(s)) \/ FinishSend(s)
      PROVE  UNCHANGED runnerVars
  BY <1>2 DEF ServerOnly, FinishSend, Send
<1>3. ASSUME RouterStep PROVE UNCHANGED runnerVars
  BY <1>3 DEF RouterStep, ServerOnly, ReceiveResult
<1>4. ASSUME NEW i \in DOMAIN inputMq, Receive(i) PROVE Goal
  BY <1>4 DEF Receive, ReceiveImage
<1>5. CASE PushInput
  <2>1. CASE InputQueue!Push(received[1]) /\ received' = <<>>
    <3>1. received[1] \in Images
      BY <1>5 DEF PushInput
    <3>2. InputQueue!Next
      BY <2>1, <3>1 DEF InputQueue!Next
    <3>3. QED
      BY <1>5, <2>1, <3>2 DEF PushInput
  <2>2. CASE InputQueue!PushBlocks /\ UNCHANGED received
    BY <1>5, <2>2 DEF PushInput, InputQueue!Next
  <2>3. QED
    BY <1>5, <2>1, <2>2 DEF PushInput
<1>6. CASE PopInput
  <2>1. CASE InputQueue!Pop /\ analysed' = <<Head(inQueue)>>
    <3>1. Head(inQueue) \in Images
      BY <2>1 DEF InputQueue!Pop
    <3>2. QED
      BY <1>6, <2>1, <3>1 DEF PopInput, InputQueue!Next
  <2>2. CASE InputQueue!PopBlocks /\ UNCHANGED analysed
    BY <1>6, <2>2 DEF PopInput, InputQueue!Next
  <2>3. QED
    BY <1>6, <2>1, <2>2 DEF PopInput
<1>6a. CASE Withhold
  BY <1>6a DEF Withhold, InputQueue!Next
<1>7. CASE PushOutput
  <2>1. CASE OutputQueue!Push(analysed[1]) /\ analysed' = <<>>
    <3>1. analysed[1] \in Images
      BY <1>7 DEF PushOutput
    <3>2. OutputQueue!Next
      BY <2>1, <3>1 DEF OutputQueue!Next
    <3>3. QED
      BY <1>7, <2>1, <3>2 DEF PushOutput
  <2>2. CASE OutputQueue!PushBlocks /\ UNCHANGED analysed
    BY <1>7, <2>2 DEF PushOutput, OutputQueue!Next
  <2>3. QED
    BY <1>7, <2>1, <2>2 DEF PushOutput
<1>8. CASE PopOutput
  BY <1>8 DEF PopOutput, OutputQueue!Next
<1>9. CASE Answer
  BY <1>9 DEF Answer, SendResult
<1>10. ASSUME NEW t \in Threads, Notify(t) \/ Wake(t) PROVE Goal
  <2>1. CASE Notify(t)
    <3>1. t \in InputQueue!Threads \/ OutputQueue!NotifyOne(t)
      BY <2>1 DEF Notify, InputQueue!NotifyOne, InputQueue!Threads
    <3>2. t \in OutputQueue!Threads \/ InputQueue!NotifyOne(t)
      BY <2>1 DEF Notify, OutputQueue!NotifyOne, OutputQueue!Threads,
                  OutputQueue!QueueInv, OutputQueue!TypeOK
    <3>3. QED
      BY <2>1, <3>1, <3>2 DEF Notify, InputQueue!Next, OutputQueue!Next,
         InputQueue!NotifyOne, OutputQueue!NotifyOne, OutputQueue!QueueInv,
         OutputQueue!TypeOK
  <2>2. CASE Wake(t)
    BY <2>2 DEF Wake, InputQueue!Next, OutputQueue!Next, OutputQueue!QueueInv,
       InputQueue!SpuriousWake, OutputQueue!SpuriousWake, OutputQueue!TypeOK
  <2>3. QED
    BY <1>10, <2>1, <2>2
<1>11. ASSUME ProducerThread \/ AnalyticThread \/ ConsumerThread PROVE Goal
  <2>1. \/ \E t \in Threads : Notify(t)
        \/ \E i \in DOMAIN inputMq : Receive(i)
        \/ PushInput \/ PopInput \/ Withhold \/ PushOutput \/ PopOutput \/ Answer
    BY <1>11 DEF ProducerThread, AnalyticThread, ConsumerThread, Threads, Internal, WithholdResult
  <2>2. QED
    BY <2>1, <1>4, <1>5, <1>6, <1>6a, <1>7, <1>8, <1>9, <1>10
<1>12. CASE UNCHANGED vars
  BY <1>12, <1>1 DEF vars
<1>13. QED
  <2>1. CASE Next
    <3>1. \/ \E s \in Streams : ServerOnly(CanSend(s)) \/ FinishSend(s)
          \/ RouterStep
          \/ ProducerThread \/ AnalyticThread \/ ConsumerThread
          \/ \E t \in Threads : Wake(t)
      BY <2>1 DEF Next, Internal
    <3>2. QED
      BY <3>1, <1>1, <1>2, <1>3, <1>10, <1>11
  <2>2. QED
    BY <2>1, <1>12

\* The invariant of both queues is preserved by every step of the feed.
LEMMA QueuesInductive == QueuesInv /\ FeedTypeOK /\ [Next]_vars => QueuesInv'
<1> SUFFICES ASSUME QueuesInv, FeedTypeOK, [Next]_vars PROVE QueuesInv'
  OBVIOUS
<1>1. CASE Dies
  BY <1>1, QueueAssumption
     DEF Dies, RunnerDies, QueuesInv,
         InputQueue!QueueInv, InputQueue!TypeOK, InputQueue!OnePlace,
         InputQueue!NoLostWakeup, InputQueue!Threads,
         OutputQueue!QueueInv, OutputQueue!TypeOK, OutputQueue!OnePlace,
         OutputQueue!NoLostWakeup, OutputQueue!Threads
<1>2. CASE ~Dies
  <2>1. InputQueue!QueueInv'
    BY <1>2, QueueSteps, InputQueueStep DEF QueuesInv
  <2>2. OutputQueue!QueueInv'
    BY <1>2, QueueSteps, OutputQueueStep DEF QueuesInv
  <2>3. QED
    BY <1>2, <2>1, <2>2, QueueSteps DEF QueuesInv
<1>3. QED
  BY <1>1, <1>2

\* The queues are empty and nobody sleeps at the start.
LEMMA QueuesInit == Init => QueuesInv
BY QueueAssumption
   DEF Init, RunnerInit, InputQueue!Init, OutputQueue!Init, QueuesInv,
       InputQueue!QueueInv, InputQueue!TypeOK, InputQueue!OnePlace,
       InputQueue!NoLostWakeup, InputQueue!Threads,
       OutputQueue!QueueInv, OutputQueue!TypeOK, OutputQueue!OnePlace,
       OutputQueue!NoLostWakeup, OutputQueue!Threads

-----------------------------------------------------------------------------
FlowProofs == INSTANCE FlowControlProofs WITH remote <- Remote

Results == resultsMq \o Inside

\* A sequence that is not empty is its head followed by its tail.
LEMMA HeadThenTail ==
  ASSUME NEW S, NEW q \in Seq(S), q # <<>>
  PROVE  <<Head(q)>> \o Tail(q) = q
<1>1. Len(q) \in Nat \ {0} /\ Head(q) = q[1]
  BY EmptySeq
<1>2. q = SubSeq(q, 1, Len(q)) /\ Tail(q) = SubSeq(q, 2, Len(q))
  BY SubSeqFull, TailIsSubSeq
<1>3. SubSeq(q, 1, Len(q)) = <<q[1]>> \o SubSeq(q, 1 + 1, Len(q))
  BY <1>1, SubSeqRecursiveFirst
<1>4. QED
  BY <1>1, <1>2, <1>3

\* What a thread holds is one image: the sequence of its first element.
LEMMA OneElement ==
  ASSUME NEW S, NEW q \in Seq(S), Len(q) <= 1, q # <<>>
  PROVE  q[1] \in S /\ q = <<q[1]>> /\ Len(q) = 1
<1>1. Len(q) = 1 /\ Head(q) = q[1] /\ q[1] \in S
  BY EmptySeq
<1>2. Tail(q) = <<>>
  <2>1. Tail(q) = SubSeq(q, 2, 1)
    BY <1>1, TailIsSubSeq
  <2>2. QED
    BY <2>1, SubSeqEmpty
<1>3. <<q[1]>> \o <<>> = <<q[1]>>
  BY <1>1, ConcatEmptySeq
<1>4. QED
  BY <1>1, <1>2, <1>3, HeadThenTail

\* Concatenation under a name of its own: the provers handle it better than \o.
Cat(s, t) == s \o t

\* Two sequences in a row are a sequence.
LEMMA CatIsSeq == \A S : \A s, t \in Seq(S) : Cat(s, t) \in Seq(S)
BY ConcatProperties DEF Cat

\* Where three sequences are cut makes no difference.
LEMMA CatIsAssociative ==
  \A S : \A s, t, u \in Seq(S) : Cat(Cat(s, t), u) = Cat(s, Cat(t, u))
BY ConcatAssociative DEF Cat

\* Each thread holds at most one image and all of them together are a sequence.
LEMMA Held ==
  ASSUME RunnerTypeOK
  PROVE  /\ result \in Seq(Images) /\ outQueue \in Seq(Images) /\ analysed \in Seq(Images)
         /\ inQueue \in Seq(Images) /\ received \in Seq(Images)
         /\ Len(received) <= 1 /\ Len(analysed) <= 1 /\ Len(result) <= 1
         /\ result \o outQueue \in Seq(Images)
         /\ result \o outQueue \o analysed \in Seq(Images)
         /\ result \o outQueue \o analysed \o inQueue \in Seq(Images)
         /\ Inside \in Seq(Images)
<1>1. /\ result \in Seq(Images) /\ outQueue \in Seq(Images) /\ analysed \in Seq(Images)
      /\ inQueue \in Seq(Images) /\ received \in Seq(Images)
      /\ Len(received) <= 1 /\ Len(analysed) <= 1 /\ Len(result) <= 1
  BY DEF RunnerTypeOK, InputQueue!TypeOK, OutputQueue!TypeOK
<1>2. result \o outQueue \in Seq(Images)
  BY <1>1, ConcatProperties
<1>3. result \o outQueue \o analysed \in Seq(Images)
  BY <1>1, <1>2, ConcatProperties
<1>4. result \o outQueue \o analysed \o inQueue \in Seq(Images)
  BY <1>1, <1>3, ConcatProperties
<1>5. Inside \in Seq(Images)
  BY <1>1, <1>4, ConcatProperties DEF Inside
<1>6. QED
  BY <1>1, <1>2, <1>3, <1>4, <1>5

\* The images inside the process, cut where a thread takes or gives one.
LEMMA InsideGrouped ==
  ASSUME RunnerTypeOK
  PROVE  /\ result \o outQueue \o analysed = result \o (outQueue \o analysed)
         /\ Inside = (result \o outQueue \o analysed) \o (inQueue \o received)
         /\ Inside = result \o (outQueue \o analysed \o inQueue \o received)
         /\ outQueue \o analysed \o inQueue \o received \in Seq(Images)
<1> DEFINE a == Cat(Cat(result, outQueue), analysed)
           b == Cat(outQueue, analysed)
           c == Cat(b, inQueue)
<1>1. /\ Cat(result, outQueue) \in Seq(Images)
      /\ b \in Seq(Images)
  BY Held, CatIsSeq
<1>2. a \in Seq(Images) /\ c \in Seq(Images)
  BY <1>1, Held, CatIsSeq
<1>3. a = Cat(result, b)
  BY Held, CatIsAssociative
<1>4. Cat(Cat(a, inQueue), received) = Cat(a, Cat(inQueue, received))
  BY <1>2, Held, CatIsAssociative
<1>5. Cat(Cat(result, b), inQueue) = Cat(result, c)
  BY <1>1, Held, CatIsAssociative
<1>6. Cat(Cat(result, c), received) = Cat(result, Cat(c, received))
  BY <1>2, Held, CatIsAssociative
<1>7. Inside = Cat(Cat(a, inQueue), received)
  BY DEF Inside, Cat
<1>8. Inside = Cat(result, Cat(c, received))
  BY <1>3, <1>5, <1>6, <1>7
<1>9. Cat(c, received) \in Seq(Images)
  BY <1>2, Held, CatIsSeq
<1>10. QED
  BY <1>3, <1>4, <1>7, <1>8, <1>9 DEF Cat

\* The producer thread moves its image to the end of the input queue.
LEMMA PushInputMoves ==
  ASSUME RunnerTypeOK, PushInput
  PROVE  RunnerTypeOK' /\ Inside' = Inside
<1> USE DEF RunnerTypeOK, PushInput, outVars,
            InputQueue!TypeOK, InputQueue!Threads, OutputQueue!TypeOK
<1>1. CASE InputQueue!PushBlocks /\ UNCHANGED received
  BY <1>1 DEF InputQueue!PushBlocks, Inside
<1>2. CASE InputQueue!Push(received[1]) /\ received' = <<>>
  <2>1. received[1] \in Images /\ received = <<received[1]>>
    BY OneElement, Held
  <2>2. inQueue' = Append(inQueue, received[1]) /\ inQueue' = inQueue \o received
    BY <1>2, <2>1, AppendIsConcat, Held DEF InputQueue!Push
  <2>3. RunnerTypeOK'
    <3>1. inQueue' \in Seq(Images) /\ Len(inQueue') <= QueueSize
      <4>1. Len(inQueue) \in Nat /\ Len(inQueue) < QueueSize
        BY <1>2, Held DEF InputQueue!Push
      <4>2. inQueue' \in Seq(Images) /\ Len(inQueue') = Len(inQueue) + 1
        BY <2>1, <2>2, Held, AppendProperties
      <4>3. QED
        BY <4>1, <4>2, QueueAssumption
    <3>2. received' \in Seq(Images) /\ Len(received') <= 1
      BY <1>2, EmptySeq
    <3>3. QED
      BY <1>2, <3>1, <3>2 DEF InputQueue!Push
  <2>4. Inside' = (result \o outQueue \o analysed \o inQueue') \o <<>>
    BY <1>2 DEF Inside
  <2>5. (result \o outQueue \o analysed) \o (inQueue \o received) = Inside
    BY InsideGrouped
  <2>6. QED
    BY <2>2, <2>3, <2>4, <2>5, Held, ConcatEmptySeq
<1>3. QED
  BY <1>1, <1>2 DEF PushInput

\* The analytic takes the oldest image of the input queue.
LEMMA PopInputMoves ==
  ASSUME RunnerTypeOK, PopInput
  PROVE  RunnerTypeOK' /\ Inside' = Inside
<1> USE DEF RunnerTypeOK, PopInput, outVars,
            InputQueue!TypeOK, InputQueue!Threads, OutputQueue!TypeOK
<1>1. CASE InputQueue!PopBlocks /\ UNCHANGED analysed
  BY <1>1 DEF InputQueue!PopBlocks, Inside
<1>2. CASE InputQueue!Pop /\ analysed' = <<Head(inQueue)>>
  <2>1. /\ inQueue # <<>> /\ inQueue' = Tail(inQueue) /\ analysed = <<>>
        /\ inQueue = analysed' \o inQueue'
    BY <1>2, HeadThenTail, Held DEF InputQueue!Pop
  <2>2. /\ Head(inQueue) \in Images /\ Tail(inQueue) \in Seq(Images)
        /\ Len(Tail(inQueue)) = Len(inQueue) - 1
    BY <2>1, HeadTailProperties, Held
  <2>3. RunnerTypeOK'
    <3>1. inQueue' \in Seq(Images) /\ Len(inQueue') <= QueueSize
      <4>1. Len(inQueue) \in Nat /\ Len(inQueue) <= QueueSize
        BY Held
      <4>2. QED
        BY <2>1, <2>2, <4>1, QueueAssumption
    <3>2. analysed' \in Seq(Images) /\ Len(analysed') <= 1
      BY <1>2, <2>2
    <3>3. QED
      BY <1>2, <3>1, <3>2 DEF InputQueue!Pop
  <2>4. result \o outQueue \o analysed = result \o outQueue
    BY <2>1, Held, ConcatEmptySeq
  <2>5. (result \o outQueue \o analysed') \o inQueue' = (result \o outQueue) \o inQueue
    <3>1. /\ Cat(result, outQueue) \in Seq(Images)
          /\ analysed' \in Seq(Images) /\ inQueue' \in Seq(Images)
      BY <1>2, <2>1, <2>2, Held, CatIsSeq
    <3>2. Cat(Cat(Cat(result, outQueue), analysed'), inQueue')
            = Cat(Cat(result, outQueue), Cat(analysed', inQueue'))
      BY <3>1, CatIsAssociative
    <3>3. QED
      BY <2>1, <3>2 DEF Cat
  <2>6. QED
    BY <1>2, <2>3, <2>4, <2>5 DEF Inside
<1>3. QED
  BY <1>1, <1>2 DEF PopInput

\* The input queue without its oldest image keeps its type.
LEMMA WithholdTakes ==
  ASSUME RunnerTypeOK, Withhold
  PROVE  /\ RunnerTypeOK' /\ analysed = <<>> /\ inQueue # <<>> /\ inQueue' = Tail(inQueue)
         /\ UNCHANGED <<received, analysed, outQueue, result>>
<1> USE DEF RunnerTypeOK, Withhold, outVars,
            InputQueue!TypeOK, InputQueue!Threads, OutputQueue!TypeOK
<1>1. inQueue # <<>> /\ inQueue' = Tail(inQueue)
  BY DEF InputQueue!Pop
<1>2. inQueue' \in Seq(Images) /\ Len(inQueue') <= QueueSize
  <2>1. /\ Tail(inQueue) \in Seq(Images) /\ Len(Tail(inQueue)) = Len(inQueue) - 1
        /\ Len(inQueue) \in Nat /\ Len(inQueue) <= QueueSize
    BY <1>1, HeadTailProperties, Held
  <2>2. QED
    BY <1>1, <2>1, QueueAssumption
<1>3. QED
  BY <1>1, <1>2 DEF InputQueue!Pop

\* The analytic moves its result to the end of the output queue.
LEMMA PushOutputMoves ==
  ASSUME RunnerTypeOK, PushOutput
  PROVE  RunnerTypeOK' /\ Inside' = Inside
<1> USE DEF RunnerTypeOK, PushOutput, inVars,
            InputQueue!TypeOK, OutputQueue!Threads, OutputQueue!TypeOK
<1>1. CASE OutputQueue!PushBlocks /\ UNCHANGED analysed
  BY <1>1 DEF OutputQueue!PushBlocks, Inside
<1>2. CASE OutputQueue!Push(analysed[1]) /\ analysed' = <<>>
  <2>1. analysed[1] \in Images /\ analysed = <<analysed[1]>>
    BY OneElement, Held
  <2>2. outQueue' = Append(outQueue, analysed[1]) /\ outQueue' = outQueue \o analysed
    BY <1>2, <2>1, AppendIsConcat, Held DEF OutputQueue!Push
  <2>3. RunnerTypeOK'
    <3>1. outQueue' \in Seq(Images) /\ Len(outQueue') <= QueueSize
      <4>1. Len(outQueue) \in Nat /\ Len(outQueue) < QueueSize
        BY <1>2, Held DEF OutputQueue!Push
      <4>2. outQueue' \in Seq(Images) /\ Len(outQueue') = Len(outQueue) + 1
        BY <2>1, <2>2, Held, AppendProperties
      <4>3. QED
        BY <4>1, <4>2, QueueAssumption
    <3>2. analysed' \in Seq(Images) /\ Len(analysed') <= 1
      BY <1>2, EmptySeq
    <3>3. QED
      BY <1>2, <3>1, <3>2 DEF OutputQueue!Push
  <2>4. result \o outQueue' = result \o outQueue \o analysed
    BY <2>2, InsideGrouped
  <2>5. result \o outQueue' \o analysed' = result \o outQueue \o analysed
    BY <1>2, <2>4, Held, ConcatEmptySeq
  <2>6. QED
    BY <1>2, <2>3, <2>5 DEF Inside
<1>3. QED
  BY <1>1, <1>2 DEF PushOutput

\* The consumer thread takes the oldest result of the output queue.
LEMMA PopOutputMoves ==
  ASSUME RunnerTypeOK, PopOutput
  PROVE  RunnerTypeOK' /\ Inside' = Inside
<1> USE DEF RunnerTypeOK, PopOutput, inVars,
            InputQueue!TypeOK, OutputQueue!Threads, OutputQueue!TypeOK
<1>1. CASE OutputQueue!PopBlocks /\ UNCHANGED result
  BY <1>1 DEF OutputQueue!PopBlocks, Inside
<1>2. CASE OutputQueue!Pop /\ result' = <<Head(outQueue)>>
  <2>1. /\ outQueue # <<>> /\ outQueue' = Tail(outQueue) /\ result = <<>>
        /\ outQueue = result' \o outQueue'
    BY <1>2, HeadThenTail, Held DEF OutputQueue!Pop
  <2>2. /\ Head(outQueue) \in Images /\ Tail(outQueue) \in Seq(Images)
        /\ Len(Tail(outQueue)) = Len(outQueue) - 1
    BY <2>1, HeadTailProperties, Held
  <2>3. RunnerTypeOK'
    <3>1. outQueue' \in Seq(Images) /\ Len(outQueue') <= QueueSize
      <4>1. Len(outQueue) \in Nat /\ Len(outQueue) <= QueueSize
        BY Held
      <4>2. QED
        BY <2>1, <2>2, <4>1, QueueAssumption
    <3>2. result' \in Seq(Images) /\ Len(result') <= 1
      BY <1>2, <2>2
    <3>3. QED
      BY <1>2, <3>1, <3>2 DEF OutputQueue!Pop
  <2>4. result' \o outQueue' = result \o outQueue
    BY <2>1, Held, ConcatEmptySeq
  <2>5. QED
    BY <1>2, <2>3, <2>4 DEF Inside
<1>3. QED
  BY <1>1, <1>2 DEF PopOutput

\* Notifications and wake-ups move no image.
LEMMA ConditionsMove ==
  ASSUME RunnerTypeOK, NEW t, Notify(t) \/ Wake(t)
  PROVE  RunnerTypeOK' /\ Inside' = Inside
BY DEF RunnerTypeOK, Notify, Wake, inVars, outVars, Inside,
       InputQueue!TypeOK, InputQueue!NotifyOne, InputQueue!SpuriousWake,
       OutputQueue!TypeOK, OutputQueue!NotifyOne, OutputQueue!SpuriousWake

\* An image received is the newest inside the process.
LEMMA ReceiveMoves ==
  ASSUME RunnerTypeOK, NEW image \in Images, ReceiveImage(image)
  PROVE  RunnerTypeOK' /\ Inside' = Append(Inside, image)
<1> USE DEF RunnerTypeOK, ReceiveImage, inVars, outVars,
            InputQueue!TypeOK, OutputQueue!TypeOK
<1>1. RunnerTypeOK'
  OBVIOUS
<1>2. Inside = result \o outQueue \o analysed \o inQueue
  BY Held, ConcatEmptySeq DEF Inside
<1>3. Inside' = Inside \o <<image>>
  BY <1>2 DEF Inside
<1>4. QED
  BY <1>1, <1>3, Held, AppendIsConcat

\* A result sent was the oldest inside the process.
LEMMA SendResultMoves ==
  ASSUME RunnerTypeOK, SendResult
  PROVE  RunnerTypeOK' /\ Inside = result \o Inside' /\ Inside' \in Seq(Images)
<1> USE DEF RunnerTypeOK, SendResult, inVars, outVars,
            InputQueue!TypeOK, OutputQueue!TypeOK
<1>1. RunnerTypeOK'
  OBVIOUS
<1>2. result' \o outQueue' = outQueue
  BY Held, ConcatEmptySeq
<1>3. Inside' = outQueue \o analysed \o inQueue \o received
  BY <1>2 DEF Inside
<1>4. Inside = result \o (outQueue \o analysed \o inQueue \o received)
  BY InsideGrouped
<1>5. QED
  BY <1>1, <1>3, <1>4, InsideGrouped

\* The process dies with every image inside it.
LEMMA DeathEmpties ==
  ASSUME RunnerTypeOK, RunnerDies
  PROVE  RunnerTypeOK' /\ Inside' = <<>>
<1>1. <<>> \in Seq(Images) /\ Len(<<>>) <= 1 /\ Len(<<>>) <= QueueSize
  BY QueueAssumption, EmptySeq
<1>2. RunnerTypeOK'
  BY <1>1 DEF RunnerTypeOK, RunnerDies, InputQueue!TypeOK, OutputQueue!TypeOK
<1>3. <<>> \o <<>> = <<>>
  BY EmptySeq, ConcatEmptySeq
<1>4. QED
  BY <1>2, <1>3 DEF RunnerDies, Inside

-----------------------------------------------------------------------------
\* Taking one image out leaves a queue of images that is one shorter.
LEMMA RemoveAtProperties ==
  ASSUME NEW S, NEW q \in Seq(S), NEW i \in DOMAIN q
  PROVE  /\ RemoveAt(q, i) \in Seq(S)
         /\ Len(RemoveAt(q, i)) = Len(q) - 1
         /\ q[i] \in S
<1>1. Len(q) \in Nat /\ i \in 1 .. Len(q) /\ q[i] \in S
  OBVIOUS
<1> DEFINE front == SubSeq(q, 1, i - 1)
           rest == SubSeq(q, i + 1, Len(q))
<1>2. front \in Seq(S) /\ Len(front) = i - 1
  BY <1>1, SubSeqProperties
<1>3. rest \in Seq(S) /\ Len(rest) = Len(q) - i
  BY <1>1, SubSeqProperties
<1>4. RemoveAt(q, i) = front \o rest
  BY DEF RemoveAt
<1> HIDE DEF front, rest
<1>5. RemoveAt(q, i) \in Seq(S) /\ Len(RemoveAt(q, i)) = Len(front) + Len(rest)
  BY <1>2, <1>3, <1>4, ConcatProperties
<1>6. QED
  BY <1>1, <1>2, <1>3, <1>5

\* The images out are a number, and the results on their way one of images.
LEMMA Counted ==
  ASSUME FeedTypeOK
  PROVE  /\ Remote \in Nat
         /\ Len(Inside) \in Nat /\ Len(resultsMq) \in Nat /\ Len(inputMq) \in Nat
         /\ Results \in Seq(Images)
         /\ Len(Results) = Len(resultsMq) + Len(Inside)
<1>1. Inside \in Seq(Images) /\ resultsMq \in Seq(Images) /\ inputMq \in Seq(Images)
  BY Held DEF FeedTypeOK
<1>2. Len(Inside) \in Nat /\ Len(resultsMq) \in Nat /\ Len(inputMq) \in Nat
  BY <1>1
<1>3. QED
  BY <1>1, <1>2, ConcatProperties DEF Remote, Results

\* A consumer's write puts one more image out.
LEMMA SendMoves ==
  ASSUME FeedTypeOK, NEW s \in Streams, Send(s)
  PROVE  FeedTypeOK' /\ Remote' = Remote + 1 /\ Results' = Results
<1>1. UNCHANGED runnerVars /\ UNCHANGED <<resultsMq, lost>> /\ inputMq' = Append(inputMq, s)
  BY DEF Send
<1>2. inputMq' \in Seq(Images) /\ Len(inputMq') = Len(inputMq) + 1
  BY <1>1, ImagesAssumption, AppendProperties DEF FeedTypeOK
<1>3. RunnerTypeOK' /\ Inside' = Inside
  BY <1>1 DEF FeedTypeOK, runnerVars, RunnerTypeOK, Inside, InputQueue!TypeOK, OutputQueue!TypeOK
<1>4. QED
  BY <1>1, <1>2, <1>3, Counted DEF FeedTypeOK, Remote, Results

\* The router takes the oldest result.
LEMMA ReceiveResultMoves ==
  ASSUME FeedTypeOK, ReceiveResult
  PROVE  /\ FeedTypeOK' /\ Remote' = Remote - 1 /\ Remote > 0
         /\ Results # <<>> /\ Results' = Tail(Results)
<1>1. /\ UNCHANGED runnerVars /\ UNCHANGED <<inputMq, lost>>
      /\ resultsMq # <<>> /\ resultsMq' = Tail(resultsMq)
  BY DEF ReceiveResult
<1>2. RunnerTypeOK' /\ Inside' = Inside
  BY <1>1 DEF FeedTypeOK, runnerVars, RunnerTypeOK, Inside, InputQueue!TypeOK, OutputQueue!TypeOK
<1>3. /\ resultsMq' \in Seq(Images) /\ Len(resultsMq') = Len(resultsMq) - 1
      /\ Len(resultsMq) > 0
  BY <1>1, HeadTailProperties, EmptySeq DEF FeedTypeOK
<1>4. Results # <<>> /\ Results' = Tail(Results)
  <2>1. Inside \in Seq(Images) /\ resultsMq \in Seq(Images)
    BY Held DEF FeedTypeOK
  <2>2. Results # <<>>
    BY <1>3, Counted, EmptySeq
  <2>3. Tail(resultsMq \o Inside) = Tail(resultsMq) \o Inside
    BY <1>1, <2>1, <1>3
  <2>4. QED
    BY <1>1, <1>2, <2>2, <2>3 DEF Results
<1>5. QED
  BY <1>1, <1>2, <1>3, <1>4, Counted DEF FeedTypeOK, Remote

\* An image the process takes in is the newest of the pipeline.
LEMMA ReceiveFeeds ==
  ASSUME FeedTypeOK, NEW i \in DOMAIN inputMq, Receive(i)
  PROVE  /\ FeedTypeOK' /\ Remote' = Remote /\ Len(inputMq) > 0
         /\ inputMq[i] \in Images /\ Results' = Append(Results, inputMq[i])
<1>1. /\ UNCHANGED <<resultsMq, lost>> /\ inputMq' = RemoveAt(inputMq, i)
      /\ ReceiveImage(inputMq[i]) /\ inputMq \in Seq(Images) /\ RunnerTypeOK
      /\ resultsMq \in Seq(Images) /\ Inside \in Seq(Images)
  BY Held DEF Receive, FeedTypeOK
<1>2. /\ inputMq[i] \in Images /\ inputMq' \in Seq(Images) /\ Len(inputMq) > 0
      /\ Len(inputMq') = Len(inputMq) - 1
  BY <1>1, RemoveAtProperties
<1>3. RunnerTypeOK' /\ Inside' = Append(Inside, inputMq[i])
  BY <1>1, <1>2, ReceiveMoves
<1>4. Len(Inside') = Len(Inside) + 1
  BY <1>1, <1>2, <1>3, AppendProperties
<1>5. Results' = Append(Results, inputMq[i])
  <2> DEFINE last == <<inputMq[i]>>
  <2>1. last \in Seq(Images) /\ Cat(resultsMq, Inside) \in Seq(Images)
    BY <1>1, <1>2, CatIsSeq
  <2>2. /\ Append(Inside, inputMq[i]) = Cat(Inside, last)
        /\ Append(Cat(resultsMq, Inside), inputMq[i]) = Cat(Cat(resultsMq, Inside), last)
    BY <1>1, <1>2, <2>1, AppendIsConcat DEF Cat
  <2> HIDE DEF last
  <2>3. Cat(Cat(resultsMq, Inside), last) = Cat(resultsMq, Cat(Inside, last))
    BY <1>1, <2>1, CatIsAssociative
  <2>4. Results = Cat(resultsMq, Inside) /\ Results' = Cat(resultsMq, Inside')
    BY <1>1 DEF Results, Cat
  <2>5. QED
    BY <1>3, <2>2, <2>3, <2>4
<1>6. QED
  BY <1>1, <1>2, <1>3, <1>4, <1>5, Counted DEF FeedTypeOK, Remote

\* A result handed to the queue keeps its place in the pipeline.
LEMMA AnswerMoves ==
  ASSUME FeedTypeOK, Answer
  PROVE  FeedTypeOK' /\ Remote' = Remote /\ Results' = Results
<1>1. /\ UNCHANGED <<inputMq, lost>> /\ resultsMq' = resultsMq \o result /\ SendResult
      /\ RunnerTypeOK /\ resultsMq \in Seq(Images) /\ result \in Seq(Images)
  BY Held DEF Answer, FeedTypeOK
<1>2. RunnerTypeOK' /\ Inside = result \o Inside'
  BY <1>1, SendResultMoves
<1>3. Inside' \in Seq(Images)
  BY <1>1, SendResultMoves
<1>4. /\ resultsMq' \in Seq(Images) /\ Len(resultsMq') = Len(resultsMq) + Len(result)
      /\ Len(Inside) = Len(result) + Len(Inside')
  BY <1>1, <1>2, <1>3, ConcatProperties
<1>5. Results' = Results
  <2>1. Cat(Cat(resultsMq, result), Inside') = Cat(resultsMq, Cat(result, Inside'))
    BY <1>1, <1>3, CatIsAssociative
  <2>2. QED
    BY <1>1, <1>2, <2>1 DEF Results, Cat
<1>6. Remote' = Remote
  <2>1. /\ Len(result) \in Nat /\ Len(resultsMq) \in Nat /\ Len(inputMq) \in Nat
        /\ Len(Inside') \in Nat
    BY <1>1, <1>3, Counted
  <2>2. QED
    BY <1>1, <1>4, <2>1 DEF Remote
<1>7. QED
  BY <1>1, <1>2, <1>4, <1>5, <1>6 DEF FeedTypeOK

\* Two sequences in a row, taken apart again.
LEMMA CatParts ==
  \A s, t \in Seq(Images) :
    /\ Len(Cat(s, t)) = Len(s) + Len(t)
    /\ SubSeq(Cat(s, t), 1, Len(s)) = s
    /\ SubSeq(Cat(s, t), Len(s) + 1, Len(Cat(s, t))) = t
<1> SUFFICES ASSUME NEW s \in Seq(Images), NEW t \in Seq(Images)
             PROVE  /\ Len(Cat(s, t)) = Len(s) + Len(t)
                    /\ SubSeq(Cat(s, t), 1, Len(s)) = s
                    /\ SubSeq(Cat(s, t), Len(s) + 1, Len(Cat(s, t))) = t
  OBVIOUS
<1>1. Len(Cat(s, t)) = Len(s) + Len(t) /\ Len(s) \in Nat /\ Len(t) \in Nat
  BY DEF Cat
<1>2. SubSeq(Cat(s, t), 1, Len(s)) = s
  BY <1>1 DEF Cat
<1>3. SubSeq(Cat(s, t), Len(s) + 1, Len(Cat(s, t))) = t
  BY <1>1 DEF Cat
<1>4. QED
  BY <1>1, <1>2, <1>3

\* An image without a result leaves the pipeline, and no other.
LEMMA WithholdMoves ==
  ASSUME FeedTypeOK, WithholdResult
  PROVE  /\ FeedTypeOK' /\ lost' = lost + 1 /\ Remote' = Remote - 1 /\ Remote > 0
         /\ UNCHANGED serverVars
         /\ \E n \in 1 .. Len(Results) :
              Results' = SubSeq(Results, 1, n - 1) \o SubSeq(Results, n + 1, Len(Results))
<1> DEFINE one == <<Head(inQueue)>>
           others == Tail(inQueue)
           front == Cat(resultsMq, Cat(result, outQueue))
           rest == Cat(others, received)
<1>1. /\ UNCHANGED <<inputMq, resultsMq, serverVars>> /\ lost' = lost + 1 /\ Withhold
      /\ RunnerTypeOK /\ resultsMq \in Seq(Images) /\ inputMq \in Seq(Images) /\ lost \in Nat
  BY DEF WithholdResult, FeedTypeOK
<1>2. /\ RunnerTypeOK' /\ analysed = <<>> /\ inQueue # <<>> /\ inQueue' = others
      /\ UNCHANGED <<received, analysed, outQueue, result>>
  BY <1>1, WithholdTakes
<1>3. FeedTypeOK'
  BY <1>1, <1>2 DEF FeedTypeOK
<1>4. /\ result \in Seq(Images) /\ outQueue \in Seq(Images) /\ inQueue \in Seq(Images)
      /\ received \in Seq(Images)
  BY <1>1, Held
<1>5. /\ one \in Seq(Images) /\ others \in Seq(Images) /\ inQueue = Cat(one, others)
      /\ Len(one) = 1
  BY <1>2, <1>4, HeadTailProperties, HeadThenTail DEF Cat
<1>6. result \o outQueue \o analysed = Cat(result, outQueue)
  BY <1>2, <1>4, ConcatEmptySeq, CatIsSeq DEF Cat
<1>7. /\ Inside = Cat(Cat(Cat(result, outQueue), inQueue), received)
      /\ Inside' = Cat(Cat(Cat(result, outQueue), others), received)
  BY <1>2, <1>6 DEF Inside, Cat
<1> HIDE DEF one, others
<1>8. front \in Seq(Images) /\ rest \in Seq(Images)
  BY <1>1, <1>4, <1>5, CatIsSeq
<1>9. ASSUME NEW i \in Seq(Images)
      PROVE  /\ Cat(Cat(Cat(result, outQueue), i), received) \in Seq(Images)
             /\ Cat(resultsMq, Cat(Cat(Cat(result, outQueue), i), received))
                  = Cat(front, Cat(i, received))
  <2>1. Cat(result, outQueue) \in Seq(Images) /\ Cat(i, received) \in Seq(Images)
    BY <1>4, CatIsSeq
  <2>2. Cat(Cat(Cat(result, outQueue), i), received)
          = Cat(Cat(result, outQueue), Cat(i, received))
    BY <1>4, <2>1, CatIsAssociative
  <2>3. Cat(resultsMq, Cat(Cat(result, outQueue), Cat(i, received)))
          = Cat(Cat(resultsMq, Cat(result, outQueue)), Cat(i, received))
    BY <1>1, <2>1, CatIsAssociative
  <2>4. Cat(Cat(result, outQueue), Cat(i, received)) \in Seq(Images)
    BY <2>1, CatIsSeq
  <2>5. QED
    BY <2>2, <2>3, <2>4
<1>10. /\ Results = Cat(front, Cat(inQueue, received)) /\ Results' = Cat(front, rest)
       /\ Inside' \in Seq(Images)
  <2>1. Results = Cat(resultsMq, Inside) /\ Results' = Cat(resultsMq, Inside')
    BY <1>1 DEF Results, Cat
  <2>2. QED
    BY <1>4, <1>5, <1>7, <1>9, <2>1
<1>11. Cat(inQueue, received) = Cat(one, rest)
  BY <1>4, <1>5, CatIsAssociative
<1> HIDE DEF front, rest
<1>12. Results = Cat(front, Cat(one, rest)) /\ Results = Cat(Cat(front, one), rest)
  BY <1>5, <1>8, <1>10, <1>11, CatIsAssociative
<1>13. /\ Len(Results) = Len(front) + 1 + Len(rest) /\ Len(Results') = Len(front) + Len(rest)
       /\ \E n \in 1 .. Len(Results) :
            Results' = SubSeq(Results, 1, n - 1) \o SubSeq(Results, n + 1, Len(Results))
  <2>1. /\ Cat(one, rest) \in Seq(Images) /\ Cat(front, one) \in Seq(Images)
        /\ Len(front) \in Nat /\ Len(rest) \in Nat
    BY <1>5, <1>8, CatIsSeq
  <2>2. Len(Cat(front, one)) = Len(front) + 1
    BY <1>5, <1>8, CatParts
  <2>3. Len(Results) = Len(front) + 1 + Len(rest)
    BY <1>8, <1>12, <2>1, <2>2, CatParts
  <2>4. SubSeq(Results, 1, Len(front)) = front
    <3>1. SubSeq(Cat(front, Cat(one, rest)), 1, Len(front)) = front
      BY <1>8, <2>1, CatParts
    <3>2. QED
      BY <1>12, <3>1
  <2>5. SubSeq(Results, Len(front) + 2, Len(Results)) = rest
    <3>1. SubSeq(Cat(Cat(front, one), rest), Len(Cat(front, one)) + 1,
                 Len(Cat(Cat(front, one), rest))) = rest
      BY <1>8, <2>1, CatParts
    <3>2. Len(Cat(front, one)) + 1 = Len(front) + 2
      BY <2>1, <2>2
    <3>3. QED
      BY <1>12, <3>1, <3>2
  <2>6. Len(Results') = Len(front) + Len(rest)
    BY <1>8, <1>10, CatParts
  <2> DEFINE n == Len(front) + 1
  <2>7. n \in 1 .. Len(Results) /\ n - 1 = Len(front) /\ n + 1 = Len(front) + 2
    BY <2>1, <2>3
  <2>8. Results' = SubSeq(Results, 1, n - 1) \o SubSeq(Results, n + 1, Len(Results))
    BY <1>10, <2>4, <2>5, <2>7 DEF Cat
  <2>9. QED
    BY <2>3, <2>6, <2>7, <2>8
<1>13a. Len(Results) = Len(front) + 1 + Len(rest) /\ Len(Results') = Len(front) + Len(rest)
  BY <1>13, Zenon
<1>14. Remote' = Remote - 1 /\ Remote > 0
  <2>1. /\ Len(Results) = Len(resultsMq) + Len(Inside) /\ Len(inputMq) \in Nat
        /\ Len(resultsMq) \in Nat /\ Len(Inside) \in Nat
    BY Counted
  <2>2. Len(Results') = Len(resultsMq) + Len(Inside') /\ Len(Inside') \in Nat
    BY <1>1, <1>10, ConcatProperties DEF Results
  <2>3. Len(front) \in Nat /\ Len(rest) \in Nat
    BY <1>8
  <2>4. Remote = Len(inputMq) + Len(Results) /\ Remote' = Len(inputMq) + Len(Results')
    BY <1>1, <2>1, <2>2 DEF Remote
  <2>5. Len(Results') = Len(Results) - 1 /\ Len(Results) > 0 /\ Len(Results) \in Nat
    BY <1>13a, <2>3
  <2>6. QED
    BY <2>1, <2>4, <2>5
<1>15. QED
  BY <1>1, <1>3, <1>13, <1>14

\* A death loses the images inside, none that was handed over.
LEMMA DeathMoves ==
  ASSUME FeedTypeOK, Dies
  PROVE  /\ FeedTypeOK' /\ lost' = lost + Len(Inside) /\ Remote' = Remote - Len(Inside)
         /\ Len(Inside) <= Remote
         /\ Len(resultsMq) <= Len(Results) /\ Results' = SubSeq(Results, 1, Len(resultsMq))
<1>1. /\ UNCHANGED <<inputMq, resultsMq>> /\ lost' = lost + Len(Inside) /\ RunnerDies
      /\ RunnerTypeOK /\ resultsMq \in Seq(Images) /\ Inside \in Seq(Images)
  BY Held DEF Dies, FeedTypeOK
<1>2. RunnerTypeOK' /\ Inside' = <<>>
  BY <1>1, DeathEmpties
<1>3. Len(Inside') = 0
  BY <1>2, EmptySeq
<1>4. Results' = resultsMq
  BY <1>1, <1>2, ConcatEmptySeq DEF Results
<1>5. SubSeq(resultsMq \o Inside, 1, Len(resultsMq)) = resultsMq
  BY <1>1
<1>6. QED
  BY <1>1, <1>2, <1>3, <1>4, <1>5, Counted DEF FeedTypeOK, Remote, Results

-----------------------------------------------------------------------------
\* Nothing but its death changes whether the process lives.
LEMMA OthersKeepAlive ==
  ASSUME ProducerThread \/ AnalyticThread \/ ConsumerThread \/ (\E t \in Threads : Internal(Wake(t)))
  PROVE  UNCHANGED alive
<1>1. CASE ProducerThread
  BY <1>1 DEF ProducerThread, Receive, ReceiveImage, Internal, PushInput, Notify
<1>2. CASE AnalyticThread
  BY <1>2 DEF AnalyticThread, Internal, PopInput, WithholdResult, Withhold, PushOutput, Notify
<1>3. CASE ConsumerThread
  BY <1>3 DEF ConsumerThread, Internal, PopOutput, Answer, SendResult, Notify
<1>4. CASE \E t \in Threads : Internal(Wake(t))
  BY <1>4 DEF Internal, Wake
<1>5. QED
  BY <1>1, <1>2, <1>3, <1>4

\* The feed implements the count of FlowControl.
LEMMA StepIsFlowStep ==
  ASSUME FeedTypeOK, [Next]_vars
  PROVE  /\ FeedTypeOK'
         /\ [Flow!Next]_(Flow!vars)
<1> DEFINE Goal == FeedTypeOK' /\ [Flow!Next]_(Flow!vars)
<1>1. ASSUME UNCHANGED <<mqVars, runnerVars>>
      PROVE  FeedTypeOK' /\ Remote' = Remote /\ lost' = lost /\ alive' = alive
  BY <1>1 DEF FeedTypeOK, mqVars, runnerVars, RunnerTypeOK, Remote, Inside,
              InputQueue!TypeOK, OutputQueue!TypeOK
<1>2. ASSUME NEW s \in Streams, ServerOnly(CanSend(s)) \/ FinishSend(s) PROVE Goal
  <2>1. CASE ServerOnly(CanSend(s))
    BY <1>1, <2>1 DEF ServerOnly, CanSend, Move, Flow!Next, Flow!MaySend, Flow!CanSend, Flow!Move
  <2>2. CASE Send(s)
    <3>1. Written(s) /\ UNCHANGED <<lost, alive>>
      BY <2>2 DEF Send, runnerVars
    <3>2. QED
      BY <2>2, <3>1, SendMoves DEF Written, Move, Flow!Next, Flow!Send, Flow!Written, Flow!Move
  <2>3. CASE ServerOnly(NotWritten(s))
    BY <1>1, <2>3
       DEF ServerOnly, NotWritten, Move, Flow!Next, Flow!SendFails, Flow!NotWritten, Flow!Move
  <2>4. CASE ServerOnly(Sent(s))
    BY <1>1, <2>4 DEF ServerOnly, Sent, Move, Flow!Next, Flow!CountSent, Flow!Sent, Flow!Move
  <2>5. QED
    BY <1>2, <2>1, <2>2, <2>3, <2>4 DEF FinishSend
<1>3. ASSUME RouterStep PROVE Goal
  <2>1. CASE ReceiveResult
    <3>1. ResultReceived /\ UNCHANGED <<lost, alive>>
      BY <2>1 DEF ReceiveResult, runnerVars
    <3>2. QED
      BY <2>1, <3>1, ReceiveResultMoves
         DEF ResultReceived, Flow!Next, Flow!ReceiveResult, Flow!ResultReceived
  <2>2. CASE ServerOnly(Received)
    BY <1>1, <2>2 DEF ServerOnly, Received, Flow!Next, Flow!Credit, Flow!Received
  <2>3. QED
    BY <1>3, <2>1, <2>2 DEF RouterStep
<1>4. ASSUME UNCHANGED <<serverVars, lost, alive>>, FeedTypeOK', Remote' = Remote PROVE Goal
  BY <1>4 DEF serverVars, Flow!vars
<1>5. ASSUME UNCHANGED <<serverVars, mqVars, alive>>, RunnerTypeOK', Inside' = Inside PROVE Goal
  BY <1>4, <1>5 DEF mqVars, FeedTypeOK, Remote
<1>6. CASE ProducerThread
  <2>1. ASSUME NEW i \in DOMAIN inputMq, Receive(i) PROVE Goal
    BY <1>4, <1>6, <2>1, ReceiveFeeds, OthersKeepAlive DEF Receive
  <2>2. QED
    BY <1>5, <1>6, <2>1, PushInputMoves, ConditionsMove, OthersKeepAlive DEF ProducerThread, Internal, FeedTypeOK
<1>7. CASE AnalyticThread
  <2>1. CASE WithholdResult
    <3>1. /\ FeedTypeOK' /\ lost' = lost + 1 /\ Remote' = Remote - 1 /\ Remote > 0
          /\ UNCHANGED serverVars
      BY <2>1, WithholdMoves
    <3>2. alive /\ UNCHANGED alive
      BY <2>1 DEF WithholdResult, Withhold
    <3>3. Flow!LoseImage
      BY <3>1, <3>2 DEF Flow!LoseImage, Flow!Lose, Flow!serverVars, serverVars
    <3>4. QED
      BY <3>1, <3>3 DEF Flow!Next
  <2>2. QED
    BY <1>5, <1>7, <2>1, PopInputMoves, PushOutputMoves, ConditionsMove, OthersKeepAlive
       DEF AnalyticThread, Internal, FeedTypeOK
<1>8. CASE ConsumerThread
  <2>1. CASE Answer
    BY <1>4, <1>8, <2>1, AnswerMoves, OthersKeepAlive DEF Answer
  <2>2. QED
    BY <1>5, <1>8, <2>1, PopOutputMoves, ConditionsMove, OthersKeepAlive DEF ConsumerThread, Internal, FeedTypeOK
<1>9. ASSUME NEW t \in Threads, Internal(Wake(t)) PROVE Goal
  BY <1>5, <1>9, ConditionsMove, OthersKeepAlive DEF Internal, FeedTypeOK
<1>10. CASE Dies
  <2>1. FeedTypeOK' /\ UNCHANGED serverVars /\ alive /\ alive' = FALSE
    BY <1>10, DeathMoves DEF Dies, RunnerDies
  <2>2. Len(Inside) \in 0 .. Remote
    BY <1>10, DeathMoves, Counted
  <2>3. Flow!Lose(Len(Inside))
    BY <1>10, <2>1, DeathMoves DEF Flow!Lose, Flow!serverVars, serverVars
  <2>4. Flow!LoseProcess
    BY <2>1, <2>2, <2>3 DEF Flow!LoseProcess
  <2>5. QED
    BY <2>1, <2>4 DEF Flow!Next
<1>11. CASE UNCHANGED vars
  BY <1>1, <1>11 DEF vars, serverVars, runnerVars, Flow!vars
<1>12. QED
  BY <1>2, <1>3, <1>6, <1>7, <1>8, <1>9, <1>10, <1>11 DEF Next

\* The proofs about FlowControl reach the feed through an instance of their
\* own, with its own copy of every definition: both say the same.
LEMMA SameCounting ==
  /\ \A S : IsFiniteSet(S) <=> FlowProofs!IsFiniteSet(S)
  /\ \A S : Cardinality(S) = FlowProofs!Cardinality(S)
  /\ \A S : Cardinality(S) = Flow!Cardinality(S)
<1>1. \A S : IsFiniteSet(S) <=> FlowProofs!IsFiniteSet(S)
  BY DEF IsFiniteSet, FlowProofs!IsFiniteSet
<1>2. \A S : Cardinality(S) = FlowProofs!Cardinality(S)
  BY DEF Cardinality, FlowProofs!Cardinality
<1>3. \A S : Cardinality(S) = Flow!Cardinality(S)
  BY DEF Cardinality, Flow!Cardinality
<1>4. QED
  BY <1>1, <1>2, <1>3

\* The invariant, the initial states and the steps of the two instances.
LEMMA SameFlow ==
  /\ Flow!IInv <=> FlowProofs!IInv
  /\ Flow!Init <=> FlowProofs!Init
  /\ [Flow!Next]_(Flow!vars) <=> [FlowProofs!Next]_(FlowProofs!vars)
<1>1. Flow!IInv <=> FlowProofs!IInv
  BY DEF Flow!IInv, FlowProofs!IInv, Flow!TypeOK, FlowProofs!TypeOK,
         Flow!ServerTypeOK, FlowProofs!ServerTypeOK,
         Flow!CounterExact, FlowProofs!CounterExact, Flow!Count, FlowProofs!Count,
         Flow!Outstanding, FlowProofs!Outstanding, Flow!Capacity, FlowProofs!Capacity,
         Flow!In, FlowProofs!In, Flow!Cardinality, FlowProofs!Cardinality
<1>2. Flow!Init <=> FlowProofs!Init
  BY DEF Flow!Init, FlowProofs!Init, Flow!ServerInit, FlowProofs!ServerInit
<1>3. [Flow!Next]_(Flow!vars) <=> [FlowProofs!Next]_(FlowProofs!vars)
  BY DEF Flow!vars, FlowProofs!vars, Flow!Next, FlowProofs!Next,
         Flow!MaySend, FlowProofs!MaySend, Flow!CanSend, FlowProofs!CanSend,
         Flow!Send, FlowProofs!Send, Flow!Written, FlowProofs!Written,
         Flow!SendFails, FlowProofs!SendFails, Flow!NotWritten, FlowProofs!NotWritten,
         Flow!CountSent, FlowProofs!CountSent, Flow!Sent, FlowProofs!Sent,
         Flow!Move, FlowProofs!Move,
         Flow!ReceiveResult, FlowProofs!ReceiveResult,
         Flow!ResultReceived, FlowProofs!ResultReceived,
         Flow!Credit, FlowProofs!Credit, Flow!Received, FlowProofs!Received,
         Flow!LoseImage, FlowProofs!LoseImage, Flow!LoseProcess, FlowProofs!LoseProcess,
         Flow!Lose, FlowProofs!Lose, Flow!serverVars, FlowProofs!serverVars
<1>4. QED
  BY <1>1, <1>2, <1>3

\* The invariant of the flow control, of the count that the feed implements.
LEMMA FlowInductive ==
  /\ Flow!Init => Flow!IInv
  /\ Flow!IInv /\ [Flow!Next]_(Flow!vars) => Flow!IInv'
<1>1. FlowProofs!Init => FlowProofs!IInv
  BY FlowProofs!InitInductive, SameCounting, StreamsAssumption, SizeAssumption
<1>2. FlowProofs!IInv /\ [FlowProofs!Next]_(FlowProofs!vars) => FlowProofs!IInv'
  BY FlowProofs!NextInductive, SameCounting, StreamsAssumption, SizeAssumption
<1>3. Flow!IInv <=> FlowProofs!IInv
  BY SameFlow
<1>4. Flow!IInv' <=> FlowProofs!IInv'
  BY SameFlow, PTL
<1>5. QED
  BY <1>1, <1>2, <1>3, <1>4, SameFlow

\* Every conjunct that the theorems need: the images have their types, both
\* queues keep their invariant and the flow control its own.
FeedInv == FeedTypeOK /\ QueuesInv /\ Flow!IInv

\* At the start nothing is on its way and no thread sleeps.
LEMMA FeedInit == Init => FeedInv /\ Flow!Init /\ Pipeline!Init
<1> SUFFICES ASSUME Init PROVE FeedInv /\ Flow!Init /\ Pipeline!Init
  OBVIOUS
<1>1. QueuesInv
  BY QueuesInit
<1>2. /\ inputMq = <<>> /\ resultsMq = <<>> /\ lost = 0 /\ alive = TRUE
      /\ received = <<>> /\ analysed = <<>> /\ result = <<>>
      /\ inQueue = <<>> /\ outQueue = <<>>
  BY DEF Init, RunnerInit, InputQueue!Init, OutputQueue!Init
<1>3. <<>> \in Seq(Images) /\ Len(<<>>) = 0 /\ <<>> \o <<>> = <<>>
  BY EmptySeq, ConcatEmptySeq
<1>4. FeedTypeOK
  BY <1>1, <1>2, <1>3
     DEF FeedTypeOK, RunnerTypeOK, QueuesInv, InputQueue!QueueInv, OutputQueue!QueueInv
<1>5. Inside = <<>>
  BY <1>2, <1>3 DEF Inside
<1>6. Flow!Init
  <2>1. Remote = 0
    BY <1>2, <1>3, <1>5 DEF Remote
  <2>2. QED
    BY <1>2, <2>1 DEF Init, ServerInit, Flow!Init, Flow!ServerInit
<1>7. Flow!IInv
  BY <1>6, FlowInductive
<1>8. Pipeline!Init
  BY <1>2, <1>3, <1>5 DEF Pipeline!Init
<1>9. QED
  BY <1>1, <1>4, <1>6, <1>7, <1>8 DEF FeedInv

\* Every step of the feed keeps the invariant.
LEMMA FeedInductive == FeedInv /\ [Next]_vars => FeedInv'
<1> SUFFICES ASSUME FeedInv, [Next]_vars PROVE FeedInv'
  OBVIOUS
<1>1. FeedTypeOK' /\ [Flow!Next]_(Flow!vars)
  BY StepIsFlowStep DEF FeedInv
<1>2. QED
  BY <1>1, FlowInductive, QueuesInductive DEF FeedInv

\* The feed keeps its invariant, for every number of streams, queue size and
\* word size.
THEOREM FeedInvariant == Spec => []FeedInv
BY FeedInit, FeedInductive, PTL DEF Spec

\* Every variable of the server, the process and the message queues keeps its type.
THEOREM FeedTypeCorrect == Spec => []TypeOK
<1>1. FeedInv => TypeOK
  BY ImagesAssumption
     DEF FeedInv, FeedTypeOK, TypeOK, ServerTypeOK, Flow!IInv, Flow!TypeOK, Flow!ServerTypeOK
<1>2. QED
  BY <1>1, FeedInvariant, PTL

\* What is out fits the capacity, the router's image included.
LEMMA OutstandingFits ==
  ASSUME FeedInv
  PROVE  /\ Flow!Outstanding <= Flow!Capacity /\ Remote <= Flow!Outstanding
         /\ Flow!Outstanding \in Nat /\ Flow!Capacity \in Int
         /\ Flow!Capacity = MaxSize + Cardinality(Streams) - 1
<1>1. Flow!Outstanding >= Remote /\ Flow!Outstanding \in Nat /\ lost \in Nat
  <2>1. Remote \in Nat /\ lost \in Nat
    BY Counted DEF FeedInv, FeedTypeOK
  <2>2. Flow!Outstanding = Remote + (IF router = "crediting" THEN 1 ELSE 0)
    BY DEF Flow!Outstanding
  <2>3. QED
    BY <2>1, <2>2
<1>2. Flow!Cardinality(Flow!In("sending")) \in Nat
  <2>1. IsFiniteSet(Flow!In("sending"))
    BY FS_Subset, StreamsAssumption DEF Flow!In
  <2>2. QED
    BY <2>1, FS_CardinalityType, SameCounting
<1>3. Flow!Outstanding + lost + Flow!Cardinality(Flow!In("sending")) <= Flow!Capacity
  BY DEF FeedInv, Flow!IInv
<1>4. Flow!Capacity \in Int /\ Flow!Capacity = MaxSize + Cardinality(Streams) - 1
  BY FS_CardinalityType, StreamsAssumption, SizeAssumption, SameCounting DEF Flow!Capacity
<1>5. QED
  BY <1>1, <1>2, <1>3, <1>4

\* The real queues and threads are one way to be the count of FlowControl: each
\* step is a step there, the process's death a loss of what it held.
THEOREM FeedImplementsFlow == Spec => ImplementsFlowControl
<1>1. FeedInv /\ [Next]_vars => [Flow!Next]_(Flow!vars)
  BY StepIsFlowStep DEF FeedInv
<1>2. QED
  BY <1>1, FeedInit, FeedInvariant, PTL DEF Spec, ImplementsFlowControl, Flow!Spec

\* So in the real feed, too, the counter is sent() minus received() and no more
\* than Capacity images are out.
THEOREM FeedIsCounted == Spec => [](Flow!CounterExact /\ Flow!OutstandingBounded)
<1>1. FeedInv => Flow!CounterExact /\ Flow!OutstandingBounded
  <2> SUFFICES ASSUME FeedInv PROVE Flow!CounterExact /\ Flow!OutstandingBounded
    OBVIOUS
  <2>1. Flow!CounterExact
    BY DEF FeedInv, Flow!IInv
  <2>2. Flow!Outstanding <= Flow!Capacity
    BY OutstandingFits
  <2>3. QED
    BY <2>1, <2>2 DEF Flow!OutstandingBounded
<1>2. QED
  BY <1>1, FeedInvariant, PTL

\* Whatever is between the process's input and the server fits the pipeline.
LEMMA PipelineHasRoom ==
  ASSUME FeedInv, Len(inputMq) > 0
  PROVE  Len(Results) < MaxSize + Cardinality(Streams) - 1
<1>1. Remote \in Nat /\ Remote >= Len(Results) + 1 /\ Len(Results) \in Nat
  BY Counted DEF FeedInv, Remote
<1>2. QED
  BY <1>1, OutstandingFits

\* Every step of the feed is a step of the pipeline of results.
LEMMA StepIsPipelineStep ==
  ASSUME FeedInv, [Next]_vars
  PROVE  [Pipeline!Next]_Results
<1> DEFINE Goal == [Pipeline!Next]_Results
<1>1. FeedTypeOK /\ RunnerTypeOK
  BY DEF FeedInv, FeedTypeOK
<1>2. ASSUME UNCHANGED resultsMq, Inside' = Inside PROVE Goal
  BY <1>2 DEF Results
<1>3. ASSUME UNCHANGED <<mqVars, runnerVars>> PROVE Goal
  BY <1>2, <1>3 DEF mqVars, runnerVars, Inside
<1>4. ASSUME NEW s \in Streams, ServerOnly(CanSend(s)) \/ FinishSend(s) PROVE Goal
  BY <1>1, <1>3, <1>4, SendMoves DEF ServerOnly, FinishSend
<1>5. CASE RouterStep
  <2>1. CASE ReceiveResult
    <3>1. Results # <<>> /\ Results' = Tail(Results)
      BY <1>1, <2>1, ReceiveResultMoves
    <3>2. QED
      BY <3>1 DEF Pipeline!Next, Pipeline!Take, Results
  <2>2. QED
    BY <1>3, <1>5, <2>1 DEF RouterStep, ServerOnly
<1>6. CASE ProducerThread
  <2>1. ASSUME NEW i \in DOMAIN inputMq, Receive(i) PROVE Goal
    <3>1. /\ Len(inputMq) > 0 /\ inputMq[i] \in Streams
          /\ Results' = Append(Results, inputMq[i])
      BY <1>1, <2>1, ReceiveFeeds, ImagesAssumption
    <3>2. Len(Results) < MaxSize + Cardinality(Streams) - 1
      BY <3>1, PipelineHasRoom
    <3>3. QED
      BY <3>1, <3>2 DEF Pipeline!Next, Pipeline!Put, Results
  <2>2. QED
    BY <1>1, <1>2, <1>6, <2>1, PushInputMoves, ConditionsMove
       DEF ProducerThread, Internal, mqVars
<1>7. CASE AnalyticThread
  <2>1. CASE WithholdResult
    <3>1. \E n \in 1 .. Len(Results) :
            Results' = SubSeq(Results, 1, n - 1) \o SubSeq(Results, n + 1, Len(Results))
      BY <1>1, <2>1, WithholdMoves
    <3>2. QED
      BY <3>1 DEF Pipeline!Next, Pipeline!Withhold, Results
  <2>2. QED
    BY <1>1, <1>2, <1>7, <2>1, PopInputMoves, PushOutputMoves, ConditionsMove
       DEF AnalyticThread, Internal, mqVars
<1>8. CASE ConsumerThread
  BY <1>1, <1>2, <1>8, PopOutputMoves, ConditionsMove, AnswerMoves
     DEF ConsumerThread, Internal, mqVars
<1>9. ASSUME NEW t \in Threads, Internal(Wake(t)) PROVE Goal
  BY <1>1, <1>2, <1>9, ConditionsMove DEF Internal, mqVars
<1>10. CASE Dies
  <2>1. /\ Len(resultsMq) \in Nat /\ Len(resultsMq) <= Len(Results) /\ Len(Results) \in Nat
        /\ Results' = SubSeq(Results, 1, Len(resultsMq))
    BY <1>1, <1>10, DeathMoves, Counted
  <2>2. Len(resultsMq) \in 0 .. Len(Results)
    BY <2>1
  <2>3. QED
    BY <2>1, <2>2 DEF Pipeline!Next, Pipeline!Forget, Results
<1>11. CASE UNCHANGED vars
  BY <1>3, <1>11 DEF vars
<1>12. QED
  BY <1>4, <1>5, <1>6, <1>7, <1>8, <1>9, <1>10, <1>11 DEF Next

\* The three threads and two queues of the process, its death included, are one
\* first-in first-out pipeline of at most Capacity images: no result is lost
\* but by a death or the analytic's choice, none comes twice and none overtakes
\* another.
THEOREM ResultsComeInOrder == Spec => OneResultPerImageInOrder
<1>1. FeedInv /\ [Next]_vars => [Pipeline!Next]_(resultsMq \o Inside)
  BY StepIsPipelineStep DEF Results
<1>2. QED
  BY <1>1, FeedInit, FeedInvariant, PTL DEF Spec, OneResultPerImageInOrder, Pipeline!Spec

\* No thread of the analytic process misses its wake-up, in any feed.
THEOREM NoWakeupIsLost == Spec => []NoLostWakeup
<1>1. FeedInv => NoLostWakeup
  BY DEF FeedInv, QueuesInv, InputQueue!QueueInv, OutputQueue!QueueInv, NoLostWakeup
<1>2. QED
  BY <1>1, FeedInvariant, PTL

\* The two threads of a queue never sleep at once, so neither queue can be the
\* whole of a deadlock.
NeverBothAsleep ==
  /\ ~({"producer", "analytic"} \subseteq inWaiting)
  /\ ~({"analytic", "consumer"} \subseteq outWaiting)

\* Full and empty exclude each other: someone on either side of a queue is awake.
THEOREM SomeoneIsAwake == Spec => []NeverBothAsleep
<1>1. FeedInv => NeverBothAsleep
  BY QueueAssumption
     DEF FeedInv, QueuesInv, NeverBothAsleep,
         InputQueue!QueueInv, InputQueue!TypeOK, InputQueue!OnePlace,
         InputQueue!NoLostWakeup,
         OutputQueue!QueueInv, OutputQueue!TypeOK, OutputQueue!OnePlace,
         OutputQueue!NoLostWakeup
<1>2. QED
  BY <1>1, FeedInvariant, PTL
=============================================================================
