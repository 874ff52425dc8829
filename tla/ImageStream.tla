---------------------------- MODULE ImageStream -----------------------------
(***************************************************************************)
(* One camera stream of the OpenCCTV Server: the producer thread (the VMS  *)
(* connector) pushes images into the stream's ConcurrentQueue, which       *)
(* evicts its front when it is full; the consumer thread                   *)
(* (ImageMulticaster) looks at the front WITHOUT taking it out, sends it   *)
(* to every destination, and then removes "the front".  The event thread   *)
(* pauses the consumer (stopThread), changes the destinations and resumes  *)
(* it with a new multicaster (startThread).                                *)
(*                                                                         *)
(* Images are numbered in the order they are produced.  An image that is   *)
(* not in the queue is deleted: reading it is undefined, and yields its    *)
(* old bytes, other bytes (Garbage) or the end of the server process.      *)
(* Which destinations are refused by flow control, or fail, is left open.  *)
(***************************************************************************)
EXTENDS Integers, Sequences, FiniteSets, SequencesExt

CONSTANTS
  Analytics,   \* the analytic instances that may take this stream
  Size,        \* the size of the internal queue
  MaxImages    \* bound: how many images the camera gives

ASSUME StreamAssumption ==
  /\ Size \in Nat \ {0}
  /\ MaxImages \in Nat

Garbage == 0

VARIABLES
  produced,       \* images pushed so far
  queue,          \* _queue, oldest first
  producer,       \* "producing", or "notifying" after push unlocked
  consumer,       \* where the consumer thread is
  current,        \* pImage, the image looked at last
  pending,        \* the destinations of _mAISInfo the loop has still to try
  destinations,   \* the stream's MulticastDestination
  interrupt,      \* an interruption of the consumer is requested
  control,        \* what the event thread is doing with this consumer
  alive,          \* the server process
  delivered,      \* what was sent to each analytic
  evicted,        \* images push deleted
  missed          \* images deleted that no consumer has looked at

queueVars == <<produced, queue, producer, evicted, missed>>
controlVars == <<destinations, control>>
vars == <<produced, queue, producer, consumer, current, pending, destinations,
          interrupt, control, alive, delivered, evicted, missed>>

Images == 1 .. MaxImages

TypeOK ==
  /\ produced \in 0 .. MaxImages
  /\ queue \in Seq(Images) /\ Len(queue) <= Size
  /\ producer \in {"producing", "notifying"}
  /\ consumer \in {"checking", "asleep", "multicasting", "removed", "stopped"}
  /\ current \in 0 .. MaxImages
  /\ pending \subseteq Analytics
  /\ destinations \subseteq Analytics
  /\ interrupt \in BOOLEAN
  /\ control \in {"idle", "joining", "paused"}
  /\ alive \in BOOLEAN
  /\ delivered \in [Analytics -> Seq(Images \cup {Garbage})]
  /\ evicted \in Nat /\ missed \in Nat

Init ==
  /\ produced = 0 /\ queue = <<>> /\ producer = "producing"
  /\ consumer = "checking" /\ current = 0 /\ pending = {}
  /\ destinations \in (SUBSET Analytics) \ {{}}
  /\ interrupt = FALSE /\ control = "idle" /\ alive = TRUE
  /\ delivered = [a \in Analytics |-> <<>>]
  /\ evicted = 0 /\ missed = 0

\* The queue deletes its front.
DeleteFront ==
  missed' = missed + (IF Head(queue) = current THEN 0 ELSE 1)

(***************************************************************************)
(* The producer thread.                                                    *)
(***************************************************************************)

PushWithRoom ==
  /\ Len(queue) < Size
  /\ queue' = Append(queue, produced + 1)
  /\ UNCHANGED <<evicted, missed>>

PushEvicts ==
  /\ Len(queue) >= Size
  /\ queue' = Append(Tail(queue), produced + 1)
  /\ evicted' = evicted + 1
  /\ DeleteFront

Push ==
  /\ alive
  /\ producer = "producing"
  /\ produced < MaxImages
  /\ produced' = produced + 1
  /\ producer' = "notifying"
  /\ PushWithRoom \/ PushEvicts
  /\ UNCHANGED <<consumer, current, pending, controlVars, interrupt, alive, delivered>>

\* Mutant: no notify_one.
NotifyNobody ==
  /\ alive
  /\ producer = "notifying"
  /\ producer' = "producing"
  /\ UNCHANGED <<produced, queue, consumer, evicted, missed, current, pending,
                 controlVars, interrupt, alive, delivered>>

\* notify_one: the consumer is the only one that waits.  When it is woken with an
\* interruption requested the wait throws: it does not look at the queue again.
Notify ==
  /\ alive
  /\ producer = "notifying"
  /\ producer' = "producing"
  /\ consumer' = IF consumer = "asleep" /\ ~ interrupt THEN "checking" ELSE consumer
  /\ UNCHANGED <<produced, queue, evicted, missed, current, pending, controlVars,
                 interrupt, alive, delivered>>

(***************************************************************************)
(* The consumer thread.                                                    *)
(***************************************************************************)

\* waitAndGetFrontElement, and the copy of the destinations.
Peek ==
  /\ alive
  /\ consumer = "checking"
  /\ queue # <<>>
  /\ current' = Head(queue)
  /\ pending' = destinations
  /\ consumer' = "multicasting"
  /\ UNCHANGED <<queueVars, controlVars, interrupt, alive, delivered>>

\* The wait in waitAndGetFrontElement, an interruption point.
Sleep ==
  /\ alive
  /\ consumer = "checking"
  /\ queue = <<>>
  /\ consumer' = "asleep"
  /\ UNCHANGED <<queueVars, current, pending, controlVars, interrupt, alive, delivered>>

SpuriousWake ==
  /\ alive
  /\ consumer = "asleep"
  /\ ~ interrupt
  /\ consumer' = "checking"
  /\ UNCHANGED <<queueVars, current, pending, controlVars, interrupt, alive, delivered>>

\* Destination a has no flow controller, is refused by it, or the send fails.
Skip(a) ==
  /\ alive
  /\ consumer = "multicasting"
  /\ a \in pending
  /\ pending' = pending \ {a}
  /\ UNCHANGED <<queueVars, consumer, current, controlVars, interrupt, alive, delivered>>

Deliver(a, content) == delivered' = [delivered EXCEPT ![a] = Append(@, content)]

SendImage(a) ==
  /\ alive
  /\ consumer = "multicasting"
  /\ a \in pending
  /\ pending' = pending \ {a}
  /\ \/ /\ Deliver(a, current)                \* the image, or what is left of it
        /\ UNCHANGED alive
     \/ /\ ~ Contains(queue, current)         \* deleted: its memory was reused ...
        /\ Deliver(a, Garbage)
        /\ UNCHANGED alive
     \/ /\ ~ Contains(queue, current)         \* ... or is not mapped any more
        /\ alive' = FALSE
        /\ UNCHANGED delivered
  /\ UNCHANGED <<queueVars, consumer, current, controlVars, interrupt>>

\* Mutant: it removes two elements.
RemoveFrontTwice ==
  /\ alive
  /\ consumer = "multicasting"
  /\ pending = {}
  /\ consumer' = "removed"
  /\ queue' = SubSeq(queue, 3, Len(queue))
  /\ missed' = missed + Cardinality({i \in DOMAIN queue : i <= 2 /\ queue[i] # current})
  /\ UNCHANGED <<produced, producer, evicted, current, pending, controlVars,
                 interrupt, alive, delivered>>

\* tryRemoveFrontElement: whatever is the front by now.
RemoveFront ==
  /\ alive
  /\ consumer = "multicasting"
  /\ pending = {}
  /\ consumer' = "removed"
  /\ \/ queue = <<>> /\ UNCHANGED <<queue, missed>>
     \/ queue # <<>> /\ queue' = Tail(queue) /\ DeleteFront
  /\ UNCHANGED <<produced, producer, evicted, current, pending, controlVars,
                 interrupt, alive, delivered>>

\* boost::this_thread::interruption_point()
GoOn ==
  /\ alive
  /\ consumer = "removed"
  /\ ~ interrupt
  /\ consumer' = "checking"
  /\ UNCHANGED <<queueVars, current, pending, controlVars, interrupt, alive, delivered>>

\* Mutant: the interruption point stands before tryRemoveFrontElement.
InterruptedBeforeRemove ==
  /\ alive
  /\ interrupt
  /\ consumer = "asleep" \/ (consumer = "multicasting" /\ pending = {})
  /\ interrupt' = FALSE
  /\ consumer' = "stopped"
  /\ UNCHANGED <<queueVars, current, pending, controlVars, alive, delivered>>

\* Mutant: the wait for an image is no interruption point.
InterruptedAwake ==
  /\ alive
  /\ interrupt
  /\ consumer = "removed"
  /\ interrupt' = FALSE
  /\ consumer' = "stopped"
  /\ UNCHANGED <<queueVars, current, pending, controlVars, alive, delivered>>

Interrupted ==
  /\ alive
  /\ interrupt
  /\ consumer \in {"asleep", "removed"}
  /\ interrupt' = FALSE
  /\ consumer' = "stopped"
  /\ UNCHANGED <<queueVars, current, pending, controlVars, alive, delivered>>

(***************************************************************************)
(* The event thread: stopThread, a change of destinations, startThread.    *)
(***************************************************************************)

Pause ==
  /\ alive
  /\ control = "idle"
  /\ control' = "joining"
  /\ UNCHANGED <<queueVars, consumer, current, pending, destinations, interrupt,
                 alive, delivered>>

\* try_join_for gave up after 100 ms: interrupt and try again.
Interrupt ==
  /\ alive
  /\ control = "joining"
  /\ consumer # "stopped"
  /\ ~ interrupt
  /\ interrupt' = TRUE
  /\ UNCHANGED <<queueVars, consumer, current, pending, controlVars, alive, delivered>>

\* Mutant: stopThread returns when it has interrupted the thread.
JoinedTooEarly ==
  /\ alive
  /\ control = "joining"
  /\ interrupt \/ consumer = "stopped"
  /\ control' = "paused"
  /\ UNCHANGED <<queueVars, consumer, current, pending, destinations, interrupt,
                 alive, delivered>>

Joined ==
  /\ alive
  /\ control = "joining"
  /\ consumer = "stopped"
  /\ control' = "paused"
  /\ UNCHANGED <<queueVars, consumer, current, pending, destinations, interrupt,
                 alive, delivered>>

\* removeDestination deletes the sender; the last destination is not removed
\* here, for then the producer and the queue go too.
AddOrRemove(a) == destinations' \in {destinations \cup {a}, destinations \ {a}} \ {{}}

Resume ==
  /\ alive
  /\ control = "paused"
  /\ \E a \in Analytics : AddOrRemove(a)
  /\ control' = "idle"
  /\ consumer' = "checking"
  /\ UNCHANGED <<queueVars, current, pending, interrupt, alive, delivered>>

-----------------------------------------------------------------------------
Producer == Push \/ Notify
SendTo(a) == Skip(a) \/ SendImage(a)
Consumer == Peek \/ Sleep \/ (\E a \in Analytics : SendTo(a)) \/ RemoveFront \/ GoOn \/ Interrupted
Control == Interrupt \/ Joined \/ Resume

Next == Producer \/ Consumer \/ SpuriousWake \/ Pause \/ Control

Spec == Init /\ [][Next]_vars

(***************************************************************************)
(* Fairness: a producer that has pushed notifies, the consumer thread runs *)
(* while it can, and the event thread ends the pause it has begun.  The    *)
(* camera may stop producing and nobody need ever pause.                   *)
(***************************************************************************)
LiveSpec == Spec /\ WF_vars(Notify) /\ WF_vars(Consumer) /\ WF_vars(Control)

-----------------------------------------------------------------------------
\* The image being multicast was evicted: the pointer dangles.
Dangling == consumer = "multicasting" /\ ~ Contains(queue, current)

(***************************************************************************)
(* No analytic gets an image twice, or an older one after a newer one,     *)
(* although the consumer that removes an image has not taken it out first, *)
(* and although pauses replace the consumer at any moment.  (Garbage from  *)
(* a deleted image has no order.)                                          *)
(***************************************************************************)
InOrderOnce ==
  \A a \in Analytics : \A i, j \in DOMAIN delivered[a] :
    i < j /\ delivered[a][j] # Garbage => delivered[a][i] < delivered[a][j]

(***************************************************************************)
(* Each eviction costs exactly one unseen image: the evicted one, or, when *)
(* that is the one being multicast, the image behind it, which             *)
(* tryRemoveFrontElement then deletes in its place without its ever being  *)
(* sent.                                                                   *)
(***************************************************************************)
OneMissedPerEviction == missed + (IF Dangling THEN 1 ELSE 0) = evicted

(***************************************************************************)
(* The consumer never sends on a sender that removeDestination deleted:    *)
(* destinations change only between the join and the restart.              *)
(***************************************************************************)
SendersValid == pending \subseteq destinations

(***************************************************************************)
(* Pauses, evictions and two threads at one queue are not seen from        *)
(* outside: what the analytics are sent is what MulticastStream gives.  So *)
(* none is served an image that was Size images old when its turn began,   *)
(* or one that came to the front while it was no destination, and what it  *)
(* gets of an evicted image alone may be spoilt.                           *)
(***************************************************************************)
Multicast == INSTANCE MulticastStream
  WITH Window <- Size, Spoilt <- Garbage, published <- produced, offered <- current,
       waiting <- pending, subscribers <- destinations, received <- delivered

ImplementsMulticast == Multicast!Spec

(***************************************************************************)
(* Every image leaves the queue, even if the event thread pauses the       *)
(* consumer again and again: each new consumer that finds an image there   *)
(* handles it before it comes to an interruption point.                    *)
(***************************************************************************)
QueueDrains ==
  \A n \in Images : Contains(queue, n) ~> ~ Contains(queue, n) \/ ~ alive

(***************************************************************************)
(* stopThread comes back: an interruption reaches the consumer wherever it *)
(* is.                                                                     *)
(***************************************************************************)
PauseEnds == control = "joining" ~> control = "paused" \/ ~ alive

(***************************************************************************)
(* What a thread-safe queue would give: the image a consumer looks at      *)
(* stays until it has removed it.                                          *)
(***************************************************************************)
FrontStaysWhileInUse == ~ Dangling
=============================================================================
