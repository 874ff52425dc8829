----------------------------- MODULE ImageQueue -----------------------------
(***************************************************************************)
(* analytic::ImageQueue, the bounded queue between two threads of an       *)
(* analytic process: push blocks while it is full, pop while it is empty,  *)
(* and both wait on the SAME condition variable.  The mutex is held from   *)
(* the test of the while loop to the change (or to the wait, which gives   *)
(* it up), and released before notify_one: a thread in notifying has       *)
(* changed the queue and has still to notify.                              *)
(***************************************************************************)
EXTENDS Integers, Sequences

CONSTANTS
  Images,
  Size,
  Pusher, Popper   \* the thread on either side

VARIABLES
  queue,       \* _queue
  waiting,     \* the threads blocked on _conditionVar
  notifying    \* the threads between unlock() and notify_one()

queueVars == <<queue, waiting, notifying>>

Threads == {Pusher, Popper}

TypeOK ==
  /\ queue \in Seq(Images)
  /\ Len(queue) <= Size
  /\ waiting \subseteq Threads
  /\ notifying \subseteq Threads

Init ==
  /\ queue = <<>>
  /\ waiting = {}
  /\ notifying = {}

Outside(t) == t \notin waiting /\ t \notin notifying

\* Mutant: no notify_one.
PushSilent(image) ==
  /\ Outside(Pusher)
  /\ Len(queue) < Size
  /\ queue' = Append(queue, image)
  /\ UNCHANGED <<waiting, notifying>>

Push(image) ==
  /\ Outside(Pusher)
  /\ Len(queue) < Size
  /\ queue' = Append(queue, image)
  /\ notifying' = notifying \cup {Pusher}
  /\ UNCHANGED waiting

PushBlocks ==
  /\ Outside(Pusher)
  /\ Len(queue) >= Size
  /\ waiting' = waiting \cup {Pusher}
  /\ UNCHANGED <<queue, notifying>>

\* Mutant: no notify_one.
PopSilent ==
  /\ Outside(Popper)
  /\ queue # <<>>
  /\ queue' = Tail(queue)
  /\ UNCHANGED <<waiting, notifying>>

\* Mutant: the image stays in the queue.
PopKeeps ==
  /\ Outside(Popper)
  /\ queue # <<>>
  /\ notifying' = notifying \cup {Popper}
  /\ UNCHANGED <<queue, waiting>>

\* The popped image is Head(queue).
Pop ==
  /\ Outside(Popper)
  /\ queue # <<>>
  /\ queue' = Tail(queue)
  /\ notifying' = notifying \cup {Popper}
  /\ UNCHANGED waiting

PopBlocks ==
  /\ Outside(Popper)
  /\ queue = <<>>
  /\ waiting' = waiting \cup {Popper}
  /\ UNCHANGED <<queue, notifying>>

\* notify_one wakes one waiter, whichever side it is of, or nobody.
NotifyOne(t) ==
  /\ t \in notifying
  /\ notifying' = notifying \ {t}
  /\ \/ waiting = {} /\ waiting' = {}
     \/ \E w \in waiting : waiting' = waiting \ {w}
  /\ UNCHANGED queue

\* boost::condition_variable::wait may return without a notification.
SpuriousWake(t) ==
  /\ t \in waiting
  /\ waiting' = waiting \ {t}
  /\ UNCHANGED <<queue, notifying>>

Next ==
  \/ \E image \in Images : Push(image)
  \/ PushBlocks
  \/ Pop
  \/ PopBlocks
  \/ \E t \in Threads : NotifyOne(t) \/ SpuriousWake(t)

Spec == Init /\ [][Next]_queueVars

(***************************************************************************)
(* No wake-up is lost: a thread sleeps only while what it waits for is not *)
(* there, or the other side is about to notify it.  With one thread on     *)
(* each side the shared condition variable is enough; a second popper      *)
(* could take the notification meant for the pusher.                       *)
(***************************************************************************)
NoLostWakeup ==
  /\ Pusher \in waiting => Len(queue) >= Size \/ Popper \in notifying
  /\ Popper \in waiting => queue = <<>> \/ Pusher \in notifying

\* A thread is never asleep and about to notify at once.
OnePlace == waiting \cap notifying = {}

QueueInv == TypeOK /\ OnePlace /\ NoLostWakeup

=============================================================================
