------------------------- MODULE ImageStreamProofs --------------------------
(***************************************************************************)
(* Proofs about the images of a camera stream, on both sides of the queue  *)
(* that the producer thread fills.                                         *)
(*                                                                         *)
(* Behind it, ImageStream, for any destinations, size of the queue and     *)
(* number of images.  What the analytics were sent, and what evictions     *)
(* cost, follow from one picture of the queue: it holds the last images    *)
(* produced, without a gap, and the image looked at last is before them    *)
(* all, save while the consumer multicasts it, when it is the front or was *)
(* evicted.  The queue is then not empty, for only the consumer empties    *)
(* it, and so the removal always takes an image out.                       *)
(*                                                                         *)
(* Before it, ZoneMinderConnector, for any stream of whole frames, size of *)
(* the buffer and cut into reads.  There the picture is of the place in    *)
(* the stream the loop is at: what was pushed ends before it, what is      *)
(* copied of an image goes on there or is gone over there again, and no    *)
(* header that the buffer has whole is passed without its text.            *)
(***************************************************************************)
EXTENDS ImageStream, ZoneMinderConnector, SequenceTheorems, TLAPS

\* The queue q is the numbers up to last, without a gap.
Consecutive(q, last) ==
  /\ Len(q) <= last
  /\ \A i \in 1 .. Len(q) : q[i] = last - Len(q) + i

\* Where the image looked at last stands to the images in the queue.
LookedAt ==
  /\ current <= produced
  /\ consumer = "multicasting" => queue # <<>> /\ 0 < current /\ current <= Head(queue)
  /\ consumer # "multicasting" => pending = {} /\ (queue # <<>> => current < Head(queue))
  /\ control = "paused" => consumer = "stopped"

\* No analytic is ahead of the consumer, and one that it has still to try is
\* behind it.
DeliveredBehind ==
  \A a \in Analytics : \A i \in 1 .. Len(delivered[a]) :
    /\ delivered[a][i] <= current
    /\ a \in pending => delivered[a][i] < current

IInv ==
  /\ TypeOK /\ Consecutive(queue, produced) /\ LookedAt /\ DeliveredBehind
  /\ InOrderOnce /\ OneMissedPerEviction /\ SendersValid

\* Such a queue holds exactly what is not before its front.
LEMMA HeldExactly ==
  ASSUME NEW last \in Nat, NEW q \in Seq(Nat), q # <<>>, Consecutive(q, last)
  PROVE  /\ Head(q) = last - Len(q) + 1 /\ Head(q) \in 1 .. last
         /\ \A n \in 0 .. last : Contains(q, n) <=> n >= Head(q)
<1>1. Len(q) \in Nat \ {0} /\ Head(q) = last - Len(q) + 1 /\ Head(q) \in 1 .. last
  BY DEF Consecutive
<1>2. ASSUME NEW n \in 0 .. last, n >= Head(q) PROVE Contains(q, n)
  <2>1. n - last + Len(q) \in 1 .. Len(q)
    BY <1>1, <1>2
  <2>2. q[n - last + Len(q)] = n
    BY <1>1, <2>1 DEF Consecutive
  <2>3. QED
    BY <2>1, <2>2 DEF Contains
<1>3. ASSUME NEW n \in 0 .. last, Contains(q, n) PROVE n >= Head(q)
  <2>1. PICK i \in 1 .. Len(q) : q[i] = n
    BY <1>3 DEF Contains
  <2>2. QED
    BY <1>1, <2>1 DEF Consecutive
<1>4. QED
  BY <1>1, <1>2, <1>3

\* push appends the next number.
LEMMA PushKeepsOrder ==
  ASSUME NEW last \in Nat, NEW q \in Seq(Nat), Consecutive(q, last)
  PROVE  Consecutive(Append(q, last + 1), last + 1)
<1>1. /\ Len(Append(q, last + 1)) = Len(q) + 1
      /\ \A i \in 1 .. Len(q) : Append(q, last + 1)[i] = q[i]
      /\ Append(q, last + 1)[Len(q) + 1] = last + 1
  BY AppendProperties
<1>2. QED
  BY <1>1 DEF Consecutive

\* What is left behind the front is such a queue, and begins one later.
LEMMA RemoveKeepsOrder ==
  ASSUME NEW last \in Nat, NEW q \in Seq(Nat), q # <<>>, Consecutive(q, last)
  PROVE  /\ Consecutive(Tail(q), last)
         /\ Tail(q) # <<>> => Head(Tail(q)) = Head(q) + 1
<1>1. /\ Tail(q) \in Seq(Nat) /\ Len(Tail(q)) = Len(q) - 1
      /\ \A i \in 1 .. Len(Tail(q)) : Tail(q)[i] = q[i + 1]
  BY HeadTailProperties
<1>2. Consecutive(Tail(q), last)
  BY <1>1 DEF Consecutive
<1>3. Head(q) = last - Len(q) + 1 /\ Len(q) \in Nat
  BY HeldExactly
<1>4. Tail(q) # <<>> => Head(Tail(q)) = last - Len(Tail(q)) + 1
  BY <1>1, <1>2, HeldExactly
<1>5. QED
  BY <1>1, <1>2, <1>3, <1>4

-----------------------------------------------------------------------------
\* A stream begins with an empty queue and nothing looked at.
LEMMA StreamInit == Init => IInv
<1> SUFFICES ASSUME Init PROVE IInv
  OBVIOUS
<1> USE StreamAssumption DEF Init
<1>1. TypeOK
  <2>1. /\ produced \in 0 .. MaxImages /\ current \in 0 .. MaxImages
        /\ queue \in Seq(Images) /\ Len(queue) <= Size
    BY EmptySeq
  <2>2. delivered \in [Analytics -> Seq(Images \cup {Garbage})]
    BY EmptySeq
  <2>3. QED
    BY <2>1, <2>2 DEF TypeOK
<1>2. Consecutive(queue, produced) /\ LookedAt
  BY DEF Consecutive, LookedAt
<1>3. DeliveredBehind /\ InOrderOnce
  BY DEF DeliveredBehind, InOrderOnce
<1>4. OneMissedPerEviction /\ SendersValid
  BY DEF OneMissedPerEviction, SendersValid, Dangling
<1>5. QED
  BY <1>1, <1>2, <1>3, <1>4 DEF IInv

\* What the types say of the numbers and of the queue.
LEMMA Typed ==
  ASSUME TypeOK
  PROVE  /\ produced \in Nat /\ current \in Nat /\ MaxImages \in Nat /\ Size \in Nat \ {0}
         /\ queue \in Seq(Images) /\ queue \in Seq(Nat)
BY StreamAssumption DEF TypeOK, Images

\* push, with the front evicted or not: it is the one looked at only while that
\* one is being multicast, and then the pointer dangles from here on.
LEMMA PushInductive ==
  ASSUME IInv, Push
  PROVE  IInv'
<1> USE DEF IInv, Push, controlVars
<1>1. UNCHANGED <<consumer, current, pending, destinations, control, delivered, interrupt, alive>>
  OBVIOUS
<1>2. /\ produced \in Nat /\ current \in Nat /\ MaxImages \in Nat /\ Size \in Nat \ {0}
      /\ queue \in Seq(Images) /\ queue \in Seq(Nat)
  BY Typed
<1>3. DeliveredBehind' /\ InOrderOnce' /\ SendersValid'
  BY <1>1 DEF DeliveredBehind, InOrderOnce, SendersValid
<1>4. produced' = produced + 1 /\ produced' \in Images /\ producer' = "notifying"
  BY <1>2 DEF Images
<1>5. CASE PushWithRoom
  <2>1. queue' = Append(queue, produced + 1) /\ Len(queue) < Size
    BY <1>5 DEF PushWithRoom
  <2>2. /\ queue' \in Seq(Images) /\ queue' \in Seq(Nat)
        /\ Len(queue') = Len(queue) + 1 /\ queue' # <<>>
        /\ queue # <<>> => Head(queue') = Head(queue)
        /\ queue = <<>> => Head(queue') = produced + 1
    BY <1>2, <1>4, <2>1, AppendProperties
  <2>3. TypeOK'
    BY <1>1, <1>2, <1>5, <1>4, <2>1, <2>2 DEF TypeOK, PushWithRoom, Images
  <2>4. Consecutive(queue', produced')
    BY <1>2, <1>4, <2>1, PushKeepsOrder
  <2>5. LookedAt'
    BY <1>1, <1>2, <1>4, <2>2 DEF LookedAt
  <2>6. OneMissedPerEviction'
    <3>1. consumer = "multicasting" => (Contains(queue', current) <=> Contains(queue, current))
      BY <1>2, <1>4, <2>2, <2>4, HeldExactly DEF LookedAt
    <3>2. QED
      BY <1>1, <1>5, <3>1 DEF PushWithRoom, OneMissedPerEviction, Dangling
  <2>7. QED
    BY <1>3, <2>3, <2>4, <2>5, <2>6
<1>6. CASE PushEvicts
  <2>1. queue' = Append(Tail(queue), produced + 1) /\ queue # <<>>
    BY <1>2, <1>6 DEF PushEvicts
  <2>2. /\ Tail(queue) \in Seq(Images) /\ Tail(queue) \in Seq(Nat)
        /\ Len(Tail(queue)) = Len(queue) - 1
    BY <1>2, <2>1, HeadTailProperties
  <2>3. /\ queue' \in Seq(Images) /\ queue' \in Seq(Nat)
        /\ Len(queue') = Len(queue) /\ queue' # <<>>
    BY <1>2, <1>4, <2>1, <2>2, AppendProperties
  <2>4. TypeOK'
    BY <1>1, <1>2, <1>6, <1>4, <2>3 DEF TypeOK, PushEvicts, DeleteFront, Images
  <2>5. Consecutive(Tail(queue), produced) /\ Consecutive(queue', produced')
    BY <1>2, <1>4, <2>1, <2>2, PushKeepsOrder, RemoveKeepsOrder
  <2>6. Head(queue') = Head(queue) + 1
    <3>1. Head(queue) = produced - Len(queue) + 1 /\ Len(queue) \in Nat
      BY <1>2, <2>1, HeldExactly
    <3>2. Head(queue') = produced' - Len(queue') + 1
      BY <1>2, <1>4, <2>3, <2>5, HeldExactly
    <3>3. QED
      BY <1>2, <1>4, <2>3, <3>1, <3>2
  <2>7. LookedAt'
    BY <1>1, <1>2, <1>4, <2>1, <2>3, <2>6, HeldExactly, SMTT(20) DEF LookedAt
  <2>8. OneMissedPerEviction'
    <3>1. /\ Contains(queue, current) <=> current >= Head(queue)
          /\ Head(queue) \in Nat
      BY <1>2, <2>1, HeldExactly DEF LookedAt
    <3>2. Contains(queue', current) <=> current >= Head(queue) + 1
      BY <1>2, <1>4, <2>3, <2>5, <2>6, HeldExactly DEF LookedAt
    <3>3. missed \in Nat /\ evicted \in Nat
      BY DEF TypeOK
    <3>4. QED
      BY <1>1, <1>2, <1>6, <2>1, <3>1, <3>2, <3>3
         DEF PushEvicts, DeleteFront, OneMissedPerEviction, Dangling, LookedAt
  <2>9. QED
    BY <1>3, <2>4, <2>5, <2>7, <2>8
<1>7. QED
  BY <1>5, <1>6

\* The consumer looks at an image that is later than any it looked at before.
LEMMA PeekInductive ==
  ASSUME IInv, Peek
  PROVE  IInv'
<1> USE DEF IInv, Peek, controlVars, queueVars
<1>1. /\ produced \in Nat /\ current \in Nat /\ MaxImages \in Nat
      /\ queue \in Seq(Images) /\ queue \in Seq(Nat) /\ queue # <<>>
  BY Typed
<1>2. /\ Head(queue) \in 1 .. produced /\ current < Head(queue)
      /\ Head(queue) \in Images /\ Contains(queue, Head(queue))
  BY <1>1, HeldExactly DEF LookedAt, TypeOK, Images
<1>3. TypeOK' /\ SendersValid'
  BY <1>1, <1>2 DEF TypeOK, SendersValid, Images
<1>4. LookedAt'
  BY <1>1, <1>2, <1>3 DEF LookedAt
<1>5. DeliveredBehind' /\ InOrderOnce'
  <2>1. \A a \in Analytics : \A i \in 1 .. Len(delivered[a]) : delivered[a][i] \in Nat
    BY <1>1 DEF TypeOK, Images, Garbage
  <2>2. QED
    BY <1>1, <1>2, <2>1 DEF DeliveredBehind, InOrderOnce
<1>6. OneMissedPerEviction'
  BY <1>2 DEF OneMissedPerEviction, Dangling
<1>7. QED
  BY <1>3, <1>4, <1>5, <1>6

\* tryRemoveFrontElement takes out the image that was multicast, or, when that
\* one was evicted, one nobody has looked at.
LEMMA RemoveFrontInductive ==
  ASSUME IInv, RemoveFront
  PROVE  IInv'
<1> USE DEF IInv, RemoveFront, controlVars
<1>1. /\ produced \in Nat /\ current \in Nat /\ MaxImages \in Nat /\ Size \in Nat \ {0}
      /\ queue \in Seq(Images) /\ queue \in Seq(Nat) /\ queue # <<>>
  BY Typed DEF LookedAt
<1>2. /\ queue' = Tail(queue) /\ DeleteFront
      /\ UNCHANGED <<produced, producer, evicted, current, pending, destinations, control,
                     interrupt, alive, delivered>>
  BY <1>1
<1>3. /\ Tail(queue) \in Seq(Images) /\ Len(Tail(queue)) = Len(queue) - 1
      /\ Consecutive(Tail(queue), produced)
      /\ Tail(queue) # <<>> => Head(Tail(queue)) = Head(queue) + 1
  BY <1>1, HeadTailProperties, RemoveKeepsOrder
<1>4. Contains(queue, current) <=> current = Head(queue)
  BY <1>1, HeldExactly DEF LookedAt
<1>5. TypeOK'
  <2>1. missed' \in Nat
    BY <1>2 DEF TypeOK, DeleteFront
  <2>2. queue' \in Seq(Images) /\ Len(queue') <= Size
    <3>1. Len(queue) \in Nat /\ Len(queue) <= Size
      BY <1>1 DEF TypeOK
    <3>2. Size \in Nat /\ Len(Tail(queue)) <= Size
      BY <1>1, <1>3, <3>1
    <3>3. queue' = Tail(queue)
      BY <1>2
    <3>4. QED
      BY <1>3, <3>2, <3>3
  <2>3. QED
    BY <1>2, <2>1, <2>2 DEF TypeOK
<1>6. LookedAt'
  <2>1. Head(queue) \in Nat /\ current <= Head(queue)
    BY <1>1, HeadTailProperties DEF LookedAt
  <2>2. current < Head(queue) + 1
    BY <1>1, <2>1
  <2>3. queue' # <<>> => current < Head(queue')
    BY <1>2, <1>3, <2>2
  <2>4. QED
    BY <1>2, <2>3 DEF LookedAt
<1>7. OneMissedPerEviction'
  BY <1>2, <1>4 DEF OneMissedPerEviction, Dangling, DeleteFront, TypeOK
<1>8. DeliveredBehind' /\ InOrderOnce' /\ SendersValid'
  BY <1>2 DEF DeliveredBehind, InOrderOnce, SendersValid
<1>9. QED
  BY <1>2, <1>3, <1>5, <1>6, <1>7, <1>8

\* A destination that is tried gets the image after older ones, or garbage, or
\* nothing.
LEMMA SendInductive ==
  ASSUME IInv, NEW a \in Analytics, SendTo(a)
  PROVE  IInv'
<1> USE DEF IInv, SendTo, Skip, SendImage, controlVars, queueVars
<1>1. /\ UNCHANGED <<produced, producer, queue, evicted, missed, consumer, current,
                     destinations, control, interrupt>>
      /\ consumer = "multicasting" /\ a \in pending /\ pending' = pending \ {a}
  OBVIOUS
<1>2. produced \in Nat /\ current \in Nat /\ current \in Images /\ queue \in Seq(Nat)
  BY <1>1, Typed DEF LookedAt, TypeOK, Images
<1>3. LookedAt' /\ SendersValid' /\ OneMissedPerEviction' /\ Consecutive(queue', produced')
  BY <1>1 DEF LookedAt, SendersValid, OneMissedPerEviction, Dangling
<1>4. CASE UNCHANGED delivered
  <2>1. TypeOK'
    BY <1>1, <1>4 DEF TypeOK
  <2>2. DeliveredBehind' /\ InOrderOnce'
    BY <1>1, <1>4 DEF DeliveredBehind, InOrderOnce
  <2>3. QED
    BY <1>3, <2>1, <2>2
<1>5. ASSUME NEW content \in {current, Garbage}, Deliver(a, content), UNCHANGED alive
      PROVE  IInv'
  <2>1. content \in Images \cup {Garbage} /\ content \in Nat
    BY <1>2 DEF Images, Garbage
  <2>2. /\ delivered' = [delivered EXCEPT ![a] = Append(delivered[a], content)]
        /\ delivered \in [Analytics -> Seq(Images \cup {Garbage})]
    BY <1>5 DEF Deliver, TypeOK
  <2>3. \A b \in Analytics :
          /\ delivered[b] \in Seq(Images \cup {Garbage})
          /\ Len(delivered[b]) \in Nat
          /\ \A i \in 1 .. Len(delivered[b]) : delivered[b][i] \in Nat
    BY <2>2, <1>2, Typed DEF Images, Garbage
  <2>4. /\ delivered'[a] \in Seq(Images \cup {Garbage})
        /\ Len(delivered'[a]) = Len(delivered[a]) + 1
        /\ \A i \in 1 .. Len(delivered[a]) : delivered'[a][i] = delivered[a][i]
        /\ delivered'[a][Len(delivered[a]) + 1] = content
    BY <2>1, <2>2, <2>3, AppendProperties
  <2>5. \A b \in Analytics : b # a => delivered'[b] = delivered[b]
    BY <2>2
  <2>6. TypeOK'
    <3>1. delivered' \in [Analytics -> Seq(Images \cup {Garbage})]
      BY <2>2, <2>4
    <3>2. QED
      BY <1>1, <1>5, <3>1 DEF TypeOK
  <2>7. DeliveredBehind'
    <3>1. ASSUME NEW i \in 1 .. Len(delivered'[a])
          PROVE  delivered'[a][i] <= current
      <4>1. CASE i = Len(delivered[a]) + 1
        BY <1>2, <2>4, <4>1, <1>5 DEF Garbage
      <4>2. CASE i # Len(delivered[a]) + 1
        <5>1. i \in 1 .. Len(delivered[a])
          BY <2>3, <2>4, <4>2
        <5>2. QED
          BY <2>4, <5>1 DEF DeliveredBehind
      <4>3. QED
        BY <4>1, <4>2
    <3>2. QED
      BY <1>1, <2>5, <3>1 DEF DeliveredBehind
  <2>8. InOrderOnce'
    <3>1. ASSUME NEW i \in 1 .. Len(delivered'[a]), NEW j \in 1 .. Len(delivered'[a]),
                 i < j, delivered'[a][j] # Garbage
          PROVE  delivered'[a][i] < delivered'[a][j]
      <4>1. i \in 1 .. Len(delivered[a])
        BY <2>3, <2>4, <3>1
      <4>2. CASE j = Len(delivered[a]) + 1
        BY <1>1, <1>5, <2>4, <3>1, <4>1, <4>2 DEF DeliveredBehind
      <4>3. CASE j # Len(delivered[a]) + 1
        <5>1. j \in 1 .. Len(delivered[a])
          BY <2>3, <2>4, <4>3
        <5>2. QED
          BY <2>3, <2>4, <3>1, <4>1, <5>1, SMTT(20) DEF InOrderOnce
      <4>4. QED
        BY <4>2, <4>3
    <3>2. \A b \in Analytics : DOMAIN delivered'[b] = 1 .. Len(delivered'[b])
      BY <2>3, <2>4, <2>5
    <3>3. QED
      BY <2>5, <3>1, <3>2 DEF InOrderOnce
  <2>9. QED
    BY <1>3, <2>6, <2>7, <2>8
<1>6. QED
  BY <1>4, <1>5

\* The rest moves the threads; destinations change while nothing is pending.
LEMMA OtherInductive ==
  ASSUME IInv,
         Notify \/ Sleep \/ SpuriousWake \/ GoOn \/ Interrupted \/ Pause \/ Control
  PROVE  IInv'
<1> USE DEF IInv, Notify, Sleep, SpuriousWake, GoOn, Interrupted, Pause, Control,
            Interrupt, Joined, Resume, controlVars, queueVars
<1>1. /\ UNCHANGED <<produced, queue, evicted, missed, current, pending, delivered>>
      /\ consumer' = "multicasting" <=> consumer = "multicasting"
      /\ control' = "paused" => consumer' = "stopped"
  BY DEF LookedAt
<1>2. TypeOK'
  BY DEF TypeOK, AddOrRemove
<1>3. SendersValid'
  BY DEF SendersValid, LookedAt
<1>4. QED
  BY <1>1, <1>2, <1>3
     DEF LookedAt, DeliveredBehind, InOrderOnce, OneMissedPerEviction, Dangling

\* Every step keeps the invariant.
LEMMA StreamInductive == IInv /\ [Next]_vars => IInv'
<1> SUFFICES ASSUME IInv, [Next]_vars PROVE IInv'
  OBVIOUS
<1>1. CASE Producer
  BY <1>1, PushInductive, OtherInductive DEF Producer
<1>2. CASE Consumer
  BY <1>2, PeekInductive, SendInductive, RemoveFrontInductive, OtherInductive DEF Consumer
<1>3. CASE SpuriousWake \/ Pause \/ Control
  BY <1>3, OtherInductive
<1>4. CASE UNCHANGED vars
  BY <1>4
     DEF vars, IInv, TypeOK, LookedAt, DeliveredBehind, InOrderOnce,
         OneMissedPerEviction, Dangling, SendersValid
<1>5. QED
  BY <1>1, <1>2, <1>3, <1>4 DEF Next

\* The invariant holds in every state of the stream.
THEOREM StreamInvariant == Spec => []IInv
BY StreamInit, StreamInductive, PTL DEF Spec

\* The variables keep their types, and the queue its size.
THEOREM StreamTypeCorrect == Spec => []TypeOK
<1>1. IInv => TypeOK
  BY DEF IInv
<1>2. QED
  BY <1>1, StreamInvariant, PTL

\* InOrderOnce: however evictions and pauses fall, no analytic is sent an image
\* twice, or an older one after a newer one.
THEOREM DeliveredInOrderOnce == Spec => []InOrderOnce
<1>1. IInv => InOrderOnce
  BY DEF IInv
<1>2. QED
  BY <1>1, StreamInvariant, PTL

\* OneMissedPerEviction: the number of images deleted unseen is the number of
\* evictions, but for the one an eviction under the consumer still owes.
THEOREM EachEvictionCostsOne == Spec => []OneMissedPerEviction
<1>1. IInv => OneMissedPerEviction
  BY DEF IInv
<1>2. QED
  BY <1>1, StreamInvariant, PTL

-----------------------------------------------------------------------------
\* An image is evicted under the consumer by a full queue only, and nothing but
\* the consumer makes room in it.
EvictedByFull == Dangling => Len(queue) = Size

\* So is one that is gone Size images old, and one that is in front not.
LEMMA FrontIsRecent ==
  ASSUME IInv, queue # <<>>
  PROVE  /\ Head(queue) \in 1 .. produced /\ produced - Head(queue) < Size
         /\ Dangling /\ EvictedByFull => ~ produced - current < Size
<1>1. /\ produced \in Nat /\ current \in Nat /\ Size \in Nat /\ queue \in Seq(Nat)
      /\ Len(queue) \in Nat /\ Len(queue) <= Size
  BY Typed DEF IInv, TypeOK
<1>2. Head(queue) = produced - Len(queue) + 1 /\ Head(queue) \in 1 .. produced
  BY <1>1, HeldExactly DEF IInv
<1>3. current <= produced => (Contains(queue, current) <=> current >= Head(queue))
  BY <1>1, HeldExactly DEF IInv
<1>4. current <= produced
  BY DEF IInv, LookedAt
<1>5. QED
  BY <1>1, <1>2, <1>3, <1>4 DEF Dangling, EvictedByFull

LEMMA EvictedByFullInductive == IInv /\ IInv' /\ EvictedByFull /\ [Next]_vars => EvictedByFull'
<1> SUFFICES ASSUME IInv, IInv', EvictedByFull, [Next]_vars, Dangling'
             PROVE  Len(queue') = Size
  BY DEF EvictedByFull
<1> USE DEF controlVars, queueVars
<1>1. CASE Push
  <2>1. UNCHANGED <<consumer, current>> /\ consumer = "multicasting"
    BY <1>1 DEF Push, Dangling
  <2>2. CASE PushWithRoom
    <3>1. /\ queue \in Seq(Nat) /\ queue # <<>> /\ Len(queue) < Size
          /\ queue' = Append(queue, produced + 1)
      BY <1>1, <2>1, <2>2, Typed DEF PushWithRoom, IInv, LookedAt
    <3>2. Contains(queue, current) => Contains(queue', current)
      BY <3>1, AppendProperties DEF Contains
    <3>3. QED
      BY <2>1, <3>1, <3>2 DEF EvictedByFull, Dangling, IInv, TypeOK
  <2>3. CASE PushEvicts
    <3>1. queue \in Seq(Images) /\ queue # <<>> /\ Size \in Nat \ {0} /\ Len(queue) = Size
      BY <2>3, Typed DEF PushEvicts, IInv, TypeOK
    <3>2. Len(queue') = Len(queue)
      BY <2>3, <3>1, HeadTailProperties, AppendProperties DEF PushEvicts
    <3>3. QED
      BY <3>1, <3>2
  <2>4. QED
    BY <1>1, <2>2, <2>3 DEF Push
<1>2. CASE Peek
  <2>1. queue' = queue /\ queue # <<>> /\ current' = Head(queue) /\ queue \in Seq(Images)
    BY <1>2, Typed DEF Peek, IInv
  <2>2. Contains(queue', current')
    BY <2>1 DEF Contains
  <2>3. QED
    BY <2>2 DEF Dangling
<1>3. CASE RemoveFront
  BY <1>3 DEF RemoveFront, Dangling
<1>4. CASE Notify \/ Sleep \/ SpuriousWake \/ GoOn \/ Interrupted \/ Pause \/ Control
           \/ (\E a \in Analytics : SendTo(a)) \/ UNCHANGED vars
  <2>1. UNCHANGED <<queue, current>> /\ (consumer' = "multicasting" => consumer = "multicasting")
    BY <1>4 DEF Notify, Sleep, SpuriousWake, GoOn, Interrupted, Pause, Control, Interrupt,
                Joined, Resume, SendTo, Skip, SendImage, vars
  <2>2. QED
    BY <2>1 DEF EvictedByFull, Dangling
<1>5. QED
  BY <1>1, <1>2, <1>3, <1>4 DEF Next, Producer, Consumer

\* Each step of the threads is one of the multicast, or is not seen from outside.
LEMMA MulticastStep ==
  ASSUME IInv, IInv', EvictedByFull, [Next]_vars
  PROVE  [Multicast!Next]_Multicast!streamVars
<1> USE DEF controlVars, queueVars, Multicast!streamVars
<1>1. CASE Push
  BY <1>1 DEF Push, Multicast!Next, Multicast!Publish
<1>2. CASE Peek
  <2>1. queue # <<>> /\ pending = {} /\ current < Head(queue) /\ current \in Nat
    BY <1>2, Typed DEF Peek, IInv, LookedAt
  <2>2. Head(queue) \in current + 1 .. produced /\ produced - Head(queue) < Size
    BY <2>1, FrontIsRecent
  <2>3. Multicast!Offer
    BY <1>2, <2>1, <2>2 DEF Peek, Multicast!Offer, Multicast!Recent
  <2>4. QED
    BY <2>3 DEF Multicast!Next
<1>3. ASSUME NEW a \in Analytics, SendTo(a) PROVE Multicast!Next
  <2>1. /\ consumer = "multicasting" /\ a \in pending /\ pending' = pending \ {a}
        /\ UNCHANGED <<produced, current, destinations>>
    BY <1>3 DEF SendTo, Skip, SendImage
  <2>2. CASE UNCHANGED delivered
    BY <2>1, <2>2 DEF Multicast!Next, Multicast!Deny
  <2>3. CASE Deliver(a, current)
    BY <2>1, <2>3 DEF Deliver, Multicast!Next, Multicast!Give
  <2>4. CASE Deliver(a, Garbage) /\ ~ Contains(queue, current)
    <3>1. queue # <<>> /\ Dangling
      BY <2>1, <2>4 DEF IInv, LookedAt, Dangling
    <3>2. ~ Multicast!Recent(current)
      BY <3>1, FrontIsRecent DEF Multicast!Recent
    <3>3. QED
      BY <2>1, <2>4, <3>2 DEF Deliver, Multicast!Next, Multicast!Give
  <2>5. QED
    BY <1>3, <2>2, <2>3, <2>4 DEF SendTo, Skip, SendImage
<1>4. CASE Resume
  <2>1. pending = {} /\ destinations' \subseteq Analytics
    BY <1>4 DEF Resume, IInv, LookedAt, TypeOK
  <2>2. QED
    BY <1>4, <2>1 DEF Resume, Multicast!Next, Multicast!Resubscribe
<1>5. CASE Notify \/ Sleep \/ RemoveFront \/ SpuriousWake \/ GoOn \/ Interrupted \/ Pause
           \/ Interrupt \/ Joined \/ UNCHANGED vars
  BY <1>5 DEF Notify, Sleep, RemoveFront, SpuriousWake, GoOn, Interrupted, Pause, Interrupt,
              Joined, vars
<1>6. QED
  BY <1>1, <1>2, <1>3, <1>4, <1>5 DEF Next, Producer, Consumer, Control

\* ImplementsMulticast: seen from the analytics, the stream is a multicast of
\* fresh images without a queue, threads or pauses.
THEOREM StreamIsMulticast == Spec => ImplementsMulticast
<1>1. Init => EvictedByFull /\ Multicast!Init
  BY DEF Init, EvictedByFull, Dangling, Multicast!Init
<1>2. IInv /\ IInv' /\ EvictedByFull /\ [Next]_vars => [Multicast!Next]_Multicast!streamVars
  BY MulticastStep
<1>3. QED
  BY <1>1, <1>2, StreamInvariant, EvictedByFullInductive, PTL
     DEF Spec, ImplementsMulticast, Multicast!Spec

\* SendersValid: the consumer has no destination before it that the event thread
\* has removed.
THEOREM SendersStayValid == Spec => []SendersValid
<1>1. IInv => SendersValid
  BY DEF IInv
<1>2. QED
  BY <1>1, StreamInvariant, PTL

-----------------------------------------------------------------------------
(***************************************************************************)
(* The connector to a ZoneMinder camera.                                   *)
(***************************************************************************)
\* How long the image after a header is.
ImageSize(p) == stream[p + 1] - Tag
LastPlace(p) == FrameEnd(stream, p)

\* The place before the buffer's first byte, and that of the loop's byte.
Before == taken - length
Here == Before + cur

\* What no step of the connection has touched.
Untouched ==
  /\ pc \in {"new", "located", "connected", "asked"} => taken = 0 /\ torn = {}
  /\ pc \notin {"decoding", "ended"} =>
       /\ length = 0 /\ cur = 1
       /\ other = <<>> /\ image = <<>> /\ contentLength = 0 /\ pushed = <<>>

\* The buffer holds the places after Before; a frame whose start is on both
\* sides of an end of it is torn.
BufferInv ==
  /\ length <= taken
  /\ \A k \in 1 .. length : readBytes[k] = Before + k
  /\ \A p \in Headers : Before \in p .. p + 2 \/ taken \in p .. p + 2 => p \in torn

\* The text is of this buffer and in order; no byte between a header and its
\* length is left out.
TextInOrder ==
  /\ \A k \in DOMAIN other : Before < other[k] /\ other[k] < Here
  /\ \A j, k \in DOMAIN other : j < k => other[j] < other[k]
  /\ \A k \in DOMAIN other : stream[other[k]] = Tag =>
       /\ k + 1 \in DOMAIN other => other[k + 1] = other[k] + 1
       /\ k = Len(other) => Here = other[k] + 1

\* The headers of this buffer are in the text, and no place of their images
\* after the markers is ever scanned.  At the marker there is no image yet.
HeadersInText ==
  \A p \in Headers :
    /\ Before < p /\ p < Here => p \in ToSet(other) /\ Here \notin p + 4 .. LastPlace(p)
    /\ Before < p /\ Here = p + 3 => prev = cur - 1 /\ image = <<>>

TextInv == cur <= length => TextInOrder /\ HeadersInText

\* An image that is not whole yet, in order up to the end of the buffer.
Growing(p) ==
  /\ contentLength = ImageSize(p) /\ Len(image) < ImageSize(p) /\ Here = p + 2 + Len(image)
  /\ cur <= length => cur = 1 /\ other = <<>>

\* One that is: the loop is behind it, or at its bytes again.
Complete(p) ==
  /\ contentLength = ImageSize(p) /\ Len(image) = ImageSize(p)
  /\ \/ Here = p + 2 + ImageSize(p)
     \/ cur = 1 /\ other = <<>> /\ Here \in p + 4 .. LastPlace(p)

\* One whose length was reset.
Stuck == contentLength = 0 /\ cur <= length /\ prev = cur

ImageInv ==
  image # <<>> =>
    \E p \in Headers :
      /\ Len(image) \in 2 .. ImageSize(p) /\ \A k \in 1 .. Len(image) : image[k] = p + 1 + k
      /\ \A k \in DOMAIN pushed : pushed[k][1] < p + 2
      /\ Growing(p) \/ Complete(p) \/ Stuck

PushedInv ==
  /\ \A k \in DOMAIN pushed : \E p \in Headers : pushed[k] = Jpeg(p) /\ p + 4 <= Here
  /\ \A j, k \in DOMAIN pushed : j < k => pushed[j][1] < pushed[k][1]

\* A frame that is not torn and whose markers are behind the loop is the image
\* or was pushed, unless the loop spins.
LostInv ==
  image = <<>> \/ contentLength # 0 =>
    \A p \in Headers \ torn :
      \/ Here <= p + 3
      \/ image # <<>> /\ image[1] = p + 2
      \/ Jpeg(p) \in ToSet(pushed)

DecoderInv ==
  /\ ConnectorTypeOK /\ Untouched /\ BufferInv /\ TextInv
  /\ ImageInv /\ PushedInv /\ LostInv

-----------------------------------------------------------------------------
\* What a frame is, and that no other begins in it.
LEMMA FrameIs ==
  ASSUME ConnectorTypeOK, NEW p \in Headers
  PROVE  /\ p \in Nat /\ 0 < p /\ ImageSize(p) \in Nat /\ 4 <= ImageSize(p)
         /\ LastPlace(p) = p + 1 + ImageSize(p) /\ LastPlace(p) <= Len(stream)
         /\ \A place \in p + 2 .. LastPlace(p) : stream[place] < Tag
         /\ stream[p] = Tag /\ stream[p + 1] >= Tag + 4
         /\ stream[p + 2] = 255 /\ stream[p + 3] = 216
         /\ stream[LastPlace(p) - 1] = 255 /\ stream[LastPlace(p)] = 217
         /\ \A q \in Headers : q <= p \/ LastPlace(p) < q
<1>1. stream \in Seq(Nat) /\ p \in 1 .. Len(stream) /\ stream[p] = Tag /\ IsFrame(stream, p)
  BY ConnectorAssumption DEF ConnectorTypeOK, WellFramed, Headers
<1>2. p + 1 \in 1 .. Len(stream) /\ stream[p + 1] \in Nat /\ stream[p + 1] >= 260
  <2>1. p + 1 \in 1 .. Len(stream) /\ stream[p + 1] >= 256 + 4
    BY <1>1 DEF IsFrame, Tag
  <2>2. QED
    BY <1>1, <2>1, ElementOfSeq
<1>3. LastPlace(p) = p + 1 + ImageSize(p) /\ ImageSize(p) \in Nat /\ 4 <= ImageSize(p)
  <2>1. ImageSize(p) = stream[p + 1] - 256
    BY DEF ImageSize, Tag
  <2>2. ImageSize(p) \in Nat /\ 4 <= ImageSize(p)
    BY <1>2, <2>1
  <2>3. QED
    BY <2>2 DEF LastPlace, FrameEnd, ImageSize
<1>4. ASSUME NEW q \in Headers PROVE q <= p \/ LastPlace(p) < q
  <2>1. q \in 1 .. Len(stream) /\ stream[q] = Tag
    BY <1>1, <1>4 DEF Headers
  <2>2. q # p + 1
    BY <1>1, <2>1 DEF IsFrame, Tag
  <2>3. q \notin p + 2 .. LastPlace(p)
    BY <1>1, <2>1 DEF IsFrame, Tag, LastPlace
  <2>4. QED
    BY <1>1, <1>3, <2>1, <2>2, <2>3
<1>5. QED
  BY <1>1, <1>3, <1>4 DEF IsFrame, LastPlace

\* Every place is in a frame.
LEMMA InAFrame ==
  ASSUME ConnectorTypeOK, NEW place \in 1 .. Len(stream)
  PROVE  \E p \in Headers : p <= place /\ place <= LastPlace(p)
<1>1. stream \in Seq(Nat) /\ WellFramed(stream)
  BY ConnectorAssumption DEF ConnectorTypeOK, WellFramed
<1>2. PICK p \in 1 .. place : IsFrame(stream, p) /\ place <= FrameEnd(stream, p)
  BY <1>1 DEF WellFramed
<1>3. p \in Headers
  BY <1>1, <1>2 DEF Headers, IsFrame
<1>4. QED
  BY <1>2, <1>3 DEF LastPlace

\* The loop's byte.
LEMMA AtByte ==
  ASSUME ConnectorTypeOK, BufferInv, NEW k \in 1 .. length
  PROVE  /\ readBytes[k] = Before + k /\ Before + k \in 1 .. Len(stream)
         /\ Byte(readBytes[k]) = stream[Before + k]
<1>1. Before \in Nat /\ k \in Nat /\ 0 < k
  BY DEF ConnectorTypeOK, BufferInv, Before
<1>2. readBytes[k] = Before + k
  BY DEF BufferInv
<1>3. Before + k \in 1 .. Len(stream)
  BY <1>1, ConnectorAssumption DEF ConnectorTypeOK, BufferInv, Before, WellFramed
<1>4. QED
  BY <1>2, <1>3 DEF Byte

\* What is copied out of the buffer.
LEMMA Copied ==
  ASSUME ConnectorTypeOK, BufferInv, NEW m \in 1 .. length, NEW n \in m - 1 .. length
  PROVE  /\ SubSeq(readBytes, m, n) \in Seq(0 .. Len(stream))
         /\ Len(SubSeq(readBytes, m, n)) = n - m + 1
         /\ \A k \in 1 .. n - m + 1 : SubSeq(readBytes, m, n)[k] = Before + m + k - 1
<1>1. readBytes \in Seq(0 .. Len(stream)) /\ Len(readBytes) = BufferSize
  BY ConnectorAssumption DEF ConnectorTypeOK
<1>2. length \in Nat /\ length <= BufferSize /\ m \in Nat /\ 0 < m /\ n \in Nat /\ n <= length
  BY ConnectorAssumption DEF ConnectorTypeOK
<1>3. \A k \in m .. n : k \in 1 .. Len(readBytes)
  BY <1>1, <1>2
<1>4. Before \in Nat
  BY DEF ConnectorTypeOK, BufferInv, Before
<1>5. /\ SubSeq(readBytes, m, n) \in Seq(0 .. Len(stream))
      /\ Len(SubSeq(readBytes, m, n)) = n - m + 1
      /\ \A k \in 1 .. n - m + 1 : SubSeq(readBytes, m, n)[k] = readBytes[m + k - 1]
  BY <1>1, <1>2, <1>3, SubSeqProperties, ConnectorAssumption
<1>6. ASSUME NEW k \in 1 .. n - m + 1 PROVE readBytes[m + k - 1] = Before + m + k - 1
  <2>1. m + k - 1 \in 1 .. length
    BY <1>2, <1>6
  <2>2. QED
    BY <1>2, <1>4, <2>1, AtByte
<1>7. QED
  BY <1>5, <1>6

-----------------------------------------------------------------------------
\* At the markers of a frame that began in this buffer, the text has its length.
LEMMA LengthIsThere ==
  ASSUME DecoderInv, Scanning, NEW p \in Headers, Before < p, Here = p + 3
  PROVE  /\ AtMarker /\ prev = cur - 1 /\ image = <<>>
         /\ \E i \in Lengths(other) : other[i] = p /\ other[i + 1] = p + 1
<1>1. /\ ConnectorTypeOK /\ BufferInv /\ TextInOrder /\ HeadersInText /\ cur \in 1 .. length
      /\ other \in Seq(1 .. Len(stream)) /\ Len(other) \in Nat /\ DOMAIN other = 1 .. Len(other)
  BY DEF DecoderInv, TextInv, Scanning, ConnectorTypeOK
<1>2. Before \in Nat /\ cur \in Nat /\ length \in Nat /\ Here = Before + cur
  BY <1>1 DEF ConnectorTypeOK, BufferInv, Before, Here
<1>3. /\ p \in Nat /\ stream[p] = Tag /\ stream[p + 1] >= Tag + 4
      /\ stream[p + 2] = 255 /\ stream[p + 3] = 216
  BY <1>1, FrameIs
<1>4. prev = cur - 1 /\ image = <<>> /\ p \in ToSet(other)
  BY <1>1, <1>3 DEF HeadersInText
<1>5. AtMarker
  <2>1. prev \in 1 .. length /\ prev # 0 /\ Before + prev = p + 2 /\ Before + cur = p + 3
    BY <1>1, <1>2, <1>3, <1>4
  <2>2. QED
    BY <1>1, <1>3, <2>1, AtByte DEF AtMarker
<1>6. PICK i \in 1 .. Len(other) : other[i] = p
  BY <1>4 DEF ToSet
<1>7. i + 1 \in 1 .. Len(other) /\ other[i + 1] = p + 1
  <2>1. i \in DOMAIN other /\ stream[other[i]] = Tag
    BY <1>1, <1>3, <1>6
  <2>2. /\ i + 1 \in DOMAIN other => other[i + 1] = other[i] + 1
        /\ i = Len(other) => Here = other[i] + 1
    BY <1>1, <2>1 DEF TextInOrder
  <2>3. i # Len(other)
    BY <1>3, <1>6, <2>2
  <2>4. i + 1 \in DOMAIN other
    <3>1. Len(other) \in Nat /\ DOMAIN other = 1 .. Len(other)
      BY <1>1
    <3>2. i \in Nat /\ i < Len(other) /\ 0 < i
      <4>1. i \in 1 .. Len(other) /\ Len(other) \in Nat
        BY <1>1
      <4>2. QED
        BY <2>3, <4>1
    <3>3. QED
      BY <3>1, <3>2
  <2>5. QED
    BY <1>1, <1>6, <2>2, <2>4
<1>8. Byte(other[i]) = Tag /\ Byte(other[i + 1]) > Tag
  <2>1. p # 0 /\ p + 1 # 0 /\ p + 1 \in 1 .. Len(stream)
    <3>1. other[i] \in 1 .. Len(stream) /\ other[i + 1] \in 1 .. Len(stream)
      BY <1>1, <1>6, <1>7, ElementOfSeq
    <3>2. QED
      BY <1>3, <1>6, <1>7, <3>1
  <2>2. stream[p + 1] \in Nat
    BY <1>1, <2>1, ConnectorAssumption, ElementOfSeq DEF ConnectorTypeOK, WellFramed
  <2>3. QED
    BY <1>3, <1>6, <1>7, <2>1, <2>2 DEF Byte, Tag
<1>9. i \in Lengths(other)
  BY <1>1, <1>6, <1>7, <1>8 DEF Lengths
<1>10. QED
  BY <1>4, <1>5, <1>6, <1>7, <1>9

\* And at a marker with a length in the text, it is that of the frame there.
LEMMA LengthIsRight ==
  ASSUME DecoderInv, Scanning, AtMarker, Lengths(other) # {}
  PROVE  \E p \in Headers :
           /\ Before < p /\ Here = p + 3 /\ Extracted(other) = ImageSize(p)
           /\ prev = cur - 1 /\ image = <<>>
<1>1. /\ ConnectorTypeOK /\ BufferInv /\ TextInOrder /\ HeadersInText /\ cur \in 1 .. length
      /\ other \in Seq(1 .. Len(stream)) /\ Len(other) \in Nat /\ DOMAIN other = 1 .. Len(other)
  BY DEF DecoderInv, TextInv, Scanning, ConnectorTypeOK
<1>2. Before \in Nat /\ cur \in Nat /\ Here = Before + cur /\ Here \in 1 .. Len(stream)
  BY <1>1, AtByte DEF ConnectorTypeOK, BufferInv, Before, Here
<1>3. stream[Here] = 216
  BY <1>1, AtByte DEF AtMarker, Here
<1>4. ASSUME NEW i \in Lengths(other)
      PROVE  /\ i \in 1 .. Len(other) /\ i + 1 \in 1 .. Len(other)
             /\ other[i] \in Headers /\ Before < other[i] /\ other[i] < Here
  <2>1. i \in 1 .. Len(other) /\ i + 1 \in 1 .. Len(other)
    BY <1>1, <1>4 DEF Lengths
  <2>2. other[i] \in 1 .. Len(stream) /\ Byte(other[i]) = Tag
    BY <1>1, <1>4, <2>1, ElementOfSeq DEF Lengths
  <2>3. other[i] \in Headers
    BY <1>1, <2>2, ConnectorAssumption DEF Byte, Headers, ConnectorTypeOK, WellFramed
  <2>4. QED
    BY <1>1, <2>1, <2>3 DEF TextInOrder
<1>5. PICK h \in Headers : Before < h /\ h < Here
  BY <1>4
<1>6. PICK p \in Headers : p <= Here /\ Here <= LastPlace(p)
  BY <1>1, <1>2, InAFrame
<1>7. /\ p \in Nat /\ ImageSize(p) \in Nat /\ 4 <= ImageSize(p)
      /\ LastPlace(p) = p + 1 + ImageSize(p)
      /\ stream[p] = Tag /\ stream[p + 1] >= Tag + 4 /\ stream[p + 2] = 255
      /\ \A q \in Headers : q <= p \/ LastPlace(p) < q
  BY <1>1, FrameIs
<1>8. Here \notin {p, p + 1, p + 2}
  BY <1>3, <1>7 DEF Tag
<1>9. h \in Nat /\ Before < p /\ p < Here
  BY <1>1, <1>2, <1>5, <1>6, <1>7, <1>8, FrameIs
<1>10. Here = p + 3
  <2>1. Here \notin p + 4 .. LastPlace(p)
    BY <1>1, <1>9 DEF HeadersInText
  <2>2. QED
    BY <1>2, <1>6, <1>7, <1>8, <2>1
<1>11. prev = cur - 1 /\ image = <<>>
  BY <1>9, <1>10, LengthIsThere
<1>12. PICK i \in Lengths(other) : other[i] = p /\ other[i + 1] = p + 1
  BY <1>9, <1>10, LengthIsThere
<1>13. ASSUME NEW j \in Lengths(other) PROVE j <= i
  <2>1. other[j] \in Headers /\ other[j] \in Nat /\ other[j] < Here
    <3>1. other[j] \in Headers /\ other[j] < Here
      BY <1>4
    <3>2. QED
      BY <1>1, <3>1, FrameIs, SMTT(20)
  <2>2. other[j] <= p
    BY <1>7, <1>10, <2>1
  <2>3. ~ (i < j)
    <3>1. i \in DOMAIN other /\ j \in DOMAIN other
      BY <1>1, <1>4
    <3>2. i < j => other[i] < other[j]
      BY <1>1, <3>1 DEF TextInOrder
    <3>3. QED
      BY <1>7, <1>12, <2>1, <2>2, <3>2
  <2>4. i \in Nat /\ j \in Nat
    BY <1>4
  <2>5. QED
    BY <2>3, <2>4
<1>14. (CHOOSE k \in Lengths(other) : \A j \in Lengths(other) : j <= k) = i
  <2>1. \A k \in Lengths(other) : k \in Nat
    BY <1>4
  <2>2. \A k \in Lengths(other) : (\A j \in Lengths(other) : j <= k) => k = i
    BY <1>13, <2>1
  <2>3. QED
    BY <1>13, <2>2
<1>15. Extracted(other) = ImageSize(p)
  <2>1. Extracted(other) = Byte(other[1 + i]) - Tag
    BY <1>14 DEF Extracted
  <2>2. other[1 + i] = p + 1
    BY <1>4, <1>12
  <2>3. QED
    BY <1>7, <2>1, <2>2 DEF Byte, ImageSize
<1>16. QED
  BY <1>9, <1>10, <1>11, <1>15

-----------------------------------------------------------------------------
\* The frames are the stream's.
LEMMA FramesStay ==
  ASSUME stream' = stream
  PROVE  /\ Headers' = Headers
         /\ \A p : ImageSize(p)' = ImageSize(p) /\ LastPlace(p)' = LastPlace(p) /\ Jpeg(p)' = Jpeg(p)
BY DEF Headers, ImageSize, LastPlace, Jpeg

LEMMA JpegIs ==
  ASSUME ConnectorTypeOK, NEW p \in Headers
  PROVE  /\ Jpeg(p) \in Seq(0 .. Len(stream)) /\ Len(Jpeg(p)) = ImageSize(p)
         /\ \A k \in 1 .. ImageSize(p) : Jpeg(p)[k] = p + 1 + k
<1>1. /\ p \in Nat /\ ImageSize(p) \in Nat
      /\ LastPlace(p) = p + 1 + ImageSize(p) /\ LastPlace(p) <= Len(stream)
      /\ stream \in Seq(Nat)
  BY FrameIs, ConnectorAssumption DEF ConnectorTypeOK, WellFramed
<1>2. Jpeg(p) = [k \in 1 .. ImageSize(p) |-> p + 1 + k]
  BY DEF Jpeg, ImageSize
<1>3. \A k \in 1 .. ImageSize(p) : p + 1 + k \in 0 .. Len(stream)
  BY <1>1
<1>4. Jpeg(p) \in [1 .. ImageSize(p) -> 0 .. Len(stream)]
  BY <1>2, <1>3
<1>5. Jpeg(p) \in Seq(0 .. Len(stream)) /\ Len(Jpeg(p)) = ImageSize(p)
  <2>1. ImageSize(p) \in Nat
    BY <1>1
  <2>2. Jpeg(p) \in Seq(0 .. Len(stream))
    BY <1>4, <2>1, SeqDef
  <2>3. DOMAIN Jpeg(p) = 1 .. Len(Jpeg(p)) /\ Len(Jpeg(p)) \in Nat
    BY <2>2, LenProperties
  <2>4. QED
    BY <1>4, <2>1, <2>2, <2>3
<1>6. QED
  BY <1>2, <1>5

\* The steps of the connection before it is read, and those that only end it.
LEMMA QuietKeeps ==
  ASSUME DecoderInv, UNCHANGED <<stream, taken, readBytes, length, torn, scanVars>>,
         pc' \in Phases, interrupted' \in BOOLEAN,
         pc' \in {"new", "located", "connected", "asked"} =>
           pc \in {"new", "located", "connected", "asked"},
         pc' \notin {"decoding", "ended"} => pc \notin {"decoding", "ended"}
  PROVE  DecoderInv'
<1> USE DEF DecoderInv, scanVars
<1>1. stream' = stream /\ Before' = Before /\ Here' = Here
  BY DEF Before, Here
<1>2. /\ Headers' = Headers
      /\ \A p : ImageSize(p)' = ImageSize(p) /\ LastPlace(p)' = LastPlace(p) /\ Jpeg(p)' = Jpeg(p)
  BY <1>1, FramesStay
<1>3. ConnectorTypeOK'
  BY <1>2 DEF ConnectorTypeOK
<1>4. Untouched'
  BY DEF Untouched
<1>5. BufferInv'
  BY <1>1, <1>2 DEF BufferInv
<1>6. TextInv'
  BY <1>1, <1>2 DEF TextInv, TextInOrder, HeadersInText
<1>7. ImageInv'
  BY <1>1, <1>2 DEF ImageInv, Growing, Complete, Stuck
<1>8. PushedInv'
  BY <1>1, <1>2 DEF PushedInv
<1>9. LostInv'
  BY <1>1, <1>2 DEF LostInv
<1>10. QED
  BY <1>3, <1>4, <1>5, <1>6, <1>7, <1>8, <1>9

LEMMA InitKeeps == ConnectorInit => DecoderInv
<1> SUFFICES ASSUME ConnectorInit PROVE DecoderInv
  OBVIOUS
<1> USE DEF ConnectorInit
<1>1. stream \in Seq(Nat) /\ BufferSize \in Nat
  BY ConnectorAssumption DEF WellFramed
<1>2. ConnectorTypeOK
  <2>1. Len(stream) \in Nat /\ taken \in 0 .. Len(stream) /\ length \in 0 .. BufferSize
    BY <1>1
  <2>2. readBytes \in [1 .. BufferSize -> 0 .. Len(stream)]
    BY <2>1
  <2>3. cur \in 1 .. length + 1 /\ prev \in 0 .. BufferSize /\ pc \in Phases
    BY <1>1 DEF Phases
  <2>4. other \in Seq(1 .. Len(stream)) /\ image \in Seq(0 .. Len(stream))
    OBVIOUS
  <2>5. pushed \in Seq(Seq(0 .. Len(stream)))
    OBVIOUS
  <2>6. QED
    BY <2>1, <2>2, <2>3, <2>4, <2>5 DEF ConnectorTypeOK
<1>3. \A p \in Headers : p \in Nat /\ 0 < p
  BY <1>2, FrameIs
<1>4. Before = 0 /\ Here = 1
  BY DEF Before, Here
<1>5. Untouched
  BY DEF Untouched
<1>6. BufferInv
  BY <1>3, <1>4 DEF BufferInv
<1>7. TextInv
  BY DEF TextInv
<1>8. ImageInv /\ PushedInv
  BY DEF ImageInv, PushedInv
<1>9. LostInv
  BY <1>3, <1>4 DEF LostInv
<1>10. QED
  BY <1>2, <1>5, <1>6, <1>7, <1>8, <1>9 DEF DecoderInv

\* The frames whose start the header's buffer took are torn.
LEMMA HeaderKeeps ==
  ASSUME DecoderInv, ProcessHttpHeader
  PROVE  DecoderInv'
<1>1. CASE Refuse
  <2>1. pc' = "refused" /\ pc = "asked" /\ UNCHANGED <<taken, torn>> /\ Unread
    BY <1>1 DEF ProcessHttpHeader, Refuse
  <2>2. QED
    BY <2>1, QuietKeeps DEF Unread, scanVars, Phases, DecoderInv, ConnectorTypeOK
<1>2. CASE /\ pc' = "initialised" /\ taken' \in 0 .. MaxAhead /\ taken' <= Len(stream)
           /\ torn' = UNION {TornAt(place) : place \in 1 .. taken'}
  <2>1. /\ ConnectorTypeOK /\ Untouched /\ pc = "asked"
        /\ UNCHANGED <<stream, readBytes, length, scanVars, interrupted>>
    BY DEF DecoderInv, ProcessHttpHeader, Unread
  <2>2. /\ length' = 0 /\ cur' = 1 /\ other' = <<>> /\ image' = <<>>
        /\ contentLength' = 0 /\ pushed' = <<>>
    BY <2>1 DEF Untouched, scanVars
  <2>3. stream \in Seq(Nat) /\ taken' \in Nat /\ taken' \in 0 .. Len(stream)
    BY <1>2, <2>1, ConnectorAssumption DEF ConnectorTypeOK, WellFramed
  <2>4. Before' = taken' /\ Here' = taken' + 1
    <3>1. PICK t \in Nat : taken' = t
      BY <2>3
    <3>2. length' = 0 /\ cur' = 1
      BY <2>2
    <3>3. QED
      BY <3>1, <3>2 DEF Before, Here
  <2>5. Headers' = Headers
    BY <2>1, FramesStay
  <2>6. \A p \in Headers : p \in Nat /\ 0 < p
    BY <2>1, FrameIs
  <2>7. \A p \in Headers : p <= taken' => p \in torn'
    <3>1. SUFFICES ASSUME NEW p \in Headers, p <= taken' PROVE p \in torn'
      OBVIOUS
    <3>2. p \in 1 .. taken' /\ p \in TornAt(p)
      BY <2>3, <2>6, <3>1 DEF TornAt
    <3>3. QED
      BY <1>2, <3>2
  <2>8. torn' \subseteq Headers
    BY <1>2 DEF TornAt
  <2>9. ConnectorTypeOK'
    BY <1>2, <2>1, <2>3, <2>5, <2>8 DEF ConnectorTypeOK, scanVars, Phases
  <2>10. Untouched'
    BY <1>2, <2>2 DEF Untouched
  <2>11. BufferInv'
    BY <2>2, <2>3, <2>4, <2>5, <2>6, <2>7 DEF BufferInv
  <2>12. TextInv' /\ ImageInv' /\ PushedInv'
    BY <2>2 DEF TextInv, ImageInv, PushedInv
  <2>13. LostInv'
    BY <2>3, <2>4, <2>5, <2>6, <2>7 DEF LostInv
  <2>14. QED
    BY <2>9, <2>10, <2>11, <2>12, <2>13 DEF DecoderInv
<1>3. QED
  BY <1>1, <1>2 DEF ProcessHttpHeader

\* A read goes on where the last one ended, so the loop's place stays.
LEMMA ReadKeeps ==
  ASSUME DecoderInv, Read
  PROVE  DecoderInv'
<1>1. /\ ConnectorTypeOK /\ BufferInv /\ ImageInv /\ PushedInv /\ LostInv
      /\ pc = "decoding" /\ cur > length /\ cur' = 1 /\ other' = <<>>
      /\ UNCHANGED <<stream, pc, prev, image, contentLength, pushed, interrupted>>
  BY DEF Read, DecoderInv
<1>2. PICK n \in 1 .. BufferSize :
        /\ taken + n <= Len(stream)
        /\ readBytes' = [k \in 1 .. BufferSize |-> IF k <= n THEN taken + k ELSE readBytes[k]]
        /\ length' = n /\ taken' = taken + n /\ torn' = torn \cup TornAt(taken + n)
  BY DEF Read
<1>3. /\ stream \in Seq(Nat) /\ Len(stream) \in Nat /\ BufferSize \in Nat /\ taken \in Nat
      /\ length \in Nat /\ cur = length + 1 /\ n \in Nat /\ 0 < n
  BY <1>1, <1>2, ConnectorAssumption DEF ConnectorTypeOK, WellFramed
<1>4. Before' = taken /\ Here' = taken + 1 /\ Here = taken + 1
  BY <1>1, <1>2, <1>3 DEF Before, Here
<1>5. /\ Headers' = Headers
      /\ \A p : ImageSize(p)' = ImageSize(p) /\ LastPlace(p)' = LastPlace(p) /\ Jpeg(p)' = Jpeg(p)
  BY <1>1, FramesStay
<1>6. ConnectorTypeOK'
  <2>1. readBytes' \in [1 .. BufferSize -> 0 .. Len(stream)]
    <3>1. \A k \in 1 .. BufferSize : (IF k <= n THEN taken + k ELSE readBytes[k]) \in 0 .. Len(stream)
      BY <1>1, <1>2, <1>3 DEF ConnectorTypeOK
    <3>2. QED
      BY <1>2, <3>1
  <2>2. taken' \in 0 .. Len(stream) /\ length' \in 0 .. BufferSize /\ cur' \in 1 .. length' + 1
    BY <1>1, <1>2, <1>3
  <2>3. torn' \subseteq Headers'
    BY <1>1, <1>2, <1>5 DEF TornAt, ConnectorTypeOK
  <2>4. other' \in Seq(1 .. Len(stream)')
    BY <1>1
  <2>5. QED
    BY <1>1, <2>1, <2>2, <2>3, <2>4 DEF ConnectorTypeOK
<1>7. Untouched'
  BY <1>1 DEF Untouched
<1>8. BufferInv'
  <2>1. length' <= taken'
    BY <1>2, <1>3
  <2>2. \A k \in 1 .. length' : readBytes'[k] = Before' + k
    BY <1>2, <1>3, <1>4
  <2>3. ASSUME NEW p \in Headers, taken \in p .. p + 2 \/ taken' \in p .. p + 2 PROVE p \in torn'
    BY <1>1, <1>2, <2>3 DEF BufferInv, TornAt
  <2>4. QED
    BY <1>4, <1>5, <2>1, <2>2, <2>3 DEF BufferInv
<1>9. TextInv'
  <2>1. TextInOrder'
    BY <1>1 DEF TextInOrder
  <2>2. \A p \in Headers : p \in Nat
    BY <1>1, FrameIs
  <2>3. HeadersInText'
    BY <1>3, <1>4, <1>5, <2>2 DEF HeadersInText
  <2>4. QED
    BY <2>1, <2>3 DEF TextInv
<1>10. ImageInv'
  <2>1. SUFFICES ASSUME image # <<>> PROVE ImageInv'
    BY <1>1 DEF ImageInv
  <2>2. PICK p \in Headers :
          /\ Len(image) \in 2 .. ImageSize(p) /\ \A k \in 1 .. Len(image) : image[k] = p + 1 + k
          /\ \A k \in DOMAIN pushed : pushed[k][1] < p + 2
          /\ Growing(p) \/ Complete(p) \/ Stuck
    BY <1>1, <2>1 DEF ImageInv
  <2>3. Growing(p) \/ Complete(p)
    BY <1>1, <1>3, <2>2 DEF Stuck
  <2>4. Growing(p)' \/ Complete(p)'
    BY <1>1, <1>4, <1>5, <2>3 DEF Growing, Complete
  <2>5. QED
    BY <1>1, <1>5, <2>2, <2>4 DEF ImageInv
<1>11. PushedInv'
  BY <1>1, <1>4, <1>5 DEF PushedInv
<1>12. LostInv'
  BY <1>1, <1>2, <1>4, <1>5 DEF LostInv
<1>13. QED
  BY <1>6, <1>7, <1>8, <1>9, <1>10, <1>11, <1>12 DEF DecoderInv

-----------------------------------------------------------------------------
\* What no turn of the loop changes.
LEMMA ScanStays ==
  ASSUME DecoderInv, Scanning, UNCHANGED readVars
  PROVE  /\ Untouched' /\ BufferInv' /\ Before' = Before /\ Headers' = Headers
         /\ \A p : ImageSize(p)' = ImageSize(p) /\ LastPlace(p)' = LastPlace(p) /\ Jpeg(p)' = Jpeg(p)
         /\ stream' = stream /\ length' = length /\ torn' = torn
<1> USE DEF readVars
<1>1. stream' = stream /\ length' = length /\ torn' = torn /\ Before' = Before
  BY DEF Before
<1>2. /\ Headers' = Headers
      /\ \A p : ImageSize(p)' = ImageSize(p) /\ LastPlace(p)' = LastPlace(p) /\ Jpeg(p)' = Jpeg(p)
  BY <1>1, FramesStay
<1>3. Untouched'
  BY DEF Scanning, Untouched
<1>4. BufferInv'
  BY <1>1, <1>2 DEF DecoderInv, BufferInv
<1>5. QED
  BY <1>1, <1>2, <1>3, <1>4

LEMMA ScanTypes ==
  ASSUME DecoderInv, Scanning
  PROVE  /\ ConnectorTypeOK /\ BufferInv /\ TextInOrder /\ HeadersInText
         /\ ImageInv /\ PushedInv /\ LostInv
         /\ Before \in Nat /\ length \in Nat /\ length <= BufferSize /\ BufferSize \in Nat
         /\ cur \in Nat /\ 0 < cur /\ cur <= length
         /\ Here = Before + cur /\ Here \in 1 .. Len(stream)
         /\ readBytes[cur] = Here /\ Byte(readBytes[cur]) = stream[Here]
         /\ stream \in Seq(Nat) /\ Len(stream) \in Nat
         /\ other \in Seq(1 .. Len(stream)) /\ Len(other) \in Nat /\ DOMAIN other = 1 .. Len(other)
         /\ image \in Seq(0 .. Len(stream)) /\ Len(image) \in Nat
         /\ pushed \in Seq(Seq(0 .. Len(stream))) /\ Len(pushed) \in Nat
         /\ DOMAIN pushed = 1 .. Len(pushed)
<1>1. /\ ConnectorTypeOK /\ BufferInv /\ TextInOrder /\ HeadersInText
      /\ ImageInv /\ PushedInv /\ LostInv /\ cur <= length
  BY DEF DecoderInv, TextInv, Scanning
<1>2. /\ length \in Nat /\ length <= BufferSize /\ BufferSize \in Nat /\ cur \in Nat /\ 0 < cur
      /\ taken \in Nat
  BY <1>1, ConnectorAssumption DEF ConnectorTypeOK
<1>3. Before \in Nat /\ Here = Before + cur
  BY <1>1, <1>2 DEF BufferInv, Before, Here
<1>4. Here \in 1 .. Len(stream) /\ readBytes[cur] = Here /\ Byte(readBytes[cur]) = stream[Here]
  <2>1. cur \in 1 .. length
    BY <1>1, <1>2
  <2>2. QED
    BY <1>1, <1>3, <2>1, AtByte
<1>5. stream \in Seq(Nat) /\ Len(stream) \in Nat
  BY <1>1, ConnectorAssumption DEF ConnectorTypeOK, WellFramed
<1>6. /\ other \in Seq(1 .. Len(stream)) /\ image \in Seq(0 .. Len(stream))
      /\ pushed \in Seq(Seq(0 .. Len(stream)))
  BY <1>1 DEF ConnectorTypeOK
<1>7. Len(other) \in Nat /\ DOMAIN other = 1 .. Len(other) /\ Len(image) \in Nat
  BY <1>6
<1>8. Len(pushed) \in Nat /\ DOMAIN pushed = 1 .. Len(pushed)
  BY <1>6, LenProperties
<1>9. QED
  BY <1>1, <1>2, <1>3, <1>4, <1>5, <1>6, <1>7, <1>8

\* The types of what the loop changes.
LEMMA ScanTyped ==
  ASSUME DecoderInv, Scanning, UNCHANGED <<readVars, interrupted>>,
         cur' \in 1 .. length + 1, prev' = cur, other' \in Seq(1 .. Len(stream)),
         image' \in Seq(0 .. Len(stream)), contentLength' \in Nat,
         pushed' \in Seq(Seq(0 .. Len(stream)))
  PROVE  ConnectorTypeOK'
<1>1. Headers' = Headers /\ stream' = stream /\ length' = length
  BY ScanStays
<1>2. prev' \in 0 .. BufferSize
  BY ScanTypes
<1>3. ConnectorTypeOK
  BY ScanTypes
<1>4. /\ stream' \in Transmissions /\ taken' \in 0 .. Len(stream') /\ pc' \in Phases
      /\ interrupted' \in BOOLEAN /\ readBytes' \in [1 .. BufferSize -> 0 .. Len(stream')]
      /\ length' \in 0 .. BufferSize /\ torn' \subseteq Headers'
  BY <1>1, <1>3 DEF ConnectorTypeOK, readVars
<1>5. QED
  BY <1>1, <1>2, <1>4 DEF ConnectorTypeOK

\* A text byte: no header's marker, for that would be seen.
LEMMA OtherKeeps ==
  ASSUME DecoderInv, OtherByte
  PROVE  DecoderInv'
<1>1. Scanning /\ UNCHANGED <<readVars, interrupted>>
  BY DEF OtherByte
<1>2. /\ ~ AtMarker /\ image = <<>> /\ other' = Append(other, Here) /\ cur' = cur + 1 /\ prev' = cur
      /\ UNCHANGED <<image, contentLength, pushed>>
  BY <1>1, ScanTypes DEF OtherByte
<1> DEFINE F == /\ Before \in Nat /\ cur \in Nat /\ 0 < cur /\ cur <= length /\ length \in Nat
                /\ Here = Before + cur /\ Here \in 1 .. Len(stream)
                /\ other \in Seq(1 .. Len(stream)) /\ Len(other) \in Nat /\ DOMAIN other = 1 .. Len(other)
<1>3. F
  BY <1>1, ScanTypes
<1>4. Untouched' /\ BufferInv' /\ Before' = Before /\ Headers' = Headers /\ stream' = stream
      /\ torn' = torn /\ length' = length
      /\ \A p : LastPlace(p)' = LastPlace(p) /\ Jpeg(p)' = Jpeg(p)
  BY <1>1, ScanStays
<1>5. Here' = Here + 1
  BY <1>2, <1>3, <1>4 DEF Here
<1>6. /\ other' \in Seq(1 .. Len(stream)) /\ Len(other') = Len(other) + 1
      /\ DOMAIN other' = 1 .. Len(other) + 1
      /\ \A k \in 1 .. Len(other) : other'[k] = other[k]
      /\ other'[Len(other) + 1] = Here
  BY <1>2, <1>3, AppendProperties
<1>7. \A p \in Headers : /\ p \in Nat /\ LastPlace(p) \in Nat
                         /\ ~ (Before < p /\ Here = p + 3)
  <2>1. ConnectorTypeOK
    BY <1>1, ScanTypes
  <2>2. QED
    BY <1>1, <1>2, <2>1, FrameIs, LengthIsThere
<1>8. ConnectorTypeOK'
  <2>1. cur' \in 1 .. length + 1
    BY <1>2, <1>3
  <2>2. ConnectorTypeOK
    BY <1>1, ScanTypes
  <2>3. image' \in Seq(0 .. Len(stream)) /\ contentLength' \in Nat
    BY <1>2, <2>2 DEF ConnectorTypeOK
  <2>4. pushed' \in Seq(Seq(0 .. Len(stream)))
    BY <1>2, <2>2 DEF ConnectorTypeOK
  <2>5. QED
    BY <1>1, <1>2, <1>6, <2>1, <2>3, <2>4, ScanTyped
<1>9. TextInOrder'
  <2>1. TextInOrder
    BY <1>1, ScanTypes
  <2>2. ASSUME NEW k \in DOMAIN other' PROVE Before < other'[k] /\ other'[k] < Here'
    <3>1. CASE k \in DOMAIN other
      <4>1. Before < other[k] /\ other[k] < Here /\ other'[k] = other[k]
        BY <1>3, <1>6, <2>1, <3>1 DEF TextInOrder
      <4>2. other[k] \in Nat
        BY <1>3, <3>1, ElementOfSeq
      <4>3. QED
        BY <1>3, <1>5, <4>1, <4>2
    <3>2. CASE k = Len(other) + 1
      BY <1>3, <1>5, <1>6, <3>2
    <3>3. QED
      BY <1>3, <1>6, <2>2, <3>1, <3>2
  <2>3. ASSUME NEW j \in DOMAIN other', NEW k \in DOMAIN other', j < k PROVE other'[j] < other'[k]
    <3>1. CASE k \in DOMAIN other
      <4>1. j \in DOMAIN other
        BY <1>3, <1>6, <2>3, <3>1
      <4>2. QED
        BY <1>3, <1>6, <2>1, <2>3, <3>1, <4>1 DEF TextInOrder
    <3>2. CASE k = Len(other) + 1
      <4>1. j \in DOMAIN other
        BY <1>3, <1>6, <2>3, <3>2
      <4>2. QED
        BY <1>3, <1>6, <2>1, <3>2, <4>1 DEF TextInOrder
    <3>3. QED
      BY <1>3, <1>6, <2>3, <3>1, <3>2
  <2>4. ASSUME NEW k \in DOMAIN other', stream'[other'[k]] = Tag
        PROVE  /\ k + 1 \in DOMAIN other' => other'[k + 1] = other'[k] + 1
               /\ k = Len(other') => Here' = other'[k] + 1
    <3>1. CASE k \in DOMAIN other
      <4>1. /\ other'[k] = other[k]
            /\ k + 1 \in DOMAIN other => other[k + 1] = other[k] + 1
            /\ k = Len(other) => Here = other[k] + 1
        BY <1>3, <1>4, <1>6, <2>1, <2>4, <3>1 DEF TextInOrder
      <4>2. k \in Nat /\ k <= Len(other) /\ k # Len(other')
        BY <1>3, <1>6, <3>1
      <4>3. CASE k = Len(other)
        BY <1>6, <4>1, <4>2, <4>3
      <4>4. CASE k # Len(other)
        <5>1. k + 1 \in DOMAIN other
          BY <1>3, <4>2, <4>4, <3>1
        <5>2. other'[k + 1] = other[k + 1]
          BY <1>3, <1>6, <5>1
        <5>3. QED
          BY <4>1, <4>2, <5>1, <5>2
      <4>5. QED
        BY <4>3, <4>4
    <3>2. CASE k = Len(other) + 1
      BY <1>3, <1>5, <1>6, <3>2
    <3>3. QED
      BY <1>3, <1>6, <2>4, <3>1, <3>2
  <2>5. QED
    BY <1>4, <2>2, <2>3, <2>4 DEF TextInOrder
<1>10. HeadersInText'
  <2>1. HeadersInText
    BY <1>1, ScanTypes
  <2>2. \A x \in ToSet(other) : x \in ToSet(other')
    BY <1>3, <1>6 DEF ToSet
  <2>3. Here \in ToSet(other')
    BY <1>3, <1>6 DEF ToSet
  <2>4. ASSUME NEW p \in Headers, Before < p, p < Here'
        PROVE  p \in ToSet(other') /\ Here' \notin p + 4 .. LastPlace(p)
    <3>1. CASE p < Here
      <4>1. p \in ToSet(other) /\ Here \notin p + 4 .. LastPlace(p)
        BY <2>1, <2>4, <3>1 DEF HeadersInText
      <4>2. QED
        BY <1>3, <1>5, <1>7, <2>2, <2>4, <4>1
    <3>2. CASE p = Here
      BY <1>3, <1>5, <2>3, <3>2
    <3>3. QED
      BY <1>3, <1>5, <1>7, <2>4, <3>1, <3>2
  <2>5. prev' = cur' - 1 /\ image' = <<>>
    BY <1>2, <1>3
  <2>6. QED
    BY <1>4, <2>4, <2>5 DEF HeadersInText
<1>11. ImageInv'
  BY <1>2 DEF ImageInv
<1>12. PushedInv'
  <2>1. PushedInv
    BY <1>1, ScanTypes
  <2>2. QED
    BY <1>2, <1>3, <1>4, <1>5, <1>7, <2>1 DEF PushedInv
<1>13. LostInv'
  <2>1. LostInv /\ BufferInv
    BY <1>1, ScanTypes
  <2>2. ASSUME NEW p \in Headers \ torn
        PROVE  Here' <= p + 3 \/ Jpeg(p) \in ToSet(pushed)
    <3>1. Here <= p + 3 \/ Jpeg(p) \in ToSet(pushed)
      BY <1>2, <2>1 DEF LostInv
    <3>2. Here # p + 3
      <4>1. ~ (Before < p /\ Here = p + 3) /\ p \in Nat
        BY <1>7
      <4>2. Before \notin p .. p + 2
        BY <2>1 DEF BufferInv
      <4>3. QED
        BY <1>3, <4>1, <4>2
    <3>3. QED
      BY <1>3, <1>5, <1>7, <3>1, <3>2
  <2>3. QED
    BY <1>2, <1>4, <2>2 DEF LostInv
<1>14. QED
  BY <1>4, <1>8, <1>9, <1>10, <1>11, <1>12, <1>13 DEF DecoderInv, TextInv

-----------------------------------------------------------------------------
\* Where an image comes from.
LEMMA ImageIs ==
  ASSUME DecoderInv, Scanning, image # <<>>
  PROVE  \E p \in Headers :
           /\ p \in Nat /\ ImageSize(p) \in Nat /\ 4 <= ImageSize(p)
           /\ LastPlace(p) = p + 1 + ImageSize(p)
           /\ Len(image) \in 2 .. ImageSize(p) /\ \A k \in 1 .. Len(image) : image[k] = p + 1 + k
           /\ \A k \in DOMAIN pushed : pushed[k][1] < p + 2
           /\ Growing(p) \/ Complete(p) \/ Stuck
           /\ Len(image) < contentLength => Growing(p)
           /\ Len(image) = contentLength => Complete(p)
<1>1. ConnectorTypeOK /\ ImageInv /\ Len(image) \in Nat
  BY ScanTypes
<1>2. PICK p \in Headers :
        /\ Len(image) \in 2 .. ImageSize(p) /\ \A k \in 1 .. Len(image) : image[k] = p + 1 + k
        /\ \A k \in DOMAIN pushed : pushed[k][1] < p + 2
        /\ Growing(p) \/ Complete(p) \/ Stuck
  BY <1>1 DEF ImageInv
<1>3. p \in Nat /\ ImageSize(p) \in Nat /\ 4 <= ImageSize(p) /\ LastPlace(p) = p + 1 + ImageSize(p)
  BY <1>1, FrameIs
<1>4. (Len(image) < contentLength => Growing(p)) /\ (Len(image) = contentLength => Complete(p))
  BY <1>1, <1>2, <1>3 DEF Growing, Complete, Stuck
<1>5. QED
  BY <1>2, <1>3, <1>4

\* When the loop stays at its byte, so does the text, but for a marker.
LEMMA TextStays ==
  ASSUME DecoderInv, Scanning, UNCHANGED readVars, cur' = cur, other' = other,
         \A p \in Headers : ~ (Before < p /\ Here = p + 3)
  PROVE  TextInv' /\ Here' = Here
<1>1. Headers' = Headers /\ stream' = stream /\ Before' = Before /\ \A p : LastPlace(p)' = LastPlace(p)
  BY ScanStays
<1>2. Here' = Here
  BY <1>1 DEF Here
<1>3. TextInOrder /\ HeadersInText
  BY ScanTypes
<1>4. TextInOrder'
  BY <1>1, <1>2, <1>3 DEF TextInOrder
<1>5. HeadersInText'
  BY <1>1, <1>2, <1>3 DEF HeadersInText
<1>6. QED
  BY <1>2, <1>4, <1>5 DEF TextInv

LEMMA SpinKeeps ==
  ASSUME DecoderInv, Spin
  PROVE  DecoderInv'
<1>1. /\ Scanning /\ image # <<>> /\ Len(image) > contentLength /\ prev' = cur
      /\ UNCHANGED <<readVars, cur, other, image, contentLength, pushed, interrupted>>
  BY DEF Spin, Spins
<1>2. /\ ConnectorTypeOK /\ PushedInv /\ cur \in 1 .. length + 1
  BY <1>1, ScanTypes DEF ConnectorTypeOK
<1>3. Untouched' /\ BufferInv' /\ Headers' = Headers /\ stream' = stream /\ length' = length
      /\ \A p : ImageSize(p)' = ImageSize(p) /\ Jpeg(p)' = Jpeg(p)
  BY <1>1, ScanStays
<1>4. ConnectorTypeOK'
  BY <1>1, <1>2, ScanTyped DEF ConnectorTypeOK
<1>5. TextInv' /\ Here' = Here
  BY <1>1, LengthIsThere, TextStays
<1>6. PICK p \in Headers :
        /\ Len(image) \in 2 .. ImageSize(p) /\ \A k \in 1 .. Len(image) : image[k] = p + 1 + k
        /\ \A k \in DOMAIN pushed : pushed[k][1] < p + 2
        /\ ImageSize(p) \in Nat
        /\ Growing(p) \/ Complete(p) \/ Stuck
  BY <1>1, ImageIs
<1>7. Stuck
  BY <1>1, <1>6, ScanTypes DEF Growing, Complete
<1>8. Stuck'
  BY <1>1, <1>3, <1>7 DEF Stuck
<1>9. ImageInv'
  BY <1>1, <1>3, <1>6, <1>8 DEF ImageInv
<1>10. PushedInv'
  BY <1>1, <1>2, <1>3, <1>5 DEF PushedInv
<1>11. LostInv'
  BY <1>1, <1>8 DEF LostInv, Stuck
<1>12. QED
  BY <1>3, <1>4, <1>5, <1>9, <1>10, <1>11 DEF DecoderInv

\* What is whole ends as a JPEG does, and is pushed.
LEMMA EndKeeps ==
  ASSUME DecoderInv, EndOfImage
  PROVE  DecoderInv'
<1>1. /\ Scanning /\ image # <<>> /\ Len(image) = contentLength /\ prev' = cur /\ image' = <<>>
      /\ pushed' = IF EndsJpeg(image) THEN Append(pushed, image) ELSE pushed
      /\ UNCHANGED <<readVars, cur, other, contentLength, interrupted>>
  BY DEF EndOfImage
<1>2. /\ ConnectorTypeOK /\ PushedInv /\ LostInv
      /\ image \in Seq(0 .. Len(stream)) /\ Len(image) \in Nat
      /\ pushed \in Seq(Seq(0 .. Len(stream))) /\ Len(pushed) \in Nat
      /\ DOMAIN pushed = 1 .. Len(pushed)
  BY <1>1, ScanTypes
<1>3. Untouched' /\ BufferInv' /\ Headers' = Headers /\ stream' = stream /\ length' = length
      /\ torn' = torn /\ \A p : ImageSize(p)' = ImageSize(p) /\ Jpeg(p)' = Jpeg(p)
  BY <1>1, ScanStays
<1>4. PICK p \in Headers :
        /\ p \in Nat /\ ImageSize(p) \in Nat /\ 4 <= ImageSize(p)
        /\ LastPlace(p) = p + 1 + ImageSize(p)
        /\ \A k \in 1 .. Len(image) : image[k] = p + 1 + k
        /\ \A k \in DOMAIN pushed : pushed[k][1] < p + 2
        /\ Complete(p)
  BY <1>1, ImageIs
<1>5. Len(image) = ImageSize(p) /\ contentLength = ImageSize(p) /\ p + 4 <= Here
  BY <1>4 DEF Complete
<1>6. /\ Jpeg(p) \in Seq(0 .. Len(stream)) /\ Len(Jpeg(p)) = ImageSize(p)
      /\ \A k \in 1 .. ImageSize(p) : Jpeg(p)[k] = p + 1 + k
  BY <1>2, JpegIs
<1>7. image = Jpeg(p)
  BY <1>2, <1>4, <1>5, <1>6, SeqEqual
<1>8. EndsJpeg(image)
  <2>1. image[ImageSize(p)] = LastPlace(p) /\ image[ImageSize(p) - 1] = LastPlace(p) - 1
    BY <1>4, <1>5
  <2>2. stream[LastPlace(p) - 1] = 255 /\ stream[LastPlace(p)] = 217
    BY <1>2, FrameIs
  <2>3. LastPlace(p) # 0 /\ LastPlace(p) - 1 # 0
    BY <1>4
  <2>4. QED
    BY <1>5, <2>1, <2>2, <2>3 DEF EndsJpeg, Byte
<1>9. /\ pushed' = Append(pushed, Jpeg(p)) /\ pushed' \in Seq(Seq(0 .. Len(stream)))
      /\ DOMAIN pushed' = 1 .. Len(pushed) + 1
      /\ \A k \in 1 .. Len(pushed) : pushed'[k] = pushed[k]
      /\ pushed'[Len(pushed) + 1] = Jpeg(p)
  <2>1. pushed' = Append(pushed, Jpeg(p))
    BY <1>1, <1>7, <1>8
  <2>2. QED
    BY <1>2, <1>6, <2>1, AppendProperties
<1>10. ConnectorTypeOK'
  <2>1. /\ cur' \in 1 .. length + 1 /\ other' \in Seq(1 .. Len(stream)) /\ contentLength' \in Nat
    BY <1>1, <1>2 DEF ConnectorTypeOK
  <2>2. image' \in Seq(0 .. Len(stream))
    BY <1>1
  <2>3. QED
    BY <1>1, <1>9, <2>1, <2>2, ScanTyped
<1>11. TextInv' /\ Here' = Here
  BY <1>1, LengthIsThere, TextStays
<1>12. ImageInv'
  BY <1>1 DEF ImageInv
<1>13. PushedInv'
  <2>1. ASSUME NEW k \in DOMAIN pushed' PROVE \E q \in Headers : pushed'[k] = Jpeg(q) /\ q + 4 <= Here
    <3>1. CASE k \in DOMAIN pushed
      BY <1>2, <1>9, <3>1 DEF PushedInv
    <3>2. CASE k = Len(pushed) + 1
      BY <1>5, <1>9, <3>2
    <3>3. QED
      BY <1>2, <1>9, <2>1, <3>1, <3>2
  <2>2. ASSUME NEW j \in DOMAIN pushed', NEW k \in DOMAIN pushed', j < k
        PROVE  pushed'[j][1] < pushed'[k][1]
    <3>1. j \in DOMAIN pushed /\ pushed'[j] = pushed[j]
      BY <1>2, <1>9, <2>2
    <3>2. CASE k \in DOMAIN pushed
      BY <1>2, <1>9, <2>2, <3>1, <3>2 DEF PushedInv
    <3>3. CASE k = Len(pushed) + 1
      <4>1. pushed'[k][1] = p + 2
        BY <1>4, <1>6, <1>9, <3>3
      <4>2. QED
        BY <1>4, <3>1, <4>1
    <3>4. QED
      BY <1>2, <1>9, <2>2, <3>2, <3>3
  <2>3. QED
    BY <1>3, <1>11, <2>1, <2>2 DEF PushedInv
<1>14. LostInv'
  <2>1. ASSUME NEW q \in Headers \ torn PROVE Here <= q + 3 \/ Jpeg(q) \in ToSet(pushed')
    <3>1. contentLength # 0
      BY <1>4, <1>5
    <3>2. CASE Here <= q + 3
      BY <3>2
    <3>3. CASE image[1] = q + 2
      <4>1. q \in Nat /\ image[1] = p + 2
        BY <1>2, <1>4, <1>5, FrameIs
      <4>2. q = p
        BY <1>4, <3>3, <4>1
      <4>3. Len(pushed) + 1 \in DOMAIN pushed'
        BY <1>2, <1>9
      <4>4. QED
        BY <1>9, <4>2, <4>3 DEF ToSet
    <3>4. CASE Jpeg(q) \in ToSet(pushed)
      <4>1. PICK k \in DOMAIN pushed : pushed[k] = Jpeg(q)
        BY <3>4 DEF ToSet
      <4>2. k \in DOMAIN pushed' /\ pushed'[k] = Jpeg(q)
        BY <1>2, <1>9, <4>1
      <4>3. QED
        BY <4>2 DEF ToSet
    <3>5. QED
      BY <1>2, <3>1, <3>2, <3>3, <3>4 DEF LostInv
  <2>2. QED
    BY <1>3, <1>11, <2>1 DEF LostInv
<1>15. QED
  BY <1>3, <1>10, <1>11, <1>12, <1>13, <1>14 DEF DecoderInv

-----------------------------------------------------------------------------
\* The rest of an image, as much of it as this buffer has.
LEMMA RestIs ==
  ASSUME DecoderInv, RestOfImage
  PROVE  \E p \in Headers :
           /\ p \in Nat /\ ImageSize(p) \in Nat /\ 4 <= ImageSize(p)
           /\ LastPlace(p) = p + 1 + ImageSize(p)
           /\ 2 <= Len(image) /\ image[1] = p + 2 /\ Growing(p) /\ cur = 1 /\ other = <<>>
           /\ \A k \in DOMAIN pushed : pushed[k][1] < p + 2
           /\ image' \in Seq(0 .. Len(stream)) /\ Len(image') \in 2 .. ImageSize(p)
           /\ \A k \in 1 .. Len(image') : image'[k] = p + 1 + k
           /\ \/ cur' = length + 1 /\ Len(image') = Len(image) + length
              \/ cur' = cur /\ Len(image') = ImageSize(p)
<1>1. /\ Scanning /\ image # <<>> /\ Len(image) < contentLength
      /\ LET rest == contentLength - Len(image)
         IN IF Left <= rest
            THEN /\ image' = image \o SubSeq(readBytes, cur, length)
                 /\ cur' = length + 1
            ELSE /\ image' = image \o SubSeq(readBytes, cur, cur + rest - 1)
                 /\ UNCHANGED cur
  BY DEF RestOfImage
<1>2. /\ ConnectorTypeOK /\ BufferInv
      /\ Before \in Nat /\ length \in Nat /\ cur \in Nat /\ cur <= length
      /\ image \in Seq(0 .. Len(stream)) /\ Len(image) \in Nat /\ Here = Before + cur
  BY <1>1, ScanTypes
<1>3. PICK p \in Headers :
        /\ p \in Nat /\ ImageSize(p) \in Nat /\ 4 <= ImageSize(p)
        /\ LastPlace(p) = p + 1 + ImageSize(p)
        /\ Len(image) \in 2 .. ImageSize(p) /\ \A k \in 1 .. Len(image) : image[k] = p + 1 + k
        /\ \A k \in DOMAIN pushed : pushed[k][1] < p + 2
        /\ Growing(p)
  BY <1>1, ImageIs
<1>4. /\ contentLength = ImageSize(p) /\ Len(image) < ImageSize(p) /\ Here = p + 2 + Len(image)
      /\ cur = 1 /\ other = <<>>
  BY <1>2, <1>3 DEF Growing
<1> DEFINE rest == ImageSize(p) - Len(image)
           n == IF length <= rest THEN length ELSE rest
<1>5. /\ rest \in Nat /\ n \in Nat /\ n <= length /\ n <= rest /\ 0 < n
      /\ n = length \/ n = rest
  BY <1>2, <1>3, <1>4
<1>6. /\ image' = image \o SubSeq(readBytes, 1, n)
      /\ (cur' = length + 1 /\ n = length) \/ (cur' = cur /\ n = rest)
  <2>1. Left = length /\ contentLength - Len(image) = rest
    BY <1>2, <1>4 DEF Left
  <2>2. CASE length <= rest
    BY <1>1, <1>4, <2>1, <2>2
  <2>3. CASE ~ (length <= rest)
    <3>1. 1 + rest - 1 = rest
      BY <1>5
    <3>2. QED
      BY <1>1, <1>4, <2>1, <2>3, <3>1
  <2>4. QED
    BY <2>2, <2>3
<1> HIDE DEF n, rest
<1>7. /\ SubSeq(readBytes, 1, n) \in Seq(0 .. Len(stream)) /\ Len(SubSeq(readBytes, 1, n)) = n
      /\ \A k \in 1 .. n : SubSeq(readBytes, 1, n)[k] = Before + k
  <2>1. 1 \in 1 .. length /\ n \in 1 - 1 .. length
    BY <1>2, <1>4, <1>5
  <2>2. /\ SubSeq(readBytes, 1, n) \in Seq(0 .. Len(stream)) /\ Len(SubSeq(readBytes, 1, n)) = n - 1 + 1
        /\ \A k \in 1 .. n - 1 + 1 : SubSeq(readBytes, 1, n)[k] = Before + 1 + k - 1
    BY <1>2, <2>1, Copied
  <2>3. n - 1 + 1 = n /\ \A k \in 1 .. n : Before + 1 + k - 1 = Before + k
    BY <1>2, <1>5
  <2>4. QED
    BY <2>2, <2>3
<1>8. /\ image' \in Seq(0 .. Len(stream)) /\ Len(image') = Len(image) + n
      /\ \A k \in 1 .. Len(image) + n :
           image'[k] = IF k <= Len(image) THEN image[k] ELSE SubSeq(readBytes, 1, n)[k - Len(image)]
  BY <1>2, <1>6, <1>7, ConcatProperties
<1>9. ASSUME NEW k \in 1 .. Len(image') PROVE image'[k] = p + 1 + k
  <2>1. k \in 1 .. Len(image) + n
    BY <1>8
  <2>2. CASE k <= Len(image)
    <3>1. k \in 1 .. Len(image)
      BY <1>2, <2>1, <2>2
    <3>2. QED
      BY <1>3, <1>8, <2>1, <2>2, <3>1
  <2>3. CASE ~ (k <= Len(image))
    <3>1. k - Len(image) \in 1 .. n
      BY <1>2, <1>5, <2>1, <2>3
    <3>2. image'[k] = Before + (k - Len(image))
      BY <1>7, <1>8, <2>1, <2>3, <3>1
    <3>3. Before + 1 = p + 2 + Len(image) /\ k \in Nat
      BY <1>2, <1>4, <2>1
    <3>4. Before + (k - Len(image)) = p + 1 + k
      <4>1. Before \in Nat /\ Len(image) \in Nat /\ p \in Nat
        BY <1>2, <1>3
      <4>2. QED
        BY <3>3, <4>1
    <3>5. QED
      BY <3>2, <3>4
  <2>4. QED
    BY <2>2, <2>3
<1>10. Len(image') \in 2 .. ImageSize(p)
  <2>1. Len(image) + n <= ImageSize(p)
    BY <1>2, <1>3, <1>5 DEF rest
  <2>2. Len(image) + n \in 2 .. ImageSize(p)
    BY <1>2, <1>3, <1>5, <2>1
  <2>3. QED
    BY <1>8, <2>2
<1>11. \/ cur' = length + 1 /\ Len(image') = Len(image) + length
       \/ cur' = cur /\ Len(image') = ImageSize(p)
  <2>1. n = rest => Len(image) + n = ImageSize(p)
    BY <1>2, <1>3 DEF rest
  <2>2. QED
    BY <1>6, <1>8, <2>1
<1>12. 2 <= Len(image) /\ image[1] = p + 2
  <2>1. 1 \in 1 .. Len(image) /\ 2 <= Len(image)
    BY <1>3
  <2>2. QED
    BY <1>3, <2>1
<1>13. QED
  BY <1>3, <1>4, <1>8, <1>9, <1>10, <1>11, <1>12

LEMMA RestKeeps ==
  ASSUME DecoderInv, RestOfImage
  PROVE  DecoderInv'
<1>1. /\ Scanning /\ image # <<>> /\ prev' = cur
      /\ UNCHANGED <<readVars, other, contentLength, pushed, interrupted>>
  BY DEF RestOfImage
<1>2. /\ ConnectorTypeOK /\ PushedInv /\ LostInv /\ TextInOrder
      /\ Before \in Nat /\ length \in Nat /\ cur \in Nat /\ 0 < cur /\ cur <= length
      /\ Here = Before + cur /\ Len(image) \in Nat
  BY <1>1, ScanTypes
<1>3. Untouched' /\ BufferInv' /\ Headers' = Headers /\ stream' = stream /\ length' = length
      /\ Before' = Before /\ torn' = torn
      /\ \A p : ImageSize(p)' = ImageSize(p) /\ LastPlace(p)' = LastPlace(p) /\ Jpeg(p)' = Jpeg(p)
  BY <1>1, ScanStays
<1>4. PICK p \in Headers :
        /\ p \in Nat /\ ImageSize(p) \in Nat /\ 4 <= ImageSize(p)
        /\ LastPlace(p) = p + 1 + ImageSize(p)
        /\ 2 <= Len(image) /\ image[1] = p + 2 /\ Growing(p) /\ cur = 1 /\ other = <<>>
        /\ \A k \in DOMAIN pushed : pushed[k][1] < p + 2
        /\ image' \in Seq(0 .. Len(stream)) /\ Len(image') \in 2 .. ImageSize(p)
        /\ \A k \in 1 .. Len(image') : image'[k] = p + 1 + k
        /\ \/ cur' = length + 1 /\ Len(image') = Len(image) + length
           \/ cur' = cur /\ Len(image') = ImageSize(p)
  BY RestIs
<1>5. contentLength = ImageSize(p) /\ Len(image) < ImageSize(p) /\ Here = p + 2 + Len(image)
  BY <1>4 DEF Growing
<1>6. \/ cur' = length + 1 /\ Here' = p + 2 + Len(image')
      \/ cur' = 1 /\ Here' = Here /\ Len(image') = ImageSize(p)
  <2>1. Here' = Before + cur'
    BY <1>3 DEF Here
  <2>2. CASE cur' = length + 1 /\ Len(image') = Len(image) + length
    <3>1. Before + 1 = p + 2 + Len(image)
      BY <1>2, <1>4, <1>5
    <3>2. Before + (length + 1) = p + 2 + (Len(image) + length)
      <4>1. Before \in Nat /\ length \in Nat /\ Len(image) \in Nat /\ p \in Nat
        BY <1>2, <1>4
      <4>2. QED
        BY <3>1, <4>1
    <3>3. QED
      BY <2>1, <2>2, <3>2
  <2>3. CASE cur' = cur /\ Len(image') = ImageSize(p)
    BY <1>2, <1>4, <2>1, <2>3
  <2>4. QED
    BY <1>4, <2>2, <2>3
<1>7. ConnectorTypeOK'
  <2>1. /\ cur' \in 1 .. length + 1 /\ other' \in Seq(1 .. Len(stream)) /\ contentLength' \in Nat
        /\ pushed' \in Seq(Seq(0 .. Len(stream)))
    <3>1. cur' \in 1 .. length + 1
      <4>1. cur' = length + 1 \/ cur' = cur
        BY <1>4
      <4>2. QED
        BY <1>2, <4>1
    <3>2. QED
      BY <1>1, <1>2, <3>1 DEF ConnectorTypeOK
  <2>2. QED
    BY <1>1, <1>4, <2>1, ScanTyped
<1>8. TextInv'
  <2>1. SUFFICES ASSUME cur' <= length PROVE TextInOrder' /\ HeadersInText'
    BY <1>3 DEF TextInv
  <2>2. cur' = cur /\ Here' = Here
    BY <1>2, <1>4, <1>6, <2>1
  <2>3. \A q \in Headers : q \in Nat
    BY <1>2, FrameIs
  <2>4. \A q \in Headers : ~ (Before < q /\ (q < Here \/ Here = q + 3))
    BY <1>2, <1>4, <2>3
  <2>5. TextInOrder'
    BY <1>1, <1>2, <1>3, <2>2 DEF TextInOrder
  <2>6. HeadersInText'
    BY <1>3, <2>2, <2>4 DEF HeadersInText
  <2>7. QED
    BY <2>5, <2>6
<1>9. ImageInv'
  <2>1. Growing(p)' \/ Complete(p)'
    <3>1. CASE cur' = length + 1 /\ Here' = p + 2 + Len(image') /\ Len(image') < ImageSize(p)
      BY <1>1, <1>2, <1>3, <1>5, <3>1 DEF Growing
    <3>2. CASE Here' = p + 2 + Len(image') /\ Len(image') = ImageSize(p)
      BY <1>1, <1>3, <1>5, <3>2 DEF Complete
    <3>3. CASE cur' = 1 /\ Here' = Here /\ Len(image') = ImageSize(p)
      <4>1. Here \in p + 4 .. LastPlace(p)
        <5>1. /\ p \in Nat /\ Len(image) \in Nat /\ ImageSize(p) \in Nat
              /\ 2 <= Len(image) /\ LastPlace(p) = p + 1 + ImageSize(p)
          BY <1>2, <1>4
        <5>2. QED
          BY <1>5, <5>1
      <4>2. QED
        BY <1>1, <1>3, <1>4, <1>5, <3>3, <4>1 DEF Complete
    <3>4. QED
      BY <1>4, <1>6, <3>1, <3>2, <3>3
  <2>2. QED
    BY <1>1, <1>3, <1>4, <2>1 DEF ImageInv
<1>10. Here <= Here'
  <2>1. Here' = Before + (length + 1) \/ Here' = Here
    BY <1>3, <1>6 DEF Here
  <2>2. QED
    BY <1>2, <2>1
<1>11. PushedInv'
  <2>1. ASSUME NEW q \in Headers, q + 4 <= Here PROVE q + 4 <= Here'
    <3>1. q \in Nat
      BY <1>2, FrameIs
    <3>2. Here' = Here \/ Here' = p + 2 + Len(image')
      BY <1>6
    <3>3. QED
      <4>1. Here <= Here' /\ q + 4 <= Here
        BY <1>10, <2>1
      <4>2. Here \in Nat
        BY <1>2
      <4>3. Here' \in Nat
        <5>1. Len(image') \in Nat /\ p \in Nat
          BY <1>4
        <5>2. QED
          BY <3>2, <4>2, <5>1
      <4>4. QED
        BY <3>1, <4>1, <4>2, <4>3
  <2>2. \A k \in DOMAIN pushed : \E q \in Headers : pushed[k] = Jpeg(q) /\ q + 4 <= Here'
    BY <1>2, <2>1 DEF PushedInv
  <2>3. \A j, k \in DOMAIN pushed : j < k => pushed[j][1] < pushed[k][1]
    BY <1>2 DEF PushedInv
  <2>4. QED
    BY <1>1, <1>3, <2>2, <2>3 DEF PushedInv
<1>12. LostInv'
  <2>1. image' # <<>> /\ image'[1] = p + 2
    <3>1. /\ Len(image') \in Nat /\ 2 <= Len(image')
          /\ \A k \in 1 .. Len(image') : image'[k] = p + 1 + k
      BY <1>4
    <3>2. 1 \in 1 .. Len(image')
      BY <3>1
    <3>3. QED
      BY <1>4, <3>1, <3>2
  <2>2. ASSUME NEW q \in Headers \ torn
        PROVE  Here' <= q + 3 \/ image'[1] = q + 2 \/ Jpeg(q) \in ToSet(pushed)
    <3>1. q \in Nat /\ (q <= p \/ LastPlace(p) < q)
      BY <1>2, FrameIs
    <3>2. Here <= q + 3 \/ image[1] = q + 2 \/ Jpeg(q) \in ToSet(pushed)
      <4>1. contentLength # 0
        BY <1>4, <1>5
      <4>2. QED
        BY <1>2, <4>1 DEF LostInv
    <3>3. CASE Here <= q + 3
      BY <1>2, <1>4, <1>5, <1>6, <3>1, <3>3, SMTT(20)
    <3>4. QED
      BY <1>4, <2>1, <3>2, <3>3
  <2>3. QED
    BY <1>1, <1>3, <2>1, <2>2 DEF LostInv
<1>13. QED
  BY <1>3, <1>7, <1>8, <1>9, <1>11, <1>12 DEF DecoderInv

-----------------------------------------------------------------------------
\* At a marker: nothing is known of a length, or the image of the frame there
\* begins, whole or to the end of the buffer.
LEMMA StartIs ==
  ASSUME DecoderInv, StartOfImage
  PROVE  \/ /\ contentLength' = 0 /\ image' = image /\ cur' = cur /\ Lengths(other) = {}
         \/ \E p \in Headers :
              /\ Before < p /\ Here = p + 3 /\ image = <<>> /\ contentLength' = ImageSize(p)
              /\ image' \in Seq(0 .. Len(stream)) /\ Len(image') \in 2 .. ImageSize(p)
              /\ \A k \in 1 .. Len(image') : image'[k] = p + 1 + k
              /\ cur' = cur + Len(image') - 1 /\ cur' <= length + 1
              /\ Len(image') < ImageSize(p) => cur' = length + 1
<1>1. /\ Scanning /\ AtMarker /\ contentLength' = Extracted(other)
      /\ LET n == contentLength'
         IN CASE n = 0    -> UNCHANGED <<image, cur>>
              [] n > Left -> /\ image' = image \o SubSeq(readBytes, prev, prev + Left)
                             /\ cur' = length + 1
              [] OTHER    -> /\ image' = image \o SubSeq(readBytes, prev, prev + n - 1)
                             /\ cur' = cur + n - 1
  BY DEF StartOfImage
<1>2. /\ ConnectorTypeOK /\ BufferInv
      /\ Before \in Nat /\ length \in Nat /\ cur \in Nat /\ cur <= length
      /\ Here = Before + cur
  BY <1>1, ScanTypes
<1>3. CASE Lengths(other) = {}
  <2>1. contentLength' = 0
    BY <1>1, <1>3 DEF Extracted
  <2>2. UNCHANGED <<image, cur>>
    <3>1. Left \in Nat /\ 0 < Left
      BY <1>2 DEF Left
    <3>2. QED
      BY <1>1, <2>1, <3>1
  <2>3. image' = image /\ cur' = cur
    BY <2>2
  <2>4. QED
    BY <1>3, <2>1, <2>3
<1>4. CASE Lengths(other) # {}
  <2>1. PICK p \in Headers :
          /\ Before < p /\ Here = p + 3 /\ Extracted(other) = ImageSize(p)
          /\ prev = cur - 1 /\ image = <<>>
    BY <1>1, <1>4, LengthIsRight
  <2>2. p \in Nat /\ ImageSize(p) \in Nat /\ 4 <= ImageSize(p)
    BY <1>2, FrameIs
  <2> DEFINE rest == length - cur + 1
             m == IF ImageSize(p) > rest THEN rest + 1 ELSE ImageSize(p)
  <2>3. /\ m \in 2 .. ImageSize(p) /\ prev \in 1 .. length /\ prev \in Nat
        /\ prev + m - 1 \in prev - 1 .. length
        /\ cur + m - 1 <= length + 1
        /\ m < ImageSize(p) => cur + m - 1 = length + 1
    <3>1. rest \in Nat /\ 1 <= rest
      BY <1>2
    <3>2. 4 <= cur
      BY <1>2, <2>1, <2>2
    <3>3. m \in Nat /\ 2 <= m /\ m <= ImageSize(p) /\ m <= rest + 1 /\ (m < ImageSize(p) => m = rest + 1)
      BY <2>2, <3>1
    <3>4. QED
      BY <1>2, <2>1, <3>1, <3>2, <3>3
  <2>4. image' = image \o SubSeq(readBytes, prev, prev + m - 1) /\ cur' = cur + m - 1
    <3>1. Left = rest /\ contentLength' = ImageSize(p) /\ ImageSize(p) # 0
      BY <1>1, <2>1, <2>2 DEF Left
    <3>2. CASE ImageSize(p) > rest
      <4>1. image' = image \o SubSeq(readBytes, prev, prev + rest) /\ cur' = length + 1
        BY <1>1, <3>1, <3>2
      <4>2. prev + m - 1 = prev + rest /\ cur + m - 1 = length + 1
        BY <1>2, <2>1, <3>2
      <4>3. QED
        BY <4>1, <4>2
    <3>3. CASE ~ (ImageSize(p) > rest)
      BY <1>1, <3>1, <3>3
    <3>4. QED
      BY <3>2, <3>3
  <2> HIDE DEF rest, m
  <2>5. /\ SubSeq(readBytes, prev, prev + m - 1) \in Seq(0 .. Len(stream))
        /\ Len(SubSeq(readBytes, prev, prev + m - 1)) = m
        /\ \A k \in 1 .. m : SubSeq(readBytes, prev, prev + m - 1)[k] = p + 1 + k
    <3>1. /\ SubSeq(readBytes, prev, prev + m - 1) \in Seq(0 .. Len(stream))
          /\ Len(SubSeq(readBytes, prev, prev + m - 1)) = (prev + m - 1) - prev + 1
          /\ \A k \in 1 .. (prev + m - 1) - prev + 1 :
               SubSeq(readBytes, prev, prev + m - 1)[k] = Before + prev + k - 1
      BY <1>2, <2>3, Copied
    <3>2. (prev + m - 1) - prev + 1 = m
      BY <2>2, <2>3
    <3>3. \A k \in 1 .. m : Before + prev + k - 1 = p + 1 + k
      BY <1>2, <2>1, <2>2, <2>3
    <3>4. QED
      BY <3>1, <3>2, <3>3
  <2>6. image' = SubSeq(readBytes, prev, prev + m - 1)
    BY <2>1, <2>4, <2>5, ConcatEmptySeq
  <2>7. QED
    BY <1>1, <2>1, <2>3, <2>4, <2>5, <2>6
<1>5. QED
  BY <1>3, <1>4

LEMMA NoStartKeeps ==
  ASSUME DecoderInv, StartOfImage, contentLength' = 0, image' = image, cur' = cur,
         Lengths(other) = {}
  PROVE  DecoderInv'
<1>1. /\ Scanning /\ prev' = cur /\ UNCHANGED <<readVars, other, pushed, interrupted>>
  BY DEF StartOfImage
<1>2. ConnectorTypeOK /\ PushedInv /\ LostInv /\ cur <= length
  BY <1>1, ScanTypes
<1>3. Untouched' /\ BufferInv' /\ Headers' = Headers /\ stream' = stream /\ length' = length
      /\ torn' = torn /\ \A p : ImageSize(p)' = ImageSize(p) /\ Jpeg(p)' = Jpeg(p)
  BY <1>1, ScanStays
<1>4. ConnectorTypeOK'
  BY <1>1, <1>2, ScanTyped DEF ConnectorTypeOK
<1>5. TextInv' /\ Here' = Here
  BY <1>1, LengthIsThere, TextStays
<1>6. ImageInv'
  <2>1. SUFFICES ASSUME image # <<>> PROVE ImageInv'
    BY DEF ImageInv
  <2>2. PICK p \in Headers :
          /\ Len(image) \in 2 .. ImageSize(p) /\ \A k \in 1 .. Len(image) : image[k] = p + 1 + k
          /\ \A k \in DOMAIN pushed : pushed[k][1] < p + 2
    BY <1>1, <2>1, ImageIs
  <2>3. Stuck'
    BY <1>1, <1>2, <1>3 DEF Stuck
  <2>4. QED
    BY <1>1, <1>3, <2>2, <2>3 DEF ImageInv
<1>7. PushedInv'
  BY <1>1, <1>2, <1>3, <1>5 DEF PushedInv
<1>8. LostInv'
  BY <1>1, <1>2, <1>3, <1>5 DEF LostInv
<1>9. QED
  BY <1>3, <1>4, <1>5, <1>6, <1>7, <1>8 DEF DecoderInv

LEMMA StartKeeps ==
  ASSUME DecoderInv, StartOfImage
  PROVE  DecoderInv'
<1>1. /\ Scanning /\ prev' = cur /\ UNCHANGED <<readVars, other, pushed, interrupted>>
  BY DEF StartOfImage
<1>2. CASE contentLength' = 0 /\ image' = image /\ cur' = cur /\ Lengths(other) = {}
  BY <1>2, NoStartKeeps
<1>3. ASSUME NEW p \in Headers, Before < p, Here = p + 3, image = <<>>, contentLength' = ImageSize(p),
             image' \in Seq(0 .. Len(stream)), Len(image') \in 2 .. ImageSize(p),
             \A k \in 1 .. Len(image') : image'[k] = p + 1 + k,
             cur' = cur + Len(image') - 1, cur' <= length + 1,
             Len(image') < ImageSize(p) => cur' = length + 1
      PROVE  DecoderInv'
  <2>1. /\ ConnectorTypeOK /\ PushedInv /\ LostInv /\ TextInOrder /\ HeadersInText
        /\ Before \in Nat /\ length \in Nat /\ cur \in Nat /\ 0 < cur /\ cur <= length
        /\ Here = Before + cur
        /\ other \in Seq(1 .. Len(stream)) /\ Len(other) \in Nat /\ DOMAIN other = 1 .. Len(other)
    BY <1>1, ScanTypes
  <2>2. Untouched' /\ BufferInv' /\ Headers' = Headers /\ stream' = stream /\ length' = length
        /\ Before' = Before /\ torn' = torn
        /\ \A q : ImageSize(q)' = ImageSize(q) /\ LastPlace(q)' = LastPlace(q) /\ Jpeg(q)' = Jpeg(q)
    BY <1>1, ScanStays
  <2>3. p \in Nat /\ ImageSize(p) \in Nat /\ 4 <= ImageSize(p) /\ LastPlace(p) = p + 1 + ImageSize(p)
    BY <2>1, FrameIs
  <2>4. PICK n \in 2 .. ImageSize(p) : Len(image') = n
    BY <1>3
  <2>5. /\ n \in Nat /\ 2 <= n /\ n <= ImageSize(p) /\ cur' = cur + n - 1
        /\ n < ImageSize(p) => cur' = length + 1
    BY <1>3, <2>3, <2>4
  <2>6. Here' = p + 2 + n /\ Here < Here'
    <3>1. Here' = Before + (cur + n - 1)
      BY <2>2, <2>5 DEF Here
    <3>2. Before + cur = p + 3
      BY <1>3, <2>1
    <3>3. QED
      BY <2>1, <2>3, <2>5, <3>1, <3>2
  <2>7. \A q \in Headers : /\ q \in Nat /\ LastPlace(q) \in Nat
                           /\ q <= p \/ LastPlace(p) < q
                           /\ p <= q \/ LastPlace(q) < p
    BY <2>1, FrameIs, SMTT(20)
  <2>8. ConnectorTypeOK'
    <3>1. cur' \in 1 .. length + 1
      BY <1>3, <2>1, <2>5
    <3>2. other' \in Seq(1 .. Len(stream)) /\ pushed' \in Seq(Seq(0 .. Len(stream)))
      BY <1>1, <2>1 DEF ConnectorTypeOK
    <3>3. QED
      BY <1>1, <1>3, <2>3, <3>1, <3>2, ScanTyped
  <2>9. TextInv'
    <3>1. SUFFICES ASSUME cur' <= length PROVE TextInOrder' /\ HeadersInText'
      BY <2>2 DEF TextInv
    <3>2. n = ImageSize(p) /\ Here' = LastPlace(p) + 1
      <4>1. cur' # length + 1
        BY <2>1, <2>5, <3>1
      <4>2. QED
        BY <2>3, <2>5, <2>6, <4>1
    <3>3. ASSUME NEW k \in DOMAIN other
          PROVE  /\ Before < other[k] /\ other[k] < Here'
                 /\ stream[other[k]] = Tag => k # Len(other)
      <4>1. other[k] \in Nat /\ other[k] \in 1 .. Len(stream)
        BY <2>1, <3>3, ElementOfSeq
      <4>2. Before < other[k] /\ other[k] < Here
        BY <2>1, <3>3 DEF TextInOrder
      <4>3. ASSUME stream[other[k]] = Tag, k = Len(other) PROVE FALSE
        <5>1. Here = other[k] + 1
          BY <2>1, <3>3, <4>3 DEF TextInOrder
        <5>2. other[k] = p + 2
          <6>1. Here = p + 3 /\ other[k] \in Nat /\ p \in Nat
            BY <1>3, <2>3, <4>1
          <6>2. QED
            BY <5>1, <6>1
        <5>3. other[k] \in Headers
          BY <2>1, <4>1, <4>3, ConnectorAssumption DEF Headers, ConnectorTypeOK, WellFramed
        <5>4. QED
          BY <2>3, <2>7, <5>2, <5>3
      <4>4. QED
        BY <1>3, <2>3, <2>6, <4>1, <4>2, <4>3
    <3>4. TextInOrder'
      BY <1>1, <2>1, <2>2, <3>3 DEF TextInOrder
    <3>5. ASSUME NEW q \in Headers, Before < q, q < Here'
          PROVE  q \in ToSet(other) /\ Here' \notin q + 4 .. LastPlace(q)
      <4>1. q <= p
        BY <2>3, <2>7, <3>2, <3>5
      <4>2. q < Here
        BY <1>3, <2>3, <2>7, <4>1
      <4>3. q \in ToSet(other)
        BY <2>1, <3>5, <4>2 DEF HeadersInText
      <4>4. LastPlace(q) < Here'
        <5>1. CASE q = p
          BY <2>3, <3>2, <5>1
        <5>2. CASE q # p
          BY <2>3, <2>5, <2>6, <2>7, <4>1, <5>2
        <5>3. QED
          BY <5>1, <5>2
      <4>5. Here' \in Nat
        BY <2>3, <2>5, <2>6
      <4>6. QED
        BY <2>7, <3>2, <4>3, <4>4, <2>3
    <3>6. \A q \in Headers : Here' # q + 3
      BY <2>3, <2>7, <3>2
    <3>7. HeadersInText'
      BY <1>1, <2>2, <3>5, <3>6 DEF HeadersInText
    <3>8. QED
      BY <3>4, <3>7
  <2>10. ImageInv'
    <3>1. ASSUME NEW k \in DOMAIN pushed PROVE pushed[k][1] < p + 2
      <4>1. PICK q \in Headers : pushed[k] = Jpeg(q) /\ q + 4 <= Here
        BY <2>1, <3>1 DEF PushedInv
      <4>2. Jpeg(q)[1] = q + 2
        <5>1. /\ ImageSize(q) \in Nat /\ 4 <= ImageSize(q) /\ q \in Nat
              /\ \A j \in 1 .. ImageSize(q) : Jpeg(q)[j] = q + 1 + j
          BY <2>1, FrameIs, JpegIs
        <5>2. 1 \in 1 .. ImageSize(q)
          BY <5>1
        <5>3. QED
          BY <5>1, <5>2
      <4>3. QED
        BY <1>3, <2>3, <2>7, <4>1, <4>2, SMTT(20)
    <3>2. Growing(p)' \/ Complete(p)'
      <4>1. CASE n < ImageSize(p)
        <5>1. ~ (cur' <= length)
          BY <2>1, <2>5, <4>1
        <5>2. QED
          BY <1>3, <2>2, <2>4, <2>6, <4>1, <5>1 DEF Growing
      <4>2. CASE n = ImageSize(p)
        BY <1>3, <2>2, <2>4, <2>6, <4>2 DEF Complete
      <4>3. QED
        BY <2>3, <2>5, <4>1, <4>2
    <3>3. QED
      BY <1>1, <1>3, <2>2, <3>1, <3>2 DEF ImageInv
  <2>11. PushedInv'
    <3>1. ASSUME NEW q \in Headers, q + 4 <= Here PROVE q + 4 <= Here'
      BY <1>3, <2>3, <2>6, <2>7, <3>1, <2>5
    <3>2. QED
      BY <1>1, <2>1, <2>2, <3>1 DEF PushedInv
  <2>12. LostInv'
    <3>1. image' # <<>> /\ image'[1] = p + 2
      <4>1. 1 \in 1 .. Len(image')
        BY <1>3, <2>3
      <4>2. QED
        BY <1>3, <2>3, <4>1
    <3>2. ASSUME NEW q \in Headers \ torn
          PROVE  Here' <= q + 3 \/ q = p \/ Jpeg(q) \in ToSet(pushed)
      <4>1. CASE q < p
        BY <1>3, <2>1, <2>3, <2>7, <4>1 DEF LostInv
      <4>2. CASE p < q
        <5>1. LastPlace(p) < q
          BY <2>3, <2>7, <4>2
        <5>2. QED
          BY <2>3, <2>5, <2>6, <2>7, <5>1
      <4>3. QED
        BY <2>3, <2>7, <4>1, <4>2
    <3>3. QED
      BY <1>1, <2>2, <3>1, <3>2 DEF LostInv
  <2>13. QED
    BY <2>2, <2>8, <2>9, <2>10, <2>11, <2>12 DEF DecoderInv
<1>4. QED
  BY <1>2, <1>3, StartIs

-----------------------------------------------------------------------------
LEMMA DecoderInductive == DecoderInv /\ [ConnectorNext]_connectorVars => DecoderInv'
<1> SUFFICES ASSUME DecoderInv, [ConnectorNext]_connectorVars PROVE DecoderInv'
  OBVIOUS
<1>1. pc \in Phases /\ interrupted \in BOOLEAN
  BY DEF DecoderInv, ConnectorTypeOK
<1>2. CASE GetZMStreamURL \/ Connect \/ ConnectCrashes \/ SendGetRequest
  <2>1. /\ UNCHANGED <<stream, taken, readBytes, length, torn, scanVars, interrupted>>
        /\ pc \in {"new", "located", "connected"}
        /\ pc' \in {"located", "connected", "asked", "crashed", "refused"}
    BY <1>2 DEF GetZMStreamURL, Connect, ConnectCrashes, SendGetRequest, Proceed, Refuse, Unread
  <2>2. QED
    BY <1>1, <2>1, QuietKeeps DEF Phases
<1>3. CASE ProcessHttpHeader
  BY <1>3, HeaderKeeps
<1>4. CASE ProduceImageObjects \/ ReadFails
  <2>1. /\ UNCHANGED <<stream, taken, readBytes, length, torn, scanVars, interrupted>>
        /\ pc' \in {"decoding", "ended"}
        /\ pc' = "decoding" => pc = "initialised"
    BY <1>4 DEF ProduceImageObjects, ReadFails, Unread
  <2>2. QED
    BY <1>1, <2>1, QuietKeeps DEF Phases
<1>5. CASE Read
  BY <1>5, ReadKeeps
<1>6. CASE StartOfImage
  BY <1>6, StartKeeps
<1>7. CASE RestOfImage
  BY <1>7, RestKeeps
<1>8. CASE EndOfImage
  BY <1>8, EndKeeps
<1>9. CASE OtherByte
  BY <1>9, OtherKeeps
<1>10. CASE Spin
  BY <1>10, SpinKeeps
<1>11. CASE InterruptThread
  BY <1>1, <1>11, QuietKeeps DEF InterruptThread, readVars
<1>12. CASE UNCHANGED connectorVars
  BY <1>1, <1>12, QuietKeeps DEF connectorVars, readVars
<1>13. QED
  BY <1>2, <1>3, <1>4, <1>5, <1>6, <1>7, <1>8, <1>9, <1>10, <1>11, <1>12 DEF ConnectorNext, Scan

(***************************************************************************)
(* The invariant of the decoder, for every stream of whole frames, however *)
(* it is cut into reads of at most the buffer's size.                      *)
(***************************************************************************)
THEOREM DecoderInvariant == ConnectorSpec => []DecoderInv
BY InitKeeps, DecoderInductive, PTL DEF ConnectorSpec

\* Every variable of the connector keeps its type.
THEOREM ConnectorTypeCorrect == ConnectorSpec => []ConnectorTypeOK
<1>1. DecoderInv => ConnectorTypeOK
  BY DEF DecoderInv
<1>2. QED
  BY <1>1, DecoderInvariant, PTL

(***************************************************************************)
(* What the connector pushes are whole JPEGs of the camera, in the order   *)
(* sent and none twice.                                                    *)
(***************************************************************************)
THEOREM WholeFramesArePushed == ConnectorSpec => []WholeFramesInOrder
<1>1. DecoderInv => WholeFramesInOrder
  BY DEF DecoderInv, PushedInv, WholeFramesInOrder
<1>2. QED
  BY <1>1, DecoderInvariant, PTL

(***************************************************************************)
(* No frame is lost but those whose header and first marker no one read    *)
(* has whole, unless the loop spins.                                       *)
(***************************************************************************)
THEOREM OnlyTornFramesAreLost == ConnectorSpec => []OnlyTornAreLost
<1>1. DecoderInv => OnlyTornAreLost
  <2> SUFFICES ASSUME DecoderInv, ~ Spins, NEW p \in Headers, Passed(p), p \notin torn
               PROVE  Jpeg(p) \in ToSet(pushed)
    BY DEF OnlyTornAreLost
  <2>1. /\ ConnectorTypeOK /\ BufferInv /\ ImageInv /\ LostInv /\ cur > length
        /\ p + 1 + Len(Jpeg(p)) < taken
    BY DEF DecoderInv, Passed
  <2>2. /\ p \in Nat /\ ImageSize(p) \in Nat /\ 4 <= ImageSize(p) /\ Len(Jpeg(p)) = ImageSize(p)
    BY <2>1, FrameIs, JpegIs
  <2>3. Here = taken + 1 /\ taken \in Nat
    <3>1. stream \in Seq(Nat) /\ BufferSize \in Nat
      BY <2>1, ConnectorAssumption DEF ConnectorTypeOK, WellFramed
    <3>2. taken \in Nat /\ length \in Nat /\ cur = length + 1
      BY <2>1, <3>1 DEF ConnectorTypeOK
    <3>3. QED
      BY <3>2 DEF Here, Before
  <2>4. ~ (Here <= p + 3)
    BY <2>1, <2>2, <2>3
  <2>5. CASE image = <<>>
    BY <2>1, <2>4, <2>5 DEF LostInv
  <2>6. CASE image # <<>>
    <3>1. PICK q \in Headers :
            /\ Len(image) \in 2 .. ImageSize(q) /\ \A k \in 1 .. Len(image) : image[k] = q + 1 + k
            /\ Growing(q) \/ Complete(q) \/ Stuck
      BY <2>1, <2>6 DEF ImageInv
    <3>2. q \in Nat /\ ImageSize(q) \in Nat /\ 4 <= ImageSize(q) /\ LastPlace(q) = q + 1 + ImageSize(q)
      BY <2>1, FrameIs
    <3>3. Growing(q) \/ Complete(q)
      <4>1. length \in Nat /\ cur \in Nat
        BY <2>1, ConnectorAssumption DEF ConnectorTypeOK
      <4>2. QED
        BY <2>1, <3>1, <4>1 DEF Stuck
    <3>4. contentLength # 0 /\ Here <= q + 2 + ImageSize(q)
      BY <3>1, <3>2, <3>3 DEF Growing, Complete
    <3>5. image[1] = q + 2
      <4>1. 1 \in 1 .. Len(image)
        BY <3>1, <3>2
      <4>2. QED
        BY <3>1, <3>2, <4>1
    <3>6. q # p
      BY <2>1, <2>2, <2>3, <3>4
    <3>7. QED
      BY <2>1, <2>2, <2>4, <3>2, <3>4, <3>5, <3>6 DEF LostInv
  <2>7. QED
    BY <2>5, <2>6
<1>2. QED
  BY <1>1, DecoderInvariant, PTL
=============================================================================
