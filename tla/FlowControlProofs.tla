------------------------- MODULE FlowControlProofs --------------------------
(***************************************************************************)
(* FlowControl for every finite set of streams, every MaxSize and every    *)
(* counter width that can hold them.  The invariant is IInv: it counts the *)
(* consumers that passed the check but did not write yet together with the *)
(* images that are out, because it is the check that uses the room up.     *)
(***************************************************************************)
EXTENDS FlowControl, FiniteSetTheorems, TLAPS

Phases == {"ready", "sending", "counting"}

\* The number of streams is a positive natural, as the counter's width needs.
LEMMA StreamsCounted ==
  /\ Cardinality(Streams) \in Nat
  /\ Cardinality(Streams) > 0
BY StreamsAssumption, FS_CardinalityType, FS_EmptySet

\* On the range the counter lives in, % Modulus is a wrap in either direction.
LEMMA WrapValue ==
  ASSUME NEW x \in -Modulus .. Modulus - 1
  PROVE  x % Modulus = IF x >= 0 THEN x ELSE x + Modulus
<1>1. Modulus \in Nat /\ Modulus > 0
  BY SizeAssumption, StreamsCounted
<1>2. CASE x >= 0
  <2>1. x \in 0 .. Modulus - 1  BY <1>1, <1>2
  <2>2. x % Modulus = x  BY <1>1, <2>1
  <2>3. QED  BY <1>2, <2>2
<1>3. CASE x < 0
  <2>1. x \in -Modulus .. -1  BY <1>1, <1>3
  <2>2. x % Modulus = x + Modulus  BY <1>1, <2>1
  <2>3. QED  BY <1>1, <1>3, <2>2
<1>4. QED  BY <1>1, <1>2, <1>3

\* ++ and -- of the size_t, applied to a count that stays in that range.
LEMMA WrapStep ==
  ASSUME NEW x \in -Modulus .. Modulus - 1, NEW d \in {-1, 1},
         x + d \in -Modulus .. Modulus - 1
  PROVE  ((x % Modulus) + d) % Modulus = (x + d) % Modulus
<1>1. Modulus \in Nat /\ Modulus > 0
  BY SizeAssumption, StreamsCounted
<1>2. x % Modulus = (IF x >= 0 THEN x ELSE x + Modulus)
  BY WrapValue
<1>3. (x + d) % Modulus = (IF x + d >= 0 THEN x + d ELSE x + d + Modulus)
  BY WrapValue
<1>4. CASE x >= 0
  <2>1. (x % Modulus) + d = x + d  BY <1>2, <1>4
  <2>2. QED  BY <2>1
<1>5. CASE x < 0 /\ x + d < 0
  <2>1. (x % Modulus) + d = x + d + Modulus  BY <1>1, <1>2, <1>5
  <2>2. x + d + Modulus \in 0 .. Modulus - 1  BY <1>1, <1>5
  <2>3. (x + d + Modulus) % Modulus = x + d + Modulus  BY <1>1, <2>2
  <2>4. QED  BY <1>3, <1>5, <2>1, <2>3
<1>6. CASE x < 0 /\ x + d >= 0
  <2>1. x = -1 /\ d = 1  BY <1>6
  <2>2. (x % Modulus) + d = Modulus  BY <1>1, <1>2, <2>1
  <2>3. Modulus % Modulus = 0  BY <1>1
  <2>4. QED  BY <1>1, <1>3, <2>1, <2>2, <2>3
<1>7. QED  BY <1>1, <1>4, <1>5, <1>6

-----------------------------------------------------------------------------
\* The consumers in a phase are finitely many.
LEMMA PhaseCounted ==
  ASSUME NEW phase
  PROVE  /\ IsFiniteSet(In(phase))
         /\ Cardinality(In(phase)) \in Nat
         /\ Cardinality(In(phase)) <= Cardinality(Streams)
<1>1. In(phase) \in SUBSET Streams
  BY DEF In
<1>2. QED
  BY <1>1, StreamsAssumption, FS_Subset, FS_CardinalityType

\* A consumer that is about to check is not among those in the middle of a send.
LEMMA RoomForReady ==
  ASSUME NEW s \in Streams, consumer[s] = "ready"
  PROVE  Cardinality(In("sending")) + Cardinality(In("counting"))
           <= Cardinality(Streams) - 1
<1> DEFINE A == In("sending")
           B == In("counting")
           Others == Streams \ {s}
<1>1. A \cap B = {} /\ A \cup B \in SUBSET Others
  BY DEF In
<1>2. IsFiniteSet(A) /\ IsFiniteSet(B)
  BY PhaseCounted
<1>3. Cardinality(A \cup B) = Cardinality(A) + Cardinality(B) - Cardinality({})
  BY <1>1, <1>2, FS_Union
<1>4. Cardinality({}) = 0
  BY FS_EmptySet
<1>5. IsFiniteSet(Others) /\ Cardinality(Others) = Cardinality(Streams) - 1
  BY StreamsAssumption, FS_RemoveElement
<1>6. Cardinality(A \cup B) <= Cardinality(Others)
  BY <1>1, <1>5, FS_Subset
<1>7. Cardinality(A) \in Nat /\ Cardinality(B) \in Nat
  BY PhaseCounted
<1>8. QED
  BY <1>3, <1>4, <1>5, <1>6, <1>7

\* A consumer's move takes one from one phase and adds it to the other.
LEMMA MoveCounts ==
  ASSUME ServerTypeOK, NEW s \in Streams,
         NEW from \in Phases, NEW to \in Phases, from # to,
         Move(s, from, to)
  PROVE  /\ Cardinality(In(from)') = Cardinality(In(from)) - 1
         /\ Cardinality(In(to)') = Cardinality(In(to)) + 1
         /\ \A other \in Phases \ {from, to} :
              Cardinality(In(other)') = Cardinality(In(other))
         /\ consumer' \in [Streams -> Phases]
<1>1. consumer \in [Streams -> Phases]
  BY DEF ServerTypeOK, Phases
<1>2. In(from)' = In(from) \ {s} /\ s \in In(from)
  BY <1>1 DEF In, Move
<1>3. In(to)' = In(to) \cup {s} /\ s \notin In(to)
  BY <1>1 DEF In, Move
<1>4. ASSUME NEW other \in Phases \ {from, to}
      PROVE  In(other)' = In(other)
  BY <1>1, <1>4 DEF In, Move
<1>5. Cardinality(In(from) \ {s}) = Cardinality(In(from)) - 1
  BY <1>2, PhaseCounted, FS_RemoveElement
<1>6. Cardinality(In(to) \cup {s}) = Cardinality(In(to)) + 1
  BY <1>3, PhaseCounted, FS_AddElement
<1>7. consumer' \in [Streams -> Phases]
  BY <1>1 DEF Move
<1>8. QED
  BY <1>2, <1>3, <1>4, <1>5, <1>6, <1>7

-----------------------------------------------------------------------------
\* What IInv says about the range of the counter: wide enough to wrap below
\* zero, never wide enough to run into itself.
LEMMA CountRange ==
  ASSUME IInv
  PROVE  /\ Outstanding \in Nat
         /\ Count \in -Cardinality(Streams) .. Capacity
         /\ Count - 1 \in -Modulus .. Modulus - 1
         /\ Count + 1 \in -Modulus .. Modulus - 1
         /\ Count \in -Modulus .. Modulus - 1
<1>1. Outstanding \in Nat /\ lost \in Nat
  BY DEF IInv, TypeOK, ServerTypeOK, Outstanding
<1>2. Cardinality(In("counting")) \in 0 .. Cardinality(Streams)
  BY PhaseCounted, StreamsCounted
<1>3. Cardinality(In("sending")) \in Nat
  BY PhaseCounted
<1>4. Outstanding + lost <= Capacity
  BY <1>1, <1>3, StreamsCounted, SizeAssumption DEF IInv, Capacity
<1>5. QED
  BY <1>1, <1>2, <1>4, StreamsCounted, SizeAssumption DEF Count, Capacity

\* The invariant holds before any thread runs.
LEMMA InitInductive == Init => IInv
<1> SUFFICES ASSUME Init PROVE IInv
  OBVIOUS
<1>1. In("counting") = {} /\ In("sending") = {}
  BY DEF Init, ServerInit, In
<1>2. Cardinality({}) = 0
  BY FS_EmptySet
<1>3. Outstanding = 0 /\ lost = 0
  BY DEF Init, ServerInit, Outstanding
<1>4. Count = 0
  BY <1>1, <1>2, <1>3 DEF Count
<1>5. TypeOK
  BY StreamsCounted, SizeAssumption DEF Init, ServerInit, TypeOK, ServerTypeOK
<1>6. CounterExact
  BY <1>4, StreamsCounted, SizeAssumption DEF CounterExact, Init, ServerInit
<1>7. Outstanding + lost + Cardinality(In("sending")) <= Capacity
  BY <1>1, <1>2, <1>3, StreamsCounted, SizeAssumption DEF Capacity
<1>8. QED
  BY <1>5, <1>6, <1>7 DEF IInv

\* Only the check uses room up, and it finds it in the counter: with the
\* consumers still to count, at least one place is left for s.
LEMMA MaySendInductive ==
  ASSUME IInv, NEW s \in Streams, MaySend(s)
  PROVE  IInv'
<1>1. TypeOK /\ ServerTypeOK /\ Outstanding \in Nat /\ lost \in Nat
  BY CountRange DEF IInv, TypeOK
<1>2. Move(s, "ready", "sending") /\ consumer[s] = "ready"
  BY DEF MaySend, CanSend, Move
<1>3. /\ Cardinality(In("sending")') = Cardinality(In("sending")) + 1
      /\ Cardinality(In("counting")') = Cardinality(In("counting"))
      /\ consumer' \in [Streams -> Phases]
  BY <1>1, <1>2, MoveCounts DEF Phases
<1>4. UNCHANGED <<numbOfImagesStillInMq, router, remote, lost, alive>>
  BY DEF MaySend, CanSend
<1>5. Outstanding' = Outstanding /\ Count' = Count
  BY <1>3, <1>4 DEF Outstanding, Count
<1>6. TypeOK'
  BY <1>1, <1>3, <1>4 DEF TypeOK, ServerTypeOK, Phases
<1>7. CounterExact'
  BY <1>4, <1>5 DEF IInv, CounterExact
<1>8. Count < MaxSize
  <2>1. Count % Modulus < MaxSize
    BY DEF IInv, CounterExact, MaySend, CanSend
  <2>2. Count % Modulus = IF Count >= 0 THEN Count ELSE Count + Modulus
    BY CountRange, WrapValue
  <2>3. Count \in Int /\ Count >= -Cardinality(Streams)
    BY CountRange
  <2>4. QED
    BY <2>1, <2>2, <2>3, SizeAssumption, StreamsCounted
<1>9. Cardinality(In("sending")) + Cardinality(In("counting"))
        <= Cardinality(Streams) - 1
  BY <1>2, RoomForReady
<1>10. Outstanding + lost + Cardinality(In("sending")) + 1 <= Capacity
  BY <1>1, <1>8, <1>9, PhaseCounted, StreamsCounted, SizeAssumption
     DEF Count, Capacity
<1>11. (Outstanding + lost + Cardinality(In("sending")) <= Capacity)'
  <2>1. Capacity' = Capacity
    BY DEF Capacity
  <2>2. QED
    BY <1>1, <1>3, <1>4, <1>5, <1>10, <2>1, PhaseCounted
<1>12. QED
  BY <1>6, <1>7, <1>11 DEF IInv

\* A write moves an image from the room its consumer had reserved to the remote
\* side; a failed write gives the room back.
LEMMA WriteInductive ==
  ASSUME IInv, NEW s \in Streams, Send(s) \/ SendFails(s)
  PROVE  IInv'
<1>1. TypeOK /\ ServerTypeOK /\ Outstanding \in Nat /\ lost \in Nat
  BY CountRange DEF IInv, TypeOK
<1>2. /\ Cardinality(In("sending")) \in Nat
      /\ Cardinality(In("counting")) \in Nat
      /\ Capacity \in Int
      /\ Capacity' = Capacity
  BY PhaseCounted, StreamsCounted, SizeAssumption DEF Capacity
<1>3. CASE Send(s)
  <2>1. Move(s, "sending", "counting")
    BY <1>3 DEF Send, Written
  <2>2. /\ Cardinality(In("sending")') = Cardinality(In("sending")) - 1
        /\ Cardinality(In("counting")') = Cardinality(In("counting")) + 1
        /\ consumer' \in [Streams -> Phases]
    BY <1>1, <2>1, MoveCounts DEF Phases
  <2>3. UNCHANGED <<numbOfImagesStillInMq, router, lost, alive>> /\ remote' = remote + 1
    BY <1>3 DEF Send, Written
  <2>4. Outstanding' = Outstanding + 1 /\ Count' = Count
    BY <1>1, <1>2, <2>2, <2>3 DEF Outstanding, Count, TypeOK
  <2>5. TypeOK'
    BY <1>1, <2>2, <2>3 DEF TypeOK, ServerTypeOK, Phases
  <2>6. QED
    BY <1>1, <1>2, <2>2, <2>3, <2>4, <2>5 DEF IInv, CounterExact
<1>4. CASE SendFails(s)
  <2>1. Move(s, "sending", "ready")
    BY <1>4 DEF SendFails, NotWritten
  <2>2. /\ Cardinality(In("sending")') = Cardinality(In("sending")) - 1
        /\ Cardinality(In("counting")') = Cardinality(In("counting"))
        /\ consumer' \in [Streams -> Phases]
    BY <1>1, <2>1, MoveCounts DEF Phases
  <2>3. UNCHANGED <<numbOfImagesStillInMq, router, remote, lost, alive>>
    BY <1>4 DEF SendFails, NotWritten
  <2>4. Outstanding' = Outstanding /\ Count' = Count
    BY <2>2, <2>3 DEF Outstanding, Count
  <2>5. TypeOK'
    BY <1>1, <2>2, <2>3 DEF TypeOK, ServerTypeOK, Phases
  <2>6. QED
    BY <1>1, <1>2, <2>2, <2>3, <2>4, <2>5 DEF IInv, CounterExact
<1>5. QED
  BY <1>3, <1>4

\* sent() adds to the counter exactly the consumer that leaves "counting".
LEMMA CountSentInductive ==
  ASSUME IInv, NEW s \in Streams, CountSent(s)
  PROVE  IInv'
<1>1. TypeOK /\ ServerTypeOK /\ Outstanding \in Nat /\ lost \in Nat
  BY CountRange DEF IInv, TypeOK
<1>2. Move(s, "counting", "ready")
  BY DEF CountSent, Sent
<1>3. /\ Cardinality(In("counting")') = Cardinality(In("counting")) - 1
      /\ Cardinality(In("sending")') = Cardinality(In("sending"))
      /\ consumer' \in [Streams -> Phases]
  BY <1>1, <1>2, MoveCounts DEF Phases
<1>4. /\ numbOfImagesStillInMq' = (numbOfImagesStillInMq + 1) % Modulus
      /\ UNCHANGED <<router, remote, lost, alive>>
  BY DEF CountSent, Sent
<1>5. Outstanding' = Outstanding /\ Count' = Count + 1
  BY <1>1, <1>3, <1>4, PhaseCounted DEF Outstanding, Count
<1>6. numbOfImagesStillInMq' = Count' % Modulus
  <2>1. ((Count % Modulus) + 1) % Modulus = (Count + 1) % Modulus
    BY CountRange, WrapStep
  <2>2. QED
    BY <1>4, <1>5, <2>1 DEF IInv, CounterExact
<1>7. numbOfImagesStillInMq' \in 0 .. Modulus - 1
  BY <1>5, <1>6, CountRange, SizeAssumption, StreamsCounted
<1>8. TypeOK'
  BY <1>1, <1>3, <1>4, <1>7 DEF TypeOK, ServerTypeOK, Phases
<1>9. Capacity' = Capacity
  BY DEF Capacity
<1>10. QED
  BY <1>3, <1>4, <1>5, <1>6, <1>8, <1>9 DEF IInv, CounterExact

\* received() takes from the counter exactly the result the router holds.
LEMMA RouterInductive ==
  ASSUME IInv, ReceiveResult \/ Credit
  PROVE  IInv'
<1>1. TypeOK /\ ServerTypeOK /\ Outstanding \in Nat /\ lost \in Nat
  BY CountRange DEF IInv, TypeOK
<1>2. UNCHANGED <<consumer, lost, alive>>
  BY DEF ReceiveResult, ResultReceived, Credit, Received
<1>3. In("sending")' = In("sending") /\ In("counting")' = In("counting")
  BY <1>2 DEF In
<1>4. /\ Cardinality(In("sending")) \in Nat
      /\ Cardinality(In("counting")) \in Nat
      /\ Capacity \in Int
      /\ Capacity' = Capacity
  BY PhaseCounted, StreamsCounted, SizeAssumption DEF Capacity
<1>5. CASE ReceiveResult
  <2>1. /\ remote > 0 /\ remote' = remote - 1
        /\ router = "receiving" /\ router' = "crediting"
        /\ UNCHANGED numbOfImagesStillInMq
    BY <1>5 DEF ReceiveResult, ResultReceived
  <2>2. Outstanding' = Outstanding /\ Count' = Count
    BY <1>1, <1>2, <1>3, <2>1 DEF Outstanding, Count, TypeOK
  <2>3. TypeOK'
    BY <1>1, <1>2, <2>1 DEF TypeOK, ServerTypeOK
  <2>4. QED
    BY <1>2, <1>3, <1>4, <2>1, <2>2, <2>3 DEF IInv, CounterExact
<1>6. CASE Credit
  <2>1. /\ router = "crediting" /\ router' = "receiving"
        /\ numbOfImagesStillInMq' = (numbOfImagesStillInMq - 1) % Modulus
        /\ UNCHANGED remote
    BY <1>6 DEF Credit, Received
  <2>2. Outstanding' = Outstanding - 1 /\ Count' = Count - 1
    BY <1>1, <1>2, <1>3, <1>4, <2>1 DEF Outstanding, Count, TypeOK
  <2>3. numbOfImagesStillInMq' = Count' % Modulus
    <3>1. ((Count % Modulus) + (-1)) % Modulus = (Count + (-1)) % Modulus
      BY CountRange, WrapStep
    <3>2. Count \in Int /\ Count + (-1) = Count - 1
      BY CountRange
    <3>3. (Count % Modulus) \in Int /\ (Count % Modulus) + (-1) = (Count % Modulus) - 1
      BY CountRange, SizeAssumption, StreamsCounted
    <3>4. QED
      BY <2>1, <2>2, <3>1, <3>2, <3>3 DEF IInv, CounterExact
  <2>4. numbOfImagesStillInMq' \in 0 .. Modulus - 1
    BY <2>2, <2>3, CountRange, SizeAssumption, StreamsCounted
  <2>5. TypeOK'
    BY <1>1, <1>2, <2>1, <2>4 DEF TypeOK, ServerTypeOK
  <2>6. QED
    BY <1>1, <1>2, <1>3, <1>4, <2>2, <2>3, <2>5 DEF IInv, CounterExact
<1>7. QED
  BY <1>5, <1>6

\* A lost image keeps its place in the count.
LEMMA LoseInductive ==
  ASSUME IInv, NEW n \in 0 .. remote, Lose(n), alive' \in BOOLEAN
  PROVE  IInv'
<1>1. TypeOK /\ Outstanding \in Nat /\ lost \in Nat
  BY CountRange DEF IInv, TypeOK
<1>2. remote' = remote - n /\ lost' = lost + n
  BY DEF Lose
<1>3. UNCHANGED <<consumer, numbOfImagesStillInMq, router>>
  BY DEF Lose, serverVars
<1>4. In("sending")' = In("sending") /\ In("counting")' = In("counting")
  BY <1>3 DEF In
<1>5. remote' \in Nat /\ lost' \in Nat
  BY <1>1, <1>2 DEF TypeOK
<1>6. Outstanding' = Outstanding - n /\ Outstanding' + lost' = Outstanding + lost
  BY <1>1, <1>2, <1>3 DEF Outstanding, TypeOK
<1>7. Count' = Count /\ Capacity' = Capacity
  BY <1>1, <1>2, <1>4, <1>5, <1>6, PhaseCounted DEF Count, Capacity
<1>8. TypeOK'
  BY <1>1, <1>3, <1>5 DEF TypeOK, ServerTypeOK
<1>9. QED
  BY <1>3, <1>4, <1>6, <1>7, <1>8 DEF IInv, CounterExact

\* Either way of losing images is of some that were out.
LEMMA Losses ==
  ASSUME TypeOK, LoseImage \/ LoseProcess
  PROVE  /\ \E n \in 0 .. remote : Lose(n)
         /\ alive /\ alive' \in BOOLEAN
<1>1. CASE LoseImage
  <2>1. 1 \in 0 .. remote
    BY <1>1 DEF LoseImage, TypeOK
  <2>2. QED
    BY <1>1, <2>1 DEF LoseImage, TypeOK
<1>2. CASE LoseProcess
  BY <1>2 DEF LoseProcess
<1>3. QED
  BY <1>1, <1>2

\* IInv is inductive.
LEMMA NextInductive == IInv /\ [Next]_vars => IInv'
<1> SUFFICES ASSUME IInv, [Next]_vars PROVE IInv'
  OBVIOUS
<1>1. ASSUME NEW s \in Streams, MaySend(s) PROVE IInv'
  BY <1>1, MaySendInductive
<1>2. ASSUME NEW s \in Streams, Send(s) \/ SendFails(s) PROVE IInv'
  BY <1>2, WriteInductive
<1>3. ASSUME NEW s \in Streams, CountSent(s) PROVE IInv'
  BY <1>3, CountSentInductive
<1>4. CASE ReceiveResult \/ Credit
  BY <1>4, RouterInductive
<1>5. CASE LoseImage \/ LoseProcess
  BY <1>5, Losses, LoseInductive DEF IInv
<1>6. CASE UNCHANGED vars
  <2>1. UNCHANGED <<consumer, numbOfImagesStillInMq, router, remote, lost, alive>>
    BY <1>6 DEF vars
  <2>2. QED
    BY <2>1 DEF IInv, TypeOK, ServerTypeOK, CounterExact, Count, Outstanding,
                Capacity, In
<1>7. QED
  BY <1>1, <1>2, <1>3, <1>4, <1>5, <1>6 DEF Next

\* IInv holds in every reachable state, for every number of streams.
THEOREM Inductive == Spec => []IInv
<1>1. QED
  BY InitInductive, NextInductive, PTL DEF Spec

\* The variables keep their types; the counter never leaves the size_t.
THEOREM TypeCorrect == Spec => []TypeOK
<1>1. IInv => TypeOK
  BY DEF IInv
<1>2. QED
  BY <1>1, Inductive, PTL

\* However many streams race through the check of canSendImageGeneratedAt, no
\* more than one image too many per further stream is out at the analytic.
THEOREM OutstandingIsBounded == Spec => []OutstandingBounded
<1>1. IInv => OutstandingBounded
  <2> SUFFICES ASSUME IInv PROVE Outstanding <= Capacity
    BY DEF OutstandingBounded
  <2>1. Outstanding \in Nat /\ lost \in Nat
    BY CountRange DEF IInv, TypeOK
  <2>2. Cardinality(In("sending")) \in Nat /\ Capacity \in Int
    BY PhaseCounted, StreamsCounted, SizeAssumption DEF Capacity
  <2>3. QED
    BY <2>1, <2>2 DEF IInv
<1>2. QED
  BY <1>1, Inductive, PTL

\* The size_t is sent() minus received(), whatever order they are called in.
THEOREM CounterIsExact == Spec => []CounterExact
<1>1. IInv => CounterExact
  BY DEF IInv
<1>2. QED
  BY <1>1, Inductive, PTL

\* The counter is beyond its largest honest value only while a sent() is due.
THEOREM WrapsAreTransient == Spec => []WrapIsTransient
<1>1. IInv => WrapIsTransient
  <2> SUFFICES ASSUME IInv, In("counting") = {}
               PROVE  numbOfImagesStillInMq <= Capacity
    <3>1. ASSUME IInv PROVE numbOfImagesStillInMq \in Nat /\ Capacity \in Int
      BY <3>1, StreamsCounted, SizeAssumption
         DEF IInv, TypeOK, ServerTypeOK, Capacity
    <3>2. QED
      BY <3>1 DEF WrapIsTransient
  <2>1. Cardinality(In("counting")) = 0
    BY FS_EmptySet
  <2>2. Count >= 0
    BY <2>1, CountRange DEF Count, IInv, TypeOK
  <2>3. Count % Modulus = Count
    BY <2>2, CountRange, WrapValue
  <2>4. QED
    BY <2>3, CountRange DEF IInv, CounterExact
<1>2. QED
  BY <1>1, Inductive, PTL

-----------------------------------------------------------------------------
\* A step of the threads is a step of the abstract channel, or leaves it alone:
\* a write is accepted into room that is there, a credit delivers.
LEMMA StepImplements ==
  ASSUME IInv, [Next]_vars
  PROVE  [Channel!Next]_(Channel!vars)
<1> USE DEF Channel!vars
<1>1. Outstanding \in Nat /\ remote \in Nat /\ lost \in Nat /\ router \in {"receiving", "crediting"}
  BY CountRange DEF IInv, TypeOK, ServerTypeOK
<1>2. ASSUME NEW s \in Streams, MaySend(s) \/ SendFails(s) \/ CountSent(s)
      PROVE  UNCHANGED <<Outstanding, alive>>
  BY <1>2 DEF MaySend, CanSend, SendFails, NotWritten, CountSent, Sent, Outstanding
<1>3. ASSUME NEW s \in Streams, Send(s) PROVE Channel!Accept
  <2>1. Outstanding' = Outstanding + 1 /\ UNCHANGED alive
    BY <1>1, <1>3 DEF Send, Written, Outstanding
  <2>2. s \in In("sending")
    BY <1>3 DEF Send, Written, Move, In
  <2>3. Cardinality(In("sending")) >= 1
    <3>1. In("sending") # {}
      BY <2>2
    <3>2. QED
      BY <3>1, PhaseCounted, FS_EmptySet
  <2>4. Outstanding < Capacity
    BY <1>1, <2>3, PhaseCounted, StreamsCounted, SizeAssumption DEF IInv, Capacity
  <2>5. QED
    BY <2>1, <2>4 DEF Channel!Accept
<1>4. CASE ReceiveResult
  BY <1>1, <1>4 DEF ReceiveResult, ResultReceived, Outstanding
<1>5. CASE Credit
  <2>1. Outstanding' = Outstanding - 1 /\ Outstanding > 0 /\ UNCHANGED alive
    BY <1>1, <1>5 DEF Credit, Received, Outstanding
  <2>2. QED
    BY <2>1 DEF Channel!Next, Channel!Deliver
<1>6. ASSUME NEW n \in 0 .. remote, Lose(n)
      PROVE  n \in 0 .. Outstanding /\ Outstanding' = Outstanding - n
  <2>1. UNCHANGED router /\ remote' = remote - n
    BY <1>6 DEF Lose, serverVars
  <2>2. QED
    BY <1>1, <2>1 DEF Outstanding
<1>7. CASE LoseImage
  <2>1. 1 \in 0 .. remote /\ Lose(1) /\ alive /\ UNCHANGED alive
    BY <1>1, <1>7 DEF LoseImage
  <2>2. 1 \in 1 .. Outstanding /\ Outstanding' = Outstanding - 1
    BY <1>1, <1>6, <2>1
  <2>3. QED
    BY <2>1, <2>2 DEF Channel!Next, Channel!Lose
<1>8. CASE LoseProcess
  <2>1. PICK n \in 0 .. remote : Lose(n)
    BY <1>8 DEF LoseProcess
  <2>2. QED
    BY <1>6, <1>8, <2>1 DEF LoseProcess, Channel!Next, Channel!Close
<1>9. CASE UNCHANGED vars
  BY <1>9 DEF vars, Outstanding
<1>10. QED
  BY <1>2, <1>3, <1>4, <1>5, <1>7, <1>8, <1>9 DEF Next, Channel!Next

\* The safety part of ImplementsChannel: flow control is a bounded channel.
THEOREM RefinesChannel == Spec => Channel!Spec
<1>1. Init => Channel!Init
  BY DEF Init, ServerInit, Outstanding, Channel!Init
<1>2. IInv /\ [Next]_vars => [Channel!Next]_(Channel!vars)
  BY StepImplements
<1>3. QED
  BY <1>1, <1>2, Inductive, PTL DEF Spec, Channel!Spec
=============================================================================
