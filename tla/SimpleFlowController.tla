------------------------ MODULE SimpleFlowController ------------------------
(***************************************************************************)
(* The flow controller of ONE analytic instance, with the threads of the   *)
(* OpenCCTV Server that call it: the consumer thread (ImageMulticaster) of *)
(* every stream the instance takes as input, and the instance's result     *)
(* router thread.                                                          *)
(*                                                                         *)
(* Each method of the controller holds its mutex, so a method is one step; *)
(* a consumer calls canSendImageGeneratedAt, writes to the message queue   *)
(* and calls sent with the mutex released in between, so those are three.  *)
(* A consumer that is refused goes to its next destination: nothing the    *)
(* module keeps changes, and the refusal is a stuttering step.             *)
(*                                                                         *)
(* What lies between the write and the result is left to the modules that  *)
(* extend this one.                                                        *)
(***************************************************************************)
EXTENDS Integers, FiniteSets

CONSTANTS
  Streams,   \* the streams that feed this analytic instance
  MaxSize,   \* maxNumberOfImagesInRemoteQueue: remote_queue_size of the config
  Modulus    \* 2^w for the w-bit size_t of the counter

ASSUME StreamsAssumption ==
  /\ IsFiniteSet(Streams)
  /\ Streams # {}
ASSUME SizeAssumption ==
  /\ MaxSize \in Nat
  /\ Modulus \in Nat
  /\ Modulus > MaxSize + Cardinality(Streams)

VARIABLES
  consumer,                \* where each stream's consumer is in the multicast
  numbOfImagesStillInMq,   \* _numbOfImagesStillInMq, a size_t
  router                   \* where the result router thread is

serverVars == <<consumer, numbOfImagesStillInMq, router>>

ServerTypeOK ==
  /\ consumer \in [Streams -> {"ready", "sending", "counting"}]
  /\ numbOfImagesStillInMq \in 0 .. Modulus - 1
  /\ router \in {"receiving", "crediting"}

ServerInit ==
  /\ consumer = [s \in Streams |-> "ready"]
  /\ numbOfImagesStillInMq = 0
  /\ router = "receiving"

In(phase) == {s \in Streams : consumer[s] = phase}

Move(s, from, to) ==
  /\ consumer[s] = from
  /\ consumer' = [consumer EXCEPT ![s] = to]

(***************************************************************************)
(* The consumer of stream s, for this destination.                         *)
(***************************************************************************)

\* Mutant: <= for <.
CanSendAtLimit(s) ==
  /\ numbOfImagesStillInMq <= MaxSize
  /\ Move(s, "ready", "sending")
  /\ UNCHANGED <<numbOfImagesStillInMq, router>>

\* canSendImageGeneratedAt returns true.
CanSend(s) ==
  /\ numbOfImagesStillInMq < MaxSize
  /\ Move(s, "ready", "sending")
  /\ UNCHANGED <<numbOfImagesStillInMq, router>>

\* send() wrote the image to the analytic's input queue and returns true.
Written(s) ==
  /\ Move(s, "sending", "counting")
  /\ UNCHANGED <<numbOfImagesStillInMq, router>>

\* send() returns false, or its catch clause does: the image is not counted.
NotWritten(s) ==
  /\ Move(s, "sending", "ready")
  /\ UNCHANGED <<numbOfImagesStillInMq, router>>

\* sent(): ++_numbOfImagesStillInMq
Sent(s) ==
  /\ Move(s, "counting", "ready")
  /\ numbOfImagesStillInMq' = (numbOfImagesStillInMq + 1) % Modulus
  /\ UNCHANGED router

(***************************************************************************)
(* The result router of the instance.                                      *)
(***************************************************************************)

\* receiver.receive() returns a result; saving it to the database (or failing
\* to) changes nothing here.
ResultReceived ==
  /\ router = "receiving"
  /\ router' = "crediting"
  /\ UNCHANGED <<consumer, numbOfImagesStillInMq>>

\* Mutant: the counter is kept from going below zero.
ReceivedClamped ==
  /\ router = "crediting"
  /\ router' = "receiving"
  /\ numbOfImagesStillInMq' = IF numbOfImagesStillInMq = 0 THEN 0 ELSE numbOfImagesStillInMq - 1
  /\ UNCHANGED consumer

\* received(): --_numbOfImagesStillInMq
Received ==
  /\ router = "crediting"
  /\ router' = "receiving"
  /\ numbOfImagesStillInMq' = (numbOfImagesStillInMq - 1) % Modulus
  /\ UNCHANGED consumer
=============================================================================
