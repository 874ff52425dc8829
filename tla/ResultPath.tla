---------------------------- MODULE ResultPath ----------------------------
(***************************************************************************)
(* FlowControl with what its images carry: the way of an image to ONE      *)
(* analytic instance, and of what is said of it to a row of the results    *)
(* database.                                                               *)
(*                                                                         *)
(* A consumer thread sends one and the same image object to all its        *)
(* destinations, each time under the name that the destination has for the *)
(* stream; the analytic process reads it, analyses it and writes a result; *)
(* the router thread saves a result that asks for it.                      *)
(*                                                                         *)
(* Every step that moves an image is a step of FlowControl, and remote is  *)
(* the number of images in the four places on the way.  These are bags:    *)
(* order and the waiting of threads are in ImageFeed.  As in ImageFeed an  *)
(* image is the stream it comes from.                                      *)
(*                                                                         *)
(* The producer of a stream deletes the front of a full queue, also while  *)
(* the consumer is at it (ImageStream has the queue).  Using the object    *)
(* then is undefined: what is read is what was there, or other bytes       *)
(* (Garbage), or the server ends, which is to take no more steps.          *)
(***************************************************************************)
EXTENDS FlowControl, GpbMessages, Bags

CONSTANTS
  Clock,          \* for each stream, the time of its images
  Width, Height,  \* of every image
  InputName,      \* for each stream, the instance's name for it
  OtherName       \* and that of another destination of the stream

ASSUME PathAssumption ==
  /\ Width \in Nat /\ Height \in Nat
  /\ \A f \in {Clock, InputName, OtherName} : DOMAIN f = Streams

VARIABLES
  image,      \* the object that each stream's consumer is at, in a sequence
  served,     \* the streams whose consumer is past the instance with it
  deleted,    \* those whose object the queue has deleted
  misused,    \* an object was used that was deleted
  inputMq,    \* images, written
  inputs,     \* the process's images, before and
  outputs,    \* after the analytic
  resultsMq,  \* results, written
  saved       \* the row of the result that the router is at, in a sequence

onTheWay == <<inputMq, inputs, outputs, resultsMq>>
objects == <<image, served, deleted, misused>>
pathVars == <<vars, objects, onTheWay, saved>>

PathTypeOK ==
  /\ TypeOK
  /\ DOMAIN image = Streams
  /\ \A s \in Streams : Len(image[s]) <= 1 /\ (consumer[s] # "ready" => image[s] # <<>>)
  /\ served \subseteq Streams /\ deleted \subseteq Streams
  /\ \A s \in served \cup deleted : image[s] # <<>>
  /\ misused \in BOOLEAN
  /\ Len(saved) <= 1 /\ (saved # <<>> => router = "crediting")

Data(s) == <<s>>

\* The bytes of no image.
Garbage == ProducedImage(<<>>, 0, 0, "")

PathInit ==
  /\ Init
  /\ image = [s \in Streams |-> <<>>]
  /\ served = {} /\ deleted = {} /\ misused = FALSE
  /\ inputMq = EmptyBag /\ inputs = EmptyBag /\ outputs = EmptyBag /\ resultsMq = EmptyBag
  /\ saved = <<>>

Moved(bag, item) == bag (-) SetToBag({item})
Added(bag, item) == bag (+) SetToBag({item})

\* What may be left of the messages of a queue.
Parts(bag) ==
  {part \in UNION {[kept -> 1 .. BagCardinality(bag)] : kept \in SUBSET BagToSet(bag)} :
     part \sqsubseteq bag}

(***************************************************************************)
(* The consumer of stream s.                                               *)
(***************************************************************************)

\* The connector's image has come to the front of the queue.
TakeFront(s) ==
  /\ image[s] = <<>>
  /\ image' = [image EXCEPT ![s] = <<ProducedImage(Data(s), Width, Height, Clock[s])>>]
  /\ UNCHANGED <<vars, served, deleted, misused, onTheWay, saved>>

\* The producer's push finds the queue full and deletes its front.
Evict(s) ==
  /\ image[s] # <<>>
  /\ deleted' = deleted \cup {s}
  /\ UNCHANGED <<vars, image, served, misused, onTheWay, saved>>

Uses(s) == misused' = (misused \/ s \in deleted)

\* The object keeps the stream and the name of its last destination.
Renamed(s, name) == [image EXCEPT ![s][1].iStreamId = s, ![s][1].sInputName = name]

\* A destination before or after this one was sent the image, or the write failed.
SendElsewhere(s) ==
  /\ consumer[s] = "ready" /\ image[s] # <<>>
  /\ image' = Renamed(s, OtherName[s]) /\ Uses(s)
  /\ UNCHANGED <<vars, served, deleted, onTheWay, saved>>

PastInstance(s) == served' = served \cup {s}

\* The flow controller forbids it, or there is none.
Skip(s) ==
  /\ consumer[s] = "ready" /\ image[s] # <<>> /\ s \notin served
  /\ PastInstance(s)
  /\ UNCHANGED <<vars, image, deleted, misused, onTheWay, saved>>

Allowed(s) ==
  /\ image[s] # <<>> /\ s \notin served
  /\ MaySend(s)
  /\ UNCHANGED <<objects, onTheWay, saved>>

\* What the serializer makes of the object after it was given its name.
Serialized(s) ==
  {SerializeImage(object) : object \in {image'[s][1]} \cup (IF s \in deleted THEN {Garbage} ELSE {})}

\* Mutant: an image that has a name keeps it.
SendImageNamedOnce(s) ==
  /\ Send(s)
  /\ image' = IF image[s][1].sInputName = "" THEN Renamed(s, InputName[s]) ELSE image
  /\ Uses(s)
  /\ \E wire \in Serialized(s) : inputMq' = Added(inputMq, wire)
  /\ UNCHANGED <<served, deleted, inputs, outputs, resultsMq, saved>>

SendImage(s) ==
  /\ Send(s)
  /\ image' = Renamed(s, InputName[s]) /\ Uses(s)
  /\ \E wire \in Serialized(s) : inputMq' = Added(inputMq, wire)
  /\ UNCHANGED <<served, deleted, inputs, outputs, resultsMq, saved>>

\* There is no sender, or the write failed, or it is counted.  The log before that reads the
\* object, which may be deleted after.
EndTurn(s) ==
  /\ SendFails(s) \/ CountSent(s)
  /\ PastInstance(s)
  /\ Uses(s) \/ UNCHANGED misused
  /\ UNCHANGED <<image, deleted, onTheWay, saved>>

\* The last destination had its turn: what is in front of the queue is removed.
RemoveFront(s) ==
  /\ s \in served /\ consumer[s] = "ready"
  /\ image' = [image EXCEPT ![s] = <<>>]
  /\ served' = served \ {s} /\ deleted' = deleted \ {s}
  /\ UNCHANGED <<vars, misused, onTheWay, saved>>

(***************************************************************************)
(* The analytic process.                                                   *)
(***************************************************************************)

\* ProducerThread: the image decoded, with no result yet.
Image_t(decoded) ==
  [matImage |-> decoded.vImageData, iStreamId |-> decoded.iStreamId,
   sInputName |-> decoded.sInputName, sTimestamp |-> decoded.sTimestamp,
   sCustomTextResult |-> <<>>, bGenerateAnalyticEvent |-> FALSE]

ReceiveImage(wire) ==
  /\ alive
  /\ inputMq' = Moved(inputMq, wire)
  /\ inputs' = Added(inputs, Image_t(DeserializeImage(wire)))
  /\ UNCHANGED <<vars, objects, outputs, resultsMq, saved>>

\* The analytic has nothing to say of the image, or says what it was shown.
Process(shown) ==
  /\ alive
  /\ inputs' = Moved(inputs, shown)
  /\ \/ outputs' = Added(outputs, shown)
     \/ outputs' = Added(outputs,
          [shown EXCEPT !.sCustomTextResult = <<shown.matImage, shown.sInputName>>,
                        !.bGenerateAnalyticEvent = TRUE])
  /\ UNCHANGED <<vars, objects, inputMq, resultsMq, saved>>

\* It takes the image and pushes nothing.
Withhold(shown) ==
  /\ LoseImage
  /\ inputs' = Moved(inputs, shown)
  /\ UNCHANGED <<objects, inputMq, outputs, resultsMq, saved>>

\* ConsumerThread.
SendResult(out) ==
  /\ alive
  /\ outputs' = Moved(outputs, out)
  /\ resultsMq' = Added(resultsMq,
       SerializeResult(AnalyticResult(out.iStreamId, out.sInputName, out.sTimestamp,
                                      out.sCustomTextResult, out.bGenerateAnalyticEvent)))
  /\ UNCHANGED <<vars, objects, inputMq, inputs, saved>>

\* The process dies with what it holds, messages in its sockets among it.
RunnerDies ==
  /\ LoseProcess
  /\ \E unread \in Parts(inputMq), written \in Parts(resultsMq) :
       /\ remote' = BagCardinality(unread) + BagCardinality(written)
       /\ inputMq' = unread /\ resultsMq' = written
  /\ inputs' = EmptyBag /\ outputs' = EmptyBag
  /\ UNCHANGED <<objects, saved>>

RunnerStep ==
  \/ \E wire \in BagToSet(inputMq) : ReceiveImage(wire)
  \/ \E shown \in BagToSet(inputs) : Process(shown)
  \/ \E out \in BagToSet(outputs) : SendResult(out)

(***************************************************************************)
(* The router thread, which could open its queue and the database: one     *)
(* that could not has ended, and no result is read.                        *)
(***************************************************************************)

\* insertResults throws, or there is a new row.
InsertResults(result) ==
  \/ saved' = <<>>
  \/ saved' = <<[timestamp |-> result.sTimestamp, result_text |-> result.sCustomText]>>

RouteResult(wire) ==
  /\ ReceiveResult
  /\ resultsMq' = Moved(resultsMq, wire)
  /\ LET result == DeserializeAnalyticResult(wire)
     IN IF result.bWriteToDatabase THEN InsertResults(result) ELSE saved' = <<>>
  /\ UNCHANGED <<objects, inputMq, inputs, outputs>>

\* A result is credited whether it was saved or not.
CreditResult ==
  /\ Credit
  /\ saved' = <<>>
  /\ UNCHANGED <<objects, onTheWay>>

PathNext ==
  \/ \E s \in Streams : \/ TakeFront(s) \/ Evict(s) \/ SendElsewhere(s) \/ Skip(s)
                        \/ Allowed(s) \/ SendImage(s) \/ EndTurn(s) \/ RemoveFront(s)
  \/ RunnerStep
  \/ \E shown \in BagToSet(inputs) : Withhold(shown)
  \/ RunnerDies
  \/ \E wire \in BagToSet(resultsMq) : RouteResult(wire)
  \/ CreditResult

PathSpec == PathInit /\ [][PathNext]_pathVars

-----------------------------------------------------------------------------
\* An image of the stream, as the instance should see it.
IsOf(s, data, name, time) == data = Data(s) /\ name = InputName[s] /\ time = Clock[s]

(***************************************************************************)
(* What the analytic is shown is an image of one of its streams, whole,    *)
(* with its time and under the instance's own name for the stream,         *)
(* although the object goes through other destinations too; a row says     *)
(* what was said of such an image, and it was asked for.  No reader misses *)
(* a field that it requires, which neither of them would notice.  All this *)
(* until a consumer uses an object that its queue has deleted: an eviction *)
(* that falls between a removal and the next look at the front is harmless,*)
(* one that falls into a turn need not be.                                 *)
(***************************************************************************)
ShownAndSavedAreTrue == ~ misused =>
  /\ \A wire \in BagToSet(inputMq) : ImageIsInitialized(wire)
  /\ \A wire \in BagToSet(resultsMq) : ResultIsInitialized(wire)
  /\ \A shown \in BagToSet(inputs (+) outputs) :
       \E s \in Streams : IsOf(s, shown.matImage, shown.sInputName, shown.sTimestamp)
  /\ \A row \in ToSet(saved) :
       /\ row.result_text # <<>>
       /\ \E s \in Streams : IsOf(s, row.result_text[1], row.result_text[2], row.timestamp)
=============================================================================
