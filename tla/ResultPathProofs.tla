-------------------------- MODULE ResultPathProofs --------------------------
(***************************************************************************)
(* Proofs about GpbMessages and ResultPath, for any number of streams, any *)
(* names and times, and any number of images on the way.  First what is    *)
(* read of a message that was written, whatever its values and however     *)
(* many bytes it has; then that ResultPath is FlowControl with contents,   *)
(* so that the theorems about FlowControl are theorems about it; then what *)
(* the contents are at each of the places between a camera and a row of    *)
(* the database, which ShownAndSavedAreTrue says of four of them only.     *)
(***************************************************************************)
EXTENDS ResultPath, FlowControlProofs, SequenceTheorems

(***************************************************************************)
(* A field on the wire.                                                    *)
(***************************************************************************)

\* A field that was set is on the wire.
LEMMA FieldIsWritten ==
  ASSUME NEW object, NEW tags, NEW f \in object.has
  PROVE  Field(object, tags, f) = <<[tag |-> tags[f], value |-> object.value[f]]>>
BY DEF Field

\* Of fields that come once each, the reader has every one, with its value.
LEMMA ReadOnce ==
  ASSUME NEW wire, NEW tags, NEW object, NEW at, DOMAIN tags \subseteq DOMAIN object.value,
         \A f \in DOMAIN tags : at[f] \in Nat /\ Places(wire, tags[f]) = {at[f]}
  PROVE  /\ Read(wire, tags, object).has = object.has \cup DOMAIN tags
         /\ \A f \in DOMAIN tags : Read(wire, tags, object).value[f] = wire[at[f]].value
<1>1. ASSUME NEW f \in DOMAIN tags
      PROVE  Places(wire, tags[f]) # {} /\ Max(Places(wire, tags[f])) = at[f]
  <2>1. Places(wire, tags[f]) = {at[f]} /\ at[f] \in Nat
    OBVIOUS
  <2>2. QED
    BY <2>1 DEF Max
<1>2. {f \in DOMAIN tags : f \in DOMAIN tags /\ Places(wire, tags[f]) # {}} = DOMAIN tags
  BY <1>1
<1>3. Read(wire, tags, object).has = object.has \cup DOMAIN tags
  BY <1>2 DEF Read
<1>4. ASSUME NEW f \in DOMAIN tags PROVE Read(wire, tags, object).value[f] = wire[at[f]].value
  <2>1. f \in DOMAIN object.value
    OBVIOUS
  <2>2. QED
    BY <1>1, <2>1 DEF Read
<1>5. QED
  BY <1>3, <1>4

\* A repeated field that comes first, and nowhere else, is read as it was
\* written.
LEMMA RepeatedAreRead ==
  ASSUME NEW V, NEW data \in Seq(V), NEW wire, NEW tag,
         Places(wire, tag) = 1 .. Len(data),
         \A k \in 1 .. Len(data) : wire[k].value = data[k]
  PROVE  ValuesOf(wire, tag) = data
<1> DEFINE n == Len(data)
           Nth(i) == CHOOSE k \in 1 .. n : Cardinality({j \in 1 .. n : j <= k}) = i
<1>1. n \in Nat
  BY LenProperties
<1>2. ASSUME NEW k \in 1 .. n PROVE Cardinality({j \in 1 .. n : j <= k}) = k
  <2>1. {j \in 1 .. n : j <= k} = 1 .. k
    BY <1>1
  <2>2. Cardinality(1 .. k) = k
    BY <1>1, FS_Interval, 1 \in Int, k \in Int, 1 <= k
  <2>3. QED
    BY <2>1, <2>2
<1>3. ASSUME NEW i \in 1 .. n PROVE Nth(i) = i
  BY <1>2
<1>4. Cardinality(1 .. n) = n
  BY <1>1, FS_Interval
<1>5. ValuesOf(wire, tag) = [i \in 1 .. Cardinality(1 .. n) |-> wire[Nth(i)].value]
  BY DEF ValuesOf
<1> HIDE DEF Nth
<1>6. ValuesOf(wire, tag) = [i \in 1 .. n |-> data[i]]
  BY <1>3, <1>4, <1>5
<1>7. data = [i \in 1 .. n |-> data[i]]
  BY SeqDef
<1>8. QED
  BY <1>6, <1>7

(***************************************************************************)
(* An image.                                                               *)
(***************************************************************************)

\* What SetImageFields leaves is set, with the values of the object.
LEMMA ImageFieldsAreSet ==
  ASSUME NEW v, DOMAIN v = {"stream_id", "width", "height", "timestamp", "input_name"},
         NEW f \in DOMAIN v
  PROVE  f \in SetImageFields(v).has /\ SetImageFields(v).value[f] = v[f]
BY DEF SetImageFields, Setting, NewImageMessage, Object

\* The wire of an image: its bytes, then its five fields in the order of the
\* definition.
LEMMA ImageWire ==
  ASSUME NEW V, NEW object, object.vImageData \in Seq(V)
  PROVE  LET n == Len(object.vImageData)
             wire == SerializeImage(object)
         IN /\ DOMAIN wire = 1 .. n + 5
            /\ \A k \in 1 .. n : wire[k] = [tag |-> 8, value |-> object.vImageData[k]]
            /\ wire[n + 1] = [tag |-> 16, value |-> object.iWidth]
            /\ wire[n + 2] = [tag |-> 24, value |-> object.iHeight]
            /\ wire[n + 3] = [tag |-> 32, value |-> object.iStreamId]
            /\ wire[n + 4] = [tag |-> 42, value |-> object.sInputName]
            /\ wire[n + 5] = [tag |-> 50, value |-> object.sTimestamp]
<1> DEFINE data == object.vImageData
           n == Len(data)
           v == [stream_id |-> object.iStreamId, width |-> object.iWidth,
                 height |-> object.iHeight, timestamp |-> object.sTimestamp,
                 input_name |-> object.sInputName]
           message == SetImageFields(v)
           head == [k \in DOMAIN data |-> [tag |-> 8, value |-> data[k]]]
           a == [tag |-> 16, value |-> object.iWidth]
           b == [tag |-> 24, value |-> object.iHeight]
           c == [tag |-> 32, value |-> object.iStreamId]
           d == [tag |-> 42, value |-> object.sInputName]
           e == [tag |-> 50, value |-> object.sTimestamp]
           S == {[tag |-> 8, value |-> x] : x \in V} \cup {a, b, c, d, e}
<1>1. n \in Nat /\ DOMAIN data = 1 .. n /\ \A k \in 1 .. n : data[k] \in V
  BY LenProperties, ElementOfSeq
<1>2. head \in Seq(S) /\ Len(head) = n /\ \A k \in 1 .. n : head[k] = [tag |-> 8, value |-> data[k]]
  BY <1>1
<1>3. /\ Field(message, ImageTags, "width") = <<a>>
      /\ Field(message, ImageTags, "height") = <<b>>
      /\ Field(message, ImageTags, "stream_id") = <<c>>
      /\ Field(message, ImageTags, "input_name") = <<d>>
      /\ Field(message, ImageTags, "timestamp") = <<e>>
  <2>1. DOMAIN v = {"stream_id", "width", "height", "timestamp", "input_name"}
    OBVIOUS
  <2>2. \A f \in DOMAIN v : f \in message.has /\ message.value[f] = v[f]
    BY <2>1, ImageFieldsAreSet
  <2> HIDE DEF message
  <2>3. QED
    BY <2>1, <2>2, FieldIsWritten DEF ImageTags
<1> HIDE DEF head, a, b, c, d, e
<1> DEFINE w == head \o <<a>> \o <<b>> \o <<c>> \o <<d>> \o <<e>>
<1>4. SerializeImage(object) = w
  <2>1. SerializeImage(object) =
          head \o Field(message, ImageTags, "width") \o Field(message, ImageTags, "height")
          \o Field(message, ImageTags, "stream_id") \o Field(message, ImageTags, "input_name")
          \o Field(message, ImageTags, "timestamp")
    BY DEF SerializeImage, SerializedImage, head
  <2>2. QED
    BY <1>3, <2>1
<1>5. a \in S /\ b \in S /\ c \in S /\ d \in S /\ e \in S
  OBVIOUS
<1> HIDE DEF S
<1>6. /\ DOMAIN w = 1 .. n + 5
      /\ \A k \in 1 .. n : w[k] = head[k]
  BY <1>1, <1>2, <1>5
<1>7. w[n + 1] = a /\ w[n + 2] = b
  BY <1>1, <1>2, <1>5
<1>8. w[n + 3] = c /\ w[n + 4] = d /\ w[n + 5] = e
  BY <1>1, <1>2, <1>5
<1> HIDE DEF w
<1>9. QED
  BY <1>1, <1>2, <1>4, <1>6, <1>7, <1>8 DEF a, b, c, d, e

\* What the accessors give of a written image is what was set, and no field that
\* is required is missing.
THEOREM ImageIsRead ==
  ASSUME NEW V, NEW object, object.vImageData \in Seq(V)
  PROVE  LET wire == SerializeImage(object)
         IN /\ ImageIsInitialized(wire)
            /\ ImageFields(wire).width = object.iWidth
            /\ ImageFields(wire).height = object.iHeight
            /\ ImageFields(wire).stream_id = object.iStreamId
            /\ ImageFields(wire).input_name = object.sInputName
            /\ ImageFields(wire).timestamp = object.sTimestamp
            /\ ImageDataOf(wire) = object.vImageData
<1> DEFINE n == Len(object.vImageData)
           wire == SerializeImage(object)
           at == [width |-> n + 1, height |-> n + 2, stream_id |-> n + 3,
                  input_name |-> n + 4, timestamp |-> n + 5]
<1>1. n \in Nat
  BY LenProperties
<1>2. /\ DOMAIN wire = 1 .. n + 5
      /\ \A k \in 1 .. n : wire[k] = [tag |-> 8, value |-> object.vImageData[k]]
      /\ wire[n + 1] = [tag |-> 16, value |-> object.iWidth]
      /\ wire[n + 2] = [tag |-> 24, value |-> object.iHeight]
      /\ wire[n + 3] = [tag |-> 32, value |-> object.iStreamId]
      /\ wire[n + 4] = [tag |-> 42, value |-> object.sInputName]
      /\ wire[n + 5] = [tag |-> 50, value |-> object.sTimestamp]
  BY ImageWire
<1> HIDE DEF n, wire
<1>3. /\ wire[n + 1].tag = 16 /\ wire[n + 2].tag = 24 /\ wire[n + 3].tag = 32
      /\ wire[n + 4].tag = 42 /\ wire[n + 5].tag = 50
  BY <1>2
<1>4. ASSUME NEW k \in 1 .. n
      PROVE  wire[k].tag = 8 /\ wire[k].value = object.vImageData[k]
  <2>1. wire[k] = [tag |-> 8, value |-> object.vImageData[k]]
    BY <1>2
  <2>2. QED
    BY <2>1
<1>5. DOMAIN wire = (1 .. n) \cup {n + 1, n + 2, n + 3, n + 4, n + 5}
  <2>1. 1 .. n + 5 = (1 .. n) \cup {n + 1, n + 2, n + 3, n + 4, n + 5}
    BY <1>1
  <2>2. QED
    BY <1>2, <2>1
<1>6. Places(wire, 8) = 1 .. n
  <2>1. \A k \in {n + 1, n + 2, n + 3, n + 4, n + 5} : wire[k].tag # 8
    BY <1>3
  <2>2. \A k \in 1 .. n : wire[k].tag = 8
    BY <1>4
  <2>3. QED
    BY <1>5, <2>1, <2>2 DEF Places
<1>7. /\ Places(wire, 16) = {n + 1} /\ Places(wire, 24) = {n + 2} /\ Places(wire, 32) = {n + 3}
      /\ Places(wire, 42) = {n + 4} /\ Places(wire, 50) = {n + 5}
  <2> USE <1>1, <1>3, <1>4, <1>5 DEF Places
  <2>1. Places(wire, 16) = {n + 1}
    OBVIOUS
  <2>2. Places(wire, 24) = {n + 2}
    OBVIOUS
  <2>3. Places(wire, 32) = {n + 3}
    OBVIOUS
  <2>4. Places(wire, 42) = {n + 4}
    OBVIOUS
  <2>5. Places(wire, 50) = {n + 5}
    OBVIOUS
  <2>6. QED
    BY <2>1, <2>2, <2>3, <2>4, <2>5
<1>8. ImageDataOf(wire) = object.vImageData
  BY <1>4, <1>6, RepeatedAreRead DEF ImageDataOf, n
<1>9. /\ DOMAIN ImageTagsRead \subseteq DOMAIN NewParsedImage.value
      /\ \A f \in DOMAIN ImageTagsRead :
           at[f] \in Nat /\ Places(wire, ImageTagsRead[f]) = {at[f]}
  BY <1>1, <1>7 DEF ImageTagsRead, NewParsedImage, Object
<1> HIDE DEF at
<1>10. /\ ParsedImage(wire).has = NewParsedImage.has \cup DOMAIN ImageTagsRead
       /\ \A f \in DOMAIN ImageTagsRead : ParsedImage(wire).value[f] = wire[at[f]].value
  BY <1>9, ReadOnce DEF ParsedImage
<1>11. DOMAIN ImageTagsRead = {"width", "height", "stream_id", "input_name", "timestamp"}
  BY DEF ImageTagsRead
<1>12. /\ ImageFields(wire).width = wire[n + 1].value
       /\ ImageFields(wire).height = wire[n + 2].value
       /\ ImageFields(wire).stream_id = wire[n + 3].value
       /\ ImageFields(wire).input_name = wire[n + 4].value
       /\ ImageFields(wire).timestamp = wire[n + 5].value
  BY <1>10, <1>11 DEF ImageFields, at
<1>13. ImageIsInitialized(wire)
  BY <1>10, <1>11 DEF ImageIsInitialized
<1>14. /\ wire[n + 1].value = object.iWidth /\ wire[n + 2].value = object.iHeight
       /\ wire[n + 3].value = object.iStreamId
       /\ wire[n + 4].value = object.sInputName /\ wire[n + 5].value = object.sTimestamp
  BY <1>2
<1>15. QED
  BY <1>8, <1>12, <1>13, <1>14 DEF wire

(***************************************************************************)
(* A result.                                                               *)
(***************************************************************************)

\* What SetResultFields leaves is set, with the values of the result.
LEMMA ResultFieldsAreSet ==
  ASSUME NEW v,
         DOMAIN v = {"stream_id", "input_name", "timestamp", "custom_text", "write_to_db"},
         NEW f \in DOMAIN v
  PROVE  f \in SetResultFields(v).has /\ SetResultFields(v).value[f] = v[f]
BY DEF SetResultFields, Setting, NewResultMessage, Object

\* The wire of a result: its five fields in the order of the definition.
LEMMA ResultWire ==
  ASSUME NEW result
  PROVE  LET wire == SerializeResult(result)
         IN /\ DOMAIN wire = 1 .. 5
            /\ wire[1] = [tag |-> 8, value |-> result.iStreamId]
            /\ wire[2] = [tag |-> 18, value |-> result.sInputName]
            /\ wire[3] = [tag |-> 26, value |-> result.sTimestamp]
            /\ wire[4] = [tag |-> 34, value |-> result.sCustomText]
            /\ wire[5] = [tag |-> 40, value |-> result.bWriteToDatabase]
<1> DEFINE v == [stream_id |-> result.iStreamId, input_name |-> result.sInputName,
                 timestamp |-> result.sTimestamp, custom_text |-> result.sCustomText,
                 write_to_db |-> result.bWriteToDatabase]
           message == SetResultFields(v)
           a == [tag |-> 8, value |-> result.iStreamId]
           b == [tag |-> 18, value |-> result.sInputName]
           c == [tag |-> 26, value |-> result.sTimestamp]
           d == [tag |-> 34, value |-> result.sCustomText]
           e == [tag |-> 40, value |-> result.bWriteToDatabase]
           S == {a, b, c, d, e}
<1>1. /\ Field(message, ResultTags, "stream_id") = <<a>>
      /\ Field(message, ResultTags, "input_name") = <<b>>
      /\ Field(message, ResultTags, "timestamp") = <<c>>
      /\ Field(message, ResultTags, "custom_text") = <<d>>
      /\ Field(message, ResultTags, "write_to_db") = <<e>>
  <2>1. DOMAIN v = {"stream_id", "input_name", "timestamp", "custom_text", "write_to_db"}
    OBVIOUS
  <2>2. \A f \in DOMAIN v : f \in message.has /\ message.value[f] = v[f]
    BY <2>1, ResultFieldsAreSet
  <2> HIDE DEF message
  <2>3. QED
    BY <2>1, <2>2, FieldIsWritten DEF ResultTags
<1> HIDE DEF a, b, c, d, e
<1> DEFINE w == <<a>> \o <<b>> \o <<c>> \o <<d>> \o <<e>>
<1>2. SerializeResult(result) = w
  BY <1>1 DEF SerializeResult, SerializedResult
<1>3. a \in S /\ b \in S /\ c \in S /\ d \in S /\ e \in S
  OBVIOUS
<1> HIDE DEF S
<1>4. DOMAIN w = 1 .. 5
  BY <1>3
<1>5. w[1] = a /\ w[2] = b /\ w[3] = c
  BY <1>3
<1>6. w[4] = d /\ w[5] = e
  BY <1>3
<1> HIDE DEF w
<1>7. QED
  BY <1>2, <1>4, <1>5, <1>6 DEF a, b, c, d, e

\* What the server reads of a written result.
THEOREM ResultIsRead ==
  ASSUME NEW result
  PROVE  LET wire == SerializeResult(result)
         IN /\ ResultIsInitialized(wire)
            /\ DeserializeAnalyticResult(wire) = 
                 [iStreamId |-> result.iStreamId, sInputName |-> "",
                  sTimestamp |-> result.sTimestamp, sCustomText |-> result.sCustomText,
                  bWriteToDatabase |-> result.bWriteToDatabase]
<1> DEFINE wire == SerializeResult(result)
           at == [stream_id |-> 1, input_name |-> 2, timestamp |-> 3, custom_text |-> 4,
                  write_to_db |-> 5]
<1>1. /\ DOMAIN wire = 1 .. 5
      /\ wire[1] = [tag |-> 8, value |-> result.iStreamId]
      /\ wire[2] = [tag |-> 18, value |-> result.sInputName]
      /\ wire[3] = [tag |-> 26, value |-> result.sTimestamp]
      /\ wire[4] = [tag |-> 34, value |-> result.sCustomText]
      /\ wire[5] = [tag |-> 40, value |-> result.bWriteToDatabase]
  BY ResultWire
<1> HIDE DEF wire
<1>2. /\ wire[1].tag = 8 /\ wire[2].tag = 18 /\ wire[3].tag = 26 /\ wire[4].tag = 34
      /\ wire[5].tag = 40
  BY <1>1
<1>3. DOMAIN wire = {1, 2, 3, 4, 5}
  BY <1>1
<1>4. /\ Places(wire, 8) = {1} /\ Places(wire, 18) = {2} /\ Places(wire, 26) = {3}
      /\ Places(wire, 34) = {4} /\ Places(wire, 40) = {5}
  BY <1>2, <1>3 DEF Places
<1>5. DOMAIN ResultTagsRead = {"stream_id", "input_name", "timestamp", "custom_text", "write_to_db"}
  BY DEF ResultTagsRead
<1>6. /\ DOMAIN ResultTagsRead \subseteq DOMAIN NewParsedResult.value
      /\ \A f \in DOMAIN ResultTagsRead :
           at[f] \in Nat /\ Places(wire, ResultTagsRead[f]) = {at[f]}
  BY <1>4 DEF ResultTagsRead, NewParsedResult, Object
<1> HIDE DEF at
<1>7. /\ ParsedResult(wire).has = NewParsedResult.has \cup DOMAIN ResultTagsRead
      /\ \A f \in DOMAIN ResultTagsRead : ParsedResult(wire).value[f] = wire[at[f]].value
  BY <1>6, ReadOnce DEF ParsedResult
<1>8. ResultIsInitialized(wire)
  BY <1>7 DEF ResultIsInitialized, NewParsedResult, Object
<1>9. /\ ResultFields(wire).stream_id = wire[1].value
      /\ ResultFields(wire).timestamp = wire[3].value
      /\ ResultFields(wire).custom_text = wire[4].value
      /\ ResultFields(wire).write_to_db = wire[5].value
  BY <1>5, <1>7 DEF ResultFields, at
<1>10. QED
  BY <1>1, <1>8, <1>9 DEF wire, DeserializeAnalyticResult, RoutedResult

(***************************************************************************)
(* The bags.                                                               *)
(***************************************************************************)

\* What is in a bag after a message came, after one went, when two are put
\* together, at first, and when the process died.
LEMMA AddedHolds ==
  ASSUME NEW bag, NEW item
  PROVE  BagToSet(Added(bag, item)) = BagToSet(bag) \cup {item}
BY DEF Added, BagToSet, SetToBag, (+)

LEMMA MovedHolds ==
  ASSUME NEW bag, NEW item
  PROVE  BagToSet(Moved(bag, item)) \subseteq BagToSet(bag)
BY DEF Moved, BagToSet, SetToBag, (-)

LEMMA BothHold ==
  ASSUME NEW bag, NEW other
  PROVE  BagToSet(bag (+) other) = BagToSet(bag) \cup BagToSet(other)
BY DEF BagToSet, (+)

LEMMA EmptyHolds == BagToSet(EmptyBag) = {}
BY DEF EmptyBag, BagToSet, SetToBag

LEMMA PartsHold ==
  ASSUME NEW bag, NEW part \in Parts(bag)
  PROVE  BagToSet(part) \subseteq BagToSet(bag)
BY DEF Parts, BagToSet

(***************************************************************************)
(* What may be at each place.                                              *)
(***************************************************************************)

\* The object of stream s, under the name of any of its destinations.
Objects(s) ==
  [vImageData : {Data(s)}, iWidth : {Width}, iHeight : {Height}, iStreamId : {0, s},
   sInputName : {"", OtherName[s], InputName[s]}, sTimestamp : {Clock[s]}]

\* What the process makes of it: the instance's name for the stream, and no id.
Shown(s) ==
  [matImage : {Data(s)}, iStreamId : {0}, sInputName : {InputName[s]}, sTimestamp : {Clock[s]},
   sCustomTextResult : {<<>>}, bGenerateAnalyticEvent : {FALSE}]

Said(s) ==
  [matImage : {Data(s)}, iStreamId : {0}, sInputName : {InputName[s]}, sTimestamp : {Clock[s]},
   sCustomTextResult : {<<Data(s), InputName[s]>>}, bGenerateAnalyticEvent : {TRUE}]

ResultOf(out) ==
  AnalyticResult(out.iStreamId, out.sInputName, out.sTimestamp, out.sCustomTextResult,
                 out.bGenerateAnalyticEvent)

Row(s) == [timestamp |-> Clock[s], result_text |-> <<Data(s), InputName[s]>>]

\* Of each place: what is there comes of some stream.
ImagesTrue == \A s \in Streams : image[s] = <<>> \/ \E object \in Objects(s) : image[s] = <<object>>

WireOf(wire, s) ==
  \E object \in Objects(s) :
    object.sInputName = InputName[s] /\ wire = SerializeImage(object)

InputMqTrue == \A wire \in BagToSet(inputMq) : \E s \in Streams : WireOf(wire, s)

InputsTrue == \A shown \in BagToSet(inputs) : \E s \in Streams : shown \in Shown(s)

OutputsTrue == \A out \in BagToSet(outputs) : \E s \in Streams : out \in Shown(s) \cup Said(s)

ResultsMqTrue ==
  \A wire \in BagToSet(resultsMq) :
    \E s \in Streams : \E out \in Shown(s) \cup Said(s) : wire = SerializeResult(ResultOf(out))

SavedTrue == saved = <<>> \/ \E s \in Streams : saved = <<Row(s)>>

WayTrue == InputMqTrue /\ InputsTrue /\ OutputsTrue /\ ResultsMqTrue /\ SavedTrue

\* The objects are what they are whether anything was misused or not; what is on
\* the way only comes of them until then.
ObjectsInv == PathTypeOK /\ ImagesTrue

PathIInv == ObjectsInv /\ (~ misused => WayTrue)

-----------------------------------------------------------------------------
\* Every step is a step of FlowControl, or moves what it does not count.
LEMMA PathStep == PathNext => [Next]_vars
<1> SUFFICES ASSUME PathNext PROVE [Next]_vars
  OBVIOUS
<1>1. ASSUME NEW s \in Streams,
             TakeFront(s) \/ Evict(s) \/ SendElsewhere(s) \/ Skip(s) \/ RemoveFront(s)
      PROVE  UNCHANGED vars
  BY <1>1 DEF TakeFront, Evict, SendElsewhere, Skip, RemoveFront
<1>2. ASSUME NEW s \in Streams, Allowed(s) \/ SendImage(s) \/ EndTurn(s)
      PROVE  MaySend(s) \/ Send(s) \/ SendFails(s) \/ CountSent(s)
  BY <1>2 DEF Allowed, SendImage, EndTurn
<1>3. CASE RunnerStep
  BY <1>3 DEF RunnerStep, ReceiveImage, Process, SendResult
<1>4. CASE (\E shown \in BagToSet(inputs) : Withhold(shown)) \/ RunnerDies
  BY <1>4 DEF Withhold, RunnerDies, Next
<1>5. CASE \E wire \in BagToSet(resultsMq) : RouteResult(wire)
  BY <1>5 DEF RouteResult, Next
<1>6. CASE CreditResult
  BY <1>6 DEF CreditResult, Next
<1>7. QED
  BY <1>1, <1>2, <1>3, <1>4, <1>5, <1>6 DEF PathNext, Next

\* What an image carries changes nothing of the way it takes: ResultPath is
\* FlowControl, whose theorems hold of it.
THEOREM PathIsFlowControl == PathSpec => Spec
<1>1. PathInit => Init
  BY DEF PathInit
<1>2. [PathNext]_pathVars => [Next]_vars
  BY PathStep DEF pathVars
<1>3. QED
  BY <1>1, <1>2, PTL DEF PathSpec, Spec

\* The bounds and the count of FlowControl, of a path with contents.
THEOREM PathKeepsCount == PathSpec => [](OutstandingBounded /\ CounterExact)
<1>1. QED
  BY PathIsFlowControl, OutstandingIsBounded, CounterIsExact, PTL

\* The path that the images take is a bounded channel.
THEOREM PathRefinesChannel == PathSpec => Channel!Spec
BY PathIsFlowControl, RefinesChannel, PTL

-----------------------------------------------------------------------------
\* The length of what is kept in place of an option.
LEMMA OneAtMost == \A x : x = <<>> \/ (\E item : x = <<item>>) => Len(x) <= 1
<1>1. Len(<<>>) = 0 /\ \A item : Len(<<item>>) = 1
  OBVIOUS
<1>2. TAKE x
<1>3. ASSUME NEW item, x = <<item>> PROVE Len(x) <= 1
  BY <1>3
<1>4. QED
  BY <1>1, <1>3

\* Nothing is on the way at first.
LEMMA PathInitInductive == PathInit => PathIInv
<1> SUFFICES ASSUME PathInit PROVE PathIInv
  OBVIOUS
<1>1. PathTypeOK
  <2>1. TypeOK
    BY InitInductive DEF PathInit, IInv
  <2>2. /\ consumer = [s \in Streams |-> "ready"] /\ image = [s \in Streams |-> <<>>]
        /\ served = {} /\ deleted = {} /\ misused = FALSE /\ saved = <<>>
    BY DEF PathInit, Init, ServerInit
  <2>3. QED
    BY <2>1, <2>2, OneAtMost DEF PathTypeOK
<1>2. ImagesTrue /\ WayTrue
  BY EmptyHolds
     DEF PathInit, WayTrue, ImagesTrue, InputMqTrue, InputsTrue, OutputsTrue, ResultsMqTrue,
         SavedTrue
<1>3. QED
  BY <1>1, <1>2 DEF PathIInv, ObjectsInv

\* A step that leaves a place alone, or only takes from it, leaves it true.
LEMMA FewerAreTrue ==
  ASSUME WayTrue
  PROVE  /\ BagToSet(inputMq') \subseteq BagToSet(inputMq) => InputMqTrue'
         /\ BagToSet(inputs') \subseteq BagToSet(inputs) => InputsTrue'
         /\ BagToSet(outputs') \subseteq BagToSet(outputs) => OutputsTrue'
         /\ BagToSet(resultsMq') \subseteq BagToSet(resultsMq) => ResultsMqTrue'
         /\ saved' \in {saved, <<>>} => SavedTrue'
BY DEF WayTrue, InputMqTrue, InputsTrue, OutputsTrue, ResultsMqTrue, SavedTrue

(***************************************************************************)
(* The objects.                                                            *)
(***************************************************************************)

\* A destination changes the id and the name of the object, and nothing else.
LEMMA RenamedIsObject ==
  ASSUME ObjectsInv, NEW s \in Streams, image[s] # <<>>,
         NEW name \in {OtherName[s], InputName[s]}
  PROVE  \E object \in Objects(s) :
           /\ object.sInputName = name
           /\ Renamed(s, name) = [image EXCEPT ![s] = <<object>>]
<1>1. PICK old \in Objects(s) : image[s] = <<old>>
  BY DEF ObjectsInv, ImagesTrue
<1> DEFINE object == [old EXCEPT !.iStreamId = s, !.sInputName = name]
<1>2. object \in Objects(s) /\ object.sInputName = name
  BY <1>1 DEF Objects
<1>3. [<<old>> EXCEPT ![1].iStreamId = s, ![1].sInputName = name] = <<object>>
  OBVIOUS
<1>4. s \in DOMAIN image
  BY DEF ObjectsInv, PathTypeOK
<1>5. Renamed(s, name) =
        [image EXCEPT ![s] = [image[s] EXCEPT ![1].iStreamId = s, ![1].sInputName = name]]
  BY <1>4 DEF Renamed
<1>6. QED
  BY <1>1, <1>2, <1>3, <1>5

\* What ObjectsInv says of the consumers.
ConsumersInv ==
  /\ DOMAIN image = Streams
  /\ \A s \in Streams : Len(image[s]) <= 1 /\ (consumer[s] # "ready" => image[s] # <<>>)
  /\ served \subseteq Streams /\ deleted \subseteq Streams
  /\ \A s \in served \cup deleted : image[s] # <<>>
  /\ misused \in BOOLEAN
  /\ ImagesTrue

\* The object of one stream comes, is renamed, or goes.
LEMMA ObjectIsTrue ==
  ASSUME ObjectsInv, NEW s \in Streams,
         NEW now, now = <<>> \/ \E object \in Objects(s) : now = <<object>>,
         image' = [image EXCEPT ![s] = now],
         \A t \in Streams \ {s} : consumer'[t] = consumer[t],
         now # <<>> \/ (consumer'[s] = "ready" /\ s \notin served' \cup deleted'),
         served' \subseteq served \cup {s}, deleted' \subseteq deleted \cup {s},
         misused' \in BOOLEAN
  PROVE  ConsumersInv'
<1>1. DOMAIN image' = Streams /\ image'[s] = now
      /\ \A t \in Streams \ {s} : image'[t] = image[t]
  BY DEF ObjectsInv, PathTypeOK
<1>2. ImagesTrue'
  BY <1>1 DEF ObjectsInv, ImagesTrue
<1>3. ASSUME NEW t \in Streams PROVE Len(image'[t]) <= 1
  <2>1. image'[t] = <<>> \/ \E object \in Objects(t) : image'[t] = <<object>>
    BY <1>2 DEF ImagesTrue
  <2>2. QED
    BY <2>1, OneAtMost
<1>4. ASSUME NEW t \in Streams, consumer'[t] # "ready" \/ t \in served' \cup deleted'
      PROVE  image'[t] # <<>>
  BY <1>1, <1>4 DEF ObjectsInv, PathTypeOK
<1>5. served' \subseteq Streams /\ deleted' \subseteq Streams
  BY DEF ObjectsInv, PathTypeOK
<1>6. QED
  BY <1>1, <1>2, <1>3, <1>4, <1>5 DEF ConsumersInv

\* The steps of a consumer and its producer.
LEMMA ConsumersInductive ==
  ASSUME ObjectsInv, NEW s \in Streams,
         \/ TakeFront(s) \/ Evict(s) \/ SendElsewhere(s) \/ Skip(s)
         \/ Allowed(s) \/ SendImage(s) \/ EndTurn(s) \/ RemoveFront(s)
  PROVE  ConsumersInv' /\ UNCHANGED <<router, saved>> /\ (misused => misused')
<1> USE DEF Uses, PastInstance
<1>1. /\ consumer \in [Streams -> {"ready", "sending", "counting"}]
      /\ DOMAIN image = Streams /\ misused \in BOOLEAN
      /\ served \subseteq Streams /\ deleted \subseteq Streams
      /\ \A t \in Streams : consumer[t] # "ready" \/ t \in served \cup deleted => image[t] # <<>>
  BY DEF ObjectsInv, PathTypeOK, TypeOK, ServerTypeOK
<1>2. UNCHANGED <<router, saved>> /\ (misused => misused')
  <2>1. UNCHANGED <<router, saved>>
    BY DEF TakeFront, Evict, SendElsewhere, Skip, Allowed, SendImage, EndTurn, RemoveFront, vars,
           MaySend, CanSend, Send, Written, SendFails, NotWritten, CountSent, Sent
  <2>2. ASSUME misused, Uses(s) \/ UNCHANGED misused PROVE misused'
    BY <2>2, Zenon
  <2>3. Uses(s) \/ UNCHANGED misused
    BY DEF TakeFront, Evict, SendElsewhere, Skip, Allowed, objects, SendImage, EndTurn, RemoveFront
  <2>4. QED
    BY <2>1, <2>2, <2>3, Zenon
<1>3. ASSUME NEW to, consumer' = [consumer EXCEPT ![s] = to]
      PROVE  consumer'[s] = to /\ \A t \in Streams \ {s} : consumer'[t] = consumer[t]
  BY <1>1, <1>3
<1>4. CASE TakeFront(s)
  <2>1. ProducedImage(Data(s), Width, Height, Clock[s]) \in Objects(s)
    BY DEF ProducedImage, Objects
  <2>2. UNCHANGED <<consumer, served, deleted, misused>>
    BY <1>4 DEF TakeFront, vars
  <2>3. QED
    BY <1>1, <1>2, <1>4, <2>1, <2>2, ObjectIsTrue DEF TakeFront
<1>5. CASE SendElsewhere(s)
  <2>1. UNCHANGED <<consumer, served, deleted>> /\ misused' \in BOOLEAN
    BY <1>1, <1>5 DEF SendElsewhere, vars
  <2>2. PICK object \in Objects(s) : Renamed(s, OtherName[s]) = [image EXCEPT ![s] = <<object>>]
    BY <1>5, RenamedIsObject DEF SendElsewhere
  <2>3. image' = [image EXCEPT ![s] = <<object>>]
    BY <1>5, <2>2 DEF SendElsewhere
  <2>4. QED
    BY <1>2, <2>1, <2>3, ObjectIsTrue
<1>6. CASE SendImage(s)
  <2>1. consumer[s] = "sending" /\ consumer' = [consumer EXCEPT ![s] = "counting"]
    BY <1>6 DEF SendImage, Send, Written, Move
  <2>2. UNCHANGED <<served, deleted>> /\ misused' \in BOOLEAN
    BY <1>1, <1>6 DEF SendImage
  <2>3. PICK object \in Objects(s) : Renamed(s, InputName[s]) = [image EXCEPT ![s] = <<object>>]
    BY <1>1, <2>1, RenamedIsObject
  <2>4. image' = [image EXCEPT ![s] = <<object>>]
    BY <1>6, <2>3 DEF SendImage
  <2>5. QED
    BY <1>2, <1>3, <2>1, <2>2, <2>4, ObjectIsTrue
<1>7. CASE Evict(s) \/ Skip(s) \/ Allowed(s) \/ EndTurn(s)
  <2>1. image[s] # <<>> /\ UNCHANGED image
    BY <1>1, <1>7 DEF Evict, Skip, Allowed, objects, EndTurn, SendFails, NotWritten, CountSent, Sent, Move
  <2>2. /\ served' \subseteq served \cup {s} /\ deleted' \subseteq deleted \cup {s}
        /\ misused' \in BOOLEAN
    BY <1>1, <1>7 DEF Evict, Skip, Allowed, objects, EndTurn
  <2>3. \A t \in Streams \ {s} : consumer'[t] = consumer[t]
    BY <1>1, <1>7 DEF Evict, Skip, vars, Allowed, MaySend, CanSend, EndTurn, SendFails, NotWritten,
                     CountSent, Sent, Move
  <2>4. ImagesTrue'
    BY <2>1 DEF ObjectsInv, ImagesTrue
  <2>5. QED
    BY <1>1, <1>2, <2>1, <2>2, <2>3, <2>4 DEF ObjectsInv, PathTypeOK, ConsumersInv
<1>8. CASE RemoveFront(s)
  <2>1. /\ image' = [image EXCEPT ![s] = <<>>] /\ UNCHANGED <<consumer, misused>>
        /\ consumer[s] = "ready" /\ served' = served \ {s} /\ deleted' = deleted \ {s}
    BY <1>8 DEF RemoveFront, vars
  <2>2. QED
    BY <1>1, <1>2, <2>1, ObjectIsTrue
<1>9. QED
  BY <1>4, <1>5, <1>6, <1>7, <1>8

\* The other steps leave the objects alone.
LEMMA OthersLeaveObjects ==
  ASSUME \/ RunnerStep
         \/ \E shown \in BagToSet(inputs) : Withhold(shown)
         \/ RunnerDies
         \/ \E wire \in BagToSet(resultsMq) : RouteResult(wire)
         \/ CreditResult
         \/ UNCHANGED pathVars
  PROVE  UNCHANGED <<consumer, image, served, deleted, misused>>
BY DEF RunnerStep, ReceiveImage, Process, SendResult, Withhold, LoseImage, RunnerDies, LoseProcess,
       Lose, serverVars, RouteResult, ReceiveResult, ResultReceived, CreditResult, Credit, Received,
       pathVars, vars, objects

\* A row is at a router that credits its result.
LEMMA RowIsCredited ==
  ASSUME PathTypeOK,
         \/ RunnerStep
         \/ \E shown \in BagToSet(inputs) : Withhold(shown)
         \/ RunnerDies
         \/ \E wire \in BagToSet(resultsMq) : RouteResult(wire)
         \/ CreditResult
         \/ UNCHANGED pathVars
  PROVE  Len(saved') <= 1 /\ (saved' # <<>> => router' = "crediting")
<1>1. CASE UNCHANGED <<saved, router>>
  BY <1>1 DEF PathTypeOK
<1>2. CASE \E wire \in BagToSet(resultsMq) : RouteResult(wire)
  <2>1. router' = "crediting" /\ (saved' = <<>> \/ \E row : saved' = <<row>>)
    BY <1>2 DEF RouteResult, ReceiveResult, ResultReceived, InsertResults
  <2>2. QED
    BY <2>1, OneAtMost
<1>3. CASE CreditResult
  BY <1>3, OneAtMost DEF CreditResult
<1>4. QED
  BY <1>1, <1>2, <1>3
     DEF RunnerStep, ReceiveImage, Process, SendResult, Withhold, LoseImage, RunnerDies,
         LoseProcess, Lose, serverVars, pathVars, vars

LEMMA ObjectsInductive ==
  ASSUME ObjectsInv, TypeOK', [PathNext]_pathVars
  PROVE  ObjectsInv' /\ (misused => misused')
<1>1. ASSUME NEW s \in Streams,
             \/ TakeFront(s) \/ Evict(s) \/ SendElsewhere(s) \/ Skip(s)
             \/ Allowed(s) \/ SendImage(s) \/ EndTurn(s) \/ RemoveFront(s)
      PROVE  ObjectsInv' /\ (misused => misused')
  <2>1. ConsumersInv' /\ UNCHANGED <<router, saved>> /\ (misused => misused')
    BY <1>1, ConsumersInductive
  <2>2. PathTypeOK'
    BY <2>1 DEF ObjectsInv, PathTypeOK, ConsumersInv
  <2>3. QED
    BY <2>1, <2>2 DEF ObjectsInv, ConsumersInv
<1>2. ASSUME \/ RunnerStep
             \/ \E shown \in BagToSet(inputs) : Withhold(shown)
             \/ RunnerDies
             \/ \E wire \in BagToSet(resultsMq) : RouteResult(wire)
             \/ CreditResult
             \/ UNCHANGED pathVars
      PROVE  ObjectsInv' /\ (misused => misused')
  <2>1. UNCHANGED <<consumer, image, served, deleted, misused>>
    BY <1>2, OthersLeaveObjects
  <2>2. Len(saved') <= 1 /\ (saved' # <<>> => router' = "crediting")
    BY <1>2, RowIsCredited DEF ObjectsInv
  <2>3. PathTypeOK'
    BY <2>1, <2>2 DEF ObjectsInv, PathTypeOK
  <2>4. ImagesTrue'
    BY <2>1 DEF ObjectsInv, ImagesTrue
  <2>5. QED
    BY <2>1, <2>3, <2>4 DEF ObjectsInv
<1>3. QED
  BY <1>1, <1>2 DEF PathNext

(***************************************************************************)
(* What is on the way, until a deleted object is used.                     *)
(***************************************************************************)

\* What the process makes of a message that was written under the instance's name.
LEMMA WireIsShown ==
  ASSUME NEW s \in Streams, NEW wire, WireOf(wire, s)
  PROVE  ImageIsInitialized(wire) /\ Image_t(DeserializeImage(wire)) \in Shown(s)
<1>1. PICK object \in Objects(s) :
        object.sInputName = InputName[s] /\ wire = SerializeImage(object)
  BY DEF WireOf
<1>2. object.vImageData = Data(s) /\ object.sTimestamp = Clock[s]
  BY <1>1 DEF Objects
<1>3. object.vImageData \in Seq(Streams)
  BY <1>2 DEF Data
<1>4. /\ ImageIsInitialized(wire)
      /\ ImageFields(wire).input_name = InputName[s]
      /\ ImageFields(wire).timestamp = Clock[s]
      /\ ImageDataOf(wire) = Data(s)
  BY <1>1, <1>2, <1>3, ImageIsRead
<1> DEFINE decoded == DeserializeImage(wire)
<1>5. /\ decoded.vImageData = Data(s) /\ decoded.sTimestamp = Clock[s]
      /\ decoded.sInputName = InputName[s] /\ decoded.iStreamId = 0
  BY <1>4 DEF DeserializeImage, NewImage
<1> HIDE DEF decoded
<1>6. Image_t(decoded) \in Shown(s)
  BY <1>5 DEF Image_t, Shown
<1>7. QED
  BY <1>4, <1>6 DEF decoded

\* The write: what is on the wire is the object under the instance's own name, as
\* it was not deleted.
LEMMA SendImageInductive ==
  ASSUME ObjectsInv, WayTrue, ~ misused', NEW s \in Streams, SendImage(s)
  PROVE  WayTrue'
<1>1. InputsTrue' /\ OutputsTrue' /\ ResultsMqTrue' /\ SavedTrue'
  BY FewerAreTrue DEF SendImage
<1>2. consumer[s] = "sending" /\ s \notin deleted
  BY DEF SendImage, Send, Written, Move, Uses
<1>3. image[s] # <<>> /\ s \in DOMAIN image
  BY <1>2 DEF ObjectsInv, PathTypeOK
<1>4. PICK object \in Objects(s) :
        object.sInputName = InputName[s] /\ Renamed(s, InputName[s]) = [image EXCEPT ![s] = <<object>>]
  BY <1>3, RenamedIsObject
<1>5. image'[s][1] = object
  BY <1>3, <1>4 DEF SendImage
<1>6. PICK wire \in Serialized(s) : inputMq' = Added(inputMq, wire)
  BY DEF SendImage
<1>7. wire = SerializeImage(object)
  BY <1>2, <1>5, <1>6 DEF Serialized
<1>8. BagToSet(inputMq') = BagToSet(inputMq) \cup {SerializeImage(object)}
  BY <1>6, <1>7, AddedHolds
<1>9. InputMqTrue'
  BY <1>4, <1>8 DEF WayTrue, InputMqTrue, WireOf
<1>10. QED
  BY <1>1, <1>9 DEF WayTrue

\* The other steps of a consumer and its producer move nothing.
LEMMA ConsumerMovesNothing ==
  ASSUME WayTrue, NEW s \in Streams,
         \/ TakeFront(s) \/ Evict(s) \/ SendElsewhere(s) \/ Skip(s)
         \/ Allowed(s) \/ EndTurn(s) \/ RemoveFront(s)
  PROVE  WayTrue'
<1>1. UNCHANGED <<inputMq, inputs, outputs, resultsMq, saved>>
  BY DEF TakeFront, Evict, SendElsewhere, Skip, Allowed, EndTurn, RemoveFront, onTheWay
<1>2. QED
  BY <1>1, FewerAreTrue DEF WayTrue

\* The process reads what was written, says of it what it was shown, and writes
\* that.
LEMMA RunnerInductive ==
  ASSUME WayTrue, RunnerStep
  PROVE  WayTrue'
<1>1. SavedTrue'
  BY FewerAreTrue DEF RunnerStep, ReceiveImage, Process, SendResult
<1>2. ASSUME NEW wire \in BagToSet(inputMq), ReceiveImage(wire)
      PROVE  InputMqTrue' /\ InputsTrue' /\ OutputsTrue' /\ ResultsMqTrue'
  <2>1. InputMqTrue' /\ OutputsTrue' /\ ResultsMqTrue'
    BY <1>2, FewerAreTrue, MovedHolds DEF ReceiveImage
  <2>2. PICK s \in Streams : WireOf(wire, s)
    BY <1>2 DEF WayTrue, InputMqTrue
  <2>3. Image_t(DeserializeImage(wire)) \in Shown(s)
    BY <2>2, WireIsShown
  <2>4. BagToSet(inputs') = BagToSet(inputs) \cup {Image_t(DeserializeImage(wire))}
    BY <1>2, AddedHolds DEF ReceiveImage
  <2>5. InputsTrue'
    BY <2>3, <2>4 DEF WayTrue, InputsTrue
  <2>6. QED
    BY <2>1, <2>5
<1>3. ASSUME NEW shown \in BagToSet(inputs), Process(shown)
      PROVE  InputMqTrue' /\ InputsTrue' /\ OutputsTrue' /\ ResultsMqTrue'
  <2>1. InputMqTrue' /\ InputsTrue' /\ ResultsMqTrue'
    BY <1>3, FewerAreTrue, MovedHolds DEF Process
  <2>2. PICK s \in Streams : shown \in Shown(s)
    BY <1>3 DEF WayTrue, InputsTrue
  <2> DEFINE said == [shown EXCEPT !.sCustomTextResult = <<shown.matImage, shown.sInputName>>,
                                   !.bGenerateAnalyticEvent = TRUE]
  <2>3. said \in Said(s)
    BY <2>2 DEF Shown, Said
  <2>4. \/ BagToSet(outputs') = BagToSet(outputs) \cup {shown}
        \/ BagToSet(outputs') = BagToSet(outputs) \cup {said}
    BY <1>3, AddedHolds DEF Process
  <2> HIDE DEF said
  <2>5. OutputsTrue'
    BY <2>2, <2>3, <2>4 DEF WayTrue, OutputsTrue
  <2>6. QED
    BY <2>1, <2>5
<1>4. ASSUME NEW out \in BagToSet(outputs), SendResult(out)
      PROVE  InputMqTrue' /\ InputsTrue' /\ OutputsTrue' /\ ResultsMqTrue'
  <2>1. InputMqTrue' /\ InputsTrue' /\ OutputsTrue'
    BY <1>4, FewerAreTrue, MovedHolds DEF SendResult
  <2>2. PICK s \in Streams : out \in Shown(s) \cup Said(s)
    BY <1>4 DEF WayTrue, OutputsTrue
  <2>3. BagToSet(resultsMq') = BagToSet(resultsMq) \cup {SerializeResult(ResultOf(out))}
    BY <1>4, AddedHolds DEF SendResult, ResultOf
  <2>4. ResultsMqTrue'
    BY <2>2, <2>3 DEF WayTrue, ResultsMqTrue
  <2>5. QED
    BY <2>1, <2>4
<1>5. QED
  BY <1>1, <1>2, <1>3, <1>4 DEF RunnerStep, WayTrue

\* An image that is not answered, or a process that dies, takes from the places
\* and adds to none.
LEMMA LossInductive ==
  ASSUME WayTrue, (\E shown \in BagToSet(inputs) : Withhold(shown)) \/ RunnerDies
  PROVE  WayTrue'
<1>1. ASSUME NEW shown \in BagToSet(inputs), Withhold(shown) PROVE WayTrue'
  BY <1>1, FewerAreTrue, MovedHolds DEF Withhold, WayTrue
<1>2. ASSUME RunnerDies PROVE WayTrue'
  <2>1. /\ BagToSet(inputMq') \subseteq BagToSet(inputMq)
        /\ BagToSet(resultsMq') \subseteq BagToSet(resultsMq)
        /\ UNCHANGED saved
    BY <1>2, PartsHold DEF RunnerDies
  <2>2. BagToSet(inputs') = {} /\ BagToSet(outputs') = {}
    BY <1>2, EmptyHolds DEF RunnerDies
  <2>3. QED
    BY <2>1, <2>2, FewerAreTrue DEF WayTrue
<1>3. QED
  BY <1>1, <1>2

\* The router saves what a result says, if it is asked to and can.
LEMMA RouteInductive ==
  ASSUME WayTrue, NEW wire \in BagToSet(resultsMq), RouteResult(wire)
  PROVE  WayTrue'
<1>1. /\ UNCHANGED <<inputMq, inputs, outputs>>
      /\ BagToSet(resultsMq') \subseteq BagToSet(resultsMq)
  BY MovedHolds DEF RouteResult
<1>2. InputMqTrue' /\ InputsTrue' /\ OutputsTrue' /\ ResultsMqTrue'
  BY <1>1, FewerAreTrue
<1>3. PICK s \in Streams :
        \E out \in Shown(s) \cup Said(s) : wire = SerializeResult(ResultOf(out))
  BY DEF WayTrue, ResultsMqTrue
<1>4. PICK out \in Shown(s) \cup Said(s) : wire = SerializeResult(ResultOf(out))
  BY <1>3
<1> DEFINE result == DeserializeAnalyticResult(wire)
<1>5. /\ result.sTimestamp = out.sTimestamp
      /\ result.sCustomText = out.sCustomTextResult
      /\ result.bWriteToDatabase = out.bGenerateAnalyticEvent
  <2> DEFINE of == ResultOf(out)
  <2>1. result = [iStreamId |-> of.iStreamId, sInputName |-> "",
                  sTimestamp |-> of.sTimestamp, sCustomText |-> of.sCustomText,
                  bWriteToDatabase |-> of.bWriteToDatabase]
    <3> HIDE DEF of
    <3>1. QED
      BY <1>4, ResultIsRead DEF of
  <2> HIDE DEF result
  <2>2. QED
    BY <2>1 DEF ResultOf, AnalyticResult
<1>6. saved' = <<>> \/ saved' = <<Row(s)>>
  <2>1. \/ saved' = <<>>
        \/ /\ result.bWriteToDatabase
           /\ saved' = <<[timestamp |-> result.sTimestamp, result_text |-> result.sCustomText]>>
    BY DEF RouteResult, InsertResults
  <2>2. ASSUME out.bGenerateAnalyticEvent
        PROVE  out.sTimestamp = Clock[s] /\ out.sCustomTextResult = <<Data(s), InputName[s]>>
    BY <1>4, <2>2 DEF Shown, Said
  <2> HIDE DEF result
  <2>3. QED
    BY <1>5, <2>1, <2>2 DEF Row
<1>7. SavedTrue'
  BY <1>6 DEF SavedTrue
<1>8. QED
  BY <1>2, <1>7 DEF WayTrue

\* A credit ends what the router did with a result.
LEMMA CreditInductive == ASSUME WayTrue, CreditResult PROVE WayTrue'
<1>1. UNCHANGED <<inputMq, inputs, outputs, resultsMq>> /\ saved' = <<>>
  BY DEF CreditResult, onTheWay
<1>2. QED
  BY <1>1, FewerAreTrue DEF WayTrue

LEMMA PathNextInductive == PathIInv /\ TypeOK' /\ [PathNext]_pathVars => PathIInv'
<1> SUFFICES ASSUME PathIInv, TypeOK', [PathNext]_pathVars PROVE PathIInv'
  OBVIOUS
<1>1. ObjectsInv /\ ObjectsInv' /\ (misused => misused')
  BY ObjectsInductive DEF PathIInv
<1>2. ASSUME ~ misused' PROVE WayTrue'
  <2>1. WayTrue
    BY <1>1, <1>2 DEF PathIInv
  <2>2. CASE PathNext
    BY <1>1, <1>2, <2>1, <2>2, ConsumerMovesNothing, SendImageInductive, RunnerInductive,
       LossInductive, RouteInductive, CreditInductive
       DEF PathNext
  <2>3. CASE UNCHANGED pathVars
    BY <2>1, <2>3, FewerAreTrue DEF pathVars, onTheWay, WayTrue
  <2>4. QED
    BY <2>2, <2>3
<1>3. QED
  BY <1>1, <1>2 DEF PathIInv

\* Until a deleted object is used, all that is on the way between a camera and a
\* row of the database comes of an image of the instance's streams; the objects
\* at the consumers are what they are either way.
THEOREM PathInductive == PathSpec => []PathIInv
<1>1. PathSpec => []TypeOK
  BY PathIsFlowControl, TypeCorrect, PTL
<1>2. QED
  BY <1>1, PathInitInductive, PathNextInductive, PTL DEF PathSpec

\* The object at a consumer, and the row at the router, are there when the thread
\* uses them.
THEOREM PathTypeCorrect == PathSpec => []PathTypeOK
<1>1. PathIInv => PathTypeOK
  BY DEF PathIInv, ObjectsInv
<1>2. QED
  BY <1>1, PathInductive, PTL

\* Until a consumer uses an object that its queue has deleted, what an analytic is
\* shown is an image of one of its streams, whole and under the instance's own name
\* for it, and a row says what was said of such an image.
THEOREM ShownAndSavedTrue == PathSpec => []ShownAndSavedAreTrue
<1>1. ASSUME PathIInv PROVE ShownAndSavedAreTrue
  <2> SUFFICES ASSUME ~ misused PROVE ShownAndSavedAreTrue
    BY DEF ShownAndSavedAreTrue
  <2> USE <1>1 DEF PathIInv, WayTrue
  <2>1. ASSUME NEW wire \in BagToSet(inputMq) PROVE ImageIsInitialized(wire)
    BY WireIsShown DEF InputMqTrue
  <2>2. ASSUME NEW wire \in BagToSet(resultsMq) PROVE ResultIsInitialized(wire)
    BY ResultIsRead DEF ResultsMqTrue
  <2>3. ASSUME NEW shown \in BagToSet(inputs (+) outputs)
        PROVE  \E s \in Streams : IsOf(s, shown.matImage, shown.sInputName, shown.sTimestamp)
    <3>1. PICK s \in Streams : shown \in Shown(s) \cup Said(s)
      BY BothHold DEF InputsTrue, OutputsTrue
    <3>2. QED
      BY <3>1 DEF Shown, Said, IsOf
  <2>4. ASSUME NEW row \in ToSet(saved)
        PROVE  /\ row.result_text # <<>>
               /\ \E s \in Streams : IsOf(s, row.result_text[1], row.result_text[2], row.timestamp)
    <3>1. PICK s \in Streams : saved = <<Row(s)>>
      BY DEF SavedTrue, ToSet
    <3>2. row = Row(s)
      BY <3>1 DEF ToSet
    <3>3. QED
      BY <3>2 DEF Row, IsOf
  <2>5. QED
    BY <2>1, <2>2, <2>3, <2>4 DEF ShownAndSavedAreTrue
<1>2. QED
  BY <1>1, PathInductive, PTL
=============================================================================
