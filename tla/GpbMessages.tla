---------------------------- MODULE GpbMessages ----------------------------
(***************************************************************************)
(* The two protocol buffers messages between the OpenCCTV Server and an    *)
(* analytic process: an image, written by the server and read by the       *)
(* process, and a result, written by the process and read by the server.   *)
(* Each program has its own copy of the generated classes; what is written *)
(* here of one side is its own copy's, tags included.                      *)
(*                                                                         *)
(* On the wire a message is a sequence of fields, each a tag and a value.  *)
(* An object is the set of the fields that were set (the has bits) and the *)
(* value of each, which is its default until then.  A text is a sequence   *)
(* of words, the data of an image one of bytes.                            *)
(***************************************************************************)
EXTENDS Naturals, Sequences, SequencesExt

Object(defaults) == [has |-> {}, value |-> defaults]

Setting(object, values) ==
  [has |-> object.has \cup DOMAIN values,
   value |-> [f \in DOMAIN object.value |->
                IF f \in DOMAIN values THEN values[f] ELSE object.value[f]]]

\* A field is written if it is set.
Field(object, tags, f) ==
  IF f \in object.has THEN <<[tag |-> tags[f], value |-> object.value[f]]>> ELSE <<>>

Places(wire, tag) == {k \in DOMAIN wire : wire[k].tag = tag}

\* The values of a repeated field, in the order of the wire.
ValuesOf(wire, tag) ==
  LET places == Places(wire, tag)
      nth(n) == CHOOSE k \in places : Cardinality({j \in places : j <= k}) = n
  IN [n \in 1 .. Cardinality(places) |-> wire[nth(n)].value]

\* The last value of another field counts; one with no such tag is skipped.
Read(wire, tags, object) ==
  LET present(f) == f \in DOMAIN tags /\ Places(wire, tags[f]) # {}
  IN [has |-> object.has \cup {f \in DOMAIN tags : present(f)},
      value |-> [f \in DOMAIN object.value |->
                   IF present(f) THEN wire[Max(Places(wire, tags[f]))].value
                                 ELSE object.value[f]]]

(***************************************************************************)
(* An image, written by the server.                                        *)
(***************************************************************************)

\* opencctv::Image, as a connector makes it.
ProducedImage(data, width, height, timestamp) ==
  [vImageData |-> data, iWidth |-> width, iHeight |-> height, iStreamId |-> 0,
   sInputName |-> "", sTimestamp |-> timestamp]

ImageTags == [width |-> 16, height |-> 24, stream_id |-> 32, input_name |-> 42, timestamp |-> 50]

NewImageMessage ==
  Object([width |-> 0, height |-> 0, stream_id |-> 0, input_name |-> "", timestamp |-> ""])

SetImageFields(values) == Setting(NewImageMessage, values)

\* One field for each byte of the data, then the others.
SerializedImage(message, data) ==
  [k \in DOMAIN data |-> [tag |-> 8, value |-> data[k]]]
  \o Field(message, ImageTags, "width") \o Field(message, ImageTags, "height")
  \o Field(message, ImageTags, "stream_id") \o Field(message, ImageTags, "input_name")
  \o Field(message, ImageTags, "timestamp")

SerializeImage(image) ==
  SerializedImage(
    SetImageFields([stream_id |-> image.iStreamId, width |-> image.iWidth,
                    height |-> image.iHeight, timestamp |-> image.sTimestamp,
                    input_name |-> image.sInputName]),
    image.vImageData)

(***************************************************************************)
(* An image, read by the process.                                          *)
(***************************************************************************)

ImageTagsRead ==
  [width |-> 16, height |-> 24, stream_id |-> 32, input_name |-> 42, timestamp |-> 50]

NewParsedImage ==
  Object([width |-> 0, height |-> 0, stream_id |-> 0, input_name |-> "", timestamp |-> ""])

ParsedImage(wire) == Read(wire, ImageTagsRead, NewParsedImage)

\* What the accessors return: of a field that was not there, its default.
ImageFields(wire) == ParsedImage(wire).value

ImageDataOf(wire) == ValuesOf(wire, 8)

\* Else the parse fails, which nobody looks at.
ImageIsInitialized(wire) == {"width", "height", "timestamp"} \subseteq ParsedImage(wire).has

\* opencctv::Image in the process, before anything is set.
NewImage ==
  [vImageData |-> <<>>, iWidth |-> 0, iHeight |-> 0, iStreamId |-> 0,
   sInputName |-> "", sTimestamp |-> ""]

\* The stream's id is left behind.
DeserializeImage(wire) ==
  LET parsed == ImageFields(wire)
  IN [NewImage EXCEPT !.iWidth = parsed.width, !.iHeight = parsed.height,
                      !.sTimestamp = parsed.timestamp, !.sInputName = parsed.input_name,
                      !.vImageData = ImageDataOf(wire)]

(***************************************************************************)
(* A result, written by the process.                                       *)
(***************************************************************************)

\* The constructor does not take the input's name over.
AnalyticResult(streamId, inputName, timestamp, customText, writeToDatabase) ==
  [iStreamId |-> streamId, sInputName |-> "", sTimestamp |-> timestamp,
   sCustomText |-> customText, bWriteToDatabase |-> writeToDatabase]

ResultTags ==
  [stream_id |-> 8, input_name |-> 18, timestamp |-> 26, custom_text |-> 34, write_to_db |-> 40]

NewResultMessage ==
  Object([stream_id |-> 0, input_name |-> "", timestamp |-> "", custom_text |-> <<>>,
          write_to_db |-> FALSE])

SetResultFields(values) == Setting(NewResultMessage, values)

SerializedResult(message) ==
  Field(message, ResultTags, "stream_id") \o Field(message, ResultTags, "input_name")
  \o Field(message, ResultTags, "timestamp") \o Field(message, ResultTags, "custom_text")
  \o Field(message, ResultTags, "write_to_db")

SerializeResult(result) ==
  SerializedResult(
    SetResultFields([stream_id |-> result.iStreamId, input_name |-> result.sInputName,
                     timestamp |-> result.sTimestamp, custom_text |-> result.sCustomText,
                     write_to_db |-> result.bWriteToDatabase]))

(***************************************************************************)
(* A result, read by the server.                                           *)
(***************************************************************************)

ResultTagsRead ==
  [stream_id |-> 8, input_name |-> 18, timestamp |-> 26, custom_text |-> 34, write_to_db |-> 40]

NewParsedResult ==
  Object([stream_id |-> 0, input_name |-> "", timestamp |-> "", custom_text |-> <<>>,
          write_to_db |-> FALSE])

ParsedResult(wire) == Read(wire, ResultTagsRead, NewParsedResult)

ResultFields(wire) == ParsedResult(wire).value

ResultIsInitialized(wire) == ParsedResult(wire).has = DOMAIN ResultTagsRead

\* The server's own constructor, with the same omission.
RoutedResult(streamId, inputName, timestamp, customText, writeToDatabase) ==
  [iStreamId |-> streamId, sInputName |-> "", sTimestamp |-> timestamp,
   sCustomText |-> customText, bWriteToDatabase |-> writeToDatabase]

DeserializeAnalyticResult(wire) ==
  LET parsed == ResultFields(wire)
  IN RoutedResult(parsed.stream_id, parsed.input_name, parsed.timestamp, parsed.custom_text,
                  parsed.write_to_db)
=============================================================================
