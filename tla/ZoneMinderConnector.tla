------------------------ MODULE ZoneMinderConnector ------------------------
(***************************************************************************)
(* The connector to a ZoneMinder camera, in its producer thread: the HTTP  *)
(* connection, and the decoder that cuts a stream of headers and JPEGs,    *)
(* read in pieces of any length up to the buffer's, into images.           *)
(*                                                                         *)
(* A byte is its value.  The text of a header is two units: Tag, its       *)
(* "Content-Length: ", and Tag + n, the digits of n.  What is copied from  *)
(* the buffer is kept as the places in the stream it came from.            *)
(***************************************************************************)
EXTENDS Integers, Sequences, SequencesExt

CONSTANTS
  Transmissions,  \* what a camera may send
  BufferSize,     \* of readBytes
  MaxAhead        \* bound: bytes of the stream read with the end of the HTTP header

Tag == 256

\* The last place of the frame whose header is at p: markers first and last, and
\* the header's length counts them.
FrameEnd(bytes, p) == p + 1 + (bytes[p + 1] - Tag)

IsFrame(bytes, p) ==
  /\ bytes[p] = Tag /\ p + 1 <= Len(bytes) /\ bytes[p + 1] >= Tag + 4
  /\ FrameEnd(bytes, p) <= Len(bytes)
  /\ \A place \in p + 2 .. FrameEnd(bytes, p) : bytes[place] < Tag
  /\ bytes[p + 2] = 255 /\ bytes[p + 3] = 216
  /\ bytes[FrameEnd(bytes, p) - 1] = 255 /\ bytes[FrameEnd(bytes, p)] = 217

\* Frames and nothing else, the last one whole.
WellFramed(bytes) ==
  /\ bytes \in Seq(Nat)
  /\ \A p \in 1 .. Len(bytes) : bytes[p] = Tag => IsFrame(bytes, p)
  /\ \A place \in 1 .. Len(bytes) :
       \E p \in 1 .. place : IsFrame(bytes, p) /\ place <= FrameEnd(bytes, p)

ASSUME ConnectorAssumption ==
  /\ BufferSize \in Nat \ {0} /\ MaxAhead \in Nat
  /\ \A bytes \in Transmissions : WellFramed(bytes)

VARIABLES
  stream,         \* what the camera sends
  taken,          \* bytes of it that were read
  pc,             \* of the connector and its thread: an element of Phases
  interrupted,    \* the event thread waits for the thread to end
  readBytes, length,
  cur, prev,      \* places in readBytes; prev = 0 is NULL
  other,          \* strOtherThanImageData
  image, contentLength,
  pushed,         \* the images, on the internal queue
  torn            \* the frames whose header or first marker no one read has whole

Phases == {"new", "located", "connected", "asked", "refused", "crashed",
           "initialised", "decoding", "ended"}

readVars == <<stream, taken, pc, readBytes, length, torn>>
scanVars == <<cur, prev, other, image, contentLength, pushed>>
connectorVars == <<readVars, scanVars, interrupted>>

\* The frames, by the place of their header.
Headers == {p \in DOMAIN stream : stream[p] = Tag}
Jpeg(p) == [k \in 1 .. stream[p + 1] - Tag |-> p + 1 + k]

\* Memory never written is place 0.
Byte(place) == IF place = 0 THEN 0 ELSE stream[place]

ConnectorTypeOK ==
  /\ stream \in Transmissions /\ taken \in 0 .. Len(stream)
  /\ pc \in Phases
  /\ interrupted \in BOOLEAN
  /\ readBytes \in [1 .. BufferSize -> 0 .. Len(stream)]
  /\ length \in 0 .. BufferSize /\ cur \in 1 .. length + 1 /\ prev \in 0 .. BufferSize
  /\ other \in Seq(1 .. Len(stream)) /\ image \in Seq(0 .. Len(stream))
  /\ contentLength \in Nat
  /\ pushed \in Seq(Seq(0 .. Len(stream)))
  /\ torn \subseteq Headers

ConnectorInit ==
  /\ stream \in Transmissions
  /\ taken = 0 /\ pc = "new" /\ interrupted = FALSE
  /\ readBytes = [k \in 1 .. BufferSize |-> 0] /\ length = 0
  /\ cur = 1 /\ prev = 0
  /\ other = <<>> /\ image = <<>> /\ contentLength = 0
  /\ pushed = <<>> /\ torn = {}

\* The frames a read that ends at this place leaves without a whole start.
TornAt(place) == {p \in Headers : place \in p .. p + 2}

(***************************************************************************)
(* The connection, step by step; each may fail, and the connector is not   *)
(* initialised then.                                                       *)
(***************************************************************************)

Unread == UNCHANGED <<stream, readBytes, length, scanVars, interrupted>>

Refuse == pc' = "refused" /\ UNCHANGED <<taken, torn>>

Proceed(before, after) ==
  /\ pc = before
  /\ Refuse \/ (pc' = after /\ UNCHANGED <<taken, torn>>)
  /\ Unread

\* A script logs in and finds the page of the monitor.
GetZMStreamURL == Proceed("new", "located")

Connect == Proceed("located", "connected")

\* Of a name that is not resolved: the socket deleted then is not initialised.
ConnectCrashes ==
  /\ pc = "located"
  /\ pc' = "crashed" /\ UNCHANGED <<taken, torn>>
  /\ Unread

SendGetRequest == Proceed("connected", "asked")

\* What is read of the stream together with the end of the header stays in
\* the header's buffer.
ProcessHttpHeader ==
  /\ pc = "asked"
  /\ \/ Refuse
     \/ /\ pc' = "initialised"
        /\ taken' \in 0 .. MaxAhead /\ taken' <= Len(stream)
        /\ torn' = UNION {TornAt(place) : place \in 1 .. taken'}
  /\ Unread

ProduceImageObjects ==
  /\ pc = "initialised"
  /\ pc' = "decoding"
  /\ UNCHANGED <<taken, torn>> /\ Unread

(***************************************************************************)
(* startDecoding: read.                                                    *)
(***************************************************************************)

\* prev is left where it was in the buffer, where other bytes are now.
Read ==
  /\ pc = "decoding" /\ cur > length
  /\ \E n \in 1 .. BufferSize :
       /\ taken + n <= Len(stream)
       /\ readBytes' = [k \in 1 .. BufferSize |-> IF k <= n THEN taken + k ELSE readBytes[k]]
       /\ length' = n
       /\ taken' = taken + n
       /\ torn' = torn \cup TornAt(taken + n)
  /\ cur' = 1 /\ other' = <<>>
  /\ UNCHANGED <<stream, pc, prev, image, contentLength, pushed, interrupted>>

\* The thread ends: the producer's log has it, and nobody else.
ReadFails ==
  /\ pc = "decoding" /\ cur > length
  /\ pc' = "ended"
  /\ UNCHANGED <<taken, torn>> /\ Unread

(***************************************************************************)
(* startDecoding: one turn of the loop over the bytes read.                *)
(***************************************************************************)

Scanning == pc = "decoding" /\ cur <= length
Left == length - cur + 1

AtMarker == prev # 0 /\ Byte(readBytes[prev]) = 255 /\ Byte(readBytes[cur]) = 216

\* extractStreamHeaderData: the last length in the text counts.
Lengths(text) ==
  {k \in 1 .. Len(text) - 1 : Byte(text[k]) = Tag /\ Byte(text[k + 1]) > Tag}

Extracted(text) ==
  IF Lengths(text) = {} THEN 0
  ELSE Byte(text[1 + CHOOSE k \in Lengths(text) : \A j \in Lengths(text) : j <= k]) - Tag

\* other is not emptied here: clear() resets its error flags.
StartOfImage ==
  /\ Scanning /\ AtMarker
  /\ contentLength' = Extracted(other)
  /\ LET n == contentLength'
     IN CASE n = 0    -> UNCHANGED <<image, cur>>
          [] n > Left -> /\ image' = image \o SubSeq(readBytes, prev, prev + Left)
                         /\ cur' = length + 1
          [] OTHER    -> /\ image' = image \o SubSeq(readBytes, prev, prev + n - 1)
                         /\ cur' = cur + n - 1
  /\ prev' = cur
  /\ UNCHANGED <<readVars, other, pushed, interrupted>>

\* Mutant: the rest of the image is counted from the byte after.
RestOfImageOffByOne ==
  /\ Scanning /\ ~ AtMarker /\ image # <<>> /\ Len(image) < contentLength
  /\ LET rest == contentLength - Len(image)
     IN IF Left <= rest
        THEN /\ image' = image \o SubSeq(readBytes, cur + 1, length)
             /\ cur' = length + 1
        ELSE /\ image' = image \o SubSeq(readBytes, cur + 1, cur + rest)
             /\ UNCHANGED cur
  /\ prev' = cur
  /\ UNCHANGED <<readVars, other, contentLength, pushed, interrupted>>

\* The rest is subtracted after it was added: when the image ends in this
\* buffer the loop goes over its bytes again, as text.
RestOfImage ==
  /\ Scanning /\ ~ AtMarker /\ image # <<>> /\ Len(image) < contentLength
  /\ LET rest == contentLength - Len(image)
     IN IF Left <= rest
        THEN /\ image' = image \o SubSeq(readBytes, cur, length)
             /\ cur' = length + 1
        ELSE /\ image' = image \o SubSeq(readBytes, cur, cur + rest - 1)
             /\ UNCHANGED cur
  /\ prev' = cur
  /\ UNCHANGED <<readVars, other, contentLength, pushed, interrupted>>

EndsJpeg(bytes) ==
  Byte(bytes[Len(bytes) - 1]) = 255 /\ Byte(bytes[Len(bytes)]) = 217

\* Mutant: the image is not emptied when it was pushed.
EndOfImageKeepsImage ==
  /\ Scanning /\ ~ AtMarker /\ image # <<>> /\ Len(image) = contentLength
  /\ pushed' = IF EndsJpeg(image) THEN Append(pushed, image) ELSE pushed
  /\ prev' = cur
  /\ UNCHANGED <<readVars, cur, other, image, contentLength, interrupted>>

EndOfImage ==
  /\ Scanning /\ ~ AtMarker /\ image # <<>> /\ Len(image) = contentLength
  /\ pushed' = IF EndsJpeg(image) THEN Append(pushed, image) ELSE pushed
  /\ image' = <<>>
  /\ prev' = cur
  /\ UNCHANGED <<readVars, cur, other, contentLength, interrupted>>

OtherByte ==
  /\ Scanning /\ ~ AtMarker /\ image = <<>>
  /\ other' = Append(other, readBytes[cur])
  /\ cur' = cur + 1
  /\ prev' = cur
  /\ UNCHANGED <<readVars, image, contentLength, pushed, interrupted>>

\* A false marker in the middle of an image reset its length: no branch of
\* the loop goes on from here.
Spins == Scanning /\ image # <<>> /\ Len(image) > contentLength

Spin ==
  /\ Spins /\ ~ AtMarker
  /\ prev' = cur
  /\ UNCHANGED <<readVars, cur, other, image, contentLength, pushed, interrupted>>

\* stopThread.  Neither the read nor the loop is an interruption point.
InterruptThread ==
  /\ pc = "decoding" /\ ~ interrupted
  /\ interrupted' = TRUE
  /\ UNCHANGED <<readVars, scanVars>>

Scan == StartOfImage \/ RestOfImage \/ EndOfImage \/ OtherByte \/ Spin

ConnectorNext ==
  \/ GetZMStreamURL \/ Connect \/ ConnectCrashes \/ SendGetRequest \/ ProcessHttpHeader
  \/ ProduceImageObjects
  \/ Read \/ ReadFails
  \/ Scan
  \/ InterruptThread

ConnectorSpec == ConnectorInit /\ [][ConnectorNext]_connectorVars

\* The thread runs while it can; the camera need not close the connection.
LiveConnectorSpec == ConnectorSpec /\ WF_connectorVars(ProduceImageObjects \/ Read \/ Scan)

-----------------------------------------------------------------------------
(***************************************************************************)
(* The images pushed are whole JPEGs of the camera, in the order sent and  *)
(* none twice, however the stream is cut into reads and wherever the       *)
(* connection begins: no bytes of two reads are put together wrongly.      *)
(***************************************************************************)
WholeFramesInOrder ==
  /\ \A k \in DOMAIN pushed : \E p \in Headers : pushed[k] = Jpeg(p)
  /\ \A j, k \in DOMAIN pushed : j < k => pushed[j][1] < pushed[k][1]

(***************************************************************************)
(* A frame is lost only when its header and first marker come in two       *)
(* reads, or the loop spins: bytes gone over twice, text left from the     *)
(* frame before and lengths of frames that were lost cost no other one.    *)
(***************************************************************************)
Passed(p) ==
  /\ p + 1 + Len(Jpeg(p)) < taken
  /\ cur > length

OnlyTornAreLost ==
  ~ Spins => \A p \in Headers : Passed(p) /\ p \notin torn => Jpeg(p) \in ToSet(pushed)

(***************************************************************************)
(* What the comment in the connector that comes with the server asks of    *)
(* each: the thread can be stopped.                                        *)
(***************************************************************************)
CanBeStopped == interrupted ~> pc = "ended"
=============================================================================
