--------------------------- MODULE CameraCatalogue ---------------------------
(***************************************************************************)
(* The rows the OpenCCTV Server finds its streams by: VMS connectors, VMSs,*)
(* cameras and streams, as the pages of the web interface create, edit and *)
(* destroy them.  A VMS is asked for its cameras when it is created and    *)
(* each time it is edited; what it answers, and where the conversation     *)
(* fails, is open.                                                         *)
(*                                                                         *)
(* Each action is one request of a user, and one follows another.  No form *)
(* is sent after a row it offers was destroyed or changed its type.  The   *)
(* database never uses an id twice; here an id stands for a new one when   *)
(* its row has ended and no row has a reference to it.                     *)
(***************************************************************************)
EXTENDS Naturals, FiniteSets, Sequences, SequencesExt

CONSTANTS
  Connectors, Vmses,
  Cameras, Streams,  \* bounds: the numbers of those there are at a time
  Monitors,          \* what a VMS calls its cameras
  ByHand,            \* the camera_id of a camera that was typed in
  None               \* no row

Types == {"milestone", "zoneminder", "hikvision", "NA"}

Connector == [verified : BOOLEAN, direct : BOOLEAN]
\* retyped, a history: its connector's type was changed while it was its.
Vms == [connector : Connectors, type : Types, verified : BOOLEAN, retyped : BOOLEAN]
Camera == [vms : Vmses, camera_id : Monitors \cup {ByHand}, verified : BOOLEAN]
\* stale: it was added to a camera that had ended.
Stream == [camera : Cameras, verified : BOOLEAN, stale : BOOLEAN]

ASSUME CatalogueAssumption ==
  /\ IsFiniteSet(Cameras) /\ IsFiniteSet(Streams) /\ IsFiniteSet(Monitors)
  /\ ByHand \notin Monitors
  /\ None \notin Connector \cup Vms \cup Camera \cup Stream

VARIABLES connectors, vmses, cameras, streams,
          uses   \* the streams of analytic_instance_streams

vars == <<connectors, vmses, cameras, streams, uses>>

TypeOK ==
  /\ connectors \in [Connectors -> Connector \cup {None}]
  /\ vmses \in [Vmses -> Vms \cup {None}]
  /\ cameras \in [Cameras -> Camera \cup {None}]
  /\ streams \in [Streams -> Stream \cup {None}]
  /\ uses \subseteq Streams

Init ==
  /\ connectors = [k \in Connectors |-> None] /\ vmses = [v \in Vmses |-> None]
  /\ cameras = [c \in Cameras |-> None] /\ streams = [s \in Streams |-> None]
  /\ uses = {}

Rows(table) == {i \in DOMAIN table : table[i] # None}

VmsesOf(k) == {v \in Rows(vmses) : vmses[v].connector = k}
CamerasOf(V) == {c \in Rows(cameras) : cameras[c].vms \in V}
StreamsOf(C) == {s \in Rows(streams) : streams[s].camera \in C}

\* The check of every page before it destroys: AnalyticInstanceStream
\* has a row for one of the streams.
InUse(C) == StreamsOf(C) \cap uses # {}

Direct(v) == connectors[vmses[v].connector].direct

Ended(table, S) == [i \in DOMAIN table |-> IF i \in S THEN None ELSE table[i]]

Marked(table, S, verified) ==
  [i \in DOMAIN table |-> IF i \in S THEN [table[i] EXCEPT !.verified = verified] ELSE table[i]]

\* dependent: :destroy, from cameras down.
DestroyCameras(C) ==
  /\ cameras' = Ended(cameras, C)
  /\ streams' = Ended(streams, StreamsOf(C))
  /\ uses' = uses \ StreamsOf(C)

DestroyVmses(V) == vmses' = Ended(vmses, V) /\ DestroyCameras(CamerasOf(V))

\* Ids for new rows: those that no row has, and no row refers to, in an order
\* that is fixed.
Referred(ss) == {ss[s].camera : s \in Rows(ss)}
FreeCameras(cs, ss) == Cameras \ (Rows(cs) \cup Referred(ss))

FreshCameras == SetToSeq(FreeCameras(cameras, streams))
FreshStreams(ss) == SetToSeq(Streams \ Rows(ss))

(***************************************************************************)
(* Connectors.                                                             *)
(***************************************************************************)

CreateConnector(k) ==
  /\ connectors[k] = None /\ VmsesOf(k) = {}
  /\ \E row \in Connector : connectors' = [connectors EXCEPT ![k] = row]
  /\ UNCHANGED <<vmses, cameras, streams, uses>>

\* With another type: the form offers the one there is, and keeps it else.
UpdateConnector(k) ==
  /\ k \in Rows(connectors)
  /\ connectors' = [connectors EXCEPT ![k].direct = ~ @]
  /\ vmses' = [v \in Vmses |-> IF v \in VmsesOf(k)
                               THEN [vmses[v] EXCEPT !.retyped = TRUE] ELSE vmses[v]]
  /\ UNCHANGED <<cameras, streams, uses>>

\* Mutant: the rows of its VMSs are left.
DestroyConnectorOnly(k) ==
  /\ k \in Rows(connectors)
  /\ ~ InUse(CamerasOf(VmsesOf(k)))
  /\ connectors' = Ended(connectors, {k})
  /\ UNCHANGED <<vmses, cameras, streams, uses>>

DestroyConnector(k) ==
  /\ k \in Rows(connectors)
  /\ ~ InUse(CamerasOf(VmsesOf(k)))
  /\ connectors' = Ended(connectors, {k})
  /\ DestroyVmses(VmsesOf(k))

(***************************************************************************)
(* What a VMS adds to the tables cs and ss: cameras for some monitors,     *)
(* streams for some of these, and whether it raised an exception then.     *)
(***************************************************************************)

\* An addition: sequences of new rows.
Added(newCameras, newStreams, raised) ==
  [cameras |-> newCameras, streams |-> newStreams, raised |-> raised]

NewCamera(v, m, verified) == [vms |-> v, camera_id |-> m, verified |-> verified]

NewStream(c, verified, stale) == [camera |-> c, verified |-> verified, stale |-> stale]

\* The rows of new in the free places ids of a table.
With(table, ids, new) ==
  [i \in DOMAIN table |->
     IF \E n \in DOMAIN new : ids[n] = i
     THEN new[CHOOSE n \in DOMAIN new : ids[n] = i] ELSE table[i]]

Lists == UNION {SetToSeqs(found) : found \in SUBSET Monitors}

Fitting(ids) == {list \in Lists : Len(list) <= Len(ids)}

\* grab: whether the default frame of each camera was grabbed.  It gets a
\* stream then; one whose frame is not grabbed ends the addition.
MilestoneAdds(v, ids, list, grab, verified, raised) ==
  LET streamed == SetToSeq({i \in 1 .. Len(list) : grab[i]})
  IN Added([i \in 1 .. Len(list) |-> NewCamera(v, list[i], grab[i])],
           [i \in 1 .. Len(streamed) |->
              NewStream(ids[streamed[i]], verified[streamed[i]], FALSE)], raised)

MilestoneAddsAll(v, ids, list, grab) ==
  {MilestoneAdds(v, ids, list, grab, grab, raised) : raised \in BOOLEAN}
  \cup {MilestoneAdds(v, ids, list, grab, [grab EXCEPT ![i] = FALSE], TRUE) :
          i \in {i \in {Len(list)} \ {0} : grab[i]}}

MilestoneAddCameras(v, ids) ==
  UNION {UNION {MilestoneAddsAll(v, ids, list, grab) : grab \in [1 .. Len(list) -> BOOLEAN]} :
           list \in Fitting(ids)}

\* One that stopped halfway raised an exception.
Raised(halfway) == {raised \in BOOLEAN : halfway => raised}

\* saved: whether the stream of each camera was valid.  The frame of the last
\* camera may not come; it has no stream then.
HikvisionAdds(v, ids, list, saved, raised) ==
  LET streamed == SetToSeq({i \in 1 .. Len(list) : saved[i]})
  IN Added([i \in 1 .. Len(list) |-> NewCamera(v, list[i], TRUE)],
           [i \in 1 .. Len(streamed) |-> NewStream(ids[streamed[i]], TRUE, FALSE)], raised)

HikvisionAddsAll(v, ids, list) ==
  {HikvisionAdds(v, ids, list, saved, raised) :
     saved \in [1 .. Len(list) -> BOOLEAN], raised \in BOOLEAN}

HikvisionAddMonitors(v, ids) == UNION {HikvisionAddsAll(v, ids, list) : list \in Fitting(ids)}

\* stale: the cameras of the VMS that were loaded before they were destroyed.
\* They are among self.cameras still, and each gets a stream.
SelfCameras(ids, list, stale) == SetToSeq(stale) \o SubSeq(ids, 1, Len(list))

ZoneminderAdds(v, list, all, stale, verified, raised) ==
  Added([i \in 1 .. Len(list) |-> NewCamera(v, list[i], TRUE)],
        [i \in DOMAIN verified |-> NewStream(all[i], verified[i], all[i] \in stale)], raised)

ZoneminderAddsSome(v, list, all, stale, n) ==
  {ZoneminderAdds(v, list, all, stale, verified, raised) :
     verified \in [1 .. n -> BOOLEAN], raised \in Raised(n < Len(all))}

\* Without a cookie it adds nothing, and raises nothing.
ZoneminderAdd(v, ids, stale) ==
  {Added(<<>>, <<>>, FALSE)} \cup
  UNION {UNION {ZoneminderAddsSome(v, list, SelfCameras(ids, list, stale), stale, n) :
                  n \in 0 .. Len(SelfCameras(ids, list, stale))} :
           list \in Fitting(ids)}

AddCameras(v, type, ids, stale) ==
  CASE type = "milestone" -> MilestoneAddCameras(v, ids)
    [] type = "zoneminder" -> ZoneminderAdd(v, ids, stale)
    [] type = "hikvision" -> HikvisionAddMonitors(v, ids)
    [] OTHER -> {Added(<<>>, <<>>, FALSE)}

\* validate_connection of the other types asks nobody.
MayNotConnect(type) == type # "NA"

(***************************************************************************)
(* VMSs.                                                                   *)
(***************************************************************************)

NewVms(v, k, type, verified) ==
  /\ vmses[v] = None /\ CamerasOf({v}) = {}
  /\ vmses' = [vmses EXCEPT ![v] = [connector |-> k, type |-> type, verified |-> verified,
                                   retyped |-> FALSE]]

Verify(v, verified) == vmses' = Marked(vmses, {v}, verified)

\* A VMS stays verified when the addition raises an exception.
CreateVms(v, k, type) ==
  /\ k \in Rows(connectors) /\ connectors[k].verified /\ ~ connectors[k].direct
  /\ \/ /\ MayNotConnect(type)
        /\ NewVms(v, k, type, FALSE)
        /\ UNCHANGED <<cameras, streams>>
     \/ /\ NewVms(v, k, type, TRUE)
        /\ \E a \in AddCameras(v, type, FreshCameras, {}) :
             /\ Len(a.streams) <= Len(FreshStreams(streams))
             /\ cameras' = With(cameras, FreshCameras, a.cameras)
             /\ streams' = With(streams, FreshStreams(streams), a.streams)
  /\ UNCHANGED <<connectors, uses>>

\* old: the cameras that are destroyed first.  ZoneMinder's streams may still
\* refer to them.  When the addition fails the rest is not verified.
Readd(v, old) ==
  LET cs == Ended(cameras, old)
      ss == Ended(streams, StreamsOf(old))
      stale == IF vmses[v].type = "zoneminder" THEN old ELSE {}
      ids == SetToSeq(FreeCameras(cs, ss) \ stale)
  IN \E a \in AddCameras(v, vmses[v].type, ids, stale) :
       LET new == With(cs, ids, a.cameras)
           newStreams == With(ss, FreshStreams(ss), a.streams)
           C == IF a.raised THEN {c \in Rows(new) : new[c].vms = v} ELSE {}
       IN /\ Len(a.streams) <= Len(FreshStreams(ss))
          /\ Verify(v, ~ a.raised)
          /\ cameras' = Marked(new, C, FALSE)
          /\ streams' = Marked(newStreams,
                               {s \in Rows(newStreams) : newStreams[s].camera \in C}, FALSE)

SetVerificationFalse(v) ==
  /\ Verify(v, FALSE)
  /\ cameras' = Marked(cameras, CamerasOf({v}), FALSE)
  /\ streams' = Marked(streams, StreamsOf(CamerasOf({v})), FALSE)

CanUpdateVms(v) == v \in Rows(vmses) /\ ~ Direct(v) /\ ~ InUse(CamerasOf({v}))

\* Mutant: the old cameras stay.
UpdateVmsAdds(v) ==
  /\ CanUpdateVms(v)
  /\ \/ MayNotConnect(vmses[v].type) /\ SetVerificationFalse(v)
     \/ Readd(v, {})
  /\ UNCHANGED <<connectors, uses>>

\* The form of a VMS is sent with its connector disabled.
UpdateVms(v) ==
  /\ CanUpdateVms(v)
  /\ \/ MayNotConnect(vmses[v].type) /\ SetVerificationFalse(v)
     \/ Readd(v, CamerasOf({v}))
  /\ UNCHANGED <<connectors, uses>>

\* The same on both pages.
DestroyVms(v) ==
  /\ v \in Rows(vmses)
  /\ ~ InUse(CamerasOf({v}))
  /\ DestroyVmses({v})
  /\ UNCHANGED connectors

(***************************************************************************)
(* Direct cameras: a VMS with one camera and one stream.                   *)
(***************************************************************************)

\* Mutant: a camera that is there keeps its mark.
InitDirectKeepsMark(v, verified) ==
  LET C == CamerasOf({v})
      added == IF C = {} THEN {Head(FreshCameras)} ELSE {}
  IN \E c \in C \cup added, s \in {Head(FreshStreams(streams))} :
       /\ cameras' = [cameras EXCEPT ![c] =
                        NewCamera(v, ByHand, IF c \in C THEN @.verified ELSE verified)]
       /\ streams' = IF StreamsOf({c}) = {}
                     THEN [streams EXCEPT ![s] = NewStream(c, verified, FALSE)] ELSE streams

\* verified: the camera answered the initializer program.  Of several cameras
\* the first is taken, any here.  A stream that exists keeps its mark.
InitDirectIpCamera(v, verified) ==
  LET C == CamerasOf({v})
      added == IF C = {} THEN {Head(FreshCameras)} ELSE {}
  IN \E c \in C \cup added, s \in {Head(FreshStreams(streams))} :
       /\ cameras' = [cameras EXCEPT ![c] = NewCamera(v, ByHand, verified)]
       /\ streams' = IF StreamsOf({c}) = {}
                     THEN [streams EXCEPT ![s] = NewStream(c, verified, FALSE)] ELSE streams

RoomForOne == FreshCameras # <<>> /\ Rows(streams) # Streams

\* When the program cannot be run there is the row of the VMS and no more.
CreateDirectCamera(v, k) ==
  /\ k \in Rows(connectors) /\ connectors[k].verified /\ connectors[k].direct
  /\ RoomForOne
  /\ \/ NewVms(v, k, "NA", FALSE) /\ UNCHANGED <<cameras, streams>>
     \/ \E verified \in BOOLEAN :
          NewVms(v, k, "NA", verified) /\ InitDirectIpCamera(v, verified)
  /\ UNCHANGED <<connectors, uses>>

\* The select of connectors is disabled, but when the form is shown again after
\* an error.
Selectable(v) ==
  {vmses[v].connector} \cup {k \in Rows(connectors) : connectors[k].verified /\ connectors[k].direct}

Edited(v, k, verified) == [vmses EXCEPT ![v].connector = k, ![v].verified = verified]

\* In use or not.  When the program cannot be run the connector alone changes.
UpdateDirectCamera(v) ==
  /\ v \in Rows(vmses) /\ Direct(v) /\ RoomForOne
  /\ \E k \in Selectable(v) :
       \/ vmses' = Edited(v, k, vmses[v].verified) /\ UNCHANGED <<cameras, streams>>
       \/ \E verified \in BOOLEAN :
            vmses' = Edited(v, k, verified) /\ InitDirectIpCamera(v, verified)
  /\ UNCHANGED <<connectors, uses>>

(***************************************************************************)
(* Cameras and streams.                                                    *)
(***************************************************************************)

CreateCamera(v) ==
  /\ v \in Rows(vmses) /\ ~ Direct(v) /\ FreshCameras # <<>>
  /\ cameras' = [cameras EXCEPT ![Head(FreshCameras)] = NewCamera(v, ByHand, FALSE)]
  /\ UNCHANGED <<connectors, vmses, streams, uses>>

\* In use or not.
UpdateCamera(c) ==
  /\ c \in Rows(cameras)
  /\ cameras' = [cameras EXCEPT ![c].camera_id = ByHand]
  /\ UNCHANGED <<connectors, vmses, streams, uses>>

DestroyCamera(c) ==
  /\ c \in Rows(cameras) /\ ~ InUse({c})
  /\ DestroyCameras({c})
  /\ UNCHANGED <<connectors, vmses>>

\* A stream is tried when its connector has the name Milestone.
CreateStream(c) ==
  /\ c \in Rows(cameras) /\ Rows(streams) # Streams
  /\ \E verified \in BOOLEAN :
       streams' = With(streams, FreshStreams(streams), <<NewStream(c, verified, FALSE)>>)
  /\ UNCHANGED <<connectors, vmses, cameras, uses>>

\* The page of a stream is reached by its camera.
OnPage(s) == s \in Rows(streams) /\ streams[s].camera \in Rows(cameras)

UpdateStream(s) ==
  /\ OnPage(s) /\ s \notin uses
  /\ \E verified \in BOOLEAN : streams' = Marked(streams, {s}, verified)
  /\ UNCHANGED <<connectors, vmses, cameras, uses>>

\* Mutant: the stream is not looked for among those in use.
DestroyStreamInUse(s) ==
  /\ OnPage(s)
  /\ streams' = Ended(streams, {s})
  /\ uses' = uses \ {s}
  /\ UNCHANGED <<connectors, vmses, cameras>>

DestroyStream(s) ==
  /\ OnPage(s) /\ s \notin uses
  /\ streams' = Ended(streams, {s})
  /\ UNCHANGED <<connectors, vmses, cameras, uses>>

(***************************************************************************)
(* Instances.  Their form offers Stream.all.                               *)
(***************************************************************************)

CreateInstanceStream(s) ==
  /\ s \in Rows(streams) \ uses
  /\ uses' = uses \cup {s}
  /\ UNCHANGED <<connectors, vmses, cameras, streams>>

DestroyInstanceStream(s) ==
  /\ s \in uses
  /\ uses' = uses \ {s}
  /\ UNCHANGED <<connectors, vmses, cameras, streams>>

Next ==
  \/ \E k \in Connectors :
       \/ CreateConnector(k) \/ UpdateConnector(k) \/ DestroyConnector(k)
       \/ \E v \in Vmses : CreateDirectCamera(v, k) \/ \E type \in Types : CreateVms(v, k, type)
  \/ \E v \in Vmses :
       UpdateVms(v) \/ DestroyVms(v) \/ UpdateDirectCamera(v) \/ CreateCamera(v)
  \/ \E c \in Cameras : UpdateCamera(c) \/ DestroyCamera(c) \/ CreateStream(c)
  \/ \E s \in Streams :
       \/ UpdateStream(s) \/ DestroyStream(s)
       \/ CreateInstanceStream(s) \/ DestroyInstanceStream(s)

Spec == Init /\ [][Next]_vars

-----------------------------------------------------------------------------
\* The joins of StreamGateway: stream, camera, VMS and connector are there.
FindStream(s) ==
  /\ s \in Rows(streams)
  /\ streams[s].camera \in Rows(cameras)
  /\ LET v == cameras[streams[s].camera].vms
     IN v \in Rows(vmses) /\ vmses[v].connector \in Rows(connectors)

(***************************************************************************)
(* A stream that an instance uses is destroyed by no page: the guards of   *)
(* five controllers cover everything their cascades reach.                 *)
(***************************************************************************)
InUseIsKept == [][\A s \in uses : streams'[s] # None]_vars

(***************************************************************************)
(* What the form of an instance offers is found by the server: no order of *)
(* creations, edits, destructions and failures halfway leaves a stream     *)
(* without its camera, VMS or connector, but for the streams that an edit  *)
(* of a ZoneMinder VMS adds to its old cameras.                            *)
(***************************************************************************)
OfferedIsFound == \A s \in Rows(streams) : ~ streams[s].stale => FindStream(s)

(***************************************************************************)
(* A camera is marked verified only under a verified VMS, whichever step   *)
(* of an edit failed and whichever connector a direct camera was moved to, *)
(* unless its VMS was there when its connector changed its type.           *)
(***************************************************************************)
VerifiedUnderVerified ==
  \A c \in Rows(cameras) :
    LET v == cameras[c].vms
    IN cameras[c].verified /\ ~ vmses[v].retyped => vmses[v].verified

(***************************************************************************)
(* A direct camera is the only one of its VMS, though edits move it to     *)
(* other connectors and fail: its pages show and edit the first alone.     *)
(***************************************************************************)
OneDirectCamera ==
  \A v \in Rows(vmses) :
    Direct(v) /\ ~ vmses[v].retyped => \A c, d \in CamerasOf({v}) : c = d

(***************************************************************************)
(* A camera of a VMS is there once, however often the VMS is edited and    *)
(* wherever the edit failed.                                               *)
(***************************************************************************)
OneCameraPerMonitor ==
  \A c, d \in Rows(cameras) :
    /\ c # d /\ cameras[c].vms = cameras[d].vms
    /\ cameras[c].camera_id # ByHand
    => cameras[c].camera_id # cameras[d].camera_id

=============================================================================
