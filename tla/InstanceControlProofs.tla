----------------------- MODULE InstanceControlProofs -------------------------
(***************************************************************************)
(* Proofs about InstanceControl, for any number of analytics, instances,   *)
(* inputs and streams, of requests given up and of statements that fail:   *)
(* what the status column says and what the server runs agree with the     *)
(* rows, and every reply can be read.                                      *)
(***************************************************************************)
EXTENDS InstanceControl, TLAPS

IsStart(m) == m.type = "StartAnalyticInstance"
IsStopAll(m) == m.type = "StopAnalyticInstances"

-----------------------------------------------------------------------------
(***************************************************************************)
(* The inductive invariant.  First the types, by where the variables are.  *)
(***************************************************************************)
DbOK ==
  /\ analyticRow \in [Analytics -> {"new", "verified", "unverified", "gone"}]
  /\ inputRows \subseteq Inputs
  /\ row \in [Instances -> {"new", "live", "gone"}]
  /\ analyticOf \in [Instances -> Analytics \cup {None}]
  /\ status \in [Instances -> {"Started", "Stopped"}]
  /\ config \in [Instances -> [Inputs -> Streams \cup {None}]]

WebOK ==
  /\ webStage \in {"idle", "sent", "served", "lost", "replied"}
  /\ webRequest \in Requests \cup {None} /\ late \in [Slots -> Requests \cup {None}]
  /\ touched \subseteq Instances

ServerOK ==
  /\ serverStatus \in {"Started", "Stopped"} /\ alive \in BOOLEAN
  /\ known \subseteq Instances /\ launched \subseteq Instances
  /\ lists \in [Instances -> SUBSET Streams]
  /\ dest \in [Streams -> [Instances -> Inputs \cup {None}]]
  /\ stage \in {"listen", "started", "stopped", "stop next", "restart", "boot"}
  /\ request \in Requests \cup {None}
  /\ current \in Instances \cup {None}
  /\ todo \subseteq Instances \cup Streams /\ errors \in BOOLEAN
  /\ dbFailures \in 0 .. MaxDbFailures

Types == DbOK /\ WebOK /\ ServerOK

\* The instances that a request names have, or had, a row.
Named(m) ==
  IF m.type \in {"StartAnalyticInstance", "StopAnalyticInstance"} THEN {m.analyticinstanceid}
  ELSE Doomed(m)

Present == {m \in Requests : \A i \in Named(m) : row[i] # "new"}

\* Where the web interface waits, and for what.
Asked ==
  /\ webStage # "idle" => webRequest \in Present
  /\ Waiting \subseteq Present
  /\ webStage = "served" => ~Listening /\ request = webRequest
  /\ ~alive \/ webStage = "lost" => Quiet /\ known = {}

\* A start that the server may still receive asks for what is configured,
\* unless the instance was edited since: then it is touched.
AsConfigured(m) ==
  /\ m.analyticinstanceid \in Live
  /\ \A p \in m.inputstreams : IsConfigured(m.analyticinstanceid, p[1], p[2])

Fresh ==
  /\ webStage = "sent" /\ IsStart(webRequest) => AsConfigured(webRequest)
  /\ \A m \in Waiting : IsStart(m) => AsConfigured(m) \/ m.analyticinstanceid \in touched

\* An analytic whose instances are about to be destroyed has no others, and
\* those are stopped, or touched, or their request is not done with.
DestroysTheStopped ==
  webStage # "idle" /\ IsStopAll(webRequest) =>
    /\ InstancesOf(webRequest.analyticid) \subseteq webRequest.analyticinstances
    /\ webStage = "replied" =>
       \/ webRequest \in Waiting
       \/ ~Listening /\ request = webRequest
       \/ webRequest.analyticinstances \subseteq touched
       \/ /\ Quiet
          /\ dbFailures = 0 => webRequest.analyticinstances \cap known \subseteq touched

WebInv == Asked /\ Fresh /\ DestroysTheStopped /\ RepliesUnderstood

\* What the server has done of the request it is at.
Staged ==
  /\ ~Listening => request \in Present
  /\ stage = "started" => IsStart(request) /\ current \in known
  /\ stage = "stopped" => current \in Instances \ known
  /\ stage \in {"stopped", "stop next"} =>
       /\ request.type \in {"StopAnalyticInstance", "StopAnalyticInstances"}
       /\ Doomed(request) \cap known \subseteq todo
  /\ stage \in {"restart", "boot"} => request.type \in ServerEvents

Rows ==
  /\ \A i \in known \cup touched : row[i] # "new"
  /\ \A i \in Live : analyticOf[i] \in Analytics
  /\ \A i \in Instances \ Live : config[i] = NoConfig
  /\ \A i \in Instances \ known : lists[i] = {}

\* StoppedIsTrue at every step of an operation: a start or a boot that is
\* under way will write the status of what it has started.
StatusHolds ==
  dbFailures = 0 =>
    /\ stage \notin {"restart", "boot"} =>
         \A i \in Live \cap known :
           status[i] = "Started" \/ (stage = "started" /\ i = current)
    /\ serverStatus = "Stopped" /\ stage # "boot" => known = {}

IInv == Types /\ WebInv /\ Staged /\ Rows /\ StatusHolds /\ RunsAsConfigured

-----------------------------------------------------------------------------
\* The parts of the types are the type invariant.
LEMMA TypesAreTypeOK == Types <=> TypeOK
BY DEF Types, DbOK, WebOK, ServerOK, TypeOK

\* What is in a request, by its type.
LEMMA Forms ==
  ASSUME NEW m \in Requests
  PROVE  /\ m # None
         /\ m.type \in ServerEvents \cup
              {"StartAnalyticInstance", "StopAnalyticInstance", "StopAnalyticInstances"}
         /\ IsStart(m) => /\ m.analyticinstanceid \in Instances
                          /\ m.inputstreams \in SUBSET Pairs
                          /\ Has(m, {"analyticinstanceid", "analyticplugindir", "inputstreams"})
         /\ m.type = "StopAnalyticInstance" => m.analyticinstanceid \in Instances /\ ExtractsStop(m)
         /\ IsStopAll(m) => /\ m.analyticid \in Analytics
                            /\ m.analyticinstances \in SUBSET Instances
                            /\ ExtractsStopAll(m)
<1> USE DEF ServerEvents, IsStart, IsStopAll, Has, ExtractsStop, ExtractsStopAll
<1>0. m # None
  BY InstanceAssumption
<1>1. ASSUME NEW i \in Instances, NEW a \in Analytics, NEW inputs \in SUBSET Pairs,
             m = StartAnalyticInstance(i, a, inputs)
      PROVE  /\ m.type = "StartAnalyticInstance"
             /\ m.analyticinstanceid = i /\ m.inputstreams = inputs
             /\ DOMAIN m = {"type", "analyticinstanceid", "analyticplugindir", "inputstreams"}
  BY <1>1 DEF StartAnalyticInstance
<1>2. ASSUME NEW i \in Instances, m = StopAnalyticInstance(i)
      PROVE  /\ m.type = "StopAnalyticInstance" /\ m.analyticinstanceid = i
             /\ DOMAIN m = {"type", "analyticinstanceid"}
  BY <1>2 DEF StopAnalyticInstance
<1>3. ASSUME NEW a \in Analytics, NEW ids \in SUBSET Instances, m = StopAnalyticInstances(a, ids)
      PROVE  /\ m.type = "StopAnalyticInstances" /\ m.analyticid = a /\ m.analyticinstances = ids
             /\ DOMAIN m = {"type", "analyticid", "analyticinstances"}
  BY <1>3 DEF StopAnalyticInstances
<1>4. ASSUME NEW command \in ServerEvents, m = ServerRequest(command) PROVE m.type = command
  BY <1>4 DEF ServerRequest
<1>5. CASE m \in {StartAnalyticInstance(i, a, inputs) :
                     i \in Instances, a \in Analytics, inputs \in SUBSET Pairs}
  BY <1>0, <1>1, <1>5
<1>6. CASE m \in {StopAnalyticInstance(i) : i \in Instances}
  BY <1>0, <1>2, <1>6
<1>7. CASE m \in {StopAnalyticInstances(a, ids) : a \in Analytics, ids \in SUBSET Instances}
  BY <1>0, <1>3, <1>7
<1>8. CASE m \in {ServerRequest(command) : command \in ServerEvents}
  BY <1>0, <1>4, <1>8
<1>9. QED
  BY <1>5, <1>6, <1>7, <1>8 DEF Requests

\* What the web interface builds has those elements.
LEMMA Built ==
  /\ \A i \in Instances, a \in Analytics, inputs \in SUBSET Pairs :
       LET m == StartAnalyticInstance(i, a, inputs)
       IN  m \in Requests /\ IsStart(m) /\ m.analyticinstanceid = i /\ m.inputstreams = inputs
  /\ \A i \in Instances :
       LET m == StopAnalyticInstance(i)
       IN  m \in Requests /\ m.type = "StopAnalyticInstance" /\ m.analyticinstanceid = i
  /\ \A a \in Analytics, ids \in SUBSET Instances :
       LET m == StopAnalyticInstances(a, ids)
       IN  m \in Requests /\ IsStopAll(m) /\ m.analyticid = a /\ m.analyticinstances = ids
  /\ \A command \in ServerEvents :
       ServerRequest(command) \in Requests /\ ServerRequest(command).type = command
<1>1. ASSUME NEW i \in Instances, NEW a \in Analytics, NEW inputs \in SUBSET Pairs
      PROVE  LET m == StartAnalyticInstance(i, a, inputs)
             IN  m \in Requests /\ IsStart(m) /\ m.analyticinstanceid = i /\ m.inputstreams = inputs
  <2>1. StartAnalyticInstance(i, a, inputs) \in Requests
    BY DEF Requests
  <2>2. QED
    BY <2>1 DEF StartAnalyticInstance, IsStart
<1>2. ASSUME NEW i \in Instances
      PROVE  LET m == StopAnalyticInstance(i)
             IN  m \in Requests /\ m.type = "StopAnalyticInstance" /\ m.analyticinstanceid = i
  <2>1. StopAnalyticInstance(i) \in Requests
    BY DEF Requests
  <2>2. QED
    BY <2>1 DEF StopAnalyticInstance
<1>3. ASSUME NEW a \in Analytics, NEW ids \in SUBSET Instances
      PROVE  LET m == StopAnalyticInstances(a, ids)
             IN  m \in Requests /\ IsStopAll(m) /\ m.analyticid = a /\ m.analyticinstances = ids
  <2>1. StopAnalyticInstances(a, ids) \in Requests
    BY DEF Requests
  <2>2. QED
    BY <2>1 DEF StopAnalyticInstances, IsStopAll
<1>4. ASSUME NEW command \in ServerEvents
      PROVE  ServerRequest(command) \in Requests /\ ServerRequest(command).type = command
  <2>1. ServerRequest(command) \in Requests
    BY DEF Requests
  <2>2. QED
    BY <2>1 DEF ServerRequest
<1>5. QED
  BY <1>1, <1>2, <1>3, <1>4

\* The server's replies have all elements, those to an analytic's request the
\* ones its readers take.
LEMMA Readable ==
  /\ \A m, x : /\ Understands(m, InvalidReply(x)) /\ Understands(m, StartReply(x))
               /\ Understands(m, StopReply(x)) /\ Understands(m, StatusReply(x))
  /\ \A m : m.type \notin ServerEvents =>
       /\ Understands(m, AnalyticStartReply) /\ Understands(m, AnalyticStopReply)
       /\ Understands(m, AnalyticsStopReply)
<1> USE DEF Understands, ParsesServerReply, ParsesAnalyticReply, Has
<1>1. ASSUME NEW m, NEW x
      PROVE  /\ Understands(m, InvalidReply(x)) /\ Understands(m, StartReply(x))
             /\ Understands(m, StopReply(x)) /\ Understands(m, StatusReply(x))
  BY DEF InvalidReply, StartReply, StopReply, StatusReply
<1>2. ASSUME NEW m, m.type \notin ServerEvents
      PROVE  /\ Understands(m, AnalyticStartReply) /\ Understands(m, AnalyticStopReply)
             /\ Understands(m, AnalyticsStopReply)
  BY <1>2 DEF AnalyticStartReply, AnalyticStopReply, AnalyticsStopReply
<1>3. QED
  BY <1>1, <1>2

-----------------------------------------------------------------------------
\* A request is taken off its queue, and the web interface goes on if it waits.
LEMMA Taken ==
  ASSUME IInv, NEW type, NEW m \in Arrived(type), NEW next, NEW reply, Take(m, next, reply)
  PROVE  /\ alive /\ Listening /\ m \in Present /\ m \in Requests /\ m.type = type
         /\ webRequest' = webRequest /\ late' \in [Slots -> Requests \cup {None}]
         /\ Waiting' \subseteq Waiting /\ Waiting \subseteq Waiting' \cup {m}
         /\ \/ m \in Waiting /\ UNCHANGED <<webStage, webReply>>
            \/ /\ webStage = "sent" /\ m = webRequest /\ webStage' = next /\ webReply' = reply
               /\ UNCHANGED late
<1>1. /\ alive /\ Listening /\ m.type = type /\ m # None
      /\ m \in Waiting \/ (webStage = "sent" /\ m = webRequest)
      /\ m \in Present /\ m \in Requests
  BY Forms DEF Arrived, IInv, WebInv, Asked, Types, WebOK, Present
<1>2. CASE webStage = "sent" /\ m = webRequest /\ webStage' = next /\ webReply' = reply
           /\ UNCHANGED <<webRequest, late>>
  BY <1>1, <1>2 DEF IInv, Types, WebOK, Waiting
<1>3. ASSUME NEW k \in Slots, late[k] = m, late' = [late EXCEPT ![k] = None], UNCHANGED web
      PROVE  /\ webRequest' = webRequest /\ late' \in [Slots -> Requests \cup {None}]
             /\ Waiting' \subseteq Waiting /\ Waiting \subseteq Waiting' \cup {m}
             /\ m \in Waiting /\ UNCHANGED <<webStage, webReply>>
  <2>1. late \in [Slots -> Requests \cup {None}]
    BY DEF IInv, Types, WebOK
  <2>2. QED
    BY <1>1, <1>3, <2>1 DEF Waiting, web, Slots
<1>4. QED
  BY <1>1, <1>2, <1>3 DEF Take

\* What an operation that is over leaves of the touched instances.
LEMMA TouchedStays ==
  ASSUME NEW m, Over(m)
  PROVE  /\ known' \ touched' \subseteq known' \ touched
         /\ touched' \subseteq touched \cup Doomed(m)
         /\ Waiting' # {} => touched \subseteq touched' /\ Doomed(m) \subseteq touched'
         /\ Waiting' = {} => touched \cap known' \subseteq touched'
BY DEF Over

\* A request that is answered at once: the web interface may only destroy what
\* the request stopped.
LEMMA Replied ==
  ASSUME IInv, NEW type, NEW m \in Arrived(type), NEW reply, Take(m, "replied", reply), Over(m),
         UNCHANGED <<analyticRow, row, analyticOf, config, stage, request>>, Understands(m, reply),
         IsStopAll(m) /\ dbFailures' = 0 => m.analyticinstances \cap known' = {}
  PROVE  WebOK' /\ WebInv'
<1>1. /\ alive /\ Listening /\ m \in Present /\ m \in Requests /\ m.type = type
      /\ webRequest' = webRequest /\ late' \in [Slots -> Requests \cup {None}]
      /\ Waiting' \subseteq Waiting /\ Waiting \subseteq Waiting' \cup {m}
      /\ \/ m \in Waiting /\ UNCHANGED <<webStage, webReply>>
         \/ /\ webStage = "sent" /\ m = webRequest /\ webStage' = "replied" /\ webReply' = reply
            /\ UNCHANGED late
  BY Taken
<1>2. WebOK'
  <2>1. Doomed(m) \subseteq Instances
    BY <1>1, Forms DEF Doomed, IsStopAll
  <2>2. QED
    BY <1>1, <2>1, TouchedStays DEF IInv, Types, WebOK
<1>3. alive' = alive /\ Listening'
  BY <1>1 DEF Over, Listening
<1>4. Asked'
  BY <1>1, <1>3 DEF IInv, WebInv, Asked, Present, Quiet
<1>5. Fresh'
  <2>1. \A r : AsConfigured(r)' <=> AsConfigured(r)
    BY DEF AsConfigured, Live, IsConfigured
  <2>2. Waiting' # {} => touched \subseteq touched'
    BY TouchedStays
  <2>3. QED
    BY <1>1, <2>1, <2>2 DEF IInv, WebInv, Fresh
<1>6. DestroysTheStopped'
  <2> SUFFICES ASSUME webStage' # "idle", IsStopAll(webRequest)
               PROVE  /\ InstancesOf(webRequest.analyticid)' \subseteq webRequest.analyticinstances
                      /\ webStage' = "replied" =>
                           \/ webRequest \in Waiting'
                           \/ webRequest.analyticinstances \subseteq touched'
                           \/ /\ Quiet'
                              /\ dbFailures' = 0 =>
                                   webRequest.analyticinstances \cap known' \subseteq touched'
    BY <1>1 DEF DestroysTheStopped
  <2>1. InstancesOf(webRequest.analyticid)' \subseteq webRequest.analyticinstances
    BY <1>1 DEF IInv, WebInv, DestroysTheStopped, InstancesOf, Live
  <2>2. Waiting' = {} => Quiet'
    BY <1>3 DEF Quiet
  <2>3. CASE m = webRequest
    <3>1. Doomed(m) = webRequest.analyticinstances
      BY <2>3 DEF Doomed, IsStopAll
    <3>2. QED
      BY <2>1, <2>2, <2>3, <3>1, TouchedStays
  <2>4. CASE m # webRequest /\ webStage' = "replied"
    <3>1. m \in Waiting /\ webStage = "replied"
      BY <1>1, <2>4
    <3>2. \/ webRequest \in Waiting
          \/ webRequest.analyticinstances \subseteq touched
      BY <1>1, <3>1 DEF IInv, WebInv, DestroysTheStopped, Quiet
    <3>3. QED
      BY <1>1, <2>1, <2>2, <2>4, <3>2, TouchedStays
  <2>5. QED
    BY <2>1, <2>3, <2>4
<1>7. RepliesUnderstood'
  BY <1>1 DEF IInv, WebInv, RepliesUnderstood
<1>8. QED
  BY <1>2, <1>4, <1>5, <1>6, <1>7 DEF WebInv

\* A request whose operation takes more steps: the web interface is served, or
\* has given up.
LEMMA Begun ==
  ASSUME IInv, NEW type, NEW m \in Arrived(type), NEW first, Begin(m, first), first # "listen",
         UNCHANGED <<analyticRow, row, analyticOf, config>>
  PROVE  WebOK' /\ WebInv'
<1>1. /\ alive /\ Listening /\ m \in Present /\ m \in Requests /\ m.type = type
      /\ webRequest' = webRequest /\ late' \in [Slots -> Requests \cup {None}]
      /\ Waiting' \subseteq Waiting /\ Waiting \subseteq Waiting' \cup {m}
      /\ \/ m \in Waiting /\ UNCHANGED <<webStage, webReply>>
         \/ /\ webStage = "sent" /\ m = webRequest /\ webStage' = "served" /\ webReply' = None
            /\ UNCHANGED late
  BY Taken DEF Begin
<1>2. alive' = alive /\ ~Listening' /\ request' = m /\ UNCHANGED touched
  BY DEF Begin, Listening
<1>3. WebOK'
  BY <1>1, <1>2 DEF IInv, Types, WebOK
<1>4. Asked'
  BY <1>1, <1>2 DEF IInv, WebInv, Asked, Present, Quiet
<1>5. Fresh'
  <2>1. \A r : AsConfigured(r)' <=> AsConfigured(r)
    BY DEF AsConfigured, Live, IsConfigured
  <2>2. QED
    BY <1>1, <1>2, <2>1 DEF IInv, WebInv, Fresh
<1>6. DestroysTheStopped'
  BY <1>1, <1>2 DEF IInv, WebInv, DestroysTheStopped, InstancesOf, Live, Quiet
<1>7. RepliesUnderstood'
  BY <1>1 DEF IInv, WebInv, RepliesUnderstood
<1>8. QED
  BY <1>3, <1>4, <1>5, <1>6, <1>7 DEF WebInv

\* The steps in between leave the web interface alone.
LEMMA Continued ==
  ASSUME IInv, Continue, UNCHANGED <<analyticRow, row, analyticOf, config, request>>, ~Listening, ~Listening'
  PROVE  WebOK' /\ WebInv'
<1>1. UNCHANGED <<webStage, webRequest, webReply, late, alive, touched>>
  BY DEF Continue, web
<1>2. Waiting' = Waiting
  BY <1>1 DEF Waiting
<1>3. WebOK'
  BY <1>1 DEF IInv, Types, WebOK
<1>4. Asked'
  BY <1>1, <1>2 DEF IInv, WebInv, Asked, Present, Quiet
<1>5. Fresh'
  BY <1>1, <1>2 DEF IInv, WebInv, Fresh, AsConfigured, Live, IsConfigured
<1>6. DestroysTheStopped'
  BY <1>1, <1>2 DEF IInv, WebInv, DestroysTheStopped, InstancesOf, Live, Quiet
<1>7. RepliesUnderstood'
  BY <1>1 DEF IInv, WebInv, RepliesUnderstood
<1>8. QED
  BY <1>3, <1>4, <1>5, <1>6, <1>7 DEF WebInv

\* The end of a longer operation.
LEMMA Answered ==
  ASSUME IInv, NEW reply, Answer(reply), ~Listening, UNCHANGED <<analyticRow, row, analyticOf, config>>,
         Understands(request, reply),
         IsStopAll(request) /\ dbFailures' = 0 => request.analyticinstances \cap known' = {}
  PROVE  WebOK' /\ WebInv' /\ Listening'
<1>1. /\ webRequest' = webRequest /\ UNCHANGED late /\ Listening' /\ Over(request)
      /\ UNCHANGED alive
      /\ \/ webStage = "served" /\ webStage' = "replied" /\ webReply' = reply
         \/ webStage # "served" /\ UNCHANGED <<webStage, webReply>>
  BY DEF Answer, Reset, Listening, web, Over
<1>2. Waiting' = Waiting /\ request \in Present /\ request \in Requests
      /\ (webStage = "served" => request = webRequest)
      /\ alive /\ webStage # "lost"
  BY <1>1 DEF Waiting, IInv, Staged, Present, WebInv, Asked, Quiet
<1>3. WebOK'
  <2>1. Doomed(request) \subseteq Instances
    BY <1>2, Forms DEF Doomed, IsStopAll
  <2>2. QED
    BY <1>1, <2>1, TouchedStays DEF IInv, Types, WebOK
<1>4. Asked'
  BY <1>1, <1>2 DEF IInv, WebInv, Asked, Present
<1>5. Fresh'
  <2>1. \A r : AsConfigured(r)' <=> AsConfigured(r)
    BY DEF AsConfigured, Live, IsConfigured
  <2>2. Waiting' # {} => touched \subseteq touched'
    BY <1>1, TouchedStays
  <2>3. QED
    BY <1>1, <1>2, <2>1, <2>2 DEF IInv, WebInv, Fresh
<1>6. DestroysTheStopped'
  <2> SUFFICES ASSUME webStage' # "idle", IsStopAll(webRequest)
               PROVE  /\ InstancesOf(webRequest.analyticid)' \subseteq webRequest.analyticinstances
                      /\ webStage' = "replied" =>
                           \/ webRequest \in Waiting'
                           \/ webRequest.analyticinstances \subseteq touched'
                           \/ /\ Quiet'
                              /\ dbFailures' = 0 =>
                                   webRequest.analyticinstances \cap known' \subseteq touched'
    BY <1>1 DEF DestroysTheStopped
  <2>1. InstancesOf(webRequest.analyticid)' \subseteq webRequest.analyticinstances
    BY <1>1 DEF IInv, WebInv, DestroysTheStopped, InstancesOf, Live
  <2>2. Waiting' = {} => Quiet'
    BY <1>1 DEF Quiet
  <2>3. CASE request = webRequest
    <3>1. Doomed(request) = webRequest.analyticinstances
      BY <2>3 DEF Doomed, IsStopAll
    <3>2. QED
      BY <1>1, <2>1, <2>2, <2>3, <3>1, TouchedStays
  <2>4. CASE request # webRequest /\ webStage' = "replied"
    <3>1. \/ webRequest \in Waiting
          \/ webRequest.analyticinstances \subseteq touched
      BY <1>1, <1>2, <2>4 DEF IInv, WebInv, DestroysTheStopped, Quiet
    <3>2. QED
      BY <1>1, <1>2, <2>1, <2>2, <3>1, TouchedStays
  <2>5. QED
    BY <2>1, <2>3, <2>4
<1>7. RepliesUnderstood'
  BY <1>1, <1>2 DEF IInv, WebInv, RepliesUnderstood
<1>8. QED
  BY <1>1, <1>3, <1>4, <1>5, <1>6, <1>7 DEF WebInv

-----------------------------------------------------------------------------
(***************************************************************************)
(* The server's operations.                                                *)
(***************************************************************************)

\* A statement that fails is counted.
LEMMA Failed ==
  ASSUME Types, DbFails
  PROVE  dbFailures' \in 0 .. MaxDbFailures /\ dbFailures' # 0
<1>1. dbFailures \in 0 .. MaxDbFailures /\ MaxDbFailures \in Nat
  BY InstanceAssumption DEF Types, ServerOK
<1>2. dbFailures < MaxDbFailures /\ dbFailures' = dbFailures + 1
  BY DEF DbFails
<1>3. QED
  BY <1>1, <1>2

\* A statement that succeeds writes the status of the rows there are.
LEMMA Written ==
  ASSUME Types, NEW S, NEW x \in {"Started", "Stopped"}, SetStatus(S, x)
  PROVE  /\ DbOK' /\ UNCHANGED <<analyticRow, inputRows, row, analyticOf, config>>
         /\ \A i \in Instances : status'[i] = IF i \in S \cap Live THEN x ELSE status[i]
BY DEF SetStatus, Types, DbOK

\* What an operation does to the touched instances keeps their rows.
LEMMA TouchedHaveRows ==
  ASSUME IInv, NEW m \in Present, Over(m), UNCHANGED row
  PROVE  \A i \in touched' : row'[i] # "new"
BY TouchedStays DEF IInv, Rows, Present, Named, Doomed

\* Without an edit, what goes on to run is as configured as it was.
LEMMA RunsOn ==
  ASSUME RunsAsConfigured, UNCHANGED <<analyticRow, row, analyticOf, config, lists, dest>>,
         known' \ touched' \subseteq known \ touched, dbFailures' = 0 => dbFailures = 0
  PROVE  RunsAsConfigured'
<1> SUFFICES ASSUME dbFailures' = 0, NEW i \in known' \ touched'
             PROVE  /\ i \in Live'
                    /\ \A s \in lists[i] : dest[s][i] # None => IsConfigured(i, dest[s][i], s)'
  BY DEF RunsAsConfigured, IsConfigured
<1>1. /\ i \in Live
      /\ \A s \in lists[i] : dest[s][i] # None => IsConfigured(i, dest[s][i], s)
  BY DEF RunsAsConfigured
<1>2. \A n, s : IsConfigured(i, n, s) => IsConfigured(i, n, s)'
  BY DEF IsConfigured
<1>3. ASSUME NEW s \in lists[i], dest[s][i] # None PROVE IsConfigured(i, dest[s][i], s)'
  <2>1. IsConfigured(i, dest[s][i], s)
    BY <1>1, <1>3
  <2>2. QED
    BY <2>1 DEF IsConfigured
<1>4. QED
  BY <1>1, <1>3 DEF Live

\* A request is answered and nothing else happens.
LEMMA RepliedOnly ==
  ASSUME IInv, NEW type, NEW m \in Arrived(type), NEW reply, Same, Reply(m, reply),
         Understands(m, reply), IsStopAll(m) => serverStatus = "Stopped"
  PROVE  IInv'
<1>1. /\ Take(m, "replied", reply) /\ Over(m)
      /\ UNCHANGED <<db, model, dbFailures, operation>>
  BY DEF Reply, Same
<1>2. alive /\ Listening /\ m \in Present
  BY <1>1, Taken
<1>3. WebOK' /\ WebInv'
  <2>1. IsStopAll(m) /\ dbFailures' = 0 => m.analyticinstances \cap known' = {}
    BY <1>1, <1>2 DEF IInv, StatusHolds, model, Listening
  <2>2. UNCHANGED <<analyticRow, row, analyticOf, config, stage, request>>
    BY <1>1 DEF db, operation
  <2>3. QED
    BY <1>1, <2>1, <2>2, Replied
<1>4. Types'
  BY <1>1, <1>3 DEF IInv, Types, DbOK, ServerOK, db, model, operation, Over
<1>5. Staged'
  BY <1>1, <1>2 DEF IInv, Staged, db, model, operation, Listening
<1>6. Rows'
  <2>1. \A i \in touched' : row'[i] # "new"
    BY <1>1, <1>2, TouchedHaveRows DEF db
  <2>2. QED
    BY <1>1, <2>1 DEF IInv, Rows, db, model, Live
<1>7. StatusHolds'
  BY <1>1 DEF IInv, StatusHolds, db, model, operation, Live
<1>8. RunsAsConfigured'
  BY <1>1, TouchedStays DEF IInv, RunsAsConfigured, IsConfigured, db, model, Live
<1>9. QED
  BY <1>3, <1>4, <1>5, <1>6, <1>7, <1>8 DEF IInv

\* Refusals, and starts and stops of what is already so.
LEMMA RepliesKeep ==
  ASSUME IInv,
         \/ StartRefused \/ StartKnown \/ StartFails \/ StopRefused \/ StopUnknown
         \/ ServerStatus \/ StartsAlready
  PROVE  IInv'
<1>1. ASSUME NEW m, m \in Arrived("StartAnalyticInstance")
      PROVE  ~IsStopAll(m) /\ m.type \notin ServerEvents
  BY <1>1 DEF Arrived, IsStopAll, ServerEvents
<1>2. ASSUME NEW m, m \in Arrived("StopAnalyticInstance")
      PROVE  ~IsStopAll(m) /\ m.type \notin ServerEvents
  BY <1>2 DEF Arrived, IsStopAll, ServerEvents
<1>3. CASE StartRefused
  BY <1>1, <1>3, RepliedOnly, Readable DEF StartRefused
<1>4. CASE StartKnown
  <2>1. PICK m \in Arrived("StartAnalyticInstance") : Same /\ Reply(m, AnalyticStartReply)
    BY <1>4 DEF StartKnown, Startable
  <2>2. QED
    BY <1>1, <2>1, RepliedOnly, Readable
<1>5. CASE StartFails
  <2>1. PICK m \in Arrived("StartAnalyticInstance") : Same /\ Reply(m, InvalidReply(serverStatus))
    BY <1>5 DEF StartFails, Startable
  <2>2. QED
    BY <1>1, <2>1, RepliedOnly, Readable
<1>6. CASE StopRefused
  <2>1. PICK m \in Arrived("StopAnalyticInstance") \cup Arrived("StopAnalyticInstances") :
          /\ \/ serverStatus = "Stopped"
             \/ m.type = "StopAnalyticInstance" /\ ~ExtractsStop(m)
             \/ m.type = "StopAnalyticInstances" /\ ~ExtractsStopAll(m)
          /\ Same /\ Reply(m, InvalidReply(serverStatus))
    BY <1>6 DEF StopRefused
  <2>2. IsStopAll(m) => serverStatus = "Stopped"
    <3>1. m \in Requests
      BY Forms DEF Arrived, IInv, WebInv, Asked, Present
    <3>2. QED
      BY <2>1, <3>1, Forms DEF IsStopAll
  <2>3. QED
    BY <2>1, <2>2, RepliedOnly, Readable
<1>7. CASE StopUnknown
  <2>1. PICK m \in Arrived("StopAnalyticInstance") : Same /\ Reply(m, AnalyticStopReply)
    BY <1>7 DEF StopUnknown, Stoppable
  <2>2. QED
    BY <1>2, <2>1, RepliedOnly, Readable
<1>8. CASE ServerStatus
  <2>1. PICK m \in Arrived("ServerStatus") : Same /\ Reply(m, StatusReply(serverStatus))
    BY <1>8 DEF ServerStatus
  <2>2. ~IsStopAll(m)
    BY <2>1 DEF Arrived, IsStopAll
  <2>3. QED
    BY <2>1, <2>2, RepliedOnly, Readable
<1>9. CASE StartsAlready
  <2>1. PICK m \in Arrived("StartServer") : Same /\ Reply(m, StartReply(serverStatus))
    BY <1>9 DEF StartsAlready
  <2>2. ~IsStopAll(m)
    BY <2>1 DEF Arrived, IsStopAll
  <2>3. QED
    BY <2>1, <2>2, RepliedOnly, Readable
<1>10. QED
  BY <1>3, <1>4, <1>5, <1>6, <1>7, <1>8, <1>9

\* A start that succeeds feeds the instance what the request names, which is
\* what is configured unless the instance is touched.
LEMMA StartLaunchesKeeps ==
  ASSUME IInv, StartLaunches
  PROVE  IInv'
<1> DEFINE IdOf(m) == m.analyticinstanceid
           StreamsOf(m) == StreamsIn(m.inputstreams)
<1>1. PICK m \in Startable :
        /\ IdOf(m) \notin known
        /\ known' = known \cup {IdOf(m)} /\ launched' = launched \cup {IdOf(m)}
        /\ lists' = [lists EXCEPT ![IdOf(m)] = StreamsOf(m)]
        /\ Attach(IdOf(m), StreamsOf(m), m.inputstreams)
        /\ current' = IdOf(m) /\ Begin(m, "started")
        /\ UNCHANGED <<db, serverStatus, todo, errors, dbFailures>>
  BY DEF StartLaunches
<1>2. /\ m \in Arrived("StartAnalyticInstance") /\ serverStatus = "Started"
      /\ Listening /\ alive /\ m \in Present /\ m \in Requests /\ IsStart(m)
      /\ m \in Waiting \/ (webStage = "sent" /\ m = webRequest)
  BY <1>1, Taken DEF Startable, Begin, IsStart
<1>3. /\ IdOf(m) \in Instances /\ m.inputstreams \in SUBSET Pairs
      /\ row[IdOf(m)] # "new"
  BY <1>2, Forms DEF Present, Named, IsStart
<1>4. UNCHANGED <<analyticRow, row, analyticOf, status, config, alive, touched, serverStatus, dbFailures, todo>>
      /\ stage' = "started" /\ request' = m
  BY <1>1 DEF db, Begin
<1>5. WebOK' /\ WebInv'
  BY <1>1, <1>2, <1>4, Begun
<1>6. StreamsOf(m) \subseteq Streams
  BY <1>3 DEF StreamsIn, Pairs
<1>7. PICK pick \in [StreamsOf(m) -> Inputs] :
        /\ \A s \in StreamsOf(m) : <<pick[s], s>> \in m.inputstreams
        /\ dest' = [s \in Streams |->
                      IF s \in StreamsOf(m) THEN [dest[s] EXCEPT ![IdOf(m)] = pick[s]] ELSE dest[s]]
  BY <1>1 DEF Attach
<1> HIDE DEF IdOf, StreamsOf
<1>8. Types'
  <2>1. DbOK'
    BY <1>1 DEF IInv, Types, DbOK, db
  <2>2. dest' \in [Streams -> [Instances -> Inputs \cup {None}]]
    BY <1>3, <1>7 DEF IInv, Types, ServerOK
  <2>3. lists' \in [Instances -> SUBSET Streams]
    BY <1>1, <1>6 DEF IInv, Types, ServerOK
  <2>4. ServerOK'
    BY <1>1, <1>2, <1>3, <1>4, <2>2, <2>3 DEF IInv, Types, ServerOK
  <2>5. QED
    BY <1>5, <2>1, <2>4 DEF Types
<1>9. Staged'
  BY <1>1, <1>2, <1>4 DEF IInv, Staged, Present, Listening
<1>10. Rows'
  BY <1>1, <1>3, <1>4 DEF IInv, Types, ServerOK, Rows, Live
<1>11. StatusHolds'
  BY <1>1, <1>2, <1>4 DEF IInv, StatusHolds, Live, Listening
<1>12. RunsAsConfigured'
  <2> SUFFICES ASSUME dbFailures' = 0, NEW i \in known' \ touched'
               PROVE  /\ i \in Live'
                      /\ \A s \in lists'[i] : dest'[s][i] # None => IsConfigured(i, dest[s][i], s)'
    BY DEF RunsAsConfigured, IsConfigured
  <2>1. CASE i = IdOf(m)
    <3>1. AsConfigured(m)
      BY <1>2, <1>4, <2>1 DEF IInv, WebInv, Fresh, IdOf
    <3>2. i \in Live /\ \A p \in m.inputstreams : IsConfigured(i, p[1], p[2])
      BY <2>1, <3>1 DEF AsConfigured, IdOf
    <3>3. ASSUME NEW s \in lists'[i] PROVE IsConfigured(i, dest'[s][i], s)
      <4>1. s \in StreamsOf(m) /\ s \in Streams
        BY <1>1, <1>3, <1>6, <2>1 DEF IInv, Types, ServerOK
      <4>2. dest'[s][i] = pick[s] /\ <<pick[s], s>> \in m.inputstreams
        BY <1>3, <1>7, <2>1, <4>1 DEF IInv, Types, ServerOK
      <4>3. QED
        BY <3>2, <4>2
    <3>4. QED
      BY <1>4, <3>2, <3>3 DEF Live, IsConfigured
  <2>2. CASE i # IdOf(m)
    <3>1. i \in known \ touched /\ i \in Instances /\ dbFailures = 0
      BY <1>1, <1>4, <2>2 DEF IInv, Types, ServerOK
    <3>2. lists'[i] = lists[i] /\ lists[i] \subseteq Streams
      BY <1>1, <2>2, <3>1 DEF IInv, Types, ServerOK
    <3>3. \A s \in Streams : dest'[s][i] = dest[s][i]
      BY <1>7, <2>2, <3>1 DEF IInv, Types, ServerOK
    <3>4. QED
      BY <1>4, <3>1, <3>2, <3>3 DEF IInv, RunsAsConfigured, IsConfigured, Live
  <2>3. QED
    BY <2>1, <2>2
<1>13. QED
  BY <1>5, <1>8, <1>9, <1>10, <1>11, <1>12 DEF IInv

\* A start that is taken back changes the destinations of its instance only,
\* and the server does not know it.
LEMMA StartRevertsKeeps ==
  ASSUME IInv, StartReverts
  PROVE  IInv'
<1> DEFINE IdOf(m) == m.analyticinstanceid
<1>1. PICK m \in Startable :
        /\ IdOf(m) \notin known
        /\ \E p \in m.inputstreams, done \in SUBSET StreamsIn(m.inputstreams) :
             dest' = [s \in Streams |->
                        [dest[s] EXCEPT ![IdOf(m)] = IF s \in done THEN None
                                                     ELSE IF s = p[2] THEN p[1] ELSE @]]
        /\ launched' = launched \ {IdOf(m)}
        /\ Write({IdOf(m)}, "Stopped") \/ (DbFails /\ UNCHANGED db)
        /\ UNCHANGED <<serverStatus, known, lists>>
        /\ Reply(m, InvalidReply(serverStatus))
  BY DEF StartReverts
<1>2. /\ m \in Arrived("StartAnalyticInstance") /\ Take(m, "replied", InvalidReply(serverStatus))
      /\ Over(m) /\ UNCHANGED operation
  BY <1>1 DEF Startable, Reply
<1>3. /\ Listening /\ m \in Present /\ m \in Requests /\ IsStart(m)
      /\ IdOf(m) \in Instances /\ m.inputstreams \in SUBSET Pairs
  BY <1>2, Taken, Forms DEF IsStart
<1>4. /\ UNCHANGED <<analyticRow, inputRows, row, analyticOf, config>>
      /\ UNCHANGED <<stage, request, current, todo, errors, alive>>
      /\ status' \in [Instances -> {"Started", "Stopped"}]
      /\ \A i \in Instances : i # IdOf(m) => status'[i] = status[i]
      /\ dbFailures' \in 0 .. MaxDbFailures /\ (dbFailures' = 0 => dbFailures = 0)
  <2>1. UNCHANGED <<stage, request, current, todo, errors, alive>>
    BY <1>2 DEF operation, Over
  <2>2. CASE Write({IdOf(m)}, "Stopped")
    <3>1. SetStatus({IdOf(m)}, "Stopped") /\ UNCHANGED dbFailures
      BY <2>2 DEF Write
    <3>2. /\ DbOK' /\ UNCHANGED <<analyticRow, inputRows, row, analyticOf, config>>
          /\ \A i \in Instances :
               status'[i] = IF i \in {IdOf(m)} \cap Live THEN "Stopped" ELSE status[i]
      BY <3>1, Written DEF IInv
    <3>3. QED
      BY <2>1, <3>1, <3>2 DEF IInv, Types, DbOK, ServerOK
  <2>3. CASE DbFails /\ UNCHANGED db
    BY <2>1, <2>3, Failed DEF db, IInv, Types, DbOK
  <2>4. QED
    BY <1>1, <2>2, <2>3
<1> HIDE DEF IdOf
<1>5. WebOK' /\ WebInv'
  <2>1. ~IsStopAll(m)
    BY <1>3 DEF IsStart, IsStopAll
  <2>2. QED
    BY <1>2, <1>4, <2>1, Replied, Readable
<1>6. /\ dest' \in [Streams -> [Instances -> Inputs \cup {None}]]
      /\ \A i \in Instances, s \in Streams : i # IdOf(m) => dest'[s][i] = dest[s][i]
  <2>1. PICK p \in m.inputstreams, done \in SUBSET StreamsIn(m.inputstreams) :
          dest' = [s \in Streams |->
                     [dest[s] EXCEPT ![IdOf(m)] = IF s \in done THEN None
                                                  ELSE IF s = p[2] THEN p[1] ELSE @]]
    BY <1>1
  <2>2. p[1] \in Inputs
    BY <1>3 DEF Pairs
  <2>3. QED
    BY <2>1, <2>2 DEF IInv, Types, ServerOK
<1>7. Types'
  BY <1>1, <1>4, <1>5, <1>6 DEF IInv, Types, DbOK, ServerOK
<1>8. Staged'
  BY <1>1, <1>3, <1>4 DEF IInv, Staged, Present, Listening
<1>9. Rows'
  <2>1. \A i \in touched' : row'[i] # "new"
    BY <1>2, <1>3, <1>4, TouchedHaveRows
  <2>2. QED
    BY <1>1, <1>4, <2>1 DEF IInv, Rows, Live
<1>10. StatusHolds'
  BY <1>1, <1>3, <1>4 DEF IInv, Types, ServerOK, StatusHolds, Live, Listening
<1>11. RunsAsConfigured'
  <2> SUFFICES ASSUME dbFailures' = 0, NEW i \in known' \ touched'
               PROVE  /\ i \in Live'
                      /\ \A s \in lists'[i] : dest'[s][i] # None => IsConfigured(i, dest[s][i], s)'
    BY DEF RunsAsConfigured, IsConfigured
  <2>1. i \in known \ touched /\ i \in Instances /\ i # IdOf(m) /\ dbFailures = 0
    BY <1>1, <1>2, <1>4, TouchedStays DEF IInv, Types, ServerOK
  <2>2. lists'[i] = lists[i] /\ lists[i] \subseteq Streams
    BY <1>1, <2>1 DEF IInv, Types, ServerOK
  <2>3. QED
    BY <1>4, <1>6, <2>1, <2>2 DEF IInv, RunsAsConfigured, IsConfigured, Live
<1>12. QED
  BY <1>5, <1>7, <1>8, <1>9, <1>10, <1>11 DEF IInv

\* The end of an operation on the rows: what the server runs is as before.
LEMMA AnsweredOnly ==
  ASSUME IInv, NEW reply, Answer(reply), ~Listening, UNCHANGED <<analyticRow, row, analyticOf, config>>,
         UNCHANGED <<known, launched, lists, dest>>,
         Understands(request, reply), Types', dbFailures' = 0 => dbFailures = 0,
         IsStopAll(request) /\ dbFailures' = 0 => request.analyticinstances \cap known' = {},
         dbFailures' = 0 =>
           /\ \A i \in Live \cap known : status'[i] = "Started"
           /\ serverStatus' = "Stopped" => known = {}
  PROVE  IInv'
<1>1. WebInv' /\ Listening'
  BY Answered
<1>2. stage' = "listen" /\ Over(request) /\ request \in Present
  BY DEF Answer, Reset, IInv, Staged
<1>3. Staged'
  BY <1>1, <1>2 DEF Staged
<1>4. Rows'
  <2>1. \A i \in touched' : row'[i] # "new"
    BY <1>2, TouchedHaveRows
  <2>2. QED
    BY <2>1 DEF IInv, Rows, Live
<1>5. StatusHolds'
  BY <1>2 DEF StatusHolds, Live
<1>6. RunsAsConfigured'
  BY <1>2, TouchedStays DEF IInv, RunsAsConfigured, IsConfigured, Live
<1>7. QED
  BY <1>1, <1>3, <1>4, <1>5, <1>6 DEF IInv

\* The types after an operation is over.
LEMMA AnsweredTypes ==
  ASSUME IInv, NEW reply, Answer(reply), ~Listening, WebOK',
         UNCHANGED <<known, launched, lists, dest>>, serverStatus' \in {"Started", "Stopped"},
         dbFailures' \in 0 .. MaxDbFailures, DbOK'
  PROVE  Types'
BY DEF Answer, Reset, Over, IInv, Types, ServerOK

\* The last step of a start writes the status it has been waiting for.
LEMMA RecordStartedKeeps ==
  ASSUME IInv, RecordStarted
  PROVE  IInv'
<1>1. /\ stage = "started" /\ ~Listening /\ IsStart(request) /\ ~IsStopAll(request)
      /\ request.type \notin ServerEvents
      /\ UNCHANGED <<serverStatus, known, launched, lists, dest>>
      /\ UNCHANGED <<analyticRow, inputRows, row, analyticOf, config>>
  BY DEF RecordStarted, IInv, Staged, Listening, IsStart, IsStopAll, ServerEvents, model,
         Write, SetStatus, db
<1>2. CASE Write({current}, "Started") /\ Answer(AnalyticStartReply)
  <2>1. /\ Understands(request, AnalyticStartReply) /\ UNCHANGED dbFailures
        /\ status' = [i \in Instances |->
                         IF i \in {current} \cap Live THEN "Started" ELSE status[i]]
    BY <1>1, <1>2, Readable DEF Write, SetStatus
  <2>2. WebOK'
    BY <1>1, <1>2, <2>1, Answered
  <2>3. Types'
    BY <1>1, <1>2, <2>1, <2>2, AnsweredTypes DEF IInv, Types, DbOK, ServerOK
  <2>4. dbFailures' = 0 => \A i \in Live \cap known : status'[i] = "Started"
    BY <1>1, <2>1 DEF IInv, StatusHolds, Types, ServerOK
  <2>5. dbFailures' = 0 => (serverStatus' = "Stopped" => known = {})
    BY <1>1, <2>1 DEF IInv, StatusHolds
  <2>6. QED
    BY <1>1, <1>2, <2>1, <2>3, <2>4, <2>5, AnsweredOnly
<1>3. CASE DbFails /\ UNCHANGED db /\ Answer(InvalidReply(serverStatus))
  <2>1. /\ Understands(request, InvalidReply(serverStatus)) /\ UNCHANGED status
        /\ dbFailures' \in 0 .. MaxDbFailures /\ dbFailures' # 0
    BY <1>3, Readable, Failed DEF db, IInv
  <2>2. WebOK'
    BY <1>1, <1>3, <2>1, Answered
  <2>3. Types'
    BY <1>1, <1>3, <2>1, <2>2, AnsweredTypes DEF IInv, Types, DbOK, ServerOK
  <2>4. QED
    BY <1>1, <1>3, <2>1, <2>3, AnsweredOnly
<1>4. QED
  BY <1>2, <1>3 DEF RecordStarted

\* An instance leaves the model: its rows stay, the others are fed as before.
LEMMA Erased ==
  ASSUME IInv, NEW i \in known, Erase(i), stage \in {"listen", "stop next"},
         UNCHANGED <<db, alive, touched, errors, dbFailures>>,
         todo' \subseteq Instances \cup Streams, request' \in Requests
  PROVE  DbOK' /\ ServerOK' /\ Rows' /\ StatusHolds' /\ RunsAsConfigured'
<1>1. i \in Instances /\ UNCHANGED <<analyticRow, inputRows, row, analyticOf, status, config>>
  BY DEF IInv, Types, ServerOK, db
<1>2. /\ known' = known \ {i} /\ launched' = launched \ {i} /\ UNCHANGED serverStatus
      /\ current' = i /\ stage' = "stopped" /\ lists' = [lists EXCEPT ![i] = {}]
  BY DEF Erase
<1>3. /\ dest' \in [Streams -> [Instances -> Inputs \cup {None}]]
      /\ \A j \in Instances, s \in Streams : j # i => dest'[s][j] = dest[s][j]
  BY DEF Erase, IInv, Types, ServerOK
<1>4. /\ lists' \in [Instances -> SUBSET Streams] /\ lists'[i] = {}
      /\ \A j \in Instances : j # i => lists'[j] = lists[j]
  BY <1>1, <1>2 DEF IInv, Types, ServerOK
<1>5. DbOK'
  BY <1>1 DEF IInv, Types, DbOK
<1>6. ServerOK'
  BY <1>1, <1>2, <1>3, <1>4 DEF IInv, Types, ServerOK
<1>7. Rows'
  BY <1>1, <1>2, <1>4 DEF IInv, Rows, Live
<1>8. StatusHolds'
  BY <1>1, <1>2 DEF IInv, StatusHolds, Live
<1>9. RunsAsConfigured'
  <2> SUFFICES ASSUME dbFailures' = 0, NEW j \in known' \ touched'
               PROVE  /\ j \in Live'
                      /\ \A s \in lists'[j] : dest'[s][j] # None => IsConfigured(j, dest[s][j], s)'
    BY DEF RunsAsConfigured, IsConfigured
  <2>1. j \in known \ touched /\ j \in Instances /\ j # i /\ dbFailures = 0
    BY <1>2 DEF IInv, Types, ServerOK
  <2>2. lists'[j] = lists[j] /\ lists[j] \subseteq Streams
    BY <1>4, <2>1 DEF IInv, Types, ServerOK
  <2>3. /\ j \in Live
        /\ \A s \in lists[j] : dest[s][j] # None => IsConfigured(j, dest[s][j], s)
    BY <2>1 DEF IInv, RunsAsConfigured
  <2>4. ASSUME NEW s \in lists'[j], dest'[s][j] # None PROVE IsConfigured(j, dest[s][j], s)'
    <3>1. s \in lists[j] /\ dest'[s][j] = dest[s][j]
      BY <1>3, <2>1, <2>2, <2>4
    <3>2. IsConfigured(j, dest[s][j], s)
      BY <2>3, <2>4, <3>1
    <3>3. QED
      BY <1>1, <3>1, <3>2 DEF IsConfigured
  <2>5. QED
    BY <1>1, <2>3, <2>4 DEF Live
<1>10. QED
  BY <1>5, <1>6, <1>7, <1>8, <1>9

\* One instance is stopped at the request of the web interface.
LEMMA StopKnownKeeps ==
  ASSUME IInv, StopKnown
  PROVE  IInv'
<1>1. PICK m \in Arrived("StopAnalyticInstance") :
        /\ m.analyticinstanceid \in known
        /\ Begin(m, "stopped") /\ Erase(m.analyticinstanceid)
        /\ UNCHANGED <<db, todo, errors, dbFailures>>
  BY DEF StopKnown, Stoppable
<1>2. /\ Listening /\ m \in Present /\ m \in Requests /\ m.type = "StopAnalyticInstance"
      /\ UNCHANGED <<alive, touched>> /\ request' = m /\ stage' = "stopped"
  BY <1>1, Taken DEF Begin
<1>3. WebOK' /\ WebInv'
  BY <1>1, <1>2, Begun DEF db
<1>4. DbOK' /\ ServerOK' /\ Rows' /\ StatusHolds' /\ RunsAsConfigured'
  BY <1>1, <1>2, Erased DEF IInv, Types, ServerOK, Listening
<1>5. Staged'
  BY <1>1, <1>2 DEF IInv, Types, ServerOK, Staged, Present, Erase, Doomed, db, Listening
<1>6. QED
  BY <1>3, <1>4, <1>5 DEF IInv, Types

\* The instances of an analytic, one after the other.
LEMMA StopAllKeeps ==
  ASSUME IInv, StopAll
  PROVE  IInv'
<1>1. PICK m \in Arrived("StopAnalyticInstances") :
        /\ serverStatus = "Started"
        /\ Begin(m, "stop next") /\ todo' = m.analyticinstances
        /\ UNCHANGED <<db, model, current, errors, dbFailures>>
  BY DEF StopAll
<1>2. /\ Listening /\ m \in Present /\ m \in Requests /\ IsStopAll(m)
      /\ UNCHANGED <<alive, touched>> /\ request' = m /\ stage' = "stop next"
      /\ m.analyticinstances \subseteq Instances
  BY <1>1, Taken, Forms DEF Begin, IsStopAll
<1>3. WebOK' /\ WebInv'
  <2>1. UNCHANGED <<analyticRow, row, analyticOf, config>>
    BY <1>1 DEF db
  <2>2. Begin(m, "stop next") /\ "stop next" # "listen"
    BY <1>1
  <2>3. QED
    BY <2>1, <2>2, Begun
<1>4. DbOK' /\ ServerOK'
  BY <1>1, <1>2 DEF IInv, Types, DbOK, ServerOK, db, model
<1>5. Staged'
  BY <1>1, <1>2 DEF IInv, Staged, Present, IsStopAll, Doomed, db, Listening
<1>6. Rows' /\ StatusHolds'
  BY <1>1, <1>2 DEF IInv, Rows, StatusHolds, Live, db, model, Listening
<1>7. RunsAsConfigured'
  BY <1>1, <1>2, RunsOn DEF IInv, db, model
<1>8. QED
  BY <1>3, <1>4, <1>5, <1>6, <1>7 DEF IInv, Types

\* Each of them leaves the model, if it is in it.
LEMMA StopNextKeeps ==
  ASSUME IInv, NEW i \in Instances, StopNext(i)
  PROVE  IInv'
<1>1. /\ stage = "stop next" /\ i \in todo /\ todo' = todo \ {i}
      /\ Continue /\ UNCHANGED <<db, request, errors, dbFailures>>
      /\ UNCHANGED <<alive, touched>> /\ ~Listening
  BY DEF StopNext, Continue, Listening
<1>2. /\ request \in Present /\ request \in Requests
      /\ request.type \in {"StopAnalyticInstance", "StopAnalyticInstances"}
      /\ Doomed(request) \cap known \subseteq todo
  BY <1>1 DEF IInv, Staged, Present
<1>3. CASE i \in known /\ Erase(i)
  <2>1. ~Listening' /\ known' = known \ {i} /\ stage' = "stopped" /\ current' = i
    BY <1>3 DEF Erase, Listening
  <2>2. WebOK' /\ WebInv'
    BY <1>1, <2>1, Continued DEF db
  <2>3. DbOK' /\ ServerOK' /\ Rows' /\ StatusHolds' /\ RunsAsConfigured'
    BY <1>1, <1>2, <1>3, Erased DEF IInv, Types, ServerOK
  <2>4. Staged'
    BY <1>1, <1>2, <1>3, <2>1 DEF Staged, Present, db
  <2>5. QED
    BY <2>2, <2>3, <2>4 DEF IInv, Types
<1>4. CASE i \notin known /\ UNCHANGED <<model, current, stage>>
  <2>1. WebOK' /\ WebInv'
    BY <1>1, <1>4, Continued DEF db, Listening
  <2>2. DbOK' /\ ServerOK'
    BY <1>1, <1>4 DEF IInv, Types, DbOK, ServerOK, db, model
  <2>3. Staged'
    BY <1>1, <1>2, <1>4 DEF Staged, Present, db, model
  <2>4. Rows' /\ StatusHolds'
    BY <1>1, <1>4 DEF IInv, Rows, StatusHolds, Live, db, model
  <2>5. RunsAsConfigured'
    BY <1>1, <1>4, RunsOn DEF IInv, db, model
  <2>6. QED
    BY <2>1, <2>2, <2>3, <2>4, <2>5 DEF IInv, Types
<1>5. QED
  BY <1>3, <1>4 DEF StopNext

\* The status of an instance that was stopped, and is not known, is written.
LEMMA RecordStoppedKeeps ==
  ASSUME IInv, RecordStopped
  PROVE  IInv'
<1>1. /\ stage = "stopped" /\ stage' = "stop next" /\ current' = None /\ ~Listening /\ ~Listening'
      /\ Continue /\ UNCHANGED <<model, request, todo, alive, touched>>
      /\ current \in Instances \ known
  BY DEF RecordStopped, Continue, Listening, IInv, Staged
<1>2. /\ UNCHANGED <<analyticRow, row, analyticOf, config>> /\ DbOK' /\ errors' \in BOOLEAN
      /\ dbFailures' \in 0 .. MaxDbFailures
      /\ dbFailures' = 0 =>
           /\ dbFailures = 0
           /\ \A i \in Instances : i # current => status'[i] = status[i]
  <2>1. CASE Write({current}, "Stopped") /\ errors' \in {errors, TRUE}
    <3>1. SetStatus({current}, "Stopped") /\ UNCHANGED dbFailures
      BY <2>1 DEF Write
    <3>2. /\ DbOK' /\ UNCHANGED <<analyticRow, inputRows, row, analyticOf, config>>
          /\ \A i \in Instances :
               status'[i] = IF i \in {current} \cap Live THEN "Stopped" ELSE status[i]
      BY <3>1, Written DEF IInv
    <3>3. QED
      BY <2>1, <3>1, <3>2 DEF IInv, Types, ServerOK
  <2>2. CASE DbFails /\ errors' = TRUE /\ UNCHANGED db
    BY <2>2, Failed DEF db, IInv, Types, DbOK
  <2>3. QED
    BY <2>1, <2>2 DEF RecordStopped
<1>3. WebOK' /\ WebInv'
  BY <1>1, <1>2, Continued
<1>4. ServerOK'
  BY <1>1, <1>2 DEF IInv, Types, ServerOK, model
<1>5. Staged'
  BY <1>1, <1>2 DEF IInv, Staged, Present, model
<1>6. Rows'
  BY <1>1, <1>2 DEF IInv, Rows, Live, model
<1>7. StatusHolds'
  BY <1>1, <1>2 DEF IInv, Types, ServerOK, StatusHolds, Live, model
<1>8. RunsAsConfigured'
  BY <1>1, <1>2, RunsOn DEF IInv, model
<1>9. QED
  BY <1>2, <1>3, <1>4, <1>5, <1>6, <1>7, <1>8 DEF IInv, Types

\* The reply to a stop says that every instance it names has left the model.
LEMMA StopDoneKeeps ==
  ASSUME IInv, StopDone
  PROVE  IInv'
<1> DEFINE reply == IF errors THEN InvalidReply(serverStatus)
                    ELSE IF request.type = "StopAnalyticInstances" THEN AnalyticsStopReply
                    ELSE AnalyticStopReply
<1>1. /\ stage = "stop next" /\ todo = {} /\ ~Listening /\ Answer(reply)
      /\ UNCHANGED <<db, serverStatus, known, launched, lists, dest, dbFailures>>
      /\ request.type \in {"StopAnalyticInstance", "StopAnalyticInstances"}
      /\ Doomed(request) \cap known \subseteq todo
  BY DEF StopDone, Listening, model, IInv, Staged
<1>2. Understands(request, reply)
  BY <1>1, Readable DEF ServerEvents
<1> HIDE DEF reply
<1>3. IsStopAll(request) => request.analyticinstances \cap known' = {}
  BY <1>1 DEF IsStopAll, Doomed
<1>4. UNCHANGED <<analyticRow, row, analyticOf, status, config>>
  BY <1>1 DEF db
<1>5. WebOK'
  BY <1>1, <1>2, <1>3, <1>4, Answered
<1>6. DbOK'
  BY <1>1 DEF IInv, Types, DbOK, db
<1>7. Types'
  BY <1>1, <1>5, <1>6, AnsweredTypes DEF IInv, Types, ServerOK
<1>8. dbFailures' = 0 =>
        /\ \A i \in Live \cap known : status'[i] = "Started"
        /\ serverStatus' = "Stopped" => known = {}
  BY <1>1, <1>4 DEF IInv, StatusHolds
<1>9. QED
  BY <1>1, <1>2, <1>3, <1>4, <1>7, <1>8, AnsweredOnly

\* The update of every row's status.
LEMMA Updated ==
  ASSUME Types, NEW x \in {"Started", "Stopped"}, UpdateAll(x)
  PROVE  /\ DbOK' /\ UNCHANGED <<analyticRow, inputRows, row, analyticOf, config>>
         /\ dbFailures' \in 0 .. MaxDbFailures
         /\ dbFailures' = 0 => \A i \in Live : status'[i] = x
         /\ dbFailures' = 0 /\ x = "Started" => dbFailures = 0
<1>1. CASE SetStatus(Instances, x) /\ dbFailures' = IF x = "Stopped" THEN 0 ELSE dbFailures
  <2>1. /\ DbOK' /\ UNCHANGED <<analyticRow, inputRows, row, analyticOf, config>>
        /\ \A i \in Instances : status'[i] = IF i \in Instances \cap Live THEN x ELSE status[i]
    BY <1>1, Written
  <2>2. dbFailures' \in 0 .. MaxDbFailures
    <3>1. dbFailures \in 0 .. MaxDbFailures /\ MaxDbFailures \in Nat
      BY InstanceAssumption DEF Types, ServerOK
    <3>2. dbFailures' = 0 \/ dbFailures' = dbFailures
      BY <1>1
    <3>3. QED
      BY <3>1, <3>2
  <2>3. QED
    BY <1>1, <2>1, <2>2 DEF Live
<1>2. CASE DbFails /\ UNCHANGED db
  BY <1>2, Failed DEF db, Types, DbOK
<1>3. QED
  BY <1>1, <1>2 DEF UpdateAll

\* The server has stopped: unless a statement failed it runs nothing.
LEMMA Cleared ==
  ASSUME IInv, Listening, ClearAll
  PROVE  /\ DbOK' /\ UNCHANGED <<analyticRow, row, analyticOf, config>>
         /\ serverStatus' \in {"Started", "Stopped"} /\ known' \subseteq known
         /\ launched' \subseteq Instances /\ lists' \in [Instances -> SUBSET Streams]
         /\ dest' \in [Streams -> [Instances -> Inputs \cup {None}]]
         /\ dbFailures' \in 0 .. MaxDbFailures
         /\ \A i \in Instances \ known' : lists'[i] = {}
         /\ dbFailures' = 0 => known' = {}
<1>1. CASE serverStatus = "Started"
  <2>1. Empty /\ serverStatus' = "Stopped" /\ UpdateAll("Stopped")
    BY <1>1 DEF ClearAll, UpdateServerStatus
  <2>2. /\ DbOK' /\ UNCHANGED <<analyticRow, row, analyticOf, config>> /\ dbFailures' \in 0 .. MaxDbFailures
    BY <2>1, Updated DEF IInv
  <2>3. QED
    BY <2>1, <2>2 DEF Empty, Nowhere
<1>2. CASE serverStatus # "Started"
  <2>1. UNCHANGED <<db, model, dbFailures>> /\ serverStatus = "Stopped"
    BY <1>2 DEF ClearAll, Same, IInv, Types, ServerOK
  <2>2. dbFailures' = 0 => known' = {}
    BY <2>1 DEF IInv, StatusHolds, Listening, model
  <2>3. QED
    BY <2>1, <2>2 DEF IInv, Types, DbOK, ServerOK, Rows, db, model
<1>3. QED
  BY <1>1, <1>2

\* Stopping the server empties its model and answers.
LEMMA StopServerKeeps ==
  ASSUME IInv, StopServer
  PROVE  IInv'
<1>1. PICK m \in Arrived("StopServer") : ClearAll /\ Reply(m, StopReply("Stopped"))
  BY DEF StopServer
<1>2. /\ Take(m, "replied", StopReply("Stopped")) /\ Over(m)
      /\ UNCHANGED <<stage, request, current, todo, errors>>
  BY <1>1 DEF Reply, operation
<1>3. Listening /\ m \in Present /\ m.type = "StopServer" /\ ~IsStopAll(m)
  BY <1>2, Taken DEF IsStopAll
<1>4. /\ DbOK' /\ UNCHANGED <<analyticRow, row, analyticOf, config>>
      /\ serverStatus' \in {"Started", "Stopped"} /\ known' \subseteq known
      /\ launched' \subseteq Instances /\ lists' \in [Instances -> SUBSET Streams]
      /\ dest' \in [Streams -> [Instances -> Inputs \cup {None}]]
      /\ dbFailures' \in 0 .. MaxDbFailures
      /\ \A i \in Instances \ known' : lists'[i] = {}
      /\ dbFailures' = 0 => known' = {}
  BY <1>1, <1>3, Cleared
<1>5. WebOK' /\ WebInv'
  BY <1>2, <1>3, <1>4, Replied, Readable
<1>6. ServerOK'
  BY <1>2, <1>4 DEF IInv, Types, ServerOK, Over
<1>7. Staged'
  BY <1>2, <1>3 DEF Staged, Listening
<1>8. Rows'
  <2>1. \A i \in touched' : row'[i] # "new"
    BY <1>2, <1>3, <1>4, TouchedHaveRows
  <2>2. QED
    BY <1>4, <2>1 DEF IInv, Rows, Live
<1>9. StatusHolds' /\ RunsAsConfigured'
  BY <1>4 DEF StatusHolds, RunsAsConfigured, IsConfigured
<1>10. QED
  BY <1>4, <1>5, <1>6, <1>7, <1>8, <1>9 DEF IInv, Types

\* A restart empties the model and goes on with a boot.
LEMMA RestartServerKeeps ==
  ASSUME IInv, RestartServer
  PROVE  IInv'
<1>1. PICK m \in Arrived("RestartServer") :
        ClearAll /\ Begin(m, "restart") /\ UNCHANGED <<current, todo, errors>>
  BY DEF RestartServer
<1>2. /\ Listening /\ m \in Present /\ m \in Requests /\ m.type = "RestartServer"
      /\ UNCHANGED <<alive, touched>> /\ request' = m /\ stage' = "restart"
  BY <1>1, Taken DEF Begin
<1>3. /\ DbOK' /\ UNCHANGED <<analyticRow, row, analyticOf, config>>
      /\ serverStatus' \in {"Started", "Stopped"} /\ known' \subseteq known
      /\ launched' \subseteq Instances /\ lists' \in [Instances -> SUBSET Streams]
      /\ dest' \in [Streams -> [Instances -> Inputs \cup {None}]]
      /\ dbFailures' \in 0 .. MaxDbFailures
      /\ \A i \in Instances \ known' : lists'[i] = {}
      /\ dbFailures' = 0 => known' = {}
  BY <1>1, <1>2, Cleared
<1>4. WebOK' /\ WebInv'
  <2>1. Begin(m, "restart") /\ "restart" # "listen"
    BY <1>1
  <2>2. QED
    BY <1>3, <2>1, Begun
<1>5. ServerOK'
  BY <1>1, <1>2, <1>3 DEF IInv, Types, ServerOK
<1>6. Staged'
  BY <1>2, <1>3 DEF Staged, Present, ServerEvents
<1>7. Rows'
  BY <1>2, <1>3 DEF IInv, Rows, Live
<1>8. StatusHolds' /\ RunsAsConfigured'
  BY <1>3 DEF StatusHolds, RunsAsConfigured, IsConfigured
<1>9. QED
  BY <1>3, <1>4, <1>5, <1>6, <1>7, <1>8 DEF IInv, Types

\* A boot begins: what follows is read from the rows.
LEMMA StartServerKeeps ==
  ASSUME IInv, StartServer
  PROVE  IInv'
<1>1. /\ FindAll /\ UNCHANGED <<db, model, dbFailures, current, errors>>
      /\ UNCHANGED <<analyticRow, row, analyticOf, config>>
  BY DEF StartServer, Same, db
<1>2. /\ WebOK' /\ WebInv' /\ UNCHANGED <<alive, touched>> /\ stage' = "boot"
      /\ request' \in Present /\ request'.type \in ServerEvents
  <2>1. CASE \E m \in Arrived("StartServer") : serverStatus = "Stopped" /\ Begin(m, "boot")
    <3>1. PICK m \in Arrived("StartServer") : Begin(m, "boot") /\ "boot" # "listen"
      BY <2>1
    <3>2. WebOK' /\ WebInv'
      BY <1>1, <3>1, Begun
    <3>3. m \in Present /\ m.type = "StartServer"
      BY <3>1, Taken DEF Begin
    <3>4. QED
      BY <3>1, <3>2, <3>3 DEF Begin, ServerEvents
  <2>2. CASE stage = "restart" /\ stage' = "boot" /\ Continue /\ UNCHANGED request
    <3>1. ~Listening /\ ~Listening'
      BY <2>2 DEF Listening
    <3>2. WebOK' /\ WebInv'
      BY <1>1, <2>2, <3>1, Continued
    <3>3. QED
      BY <2>2, <3>1, <3>2 DEF Continue, IInv, Staged
  <2>3. QED
    BY <2>1, <2>2 DEF StartServer
<1>3. DbOK' /\ ServerOK'
  <2>1. todo' \subseteq Streams
    BY <1>1 DEF FindAll, StreamsIn, Configured, Pairs
  <2>2. request' \in Requests
    BY <1>2 DEF Present
  <2>3. QED
    BY <1>1, <1>2, <2>1, <2>2 DEF IInv, Types, DbOK, ServerOK, db, model
<1>4. Staged'
  BY <1>1, <1>2 DEF Staged, Present
<1>5. Rows' /\ StatusHolds' /\ RunsAsConfigured'
  BY <1>1, <1>2 DEF IInv, Rows, StatusHolds, RunsAsConfigured, IsConfigured, Live, db, model
<1>6. QED
  BY <1>2, <1>3, <1>4, <1>5 DEF IInv, Types

\* One stream of the boot: whatever instance it is added to has a row.
LEMMA BootStreamKeeps ==
  ASSUME IInv, NEW s \in Streams, BootStream(s)
  PROVE  IInv'
<1>1. /\ stage = "boot" /\ todo' = todo \ {s} /\ ~Listening /\ ~Listening'
      /\ Continue /\ UNCHANGED <<db, serverStatus, stage, request, current, errors, dbFailures>>
      /\ UNCHANGED <<alive, touched, analyticRow, row, analyticOf, status, config>>
  BY DEF BootStream, Continue, Listening, db
<1>2. PICK started \in SUBSET (UsersOf(s) \ launched), pick \in [UsersOf(s) -> Inputs] :
        /\ \A i \in UsersOf(s) : config[i][pick[i]] = s
        /\ launched' = launched \cup started
        /\ dest' = [dest EXCEPT ![s] = [i \in Instances |->
                       IF i \in UsersOf(s) \cap launched' THEN pick[i] ELSE None]]
  BY DEF BootStream
<1>3. /\ UsersOf(s) \subseteq Live
      /\ \A i \in UsersOf(s) : row[i] # "new"
  BY InstanceAssumption DEF UsersOf, IInv, Rows, NoConfig, Live
<1>4. /\ known \subseteq known' /\ known' \subseteq known \cup UsersOf(s)
      /\ lists' \in [Instances -> SUBSET Streams]
      /\ \A i \in Instances : lists'[i] \subseteq lists[i] \cup {s}
      /\ \A i \in Instances \ known' : lists'[i] = lists[i]
  <2>1. CASE /\ known' = known \cup UsersOf(s)
             /\ lists' = [i \in Instances |->
                            IF i \in UsersOf(s) THEN lists[i] \cup {s} ELSE lists[i]]
    BY <2>1 DEF IInv, Types, ServerOK
  <2>2. CASE UNCHANGED <<known, lists>>
    BY <2>2 DEF IInv, Types, ServerOK
  <2>3. QED
    BY <2>1, <2>2 DEF BootStream
<1>5. UsersOf(s) \subseteq Instances
  BY DEF UsersOf
<1>6. /\ dest' \in [Streams -> [Instances -> Inputs \cup {None}]]
      /\ \A r \in Streams, i \in Instances : r # s => dest'[r][i] = dest[r][i]
      /\ \A i \in Instances : dest'[s][i] # None => i \in UsersOf(s) /\ dest'[s][i] = pick[i]
  <2>1. [i \in Instances |-> IF i \in UsersOf(s) \cap launched' THEN pick[i] ELSE None]
          \in [Instances -> Inputs \cup {None}]
    BY <1>5
  <2>2. QED
    BY <1>2, <2>1 DEF IInv, Types, ServerOK
<1>7. WebOK' /\ WebInv'
  BY <1>1, Continued
<1>8. DbOK' /\ ServerOK'
  BY <1>1, <1>2, <1>4, <1>5, <1>6 DEF IInv, Types, DbOK, ServerOK, db
<1>9. Staged'
  BY <1>1 DEF IInv, Staged, Present
<1>10. Rows'
  BY <1>1, <1>3, <1>4 DEF IInv, Rows, Live
<1>11. StatusHolds'
  BY <1>1 DEF StatusHolds
<1>12. RunsAsConfigured'
  <2> SUFFICES ASSUME dbFailures' = 0, NEW i \in known' \ touched'
               PROVE  /\ i \in Live'
                      /\ \A r \in lists'[i] : dest'[r][i] # None => IsConfigured(i, dest[r][i], r)'
    BY DEF RunsAsConfigured, IsConfigured
  <2>1. i \in Instances /\ i \in (known \ touched) \cup UsersOf(s) /\ dbFailures = 0
    BY <1>1, <1>4, <1>5 DEF IInv, Types, ServerOK
  <2>2. i \in Live'
    BY <1>1, <1>3, <2>1 DEF IInv, RunsAsConfigured, IsConfigured, Live
  <2>3. ASSUME NEW r \in lists'[i], dest'[r][i] # None PROVE IsConfigured(i, dest'[r][i], r)
    <3>1. r \in Streams /\ r \in lists[i] \cup {s}
      BY <1>4, <2>1
    <3>2. CASE r = s
      BY <1>2, <1>6, <2>1, <2>3, <3>2 DEF IsConfigured
    <3>3. CASE r # s
      <4>1. r \in lists[i] /\ dest'[r][i] = dest[r][i] /\ i \in known
        BY <1>6, <2>1, <3>1, <3>3 DEF IInv, Rows
      <4>2. i \notin touched
        BY <1>1
      <4>3. QED
        BY <2>1, <2>3, <4>1, <4>2 DEF IInv, RunsAsConfigured, IsConfigured
    <3>4. QED
      BY <3>2, <3>3
  <2>4. QED
    BY <1>1, <2>2, <2>3 DEF IsConfigured
<1>13. QED
  BY <1>7, <1>8, <1>9, <1>10, <1>11, <1>12 DEF IInv, Types

\* A boot ends, with every row marked as started, or with a failure counted.
LEMMA BootEndsKeep ==
  ASSUME IInv, BootFails \/ BootDone
  PROVE  IInv'
<1>1. /\ stage = "boot" /\ ~Listening /\ UNCHANGED <<known, launched, lists, dest>>
      /\ request.type \in ServerEvents /\ ~IsStopAll(request)
  BY DEF BootFails, BootDone, Listening, model, IInv, Staged, IsStopAll, ServerEvents
<1>2. CASE BootFails
  <2>1. /\ Answer(InvalidReply(serverStatus)) /\ UNCHANGED <<analyticRow, row, analyticOf, config, serverStatus>>
        /\ Understands(request, InvalidReply(serverStatus)) /\ DbOK'
        /\ dbFailures' \in 0 .. MaxDbFailures /\ dbFailures' # 0
    BY <1>2, Failed, Readable DEF BootFails, db, model, IInv, Types, DbOK
  <2>2. WebOK'
    BY <1>1, <2>1, Answered
  <2>3. serverStatus' \in {"Started", "Stopped"}
    BY <2>1 DEF IInv, Types, ServerOK
  <2>4. Types'
    BY <1>1, <2>1, <2>2, <2>3, AnsweredTypes
  <2>5. QED
    BY <1>1, <2>1, <2>4, AnsweredOnly
<1>3. CASE BootDone
  <2> DEFINE reply == IF request.type = "StartServer" THEN StartReply("Started")
                      ELSE StatusReply("Started")
  <2>1. Answer(reply) /\ Understands(request, reply)
    BY <1>3, Readable DEF BootDone
  <2> HIDE DEF reply
  <2>2. UpdateAll("Started") /\ serverStatus' = "Started"
    BY <1>3 DEF BootDone, UpdateServerStatus
  <2>3. /\ DbOK' /\ UNCHANGED <<analyticRow, row, analyticOf, config>>
        /\ dbFailures' \in 0 .. MaxDbFailures
        /\ dbFailures' = 0 => dbFailures = 0 /\ \A i \in Live : status'[i] = "Started"
    BY <2>2, Updated DEF IInv
  <2>4. WebOK'
    BY <1>1, <2>1, <2>3, Answered
  <2>5. Types'
    BY <1>1, <2>1, <2>2, <2>3, <2>4, AnsweredTypes
  <2>6. QED
    BY <1>1, <2>1, <2>2, <2>3, <2>5, AnsweredOnly
<1>4. QED
  BY <1>2, <1>3

-----------------------------------------------------------------------------
(***************************************************************************)
(* The process of the server ends and comes back.                          *)
(***************************************************************************)

\* With the process its model ends and every request that is with it.
LEMMA EndsKeep ==
  ASSUME IInv, Crash \/ Terminate
  PROVE  IInv'
<1>1. /\ alive' = FALSE /\ serverStatus' = "Stopped" /\ Empty /\ Reset
      /\ late' = [k \in Slots |-> None] /\ touched' = {}
      /\ webStage' = IF webStage = "served" THEN "lost" ELSE webStage
      /\ UNCHANGED <<webRequest, webReply>>
  BY DEF Crash, Terminate, Ends
<1>2. /\ DbOK' /\ UNCHANGED <<analyticRow, row, analyticOf, config>> /\ dbFailures' \in 0 .. MaxDbFailures
  <2>1. CASE Crash
    BY <2>1 DEF Crash, db, IInv, Types, DbOK, ServerOK
  <2>2. CASE Terminate
    BY <2>2, Updated DEF Terminate, IInv
  <2>3. QED
    BY <2>1, <2>2
<1>3. Waiting' = {} /\ Listening' /\ Quiet' /\ known' = {}
  BY <1>1 DEF Waiting, Reset, Listening, Quiet, Empty
<1>4. WebOK'
  BY <1>1 DEF IInv, Types, WebOK
<1>5. ServerOK'
  BY <1>1, <1>2 DEF Empty, Reset, Nowhere, ServerOK
<1>6. Asked'
  BY <1>1, <1>2, <1>3 DEF IInv, Types, WebOK, WebInv, Asked, Present
<1>7. Fresh'
  BY <1>1, <1>2, <1>3 DEF IInv, WebInv, Fresh, AsConfigured, Live, IsConfigured
<1>8. DestroysTheStopped'
  BY <1>1, <1>2, <1>3 DEF IInv, WebInv, DestroysTheStopped, InstancesOf, Live
<1>9. RepliesUnderstood'
  BY <1>1 DEF IInv, WebInv, RepliesUnderstood
<1>10. Staged' /\ Rows' /\ StatusHolds' /\ RunsAsConfigured'
  BY <1>1, <1>2, <1>3 DEF Reset, Empty, Staged, Listening, Rows, IInv, Live, StatusHolds,
                          RunsAsConfigured, IsConfigured
<1>11. QED
  BY <1>2, <1>4, <1>5, <1>6, <1>7, <1>8, <1>9, <1>10 DEF IInv, Types, WebInv

\* A server that comes back knows nothing, and no request is with it.
LEMMA ReviveKeeps ==
  ASSUME IInv, Revive
  PROVE  IInv'
<1>1. /\ ~alive /\ alive' = TRUE /\ serverStatus' = "Stopped" /\ UpdateAll("Stopped")
      /\ UNCHANGED <<webStage, webRequest, webReply, late, touched>>
      /\ UNCHANGED <<known, launched, lists, dest, stage, request, current, todo, errors>>
  BY DEF Revive, UpdateServerStatus, web, operation
<1>2. Quiet /\ known = {}
  BY <1>1 DEF IInv, WebInv, Asked
<1>3. /\ DbOK' /\ UNCHANGED <<analyticRow, row, analyticOf, config>> /\ dbFailures' \in 0 .. MaxDbFailures
  BY <1>1, Updated DEF IInv
<1>4. Waiting' = {} /\ Listening' /\ Quiet' /\ known' = {}
  BY <1>1, <1>2 DEF Waiting, Listening, Quiet
<1>5. WebOK'
  BY <1>1 DEF IInv, Types, WebOK
<1>6. ServerOK'
  BY <1>1, <1>3 DEF IInv, Types, ServerOK
<1>7. Asked'
  BY <1>1, <1>2, <1>3, <1>4 DEF IInv, WebInv, Asked, Present, Quiet
<1>8. Fresh'
  BY <1>1, <1>3, <1>4 DEF IInv, WebInv, Fresh, AsConfigured, Live, IsConfigured
<1>9. DestroysTheStopped'
  BY <1>1, <1>3, <1>4 DEF IInv, WebInv, DestroysTheStopped, InstancesOf, Live
<1>10. RepliesUnderstood'
  BY <1>1 DEF IInv, WebInv, RepliesUnderstood
<1>11. Staged' /\ StatusHolds' /\ RunsAsConfigured'
  BY <1>4 DEF Staged, Listening, StatusHolds, RunsAsConfigured, IsConfigured
<1>12. Rows'
  BY <1>1, <1>3 DEF IInv, Rows, Live
<1>13. QED
  BY <1>3, <1>5, <1>6, <1>7, <1>8, <1>9, <1>10, <1>11, <1>12 DEF IInv, Types, WebInv

-----------------------------------------------------------------------------
(***************************************************************************)
(* The web interface.                                                      *)
(***************************************************************************)

\* A step that takes no row from what instance i is fed.
StaysConfigured(i) ==
  \A n \in Inputs, s \in Streams : IsConfigured(i, n, s) => IsConfigured(i, n, s)'

\* The rows of the instances in S are edited when no request is under way: the
\* server knows none of them, or they are touched.
LEMMA Edited ==
  ASSUME IInv, NEW S \in SUBSET Instances, DbOK', Touch(S),
         webStage' = "idle", webRequest' \in Requests \cup {None},
         UNCHANGED <<late, alive, model, operation, dbFailures>>,
         \A i \in Instances : row[i] # "new" =>
           /\ row'[i] # "new" /\ (i \in Live' => i \in Live /\ status'[i] = status[i])
           /\ i \notin S => row'[i] = row[i] /\ (i \in Live => StaysConfigured(i)),
         \A i \in S : row[i] # "new",
         \A i \in Live' : analyticOf'[i] \in Analytics,
         \A i \in Instances : row'[i] # "live" => config'[i] = NoConfig,
         Quiet /\ dbFailures = 0 => S \cap known \subseteq touched
  PROVE  IInv'
<1>1. /\ Waiting' = Waiting /\ Listening' = Listening
      /\ UNCHANGED <<serverStatus, known, launched, lists, dest>>
      /\ UNCHANGED <<stage, request, current, todo, errors>>
  BY DEF Waiting, Listening, model, operation
<1>2. /\ touched \subseteq touched' /\ touched' \subseteq touched \cup S
      /\ ~Quiet => S \subseteq touched'
  BY DEF Touch
<1>3. WebOK'
  BY <1>2 DEF IInv, Types, WebOK
<1>4. ServerOK'
  BY <1>1 DEF IInv, Types, ServerOK
<1>5. Present \subseteq Present'
  <2> SUFFICES ASSUME NEW m \in Present, NEW i \in Named(m) PROVE row'[i] # "new"
    BY DEF Present
  <2>1. i \in Instances /\ row[i] # "new"
    BY Forms DEF Present, Named, Doomed, IsStart, IsStopAll
  <2>2. QED
    BY <2>1
<1>6. Asked'
  BY <1>1, <1>5 DEF IInv, WebInv, Asked, Quiet
<1>7. Fresh'
  <2> SUFFICES ASSUME NEW m \in Waiting, IsStart(m), m.analyticinstanceid \notin touched'
               PROVE  AsConfigured(m)'
    BY <1>1 DEF Fresh
  <2>1. AsConfigured(m)
    BY <1>2 DEF IInv, WebInv, Fresh
  <2>2. ~Quiet /\ m.analyticinstanceid \notin S
    BY <1>2 DEF Quiet
  <2>3. /\ m.analyticinstanceid \in Live /\ row[m.analyticinstanceid] = "live"
        /\ \A p \in m.inputstreams : IsConfigured(m.analyticinstanceid, p[1], p[2])
    BY <2>1 DEF AsConfigured, Live
  <2>4. row'[m.analyticinstanceid] = "live" /\ StaysConfigured(m.analyticinstanceid)
    BY <2>2, <2>3 DEF Live
  <2>5. m.inputstreams \subseteq Pairs
    BY Forms DEF IInv, WebInv, Asked, Present
  <2>6. \A p \in m.inputstreams : IsConfigured(m.analyticinstanceid, p[1], p[2])'
    BY <2>3, <2>4, <2>5 DEF StaysConfigured, Pairs
  <2>7. QED
    BY <2>3, <2>4, <2>6 DEF AsConfigured, Live
<1>8. DestroysTheStopped' /\ RepliesUnderstood'
  BY DEF DestroysTheStopped, RepliesUnderstood
<1>9. Staged'
  BY <1>1, <1>5 DEF IInv, Staged
<1>10. Rows'
  <2>1. \A i \in known' \cup touched' : row'[i] # "new"
    BY <1>1, <1>2 DEF IInv, Types, WebOK, ServerOK, Rows
  <2>2. \A i \in Instances \ Live' : config'[i] = NoConfig
    BY DEF Live
  <2>3. QED
    BY <1>1, <2>1, <2>2 DEF IInv, Rows
<1>11. StatusHolds'
  <2>1. \A i \in Live' \cap known : i \in Live /\ status'[i] = status[i]
    BY DEF IInv, Types, ServerOK, Rows
  <2>2. QED
    BY <1>1, <2>1 DEF IInv, StatusHolds
<1>12. RunsAsConfigured'
  <2> SUFFICES ASSUME dbFailures = 0, NEW i \in known \ touched'
               PROVE  /\ i \in Live'
                      /\ \A s \in lists[i] : dest[s][i] # None => IsConfigured(i, dest[s][i], s)'
    BY <1>1 DEF RunsAsConfigured, IsConfigured
  <2>1. i \in Instances /\ i \notin touched /\ i \notin S
    BY <1>2 DEF IInv, Types, ServerOK
  <2>2. /\ i \in Live
        /\ \A s \in lists[i] : dest[s][i] # None => IsConfigured(i, dest[s][i], s)
    BY <2>1 DEF IInv, RunsAsConfigured
  <2>3. row'[i] = "live" /\ StaysConfigured(i)
    BY <2>1, <2>2 DEF Live
  <2>4. ASSUME NEW s \in lists[i], dest[s][i] # None
        PROVE  IsConfigured(i, dest[s][i], s)'
    <3>1. IsConfigured(i, dest[s][i], s)
      BY <2>2, <2>4
    <3>2. dest'[s][i] = dest[s][i]
      BY <1>1
    <3>3. s \in Streams /\ dest[s][i] \in Inputs
      <4>1. /\ lists \in [Instances -> SUBSET Streams]
            /\ dest \in [Streams -> [Instances -> Inputs \cup {None}]]
        BY DEF IInv, Types, ServerOK
      <4>2. s \in Streams
        BY <2>1, <2>4, <4>1
      <4>3. QED
        BY <2>1, <2>4, <4>1, <4>2
    <3>4. QED
      BY <2>3, <3>1, <3>2, <3>3 DEF StaysConfigured, IsConfigured
  <2>5. QED
    BY <2>1, <2>3, <2>4 DEF Live
<1>13. QED
  BY <1>3, <1>4, <1>6, <1>7, <1>8, <1>9, <1>10, <1>11, <1>12 DEF IInv, Types, WebInv

\* What an edit leaves alone.
LEMMA Rested ==
  ASSUME IInv, Idle, Rest
  PROVE  /\ webStage' = "idle" /\ webRequest' \in Requests \cup {None}
         /\ UNCHANGED <<late, alive, model, operation, dbFailures>>
BY DEF Idle, Rest, web, IInv, Types, WebOK

\* Edits of analytics and inputs leave every instance alone.
LEMMA InputEditsKeep ==
  ASSUME IInv,
         \/ \E a \in Analytics : CreateAnalytic(a)
         \/ \E n \in Inputs : CreateInput(n) \/ DestroyInput(n)
  PROVE  IInv'
<1>1. /\ Idle /\ Rest /\ UNCHANGED <<row, analyticOf, status, config, touched>>
      /\ analyticRow' \in [Analytics -> {"new", "verified", "unverified", "gone"}]
      /\ \A a \in Analytics : analyticRow[a] = "gone" => analyticRow'[a] = "gone"
      /\ inputRows' \subseteq Inputs
  BY DEF CreateAnalytic, CreateInput, DestroyInput, IInv, Types, DbOK
<1>2. DbOK'
  BY <1>1 DEF IInv, Types, DbOK
<1>3. Touch({}) /\ {} \in SUBSET Instances
  BY <1>1 DEF Touch
<1>4. /\ Live' = Live /\ \A i \in Instances : row'[i] # "live" => config'[i] = NoConfig
      /\ \A i \in Live' : analyticOf'[i] \in Analytics
  BY <1>1 DEF Live, IInv, Rows
<1>5. \A i \in Live : StaysConfigured(i)
  BY <1>1, InstanceAssumption DEF StaysConfigured, IsConfigured
<1>6. QED
  BY <1>1, <1>2, <1>3, <1>4, <1>5, Rested, Edited

\* A row that is new is not known, and a verified analytic is not one that went.
LEMMA InstanceRowsKeep ==
  ASSUME IInv, NEW i \in Instances, NEW a \in Analytics,
         CreateInstance(i, a) \/ UpdateInstance(i, a)
  PROVE  IInv'
<1>1. /\ Idle /\ Rest /\ UNCHANGED <<analyticRow, inputRows, config, touched>>
      /\ analyticOf' = [analyticOf EXCEPT ![i] = a] /\ analyticRow[a] = "verified"
      /\ \/ /\ row[i] = "new" /\ row' = [row EXCEPT ![i] = "live"]
            /\ status' = [status EXCEPT ![i] = "Stopped"]
         \/ row[i] = "live" /\ UNCHANGED <<row, status>>
  BY DEF CreateInstance, UpdateInstance, Editable, Idle
<1>2. DbOK'
  BY <1>1 DEF IInv, Types, DbOK
<1>3. Touch({}) /\ {} \in SUBSET Instances
  BY <1>1 DEF Touch
<1>4. /\ row'[i] = "live" /\ analyticOf'[i] = a
      /\ \A j \in Instances : row[j] # "new" => row'[j] = row[j] /\ status'[j] = status[j]
      /\ \A j \in Instances : j # i => row'[j] = row[j] /\ analyticOf'[j] = analyticOf[j]
  BY <1>1 DEF IInv, Types, DbOK
<1>5. /\ \A j \in Instances : row'[j] # "live" => config'[j] = NoConfig
      /\ \A j \in Live' : analyticOf'[j] \in Analytics
  BY <1>1, <1>4 DEF IInv, Rows, Live
<1>6. \A j \in Live : StaysConfigured(j)
  <2> SUFFICES ASSUME NEW j \in Live, NEW n \in Inputs, NEW s \in Streams, IsConfigured(j, n, s)
               PROVE  IsConfigured(j, n, s)'
    BY DEF StaysConfigured
  <2>1. CASE config[j][n] = s
    BY <1>1, <2>1 DEF IsConfigured
  <2>2. CASE analyticRow[InputOf[n]] = "gone" /\ InputOf[n] # analyticOf[j]
    BY <1>1, <1>4, <2>2 DEF IsConfigured, Live
  <2>3. QED
    BY <2>1, <2>2 DEF IsConfigured
<1>7. \A j \in Instances : row[j] # "new" =>
        /\ row'[j] # "new" /\ (j \in Live' => j \in Live /\ status'[j] = status[j])
        /\ row'[j] = row[j] /\ (j \in Live => StaysConfigured(j))
  BY <1>4, <1>6 DEF Live
<1>8. QED
  BY <1>1, <1>2, <1>3, <1>5, <1>7, Rested, Edited

\* What may be edited is not known, or a statement failed.
LEMMA EditableIsUnknown ==
  ASSUME IInv, NEW i \in Instances, Editable(i)
  PROVE  /\ Idle /\ i \in Live /\ row[i] = "live"
         /\ Quiet /\ dbFailures = 0 => i \notin known
BY DEF Editable, Live, IInv, StatusHolds, Quiet, Listening

\* The rows of instances go, and no stream of another one.
LEMMA Destroyed ==
  ASSUME IInv, NEW S \in SUBSET Live, DestroyRows(S),
         analyticRow' \in [Analytics -> {"new", "verified", "unverified", "gone"}],
         inputRows' \subseteq Inputs,
         config' \in [Instances -> [Inputs -> Streams \cup {None}]],
         \A i \in Instances : i \in S \/ config[i] = NoConfig => config'[i] = NoConfig,
         \A i \in Live \ S : StaysConfigured(i),
         webStage' = "idle", webRequest' \in Requests \cup {None},
         UNCHANGED <<late, alive, model, operation, dbFailures>>,
         Quiet /\ dbFailures = 0 => S \cap known \subseteq touched
  PROVE  IInv'
<1>1. /\ row' = [i \in Instances |-> IF i \in S THEN "gone" ELSE row[i]]
      /\ analyticOf' = [i \in Instances |-> IF i \in S THEN None ELSE analyticOf[i]]
      /\ status' = [i \in Instances |-> IF i \in S THEN "Stopped" ELSE status[i]]
      /\ Touch(S)
  BY DEF DestroyRows
<1>2. DbOK'
  BY <1>1 DEF IInv, Types, DbOK
<1>3. S \in SUBSET Instances /\ \A i \in S : row[i] # "new"
  BY DEF Live
<1>4. \A i \in Instances : row[i] # "new" =>
        /\ row'[i] # "new" /\ (i \in Live' => i \in Live /\ status'[i] = status[i])
        /\ i \notin S => row'[i] = row[i] /\ (i \in Live => StaysConfigured(i))
  BY <1>1 DEF Live
<1>5. /\ \A i \in Instances : row'[i] # "live" => config'[i] = NoConfig
      /\ \A i \in Live' : analyticOf'[i] \in Analytics
  BY <1>1 DEF IInv, Rows, Live
<1>6. QED
  BY <1>1, <1>2, <1>3, <1>4, <1>5, Edited

\* The streams that go with the inputs of an analytic are those of its instances,
\* and of instances that have another one by now.
LEMMA AnalyticDestroyed ==
  ASSUME IInv, NEW a \in Analytics, DestroyAnalyticRows(a),
         webStage' = "idle", webRequest' \in Requests \cup {None},
         UNCHANGED <<late, alive, model, operation, dbFailures>>,
         Quiet /\ dbFailures = 0 => InstancesOf(a) \cap known \subseteq touched
  PROVE  IInv'
<1>1. /\ analyticRow' = [analyticRow EXCEPT ![a] = "gone"]
      /\ inputRows' \subseteq Inputs /\ DestroyRows(InstancesOf(a))
      /\ config' = [i \in Instances |-> [n \in Inputs |->
                      IF i \in InstancesOf(a) \/ InputOf[n] = a THEN None ELSE config[i][n]]]
  BY DEF DestroyAnalyticRows, IInv, Types, DbOK
<1>2. InstancesOf(a) \in SUBSET Live /\ InstancesOf(a) \in SUBSET Instances
  BY DEF InstancesOf, Live
<1>3. /\ analyticRow' \in [Analytics -> {"new", "verified", "unverified", "gone"}]
      /\ config' \in [Instances -> [Inputs -> Streams \cup {None}]]
  BY <1>1 DEF IInv, Types, DbOK
<1>4. \A i \in Instances :
        i \in InstancesOf(a) \/ config[i] = NoConfig => config'[i] = NoConfig
  BY <1>1 DEF NoConfig
<1>5. \A i \in Live \ InstancesOf(a) : StaysConfigured(i)
  <2> SUFFICES ASSUME NEW i \in Live \ InstancesOf(a), NEW n \in Inputs, NEW s \in Streams,
                      IsConfigured(i, n, s)
               PROVE  IsConfigured(i, n, s)'
    BY DEF StaysConfigured
  <2>1. i \in Instances /\ analyticOf[i] # a /\ analyticOf'[i] = analyticOf[i]
    BY <1>1 DEF DestroyRows, InstancesOf, Live
  <2>2. /\ InputOf[n] \in Analytics /\ analyticRow'[a] = "gone"
        /\ \A b \in Analytics : analyticRow[b] = "gone" => analyticRow'[b] = "gone"
    BY <1>1, InstanceAssumption DEF IInv, Types, DbOK
  <2>3. CASE InputOf[n] = a
    BY <2>1, <2>2, <2>3 DEF IsConfigured
  <2>4. CASE InputOf[n] # a
    <3>1. config'[i][n] = config[i][n]
      BY <1>1, <2>1, <2>4
    <3>2. QED
      BY <2>1, <2>2, <3>1 DEF IsConfigured
  <2>5. QED
    BY <2>3, <2>4
<1>6. QED
  BY <1>1, <1>2, <1>3, <1>4, <1>5, Destroyed

\* The row of an instance that may be edited goes.
LEMMA DestroyInstanceKeeps ==
  ASSUME IInv, NEW i \in Instances, DestroyInstance(i)
  PROVE  IInv'
<1>1. /\ Editable(i) /\ DestroyRows({i}) /\ Rest /\ UNCHANGED <<analyticRow, inputRows>>
      /\ config' = [config EXCEPT ![i] = NoConfig]
  BY DEF DestroyInstance
<1>2. {i} \in SUBSET Live /\ Idle /\ (Quiet /\ dbFailures = 0 => {i} \cap known \subseteq touched)
  BY <1>1, EditableIsUnknown
<1>3. /\ analyticRow' \in [Analytics -> {"new", "verified", "unverified", "gone"}]
      /\ inputRows' \subseteq Inputs
  BY <1>1 DEF IInv, Types, DbOK
<1>4. /\ config' \in [Instances -> [Inputs -> Streams \cup {None}]]
      /\ \A j \in Instances : j # i => config'[j] = config[j]
      /\ config'[i] = NoConfig
  <2>1. NoConfig \in [Inputs -> Streams \cup {None}]
    BY DEF NoConfig
  <2>2. QED
    BY <1>1, <2>1 DEF IInv, Types, DbOK
<1>5. \A j \in Live \ {i} : StaysConfigured(j)
  BY <1>1, <1>4 DEF StaysConfigured, IsConfigured, DestroyRows, Live
<1>6. QED
  BY <1>1, <1>2, <1>3, <1>4, <1>5, Rested, Destroyed

\* An instance that may be edited gets other streams.
LEMMA ReconfigureKeeps ==
  ASSUME IInv, NEW i \in Instances, NEW streams \in [Inputs -> Streams \cup {None}],
         Reconfigure(i, streams)
  PROVE  IInv'
<1>1. /\ Editable(i) /\ config' = [config EXCEPT ![i] = streams] /\ Touch({i})
      /\ Rest /\ UNCHANGED <<analyticRow, inputRows, row, analyticOf, status>>
  BY DEF Reconfigure
<1>2. /\ Idle /\ i \in Live /\ row[i] = "live" /\ {i} \in SUBSET Instances
      /\ Quiet /\ dbFailures = 0 => {i} \cap known \subseteq touched
  BY <1>1, EditableIsUnknown
<1>3. DbOK'
  BY <1>1 DEF IInv, Types, DbOK
<1>4. Live' = Live
  BY <1>1 DEF Live
<1>5. /\ \A j \in Instances : j # i => config'[j] = config[j]
      /\ \A j \in Instances : row'[j] # "live" => config'[j] = NoConfig
      /\ \A j \in Live' : analyticOf'[j] \in Analytics
  BY <1>1, <1>2 DEF IInv, Types, DbOK, Rows, Live
<1>6. \A j \in Live \ {i} : StaysConfigured(j)
  BY <1>1, <1>5 DEF StaysConfigured, IsConfigured, Live
<1>7. /\ \A j \in Instances : row[j] # "new" =>
           /\ row'[j] # "new" /\ (j \in Live' => j \in Live /\ status'[j] = status[j])
           /\ j \notin {i} => row'[j] = row[j] /\ (j \in Live => StaysConfigured(j))
      /\ \A j \in {i} : row[j] # "new"
  BY <1>1, <1>2, <1>4, <1>6
<1>8. QED
  BY <1>1, <1>2, <1>3, <1>5, <1>7, Rested, Edited

\* The three edits of instance streams.
LEMMA InstanceStreamEditsKeep ==
  ASSUME IInv, NEW i \in Instances, NEW n \in Inputs,
         \/ DestroyInstanceStream(i, n)
         \/ \E s \in Streams : CreateInstanceStream(i, n, s)
         \/ \E m \in Inputs, s \in Streams : UpdateInstanceStream(i, m, n, s)
  PROVE  IInv'
<1>1. config[i] \in [Inputs -> Streams \cup {None}]
  BY DEF IInv, Types, DbOK
<1>2. \E streams \in [Inputs -> Streams \cup {None}] : Reconfigure(i, streams)
  <2>1. CASE DestroyInstanceStream(i, n)
    <3>1. [config[i] EXCEPT ![n] = None] \in [Inputs -> Streams \cup {None}]
      BY <1>1
    <3>2. QED
      BY <2>1, <3>1 DEF DestroyInstanceStream
  <2>2. ASSUME NEW s \in Streams, CreateInstanceStream(i, n, s)
        PROVE  \E streams \in [Inputs -> Streams \cup {None}] : Reconfigure(i, streams)
    <3>1. [config[i] EXCEPT ![n] = s] \in [Inputs -> Streams \cup {None}]
      BY <1>1
    <3>2. QED
      BY <2>2, <3>1 DEF CreateInstanceStream
  <2>3. ASSUME NEW m \in Inputs, NEW s \in Streams, UpdateInstanceStream(i, m, n, s)
        PROVE  \E streams \in [Inputs -> Streams \cup {None}] : Reconfigure(i, streams)
    <3>1. [config[i] EXCEPT ![m] = None, ![n] = s] \in [Inputs -> Streams \cup {None}]
      BY <1>1
    <3>2. QED
      BY <2>3, <3>1 DEF UpdateInstanceStream
  <2>4. QED
    BY <2>1, <2>2, <2>3
<1>3. QED
  BY <1>2, ReconfigureKeeps

\* A request is built from the rows as they are.
LEMMA Sent ==
  ASSUME IInv, NEW m \in Present, Send(m), IsStart(m) => AsConfigured(m),
         IsStopAll(m) => InstancesOf(m.analyticid) \subseteq m.analyticinstances
  PROVE  IInv'
<1>1. /\ webStage = "idle" /\ webStage' = "sent" /\ webRequest' = m
      /\ UNCHANGED <<analyticRow, inputRows, row, analyticOf, status, config>>
      /\ UNCHANGED <<late, alive, touched, dbFailures>>
      /\ UNCHANGED <<serverStatus, known, launched, lists, dest>>
      /\ UNCHANGED <<stage, request, current, todo, errors>>
  BY DEF Send, Idle, db, model, operation
<1>2. Waiting' = Waiting /\ Present' = Present /\ Live' = Live /\ m \in Requests
  BY <1>1 DEF Waiting, Present, Live
<1>3. WebOK'
  BY <1>1, <1>2 DEF IInv, Types, WebOK
<1>4. DbOK' /\ ServerOK'
  BY <1>1 DEF IInv, Types, DbOK, ServerOK
<1>5. Asked'
  BY <1>1, <1>2 DEF IInv, WebInv, Asked, Quiet, Listening
<1>6. Fresh'
  <2>1. \A r : AsConfigured(r)' <=> AsConfigured(r)
    BY <1>1, <1>2 DEF AsConfigured, IsConfigured
  <2>2. QED
    BY <1>1, <1>2, <2>1 DEF IInv, WebInv, Fresh
<1>7. DestroysTheStopped' /\ RepliesUnderstood'
  BY <1>1, <1>2 DEF DestroysTheStopped, InstancesOf, RepliesUnderstood
<1>8. Staged' /\ Rows'
  BY <1>1, <1>2 DEF IInv, Staged, Rows, Listening
<1>9. StatusHolds' /\ RunsAsConfigured'
  BY <1>1, <1>2 DEF IInv, StatusHolds, RunsAsConfigured, IsConfigured
<1>10. QED
  BY <1>3, <1>4, <1>5, <1>6, <1>7, <1>8, <1>9 DEF IInv, Types, WebInv

\* The requests of an instance and of the server.
LEMMA SendsKeep ==
  ASSUME IInv,
         \/ \E i \in Instances : StartAnalytic(i) \/ StopAnalytic(i)
         \/ \E command \in ServerEvents : ExecServerCmd(command)
  PROVE  IInv'
<1>1. ASSUME NEW i \in Instances, StartAnalytic(i) PROVE IInv'
  <2> DEFINE m == StartAnalyticInstance(i, analyticOf[i], Configured(i))
  <2>1. /\ i \in Live /\ analyticOf[i] \in Analytics
        /\ Configured(i) \in SUBSET Pairs /\ Send(m)
    BY <1>1 DEF StartAnalytic, Configured, IInv, Rows
  <2>2. /\ m \in Requests /\ IsStart(m)
        /\ m.analyticinstanceid = i /\ m.inputstreams = Configured(i)
    BY <2>1, Built
  <2> HIDE DEF m
  <2>3. m \in Present /\ AsConfigured(m) /\ ~IsStopAll(m)
    BY <2>1, <2>2 DEF Present, Named, AsConfigured, Configured, IsConfigured, IsStart, IsStopAll, Live
  <2>4. QED
    BY <2>1, <2>3, Sent
<1>2. ASSUME NEW i \in Instances, StopAnalytic(i) PROVE IInv'
  <2> DEFINE m == StopAnalyticInstance(i)
  <2>1. i \in Live /\ Send(m)
    BY <1>2 DEF StopAnalytic
  <2>2. m \in Requests /\ m.type = "StopAnalyticInstance" /\ m.analyticinstanceid = i
    BY Built
  <2> HIDE DEF m
  <2>3. m \in Present /\ ~IsStart(m) /\ ~IsStopAll(m)
    BY <2>1, <2>2 DEF Present, Named, IsStart, IsStopAll, Live
  <2>4. QED
    BY <2>1, <2>3, Sent
<1>3. ASSUME NEW command \in ServerEvents, ExecServerCmd(command) PROVE IInv'
  <2> DEFINE m == ServerRequest(command)
  <2>1. Send(m)
    BY <1>3 DEF ExecServerCmd
  <2>2. m \in Requests /\ m.type = command
    BY Built
  <2> HIDE DEF m
  <2>3. m \in Present /\ ~IsStart(m) /\ ~IsStopAll(m)
    BY <2>2 DEF Present, Named, Doomed, IsStart, IsStopAll, ServerEvents
  <2>4. QED
    BY <2>1, <2>3, Sent
<1>4. QED
  BY <1>1, <1>2, <1>3

\* An analytic is destroyed at once when it has no instances.
LEMMA DestroyAnalyticKeeps ==
  ASSUME IInv, NEW a \in Analytics, DestroyAnalytic(a)
  PROVE  IInv'
<1>1. Idle /\ InstancesOf(a) \subseteq Live /\ InstancesOf(a) \subseteq Instances
  BY DEF DestroyAnalytic, InstancesOf, Live
<1>2. CASE InstancesOf(a) # {} /\ Send(StopAnalyticInstances(a, InstancesOf(a)))
  <2> DEFINE m == StopAnalyticInstances(a, InstancesOf(a))
  <2>1. /\ m \in Requests /\ IsStopAll(m)
        /\ m.analyticid = a /\ m.analyticinstances = InstancesOf(a)
    BY <1>1, Built
  <2>2. Send(m)
    BY <1>2
  <2> HIDE DEF m
  <2>3. m \in Present /\ ~IsStart(m)
    BY <1>1, <2>1 DEF Present, Named, Doomed, IsStart, IsStopAll, Live
  <2>4. QED
    BY <2>1, <2>2, <2>3, Sent
<1>3. CASE InstancesOf(a) = {} /\ DestroyAnalyticRows(a) /\ Rest
  <2>1. InstancesOf(a) \cap known \subseteq touched
    BY <1>3
  <2>2. QED
    BY <1>1, <1>3, <2>1, Rested, AnalyticDestroyed
<1>4. QED
  BY <1>2, <1>3 DEF DestroyAnalytic

\* A request that is given up is with the server, which it waits for or serves,
\* or there is no server that could.
LEMMA TimeoutKeeps ==
  ASSUME IInv, Timeout
  PROVE  IInv'
<1>1. /\ webStage \in {"sent", "served", "lost"} /\ webStage' = "replied" /\ webReply' = None
      /\ UNCHANGED <<analyticRow, inputRows, row, analyticOf, status, config>>
      /\ UNCHANGED <<webRequest, alive, touched, dbFailures>>
      /\ UNCHANGED <<serverStatus, known, launched, lists, dest>>
      /\ UNCHANGED <<stage, request, current, todo, errors>>
  BY DEF Timeout, db, model, operation
<1>2. webRequest \in Present /\ webRequest \in Requests /\ webRequest # None
  BY <1>1, Forms DEF IInv, WebInv, Asked, Present
<1>3. /\ late' \in [Slots -> Requests \cup {None}]
      /\ Waiting \subseteq Waiting' /\ Waiting' \subseteq Waiting \cup {webRequest}
      /\ ~alive \/ webStage = "lost" => Waiting' = Waiting
      /\ alive /\ webStage = "sent" => webRequest \in Waiting'
      /\ webStage # "sent" => Waiting' = Waiting
  <2>1. CASE UNCHANGED late /\ (webStage # "sent" \/ ~alive)
    BY <2>1 DEF Waiting, IInv, Types, WebOK
  <2>2. ASSUME alive, webStage = "sent", NEW k \in Slots, late[k] = None,
               late' = [late EXCEPT ![k] = webRequest]
        PROVE  /\ late' \in [Slots -> Requests \cup {None}]
               /\ Waiting \subseteq Waiting' /\ Waiting' \subseteq Waiting \cup {webRequest}
               /\ webRequest \in Waiting'
    <3>1. late \in [Slots -> Requests \cup {None}]
      BY DEF IInv, Types, WebOK
    <3>2. late' \in [Slots -> Requests \cup {None}] /\ late'[k] = webRequest
          /\ \A j \in Slots : j # k => late'[j] = late[j]
      BY <1>2, <2>2, <3>1
    <3>3. QED
      BY <1>2, <2>2, <3>2 DEF Waiting, Slots
  <2>3. QED
    BY <1>1, <2>1, <2>2 DEF Timeout
<1>4. Present' = Present /\ Live' = Live /\ Listening' = Listening
  BY <1>1 DEF Present, Live, Listening
<1>5. WebOK'
  BY <1>1, <1>2, <1>3 DEF IInv, Types, WebOK
<1>6. DbOK' /\ ServerOK'
  BY <1>1 DEF IInv, Types, DbOK, ServerOK
<1>7. Asked'
  BY <1>1, <1>2, <1>3, <1>4 DEF IInv, WebInv, Asked, Quiet
<1>8. Fresh'
  <2>1. \A r : AsConfigured(r)' <=> AsConfigured(r)
    BY <1>1, <1>4 DEF AsConfigured, IsConfigured
  <2>2. QED
    BY <1>1, <1>3, <2>1 DEF IInv, WebInv, Fresh
<1>9. DestroysTheStopped'
  <2> SUFFICES ASSUME IsStopAll(webRequest)
               PROVE  /\ InstancesOf(webRequest.analyticid)' \subseteq webRequest.analyticinstances
                      /\ \/ webRequest \in Waiting'
                         \/ ~Listening' /\ request = webRequest
                         \/ Quiet' /\ known = {}
    BY <1>1 DEF DestroysTheStopped
  <2>1. InstancesOf(webRequest.analyticid) \subseteq webRequest.analyticinstances
    BY <1>1 DEF IInv, WebInv, DestroysTheStopped
  <2>2. InstancesOf(webRequest.analyticid)' = InstancesOf(webRequest.analyticid)
    BY <1>1, <1>4 DEF InstancesOf
  <2>3. CASE alive /\ webStage = "sent"
    BY <1>3, <2>1, <2>2, <2>3
  <2>4. CASE webStage = "served"
    BY <1>4, <2>1, <2>2, <2>4 DEF IInv, WebInv, Asked
  <2>5. CASE ~alive \/ webStage = "lost"
    BY <1>3, <1>4, <2>1, <2>2, <2>5 DEF IInv, WebInv, Asked, Quiet
  <2>6. QED
    BY <1>1, <2>3, <2>4, <2>5
<1>10. RepliesUnderstood'
  BY <1>1 DEF RepliesUnderstood
<1>11. Staged' /\ Rows'
  BY <1>1, <1>4 DEF IInv, Staged, Rows
<1>12. StatusHolds' /\ RunsAsConfigured'
  BY <1>1, <1>4 DEF IInv, StatusHolds, RunsAsConfigured, IsConfigured
<1>13. QED
  BY <1>5, <1>6, <1>7, <1>8, <1>9, <1>10, <1>11, <1>12 DEF IInv, Types, WebInv

\* The rows of an analytic go after a request to stop its instances, whatever
\* became of the request.
LEMMA ReadReplyKeeps ==
  ASSUME IInv, ReadReply
  PROVE  IInv'
<1>1. /\ webStage = "replied" /\ webStage' = "idle" /\ webRequest' = None
      /\ UNCHANGED <<late, alive, model, operation, dbFailures>>
      /\ webRequest' \in Requests \cup {None}
  BY DEF ReadReply
<1>2. CASE IsStopAll(webRequest) /\ DestroyAnalyticRows(webRequest.analyticid)
  <2> DEFINE a == webRequest.analyticid
  <2>1. a \in Analytics
    BY <1>1, <1>2, Forms DEF IInv, WebInv, Asked, Present
  <2>2. Quiet /\ dbFailures = 0 => InstancesOf(a) \cap known \subseteq touched
    BY <1>1, <1>2 DEF IInv, WebInv, DestroysTheStopped, Quiet
  <2>3. DestroyAnalyticRows(a)
    BY <1>2
  <2> HIDE DEF a
  <2>4. QED
    BY <1>1, <2>1, <2>2, <2>3, AnalyticDestroyed
<1>3. CASE UNCHANGED <<db, touched>>
  <2>1. UNCHANGED <<analyticRow, inputRows, row, analyticOf, status, config, touched>>
    BY <1>3 DEF db
  <2>2. DbOK' /\ Touch({}) /\ {} \in SUBSET Instances
    BY <2>1 DEF IInv, Types, DbOK, Touch
  <2>3. /\ Live' = Live /\ \A i \in Instances : row'[i] # "live" => config'[i] = NoConfig
        /\ \A i \in Live' : analyticOf'[i] \in Analytics
        /\ \A i \in Live : StaysConfigured(i)
    BY <2>1 DEF Live, IInv, Rows, StaysConfigured, IsConfigured
  <2>4. QED
    BY <1>1, <2>1, <2>2, <2>3, Edited
<1>4. QED
  BY <1>2, <1>3 DEF ReadReply, IsStopAll

-----------------------------------------------------------------------------
(***************************************************************************)
(* The theorems.                                                           *)
(***************************************************************************)

\* Nothing has been created, asked or started.
LEMMA InitHolds ==
  ASSUME Init
  PROVE  IInv
<1>1. Waiting = {} /\ Listening /\ Quiet
  BY DEF Init, Waiting, Listening, Quiet
<1>2. DbOK
  BY DEF Init, DbOK, NoConfig
<1>3. WebOK
  BY DEF Init, WebOK
<1>4. ServerOK
  <2>1. dbFailures \in 0 .. MaxDbFailures
    BY InstanceAssumption DEF Init
  <2>2. dest \in [Streams -> [Instances -> Inputs \cup {None}]]
    BY DEF Init, Nowhere
  <2>3. QED
    BY <2>1, <2>2 DEF Init, ServerOK
<1>5. WebInv
  BY <1>1 DEF Init, WebInv, Asked, Fresh, DestroysTheStopped, RepliesUnderstood
<1>6. Staged /\ Rows /\ StatusHolds /\ RunsAsConfigured
  <2>1. known = {} /\ touched = {} /\ Live = {} /\ \A i \in Instances : config[i] = NoConfig
    BY DEF Init, Live
  <2>2. Staged /\ StatusHolds /\ RunsAsConfigured
    BY <2>1 DEF Init, Staged, Listening, StatusHolds, RunsAsConfigured
  <2>3. Rows
    BY <2>1 DEF Init, Rows
  <2>4. QED
    BY <2>2, <2>3
<1>7. QED
  BY <1>2, <1>3, <1>4, <1>5, <1>6 DEF IInv, Types

\* A step that changes nothing.
LEMMA StutterHolds ==
  ASSUME IInv, UNCHANGED vars
  PROVE  IInv'
<1>1. /\ UNCHANGED <<analyticRow, inputRows, row, analyticOf, status, config>>
      /\ UNCHANGED <<webStage, webRequest, webReply, late, alive, touched, dbFailures>>
      /\ UNCHANGED <<serverStatus, known, launched, lists, dest>>
      /\ UNCHANGED <<stage, request, current, todo, errors>>
  BY DEF vars, db, web, model, operation
<1>2. /\ Waiting' = Waiting /\ Present' = Present /\ Live' = Live /\ Listening' = Listening
      /\ Quiet' = Quiet
  BY <1>1 DEF Waiting, Present, Live, Listening, Quiet
<1>3. Types'
  BY <1>1 DEF IInv, Types, DbOK, WebOK, ServerOK
<1>4. Asked' /\ RepliesUnderstood'
  BY <1>1, <1>2 DEF IInv, WebInv, Asked, RepliesUnderstood
<1>5. Fresh'
  BY <1>1, <1>2 DEF IInv, WebInv, Fresh, AsConfigured, IsConfigured
<1>6. DestroysTheStopped'
  BY <1>1, <1>2 DEF IInv, WebInv, DestroysTheStopped, InstancesOf
<1>7. Staged' /\ Rows'
  BY <1>1, <1>2 DEF IInv, Staged, Rows
<1>8. StatusHolds' /\ RunsAsConfigured'
  BY <1>1, <1>2 DEF IInv, StatusHolds, RunsAsConfigured, IsConfigured
<1>9. QED
  BY <1>3, <1>4, <1>5, <1>6, <1>7, <1>8 DEF IInv, WebInv

\* Every step keeps the invariant.
LEMMA NextHolds ==
  ASSUME IInv, [Next]_vars
  PROVE  IInv'
<1>1. CASE WebEdits
  BY <1>1, InputEditsKeep, InstanceRowsKeep, DestroyInstanceKeeps, InstanceStreamEditsKeep
     DEF WebEdits
<1>2. CASE WebRequests
  BY <1>2, SendsKeep, DestroyAnalyticKeeps, TimeoutKeeps, ReadReplyKeeps DEF WebRequests
<1>3. CASE ExecuteOperation
  BY <1>3, RepliesKeep, StartLaunchesKeeps, StartRevertsKeeps, RecordStartedKeeps,
     StopKnownKeeps, RecordStoppedKeeps, StopAllKeeps, StopNextKeeps, StopDoneKeeps,
     StopServerKeeps, RestartServerKeeps, StartServerKeeps, BootStreamKeeps, BootEndsKeep
     DEF ExecuteOperation
<1>4. CASE Crash \/ Terminate \/ Revive
  BY <1>4, EndsKeep, ReviveKeeps
<1>5. CASE UNCHANGED vars
  BY <1>5, StutterHolds
<1>6. QED
  BY <1>1, <1>2, <1>3, <1>4, <1>5 DEF Next

\* In every reachable state the rows, the requests and what the server has done
\* of the one it is at fit together.
THEOREM InstanceInvariant == Spec => []IInv
<1>1. Init => IInv
  BY InitHolds
<1>2. IInv /\ [Next]_vars => IInv'
  BY NextHolds
<1>3. QED
  BY <1>1, <1>2, PTL DEF Spec

\* Every variable has its type.
THEOREM InstanceTypeCorrect == Spec => []TypeOK
<1>1. IInv => TypeOK
  BY TypesAreTypeOK DEF IInv
<1>2. QED
  BY <1>1, InstanceInvariant, PTL

\* Between two operations an instance whose row says Stopped is not in the
\* server's model, unless a statement of the server failed: its configuration
\* may be edited, and its row destroyed.
THEOREM StoppedIsAlwaysTrue == Spec => []StoppedIsTrue
<1>1. IInv => StoppedIsTrue
  BY DEF IInv, StatusHolds, StoppedIsTrue, Listening
<1>2. QED
  BY <1>1, InstanceInvariant, PTL

\* What the server feeds an instance is what its rows say, but for the rows
\* that went with a former analytic of the instance, unless they were edited
\* while a request that was given up was with it, or a statement failed.
THEOREM AlwaysRunsAsConfigured == Spec => []RunsAsConfigured
<1>1. IInv => RunsAsConfigured
  BY DEF IInv
<1>2. QED
  BY <1>1, InstanceInvariant, PTL

\* Whatever the web interface asks and whenever the server answers, the reply
\* has what its parser takes out of it.
THEOREM RepliesAreUnderstood == Spec => []RepliesUnderstood
<1>1. IInv => RepliesUnderstood
  BY DEF IInv, WebInv
<1>2. QED
  BY <1>1, InstanceInvariant, PTL
=============================================================================
