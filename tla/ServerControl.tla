--------------------------- MODULE ServerControl ----------------------------
(***************************************************************************)
(* The event thread of the OpenCCTV Server: it takes start and stop        *)
(* requests for the server and for single analytic instances, one at a     *)
(* time, and keeps in ApplicationModel which streams and instances have a  *)
(* multicast destination, a queue, a VMS connector, a flow controller and  *)
(* a thread.  A request is served in the steps the code takes between the  *)
(* points where it waits for a thread or for another process, and at each  *)
(* of them something may fail, or the whole server may end.                *)
(*                                                                         *)
(* A thread is "current" while it works on the objects the model holds,    *)
(* "old" when the model has replaced one of them, and a stray when the     *)
(* model has replaced the thread itself, which nobody can stop any more.   *)
(* A producer that has "ended" by itself stays in its map.                 *)
(*                                                                         *)
(* A reply of the Analytic Server that nobody can read, and the end of a   *)
(* consumer or router of its own accord, are left out.                     *)
(***************************************************************************)
EXTENDS Integers, FiniteSets

CONSTANTS
  Analytics, Streams,
  Inputs,      \* the streams of each analytic instance, in the database
  Direct,      \* the streams of direct cameras
  NULL,
  MaxStrays    \* bound: startServer is not tried again with more strays

ASSUME ControlAssumption ==
  /\ Inputs \in [Analytics -> (SUBSET Streams) \ {{}}]
  /\ Direct \subseteq Streams /\ NULL \notin Streams
  /\ MaxStrays \in Nat

VARIABLES
  status,           \* sServerStatus
  op,               \* the request being served
  subject,          \* its analytic instance
  reverting,        \* a failed start called stopAnalytic itself
  stage, stream,    \* where in its loop over streams, and at which stream
  todo,             \* the streams the loop has still to take
  known, lists,     \* _mAnalyticInstances: its keys and the streams of each
  multicast, dest,  \* _mMulticastDestinations: its keys and destinations
  unlisted,         \* destinations left by a start that failed: the instance
                    \* does not list the stream
  queues,           \* _mInternalQueues
  connectors,       \* _mVmsConnectors
  flowControllers,  \* _mFlowControllers, and with them the queue addresses
  consumers, producers, routers,   \* the threads in the model's maps
  strays,           \* consumer and producer threads in no map
  halfStarted,      \* a startServer returned false with threads running
  playing, _pQueue  \* of the connectors of direct cameras

Cameras == INSTANCE DirectCameraConnector WITH Streams <- Direct

requestVars == <<op, subject, reverting, stage, stream, todo>>
instanceVars == <<known, lists, flowControllers>>
streamVars == <<multicast, dest, unlisted, queues, connectors>>
threadVars == <<consumers, producers, routers, strays>>
cameraVars == <<playing, _pQueue>>
serverVars == <<status, halfStarted, cameraVars>>
vars == <<requestVars, instanceVars, streamVars, threadVars, serverVars>>

ThreadState == {"none", "current", "old", "ended"}

TypeOK ==
  /\ status \in {"STARTED", "STOPPED"}
  /\ op \in {"idle", "starting", "stopping", "booting", "clearing"}
  /\ subject \in Analytics /\ stream \in Streams /\ todo \subseteq Streams
  /\ stage \in {"next", "asked", "attach", "connect", "threads",
                "detach", "join", "connector", "queue"}
  /\ reverting \in BOOLEAN /\ halfStarted \in BOOLEAN
  /\ lists \in [Analytics -> SUBSET Streams]
  /\ op = "starting" /\ stage # "asked" => lists[subject] = Inputs[subject] \ todo
  /\ dest \in [Streams -> SUBSET Analytics]
  /\ unlisted \in [Streams -> SUBSET Analytics]
  /\ known \cup flowControllers \subseteq Analytics
  /\ multicast \cup queues \cup connectors \subseteq Streams
  /\ consumers \in [Streams -> ThreadState]
  /\ producers \in [Streams -> ThreadState]
  /\ routers \in [Analytics -> ThreadState]
  /\ strays \in Nat
  /\ playing \subseteq Direct /\ _pQueue \in Direct \cup {NULL}

NoThreads(S) == [x \in S |-> "none"]
NoDestinations == [s \in Streams |-> {}]

Init ==
  /\ status = "STOPPED" /\ op = "idle"
  /\ subject \in Analytics /\ stream \in Streams /\ todo = {}
  /\ stage = "next" /\ reverting = FALSE /\ halfStarted = FALSE
  /\ known = {} /\ lists = [a \in Analytics |-> {}]
  /\ multicast = {} /\ dest = NoDestinations /\ unlisted = NoDestinations
  /\ queues = {} /\ connectors = {} /\ flowControllers = {}
  /\ consumers = NoThreads(Streams) /\ producers = NoThreads(Streams)
  /\ routers = NoThreads(Analytics) /\ strays = 0
  /\ Cameras!Init

-----------------------------------------------------------------------------
Exists(thread) == thread # "none"
Runs(thread) == thread \in {"current", "old"}
Replaced(thread) == IF Runs(thread) THEN "old" ELSE thread

StartConsumer(s) ==
  /\ consumers' = [consumers EXCEPT ![s] = "current"]
  /\ strays' = strays + (IF Exists(consumers[s]) THEN 1 ELSE 0)

StopConsumer(s) == consumers' = [consumers EXCEPT ![s] = "none"]

\* Mutant: a thread that ended by itself is left in the map.
StopProducersRunning(S) ==
  /\ producers' = [s \in Streams |->
                     IF s \in S /\ Runs(producers[s]) THEN "none" ELSE producers[s]]
  /\ Cameras!Interrupted({s \in S \cap Direct : Exists(producers[s])})

\* stopThread for the producers of the streams S.
StopProducers(S) ==
  /\ producers' = [s \in Streams |-> IF s \in S THEN "none" ELSE producers[s]]
  /\ Cameras!Interrupted({s \in S \cap Direct : Exists(producers[s])})

\* A producer thread calls produceImageObjects.
Produce(s) ==
  /\ producers[s] = "current" /\ Cameras!Produce(s)
  /\ UNCHANGED <<requestVars, instanceVars, streamVars, threadVars, status, halfStarted>>

\* It throws, or returns: the camera has gone.  The producer thread of a direct
\* camera ends when it is interrupted and not before.
ProducerEnds(s) ==
  /\ s \notin Direct /\ Runs(producers[s])
  /\ producers' = [producers EXCEPT ![s] = "ended"]
  /\ UNCHANGED <<requestVars, instanceVars, streamVars, consumers, routers, strays, serverVars>>

At(o, st) == op = o /\ stage = st
Goto(st) == stage' = st

(***************************************************************************)
(* AnalyticEvent::startAnalytic                                            *)
(***************************************************************************)

\* The Analytic Server is asked to start it.  (When the instance is in the
\* model already, there is a reply and no change.)
BeginStart(a) ==
  /\ op = "idle" /\ status = "STARTED"
  /\ a \notin known
  /\ op' = "starting" /\ subject' = a /\ Goto("asked")
  /\ UNCHANGED <<reverting, stream, todo, instanceVars, streamVars, threadVars, serverVars>>

Started ==
  /\ At("starting", "asked") /\ Goto("next")
  /\ todo' = Inputs[subject]
  /\ known' = known \cup {subject} /\ lists' = [lists EXCEPT ![subject] = {}]
  /\ flowControllers' = flowControllers \cup {subject}
  /\ routers' = [routers EXCEPT ![subject] = Replaced(@)]
  /\ UNCHANGED <<op, subject, reverting, stream, streamVars, consumers, producers,
                 strays, serverVars>>

StartRefused ==
  /\ At("starting", "asked") /\ Goto("next")
  /\ op' = "idle"
  /\ UNCHANGED <<subject, reverting, stream, todo, instanceVars, streamVars,
                 threadVars, serverVars>>

\* Mutant: the consumer is not paused.
PauseForStartRunning(s) ==
  /\ At("starting", "next") /\ s \in todo
  /\ stream' = s /\ Goto("attach")
  /\ UNCHANGED <<op, subject, reverting, todo, instanceVars, streamVars,
                 threadVars, serverVars>>

PauseForStart(s) ==
  /\ At("starting", "next") /\ s \in todo
  /\ stream' = s /\ Goto("attach")
  /\ StopConsumer(s)
  /\ UNCHANGED <<op, subject, reverting, todo, instanceVars, streamVars,
                 producers, routers, strays, serverVars>>

Attach ==
  /\ At("starting", "attach") /\ Goto("connect")
  /\ multicast' = multicast \cup {stream}
  /\ dest' = [dest EXCEPT ![stream] = @ \cup {subject}]
  /\ queues' = queues \cup {stream}
  /\ UNCHANGED <<op, subject, reverting, stream, todo, instanceVars, unlisted,
                 connectors, threadVars, serverVars>>

\* The connector exists, or loadVmsConnector loads it.
Connect ==
  /\ At("starting", "connect") /\ Goto("threads")
  /\ connectors' = connectors \cup {stream}
  /\ UNCHANGED <<op, subject, reverting, stream, todo, instanceVars, multicast,
                 dest, unlisted, queues, threadVars, serverVars>>

\* findStream or loadVmsConnector fails: stopAnalytic is called, for the
\* streams the instance lists, and this one is not among them.
ConnectFails ==
  /\ At("starting", "connect")
  /\ stream \notin connectors
  /\ op' = "stopping" /\ Goto("next") /\ reverting' = TRUE
  /\ unlisted' = [unlisted EXCEPT ![stream] = @ \cup {subject}]
  /\ UNCHANGED <<subject, stream, todo, instanceVars, multicast, dest, queues,
                 connectors, threadVars, serverVars>>

\* Mutant: the producer is started only when the router is new too.
StartThreadsOnce ==
  /\ At("starting", "threads") /\ Goto("next")
  /\ routers' = [routers EXCEPT ![subject] = IF Exists(@) THEN @ ELSE "current"]
  /\ StartConsumer(stream)
  /\ producers' = [producers EXCEPT ![stream] =
                     IF Exists(@) \/ Exists(routers[subject]) THEN @ ELSE "current"]
  /\ lists' = [lists EXCEPT ![subject] = @ \cup {stream}]
  /\ unlisted' = [unlisted EXCEPT ![stream] = @ \ {subject}]
  /\ todo' = todo \ {stream}
  /\ UNCHANGED <<op, subject, reverting, stream, known, flowControllers,
                 multicast, dest, queues, connectors, serverVars>>

StartThreads ==
  /\ At("starting", "threads") /\ Goto("next")
  /\ routers' = [routers EXCEPT ![subject] = IF Exists(@) THEN @ ELSE "current"]
  /\ StartConsumer(stream)
  /\ producers' = [producers EXCEPT ![stream] = IF Exists(@) THEN @ ELSE "current"]
  /\ lists' = [lists EXCEPT ![subject] = @ \cup {stream}]
  /\ unlisted' = [unlisted EXCEPT ![stream] = @ \ {subject}]
  /\ todo' = todo \ {stream}
  /\ UNCHANGED <<op, subject, reverting, stream, known, flowControllers,
                 multicast, dest, queues, connectors, serverVars>>

FinishStart ==
  /\ At("starting", "next") /\ todo = {}
  /\ op' = "idle"
  /\ UNCHANGED <<subject, reverting, stage, stream, todo, instanceVars, streamVars,
                 threadVars, serverVars>>

(***************************************************************************)
(* AnalyticEvent::stopAnalytic                                             *)
(***************************************************************************)

BeginStop(a) ==
  /\ op = "idle" /\ status = "STARTED"
  /\ a \in known
  /\ op' = "stopping" /\ subject' = a /\ Goto("next") /\ reverting' = FALSE
  /\ UNCHANGED <<stream, todo, instanceVars, streamVars, threadVars, serverVars>>

\* Mutant: no pop_back.
PauseForStopAgain(s) ==
  /\ At("stopping", "next") /\ s \in lists[subject]
  /\ \/ /\ s \in multicast
        /\ stream' = s /\ Goto("detach") /\ StopConsumer(s)
     \/ /\ s \notin multicast
        /\ UNCHANGED <<stream, stage, consumers>>
  /\ UNCHANGED <<op, subject, reverting, todo, instanceVars,
                 streamVars, producers, routers, strays, serverVars>>

PauseForStop(s) ==
  /\ At("stopping", "next") /\ s \in lists[subject]
  /\ lists' = [lists EXCEPT ![subject] = @ \ {s}]
  /\ \/ /\ s \in multicast
        /\ stream' = s /\ Goto("detach") /\ StopConsumer(s)
     \/ /\ s \notin multicast
        /\ UNCHANGED <<stream, stage, consumers>>
  /\ UNCHANGED <<op, subject, reverting, todo, known, flowControllers,
                 streamVars, producers, routers, strays, serverVars>>

\* Mutant: the queue goes before the thread that fills it.
FollowingQueueFirst ==
  [detach |-> "queue", queue |-> "join", join |-> "connector", connector |-> "next"]

\* What goes with the last destination of a stream, in this order.
Following ==
  [detach |-> "join", join |-> "connector", connector |-> "queue", queue |-> "next"]

\* Mutant: the stream goes with any of its destinations.
DetachAlways ==
  /\ At("stopping", "detach")
  /\ dest' = [dest EXCEPT ![stream] = @ \ {subject}]
  /\ unlisted' = [unlisted EXCEPT ![stream] = @ \ {subject}]
  /\ Goto(Following["detach"]) /\ multicast' = multicast \ {stream}
  /\ UNCHANGED <<op, subject, reverting, stream, todo, instanceVars, queues,
                 connectors, threadVars, serverVars>>

\* Mutant: the instance stays a destination.
DetachKeeps ==
  /\ At("stopping", "detach") /\ Goto("next")
  /\ StartConsumer(stream)
  /\ UNCHANGED <<op, subject, reverting, stream, todo, instanceVars, streamVars,
                 producers, routers, serverVars>>

\* With the last destination everything of the stream goes; else the consumer
\* is resumed.
Detach ==
  /\ At("stopping", "detach")
  /\ dest' = [dest EXCEPT ![stream] = @ \ {subject}]
  /\ unlisted' = [unlisted EXCEPT ![stream] = @ \ {subject}]
  /\ \/ /\ dest'[stream] = {}
        /\ Goto(Following["detach"]) /\ multicast' = multicast \ {stream}
        /\ UNCHANGED <<consumers, strays>>
     \/ /\ dest'[stream] # {}
        /\ Goto("next") /\ StartConsumer(stream)
        /\ UNCHANGED multicast
  /\ UNCHANGED <<op, subject, reverting, stream, todo, instanceVars, queues,
                 connectors, producers, routers, serverVars>>

RemoveProducer ==
  /\ At("stopping", "join") /\ Goto(Following["join"])
  /\ StopProducers({stream})
  /\ UNCHANGED <<op, subject, reverting, stream, todo, instanceVars, streamVars,
                 consumers, routers, strays, status, halfStarted>>

\* One that cannot be deleted stays in the model.
DeleteVmsConnector ==
  /\ At("stopping", "connector") /\ Goto(Following["connector"])
  /\ connectors' \in {connectors, connectors \ {stream}}
  /\ UNCHANGED <<op, subject, reverting, stream, todo, instanceVars, multicast,
                 dest, unlisted, queues, threadVars, serverVars>>

DeleteQueue ==
  /\ At("stopping", "queue") /\ Goto(Following["queue"])
  /\ queues' = queues \ {stream}
  /\ UNCHANGED <<op, subject, reverting, stream, todo, instanceVars, multicast,
                 dest, unlisted, connectors, threadVars, serverVars>>

\* After the last of its streams: the Analytic Server is asked to stop it.
RemoveRouter ==
  /\ At("stopping", "next") /\ lists[subject] = {} /\ Goto("asked")
  /\ routers' = [routers EXCEPT ![subject] = "none"]
  /\ UNCHANGED <<op, subject, reverting, stream, todo, instanceVars, streamVars,
                 consumers, producers, strays, serverVars>>

\* Whatever the reply says.
Stopped ==
  /\ At("stopping", "asked") /\ Goto("next")
  /\ op' = "idle"
  /\ known' = known \ {subject}
  /\ flowControllers' = flowControllers \ {subject}
  /\ UNCHANGED <<subject, reverting, stream, todo, lists, streamVars, threadVars,
                 serverVars>>

(***************************************************************************)
(* ServerEvent::startServer                                                *)
(***************************************************************************)

BeginServerStart ==
  /\ op = "idle" /\ status = "STOPPED"
  /\ strays <= MaxStrays
  /\ op' = "booting" /\ todo' = Streams /\ Goto("next")
  /\ UNCHANGED <<subject, reverting, stream, instanceVars, streamVars, threadVars, serverVars>>

On(s) == {a \in Analytics : s \in Inputs[a]}

\* The connector is there and the threads of s are started; every instance on
\* s enters the model, whether the Analytic Server started it or not.
BootThreads(s) ==
  /\ queues' = queues \cup {s} /\ connectors' = connectors \cup {s}
  /\ known' = known \cup On(s)
  /\ lists' = [a \in Analytics |-> IF a \in On(s) THEN lists[a] \cup {s} ELSE lists[a]]
  /\ unlisted' = [unlisted EXCEPT ![s] = {}]
  /\ routers' = [a \in Analytics |->
                   IF a \in On(s) \cap flowControllers' /\ ~ Exists(routers[a])
                   THEN "current" ELSE routers[a]]
  /\ consumers' = [consumers EXCEPT ![s] = "current"]
  /\ producers' = [producers EXCEPT ![s] = "current"]
  /\ strays' = strays + (IF Exists(consumers[s]) THEN 1 ELSE 0)
                      + (IF Runs(producers[s]) THEN 1 ELSE 0)

\* The stream has a destination, but its connector is not loaded.
BootNoConnector(s) ==
  /\ queues' = queues \cup {s}
  /\ unlisted' = [unlisted EXCEPT ![s] = dest'[s]]
  /\ consumers' = [consumers EXCEPT ![s] = Replaced(@)]
  /\ producers' = [producers EXCEPT ![s] = Replaced(@)]
  /\ UNCHANGED <<connectors, known, lists, routers, strays>>

BootNoDestination(s) ==
  /\ consumers' = [consumers EXCEPT ![s] = Replaced(@)]
  /\ unlisted' = [unlisted EXCEPT ![s] = {}]
  /\ UNCHANGED <<queues, connectors, known, lists, routers, producers, strays>>

BootStream(s) ==
  /\ op = "booting" /\ s \in todo
  /\ \E started \in SUBSET (On(s) \ flowControllers) :
       flowControllers' = flowControllers \cup started
  /\ multicast' = multicast \cup {s}
  /\ dest' = [dest EXCEPT ![s] = On(s) \cap flowControllers']
  /\ IF dest'[s] = {} THEN BootNoDestination(s)
                      ELSE BootThreads(s) \/ BootNoConnector(s)
  /\ todo' = todo \ {s}
  /\ playing' = playing \ {s}   \* the thread of s in the map is a new one
  /\ UNCHANGED <<op, subject, reverting, stage, stream, status, halfStarted, _pQueue>>

\* A query for the streams, or for the instances of one, fails.
BootFails ==
  /\ op = "booting"
  /\ op' = "idle"
  /\ halfStarted' = (halfStarted \/ todo # Streams)
  /\ UNCHANGED <<subject, reverting, stage, stream, todo, instanceVars, streamVars,
                 threadVars, cameraVars, status>>

FinishServerStart ==
  /\ op = "booting" /\ todo = {}
  /\ op' = "idle" /\ status' = "STARTED"
  /\ UNCHANGED <<subject, reverting, stage, stream, todo, instanceVars, streamVars,
                 threadVars, cameraVars, halfStarted>>

(***************************************************************************)
(* ServerEvent::stopServer, and the end of the server process.             *)
(***************************************************************************)

StopAllThreads ==
  /\ consumers' = NoThreads(Streams)
  /\ StopProducers(Streams)
  /\ routers' = NoThreads(Analytics)

EmptyModel ==
  /\ known' = {} /\ lists' = [a \in Analytics |-> {}]
  /\ multicast' = {} /\ dest' = NoDestinations /\ unlisted' = NoDestinations
  /\ queues' = {} /\ connectors' = {} /\ flowControllers' = {}

BeginClear ==
  /\ op = "idle" /\ status = "STARTED"
  /\ op' = "clearing" /\ Goto("join")
  /\ UNCHANGED <<subject, reverting, stream, todo, instanceVars, streamVars,
                 threadVars, serverVars>>

\* The producers first.  Then the Analytic Server is asked to kill them all.
ClearThreads ==
  /\ At("clearing", "join") /\ Goto("asked")
  /\ StopAllThreads
  /\ UNCHANGED <<op, subject, reverting, stream, todo, instanceVars, streamVars,
                 strays, status, halfStarted>>

ClearRest ==
  /\ At("clearing", "asked") /\ Goto("next")
  /\ op' = "idle" /\ status' = "STOPPED"
  /\ EmptyModel
  /\ UNCHANGED <<subject, reverting, stream, todo, threadVars, cameraVars, halfStarted>>

\* By SIGTERM or a crash.  The next server process starts with an empty model.
ServerEnds ==
  /\ status' = "STOPPED" /\ op' = "idle" /\ todo' = {} /\ Goto("next")
  /\ EmptyModel /\ strays' = 0 /\ halfStarted' = FALSE
  /\ consumers' = NoThreads(Streams) /\ producers' = NoThreads(Streams)
  /\ routers' = NoThreads(Analytics)
  /\ Cameras!Unload
  /\ UNCHANGED <<subject, reverting, stream>>

-----------------------------------------------------------------------------
StartSteps ==
  Started \/ StartRefused \/ (\E s \in Streams : PauseForStart(s)) \/ Attach
    \/ Connect \/ ConnectFails \/ StartThreads \/ FinishStart
StopSteps ==
  (\E s \in Streams : PauseForStop(s)) \/ Detach \/ RemoveProducer
    \/ DeleteVmsConnector \/ DeleteQueue \/ RemoveRouter \/ Stopped
BootSteps == (\E s \in Streams : BootStream(s)) \/ BootFails \/ FinishServerStart
ClearSteps == ClearThreads \/ ClearRest
Steps == StartSteps \/ StopSteps \/ BootSteps \/ ClearSteps

Requests ==
  \/ \E a \in Analytics : BeginStart(a) \/ BeginStop(a)
  \/ BeginServerStart
  \/ BeginClear

Next ==
  \/ Requests \/ Steps \/ ServerEnds
  \/ \E s \in Direct : Produce(s)
  \/ \E s \in Streams : ProducerEnds(s)

Spec == Init /\ [][Next]_vars

\* The producer of a direct camera and every consumer and router end when they
\* are interrupted; another camera may keep its producer for ever.
HeldByCamera(S) == \E s \in S \ Direct : Runs(producers[s])

\* The next step needs the end of such a producer, or a reply of the Analytic
\* Server.
Waiting ==
  \/ op # "idle" /\ stage = "asked"
  \/ At("stopping", "join") /\ HeldByCamera({stream})
  \/ At("clearing", "join") /\ HeldByCamera(Streams)
  \/ op = "booting" /\ \E s \in todo : ~ On(s) \subseteq flowControllers

\* The event thread goes on with the request it serves, unless it has to wait;
\* nobody need send one.
LiveSpec == Spec /\ WF_vars(~ Waiting /\ Steps)

-----------------------------------------------------------------------------
Idle == op = "idle"

(***************************************************************************)
(* No thread is lost, and none works on an object that the model has       *)
(* replaced (a consumer filling from one queue what the producer puts in   *)
(* another, a router crediting a flow controller nobody asks), whatever    *)
(* starts, stops and reverts there were, until a startServer fails halfway.*)
(***************************************************************************)
NothingReplacedInUse ==
  ~ halfStarted =>
    /\ strays = 0
    /\ \A s \in Streams : consumers[s] # "old" /\ producers[s] # "old"
    /\ \A a \in Analytics : routers[a] # "old"

(***************************************************************************)
(* No object is deleted under a thread that works on it: the queue, the    *)
(* connector and the destinations of a stream, and the flow controllers a  *)
(* router credits and a consumer asks for each of its destinations.  One   *)
(* exception is the code's own: a destination that a failed start left     *)
(* behind is not listed by its instance, so no stop removes it, and the    *)
(* consumer may ask for a flow controller that has gone.                   *)
(***************************************************************************)
ThreadsHaveWhatTheyUse ==
  /\ \A s \in Streams :
       /\ consumers[s] = "current" =>
            /\ s \in queues \cap multicast
            /\ dest[s] \ unlisted[s] \subseteq flowControllers
       /\ producers[s] = "current" => s \in queues \cap connectors
  /\ \A a \in Analytics : routers[a] = "current" => a \in flowControllers

(***************************************************************************)
(* The connectors' one queue pointer never outlives the queue: however the *)
(* threads of several direct cameras begin and end, a frame finds there a  *)
(* queue of the model, with its own producer alive, or none.               *)
(***************************************************************************)
PointedQueueLives ==
  ~ halfStarted =>
    \A s \in Cameras!PushedOn : s \in queues /\ producers[s] = "current"

(***************************************************************************)
(* A producer thread, also one that ended by itself, stays in the map only *)
(* while its stream has a destination, so that the next start of the       *)
(* stream starts the camera anew; and the consumer that was paused is then *)
(* resumed, also when the start that paused it fails and is reverted.      *)
(***************************************************************************)
ProducersAreConsumed ==
  Idle => \A s \in Streams : Exists(producers[s]) =>
            dest[s] # {} /\ Exists(consumers[s])

(***************************************************************************)
(* An instance that lists a stream and is a destination of it has its      *)
(* threads: stopping one instance never takes a stream away from another.  *)
(***************************************************************************)
DestinationIsFed ==
  Idle => \A a \in known : \A s \in lists[a] :
            a \in dest[s] => Exists(consumers[s]) /\ Exists(producers[s])

(***************************************************************************)
(* A start request that is answered with success leaves the instance with  *)
(* the threads of every one of its streams and its results collected.      *)
(***************************************************************************)
StartedIsServed ==
  [][FinishStart =>
       /\ routers[subject] = "current" /\ lists[subject] = Inputs[subject]
       /\ \A s \in Inputs[subject] :
            subject \in dest[s] /\ Exists(consumers[s]) /\ Exists(producers[s])]_vars

(***************************************************************************)
(* Destinations of a stream are added and removed only while its consumer  *)
(* is stopped: the consumer copies them without the lock.                  *)
(***************************************************************************)
DestinationsChangeWhilePaused ==
  [][op # "booting" =>
       \A s \in Streams :
         Exists(consumers[s]) /\ Exists(consumers[s])' => dest'[s] = dest[s]]_vars

(***************************************************************************)
(* Every request comes to its end, but for one that from some time on      *)
(* waits for a camera or for the Analytic Server: no loop over streams     *)
(* begins again, and no step of a request leaves it without a next one.    *)
(***************************************************************************)
RequestsEnd == (~ Idle ~> Idle) \/ <>[]Waiting
=============================================================================
