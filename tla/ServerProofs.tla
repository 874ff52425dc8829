---------------------------- MODULE ServerProofs ----------------------------
(***************************************************************************)
(* Proofs about the server process, from within and from without: about    *)
(* ServerControl, its event thread, and then about ServerStarter, which    *)
(* starts and stops the process.                                           *)
(*                                                                         *)
(* ServerControl is proved for any instances on any streams and any number *)
(* of strays.  What the runs check of the threads, the objects they use    *)
(* and the destinations speaks of an idle server, or leaves out what a     *)
(* failed startServer does, and is not inductive.  In between the requests *)
(* the invariant says what a paused stream still has and what a start has  *)
(* done so far, and what startServer finds when it begins, which is what a *)
(* failed one may have left.                                               *)
(***************************************************************************)
EXTENDS ServerControl, ServerStarter, TLAPS

\* The stream whose consumer the request being served has stopped.
Paused(s) ==
  /\ s = stream
  /\ \/ op = "starting" /\ stage \notin {"next", "asked"}
     \/ op = "stopping" /\ stage \in {"detach", "join", "connector", "queue"}

\* Instances start and stop in a started server only; the consumer of a paused
\* stream, and all the threads of a server being emptied, are gone.
Serving ==
  /\ op \in {"starting", "stopping", "clearing"} => status = "STARTED"
  /\ op = "booting" => status = "STOPPED"
  /\ op = "clearing" /\ stage = "asked" =>
       /\ \A s \in Streams : ~ Exists(consumers[s]) /\ ~ Exists(producers[s])
       /\ \A a \in Analytics : ~ Exists(routers[a])
  /\ \A s \in Streams : Paused(s) => ~ Exists(consumers[s])

\* How far a start has come: the instance is not in the model while the Analytic
\* Server is asked; then it is a destination of the streams it lists, and has a
\* router from the first of them on.
Starting ==
  /\ op = "starting" /\ stage = "asked" => subject \notin known
  /\ op = "starting" /\ stage # "asked" =>
    /\ subject \in known \cap flowControllers
    /\ routers[subject] = IF todo = Inputs[subject] THEN "none" ELSE "current"
    /\ todo \subseteq Inputs[subject]
    /\ \A s \in lists[subject] : subject \in dest[s]
    /\ stage \in {"next", "attach", "connect", "threads"}
    /\ stage # "next" => stream \in todo
    /\ stage \in {"connect", "threads"} => subject \in dest[stream]
    /\ stage = "threads" => stream \in connectors

\* How far a stop has come: with the last destination of a stream its producer,
\* connector and queue go, in this order; and when the Analytic Server is asked
\* the instance has no stream and no router left.
Stopping ==
  op = "stopping" =>
    /\ subject \in known
    /\ stage \in {"next", "asked", "detach", "join", "connector", "queue"}
    /\ stage \in {"join", "connector", "queue"} => dest[stream] = {}
    /\ stage \in {"connector", "queue"} => ~ Exists(producers[stream])
    /\ stage = "asked" => lists[subject] = {} /\ ~ Exists(routers[subject])

\* A destination is left by a start that failed, or its instance has a flow
\* controller and lists the stream, or is about to, or was.
Controlled ==
  \A s \in Streams : \A a \in dest[s] \ unlisted[s] :
    /\ a \in flowControllers
    /\ s \in lists[a] \/ (Paused(s) /\ a = subject)

\* Unless a startServer failed halfway, the next one finds no thread at a stream
\* it has not dealt with.
Fresh ==
  ~ halfStarted /\ status = "STOPPED" =>
    \A s \in Streams : op = "idle" \/ s \in todo =>
      ~ Exists(consumers[s]) /\ ~ Exists(producers[s])

\* What a startServer, failed or not, leaves the next: it takes no destination
\* away that an earlier one made.
Booted ==
  status = "STOPPED" =>
    \A s \in Streams :
      /\ dest[s] \subseteq On(s) \cap flowControllers
      /\ \A a \in Analytics : s \in lists[a] => Exists(producers[s])

\* ProducersAreConsumed and DestinationIsFed, also while a request is served.
Fed ==
  /\ \A a \in Analytics : Exists(routers[a]) \/ lists[a] # {} => a \in known
  /\ \A s \in Streams :
       /\ dest[s] # {} => s \in queues \cap multicast
       /\ Exists(producers[s]) =>
            /\ s \in connectors
            /\ Paused(s) \/ (dest[s] # {} /\ Exists(consumers[s]))
       /\ op # "clearing" =>
            \A a \in known : s \in lists[a] /\ a \in dest[s] => Exists(producers[s])

IInv ==
  /\ TypeOK /\ Serving /\ Starting /\ Stopping /\ Controlled /\ Fresh /\ Booted /\ Fed
  /\ NothingReplacedInUse /\ ThreadsHaveWhatTheyUse /\ PointedQueueLives

\* A server process begins with an empty model and no thread.
LEMMA InitInductive == Init => IInv
<1> SUFFICES ASSUME Init PROVE IInv
  OBVIOUS
<1> USE ControlAssumption
       DEF Init, IInv, TypeOK, Serving, Starting, Stopping, Controlled, Fresh, Booted, Fed,
           NothingReplacedInUse, ThreadsHaveWhatTheyUse, PointedQueueLives,
           NoThreads, NoDestinations, ThreadState, Exists, Paused, Cameras!Init, Cameras!PushedOn
<1>1. TypeOK
  OBVIOUS
<1>2. Serving /\ Starting /\ Stopping /\ Controlled /\ Fresh /\ Booted /\ Fed
  OBVIOUS
<1>3. NothingReplacedInUse /\ ThreadsHaveWhatTheyUse /\ PointedQueueLives
  OBVIOUS
<1>4. QED
  BY <1>1, <1>2, <1>3

-----------------------------------------------------------------------------
\* A producer that begins points to its own queue, which is there; one that ends
\* by itself is of no direct camera, so that the pointer is not its own.
LEMMA ProducerStepInductive ==
  ASSUME IInv, (\E s \in Direct : Produce(s)) \/ (\E s \in Streams : ProducerEnds(s))
  PROVE  IInv'
<1> USE DEF IInv, TypeOK, Serving, Starting, Stopping, Controlled, Fresh, Booted, Fed, NothingReplacedInUse,
           ThreadsHaveWhatTheyUse, PointedQueueLives, ThreadState, Exists, Paused,
           Runs, requestVars, instanceVars, streamVars, threadVars, serverVars,
           cameraVars, On
<1>1. ASSUME NEW s \in Direct, Produce(s) PROVE IInv'
  BY <1>1, ControlAssumption DEF Produce, Cameras!Produce, Cameras!PushedOn
<1>2. ASSUME NEW s \in Streams, ProducerEnds(s) PROVE IInv'
  BY <1>2, ControlAssumption DEF ProducerEnds, Cameras!PushedOn
<1>3. QED
  BY <1>1, <1>2

\* A start works on the one stream whose consumer it has stopped, and makes the
\* objects of the stream before the threads.
LEMMA StartInductive ==
  ASSUME IInv, (\E a \in Analytics : BeginStart(a)) \/ StartSteps
  PROVE  IInv'
<1> USE DEF IInv, TypeOK, Serving, Starting, Stopping, Controlled, Fresh, Booted, Fed, NothingReplacedInUse,
           ThreadsHaveWhatTheyUse, PointedQueueLives, ThreadState, Exists, Paused,
           requestVars, instanceVars, streamVars, threadVars, serverVars, cameraVars,
           On, At, Goto, Cameras!PushedOn
<1>1. ASSUME NEW a \in Analytics, BeginStart(a) PROVE IInv'
  BY <1>1, ControlAssumption DEF BeginStart
<1>9. CASE Started
  <2>1. TypeOK'
    <3>1. Inputs[subject] \subseteq Streams /\ Inputs[subject] \ Inputs[subject] = {}
      BY ControlAssumption
    <3>2. QED
      BY <1>9, <3>1 DEF Started, Replaced, Runs
  <2>2. Serving' /\ Starting' /\ Stopping' /\ Controlled' /\ Fresh' /\ Booted' /\ Fed'
    BY <1>9, ControlAssumption DEF Started, Replaced, Runs
  <2>3. NothingReplacedInUse' /\ ThreadsHaveWhatTheyUse' /\ PointedQueueLives'
    BY <1>9 DEF Started, Replaced, Runs
  <2>4. QED
    BY <2>1, <2>2, <2>3
<1>10. CASE StartRefused
  BY <1>10 DEF StartRefused
<1>2. ASSUME NEW s \in Streams, PauseForStart(s) PROVE IInv'
  BY <1>2 DEF PauseForStart, StopConsumer
<1>3. CASE Attach
  BY <1>3 DEF Attach
<1>4. CASE Connect
  BY <1>4 DEF Connect
<1>5. CASE ConnectFails
  BY <1>5 DEF ConnectFails
<1>6. CASE StartThreads
  BY <1>6 DEF StartThreads, StartConsumer
<1>7. CASE FinishStart
  BY <1>7 DEF FinishStart
<1>8. QED
  BY <1>1, <1>2, <1>3, <1>4, <1>5, <1>6, <1>7, <1>9, <1>10 DEF StartSteps

\* The objects of a stream go with its last destination, and its producer with
\* them; else its consumer is resumed.
LEMMA StopInductive ==
  ASSUME IInv, (\E a \in Analytics : BeginStop(a)) \/ StopSteps
  PROVE  IInv'
<1> USE DEF IInv, TypeOK, Serving, Starting, Stopping, Controlled, Fresh, Booted, Fed, NothingReplacedInUse,
           ThreadsHaveWhatTheyUse, PointedQueueLives, ThreadState, Exists, Paused,
           requestVars, instanceVars, streamVars, threadVars, serverVars, cameraVars,
           On, At, Goto, Following, Cameras!PushedOn
<1>1. ASSUME NEW a \in Analytics, BeginStop(a) PROVE IInv'
  BY <1>1, ControlAssumption DEF BeginStop
<1>2. ASSUME NEW s \in Streams, PauseForStop(s) PROVE IInv'
  BY <1>2 DEF PauseForStop, StopConsumer
<1>3. CASE Detach /\ dest'[stream] = {}
  BY <1>3 DEF Detach
<1>4. CASE Detach /\ dest'[stream] # {}
  BY <1>4 DEF Detach, StartConsumer
<1>5. CASE RemoveProducer
  BY <1>5 DEF RemoveProducer, StopProducers, Cameras!Interrupted
<1>6. CASE DeleteVmsConnector
  BY <1>6 DEF DeleteVmsConnector
<1>7. CASE DeleteQueue
  BY <1>7 DEF DeleteQueue
<1>8. CASE RemoveRouter
  BY <1>8 DEF RemoveRouter
<1>9. CASE Stopped
  BY <1>9 DEF Stopped
<1>10. QED
  BY <1>1, <1>2, <1>3, <1>4, <1>5, <1>6, <1>7, <1>8, <1>9 DEF StopSteps

\* startServer: a stream it has not dealt with has no thread it could replace,
\* unless an earlier one failed halfway.
LEMMA BootInductive ==
  ASSUME IInv, BeginServerStart \/ BootSteps
  PROVE  IInv'
<1> USE DEF IInv, TypeOK, Serving, Starting, Stopping, Controlled, Fresh, Booted, Fed, NothingReplacedInUse,
           ThreadsHaveWhatTheyUse, PointedQueueLives, ThreadState, Exists, Paused,
           requestVars, instanceVars, streamVars, threadVars, serverVars, cameraVars,
           On, At, Goto, Cameras!PushedOn
<1>1. CASE BeginServerStart
  BY <1>1, ControlAssumption DEF BeginServerStart
<1>2. ASSUME NEW s \in Streams, BootStream(s) PROVE IInv'
  <2>1. CASE dest'[s] # {} /\ BootThreads(s)
    <3>1. TypeOK' /\ Serving' /\ Starting' /\ Stopping' /\ Controlled' /\ Fresh' /\ Booted'
      BY <1>2, <2>1 DEF BootStream, BootThreads, Runs
    <3>2. Fed'
      <4> USE <1>2, <2>1 DEF BootStream, BootThreads
      <4>1. \A a \in Analytics : Exists(routers'[a]) \/ lists'[a] # {} => a \in known'
        OBVIOUS
      <4>2. \A t \in Streams : dest'[t] # {} => t \in queues' \cap multicast'
        OBVIOUS
      <4>3. \A t \in Streams : Exists(producers'[t]) =>
              t \in connectors' /\ dest'[t] # {} /\ Exists(consumers'[t])
        OBVIOUS
      <4>4. \A t \in Streams, a \in known' : t \in lists'[a] => Exists(producers'[t])
        OBVIOUS
      <4>5. QED
        BY <4>1, <4>2, <4>3, <4>4
    <3>3. NothingReplacedInUse' /\ ThreadsHaveWhatTheyUse' /\ PointedQueueLives'
      BY <1>2, <2>1 DEF BootStream, BootThreads, Runs
    <3>4. QED
      BY <3>1, <3>2, <3>3
  <2>2. CASE dest'[s] # {} /\ BootNoConnector(s)
    BY <1>2, <2>2 DEF BootStream, BootNoConnector, Runs, Replaced
  <2>3. CASE dest'[s] = {} /\ BootNoDestination(s)
    <3>1. TypeOK' /\ Serving' /\ Starting' /\ Stopping' /\ Controlled' /\ Fresh' /\ Booted'
      BY <1>2, <2>3 DEF BootStream, BootNoDestination, Runs, Replaced
    <3>2. Fed'
      <4>1. dest[s] = {} /\ ~ Exists(producers[s])
        <5>1. dest[s] \subseteq dest'[s]
          BY <1>2 DEF BootStream
        <5>2. QED
          BY <1>2, <2>3, <5>1 DEF BootStream
      <4>2. QED
        BY <4>1, <1>2, <2>3 DEF BootStream, BootNoDestination, Runs, Replaced
    <3>3. NothingReplacedInUse' /\ ThreadsHaveWhatTheyUse' /\ PointedQueueLives'
      BY <1>2, <2>3 DEF BootStream, BootNoDestination, Runs, Replaced
    <3>4. QED
      BY <3>1, <3>2, <3>3
  <2>4. QED
    BY <1>2, <2>1, <2>2, <2>3 DEF BootStream
<1>3. CASE BootFails
  BY <1>3 DEF BootFails
<1>4. CASE FinishServerStart
  BY <1>4 DEF FinishServerStart
<1>5. QED
  BY <1>1, <1>2, <1>3, <1>4 DEF BootSteps

\* The threads end before the objects they use go.
LEMMA EndInductive ==
  ASSUME IInv, BeginClear \/ ClearSteps \/ ServerEnds
  PROVE  IInv'
<1> USE DEF IInv, TypeOK, Serving, Starting, Stopping, Controlled, Fresh, Booted, Fed, NothingReplacedInUse,
           ThreadsHaveWhatTheyUse, PointedQueueLives, ThreadState, Exists, Paused,
           requestVars, instanceVars, streamVars, threadVars, serverVars, cameraVars,
           On, At, Goto, Cameras!PushedOn, EmptyModel, NoThreads, NoDestinations
<1>1. CASE ClearThreads
  BY <1>1, ControlAssumption
     DEF ClearThreads, StopAllThreads, StopProducers, Cameras!Interrupted
<1>2. CASE ClearRest
  BY <1>2, ControlAssumption DEF ClearRest
<1>3. CASE ServerEnds
  BY <1>3, ControlAssumption DEF ServerEnds, Cameras!Unload
<1>4. CASE BeginClear
  BY <1>4 DEF BeginClear
<1>5. QED
  BY <1>1, <1>2, <1>3, <1>4 DEF ClearSteps

\* Every step keeps the invariant.
LEMMA StepInductive == IInv /\ [Next]_vars => IInv'
<1> SUFFICES ASSUME IInv, [Next]_vars PROVE IInv'
  OBVIOUS
<1>1. CASE Requests
  BY <1>1, StartInductive, StopInductive, BootInductive, EndInductive DEF Requests
<1>2. CASE Steps
  BY <1>2, StartInductive, StopInductive, BootInductive, EndInductive DEF Steps
<1>3. CASE ServerEnds
  BY <1>3, EndInductive
<1>4. CASE (\E s \in Direct : Produce(s)) \/ (\E s \in Streams : ProducerEnds(s))
  BY <1>4, ProducerStepInductive
<1>5. CASE UNCHANGED vars
  BY <1>5
     DEF vars, requestVars, instanceVars, streamVars, threadVars, serverVars, cameraVars,
         IInv, TypeOK, Serving, Starting, Stopping, Controlled, Fresh, Booted, Fed, Paused, On, Exists,
         NothingReplacedInUse, ThreadsHaveWhatTheyUse, PointedQueueLives,
         Cameras!PushedOn
<1>6. QED
  BY <1>1, <1>2, <1>3, <1>4, <1>5 DEF Next

\* The invariant holds in every state of the server.
THEOREM ControlInvariant == Spec => []IInv
BY InitInductive, StepInductive, PTL DEF Spec

\* The variables keep their types, and a start has listed the streams it has
\* dealt with and no others.
THEOREM ControlTypeCorrect == Spec => []TypeOK
<1>1. IInv => TypeOK
  BY DEF IInv
<1>2. QED
  BY <1>1, ControlInvariant, PTL

\* NothingReplacedInUse: until a startServer fails halfway, no thread is lost
\* and none works on an object that the model has replaced.
THEOREM NothingIsReplacedInUse == Spec => []NothingReplacedInUse
<1>1. IInv => NothingReplacedInUse
  BY DEF IInv
<1>2. QED
  BY <1>1, ControlInvariant, PTL

\* ThreadsHaveWhatTheyUse: stopAnalytic, clear and the failed starts delete no
\* queue, connector or destinations under a thread of the model's maps, and no
\* flow controller, but for the destination that a failed start left behind.
THEOREM ThreadsAlwaysHaveWhatTheyUse == Spec => []ThreadsHaveWhatTheyUse
<1>1. IInv => ThreadsHaveWhatTheyUse
  BY DEF IInv
<1>2. QED
  BY <1>1, ControlInvariant, PTL

\* PointedQueueLives: the queue pointer the connectors of direct cameras share
\* never outlives the queue.
THEOREM PointedQueueAlwaysLives == Spec => []PointedQueueLives
<1>1. IInv => PointedQueueLives
  BY DEF IInv
<1>2. QED
  BY <1>1, ControlInvariant, PTL

\* ProducersAreConsumed: between requests a stream with a producer has a
\* destination and a consumer, also after a startServer that failed halfway.
THEOREM ProducersAreAlwaysConsumed == Spec => []ProducersAreConsumed
<1>1. IInv => ProducersAreConsumed
  BY DEF IInv, Fed, Paused, ProducersAreConsumed, Idle
<1>2. QED
  BY <1>1, ControlInvariant, PTL

\* DestinationIsFed: between requests an instance that lists a stream and is a
\* destination of it has its producer and consumer, whichever others stopped.
THEOREM DestinationsAreFed == Spec => []DestinationIsFed
<1>1. IInv => DestinationIsFed
  BY DEF IInv, Fed, Paused, DestinationIsFed, Idle, TypeOK
<1>2. QED
  BY <1>1, ControlInvariant, PTL

\* StartedIsServed: a start that is answered with success leaves the instance
\* with the threads of every one of its streams and a router that works.
THEOREM StartedAreServed == Spec => StartedIsServed
<1>1. IInv =>
        [FinishStart =>
           /\ routers[subject] = "current" /\ lists[subject] = Inputs[subject]
           /\ \A s \in Inputs[subject] :
                subject \in dest[s] /\ Exists(consumers[s]) /\ Exists(producers[s])]_vars
  <2> SUFFICES ASSUME IInv, FinishStart
               PROVE  /\ routers[subject] = "current" /\ lists[subject] = Inputs[subject]
                      /\ \A s \in Inputs[subject] :
                           subject \in dest[s] /\ Exists(consumers[s]) /\ Exists(producers[s])
    OBVIOUS
  <2>1. op = "starting" /\ stage = "next" /\ todo = {}
    BY DEF FinishStart, At
  <2>2. Inputs[subject] \subseteq Streams /\ Inputs[subject] # {}
    <3>1. Inputs[subject] \in (SUBSET Streams) \ {{}}
      BY ControlAssumption DEF IInv, TypeOK
    <3>2. QED
      BY <3>1
  <2>3. lists[subject] = Inputs[subject]
    BY <2>1 DEF IInv, TypeOK
  <2>4. routers[subject] = "current" /\ subject \in known
    BY <2>1, <2>2 DEF IInv, Starting
  <2>5. \A s \in Inputs[subject] : subject \in dest[s] /\ Exists(producers[s])
    BY <2>1, <2>2, <2>3, <2>4 DEF IInv, Starting, Fed
  <2>6. \A s \in Inputs[subject] : Exists(consumers[s])
    BY <2>1, <2>2, <2>5 DEF IInv, Fed, Paused
  <2>7. QED
    BY <2>3, <2>4, <2>5, <2>6
<1>2. QED
  BY <1>1, ControlInvariant, PTL DEF StartedIsServed

\* DestinationsChangeWhilePaused: while instances start and stop, the list of
\* destinations that a consumer copies without the lock does not change.
THEOREM DestinationsAreChangedWhilePaused == Spec => DestinationsChangeWhilePaused
<1>1. IInv /\ [Next]_vars =>
        [op # "booting" =>
           \A s \in Streams :
             Exists(consumers[s]) /\ Exists(consumers[s])' => dest'[s] = dest[s]]_vars
  <2> SUFFICES ASSUME IInv, Next, op # "booting", NEW s \in Streams,
                      Exists(consumers[s]), Exists(consumers[s])', vars' # vars
               PROVE  dest'[s] = dest[s]
    OBVIOUS
  <2> USE DEF At, requestVars, instanceVars, streamVars, threadVars, serverVars
  <2>1. CASE Requests
    <3>1. UNCHANGED streamVars
      BY <2>1 DEF Requests, BeginStart, BeginStop, BeginServerStart, BeginClear
    <3>2. QED
      BY <3>1
  <2>2. CASE Attach \/ Detach
    <3>1. ~ Paused(s)
      BY DEF IInv, Serving
    <3>2. QED
      BY <2>2, <3>1 DEF Attach, Detach, Paused, IInv, TypeOK
  <2>3. CASE StartSteps \/ StopSteps
    BY <2>2, <2>3
       DEF StartSteps, StopSteps, Started, StartRefused, PauseForStart, Connect,
           ConnectFails, StartThreads, FinishStart, PauseForStop, RemoveProducer,
           DeleteVmsConnector, DeleteQueue, RemoveRouter, Stopped
  <2>4. CASE BootSteps
    BY <2>4 DEF BootSteps, BootStream, BootFails, FinishServerStart
  <2>5. CASE ClearSteps \/ ServerEnds
    BY <2>5 DEF ClearSteps, ClearThreads, ClearRest, ServerEnds, IInv, Serving, Exists,
       NoThreads
  <2>6. CASE (\E t \in Direct : Produce(t)) \/ (\E t \in Streams : ProducerEnds(t))
    BY <2>6 DEF Produce, ProducerEnds
  <2>7. QED
    BY <2>1, <2>2, <2>3, <2>4, <2>5, <2>6 DEF Next, Steps
<1>2. QED
  BY <1>1, ControlInvariant, PTL DEF Spec, DestinationsChangeWhilePaused

(***************************************************************************)
(* ServerStarter, for any number of forks and any length of the stop loop. *)
(* StoppedIsTrue speaks of an idle starter only, and is not inductive: a   *)
(* stop or restart begins with the status it finds, and only between a     *)
(* fork and its check may a status of STOPPED be false.                    *)
(***************************************************************************)
StoppedHolds == serverStatus = "STOPPED" /\ request # "check" => InUse \subseteq orphans

StarterIInv == StarterTypeOK /\ NoServerLost /\ StoppedHolds

\* A child that changes its state, and does not come to life by it, leaves the
\* others as they are.
LEMMA BecomesKeeps ==
  ASSUME StarterTypeOK, NEW i \in DOMAIN children, NEW state \in Child, Becomes(i, state),
         state \in Alive \ {"killed"} => i \in InUse
  PROVE  /\ children' \in Seq(Child)
         /\ Len(children') = Len(children)
         /\ InUse' \subseteq InUse
         /\ state \notin Alive \ {"killed"} => InUse' = InUse \ {i}
<1>1. children' \in Seq(Child) /\ Len(children') = Len(children)
  BY DEF StarterTypeOK, Becomes
<1>2. DOMAIN children' = DOMAIN children
  BY <1>1 DEF StarterTypeOK
<1>3. \A j \in DOMAIN children : children'[j] = IF j = i THEN state ELSE children[j]
  BY DEF StarterTypeOK, Becomes
<1>4. QED
  BY <1>1, <1>2, <1>3 DEF InUse

\* The three outcomes of waitpid on the child the starter knows.
LEMMA WaitKeeps ==
  ASSUME StarterTypeOK, pid > 0, WaitAlive \/ WaitReaps \/ WaitFails
  PROVE  /\ children' \in Seq(Child)
         /\ Len(children') = Len(children)
         /\ InUse' \subseteq InUse
         /\ WaitReaps \/ WaitFails => InUse' \subseteq InUse \ {pid}
<1>1. pid \in DOMAIN children
  BY DEF StarterTypeOK
<1>2. CASE WaitReaps
  BY <1>1, <1>2, BecomesKeeps DEF WaitReaps, Child, Alive
<1>3. CASE WaitAlive \/ WaitFails
  BY <1>1, <1>3 DEF WaitAlive, WaitFails, WaitReaps, InUse, StarterTypeOK, Alive
<1>4. QED
  BY <1>2, <1>3

\* The starter begins with no child.
LEMMA StarterInitInductive == StarterInit => StarterIInv
BY StarterAssumption
   DEF StarterInit, StarterIInv, StarterTypeOK, NoServerLost, StoppedHolds, InUse, Child

\* No child comes to life but by the starter's fork.
LEMMA ChildInductive == StarterIInv /\ ChildStep => StarterIInv'
<1> SUFFICES ASSUME StarterIInv, ChildStep PROVE StarterIInv'
  OBVIOUS
<1>1. PICK i \in DOMAIN children : Exec(i) \/ Exits(i)
  BY DEF ChildStep
<1>2. PICK state \in Child : Becomes(i, state) /\ (state \in Alive \ {"killed"} => i \in InUse)
  BY <1>1 DEF Exec, Exits, Child, Alive, InUse
<1>3. /\ children' \in Seq(Child) /\ Len(children') = Len(children)
      /\ InUse' \subseteq InUse
  BY <1>2, BecomesKeeps DEF StarterIInv
<1>4. QED
  BY <1>3 DEF StarterIInv, StarterTypeOK, NoServerLost, StoppedHolds, ChildStep

\* A fork, which needs a status of STOPPED, finds no child of this starter in
\* use.
LEMMA ForkInductive ==
  ASSUME StarterIInv, TakeStart \/ Fork \/ ForkFails \/ RefuseStart \/ CheckStart
  PROVE  StarterIInv'
<1> USE DEF StarterIInv, StarterTypeOK, NoServerLost, StoppedHolds
<1>1. CASE TakeStart \/ ForkFails \/ RefuseStart
  BY <1>1 DEF TakeStart, ForkFails, RefuseStart, Listening, SendErrorReply, Answer, InUse
<1>2. CASE Fork
  <2>1. /\ children' \in Seq(Child) /\ Len(children') = Len(children) + 1
        /\ Len(children') <= MaxForks
    BY <1>2, StarterAssumption DEF Fork, Child
  <2>2. \A j \in DOMAIN children : children'[j] = children[j]
    BY <1>2 DEF Fork
  <2>3. DOMAIN children' = DOMAIN children \cup {Len(children) + 1}
    BY <2>1
  <2>4. InUse \subseteq orphans
    BY <1>2 DEF Fork
  <2>5. InUse' \subseteq orphans \cup {Len(children) + 1}
    BY <2>2, <2>3, <2>4 DEF InUse
  <2>6. QED
    BY <1>2, <2>1, <2>5 DEF Fork
<1>3. CASE CheckStart
  <2>1. pid > 0 /\ (WaitAlive \/ WaitReaps)
    BY <1>3 DEF CheckStart
  <2>2. /\ children' \in Seq(Child) /\ Len(children') = Len(children)
        /\ InUse' \subseteq InUse
        /\ WaitReaps => InUse' \subseteq InUse \ {pid}
    BY <2>1, WaitKeeps
  <2>3. QED
    BY <1>3, <2>2 DEF CheckStart, SendErrorReply, Answer
<1>4. QED
  BY <1>1, <1>2, <1>3

\* When stop returns no child of this starter is in use, however it came to
\* return.
LEMMA StopEndsServer ==
  ASSUME StarterIInv, Died \/ Kill
  PROVE  /\ children' \in Seq(Child) /\ Len(children') = Len(children)
         /\ InUse' \subseteq orphans
<1> USE DEF StarterIInv, StarterTypeOK, NoServerLost
<1>1. CASE Died /\ pid = 0
  BY <1>1 DEF Died, InUse
<1>2. CASE Died /\ pid > 0
  <2>1. WaitFails
    BY <1>2 DEF Died
  <2>2. QED
    BY <1>2, <2>1, WaitKeeps
<1>3. CASE Kill /\ children[pid] \in Alive
  <2>1. Becomes(pid, "killed") /\ pid \in DOMAIN children
    BY <1>3 DEF Kill
  <2>2. QED
    BY <2>1, BecomesKeeps DEF Child, Alive
<1>4. CASE Kill /\ children[pid] \notin Alive
  BY <1>4 DEF Kill, InUse
<1>5. QED
  BY <1>1, <1>2, <1>3, <1>4

\* The loop of stop only waits; its end leaves no child of this starter in use.
LEMMA StopLoopInductive ==
  ASSUME StarterIInv,
         (\E o \in {"stop", "restart"} : TakeStop(o)) \/ Wait \/ Died \/ Kill
  PROVE  StarterIInv'
<1> USE DEF StarterIInv, StarterTypeOK, NoServerLost, StoppedHolds
<1>1. ASSUME NEW o \in {"stop", "restart"}, TakeStop(o) PROVE StarterIInv'
  BY <1>1, StarterAssumption DEF TakeStop, Listening, InUse
<1>2. CASE Wait
  <2>1. /\ children' \in Seq(Child) /\ Len(children') = Len(children)
        /\ InUse' \subseteq InUse
    BY <1>2, WaitKeeps DEF Wait
  <2>2. QED
    BY <1>2, <2>1, StarterAssumption DEF Wait
<1>3. CASE Died \/ Kill
  <2>1. /\ children' \in Seq(Child) /\ Len(children') = Len(children)
        /\ InUse' \subseteq orphans
    BY <1>3, StopEndsServer
  <2>2. /\ pid' = 0 /\ tries' = tries /\ orphans' = orphans
        /\ \/ request' = "idle" /\ reply' = "StopReply" /\ serverStatus' = "STOPPED"
           \/ request' = "start" /\ reply' = reply /\ serverStatus' = serverStatus
    BY <1>3 DEF Died, Kill, StopReturns, Answer
  <2>3. StarterTypeOK'
    BY <2>1, <2>2 DEF StarterTypeOK
  <2>4. QED
    BY <2>1, <2>2, <2>3
<1>4. QED
  BY <1>1, <1>2, <1>3

\* A status request writes STOPPED only when waitpid has no child to give.
LEMMA StatusInductive == ASSUME StarterIInv, Status PROVE StarterIInv'
<1> USE DEF StarterIInv, StarterTypeOK, NoServerLost, StoppedHolds
<1>1. CASE pid = 0
  BY <1>1 DEF Status, Answer, InUse
<1>2. CASE pid > 0
  <2>1. /\ children' \in Seq(Child) /\ Len(children') = Len(children)
        /\ InUse' \subseteq InUse
        /\ WaitReaps \/ WaitFails => InUse' \subseteq InUse \ {pid}
    BY <1>2, WaitKeeps DEF Status
  <2>2. QED
    BY <1>2, <2>1 DEF Status, Answer
<1>3. QED
  BY <1>1, <1>2

\* The children of a starter that ends are orphans, all of them.
LEMMA ExitInductive == ASSUME StarterIInv, Exit PROVE StarterIInv'
BY StarterAssumption DEF StarterIInv, StarterTypeOK, NoServerLost, StoppedHolds, Exit, InUse

\* A request that is refused changes nothing but the reply.
LEMMA RejectInductive == ASSUME StarterIInv, RejectRequest PROVE StarterIInv'
BY DEF StarterIInv, StarterTypeOK, NoServerLost, StoppedHolds, RejectRequest, Listening,
       SendErrorReply, Answer, InUse

\* StarterIInv is inductive.
LEMMA StarterNextInductive == StarterIInv /\ [StarterNext]_starterVars => StarterIInv'
<1>1. StarterIInv /\ UNCHANGED starterVars => StarterIInv'
  BY DEF StarterIInv, StarterTypeOK, NoServerLost, StoppedHolds, InUse, starterVars
<1>2. QED
  BY <1>1, ChildInductive, ForkInductive, StopLoopInductive, StatusInductive,
     ExitInductive, RejectInductive
     DEF StarterNext, StarterRequests, StarterSteps

\* StarterIInv holds in every reachable state, whatever the children do.
THEOREM StarterInvariant == StarterSpec => []StarterIInv
BY StarterInitInductive, StarterNextInductive, PTL DEF StarterSpec

\* The starter's variables keep their types, the bound of the stop loop included.
THEOREM StarterTypeCorrect == StarterSpec => []StarterTypeOK
<1>1. StarterIInv => StarterTypeOK
  BY DEF StarterIInv
<1>2. QED
  BY <1>1, StarterInvariant, PTL

\* There is never a server that the starter forked and does not hold the pid of.
THEOREM NoServerIsLost == StarterSpec => []NoServerLost
<1>1. StarterIInv => NoServerLost
  BY DEF StarterIInv
<1>2. QED
  BY <1>1, StarterInvariant, PTL

\* A start that goes by a status of STOPPED starts the only server of this starter.
THEOREM StoppedHoldsTrue == StarterSpec => []StoppedIsTrue
<1>1. StarterIInv => StoppedIsTrue
  BY DEF StarterIInv, StoppedHolds, StoppedIsTrue, Listening, Message
<1>2. QED
  BY <1>1, StarterInvariant, PTL
=============================================================================
