-------------------------- MODULE InstanceControl ---------------------------
(***************************************************************************)
(* How analytic instances are configured and run: the web interface edits  *)
(* their rows in the database and asks the OpenCCTV Server to start and    *)
(* stop them; the server starts and stops them, reads the rows when it     *)
(* starts itself, and writes their status column, by which the web         *)
(* interface allows or refuses edits.                                      *)
(*                                                                         *)
(* The web interface serves one request of a user at a time, as Rails does *)
(* with Rack::Lock in the development environment, the one it is run in.   *)
(* It waits at most ten seconds for a reply.  A request it gave up may     *)
(* still be with the server, which serves its clients fairly, so in no     *)
(* particular order, and one at a time.                                    *)
(***************************************************************************)
EXTENDS EventMessages, Integers, FiniteSets

CONSTANTS
  Analytics, Instances, Inputs, Streams,
  InputOf,        \* of an input: the analytic it belongs to
  None,
  MaxLate,        \* bound: requests given up and not finished
  MaxDbFailures   \* bound: dbFailures

Pairs == Inputs \X Streams

\* What the web interface may ask of the server.
Requests ==
  {StartAnalyticInstance(i, a, inputs) : i \in Instances, a \in Analytics, inputs \in SUBSET Pairs}
    \cup {StopAnalyticInstance(i) : i \in Instances}
    \cup {StopAnalyticInstances(a, ids) : a \in Analytics, ids \in SUBSET Instances}
    \cup {ServerRequest(command) : command \in ServerEvents}

ASSUME InstanceAssumption ==
  /\ InputOf \in [Inputs -> Analytics]
  /\ MaxLate \in Nat /\ MaxDbFailures \in Nat
  /\ None \notin Analytics \cup Streams \cup Inputs \cup Instances \cup Requests

VARIABLES
  \* the database
  analyticRow,    \* "new", "verified", "unverified" or "gone"
  inputRows,      \* analytic_input_streams
  row,            \* analytic_instances: "new", "live" or "gone"
  analyticOf,     \* their analytic_id, None where there is no row
  status,         \* their status column, "Stopped" where there is no row
  config,         \* analytic_instance_streams: stream per instance and input
  \* the web interface
  webStage,       \* "idle", "sent", "served", "lost", "replied"
  webRequest, webReply,
  late,           \* slots with its requests that it gave up and the server
                  \* has not received, or None
  \* the OpenCCTV Server
  alive,
  serverStatus,
  known,          \* ApplicationModel: analytic instances,
  lists,          \*   their lists of streams,
  launched,       \*   those with an input queue address,
  dest,           \*   and the destinations: input name per stream and instance
  stage, request, \* what executeOperation is doing
  current, todo,
  errors,
  \* bookkeeping
  dbFailures,     \* failed statements since all rows were true
  touched         \* instances edited, or stopped to be destroyed, while the
                  \* server had a request that was given up

db == <<analyticRow, inputRows, row, analyticOf, status, config>>
web == <<webStage, webRequest, webReply>>
model == <<serverStatus, known, lists, launched, dest>>
operation == <<stage, request, current, todo, errors>>
vars == <<db, web, late, alive, model, operation, dbFailures, touched>>

Configured(i) == {p \in Pairs : config[i][p[1]] = p[2]}

NoConfig == [n \in Inputs |-> None]

Nowhere == [s \in Streams |-> [i \in Instances |-> None]]

Live == {i \in Instances : row[i] = "live"}

InstancesOf(a) == {i \in Live : analyticOf[i] = a}

Listening == stage = "listen"

Slots == 1 .. MaxLate

Waiting == {late[k] : k \in Slots} \ {None}

\* No request of the web interface is with the server.
Quiet == Waiting = {} /\ Listening

TypeOK ==
  /\ analyticRow \in [Analytics -> {"new", "verified", "unverified", "gone"}]
  /\ inputRows \subseteq Inputs
  /\ row \in [Instances -> {"new", "live", "gone"}]
  /\ analyticOf \in [Instances -> Analytics \cup {None}]
  /\ status \in [Instances -> {"Started", "Stopped"}]
  /\ config \in [Instances -> [Inputs -> Streams \cup {None}]]
  /\ webStage \in {"idle", "sent", "served", "lost", "replied"}
  /\ webRequest \in Requests \cup {None} /\ late \in [Slots -> Requests \cup {None}]
  /\ serverStatus \in {"Started", "Stopped"} /\ alive \in BOOLEAN
  /\ known \subseteq Instances /\ launched \subseteq Instances
  /\ lists \in [Instances -> SUBSET Streams]
  /\ dest \in [Streams -> [Instances -> Inputs \cup {None}]]
  /\ stage \in {"listen", "started", "stopped", "stop next", "restart", "boot"}
  /\ request \in Requests \cup {None}
  /\ current \in Instances \cup {None}
  /\ todo \subseteq Instances \cup Streams /\ errors \in BOOLEAN
  /\ dbFailures \in 0 .. MaxDbFailures
  /\ touched \subseteq Instances

Init ==
  /\ analyticRow = [a \in Analytics |-> "new"] /\ inputRows = {}
  /\ row = [i \in Instances |-> "new"] /\ analyticOf = [i \in Instances |-> None]
  /\ status = [i \in Instances |-> "Stopped"]
  /\ config = [i \in Instances |-> NoConfig]
  /\ webStage = "idle" /\ webRequest = None /\ webReply = None
  /\ late = [k \in Slots |-> None]
  /\ alive = TRUE /\ serverStatus = "Stopped" /\ known = {} /\ launched = {}
  /\ lists = [i \in Instances |-> {}] /\ dest = Nowhere
  /\ stage = "listen" /\ request = None /\ current = None /\ todo = {}
  /\ errors = FALSE /\ dbFailures = 0 /\ touched = {}

(***************************************************************************)
(* The web interface: the rows.  Each of these is one request of a user.   *)
(***************************************************************************)

Idle == webStage = "idle"

Rest == UNCHANGED <<web, late, alive, model, operation, dbFailures>>

Touch(S) == touched' = IF Quiet THEN touched ELSE touched \cup S

\* The rows of the instances in S go, and their streams with them.
DestroyRows(S) ==
  /\ row' = [i \in Instances |-> IF i \in S THEN "gone" ELSE row[i]]
  /\ analyticOf' = [i \in Instances |-> IF i \in S THEN None ELSE analyticOf[i]]
  /\ status' = [i \in Instances |-> IF i \in S THEN "Stopped" ELSE status[i]]
  /\ Touch(S)

\* The inputs of an analytic go with it, and with each the streams of every
\* instance for it, also of an instance that was given another analytic.
DestroyAnalyticRows(a) ==
  /\ analyticRow' = [analyticRow EXCEPT ![a] = "gone"]
  /\ inputRows' = {n \in inputRows : InputOf[n] # a}
  /\ config' = [i \in Instances |-> [n \in Inputs |->
                   IF i \in InstancesOf(a) \/ InputOf[n] = a THEN None ELSE config[i][n]]]
  /\ DestroyRows(InstancesOf(a))

\* The archive is unpacked and tried; what inputs it names is stored even
\* when it is not verified.
CreateAnalytic(a) ==
  /\ Idle /\ analyticRow[a] = "new"
  /\ \E verified \in BOOLEAN, names \in SUBSET {n \in Inputs : InputOf[n] = a} :
       /\ analyticRow' = [analyticRow EXCEPT ![a] =
                            IF verified THEN "verified" ELSE "unverified"]
       /\ inputRows' = inputRows \cup names
  /\ Rest /\ UNCHANGED <<row, analyticOf, status, config, touched>>

CreateInput(n) ==
  /\ Idle /\ analyticRow[InputOf[n]] \in {"verified", "unverified"}
  /\ inputRows' = inputRows \cup {n}
  /\ Rest /\ UNCHANGED <<analyticRow, row, analyticOf, status, config, touched>>

\* An input that an instance uses is neither destroyed nor edited.
DestroyInput(n) ==
  /\ Idle /\ n \in inputRows
  /\ \A i \in Instances : config[i][n] = None
  /\ inputRows' = inputRows \ {n}
  /\ Rest /\ UNCHANGED <<analyticRow, row, analyticOf, status, config, touched>>

\* The form offers verified analytics.
CreateInstance(i, a) ==
  /\ Idle /\ row[i] = "new" /\ analyticRow[a] = "verified"
  /\ row' = [row EXCEPT ![i] = "live"] /\ analyticOf' = [analyticOf EXCEPT ![i] = a]
  /\ status' = [status EXCEPT ![i] = "Stopped"]
  /\ Rest /\ UNCHANGED <<analyticRow, inputRows, config, touched>>

\* Mutant: an instance is edited and destroyed whatever its status.
EditableAlways(i) == Idle /\ row[i] = "live"
Editable(i) == Idle /\ row[i] = "live" /\ status[i] = "Stopped"

\* The form that is shown again after an error lets the analytic be changed;
\* the streams configured for the inputs of the old one stay.
UpdateInstance(i, a) ==
  /\ Editable(i) /\ analyticRow[a] = "verified"
  /\ analyticOf' = [analyticOf EXCEPT ![i] = a]
  /\ Rest /\ UNCHANGED <<analyticRow, inputRows, row, status, config, touched>>

DestroyInstance(i) ==
  /\ Editable(i) /\ DestroyRows({i})
  /\ config' = [config EXCEPT ![i] = NoConfig]
  /\ Rest /\ UNCHANGED <<analyticRow, inputRows>>

Reconfigure(i, streams) ==
  /\ Editable(i)
  /\ config' = [config EXCEPT ![i] = streams]
  /\ Touch({i})
  /\ Rest /\ UNCHANGED <<analyticRow, inputRows, row, analyticOf, status>>

\* The form offers the inputs of the instance's analytic and every stream;
\* an input is configured once.
CreateInstanceStream(i, n, s) ==
  /\ n \in inputRows /\ InputOf[n] = analyticOf[i] /\ config[i][n] = None
  /\ Reconfigure(i, [config[i] EXCEPT ![n] = s])

UpdateInstanceStream(i, m, n, s) ==
  /\ config[i][m] # None
  /\ n \in inputRows /\ InputOf[n] = analyticOf[i]
  /\ n = m \/ config[i][n] = None
  /\ Reconfigure(i, [config[i] EXCEPT ![m] = None, ![n] = s])

DestroyInstanceStream(i, n) ==
  /\ config[i][n] # None
  /\ Reconfigure(i, [config[i] EXCEPT ![n] = None])

(***************************************************************************)
(* The web interface: requests to the server.                              *)
(***************************************************************************)

Send(m) ==
  /\ Idle /\ webStage' = "sent" /\ webRequest' = m
  /\ UNCHANGED <<db, webReply, late, alive, model, operation, dbFailures, touched>>

StartAnalytic(i) ==
  /\ i \in Live /\ Configured(i) # {}
  /\ Send(StartAnalyticInstance(i, analyticOf[i], Configured(i)))

StopAnalytic(i) == i \in Live /\ Send(StopAnalyticInstance(i))

ExecServerCmd(command) == Send(ServerRequest(command))

DestroyAnalytic(a) ==
  /\ Idle /\ analyticRow[a] \in {"verified", "unverified"}
  /\ IF InstancesOf(a) # {} THEN Send(StopAnalyticInstances(a, InstancesOf(a)))
     ELSE DestroyAnalyticRows(a) /\ Rest

\* Requests given up that the server has, or has in its queue.
GivenUp ==
  Cardinality({k \in Slots : late[k] # None})
    + IF Listening \/ webStage = "served" THEN 0 ELSE 1

\* recv_string timed out.  The request stays with a server that is there.
Timeout ==
  /\ webStage \in {"sent", "served", "lost"}
  /\ webStage' = "replied" /\ webReply' = None
  /\ IF webStage = "lost" \/ ~alive THEN UNCHANGED late
     ELSE /\ GivenUp < MaxLate
          /\ IF webStage = "sent"
             THEN \E k \in Slots : late[k] = None /\ late' = [late EXCEPT ![k] = webRequest]
             ELSE UNCHANGED late
  /\ UNCHANGED <<db, webRequest, alive, model, operation, dbFailures, touched>>

\* The action of the user goes on: an analytic is destroyed whatever the
\* reply says, but not when it cannot be parsed.
ReadReply ==
  /\ webStage = "replied"
  /\ webStage' = "idle" /\ webRequest' = None /\ webReply' = None
  /\ IF /\ webRequest.type = "StopAnalyticInstances"
        /\ webReply = None \/ Understands(webRequest, webReply)
     THEN DestroyAnalyticRows(webRequest.analyticid) ELSE UNCHANGED <<db, touched>>
  /\ UNCHANGED <<late, alive, model, operation, dbFailures>>

(***************************************************************************)
(* The server: executeOperation.                                           *)
(***************************************************************************)

\* The requests it may receive now, of one type.
Arrived(type) ==
  {m \in Waiting \cup (IF webStage = "sent" THEN {webRequest} ELSE {}) :
     alive /\ Listening /\ m.type = type}

\* m is taken off its queue, and the web interface, if it waits for m, goes
\* to the stage next with that reply.
Take(m, next, reply) ==
  \/ /\ webStage = "sent" /\ m = webRequest
     /\ webStage' = next /\ webReply' = reply /\ UNCHANGED <<webRequest, late>>
  \/ \E k \in Slots :
       late[k] = m /\ late' = [late EXCEPT ![k] = None] /\ UNCHANGED web

\* The instances that the web interface destroys after this request.
Doomed(m) == IF m.type = "StopAnalyticInstances" THEN m.analyticinstances ELSE {}

\* An operation on m that goes on begins, or one is over.
Begin(m, first) ==
  /\ Take(m, "served", None) /\ request' = m /\ stage' = first
  /\ UNCHANGED <<alive, touched>>

Over(m) ==
  /\ touched' = IF Waiting' = {} THEN touched \cap known' ELSE touched \cup Doomed(m)
  /\ UNCHANGED alive

\* sendReply, at once and at the end of a longer operation.
Reply(m, reply) == Take(m, "replied", reply) /\ UNCHANGED operation /\ Over(m)

Reset ==
  /\ stage' = "listen" /\ request' = None /\ current' = None
  /\ todo' = {} /\ errors' = FALSE

Answer(reply) ==
  /\ IF webStage = "served"
     THEN webStage' = "replied" /\ webReply' = reply /\ UNCHANGED webRequest
     ELSE UNCHANGED web
  /\ UNCHANGED late /\ Reset /\ Over(request)

Continue == UNCHANGED <<web, late, alive, touched>>

Same == UNCHANGED <<db, model, dbFailures>>

\* A statement is executed, or it throws.
DbFails == dbFailures < MaxDbFailures /\ dbFailures' = dbFailures + 1

SetStatus(S, x) ==
  /\ status' = [i \in Instances |-> IF i \in S \cap Live THEN x ELSE status[i]]
  /\ UNCHANGED <<analyticRow, inputRows, row, analyticOf, config>>

Write(S, x) == SetStatus(S, x) /\ UNCHANGED dbFailures

(***************************************************************************)
(* AnalyticEvent::startAnalytic.                                           *)
(***************************************************************************)

StartRefused ==
  \E m \in Arrived("StartAnalyticInstance") :
    /\ serverStatus = "Stopped" \/ ~ExtractsStart(m)
    /\ Same /\ Reply(m, InvalidReply(serverStatus))

Startable ==
  {m \in Arrived("StartAnalyticInstance") : serverStatus = "Started" /\ ExtractsStart(m)}

StartKnown ==
  \E m \in Startable :
    m.analyticinstanceid \in known /\ Same /\ Reply(m, AnalyticStartReply)

\* The streams S get instance i as a destination; a stream keeps one input
\* name per instance.
Attach(i, S, inputs) ==
  \E pick \in [S -> Inputs] :
    /\ \A s \in S : <<pick[s], s>> \in inputs
    /\ dest' = [s \in Streams |->
                  IF s \in S THEN [dest[s] EXCEPT ![i] = pick[s]] ELSE dest[s]]

StreamsIn(inputs) == {p[2] : p \in inputs}

\* The analytic process runs and every stream was attached.
StartLaunches ==
  \E m \in Startable :
    LET i == m.analyticinstanceid
    IN  /\ i \notin known
        /\ known' = known \cup {i} /\ launched' = launched \cup {i}
        /\ lists' = [lists EXCEPT ![i] = StreamsIn(m.inputstreams)]
        /\ Attach(i, StreamsIn(m.inputstreams), m.inputstreams)
        /\ current' = i /\ Begin(m, "started")
        /\ UNCHANGED <<db, serverStatus, todo, errors, dbFailures>>

\* The Analytic Server did not start the process.
StartFails ==
  \E m \in Startable :
    m.analyticinstanceid \notin known /\ Same /\ Reply(m, InvalidReply(serverStatus))

\* A stream failed: the streams finished before it are detached again by
\* stopAnalytic, which also writes the status; the destination on the stream
\* that failed stays.
StartReverts ==
  \E m \in Startable :
    LET i == m.analyticinstanceid
    IN  /\ i \notin known
        /\ \E p \in m.inputstreams, done \in SUBSET StreamsIn(m.inputstreams) :
             dest' = [s \in Streams |->
                        [dest[s] EXCEPT ![i] = IF s \in done THEN None
                                               ELSE IF s = p[2] THEN p[1] ELSE @]]
        /\ launched' = launched \ {i}
        /\ Write({i}, "Stopped") \/ (DbFails /\ UNCHANGED db)
        /\ UNCHANGED <<serverStatus, known, lists>>
        /\ Reply(m, InvalidReply(serverStatus))

RecordStarted ==
  /\ stage = "started"
  /\ UNCHANGED model
  /\ \/ Write({current}, "Started") /\ Answer(AnalyticStartReply)
     \/ DbFails /\ UNCHANGED db /\ Answer(InvalidReply(serverStatus))

(***************************************************************************)
(* AnalyticEvent::stopAnalytic and stopAnalytics.                          *)
(***************************************************************************)

StopRefused ==
  \E m \in Arrived("StopAnalyticInstance") \cup Arrived("StopAnalyticInstances") :
    /\ \/ serverStatus = "Stopped"
       \/ m.type = "StopAnalyticInstance" /\ ~ExtractsStop(m)
       \/ m.type = "StopAnalyticInstances" /\ ~ExtractsStopAll(m)
    /\ Same /\ Reply(m, InvalidReply(serverStatus))

Stoppable == {m \in Arrived("StopAnalyticInstance") : serverStatus = "Started"}

StopUnknown ==
  \E m \in Stoppable :
    m.analyticinstanceid \notin known /\ Same /\ Reply(m, AnalyticStopReply)

\* The process is stopped, its streams are detached and it leaves the model.
Erase(i) ==
  /\ dest' = [s \in Streams |->
                IF s \in lists[i] THEN [dest[s] EXCEPT ![i] = None] ELSE dest[s]]
  /\ known' = known \ {i} /\ launched' = launched \ {i}
  /\ lists' = [lists EXCEPT ![i] = {}] /\ UNCHANGED serverStatus
  /\ current' = i /\ stage' = "stopped"

StopKnown ==
  \E m \in Stoppable :
    /\ m.analyticinstanceid \in known
    /\ Begin(m, "stopped") /\ Erase(m.analyticinstanceid)
    /\ UNCHANGED <<db, todo, errors, dbFailures>>

\* The reply tells an error also when the Analytic Server refused the stop.
RecordStopped ==
  /\ stage = "stopped"
  /\ \/ Write({current}, "Stopped") /\ errors' \in {errors, TRUE}
     \/ DbFails /\ errors' = TRUE /\ UNCHANGED db
  /\ stage' = "stop next" /\ current' = None
  /\ Continue /\ UNCHANGED <<model, request, todo>>

StopAll ==
  \E m \in Arrived("StopAnalyticInstances") :
    /\ serverStatus = "Started"
    /\ Begin(m, "stop next") /\ todo' = m.analyticinstances
    /\ UNCHANGED <<db, model, current, errors, dbFailures>>

StopNext(i) ==
  /\ stage = "stop next" /\ i \in todo
  /\ todo' = todo \ {i}
  /\ IF i \in known THEN Erase(i) ELSE UNCHANGED <<model, current, stage>>
  /\ Continue /\ UNCHANGED <<db, request, errors, dbFailures>>

StopDone ==
  /\ stage = "stop next" /\ todo = {}
  /\ UNCHANGED <<db, model, dbFailures>>
  /\ Answer(IF errors THEN InvalidReply(serverStatus)
            ELSE IF request.type = "StopAnalyticInstances" THEN AnalyticsStopReply
            ELSE AnalyticStopReply)

(***************************************************************************)
(* ServerEvent: the server as a whole.                                     *)
(***************************************************************************)

\* updateServerStatus: a statement that fails is only logged.  When the server
\* has stopped every row is true again, whatever failed before.
UpdateAll(x) ==
  \/ SetStatus(Instances, x) /\ dbFailures' = IF x = "Stopped" THEN 0 ELSE dbFailures
  \/ DbFails /\ UNCHANGED db

UpdateServerStatus(x) == serverStatus' = x /\ UpdateAll(x)

Empty == known' = {} /\ launched' = {} /\ lists' = [i \in Instances |-> {}] /\ dest' = Nowhere

ServerStatus ==
  \E m \in Arrived("ServerStatus") : Same /\ Reply(m, StatusReply(serverStatus))

StartsAlready ==
  \E m \in Arrived("StartServer") :
    serverStatus = "Started" /\ Same /\ Reply(m, StartReply(serverStatus))

ClearAll ==
  IF serverStatus = "Started" THEN Empty /\ UpdateServerStatus("Stopped") ELSE Same

StopServer ==
  \E m \in Arrived("StopServer") : ClearAll /\ Reply(m, StopReply("Stopped"))

RestartServer ==
  \E m \in Arrived("RestartServer") :
    ClearAll /\ Begin(m, "restart") /\ UNCHANGED <<current, todo, errors>>

\* findAll: the streams that some instance uses.
FindAll == todo' = UNION {StreamsIn(Configured(i)) : i \in Instances}

StartServer ==
  /\ \/ \E m \in Arrived("StartServer") :
          serverStatus = "Stopped" /\ Begin(m, "boot")
     \/ stage = "restart" /\ stage' = "boot" /\ Continue /\ UNCHANGED request
  /\ FindAll /\ Same /\ UNCHANGED <<current, errors>>

UsersOf(s) == {i \in Instances : \E n \in Inputs : config[i][n] = s}

\* One turn of the loop over the streams: findAllForStream, the instances
\* that start now (an instance that did not start is tried again with its
\* next stream), the destinations, and, when the connector is there, the
\* entries in the model, also those of instances that did not start.
BootStream(s) ==
  /\ stage = "boot" /\ s \in todo /\ todo' = todo \ {s}
  /\ \E started \in SUBSET (UsersOf(s) \ launched), pick \in [UsersOf(s) -> Inputs] :
       /\ \A i \in UsersOf(s) : config[i][pick[i]] = s
       /\ launched' = launched \cup started
       /\ dest' = [dest EXCEPT ![s] = [i \in Instances |->
                      IF i \in UsersOf(s) \cap launched' THEN pick[i] ELSE None]]
  /\ \/ /\ \E i \in Instances : dest'[s][i] # None
        /\ known' = known \cup UsersOf(s)
        /\ lists' = [i \in Instances |->
                       IF i \in UsersOf(s) THEN lists[i] \cup {s} ELSE lists[i]]
     \/ UNCHANGED <<known, lists>>
  /\ Continue /\ UNCHANGED <<db, serverStatus, stage, request, current, errors, dbFailures>>

\* A query throws: what was started stays.
BootFails ==
  /\ stage = "boot" /\ DbFails
  /\ UNCHANGED <<db, model>> /\ Answer(InvalidReply(serverStatus))

\* Mutant: only what the server runs is marked as started.
BootDoneKnown ==
  /\ stage = "boot" /\ todo = {}
  /\ serverStatus' = "Started" /\ Write(known \cap launched, "Started")
  /\ UNCHANGED <<known, launched, lists, dest>>
  /\ Answer(StartReply("Started"))
\* Every row is marked as started.
BootDone ==
  /\ stage = "boot" /\ todo = {}
  /\ UpdateServerStatus("Started") /\ UNCHANGED <<known, launched, lists, dest>>
  /\ Answer(IF request.type = "StartServer" THEN StartReply("Started")
            ELSE StatusReply("Started"))

(***************************************************************************)
(* The process of the server ends, with SIGTERM through its handler, which *)
(* sets the status of every row, and comes back with the same update.      *)
(***************************************************************************)

Ends ==
  /\ alive /\ alive' = FALSE /\ serverStatus' = "Stopped" /\ Empty
  /\ Reset /\ late' = [k \in Slots |-> None] /\ touched' = {}
  /\ webStage' = IF webStage = "served" THEN "lost" ELSE webStage
  /\ UNCHANGED <<webRequest, webReply>>

Crash == Ends /\ UNCHANGED <<db, dbFailures>>

Terminate == Ends /\ UpdateAll("Stopped")

Revive ==
  /\ ~alive /\ alive' = TRUE
  /\ UpdateServerStatus("Stopped")
  /\ UNCHANGED <<web, late, known, launched, lists, dest, operation, touched>>

(***************************************************************************)
(* The specification.                                                      *)
(***************************************************************************)

WebEdits ==
  \/ \E a \in Analytics : CreateAnalytic(a)
  \/ \E n \in Inputs : CreateInput(n) \/ DestroyInput(n)
  \/ \E i \in Instances :
       DestroyInstance(i) \/ \E a \in Analytics : CreateInstance(i, a) \/ UpdateInstance(i, a)
  \/ \E i \in Instances, n \in Inputs :
       \/ DestroyInstanceStream(i, n)
       \/ \E s \in Streams : CreateInstanceStream(i, n, s)
       \/ \E m \in Inputs, s \in Streams : UpdateInstanceStream(i, m, n, s)

WebRequests ==
  \/ \E i \in Instances : StartAnalytic(i) \/ StopAnalytic(i)
  \/ \E a \in Analytics : DestroyAnalytic(a)
  \/ \E command \in ServerEvents : ExecServerCmd(command)
  \/ Timeout \/ ReadReply

ExecuteOperation ==
  \/ StartRefused \/ StartKnown \/ StartLaunches \/ StartFails \/ StartReverts
  \/ RecordStarted
  \/ StopRefused \/ StopUnknown \/ StopKnown \/ RecordStopped \/ StopAll
  \/ (\E i \in Instances : StopNext(i)) \/ StopDone
  \/ ServerStatus \/ StartsAlready \/ StopServer \/ RestartServer \/ StartServer
  \/ (\E s \in Streams : BootStream(s)) \/ BootFails \/ BootDone

Next ==
  \/ WebEdits \/ WebRequests \/ ExecuteOperation
  \/ Crash \/ Terminate \/ Revive

Spec == Init /\ [][Next]_vars

(***************************************************************************)
(* Properties.                                                             *)
(***************************************************************************)

\* What the rows of status say is safe to act on: between two operations an
\* instance whose row says Stopped is not in the server's model, unless a
\* statement of the server failed.  It is what the guards of the controllers
\* (destroy, update, and those of the instance streams) rely on.
StoppedIsTrue ==
  Listening /\ dbFailures = 0 =>
    \A i \in Live : status[i] = "Stopped" => i \notin known

\* The row that gave stream s to input n of instance i is there, or went when
\* the analytic of the input was destroyed, after the instance had been given
\* another one.
IsConfigured(i, n, s) ==
  \/ config[i][n] = s
  \/ analyticRow[InputOf[n]] = "gone" /\ InputOf[n] # analyticOf[i]

\* The server runs what is configured: whatever it feeds an instance it knows
\* has a row, with that stream for that input, but for an input that went with
\* a former analytic of the instance, which nothing in the web interface
\* checks; unless the row was edited while a request that the web interface
\* had given up was about, or a statement failed.
RunsAsConfigured ==
  dbFailures = 0 =>
    \A i \in known \ touched :
      /\ i \in Live
      /\ \A s \in lists[i] : dest[s][i] # None => IsConfigured(i, dest[s][i], s)

\* Every reply has the elements that the parser of its reader takes out of it.
RepliesUnderstood ==
  webStage = "replied" /\ webReply # None => Understands(webRequest, webReply)
=============================================================================
