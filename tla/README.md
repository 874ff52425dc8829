# Verification of OpenCCTV

TLA+ models of the OpenCCTV servers, the TLC configurations that check them and
the theorems about them that TLAPS proves. Paths below are relative to the
repository; `OpenCCTVServer/...` stands for `src/OpenCCTVServer/...` and so on.

## 1. The system

OpenCCTV feeds camera streams to analytic plugins. Four C++ programs and a web
application work together:

    Web (Rails) --REQ--> OpenCCTV Server Starter --fork/exec/signals--> OpenCCTV Server
        |                                                                  |
        +------------------------- REQ (events) -------------------------->|
                                                                           | REQ (start/stop/kill-all)
      camera -> connector -> producer thread                               v
                    -> internal queue -> consumer thread            Analytic Server (AnalyticStarter)
                    -> TCP queue -> analytic process <--popen/signals------+
                    <- TCP queue <- (AnalyticRunner)
      database <- result router thread

### Inventory

| Component (source) | State | Operations | Interacts through | Correct when |
|---|---|---|---|---|
| Flow control (`util/flow/SimpleFlowController.cpp`) | a `size_t` count of images in the remote queue | `canSendImageGeneratedAt`, `sent`, `received` | called by every consumer thread of the instance's streams and by its result router | the remote queue is bounded, the count is right, the feed does not close for good |
| Image multicast (`ConcurrentQueue.hpp`, `ImageMulticaster.cpp`, `MulticastDestination.cpp`, `ConsumerThread.cpp`, `ProducerThread.cpp`) | per stream: a bounded queue that evicts its oldest image, a map of destinations | push, wait for front, remove front, send; add and remove a destination | producer thread, consumer thread, event thread | images reach each destination in order, once; an eviction costs one image; senders are valid when used |
| Result router (`ResultRouterThread.cpp`, `AnalyticResultGateway.cpp`) | - | receive with time-out, save, credit | TCP queue, database, flow controller | every result is credited once; a row says what was said of an image that came |
| Messages of images and results (`util/serialization/gpb/` of both programs) | - | serialize, deserialize | consumer, process, router | what is read is what was written, under the right input |
| Event handling (`event/*.cpp`, `ServerController.cpp`) | server status | start/stop of the server and of analytic instances | `ApplicationModel`, threads (start, interrupt+join), Analytic Server, database | the maps and the threads agree after any sequence of requests and failures |
| Application model (`ApplicationModel.cpp`) | all maps of the server, thread groups | insert, erase, `clear` | shared by every thread, without a lock | no object is replaced or deleted in use |
| Analytic instance manager (`analytic/AnalyticInstanceManager.cpp`) | a REQ socket | start, stop, kill-all | Analytic Server | what its callers keep of a reply is what the Analytic Server has |
| Analytic Server (`AnalyticStarter/`) | stack of ports, map of processes | start, stop, kill-all | `popen`, `kill`, `waitpid` | a port is handed out once, every process can be stopped |
| Analytic process (`AnalyticRunner/`) | two bounded image queues | receive+push, pop+analyse+push, pop+send | three threads, two condition variables | no lost wake-up, one result per image in order |
| Server Starter (`OpenCCTVServer_Starter/`) | status, pid | start, stop, restart, status | `fork`, `execv`, `kill`, `waitpid` | one server at most, status true, every request answered |
| ZoneMinder connector (`ZoneMinderConnectorPlugin/`) | connection, read buffer, decoder | connect, read, cut into images | producer thread, internal queue | images are whole and in order, the thread ends when asked |
| Direct cameras (`DirectCameraConnector/`) | one global queue pointer, players | produce, end | producer threads, libvlc, internal queues | the pointer names a queue that lives |
| Sample connector (`FakeVmsConnectorPlugin/`) | - | push files | internal queue | - |
| Web: instances and servers (`OpenCCTVWeb/app/controllers/analytic*`, `open_cctv_servers*`) | rows of analytics, inputs, instances and their streams | the pages; start, stop and status requests with a time-out of ten seconds | database, server | no row is edited while the server runs on it; every reply can be read |
| Web: cameras (`vmses`, `cameras`, `streams`, `vms_connectors`, `direct_cameras`) | rows of connectors, VMSs, cameras, streams | the pages, with their guards and cascades | database, VMSs | no row in use is destroyed, no half row is left |
| Database gateways (`util/db/`) | a connection | the server's queries and updates | database | each may throw |
| Configuration, logging, plugin loading | - | conversions | - | - |

What is hard: threads around one queue with an eviction under a reader; a
check and an update of a counter in separate critical sections; interruption of
a thread in the middle of its work; starts that fail halfway and are reverted;
servers and processes that crash between two requests; ports and pids as
resources that must be returned exactly once; requests that one side has given
up and the other still serves; a status column that one program writes and
another relies on; cascades of destroyed rows; a byte stream cut anywhere. `PROJECT.json` ("hazards") lists
each of these at its line with the property that covers it.

## 2. Modules

| Module | Models | Actions and the code |
|---|---|---|
| `SimpleFlowController` | the controller and the threads that call it | one action per method, as each holds the mutex; a consumer's check, write and count are three |
| `FlowControl` | the feed of one instance, closed by a counted remote side | `MaySend`, `Send`/`SendFails`, `CountSent`, `ReceiveResult`, `Credit`, `LoseImage` (the analytic says nothing), `LoseProcess` (it ends, and nobody starts another on these queues) |
| `BoundedChannel` | abstract: a channel of `Capacity` items that, until it closes, delivers or loses what it accepts | specification implemented by `FlowControl` |
| `ImageQueue` | `ImageQueue.hpp`: push and pop on one condition variable | blocking, the notification after the unlock and spurious wake-ups are actions of their own |
| `AnalyticRunner` | the analytic process: two `ImageQueue`s (INSTANCE) and three threads | `ReceiveImage`, `PushInput`, `PopInput`, `Withhold` (the plugin has no result), `PushOutput`, `PopOutput`, `SendResult`, `RunnerDies` |
| `FifoChannel` | abstract: a FIFO that may withhold any item, and loses a rear part when it ends | specification implemented by `ImageFeed` |
| `ImageFeed` | `SimpleFlowController` + message queues + `AnalyticRunner` | composition; implements `FlowControl` with `remote` the sum of all that is under way |
| `GpbMessages` | the two protocol buffers messages, on both sides | tags, has bits and defaults, `SerializeImage`..`DeserializeAnalyticResult`, the constructors of `Image` and `AnalyticResult` |
| `ResultPath` | `FlowControl` (EXTENDS) with what the images carry, to the rows of the database | `TakeFront`, `Evict` (the queue deletes the object), `SendImage`, `SendElsewhere` (rename the one image object), `RemoveFront`, `ReceiveImage`, `Process`, `Withhold`, `SendResult`, `RouteResult` with `InsertResults`, `RunnerDies`; each that moves an image is a step of `FlowControl` |
| `ImageStream` | one stream: internal queue, producer, consumer, and the event thread's pause, change of destinations and resume | `Push` (with eviction), `Notify`, `Peek`, `Sleep`, `Skip`/`SendImage`, `RemoveFront`, `Interrupted`, `Pause`..`Resume` |
| `MulticastStream` | abstract: images offered one at a time to all who take a stream, fresh and in order | specification implemented by `ImageStream` |
| `AnalyticMessages` | the messages between the OpenCCTV Server and the Analytic Server, and the first line of a process | builders and extractors, by the elements that are there |
| `AnalyticLink` | the Analytic Server (EXTENDS `AnalyticServer`) with its client `AnalyticInstanceManager` | the request in its three stages, each reply by its branch, `Terminate` (the SIGTERM handler), `Crash`, `Begin` |
| `AnalyticServer` | the Analytic Server and its processes | one action per outcome of a request; `RunnerExits` is a process that ends by itself |
| `ServerControl` | the event thread, the model's maps as sets, the threads as states | a request in the steps between the points where the code waits for a thread or another process, a stop in each of its deletions (`Following` is their order); `ServerEnds` at each of them |
| `DirectCameraConnector` | the global `_pQueue` of the library | part of `ServerControl` (INSTANCE): set by a thread that begins, cleared by any that ends |
| `ServerStarter` | the starter and its children | one action per system call that matters; children exec, fail to exec, end and are reaped on their own; the starter ends on SIGINT and another begins |
| `EventMessages` | the messages between the web interface and the OpenCCTV Server | builders and extractors of both sides |
| `InstanceControl` | web interface, database and server on the rows of analytic instances | one action per page; requests sent, timed out, served late; `AnalyticEvent` and `ServerEvent` by their statements; failed statements, `Crash`, `Terminate`, `Revive` |
| `CameraCatalogue` | the rows the server finds its streams by | one action per page, with guard, cascade and each step that may fail |
| `ZoneMinderConnector` | HTTP connection and JPEG decoder of one camera | `Read` of any length, one action per branch of the scan |

`MC*.tla` instantiate them for TLC. `*Proofs.tla` hold the theorems. A
definition whose comment begins with "Mutant" is not part of the model: it is a
plausible bug in the definition that follows it, and the property that would
catch it is named in `PROJECT.json` ("mutants").

Correspondence, where it is not evident:

* An image is its number in the stream (`ImageStream`) or the stream it comes
  from (`ImageFeed`, `ResultPath`); its content matters only once it is deleted: a
  consumer that uses a deleted image reads what was there or garbage, or the server
  crashes. In `ResultPath` the history variable `misused` says that this has happened;
  `deleted` are the objects that a consumer has a pointer to and the queue deleted.
* A map of `ApplicationModel` is the set of its keys, plus the streams of an
  instance and the destinations of a stream. A thread is "current", "old" (the
  model has replaced an object it works on), a stray (the model has replaced
  the thread itself) or "ended" (a producer that returned and is still in its
  map). `unlisted` are the destinations that a failed start left on a stream its
  instance does not list. These states are not in the code; they say what the code's pointers
  refer to.
* Reading the flow controller map, the destination and the sender is one step
  with what the consumer does with them: the event thread changes them only
  while the consumer is stopped (`DestinationsChangeWhilePaused` in
  `ServerControl`, `SendersValid`, proved of `ImageStream`).
* In `AnalyticServer` a request is one step: the server has one thread and its
  state is its own; what is concurrent is the end of its processes. Use of a
  deleted object is undefined behaviour, and modelled as: the server aborts, or
  acts on what is left, or on a younger object in the same memory.
* A message is a record whose domain is the set of the elements in the document,
  since both sides fail on one that is missing and on nothing else.
* `ServerControl` has what a request does to streams and threads,
  `InstanceControl` what it does to instances, rows and replies, `AnalyticLink`
  what it does to processes. In each the other two are open: any outcome that
  they can have.
* In `InstanceControl` the bookkeeping variables `touched` and `dbFailures` say
  which exceptions a property makes; no action of the program reads them.
* The analytic of an instance, `analyticOf` in `InstanceControl`, is a column that
  `UpdateInstance` may change; its streams stay at the inputs of the old one.
* In `CameraCatalogue` an id stands for a new row once its old row has ended and
  nothing refers to it. The history variable `retyped` of a VMS says that its
  connector changed its type while it was the VMS's.
* `ImageFeed` has the order of images between server and process and the waiting of
  threads, `ResultPath` what is in the images: its queues are bags. The text of a
  result is the data and the input that its analytic was shown, so that a row tells
  which image it is of; `saved` is the row of the result that the router is at, as
  no code of the server reads the table.
* In `ZoneMinderConnector` a copied image is kept as the places in the camera's
  stream that its bytes came from, which tells more than the bytes do. A header
  is two units, so a read may end before it, in it or after it.
* In `ServerStarter` a pid is the number of the fork and never used again.

## 3. What TLC checks

Each run ends within five minutes on two workers. The longest are
`CameraCatalogue` (0.13 million states, a minute), `InstanceControl` (1.9 million,
2 minutes), `ZoneMinderConnector` (6.1 million, 95 seconds), `ServerControl` (0.47
million, 70 seconds, with liveness), `ResultPath` (0.75 million, 60 seconds) and
`AnalyticLink` (3.6 million, 45 seconds). Symmetry is used only where a run has no
liveness property.

| Run | Bounds | Shows |
|---|---|---|
| `ResultPath` | 2 streams, both also to another instance, `MaxSize` 2, 3-bit counter | the overshoot is one image per further stream at most (`OutstandingBounded`); the counter is exact through its wraps, with images and processes that are lost (`CounterExact`); although all destinations get the same object, an analytic is shown whole images under its own name for the stream, and a row says what was said of one of them, until a consumer uses an object that its queue has deleted (`ShownAndSavedAreTrue`). |
| `ImageFeed` | 2 streams, `MaxSize` 2, queues of one place | no lost wake-up although both sides of a queue wait on one condition variable (`NoLostWakeup`), one result at most per image, in order (`OneResultPerImageInOrder`), results keep coming while the process lives and has any (`ResultsKeepComing`), and `FlowControl` is implemented (`ImplementsFlowControl`), so what is proved of it holds here: a bounded channel that delivers until the process ends (`ImplementsChannel`), open again and again while the process lives and withheld fewer than `MaxSize` images (`FeedStaysOpen`). |
| `ImageStream` | 2 analytics, queue of 2, 4 images | in order and at most once to each destination (`InOrderOnce`); each eviction makes at most one further image vanish unseen (`OneMissedPerEviction`); seen from the analytics it is a multicast without queue, threads or pauses: an image is offered to all who take the stream at that moment, is one of the newest `Size`, and is whole unless more than that came since (`ImplementsMulticast`, which includes that no sender is used after it was deleted); the queue drains and a pause ends (`QueueDrains`, `PauseEnds`). |
| `AnalyticLink` | 2 ids, 2 pairs of ports, 3 starts, 1 crash of the client | ports and capacity (`PortsHandedOutOnce`, `CapacityAccounted`), processes that can be stopped (`RunningIsReachable`), addresses of the client that are those of the process the server has (`AddressesAreServed`), no process left behind, in the map or out of it, but by a crash, a refused start or a later start of its id (`OrphansHaveACause`), no message that ends its reader (`MessagesAreRead`). |
| `ServerControl` | 2 instances, 3 streams, one shared, two of direct cameras; no server start after one that left strays | no object or thread replaced in use until a server start fails halfway (`NothingReplacedInUse`), no queue, connector, destination or flow controller deleted in use at any step of a stop, but for the flow controller of a destination that a failed start left (`ThreadsHaveWhatTheyUse`), the connectors' queue pointer names a queue that lives (`PointedQueueLives`), a producer, also one that ended by itself, stays only while its stream has a destination, and no consumer is left paused (`ProducersAreConsumed`), nobody loses a stream to another's stop (`DestinationIsFed`), a successful start is served (`StartedIsServed`), destinations change only while the consumer is stopped (`DestinationsChangeWhilePaused`), a request ends unless it waits for ever for a camera or the Analytic Server (`RequestsEnd`). |
| `ServerStarter` | 3 forks, 3 turns of the stop loop | `NoServerLost` and `StoppedIsTrue` for the servers of this starter's life, `RequestsAreAnswered`. |
| `InstanceControl` | 2 instances, 2 analytics of which one has an input, 2 streams; 1 request given up, 1 failed statement, not at once | a row that says Stopped is safe to edit (`StoppedIsTrue`); the server feeds what is configured, but for rows edited while a given-up request was about and those of an instance that was moved (`RunsAsConfigured`); every reply has what its reader takes out of it (`RepliesUnderstood`). |
| `CameraCatalogue` | 2 VMSs with 2 monitors on 1 connector, or 1 VMS and 2 connectors; 2 cameras and 2 streams at a time | nothing an instance uses is destroyed (`InUseIsKept`); what the form of an instance offers the server finds (`OfferedIsFound`); cameras are verified only under verified VMSs, also when a direct camera is moved to another connector by an edit that may fail (`VerifiedUnderVerified`); an edit that failed halfway and is repeated adds no camera twice (`OneCameraPerMonitor`). |
| `ZoneMinderConnector` | 3 frames of 7 or 9 units, buffer of 8, up to 3 bytes read ahead | images are whole and in order (`WholeFramesInOrder`), and only frames whose header and marker come in two reads are lost (`OnlyTornAreLost`). |

`TypeOK` is stated in each module. It is proved as part of the inductive invariant
in every `*Proofs.tla` (`ConnectorTypeOK` in `ImageStreamProofs`). No run repeats it.

Why the bounds are enough. `ResultPath`: both consumers can
be between check and count at once, which is the overshoot, and a 3-bit counter makes
the value below zero reachable and distinguishable from a count; two
streams meet in one queue of the process; the other instance
calls each stream by this one's name for the other, the worst a mix-up could do;
an object may be deleted before, in and after each use. `ImageFeed`: queues of one place
make both sides block on both queues with three images out,
and `MaxSize` images may be withheld one by one. `ImageStream`: four
images through a queue of two evict the image in use, then another, and leave
one for the consumer that replaces the first. `AnalyticLink`: three starts on
two ids include a restart of a known id, a start after a kill-all and one that a
new client repeats; two pairs make the stack run empty. `ServerControl`: sharing
needs two instances and one stream, and a start that fails before or after the
shared stream needs another for each instance; two direct cameras can take the
pointer from each other. `ServerStarter`: a failed start, a crash and a restart
follow one another; three turns of the loop (nine in the code) are one for each
answer of `waitpid`. `InstanceControl`: two instances, as a start of the server
makes an instance known because another on the same stream was started; two
streams, so that an edit can change the one an input has; two analytics, so that an
instance can be moved from the one that its streams belong to; one of a failed
statement, a request given up and a move at a time, and with one instance the last two
together (`OneMishap`). `CameraCatalogue`: two VMSs, one
of which is edited while the other's cameras are in use, and two connectors, between
which one VMS is moved (`FewRows` keeps these apart, and has one VMS while a connector's
type was changed under it). `ZoneMinderConnector`:
of three frames the first may be torn, the second follow what is left of it and
the third show that it was pushed; the buffer just holds the smaller frame with its
header and not the larger, so that an image is copied whole, begun in one read and
ended in the next, or goes through several.

Bounds that are not in the code: `MaxImages`, `MaxStarts`, `MaxCrashes`, `MaxForks`,
`MaxStrays`, `MaxLate`, `MaxDbFailures`, `Frames`, `MaxAhead`, `FewRows`, `OneMishap`, and the numbers of
`Cameras` and `Streams` of `CameraCatalogue`. They cut behaviours off; no property is true because of them, except
that liveness is about the behaviours within them.

### Findings

Three runs expect a violation, each of one statement that the repository makes of
itself:

* `ImageStreamInUse`: `push` on a full queue deletes the front element, which is
  the one the consumer works on (`ConcurrentQueue.hpp:45`). Afterwards
  `tryRemoveFrontElement` takes an image nobody has seen.
* `AnalyticServerKillAll`: kill-all empties a copy of the map
  (`AnalyticServerController.cpp:295`); the model keeps the deleted objects.
* `ZoneMinderStop`: the decoder's loop has no interruption point
  (`MpegDecoder.cpp:78`), so a stop of the stream waits until the camera closes the
  connection.

Other behaviours that the models contain because the code has them, which the
properties name as exceptions or leave room for:

* A server start that fails at a later stream returns with threads running and
  status STOPPED, and a stop then does nothing (`ServerEvent.cpp:102`, `:324`;
  `halfStarted`). It also makes instances known that did not start
  (`ServerEvent.cpp:287`), whose start is then answered with success
  (`AnalyticEvent.cpp:64`).
* The revert of a failed analytic start leaves the destination on the stream that
  failed (`AnalyticEvent.cpp:145`, `:252`) and deletes the instance's flow controller
  (`:509`); a consumer of another instance on that stream may ask for it (`unlisted`).
* A restart by the starter of a running server stops it and is then refused as
  "already running", since the status was not reset (`ServerController.cpp:154`,
  `:128`); the refusal still says Running, with pid 0.
* An instance that was moved to another analytic
  (`analytic_instances_controller.rb:37`) keeps the streams of the first one's inputs;
  they go with that analytic while the instance runs, though the page for streams
  says that it has to be stopped first (`analytic_instance_streams_controller.rb:80`;
  the exception is in `IsConfigured`).
* A stop of an instance that the server does not know leaves its row at
  "Started", so that it can be neither edited nor destroyed until the server is
  restarted (`AnalyticInstanceGateway.cpp:38`).
* A producer thread that has ended by itself, as ZoneMinder's does when the camera
  closes the connection, stays in its map. Another instance that starts on the
  stream is told that it was started and gets no image (`AnalyticEvent.cpp:235`);
  the camera starts anew only after the last instance has left the stream.
* Destinations are kept by instance: of two inputs of one instance on one stream
  the later alone is fed (`MulticastDestination.cpp:35`).
* `deserializeImage` leaves the stream's id behind and both constructors of
  `AnalyticResult` the input's name (`ProtoBuf.cpp:43`, `AnalyticResult.cpp:11`), so
  that a result reaches the router with stream 0 and no input; neither is saved.
  Nobody looks at what `ParseFromString` returns, and a result whose insert failed is
  credited as any other.
* With two direct cameras frames of both go to the queue of the one whose thread
  began last, and to none once either has ended (`DirectCameraConnector.cpp`).
* Adding cameras again to a ZoneMinder VMS visits cameras that were destroyed
  through other objects (`vms.rb:43`, `:395`): their new streams have no camera,
  are offered by the form of an instance and never found by the server. These
  are the `stale` streams of `CameraCatalogue`.
* A header of a ZoneMinder frame that comes in two reads costs the frame. A
  second read of an image that happens to look like a marker resets the length
  and the loop goes on for ever without progress (`Spins`). An image is pushed
  only when a further byte has come.
* The web interface speaks the server's own protocol (`StartServer`, ... at port
  4444). The starter understands other names (`StartRequest`, ...) and answers
  those of the web interface with "Unknown message type received", though its
  `main.cpp` speaks of the web interface as its client.

### Fairness

Each thread that can go on does (weak fairness per thread); that is what the
scheduler gives, and no thread here spins without a blocking call for ever. No
fairness for what the environment may never do: a camera that produces, a
request, the death or the end of a process, a spurious wake-up, an image that
is lost. `ImageFeed` has fairness for the threads of the analytic process only while it lives:
no code starts another behind the same flow controller, so after its end the feed fills
up and stays closed. `ResultPath` has none and no liveness.
`ServerControl` has fairness for the steps of the request in progress except those that
need a reply of the Analytic Server, whose sockets have no time-out, or the end of a
producer that is not one of a direct camera: ZoneMinder's has no interruption point
(`ZoneMinderStop`). `Waiting` says where these are; `RequestsEnd` excepts the behaviours
that stay there.
`ZoneMinderConnector` has fairness for the thread while it can read or scan, and
none for the camera, which need not close its connection.
In `ImageStream` the queue drains although the event thread may pause the
consumer again and again, since a consumer handles the image it has found before
it comes to an interruption point.

## 4. What is proved

For every value of the constants (any number of streams, analytics, instances,
rows, ids, ports, starts, forks; any queue and word size), under the assumptions
stated in the modules: finite sets where a model counts or enumerates them,
natural bounds, a word that holds the capacity, values for "none" that are
nothing else, and a ZoneMinder camera that sends whole frames and tells their length. No assumption limits an order of steps, a failure or a crash.

Each module's inductive invariant is a conjunction of named parts; TLC checked it
as an invariant of the module's run before it was proved. Why it says more than
the properties do:

* `FlowControlProofs`. `Inductive`: `IInv` = types, `CounterExact` and "what is
  out, lost or about to be sent fits in the capacity". `OutstandingBounded`
  alone is not inductive: a consumer that has passed the check will send
  whatever the counter says by then. The counter read modulo the word equals the
  true count as long as this is in range, so the check of the next consumer is
  right except while another consumer is between its write and its `sent`; that is where the
  overshoot of one image per further stream comes from. `Losses`: an image that gets no
  result and a process that ends keep the sum. From it: `TypeCorrect`,
  `OutstandingIsBounded`, `CounterIsExact`, `WrapsAreTransient`, and
  `RefinesChannel`, that every step is one of `BoundedChannel` or a stutter, the end of
  the process its `Close`.
* `ResultPathProofs`. First the messages: `ImageIsRead` and `ResultIsRead`, that what one
  program's copy of the classes reads of what the other's wrote are the values that were
  set, for any values and any number of bytes, with no required field missing. The data
  is the sequence of the fields with its tag, in the order of the wire, and every other
  field the last with its tag; so the lemmas say at which places of the wire each tag is
  (`ImageWire`, `ResultWire`). Then `PathIsFlowControl`, `PathKeepsCount` and
  `PathRefinesChannel`: contents change nothing of the way, so that the theorems about
  `FlowControl` hold of it. Last `ShownAndSavedTrue`. It speaks of three queues and the
  row until a deleted object is used; the invariant, `PathIInv`, is about all places. Its
  first part, `ObjectsInv`, holds whatever is misused: the object in front of a
  consumer, or what it was before it was deleted, is its stream's image under the name of any
  destination (`Objects`). The second, `WayTrue`, holds until then: what is
  on the wire was written of such an object under the instance's own name
  (`InputMqTrue`, since the rename and the write are one consumer's), the process has
  nothing but what it read of that or says of it (`Shown`, `Said`), and results and row
  are made of those. Messages that a death of the process leaves are some of those
  that were there (`PartsHold`). `PathTypeOK` has what the threads rely on between
  two steps: a consumer that passed the check has a pointer to an object until its turn ends, a row
  is there only until its result is credited.
* `ImageFeedProofs`. `NoWakeupIsLost`: the invariant of one
  queue (whenever a thread that could go on sleeps, a notification is under way)
  is kept by every step of a queue (`InputQueueStep`, `OutputQueueStep`), whatever
  the rest of the feed does. `SomeoneIsAwake`: the two threads at a queue never
  both sleep.
  `FeedImplementsFlow` and `ResultsComeInOrder` are two refinements. The feed maps
  to `FlowControl` with `remote` the number of images under way: in two
  message queues, two image queues and the hands of three threads; each step of a
  thread moves one image and leaves the sum, and one that is withheld is a loss. From the process's first thread to the
  results' queue it maps to `FifoChannel`, the content being the concatenation of
  these places in order; each step leaves the concatenation, adds to its end, takes
  its head, takes one out (`WithholdMoves`) or, when the process dies, keeps a front part. `FeedInv` (the types,
  both queues' invariants and the mapped `IInv` of the flow control, which bounds
  the pipeline) is inductive, and `FeedIsCounted` carries the theorems on the flow
  control over to the feed.
* `ImageStreamProofs`. `DeliveredInOrderOnce`, `EachEvictionCostsOne`,
  `SendersStayValid`. The queue always holds consecutive numbers up to the last one
  produced (`Consecutive`), since eviction and removal take from its front. The
  image looked at last is in front of the queue, or before it when it was evicted
  under the consumer; then what `RemoveFront` takes instead is the one vanished
  image that the eviction costs (`LookedAt`). No destination is ahead of the
  consumer, and one still to be tried is behind it (`DeliveredBehind`): that
  survives a pause because the consumer stops between two images and never
  between two destinations.
  `StreamIsMulticast` is the refinement of `MulticastStream`: all that the threads do
  but a push, a look at the front, the turn of a destination and a resume is a stutter. It
  rests on one more invariant, `EvictedByFull`: an image is evicted under the consumer
  by a full queue only, and nothing else makes room meanwhile, so an image that may
  be spoilt is `Size` images old, and one that is offered is not (`FrontIsRecent`).
  Of the connector that fills such a queue: `WholeFramesArePushed`,
  `OnlyTornFramesAreLost`, `ConnectorTypeCorrect`, for any stream of whole frames
  (`WellFramed`: bytes below `Tag` between header and header, markers first and last,
  a length that is true), any buffer and any cut into reads. Both properties speak of
  images that are done; the invariant, `DecoderInv`, is about the place in the stream
  that the loop is at (`Here`), which a read leaves where it is. An image that is not
  done goes on exactly there (`Growing`), is whole and behind it, or is gone over a
  second time as text (`Complete`), or had its length reset by a false marker
  (`Stuck`). No header that this buffer has whole is passed without standing in the
  text with its length next to it, and no place of its image is scanned
  (`HeadersInText`), so that a marker with a length in the text is the marker of the
  frame just begun and the last length its own (`LengthIsRight`). TLC checked each
  part of it with buffers of 6, 9 and 12 and two and three frames.
* `ServerProofs`, the event thread. `NothingIsReplacedInUse`, `ThreadsAlwaysHaveWhatTheyUse`,
  `PointedQueueAlwaysLives`, `ProducersAreAlwaysConsumed`, `DestinationsAreFed`,
  `StartedAreServed`, `DestinationsAreChangedWhilePaused`. The properties speak of
  the time between requests; the steps of a request need to know how far it has
  come. So `IInv` has `Serving` (instances start and stop in a started server only;
  the consumer of a stream that is paused is gone), `Starting` (the instance is a
  destination of the streams it lists so far, and has a router from the first on),
  `Stopping` (when the connector of a stream is deleted its destinations and its producer are
  gone, when the Analytic Server is asked the router is), `Controlled` (a destination
  that no failed start left has a flow controller, and its instance lists the stream or is
  just entering or leaving it; this is what makes the deletion of a flow controller harmless),
  `Fresh` (unless a server start failed halfway, the next finds no thread at a
  stream it has not dealt with), `Booted` (what a server start leaves the next) and
  `Fed` (the two properties on producers and destinations, with the exception of
  the stream that is paused for a request). `ProducersAreConsumed` holds after a
  server start that failed halfway as well, and states no exception for it.
* `InstanceControlProofs`. `StoppedIsAlwaysTrue`, `AlwaysRunsAsConfigured`,
  `RepliesAreUnderstood`, for any number of given-up requests and failed statements.
  An instance that was moved keeps
  rows of its old analytic's inputs, so the invariant speaks of the input of a row and not of
  the instance's analytic; only where that input went may the row be missing. `Asked` and `Fresh`: what the web interface waits for, and that a request on its
  way names rows that are there and streams they are configured with, unless it
  was given up and they were edited since (`touched`). `DestroysTheStopped`: an
  analytic is destroyed after the reply to a stop of the instances that its page had
  read; until then it has no others, and they are stopped, touched, or the request is
  not done with. `Staged`, `Rows`: what the
  server has done of the request it is at, and the rows as its statements left
  them. `StatusHolds` is `StoppedIsTrue` at every step: between the change of the
  model and the statement that writes the status the two differ by the current
  instance only.
* `CameraCatalogueProofs`. `OfferedIsAlwaysFound`, `CamerasVerifiedUnderVerified`,
  `DirectCamerasAreAlone`, `CamerasAreThereOnce`, `StreamsInUseAreKept`. `IInv` adds to the
  properties that every row's parent is there (`Linked`) and that what is in use is there
  (`UsedAreThere`), without which a free id could be one in use. `OneDirectCamera` is what
  `VerifiedUnderVerified` needs when the only camera of a VMS is taken along to another
  connector. `EditedVms`: what the form of a direct camera makes of its VMS, moved or not.
  Most pages change one VMS with what hangs on it: `Rebuilt`
  says what that may be, `Good` what an addition of cameras looks like wherever it
  stopped, and `CascadeKeeps`, `ConnectorsKeep` and `StreamPageKeeps` deal with the
  rest.
* `ServerProofs`, the starter. `StarterInvariant`, `StarterTypeCorrect`, `NoServerIsLost`,
  `StoppedHoldsTrue`: the strengthening says what status, pid and the request in
  progress tell of each child, at each point inside a request.
* `AnalyticLinkProofs`, the server. `MapHolds` (ports move in pairs, no two ids share an
  object; true even after a deleted object was used), then `PortsAreHandedOutOnce`
  and `CapacityIsAccounted` from it: pairs, because a start checks only that the
  stack is not empty and takes two; own objects, because a stop then takes
  exactly one object out of the map. `RunningCanBeStopped`: a start gives a process
  the highest number so far, so that a process that its id no longer names has a
  successor; a stop or a kill-all ends what it takes out of the map.
* `AnalyticLinkProofs`, the pair. `LinkRefinesServer`: every step of the pair is a step of
  `AnalyticServer` or leaves it as it is, so that the theorems above hold for the
  requests of this client (`LinkPortsOnce`, `LinkCapacity`, `LinkReachable`).
  `ClientHolds` (`ClientInv`: requests are of the client's three forms, a request
  on its way without a client comes from a crash, no addresses are kept without a
  manager) then carries two invariants over both sides. `AddressInv`: the
  addresses kept for an id, or in a reply to a start that is on its way, are the ports of the
  process under that id, unless a stop, a kill-all or a newer start has been served and its reply not read; it gives
  `AddressesHold`. `OrphanInv`: until a crash each process in the server's map is
  one the client keeps addresses of, or is told of by the reply on its way; the
  reply to a stop finds its id empty, and the one to a kill-all every id. With
  `RunningAreKept` (a running process is in the map, or was overwritten or never reported
  done), which is about the processes outside the map, it gives
  `OrphansAreCaused`. Neither property is inductive alone: both leave out the
  ids that a request is in question for, and the step that reads the reply needs to
  know what happened meanwhile. `MessagesReadByAll`: each branch of the server
  writes the elements that the client's extractor of that reply reads.

Only model-checked: all liveness (`ImplementsChannel`'s delivery, `FeedStaysOpen`,
`ResultsKeepComing`, `QueueDrains`, `PauseEnds`, `RequestsEnd`, `RequestsAreAnswered`),
since liveness under fairness is out of the prover's reach. Of `ImplementsChannel` the
theorem states the safety part. Every invariant and every other action property of the
runs is a theorem. That `remote` is the number of images in the four places of
`ResultPath` is neither proved, as the size of a bag is a recursive function, nor needed by
a proof: `RunnerDies` and `Withhold` say what becomes of it.
No module of a proof uses a recursive operator.

## 5. What is not modelled

* The text of messages, uploads of analytics, the page of results, the columns of
  the servers' own rows, logging, the encoding of a field of a
  protocol buffers message, configuration, plugin loading.
* `BasicFlowController`, which no code constructs.
* An Analytic Server that answers with something that is no XML, and the exception
  that `ApplicationModel::clear` throws when a kill-all is refused: a kill-all
  there is answered "done" or not at all. A dead Analytic Server leaves the event
  thread waiting for ever; in `AnalyticLink` the client then takes no step but its end.
* Consumer and result router threads that end by themselves; a producer may.
* The data race of consumers that read the flow controller map while the event
  thread writes it: no outcome of it is defined by the build.
* SIGTERM with a request on its way is modelled by what it comes to: the REQ
  socket refuses a second request with a `zmq::error_t`, which
  `catch (error_t &)` does not catch (that `error_t` is an int), so the process
  ends as in a crash.
* Recycled pids. A forked child that failed to exec and goes on with the
  starter's sockets.
* Recycled memory: what a deleted image's place holds is what it held or garbage.
* The socket of `HttpClient` refers to an `io_service` that is local to its constructor
  (`HttpClient.cpp:17`, `:32`) and gone at the first read; the modules take the socket as
  one that works.
* libvlc, and a push under way on a queue that is being deleted; ZoneMinder's
  login and the text of its URLs; what Milestone and ZoneMinder answer.

Assumptions about the environment: the web interface serves one request at a time,
which is true of the development environment, where Rails puts `Rack::Lock` before the
application; a production server with several threads or processes could interleave two
pages, and that is not modelled. No form is sent after a row it offers was destroyed or
changed its type. A disabled select is not sent: the form of a VMS never moves it, as
`VmsesController#update` shows no form again, while the form of a direct camera and that of
an instance are shown again with the select enabled after an update that failed. The edit
form of a connector has its current type selected, so `UpdateConnector` is an edit
that changes it. Ids are not reused by the database; a request left by a client that
ended is served before those of the next.

## 6. Plan

Done, in this order: flow control and its proof; the analytic process and the
composition of both; the stream; the Analytic Server; the event thread; the
starter; the link between OpenCCTV Server and Analytic Server with the messages;
instances, rows and late requests; direct cameras in `ServerControl`; the camera
catalogue; the ZoneMinder connector; the way of a result; the proofs about the link; the refinements of
the feed; the proofs about `ServerControl`, `ImageStream`, `InstanceControl`,
`CameraCatalogue` and `ZoneMinderConnector`; the proofs about the messages and
`ResultPath`; the multicast that `ImageStream` implements; the end of the process in the
flow control, evictions in `ResultPath`, images that are withheld in
`ImageFeed`, the order of a stop in `ServerControl`, instances and direct cameras that are moved, each with its proof.

Next:

1. `ServerControl` with a `clear` that throws.
2. The race on the map of flow controllers, as a module of its own.
3. A consumer that ends by itself, in `ImageStream` and `ServerControl`.
4. Two pages of the web interface at a time.

Further properties join the runs there are, or a module joins another's run, so
that each run still answers one question.
