----------------------- MODULE DirectCameraConnector ------------------------
(***************************************************************************)
(* The connectors of direct cameras in one server process.  They come from *)
(* one library, whose _pQueue is a global: the producer thread that was    *)
(* the last to begin set it to its own queue, and any that ends sets it to *)
(* NULL.  A frame of any of the cameras is pushed on the queue it points   *)
(* to, and is dropped when there is none.                                  *)
(***************************************************************************)
CONSTANTS Streams, NULL

VARIABLES
  playing,   \* streams whose thread is in produceImageObjects
  _pQueue    \* the stream whose queue it is

\* display: a frame, of whatever camera, is pushed on this queue, if any.
PushedOn == {_pQueue} \ {NULL}

Init == playing = {} /\ _pQueue = NULL

\* produceImageObjects begins.
Produce(s) ==
  /\ s \notin playing
  /\ playing' = playing \cup {s}
  /\ _pQueue' = s

\* Mutant: the pointer stays when the thread ends.
InterruptedKeepsQueue(S) ==
  /\ playing' = playing \ S
  /\ UNCHANGED _pQueue

\* The threads of the streams S are interrupted and end; one that had not
\* begun begins and ends.
Interrupted(S) ==
  /\ playing' = playing \ S
  /\ _pQueue' = IF S = {} THEN _pQueue ELSE NULL

\* The server's process ends, and the library with it.
Unload == playing' = {} /\ _pQueue' = NULL
=============================================================================
