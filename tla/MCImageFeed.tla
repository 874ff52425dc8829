---------------------------- MODULE MCImageFeed -----------------------------
(***************************************************************************)
(* ImageFeed with two streams on one analytic.  Internal queues of one     *)
(* place make the threads of the process block on both sides with only     *)
(* three images out.                                                       *)
(***************************************************************************)
EXTENDS ImageFeed
=============================================================================
