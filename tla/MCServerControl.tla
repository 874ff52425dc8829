-------------------------- MODULE MCServerControl ---------------------------
(***************************************************************************)
(* ServerControl with two instances on three streams, one of them shared:  *)
(* each has a stream before or after the shared one in which a start may   *)
(* fail.  Each instance has a direct camera, the shared stream is of none. *)
(***************************************************************************)
EXTENDS ServerControl, TLC

CONSTANTS a1, a2, s1, s2, s3

MCInputs == (a1 :> {s1, s2}) @@ (a2 :> {s2, s3})
=============================================================================
