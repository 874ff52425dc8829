-------------------------- MODULE MCServerStarter ---------------------------
(***************************************************************************)
(* ServerStarter with three children, so that a failed start, a crash and  *)
(* a restart follow one another, and three turns of the stop loop: one     *)
(* that finds the child alive, one that reaps it, one that learns it died. *)
(***************************************************************************)
EXTENDS ServerStarter
=============================================================================
