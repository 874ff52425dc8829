---------------------------- MODULE MCResultPath ----------------------------
(***************************************************************************)
(* ResultPath with two streams, each of which goes to the instance and to  *)
(* another one that calls it by the name the instance has for the other    *)
(* stream.                                                                 *)
(***************************************************************************)
EXTENDS ResultPath

CONSTANTS s1, s2

MCClock == s1 :> "9:00" @@ s2 :> "9:01"
MCInputName == s1 :> "front" @@ s2 :> "back"
MCOtherName == s1 :> "back" @@ s2 :> "front"
=============================================================================
