--------------------------- MODULE MCAnalyticLink ---------------------------
(***************************************************************************)
(* AnalyticLink with two instance ids, ports for two, and three starts: a  *)
(* start may find no port left, follow a kill-all, or repeat one of a      *)
(* client that crashed.  Ids are interchangeable.                          *)
(***************************************************************************)
EXTENDS AnalyticLink, TLC

CONSTANTS i1, i2

Symmetry == Permutations(Ids)
=============================================================================
