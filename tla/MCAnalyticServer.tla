-------------------------- MODULE MCAnalyticServer --------------------------
(***************************************************************************)
(* AnalyticServer with two instance ids, ports for two, and three starts:  *)
(* a start may find no port left, or follow a kill-all.                    *)
(***************************************************************************)
EXTENDS AnalyticServer
=============================================================================
