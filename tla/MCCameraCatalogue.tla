------------------------- MODULE MCCameraCatalogue -------------------------
(***************************************************************************)
(* CameraCatalogue with two VMSs of two monitors each on one connector; or *)
(* with one VMS and a second connector, which a direct camera may be moved *)
(* to.  VMSs and monitors are interchangeable.                             *)
(***************************************************************************)
EXTENDS CameraCatalogue

CONSTANT k2

\* Bounds what there is while there is a second connector or a VMS whose connector
\* was given another type.
FewRows ==
  /\ connectors[k2] # None => Cardinality(Rows(vmses)) <= 1 /\ Cardinality(Rows(streams)) <= 1
  /\ (\E v \in Rows(vmses) : vmses[v].retyped) => Cardinality(Rows(vmses)) <= 1

Symmetry == Permutations(Vmses) \cup Permutations(Monitors)
=============================================================================
