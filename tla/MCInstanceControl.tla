------------------------- MODULE MCInstanceControl --------------------------
(***************************************************************************)
(* InstanceControl with two analytics, of which one has an input, two      *)
(* instances and two streams.  To keep the run short what may go wrong is  *)
(* bounded by OneMishap; the analytic without an input is verified and     *)
(* has one instance at most.                                               *)
(***************************************************************************)
EXTENDS InstanceControl, TLC

CONSTANTS a1, a2, i1, i2, n1, s1, s2

MCInputOf == (n1 :> a1)

MCSymmetry == Permutations(Instances) \cup Permutations(Streams)

\* A failed statement, a request given up, an instance moved, or the last two of
\* the first instance.
OneMishap ==
  \/ dbFailures + GivenUp + Cardinality(InstancesOf(a2)) <= 1
  \/ dbFailures = 0 /\ \E i \in Instances : row[i] = "new"

FewRows ==
  /\ analyticRow[a2] # "unverified"
  /\ Cardinality(InstancesOf(a2)) <= 1
=============================================================================
