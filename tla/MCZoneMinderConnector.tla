----------------------- MODULE MCZoneMinderConnector -----------------------
(***************************************************************************)
(* ZoneMinderConnector with three frames.  A body of <<216, 0, 0>> gives a *)
(* second read that begins like a marker ends, with a 255 where the first  *)
(* marker's second byte was.                                               *)
(***************************************************************************)
EXTENDS ZoneMinderConnector

CONSTANT Frames   \* bound: JPEGs the camera sends

\* What may be between the first and the last marker of a JPEG.
Bodies == {<<0>>, <<216, 0, 0>>}

Sent(body) == <<Tag, Tag + Len(body) + 4, 255, 216>> \o body \o <<255, 217>>

MCTransmissions ==
  {FlattenSeq([f \in 1 .. Frames |-> Sent(bodies[f])]) : bodies \in [1 .. Frames -> Bodies]}
=============================================================================
