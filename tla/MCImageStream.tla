--------------------------- MODULE MCImageStream ----------------------------
(***************************************************************************)
(* ImageStream with two analytics and four images through a queue of two:  *)
(* enough to evict the image in use, then another, and still have one left *)
(* for the consumer that replaces this one.                                *)
(***************************************************************************)
EXTENDS ImageStream
=============================================================================
