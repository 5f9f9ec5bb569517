------------------------- MODULE MCTransformStream --------------------------
(* TransformStream for TLC: the .cfg files give the constants their values. *)
EXTENDS TransformStream
=============================================================================
