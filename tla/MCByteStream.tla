---------------------------- MODULE MCByteStream -----------------------------
(* ByteStream for TLC: the views a BYOB reader may ask to be filled. *)
EXTENDS ByteStream

\* One element of two bytes, one or two such elements, two bytes at once, one or two.
SmallViews ==
  {[byteLength |-> 2, elementSize |-> 2, minimumFill |-> 2],
   [byteLength |-> 4, elementSize |-> 2, minimumFill |-> 2],
   [byteLength |-> 2, elementSize |-> 1, minimumFill |-> 2],
   [byteLength |-> 2, elementSize |-> 1, minimumFill |-> 1]}
=============================================================================
