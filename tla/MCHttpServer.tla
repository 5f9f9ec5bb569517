---------------------------- MODULE MCHttpServer -----------------------------
(* HttpServer for TLC. *)
EXTENDS HttpServer, TLC

CONSTANTS c1, c2, r1, r2, r3

\* Connections are alike, and so are records.
Symmetry == Permutations(Conns) \cup Permutations(Records)
=============================================================================
