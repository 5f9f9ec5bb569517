------------------------------ MODULE MCPipeTo ------------------------------
(* PipeTo for TLC: PipeTo.cfg gives the constants their values.            *)
EXTENDS PipeTo
=============================================================================
