----------------------------- MODULE MCWebWorker -----------------------------
(* WebWorker for TLC; the constants get their values in the configurations. *)
EXTENDS WebWorker
=============================================================================
