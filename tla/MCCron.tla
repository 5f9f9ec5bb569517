------------------------------- MODULE MCCron --------------------------------
(* Cron for TLC: which handle asks for which name. *)
EXTENDS Cron, TLC

CONSTANTS h1, h2, h3, h4, n1, n2, n3

\* Every handle has its own name.
OwnName == h1 :> n1 @@ h2 :> n2 @@ h3 :> n3

\* Three handles use one name, one after the other.
SharedName == h1 :> n1 @@ h2 :> n1 @@ h3 :> n1 @@ h4 :> n2
=============================================================================
