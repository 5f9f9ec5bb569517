----------------------------- MODULE SerialQueue -----------------------------
(***************************************************************************)
(* What cli/util/sync.rs promises of a TaskQueue: "executes tasks          *)
(* sequentially one after the other ensuring order and that no task runs   *)
(* at the same time as another".  A task joins at the moment it calls      *)
(* acquire(), which hands out increasing tickets; it starts when nobody    *)
(* runs and nobody who joined before it is still waiting; it may walk away *)
(* before it starts.                                                       *)
(***************************************************************************)
EXTENDS Naturals

CONSTANT Tasks

VARIABLES
  status,   \* what each task is doing
  ticket,   \* the order in which the tasks joined (0: has not joined)
  joined    \* how many tasks have joined

vars == <<status, ticket, joined>>

Status == {"absent", "waiting", "running", "gone"}

Init ==
  /\ status = [t \in Tasks |-> "absent"]
  /\ ticket = [t \in Tasks |-> 0]
  /\ joined = 0

Join(t) ==
  /\ status[t] = "absent"
  /\ status' = [status EXCEPT ![t] = "waiting"]
  /\ ticket' = [ticket EXCEPT ![t] = joined + 1]
  /\ joined' = joined + 1

Start(t) ==
  /\ status[t] = "waiting"
  /\ \A u \in Tasks : status[u] # "running"
  /\ \A u \in Tasks : status[u] = "waiting" => ticket[t] <= ticket[u]
  /\ status' = [status EXCEPT ![t] = "running"]
  /\ UNCHANGED <<ticket, joined>>

Leave(t) ==
  /\ status[t] \in {"waiting", "running"}
  /\ status' = [status EXCEPT ![t] = "gone"]
  /\ UNCHANGED <<ticket, joined>>

Next == \E t \in Tasks : Join(t) \/ Start(t) \/ Leave(t)

Spec == Init /\ [][Next]_vars
=============================================================================
