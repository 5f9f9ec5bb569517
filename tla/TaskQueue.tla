------------------------------ MODULE TaskQueue ------------------------------
(***************************************************************************)
(* cli/util/sync.rs: TaskQueue, the FIFO lock that serialises updates of   *)
(* the module graph and of the npm resolution snapshot.                    *)
(*                                                                         *)
(* A task is one call of acquire() and the item that call allocates.  The  *)
(* sections under the mutex are single steps.  Outside the mutex the code  *)
(* works on atomics, so each load, raise, register and wake is a step of   *)
(* its own: raise_next() runs partly after the unlock, poll() reads        *)
(* is_ready before it registers the waker, and the future's Drop reads     *)
(* is_ready before it raises is_future_dropped.  Tasks on one thread only  *)
(* interleave between such handlers; tasks on different threads interleave *)
(* between any two steps.                                                  *)
(***************************************************************************)
EXTENDS Naturals, Sequences

CONSTANTS
  Tasks,        \* calls of acquire()
  Threads,      \* the threads the tasks run on
  ThreadOf,     \* where each task runs
  Cancellable,  \* tasks whose acquire future may be dropped before it completes
  NoTask        \* no item

ASSUME ThreadAssumption == ThreadOf \in [Tasks -> Threads]
ASSUME CancellableAssumption == Cancellable \subseteq Tasks
ASSUME NoTaskAssumption == NoTask \notin Tasks

VARIABLES
  is_running,         \* TaskQueueTasks.is_running
  items,              \* TaskQueueTasks.items
  is_ready,           \* TaskQueueTaskItem.is_ready
  is_future_dropped,  \* TaskQueueTaskItem.is_future_dropped
  waker,              \* whether TaskQueueTaskItem.waker holds a waker
  pc,                 \* where each task is
  front_item,         \* the item a task took off the queue in raise_next()
  woken,              \* whether the executor has been told to poll the task
  ticket, joined      \* history: the order of the acquire() calls

queue == <<is_running, items>>
flags == <<is_ready, is_future_dropped>>
exec == <<waker, woken>>
history == <<ticket, joined>>
vars == <<is_running, items, is_ready, is_future_dropped, waker, pc,
          front_item, woken, ticket, joined>>

Idle == {"created", "parked"}    \* the acquire future exists and is not being run
MidHandler == {"polling", "dropping", "raising", "waking"}
PC == {"absent", "permit", "done"} \cup Idle \cup MidHandler

Init ==
  /\ is_running = FALSE
  /\ items = <<>>
  /\ is_ready = [t \in Tasks |-> FALSE]
  /\ is_future_dropped = [t \in Tasks |-> FALSE]
  /\ waker = [t \in Tasks |-> FALSE]
  /\ pc = [t \in Tasks |-> "absent"]
  /\ front_item = [t \in Tasks |-> NoTask]
  /\ woken = [t \in Tasks |-> FALSE]
  /\ ticket = [t \in Tasks |-> 0]
  /\ joined = 0

\* A thread runs a handler to its end before it runs another of its tasks.
OnThread(t) ==
  \A u \in Tasks \ {t} : ThreadOf[u] = ThreadOf[t] => pc[u] \notin MidHandler

goto(t, l) == pc' = [pc EXCEPT ![t] = l]

-----------------------------------------------------------------------------
(* TaskQueuePermitAcquireFuture::new *)

\* Mutant: acquire() does not look at is_running.
new_always_ready(t) ==
  /\ is_running' = TRUE
  /\ is_ready' = [is_ready EXCEPT ![t] = TRUE]
  /\ UNCHANGED items

\* The item takes the free queue, or waits in line.
new(t) ==
  IF ~is_running
  THEN /\ is_running' = TRUE
       /\ is_ready' = [is_ready EXCEPT ![t] = TRUE]
       /\ UNCHANGED items
  ELSE /\ items' = Append(items, t)
       /\ UNCHANGED <<is_running, is_ready>>

Acquire(t) ==
  /\ pc[t] = "absent"
  /\ OnThread(t)
  /\ new(t)
  /\ goto(t, "created")
  /\ woken' = [woken EXCEPT ![t] = TRUE]  \* a new future is polled once
  /\ joined' = joined + 1
  /\ ticket' = [ticket EXCEPT ![t] = joined + 1]
  /\ UNCHANGED <<is_future_dropped, waker, front_item>>

-----------------------------------------------------------------------------
(* raise_next *)

\* Positions of the items whose future still exists.
Live == {i \in DOMAIN items : ~is_future_dropped[items[i]]}

\* Mutant: is_running is not reset when nobody is left.
TakeFrontStaysRunning(t) ==
  \/ /\ Live = {}
     /\ items' = <<>>
     /\ goto(t, "done")
     /\ UNCHANGED <<is_running, front_item>>
  \/ \E i \in Live :
       /\ \A j \in Live : i <= j
       /\ items' = SubSeq(items, i + 1, Len(items))
       /\ is_running' = TRUE
       /\ front_item' = [front_item EXCEPT ![t] = items[i]]
       /\ goto(t, "raising")

\* Mutant: the popped item is used without looking whether there was one.
TakeFrontUnchecked(t) ==
  /\ items' = IF items = <<>> THEN items ELSE Tail(items)
  /\ is_running' = (items # <<>>)
  /\ front_item' = [front_item EXCEPT ![t] = IF items = <<>> THEN NoTask ELSE Head(items)]
  /\ goto(t, "raising")

\* The part under the mutex: drop the items of dropped futures off the front,
\* then take the first live one.
TakeFront(t) ==
  \/ /\ Live = {}
     /\ items' = <<>>
     /\ is_running' = FALSE
     /\ goto(t, "done")
     /\ UNCHANGED front_item
  \/ \E i \in Live :
       /\ \A j \in Live : i <= j
       /\ items' = SubSeq(items, i + 1, Len(items))
       /\ is_running' = TRUE
       /\ front_item' = [front_item EXCEPT ![t] = items[i]]
       /\ goto(t, "raising")

\* front_item.is_ready.raise(), after the unlock
RaiseReady(t) ==
  /\ pc[t] = "raising"
  /\ OnThread(t)
  /\ is_ready' = [is_ready EXCEPT ![front_item[t]] = TRUE]
  /\ goto(t, "waking")
  /\ UNCHANGED <<queue, is_future_dropped, exec, front_item, history>>

\* front_item.waker.wake(): takes the registered waker, if there is one
Wake(t) ==
  /\ pc[t] = "waking"
  /\ OnThread(t)
  /\ LET u == front_item[t] IN
       /\ woken' = [woken EXCEPT ![u] = @ \/ waker[u]]
       /\ waker' = [waker EXCEPT ![u] = FALSE]
  /\ goto(t, "done")
  /\ UNCHANGED <<queue, flags, front_item, history>>

-----------------------------------------------------------------------------
(* Future::poll; the executor may poll a future it was not told to *)

PollReady(t) ==
  /\ pc[t] \in Idle
  /\ OnThread(t)
  /\ is_ready[t]
  /\ goto(t, "permit")
  /\ woken' = [woken EXCEPT ![t] = FALSE]
  /\ UNCHANGED <<queue, flags, waker, front_item, history>>

PollNotReady(t) ==
  /\ pc[t] \in Idle
  /\ OnThread(t)
  /\ ~is_ready[t]
  /\ goto(t, "polling")
  /\ woken' = [woken EXCEPT ![t] = FALSE]
  /\ UNCHANGED <<queue, flags, waker, front_item, history>>

\* Mutant: poll() returns Pending without registering the waker.
PollForgetsWaker(t) ==
  /\ pc[t] = "polling"
  /\ OnThread(t)
  /\ goto(t, "parked")
  /\ UNCHANGED <<queue, flags, exec, front_item, history>>

PollRegister(t) ==
  /\ pc[t] = "polling"
  /\ OnThread(t)
  /\ waker' = [waker EXCEPT ![t] = TRUE]
  /\ goto(t, "parked")
  /\ UNCHANGED <<queue, flags, front_item, woken, history>>

-----------------------------------------------------------------------------
(* Drop of the permit and of the acquire future *)

DropPermit(t) ==
  /\ pc[t] = "permit"
  /\ OnThread(t)
  /\ TakeFront(t)
  /\ UNCHANGED <<flags, exec, history>>

\* Mutant: every dropped future raises the next one, ready or not.
DropFutureAlwaysRaises(t) ==
  /\ t \in Cancellable
  /\ pc[t] \in Idle
  /\ OnThread(t)
  /\ TakeFront(t)
  /\ UNCHANGED <<flags, exec, history>>

DropFutureReady(t) ==
  /\ t \in Cancellable
  /\ pc[t] \in Idle
  /\ OnThread(t)
  /\ is_ready[t]
  /\ TakeFront(t)
  /\ UNCHANGED <<flags, exec, history>>

DropFutureNotReady(t) ==
  /\ t \in Cancellable
  /\ pc[t] \in Idle
  /\ OnThread(t)
  /\ ~is_ready[t]
  /\ goto(t, "dropping")
  /\ UNCHANGED <<queue, flags, exec, front_item, history>>

RaiseFutureDropped(t) ==
  /\ pc[t] = "dropping"
  /\ OnThread(t)
  /\ is_future_dropped' = [is_future_dropped EXCEPT ![t] = TRUE]
  /\ goto(t, "done")
  /\ UNCHANGED <<queue, is_ready, exec, front_item, history>>

Poll(t) == PollReady(t) \/ PollNotReady(t)
Finish(t) == RaiseReady(t) \/ Wake(t) \/ PollRegister(t) \/ RaiseFutureDropped(t)

Next ==
  \E t \in Tasks :
    \/ Acquire(t) \/ Poll(t) \/ DropPermit(t)
    \/ DropFutureReady(t) \/ DropFutureNotReady(t) \/ Finish(t)

\* A started handler runs to its end.  The executor's run queue is first in first
\* out, so a task that was woken is polled however often its thread is busy with
\* others, and the holder of a permit gets its work done and drops it.
Fairness ==
  \A t \in Tasks : /\ SF_vars(Poll(t) /\ woken[t])
                   /\ WF_vars(Finish(t))
                   /\ SF_vars(DropPermit(t))

Spec == Init /\ [][Next]_vars
FairSpec == Spec /\ Fairness
-----------------------------------------------------------------------------
TypeOK ==
  /\ is_running \in BOOLEAN
  /\ items \in Seq(Tasks)
  /\ is_ready \in [Tasks -> BOOLEAN]
  /\ is_future_dropped \in [Tasks -> BOOLEAN]
  /\ waker \in [Tasks -> BOOLEAN]
  /\ pc \in [Tasks -> PC]
  /\ front_item \in [Tasks -> Tasks \cup {NoTask}]
  /\ \A t \in Tasks : pc[t] \in {"raising", "waking"} => front_item[t] \in Tasks
  /\ woken \in [Tasks -> BOOLEAN]
  /\ ticket \in [Tasks -> Nat]
  /\ joined \in Nat

\* "no task runs at the same time as another" (sync.rs:41-42): two tasks never
\* hold a permit at once, whatever polls, drops and hand-overs interleave.
MutualExclusion ==
  \A t, u \in Tasks : pc[t] = "permit" /\ pc[u] = "permit" => t = u

\* "in the order that they were acquired" (sync.rs:52-53): once a task holds
\* the permit, every task that called acquire() earlier has released its permit
\* or has given up.
AcquireOrder ==
  \A t, u \in Tasks :
    /\ pc[t] = "permit"
    /\ pc[u] # "absent"
    /\ ticket[u] < ticket[t]
    => pc[u] \in {"waking", "done"}

\* The tasks that carry the queue's single right to run: a task in the middle of
\* handing it over, or one whose item is ready and has not handed it over.
Baton ==
  {t \in Tasks :
     \/ pc[t] = "raising"
     \/ /\ is_ready[t]
        /\ \/ pc[t] \in Idle \cup {"polling", "permit", "dropping"}
           \/ is_future_dropped[t]}

\* The baton exists exactly while is_running, and once.
BatonInv ==
  /\ is_running <=> Baton # {}
  /\ \A t, u \in Baton : t = u

\* A task waits in the queue from acquire() until raise_next() takes it off;
\* queued tasks are in ticket order and not ready; only a busy queue has any.
ItemsInv ==
  /\ \A i, j \in DOMAIN items : i < j => ticket[items[i]] < ticket[items[j]]
  /\ \A i \in DOMAIN items :
       pc[items[i]] # "absent" /\ ~is_ready[items[i]]
  /\ ~is_running => items = <<>>

\* An item that was taken off the queue is not ready yet, is not queued, and was
\* before everything that is.
FrontInv ==
  \A t \in Tasks : pc[t] \in {"raising", "waking"} =>
    /\ front_item[t] \in Tasks
    /\ pc[front_item[t]] # "absent"
    /\ pc[t] = "raising" =>
         /\ ~is_ready[front_item[t]]
         /\ \A i \in DOMAIN items :
              ticket[front_item[t]] < ticket[items[i]]

\* Tickets are distinct, and every earlier task that is neither ready, given up
\* nor about to be made ready still stands in line.
TicketInv ==
  /\ \A t \in Tasks : ticket[t] <= joined
  /\ \A t \in Tasks : pc[t] = "absent" <=> ticket[t] = 0
  /\ \A t, u \in Tasks : ticket[t] = ticket[u] /\ ticket[t] # 0 => t = u
  /\ \A t \in Tasks : is_ready[t] => pc[t] # "absent"
  /\ \A t \in Tasks : pc[t] = "permit" => is_ready[t]
  /\ \A t \in Tasks : is_future_dropped[t] => pc[t] = "done"
  /\ \A t \in Tasks :
       \/ pc[t] \in {"raising", "waking"}
       \/ pc[t] = "done" /\ ~is_future_dropped[t]
       => is_ready[t]

\* A task that has joined, is not ready and has not given up is in line or is
\* the front item of a hand-over; everyone ready joined before everyone in line.
LineInv ==
  /\ \A t \in Tasks :
       /\ pc[t] \in Idle \cup {"polling", "dropping"}
       /\ ~is_ready[t]
       => \/ \E i \in DOMAIN items : items[i] = t
          \/ \E u \in Tasks : pc[u] = "raising" /\ front_item[u] = t
  /\ \A t \in Tasks : is_ready[t] =>
       \A i \in DOMAIN items : ticket[t] < ticket[items[i]]
  /\ \A t, u \in Tasks :
       is_ready[t] /\ pc[u] = "raising" => ticket[t] < ticket[front_item[u]]

\* The inductive invariant behind MutualExclusion and AcquireOrder: the hand-over
\* in raise_next(), half of it after the unlock, never duplicates the right to
\* run, never leaves is_running set without it, and never reorders the line.
Handover == BatonInv /\ ItemsInv /\ FrontInv /\ TicketInv /\ LineInv

\* "A permit that when dropped will allow another task to proceed" (sync.rs:99):
\* every task that called acquire() gets its permit or gives up.
EveryTaskProceeds ==
  \A t \in Tasks : pc[t] = "created" ~> pc[t] \in {"permit", "done"}

\* Refinement: the abstract queue sees a task waiting from acquire() until its
\* poll returns the permit or its future is gone.
TaskStatus ==
  [t \in Tasks |->
     CASE pc[t] = "absent" -> "absent"
       [] pc[t] \in Idle \cup {"polling", "dropping"} -> "waiting"
       [] pc[t] = "permit" -> "running"
       [] OTHER -> "gone"]

Abs == INSTANCE SerialQueue WITH status <- TaskStatus

\* The queue, with its hand-over in steps, implements the abstract serial queue.
ImplementsSerialQueue == Abs!Spec
=============================================================================
