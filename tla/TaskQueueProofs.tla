--------------------------- MODULE TaskQueueProofs ---------------------------
(***************************************************************************)
(* The task queue keeps its permits exclusive and in order for every set   *)
(* of tasks, every assignment of tasks to threads and every set of         *)
(* cancellable tasks.                                                      *)
(***************************************************************************)
EXTENDS TaskQueue, TLAPS

\* The conjuncts of TypeOK but the one about the sequence of items.
TypeRest ==
  /\ is_running \in BOOLEAN
  /\ is_ready \in [Tasks -> BOOLEAN]
  /\ is_future_dropped \in [Tasks -> BOOLEAN]
  /\ waker \in [Tasks -> BOOLEAN]
  /\ pc \in [Tasks -> PC]
  /\ front_item \in [Tasks -> Tasks \cup {NoTask}]
  /\ \A t \in Tasks : pc[t] \in {"raising", "waking"} => front_item[t] \in Tasks
  /\ woken \in [Tasks -> BOOLEAN]
  /\ ticket \in [Tasks -> Nat]
  /\ joined \in Nat

\* TypeOK is the type of the items and that of everything else.
LEMMA TypeSplit == TypeOK <=> items \in Seq(Tasks) /\ TypeRest
  BY DEF TypeOK, TypeRest

\* raise_next() under the mutex, in its two outcomes: nobody is left, or the
\* first live item is taken.
NobodyLeft(t) ==
  /\ Live = {} /\ items' = <<>> /\ is_running' = FALSE
  /\ pc' = [pc EXCEPT ![t] = "done"] /\ front_item' = front_item

TakesItem(t, i) ==
  /\ \A j \in Live : i <= j
  /\ items' = SubSeq(items, i + 1, Len(items)) /\ is_running' = TRUE
  /\ pc' = [pc EXCEPT ![t] = "raising"]
  /\ front_item' = [front_item EXCEPT ![t] = items[i]]

\* A step that releases the right to run: the drop of a permit, or of an acquire
\* future that is ready.
Releases(t) ==
  /\ pc[t] \in Idle \cup {"permit"}
  /\ pc[t] \in Idle => is_ready[t]
  /\ NobodyLeft(t) \/ \E i \in Live : TakesItem(t, i)
  /\ is_ready' = is_ready /\ is_future_dropped' = is_future_dropped
  /\ waker' = waker /\ woken' = woken /\ ticket' = ticket /\ joined' = joined

\* Every step is one of these.
LEMMA NextCases ==
  ASSUME [Next]_vars
  PROVE  \/ \E t \in Tasks : \/ Acquire(t) \/ PollReady(t) \/ PollNotReady(t)
                             \/ PollRegister(t) \/ Releases(t) \/ RaiseReady(t)
                             \/ Wake(t) \/ DropFutureNotReady(t)
                             \/ RaiseFutureDropped(t)
         \/ UNCHANGED vars
<1>1. ASSUME NEW t \in Tasks, DropPermit(t) PROVE Releases(t)
  BY <1>1 DEF DropPermit, TakeFront, Releases, NobodyLeft, TakesItem, goto,
              flags, exec, history, Idle
<1>2. ASSUME NEW t \in Tasks, DropFutureReady(t) PROVE Releases(t)
  BY <1>2 DEF DropFutureReady, TakeFront, Releases, NobodyLeft, TakesItem, goto,
              flags, exec, history, Idle
<1> QED BY <1>1, <1>2 DEF Next, Poll, Finish

\* The live item that raise_next() takes is a queued task.
LEMMA TakenItem ==
  ASSUME items \in Seq(Tasks), NEW i \in Live
  PROVE  i \in 1..Len(items) /\ i \in DOMAIN items /\ items[i] \in Tasks
         /\ ~is_future_dropped[items[i]]
  BY DEF Live

\* acquire() keeps every variable but the items in its type.
LEMMA AcquireTyped ==
  ASSUME TypeRest, NEW t \in Tasks, Acquire(t) PROVE TypeRest'
<1>1. is_running' \in BOOLEAN /\ is_ready' \in [Tasks -> BOOLEAN]
  BY DEF Acquire, new, TypeRest
<1>2. pc' \in [Tasks -> PC]
  BY DEF Acquire, goto, TypeRest, PC, Idle
<1>3. /\ is_future_dropped' \in [Tasks -> BOOLEAN] /\ waker' \in [Tasks -> BOOLEAN]
      /\ front_item' \in [Tasks -> Tasks \cup {NoTask}]
      /\ woken' \in [Tasks -> BOOLEAN] /\ ticket' \in [Tasks -> Nat] /\ joined' \in Nat
  BY DEF Acquire, TypeRest
<1>4. (\A v \in Tasks : pc[v] \in {"raising", "waking"} => front_item[v] \in Tasks)'
  BY DEF Acquire, goto, TypeRest
<1> QED BY <1>1, <1>2, <1>3, <1>4 DEF TypeRest

\* Every step of the queue keeps every variable in its type.
LEMMA TypeStep == TypeOK /\ [Next]_vars => TypeOK'
<1> SUFFICES ASSUME items \in Seq(Tasks), TypeRest, [Next]_vars
             PROVE  items' \in Seq(Tasks) /\ TypeRest'
  BY TypeSplit DEF TypeOK, TypeRest
<1>1. ASSUME NEW t \in Tasks, Acquire(t) PROVE items' \in Seq(Tasks) /\ TypeRest'
  <2>1. CASE is_running
    <3>1. items' = Append(items, t)
      BY <1>1, <2>1 DEF Acquire, new
    <3>2. items' \in Seq(Tasks)
      BY <3>1
    <3> QED BY <1>1, <3>2, AcquireTyped
  <2>2. CASE ~is_running
    <3>1. items' = items
      BY <1>1, <2>2 DEF Acquire, new
    <3>2. items' \in Seq(Tasks)
      BY <3>1
    <3> QED BY <1>1, <3>2, AcquireTyped
  <2> QED BY <2>1, <2>2
<1>2. ASSUME NEW t \in Tasks, Releases(t) PROVE items' \in Seq(Tasks) /\ TypeRest'
  <2>1. CASE NobodyLeft(t)
    <3>1. items' = <<>>
      BY <2>1 DEF NobodyLeft
    <3>2. items' \in Seq(Tasks)
      BY <3>1
    <3>3. TypeRest'
      BY <1>2, <2>1 DEF Releases, NobodyLeft, TypeRest, PC
    <3> QED BY <3>2, <3>3
  <2>2. ASSUME NEW i \in Live, TakesItem(t, i)
        PROVE  items' \in Seq(Tasks) /\ TypeRest'
    <3>1. i \in 1..Len(items) /\ items[i] \in Tasks
      BY TakenItem
    <3>2. items' \in Seq(Tasks)
      BY <2>2, <3>1 DEF TakesItem
    <3> QED BY <1>2, <2>2, <3>1, <3>2
            DEF Releases, TakesItem, TypeRest, PC, MidHandler
  <2> QED BY <1>2, <2>1, <2>2 DEF Releases
<1>3. ASSUME NEW t \in Tasks,
             \/ PollReady(t) \/ PollNotReady(t) \/ PollRegister(t)
             \/ RaiseReady(t) \/ Wake(t) \/ DropFutureNotReady(t)
             \/ RaiseFutureDropped(t)
      PROVE  items' \in Seq(Tasks) /\ TypeRest'
  BY <1>3, ZenonT(60) DEF PollReady, PollNotReady, PollRegister, RaiseReady, Wake,
              DropFutureNotReady, RaiseFutureDropped, goto, queue, flags, exec,
              history, TypeRest, PC, Idle, MidHandler
<1>4. CASE UNCHANGED vars
  BY <1>4 DEF vars, TypeRest
<1> QED BY <1>1, <1>2, <1>3, <1>4, NextCases

\* Every reachable state is well typed.
THEOREM TypeCorrect == Spec => []TypeOK
<1>1. Init => TypeOK
  <2> SUFFICES ASSUME Init PROVE items \in Seq(Tasks) /\ TypeRest
    BY TypeSplit
  <2>1. items \in Seq(Tasks)
    BY DEF Init
  <2>2. TypeRest
    BY DEF Init, TypeRest, PC
  <2> QED BY <2>1, <2>2
<1> QED BY <1>1, TypeStep, PTL DEF Spec

-----------------------------------------------------------------------------
(* Handover is inductive. *)

\* A step that only moves tasks between places that mean the same to the queue.
QuietStep(t) ==
  /\ items' = items /\ is_running' = is_running /\ ticket' = ticket
  /\ joined' = joined /\ is_ready' = is_ready /\ front_item' = front_item
  /\ \/ /\ is_future_dropped' = is_future_dropped
        /\ \/ /\ pc[t] \in Idle /\ is_ready[t]
              /\ pc' = [pc EXCEPT ![t] = "permit"]
           \/ /\ pc[t] \in Idle
              /\ \E l \in {"polling", "dropping"} : pc' = [pc EXCEPT ![t] = l]
           \/ pc[t] = "polling" /\ pc' = [pc EXCEPT ![t] = "parked"]
           \/ pc[t] = "waking" /\ pc' = [pc EXCEPT ![t] = "done"]
     \/ /\ pc[t] = "dropping" /\ pc' = [pc EXCEPT ![t] = "done"]
        /\ is_future_dropped' = [is_future_dropped EXCEPT ![t] = TRUE]

\* Polls, registrations, wake-ups and cancelled futures are such steps.
LEMMA QuietSteps ==
  ASSUME NEW t \in Tasks,
         \/ PollReady(t) \/ PollNotReady(t) \/ PollRegister(t) \/ Wake(t)
         \/ DropFutureNotReady(t) \/ RaiseFutureDropped(t)
  PROVE  QuietStep(t)
  BY DEF PollReady, PollNotReady, PollRegister, Wake, DropFutureNotReady,
         RaiseFutureDropped, goto, queue, flags, exec, history, QuietStep

\* A quiet step keeps the hand-over intact.
LEMMA QuietKeeps ==
  ASSUME TypeOK, Handover, NEW t \in Tasks, QuietStep(t)
  PROVE  Handover'
<1> USE DEF TypeOK, Handover
<1>1. BatonInv'
  <2>1. Baton' = Baton
    BY DEF QuietStep, Baton, TicketInv, Idle, PC, MidHandler
  <2> QED BY <2>1 DEF QuietStep, BatonInv
<1>2. ItemsInv'
  BY DEF QuietStep, ItemsInv, Idle
<1>3. FrontInv'
  BY DEF QuietStep, FrontInv, Idle
<1>4. TicketInv'
  <2>1. /\ (\A u \in Tasks : ticket[u] <= joined)'
        /\ (\A u, v \in Tasks : ticket[u] = ticket[v] /\ ticket[u] # 0 => u = v)'
    BY DEF QuietStep, TicketInv
  <2>2. /\ (\A u \in Tasks : pc[u] = "absent" <=> ticket[u] = 0)'
        /\ (\A u \in Tasks : is_ready[u] => pc[u] # "absent")'
    BY DEF QuietStep, TicketInv, Idle
  <2>3. (\A u \in Tasks : pc[u] = "permit" => is_ready[u])'
    BY DEF QuietStep, TicketInv, Idle
  <2>4. (\A u \in Tasks : is_future_dropped[u] => pc[u] = "done")'
    BY DEF QuietStep, TicketInv, Idle
  <2>5. (\A u \in Tasks :
           \/ pc[u] \in {"raising", "waking"}
           \/ pc[u] = "done" /\ ~is_future_dropped[u]
           => is_ready[u])'
    BY DEF QuietStep, TicketInv, Idle
  <2> QED BY <2>1, <2>2, <2>3, <2>4, <2>5 DEF TicketInv
<1>5. LineInv'
  <2>1. \A u \in Tasks : pc'[u] = "raising" <=> pc[u] = "raising"
    BY DEF QuietStep, Idle
  <2>2. \A u \in Tasks : pc'[u] \in Idle \cup {"polling", "dropping"}
                         => pc[u] \in Idle \cup {"polling", "dropping"}
    BY DEF QuietStep, Idle
  <2>3. /\ items' = items /\ ticket' = ticket /\ is_ready' = is_ready
        /\ front_item' = front_item
    BY DEF QuietStep
  <2> HIDE DEF TypeOK
  <2> QED BY <2>1, <2>2, <2>3 DEF LineInv
<1> QED BY <1>1, <1>2, <1>3, <1>4, <1>5

\* is_ready.raise() after the unlock passes the baton to the front item.
LEMMA RaiseReadyKeeps ==
  ASSUME TypeOK, Handover, NEW t \in Tasks, RaiseReady(t)
  PROVE  Handover'
<1> DEFINE u == front_item[t]
<1>1. /\ pc[t] = "raising" /\ pc' = [pc EXCEPT ![t] = "waking"]
      /\ is_ready' = [is_ready EXCEPT ![u] = TRUE]
      /\ items' = items /\ is_running' = is_running /\ ticket' = ticket
      /\ joined' = joined /\ front_item' = front_item
      /\ is_future_dropped' = is_future_dropped
  BY DEF RaiseReady, goto, queue, exec, history
<1>2. /\ u \in Tasks /\ pc[u] # "absent" /\ ~is_ready[u]
      /\ \A i \in DOMAIN items : ticket[u] < ticket[items[i]]
  BY <1>1 DEF Handover, FrontInv
<1>3. \A v \in Baton : v = t
  BY <1>1 DEF Handover, BatonInv, Baton
<1>4. pc[u] \in Idle \cup {"polling", "dropping"} \/ is_future_dropped[u]
  BY <1>2 DEF TypeOK, PC, Idle, MidHandler, Handover, TicketInv
<1>5. t # u
  BY <1>1, <1>2 DEF Handover, TicketInv
<1>6. items \in Seq(Tasks) /\ ticket \in [Tasks -> Nat]
  BY DEF TypeOK
<1>7. BatonInv'
  <2>1. Baton' = {u}
    BY <1>1, <1>2, <1>3, <1>4, <1>5 DEF Baton, TypeOK, Idle, Handover, TicketInv
  <2>2. is_running
    BY <1>1 DEF Handover, BatonInv, Baton
  <2> QED BY <1>1, <2>1, <2>2 DEF BatonInv
<1>8. \A i \in DOMAIN items : items[i] \in Tasks /\ items[i] # u
  BY <1>2, <1>6
<1>9. ItemsInv'
  <2>1. (\A i \in DOMAIN items : pc[items[i]] # "absent" /\ ~is_ready[items[i]])'
    BY <1>1, <1>2, <1>8 DEF TypeOK, Handover, ItemsInv
  <2> QED BY <1>1, <2>1 DEF Handover, ItemsInv
<1>10. FrontInv'
  <2> SUFFICES ASSUME NEW v \in Tasks, pc'[v] \in {"raising", "waking"}
               PROVE  /\ front_item[v] \in Tasks /\ pc'[front_item[v]] # "absent"
                      /\ pc'[v] # "raising"
    BY <1>1 DEF FrontInv
  <2>1. pc'[v] # "raising"
    BY <1>1, <1>3 DEF TypeOK, Baton
  <2> QED BY <1>1, <2>1 DEF TypeOK, Handover, FrontInv
<1>11. TicketInv'
  <2>1. \A v \in Tasks : is_ready'[v] => is_ready[v] \/ v = u
    BY <1>1 DEF TypeOK
  <2>2. \A v \in Tasks : is_ready[v] => is_ready'[v]
    BY <1>1 DEF TypeOK
  <2>3. \A v \in Tasks : v # t => pc'[v] = pc[v]
    BY <1>1 DEF TypeOK
  <2>4. pc'[t] = "waking"
    BY <1>1 DEF TypeOK
  <2> QED BY <1>1, <1>2, <1>5, <2>1, <2>2, <2>3, <2>4 DEF Handover, TicketInv
<1>12. LineInv'
  <2>1. \A v \in Tasks : pc[v] = "raising" => v = t
    BY <1>3 DEF Baton
  <2>2. \A v \in Tasks : pc'[v] # "raising"
    BY <1>1, <2>1 DEF TypeOK
  <2>3. \A v \in Tasks : is_ready'[v] <=> is_ready[v] \/ v = u
    BY <1>1, <1>2 DEF TypeOK
  <2>4. \A v \in Tasks : pc'[v] \in Idle \cup {"polling", "dropping"}
                         => pc[v] \in Idle \cup {"polling", "dropping"}
    BY <1>1 DEF TypeOK, Idle
  <2>5. \A v \in Tasks :
          pc[v] \in Idle \cup {"polling", "dropping"} /\ ~is_ready[v] /\ v # u
          => \E i \in DOMAIN items : items[i] = v
    BY <2>1 DEF Handover, LineInv
  <2>6. \A v \in Tasks : is_ready[v] \/ v = u =>
          \A i \in DOMAIN items : ticket[v] < ticket[items[i]]
    BY <1>2 DEF Handover, LineInv
  <2> QED BY <1>1, <2>2, <2>3, <2>4, <2>5, <2>6 DEF LineInv
<1> QED BY <1>7, <1>9, <1>10, <1>11, <1>12 DEF Handover

\* acquire() takes a free queue, or a place at the end of the line.
LEMMA AcquireKeeps ==
  ASSUME TypeOK, Handover, NEW t \in Tasks, Acquire(t)
  PROVE  Handover'
<1>1. /\ pc[t] = "absent" /\ pc' = [pc EXCEPT ![t] = "created"]
      /\ joined' = joined + 1 /\ ticket' = [ticket EXCEPT ![t] = joined + 1]
      /\ front_item' = front_item /\ is_future_dropped' = is_future_dropped
  BY DEF Acquire, goto
<1>2. /\ ticket[t] = 0 /\ ~is_ready[t] /\ ~is_future_dropped[t]
      /\ t \notin Baton
  BY <1>1 DEF Handover, TicketInv, Baton, Idle
<1>3. /\ items \in Seq(Tasks) /\ ticket \in [Tasks -> Nat] /\ joined \in Nat
      /\ pc \in [Tasks -> PC] /\ is_ready \in [Tasks -> BOOLEAN]
      /\ is_future_dropped \in [Tasks -> BOOLEAN]
  BY DEF TypeOK
<1>4. \A v \in Tasks : v # t => pc'[v] = pc[v] /\ ticket'[v] = ticket[v]
  BY <1>1, <1>3
<1>5. pc'[t] = "created" /\ ticket'[t] = joined + 1
  BY <1>1, <1>3
<1>6. \A i \in DOMAIN items : items[i] \in Tasks /\ items[i] # t
  BY <1>1, <1>3 DEF Handover, ItemsInv
<1>7. \A v \in Tasks : pc[v] \in {"raising", "waking"} =>
        front_item[v] \in Tasks /\ front_item[v] # t
  BY <1>1 DEF Handover, FrontInv
<1>8. \A v \in Tasks : ticket[v] <= joined
  BY DEF Handover, TicketInv
<1>9. CASE ~is_running
  <2>1. /\ is_running' = TRUE /\ is_ready' = [is_ready EXCEPT ![t] = TRUE]
        /\ items' = items
    BY <1>9 DEF Acquire, new
  <2>2. items = <<>> /\ Baton = {}
    BY <1>9 DEF Handover, ItemsInv, BatonInv
  <2>3. \A v \in Tasks : is_ready'[v] <=> is_ready[v] \/ v = t
    BY <1>3, <2>1
  <2>4. DOMAIN items = {}
    BY <2>2
  <2>5. \A v \in Tasks : pc'[v] # "raising"
    BY <1>4, <1>5, <2>2 DEF Baton
  <2>6. BatonInv'
    <3>1. Baton' = {t}
      BY <1>1, <1>4, <1>5, <2>2, <2>3 DEF Baton, Idle
    <3> QED BY <2>1, <3>1 DEF BatonInv
  <2>7. ItemsInv'
    BY <2>1, <2>4 DEF ItemsInv
  <2>8. FrontInv'
    BY <1>1, <1>4, <1>5, <1>7, <2>5 DEF Handover, FrontInv
  <2>9. TicketInv'
    <3>1. (\A v \in Tasks : ticket[v] <= joined)'
      BY <1>1, <1>3, <1>4, <1>5, <1>8
    <3>2. (\A v, w \in Tasks : ticket[v] = ticket[w] /\ ticket[v] # 0 => v = w)'
      BY <1>3, <1>4, <1>5, <1>8 DEF Handover, TicketInv
    <3>3. (\A v \in Tasks : pc[v] = "absent" <=> ticket[v] = 0)'
      BY <1>3, <1>4, <1>5, SMTT(30) DEF Handover, TicketInv
    <3> QED BY <1>1, <1>2, <1>4, <1>5, <2>3, <3>1, <3>2, <3>3
            DEF Handover, TicketInv
  <2>10. LineInv'
    <3>1. (\A v \in Tasks : pc[v] \in Idle \cup {"polling", "dropping"} => is_ready[v])'
      BY <1>4, <1>5, <2>2, <2>3, <2>4 DEF Handover, LineInv, Baton
    <3> QED BY <2>1, <2>4, <2>5, <3>1 DEF LineInv
  <2> QED BY <2>6, <2>7, <2>8, <2>9, <2>10 DEF Handover
<1>10. CASE is_running
  <2>1. is_running' = is_running /\ is_ready' = is_ready /\ items' = Append(items, t)
    BY <1>10 DEF Acquire, new
  <2>2. /\ DOMAIN items' = 1..(Len(items) + 1)
        /\ DOMAIN items = 1..Len(items) /\ Len(items) \in Nat
        /\ \A i \in DOMAIN items : items'[i] = items[i]
        /\ items'[Len(items) + 1] = t
    BY <1>3, <2>1
  <2>3. \A i \in DOMAIN items' : i \in DOMAIN items \/ i = Len(items) + 1
    BY <2>2
  <2>4. BatonInv'
    <3>1. Baton' = Baton
      BY <1>1, <1>2, <1>4, <1>5, <2>1 DEF Baton
    <3> QED BY <2>1, <3>1 DEF Handover, BatonInv
  <2>5. ItemsInv'
    <3>1. ASSUME NEW i \in DOMAIN items', NEW j \in DOMAIN items', i < j
          PROVE  ticket'[items'[i]] < ticket'[items'[j]]
      <4>1. i \in DOMAIN items
        BY <2>2, <3>1
      <4>2. ticket'[items'[i]] = ticket[items[i]] /\ ticket[items[i]] <= joined
            /\ ticket[items[i]] \in Nat
        BY <1>3, <1>4, <1>6, <1>8, <2>2, <4>1
      <4>3. CASE j \in DOMAIN items
        BY <1>4, <1>6, <2>2, <3>1, <4>1, <4>2, <4>3 DEF Handover, ItemsInv
      <4>4. CASE j = Len(items) + 1
        BY <1>3, <1>5, <2>2, <4>2, <4>4
      <4> QED BY <2>3, <4>3, <4>4
    <3>2. ASSUME NEW i \in DOMAIN items'
          PROVE  pc'[items'[i]] # "absent" /\ ~is_ready'[items'[i]]
      <4>1. CASE i \in DOMAIN items
        BY <1>4, <1>6, <2>1, <2>2, <4>1 DEF Handover, ItemsInv
      <4>2. CASE i = Len(items) + 1
        BY <1>2, <1>5, <2>1, <2>2, <4>2
      <4> QED BY <2>3, <4>1, <4>2
    <3> QED BY <1>10, <2>1, <3>1, <3>2 DEF ItemsInv
  <2>6. FrontInv'
    <3>1. ASSUME NEW v \in Tasks, pc'[v] \in {"raising", "waking"}
          PROVE  /\ front_item'[v] \in Tasks /\ pc'[front_item'[v]] # "absent"
                 /\ pc'[v] = "raising" =>
                      /\ ~is_ready'[front_item'[v]]
                      /\ \A i \in DOMAIN items' :
                           ticket'[front_item'[v]] < ticket'[items'[i]]
      <4>1. v # t /\ pc[v] = pc'[v]
        BY <1>4, <1>5, <3>1
      <4>2. /\ front_item'[v] = front_item[v] /\ front_item[v] \in Tasks
            /\ front_item[v] # t /\ pc'[front_item[v]] = pc[front_item[v]]
            /\ ticket'[front_item[v]] = ticket[front_item[v]]
        BY <1>1, <1>4, <1>7, <3>1, <4>1
      <4>3. ASSUME pc[v] = "raising", NEW i \in DOMAIN items'
            PROVE  ticket[front_item[v]] < ticket'[items'[i]]
        <5>1. CASE i \in DOMAIN items
          BY <1>4, <1>6, <2>2, <4>2, <4>3, <5>1 DEF Handover, FrontInv
        <5>2. CASE i = Len(items) + 1
          BY <1>3, <1>5, <1>8, <2>2, <4>2, <5>2
        <5> QED BY <2>3, <5>1, <5>2
      <4> QED BY <2>1, <3>1, <4>1, <4>2, <4>3 DEF Handover, FrontInv
    <3> QED BY <3>1 DEF FrontInv
  <2>7. TicketInv'
    <3>1. (\A v \in Tasks : ticket[v] <= joined)'
      BY <1>1, <1>3, <1>4, <1>5, <1>8
    <3>2. (\A v, w \in Tasks : ticket[v] = ticket[w] /\ ticket[v] # 0 => v = w)'
      BY <1>3, <1>4, <1>5, <1>8 DEF Handover, TicketInv
    <3>3. (\A v \in Tasks : pc[v] = "absent" <=> ticket[v] = 0)'
      BY <1>3, <1>4, <1>5 DEF Handover, TicketInv
    <3> QED BY <1>1, <1>2, <1>4, <1>5, <2>1, <3>1, <3>2, <3>3
            DEF Handover, TicketInv
  <2>8. LineInv'
    <3>1. ASSUME NEW v \in Tasks, pc'[v] \in Idle \cup {"polling", "dropping"},
                 ~is_ready'[v]
          PROVE  \/ \E i \in DOMAIN items' : items'[i] = v
                 \/ \E u \in Tasks : pc'[u] = "raising" /\ front_item'[u] = v
      <4>1. CASE v = t
        BY <2>2, <4>1
      <4>2. CASE v # t
        <5>1. \/ \E i \in DOMAIN items : items[i] = v
              \/ \E u \in Tasks : pc[u] = "raising" /\ front_item[u] = v
          BY <1>4, <2>1, <3>1, <4>2 DEF Handover, LineInv
        <5>2. CASE \E i \in DOMAIN items : items[i] = v
          BY <2>2, <5>2
        <5>3. CASE \E u \in Tasks : pc[u] = "raising" /\ front_item[u] = v
          BY <1>1, <1>4, <5>3
        <5> QED BY <5>1, <5>2, <5>3
      <4> QED BY <4>1, <4>2
    <3>2. ASSUME NEW v \in Tasks, is_ready'[v], NEW i \in DOMAIN items'
          PROVE  ticket'[v] < ticket'[items'[i]]
      <4>1. v # t /\ is_ready[v] /\ ticket'[v] = ticket[v]
        BY <1>2, <1>4, <2>1, <3>2
      <4>2. CASE i \in DOMAIN items
        BY <1>4, <1>6, <2>2, <4>1, <4>2 DEF Handover, LineInv
      <4>3. CASE i = Len(items) + 1
        BY <1>3, <1>5, <1>8, <2>2, <4>1, <4>3
      <4> QED BY <2>3, <4>2, <4>3
    <3>3. ASSUME NEW v \in Tasks, NEW u \in Tasks, is_ready'[v], pc'[u] = "raising"
          PROVE  ticket'[v] < ticket'[front_item'[u]]
      <4>1. v # t /\ is_ready[v] /\ u # t /\ pc[u] = "raising"
        BY <1>2, <1>4, <1>5, <2>1, <3>3
      <4> QED BY <1>1, <1>4, <1>7, <4>1 DEF Handover, LineInv
    <3> QED BY <3>1, <3>2, <3>3 DEF LineInv
  <2> QED BY <2>4, <2>5, <2>6, <2>7, <2>8 DEF Handover
<1> QED BY <1>9, <1>10

\* raise_next() under the mutex: the releasing task keeps the baton while it
\* hands it to the first live item, or puts it down when nobody is left.
LEMMA ReleaseKeeps ==
  ASSUME TypeOK, Handover, NEW t \in Tasks, Releases(t)
  PROVE  Handover'
<1>1. /\ pc[t] \in Idle \cup {"permit"} /\ is_ready[t]
      /\ is_ready' = is_ready /\ is_future_dropped' = is_future_dropped
      /\ ticket' = ticket /\ joined' = joined
  BY DEF Releases, Handover, TicketInv
<1>2. /\ items \in Seq(Tasks) /\ ticket \in [Tasks -> Nat]
      /\ pc \in [Tasks -> PC] /\ front_item \in [Tasks -> Tasks \cup {NoTask}]
  BY DEF TypeOK
<1>3. t \in Baton /\ \A v \in Baton : v = t
  BY <1>1 DEF Handover, BatonInv, Baton
<1>4. ~is_future_dropped[t]
  BY <1>1 DEF Handover, TicketInv, Idle
<1>5. \A v \in Tasks : pc[v] # "raising"
  BY <1>1, <1>3 DEF Baton, Idle
<1>6. \A v \in Tasks :
        pc[v] \in Idle \cup {"polling", "dropping"} /\ ~is_ready[v]
        => \E i \in DOMAIN items : items[i] = v /\ ~is_future_dropped[v]
  BY <1>5 DEF Handover, LineInv, TicketInv, Idle
<1>7. CASE NobodyLeft(t)
  <2>1. /\ items' = <<>> /\ is_running' = FALSE /\ front_item' = front_item
        /\ pc' = [pc EXCEPT ![t] = "done"]
    BY <1>7 DEF NobodyLeft
  <2>2. DOMAIN items' = {}
    BY <2>1
  <2>3. pc'[t] = "done" /\ \A v \in Tasks : v # t => pc'[v] = pc[v]
    BY <1>2, <2>1
  <2>4. \A v \in Tasks : pc[v] \in Idle \cup {"polling", "dropping"} => is_ready[v]
    BY <1>6, <1>7 DEF NobodyLeft, Live
  <2>5. BatonInv'
    <3>1. Baton' = {}
      BY <1>1, <1>3, <1>4, <2>3 DEF Baton, Idle
    <3> QED BY <2>1, <3>1 DEF BatonInv
  <2>6. ItemsInv'
    BY <2>1, <2>2 DEF ItemsInv
  <2>7. FrontInv'
    BY <1>1, <1>5, <2>1, <2>2, <2>3 DEF Handover, FrontInv
  <2>8. TicketInv'
    <3>1. (\A v \in Tasks : pc[v] = "absent" <=> ticket[v] = 0)'
      BY <1>1, <2>3 DEF Handover, TicketInv, Idle
    <3> QED BY <1>1, <1>4, <2>3, <3>1 DEF Handover, TicketInv
  <2>9. LineInv'
    <3>1. \A v \in Tasks : pc'[v] # "raising"
      BY <1>5, <2>3
    <3>2. \A v \in Tasks : pc'[v] \in Idle \cup {"polling", "dropping"} => is_ready'[v]
      BY <1>1, <2>3, <2>4 DEF Idle
    <3> QED BY <2>2, <3>1, <3>2 DEF LineInv
  <2> QED BY <2>5, <2>6, <2>7, <2>8, <2>9 DEF Handover
<1>8. ASSUME NEW k \in Live, TakesItem(t, k) PROVE Handover'
  <2> DEFINE u == items[k]
  <2>1. /\ items' = SubSeq(items, k + 1, Len(items)) /\ is_running' = TRUE
        /\ front_item' = [front_item EXCEPT ![t] = u]
        /\ pc' = [pc EXCEPT ![t] = "raising"]
    BY <1>8 DEF TakesItem
  <2>2. /\ k \in 1..Len(items) /\ k \in DOMAIN items /\ u \in Tasks
        /\ ~is_future_dropped[u] /\ Len(items) \in Nat /\ DOMAIN items = 1..Len(items)
    BY <1>2, TakenItem
  <2>3. DOMAIN items' = 1..(Len(items) - k)
        /\ \A i \in DOMAIN items' : items'[i] = items[i + k] /\ i + k \in DOMAIN items
    BY <1>2, <2>1, <2>2, SMTT(30)
  <2>4. /\ pc'[t] = "raising" /\ front_item'[t] = u
        /\ \A v \in Tasks : v # t => pc'[v] = pc[v] /\ front_item'[v] = front_item[v]
    BY <1>2, <2>1
  <2>5. pc[u] # "absent" /\ ~is_ready[u] /\ u # t
    BY <1>1, <2>2 DEF Handover, ItemsInv
  <2>6. \A i \in DOMAIN items' : ticket[u] < ticket[items'[i]]
    BY <2>2, <2>3 DEF Handover, ItemsInv
  <2>7. \A i \in DOMAIN items : i < k => is_future_dropped[items[i]]
    BY <1>8, <2>2 DEF TakesItem, Live
  <2>8. BatonInv'
    <3>1. Baton' = {t}
      BY <1>1, <1>3, <1>4, <2>4 DEF Baton, Idle
    <3> QED BY <2>1, <3>1 DEF BatonInv
  <2>9. ItemsInv'
    <3>1. ASSUME NEW i \in DOMAIN items', NEW j \in DOMAIN items', i < j
          PROVE  ticket'[items'[i]] < ticket'[items'[j]]
      BY <1>1, <2>2, <2>3, <3>1 DEF Handover, ItemsInv
    <3>2. ASSUME NEW i \in DOMAIN items'
          PROVE  pc'[items'[i]] # "absent" /\ ~is_ready'[items'[i]]
      <4>1. items'[i] \in Tasks /\ pc[items'[i]] # "absent" /\ ~is_ready[items'[i]]
        BY <1>2, <2>3 DEF Handover, ItemsInv
      <4> QED BY <1>1, <2>4, <4>1
    <3> QED BY <2>1, <3>1, <3>2 DEF ItemsInv
  <2>10. FrontInv'
    <3>1. ASSUME NEW v \in Tasks, v # t, pc'[v] \in {"raising", "waking"}
          PROVE  /\ front_item'[v] \in Tasks /\ pc'[front_item'[v]] # "absent"
                 /\ pc'[v] # "raising"
      BY <1>5, <2>4, <3>1 DEF Handover, FrontInv
    <3>2. /\ front_item'[t] \in Tasks /\ pc'[front_item'[t]] # "absent"
          /\ ~is_ready'[front_item'[t]]
          /\ \A i \in DOMAIN items' : ticket'[front_item'[t]] < ticket'[items'[i]]
      BY <1>1, <2>2, <2>4, <2>5, <2>6
    <3> QED BY <3>1, <3>2 DEF FrontInv
  <2>11. TicketInv'
    <3>1. (\A v \in Tasks : pc[v] = "absent" <=> ticket[v] = 0)'
      BY <1>1, <2>4 DEF Handover, TicketInv, Idle
    <3> QED BY <1>1, <1>4, <2>4, <3>1 DEF Handover, TicketInv
  <2>12. LineInv'
    <3>1. ASSUME NEW v \in Tasks, pc'[v] \in Idle \cup {"polling", "dropping"},
                 ~is_ready'[v]
          PROVE  \/ \E i \in DOMAIN items' : items'[i] = v
                 \/ \E w \in Tasks : pc'[w] = "raising" /\ front_item'[w] = v
      <4>1. v # t /\ pc[v] = pc'[v] /\ ~is_ready[v]
        BY <1>1, <2>4, <3>1 DEF Idle
      <4>2. PICK i \in DOMAIN items : items[i] = v /\ ~is_future_dropped[v]
        BY <1>6, <3>1, <4>1
      <4>3. CASE i = k
        BY <2>4, <4>2, <4>3
      <4>4. CASE i > k
        <5>1. i - k \in DOMAIN items' /\ items'[i - k] = items[i]
          BY <2>2, <2>3, <4>4
        <5> QED BY <4>2, <5>1
      <4>5. CASE i < k
        BY <2>7, <4>2, <4>5
      <4> QED BY <2>2, <4>3, <4>4, <4>5
    <3>2. ASSUME NEW v \in Tasks, is_ready'[v]
          PROVE  \A i \in DOMAIN items' : ticket'[v] < ticket'[items'[i]]
      BY <1>1, <2>3, <3>2 DEF Handover, LineInv
    <3>3. ASSUME NEW v \in Tasks, NEW w \in Tasks, is_ready'[v], pc'[w] = "raising"
          PROVE  ticket'[v] < ticket'[front_item'[w]]
      <4>1. w = t
        BY <1>5, <2>4, <3>3
      <4> QED BY <1>1, <2>2, <2>4, <3>3, <4>1 DEF Handover, LineInv
    <3> QED BY <3>1, <3>2, <3>3 DEF LineInv
  <2> QED BY <2>8, <2>9, <2>10, <2>11, <2>12 DEF Handover
<1> QED BY <1>7, <1>8 DEF Releases

\* The initial state has an idle queue.
LEMMA HandoverInit == Init => Handover
<1> SUFFICES ASSUME Init PROVE Handover
  OBVIOUS
<1>1. Baton = {} /\ DOMAIN items = {}
  BY DEF Init, Baton, Idle
<1> QED BY <1>1 DEF Init, Handover, BatonInv, ItemsInv, FrontInv, TicketInv,
                    LineInv, Idle

\* Handover, the whole inductive invariant, holds in every reachable state: for
\* any threads, raise_next() passes on one right to run, in ticket order.
THEOREM HandoverCorrect == Spec => []Handover
<1>1. TypeOK /\ Handover /\ [Next]_vars => Handover'
  <2> SUFFICES ASSUME TypeOK, Handover, [Next]_vars PROVE Handover'
    OBVIOUS
  <2>1. CASE UNCHANGED vars
    BY <2>1 DEF vars, Handover, BatonInv, Baton, ItemsInv, FrontInv, TicketInv,
                LineInv
  <2> QED BY <2>1, NextCases, QuietSteps, QuietKeeps, RaiseReadyKeeps,
             AcquireKeeps, ReleaseKeeps
<1> QED BY <1>1, HandoverInit, TypeCorrect, PTL DEF Spec

\* No two tasks hold a permit at once.
THEOREM MutualExclusionCorrect == Spec => []MutualExclusion
<1>1. Handover => MutualExclusion
  BY DEF Handover, TicketInv, BatonInv, Baton, MutualExclusion
<1> QED BY <1>1, HandoverCorrect, PTL

\* Permits are granted in the order of the acquire() calls.
THEOREM AcquireOrderCorrect == Spec => []AcquireOrder
<1>1. TypeOK /\ Handover => AcquireOrder
  <2> SUFFICES ASSUME TypeOK, Handover, NEW t \in Tasks, NEW u \in Tasks,
                      pc[t] = "permit", pc[u] # "absent", ticket[u] < ticket[t]
               PROVE  pc[u] \in {"waking", "done"}
    BY DEF AcquireOrder
  <2>1. is_ready[t] /\ t \in Baton /\ \A v \in Baton : v = t
    BY DEF Handover, TicketInv, BatonInv, Baton
  <2>2. u # t /\ u \notin Baton
    BY <2>1 DEF TypeOK
  <2>3. pc[u] \notin {"raising", "permit"}
    BY <2>2 DEF Baton, Handover, TicketInv
  <2>4. pc[u] \notin Idle \cup {"polling", "dropping"}
    <3> SUFFICES ASSUME pc[u] \in Idle \cup {"polling", "dropping"} PROVE FALSE
      OBVIOUS
    <3>1. ~is_ready[u]
      BY <2>2 DEF Baton
    <3>2. ~ \E v \in Tasks : pc[v] = "raising"
      BY <2>1 DEF Baton
    <3>3. PICK i \in DOMAIN items : items[i] = u
      BY <3>1, <3>2 DEF Handover, LineInv
    <3>4. ticket[t] < ticket[u] /\ ticket[t] \in Nat /\ ticket[u] \in Nat
      BY <2>1, <3>3 DEF Handover, LineInv, TypeOK
    <3> QED BY <3>4
  <2> QED BY <2>3, <2>4 DEF TypeOK, PC, Idle, MidHandler
<1> QED BY <1>1, TypeCorrect, HandoverCorrect, PTL

-----------------------------------------------------------------------------
(* The refinement. *)

\* What the abstract queue sees of a task, place by place.
LEMMA StatusOf ==
  ASSUME TypeOK, NEW t \in Tasks
  PROVE  /\ TaskStatus[t] = "absent" <=> pc[t] = "absent"
         /\ TaskStatus[t] = "waiting" <=> pc[t] \in Idle \cup {"polling", "dropping"}
         /\ TaskStatus[t] = "running" <=> pc[t] = "permit"
         /\ TaskStatus[t] = "gone" <=> pc[t] \in {"raising", "waking", "done"}
  BY DEF TypeOK, TaskStatus, PC, Idle, MidHandler

\* A step that moves one task changes what the abstract queue sees of that task.
LEMMA StatusMove ==
  ASSUME TypeOK, TypeOK', NEW t \in Tasks, NEW l, pc' = [pc EXCEPT ![t] = l]
  PROVE  TaskStatus' = [TaskStatus EXCEPT ![t] = TaskStatus'[t]]
<1>1. \A v \in Tasks : v # t => pc'[v] = pc[v]
  BY DEF TypeOK
<1>2. \A v \in Tasks : v # t => TaskStatus'[v] = TaskStatus[v]
  BY <1>1 DEF TaskStatus
<1>3. /\ TaskStatus' = [v \in Tasks |-> TaskStatus'[v]]
      /\ TaskStatus = [v \in Tasks |-> TaskStatus[v]]
  BY DEF TaskStatus
<1> HIDE DEF TaskStatus
<1> QED BY <1>2, <1>3

\* The queue with its hand-over in steps implements the serial queue: in every
\* interleaving a task starts only when nobody runs and nobody before it waits.
THEOREM Refinement == Spec => ImplementsSerialQueue
<1>1. Init => Abs!Init
  <2> SUFFICES ASSUME Init PROVE Abs!Init
    OBVIOUS
  <2>1. \A t \in Tasks : pc[t] = "absent"
    BY DEF Init
  <2>2. TaskStatus = [t \in Tasks |-> "absent"]
    <3>1. \A t \in Tasks : TaskStatus[t] = "absent"
      BY <2>1 DEF TaskStatus, Idle
    <3>2. TaskStatus = [t \in Tasks |-> TaskStatus[t]]
      BY DEF TaskStatus
    <3> HIDE DEF TaskStatus
    <3> QED BY <3>1, <3>2
  <2> QED BY <2>2 DEF Init, Abs!Init
<1>2. ASSUME TypeOK, TypeOK', MutualExclusion', AcquireOrder', [Next]_vars
      PROVE  [Abs!Next]_(Abs!vars)
  <2> USE <1>2
  <2>1. ASSUME NEW t \in Tasks, Acquire(t) PROVE Abs!Join(t)
    <3>1. pc[t] = "absent" /\ pc'[t] = "created" /\ pc' = [pc EXCEPT ![t] = "created"]
      BY <2>1 DEF Acquire, goto, TypeOK
    <3>2. TaskStatus[t] = "absent" /\ TaskStatus'[t] = "waiting"
      BY <3>1 DEF TaskStatus, Idle
    <3>3. TaskStatus' = [TaskStatus EXCEPT ![t] = "waiting"]
      BY <3>1, <3>2, StatusMove
    <3> QED BY <2>1, <3>2, <3>3 DEF Acquire, Abs!Join
  <2>2. ASSUME NEW t \in Tasks, PollReady(t) PROVE Abs!Start(t)
    <3>1. /\ pc[t] \in Idle /\ pc'[t] = "permit" /\ pc' = [pc EXCEPT ![t] = "permit"]
          /\ ticket' = ticket /\ joined' = joined
      BY <2>2 DEF PollReady, goto, history, TypeOK
    <3>2. TaskStatus[t] = "waiting" /\ TaskStatus'[t] = "running"
      BY <3>1 DEF TaskStatus, Idle
    <3>3. TaskStatus' = [TaskStatus EXCEPT ![t] = "running"]
      BY <3>1, <3>2, StatusMove
    <3>4. \A u \in Tasks : u # t => pc'[u] = pc[u]
      BY <3>1 DEF TypeOK
    <3>5. \A u \in Tasks : TaskStatus[u] # "running"
      <4> SUFFICES ASSUME NEW u \in Tasks, pc[u] = "permit" PROVE FALSE
        BY StatusOf
      <4>1. u # t
        BY <3>1 DEF Idle
      <4> QED BY <3>1, <3>4, <4>1 DEF MutualExclusion
    <3>6. \A u \in Tasks : TaskStatus[u] = "waiting" => ticket[t] <= ticket[u]
      <4> SUFFICES ASSUME NEW u \in Tasks, ticket[u] < ticket[t],
                          pc[u] \in Idle \cup {"polling", "dropping"}
                   PROVE  FALSE
        BY StatusOf DEF TypeOK
      <4>1. u # t
        BY DEF TypeOK
      <4>2. pc'[u] = pc[u] /\ ticket'[u] < ticket'[t]
        BY <3>1, <3>4, <4>1
      <4> QED BY <3>1, <4>2 DEF AcquireOrder, Idle
    <3> QED BY <3>1, <3>2, <3>3, <3>5, <3>6 DEF Abs!Start
  <2>3. ASSUME NEW t \in Tasks, Releases(t) \/ RaiseFutureDropped(t)
        PROVE  Abs!Leave(t)
    <3>1. PICK l \in {"done", "raising"} :
            /\ pc[t] \in Idle \cup {"permit", "dropping"} /\ pc'[t] = l
            /\ pc' = [pc EXCEPT ![t] = l] /\ ticket' = ticket /\ joined' = joined
      BY <2>3 DEF Releases, NobodyLeft, TakesItem, RaiseFutureDropped, goto,
                  history, TypeOK
    <3>2. TaskStatus[t] \in {"waiting", "running"} /\ TaskStatus'[t] = "gone"
      BY <3>1 DEF TaskStatus, Idle
    <3>3. TaskStatus' = [TaskStatus EXCEPT ![t] = "gone"]
      BY <3>1, <3>2, StatusMove
    <3> QED BY <3>1, <3>2, <3>3 DEF Abs!Leave
  <2>4. ASSUME NEW t \in Tasks,
               \/ PollNotReady(t) \/ PollRegister(t) \/ RaiseReady(t) \/ Wake(t)
               \/ DropFutureNotReady(t)
        PROVE  UNCHANGED Abs!vars
    <3>1. /\ ticket' = ticket /\ joined' = joined
          /\ \A u \in Tasks : u # t => pc'[u] = pc[u]
      BY <2>4 DEF PollNotReady, PollRegister, RaiseReady, Wake, DropFutureNotReady,
                  goto, history, TypeOK
    <3>2. \/ /\ pc[t] \in Idle \cup {"polling", "dropping"}
             /\ pc'[t] \in Idle \cup {"polling", "dropping"}
          \/ pc[t] \in {"raising", "waking"} /\ pc'[t] \in {"waking", "done"}
      BY <2>4 DEF PollNotReady, PollRegister, RaiseReady, Wake, DropFutureNotReady,
                  goto, TypeOK, Idle
    <3>3. \A u \in Tasks : TaskStatus'[u] = TaskStatus[u]
      BY <3>1, <3>2 DEF TaskStatus, Idle
    <3> QED BY <3>1, <3>3 DEF Abs!vars, TaskStatus
  <2>5. CASE UNCHANGED vars
    BY <2>5 DEF vars, Abs!vars, TaskStatus
  <2> QED BY <2>1, <2>2, <2>3, <2>4, <2>5, NextCases DEF Abs!Next
<1> QED BY <1>1, <1>2, TypeCorrect, MutualExclusionCorrect, AcquireOrderCorrect, PTL
        DEF Spec, Abs!Spec, ImplementsSerialQueue
=============================================================================
