----------------------------- MODULE CronProofs ------------------------------
(***************************************************************************)
(* What Cron promises for any number of crons, any assignment of names and *)
(* any limits: its types, the bound on running handlers, and that a name   *)
(* is taken exactly while its cron is open; and, for crons that do not     *)
(* reuse a name, that exactly one execution is on its way while a cron     *)
(* waits, tried as often as its backoff schedule says and no more.         *)
(***************************************************************************)
EXTENDS Cron, FiniteSetTheorems, SequenceTheorems, TLAPS

USE CronAssumption

Phases == {"new", "rejected", "sending", "receiving", "acquiring", "handling", "done"}
Message == [name : Names, success : BOOLEAN]
Call == [handle : Handles, success : BOOLEAN]

\* The conjuncts of TypeOK, by component.
StateTypes ==
  /\ crons \in [Names -> Handles \cup {NoCron}]
  /\ retries \in [Names -> 0..BackoffCount]
  /\ waiting \in [Names -> Nat] /\ due \in Seq(Names)
LoopTypes ==
  /\ loop \in {"off", "on", "panicked"}
  /\ to_execute \in Seq(Handles \cup {NoCron}) /\ upgraded \in BOOLEAN
QueueTypes ==
  /\ cron_schedule \in Seq(Message)
  /\ senders \in Seq(Call)
  /\ acquirers \in Seq(Handles)
HandleTypes ==
  /\ phase \in [Handles -> Phases]
  /\ closed \in [Handles -> BOOLEAN]
  /\ token \in [Handles -> BOOLEAN] /\ permit \in [Handles -> BOOLEAN]
  /\ runs \in [Handles -> Nat]

\* TypeOK is the conjunction of its parts.
LEMMA TypeParts ==
  TypeOK <=> StateTypes /\ LoopTypes /\ QueueTypes /\ HandleTypes
BY DEF TypeOK, StateTypes, LoopTypes, QueueTypes, HandleTypes, Phases, Message, Call

\* The initial state is well typed.
LEMMA TypeInit == Init => TypeOK
<1> SUFFICES ASSUME Init PROVE TypeOK OBVIOUS
<1>1. StateTypes BY DEF Init, StateTypes
<1>2. HandleTypes BY DEF Init, HandleTypes, Phases
<1>3. QueueTypes BY DEF Init, QueueTypes
<1>4. loop \in {"off", "on", "panicked"} BY DEF Init
<1>5. to_execute \in Seq(Handles \cup {NoCron}) BY DEF Init
<1>6. upgraded \in BOOLEAN BY Zenon DEF Init
<1>7. LoopTypes BY <1>4, <1>5, <1>6, Zenon DEF LoopTypes
<1> QED BY <1>1, <1>2, <1>3, <1>7, TypeParts

\* Deno.cron() keeps the types.
LEMMA TypeCreate ==
  ASSUME TypeOK, NEW h \in Handles, Create(h) \/ CreateFails(h) \/ Close(h)
  PROVE  TypeOK'
<1>0. StateTypes /\ LoopTypes /\ QueueTypes /\ HandleTypes BY TypeParts
<1>1. NameOf[h] \in Names OBVIOUS
<1>2. CASE Create(h)
  <2>1. StateTypes' BY <1>0, <1>1, <1>2 DEF Create, StateTypes
  <2>2. LoopTypes' BY <1>0, <1>2 DEF Create, StartLoop, LoopTypes
  <2>3. [handle |-> h, success |-> TRUE] \in Call BY DEF Call
  <2>4. senders' \in Seq(Call) BY <1>0, <1>2, <2>3 DEF Create, CallNext, QueueTypes
  <2>5. QueueTypes' BY <1>0, <1>2, <2>4 DEF Create, QueueTypes
  <2>6. phase' \in [Handles -> Phases] BY <1>0, <1>2 DEF Create, HandleTypes, Phases
  <2>7. HandleTypes' BY <1>0, <1>2, <2>6 DEF Create, HandleTypes
  <2> QED BY <2>1, <2>2, <2>5, <2>7 DEF TypeOK, StateTypes, LoopTypes,
        QueueTypes, HandleTypes, Phases, Message, Call
<1>3. CASE CreateFails(h)
  <2>1. StateTypes' BY <1>0, <1>3 DEF CreateFails, StateTypes, stateVars
  <2>2. LoopTypes' BY <1>0, <1>3 DEF CreateFails, StartLoop, LoopTypes
  <2>3. QueueTypes' BY <1>0, <1>3 DEF CreateFails, QueueTypes, queueVars
  <2>4. phase' \in [Handles -> Phases] BY <1>0, <1>3 DEF CreateFails, HandleTypes, Phases
  <2>5. HandleTypes' BY <1>0, <1>3, <2>4 DEF CreateFails, HandleTypes
  <2> QED BY <2>1, <2>2, <2>3, <2>5 DEF TypeOK, StateTypes, LoopTypes,
        QueueTypes, HandleTypes, Phases, Message, Call
<1>4. CASE Close(h)
  <2>1. StateTypes' BY <1>0, <1>1, <1>4 DEF Close, StateTypes
  <2>2. LoopTypes' BY <1>0, <1>4 DEF Close, LoopTypes, loopVars
  <2>3. QueueTypes' BY <1>0, <1>4 DEF Close, QueueTypes, queueVars
  <2>4. closed' \in [Handles -> BOOLEAN] BY <1>0, <1>4 DEF Close, HandleTypes
  <2>5. token' \in [Handles -> BOOLEAN]
    BY <1>0, <1>4, Zenon DEF Close, HandleTypes, InNext
  <2>6. permit' \in [Handles -> BOOLEAN]
    BY <1>0, <1>4, Zenon DEF Close, HandleTypes, InNext
  <2>7. runs' \in [Handles -> Nat] /\ phase' = phase BY <1>0, <1>4 DEF Close, HandleTypes
  <2>8. HandleTypes' BY <1>0, <2>4, <2>5, <2>6, <2>7 DEF HandleTypes
  <2> QED BY <2>1, <2>2, <2>3, <2>8 DEF TypeOK, StateTypes, LoopTypes,
        QueueTypes, HandleTypes, Phases, Message, Call
<1> QED BY <1>2, <1>3, <1>4

\* So does a step of a handle's cycle.
LEMMA TypeCycle ==
  ASSUME TypeOK, NEW h \in Handles, Cycle(h)
  PROVE  TypeOK'
<1>0. StateTypes /\ LoopTypes /\ QueueTypes /\ HandleTypes BY TypeParts
<1> USE DEF stateVars, loopVars
<1>1. StateTypes' BY <1>0 DEF Cycle, Send, Recv, Acquire, HandlerEnds, StateTypes
<1>2. LoopTypes'
  BY <1>0 DEF Cycle, Send, Recv, Acquire, HandlerEnds, LoopTypes
<1>3. QueueTypes' /\ HandleTypes'
  <2>1. CASE Send(h)
    <3>1. senders' \in Seq(Call) BY <1>0, <2>1 DEF Send, QueueTypes
    <3>2. Head(senders) \in Call BY <1>0, <2>1 DEF Send, QueueTypes
    <3>3. [name |-> NameOf[h], success |-> Head(senders).success] \in Message
      BY <3>2 DEF Call, Message
    <3>4. cron_schedule' \in Seq(Message) BY <3>3, <2>1 DEF Send
    <3>5. QueueTypes' BY <1>0, <2>1, <3>1, <3>4 DEF Send, QueueTypes
    <3>6. phase' \in [Handles -> Phases] BY <1>0, <2>1 DEF Send, HandleTypes, Phases
    <3>7. HandleTypes' BY <1>0, <2>1, <3>6 DEF Send, HandleTypes
    <3> QED BY <3>5, <3>7
  <2>2. CASE Recv(h)
    <3>1. acquirers' \in Seq(Handles) BY <1>0, <2>2, SMTT(30) DEF Recv, QueueTypes
    <3>2. QueueTypes' BY <1>0, <2>2, <3>1 DEF Recv, QueueTypes
    <3>3. phase' \in [Handles -> Phases] BY <1>0, <2>2 DEF Recv, HandleTypes, Phases
    <3>4. token' \in [Handles -> BOOLEAN] BY <1>0, <2>2 DEF Recv, HandleTypes
    <3>5. HandleTypes' BY <1>0, <2>2, <3>3, <3>4 DEF Recv, HandleTypes
    <3> QED BY <3>2, <3>5
  <2>3. CASE Acquire(h)
    <3>1. acquirers' \in Seq(Handles) BY <1>0, <2>3 DEF Acquire, QueueTypes
    <3>2. QueueTypes' BY <1>0, <2>3, <3>1 DEF Acquire, QueueTypes
    <3>3. phase' \in [Handles -> Phases] BY <1>0, <2>3 DEF Acquire, HandleTypes, Phases
    <3>4. permit' \in [Handles -> BOOLEAN] BY <1>0, <2>3, Zenon DEF Acquire, HandleTypes
    <3>5. token' \in [Handles -> BOOLEAN] BY <1>0, <2>3, Zenon DEF Acquire, HandleTypes
    <3>6. runs' \in [Handles -> Nat] BY <1>0, <2>3 DEF Acquire, HandleTypes
    <3>7. closed' = closed BY <2>3 DEF Acquire
    <3>8. HandleTypes' BY <1>0, <3>3, <3>4, <3>5, <3>6, <3>7 DEF HandleTypes
    <3> QED BY <3>2, <3>8
  <2>4. CASE HandlerEnds(h)
    <3>1. senders' = senders \/ \E success \in BOOLEAN : CallNext(h, success)
      BY <2>4 DEF HandlerEnds
    <3>2. ASSUME NEW success \in BOOLEAN, CallNext(h, success)
          PROVE  senders' \in Seq(Call)
      <4>1. [handle |-> h, success |-> success] \in Call BY DEF Call
      <4> QED BY <1>0, <3>2, <4>1 DEF CallNext, QueueTypes
    <3>3. senders' \in Seq(Call) BY <1>0, <3>1, <3>2 DEF QueueTypes
    <3>4. QueueTypes' BY <1>0, <2>4, <3>3 DEF HandlerEnds, QueueTypes
    <3>5. phase' \in [Handles -> Phases] BY <1>0, <2>4 DEF HandlerEnds, HandleTypes, Phases
    <3>6. permit' \in [Handles -> BOOLEAN] BY <1>0, <2>4 DEF HandlerEnds, HandleTypes
    <3>7. HandleTypes' BY <1>0, <2>4, <3>5, <3>6 DEF HandlerEnds, HandleTypes
    <3> QED BY <3>4, <3>7
  <2> QED BY <2>1, <2>2, <2>3, <2>4 DEF Cycle
<1> QED BY <1>1, <1>2, <1>3 DEF TypeOK, StateTypes, LoopTypes, QueueTypes,
      HandleTypes, Phases, Message, Call

\* So does the scheduler.
LEMMA TypeLoop ==
  ASSUME TypeOK, Loop
  PROVE  TypeOK'
<1>0. StateTypes /\ LoopTypes /\ QueueTypes /\ HandleTypes BY TypeParts
<1> USE DEF stateVars, loopVars, queueVars, handleVars
<1>1. ASSUME ReadyCrons
      PROVE  to_execute' \in Seq(Handles \cup {NoCron}) /\ due' \in Seq(Names)
  <2>1. DOMAIN due = 1..Len(due) /\ Len(due) \in Nat BY <1>0 DEF StateTypes
  <2>2. \A i \in 1..Len(due) : crons[due[i]] \in Handles \cup {NoCron}
    BY <1>0 DEF StateTypes
  <2>3. to_execute' = [i \in 1..Len(due) |-> crons[due[i]]] BY <1>1, <2>1 DEF ReadyCrons
  <2> QED BY <1>1, <2>1, <2>2, <2>3 DEF ReadyCrons
<1>2. CASE LoopWakes
  <2>1. StateTypes' BY <1>0, <1>1, <1>2 DEF LoopWakes, StateTypes
  <2>2. LoopTypes' BY <1>0, <1>1, <1>2 DEF LoopWakes, LoopTypes
  <2>3. QueueTypes' BY <1>0, <1>2 DEF LoopWakes, QueueTypes
  <2>4. HandleTypes' BY <1>0, <1>2 DEF LoopWakes, HandleTypes
  <2> QED BY <2>1, <2>2, <2>3, <2>4 DEF TypeOK, StateTypes, LoopTypes, QueueTypes,
        HandleTypes, Phases, Message, Call
<1>3. CASE LoopSchedules
  <2> DEFINE n == Head(cron_schedule).name
             ok == Head(cron_schedule).success
  <2>1. Head(cron_schedule) \in Message BY <1>0, <1>3 DEF LoopSchedules, QueueTypes
  <2>2. n \in Names BY <2>1 DEF Message
  <2>3. QueueTypes' BY <1>0, <1>3 DEF LoopSchedules, QueueTypes
  <2>4. /\ upgraded' = upgraded /\ phase' = phase /\ closed' = closed
        /\ token' = token /\ permit' = permit
    BY <1>3 DEF LoopSchedules
  <2>5. CASE loop' = "panicked" /\ UNCHANGED <<to_execute, stateVars, runs>>
    <3>1. StateTypes' BY <1>0, <2>5 DEF StateTypes
    <3>2. LoopTypes' BY <1>0, <2>4, <2>5 DEF LoopTypes
    <3>3. HandleTypes' BY <1>0, <2>4, <2>5 DEF HandleTypes
    <3> QED BY <2>3, <3>1, <3>2, <3>3 DEF TypeOK, StateTypes, LoopTypes, QueueTypes,
          HandleTypes, Phases, Message, Call
  <2>6. CASE /\ retries' = IF crons[n] # NoCron
                           THEN [retries EXCEPT ![n] = IF Retry(n, ok) THEN @ + 1 ELSE 0]
                           ELSE retries
             /\ waiting' = IF crons[n] # NoCron
                           THEN [waiting EXCEPT ![n] = @ + 1] ELSE waiting
             /\ runs' = IF crons[n] # NoCron /\ ~Retry(n, ok)
                        THEN [runs EXCEPT ![crons[n]] = 0] ELSE runs
             /\ ReadyCrons
             /\ UNCHANGED <<loop, crons>>
    <3> HIDE DEF n, ok
    <3>1. retries[n] \in 0..BackoffCount BY <1>0, <2>2 DEF StateTypes
    <3>2. Retry(n, ok) => retries[n] + 1 \in 0..BackoffCount BY <3>1 DEF Retry
    <3>3. retries' \in [Names -> 0..BackoffCount]
      BY <1>0, <2>2, <2>6, <3>1, <3>2 DEF StateTypes
    <3>4. waiting' \in [Names -> Nat] BY <1>0, <2>2, <2>6 DEF StateTypes
    <3>5. StateTypes' BY <1>0, <1>1, <2>6, <3>3, <3>4 DEF StateTypes
    <3>6. LoopTypes' BY <1>0, <1>1, <2>4, <2>6 DEF LoopTypes
    <3>7. runs' \in [Handles -> Nat] BY <1>0, <2>2, <2>6 DEF HandleTypes, StateTypes
    <3>8. HandleTypes' BY <1>0, <2>4, <3>7 DEF HandleTypes
    <3> QED BY <2>3, <3>5, <3>6, <3>8 DEF TypeOK, StateTypes, LoopTypes, QueueTypes,
          HandleTypes, Phases, Message, Call
  <2> QED BY <1>3, <2>5, <2>6 DEF LoopSchedules
<1>4. CASE Dispatch
  <2>1. to_execute' \in Seq(Handles \cup {NoCron})
    BY <1>0, <1>4 DEF Dispatch, LoopTypes
  <2>2. upgraded' \in BOOLEAN BY <1>0, <1>4, Zenon DEF Dispatch, LoopTypes
  <2>3. token' \in [Handles -> BOOLEAN]
    BY <1>0, <1>4 DEF Dispatch, HandleTypes, LoopTypes, Reachable
  <2>4. StateTypes' BY <1>0, <1>4 DEF Dispatch, StateTypes
  <2>5. QueueTypes' BY <1>0, <1>4 DEF Dispatch, QueueTypes
  <2>6. loop' = loop BY <1>4 DEF Dispatch
  <2>7. LoopTypes' BY <1>0, <2>1, <2>2, <2>6 DEF LoopTypes
  <2>8. HandleTypes' BY <1>0, <1>4, <2>3 DEF Dispatch, HandleTypes
  <2> QED BY <2>4, <2>5, <2>7, <2>8 DEF TypeOK, StateTypes, LoopTypes, QueueTypes,
        HandleTypes, Phases, Message, Call
<1> QED BY <1>2, <1>3, <1>4 DEF Loop

\* So does the passing of time.
LEMMA TypeDue ==
  ASSUME TypeOK, NEW n \in Names, Due(n)
  PROVE  TypeOK'
<1>0. StateTypes /\ LoopTypes /\ QueueTypes /\ HandleTypes BY TypeParts
<1> USE DEF loopVars, queueVars, handleVars
<1>1. waiting' \in [Names -> Nat] BY <1>0 DEF Due, StateTypes
<1>2. due' \in Seq(Names) BY <1>0 DEF Due, StateTypes
<1>3. StateTypes' BY <1>0, <1>1, <1>2 DEF Due, StateTypes
<1>4. LoopTypes' BY <1>0 DEF Due, LoopTypes
<1>5. QueueTypes' BY <1>0 DEF Due, QueueTypes
<1>6. HandleTypes' BY <1>0 DEF Due, HandleTypes
<1> QED BY <1>3, <1>4, <1>5, <1>6 DEF TypeOK, StateTypes, LoopTypes, QueueTypes,
      HandleTypes, Phases, Message, Call

\* Every step keeps the types.
LEMMA TypeStep == TypeOK /\ [Next]_vars => TypeOK'
<1> SUFFICES ASSUME TypeOK, [Next]_vars PROVE TypeOK' OBVIOUS
<1>1. CASE Running(Loop) BY <1>1, TypeLoop DEF Running
<1>2. ASSUME NEW n \in Names, Running(Due(n)) PROVE TypeOK' BY <1>2, TypeDue DEF Running
<1>3. ASSUME NEW h \in Handles,
             Running(Create(h) \/ CreateFails(h) \/ Close(h) \/ Cycle(h))
      PROVE  TypeOK'
  BY <1>3, TypeCreate, TypeCycle DEF Running
<1>4. CASE UNCHANGED vars
  BY <1>4 DEF vars, loopVars, stateVars, queueVars, handleVars, TypeOK
<1> QED BY <1>1, <1>2, <1>3, <1>4 DEF Next

\* The types of RuntimeState, of the channels and of the handles hold in every
\* reachable state: retries never pass the backoff schedule.
THEOREM TypeCorrect == Spec => []TypeOK
<1>1. Init => TypeOK BY TypeInit
<1>2. TypeOK /\ [Next]_vars => TypeOK' BY TypeStep
<1> QED BY <1>1, <1>2, PTL DEF Spec

-----------------------------------------------------------------------------
(* The concurrency limit. *)

Holders == {h \in Handles : permit[h]}

\* No more permits are out than there are, and the handler of an open cron runs
\* with one.  The second conjunct is what makes the bound on permits one on
\* handlers; a closed cron's handler may still run without.
PermitInv ==
  /\ Cardinality(Holders) <= DISPATCH_CONCURRENCY_LIMIT
  /\ \A h \in Handles : phase[h] = "handling" /\ ~closed[h] => permit[h]

\* Fewer holders than before are within the limit.
LEMMA FewerHolders ==
  ASSUME PermitInv, Holders' \subseteq Holders
  PROVE  Cardinality(Holders') <= DISPATCH_CONCURRENCY_LIMIT
<1>1. IsFiniteSet(Holders) BY FS_Subset DEF Holders
<1>2. Cardinality(Holders') <= Cardinality(Holders) /\ IsFiniteSet(Holders')
  BY <1>1, FS_Subset
<1>3. Cardinality(Holders) \in Nat /\ Cardinality(Holders') \in Nat
  BY <1>1, <1>2, FS_CardinalityType
<1> QED BY <1>2, <1>3 DEF PermitInv

\* A permit is only given out while one is left.
LEMMA AcquirePermit ==
  ASSUME TypeOK, PermitInv, NEW h \in Handles, Acquire(h)
  PROVE  Cardinality(Holders') <= DISPATCH_CONCURRENCY_LIMIT
<1>1. IsFiniteSet(Holders) BY FS_Subset DEF Holders
<1>2. Cardinality(Holders) < DISPATCH_CONCURRENCY_LIMIT
  BY DEF Acquire, PermitsLeft, Holders
<1>0. /\ IsFiniteSet(Holders \cup {h})
      /\ \/ Cardinality(Holders \cup {h}) = Cardinality(Holders)
         \/ Cardinality(Holders \cup {h}) = Cardinality(Holders) + 1
  BY <1>1, FS_AddElement
<1>3. Cardinality(Holders \cup {h}) <= Cardinality(Holders) + 1
      /\ IsFiniteSet(Holders \cup {h})
  BY <1>0, <1>1, FS_CardinalityType
<1>4. Holders' \subseteq Holders \cup {h} BY DEF Acquire, Holders, TypeOK
<1>5. Cardinality(Holders') <= Cardinality(Holders \cup {h}) /\ IsFiniteSet(Holders')
  BY <1>3, <1>4, FS_Subset
<1>6. /\ Cardinality(Holders) \in Nat /\ Cardinality(Holders') \in Nat
      /\ Cardinality(Holders \cup {h}) \in Nat
  BY <1>1, <1>3, <1>5, FS_CardinalityType
<1> QED BY <1>2, <1>3, <1>5, <1>6

\* Every step keeps PermitInv.
LEMMA PermitStep == TypeOK /\ PermitInv /\ [Next]_vars => PermitInv'
<1> SUFFICES ASSUME TypeOK, PermitInv, [Next]_vars PROVE PermitInv' OBVIOUS
<1> USE DEF TypeOK
<1>1. CASE UNCHANGED <<phase, closed, permit>>
  BY <1>1 DEF PermitInv, Holders
<1>2. ASSUME NEW h \in Handles, Create(h) \/ CreateFails(h) \/ Send(h) \/ Recv(h)
      PROVE  PermitInv'
  <2>1. Holders' = Holders BY <1>2 DEF Holders, Create, CreateFails, Send, Recv
  <2>2. ASSUME NEW g \in Handles, phase'[g] = "handling", ~closed'[g]
        PROVE  permit'[g]
    BY <1>2, <2>2 DEF PermitInv, Create, CreateFails, Send, Recv
  <2> QED BY <2>1, <2>2 DEF PermitInv
<1>3. ASSUME NEW h \in Handles, Close(h) PROVE PermitInv'
  <2>1. Holders' \subseteq Holders BY <1>3 DEF Holders, Close
  <2>2. ASSUME NEW g \in Handles, phase'[g] = "handling", ~closed'[g]
        PROVE  permit'[g]
    BY <1>3, <2>2 DEF PermitInv, Close
  <2> QED BY <2>1, <2>2, FewerHolders DEF PermitInv
<1>4. ASSUME NEW h \in Handles, Acquire(h) PROVE PermitInv'
  <2>1. ASSUME NEW g \in Handles, phase'[g] = "handling", ~closed'[g]
        PROVE  permit'[g]
    BY <1>4, <2>1 DEF PermitInv, Acquire
  <2> QED BY <1>4, <2>1, AcquirePermit DEF PermitInv
<1>5. ASSUME NEW h \in Handles, HandlerEnds(h) PROVE PermitInv'
  <2>1. Holders' \subseteq Holders BY <1>5 DEF Holders, HandlerEnds
  <2>2. ASSUME NEW g \in Handles, phase'[g] = "handling", ~closed'[g]
        PROVE  permit'[g]
    BY <1>5, <2>2 DEF PermitInv, HandlerEnds
  <2> QED BY <2>1, <2>2, FewerHolders DEF PermitInv
<1>6. CASE Running(Loop)
  <2>1. CASE LoopWakes BY <1>1, <2>1 DEF LoopWakes, handleVars
  <2>2. CASE LoopSchedules BY <1>1, <2>2 DEF LoopSchedules
  <2>3. CASE Dispatch BY <1>1, <2>3 DEF Dispatch
  <2> QED BY <1>6, <2>1, <2>2, <2>3 DEF Running, Loop
<1>7. ASSUME NEW n \in Names, Running(Due(n)) PROVE PermitInv'
  BY <1>1, <1>7 DEF Running, Due, handleVars
<1>8. CASE UNCHANGED vars BY <1>1, <1>8 DEF vars, handleVars
<1> QED BY <1>2, <1>3, <1>4, <1>5, <1>6, <1>7, <1>8 DEF Next, Running, Cycle

\* Never more handlers of open crons at once than DISPATCH_CONCURRENCY_LIMIT, however
\* many crons there are and however they are aborted.
THEOREM ConcurrencyLimitCorrect == Spec => []ConcurrencyLimit
<1>1. Init => PermitInv
  <2> SUFFICES ASSUME Init PROVE PermitInv OBVIOUS
  <2>1. Holders = {} BY DEF Init, Holders
  <2>2. Cardinality(Holders) = 0 BY <2>1, FS_EmptySet
  <2>3. \A h \in Handles : phase[h] # "handling" BY DEF Init
  <2> QED BY <2>2, <2>3 DEF PermitInv
<1>2. PermitInv => ConcurrencyLimit
  <2> SUFFICES ASSUME PermitInv PROVE ConcurrencyLimit OBVIOUS
  <2> DEFINE Handling == {h \in Handles : phase[h] = "handling" /\ ~closed[h]}
  <2>1. Handling \subseteq Holders BY DEF PermitInv, Holders
  <2>2. IsFiniteSet(Holders) BY FS_Subset DEF Holders
  <2>3. Cardinality(Handling) <= Cardinality(Holders) /\ IsFiniteSet(Handling)
    BY <2>1, <2>2, FS_Subset
  <2>4. Cardinality(Handling) \in Nat /\ Cardinality(Holders) \in Nat
    BY <2>2, <2>3, FS_CardinalityType
  <2> QED BY <2>3, <2>4 DEF PermitInv, ConcurrencyLimit
<1>3. TypeOK /\ PermitInv /\ [Next]_vars => PermitInv' BY PermitStep
<1> QED BY <1>1, <1>2, <1>3, TypeCorrect, PTL DEF Spec

-----------------------------------------------------------------------------
(* Names. *)

Unborn == {"new", "rejected"}

\* The handles that are open under a name.
OpenUnder(n) ==
  {h \in Handles : NameOf[h] = n /\ phase[h] \notin Unborn /\ ~closed[h]}

\* NameTaken, and what keeps it: only a handle that was created is closed or waits
\* in a queue, so that no step of a handle brings it to life a second time.
NameInv ==
  /\ \A n \in Names : OpenUnder(n) = IF crons[n] = NoCron THEN {} ELSE {crons[n]}
  /\ \A h \in Handles : phase[h] \in Unborn => ~closed[h]
  /\ \A i \in 1..Len(senders) : phase[senders[i].handle] \notin Unborn
  /\ \A i \in 1..Len(acquirers) : phase[acquirers[i]] \notin Unborn

\* What a step must do to keep NameInv: keep a created handle created, put only
\* created handles into the queues, and keep names and open handles in agreement.
LEMMA NameFrame ==
  ASSUME TypeOK, TypeOK', NameInv,
         \A h \in Handles : phase[h] \notin Unborn => phase'[h] \notin Unborn,
         \A h \in Handles : phase'[h] \in Unborn => closed'[h] = closed[h],
         \/ senders' = senders
         \/ senders # <<>> /\ senders' = Tail(senders)
         \/ \E h \in Handles, ok \in BOOLEAN : CallNext(h, ok) /\ phase'[h] \notin Unborn,
         \/ acquirers' = acquirers
         \/ acquirers # <<>> /\ acquirers' = Tail(acquirers)
         \/ \E h \in Handles : acquirers' = Append(acquirers, h) /\ phase'[h] \notin Unborn,
         \A n \in Names :
           OpenUnder(n)' = IF crons'[n] = NoCron THEN {} ELSE {crons'[n]}
  PROVE  NameInv'
<1>1. \A h \in Handles : phase'[h] \in Unborn => ~closed'[h]
  BY DEF NameInv
<1>2. \A i \in 1..Len(senders') : phase'[senders'[i].handle] \notin Unborn
  <2>0. /\ senders \in Seq(Call)
        /\ \A i \in 1..Len(senders) :
             senders[i].handle \in Handles /\ phase[senders[i].handle] \notin Unborn
    <3>1. senders \in Seq(Call) BY DEF TypeOK, Call
    <3>2. \A i \in 1..Len(senders) : senders[i] \in Call BY <3>1
    <3>3. \A c \in Call : c.handle \in Handles BY DEF Call
    <3>4. \A i \in 1..Len(senders) : senders[i].handle \in Handles BY <3>2, <3>3, Zenon
    <3>5. \A i \in 1..Len(senders) : phase[senders[i].handle] \notin Unborn
      BY Zenon DEF NameInv
    <3> QED BY <3>1, <3>4, <3>5
  <2>1. CASE senders' = senders BY <2>0, <2>1
  <2>2. CASE senders # <<>> /\ senders' = Tail(senders)
    <3>1. \A i \in 1..Len(Tail(senders)) :
             i + 1 \in 1..Len(senders) /\ Tail(senders)[i] = senders[i + 1]
      BY <2>0, <2>2
    <3> QED BY <2>0, <2>2, <3>1
  <2>3. ASSUME NEW h \in Handles, NEW ok \in BOOLEAN, CallNext(h, ok),
               phase'[h] \notin Unborn
        PROVE  \A i \in 1..Len(senders') : phase'[senders'[i].handle] \notin Unborn
    <3>1. \A i \in 1..Len(senders') :
             senders'[i].handle = h \/ (i \in 1..Len(senders) /\ senders'[i] = senders[i])
      BY <2>0, <2>3 DEF CallNext
    <3> QED BY <2>0, <2>3, <3>1
  <2> QED BY <2>1, <2>2, <2>3
<1>3. \A i \in 1..Len(acquirers') : phase'[acquirers'[i]] \notin Unborn
  <2>0. /\ acquirers \in Seq(Handles)
        /\ \A i \in 1..Len(acquirers) :
             acquirers[i] \in Handles /\ phase[acquirers[i]] \notin Unborn
    <3>1. acquirers \in Seq(Handles) BY DEF TypeOK
    <3>2. \A i \in 1..Len(acquirers) : acquirers[i] \in Handles BY <3>1
    <3>3. \A i \in 1..Len(acquirers) : phase[acquirers[i]] \notin Unborn
      BY Zenon DEF NameInv
    <3> QED BY <3>1, <3>2, <3>3
  <2>1. CASE acquirers' = acquirers BY <2>0, <2>1
  <2>2. CASE acquirers # <<>> /\ acquirers' = Tail(acquirers)
    <3>1. \A i \in 1..Len(Tail(acquirers)) :
             i + 1 \in 1..Len(acquirers) /\ Tail(acquirers)[i] = acquirers[i + 1]
      BY <2>0, <2>2
    <3> QED BY <2>0, <2>2, <3>1
  <2>3. ASSUME NEW h \in Handles, acquirers' = Append(acquirers, h),
               phase'[h] \notin Unborn
        PROVE  \A i \in 1..Len(acquirers') : phase'[acquirers'[i]] \notin Unborn
    <3>1. \A i \in 1..Len(acquirers') :
             acquirers'[i] = h \/ (i \in 1..Len(acquirers) /\ acquirers'[i] = acquirers[i])
      BY <2>0, <2>3
    <3> QED BY <2>0, <2>3, <3>1
  <2> QED BY <2>1, <2>2, <2>3
<1> QED BY <1>1, <1>2, <1>3 DEF NameInv

\* Steps that leave names, handles and queues alone.
LEMMA NameQuiet ==
  ASSUME TypeOK, TypeOK', NameInv,
         UNCHANGED <<crons, phase, closed, senders, acquirers>>
  PROVE  NameInv'
<1>1. \A n \in Names : OpenUnder(n)' = OpenUnder(n) BY DEF OpenUnder
<1> QED BY <1>1 DEF NameInv

\* A step that leaves names and closed resources alone, and moves one created
\* handle, keeps the sets of open handles.
LEMMA SameOpen ==
  ASSUME TypeOK, TypeOK', NameInv, NEW h \in Handles, NEW p \in Phases \ Unborn,
         phase' = [phase EXCEPT ![h] = p], phase[h] \notin Unborn,
         closed' = closed, crons' = crons
  PROVE  /\ \A g \in Handles : phase[g] \notin Unborn => phase'[g] \notin Unborn
         /\ \A n \in Names :
              OpenUnder(n)' = IF crons'[n] = NoCron THEN {} ELSE {crons'[n]}
<1>1. phase \in [Handles -> Phases] BY DEF TypeOK, Phases
<1>2. \A g \in Handles : phase'[g] \in Unborn <=> phase[g] \in Unborn BY <1>1
<1>3. \A n \in Names : OpenUnder(n)' = OpenUnder(n) BY <1>2 DEF OpenUnder
<1>4. \A n \in Names : OpenUnder(n) = IF crons[n] = NoCron THEN {} ELSE {crons[n]}
  BY Zenon DEF NameInv
<1> QED BY <1>2, <1>3, <1>4

\* Every step keeps NameInv.
LEMMA NameStep == TypeOK /\ TypeOK' /\ NameInv /\ [Next]_vars => NameInv'
<1> SUFFICES ASSUME TypeOK, TypeOK', NameInv, [Next]_vars PROVE NameInv' OBVIOUS
<1>0. /\ \A n \in Names : OpenUnder(n) = IF crons[n] = NoCron THEN {} ELSE {crons[n]}
      /\ \A h \in Handles : phase[h] \in Unborn => ~closed[h]
  BY Zenon DEF NameInv
<1>t. /\ phase \in [Handles -> Phases] /\ closed \in [Handles -> BOOLEAN]
      /\ crons \in [Names -> Handles \cup {NoCron}]
      /\ senders \in Seq(Call) /\ acquirers \in Seq(Handles)
  BY DEF TypeOK, Phases, Call
<1>1. ASSUME NEW h \in Handles, Create(h) PROVE NameInv'
  <2>1. phase' = [phase EXCEPT ![h] = "sending"] /\ phase[h] = "new"
        /\ closed' = closed /\ acquirers' = acquirers
    BY <1>1 DEF Create
  <2>2. crons[NameOf[h]] = NoCron /\ crons' = [crons EXCEPT ![NameOf[h]] = h]
    BY <1>1 DEF Create, Admits
  <2>3. CallNext(h, TRUE) BY <1>1 DEF Create
  <2>4. ~closed[h] BY <1>0, <2>1 DEF Unborn
  <2>5. \A g \in Handles : phase'[g] \in Unborn <=> (phase[g] \in Unborn /\ g # h)
    BY <1>t, <2>1 DEF Unborn
  <2>6. ASSUME NEW n \in Names
        PROVE  OpenUnder(n)' = IF crons'[n] = NoCron THEN {} ELSE {crons'[n]}
    <3>1. CASE n = NameOf[h]
      <4>1. OpenUnder(n) = {} BY <1>0, <2>2, <3>1
      <4>2. OpenUnder(n)' = {h} BY <2>1, <2>4, <2>5, <3>1, <4>1 DEF OpenUnder
      <4>3. crons'[n] = h /\ h # NoCron BY <1>t, <2>2, <3>1
      <4> QED BY <4>2, <4>3
    <3>2. CASE n # NameOf[h]
      <4>1. OpenUnder(n)' = OpenUnder(n) BY <2>1, <2>5, <3>2 DEF OpenUnder
      <4>2. crons'[n] = crons[n] BY <1>t, <2>2, <3>2
      <4> QED BY <1>0, <4>1, <4>2
    <3> QED BY <3>1, <3>2
  <2>7. \A g \in Handles : phase[g] \notin Unborn => phase'[g] \notin Unborn BY <2>5
  <2>8. phase'[h] \notin Unborn BY <2>5
  <2> QED BY <2>1, <2>3, <2>6, <2>7, <2>8, NameFrame
<1>2. ASSUME NEW h \in Handles, CreateFails(h) PROVE NameInv'
  <2>1. phase' = [phase EXCEPT ![h] = "rejected"] /\ phase[h] = "new"
        /\ closed' = closed /\ crons' = crons
        /\ acquirers' = acquirers /\ senders' = senders
    BY <1>2 DEF CreateFails, stateVars, queueVars
  <2>2. \A g \in Handles : phase'[g] \in Unborn <=> phase[g] \in Unborn
    BY <1>t, <2>1 DEF Unborn
  <2>3. \A n \in Names : OpenUnder(n)' = OpenUnder(n) BY <2>1, <2>2 DEF OpenUnder
  <2> QED BY <1>0, <2>1, <2>2, <2>3, NameFrame
<1>3. ASSUME NEW h \in Handles, Close(h) PROVE NameInv'
  <2>1. /\ phase[h] \notin Unborn /\ ~closed[h]
        /\ closed' = [closed EXCEPT ![h] = TRUE]
        /\ crons' = [crons EXCEPT ![NameOf[h]] = NoCron]
        /\ phase' = phase /\ senders' = senders /\ acquirers' = acquirers
    BY <1>3 DEF Close, queueVars, Unborn
  <2>2. ASSUME NEW n \in Names
        PROVE  OpenUnder(n)' = IF crons'[n] = NoCron THEN {} ELSE {crons'[n]}
    <3>1. CASE n = NameOf[h]
      <4>1. h \in OpenUnder(n) BY <2>1, <3>1 DEF OpenUnder
      <4>2. OpenUnder(n) = {h} BY <1>0, <4>1
      <4>3. OpenUnder(n)' = {} BY <1>t, <2>1, <4>2 DEF OpenUnder
      <4>4. crons'[n] = NoCron BY <1>t, <2>1, <3>1
      <4> QED BY <4>3, <4>4
    <3>2. CASE n # NameOf[h]
      <4>1. OpenUnder(n)' = OpenUnder(n) BY <1>t, <2>1, <3>2 DEF OpenUnder
      <4>2. crons'[n] = crons[n] BY <1>t, <2>1, <3>2
      <4> QED BY <1>0, <4>1, <4>2
    <3> QED BY <3>1, <3>2
  <2>3. \A g \in Handles : phase'[g] \in Unborn => closed'[g] = closed[g]
    BY <1>t, <2>1
  <2> QED BY <2>1, <2>2, <2>3, NameFrame
<1>4. ASSUME NEW h \in Handles, Send(h) PROVE NameInv'
  <2>1. /\ phase' = [phase EXCEPT ![h] = "receiving"]
        /\ closed' = closed /\ crons' = crons /\ acquirers' = acquirers
        /\ senders # <<>> /\ senders' = Tail(senders) /\ Head(senders).handle = h
    BY <1>4 DEF Send, stateVars
  <2>2. phase[h] \notin Unborn
    <3>1. 1 \in 1..Len(senders) /\ senders[1] = Head(senders) BY <1>t, <2>1
    <3>2. phase[senders[1].handle] \notin Unborn BY <3>1, Zenon DEF NameInv
    <3> QED BY <2>1, <3>1, <3>2
  <2>3. "receiving" \in Phases \ Unborn BY DEF Phases, Unborn
  <2> QED BY <2>1, <2>2, <2>3, SameOpen, NameFrame
<1>5. ASSUME NEW h \in Handles, Recv(h) PROVE NameInv'
  <2>1. /\ phase[h] = "receiving"
        /\ closed' = closed /\ crons' = crons /\ senders' = senders
        /\ \/ phase' = [phase EXCEPT ![h] = "acquiring"] /\ acquirers' = Append(acquirers, h)
           \/ phase' = [phase EXCEPT ![h] = "done"] /\ acquirers' = acquirers
    BY <1>5 DEF Recv, stateVars
  <2>2. phase[h] \notin Unborn BY <2>1 DEF Unborn
  <2>3. {"acquiring", "done"} \subseteq Phases \ Unborn BY DEF Phases, Unborn
  <2>4. phase'[h] \notin Unborn BY <1>t, <2>1 DEF Unborn
  <2>5. PICK p \in Phases \ Unborn : phase' = [phase EXCEPT ![h] = p] BY <2>1, <2>3
  <2>6. \/ acquirers' = acquirers
        \/ acquirers' = Append(acquirers, h) /\ phase'[h] \notin Unborn
    BY <2>1, <2>4
  <2> QED BY <2>1, <2>2, <2>5, <2>6, SameOpen, NameFrame
<1>6. ASSUME NEW h \in Handles, Acquire(h) PROVE NameInv'
  <2>1. /\ phase' = [phase EXCEPT ![h] = "handling"]
        /\ closed' = closed /\ crons' = crons /\ senders' = senders
        /\ acquirers # <<>> /\ acquirers' = Tail(acquirers) /\ Head(acquirers) = h
    BY <1>6 DEF Acquire, stateVars
  <2>2. phase[h] \notin Unborn
    <3>1. 1 \in 1..Len(acquirers) /\ acquirers[1] = Head(acquirers) BY <1>t, <2>1
    <3>2. phase[acquirers[1]] \notin Unborn BY <3>1, Zenon DEF NameInv
    <3> QED BY <2>1, <3>1, <3>2
  <2>3. "handling" \in Phases \ Unborn BY DEF Phases, Unborn
  <2> QED BY <2>1, <2>2, <2>3, SameOpen, NameFrame
<1>7. ASSUME NEW h \in Handles, HandlerEnds(h) PROVE NameInv'
  <2>1. /\ phase[h] = "handling"
        /\ closed' = closed /\ crons' = crons /\ acquirers' = acquirers
        /\ \/ phase' = [phase EXCEPT ![h] = "done"] /\ senders' = senders
           \/ /\ phase' = [phase EXCEPT ![h] = "sending"]
              /\ \E ok \in BOOLEAN : CallNext(h, ok)
    BY <1>7 DEF HandlerEnds, stateVars
  <2>2. phase[h] \notin Unborn BY <2>1 DEF Unborn
  <2>3. {"sending", "done"} \subseteq Phases \ Unborn BY DEF Phases, Unborn
  <2>4. phase'[h] \notin Unborn BY <1>t, <2>1 DEF Unborn
  <2>5. PICK p \in Phases \ Unborn : phase' = [phase EXCEPT ![h] = p] BY <2>1, <2>3
  <2>6. senders' = senders \/ \E ok \in BOOLEAN : CallNext(h, ok) /\ phase'[h] \notin Unborn
    BY <2>1, <2>4
  <2> QED BY <2>1, <2>2, <2>5, <2>6, SameOpen, NameFrame
<1>8. CASE Running(Loop)
  <2>1. CASE LoopWakes BY <2>1, NameQuiet DEF LoopWakes, queueVars, handleVars
  <2>2. CASE LoopSchedules BY <2>2, NameQuiet DEF LoopSchedules, stateVars
  <2>3. CASE Dispatch BY <2>3, NameQuiet DEF Dispatch, stateVars, queueVars
  <2> QED BY <1>8, <2>1, <2>2, <2>3 DEF Running, Loop
<1>9. ASSUME NEW n \in Names, Running(Due(n)) PROVE NameInv'
  BY <1>9, NameQuiet DEF Running, Due, queueVars, handleVars
<1>10. CASE UNCHANGED vars
  BY <1>10, NameQuiet DEF vars, stateVars, queueVars, handleVars
<1> QED BY <1>1, <1>2, <1>3, <1>4, <1>5, <1>6, <1>7, <1>8, <1>9, <1>10
      DEF Next, Running, Cycle

\* Names and open crons agree, for any number of calls of Deno.cron() that share
\* names in any way: a name is refused exactly while its cron is open.
THEOREM NameTakenCorrect == Spec => []NameTaken
<1>1. Init => NameInv
  <2> SUFFICES ASSUME Init PROVE NameInv OBVIOUS
  <2>1. \A n \in Names : OpenUnder(n) = {} BY DEF Init, OpenUnder, Unborn
  <2>2. \A n \in Names : crons[n] = NoCron BY DEF Init
  <2>3. \A h \in Handles : ~closed[h] BY DEF Init
  <2>4. Len(senders) = 0 /\ Len(acquirers) = 0 BY DEF Init
  <2> QED BY <2>1, <2>2, <2>3, <2>4 DEF NameInv
<1>2. NameInv => NameTaken BY Zenon DEF NameInv, NameTaken, OpenUnder, Unborn
<1>3. TypeOK /\ TypeOK' /\ NameInv /\ [Next]_vars => NameInv' BY NameStep
<1> QED BY <1>1, <1>2, <1>3, TypeCorrect, PTL DEF Spec

-----------------------------------------------------------------------------
(* Executions, when no name is reused. *)

HIDE CronAssumption

\* Every call of Deno.cron() asks for a name of its own.
Distinct == \A g, h \in Handles : NameOf[g] = NameOf[h] => g = h

-----------------------------------------------------------------------------
(* Counting in a queue. *)

\* A queue holds a number of occurrences, which is 0 when it holds none.
LEMMA OccType ==
  ASSUME NEW S, NEW s \in Seq(S), NEW x
  PROVE  /\ Occurrences(s, x) \in Nat
         /\ IsFiniteSet({i \in DOMAIN s : s[i] = x})
         /\ Occurrences(s, x) = 0 <=> \A i \in 1..Len(s) : s[i] # x
<1> DEFINE P == {i \in DOMAIN s : s[i] = x}
<1>1. DOMAIN s = 1..Len(s) /\ Len(s) \in Nat OBVIOUS
<1>2. IsFiniteSet(1..Len(s)) BY <1>1, FS_Interval
<1>3. P \in SUBSET (1..Len(s)) BY <1>1
<1>4. IsFiniteSet(P) BY <1>2, <1>3, FS_Subset
<1>5. Cardinality(P) \in Nat BY <1>4, FS_CardinalityType
<1>6. Cardinality(P) = 0 <=> P = {} BY <1>4, FS_EmptySet
<1>7. P = {} <=> \A i \in 1..Len(s) : s[i] # x BY <1>1
<1> QED BY <1>4, <1>5, <1>6, <1>7 DEF Occurrences

\* An empty queue.
LEMMA OccEmpty == \A x : Occurrences(<<>>, x) = 0
<1> TAKE x
<1>1. <<>> \in Seq({x}) /\ Len(<<>>) = 0 OBVIOUS
<1>2. \A i \in 1..Len(<<>>) : <<>>[i] # x BY <1>1
<1> QED BY <1>1, <1>2, OccType

\* One more at the end.
LEMMA OccAppend ==
  ASSUME NEW S, NEW s \in Seq(S), NEW y \in S, NEW x
  PROVE  Occurrences(Append(s, y), x) = Occurrences(s, x) + (IF y = x THEN 1 ELSE 0)
<1> DEFINE t == Append(s, y)
           P == {i \in DOMAIN s : s[i] = x}
           Q == {i \in DOMAIN t : t[i] = x}
           n == Len(s) + 1
<1>1. Len(s) \in Nat /\ DOMAIN s = 1..Len(s) OBVIOUS
<1>2. /\ t \in Seq(S) /\ Len(t) = n /\ DOMAIN t = 1..n /\ t[n] = y
      /\ \A i \in 1..Len(s) : t[i] = s[i]
  OBVIOUS
<1> HIDE DEF t
<1>3. \A i : i \in 1..n <=> i \in 1..Len(s) \/ i = n BY <1>1
<1>4. n \notin P BY <1>1
<1>5. Q = IF y = x THEN P \cup {n} ELSE P BY <1>1, <1>2, <1>3
<1>f. IsFiniteSet(P) BY OccType, Zenon
<1>c. Cardinality(Q) = Occurrences(Append(s, y), x) /\ Cardinality(P) = Occurrences(s, x)
  BY Zenon DEF Occurrences, t
<1> HIDE DEF P, Q
<1>6. IsFiniteSet(P) /\ Cardinality(P) \in Nat BY <1>f, FS_CardinalityType
<1>7. Cardinality(P \cup {n}) = Cardinality(P) + 1 BY <1>4, <1>6, FS_AddElement
<1>8. Cardinality(Q) = Cardinality(P) + (IF y = x THEN 1 ELSE 0) BY <1>5, <1>6, <1>7
<1> QED BY <1>8, <1>c

\* One less at the front.
LEMMA OccTail ==
  ASSUME NEW S, NEW s \in Seq(S), s # <<>>, NEW x
  PROVE  Occurrences(s, x) = Occurrences(Tail(s), x) + (IF Head(s) = x THEN 1 ELSE 0)
<1> DEFINE t == Tail(s)
           P == {i \in DOMAIN s : s[i] = x}
           Q == {i \in DOMAIN t : t[i] = x}
           f == [i \in Q |-> i + 1]
<1>1. Len(s) \in Nat /\ DOMAIN s = 1..Len(s) /\ Len(s) # 0 /\ Head(s) = s[1] OBVIOUS
<1>2. /\ t \in Seq(S) /\ Len(t) = Len(s) - 1 /\ DOMAIN t = 1..(Len(s) - 1)
      /\ \A i \in 1..(Len(s) - 1) : t[i] = s[i + 1]
  BY <1>1
<1> HIDE DEF t
<1>3. IsFiniteSet(P) /\ IsFiniteSet(Q)
  <2>1. IsFiniteSet(P) BY OccType, Zenon
  <2>2. t \in Seq(S) BY <1>2
  <2>3. IsFiniteSet(Q) BY <2>2, OccType, Zenon
  <2> QED BY <2>1, <2>3
<1>4. P \ {1} = {i + 1 : i \in Q}
  <2>1. ASSUME NEW i \in P \ {1} PROVE i - 1 \in Q /\ (i - 1) + 1 = i
    <3>1. i \in 1..Len(s) /\ i # 1 /\ s[i] = x BY <1>1, <2>1
    <3>2. i - 1 \in 1..(Len(s) - 1) /\ (i - 1) + 1 = i BY <1>1, <3>1
    <3> QED BY <1>2, <3>1, <3>2
  <2>2. ASSUME NEW i \in Q PROVE i + 1 \in P \ {1}
    <3>1. i \in 1..(Len(s) - 1) /\ t[i] = x BY <1>2
    <3>2. i + 1 \in 1..Len(s) /\ i + 1 # 1 BY <1>1, <3>1
    <3> QED BY <1>1, <1>2, <3>1, <3>2
  <2> QED BY <2>1, <2>2
<1>5. f \in Bijection(Q, P \ {1})
  <2>0. Q \subseteq Nat BY <1>1, <1>2
  <2>1. f \in [Q -> P \ {1}] BY <1>4
  <2>2. \A a, b \in Q : f[a] = f[b] => a = b BY <2>0
  <2>3. \A b \in P \ {1} : \E a \in Q : f[a] = b BY <1>4
  <2> QED BY <2>1, <2>2, <2>3 DEF Bijection, Injection, IsInjective, Surjection
<1>6. ExistsBijection(Q, P \ {1}) BY <1>5 DEF ExistsBijection
<1>7. Cardinality(P \ {1}) = Cardinality(Q) BY <1>3, <1>6, FS_Bijection
<1>8. Cardinality(P \ {1}) = IF 1 \in P THEN Cardinality(P) - 1 ELSE Cardinality(P)
  BY <1>3, FS_RemoveElement
<1>9. 1 \in P <=> Head(s) = x BY <1>1
<1>10. Cardinality(P) \in Nat /\ Cardinality(Q) \in Nat BY <1>3, FS_CardinalityType
<1>11. Cardinality(P) = Cardinality(Q) + (IF Head(s) = x THEN 1 ELSE 0)
  BY <1>7, <1>8, <1>9, <1>10
<1> QED BY <1>11 DEF Occurrences, t

-----------------------------------------------------------------------------
(* Lines. *)

\* Each handle is at most once in the line of senders, while it sends, and in the line
\* for permits, while it waits for one; the schedule channel holds one message; only an
\* aborted cron is done.
LineInv ==
  /\ Len(cron_schedule) <= 1
  /\ \A i \in 1..Len(senders) : phase[senders[i].handle] = "sending"
  /\ \A i, j \in 1..Len(senders) : senders[i].handle = senders[j].handle => i = j
  /\ \A i \in 1..Len(acquirers) : phase[acquirers[i]] = "acquiring"
  /\ \A i, j \in 1..Len(acquirers) : acquirers[i] = acquirers[j] => i = j
  /\ \A h \in Handles : phase[h] = "done" => closed[h]

\* A line that is left alone, by handles whose phase does not change.
LEMMA LineKept ==
  ASSUME TypeOK, LineInv, UNCHANGED <<phase, senders, acquirers>>,
         Len(cron_schedule') <= 1, \A h \in Handles : closed[h] => closed'[h]
  PROVE  LineInv'
BY DEF LineInv

\* The handles in the lines.
LEMMA LineTypes ==
  ASSUME TypeOK
  PROVE  /\ phase \in [Handles -> Phases]
         /\ senders \in Seq(Call) /\ Len(senders) \in Nat
         /\ \A i \in 1..Len(senders) : senders[i].handle \in Handles
         /\ acquirers \in Seq(Handles) /\ Len(acquirers) \in Nat
         /\ \A i \in 1..Len(acquirers) : acquirers[i] \in Handles
<1>1. phase \in [Handles -> Phases] /\ senders \in Seq(Call) /\ acquirers \in Seq(Handles)
  BY DEF TypeOK, Phases, Call
<1>2. \A i \in 1..Len(senders) : senders[i] \in Call BY <1>1
<1>3. \A c \in Call : c.handle \in Handles BY DEF Call
<1>4. \A i \in 1..Len(senders) : senders[i].handle \in Handles BY <1>2, <1>3, Zenon
<1> QED BY <1>1, <1>4

\* A call of next() joins the line of senders when the handle was not in it.
LEMMA LineCalls ==
  ASSUME TypeOK, LineInv, NEW h \in Handles, NEW ok, CallNext(h, ok),
         phase[h] \notin {"sending", "acquiring"}, phase' = [phase EXCEPT ![h] = "sending"],
         UNCHANGED <<acquirers, cron_schedule, closed>>
  PROVE  LineInv'
<1>0. /\ phase \in [Handles -> Phases]
      /\ senders \in Seq(Call) /\ Len(senders) \in Nat
      /\ \A i \in 1..Len(senders) : senders[i].handle \in Handles
      /\ acquirers \in Seq(Handles) /\ Len(acquirers) \in Nat
      /\ \A i \in 1..Len(acquirers) : acquirers[i] \in Handles
  BY LineTypes
<1> DEFINE n == Len(senders) + 1
<1>1. /\ Len(senders') = n /\ senders'[n].handle = h
      /\ \A i \in 1..Len(senders) : senders'[i] = senders[i]
  BY <1>0 DEF CallNext
<1>2. \A i \in 1..n : i \in 1..Len(senders) \/ i = n BY <1>0
<1>3. phase'[h] = "sending" /\ \A g \in Handles \ {h} : phase'[g] = phase[g] BY <1>0
<1> HIDE DEF n
<1>4. \A i \in 1..Len(senders) : senders[i].handle # h BY DEF LineInv
<1>5. \A i \in 1..Len(senders') : phase'[senders'[i].handle] = "sending"
  <2> SUFFICES ASSUME NEW i \in 1..Len(senders') PROVE phase'[senders'[i].handle] = "sending"
    OBVIOUS
  <2>1. CASE i = n BY <2>1, <1>1, <1>3
  <2>2. CASE i \in 1..Len(senders)
    <3>1. senders'[i].handle \in Handles \ {h} /\ phase[senders[i].handle] = "sending"
      BY <2>2, <1>0, <1>1, <1>4 DEF LineInv
    <3> QED BY <3>1, <2>2, <1>1, <1>3
  <2> QED BY <2>1, <2>2, <1>1, <1>2
<1>6. \A i, j \in 1..Len(senders') : senders'[i].handle = senders'[j].handle => i = j
  BY <1>1, <1>2, <1>4 DEF LineInv
<1>7. \A i \in 1..Len(acquirers') : phase'[acquirers'[i]] = "acquiring"
  BY <1>0, <1>3 DEF LineInv
<1>8. \A g \in Handles : phase'[g] = "done" => closed'[g] BY <1>3 DEF LineInv
<1> QED BY <1>5, <1>6, <1>7, <1>8 DEF LineInv

\* Every step keeps the lines.
LEMMA LineStep == TypeOK /\ NameInv /\ LineInv /\ [Next]_vars => LineInv'
<1> SUFFICES ASSUME TypeOK, NameInv, LineInv, [Next]_vars PROVE LineInv' OBVIOUS
<1>0. /\ phase \in [Handles -> Phases]
      /\ senders \in Seq(Call) /\ Len(senders) \in Nat
      /\ \A i \in 1..Len(senders) : senders[i].handle \in Handles
      /\ acquirers \in Seq(Handles) /\ Len(acquirers) \in Nat
      /\ \A i \in 1..Len(acquirers) : acquirers[i] \in Handles
  BY LineTypes
<1>l. Len(cron_schedule) <= 1 BY DEF LineInv
<1>p. ASSUME NEW h \in Handles, NEW p \in Phases \ {"done"}, phase' = [phase EXCEPT ![h] = p],
             phase[h] \notin {"sending", "acquiring"},
             UNCHANGED <<senders, acquirers, cron_schedule, closed>>
      PROVE  LineInv'
  <2>1. phase'[h] = p /\ \A g \in Handles \ {h} : phase'[g] = phase[g] BY <1>0, <1>p
  <2>2. \A i \in 1..Len(senders) : senders[i].handle # h BY <1>p DEF LineInv
  <2>3. \A i \in 1..Len(acquirers) : acquirers[i] # h BY <1>p DEF LineInv
  <2> QED BY <1>0, <1>p, <2>1, <2>2, <2>3 DEF LineInv
<1>1. ASSUME NEW h \in Handles, Create(h) PROVE LineInv'
  <2>1. /\ phase[h] = "new" /\ phase' = [phase EXCEPT ![h] = "sending"] /\ CallNext(h, TRUE)
        /\ UNCHANGED <<acquirers, cron_schedule, closed>>
    BY <1>1 DEF Create
  <2> QED BY <2>1, LineCalls
<1>2. ASSUME NEW h \in Handles, CreateFails(h) PROVE LineInv'
  <2>1. /\ phase[h] = "new" /\ phase' = [phase EXCEPT ![h] = "rejected"]
        /\ UNCHANGED <<senders, acquirers, cron_schedule, closed>>
    BY <1>2 DEF CreateFails, queueVars
  <2> QED BY <1>p, <2>1 DEF Phases
<1>3. ASSUME NEW h \in Handles, Close(h) PROVE LineInv'
  <2>1. UNCHANGED <<phase, senders, acquirers, cron_schedule>>
        /\ closed' = [closed EXCEPT ![h] = TRUE] /\ closed \in [Handles -> BOOLEAN]
    BY <1>3 DEF Close, queueVars, TypeOK
  <2>2. \A g \in Handles : closed[g] => closed'[g] BY <2>1
  <2> QED BY <1>l, <2>1, <2>2, LineKept
<1>4. ASSUME NEW h \in Handles, Send(h) PROVE LineInv'
  <2>1. /\ phase' = [phase EXCEPT ![h] = "receiving"] /\ UNCHANGED <<acquirers, closed>>
        /\ senders # <<>> /\ senders' = Tail(senders) /\ Head(senders).handle = h
    BY <1>4 DEF Send
  <2>2. Len(cron_schedule') = 1 BY <1>4 DEF Send
  <2>3. /\ senders[1].handle = h /\ 1 \in 1..Len(senders) /\ Len(senders') = Len(senders) - 1
        /\ \A i \in 1..Len(senders') : i + 1 \in 1..Len(senders) /\ senders'[i] = senders[i + 1]
    BY <1>0, <2>1
  <2>4. phase[h] = "sending" BY <2>3 DEF LineInv
  <2>5. phase'[h] = "receiving" /\ \A g \in Handles \ {h} : phase'[g] = phase[g]
    BY <1>0, <2>1
  <2>6. ASSUME NEW i \in 1..Len(senders')
        PROVE  senders'[i].handle \in Handles \ {h} /\ phase'[senders'[i].handle] = "sending"
    <3>1. i + 1 \in 1..Len(senders) /\ senders'[i] = senders[i + 1] /\ i + 1 # 1
      BY <1>0, <2>3
    <3>2. senders[i + 1].handle \in Handles /\ phase[senders[i + 1].handle] = "sending"
      BY <1>0, <3>1 DEF LineInv
    <3>3. senders[i + 1].handle # h BY <2>3, <3>1 DEF LineInv
    <3> QED BY <2>5, <3>1, <3>2, <3>3
  <2>7. \A i, j \in 1..Len(senders') : senders'[i].handle = senders'[j].handle => i = j
    <3> TAKE i, j \in 1..Len(senders')
    <3> HAVE senders'[i].handle = senders'[j].handle
    <3>1. i + 1 = j + 1 BY <2>3 DEF LineInv
    <3> QED BY <1>0, <2>3, <3>1
  <2>8. \A i \in 1..Len(acquirers) : phase'[acquirers[i]] = "acquiring"
    BY <1>0, <2>4, <2>5 DEF LineInv
  <2>9. \A g \in Handles : phase'[g] = "done" => closed'[g] BY <2>1, <2>5 DEF LineInv
  <2> QED BY <2>1, <2>2, <2>6, <2>7, <2>8, <2>9 DEF LineInv
<1>5. ASSUME NEW h \in Handles, Recv(h) PROVE LineInv'
  <2>1. phase[h] = "receiving" /\ UNCHANGED <<senders, cron_schedule, closed>>
    BY <1>5 DEF Recv
  <2>2. \A i \in 1..Len(senders) : senders[i].handle # h BY <2>1 DEF LineInv
  <2>3. \A i \in 1..Len(acquirers) : acquirers[i] # h BY <2>1 DEF LineInv
  <2>4. CASE phase' = [phase EXCEPT ![h] = "acquiring"] /\ acquirers' = Append(acquirers, h)
    <3> DEFINE n == Len(acquirers) + 1
    <3>1. /\ Len(acquirers') = n /\ acquirers'[n] = h
          /\ \A i \in 1..Len(acquirers) : acquirers'[i] = acquirers[i]
      BY <1>0, <2>4
    <3>2. \A i \in 1..n : i \in 1..Len(acquirers) \/ i = n BY <1>0
    <3>3. phase'[h] = "acquiring" /\ \A g \in Handles \ {h} : phase'[g] = phase[g]
      BY <1>0, <2>4
    <3> HIDE DEF n
    <3>4. \A i \in 1..Len(acquirers') : phase'[acquirers'[i]] = "acquiring"
      BY <1>0, <3>1, <3>2, <3>3 DEF LineInv
    <3>5. \A i, j \in 1..Len(acquirers') : acquirers'[i] = acquirers'[j] => i = j
      BY <2>3, <3>1, <3>2 DEF LineInv
    <3>6. \A i \in 1..Len(senders) : phase'[senders[i].handle] = "sending"
      BY <1>0, <2>2, <3>3 DEF LineInv
    <3>7. \A g \in Handles : phase'[g] = "done" => closed[g] BY <3>3 DEF LineInv
    <3> QED BY <2>1, <3>4, <3>5, <3>6, <3>7 DEF LineInv
  <2>5. CASE phase' = [phase EXCEPT ![h] = "done"] /\ closed[h] /\ acquirers' = acquirers
    <3>1. phase'[h] = "done" /\ \A g \in Handles \ {h} : phase'[g] = phase[g] BY <1>0, <2>5
    <3> QED BY <1>0, <2>1, <2>2, <2>3, <2>5, <3>1 DEF LineInv
  <2> QED BY <1>5, <2>4, <2>5 DEF Recv
<1>6. ASSUME NEW h \in Handles, Acquire(h) PROVE LineInv'
  <2>1. /\ phase' = [phase EXCEPT ![h] = "handling"]
        /\ UNCHANGED <<senders, cron_schedule, closed>>
        /\ acquirers # <<>> /\ acquirers' = Tail(acquirers) /\ Head(acquirers) = h
    BY <1>6 DEF Acquire
  <2>2. /\ acquirers[1] = h /\ 1 \in 1..Len(acquirers) /\ Len(acquirers') = Len(acquirers) - 1
        /\ \A i \in 1..Len(acquirers') :
             i + 1 \in 1..Len(acquirers) /\ acquirers'[i] = acquirers[i + 1]
    BY <1>0, <2>1
  <2>3. phase[h] = "acquiring" BY <2>2 DEF LineInv
  <2>4. phase'[h] = "handling" /\ \A g \in Handles \ {h} : phase'[g] = phase[g]
    BY <1>0, <2>1
  <2>5. ASSUME NEW i \in 1..Len(acquirers')
        PROVE  acquirers'[i] \in Handles \ {h} /\ phase'[acquirers'[i]] = "acquiring"
    <3>1. i + 1 \in 1..Len(acquirers) /\ acquirers'[i] = acquirers[i + 1] /\ i + 1 # 1
      BY <1>0, <2>2
    <3>2. acquirers[i + 1] \in Handles /\ phase[acquirers[i + 1]] = "acquiring"
      BY <1>0, <3>1 DEF LineInv
    <3>3. acquirers[i + 1] # h BY <2>2, <3>1 DEF LineInv
    <3> QED BY <2>4, <3>1, <3>2, <3>3
  <2>6. \A i, j \in 1..Len(acquirers') : acquirers'[i] = acquirers'[j] => i = j
    <3> TAKE i, j \in 1..Len(acquirers')
    <3> HAVE acquirers'[i] = acquirers'[j]
    <3>0. /\ i + 1 \in 1..Len(acquirers) /\ j + 1 \in 1..Len(acquirers)
          /\ acquirers[i + 1] = acquirers[j + 1]
      BY <2>2
    <3>1. i + 1 = j + 1 BY <3>0 DEF LineInv
    <3> QED BY <1>0, <2>2, <3>1
  <2>7. \A i \in 1..Len(senders) : phase'[senders[i].handle] = "sending"
    BY <1>0, <2>3, <2>4 DEF LineInv
  <2>8. \A g \in Handles : phase'[g] = "done" => closed[g] BY <2>4 DEF LineInv
  <2> QED BY <2>1, <2>5, <2>6, <2>7, <2>8 DEF LineInv
<1>7. ASSUME NEW h \in Handles, HandlerEnds(h) PROVE LineInv'
  <2>1. phase[h] = "handling" /\ UNCHANGED <<acquirers, cron_schedule, closed>>
    BY <1>7 DEF HandlerEnds
  <2>2. CASE closed[h]
    <3>1. phase' = [phase EXCEPT ![h] = "done"] /\ senders' = senders
      BY <1>7, <2>2 DEF HandlerEnds
    <3>2. \A i \in 1..Len(senders) : senders[i].handle # h BY <2>1 DEF LineInv
    <3>3. \A i \in 1..Len(acquirers) : acquirers[i] # h BY <2>1 DEF LineInv
    <3>4. phase'[h] = "done" /\ \A g \in Handles \ {h} : phase'[g] = phase[g] BY <1>0, <3>1
    <3> QED BY <1>0, <2>1, <2>2, <3>1, <3>2, <3>3, <3>4 DEF LineInv
  <2>3. CASE ~closed[h]
    <3>1. PICK ok \in BOOLEAN : CallNext(h, ok) BY <1>7, <2>3 DEF HandlerEnds
    <3>2. phase' = [phase EXCEPT ![h] = "sending"] BY <1>7, <2>3 DEF HandlerEnds
    <3> QED BY <2>1, <3>1, <3>2, LineCalls
  <2> QED BY <2>2, <2>3
<1>8. CASE Running(Loop)
  <2>1. CASE LoopWakes BY <1>l, <2>1, LineKept DEF LoopWakes, queueVars, handleVars
  <2>2. CASE LoopSchedules
    <3>1. cron_schedule' = <<>> /\ UNCHANGED <<phase, senders, acquirers, closed>>
      BY <2>2 DEF LoopSchedules
    <3>2. Len(cron_schedule') <= 1 BY <3>1
    <3> QED BY <3>1, <3>2, LineKept
  <2>3. CASE Dispatch BY <1>l, <2>3, LineKept DEF Dispatch, queueVars
  <2> QED BY <1>8, <2>1, <2>2, <2>3 DEF Running, Loop
<1>9. ASSUME NEW n \in Names, Running(Due(n)) PROVE LineInv'
  BY <1>l, <1>9, LineKept DEF Running, Due, queueVars, handleVars
<1>10. CASE UNCHANGED vars
  BY <1>l, <1>10, LineKept DEF vars, queueVars, handleVars
<1> QED BY <1>1, <1>2, <1>3, <1>4, <1>5, <1>6, <1>7, <1>8, <1>9, <1>10
      DEF Next, Running, Cycle

-----------------------------------------------------------------------------
(* One execution on its way. *)

\* The message in the schedule channel asks for a deadline of n.
Asked(n) == IF cron_schedule # <<>> /\ Head(cron_schedule).name = n THEN 1 ELSE 0
Delivered(h) == IF token[h] THEN 1 ELSE 0
Receiving(h) == IF phase[h] = "receiving" THEN 1 ELSE 0

\* Pending(h), with the schedule channel counted by its only message.
Count(h) ==
  Asked(NameOf[h]) + waiting[NameOf[h]] + Occurrences(due, NameOf[h])
    + Occurrences(to_execute, h) + Delivered(h)

\* OneExecutionPending in these terms.
FlowInv ==
  loop # "panicked" => \A h \in Handles : ~closed[h] => Count(h) = Receiving(h)

\* The parts of Count are numbers.
LEMMA CountParts ==
  ASSUME TypeOK, NEW h \in Handles
  PROVE  /\ Asked(NameOf[h]) \in Nat /\ waiting[NameOf[h]] \in Nat
         /\ Occurrences(due, NameOf[h]) \in Nat /\ Occurrences(to_execute, h) \in Nat
         /\ Delivered(h) \in Nat /\ Receiving(h) \in Nat
<1>1. /\ due \in Seq(Names) /\ to_execute \in Seq(Handles \cup {NoCron})
      /\ waiting \in [Names -> Nat] /\ NameOf[h] \in Names
  BY CronAssumption DEF TypeOK
<1>2. Occurrences(due, NameOf[h]) \in Nat BY <1>1, OccType
<1>3. Occurrences(to_execute, h) \in Nat BY <1>1, OccType
<1>4. Asked(NameOf[h]) \in Nat /\ Delivered(h) \in Nat /\ Receiving(h) \in Nat
  BY DEF Asked, Delivered, Receiving
<1> QED BY <1>1, <1>2, <1>3, <1>4

\* Count counts what Pending counts while the schedule channel holds one message.
LEMMA PendingCount ==
  ASSUME TypeOK, Len(cron_schedule) <= 1, NEW h \in Handles
  PROVE  Pending(h) = Count(h)
<1> DEFINE n == NameOf[h]
           A == {i \in DOMAIN cron_schedule : cron_schedule[i].name = n}
<1>1. cron_schedule \in Seq(Message) BY DEF TypeOK, Message
<1>2. Len(cron_schedule) \in {0, 1} /\ DOMAIN cron_schedule = 1..Len(cron_schedule)
  BY <1>1
<1>3. CASE Len(cron_schedule) = 0
  <2>1. cron_schedule = <<>> /\ DOMAIN cron_schedule = {} BY <1>1, <1>2, <1>3
  <2>2. A = {} BY <2>1
  <2>3. Cardinality(A) = 0 BY <2>2, FS_EmptySet
  <2> QED BY <2>1, <2>3 DEF Asked, Pending, Count, Delivered
<1>4. CASE Len(cron_schedule) = 1
  <2>1. cron_schedule # <<>> /\ Head(cron_schedule) = cron_schedule[1] BY <1>1, <1>4
  <2>2. DOMAIN cron_schedule = {1} BY <1>2, <1>4
  <2>3. A = IF Head(cron_schedule).name = n THEN {1} ELSE {} BY <2>1, <2>2
  <2>4. Cardinality({1}) = 1 BY FS_Singleton
  <2>5. Cardinality({}) = 0 BY FS_EmptySet
  <2>6. Cardinality(A) = Asked(n) BY <2>1, <2>3, <2>4, <2>5 DEF Asked
  <2> QED BY <2>6 DEF Pending, Count, Delivered
<1> QED BY <1>2, <1>3, <1>4

\* A step that moves nothing between the queues, and changes neither the channel nor
\* the waiting of an open cron.
LEMMA FlowQuiet ==
  ASSUME TypeOK, FlowInv, loop' # "panicked" => loop # "panicked",
         UNCHANGED <<cron_schedule, waiting, due, to_execute>>,
         \A h \in Handles : ~closed'[h] =>
           /\ ~closed[h] /\ token'[h] = token[h]
           /\ (phase'[h] = "receiving") <=> (phase[h] = "receiving")
  PROVE  FlowInv'
<1> SUFFICES ASSUME loop' # "panicked", NEW h \in Handles, ~closed'[h]
             PROVE  Count(h)' = Receiving(h)'
  BY DEF FlowInv
<1>1. Count(h) = Receiving(h) BY DEF FlowInv
<1>2. Receiving(h)' = Receiving(h) BY DEF Receiving
<1>3. Delivered(h)' = Delivered(h) BY DEF Delivered
<1>4. Asked(NameOf[h])' = Asked(NameOf[h]) BY DEF Asked
<1>5. /\ Occurrences(due, NameOf[h])' = Occurrences(due, NameOf[h])
      /\ Occurrences(to_execute, h)' = Occurrences(to_execute, h)
  BY DEF Occurrences
<1> QED BY <1>1, <1>2, <1>3, <1>4, <1>5 DEF Count

\* The loop takes what is due: the open cron of a name is to be executed as often as
\* its name was due.
LEMMA ReadyCount ==
  ASSUME TypeOK, NameInv, ReadyCrons, NEW h \in Handles, ~closed[h],
         phase[h] \notin Unborn \/ Occurrences(due, NameOf[h]) = 0
  PROVE  /\ Occurrences(to_execute, h)' = Occurrences(due, NameOf[h])
         /\ Occurrences(due, NameOf[h])' = 0
<1>1. /\ due \in Seq(Names) /\ crons \in [Names -> Handles \cup {NoCron}]
      /\ NameOf[h] \in Names
  BY CronAssumption DEF TypeOK
<1>2. DOMAIN due = 1..Len(due) /\ \A i \in DOMAIN due : due[i] \in Names BY <1>1
<1>3. \A n \in Names : OpenUnder(n) = IF crons[n] = NoCron THEN {} ELSE {crons[n]}
  BY Zenon DEF NameInv
<1>4. \A n \in Names : crons[n] = h => h \in OpenUnder(n) BY <1>3, CronAssumption
<1>5. \A n \in Names : crons[n] = h => NameOf[h] = n /\ phase[h] \notin Unborn
  BY <1>4 DEF OpenUnder
<1>6. CASE phase[h] \notin Unborn
  <2>1. h \in OpenUnder(NameOf[h]) BY <1>6 DEF OpenUnder
  <2>2. crons[NameOf[h]] = h BY <1>1, <1>3, <2>1
  <2>3. \A i \in DOMAIN due : crons[due[i]] = h <=> due[i] = NameOf[h]
    BY <1>2, <1>5, <2>2
  <2>4. {i \in DOMAIN to_execute' : to_execute'[i] = h} = {i \in DOMAIN due : due[i] =
          NameOf[h]}
    BY <2>3 DEF ReadyCrons
  <2>5. Occurrences(to_execute, h)' = Occurrences(due, NameOf[h])
    BY <2>4, Zenon DEF Occurrences
  <2> QED BY <2>5, OccEmpty DEF ReadyCrons
<1>7. CASE phase[h] \in Unborn /\ Occurrences(due, NameOf[h]) = 0
  <2>1. {i \in DOMAIN to_execute' : to_execute'[i] = h} = {}
    BY <1>2, <1>5, <1>7 DEF ReadyCrons
  <2>2. Cardinality({i \in DOMAIN to_execute' : to_execute'[i] = h}) = 0
    BY <2>1, FS_EmptySet
  <2>3. Occurrences(to_execute, h)' = 0 BY <2>2, Zenon DEF Occurrences
  <2> QED BY <1>7, <2>3, OccEmpty DEF ReadyCrons
<1> QED BY <1>6, <1>7

\* An execution is asked for once the call of next() has its turn.
LEMMA FlowSend ==
  ASSUME Distinct, TypeOK, LineInv, FlowInv, loop # "panicked", NEW h \in Handles, Send(h)
  PROVE  FlowInv'
<1>0. /\ phase \in [Handles -> Phases] /\ senders \in Seq(Call)
      /\ cron_schedule = <<>> /\ senders # <<>> /\ Head(senders).handle = h
      /\ phase' = [phase EXCEPT ![h] = "receiving"]
  BY DEF TypeOK, Phases, Call, Send
<1>1. UNCHANGED <<waiting, due, to_execute, token, closed, loop>>
  BY DEF Send, loopVars, stateVars
<1>2. cron_schedule' # <<>> /\ Head(cron_schedule').name = NameOf[h] BY DEF Send
<1>3. phase[h] = "sending"
  <2>1. 1 \in 1..Len(senders) /\ senders[1].handle = h BY <1>0
  <2> QED BY <2>1 DEF LineInv
<1> SUFFICES ASSUME NEW g \in Handles, ~closed[g] PROVE Count(g)' = Receiving(g)'
  BY <1>1 DEF FlowInv
<1>4. Count(g) = Receiving(g) BY DEF FlowInv
<1>5. Asked(NameOf[g]) = 0 BY <1>0 DEF Asked
<1>6. Asked(NameOf[g])' = IF g = h THEN 1 ELSE 0 BY <1>2 DEF Asked, Distinct
<1>7. Receiving(g)' = IF g = h THEN 1 ELSE Receiving(g) BY <1>0 DEF Receiving
<1>8. Receiving(h) = 0 BY <1>3 DEF Receiving
<1>9. /\ Occurrences(due, NameOf[g])' = Occurrences(due, NameOf[g])
      /\ Occurrences(to_execute, g)' = Occurrences(to_execute, g)
      /\ Delivered(g)' = Delivered(g) /\ waiting'[NameOf[g]] = waiting[NameOf[g]]
  BY <1>1 DEF Occurrences, Delivered
<1> QED BY <1>4, <1>5, <1>6, <1>7, <1>8, <1>9, CountParts DEF Count

\* The message of the loop ends the wait of its handle.
LEMMA FlowRecv ==
  ASSUME TypeOK, FlowInv, loop # "panicked", NEW h \in Handles, Recv(h)
  PROVE  FlowInv'
<1>0. /\ phase \in [Handles -> Phases] /\ token \in [Handles -> BOOLEAN]
      /\ closed \in [Handles -> BOOLEAN] /\ phase[h] = "receiving"
  BY DEF TypeOK, Phases, Recv
<1>1. UNCHANGED <<cron_schedule, waiting, due, to_execute, closed, loop>>
  BY DEF Recv, loopVars, stateVars
<1>2. CASE ~token[h] /\ closed[h] /\ phase' = [phase EXCEPT ![h] = "done"] /\ token' = token
  BY <1>0, <1>1, <1>2, FlowQuiet
<1>3. CASE /\ token[h] /\ token' = [token EXCEPT ![h] = FALSE]
           /\ phase' = [phase EXCEPT ![h] = "acquiring"]
  <2> SUFFICES ASSUME NEW g \in Handles, ~closed[g] PROVE Count(g)' = Receiving(g)'
    BY <1>1 DEF FlowInv
  <2>1. Count(g) = Receiving(g) BY DEF FlowInv
  <2>2. Asked(NameOf[g])' = Asked(NameOf[g]) BY <1>1 DEF Asked
  <2>3. Receiving(g)' = IF g = h THEN 0 ELSE Receiving(g) BY <1>0, <1>3 DEF Receiving
  <2>4. Delivered(g)' = IF g = h THEN 0 ELSE Delivered(g) BY <1>0, <1>3 DEF Delivered
  <2>5. Receiving(h) = 1 /\ Delivered(h) = 1 BY <1>0, <1>3 DEF Receiving, Delivered
  <2>6. /\ Occurrences(due, NameOf[g])' = Occurrences(due, NameOf[g])
        /\ Occurrences(to_execute, g)' = Occurrences(to_execute, g)
        /\ waiting'[NameOf[g]] = waiting[NameOf[g]]
    BY <1>1 DEF Occurrences
  <2> QED BY <2>1, <2>2, <2>3, <2>4, <2>5, <2>6, CountParts DEF Count
<1> QED BY <1>2, <1>3 DEF Recv

\* A deadline passes: it is due instead of waiting.
LEMMA FlowDue ==
  ASSUME TypeOK, FlowInv, loop # "panicked", NEW n \in Names, Due(n)
  PROVE  FlowInv'
<1>0. waiting \in [Names -> Nat] /\ due \in Seq(Names) /\ waiting[n] > 0 BY DEF TypeOK, Due
<1>1. /\ waiting' = [waiting EXCEPT ![n] = @ - 1] /\ due' = Append(due, n)
      /\ UNCHANGED <<cron_schedule, to_execute, token, phase, closed, loop>>
  BY DEF Due, loopVars, queueVars, handleVars
<1> SUFFICES ASSUME NEW g \in Handles, ~closed[g] PROVE Count(g)' = Receiving(g)'
  BY <1>1 DEF FlowInv
<1>2. Count(g) = Receiving(g) BY DEF FlowInv
<1>3. NameOf[g] \in Names BY CronAssumption
<1>4. waiting'[NameOf[g]] = IF NameOf[g] = n THEN waiting[NameOf[g]] - 1 ELSE waiting[NameOf[g]]
  BY <1>0, <1>1, <1>3
<1>5. Occurrences(due', NameOf[g])
        = Occurrences(due, NameOf[g]) + (IF n = NameOf[g] THEN 1 ELSE 0)
  BY <1>0, <1>1, OccAppend
<1>6. Occurrences(due, NameOf[g])' = Occurrences(due', NameOf[g]) BY DEF Occurrences
<1>7. /\ Asked(NameOf[g])' = Asked(NameOf[g]) /\ Delivered(g)' = Delivered(g)
      /\ Receiving(g)' = Receiving(g)
      /\ Occurrences(to_execute, g)' = Occurrences(to_execute, g)
  BY <1>1 DEF Asked, Delivered, Receiving, Occurrences
<1> QED BY <1>2, <1>4, <1>5, <1>6, <1>7, CountParts DEF Count

\* The loop takes what is due, when it wakes for a deadline or for a message.
LEMMA FlowReady ==
  ASSUME TypeOK, NameInv, LineInv, FlowInv, loop # "panicked", LoopWakes \/ LoopSchedules
  PROVE  FlowInv'
<1> SUFFICES ASSUME loop' # "panicked", NEW g \in Handles, ~closed'[g]
             PROVE  Count(g)' = Receiving(g)'
  BY DEF FlowInv
<1>1. UNCHANGED <<phase, closed, token>> /\ to_execute = <<>>
  BY DEF LoopWakes, LoopSchedules, handleVars
<1>2. Count(g) = Receiving(g) /\ ~closed[g] BY <1>1 DEF FlowInv
<1>3. /\ Asked(NameOf[g]) \in Nat /\ waiting[NameOf[g]] \in Nat
      /\ Occurrences(due, NameOf[g]) \in Nat /\ Occurrences(to_execute, g) \in Nat
      /\ Delivered(g) \in Nat /\ Receiving(g) \in Nat
  BY CountParts
<1>4. Occurrences(to_execute, g) = 0 BY <1>1, OccEmpty
<1>5. Receiving(g)' = Receiving(g) /\ Delivered(g)' = Delivered(g)
  BY <1>1 DEF Receiving, Delivered
<1>6. phase[g] \in Unborn => Occurrences(due, NameOf[g]) = 0 /\ Asked(NameOf[g]) = 0
  <2> HAVE phase[g] \in Unborn
  <2>1. Receiving(g) = 0 BY DEF Unborn, Receiving
  <2>2. \A a, b, c, d, e \in Nat : a + b + c + d + e = 0 => a = 0 /\ c = 0 OBVIOUS
  <2>3. Count(g) = 0 BY <1>2, <2>1
  <2> QED BY <1>3, <2>2, <2>3 DEF Count
<1>7. ReadyCrons
  BY DEF LoopWakes, LoopSchedules
<1>8. /\ Occurrences(to_execute, g)' = Occurrences(due, NameOf[g])
      /\ Occurrences(due, NameOf[g])' = 0
  BY <1>2, <1>6, <1>7, ReadyCount
<1>9. Asked(NameOf[g])' + waiting'[NameOf[g]] = Asked(NameOf[g]) + waiting[NameOf[g]]
  <2>1. CASE LoopWakes
    <3>1. UNCHANGED <<cron_schedule, waiting>> BY <2>1 DEF LoopWakes, queueVars
    <3> QED BY <3>1 DEF Asked
  <2>2. CASE LoopSchedules
    <3>1. PICK n : n = Head(cron_schedule).name OBVIOUS
    <3>2. cron_schedule # <<>> /\ cron_schedule' = <<>> BY <2>2 DEF LoopSchedules
    <3>3. waiting' = IF crons[n] # NoCron THEN [waiting EXCEPT ![n] = @ + 1] ELSE waiting
      BY <2>2, <3>1 DEF LoopSchedules
    <3>4. Asked(NameOf[g])' = 0 /\ Asked(NameOf[g]) = IF n = NameOf[g] THEN 1 ELSE 0
      BY <3>1, <3>2 DEF Asked
    <3>5. waiting \in [Names -> Nat] /\ NameOf[g] \in Names BY CronAssumption DEF TypeOK
    <3>6. CASE n # NameOf[g] BY <3>3, <3>4, <3>5, <3>6
    <3>7. CASE n = NameOf[g]
      <4>1. phase[g] \notin Unborn BY <1>6, <3>4, <3>7
      <4>2. g \in OpenUnder(n) BY <1>2, <3>7, <4>1 DEF OpenUnder
      <4>3. crons[n] # NoCron
        <5>1. OpenUnder(n) = IF crons[n] = NoCron THEN {} ELSE {crons[n]}
          BY <3>5, <3>7, Zenon DEF NameInv
        <5> QED BY <4>2, <5>1
      <4> QED BY <3>3, <3>4, <3>5, <3>7, <4>3
    <3> QED BY <3>6, <3>7
  <2> QED BY <2>1, <2>2
<1>10. Asked(NameOf[g])' \in Nat /\ waiting'[NameOf[g]] \in Nat
  <2>1. TypeOK' BY TypeLoop DEF Loop
  <2>2. waiting' \in [Names -> Nat] /\ NameOf[g] \in Names BY <2>1, CronAssumption DEF TypeOK
  <2> QED BY <2>2 DEF Asked
<1> QED BY <1>2, <1>3, <1>4, <1>5, <1>8, <1>9, <1>10 DEF Count

\* The loop sends to the first cron it has to execute; an open cron is never skipped.
LEMMA FlowDispatch ==
  ASSUME TypeOK, FlowInv, loop # "panicked", Dispatch
  PROVE  FlowInv'
<1>0. /\ to_execute \in Seq(Handles \cup {NoCron}) /\ to_execute # <<>>
      /\ token \in [Handles -> BOOLEAN]
  BY DEF TypeOK, Dispatch
<1>1. UNCHANGED <<cron_schedule, waiting, due, phase, closed, loop>>
  BY DEF Dispatch, stateVars, queueVars
<1>2. PICK h : h = Head(to_execute) OBVIOUS
<1>3. CASE UNCHANGED <<to_execute, token>> BY <1>1, <1>3, FlowQuiet
<1>4. CASE to_execute' = Tail(to_execute)
           /\ (\/ ~Reachable(h) /\ token' = token
               \/ Reachable(h) /\ ~token[h] /\ token' = [token EXCEPT ![h] = TRUE])
  <2> SUFFICES ASSUME NEW g \in Handles, ~closed[g] PROVE Count(g)' = Receiving(g)'
    BY <1>1 DEF FlowInv
  <2>1. Count(g) = Receiving(g) BY DEF FlowInv
  <2>2. /\ Asked(NameOf[g])' = Asked(NameOf[g]) /\ Receiving(g)' = Receiving(g)
        /\ Occurrences(due, NameOf[g])' = Occurrences(due, NameOf[g])
        /\ waiting'[NameOf[g]] = waiting[NameOf[g]]
    BY <1>1 DEF Asked, Receiving, Occurrences
  <2>3. Occurrences(to_execute, g)
          = Occurrences(to_execute', g) + (IF h = g THEN 1 ELSE 0)
    BY <1>0, <1>2, <1>4, OccTail
  <2>4. Occurrences(to_execute, g)' = Occurrences(to_execute', g) BY DEF Occurrences
  <2>5. to_execute' \in Seq(Handles \cup {NoCron}) BY <1>0, <1>4
  <2>6. Occurrences(to_execute', g) \in Nat BY <2>5, OccType
  <2>7. g # NoCron /\ (h = g => Reachable(h))
    BY CronAssumption DEF Reachable, Alive
  <2>8. Delivered(g)' = Delivered(g) + (IF h = g THEN 1 ELSE 0)
    BY <1>0, <1>4, <2>7 DEF Delivered
  <2> QED BY <2>1, <2>2, <2>3, <2>4, <2>6, <2>8, CountParts DEF Count
<1> QED BY <1>2, <1>3, <1>4 DEF Dispatch

\* Every step keeps the flow of executions.
LEMMA FlowStep ==
  ASSUME Distinct, TypeOK, NameInv, LineInv, FlowInv, [Next]_vars
  PROVE  FlowInv'
<1> USE DEF loopVars, stateVars, queueVars, handleVars
<1>0. /\ phase \in [Handles -> Phases] /\ token \in [Handles -> BOOLEAN]
      /\ closed \in [Handles -> BOOLEAN]
      /\ acquirers \in Seq(Handles)
  BY DEF TypeOK, Phases
<1>1. ASSUME NEW h \in Handles, loop # "panicked", Create(h) \/ CreateFails(h) PROVE FlowInv'
  <2>1. PICK p \in {"sending", "rejected"} :
          /\ phase[h] = "new" /\ phase' = [phase EXCEPT ![h] = p]
          /\ UNCHANGED <<cron_schedule, waiting, due, to_execute, token, closed>>
    BY <1>1 DEF Create, CreateFails, StartLoop
  <2> QED BY <1>0, <1>1, <2>1, FlowQuiet
<1>2. ASSUME NEW h \in Handles, loop # "panicked", Close(h) PROVE FlowInv'
  <2>1. /\ closed' = [closed EXCEPT ![h] = TRUE]
        /\ token' = [token EXCEPT ![h] = @ /\ InNext(h)]
        /\ UNCHANGED <<cron_schedule, waiting, due, to_execute, phase>>
    BY <1>2 DEF Close
  <2>2. \A g \in Handles : ~closed'[g] => g # h /\ ~closed[g] BY <1>0, <2>1
  <2>3. \A g \in Handles \ {h} : token'[g] = token[g] BY <1>0, <2>1
  <2> QED BY <1>2, <2>1, <2>2, <2>3, FlowQuiet
<1>3. ASSUME NEW h \in Handles, loop # "panicked", Acquire(h) PROVE FlowInv'
  <2>1. /\ phase' = [phase EXCEPT ![h] = "handling"]
        /\ token' = [token EXCEPT ![h] = @ /\ ~closed[h]]
        /\ acquirers # <<>> /\ Head(acquirers) = h
        /\ UNCHANGED <<cron_schedule, waiting, due, to_execute, closed>>
    BY <1>3 DEF Acquire
  <2>2. phase[h] = "acquiring"
    <3>1. 1 \in 1..Len(acquirers) /\ acquirers[1] = h BY <1>0, <2>1
    <3> QED BY <3>1 DEF LineInv
  <2>3. \A g \in Handles : ~closed[g] => token'[g] = token[g] BY <1>0, <2>1
  <2>4. \A g \in Handles : (phase'[g] = "receiving") <=> (phase[g] = "receiving")
    BY <1>0, <2>1, <2>2
  <2> QED BY <1>3, <2>1, <2>3, <2>4, FlowQuiet
<1>4. ASSUME NEW h \in Handles, loop # "panicked", HandlerEnds(h) PROVE FlowInv'
  <2>1. PICK p \in {"sending", "done"} :
          /\ phase[h] = "handling" /\ phase' = [phase EXCEPT ![h] = p]
          /\ UNCHANGED <<cron_schedule, waiting, due, to_execute, token, closed>>
    BY <1>4 DEF HandlerEnds
  <2> QED BY <1>0, <1>4, <2>1, FlowQuiet
<1>5. ASSUME NEW h \in Handles, loop # "panicked", Cycle(h) PROVE FlowInv'
  BY <1>3, <1>4, <1>5, FlowSend, FlowRecv DEF Cycle
<1>6. ASSUME NEW h \in Handles, Running(Create(h) \/ CreateFails(h) \/ Close(h) \/ Cycle(h))
      PROVE  FlowInv'
  BY <1>1, <1>2, <1>5, <1>6 DEF Running
<1>7. ASSUME Running(Loop) PROVE FlowInv' BY <1>7, FlowReady, FlowDispatch DEF Running, Loop
<1>8. ASSUME NEW n \in Names, Running(Due(n)) PROVE FlowInv' BY <1>8, FlowDue DEF Running
<1>9. CASE UNCHANGED vars BY <1>9, FlowQuiet DEF vars
<1> QED BY <1>6, <1>7, <1>8, <1>9 DEF Next

\* The invariant of the executions.
ExecutionInv == TypeOK /\ NameInv /\ LineInv /\ FlowInv

\* It holds at the start.
LEMMA ExecutionInit == Init => ExecutionInv
<1> SUFFICES ASSUME Init PROVE ExecutionInv OBVIOUS
<1>1. TypeOK BY TypeInit
<1>2. NameInv
  <2>1. \A n \in Names : OpenUnder(n) = {} BY DEF Init, OpenUnder, Unborn
  <2>2. \A n \in Names : crons[n] = NoCron BY DEF Init
  <2>3. \A h \in Handles : ~closed[h] BY DEF Init
  <2>4. Len(senders) = 0 /\ Len(acquirers) = 0 BY DEF Init
  <2> QED BY <2>1, <2>2, <2>3, <2>4 DEF NameInv
<1>3. LineInv
  <2>1. Len(senders) = 0 /\ Len(acquirers) = 0 /\ Len(cron_schedule) = 0 BY DEF Init
  <2>2. \A h \in Handles : phase[h] # "done" BY DEF Init
  <2> QED BY <2>1, <2>2 DEF LineInv
<1>4. FlowInv
  <2> SUFFICES ASSUME NEW h \in Handles PROVE Count(h) = Receiving(h) BY DEF FlowInv
  <2>1. due = <<>> /\ to_execute = <<>> BY DEF Init
  <2>2. Occurrences(due, NameOf[h]) = 0 /\ Occurrences(to_execute, h) = 0
    BY <2>1, OccEmpty
  <2>3. waiting[NameOf[h]] = 0 BY CronAssumption DEF Init
  <2>4. Asked(NameOf[h]) = 0 /\ Delivered(h) = 0 /\ Receiving(h) = 0
    BY DEF Init, Asked, Delivered, Receiving
  <2> QED BY <2>2, <2>3, <2>4 DEF Count
<1> QED BY <1>1, <1>2, <1>3, <1>4 DEF ExecutionInv

\* Every step keeps it.
LEMMA ExecutionStep == Distinct /\ ExecutionInv /\ [Next]_vars => ExecutionInv'
<1> SUFFICES ASSUME Distinct, ExecutionInv, [Next]_vars PROVE ExecutionInv' OBVIOUS
<1>0. TypeOK /\ NameInv /\ LineInv /\ FlowInv BY DEF ExecutionInv
<1>1. TypeOK' BY <1>0, TypeStep
<1>2. NameInv' BY <1>0, <1>1, NameStep
<1>3. LineInv' BY <1>0, LineStep
<1>4. FlowInv' BY <1>0, FlowStep
<1> QED BY <1>1, <1>2, <1>3, <1>4 DEF ExecutionInv

\* ASSUME: no two calls of Deno.cron() ask for one name.  Then between next(), the
\* scheduler's map of deadlines, its list of crons to execute and the channel of a
\* handle (local.rs) no execution of an open cron is lost and none is doubled.
THEOREM OneExecutionPendingCorrect ==
  ASSUME Distinct
  PROVE  Spec => []OneExecutionPending
<1>1. Init => ExecutionInv BY ExecutionInit
<1>2. ExecutionInv /\ [Next]_vars => ExecutionInv' BY ExecutionStep
<1>3. ExecutionInv => OneExecutionPending
  <2> SUFFICES ASSUME ExecutionInv, loop # "panicked", NEW h \in Handles, ~closed[h]
               PROVE  Pending(h) = (IF phase[h] = "receiving" THEN 1 ELSE 0)
    BY DEF OneExecutionPending
  <2>1. TypeOK /\ Len(cron_schedule) <= 1 /\ Count(h) = Receiving(h)
    BY DEF ExecutionInv, LineInv, FlowInv
  <2> QED BY <2>1, PendingCount DEF Receiving
<1> QED BY <1>1, <1>2, <1>3, PTL DEF Spec

-----------------------------------------------------------------------------
(* Attempts. *)

\* An execution that has begun and that the scheduler has not heard of: the handler
\* runs, or the call of next() that reports it waits to send, or is in the channel.
Unreported(h) ==
  IF phase[h] \in {"sending", "handling"} \/ Asked(NameOf[h]) = 1 THEN 1 ELSE 0

\* How often a cron may have run since the last deadline that was not a retry: once for
\* each retry the scheduler counted, and once unreported.  A closed cron may run the
\* execution it already waited a permit for.
Allowed(h) ==
  IF closed[h] THEN (IF phase[h] \in {"handling", "done"} THEN 1 ELSE 0)
               ELSE retries[NameOf[h]] + Unreported(h)

\* AttemptsBounded, strengthened.
AttemptInv ==
  /\ AttemptsBounded
  /\ loop # "panicked" =>
       \A h \in Handles : runs[h] <= Allowed(h) /\ (phase[h] \in Unborn => runs[h] = 0)

\* Nothing is allowed that the backoff schedule does not.
AllowedRange ==
  \A h \in Handles :
    /\ Allowed(h) \in 0..(BackoffCount + 1) /\ runs[h] \in Nat
    /\ retries[NameOf[h]] \in 0..BackoffCount /\ Unreported(h) \in {0, 1}

\* AllowedRange follows from the types.
LEMMA AllowedBound == TypeOK => AllowedRange
<1> SUFFICES ASSUME TypeOK, NEW h \in Handles
             PROVE  /\ Allowed(h) \in 0..(BackoffCount + 1) /\ runs[h] \in Nat
                    /\ retries[NameOf[h]] \in 0..BackoffCount /\ Unreported(h) \in {0, 1}
  BY DEF AllowedRange
<1>1. /\ retries[NameOf[h]] \in 0..BackoffCount /\ BackoffCount \in Nat /\ runs[h] \in Nat
  BY CronAssumption DEF TypeOK
<1>2. Unreported(h) \in {0, 1} BY DEF Unreported
<1> QED BY <1>1, <1>2 DEF Allowed

\* And in the next state.
LEMMA AllowedNext == TypeOK' => AllowedRange'
BY AllowedBound, PTL

\* To keep AttemptInv a step only has to keep the bound of each handle.
LEMMA AttemptBound ==
  ASSUME TypeOK',
         \A h \in Handles : runs'[h] <= Allowed(h)' /\ (phase'[h] \in Unborn => runs'[h] = 0)
  PROVE  AttemptInv'
<1>1. ASSUME NEW h \in Handles PROVE runs'[h] <= BackoffCount + 1
  <2>1. Allowed(h)' \in 0..(BackoffCount + 1) /\ runs'[h] \in Nat
    BY AllowedNext DEF AllowedRange
  <2>2. runs'[h] <= Allowed(h)' OBVIOUS
  <2> QED BY <2>1, <2>2, CronAssumption
<1> QED BY <1>1 DEF AttemptInv, AttemptsBounded

\* A step that leaves the runs and retries alone, and moves a handle only where as many
\* runs are allowed.
LEMMA AttemptQuiet ==
  ASSUME TypeOK, TypeOK', AttemptInv, loop # "panicked",
         UNCHANGED <<runs, retries, closed, cron_schedule>>,
         \A h \in Handles :
           /\ phase'[h] \in Unborn => phase[h] \in Unborn
           /\ phase[h] \in {"sending", "handling"} /\ ~closed[h]
                => phase'[h] \in {"sending", "handling"}
           /\ phase[h] \in {"handling", "done"} /\ closed[h]
                => phase'[h] \in {"handling", "done"}
  PROVE  AttemptInv'
<1> SUFFICES ASSUME NEW h \in Handles
             PROVE  runs'[h] <= Allowed(h)' /\ (phase'[h] \in Unborn => runs'[h] = 0)
  BY AttemptBound
<1>1. runs[h] <= Allowed(h) /\ (phase[h] \in Unborn => runs[h] = 0) BY DEF AttemptInv
<1>2. Asked(NameOf[h])' = Asked(NameOf[h]) BY DEF Asked
<1>3. /\ Allowed(h) \in 0..(BackoffCount + 1) /\ runs[h] \in Nat
      /\ retries[NameOf[h]] \in 0..BackoffCount /\ Unreported(h) \in {0, 1}
      /\ Allowed(h)' \in 0..(BackoffCount + 1) /\ Unreported(h)' \in {0, 1}
  BY AllowedBound, AllowedNext DEF AllowedRange
<1>4. ~closed[h] => Unreported(h) <= Unreported(h)' BY <1>2 DEF Unreported
<1>5. Allowed(h) <= Allowed(h)' BY <1>3, <1>4 DEF Allowed
<1> QED BY <1>1, <1>3, <1>5, CronAssumption

\* Deno.cron() and the abort of its signal.
LEMMA AttemptCreate ==
  ASSUME Distinct, TypeOK, TypeOK', NameInv, AttemptInv, loop # "panicked",
         NEW h \in Handles, Create(h) \/ CreateFails(h) \/ Close(h)
  PROVE  AttemptInv'
<1>0. /\ phase \in [Handles -> Phases] /\ closed \in [Handles -> BOOLEAN]
      /\ runs \in [Handles -> Nat] /\ retries \in [Names -> 0..BackoffCount]
      /\ NameOf \in [Handles -> Names]
  BY CronAssumption DEF TypeOK, Phases
<1>1. CASE Create(h)
  <2>1. /\ phase[h] = "new" /\ phase' = [phase EXCEPT ![h] = "sending"]
        /\ retries' = [retries EXCEPT ![NameOf[h]] = 0]
        /\ UNCHANGED <<cron_schedule, closed, runs>>
    BY <1>1 DEF Create
  <2> SUFFICES ASSUME NEW g \in Handles
               PROVE  runs'[g] <= Allowed(g)' /\ (phase'[g] \in Unborn => runs'[g] = 0)
    BY AttemptBound
  <2>2. runs[g] <= Allowed(g) /\ (phase[g] \in Unborn => runs[g] = 0) BY DEF AttemptInv
  <2>3. Allowed(g)' \in 0..(BackoffCount + 1) BY AllowedNext DEF AllowedRange
  <2>4. CASE g = h
    <3>1. runs'[g] = 0 BY <2>1, <2>2, <2>4 DEF Unborn
    <3> QED BY <2>3, <3>1
  <2>5. CASE g # h
    <3>1. NameOf[g] # NameOf[h] BY <2>5 DEF Distinct
    <3>2. retries'[NameOf[g]] = retries[NameOf[g]] /\ phase'[g] = phase[g]
      BY <1>0, <2>1, <2>5, <3>1
    <3>3. Asked(NameOf[g])' = Asked(NameOf[g]) BY <2>1 DEF Asked
    <3>4. Allowed(g)' = Allowed(g) BY <2>1, <3>2, <3>3 DEF Allowed, Unreported
    <3> QED BY <2>1, <2>2, <3>2, <3>4
  <2> QED BY <2>4, <2>5
<1>2. CASE CreateFails(h)
  <2>1. /\ phase[h] = "new" /\ phase' = [phase EXCEPT ![h] = "rejected"]
        /\ UNCHANGED <<cron_schedule, closed, runs, retries>>
    BY <1>2 DEF CreateFails, stateVars, queueVars
  <2>2. \A g \in Handles : IF g = h THEN phase[g] \in Unborn ELSE phase'[g] = phase[g]
    BY <1>0, <2>1 DEF Unborn
  <2> QED BY <1>0, <2>1, <2>2, AttemptQuiet DEF Unborn
<1>3. CASE Close(h)
  <2>1. /\ closed' = [closed EXCEPT ![h] = TRUE] /\ runs' = [runs EXCEPT ![h] = 0]
        /\ UNCHANGED <<cron_schedule, phase, retries>>
    BY <1>3 DEF Close, queueVars
  <2> SUFFICES ASSUME NEW g \in Handles
               PROVE  runs'[g] <= Allowed(g)' /\ (phase'[g] \in Unborn => runs'[g] = 0)
    BY AttemptBound
  <2>2. runs[g] <= Allowed(g) /\ (phase[g] \in Unborn => runs[g] = 0) BY DEF AttemptInv
  <2>3. Allowed(g)' \in 0..(BackoffCount + 1) BY AllowedNext DEF AllowedRange
  <2>4. CASE g = h
    <3>1. runs'[g] = 0 BY <1>0, <2>1, <2>4
    <3> QED BY <2>3, <3>1
  <2>5. CASE g # h
    <3>1. runs'[g] = runs[g] /\ closed'[g] = closed[g] BY <1>0, <2>1, <2>5
    <3>2. Asked(NameOf[g])' = Asked(NameOf[g]) BY <2>1 DEF Asked
    <3>3. Allowed(g)' = Allowed(g) BY <2>1, <3>1, <3>2 DEF Allowed, Unreported
    <3> QED BY <2>1, <2>2, <3>1, <3>3
  <2> QED BY <2>4, <2>5
<1> QED BY <1>1, <1>2, <1>3

\* A call of next() reports to the scheduler.
LEMMA AttemptSend ==
  ASSUME Distinct, TypeOK, TypeOK', LineInv, AttemptInv, loop # "panicked",
         NEW h \in Handles, Send(h)
  PROVE  AttemptInv'
<1>0. /\ phase \in [Handles -> Phases] /\ senders \in Seq(Call)
      /\ cron_schedule = <<>> /\ senders # <<>> /\ Head(senders).handle = h
      /\ phase' = [phase EXCEPT ![h] = "receiving"]
      /\ UNCHANGED <<runs, retries, closed>>
  BY DEF TypeOK, Phases, Call, Send, stateVars
<1>1. cron_schedule' # <<>> /\ Head(cron_schedule').name = NameOf[h] BY DEF Send
<1>2. phase[h] = "sending"
  <2>1. 1 \in 1..Len(senders) /\ senders[1].handle = h BY <1>0
  <2> QED BY <2>1 DEF LineInv
<1> SUFFICES ASSUME NEW g \in Handles
             PROVE  runs'[g] <= Allowed(g)' /\ (phase'[g] \in Unborn => runs'[g] = 0)
  BY AttemptBound
<1>3. runs[g] <= Allowed(g) /\ (phase[g] \in Unborn => runs[g] = 0) BY DEF AttemptInv
<1>4. Asked(NameOf[g]) = 0 /\ Asked(NameOf[g])' = IF g = h THEN 1 ELSE 0
  BY <1>0, <1>1 DEF Asked, Distinct
<1>5. g # h => phase'[g] = phase[g] BY <1>0
<1>6. phase'[h] = "receiving" BY <1>0
<1>7. Unreported(g)' = Unreported(g) BY <1>2, <1>4, <1>5, <1>6 DEF Unreported
<1>8. Allowed(g)' = Allowed(g) BY <1>0, <1>2, <1>5, <1>6, <1>7 DEF Allowed
<1>9. phase'[g] \in Unborn => phase[g] \in Unborn BY <1>5, <1>6 DEF Unborn
<1> QED BY <1>0, <1>3, <1>8, <1>9

\* An execution begins: the scheduler has heard of all earlier ones, because none is on
\* its way while the cron waits for a permit.
LEMMA AttemptAcquire ==
  ASSUME TypeOK, TypeOK', LineInv, FlowInv, AttemptInv, loop # "panicked",
         NEW h \in Handles, Acquire(h)
  PROVE  AttemptInv'
<1>0. /\ phase \in [Handles -> Phases] /\ acquirers \in Seq(Handles)
      /\ runs \in [Handles -> Nat]
      /\ acquirers # <<>> /\ Head(acquirers) = h
      /\ phase' = [phase EXCEPT ![h] = "handling"]
      /\ runs' = [runs EXCEPT ![h] = @ + 1]
      /\ UNCHANGED <<cron_schedule, retries, closed>>
  BY DEF TypeOK, Phases, Acquire, stateVars
<1>1. phase[h] = "acquiring"
  <2>1. 1 \in 1..Len(acquirers) /\ acquirers[1] = h BY <1>0
  <2> QED BY <2>1 DEF LineInv
<1> SUFFICES ASSUME NEW g \in Handles
             PROVE  runs'[g] <= Allowed(g)' /\ (phase'[g] \in Unborn => runs'[g] = 0)
  BY AttemptBound
<1>2. runs[g] <= Allowed(g) /\ (phase[g] \in Unborn => runs[g] = 0) BY DEF AttemptInv
<1>3. Asked(NameOf[g])' = Asked(NameOf[g]) BY <1>0 DEF Asked
<1>4. CASE g # h
  <2>1. phase'[g] = phase[g] /\ runs'[g] = runs[g] BY <1>0, <1>4
  <2>2. Allowed(g)' = Allowed(g) BY <1>0, <1>3, <2>1 DEF Allowed, Unreported
  <2> QED BY <1>2, <2>1, <2>2
<1>5. CASE g = h
  <2>1. phase'[g] = "handling" /\ runs'[g] = runs[g] + 1 BY <1>0, <1>5
  <2>2. phase'[g] \notin Unborn BY <2>1 DEF Unborn
  <2>3. runs[g] \in Nat /\ retries[NameOf[g]] \in 0..BackoffCount
    BY AllowedBound DEF AllowedRange
  <2>4. CASE closed[g]
    <3>1. Allowed(g) = 0 BY <1>1, <1>5, <2>4 DEF Allowed
    <3>2. Allowed(g)' = 1 BY <1>0, <2>1, <2>4 DEF Allowed
    <3> QED BY <1>2, <2>1, <2>2, <2>3, <3>1, <3>2
  <2>5. CASE ~closed[g]
    <3>1. Count(g) = Receiving(g) BY <2>5 DEF FlowInv
    <3>2. Receiving(g) = 0 BY <1>1, <1>5 DEF Receiving
    <3>3. \A a, b, c, d, e \in Nat : a + b + c + d + e = 0 => a = 0 OBVIOUS
    <3>4. Asked(NameOf[g]) = 0
      <4>1. Count(g) = 0 BY <3>1, <3>2
      <4> QED BY <3>3, <4>1, CountParts DEF Count
    <3>5. Unreported(g) = 0 BY <1>1, <1>5, <3>4 DEF Unreported
    <3>6. Unreported(g)' = 1 BY <2>1 DEF Unreported
    <3>7. runs[g] <= retries[NameOf[g]] BY <1>2, <2>3, <2>5, <3>5 DEF Allowed
    <3>8. Allowed(g)' = retries[NameOf[g]] + 1 BY <1>0, <2>5, <3>6 DEF Allowed
    <3> QED BY <2>1, <2>2, <2>3, <3>7, <3>8
  <2> QED BY <2>4, <2>5
<1> QED BY <1>4, <1>5

\* The scheduler hears of an execution: it counts a retry, or starts afresh.
LEMMA AttemptSchedules ==
  ASSUME Distinct, TypeOK, TypeOK', NameInv, AttemptInv, loop # "panicked", LoopSchedules
  PROVE  AttemptInv'
<1>0. /\ cron_schedule \in Seq(Message) /\ runs \in [Handles -> Nat]
      /\ retries \in [Names -> 0..BackoffCount] /\ crons \in [Names -> Handles \cup {NoCron}]
      /\ cron_schedule # <<>> /\ cron_schedule' = <<>>
      /\ UNCHANGED <<phase, closed>>
  BY DEF TypeOK, Message, LoopSchedules
<1>1. PICK n \in Names, ok \in BOOLEAN :
        n = Head(cron_schedule).name /\ ok = Head(cron_schedule).success
  <2>1. Head(cron_schedule) \in Message BY <1>0
  <2> QED BY <2>1 DEF Message
<1>2. CASE loop' = "panicked" /\ UNCHANGED runs
  BY <1>2 DEF AttemptInv, AttemptsBounded
<1>3. CASE /\ retries' = IF crons[n] # NoCron
                         THEN [retries EXCEPT ![n] = IF Retry(n, ok) THEN @ + 1 ELSE 0]
                         ELSE retries
           /\ runs' = IF crons[n] # NoCron /\ ~Retry(n, ok)
                      THEN [runs EXCEPT ![crons[n]] = 0] ELSE runs
  <2> SUFFICES ASSUME NEW g \in Handles
               PROVE  runs'[g] <= Allowed(g)' /\ (phase'[g] \in Unborn => runs'[g] = 0)
    BY AttemptBound
  <2>1. runs[g] <= Allowed(g) /\ (phase[g] \in Unborn => runs[g] = 0) BY DEF AttemptInv
  <2>2. /\ runs[g] \in Nat /\ retries[NameOf[g]] \in 0..BackoffCount
        /\ Unreported(g) \in {0, 1} /\ Unreported(g)' \in {0, 1}
        /\ Allowed(g) \in 0..(BackoffCount + 1) /\ Allowed(g)' \in 0..(BackoffCount + 1)
        /\ NameOf[g] \in Names
    BY AllowedBound, AllowedNext, CronAssumption DEF AllowedRange
  <2>3. runs'[g] = runs[g] \/ runs'[g] = 0 BY <1>0, <1>3
  <2>4. CASE runs'[g] = 0 BY <2>2, <2>4
  <2>5. CASE runs'[g] = runs[g] /\ closed[g]
    <3>1. Allowed(g)' = Allowed(g) BY <1>0, <2>5 DEF Allowed
    <3> QED BY <1>0, <2>1, <2>5, <3>1
  <2>6. CASE runs'[g] = runs[g] /\ ~closed[g] /\ NameOf[g] # n
    <3>1. Asked(NameOf[g]) = 0 /\ Asked(NameOf[g])' = 0 BY <1>0, <1>1, <2>6 DEF Asked
    <3>2. retries'[NameOf[g]] = retries[NameOf[g]] BY <1>0, <1>3, <2>2, <2>6
    <3>3. Allowed(g)' = Allowed(g) BY <1>0, <3>1, <3>2 DEF Allowed, Unreported
    <3> QED BY <1>0, <2>1, <2>6, <3>3
  <2>7. CASE runs'[g] = runs[g] /\ ~closed[g] /\ NameOf[g] = n /\ phase[g] \in Unborn
    BY <1>0, <2>1, <2>2, <2>7
  <2>8. CASE runs'[g] = runs[g] /\ ~closed[g] /\ NameOf[g] = n /\ phase[g] \notin Unborn
    <3>1. g \in OpenUnder(n) BY <2>8 DEF OpenUnder
    <3>2. OpenUnder(n) = IF crons[n] = NoCron THEN {} ELSE {crons[n]} BY Zenon DEF NameInv
    <3>3. crons[n] = g /\ crons[n] # NoCron BY <3>1, <3>2
    <3>4. CASE ~Retry(n, ok)
      <4>1. runs'[g] = 0 BY <1>0, <1>3, <3>3, <3>4
      <4> QED BY <2>4, <4>1
    <3>5. CASE Retry(n, ok)
      <4>1. retries'[n] = retries[n] + 1 BY <1>0, <1>3, <3>3, <3>5
      <4>2. Allowed(g)' = retries[n] + 1 + Unreported(g)' BY <1>0, <2>8, <4>1 DEF Allowed
      <4>3. Allowed(g) = retries[n] + Unreported(g) BY <2>8 DEF Allowed
      <4> QED BY <1>0, <2>1, <2>2, <2>8, <4>2, <4>3, CronAssumption
    <3> QED BY <3>4, <3>5
  <2> QED BY <2>3, <2>4, <2>5, <2>6, <2>7, <2>8
<1> QED BY <1>1, <1>2, <1>3 DEF LoopSchedules

\* Every step keeps AttemptInv.
LEMMA AttemptStep ==
  ASSUME Distinct, ExecutionInv, TypeOK', AttemptInv, [Next]_vars
  PROVE  AttemptInv'
<1> USE DEF loopVars, stateVars, queueVars, handleVars
<1>0. /\ TypeOK /\ NameInv /\ LineInv /\ FlowInv BY DEF ExecutionInv
<1>t. phase \in [Handles -> Phases] BY <1>0 DEF TypeOK, Phases
<1>1. ASSUME NEW h \in Handles, loop # "panicked", Recv(h) PROVE AttemptInv'
  <2>1. PICK p \in {"acquiring", "done"} :
          /\ phase[h] = "receiving" /\ phase' = [phase EXCEPT ![h] = p]
          /\ UNCHANGED <<runs, retries, closed, cron_schedule>>
    BY <1>1 DEF Recv
  <2> QED BY <1>0, <1>1, <1>t, <2>1, AttemptQuiet DEF Unborn
<1>2. ASSUME NEW h \in Handles, loop # "panicked", HandlerEnds(h) PROVE AttemptInv'
  <2>1. /\ phase[h] = "handling"
        /\ phase' = [phase EXCEPT ![h] = IF closed[h] THEN "done" ELSE "sending"]
        /\ UNCHANGED <<runs, retries, closed, cron_schedule>>
    BY <1>2 DEF HandlerEnds
  <2> QED BY <1>0, <1>2, <1>t, <2>1, AttemptQuiet DEF Unborn
<1>3. ASSUME NEW h \in Handles, Running(Create(h) \/ CreateFails(h) \/ Close(h) \/ Cycle(h))
      PROVE  AttemptInv'
  <2>1. CASE Create(h) \/ CreateFails(h) \/ Close(h)
    BY <1>0, <1>3, <2>1, AttemptCreate DEF Running
  <2>2. CASE Send(h) BY <1>0, <1>3, <2>2, AttemptSend DEF Running
  <2>3. CASE Acquire(h) BY <1>0, <1>3, <2>3, AttemptAcquire DEF Running
  <2> QED BY <1>1, <1>2, <1>3, <2>1, <2>2, <2>3 DEF Running, Cycle
<1>4. ASSUME loop # "panicked",
             UNCHANGED <<runs, retries, closed, cron_schedule, phase>>
      PROVE  AttemptInv'
  BY <1>0, <1>4, AttemptQuiet
<1>5. ASSUME Running(Loop) PROVE AttemptInv'
  <2>1. CASE LoopWakes BY <1>4, <1>5, <2>1 DEF Running, LoopWakes
  <2>2. CASE LoopSchedules BY <1>0, <1>5, <2>2, AttemptSchedules DEF Running
  <2>3. CASE Dispatch BY <1>4, <1>5, <2>3 DEF Running, Dispatch
  <2> QED BY <1>5, <2>1, <2>2, <2>3 DEF Running, Loop
<1>6. ASSUME NEW n \in Names, Running(Due(n)) PROVE AttemptInv'
  BY <1>4, <1>6 DEF Running, Due
<1>7. CASE UNCHANGED vars
  <2>1. UNCHANGED <<runs, retries, closed, cron_schedule, phase, loop>> BY <1>7 DEF vars
  <2>2. CASE loop # "panicked" BY <1>4, <2>1, <2>2
  <2>3. CASE loop = "panicked" BY <2>1, <2>3 DEF AttemptInv, AttemptsBounded
  <2> QED BY <2>2, <2>3
<1> QED BY <1>3, <1>5, <1>6, <1>7 DEF Next

\* ASSUME: no two calls of Deno.cron() ask for one name.  Then between two deadlines of
\* its schedule a cron runs at most once, and once more for each entry of its backoff
\* schedule (Cron::current_execution_retries), whichever way its handler and the
\* scheduler interleave, and in the state the panic of the scheduler leaves behind.
THEOREM AttemptsBoundedCorrect ==
  ASSUME Distinct
  PROVE  Spec => []AttemptsBounded
<1>1. Init => ExecutionInv BY ExecutionInit
<1>2. ExecutionInv /\ [Next]_vars => ExecutionInv' BY ExecutionStep
<1>3. Init => AttemptInv
  <2> SUFFICES ASSUME Init PROVE AttemptInv OBVIOUS
  <2>1. \A h \in Handles : runs[h] = 0 BY DEF Init
  <2>2. AllowedRange BY TypeInit, AllowedBound
  <2> QED BY <2>1, <2>2, CronAssumption DEF AttemptInv, AttemptsBounded, AllowedRange
<1>4. ExecutionInv /\ ExecutionInv' /\ AttemptInv /\ [Next]_vars => AttemptInv'
  BY AttemptStep DEF ExecutionInv
<1>5. AttemptInv => AttemptsBounded BY DEF AttemptInv
<1> QED BY <1>1, <1>2, <1>3, <1>4, <1>5, PTL DEF Spec
=============================================================================
