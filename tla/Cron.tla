-------------------------------- MODULE Cron --------------------------------
(***************************************************************************)
(* Deno.cron: the scheduler of ext/cron/local.rs, the ops of               *)
(* ext/cron/lib.rs and the loop of ext/cron/01_cron.ts.                    *)
(*                                                                         *)
(* One thread runs the scheduler's task and the JavaScript of every cron;  *)
(* they interleave where the code awaits.  A handle is one call of         *)
(* Deno.cron().  Time is abstract: a deadline that has been set passes at  *)
(* some moment, and the deadlines that have passed are kept in their order.*)
(***************************************************************************)
EXTENDS Naturals, Sequences, FiniteSets

CONSTANTS
  Handles,        \* the calls of Deno.cron()
  Names,          \* cron names
  NameOf,         \* the name a handle asks for
  Impossible,     \* names whose schedule parses but never matches a date
  BackoffCount,   \* length of the backoff schedule
  MAX_CRONS,
  DISPATCH_CONCURRENCY_LIMIT,
  NoCron

ASSUME CronAssumption ==
  /\ IsFiniteSet(Handles)
  /\ NameOf \in [Handles -> Names]
  /\ Impossible \subseteq Names
  /\ BackoffCount \in Nat /\ MAX_CRONS \in Nat
  /\ DISPATCH_CONCURRENCY_LIMIT \in Nat \ {0}
  /\ NoCron \notin Handles

VARIABLES
  \* RuntimeState
  crons,          \* the handle registered under a name
  retries,        \* Cron::current_execution_retries
  waiting,        \* scheduled_deadlines in the future: how many per name
  due,            \* scheduled_deadlines that have passed, in their order
  \* the task of cron_loop
  loop,           \* "off", "on" or "panicked"
  to_execute,     \* crons_to_execute still to be sent; empty: at its select!
  upgraded,       \* the loop awaits send() on the sender of the first of them
  cron_schedule,  \* the channel of cron_schedule_tx
  senders,        \* calls of next() that wait to send on it, with prev_success
  acquirers,      \* handles that wait for a permit of concurrency_limiter
  \* the handles
  phase,          \* where the JavaScript loop of the handle is
  closed,         \* its resource is closed
  token,          \* the channel of next_tx holds a message
  permit,         \* Inner::permit
  runs            \* executions since the last deadline that was not a retry

loopVars == <<loop, to_execute, upgraded>>
stateVars == <<crons, retries, waiting, due>>
handleVars == <<phase, closed, token, permit, runs>>
queueVars == <<cron_schedule, senders, acquirers>>
vars == <<loopVars, stateVars, queueVars, handleVars>>

Init ==
  /\ crons = [n \in Names |-> NoCron]
  /\ retries = [n \in Names |-> 0]
  /\ waiting = [n \in Names |-> 0] /\ due = <<>>
  /\ loop = "off" /\ to_execute = <<>> /\ upgraded = FALSE
  /\ cron_schedule = <<>> /\ senders = <<>> /\ acquirers = <<>>
  /\ phase = [h \in Handles |-> "new"]
  /\ closed = [h \in Handles |-> FALSE]
  /\ token = [h \in Handles |-> FALSE]
  /\ permit = [h \in Handles |-> FALSE]
  /\ runs = [h \in Handles |-> 0]

-----------------------------------------------------------------------------
(* Deno.cron() and the abort of its signal. *)

StartLoop ==
  /\ loop' = IF loop = "off" THEN "on" ELSE loop
  /\ UNCHANGED <<to_execute, upgraded>>

\* The checks of create() that depend on the state.
Admits(h) ==
  /\ ~(Cardinality({n \in Names : crons[n] # NoCron}) > MAX_CRONS)
  /\ crons[NameOf[h]] = NoCron

\* A call of next(): it waits its turn to send on the schedule channel.
CallNext(h, success) == senders' = Append(senders, [handle |-> h, success |-> success])

\* create() succeeds, and the JavaScript loop calls op_cron_next at once.
Create(h) ==
  /\ phase[h] = "new"
  /\ Admits(h)
  /\ StartLoop
  /\ crons' = [crons EXCEPT ![NameOf[h]] = h]
  /\ retries' = [retries EXCEPT ![NameOf[h]] = 0]
  /\ phase' = [phase EXCEPT ![h] = "sending"]
  /\ CallNext(h, TRUE)
  /\ UNCHANGED <<waiting, due, cron_schedule, acquirers, closed, token, permit, runs>>

\* create() refuses: too many crons, a name in use, or a schedule or a backoff
\* schedule that is not valid, which may be any call's.
CreateFails(h) ==
  /\ phase[h] = "new"
  /\ StartLoop
  /\ phase' = [phase EXCEPT ![h] = "rejected"]
  /\ UNCHANGED <<stateVars, queueVars, closed, token, permit, runs>>

\* A call of op_cron_next keeps the handle alive; otherwise the resource does.
InNext(h) == phase[h] \in {"sending", "receiving", "acquiring"}
Alive(h) == InNext(h) \/ ~closed[h]

\* core.close(rid): the sender is dropped and the name is free again.  The
\* deadlines of the name stay.  Unless a call of next() is under way, the handle
\* is dropped, with its receiver and its permit.
Close(h) ==
  /\ phase[h] \notin {"new", "rejected"} /\ ~closed[h]
  /\ closed' = [closed EXCEPT ![h] = TRUE]
  /\ crons' = [crons EXCEPT ![NameOf[h]] = NoCron]
  /\ token' = [token EXCEPT ![h] = @ /\ InNext(h)]
  /\ permit' = [permit EXCEPT ![h] = @ /\ InNext(h)]
  /\ runs' = [runs EXCEPT ![h] = 0]
  /\ UNCHANGED <<loopVars, retries, waiting, due, queueVars, phase>>

-----------------------------------------------------------------------------
(* CronExecutionHandle::next and the loop in 01_cron.ts. *)

\* The channel to the scheduler holds one message, and its senders are served in
\* turn.  The receiver lives as long as the process.
Send(h) ==
  /\ senders # <<>> /\ Head(senders).handle = h
  /\ senders' = Tail(senders)
  /\ cron_schedule = <<>>
  /\ cron_schedule' = <<[name |-> NameOf[h], success |-> Head(senders).success]>>
  /\ phase' = [phase EXCEPT ![h] = "receiving"]
  /\ UNCHANGED <<loopVars, stateVars, acquirers, closed, token, permit, runs>>

\* Mutant: close() leaves shutdown_tx in place.
RecvNoEnd(h) ==
  /\ phase[h] = "receiving"
  /\ token[h]
  /\ token' = [token EXCEPT ![h] = FALSE]
  /\ phase' = [phase EXCEPT ![h] = "acquiring"]
  /\ acquirers' = Append(acquirers, h)
  /\ UNCHANGED <<loopVars, stateVars, cron_schedule, senders, closed, permit, runs>>

\* recv() on next_rx: a message, or the end once every sender is dropped.
Recv(h) ==
  /\ phase[h] = "receiving"
  /\ \/ /\ token[h]
        /\ token' = [token EXCEPT ![h] = FALSE]
        /\ phase' = [phase EXCEPT ![h] = "acquiring"]
        /\ acquirers' = Append(acquirers, h)
     \/ /\ ~token[h] /\ closed[h]
        /\ ~(upgraded /\ Head(to_execute) = h)
        /\ phase' = [phase EXCEPT ![h] = "done"]
        /\ UNCHANGED <<token, acquirers>>
  /\ UNCHANGED <<loopVars, stateVars, cron_schedule, senders, closed, permit, runs>>

\* Mutant: one permit too many.
PermitsOneMore ==
  Cardinality({h \in Handles : permit[h]}) <= DISPATCH_CONCURRENCY_LIMIT

PermitsLeft == Cardinality({h \in Handles : permit[h]}) < DISPATCH_CONCURRENCY_LIMIT

\* next() is true and the handler runs.  A handle that was closed meanwhile is
\* dropped when the op ends, with its receiver and its permit.
Acquire(h) ==
  /\ acquirers # <<>> /\ Head(acquirers) = h
  /\ PermitsLeft
  /\ acquirers' = Tail(acquirers)
  /\ phase' = [phase EXCEPT ![h] = "handling"]
  /\ permit' = [permit EXCEPT ![h] = ~closed[h]]
  /\ token' = [token EXCEPT ![h] = @ /\ ~closed[h]]
  /\ runs' = [runs EXCEPT ![h] = @ + 1]
  /\ UNCHANGED <<loopVars, stateVars, cron_schedule, senders, closed>>

\* Mutant: next() keeps the permit while it waits.
HandlerEndsPermit(h) ==
  /\ phase[h] = "handling"
  /\ IF closed[h]
     THEN phase' = [phase EXCEPT ![h] = "done"] /\ UNCHANGED senders
     ELSE /\ phase' = [phase EXCEPT ![h] = "sending"]
          /\ \E success \in BOOLEAN : CallNext(h, success)
  /\ UNCHANGED <<loopVars, stateVars, cron_schedule, acquirers, closed, token,
                 permit, runs>>

\* The handler returns or throws, and the loop calls op_cron_next again, which
\* is false for a closed resource and gives the permit back otherwise.
HandlerEnds(h) ==
  /\ phase[h] = "handling"
  /\ IF closed[h]
     THEN phase' = [phase EXCEPT ![h] = "done"] /\ UNCHANGED senders
     ELSE /\ phase' = [phase EXCEPT ![h] = "sending"]
          /\ \E success \in BOOLEAN : CallNext(h, success)
  /\ permit' = [permit EXCEPT ![h] = FALSE]
  /\ UNCHANGED <<loopVars, stateVars, cron_schedule, acquirers, closed, token, runs>>

-----------------------------------------------------------------------------
(* The scheduler. *)

\* A deadline passes.
Due(n) ==
  /\ waiting[n] > 0
  /\ waiting' = [waiting EXCEPT ![n] = @ - 1]
  /\ due' = Append(due, n)
  /\ UNCHANGED <<crons, retries, loopVars, queueVars, handleVars>>

\* Mutant: get_ready_crons leaves the deadlines it returns in the map.
ReadyStay ==
  /\ to_execute' = [i \in DOMAIN due |-> crons[due[i]]]
  /\ UNCHANGED due

\* get_ready_crons: what has passed is removed and is to be executed.  NoCron
\* stands for a name that is no longer registered, which is left out.
ReadyCrons ==
  /\ to_execute' = [i \in DOMAIN due |-> crons[due[i]]]
  /\ due' = <<>>

\* The earliest deadline has passed.
LoopWakes ==
  /\ loop = "on" /\ to_execute = <<>>
  /\ due # <<>>
  /\ ReadyCrons
  /\ UNCHANGED <<loop, upgraded, crons, retries, waiting, queueVars, handleVars>>

\* Mutant: one retry too many.
RetryOnceMore(n, success) == ~success /\ retries[n] <= BackoffCount

\* A failed execution is tried again while the backoff schedule lasts.
Retry(n, success) == ~success /\ retries[n] < BackoffCount

\* A message of next(): set the next deadline of the cron if the name is still
\* registered, then look for ready crons.  A schedule that has no next date is an
\* error that ends the loop: its task panics in unwrap(), and the panic hook exits
\* the process.
LoopSchedules ==
  /\ loop = "on" /\ to_execute = <<>>
  /\ cron_schedule # <<>>
  /\ cron_schedule' = <<>>
  /\ LET msg == Head(cron_schedule)
         n == msg.name
         registered == crons[n] # NoCron
         retry == Retry(n, msg.success)
     IN IF registered /\ ~retry /\ n \in Impossible
        THEN loop' = "panicked" /\ UNCHANGED <<to_execute, stateVars, runs>>
        ELSE /\ retries' = IF registered
                           THEN [retries EXCEPT ![n] = IF retry THEN @ + 1 ELSE 0]
                           ELSE retries
             /\ waiting' = IF registered THEN [waiting EXCEPT ![n] = @ + 1] ELSE waiting
             /\ runs' = IF registered /\ ~retry
                        THEN [runs EXCEPT ![crons[n]] = 0] ELSE runs
             /\ ReadyCrons
             /\ UNCHANGED <<loop, crons>>
  /\ UNCHANGED <<upgraded, senders, acquirers, phase, closed, token, permit>>

\* The weak sender of a cron to execute can be upgraded, or has been, and there
\* still is a receiver.
Reachable(h) == h # NoCron /\ (upgraded \/ ~closed[h]) /\ Alive(h)

\* The next cron to execute: its weak sender is upgraded and awaited.  The
\* channel holds one message; the loop waits while it is full.
Dispatch ==
  /\ to_execute # <<>>
  /\ LET h == Head(to_execute)
     IN \/ /\ ~Reachable(h)
           /\ to_execute' = Tail(to_execute) /\ upgraded' = FALSE
           /\ UNCHANGED token
        \/ /\ Reachable(h) /\ ~token[h]
           /\ token' = [token EXCEPT ![h] = TRUE]
           /\ to_execute' = Tail(to_execute) /\ upgraded' = FALSE
        \/ /\ Reachable(h) /\ token[h] /\ ~upgraded
           /\ upgraded' = TRUE
           /\ UNCHANGED <<to_execute, token>>
  /\ UNCHANGED <<loop, stateVars, queueVars, phase, closed, permit, runs>>

Loop == LoopWakes \/ LoopSchedules \/ Dispatch
Cycle(h) == Send(h) \/ Recv(h) \/ Acquire(h) \/ HandlerEnds(h)

\* A panic in the scheduler's task exits the process.
Running(A) == loop # "panicked" /\ A

Next ==
  \/ Running(Loop)
  \/ \E n \in Names : Running(Due(n))
  \/ \E h \in Handles :
       Running(Create(h) \/ CreateFails(h) \/ Close(h) \/ Cycle(h))

\* Time passes, the scheduler's task and the ops are polled, and handlers end.
Fairness ==
  /\ \A n \in Names : WF_vars(Running(Due(n)))
  /\ WF_vars(Running(Loop))
  /\ \A h \in Handles : WF_vars(Running(Cycle(h)))

Spec == Init /\ [][Next]_vars
FairSpec == Spec /\ Fairness
-----------------------------------------------------------------------------
TypeOK ==
  /\ crons \in [Names -> Handles \cup {NoCron}]
  /\ retries \in [Names -> 0..BackoffCount]
  /\ waiting \in [Names -> Nat] /\ due \in Seq(Names)
  /\ loop \in {"off", "on", "panicked"}
  /\ to_execute \in Seq(Handles \cup {NoCron}) /\ upgraded \in BOOLEAN
  /\ cron_schedule \in Seq([name : Names, success : BOOLEAN])
  /\ phase \in [Handles -> {"new", "rejected", "sending", "receiving", "acquiring",
                            "handling", "done"}]
  /\ senders \in Seq([handle : Handles, success : BOOLEAN])
  /\ acquirers \in Seq(Handles)
  /\ closed \in [Handles -> BOOLEAN]
  /\ token \in [Handles -> BOOLEAN] /\ permit \in [Handles -> BOOLEAN]
  /\ runs \in [Handles -> Nat]

\* DISPATCH_CONCURRENCY_LIMIT (local.rs:29): no more handlers of crons that are not
\* aborted run at a time than there are permits.
ConcurrencyLimit ==
  Cardinality({h \in Handles : phase[h] = "handling" /\ ~closed[h]})
    <= DISPATCH_CONCURRENCY_LIMIT

\* "The cron should have executed 3 times (1st attempt and 2 retries)"
\* (tests/unit/cron_test.ts:293): between two deadlines of its schedule a cron runs
\* at most once, and once more for every entry of its backoff schedule.
AttemptsBounded == \A h \in Handles : runs[h] <= BackoffCount + 1

Occurrences(s, x) == Cardinality({i \in DOMAIN s : s[i] = x})

\* Executions of h on their way: asked for, scheduled, due, in the loop's hands, or
\* in the channel of the handle.
Pending(h) ==
  LET n == NameOf[h] IN
    Cardinality({i \in DOMAIN cron_schedule : cron_schedule[i].name = n})
      + waiting[n] + Occurrences(due, n) + Occurrences(to_execute, h)
      + (IF token[h] THEN 1 ELSE 0)

\* A cron job will "periodically execute the provided handler callback based on
\* the specified schedule" (lib.deno.unstable.d.ts): while a registered cron waits,
\* exactly one execution is on its way, and none while it runs or has not yet
\* asked for the next.  None is lost between the three queues, and none doubled.
OneExecutionPending ==
  loop # "panicked" =>
    \A h \in Handles :
      ~closed[h] => Pending(h) = (IF phase[h] = "receiving" THEN 1 ELSE 0)

\* A name is taken exactly as long as the resource of its cron is open: Deno.cron()
\* refuses a name in use, and an aborted cron's name can be used again.
NameTaken ==
  \A n \in Names :
    LET open == {h \in Handles :
                   /\ NameOf[h] = n
                   /\ phase[h] \notin {"new", "rejected"} /\ ~closed[h]}
    IN open = IF crons[n] = NoCron THEN {} ELSE {crons[n]}

\* A cron that waits for its deadline runs, unless it is aborted.
WaitingCronRuns ==
  \A h \in Handles : phase[h] = "receiving" ~> phase[h] = "handling" \/ closed[h]

\* The promise of Deno.cron() resolves after the signal is aborted, as
\* tests/unit/cron_test.ts awaits it.
AbortEnds == \A h \in Handles : closed[h] ~> phase[h] = "done"
=============================================================================
