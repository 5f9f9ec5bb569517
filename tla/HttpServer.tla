----------------------------- MODULE HttpServer ------------------------------
(***************************************************************************)
(* Deno.serve: ext/http/service.rs, ext/http/http_next.rs and the serve    *)
(* loop of ext/http/00_serve.js.                                           *)
(*                                                                         *)
(* Everything runs on one thread, in tasks that interleave at their        *)
(* awaits: the accept loop, one task per connection, the ops JavaScript    *)
(* waits for, and JavaScript itself.  A request lives in an HttpRecord     *)
(* that several of them hold through an Rc; refs is the set of its         *)
(* holders, so that Cardinality(refs[r]) is Rc::strong_count.  A record    *)
(* nobody holds is freed, unless recycle() put it into the pool.           *)
(*                                                                         *)
(* A connection here carries one request at a time, which is HTTP/1.1; a   *)
(* stream of an HTTP/2 connection is modelled as a connection of its own.  *)
(***************************************************************************)
EXTENDS Integers, Sequences, FiniteSets, SequencesExt

CONSTANTS
  Conns,        \* the connections clients may open
  Records,      \* HttpRecord allocations
  NoRecord,
  MaxRequests,  \* bound: the requests the clients send
  ChannelCap,   \* the capacity of the channel to JavaScript
  PoolBase,     \* the part of the pool's target size that is constant
  Answers       \* what handlers may do, a subset of AllAnswers

AllAnswers == {"static", "stream", "no_stream", "websocket", "raw",
               "no_upgrade", "throws"}

ASSUME NoRecordAssumption == NoRecord \notin Records
ASSUME FiniteAssumption == IsFiniteSet(Conns) /\ IsFiniteSet(Records)
ASSUME BoundAssumption == /\ MaxRequests \in Nat
                          /\ ChannelCap \in Nat \ {0}
                          /\ PoolBase \in Nat
ASSUME AnswersAssumption == Answers \subseteq AllAnswers

VARIABLES
  conn,       \* what each connection's task is doing
  draining,   \* connections on which graceful_shutdown() was called
  rec,        \* the record of the request a connection is serving
  inner,      \* HttpRecordInner of each record
  refs,       \* who holds each record
  pool,       \* HttpServerStateInner.pool
  sent,       \* how many requests the clients have sent
  queue,      \* the records in the channel to JavaScript
  senders,    \* connections waiting in tx.send(), in order
  js,         \* how far JavaScript is with each record
  answering,  \* history: the request JavaScript took a record for
  stray,      \* a handler of an upgraded request is to return another response
  acceptor,   \* the accept task: running, canceled or failed
  loop,       \* where the serve loop of serveHttpOn() is
  table,      \* whether the HttpJoinHandle is in the resource table
  joinTaken,  \* whether someone took HttpJoinHandle.join_handle
  listenCancel, connCancel,  \* the two cancel handles
  closing,    \* context.closing: none, graceful or forceful
  closed,     \* context.closed
  closeOp,    \* where op_http_close is
  drainWaker, \* the waker in the SignallingRc of the server state
  panic       \* the assertion or unwrap that failed, if any

record == <<inner, refs, pool, panic>>
channel == <<queue, senders>>
server == <<acceptor, loop, table, joinTaken, listenCancel, connCancel,
            closing, closed, closeOp>>
vars == <<conn, draining, rec, inner, refs, pool, sent, queue, senders, js,
          answering, stray, acceptor, loop, table, joinTaken, listenCancel,
          connCancel, closing, closed, closeOp, drainWaker, panic>>

NoInner == [req |-> 0, response_ready |-> FALSE, been_dropped |-> FALSE,
            body_finished |-> FALSE, needs_close |-> FALSE, upgrade |-> FALSE]
Fresh(n) == [NoInner EXCEPT !.req = n]
Live(r) == inner[r].req # 0
Open(c) == conn[c] \notin {"new", "closed"}

Init ==
  /\ conn = [c \in Conns |-> "new"]
  /\ draining = [c \in Conns |-> FALSE]
  /\ rec = [c \in Conns |-> NoRecord]
  /\ inner = [r \in Records |-> NoInner]
  /\ refs = [r \in Records |-> {}]
  /\ pool = <<>>
  /\ sent = 0
  /\ queue = <<>>
  /\ senders = <<>>
  /\ js = [r \in Records |-> "none"]
  /\ answering = [r \in Records |-> 0]
  /\ stray = FALSE
  /\ acceptor = "running"
  /\ loop = "poll"
  /\ table = TRUE
  /\ joinTaken = FALSE
  /\ listenCancel = FALSE
  /\ connCancel = FALSE
  /\ closing = "none"
  /\ closed = FALSE
  /\ closeOp = "none"
  /\ drainWaker = "none"
  /\ panic = "none"

-----------------------------------------------------------------------------
(* The reference count of the server state, and the record's lifecycle.    *)

\* SignallingRc::strong_count: the HttpJoinHandle, the accept task, every
\* connection's service closure and every record in use hold the server state.
StrongCount ==
  1 + (IF acceptor = "running" THEN 1 ELSE 0)
    + Cardinality({c \in Conns : Open(c)})
    + Cardinality({r \in Records : Live(r)})

\* Mutant: the count is compared after the drop instead of before.
SignalOffByOne ==
  drainWaker' = IF drainWaker = "set" /\ StrongCount' = 0
                  THEN "woken" ELSE drainWaker

\* SignallingRc::drop in each of the drops of a step: the waker is woken when
\* the count is about to become 1.
Signal ==
  drainWaker' = IF drainWaker = "set" /\ StrongCount > 1 /\ StrongCount' = 1
                  THEN "woken" ELSE drainWaker

\* HttpJoinHandle is alive while the resource table, op_http_wait or
\* op_http_close holds it; with it goes the receiver of the channel.
Held == \/ table
        \/ loop \in {"wait", "join"}
        \/ closeOp \in {"drain", "yield", "join"}

\* The end of a step that may drop the last HttpJoinHandle, when the step
\* itself leaves q in the channel, the references f and the cancel handles l
\* and k: Drop cancels both handles, and the receiver drops what is queued.
DropHandle(q, f, l, k) ==
  /\ listenCancel' = (l \/ ~Held')
  /\ connCancel' = (k \/ ~Held')
  /\ queue' = IF Held' THEN q ELSE <<>>
  /\ refs' = IF Held' THEN f ELSE [r \in Records |-> f[r] \ {"queue"}]
  /\ inner' = [r \in Records |-> IF refs'[r] = {} THEN NoInner ELSE inner[r]]

\* In the operators below S is who holds the record r at that moment, h the
\* holder whose Rc the call consumes and i the record's fields.

\* The holder drops its Rc: the last one frees the record.
Release(r, S, h, i) ==
  /\ refs' = [refs EXCEPT ![r] = S \ {h}]
  /\ inner' = [inner EXCEPT ![r] = IF S = {h} THEN NoInner ELSE i]
  /\ UNCHANGED <<pool, panic>>

PoolSlack == 8

\* Mutant: the record goes into the pool twice.
PooledTwice(r) == pool \o <<r, r>>

Pooled(r) ==
  LET target == PoolBase + (StrongCount \div 8)
  IN IF target > Len(pool) THEN Append(pool, r)
     ELSE IF target < Len(pool) - PoolSlack THEN SubSeq(pool, 1, target)
     ELSE pool

Recycle(r, S, h) ==
  \/ /\ S # {h}
     /\ panic' = "expected to be last strong reference"
     /\ UNCHANGED <<inner, refs, pool>>
  \/ /\ S = {h}
     /\ refs' = [refs EXCEPT ![r] = {}]
     /\ inner' = [inner EXCEPT ![r] = NoInner]
     /\ pool' = Pooled(r)
     /\ UNCHANGED panic

\* Mutant: the record is recycled although JavaScript is to close it.
FinishRecycles(r, S, h, i) == Recycle(r, S, h)

\* Mutant: the record is put into the pool before JavaScript closes it.
FinishPoolsEarly(r, S, h, i) ==
  \/ /\ i.needs_close
     /\ refs' = [refs EXCEPT ![r] = S \ {h}]
     /\ inner' = [inner EXCEPT ![r] = [i EXCEPT !.body_finished = TRUE]]
     /\ pool' = Pooled(r)
     /\ UNCHANGED panic
  \/ ~i.needs_close /\ Recycle(r, S, h)

Finish(r, S, h, i) ==
  \/ i.needs_close /\ Release(r, S, h, [i EXCEPT !.body_finished = TRUE])
  \/ ~i.needs_close /\ Recycle(r, S, h)

\* HttpRecord::cancel, the scope guard of handle_request().
Cancel(r, S, h, i) ==
  \/ i.response_ready /\ Finish(r, S, h, i)
  \/ ~i.response_ready /\ Release(r, S, h, [i EXCEPT !.been_dropped = TRUE])

Complete(r, S, h, i) ==
  \/ /\ i.response_ready
     /\ panic' = "entry has already been completed"
     /\ UNCHANGED <<inner, refs, pool>>
  \/ /\ ~i.response_ready /\ ~i.been_dropped
     /\ Release(r, S, h, [i EXCEPT !.response_ready = TRUE])
  \/ /\ ~i.response_ready /\ i.been_dropped
     /\ Finish(r, S, h, i)

-----------------------------------------------------------------------------
(* The accept task and the connections.                                    *)

connVars == <<conn, draining, rec, sent>>
jsVars == <<js, answering, stray>>

\* A connection the listener had ready is still accepted after the cancel, as
\* the cancellation is looked at after the listener; the next turn of the loop
\* looks at it first.
Accept(c) ==
  /\ acceptor = "running" /\ conn[c] = "new"
  /\ conn' = [conn EXCEPT ![c] = "idle"]
  /\ acceptor' = IF listenCancel THEN "canceled" ELSE acceptor
  /\ UNCHANGED <<draining, rec, sent, record, channel, jsVars, loop, table,
                 joinTaken, listenCancel, connCancel, closing, closed, closeOp>>
  /\ Signal

AcceptEnds(how) ==
  /\ acceptor = "running"
  /\ acceptor' = how
  /\ UNCHANGED <<connVars, record, channel, jsVars, loop, table, joinTaken,
                 listenCancel, connCancel, closing, closed, closeOp>>
  /\ Signal

\* HttpRecord::new takes a record from the pool or allocates one.
NewRecord(r) ==
  IF pool # <<>> THEN r = Last(pool) ELSE refs[r] = {}

\* handle_request() up to its first await.
Request(c) ==
  /\ conn[c] = "idle" /\ ~draining[c] /\ sent < MaxRequests
  /\ \/ /\ ~Held
        /\ panic' = "send on a closed channel"
        /\ UNCHANGED <<connVars, inner, refs, pool, channel>>
     \/ /\ Held
        /\ \E r \in Records :
             LET room == senders = <<>> /\ Len(queue) < ChannelCap
             IN /\ NewRecord(r)
                /\ pool' = IF pool # <<>> THEN Front(pool) ELSE pool
                /\ inner' = [inner EXCEPT ![r] = Fresh(sent + 1)]
                /\ rec' = [rec EXCEPT ![c] = r]
                /\ refs' = [refs EXCEPT ![r] =
                              {"conn", IF room THEN "queue" ELSE "send"}]
                /\ conn' = [conn EXCEPT ![c] =
                              IF room THEN "waiting" ELSE "sending"]
                /\ queue' = IF room THEN Append(queue, r) ELSE queue
                /\ senders' = IF room THEN senders ELSE Append(senders, c)
        /\ sent' = sent + 1
        /\ UNCHANGED <<draining, panic>>
  /\ UNCHANGED <<jsVars, server, drainWaker>>

\* Mutant: a waiting sender does not wait for room in the channel.
SendAtOnce(c) ==
  /\ conn[c] = "sending" /\ Held
  /\ queue' = Append(queue, rec[c])
  /\ senders' = Remove(senders, c)
  /\ refs' = [refs EXCEPT ![rec[c]] = {"conn", "queue"}]
  /\ conn' = [conn EXCEPT ![c] = "waiting"]
  /\ UNCHANGED <<draining, rec, sent, inner, pool, panic, jsVars, server, drainWaker>>

\* tx.send() goes on once the channel has room: its waiters are served in order.
SendAdmitted(c) ==
  /\ conn[c] = "sending"
  /\ \/ /\ ~Held
        /\ panic' = "send on a closed channel"
        /\ UNCHANGED <<conn, refs, channel>>
     \/ /\ Held /\ c = Head(senders) /\ Len(queue) < ChannelCap
        /\ queue' = Append(queue, rec[c])
        /\ senders' = Tail(senders)
        /\ refs' = [refs EXCEPT ![rec[c]] = {"conn", "queue"}]
        /\ conn' = [conn EXCEPT ![c] = "waiting"]
        /\ UNCHANGED panic
  /\ UNCHANGED <<draining, rec, sent, inner, pool, jsVars, server, drainWaker>>

\* The response is ready: handle_request() defuses the guard and returns it.
IntoResponse(c) ==
  /\ conn[c] = "waiting" /\ inner[rec[c]].response_ready
  /\ conn' = [conn EXCEPT ![c] = "responding"]
  /\ UNCHANGED <<draining, rec, sent, record, channel, jsVars, server, drainWaker>>

\* The connection has written the body and drops it (HttpRecordResponse::drop).
\* An upgraded or draining connection ends with it.
BodyEnds(c) ==
  LET r == rec[c]
  IN /\ conn[c] = "responding"
     /\ Finish(r, refs[r], "conn", inner[r])
     /\ rec' = [rec EXCEPT ![c] = NoRecord]
     /\ conn' = [conn EXCEPT ![c] =
                   IF draining[c] \/ inner[r].upgrade THEN "closed" ELSE "idle"]
     /\ UNCHANGED <<draining, sent, channel, jsVars, server>>
     /\ Signal

\* The connection's task is dropped, at whatever await it is.
DropConn(c) ==
  LET r == rec[c]
  IN /\ \/ conn[c] = "idle" /\ UNCHANGED <<record, senders>>
        \/ /\ conn[c] = "sending"
           /\ Release(r, refs[r] \ {"send"}, "conn", inner[r])
           /\ \E i \in DOMAIN senders :
                senders[i] = c /\ senders' = RemoveAt(senders, i)
        \/ /\ conn[c] = "waiting"
           /\ Cancel(r, refs[r], "conn", inner[r])
           /\ UNCHANGED senders
        \/ /\ conn[c] = "responding"
           /\ Finish(r, refs[r], "conn", inner[r])
           /\ UNCHANGED senders
     /\ conn' = [conn EXCEPT ![c] = "closed"]
     /\ rec' = [rec EXCEPT ![c] = NoRecord]
     /\ UNCHANGED <<draining, sent, queue, jsVars, server>>
     /\ Signal

Disconnect(c) == Open(c) /\ DropConn(c)
ConnAborted(c) == Open(c) /\ connCancel /\ DropConn(c)

\* The task sees listen_cancel_handle and calls graceful_shutdown(): an idle
\* connection closes, another one serves its request to the end.
ConnDrains(c) ==
  /\ Open(c) /\ listenCancel /\ ~draining[c]
  /\ draining' = [draining EXCEPT ![c] = TRUE]
  /\ conn' = IF conn[c] = "idle" THEN [conn EXCEPT ![c] = "closed"] ELSE conn
  /\ UNCHANGED <<rec, sent, record, channel, jsVars, server>>
  /\ Signal

-----------------------------------------------------------------------------
(* JavaScript: the handlers.                                               *)

\* op_http_set_promise_complete, _response_body_text and _response_body_bytes;
\* also the 503 of a handler that ends after the server was closed.
AnswerStatic(r) ==
  /\ Complete(r, refs[r], "js", inner[r])
  /\ js' = [js EXCEPT ![r] = "none"]
  /\ UNCHANGED stray

\* op_http_set_response_body_resource: the op keeps a clone of its own until
\* the body has been streamed.
AnswerStream(r) ==
  /\ ~closed
  /\ Complete(r, refs[r] \cup {"op", "set_response"}, "set_response",
              [inner[r] EXCEPT !.needs_close = TRUE])
  /\ js' = [js EXCEPT ![r] = "streaming"]
  /\ UNCHANGED stray

\* The same op with a stream that is no longer in the resource table.  Nothing
\* handles the rejection, so the external is never given back.
AnswerNoStream(r) ==
  ~closed /\ js' = [js EXCEPT ![r] = "leaked"] /\ UNCHANGED <<record, stray>>

\* A handler that has asked for an upgrade, which takes the external from it, goes
\* on; what it returns in the end may be another response than the one it was given.
Upgraded == stray' \in {stray, TRUE}

\* op_http_upgrade_websocket_next.
AnswerWebSocket(r) ==
  /\ Complete(r, refs[r], "js", [inner[r] EXCEPT !.upgrade = TRUE])
  /\ js' = [js EXCEPT ![r] = "none"]
  /\ Upgraded

\* op_http_upgrade_raw: a task answers once JavaScript has written the head.
AnswerRaw(r) ==
  /\ refs' = [refs EXCEPT ![r] = (@ \ {"js"}) \cup {"task"}]
  /\ js' = [js EXCEPT ![r] = "raw"]
  /\ UNCHANGED <<inner, pool, panic>>
  /\ Upgraded

\* Either of them on a request that cannot be upgraded.
AnswerNoUpgrade(r) ==
  /\ Release(r, refs[r], "js", inner[r])
  /\ js' = [js EXCEPT ![r] = "none"]
  /\ Upgraded

\* The callback rejects, as for a body that is no stream.
AnswerThrows(r) ==
  ~closed /\ js' = [js EXCEPT ![r] = "threw"] /\ UNCHANGED <<record, stray>>

Answer(r) ==
  /\ js[r] = "handler"
  /\ \/ "static" \in Answers /\ AnswerStatic(r)
     \/ "stream" \in Answers /\ AnswerStream(r)
     \/ "no_stream" \in Answers /\ AnswerNoStream(r)
     \/ "websocket" \in Answers /\ AnswerWebSocket(r)
     \/ "raw" \in Answers /\ AnswerRaw(r)
     \/ "no_upgrade" \in Answers /\ AnswerNoUpgrade(r)
     \/ "throws" \in Answers /\ AnswerThrows(r)
  /\ UNCHANGED <<connVars, channel, answering, server>>
  /\ Signal

RawEnds(r) ==
  /\ js[r] = "raw"
  /\ \/ Complete(r, refs[r], "task", [inner[r] EXCEPT !.upgrade = TRUE])
     \/ Release(r, refs[r], "task", inner[r])
  /\ js' = [js EXCEPT ![r] = "none"]
  /\ UNCHANGED <<connVars, channel, answering, stray, server>>
  /\ Signal

\* response_body_finished() resolves and the op drops its clone.
StreamOpEnds(r) ==
  /\ js[r] = "streaming" /\ inner[r].body_finished
  /\ Release(r, refs[r], "op", inner[r])
  /\ js' = [js EXCEPT ![r] = "finished"]
  /\ UNCHANGED <<connVars, channel, answering, stray, server, drainWaker>>

\* op_http_close_after_finish in the then() of that op.  inner.finished, which
\* close_after_finish() tests, is never set, so it always recycles.
CloseAfterFinish(r) ==
  /\ js[r] = "finished"
  /\ Recycle(r, refs[r], "js")
  /\ js' = [js EXCEPT ![r] = "none"]
  /\ UNCHANGED <<connVars, channel, answering, stray, server>>
  /\ Signal

-----------------------------------------------------------------------------
(* JavaScript: the serve loop, shutdown() and the abort signal.            *)

\* The callback is given the record at the head of the channel.
TakeRequest ==
  /\ js' = [js EXCEPT ![Head(queue)] = "handler"]
  /\ answering' = [answering EXCEPT ![Head(queue)] = inner[Head(queue)].req]
  /\ UNCHANGED stray

GivenToJs == [refs EXCEPT ![Head(queue)] = (@ \ {"queue"}) \cup {"js"}]

\* op_http_try_wait finds a request.
LoopTries ==
  /\ loop = "poll" /\ table /\ queue # <<>>
  /\ TakeRequest
  /\ queue' = Tail(queue)
  /\ refs' = GivenToJs
  /\ UNCHANGED <<connVars, inner, pool, panic, senders, server, drainWaker>>

\* It finds none; op_http_wait fails without the resource, and gives up at
\* once when the listener was cancelled before its first poll.
LoopWaits ==
  /\ loop = "poll" /\ (~table \/ queue = <<>>)
  /\ loop' = IF ~table THEN "left" ELSE IF listenCancel THEN "join" ELSE "wait"
  /\ UNCHANGED <<connVars, record, channel, jsVars, acceptor, table, joinTaken,
                 listenCancel, connCancel, closing, closed, closeOp, drainWaker>>

\* op_http_wait receives a request; the channel is looked at before the cancel
\* handle.
WaitReceives ==
  /\ loop = "wait" /\ queue # <<>>
  /\ TakeRequest
  /\ loop' = "poll"
  /\ UNCHANGED <<table, closeOp>>
  /\ DropHandle(Tail(queue), GivenToJs, listenCancel, connCancel)
  /\ UNCHANGED <<connVars, pool, panic, senders, acceptor, joinTaken, closing, closed>>
  /\ Signal

NoSenders == acceptor # "running" /\ \A c \in Conns : ~Open(c)

WaitGivesUp ==
  /\ loop = "wait" /\ queue = <<>> /\ (listenCancel \/ NoSenders)
  /\ loop' = "join"
  /\ UNCHANGED <<connVars, record, channel, jsVars, acceptor, table, joinTaken,
                 listenCancel, connCancel, closing, closed, closeOp, drainWaker>>

\* op_http_wait takes the accept task's handle and returns that task's result.
WaitJoins ==
  /\ loop = "join" /\ acceptor # "running"
  /\ \/ /\ joinTaken
        /\ panic' = "join handle taken"
        /\ UNCHANGED loop
     \/ /\ ~joinTaken
        /\ \/ loop' = "left"
           \/ acceptor = "failed" /\ loop' = "threw"
        /\ UNCHANGED panic
  /\ joinTaken' = TRUE
  /\ UNCHANGED <<table, closeOp>>
  /\ DropHandle(queue, refs, listenCancel, connCancel)
  /\ UNCHANGED <<connVars, pool, senders, jsVars, acceptor, closing, closed>>
  /\ Signal

\* After the loop: op_http_close(rid, false) and context.close(), unless
\* someone else is closing the server.
LoopLeaves ==
  /\ loop = "left"
  /\ loop' = "closing"
  /\ LET mine == closing = "none" /\ ~closed
     IN /\ closing' = IF mine THEN "forceful" ELSE closing
        /\ closed' = (closed \/ mine)
        /\ table' = (table /\ ~mine)
        /\ closeOp' = IF mine THEN "yield" ELSE closeOp
        /\ listenCancel' = (listenCancel \/ mine)
        /\ connCancel' = (connCancel \/ mine)
  /\ UNCHANGED <<connVars, record, channel, jsVars, acceptor, joinTaken, drainWaker>>

LoopFinishes ==
  /\ loop = "closing"
  /\ \/ closing = "none" /\ loop' = "finished"
     \/ closeOp = "done" /\ loop' = "finished"
     \/ closeOp = "failed" /\ loop' = "threw"
  /\ closed' = (closed \/ loop' = "finished")
  /\ UNCHANGED <<connVars, record, channel, jsVars, acceptor, table, joinTaken,
                 listenCancel, connCancel, closing, closeOp, drainWaker>>

\* One poll of SignallingRc::poll_complete.
PollComplete ==
  /\ closeOp' = IF StrongCount = 1 THEN "join" ELSE "drain"
  /\ drainWaker' = IF StrongCount = 1 THEN drainWaker ELSE "set"

\* op_http_wait can return.  The event loop polls the ops that are ready, in
\* the order they were woken, before it runs JavaScript again.
WaitReady == loop = "wait" /\ (queue # <<>> \/ listenCancel \/ NoSenders)

\* shutdown(): op_http_close(rid, true) up to its first await.
Shutdown ==
  /\ closing = "none" /\ ~closed /\ ~WaitReady
  /\ closing' = "graceful"
  /\ table' = FALSE
  /\ listenCancel' = TRUE
  /\ PollComplete
  /\ UNCHANGED <<connVars, record, channel, jsVars, acceptor, loop, joinTaken,
                 connCancel, closed>>

\* The cancel that starts the drain woke op_http_wait before anything could
\* wake op_http_close.
DrainPolled ==
  /\ closeOp = "drain" /\ drainWaker = "woken" /\ ~WaitReady
  /\ PollComplete
  /\ UNCHANGED <<connVars, record, channel, jsVars, acceptor, loop, table,
                 joinTaken, listenCancel, connCancel, closing, closed>>

CloseYields ==
  /\ closeOp = "yield"
  /\ closeOp' = "join"
  /\ UNCHANGED <<connVars, record, channel, jsVars, acceptor, loop, table,
                 joinTaken, listenCancel, connCancel, closing, closed, drainWaker>>

\* op_http_close joins the accept task if op_http_wait has not; a cancelled
\* accept task has failed, and so does the op.
CloseJoins ==
  /\ closeOp = "join" /\ loop # "join"
  /\ joinTaken \/ acceptor # "running"
  /\ closeOp' = IF joinTaken THEN "done" ELSE "failed"
  /\ joinTaken' = TRUE
  /\ closed' = (closed \/ joinTaken)
  /\ UNCHANGED <<loop, table>>
  /\ DropHandle(queue, refs, listenCancel, connCancel)
  /\ UNCHANGED <<connVars, pool, panic, senders, jsVars, acceptor, closing>>
  /\ Signal

\* The abort signal: op_http_cancel(rid, false).
Abort ==
  /\ table /\ ~WaitReady
  /\ listenCancel' = TRUE
  /\ connCancel' = TRUE
  /\ UNCHANGED <<connVars, record, channel, jsVars, acceptor, loop, table,
                 joinTaken, closing, closed, closeOp, drainWaker>>

\* context.close() closes the resource.
CloseContext ==
  /\ closed' = TRUE
  /\ table' = FALSE
  /\ UNCHANGED <<loop, closeOp>>
  /\ DropHandle(queue, refs, listenCancel \/ table, connCancel \/ table)
  /\ UNCHANGED <<connVars, pool, panic, senders, answering, acceptor, joinTaken, closing>>
  /\ Signal

\* promiseErrorHandler.
ContextClose(r) ==
  /\ js[r] = "threw"
  /\ js' = [js EXCEPT ![r] = "leaked"]
  /\ UNCHANGED stray
  /\ CloseContext

\* The end of mapToCallback() when the request was upgraded and the response is not
\* the upgrade's.  Closing once more changes nothing, so one flag stands for all
\* such handlers.
StrayResponse ==
  /\ stray /\ stray' = FALSE
  /\ UNCHANGED js
  /\ CloseContext

AcceptCanceled == listenCancel /\ AcceptEnds("canceled")
AcceptFails == AcceptEnds("failed")

\* A panic ends the process (the panic hook of cli/main.rs).
Running == panic = "none"

\* The serve loop polls the channel without awaiting: no task runs meanwhile.
TasksRun == Running /\ loop # "poll"

ConnStep(c) ==
  \/ SendAdmitted(c) \/ IntoResponse(c) \/ BodyEnds(c)
  \/ ConnAborted(c) \/ ConnDrains(c)

OpStep ==
  \/ WaitReceives \/ WaitGivesUp \/ WaitJoins
  \/ DrainPolled \/ CloseYields \/ CloseJoins

RecordStep(r) ==
  \/ Running /\ (Answer(r) \/ CloseAfterFinish(r) \/ ContextClose(r))
  \/ TasksRun /\ (RawEnds(r) \/ StreamOpEnds(r))

LoopStep == LoopTries \/ LoopWaits \/ LoopLeaves \/ LoopFinishes

Next ==
  \/ /\ TasksRun
     /\ \/ \E c \in Conns : Accept(c) \/ Request(c) \/ ConnStep(c) \/ Disconnect(c)
        \/ AcceptCanceled \/ AcceptFails \/ OpStep
  \/ \E r \in Records : RecordStep(r)
  \/ Running /\ (LoopStep \/ Shutdown \/ Abort \/ StrayResponse)

Spec == Init /\ [][Next]_vars

\* The runtime polls what is ready, clients that stay connected read their
\* responses, and handlers end; nobody has to connect, send, hang up or abort.
FairSpec ==
  /\ Spec
  /\ \A c \in Conns : WF_vars(TasksRun /\ ConnStep(c))
  /\ \A r \in Records : WF_vars(RecordStep(r))
  /\ WF_vars(TasksRun /\ AcceptCanceled)
  /\ WF_vars(TasksRun /\ OpStep)
  /\ WF_vars(Running /\ LoopStep)
  /\ WF_vars(Running /\ StrayResponse)

-----------------------------------------------------------------------------
ConnPhases == {"new", "idle", "sending", "waiting", "responding", "closed"}
Holders == {"conn", "send", "queue", "js", "op", "task"}
JsPhases == {"none", "handler", "streaming", "finished", "raw", "threw", "leaked"}
LoopPhases == {"poll", "wait", "join", "left", "closing", "finished", "threw"}
Panics == {"none", "expected to be last strong reference",
           "entry has already been completed", "send on a closed channel",
           "join handle taken"}
Inner == [req : Nat, response_ready : BOOLEAN, been_dropped : BOOLEAN,
          body_finished : BOOLEAN, needs_close : BOOLEAN, upgrade : BOOLEAN]

\* Every variable has its type, and the channel never holds more than its
\* capacity (http_next.rs op_http_serve).
TypeOK ==
  /\ conn \in [Conns -> ConnPhases]
  /\ draining \in [Conns -> BOOLEAN]
  /\ rec \in [Conns -> Records \cup {NoRecord}]
  /\ inner \in [Records -> Inner]
  /\ refs \in [Records -> SUBSET Holders]
  /\ pool \in Seq(Records)
  /\ sent \in 0..MaxRequests
  /\ queue \in Seq(Records) /\ Len(queue) <= ChannelCap
  /\ senders \in Seq(Conns)
  /\ js \in [Records -> JsPhases]
  /\ answering \in [Records -> Nat]
  /\ acceptor \in {"running", "canceled", "failed"}
  /\ loop \in LoopPhases
  /\ {table, joinTaken, listenCancel, connCancel, closed, stray} \subseteq BOOLEAN
  /\ closing \in {"none", "graceful", "forceful"}
  /\ closeOp \in {"none", "drain", "yield", "join", "done", "failed"}
  /\ drainWaker \in {"none", "set", "woken"}
  /\ panic \in Panics

\* No order of answers, disconnects, aborts and shutdowns makes the assertions
\* of HttpRecord fail: recycle() always has the last reference, complete() is
\* called once per request, and the join handle is taken once.
NoStateError == panic \in {"none", "send on a closed channel"}

\* A record in the pool is used by nobody, and is there once; a record somebody
\* uses has its HttpRecordInner (self_mut() would unwrap a None).
PoolUnused ==
  /\ \A i, j \in DOMAIN pool : pool[i] = pool[j] => i = j
  /\ \A i \in DOMAIN pool : refs[pool[i]] = {}
  /\ \A r \in Records : Live(r) <=> refs[r] # {}

\* Records are reused, but never under a handler: what JavaScript answers with
\* goes to the request it was given the record for.
AnswersOwnRequest ==
  \A r \in Records : js[r] # "none" => answering[r] = inner[r].req

\* shutdown() goes on neither early nor never: it does so only when the listener
\* is closed, every connection has ended and no request is in progress, none of
\* which comes back; and once it is the last to hold the server state, the waker
\* that poll_complete() left has been woken (SignallingRc::drop).
DrainExact ==
  /\ closing = "graceful" /\ closeOp \in {"join", "done", "failed"} => StrongCount = 1
  /\ closeOp = "drain" /\ StrongCount = 1 => drainWaker = "woken"

\* lib.deno.ns.d.ts on shutdown(): "pending requests will be allowed to
\* finish".  A request that has arrived before the listener was cancelled is
\* answered, or its connection ends, or the server is closed forcefully.
PendingRequestsFinish ==
  \A c \in Conns :
    conn[c] = "waiting" /\ ~listenCancel ~> conn[c] # "waiting" \/ connCancel
=============================================================================
