--------------------------- MODULE TransformStream --------------------------
(***************************************************************************)
(* TransformStream of ext/web/06_streams.js: a writable and a readable     *)
(* stream whose sink and source are algorithms of the stream itself, tied  *)
(* together by its backpressure flag, the promise of the next change of    *)
(* that flag, and the finish promise that close, abort and cancel share.   *)
(*                                                                         *)
(* A writer and a reader hold the two streams throughout.  The code of the *)
(* transformer (start, transform, flush, cancel) returns promises that are *)
(* settled by steps of their own, and may use the controller at any time.  *)
(***************************************************************************)
EXTENDS ReadableStream

CONSTANTS MaxWrites, MaxReads, MaxEnqueues,   \* bounds on the calls of the users
          ReadableHWMs, WritableHWMs          \* high water marks to choose from

ASSUME TransformAssumption ==
  /\ MaxWrites \in Nat /\ MaxReads \in Nat /\ MaxEnqueues \in Nat
  /\ ReadableHWMs \subseteq Nat /\ WritableHWMs \subseteq Nat

VARIABLES readable, writable, transform

vars == <<readable, writable, transform>>

\* The fields of TransformStream and of its controller, and where the promises of
\* its algorithms stand.
Transforms ==
  [start : {"pending", "resolved", "rejected"},     \* startPromise
   backpressure : BOOLEAN,
   algorithms : BOOLEAN,                            \* not cleared
   finish : Promises,                               \* finishPromise
   callback : {"none", "flush", "abort", "cancel"}, \* who awaits the transformer to finish
   called : {"none", "write", "close", "abort"},    \* sink algorithm that has been run
   write : {"none", "blocked", "woken", "transform", "failed"},
   pull : {"none", "blocked", "woken"},
   cancelled : BOOLEAN,                             \* the cancel algorithm has been run
   enqueued : 0 .. MaxEnqueues,                     \* history: chunks enqueued
   threw : SUBSET {"write", "abort", "cancel"},     \* calls of an algorithm that was gone
   unsized : BOOLEAN,                               \* history: size() of a write failed
   stale : BOOLEAN,                                 \* the assertion of enqueue() failed
   failed : BOOLEAN]                                \* any other assertion failed

initializeTransformStream ==
  [start |-> "pending", backpressure |-> TRUE, algorithms |-> TRUE, finish |-> "none",
   callback |-> "none", called |-> "none", write |-> "none", pull |-> "none",
   cancelled |-> FALSE, enqueued |-> 0, threw |-> {}, unsized |-> FALSE,
   stale |-> FALSE, failed |-> FALSE]

Init ==
  /\ \E h \in ReadableHWMs :
       readable = setUpReadableStreamDefaultReader(initializeReadableStream(h))
  /\ \E h \in WritableHWMs :
       writable = setUpWritableStreamDefaultWriter(initializeWritableStream(h))
  /\ transform = initializeTransformStream

-----------------------------------------------------------------------------
(* Operators on the three records as one, x.r, x.w and x.t.                *)

Now == [r |-> readable, w |-> writable, t |-> transform]

\* Mutant: a change of backpressure forgets the pull that waits for it.
ChangeKeepsPull(x, backpressure) ==
  [x EXCEPT !.t.backpressure = backpressure,
            !.t.write = IF @ = "blocked" THEN "woken" ELSE @]

\* The promise of the change is resolved for whoever waits for it, and replaced.
transformStreamSetBackpressure(x, backpressure) ==
  LET t == Asserting(x.t, x.t.backpressure # backpressure)
  IN [x EXCEPT !.t = [t EXCEPT !.backpressure = backpressure,
                               !.write = IF @ = "blocked" THEN "woken" ELSE @,
                               !.pull = IF @ = "blocked" THEN "woken" ELSE @]]

\* Mutant: the flag is put down although it is down.
UnblocksAlways(x) == transformStreamSetBackpressure(x, FALSE)

transformStreamUnblockWrite(x) ==
  IF x.t.backpressure THEN transformStreamSetBackpressure(x, FALSE) ELSE x

transformStreamDefaultControllerClearAlgorithms(x) == [x EXCEPT !.t.algorithms = FALSE]

transformStreamDefaultControllerPerformTransform(x) ==
  [x EXCEPT !.t.write = "transform"]

\* A call of an algorithm that is gone throws out of the stream's own code before
\* there is a promise to wait for.
Throws(x, where) == [x EXCEPT !.t.threw = @ \cup {where}]

transformStreamDefaultSinkWriteAlgorithm(x) ==
  LET y == [x EXCEPT !.t = Asserting(@, x.w.state = "writable")]
  IN IF y.t.backpressure THEN [y EXCEPT !.t.write = "blocked"]
     ELSE IF ~y.t.algorithms THEN [Throws(y, "write") EXCEPT !.w.sink = "none"]
     ELSE transformStreamDefaultControllerPerformTransform(y)

\* The three algorithms that end the stream share the finish promise: the first
\* calls the transformer, the others wait with it.  A call that throws leaves the
\* promise behind, which nobody settles any more.
Finishes(x, callback) ==
  transformStreamDefaultControllerClearAlgorithms(
    [x EXCEPT !.t.finish = "pending", !.t.callback = callback])

transformStreamDefaultSinkAbortAlgorithm(x) ==
  IF x.t.finish # "none" THEN x
  ELSE IF ~x.t.algorithms THEN [Throws(x, "abort") EXCEPT !.t.finish = "pending",
                                                       !.w.sink = "none"]
  ELSE Finishes(x, "abort")

\* Mutant: the finish promise is not kept.
CloseKeepsNoPromise(x) ==
  transformStreamDefaultControllerClearAlgorithms([x EXCEPT !.t.callback = "flush"])

transformStreamDefaultSinkCloseAlgorithm(x) ==
  IF x.t.finish # "none" THEN x
  ELSE Finishes([x EXCEPT !.t = Asserting(@, @.algorithms)], "flush")

transformStreamDefaultSourceCancelAlgorithm(x) ==
  IF x.t.finish # "none" THEN x
  ELSE IF ~x.t.algorithms THEN [Throws(x, "cancel") EXCEPT !.t.finish = "pending",
                                                        !.r.cancel = "none"]
  ELSE Finishes(x, "cancel")

\* The old promise wakes a write that waits, and the pull waits for the new one.
transformStreamDefaultSourcePullAlgorithm(x) ==
  [transformStreamSetBackpressure([x EXCEPT !.t = Asserting(@, @.backpressure)], FALSE)
     EXCEPT !.t.pull = "blocked"]

-----------------------------------------------------------------------------
(* A change of either stream calls the algorithms at once.                 *)

CallSink(x) ==
  LET y == [x EXCEPT !.t.called = x.w.sink] IN
  CASE x.w.sink = x.t.called -> x
    [] x.w.sink # x.t.called /\ x.w.sink = "none" -> y
    [] x.w.sink # x.t.called /\ x.w.sink = "write" ->
         transformStreamDefaultSinkWriteAlgorithm(y)
    [] x.w.sink # x.t.called /\ x.w.sink = "close" ->
         transformStreamDefaultSinkCloseAlgorithm(y)
    [] x.w.sink # x.t.called /\ x.w.sink = "abort" ->
         transformStreamDefaultSinkAbortAlgorithm(y)

CallPull(x) ==
  IF x.r.pull = "pending" /\ x.t.pull = "none"
    THEN transformStreamDefaultSourcePullAlgorithm(x) ELSE x

CallCancel(x) ==
  IF x.r.cancel = "pending" /\ ~x.t.cancelled
    THEN transformStreamDefaultSourceCancelAlgorithm([x EXCEPT !.t.cancelled = TRUE])
    ELSE x

Calls(x) == CallCancel(CallPull(CallSink(x)))

Becomes(x) ==
  \E now \in {x} : \E y \in {Calls(now)} :
    readable' = y.r /\ writable' = y.w /\ transform' = y.t

-----------------------------------------------------------------------------
(* Errors.                                                                 *)

\* Mutant: the error of the transformer leaves a waiting write where it is.
ErrorKeepsWriteBlocked(x) ==
  transformStreamDefaultControllerClearAlgorithms(
    [x EXCEPT !.w = writableStreamDefaultControllerErrorIfNeeded(@)])

transformStreamErrorWritableAndUnblockWrite(x) ==
  transformStreamUnblockWrite(Calls(
    transformStreamDefaultControllerClearAlgorithms(
      [x EXCEPT !.w = writableStreamDefaultControllerErrorIfNeeded(@)])))

transformStreamError(x) ==
  transformStreamErrorWritableAndUnblockWrite(
    [x EXCEPT !.r = readableStreamDefaultControllerError(@)])

-----------------------------------------------------------------------------
(* The users of the two streams.                                           *)

\* The size() of the writable strategy may throw or return no number.
Write ==
  /\ Len(writable.writes) < MaxWrites
  /\ \E size \in {"one", "throws", "invalid"} :
       LET w == writableStreamDefaultWriterWrite(writable, size)
           fails == size # "one" /\ writable.algorithms /\ w.state # writable.state
       IN Becomes([Now EXCEPT !.w = w, !.t.unsized = @ \/ fails])

CloseWriter ==
  /\ writable.state \in {"writable", "erroring"}
  /\ ~writableStreamCloseQueuedOrInFlight(writable)
  /\ Becomes([Now EXCEPT !.w = close(@)])

AbortWriter ==
  /\ writable.state \in {"writable", "erroring"}
  /\ writable.pendingAbortRequest = "none"
  /\ Becomes([Now EXCEPT !.w = writableStreamAbort(@)])

Read ==
  /\ Len(readable.reads) < MaxReads
  /\ Becomes([Now EXCEPT !.r = readableStreamDefaultReaderRead(@)])

CancelReader ==
  /\ readable.state = "readable"
  /\ Becomes([Now EXCEPT !.r = readableStreamCancel(@)])

-----------------------------------------------------------------------------
(* The transformer's use of its controller.                                *)

\* The algorithms may be called by the readable stream before the flag is compared.
transformStreamDefaultControllerEnqueue(x, size) ==
  LET chunk == x.t.enqueued + 1
      y == Calls([x EXCEPT !.r = readableStreamDefaultControllerEnqueue(@, chunk, size)])
      backpressure == ~readableStreamDefaultcontrollerShouldCallPull(y.r)
      z == [y EXCEPT !.t.enqueued = chunk]
  IN CASE y.r.state = "errored" -> transformStreamErrorWritableAndUnblockWrite(y)
       [] y.r.state # "errored" /\ backpressure = z.t.backpressure -> z
       [] y.r.state # "errored" /\ backpressure # z.t.backpressure ->
            IF backpressure THEN transformStreamSetBackpressure(z, TRUE)
            ELSE [z EXCEPT !.t.stale = TRUE]

Enqueue ==
  /\ transform.enqueued < MaxEnqueues
  /\ readableStreamDefaultControllerCanCloseOrEnqueue(readable)
  /\ \E size \in {"one", "throws"} :
       Becomes(transformStreamDefaultControllerEnqueue(Now, size))

ControllerError == Becomes(transformStreamError(Now))

transformStreamDefaultControllerTerminate ==
  Becomes(transformStreamErrorWritableAndUnblockWrite(
    [Now EXCEPT !.r = readableStreamDefaultControllerClose(@)]))

-----------------------------------------------------------------------------
(* The promises of the transformer, and the reactions of the stream.       *)

StartSettles ==
  /\ transform.start = "pending"
  /\ \E s \in {"resolved", "rejected"} : Becomes([Now EXCEPT !.t.start = s])

WritableStarted ==
  /\ transform.start # "pending" /\ ~writable.started
  /\ Becomes([Now EXCEPT !.w = WritableStarts(@, transform.start = "resolved")])
ReadableStarted ==
  /\ transform.start # "pending" /\ readable.start = "pending"
  /\ Becomes([Now EXCEPT !.r = ReadableStarts(@, transform.start = "resolved")])

\* The reaction of a write that waited for the backpressure to change: a call of the
\* transform algorithm that is gone rejects the write.
WriteWoken ==
  /\ transform.write = "woken"
  /\ LET x == [Now EXCEPT !.t = Asserting(@, writable.state \in {"writable", "erroring"})]
     IN Becomes(IF writable.state = "erroring" \/ ~transform.algorithms
                  THEN [x EXCEPT !.t.write = "failed"]
                  ELSE transformStreamDefaultControllerPerformTransform(x))

SinkDone(x) == [x EXCEPT !.t.write = "none", !.t.called = "none"]

\* The promise of transform(): its rejection errors both streams, and then the write.
TransformSettles ==
  /\ transform.write = "transform"
  /\ \/ Becomes([SinkDone(Now) EXCEPT !.w = SinkWriteFulfilled(@)])
     \/ Becomes(transformStreamError([Now EXCEPT !.t.write = "failed"]))

WriteFails ==
  /\ transform.write = "failed"
  /\ Becomes([SinkDone(Now) EXCEPT !.w = SinkWriteRejected(@)])

\* The reactions to flush() and cancel(), which settle the finish promise.
FlushSettles(x, fulfilled) ==
  IF fulfilled /\ x.r.state # "errored"
    THEN [x EXCEPT !.r = readableStreamDefaultControllerClose(@), !.t.finish = "resolved"]
    ELSE [x EXCEPT !.r = readableStreamDefaultControllerError(@), !.t.finish = "rejected"]

AbortSettles(x, fulfilled) ==
  [x EXCEPT !.r = readableStreamDefaultControllerError(@),
            !.t.finish = IF fulfilled /\ x.r.state # "errored" THEN "resolved" ELSE "rejected"]

CancelFinishes(x, fulfilled) ==
  IF fulfilled /\ x.w.state = "errored" THEN [x EXCEPT !.t.finish = "rejected"]
  ELSE [transformStreamUnblockWrite(Calls(
          [x EXCEPT !.w = writableStreamDefaultControllerErrorIfNeeded(@)]))
          EXCEPT !.t.finish = IF fulfilled THEN "resolved" ELSE "rejected"]

FinishSettles ==
  /\ transform.callback # "none"
  /\ \E ok \in BOOLEAN : LET x == [Now EXCEPT !.t.callback = "none"] IN
       Becomes(CASE transform.callback = "flush" -> FlushSettles(x, ok)
                 [] transform.callback = "abort" -> AbortSettles(x, ok)
                 [] transform.callback = "cancel" -> CancelFinishes(x, ok))

\* What waited for the finish promise: close() or abort() of the sink, cancel() of
\* the source.
SinkFinishes ==
  /\ writable.sink \in {"close", "abort"} /\ transform.finish \in {"resolved", "rejected"}
  /\ Becomes([SinkDone(Now) EXCEPT !.w = SinkSettles(@, transform.finish = "resolved")])
SourceFinishes ==
  /\ readable.cancel = "pending" /\ transform.finish \in {"resolved", "rejected"}
  /\ Becomes([Now EXCEPT !.r = CancelSettles(@, transform.finish = "resolved")])

PullWoken ==
  /\ transform.pull = "woken"
  /\ Becomes([Now EXCEPT !.r = PullSettles(@, TRUE), !.t.pull = "none"])

-----------------------------------------------------------------------------
Users == Write \/ CloseWriter \/ AbortWriter \/ Read \/ CancelReader

Transformer == Enqueue \/ ControllerError \/ transformStreamDefaultControllerTerminate

Reactions ==
  \/ StartSettles \/ WritableStarted \/ ReadableStarted \/ WriteWoken
  \/ TransformSettles \/ WriteFails \/ FinishSettles \/ SinkFinishes
  \/ SourceFinishes \/ PullWoken

Next == Users \/ Transformer \/ Reactions

\* The microtask queue runs every reaction, and the transformer settles the promises
\* it returns.  The users and the controller's calls are under no obligation.
Fairness == WF_vars(Reactions)

Spec == Init /\ [][Next]_vars /\ Fairness

-----------------------------------------------------------------------------
(* Properties.                                                             *)

\* The state has its type, and the finish promise is pending while the transformer's
\* flush() or cancel() is, and for ever once the sink's abort or the source's cancel
\* algorithm threw over it (06_streams.js:4090, :4178), and at no other time.
TypeOK ==
  /\ readable \in ReadableStreams(1 .. MaxEnqueues)
  /\ writable \in WritableStreams(1 .. MaxWrites)
  /\ transform \in Transforms
  /\ transform.finish = "pending" <=>
       (transform.callback # "none" \/ transform.threw \cap {"abort", "cancel"} # {})

\* No assert() of the two streams and of the transform stream fails, however writes,
\* reads, errors, terminate(), close(), abort() and cancel() meet.  (The one about the
\* backpressure in transformStreamDefaultControllerEnqueue is recorded in
\* transform.stale and does fail: two read() and an enqueue() may come before the
\* reaction of the pull that an earlier enqueue() resolved.)
NoAssertFails == ~readable.failed /\ ~writable.failed /\ ~transform.failed

\* Neither side outlives the other: once one side has ended the other ends too, also
\* when a write waits for backpressure that nobody will relieve; a readable side
\* with unread chunks is at least closing.  A stream whose code called an algorithm of
\* the transformer that had been cleared is excepted: the call threw at the caller of
\* write() or cancel(), or left abort() pending, and transform.threw says which.  So is
\* a writable side that its own strategy errored: a size() that throws or returns no
\* number calls no abort algorithm, and the readable side is left open.
EndsTogether ==
  LET writableEnded == writable.state \in {"closed", "errored"}
      readableEnded == readable.state # "readable" \/ readable.closeRequested
  IN writableEnded \/ readableEnded ~>
       \/ writableEnded /\ (readableEnded \/ transform.unsized)
       \/ transform.threw # {}

\* A write that waits for demand and a read that waits for a chunk do not wait for
\* each other: the pull behind the read ends the backpressure.
NoMutualWait ==
  transform.write = "blocked" /\ readable.readRequests # <<>> ~>
    (transform.write # "blocked" \/ readable.readRequests = <<>>)
=============================================================================
