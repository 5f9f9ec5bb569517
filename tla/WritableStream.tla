--------------------------- MODULE WritableStream ---------------------------
(***************************************************************************)
(* The writable stream of ext/web/06_streams.js: a stream, its default     *)
(* controller, the writer that holds its lock, and the promises they gave  *)
(* out, as one record; every function of the source is an operator from    *)
(* the record before to the record after.  TransformStream and PipeTo hold *)
(* such a record in a variable.                                            *)
(*                                                                         *)
(* Chunks are the numbers of the write() calls that carried them.  A call  *)
(* of the sink's callbacks leaves a promise outstanding, in field sink,    *)
(* and the reactions to it are operators of their own.                     *)
(***************************************************************************)
EXTENDS Integers, Sequences, SequencesExt

Close == 0        \* the close sentinel in the queue

Promises == {"none", "pending", "resolved", "rejected"}

\* Deferred.resolve and Deferred.reject: "already settled promises are a no-op".
Resolve(p) == IF p = "pending" THEN "resolved" ELSE p
Reject(p) == IF p = "pending" THEN "rejected" ELSE p

\* assert(): a failed assertion stays visible in the record.
Asserting(s, holds) == [s EXCEPT !.failed = @ \/ ~holds]

WritableStreams(Chunks) ==
  [state : {"writable", "erroring", "errored", "closed"},
   storedError : BOOLEAN,          \* whether it is defined
   started : BOOLEAN,              \* the reaction to start() has run
   hwm : Nat,                      \* strategyHWM
   queue : Seq(Chunks \cup {Close}),
   backpressure : BOOLEAN,
   algorithms : BOOLEAN,           \* the controller's algorithms are not cleared
   writeRequests : Seq(Chunks),
   inFlightWriteRequest : Chunks \cup {0},
   closeRequest : BOOLEAN, inFlightCloseRequest : BOOLEAN,
   pendingAbortRequest : {"none", "fresh", "wasAlreadyErroring"},
   writer : BOOLEAN,               \* a writer holds the lock
   ready : Promises, closed : Promises,     \* the promises of that writer
   writes : Seq(Promises),         \* what write() returned
   close : Promises, abort : Promises,      \* what close() and abort() returned
   sink : {"none", "write", "close", "abort"},   \* the sink's outstanding promise
   sunk : Seq(Chunks),             \* history: chunks given to the sink's write()
   failed : BOOLEAN]               \* an assertion failed

\* new WritableStream(): initializeWritableStream and the set-up of its controller,
\* up to the call of start().
initializeWritableStream(hwm) ==
  [state |-> "writable", storedError |-> FALSE, started |-> FALSE, hwm |-> hwm,
   queue |-> <<>>, backpressure |-> hwm <= 0, algorithms |-> TRUE,
   writeRequests |-> <<>>, inFlightWriteRequest |-> 0, closeRequest |-> FALSE,
   inFlightCloseRequest |-> FALSE, pendingAbortRequest |-> "none",
   writer |-> FALSE, ready |-> "none", closed |-> "none", writes |-> <<>>,
   close |-> "none", abort |-> "none", sink |-> "none", sunk |-> <<>>,
   failed |-> FALSE]

-----------------------------------------------------------------------------
(* Questions.                                                              *)

writableStreamCloseQueuedOrInFlight(w) == w.closeRequest \/ w.inFlightCloseRequest
writableStreamHasOperationMarkedInFlight(w) ==
  w.inFlightWriteRequest # 0 \/ w.inFlightCloseRequest

\* writableStreamDefaultControllerGetDesiredSize: every chunk has size 1, the
\* sentinel 0.
writableStreamDefaultControllerGetDesiredSize(w) ==
  w.hwm - Len(SelectSeq(w.queue, LAMBDA c : c # Close))
writableStreamDefaultControllerGetBackpressure(w) ==
  writableStreamDefaultControllerGetDesiredSize(w) <= 0

-----------------------------------------------------------------------------
(* Errors.                                                                 *)

writableStreamDefaultControllerClearAlgorithms(w) == [w EXCEPT !.algorithms = FALSE]

writableStreamRejectCloseAndClosedPromiseIfNeeded(w) ==
  LET v == Asserting(w, /\ w.state = "errored"
                        /\ w.closeRequest => ~w.inFlightCloseRequest)
  IN [v EXCEPT !.close = IF w.closeRequest THEN Reject(@) ELSE @,
               !.closeRequest = FALSE,
               !.closed = IF w.writer THEN Reject(@) ELSE @]

\* With [[ErrorSteps]] (the queue is reset) and [[AbortSteps]] (the sink's abort()
\* is called) of the controller.
writableStreamFinishErroring(w) ==
  LET v == Asserting(w, /\ w.state = "erroring"
                        /\ ~writableStreamHasOperationMarkedInFlight(w))
      e == [v EXCEPT !.state = "errored", !.queue = <<>>,
                     !.writes = [i \in DOMAIN @ |->
                                   IF i \in Range(w.writeRequests)
                                     THEN "rejected" ELSE @[i]],
                     !.writeRequests = <<>>, !.pendingAbortRequest = "none"]
  IN CASE w.pendingAbortRequest = "none" ->
            writableStreamRejectCloseAndClosedPromiseIfNeeded(e)
       [] w.pendingAbortRequest = "wasAlreadyErroring" ->
            writableStreamRejectCloseAndClosedPromiseIfNeeded(
              [e EXCEPT !.abort = Reject(@)])
       [] w.pendingAbortRequest = "fresh" ->
            writableStreamDefaultControllerClearAlgorithms(
              Asserting([e EXCEPT !.sink = "abort"], e.algorithms))

writableStreamStartErroring(w) ==
  LET v == Asserting(w, ~w.storedError /\ w.state = "writable")
      e == [v EXCEPT !.state = "erroring", !.storedError = TRUE,
                     !.ready = IF w.writer THEN "rejected" ELSE @]
  IN IF ~writableStreamHasOperationMarkedInFlight(e) /\ e.started
       THEN writableStreamFinishErroring(e) ELSE e

writableStreamDealWithRejection(w) ==
  IF w.state = "writable" THEN writableStreamStartErroring(w)
  ELSE writableStreamFinishErroring(Asserting(w, w.state = "erroring"))

writableStreamDefaultControllerErrorIfNeeded(w) ==
  IF w.state = "writable"
    THEN writableStreamStartErroring(writableStreamDefaultControllerClearAlgorithms(w))
    ELSE w

\* Mutant: an abort while the stream is erroring starts the error again.
AbortRestarts(w) ==
  IF w.state \in {"closed", "errored"} \/ w.pendingAbortRequest # "none" THEN w
  ELSE writableStreamStartErroring([w EXCEPT !.pendingAbortRequest = "fresh",
                                             !.abort = "pending"])

\* The promise is w.abort, or one that is resolved when the stream is closed or
\* errored.  Listeners of the controller's abort signal are taken not to touch the
\* stream: state is read before they run and not again.
writableStreamAbort(w) ==
  IF w.state \in {"closed", "errored"} \/ w.pendingAbortRequest # "none" THEN w
  ELSE IF w.state = "erroring"
    THEN [w EXCEPT !.pendingAbortRequest = "wasAlreadyErroring", !.abort = "pending"]
    ELSE writableStreamStartErroring([w EXCEPT !.pendingAbortRequest = "fresh",
                                               !.abort = "pending"])

-----------------------------------------------------------------------------
(* The queue.                                                              *)

writableStreamUpdateBackpressure(w, backpressure) ==
  LET v == Asserting(w, /\ w.state = "writable"
                        /\ ~writableStreamCloseQueuedOrInFlight(w))
  IN [v EXCEPT !.backpressure = backpressure,
               !.ready = IF w.writer /\ backpressure # w.backpressure
                           THEN IF backpressure THEN "pending" ELSE Resolve(@)
                           ELSE @]

\* writableStreamMarkFirstWriteRequestInFlight and the call of the sink's write().
writableStreamDefaultControllerProcessWrite(w) ==
  LET v == Asserting(w, /\ w.inFlightWriteRequest = 0 /\ w.writeRequests # <<>>
                        /\ w.algorithms)
  IN [v EXCEPT !.inFlightWriteRequest = Head(w.writeRequests),
               !.writeRequests = Tail(@),
               !.sink = "write", !.sunk = Append(@, Head(w.queue))]

\* writableStreamMarkCloseRequestInFlight and the call of the sink's close().
writableStreamDefaultControllerProcessClose(w) ==
  LET v == Asserting(w, /\ ~w.inFlightCloseRequest /\ w.closeRequest
                        /\ Len(w.queue) = 1 /\ w.algorithms)
  IN writableStreamDefaultControllerClearAlgorithms(
       [v EXCEPT !.inFlightCloseRequest = TRUE, !.closeRequest = FALSE,
                 !.queue = Tail(@), !.sink = "close"])

writableStreamDefaultControllerAdvanceQueueIfNeeded(w) ==
  IF ~w.started \/ w.inFlightWriteRequest # 0 THEN w
  ELSE LET v == Asserting(w, w.state \notin {"closed", "errored"})
       IN CASE v.state = "erroring" -> writableStreamFinishErroring(v)
            [] v.state # "erroring" /\ v.queue = <<>> -> v
            [] OTHER -> IF Head(v.queue) = Close
                          THEN writableStreamDefaultControllerProcessClose(v)
                          ELSE writableStreamDefaultControllerProcessWrite(v)

\* The bookkeeping of backpressure after the queue has grown or shrunk.
UpdateIfOpen(w) ==
  IF ~writableStreamCloseQueuedOrInFlight(w) /\ w.state = "writable"
    THEN writableStreamUpdateBackpressure(
           w, writableStreamDefaultControllerGetBackpressure(w))
    ELSE w

\* enqueueValueWithSize throws when the size is not a number.
writableStreamDefaultControllerWrite(w, size) ==
  IF size = "invalid" THEN writableStreamDefaultControllerErrorIfNeeded(w)
  ELSE writableStreamDefaultControllerAdvanceQueueIfNeeded(
         UpdateIfOpen([w EXCEPT !.queue = Append(@, Len(w.writes))]))

writableStreamAddWriteRequest(w) ==
  LET v == Asserting(w, w.writer /\ w.state = "writable")
  IN [v EXCEPT !.writes = Append(@, "pending"),
               !.writeRequests = Append(@, Len(w.writes) + 1)]

\* The size algorithm may throw, and is gone once the algorithms are cleared.
writableStreamDefaultControllerGetChunkSize(w, size) ==
  IF size = "throws" \/ ~w.algorithms
    THEN writableStreamDefaultControllerErrorIfNeeded(w) ELSE w

-----------------------------------------------------------------------------
(* The writer.                                                             *)

writableStreamDefaultWriterWrite(w, size) ==
  LET v == writableStreamDefaultControllerGetChunkSize(w, size)
  IN IF v.state # "writable" \/ writableStreamCloseQueuedOrInFlight(v)
       THEN [v EXCEPT !.writes = Append(@, "rejected")]
       ELSE writableStreamDefaultControllerWrite(writableStreamAddWriteRequest(v), size)

\* The promise is w.close, or one that is rejected when the stream is closed or
\* errored.
writableStreamClose(w) ==
  IF w.state \in {"closed", "errored"} THEN w
  ELSE LET v == Asserting(w, ~writableStreamCloseQueuedOrInFlight(w))
       IN writableStreamDefaultControllerAdvanceQueueIfNeeded(
            [v EXCEPT !.closeRequest = TRUE, !.close = "pending",
                      !.ready = IF w.writer /\ w.backpressure /\ w.state = "writable"
                                  THEN Resolve(@) ELSE @,
                      !.queue = Append(@, Close)])

\* close() of the stream and of the writer refuse while a close is under way.
close(w) == IF writableStreamCloseQueuedOrInFlight(w) THEN w ELSE writableStreamClose(w)

setUpWritableStreamDefaultWriter(w) ==
  [w EXCEPT !.writer = TRUE,
            !.ready = CASE w.state \in {"erroring", "errored"} -> "rejected"
                        [] w.state = "writable" /\ w.backpressure
                           /\ ~writableStreamCloseQueuedOrInFlight(w) -> "pending"
                        [] OTHER -> "resolved",
            !.closed = CASE w.state = "closed" -> "resolved"
                         [] w.state = "errored" -> "rejected"
                         [] OTHER -> "pending"]

writableStreamDefaultWriterRelease(w) ==
  [Asserting(w, w.writer) EXCEPT !.writer = FALSE, !.ready = "rejected",
                              !.closed = "rejected"]

-----------------------------------------------------------------------------
(* The reactions to the promises of the sink.                              *)

WritableStarts(w, fulfilled) ==
  LET v == [Asserting(w, w.state \in {"writable", "erroring"}) EXCEPT !.started = TRUE]
  IN IF fulfilled THEN writableStreamDefaultControllerAdvanceQueueIfNeeded(v)
     ELSE writableStreamDealWithRejection(v)

\* writableStreamFinishInFlightWrite and what follows it.
SinkWriteFulfilled(w) ==
  LET v == Asserting(w, /\ w.inFlightWriteRequest # 0
                        /\ w.state \in {"writable", "erroring"} /\ w.queue # <<>>)
  IN writableStreamDefaultControllerAdvanceQueueIfNeeded(UpdateIfOpen(
       [v EXCEPT !.writes[w.inFlightWriteRequest] = "resolved",
                 !.inFlightWriteRequest = 0, !.sink = "none", !.queue = Tail(@)]))

\* writableStreamFinishInFlightWriteWithError.
SinkWriteRejected(w) ==
  LET v == IF w.state = "writable"
             THEN writableStreamDefaultControllerClearAlgorithms(w) ELSE w
      u == Asserting(v, w.inFlightWriteRequest # 0)
  IN writableStreamDealWithRejection(
       [u EXCEPT !.writes[w.inFlightWriteRequest] = "rejected",
                 !.inFlightWriteRequest = 0, !.sink = "none"])

\* Mutant: the abort that lost against the close is not settled.
CloseForgetsAbort(w) ==
  [w EXCEPT !.inFlightCloseRequest = FALSE, !.close = "resolved", !.sink = "none",
            !.storedError = FALSE, !.state = "closed",
            !.closed = IF w.writer THEN Resolve(@) ELSE @]

writableStreamFinishInFlightClose(w) ==
  LET v == Asserting(w, w.inFlightCloseRequest /\ w.state \in {"writable", "erroring"})
      e == [v EXCEPT !.inFlightCloseRequest = FALSE, !.close = "resolved",
                     !.sink = "none", !.state = "closed",
                     !.closed = IF w.writer THEN Resolve(@) ELSE @]
  IN IF w.state = "erroring"
       THEN [e EXCEPT !.storedError = FALSE, !.abort = Resolve(@),
                      !.pendingAbortRequest = "none"]
       ELSE Asserting(e, w.pendingAbortRequest = "none" /\ ~w.storedError)

writableStreamFinishInFlightCloseWithError(w) ==
  LET v == Asserting(w, w.inFlightCloseRequest /\ w.state \in {"writable", "erroring"})
  IN writableStreamDealWithRejection(
       [v EXCEPT !.inFlightCloseRequest = FALSE, !.close = "rejected",
                 !.sink = "none", !.abort = Reject(@), !.pendingAbortRequest = "none"])

SinkAbortSettles(w, fulfilled) ==
  writableStreamRejectCloseAndClosedPromiseIfNeeded(
    [w EXCEPT !.abort = IF fulfilled THEN Resolve(@) ELSE Reject(@), !.sink = "none"])

\* The promise the sink's callback returned is settled.
SinkSettles(w, fulfilled) ==
  CASE w.sink = "write" -> IF fulfilled THEN SinkWriteFulfilled(w) ELSE SinkWriteRejected(w)
    [] w.sink = "close" -> IF fulfilled THEN writableStreamFinishInFlightClose(w)
                           ELSE writableStreamFinishInFlightCloseWithError(w)
    [] w.sink = "abort" -> SinkAbortSettles(w, fulfilled)
=============================================================================
