------------------------ MODULE TransformStreamProofs ------------------------
(***************************************************************************)
(* TransformStream for every number of writes, reads and chunks and every  *)
(* high water mark: no assertion of the two streams and of the transform   *)
(* stream fails, but the one that transform.stale records.                 *)
(***************************************************************************)
EXTENDS TransformStream, StreamProofs

Made(r, w, t) == [r |-> r, w |-> w, t |-> t]

-----------------------------------------------------------------------------
(* The invariant, over the readable side, the writable side and the        *)
(* transform stream between them.                                          *)

CanEnqueue(r) == readableStreamDefaultControllerCanCloseOrEnqueue(r)

\* The chunks on the readable side are ones the transformer enqueued.
UpTo(r, n) ==
  /\ \A i \in 1..Len(r.queue) : r.queue[i] <= n
  /\ \A i \in 1..Len(r.reads) : r.reads[i] <= n

\* The two streams by themselves.
Sides(r, w, t) ==
  /\ ReadableInv(r) /\ r.reader
  /\ r.cancel # "none" => r.state # "readable"
  /\ WritableInv(w) /\ w.writer /\ Len(w.writes) <= MaxWrites
  /\ t \in Transforms /\ ~t.failed

\* A write that waits for demand, for its reaction or for the transformer is the one in
\* flight in the sink.  The algorithms are there for whoever closes an open writable side first.
SinkSide(w, t) ==
  /\ t.write # "none" => w.sink = "write" /\ t.called = "write"
  /\ ~t.algorithms /\ t.finish = "none" => w.state # "writable"

\* The flag is down just while the source's pull waits for it to rise, as long as the
\* readable side takes chunks; a pull that waits is the readable side's own.
SourceSide(r, t) ==
  /\ t.pull # "none" => r.pull = "pending"
  /\ r.pull # "rejected"
  /\ CanEnqueue(r) => (t.backpressure <=> t.pull # "blocked")
  /\ t.callback = "cancel" => r.state # "readable"

\* The abort or the cancel algorithm threw, and left the finish promise behind.
Abandoned(t) == "abort" \in t.threw \/ "cancel" \in t.threw

\* The finish promise is pending while a callback is to settle it, or abandoned.
Finishing(t) ==
  /\ t.finish = "pending" <=> (t.callback # "none" \/ Abandoned(t))
  /\ t.callback # "none" => ~Abandoned(t)

\* An algorithm that has not been called yet: the writable side is open when the sink is
\* to write or close, and the readable side takes chunks when the source is to be pulled.
SinkDue(w, t) == w.sink \in {"write", "close"} /\ w.sink # t.called => w.state = "writable"
PullDue(r, t) == r.pull = "pending" /\ t.pull = "none" => CanEnqueue(r)

\* Before and after the algorithms have been called.
Due(r, w, t) ==
  /\ Sides(r, w, t) /\ SinkSide(w, t) /\ SourceSide(r, t)
  /\ SinkDue(w, t) /\ PullDue(r, t) /\ (t.callback # "none" => t.finish = "pending")
Called(r, w, t) ==
  /\ Due(r, w, t)
  /\ w.sink # "none" => w.sink = t.called
  /\ r.pull = "pending" => t.pull # "none"

TransformInv ==
  /\ Called(readable, writable, transform) /\ Finishing(transform)
  /\ UpTo(readable, transform.enqueued)

-----------------------------------------------------------------------------
(* What the operators of the writable side do to its sink. *)

\* The fields that tell.
Shaped(w) ==
  /\ {"state", "sink", "started", "queue", "closeRequest", "writes", "writeRequests",
      "inFlightWriteRequest", "inFlightCloseRequest", "pendingAbortRequest", "algorithms"}
        \subseteq DOMAIN w
  /\ w.pendingAbortRequest \in {"none", "fresh", "wasAlreadyErroring"}
  /\ w.sink = "write" => w.inFlightWriteRequest # 0

\* The sink's write() and close() are called while the stream is writable only, which it does not
\* become again.
Calling(w, v) ==
  /\ v.state = "writable" => w.state = "writable"
  /\ v.sink # w.sink /\ v.sink \in {"write", "close"} => v.state = "writable"

\* A write in flight stays so until it is settled.
Holding(w, v) == Calling(w, v) /\ (w.sink = "write" => v.sink = "write")

\* The stream is one of these.
LEMMA IsShaped ==
  ASSUME NEW w, WritableInv(w) PROVE Shaped(w)
<1>1. WritableType(w) /\ SinkInv(w) BY DEF WritableInv, ErrorInv
<1>2. w.sink = "write" => w.inFlightWriteRequest # 0 BY <1>1 DEF SinkInv
<1>3. w.pendingAbortRequest \in {"none", "fresh", "wasAlreadyErroring"}
  BY <1>1, WritableFields
<1> QED BY <1>1, <1>2, <1>3 DEF Shaped, WritableType, WritableStreams

\* writableStreamRejectCloseAndClosedPromiseIfNeeded().
LEMMA RejectsCloseOnly ==
  ASSUME NEW w, {"state", "sink"} \subseteq DOMAIN w
  PROVE  LET v == writableStreamRejectCloseAndClosedPromiseIfNeeded(w)
         IN v.state = w.state /\ v.sink = w.sink
BY DEF writableStreamRejectCloseAndClosedPromiseIfNeeded, Asserting

\* writableStreamFinishErroring().
LEMMA FinishesAs ==
  ASSUME NEW w, Shaped(w)
  PROVE  LET v == writableStreamFinishErroring(w)
         IN v.state = "errored" /\ v.sink \in {w.sink, "abort"}
<1> DEFINE ws == [i \in DOMAIN w.writes |->
                    IF i \in Range(w.writeRequests) THEN "rejected" ELSE w.writes[i]]
           a == Asserting(w, /\ w.state = "erroring"
                             /\ ~writableStreamHasOperationMarkedInFlight(w))
           e == [a EXCEPT !.state = "errored", !.queue = <<>>,
                     !.writes = [i \in DOMAIN @ |->
                                   IF i \in Range(w.writeRequests)
                                     THEN "rejected" ELSE @[i]],
                     !.writeRequests = <<>>, !.pendingAbortRequest = "none"]
           f == [e EXCEPT !.abort = Reject(@)]
           g == [e EXCEPT !.sink = "abort"]
           v == writableStreamFinishErroring(w)
<1>1. {"state", "sink", "writes"} \subseteq DOMAIN w BY DEF Shaped
<1>2. {"state", "sink"} \subseteq DOMAIN a /\ a.sink = w.sink BY <1>1 DEF Asserting
<1>3. {"state", "sink"} \subseteq DOMAIN e /\ e.state = "errored" /\ e.sink = w.sink
  <2> HIDE DEF a
  <2> QED BY <1>2
<1>4. \/ v = writableStreamRejectCloseAndClosedPromiseIfNeeded(e)
      \/ v = writableStreamRejectCloseAndClosedPromiseIfNeeded(f)
      \/ v = writableStreamDefaultControllerClearAlgorithms(Asserting(g, e.algorithms))
  BY Zenon DEF Shaped, writableStreamFinishErroring
<1> HIDE DEF e, v
<1>5. {"state", "sink"} \subseteq DOMAIN f /\ f.state = "errored" /\ f.sink = w.sink
  BY <1>3
<1>6. {"state", "sink"} \subseteq DOMAIN g /\ g.state = "errored" /\ g.sink = "abort"
  BY <1>3
<1> HIDE DEF f, g
<1>7. CASE v = writableStreamRejectCloseAndClosedPromiseIfNeeded(e)
  BY <1>3, <1>7, RejectsCloseOnly DEF v
<1>8. CASE v = writableStreamRejectCloseAndClosedPromiseIfNeeded(f)
  BY <1>5, <1>8, RejectsCloseOnly DEF v
<1>9. CASE v = writableStreamDefaultControllerClearAlgorithms(Asserting(g, e.algorithms))
  BY <1>6, <1>9 DEF v, Asserting, writableStreamDefaultControllerClearAlgorithms
<1> QED BY <1>4, <1>7, <1>8, <1>9

\* writableStreamStartErroring().
LEMMA StartsAs ==
  ASSUME NEW w, Shaped(w)
  PROVE  LET v == writableStreamStartErroring(w)
         IN /\ v.state # "writable" /\ v.sink \in {w.sink, "abort"}
            /\ w.sink = "write" => v.sink = "write"
<1> DEFINE a == Asserting(w, ~w.storedError /\ w.state = "writable")
           e == [a EXCEPT !.state = "erroring", !.storedError = TRUE,
                          !.ready = IF w.writer THEN "rejected" ELSE @]
           v == writableStreamStartErroring(w)
<1>1. /\ DOMAIN a = DOMAIN w /\ a.sink = w.sink
      /\ a.pendingAbortRequest = w.pendingAbortRequest
      /\ a.inFlightWriteRequest = w.inFlightWriteRequest
  BY DEF Shaped, Asserting
<1>2. v = IF ~writableStreamHasOperationMarkedInFlight(e) /\ e.started
            THEN writableStreamFinishErroring(e) ELSE e
  BY Zenon DEF writableStreamStartErroring
<1> HIDE DEF a
<1>3. Shaped(e) /\ e.state = "erroring" /\ e.sink = w.sink BY <1>1 DEF Shaped
<1> HIDE DEF e, v
<1>4. CASE ~writableStreamHasOperationMarkedInFlight(e) /\ e.started
  <2>1. v = writableStreamFinishErroring(e) BY <1>2, <1>4
  <2>2. e.sink # "write" BY <1>3, <1>4 DEF Shaped, writableStreamHasOperationMarkedInFlight
  <2>3. v.state = "errored" /\ v.sink \in {e.sink, "abort"} BY <1>3, <2>1, FinishesAs
  <2> QED BY <1>3, <2>2, <2>3 DEF v
<1>5. CASE ~(~writableStreamHasOperationMarkedInFlight(e) /\ e.started)
  <2>1. v = e BY <1>2, <1>5
  <2> QED BY <1>3, <2>1 DEF v
<1> QED BY <1>4, <1>5

\* writableStreamDefaultControllerErrorIfNeeded().
LEMMA ErrorsAs ==
  ASSUME NEW w, Shaped(w)
  PROVE  LET v == writableStreamDefaultControllerErrorIfNeeded(w)
         IN Holding(w, v) /\ v.state # "writable"
<1> DEFINE e == writableStreamDefaultControllerClearAlgorithms(w)
<1>1. Shaped(e) /\ e.sink = w.sink
  BY DEF Shaped, writableStreamDefaultControllerClearAlgorithms
<1> HIDE DEF e
<1>2. CASE w.state = "writable"
  <2>1. writableStreamDefaultControllerErrorIfNeeded(w) = writableStreamStartErroring(e)
    BY <1>2 DEF writableStreamDefaultControllerErrorIfNeeded, e
  <2> QED BY <1>1, <2>1, StartsAs DEF Holding, Calling
<1>3. CASE w.state # "writable"
  BY <1>3 DEF writableStreamDefaultControllerErrorIfNeeded, Holding, Calling
<1> QED BY <1>2, <1>3

\* writableStreamDealWithRejection().
LEMMA DealsAs ==
  ASSUME NEW w, Shaped(w)
  PROVE  LET v == writableStreamDealWithRejection(w)
         IN v.state # "writable" /\ v.sink \in {w.sink, "abort"}
<1> DEFINE a == Asserting(w, w.state = "erroring")
<1>1. Shaped(a) /\ a.sink = w.sink BY DEF Shaped, Asserting
<1> HIDE DEF a
<1>2. CASE w.state = "writable"
  BY <1>2, StartsAs DEF writableStreamDealWithRejection
<1>3. CASE w.state # "writable"
  <2>1. writableStreamDealWithRejection(w) = writableStreamFinishErroring(a)
    BY <1>3 DEF writableStreamDealWithRejection, a
  <2> QED BY <1>1, <2>1, FinishesAs
<1> QED BY <1>2, <1>3

\* writableStreamAbort().
LEMMA AbortsAs ==
  ASSUME NEW w, Shaped(w), w.state \in {"writable", "erroring"}
  PROVE  Holding(w, writableStreamAbort(w))
<1> DEFINE e == [w EXCEPT !.pendingAbortRequest = "wasAlreadyErroring", !.abort = "pending"]
           f == [w EXCEPT !.pendingAbortRequest = "fresh", !.abort = "pending"]
<1>1. e.sink = w.sink /\ e.state = w.state BY DEF Shaped
<1>2. Shaped(f) /\ f.sink = w.sink BY DEF Shaped
<1> HIDE DEF e, f
<1>3. CASE w.pendingAbortRequest # "none"
  BY <1>3 DEF writableStreamAbort, Holding, Calling
<1>4. CASE w.pendingAbortRequest = "none" /\ w.state = "erroring"
  <2>1. writableStreamAbort(w) = e BY <1>4 DEF writableStreamAbort, e
  <2> QED BY <1>1, <2>1 DEF Holding, Calling
<1>5. CASE w.pendingAbortRequest = "none" /\ w.state = "writable"
  <2>1. writableStreamAbort(w) = writableStreamStartErroring(f)
    BY <1>5 DEF writableStreamAbort, f
  <2> QED BY <1>2, <2>1, StartsAs DEF Holding, Calling
<1> QED BY <1>3, <1>4, <1>5

\* writableStreamDefaultControllerAdvanceQueueIfNeeded().
LEMMA AdvancesAs ==
  ASSUME NEW w, Shaped(w), w.state \in {"writable", "erroring"}
  PROVE  Holding(w, writableStreamDefaultControllerAdvanceQueueIfNeeded(w))
<1> DEFINE a == Asserting(w, w.state \notin {"closed", "errored"})
           v == writableStreamDefaultControllerAdvanceQueueIfNeeded(w)
<1>1. CASE ~w.started \/ w.inFlightWriteRequest # 0
  BY <1>1 DEF writableStreamDefaultControllerAdvanceQueueIfNeeded, Holding, Calling
<1>2. CASE w.started /\ w.inFlightWriteRequest = 0
  <2>1. Shaped(a) /\ a.sink = w.sink /\ a.state = w.state /\ a.sink # "write"
    BY <1>2 DEF Shaped, Asserting
  <2>2. \/ v = writableStreamFinishErroring(a)
        \/ v = a
        \/ v = writableStreamDefaultControllerProcessClose(a) /\ a.state # "erroring"
        \/ v = writableStreamDefaultControllerProcessWrite(a) /\ a.state # "erroring"
    BY Zenon, <1>2 DEF writableStreamDefaultControllerAdvanceQueueIfNeeded
  <2> HIDE DEF a, v
  <2>3. CASE v = writableStreamFinishErroring(a)
    BY <2>1, <2>3, FinishesAs DEF Holding, Calling, v
  <2>4. CASE v = a BY <2>1, <2>4 DEF Holding, Calling, v
  <2>5. CASE v = writableStreamDefaultControllerProcessClose(a) /\ a.state # "erroring"
    <3>1. v.state = a.state /\ v.sink = "close"
      BY <2>1, <2>5 DEF Shaped, writableStreamDefaultControllerProcessClose, Asserting,
           writableStreamDefaultControllerClearAlgorithms
    <3> QED BY <2>1, <2>5, <3>1 DEF Holding, Calling, v
  <2>6. CASE v = writableStreamDefaultControllerProcessWrite(a) /\ a.state # "erroring"
    <3>1. v.state = a.state /\ v.sink = "write"
      BY <2>1, <2>6 DEF Shaped, writableStreamDefaultControllerProcessWrite, Asserting
    <3> QED BY <2>1, <2>6, <3>1 DEF Holding, Calling, v
  <2> QED BY <2>2, <2>3, <2>4, <2>5, <2>6
<1> QED BY <1>1, <1>2

\* UpdateIfOpen() and the two helpers of a write.
LEMMA UpdatesAs ==
  ASSUME NEW w, Shaped(w)
  PROVE  LET v == UpdateIfOpen(w) IN Shaped(v) /\ v.state = w.state /\ v.sink = w.sink
<1> DEFINE b == writableStreamDefaultControllerGetBackpressure(w)
           a == Asserting(w, w.state = "writable" /\ ~writableStreamCloseQueuedOrInFlight(w))
           p == IF w.writer /\ b # w.backpressure
                  THEN IF b THEN "pending" ELSE Resolve(a.ready) ELSE a.ready
           v == [a EXCEPT !.backpressure = b, !.ready = p]
<1>1. Shaped(a) /\ a.state = w.state /\ a.sink = w.sink BY DEF Shaped, Asserting
<1>2. UpdateIfOpen(w) = v \/ UpdateIfOpen(w) = w
  BY DEF UpdateIfOpen, writableStreamUpdateBackpressure
<1> HIDE DEF a, b, p
<1>3. Shaped(v) /\ v.state = w.state /\ v.sink = w.sink BY <1>1 DEF Shaped
<1> QED BY <1>2, <1>3

\* writableStreamDefaultWriterWrite().
LEMMA WritesAs ==
  ASSUME NEW w, WritableInv(w), w.writer, NEW size
  PROVE  Holding(w, writableStreamDefaultWriterWrite(w, size))
<1> DEFINE e == writableStreamDefaultControllerGetChunkSize(w, size)
           f == [e EXCEPT !.writes = Append(@, "rejected")]
           v == writableStreamDefaultWriterWrite(w, size)
<1>1. Shaped(w) BY IsShaped
<1>2. Holding(w, e) /\ WritableInv(e) /\ (e.state = "writable" => e = w)
  <2>1. CASE size = "throws" \/ ~w.algorithms
    <3>1. e = writableStreamDefaultControllerErrorIfNeeded(w)
      BY <2>1 DEF writableStreamDefaultControllerGetChunkSize
    <3>2. w.state = "writable" => ~w.storedError /\ w.pendingAbortRequest = "none"
      BY DEF WritableInv, QueueInv
    <3>3. WritableInv(e) BY <3>1, <3>2, ErrorsIfNeeded DEF WritableInv
    <3> QED BY <1>1, <3>1, <3>3, ErrorsAs
  <2>2. CASE ~(size = "throws" \/ ~w.algorithms)
    <3>1. e = w BY <2>2 DEF writableStreamDefaultControllerGetChunkSize
    <3> QED BY <3>1 DEF Holding, Calling
  <2> QED BY <2>1, <2>2
<1>3. \/ v = f
      \/ /\ e.state = "writable"
         /\ v = writableStreamDefaultControllerWrite(writableStreamAddWriteRequest(e), size)
  BY Zenon DEF writableStreamDefaultWriterWrite
<1> HIDE DEF e, v
<1>4. CASE v = f
  <2>1. f.state = e.state /\ f.sink = e.sink BY <1>2, IsShaped DEF Shaped
  <2> QED BY <1>2, <1>4, <2>1 DEF Holding, Calling, v
<1>5. CASE /\ e.state = "writable"
           /\ v = writableStreamDefaultControllerWrite(writableStreamAddWriteRequest(e), size)
  <2> DEFINE a == writableStreamAddWriteRequest(w)
             q == [a EXCEPT !.queue = Append(@, Len(a.writes))]
             u == UpdateIfOpen(q)
  <2>1. Shaped(a) /\ a.state = w.state /\ a.sink = w.sink
    BY <1>1 DEF Shaped, Asserting, writableStreamAddWriteRequest
  <2>2. CASE size = "invalid"
    <3>1. v = writableStreamDefaultControllerErrorIfNeeded(a)
      BY <1>2, <1>5, <2>2 DEF writableStreamDefaultControllerWrite
    <3> HIDE DEF a
    <3>2. Holding(a, v) BY <2>1, <3>1, ErrorsAs
    <3> QED BY <2>1, <3>2 DEF Holding, Calling, v
  <2>3. CASE size # "invalid"
    <3>1. v = writableStreamDefaultControllerAdvanceQueueIfNeeded(u)
      BY <1>2, <1>5, <2>3 DEF writableStreamDefaultControllerWrite
    <3> HIDE DEF a
    <3>2. Shaped(q) /\ q.state = w.state /\ q.sink = w.sink BY <2>1 DEF Shaped
    <3> HIDE DEF q
    <3>3. Shaped(u) /\ u.state = w.state /\ u.sink = w.sink BY <3>2, UpdatesAs
    <3> HIDE DEF u
    <3>4. Holding(u, v) BY <1>2, <1>5, <3>1, <3>3, AdvancesAs
    <3> QED BY <3>3, <3>4 DEF Holding, Calling, v
  <2> QED BY <2>2, <2>3
<1> QED BY <1>3, <1>4, <1>5

\* close() of the writer.
LEMMA ClosesAs ==
  ASSUME NEW w, WritableInv(w), w.state \in {"writable", "erroring"},
         ~writableStreamCloseQueuedOrInFlight(w)
  PROVE  Holding(w, close(w))
<1> DEFINE a == Asserting(w, ~writableStreamCloseQueuedOrInFlight(w))
           e == [a EXCEPT !.closeRequest = TRUE, !.close = "pending",
                          !.ready = IF w.writer /\ w.backpressure /\ w.state = "writable"
                                      THEN Resolve(@) ELSE @,
                          !.queue = Append(@, Close)]
<1>1. Shaped(w) BY IsShaped
<1>2. close(w) = writableStreamDefaultControllerAdvanceQueueIfNeeded(e)
  BY DEF close, writableStreamClose
<1>3. Shaped(a) /\ a.state = w.state /\ a.sink = w.sink BY <1>1 DEF Shaped, Asserting
<1> HIDE DEF a
<1>4. Shaped(e) /\ e.state = w.state /\ e.sink = w.sink BY <1>3 DEF Shaped
<1> HIDE DEF e
<1> QED BY <1>2, <1>4, AdvancesAs DEF Holding, Calling

\* The reaction to start().
LEMMA StartedAs ==
  ASSUME NEW w, WritableInv(w), ~w.started, NEW ok \in BOOLEAN
  PROVE  Holding(w, WritableStarts(w, ok))
<1> DEFINE a == Asserting(w, w.state \in {"writable", "erroring"})
           e == [a EXCEPT !.started = TRUE]
<1>1. Shaped(w) /\ w.state \in {"writable", "erroring"} /\ w.sink # "write"
  BY IsShaped DEF WritableInv, ErrorInv, SinkInv, Open
<1>2. Shaped(a) /\ a.state = w.state /\ a.sink = w.sink BY <1>1 DEF Shaped, Asserting
<1> HIDE DEF a
<1>3. Shaped(e) /\ e.state = w.state /\ e.sink = w.sink BY <1>2 DEF Shaped
<1>4. \/ WritableStarts(w, ok) = writableStreamDefaultControllerAdvanceQueueIfNeeded(e)
      \/ WritableStarts(w, ok) = writableStreamDealWithRejection(e)
  BY DEF WritableStarts, a
<1> HIDE DEF e
<1> QED BY <1>1, <1>3, <1>4, AdvancesAs, DealsAs DEF Holding, Calling

\* The sink's promise is settled: it is not asked for anything but the next chunk, or the close,
\* of a writable stream, or to abort.
LEMMA WriteFulfilledAs ==
  ASSUME NEW w, WritableInv(w), w.inFlightWriteRequest # 0
  PROVE  LET v == SinkWriteFulfilled(w)
         IN Calling(w, v) /\ (v.sink \in {"write", "close"} => v.state = "writable")
<1> DEFINE a == Asserting(w, /\ w.inFlightWriteRequest # 0
                        /\ w.state \in {"writable", "erroring"} /\ w.queue # <<>>)
           e == [a EXCEPT !.writes[w.inFlightWriteRequest] = "resolved",
                          !.inFlightWriteRequest = 0, !.sink = "none", !.queue = Tail(@)]
           u == UpdateIfOpen(e)
           v == SinkWriteFulfilled(w)
<1>1. Shaped(w) /\ w.state \in {"writable", "erroring"}
  BY IsShaped DEF WritableInv, ErrorInv, SinkInv, Open
<1>2. Shaped(a) /\ a.state = w.state BY <1>1 DEF Shaped, Asserting
<1>3. v = writableStreamDefaultControllerAdvanceQueueIfNeeded(u) BY Zenon DEF SinkWriteFulfilled
<1> HIDE DEF a
<1>4. Shaped(e) /\ e.state = w.state /\ e.sink = "none" BY <1>2 DEF Shaped
<1> HIDE DEF e
<1>5. Shaped(u) /\ u.state = w.state /\ u.sink = "none" BY <1>4, UpdatesAs
<1> HIDE DEF u, v
<1>6. Holding(u, v) BY <1>1, <1>3, <1>5, AdvancesAs
<1> QED BY <1>5, <1>6 DEF Holding, Calling, v

\* The sink's write() failed.
LEMMA WriteRejectedAs ==
  ASSUME NEW w, WritableInv(w)
  PROVE  LET v == SinkWriteRejected(w) IN v.state # "writable" /\ v.sink \in {"none", "abort"}
<1> DEFINE c == IF w.state = "writable"
                  THEN writableStreamDefaultControllerClearAlgorithms(w) ELSE w
           a == Asserting(c, w.inFlightWriteRequest # 0)
           e == [a EXCEPT !.writes[w.inFlightWriteRequest] = "rejected",
                          !.inFlightWriteRequest = 0, !.sink = "none"]
           v == SinkWriteRejected(w)
<1>1. Shaped(w) BY IsShaped
<1>2. Shaped(c) BY <1>1 DEF Shaped, writableStreamDefaultControllerClearAlgorithms
<1>3. v = writableStreamDealWithRejection(e) BY Zenon DEF SinkWriteRejected
<1> HIDE DEF c
<1>4. Shaped(a) BY <1>2 DEF Shaped, Asserting
<1> HIDE DEF a
<1>5. Shaped(e) /\ e.sink = "none" BY <1>4 DEF Shaped
<1> HIDE DEF e
<1> QED BY <1>3, <1>5, DealsAs

\* The sink's close() or abort() is settled.
LEMMA SettlesAs ==
  ASSUME NEW w, WritableInv(w), w.sink \in {"close", "abort"}, NEW ok \in BOOLEAN
  PROVE  LET v == SinkSettles(w, ok) IN v.state # "writable" /\ v.sink \in {"none", "abort"}
<1> DEFINE v == SinkSettles(w, ok)
<1>1. Shaped(w) BY IsShaped
<1>2. CASE w.sink = "close" /\ ok
  <2>1. w.inFlightCloseRequest BY <1>2 DEF WritableInv, ErrorInv, SinkInv
  <2>2. v = writableStreamFinishInFlightClose(w) BY <1>2 DEF SinkSettles
  <2>3. v.state = "closed" BY <2>1, <2>2, CloseFulfilled
  <2> DEFINE a == Asserting(w, w.inFlightCloseRequest /\ w.state \in {"writable", "erroring"})
             e == [a EXCEPT !.inFlightCloseRequest = FALSE, !.close = "resolved",
                            !.sink = "none", !.state = "closed",
                            !.closed = IF w.writer THEN Resolve(@) ELSE @]
             f == [e EXCEPT !.storedError = FALSE, !.abort = Resolve(@),
                            !.pendingAbortRequest = "none"]
             g == Asserting(e, w.pendingAbortRequest = "none" /\ ~w.storedError)
  <2>4. v = f \/ v = g BY Zenon, <2>2 DEF writableStreamFinishInFlightClose
  <2>5. Shaped(a) BY <1>1 DEF Shaped, Asserting
  <2> HIDE DEF a, v
  <2>6. "sink" \in DOMAIN e /\ e.sink = "none" BY <2>5 DEF Shaped
  <2> HIDE DEF e
  <2>7. f.sink = "none" /\ g.sink = "none" BY <2>6 DEF Asserting
  <2> QED BY <2>3, <2>4, <2>7 DEF v
<1>3. CASE w.sink = "close" /\ ~ok
  <2> DEFINE a == Asserting(w, w.inFlightCloseRequest /\ w.state \in {"writable", "erroring"})
             e == [a EXCEPT !.inFlightCloseRequest = FALSE, !.close = "rejected",
                            !.sink = "none", !.abort = Reject(@), !.pendingAbortRequest = "none"]
  <2>1. v = writableStreamDealWithRejection(e)
    BY <1>3 DEF SinkSettles, writableStreamFinishInFlightCloseWithError
  <2>2. Shaped(a) BY <1>1 DEF Shaped, Asserting
  <2> HIDE DEF a
  <2>3. Shaped(e) /\ e.sink = "none" BY <2>2 DEF Shaped
  <2> HIDE DEF e
  <2> QED BY <2>1, <2>3, DealsAs
<1>4. CASE w.sink = "abort"
  <2> DEFINE p == IF ok THEN Resolve(w.abort) ELSE Reject(w.abort)
             e == [w EXCEPT !.abort = p, !.sink = "none"]
  <2>1. v = writableStreamRejectCloseAndClosedPromiseIfNeeded(e)
    BY Zenon, <1>4 DEF SinkSettles, SinkAbortSettles
  <2>2. w.state = "errored" BY <1>4 DEF WritableInv, ErrorInv, SinkInv
  <2> HIDE DEF p
  <2>3. {"state", "sink"} \subseteq DOMAIN e /\ e.sink = "none" /\ e.state = "errored"
    BY <1>1, <2>2 DEF Shaped
  <2> HIDE DEF e
  <2> QED BY <2>1, <2>3, RejectsCloseOnly
<1> QED BY <1>2, <1>3, <1>4

-----------------------------------------------------------------------------
(* What the operators of the readable side do to its source. *)

\* The source is pulled while the stream takes chunks only, which it does not do again once it has
\* ended or is closing; only then is it cancelled.
Pulling(r, v) ==
  /\ CanEnqueue(v) => CanEnqueue(r)
  /\ r.state # "readable" => v.state # "readable"
  /\ v.pull = r.pull \/ (r.pull = "idle" /\ v.pull = "pending" /\ CanEnqueue(v))
  /\ v.cancel = r.cancel \/ v.state # "readable"

\* The pull that has been settled may be followed by another.
Pulled(r, v) ==
  /\ CanEnqueue(v) => CanEnqueue(r)
  /\ r.state # "readable" => v.state # "readable"
  /\ v.pull = "idle" \/ (v.pull = "pending" /\ CanEnqueue(v))
  /\ v.cancel = r.cancel

ReadShaped(r) == {"state", "closeRequested", "pull", "cancel"} \subseteq DOMAIN r

\* The stream is one of these.
LEMMA IsReadShaped ==
  ASSUME NEW r, ReadableInv(r) PROVE ReadShaped(r)
BY DEF ReadShaped, ReadableInv, ReadableType, ReadableStreams

\* readableStreamDefaultControllerCallPullIfNeeded().
LEMMA CallsPullAs ==
  ASSUME NEW r, ReadShaped(r)
  PROVE  Pulling(r, readableStreamDefaultControllerCallPullIfNeeded(r))
<1> DEFINE v == readableStreamDefaultControllerCallPullIfNeeded(r)
           a == Asserting(r, ~r.pullAgain /\ r.algorithms)
           p == [r EXCEPT !.pullAgain = TRUE]
           q == [a EXCEPT !.pull = "pending"]
<1>1. \/ v = r \/ v = p
      \/ v = q /\ CanEnqueue(r) /\ r.pull = "idle"
  BY DEF readableStreamDefaultControllerCallPullIfNeeded, CanEnqueue,
       readableStreamDefaultcontrollerShouldCallPull
<1>2. /\ p.state = r.state /\ p.closeRequested = r.closeRequested /\ p.pull = r.pull
      /\ p.cancel = r.cancel
  BY DEF ReadShaped
<1>3. /\ a.state = r.state /\ a.closeRequested = r.closeRequested
      /\ a.cancel = r.cancel /\ ReadShaped(a)
  BY DEF ReadShaped, Asserting
<1> HIDE DEF a
<1>4. /\ q.state = r.state /\ q.closeRequested = r.closeRequested /\ q.pull = "pending"
      /\ q.cancel = r.cancel
  BY <1>3 DEF ReadShaped
<1> HIDE DEF p, q, v
<1>5. CASE v = r BY <1>5 DEF Pulling, v
<1>6. CASE v = p
  BY <1>2, <1>6 DEF Pulling, CanEnqueue, readableStreamDefaultControllerCanCloseOrEnqueue, v
<1>7. CASE v = q /\ CanEnqueue(r) /\ r.pull = "idle"
  BY <1>4, <1>7 DEF Pulling, CanEnqueue, readableStreamDefaultControllerCanCloseOrEnqueue, v
<1> QED BY <1>1, <1>5, <1>6, <1>7

\* readableStreamClose().
LEMMA ClosesOnly ==
  ASSUME NEW r, ReadShaped(r)
  PROVE  LET v == readableStreamClose(r)
         IN /\ ReadShaped(v) /\ v.state = "closed" /\ v.pull = r.pull /\ v.cancel = r.cancel
<1> DEFINE a == Asserting(r, r.state = "readable")
           b == [a EXCEPT !.state = "closed"]
           s == SettleReads(b, Done)
           c == [s EXCEPT !.closed = Resolve(@)]
<1>1. ReadShaped(a) /\ a.pull = r.pull /\ a.cancel = r.cancel BY DEF ReadShaped, Asserting
<1>2. readableStreamClose(r) = b \/ readableStreamClose(r) = c BY Zenon DEF readableStreamClose
<1> HIDE DEF a
<1>3. ReadShaped(b) /\ b.pull = r.pull /\ b.cancel = r.cancel /\ b.state = "closed"
  BY <1>1 DEF ReadShaped
<1> HIDE DEF b
<1>4. ReadShaped(s) /\ s.pull = r.pull /\ s.cancel = r.cancel /\ s.state = "closed"
  <2> DEFINE x == [i \in DOMAIN b.reads |-> IF i \in Range(b.readRequests)
                                              THEN Done ELSE b.reads[i]]
  <2>1. s = [b EXCEPT !.reads = [i \in DOMAIN @ |-> IF i \in Range(b.readRequests)
                                            THEN Done ELSE @[i]], !.readRequests = <<>>]
    BY DEF SettleReads
  <2>2. s = [b EXCEPT !.reads = x, !.readRequests = <<>>] BY <2>1
  <2> HIDE DEF x, s
  <2> QED BY <1>3, <2>2 DEF ReadShaped
<1> HIDE DEF s
<1>5. ReadShaped(c) /\ c.pull = r.pull /\ c.cancel = r.cancel /\ c.state = "closed"
  BY <1>4 DEF ReadShaped
<1> QED BY <1>2, <1>3, <1>5

\* readableStreamDefaultControllerError() and readableStreamCancel().
LEMMA EndsReading ==
  ASSUME NEW r, ReadableInv(r)
  PROVE  /\ Pulling(r, readableStreamDefaultControllerError(r))
         /\ Pulling(r, readableStreamCancel(r))
BY ReadableErrors, ReadableCancels
   DEF Pulling, CanEnqueue, readableStreamDefaultControllerCanCloseOrEnqueue

\* readableStreamDefaultControllerClose().
LEMMA ClosesReading ==
  ASSUME NEW r, ReadableInv(r)
  PROVE  LET v == readableStreamDefaultControllerClose(r) IN Pulling(r, v) /\ ~CanEnqueue(v)
<1>1. ReadShaped(r) BY IsReadShaped
<1>2. CASE ~CanEnqueue(r)
  BY <1>2 DEF readableStreamDefaultControllerClose, CanEnqueue, Pulling
<1>3. CASE CanEnqueue(r) /\ r.queue = <<>>
  <2> DEFINE u == [r EXCEPT !.closeRequested = TRUE, !.algorithms = FALSE]
  <2>1. ReadShaped(u) /\ u.pull = r.pull /\ u.cancel = r.cancel BY <1>1 DEF ReadShaped
  <2>2. readableStreamDefaultControllerClose(r) = readableStreamClose(u)
    BY <1>3 DEF readableStreamDefaultControllerClose, CanEnqueue
  <2> HIDE DEF u
  <2> QED BY <2>1, <2>2, ClosesOnly
       DEF Pulling, CanEnqueue, readableStreamDefaultControllerCanCloseOrEnqueue
<1>4. CASE CanEnqueue(r) /\ r.queue # <<>>
  <2> DEFINE u == [r EXCEPT !.closeRequested = TRUE]
  <2>1. /\ u.closeRequested /\ u.state = r.state /\ u.pull = r.pull /\ u.cancel = r.cancel
    BY <1>1 DEF ReadShaped
  <2>2. readableStreamDefaultControllerClose(r) = u
    BY <1>4 DEF readableStreamDefaultControllerClose, CanEnqueue
  <2> HIDE DEF u
  <2> QED BY <2>1, <2>2
       DEF Pulling, CanEnqueue, readableStreamDefaultControllerCanCloseOrEnqueue
<1> QED BY <1>2, <1>3, <1>4

\* readableStreamDefaultControllerEnqueue().
LEMMA EnqueuesReading ==
  ASSUME NEW r, ReadableInv(r), CanEnqueue(r), NEW chunk, NEW size
  PROVE  Pulling(r, readableStreamDefaultControllerEnqueue(r, chunk, size))
<1> DEFINE a == Asserting(r, r.reader /\ r.readRequests # <<>>)
           f == [a EXCEPT !.reads[Head(r.readRequests)] = chunk, !.readRequests = Tail(@)]
           q == [r EXCEPT !.queue = Append(@, chunk)]
           v == readableStreamDefaultControllerEnqueue(r, chunk, size)
<1>1. ReadShaped(r) BY IsReadShaped
<1>2. \/ v = readableStreamDefaultControllerCallPullIfNeeded(f)
      \/ v = readableStreamDefaultControllerError(r)
      \/ v = readableStreamDefaultControllerCallPullIfNeeded(q)
  BY Zenon DEF readableStreamDefaultControllerEnqueue, CanEnqueue,
       readableStreamFulfillReadRequest
<1>3. /\ ReadShaped(q) /\ q.state = r.state /\ q.closeRequested = r.closeRequested
      /\ q.pull = r.pull /\ q.cancel = r.cancel
  BY <1>1 DEF ReadShaped
<1>4. /\ ReadShaped(a) /\ a.state = r.state /\ a.closeRequested = r.closeRequested
      /\ a.pull = r.pull /\ a.cancel = r.cancel
  BY <1>1 DEF ReadShaped, Asserting
<1> HIDE DEF a
<1>5. /\ ReadShaped(f) /\ f.state = r.state /\ f.closeRequested = r.closeRequested
      /\ f.pull = r.pull /\ f.cancel = r.cancel
  BY <1>4 DEF ReadShaped
<1> HIDE DEF f, q, v
<1>6. CASE v = readableStreamDefaultControllerCallPullIfNeeded(f)
  BY <1>5, <1>6, CallsPullAs
     DEF Pulling, CanEnqueue, readableStreamDefaultControllerCanCloseOrEnqueue, v
<1>7. CASE v = readableStreamDefaultControllerError(r) BY <1>7, EndsReading DEF v
<1>8. CASE v = readableStreamDefaultControllerCallPullIfNeeded(q)
  BY <1>3, <1>8, CallsPullAs
     DEF Pulling, CanEnqueue, readableStreamDefaultControllerCanCloseOrEnqueue, v
<1> QED BY <1>2, <1>6, <1>7, <1>8

\* readableStreamDefaultReaderRead().
LEMMA ReadsPulling ==
  ASSUME NEW r, ReadableInv(r)
  PROVE  Pulling(r, readableStreamDefaultReaderRead(r))
<1> DEFINE v == readableStreamDefaultReaderRead(r)
<1>1. ReadShaped(r) /\ r.state \in {"readable", "closed", "errored"}
  BY IsReadShaped, ReadableFields DEF ReadableInv
<1>2. CASE r.state # "readable"
  <2> DEFINE d == [r EXCEPT !.reads = Append(@, Done)]
             e == [r EXCEPT !.reads = Append(@, Failed)]
  <2>1. v = d \/ v = e BY <1>1, <1>2 DEF readableStreamDefaultReaderRead
  <2>2. /\ d.state = r.state /\ d.pull = r.pull /\ d.cancel = r.cancel
        /\ e.state = r.state /\ e.pull = r.pull /\ e.cancel = r.cancel
    BY <1>1 DEF ReadShaped
  <2> HIDE DEF d, e, v
  <2> QED BY <1>2, <2>1, <2>2
       DEF Pulling, CanEnqueue, readableStreamDefaultControllerCanCloseOrEnqueue, v
<1>3. CASE r.state = "readable"
  <2> DEFINE b == [r EXCEPT !.reads = Append(@, Pending)]
             request == Len(b.reads)
             a == Asserting(b, b.reader)
             q == [a EXCEPT !.readRequests = Append(@, request)]
             t == [b EXCEPT !.queue = Tail(@)]
             c == [t EXCEPT !.algorithms = FALSE]
             y == readableStreamClose(c)
             z == readableStreamDefaultControllerCallPullIfNeeded(t)
  <2>1. v = PullSteps(b) BY <1>3 DEF readableStreamDefaultReaderRead
  <2>2. \/ v = readableStreamDefaultControllerCallPullIfNeeded(q)
        \/ v = [y EXCEPT !.reads[request] = Head(b.queue)]
        \/ v = [z EXCEPT !.reads[request] = Head(b.queue)]
    <3> HIDE DEF b, v
    <3> QED BY Zenon, <2>1 DEF PullSteps
  <2>3. /\ ReadShaped(b) /\ b.state = r.state /\ b.closeRequested = r.closeRequested
        /\ b.pull = r.pull /\ b.cancel = r.cancel
    BY <1>1 DEF ReadShaped
  <2> HIDE DEF b, v
  <2>4. /\ ReadShaped(a) /\ a.state = r.state /\ a.closeRequested = r.closeRequested
        /\ a.pull = r.pull /\ a.cancel = r.cancel
    BY <2>3 DEF ReadShaped, Asserting
  <2> HIDE DEF a, request
  <2>5. /\ ReadShaped(q) /\ q.state = r.state /\ q.closeRequested = r.closeRequested
        /\ q.pull = r.pull /\ q.cancel = r.cancel
    BY <2>4 DEF ReadShaped
  <2>6. /\ ReadShaped(t) /\ t.state = r.state /\ t.closeRequested = r.closeRequested
        /\ t.pull = r.pull /\ t.cancel = r.cancel
    BY <2>3 DEF ReadShaped
  <2> HIDE DEF t, q
  <2>7. CASE v = readableStreamDefaultControllerCallPullIfNeeded(q)
    BY <2>5, <2>7, CallsPullAs
       DEF Pulling, CanEnqueue, readableStreamDefaultControllerCanCloseOrEnqueue, v
  <2>8. CASE v = [y EXCEPT !.reads[request] = Head(b.queue)]
    <3>1. ReadShaped(c) /\ c.pull = r.pull /\ c.cancel = r.cancel BY <2>6 DEF ReadShaped
    <3> HIDE DEF c
    <3>2. ReadShaped(y) /\ y.state = "closed" /\ y.pull = r.pull /\ y.cancel = r.cancel
      BY <3>1, ClosesOnly
    <3> HIDE DEF y
    <3>3. v.state = "closed" /\ v.pull = r.pull /\ v.cancel = r.cancel
      BY <2>8, <3>2 DEF ReadShaped
    <3> QED BY <3>3
         DEF Pulling, CanEnqueue, readableStreamDefaultControllerCanCloseOrEnqueue, v
  <2>9. CASE v = [z EXCEPT !.reads[request] = Head(b.queue)]
    <3>1. Pulling(t, z) BY <2>6, CallsPullAs
    <3>2. ReadShaped(z)
      BY <2>6 DEF ReadShaped, readableStreamDefaultControllerCallPullIfNeeded, Asserting
    <3> HIDE DEF z
    <3>3. /\ v.state = z.state /\ v.pull = z.pull /\ v.cancel = z.cancel
          /\ v.closeRequested = z.closeRequested
      BY <2>9, <3>2 DEF ReadShaped
    <3> QED BY <2>6, <3>1, <3>3
         DEF Pulling, CanEnqueue, readableStreamDefaultControllerCanCloseOrEnqueue, v
  <2> QED BY <2>2, <2>7, <2>8, <2>9
<1> QED BY <1>2, <1>3

\* The reaction to start().
LEMMA StartsPulling ==
  ASSUME NEW r, ReadableInv(r), r.start = "pending", NEW ok \in BOOLEAN
  PROVE  Pulling(r, ReadableStarts(r, ok))
<1>1. ReadShaped(r) BY IsReadShaped
<1>2. CASE ok
  <2> DEFINE a == Asserting(r, r.pull = "idle" /\ ~r.pullAgain)
             u == [a EXCEPT !.start = "resolved"]
  <2>1. ReadableStarts(r, ok) = readableStreamDefaultControllerCallPullIfNeeded(u)
    BY <1>2 DEF ReadableStarts
  <2>2. /\ ReadShaped(a) /\ a.state = r.state /\ a.closeRequested = r.closeRequested
        /\ a.pull = r.pull /\ a.cancel = r.cancel
    BY <1>1 DEF ReadShaped, Asserting
  <2> HIDE DEF a
  <2>3. /\ ReadShaped(u) /\ u.state = r.state /\ u.closeRequested = r.closeRequested
        /\ u.pull = r.pull /\ u.cancel = r.cancel
    BY <2>2 DEF ReadShaped
  <2> HIDE DEF u
  <2> QED BY <2>1, <2>3, CallsPullAs
       DEF Pulling, CanEnqueue, readableStreamDefaultControllerCanCloseOrEnqueue
<1>3. CASE ~ok
  <2> DEFINE u == readableStreamDefaultControllerError(r)
             v == [u EXCEPT !.start = "rejected"]
  <2>1. ReadableStarts(r, ok) = v BY <1>3 DEF ReadableStarts
  <2>2. /\ ReadShaped(u) /\ u.state # "readable" /\ u.pull = r.pull /\ u.cancel = r.cancel
    BY ReadableErrors, IsReadShaped
  <2> HIDE DEF u
  <2>3. v.state # "readable" /\ v.pull = r.pull /\ v.cancel = r.cancel
    BY <2>2 DEF ReadShaped
  <2> HIDE DEF v
  <2> QED BY <2>1, <2>3
       DEF Pulling, CanEnqueue, readableStreamDefaultControllerCanCloseOrEnqueue
<1> QED BY <1>2, <1>3

\* The reaction to pull().
LEMMA PullSettlesAs ==
  ASSUME NEW r, ReadableInv(r)
  PROVE  Pulled(r, PullSettles(r, TRUE))
<1> DEFINE u == [r EXCEPT !.pull = "idle", !.pullAgain = FALSE]
           w == [r EXCEPT !.pull = "idle"]
           v == PullSettles(r, TRUE)
<1>1. ReadShaped(r) BY IsReadShaped
<1>2. v = readableStreamDefaultControllerCallPullIfNeeded(u) \/ v = w BY DEF PullSettles
<1>3. /\ ReadShaped(u) /\ u.state = r.state /\ u.closeRequested = r.closeRequested
      /\ u.pull = "idle" /\ u.cancel = r.cancel
  BY <1>1 DEF ReadShaped
<1>4. /\ w.state = r.state /\ w.closeRequested = r.closeRequested
      /\ w.pull = "idle" /\ w.cancel = r.cancel
  BY <1>1 DEF ReadShaped
<1> HIDE DEF u, w, v
<1>5. CASE v = readableStreamDefaultControllerCallPullIfNeeded(u)
  <2>1. Pulling(u, v) BY <1>3, <1>5, CallsPullAs
  <2>2. v.cancel = u.cancel
    BY <1>3, <1>5 DEF ReadShaped, readableStreamDefaultControllerCallPullIfNeeded, Asserting
  <2> QED BY <1>3, <2>1, <2>2
       DEF Pulling, Pulled, CanEnqueue, readableStreamDefaultControllerCanCloseOrEnqueue, v
<1>6. CASE v = w
  BY <1>4, <1>6
     DEF Pulled, CanEnqueue, readableStreamDefaultControllerCanCloseOrEnqueue, v
<1> QED BY <1>2, <1>5, <1>6

\* The reaction to cancel().
LEMMA CancelSettlesAs ==
  ASSUME NEW r, ReadableInv(r), r.state # "readable", NEW ok \in BOOLEAN
  PROVE  Pulling(r, CancelSettles(r, ok))
<1> DEFINE v == CancelSettles(r, ok)
<1>1. ReadShaped(r) BY IsReadShaped
<1>2. v.state = r.state /\ v.pull = r.pull BY <1>1 DEF ReadShaped, CancelSettles
<1> HIDE DEF v
<1> QED BY <1>2
     DEF Pulling, CanEnqueue, readableStreamDefaultControllerCanCloseOrEnqueue, v

\* No operation but an enqueue() brings a chunk that was not there.
LEMMA KeepsUpTo ==
  ASSUME NEW r, ReadableInv(r), NEW v, SameOrEnded(r, v), NEW n \in Nat, UpTo(r, n)
  PROVE  UpTo(v, n)
<1>1. CASE Same(r, v) BY <1>1 DEF Same, UpTo
<1>2. CASE Ended(r, v)
  <2>1. \A i \in 1..Len(v.queue) : v.queue[i] <= n BY <1>2 DEF Ended
  <2> SUFFICES ASSUME NEW i \in 1..Len(v.reads) PROVE v.reads[i] <= n BY <2>1 DEF UpTo
  <2>2. i \in 1..Len(r.reads) /\ r.reads[i] <= n BY <1>2 DEF Ended, UpTo
  <2>3. v.reads[i] \in {Done, Failed} \/ v.reads[i] = r.reads[i] BY <1>2, <2>2 DEF Ended
  <2> QED BY <2>2, <2>3 DEF Done, Failed
<1> QED BY <1>1, <1>2 DEF SameOrEnded

\* A read() takes a chunk from the queue.
LEMMA ReadsUpTo ==
  ASSUME NEW r, ReadableInv(r), NEW v, ReadableInv(v), IsRead(r, v), NEW n \in Nat, UpTo(r, n)
  PROVE  UpTo(v, n)
<1>1. r.queue \in Seq(Numbers) /\ r.reads \in Seq(Outcomes) /\ v.reads \in Seq(Outcomes)
  BY ReadableFields DEF ReadableInv
<1>2. PICK o : /\ ReadAs(r, v, o)
               /\ o \in {Pending, Done, Failed} \/ (r.queue # <<>> /\ o = Head(r.queue))
  BY DEF IsRead
<1>3. o <= n
  <2>1. CASE o \in {Pending, Done, Failed} BY <2>1 DEF Pending, Done, Failed
  <2>2. CASE r.queue # <<>> /\ o = Head(r.queue)
    <3>1. Len(r.queue) > 0 /\ Head(r.queue) = r.queue[1] BY <1>1, <2>2, TailFacts
    <3>2. 1 \in 1..Len(r.queue) BY <1>1, <3>1
    <3> QED BY <2>2, <3>1, <3>2 DEF UpTo
  <2> QED BY <1>2, <2>1, <2>2
<1>4. ASSUME NEW i \in 1..Len(v.reads) PROVE v.reads[i] <= n
  <2>1. i \in 1..Len(r.reads) \/ i = Len(r.reads) + 1 BY <1>1, <1>2 DEF ReadAs
  <2> QED BY <1>2, <1>3, <2>1 DEF ReadAs, UpTo
<1>5. ASSUME NEW i \in 1..Len(v.queue) PROVE v.queue[i] <= n
  <2>1. CASE v.queue = r.queue BY <1>5, <2>1 DEF UpTo
  <2>2. CASE r.queue # <<>> /\ v.queue = Tail(r.queue)
    <3>1. /\ Len(v.queue) = Len(r.queue) - 1
          /\ \A j \in 1..(Len(r.queue) - 1) : v.queue[j] = r.queue[j + 1]
      BY <1>1, <2>2, TailFacts
    <3>2. Len(r.queue) \in Nat BY <1>1
    <3>3. i + 1 \in 1..Len(r.queue) /\ i \in 1..(Len(r.queue) - 1) BY <1>5, <3>1, <3>2
    <3>4. v.queue[i] = r.queue[i + 1] BY <3>1, <3>3
    <3> QED BY <3>3, <3>4 DEF UpTo
  <2> QED BY <2>1, <2>2 DEF IsRead
<1> QED BY <1>4, <1>5 DEF UpTo

\* An enqueue() brings one.
LEMMA EnqueuesUpTo ==
  ASSUME NEW r, ReadableInv(r), NEW n \in Nat, UpTo(r, n), NEW v, Enqueued(r, v, n + 1)
  PROVE  UpTo(v, n + 1)
<1>1. r.queue \in Seq(Numbers) /\ r.reads \in Seq(Outcomes) BY ReadableFields DEF ReadableInv
<1>2. /\ \A i \in 1..Len(r.queue) : r.queue[i] <= n + 1
      /\ \A i \in 1..Len(r.reads) : r.reads[i] <= n + 1
  <2>1. ASSUME NEW i \in 1..Len(r.queue) PROVE r.queue[i] <= n + 1
    <3>1. r.queue[i] \in Nat BY <1>1 DEF Numbers
    <3> QED BY <3>1 DEF UpTo
  <2>2. ASSUME NEW i \in 1..Len(r.reads) PROVE r.reads[i] <= n + 1
    <3>1. r.reads[i] \in Int BY <1>1 DEF Outcomes, Numbers, Pending, Done, Failed
    <3> QED BY <3>1 DEF UpTo
  <2> QED BY <2>1, <2>2
<1>3. CASE v.reads = r.reads /\ v.queue = Append(r.queue, n + 1)
  <2>1. n + 1 \in Numbers BY DEF Numbers
  <2>2. /\ Len(v.queue) = Len(r.queue) + 1 /\ v.queue[Len(r.queue) + 1] = n + 1
        /\ \A i \in 1..Len(r.queue) : v.queue[i] = r.queue[i]
    BY <1>1, <1>3, <2>1, AppendFacts
  <2>3. ASSUME NEW i \in 1..Len(v.queue) PROVE v.queue[i] <= n + 1
    <3>1. i \in 1..Len(r.queue) \/ i = Len(r.queue) + 1 BY <1>1, <2>2
    <3> QED BY <1>2, <2>2, <3>1
  <2> QED BY <1>2, <1>3, <2>3 DEF UpTo
<1>4. CASE v.queue = r.queue /\ v.reads = [r.reads EXCEPT ![Head(r.readRequests)] = n + 1]
  <2>1. ASSUME NEW i \in 1..Len(v.reads) PROVE v.reads[i] <= n + 1
    <3>1. i \in 1..Len(r.reads) /\ (v.reads[i] = r.reads[i] \/ v.reads[i] = n + 1)
      BY <1>1, <1>4
    <3> QED BY <1>2, <3>1
  <2> QED BY <1>2, <1>4, <2>1 DEF UpTo
<1> QED BY <1>3, <1>4 DEF Enqueued

-----------------------------------------------------------------------------
(* The algorithms of the transform stream. *)

\* The types of the fields.
LEMMA TransformFields ==
  ASSUME NEW t, t \in Transforms
  PROVE  /\ t.start \in {"pending", "resolved", "rejected"} /\ t.backpressure \in BOOLEAN
         /\ t.algorithms \in BOOLEAN /\ t.finish \in Promises
         /\ t.callback \in {"none", "flush", "abort", "cancel"}
         /\ t.called \in {"none", "write", "close", "abort"}
         /\ t.write \in {"none", "blocked", "woken", "transform", "failed"}
         /\ t.pull \in {"none", "blocked", "woken"} /\ t.cancelled \in BOOLEAN
         /\ t.enqueued \in 0..MaxEnqueues /\ t.threw \in SUBSET {"write", "abort", "cancel"}
         /\ t.unsized \in BOOLEAN /\ t.stale \in BOOLEAN /\ t.failed \in BOOLEAN
BY DEF Transforms

\* The three records as one.
LEMMA MadeFields ==
  ASSUME NEW r, NEW w, NEW t, NEW v
  PROVE  /\ Made(r, w, t).r = r /\ Made(r, w, t).w = w /\ Made(r, w, t).t = t
         /\ [Made(r, w, t) EXCEPT !.r = v] = Made(v, w, t)
         /\ [Made(r, w, t) EXCEPT !.w = v] = Made(r, v, t)
         /\ [Made(r, w, t) EXCEPT !.t = v] = Made(r, w, v)
BY DEF Made

\* The sink has been called as far as the writable side has it run.
SinkCalled(w, t) == w.sink # "none" => w.sink = t.called

\* A call of an algorithm leaves a finish promise that exists and its callback alone, and what it
\* makes of them belongs together; it ends neither side and moves no chunk.
Leaves(r, w, t, p, v, u) ==
  /\ t.finish # "none" =>
       u.finish = t.finish /\ u.callback = t.callback /\ (Abandoned(u) <=> Abandoned(t))
  /\ Finishing(t) => Finishing(u)
  /\ u.enqueued = t.enqueued /\ v.state = w.state /\ p.state = r.state
  /\ p.closeRequested = r.closeRequested /\ p.queue = r.queue /\ p.reads = r.reads

\* A call of the sink that throws: the stream never hears of it again.
LEMMA SinkForgotten ==
  ASSUME NEW w, WritableInv(w)
  PROVE  LET v == [w EXCEPT !.sink = "none"]
         IN /\ WritableInv(v) /\ v.writer = w.writer /\ v.writes = w.writes
            /\ v.state = w.state /\ v.sink = "none"
<1> DEFINE v == [w EXCEPT !.sink = "none"]
<1>1. WritableType(w) BY DEF WritableInv, ErrorInv
<1>2. WritableType(v) BY <1>1 DEF WritableType, WritableStreams
<1>3. SinkInv(v)
  BY <1>1 DEF WritableInv, ErrorInv, SinkInv, Open, WritableType, WritableStreams
<1>4. OrderInv(v) BY <1>1 DEF WritableInv, ErrorInv, OrderInv, WritableType, WritableStreams
<1>5. QueueInv(v)
  BY <1>1 DEF WritableInv, QueueInv, InFlight, CloseMark, WritableType, WritableStreams
<1>6. DeliveredInv(v)
  BY <1>1 DEF WritableInv, ErrorInv, DeliveredInv, WritableType, WritableStreams
<1>7. /\ v.writer = w.writer /\ v.writes = w.writes /\ v.state = w.state /\ v.sink = "none"
      /\ v.pendingAbortRequest = w.pendingAbortRequest
  BY <1>1 DEF WritableType, WritableStreams
<1> QED BY <1>2, <1>3, <1>4, <1>5, <1>6, <1>7 DEF WritableInv, ErrorInv

\* A call of the source that throws.
LEMMA CancelForgotten ==
  ASSUME NEW r, ReadableInv(r)
  PROVE  LET p == [r EXCEPT !.cancel = "none"]
         IN /\ ReadableInv(p) /\ p.reader = r.reader /\ p.state = r.state /\ p.pull = r.pull
            /\ p.closeRequested = r.closeRequested /\ p.cancel = "none"
            /\ p.queue = r.queue /\ p.reads = r.reads
<1> DEFINE p == [r EXCEPT !.cancel = "none"]
<1>1. ReadableType(r) BY DEF ReadableInv
<1>2. ReadableType(p) BY <1>1, Settled DEF ReadableType, ReadableStreams
<1>3. /\ SourceInv(p) /\ p.reader = r.reader /\ p.state = r.state /\ p.pull = r.pull
      /\ p.closeRequested = r.closeRequested /\ p.cancel = "none"
      /\ p.queue = r.queue /\ p.reads = r.reads
  BY <1>1 DEF ReadableInv, SourceInv, ReadableType, ReadableStreams
<1> QED BY <1>2, <1>3 DEF ReadableInv

\* What is due stays so when neither the flag, nor the pull, nor what the streams are changes.
SameSource(t, u) ==
  /\ u \in Transforms /\ ~u.failed /\ u.pull = t.pull /\ u.backpressure = t.backpressure
  /\ u.enqueued = t.enqueued

\* The sink is called if it is to be.
LEMMA CallsSink ==
  ASSUME NEW r, NEW w, NEW t, Due(r, w, t)
  PROVE  \E v, u : /\ CallSink(Made(r, w, t)) = Made(r, v, u)
                   /\ Due(r, v, u) /\ SinkCalled(v, u) /\ Leaves(r, w, t, r, v, u)
                   /\ u.pull = t.pull
<1> DEFINE x == Made(r, w, t)
           c == [t EXCEPT !.called = w.sink]
           y == Made(r, w, c)
           n == [w EXCEPT !.sink = "none"]
           yc == [x EXCEPT !.t.called = x.w.sink]
<1>1. /\ WritableInv(w) /\ t \in Transforms /\ t.failed = FALSE
      /\ w.sink \in {"none", "write", "close", "abort"}
  <2>1. WritableInv(w) /\ t \in Transforms /\ ~t.failed BY DEF Due, Sides
  <2>2. WritableType(w) BY <2>1 DEF WritableInv, ErrorInv
  <2> QED BY <2>1, <2>2, WritableFields, TransformFields
<1>2. x.w = w /\ x.t = t BY MadeFields
<1>3. yc = y BY DEF Made
<1>4. /\ x.w.sink = x.t.called => CallSink(x) = x
      /\ x.w.sink # x.t.called /\ x.w.sink = "none" => CallSink(x) = yc
      /\ x.w.sink # x.t.called /\ x.w.sink = "write" =>
           CallSink(x) = transformStreamDefaultSinkWriteAlgorithm(yc)
      /\ x.w.sink # x.t.called /\ x.w.sink = "close" =>
           CallSink(x) = transformStreamDefaultSinkCloseAlgorithm(yc)
      /\ x.w.sink # x.t.called /\ x.w.sink = "abort" =>
           CallSink(x) = transformStreamDefaultSinkAbortAlgorithm(yc)
  <2> HIDE DEF x
  <2> QED BY DEF CallSink
<1>5. /\ w.sink = t.called => CallSink(x) = x
      /\ w.sink # t.called /\ w.sink = "none" => CallSink(x) = y
      /\ w.sink # t.called /\ w.sink = "write" =>
           CallSink(x) = transformStreamDefaultSinkWriteAlgorithm(y)
      /\ w.sink # t.called /\ w.sink = "close" =>
           CallSink(x) = transformStreamDefaultSinkCloseAlgorithm(y)
      /\ w.sink # t.called /\ w.sink = "abort" =>
           CallSink(x) = transformStreamDefaultSinkAbortAlgorithm(y)
  BY Zenon, <1>2, <1>3, <1>4
<1>6. /\ SameSource(t, c) /\ c.called = w.sink /\ c.write = t.write
      /\ c.finish = t.finish /\ c.callback = t.callback /\ c.algorithms = t.algorithms
      /\ c.failed = FALSE /\ c.threw = t.threw
  BY <1>1 DEF Transforms, SameSource
<1>7. y.r = r /\ y.w = w /\ y.t = c BY MadeFields
<1> HIDE DEF x, y, c, yc
<1>8. ASSUME NEW v, NEW u, CallSink(x) = Made(r, v, u),
             SameSource(t, u), u.called = w.sink,
             WritableInv(v), v.writer = w.writer, v.writes = w.writes, v.state = w.state,
             v.sink \in {w.sink, "none"},
             u.write = t.write \/ (v.sink = "write" /\ w.sink = "write"),
             t.write # "none" => v.sink = w.sink /\ w.sink = "write",
             \/ /\ u.finish = t.finish /\ u.callback = t.callback
                /\ u.algorithms = t.algorithms /\ (Abandoned(u) <=> Abandoned(t))
             \/ /\ t.finish = "none" /\ u.finish = "pending"
                /\ \/ u.callback \in {"flush", "abort"} /\ (Abandoned(u) <=> Abandoned(t))
                   \/ u.callback = t.callback /\ Abandoned(u)
      PROVE  /\ CallSink(x) = Made(r, v, u)
             /\ Due(r, v, u) /\ SinkCalled(v, u) /\ Leaves(r, w, t, r, v, u)
             /\ u.pull = t.pull
  <2>1. Sides(r, v, u) BY <1>8 DEF Due, Sides, SameSource
  <2>2. SinkSide(v, u) BY <1>8 DEF Due, SinkSide
  <2>3. SourceSide(r, u) BY <1>8 DEF Due, SourceSide, SameSource
  <2>4. SinkDue(v, u) /\ PullDue(r, u) /\ SinkCalled(v, u)
    BY <1>8 DEF Due, SinkDue, PullDue, SameSource, SinkCalled
  <2>5. u.callback # "none" => u.finish = "pending" BY <1>8 DEF Due
  <2>6. Leaves(r, w, t, r, v, u) BY <1>8 DEF Due, Leaves, Finishing, SameSource
  <2> QED BY <1>8, <2>1, <2>2, <2>3, <2>4, <2>5, <2>6 DEF Due, SameSource
<1>9. CASE w.sink = t.called
  <2>1. CallSink(x) = Made(r, w, t) BY <1>5, <1>9 DEF x
  <2>2. t.write # "none" => w.sink = "write" BY DEF Due, SinkSide
  <2> QED BY <1>1, <1>8, <1>9, <2>1, <2>2 DEF SameSource, x
<1>10. CASE w.sink # t.called /\ w.sink = "none"
  <2>1. CallSink(x) = Made(r, w, c) BY <1>5, <1>10 DEF y
  <2>2. t.write # "none" => w.sink = "write" BY DEF Due, SinkSide
  <2> QED BY <1>1, <1>6, <1>8, <2>1, <2>2 DEF x, Abandoned
<1>11. t.write # "none" => w.sink = t.called BY DEF Due, SinkSide
<1>12. CASE w.sink # t.called /\ w.sink = "write"
  <2>1. w.state = "writable" BY <1>12 DEF Due, SinkDue
  <2>2. Asserting(y.t, y.w.state = "writable") = c
    BY <1>6, <1>7, <2>1 DEF Asserting, SameSource, Transforms
  <2>3. [y EXCEPT !.t = Asserting(@, y.w.state = "writable")] = y
    <3>1. [y EXCEPT !.t = c] = y BY MadeFields DEF y
    <3> QED BY Zenon, <2>2, <3>1
  <2>4. CallSink(x) = IF y.t.backpressure THEN [y EXCEPT !.t.write = "blocked"]
     ELSE IF ~y.t.algorithms THEN [Throws(y, "write") EXCEPT !.w.sink = "none"]
     ELSE transformStreamDefaultControllerPerformTransform(y)
    BY Zenon, <1>5, <1>12, <2>3 DEF transformStreamDefaultSinkWriteAlgorithm
  <2> DEFINE b == [c EXCEPT !.write = "blocked"]
             h == [c EXCEPT !.threw = @ \cup {"write"}]
             f == [c EXCEPT !.write = "transform"]
  <2>5. CASE y.t.backpressure
    <3>1. CallSink(x) = Made(r, w, b) BY <2>4, <2>5 DEF Made, y
    <3>2. /\ SameSource(t, b) /\ b.called = w.sink /\ b.finish = t.finish
          /\ b.callback = t.callback /\ b.algorithms = t.algorithms
          /\ (Abandoned(b) <=> Abandoned(t))
      BY <1>6 DEF Transforms, SameSource, Abandoned
    <3> HIDE DEF b
    <3> QED BY <1>1, <1>8, <1>11, <1>12, <3>1, <3>2 DEF x
  <2>6. CASE ~y.t.backpressure /\ ~y.t.algorithms
    <3>1. CallSink(x) = Made(r, n, h) BY <2>4, <2>6 DEF Made, y, Throws
    <3>2. /\ SameSource(t, h) /\ h.called = w.sink /\ h.finish = t.finish /\ h.write = t.write
          /\ h.callback = t.callback /\ h.algorithms = t.algorithms
          /\ (Abandoned(h) <=> Abandoned(t))
      BY <1>6 DEF Transforms, SameSource, Abandoned
    <3>3. /\ WritableInv(n) /\ n.writer = w.writer /\ n.writes = w.writes
          /\ n.state = w.state /\ n.sink = "none"
      BY <1>1, SinkForgotten
    <3> HIDE DEF h, n
    <3> QED BY <1>8, <1>11, <1>12, <3>1, <3>2, <3>3 DEF x
  <2>7. CASE ~y.t.backpressure /\ y.t.algorithms
    <3>1. CallSink(x) = Made(r, w, f)
      BY <2>4, <2>7 DEF Made, y, transformStreamDefaultControllerPerformTransform
    <3>2. /\ SameSource(t, f) /\ f.called = w.sink /\ f.finish = t.finish
          /\ f.callback = t.callback /\ f.algorithms = t.algorithms
          /\ (Abandoned(f) <=> Abandoned(t))
      BY <1>6 DEF Transforms, SameSource, Abandoned
    <3> HIDE DEF f
    <3> QED BY <1>1, <1>8, <1>11, <1>12, <3>1, <3>2 DEF x
  <2> QED BY <2>5, <2>6, <2>7
<1>13. ASSUME NEW k \in {"flush", "abort"}, t.finish = "none", w.sink # t.called,
              CallSink(x) = Finishes(y, k)
       PROVE  \E v, u : /\ CallSink(x) = Made(r, v, u)
                        /\ Due(r, v, u) /\ SinkCalled(v, u) /\ Leaves(r, w, t, r, v, u)
                        /\ u.pull = t.pull
  <2> DEFINE f == [c EXCEPT !.finish = "pending", !.callback = k, !.algorithms = FALSE]
  <2>1. CallSink(x) = Made(r, w, f)
    BY <1>13 DEF Finishes, transformStreamDefaultControllerClearAlgorithms, Made, y
  <2>2. /\ SameSource(t, f) /\ f.called = w.sink /\ f.finish = "pending" /\ f.write = t.write
        /\ f.callback = k /\ (Abandoned(f) <=> Abandoned(t))
    BY <1>6, <1>13, Settled DEF Transforms, SameSource, Abandoned
  <2> HIDE DEF f
  <2> QED BY <1>1, <1>8, <1>11, <1>13, <2>1, <2>2
<1>14. ASSUME w.sink # t.called, CallSink(x) = y
       PROVE  \E v, u : /\ CallSink(x) = Made(r, v, u)
                        /\ Due(r, v, u) /\ SinkCalled(v, u) /\ Leaves(r, w, t, r, v, u)
                        /\ u.pull = t.pull
  <2>1. CallSink(x) = Made(r, w, c) BY <1>14 DEF y
  <2> QED BY <1>1, <1>6, <1>8, <1>11, <1>14, <2>1 DEF Abandoned
<1>15. CASE w.sink # t.called /\ w.sink = "close"
  <2>1. CASE t.finish # "none"
    <3>1. CallSink(x) = y
      BY <1>5, <1>6, <1>7, <1>15, <2>1 DEF transformStreamDefaultSinkCloseAlgorithm
    <3> QED BY <1>14, <1>15, <3>1 DEF x
  <2>2. CASE t.finish = "none"
    <3>1. w.state = "writable" BY <1>15 DEF Due, SinkDue
    <3>2. t.algorithms BY <2>2, <3>1 DEF Due, SinkSide
    <3>3. Asserting(y.t, y.t.algorithms) = c
      BY <1>6, <1>7, <3>2, ZenonT(60) DEF Asserting, SameSource, Transforms
    <3>4. [y EXCEPT !.t = Asserting(@, @.algorithms)] = y
      <4>1. [y EXCEPT !.t = c] = y BY MadeFields DEF y
      <4> QED BY Zenon, <3>3, <4>1
    <3>5. CallSink(x) = Finishes(y, "flush")
      BY Zenon, <1>5, <1>6, <1>7, <1>15, <2>2, <3>4 DEF transformStreamDefaultSinkCloseAlgorithm
    <3> QED BY <1>13, <1>15, <2>2, <3>5 DEF x
  <2> QED BY <2>1, <2>2
<1>16. CASE w.sink # t.called /\ w.sink = "abort"
  <2>1. CASE t.finish # "none"
    <3>1. CallSink(x) = y
      BY <1>5, <1>6, <1>7, <1>16, <2>1 DEF transformStreamDefaultSinkAbortAlgorithm
    <3> QED BY <1>14, <1>16, <3>1 DEF x
  <2>2. CASE t.finish = "none" /\ t.algorithms
    <3>1. CallSink(x) = Finishes(y, "abort")
      BY <1>5, <1>6, <1>7, <1>16, <2>2 DEF transformStreamDefaultSinkAbortAlgorithm
    <3> QED BY <1>13, <1>16, <2>2, <3>1 DEF x
  <2>3. CASE t.finish = "none" /\ ~t.algorithms
    <3> DEFINE h == [c EXCEPT !.threw = @ \cup {"abort"}, !.finish = "pending"]
    <3>1. CallSink(x) = [Throws(y, "abort") EXCEPT !.t.finish = "pending", !.w.sink = "none"]
      BY <1>5, <1>6, <1>7, <1>16, <2>3 DEF transformStreamDefaultSinkAbortAlgorithm
    <3>2. CallSink(x) = Made(r, n, h) BY <3>1 DEF Made, y, Throws
    <3>3. /\ SameSource(t, h) /\ h.called = w.sink /\ h.finish = "pending"
          /\ h.write = t.write /\ h.callback = t.callback /\ Abandoned(h)
      BY <1>6, Settled DEF Transforms, SameSource, Abandoned
    <3>4. /\ WritableInv(n) /\ n.writer = w.writer /\ n.writes = w.writes
          /\ n.state = w.state /\ n.sink = "none"
      BY <1>1, SinkForgotten
    <3> HIDE DEF h, n
    <3> QED BY <1>8, <1>11, <1>16, <2>3, <3>2, <3>3, <3>4 DEF x
  <2> QED BY <2>1, <2>2, <2>3
<1> QED BY <1>1, <1>9, <1>10, <1>12, <1>15, <1>16 DEF x

\* A change of the flag wakes whoever waits for it.
Wake(p) == IF p = "blocked" THEN "woken" ELSE p
Flagged(t, b) == [t EXCEPT !.backpressure = b, !.write = Wake(@), !.pull = Wake(@)]

\* The fields after a change of the flag.
LEMMA FlaggedFields ==
  ASSUME NEW t \in Transforms, NEW b \in BOOLEAN
  PROVE  LET u == Flagged(t, b)
         IN /\ u \in Transforms /\ u.failed = t.failed /\ u.enqueued = t.enqueued
            /\ u.backpressure = b /\ u.write = Wake(t.write) /\ u.pull = Wake(t.pull)
            /\ u.called = t.called /\ u.algorithms = t.algorithms /\ u.finish = t.finish
            /\ u.callback = t.callback /\ u.threw = t.threw
<1> DEFINE k == Wake(t.write)
           l == Wake(t.pull)
<1>1. /\ k \in {"none", "blocked", "woken", "transform", "failed"}
      /\ l \in {"none", "blocked", "woken"}
  BY TransformFields DEF Wake
<1>2. Flagged(t, b) = [t EXCEPT !.backpressure = b, !.write = k, !.pull = l] BY DEF Flagged
<1> HIDE DEF k, l
<1>3. LET u == [t EXCEPT !.backpressure = b, !.write = k, !.pull = l]
      IN /\ u \in Transforms /\ u.failed = t.failed /\ u.enqueued = t.enqueued
         /\ u.backpressure = b /\ u.write = k /\ u.pull = l
         /\ u.called = t.called /\ u.algorithms = t.algorithms /\ u.finish = t.finish
         /\ u.callback = t.callback /\ u.threw = t.threw
  <2> DEFINE u == [t EXCEPT !.backpressure = b, !.write = k, !.pull = l]
  <2>1. u \in Transforms
    <3> DEFINE t1 == [t EXCEPT !.backpressure = b]
               t2 == [t1 EXCEPT !.write = k]
               t3 == [t2 EXCEPT !.pull = l]
    <3>1. u = t3 OBVIOUS
    <3>2. t1 \in Transforms BY DEF Transforms
    <3> HIDE DEF t1
    <3>3. t2 \in Transforms BY <1>1, <3>2 DEF Transforms
    <3> HIDE DEF t2
    <3>4. t3 \in Transforms BY <1>1, <3>3 DEF Transforms
    <3> QED BY Zenon, <3>1, <3>4
  <2>2. /\ u.failed = t.failed /\ u.enqueued = t.enqueued
        /\ u.backpressure = b /\ u.write = k /\ u.pull = l
        /\ u.called = t.called /\ u.algorithms = t.algorithms /\ u.finish = t.finish
        /\ u.callback = t.callback /\ u.threw = t.threw
    BY DEF Transforms
  <2> QED BY <2>1, <2>2
<1> QED BY Zenon, <1>2, <1>3 DEF k, l

\* transformStreamSetBackpressure().
LEMMA SetsFlag ==
  ASSUME NEW r, NEW w, NEW t \in Transforms, ~t.failed, NEW b, t.backpressure # b
  PROVE  transformStreamSetBackpressure(Made(r, w, t), b) = Made(r, w, Flagged(t, b))
<1> DEFINE x == Made(r, w, t)
           a == Asserting(t, t.backpressure # b)
<1>1. t.failed = FALSE BY TransformFields
<1>2. a = t BY <1>1 DEF Asserting, Transforms
<1>3. x.t = t BY MadeFields
<1>4. transformStreamSetBackpressure(x, b) = [x EXCEPT !.t = Flagged(t, b)]
  BY Zenon, <1>2, <1>3 DEF transformStreamSetBackpressure, Flagged, Wake
<1> QED BY <1>4, MadeFields

\* The source is pulled if it is to be: the flag is up then.
LEMMA CallsSource ==
  ASSUME NEW r, NEW w, NEW t, Due(r, w, t), SinkCalled(w, t)
  PROVE  \E u : /\ CallPull(Made(r, w, t)) = Made(r, w, u)
                /\ Called(r, w, u) /\ Leaves(r, w, t, r, w, u)
<1> DEFINE x == Made(r, w, t)
<1>1. t \in Transforms /\ ~t.failed BY DEF Due, Sides
<1>2. x.r = r /\ x.w = w /\ x.t = t BY MadeFields
<1>3. CASE ~(r.pull = "pending" /\ t.pull = "none")
  <2>1. CallPull(x) = x BY Zenon, <1>2, <1>3 DEF CallPull
  <2>2. Called(r, w, t) BY <1>3 DEF Called, SinkCalled
  <2> QED BY <2>1, <2>2 DEF Leaves
<1>4. CASE r.pull = "pending" /\ t.pull = "none"
  <2> DEFINE f == Flagged(t, FALSE)
             u == [f EXCEPT !.pull = "blocked"]
  <2>1. t.backpressure BY <1>4 DEF Due, PullDue, SourceSide
  <2>2. t.failed = FALSE BY <1>1, TransformFields
  <2>3. Asserting(x.t, x.t.backpressure) = t
    BY <1>1, <1>2, <2>1, <2>2 DEF Asserting, Transforms
  <2>4. [x EXCEPT !.t = Asserting(@, @.backpressure)] = x
    <3>1. [x EXCEPT !.t = t] = x BY MadeFields
    <3> HIDE DEF x
    <3> QED BY Zenon, <2>3, <3>1
  <2>5. CallPull(x) = [transformStreamSetBackpressure(x, FALSE) EXCEPT !.t.pull = "blocked"]
    BY Zenon, <1>2, <1>4, <2>4 DEF CallPull, transformStreamDefaultSourcePullAlgorithm
  <2>6. transformStreamSetBackpressure(x, FALSE) = Made(r, w, f)
    <3>1. t.backpressure # FALSE BY <2>1
    <3> QED BY <1>1, <3>1, SetsFlag
  <2>7. CallPull(x) = Made(r, w, u)
    <3> HIDE DEF x, f
    <3>1. [Made(r, w, f) EXCEPT !.t.pull = "blocked"] = Made(r, w, u) BY DEF Made
    <3> QED BY Zenon, <2>5, <2>6, <3>1
  <2>8. /\ u \in Transforms /\ ~u.failed /\ u.enqueued = t.enqueued
        /\ u.backpressure = FALSE /\ u.write = Wake(t.write) /\ u.pull = "blocked"
        /\ u.called = t.called /\ u.algorithms = t.algorithms /\ u.finish = t.finish
        /\ u.callback = t.callback /\ u.threw = t.threw
    <3>1. /\ f \in Transforms /\ f.failed = t.failed /\ f.enqueued = t.enqueued
          /\ f.backpressure = FALSE /\ f.write = Wake(t.write)
          /\ f.called = t.called /\ f.algorithms = t.algorithms /\ f.finish = t.finish
          /\ f.callback = t.callback /\ f.threw = t.threw
      BY <1>1, FlaggedFields
    <3> HIDE DEF f
    <3> QED BY <1>1, <3>1 DEF Transforms
  <2> HIDE DEF u
  <2>9. Sides(r, w, u) BY <2>8 DEF Due, Sides
  <2>10. SinkSide(w, u) BY <2>8 DEF Due, SinkSide, Wake
  <2>11. SourceSide(r, u) BY <1>4, <2>8 DEF Due, SourceSide
  <2>12. SinkDue(w, u) /\ PullDue(r, u) BY <2>8 DEF Due, SinkDue, PullDue
  <2>13. Called(r, w, u)
    BY <2>8, <2>9, <2>10, <2>11, <2>12 DEF Due, Called, SinkCalled
  <2> QED BY <2>7, <2>8, <2>13 DEF Leaves, Finishing, Abandoned
<1> QED BY <1>3, <1>4

\* The source is cancelled if it is to be.
LEMMA CallsSourceCancel ==
  ASSUME NEW r, NEW w, NEW t, Called(r, w, t)
  PROVE  \E p, u : /\ CallCancel(Made(r, w, t)) = Made(p, w, u)
                   /\ Called(p, w, u) /\ Leaves(r, w, t, p, w, u)
<1> DEFINE x == Made(r, w, t)
           c == [t EXCEPT !.cancelled = TRUE]
           y == Made(r, w, c)
<1>1. t \in Transforms /\ ~t.failed /\ ReadableInv(r) BY DEF Called, Due, Sides
<1>2. x.r = r /\ x.t = t /\ y.r = r /\ y.t = c BY MadeFields
<1>3. /\ SameSource(t, c) /\ c.called = t.called /\ c.write = t.write
      /\ c.finish = t.finish /\ c.callback = t.callback /\ c.algorithms = t.algorithms
      /\ c.threw = t.threw
  BY <1>1 DEF Transforms, SameSource
<1>4. ASSUME NEW p, NEW u, CallCancel(x) = Made(p, w, u), r.cancel # "none",
             SameSource(t, u), u.called = t.called, u.write = t.write,
             ReadableInv(p), p.reader = r.reader, p.state = r.state, p.pull = r.pull,
             p.closeRequested = r.closeRequested, p.cancel \in {r.cancel, "none"},
             p.queue = r.queue, p.reads = r.reads,
             \/ /\ u.finish = t.finish /\ u.callback = t.callback
                /\ u.algorithms = t.algorithms /\ (Abandoned(u) <=> Abandoned(t))
             \/ /\ t.finish = "none" /\ u.finish = "pending"
                /\ \/ u.callback = "cancel" /\ (Abandoned(u) <=> Abandoned(t))
                   \/ u.callback = t.callback /\ Abandoned(u)
      PROVE  CallCancel(x) = Made(p, w, u) /\ Called(p, w, u) /\ Leaves(r, w, t, p, w, u)
  <2>1. Sides(p, w, u) BY <1>4 DEF Called, Due, Sides, SameSource
  <2>2. SinkSide(w, u) BY <1>4 DEF Called, Due, SinkSide
  <2>3. CanEnqueue(p) <=> CanEnqueue(r)
    BY <1>4 DEF CanEnqueue, readableStreamDefaultControllerCanCloseOrEnqueue
  <2>4. SourceSide(p, u) BY <1>4, <2>3 DEF Called, Due, Sides, SourceSide, SameSource
  <2>5. SinkDue(w, u) /\ PullDue(p, u)
    BY <1>4, <2>3 DEF Called, Due, SinkDue, PullDue, SameSource
  <2>6. u.callback # "none" => u.finish = "pending" BY <1>4 DEF Called, Due
  <2>7. Leaves(r, w, t, p, w, u) BY <1>4 DEF Called, Due, Leaves, Finishing, SameSource
  <2>8. /\ w.sink # "none" => w.sink = u.called
        /\ p.pull = "pending" => u.pull # "none"
    BY <1>4 DEF Called, SameSource
  <2> QED BY <1>4, <2>1, <2>2, <2>4, <2>5, <2>6, <2>7, <2>8 DEF Due, Called
<1>5. CASE ~(r.cancel = "pending" /\ ~t.cancelled)
  <2>1. CallCancel(x) = x BY Zenon, <1>2, <1>5 DEF CallCancel
  <2> QED BY <2>1 DEF Leaves
<1>6. CASE r.cancel = "pending" /\ ~t.cancelled
  <2>1. CallCancel(x) = transformStreamDefaultSourceCancelAlgorithm(y)
    <3>1. [x EXCEPT !.t.cancelled = TRUE] = y
      <4>1. PICK b \in BOOLEAN : b = TRUE OBVIOUS
      <4>2. [x EXCEPT !.t.cancelled = b] = Made(r, w, [t EXCEPT !.cancelled = b]) BY DEF Made
      <4> QED BY Zenon, <4>1, <4>2
    <3> QED BY Zenon, <1>2, <1>6, <3>1 DEF CallCancel
  <2> HIDE DEF x, y, c
  <2>2. CASE t.finish # "none"
    <3>1. CallCancel(x) = Made(r, w, c)
      BY <1>2, <1>3, <2>1, <2>2 DEF transformStreamDefaultSourceCancelAlgorithm, y
    <3> QED BY <1>1, <1>3, <1>4, <1>6, <3>1 DEF x, Abandoned
  <2>3. CASE t.finish = "none" /\ t.algorithms
    <3> DEFINE f == [c EXCEPT !.finish = "pending", !.callback = "cancel", !.algorithms = FALSE]
    <3>1. CallCancel(x) = Finishes(y, "cancel")
      BY <1>2, <1>3, <2>1, <2>3 DEF transformStreamDefaultSourceCancelAlgorithm
    <3>2. CallCancel(x) = Made(r, w, f)
      BY <3>1 DEF Finishes, transformStreamDefaultControllerClearAlgorithms, Made, y
    <3>3. /\ SameSource(t, f) /\ f.called = t.called /\ f.finish = "pending"
          /\ f.write = t.write /\ f.callback = "cancel" /\ (Abandoned(f) <=> Abandoned(t))
      BY <1>3, Settled DEF Transforms, SameSource, Abandoned
    <3> HIDE DEF f
    <3> QED BY <1>1, <1>4, <1>6, <2>3, <3>2, <3>3 DEF x
  <2>4. CASE t.finish = "none" /\ ~t.algorithms
    <3> DEFINE h == [c EXCEPT !.threw = @ \cup {"cancel"}, !.finish = "pending"]
               n == [r EXCEPT !.cancel = "none"]
    <3>1. CallCancel(x) = [Throws(y, "cancel") EXCEPT !.t.finish = "pending",
                                                      !.r.cancel = "none"]
      BY <1>2, <1>3, <2>1, <2>4 DEF transformStreamDefaultSourceCancelAlgorithm
    <3>2. CallCancel(x) = Made(n, w, h) BY <3>1 DEF Made, y, Throws
    <3>3. /\ SameSource(t, h) /\ h.called = t.called /\ h.finish = "pending"
          /\ h.write = t.write /\ h.callback = t.callback /\ Abandoned(h)
      BY <1>3, Settled DEF Transforms, SameSource, Abandoned
    <3>4. /\ ReadableInv(n) /\ n.reader = r.reader /\ n.state = r.state /\ n.pull = r.pull
          /\ n.closeRequested = r.closeRequested /\ n.cancel = "none"
          /\ n.queue = r.queue /\ n.reads = r.reads
      BY <1>1, CancelForgotten
    <3> HIDE DEF h, n
    <3> QED BY <1>4, <1>6, <2>4, <3>2, <3>3, <3>4 DEF x
  <2> QED BY <2>2, <2>3, <2>4
<1> QED BY <1>5, <1>6

\* Every algorithm that is to be called is.
LEMMA CallsAll ==
  ASSUME NEW r, NEW w, NEW t, Due(r, w, t)
  PROVE  \E p, v, u : /\ Calls(Made(r, w, t)) = Made(p, v, u)
                      /\ Called(p, v, u) /\ Leaves(r, w, t, p, v, u)
<1>1. PICK v1, u1 : /\ CallSink(Made(r, w, t)) = Made(r, v1, u1)
                    /\ Due(r, v1, u1) /\ SinkCalled(v1, u1) /\ Leaves(r, w, t, r, v1, u1)
  BY CallsSink
<1>2. PICK u2 : /\ CallPull(Made(r, v1, u1)) = Made(r, v1, u2)
                /\ Called(r, v1, u2) /\ Leaves(r, v1, u1, r, v1, u2)
  BY <1>1, CallsSource
<1>3. PICK p3, u3 : /\ CallCancel(Made(r, v1, u2)) = Made(p3, v1, u3)
                    /\ Called(p3, v1, u3) /\ Leaves(r, v1, u2, p3, v1, u3)
  BY <1>2, CallsSourceCancel
<1>4. Calls(Made(r, w, t)) = Made(p3, v1, u3) BY Zenon, <1>1, <1>2, <1>3 DEF Calls
<1>5. Leaves(r, w, t, p3, v1, u3) BY <1>1, <1>2, <1>3 DEF Leaves
<1> QED BY <1>3, <1>4, <1>5

-----------------------------------------------------------------------------
(* Errors, and what the actions are made of. *)

\* transformStreamUnblockWrite(), once the readable side takes no chunks.
LEMMA UnblocksWrite ==
  ASSUME NEW r, NEW w, NEW t, Called(r, w, t), ~CanEnqueue(r)
  PROVE  \E u : /\ transformStreamUnblockWrite(Made(r, w, t)) = Made(r, w, u)
                /\ Called(r, w, u) /\ Leaves(r, w, t, r, w, u)
<1> DEFINE x == Made(r, w, t)
           f == Flagged(t, FALSE)
<1>1. t \in Transforms /\ ~t.failed /\ x.t = t BY MadeFields DEF Called, Due, Sides
<1>2. CASE ~t.backpressure
  <2>1. transformStreamUnblockWrite(x) = x BY Zenon, <1>1, <1>2 DEF transformStreamUnblockWrite
  <2> QED BY <2>1 DEF Leaves
<1>3. CASE t.backpressure
  <2>1. transformStreamUnblockWrite(x) = transformStreamSetBackpressure(x, FALSE)
    BY Zenon, <1>1, <1>3 DEF transformStreamUnblockWrite
  <2>2. transformStreamSetBackpressure(x, FALSE) = Made(r, w, f)
    <3>1. t.backpressure # FALSE BY <1>3
    <3> QED BY <1>1, <3>1, SetsFlag
  <2>3. /\ f \in Transforms /\ ~f.failed /\ f.enqueued = t.enqueued
        /\ f.write = Wake(t.write) /\ f.pull = Wake(t.pull)
        /\ f.called = t.called /\ f.algorithms = t.algorithms /\ f.finish = t.finish
        /\ f.callback = t.callback /\ f.threw = t.threw
    BY <1>1, FlaggedFields
  <2> HIDE DEF f, x
  <2>4. Sides(r, w, f) BY <2>3 DEF Called, Due, Sides
  <2>5. SinkSide(w, f) BY <2>3 DEF Called, Due, SinkSide, Wake
  <2>6. SourceSide(r, f) BY <2>3 DEF Called, Due, SourceSide, Wake
  <2>7. SinkDue(w, f) /\ PullDue(r, f) BY <2>3 DEF Called, Due, SinkDue, PullDue, Wake
  <2>8. Called(r, w, f)
    BY <2>3, <2>4, <2>5, <2>6, <2>7 DEF Called, Due, Wake
  <2> QED BY <2>1, <2>2, <2>3, <2>8 DEF Leaves, Finishing, Abandoned, x
<1> QED BY <1>2, <1>3

\* A step of the writable side between two calls of the algorithms.
LEMMA WritableStep ==
  ASSUME NEW r, NEW w, NEW t, Called(r, w, t), NEW v, WritableInv(v), v.writer,
         Len(v.writes) <= MaxWrites, Holding(w, v)
  PROVE  Due(r, v, t)
<1>1. Sides(r, v, t) BY DEF Called, Due, Sides
<1>2. SinkSide(v, t) BY DEF Called, Due, SinkSide, Holding, Calling
<1>3. SinkDue(v, t) BY DEF Called, Due, SinkDue, Holding, Calling
<1> QED BY <1>1, <1>2, <1>3 DEF Called, Due

\* The same for the readable side.
LEMMA ReadableStep ==
  ASSUME NEW r, NEW w, NEW t, Called(r, w, t), NEW p, ReadableInv(p), p.reader,
         Pulling(r, p)
  PROVE  Due(p, w, t)
<1>1. Sides(p, w, t) BY DEF Called, Due, Sides, Pulling
<1>2. SourceSide(p, t) BY DEF Called, Due, SourceSide, Pulling
<1>3. PullDue(p, t) BY DEF Called, Due, PullDue, Pulling
<1> QED BY <1>1, <1>2, <1>3 DEF Called, Due

\* An action ends with the calls of the algorithms.
LEMMA Becoming ==
  ASSUME NEW r, NEW w, NEW t, Due(r, w, t), Finishing(t), UpTo(r, t.enqueued),
         Becomes(Made(r, w, t))
  PROVE  TransformInv'
<1>1. PICK p, v, u : /\ Calls(Made(r, w, t)) = Made(p, v, u)
                     /\ Called(p, v, u) /\ Leaves(r, w, t, p, v, u)
  BY CallsAll
<1>2. readable' = p /\ writable' = v /\ transform' = u BY <1>1, MadeFields DEF Becomes
<1>3. /\ Called(readable', writable', transform') /\ Finishing(transform')
      /\ UpTo(readable', transform'.enqueued)
  BY <1>1, <1>2 DEF Leaves, UpTo
<1> QED BY <1>3 DEF TransformInv, Called, Due, Sides, SinkSide, SourceSide, SinkDue, PullDue,
                    Finishing, Abandoned, CanEnqueue, UpTo

\* The error of the writable side alone, which keeps a write in flight.
LEMMA ErrorsWritable ==
  ASSUME NEW w, WritableInv(w)
  PROVE  LET v == writableStreamDefaultControllerErrorIfNeeded(w)
         IN /\ WritableInv(v) /\ v.writer = w.writer /\ Len(v.writes) = Len(w.writes)
            /\ Holding(w, v) /\ v.state # "writable"
<1>1. /\ ErrorInv(w)
      /\ w.state = "writable" => ~w.storedError /\ w.pendingAbortRequest = "none"
  BY DEF WritableInv, QueueInv
<1>2. Shaped(w) BY IsShaped
<1> QED BY <1>1, <1>2, ErrorsIfNeeded, ErrorsAs DEF Keeps, Retains

\* transformStreamErrorWritableAndUnblockWrite(), once the readable side takes no chunks.
LEMMA ErrorsAndUnblocks ==
  ASSUME NEW r, NEW w, NEW t, Due(r, w, t), SinkCalled(w, t), ~CanEnqueue(r), Finishing(t)
  PROVE  \E p, v, u : /\ transformStreamErrorWritableAndUnblockWrite(Made(r, w, t))
                           = Made(p, v, u)
                      /\ Called(p, v, u) /\ Finishing(u) /\ u.enqueued = t.enqueued
                      /\ p.queue = r.queue /\ p.reads = r.reads
<1> DEFINE v1 == writableStreamDefaultControllerErrorIfNeeded(w)
           t1 == [t EXCEPT !.algorithms = FALSE]
           x == Made(r, w, t)
<1>1. Called(r, w, t) BY DEF Called, SinkCalled, Due, PullDue
<1>2. /\ WritableInv(v1) /\ v1.writer /\ Len(v1.writes) <= MaxWrites /\ Holding(w, v1)
      /\ v1.state # "writable"
  BY ErrorsWritable DEF Due, Sides
<1>3. [x EXCEPT !.w = writableStreamDefaultControllerErrorIfNeeded(@)] = Made(r, v1, t)
  BY MadeFields
<1>4. transformStreamDefaultControllerClearAlgorithms(Made(r, v1, t)) = Made(r, v1, t1)
  <2> HIDE DEF v1
  <2>1. PICK b \in BOOLEAN : b = FALSE OBVIOUS
  <2>2. [Made(r, v1, t) EXCEPT !.t.algorithms = b] = Made(r, v1, [t EXCEPT !.algorithms = b])
    BY DEF Made
  <2> QED BY Zenon, <2>1, <2>2 DEF transformStreamDefaultControllerClearAlgorithms
<1>5. /\ t1 \in Transforms /\ ~t1.failed /\ t1.enqueued = t.enqueued
      /\ t1.write = t.write /\ t1.pull = t.pull /\ t1.backpressure = t.backpressure
      /\ t1.called = t.called /\ t1.finish = t.finish /\ t1.callback = t.callback
      /\ t1.threw = t.threw
  BY DEF Due, Sides, Transforms
<1> HIDE DEF v1, t1
<1>6. Due(r, v1, t) BY <1>1, <1>2, WritableStep
<1>7. Due(r, v1, t1)
  <2>1. Sides(r, v1, t1) BY <1>5, <1>6 DEF Due, Sides
  <2>2. SinkSide(v1, t1) BY <1>2, <1>5, <1>6 DEF Due, SinkSide
  <2>3. SourceSide(r, t1) BY <1>5, <1>6 DEF Due, SourceSide
  <2>4. SinkDue(v1, t1) /\ PullDue(r, t1) BY <1>5, <1>6 DEF Due, SinkDue, PullDue
  <2> QED BY <1>5, <1>6, <2>1, <2>2, <2>3, <2>4 DEF Due
<1>8. PICK p, v, u : /\ Calls(Made(r, v1, t1)) = Made(p, v, u)
                     /\ Called(p, v, u) /\ Leaves(r, v1, t1, p, v, u)
  BY <1>7, CallsAll
<1>9. ~CanEnqueue(p)
  BY <1>8 DEF Leaves, CanEnqueue, readableStreamDefaultControllerCanCloseOrEnqueue
<1>10. PICK u2 : /\ transformStreamUnblockWrite(Made(p, v, u)) = Made(p, v, u2)
                 /\ Called(p, v, u2) /\ Leaves(p, v, u, p, v, u2)
  BY <1>8, <1>9, UnblocksWrite
<1>11. transformStreamErrorWritableAndUnblockWrite(x) = Made(p, v, u2)
  BY Zenon, <1>3, <1>4, <1>8, <1>10 DEF transformStreamErrorWritableAndUnblockWrite
<1>12. Finishing(t1) BY <1>5 DEF Finishing, Abandoned
<1>13. /\ Finishing(u2) /\ u2.enqueued = t.enqueued
       /\ p.queue = r.queue /\ p.reads = r.reads
  BY <1>5, <1>8, <1>10, <1>12 DEF Leaves
<1> QED BY <1>10, <1>11, <1>13

\* transformStreamError().
LEMMA ErrorsBoth ==
  ASSUME NEW r, NEW w, NEW t, Called(r, w, t), Finishing(t), UpTo(r, t.enqueued)
  PROVE  \E p, v, u : /\ transformStreamError(Made(r, w, t)) = Made(p, v, u)
                      /\ Called(p, v, u) /\ Finishing(u) /\ UpTo(p, u.enqueued)
<1> DEFINE p1 == readableStreamDefaultControllerError(r)
           x == Made(r, w, t)
<1>1. ReadableInv(r) /\ r.reader /\ t.enqueued \in Nat
  BY TransformFields, TransformAssumption DEF Called, Due, Sides
<1>2. /\ ReadableInv(p1) /\ p1.reader = r.reader /\ SameOrEnded(r, p1) /\ Pulling(r, p1)
      /\ p1.state # "readable"
  BY <1>1, ReadableErrors, EndsReading
<1>3. [x EXCEPT !.r = readableStreamDefaultControllerError(@)] = Made(p1, w, t)
  BY MadeFields
<1> HIDE DEF p1
<1>4. UpTo(p1, t.enqueued) BY <1>1, <1>2, KeepsUpTo
<1>5. Due(p1, w, t) BY <1>1, <1>2, ReadableStep
<1>6. SinkCalled(w, t) /\ ~CanEnqueue(p1)
  BY <1>2 DEF Called, SinkCalled, CanEnqueue, readableStreamDefaultControllerCanCloseOrEnqueue
<1>7. transformStreamError(x) = transformStreamErrorWritableAndUnblockWrite(Made(p1, w, t))
  BY Zenon, <1>3 DEF transformStreamError
<1>8. PICK p, v, u : /\ transformStreamErrorWritableAndUnblockWrite(Made(p1, w, t))
                           = Made(p, v, u)
                     /\ Called(p, v, u) /\ Finishing(u) /\ u.enqueued = t.enqueued
                     /\ p.queue = p1.queue /\ p.reads = p1.reads
  BY <1>5, <1>6, ErrorsAndUnblocks
<1>9. UpTo(p, u.enqueued) BY <1>4, <1>8 DEF UpTo
<1> QED BY Zenon, <1>7, <1>8, <1>9

\* A change of the transform stream that leaves the flag, the pull and the sink's promise alone.
LEMMA TransformStep ==
  ASSUME NEW r, NEW w, NEW t, Called(r, w, t), NEW u, SameSource(t, u), u.called = t.called,
         t.write # "none" \/ u.write = t.write,
         u.algorithms = t.algorithms, u.finish = t.finish, u.callback = t.callback,
         u.threw = t.threw
  PROVE  Called(r, w, u) /\ (Finishing(t) => Finishing(u))
<1>1. Sides(r, w, u) BY DEF Called, Due, Sides, SameSource
<1>2. SinkSide(w, u) BY DEF Called, Due, SinkSide
<1>3. SourceSide(r, u) BY DEF Called, Due, SourceSide, SameSource
<1>4. SinkDue(w, u) /\ PullDue(r, u) BY DEF Called, Due, SinkDue, PullDue, SameSource
<1> QED BY <1>1, <1>2, <1>3, <1>4 DEF Called, Due, Finishing, Abandoned, SameSource

\* The state is the three records as one.
LEMMA NowIs ==
  Now = Made(readable, writable, transform)
BY DEF Now, Made

-----------------------------------------------------------------------------
(* The actions. *)

\* An action that changes the writable side only.
LEMMA ActsOnWritable ==
  ASSUME TransformInv, NEW v, WritableInv(v), v.writer, Len(v.writes) <= MaxWrites,
         Holding(writable, v), Becomes(Made(readable, v, transform))
  PROVE  TransformInv'
<1>1. Due(readable, v, transform) BY WritableStep DEF TransformInv
<1> QED BY <1>1, Becoming DEF TransformInv

\* The same for the readable side.
LEMMA ActsOnReadable ==
  ASSUME TransformInv, NEW p, ReadableInv(p), p.reader, UpTo(p, transform.enqueued),
         Pulling(readable, p), Becomes(Made(p, writable, transform))
  PROVE  TransformInv'
<1>1. Due(p, writable, transform) BY ReadableStep DEF TransformInv
<1> QED BY <1>1, Becoming DEF TransformInv

\* The two sides, as the invariant has them.
LEMMA SidesInv ==
  ASSUME TransformInv
  PROVE  /\ ReadableInv(readable) /\ readable.reader /\ UpTo(readable, transform.enqueued)
         /\ WritableInv(writable) /\ writable.writer /\ Len(writable.writes) <= MaxWrites
         /\ transform \in Transforms /\ ~transform.failed /\ transform.enqueued \in Nat
         /\ Len(writable.writes) \in Nat /\ readable.state \in {"readable", "closed", "errored"}
<1>1. /\ ReadableInv(readable) /\ WritableInv(writable) /\ transform \in Transforms
  BY DEF TransformInv, Called, Due, Sides
<1>2. transform.enqueued \in Nat BY <1>1, TransformFields, TransformAssumption
<1>3. writable.writes \in Seq(Promises) BY <1>1, WritableFields DEF WritableInv, ErrorInv
<1>4. readable.state \in {"readable", "closed", "errored"}
  BY <1>1, ReadableFields DEF ReadableInv
<1> QED BY <1>1, <1>2, <1>3, <1>4 DEF TransformInv, Called, Due, Sides

\* The history of the chunks and their sizes, and of the assertion that fails, is no part of
\* what is due.
LEMMA HistoryStep ==
  ASSUME NEW r, NEW w, NEW t, Called(r, w, t), NEW u \in Transforms, ~u.failed,
         u.pull = t.pull, u.backpressure = t.backpressure, u.called = t.called,
         u.write = t.write, u.algorithms = t.algorithms, u.finish = t.finish,
         u.callback = t.callback, u.threw = t.threw
  PROVE  Called(r, w, u) /\ (Finishing(t) => Finishing(u))
<1>1. Sides(r, w, u) BY DEF Called, Due, Sides
<1>2. SinkSide(w, u) /\ SinkDue(w, u) BY DEF Called, Due, SinkSide, SinkDue
<1>3. SourceSide(r, u) /\ PullDue(r, u) BY DEF Called, Due, SourceSide, PullDue
<1> QED BY <1>1, <1>2, <1>3 DEF Called, Due, Finishing, Abandoned

\* writer.write(): the sink is called only if the stream takes the chunk.
LEMMA WriteStep ==
  ASSUME TransformInv, Write PROVE TransformInv'
<1>1. PICK size \in {"one", "throws", "invalid"} :
        LET v == writableStreamDefaultWriterWrite(writable, size)
            fails == size # "one" /\ writable.algorithms /\ v.state # writable.state
        IN Becomes([Now EXCEPT !.w = v, !.t.unsized = @ \/ fails])
  BY DEF Write
<1> DEFINE v == writableStreamDefaultWriterWrite(writable, size)
           fails == size # "one" /\ writable.algorithms /\ v.state # writable.state
           b == transform.unsized \/ fails
           u == [transform EXCEPT !.unsized = b]
<1>2. [Now EXCEPT !.w = v, !.t.unsized = @ \/ fails] = Made(readable, v, u)
  <2>1. Now = Made(readable, writable, transform) /\ Now.t = transform BY NowIs, MadeFields
  <2> DEFINE x == Made(readable, writable, transform)
  <2>2. [Now EXCEPT !.w = v, !.t.unsized = @ \/ fails] = [x EXCEPT !.w = v, !.t.unsized = b]
    BY Zenon, <2>1
  <2> HIDE DEF v, b
  <2>3. [x EXCEPT !.w = v, !.t.unsized = b] = [[x EXCEPT !.w = v] EXCEPT !.t.unsized = b]
    BY DEF Made
  <2>4. [x EXCEPT !.w = v] = Made(readable, v, transform) BY MadeFields
  <2>5. [Made(readable, v, transform) EXCEPT !.t.unsized = b] = Made(readable, v, u)
    BY DEF Made
  <2> HIDE DEF x, u
  <2> QED BY Zenon, <2>2, <2>3, <2>4, <2>5
<1>3. Becomes(Made(readable, v, u)) BY Zenon, <1>1, <1>2
<1>4. Len(writable.writes) < MaxWrites BY DEF Write
<1>5. b \in BOOLEAN BY SidesInv, TransformFields
<1> HIDE DEF b
<1>6. /\ u \in Transforms /\ ~u.failed /\ u.pull = transform.pull
      /\ u.backpressure = transform.backpressure /\ u.called = transform.called
      /\ u.write = transform.write /\ u.algorithms = transform.algorithms
      /\ u.finish = transform.finish /\ u.callback = transform.callback
      /\ u.threw = transform.threw /\ u.enqueued = transform.enqueued
  BY <1>5, SidesInv DEF Transforms
<1> HIDE DEF u
<1>7. Called(readable, writable, u) /\ Finishing(u)
  BY <1>6, HistoryStep DEF TransformInv
<1>8. WritableInv(v) /\ v.writer /\ Len(v.writes) = Len(writable.writes) + 1
  BY SidesInv, WriterWrites
<1>9. Holding(writable, v) BY SidesInv, WritesAs
<1>10. Len(v.writes) <= MaxWrites BY <1>4, <1>8, SidesInv, TransformAssumption
<1> HIDE DEF v
<1>11. Due(readable, v, u) BY <1>7, <1>8, <1>9, <1>10, WritableStep
<1> QED BY <1>3, <1>6, <1>7, <1>11, SidesInv, Becoming

\* writer.close(): the sink is closed at once if nothing is queued.
LEMMA CloseStep ==
  ASSUME TransformInv, CloseWriter PROVE TransformInv'
<1> DEFINE v == close(writable)
<1>1. [Now EXCEPT !.w = close(@)] = Made(readable, v, transform) BY NowIs, MadeFields
<1>2. Becomes(Made(readable, v, transform)) BY <1>1 DEF CloseWriter
<1>3. WritableInv(v) /\ v.writer /\ Len(v.writes) = Len(writable.writes)
  BY SidesInv, Closes DEF Retains
<1>4. Holding(writable, v) BY SidesInv, ClosesAs DEF CloseWriter
<1> HIDE DEF v
<1> QED BY <1>2, <1>3, <1>4, SidesInv, ActsOnWritable

\* writer.abort(): a write that is in flight stays there.
LEMMA AbortStep ==
  ASSUME TransformInv, AbortWriter PROVE TransformInv'
<1> DEFINE v == writableStreamAbort(writable)
<1>1. [Now EXCEPT !.w = writableStreamAbort(@)] = Made(readable, v, transform)
  BY NowIs, MadeFields
<1>2. Becomes(Made(readable, v, transform)) BY <1>1 DEF AbortWriter
<1>3. WritableInv(v) /\ v.writer /\ Len(v.writes) = Len(writable.writes)
  BY SidesInv, Aborts DEF Keeps, Retains
<1>4. Holding(writable, v) BY SidesInv, IsShaped, AbortsAs DEF AbortWriter
<1> HIDE DEF v
<1> QED BY <1>2, <1>3, <1>4, SidesInv, ActsOnWritable

\* reader.read(): a pull it makes finds a stream that takes chunks.
LEMMA ReadStep ==
  ASSUME TransformInv, Read PROVE TransformInv'
<1> DEFINE p == readableStreamDefaultReaderRead(readable)
<1>1. [Now EXCEPT !.r = readableStreamDefaultReaderRead(@)] = Made(p, writable, transform)
  BY NowIs, MadeFields
<1>2. Becomes(Made(p, writable, transform)) BY <1>1 DEF Read
<1>3. ReadableInv(p) /\ IsRead(readable, p) BY SidesInv, Reads
<1>4. Pulling(readable, p) BY SidesInv, ReadsPulling
<1> HIDE DEF p
<1>5. UpTo(p, transform.enqueued) BY <1>3, SidesInv, ReadsUpTo
<1>6. p.reader BY <1>3, SidesInv DEF IsRead
<1> QED BY <1>2, <1>3, <1>4, <1>5, <1>6, ActsOnReadable

\* reader.cancel(): the source is not pulled any more.
LEMMA CancelStep ==
  ASSUME TransformInv, CancelReader PROVE TransformInv'
<1> DEFINE p == readableStreamCancel(readable)
<1>1. [Now EXCEPT !.r = readableStreamCancel(@)] = Made(p, writable, transform)
  BY NowIs, MadeFields
<1>2. Becomes(Made(p, writable, transform)) BY <1>1 DEF CancelReader
<1>3. ReadableInv(p) /\ SameOrEnded(readable, p) /\ p.reader = readable.reader
  BY SidesInv, ReadableCancels
<1>4. Pulling(readable, p) BY SidesInv, EndsReading
<1> HIDE DEF p
<1>5. UpTo(p, transform.enqueued) BY <1>3, SidesInv, KeepsUpTo
<1> QED BY <1>2, <1>3, <1>4, <1>5, SidesInv, ActsOnReadable

\* controller.error().
LEMMA ControllerErrorStep ==
  ASSUME TransformInv, ControllerError PROVE TransformInv'
<1>1. PICK p, v, u : /\ transformStreamError(Made(readable, writable, transform)) = Made(p, v, u)
                     /\ Called(p, v, u) /\ Finishing(u) /\ UpTo(p, u.enqueued)
  BY ErrorsBoth DEF TransformInv
<1>2. Becomes(Made(p, v, u)) BY Zenon, <1>1, NowIs DEF ControllerError
<1> QED BY <1>1, <1>2, Becoming DEF Called

\* controller.terminate(): the readable side takes no chunk, even if some are unread.
LEMMA TerminateStep ==
  ASSUME TransformInv, transformStreamDefaultControllerTerminate PROVE TransformInv'
<1> DEFINE p1 == readableStreamDefaultControllerClose(readable)
<1>1. [Now EXCEPT !.r = readableStreamDefaultControllerClose(@)]
        = Made(p1, writable, transform)
  BY NowIs, MadeFields
<1>2. /\ ReadableInv(p1) /\ SameOrEnded(readable, p1) /\ p1.reader
      /\ Pulling(readable, p1) /\ ~CanEnqueue(p1)
  BY SidesInv, ReadableCloses, ClosesReading
<1> HIDE DEF p1
<1>3. UpTo(p1, transform.enqueued) BY <1>2, SidesInv, KeepsUpTo
<1>4. Due(p1, writable, transform) BY <1>2, ReadableStep DEF TransformInv
<1>5. SinkCalled(writable, transform) /\ Finishing(transform)
  BY DEF TransformInv, Called, SinkCalled
<1>6. PICK p, v, u : /\ transformStreamErrorWritableAndUnblockWrite(
                          Made(p1, writable, transform)) = Made(p, v, u)
                     /\ Called(p, v, u) /\ Finishing(u) /\ u.enqueued = transform.enqueued
                     /\ p.queue = p1.queue /\ p.reads = p1.reads
  BY <1>2, <1>4, <1>5, ErrorsAndUnblocks
<1>7. Becomes(Made(p, v, u)) BY Zenon, <1>1, <1>6 DEF transformStreamDefaultControllerTerminate
<1>8. UpTo(p, u.enqueued) BY <1>3, <1>6 DEF UpTo
<1> QED BY <1>6, <1>7, <1>8, Becoming DEF Called

\* The promise of start() is settled, which nobody sees yet.
LEMMA StartSettlesStep ==
  ASSUME TransformInv, StartSettles PROVE TransformInv'
<1>1. PICK s \in {"resolved", "rejected"} : Becomes([Now EXCEPT !.t.start = s])
  BY DEF StartSettles
<1> DEFINE u == [transform EXCEPT !.start = s]
<1>2. [Now EXCEPT !.t.start = s] = Made(readable, writable, u) BY NowIs DEF Made
<1>3. /\ SameSource(transform, u) /\ u.called = transform.called /\ u.write = transform.write
      /\ u.algorithms = transform.algorithms /\ u.finish = transform.finish
      /\ u.callback = transform.callback /\ u.threw = transform.threw
  BY SidesInv DEF SameSource, Transforms
<1> HIDE DEF u
<1>4. Called(readable, writable, u) /\ Finishing(u) /\ UpTo(readable, u.enqueued)
  BY <1>3, TransformStep DEF TransformInv, SameSource
<1>5. Becomes(Made(readable, writable, u)) BY Zenon, <1>1, <1>2
<1> QED BY <1>4, <1>5, Becoming DEF Called

\* The writable side reacts to start().
LEMMA WritableStartedStep ==
  ASSUME TransformInv, WritableStarted PROVE TransformInv'
<1> DEFINE ok == transform.start = "resolved"
           v == WritableStarts(writable, ok)
<1>1. [Now EXCEPT !.w = WritableStarts(@, transform.start = "resolved")]
        = Made(readable, v, transform)
  BY NowIs, MadeFields
<1>2. Becomes(Made(readable, v, transform)) /\ ~writable.started
  BY <1>1 DEF WritableStarted
<1>3. ok \in BOOLEAN OBVIOUS
<1> HIDE DEF ok
<1>4. WritableInv(v) /\ v.writer /\ Len(v.writes) = Len(writable.writes)
  BY <1>2, <1>3, SidesInv, Starts DEF Keeps, Retains
<1>5. Holding(writable, v) BY <1>2, <1>3, SidesInv, StartedAs
<1> HIDE DEF v
<1> QED BY <1>2, <1>4, <1>5, SidesInv, ActsOnWritable

\* The readable side reacts to start().
LEMMA ReadableStartedStep ==
  ASSUME TransformInv, ReadableStarted PROVE TransformInv'
<1> DEFINE ok == transform.start = "resolved"
           p == ReadableStarts(readable, ok)
<1>1. [Now EXCEPT !.r = ReadableStarts(@, transform.start = "resolved")]
        = Made(p, writable, transform)
  BY NowIs, MadeFields
<1>2. Becomes(Made(p, writable, transform)) /\ readable.start = "pending"
  BY <1>1 DEF ReadableStarted
<1>3. ok \in BOOLEAN OBVIOUS
<1> HIDE DEF ok
<1>4. ReadableInv(p) /\ SameOrEnded(readable, p) /\ p.reader
  BY <1>2, <1>3, SidesInv, SourceStarted
<1>5. Pulling(readable, p) BY <1>2, <1>3, SidesInv, StartsPulling
<1> HIDE DEF p
<1>6. UpTo(p, transform.enqueued) BY <1>4, SidesInv, KeepsUpTo
<1> QED BY <1>2, <1>4, <1>5, <1>6, ActsOnReadable

\* The promise of the write in flight moves on.
LEMMA ActsOnWrite ==
  ASSUME TransformInv, transform.write # "none", NEW k \in {"transform", "failed"}
  PROVE  LET u == [transform EXCEPT !.write = k]
         IN Called(readable, writable, u) /\ Finishing(u) /\ UpTo(readable, u.enqueued)
<1> DEFINE u == [transform EXCEPT !.write = k]
<1>1. /\ SameSource(transform, u) /\ u.called = transform.called
      /\ u.algorithms = transform.algorithms /\ u.finish = transform.finish
      /\ u.callback = transform.callback /\ u.threw = transform.threw
  BY SidesInv DEF SameSource, Transforms
<1> HIDE DEF u
<1>2. Called(readable, writable, u) /\ Finishing(u) /\ UpTo(readable, u.enqueued)
  BY <1>1, TransformStep DEF TransformInv, SameSource
<1> QED BY <1>2 DEF u

\* A write that waited for the flag: with a write in flight the writable side is open or erroring.
LEMMA WriteWokenStep ==
  ASSUME TransformInv, WriteWoken PROVE TransformInv'
<1> DEFINE a == Asserting(transform, writable.state \in {"writable", "erroring"})
           x == [Now EXCEPT !.t = Asserting(@, writable.state \in {"writable", "erroring"})]
<1>1. transform.write # "none" BY DEF WriteWoken
<1>2. writable.sink = "write" BY <1>1 DEF TransformInv, Called, Due, SinkSide
<1>3. writable.state \in {"writable", "erroring"}
  BY <1>2, SidesInv DEF WritableInv, ErrorInv, SinkInv, Open
<1>4. a = transform
  <2>1. transform.failed = FALSE BY SidesInv, TransformFields
  <2> QED BY <1>3, <2>1, SidesInv DEF Asserting, Transforms
<1>5. x = Made(readable, writable, transform) BY <1>4, NowIs, MadeFields
<1>6. Becomes(IF writable.state = "erroring" \/ ~transform.algorithms
                THEN [x EXCEPT !.t.write = "failed"]
                ELSE transformStreamDefaultControllerPerformTransform(x))
  BY Zenon DEF WriteWoken
<1> HIDE DEF x
<1>7. \E k \in {"transform", "failed"} :
        Becomes(Made(readable, writable, [transform EXCEPT !.write = k]))
  <2>1. \E k \in {"transform", "failed"} : Becomes([x EXCEPT !.t.write = k])
    BY Zenon, <1>6 DEF transformStreamDefaultControllerPerformTransform
  <2>2. ASSUME NEW k
        PROVE  [x EXCEPT !.t.write = k] = Made(readable, writable, [transform EXCEPT !.write = k])
    BY <1>5 DEF Made
  <2> QED BY Zenon, <2>1, <2>2
<1>8. PICK k \in {"transform", "failed"} :
        Becomes(Made(readable, writable, [transform EXCEPT !.write = k]))
  BY <1>7
<1> DEFINE u == [transform EXCEPT !.write = k]
<1>9. Called(readable, writable, u) /\ Finishing(u) /\ UpTo(readable, u.enqueued)
  BY <1>1, ActsOnWrite
<1>10. Becomes(Made(readable, writable, u)) BY <1>8
<1> HIDE DEF u
<1> QED BY <1>9, <1>10, Becoming DEF Called

\* The sink's promise is settled: the next call is another one.
LEMMA ActsOnSink ==
  ASSUME TransformInv, NEW v, WritableInv(v), v.writer, Len(v.writes) <= MaxWrites,
         Calling(writable, v), v.sink \in {"write", "close"} => v.state = "writable",
         Becomes([SinkDone(Now) EXCEPT !.w = v])
  PROVE  TransformInv'
<1> DEFINE k == [transform EXCEPT !.write = "none"]
           u == [k EXCEPT !.called = "none"]
<1>1. [SinkDone(Now) EXCEPT !.w = v] = Made(readable, v, u)
  <2>1. SinkDone(Made(readable, writable, transform)) = Made(readable, writable, u)
    <3> DEFINE x == Made(readable, writable, transform)
    <3>1. SinkDone(x) = [[x EXCEPT !.t.write = "none"] EXCEPT !.t.called = "none"]
      BY DEF Made, SinkDone
    <3>2. [x EXCEPT !.t.write = "none"] = Made(readable, writable, k) BY DEF Made
    <3> HIDE DEF k
    <3>3. [Made(readable, writable, k) EXCEPT !.t.called = "none"]
            = Made(readable, writable, u)
      BY DEF Made
    <3> HIDE DEF x, u
    <3> QED BY Zenon, <3>1, <3>2, <3>3 DEF x
  <2>2. SinkDone(Now) = Made(readable, writable, u) BY Zenon, <2>1, NowIs
  <2> HIDE DEF u
  <2> QED BY <2>2, MadeFields
<1>2. /\ SameSource(transform, u) /\ u.called = "none" /\ u.write = "none"
      /\ u.algorithms = transform.algorithms /\ u.finish = transform.finish
      /\ u.callback = transform.callback /\ u.threw = transform.threw
  BY SidesInv DEF SameSource, Transforms
<1> HIDE DEF u
<1>3. Sides(readable, v, u) BY <1>2 DEF TransformInv, Called, Due, Sides, SameSource
<1>4. SinkSide(v, u) BY <1>2 DEF TransformInv, Called, Due, SinkSide, Calling
<1>5. SourceSide(readable, u) BY <1>2 DEF TransformInv, Called, Due, SourceSide, SameSource
<1>6. SinkDue(v, u) /\ PullDue(readable, u)
  BY <1>2 DEF TransformInv, Called, Due, SinkDue, PullDue, SameSource
<1>7. Due(readable, v, u) /\ Finishing(u) /\ UpTo(readable, u.enqueued)
  BY <1>2, <1>3, <1>4, <1>5, <1>6 DEF TransformInv, Called, Due, Finishing, Abandoned, SameSource
<1>8. Becomes(Made(readable, v, u)) BY Zenon, <1>1
<1> QED BY <1>7, <1>8, Becoming

\* The reaction to transform().
LEMMA TransformSettlesStep ==
  ASSUME TransformInv, TransformSettles PROVE TransformInv'
<1>1. /\ transform.write # "none" /\ writable.sink = "write"
      /\ writable.inFlightWriteRequest # 0
  BY SidesInv
     DEF TransformSettles, TransformInv, Called, Due, SinkSide, WritableInv, ErrorInv, SinkInv
<1>2. CASE Becomes([SinkDone(Now) EXCEPT !.w = SinkWriteFulfilled(@)])
  <2> DEFINE v == SinkWriteFulfilled(writable)
  <2>1. SinkDone(Now).w = writable BY NowIs DEF Made, SinkDone
  <2>2. [SinkDone(Now) EXCEPT !.w = SinkWriteFulfilled(@)] = [SinkDone(Now) EXCEPT !.w = v]
    BY <2>1
  <2>3. WritableInv(v) /\ v.writer /\ Len(v.writes) = Len(writable.writes)
    BY <1>1, SidesInv, WriteFulfilled DEF Keeps, Retains
  <2>4. Calling(writable, v) /\ (v.sink \in {"write", "close"} => v.state = "writable")
    BY <1>1, SidesInv, WriteFulfilledAs
  <2> HIDE DEF v
  <2>5. Becomes([SinkDone(Now) EXCEPT !.w = v]) BY Zenon, <1>2, <2>2
  <2> QED BY <2>3, <2>4, <2>5, SidesInv, ActsOnSink
<1>3. CASE Becomes(transformStreamError([Now EXCEPT !.t.write = "failed"]))
  <2> DEFINE u1 == [transform EXCEPT !.write = "failed"]
  <2>1. [Now EXCEPT !.t.write = "failed"] = Made(readable, writable, u1) BY NowIs DEF Made
  <2>2. Called(readable, writable, u1) /\ Finishing(u1) /\ UpTo(readable, u1.enqueued)
    BY <1>1, ActsOnWrite
  <2> HIDE DEF u1
  <2>3. PICK p, v, u : /\ transformStreamError(Made(readable, writable, u1)) = Made(p, v, u)
                       /\ Called(p, v, u) /\ Finishing(u) /\ UpTo(p, u.enqueued)
    BY <2>2, ErrorsBoth
  <2>4. Becomes(Made(p, v, u)) BY Zenon, <1>3, <2>1, <2>3
  <2> QED BY <2>3, <2>4, Becoming DEF Called
<1> QED BY <1>2, <1>3 DEF TransformSettles

\* A write that failed is rejected at the writable side.
LEMMA WriteFailsStep ==
  ASSUME TransformInv, WriteFails PROVE TransformInv'
<1> DEFINE v == SinkWriteRejected(writable)
<1>1. writable.inFlightWriteRequest # 0
  BY SidesInv
     DEF WriteFails, TransformInv, Called, Due, SinkSide, WritableInv, ErrorInv, SinkInv
<1>2. SinkDone(Now).w = writable BY NowIs DEF Made, SinkDone
<1>3. [SinkDone(Now) EXCEPT !.w = SinkWriteRejected(@)] = [SinkDone(Now) EXCEPT !.w = v]
  BY <1>2
<1>4. WritableInv(v) /\ v.writer /\ Len(v.writes) = Len(writable.writes)
  BY <1>1, SidesInv, WriteRejected DEF Keeps, Retains
<1>5. v.state # "writable" /\ v.sink \in {"none", "abort"} BY SidesInv, WriteRejectedAs
<1> HIDE DEF v
<1>6. Becomes([SinkDone(Now) EXCEPT !.w = v]) BY Zenon, <1>3 DEF WriteFails
<1>7. Calling(writable, v) BY <1>5 DEF Calling
<1> QED BY <1>4, <1>5, <1>6, <1>7, SidesInv, ActsOnSink

\* The sink's close() or abort() is settled as the finish promise is.
LEMMA SinkFinishesStep ==
  ASSUME TransformInv, SinkFinishes PROVE TransformInv'
<1> DEFINE ok == transform.finish = "resolved"
           v == SinkSettles(writable, ok)
<1>1. SinkDone(Now).w = writable BY NowIs DEF Made, SinkDone
<1>2. [SinkDone(Now) EXCEPT !.w = SinkSettles(@, transform.finish = "resolved")]
        = [SinkDone(Now) EXCEPT !.w = v]
  BY <1>1
<1>3. Becomes([SinkDone(Now) EXCEPT !.w = v]) /\ writable.sink \in {"close", "abort"}
  BY Zenon, <1>2 DEF SinkFinishes
<1>4. ok \in BOOLEAN OBVIOUS
<1> HIDE DEF ok
<1>5. WritableInv(v) /\ v.writer /\ Len(v.writes) = Len(writable.writes)
  BY <1>3, <1>4, SidesInv, Settles DEF Keeps, Retains
<1>6. v.state # "writable" /\ v.sink \in {"none", "abort"} BY <1>3, <1>4, SidesInv, SettlesAs
<1> HIDE DEF v
<1>7. Calling(writable, v) BY <1>6 DEF Calling
<1> QED BY <1>3, <1>5, <1>6, <1>7, SidesInv, ActsOnSink

\* The source's cancel() is settled as the finish promise is.
LEMMA SourceFinishesStep ==
  ASSUME TransformInv, SourceFinishes PROVE TransformInv'
<1> DEFINE ok == transform.finish = "resolved"
           p == CancelSettles(readable, ok)
<1>1. [Now EXCEPT !.r = CancelSettles(@, transform.finish = "resolved")]
        = Made(p, writable, transform)
  BY NowIs, MadeFields
<1>2. Becomes(Made(p, writable, transform)) BY <1>1 DEF SourceFinishes
<1>3. ok \in BOOLEAN OBVIOUS
<1>4. readable.state # "readable" BY DEF SourceFinishes, TransformInv, Called, Due, Sides
<1> HIDE DEF ok
<1>5. ReadableInv(p) /\ Same(readable, p) BY <1>3, SidesInv, CancelSettled
<1>6. Pulling(readable, p) BY <1>3, <1>4, SidesInv, CancelSettlesAs
<1> HIDE DEF p
<1>7. UpTo(p, transform.enqueued) /\ p.reader BY <1>5, SidesInv, KeepsUpTo DEF SameOrEnded, Same
<1> QED BY <1>2, <1>5, <1>6, <1>7, ActsOnReadable

\* The flag rose when the pull was woken, and stays up for the next pull.
LEMMA PullWokenStep ==
  ASSUME TransformInv, PullWoken PROVE TransformInv'
<1> DEFINE p == PullSettles(readable, TRUE)
           u == [transform EXCEPT !.pull = "none"]
<1>1. readable.pull = "pending" /\ transform.pull = "woken"
  BY DEF PullWoken, TransformInv, Called, Due, SourceSide
<1>2. ReadableInv(p) /\ SameOrEnded(readable, p) /\ p.reader
  <2>1. PICK b \in BOOLEAN : b = TRUE OBVIOUS
  <2>2. LET v == PullSettles(readable, b)
        IN ReadableInv(v) /\ SameOrEnded(readable, v) /\ v.reader = readable.reader
    BY <1>1, SidesInv, PullSettled
  <2> QED BY <2>1, <2>2, SidesInv
<1>3. Pulled(readable, p) BY SidesInv, PullSettlesAs
<1>4. [Now EXCEPT !.r = PullSettles(@, TRUE), !.t.pull = "none"] = Made(p, writable, u)
  <2>1. Now.r = readable /\ Now = Made(readable, writable, transform) BY NowIs, MadeFields
  <2>2. [Now EXCEPT !.r = PullSettles(@, TRUE), !.t.pull = "none"]
          = [Now EXCEPT !.r = p, !.t.pull = "none"]
    BY Zenon, <2>1
  <2> DEFINE x == Made(readable, writable, transform)
  <2> HIDE DEF p
  <2>3. [x EXCEPT !.r = p, !.t.pull = "none"] = [[x EXCEPT !.r = p] EXCEPT !.t.pull = "none"]
    BY DEF Made
  <2>4. [x EXCEPT !.r = p] = Made(p, writable, transform) BY MadeFields
  <2>5. [Made(p, writable, transform) EXCEPT !.t.pull = "none"] = Made(p, writable, u)
    BY DEF Made
  <2> HIDE DEF x, u
  <2> QED BY Zenon, <2>1, <2>2, <2>3, <2>4, <2>5 DEF x
<1>5. /\ u \in Transforms /\ ~u.failed /\ u.enqueued = transform.enqueued /\ u.pull = "none"
      /\ u.backpressure = transform.backpressure /\ u.called = transform.called
      /\ u.write = transform.write /\ u.algorithms = transform.algorithms
      /\ u.finish = transform.finish /\ u.callback = transform.callback
      /\ u.threw = transform.threw
  BY SidesInv DEF Transforms
<1> HIDE DEF p, u
<1>6. UpTo(p, u.enqueued) BY <1>2, <1>5, SidesInv, KeepsUpTo
<1>7. Sides(p, writable, u)
  BY <1>2, <1>3, <1>5 DEF TransformInv, Called, Due, Sides, Pulled
<1>8. SinkSide(writable, u) /\ SinkDue(writable, u)
  BY <1>5 DEF TransformInv, Called, Due, SinkSide, SinkDue
<1>9. SourceSide(p, u) /\ PullDue(p, u)
  BY <1>1, <1>3, <1>5 DEF TransformInv, Called, Due, SourceSide, PullDue, Pulled
<1>10. Due(p, writable, u) /\ Finishing(u)
  BY <1>5, <1>7, <1>8, <1>9 DEF TransformInv, Called, Due, Finishing, Abandoned
<1>11. Becomes(Made(p, writable, u)) BY Zenon, <1>4 DEF PullWoken
<1> QED BY <1>6, <1>10, <1>11, Becoming

\* The reaction of flush() or cancel() has the finish promise settled.
LEMMA FinishStep ==
  ASSUME NEW r, NEW w, NEW t, Due(r, w, t), NEW u, SameSource(t, u), u.called = t.called,
         u.write = t.write, u.algorithms = t.algorithms, u.callback = "none",
         u.finish = t.finish \/ u.finish # "none"
  PROVE  Due(r, w, u)
<1>1. Sides(r, w, u) BY DEF Due, Sides, SameSource
<1>2. SinkSide(w, u) BY DEF Due, SinkSide
<1>3. SourceSide(r, u) BY DEF Due, SourceSide, SameSource
<1>4. SinkDue(w, u) /\ PullDue(r, u) BY DEF Due, SinkDue, PullDue, SameSource
<1> QED BY <1>1, <1>2, <1>3, <1>4 DEF Due

\* The transform stream with the callback gone, and with the finish promise settled.
LEMMA FinishFields ==
  ASSUME NEW t \in Transforms, ~t.failed, NEW s \in {"resolved", "rejected"}
  PROVE  /\ LET u == [t EXCEPT !.callback = "none"]
            IN /\ SameSource(t, u) /\ u.called = t.called /\ u.write = t.write
               /\ u.algorithms = t.algorithms /\ u.callback = "none" /\ u.finish = t.finish
               /\ u.threw = t.threw
         /\ LET u == [t EXCEPT !.finish = s]
            IN /\ SameSource(t, u) /\ u.called = t.called /\ u.write = t.write
               /\ u.algorithms = t.algorithms /\ u.callback = t.callback /\ u.finish = s
               /\ u.threw = t.threw
BY Settled DEF SameSource, Transforms

\* flush(), or cancel() after an abort, ends the readable side.
LEMMA FinishesReading ==
  ASSUME TransformInv, transform.callback # "none",
         NEW p, ReadableInv(p), p.reader, SameOrEnded(readable, p),
         Pulling(readable, p), NEW s \in {"resolved", "rejected"},
         Becomes(Made(p, writable, [[transform EXCEPT !.callback = "none"] EXCEPT !.finish = s]))
  PROVE  TransformInv'
<1> DEFINE t0 == [transform EXCEPT !.callback = "none"]
           u == [t0 EXCEPT !.finish = s]
<1>1. /\ SameSource(transform, t0) /\ t0.called = transform.called
      /\ t0.write = transform.write /\ t0.algorithms = transform.algorithms
      /\ t0.callback = "none" /\ t0.threw = transform.threw
  BY SidesInv, FinishFields
<1>2. Becomes(Made(p, writable, u)) OBVIOUS
<1> HIDE DEF t0
<1>3. /\ SameSource(t0, u) /\ u.called = t0.called /\ u.write = t0.write
      /\ u.algorithms = t0.algorithms /\ u.callback = "none" /\ u.finish = s
      /\ u.threw = t0.threw
  <2>1. t0 \in Transforms /\ ~t0.failed BY <1>1 DEF SameSource
  <2> QED BY <1>1, <2>1, FinishFields, ZenonT(60)
<1> HIDE DEF u
<1>4. SameSource(transform, u) BY <1>1, <1>3 DEF SameSource
<1>5. Due(p, writable, transform) BY ReadableStep DEF TransformInv
<1>6. Due(p, writable, u) BY <1>1, <1>3, <1>4, <1>5, FinishStep
<1>7. UpTo(p, u.enqueued) BY <1>4, SidesInv, KeepsUpTo DEF SameSource
<1>8. Finishing(u) BY <1>1, <1>3 DEF TransformInv, Finishing, Abandoned
<1> QED BY <1>2, <1>6, <1>7, <1>8, Becoming

\* cancel() found the readable side ended, and errors the writable side.
LEMMA CancelFinishesStep ==
  ASSUME TransformInv, transform.callback = "cancel", NEW ok \in BOOLEAN,
         Becomes(CancelFinishes(
           Made(readable, writable, [transform EXCEPT !.callback = "none"]), ok))
  PROVE  TransformInv'
<1> DEFINE t0 == [transform EXCEPT !.callback = "none"]
           x == Made(readable, writable, t0)
           v1 == writableStreamDefaultControllerErrorIfNeeded(writable)
           s == IF ok THEN "resolved" ELSE "rejected"
<1>1. /\ SameSource(transform, t0) /\ t0.called = transform.called
      /\ t0.write = transform.write /\ t0.algorithms = transform.algorithms
      /\ t0.callback = "none" /\ t0.finish = transform.finish
      /\ t0.threw = transform.threw
  BY SidesInv, FinishFields
<1>2. Becomes(CancelFinishes(x, ok)) OBVIOUS
<1> HIDE DEF t0
<1>3. x.w = writable BY MadeFields
<1>4. transform.finish = "pending" /\ ~CanEnqueue(readable)
  BY DEF TransformInv, Called, Due, SourceSide, CanEnqueue,
         readableStreamDefaultControllerCanCloseOrEnqueue
<1>5. s \in {"resolved", "rejected"} OBVIOUS
<1>6. CASE ok /\ writable.state = "errored"
  <2> DEFINE u == [t0 EXCEPT !.finish = "rejected"]
  <2>1. CancelFinishes(x, ok) = [x EXCEPT !.t.finish = "rejected"]
    BY Zenon, <1>3, <1>6 DEF CancelFinishes
  <2>2. [x EXCEPT !.t.finish = "rejected"] = Made(readable, writable, u) BY DEF Made
  <2>3. Becomes(Made(readable, writable, u)) BY Zenon, <1>2, <2>1, <2>2
  <2>4. ReadableInv(readable) /\ Same(readable, readable) /\ Pulling(readable, readable)
    BY SidesInv DEF Same, Pulling
  <2> QED BY <2>3, <2>4, SidesInv, FinishesReading DEF SameOrEnded, t0
<1>7. CASE ~(ok /\ writable.state = "errored")
  <2>1. CancelFinishes(x, ok)
          = [transformStreamUnblockWrite(Calls(
               [x EXCEPT !.w = writableStreamDefaultControllerErrorIfNeeded(@)]))
               EXCEPT !.t.finish = s]
    BY Zenon, <1>3, <1>7 DEF CancelFinishes
  <2>2. [x EXCEPT !.w = writableStreamDefaultControllerErrorIfNeeded(@)]
          = Made(readable, v1, t0)
    BY MadeFields
  <2>3. /\ WritableInv(v1) /\ v1.writer /\ Len(v1.writes) <= MaxWrites /\ Holding(writable, v1)
    BY SidesInv, ErrorsWritable
  <2> HIDE DEF v1, s, x
  <2>4. Due(readable, v1, transform) BY <2>3, WritableStep DEF TransformInv
  <2>5. Due(readable, v1, t0) BY <1>1, <2>4, FinishStep
  <2>6. PICK p, v, u : /\ Calls(Made(readable, v1, t0)) = Made(p, v, u)
                       /\ Called(p, v, u) /\ Leaves(readable, v1, t0, p, v, u)
    BY <2>5, CallsAll
  <2>7. ~CanEnqueue(p)
    BY <1>4, <2>6 DEF Leaves, CanEnqueue, readableStreamDefaultControllerCanCloseOrEnqueue
  <2>8. PICK u2 : /\ transformStreamUnblockWrite(Made(p, v, u)) = Made(p, v, u2)
                  /\ Called(p, v, u2) /\ Leaves(p, v, u, p, v, u2)
    BY <2>6, <2>7, UnblocksWrite
  <2> DEFINE u3 == [u2 EXCEPT !.finish = s]
  <2>9. [Made(p, v, u2) EXCEPT !.t.finish = s] = Made(p, v, u3) BY DEF Made
  <2>10. u2.callback = "none" /\ u2.enqueued = transform.enqueued /\ ~Abandoned(u2)
    <3>1. ~Abandoned(t0) BY <1>1 DEF TransformInv, Finishing, Abandoned
    <3> QED BY <1>1, <1>4, <2>6, <2>8, <3>1 DEF Leaves, SameSource
  <2>11. u2 \in Transforms /\ ~u2.failed BY <2>8 DEF Called, Due, Sides
  <2>12. /\ SameSource(u2, u3) /\ u3.called = u2.called /\ u3.write = u2.write
         /\ u3.algorithms = u2.algorithms /\ u3.callback = u2.callback /\ u3.finish = s
         /\ u3.threw = u2.threw
    BY <1>5, <2>11, FinishFields
  <2> HIDE DEF u3
  <2>13. Due(p, v, u3) BY <1>5, <2>8, <2>10, <2>12, FinishStep DEF Called
  <2>14. Finishing(u3) BY <1>5, <2>10, <2>12 DEF Finishing, Abandoned
  <2>15. UpTo(p, u3.enqueued)
    BY <2>6, <2>8, <2>10, <2>12, SidesInv DEF Leaves, SameSource, UpTo
  <2>16. Becomes(Made(p, v, u3)) BY Zenon, <1>2, <2>1, <2>2, <2>6, <2>8, <2>9
  <2> QED BY <2>13, <2>14, <2>15, <2>16, Becoming
<1> QED BY <1>6, <1>7

\* The reaction to flush() or cancel() of the transformer.
LEMMA FinishSettlesStep ==
  ASSUME TransformInv, FinishSettles PROVE TransformInv'
<1> DEFINE t0 == [transform EXCEPT !.callback = "none"]
           x == Made(readable, writable, t0)
           p == readableStreamDefaultControllerError(readable)
           q == readableStreamDefaultControllerClose(readable)
<1>1. PICK ok \in BOOLEAN :
        LET y == [Now EXCEPT !.t.callback = "none"] IN
        Becomes(CASE transform.callback = "flush" -> FlushSettles(y, ok)
                  [] transform.callback = "abort" -> AbortSettles(y, ok)
                  [] transform.callback = "cancel" -> CancelFinishes(y, ok))
  BY DEF FinishSettles
<1>2. [Now EXCEPT !.t.callback = "none"] = x BY NowIs DEF Made
<1>3. transform.callback \in {"flush", "abort", "cancel"}
  BY SidesInv, TransformFields DEF FinishSettles
<1>4. x.r = readable BY MadeFields
<1>5. ASSUME NEW s
      PROVE  [x EXCEPT !.r = p, !.t.finish = s] = Made(p, writable, [t0 EXCEPT !.finish = s])
  <2> HIDE DEF p, t0
  <2>1. [x EXCEPT !.r = p, !.t.finish = s] = [[x EXCEPT !.r = p] EXCEPT !.t.finish = s]
    BY DEF Made
  <2>2. [x EXCEPT !.r = p] = Made(p, writable, t0) BY MadeFields
  <2>3. [Made(p, writable, t0) EXCEPT !.t.finish = s] = Made(p, writable, [t0 EXCEPT !.finish = s])
    BY DEF Made
  <2> HIDE DEF x
  <2> QED BY Zenon, <2>1, <2>2, <2>3
<1>6. ASSUME NEW s
      PROVE  [x EXCEPT !.r = q, !.t.finish = s] = Made(q, writable, [t0 EXCEPT !.finish = s])
  <2> HIDE DEF q, t0
  <2>1. [x EXCEPT !.r = q, !.t.finish = s] = [[x EXCEPT !.r = q] EXCEPT !.t.finish = s]
    BY DEF Made
  <2>2. [x EXCEPT !.r = q] = Made(q, writable, t0) BY MadeFields
  <2>3. [Made(q, writable, t0) EXCEPT !.t.finish = s] = Made(q, writable, [t0 EXCEPT !.finish = s])
    BY DEF Made
  <2> HIDE DEF x
  <2> QED BY Zenon, <2>1, <2>2, <2>3
<1>7. ReadableInv(p) /\ p.reader /\ SameOrEnded(readable, p) /\ Pulling(readable, p)
  BY SidesInv, ReadableErrors, EndsReading
<1>8. ReadableInv(q) /\ q.reader /\ SameOrEnded(readable, q) /\ Pulling(readable, q)
  BY SidesInv, ReadableCloses, ClosesReading
<1>9. ASSUME NEW s \in {"resolved", "rejected"},
             \/ Becomes(Made(p, writable, [t0 EXCEPT !.finish = s]))
             \/ Becomes(Made(q, writable, [t0 EXCEPT !.finish = s]))
      PROVE  TransformInv'
  <2> HIDE DEF p, q
  <2> QED BY <1>3, <1>7, <1>8, <1>9, FinishesReading
<1>10. CASE transform.callback = "flush"
  <2>1. Becomes(FlushSettles(x, ok)) BY Zenon, <1>1, <1>2, <1>10
  <2>2. \/ FlushSettles(x, ok) = Made(q, writable, [t0 EXCEPT !.finish = "resolved"])
        \/ FlushSettles(x, ok) = Made(p, writable, [t0 EXCEPT !.finish = "rejected"])
    <3> HIDE DEF x
    <3> QED BY Zenon, <1>4, <1>5, <1>6 DEF FlushSettles
  <2>3. \E s \in {"resolved", "rejected"} :
             \/ Becomes(Made(p, writable, [t0 EXCEPT !.finish = s]))
             \/ Becomes(Made(q, writable, [t0 EXCEPT !.finish = s]))
    BY Zenon, <2>1, <2>2
  <2> QED BY Zenon, <1>9, <2>3
<1>11. CASE transform.callback = "abort"
  <2> DEFINE s == IF ok /\ x.r.state # "errored" THEN "resolved" ELSE "rejected"
  <2>1. Becomes(AbortSettles(x, ok)) BY Zenon, <1>1, <1>2, <1>11
  <2>2. AbortSettles(x, ok) = Made(p, writable, [t0 EXCEPT !.finish = s])
    <3> HIDE DEF x
    <3> QED BY Zenon, <1>4, <1>5 DEF AbortSettles
  <2>3. s \in {"resolved", "rejected"} OBVIOUS
  <2> HIDE DEF s
  <2>4. Becomes(Made(p, writable, [t0 EXCEPT !.finish = s])) BY Zenon, <2>1, <2>2
  <2> QED BY Zenon, <1>9, <2>3, <2>4
<1>12. CASE transform.callback = "cancel"
  <2>1. Becomes(CancelFinishes(x, ok)) BY Zenon, <1>1, <1>2, <1>12
  <2> QED BY <1>12, <2>1, CancelFinishesStep
<1> QED BY <1>3, <1>10, <1>11, <1>12

\* enqueue(): the flag is raised when it is down, and the pull that waits for it is woken.
LEMMA RaisesFlag ==
  ASSUME NEW r, NEW w, NEW t, Called(r, w, t), Finishing(t), UpTo(r, t.enqueued), ~t.backpressure
  PROVE  \E u : /\ transformStreamSetBackpressure(Made(r, w, t), TRUE) = Made(r, w, u)
                /\ Called(r, w, u) /\ Finishing(u) /\ UpTo(r, u.enqueued)
<1> DEFINE u == Flagged(t, TRUE)
<1>1. t \in Transforms /\ ~t.failed BY DEF Called, Due, Sides
<1>2. t.backpressure # TRUE OBVIOUS
<1>3. transformStreamSetBackpressure(Made(r, w, t), TRUE) = Made(r, w, u)
  BY <1>1, <1>2, SetsFlag
<1>4. /\ u \in Transforms /\ ~u.failed /\ u.enqueued = t.enqueued /\ u.backpressure = TRUE
      /\ u.write = Wake(t.write) /\ u.pull = Wake(t.pull)
      /\ u.called = t.called /\ u.algorithms = t.algorithms /\ u.finish = t.finish
      /\ u.callback = t.callback /\ u.threw = t.threw
  BY <1>1, FlaggedFields
<1> HIDE DEF u
<1>5. Sides(r, w, u) BY <1>4 DEF Called, Due, Sides
<1>6. SinkSide(w, u) /\ SinkDue(w, u) BY <1>4 DEF Called, Due, SinkSide, SinkDue, Wake
<1>7. SourceSide(r, u) /\ PullDue(r, u) BY <1>4 DEF Called, Due, SourceSide, PullDue, Wake
<1>8. Called(r, w, u) BY <1>4, <1>5, <1>6, <1>7 DEF Called, Due, Wake
<1> QED BY <1>3, <1>4, <1>8 DEF Finishing, Abandoned

\* controller.enqueue(), in the course of which the source may be pulled.
LEMMA EnqueueStep ==
  ASSUME TransformInv, Enqueue PROVE TransformInv'
<1>1. PICK size \in {"one", "throws"} :
        Becomes(transformStreamDefaultControllerEnqueue(Now, size))
  BY DEF Enqueue
<1> DEFINE chunk == transform.enqueued + 1
           x == Made(readable, writable, transform)
           p1 == readableStreamDefaultControllerEnqueue(readable, chunk, size)
<1>2. /\ transform.enqueued \in Nat /\ chunk \in Numbers /\ chunk \in 0..MaxEnqueues
      /\ CanEnqueue(readable) /\ readable.state = "readable"
  BY SidesInv, TransformAssumption DEF Enqueue, Numbers, CanEnqueue,
       readableStreamDefaultControllerCanCloseOrEnqueue
<1>3. x.t = transform /\ Now = x BY NowIs, MadeFields
<1>4. [x EXCEPT !.r = readableStreamDefaultControllerEnqueue(@, x.t.enqueued + 1, size)]
        = Made(p1, writable, transform)
  BY <1>3, MadeFields
<1> HIDE DEF chunk
<1>5. /\ ReadableInv(p1) /\ p1.reader
      /\ Enqueued(readable, p1, chunk) \/ (Ended(readable, p1) /\ p1.state = "errored")
  BY <1>2, SidesInv, Enqueues DEF CanEnqueue
<1>6. Pulling(readable, p1) BY <1>2, SidesInv, EnqueuesReading
<1> HIDE DEF p1
<1>7. Due(p1, writable, transform) BY <1>5, <1>6, ReadableStep DEF TransformInv
<1>8. PICK p, v, u : /\ Calls(Made(p1, writable, transform)) = Made(p, v, u)
                     /\ Called(p, v, u) /\ Leaves(p1, writable, transform, p, v, u)
  BY <1>7, CallsAll
<1> DEFINE y == Made(p, v, u)
           backpressure == ~readableStreamDefaultcontrollerShouldCallPull(p)
           z == [y EXCEPT !.t.enqueued = chunk]
           e == [u EXCEPT !.enqueued = chunk]
<1>9. y.r = p BY MadeFields
<1>10. transformStreamDefaultControllerEnqueue(x, size)
         = CASE p.state = "errored" -> transformStreamErrorWritableAndUnblockWrite(y)
             [] p.state # "errored" /\ backpressure = z.t.backpressure -> z
             [] p.state # "errored" /\ backpressure # z.t.backpressure ->
                  IF backpressure THEN transformStreamSetBackpressure(z, TRUE)
                  ELSE [z EXCEPT !.t.stale = TRUE]
  <2> HIDE DEF y
  <2>1. Calls([x EXCEPT !.r = readableStreamDefaultControllerEnqueue(
                                @, x.t.enqueued + 1, size)]) = y
    BY Zenon, <1>4, <1>8 DEF y
  <2>2. x.t.enqueued + 1 = chunk BY <1>3 DEF chunk
  <2> HIDE DEF x
  <2> QED BY Zenon, <1>9, <2>1, <2>2 DEF transformStreamDefaultControllerEnqueue
<1>11. Finishing(u) /\ u.enqueued = transform.enqueued /\ p.state = p1.state
  BY <1>8 DEF Leaves, TransformInv
<1>12. u \in Transforms /\ ~u.failed BY <1>8 DEF Called, Due, Sides
<1>13. z = Made(p, v, e) BY DEF Made
<1>14. /\ e \in Transforms /\ ~e.failed /\ e.pull = u.pull /\ e.backpressure = u.backpressure
       /\ e.called = u.called /\ e.write = u.write /\ e.algorithms = u.algorithms
       /\ e.finish = u.finish /\ e.callback = u.callback /\ e.enqueued = chunk
       /\ e.threw = u.threw
  BY <1>2, <1>12 DEF Transforms
<1> HIDE DEF e
<1>15. Called(p, v, e) /\ Finishing(e) BY <1>8, <1>11, <1>14, HistoryStep
<1>16. z.t = e
  <2> HIDE DEF z
  <2> QED BY <1>13, MadeFields
<1>17. CASE p.state = "errored"
  <2>1. transformStreamDefaultControllerEnqueue(x, size)
          = transformStreamErrorWritableAndUnblockWrite(y)
    <3> HIDE DEF x, y, z, backpressure
    <3> QED BY <1>10, <1>17
  <2>2. Due(p, v, u) /\ SinkCalled(v, u) /\ ~CanEnqueue(p)
    BY <1>8, <1>17 DEF Called, SinkCalled, CanEnqueue,
         readableStreamDefaultControllerCanCloseOrEnqueue
  <2>3. PICK p2, v2, u2 :
          /\ transformStreamErrorWritableAndUnblockWrite(y) = Made(p2, v2, u2)
          /\ Called(p2, v2, u2) /\ Finishing(u2) /\ u2.enqueued = u.enqueued
          /\ p2.queue = p.queue /\ p2.reads = p.reads
    BY <1>11, <2>2, ErrorsAndUnblocks
  <2>4. Ended(readable, p1) BY <1>2, <1>5, <1>11, <1>17 DEF Enqueued
  <2>5. UpTo(p1, transform.enqueued) BY <2>4, SidesInv, KeepsUpTo DEF SameOrEnded
  <2>6. UpTo(p2, u2.enqueued) BY <1>8, <1>11, <2>3, <2>5 DEF Leaves, UpTo
  <2>7. Becomes(Made(p2, v2, u2)) BY Zenon, <1>1, <1>3, <2>1, <2>3
  <2> QED BY <2>3, <2>6, <2>7, Becoming DEF Called
<1>18. CASE p.state # "errored"
  <2>1. UpTo(p1, chunk)
    <3>1. Enqueued(readable, p1, transform.enqueued + 1)
      BY <1>5, <1>11, <1>18 DEF Ended, chunk
    <3>2. UpTo(p1, transform.enqueued + 1) BY <1>2, <3>1, SidesInv, EnqueuesUpTo
    <3> QED BY <3>2 DEF chunk
  <2>2. UpTo(p, e.enqueued) BY <1>8, <1>14, <2>1 DEF Leaves, UpTo
  <2>3. backpressure \in BOOLEAN /\ e.backpressure \in BOOLEAN BY <1>14, TransformFields
  <2> HIDE DEF backpressure
  <2>4. CASE backpressure = e.backpressure
    <3>1. transformStreamDefaultControllerEnqueue(x, size) = z
      <4> HIDE DEF x, y, z
      <4> QED BY <1>10, <1>16, <1>18, <2>4
    <3>2. Becomes(Made(p, v, e)) BY Zenon, <1>1, <1>3, <1>13, <3>1
    <3> QED BY <1>15, <2>2, <3>2, Becoming DEF Called
  <2>5. CASE backpressure # e.backpressure /\ backpressure
    <3>1. transformStreamDefaultControllerEnqueue(x, size)
            = transformStreamSetBackpressure(z, TRUE)
      <4> HIDE DEF x, y, z
      <4> QED BY <1>10, <1>16, <1>18, <2>5
    <3>2. ~e.backpressure BY <2>3, <2>5
    <3>3. PICK f : /\ transformStreamSetBackpressure(Made(p, v, e), TRUE) = Made(p, v, f)
                   /\ Called(p, v, f) /\ Finishing(f) /\ UpTo(p, f.enqueued)
      BY <1>15, <2>2, <3>2, RaisesFlag
    <3>4. Becomes(Made(p, v, f)) BY Zenon, <1>1, <1>3, <1>13, <3>1, <3>3
    <3> QED BY <3>3, <3>4, Becoming DEF Called
  <2>6. CASE backpressure # e.backpressure /\ ~backpressure
    <3> DEFINE f == [e EXCEPT !.stale = TRUE]
    <3>1. transformStreamDefaultControllerEnqueue(x, size) = [z EXCEPT !.t.stale = TRUE]
      <4> HIDE DEF x, y, z
      <4> QED BY <1>10, <1>16, <1>18, <2>6
    <3>2. [Made(p, v, e) EXCEPT !.t.stale = TRUE] = Made(p, v, f)
      <4>1. PICK b \in BOOLEAN : b = TRUE OBVIOUS
      <4>2. [Made(p, v, e) EXCEPT !.t.stale = b] = Made(p, v, [e EXCEPT !.stale = b])
        BY DEF Made
      <4> QED BY Zenon, <4>1, <4>2
    <3>3. Becomes(Made(p, v, f)) BY Zenon, <1>1, <1>3, <1>13, <3>1, <3>2
    <3>4. /\ f \in Transforms /\ ~f.failed /\ f.pull = e.pull
          /\ f.backpressure = e.backpressure /\ f.called = e.called /\ f.write = e.write
          /\ f.algorithms = e.algorithms /\ f.finish = e.finish /\ f.callback = e.callback
          /\ f.enqueued = e.enqueued /\ f.threw = e.threw
      BY <1>14 DEF Transforms
    <3> HIDE DEF f
    <3>5. Called(p, v, f) /\ Finishing(f) BY <1>15, <3>4, HistoryStep
    <3> QED BY <2>2, <3>3, <3>4, <3>5, Becoming DEF Called
  <2> QED BY <2>3, <2>4, <2>5, <2>6
<1> QED BY <1>17, <1>18

-----------------------------------------------------------------------------
(* The invariant holds in every state. *)

\* The streams as they are set up.
LEMMA TransformInit ==
  ASSUME Init PROVE TransformInv
<1>1. PICK h \in ReadableHWMs :
        readable = setUpReadableStreamDefaultReader(initializeReadableStream(h))
  BY DEF Init
<1>2. PICK g \in WritableHWMs :
        writable = setUpWritableStreamDefaultWriter(initializeWritableStream(g))
  BY DEF Init
<1>3. h \in Nat /\ g \in Nat /\ MaxWrites \in Nat /\ MaxEnqueues \in Nat BY TransformAssumption
<1>4. /\ ReadableInv(readable) /\ readable.reader /\ readable.queue = <<>>
      /\ readable.reads = <<>>
  BY <1>1, <1>3, ReadableInit, ReaderSetUp
<1>5. WritableInv(writable) /\ writable.writer /\ writable.writes = <<>>
  BY <1>2, <1>3, WritableInit, WriterSetUp
<1>6. readable.pull = "idle" /\ readable.cancel = "none"
  BY <1>1 DEF initializeReadableStream, setUpReadableStreamDefaultReader
<1>7. writable.sink = "none"
  BY <1>2 DEF initializeWritableStream, setUpWritableStreamDefaultWriter
<1>8. transform = initializeTransformStream BY DEF Init
<1>9. /\ transform \in Transforms /\ ~transform.failed /\ transform.algorithms
      /\ transform.write = "none" /\ transform.pull = "none" /\ transform.backpressure
      /\ transform.finish = "none" /\ transform.callback = "none" /\ transform.enqueued = 0
      /\ transform.threw = {}
  BY <1>3, <1>8, Settled DEF initializeTransformStream, Transforms
<1>10. Sides(readable, writable, transform) BY <1>3, <1>4, <1>5, <1>6, <1>9 DEF Sides
<1>11. SinkSide(writable, transform) /\ SinkDue(writable, transform)
  BY <1>7, <1>9 DEF SinkSide, SinkDue
<1>12. SourceSide(readable, transform) /\ PullDue(readable, transform)
  BY <1>6, <1>9 DEF SourceSide, PullDue
<1>13. UpTo(readable, transform.enqueued) BY <1>4 DEF UpTo
<1> QED BY <1>6, <1>7, <1>9, <1>10, <1>11, <1>12, <1>13
           DEF TransformInv, Called, Due, Finishing, Abandoned

\* The calls of the users and of the transformer, and the reactions.
LEMMA TransformNext ==
  ASSUME TransformInv, [Next]_vars PROVE TransformInv'
<1>1. CASE UNCHANGED vars
  BY <1>1 DEF vars, TransformInv, Called, Due, Sides, SinkSide, SourceSide, SinkDue, PullDue,
              Finishing, Abandoned, CanEnqueue, UpTo
<1>2. CASE Users
  BY <1>2, WriteStep, CloseStep, AbortStep, ReadStep, CancelStep DEF Users
<1>3. CASE Transformer
  BY <1>3, EnqueueStep, ControllerErrorStep, TerminateStep DEF Transformer
<1>4. CASE Reactions
  BY <1>4, StartSettlesStep, WritableStartedStep, ReadableStartedStep, WriteWokenStep,
     TransformSettlesStep, WriteFailsStep, FinishSettlesStep, SinkFinishesStep,
     SourceFinishesStep, PullWokenStep
     DEF Reactions
<1> QED BY <1>1, <1>2, <1>3, <1>4 DEF Next

-----------------------------------------------------------------------------
(* The theorems. *)

\* A readable stream knows no chunk but those that were enqueued.
LEMMA ReadableBounded ==
  ASSUME NEW r, ReadableInv(r), NEW n \in Nat, UpTo(r, n)
  PROVE  r \in ReadableStreams(1..n)
<1>1. r.queue \in Seq(Numbers) /\ r.reads \in Seq(Outcomes) /\ ReadableType(r)
  BY ReadableFields DEF ReadableInv
<1>2. r.queue \in Seq(1..n)
  <2>1. ASSUME NEW i \in 1..Len(r.queue) PROVE r.queue[i] \in 1..n
    <3>1. r.queue[i] \in Numbers /\ r.queue[i] <= n BY <1>1 DEF UpTo
    <3> QED BY <3>1 DEF Numbers
  <2>2. ElementsIn(r.queue, 1..n) BY <2>1 DEF ElementsIn
  <2> QED BY Zenon, <1>1, <2>2, SeqTyped
<1>3. r.reads \in Seq(1..n \cup {Pending, Done, Failed})
  <2>1. ASSUME NEW i \in 1..Len(r.reads) PROVE r.reads[i] \in 1..n \cup {Pending, Done, Failed}
    <3>1. r.reads[i] \in Outcomes /\ r.reads[i] <= n BY <1>1 DEF UpTo
    <3> QED BY <3>1 DEF Outcomes, Numbers
  <2>2. ElementsIn(r.reads, 1..n \cup {Pending, Done, Failed}) BY <2>1 DEF ElementsIn
  <2> QED BY Zenon, <1>1, <2>2, SeqTyped
<1> QED BY <1>1, <1>2, <1>3 DEF ReadableType, ReadableStreams

\* The flag of the backpressure tells, as long as the readable side takes chunks, whether
\* the source's pull waits for it to rise.
FlagExact == CanEnqueue(readable) => (transform.backpressure <=> transform.pull # "blocked")

\* The invariant implies the properties.
LEMMA TransformInvImplies ==
  TransformInv => TypeOK /\ NoAssertFails /\ FlagExact
<1> SUFFICES ASSUME TransformInv PROVE TypeOK /\ NoAssertFails /\ FlagExact OBVIOUS
<1>1. MaxWrites \in Nat /\ MaxEnqueues \in Nat BY TransformAssumption
<1>2. writable \in WritableStreams(1..MaxWrites) BY <1>1, SidesInv, WritableBounded
<1>3. transform.enqueued <= MaxEnqueues BY <1>1, SidesInv, TransformFields
<1>4. UpTo(readable, MaxEnqueues)
  <2>1. readable.queue \in Seq(Numbers) /\ readable.reads \in Seq(Outcomes)
    BY SidesInv, ReadableFields DEF ReadableInv
  <2>2. ASSUME NEW i \in 1..Len(readable.queue) PROVE readable.queue[i] <= MaxEnqueues
    <3>1. readable.queue[i] \in Nat BY <2>1 DEF Numbers
    <3>2. readable.queue[i] <= transform.enqueued BY SidesInv DEF UpTo
    <3> QED BY <1>1, <1>3, <3>1, <3>2, SidesInv
  <2>3. ASSUME NEW i \in 1..Len(readable.reads) PROVE readable.reads[i] <= MaxEnqueues
    <3>1. readable.reads[i] \in Int
      <4>1. readable.reads[i] \in Outcomes BY <2>1
      <4> QED BY <4>1 DEF Outcomes, Numbers, Pending, Done, Failed
    <3>2. readable.reads[i] <= transform.enqueued BY SidesInv DEF UpTo
    <3> QED BY <1>1, <1>3, <3>1, <3>2, SidesInv
  <2> QED BY <2>2, <2>3 DEF UpTo
<1>5. readable \in ReadableStreams(1..MaxEnqueues) BY <1>1, <1>4, SidesInv, ReadableBounded
<1>6. transform.finish = "pending" <=>
        (transform.callback # "none" \/ transform.threw \cap {"abort", "cancel"} # {})
  BY DEF TransformInv, Finishing, Abandoned
<1>7. TypeOK BY <1>2, <1>5, <1>6, SidesInv DEF TypeOK
<1>8. NoAssertFails
  BY SidesInv DEF NoAssertFails, ReadableInv, SourceInv, WritableInv, ErrorInv, SinkInv
<1>9. FlagExact BY DEF FlagExact, TransformInv, Called, Due, SourceSide
<1> QED BY <1>7, <1>8, <1>9

\* The state has its type, and the finish promise that close(), abort() and cancel() share is
\* pending just while flush() or cancel() of the transformer is, or for ever once the sink's
\* abort or the source's cancel algorithm threw.
THEOREM TransformTypeOK == Spec => []TypeOK
BY TransformInit, TransformNext, TransformInvImplies, PTL DEF Spec

\* No assert() of the two streams and of the transform stream fails, but the one of
\* transformStreamDefaultControllerEnqueue() that transform.stale records.
THEOREM TransformAsserts == Spec => []NoAssertFails
BY TransformInit, TransformNext, TransformInvImplies, PTL DEF Spec

\* While the readable side takes chunks, the flag is down just when the source's pull waits for
\* it to rise, so that transformStreamDefaultSourcePullAlgorithm() never finds it down.
THEOREM TransformFlag == Spec => []FlagExact
BY TransformInit, TransformNext, TransformInvImplies, PTL DEF Spec
=============================================================================
