---------------------------- MODULE StreamProofs -----------------------------
(***************************************************************************)
(* What the operators of WritableStream and ReadableStream keep, whoever   *)
(* calls them and in whatever order: no assertion of 06_streams.js fails,  *)
(* the sink is given the chunks in the order they were written in, and the *)
(* queues and requests of a stream agree with its state.                   *)
(***************************************************************************)
EXTENDS ReadableStream, TLAPS

Numbers == Nat \ {0}

-----------------------------------------------------------------------------
(* The writable stream. *)

Open(w) == w.state \in {"writable", "erroring"}
InFlight(w) == IF w.inFlightWriteRequest # 0 THEN 1 ELSE 0
CloseMark(w) == IF w.closeRequest THEN 1 ELSE 0

\* The sink has at most one promise outstanding, that of the request in flight; only
\* a started, open stream has one; an abort finds the sink's algorithm.
SinkInv(w) ==
  /\ w.failed = FALSE
  /\ w.inFlightWriteRequest # 0 =>
       /\ Open(w) /\ w.queue # <<>> /\ ~w.inFlightCloseRequest /\ w.started
       /\ w.inFlightWriteRequest = Len(w.sunk)
  /\ w.inFlightCloseRequest => Open(w) /\ ~w.closeRequest /\ w.started
  /\ w.sink = "write" => w.inFlightWriteRequest # 0
  /\ w.sink = "close" => w.inFlightCloseRequest
  /\ w.sink = "abort" => w.state = "errored"
  /\ ~w.started => Open(w)
  /\ w.writer /\ w.closed = "rejected" => w.state = "errored"
  /\ w.pendingAbortRequest = "fresh" => w.algorithms \/ w.inFlightCloseRequest

\* Chunks are numbered as they are written, and the sink gets them in this order: what
\* it has been given is a prefix, what it is to be given comes right after.
OrderInv(w) ==
  /\ \A i \in 1..Len(w.sunk) : w.sunk[i] = i
  /\ \A i \in 1..Len(w.writeRequests) : w.writeRequests[i] = Len(w.sunk) + i
  /\ Len(w.sunk) + Len(w.writeRequests) <= Len(w.writes)
  /\ \A i \in 1..Len(w.queue) : w.queue[i] <= Len(w.writes)

\* The queue of a stream without error: the chunk in flight, one chunk for each write
\* request, and the close sentinel after a close() that has not been processed.
QueueInv(w) ==
  w.state = "writable" =>
    /\ ~w.storedError /\ w.pendingAbortRequest = "none"
    /\ w.algorithms \/ w.inFlightCloseRequest
    /\ Len(w.queue) = InFlight(w) + Len(w.writeRequests) + CloseMark(w)
    /\ \A i \in 1..Len(w.queue) :
         w.queue[i] = IF i <= InFlight(w) + Len(w.writeRequests)
                        THEN Len(w.sunk) - InFlight(w) + i ELSE Close
    /\ ~w.closeRequest /\ ~w.inFlightCloseRequest =>
         Len(w.sunk) + Len(w.writeRequests) = Len(w.writes)
    /\ \A i \in 1..(Len(w.sunk) - InFlight(w)) : w.writes[i] = "resolved"

\* The sink is closed only after it has taken every chunk it was given.
DeliveredInv(w) ==
  /\ w.inFlightCloseRequest \/ w.state = "closed" =>
       /\ w.writeRequests = <<>>
       /\ \A i \in 1..Len(w.sunk) : w.writes[i] = "resolved"
  /\ w.close = "resolved" => w.state = "closed"

WritableType(w) == w \in WritableStreams(Numbers)

\* The invariant of a writable stream between two calls, and the part of it that holds
\* inside one while an error is dealt with.
ErrorInv(w) == WritableType(w) /\ SinkInv(w) /\ OrderInv(w) /\ DeliveredInv(w)
WritableInv(w) ==
  /\ ErrorInv(w) /\ QueueInv(w)
  /\ w.pendingAbortRequest # "none" => w.state = "erroring"

\* Neither writes nor takes the next chunk: what a caller may count on.
Closing(w) == w.state # "writable" \/ writableStreamCloseQueuedOrInFlight(w)

\* Nobody has closed the stream; and if a close succeeds, no write was turned down.
Unclosed(w) == ~writableStreamCloseQueuedOrInFlight(w) /\ w.state # "closed"
Prompt(w) ==
  w.state \in {"writable", "closed"} \/ w.inFlightCloseRequest =>
    Len(w.sunk) + Len(w.writeRequests) = Len(w.writes)

\* Operations other than write(), getWriter() and releaseLock() keep the writer and the
\* number of its writes, and none makes a stream that is closing take chunks again;
\* none but close() closes the stream.
Retains(w, v) ==
  /\ v.writer = w.writer /\ Len(v.writes) = Len(w.writes)
  /\ Closing(w) => Closing(v)
  /\ Prompt(w) => Prompt(v)
Keeps(w, v) == Retains(w, v) /\ (Unclosed(w) => Unclosed(v))

\* The types of the fields.
LEMMA WritableFields ==
  ASSUME NEW w, WritableType(w)
  PROVE  /\ w.state \in {"writable", "erroring", "errored", "closed"}
         /\ w.storedError \in BOOLEAN /\ w.started \in BOOLEAN /\ w.hwm \in Nat
         /\ w.queue \in Seq(Numbers \cup {Close}) /\ w.backpressure \in BOOLEAN
         /\ w.algorithms \in BOOLEAN /\ w.writeRequests \in Seq(Numbers)
         /\ w.inFlightWriteRequest \in Numbers \cup {0} /\ w.closeRequest \in BOOLEAN
         /\ w.inFlightCloseRequest \in BOOLEAN
         /\ w.pendingAbortRequest \in {"none", "fresh", "wasAlreadyErroring"}
         /\ w.writer \in BOOLEAN /\ w.ready \in Promises /\ w.closed \in Promises
         /\ w.writes \in Seq(Promises) /\ w.close \in Promises /\ w.abort \in Promises
         /\ w.sink \in {"none", "write", "close", "abort"}
         /\ w.sunk \in Seq(Numbers) /\ w.failed \in BOOLEAN
BY DEF WritableType, WritableStreams

\* Deferred.resolve and Deferred.reject.
LEMMA Settled ==
  /\ \A p \in Promises : Resolve(p) \in Promises /\ Reject(p) \in Promises
  /\ "none" \in Promises /\ "pending" \in Promises /\ "resolved" \in Promises
  /\ "rejected" \in Promises
BY DEF Resolve, Reject, Promises

\* The promises of the writes stay as many when some are rejected.
LEMMA WritesRejected ==
  ASSUME NEW s \in Seq(Promises), NEW R
  PROVE  /\ [i \in DOMAIN s |-> IF i \in R THEN "rejected" ELSE s[i]] \in Seq(Promises)
         /\ Len([i \in DOMAIN s |-> IF i \in R THEN "rejected" ELSE s[i]]) = Len(s)
<1>1. Len(s) \in Nat /\ DOMAIN s = 1..Len(s) /\ \A i \in 1..Len(s) : s[i] \in Promises
  OBVIOUS
<1>2. "rejected" \in Promises BY DEF Promises
<1> QED BY <1>1, <1>2

\* The first element of a sequence and the rest, and a sequence that is extended.
LEMMA TailFacts ==
  ASSUME NEW S, NEW s \in Seq(S), s # <<>>
  PROVE  /\ Len(s) > 0 /\ Head(s) = s[1] /\ Tail(s) \in Seq(S) /\ Len(Tail(s)) = Len(s) - 1
         /\ \A i \in 1..(Len(s) - 1) : Tail(s)[i] = s[i + 1]
         /\ Len(s) = 1 => Tail(s) = <<>>
<1>1. Len(s) > 0 /\ Head(s) = s[1] /\ Tail(s) \in Seq(S) /\ Len(Tail(s)) = Len(s) - 1
  OBVIOUS
<1>2. \A i \in 1..(Len(s) - 1) : Tail(s)[i] = s[i + 1] OBVIOUS
<1>3. \A t \in Seq(S) : Len(t) = 0 => t = <<>> OBVIOUS
<1> QED BY <1>1, <1>2, <1>3

\* A sequence that is extended at its end.
LEMMA AppendFacts ==
  ASSUME NEW S, NEW s \in Seq(S), NEW e \in S
  PROVE  /\ Append(s, e) \in Seq(S) /\ Len(Append(s, e)) = Len(s) + 1
         /\ \A i \in 1..Len(s) : Append(s, e)[i] = s[i]
         /\ Append(s, e)[Len(s) + 1] = e
OBVIOUS

\* The last part of an error, after the sink's abort() if there is one.
LEMMA RejectsClose ==
  ASSUME NEW w, ErrorInv(w), w.state = "errored", w.pendingAbortRequest = "none",
         w.sink = "none"
  PROVE  LET v == writableStreamRejectCloseAndClosedPromiseIfNeeded(w)
         IN WritableInv(v) /\ Keeps(w, v) /\ v.state = "errored"
<1> DEFINE v == writableStreamRejectCloseAndClosedPromiseIfNeeded(w)
<1>1. WritableType(w) BY DEF ErrorInv
<1>2. w.failed = FALSE /\ ~w.inFlightCloseRequest BY DEF ErrorInv, SinkInv, Open
<1>3. PICK c \in Promises, d \in Promises :
        /\ v = [w EXCEPT !.close = c, !.closeRequest = FALSE, !.closed = d]
        /\ c = "resolved" => w.close = "resolved"
  <2>1. Asserting(w, w.state = "errored" /\ (w.closeRequest => ~w.inFlightCloseRequest)) = w
    BY <1>1, <1>2 DEF Asserting, WritableType, WritableStreams
  <2> DEFINE c == IF w.closeRequest THEN Reject(w.close) ELSE w.close
  <2> DEFINE d == IF w.writer THEN Reject(w.closed) ELSE w.closed
  <2>2. c \in Promises /\ d \in Promises BY <1>1, WritableFields, Settled
  <2>3. v = [w EXCEPT !.close = c, !.closeRequest = FALSE, !.closed = d]
    BY <2>1 DEF writableStreamRejectCloseAndClosedPromiseIfNeeded
  <2>4. c = "resolved" => w.close = "resolved" BY DEF Reject
  <2> QED BY <2>2, <2>3, <2>4
<1> HIDE DEF v
<1>4. WritableType(v) BY <1>1, <1>3 DEF WritableType, WritableStreams
<1>5. SinkInv(v) BY <1>1, <1>2, <1>3 DEF ErrorInv, SinkInv, Open, WritableType, WritableStreams
<1>6. OrderInv(v) BY <1>1, <1>3 DEF ErrorInv, OrderInv, WritableType, WritableStreams
<1>7. v.state = "errored" /\ v.pendingAbortRequest = "none" /\ Keeps(w, v)
  BY <1>1, <1>3 DEF Keeps, Retains, Prompt, Unclosed, Closing, WritableType, WritableStreams,
         writableStreamCloseQueuedOrInFlight
<1>8. DeliveredInv(v)
  BY <1>1, <1>2, <1>3 DEF ErrorInv, DeliveredInv, WritableType, WritableStreams
<1>9. WritableInv(v) BY <1>4, <1>5, <1>6, <1>7, <1>8 DEF WritableInv, ErrorInv, QueueInv
<1> QED BY <1>7, <1>9 DEF v

\* The end of an error: nothing is in flight, and what waits is rejected.
LEMMA FinishesErroring ==
  ASSUME NEW w, ErrorInv(w), w.state = "erroring", w.started,
         w.inFlightWriteRequest = 0, ~w.inFlightCloseRequest
  PROVE  LET v == writableStreamFinishErroring(w)
         IN WritableInv(v) /\ Keeps(w, v) /\ v.state = "errored"
<1> DEFINE ws == [i \in DOMAIN w.writes |->
                    IF i \in Range(w.writeRequests) THEN "rejected" ELSE w.writes[i]]
           ra == Reject(w.abort)
           e == [w EXCEPT !.state = "errored", !.queue = <<>>, !.writes = ws,
                          !.writeRequests = <<>>, !.pendingAbortRequest = "none"]
           f == [w EXCEPT !.state = "errored", !.queue = <<>>, !.writes = ws,
                          !.writeRequests = <<>>, !.pendingAbortRequest = "none",
                          !.abort = ra]
           g == [w EXCEPT !.state = "errored", !.queue = <<>>, !.writes = ws,
                          !.writeRequests = <<>>, !.pendingAbortRequest = "none",
                          !.sink = "abort", !.algorithms = FALSE]
<1>1. WritableType(w) BY DEF ErrorInv
<1>2. w.failed = FALSE /\ w.sink = "none" BY <1>1, WritableFields DEF ErrorInv, SinkInv, Open
<1>3. Asserting(w, w.state = "erroring" /\ ~writableStreamHasOperationMarkedInFlight(w)) = w
  BY <1>1, <1>2 DEF Asserting, WritableType, WritableStreams,
       writableStreamHasOperationMarkedInFlight
<1>4. ws \in Seq(Promises) /\ Len(ws) = Len(w.writes) BY <1>1, WritableFields, WritesRejected
<1>5. ra \in Promises BY <1>1, WritableFields, Settled
<1> HIDE DEF ws, ra
<1>6. writableStreamFinishErroring(w) =
        CASE w.pendingAbortRequest = "none" ->
               writableStreamRejectCloseAndClosedPromiseIfNeeded(e)
          [] w.pendingAbortRequest = "wasAlreadyErroring" ->
               writableStreamRejectCloseAndClosedPromiseIfNeeded([e EXCEPT !.abort = Reject(@)])
          [] w.pendingAbortRequest = "fresh" ->
               writableStreamDefaultControllerClearAlgorithms(
                 Asserting([e EXCEPT !.sink = "abort"], e.algorithms))
  BY <1>3 DEF writableStreamFinishErroring, ws
<1>7. /\ WritableType(e) /\ WritableType(f) /\ WritableType(g)
  <2>1. <<>> \in Seq(Numbers) /\ <<>> \in Seq(Numbers \cup {Close}) OBVIOUS
  <2>2. WritableType(e) BY <1>1, <1>4, <2>1 DEF WritableType, WritableStreams
  <2>3. WritableType(f) BY <1>1, <1>4, <1>5, <2>1 DEF WritableType, WritableStreams
  <2>4. WritableType(g) BY <1>1, <1>4, <2>1 DEF WritableType, WritableStreams
  <2> QED BY <2>2, <2>3, <2>4
<1>8. /\ SinkInv(e) /\ SinkInv(f) /\ SinkInv(g)
  BY <1>1, <1>2 DEF ErrorInv, SinkInv, Open, WritableType, WritableStreams
<1>9. /\ OrderInv(e) /\ OrderInv(f) /\ OrderInv(g)
  BY <1>1, <1>4 DEF ErrorInv, OrderInv, WritableType, WritableStreams
<1>10. /\ DeliveredInv(e) /\ DeliveredInv(f) /\ DeliveredInv(g)
  <2>1. w.close # "resolved" BY DEF ErrorInv, DeliveredInv
  <2> QED BY <1>1, <2>1 DEF DeliveredInv, WritableType, WritableStreams
<1>11. CASE w.pendingAbortRequest = "none"
  <2>1. /\ e.state = "errored" /\ e.pendingAbortRequest = "none" /\ e.sink = "none"
        /\ Keeps(w, e)
    BY <1>1, <1>2, <1>4
      DEF WritableType, WritableStreams, Keeps, Retains, Prompt, Unclosed, Closing,
          writableStreamCloseQueuedOrInFlight
  <2>2. writableStreamFinishErroring(w) = writableStreamRejectCloseAndClosedPromiseIfNeeded(e)
    BY <1>6, <1>11
  <2> QED BY <1>7, <1>8, <1>9, <1>10, <2>1, <2>2, RejectsClose DEF ErrorInv, Keeps, Retains
<1>12. CASE w.pendingAbortRequest = "wasAlreadyErroring"
  <2>1. /\ f.state = "errored" /\ f.pendingAbortRequest = "none" /\ f.sink = "none"
        /\ Keeps(w, f)
    BY <1>1, <1>2, <1>4
      DEF WritableType, WritableStreams, Keeps, Retains, Prompt, Unclosed, Closing,
          writableStreamCloseQueuedOrInFlight
  <2>2. [e EXCEPT !.abort = Reject(@)] = f BY <1>1 DEF WritableType, WritableStreams, ra
  <2>3. writableStreamFinishErroring(w) = writableStreamRejectCloseAndClosedPromiseIfNeeded(f)
    BY <1>6, <1>12, <2>2
  <2> QED BY <1>7, <1>8, <1>9, <1>10, <2>1, <2>3, RejectsClose DEF ErrorInv, Keeps, Retains
<1>13. CASE w.pendingAbortRequest = "fresh"
  <2>1. /\ g.state = "errored" /\ g.pendingAbortRequest = "none" /\ Keeps(w, g)
    BY <1>1, <1>2, <1>4
      DEF WritableType, WritableStreams, Keeps, Retains, Prompt, Unclosed, Closing,
          writableStreamCloseQueuedOrInFlight
  <2>2. w.algorithms BY <1>13 DEF ErrorInv, SinkInv
  <2>3. writableStreamDefaultControllerClearAlgorithms(
                 Asserting([e EXCEPT !.sink = "abort"], e.algorithms)) = g
    BY <1>1, <1>2, <2>2 DEF WritableType, WritableStreams, Asserting,
         writableStreamDefaultControllerClearAlgorithms
  <2>4. writableStreamFinishErroring(w) = g BY <1>6, <1>13, <2>3
  <2> QED BY <1>7, <1>8, <1>9, <1>10, <2>1, <2>4 DEF WritableInv, ErrorInv, QueueInv
<1> QED BY <1>1, <1>11, <1>12, <1>13, WritableFields

\* An error begins, and ends at once when nothing is in flight.
LEMMA StartsErroring ==
  ASSUME NEW w, ErrorInv(w), w.state = "writable", ~w.storedError
  PROVE  LET v == writableStreamStartErroring(w)
         IN WritableInv(v) /\ Keeps(w, v) /\ v.state \in {"erroring", "errored"}
<1> DEFINE rd == IF w.writer THEN "rejected" ELSE w.ready
           e == [w EXCEPT !.state = "erroring", !.storedError = TRUE, !.ready = rd]
<1>1. WritableType(w) /\ w.failed = FALSE BY DEF ErrorInv, SinkInv
<1>2. rd \in Promises BY <1>1, WritableFields, Settled
<1>3. Asserting(w, ~w.storedError /\ w.state = "writable") = w
  BY <1>1 DEF Asserting, WritableType, WritableStreams
<1>4. writableStreamStartErroring(w) =
        IF ~writableStreamHasOperationMarkedInFlight(e) /\ e.started
          THEN writableStreamFinishErroring(e) ELSE e
  BY <1>3 DEF writableStreamStartErroring
<1> HIDE DEF rd
<1>5. WritableType(e) BY <1>1, <1>2 DEF WritableType, WritableStreams
<1>6. SinkInv(e) BY <1>1 DEF ErrorInv, SinkInv, Open, WritableType, WritableStreams
<1>7. OrderInv(e) BY <1>1 DEF ErrorInv, OrderInv, WritableType, WritableStreams
<1>8. e.state = "erroring" /\ Keeps(w, e)
  BY <1>1 DEF WritableType, WritableStreams, Keeps, Retains, Prompt, Unclosed, Closing,
         writableStreamCloseQueuedOrInFlight
<1>9. DeliveredInv(e) BY <1>1 DEF ErrorInv, DeliveredInv, WritableType, WritableStreams
<1>10. ErrorInv(e) BY <1>5, <1>6, <1>7, <1>9 DEF ErrorInv
<1>11. WritableInv(e) BY <1>8, <1>10 DEF WritableInv, QueueInv
<1> HIDE DEF e
<1>12. CASE ~writableStreamHasOperationMarkedInFlight(e) /\ e.started
  <2>1. writableStreamStartErroring(w) = writableStreamFinishErroring(e) BY <1>4, <1>12
  <2>2. e.inFlightWriteRequest = 0 /\ ~e.inFlightCloseRequest
    BY <1>12 DEF writableStreamHasOperationMarkedInFlight
  <2> QED BY <1>8, <1>10, <1>12, <2>1, <2>2, FinishesErroring DEF Keeps, Retains
<1>13. CASE ~(~writableStreamHasOperationMarkedInFlight(e) /\ e.started)
  BY <1>4, <1>8, <1>11, <1>13
<1> QED BY <1>12, <1>13

\* The sink rejected start(), write() or close(), and nothing is in flight any more.
LEMMA DealsWithRejection ==
  ASSUME NEW w, ErrorInv(w), Open(w), w.started, w.state = "writable" => ~w.storedError,
         w.inFlightWriteRequest = 0, ~w.inFlightCloseRequest
  PROVE  LET v == writableStreamDealWithRejection(w)
         IN WritableInv(v) /\ Keeps(w, v) /\ v.state \in {"erroring", "errored"}
<1>1. WritableType(w) /\ w.failed = FALSE BY DEF ErrorInv, SinkInv
<1>2. CASE w.state = "writable"
  <2>1. writableStreamDealWithRejection(w) = writableStreamStartErroring(w)
    BY <1>2 DEF writableStreamDealWithRejection
  <2> QED BY <1>2, <2>1, StartsErroring
<1>3. CASE w.state = "erroring"
  <2>1. Asserting(w, w.state = "erroring") = w
    BY <1>1, <1>3 DEF Asserting, WritableType, WritableStreams
  <2>2. writableStreamDealWithRejection(w) = writableStreamFinishErroring(w)
    BY <1>3, <2>1 DEF writableStreamDealWithRejection
  <2> QED BY <1>3, <2>2, FinishesErroring
<1> QED BY <1>2, <1>3 DEF Open

\* An error of the stream's own code or of its owner.
LEMMA ErrorsIfNeeded ==
  ASSUME NEW w, ErrorInv(w),
         w.state = "writable" => ~w.storedError /\ w.pendingAbortRequest = "none",
         w.state # "writable" => WritableInv(w)
  PROVE  LET v == writableStreamDefaultControllerErrorIfNeeded(w)
         IN WritableInv(v) /\ Keeps(w, v) /\ v.state # "writable"
<1> DEFINE e == [w EXCEPT !.algorithms = FALSE]
<1>1. CASE w.state = "writable"
  <2>1. WritableType(w) BY DEF ErrorInv
  <2>2. WritableType(e) BY <2>1 DEF WritableType, WritableStreams
  <2>3. SinkInv(e) BY <1>1, <2>1 DEF ErrorInv, SinkInv, Open, WritableType, WritableStreams
  <2>4. OrderInv(e) BY <2>1 DEF ErrorInv, OrderInv, WritableType, WritableStreams
  <2>5. DeliveredInv(e) BY <2>1 DEF ErrorInv, DeliveredInv, WritableType, WritableStreams
  <2>6. e.state = "writable" /\ ~e.storedError /\ Keeps(w, e)
    BY <1>1, <2>1 DEF WritableType, WritableStreams, Keeps, Retains, Prompt, Unclosed, Closing,
         writableStreamCloseQueuedOrInFlight
  <2>7. writableStreamDefaultControllerErrorIfNeeded(w) = writableStreamStartErroring(e)
    BY <1>1 DEF writableStreamDefaultControllerErrorIfNeeded,
         writableStreamDefaultControllerClearAlgorithms
  <2> HIDE DEF e
  <2> QED BY <2>2, <2>3, <2>4, <2>6, <2>7, <2>5, StartsErroring DEF ErrorInv, Keeps, Retains
<1>2. CASE w.state # "writable"
  BY <1>2 DEF writableStreamDefaultControllerErrorIfNeeded, Keeps, Retains
<1> QED BY <1>1, <1>2

\* abort() of the stream: an error begins, and the sink hears of it when it ends.
LEMMA Aborts ==
  ASSUME NEW w, WritableInv(w)
  PROVE  LET v == writableStreamAbort(w)
         IN WritableInv(v) /\ Keeps(w, v) /\ v.state # "writable"
<1>1. WritableType(w) BY DEF WritableInv, ErrorInv
<1>2. CASE w.state \in {"closed", "errored"} \/ w.pendingAbortRequest # "none"
  <2>1. writableStreamAbort(w) = w BY <1>2 DEF writableStreamAbort
  <2> QED BY <1>2, <2>1 DEF WritableInv, Keeps, Retains
<1>3. CASE w.state = "erroring" /\ w.pendingAbortRequest = "none"
  <2> DEFINE e == [w EXCEPT !.pendingAbortRequest = "wasAlreadyErroring", !.abort = "pending"]
  <2>1. writableStreamAbort(w) = e BY <1>3 DEF writableStreamAbort
  <2>2. WritableType(e) BY <1>1, Settled DEF WritableType, WritableStreams
  <2>3. SinkInv(e)
    BY <1>1, <1>3 DEF WritableInv, ErrorInv, SinkInv, Open, WritableType, WritableStreams
  <2>4. OrderInv(e) BY <1>1 DEF WritableInv, ErrorInv, OrderInv, WritableType, WritableStreams
  <2>5. DeliveredInv(e)
    BY <1>1 DEF WritableInv, ErrorInv, DeliveredInv, WritableType, WritableStreams
  <2>6. e.state = "erroring" /\ Keeps(w, e)
    BY <1>1, <1>3 DEF WritableType, WritableStreams, Keeps, Retains, Prompt, Unclosed, Closing,
         writableStreamCloseQueuedOrInFlight
  <2> QED BY <2>1, <2>2, <2>3, <2>4, <2>6, <2>5 DEF WritableInv, ErrorInv, QueueInv
<1>4. CASE w.state = "writable" /\ w.pendingAbortRequest = "none"
  <2> DEFINE e == [w EXCEPT !.pendingAbortRequest = "fresh", !.abort = "pending"]
  <2>1. writableStreamAbort(w) = writableStreamStartErroring(e)
    BY <1>4 DEF writableStreamAbort
  <2>2. WritableType(e) BY <1>1, Settled DEF WritableType, WritableStreams
  <2>3. SinkInv(e)
    BY <1>1, <1>4 DEF WritableInv, ErrorInv, SinkInv, QueueInv, Open, WritableType,
         WritableStreams
  <2>4. OrderInv(e) BY <1>1 DEF WritableInv, ErrorInv, OrderInv, WritableType, WritableStreams
  <2>5. DeliveredInv(e)
    BY <1>1 DEF WritableInv, ErrorInv, DeliveredInv, WritableType, WritableStreams
  <2>6. e.state = "writable" /\ ~e.storedError /\ Keeps(w, e)
    BY <1>1, <1>4
      DEF WritableType, WritableStreams, Keeps, Retains, Prompt, Unclosed, Closing,
          WritableInv, QueueInv, writableStreamCloseQueuedOrInFlight
  <2> HIDE DEF e
  <2> QED BY <2>1, <2>2, <2>3, <2>4, <2>6, <2>5, StartsErroring DEF ErrorInv, Keeps, Retains
<1> QED BY <1>1, <1>2, <1>3, <1>4, WritableFields

-----------------------------------------------------------------------------
(* The queue of the writable stream. *)

\* The bookkeeping of backpressure touches nothing else.
LEMMA UpdatesBackpressure ==
  ASSUME NEW w, WritableInv(w)
  PROVE  LET v == UpdateIfOpen(w)
         IN /\ WritableInv(v) /\ Keeps(w, v) /\ v.state = w.state
            /\ v.inFlightWriteRequest = w.inFlightWriteRequest
            /\ v.inFlightCloseRequest = w.inFlightCloseRequest
<1>1. WritableType(w) /\ w.failed = FALSE BY DEF WritableInv, ErrorInv, SinkInv
<1>2. CASE ~writableStreamCloseQueuedOrInFlight(w) /\ w.state = "writable"
  <2> DEFINE b == writableStreamDefaultControllerGetBackpressure(w)
             p == IF w.writer /\ b # w.backpressure
                    THEN IF b THEN "pending" ELSE Resolve(w.ready) ELSE w.ready
             v == [w EXCEPT !.backpressure = b, !.ready = p]
  <2>1. b \in BOOLEAN BY DEF writableStreamDefaultControllerGetBackpressure
  <2>2. Asserting(w, w.state = "writable" /\ ~writableStreamCloseQueuedOrInFlight(w)) = w
    BY <1>1, <1>2 DEF Asserting, WritableType, WritableStreams
  <2>3. p \in Promises BY <1>1, WritableFields, Settled
  <2>4. UpdateIfOpen(w) = v
    BY <1>2, <2>2 DEF UpdateIfOpen, writableStreamUpdateBackpressure
  <2> HIDE DEF b, p
  <2>5. WritableType(v) BY <1>1, <2>1, <2>3 DEF WritableType, WritableStreams
  <2>6. SinkInv(v)
    BY <1>1 DEF WritableInv, ErrorInv, SinkInv, Open, WritableType, WritableStreams
  <2>7. OrderInv(v) BY <1>1 DEF WritableInv, ErrorInv, OrderInv, WritableType, WritableStreams
  <2>8. QueueInv(v)
    BY <1>1 DEF WritableInv, QueueInv, InFlight, CloseMark, WritableType, WritableStreams
  <2>9. /\ Keeps(w, v) /\ v.state = w.state /\ v.pendingAbortRequest = w.pendingAbortRequest
        /\ v.inFlightWriteRequest = w.inFlightWriteRequest
        /\ v.inFlightCloseRequest = w.inFlightCloseRequest
    BY <1>1 DEF WritableType, WritableStreams, Keeps, Retains, Prompt, Unclosed, Closing,
         writableStreamCloseQueuedOrInFlight
  <2>10. DeliveredInv(v)
    BY <1>1 DEF WritableInv, ErrorInv, DeliveredInv, WritableType, WritableStreams
  <2> QED BY <2>4, <2>5, <2>6, <2>7, <2>8, <2>9, <2>10 DEF WritableInv, ErrorInv
<1>3. CASE ~(~writableStreamCloseQueuedOrInFlight(w) /\ w.state = "writable")
  BY <1>3 DEF UpdateIfOpen, Keeps, Retains
<1> QED BY <1>2, <1>3

\* The chunk at the head of the queue is given to the sink: it is the next in order.
LEMMA ProcessesWrite ==
  ASSUME NEW w, WritableInv(w), w.state = "writable", w.started, w.queue # <<>>,
         w.inFlightWriteRequest = 0, ~w.inFlightCloseRequest, Head(w.queue) # Close
  PROVE  LET v == writableStreamDefaultControllerProcessWrite(w)
         IN WritableInv(v) /\ Keeps(w, v)
<1> DEFINE n == Len(w.sunk) + 1
           v == [w EXCEPT !.inFlightWriteRequest = n, !.writeRequests = Tail(@),
                          !.sink = "write", !.sunk = Append(@, n)]
<1>1. WritableType(w) /\ w.failed = FALSE BY DEF WritableInv, ErrorInv, SinkInv
<1>2. /\ w.queue \in Seq(Numbers \cup {Close}) /\ w.writeRequests \in Seq(Numbers)
      /\ w.sunk \in Seq(Numbers) /\ w.writes \in Seq(Promises)
  BY <1>1, WritableFields
<1>3. /\ Len(w.queue) = Len(w.writeRequests) + CloseMark(w) /\ w.algorithms
      /\ \A i \in 1..Len(w.queue) :
           w.queue[i] = IF i <= Len(w.writeRequests) THEN Len(w.sunk) + i ELSE Close
      /\ ~w.storedError /\ w.pendingAbortRequest = "none"
  BY <1>2 DEF WritableInv, QueueInv, InFlight
<1>4. /\ CloseMark(w) \in {0, 1}
      /\ ~w.closeRequest => Len(w.sunk) + Len(w.writeRequests) = Len(w.writes)
  BY DEF WritableInv, QueueInv, CloseMark
<1>5. /\ \A i \in 1..Len(w.sunk) : w.sunk[i] = i
      /\ \A i \in 1..Len(w.writeRequests) : w.writeRequests[i] = Len(w.sunk) + i
      /\ Len(w.sunk) + Len(w.writeRequests) <= Len(w.writes)
      /\ \A i \in 1..Len(w.queue) : w.queue[i] <= Len(w.writes)
  BY DEF WritableInv, ErrorInv, OrderInv
<1>6. Len(w.queue) > 0 /\ Head(w.queue) = w.queue[1] BY <1>2
<1>7. Len(w.writeRequests) > 0 /\ Head(w.queue) = n BY <1>2, <1>3, <1>6
<1>8. w.writeRequests # <<>> /\ Head(w.writeRequests) = n BY <1>2, <1>5, <1>7
<1>9. Asserting(w, /\ w.inFlightWriteRequest = 0 /\ w.writeRequests # <<>>
                   /\ w.algorithms) = w
  BY <1>1, <1>3, <1>8 DEF Asserting, WritableType, WritableStreams
<1>10. writableStreamDefaultControllerProcessWrite(w) = v
  BY <1>7, <1>8, <1>9 DEF writableStreamDefaultControllerProcessWrite
<1>11. n \in Numbers /\ n # 0 BY <1>2 DEF Numbers
<1> HIDE DEF n
<1> DEFINE t == Tail(w.writeRequests)
           s == Append(w.sunk, n)
<1>12. /\ t \in Seq(Numbers) /\ Len(t) = Len(w.writeRequests) - 1
       /\ \A i \in 1..(Len(w.writeRequests) - 1) : t[i] = w.writeRequests[i + 1]
  BY <1>2, <1>8, TailFacts
<1>13. /\ s \in Seq(Numbers) /\ Len(s) = Len(w.sunk) + 1
       /\ \A i \in 1..Len(w.sunk) : s[i] = w.sunk[i]
       /\ s[Len(w.sunk) + 1] = n
  BY <1>2, <1>11, AppendFacts
<1>14. v = [w EXCEPT !.inFlightWriteRequest = n, !.writeRequests = t,
                     !.sink = "write", !.sunk = s]
  OBVIOUS
<1> HIDE DEF v, t, s
<1>15. WritableType(v)
  BY <1>1, <1>11, <1>12, <1>13, <1>14, ZenonT(60) DEF WritableType, WritableStreams
<1>16. /\ v.inFlightWriteRequest = n /\ v.writeRequests = t /\ v.sink = "write" /\ v.sunk = s
       /\ v.state = "writable" /\ v.queue = w.queue /\ v.started = w.started
       /\ v.failed = w.failed /\ v.algorithms = w.algorithms /\ v.storedError = w.storedError
       /\ v.closeRequest = w.closeRequest /\ v.inFlightCloseRequest = w.inFlightCloseRequest
       /\ v.pendingAbortRequest = w.pendingAbortRequest /\ v.writes = w.writes
       /\ v.writer = w.writer /\ v.closed = w.closed /\ v.close = w.close
  BY <1>1, <1>14 DEF WritableType, WritableStreams
<1>17. SinkInv(v)
  <2>1. w.writer => w.closed # "rejected" BY DEF WritableInv, ErrorInv, SinkInv
  <2> QED BY <1>1, <1>3, <1>11, <1>13, <1>16, <2>1 DEF SinkInv, Open, n
<1>18. Len(s) + Len(t) = Len(w.sunk) + Len(w.writeRequests)
  <2>1. Len(w.sunk) \in Nat /\ Len(w.writeRequests) \in Nat BY <1>2
  <2>2. Len(t) = Len(w.writeRequests) - 1 BY <1>12
  <2>3. Len(s) = Len(w.sunk) + 1 BY <1>13
  <2>4. \A a, b \in Nat : (a + 1) + (b - 1) = a + b OBVIOUS
  <2> QED BY <2>1, <2>2, <2>3, <2>4
<1>19. OrderInv(v)
  <2>1. \A i \in 1..Len(s) : s[i] = i
    <3> SUFFICES ASSUME NEW i \in 1..Len(s) PROVE s[i] = i OBVIOUS
    <3>1. Len(s) = Len(w.sunk) + 1 /\ Len(w.sunk) \in Nat BY <1>2, <1>13
    <3>2. i \in 1..Len(w.sunk) \/ i = Len(w.sunk) + 1 BY <3>1
    <3> QED BY <1>5, <1>13, <3>2 DEF n
  <2>2. \A i \in 1..Len(t) : t[i] = Len(s) + i
    BY <1>2, <1>5, <1>12, <1>13 DEF n
  <2>3. Len(s) + Len(t) <= Len(w.writes)
    BY <1>5, <1>18
  <2> QED BY <1>5, <1>16, <2>1, <2>2, <2>3 DEF OrderInv
<1>20. QueueInv(v)
  <2> Len(w.sunk) \in Nat /\ Len(w.writeRequests) \in Nat /\ Len(w.writes) \in Nat
      /\ Len(w.queue) \in Nat
    BY <1>2
  <2>1. Len(w.queue) = 1 + Len(t) + CloseMark(w) BY <1>3, <1>12, <1>4
  <2>2. \A i \in 1..Len(w.queue) :
           w.queue[i] = IF i <= 1 + Len(t) THEN Len(s) - 1 + i ELSE Close
    <3> SUFFICES ASSUME NEW i \in 1..Len(w.queue)
                 PROVE w.queue[i] = IF i <= 1 + Len(t) THEN Len(s) - 1 + i ELSE Close
      OBVIOUS
    <3>1. 1 + Len(t) = Len(w.writeRequests) /\ Len(s) - 1 + i = Len(w.sunk) + i
      BY <1>12, <1>13
    <3> QED BY <1>3, <3>1
  <2>3. ~w.closeRequest => Len(s) + Len(t) = Len(w.writes)
    BY <1>4, <1>18
  <2>4. \A i \in 1..(Len(s) - 1) : w.writes[i] = "resolved"
    <3>1. \A i \in 1..(Len(w.sunk) - 0) : w.writes[i] = "resolved"
      BY DEF WritableInv, QueueInv, InFlight
    <3>2. Len(s) - 1 = Len(w.sunk) - 0 BY <1>13
    <3> QED BY <3>1, <3>2
  <2> QED
    BY <1>3, <1>11, <1>16, <2>1, <2>2, <2>3, <2>4, ZenonT(60) DEF QueueInv, InFlight, CloseMark
<1>21. DeliveredInv(v) BY <1>16 DEF WritableInv, ErrorInv, DeliveredInv
<1>22. Keeps(w, v)
  BY <1>16, <1>18
    DEF Keeps, Retains, Prompt, Unclosed, Closing, writableStreamCloseQueuedOrInFlight
<1> QED BY <1>3, <1>10, <1>15, <1>16, <1>17, <1>19, <1>20, <1>22, <1>21 DEF WritableInv, ErrorInv

\* The close sentinel has come to the head of the queue: nothing else is left in it.
LEMMA ProcessesClose ==
  ASSUME NEW w, WritableInv(w), w.state = "writable", w.started, w.queue # <<>>,
         w.inFlightWriteRequest = 0, ~w.inFlightCloseRequest, Head(w.queue) = Close
  PROVE  LET v == writableStreamDefaultControllerProcessClose(w)
         IN WritableInv(v) /\ Keeps(w, v)
<1> DEFINE v == [w EXCEPT !.inFlightCloseRequest = TRUE, !.closeRequest = FALSE,
                          !.queue = <<>>, !.sink = "close", !.algorithms = FALSE]
<1>1. WritableType(w) /\ w.failed = FALSE BY DEF WritableInv, ErrorInv, SinkInv
<1>2. /\ w.queue \in Seq(Numbers \cup {Close}) /\ w.writeRequests \in Seq(Numbers)
      /\ w.sunk \in Seq(Numbers) /\ w.writes \in Seq(Promises)
  BY <1>1, WritableFields
<1>3. /\ Len(w.queue) = Len(w.writeRequests) + CloseMark(w) /\ w.algorithms
      /\ \A i \in 1..Len(w.queue) :
           w.queue[i] = IF i <= Len(w.writeRequests) THEN Len(w.sunk) + i ELSE Close
      /\ ~w.storedError /\ w.pendingAbortRequest = "none"
  BY <1>2 DEF WritableInv, QueueInv, InFlight
<1>4. Len(w.queue) > 0 /\ Head(w.queue) = w.queue[1] BY <1>2
<1>5. Len(w.writeRequests) = 0 BY <1>2, <1>3, <1>4 DEF Close
<1>6. w.closeRequest /\ Len(w.queue) = 1 BY <1>3, <1>4, <1>5 DEF CloseMark
<1>7. Asserting(w, /\ ~w.inFlightCloseRequest /\ w.closeRequest
                   /\ Len(w.queue) = 1 /\ w.algorithms) = w
  BY <1>1, <1>3, <1>6 DEF Asserting, WritableType, WritableStreams
<1>8. Tail(w.queue) = <<>> BY <1>2, <1>6, TailFacts
<1>9. writableStreamDefaultControllerProcessClose(w) = v
  BY <1>1, <1>7, <1>8, ZenonT(60) DEF writableStreamDefaultControllerProcessClose,
       writableStreamDefaultControllerClearAlgorithms, WritableType, WritableStreams
<1>10. WritableType(v)
  <2>1. <<>> \in Seq(Numbers \cup {Close}) OBVIOUS
  <2> QED BY <1>1, <2>1, ZenonT(60) DEF WritableType, WritableStreams
<1>11. SinkInv(v)
  BY <1>1, <1>3 DEF WritableInv, ErrorInv, SinkInv, Open, WritableType, WritableStreams
<1>12. OrderInv(v)
  BY <1>1 DEF WritableInv, ErrorInv, OrderInv, WritableType, WritableStreams
<1>13. \A i \in 1..Len(w.sunk) : w.writes[i] = "resolved"
  BY <1>2 DEF WritableInv, QueueInv, InFlight
<1>14. DeliveredInv(v)
  <2>1. w.writeRequests = <<>> BY <1>2, <1>5
  <2> QED BY <1>1, <1>13, <2>1
    DEF WritableInv, ErrorInv, DeliveredInv, WritableType, WritableStreams
<1>15. QueueInv(v)
  BY <1>1, <1>2, <1>3, <1>5, <1>13 DEF QueueInv, InFlight, CloseMark, WritableType, WritableStreams
<1>16. Keeps(w, v) /\ v.pendingAbortRequest = "none"
  BY <1>1, <1>3, <1>6 DEF Keeps, Retains, Prompt, Unclosed, Closing, WritableType, WritableStreams,
       writableStreamCloseQueuedOrInFlight
<1> QED BY <1>9, <1>10, <1>11, <1>12, <1>15, <1>16, <1>14 DEF WritableInv, ErrorInv

\* The next chunk, or the close, is given to the sink if it is free.
LEMMA AdvancesQueue ==
  ASSUME NEW w, WritableInv(w),
         w.started /\ w.inFlightWriteRequest = 0 => Open(w) /\ ~w.inFlightCloseRequest
  PROVE  LET v == writableStreamDefaultControllerAdvanceQueueIfNeeded(w)
         IN WritableInv(v) /\ Keeps(w, v)
<1>1. WritableType(w) /\ w.failed = FALSE BY DEF WritableInv, ErrorInv, SinkInv
<1>2. CASE ~w.started \/ w.inFlightWriteRequest # 0
  BY <1>2 DEF writableStreamDefaultControllerAdvanceQueueIfNeeded, Keeps, Retains
<1>3. CASE w.started /\ w.inFlightWriteRequest = 0
  <2>1. Open(w) /\ ~w.inFlightCloseRequest BY <1>3
  <2>2. Asserting(w, w.state \notin {"closed", "errored"}) = w
    BY <1>1, <2>1 DEF Asserting, WritableType, WritableStreams, Open
  <2>3. writableStreamDefaultControllerAdvanceQueueIfNeeded(w) =
          CASE w.state = "erroring" -> writableStreamFinishErroring(w)
            [] w.state # "erroring" /\ w.queue = <<>> -> w
            [] OTHER -> IF Head(w.queue) = Close
                          THEN writableStreamDefaultControllerProcessClose(w)
                          ELSE writableStreamDefaultControllerProcessWrite(w)
    BY <1>3, <2>2 DEF writableStreamDefaultControllerAdvanceQueueIfNeeded
  <2>4. CASE w.state = "erroring"
    <3>1. writableStreamDefaultControllerAdvanceQueueIfNeeded(w) = writableStreamFinishErroring(w)
      BY <2>3, <2>4
    <3> QED BY <1>3, <2>1, <2>4, <3>1, FinishesErroring DEF WritableInv
  <2>5. CASE w.state # "erroring" /\ w.queue = <<>>
    BY <2>3, <2>5 DEF Keeps, Retains
  <2>6. CASE w.state # "erroring" /\ w.queue # <<>> /\ Head(w.queue) = Close
    <3>1. writableStreamDefaultControllerAdvanceQueueIfNeeded(w) =
            writableStreamDefaultControllerProcessClose(w)
      BY <2>3, <2>6
    <3> QED BY <1>3, <2>1, <2>6, <3>1, ProcessesClose DEF Open
  <2>7. CASE w.state # "erroring" /\ w.queue # <<>> /\ Head(w.queue) # Close
    <3>1. writableStreamDefaultControllerAdvanceQueueIfNeeded(w) =
            writableStreamDefaultControllerProcessWrite(w)
      BY <2>3, <2>7
    <3> QED BY <1>3, <2>1, <2>7, <3>1, ProcessesWrite DEF Open
  <2> QED BY <2>4, <2>5, <2>6, <2>7
<1> QED BY <1>1, <1>2, <1>3, WritableFields

-----------------------------------------------------------------------------
(* The writer, and those who close the writable stream. *)

\* A write that comes too late is rejected and leaves the rest alone.
LEMMA RejectsWrite ==
  ASSUME NEW w, WritableInv(w), Closing(w)
  PROVE  LET v == [w EXCEPT !.writes = Append(@, "rejected")]
         IN /\ WritableInv(v) /\ Closing(v) /\ v.writer = w.writer
            /\ Len(v.writes) = Len(w.writes) + 1
            /\ (Unclosed(w) <=> Unclosed(v)) /\ (Unclosed(w) => Prompt(v))
<1> DEFINE s == Append(w.writes, "rejected")
           v == [w EXCEPT !.writes = s]
<1>1. WritableType(w) BY DEF WritableInv, ErrorInv
<1>2. /\ s \in Seq(Promises) /\ Len(s) = Len(w.writes) + 1 /\ Len(w.writes) \in Nat
      /\ \A i \in 1..Len(w.writes) : s[i] = w.writes[i]
  BY <1>1, WritableFields, Settled, AppendFacts
<1> HIDE DEF s
<1>3. WritableType(v) BY <1>1, <1>2 DEF WritableType, WritableStreams
<1>4. SinkInv(v)
  BY <1>1 DEF WritableInv, ErrorInv, SinkInv, Open, WritableType, WritableStreams
<1>5. OrderInv(v)
  <2>1. v.queue = w.queue /\ v.sunk = w.sunk /\ v.writeRequests = w.writeRequests /\ v.writes = s
    BY <1>1 DEF WritableType, WritableStreams
  <2>2. /\ w.queue \in Seq(Numbers \cup {Close}) /\ w.writeRequests \in Seq(Numbers)
        /\ w.sunk \in Seq(Numbers)
    BY <1>1, WritableFields
  <2>3. Len(w.sunk) + Len(w.writeRequests) <= Len(s)
    <3>1. Len(w.sunk) + Len(w.writeRequests) <= Len(w.writes)
      BY DEF WritableInv, ErrorInv, OrderInv
    <3>2. Len(w.sunk) \in Nat /\ Len(w.writeRequests) \in Nat BY <2>2
    <3>3. \A a, b, c \in Nat : a + b <= c => a + b <= c + 1 OBVIOUS
    <3> QED BY <1>2, <3>1, <3>2, <3>3
  <2>4. \A i \in 1..Len(w.queue) : w.queue[i] <= Len(s)
    <3>1. \A i \in 1..Len(w.queue) : w.queue[i] \in Nat BY <2>2 DEF Numbers, Close
    <3>2. \A i \in 1..Len(w.queue) : w.queue[i] <= Len(w.writes)
      BY DEF WritableInv, ErrorInv, OrderInv
    <3> QED BY <1>2, <3>1, <3>2
  <2> QED BY <2>1, <2>3, <2>4 DEF WritableInv, ErrorInv, OrderInv
<1>6. \A i \in 1..Len(w.sunk) : s[i] = w.writes[i]
  <2>1. Len(w.sunk) \in Nat /\ Len(w.writeRequests) \in Nat BY <1>1, WritableFields
  <2>2. Len(w.sunk) + Len(w.writeRequests) <= Len(w.writes)
    BY DEF WritableInv, ErrorInv, OrderInv
  <2>3. \A a, b, c \in Nat : a + b <= c => a <= c OBVIOUS
  <2>4. Len(w.sunk) <= Len(w.writes) BY <1>2, <2>1, <2>2, <2>3
  <2>5. \A i \in 1..Len(w.sunk) : i \in 1..Len(w.writes) BY <1>2, <2>1, <2>4
  <2> QED BY <1>2, <2>5
<1>7. DeliveredInv(v)
  BY <1>1, <1>6 DEF WritableInv, ErrorInv, DeliveredInv, WritableType, WritableStreams
<1>8. \A i \in 1..(Len(w.sunk) - InFlight(w)) : i \in 1..Len(w.sunk)
  <2>1. Len(w.sunk) \in Nat /\ InFlight(w) \in {0, 1} BY <1>1, WritableFields DEF InFlight
  <2> QED BY <2>1
<1>9. QueueInv(v)
  <2>1. /\ v.state = w.state /\ v.storedError = w.storedError /\ v.queue = w.queue
        /\ v.pendingAbortRequest = w.pendingAbortRequest /\ v.algorithms = w.algorithms
        /\ v.inFlightCloseRequest = w.inFlightCloseRequest /\ v.closeRequest = w.closeRequest
        /\ v.writeRequests = w.writeRequests /\ v.sunk = w.sunk /\ v.writes = s
        /\ InFlight(v) = InFlight(w) /\ CloseMark(v) = CloseMark(w)
    BY <1>1 DEF WritableType, WritableStreams, InFlight, CloseMark
  <2> HIDE DEF v
  <2> SUFFICES ASSUME w.state = "writable" PROVE QueueInv(v) BY <2>1 DEF QueueInv
  <2>2. ~(~w.closeRequest /\ ~w.inFlightCloseRequest)
    BY DEF Closing, writableStreamCloseQueuedOrInFlight
  <2>3. \A i \in 1..(Len(w.sunk) - InFlight(w)) : s[i] = "resolved"
    BY <1>6, <1>8 DEF WritableInv, QueueInv
  <2> QED BY <2>1, <2>2, <2>3 DEF WritableInv, QueueInv
<1>10. /\ v.pendingAbortRequest = w.pendingAbortRequest /\ v.state = w.state
       /\ v.writer = w.writer /\ v.writes = s /\ Closing(v)
       /\ (Unclosed(w) <=> Unclosed(v)) /\ (Unclosed(w) => Prompt(v))
  BY <1>1 DEF WritableType, WritableStreams, Closing, Unclosed, Prompt,
       writableStreamCloseQueuedOrInFlight
<1>11. WritableInv(v) BY <1>3, <1>4, <1>5, <1>9, <1>10, <1>7 DEF WritableInv, ErrorInv
<1> QED BY <1>2, <1>10, <1>11 DEF s

\* A write that is accepted goes to the end of the line.
LEMMA AddsWriteRequest ==
  ASSUME NEW w, WritableInv(w), ~Closing(w), w.writer
  PROVE  LET v == writableStreamAddWriteRequest(w)
         IN /\ ErrorInv(v) /\ v.writer = w.writer /\ v.state = "writable"
            /\ Len(v.writes) = Len(w.writes) + 1 /\ ~v.storedError
            /\ v.pendingAbortRequest = "none" /\ Unclosed(v) /\ Prompt(v)
            /\ LET u == [v EXCEPT !.queue = Append(@, Len(v.writes))]
               IN /\ WritableInv(u) /\ u.writer = v.writer /\ u.writes = v.writes
                  /\ u.state = "writable" /\ ~Closing(u) /\ Unclosed(u) /\ Prompt(u)
<1> DEFINE n == Len(w.writes) + 1
           s == Append(w.writes, "pending")
           r == Append(w.writeRequests, n)
           q == Append(w.queue, n)
           v == [w EXCEPT !.writes = s, !.writeRequests = r]
           u == [w EXCEPT !.writes = s, !.writeRequests = r, !.queue = q]
<1>1. WritableType(w) /\ w.failed = FALSE BY DEF WritableInv, ErrorInv, SinkInv
<1>2. w.state = "writable" /\ ~w.closeRequest /\ ~w.inFlightCloseRequest
  BY DEF Closing, writableStreamCloseQueuedOrInFlight
<1>3. /\ w.queue \in Seq(Numbers \cup {Close}) /\ w.writeRequests \in Seq(Numbers)
      /\ w.sunk \in Seq(Numbers) /\ w.writes \in Seq(Promises)
  BY <1>1, WritableFields
<1>4. /\ Len(w.queue) \in Nat /\ Len(w.writeRequests) \in Nat
      /\ Len(w.sunk) \in Nat /\ Len(w.writes) \in Nat
  BY <1>3
<1>5. writableStreamAddWriteRequest(w) = v
  <2>1. Asserting(w, w.writer /\ w.state = "writable") = w
    BY <1>1, <1>2 DEF Asserting, WritableType, WritableStreams
  <2> QED BY <2>1 DEF writableStreamAddWriteRequest
<1>6. [v EXCEPT !.queue = Append(@, Len(s))] = u
  <2>1. Len(s) = n BY <1>3
  <2> QED BY <1>1, <2>1 DEF WritableType, WritableStreams
<1>7. n \in Numbers BY <1>3 DEF Numbers
<1>8. /\ s \in Seq(Promises) /\ Len(s) = n
      /\ \A i \in 1..Len(w.writes) : s[i] = w.writes[i]
  BY <1>3, Settled, AppendFacts
<1>9. /\ r \in Seq(Numbers) /\ Len(r) = Len(w.writeRequests) + 1
      /\ \A i \in 1..Len(w.writeRequests) : r[i] = w.writeRequests[i]
      /\ r[Len(w.writeRequests) + 1] = n
  BY <1>3, <1>7, AppendFacts
<1>10. /\ q \in Seq(Numbers \cup {Close}) /\ Len(q) = Len(w.queue) + 1
       /\ \A i \in 1..Len(w.queue) : q[i] = w.queue[i]
       /\ q[Len(w.queue) + 1] = n
  BY <1>3, <1>7, AppendFacts
<1>11. /\ ~w.storedError /\ w.pendingAbortRequest = "none" /\ w.algorithms
       /\ Len(w.queue) = InFlight(w) + Len(w.writeRequests)
       /\ \A i \in 1..Len(w.queue) : w.queue[i] = Len(w.sunk) - InFlight(w) + i
       /\ Len(w.sunk) + Len(w.writeRequests) = Len(w.writes) /\ InFlight(w) \in {0, 1}
  <2>1. InFlight(w) \in {0, 1} BY DEF InFlight
  <2>2. CloseMark(w) = 0 BY <1>2 DEF CloseMark
  <2>3. Len(w.queue) = InFlight(w) + Len(w.writeRequests)
    BY <1>2, <1>3, <2>1, <2>2 DEF WritableInv, QueueInv
  <2>4. \A i \in 1..Len(w.queue) :
         w.queue[i] = IF i <= InFlight(w) + Len(w.writeRequests)
                        THEN Len(w.sunk) - InFlight(w) + i ELSE Close
    BY <1>2 DEF WritableInv, QueueInv
  <2>5. \A i \in 1..Len(w.queue) : w.queue[i] = Len(w.sunk) - InFlight(w) + i
    BY <1>4, <2>1, <2>3, <2>4
  <2>6. Len(w.sunk) + Len(w.writeRequests) = Len(w.writes)
    BY <1>2 DEF WritableInv, QueueInv
  <2> QED BY <1>2, <2>1, <2>3, <2>5, <2>6 DEF WritableInv, QueueInv
<1> HIDE DEF n, s, r, q
<1>12. WritableType(v) BY <1>1, <1>8, <1>9 DEF WritableType, WritableStreams
<1>13. WritableType(u) BY <1>1, <1>8, <1>9, <1>10 DEF WritableType, WritableStreams
<1>14. /\ v.state = "writable" /\ v.storedError = w.storedError
       /\ v.pendingAbortRequest = w.pendingAbortRequest /\ v.writer = w.writer
       /\ v.writes = s /\ v.writeRequests = r /\ v.queue = w.queue /\ v.sunk = w.sunk
       /\ v.closeRequest = w.closeRequest /\ v.inFlightCloseRequest = w.inFlightCloseRequest
  BY <1>1, <1>2 DEF WritableType, WritableStreams
<1>15. /\ u.state = "writable" /\ u.storedError = w.storedError
       /\ u.pendingAbortRequest = w.pendingAbortRequest /\ u.writer = w.writer
       /\ u.writes = s /\ u.writeRequests = r /\ u.queue = q /\ u.sunk = w.sunk
       /\ u.closeRequest = w.closeRequest /\ u.inFlightCloseRequest = w.inFlightCloseRequest
       /\ u.algorithms = w.algorithms /\ u.inFlightWriteRequest = w.inFlightWriteRequest
  BY <1>1, <1>2 DEF WritableType, WritableStreams
<1>16. SinkInv(v)
  BY <1>1 DEF WritableInv, ErrorInv, SinkInv, Open, WritableType, WritableStreams
<1>17. SinkInv(u)
  <2>1. q # <<>> BY <1>3, <1>10
  <2> QED BY <1>1, <2>1 DEF WritableInv, ErrorInv, SinkInv, Open, WritableType, WritableStreams
<1>18. /\ \A i \in 1..Len(w.sunk) : w.sunk[i] = i
       /\ \A i \in 1..Len(r) : r[i] = Len(w.sunk) + i
       /\ Len(w.sunk) + Len(r) = Len(s)
  <2>1. \A i \in 1..Len(w.sunk) : w.sunk[i] = i BY DEF WritableInv, ErrorInv, OrderInv
  <2>2. ASSUME NEW i \in 1..Len(r) PROVE r[i] = Len(w.sunk) + i
    <3>1. i \in 1..Len(w.writeRequests) \/ i = Len(w.writeRequests) + 1 BY <1>3, <1>9
    <3>2. n = Len(w.sunk) + (Len(w.writeRequests) + 1)
      <4>1. Len(w.sunk) + Len(w.writeRequests) = Len(w.writes) BY <1>11
      <4>2. \A a, b, c \in Nat : a + b = c => c + 1 = a + (b + 1) OBVIOUS
      <4> QED BY Zenon, <1>4, <4>1, <4>2 DEF n
    <3> QED BY <1>9, <3>1, <3>2 DEF WritableInv, ErrorInv, OrderInv
  <2>3. Len(w.sunk) + Len(r) = Len(s)
    <3>1. Len(r) = Len(w.writeRequests) + 1 /\ Len(s) = Len(w.writes) + 1 BY <1>8, <1>9 DEF n
    <3>2. Len(w.sunk) + Len(w.writeRequests) = Len(w.writes) BY <1>11
    <3>3. \A a, b \in Nat : a + (b + 1) = (a + b) + 1 OBVIOUS
    <3>4. Len(w.sunk) + (Len(w.writeRequests) + 1) = (Len(w.sunk) + Len(w.writeRequests)) + 1
      BY Zenon, <1>4, <3>3
    <3> QED BY Zenon, <3>1, <3>2, <3>4
  <2> QED BY <2>1, <2>2, <2>3
<1>19. \A i \in 1..Len(w.queue) : w.queue[i] \in Nat /\ w.queue[i] <= Len(s)
  <2>1. \A i \in 1..Len(w.queue) : w.queue[i] \in Nat BY <1>3 DEF Numbers, Close
  <2>2. \A i \in 1..Len(w.queue) : w.queue[i] <= Len(w.writes)
    BY DEF WritableInv, ErrorInv, OrderInv
  <2>3. Len(s) = Len(w.writes) + 1 BY <1>8 DEF n
  <2> QED BY <1>3, <2>1, <2>2, <2>3
<1>20. \A i \in 1..Len(q) : q[i] <= Len(s)
  <2> SUFFICES ASSUME NEW i \in 1..Len(q) PROVE q[i] <= Len(s) OBVIOUS
  <2>1. i \in 1..Len(w.queue) \/ i = Len(w.queue) + 1 BY <1>3, <1>10
  <2>2. n \in Nat /\ n <= Len(s) BY <1>7, <1>8 DEF Numbers
  <2> QED BY <1>10, <1>19, <2>1, <2>2
<1>21. OrderInv(v) /\ OrderInv(u)
  <2>1. Len(w.sunk) + Len(r) <= Len(s)
    <3>1. Len(s) \in Nat BY <1>8
    <3> QED BY <3>1, <1>18
  <2> QED BY <1>14, <1>15, <1>18, <1>19, <1>20, <2>1 DEF OrderInv
<1>22. \A i \in 1..(Len(w.sunk) - InFlight(w)) : s[i] = "resolved"
  <2>1. \A i \in 1..(Len(w.sunk) - InFlight(w)) : w.writes[i] = "resolved"
    BY <1>2 DEF WritableInv, QueueInv
  <2>2. Len(w.sunk) <= Len(w.writes)
    <3>1. \A a, b, c \in Nat : a + b = c => a <= c OBVIOUS
    <3> QED BY <1>4, <1>11, <3>1
  <2>3. \A i \in 1..(Len(w.sunk) - InFlight(w)) : i \in 1..Len(w.writes)
    BY <1>11, <1>4, <2>2
  <2> QED BY <1>8, <2>1, <2>3
<1>23. DeliveredInv(v) /\ DeliveredInv(u)
  BY <1>1, <1>2 DEF WritableInv, ErrorInv, DeliveredInv, WritableType, WritableStreams
<1>24. QueueInv(u)
  <2>1. InFlight(u) = InFlight(w) /\ CloseMark(u) = 0
    BY <1>2, <1>15 DEF InFlight, CloseMark
  <2>2. Len(q) = InFlight(w) + Len(r) + 0
    <3>1. \A a, b, c, d, e \in Nat : c = e + a /\ b = a + 1 /\ d = c + 1 => d = e + b + 0 OBVIOUS
    <3>2. InFlight(w) \in Nat /\ Len(q) \in Nat /\ Len(r) \in Nat BY <1>9, <1>10, <1>11
    <3> QED BY <1>4, <1>9, <1>10, <1>11, <3>1, <3>2
  <2>3. ASSUME NEW i \in 1..Len(q)
        PROVE  q[i] = IF i <= InFlight(w) + Len(r) THEN Len(w.sunk) - InFlight(w) + i ELSE Close
    <3>1. i \in 1..Len(w.queue) \/ i = Len(w.queue) + 1 BY <1>3, <1>10
    <3>2. i <= InFlight(w) + Len(r) BY <1>9, <1>11, <2>2
    <3>3. CASE i \in 1..Len(w.queue) BY <1>10, <1>11, <3>2, <3>3
    <3>4. CASE i = Len(w.queue) + 1
      <4>1. n = Len(w.sunk) - InFlight(w) + i
        <5>1. Len(w.sunk) + Len(w.writeRequests) = Len(w.writes) BY <1>11
        <5>2. Len(w.queue) = InFlight(w) + Len(w.writeRequests) BY <1>11
        <5>3. InFlight(w) \in {0, 1} BY <1>11
        <5>4. \A a, b, e \in Nat : a - e + ((e + b) + 1) = (a + b) + 1 OBVIOUS
        <5>5. InFlight(w) \in Nat BY <5>3
        <5>6. Len(w.sunk) - InFlight(w) + ((InFlight(w) + Len(w.writeRequests)) + 1)
                = (Len(w.sunk) + Len(w.writeRequests)) + 1
          BY Zenon, <1>4, <5>4, <5>5
        <5> QED BY Zenon, <3>4, <5>1, <5>2, <5>6 DEF n
      <4> QED BY <1>10, <3>2, <3>4, <4>1
    <3> QED BY <3>1, <3>3, <3>4
  <2> QED BY <1>11, <1>15, <1>18, <1>22, <2>1, <2>2, <2>3 DEF QueueInv
<1>25. ErrorInv(v) BY <1>12, <1>16, <1>21, <1>23 DEF ErrorInv
<1>26. WritableInv(u)
  BY <1>11, <1>13, <1>15, <1>17, <1>21, <1>24, <1>23 DEF WritableInv, ErrorInv
<1>27. ~Closing(u)
  BY <1>2, <1>15 DEF Closing, writableStreamCloseQueuedOrInFlight
<1>28. /\ Unclosed(u) /\ Unclosed(v) /\ Prompt(u) /\ Prompt(v)
  BY <1>2, <1>14, <1>15, <1>18 DEF Unclosed, Prompt, writableStreamCloseQueuedOrInFlight
<1>29. /\ ErrorInv(v) /\ v.writer = w.writer /\ v.state = "writable"
       /\ Len(v.writes) = Len(w.writes) + 1 /\ ~v.storedError
       /\ v.pendingAbortRequest = "none"
  BY <1>8, <1>11, <1>14, <1>25 DEF n
<1>30. [v EXCEPT !.queue = Append(@, Len(v.writes))] = u
  BY <1>6, <1>14
<1>31. WritableInv(u) /\ u.writer = v.writer /\ u.writes = v.writes
                  /\ u.state = "writable" /\ ~Closing(u)
  BY <1>14, <1>15, <1>26, <1>27
<1> HIDE DEF u, v
<1> QED BY <1>5, <1>29, <1>30, <1>31, <1>28

\* write() of the writer.
LEMMA WriterWrites ==
  ASSUME NEW w, WritableInv(w), w.writer, NEW size
  PROVE  LET v == writableStreamDefaultWriterWrite(w, size)
         IN /\ WritableInv(v) /\ v.writer = w.writer /\ Len(v.writes) = Len(w.writes) + 1
            /\ Closing(w) => Closing(v)
            /\ Unclosed(w) => Unclosed(v)
            /\ Unclosed(w) /\ Prompt(w) => Prompt(v)
<1> DEFINE c == writableStreamDefaultControllerGetChunkSize(w, size)
<1>1. WritableInv(c) /\ Keeps(w, c)
  <2>1. CASE size = "throws" \/ ~w.algorithms
    <3>1. c = writableStreamDefaultControllerErrorIfNeeded(w)
      BY <2>1 DEF writableStreamDefaultControllerGetChunkSize
    <3> QED BY <3>1, ErrorsIfNeeded DEF WritableInv, QueueInv
  <2>2. CASE ~(size = "throws" \/ ~w.algorithms)
    BY <2>2 DEF writableStreamDefaultControllerGetChunkSize, Keeps, Retains
  <2> QED BY <2>1, <2>2
<1>2. writableStreamDefaultWriterWrite(w, size) =
        IF c.state # "writable" \/ writableStreamCloseQueuedOrInFlight(c)
          THEN [c EXCEPT !.writes = Append(@, "rejected")]
          ELSE writableStreamDefaultControllerWrite(writableStreamAddWriteRequest(c), size)
  BY DEF writableStreamDefaultWriterWrite
<1> HIDE DEF c
<1>3. CASE Closing(c)
  <2>1. writableStreamDefaultWriterWrite(w, size) = [c EXCEPT !.writes = Append(@, "rejected")]
    BY <1>2, <1>3 DEF Closing
  <2> QED BY <1>1, <1>3, <2>1, RejectsWrite DEF Keeps, Retains
<1>4. CASE ~Closing(c)
  <2> DEFINE a == writableStreamAddWriteRequest(c)
             u == [a EXCEPT !.queue = Append(@, Len(a.writes))]
             b == UpdateIfOpen(u)
  <2>1. writableStreamDefaultWriterWrite(w, size) = writableStreamDefaultControllerWrite(a, size)
    BY <1>2, <1>4 DEF Closing
  <2>2. /\ ErrorInv(a) /\ a.writer = w.writer /\ a.state = "writable"
        /\ Len(a.writes) = Len(w.writes) + 1 /\ ~a.storedError
        /\ a.pendingAbortRequest = "none"
        /\ WritableInv(u) /\ u.writer = a.writer /\ u.writes = a.writes
        /\ u.state = "writable" /\ ~Closing(u)
        /\ Unclosed(a) /\ Prompt(a) /\ Unclosed(u) /\ Prompt(u)
    BY <1>1, <1>4, AddsWriteRequest DEF Keeps, Retains
  <2>3. writableStreamDefaultControllerWrite(a, size) =
          IF size = "invalid" THEN writableStreamDefaultControllerErrorIfNeeded(a)
          ELSE writableStreamDefaultControllerAdvanceQueueIfNeeded(b)
    BY DEF writableStreamDefaultControllerWrite
  <2>4. ~Closing(w) BY <1>1, <1>4 DEF Keeps, Retains
  <2> HIDE DEF a, u
  <2>5. CASE size = "invalid"
    <3>1. writableStreamDefaultWriterWrite(w, size) =
            writableStreamDefaultControllerErrorIfNeeded(a)
      BY <2>1, <2>3, <2>5
    <3> QED BY <2>2, <2>4, <3>1, ErrorsIfNeeded DEF Keeps, Retains
  <2>6. CASE size # "invalid"
    <3>1. /\ WritableInv(b) /\ Keeps(u, b) /\ b.state = "writable"
          /\ b.inFlightCloseRequest = u.inFlightCloseRequest
      BY <2>2, UpdatesBackpressure
    <3>2. writableStreamDefaultWriterWrite(w, size) =
            writableStreamDefaultControllerAdvanceQueueIfNeeded(b)
      BY <2>1, <2>3, <2>6
    <3>3. Open(b) /\ ~b.inFlightCloseRequest
      BY <2>2, <3>1 DEF Open, Closing, writableStreamCloseQueuedOrInFlight
    <3> HIDE DEF b
    <3> QED BY <2>2, <2>4, <3>1, <3>2, <3>3, AdvancesQueue DEF Keeps, Retains
  <2> QED BY <2>5, <2>6
<1> QED BY <1>3, <1>4

\* close() of an open stream that is not closing yet.
LEMMA Closes ==
  ASSUME NEW w, WritableInv(w)
  PROVE  /\ WritableInv(close(w)) /\ Retains(w, close(w)) /\ Closing(close(w))
         /\ ~writableStreamCloseQueuedOrInFlight(w) => close(w) = writableStreamClose(w)
<1>1. WritableType(w) /\ w.failed = FALSE BY DEF WritableInv, ErrorInv, SinkInv
<1>2. CASE writableStreamCloseQueuedOrInFlight(w)
  BY <1>2 DEF close, Keeps, Retains, Prompt, Unclosed, Closing
<1>3. CASE ~writableStreamCloseQueuedOrInFlight(w) /\ w.state \in {"closed", "errored"}
  <2>1. close(w) = w /\ writableStreamClose(w) = w BY <1>3 DEF close, writableStreamClose
  <2> QED BY <1>3, <2>1 DEF Keeps, Retains, Prompt, Unclosed, Closing
<1>4. CASE ~writableStreamCloseQueuedOrInFlight(w) /\ Open(w)
  <2> DEFINE p == IF w.writer /\ w.backpressure /\ w.state = "writable"
                    THEN Resolve(w.ready) ELSE w.ready
             q == Append(w.queue, Close)
             v == [w EXCEPT !.closeRequest = TRUE, !.close = "pending", !.ready = p,
                            !.queue = q]
  <2>1. Asserting(w, ~writableStreamCloseQueuedOrInFlight(w)) = w
    BY <1>1, <1>4 DEF Asserting, WritableType, WritableStreams
  <2>2. /\ close(w) = writableStreamDefaultControllerAdvanceQueueIfNeeded(v)
        /\ writableStreamClose(w) = close(w)
    BY <1>4, <2>1 DEF close, writableStreamClose, Open
  <2>3. p \in Promises BY <1>1, WritableFields, Settled
  <2>4. /\ w.queue \in Seq(Numbers \cup {Close}) /\ w.writes \in Seq(Promises)
        /\ w.writeRequests \in Seq(Numbers) /\ w.sunk \in Seq(Numbers)
    BY <1>1, WritableFields
  <2>5. /\ q \in Seq(Numbers \cup {Close}) /\ Len(q) = Len(w.queue) + 1
        /\ \A i \in 1..Len(w.queue) : q[i] = w.queue[i]
        /\ q[Len(w.queue) + 1] = Close
    BY <2>4, AppendFacts
  <2>6. ~w.closeRequest /\ ~w.inFlightCloseRequest
    BY <1>4 DEF writableStreamCloseQueuedOrInFlight
  <2> HIDE DEF p, q
  <2>7. WritableType(v) BY <1>1, <2>3, <2>5, Settled DEF WritableType, WritableStreams
  <2>8. q # <<>> BY <2>4, <2>5
  <2>9. SinkInv(v)
    BY <1>1, <2>6, <2>8 DEF WritableInv, ErrorInv, SinkInv, Open, WritableType, WritableStreams
  <2>10. /\ v.queue = q /\ v.writes = w.writes /\ v.writeRequests = w.writeRequests
         /\ v.sunk = w.sunk /\ v.state = w.state /\ v.closeRequest = TRUE
         /\ v.inFlightCloseRequest = w.inFlightCloseRequest /\ v.writer = w.writer
         /\ v.inFlightWriteRequest = w.inFlightWriteRequest
         /\ v.storedError = w.storedError /\ v.algorithms = w.algorithms
         /\ v.pendingAbortRequest = w.pendingAbortRequest
    BY <1>1 DEF WritableType, WritableStreams
  <2>11. OrderInv(v)
    <3>1. ASSUME NEW i \in 1..Len(q) PROVE q[i] <= Len(w.writes)
      <4>1. i \in 1..Len(w.queue) \/ i = Len(w.queue) + 1 BY <2>4, <2>5
      <4>2. Close <= Len(w.writes) BY <2>4 DEF Close
      <4> QED BY <2>5, <4>1, <4>2 DEF WritableInv, ErrorInv, OrderInv
    <3>2. /\ \A i \in 1..Len(w.sunk) : w.sunk[i] = i
          /\ \A i \in 1..Len(w.writeRequests) : w.writeRequests[i] = Len(w.sunk) + i
          /\ Len(w.sunk) + Len(w.writeRequests) <= Len(w.writes)
      BY DEF WritableInv, ErrorInv, OrderInv
    <3> HIDE DEF v
    <3>3. /\ v.queue = q /\ v.writes = w.writes /\ v.writeRequests = w.writeRequests
          /\ v.sunk = w.sunk
      BY <2>10
    <3> QED BY Zenon, <3>1, <3>2, <3>3 DEF OrderInv
  <2>12. QueueInv(v)
    <3> SUFFICES ASSUME w.state = "writable" PROVE QueueInv(v) BY <2>10 DEF QueueInv
    <3>1. InFlight(v) = InFlight(w) /\ CloseMark(v) = 1 /\ CloseMark(w) = 0
      BY <2>6, <2>10 DEF InFlight, CloseMark
    <3>2. /\ Len(w.queue) = InFlight(w) + Len(w.writeRequests) + 0
          /\ \A i \in 1..Len(w.queue) :
               w.queue[i] = IF i <= InFlight(w) + Len(w.writeRequests)
                              THEN Len(w.sunk) - InFlight(w) + i ELSE Close
          /\ ~w.storedError /\ w.pendingAbortRequest = "none" /\ w.algorithms
      BY <2>6, <3>1 DEF WritableInv, QueueInv
    <3>3. Len(w.queue) \in Nat /\ Len(w.writeRequests) \in Nat BY <2>4
    <3>4. InFlight(w) \in Nat BY DEF InFlight
    <3>5. Len(w.queue) = InFlight(w) + Len(w.writeRequests)
      <4>1. \A a, b \in Nat : a + b + 0 = a + b OBVIOUS
      <4> QED BY Zenon, <3>2, <3>3, <3>4, <4>1
    <3>6. Len(q) = InFlight(w) + Len(w.writeRequests) + 1 BY Zenon, <2>5, <3>5
    <3>7. ASSUME NEW i \in 1..Len(q)
          PROVE  q[i] = IF i <= InFlight(w) + Len(w.writeRequests)
                          THEN Len(w.sunk) - InFlight(w) + i ELSE Close
      <4>1. i \in 1..Len(w.queue) \/ i = Len(w.queue) + 1 BY <2>5, <3>3
      <4>2. CASE i \in 1..Len(w.queue) BY <2>5, <3>2, <4>2
      <4>3. CASE i = Len(w.queue) + 1
        <5>1. ~(i <= InFlight(w) + Len(w.writeRequests)) BY <3>3, <3>5, <4>3
        <5> QED BY <2>5, <4>3, <5>1
      <4> QED BY <4>1, <4>2, <4>3
    <3>8. \A i \in 1..(Len(w.sunk) - InFlight(w)) : w.writes[i] = "resolved"
      BY DEF WritableInv, QueueInv
    <3> QED BY <2>10, <3>1, <3>2, <3>6, <3>7, <3>8 DEF QueueInv
  <2>13. DeliveredInv(v)
    BY <1>1, <1>4, <2>6 DEF Open, DeliveredInv, WritableType, WritableStreams
  <2>14. WritableInv(v) /\ Retains(w, v) /\ Closing(v)
    BY <2>7, <2>9, <2>10, <2>11, <2>12, <2>13
      DEF WritableInv, ErrorInv, Keeps, Retains, Prompt, Unclosed, Closing,
          writableStreamCloseQueuedOrInFlight
  <2>15. Open(v) /\ ~v.inFlightCloseRequest BY <1>4, <2>6, <2>10 DEF Open
  <2> HIDE DEF v
  <2> QED BY <2>2, <2>14, <2>15, AdvancesQueue DEF Keeps, Retains
<1> QED BY <1>1, <1>2, <1>3, <1>4, WritableFields DEF Open

\* One element of a sequence is replaced.
LEMMA ExceptFacts ==
  ASSUME NEW S, NEW s \in Seq(S), NEW e \in S, NEW k
  PROVE  [s EXCEPT ![k] = e] \in Seq(S) /\ Len([s EXCEPT ![k] = e]) = Len(s)
<1>1. Len(s) \in Nat /\ DOMAIN s = 1..Len(s) /\ \A i \in 1..Len(s) : s[i] \in S OBVIOUS
<1>2. [s EXCEPT ![k] = e] = [i \in 1..Len(s) |-> IF i = k THEN e ELSE s[i]] BY <1>1
<1>3. \A i \in 1..Len(s) : (IF i = k THEN e ELSE s[i]) \in S BY <1>1
<1>4. [i \in 1..Len(s) |-> IF i = k THEN e ELSE s[i]] \in [1..Len(s) -> S] BY <1>3
<1>5. \A n \in Nat : \A f \in [1..n -> S] : f \in Seq(S) /\ Len(f) = n OBVIOUS
<1> QED BY <1>1, <1>2, <1>4, <1>5

-----------------------------------------------------------------------------
(* The lock of the writable stream, and the reactions to the sink. *)

\* A new writable stream.
LEMMA WritableInit ==
  ASSUME NEW h \in Nat
  PROVE  LET w == initializeWritableStream(h)
         IN WritableInv(w) /\ ~w.writer /\ w.writes = <<>>
<1> DEFINE w == initializeWritableStream(h)
<1>1. WritableType(w)
  <2>1. <<>> \in Seq(Numbers) /\ <<>> \in Seq(Numbers \cup {Close}) /\ <<>> \in Seq(Promises)
    OBVIOUS
  <2> QED BY <2>1, Settled DEF initializeWritableStream, WritableType, WritableStreams
<1>2. SinkInv(w) BY DEF initializeWritableStream, SinkInv, Open
<1>3. OrderInv(w) BY DEF initializeWritableStream, OrderInv
<1>4. QueueInv(w) BY DEF initializeWritableStream, QueueInv, InFlight, CloseMark
<1>5. DeliveredInv(w) BY DEF initializeWritableStream, DeliveredInv
<1> QED BY <1>1, <1>2, <1>3, <1>4, <1>5 DEF initializeWritableStream, WritableInv, ErrorInv

\* A writer takes or releases the lock.
Locks(w, v, b, p, d) ==
  /\ v = [w EXCEPT !.writer = b, !.ready = p, !.closed = d]
  /\ b /\ d = "rejected" => w.state = "errored"

\* Whoever holds the lock, the rest of the stream is the same.
LEMMA OtherPromises ==
  ASSUME NEW w, WritableInv(w), NEW b \in BOOLEAN, NEW p \in Promises, NEW d \in Promises,
         NEW v, Locks(w, v, b, p, d)
  PROVE  /\ WritableInv(v) /\ v.writer = b /\ v.writes = w.writes
         /\ Closing(w) <=> Closing(v)
         /\ v.state = w.state /\ v.closeRequest = w.closeRequest
         /\ v.inFlightCloseRequest = w.inFlightCloseRequest /\ v.ready = p /\ v.closed = d
         /\ v.close = w.close /\ v.sunk = w.sunk /\ v.writeRequests = w.writeRequests
<1> USE DEF Locks
<1>1. WritableType(w) BY DEF WritableInv, ErrorInv
<1>2. WritableType(v) BY <1>1 DEF WritableType, WritableStreams
<1>3. SinkInv(v)
  BY <1>1 DEF WritableInv, ErrorInv, SinkInv, Open, WritableType, WritableStreams
<1>4. OrderInv(v) BY <1>1 DEF WritableInv, ErrorInv, OrderInv, WritableType, WritableStreams
<1>5. QueueInv(v)
  BY <1>1, ZenonT(60) DEF WritableInv, QueueInv, InFlight, CloseMark, WritableType, WritableStreams
<1>6. /\ v.writer = b /\ v.writes = w.writes /\ v.state = w.state
      /\ v.closeRequest = w.closeRequest /\ v.inFlightCloseRequest = w.inFlightCloseRequest
      /\ v.ready = p /\ v.closed = d /\ v.pendingAbortRequest = w.pendingAbortRequest
      /\ v.close = w.close /\ v.sunk = w.sunk /\ v.writeRequests = w.writeRequests
  BY <1>1 DEF WritableType, WritableStreams
<1>7. Closing(w) <=> Closing(v)
  BY <1>6 DEF Closing, writableStreamCloseQueuedOrInFlight
<1>8. DeliveredInv(v)
  BY <1>1 DEF WritableInv, ErrorInv, DeliveredInv, WritableType, WritableStreams
<1>9. WritableInv(v) BY <1>2, <1>3, <1>4, <1>5, <1>6, <1>8 DEF WritableInv, ErrorInv
<1> QED BY <1>6, <1>7, <1>9

\* getWriter().
LEMMA WriterSetUp ==
  ASSUME NEW w, WritableInv(w)
  PROVE  LET v == setUpWritableStreamDefaultWriter(w)
         IN /\ WritableInv(v) /\ v.writer /\ v.writes = w.writes
            /\ (Closing(w) <=> Closing(v))
            /\ v.state = w.state /\ v.closeRequest = w.closeRequest
            /\ v.inFlightCloseRequest = w.inFlightCloseRequest
<1> DEFINE p == CASE w.state \in {"erroring", "errored"} -> "rejected"
                  [] w.state = "writable" /\ w.backpressure
                     /\ ~writableStreamCloseQueuedOrInFlight(w) -> "pending"
                  [] OTHER -> "resolved"
           d == CASE w.state = "closed" -> "resolved"
                  [] w.state = "errored" -> "rejected"
                  [] OTHER -> "pending"
<1>1. p \in Promises /\ d \in Promises BY Settled
<1>2. setUpWritableStreamDefaultWriter(w) = [w EXCEPT !.writer = TRUE, !.ready = p, !.closed = d]
  BY DEF setUpWritableStreamDefaultWriter
<1> HIDE DEF p, d
<1>3. PICK b \in BOOLEAN : b = TRUE OBVIOUS
<1>4. PICK v : v = setUpWritableStreamDefaultWriter(w) OBVIOUS
<1>5. Locks(w, v, b, p, d)
  <2>1. d = "rejected" => w.state = "errored" BY DEF d
  <2> QED BY <1>2, <1>3, <1>4, <2>1 DEF Locks
<1>6. /\ WritableInv(v) /\ v.writer = b /\ v.writes = w.writes
      /\ Closing(w) <=> Closing(v)
      /\ v.state = w.state /\ v.closeRequest = w.closeRequest
      /\ v.inFlightCloseRequest = w.inFlightCloseRequest
  BY <1>1, <1>5, OtherPromises
<1> QED BY <1>3, <1>4, <1>6

\* releaseLock() of the writer.
LEMMA WriterReleases ==
  ASSUME NEW w, WritableInv(w), w.writer
  PROVE  LET v == writableStreamDefaultWriterRelease(w)
         IN /\ WritableInv(v) /\ ~v.writer /\ v.writes = w.writes
            /\ (Closing(w) <=> Closing(v)) /\ v.state = w.state /\ v.close = w.close
            /\ (Prompt(w) => Prompt(v)) /\ v.closeRequest = w.closeRequest
            /\ v.inFlightCloseRequest = w.inFlightCloseRequest
<1>1. WritableType(w) /\ w.failed = FALSE BY DEF WritableInv, ErrorInv, SinkInv
<1>2. Asserting(w, w.writer) = w BY <1>1 DEF Asserting, WritableType, WritableStreams
<1>3. writableStreamDefaultWriterRelease(w) =
        [w EXCEPT !.writer = FALSE, !.ready = "rejected", !.closed = "rejected"]
  BY <1>2 DEF writableStreamDefaultWriterRelease
<1>4. PICK b \in BOOLEAN, p \in Promises : b = FALSE /\ p = "rejected" BY Settled
<1>5. PICK v : v = writableStreamDefaultWriterRelease(w) OBVIOUS
<1>6. Locks(w, v, b, p, p) BY <1>3, <1>4, <1>5 DEF Locks
<1>7. /\ WritableInv(v) /\ v.writer = b /\ v.writes = w.writes
      /\ Closing(w) <=> Closing(v)
      /\ v.state = w.state /\ v.closeRequest = w.closeRequest
      /\ v.inFlightCloseRequest = w.inFlightCloseRequest
      /\ v.close = w.close /\ v.sunk = w.sunk /\ v.writeRequests = w.writeRequests
  BY <1>6, OtherPromises
<1>8. Prompt(w) => Prompt(v) BY <1>7 DEF Prompt
<1> QED BY <1>4, <1>5, <1>7, <1>8

\* The promise of start() is settled.
LEMMA Starts ==
  ASSUME NEW w, WritableInv(w), ~w.started, NEW ok \in BOOLEAN
  PROVE  LET v == WritableStarts(w, ok) IN WritableInv(v) /\ Keeps(w, v)
<1> DEFINE u == [w EXCEPT !.started = TRUE]
<1>1. WritableType(w) /\ w.failed = FALSE BY DEF WritableInv, ErrorInv, SinkInv
<1>2. Open(w) /\ w.inFlightWriteRequest = 0 /\ ~w.inFlightCloseRequest
  BY DEF WritableInv, ErrorInv, SinkInv
<1>3. Asserting(w, w.state \in {"writable", "erroring"}) = w
  BY <1>1, <1>2 DEF Asserting, WritableType, WritableStreams, Open
<1>4. WritableStarts(w, ok) =
        IF ok THEN writableStreamDefaultControllerAdvanceQueueIfNeeded(u)
        ELSE writableStreamDealWithRejection(u)
  BY <1>3 DEF WritableStarts
<1>5. WritableType(u) BY <1>1 DEF WritableType, WritableStreams
<1>6. SinkInv(u)
  BY <1>1 DEF WritableInv, ErrorInv, SinkInv, Open, WritableType, WritableStreams
<1>7. OrderInv(u) BY <1>1 DEF WritableInv, ErrorInv, OrderInv, WritableType, WritableStreams
<1>8. QueueInv(u)
  BY <1>1 DEF WritableInv, QueueInv, InFlight, CloseMark, WritableType, WritableStreams
<1>9. /\ Open(u) /\ u.inFlightWriteRequest = 0 /\ ~u.inFlightCloseRequest /\ Keeps(w, u)
      /\ u.started /\ u.pendingAbortRequest = w.pendingAbortRequest /\ u.state = w.state
  BY <1>1, <1>2 DEF WritableType, WritableStreams, Open, Keeps, Retains, Prompt, Unclosed, Closing,
       writableStreamCloseQueuedOrInFlight
<1>10. DeliveredInv(u)
  BY <1>1 DEF WritableInv, ErrorInv, DeliveredInv, WritableType, WritableStreams
<1>11. WritableInv(u) BY <1>5, <1>6, <1>7, <1>8, <1>9, <1>10 DEF WritableInv, ErrorInv
<1> HIDE DEF u
<1>12. CASE ok BY <1>4, <1>9, <1>11, <1>12, AdvancesQueue DEF Keeps, Retains
<1>13. CASE ~ok
  <2>1. u.state = "writable" => ~u.storedError BY <1>11 DEF WritableInv, QueueInv
  <2>2. ErrorInv(u) BY <1>11 DEF WritableInv
  <2> QED BY <1>4, <1>9, <1>13, <2>1, <2>2, DealsWithRejection DEF Keeps, Retains
<1> QED BY <1>12, <1>13

\* The chunk in flight is done with: the next one is at the head of the queue.
LEMMA WriteFulfilled ==
  ASSUME NEW w, WritableInv(w), w.inFlightWriteRequest # 0
  PROVE  LET v == SinkWriteFulfilled(w) IN WritableInv(v) /\ Keeps(w, v)
<1> DEFINE s == [w.writes EXCEPT ![w.inFlightWriteRequest] = "resolved"]
           q == Tail(w.queue)
           u == [w EXCEPT !.writes = s, !.inFlightWriteRequest = 0, !.sink = "none",
                          !.queue = q]
<1>1. WritableType(w) /\ w.failed = FALSE BY DEF WritableInv, ErrorInv, SinkInv
<1>2. /\ Open(w) /\ w.queue # <<>> /\ ~w.inFlightCloseRequest /\ w.started
      /\ InFlight(w) = 1
  BY DEF WritableInv, ErrorInv, SinkInv, InFlight
<1>3. Asserting(w, /\ w.inFlightWriteRequest # 0
                   /\ w.state \in {"writable", "erroring"} /\ w.queue # <<>>) = w
  BY <1>1, <1>2 DEF Asserting, WritableType, WritableStreams, Open
<1>4. SinkWriteFulfilled(w) =
        writableStreamDefaultControllerAdvanceQueueIfNeeded(UpdateIfOpen(u))
  BY <1>3 DEF SinkWriteFulfilled
<1>5. /\ w.queue \in Seq(Numbers \cup {Close}) /\ w.writes \in Seq(Promises)
      /\ w.writeRequests \in Seq(Numbers) /\ w.sunk \in Seq(Numbers)
  BY <1>1, WritableFields
<1>6. s \in Seq(Promises) /\ Len(s) = Len(w.writes) BY <1>5, Settled, ExceptFacts
<1>7. ASSUME w.state = "writable", NEW i \in 1..(Len(w.sunk) - 0) PROVE s[i] = "resolved"
  <2>1. Len(w.sunk) \in Nat /\ Len(w.writeRequests) \in Nat /\ Len(w.writes) \in Nat
    BY <1>5
  <2>2. Len(w.sunk) + Len(w.writeRequests) <= Len(w.writes)
    BY DEF WritableInv, ErrorInv, OrderInv
  <2>3. \A a, b, c \in Nat : a + b <= c => a <= c OBVIOUS
  <2>4. Len(w.sunk) <= Len(w.writes) BY <2>1, <2>2, <2>3
  <2>5. i \in DOMAIN w.writes BY <1>5, <2>1, <2>4
  <2>6. CASE i = Len(w.sunk)
    <3>1. i = w.inFlightWriteRequest BY <2>6 DEF WritableInv, ErrorInv, SinkInv
    <3> QED BY <2>5, <3>1
  <2>7. CASE i # Len(w.sunk)
    <3>1. i \in 1..(Len(w.sunk) - 1) BY <2>1, <2>7
    <3>2. w.writes[i] = "resolved" BY <1>2, <1>7, <3>1 DEF WritableInv, QueueInv
    <3> QED BY <2>5, <3>2
  <2> QED BY <2>6, <2>7
<1>8. /\ q \in Seq(Numbers \cup {Close}) /\ Len(q) = Len(w.queue) - 1
      /\ \A i \in 1..(Len(w.queue) - 1) : q[i] = w.queue[i + 1]
  BY <1>2, <1>5, TailFacts
<1> HIDE DEF s, q
<1>9. WritableType(u) BY <1>1, <1>6, <1>8 DEF WritableType, WritableStreams
<1>10. SinkInv(u)
  BY <1>1, <1>2, WritableFields
    DEF WritableInv, ErrorInv, SinkInv, Open, WritableType, WritableStreams
<1>11. /\ u.queue = q /\ u.writes = s /\ u.writeRequests = w.writeRequests
       /\ u.sunk = w.sunk /\ u.state = w.state /\ u.closeRequest = w.closeRequest
       /\ u.inFlightCloseRequest = w.inFlightCloseRequest /\ u.writer = w.writer
       /\ u.inFlightWriteRequest = 0 /\ u.close = w.close
       /\ u.storedError = w.storedError /\ u.algorithms = w.algorithms
       /\ u.pendingAbortRequest = w.pendingAbortRequest
  BY <1>1 DEF WritableType, WritableStreams
<1> HIDE DEF u
<1>12. Len(w.queue) \in Nat /\ Len(w.sunk) \in Nat /\ Len(w.writeRequests) \in Nat BY <1>5
<1>13. OrderInv(u)
  <2>1. ASSUME NEW i \in 1..Len(q) PROVE q[i] <= Len(s)
    <3>1. i \in 1..(Len(w.queue) - 1) /\ i + 1 \in 1..Len(w.queue) BY <1>8, <1>12
    <3> QED BY <1>6, <1>8, <3>1 DEF WritableInv, ErrorInv, OrderInv
  <2>2. /\ \A i \in 1..Len(w.sunk) : w.sunk[i] = i
        /\ \A i \in 1..Len(w.writeRequests) : w.writeRequests[i] = Len(w.sunk) + i
        /\ Len(w.sunk) + Len(w.writeRequests) <= Len(s)
    BY <1>6 DEF WritableInv, ErrorInv, OrderInv
  <2>3. /\ u.queue = q /\ u.writes = s /\ u.writeRequests = w.writeRequests
        /\ u.sunk = w.sunk
    BY <1>11
  <2> QED BY Zenon, <2>1, <2>2, <2>3 DEF OrderInv
<1>14. QueueInv(u)
  <2> SUFFICES ASSUME w.state = "writable" PROVE QueueInv(u) BY <1>11 DEF QueueInv
  <2>1. InFlight(u) = 0 /\ CloseMark(u) = CloseMark(w) /\ CloseMark(w) \in {0, 1}
    BY <1>11 DEF InFlight, CloseMark
  <2>2. /\ Len(w.queue) = 1 + Len(w.writeRequests) + CloseMark(w)
        /\ \A i \in 1..Len(w.queue) :
             w.queue[i] = IF i <= 1 + Len(w.writeRequests) THEN Len(w.sunk) - 1 + i ELSE Close
        /\ ~w.storedError /\ w.pendingAbortRequest = "none" /\ w.algorithms
        /\ ~w.closeRequest => Len(w.sunk) + Len(w.writeRequests) = Len(s)
    BY <1>2, <1>6 DEF WritableInv, QueueInv
  <2>3. Len(q) = 0 + Len(w.writeRequests) + CloseMark(w) BY <1>8, <1>12, <2>1, <2>2
  <2>4. ASSUME NEW i \in 1..Len(q)
        PROVE  q[i] = IF i <= 0 + Len(w.writeRequests) THEN Len(w.sunk) - 0 + i ELSE Close
    <3>1. i \in 1..(Len(w.queue) - 1) /\ i + 1 \in 1..Len(w.queue) /\ i \in Nat BY <1>8, <1>12
    <3>2. q[i] = IF i + 1 <= 1 + Len(w.writeRequests) THEN Len(w.sunk) - 1 + (i + 1) ELSE Close
      BY <1>8, <2>2, <3>1
    <3>3. (i + 1 <= 1 + Len(w.writeRequests)) <=> (i <= 0 + Len(w.writeRequests))
      BY <1>12, <3>1
    <3>4. Len(w.sunk) - 1 + (i + 1) = Len(w.sunk) - 0 + i
      <4>1. \A a, b \in Nat : a - 1 + (b + 1) = a - 0 + b OBVIOUS
      <4> QED BY Zenon, <1>12, <3>1, <4>1
    <3> QED BY <3>2, <3>3, <3>4
  <2> QED BY <1>11, <1>7, <2>1, <2>2, <2>3, <2>4 DEF QueueInv
<1>15. DeliveredInv(u) BY <1>2, <1>11 DEF WritableInv, ErrorInv, DeliveredInv, Open
<1>16. WritableInv(u) /\ Keeps(w, u)
  BY <1>6, <1>9, <1>10, <1>11, <1>13, <1>14, <1>15
    DEF WritableInv, ErrorInv, Keeps, Retains, Prompt, Unclosed, Closing,
        writableStreamCloseQueuedOrInFlight
<1> DEFINE b == UpdateIfOpen(u)
<1>17. /\ WritableInv(b) /\ Keeps(u, b) /\ b.state = u.state
       /\ b.inFlightCloseRequest = u.inFlightCloseRequest
  BY <1>16, UpdatesBackpressure
<1>18. Open(b) /\ ~b.inFlightCloseRequest BY <1>2, <1>11, <1>17 DEF Open
<1> HIDE DEF b
<1> QED BY <1>4, <1>16, <1>17, <1>18, AdvancesQueue DEF Keeps, Retains, b

\* The sink's write() failed.
LEMMA WriteRejected ==
  ASSUME NEW w, WritableInv(w), w.inFlightWriteRequest # 0
  PROVE  LET v == SinkWriteRejected(w) IN WritableInv(v) /\ Keeps(w, v) /\ Closing(v)
<1> DEFINE s == [w.writes EXCEPT ![w.inFlightWriteRequest] = "rejected"]
           a == IF w.state = "writable" THEN FALSE ELSE w.algorithms
           u == [w EXCEPT !.writes = s, !.inFlightWriteRequest = 0, !.sink = "none",
                          !.algorithms = a]
<1>1. WritableType(w) /\ w.failed = FALSE BY DEF WritableInv, ErrorInv, SinkInv
<1>2. Open(w) /\ ~w.inFlightCloseRequest /\ w.started
  BY DEF WritableInv, ErrorInv, SinkInv
<1>3. a \in BOOLEAN BY <1>1, WritableFields
<1>4. SinkWriteRejected(w) = writableStreamDealWithRejection(u)
  <2> DEFINE c == IF w.state = "writable"
                    THEN writableStreamDefaultControllerClearAlgorithms(w) ELSE w
  <2>1. c = [w EXCEPT !.algorithms = a]
    BY <1>1 DEF writableStreamDefaultControllerClearAlgorithms, WritableType, WritableStreams
  <2> HIDE DEF a, c
  <2>2. Asserting(c, w.inFlightWriteRequest # 0) = c
    BY <1>1, <2>1 DEF Asserting, WritableType, WritableStreams
  <2>3. [c EXCEPT !.writes[w.inFlightWriteRequest] = "rejected",
                  !.inFlightWriteRequest = 0, !.sink = "none"] = u
    BY <1>1, <2>1 DEF WritableType, WritableStreams
  <2> QED BY <2>2, <2>3 DEF SinkWriteRejected, c
<1>5. s \in Seq(Promises) /\ Len(s) = Len(w.writes)
  BY <1>1, WritableFields, Settled, ExceptFacts
<1>6. w.pendingAbortRequest = "fresh" => a
  BY <1>2 DEF WritableInv, ErrorInv, SinkInv, Open
<1> HIDE DEF s, a
<1>7. WritableType(u) BY <1>1, <1>3, <1>5 DEF WritableType, WritableStreams
<1>8. SinkInv(u)
  BY <1>1, <1>2, <1>6, WritableFields
    DEF WritableInv, ErrorInv, SinkInv, Open, WritableType, WritableStreams
<1>9. OrderInv(u)
  <2>1. /\ u.queue = w.queue /\ u.writes = s /\ u.writeRequests = w.writeRequests
        /\ u.sunk = w.sunk
    BY <1>1 DEF WritableType, WritableStreams
  <2> HIDE DEF u
  <2> QED BY <1>5, <2>1 DEF WritableInv, ErrorInv, OrderInv
<1>10. /\ u.state = w.state /\ u.started /\ u.inFlightWriteRequest = 0
       /\ ~u.inFlightCloseRequest /\ Keeps(w, u) /\ u.storedError = w.storedError
  BY <1>1, <1>2, <1>5 DEF WritableType, WritableStreams, Keeps, Retains, Prompt, Unclosed, Closing,
       writableStreamCloseQueuedOrInFlight
<1>11. DeliveredInv(u)
  BY <1>1, <1>2 DEF WritableInv, ErrorInv, DeliveredInv, Open, WritableType, WritableStreams
<1>12. /\ ErrorInv(u) /\ Open(u) /\ (u.state = "writable" => ~u.storedError)
  BY <1>2, <1>7, <1>8, <1>9, <1>10, <1>11 DEF ErrorInv, Open, WritableInv, QueueInv
<1> HIDE DEF u
<1> QED BY <1>4, <1>10, <1>12, DealsWithRejection DEF Keeps, Retains, Prompt, Unclosed, Closing

\* The sink's close() succeeded, possibly against an error that was on its way.
LEMMA CloseFulfilled ==
  ASSUME NEW w, WritableInv(w), w.inFlightCloseRequest
  PROVE  LET v == writableStreamFinishInFlightClose(w)
         IN WritableInv(v) /\ Keeps(w, v) /\ v.state = "closed"
<1> DEFINE d == IF w.writer THEN Resolve(w.closed) ELSE w.closed
           a == Resolve(w.abort)
           e == [w EXCEPT !.inFlightCloseRequest = FALSE, !.close = "resolved",
                          !.sink = "none", !.state = "closed", !.closed = d]
           f == [w EXCEPT !.inFlightCloseRequest = FALSE, !.close = "resolved",
                          !.sink = "none", !.state = "closed", !.closed = d,
                          !.storedError = FALSE, !.abort = a,
                          !.pendingAbortRequest = "none"]
<1>1. WritableType(w) /\ w.failed = FALSE BY DEF WritableInv, ErrorInv, SinkInv
<1>2. Open(w) /\ w.inFlightWriteRequest = 0 /\ w.started
  BY WritableFields DEF WritableInv, ErrorInv, SinkInv
<1>3. Asserting(w, w.inFlightCloseRequest /\ w.state \in {"writable", "erroring"}) = w
  BY <1>1, <1>2 DEF Asserting, WritableType, WritableStreams, Open
<1>4. /\ d \in Promises /\ a \in Promises
      /\ w.writer /\ d = "rejected" => FALSE
  <2>1. d \in Promises /\ a \in Promises BY <1>1, WritableFields, Settled
  <2>2. w.writer => w.closed # "rejected" BY <1>2 DEF WritableInv, ErrorInv, SinkInv, Open
  <2> QED BY <2>1, <2>2 DEF Resolve
<1>5. writableStreamFinishInFlightClose(w) =
        IF w.state = "erroring"
          THEN [e EXCEPT !.storedError = FALSE, !.abort = Resolve(@),
                         !.pendingAbortRequest = "none"]
          ELSE Asserting(e, w.pendingAbortRequest = "none" /\ ~w.storedError)
  BY <1>3 DEF writableStreamFinishInFlightClose
<1>6. [e EXCEPT !.storedError = FALSE, !.abort = Resolve(@), !.pendingAbortRequest = "none"] = f
  BY <1>1 DEF WritableType, WritableStreams
<1> HIDE DEF d, a
<1>7. WritableType(e) /\ WritableType(f)
  <2>1. WritableType(e) BY <1>1, <1>4, Settled DEF WritableType, WritableStreams
  <2>2. WritableType(f) BY <1>1, <1>4, Settled DEF WritableType, WritableStreams
  <2> QED BY <2>1, <2>2
<1>8. SinkInv(f)
  BY <1>1, <1>2, <1>4 DEF WritableInv, ErrorInv, SinkInv, Open, WritableType, WritableStreams
<1>9. OrderInv(e) /\ OrderInv(f)
  BY <1>1 DEF WritableInv, ErrorInv, OrderInv, WritableType, WritableStreams
<1>10. DeliveredInv(e) /\ DeliveredInv(f)
  BY <1>1 DEF WritableInv, ErrorInv, DeliveredInv, WritableType, WritableStreams
<1>11. f.state = "closed" /\ f.pendingAbortRequest = "none" /\ Keeps(w, f)
  BY <1>1 DEF Keeps, Retains, Prompt, Unclosed, Closing, WritableType, WritableStreams,
         writableStreamCloseQueuedOrInFlight
<1>12. CASE w.state = "erroring"
  <2>1. writableStreamFinishInFlightClose(w) = f BY <1>5, <1>6, <1>12
  <2> QED BY <1>7, <1>8, <1>9, <1>11, <1>10, <2>1 DEF WritableInv, ErrorInv, QueueInv
<1>13. CASE w.state = "writable"
  <2>1. w.pendingAbortRequest = "none" /\ ~w.storedError
    BY <1>13 DEF WritableInv, QueueInv
  <2>2. Asserting(e, w.pendingAbortRequest = "none" /\ ~w.storedError) = e
    BY <1>1, <2>1 DEF Asserting, WritableType, WritableStreams
  <2>3. writableStreamFinishInFlightClose(w) = e BY <1>5, <1>13, <2>2
  <2>4. SinkInv(e)
    BY <1>1, <1>2, <1>4, <2>1
      DEF WritableInv, ErrorInv, SinkInv, Open, WritableType, WritableStreams
  <2>5. e.state = "closed" /\ e.pendingAbortRequest = "none" /\ Keeps(w, e)
    BY <1>1, <2>1 DEF Keeps, Retains, Prompt, Unclosed, Closing, WritableType, WritableStreams,
         writableStreamCloseQueuedOrInFlight
  <2> QED BY <1>7, <1>9, <1>10, <2>3, <2>4, <2>5 DEF WritableInv, ErrorInv, QueueInv
<1> QED BY <1>2, <1>12, <1>13 DEF Open

\* The sink's close() failed.
LEMMA CloseRejected ==
  ASSUME NEW w, WritableInv(w), w.inFlightCloseRequest
  PROVE  LET v == writableStreamFinishInFlightCloseWithError(w)
         IN WritableInv(v) /\ Keeps(w, v) /\ Closing(v)
<1> DEFINE a == Reject(w.abort)
           u == [w EXCEPT !.inFlightCloseRequest = FALSE, !.close = "rejected",
                          !.sink = "none", !.abort = a, !.pendingAbortRequest = "none"]
<1>1. WritableType(w) /\ w.failed = FALSE BY DEF WritableInv, ErrorInv, SinkInv
<1>2. Open(w) /\ w.inFlightWriteRequest = 0 /\ w.started
  BY WritableFields DEF WritableInv, ErrorInv, SinkInv
<1>3. Asserting(w, w.inFlightCloseRequest /\ w.state \in {"writable", "erroring"}) = w
  BY <1>1, <1>2 DEF Asserting, WritableType, WritableStreams, Open
<1>4. a \in Promises BY <1>1, WritableFields, Settled
<1>5. writableStreamFinishInFlightCloseWithError(w) = writableStreamDealWithRejection(u)
  BY <1>3 DEF writableStreamFinishInFlightCloseWithError
<1> HIDE DEF a
<1>6. WritableType(u) BY <1>1, <1>4, Settled DEF WritableType, WritableStreams
<1>7. SinkInv(u)
  BY <1>1, <1>2 DEF WritableInv, ErrorInv, SinkInv, Open, WritableType, WritableStreams
<1>8. OrderInv(u) BY <1>1 DEF WritableInv, ErrorInv, OrderInv, WritableType, WritableStreams
<1>9. /\ u.state = w.state /\ u.started /\ u.inFlightWriteRequest = 0
      /\ ~u.inFlightCloseRequest /\ u.writer = w.writer /\ u.writes = w.writes
      /\ u.storedError = w.storedError /\ u.sunk = w.sunk
      /\ u.writeRequests = w.writeRequests
  BY <1>1, <1>2 DEF WritableType, WritableStreams
<1>10. DeliveredInv(u)
  BY <1>1, <1>2 DEF DeliveredInv, Open, WritableType, WritableStreams
<1>11. Prompt(w) => Prompt(u) BY <1>9 DEF Prompt
<1>12. /\ ErrorInv(u) /\ Open(u) /\ (u.state = "writable" => ~u.storedError)
  BY <1>2, <1>6, <1>7, <1>8, <1>9, <1>10 DEF ErrorInv, Open, WritableInv, QueueInv
<1> HIDE DEF u
<1> QED BY <1>5, <1>9, <1>12, <1>11, DealsWithRejection
    DEF Keeps, Retains, Unclosed, Closing, writableStreamCloseQueuedOrInFlight

\* The promise of the sink's callback is settled, whichever it is.
LEMMA Settles ==
  ASSUME NEW w, WritableInv(w), w.sink # "none", NEW ok \in BOOLEAN
  PROVE  LET v == SinkSettles(w, ok) IN WritableInv(v) /\ Keeps(w, v)
<1>1. WritableType(w) BY DEF WritableInv, ErrorInv
<1>2. CASE w.sink = "write"
  <2>1. w.inFlightWriteRequest # 0 BY <1>2 DEF WritableInv, ErrorInv, SinkInv
  <2>2. SinkSettles(w, ok) = IF ok THEN SinkWriteFulfilled(w) ELSE SinkWriteRejected(w)
    BY <1>2 DEF SinkSettles
  <2> QED BY <2>1, <2>2, WriteFulfilled, WriteRejected
<1>3. CASE w.sink = "close"
  <2>1. w.inFlightCloseRequest BY <1>3 DEF WritableInv, ErrorInv, SinkInv
  <2>2. SinkSettles(w, ok) = IF ok THEN writableStreamFinishInFlightClose(w)
                             ELSE writableStreamFinishInFlightCloseWithError(w)
    BY <1>3 DEF SinkSettles
  <2> QED BY <2>1, <2>2, CloseFulfilled, CloseRejected
<1>4. CASE w.sink = "abort"
  <2> DEFINE a == IF ok THEN Resolve(w.abort) ELSE Reject(w.abort)
             u == [w EXCEPT !.abort = a, !.sink = "none"]
  <2>1. SinkSettles(w, ok) = writableStreamRejectCloseAndClosedPromiseIfNeeded(u)
    BY <1>4 DEF SinkSettles, SinkAbortSettles
  <2>2. a \in Promises BY <1>1, WritableFields, Settled
  <2>3. w.state = "errored" BY <1>4 DEF WritableInv, ErrorInv, SinkInv
  <2> HIDE DEF a
  <2>4. WritableType(u) BY <1>1, <2>2 DEF WritableType, WritableStreams
  <2>5. SinkInv(u)
    BY <1>1, <2>3 DEF WritableInv, ErrorInv, SinkInv, Open, WritableType, WritableStreams
  <2>6. OrderInv(u) BY <1>1 DEF WritableInv, ErrorInv, OrderInv, WritableType, WritableStreams
  <2>7. u.state = "errored" /\ u.sink = "none" /\ Keeps(w, u) /\ u.pendingAbortRequest = "none"
    BY <1>1, <2>3
      DEF WritableInv, Keeps, Retains, Prompt, Unclosed, Closing, WritableType,
          WritableStreams, writableStreamCloseQueuedOrInFlight
  <2>8. DeliveredInv(u)
    BY <1>1 DEF WritableInv, ErrorInv, DeliveredInv, WritableType, WritableStreams
  <2>9. ErrorInv(u) BY <2>4, <2>5, <2>6, <2>8 DEF ErrorInv
  <2> HIDE DEF u
  <2> QED BY <2>1, <2>7, <2>9, RejectsClose DEF Keeps, Retains
<1> QED BY <1>1, <1>2, <1>3, <1>4, WritableFields

-----------------------------------------------------------------------------
(* The readable stream. *)

Outcomes == Numbers \cup {Pending, Done, Failed}

ReadableType(r) == r \in ReadableStreams(Numbers)

\* The source is pulled at most once at a time and not before it has started; chunks and
\* read requests never wait for each other; a stream that is to close still has chunks.
SourceInv(r) ==
  /\ r.failed = FALSE
  /\ r.state = "readable" => r.algorithms
  /\ r.state # "readable" => r.queue = <<>>
  /\ r.pull = "idle" => ~r.pullAgain
  /\ r.start # "resolved" => r.pull = "idle"
  /\ r.readRequests # <<>> =>
       r.state = "readable" /\ r.queue = <<>> /\ r.reader /\ ~r.closeRequested
  /\ r.state = "readable" /\ r.closeRequested => r.queue # <<>>

ReadableInv(r) == ReadableType(r) /\ SourceInv(r)

\* What an operation does to the chunks and the requests: nothing,
Same(r, v) ==
  /\ v.queue = r.queue /\ v.reads = r.reads /\ v.readRequests = r.readRequests
  /\ v.state = r.state /\ v.reader = r.reader

\* or it ends the stream, and with it every read request; only a cancel gives chunks up
\* and leaves the stream closed.
Ended(r, v) ==
  /\ r.state = "readable" /\ v.state # "readable" /\ v.queue = <<>>
  /\ v.readRequests = <<>> /\ v.reader = r.reader
  /\ Len(v.reads) = Len(r.reads)
  /\ \A i \in 1..Len(r.reads) : i \in Range(r.readRequests) => v.reads[i] \in {Done, Failed}
  /\ \A i \in 1..Len(r.reads) : i \notin Range(r.readRequests) => v.reads[i] = r.reads[i]
  /\ v.state = "closed" => r.queue = <<>> \/ v.cancel # "none"

SameOrEnded(r, v) == Same(r, v) \/ Ended(r, v)

\* The types of the fields.
LEMMA ReadableFields ==
  ASSUME NEW r, ReadableType(r)
  PROVE  /\ r.state \in {"readable", "closed", "errored"}
         /\ r.start \in {"pending", "resolved", "rejected"} /\ r.hwm \in Nat
         /\ r.queue \in Seq(Numbers) /\ r.closeRequested \in BOOLEAN
         /\ r.pull \in {"idle", "pending", "rejected"} /\ r.pullAgain \in BOOLEAN
         /\ r.algorithms \in BOOLEAN /\ r.reader \in BOOLEAN /\ r.closed \in Promises
         /\ r.readRequests \in Seq(Nat) /\ r.reads \in Seq(Outcomes)
         /\ r.cancel \in Promises /\ r.failed \in BOOLEAN
BY DEF ReadableType, ReadableStreams, Outcomes

\* A new readable stream.
LEMMA ReadableInit ==
  ASSUME NEW h \in Nat
  PROVE  LET r == initializeReadableStream(h)
         IN /\ ReadableInv(r) /\ ~r.reader /\ r.readRequests = <<>> /\ r.reads = <<>>
            /\ r.queue = <<>>
<1> DEFINE r == initializeReadableStream(h)
<1>1. ReadableType(r)
  <2>1. /\ <<>> \in Seq(Numbers) /\ <<>> \in Seq(Nat)
        /\ <<>> \in Seq(Numbers \cup {Pending, Done, Failed})
    OBVIOUS
  <2> QED BY <2>1, Settled DEF initializeReadableStream, ReadableType, ReadableStreams
<1>2. SourceInv(r) BY DEF initializeReadableStream, SourceInv
<1> QED BY <1>1, <1>2 DEF initializeReadableStream, ReadableInv

\* A readable stream is closed, or is errored, when its queue is empty or given up.
CanEnd(r) ==
  /\ ReadableType(r) /\ r.state = "readable" /\ r.failed = FALSE /\ r.queue = <<>>
  /\ r.readRequests # <<>> => r.reader
  /\ r.pull = "idle" => ~r.pullAgain
  /\ r.start # "resolved" => r.pull = "idle"

EndsAs(r, state, outcome, closed) ==
  IF r.reader
    THEN [r EXCEPT !.state = state, !.closed = closed, !.readRequests = <<>>,
                   !.reads = [i \in DOMAIN @ |-> IF i \in Range(r.readRequests)
                                                   THEN outcome ELSE @[i]]]
    ELSE [r EXCEPT !.state = state]

\* The end of a stream settles every read request.
LEMMA ReadableEndsAs ==
  ASSUME NEW r, CanEnd(r),
         NEW e \in {"closed", "errored"}, NEW o \in {Done, Failed}, NEW d \in Promises
  PROVE  LET v == EndsAs(r, e, o, d)
         IN /\ ReadableInv(v) /\ Ended(r, v) /\ v.state = e
            /\ v.cancel = r.cancel /\ v.algorithms = r.algorithms /\ v.start = r.start
            /\ v.pull = r.pull /\ v.pullAgain = r.pullAgain
<1> DEFINE t == [i \in DOMAIN r.reads |-> IF i \in Range(r.readRequests) THEN o ELSE r.reads[i]]
<1> USE DEF CanEnd
<1>1. /\ t \in Seq(Outcomes) /\ Len(t) = Len(r.reads)
      /\ \A i \in 1..Len(r.reads) : i \in Range(r.readRequests) => t[i] \in {Done, Failed}
      /\ \A i \in 1..Len(r.reads) : i \notin Range(r.readRequests) => t[i] = r.reads[i]
  <2>1. r.reads \in Seq(Outcomes) BY ReadableFields
  <2>2. /\ Len(r.reads) \in Nat /\ DOMAIN r.reads = 1..Len(r.reads)
        /\ \A i \in 1..Len(r.reads) : r.reads[i] \in Outcomes
    BY <2>1
  <2>3. o \in Outcomes BY DEF Outcomes
  <2> QED BY <2>2, <2>3
<1>2. CASE r.reader
  <2> DEFINE v == [r EXCEPT !.state = e, !.closed = d, !.readRequests = <<>>, !.reads = t]
  <2>1. EndsAs(r, e, o, d) = v BY <1>2 DEF EndsAs
  <2>2. <<>> \in Seq(Nat) OBVIOUS
  <2> HIDE DEF t
  <2>3. ReadableType(v) BY <1>1, <2>2 DEF ReadableType, ReadableStreams, Outcomes
  <2>4. /\ v.state = e /\ v.queue = r.queue /\ v.readRequests = <<>> /\ v.reader = r.reader
        /\ v.cancel = r.cancel /\ v.algorithms = r.algorithms /\ v.start = r.start
        /\ v.pull = r.pull /\ v.pullAgain = r.pullAgain /\ v.reads = t /\ v.failed = FALSE
    BY DEF ReadableType, ReadableStreams
  <2> HIDE DEF v
  <2>5. SourceInv(v) BY <2>4 DEF SourceInv
  <2>6. Ended(r, v) BY <1>1, <2>4 DEF Ended
  <2> QED BY <2>1, <2>3, <2>4, <2>5, <2>6 DEF ReadableInv
<1>3. CASE ~r.reader
  <2> DEFINE v == [r EXCEPT !.state = e]
  <2>1. EndsAs(r, e, o, d) = v BY <1>3 DEF EndsAs
  <2>2. ReadableType(v) BY DEF ReadableType, ReadableStreams
  <2>3. /\ v.state = e /\ v.queue = r.queue /\ v.readRequests = <<>> /\ v.reader = r.reader
        /\ v.cancel = r.cancel /\ v.algorithms = r.algorithms /\ v.start = r.start
        /\ v.pull = r.pull /\ v.pullAgain = r.pullAgain /\ v.reads = r.reads /\ v.failed = FALSE
    BY <1>3 DEF ReadableType, ReadableStreams
  <2>4. Range(r.readRequests) = {} BY <1>3 DEF Range
  <2> HIDE DEF v
  <2>5. SourceInv(v) BY <2>3 DEF SourceInv
  <2>6. Ended(r, v) BY <2>3, <2>4 DEF Ended
  <2> QED BY <2>1, <2>2, <2>3, <2>5, <2>6 DEF ReadableInv
<1> QED BY <1>2, <1>3

\* readableStreamClose() and readableStreamError().
LEMMA ReadableEnds ==
  ASSUME NEW r, CanEnd(r)
  PROVE  /\ LET v == readableStreamClose(r)
            IN /\ ReadableInv(v) /\ Ended(r, v) /\ v.state = "closed"
               /\ v.cancel = r.cancel /\ v.algorithms = r.algorithms /\ v.start = r.start
               /\ v.pull = r.pull /\ v.pullAgain = r.pullAgain
         /\ LET v == readableStreamError(r)
            IN /\ ReadableInv(v) /\ Ended(r, v) /\ v.state = "errored"
               /\ v.cancel = r.cancel /\ v.algorithms = r.algorithms /\ v.start = r.start
               /\ v.pull = r.pull /\ v.pullAgain = r.pullAgain
<1>1. ReadableType(r) /\ Asserting(r, r.state = "readable") = r
  BY DEF CanEnd, Asserting, ReadableType, ReadableStreams
<1>2. Resolve(r.closed) \in Promises /\ Reject(r.closed) \in Promises
  BY <1>1, ReadableFields, Settled
<1>3. readableStreamClose(r) = EndsAs(r, "closed", Done, Resolve(r.closed))
  BY <1>1, ZenonT(60) DEF readableStreamClose, SettleReads, EndsAs, ReadableType, ReadableStreams
<1>4. readableStreamError(r) = EndsAs(r, "errored", Failed, Reject(r.closed))
  BY <1>1, ZenonT(60) DEF readableStreamError, SettleReads, EndsAs, ReadableType, ReadableStreams
<1>5. "closed" \in {"closed", "errored"} /\ Done \in {Done, Failed} OBVIOUS
<1>6. "errored" \in {"closed", "errored"} /\ Failed \in {Done, Failed} OBVIOUS
<1>7. LET v == readableStreamClose(r)
      IN /\ ReadableInv(v) /\ Ended(r, v) /\ v.state = "closed"
         /\ v.cancel = r.cancel /\ v.algorithms = r.algorithms /\ v.start = r.start
         /\ v.pull = r.pull /\ v.pullAgain = r.pullAgain
  BY <1>2, <1>3, <1>5, ReadableEndsAs
<1>8. LET v == readableStreamError(r)
      IN /\ ReadableInv(v) /\ Ended(r, v) /\ v.state = "errored"
         /\ v.cancel = r.cancel /\ v.algorithms = r.algorithms /\ v.start = r.start
         /\ v.pull = r.pull /\ v.pullAgain = r.pullAgain
  BY <1>2, <1>4, <1>6, ReadableEndsAs
<1> QED BY <1>7, <1>8

\* error() of the controller, and every error of the stream's own code.
LEMMA ReadableErrors ==
  ASSUME NEW r, ReadableInv(r)
  PROVE  LET v == readableStreamDefaultControllerError(r)
         IN /\ ReadableInv(v) /\ SameOrEnded(r, v) /\ v.state # "readable"
            /\ v.cancel = r.cancel /\ v.start = r.start /\ v.pull = r.pull
            /\ v.pullAgain = r.pullAgain /\ v.reader = r.reader
            /\ r.state = "readable" => v.state = "errored"
<1>1. CASE r.state # "readable"
  BY <1>1 DEF readableStreamDefaultControllerError, SameOrEnded, Same
<1>2. CASE r.state = "readable"
  <2> DEFINE u == [r EXCEPT !.queue = <<>>, !.algorithms = FALSE]
             v == readableStreamDefaultControllerError(r)
  <2>1. v = readableStreamError(u)
    BY <1>2 DEF readableStreamDefaultControllerError
  <2>2. ReadableType(r) BY DEF ReadableInv
  <2>3. ReadableType(u)
    <3>1. <<>> \in Seq(Numbers) OBVIOUS
    <3> QED BY <2>2, <3>1 DEF ReadableType, ReadableStreams
  <2>4. /\ u.state = "readable" /\ u.failed = FALSE /\ u.queue = <<>>
        /\ u.readRequests = r.readRequests /\ u.reader = r.reader /\ u.reads = r.reads
        /\ u.pull = r.pull /\ u.pullAgain = r.pullAgain /\ u.start = r.start
        /\ u.cancel = r.cancel
    BY <1>2, <2>2 DEF ReadableInv, SourceInv, ReadableType, ReadableStreams
  <2> HIDE DEF u, v
  <2>5. CanEnd(u) BY <2>3, <2>4 DEF CanEnd, ReadableInv, SourceInv
  <2>6. /\ ReadableInv(v) /\ Ended(u, v) /\ v.state = "errored"
        /\ v.cancel = u.cancel /\ v.start = u.start /\ v.pull = u.pull
        /\ v.pullAgain = u.pullAgain
    BY <2>1, <2>5, ReadableEnds
  <2>7. Ended(r, v) BY <1>2, <2>4, <2>6 DEF Ended
  <2> QED BY <2>4, <2>6, <2>7 DEF SameOrEnded, Ended, v
<1> QED BY <1>1, <1>2

\* cancel() of the stream.
LEMMA ReadableCancels ==
  ASSUME NEW r, ReadableInv(r)
  PROVE  LET v == readableStreamCancel(r)
         IN /\ ReadableInv(v) /\ SameOrEnded(r, v) /\ v.state # "readable"
            /\ v.reader = r.reader /\ (r.cancel # "none" => v.cancel # "none")
            /\ v.start = r.start /\ v.pull = r.pull
<1>1. CASE r.state # "readable"
  BY <1>1 DEF readableStreamCancel, SameOrEnded, Same
<1>2. CASE r.state = "readable"
  <2> DEFINE x == [r EXCEPT !.queue = <<>>]
             u == readableStreamClose(r)
             v == [u EXCEPT !.queue = <<>>, !.cancel = "pending", !.algorithms = FALSE]
             t == [i \in DOMAIN r.reads |-> IF i \in Range(r.readRequests)
                                              THEN Done ELSE r.reads[i]]
             c == IF r.reader THEN Resolve(r.closed) ELSE r.closed
             rs == IF r.reader THEN t ELSE r.reads
             rq == IF r.reader THEN <<>> ELSE r.readRequests
  <2>1. ReadableType(r) /\ r.failed = FALSE /\ r.algorithms
    BY <1>2 DEF ReadableInv, SourceInv
  <2>2. Asserting(r, r.state = "readable") = r
    BY <1>2, <2>1 DEF Asserting, ReadableType, ReadableStreams
  <2>3. u = [r EXCEPT !.state = "closed", !.reads = rs, !.readRequests = rq, !.closed = c]
    BY <2>1, <2>2 DEF readableStreamClose, SettleReads, ReadableType, ReadableStreams
  <2>4. Asserting(u, r.algorithms) = u
    <3> HIDE DEF rs, rq, c, u
    <3> QED BY <2>1, <2>3 DEF Asserting, ReadableType, ReadableStreams
  <2>5. readableStreamCancel(r) = v BY <1>2, <2>4 DEF readableStreamCancel
  <2>6. ReadableType(x)
    <3>1. <<>> \in Seq(Numbers) OBVIOUS
    <3> QED BY <2>1, <3>1 DEF ReadableType, ReadableStreams
  <2>7. /\ x.state = "readable" /\ x.failed = FALSE /\ x.queue = <<>>
        /\ x.readRequests = r.readRequests /\ x.reader = r.reader /\ x.reads = r.reads
        /\ x.pull = r.pull /\ x.pullAgain = r.pullAgain /\ x.start = r.start
        /\ x.cancel = r.cancel /\ x.closed = r.closed
    BY <1>2, <2>1 DEF ReadableType, ReadableStreams
  <2>8. Asserting(x, x.state = "readable") = x
    BY <2>6, <2>7 DEF Asserting, ReadableType, ReadableStreams
  <2> DEFINE y == readableStreamClose(x)
  <2>9. y = [x EXCEPT !.state = "closed", !.reads = rs, !.readRequests = rq, !.closed = c]
    <3> DEFINE tx == [i \in DOMAIN x.reads |-> IF i \in Range(x.readRequests)
                                                 THEN Done ELSE x.reads[i]]
               cx == IF x.reader THEN Resolve(x.closed) ELSE x.closed
               rsx == IF x.reader THEN tx ELSE x.reads
               rqx == IF x.reader THEN <<>> ELSE x.readRequests
    <3> HIDE DEF x
    <3>1. y = [x EXCEPT !.state = "closed", !.reads = rsx, !.readRequests = rqx, !.closed = cx]
      BY <2>6, <2>8 DEF readableStreamClose, SettleReads, ReadableType, ReadableStreams
    <3>2. tx = t BY <2>7
    <3>3. rsx = rs /\ rqx = rq /\ cx = c
      <4> HIDE DEF t, tx
      <4> QED BY <2>7, <3>2
    <3> QED BY <3>1, <3>3
  <2>10. v = [y EXCEPT !.cancel = "pending", !.algorithms = FALSE]
    <3> HIDE DEF rs, rq, c, u, y
    <3> QED BY <2>1, <2>3, <2>9 DEF ReadableType, ReadableStreams
  <2>11. CanEnd(x)
    <3> HIDE DEF x
    <3> QED BY <2>6, <2>7 DEF CanEnd, ReadableInv, SourceInv
  <2> HIDE DEF x, v
  <2>12. /\ ReadableInv(y) /\ Ended(x, y) /\ y.start = x.start /\ y.pull = x.pull
    BY <2>11, ReadableEnds
  <2> HIDE DEF y
  <2>13. ReadableType(v)
    BY <2>10, <2>12, Settled DEF ReadableInv, ReadableType, ReadableStreams
  <2>14. /\ v.state = y.state /\ v.failed = y.failed /\ v.queue = y.queue
         /\ v.readRequests = y.readRequests /\ v.reader = y.reader /\ v.reads = y.reads
         /\ v.pull = y.pull /\ v.pullAgain = y.pullAgain /\ v.start = y.start
         /\ v.cancel = "pending" /\ v.closeRequested = y.closeRequested
    BY <2>10, <2>12 DEF ReadableInv, ReadableType, ReadableStreams
  <2>15. ReadableInv(v) BY <2>12, <2>13, <2>14 DEF ReadableInv, SourceInv, Ended
  <2>16. Ended(r, v) BY <1>2, <2>7, <2>12, <2>14 DEF Ended
  <2> QED BY <2>5, <2>7, <2>12, <2>14, <2>15, <2>16 DEF SameOrEnded, Ended
<1> QED BY <1>1, <1>2

-----------------------------------------------------------------------------
(* The controller and the reader of the readable stream. *)

\* A pull changes neither chunks nor requests.
LEMMA CallsPull ==
  ASSUME NEW r, ReadableInv(r)
  PROVE  LET v == readableStreamDefaultControllerCallPullIfNeeded(r)
         IN /\ ReadableInv(v) /\ Same(r, v) /\ v.cancel = r.cancel /\ v.start = r.start
            /\ v.closeRequested = r.closeRequested
<1> DEFINE should == readableStreamDefaultcontrollerShouldCallPull(r)
<1>1. ReadableType(r) BY DEF ReadableInv
<1>2. CASE ~should
  BY <1>2 DEF readableStreamDefaultControllerCallPullIfNeeded, Same
<1>3. CASE should /\ r.pull # "idle"
  <2> DEFINE v == [r EXCEPT !.pullAgain = TRUE]
  <2>1. readableStreamDefaultControllerCallPullIfNeeded(r) = v
    BY <1>3 DEF readableStreamDefaultControllerCallPullIfNeeded
  <2>2. ReadableType(v) BY <1>1 DEF ReadableType, ReadableStreams
  <2>3. /\ SourceInv(v) /\ Same(r, v) /\ v.cancel = r.cancel /\ v.start = r.start
        /\ v.closeRequested = r.closeRequested
    BY <1>1, <1>3 DEF ReadableInv, SourceInv, Same, ReadableType, ReadableStreams
  <2> QED BY <2>1, <2>2, <2>3 DEF ReadableInv
<1>4. CASE should /\ r.pull = "idle"
  <2> DEFINE v == [r EXCEPT !.pull = "pending"]
  <2>1. r.start = "resolved" /\ r.state = "readable"
    BY <1>4 DEF readableStreamDefaultcontrollerShouldCallPull,
         readableStreamDefaultControllerCanCloseOrEnqueue
  <2>2. ~r.pullAgain /\ r.algorithms /\ r.failed = FALSE
    BY <1>4, <2>1 DEF ReadableInv, SourceInv
  <2>3. Asserting(r, ~r.pullAgain /\ r.algorithms) = r
    BY <1>1, <2>2 DEF Asserting, ReadableType, ReadableStreams
  <2>4. readableStreamDefaultControllerCallPullIfNeeded(r) = v
    BY <1>4, <2>3 DEF readableStreamDefaultControllerCallPullIfNeeded
  <2>5. ReadableType(v) BY <1>1 DEF ReadableType, ReadableStreams
  <2>6. /\ SourceInv(v) /\ Same(r, v) /\ v.cancel = r.cancel /\ v.start = r.start
        /\ v.closeRequested = r.closeRequested
    BY <1>1, <2>1 DEF ReadableInv, SourceInv, Same, ReadableType, ReadableStreams
  <2> QED BY <2>4, <2>5, <2>6 DEF ReadableInv
<1> QED BY <1>2, <1>3, <1>4

\* close() of the controller.
LEMMA ReadableCloses ==
  ASSUME NEW r, ReadableInv(r)
  PROVE  LET v == readableStreamDefaultControllerClose(r)
         IN /\ ReadableInv(v) /\ SameOrEnded(r, v) /\ v.cancel = r.cancel
            /\ v.start = r.start /\ v.pull = r.pull
            /\ v.reader = r.reader
            /\ v.state # "errored" \/ r.state = "errored"
<1>1. ReadableType(r) BY DEF ReadableInv
<1>2. CASE ~readableStreamDefaultControllerCanCloseOrEnqueue(r)
  BY <1>2 DEF readableStreamDefaultControllerClose, SameOrEnded, Same
<1>3. CASE readableStreamDefaultControllerCanCloseOrEnqueue(r) /\ r.queue = <<>>
  <2> DEFINE u == [r EXCEPT !.closeRequested = TRUE, !.algorithms = FALSE]
             v == readableStreamDefaultControllerClose(r)
  <2>1. v = readableStreamClose(u) BY <1>3 DEF readableStreamDefaultControllerClose
  <2>2. ReadableType(u) BY <1>1 DEF ReadableType, ReadableStreams
  <2>3. /\ u.state = "readable" /\ u.failed = FALSE /\ u.queue = r.queue
        /\ u.readRequests = r.readRequests /\ u.reader = r.reader /\ u.reads = r.reads
        /\ u.pull = r.pull /\ u.pullAgain = r.pullAgain /\ u.start = r.start
        /\ u.cancel = r.cancel
    BY <1>1, <1>3 DEF ReadableInv, SourceInv, ReadableType, ReadableStreams,
         readableStreamDefaultControllerCanCloseOrEnqueue
  <2> HIDE DEF u, v
  <2>4. CanEnd(u) BY <1>3, <2>2, <2>3 DEF CanEnd, ReadableInv, SourceInv
  <2>5. /\ ReadableInv(v) /\ Ended(u, v) /\ v.cancel = u.cancel /\ v.start = u.start
        /\ v.pull = u.pull /\ v.state = "closed"
    BY <2>1, <2>4, ReadableEnds
  <2>6. Ended(r, v)
    BY <1>3, <2>3, <2>5 DEF Ended, readableStreamDefaultControllerCanCloseOrEnqueue
  <2> QED BY <2>3, <2>5, <2>6 DEF SameOrEnded, Ended, v
<1>4. CASE readableStreamDefaultControllerCanCloseOrEnqueue(r) /\ r.queue # <<>>
  <2> DEFINE v == [r EXCEPT !.closeRequested = TRUE]
  <2>1. readableStreamDefaultControllerClose(r) = v
    BY <1>4 DEF readableStreamDefaultControllerClose
  <2>2. ReadableType(v) BY <1>1 DEF ReadableType, ReadableStreams
  <2>3. /\ SourceInv(v) /\ Same(r, v) /\ v.cancel = r.cancel /\ v.start = r.start
        /\ v.pull = r.pull
    BY <1>1, <1>4 DEF ReadableInv, SourceInv, Same, ReadableType, ReadableStreams
  <2>4. r.state = "readable" BY <1>4 DEF readableStreamDefaultControllerCanCloseOrEnqueue
  <2> QED BY <2>1, <2>2, <2>3, <2>4 DEF ReadableInv, SameOrEnded, Same
<1> QED BY <1>2, <1>3, <1>4

\* enqueue() answers the first read request, or extends the queue, or fails.
Enqueued(r, v, chunk) ==
  /\ v.state = r.state /\ v.reader = r.reader /\ v.cancel = r.cancel
  /\ \/ /\ r.readRequests = <<>> /\ v.readRequests = <<>> /\ v.reads = r.reads
        /\ v.queue = Append(r.queue, chunk)
     \/ /\ r.readRequests # <<>> /\ v.readRequests = Tail(r.readRequests)
        /\ v.reads = [r.reads EXCEPT ![Head(r.readRequests)] = chunk]
        /\ v.queue = r.queue

\* enqueue() of the controller.
LEMMA Enqueues ==
  ASSUME NEW r, ReadableInv(r), readableStreamDefaultControllerCanCloseOrEnqueue(r),
         NEW chunk \in Numbers, NEW size
  PROVE  LET v == readableStreamDefaultControllerEnqueue(r, chunk, size)
         IN /\ ReadableInv(v) /\ v.reader = r.reader /\ v.cancel = r.cancel
            /\ \/ Enqueued(r, v, chunk)
               \/ Ended(r, v) /\ v.state = "errored"
<1>1. ReadableType(r) /\ r.state = "readable" /\ ~r.closeRequested /\ r.failed = FALSE
  BY DEF ReadableInv, SourceInv, readableStreamDefaultControllerCanCloseOrEnqueue
<1>2. CASE r.readRequests # <<>>
  <2> DEFINE s == [r.reads EXCEPT ![Head(r.readRequests)] = chunk]
             q == Tail(r.readRequests)
             u == [r EXCEPT !.reads = s, !.readRequests = q]
             v == readableStreamDefaultControllerCallPullIfNeeded(u)
  <2>1. r.reader /\ r.queue = <<>> BY <1>2 DEF ReadableInv, SourceInv
  <2>2. Asserting(r, r.reader /\ r.readRequests # <<>>) = r
    BY <1>1, <1>2, <2>1 DEF Asserting, ReadableType, ReadableStreams
  <2>3. readableStreamFulfillReadRequest(r, chunk) = u
    BY <2>2 DEF readableStreamFulfillReadRequest
  <2>4. readableStreamDefaultControllerEnqueue(r, chunk, size) = v
    BY <1>2, <2>1, <2>3 DEF readableStreamDefaultControllerEnqueue
  <2>5. chunk \in Outcomes BY DEF Outcomes
  <2>6. s \in Seq(Outcomes) BY <1>1, <2>5, ReadableFields, ExceptFacts
  <2>7. q \in Seq(Nat) BY <1>1, <1>2, ReadableFields, TailFacts
  <2> HIDE DEF s, q
  <2>8. ReadableType(u) BY <1>1, <2>6, <2>7 DEF ReadableType, ReadableStreams, Outcomes
  <2>9. /\ SourceInv(u)
        /\ u.reads = s /\ u.readRequests = q /\ u.queue = r.queue /\ u.state = r.state
        /\ u.reader = r.reader /\ u.cancel = r.cancel
    BY <1>1, <2>1 DEF ReadableInv, SourceInv, ReadableType, ReadableStreams
  <2> HIDE DEF u
  <2>10. ReadableInv(v) /\ Same(u, v) /\ v.cancel = u.cancel
    BY <2>8, <2>9, CallsPull DEF ReadableInv
  <2>11. Enqueued(r, v, chunk)
    BY <1>2, <2>9, <2>10 DEF Enqueued, Same, s, q
  <2> QED BY <2>4, <2>10, <2>11 DEF Enqueued
<1>3. CASE r.readRequests = <<>> /\ size = "one"
  <2> DEFINE q == Append(r.queue, chunk)
             u == [r EXCEPT !.queue = q]
             v == readableStreamDefaultControllerCallPullIfNeeded(u)
  <2>1. r.algorithms BY <1>1 DEF ReadableInv, SourceInv
  <2>2. readableStreamDefaultControllerEnqueue(r, chunk, size) = v
    BY <1>3, <2>1 DEF readableStreamDefaultControllerEnqueue
  <2>3. q \in Seq(Numbers) BY <1>1, ReadableFields, AppendFacts
  <2> HIDE DEF q
  <2>4. ReadableType(u) BY <1>1, <2>3 DEF ReadableType, ReadableStreams
  <2>5. /\ SourceInv(u)
        /\ u.reads = r.reads /\ u.readRequests = r.readRequests /\ u.queue = q
        /\ u.state = r.state /\ u.reader = r.reader /\ u.cancel = r.cancel
    BY <1>1, <1>3 DEF ReadableInv, SourceInv, ReadableType, ReadableStreams
  <2> HIDE DEF u
  <2>6. ReadableInv(v) /\ Same(u, v) /\ v.cancel = u.cancel
    BY <2>4, <2>5, CallsPull DEF ReadableInv
  <2>7. Enqueued(r, v, chunk)
    BY <1>3, <2>5, <2>6 DEF Enqueued, Same, q
  <2> QED BY <2>2, <2>6, <2>7 DEF Enqueued
<1>4. CASE r.readRequests = <<>> /\ size # "one"
  <2> DEFINE v == readableStreamDefaultControllerError(r)
  <2>1. readableStreamDefaultControllerEnqueue(r, chunk, size) = v
    BY <1>4 DEF readableStreamDefaultControllerEnqueue
  <2>2. /\ ReadableInv(v) /\ SameOrEnded(r, v) /\ v.state = "errored"
        /\ v.cancel = r.cancel /\ v.reader = r.reader
    BY <1>1, ReadableErrors
  <2> QED BY <1>1, <2>1, <2>2 DEF SameOrEnded, Same
<1> QED BY <1>2, <1>3, <1>4

\* read() is answered from the queue, or waits, or comes after the end.
ReadAs(r, v, outcome) ==
  /\ Len(v.reads) = Len(r.reads) + 1 /\ v.reads[Len(r.reads) + 1] = outcome
  /\ \A i \in 1..Len(r.reads) : v.reads[i] = r.reads[i]
IsRead(r, v) ==
  /\ v.reader = r.reader /\ v.cancel = r.cancel
  /\ \/ /\ r.state = "readable" /\ r.queue = <<>> /\ v.state = r.state /\ v.queue = r.queue
        /\ ReadAs(r, v, Pending)
        /\ v.readRequests = Append(r.readRequests, Len(r.reads) + 1)
     \/ /\ r.state = "readable" /\ r.queue # <<>> /\ v.queue = Tail(r.queue)
        /\ ReadAs(r, v, Head(r.queue)) /\ v.readRequests = <<>>
        /\ v.state = "readable" \/ (v.state = "closed" /\ v.queue = <<>>)
     \/ /\ r.state # "readable" /\ v.state = r.state /\ v.queue = r.queue
        /\ ReadAs(r, v, IF r.state = "closed" THEN Done ELSE Failed)
        /\ v.readRequests = r.readRequests

\* read() of the reader.
LEMMA Reads ==
  ASSUME NEW r, ReadableInv(r), r.reader
  PROVE  LET v == readableStreamDefaultReaderRead(r) IN ReadableInv(v) /\ IsRead(r, v)
<1>1. ReadableType(r) /\ r.failed = FALSE BY DEF ReadableInv, SourceInv
<1>2. /\ r.reads \in Seq(Outcomes) /\ r.queue \in Seq(Numbers) /\ r.readRequests \in Seq(Nat)
      /\ r.state \in {"readable", "closed", "errored"}
  BY <1>1, ReadableFields
<1>3. ASSUME NEW o \in Outcomes
      PROVE  /\ Append(r.reads, o) \in Seq(Outcomes)
             /\ Len(Append(r.reads, o)) = Len(r.reads) + 1
             /\ Append(r.reads, o)[Len(r.reads) + 1] = o
             /\ \A i \in 1..Len(r.reads) : Append(r.reads, o)[i] = r.reads[i]
  BY <1>2, <1>3, AppendFacts
<1>4. Pending \in Outcomes /\ Done \in Outcomes /\ Failed \in Outcomes BY DEF Outcomes
<1>5. CASE r.state # "readable"
  <2> DEFINE o == IF r.state = "closed" THEN Done ELSE Failed
             s == Append(r.reads, o)
             v == [r EXCEPT !.reads = s]
  <2>1. readableStreamDefaultReaderRead(r) = v
    BY <1>2, <1>5 DEF readableStreamDefaultReaderRead
  <2>2. o \in Outcomes BY <1>4
  <2>3. /\ s \in Seq(Outcomes) /\ Len(s) = Len(r.reads) + 1 /\ s[Len(r.reads) + 1] = o
        /\ \A i \in 1..Len(r.reads) : s[i] = r.reads[i]
    BY <1>3, <2>2
  <2> HIDE DEF s, o
  <2>4. ReadableType(v) BY <1>1, <2>3 DEF ReadableType, ReadableStreams, Outcomes
  <2>5. /\ SourceInv(v)
        /\ v.reads = s /\ v.readRequests = r.readRequests /\ v.queue = r.queue
        /\ v.state = r.state /\ v.reader = r.reader /\ v.cancel = r.cancel
    BY <1>1 DEF ReadableInv, SourceInv, ReadableType, ReadableStreams
  <2> HIDE DEF v
  <2>6. IsRead(r, v) BY <1>5, <2>3, <2>5 DEF IsRead, ReadAs, o
  <2> QED BY <2>1, <2>4, <2>5, <2>6 DEF ReadableInv
<1>6. CASE r.state = "readable"
  <2> DEFINE a == [r EXCEPT !.reads = Append(@, Pending)]
             s == Append(r.reads, Pending)
             n == Len(r.reads) + 1
  <2>1. readableStreamDefaultReaderRead(r) = PullSteps(a)
    BY <1>6 DEF readableStreamDefaultReaderRead
  <2>2. /\ s \in Seq(Outcomes) /\ Len(s) = n /\ s[n] = Pending
        /\ \A i \in 1..Len(r.reads) : s[i] = r.reads[i]
    BY <1>3, <1>4
  <2>3. ReadableType(a)
    <3> HIDE DEF s
    <3> QED BY <1>1, <2>2 DEF ReadableType, ReadableStreams, Outcomes, s
  <2>4. /\ a.reads = s /\ a.readRequests = r.readRequests /\ a.queue = r.queue
        /\ a.state = "readable" /\ a.reader = r.reader /\ a.cancel = r.cancel
        /\ a.closeRequested = r.closeRequested /\ a.failed = FALSE
        /\ a.algorithms = r.algorithms /\ a.pull = r.pull /\ a.pullAgain = r.pullAgain
        /\ a.start = r.start
    BY <1>1, <1>6 DEF ReadableType, ReadableStreams
  <2> HIDE DEF a
  <2>5. SourceInv(a) BY <1>6, <2>4 DEF ReadableInv, SourceInv
  <2> HIDE DEF s
  <2>6. CASE r.queue = <<>>
    <3> DEFINE q == Append(r.readRequests, n)
               u == [a EXCEPT !.readRequests = q]
               v == readableStreamDefaultControllerCallPullIfNeeded(u)
    <3>1. Asserting(a, a.reader) = a
      BY <2>3, <2>4 DEF Asserting, ReadableType, ReadableStreams
    <3>2. PullSteps(a) = v BY <2>2, <2>4, <2>6, <3>1 DEF PullSteps
    <3>3. q \in Seq(Nat) BY <1>2, AppendFacts
    <3> HIDE DEF q
    <3>4. ReadableType(u) BY <2>3, <3>3 DEF ReadableType, ReadableStreams
    <3>5. ~r.closeRequested BY <1>6, <2>6 DEF ReadableInv, SourceInv
    <3>6. /\ SourceInv(u)
          /\ u.reads = a.reads /\ u.readRequests = q /\ u.queue = a.queue
          /\ u.state = a.state /\ u.reader = a.reader /\ u.cancel = a.cancel
      BY <2>3, <2>4, <2>5, <2>6, <3>5 DEF SourceInv, ReadableType, ReadableStreams
    <3> HIDE DEF u
    <3>7. ReadableInv(v) /\ Same(u, v) /\ v.cancel = u.cancel
      BY <3>4, <3>6, CallsPull DEF ReadableInv
    <3>8. IsRead(r, v)
      BY <1>6, <2>2, <2>4, <2>6, <3>6, <3>7 DEF IsRead, ReadAs, Same, q
    <3> QED BY <2>1, <3>2, <3>7, <3>8
  <2>7. CASE r.queue # <<>>
    <3> DEFINE q == Tail(r.queue)
               c == Head(r.queue)
               x == [a EXCEPT !.queue = q]
               u == IF r.closeRequested /\ q = <<>>
                      THEN readableStreamClose([x EXCEPT !.algorithms = FALSE])
                      ELSE readableStreamDefaultControllerCallPullIfNeeded(x)
               v == [u EXCEPT !.reads[n] = c]
    <3>1. q \in Seq(Numbers) /\ c \in Numbers
      BY <1>2, <2>7, TailFacts
    <3>2. x.queue = q BY <2>3 DEF ReadableType, ReadableStreams
    <3>3. PullSteps(a) = v BY <2>2, <2>4, <2>7, <3>2 DEF PullSteps
    <3>4. r.readRequests = <<>> BY <2>7 DEF ReadableInv, SourceInv
    <3>5. /\ ReadableInv(u) /\ Len(u.reads) = n /\ u.queue = q /\ u.readRequests = <<>>
          /\ u.reader = r.reader /\ u.cancel = r.cancel
          /\ u.state = "readable" \/ (u.state = "closed" /\ q = <<>>)
          /\ \A i \in 1..Len(r.reads) : u.reads[i] = r.reads[i]
      <4>1. CASE r.closeRequested /\ q = <<>>
        <5> DEFINE y == [a EXCEPT !.queue = q, !.algorithms = FALSE]
        <5>1. [x EXCEPT !.algorithms = FALSE] = y
          BY <2>3 DEF ReadableType, ReadableStreams
        <5>2. u = readableStreamClose(y) BY <4>1, <5>1
        <5> HIDE DEF q
        <5>3. ReadableType(y) BY <2>3, <3>1 DEF ReadableType, ReadableStreams
        <5>4. /\ y.reads = a.reads /\ y.readRequests = a.readRequests /\ y.queue = q
              /\ y.state = a.state /\ y.reader = a.reader /\ y.cancel = a.cancel
              /\ y.failed = a.failed /\ y.pull = a.pull /\ y.pullAgain = a.pullAgain
              /\ y.start = a.start
          BY <2>3 DEF ReadableType, ReadableStreams
        <5> HIDE DEF y
        <5>5. CanEnd(y)
          BY <2>4, <2>5, <3>4, <4>1, <5>3, <5>4 DEF CanEnd, SourceInv
        <5> HIDE DEF u
        <5>6. ReadableInv(u) /\ Ended(y, u) /\ u.state = "closed" /\ u.cancel = y.cancel
          BY <5>2, <5>5, ReadableEnds
        <5>7. Range(y.readRequests) = {} BY <2>4, <3>4, <5>4 DEF Range
        <5>8. \A i \in 1..Len(r.reads) : i \in 1..n BY <1>2
        <5>9. Len(y.reads) = n BY <2>2, <2>4, <5>4
        <5> QED BY <2>2, <2>4, <4>1, <5>4, <5>6, <5>7, <5>8, <5>9 DEF Ended
      <4>2. CASE ~(r.closeRequested /\ q = <<>>)
        <5>1. u = readableStreamDefaultControllerCallPullIfNeeded(x) BY <4>2
        <5> HIDE DEF q, u
        <5>2. ReadableType(x) BY <2>3, <3>1 DEF ReadableType, ReadableStreams
        <5>3. /\ SourceInv(x)
              /\ x.reads = a.reads /\ x.readRequests = a.readRequests /\ x.queue = q
              /\ x.state = a.state /\ x.reader = a.reader /\ x.cancel = a.cancel
          BY <2>3, <2>4, <2>5, <3>4, <4>2 DEF SourceInv, ReadableType, ReadableStreams
        <5> HIDE DEF x
        <5>4. ReadableInv(u) /\ Same(x, u) /\ u.cancel = x.cancel
          BY <5>1, <5>2, <5>3, CallsPull DEF ReadableInv
        <5> QED BY <2>2, <2>4, <3>4, <5>3, <5>4 DEF Same
      <4> QED BY <4>1, <4>2
    <3> HIDE DEF u
    <3> DEFINE t == [u.reads EXCEPT ![n] = c]
    <3>6. /\ t \in Seq(Outcomes) /\ Len(t) = n /\ t[n] = c
          /\ \A i \in 1..Len(r.reads) : t[i] = r.reads[i]
      <4>1. u.reads \in Seq(Outcomes) BY <3>5, ReadableFields DEF ReadableInv
      <4>2. c \in Outcomes BY <3>1 DEF Outcomes
      <4>3. t \in Seq(Outcomes) /\ Len(t) = n BY <3>5, <4>1, <4>2, ExceptFacts
      <4>4. DOMAIN u.reads = 1..n /\ n \in 1..n BY <1>2, <3>5, <4>1
      <4>5. \A i \in 1..Len(r.reads) : i \in 1..n /\ i # n BY <1>2
      <4> QED BY <3>5, <4>3, <4>4, <4>5
    <3>7. v = [u EXCEPT !.reads = t] OBVIOUS
    <3> HIDE DEF t, v, q, c
    <3>8. ReadableType(v)
      BY <3>5, <3>6, <3>7 DEF ReadableInv, ReadableType, ReadableStreams, Outcomes
    <3>9. /\ SourceInv(v)
          /\ v.reads = t /\ v.readRequests = u.readRequests /\ v.queue = u.queue
          /\ v.state = u.state /\ v.reader = u.reader /\ v.cancel = u.cancel
      BY <3>5, <3>7 DEF ReadableInv, SourceInv, ReadableType, ReadableStreams
    <3>10. IsRead(r, v)
      BY <1>6, <2>7, <3>5, <3>6, <3>9 DEF IsRead, ReadAs, q, c
    <3> QED BY <2>1, <3>3, <3>8, <3>9, <3>10 DEF ReadableInv
  <2> QED BY <2>6, <2>7
<1> QED BY <1>2, <1>5, <1>6

\* The lock of the stream.
LEMMA ReaderSetUp ==
  ASSUME NEW r, ReadableInv(r)
  PROVE  LET v == setUpReadableStreamDefaultReader(r)
         IN /\ ReadableInv(v) /\ v.reader /\ v.state = r.state /\ v.queue = r.queue
            /\ v.reads = r.reads /\ v.readRequests = r.readRequests /\ v.cancel = r.cancel
            /\ v.start = r.start /\ v.pull = r.pull
<1> DEFINE d == CASE r.state = "readable" -> "pending"
                  [] r.state = "closed" -> "resolved"
                  [] r.state = "errored" -> "rejected"
           v == [r EXCEPT !.reader = TRUE, !.closed = d]
<1>1. ReadableType(r) BY DEF ReadableInv
<1>2. d \in Promises BY <1>1, ReadableFields, Settled
<1>3. setUpReadableStreamDefaultReader(r) = v BY DEF setUpReadableStreamDefaultReader
<1> HIDE DEF d
<1>4. ReadableType(v) BY <1>1, <1>2 DEF ReadableType, ReadableStreams
<1>5. /\ SourceInv(v) /\ v.reader /\ v.state = r.state /\ v.queue = r.queue
      /\ v.reads = r.reads /\ v.readRequests = r.readRequests /\ v.cancel = r.cancel
      /\ v.start = r.start /\ v.pull = r.pull
  BY <1>1 DEF ReadableInv, SourceInv, ReadableType, ReadableStreams
<1> HIDE DEF v
<1> QED BY <1>3, <1>4, <1>5 DEF ReadableInv

\* releaseLock(): the requests of the reader fail.
LEMMA ReaderReleases ==
  ASSUME NEW r, ReadableInv(r), r.reader
  PROVE  LET v == readableStreamDefaultReaderRelease(r)
         IN /\ ReadableInv(v) /\ ~v.reader /\ v.state = r.state /\ v.queue = r.queue
            /\ v.readRequests = <<>> /\ v.cancel = r.cancel
            /\ Len(v.reads) = Len(r.reads)
            /\ \A i \in 1..Len(r.reads) : i \in Range(r.readRequests) => v.reads[i] = Failed
            /\ \A i \in 1..Len(r.reads) : i \notin Range(r.readRequests) => v.reads[i] = r.reads[i]
<1> DEFINE t == [i \in DOMAIN r.reads |-> IF i \in Range(r.readRequests)
                                            THEN Failed ELSE r.reads[i]]
           v == [r EXCEPT !.reads = t, !.readRequests = <<>>, !.reader = FALSE,
                          !.closed = "rejected"]
<1>1. ReadableType(r) /\ r.failed = FALSE BY DEF ReadableInv, SourceInv
<1>2. Asserting(r, r.reader) = r BY <1>1 DEF Asserting, ReadableType, ReadableStreams
<1>3. readableStreamDefaultReaderRelease(r) = v
  BY <1>1, <1>2 DEF readableStreamDefaultReaderRelease, SettleReads, ReadableType, ReadableStreams
<1>4. /\ t \in Seq(Outcomes) /\ Len(t) = Len(r.reads)
      /\ \A i \in 1..Len(r.reads) : i \in Range(r.readRequests) => t[i] = Failed
      /\ \A i \in 1..Len(r.reads) : i \notin Range(r.readRequests) => t[i] = r.reads[i]
  <2>1. r.reads \in Seq(Outcomes) BY <1>1, ReadableFields
  <2>2. /\ Len(r.reads) \in Nat /\ DOMAIN r.reads = 1..Len(r.reads)
        /\ \A i \in 1..Len(r.reads) : r.reads[i] \in Outcomes
    BY <2>1
  <2>3. Failed \in Outcomes BY DEF Outcomes
  <2> QED BY <2>2, <2>3
<1>5. <<>> \in Seq(Nat) OBVIOUS
<1> HIDE DEF t
<1>6. ReadableType(v) BY <1>1, <1>4, <1>5, Settled DEF ReadableType, ReadableStreams, Outcomes
<1>7. /\ SourceInv(v) /\ ~v.reader /\ v.state = r.state /\ v.queue = r.queue
      /\ v.readRequests = <<>> /\ v.cancel = r.cancel /\ v.reads = t
  BY <1>1 DEF ReadableInv, SourceInv, ReadableType, ReadableStreams
<1> HIDE DEF v
<1> QED BY <1>3, <1>4, <1>6, <1>7 DEF ReadableInv

-----------------------------------------------------------------------------
(* The reactions to the promises of the source. *)

\* The promise of start() is settled.
LEMMA SourceStarted ==
  ASSUME NEW r, ReadableInv(r), r.start = "pending", NEW ok \in BOOLEAN
  PROVE  LET v == ReadableStarts(r, ok)
         IN ReadableInv(v) /\ SameOrEnded(r, v) /\ v.reader = r.reader /\ v.cancel = r.cancel
<1>1. ReadableType(r) /\ r.failed = FALSE /\ r.pull = "idle" /\ ~r.pullAgain
  BY DEF ReadableInv, SourceInv
<1>2. CASE ok
  <2> DEFINE u == [r EXCEPT !.start = "resolved"]
             v == readableStreamDefaultControllerCallPullIfNeeded(u)
  <2>1. Asserting(r, r.pull = "idle" /\ ~r.pullAgain) = r
    BY <1>1 DEF Asserting, ReadableType, ReadableStreams
  <2>2. ReadableStarts(r, ok) = v BY <1>2, <2>1 DEF ReadableStarts
  <2>3. ReadableType(u) BY <1>1 DEF ReadableType, ReadableStreams
  <2>4. SourceInv(u) /\ Same(r, u) /\ u.cancel = r.cancel
    BY <1>1 DEF ReadableInv, SourceInv, Same, ReadableType, ReadableStreams
  <2> HIDE DEF u
  <2>5. ReadableInv(v) /\ Same(u, v) /\ v.cancel = u.cancel
    BY <2>3, <2>4, CallsPull DEF ReadableInv
  <2> QED BY <2>2, <2>4, <2>5 DEF SameOrEnded, Same
<1>3. CASE ~ok
  <2> DEFINE u == readableStreamDefaultControllerError(r)
             v == [u EXCEPT !.start = "rejected"]
  <2>1. ReadableStarts(r, ok) = v BY <1>3 DEF ReadableStarts
  <2>2. /\ ReadableInv(u) /\ SameOrEnded(r, u) /\ u.cancel = r.cancel /\ u.pull = "idle"
        /\ u.reader = r.reader
    BY <1>1, ReadableErrors
  <2> HIDE DEF u
  <2>3. ReadableType(v) BY <2>2 DEF ReadableInv, ReadableType, ReadableStreams
  <2>4. SourceInv(v) /\ Same(u, v) /\ v.cancel = u.cancel
    BY <2>2 DEF ReadableInv, SourceInv, Same, ReadableType, ReadableStreams
  <2> HIDE DEF v
  <2>5. SameOrEnded(r, v) /\ v.reader = r.reader
    BY <2>2, <2>4 DEF SameOrEnded, Same, Ended
  <2> QED BY <2>1, <2>2, <2>3, <2>4, <2>5 DEF ReadableInv
<1> QED BY <1>2, <1>3

\* The promise of pull() is settled.
LEMMA PullSettled ==
  ASSUME NEW r, ReadableInv(r), r.pull = "pending", NEW ok \in BOOLEAN
  PROVE  LET v == PullSettles(r, ok)
         IN ReadableInv(v) /\ SameOrEnded(r, v) /\ v.reader = r.reader /\ v.cancel = r.cancel
<1>1. ReadableType(r) /\ r.start = "resolved" BY DEF ReadableInv, SourceInv
<1>2. CASE ok /\ r.pullAgain
  <2> DEFINE u == [r EXCEPT !.pull = "idle", !.pullAgain = FALSE]
             v == readableStreamDefaultControllerCallPullIfNeeded(u)
  <2>1. PullSettles(r, ok) = v BY <1>2 DEF PullSettles
  <2>2. ReadableType(u) BY <1>1 DEF ReadableType, ReadableStreams
  <2>3. SourceInv(u) /\ Same(r, u) /\ u.cancel = r.cancel
    BY <1>1 DEF ReadableInv, SourceInv, Same, ReadableType, ReadableStreams
  <2> HIDE DEF u
  <2>4. ReadableInv(v) /\ Same(u, v) /\ v.cancel = u.cancel
    BY <2>2, <2>3, CallsPull DEF ReadableInv
  <2> QED BY <2>1, <2>3, <2>4 DEF SameOrEnded, Same
<1>3. CASE ok /\ ~r.pullAgain
  <2> DEFINE v == [r EXCEPT !.pull = "idle"]
  <2>1. PullSettles(r, ok) = v BY <1>3 DEF PullSettles
  <2>2. ReadableType(v) BY <1>1 DEF ReadableType, ReadableStreams
  <2>3. SourceInv(v) /\ Same(r, v) /\ v.cancel = r.cancel
    BY <1>1, <1>3 DEF ReadableInv, SourceInv, Same, ReadableType, ReadableStreams
  <2> HIDE DEF v
  <2> QED BY <2>1, <2>2, <2>3 DEF ReadableInv, SameOrEnded, Same
<1>4. CASE ~ok
  <2> DEFINE u == readableStreamDefaultControllerError(r)
             v == [u EXCEPT !.pull = "rejected"]
  <2>1. PullSettles(r, ok) = v BY <1>4 DEF PullSettles
  <2>2. /\ ReadableInv(u) /\ SameOrEnded(r, u) /\ u.cancel = r.cancel
        /\ u.start = "resolved" /\ u.reader = r.reader
    BY <1>1, ReadableErrors
  <2> HIDE DEF u
  <2>3. ReadableType(v) BY <2>2 DEF ReadableInv, ReadableType, ReadableStreams
  <2>4. SourceInv(v) /\ Same(u, v) /\ v.cancel = u.cancel
    BY <2>2 DEF ReadableInv, SourceInv, Same, ReadableType, ReadableStreams
  <2> HIDE DEF v
  <2>5. SameOrEnded(r, v) /\ v.reader = r.reader
    BY <2>2, <2>4 DEF SameOrEnded, Same, Ended
  <2> QED BY <2>1, <2>2, <2>3, <2>4, <2>5 DEF ReadableInv
<1> QED BY <1>2, <1>3, <1>4

\* The promise of cancel() is settled.
LEMMA CancelSettled ==
  ASSUME NEW r, ReadableInv(r), NEW ok \in BOOLEAN
  PROVE  LET v == CancelSettles(r, ok)
         IN ReadableInv(v) /\ Same(r, v) /\ v.cancel \in {"resolved", "rejected"}
<1> DEFINE c == IF ok THEN "resolved" ELSE "rejected"
           v == [r EXCEPT !.cancel = c]
<1>1. ReadableType(r) BY DEF ReadableInv
<1>2. c \in Promises /\ c \in {"resolved", "rejected"} BY Settled
<1>3. CancelSettles(r, ok) = v BY DEF CancelSettles
<1> HIDE DEF c
<1>4. ReadableType(v) BY <1>1, <1>2 DEF ReadableType, ReadableStreams
<1>5. SourceInv(v) /\ Same(r, v) /\ v.cancel = c
  BY <1>1 DEF ReadableInv, SourceInv, Same, ReadableType, ReadableStreams
<1> QED BY <1>2, <1>3, <1>4, <1>5 DEF ReadableInv

-----------------------------------------------------------------------------
(* The chunks of a stream. *)

\* The elements of a sequence are in a set.
ElementsIn(s, T) == \A i \in 1..Len(s) : s[i] \in T

\* A sequence whose elements are in a set is a sequence over it.
LEMMA SeqTyped ==
  ASSUME NEW S, NEW T, NEW s \in Seq(S), ElementsIn(s, T)
  PROVE  s \in Seq(T)
<1>1. Len(s) \in Nat /\ DOMAIN s = 1..Len(s) OBVIOUS
<1>2. s \in [1..Len(s) -> T] BY <1>1 DEF ElementsIn
<1> QED BY <1>1, <1>2

\* A writable stream knows no chunk but those that were written to it.
LEMMA WritableBounded ==
  ASSUME NEW d, WritableInv(d), NEW n \in Nat, Len(d.writes) <= n
  PROVE  d \in WritableStreams(1..n)
<1> DEFINE Chunks == 1..n
<1>1. WritableType(d) /\ OrderInv(d) /\ SinkInv(d) BY DEF WritableInv, ErrorInv
<1>2. /\ d.queue \in Seq(Numbers \cup {Close}) /\ d.writeRequests \in Seq(Numbers)
      /\ d.sunk \in Seq(Numbers) /\ d.writes \in Seq(Promises)
      /\ d.inFlightWriteRequest \in Numbers \cup {0}
  BY <1>1, WritableFields
<1>3. /\ Len(d.queue) \in Nat /\ Len(d.writeRequests) \in Nat /\ Len(d.sunk) \in Nat
      /\ Len(d.writes) \in Nat
  BY <1>2
<1>4. Len(d.sunk) + Len(d.writeRequests) <= Len(d.writes) BY Zenon, <1>1 DEF OrderInv
<1>5. Len(d.sunk) <= Len(d.writes)
  <2>1. \A a, b, c \in Nat : a + b <= c => a <= c OBVIOUS
  <2> QED BY Zenon, <1>3, <1>4, <2>1
<1>6. Len(d.sunk) <= n BY <1>3, <1>5
<1>7. d.sunk \in Seq(Chunks)
  <2>1. ASSUME NEW i \in 1..Len(d.sunk) PROVE d.sunk[i] \in Chunks
    <3>1. d.sunk[i] = i BY <1>1 DEF OrderInv
    <3> QED BY <1>3, <1>6, <3>1
  <2>2. ElementsIn(d.sunk, Chunks) BY <2>1 DEF ElementsIn
  <2>3. d.sunk \in Seq(Numbers) BY <1>2
  <2> QED BY Zenon, <2>2, <2>3, SeqTyped
<1>8. d.writeRequests \in Seq(Chunks)
  <2>1. ASSUME NEW i \in 1..Len(d.writeRequests) PROVE d.writeRequests[i] \in Chunks
    <3>1. i \in Nat /\ i > 0 /\ i <= Len(d.writeRequests) BY <1>3
    <3>2. d.writeRequests[i] = Len(d.sunk) + i BY <1>1 DEF OrderInv
    <3>3. Len(d.sunk) + i <= Len(d.writes)
      <4>1. \A a, b, c \in Nat : b <= c => a + b <= a + c OBVIOUS
      <4>2. \A a, b, c \in Nat : a <= b /\ b <= c => a <= c OBVIOUS
      <4>3. Len(d.sunk) + i <= Len(d.sunk) + Len(d.writeRequests) BY Zenon, <1>3, <3>1, <4>1
      <4>4. Len(d.sunk) + i \in Nat /\ Len(d.sunk) + Len(d.writeRequests) \in Nat
        <5>1. \A a, b \in Nat : a + b \in Nat OBVIOUS
        <5> QED BY Zenon, <1>3, <3>1, <5>1
      <4> QED BY Zenon, <1>3, <1>4, <4>2, <4>3, <4>4
    <3>4. \A a, b, c, m \in Nat : b > 0 /\ a + b <= c /\ c <= m => a + b \in 1..m OBVIOUS
    <3>5. Len(d.sunk) + i \in 1..n BY Zenon, <1>3, <3>1, <3>3, <3>4
    <3> QED BY Zenon, <3>2, <3>5
  <2>2. ElementsIn(d.writeRequests, Chunks) BY <2>1 DEF ElementsIn
  <2>3. d.writeRequests \in Seq(Numbers) BY <1>2
  <2> QED BY Zenon, <2>2, <2>3, SeqTyped
<1>9. d.queue \in Seq(Chunks \cup {Close})
  <2>1. ASSUME NEW i \in 1..Len(d.queue) PROVE d.queue[i] \in Chunks \cup {Close}
    <3>1. d.queue[i] \in Numbers \cup {Close} BY <1>2
    <3>2. d.queue[i] <= Len(d.writes) BY <1>1 DEF OrderInv
    <3> QED BY <1>3, <3>1, <3>2 DEF Numbers, Close
  <2>2. ElementsIn(d.queue, Chunks \cup {Close}) BY <2>1 DEF ElementsIn
  <2>3. d.queue \in Seq(Numbers \cup {Close}) BY <1>2
  <2> QED BY Zenon, <2>2, <2>3, SeqTyped
<1>10. d.inFlightWriteRequest \in Chunks \cup {0}
  <2>1. d.inFlightWriteRequest # 0 => d.inFlightWriteRequest = Len(d.sunk) BY <1>1 DEF SinkInv
  <2> QED BY <1>2, <1>3, <1>6, <2>1 DEF Numbers
<1> QED BY <1>1, <1>7, <1>8, <1>9, <1>10 DEF WritableType, WritableStreams
=============================================================================
