------------------------------- MODULE PipeTo -------------------------------
(***************************************************************************)
(* readableStreamPipeTo of ext/web/06_streams.js: a loop that waits for    *)
(* the destination to be ready, reads a chunk of the source and writes it, *)
(* and a shutdown that any end of either stream, or the abort signal, sets *)
(* off beside it.                                                          *)
(*                                                                         *)
(* Every reaction to a promise is a step of its own, taken in any order    *)
(* once the promise is settled: this allows the order in which the         *)
(* microtask queue runs them and others besides.  The owner of the source  *)
(* and of the sink, and whoever holds the signal, step in between.         *)
(***************************************************************************)
EXTENDS ReadableStream

CONSTANTS MaxChunks,    \* bound: chunks the source enqueues
          SourceHWMs, SinkHWMs,   \* high water marks to choose from
          Sizes         \* what the size algorithms may do

ASSUME PipeAssumption ==
  /\ MaxChunks \in Nat
  /\ SourceHWMs \subseteq Nat /\ SinkHWMs \subseteq Nat
  /\ Sizes \subseteq {"one", "throws", "invalid"} /\ Sizes # {}

VARIABLES source,       \* the readable stream
          dest,         \* the writable stream
          pipe,         \* the variables of readableStreamPipeTo and its options
          enqueued      \* history: chunks the source's enqueue() took

vars == <<source, dest, pipe, enqueued>>

Chunks == 1 .. MaxChunks

\* The variables of the pipe.  Chunk i of the sink was passed[i] of the source.
Pipes ==
  [preventClose : BOOLEAN, preventAbort : BOOLEAN, preventCancel : BOOLEAN,
   signal : {"idle", "aborted"},
   result : Promises,                       \* what pipeTo() returned
   loop : {"off", "next", "wait", "ready", "reading"},
   currentWrite : Chunks \cup {0},
   shutdown : {"no", "writes", "act", "awaiting", "done"},   \* shuttingDown: # "no"
   waitFor : Chunks \cup {0},               \* oldCurrentWrite
   action : {"none", "abort", "cancel", "close", "signal"},
   isError : BOOLEAN,
   awaiting : SUBSET {"abort", "cancel", "close", "rejected"},
   passed : Seq(Chunks)]

Init ==
  /\ \E h \in SourceHWMs : source = initializeReadableStream(h)
  /\ \E h \in SinkHWMs : dest = initializeWritableStream(h)
  /\ \E c, a, k \in BOOLEAN :
       pipe = [preventClose |-> c, preventAbort |-> a, preventCancel |-> k,
               signal |-> "idle", result |-> "none", loop |-> "off", currentWrite |-> 0,
               shutdown |-> "no", waitFor |-> 0, action |-> "none",
               isError |-> FALSE, awaiting |-> {}, passed |-> <<>>]
  /\ enqueued = 0

-----------------------------------------------------------------------------
(* What follows at once from a change of one of the streams: the promises  *)
(* the loop has captured, and chunkSteps, closeSteps and errorSteps of its *)
(* read request.                                                           *)

LoopFollows(p, size) ==
  CASE p.pipe.loop = "wait" /\ p.dest.ready = "resolved" -> [p EXCEPT !.pipe.loop = "ready"]
    [] p.pipe.loop = "wait" /\ p.dest.ready = "rejected" -> [p EXCEPT !.pipe.loop = "off"]
    [] p.pipe.loop = "reading" /\ Last(p.source.reads) > 0 ->
         [p EXCEPT !.dest = writableStreamDefaultWriterWrite(@, size),
                   !.pipe.currentWrite = Len(p.dest.writes) + 1,
                   !.pipe.loop = "next",
                   !.pipe.passed = Append(@, Last(p.source.reads))]
    [] p.pipe.loop = "reading" /\ Last(p.source.reads) \in {Done, Failed} ->
         [p EXCEPT !.pipe.loop = "off"]
    [] OTHER -> p

Now == [source |-> source, dest |-> dest, pipe |-> pipe]

\* Bound: the owners of the streams and of the signal are followed until the pipe
\* has settled.
Watched == pipe.result \in {"none", "pending"}

Becomes(p) ==
  \E q \in {LoopFollows(r, size) : r \in {p}, size \in Sizes} :
    source' = q.source /\ dest' = q.dest /\ pipe' = q.pipe

-----------------------------------------------------------------------------
(* Shutting down.                                                          *)

finalize(p, isError) ==
  [p EXCEPT !.dest = writableStreamDefaultWriterRelease(@),
            !.source = readableStreamDefaultReaderRelease(@),
            !.pipe.shutdown = "done", !.pipe.awaiting = {},
            !.pipe.result = IF isError THEN "rejected" ELSE "resolved"]

Awaits(p, promise) == [p EXCEPT !.pipe.awaiting = @ \cup {promise}]

\* The actions of a shutdown; a promise that is resolved already is not awaited.
AbortDest(p) ==
  IF p.dest.state \in {"closed", "errored"} THEN p
  ELSE [Awaits(p, "abort") EXCEPT !.dest = writableStreamAbort(@)]

CancelSource(p) ==
  CASE p.source.state = "closed" -> p
    [] p.source.state = "errored" -> Awaits(p, "rejected")
    [] p.source.state = "readable" ->
         [Awaits(p, "cancel") EXCEPT !.source = readableStreamCancel(@)]

writableStreamDefaultWriterCloseWithErrorPropagation(p) ==
  CASE writableStreamCloseQueuedOrInFlight(p.dest) \/ p.dest.state = "closed" -> p
    [] ~writableStreamCloseQueuedOrInFlight(p.dest) /\ p.dest.state = "errored" ->
         Awaits(p, "rejected")
    [] OTHER -> [Awaits(p, "close") EXCEPT !.dest = writableStreamClose(@)]

\* Mutant: the signal only reaches the destination.
AbortsOnlyDest(p) ==
  IF ~p.pipe.preventAbort /\ p.dest.state = "writable" THEN AbortDest(p) ELSE p

abortAlgorithm(p) ==
  LET q == IF ~p.pipe.preventAbort /\ p.dest.state = "writable" THEN AbortDest(p) ELSE p
  IN IF ~p.pipe.preventCancel /\ p.source.state = "readable" THEN CancelSource(q) ELSE q

doTheRest(p) ==
  LET q == [p EXCEPT !.pipe.shutdown = "awaiting"] IN
  CASE p.pipe.action = "none" -> finalize(p, p.pipe.isError)
    [] p.pipe.action = "abort" -> AbortDest(q)
    [] p.pipe.action = "cancel" -> CancelSource(q)
    [] p.pipe.action = "close" -> writableStreamDefaultWriterCloseWithErrorPropagation(q)
    [] p.pipe.action = "signal" -> abortAlgorithm(q)

\* Mutant: waits for a write that is not there yet.
WaitsForNext(p, action, isError) ==
  IF p.pipe.shutdown # "no" THEN p
  ELSE LET q == [p EXCEPT !.pipe.action = action, !.pipe.isError = isError] IN
       IF p.dest.state = "writable" /\ ~writableStreamCloseQueuedOrInFlight(p.dest)
         THEN [q EXCEPT !.pipe.shutdown = "writes", !.pipe.waitFor = p.pipe.currentWrite + 1]
         ELSE doTheRest(q)

\* shutdown() is shutdownWithAction() with the action "none".
shutdownWithAction(p, action, isError) ==
  IF p.pipe.shutdown # "no" THEN p
  ELSE LET q == [p EXCEPT !.pipe.action = action, !.pipe.isError = isError] IN
       IF p.dest.state = "writable" /\ ~writableStreamCloseQueuedOrInFlight(p.dest)
         THEN [q EXCEPT !.pipe.shutdown = "writes", !.pipe.waitFor = p.pipe.currentWrite]
         ELSE doTheRest(q)

-----------------------------------------------------------------------------
(* What the ends of the streams and the signal set off.                    *)

SourceErrored(p) ==
  shutdownWithAction(p, IF p.pipe.preventAbort THEN "none" ELSE "abort", TRUE)
DestErrored(p) ==
  shutdownWithAction(p, IF p.pipe.preventCancel THEN "none" ELSE "cancel", TRUE)
SourceClosed(p) ==
  shutdownWithAction(p, IF p.pipe.preventClose THEN "none" ELSE "close", FALSE)
Aborted(p) == shutdownWithAction(p, "signal", TRUE)

\* pipeTo() and pipeThrough(): both streams are unlocked, and the ends that have
\* come already are dealt with in this order.
readableStreamPipeTo(p) ==
  LET a == [p EXCEPT !.source = setUpReadableStreamDefaultReader(@),
                     !.dest = setUpWritableStreamDefaultWriter(@),
                     !.pipe.result = "pending"]
      b == IF a.source.state = "errored" THEN SourceErrored(a) ELSE a
      c == IF b.dest.state = "errored" THEN DestErrored(b) ELSE b
      d == IF c.source.state = "closed" THEN SourceClosed(c) ELSE c
      e == IF writableStreamCloseQueuedOrInFlight(d.dest) \/ d.dest.state = "closed"
             THEN DestErrored(d) ELSE d
  IN IF a.pipe.signal = "aborted" THEN Aborted(a) ELSE [e EXCEPT !.pipe.loop = "next"]

PipeTo ==
  /\ pipe.result = "none"
  /\ Becomes(readableStreamPipeTo(Now)) /\ UNCHANGED enqueued

\* The reactions to the closed promises of the reader and the writer.
SourceEnds ==
  /\ pipe.result = "pending" /\ pipe.shutdown = "no" /\ source.state # "readable"
  /\ Becomes(IF source.state = "errored" THEN SourceErrored(Now) ELSE SourceClosed(Now))
  /\ UNCHANGED enqueued
DestEnds ==
  /\ pipe.result = "pending" /\ pipe.shutdown = "no" /\ dest.closed = "rejected"
  /\ Becomes(DestErrored(Now)) /\ UNCHANGED enqueued

\* The signal is aborted: its algorithm runs at once if the pipe has added it.
SignalAborts ==
  /\ Watched /\ pipe.signal = "idle"
  /\ LET p == [Now EXCEPT !.pipe.signal = "aborted"]
     IN Becomes(IF pipe.result = "pending" THEN Aborted(p) ELSE p)
  /\ UNCHANGED enqueued

\* waitForWritesToFinish(): looks again when another write has begun.
waitForWritesToFinish ==
  /\ pipe.shutdown = "writes"
  /\ pipe.waitFor > 0 => dest.writes[pipe.waitFor] # "pending"
  /\ Becomes(IF pipe.waitFor # pipe.currentWrite
               THEN [Now EXCEPT !.pipe.waitFor = pipe.currentWrite]
               ELSE [Now EXCEPT !.pipe.shutdown = "act"])
  /\ UNCHANGED enqueued

WritesFinished ==
  pipe.shutdown = "act" /\ Becomes(doTheRest(Now)) /\ UNCHANGED enqueued

Outcome(promise) ==
  CASE promise = "abort" -> dest.abort
    [] promise = "cancel" -> source.cancel
    [] promise = "close" -> dest.close
    [] promise = "rejected" -> "rejected"

\* The action's promise, or Promise.all of them, is settled.
ActionSettles ==
  /\ pipe.shutdown = "awaiting"
  /\ \/ /\ \E a \in pipe.awaiting : Outcome(a) = "rejected"
        /\ Becomes(finalize(Now, TRUE))
     \/ /\ \A a \in pipe.awaiting : Outcome(a) = "resolved"
        /\ Becomes(finalize(Now, pipe.isError))
  /\ UNCHANGED enqueued

-----------------------------------------------------------------------------
(* The loop.                                                               *)

\* The promise of the writer is captured here; it stays what it is when the writer
\* gets another one.
pipeStep ==
  /\ pipe.loop = "next"
  /\ Becomes([Now EXCEPT !.pipe.loop = IF pipe.shutdown # "no" THEN "off" ELSE "wait"])
  /\ UNCHANGED enqueued

\* The captured promise is resolved.  shuttingDown is not looked at again; after
\* finalize() the reader has no stream, and the assertion ends the loop.
LoopReads ==
  /\ pipe.loop = "ready"
  /\ Becomes(IF ~source.reader THEN [Now EXCEPT !.pipe.loop = "off"]
             ELSE [Now EXCEPT !.source = readableStreamDefaultReaderRead(@),
                              !.pipe.loop = "reading"])
  /\ UNCHANGED enqueued

-----------------------------------------------------------------------------
(* The owners of the streams.                                              *)

Source(r) == Watched /\ Becomes([Now EXCEPT !.source = r]) /\ UNCHANGED enqueued
Dest(w) == Watched /\ Becomes([Now EXCEPT !.dest = w]) /\ UNCHANGED enqueued

SourceStarts ==
  source.start = "pending" /\ \E ok \in BOOLEAN : Source(ReadableStarts(source, ok))
SourcePullSettles ==
  source.pull = "pending" /\ \E ok \in BOOLEAN : Source(PullSettles(source, ok))
SourceCancelSettles ==
  source.cancel = "pending" /\ \E ok \in BOOLEAN : Source(CancelSettles(source, ok))
SourceEnqueues ==
  /\ Watched /\ enqueued < MaxChunks
  /\ readableStreamDefaultControllerCanCloseOrEnqueue(source)
  /\ \E size \in Sizes :
       LET r == readableStreamDefaultControllerEnqueue(source, enqueued + 1, size) IN
       /\ Becomes([Now EXCEPT !.source = r])
       /\ enqueued' = IF r.state = "errored" THEN enqueued ELSE enqueued + 1
SourceCloses ==
  /\ readableStreamDefaultControllerCanCloseOrEnqueue(source)
  /\ Source(readableStreamDefaultControllerClose(source))
SourceFails ==
  source.state = "readable" /\ Source(readableStreamDefaultControllerError(source))
SourceCancelled ==
  /\ ~source.reader /\ source.state = "readable"
  /\ Source(readableStreamCancel(source))

DestStarts ==
  ~dest.started /\ \E ok \in BOOLEAN : Dest(WritableStarts(dest, ok))
DestSettles ==
  dest.sink # "none" /\ \E ok \in BOOLEAN : Dest(SinkSettles(dest, ok))
DestFails ==
  dest.state = "writable" /\ Dest(writableStreamDefaultControllerErrorIfNeeded(dest))
DestCloses ==
  /\ ~dest.writer /\ dest.state \in {"writable", "erroring"}
  /\ ~writableStreamCloseQueuedOrInFlight(dest) /\ Dest(close(dest))
DestAborts ==
  /\ ~dest.writer /\ dest.state \in {"writable", "erroring"}
  /\ dest.pendingAbortRequest = "none" /\ Dest(writableStreamAbort(dest))

-----------------------------------------------------------------------------
Reactions ==
  \/ SourceEnds \/ DestEnds \/ waitForWritesToFinish \/ WritesFinished
  \/ ActionSettles \/ pipeStep \/ LoopReads

Callbacks ==
  SourceStarts \/ SourceCancelSettles \/ SourcePullSettles \/ DestStarts \/ DestSettles

Next ==
  \/ PipeTo \/ SignalAborts \/ Reactions \/ Callbacks
  \/ SourceEnqueues \/ SourceCloses \/ SourceFails \/ SourceCancelled
  \/ DestFails \/ DestCloses \/ DestAborts

\* The microtask queue runs every reaction, and the promises of start(), cancel()
\* and the sink's callbacks are assumed to be settled by the code that returned
\* them.  Each of these steps happens finitely often: one condition covers them.
Fairness == WF_vars(Reactions \/ SourceCancelSettles \/ DestStarts \/ DestSettles)

Spec == Init /\ [][Next]_vars /\ Fairness

-----------------------------------------------------------------------------
(* Properties.                                                             *)

\* The state has its type, and waitForWritesToFinish() only ever waits for a
\* write that has been made.
TypeOK ==
  /\ source \in ReadableStreams(Chunks)
  /\ dest \in WritableStreams(Chunks)
  /\ pipe \in Pipes
  /\ enqueued \in 0 .. MaxChunks
  /\ Len(dest.writes) = Len(pipe.passed)
  /\ pipe.waitFor <= pipe.currentWrite

\* No assert() of 06_streams.js fails, in whatever order the ends of the two
\* streams, the signal, the writes in flight and the shutdown meet.  (The one the
\* loop meets when it reads after finalize() is caught, and ends the loop.)
NoAssertFails == ~source.failed /\ ~dest.failed

\* A pipe that resolved has handed every chunk of a source nobody cancelled to the
\* writer, and, unless preventClose, the sink has taken each of them and is closed:
\* readableStreamPipeTo() does not report a success that lost data.  (Without chunks
\* it may find a destination that its owner is closing, and resolves before that.)
ResolvedDelivers ==
  pipe.result = "resolved" /\ source.cancel = "none" =>
    /\ Len(pipe.passed) = enqueued
    /\ ~pipe.preventClose /\ enqueued > 0 =>
         dest.state = "closed" /\ \A i \in DOMAIN dest.writes : dest.writes[i] = "resolved"

\* The sink is given the chunks of the source in their order, each once, none
\* skipped, although the queue, pending reads and the shutdown hand them over on
\* different paths.
PipedInOrder ==
  /\ pipe.passed = [i \in 1 .. Len(pipe.passed) |-> i]
  /\ dest.sunk = [i \in 1 .. Len(dest.sunk) |-> i]

\* When the pipe has settled it holds neither lock, and without preventClose,
\* preventAbort and preventCancel neither stream is left open.
NothingLeftOpen ==
  pipe.result \in {"resolved", "rejected"} =>
    /\ ~source.reader /\ ~dest.writer
    /\ ~pipe.preventClose /\ ~pipe.preventAbort /\ ~pipe.preventCancel =>
         /\ source.state # "readable"
         /\ dest.state # "writable" \/ writableStreamCloseQueuedOrInFlight(dest)

\* A pipe whose source has ended, whose destination has failed or whose signal was
\* aborted settles: no shutdown waits for a write, an action or a loop for ever.
PipeSettles ==
  (/\ pipe.result = "pending"
   /\ \/ source.state # "readable" \/ dest.state = "errored"
      \/ pipe.signal = "aborted")
    ~> pipe.result # "pending"
=============================================================================
