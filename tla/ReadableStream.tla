--------------------------- MODULE ReadableStream ---------------------------
(***************************************************************************)
(* The readable stream of ext/web/06_streams.js with its default           *)
(* controller and the default reader that holds its lock, as one record;   *)
(* every function of the source is an operator from the record before to   *)
(* the record after, as in WritableStream.                                 *)
(*                                                                         *)
(* Read requests are the numbers of the read() calls, and reads holds what *)
(* each of them has come to: a chunk, or one of the codes below.           *)
(***************************************************************************)
EXTENDS WritableStream

Pending == 0      \* the request waits
Done == -1        \* closeSteps
Failed == -2      \* errorSteps

ReadableStreams(Chunks) ==
  [state : {"readable", "closed", "errored"},
   start : {"pending", "resolved", "rejected"},   \* the promise of start()
   hwm : Nat,
   queue : Seq(Chunks),
   closeRequested : BOOLEAN,
   pull : {"idle", "pending", "rejected"},  \* pulling, and the promise of pull()
   pullAgain : BOOLEAN,
   algorithms : BOOLEAN,
   reader : BOOLEAN,               \* a reader holds the lock
   closed : Promises,              \* closedPromise of that reader
   readRequests : Seq(Nat),
   reads : Seq(Chunks \cup {Pending, Done, Failed}),
   cancel : Promises,              \* the promise of the source's cancel()
   failed : BOOLEAN]

initializeReadableStream(hwm) ==
  [state |-> "readable", start |-> "pending", hwm |-> hwm, queue |-> <<>>,
   closeRequested |-> FALSE, pull |-> "idle", pullAgain |-> FALSE,
   algorithms |-> TRUE, reader |-> FALSE, closed |-> "none",
   readRequests |-> <<>>, reads |-> <<>>, cancel |-> "none", failed |-> FALSE]

-----------------------------------------------------------------------------
(* Closing and errors.                                                     *)

\* Every read request of the reader is settled with the same outcome.
SettleReads(r, outcome) ==
  [r EXCEPT !.reads = [i \in DOMAIN @ |-> IF i \in Range(r.readRequests)
                                            THEN outcome ELSE @[i]],
            !.readRequests = <<>>]

readableStreamClose(r) ==
  LET v == [Asserting(r, r.state = "readable") EXCEPT !.state = "closed"]
  IN IF r.reader THEN [SettleReads(v, Done) EXCEPT !.closed = Resolve(@)] ELSE v

readableStreamError(r) ==
  LET v == [Asserting(r, r.state = "readable") EXCEPT !.state = "errored"]
  IN IF r.reader THEN [SettleReads(v, Failed) EXCEPT !.closed = Reject(@)] ELSE v

readableStreamDefaultControllerError(r) ==
  IF r.state # "readable" THEN r
  ELSE readableStreamError([r EXCEPT !.queue = <<>>, !.algorithms = FALSE])

\* With [[CancelSteps]] of the controller.  The promise is r.cancel, or one that is
\* resolved when the stream is closed and rejected when it is errored.
readableStreamCancel(r) ==
  IF r.state # "readable" THEN r
  ELSE [Asserting(readableStreamClose(r), r.algorithms)
          EXCEPT !.queue = <<>>, !.cancel = "pending", !.algorithms = FALSE]

-----------------------------------------------------------------------------
(* The controller.                                                         *)

readableStreamDefaultControllerCanCloseOrEnqueue(r) ==
  ~r.closeRequested /\ r.state = "readable"

readableStreamDefaultcontrollerShouldCallPull(r) ==
  /\ readableStreamDefaultControllerCanCloseOrEnqueue(r)
  /\ r.start = "resolved"
  /\ (r.reader /\ r.readRequests # <<>>) \/ r.hwm - Len(r.queue) > 0

readableStreamDefaultControllerCallPullIfNeeded(r) ==
  IF ~readableStreamDefaultcontrollerShouldCallPull(r) THEN r
  ELSE IF r.pull # "idle" THEN [r EXCEPT !.pullAgain = TRUE]
  ELSE [Asserting(r, ~r.pullAgain /\ r.algorithms) EXCEPT !.pull = "pending"]

\* Mutant: the stream is closed over the chunks in its queue.
ClosesAtOnce(r) ==
  IF ~readableStreamDefaultControllerCanCloseOrEnqueue(r) THEN r
  ELSE readableStreamClose([r EXCEPT !.closeRequested = TRUE, !.algorithms = FALSE])

readableStreamDefaultControllerClose(r) ==
  IF ~readableStreamDefaultControllerCanCloseOrEnqueue(r) THEN r
  ELSE IF r.queue = <<>>
    THEN readableStreamClose([r EXCEPT !.closeRequested = TRUE, !.algorithms = FALSE])
    ELSE [r EXCEPT !.closeRequested = TRUE]

readableStreamFulfillReadRequest(r, chunk) ==
  [Asserting(r, r.reader /\ r.readRequests # <<>>)
     EXCEPT !.reads[Head(r.readRequests)] = chunk, !.readRequests = Tail(@)]

\* The size algorithm may throw or return no number: the stream is errored, and
\* the error is thrown at the caller.
readableStreamDefaultControllerEnqueue(r, chunk, size) ==
  IF ~readableStreamDefaultControllerCanCloseOrEnqueue(r) THEN r
  ELSE IF r.reader /\ r.readRequests # <<>>
    THEN readableStreamDefaultControllerCallPullIfNeeded(
           readableStreamFulfillReadRequest(r, chunk))
  ELSE IF size # "one" \/ ~r.algorithms THEN readableStreamDefaultControllerError(r)
  ELSE readableStreamDefaultControllerCallPullIfNeeded([r EXCEPT !.queue = Append(@, chunk)])

-----------------------------------------------------------------------------
(* The reader.                                                             *)

\* Mutant: the chunk is looked at and stays in the queue.
PullPeeks(r) ==
  LET request == Len(r.reads) IN
  IF r.queue = <<>>
    THEN readableStreamDefaultControllerCallPullIfNeeded(
           [r EXCEPT !.readRequests = Append(@, request)])
    ELSE [r EXCEPT !.reads[request] = Head(r.queue)]

\* [[PullSteps]] of the controller for the read request r.reads was extended by.
PullSteps(r) ==
  LET request == Len(r.reads) IN
  IF r.queue = <<>>
    THEN readableStreamDefaultControllerCallPullIfNeeded(
           [Asserting(r, r.reader) EXCEPT !.readRequests = Append(@, request)])
    ELSE LET v == [r EXCEPT !.queue = Tail(@)]
             u == IF r.closeRequested /\ v.queue = <<>>
                    THEN readableStreamClose([v EXCEPT !.algorithms = FALSE])
                    ELSE readableStreamDefaultControllerCallPullIfNeeded(v)
         IN [u EXCEPT !.reads[request] = Head(r.queue)]

readableStreamDefaultReaderRead(r) ==
  CASE r.state = "closed" -> [r EXCEPT !.reads = Append(@, Done)]
    [] r.state = "errored" -> [r EXCEPT !.reads = Append(@, Failed)]
    [] r.state = "readable" -> PullSteps([r EXCEPT !.reads = Append(@, Pending)])

\* setUpReadableStreamDefaultReader and readableStreamReaderGenericInitialize.
setUpReadableStreamDefaultReader(r) ==
  [r EXCEPT !.reader = TRUE,
            !.closed = CASE r.state = "readable" -> "pending"
                         [] r.state = "closed" -> "resolved"
                         [] r.state = "errored" -> "rejected"]

\* With readableStreamReaderGenericRelease.
readableStreamDefaultReaderRelease(r) ==
  [SettleReads(Asserting(r, r.reader), Failed) EXCEPT !.reader = FALSE,
                                                      !.closed = "rejected"]

-----------------------------------------------------------------------------
(* The reactions to the promises of the source.                            *)

ReadableStarts(r, fulfilled) ==
  IF fulfilled
    THEN readableStreamDefaultControllerCallPullIfNeeded(
           [Asserting(r, r.pull = "idle" /\ ~r.pullAgain) EXCEPT !.start = "resolved"])
    ELSE [readableStreamDefaultControllerError(r) EXCEPT !.start = "rejected"]

PullSettles(r, fulfilled) ==
  IF ~fulfilled THEN [readableStreamDefaultControllerError(r) EXCEPT !.pull = "rejected"]
  ELSE IF r.pullAgain
    THEN readableStreamDefaultControllerCallPullIfNeeded(
           [r EXCEPT !.pull = "idle", !.pullAgain = FALSE])
    ELSE [r EXCEPT !.pull = "idle"]

CancelSettles(r, fulfilled) ==
  [r EXCEPT !.cancel = IF fulfilled THEN "resolved" ELSE "rejected"]
=============================================================================
