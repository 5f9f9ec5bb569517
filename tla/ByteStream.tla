----------------------------- MODULE ByteStream -----------------------------
(***************************************************************************)
(* The readable byte stream of ext/web/06_streams.js: its controller, the  *)
(* default and BYOB readers that hold its lock one after the other, the    *)
(* BYOB request of the source, and the pull-into descriptors between them. *)
(*                                                                         *)
(* Bytes are the numbers in which the source produced them.  A buffer is   *)
(* the bytes in it and whether it is detached.  The record has the fields  *)
(* of a ReadableStream, for the operators both kinds of streams share; an  *)
(* entry of its queue is a sequence of bytes.  What the source does inside *)
(* its pull() is taken to happen after the call that pulled.               *)
(***************************************************************************)
EXTENDS ReadableStream

CONSTANTS MaxBytes,     \* bound: bytes the source produces
          MaxReads,     \* bound: reads
          MaxReaders,   \* bound: readers that take the lock
          HWMs,         \* high water marks to choose from
          AutoSizes,    \* values of autoAllocateChunkSize, 0 for undefined
          Views         \* what a read into a view asks for

ASSUME ByteAssumption ==
  /\ {MaxBytes, MaxReads, MaxReaders} \subseteq Nat
  /\ HWMs \subseteq Nat /\ AutoSizes \subseteq Nat
  /\ Views \subseteq [byteLength : Nat \ {0}, minimumFill : Nat \ {0}, elementSize : Nat \ {0}]
  /\ \A v \in Views :
       /\ v.minimumFill % v.elementSize = 0 /\ v.byteLength % v.elementSize = 0
       /\ v.minimumFill <= v.byteLength

VARIABLES stream,       \* the stream, its controller and its reader
          produced,     \* history: bytes the controller took from the source
          asked,        \* history: the view of each read()
          readers       \* history: kinds of the readers so far

vars == <<stream, produced, asked, readers>>

Bytes == 1 .. MaxBytes

PullIntos ==
  [bytes : Seq(Bytes), byteLength : Nat, minimumFill : Nat, elementSize : Nat,
   readerType : {"default", "byob", "none"}, detached : BOOLEAN]

\* got holds what each read received; reads, as in ReadableStream, how it ended, with
\* Filled for a chunk.
Filled == 1
ByteFields ==
  [byob : BOOLEAN,                 \* the reader is a BYOB reader
   autoAllocateChunkSize : Nat,
   pendingPullIntos : Seq(PullIntos),
   byobRequest : BOOLEAN,          \* the source has been given one that is valid
   readIntoRequests : Seq(Nat),
   got : Seq(Seq(Bytes))]

setUpReadableByteStreamController(hwm, auto) ==
  LET shared == initializeReadableStream(hwm)
      own == [byob |-> FALSE, autoAllocateChunkSize |-> auto, pendingPullIntos |-> <<>>,
              byobRequest |-> FALSE, readIntoRequests |-> <<>>, got |-> <<>>]
  IN [f \in DOMAIN shared \cup DOMAIN own |->
        IF f \in DOMAIN own THEN own[f] ELSE shared[f]]

Init ==
  /\ \E h \in HWMs, auto \in AutoSizes : stream = setUpReadableByteStreamController(h, auto)
  /\ produced = 0 /\ asked = <<>> /\ readers = <<>>

-----------------------------------------------------------------------------
(* The queue.                                                              *)

QueueTotalSize(s) == Len(FlattenSeq(s.queue))

readableByteStreamControllerEnqueueChunkToQueue(s, bytes) ==
  [s EXCEPT !.queue = Append(@, bytes)]

\* The last n bytes of a buffer.
LastBytes(bytes, n) == SubSeq(bytes, Len(bytes) - n + 1, Len(bytes))

\* The queue without its first n bytes: entries go as a whole or are cut.
Drop(queue, n) ==
  LET upto(i) == Len(FlattenSeq(SubSeq(queue, 1, i)))
      rest == {i \in DOMAIN queue : upto(i) > n}
  IN IF rest = {} THEN <<>>
     ELSE LET i == Min(rest)
          IN <<LastBytes(queue[i], upto(i) - n)>> \o SubSeq(queue, i + 1, Len(queue))

readableStreamHasDefaultReader(s) == s.reader /\ ~s.byob
readableStreamHasBYOBReader(s) == s.reader /\ s.byob

readableByteStreamControllerShouldCallPull(s) ==
  /\ s.state = "readable" /\ ~s.closeRequested /\ s.start = "resolved"
  /\ s.readRequests # <<>> \/ s.readIntoRequests # <<>> \/ s.hwm > QueueTotalSize(s)

\* Mutant: a pull wanted while another is under way is forgotten.
ForgetsPullAgain(s) ==
  IF ~readableByteStreamControllerShouldCallPull(s) \/ s.pull # "idle" THEN s
  ELSE [Asserting(s, ~s.pullAgain /\ s.algorithms) EXCEPT !.pull = "pending"]

readableByteStreamControllerCallPullIfNeeded(s) ==
  IF ~readableByteStreamControllerShouldCallPull(s) THEN s
  ELSE IF s.pull # "idle" THEN [s EXCEPT !.pullAgain = TRUE]
  ELSE [Asserting(s, ~s.pullAgain /\ s.algorithms) EXCEPT !.pull = "pending"]

readableByteStreamControllerHandleQueueDrain(s) ==
  LET v == Asserting(s, s.state = "readable") IN
  IF QueueTotalSize(s) = 0 /\ s.closeRequested
    THEN readableStreamClose([v EXCEPT !.algorithms = FALSE])
    ELSE readableByteStreamControllerCallPullIfNeeded(v)

-----------------------------------------------------------------------------
(* Requests.                                                               *)

SettleReadIntos(s, outcome) ==
  [s EXCEPT !.reads = [i \in DOMAIN @ |-> IF i \in Range(s.readIntoRequests)
                                            THEN outcome ELSE @[i]],
            !.readIntoRequests = <<>>]

\* chunkSteps, or closeSteps with the view.
Answer(s, request, bytes, done) ==
  [s EXCEPT !.reads[request] = IF done THEN Done ELSE Filled, !.got[request] = bytes]

readableByteStreamControllerFillReadRequestFromQueue(s, request) ==
  Answer(readableByteStreamControllerHandleQueueDrain([s EXCEPT !.queue = Tail(@)]),
         request, Head(s.queue), FALSE)

ProcessReadRequest(s) ==
  IF s.readRequests = <<>> \/ s.queue = <<>> THEN s
  ELSE readableByteStreamControllerFillReadRequestFromQueue(
         [s EXCEPT !.readRequests = Tail(@)], Head(s.readRequests))

\* A turn of the loop for each request; after[k] is the stream after k turns.
readableByteStreamControllerProcessReadRequestsUsingQueue(s) ==
  LET after[k \in 0 .. Len(s.readRequests)] ==
        IF k = 0 THEN s ELSE ProcessReadRequest(after[k - 1])
  IN after[Len(s.readRequests)]

-----------------------------------------------------------------------------
(* Pull-into descriptors.                                                  *)

\* Mutant: the request the source holds stays valid.
KeepsBYOBRequest(s) == s

readableByteStreamControllerInvalidateBYOBRequest(s) == [s EXCEPT !.byobRequest = FALSE]

readableByteStreamControllerShiftPendingPullInto(s) ==
  [Asserting(s, ~s.byobRequest) EXCEPT !.pendingPullIntos = Tail(@)]

\* With readableByteStreamControllerConvertPullIntoDescriptor.
readableByteStreamControllerCommitPullIntoDescriptor(s, d) ==
  LET requests == IF d.readerType = "default" THEN s.readRequests ELSE s.readIntoRequests
      v == Asserting(s, /\ s.state # "errored" /\ d.readerType # "none"
                        /\ Len(d.bytes) <= d.byteLength
                        /\ Len(d.bytes) % d.elementSize = 0
                        /\ ~d.detached
                        /\ s.reader /\ s.byob = (d.readerType = "byob")
                        /\ requests # <<>>)
  IN IF v.failed THEN v
     ELSE IF d.readerType = "default"
       THEN Answer([v EXCEPT !.readRequests = Tail(@)], Head(requests),
                   IF s.state = "closed" THEN <<>> ELSE d.bytes, s.state = "closed")
       ELSE Answer([v EXCEPT !.readIntoRequests = Tail(@)], Head(requests),
                   d.bytes, s.state = "closed")

\* The stream and the descriptor after it has been filled from the queue, and whether
\* it is ready.
readableByteStreamControllerFillPullIntoDescriptorFromQueue(s, d) ==
  LET size == QueueTotalSize(s)
      maxBytesFilled == Min({Len(d.bytes) + size, d.byteLength})
      maxAlignedBytes == maxBytesFilled - (maxBytesFilled % d.elementSize)
      ready == maxAlignedBytes >= d.minimumFill
      n == (IF ready THEN maxAlignedBytes ELSE maxBytesFilled) - Len(d.bytes)
      v == Asserting(s, /\ Len(d.bytes) < d.minimumFill /\ ~s.byobRequest
                        /\ ready \/ (n = size /\ n > 0 /\ maxBytesFilled < d.minimumFill))
  IN [stream |-> [v EXCEPT !.queue = Drop(@, n)],
      descriptor |-> [d EXCEPT !.bytes = @ \o SubSeq(FlattenSeq(s.queue), 1, n)],
      ready |-> ready]

\* A descriptor that cannot be made ready takes what there is and stays.
ProcessPullInto(s) ==
  LET f == readableByteStreamControllerFillPullIntoDescriptorFromQueue(
             s, Head(s.pendingPullIntos))
  IN IF s.pendingPullIntos = <<>> \/ s.queue = <<>> THEN s
     ELSE IF f.ready
       THEN readableByteStreamControllerCommitPullIntoDescriptor(
              readableByteStreamControllerShiftPendingPullInto(f.stream), f.descriptor)
       ELSE [f.stream EXCEPT !.pendingPullIntos[1] = f.descriptor]

readableByteStreamControllerProcessPullIntoDescriptorsUsingQueue(s) ==
  LET after[k \in 0 .. Len(s.pendingPullIntos)] ==
        IF k = 0 THEN Asserting(s, ~s.closeRequested) ELSE ProcessPullInto(after[k - 1])
  IN after[Len(s.pendingPullIntos)]

\* Mutant: what a released read had received goes with its view.
DropsReleased(s) ==
  readableByteStreamControllerShiftPendingPullInto(
    Asserting(s, Head(s.pendingPullIntos).readerType = "none"))

\* What a reader that is gone has left in its view goes back to the queue.
readableByteStreamControllerEnqueueDetachedPullIntoToQueue(s) ==
  LET d == Head(s.pendingPullIntos)
      v == Asserting(s, d.readerType = "none")
  IN readableByteStreamControllerShiftPendingPullInto(
       IF d.bytes = <<>> THEN v
       ELSE readableByteStreamControllerEnqueueChunkToQueue(v, d.bytes))

-----------------------------------------------------------------------------
(* Ends.                                                                   *)

readableByteStreamControllerClearPendingPullIntos(s) ==
  [s EXCEPT !.byobRequest = FALSE, !.pendingPullIntos = <<>>]

readableByteStreamControllerError(s) ==
  IF s.state # "readable" THEN s
  ELSE SettleReadIntos(readableStreamError(
         [readableByteStreamControllerClearPendingPullIntos(s)
            EXCEPT !.queue = <<>>, !.algorithms = FALSE]), Failed)

\* The source has to respond with nothing before reads into views learn of the close.
readableByteStreamControllerClose(s) ==
  CASE s.queue # <<>> -> [s EXCEPT !.closeRequested = TRUE]
    [] /\ s.queue = <<>> /\ s.pendingPullIntos # <<>>
       /\ Len(Head(s.pendingPullIntos).bytes) % Head(s.pendingPullIntos).elementSize # 0 ->
         readableByteStreamControllerError(s)
    [] OTHER -> readableStreamClose([s EXCEPT !.algorithms = FALSE])

\* With [[CancelSteps]] of the controller.
CancelBytes(s) ==
  LET v == SettleReadIntos(readableStreamClose(s), Done) IN
  [readableByteStreamControllerClearPendingPullIntos(Asserting(v, s.algorithms))
     EXCEPT !.queue = <<>>, !.cancel = "pending", !.algorithms = FALSE]

-----------------------------------------------------------------------------
(* Reads.                                                                  *)

NewPullInto(view, readerType) ==
  [bytes |-> <<>>, byteLength |-> view.byteLength, minimumFill |-> view.minimumFill,
   elementSize |-> view.elementSize, readerType |-> readerType, detached |-> FALSE]

OneByte(size) == [byteLength |-> size, minimumFill |-> 1, elementSize |-> 1]

AddRead(s) == [s EXCEPT !.reads = Append(@, Pending), !.got = Append(@, <<>>)]

\* [[PullSteps]] of the controller.
PullBytes(s) ==
  LET request == Len(s.reads) IN
  IF s.queue # <<>>
    THEN readableByteStreamControllerFillReadRequestFromQueue(
           Asserting(s, s.readRequests = <<>>), request)
    ELSE readableByteStreamControllerCallPullIfNeeded(
           [s EXCEPT !.readRequests = Append(@, request),
                     !.pendingPullIntos =
                       IF s.autoAllocateChunkSize = 0 THEN @
                       ELSE Append(@, NewPullInto(OneByte(s.autoAllocateChunkSize),
                                                  "default"))])

ReadBytes(s) ==
  CASE s.state = "closed" -> [AddRead(s) EXCEPT !.reads = Append(s.reads, Done)]
    [] s.state = "errored" -> [AddRead(s) EXCEPT !.reads = Append(s.reads, Failed)]
    [] s.state = "readable" -> PullBytes(AddRead(s))

readableByteStreamControllerPullInto(s, view) ==
  LET request == Len(s.reads)
      d == NewPullInto(view, "byob")
      Waits(t, e) == [t EXCEPT !.pendingPullIntos = Append(@, e),
                               !.readIntoRequests = Append(@, request)]
      f == readableByteStreamControllerFillPullIntoDescriptorFromQueue(s, d)
  IN CASE s.pendingPullIntos # <<>> -> Waits(s, d)
       [] s.pendingPullIntos = <<>> /\ s.state = "closed" -> [s EXCEPT !.reads[request] = Done]
       [] s.pendingPullIntos = <<>> /\ s.state = "readable" /\ s.queue = <<>> ->
            readableByteStreamControllerCallPullIfNeeded(Waits(s, d))
       [] OTHER ->
            CASE f.ready ->
                   Answer(readableByteStreamControllerHandleQueueDrain(f.stream),
                          request, f.descriptor.bytes, FALSE)
              [] ~f.ready /\ s.closeRequested ->
                   [readableByteStreamControllerError(f.stream)
                      EXCEPT !.reads[request] = Failed]
              [] ~f.ready /\ ~s.closeRequested ->
                   readableByteStreamControllerCallPullIfNeeded(
                     Waits(f.stream, f.descriptor))

readableStreamBYOBReaderRead(s, view) ==
  IF s.state = "errored" THEN [AddRead(s) EXCEPT !.reads = Append(s.reads, Failed)]
  ELSE readableByteStreamControllerPullInto(AddRead(s), view)

\* Mutant: reads into views stay requested when their reader is released.
ReleasesReadsOnly(s) ==
  readableStreamDefaultReaderRelease(
    [s EXCEPT !.pendingPullIntos =
       IF @ = <<>> THEN @ ELSE <<[Head(@) EXCEPT !.readerType = "none"]>>])

\* [[ReleaseSteps]] of the controller: what the source is filling stays, without a
\* reader; then the requests are rejected.
ReleaseBytes(s) ==
  SettleReadIntos(readableStreamDefaultReaderRelease(
    [s EXCEPT !.pendingPullIntos =
       IF @ = <<>> THEN @ ELSE <<[Head(@) EXCEPT !.readerType = "none"]>>]), Failed)

-----------------------------------------------------------------------------
(* The source fills.                                                       *)

EnqueueToDefaultReader(s, bytes) ==
  LET v == readableByteStreamControllerProcessReadRequestsUsingQueue(s) IN
  IF v.readRequests = <<>>
    THEN readableByteStreamControllerEnqueueChunkToQueue(
           Asserting(v, v.pendingPullIntos = <<>>), bytes)
    ELSE LET u == Asserting(v, v.queue = <<>>)
             w == IF u.pendingPullIntos = <<>> THEN u
                  ELSE readableByteStreamControllerShiftPendingPullInto(
                         Asserting(u, Head(u.pendingPullIntos).readerType = "default"))
         IN Answer([w EXCEPT !.readRequests = Tail(@)], Head(w.readRequests), bytes, FALSE)

readableByteStreamControllerEnqueue(s, bytes) ==
  LET u == readableByteStreamControllerInvalidateBYOBRequest(s)
      v == IF s.pendingPullIntos = <<>> THEN s
           ELSE IF Head(s.pendingPullIntos).readerType = "none"
             THEN readableByteStreamControllerEnqueueDetachedPullIntoToQueue(u) ELSE u
  IN readableByteStreamControllerCallPullIfNeeded(
       CASE readableStreamHasDefaultReader(v) -> EnqueueToDefaultReader(v, bytes)
         [] readableStreamHasBYOBReader(v) ->
              readableByteStreamControllerProcessPullIntoDescriptorsUsingQueue(
                readableByteStreamControllerEnqueueChunkToQueue(v, bytes))
         [] ~v.reader -> readableByteStreamControllerEnqueueChunkToQueue(v, bytes))

\* Mutant: what is left of an element is not offered to the reads that wait.
RespondsToFirst(s, bytes) ==
  LET d == [Head(s.pendingPullIntos) EXCEPT !.bytes = @ \o bytes]
      v == [s EXCEPT !.pendingPullIntos[1] = d]
      remainderSize == Len(d.bytes) % d.elementSize
      u == readableByteStreamControllerShiftPendingPullInto(v)
  IN IF d.readerType = "none" THEN readableByteStreamControllerEnqueueDetachedPullIntoToQueue(v)
     ELSE IF Len(d.bytes) < d.minimumFill THEN v
     ELSE readableByteStreamControllerCommitPullIntoDescriptor(
            IF remainderSize = 0 THEN u
            ELSE readableByteStreamControllerEnqueueChunkToQueue(
                   u, LastBytes(d.bytes, remainderSize)),
            [d EXCEPT !.bytes = SubSeq(@, 1, Len(@) - remainderSize)])

\* What is left of an element goes to the queue.
readableByteStreamControllerRespondInReadableState(s, bytes) ==
  LET d == [Head(s.pendingPullIntos) EXCEPT !.bytes = @ \o bytes]
      v == [Asserting(s, Len(d.bytes) <= d.byteLength) EXCEPT !.pendingPullIntos[1] = d]
      remainderSize == Len(d.bytes) % d.elementSize
      u == readableByteStreamControllerShiftPendingPullInto(v)
      w == IF remainderSize = 0 THEN u
           ELSE readableByteStreamControllerEnqueueChunkToQueue(
                  u, LastBytes(d.bytes, remainderSize))
  IN CASE d.readerType = "none" ->
            readableByteStreamControllerProcessPullIntoDescriptorsUsingQueue(
              readableByteStreamControllerEnqueueDetachedPullIntoToQueue(v))
       [] d.readerType # "none" /\ Len(d.bytes) < d.minimumFill -> v
       [] d.readerType # "none" /\ Len(d.bytes) >= d.minimumFill ->
            readableByteStreamControllerProcessPullIntoDescriptorsUsingQueue(
              readableByteStreamControllerCommitPullIntoDescriptor(
                w, [d EXCEPT !.bytes = SubSeq(@, 1, Len(@) - remainderSize)]))

\* The next read into a view gets what its descriptor has.
RespondToNext(s) ==
  IF s.pendingPullIntos = <<>> THEN Asserting(s, FALSE)
  ELSE readableByteStreamControllerCommitPullIntoDescriptor(
         readableByteStreamControllerShiftPendingPullInto(s), Head(s.pendingPullIntos))

readableByteStreamControllerRespondInClosedState(s) ==
  LET d == Head(s.pendingPullIntos)
      v == Asserting(s, Len(d.bytes) % d.elementSize = 0)
      u == IF d.readerType = "none"
             THEN readableByteStreamControllerShiftPendingPullInto(v) ELSE v
      after[k \in 0 .. Len(u.readIntoRequests)] ==
        IF k = 0 THEN u ELSE RespondToNext(after[k - 1])
  IN after[Len(u.readIntoRequests)]

\* The caller has transferred the buffer, or the one of the new view, and the descriptor
\* has a whole one again.
readableByteStreamControllerRespondInternal(s, bytes) ==
  LET v == [readableByteStreamControllerInvalidateBYOBRequest(s)
              EXCEPT !.pendingPullIntos[1].detached = FALSE]
  IN readableByteStreamControllerCallPullIfNeeded(
       IF s.state = "closed" THEN readableByteStreamControllerRespondInClosedState(v)
       ELSE readableByteStreamControllerRespondInReadableState(v, bytes))

-----------------------------------------------------------------------------
(* The users of the stream.                                                *)

\* An assertion that fails throws out of the call it is in: that it failed is recorded,
\* and the stream is not followed from there.
Becomes(s, nowProduced, nowAsked, nowReaders) ==
  /\ ~stream.failed
  /\ IF s.failed
       THEN stream' = [stream EXCEPT !.failed = TRUE] /\ UNCHANGED <<produced, asked, readers>>
       ELSE /\ stream' = s /\ produced' = nowProduced
            /\ asked' = nowAsked /\ readers' = nowReaders

Read(s, view) ==
  /\ stream.reader /\ Len(asked) < MaxReads
  /\ Becomes(s, produced, Append(asked, view), readers)

ReadDefault == ~stream.byob /\ Read(ReadBytes(stream), OneByte(1))
ReadInto ==
  stream.byob /\ \E v \in Views : Read(readableStreamBYOBReaderRead(stream, v), v)

GetReader ==
  /\ ~stream.reader /\ Len(readers) < MaxReaders
  /\ \E kind \in {"default", "byob"} :
       Becomes([setUpReadableStreamDefaultReader(stream) EXCEPT !.byob = (kind = "byob")],
               produced, asked, Append(readers, kind))

Calls(s) == Becomes(s, produced, asked, readers)

ReleaseLock == stream.reader /\ Calls(ReleaseBytes(stream))
Cancel == stream.state = "readable" /\ Calls(CancelBytes(stream))

-----------------------------------------------------------------------------
(* The source.                                                             *)

NextBytes(n) == [i \in 1 .. n |-> produced + i]

Produces(n, s) == Becomes(s, produced + n, asked, readers)

\* Throws when the buffer of the read under way is detached.
Enqueue ==
  /\ stream.state = "readable" /\ ~stream.closeRequested
  /\ stream.pendingPullIntos # <<>> => ~Head(stream.pendingPullIntos).detached
  /\ \E n \in 1 .. MaxBytes - produced :
       Produces(n, readableByteStreamControllerEnqueue(stream, NextBytes(n)))

readableByteStreamControllerGetBYOBRequest ==
  /\ ~stream.byobRequest /\ stream.pendingPullIntos # <<>>
  /\ Calls([stream EXCEPT !.byobRequest = TRUE])

\* The source transfers the buffer of the view it was given.
TransferView ==
  /\ stream.byobRequest /\ ~Head(stream.pendingPullIntos).detached
  /\ Calls([stream EXCEPT !.pendingPullIntos[1].detached = TRUE])

\* Nothing may have been written once the stream is closed.
readableByteStreamControllerRespond ==
  LET d == Head(stream.pendingPullIntos)
      written == IF stream.state = "closed" THEN {0}
                 ELSE 1 .. Min({MaxBytes - produced, d.byteLength - Len(d.bytes)})
  IN \E n \in written :
       Produces(n, readableByteStreamControllerRespondInternal(stream, NextBytes(n)))

\* A view of the same region of a buffer of the same capacity does as well.
readableByteStreamControllerRespondWithNewView == readableByteStreamControllerRespond

Respond ==
  /\ stream.byobRequest /\ ~Head(stream.pendingPullIntos).detached
  /\ readableByteStreamControllerRespond

RespondWithNewView ==
  stream.byobRequest /\ readableByteStreamControllerRespondWithNewView

ControllerClose ==
  /\ stream.state = "readable" /\ ~stream.closeRequested
  /\ Calls(readableByteStreamControllerClose(stream))

ControllerError ==
  stream.state = "readable" /\ Calls(readableByteStreamControllerError(stream))

Started ==
  /\ stream.start = "pending"
  /\ \/ Calls(readableByteStreamControllerCallPullIfNeeded(
                [Asserting(stream, stream.pull = "idle" /\ ~stream.pullAgain)
                   EXCEPT !.start = "resolved"]))
     \/ Calls([readableByteStreamControllerError(stream) EXCEPT !.start = "rejected"])

Pulled ==
  /\ stream.pull = "pending"
  /\ LET again == [stream EXCEPT !.pull = "idle", !.pullAgain = FALSE] IN
     \/ Calls(IF stream.pullAgain THEN readableByteStreamControllerCallPullIfNeeded(again)
              ELSE again)
     \/ Calls([readableByteStreamControllerError(stream) EXCEPT !.pull = "rejected"])

Cancelled ==
  /\ stream.cancel = "pending"
  /\ \E ok \in BOOLEAN : Calls(CancelSettles(stream, ok))
-----------------------------------------------------------------------------
Users == GetReader \/ ReadDefault \/ ReadInto \/ ReleaseLock \/ Cancel

Source ==
  \/ Enqueue \/ readableByteStreamControllerGetBYOBRequest \/ TransferView \/ Respond
  \/ RespondWithNewView \/ ControllerClose \/ ControllerError

Callbacks == Started \/ Pulled \/ Cancelled

Next == Users \/ Source \/ Callbacks

Spec == Init /\ [][Next]_vars

-----------------------------------------------------------------------------
(* Properties.                                                             *)

\* The state has its type; requests, descriptors and the BYOB request belong to
\* those who hold them.
TypeOK ==
  /\ stream.state \in {"readable", "closed", "errored"}
  /\ stream.queue \in Seq(Seq(Bytes) \ {<<>>})
  /\ stream.pendingPullIntos \in Seq(PullIntos)
  /\ stream.byobRequest => stream.pendingPullIntos # <<>>
  /\ stream.readRequests # <<>> => readableStreamHasDefaultReader(stream)
  /\ stream.readIntoRequests # <<>> => readableStreamHasBYOBReader(stream)
  /\ produced \in 0 .. MaxBytes
  /\ {Len(stream.reads), Len(stream.got)} = {Len(asked)} /\ Len(asked) <= MaxReads
  /\ readers \in Seq({"default", "byob"})

\* All readers so far were of one kind.
OneKind == \A i, j \in DOMAIN readers : readers[i] = readers[j]

\* No assert() of the byte stream fails, however enqueue(), respond(), close() and
\* error() of the source meet reads, cancel() and releaseLock().  It holds for
\* streams whose readers are all default readers or all BYOB readers: after a read
\* into a view that was released half filled, a default reader meets descriptors
\* that are not its own.
NoAssertFails == OneKind => ~stream.failed

\* Bytes the stream still has to hand out.
Held ==
  (IF stream.pendingPullIntos = <<>> THEN <<>> ELSE Head(stream.pendingPullIntos).bytes)
    \o FlattenSeq(stream.queue)

\* The reads receive the bytes of the source in order, each once, although they pass
\* through the queue, through views that are filled in parts, and back from views
\* whose reader is gone; none is missing while the stream is readable, nor when it is
\* closed under the reader it had from the start.  A read into a view gets whole
\* elements, and at least the minimum it asked for unless the stream closes.
BytesKept ==
  LET got == FlattenSeq(stream.got)
      all == [i \in 1 .. produced |-> i]
      closedUnderReader ==
        stream.state = "closed" /\ stream.cancel = "none" /\ stream.reader /\ Len(readers) = 1
  IN /\ got = SubSeq(all, 1, Len(got))
     /\ stream.state = "readable" \/ closedUnderReader => got \o Held = all
     /\ \A i \in DOMAIN asked :
          /\ Len(stream.got[i]) % asked[i].elementSize = 0
          /\ stream.reads[i] = Filled => Len(stream.got[i]) >= asked[i].minimumFill

Waiting(s) == s.readRequests # <<>> \/ s.readIntoRequests # <<>>

\* No read waits for bytes that are there (again for readers of one kind), so that a
\* close that waits for the queue leaves nobody behind; and one respond(0) after
\* the close ends all reads into views, also those of a second reader.
NoReadStranded ==
  /\ OneKind /\ stream.queue # <<>> => ~Waiting(stream)
  /\ stream.state = "closed" /\ Waiting(stream) =>
       /\ stream.pendingPullIntos # <<>>
       /\ LET s == readableByteStreamControllerRespondInternal(stream, <<>>)
          IN ~s.failed /\ ~Waiting(s)

Wants == readableByteStreamControllerShouldCallPull(stream)

Requests(s) == Len(s.readRequests) + Len(s.readIntoRequests)

\* No demand for bytes is lost.  When the stream comes to want bytes, or a read begins
\* to wait, pull() is called, or called again once the call under way settles; only a
\* read into a view behind another one leaves it to the BYOB request of that one.  And a
\* pull() that settles is followed by the one that was asked for in the meantime, if the
\* stream still wants bytes.
PullNotLost ==
  [][Wants' =>
       /\ ~Wants \/ Requests(stream') > Requests(stream) =>
            \/ stream'.pull = "pending" /\ (stream.pull = "pending" => stream'.pullAgain)
            \/ stream.byob /\ stream.pendingPullIntos # <<>>
       /\ stream.pullAgain => stream'.pull = "pending"]_vars
=============================================================================
