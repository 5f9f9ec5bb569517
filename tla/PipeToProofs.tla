---------------------------- MODULE PipeToProofs -----------------------------
(***************************************************************************)
(* readableStreamPipeTo() for every number of chunks, every high water     *)
(* mark and every behaviour of the size algorithms: no assertion fails,    *)
(* the chunks arrive in order, a pipe that resolved delivered them, and a  *)
(* pipe that settled holds no lock and leaves nothing open.                *)
(***************************************************************************)
EXTENDS PipeTo, StreamProofs

PipeRecords ==
  [preventClose : BOOLEAN, preventAbort : BOOLEAN, preventCancel : BOOLEAN,
   signal : {"idle", "aborted"}, result : Promises,
   loop : {"off", "next", "wait", "ready", "reading"},
   currentWrite : Nat,
   shutdown : {"no", "writes", "act", "awaiting", "done"},
   waitFor : Nat,
   action : {"none", "abort", "cancel", "close", "signal"},
   isError : BOOLEAN,
   awaiting : SUBSET {"abort", "cancel", "close", "rejected"},
   passed : Seq(Numbers)]

Made(s, d, q) == [source |-> s, dest |-> d, pipe |-> q]

-----------------------------------------------------------------------------
(* The invariant, over the source, the destination, the pipe and the       *)
(* number of chunks the source took.                                       *)

\* The loop has at most one read request, the last one, and none when it is elsewhere.
Waits(s) == s.readRequests = <<Len(s.reads)>> /\ s.reads[Len(s.reads)] = Pending
Over(s) == s.readRequests = <<>> /\ s.reads[Len(s.reads)] \in {Done, Failed}
Requests(s, q) ==
  /\ q.loop # "reading" => s.readRequests = <<>>
  /\ q.loop = "reading" => s.reads # <<>> /\ (Waits(s) \/ Over(s))

\* What has been passed on and what is in the queue are the chunks the source took, in
\* order; nothing is missing unless the source failed or was cancelled.
Whole(s) == s.state = "readable" \/ (s.state = "closed" /\ s.cancel = "none")
Order(s, q, n) ==
  /\ \A i \in 1..Len(q.passed) : q.passed[i] = i
  /\ \A i \in 1..Len(s.queue) : s.queue[i] = Len(q.passed) + i
  /\ Len(q.passed) + Len(s.queue) <= n
  /\ Whole(s) => Len(q.passed) + Len(s.queue) = n
  /\ \A i \in 1..Len(s.reads) : s.reads[i] <= n

\* Every chunk that was passed on is a write of the destination.
Count(d, q) ==
  /\ Len(d.writes) = Len(q.passed) /\ q.currentWrite = Len(q.passed)
  /\ q.waitFor <= q.currentWrite

\* The pipe holds both locks while it is pending.
Locked(s, d, q) ==
  (s.reader <=> q.result = "pending") /\ (d.writer <=> q.result = "pending")

Flow(s, d, q, n) ==
  /\ ReadableInv(s) /\ WritableInv(d) /\ q \in PipeRecords /\ n \in Nat /\ n <= MaxChunks
  /\ Requests(s, q) /\ Order(s, q, n) /\ Count(d, q) /\ Locked(s, d, q)

\* The phases of the shutdown.
Phases(q) ==
  /\ q.result = "none" => q.loop = "off" /\ q.shutdown = "no" /\ q.passed = <<>>
  /\ (q.result \in {"resolved", "rejected"} <=> q.shutdown = "done")
  /\ q.shutdown = "no" => ~q.isError
  /\ q.shutdown \in {"no", "writes", "act"} => q.awaiting = {}

\* What set the shutdown off is still so: a stream that has ended does not come back.
Cause(s, d, q) ==
  /\ q.action = "abort" => s.state # "readable"
  /\ q.action = "cancel" => Closing(d)
  /\ q.action = "none" => q.preventClose \/ q.preventAbort \/ q.preventCancel
  /\ ~q.isError => s.state = "closed" /\ q.action = IF q.preventClose THEN "none" ELSE "close"
  /\ q.action = "close" => ~q.isError

\* The action of the shutdown has been taken.
Acted(s, d, q) ==
  ~q.preventClose /\ ~q.preventAbort /\ ~q.preventCancel =>
    s.state # "readable" /\ Closing(d)

\* While there is no error, no write has been turned down, and nobody but the shutdown
\* closes the destination.
Delivery(d, q) ==
  /\ ~q.isError => Prompt(d)
  /\ q.result = "pending" /\ q.shutdown \in {"writes", "act"} => Unclosed(d)
  /\ q.shutdown = "awaiting" /\ q.action = "close" /\ q.passed # <<>> =>
       q.awaiting \in {{"close"}, {"rejected"}}
  /\ q.result = "resolved" =>
       ~q.isError /\ (~q.preventClose /\ q.passed # <<>> => d.close = "resolved")

Steady(s, d, q) ==
  /\ Phases(q) /\ Delivery(d, q)
  /\ q.shutdown # "no" => Cause(s, d, q)
  /\ q.shutdown \in {"awaiting", "done"} => Acted(s, d, q)

\* Between two steps, before and after the loop has followed.
Before(s, d, q, n) ==
  /\ Flow(s, d, q, n) /\ Steady(s, d, q)
  /\ q.result = "pending" /\ q.shutdown = "no" => Unclosed(d)
After(s, d, q, n) == Before(s, d, q, n) /\ (q.loop = "reading" => Waits(s))

PipeInv == After(source, dest, pipe, enqueued)

-----------------------------------------------------------------------------
(* The loop. *)

\* The types of the fields.
LEMMA PipeFields ==
  ASSUME NEW q \in PipeRecords
  PROVE  /\ q.preventClose \in BOOLEAN /\ q.preventAbort \in BOOLEAN
         /\ q.preventCancel \in BOOLEAN /\ q.signal \in {"idle", "aborted"}
         /\ q.result \in Promises /\ q.loop \in {"off", "next", "wait", "ready", "reading"}
         /\ q.currentWrite \in Nat /\ q.waitFor \in Nat
         /\ q.shutdown \in {"no", "writes", "act", "awaiting", "done"}
         /\ q.action \in {"none", "abort", "cancel", "close", "signal"}
         /\ q.isError \in BOOLEAN /\ q.awaiting \subseteq {"abort", "cancel", "close", "rejected"}
         /\ q.passed \in Seq(Numbers)
BY DEF PipeRecords

\* A step of the loop that touches neither stream.
Turns(q, v, l) == v = [q EXCEPT !.loop = l]

\* The fields of the pipe after a step of the loop.
LEMMA TurnFields ==
  ASSUME NEW q \in PipeRecords, NEW l \in {"off", "next", "wait", "ready", "reading"},
         NEW v, Turns(q, v, l)
  PROVE  /\ v \in PipeRecords
         /\ v.loop = l /\ v.preventClose = q.preventClose /\ v.preventAbort = q.preventAbort
         /\ v.preventCancel = q.preventCancel /\ v.result = q.result
         /\ v.currentWrite = q.currentWrite /\ v.shutdown = q.shutdown
         /\ v.waitFor = q.waitFor /\ v.action = q.action /\ v.isError = q.isError
         /\ v.awaiting = q.awaiting /\ v.passed = q.passed
         /\ \A s, d : Steady(s, d, q) /\ q.result # "none" => Steady(s, d, v)
<1>1. v \in PipeRecords BY DEF Turns, PipeRecords
<1>2. /\ v.loop = l /\ v.preventClose = q.preventClose /\ v.preventAbort = q.preventAbort
      /\ v.preventCancel = q.preventCancel /\ v.result = q.result
      /\ v.currentWrite = q.currentWrite /\ v.shutdown = q.shutdown
      /\ v.waitFor = q.waitFor /\ v.action = q.action /\ v.isError = q.isError
      /\ v.awaiting = q.awaiting /\ v.passed = q.passed
  BY DEF Turns, PipeRecords
<1>3. ASSUME NEW s, NEW d, Steady(s, d, q), q.result # "none" PROVE Steady(s, d, v)
  BY <1>2, <1>3 DEF Steady, Phases, Delivery, Cause, Acted
<1> QED BY <1>1, <1>2, <1>3

\* The loop goes on, or ends, without a read request.
LEMMA LoopTurns ==
  ASSUME NEW s, NEW d, NEW q, NEW n, Before(s, d, q, n), q.result # "none",
         s.readRequests = <<>>,
         NEW l \in {"off", "next", "wait", "ready"}, NEW v, Turns(q, v, l)
  PROVE  After(s, d, v, n)
<1>1. q \in PipeRecords BY DEF Before, Flow
<1>2. /\ v \in PipeRecords
      /\ v.loop = l /\ v.result = q.result /\ v.currentWrite = q.currentWrite
      /\ v.shutdown = q.shutdown /\ v.waitFor = q.waitFor /\ v.passed = q.passed
  BY <1>1, TurnFields
<1>3. Steady(s, d, v) BY <1>1, TurnFields DEF Before
<1>4. Flow(s, d, v, n)
  <2>1. Requests(s, v) BY <1>2 DEF Requests
  <2>2. Order(s, v, n) /\ Count(d, v) /\ Locked(s, d, v)
    BY <1>2 DEF Before, Flow, Order, Count, Locked
  <2> QED BY <1>2, <2>1, <2>2 DEF Before, Flow
<1> QED BY <1>2, <1>3, <1>4 DEF Before, After

\* What a step leaves for the next one.
Fits(p, n) == p = Made(p.source, p.dest, p.pipe) /\ After(p.source, p.dest, p.pipe, n)

\* The loop notices that its promise is settled or that its read request is over.
LEMMA LoopNotices ==
  ASSUME NEW s, NEW d, NEW q, NEW n, Before(s, d, q, n), NEW size
  PROVE  Fits(LoopFollows(Made(s, d, q), size), n)
<1> DEFINE m == Made(s, d, q)
           p == LoopFollows(m, size)
<1>1. q \in PipeRecords /\ Requests(s, q) /\ Phases(q) BY DEF Before, Flow, Steady
<1>2. m.source = s /\ m.dest = d /\ m.pipe = q BY DEF Made
<1>3. s.reads \in Seq(Outcomes) BY ReadableFields DEF Before, Flow, ReadableInv
<1>4. ASSUME NEW l \in {"off", "ready"}, p = [m EXCEPT !.pipe.loop = l],
             s.readRequests = <<>>, q.result # "none"
      PROVE  Fits(p, n)
  <2>1. PICK v : Turns(q, v, l) BY DEF Turns
  <2>2. p = Made(s, d, v) BY <1>4, <2>1 DEF Made, Turns
  <2>3. After(s, d, v, n) BY <1>4, <2>1, LoopTurns
  <2> HIDE DEF p
  <2> QED BY <2>2, <2>3 DEF Fits, Made
<1>5. CASE q.loop = "wait" /\ d.ready = "resolved"
  <2>1. p = [m EXCEPT !.pipe.loop = "ready"] BY <1>2, <1>5 DEF LoopFollows
  <2>2. s.readRequests = <<>> /\ q.result # "none" BY <1>1, <1>5 DEF Requests, Phases
  <2> QED BY <1>4, <2>1, <2>2
<1>6. CASE q.loop = "wait" /\ d.ready = "rejected"
  <2>1. p = [m EXCEPT !.pipe.loop = "off"] BY <1>2, <1>6 DEF LoopFollows
  <2>2. s.readRequests = <<>> /\ q.result # "none" BY <1>1, <1>6 DEF Requests, Phases
  <2> QED BY <1>4, <2>1, <2>2
<1>7. CASE q.loop = "reading" /\ Over(s)
  <2>1. Last(s.reads) \in {Done, Failed} /\ ~(Last(s.reads) > 0)
    BY <1>7 DEF Over, Last, Done, Failed
  <2>2. p = [m EXCEPT !.pipe.loop = "off"] BY <1>2, <1>7, <2>1 DEF LoopFollows
  <2>3. s.readRequests = <<>> /\ q.result # "none" BY <1>1, <1>7 DEF Over, Phases
  <2> QED BY <1>4, <2>2, <2>3
<1>8. CASE q.loop = "reading" /\ Waits(s)
  <2>1. Last(s.reads) = 0 BY <1>8 DEF Waits, Last, Pending
  <2>2. p = m BY <1>2, <1>8, <2>1 DEF LoopFollows, Done, Failed
  <2> HIDE DEF p, m
  <2>3. Fits(p, n) BY <1>2, <1>8, <2>2 DEF Fits, After, m
  <2> QED BY <2>3 DEF p, m
<1>9. CASE q.loop # "reading" /\ ~(q.loop = "wait" /\ d.ready \in {"resolved", "rejected"})
  <2>1. p = m BY <1>2, <1>9 DEF LoopFollows
  <2> HIDE DEF p, m
  <2>2. Fits(p, n) BY <1>2, <1>9, <2>1 DEF Fits, After, m
  <2> QED BY <2>2 DEF p, m
<1> QED BY <1>1, <1>5, <1>6, <1>7, <1>8, <1>9 DEF Requests

\* The read request of the loop has just been answered with a chunk, the next in order.
Held(s, q, n) ==
  /\ q.loop = "reading" /\ q.result = "pending" /\ s.readRequests = <<>>
  /\ s.reads[Len(s.reads)] = Len(q.passed) + 1
  /\ \A i \in 1..Len(q.passed) : q.passed[i] = i
  /\ \A i \in 1..Len(s.queue) : s.queue[i] = Len(q.passed) + 1 + i
  /\ Len(q.passed) + 1 + Len(s.queue) <= n
  /\ Whole(s) => Len(q.passed) + 1 + Len(s.queue) = n
  /\ \A i \in 1..Len(s.reads) : s.reads[i] <= n
  /\ q.shutdown # "no" => q.isError

\* chunkSteps of the loop: the chunk is written.
LEMMA LoopWrites ==
  ASSUME NEW s, NEW d, NEW q, NEW n, NEW size,
         ReadableInv(s), WritableInv(d), q \in PipeRecords, n \in Nat, n <= MaxChunks,
         Held(s, q, n), Count(d, q), Locked(s, d, q), Steady(s, d, q),
         q.shutdown = "no" => Unclosed(d)
  PROVE  Fits(LoopFollows(Made(s, d, q), size), n)
<1> DEFINE k == Len(q.passed) + 1
           t == Append(q.passed, k)
           w == writableStreamDefaultWriterWrite(d, size)
           v == [q EXCEPT !.currentWrite = k, !.loop = "next", !.passed = t]
<1>1. q.passed \in Seq(Numbers) BY PipeFields
<1>2. Len(q.passed) \in Nat /\ k \in Numbers /\ k \in Nat /\ k > 0 BY <1>1 DEF Numbers
<1>3. /\ t \in Seq(Numbers) /\ Len(t) = k
      /\ \A i \in 1..Len(q.passed) : t[i] = q.passed[i]
      /\ t[k] = k
  BY <1>1, <1>2, AppendFacts
<1>4. LoopFollows(Made(s, d, q), size) = Made(s, w, v)
  <2>1. Last(s.reads) = k BY DEF Held, Last
  <2>2. Len(d.writes) + 1 = k BY DEF Count
  <2>3. q.loop = "reading" BY DEF Held
  <2>4. k > 0 BY <1>2
  <2> DEFINE m == Made(s, d, q)
  <2>5. m.source = s /\ m.dest = d /\ m.pipe = q BY DEF Made
  <2> HIDE DEF k, m
  <2>6. LoopFollows(m, size) =
          [m EXCEPT !.dest = writableStreamDefaultWriterWrite(@, size),
                    !.pipe.currentWrite = k, !.pipe.loop = "next",
                    !.pipe.passed = Append(@, k)]
    <3>1. ~(m.pipe.loop = "wait") /\ m.pipe.loop = "reading" /\ Last(m.source.reads) > 0
      BY <2>1, <2>3, <2>4, <2>5
    <3>2. LoopFollows(m, size) =
          [m EXCEPT !.dest = writableStreamDefaultWriterWrite(@, size),
                    !.pipe.currentWrite = Len(m.dest.writes) + 1, !.pipe.loop = "next",
                    !.pipe.passed = Append(@, Last(m.source.reads))]
      BY <3>1 DEF LoopFollows, Done, Failed
    <3> QED BY <2>1, <2>2, <2>5, <3>2
  <2> QED BY <2>6 DEF Made, m
<1> HIDE DEF w, t, k
<1>5. v \in PipeRecords BY <1>2, <1>3 DEF PipeRecords
<1>6. /\ v.loop = "next" /\ v.preventClose = q.preventClose /\ v.preventAbort = q.preventAbort
      /\ v.preventCancel = q.preventCancel /\ v.result = q.result
      /\ v.currentWrite = k /\ v.shutdown = q.shutdown /\ v.waitFor = q.waitFor
      /\ v.action = q.action /\ v.isError = q.isError /\ v.awaiting = q.awaiting
      /\ v.passed = t
  BY DEF PipeRecords
<1> HIDE DEF v
<1>7. q.result = "pending" /\ d.writer BY DEF Held, Locked
<1>8. /\ WritableInv(w) /\ w.writer = d.writer /\ Len(w.writes) = Len(d.writes) + 1
      /\ Closing(d) => Closing(w)
      /\ Unclosed(d) => Unclosed(w)
      /\ Unclosed(d) /\ Prompt(d) => Prompt(w)
  BY <1>7, WriterWrites DEF w
<1>9. Requests(s, v) BY <1>6 DEF Requests, Held
<1>10. Order(s, v, n)
  <2>1. ASSUME NEW i \in 1..Len(t) PROVE t[i] = i
    <3>1. i \in 1..Len(q.passed) \/ i = k BY <1>2, <1>3 DEF k
    <3> QED BY <1>3, <3>1 DEF Held
  <2> QED BY <1>3, <1>6, <2>1 DEF Order, Held, k
<1>11. Count(w, v)
  <2>1. Len(d.writes) = Len(q.passed) /\ q.waitFor <= q.currentWrite
        /\ q.currentWrite = Len(q.passed)
    BY DEF Count
  <2>2. q.waitFor \in Nat BY PipeFields
  <2>3. q.waitFor <= k BY <1>2, <2>1, <2>2 DEF k
  <2> QED BY <1>3, <1>6, <1>8, <2>1, <2>3 DEF Count, k
<1>12. Locked(s, w, v) BY <1>6, <1>8 DEF Locked
<1>13. Phases(v) BY <1>6, <1>7 DEF Steady, Phases
<1>14. Cause(s, d, q) => Cause(s, w, v) BY <1>6, <1>8 DEF Cause
<1>15. Acted(s, d, q) => Acted(s, w, v) BY <1>6, <1>8 DEF Acted
<1>16. Delivery(w, v)
  <2>1. ~q.isError => Prompt(w) BY <1>8 DEF Steady, Delivery, Held
  <2>2. q.shutdown \in {"writes", "act"} => Unclosed(w) BY <1>7, <1>8 DEF Steady, Delivery
  <2>3. q.shutdown = "awaiting" => q.action # "close" BY DEF Steady, Cause, Held
  <2> QED BY <1>6, <1>7, <2>1, <2>2, <2>3 DEF Delivery
<1>17. After(s, w, v, n)
  BY <1>5, <1>6, <1>8, <1>9, <1>10, <1>11, <1>12, <1>13, <1>14, <1>15, <1>16
    DEF After, Before, Flow, Steady
<1> QED BY <1>4, <1>17 DEF Fits, Made

-----------------------------------------------------------------------------
(* The owners of the streams. *)

\* A step ends with what the loop makes of it.
LEMMA Becoming ==
  ASSUME NEW p, NEW n, \A size : Fits(LoopFollows(p, size), n), Becomes(p), enqueued' = n
  PROVE  PipeInv'
<1>1. PICK size \in Sizes : /\ source' = LoopFollows(p, size).source
                            /\ dest' = LoopFollows(p, size).dest
                            /\ pipe' = LoopFollows(p, size).pipe
  BY DEF Becomes
<1>2. Fits(LoopFollows(p, size), n) OBVIOUS
<1> QED BY <1>1, <1>2 DEF Fits, PipeInv

\* The source does something that answers no read request with a chunk.
LEMMA FlowSource ==
  ASSUME NEW s, NEW d, NEW q, NEW n, Flow(s, d, q, n), q.loop = "reading" => Waits(s),
         NEW v, ReadableInv(v), SameOrEnded(s, v), v.reader = s.reader,
         s.cancel # "none" => v.cancel # "none"
  PROVE  Flow(v, d, q, n) /\ (s.state # "readable" => v.state = s.state)
<1>1. /\ ReadableInv(s) /\ Requests(s, q) /\ Order(s, q, n) /\ Locked(s, d, q)
      /\ n \in Nat /\ q.passed \in Seq(Numbers) /\ (q.loop = "reading" => Waits(s))
  BY PipeFields DEF Flow
<1>2. s.reads \in Seq(Outcomes) /\ v.reads \in Seq(Outcomes) /\ s.queue \in Seq(Numbers)
  BY <1>1, ReadableFields DEF ReadableInv
<1>3. CASE Same(s, v)
  <2>1. Requests(v, q) BY <1>1, <1>3 DEF Requests, Same, Waits, Over
  <2>2. Order(v, q, n) BY <1>1, <1>3 DEF Order, Same, Whole
  <2>3. Locked(v, d, q) BY <1>1 DEF Locked
  <2> QED BY <1>3, <2>1, <2>2, <2>3 DEF Flow, Same
<1>4. CASE Ended(s, v)
  <2>1. Requests(v, q)
    <3>1. CASE q.loop = "reading"
      <4>1. s.readRequests = <<Len(s.reads)>> /\ s.reads # <<>> BY <1>1, <3>1 DEF Waits, Requests
      <4>2. Len(s.reads) \in 1..Len(s.reads) BY <1>2, <4>1
      <4>3. Len(s.reads) \in Range(s.readRequests)
        <5>1. PICK k : k = Len(s.reads) OBVIOUS
        <5>2. k \in Range(<<k>>) BY DEF Range
        <5> QED BY <4>1, <5>1, <5>2
      <4>4. v.readRequests = <<>> /\ Len(v.reads) = Len(s.reads)
            /\ v.reads[Len(s.reads)] \in {Done, Failed}
        BY <1>4, <4>2, <4>3 DEF Ended
      <4>5. v.reads # <<>> BY <1>2, <4>2, <4>4
      <4> QED BY <3>1, <4>4, <4>5 DEF Requests, Over
    <3>2. CASE q.loop # "reading" BY <1>4, <3>2 DEF Requests, Ended
    <3> QED BY <3>1, <3>2
  <2>2. Order(v, q, n)
    <3>1. Len(v.queue) = 0 /\ Len(s.queue) \in Nat /\ Len(q.passed) \in Nat
      BY <1>1, <1>2, <1>4 DEF Ended
    <3>2. Len(q.passed) + Len(v.queue) <= n
      <4>1. Len(q.passed) + Len(s.queue) <= n BY <1>1 DEF Order
      <4>2. \A a, b \in Nat : \A c \in Nat : a + b <= c => a + 0 <= c OBVIOUS
      <4> QED BY <1>1, <3>1, <4>1, <4>2
    <3>3. Whole(v) => Len(q.passed) + Len(v.queue) = n
      <4> SUFFICES ASSUME Whole(v) PROVE Len(q.passed) + Len(v.queue) = n OBVIOUS
      <4>1. s.queue = <<>> /\ s.state = "readable" BY <1>4 DEF Ended, Whole
      <4>2. Len(s.queue) = 0 BY <4>1
      <4>3. Len(q.passed) + Len(s.queue) = n BY <1>1, <4>1 DEF Order, Whole
      <4> QED BY <3>1, <4>2, <4>3
    <3>4. ASSUME NEW i \in 1..Len(v.reads) PROVE v.reads[i] <= n
      <4>1. i \in 1..Len(s.reads) BY <1>4 DEF Ended
      <4>2. v.reads[i] \in {Done, Failed} \/ v.reads[i] = s.reads[i] BY <1>4, <4>1 DEF Ended
      <4> QED BY <1>1, <4>1, <4>2 DEF Order, Done, Failed
    <3> QED BY <1>1, <3>1, <3>2, <3>3, <3>4 DEF Order
  <2>3. Locked(v, d, q) BY <1>1 DEF Locked
  <2> QED BY <1>4, <2>1, <2>2, <2>3 DEF Flow, Ended
<1> QED BY <1>3, <1>4 DEF SameOrEnded

\* The source's state counts for the shutdown; nothing else of it does.
LEMMA SteadySource ==
  ASSUME NEW s, NEW v, NEW d, NEW q, Steady(s, d, q), s.state # "readable" => v.state = s.state
  PROVE  Steady(v, d, q)
BY DEF Steady, Cause, Acted

\* The same for the whole state between two steps.
LEMMA SourceChanges ==
  ASSUME NEW s, NEW d, NEW q, NEW n, After(s, d, q, n), NEW v, ReadableInv(v),
         SameOrEnded(s, v), v.reader = s.reader, s.cancel # "none" => v.cancel # "none"
  PROVE  Before(v, d, q, n)
<1>1. Flow(v, d, q, n) /\ (s.state # "readable" => v.state = s.state)
  BY FlowSource DEF After, Before
<1> QED BY <1>1, SteadySource DEF After, Before

\* The destination does something that is no write of the pipe.
LEMMA DestChanges ==
  ASSUME NEW s, NEW d, NEW q, NEW n, After(s, d, q, n), NEW v, WritableInv(v),
         Retains(d, v), q.result = "pending" => (Unclosed(d) => Unclosed(v)),
         q.result \in {"none", "pending"}
  PROVE  Before(s, v, q, n)
<1>1. v.writer = d.writer /\ Len(v.writes) = Len(d.writes) /\ (Closing(d) => Closing(v))
      /\ (Prompt(d) => Prompt(v))
  BY DEF Retains
<1>2. Count(v, q) /\ Locked(s, v, q)
  BY <1>1 DEF After, Before, Flow, Count, Locked
<1>3. Phases(q) /\ Delivery(d, q) BY DEF After, Before, Steady
<1>4. Delivery(v, q)
  <2>1. q.shutdown # "done" BY <1>3 DEF Phases
  <2> QED BY <1>1, <1>3, <2>1 DEF Delivery
<1>5. Steady(s, v, q) BY <1>1, <1>4 DEF After, Before, Steady, Cause, Acted
<1> QED BY <1>2, <1>5 DEF After, Before, Flow

\* enqueue() of the source: the chunk joins the queue, or goes straight to the loop.
LEMMA SourceEnqueued ==
  ASSUME NEW s, NEW d, NEW q, NEW n, After(s, d, q, n), n < MaxChunks, MaxChunks \in Nat,
         readableStreamDefaultControllerCanCloseOrEnqueue(s), NEW size1, NEW size
  PROVE  LET v == readableStreamDefaultControllerEnqueue(s, n + 1, size1)
         IN Fits(LoopFollows(Made(v, d, q), size), IF v.state = "errored" THEN n ELSE n + 1)
<1> DEFINE v == readableStreamDefaultControllerEnqueue(s, n + 1, size1)
<1>1. /\ ReadableInv(s) /\ Requests(s, q) /\ Order(s, q, n) /\ Locked(s, d, q)
      /\ n \in Nat /\ q \in PipeRecords /\ q.passed \in Seq(Numbers)
      /\ (q.loop = "reading" => Waits(s))
      /\ WritableInv(d) /\ Count(d, q) /\ Steady(s, d, q)
      /\ (q.result = "pending" /\ q.shutdown = "no" => Unclosed(d))
  BY PipeFields DEF After, Before, Flow
<1>2. n + 1 \in Numbers /\ n + 1 \in Nat /\ n + 1 <= MaxChunks BY <1>1 DEF Numbers
<1>3. s.reads \in Seq(Outcomes) /\ s.queue \in Seq(Numbers)
  BY <1>1, ReadableFields DEF ReadableInv
<1>4. /\ ReadableInv(v) /\ v.reader = s.reader /\ v.cancel = s.cancel
      /\ Enqueued(s, v, n + 1) \/ (Ended(s, v) /\ v.state = "errored")
  BY <1>1, <1>2, Enqueues
<1>5. s.state = "readable" BY DEF readableStreamDefaultControllerCanCloseOrEnqueue
<1>6. Len(q.passed) + Len(s.queue) = n /\ Len(q.passed) \in Nat /\ Len(s.queue) \in Nat
  <2>1. Len(q.passed) + Len(s.queue) = n BY Zenon, <1>1, <1>5 DEF Order, Whole
  <2>2. Len(q.passed) \in Nat /\ Len(s.queue) \in Nat BY <1>1, <1>3
  <2> QED BY <2>1, <2>2
<1>7. \A i \in 1..Len(s.reads) : s.reads[i] \in Int /\ s.reads[i] <= n + 1
  <2>1. \A i \in 1..Len(s.reads) : s.reads[i] \in Int
    BY <1>3 DEF Outcomes, Numbers, Pending, Done, Failed
  <2> QED BY <1>1, <2>1 DEF Order
<1> HIDE DEF v
<1>8. CASE Enqueued(s, v, n + 1) /\ s.readRequests = <<>>
  <2>1. /\ v.state = s.state /\ v.queue = Append(s.queue, n + 1) /\ v.reads = s.reads
        /\ v.readRequests = <<>>
    BY <1>8 DEF Enqueued
  <2>2. q.loop # "reading" BY <1>1, <1>8 DEF Waits
  <2>3. Requests(v, q) BY <2>1, <2>2 DEF Requests
  <2>4. /\ Len(v.queue) = Len(s.queue) + 1
        /\ \A i \in 1..Len(s.queue) : v.queue[i] = s.queue[i]
        /\ v.queue[Len(s.queue) + 1] = n + 1
    BY <1>2, <1>3, <2>1, AppendFacts
  <2>5. Order(v, q, n + 1)
    <3>1. ASSUME NEW i \in 1..Len(v.queue) PROVE v.queue[i] = Len(q.passed) + i
      <4>1. i \in 1..Len(s.queue) \/ i = Len(s.queue) + 1 BY <1>6, <2>4
      <4>2. Len(q.passed) + (Len(s.queue) + 1) = n + 1
        <5>1. \A a, b \in Nat : a + (b + 1) = (a + b) + 1 OBVIOUS
        <5> QED BY Zenon, <1>6, <5>1
      <4> QED BY <1>1, <2>4, <4>1, <4>2 DEF Order
    <3>2. Len(q.passed) + Len(v.queue) = n + 1
      <4>1. \A a, b \in Nat : a + (b + 1) = (a + b) + 1 OBVIOUS
      <4> QED BY Zenon, <1>6, <2>4, <4>1
    <3>3. Len(q.passed) + Len(v.queue) <= n + 1
      <4>1. \A a \in Nat : a <= a OBVIOUS
      <4> QED BY Zenon, <1>2, <3>2, <4>1
    <3> QED BY <1>1, <1>7, <2>1, <3>1, <3>2, <3>3 DEF Order
  <2>6. Locked(v, d, q) BY <1>1, <1>4 DEF Locked
  <2>7. Steady(v, d, q) BY <1>1, <2>1 DEF Steady, Cause, Acted
  <2>8. Before(v, d, q, n + 1)
    BY <1>1, <1>2, <1>4, <2>3, <2>5, <2>6, <2>7 DEF Before, Flow
  <2>9. v.state # "errored" BY <1>5, <2>1
  <2> QED BY <2>8, <2>9, LoopNotices DEF v
<1>9. CASE Enqueued(s, v, n + 1) /\ s.readRequests # <<>>
  <2> DEFINE k == Len(s.reads)
  <2>1. q.loop = "reading" /\ s.reads # <<>> /\ s.readRequests = <<k>>
    BY <1>1, <1>9 DEF Requests, Waits
  <2>2. k \in 1..Len(s.reads) /\ k \in Nat BY <1>3, <2>1
  <2>3. Head(<<k>>) = k /\ Tail(<<k>>) = <<>> BY <2>2
  <2>4. /\ v.state = s.state /\ v.queue = s.queue /\ v.reads = [s.reads EXCEPT ![k] = n + 1]
        /\ v.readRequests = <<>>
    BY <1>9, <2>1, <2>3 DEF Enqueued
  <2>5. s.queue = <<>> /\ s.reader BY <1>1, <1>9 DEF ReadableInv, SourceInv
  <2>6. q.result = "pending" BY <1>1, <2>5 DEF Locked
  <2>7. Len(q.passed) = n /\ Len(v.queue) = 0
    <3>1. Len(s.queue) = 0 BY <2>5
    <3>2. Len(q.passed) + 0 = n BY <1>6, <3>1
    <3> QED BY <1>6, <2>4, <3>1, <3>2
  <2>8. /\ Len(v.reads) = k /\ v.reads[k] = n + 1
        /\ \A i \in 1..k : v.reads[i] <= n + 1
    <3>1. n + 1 \in Outcomes BY <1>2 DEF Outcomes
    <3>2. Len(v.reads) = k BY <1>3, <2>4, <3>1, ExceptFacts
    <3>3. DOMAIN s.reads = 1..k BY <1>3
    <3>4. v.reads[k] = n + 1 /\ \A i \in 1..k : i # k => v.reads[i] = s.reads[i]
      BY <2>2, <2>4, <3>3
    <3> QED BY <1>2, <1>7, <3>2, <3>4
  <2>9. q.shutdown # "no" => q.isError BY <1>1, <1>5, PipeFields DEF Steady, Cause
  <2>10. Held(v, q, n + 1)
    <3>1. Len(q.passed) + 1 + Len(v.queue) = n + 1 BY <1>1, <2>7
    <3>2. Len(q.passed) + 1 + Len(v.queue) <= n + 1
      <4>1. \A a \in Nat : a <= a OBVIOUS
      <4> QED BY Zenon, <1>2, <3>1, <4>1
    <3> HIDE DEF k
    <3>3. v.reads[Len(v.reads)] = Len(q.passed) + 1 BY <2>7, <2>8
    <3>4. \A i \in 1..Len(v.queue) : v.queue[i] = Len(q.passed) + 1 + i BY <2>7
    <3>5. \A i \in 1..Len(v.reads) : v.reads[i] <= n + 1 BY <2>8
    <3>6. \A i \in 1..Len(q.passed) : q.passed[i] = i BY <1>1 DEF Order
    <3> QED BY <2>1, <2>4, <2>6, <2>9, <3>1, <3>2, <3>3, <3>4, <3>5, <3>6 DEF Held
  <2>11. Locked(v, d, q) BY <1>1, <1>4 DEF Locked
  <2>12. Steady(v, d, q) BY <1>1, <2>4 DEF Steady, Cause, Acted
  <2>13. v.state # "errored" BY <1>5, <2>4
  <2>14. Fits(LoopFollows(Made(v, d, q), size), n + 1)
    BY <1>1, <1>2, <1>4, <2>6, <2>10, <2>11, <2>12, LoopWrites
  <2> QED BY <2>13, <2>14 DEF v
<1>10. CASE Ended(s, v) /\ v.state = "errored"
  <2>1. Before(v, d, q, n) BY <1>4, <1>10, SourceChanges DEF SameOrEnded
  <2> QED BY <1>10, <2>1, LoopNotices DEF v
<1> QED BY <1>4, <1>8, <1>9, <1>10

\* read() of the loop: the chunk comes from the queue, or the loop waits, or it has ended.
LEMMA LoopRead ==
  ASSUME NEW s, NEW d, NEW q, NEW n, After(s, d, q, n), q.loop = "ready", s.reader,
         NEW u, Turns(q, u, "reading"), NEW size
  PROVE  Fits(LoopFollows(Made(readableStreamDefaultReaderRead(s), d, u), size), n)
<1> DEFINE v == readableStreamDefaultReaderRead(s)
           k == Len(s.reads) + 1
<1>1. /\ ReadableInv(s) /\ Requests(s, q) /\ Order(s, q, n) /\ Locked(s, d, q)
      /\ n \in Nat /\ n <= MaxChunks /\ q \in PipeRecords /\ q.passed \in Seq(Numbers)
      /\ WritableInv(d) /\ Count(d, q) /\ Steady(s, d, q)
      /\ (q.result = "pending" /\ q.shutdown = "no" => Unclosed(d))
  BY PipeFields DEF After, Before, Flow
<1>2. q.result = "pending" /\ s.readRequests = <<>> BY <1>1 DEF Locked, Requests
<1>3. /\ u \in PipeRecords /\ u.loop = "reading" /\ u.result = q.result
      /\ u.currentWrite = q.currentWrite /\ u.shutdown = q.shutdown /\ u.waitFor = q.waitFor
      /\ u.isError = q.isError /\ u.passed = q.passed
  BY <1>1, TurnFields
<1>4. Steady(s, d, u) BY <1>1, <1>2, TurnFields
<1>5. ReadableInv(v) /\ IsRead(s, v) BY <1>1, Reads
<1>6. s.reads \in Seq(Outcomes) /\ v.reads \in Seq(Outcomes) /\ s.queue \in Seq(Numbers)
  BY <1>1, <1>5, ReadableFields DEF ReadableInv
<1>7. k \in Nat /\ k > 0 /\ Len(s.reads) \in Nat /\ Len(q.passed) \in Nat /\ Len(s.queue) \in Nat
  BY <1>1, <1>6
<1> HIDE DEF v
<1>8. v.reader = s.reader /\ v.cancel = s.cancel BY <1>5 DEF IsRead
<1>9. Count(d, u) /\ Locked(v, d, u) BY <1>1, <1>3, <1>8 DEF Count, Locked
<1>10. u.result = "pending" /\ u.shutdown = "no" => Unclosed(d) BY <1>1, <1>3
<1>11. ASSUME NEW o \in Int, ReadAs(s, v, o), o <= n
       PROVE  /\ Len(v.reads) = k /\ v.reads[k] = o /\ v.reads # <<>>
              /\ \A i \in 1..Len(v.reads) : v.reads[i] <= n
  <2>1. Len(v.reads) = k /\ v.reads[k] = o /\ \A i \in 1..Len(s.reads) : v.reads[i] = s.reads[i]
    BY <1>11 DEF ReadAs
  <2>2. v.reads # <<>> BY <1>6, <1>7, <2>1
  <2>3. ASSUME NEW i \in 1..k PROVE v.reads[i] <= n
    <3>1. i \in 1..Len(s.reads) \/ i = k BY <1>7
    <3> QED BY <1>1, <1>11, <2>1, <3>1 DEF Order
  <2> QED BY <2>1, <2>2, <2>3
<1>12. ASSUME v.queue = s.queue, v.state = s.state, Requests(v, u),
              \A i \in 1..Len(v.reads) : v.reads[i] <= n
       PROVE  Fits(LoopFollows(Made(v, d, u), size), n)
  <2>1. Order(v, u, n) BY <1>1, <1>3, <1>8, <1>12 DEF Order, Whole
  <2>2. Steady(v, d, u) BY <1>4, <1>12, SteadySource
  <2>3. Before(v, d, u, n)
    BY <1>1, <1>3, <1>5, <1>9, <1>10, <1>12, <2>1, <2>2 DEF Before, Flow
  <2> QED BY <2>3, LoopNotices
<1>13. CASE /\ s.state = "readable" /\ s.queue = <<>> /\ v.state = s.state /\ v.queue = s.queue
            /\ ReadAs(s, v, Pending)
            /\ v.readRequests = Append(s.readRequests, k)
  <2>1. /\ Len(v.reads) = k /\ v.reads[k] = 0 /\ v.reads # <<>>
        /\ \A i \in 1..Len(v.reads) : v.reads[i] <= n
    BY <1>1, <1>11, <1>13 DEF Pending
  <2>2. v.readRequests = <<k>> BY <1>2, <1>13
  <2> HIDE DEF k
  <2>3. Requests(v, u) BY <1>3, <2>1, <2>2 DEF Requests, Waits, Pending
  <2>4. Fits(LoopFollows(Made(v, d, u), size), n) BY <1>12, <1>13, <2>1, <2>3
  <2> QED BY <2>4 DEF v
<1>14. CASE /\ s.state # "readable" /\ v.state = s.state /\ v.queue = s.queue
            /\ ReadAs(s, v, IF s.state = "closed" THEN Done ELSE Failed)
            /\ v.readRequests = s.readRequests
  <2>1. PICK o \in {Done, Failed} : o = IF s.state = "closed" THEN Done ELSE Failed OBVIOUS
  <2>2. o \in Int /\ o <= n BY <1>1 DEF Done, Failed
  <2>3. ReadAs(s, v, o) BY <1>14, <2>1
  <2>4. /\ Len(v.reads) = k /\ v.reads[k] = o /\ v.reads # <<>>
        /\ \A i \in 1..Len(v.reads) : v.reads[i] <= n
    BY <1>11, <2>2, <2>3
  <2>5. v.readRequests = <<>> BY <1>2, <1>14
  <2> HIDE DEF k
  <2>6. Requests(v, u) BY <1>3, <2>1, <2>4, <2>5 DEF Requests, Over
  <2>7. Fits(LoopFollows(Made(v, d, u), size), n) BY <1>12, <1>14, <2>4, <2>6
  <2> QED BY <2>7 DEF v
<1>15. CASE /\ s.state = "readable" /\ s.queue # <<>> /\ v.queue = Tail(s.queue)
            /\ ReadAs(s, v, Head(s.queue)) /\ v.readRequests = <<>>
            /\ v.state = "readable" \/ (v.state = "closed" /\ v.queue = <<>>)
  <2>1. /\ Len(s.queue) > 0 /\ Head(s.queue) = s.queue[1] /\ Len(v.queue) = Len(s.queue) - 1
        /\ \A i \in 1..(Len(s.queue) - 1) : v.queue[i] = s.queue[i + 1]
    BY <1>6, <1>15, TailFacts
  <2>2. Len(q.passed) + Len(s.queue) = n BY Zenon, <1>1, <1>15 DEF Order, Whole
  <2>3. Head(s.queue) = Len(q.passed) + 1
    <3>1. 1 \in 1..Len(s.queue) BY <1>7, <2>1
    <3> QED BY <1>1, <2>1, <3>1 DEF Order
  <2>4. PICK o \in Nat : o = Len(q.passed) + 1 BY <1>7
  <2>5. o <= n
    <3>1. \A a, b, c \in Nat : b > 0 /\ a + b = c => a + 1 <= c OBVIOUS
    <3> QED BY Zenon, <1>1, <1>7, <2>1, <2>2, <2>4, <3>1
  <2>6. /\ Len(v.reads) = k /\ v.reads[k] = o
        /\ \A i \in 1..Len(v.reads) : v.reads[i] <= n
    BY <1>11, <1>15, <2>3, <2>4, <2>5
  <2>7. Len(q.passed) + 1 + Len(v.queue) = n
    <3>1. \A a, b \in Nat : a + 1 + (b - 1) = a + b OBVIOUS
    <3>2. Len(q.passed) + 1 + (Len(s.queue) - 1) = Len(q.passed) + Len(s.queue)
      BY Zenon, <1>7, <3>1
    <3> QED BY Zenon, <2>1, <2>2, <3>2
  <2>8. Len(q.passed) + 1 + Len(v.queue) <= n
    <3>1. \A a \in Nat : a <= a OBVIOUS
    <3> QED BY Zenon, <1>1, <2>7, <3>1
  <2>9. ASSUME NEW i \in 1..Len(v.queue) PROVE v.queue[i] = Len(q.passed) + 1 + i
    <3>1. i \in 1..(Len(s.queue) - 1) /\ i + 1 \in 1..Len(s.queue) /\ i \in Nat
      BY <1>7, <2>1, <2>9
    <3>2. v.queue[i] = Len(q.passed) + (i + 1) BY <1>1, <2>1, <3>1 DEF Order
    <3>3. \A a, b \in Nat : a + (b + 1) = a + 1 + b OBVIOUS
    <3> QED BY Zenon, <1>7, <3>1, <3>2, <3>3
  <2>10. q.shutdown # "no" => q.isError BY <1>1, <1>15, PipeFields DEF Steady, Cause
  <2>11. Held(v, u, n)
    <3>1. v.reads[Len(v.reads)] = Len(q.passed) + 1 BY <2>4, <2>6
    <3>2. \A i \in 1..Len(q.passed) : q.passed[i] = i BY <1>1 DEF Order
    <3> QED BY <1>2, <1>3, <1>15, <2>6, <2>7, <2>8, <2>9, <2>10, <3>1, <3>2 DEF Held
  <2>12. Steady(v, d, u) BY <1>4, <1>15, SteadySource
  <2>13. u.shutdown = "no" => Unclosed(d) BY <1>2, <1>3, <1>10
  <2>14. Fits(LoopFollows(Made(v, d, u), size), n)
    BY <1>1, <1>3, <1>5, <1>9, <2>11, <2>12, <2>13, LoopWrites
  <2> QED BY <2>14 DEF v
<1> QED
  <2>1. \/ /\ s.state = "readable" /\ s.queue = <<>> /\ v.state = s.state /\ v.queue = s.queue
           /\ ReadAs(s, v, Pending)
           /\ v.readRequests = Append(s.readRequests, k)
        \/ /\ s.state = "readable" /\ s.queue # <<>> /\ v.queue = Tail(s.queue)
           /\ ReadAs(s, v, Head(s.queue)) /\ v.readRequests = <<>>
           /\ v.state = "readable" \/ (v.state = "closed" /\ v.queue = <<>>)
        \/ /\ s.state # "readable" /\ v.state = s.state /\ v.queue = s.queue
           /\ ReadAs(s, v, IF s.state = "closed" THEN Done ELSE Failed)
           /\ v.readRequests = s.readRequests
    BY <1>5 DEF IsRead
  <2> QED BY Zenon, <1>13, <1>14, <1>15, <2>1 DEF v

-----------------------------------------------------------------------------
(* The shutdown. *)

\* A change of the destination that is no write of the pipe leaves the flow alone.
LEMMA FlowDest ==
  ASSUME NEW s, NEW d, NEW q, NEW n, Flow(s, d, q, n), NEW v, WritableInv(v),
         v.writer = d.writer, Len(v.writes) = Len(d.writes)
  PROVE  Flow(s, v, q, n)
BY DEF Flow, Count, Locked

\* What two states of the pipe have in common.
SameFlow(q, v) ==
  /\ v.loop = q.loop /\ v.passed = q.passed /\ v.currentWrite = q.currentWrite
  /\ v.result = q.result
SameOptions(q, v) ==
  /\ v.preventClose = q.preventClose /\ v.preventAbort = q.preventAbort
  /\ v.preventCancel = q.preventCancel
SameCause(q, v) == SameOptions(q, v) /\ v.action = q.action /\ v.isError = q.isError

\* A change of the fields that only the shutdown looks at.
LEMMA FlowPipe ==
  ASSUME NEW s, NEW d, NEW q, NEW n, Flow(s, d, q, n), NEW v, v \in PipeRecords,
         SameFlow(q, v), v.waitFor = q.waitFor \/ v.waitFor = q.currentWrite
  PROVE  Flow(s, d, v, n)
<1>1. v.waitFor <= v.currentWrite
  <2>1. q.currentWrite \in Nat /\ q.waitFor <= q.currentWrite BY PipeFields DEF Flow, Count
  <2> QED BY <2>1 DEF SameFlow
<1> QED BY <1>1 DEF Flow, SameFlow, Requests, Order, Count, Locked

\* The action of the shutdown is being taken.
Acting(s, d, q, n) ==
  /\ Flow(s, d, q, n) /\ Cause(s, d, q) /\ q.result = "pending" /\ q.shutdown = "awaiting"
  /\ ~q.isError => Prompt(d)

\* The promises the action waits for.
Awaiting(q, v, A) == v = [q EXCEPT !.awaiting = A]

\* The fields of the pipe after that.
LEMMA AwaitingFields ==
  ASSUME NEW q \in PipeRecords, NEW A \in SUBSET {"abort", "cancel", "close", "rejected"},
         NEW v, Awaiting(q, v, A)
  PROVE  /\ v \in PipeRecords /\ SameFlow(q, v) /\ SameCause(q, v)
         /\ v.waitFor = q.waitFor /\ v.shutdown = q.shutdown /\ v.awaiting = A
BY DEF PipeRecords, Awaiting, SameFlow, SameOptions, SameCause

\* The action may wait for another promise.
LEMMA ActingAwaits ==
  ASSUME NEW s, NEW d, NEW q, NEW n, Acting(s, d, q, n),
         NEW A \in SUBSET {"abort", "cancel", "close", "rejected"}, NEW v, Awaiting(q, v, A)
  PROVE  Acting(s, d, v, n) /\ SameFlow(q, v) /\ SameCause(q, v) /\ v.awaiting = A
<1>1. q \in PipeRecords BY DEF Acting, Flow
<1>2. /\ v \in PipeRecords /\ SameFlow(q, v) /\ SameCause(q, v)
      /\ v.waitFor = q.waitFor /\ v.shutdown = q.shutdown /\ v.awaiting = A
  BY <1>1, AwaitingFields
<1>3. Flow(s, d, v, n) BY <1>2, FlowPipe DEF Acting
<1>4. Cause(s, d, v) BY <1>2 DEF Acting, Cause, SameCause, SameOptions
<1> QED BY <1>2, <1>3, <1>4 DEF Acting, SameFlow, SameCause

\* What a step of the shutdown comes to: the loop is where it was, and the pipe is
\* shutting down.
Led(p, q, n) ==
  /\ p = Made(p.source, p.dest, p.pipe) /\ Before(p.source, p.dest, p.pipe, n)
  /\ p.pipe.loop = q.loop /\ p.pipe.shutdown # "no"

\* The action has been taken.
LEMMA ActionTaken ==
  ASSUME NEW s, NEW d, NEW q, NEW n, Acting(s, d, q, n), Acted(s, d, q),
         q.action = "close" /\ q.passed # <<>> => q.awaiting \in {{"close"}, {"rejected"}}
  PROVE  Led(Made(s, d, q), q, n)
<1>1. Phases(q) BY DEF Acting, Phases
<1>2. Delivery(d, q) BY DEF Acting, Delivery
<1>3. Before(s, d, q, n) BY <1>1, <1>2 DEF Acting, Before, Steady
<1> QED BY <1>3 DEF Led, Made, Acting

\* What an action does: it takes the streams as they are and may wait for more.
Acts(p, q, n) ==
  /\ p = Made(p.source, p.dest, p.pipe) /\ Acting(p.source, p.dest, p.pipe, n)
  /\ SameFlow(q, p.pipe) /\ SameCause(q, p.pipe)

\* The action "abort".
LEMMA AbortsDest ==
  ASSUME NEW s, NEW d, NEW q, NEW n, Acting(s, d, q, n)
  PROVE  LET p == AbortDest(Made(s, d, q))
         IN Acts(p, q, n) /\ p.source = s /\ Closing(p.dest)
<1> DEFINE m == Made(s, d, q)
           p == AbortDest(m)
           A == q.awaiting \cup {"abort"}
           w == writableStreamAbort(d)
<1>1. m.source = s /\ m.dest = d /\ m.pipe = q BY DEF Made
<1>2. q \in PipeRecords /\ WritableInv(d) BY DEF Acting, Flow
<1>3. CASE d.state \in {"closed", "errored"}
  <2>1. p = m BY <1>1, <1>3 DEF AbortDest
  <2>2. Closing(d) BY <1>3 DEF Closing
  <2> HIDE DEF p, m
  <2>3. Acts(p, q, n) /\ p.source = s /\ Closing(p.dest)
    BY <1>1, <2>1, <2>2 DEF Acts, m, SameFlow, SameCause, SameOptions
  <2> QED BY <2>3 DEF p, m
<1>4. CASE d.state \notin {"closed", "errored"}
  <2>1. PICK v : Awaiting(q, v, A) BY DEF Awaiting
  <2>2. p = Made(s, w, v)
    <3>1. p = [Awaits(m, "abort") EXCEPT !.dest = writableStreamAbort(@)]
      BY <1>1, <1>4 DEF AbortDest
    <3> QED BY <1>1, <2>1, <3>1 DEF Awaits, Made, Awaiting
  <2>3. A \in SUBSET {"abort", "cancel", "close", "rejected"} BY <1>2, PipeFields
  <2>4. Acting(s, d, v, n) /\ SameFlow(q, v) /\ SameCause(q, v) BY <2>1, <2>3, ActingAwaits
  <2>5. WritableInv(w) /\ Keeps(d, w) /\ w.state # "writable" BY <1>2, Aborts
  <2> HIDE DEF w, p
  <2>6. Closing(w) /\ w.writer = d.writer /\ Len(w.writes) = Len(d.writes)
        /\ (Prompt(d) => Prompt(w))
    BY <2>5 DEF Closing, Keeps, Retains
  <2>7. Flow(s, w, v, n) BY <2>4, <2>5, <2>6, FlowDest DEF Acting
  <2>8. Acting(s, w, v, n) BY <2>4, <2>6, <2>7 DEF Acting, Cause
  <2>9. Acts(p, q, n) /\ p.source = s /\ Closing(p.dest)
    BY <2>2, <2>4, <2>6, <2>8 DEF Acts, Made
  <2> QED BY <2>9 DEF p
<1> QED BY <1>3, <1>4

\* The action "cancel".
LEMMA CancelsSource ==
  ASSUME NEW s, NEW d, NEW q, NEW n, Acting(s, d, q, n), q.loop = "reading" => Waits(s)
  PROVE  LET p == CancelSource(Made(s, d, q))
         IN Acts(p, q, n) /\ p.source.state # "readable" /\ p.dest = d
<1> DEFINE m == Made(s, d, q)
           p == CancelSource(m)
           r == readableStreamCancel(s)
<1>1. m.source = s /\ m.dest = d /\ m.pipe = q BY DEF Made
<1>2. q \in PipeRecords /\ ReadableInv(s) BY DEF Acting, Flow
<1>3. s.state \in {"readable", "closed", "errored"} BY <1>2, ReadableFields DEF ReadableInv
<1>4. q.awaiting \subseteq {"abort", "cancel", "close", "rejected"} BY <1>2, PipeFields
<1>5. CASE s.state = "closed"
  <2>1. p = m BY <1>1, <1>5 DEF CancelSource
  <2> HIDE DEF p, m
  <2>2. Acts(p, q, n) /\ p.source.state # "readable" /\ p.dest = d
    BY <1>1, <1>5, <2>1 DEF Acts, m, SameFlow, SameCause, SameOptions
  <2> QED BY <2>2 DEF p, m
<1>6. CASE s.state = "errored"
  <2>1. PICK v : Awaiting(q, v, q.awaiting \cup {"rejected"}) BY DEF Awaiting
  <2>2. p = Made(s, d, v)
    <3>1. p = Awaits(m, "rejected") BY <1>1, <1>6 DEF CancelSource
    <3> QED BY <1>1, <2>1, <3>1 DEF Awaits, Made, Awaiting
  <2>3. q.awaiting \cup {"rejected"} \in SUBSET {"abort", "cancel", "close", "rejected"}
    BY <1>4
  <2>4. Acting(s, d, v, n) /\ SameFlow(q, v) /\ SameCause(q, v) BY <2>1, <2>3, ActingAwaits
  <2> HIDE DEF p
  <2>5. Acts(p, q, n) /\ p.source.state # "readable" /\ p.dest = d
    BY <1>6, <2>2, <2>4 DEF Acts, Made
  <2> QED BY <2>5 DEF p
<1>7. CASE s.state = "readable"
  <2>1. PICK v : Awaiting(q, v, q.awaiting \cup {"cancel"}) BY DEF Awaiting
  <2>2. p = Made(r, d, v)
    <3>1. p = [Awaits(m, "cancel") EXCEPT !.source = readableStreamCancel(@)]
      BY <1>1, <1>7 DEF CancelSource
    <3> QED BY <1>1, <2>1, <3>1 DEF Awaits, Made, Awaiting
  <2>3. q.awaiting \cup {"cancel"} \in SUBSET {"abort", "cancel", "close", "rejected"}
    BY <1>4
  <2>4. Acting(s, d, v, n) /\ SameFlow(q, v) /\ SameCause(q, v) BY <2>1, <2>3, ActingAwaits
  <2>5. /\ ReadableInv(r) /\ SameOrEnded(s, r) /\ r.state # "readable"
        /\ r.reader = s.reader /\ (s.cancel # "none" => r.cancel # "none")
    BY <1>2, ReadableCancels
  <2> HIDE DEF r, p
  <2>6. Flow(r, d, v, n) /\ (s.state # "readable" => r.state = s.state)
    BY <2>4, <2>5, FlowSource DEF Acting, SameFlow
  <2>7. Acting(r, d, v, n) BY <1>7, <2>4, <2>5, <2>6 DEF Acting, Cause
  <2>8. Acts(p, q, n) /\ p.source.state # "readable" /\ p.dest = d
    BY <2>2, <2>4, <2>5, <2>7 DEF Acts, Made
  <2> QED BY <2>8 DEF p
<1> QED BY <1>3, <1>5, <1>6, <1>7

\* The close of a destination that has chunks is awaited.
LEMMA ClosesDest ==
  ASSUME NEW s, NEW d, NEW q, NEW n, Acting(s, d, q, n), q.awaiting = {},
         q.passed # <<>> => Unclosed(d)
  PROVE  LET p == writableStreamDefaultWriterCloseWithErrorPropagation(Made(s, d, q))
         IN /\ Acts(p, q, n) /\ p.source = s /\ Closing(p.dest)
            /\ q.passed # <<>> => p.pipe.awaiting \in {{"close"}, {"rejected"}}
<1> DEFINE m == Made(s, d, q)
           p == writableStreamDefaultWriterCloseWithErrorPropagation(m)
           w == writableStreamClose(d)
           Goal(x) == /\ Acts(x, q, n) /\ x.source = s /\ Closing(x.dest)
                      /\ q.passed # <<>> => x.pipe.awaiting \in {{"close"}, {"rejected"}}
<1>1. m.source = s /\ m.dest = d /\ m.pipe = q BY DEF Made
<1>2. q \in PipeRecords /\ WritableInv(d) BY DEF Acting, Flow
<1>3. CASE writableStreamCloseQueuedOrInFlight(d) \/ d.state = "closed"
  <2>1. p = m BY <1>1, <1>3 DEF writableStreamDefaultWriterCloseWithErrorPropagation
  <2>2. Closing(d) /\ q.passed = <<>> BY <1>3 DEF Closing, Unclosed
  <2> HIDE DEF p, m
  <2>3. Goal(p) BY <1>1, <2>1, <2>2 DEF Acts, m, SameFlow, SameCause, SameOptions
  <2> QED BY <2>3 DEF p, m
<1>4. CASE ~writableStreamCloseQueuedOrInFlight(d) /\ d.state = "errored"
  <2>1. PICK v : Awaiting(q, v, {"rejected"}) BY DEF Awaiting
  <2>2. p = Made(s, d, v)
    <3>1. p = Awaits(m, "rejected")
      BY <1>1, <1>4 DEF writableStreamDefaultWriterCloseWithErrorPropagation
    <3>2. q.awaiting \cup {"rejected"} = {"rejected"} OBVIOUS
    <3> QED BY <1>1, <2>1, <3>1, <3>2 DEF Awaits, Made, Awaiting
  <2>3. {"rejected"} \in SUBSET {"abort", "cancel", "close", "rejected"} OBVIOUS
  <2>4. Acting(s, d, v, n) /\ SameFlow(q, v) /\ SameCause(q, v) /\ v.awaiting = {"rejected"}
    BY <2>1, <2>3, ActingAwaits
  <2>5. Closing(d) BY <1>4 DEF Closing
  <2> HIDE DEF p
  <2>6. Goal(p) BY <2>2, <2>4, <2>5 DEF Acts, Made
  <2> QED BY <2>6 DEF p
<1>5. CASE ~writableStreamCloseQueuedOrInFlight(d) /\ d.state \notin {"closed", "errored"}
  <2>1. PICK v : Awaiting(q, v, {"close"}) BY DEF Awaiting
  <2>2. p = Made(s, w, v)
    <3>1. p = [Awaits(m, "close") EXCEPT !.dest = writableStreamClose(@)]
      BY <1>1, <1>5 DEF writableStreamDefaultWriterCloseWithErrorPropagation
    <3>2. q.awaiting \cup {"close"} = {"close"} OBVIOUS
    <3> QED BY <1>1, <2>1, <3>1, <3>2 DEF Awaits, Made, Awaiting
  <2>3. {"close"} \in SUBSET {"abort", "cancel", "close", "rejected"} OBVIOUS
  <2>4. Acting(s, d, v, n) /\ SameFlow(q, v) /\ SameCause(q, v) /\ v.awaiting = {"close"}
    BY <2>1, <2>3, ActingAwaits
  <2>5. WritableInv(w) /\ Retains(d, w) /\ Closing(w) BY <1>2, <1>5, Closes
  <2> HIDE DEF w, p
  <2>6. w.writer = d.writer /\ Len(w.writes) = Len(d.writes) /\ (Prompt(d) => Prompt(w))
    BY <2>5 DEF Retains
  <2>7. Flow(s, w, v, n) BY <2>4, <2>5, <2>6, FlowDest DEF Acting
  <2>8. Acting(s, w, v, n) BY <2>4, <2>5, <2>6, <2>7 DEF Acting, Cause
  <2>9. Goal(p) BY <2>2, <2>4, <2>5, <2>8 DEF Acts, Made
  <2> QED BY <2>9 DEF p
<1> QED BY <1>3, <1>4, <1>5

\* The abort signal reaches both streams, unless an option holds it back.
LEMMA AbortsBoth ==
  ASSUME NEW s, NEW d, NEW q, NEW n, Acting(s, d, q, n), q.loop = "reading" => Waits(s),
         q.action = "signal"
  PROVE  Led(abortAlgorithm(Made(s, d, q)), q, n)
<1> DEFINE m == Made(s, d, q)
           a == IF ~q.preventAbort /\ d.state = "writable" THEN AbortDest(m) ELSE m
           c == IF ~q.preventCancel /\ s.state = "readable" THEN CancelSource(a) ELSE a
<1>1. m.source = s /\ m.dest = d /\ m.pipe = q BY DEF Made
<1>2. abortAlgorithm(m) = c BY <1>1 DEF abortAlgorithm
<1>3. Acts(m, q, n) BY <1>1 DEF Acts, SameFlow, SameCause, SameOptions
<1>4. Acts(a, q, n) /\ a.source = s /\ (~q.preventAbort => Closing(a.dest))
  <2>1. CASE ~q.preventAbort /\ d.state = "writable" BY <2>1, AbortsDest
  <2>2. CASE ~(~q.preventAbort /\ d.state = "writable")
    BY <1>1, <1>3, <2>2 DEF Closing
  <2> QED BY <2>1, <2>2
<1> HIDE DEF a, m
<1>5. PICK d1, q1 : /\ a = Made(s, d1, q1) /\ Acting(s, d1, q1, n)
                    /\ SameFlow(q, q1) /\ SameCause(q, q1) /\ (~q.preventAbort => Closing(d1))
  BY <1>4 DEF Acts
<1>6. a.source = s /\ a.dest = d1 /\ a.pipe = q1 BY <1>5 DEF Made
<1>7. Acts(c, q1, n) /\ c.dest = d1 /\ (~q.preventCancel => c.source.state # "readable")
  <2>1. CASE ~q.preventCancel /\ s.state = "readable"
    <3>1. q1.loop = "reading" => Waits(s) BY <1>5 DEF SameFlow
    <3>2. Acts(CancelSource(a), q1, n) /\ CancelSource(a).source.state # "readable"
          /\ CancelSource(a).dest = d1
      BY <1>5, <3>1, CancelsSource
    <3> QED BY <2>1, <3>2
  <2>2. CASE ~(~q.preventCancel /\ s.state = "readable")
    BY <1>5, <1>6, <2>2 DEF Acts, SameFlow, SameCause, SameOptions
  <2> QED BY <2>1, <2>2
<1> HIDE DEF c
<1>8. PICK s2, d2, q2 : /\ c = Made(s2, d2, q2) /\ Acting(s2, d2, q2, n) /\ d2 = d1
                        /\ SameFlow(q1, q2) /\ SameCause(q1, q2)
                        /\ (~q.preventCancel => s2.state # "readable")
  BY <1>7 DEF Acts
<1>9. Acted(s2, d2, q2) BY <1>5, <1>8 DEF Acted, SameCause, SameOptions
<1>10. q2.action = "signal" /\ q2.loop = q.loop BY <1>5, <1>8 DEF SameCause, SameFlow
<1>11. Led(c, q2, n) BY <1>8, <1>9, <1>10, ActionTaken
<1>12. Led(c, q, n) BY <1>10, <1>11 DEF Led
<1> QED BY <1>2, <1>12 DEF m

\* finalize(): both locks are released and the promise of the pipe is settled.
LEMMA Finalizes ==
  ASSUME NEW s, NEW d, NEW q, NEW n, Flow(s, d, q, n), q.loop = "reading" => Waits(s),
         q.result = "pending", Cause(s, d, q), Acted(s, d, q), ~q.isError => Prompt(d),
         NEW e \in BOOLEAN,
         ~e => ~q.isError /\ (~q.preventClose /\ q.passed # <<>> => d.close = "resolved")
  PROVE  Led(finalize(Made(s, d, q), e), q, n)
<1> DEFINE w == writableStreamDefaultWriterRelease(d)
           r == readableStreamDefaultReaderRelease(s)
           o == IF e THEN "rejected" ELSE "resolved"
           v == [q EXCEPT !.shutdown = "done", !.awaiting = {}, !.result = o]
<1>1. finalize(Made(s, d, q), e) = Made(r, w, v)
  <2> DEFINE m == Made(s, d, q)
  <2>1. m.source = s /\ m.dest = d /\ m.pipe = q BY DEF Made
  <2>2. finalize(m, e) = [m EXCEPT !.dest = writableStreamDefaultWriterRelease(@),
                                   !.source = readableStreamDefaultReaderRelease(@),
                                   !.pipe.shutdown = "done", !.pipe.awaiting = {},
                                   !.pipe.result = o]
    BY Zenon DEF finalize
  <2> HIDE DEF o
  <2> QED BY <2>1, <2>2 DEF Made
<1>2. /\ ReadableInv(s) /\ WritableInv(d) /\ q \in PipeRecords /\ n \in Nat /\ n <= MaxChunks
      /\ s.reader /\ d.writer /\ Requests(s, q) /\ Order(s, q, n) /\ Count(d, q)
  BY DEF Flow, Locked
<1>3. o \in Promises /\ o \in {"resolved", "rejected"} /\ (o = "resolved" => ~e)
  BY DEF Promises
<1> HIDE DEF w, r, o
<1>4. v \in PipeRecords BY <1>2, <1>3 DEF PipeRecords
<1>5. /\ v.shutdown = "done" /\ v.awaiting = {} /\ v.result = o /\ SameCause(q, v)
      /\ v.loop = q.loop /\ v.passed = q.passed /\ v.currentWrite = q.currentWrite
      /\ v.waitFor = q.waitFor
  BY <1>2 DEF PipeRecords, SameCause, SameOptions
<1> HIDE DEF v
<1>6. /\ ReadableInv(r) /\ ~r.reader /\ r.state = s.state /\ r.queue = s.queue
      /\ r.readRequests = <<>> /\ r.cancel = s.cancel /\ Len(r.reads) = Len(s.reads)
      /\ \A i \in 1..Len(s.reads) : i \in Range(s.readRequests) => r.reads[i] = Failed
      /\ \A i \in 1..Len(s.reads) : i \notin Range(s.readRequests) => r.reads[i] = s.reads[i]
  BY <1>2, ReaderReleases DEF r
<1>7. /\ WritableInv(w) /\ ~w.writer /\ w.writes = d.writes /\ (Closing(d) <=> Closing(w))
      /\ w.close = d.close /\ (Prompt(d) => Prompt(w))
  BY <1>2, WriterReleases DEF w
<1>8. s.reads \in Seq(Outcomes) /\ r.reads \in Seq(Outcomes)
  BY <1>2, <1>6, ReadableFields DEF ReadableInv
<1>9. Requests(r, v)
  <2>1. CASE q.loop = "reading"
    <3>1. s.readRequests = <<Len(s.reads)>> /\ s.reads # <<>> BY <1>2, <2>1 DEF Waits, Requests
    <3>2. Len(s.reads) \in 1..Len(s.reads) BY <1>8, <3>1
    <3>3. Len(s.reads) \in Range(s.readRequests)
      <4>1. PICK k : k = Len(s.reads) OBVIOUS
      <4>2. k \in Range(<<k>>) BY DEF Range
      <4> QED BY <3>1, <4>1, <4>2
    <3>4. r.reads[Len(r.reads)] = Failed BY <1>6, <3>2, <3>3
    <3>5. r.reads # <<>> BY <1>6, <1>8, <3>2
    <3> QED BY <1>5, <1>6, <2>1, <3>4, <3>5 DEF Requests, Over
  <2>2. CASE q.loop # "reading" BY <1>5, <1>6, <2>2 DEF Requests
  <2> QED BY <2>1, <2>2
<1>10. Order(r, v, n)
  <2>1. ASSUME NEW i \in 1..Len(r.reads) PROVE r.reads[i] <= n
    <3>1. i \in 1..Len(s.reads) BY <1>6
    <3>2. r.reads[i] = Failed \/ r.reads[i] = s.reads[i] BY <1>6, <3>1
    <3> QED BY <1>2, <3>1, <3>2 DEF Order, Failed
  <2> QED BY <1>2, <1>5, <1>6, <2>1, ZenonT(60) DEF Order, Whole
<1>11. Count(w, v) /\ Locked(r, w, v) BY <1>2, <1>3, <1>5, <1>6, <1>7 DEF Count, Locked
<1>12. Flow(r, w, v, n) BY <1>2, <1>4, <1>6, <1>7, <1>9, <1>10, <1>11 DEF Flow
<1>13. Phases(v) BY <1>3, <1>5 DEF Phases
<1>14. Cause(r, w, v) /\ Acted(r, w, v)
  BY <1>5, <1>6, <1>7 DEF Cause, Acted, SameCause, SameOptions
<1>15. Delivery(w, v)
  BY <1>3, <1>5, <1>7 DEF Delivery, SameCause, SameOptions
<1>16. Before(r, w, v, n)
  BY <1>5, <1>12, <1>13, <1>14, <1>15 DEF Before, Steady
<1> QED BY <1>1, <1>5, <1>16 DEF Led, Made

\* Nothing stands in the way of the action any more.
Shutting(s, d, q, n) ==
  /\ Flow(s, d, q, n) /\ (q.loop = "reading" => Waits(s))
  /\ q.result = "pending" /\ q.awaiting = {} /\ Cause(s, d, q)
  /\ ~q.isError => Prompt(d)
  /\ q.passed # <<>> => Unclosed(d)

\* The shutdown comes to another phase.
Enters(q, v, phase) == v = [q EXCEPT !.shutdown = phase]

\* The fields of the pipe after that.
LEMMA EntersFields ==
  ASSUME NEW q \in PipeRecords, NEW phase \in {"no", "writes", "act", "awaiting", "done"},
         NEW v, Enters(q, v, phase)
  PROVE  /\ v \in PipeRecords /\ SameFlow(q, v) /\ SameCause(q, v)
         /\ v.waitFor = q.waitFor /\ v.shutdown = phase /\ v.awaiting = q.awaiting
BY DEF PipeRecords, Enters, SameFlow, SameOptions, SameCause

\* doTheRest(): whichever the action is.
LEMMA DoesTheRest ==
  ASSUME NEW s, NEW d, NEW q, NEW n, Shutting(s, d, q, n)
  PROVE  Led(doTheRest(Made(s, d, q)), q, n)
<1> DEFINE m == Made(s, d, q)
           p == doTheRest(m)
<1>1. m.pipe = q BY DEF Made
<1>2. q \in PipeRecords BY DEF Shutting, Flow
<1>3. /\ q.action \in {"none", "abort", "cancel", "close", "signal"} /\ q.isError \in BOOLEAN
      /\ q.preventClose \in BOOLEAN
  BY <1>2, PipeFields
<1>4. PICK v : Enters(q, v, "awaiting") BY DEF Enters
<1>5. /\ v \in PipeRecords /\ SameFlow(q, v) /\ SameCause(q, v)
      /\ v.waitFor = q.waitFor /\ v.shutdown = "awaiting" /\ v.awaiting = {}
  BY <1>2, <1>4, EntersFields DEF Shutting
<1>6. Acting(s, d, v, n)
  <2>1. Flow(s, d, v, n) BY <1>5, FlowPipe DEF Shutting
  <2>2. Cause(s, d, v) BY <1>5 DEF Shutting, Cause, SameCause, SameOptions
  <2> QED BY <1>5, <2>1, <2>2 DEF Acting, Shutting, SameFlow, SameCause
<1>7. [m EXCEPT !.pipe.shutdown = "awaiting"] = Made(s, d, v) BY <1>4 DEF Made, Enters
<1>8. v.action = q.action /\ v.loop = q.loop /\ (v.loop = "reading" => Waits(s))
      /\ v.passed = q.passed
  BY <1>5 DEF SameCause, SameFlow, Shutting
<1>9. CASE q.action = "none"
  <2>1. p = finalize(m, q.isError) BY <1>1, <1>9 DEF doTheRest
  <2>2. Acted(s, d, q) BY <1>9 DEF Shutting, Cause, Acted
  <2>3. ~q.isError => q.preventClose BY <1>3, <1>9 DEF Shutting, Cause
  <2>4. Led(finalize(m, q.isError), q, n)
    <3>1. PICK e \in BOOLEAN : e = q.isError BY <1>3
    <3>2. Led(finalize(m, e), q, n) BY <2>2, <2>3, <3>1, Finalizes DEF Shutting
    <3> QED BY <3>1, <3>2
  <2> QED BY <2>1, <2>4
<1>10. ASSUME Acts(p, v, n), q.action # "close",
              p.source.state # "readable" /\ Closing(p.dest)
       PROVE  Led(p, q, n)
  <2> HIDE DEF p
  <2>1. Acted(p.source, p.dest, p.pipe) BY <1>10 DEF Acted
  <2>2. p.pipe.action # "close" /\ p.pipe.loop = q.loop BY <1>8, <1>10 DEF Acts, SameCause, SameFlow
  <2>3. Led(Made(p.source, p.dest, p.pipe), p.pipe, n)
    BY <1>10, <2>1, <2>2, ActionTaken DEF Acts
  <2>4. Led(p, p.pipe, n) BY <1>10, <2>3 DEF Acts
  <2> QED BY <2>2, <2>4 DEF Led
<1>11. CASE q.action = "abort"
  <2>1. p = AbortDest(Made(s, d, v)) BY <1>1, <1>7, <1>11 DEF doTheRest
  <2>2. Acts(p, v, n) /\ p.source = s /\ Closing(p.dest) BY <1>6, <2>1, AbortsDest
  <2>3. s.state # "readable" BY <1>11 DEF Shutting, Cause
  <2> QED BY <1>10, <1>11, <2>2, <2>3
<1>12. CASE q.action = "cancel"
  <2>1. p = CancelSource(Made(s, d, v)) BY <1>1, <1>7, <1>12 DEF doTheRest
  <2>2. Acts(p, v, n) /\ p.source.state # "readable" /\ p.dest = d
    BY <1>6, <1>8, <2>1, CancelsSource
  <2>3. Closing(d) BY <1>12 DEF Shutting, Cause
  <2> QED BY <1>10, <1>12, <2>2, <2>3
<1>13. CASE q.action = "signal"
  <2>1. p = abortAlgorithm(Made(s, d, v)) BY <1>1, <1>7, <1>13 DEF doTheRest
  <2>2. Led(p, v, n) BY <1>6, <1>8, <1>13, <2>1, AbortsBoth
  <2> QED BY <1>8, <2>2 DEF Led
<1>14. CASE q.action = "close"
  <2>1. p = writableStreamDefaultWriterCloseWithErrorPropagation(Made(s, d, v))
    BY <1>1, <1>7, <1>14 DEF doTheRest
  <2>2. v.passed # <<>> => Unclosed(d) BY <1>8 DEF Shutting
  <2>3. /\ Acts(p, v, n) /\ p.source = s /\ Closing(p.dest)
        /\ v.passed # <<>> => p.pipe.awaiting \in {{"close"}, {"rejected"}}
    BY <1>5, <1>6, <2>1, <2>2, ClosesDest
  <2>4. s.state # "readable" BY <1>14 DEF Shutting, Cause
  <2> HIDE DEF p
  <2>5. Acted(p.source, p.dest, p.pipe) BY <2>3, <2>4 DEF Acted
  <2>6. p.pipe.loop = q.loop /\ p.pipe.passed = v.passed BY <1>8, <2>3 DEF Acts, SameFlow
  <2>7. Led(Made(p.source, p.dest, p.pipe), p.pipe, n)
    BY <2>3, <2>5, <2>6, ActionTaken DEF Acts
  <2>8. Led(p, p.pipe, n) BY <2>3, <2>7 DEF Acts
  <2>9. Led(p, q, n) BY <2>6, <2>8 DEF Led
  <2> QED BY <2>9 DEF p
<1> QED BY <1>3, <1>9, <1>11, <1>12, <1>13, <1>14

-----------------------------------------------------------------------------
(* The ends of the streams and the signal. *)

\* The pipe has not begun to shut down.
Piping(s, d, q, n) ==
  /\ Flow(s, d, q, n) /\ (q.loop = "reading" => Waits(s))
  /\ q.result = "pending" /\ q.shutdown = "no" /\ q.awaiting = {} /\ Prompt(d)
  /\ q.passed # <<>> => Unclosed(d)

\* What sets a shutdown off, with what it is to do.
Sets(s, d, q, action, e) ==
  /\ action \in {"none", "abort", "cancel", "close", "signal"} /\ e \in BOOLEAN
  /\ action = "abort" => s.state # "readable"
  /\ action = "cancel" => Closing(d)
  /\ action = "none" => q.preventClose \/ q.preventAbort \/ q.preventCancel
  /\ ~e => s.state = "closed" /\ action = IF q.preventClose THEN "none" ELSE "close"
  /\ action = "close" => ~e

\* shutdownWithAction(): waits for the writes, or takes the action at once.
LEMMA ShutsDown ==
  ASSUME NEW s, NEW d, NEW q, NEW n, Piping(s, d, q, n), NEW action, NEW e,
         Sets(s, d, q, action, e)
  PROVE  Led(shutdownWithAction(Made(s, d, q), action, e), q, n)
<1> DEFINE m == Made(s, d, q)
           p == shutdownWithAction(m, action, e)
           v == [q EXCEPT !.action = action, !.isError = e]
<1>1. m.dest = d /\ m.pipe = q BY DEF Made
<1>2. [m EXCEPT !.pipe.action = action, !.pipe.isError = e] = Made(s, d, v)
  <2>1. PICK u : u = [q EXCEPT !.action = action] OBVIOUS
  <2>2. [m EXCEPT !.pipe.action = action] = Made(s, d, u) BY <2>1 DEF Made
  <2>3. [Made(s, d, u) EXCEPT !.pipe.isError = e] = Made(s, d, [u EXCEPT !.isError = e])
    BY DEF Made
  <2>4. [m EXCEPT !.pipe.action = action, !.pipe.isError = e]
          = [[m EXCEPT !.pipe.action = action] EXCEPT !.pipe.isError = e]
    OBVIOUS
  <2>5. [u EXCEPT !.isError = e] = v BY <2>1
  <2> QED BY Zenon, <2>2, <2>3, <2>4, <2>5
<1>3. q \in PipeRecords BY DEF Piping, Flow
<1>4. action \in {"none", "abort", "cancel", "close", "signal"} /\ e \in BOOLEAN BY DEF Sets
<1>5. v \in PipeRecords BY <1>3, <1>4, ZenonT(60) DEF PipeRecords
<1>6. /\ SameFlow(q, v) /\ SameOptions(q, v) /\ v.action = action /\ v.isError = e
      /\ v.waitFor = q.waitFor /\ v.shutdown = q.shutdown /\ v.awaiting = q.awaiting
  BY <1>3 DEF PipeRecords, SameFlow, SameOptions
<1> HIDE DEF v
<1>7. Flow(s, d, v, n) BY <1>5, <1>6, FlowPipe DEF Piping
<1>8. Cause(s, d, v) BY <1>6 DEF Sets, Cause, SameOptions
<1>9. CASE ~Closing(d)
  <2> DEFINE u == [v EXCEPT !.shutdown = "writes", !.waitFor = q.currentWrite]
  <2>1. p = Made(s, d, u)
    <3>1. q.shutdown = "no" /\ d.state = "writable" /\ ~writableStreamCloseQueuedOrInFlight(d)
      BY <1>9 DEF Piping, Closing
    <3>2. p = [Made(s, d, v) EXCEPT !.pipe.shutdown = "writes", !.pipe.waitFor = q.currentWrite]
      BY <1>1, <1>2, <3>1 DEF shutdownWithAction
    <3> QED BY <3>2 DEF Made
  <2>2. q.currentWrite \in Nat BY <1>3, PipeFields
  <2>3. u \in PipeRecords BY <1>5, <2>2 DEF PipeRecords
  <2>4. /\ SameFlow(q, u) /\ SameCause(v, u) /\ u.waitFor = q.currentWrite
        /\ u.shutdown = "writes" /\ u.awaiting = {}
    BY <1>5, <1>6 DEF PipeRecords, Piping, SameFlow, SameCause, SameOptions
  <2> HIDE DEF u, p
  <2>5. Flow(s, d, u, n) BY <2>3, <2>4, FlowPipe DEF Piping
  <2>6. Unclosed(d) BY <1>9 DEF Closing, Unclosed
  <2>7. Cause(s, d, u) BY <1>8, <2>4 DEF Cause, SameCause, SameOptions
  <2>8. Phases(u) /\ Delivery(d, u) BY <2>4, <2>6 DEF Piping, Phases, Delivery, SameFlow
  <2>9. Before(s, d, u, n) BY <2>4, <2>5, <2>7, <2>8 DEF Before, Steady
  <2>10. Led(p, q, n) BY <2>1, <2>4, <2>9 DEF Led, Made, SameFlow
  <2> QED BY <2>10 DEF p
<1>10. CASE Closing(d)
  <2>1. p = doTheRest(Made(s, d, v))
    <3>1. q.shutdown = "no" /\ ~(d.state = "writable" /\ ~writableStreamCloseQueuedOrInFlight(d))
      BY <1>10 DEF Piping, Closing
    <3> QED BY <1>1, <1>2, <3>1 DEF shutdownWithAction
  <2>2. Shutting(s, d, v, n) BY <1>6, <1>7, <1>8 DEF Shutting, Piping, SameFlow
  <2>3. Led(p, v, n) BY <2>1, <2>2, DoesTheRest
  <2> QED BY <1>6, <2>3 DEF Led, SameFlow
<1> QED BY <1>9, <1>10

\* The four reasons for a shutdown.
LEMMA SetOff ==
  ASSUME NEW s, NEW d, NEW q, NEW n, Piping(s, d, q, n)
  PROVE  /\ s.state = "errored" => Led(SourceErrored(Made(s, d, q)), q, n)
         /\ Closing(d) => Led(DestErrored(Made(s, d, q)), q, n)
         /\ s.state = "closed" => Led(SourceClosed(Made(s, d, q)), q, n)
         /\ Led(Aborted(Made(s, d, q)), q, n)
<1> DEFINE m == Made(s, d, q)
<1>1. m.pipe = q BY DEF Made
<1>2. q.preventClose \in BOOLEAN /\ q.preventAbort \in BOOLEAN /\ q.preventCancel \in BOOLEAN
  BY PipeFields DEF Piping, Flow
<1>3. PICK t \in BOOLEAN : t = TRUE OBVIOUS
<1>4. PICK f \in BOOLEAN : f = FALSE OBVIOUS
<1>5. ASSUME s.state = "errored" PROVE Led(SourceErrored(m), q, n)
  <2>1. PICK x : x = IF q.preventAbort THEN "none" ELSE "abort" OBVIOUS
  <2>2. Sets(s, d, q, x, t) BY <1>2, <1>3, <1>5, <2>1 DEF Sets
  <2>3. Led(shutdownWithAction(m, x, t), q, n) BY <2>2, ShutsDown
  <2>4. SourceErrored(m) = shutdownWithAction(m, x, t) BY <1>1, <1>3, <2>1 DEF SourceErrored
  <2> QED BY <2>3, <2>4
<1>6. ASSUME Closing(d) PROVE Led(DestErrored(m), q, n)
  <2>1. PICK x : x = IF q.preventCancel THEN "none" ELSE "cancel" OBVIOUS
  <2>2. Sets(s, d, q, x, t) BY <1>2, <1>3, <1>6, <2>1 DEF Sets
  <2>3. Led(shutdownWithAction(m, x, t), q, n) BY <2>2, ShutsDown
  <2>4. DestErrored(m) = shutdownWithAction(m, x, t) BY <1>1, <1>3, <2>1 DEF DestErrored
  <2> QED BY <2>3, <2>4
<1>7. ASSUME s.state = "closed" PROVE Led(SourceClosed(m), q, n)
  <2>1. PICK x : x = IF q.preventClose THEN "none" ELSE "close" OBVIOUS
  <2>2. Sets(s, d, q, x, f) BY <1>2, <1>4, <1>7, <2>1 DEF Sets
  <2>3. Led(shutdownWithAction(m, x, f), q, n) BY <2>2, ShutsDown
  <2>4. SourceClosed(m) = shutdownWithAction(m, x, f) BY <1>1, <1>4, <2>1 DEF SourceClosed
  <2> QED BY <2>3, <2>4
<1>8. Led(Aborted(m), q, n)
  <2>1. PICK x : x = "signal" OBVIOUS
  <2>2. Sets(s, d, q, x, t) BY <1>3, <2>1 DEF Sets
  <2>3. Led(shutdownWithAction(m, x, t), q, n) BY <2>2, ShutsDown
  <2>4. Aborted(m) = shutdownWithAction(m, x, t) BY <1>3, <2>1 DEF Aborted
  <2> QED BY <2>3, <2>4
<1> QED BY <1>5, <1>6, <1>7, <1>8

\* A second reason changes nothing.
LEMMA ShutsDownOnce ==
  ASSUME NEW p, p.pipe.shutdown # "no"
  PROVE  SourceErrored(p) = p /\ DestErrored(p) = p /\ SourceClosed(p) = p /\ Aborted(p) = p
<1>1. ASSUME NEW action, NEW e PROVE shutdownWithAction(p, action, e) = p
  BY DEF shutdownWithAction
<1> QED BY Zenon, <1>1 DEF SourceErrored, DestErrored, SourceClosed, Aborted

\* The state a step leaves to the loop.
Leaves(p, n) == p = Made(p.source, p.dest, p.pipe) /\ Before(p.source, p.dest, p.pipe, n)

\* The pipe takes both locks.
LEMMA TakesLocks ==
  ASSUME NEW s, NEW d, NEW q, NEW n, After(s, d, q, n), q.result = "none"
  PROVE  LET u == [q EXCEPT !.result = "pending"]
         IN /\ Piping(setUpReadableStreamDefaultReader(s),
                      setUpWritableStreamDefaultWriter(d), u, n)
            /\ u.loop = "off" /\ u.passed = <<>> /\ u.shutdown = "no" /\ ~u.isError
            /\ u.awaiting = {} /\ u.result = "pending"
<1> DEFINE u == [q EXCEPT !.result = "pending"]
           r == setUpReadableStreamDefaultReader(s)
           w == setUpWritableStreamDefaultWriter(d)
<1>1. /\ ReadableInv(s) /\ WritableInv(d) /\ q \in PipeRecords /\ n \in Nat /\ n <= MaxChunks
      /\ Requests(s, q) /\ Order(s, q, n) /\ Count(d, q) /\ Phases(q)
  BY DEF After, Before, Flow, Steady
<1>2. u \in PipeRecords BY <1>1 DEF PipeRecords, Promises
<1>3. /\ u.loop = q.loop /\ u.passed = q.passed /\ u.currentWrite = q.currentWrite
      /\ u.result = "pending" /\ u.waitFor = q.waitFor /\ u.shutdown = q.shutdown
      /\ u.isError = q.isError /\ u.awaiting = q.awaiting
  BY <1>1 DEF PipeRecords
<1>4. q.loop = "off" /\ q.passed = <<>> /\ q.shutdown = "no" /\ ~q.isError /\ q.awaiting = {}
  BY <1>1 DEF Phases
<1>5. /\ ReadableInv(r) /\ r.reader /\ r.state = s.state /\ r.queue = s.queue
      /\ r.reads = s.reads /\ r.readRequests = s.readRequests /\ r.cancel = s.cancel
  BY <1>1, ReaderSetUp
<1>6. WritableInv(w) /\ w.writer /\ w.writes = d.writes BY <1>1, WriterSetUp
<1> HIDE DEF u, r, w
<1>7. Requests(r, u) BY <1>1, <1>3, <1>4, <1>5 DEF Requests
<1>8. Order(r, u, n) BY <1>1, <1>3, <1>5 DEF Order, Whole
<1>9. Count(w, u) /\ Locked(r, w, u) BY <1>1, <1>3, <1>5, <1>6 DEF Count, Locked
<1>10. Prompt(w)
  <2>1. /\ Len(w.sunk) + Len(w.writeRequests) <= Len(w.writes)
        /\ Len(w.sunk) \in Nat /\ Len(w.writeRequests) \in Nat
    <3>1. WritableType(w) /\ OrderInv(w) BY <1>6 DEF WritableInv, ErrorInv
    <3>2. w.sunk \in Seq(Numbers) /\ w.writeRequests \in Seq(Numbers)
      BY <3>1, WritableFields
    <3>3. Len(w.sunk) \in Nat /\ Len(w.writeRequests) \in Nat BY <3>2
    <3>4. Len(w.sunk) + Len(w.writeRequests) <= Len(w.writes) BY Zenon, <3>1 DEF OrderInv
    <3> QED BY <3>3, <3>4
  <2>2. Len(w.writes) = 0 BY <1>1, <1>4, <1>6 DEF Count
  <2>3. \A a, b \in Nat : a + b <= 0 => a + b = 0 OBVIOUS
  <2>4. Len(w.sunk) + Len(w.writeRequests) <= 0 BY <2>1, <2>2
  <2>5. Len(w.sunk) + Len(w.writeRequests) = 0 BY Zenon, <2>1, <2>3, <2>4
  <2> QED BY <2>2, <2>5 DEF Prompt
<1>11. Flow(r, w, u, n)
  BY <1>1, <1>2, <1>5, <1>6, <1>7, <1>8, <1>9 DEF Flow
<1>12. Piping(r, w, u, n) BY <1>3, <1>4, <1>10, <1>11 DEF Piping
<1>13. /\ u.loop = "off" /\ u.passed = <<>> /\ u.shutdown = "no" /\ ~u.isError
       /\ u.awaiting = {} /\ u.result = "pending"
  BY <1>3, <1>4
<1> QED BY <1>12, <1>13 DEF u, r, w

\* readableStreamPipeTo() once it has taken the locks.
PipeFrom(a) ==
  LET x == IF a.source.state = "errored" THEN SourceErrored(a) ELSE a
      y == IF x.dest.state = "errored" THEN DestErrored(x) ELSE x
      z == IF y.source.state = "closed" THEN SourceClosed(y) ELSE y
      e == IF writableStreamCloseQueuedOrInFlight(z.dest) \/ z.dest.state = "closed"
             THEN DestErrored(z) ELSE z
  IN IF a.pipe.signal = "aborted" THEN Aborted(a) ELSE [e EXCEPT !.pipe.loop = "next"]

\* pipeTo(): the ends that have come already are dealt with, and the loop begins.
LEMMA StartsPiping ==
  ASSUME NEW s, NEW d, NEW q, NEW n, After(s, d, q, n), q.result = "none"
  PROVE  Leaves(readableStreamPipeTo(Made(s, d, q)), n)
<1> DEFINE u == [q EXCEPT !.result = "pending"]
           r == setUpReadableStreamDefaultReader(s)
           w == setUpWritableStreamDefaultWriter(d)
           a == Made(r, w, u)
           x == IF a.source.state = "errored" THEN SourceErrored(a) ELSE a
           y == IF x.dest.state = "errored" THEN DestErrored(x) ELSE x
           z == IF y.source.state = "closed" THEN SourceClosed(y) ELSE y
           e == IF writableStreamCloseQueuedOrInFlight(z.dest) \/ z.dest.state = "closed"
                  THEN DestErrored(z) ELSE z
<1>1. readableStreamPipeTo(Made(s, d, q)) = PipeFrom(a)
  <2> DEFINE m == Made(s, d, q)
             b == [m EXCEPT !.source = setUpReadableStreamDefaultReader(@),
                            !.dest = setUpWritableStreamDefaultWriter(@),
                            !.pipe.result = "pending"]
  <2>1. m.source = s /\ m.dest = d /\ m.pipe = q BY DEF Made
  <2>2. b = a
    <3>1. [m EXCEPT !.source = setUpReadableStreamDefaultReader(@)] = Made(r, d, q)
      BY <2>1 DEF Made
    <3>2. [Made(r, d, q) EXCEPT !.dest = setUpWritableStreamDefaultWriter(@)] = Made(r, w, q)
      BY DEF Made
    <3>3. [Made(r, w, q) EXCEPT !.pipe.result = "pending"] = a BY DEF Made
    <3>4. b = [[[m EXCEPT !.source = setUpReadableStreamDefaultReader(@)]
                 EXCEPT !.dest = setUpWritableStreamDefaultWriter(@)]
                 EXCEPT !.pipe.result = "pending"]
      BY Zenon
    <3> QED BY Zenon, <3>1, <3>2, <3>3, <3>4
  <2>3. readableStreamPipeTo(m) = PipeFrom(b) BY Zenon DEF readableStreamPipeTo, PipeFrom
  <2> QED BY <2>2, <2>3
<1>2. /\ Piping(r, w, u, n) /\ u.loop = "off" /\ u.passed = <<>> /\ u.shutdown = "no"
      /\ ~u.isError /\ u.awaiting = {} /\ u.result = "pending"
  BY TakesLocks
<1>3. a.source = r /\ a.dest = w /\ a.pipe = u BY DEF Made
<1>4. PipeFrom(a) =
        IF a.pipe.signal = "aborted" THEN Aborted(a) ELSE [e EXCEPT !.pipe.loop = "next"]
  <2> HIDE DEF a
  <2> QED BY Zenon DEF PipeFrom
<1>5. /\ r.state = "errored" => Led(SourceErrored(a), u, n)
      /\ Closing(w) => Led(DestErrored(a), u, n)
      /\ r.state = "closed" => Led(SourceClosed(a), u, n)
      /\ Led(Aborted(a), u, n)
  BY <1>2, SetOff
<1> HIDE DEF a, u, r, w
<1>6. \A p : Led(p, u, n) => SourceErrored(p) = p /\ DestErrored(p) = p /\ SourceClosed(p) = p
  BY ShutsDownOnce DEF Led
<1>7. x = a \/ Led(x, u, n) BY <1>3, <1>5
<1> HIDE DEF x
<1>8. y = a \/ Led(y, u, n) BY <1>3, <1>6, <1>5, <1>7 DEF Closing
<1> HIDE DEF y
<1>9. z = a \/ Led(z, u, n) BY <1>3, <1>6, <1>5, <1>8
<1> HIDE DEF z
<1>10. (e = a /\ Unclosed(w)) \/ Led(e, u, n)
  BY <1>3, <1>6, <1>5, <1>9 DEF Closing, Unclosed
<1> HIDE DEF e
<1>11. Leaves(Aborted(a), n) BY <1>5 DEF Led, Leaves
<1>12. Leaves([e EXCEPT !.pipe.loop = "next"], n)
  <2>1. PICK s1, d1, q1 : /\ e = Made(s1, d1, q1) /\ Before(s1, d1, q1, n)
                          /\ q1.loop = "off" /\ q1.result # "none"
    <3>1. CASE e = a /\ Unclosed(w)
      <4>1. Phases(u) /\ Delivery(w, u) BY <1>2 DEF Phases, Delivery, Piping
      <4>2. Before(r, w, u, n) BY <1>2, <3>1, <4>1 DEF Before, Steady, Piping
      <4> QED BY <1>2, <3>1, <4>2 DEF a
    <3>2. CASE Led(e, u, n)
      <4>1. Before(e.source, e.dest, e.pipe, n) /\ e.pipe.loop = "off" /\ e.pipe.shutdown # "no"
        BY <1>2, <3>2 DEF Led
      <4>2. e.pipe.result # "none" BY <4>1 DEF Before, Steady, Phases
      <4> QED BY <3>2, <4>1, <4>2 DEF Led
    <3> QED BY <1>10, <3>1, <3>2
  <2>2. s1.readRequests = <<>> BY <2>1 DEF Before, Flow, Requests
  <2>3. PICK l \in {"off", "next", "wait", "ready"} : l = "next" OBVIOUS
  <2>4. PICK v : Turns(q1, v, l) BY DEF Turns
  <2>5. After(s1, d1, v, n) BY <2>1, <2>2, <2>4, LoopTurns
  <2>6. [e EXCEPT !.pipe.loop = "next"] = Made(s1, d1, v) BY <2>1, <2>3, <2>4 DEF Made, Turns
  <2> QED BY <2>5, <2>6 DEF Leaves, Made, After
<1> QED BY <1>1, <1>4, <1>11, <1>12

-----------------------------------------------------------------------------
(* The steps of the pipe. *)

\* A step ends with what the loop makes of the state it left.
LEMMA StepLeaves ==
  ASSUME NEW p, NEW n, Leaves(p, n), Becomes(p), enqueued' = n
  PROVE  PipeInv'
<1>1. PICK s, d, q : p = Made(s, d, q) /\ Before(s, d, q, n) BY DEF Leaves
<1>2. \A size : Fits(LoopFollows(p, size), n) BY <1>1, LoopNotices
<1> QED BY <1>2, Becoming

\* The initial states.
LEMMA InitPipe == Init => PipeInv
<1> SUFFICES ASSUME Init PROVE PipeInv OBVIOUS
<1>1. PICK h \in SourceHWMs : source = initializeReadableStream(h) BY DEF Init
<1>2. PICK k \in SinkHWMs : dest = initializeWritableStream(k) BY DEF Init
<1>3. h \in Nat /\ k \in Nat /\ MaxChunks \in Nat BY PipeAssumption
<1>4. /\ ReadableInv(source) /\ ~source.reader /\ source.readRequests = <<>>
      /\ source.reads = <<>> /\ source.queue = <<>>
  BY <1>1, <1>3, ReadableInit
<1>5. WritableInv(dest) /\ ~dest.writer /\ dest.writes = <<>> BY <1>2, <1>3, WritableInit
<1>6. /\ pipe \in PipeRecords /\ pipe.result = "none" /\ pipe.loop = "off"
      /\ pipe.currentWrite = 0 /\ pipe.shutdown = "no" /\ pipe.waitFor = 0
      /\ pipe.isError = FALSE /\ pipe.awaiting = {} /\ pipe.passed = <<>>
  BY DEF Init, PipeRecords, Promises
<1>7. enqueued = 0 BY DEF Init
<1>8. Requests(source, pipe) BY <1>4, <1>6 DEF Requests
<1>9. Order(source, pipe, enqueued) BY <1>4, <1>6, <1>7 DEF Order
<1>10. Count(dest, pipe) /\ Locked(source, dest, pipe)
  BY <1>4, <1>5, <1>6 DEF Count, Locked
<1>11. Flow(source, dest, pipe, enqueued)
  BY <1>3, <1>4, <1>5, <1>6, <1>7, <1>8, <1>9, <1>10 DEF Flow
<1>12. Prompt(dest)
  <2>1. dest.sunk = <<>> /\ dest.writeRequests = <<>> BY <1>2 DEF initializeWritableStream
  <2>2. Len(dest.sunk) = 0 /\ Len(dest.writeRequests) = 0 /\ Len(dest.writes) = 0 BY <1>5, <2>1
  <2> QED BY <2>2 DEF Prompt
<1>13. Phases(pipe) /\ Delivery(dest, pipe) BY <1>6, <1>12 DEF Phases, Delivery
<1> QED BY <1>6, <1>11, <1>13 DEF PipeInv, After, Before, Steady

\* The state of the invariant as a record, and the pipe before its shutdown.
LEMMA NowMade == Now = Made(source, dest, pipe) BY DEF Now, Made

\* A pending pipe that is not shutting down can be shut down.
LEMMA PipingNow ==
  ASSUME NEW s, NEW d, NEW q, NEW n, After(s, d, q, n), q.result = "pending",
         q.shutdown = "no"
  PROVE  Piping(s, d, q, n)
BY DEF After, Before, Steady, Phases, Delivery, Piping

\* A step of the shutdown leaves a state to the loop.
LEMMA LedLeaves ==
  ASSUME NEW p, NEW q, NEW n, Led(p, q, n) PROVE Leaves(p, n)
BY DEF Led, Leaves

\* So does one whose state is known.
LEMMA MadeLeaves ==
  ASSUME NEW s, NEW d, NEW q, NEW n, Before(s, d, q, n) PROVE Leaves(Made(s, d, q), n)
BY DEF Leaves, Made

\* pipeTo().
LEMMA PipeToStep == PipeInv /\ PipeTo => PipeInv'
<1> SUFFICES ASSUME PipeInv, PipeTo PROVE PipeInv' OBVIOUS
<1>1. pipe.result = "none" /\ Becomes(readableStreamPipeTo(Now)) /\ enqueued' = enqueued
  BY DEF PipeTo
<1>2. Leaves(readableStreamPipeTo(Now), enqueued)
  BY <1>1, NowMade, StartsPiping DEF PipeInv
<1> QED BY <1>1, <1>2, StepLeaves

\* The reactions to the ends of the streams.
LEMMA EndsStep == PipeInv /\ (SourceEnds \/ DestEnds) => PipeInv'
<1> SUFFICES ASSUME PipeInv, SourceEnds \/ DestEnds PROVE PipeInv' OBVIOUS
<1>1. pipe.result = "pending" /\ pipe.shutdown = "no" /\ enqueued' = enqueued
  BY DEF SourceEnds, DestEnds
<1>2. Piping(source, dest, pipe, enqueued) BY <1>1, PipingNow DEF PipeInv
<1>3. CASE SourceEnds
  <2>1. source.state \in {"closed", "errored"}
    BY <1>2, <1>3, ReadableFields DEF SourceEnds, Piping, Flow, ReadableInv
  <2>2. CASE source.state = "errored"
    <3>1. Led(SourceErrored(Now), pipe, enqueued) BY <1>2, <2>2, NowMade, SetOff
    <3>2. Leaves(SourceErrored(Now), enqueued) BY <3>1, LedLeaves
    <3>3. Becomes(SourceErrored(Now)) BY <1>3, <2>2 DEF SourceEnds
    <3> QED BY <1>1, <3>2, <3>3, StepLeaves
  <2>3. CASE source.state = "closed"
    <3>1. Led(SourceClosed(Now), pipe, enqueued) BY <1>2, <2>3, NowMade, SetOff
    <3>2. Leaves(SourceClosed(Now), enqueued) BY <3>1, LedLeaves
    <3>3. Becomes(SourceClosed(Now)) BY <1>3, <2>3 DEF SourceEnds
    <3> QED BY <1>1, <3>2, <3>3, StepLeaves
  <2> QED BY <2>1, <2>2, <2>3
<1>4. CASE DestEnds
  <2>1. dest.closed = "rejected" /\ Becomes(DestErrored(Now)) BY <1>4 DEF DestEnds
  <2>2. WritableInv(dest) /\ dest.writer BY <1>1, <1>2 DEF Piping, Flow, Locked
  <2>3. Closing(dest) BY <2>1, <2>2 DEF WritableInv, ErrorInv, SinkInv, Closing
  <2>4. Led(DestErrored(Now), pipe, enqueued) BY <1>2, <2>3, NowMade, SetOff
  <2>5. Leaves(DestErrored(Now), enqueued) BY <2>4, LedLeaves
  <2> QED BY <1>1, <2>1, <2>5, StepLeaves
<1> QED BY <1>3, <1>4

\* Only the signal of the pipe changes.
LEMMA SignalAfter ==
  ASSUME NEW s, NEW d, NEW q, NEW n, After(s, d, q, n)
  PROVE  LET u == [q EXCEPT !.signal = "aborted"]
         IN After(s, d, u, n) /\ u.result = q.result /\ u.shutdown = q.shutdown
<1> DEFINE u == [q EXCEPT !.signal = "aborted"]
<1>1. q \in PipeRecords BY DEF After, Before, Flow
<1>2. u \in PipeRecords BY <1>1 DEF PipeRecords
<1>3. /\ SameFlow(q, u) /\ SameCause(q, u) /\ u.waitFor = q.waitFor
      /\ u.shutdown = q.shutdown /\ u.awaiting = q.awaiting
  BY <1>1 DEF PipeRecords, SameFlow, SameCause, SameOptions
<1> HIDE DEF u
<1>4. Flow(s, d, u, n) BY <1>2, <1>3, FlowPipe DEF After, Before
<1>5. Phases(u) /\ Delivery(d, u)
  BY <1>3 DEF After, Before, Steady, Phases, Delivery, SameFlow, SameCause, SameOptions
<1>6. u.shutdown # "no" => Cause(s, d, u)
  BY <1>3 DEF After, Before, Steady, Cause, SameCause, SameOptions
<1>7. u.shutdown \in {"awaiting", "done"} => Acted(s, d, u)
  BY <1>3 DEF After, Before, Steady, Acted, SameCause, SameOptions
<1>8. After(s, d, u, n)
  BY <1>3, <1>4, <1>5, <1>6, <1>7 DEF After, Before, Steady, SameFlow
<1>9. u.result = q.result /\ u.shutdown = q.shutdown BY <1>3 DEF SameFlow
<1> QED BY <1>8, <1>9 DEF u

\* The signal is aborted.
LEMMA SignalStep == PipeInv /\ SignalAborts => PipeInv'
<1> SUFFICES ASSUME PipeInv, SignalAborts PROVE PipeInv' OBVIOUS
<1> DEFINE u == [pipe EXCEPT !.signal = "aborted"]
           p == Made(source, dest, u)
<1>1. enqueued' = enqueued BY DEF SignalAborts
<1>2. Becomes(IF pipe.result = "pending" THEN Aborted(p) ELSE p)
  <2>1. [Now EXCEPT !.pipe.signal = "aborted"] = p BY DEF Now, Made
  <2> HIDE DEF p
  <2> QED BY <2>1 DEF SignalAborts
<1>3. After(source, dest, u, enqueued) /\ u.result = pipe.result /\ u.shutdown = pipe.shutdown
  BY SignalAfter DEF PipeInv
<1>4. Leaves(p, enqueued) BY <1>3, MadeLeaves DEF After
<1>5. p.pipe = u BY DEF Made
<1> HIDE DEF u
<1>6. u.result = "pending" => Leaves(Aborted(p), enqueued)
  <2>1. CASE u.result = "pending" /\ u.shutdown = "no"
    <3>1. Piping(source, dest, u, enqueued) BY <1>3, <2>1, PipingNow
    <3>2. Led(Aborted(p), u, enqueued) BY <3>1, SetOff
    <3> QED BY <3>2, LedLeaves
  <2>2. CASE u.shutdown # "no"
    <3> HIDE DEF p
    <3>1. Aborted(p) = p BY <1>5, <2>2, ShutsDownOnce
    <3> QED BY <1>4, <3>1
  <2> QED BY <2>1, <2>2
<1> HIDE DEF p
<1>7. CASE pipe.result = "pending"
  <2>1. Becomes(Aborted(p)) BY <1>2, <1>7
  <2> QED BY <1>1, <1>3, <1>6, <1>7, <2>1, StepLeaves
<1>8. CASE pipe.result # "pending"
  <2>1. Becomes(p) BY <1>2, <1>8
  <2> QED BY <1>1, <1>4, <2>1, StepLeaves
<1> QED BY <1>7, <1>8

\* waitForWritesToFinish(): the destination has not been closed meanwhile.
LEMMA WaitStep == PipeInv /\ waitForWritesToFinish => PipeInv'
<1> SUFFICES ASSUME PipeInv, waitForWritesToFinish PROVE PipeInv' OBVIOUS
<1>1. pipe.shutdown = "writes" /\ enqueued' = enqueued BY DEF waitForWritesToFinish
<1>2. /\ pipe \in PipeRecords /\ Flow(source, dest, pipe, enqueued) /\ Phases(pipe)
      /\ Delivery(dest, pipe) /\ Cause(source, dest, pipe)
      /\ pipe.loop = "reading" => Waits(source)
  BY <1>1 DEF PipeInv, After, Before, Flow, Steady
<1>3. ASSUME NEW u, u \in PipeRecords, SameFlow(pipe, u), SameCause(pipe, u),
             u.shutdown \in {"writes", "act"}, u.awaiting = pipe.awaiting,
             u.waitFor = pipe.waitFor \/ u.waitFor = pipe.currentWrite
      PROVE  Leaves(Made(source, dest, u), enqueued)
  <2>1. Flow(source, dest, u, enqueued) BY <1>2, <1>3, FlowPipe
  <2>2. Phases(u)
    BY <1>1, <1>2, <1>3 DEF Phases, SameFlow
  <2>3. Delivery(dest, u)
    BY <1>1, <1>2, <1>3 DEF Phases, Delivery, SameFlow, SameCause, SameOptions
  <2>4. Cause(source, dest, u) BY <1>2, <1>3 DEF Cause, SameCause, SameOptions
  <2>5. Before(source, dest, u, enqueued)
    BY <1>3, <2>1, <2>2, <2>3, <2>4 DEF Before, Steady
  <2> QED BY <2>5, MadeLeaves
<1>4. CASE pipe.waitFor # pipe.currentWrite
  <2> DEFINE u == [pipe EXCEPT !.waitFor = pipe.currentWrite]
  <2>1. pipe.currentWrite \in Nat BY <1>2, PipeFields
  <2>2. u \in PipeRecords BY <1>2, <2>1 DEF PipeRecords
  <2>3. /\ SameFlow(pipe, u) /\ SameCause(pipe, u) /\ u.shutdown = pipe.shutdown
        /\ u.awaiting = pipe.awaiting /\ u.waitFor = pipe.currentWrite
    BY <1>2 DEF PipeRecords, SameFlow, SameCause, SameOptions
  <2>4. Becomes(Made(source, dest, u))
    <3>1. [Now EXCEPT !.pipe.waitFor = pipe.currentWrite] = Made(source, dest, u)
      BY DEF Now, Made
    <3> HIDE DEF u
    <3> QED BY <1>4, <3>1 DEF waitForWritesToFinish
  <2> HIDE DEF u
  <2>5. Leaves(Made(source, dest, u), enqueued) BY <1>1, <1>3, <2>2, <2>3
  <2> QED BY <1>1, <2>4, <2>5, StepLeaves
<1>5. CASE pipe.waitFor = pipe.currentWrite
  <2>1. PICK u : Enters(pipe, u, "act") BY DEF Enters
  <2>2. /\ u \in PipeRecords /\ SameFlow(pipe, u) /\ SameCause(pipe, u)
        /\ u.waitFor = pipe.waitFor /\ u.shutdown = "act" /\ u.awaiting = pipe.awaiting
    BY <1>2, <2>1, EntersFields
  <2>3. Becomes(Made(source, dest, u))
    <3>1. [Now EXCEPT !.pipe.shutdown = "act"] = Made(source, dest, u)
      BY <2>1 DEF Now, Made, Enters
    <3> QED BY <1>5, <3>1 DEF waitForWritesToFinish
  <2>4. Leaves(Made(source, dest, u), enqueued) BY <1>3, <2>2
  <2> QED BY <1>1, <2>3, <2>4, StepLeaves
<1> QED BY <1>4, <1>5

\* The shutdown goes on when the writes have finished.
LEMMA WritesFinishedStep == PipeInv /\ WritesFinished => PipeInv'
<1> SUFFICES ASSUME PipeInv, WritesFinished PROVE PipeInv' OBVIOUS
<1>1. pipe.shutdown = "act" /\ Becomes(doTheRest(Now)) /\ enqueued' = enqueued
  BY DEF WritesFinished
<1>2. pipe.result = "pending"
  <2>1. pipe.result \in Promises BY PipeFields DEF PipeInv, After, Before, Flow
  <2> QED BY <1>1, <2>1 DEF PipeInv, After, Before, Steady, Phases, Promises
<1>3. Shutting(source, dest, pipe, enqueued)
  BY <1>1, <1>2 DEF PipeInv, After, Before, Steady, Phases, Delivery, Shutting
<1>4. Led(doTheRest(Now), pipe, enqueued) BY <1>3, NowMade, DoesTheRest
<1>5. Leaves(doTheRest(Now), enqueued) BY <1>4, LedLeaves
<1> QED BY <1>1, <1>5, StepLeaves

\* The action's promises are settled: a close that was awaited has succeeded when the
\* pipe resolves.
LEMMA ActionStep == PipeInv /\ ActionSettles => PipeInv'
<1> SUFFICES ASSUME PipeInv, ActionSettles PROVE PipeInv' OBVIOUS
<1>1. pipe.shutdown = "awaiting" /\ enqueued' = enqueued BY DEF ActionSettles
<1>2. /\ pipe \in PipeRecords /\ Flow(source, dest, pipe, enqueued) /\ Phases(pipe)
      /\ Delivery(dest, pipe) /\ Cause(source, dest, pipe) /\ Acted(source, dest, pipe)
      /\ pipe.loop = "reading" => Waits(source)
  BY <1>1 DEF PipeInv, After, Before, Flow, Steady
<1>3. /\ pipe.result \in Promises /\ pipe.isError \in BOOLEAN
      /\ pipe.preventClose \in BOOLEAN
  BY <1>2, PipeFields
<1>4. pipe.result = "pending" BY <1>1, <1>2, <1>3 DEF Phases, Promises
<1>5. ~pipe.isError => Prompt(dest) BY <1>2 DEF Delivery
<1>6. ASSUME NEW e \in BOOLEAN, Becomes(finalize(Now, e)),
             ~e => ~pipe.isError /\ (~pipe.preventClose /\ pipe.passed # <<>>
                                       => dest.close = "resolved")
      PROVE  PipeInv'
  <2>1. Led(finalize(Now, e), pipe, enqueued)
    BY <1>2, <1>4, <1>5, <1>6, NowMade, Finalizes
  <2>2. Leaves(finalize(Now, e), enqueued) BY <2>1, LedLeaves
  <2> QED BY <1>1, <1>6, <2>2, StepLeaves
<1>7. CASE Becomes(finalize(Now, TRUE))
  <2>1. PICK e \in BOOLEAN : e = TRUE OBVIOUS
  <2>2. Becomes(finalize(Now, e)) BY <1>7, <2>1
  <2> QED BY <1>6, <2>1, <2>2
<1>8. CASE /\ \A a \in pipe.awaiting : Outcome(a) = "resolved"
           /\ Becomes(finalize(Now, pipe.isError))
  <2>1. ASSUME ~pipe.isError, ~pipe.preventClose, pipe.passed # <<>>
        PROVE  dest.close = "resolved"
    <3>1. pipe.action = "close" BY <1>2, <1>3, <2>1 DEF Cause
    <3>2. pipe.awaiting \in {{"close"}, {"rejected"}} BY <1>1, <1>2, <2>1, <3>1 DEF Delivery
    <3>3. "rejected" \notin pipe.awaiting BY <1>8 DEF Outcome
    <3>4. "close" \in pipe.awaiting BY <3>2, <3>3
    <3> QED BY <1>8, <3>4 DEF Outcome
  <2>2. PICK e \in BOOLEAN : e = pipe.isError BY <1>3
  <2>3. Becomes(finalize(Now, e)) BY <1>8, <2>2
  <2>4. ~e => ~pipe.isError /\ (~pipe.preventClose /\ pipe.passed # <<>>
                                  => dest.close = "resolved")
    BY <2>1, <2>2
  <2> QED BY <1>6, <2>3, <2>4
<1> QED BY <1>7, <1>8 DEF ActionSettles

\* The loop.
LEMMA LoopStep == PipeInv /\ (pipeStep \/ LoopReads) => PipeInv'
<1> SUFFICES ASSUME PipeInv, pipeStep \/ LoopReads PROVE PipeInv' OBVIOUS
<1>1. enqueued' = enqueued /\ pipe.loop \in {"next", "ready"} BY DEF pipeStep, LoopReads
<1>2. /\ After(source, dest, pipe, enqueued) /\ Before(source, dest, pipe, enqueued)
      /\ pipe.result # "none" /\ source.readRequests = <<>>
  BY <1>1 DEF PipeInv, After, Before, Flow, Steady, Phases, Requests
<1>3. ASSUME NEW l \in {"off", "next", "wait", "ready"}, Becomes([Now EXCEPT !.pipe.loop = l])
      PROVE  PipeInv'
  <2>1. PICK u : Turns(pipe, u, l) BY DEF Turns
  <2>2. After(source, dest, u, enqueued) BY <1>2, <2>1, LoopTurns
  <2>3. Leaves(Made(source, dest, u), enqueued) BY <2>2, MadeLeaves DEF After
  <2>4. [Now EXCEPT !.pipe.loop = l] = Made(source, dest, u) BY <2>1 DEF Now, Made, Turns
  <2>5. Becomes(Made(source, dest, u)) BY <1>3, <2>4
  <2> QED BY <1>1, <2>3, <2>5, StepLeaves
<1>4. CASE pipeStep
  <2>1. PICK l \in {"off", "wait"} : l = IF pipe.shutdown # "no" THEN "off" ELSE "wait" OBVIOUS
  <2>2. Becomes([Now EXCEPT !.pipe.loop = l]) BY <1>4, <2>1 DEF pipeStep
  <2> QED BY <1>3, <2>2
<1>5. CASE LoopReads /\ ~source.reader
  <2>1. PICK l \in {"off", "next"} : l = "off" OBVIOUS
  <2>2. Becomes([Now EXCEPT !.pipe.loop = l]) BY <1>5, <2>1 DEF LoopReads
  <2> QED BY <1>3, <2>2
<1>6. CASE LoopReads /\ source.reader
  <2> DEFINE r == readableStreamDefaultReaderRead(source)
  <2>1. PICK u : Turns(pipe, u, "reading") BY DEF Turns
  <2>2. Becomes(Made(r, dest, u))
    <3>1. [Now EXCEPT !.source = readableStreamDefaultReaderRead(@), !.pipe.loop = "reading"]
            = Made(r, dest, u)
      <4>1. [Now EXCEPT !.source = readableStreamDefaultReaderRead(@)] = Made(r, dest, pipe)
        BY DEF Now, Made
      <4>2. [Made(r, dest, pipe) EXCEPT !.pipe.loop = "reading"] = Made(r, dest, u)
        BY <2>1 DEF Made, Turns
      <4> QED BY Zenon, <4>1, <4>2
    <3> HIDE DEF r
    <3> QED BY <1>6, <3>1 DEF LoopReads
  <2>3. pipe.loop = "ready" BY <1>6 DEF LoopReads
  <2>4. \A size : Fits(LoopFollows(Made(r, dest, u), size), enqueued)
    BY <1>2, <1>6, <2>1, <2>3, LoopRead
  <2> QED BY <1>1, <2>2, <2>4, Becoming
<1> QED BY <1>4, <1>5, <1>6

\* The owner of the source.
LEMMA SourceStep ==
  ASSUME PipeInv, NEW r, ReadableInv(r), SameOrEnded(source, r), r.reader = source.reader,
         source.cancel # "none" => r.cancel # "none", Source(r)
  PROVE  PipeInv'
<1>1. enqueued' = enqueued /\ Becomes(Made(r, dest, pipe)) BY DEF Source, Now, Made
<1>2. Before(r, dest, pipe, enqueued) BY SourceChanges DEF PipeInv
<1>3. Leaves(Made(r, dest, pipe), enqueued) BY <1>2, MadeLeaves
<1> QED BY <1>1, <1>3, StepLeaves

\* Each step of the owner of the source but enqueue().
LEMMA SourceSteps ==
  /\ PipeInv
  /\ \/ SourceStarts \/ SourcePullSettles \/ SourceCancelSettles
     \/ SourceCloses \/ SourceFails \/ SourceCancelled
  => PipeInv'
<1> SUFFICES ASSUME PipeInv,
                    \/ SourceStarts \/ SourcePullSettles \/ SourceCancelSettles
                    \/ SourceCloses \/ SourceFails \/ SourceCancelled
             PROVE  PipeInv'
  OBVIOUS
<1>1. ReadableInv(source) BY DEF PipeInv, After, Before, Flow
<1>2. CASE SourceStarts
  <2>1. PICK ok \in BOOLEAN : source.start = "pending" /\ Source(ReadableStarts(source, ok))
    BY <1>2 DEF SourceStarts
  <2>2. /\ ReadableInv(ReadableStarts(source, ok))
        /\ SameOrEnded(source, ReadableStarts(source, ok))
        /\ ReadableStarts(source, ok).reader = source.reader
        /\ ReadableStarts(source, ok).cancel = source.cancel
    BY <1>1, <2>1, SourceStarted
  <2> QED BY <2>1, <2>2, SourceStep
<1>3. CASE SourcePullSettles
  <2>1. PICK ok \in BOOLEAN : source.pull = "pending" /\ Source(PullSettles(source, ok))
    BY <1>3 DEF SourcePullSettles
  <2>2. /\ ReadableInv(PullSettles(source, ok)) /\ SameOrEnded(source, PullSettles(source, ok))
        /\ PullSettles(source, ok).reader = source.reader
        /\ PullSettles(source, ok).cancel = source.cancel
    BY <1>1, <2>1, PullSettled
  <2> QED BY <2>1, <2>2, SourceStep
<1>4. CASE SourceCancelSettles
  <2>1. PICK ok \in BOOLEAN : Source(CancelSettles(source, ok)) BY <1>4 DEF SourceCancelSettles
  <2>2. /\ ReadableInv(CancelSettles(source, ok)) /\ Same(source, CancelSettles(source, ok))
        /\ CancelSettles(source, ok).cancel \in {"resolved", "rejected"}
    BY <1>1, CancelSettled
  <2>3. /\ SameOrEnded(source, CancelSettles(source, ok))
        /\ CancelSettles(source, ok).reader = source.reader
        /\ CancelSettles(source, ok).cancel # "none"
    BY <2>2 DEF SameOrEnded, Same
  <2> QED BY <2>1, <2>2, <2>3, SourceStep
<1>5. CASE SourceCloses
  <2> DEFINE r == readableStreamDefaultControllerClose(source)
  <2>1. Source(r) BY <1>5 DEF SourceCloses
  <2>2. ReadableInv(r) /\ SameOrEnded(source, r) /\ r.cancel = source.cancel
        /\ r.reader = source.reader
    BY <1>1, ReadableCloses
  <2> QED BY <2>1, <2>2, SourceStep
<1>6. CASE SourceFails
  <2> DEFINE r == readableStreamDefaultControllerError(source)
  <2>1. Source(r) BY <1>6 DEF SourceFails
  <2>2. ReadableInv(r) /\ SameOrEnded(source, r) /\ r.cancel = source.cancel
        /\ r.reader = source.reader
    BY <1>1, ReadableErrors
  <2> QED BY <2>1, <2>2, SourceStep
<1>7. CASE SourceCancelled
  <2> DEFINE r == readableStreamCancel(source)
  <2>1. Source(r) BY <1>7 DEF SourceCancelled
  <2>2. ReadableInv(r) /\ SameOrEnded(source, r) /\ r.reader = source.reader
        /\ (source.cancel # "none" => r.cancel # "none")
    BY <1>1, ReadableCancels
  <2> QED BY <2>1, <2>2, SourceStep
<1> QED BY <1>2, <1>3, <1>4, <1>5, <1>6, <1>7

\* enqueue() of the owner of the source.
LEMMA EnqueueStep == PipeInv /\ SourceEnqueues => PipeInv'
<1> SUFFICES ASSUME PipeInv, SourceEnqueues PROVE PipeInv' OBVIOUS
<1>1. enqueued < MaxChunks /\ readableStreamDefaultControllerCanCloseOrEnqueue(source)
  BY DEF SourceEnqueues
<1>2. PICK size1 \in Sizes :
        LET r == readableStreamDefaultControllerEnqueue(source, enqueued + 1, size1)
        IN /\ Becomes([Now EXCEPT !.source = r])
           /\ enqueued' = IF r.state = "errored" THEN enqueued ELSE enqueued + 1
  BY DEF SourceEnqueues
<1> DEFINE r == readableStreamDefaultControllerEnqueue(source, enqueued + 1, size1)
           n == IF r.state = "errored" THEN enqueued ELSE enqueued + 1
<1>3. [Now EXCEPT !.source = r] = Made(r, dest, pipe) BY DEF Now, Made
<1>4. \A size : Fits(LoopFollows(Made(r, dest, pipe), size), n)
  BY <1>1, PipeAssumption, SourceEnqueued DEF PipeInv
<1> HIDE DEF r
<1>5. Becomes(Made(r, dest, pipe)) /\ enqueued' = n BY <1>2, <1>3 DEF r
<1> HIDE DEF n
<1> QED BY <1>4, <1>5, Becoming

\* The owner of the destination.
LEMMA DestStep ==
  ASSUME PipeInv, NEW w, WritableInv(w), Retains(dest, w),
         pipe.result = "pending" => (Unclosed(dest) => Unclosed(w)), Dest(w)
  PROVE  PipeInv'
<1>1. /\ enqueued' = enqueued /\ Becomes(Made(source, w, pipe))
      /\ pipe.result \in {"none", "pending"}
  BY DEF Dest, Now, Made, Watched
<1>2. Before(source, w, pipe, enqueued) BY <1>1, DestChanges DEF PipeInv
<1>3. Leaves(Made(source, w, pipe), enqueued) BY <1>2, MadeLeaves
<1> QED BY <1>1, <1>3, StepLeaves

\* Each step of the owner of the destination.
LEMMA DestSteps ==
  /\ PipeInv
  /\ DestStarts \/ DestSettles \/ DestFails \/ DestCloses \/ DestAborts
  => PipeInv'
<1> SUFFICES ASSUME PipeInv,
                    DestStarts \/ DestSettles \/ DestFails \/ DestCloses \/ DestAborts
             PROVE  PipeInv'
  OBVIOUS
<1>1. WritableInv(dest) /\ Locked(source, dest, pipe)
  BY DEF PipeInv, After, Before, Flow
<1>2. CASE DestStarts
  <2>1. PICK ok \in BOOLEAN : ~dest.started /\ Dest(WritableStarts(dest, ok))
    BY <1>2 DEF DestStarts
  <2>2. WritableInv(WritableStarts(dest, ok)) /\ Keeps(dest, WritableStarts(dest, ok))
    BY <1>1, <2>1, Starts
  <2> QED BY <2>1, <2>2, DestStep DEF Keeps
<1>3. CASE DestSettles
  <2>1. PICK ok \in BOOLEAN : dest.sink # "none" /\ Dest(SinkSettles(dest, ok))
    BY <1>3 DEF DestSettles
  <2>2. WritableInv(SinkSettles(dest, ok)) /\ Keeps(dest, SinkSettles(dest, ok))
    BY <1>1, <2>1, Settles
  <2> QED BY <2>1, <2>2, DestStep DEF Keeps
<1>4. CASE DestFails
  <2> DEFINE w == writableStreamDefaultControllerErrorIfNeeded(dest)
  <2>1. Dest(w) BY <1>4 DEF DestFails
  <2>2. dest.state = "writable" => ~dest.storedError /\ dest.pendingAbortRequest = "none"
    BY <1>1 DEF WritableInv, QueueInv
  <2>3. WritableInv(w) /\ Keeps(dest, w) BY <1>1, <2>2, ErrorsIfNeeded DEF WritableInv
  <2> QED BY <2>1, <2>3, DestStep DEF Keeps
<1>5. CASE DestCloses
  <2>1. Dest(close(dest)) /\ ~dest.writer BY <1>5 DEF DestCloses
  <2>2. pipe.result # "pending" BY <1>1, <2>1 DEF Locked
  <2>3. WritableInv(close(dest)) /\ Retains(dest, close(dest)) BY <1>1, Closes
  <2> QED BY <2>1, <2>2, <2>3, DestStep
<1>6. CASE DestAborts
  <2> DEFINE w == writableStreamAbort(dest)
  <2>1. Dest(w) BY <1>6 DEF DestAborts
  <2>2. WritableInv(w) /\ Keeps(dest, w) BY <1>1, Aborts
  <2> QED BY <2>1, <2>2, DestStep DEF Keeps
<1> QED BY <1>2, <1>3, <1>4, <1>5, <1>6

\* The inductive step.
LEMMA NextPipe == PipeInv /\ [Next]_vars => PipeInv'
<1> SUFFICES ASSUME PipeInv, [Next]_vars PROVE PipeInv' OBVIOUS
<1>1. CASE UNCHANGED vars BY <1>1 DEF vars, PipeInv
<1>2. CASE Next
  BY <1>2, PipeToStep, EndsStep, SignalStep, WaitStep, WritesFinishedStep, ActionStep,
     LoopStep, SourceSteps, EnqueueStep, DestSteps
     DEF Next, Reactions, Callbacks
<1> QED BY <1>1, <1>2

-----------------------------------------------------------------------------
(* The theorems. *)

\* What the invariant says of the size of the chunks' numbers.
LEMMA SourceBounded ==
  ASSUME NEW s, NEW d, NEW q, NEW n, Flow(s, d, q, n), MaxChunks \in Nat
  PROVE  s \in ReadableStreams(Chunks) /\ q.passed \in Seq(Chunks) /\ Len(q.passed) <= MaxChunks
<1>1. ReadableType(s) /\ Order(s, q, n) /\ n \in Nat /\ n <= MaxChunks /\ q.passed \in Seq(Numbers)
  BY PipeFields DEF Flow, ReadableInv
<1>2. s.queue \in Seq(Numbers) /\ s.reads \in Seq(Outcomes) BY <1>1, ReadableFields
<1>3. Len(q.passed) \in Nat /\ Len(s.queue) \in Nat BY <1>1, <1>2
<1>4. Len(q.passed) + Len(s.queue) <= n BY Zenon, <1>1 DEF Order
<1>5. Len(q.passed) <= n /\ Len(s.queue) <= n
  <2>1. \A a, b, c \in Nat : a + b <= c => a <= c /\ b <= c OBVIOUS
  <2> QED BY Zenon, <1>1, <1>3, <1>4, <2>1
<1>6. Len(q.passed) <= MaxChunks BY <1>1, <1>3, <1>5
<1>7. s.queue \in Seq(Chunks)
  <2>1. ASSUME NEW i \in 1..Len(s.queue) PROVE s.queue[i] \in Chunks
    <3>1. i \in Nat /\ i > 0 /\ i <= Len(s.queue) BY <1>3
    <3>2. s.queue[i] = Len(q.passed) + i BY <1>1 DEF Order
    <3>3. Len(q.passed) + i <= n
      <4>1. \A a, b, c \in Nat : b <= c => a + b <= a + c OBVIOUS
      <4>2. \A a, b, c \in Nat : a <= b /\ b <= c => a <= c OBVIOUS
      <4>3. Len(q.passed) + i <= Len(q.passed) + Len(s.queue) BY Zenon, <1>3, <3>1, <4>1
      <4>4. Len(q.passed) + i \in Nat /\ Len(q.passed) + Len(s.queue) \in Nat
        <5>1. \A a, b \in Nat : a + b \in Nat OBVIOUS
        <5> QED BY Zenon, <1>3, <3>1, <5>1
      <4> QED BY Zenon, <1>1, <1>4, <4>2, <4>3, <4>4
    <3> QED BY <1>1, <1>3, <3>1, <3>2, <3>3 DEF Chunks
  <2>2. ElementsIn(s.queue, Chunks) BY <2>1 DEF ElementsIn
  <2>3. s.queue \in Seq(Numbers) BY <1>2
  <2> QED BY Zenon, <2>2, <2>3, SeqTyped
<1>8. s.reads \in Seq(Chunks \cup {Pending, Done, Failed})
  <2>1. ASSUME NEW i \in 1..Len(s.reads) PROVE s.reads[i] \in Chunks \cup {Pending, Done, Failed}
    <3>1. s.reads[i] \in Outcomes BY <1>2
    <3>2. s.reads[i] <= n BY <1>1 DEF Order
    <3> QED BY <1>1, <3>1, <3>2 DEF Outcomes, Numbers, Chunks
  <2>2. ElementsIn(s.reads, Chunks \cup {Pending, Done, Failed}) BY <2>1 DEF ElementsIn
  <2>3. s.reads \in Seq(Outcomes) BY <1>2
  <2> QED BY Zenon, <2>2, <2>3, SeqTyped
<1>9. q.passed \in Seq(Chunks)
  <2>1. ASSUME NEW i \in 1..Len(q.passed) PROVE q.passed[i] \in Chunks
    <3>1. q.passed[i] = i BY <1>1 DEF Order
    <3> QED BY <1>3, <1>6, <3>1 DEF Chunks
  <2>2. ElementsIn(q.passed, Chunks) BY <2>1 DEF ElementsIn
  <2>3. q.passed \in Seq(Numbers) BY <1>1
  <2> QED BY Zenon, <2>2, <2>3, SeqTyped
<1>10. s \in ReadableStreams(Chunks) BY <1>1, <1>7, <1>8 DEF ReadableType, ReadableStreams
<1> QED BY <1>6, <1>9, <1>10

\* The invariant implies the properties.
LEMMA PipeInvImplies ==
  PipeInv => TypeOK /\ NoAssertFails /\ PipedInOrder /\ NothingLeftOpen /\ ResolvedDelivers
<1> SUFFICES ASSUME PipeInv
             PROVE  TypeOK /\ NoAssertFails /\ PipedInOrder /\ NothingLeftOpen /\ ResolvedDelivers
  OBVIOUS
<1>1. /\ Flow(source, dest, pipe, enqueued) /\ Steady(source, dest, pipe)
      /\ ReadableInv(source) /\ WritableInv(dest) /\ pipe \in PipeRecords
      /\ enqueued \in Nat /\ enqueued <= MaxChunks /\ Order(source, pipe, enqueued)
      /\ Count(dest, pipe) /\ Locked(source, dest, pipe)
  BY DEF PipeInv, After, Before, Flow
<1>2. MaxChunks \in Nat BY PipeAssumption
<1>3. /\ source \in ReadableStreams(Chunks) /\ pipe.passed \in Seq(Chunks)
      /\ Len(pipe.passed) <= MaxChunks
  BY <1>1, <1>2, SourceBounded
<1>4. Len(pipe.passed) \in Nat BY <1>3
<1>5. TypeOK
  <2>1. dest \in WritableStreams(Chunks) BY <1>1, <1>2, <1>3, WritableBounded DEF Count, Chunks
  <2>2. pipe.currentWrite \in Chunks \cup {0} /\ pipe.waitFor \in Chunks \cup {0}
    <3>1. /\ pipe.currentWrite = Len(pipe.passed) /\ pipe.waitFor <= pipe.currentWrite
          /\ pipe.waitFor \in Nat
      BY <1>1, PipeFields DEF Count
    <3> QED BY <1>2, <1>3, <1>4, <3>1 DEF Chunks
  <2>3. pipe \in Pipes BY <1>1, <1>3, <2>2 DEF PipeRecords, Pipes
  <2>4. enqueued \in 0..MaxChunks BY <1>1, <1>2
  <2> QED BY <1>1, <1>3, <2>1, <2>3, <2>4 DEF TypeOK, Count
<1>6. NoAssertFails
  BY <1>1 DEF NoAssertFails, ReadableInv, SourceInv, WritableInv, ErrorInv, SinkInv
<1>7. PipedInOrder
  <2>1. ASSUME NEW S, NEW t \in Seq(S), \A i \in 1..Len(t) : t[i] = i
        PROVE  t = [i \in 1..Len(t) |-> i]
    BY <2>1
  <2>2. \A i \in 1..Len(pipe.passed) : pipe.passed[i] = i BY <1>1 DEF Order
  <2>3. dest.sunk \in Seq(Numbers) BY <1>1, WritableFields DEF WritableInv, ErrorInv
  <2>4. \A i \in 1..Len(dest.sunk) : dest.sunk[i] = i
    BY <1>1 DEF WritableInv, ErrorInv, OrderInv
  <2> QED BY <1>3, <2>1, <2>2, <2>3, <2>4 DEF PipedInOrder
<1>8. NothingLeftOpen
  BY <1>1 DEF Steady, Phases, Acted, Locked, Closing, NothingLeftOpen
<1>9. ResolvedDelivers
  <2> SUFFICES ASSUME pipe.result = "resolved", source.cancel = "none"
               PROVE  /\ Len(pipe.passed) = enqueued
                      /\ ~pipe.preventClose /\ enqueued > 0 =>
                           /\ dest.state = "closed"
                           /\ \A i \in DOMAIN dest.writes : dest.writes[i] = "resolved"
    BY DEF ResolvedDelivers
  <2>1. pipe.shutdown = "done" /\ ~pipe.isError BY <1>1 DEF Steady, Phases, Delivery
  <2>2. source.state = "closed" BY <1>1, <2>1 DEF Steady, Cause
  <2>3. Len(pipe.passed) = enqueued
    <3>1. Len(pipe.passed) + Len(source.queue) = enqueued
      BY Zenon, <1>1, <2>2 DEF Order, Whole
    <3>2. source.queue = <<>> BY <1>1, <2>2 DEF ReadableInv, SourceInv
    <3>3. Len(source.queue) = 0 BY <3>2
    <3>4. Len(pipe.passed) + 0 = enqueued BY Zenon, <3>1, <3>3
    <3> QED BY <1>4, <3>4
  <2>4. ASSUME ~pipe.preventClose, enqueued > 0
        PROVE  dest.state = "closed" /\ \A i \in DOMAIN dest.writes : dest.writes[i] = "resolved"
    <3>1. pipe.passed # <<>> BY <2>3, <2>4
    <3>2. dest.close = "resolved" BY <1>1, <2>4, <3>1 DEF Steady, Delivery
    <3>3. /\ dest.state = "closed" /\ dest.writeRequests = <<>>
          /\ \A i \in 1..Len(dest.sunk) : dest.writes[i] = "resolved"
      BY <1>1, <3>2 DEF WritableInv, ErrorInv, DeliveredInv
    <3>4. Prompt(dest) BY <1>1, <2>1 DEF Steady, Delivery
    <3>5. Len(dest.sunk) + Len(dest.writeRequests) = Len(dest.writes)
      BY Zenon, <3>3, <3>4 DEF Prompt
    <3>6. dest.sunk \in Seq(Numbers) /\ dest.writes \in Seq(Promises)
      BY <1>1, WritableFields DEF WritableInv, ErrorInv
    <3>7. Len(dest.writeRequests) = 0 BY <3>3
    <3>8. Len(dest.sunk) + 0 = Len(dest.writes) BY Zenon, <3>5, <3>7
    <3>9. DOMAIN dest.writes = 1..Len(dest.sunk) BY <3>6, <3>8
    <3> QED BY <3>3, <3>9
  <2> QED BY <2>3, <2>4
<1> QED BY <1>5, <1>6, <1>7, <1>8, <1>9

\* The state has its type, every chunk passed on is a write of the destination, and
\* waitForWritesToFinish() waits for a write that has been made.
THEOREM PipeTypeOK == Spec => []TypeOK
BY InitPipe, NextPipe, PipeInvImplies, PTL DEF Spec

\* No assert() of the stream code that the pipe runs fails, however the ends of the
\* streams, the signal, the writes in flight and the shutdown meet.
THEOREM PipeAsserts == Spec => []NoAssertFails
BY InitPipe, NextPipe, PipeInvImplies, PTL DEF Spec

\* The sink is given the chunks of the source in their order, each once, none skipped.
THEOREM PipeOrder == Spec => []PipedInOrder
BY InitPipe, NextPipe, PipeInvImplies, PTL DEF Spec

\* readableStreamPipeTo() has released both locks when its promise is settled, and left
\* neither stream open unless an option says so.
THEOREM PipeClosed == Spec => []NothingLeftOpen
BY InitPipe, NextPipe, PipeInvImplies, PTL DEF Spec

\* readableStreamPipeTo() resolves only when every chunk was handed over, and, unless
\* preventClose, taken by the sink and followed by its close.
THEOREM PipeDelivers == Spec => []ResolvedDelivers
BY InitPipe, NextPipe, PipeInvImplies, PTL DEF Spec
=============================================================================
