-------------------------- MODULE ByteStreamProofs ---------------------------
(***************************************************************************)
(* Proofs about ByteStream.                                                *)
(*                                                                         *)
(* The heart of the invariant is LineTo: what the reads received, what the *)
(* first pull-into descriptor holds and what is queued are, one after the  *)
(* other, the bytes of the source.  A call of the stream is several of its *)
(* operators one after the other, and between them the queue, descriptors  *)
(* and requests disagree.  Core is what holds then; BetweenCalls is added  *)
(* when the call is over.  Three of the operators are loops: Turns has the *)
(* stream after each turn, and SetInduction the fact about all of them.    *)
(* Resting is a stream before a call and Call what a call may do to it;    *)
(* CallKeeps and FailureKeeps lead from there to the invariant IInv.       *)
(***************************************************************************)
EXTENDS ByteStream, StreamProofs, SequenceTheorems, WellFoundedInduction

-----------------------------------------------------------------------------
(* Bytes in order. *)

\* Bytes a + 1, a + 2, ... up to b.
Run(bytes, a, b) ==
  bytes \in Seq(Nat) /\ b = a + Len(bytes) /\ \A j \in 1..Len(bytes) : bytes[j] = a + j

\* The entries of a sequence of buffers are, one after the other, the bytes a + 1 up to
\* b; o[i] is the last byte of the first i entries.
Marks(q, a, b, o) ==
  /\ q \in Seq(Seq(Nat)) /\ o \in [0..Len(q) -> Nat] /\ o[0] = a /\ o[Len(q)] = b
  /\ \A i, j \in 0..Len(q) : i <= j => o[i] <= o[j]
  /\ \A i \in 1..Len(q) : Run(q[i], o[i - 1], o[i])
Consecutive(q, a, b) == \E o : Marks(q, a, b, o)

-----------------------------------------------------------------------------
(* The invariant. *)

Descriptors ==
  [bytes : Seq(Nat), byteLength : Numbers, minimumFill : Numbers, elementSize : Numbers,
   readerType : {"default", "byob", "none"}, detached : BOOLEAN]

FieldNames ==
  {"state", "start", "hwm", "queue", "closeRequested", "pull", "pullAgain", "algorithms",
   "reader", "closed", "readRequests", "reads", "cancel", "failed", "byob",
   "autoAllocateChunkSize", "pendingPullIntos", "byobRequest", "readIntoRequests", "got"}

\* The types of the fields.
Fields(s) ==
  /\ FieldNames \subseteq DOMAIN s
  /\ s.state \in {"readable", "closed", "errored"}
  /\ s.start \in {"pending", "resolved", "rejected"} /\ s.hwm \in Nat
  /\ s.queue \in Seq(Seq(Nat) \ {<<>>}) /\ s.closeRequested \in BOOLEAN
  /\ s.pull \in {"idle", "pending", "rejected"} /\ s.pullAgain \in BOOLEAN
  /\ s.algorithms \in BOOLEAN /\ s.reader \in BOOLEAN /\ s.failed \in BOOLEAN
  /\ s.readRequests \in Seq(Nat) /\ s.readIntoRequests \in Seq(Nat)
  /\ s.reads \in Seq(Int) /\ s.got \in Seq(Seq(Nat)) /\ Len(s.got) = Len(s.reads)
  /\ s.byob \in BOOLEAN /\ s.autoAllocateChunkSize \in Nat
  /\ s.pendingPullIntos \in Seq(Descriptors) /\ s.byobRequest \in BOOLEAN

ControllerInv(s) ==
  /\ s.state = "readable" => s.algorithms /\ s.pull # "rejected"
  /\ s.state # "readable" => s.queue = <<>>
  /\ s.state = "errored" => s.pendingPullIntos = <<>>
  /\ s.start # "resolved" => s.pull = "idle"
  /\ s.pull = "idle" => ~s.pullAgain

WellMade(d) ==
  /\ Len(d.bytes) < d.minimumFill /\ d.minimumFill <= d.byteLength
  /\ d.minimumFill % d.elementSize = 0
  /\ d.readerType = "default" => d.elementSize = 1 /\ d.minimumFill = 1

NoneHead(s) ==
  IF s.pendingPullIntos = <<>> THEN 0
  ELSE IF s.pendingPullIntos[1].readerType = "none" THEN 1 ELSE 0

DescriptorInv(s) ==
  /\ s.byobRequest => s.pendingPullIntos # <<>>
  /\ \A i \in 1..Len(s.pendingPullIntos) :
       LET d == s.pendingPullIntos[i] IN
       /\ WellMade(d)
       /\ d.readerType = "default" => s.reader /\ ~s.byob
       /\ d.readerType = "byob" => s.reader /\ s.byob
       /\ i > 1 => d.readerType # "none" /\ d.bytes = <<>> /\ ~d.detached
  /\ s.reader /\ s.byob => Len(s.readIntoRequests) = Len(s.pendingPullIntos) - NoneHead(s)

\* Requests wait in the order of the reads, and none of the reads behind them has
\* received a byte.
Queued(requests, got) ==
  /\ \A i \in 1..Len(requests) : requests[i] \in 1..Len(got)
  /\ \A i, j \in 1..Len(requests) : i < j => requests[i] < requests[j]
  /\ \A i \in 1..Len(requests) : \A j \in requests[i]..Len(got) : got[j] = <<>>

RequestInv(s, a) ==
  /\ s.readRequests # <<>> => s.state = "readable" /\ s.reader /\ ~s.byob
  /\ s.readIntoRequests # <<>> => s.reader /\ s.byob
  /\ Queued(s.readRequests, s.got) /\ Queued(s.readIntoRequests, s.got)
  /\ \A i \in 1..Len(s.readRequests) :
       a[s.readRequests[i]].elementSize = 1 /\ a[s.readRequests[i]].minimumFill = 1
  /\ \A i \in 1..Len(s.readIntoRequests) :
       LET view == a[s.readIntoRequests[i]]
           d == s.pendingPullIntos[i + NoneHead(s)]
       IN view.elementSize = d.elementSize /\ view.minimumFill = d.minimumFill

\* What the reads have received.
Asks == [byteLength : Numbers, minimumFill : Numbers, elementSize : Numbers]
AnswerInv(s, a) ==
  /\ a \in Seq(Asks) /\ Len(s.got) = Len(a)
  /\ \A i \in 1..Len(a) :
       /\ Len(s.got[i]) % a[i].elementSize = 0
       /\ s.reads[i] = Filled => Len(s.got[i]) >= a[i].minimumFill

HeadBytes(s) == IF s.pendingPullIntos = <<>> THEN <<>> ELSE s.pendingPullIntos[1].bytes

\* The reads, the descriptor under way and the queue hold the first q bytes.
LineTo(s, q) ==
  \E g \in Nat, h \in Nat :
    /\ Consecutive(s.got, 0, g) /\ Run(HeadBytes(s), g, h)
    /\ Consecutive(s.queue, h, q)

Parts(s, a) ==
  Fields(s) /\ ControllerInv(s) /\ DescriptorInv(s) /\ RequestInv(s, a) /\ AnswerInv(s, a)
Core(s, a, q) == Parts(s, a) /\ LineTo(s, q)

\* Only the fields F of the stream differ.
Differ(s, t, F) ==
  /\ FieldNames \subseteq DOMAIN s /\ FieldNames \subseteq DOMAIN t
  /\ \A f \in FieldNames \ F : t[f] = s[f]

\* Between two calls.
BetweenCalls(s) ==
  /\ s.queue = <<>> \/ s.pendingPullIntos = <<>>
  /\ s.state = "readable" /\ s.closeRequested => s.queue # <<>>
  /\ s.state = "closed" /\ s.pendingPullIntos # <<>> =>
       Len(s.pendingPullIntos[1].bytes) % s.pendingPullIntos[1].elementSize = 0

DefaultOnly(s) ==
  /\ \A i \in 1..Len(s.pendingPullIntos) :
       s.pendingPullIntos[i].elementSize = 1 /\ s.pendingPullIntos[i].minimumFill = 1
  /\ s.state = "readable" =>
       /\ IF s.autoAllocateChunkSize = 0 THEN s.pendingPullIntos = <<>>
          ELSE Len(s.readRequests) = Len(s.pendingPullIntos) - NoneHead(s)
       /\ s.readRequests # <<>> => s.queue = <<>>

Whole(s, r) ==
  \/ s.state = "readable"
  \/ s.state = "closed" /\ s.cancel = "none" /\ Len(r) <= 1 /\ (s.reader \/ r = <<>>)

HistoryInv(s, p, r) ==
  /\ p \in 0..MaxBytes
  /\ r \in Seq({"default", "byob"})
  /\ s.reader => r # <<>> /\ s.byob = (r[Len(r)] = "byob")
  /\ NoneHead(s) = 1 => Len(r) >= (IF s.reader THEN 2 ELSE 1)
  /\ \E q \in Nat : q <= p /\ LineTo(s, q) /\ (Whole(s, r) => q = p)
  /\ (\A i \in 1..Len(r) : r[i] = "default") => DefaultOnly(s)
  /\ s.failed => s.reader /\ ~s.byob /\ ~DefaultOnly(s)

\* The invariant of a stream with its history: the reads, the bytes of the source and the
\* readers.
Sound(s, a, p, r) ==
  /\ \E q \in Nat : Core(s, a, q)
  /\ BetweenCalls(s) /\ HistoryInv(s, p, r)

IInv == Sound(stream, asked, produced, readers) /\ Len(asked) <= MaxReads

-----------------------------------------------------------------------------
(* Induction, and the loops of the code turn by turn. *)

\* Every set of naturals has a least element.
LEMMA LeastNatural ==
  ASSUME NEW T, T \subseteq Nat, T # {}
  PROVE  \E x \in T : \A y \in T : x <= y
<1>1. PICK x \in T : \A y \in T : ~ (<<y, x>> \in OpToRel(<, Nat))
  BY NatLessThanWellFounded, WFMin
<1>2. \A y \in Nat : y < x => <<y, x>> \in OpToRel(<, Nat)
  BY <1>1 DEF OpToRel
<1>3. \A y \in T : x <= y
  <2> SUFFICES ASSUME NEW y \in T, ~(x <= y) PROVE FALSE OBVIOUS
  <2>1. x \in Nat /\ y \in Nat /\ y < x OBVIOUS
  <2> HIDE DEF OpToRel
  <2> QED BY <2>1, <1>1, <1>2
<1> QED BY <1>1, <1>3

\* Induction, on a set in place of a predicate.
LEMMA SetInduction ==
  ASSUME NEW T, 0 \in T, \A n \in Nat : n \in T => n + 1 \in T
  PROVE  Nat \subseteq T
<1> DEFINE U == {n \in Nat : n \notin T}
<1> SUFFICES ASSUME U # {} PROVE FALSE OBVIOUS
<1>1. PICK x \in U : \A y \in U : x <= y BY LeastNatural
<1>2. x \in Nat /\ x # 0 /\ x - 1 \in Nat OBVIOUS
<1>3. x - 1 \notin U BY <1>1, <1>2
<1>4. x - 1 + 1 \in T BY <1>2, <1>3
<1> QED BY <1>2, <1>4

\* One turn of each of the three loops.
Turn(loop, s) ==
  CASE loop = "reads" -> ProcessReadRequest(s)
    [] loop = "pullIntos" -> ProcessPullInto(s)
    [] loop = "responds" -> RespondToNext(s)

\* f[k] is the stream after k turns.
Turns(f, loop, s, n) ==
  f = [k \in 0..n |-> IF k = 0 THEN s ELSE Turn(loop, f[k - 1])]

\* What the turns of a loop are.
LEMMA TurnByTurn ==
  ASSUME NEW loop, NEW s, NEW n \in Nat, NEW f, Turns(f, loop, s, n)
  PROVE  f[0] = s /\ \A k \in 1..n : f[k] = Turn(loop, f[k - 1])
<1> DEFINE F(j) == IF j = 0 THEN s ELSE Turn(loop, f[j - 1])
<1>1. f = [j \in 0..n |-> F(j)] BY DEF Turns
<1> HIDE DEF F
<1>2. \A k \in 0..n : f[k] = F(k) BY <1>1
<1>3. f[0] = F(0) BY <1>2
<1>4. F(0) = s BY DEF F
<1>5. ASSUME NEW k \in 1..n PROVE f[k] = Turn(loop, f[k - 1])
  <2>1. k \in 0..n /\ k # 0 OBVIOUS
  <2> QED BY <2>1, <1>2 DEF F
<1> QED BY <1>3, <1>4, <1>5

\* The loops are well defined.
LEMMA TurnsExist ==
  ASSUME NEW loop, NEW s, NEW n \in Nat
  PROVE  \E f : Turns(f, loop, s, n)
<1> DEFINE T == {m \in Nat : \E f : Turns(f, loop, s, m)}
<1>1. 0 \in T
  <2> DEFINE f == [k \in 0..0 |-> s]
  <2>1. Turns(f, loop, s, 0) BY DEF Turns
  <2> HIDE DEF f
  <2> QED BY <2>1
<1>2. ASSUME NEW m \in Nat, m \in T PROVE m + 1 \in T
  <2>1. PICK f : Turns(f, loop, s, m) BY <1>2
  <2>2. f[0] = s /\ \A k \in 1..m : f[k] = Turn(loop, f[k - 1]) BY <2>1, TurnByTurn
  <2> DEFINE g == [k \in 0..(m + 1) |-> IF k = m + 1 THEN Turn(loop, f[m]) ELSE f[k]]
  <2>3. ASSUME NEW k \in 0..(m + 1)
        PROVE  g[k] = IF k = 0 THEN s ELSE Turn(loop, g[k - 1])
    <3>1. CASE k = m + 1
      <4>1. k - 1 \in 0..(m + 1) /\ k - 1 # m + 1 /\ k - 1 = m /\ k # 0 BY <3>1
      <4>2. g[k] = Turn(loop, f[m]) BY <3>1
      <4>3. g[k - 1] = f[m] BY <4>1
      <4> QED BY <4>1, <4>2, <4>3
    <3>2. CASE k # m + 1
      <4>1. k = 0 \/ k \in 1..m BY <3>2
      <4>2. g[k] = f[k] BY <3>2
      <4>3. k # 0 => k - 1 \in 0..(m + 1) /\ k - 1 # m + 1 BY <4>1
      <4>4. k # 0 => g[k - 1] = f[k - 1] BY <4>3
      <4> QED BY <2>2, <4>1, <4>2, <4>4
    <3> QED BY <3>1, <3>2
  <2>4. g = [k \in 0..(m + 1) |-> g[k]] OBVIOUS
  <2> HIDE DEF g
  <2>5. Turns(g, loop, s, m + 1) BY <2>3, <2>4 DEF Turns
  <2> QED BY <2>5
<1> HIDE DEF T
<1>3. n \in T BY <1>1, <1>2, SetInduction
<1> QED BY <1>3 DEF T

\* A loop takes its turns.
LEMMA LoopReads ==
  ASSUME NEW s, Len(s.readRequests) \in Nat
  PROVE  \E f : /\ Turns(f, "reads", s, Len(s.readRequests))
                /\ readableByteStreamControllerProcessReadRequestsUsingQueue(s)
                     = f[Len(s.readRequests)]
<1> DEFINE n == Len(s.readRequests)
           f == CHOOSE g : g = [k \in 0..n |-> IF k = 0 THEN s ELSE ProcessReadRequest(g[k - 1])]
<1>1. readableByteStreamControllerProcessReadRequestsUsingQueue(s) = f[n]
  BY DEF readableByteStreamControllerProcessReadRequestsUsingQueue
<1>2. \A g : Turns(g, "reads", s, n) <=>
               g = [k \in 0..n |-> IF k = 0 THEN s ELSE ProcessReadRequest(g[k - 1])]
  BY DEF Turns, Turn
<1>3. PICK h : Turns(h, "reads", s, n) BY TurnsExist
<1> HIDE DEF n
<1>4. Turns(f, "reads", s, n) BY <1>2, <1>3
<1> HIDE DEF f
<1>5. n = Len(s.readRequests) BY DEF n
<1> QED BY <1>1, <1>4, <1>5

\* A loop takes its turns.
LEMMA LoopPullIntos ==
  ASSUME NEW s, Len(s.pendingPullIntos) \in Nat
  PROVE  \E f : /\ Turns(f, "pullIntos", Asserting(s, ~s.closeRequested),
                         Len(s.pendingPullIntos))
                /\ readableByteStreamControllerProcessPullIntoDescriptorsUsingQueue(s)
                     = f[Len(s.pendingPullIntos)]
<1> DEFINE n == Len(s.pendingPullIntos)
           b == Asserting(s, ~s.closeRequested)
           f == CHOOSE g : g = [k \in 0..n |-> IF k = 0 THEN b ELSE ProcessPullInto(g[k - 1])]
<1>1. readableByteStreamControllerProcessPullIntoDescriptorsUsingQueue(s) = f[n]
  BY DEF readableByteStreamControllerProcessPullIntoDescriptorsUsingQueue
<1> HIDE DEF b
<1>2. \A g : Turns(g, "pullIntos", b, n) <=>
               g = [k \in 0..n |-> IF k = 0 THEN b ELSE ProcessPullInto(g[k - 1])]
  BY DEF Turns, Turn
<1>3. PICK h : Turns(h, "pullIntos", b, n) BY TurnsExist
<1> HIDE DEF n
<1>4. Turns(f, "pullIntos", b, n) BY <1>2, <1>3
<1> HIDE DEF f
<1>5. n = Len(s.pendingPullIntos) /\ b = Asserting(s, ~s.closeRequested) BY DEF n, b
<1> QED BY <1>1, <1>4, <1>5

\* A loop takes its turns.
LEMMA LoopResponds ==
  ASSUME NEW s, NEW u,
         u = LET d == Head(s.pendingPullIntos)
                 v == Asserting(s, Len(d.bytes) % d.elementSize = 0)
             IN IF d.readerType = "none"
                  THEN readableByteStreamControllerShiftPendingPullInto(v) ELSE v,
         Len(u.readIntoRequests) \in Nat
  PROVE  \E f : /\ Turns(f, "responds", u, Len(u.readIntoRequests))
                /\ readableByteStreamControllerRespondInClosedState(s)
                     = f[Len(u.readIntoRequests)]
<1> DEFINE n == Len(u.readIntoRequests)
           f == CHOOSE g : g = [k \in 0..n |-> IF k = 0 THEN u ELSE RespondToNext(g[k - 1])]
<1>1. readableByteStreamControllerRespondInClosedState(s) = f[n]
  BY DEF readableByteStreamControllerRespondInClosedState
<1>2. \A g : Turns(g, "responds", u, n) <=>
               g = [k \in 0..n |-> IF k = 0 THEN u ELSE RespondToNext(g[k - 1])]
  BY DEF Turns, Turn
<1>3. PICK h : Turns(h, "responds", u, n) BY TurnsExist
<1> HIDE DEF n
<1>4. Turns(f, "responds", u, n) BY <1>2, <1>3
<1> HIDE DEF f
<1>5. n = Len(u.readIntoRequests) BY DEF n
<1> QED BY <1>1, <1>4, <1>5

-----------------------------------------------------------------------------
(* What the operators on sequences do to bytes in order. *)

\* The empty run, and the bytes of the source as a run.
LEMMA RunFacts ==
  /\ \A a \in Nat : Run(<<>>, a, a)
  /\ \A x, a, b : a \in Nat /\ Run(x, a, b) => b = a + Len(x) /\ b \in Nat /\ Len(x) \in Nat
  /\ \A a \in Nat, n \in Nat : Run([i \in 1..n |-> a + i], a, a + n)
<1>1. \A a \in Nat : Run(<<>>, a, a) BY DEF Run
<1>2. ASSUME NEW x, NEW a \in Nat, NEW b, Run(x, a, b)
      PROVE  b = a + Len(x) /\ b \in Nat /\ Len(x) \in Nat
  BY <1>2 DEF Run
<1>3. ASSUME NEW a \in Nat, NEW n \in Nat
      PROVE  Run([i \in 1..n |-> a + i], a, a + n)
  BY DEF Run
<1> QED BY <1>1, <1>2, <1>3

\* Runs that follow each other are one.
LEMMA RunConcat ==
  ASSUME NEW x, NEW y, NEW a \in Nat, NEW b, NEW c, Run(x, a, b), Run(y, b, c)
  PROVE  Run(x \o y, a, c) /\ Len(x \o y) = Len(x) + Len(y) /\ x \o y \in Seq(Nat)
<1>1. x \in Seq(Nat) /\ y \in Seq(Nat) /\ Len(x) \in Nat /\ Len(y) \in Nat
      /\ b = a + Len(x) /\ c = b + Len(y)
  BY DEF Run
<1>2. x \o y \in Seq(Nat) /\ Len(x \o y) = Len(x) + Len(y) BY <1>1
<1>3. ASSUME NEW j \in 1..(Len(x) + Len(y)) PROVE (x \o y)[j] = a + j
  <2>1. CASE j <= Len(x)
    <3>1. (x \o y)[j] = x[j] BY <1>1, <2>1
    <3>2. x[j] = a + j BY <1>1, <2>1 DEF Run
    <3> QED BY <3>1, <3>2
  <2>2. CASE j > Len(x)
    <3>1. (x \o y)[j] = y[j - Len(x)] BY <1>1, <2>2
    <3>2. j - Len(x) \in 1..Len(y) BY <1>1, <2>2
    <3>3. y[j - Len(x)] = b + (j - Len(x)) BY <3>2 DEF Run
    <3> QED BY <3>1, <3>3, <1>1
  <2> QED BY <1>1, <2>1, <2>2
<1>4. c = a + (Len(x) + Len(y)) BY <1>1
<1> QED BY <1>1, <1>2, <1>3, <1>4 DEF Run

\* A part of a run is one.
LEMMA RunSubSeq ==
  ASSUME NEW x, NEW a \in Nat, NEW b, Run(x, a, b), NEW m \in 1..(Len(x) + 1),
         NEW n \in (m - 1)..Len(x)
  PROVE  Run(SubSeq(x, m, n), a + m - 1, a + n) /\ Len(SubSeq(x, m, n)) = n - m + 1
<1>1. x \in Seq(Nat) /\ Len(x) \in Nat /\ b = a + Len(x) BY DEF Run
<1>2. SubSeq(x, m, n) \in Seq(Nat) /\ Len(SubSeq(x, m, n)) = n - m + 1 BY <1>1
<1>3. ASSUME NEW j \in 1..(n - m + 1) PROVE SubSeq(x, m, n)[j] = (a + m - 1) + j
  <2>1. m \in Int /\ n \in Int /\ \A i \in m..n : x[i] \in Nat BY <1>1
  <2>2. SubSeq(x, m, n)[j] = x[m + j - 1] BY <2>1, SubSeqProperties
  <2>3. m + j - 1 \in 1..Len(x) BY <1>1
  <2>4. x[m + j - 1] = a + (m + j - 1) BY <2>3 DEF Run
  <2> QED BY <2>2, <2>4, <1>1
<1>4. a + n = (a + m - 1) + (n - m + 1) BY <1>1
<1> QED BY <1>1, <1>2, <1>3, <1>4 DEF Run

\* Entries that follow each other are, one after the other, a run.
LEMMA FlattenMarks ==
  ASSUME NEW q, NEW a, NEW b, NEW o, Marks(q, a, b, o)
  PROVE  /\ a \in Nat /\ b \in Nat /\ a <= b
         /\ FlattenSeq(q) = [i \in 1..(b - a) |-> a + i]
         /\ Len(FlattenSeq(q)) = b - a /\ Run(FlattenSeq(q), a, b)
<1> DEFINE n == Len(q)
<1>1. q \in Seq(Seq(Nat)) /\ n \in Nat /\ o[0] = a /\ o[n] = b /\ a \in Nat /\ b \in Nat /\ a <= b
      /\ \A i \in 0..n : o[i] \in Nat /\ a <= o[i]
  <2>1. q \in Seq(Seq(Nat)) /\ n \in Nat /\ o[0] = a /\ o[n] = b /\ o \in [0..n -> Nat]
    BY DEF Marks
  <2>2. 0 \in 0..n /\ n \in 0..n BY <2>1
  <2>3. \A i \in 0..n : 0 <= i => o[0] <= o[i] BY <2>2 DEF Marks
  <2> HIDE DEF n
  <2> QED BY <2>1, <2>2, <2>3
<1>2. FlattenSeq(q) = [i \in 1..(b - a) |-> a + i]
  <2>1. CASE q = <<>>
    <3>1. n = 0 /\ b = a BY <1>1, <2>1
    <3>2. [i \in 1..(b - a) |-> a + i] = <<>> BY <3>1, <1>1
    <3>3. FlattenSeq(q) = q BY <3>1 DEF FlattenSeq
    <3> QED BY <3>2, <3>3, <2>1
  <2>2. CASE q # <<>>
    <3> DEFINE Eqn(f) == f = [i \in 1..n |-> IF i = 1 THEN q[i] ELSE f[i - 1] \o q[i]]
               G(i) == [j \in 1..(o[i] - a) |-> a + j]
               F == [i \in 1..n |-> G(i)]
               C == CHOOSE f : Eqn(f)
    <3>1. n # 0 BY <1>1, <2>2
    <3>2. FlattenSeq(q) = C[n] BY <3>1 DEF FlattenSeq
    <3>3. \A i \in 0..n : Run(G(i), a, o[i])
      <4> TAKE i \in 0..n
      <4>1. o[i] - a \in Nat /\ o[i] = a + (o[i] - a) BY <1>1
      <4> QED BY <4>1, <1>1, RunFacts
    <3>4. ASSUME NEW i \in 1..n PROVE G(i) = G(i - 1) \o q[i]
      <4>1. i - 1 \in 0..n /\ i \in 0..n BY <1>1
      <4>2. Run(q[i], o[i - 1], o[i]) BY DEF Marks
      <4>3. Run(G(i - 1), a, o[i - 1]) BY <4>1, <3>3
      <4>4. Run(G(i), a, o[i]) BY <4>1, <3>3
      <4> HIDE DEF G
      <4>5. Run(G(i - 1) \o q[i], a, o[i]) BY <4>2, <4>3, <1>1, RunConcat
      <4>6. \A x, y : Run(x, a, o[i]) /\ Run(y, a, o[i]) => x = y
        <5> SUFFICES ASSUME NEW x, NEW y, Run(x, a, o[i]), Run(y, a, o[i]) PROVE x = y
          OBVIOUS
        <5>1. x \in Seq(Nat) /\ y \in Seq(Nat) /\ o[i] = a + Len(x) /\ o[i] = a + Len(y)
              /\ Len(x) \in Nat /\ Len(y) \in Nat
          BY DEF Run
        <5>2. Len(x) = Len(y) BY <5>1, <1>1
        <5>3. \A j \in 1..Len(x) : x[j] = y[j] BY <5>2 DEF Run
        <5>4. x = [j \in 1..Len(x) |-> x[j]] /\ y = [j \in 1..Len(y) |-> y[j]] BY <5>1
        <5> QED BY <5>2, <5>3, <5>4
      <4> QED BY <4>4, <4>5, <4>6
    <3>5. G(0) \o q[1] = q[1]
      <4>1. G(0) = <<>> BY <1>1
      <4>2. q[1] \in Seq(Nat) BY <3>1, <1>1
      <4>3. \A x \in Seq(Nat) : <<>> \o x = x
        <5> TAKE x \in Seq(Nat)
        <5>1. <<>> \o x \in Seq(Nat) /\ Len(<<>> \o x) = Len(x)
              /\ \A j \in 1..Len(x) : (<<>> \o x)[j] = x[j]
          OBVIOUS
        <5>2. x = [j \in 1..Len(x) |-> x[j]]
              /\ <<>> \o x = [j \in 1..Len(<<>> \o x) |-> (<<>> \o x)[j]]
          BY <5>1
        <5> QED BY <5>1, <5>2
      <4> QED BY <4>1, <4>2, <4>3
    <3> HIDE DEF G
    <3>6. Eqn(F)
      <4>1. ASSUME NEW i \in 1..n
            PROVE  F[i] = IF i = 1 THEN q[i] ELSE F[i - 1] \o q[i]
        <5>1. F[i] = G(i - 1) \o q[i] BY <3>4
        <5>2. CASE i = 1
          <6>1. i - 1 = 0 BY <5>2
          <6> QED BY <5>1, <3>5, <5>2, <6>1
        <5>3. CASE i # 1
          <6>1. i - 1 \in 1..n BY <5>3, <1>1
          <6>2. F[i - 1] = G(i - 1) BY <6>1
          <6> QED BY <5>1, <6>2, <5>3
        <5> QED BY <5>2, <5>3
      <4>2. F = [i \in 1..n |-> F[i]] OBVIOUS
      <4> HIDE DEF F
      <4> QED BY <4>1, <4>2
    <3>7. Eqn(C)
      <4> HIDE DEF F
      <4> QED BY <3>6
    <3> HIDE DEF C
    <3>8. ASSUME NEW i \in 1..n PROVE C[i] = IF i = 1 THEN q[i] ELSE C[i - 1] \o q[i]
      <4> DEFINE H(k) == IF k = 1 THEN q[k] ELSE C[k - 1] \o q[k]
      <4>1. C = [k \in 1..n |-> H(k)] BY <3>7
      <4> HIDE DEF H
      <4>2. C[i] = H(i) BY <4>1
      <4> QED BY <4>2 DEF H
    <3> DEFINE T == {k \in Nat : k < n => C[k + 1] = G(k + 1)}
    <3>9. 0 \in T
      <4>1. 1 \in 1..n /\ 1 - 1 = 0 BY <3>1, <1>1
      <4>2. C[1] = q[1] BY <4>1, <3>8
      <4>3. G(1) = q[1] BY <4>1, <3>4, <3>5
      <4> QED BY <4>2, <4>3
    <3>10. ASSUME NEW k \in Nat, k \in T PROVE k + 1 \in T
      <4> SUFFICES ASSUME k + 1 < n PROVE C[k + 1 + 1] = G(k + 1 + 1) OBVIOUS
      <4>1. k + 2 \in 1..n /\ k + 2 # 1 /\ (k + 2) - 1 = k + 1 /\ k < n /\ k + 1 + 1 = k + 2
        BY <1>1
      <4>2. C[k + 2] = C[k + 1] \o q[k + 2] BY <4>1, <3>8
      <4>3. G(k + 2) = G(k + 1) \o q[k + 2] BY <4>1, <3>4
      <4>4. C[k + 1] = G(k + 1) BY <3>10, <4>1
      <4> QED BY <4>1, <4>2, <4>3, <4>4
    <3>11. C[n] = G(n)
      <4> HIDE DEF T
      <4>1. Nat \subseteq T BY <3>9, <3>10, SetInduction
      <4>2. n - 1 \in T BY <4>1, <3>1, <1>1
      <4> QED BY <4>2, <3>1, <1>1 DEF T
    <3> QED BY <3>2, <3>11, <1>1 DEF G
  <2> QED BY <2>1, <2>2
<1>3. b - a \in Nat /\ b = a + (b - a) BY <1>1
<1>4. Run([i \in 1..(b - a) |-> a + i], a, b) BY <1>1, <1>3, RunFacts
<1>5. Len([i \in 1..(b - a) |-> a + i]) = b - a BY <1>3
<1> QED BY <1>1, <1>2, <1>4, <1>5

\* The ends of a line of entries.
LEMMA Ends ==
  ASSUME NEW q, NEW a, NEW b, Consecutive(q, a, b)
  PROVE  /\ a \in Nat /\ b \in Nat /\ a <= b /\ q \in Seq(Seq(Nat))
         /\ FlattenSeq(q) = [i \in 1..(b - a) |-> a + i]
         /\ Len(FlattenSeq(q)) = b - a /\ Run(FlattenSeq(q), a, b)
<1>1. PICK o : Marks(q, a, b, o) BY DEF Consecutive
<1>2. q \in Seq(Seq(Nat)) BY <1>1 DEF Marks
<1> QED BY <1>1, <1>2, FlattenMarks

\* No entry holds no byte.
LEMMA EmptyLine ==
  /\ \A a \in Nat : Consecutive(<<>>, a, a)
  /\ \A a, b : Consecutive(<<>>, a, b) => a = b /\ a \in Nat
<1>1. ASSUME NEW a \in Nat PROVE Consecutive(<<>>, a, a)
  <2> DEFINE o == [i \in 0..0 |-> a]
  <2>1. Len(<<>>) = 0 OBVIOUS
  <2>2. Marks(<<>>, a, a, o) BY <2>1 DEF Marks
  <2> HIDE DEF o
  <2> QED BY <2>2 DEF Consecutive
<1>2. ASSUME NEW a, NEW b, Consecutive(<<>>, a, b) PROVE a = b /\ a \in Nat
  <2>1. PICK o : Marks(<<>>, a, b, o) BY <1>2 DEF Consecutive
  <2> QED BY <2>1 DEF Marks
<1> QED BY <1>1, <1>2

\* An entry more.
LEMMA LineAppend ==
  ASSUME NEW q, NEW a, NEW b, NEW c, NEW x, Consecutive(q, a, b), Run(x, b, c)
  PROVE  Consecutive(Append(q, x), a, c)
<1>1. PICK o : Marks(q, a, b, o) BY DEF Consecutive
<1>2. a \in Nat /\ b \in Nat /\ a <= b /\ q \in Seq(Seq(Nat)) BY Ends
<1> DEFINE n == Len(q)
           p == [i \in 0..(n + 1) |-> IF i = n + 1 THEN c ELSE o[i]]
<1>3. n \in Nat /\ x \in Seq(Nat) /\ c \in Nat /\ b <= c BY <1>2 DEF Run
<1>4. Append(q, x) \in Seq(Seq(Nat)) /\ Len(Append(q, x)) = n + 1
      /\ (\A i \in 1..n : Append(q, x)[i] = q[i]) /\ Append(q, x)[n + 1] = x
  BY <1>2, <1>3, AppendProperties
<1>5. o \in [0..n -> Nat] /\ o[0] = a /\ o[n] = b
      /\ (\A i, j \in 0..n : i <= j => o[i] <= o[j])
      /\ \A i \in 1..n : Run(q[i], o[i - 1], o[i])
  BY <1>1 DEF Marks
<1> HIDE DEF n
<1>6. p \in [0..(n + 1) -> Nat] /\ p[0] = a /\ p[n + 1] = c /\ \A i \in 0..n : p[i] = o[i]
  BY <1>3, <1>5
<1> HIDE DEF p
<1>7. ASSUME NEW i \in 0..(n + 1), NEW j \in 0..(n + 1), i <= j PROVE p[i] <= p[j]
  <2>1. CASE j \in 0..n BY <2>1, <1>3, <1>5, <1>6, <1>7
  <2>2. CASE j = n + 1 /\ i \in 0..n
    <3>1. o[i] <= o[n] BY <2>2, <1>3, <1>5
    <3>2. o[i] \in Nat BY <2>2, <1>5
    <3> QED BY <2>2, <3>1, <3>2, <1>2, <1>3, <1>5, <1>6
  <2>3. CASE j = n + 1 /\ i = n + 1 BY <2>3, <1>3, <1>6
  <2> QED BY <2>1, <2>2, <2>3, <1>3
<1>8. ASSUME NEW i \in 1..(n + 1) PROVE Run(Append(q, x)[i], p[i - 1], p[i])
  <2>1. CASE i \in 1..n
    <3>1. i - 1 \in 0..n /\ i \in 0..n BY <2>1, <1>3
    <3> QED BY <3>1, <2>1, <1>4, <1>5, <1>6
  <2>2. CASE i = n + 1
    <3>1. i - 1 = n /\ n \in 0..n BY <2>2, <1>3
    <3> QED BY <3>1, <2>2, <1>4, <1>5, <1>6
  <2>3. i \in 1..n \/ i = n + 1 BY <1>3
  <2> QED BY <2>1, <2>2, <2>3
<1>9. Marks(Append(q, x), a, c, p) BY <1>4, <1>6, <1>7, <1>8 DEF Marks
<1> QED BY <1>9 DEF Consecutive

\* The first entry, and the others.
LEMMA LineTail ==
  ASSUME NEW q, NEW a, NEW b, Consecutive(q, a, b), q # <<>>
  PROVE  \E m \in Nat : Run(Head(q), a, m) /\ Consecutive(Tail(q), m, b) /\ m <= b
<1>1. PICK o : Marks(q, a, b, o) BY DEF Consecutive
<1>2. a \in Nat /\ b \in Nat /\ a <= b /\ q \in Seq(Seq(Nat)) BY Ends
<1> DEFINE n == Len(q)
           p == [i \in 0..(n - 1) |-> o[i + 1]]
<1>3. n \in Nat /\ n >= 1 /\ Head(q) = q[1] BY <1>2
<1>4. Tail(q) \in Seq(Seq(Nat)) /\ Len(Tail(q)) = n - 1
      /\ (\A i \in 1..(n - 1) : Tail(q)[i] = q[i + 1])
  BY <1>2, HeadTailProperties
<1>5. o \in [0..n -> Nat] /\ o[0] = a /\ o[n] = b
      /\ (\A i, j \in 0..n : i <= j => o[i] <= o[j])
      /\ \A i \in 1..n : Run(q[i], o[i - 1], o[i])
  BY <1>1 DEF Marks
<1> HIDE DEF n
<1>6. p \in [0..(n - 1) -> Nat] /\ p[0] = o[1] /\ p[n - 1] = b
      /\ \A i \in 0..(n - 1) : p[i] = o[i + 1]
  BY <1>3, <1>5
<1> HIDE DEF p
<1>7. \A i, j \in 0..(n - 1) : i <= j => p[i] <= p[j] BY <1>3, <1>5, <1>6
<1>8. ASSUME NEW i \in 1..(n - 1) PROVE Run(Tail(q)[i], p[i - 1], p[i])
  <2>1. i - 1 \in 0..(n - 1) /\ i \in 0..(n - 1) /\ i + 1 \in 1..n /\ (i + 1) - 1 = (i - 1) + 1
    BY <1>3
  <2>2. Run(q[i + 1], o[(i + 1) - 1], o[i + 1]) BY <2>1, <1>5
  <2>3. Tail(q)[i] = q[i + 1] /\ p[i - 1] = o[(i - 1) + 1] /\ p[i] = o[i + 1]
    BY <2>1, <1>4, <1>6
  <2> QED BY <2>1, <2>2, <2>3
<1>9. Marks(Tail(q), o[1], b, p) BY <1>4, <1>6, <1>7, <1>8 DEF Marks
<1>10. 1 \in 0..n /\ n \in 0..n /\ o[1] \in Nat /\ o[1] <= b BY <1>3, <1>5
<1>11. Run(q[1], a, o[1])
  <2>1. 1 \in 1..n /\ 1 - 1 = 0 BY <1>3
  <2> QED BY <2>1, <1>5
<1> QED BY <1>3, <1>9, <1>10, <1>11 DEF Consecutive

\* A read that has received nothing, like all reads behind it, is answered.
LEMMA LineAnswer ==
  ASSUME NEW q, NEW g, NEW h, NEW x, NEW r \in 1..Len(q),
         Consecutive(q, 0, g), \A j \in r..Len(q) : q[j] = <<>>, Run(x, g, h)
  PROVE  Consecutive([q EXCEPT ![r] = x], 0, h)
<1>1. PICK o : Marks(q, 0, g, o) BY DEF Consecutive
<1>2. g \in Nat /\ q \in Seq(Seq(Nat)) BY Ends
<1> DEFINE n == Len(q)
           p == [i \in 0..n |-> IF i < r THEN o[i] ELSE h]
           T == {k \in Nat : (r - 1) + k <= n => o[(r - 1) + k] = o[r - 1]}
<1>3. n \in Nat /\ x \in Seq(Nat) /\ h \in Nat /\ g <= h /\ r \in 1..n BY <1>2 DEF Run
<1>4. [q EXCEPT ![r] = x] \in Seq(Seq(Nat)) /\ Len([q EXCEPT ![r] = x]) = n
      /\ \A i \in 1..n : [q EXCEPT ![r] = x][i] = IF i = r THEN x ELSE q[i]
  BY <1>2, <1>3, ExceptSeq
<1>5. o \in [0..n -> Nat] /\ o[0] = 0 /\ o[n] = g
      /\ (\A i, j \in 0..n : i <= j => o[i] <= o[j])
      /\ \A i \in 1..n : Run(q[i], o[i - 1], o[i])
  BY <1>1 DEF Marks
<1>6. \A j \in r..n : q[j] = <<>> OBVIOUS
<1> HIDE DEF n
<1>7. Nat \subseteq T
  <2>1. 0 \in T BY <1>3
  <2>2. ASSUME NEW k \in Nat, k \in T PROVE k + 1 \in T
    <3> SUFFICES ASSUME (r - 1) + (k + 1) <= n PROVE o[(r - 1) + (k + 1)] = o[r - 1] OBVIOUS
    <3> DEFINE j == (r - 1) + (k + 1)
    <3>1. j \in r..n /\ j \in 1..n /\ j - 1 = (r - 1) + k /\ (r - 1) + k <= n /\ j - 1 \in 0..n
      BY <1>3
    <3>2. o[j - 1] = o[r - 1] BY <3>1, <2>2
    <3> HIDE DEF j
    <3>3. Run(<<>>, o[j - 1], o[j]) BY <3>1, <1>5, <1>6
    <3>4. o[j] = o[j - 1] BY <3>1, <3>3, <1>5, SMTT(30) DEF Run
    <3> QED BY <3>2, <3>4 DEF j
  <2> HIDE DEF T
  <2> QED BY <2>1, <2>2, SetInduction
<1>8. \A i \in (r - 1)..n : o[i] = g
  <2>1. ASSUME NEW i \in (r - 1)..n PROVE o[i] = o[r - 1]
    <3>1. i - (r - 1) \in Nat /\ (r - 1) + (i - (r - 1)) = i BY <1>3
    <3>2. i - (r - 1) \in T BY <3>1, <1>7
    <3> HIDE DEF T
    <3>3. o[(r - 1) + (i - (r - 1))] = o[r - 1] BY <3>1, <3>2, <1>3 DEF T
    <3> QED BY <3>1, <3>3
  <2>2. n \in (r - 1)..n BY <1>3
  <2> QED BY <2>1, <2>2, <1>5
<1> HIDE DEF T
<1>9. p \in [0..n -> Nat] /\ p[0] = 0 /\ p[n] = h
      /\ \A i \in 0..n : p[i] = IF i < r THEN o[i] ELSE h
  BY <1>3, <1>5
<1> HIDE DEF p
<1>10. ASSUME NEW i \in 0..n, NEW j \in 0..n, i <= j PROVE p[i] <= p[j]
  <2>1. CASE j < r
    <3>1. i < r /\ p[i] = o[i] /\ p[j] = o[j] BY <2>1, <1>3, <1>9, <1>10
    <3> QED BY <3>1, <1>5, <1>10
  <2>2. CASE j >= r /\ i >= r BY <2>2, <1>3, <1>9
  <2>3. CASE j >= r /\ i < r
    <3>1. o[i] <= o[n] /\ o[i] \in Nat BY <1>3, <1>5
    <3> QED BY <2>3, <3>1, <1>2, <1>3, <1>5, <1>9
  <2> QED BY <2>1, <2>2, <2>3, <1>3
<1>11. ASSUME NEW i \in 1..n PROVE Run([q EXCEPT ![r] = x][i], p[i - 1], p[i])
  <2>1. i - 1 \in 0..n /\ i \in 0..n BY <1>3
  <2>2. CASE i < r
    <3>1. p[i - 1] = o[i - 1] /\ p[i] = o[i] BY <2>1, <2>2, <1>3, <1>9
    <3> QED BY <3>1, <2>2, <1>3, <1>4, <1>5, SMTT(30)
  <2>3. CASE i = r
    <3>1. p[i - 1] = o[i - 1] /\ p[i] = h /\ o[i - 1] = g BY <2>1, <2>3, <1>3, <1>8, <1>9
    <3> QED BY <3>1, <2>3, <1>4
  <2>4. CASE i > r
    <3>1. p[i - 1] = h /\ p[i] = h BY <2>1, <2>4, <1>3, <1>9
    <3>2. [q EXCEPT ![r] = x][i] = <<>> BY <2>4, <1>3, <1>4, <1>6
    <3> QED BY <3>1, <3>2, <1>3, RunFacts
  <2> QED BY <2>2, <2>3, <2>4, <1>3
<1>12. Marks([q EXCEPT ![r] = x], 0, h, p) BY <1>4, <1>9, <1>10, <1>11 DEF Marks
<1> QED BY <1>12 DEF Consecutive

\* The first i entries.
LEMMA LineFirst ==
  ASSUME NEW q, NEW a, NEW b, NEW o, Marks(q, a, b, o), NEW i \in 0..Len(q)
  PROVE  Consecutive(SubSeq(q, 1, i), a, o[i]) /\ Len(FlattenSeq(SubSeq(q, 1, i))) = o[i] - a
<1> DEFINE n == Len(q)
           p == [k \in 0..i |-> o[k]]
<1>1. q \in Seq(Seq(Nat)) /\ n \in Nat /\ o \in [0..n -> Nat] /\ o[0] = a /\ i \in 0..n
      /\ (\A k, j \in 0..n : k <= j => o[k] <= o[j])
      /\ \A k \in 1..n : Run(q[k], o[k - 1], o[k])
  BY DEF Marks
<1> HIDE DEF n
<1>2. \A k \in 1..i : q[k] \in Seq(Nat) BY <1>1 DEF n
<1>3. SubSeq(q, 1, i) \in Seq(Seq(Nat)) /\ Len(SubSeq(q, 1, i)) = i
      /\ \A k \in 1..i : SubSeq(q, 1, i)[k] = q[k]
  BY <1>1, <1>2, SubSeqProperties
<1>4. p \in [0..i -> Nat] /\ p[0] = a /\ p[i] = o[i] /\ \A k \in 0..i : p[k] = o[k]
  BY <1>1
<1> HIDE DEF p
<1>5. ASSUME NEW k \in 0..i, NEW j \in 0..i, k <= j PROVE p[k] <= p[j]
  <2>1. k \in 0..n /\ j \in 0..n BY <1>1
  <2> QED BY <2>1, <1>1, <1>4, <1>5
<1>6. ASSUME NEW k \in 1..i PROVE Run(SubSeq(q, 1, i)[k], p[k - 1], p[k])
  <2>1. k \in 1..n /\ k \in 0..i /\ k - 1 \in 0..i BY <1>1
  <2> QED BY <2>1, <1>1, <1>3, <1>4
<1>7. Marks(SubSeq(q, 1, i), a, o[i], p) BY <1>3, <1>4, <1>5, <1>6 DEF Marks
<1>8. Consecutive(SubSeq(q, 1, i), a, o[i]) BY <1>7 DEF Consecutive
<1> QED BY <1>8, Ends

\* A set of two numbers has a least one.
LEMMA MinOfTwo ==
  ASSUME NEW x \in Nat, NEW y \in Nat
  PROVE  Min({x, y}) = IF x <= y THEN x ELSE y
BY DEF Min

\* An entry in front.
LEMMA LinePrepend ==
  ASSUME NEW q, NEW a, NEW b, NEW c, NEW x, a \in Nat, Run(x, a, b), Consecutive(q, b, c)
  PROVE  Consecutive(<<x>> \o q, a, c)
<1>1. PICK o : Marks(q, b, c, o) BY DEF Consecutive
<1> DEFINE n == Len(q)
           p == [i \in 0..(n + 1) |-> IF i = 0 THEN a ELSE o[i - 1]]
<1>2. b \in Nat /\ c \in Nat /\ b <= c /\ q \in Seq(Seq(Nat)) /\ n \in Nat BY Ends
<1>3. x \in Seq(Nat) /\ a <= b BY <1>2 DEF Run
<1>4. <<x>> \o q \in Seq(Seq(Nat)) /\ Len(<<x>> \o q) = n + 1 /\ (<<x>> \o q)[1] = x
      /\ \A i \in 2..(n + 1) : (<<x>> \o q)[i] = q[i - 1]
  <2>1. <<x>> \in Seq(Seq(Nat)) /\ Len(<<x>>) = 1 /\ <<x>>[1] = x BY <1>3
  <2> HIDE DEF n
  <2>2. <<x>> \o q \in Seq(Seq(Nat)) /\ Len(<<x>> \o q) = 1 + n
        /\ \A i \in 1..(1 + n) : (<<x>> \o q)[i] = IF i <= 1 THEN <<x>>[i] ELSE q[i - 1]
    BY <2>1, <1>2, ConcatProperties DEF n
  <2> QED BY <2>1, <2>2, <1>2
<1>5. o \in [0..n -> Nat] /\ o[0] = b /\ o[n] = c
      /\ (\A i, j \in 0..n : i <= j => o[i] <= o[j])
      /\ \A i \in 1..n : Run(q[i], o[i - 1], o[i])
  BY <1>1 DEF Marks
<1> HIDE DEF n
<1>6. p \in [0..(n + 1) -> Nat] /\ p[0] = a /\ p[n + 1] = c
      /\ \A i \in 1..(n + 1) : p[i] = o[i - 1]
  BY <1>2, <1>5
<1> HIDE DEF p
<1>7. ASSUME NEW i \in 0..(n + 1), NEW j \in 0..(n + 1), i <= j PROVE p[i] <= p[j]
  <2>1. CASE i # 0
    <3>1. i \in 1..(n + 1) /\ j \in 1..(n + 1) /\ i - 1 \in 0..n /\ j - 1 \in 0..n
          /\ i - 1 <= j - 1
      BY <2>1, <1>2, <1>7
    <3> QED BY <3>1, <1>5, <1>6
  <2>2. CASE i = 0 /\ j # 0
    <3>1. j \in 1..(n + 1) /\ j - 1 \in 0..n /\ 0 \in 0..n /\ 0 <= j - 1 BY <2>2, <1>2
    <3>2. o[0] <= o[j - 1] /\ o[j - 1] \in Nat BY <3>1, <1>5
    <3> QED BY <3>1, <3>2, <2>2, <1>2, <1>3, <1>5, <1>6
  <2>3. CASE i = 0 /\ j = 0 BY <2>3, <1>6
  <2> QED BY <2>1, <2>2, <2>3
<1>8. ASSUME NEW i \in 1..(n + 1) PROVE Run((<<x>> \o q)[i], p[i - 1], p[i])
  <2>1. CASE i = 1
    <3>1. i - 1 = 0 /\ p[i] = o[0] BY <2>1, <1>2, <1>6
    <3> QED BY <3>1, <2>1, <1>4, <1>5, <1>6
  <2>2. CASE i # 1
    <3>1. i \in 2..(n + 1) /\ i - 1 \in 1..(n + 1) /\ i - 1 \in 1..n BY <2>2, <1>2
    <3>2. p[i - 1] = o[(i - 1) - 1] /\ p[i] = o[i - 1] BY <3>1, <1>6
    <3> QED BY <3>1, <3>2, <1>4, <1>5
  <2> QED BY <2>1, <2>2
<1>9. Marks(<<x>> \o q, a, c, p) BY <1>4, <1>6, <1>7, <1>8 DEF Marks
<1> QED BY <1>9 DEF Consecutive

\* The entries after the first i.
LEMMA LineLast ==
  ASSUME NEW q, NEW a, NEW b, NEW o, Marks(q, a, b, o), NEW i \in 0..Len(q)
  PROVE  Consecutive(SubSeq(q, i + 1, Len(q)), o[i], b)
<1> DEFINE n == Len(q)
           p == [k \in 0..(n - i) |-> o[i + k]]
           t == SubSeq(q, i + 1, n)
<1>1. q \in Seq(Seq(Nat)) /\ n \in Nat /\ o \in [0..n -> Nat] /\ o[n] = b /\ i \in 0..n
      /\ (\A k, j \in 0..n : k <= j => o[k] <= o[j])
      /\ \A k \in 1..n : Run(q[k], o[k - 1], o[k])
  BY DEF Marks
<1>2. \A k \in (i + 1)..n : q[k] \in Seq(Nat) BY <1>1
<1> HIDE DEF n
<1>3. t \in Seq(Seq(Nat)) /\ Len(t) = n - i
      /\ \A k \in 1..(n - i) : t[k] = q[i + k]
  <2>1. i + 1 \in Int /\ n \in Int /\ n - (i + 1) + 1 = n - i BY <1>1
  <2>2. t \in Seq(Seq(Nat)) /\ Len(t) = (IF i + 1 <= n THEN n - (i + 1) + 1 ELSE 0)
        /\ \A k \in 1..(n - (i + 1) + 1) : t[k] = q[(i + 1) + k - 1]
    BY <2>1, <1>2, SubSeqProperties
  <2> HIDE DEF t
  <2> QED BY <2>1, <2>2, <1>1
<1> HIDE DEF t
<1>4. p \in [0..(n - i) -> Nat] /\ p[0] = o[i] /\ p[n - i] = b
      /\ \A k \in 0..(n - i) : p[k] = o[i + k]
  BY <1>1
<1> HIDE DEF p
<1>5. ASSUME NEW k \in 0..(n - i), NEW j \in 0..(n - i), k <= j PROVE p[k] <= p[j]
  <2>1. i + k \in 0..n /\ i + j \in 0..n /\ i + k <= i + j BY <1>1, <1>5
  <2> QED BY <2>1, <1>1, <1>4
<1>6. ASSUME NEW k \in 1..(n - i) PROVE Run(t[k], p[k - 1], p[k])
  <2>1. i + k \in 1..n /\ k \in 0..(n - i) /\ k - 1 \in 0..(n - i) /\ i + (k - 1) = (i + k) - 1
    BY <1>1
  <2>2. Run(q[i + k], o[(i + k) - 1], o[i + k]) BY <2>1, <1>1
  <2>3. p[k - 1] = o[i + (k - 1)] /\ p[k] = o[i + k] /\ t[k] = q[i + k] BY <2>1, <1>3, <1>4
  <2> QED BY <2>1, <2>2, <2>3
<1>7. Marks(t, o[i], b, p) BY <1>3, <1>4, <1>5, <1>6 DEF Marks
<1>8. Consecutive(t, o[i], b) BY <1>7 DEF Consecutive
<1> QED BY <1>8 DEF t, n

\* The queue without its first n bytes.
LEMMA LineDrop ==
  ASSUME NEW q \in Seq(Seq(Nat) \ {<<>>}), NEW a, NEW b, Consecutive(q, a, b),
         NEW n \in 0..(b - a)
  PROVE  /\ Consecutive(Drop(q, n), a + n, b) /\ Drop(q, n) \in Seq(Seq(Nat) \ {<<>>})
         /\ n = b - a => Drop(q, n) = <<>>
<1>1. PICK o : Marks(q, a, b, o) BY DEF Consecutive
<1>2. a \in Nat /\ b \in Nat /\ a <= b /\ n \in Nat /\ a + n \in Nat BY Ends
<1>3. Len(q) \in Nat /\ o \in [0..Len(q) -> Nat] /\ o[0] = a /\ o[Len(q)] = b
      /\ (\A k, j \in 0..Len(q) : k <= j => o[k] <= o[j])
      /\ \A k \in 1..Len(q) : Run(q[k], o[k - 1], o[k])
  BY <1>1 DEF Marks
<1> DEFINE upto(i) == Len(FlattenSeq(SubSeq(q, 1, i)))
           rest == {i \in DOMAIN q : upto(i) > n}
           R == {i \in 1..Len(q) : o[i] > a + n}
<1>4. \A i \in 1..Len(q) : upto(i) = o[i] - a BY <1>1, <1>3, LineFirst
<1>5. DOMAIN q = 1..Len(q) OBVIOUS
<1>6. rest = R
  <2> HIDE DEF upto
  <2> QED BY <1>2, <1>3, <1>4, <1>5, SMTT(30)
<1>7. Drop(q, n) = IF rest = {} THEN <<>>
                   ELSE <<LastBytes(q[Min(rest)], upto(Min(rest)) - n)>>
                          \o SubSeq(q, Min(rest) + 1, Len(q))
  BY DEF Drop
<1> HIDE DEF upto, rest
<1>8. CASE R = {}
  <2>1. Drop(q, n) = <<>> BY <1>6, <1>7, <1>8
  <2>2. a + n = b
    <3>1. CASE Len(q) = 0 BY <3>1, <1>2, <1>3
    <3>2. CASE Len(q) # 0
      <4>1. Len(q) \in 1..Len(q) BY <3>2, <1>3
      <4>2. ~(b > a + n) BY <4>1, <1>8, <1>3
      <4> QED BY <4>2, <1>2
    <3> QED BY <3>1, <3>2
  <2> QED BY <2>1, <2>2, <1>2, EmptyLine
<1>9. CASE R # {}
  <2> DEFINE i == Min(R)
             m == o[i] - (a + n)
             x == LastBytes(q[i], m)
             t == SubSeq(q, i + 1, Len(q))
  <2>1. i \in R /\ \A j \in R : i <= j
    <3>1. R \subseteq Nat BY <1>3
    <3>2. \E j \in R : \A k \in R : j <= k BY <3>1, <1>9, LeastNatural
    <3> QED BY <3>2 DEF Min
  <2> HIDE DEF i
  <2>2. i \in 1..Len(q) /\ i - 1 \in 0..Len(q) /\ i \in 0..Len(q) /\ o[i] > a + n
        /\ o[i] \in Nat /\ o[i - 1] \in Nat
    <3>1. i \in 1..Len(q) /\ o[i] > a + n BY <2>1
    <3> HIDE DEF R
    <3>2. i - 1 \in 0..Len(q) /\ i \in 0..Len(q) BY <3>1, <1>3
    <3> QED BY <3>1, <3>2, <1>3
  <2>3. o[i - 1] <= a + n
    <3>1. CASE i = 1
      <4>1. i - 1 = 0 BY <3>1
      <4> QED BY <4>1, <1>2, <1>3
    <3>2. CASE i # 1
      <4>1. i - 1 \in 1..Len(q) /\ ~(i <= i - 1) BY <3>2, <2>2, <1>3
      <4>2. i - 1 \notin R BY <4>1, <2>1
      <4>3. ~(o[i - 1] > a + n) BY <4>1, <4>2
      <4> QED BY <4>3, <2>2, <1>2, SMTT(30)
    <3> QED BY <3>1, <3>2
  <2>4. n # b - a
    <3>1. o[i] <= b
      <4>1. Len(q) \in 0..Len(q) /\ i <= Len(q) BY <2>2, <1>3
      <4> QED BY <4>1, <2>2, <1>3
    <3> QED BY <3>1, <2>2, <1>2, SMTT(30)
  <2>5. Drop(q, n) = <<x>> \o t
    <3>1. upto(i) = o[i] - a BY <2>2, <1>4
    <3> HIDE DEF R
    <3>2. (o[i] - a) - n = o[i] - (a + n) BY <2>2, <1>2, SMTT(30)
    <3>3. upto(i) - n = m BY <3>1, <3>2
    <3> HIDE DEF m
    <3> QED BY <3>3, <1>6, <1>7, <1>9 DEF i
  <2>6. Run(q[i], o[i - 1], o[i]) BY <2>2, <1>3
  <2>7. q[i] \in Seq(Nat) /\ Len(q[i]) \in Nat /\ o[i] = o[i - 1] + Len(q[i]) BY <2>6 DEF Run
  <2> HIDE DEF R
  <2>8. m \in 1..Len(q[i])
    <3>1. \A u, v, w, l \in Nat : u > w /\ v <= w /\ u = v + l => u - w \in 1..l OBVIOUS
    <3> QED BY <3>1, <2>2, <2>3, <2>7, <1>2
  <2>9. Run(x, a + n, o[i]) /\ Len(x) = m
    <3> DEFINE l == Len(q[i]) - m + 1
    <3>1. l \in 1..(Len(q[i]) + 1) /\ Len(q[i]) \in (l - 1)..Len(q[i])
      <4>1. \A c \in Nat : \A d \in 1..c : c - d + 1 \in 1..(c + 1) /\ c \in ((c - d + 1) - 1)..c
        OBVIOUS
      <4> HIDE DEF m
      <4> QED BY <4>1, <2>7, <2>8
    <3>2. o[i - 1] + l - 1 = a + n /\ o[i - 1] + Len(q[i]) = o[i] /\ Len(q[i]) - l + 1 = m
      <4>1. \A u, v, w, c \in Nat : u > w /\ v <= w /\ u = v + c =>
              /\ v + (c - (u - w) + 1) - 1 = w /\ c - (c - (u - w) + 1) + 1 = u - w
        OBVIOUS
      <4> DEFINE c == Len(q[i])
                 u == o[i]
                 v == o[i - 1]
      <4>2. u \in Nat /\ v \in Nat /\ c \in Nat /\ a + n \in Nat /\ u > a + n /\ v <= a + n
            /\ u = v + c
        BY <2>2, <2>3, <2>7, <1>2
      <4> HIDE DEF c, u, v
      <4>3. v + (c - (u - (a + n)) + 1) - 1 = a + n
            /\ c - (c - (u - (a + n)) + 1) + 1 = u - (a + n)
        BY <4>1, <4>2
      <4> QED BY <4>2, <4>3 DEF c, u, v
    <3> HIDE DEF l, m
    <3>3. Run(SubSeq(q[i], l, Len(q[i])), o[i - 1] + l - 1, o[i - 1] + Len(q[i]))
          /\ Len(SubSeq(q[i], l, Len(q[i]))) = Len(q[i]) - l + 1
      BY <3>1, <2>2, <2>6, RunSubSeq
    <3> QED BY <3>2, <3>3 DEF LastBytes, l
  <2>10. Consecutive(t, o[i], b) BY <2>2, <1>1, LineLast
  <2>11. t \in Seq(Seq(Nat) \ {<<>>})
    <3>1. \A k \in (i + 1)..Len(q) : q[k] \in Seq(Nat) \ {<<>>} BY <2>2, <1>3
    <3> QED BY <3>1, <2>2, <1>3, SubSeqProperties
  <2> HIDE DEF t, x, m
  <2>12. x \in Seq(Nat) \ {<<>>} BY <2>8, <2>9, <2>7 DEF Run
  <2>13. Consecutive(<<x>> \o t, a + n, b) BY <2>9, <2>10, <1>2, LinePrepend
  <2>14. <<x>> \o t \in Seq(Seq(Nat) \ {<<>>})
    <3>1. <<x>> \in Seq(Seq(Nat) \ {<<>>}) BY <2>12
    <3> QED BY <3>1, <2>11, ConcatProperties
  <2> QED BY <2>4, <2>5, <2>13, <2>14
<1> QED BY <1>8, <1>9

-----------------------------------------------------------------------------
(* What every operator leaves alone, and the ends of a stream. *)

\* Whole elements and what is left of one.
LEMMA Remainder ==
  ASSUME NEW x \in Nat, NEW e \in Numbers
  PROVE  /\ x % e \in 0..(e - 1) /\ x % e <= x /\ x - (x % e) \in Nat
         /\ 0 % e = 0 /\ x % 1 = 0 /\ (x - (x % e)) % e = 0
         /\ \A m \in Nat : m % e = 0 /\ m <= x => m <= x - (x % e)
<1> USE DEF Numbers
<1>1. x % e \in 0..(e - 1) OBVIOUS
<1>2. \A y, f \in Int : f > 0 => y = (y \div f) * f + (y % f) /\ y \div f \in Int OBVIOUS
<1>3. 0 % e = 0 /\ x % 1 = 0 OBVIOUS
<1>4. x % e <= x OBVIOUS
<1>5. (x - (x % e)) % e = 0
  <2> DEFINE b == x \div e
             y == x - (x % e)
             k == y \div e
             z == y % e
  <2>1. y = b * e /\ b \in Int /\ y \in Int BY <1>1, <1>2
  <2>2. z \in 0..(e - 1) BY <2>1
  <2> HIDE DEF b, y
  <2>3. y = k * e + z /\ k \in Int BY <1>2, <2>1
  <2> HIDE DEF k, z
  <2>4. (b - k) * e = z /\ z < e /\ z >= 0 BY <2>1, <2>2, <2>3
  <2>5. b - k = 0 BY <2>1, <2>3, <2>4
  <2>6. z = 0 BY <2>1, <2>3, <2>4, <2>5
  <2> QED BY <2>6 DEF z, y
<1>6. ASSUME NEW m \in Nat, m % e = 0, m <= x PROVE m <= x - (x % e)
  <2>1. \A f, a, b, r \in Int : f > 0 /\ r < f /\ a * f <= b * f + r => a * f <= b * f
    <3> TAKE f, a, b, r \in Int
    <3> HAVE f > 0 /\ r < f /\ a * f <= b * f + r
    <3>1. (a - b) * f < f OBVIOUS
    <3>2. a - b < 1 BY <3>1
    <3> QED BY <3>2
  <2> DEFINE a == m \div e
             b == x \div e
             r == x % e
  <2>2. m = a * e /\ x = b * e + r /\ a \in Int /\ b \in Int BY <1>2, <1>6
  <2>3. r \in Int /\ r < e BY <1>1
  <2> HIDE DEF a, b, r
  <2>4. a * e <= b * e BY <2>1, <2>2, <2>3, <1>6
  <2>5. m <= x - r BY <2>2, <2>3, <2>4
  <2>6. r = x % e BY DEF r
  <2> QED BY <2>5, <2>6, Zenon
<1> QED BY <1>1, <1>3, <1>4, <1>5, <1>6

\* A call that changes other fields keeps a part of the invariant.
LEMMA Unaffected ==
  ASSUME NEW s, NEW t, NEW F, Differ(s, t, F)
  PROVE  /\ F \cap {"byobRequest", "pendingPullIntos", "reader", "byob",
                    "readIntoRequests"} = {} /\ DescriptorInv(s) => DescriptorInv(t)
         /\ \A a : /\ F \cap {"readRequests", "readIntoRequests", "state", "reader", "byob",
                              "got", "pendingPullIntos"} = {}
                   /\ RequestInv(s, a)
                   => RequestInv(t, a)
         /\ \A a : F \cap {"got", "reads"} = {} /\ AnswerInv(s, a) => AnswerInv(t, a)
         /\ \A q : F \cap {"got", "pendingPullIntos", "queue"} = {} /\ LineTo(s, q)
                   => LineTo(t, q)
         /\ F \cap {"pendingPullIntos", "state", "autoAllocateChunkSize", "readRequests",
                    "queue"} = {} /\ DefaultOnly(s) => DefaultOnly(t)
<1>1. ASSUME F \cap {"byobRequest", "pendingPullIntos", "reader", "byob",
                     "readIntoRequests"} = {}, DescriptorInv(s)
      PROVE  DescriptorInv(t)
  <2>1. t.byobRequest = s.byobRequest /\ t.pendingPullIntos = s.pendingPullIntos
        /\ t.reader = s.reader /\ t.byob = s.byob /\ t.readIntoRequests = s.readIntoRequests
    BY <1>1 DEF Differ, FieldNames
  <2> QED BY <1>1, <2>1 DEF DescriptorInv, NoneHead
<1>2. ASSUME F \cap {"readRequests", "readIntoRequests", "state", "reader", "byob",
                     "got", "pendingPullIntos"} = {}, NEW a, RequestInv(s, a)
      PROVE  RequestInv(t, a)
  <2>1. t.readRequests = s.readRequests /\ t.readIntoRequests = s.readIntoRequests
        /\ t.state = s.state /\ t.reader = s.reader /\ t.byob = s.byob /\ t.got = s.got
        /\ t.pendingPullIntos = s.pendingPullIntos
    BY <1>2 DEF Differ, FieldNames
  <2> QED BY <1>2, <2>1 DEF RequestInv, NoneHead
<1>3. ASSUME F \cap {"got", "reads"} = {}, NEW a, AnswerInv(s, a) PROVE AnswerInv(t, a)
  <2>1. t.got = s.got /\ t.reads = s.reads BY <1>3 DEF Differ, FieldNames
  <2> QED BY <1>3, <2>1 DEF AnswerInv
<1>4. ASSUME F \cap {"got", "pendingPullIntos", "queue"} = {}, NEW q, LineTo(s, q)
      PROVE  LineTo(t, q)
  <2>1. t.got = s.got /\ t.pendingPullIntos = s.pendingPullIntos /\ t.queue = s.queue
    BY <1>4 DEF Differ, FieldNames
  <2> QED BY <1>4, <2>1 DEF LineTo, HeadBytes
<1>5. ASSUME F \cap {"pendingPullIntos", "state", "autoAllocateChunkSize", "readRequests",
                     "queue"} = {}, DefaultOnly(s)
      PROVE  DefaultOnly(t)
  <2>1. t.pendingPullIntos = s.pendingPullIntos /\ t.state = s.state
        /\ t.autoAllocateChunkSize = s.autoAllocateChunkSize
        /\ t.readRequests = s.readRequests /\ t.queue = s.queue
    BY <1>5 DEF Differ, FieldNames
  <2> QED BY <1>5, <2>1 DEF DefaultOnly, NoneHead
<1> QED BY <1>1, <1>2, <1>3, <1>4, <1>5

\* An assertion changes nothing but the mark of a failure.
LEMMA Asserts ==
  ASSUME NEW s, Fields(s), NEW holds \in BOOLEAN
  PROVE  /\ Differ(s, Asserting(s, holds), {"failed"}) /\ Fields(Asserting(s, holds))
         /\ Asserting(s, holds).failed = (s.failed \/ ~holds)
         /\ ControllerInv(s) => ControllerInv(Asserting(s, holds))
         /\ BetweenCalls(s) => BetweenCalls(Asserting(s, holds))
<1> DEFINE t == Asserting(s, holds)
<1>1. Differ(s, t, {"failed"}) BY DEF Differ, Fields, FieldNames, Asserting
<1>2. t.failed = (s.failed \/ ~holds) BY DEF Asserting, Fields, FieldNames
<1> HIDE DEF t
<1>3. Fields(t)
  <2>1. t.failed \in BOOLEAN BY <1>2 DEF Fields
  <2> QED BY <2>1, <1>1 DEF Differ, Fields, FieldNames
<1>4. ControllerInv(s) => ControllerInv(t) BY <1>1 DEF Differ, FieldNames, ControllerInv
<1>5. BetweenCalls(s) => BetweenCalls(t) BY <1>1 DEF Differ, FieldNames, BetweenCalls
<1> QED BY <1>1, <1>2, <1>3, <1>4, <1>5 DEF t

\* A pull is under way at t if it was at s.
KeepsPull(s, t) == s.pull = "pending" => t.pull = "pending"

\* At t the source has been asked for what is wanted, again if it was asked at s.
PullGoes(s, t) ==
  /\ readableByteStreamControllerShouldCallPull(t) =>
       t.pull = "pending" /\ (s.pull = "pending" => t.pullAgain)
  /\ KeepsPull(s, t)

\* The source is asked for more.
LEMMA PullsIfNeeded ==
  ASSUME NEW s, Fields(s), ControllerInv(s)
  PROVE  LET t == readableByteStreamControllerCallPullIfNeeded(s)
         IN  /\ Differ(s, t, {"pull", "pullAgain"}) /\ Fields(t) /\ ControllerInv(t)
             /\ PullGoes(s, t)
<1> DEFINE t == readableByteStreamControllerCallPullIfNeeded(s)
           W == readableByteStreamControllerShouldCallPull(s)
<1>1. Differ(s, s, {"pull", "pullAgain"}) BY DEF Differ, Fields
<1>2. CASE ~W
  <2>1. t = s BY <1>2 DEF readableByteStreamControllerCallPullIfNeeded
  <2> HIDE DEF t, W
  <2> QED BY <2>1, <1>1, <1>2 DEF W, t, PullGoes, KeepsPull
<1>3. CASE W /\ s.pull # "idle"
  <2>1. t = [s EXCEPT !.pullAgain = TRUE]
    BY <1>3 DEF readableByteStreamControllerCallPullIfNeeded
  <2>2. s.state = "readable" /\ s.start = "resolved"
    BY <1>3 DEF readableByteStreamControllerShouldCallPull
  <2> HIDE DEF t, W
  <2>3. Differ(s, t, {"pullAgain"}) /\ t.pullAgain = TRUE
    BY <2>1 DEF Differ, Fields, FieldNames
  <2>4. Differ(s, t, {"pull", "pullAgain"}) BY <2>3 DEF Differ
  <2>5. Fields(t) BY <2>3 DEF Differ, Fields, FieldNames
  <2>6. t.pull = s.pull /\ s.pull = "pending"
    BY <2>2, <2>3, <1>3 DEF ControllerInv, Fields, Differ, FieldNames
  <2>7. ControllerInv(t) BY <2>3, <2>6 DEF Differ, FieldNames, ControllerInv
  <2>8. PullGoes(s, t) BY <2>3, <2>6 DEF PullGoes, KeepsPull
  <2> QED BY <2>4, <2>5, <2>7, <2>8 DEF t
<1>4. CASE W /\ s.pull = "idle"
  <2>1. t = [Asserting(s, ~s.pullAgain /\ s.algorithms) EXCEPT !.pull = "pending"]
    BY <1>4 DEF readableByteStreamControllerCallPullIfNeeded
  <2>2. s.state = "readable" /\ s.start = "resolved"
    BY <1>4 DEF readableByteStreamControllerShouldCallPull
  <2>3. ~s.pullAgain /\ s.algorithms BY <2>2, <1>4 DEF ControllerInv
  <2> HIDE DEF t, W
  <2>4. Differ(s, t, {"pull", "failed"}) /\ t.pull = "pending" /\ t.failed = s.failed
    BY <2>1, <2>3 DEF Differ, Fields, FieldNames, Asserting
  <2>5. Differ(s, t, {"pull", "pullAgain"}) BY <2>4 DEF Differ, FieldNames
  <2>6. Fields(t) BY <2>4 DEF Differ, Fields, FieldNames
  <2>7. ControllerInv(t) BY <2>2, <2>4 DEF Differ, FieldNames, ControllerInv
  <2>8. PullGoes(s, t) BY <2>4, <1>4 DEF PullGoes, KeepsPull
  <2> QED BY <2>5, <2>6, <2>7, <2>8 DEF t
<1> HIDE DEF W, t
<1> QED BY <1>2, <1>3, <1>4 DEF t

\* The requests of a reader are settled, none of them with a chunk.
LEMMA SettlesReads ==
  ASSUME NEW s, Fields(s), NEW outcome \in {Done, Failed}
  PROVE  /\ LET t == SettleReads(s, outcome)
            IN  /\ Differ(s, t, {"reads", "readRequests"}) /\ t.readRequests = <<>>
                /\ Fields(t) /\ \A a : AnswerInv(s, a) => AnswerInv(t, a)
         /\ LET t == SettleReadIntos(s, outcome)
            IN  /\ Differ(s, t, {"reads", "readIntoRequests"}) /\ t.readIntoRequests = <<>>
                /\ Fields(t) /\ \A a : AnswerInv(s, a) => AnswerInv(t, a)
<1> DEFINE R(r) == [i \in DOMAIN s.reads |-> IF i \in Range(r) THEN outcome ELSE s.reads[i]]
<1>1. ASSUME NEW r
      PROVE  R(r) \in Seq(Int) /\ Len(R(r)) = Len(s.reads)
             /\ \A i \in 1..Len(s.reads) : R(r)[i] = Filled => s.reads[i] = Filled
  <2>1. s.reads \in Seq(Int) /\ DOMAIN s.reads = 1..Len(s.reads) /\ Len(s.reads) \in Nat
    BY DEF Fields
  <2>2. outcome \in Int /\ outcome # Filled BY DEF Done, Failed, Filled
  <2> QED BY <2>1, <2>2
<1> HIDE DEF R
<1>2. ASSUME NEW t, NEW r, t.reads = R(r),
             Differ(s, t, {"reads", "readRequests", "readIntoRequests"})
      PROVE  \A a : AnswerInv(s, a) => AnswerInv(t, a)
  <2>1. t.got = s.got BY <1>2 DEF Differ, FieldNames
  <2>2. Len(s.got) = Len(s.reads) BY DEF Fields
  <2> QED BY <2>1, <2>2, <1>1, <1>2 DEF AnswerInv
<1>3. LET t == SettleReads(s, outcome)
      IN  /\ Differ(s, t, {"reads", "readRequests"}) /\ t.readRequests = <<>>
          /\ Fields(t) /\ \A a : AnswerInv(s, a) => AnswerInv(t, a)
  <2> DEFINE t == SettleReads(s, outcome)
  <2>1. t = [s EXCEPT !.reads = R(s.readRequests), !.readRequests = <<>>]
    BY DEF SettleReads, R
  <2> HIDE DEF t
  <2>2. Differ(s, t, {"reads", "readRequests"}) /\ t.readRequests = <<>>
        /\ t.reads = R(s.readRequests)
    BY <2>1 DEF Differ, Fields, FieldNames
  <2>3. Fields(t) BY <2>2, <1>1 DEF Differ, Fields, FieldNames
  <2>4. Differ(s, t, {"reads", "readRequests", "readIntoRequests"}) BY <2>2 DEF Differ
  <2>5. \A a : AnswerInv(s, a) => AnswerInv(t, a) BY <2>2, <2>4, <1>2
  <2> QED BY <2>2, <2>3, <2>5 DEF t
<1>4. LET t == SettleReadIntos(s, outcome)
      IN  /\ Differ(s, t, {"reads", "readIntoRequests"}) /\ t.readIntoRequests = <<>>
          /\ Fields(t) /\ \A a : AnswerInv(s, a) => AnswerInv(t, a)
  <2> DEFINE t == SettleReadIntos(s, outcome)
  <2>1. t = [s EXCEPT !.reads = R(s.readIntoRequests), !.readIntoRequests = <<>>]
    BY DEF SettleReadIntos, R
  <2> HIDE DEF t
  <2>2. Differ(s, t, {"reads", "readIntoRequests"}) /\ t.readIntoRequests = <<>>
        /\ t.reads = R(s.readIntoRequests)
    BY <2>1 DEF Differ, Fields, FieldNames
  <2>3. Fields(t) BY <2>2, <1>1 DEF Differ, Fields, FieldNames
  <2>4. Differ(s, t, {"reads", "readRequests", "readIntoRequests"}) BY <2>2 DEF Differ
  <2>5. \A a : AnswerInv(s, a) => AnswerInv(t, a) BY <2>2, <2>4, <1>2
  <2> QED BY <2>2, <2>3, <2>5 DEF t
<1> QED BY <1>3, <1>4

\* A readable stream is closed or errored.
LEMMA StreamEnds ==
  ASSUME NEW s, Fields(s), NEW a, AnswerInv(s, a), s.state = "readable",
         ~s.reader => s.readRequests = <<>>
  PROVE  /\ LET t == readableStreamClose(s)
            IN  /\ Differ(s, t, {"state", "reads", "readRequests", "closed"})
                /\ t.state = "closed" /\ t.readRequests = <<>> /\ Fields(t) /\ AnswerInv(t, a)
         /\ LET t == readableStreamError(s)
            IN  /\ Differ(s, t, {"state", "reads", "readRequests", "closed"})
                /\ t.state = "errored" /\ t.readRequests = <<>> /\ Fields(t) /\ AnswerInv(t, a)
<1> DEFINE V(x) == [Asserting(s, s.state = "readable") EXCEPT !.state = x]
<1>1. ASSUME NEW x \in {"closed", "errored"}
      PROVE  Differ(s, V(x), {"state"}) /\ V(x).state = x /\ Fields(V(x)) /\ AnswerInv(V(x), a)
  <2>1. Differ(s, V(x), {"state"}) /\ V(x).state = x
    BY DEF Asserting, Fields, FieldNames, Differ
  <2> HIDE DEF V
  <2>2. Fields(V(x)) BY <2>1 DEF Differ, Fields, FieldNames
  <2>3. {"state"} \cap {"got", "reads"} = {} OBVIOUS
  <2>4. AnswerInv(V(x), a) BY <2>1, <2>3, Unaffected
  <2> QED BY <2>1, <2>2, <2>4
<1> DEFINE Z(x, outcome, c) == [SettleReads(V(x), outcome) EXCEPT !.closed = c]
<1>2. ASSUME NEW x \in {"closed", "errored"}, NEW outcome \in {Done, Failed}, NEW c
      PROVE  /\ Differ(s, Z(x, outcome, c), {"state", "reads", "readRequests", "closed"})
             /\ Z(x, outcome, c).state = x /\ Z(x, outcome, c).readRequests = <<>>
             /\ Fields(Z(x, outcome, c)) /\ AnswerInv(Z(x, outcome, c), a)
  <2> DEFINE u == SettleReads(V(x), outcome)
  <2>1. Differ(V(x), u, {"reads", "readRequests"}) /\ u.readRequests = <<>>
        /\ Fields(u) /\ AnswerInv(u, a)
    <3> HIDE DEF V
    <3> QED BY <1>1, SettlesReads
  <2> DEFINE z == Z(x, outcome, c)
  <2>2. z = [u EXCEPT !.closed = c] OBVIOUS
  <2> HIDE DEF V, u, z, Z
  <2>3. Differ(u, z, {"closed"}) BY <2>1, <2>2 DEF Differ, Fields, FieldNames
  <2>4. Fields(z) BY <2>3, <2>1 DEF Differ, Fields, FieldNames
  <2>5. {"closed"} \cap {"got", "reads"} = {} OBVIOUS
  <2>6. AnswerInv(z, a) BY <2>1, <2>3, <2>5, Unaffected
  <2>7. Differ(s, z, {"state", "reads", "readRequests", "closed"}) /\ z.state = x
        /\ z.readRequests = <<>>
    BY <1>1, <2>1, <2>3 DEF Differ, FieldNames
  <2> QED BY <2>4, <2>6, <2>7 DEF z
<1>3. ASSUME NEW x \in {"closed", "errored"}, ~s.reader
      PROVE  /\ Differ(s, V(x), {"state", "reads", "readRequests", "closed"})
             /\ V(x).readRequests = <<>>
  <2> HIDE DEF V
  <2> QED BY <1>1, <1>3 DEF Differ, FieldNames
<1>4. s.reader \in BOOLEAN BY DEF Fields
<1>5. readableStreamClose(s) = IF s.reader
        THEN Z("closed", Done, Resolve(SettleReads(V("closed"), Done).closed)) ELSE V("closed")
  BY DEF readableStreamClose
<1>6. readableStreamError(s) = IF s.reader
        THEN Z("errored", Failed, Reject(SettleReads(V("errored"), Failed).closed))
        ELSE V("errored")
  BY DEF readableStreamError
<1> HIDE DEF Z, V
<1>7. CASE s.reader BY <1>2, <1>5, <1>6, <1>7
<1>8. CASE ~s.reader BY <1>1, <1>3, <1>5, <1>6, <1>8
<1> QED BY <1>4, <1>7, <1>8

\* What is left when descriptors and queue are given up.
LEMMA LineCleared ==
  ASSUME NEW s, NEW t, NEW q, LineTo(s, q), t.got = s.got, t.pendingPullIntos = <<>>,
         t.queue = <<>>
  PROVE  \E g \in Nat : g <= q /\ LineTo(t, g)
<1>1. PICK g \in Nat, h \in Nat : /\ Consecutive(s.got, 0, g) /\ Run(HeadBytes(s), g, h)
                                  /\ Consecutive(s.queue, h, q)
  BY DEF LineTo
<1>2. g <= h BY <1>1 DEF Run
<1>3. h <= q /\ q \in Nat BY <1>1, Ends
<1>4. HeadBytes(t) = <<>> BY DEF HeadBytes
<1>5. Run(<<>>, g, g) /\ Consecutive(<<>>, g, g) BY RunFacts, EmptyLine
<1>6. LineTo(t, g) BY <1>1, <1>4, <1>5 DEF LineTo
<1> QED BY <1>2, <1>3, <1>6

EndFields == {"state", "reads", "readRequests", "closed", "algorithms"}
ClearFields ==
  EndFields \cup {"readIntoRequests", "queue", "pendingPullIntos", "byobRequest", "cancel"}

\* Nobody waits.
LEMMA NobodyQueued ==
  \A got : Queued(<<>>, got)
BY DEF Queued

\* A readable stream with an empty queue is closed; reads into views go on waiting.
LEMMA BytesClose ==
  ASSUME NEW s, NEW a, Parts(s, a), s.state = "readable", s.queue = <<>>
  PROVE  LET t == readableStreamClose([s EXCEPT !.algorithms = FALSE])
         IN  /\ Parts(t, a) /\ t.state = "closed" /\ t.readRequests = <<>>
             /\ Differ(s, t, EndFields)
<1> DEFINE r == [s EXCEPT !.algorithms = FALSE]
           t == readableStreamClose(r)
<1>1. Differ(s, r, {"algorithms"}) /\ r.algorithms = FALSE
  BY DEF Parts, Fields, FieldNames, Differ
<1> HIDE DEF r
<1>2. Fields(r) BY <1>1 DEF Parts, Fields, FieldNames, Differ
<1>3. {"algorithms"} \cap {"got", "reads"} = {} OBVIOUS
<1>4. AnswerInv(r, a) BY <1>1, <1>3, Unaffected DEF Parts
<1>5. r.state = "readable" /\ (~r.reader => r.readRequests = <<>>)
  BY <1>1 DEF Differ, FieldNames, Parts, RequestInv
<1>6. /\ Differ(r, t, {"state", "reads", "readRequests", "closed"})
      /\ t.state = "closed" /\ t.readRequests = <<>> /\ Fields(t) /\ AnswerInv(t, a)
  BY <1>2, <1>4, <1>5, StreamEnds
<1> HIDE DEF t
<1>7. Differ(s, t, EndFields) BY <1>1, <1>6 DEF Differ, FieldNames, EndFields
<1>8. t.queue = <<>> /\ t.pendingPullIntos = s.pendingPullIntos /\ t.start = s.start
      /\ t.pull = s.pull /\ t.pullAgain = s.pullAgain /\ t.readIntoRequests = s.readIntoRequests
      /\ t.reader = s.reader /\ t.byob = s.byob /\ t.got = s.got
  BY <1>7 DEF Differ, FieldNames, EndFields
<1>9. ControllerInv(t) BY <1>6, <1>8 DEF ControllerInv, Parts
<1>10. EndFields \cap {"byobRequest", "pendingPullIntos", "reader", "byob",
                       "readIntoRequests"} = {}
  BY DEF EndFields
<1>11. DescriptorInv(t) BY <1>7, <1>10, Unaffected DEF Parts
<1>12. RequestInv(t, a)
  BY <1>6, <1>8, NobodyQueued DEF RequestInv, Parts, NoneHead
<1> QED BY <1>6, <1>7, <1>9, <1>11, <1>12 DEF Parts, t, r

\* A stream that has given up its requests, descriptors and queue.
LEMMA Cleared ==
  ASSUME NEW s, NEW a, NEW q, Core(s, a, q), NEW t, Differ(s, t, ClearFields),
         Fields(t), AnswerInv(t, a), t.state # "readable", t.queue = <<>>,
         t.pendingPullIntos = <<>>, t.readRequests = <<>>, t.readIntoRequests = <<>>,
         t.byobRequest = FALSE
  PROVE  (\E g \in Nat : g <= q /\ Core(t, a, g)) /\ BetweenCalls(t) /\ DefaultOnly(t)
<1>1. t.start = s.start /\ t.pull = s.pull /\ t.pullAgain = s.pullAgain /\ t.got = s.got
  BY DEF Differ, FieldNames, ClearFields, EndFields
<1>2. ControllerInv(t) BY <1>1 DEF ControllerInv, Core, Parts
<1>3. DescriptorInv(t) BY DEF DescriptorInv, NoneHead
<1>4. RequestInv(t, a) BY NobodyQueued DEF RequestInv
<1>5. PICK g \in Nat : g <= q /\ LineTo(t, g) BY <1>1, LineCleared DEF Core, Parts
<1>6. Core(t, a, g) BY <1>2, <1>3, <1>4, <1>5 DEF Core, Parts
<1>7. BetweenCalls(t) /\ DefaultOnly(t) BY DEF BetweenCalls, DefaultOnly
<1> QED BY <1>5, <1>6, <1>7

\* A readable stream is errored.
LEMMA BytesError ==
  ASSUME NEW s, NEW a, NEW q, Core(s, a, q), s.state = "readable"
  PROVE  LET t == readableByteStreamControllerError(s)
         IN  /\ \E g \in Nat : g <= q /\ Core(t, a, g)
             /\ BetweenCalls(t) /\ DefaultOnly(t) /\ t.state = "errored"
             /\ Differ(s, t, ClearFields) /\ t.pendingPullIntos = <<>>
<1> DEFINE r == [readableByteStreamControllerClearPendingPullIntos(s)
                   EXCEPT !.queue = <<>>, !.algorithms = FALSE]
           u == readableStreamError(r)
           t == SettleReadIntos(u, Failed)
<1>1. readableByteStreamControllerError(s) = t BY DEF readableByteStreamControllerError
<1>2. Differ(s, r, {"byobRequest", "pendingPullIntos", "queue", "algorithms"})
      /\ r.algorithms = FALSE /\ r.queue = <<>> /\ r.byobRequest = FALSE
      /\ r.pendingPullIntos = <<>>
  BY DEF Core, Parts, Fields, FieldNames, Differ, readableByteStreamControllerClearPendingPullIntos
<1> HIDE DEF r
<1>3. Fields(r)
  <2>1. <<>> \in Seq(Seq(Nat) \ {<<>>}) /\ <<>> \in Seq(Descriptors) OBVIOUS
  <2> QED BY <1>2, <2>1 DEF Core, Parts, Fields, FieldNames, Differ
<1>4. {"byobRequest", "pendingPullIntos", "queue", "algorithms"} \cap {"got", "reads"} = {}
  OBVIOUS
<1>5. AnswerInv(r, a) BY <1>2, <1>4, Unaffected DEF Core, Parts
<1>6. r.state = "readable" /\ (~r.reader => r.readRequests = <<>>)
  BY <1>2 DEF Differ, FieldNames, Core, Parts, RequestInv
<1>7. /\ Differ(r, u, {"state", "reads", "readRequests", "closed"})
      /\ u.state = "errored" /\ u.readRequests = <<>> /\ Fields(u) /\ AnswerInv(u, a)
  BY <1>3, <1>5, <1>6, StreamEnds
<1> HIDE DEF u
<1>8. /\ Differ(u, t, {"reads", "readIntoRequests"}) /\ t.readIntoRequests = <<>>
      /\ Fields(t) /\ AnswerInv(t, a)
  BY <1>7, SettlesReads
<1> HIDE DEF t
<1>9. Differ(s, t, ClearFields)
  BY <1>2, <1>7, <1>8 DEF Differ, FieldNames, ClearFields, EndFields
<1>10. t.state = "errored" /\ t.queue = <<>> /\ t.pendingPullIntos = <<>>
       /\ t.readRequests = <<>> /\ t.byobRequest = FALSE
  BY <1>2, <1>7, <1>8 DEF Differ, FieldNames
<1>11. (\E g \in Nat : g <= q /\ Core(t, a, g)) /\ BetweenCalls(t) /\ DefaultOnly(t)
  BY <1>8, <1>9, <1>10, Cleared
<1> QED BY <1>1, <1>9, <1>10, <1>11

\* A readable stream is cancelled.
LEMMA BytesCancel ==
  ASSUME NEW s, NEW a, NEW q, Core(s, a, q), s.state = "readable"
  PROVE  LET t == CancelBytes(s)
         IN  /\ \E g \in Nat : g <= q /\ Core(t, a, g)
             /\ BetweenCalls(t) /\ DefaultOnly(t) /\ t.state = "closed" /\ t.cancel = "pending"
             /\ Differ(s, t, ClearFields) /\ t.pendingPullIntos = <<>>
<1> DEFINE u == readableStreamClose(s)
           v == SettleReadIntos(u, Done)
           t == CancelBytes(s)
<1>1. ~s.reader => s.readRequests = <<>> BY DEF Core, Parts, RequestInv
<1>2. /\ Differ(s, u, {"state", "reads", "readRequests", "closed"})
      /\ u.state = "closed" /\ u.readRequests = <<>> /\ Fields(u) /\ AnswerInv(u, a)
  BY <1>1, StreamEnds DEF Core, Parts
<1> HIDE DEF u
<1>3. /\ Differ(u, v, {"reads", "readIntoRequests"}) /\ v.readIntoRequests = <<>>
      /\ Fields(v) /\ AnswerInv(v, a)
  BY <1>2, SettlesReads
<1>4. s.algorithms = TRUE BY DEF Core, Parts, ControllerInv, Fields
<1>5. t = [readableByteStreamControllerClearPendingPullIntos(Asserting(v, s.algorithms))
             EXCEPT !.queue = <<>>, !.cancel = "pending", !.algorithms = FALSE]
  BY DEF CancelBytes, u
<1> HIDE DEF v, t
<1>6. Differ(v, t, {"byobRequest", "pendingPullIntos", "queue", "cancel", "algorithms"})
      /\ t.queue = <<>> /\ t.byobRequest = FALSE /\ t.algorithms = FALSE
      /\ t.pendingPullIntos = <<>> /\ t.cancel = "pending"
  BY <1>3, <1>4, <1>5
  DEF Fields, FieldNames, Differ, readableByteStreamControllerClearPendingPullIntos, Asserting
<1>7. Fields(t)
  <2>1. <<>> \in Seq(Seq(Nat) \ {<<>>}) /\ <<>> \in Seq(Descriptors) OBVIOUS
  <2> QED BY <1>3, <1>6, <2>1 DEF Fields, FieldNames, Differ
<1>8. {"byobRequest", "pendingPullIntos", "queue", "cancel", "algorithms"}
        \cap {"got", "reads"} = {}
  OBVIOUS
<1>9. AnswerInv(t, a) BY <1>3, <1>6, <1>8, Unaffected
<1>10. Differ(s, t, ClearFields)
  BY <1>2, <1>3, <1>6 DEF Differ, FieldNames, ClearFields, EndFields
<1>11. t.state = "closed" /\ t.readRequests = <<>> /\ t.readIntoRequests = <<>>
  BY <1>2, <1>3, <1>6 DEF Differ, FieldNames
<1>12. (\E g \in Nat : g <= q /\ Core(t, a, g)) /\ BetweenCalls(t) /\ DefaultOnly(t)
  BY <1>6, <1>7, <1>9, <1>10, <1>11, Cleared
<1> QED BY <1>6, <1>10, <1>11, <1>12 DEF t

-----------------------------------------------------------------------------
(* A default read is answered from the queue. *)

\* Nobody who waits comes before read r, and neither it nor a read behind it has bytes.
Free(s, r) ==
  /\ r \in 1..Len(s.got) /\ \A j \in r..Len(s.got) : s.got[j] = <<>>
  /\ \A i \in 1..Len(s.readRequests) : r < s.readRequests[i]
  /\ \A i \in 1..Len(s.readIntoRequests) : r < s.readIntoRequests[i]

\* Bytes that are what read r asked for.
Suits(bytes, view, done) ==
  /\ bytes \in Seq(Nat) /\ Len(bytes) % view.elementSize = 0
  /\ ~done => Len(bytes) >= view.minimumFill

\* Reads behind one that is answered go on waiting.
LEMMA StaysQueued ==
  ASSUME NEW requests \in Seq(Nat), NEW got \in Seq(Seq(Nat)), Queued(requests, got),
         NEW r \in 1..Len(got), \A i \in 1..Len(requests) : r < requests[i],
         NEW x \in Seq(Nat)
  PROVE  Queued(requests, [got EXCEPT ![r] = x])
<1> DEFINE t == [got EXCEPT ![r] = x]
<1>1. Len(t) = Len(got) /\ \A i \in 1..Len(got) : t[i] = IF i = r THEN x ELSE got[i]
  BY ExceptSeq
<1> HIDE DEF t
<1>2. Len(got) \in Nat /\ Len(requests) \in Nat OBVIOUS
<1>3. ASSUME NEW i \in 1..Len(requests), NEW j \in requests[i]..Len(got) PROVE t[j] = <<>>
  <2>1. requests[i] \in 1..Len(got) /\ r < requests[i] /\ requests[i] \in Nat BY DEF Queued
  <2>2. j \in 1..Len(got) /\ j # r BY <2>1, <1>2
  <2>3. got[j] = <<>> BY DEF Queued
  <2> QED BY <2>2, <2>3, <1>1
<1>4. Queued(requests, t) BY <1>1, <1>3 DEF Queued
<1> QED BY <1>4 DEF t

\* A read is answered.
LEMMA AnswersRead ==
  ASSUME NEW s, NEW a, Parts(s, a), NEW r, Free(s, r), NEW x, NEW done \in BOOLEAN,
         Suits(x, a[r], done)
  PROVE  LET t == Answer(s, r, x, done)
         IN  /\ Differ(s, t, {"reads", "got"}) /\ t.got = [s.got EXCEPT ![r] = x]
             /\ Parts(t, a)
<1> DEFINE t == Answer(s, r, x, done)
           o == IF done THEN Done ELSE Filled
<1>1. s.got \in Seq(Seq(Nat)) /\ s.reads \in Seq(Int) /\ Len(s.got) = Len(s.reads)
      /\ FieldNames \subseteq DOMAIN s
  BY DEF Parts, Fields
<1>2. Differ(s, t, {"reads", "got"}) /\ t.got = [s.got EXCEPT ![r] = x]
      /\ t.reads = [s.reads EXCEPT ![r] = o]
  BY <1>1 DEF Answer, Differ, FieldNames
<1> HIDE DEF t
<1>3. o \in Int /\ (o = Filled => ~done) BY DEF Done, Filled
<1> HIDE DEF o
<1>4. r \in 1..Len(s.got) /\ x \in Seq(Nat) BY DEF Free, Suits
<1>5. t.got \in Seq(Seq(Nat)) /\ Len(t.got) = Len(s.got)
      /\ \A i \in 1..Len(s.got) : t.got[i] = IF i = r THEN x ELSE s.got[i]
  BY <1>1, <1>2, <1>4, ExceptSeq, SMTT(30)
<1>6. t.reads \in Seq(Int) /\ Len(t.reads) = Len(s.reads)
      /\ \A i \in 1..Len(s.got) : t.reads[i] = IF i = r THEN o ELSE s.reads[i]
  BY <1>1, <1>2, <1>3, <1>4, ExceptSeq, SMTT(30)
<1>7. Fields(t) BY <1>1, <1>2, <1>5, <1>6 DEF Parts, Fields, FieldNames, Differ
<1>8. AnswerInv(t, a)
  <2>1. a \in Seq(Asks) /\ Len(s.got) = Len(a) BY DEF Parts, AnswerInv
  <2>2. ASSUME NEW i \in 1..Len(a)
        PROVE  /\ Len(t.got[i]) % a[i].elementSize = 0
               /\ t.reads[i] = Filled => Len(t.got[i]) >= a[i].minimumFill
    <3>1. CASE i = r BY <3>1, <2>1, <1>3, <1>5, <1>6 DEF Suits
    <3>2. CASE i # r BY <3>2, <2>1, <1>5, <1>6 DEF Parts, AnswerInv
    <3> QED BY <3>1, <3>2
  <2> QED BY <2>1, <2>2, <1>5 DEF AnswerInv
<1>9. ControllerInv(t) BY <1>2 DEF Differ, FieldNames, Parts, ControllerInv
<1>10. {"reads", "got"} \cap {"byobRequest", "pendingPullIntos", "reader", "byob",
                              "readIntoRequests"} = {}
  OBVIOUS
<1>11. DescriptorInv(t) BY <1>2, <1>10, Unaffected DEF Parts
<1>12. t.readRequests = s.readRequests /\ t.readIntoRequests = s.readIntoRequests
       /\ t.state = s.state /\ t.reader = s.reader /\ t.byob = s.byob
       /\ t.pendingPullIntos = s.pendingPullIntos
  BY <1>2 DEF Differ, FieldNames
<1>13. Queued(s.readRequests, t.got) /\ Queued(s.readIntoRequests, t.got)
  <2>1. s.readRequests \in Seq(Nat) /\ s.readIntoRequests \in Seq(Nat) BY DEF Parts, Fields
  <2>2. Queued(s.readRequests, s.got) /\ Queued(s.readIntoRequests, s.got)
    BY DEF Parts, RequestInv
  <2>3. (\A i \in 1..Len(s.readRequests) : r < s.readRequests[i])
        /\ \A i \in 1..Len(s.readIntoRequests) : r < s.readIntoRequests[i]
    BY DEF Free
  <2>4. Queued(s.readRequests, [s.got EXCEPT ![r] = x])
    BY <2>1, <2>2, <2>3, <1>1, <1>4, StaysQueued
  <2>5. Queued(s.readIntoRequests, [s.got EXCEPT ![r] = x])
    BY <2>1, <2>2, <2>3, <1>1, <1>4, StaysQueued
  <2> QED BY <2>4, <2>5, <1>2
<1>14. RequestInv(t, a)
  <2>1. RequestInv(s, a) BY DEF Parts
  <2> QED BY <2>1, <1>12, <1>13 DEF RequestInv, NoneHead
<1> QED BY <1>2, <1>7, <1>8, <1>9, <1>11, <1>14 DEF Parts, t

\* A queue without bytes has no entries.
LEMMA QueueSize ==
  ASSUME NEW s, NEW h, NEW q, Consecutive(s.queue, h, q), s.queue \in Seq(Seq(Nat) \ {<<>>})
  PROVE  QueueTotalSize(s) = q - h /\ (QueueTotalSize(s) = 0 <=> s.queue = <<>>)
<1>1. h \in Nat /\ q \in Nat /\ h <= q /\ QueueTotalSize(s) = q - h
  BY Ends DEF QueueTotalSize
<1>2. CASE s.queue = <<>>
  <2>1. h = q BY <1>2, EmptyLine
  <2> QED BY <2>1, <1>1, <1>2
<1>3. CASE s.queue # <<>>
  <2>1. PICK m \in Nat : Run(Head(s.queue), h, m) /\ m <= q BY <1>3, LineTail
  <2>2. Head(s.queue) \in Seq(Nat) \ {<<>>} BY <1>3
  <2>3. Len(Head(s.queue)) \in Nat /\ Len(Head(s.queue)) # 0 BY <2>2
  <2>4. m > h BY <1>1, <2>1, <2>3 DEF Run
  <2> QED BY <1>1, <1>3, <2>1, <2>4
<1> QED BY <1>2, <1>3

PullFields == {"pull", "pullAgain"}

\* After the queue has been read from.
LEMMA HandlesDrain ==
  ASSUME NEW s, NEW a, Parts(s, a), s.state = "readable", NEW h, NEW q,
         Consecutive(s.queue, h, q)
  PROVE  LET t == readableByteStreamControllerHandleQueueDrain(s)
         IN  /\ Parts(t, a) /\ Differ(s, t, EndFields \cup PullFields)
             /\ ~s.closeRequested => Differ(s, t, PullFields)
             /\ t.state = "closed" => t.queue = <<>>
             /\ t.state \in {"readable", "closed"}
             /\ t.state = "readable" => Differ(s, t, PullFields)
             /\ t.state = "readable" /\ t.closeRequested => t.queue # <<>>
             /\ t.state = "closed" => t.readRequests = <<>>
             /\ PullGoes(s, t)
<1> DEFINE t == readableByteStreamControllerHandleQueueDrain(s)
           v == Asserting(s, s.state = "readable")
<1>1. Fields(s) /\ ControllerInv(s) BY DEF Parts
<1>2. Differ(s, v, {"failed"}) /\ Fields(v) /\ v.failed = s.failed /\ ControllerInv(v)
  <2>1. (s.state = "readable") \in BOOLEAN OBVIOUS
  <2>2. Differ(s, v, {"failed"}) /\ Fields(v) /\ ControllerInv(v)
        /\ v.failed = (s.failed \/ ~(s.state = "readable"))
    BY <2>1, <1>1, Asserts
  <2>3. s.failed \in BOOLEAN BY <1>1 DEF Fields
  <2> HIDE DEF v
  <2> QED BY <2>2, <2>3
<1>3. QueueTotalSize(s) = 0 <=> s.queue = <<>> BY <1>1, QueueSize DEF Fields
<1>4. t = IF QueueTotalSize(s) = 0 /\ s.closeRequested
            THEN readableStreamClose([v EXCEPT !.algorithms = FALSE])
            ELSE readableByteStreamControllerCallPullIfNeeded(v)
  BY DEF readableByteStreamControllerHandleQueueDrain
<1> HIDE DEF v, t
<1>5. Parts(v, a)
  <2>1. {"failed"} \cap {"byobRequest", "pendingPullIntos", "reader", "byob",
                         "readIntoRequests"} = {}
        /\ {"failed"} \cap {"readRequests", "readIntoRequests", "state", "reader", "byob",
                            "got", "pendingPullIntos"} = {}
        /\ {"failed"} \cap {"got", "reads"} = {}
    OBVIOUS
  <2>2. DescriptorInv(v) /\ RequestInv(v, a) /\ AnswerInv(v, a)
    BY <2>1, <1>2, Unaffected DEF Parts
  <2> QED BY <2>2, <1>2 DEF Parts
<1>6. Differ(s, v, {}) BY <1>2 DEF Differ
<1>7. v.state = "readable" /\ v.queue = s.queue /\ v.closeRequested = s.closeRequested
  BY <1>6 DEF Differ, FieldNames
<1>8. CASE s.queue = <<>> /\ s.closeRequested
  <2>1. t = readableStreamClose([v EXCEPT !.algorithms = FALSE]) BY <1>3, <1>4, <1>8
  <2>2. Parts(t, a) /\ t.state = "closed" /\ t.readRequests = <<>> /\ Differ(v, t, EndFields)
    BY <2>1, <1>5, <1>7, <1>8, BytesClose
  <2>3. t.queue = <<>> BY <2>2, <1>7, <1>8 DEF Differ, FieldNames, EndFields
  <2>4. Differ(s, t, EndFields \cup PullFields)
    BY <2>2, <1>6 DEF Differ
  <2>5. ~readableByteStreamControllerShouldCallPull(t)
    BY <2>2 DEF readableByteStreamControllerShouldCallPull
  <2>6. t.pull = s.pull BY <2>2, <1>6 DEF Differ, FieldNames, EndFields
  <2>7. PullGoes(s, t) BY <2>5, <2>6 DEF PullGoes, KeepsPull
  <2> QED BY <2>2, <2>3, <2>4, <2>7, <1>8 DEF t
<1>9. CASE ~(s.queue = <<>> /\ s.closeRequested)
  <2>1. t = readableByteStreamControllerCallPullIfNeeded(v) BY <1>3, <1>4, <1>9
  <2>2. Differ(v, t, PullFields) /\ Fields(t) /\ ControllerInv(t)
        /\ PullGoes(v, t)
    BY <2>1, <1>2, PullsIfNeeded DEF PullFields
  <2>3. Differ(s, t, PullFields) /\ Differ(s, t, EndFields \cup PullFields)
    BY <2>2, <1>6 DEF Differ
  <2>4. PullFields \cap {"byobRequest", "pendingPullIntos", "reader", "byob",
                         "readIntoRequests"} = {}
        /\ PullFields \cap {"readRequests", "readIntoRequests", "state", "reader", "byob",
                            "got", "pendingPullIntos"} = {}
        /\ PullFields \cap {"got", "reads"} = {}
    BY DEF PullFields
  <2>5. DescriptorInv(t) /\ RequestInv(t, a) /\ AnswerInv(t, a)
    BY <2>4, <2>3, Unaffected DEF Parts
  <2>6. t.state = "readable" /\ t.queue = s.queue /\ t.closeRequested = s.closeRequested
    BY <2>3 DEF Differ, FieldNames, PullFields
  <2>7. v.pull = s.pull BY <1>6 DEF Differ, FieldNames
  <2>8. PullGoes(s, t) BY <2>2, <2>7 DEF PullGoes, KeepsPull
  <2> QED BY <2>2, <2>3, <2>5, <2>6, <2>8, <1>9 DEF Parts, t
<1> QED BY <1>8, <1>9

TakeFields == {"queue", "got", "reads", "pull", "pullAgain"}

\* Without a descriptor that has bytes the queue follows what the reads have.
LEMMA LineFromQueue ==
  ASSUME NEW s, NEW q, LineTo(s, q), HeadBytes(s) = <<>>
  PROVE  \E g \in Nat : Consecutive(s.got, 0, g) /\ Consecutive(s.queue, g, q)
<1>1. PICK g \in Nat, h \in Nat : /\ Consecutive(s.got, 0, g) /\ Run(HeadBytes(s), g, h)
                                  /\ Consecutive(s.queue, h, q)
  BY DEF LineTo
<1>2. h = g BY <1>1 DEF Run
<1> QED BY <1>1, <1>2

\* A read request gets the first entry of the queue.
LEMMA FillsReadRequest ==
  ASSUME NEW s, NEW a, NEW q, Core(s, a, q), s.state = "readable", s.queue # <<>>,
         HeadBytes(s) = <<>>, NEW r, Free(s, r), a[r].elementSize = 1, a[r].minimumFill = 1
  PROVE  LET t == readableByteStreamControllerFillReadRequestFromQueue(s, r)
         IN  /\ Core(t, a, q) /\ t.queue = Tail(s.queue)
             /\ Differ(s, t, EndFields \cup TakeFields)
             /\ ~s.closeRequested => Differ(s, t, TakeFields)
             /\ t.state \in {"readable", "closed"}
             /\ t.state = "readable" => Differ(s, t, TakeFields)
             /\ t.state = "readable" /\ t.closeRequested => t.queue # <<>>
             /\ t.state = "closed" => t.readRequests = <<>> /\ t.queue = <<>>
             /\ PullGoes(s, t)
<1> DEFINE t == readableByteStreamControllerFillReadRequestFromQueue(s, r)
           v == [s EXCEPT !.queue = Tail(@)]
           u == readableByteStreamControllerHandleQueueDrain(v)
           x == Head(s.queue)
<1>1. t = Answer(u, r, x, FALSE) BY DEF readableByteStreamControllerFillReadRequestFromQueue
<1>2. Differ(s, v, {"queue"}) /\ v.queue = Tail(s.queue)
  BY DEF Core, Parts, Fields, Differ, FieldNames
<1> HIDE DEF v
<1>3. PICK g \in Nat : Consecutive(s.got, 0, g) /\ Consecutive(s.queue, g, q)
  BY LineFromQueue DEF Core
<1>4. PICK m \in Nat : Run(x, g, m) /\ Consecutive(Tail(s.queue), m, q) BY <1>3, LineTail
<1>5. Tail(s.queue) \in Seq(Seq(Nat) \ {<<>>}) /\ x \in Seq(Nat) \ {<<>>}
  BY HeadTailProperties DEF Core, Parts, Fields
<1> HIDE DEF x
<1>6. Parts(v, a)
  <2>1. Fields(v) BY <1>2, <1>5 DEF Core, Parts, Fields, Differ, FieldNames
  <2>2. ControllerInv(v) BY <1>2 DEF Core, Parts, ControllerInv, Differ, FieldNames
  <2>3. {"queue"} \cap {"byobRequest", "pendingPullIntos", "reader", "byob",
                        "readIntoRequests"} = {}
        /\ {"queue"} \cap {"readRequests", "readIntoRequests", "state", "reader", "byob",
                           "got", "pendingPullIntos"} = {}
        /\ {"queue"} \cap {"got", "reads"} = {}
    OBVIOUS
  <2>4. DescriptorInv(v) /\ RequestInv(v, a) /\ AnswerInv(v, a)
    BY <2>3, <1>2, Unaffected DEF Core, Parts
  <2> QED BY <2>1, <2>2, <2>4 DEF Parts
<1>7. v.state = "readable" /\ v.closeRequested = s.closeRequested
  BY <1>2 DEF Differ, FieldNames
<1>8. /\ Parts(u, a) /\ Differ(v, u, EndFields \cup PullFields)
      /\ ~v.closeRequested => Differ(v, u, PullFields)
      /\ u.state = "closed" => u.queue = <<>>
      /\ u.state \in {"readable", "closed"}
      /\ u.state = "readable" => Differ(v, u, PullFields)
      /\ u.state = "readable" /\ u.closeRequested => u.queue # <<>>
      /\ u.state = "closed" => u.readRequests = <<>>
      /\ PullGoes(v, u)
  BY <1>2, <1>4, <1>6, <1>7, HandlesDrain
<1> HIDE DEF u
<1>9. u.got = s.got /\ u.queue = Tail(s.queue) /\ u.readIntoRequests = s.readIntoRequests
      /\ u.pendingPullIntos = s.pendingPullIntos
  BY <1>2, <1>8 DEF Differ, FieldNames, EndFields, PullFields
<1>10. u.readRequests = s.readRequests \/ u.readRequests = <<>>
  BY <1>2, <1>8 DEF Differ, FieldNames, PullFields
<1>11. Free(u, r) BY <1>9, <1>10 DEF Free
<1>12. Suits(x, a[r], FALSE)
  <2>1. Len(x) \in Nat /\ Len(x) >= 1 BY <1>5
  <2>2. Len(x) % 1 = 0 BY <2>1
  <2> QED BY <2>1, <2>2, <1>5 DEF Suits
<1>13. Differ(u, t, {"reads", "got"}) /\ t.got = [u.got EXCEPT ![r] = x] /\ Parts(t, a)
  <2>1. PICK b \in BOOLEAN : b = FALSE OBVIOUS
  <2>2. t = Answer(u, r, x, b) /\ Suits(x, a[r], b) BY <1>1, <1>12, <2>1
  <2> HIDE DEF t
  <2>3. LET w == Answer(u, r, x, b)
        IN  /\ Differ(u, w, {"reads", "got"}) /\ w.got = [u.got EXCEPT ![r] = x]
            /\ Parts(w, a)
    BY <1>8, <1>11, <2>2, AnswersRead
  <2> QED BY <2>2, <2>3
<1> HIDE DEF t
<1>14. t.queue = Tail(s.queue) /\ t.pendingPullIntos = s.pendingPullIntos
  BY <1>9, <1>13 DEF Differ, FieldNames
<1>15. Consecutive(t.got, 0, m)
  <2>1. r \in 1..Len(s.got) /\ \A j \in r..Len(s.got) : s.got[j] = <<>> BY DEF Free
  <2> QED BY <2>1, <1>3, <1>4, <1>9, <1>13, LineAnswer
<1>16. LineTo(t, q)
  <2>1. HeadBytes(t) = <<>> BY <1>14 DEF HeadBytes
  <2>2. Run(<<>>, m, m) BY RunFacts
  <2> QED BY <2>1, <2>2, <1>4, <1>14, <1>15 DEF LineTo
<1>17. Differ(s, t, EndFields \cup TakeFields)
  BY <1>2, <1>8, <1>13 DEF Differ, FieldNames, EndFields, TakeFields, PullFields
<1>18. ~s.closeRequested => Differ(s, t, TakeFields)
  BY <1>2, <1>7, <1>8, <1>13 DEF Differ, FieldNames, TakeFields, PullFields
<1>19. t.state = u.state /\ t.closeRequested = u.closeRequested /\ t.pull = u.pull
       /\ t.pullAgain = u.pullAgain
       /\ t.readRequests = u.readRequests /\ t.queue = u.queue /\ t.hwm = u.hwm
       /\ t.start = u.start /\ t.readIntoRequests = u.readIntoRequests
  BY <1>13 DEF Differ, FieldNames
<1>20. t.state = "readable" => Differ(s, t, TakeFields)
  BY <1>2, <1>8, <1>13, <1>19 DEF Differ, FieldNames, TakeFields, PullFields
<1>21. PullGoes(s, t)
  <2>1. v.pull = s.pull BY <1>2 DEF Differ, FieldNames
  <2>2. readableByteStreamControllerShouldCallPull(t) => readableByteStreamControllerShouldCallPull(u)
    BY <1>19 DEF readableByteStreamControllerShouldCallPull, QueueTotalSize
  <2> QED BY <2>1, <2>2, <1>8, <1>19 DEF PullGoes, KeepsPull
<1> QED BY <1>8, <1>13, <1>14, <1>16, <1>17, <1>18, <1>19, <1>20, <1>21 DEF Core, t

\* A default reader: its descriptors hold no bytes.
DefaultReading(s) ==
  s.state = "readable" /\ ~s.closeRequested /\ s.reader /\ ~s.byob /\ NoneHead(s) = 0

\* A descriptor of a default reader has no bytes.
LEMMA NoHeadBytes ==
  ASSUME NEW s, NEW a, Parts(s, a),
         (s.reader /\ ~s.byob /\ NoneHead(s) = 0) \/ DefaultOnly(s)
  PROVE  HeadBytes(s) = <<>>
<1>1. CASE s.pendingPullIntos = <<>> BY <1>1 DEF HeadBytes
<1>2. CASE s.pendingPullIntos # <<>>
  <2> DEFINE d == s.pendingPullIntos[1]
  <2>1. s.pendingPullIntos \in Seq(Descriptors) BY DEF Parts, Fields
  <2>2. 1 \in 1..Len(s.pendingPullIntos) /\ d \in Descriptors BY <2>1, <1>2
  <2>3. WellMade(d) /\ (d.readerType = "byob" => s.reader /\ s.byob)
    BY <2>2 DEF Parts, DescriptorInv
  <2>4. d.minimumFill = 1
    <3>1. CASE DefaultOnly(s) BY <3>1, <2>2 DEF DefaultOnly
    <3>2. CASE ~DefaultOnly(s)
      <4>1. d.readerType # "none" /\ d.readerType # "byob"
        BY <2>3, <3>2, <1>2 DEF NoneHead
      <4>2. d.readerType = "default" BY <4>1, <2>2 DEF Descriptors
      <4> QED BY <4>2, <2>3 DEF WellMade
    <3> QED BY <3>1, <3>2
  <2>5. d.bytes \in Seq(Nat) /\ Len(d.bytes) < 1 BY <2>2, <2>3, <2>4 DEF WellMade, Descriptors
  <2>6. d.bytes = <<>> BY <2>5
  <2> QED BY <2>6, <1>2 DEF HeadBytes
<1> QED BY <1>1, <1>2

\* The first of the reads that wait is taken.
LEMMA QueuedTail ==
  ASSUME NEW requests \in Seq(Nat), NEW got \in Seq(Seq(Nat)), Queued(requests, got),
         requests # <<>>
  PROVE  /\ Queued(Tail(requests), got) /\ Tail(requests) \in Seq(Nat)
         /\ Head(requests) = requests[1] /\ Head(requests) \in 1..Len(got)
         /\ \A j \in Head(requests)..Len(got) : got[j] = <<>>
         /\ \A i \in 1..Len(Tail(requests)) : Head(requests) < Tail(requests)[i]
<1> DEFINE n == Len(requests)
           t == Tail(requests)
<1>1. n \in Nat /\ n >= 1 /\ Head(requests) = requests[1] /\ t \in Seq(Nat) /\ Len(t) = n - 1
      /\ \A i \in 1..(n - 1) : t[i] = requests[i + 1]
  BY HeadTailProperties
<1> HIDE DEF t
<1>2. 1 \in 1..n /\ \A i \in 1..(n - 1) : i + 1 \in 1..n BY <1>1
<1>3. ASSUME NEW i \in 1..(n - 1)
      PROVE  t[i] \in 1..Len(got) /\ requests[1] < t[i]
             /\ \A j \in t[i]..Len(got) : got[j] = <<>>
  <2>1. i + 1 \in 1..n /\ 1 < i + 1 /\ t[i] = requests[i + 1] BY <1>1
  <2> QED BY <2>1, <1>2 DEF Queued
<1>4. ASSUME NEW i \in 1..(n - 1), NEW j \in 1..(n - 1), i < j PROVE t[i] < t[j]
  <2>1. i + 1 \in 1..n /\ j + 1 \in 1..n /\ i + 1 < j + 1 BY <1>1, <1>4
  <2> QED BY <2>1, <1>1 DEF Queued
<1>5. requests[1] \in 1..Len(got) /\ \A j \in requests[1]..Len(got) : got[j] = <<>>
  BY <1>2 DEF Queued
<1>6. Queued(t, got) BY <1>1, <1>3, <1>4 DEF Queued
<1> QED BY <1>1, <1>3, <1>5, <1>6 DEF t

\* A turn of the loop over the read requests.
LEMMA ProcessesRead ==
  ASSUME NEW s, NEW a, NEW q, Core(s, a, q), DefaultReading(s)
  PROVE  LET t == ProcessReadRequest(s)
         IN  /\ Core(t, a, q) /\ DefaultReading(t)
             /\ Differ(s, t, TakeFields \cup {"readRequests"}) /\ KeepsPull(s, t)
             /\ IF s.readRequests = <<>> \/ s.queue = <<>> THEN t = s
                ELSE t.readRequests = Tail(s.readRequests)
<1> DEFINE t == ProcessReadRequest(s)
<1>1. CASE s.readRequests = <<>> \/ s.queue = <<>>
  <2>1. t = s BY <1>1 DEF ProcessReadRequest
  <2>2. Differ(s, s, TakeFields \cup {"readRequests"}) BY DEF Core, Parts, Fields, Differ
  <2> HIDE DEF t
  <2> QED BY <1>1, <2>1, <2>2 DEF t, KeepsPull
<1>2. CASE s.readRequests # <<>> /\ s.queue # <<>>
  <2> DEFINE v == [s EXCEPT !.readRequests = Tail(@)]
             r == Head(s.readRequests)
  <2>1. t = readableByteStreamControllerFillReadRequestFromQueue(v, r)
    BY <1>2 DEF ProcessReadRequest
  <2>2. Differ(s, v, {"readRequests"}) /\ v.readRequests = Tail(s.readRequests)
    BY DEF Core, Parts, Fields, Differ, FieldNames
  <2> HIDE DEF v
  <2>3. s.readRequests \in Seq(Nat) /\ s.got \in Seq(Seq(Nat)) /\ Queued(s.readRequests, s.got)
    BY DEF Core, Parts, Fields, RequestInv
  <2>4. /\ Queued(v.readRequests, s.got) /\ v.readRequests \in Seq(Nat)
        /\ r = s.readRequests[1] /\ r \in 1..Len(s.got)
        /\ \A j \in r..Len(s.got) : s.got[j] = <<>>
        /\ \A i \in 1..Len(v.readRequests) : r < v.readRequests[i]
    BY <1>2, <2>2, <2>3, QueuedTail
  <2>5. v.got = s.got /\ v.readIntoRequests = s.readIntoRequests /\ v.state = s.state
        /\ v.queue = s.queue /\ v.pendingPullIntos = s.pendingPullIntos
        /\ v.reader = s.reader /\ v.byob = s.byob /\ v.closeRequested = s.closeRequested
    BY <2>2 DEF Differ, FieldNames
  <2>6. s.readIntoRequests = <<>>
    BY DEF DefaultReading, Core, Parts, RequestInv
  <2>7. Fields(v) BY <2>2, <2>4 DEF Core, Parts, Fields, Differ, FieldNames
  <2>8. ControllerInv(v) BY <2>2 DEF Core, Parts, ControllerInv, Differ, FieldNames
  <2>9. RequestInv(v, a)
    <3>1. \A i \in 1..Len(v.readRequests) :
             a[v.readRequests[i]].elementSize = 1 /\ a[v.readRequests[i]].minimumFill = 1
      <4> TAKE i \in 1..Len(v.readRequests)
      <4>1. i + 1 \in 1..Len(s.readRequests) /\ v.readRequests[i] = s.readRequests[i + 1]
        BY <1>2, <2>2, <2>3, HeadTailProperties
      <4> QED BY <4>1 DEF Core, Parts, RequestInv
    <3>2. v.state = "readable" /\ v.reader /\ ~v.byob BY <2>5 DEF DefaultReading
    <3>3. Queued(v.readIntoRequests, v.got) BY <2>5, <2>6, NobodyQueued
    <3>4. Len(v.readIntoRequests) = 0 BY <2>5, <2>6
    <3> QED BY <3>1, <3>2, <3>3, <3>4, <2>4, <2>5, <2>6 DEF RequestInv
  <2>10. {"readRequests"} \cap {"byobRequest", "pendingPullIntos", "reader", "byob",
                                "readIntoRequests"} = {}
         /\ {"readRequests"} \cap {"got", "reads"} = {}
         /\ {"readRequests"} \cap {"got", "pendingPullIntos", "queue"} = {}
    OBVIOUS
  <2>11. DescriptorInv(v) /\ AnswerInv(v, a) /\ LineTo(v, q)
    BY <2>10, <2>2, Unaffected DEF Core, Parts
  <2>12. Core(v, a, q) BY <2>7, <2>8, <2>9, <2>11 DEF Core, Parts
  <2>13. Free(v, r) BY <2>4, <2>5, <2>6 DEF Free
  <2>14. HeadBytes(v) = <<>>
    <3>1. s.reader /\ ~s.byob /\ NoneHead(s) = 0 BY DEF DefaultReading
    <3>2. HeadBytes(s) = <<>> BY <3>1, NoHeadBytes DEF Core
    <3> QED BY <3>2, <2>5 DEF HeadBytes
  <2>15. a[r].elementSize = 1 /\ a[r].minimumFill = 1
    <3>1. 1 \in 1..Len(s.readRequests) BY <1>2, <2>3
    <3> QED BY <3>1, <2>4 DEF Core, Parts, RequestInv
  <2>16. v.state = "readable" /\ v.queue # <<>> /\ ~v.closeRequested
    BY <1>2, <2>5 DEF DefaultReading
  <2> HIDE DEF r
  <2>17. Core(t, a, q) /\ Differ(v, t, TakeFields) /\ PullGoes(v, t)
    BY <2>1, <2>12, <2>13, <2>14, <2>15, <2>16, FillsReadRequest
  <2> HIDE DEF t
  <2>18. Differ(s, t, TakeFields \cup {"readRequests"})
         /\ t.readRequests = Tail(s.readRequests)
    BY <2>2, <2>17 DEF Differ, FieldNames, TakeFields
  <2>19. DefaultReading(t)
    BY <2>18 DEF Differ, FieldNames, TakeFields, DefaultReading, NoneHead
  <2>20. v.pull = s.pull BY <2>2 DEF Differ, FieldNames
  <2>21. KeepsPull(s, t) BY <2>17, <2>20 DEF PullGoes, KeepsPull
  <2> QED BY <1>2, <2>17, <2>18, <2>19, <2>21 DEF t
<1> QED BY <1>1, <1>2

\* The read requests that the queue can answer are answered.
LEMMA ProcessesReads ==
  ASSUME NEW s, NEW a, NEW q, Core(s, a, q), DefaultReading(s)
  PROVE  LET t == readableByteStreamControllerProcessReadRequestsUsingQueue(s)
         IN  /\ Core(t, a, q) /\ DefaultReading(t)
             /\ Differ(s, t, TakeFields \cup {"readRequests"}) /\ KeepsPull(s, t)
             /\ t.readRequests = <<>> \/ t.queue = <<>>
             /\ s.readRequests = <<>> \/ s.queue = <<>> => t = s
<1> DEFINE n == Len(s.readRequests)
           t == readableByteStreamControllerProcessReadRequestsUsingQueue(s)
<1>1. s.readRequests \in Seq(Nat) /\ n \in Nat BY DEF Core, Parts, Fields
<1>2. PICK f : Turns(f, "reads", s, n) /\ t = f[n] BY <1>1, LoopReads
<1> HIDE DEF t, n
<1>3. f[0] = s /\ \A k \in 1..n : f[k] = ProcessReadRequest(f[k - 1])
  <2>1. Turns(f, "reads", s, n) BY <1>2
  <2>2. n \in Nat BY <1>1
  <2>3. f[0] = s /\ \A k \in 1..n : f[k] = Turn("reads", f[k - 1])
    BY <2>1, <2>2, TurnByTurn
  <2> QED BY <2>3 DEF Turn
<1> DEFINE Inv(k) ==
             /\ Core(f[k], a, q) /\ DefaultReading(f[k])
             /\ Differ(s, f[k], TakeFields \cup {"readRequests"}) /\ KeepsPull(s, f[k])
             /\ \/ f[k].readRequests = <<>> \/ f[k].queue = <<>>
                \/ Len(f[k].readRequests) <= n - k
             /\ s.readRequests = <<>> \/ s.queue = <<>> => f[k] = s
           T == {k \in Nat : k <= n => Inv(k)}
<1>4. 0 \in T
  <2>1. Differ(s, s, TakeFields \cup {"readRequests"}) BY DEF Core, Parts, Fields, Differ
  <2>2. Inv(0) BY <2>1, <1>1, <1>3 DEF n, KeepsPull
  <2> QED BY <2>2
<1>5. ASSUME NEW k \in Nat, k \in T PROVE k + 1 \in T
  <2> SUFFICES ASSUME k + 1 <= n PROVE Inv(k + 1) OBVIOUS
  <2>1. k + 1 \in 1..n /\ (k + 1) - 1 = k /\ k <= n BY <1>1
  <2> DEFINE u == f[k]
             v == f[k + 1]
  <2>2. v = ProcessReadRequest(u) BY <2>1, <1>3
  <2>3. /\ Core(u, a, q) /\ DefaultReading(u)
        /\ Differ(s, u, TakeFields \cup {"readRequests"}) /\ KeepsPull(s, u)
        /\ \/ u.readRequests = <<>> \/ u.queue = <<>> \/ Len(u.readRequests) <= n - k
        /\ s.readRequests = <<>> \/ s.queue = <<>> => u = s
    BY <1>5, <2>1
  <2> HIDE DEF u, v
  <2>4. /\ Core(v, a, q) /\ DefaultReading(v)
        /\ Differ(u, v, TakeFields \cup {"readRequests"}) /\ KeepsPull(u, v)
        /\ IF u.readRequests = <<>> \/ u.queue = <<>> THEN v = u
           ELSE v.readRequests = Tail(u.readRequests)
    BY <2>2, <2>3, ProcessesRead
  <2>5. Differ(s, v, TakeFields \cup {"readRequests"}) BY <2>3, <2>4 DEF Differ
  <2>6. v.readRequests = <<>> \/ v.queue = <<>> \/ Len(v.readRequests) <= n - (k + 1)
    <3>1. CASE u.readRequests = <<>> \/ u.queue = <<>> BY <3>1, <2>4
    <3>2. CASE ~(u.readRequests = <<>> \/ u.queue = <<>>)
      <4>1. u.readRequests \in Seq(Nat) BY <2>3 DEF Core, Parts, Fields
      <4>2. v.readRequests = Tail(u.readRequests) /\ u.readRequests # <<>> BY <3>2, <2>4
      <4>3. Len(v.readRequests) = Len(u.readRequests) - 1 /\ Len(u.readRequests) \in Nat
        BY <4>2, <4>1, HeadTailProperties
      <4> QED BY <3>2, <4>3, <2>3, <1>1
    <3> QED BY <3>1, <3>2
  <2>7. s.readRequests = <<>> \/ s.queue = <<>> => v = s BY <2>3, <2>4
  <2>8. KeepsPull(s, v) BY <2>3, <2>4 DEF KeepsPull
  <2> QED BY <2>4, <2>5, <2>6, <2>7, <2>8 DEF v
<1>6. Inv(n)
  <2> HIDE DEF T
  <2>1. Nat \subseteq T BY <1>4, <1>5, SetInduction
  <2>2. n \in T BY <2>1, <1>1
  <2> HIDE DEF Inv
  <2> QED BY <2>2, <1>1 DEF T
<1>7. t.readRequests = <<>> \/ t.queue = <<>>
  <2>1. t.readRequests \in Seq(Nat) BY <1>2, <1>6 DEF Core, Parts, Fields
  <2>2. Len(t.readRequests) <= n - n => t.readRequests = <<>> BY <2>1, <1>1
  <2> QED BY <2>2, <1>2, <1>6
<1> QED BY <1>2, <1>6, <1>7 DEF t

-----------------------------------------------------------------------------
(* A view is filled from the queue. *)

\* How many bytes can be in a descriptor that has l, and how many of them are elements.
Most(l, size, len) == Min({l + size, len})
Aligned(l, size, len, e) == Most(l, size, len) - (Most(l, size, len) % e)
Amount(l, size, len, min, e) ==
  (IF Aligned(l, size, len, e) >= min THEN Aligned(l, size, len, e) ELSE Most(l, size, len)) - l

\* How many bytes go into a descriptor: whole elements that make at least the minimum,
\* or else all there are.
LEMMA FillAmount ==
  ASSUME NEW l \in Nat, NEW size \in Nat, size > 0, NEW len \in Nat, NEW min \in Nat,
         NEW e \in Numbers, l < min, min <= len, min % e = 0
  PROVE  LET ready == Aligned(l, size, len, e) >= min
             n == Amount(l, size, len, min, e)
         IN  /\ n \in 1..size /\ l + n <= len /\ l + n \in Nat
             /\ ready => l + n >= min /\ (l + n) % e = 0
             /\ ~ready => l + n < min /\ n = size /\ Most(l, size, len) < min
<1> DEFINE most == Most(l, size, len)
           aligned == Aligned(l, size, len, e)
           n == Amount(l, size, len, min, e)
<1>1. most = IF l + size <= len THEN l + size ELSE len
  <2>1. l + size \in Nat OBVIOUS
  <2> QED BY <2>1, MinOfTwo DEF Most
<1>2. most \in Nat /\ most <= l + size /\ most <= len BY <1>1
<1>3. aligned = most - (most % e) /\ n = (IF aligned >= min THEN aligned ELSE most) - l
  BY DEF Aligned, Amount
<1> HIDE DEF most, aligned, n
<1>4. most % e \in 0..(e - 1) /\ most % e <= most /\ most - (most % e) \in Nat
      /\ (most - (most % e)) % e = 0
      /\ (min <= most => min <= most - (most % e))
  BY <1>2, Remainder
<1>5. aligned \in Nat /\ aligned <= most /\ aligned % e = 0 /\ (min <= most => min <= aligned)
  <2>1. most % e \in Nat BY <1>4 DEF Numbers
  <2>2. aligned <= most BY <2>1, <1>2, <1>3
  <2> QED BY <2>2, <1>3, <1>4
<1>6. CASE aligned >= min
  <2>1. n = aligned - l BY <1>3, <1>6
  <2>2. n \in 1..size /\ l + n = aligned BY <2>1, <1>2, <1>5, <1>6
  <2> QED BY <2>2, <1>2, <1>5, <1>6 DEF aligned, most, n
<1>7. CASE ~(aligned >= min)
  <2>1. most < min BY <1>2, <1>5, <1>7
  <2>2. most = l + size /\ n = most - l BY <2>1, <1>1, <1>3, <1>7
  <2>3. n \in 1..size /\ l + n = most /\ n = size BY <2>2, <1>2
  <2> QED BY <2>1, <2>2, <2>3, <1>2, <1>7 DEF most, aligned, n
<1> QED BY <1>6, <1>7

\* What stays of a descriptor when its bytes change.
Refilled(d, e) ==
  /\ e \in Descriptors /\ e.byteLength = d.byteLength /\ e.minimumFill = d.minimumFill
  /\ e.elementSize = d.elementSize /\ e.readerType = d.readerType

\* A descriptor with other bytes.
LEMMA Refills ==
  ASSUME NEW d \in Descriptors, NEW x \in Seq(Nat)
  PROVE  /\ Refilled(d, [d EXCEPT !.bytes = x]) /\ [d EXCEPT !.bytes = x].bytes = x
         /\ [d EXCEPT !.bytes = x].detached = d.detached
BY DEF Refilled, Descriptors

\* A descriptor is filled from the queue.
LEMMA FillsPullInto ==
  ASSUME NEW s, Fields(s), s.queue # <<>>, NEW d \in Descriptors, WellMade(d),
         NEW g \in Nat, NEW h, NEW q, Run(d.bytes, g, h), Consecutive(s.queue, h, q)
  PROVE  LET f == readableByteStreamControllerFillPullIntoDescriptorFromQueue(s, d)
             e == f.descriptor
         IN  /\ Differ(s, f.stream, {"queue", "failed"})
             /\ f.stream.failed = (s.failed \/ s.byobRequest)
             /\ f.stream.queue \in Seq(Seq(Nat) \ {<<>>})
             /\ Refilled(d, e) /\ e.detached = d.detached /\ f.ready \in BOOLEAN
             /\ Len(e.bytes) <= d.byteLength
             /\ \E m \in Nat : Run(e.bytes, g, m) /\ Consecutive(f.stream.queue, m, q)
             /\ f.ready => Len(e.bytes) >= d.minimumFill /\ Len(e.bytes) % d.elementSize = 0
             /\ ~f.ready => Len(e.bytes) < d.minimumFill /\ f.stream.queue = <<>>
<1> DEFINE size == QueueTotalSize(s)
           l == Len(d.bytes)
           most == Most(l, size, d.byteLength)
           ready == Aligned(l, size, d.byteLength, d.elementSize) >= d.minimumFill
           n == Amount(l, size, d.byteLength, d.minimumFill, d.elementSize)
           holds == /\ l < d.minimumFill /\ ~s.byobRequest
                    /\ ready \/ (n = size /\ n > 0 /\ most < d.minimumFill)
           x == SubSeq(FlattenSeq(s.queue), 1, n)
           f == readableByteStreamControllerFillPullIntoDescriptorFromQueue(s, d)
<1>1. f = [stream |-> [Asserting(s, holds) EXCEPT !.queue = Drop(@, n)],
           descriptor |-> [d EXCEPT !.bytes = @ \o x],
           ready |-> ready]
  BY DEF readableByteStreamControllerFillPullIntoDescriptorFromQueue, Amount, Aligned, Most
<1>2. s.queue \in Seq(Seq(Nat) \ {<<>>}) /\ s.failed \in BOOLEAN /\ s.byobRequest \in BOOLEAN
      /\ FieldNames \subseteq DOMAIN s
  BY DEF Fields
<1>3. h \in Nat /\ q \in Nat /\ h <= q /\ size = q - h /\ size # 0 /\ size \in Nat
  <2>1. h \in Nat /\ q \in Nat /\ h <= q BY Ends
  <2>2. size = q - h /\ (size = 0 <=> s.queue = <<>>) BY <1>2, QueueSize
  <2> HIDE DEF size
  <2> QED BY <2>1, <2>2
<1>4. d.bytes \in Seq(Nat) /\ l \in Nat /\ d.byteLength \in Nat /\ d.minimumFill \in Nat
      /\ d.elementSize \in Numbers /\ l < d.minimumFill /\ d.minimumFill <= d.byteLength
      /\ d.minimumFill % d.elementSize = 0
  BY DEF WellMade, Descriptors, Numbers
<1>5. /\ n \in 1..size /\ l + n <= d.byteLength /\ l + n \in Nat
      /\ ready => l + n >= d.minimumFill /\ (l + n) % d.elementSize = 0
      /\ ~ready => l + n < d.minimumFill /\ n = size /\ most < d.minimumFill
  <2> HIDE DEF size, l
  <2>1. size > 0 /\ size \in Nat /\ l \in Nat BY <1>3, <1>4
  <2>2. ASSUME NEW len \in Nat, NEW min \in Nat, NEW e \in Numbers,
               l < min, min <= len, min % e = 0
        PROVE  /\ Amount(l, size, len, min, e) \in 1..size
               /\ l + Amount(l, size, len, min, e) <= len
               /\ l + Amount(l, size, len, min, e) \in Nat
               /\ Aligned(l, size, len, e) >= min =>
                    /\ l + Amount(l, size, len, min, e) >= min
                    /\ (l + Amount(l, size, len, min, e)) % e = 0
               /\ ~(Aligned(l, size, len, e) >= min) =>
                    /\ l + Amount(l, size, len, min, e) < min
                    /\ Amount(l, size, len, min, e) = size /\ Most(l, size, len) < min
    BY <2>1, <2>2, FillAmount
  <2> QED BY <2>2, <1>4
<1>6. ready \in BOOLEAN OBVIOUS
<1> HIDE DEF n, most, ready
<1>7. holds \in BOOLEAN OBVIOUS
<1>8. holds <=> ~s.byobRequest
  <2>1. l < d.minimumFill /\ (ready \/ (n = size /\ n > 0 /\ most < d.minimumFill))
    BY <1>3, <1>4, <1>5, <1>6
  <2> QED BY <2>1
<1> HIDE DEF holds
<1> DEFINE v == Asserting(s, holds)
<1>9. Differ(s, v, {"failed"}) /\ v.failed = (s.failed \/ ~holds) BY <1>7, Asserts
<1>10. f.stream = [v EXCEPT !.queue = Drop(@, n)] BY <1>1
<1>11. f.descriptor = [d EXCEPT !.bytes = d.bytes \o x] /\ f.ready = ready BY <1>1
<1>12. v.failed = (s.failed \/ s.byobRequest) BY <1>2, <1>7, <1>8, <1>9
<1> HIDE DEF v, f, size
<1>13. v.queue = s.queue BY <1>9 DEF Differ, FieldNames
<1>14. Differ(s, f.stream, {"queue", "failed"}) /\ f.stream.queue = Drop(s.queue, n)
       /\ f.stream.failed = (s.failed \/ s.byobRequest)
  BY <1>9, <1>10, <1>12, <1>13 DEF Differ, FieldNames
<1>15. Run(FlattenSeq(s.queue), h, q) /\ Len(FlattenSeq(s.queue)) = size BY <1>3, Ends
<1>16. Run(x, h, h + n) /\ Len(x) = n
  <2>1. 1 \in 1..(Len(FlattenSeq(s.queue)) + 1) /\ n \in (1 - 1)..Len(FlattenSeq(s.queue))
        /\ n - 1 + 1 = n /\ h + 1 - 1 = h
    BY <1>3, <1>5, <1>15
  <2>2. Run(x, h + 1 - 1, h + n) /\ Len(x) = n - 1 + 1
    BY <2>1, <1>3, <1>15, RunSubSeq
  <2> HIDE DEF x
  <2> QED BY <2>1, <2>2
<1>17. Run(d.bytes \o x, g, h + n) /\ Len(d.bytes \o x) = l + n /\ d.bytes \o x \in Seq(Nat)
  <2> HIDE DEF x
  <2> QED BY <1>16, RunConcat
<1> HIDE DEF x
<1>18. Refilled(d, f.descriptor) /\ f.descriptor.bytes = d.bytes \o x
       /\ f.descriptor.detached = d.detached
  <2> DEFINE y == d.bytes \o x
  <2>1. y \in Seq(Nat) /\ f.descriptor = [d EXCEPT !.bytes = y] BY <1>11, <1>17
  <2> HIDE DEF y
  <2>2. /\ Refilled(d, [d EXCEPT !.bytes = y]) /\ [d EXCEPT !.bytes = y].bytes = y
        /\ [d EXCEPT !.bytes = y].detached = d.detached
    BY <2>1, Refills
  <2> QED BY <2>1, <2>2 DEF y
<1>19. Consecutive(Drop(s.queue, n), h + n, q) /\ Drop(s.queue, n) \in Seq(Seq(Nat) \ {<<>>})
       /\ (n = q - h => Drop(s.queue, n) = <<>>)
  <2>1. n \in 0..(q - h) BY <1>3, <1>5
  <2> QED BY <2>1, <1>2, LineDrop
<1>20. h + n \in Nat BY <1>3, <1>5
<1> HIDE DEF l
<1> QED BY <1>3, <1>5, <1>6, <1>11, <1>14, <1>17, <1>18, <1>19, <1>20 DEF f

-----------------------------------------------------------------------------
(* Descriptors leave the list and their reads are answered. *)

ShiftFields == {"queue", "pendingPullIntos", "failed", "byobRequest"}

\* Only the first descriptor can have bytes or be without a reader.
LEMMA PendingTail ==
  ASSUME NEW s, Fields(s), DescriptorInv(s), s.pendingPullIntos # <<>>
  PROVE  LET p == s.pendingPullIntos
             t == Tail(p)
         IN  /\ t \in Seq(Descriptors) /\ Len(p) \in Nat /\ Len(p) >= 1 /\ Len(t) = Len(p) - 1
             /\ Head(p) = p[1] /\ p[1] \in Descriptors /\ 1 \in 1..Len(p)
             /\ \A i \in 1..Len(t) :
                  /\ i + 1 \in 1..Len(p) /\ t[i] = p[i + 1] /\ t[i] \in Descriptors
                  /\ t[i].readerType # "none" /\ t[i].bytes = <<>> /\ ~t[i].detached
             /\ \A w : w.pendingPullIntos = t => NoneHead(w) = 0 /\ HeadBytes(w) = <<>>
<1> DEFINE p == s.pendingPullIntos
           t == Tail(p)
<1>1. p \in Seq(Descriptors) BY DEF Fields
<1>2. t \in Seq(Descriptors) /\ Len(p) \in Nat /\ Len(p) >= 1 /\ Len(t) = Len(p) - 1
      /\ Head(p) = p[1] /\ \A i \in 1..(Len(p) - 1) : t[i] = p[i + 1]
  BY <1>1, HeadTailProperties
<1>3. 1 \in 1..Len(p) /\ p[1] \in Descriptors BY <1>1, <1>2
<1> HIDE DEF t
<1>4. ASSUME NEW i \in 1..Len(t)
      PROVE  /\ i + 1 \in 1..Len(p) /\ t[i] = p[i + 1] /\ t[i] \in Descriptors
             /\ t[i].readerType # "none" /\ t[i].bytes = <<>> /\ ~t[i].detached
  <2>1. i + 1 \in 1..Len(p) /\ i + 1 > 1 /\ t[i] = p[i + 1] BY <1>2
  <2>2. p[i + 1] \in Descriptors BY <2>1, <1>1
  <2>3. p[i + 1].readerType # "none" /\ p[i + 1].bytes = <<>> /\ ~p[i + 1].detached
    BY <2>1 DEF DescriptorInv
  <2> QED BY <2>1, <2>2, <2>3
<1>5. ASSUME NEW w, w.pendingPullIntos = t PROVE NoneHead(w) = 0 /\ HeadBytes(w) = <<>>
  <2>1. t # <<>> => 1 \in 1..Len(t) BY <1>2
  <2>2. t # <<>> => t[1].readerType # "none" /\ t[1].bytes = <<>> BY <2>1, <1>4
  <2> QED BY <2>2, <1>5 DEF NoneHead, HeadBytes
<1> QED BY <1>2, <1>3, <1>4, <1>5 DEF t

\* The first descriptor is now e; the queue may be another one.
Replaces(s, w, e) ==
  /\ s.pendingPullIntos # <<>> /\ Differ(s, w, ShiftFields)
  /\ w.failed \in BOOLEAN /\ w.byobRequest \in BOOLEAN
  /\ w.queue \in Seq(Seq(Nat) \ {<<>>}) /\ (s.state # "readable" => w.queue = <<>>)
  /\ Refilled(s.pendingPullIntos[1], e) /\ WellMade(e)
  /\ w.pendingPullIntos = [s.pendingPullIntos EXCEPT ![1] = e]

\* The first descriptor has other bytes.
LEMMA HeadReplaced ==
  ASSUME NEW s, NEW a, Parts(s, a), NEW w, NEW e, Replaces(s, w, e)
  PROVE  /\ Parts(w, a) /\ NoneHead(w) = NoneHead(s) /\ HeadBytes(w) = e.bytes
         /\ w.pendingPullIntos # <<>> /\ w.pendingPullIntos[1] = e
         /\ Len(w.pendingPullIntos) = Len(s.pendingPullIntos)
         /\ \A i \in 2..Len(s.pendingPullIntos) : w.pendingPullIntos[i] = s.pendingPullIntos[i]
<1>1. /\ s.pendingPullIntos # <<>> /\ Differ(s, w, ShiftFields)
      /\ w.failed \in BOOLEAN /\ w.byobRequest \in BOOLEAN
      /\ w.queue \in Seq(Seq(Nat) \ {<<>>}) /\ (s.state # "readable" => w.queue = <<>>)
      /\ Refilled(s.pendingPullIntos[1], e) /\ WellMade(e)
      /\ w.pendingPullIntos = [s.pendingPullIntos EXCEPT ![1] = e]
  BY DEF Replaces
<1> USE <1>1
<1> DEFINE p == s.pendingPullIntos
           t == w.pendingPullIntos
           n == Len(p)
<1>2. p \in Seq(Descriptors) /\ e \in Descriptors /\ n \in Nat /\ n >= 1
  BY SMTT(30) DEF Parts, Fields, Refilled
<1>3. t \in Seq(Descriptors) /\ Len(t) = n /\ \A i \in 1..n : t[i] = IF i = 1 THEN e ELSE p[i]
  <2>1. 1 \in 1..Len(p) BY <1>2
  <2> QED BY <2>1, <1>2, ExceptSeq
<1> HIDE DEF t
<1>4. t # <<>> /\ t[1] = e /\ \A i \in 2..n : t[i] = p[i] BY <1>2, <1>3
<1> HIDE DEF p, n
<1>5. NoneHead(w) = NoneHead(s) /\ HeadBytes(w) = e.bytes
  BY <1>4 DEF NoneHead, HeadBytes, Refilled, p, t
<1>6. Fields(w) BY <1>3 DEF Parts, Fields, Differ, FieldNames, ShiftFields, t
<1>7. ControllerInv(w)
  <2>1. w.state = s.state /\ w.algorithms = s.algorithms /\ w.pull = s.pull
        /\ w.start = s.start /\ w.pullAgain = s.pullAgain
    BY DEF Differ, FieldNames, ShiftFields
  <2>2. s.state # "errored" BY DEF Parts, ControllerInv
  <2> QED BY <2>1, <2>2 DEF Parts, ControllerInv
<1>8. w.reader = s.reader /\ w.byob = s.byob /\ w.readIntoRequests = s.readIntoRequests
      /\ w.readRequests = s.readRequests /\ w.state = s.state /\ w.got = s.got
  BY DEF Differ, FieldNames, ShiftFields
<1>9. DescriptorInv(w)
  <2>1. ASSUME NEW i \in 1..n
        PROVE  /\ WellMade(t[i])
               /\ t[i].readerType = "default" => w.reader /\ ~w.byob
               /\ t[i].readerType = "byob" => w.reader /\ w.byob
               /\ i > 1 => t[i].readerType # "none" /\ t[i].bytes = <<>> /\ ~t[i].detached
    <3>1. CASE i = 1
      <4>1. t[i] = e /\ 1 \in 1..n BY <3>1, <1>4
      <4> QED BY <4>1, <3>1, <1>8 DEF Refilled, Parts, DescriptorInv, p, n
    <3>2. CASE i # 1
      <4>1. t[i] = p[i] BY <3>2, <1>3
      <4> QED BY <4>1, <1>8 DEF Parts, DescriptorInv, p, n
    <3> QED BY <3>1, <3>2
  <2>2. w.reader /\ w.byob => Len(w.readIntoRequests) = Len(t) - NoneHead(w)
    BY <1>3, <1>5, <1>8 DEF Parts, DescriptorInv, p, n
  <2> QED BY <2>1, <2>2, <1>3, <1>4 DEF DescriptorInv, t
<1>10. RequestInv(w, a)
  <2>1. ASSUME NEW i \in 1..Len(s.readIntoRequests)
        PROVE  /\ a[s.readIntoRequests[i]].elementSize = t[i + NoneHead(s)].elementSize
               /\ a[s.readIntoRequests[i]].minimumFill = t[i + NoneHead(s)].minimumFill
    <3>1. s.readIntoRequests \in Seq(Nat) BY DEF Parts, Fields
    <3>2. s.readIntoRequests # <<>> BY <3>1
    <3>3. s.reader /\ s.byob BY <3>2 DEF Parts, RequestInv
    <3>4. Len(s.readIntoRequests) = n - NoneHead(s) BY <3>3 DEF Parts, DescriptorInv, p, n
    <3>5. NoneHead(s) \in {0, 1} BY DEF NoneHead
    <3>6. i + NoneHead(s) \in 1..n BY <3>1, <3>4, <3>5, <1>2, SMTT(30)
    <3>7. t[i + NoneHead(s)].elementSize = p[i + NoneHead(s)].elementSize
          /\ t[i + NoneHead(s)].minimumFill = p[i + NoneHead(s)].minimumFill
      BY <3>6, <1>3 DEF Refilled, p
    <3> QED BY <3>7 DEF Parts, RequestInv, p
  <2> QED BY <2>1, <1>5, <1>8 DEF Parts, RequestInv, t
<1>11. AnswerInv(w, a)
  <2>1. ShiftFields \cap {"got", "reads"} = {} BY DEF ShiftFields
  <2> QED BY <2>1, Unaffected DEF Parts
<1> QED BY <1>3, <1>4, <1>5, <1>6, <1>7, <1>9, <1>10, <1>11 DEF Parts, p, t, n

\* The descriptors that stay.
LEMMA DescriptorsTail ==
  ASSUME NEW s, NEW a, Parts(s, a), s.pendingPullIntos # <<>>, NEW u,
         u.pendingPullIntos = Tail(s.pendingPullIntos), u.reader = s.reader, u.byob = s.byob,
         u.byobRequest => u.pendingPullIntos # <<>>,
         u.reader /\ u.byob => Len(u.readIntoRequests) = Len(u.pendingPullIntos)
  PROVE  DescriptorInv(u)
<1> DEFINE p == s.pendingPullIntos
           t == u.pendingPullIntos
<1>1. /\ \A i \in 1..Len(t) :
           /\ i + 1 \in 1..Len(p) /\ t[i] = p[i + 1] /\ t[i] \in Descriptors
           /\ t[i].readerType # "none" /\ t[i].bytes = <<>> /\ ~t[i].detached
      /\ NoneHead(u) = 0 /\ Len(p) \in Nat /\ Len(t) = Len(p) - 1
  BY PendingTail DEF Parts
<1> HIDE DEF t
<1>2. ASSUME NEW i \in 1..Len(t)
      PROVE  /\ WellMade(t[i])
             /\ t[i].readerType = "default" => u.reader /\ ~u.byob
             /\ t[i].readerType = "byob" => u.reader /\ u.byob
  BY <1>1 DEF Parts, DescriptorInv
<1>3. u.reader /\ u.byob => Len(u.readIntoRequests) = Len(t) - NoneHead(u)
  BY <1>1 DEF t
<1> QED BY <1>1, <1>2, <1>3 DEF DescriptorInv, t

TakenFields == ShiftFields \cup {"readRequests", "readIntoRequests"}

\* A default reader's first request is taken, with its descriptor if there is one.
LEMMA TakesRead ==
  ASSUME NEW s, NEW a, Parts(s, a), s.reader, ~s.byob, s.readRequests # <<>>,
         NEW u, Differ(s, u, TakenFields), u.failed \in BOOLEAN, u.byobRequest \in BOOLEAN,
         u.queue \in Seq(Seq(Nat) \ {<<>>}), u.readIntoRequests = s.readIntoRequests,
         u.readRequests = Tail(s.readRequests), u.byobRequest => u.pendingPullIntos # <<>>,
         \/ u.pendingPullIntos = s.pendingPullIntos
         \/ s.pendingPullIntos # <<>> /\ u.pendingPullIntos = Tail(s.pendingPullIntos)
  PROVE  /\ Parts(u, a) /\ Free(u, Head(s.readRequests))
         /\ a[Head(s.readRequests)].elementSize = 1 /\ a[Head(s.readRequests)].minimumFill = 1
<1> DEFINE r == Head(s.readRequests)
<1>1. s.readRequests \in Seq(Nat) /\ s.got \in Seq(Seq(Nat)) /\ Queued(s.readRequests, s.got)
  BY DEF Parts, Fields, RequestInv
<1>2. /\ Queued(u.readRequests, s.got) /\ u.readRequests \in Seq(Nat)
      /\ r = s.readRequests[1] /\ r \in 1..Len(s.got)
      /\ \A j \in r..Len(s.got) : s.got[j] = <<>>
      /\ \A i \in 1..Len(u.readRequests) : r < u.readRequests[i]
  BY <1>1, QueuedTail
<1>3. u.got = s.got /\ u.state = s.state /\ u.reader = s.reader /\ u.byob = s.byob
      /\ u.algorithms = s.algorithms /\ u.pull = s.pull
      /\ u.start = s.start /\ u.pullAgain = s.pullAgain
  BY DEF Differ, FieldNames, TakenFields, ShiftFields
<1>4. s.readIntoRequests = <<>> /\ s.state = "readable" BY DEF Parts, RequestInv
<1>5. u.pendingPullIntos \in Seq(Descriptors)
  <2>1. s.pendingPullIntos \in Seq(Descriptors) BY DEF Parts, Fields
  <2>2. s.pendingPullIntos # <<>> => Tail(s.pendingPullIntos) \in Seq(Descriptors)
    BY <2>1, HeadTailProperties
  <2> QED BY <2>1, <2>2
<1>6. Fields(u)
  BY <1>2, <1>5, ZenonT(60) DEF Parts, Fields, Differ, FieldNames, TakenFields, ShiftFields
<1>7. ControllerInv(u) BY <1>3, <1>4 DEF Parts, ControllerInv
<1>8. DescriptorInv(u)
  <2>1. CASE u.pendingPullIntos = s.pendingPullIntos
    BY <2>1, <1>3 DEF Parts, DescriptorInv, NoneHead
  <2>2. CASE s.pendingPullIntos # <<>> /\ u.pendingPullIntos = Tail(s.pendingPullIntos)
    BY <2>2, <1>3, DescriptorsTail
  <2> QED BY <2>1, <2>2
<1>9. AnswerInv(u, a)
  <2>1. TakenFields \cap {"got", "reads"} = {} BY DEF TakenFields, ShiftFields
  <2> QED BY <2>1, Unaffected DEF Parts
<1>10. RequestInv(u, a)
  <2>1. \A i \in 1..Len(u.readRequests) :
          a[u.readRequests[i]].elementSize = 1 /\ a[u.readRequests[i]].minimumFill = 1
    <3> TAKE i \in 1..Len(u.readRequests)
    <3>1. i + 1 \in 1..Len(s.readRequests) /\ u.readRequests[i] = s.readRequests[i + 1]
      BY <1>1, HeadTailProperties
    <3> QED BY <3>1 DEF Parts, RequestInv
  <2>2. Queued(u.readIntoRequests, u.got) BY <1>4, NobodyQueued
  <2>3. Len(u.readIntoRequests) = 0 BY <1>4
  <2> QED BY <2>1, <2>2, <2>3, <1>2, <1>3, <1>4 DEF RequestInv
<1>11. Free(u, r) BY <1>2, <1>3, <1>4 DEF Free
<1>12. a[r].elementSize = 1 /\ a[r].minimumFill = 1
  <2>1. 1 \in 1..Len(s.readRequests) BY <1>1
  <2> QED BY <2>1, <1>2 DEF Parts, RequestInv
<1> QED BY <1>6, <1>7, <1>8, <1>9, <1>10, <1>11, <1>12 DEF Parts

\* A BYOB reader's first request is taken, with its descriptor.
LEMMA TakesReadInto ==
  ASSUME NEW s, NEW a, Parts(s, a), s.reader, s.byob, s.readIntoRequests # <<>>,
         NEW u, Differ(s, u, TakenFields), u.failed \in BOOLEAN, u.byobRequest \in BOOLEAN,
         ~u.byobRequest, u.queue \in Seq(Seq(Nat) \ {<<>>}),
         u.readIntoRequests = Tail(s.readIntoRequests),
         u.readRequests = s.readRequests, s.pendingPullIntos # <<>>, NoneHead(s) = 0,
         s.state # "readable" => u.queue = <<>>,
         u.pendingPullIntos = Tail(s.pendingPullIntos)
  PROVE  LET r == Head(s.readIntoRequests)
             d == s.pendingPullIntos[1]
         IN  /\ Parts(u, a) /\ Free(u, r)
             /\ a[r].elementSize = d.elementSize /\ a[r].minimumFill = d.minimumFill
<1> DEFINE r == Head(s.readIntoRequests)
           p == s.pendingPullIntos
           t == Tail(p)
           n == Len(p)
<1>1. s.readIntoRequests \in Seq(Nat) /\ s.got \in Seq(Seq(Nat))
      /\ Queued(s.readIntoRequests, s.got)
  BY DEF Parts, Fields, RequestInv
<1>2. /\ Queued(u.readIntoRequests, s.got) /\ u.readIntoRequests \in Seq(Nat)
      /\ r = s.readIntoRequests[1] /\ r \in 1..Len(s.got)
      /\ \A j \in r..Len(s.got) : s.got[j] = <<>>
      /\ \A i \in 1..Len(u.readIntoRequests) : r < u.readIntoRequests[i]
  BY <1>1, QueuedTail
<1>3. u.got = s.got /\ u.state = s.state /\ u.reader = s.reader /\ u.byob = s.byob
      /\ u.algorithms = s.algorithms /\ u.pull = s.pull
      /\ u.start = s.start /\ u.pullAgain = s.pullAgain
  BY DEF Differ, FieldNames, TakenFields, ShiftFields
<1>4. s.readRequests = <<>> /\ s.state # "errored" BY DEF Parts, RequestInv, ControllerInv
<1>5. t \in Seq(Descriptors) /\ n \in Nat /\ Len(t) = n - 1
      /\ (\A i \in 1..Len(t) : t[i] = p[i + 1]) /\ NoneHead(u) = 0
  BY PendingTail DEF Parts
<1>6. Len(s.readIntoRequests) = n BY <1>5 DEF Parts, DescriptorInv
<1> HIDE DEF t, n
<1>7. Len(u.readIntoRequests) = n - 1
      /\ \A i \in 1..(n - 1) : u.readIntoRequests[i] = s.readIntoRequests[i + 1]
  BY <1>1, <1>6, HeadTailProperties
<1>8. Fields(u)
  BY <1>2, <1>5, ZenonT(60) DEF Parts, Fields, Differ, FieldNames, TakenFields, ShiftFields, t
<1>9. ControllerInv(u) BY <1>3, <1>4 DEF Parts, ControllerInv
<1>10. DescriptorInv(u)
  <2>1. Len(u.readIntoRequests) = Len(u.pendingPullIntos) BY <1>5, <1>7 DEF t
  <2>2. u.byobRequest => u.pendingPullIntos # <<>> OBVIOUS
  <2> QED BY <2>1, <2>2, <1>3, DescriptorsTail
<1>11. AnswerInv(u, a)
  <2>1. TakenFields \cap {"got", "reads"} = {} BY DEF TakenFields, ShiftFields
  <2> QED BY <2>1, Unaffected DEF Parts
<1>12. \A i \in 1..n : a[s.readIntoRequests[i]].elementSize = p[i].elementSize
                       /\ a[s.readIntoRequests[i]].minimumFill = p[i].minimumFill
  <2> TAKE i \in 1..n
  <2>1. i + NoneHead(s) = i BY <1>5
  <2> QED BY <2>1, <1>6 DEF Parts, RequestInv
<1>13. RequestInv(u, a)
  <2>1. ASSUME NEW i \in 1..Len(u.readIntoRequests)
        PROVE  /\ a[u.readIntoRequests[i]].elementSize
                    = u.pendingPullIntos[i + NoneHead(u)].elementSize
               /\ a[u.readIntoRequests[i]].minimumFill
                    = u.pendingPullIntos[i + NoneHead(u)].minimumFill
    <3>1. i \in 1..(n - 1) /\ i + 1 \in 1..n /\ i + NoneHead(u) = i BY <1>5, <1>7
    <3>2. u.pendingPullIntos[i] = p[i + 1] BY <3>1, <1>5, <1>7 DEF t
    <3>3. u.pendingPullIntos[i + NoneHead(u)] = p[i + 1]
          /\ u.readIntoRequests[i] = s.readIntoRequests[i + 1]
      BY <3>1, <3>2, <1>7
    <3> QED BY <3>1, <3>3, <1>12
  <2>2. Queued(u.readRequests, u.got) BY <1>4, NobodyQueued
  <2>3. Len(u.readRequests) = 0 BY <1>4
  <2>4. u.readRequests = <<>> /\ u.reader /\ u.byob BY <1>3, <1>4
  <2>5. Queued(u.readIntoRequests, u.got) BY <1>2, <1>3
  <2>6. \A i \in 1..Len(u.readRequests) :
          a[u.readRequests[i]].elementSize = 1 /\ a[u.readRequests[i]].minimumFill = 1
    BY <2>3
  <2> QED BY <2>1, <2>2, <2>4, <2>5, <2>6 DEF RequestInv
<1>14. Free(u, r) BY <1>2, <1>3, <1>4 DEF Free
<1>15. a[r].elementSize = p[1].elementSize /\ a[r].minimumFill = p[1].minimumFill
  <2>1. 1 \in 1..n BY <1>5 DEF n
  <2> QED BY <2>1, <1>2, <1>12
<1> QED BY <1>8, <1>9, <1>10, <1>11, <1>13, <1>14, <1>15 DEF Parts

CommitFields == {"reads", "got", "readRequests", "readIntoRequests", "failed"}

\* The first descriptor has been shifted from the stream s and is d, ready to be committed:
\* its bytes follow the first g and the queue those up to m.
Ready(s, w, d, g, m, q) ==
  /\ s.pendingPullIntos # <<>> /\ Differ(s, w, ShiftFields)
  /\ w.failed \in BOOLEAN /\ w.byobRequest \in BOOLEAN /\ ~w.byobRequest
  /\ w.queue \in Seq(Seq(Nat) \ {<<>>}) /\ (s.state # "readable" => w.queue = <<>>)
  /\ w.pendingPullIntos = Tail(s.pendingPullIntos)
  /\ Refilled(s.pendingPullIntos[1], d) /\ Len(d.bytes) <= d.byteLength
  /\ Len(d.bytes) % d.elementSize = 0
  /\ s.state = "closed" \/ Len(d.bytes) >= d.minimumFill
  /\ m \in Nat /\ Consecutive(s.got, 0, g) /\ Run(d.bytes, g, m)
  /\ Consecutive(w.queue, m, q)

\* A descriptor is committed: the first of the requests gets its bytes.
LEMMA Commits ==
  ASSUME NEW s, NEW a, Parts(s, a), NEW w, NEW d, NEW g, NEW m, NEW q, Ready(s, w, d, g, m, q)
  PROVE  LET t == readableByteStreamControllerCommitPullIntoDescriptor(w, d)
         IN  /\ FieldNames \subseteq DOMAIN t
             /\ t.failed \in BOOLEAN /\ (w.failed => t.failed)
             /\ t.failed => \/ w.failed \/ NoneHead(s) = 1 \/ d.detached
                            \/ (s.reader /\ ~s.byob /\ s.readRequests = <<>>)
             /\ ~t.failed => /\ Core(t, a, q) /\ Differ(w, t, CommitFields)
                             /\ s.reader /\ NoneHead(s) = 0 /\ NoneHead(t) = 0
                             /\ ~s.byob => /\ s.readRequests # <<>>
                                           /\ t.readRequests = Tail(s.readRequests)
                             /\ s.byob => /\ s.readIntoRequests # <<>>
                                          /\ t.readIntoRequests = Tail(s.readIntoRequests)
<1>1. /\ s.pendingPullIntos # <<>> /\ Differ(s, w, ShiftFields)
      /\ w.failed \in BOOLEAN /\ w.byobRequest \in BOOLEAN /\ ~w.byobRequest
      /\ w.queue \in Seq(Seq(Nat) \ {<<>>}) /\ (s.state # "readable" => w.queue = <<>>)
      /\ w.pendingPullIntos = Tail(s.pendingPullIntos)
      /\ Refilled(s.pendingPullIntos[1], d) /\ Len(d.bytes) <= d.byteLength
      /\ Len(d.bytes) % d.elementSize = 0
      /\ s.state = "closed" \/ Len(d.bytes) >= d.minimumFill
      /\ m \in Nat /\ Consecutive(s.got, 0, g) /\ Run(d.bytes, g, m)
      /\ Consecutive(w.queue, m, q)
  BY DEF Ready
<1> USE <1>1
<1> DEFINE t == readableByteStreamControllerCommitPullIntoDescriptor(w, d)
           requests == IF d.readerType = "default" THEN w.readRequests ELSE w.readIntoRequests
           holds == /\ w.state # "errored" /\ d.readerType # "none"
                    /\ Len(d.bytes) <= d.byteLength
                    /\ Len(d.bytes) % d.elementSize = 0
                    /\ ~d.detached
                    /\ w.reader /\ w.byob = (d.readerType = "byob")
                    /\ requests # <<>>
           v == Asserting(w, holds)
           p == s.pendingPullIntos
<1>2. t = IF v.failed THEN v
          ELSE IF d.readerType = "default"
            THEN Answer([v EXCEPT !.readRequests = Tail(@)], Head(requests),
                        IF w.state = "closed" THEN <<>> ELSE d.bytes, w.state = "closed")
            ELSE Answer([v EXCEPT !.readIntoRequests = Tail(@)], Head(requests),
                        d.bytes, w.state = "closed")
  BY DEF readableByteStreamControllerCommitPullIntoDescriptor
<1>3. w.state = s.state /\ w.reader = s.reader /\ w.byob = s.byob /\ w.got = s.got
      /\ w.readRequests = s.readRequests /\ w.readIntoRequests = s.readIntoRequests
  BY DEF Differ, FieldNames, ShiftFields
<1>4. p[1] \in Descriptors /\ 1 \in 1..Len(p) /\ Len(p) \in Nat /\ NoneHead(w) = 0
      /\ HeadBytes(w) = <<>>
  BY PendingTail DEF Parts
<1>5. d \in Descriptors /\ d.readerType = p[1].readerType BY DEF Refilled
<1>6. d.readerType \in {"default", "byob", "none"} /\ d.detached \in BOOLEAN
      /\ d.bytes \in Seq(Nat)
  BY <1>5 DEF Descriptors
<1>7. /\ d.readerType = "default" => s.reader /\ ~s.byob
      /\ d.readerType = "byob" => s.reader /\ s.byob
  BY <1>4, <1>5 DEF Parts, DescriptorInv
<1>8. NoneHead(s) = IF d.readerType = "none" THEN 1 ELSE 0 BY <1>5 DEF NoneHead
<1>9. s.state # "errored" /\ s.reader \in BOOLEAN /\ s.byob \in BOOLEAN
      /\ s.state \in {"readable", "closed", "errored"}
  BY DEF Parts, ControllerInv, Fields
<1>10. s.reader /\ s.byob /\ d.readerType # "none" => s.readIntoRequests # <<>>
  <2> SUFFICES ASSUME s.reader /\ s.byob /\ d.readerType # "none",  s.readIntoRequests = <<>>
               PROVE  FALSE
    OBVIOUS
  <2>1. Len(s.readIntoRequests) = Len(p) - NoneHead(s) BY DEF Parts, DescriptorInv
  <2>2. Len(s.readIntoRequests) = 0 OBVIOUS
  <2> QED BY <2>1, <2>2, <1>4, <1>8
<1>11. FieldNames \subseteq DOMAIN w BY DEF Differ
<1>12. v.failed = (w.failed \/ ~holds) /\ Differ(w, v, {"failed"})
  BY <1>11 DEF Asserting, Differ, FieldNames
<1>13. v.failed \in BOOLEAN BY <1>12
<1>14. ~holds => NoneHead(s) = 1 \/ d.detached \/ (s.reader /\ ~s.byob /\ s.readRequests = <<>>)
  <2> DEFINE other == \/ NoneHead(s) = 1 \/ d.detached
                      \/ s.reader /\ ~s.byob /\ s.readRequests = <<>>
  <2> HIDE DEF holds, other
  <2> SUFFICES ASSUME ~other PROVE holds BY DEF other
  <2>1. ~(NoneHead(s) = 1) /\ ~d.detached /\ ~(s.reader /\ ~s.byob /\ s.readRequests = <<>>)
    BY DEF other
  <2> USE DEF holds
  <2>2. d.readerType # "none" BY <2>1, <1>8
  <2>3. CASE d.readerType = "default"
    <3>1. w.reader /\ ~w.byob /\ requests # <<>> BY <2>1, <2>3, <1>3, <1>7
    <3>2. w.byob = (d.readerType = "byob") BY <3>1, <2>3, <1>3, <1>9
    <3> QED BY <3>1, <3>2, <2>1, <2>2, <1>3, <1>9
  <2>4. CASE d.readerType = "byob"
    <3>1. w.reader /\ w.byob /\ requests # <<>> BY <2>4, <1>3, <1>7, <1>10
    <3>2. w.byob = (d.readerType = "byob") BY <3>1, <2>4, <1>3, <1>9
    <3> QED BY <3>1, <3>2, <2>1, <2>2, <1>3, <1>9
  <2> QED BY <2>2, <2>3, <2>4, <1>6
<1>15. holds => d.readerType # "none" /\ requests # <<>> OBVIOUS
<1> HIDE DEF holds, v, t
<1>16. CASE v.failed
  <2>1. t.failed = v.failed /\ FieldNames \subseteq DOMAIN t BY <1>2, <1>12, <1>16 DEF Differ
  <2> QED BY <2>1, <1>12, <1>13, <1>14, <1>16 DEF t
<1>17. CASE ~v.failed
  <2>1. ~w.failed /\ holds BY <1>12, <1>17
  <2>2. d.readerType # "none" /\ requests # <<>> BY <2>1, <1>15
  <2>3. NoneHead(s) = 0 BY <2>2, <1>8
  <2>4. Differ(s, v, ShiftFields) /\ v.failed \in BOOLEAN
    BY <1>12, <1>13 DEF Differ, FieldNames, ShiftFields
  <2>5. v.byobRequest = w.byobRequest /\ v.queue = w.queue /\ v.readRequests = s.readRequests
        /\ v.readIntoRequests = s.readIntoRequests /\ v.got = s.got
        /\ v.pendingPullIntos = w.pendingPullIntos
    BY <1>3, <1>12 DEF Differ, FieldNames
  <2> DEFINE done == w.state = "closed"
             After(u, r) == Answer(u, r, d.bytes, done)
  <2>6. ASSUME NEW u, NEW r, Parts(u, a), Free(u, r), a[r].elementSize = d.elementSize,
               a[r].minimumFill = d.minimumFill, u.got = s.got, u.queue = w.queue,
               u.pendingPullIntos = w.pendingPullIntos, u.failed = v.failed
        PROVE  Core(After(u, r), a, q) /\ Differ(u, After(u, r), {"reads", "got"})
    <3> DEFINE z == After(u, r)
    <3>1. Suits(d.bytes, a[r], done) BY <2>6, <1>3, <1>6 DEF Suits
    <3>2. done \in BOOLEAN OBVIOUS
    <3> HIDE DEF done
    <3>3. /\ Differ(u, z, {"reads", "got"}) /\ z.got = [u.got EXCEPT ![r] = d.bytes]
          /\ Parts(z, a)
      BY <3>1, <3>2, <2>6, AnswersRead
    <3> HIDE DEF z, After
    <3>4. z.queue = w.queue /\ z.pendingPullIntos = w.pendingPullIntos
      BY <3>3, <2>6 DEF Differ, FieldNames
    <3>5. r \in 1..Len(s.got) /\ \A j \in r..Len(s.got) : s.got[j] = <<>>
      BY <2>6 DEF Free
    <3>6. Consecutive(z.got, 0, m) BY <3>3, <3>5, <2>6, LineAnswer
    <3>7. HeadBytes(z) = <<>> BY <3>4, <1>4 DEF HeadBytes
    <3>8. Run(<<>>, m, m) BY RunFacts
    <3>9. LineTo(z, q) BY <3>4, <3>6, <3>7, <3>8 DEF LineTo
    <3> QED BY <3>3, <3>9 DEF Core, z
  <2> HIDE DEF After
  <2>7. CASE d.readerType = "default"
    <3> DEFINE u == [v EXCEPT !.readRequests = Tail(@)]
               r == Head(s.readRequests)
    <3>1. Differ(v, u, {"readRequests"}) /\ u.readRequests = Tail(s.readRequests)
      BY <2>4, <2>5 DEF Differ, FieldNames
    <3>2. s.reader /\ ~s.byob /\ s.readRequests # <<>> BY <2>2, <2>7, <1>3, <1>7
    <3>3. s.state = "readable" BY <3>2 DEF Parts, RequestInv
    <3>4. t = Answer(u, r, d.bytes, done) BY <1>2, <1>3, <1>17, <2>7, <3>3
    <3> HIDE DEF u
    <3>5. Differ(s, u, TakenFields) /\ u.failed \in BOOLEAN /\ u.failed = v.failed
          /\ u.queue = w.queue /\ u.readIntoRequests = s.readIntoRequests /\ u.got = s.got
          /\ u.pendingPullIntos = w.pendingPullIntos /\ u.byobRequest = w.byobRequest
      BY <2>4, <2>5, <3>1 DEF Differ, FieldNames, TakenFields, ShiftFields
    <3>6. /\ Parts(u, a) /\ Free(u, r)
          /\ a[r].elementSize = 1 /\ a[r].minimumFill = 1
      BY <3>1, <3>2, <3>5, TakesRead
    <3>7. d.elementSize = 1 /\ d.minimumFill = 1
      <4>1. p[1].readerType = "default" /\ WellMade(p[1])
        BY <2>7, <1>4, <1>5 DEF Parts, DescriptorInv
      <4> QED BY <4>1 DEF WellMade, Refilled
    <3>8. t = After(u, r) BY <3>4 DEF After
    <3>9. Core(t, a, q) /\ Differ(u, t, {"reads", "got"})
      BY <3>5, <3>6, <3>7, <3>8, <2>6
    <3>10. Differ(w, t, CommitFields) /\ t.readRequests = Tail(s.readRequests)
           /\ t.failed = v.failed /\ t.pendingPullIntos = w.pendingPullIntos
      BY <1>12, <3>1, <3>9, <3>5 DEF Differ, FieldNames, CommitFields
    <3>11. NoneHead(t) = 0 BY <3>10, <1>4 DEF NoneHead
    <3>12. FieldNames \subseteq DOMAIN t BY <3>10 DEF Differ
    <3> QED BY <3>2, <3>9, <3>10, <3>11, <3>12, <2>1, <2>3, <1>13, <1>17 DEF t
  <2>8. CASE d.readerType # "default"
    <3> DEFINE u == [v EXCEPT !.readIntoRequests = Tail(@)]
               r == Head(s.readIntoRequests)
    <3>1. Differ(v, u, {"readIntoRequests"}) /\ u.readIntoRequests = Tail(s.readIntoRequests)
      BY <2>4, <2>5 DEF Differ, FieldNames
    <3>2. s.reader /\ s.byob /\ s.readIntoRequests # <<>>
      BY <2>2, <2>8, <1>3, <1>6, <1>7
    <3>3. t = Answer(u, r, d.bytes, done) BY <1>2, <1>3, <1>17, <2>8
    <3> HIDE DEF u
    <3>4. Differ(s, u, TakenFields) /\ u.failed \in BOOLEAN /\ u.failed = v.failed
          /\ u.queue = w.queue /\ u.readRequests = s.readRequests /\ u.got = s.got
          /\ u.pendingPullIntos = w.pendingPullIntos /\ u.byobRequest = w.byobRequest
      BY <2>4, <2>5, <3>1 DEF Differ, FieldNames, TakenFields, ShiftFields
    <3>5. /\ Parts(u, a) /\ Free(u, r)
          /\ a[r].elementSize = p[1].elementSize /\ a[r].minimumFill = p[1].minimumFill
      BY <3>1, <3>2, <3>4, <2>3, TakesReadInto
    <3>6. d.elementSize = p[1].elementSize /\ d.minimumFill = p[1].minimumFill
      BY DEF Refilled
    <3>7. t = After(u, r) BY <3>3 DEF After
    <3>8. Core(t, a, q) /\ Differ(u, t, {"reads", "got"})
      BY <3>4, <3>5, <3>6, <3>7, <2>6
    <3>9. Differ(w, t, CommitFields) /\ t.readIntoRequests = Tail(s.readIntoRequests)
          /\ t.failed = v.failed /\ t.pendingPullIntos = w.pendingPullIntos
      BY <1>12, <3>1, <3>8, <3>4 DEF Differ, FieldNames, CommitFields
    <3>10. NoneHead(t) = 0 BY <3>9, <1>4 DEF NoneHead
    <3>11. FieldNames \subseteq DOMAIN t BY <3>9 DEF Differ
    <3> QED BY <3>2, <3>8, <3>9, <3>10, <3>11, <2>1, <2>3, <1>13, <1>17 DEF t
  <2> QED BY <2>7, <2>8
<1> QED BY <1>13, <1>16, <1>17

\* An assertion has failed.
Dead(s) == FieldNames \subseteq DOMAIN s /\ s.failed = TRUE

\* What has failed stays so.
LEMMA DeadStays ==
  ASSUME NEW s, Dead(s)
  PROVE  /\ \A h : Dead(Asserting(s, h))
         /\ Dead(readableByteStreamControllerShiftPendingPullInto(s))
         /\ \A d : Dead(readableByteStreamControllerCommitPullIntoDescriptor(s, d))
         /\ Dead(ProcessPullInto(s)) /\ Dead(RespondToNext(s))
         /\ Dead(readableByteStreamControllerCallPullIfNeeded(s))
<1>1. ASSUME NEW u, Dead(u), NEW h PROVE Dead(Asserting(u, h))
  BY <1>1 DEF Dead, Asserting, FieldNames
<1>2. ASSUME NEW u, Dead(u) PROVE Dead(readableByteStreamControllerShiftPendingPullInto(u))
  <2>1. Dead(Asserting(u, ~u.byobRequest)) BY <1>1, <1>2
  <2> QED BY <2>1 DEF readableByteStreamControllerShiftPendingPullInto, Dead, FieldNames
<1>3. ASSUME NEW u, Dead(u), NEW d
      PROVE  Dead(readableByteStreamControllerCommitPullIntoDescriptor(u, d))
  <2> DEFINE requests == IF d.readerType = "default" THEN u.readRequests ELSE u.readIntoRequests
             h == /\ u.state # "errored" /\ d.readerType # "none"
                  /\ Len(d.bytes) <= d.byteLength
                  /\ Len(d.bytes) % d.elementSize = 0
                  /\ ~d.detached
                  /\ u.reader /\ u.byob = (d.readerType = "byob")
                  /\ requests # <<>>
  <2>1. Dead(Asserting(u, h)) BY <1>1, <1>3
  <2>2. Asserting(u, h).failed BY <2>1 DEF Dead
  <2>3. readableByteStreamControllerCommitPullIntoDescriptor(u, d) = Asserting(u, h)
    BY <2>2 DEF readableByteStreamControllerCommitPullIntoDescriptor
  <2> HIDE DEF h
  <2> QED BY <2>1, <2>3
<1>4. Dead(ProcessPullInto(s))
  <2> DEFINE f == readableByteStreamControllerFillPullIntoDescriptorFromQueue(
                    s, Head(s.pendingPullIntos))
             t == ProcessPullInto(s)
  <2>1. \E h, n : f.stream = [Asserting(s, h) EXCEPT !.queue = Drop(@, n)]
    BY DEF readableByteStreamControllerFillPullIntoDescriptorFromQueue
  <2>2. Dead(f.stream)
    <3>1. PICK h, n : f.stream = [Asserting(s, h) EXCEPT !.queue = Drop(@, n)] BY <2>1
    <3>2. Dead(Asserting(s, h)) BY <1>1
    <3> HIDE DEF f
    <3> QED BY <3>1, <3>2 DEF Dead, FieldNames
  <2>3. \/ t = s
        \/ t = readableByteStreamControllerCommitPullIntoDescriptor(
                 readableByteStreamControllerShiftPendingPullInto(f.stream), f.descriptor)
        \/ t = [f.stream EXCEPT !.pendingPullIntos[1] = f.descriptor]
    BY DEF ProcessPullInto
  <2> HIDE DEF f, t
  <2>4. Dead(readableByteStreamControllerCommitPullIntoDescriptor(
               readableByteStreamControllerShiftPendingPullInto(f.stream), f.descriptor))
    BY <2>2, <1>2, <1>3
  <2>5. Dead([f.stream EXCEPT !.pendingPullIntos[1] = f.descriptor])
    BY <2>2 DEF Dead, FieldNames
  <2>6. Dead(t) BY <2>3, <2>4, <2>5
  <2> QED BY <2>6 DEF t
<1>5. Dead(RespondToNext(s))
  <2> DEFINE w == readableByteStreamControllerShiftPendingPullInto(s)
  <2>1. \/ RespondToNext(s) = Asserting(s, FALSE)
        \/ RespondToNext(s)
             = readableByteStreamControllerCommitPullIntoDescriptor(w, Head(s.pendingPullIntos))
    BY DEF RespondToNext
  <2>2. Dead(w) BY <1>2
  <2> HIDE DEF w
  <2>3. Dead(readableByteStreamControllerCommitPullIntoDescriptor(w, Head(s.pendingPullIntos)))
    BY <2>2, <1>3
  <2>4. Dead(Asserting(s, FALSE)) BY <1>1
  <2> QED BY <2>1, <2>3, <2>4
<1>6. Dead(readableByteStreamControllerCallPullIfNeeded(s))
  <2> DEFINE t == readableByteStreamControllerCallPullIfNeeded(s)
             v == Asserting(s, ~s.pullAgain /\ s.algorithms)
  <2>1. t = s \/ t = [s EXCEPT !.pullAgain = TRUE] \/ t = [v EXCEPT !.pull = "pending"]
    BY DEF readableByteStreamControllerCallPullIfNeeded
  <2>2. Dead(v) BY <1>1
  <2> HIDE DEF v, t
  <2>3. Dead(t) BY <2>1, <2>2 DEF Dead, FieldNames
  <2> QED BY <2>3 DEF t
<1> QED BY <1>1, <1>2, <1>3, <1>4, <1>5, <1>6

\* A descriptor is shifted.
LEMMA Shifts ==
  ASSUME NEW s, FieldNames \subseteq DOMAIN s, s.failed \in BOOLEAN, s.byobRequest \in BOOLEAN
  PROVE  LET w == readableByteStreamControllerShiftPendingPullInto(s)
         IN  /\ Differ(s, w, {"pendingPullIntos", "failed"})
             /\ w.pendingPullIntos = Tail(s.pendingPullIntos)
             /\ w.failed = (s.failed \/ s.byobRequest)
BY DEF readableByteStreamControllerShiftPendingPullInto, Asserting, Differ, FieldNames

-----------------------------------------------------------------------------
(* The loop over the descriptors, and the answers of a closed stream. *)

\* A default reader's descriptors are those of its requests.
Matched(s) ==
  /\ NoneHead(s) = 0 /\ Len(s.readRequests) = Len(s.pendingPullIntos)
  /\ \A i \in 1..Len(s.pendingPullIntos) :
       s.pendingPullIntos[i].elementSize = 1 /\ s.pendingPullIntos[i].minimumFill = 1

\* No assertion fails when the descriptors are filled from the queue.
Fillable(s) ==
  /\ ~s.failed /\ ~s.byobRequest
  /\ s.pendingPullIntos # <<>> => ~s.pendingPullIntos[1].detached
  /\ s.reader /\ ~s.byob => Matched(s)

LoopFields == CommitFields \cup {"queue", "pendingPullIntos"}

\* A turn of the loop over the descriptors.
LEMMA ProcessesPullInto ==
  ASSUME NEW s, NEW a, NEW q, Core(s, a, q), NoneHead(s) = 0
  PROVE  LET t == ProcessPullInto(s)
         IN  /\ FieldNames \subseteq DOMAIN t /\ t.failed \in BOOLEAN
             /\ Fillable(s) => ~t.failed /\ Fillable(t)
             /\ ~t.failed =>
                  /\ Core(t, a, q) /\ NoneHead(t) = 0 /\ Differ(s, t, LoopFields)
                  /\ Matched(s) => Matched(t)
                  /\ IF s.pendingPullIntos = <<>> \/ s.queue = <<>> THEN t = s
                     ELSE \/ t.queue = <<>>
                          \/ Len(t.pendingPullIntos) = Len(s.pendingPullIntos) - 1
<1> DEFINE t == ProcessPullInto(s)
<1>1. Parts(s, a) /\ Fields(s) /\ FieldNames \subseteq DOMAIN s /\ s.failed \in BOOLEAN
      /\ s.byobRequest \in BOOLEAN
  BY DEF Core, Parts, Fields
<1>2. CASE s.pendingPullIntos = <<>> \/ s.queue = <<>>
  <2>1. t = s BY <1>2 DEF ProcessPullInto
  <2>2. Differ(s, s, LoopFields) BY <1>1 DEF Differ
  <2> HIDE DEF t
  <2> QED BY <1>1, <1>2, <2>1, <2>2 DEF t, Fillable
<1>3. CASE s.pendingPullIntos # <<>> /\ s.queue # <<>>
  <2> DEFINE p == s.pendingPullIntos
             d == p[1]
             f == readableByteStreamControllerFillPullIntoDescriptorFromQueue(s, d)
             e == f.descriptor
             w == readableByteStreamControllerShiftPendingPullInto(f.stream)
  <2>1. /\ Len(p) \in Nat /\ Len(p) >= 1 /\ Len(Tail(p)) = Len(p) - 1
        /\ Head(p) = p[1] /\ p[1] \in Descriptors /\ 1 \in 1..Len(p)
        /\ \A i \in 1..Len(Tail(p)) :
             /\ i + 1 \in 1..Len(p) /\ Tail(p)[i] = p[i + 1] /\ ~Tail(p)[i].detached
    BY <1>1, <1>3, PendingTail DEF Parts
  <2>2. t = IF f.ready THEN readableByteStreamControllerCommitPullIntoDescriptor(w, e)
            ELSE [f.stream EXCEPT !.pendingPullIntos[1] = e]
    BY <1>3, <2>1 DEF ProcessPullInto
  <2>3. PICK g \in Nat, h \in Nat : /\ Consecutive(s.got, 0, g) /\ Run(HeadBytes(s), g, h)
                                    /\ Consecutive(s.queue, h, q)
    BY DEF Core, LineTo
  <2>4. Run(d.bytes, g, h) BY <1>3, <2>3 DEF HeadBytes
  <2>5. WellMade(d) /\ d \in Descriptors BY <2>1, <1>1 DEF Parts, DescriptorInv
  <2>6. /\ Differ(s, f.stream, {"queue", "failed"})
        /\ f.stream.failed = (s.failed \/ s.byobRequest)
        /\ f.stream.queue \in Seq(Seq(Nat) \ {<<>>})
        /\ Refilled(d, e) /\ e.detached = d.detached
        /\ f.ready \in BOOLEAN /\ Len(e.bytes) <= d.byteLength
        /\ \E m \in Nat : Run(e.bytes, g, m) /\ Consecutive(f.stream.queue, m, q)
        /\ f.ready => Len(e.bytes) >= d.minimumFill /\ Len(e.bytes) % d.elementSize = 0
        /\ ~f.ready => Len(e.bytes) < d.minimumFill /\ f.stream.queue = <<>>
    <3> HIDE DEF d
    <3> QED BY <1>1, <1>3, <2>3, <2>4, <2>5, FillsPullInto
  <2> HIDE DEF t, f, d, w
  <2>7. PICK m \in Nat : Run(e.bytes, g, m) /\ Consecutive(f.stream.queue, m, q) BY <2>6
  <2>8. s.state = "readable" BY <1>1, <1>3 DEF Parts, ControllerInv
  <2>9. FieldNames \subseteq DOMAIN f.stream /\ f.stream.failed \in BOOLEAN
        /\ f.stream.byobRequest = s.byobRequest /\ f.stream.pendingPullIntos = p
    BY <1>1, <2>6 DEF Differ, FieldNames
  <2>10. CASE f.ready
    <3>1. t = readableByteStreamControllerCommitPullIntoDescriptor(w, e) BY <2>2, <2>10
    <3>2. /\ Differ(f.stream, w, {"pendingPullIntos", "failed"})
          /\ w.pendingPullIntos = Tail(p)
          /\ w.failed = (f.stream.failed \/ f.stream.byobRequest)
      BY <1>1, <2>9, Shifts DEF w
    <3>3. w.failed = (s.failed \/ s.byobRequest) /\ w.byobRequest = s.byobRequest
          /\ w.queue = f.stream.queue /\ FieldNames \subseteq DOMAIN w /\ w.failed \in BOOLEAN
      BY <1>1, <2>6, <2>9, <3>2 DEF Differ, FieldNames
    <3>4. CASE s.byobRequest
      <4>1. Dead(w) BY <3>3, <3>4, <1>1 DEF Dead
      <4>2. Dead(t) BY <4>1, <3>1, DeadStays
      <4>3. t.failed = TRUE /\ FieldNames \subseteq DOMAIN t BY <4>2 DEF Dead
      <4> QED BY <4>3, <3>4 DEF Fillable, t
    <3>5. CASE ~s.byobRequest
      <4>1. Differ(s, w, ShiftFields) /\ w.failed = s.failed
        BY <1>1, <2>6, <3>2, <3>3, <3>5 DEF Differ, FieldNames, ShiftFields
      <4>2. Refilled(s.pendingPullIntos[1], e) /\ Len(e.bytes) <= e.byteLength
            /\ Len(e.bytes) % e.elementSize = 0 /\ Len(e.bytes) >= e.minimumFill
        BY <2>6, <2>10 DEF Refilled, d
      <4>3. w.queue \in Seq(Seq(Nat) \ {<<>>}) /\ Consecutive(w.queue, m, q)
            /\ w.byobRequest \in BOOLEAN /\ ~w.byobRequest
        BY <1>1, <2>6, <2>7, <3>3, <3>5
      <4> HIDE DEF e
      <4>4. /\ FieldNames \subseteq DOMAIN t
            /\ t.failed \in BOOLEAN /\ (w.failed => t.failed)
            /\ t.failed => \/ w.failed \/ NoneHead(s) = 1 \/ e.detached
                           \/ (s.reader /\ ~s.byob /\ s.readRequests = <<>>)
            /\ ~t.failed => /\ Core(t, a, q) /\ Differ(w, t, CommitFields)
                            /\ s.reader /\ NoneHead(s) = 0 /\ NoneHead(t) = 0
                            /\ ~s.byob => /\ s.readRequests # <<>>
                                          /\ t.readRequests = Tail(s.readRequests)
                            /\ s.byob => /\ s.readIntoRequests # <<>>
                                         /\ t.readIntoRequests = Tail(s.readIntoRequests)
        <5>1. s.state # "readable" => w.queue = <<>> BY <2>8
        <5>2. w.failed \in BOOLEAN /\ w.pendingPullIntos = Tail(s.pendingPullIntos)
          BY <3>2, <3>3
        <5>3. Parts(s, a) /\ s.pendingPullIntos # <<>> BY <1>1, <1>3
        <5>4. Consecutive(s.got, 0, g) /\ Run(e.bytes, g, m) BY <2>3, <2>7
        <5>5. Len(e.bytes) >= e.minimumFill BY <4>2
        <5>6. Ready(s, w, e, g, m, q)
          BY <5>1, <5>2, <5>3, <5>4, <5>5, <4>1, <4>2, <4>3 DEF Ready
        <5> QED BY <5>3, <5>6, <3>1, Commits
      <4>5. Fillable(s) => ~t.failed
        <5> SUFFICES ASSUME Fillable(s) PROVE ~t.failed OBVIOUS
        <5>1. ~w.failed BY <4>1 DEF Fillable
        <5>2. ~e.detached BY <2>6, <1>3 DEF Fillable, d, e
        <5>3. s.reader /\ ~s.byob => s.readRequests # <<>>
          <6> SUFFICES ASSUME s.reader /\ ~s.byob, s.readRequests = <<>> PROVE FALSE OBVIOUS
          <6>1. Len(s.readRequests) = Len(p) BY DEF Fillable, Matched
          <6> QED BY <6>1, <2>1
        <5> QED BY <5>1, <5>2, <5>3, <4>4
      <4>6. ASSUME ~t.failed
            PROVE  /\ Differ(s, t, LoopFields) /\ t.pendingPullIntos = Tail(p)
                   /\ Matched(s) => Matched(t)
                   /\ Fillable(s) => Fillable(t)
        <5>1. Differ(w, t, CommitFields) /\ s.reader /\ NoneHead(t) = 0 BY <4>4, <4>6
        <5>2. Differ(s, t, LoopFields) /\ t.pendingPullIntos = Tail(p)
              /\ t.byobRequest = s.byobRequest /\ t.reader = s.reader /\ t.byob = s.byob
          BY <5>1, <4>1, <3>2, <3>3, ZenonT(60)
          DEF Differ, FieldNames, LoopFields, CommitFields, ShiftFields
        <5>3. ASSUME Matched(s) PROVE Matched(t)
          <6>1. s.readRequests # <<>>
            <7> SUFFICES ASSUME s.readRequests = <<>> PROVE FALSE OBVIOUS
            <7>1. Len(s.readRequests) = Len(p) BY <5>3 DEF Matched
            <7> QED BY <7>1, <2>1
          <6>2. ~s.byob /\ s.readRequests \in Seq(Nat)
            BY <6>1, <1>1 DEF Parts, RequestInv, Fields
          <6>3. t.readRequests = Tail(s.readRequests) BY <6>2, <4>4, <4>6
          <6>4. Len(t.readRequests) = Len(s.readRequests) - 1
            BY <6>1, <6>2, <6>3, HeadTailProperties
          <6>5. Len(t.readRequests) = Len(t.pendingPullIntos)
            BY <6>4, <5>2, <5>3, <2>1 DEF Matched
          <6>6. ASSUME NEW i \in 1..Len(t.pendingPullIntos)
                PROVE  t.pendingPullIntos[i].elementSize = 1
                       /\ t.pendingPullIntos[i].minimumFill = 1
            BY <5>2, <5>3, <2>1 DEF Matched
          <6> QED BY <6>5, <6>6, <5>1 DEF Matched
        <5>4. ASSUME Fillable(s) PROVE Fillable(t)
          <6>1. Tail(p) # <<>> => ~Tail(p)[1].detached
            <7>1. Tail(p) \in Seq(Descriptors)
              BY <1>1, <1>3, PendingTail DEF Parts
            <7>2. Tail(p) # <<>> => 1 \in 1..Len(Tail(p)) BY <7>1
            <7> HIDE DEF p
            <7> QED BY <7>2, <2>1
          <6> QED BY <6>1, <5>2, <5>3, <5>4, <4>6 DEF Fillable
        <5> QED BY <5>2, <5>3, <5>4
      <4> QED BY <4>4, <4>5, <4>6, <2>1, <1>3 DEF t
    <3> QED BY <3>4, <3>5, <1>1
  <2>11. CASE ~f.ready
    <3>1. t = [f.stream EXCEPT !.pendingPullIntos[1] = e] BY <2>2, <2>11
    <3>2. Differ(f.stream, t, {"pendingPullIntos"})
          /\ t.pendingPullIntos = [p EXCEPT ![1] = e]
      BY <3>1, <2>9 DEF Differ, FieldNames
    <3>3. Differ(s, t, {"queue", "failed", "pendingPullIntos"}) /\ t.queue = <<>>
          /\ t.failed = (s.failed \/ s.byobRequest) /\ t.byobRequest = s.byobRequest
          /\ t.got = s.got /\ t.readRequests = s.readRequests /\ t.reader = s.reader
          /\ t.byob = s.byob
      BY <3>2, <2>6, <2>11 DEF Differ, FieldNames
    <3>4. Differ(s, t, ShiftFields) /\ Differ(s, t, LoopFields)
      BY <3>3 DEF Differ, ShiftFields, LoopFields, CommitFields
    <3>5. WellMade(e) /\ Refilled(p[1], e)
      BY <2>5, <2>6, <2>11 DEF WellMade, Refilled, d
    <3>6. t.failed \in BOOLEAN /\ t.byobRequest \in BOOLEAN /\ t.queue \in Seq(Seq(Nat) \ {<<>>})
      BY <3>3, <1>1
    <3> HIDE DEF e
    <3>7. /\ Parts(t, a) /\ NoneHead(t) = NoneHead(s) /\ HeadBytes(t) = e.bytes
          /\ t.pendingPullIntos # <<>> /\ t.pendingPullIntos[1] = e
          /\ Len(t.pendingPullIntos) = Len(p)
          /\ \A i \in 2..Len(p) : t.pendingPullIntos[i] = p[i]
      <4>1. s.state # "readable" => t.queue = <<>> BY <2>8
      <4>2. Parts(s, a) /\ s.pendingPullIntos # <<>> BY <1>1, <1>3
      <4>3. Replaces(s, t, e) BY <4>1, <4>2, <3>2, <3>4, <3>5, <3>6 DEF Replaces
      <4> QED BY <4>2, <4>3, HeadReplaced
    <3>8. LineTo(t, q)
      BY <3>3, <3>7, <2>3, <2>6, <2>7, <2>11 DEF LineTo
    <3>9. ASSUME Matched(s) PROVE Matched(t)
      <4>1. ASSUME NEW i \in 1..Len(p)
            PROVE  t.pendingPullIntos[i].elementSize = 1 /\ t.pendingPullIntos[i].minimumFill = 1
        <5>1. p[i].elementSize = 1 /\ p[i].minimumFill = 1 BY <3>9 DEF Matched
        <5>2. CASE i = 1 BY <5>1, <5>2, <3>5, <3>7 DEF Refilled
        <5>3. CASE i # 1
          <6>1. i \in 2..Len(p) BY <5>3, <2>1
          <6> QED BY <6>1, <5>1, <3>7
        <5> QED BY <5>2, <5>3
      <4> QED BY <4>1, <3>3, <3>7, <3>9 DEF Matched
    <3>10. ASSUME Fillable(s) PROVE ~t.failed /\ Fillable(t)
      <4>1. ~t.failed BY <3>3, <3>10 DEF Fillable
      <4>2. ~e.detached BY <2>6, <3>10, <1>3 DEF Fillable, d, e
      <4> QED BY <4>1, <4>2, <3>3, <3>7, <3>9, <3>10 DEF Fillable
    <3>11. FieldNames \subseteq DOMAIN t BY <3>4 DEF Differ
    <3> QED BY <3>3, <3>4, <3>6, <3>7, <3>8, <3>9, <3>10, <3>11, <1>3 DEF Core, t
  <2> QED BY <2>6, <2>10, <2>11
<1> QED BY <1>2, <1>3

\* The descriptors that the queue can fill are filled.
LEMMA ProcessesPullIntos ==
  ASSUME NEW s, NEW a, NEW q, Core(s, a, q), NoneHead(s) = 0, ~s.closeRequested
  PROVE  LET t == readableByteStreamControllerProcessPullIntoDescriptorsUsingQueue(s)
         IN  /\ FieldNames \subseteq DOMAIN t /\ t.failed \in BOOLEAN
             /\ Fillable(s) => ~t.failed
             /\ ~t.failed =>
                  /\ Core(t, a, q) /\ NoneHead(t) = 0 /\ Differ(s, t, LoopFields)
                  /\ Matched(s) => Matched(t)
                  /\ t.queue = <<>> \/ t.pendingPullIntos = <<>>
<1> DEFINE n == Len(s.pendingPullIntos)
           t == readableByteStreamControllerProcessPullIntoDescriptorsUsingQueue(s)
           b == Asserting(s, ~s.closeRequested)
<1>1. Fields(s) /\ FieldNames \subseteq DOMAIN s /\ s.failed \in BOOLEAN
      /\ s.pendingPullIntos \in Seq(Descriptors) /\ n \in Nat
  BY DEF Core, Parts, Fields
<1>2. Differ(s, b, {}) /\ b.failed = s.failed
  BY <1>1 DEF Asserting, Differ, FieldNames
<1>3. PICK f : Turns(f, "pullIntos", b, n) /\ t = f[n] BY <1>1, LoopPullIntos
<1> HIDE DEF t, n, b
<1>4. f[0] = b /\ \A k \in 1..n : f[k] = ProcessPullInto(f[k - 1])
  <2>1. Turns(f, "pullIntos", b, n) BY <1>3
  <2>2. n \in Nat BY <1>1
  <2>3. f[0] = b /\ \A k \in 1..n : f[k] = Turn("pullIntos", f[k - 1])
    BY <2>1, <2>2, TurnByTurn
  <2> QED BY <2>3 DEF Turn
<1> DEFINE Alive(u, k) ==
             /\ Core(u, a, q) /\ NoneHead(u) = 0 /\ Differ(s, u, LoopFields)
             /\ Matched(s) => Matched(u)
             /\ \/ u.pendingPullIntos = <<>> \/ u.queue = <<>>
                \/ Len(u.pendingPullIntos) <= n - k
           Inv(u, k) ==
             /\ FieldNames \subseteq DOMAIN u /\ u.failed \in BOOLEAN
             /\ Fillable(s) => ~u.failed /\ Fillable(u)
             /\ ~u.failed => Alive(u, k)
           T == {k \in Nat : k <= n => Inv(f[k], k)}
<1>5. 0 \in T
  <2>1. b.got = s.got /\ b.pendingPullIntos = s.pendingPullIntos /\ b.queue = s.queue
        /\ b.readRequests = s.readRequests /\ b.readIntoRequests = s.readIntoRequests
        /\ b.reader = s.reader /\ b.byob = s.byob /\ b.byobRequest = s.byobRequest
    BY <1>2 DEF Differ, FieldNames
  <2>2. Fields(b) BY <1>1, <1>2 DEF Fields, Differ, FieldNames
  <2>3. ControllerInv(b) BY <1>2 DEF Core, Parts, ControllerInv, Differ, FieldNames
  <2>4. DescriptorInv(b) /\ RequestInv(b, a) /\ AnswerInv(b, a) /\ LineTo(b, q)
    BY <1>2, Unaffected DEF Core, Parts
  <2>5. Core(b, a, q) BY <2>2, <2>3, <2>4 DEF Core, Parts
  <2>6. NoneHead(b) = 0 BY <2>1 DEF NoneHead
  <2>7. Matched(s) => Matched(b) BY <2>1, <2>6 DEF Matched
  <2>8. Fillable(s) => Fillable(b) /\ ~b.failed BY <1>2, <2>1, <2>7 DEF Fillable
  <2>9. Differ(s, b, LoopFields) /\ FieldNames \subseteq DOMAIN b BY <1>2 DEF Differ
  <2>10. Len(b.pendingPullIntos) <= n - 0 BY <1>1, <2>1 DEF n
  <2>11. Alive(b, 0) BY <2>5, <2>6, <2>7, <2>9, <2>10
  <2> HIDE DEF Alive
  <2>12. Inv(b, 0) BY <2>8, <2>9, <2>11, <1>1, <1>2
  <2> HIDE DEF Inv
  <2> QED BY <2>12, <1>4
<1>6. ASSUME NEW k \in Nat, k \in T PROVE k + 1 \in T
  <2> SUFFICES ASSUME k + 1 <= n PROVE Inv(f[k + 1], k + 1) OBVIOUS
  <2>1. k + 1 \in 1..n /\ (k + 1) - 1 = k /\ k <= n BY <1>1
  <2> DEFINE u == f[k]
             v == f[k + 1]
  <2>2. v = ProcessPullInto(u) BY <2>1, <1>4
  <2>3. Inv(u, k) BY <1>6, <2>1
  <2> HIDE DEF u, v
  <2>4. CASE u.failed
    <3>1. Dead(u) BY <2>3, <2>4 DEF Dead
    <3>2. Dead(v) BY <3>1, <2>2, DeadStays
    <3>3. FieldNames \subseteq DOMAIN v /\ v.failed = TRUE BY <3>2 DEF Dead
    <3>4. ~Fillable(s) BY <2>3, <2>4
    <3> HIDE DEF Alive
    <3>5. Inv(v, k + 1) BY <3>3, <3>4
    <3> QED BY <3>5 DEF v
  <2>5. CASE ~u.failed
    <3>1. Alive(u, k) BY <2>3, <2>5
    <3>2. /\ FieldNames \subseteq DOMAIN v /\ v.failed \in BOOLEAN
          /\ Fillable(u) => ~v.failed /\ Fillable(v)
          /\ ~v.failed =>
               /\ Core(v, a, q) /\ NoneHead(v) = 0 /\ Differ(u, v, LoopFields)
               /\ Matched(u) => Matched(v)
               /\ IF u.pendingPullIntos = <<>> \/ u.queue = <<>> THEN v = u
                  ELSE \/ v.queue = <<>>
                       \/ Len(v.pendingPullIntos) = Len(u.pendingPullIntos) - 1
      BY <3>1, <2>2, ProcessesPullInto
    <3>3. ASSUME ~v.failed PROVE Alive(v, k + 1)
      <4>1. Differ(s, v, LoopFields) BY <3>1, <3>2, <3>3 DEF Differ
      <4>2. \/ v.pendingPullIntos = <<>> \/ v.queue = <<>>
            \/ Len(v.pendingPullIntos) <= n - (k + 1)
        <5>1. CASE u.pendingPullIntos = <<>> \/ u.queue = <<>> BY <5>1, <3>2, <3>3
        <5>2. CASE ~(u.pendingPullIntos = <<>> \/ u.queue = <<>>)
          <6>1. u.pendingPullIntos \in Seq(Descriptors) BY <3>1 DEF Core, Parts, Fields
          <6>2. Len(u.pendingPullIntos) \in Nat BY <6>1
          <6>3. v.queue = <<>> \/ Len(v.pendingPullIntos) = Len(u.pendingPullIntos) - 1
            BY <5>2, <3>2, <3>3
          <6> QED BY <6>2, <6>3, <5>2, <3>1, <1>1
        <5> QED BY <5>1, <5>2
      <4> QED BY <4>1, <4>2, <3>1, <3>2, <3>3
    <3> HIDE DEF Alive
    <3>4. Inv(v, k + 1) BY <3>2, <3>3, <2>3
    <3> QED BY <3>4 DEF v
  <2>6. u.failed \in BOOLEAN BY <2>3
  <2> QED BY <2>4, <2>5, <2>6
<1>7. Inv(t, n)
  <2> HIDE DEF T
  <2>1. Nat \subseteq T BY <1>5, <1>6, SetInduction
  <2>2. n \in T BY <2>1, <1>1
  <2> HIDE DEF Inv
  <2> QED BY <2>2, <1>1, <1>3 DEF T
<1>8. ~t.failed => t.pendingPullIntos = <<>> \/ t.queue = <<>>
  <2> SUFFICES ASSUME ~t.failed PROVE t.pendingPullIntos = <<>> \/ t.queue = <<>> OBVIOUS
  <2>1. Alive(t, n) BY <1>7
  <2>2. t.pendingPullIntos \in Seq(Descriptors) BY <2>1 DEF Core, Parts, Fields
  <2>3. Len(t.pendingPullIntos) <= n - n => t.pendingPullIntos = <<>> BY <2>2, <1>1
  <2> QED BY <2>1, <2>3
<1> QED BY <1>7, <1>8 DEF t

\* The first descriptor has been shifted, and nobody waits for it.
Abandons(s, w) ==
  /\ s.pendingPullIntos # <<>> /\ NoneHead(s) = 1 /\ Differ(s, w, ShiftFields)
  /\ w.failed \in BOOLEAN /\ w.byobRequest \in BOOLEAN /\ ~w.byobRequest
  /\ w.queue \in Seq(Seq(Nat) \ {<<>>}) /\ (s.state # "readable" => w.queue = <<>>)
  /\ w.pendingPullIntos = Tail(s.pendingPullIntos)

\* A descriptor without a reader is shifted.
LEMMA ShiftsAbandoned ==
  ASSUME NEW s, NEW a, Parts(s, a), NEW w, Abandons(s, w)
  PROVE  Parts(w, a) /\ NoneHead(w) = 0 /\ HeadBytes(w) = <<>>
<1>1. /\ s.pendingPullIntos # <<>> /\ NoneHead(s) = 1 /\ Differ(s, w, ShiftFields)
      /\ w.failed \in BOOLEAN /\ w.byobRequest \in BOOLEAN /\ ~w.byobRequest
      /\ w.queue \in Seq(Seq(Nat) \ {<<>>}) /\ (s.state # "readable" => w.queue = <<>>)
      /\ w.pendingPullIntos = Tail(s.pendingPullIntos)
  BY DEF Abandons
<1> USE <1>1
<1> DEFINE p == s.pendingPullIntos
           t == Tail(p)
           n == Len(p)
<1>2. t \in Seq(Descriptors) /\ n \in Nat /\ Len(t) = n - 1
      /\ (\A i \in 1..Len(t) : t[i] = p[i + 1]) /\ NoneHead(w) = 0 /\ HeadBytes(w) = <<>>
  BY PendingTail DEF Parts
<1>3. w.got = s.got /\ w.state = s.state /\ w.reader = s.reader /\ w.byob = s.byob
      /\ w.algorithms = s.algorithms /\ w.pull = s.pull
      /\ w.start = s.start /\ w.pullAgain = s.pullAgain
      /\ w.readRequests = s.readRequests /\ w.readIntoRequests = s.readIntoRequests
  BY DEF Differ, FieldNames, ShiftFields
<1>4. s.state # "errored" BY DEF Parts, ControllerInv
<1>5. Fields(w) BY <1>2 DEF Parts, Fields, Differ, FieldNames, ShiftFields
<1>6. ControllerInv(w) BY <1>3, <1>4 DEF Parts, ControllerInv
<1>7. s.reader /\ s.byob => Len(s.readIntoRequests) = n - 1 BY DEF Parts, DescriptorInv
<1>8. DescriptorInv(w)
  <2>1. w.reader /\ w.byob => Len(w.readIntoRequests) = Len(w.pendingPullIntos)
    BY <1>2, <1>3, <1>7
  <2>2. w.byobRequest => w.pendingPullIntos # <<>> OBVIOUS
  <2> QED BY <2>1, <2>2, <1>3, DescriptorsTail
<1>9. AnswerInv(w, a)
  <2>1. ShiftFields \cap {"got", "reads"} = {} BY DEF ShiftFields
  <2> QED BY <2>1, Unaffected DEF Parts
<1>10. RequestInv(w, a)
  <2>1. ASSUME NEW i \in 1..Len(w.readIntoRequests)
        PROVE  /\ a[w.readIntoRequests[i]].elementSize
                    = w.pendingPullIntos[i + NoneHead(w)].elementSize
               /\ a[w.readIntoRequests[i]].minimumFill
                    = w.pendingPullIntos[i + NoneHead(w)].minimumFill
    <3>1. s.readIntoRequests \in Seq(Nat) BY DEF Parts, Fields
    <3>2. s.readIntoRequests # <<>> BY <3>1, <1>3
    <3>3. s.reader /\ s.byob BY <3>2 DEF Parts, RequestInv
    <3>4. i \in 1..Len(t) /\ i + NoneHead(w) = i BY <3>3, <1>2, <1>3, <1>7
    <3>5. w.pendingPullIntos[i + NoneHead(w)] = p[i + NoneHead(s)] BY <3>4, <1>2
    <3>6. i \in 1..Len(s.readIntoRequests) BY <1>3
    <3> HIDE DEF p
    <3> QED BY <3>5, <3>6, <1>3 DEF Parts, RequestInv, p
  <2> QED BY <2>1, <1>3, ZenonT(60) DEF Parts, RequestInv
<1> QED BY <1>2, <1>5, <1>6, <1>8, <1>9, <1>10 DEF Parts

\* The first descriptor has whole elements in a buffer of its own.
HeadAligned(s) ==
  s.pendingPullIntos # <<>> =>
    /\ Len(s.pendingPullIntos[1].bytes) % s.pendingPullIntos[1].elementSize = 0
    /\ ~s.pendingPullIntos[1].detached

\* A closed stream that a BYOB reader waits for, while the source responds.
Responding(s) ==
  /\ s.state = "closed" /\ s.reader /\ s.byob /\ ~s.byobRequest /\ ~s.failed
  /\ NoneHead(s) = 0 /\ HeadAligned(s)

\* A turn of the loop over the requests of a closed stream.
LEMMA RespondsToNext ==
  ASSUME NEW s, NEW a, NEW q, Core(s, a, q), Responding(s), s.pendingPullIntos # <<>>
  PROVE  LET t == RespondToNext(s)
         IN  /\ Core(t, a, q) /\ Responding(t) /\ Differ(s, t, LoopFields)
             /\ Len(t.pendingPullIntos) = Len(s.pendingPullIntos) - 1
<1> DEFINE t == RespondToNext(s)
           p == s.pendingPullIntos
           d == p[1]
           w == readableByteStreamControllerShiftPendingPullInto(s)
<1>1. Parts(s, a) /\ Fields(s) /\ FieldNames \subseteq DOMAIN s /\ s.failed \in BOOLEAN
      /\ s.byobRequest \in BOOLEAN
  BY DEF Core, Parts, Fields
<1>2. s.state = "closed" /\ s.reader /\ s.byob /\ ~s.byobRequest /\ ~s.failed
      /\ NoneHead(s) = 0 /\ Len(d.bytes) % d.elementSize = 0 /\ ~d.detached
  BY DEF Responding, HeadAligned
<1>3. /\ Len(p) \in Nat /\ Len(p) >= 1 /\ Len(Tail(p)) = Len(p) - 1
      /\ Head(p) = p[1] /\ d \in Descriptors /\ 1 \in 1..Len(p) /\ Tail(p) \in Seq(Descriptors)
      /\ \A i \in 1..Len(Tail(p)) :
           /\ Tail(p)[i] \in Descriptors /\ ~Tail(p)[i].detached /\ Tail(p)[i].bytes = <<>>
  BY <1>1, PendingTail DEF Parts
<1>4. t = readableByteStreamControllerCommitPullIntoDescriptor(w, d)
  BY <1>3 DEF RespondToNext
<1>5. /\ Differ(s, w, {"pendingPullIntos", "failed"}) /\ w.pendingPullIntos = Tail(p)
      /\ w.failed = (s.failed \/ s.byobRequest)
  BY <1>1, Shifts
<1> HIDE DEF t, w
<1>6. w.failed = FALSE /\ w.byobRequest = s.byobRequest /\ w.queue = s.queue
      /\ Differ(s, w, ShiftFields)
  BY <1>1, <1>2, <1>5 DEF Differ, FieldNames, ShiftFields
<1>7. s.queue = <<>> BY <1>1, <1>2 DEF Parts, ControllerInv
<1>8. PICK g \in Nat, h \in Nat : /\ Consecutive(s.got, 0, g) /\ Run(HeadBytes(s), g, h)
                                  /\ Consecutive(s.queue, h, q)
  BY DEF Core, LineTo
<1>9. Run(d.bytes, g, h) BY <1>8 DEF HeadBytes
<1>10. Refilled(p[1], d) /\ Len(d.bytes) <= d.byteLength
  <2>1. WellMade(d) BY <1>1, <1>3 DEF Parts, DescriptorInv
  <2>2. d.bytes \in Seq(Nat) /\ d.minimumFill \in Nat /\ d.byteLength \in Nat
    BY <1>3 DEF Descriptors, Numbers
  <2> QED BY <2>1, <2>2, <1>3 DEF WellMade, Refilled
<1>11. Ready(s, w, d, g, h, q)
  <2>1. w.queue \in Seq(Seq(Nat) \ {<<>>}) /\ w.queue = <<>> BY <1>6, <1>7
  <2>2. w.failed \in BOOLEAN /\ w.byobRequest \in BOOLEAN /\ ~w.byobRequest
    BY <1>1, <1>2, <1>6
  <2> HIDE DEF d
  <2> QED BY <2>1, <2>2, <1>2, <1>5, <1>6, <1>7, <1>8, <1>9, <1>10 DEF Ready
<1> HIDE DEF d
<1>12. /\ FieldNames \subseteq DOMAIN t
       /\ t.failed \in BOOLEAN /\ (w.failed => t.failed)
       /\ t.failed => \/ w.failed \/ NoneHead(s) = 1 \/ d.detached
                      \/ (s.reader /\ ~s.byob /\ s.readRequests = <<>>)
       /\ ~t.failed => /\ Core(t, a, q) /\ Differ(w, t, CommitFields)
                       /\ s.reader /\ NoneHead(s) = 0 /\ NoneHead(t) = 0
  BY <1>1, <1>4, <1>11, Commits
<1>13. ~t.failed BY <1>2, <1>6, <1>12
<1>14. Differ(w, t, CommitFields) /\ Core(t, a, q) /\ NoneHead(t) = 0 BY <1>12, <1>13
<1>15. Differ(s, t, LoopFields) /\ t.pendingPullIntos = Tail(p)
       /\ t.byobRequest = s.byobRequest /\ t.reader = s.reader /\ t.byob = s.byob
       /\ t.state = s.state
  BY <1>5, <1>6, <1>14 DEF Differ, FieldNames, LoopFields, CommitFields, ShiftFields
<1>16. HeadAligned(t)
  <2> SUFFICES ASSUME Tail(p) # <<>>
               PROVE  Len(Tail(p)[1].bytes) % Tail(p)[1].elementSize = 0
                      /\ ~Tail(p)[1].detached
    BY <1>15 DEF HeadAligned
  <2>1. 1 \in 1..Len(Tail(p)) BY <1>3
  <2> HIDE DEF p
  <2>2. Tail(p)[1] \in Descriptors /\ ~Tail(p)[1].detached /\ Tail(p)[1].bytes = <<>>
    BY <2>1, <1>3
  <2>3. Len(Tail(p)[1].bytes) = 0 /\ Tail(p)[1].elementSize \in Numbers
    BY <2>2 DEF Descriptors
  <2>4. \A e \in Numbers : 0 % e = 0 BY Remainder
  <2> QED BY <2>2, <2>3, <2>4
<1>17. Responding(t) BY <1>2, <1>13, <1>14, <1>15, <1>16 DEF Responding
<1> QED BY <1>3, <1>14, <1>15, <1>17 DEF t

\* The requests of a closed stream are all answered.
LEMMA RespondsToAll ==
  ASSUME NEW s, NEW a, NEW q, Core(s, a, q), Responding(s), NEW f, NEW n,
         n = Len(s.readIntoRequests), Turns(f, "responds", s, n)
  PROVE  /\ Core(f[n], a, q) /\ Responding(f[n]) /\ Differ(s, f[n], LoopFields)
         /\ f[n].pendingPullIntos = <<>> /\ f[n].readIntoRequests = <<>>
<1>1. n \in Nat /\ n = Len(s.pendingPullIntos)
  <2>1. s.pendingPullIntos \in Seq(Descriptors) BY DEF Core, Parts, Fields
  <2>2. Len(s.readIntoRequests) = Len(s.pendingPullIntos) - NoneHead(s)
    BY DEF Core, Parts, DescriptorInv, Responding
  <2> QED BY <2>1, <2>2 DEF Responding
<1>2. f[0] = s /\ \A k \in 1..n : f[k] = RespondToNext(f[k - 1])
  <2>1. PICK j \in Nat : j = n BY <1>1
  <2>2. Turns(f, "responds", s, j) BY <2>1
  <2>3. f[0] = s /\ \A k \in 1..j : f[k] = Turn("responds", f[k - 1])
    BY <2>2, TurnByTurn
  <2> QED BY <2>1, <2>3 DEF Turn
<1> DEFINE Inv(u, k) ==
             /\ Core(u, a, q) /\ Responding(u) /\ Differ(s, u, LoopFields)
             /\ Len(u.pendingPullIntos) = n - k
           T == {k \in Nat : k <= n => Inv(f[k], k)}
<1>3. 0 \in T
  <2>1. Differ(s, s, LoopFields) BY DEF Core, Parts, Fields, Differ
  <2>2. Inv(s, 0) BY <2>1, <1>1
  <2> HIDE DEF Inv
  <2> QED BY <2>2, <1>2
<1>4. ASSUME NEW k \in Nat, k \in T PROVE k + 1 \in T
  <2> SUFFICES ASSUME k + 1 <= n PROVE Inv(f[k + 1], k + 1) OBVIOUS
  <2>1. k + 1 \in 1..n /\ (k + 1) - 1 = k /\ k <= n BY <1>1
  <2> DEFINE u == f[k]
             v == f[k + 1]
  <2>2. v = RespondToNext(u) BY <2>1, <1>2
  <2>3. Inv(u, k) BY <1>4, <2>1
  <2> HIDE DEF u, v
  <2>4. u.pendingPullIntos # <<>>
    <3> SUFFICES ASSUME u.pendingPullIntos = <<>> PROVE FALSE OBVIOUS
    <3>1. Len(u.pendingPullIntos) = 0 OBVIOUS
    <3> QED BY <3>1, <2>3, <1>1
  <2>5. /\ Core(v, a, q) /\ Responding(v) /\ Differ(u, v, LoopFields)
        /\ Len(v.pendingPullIntos) = Len(u.pendingPullIntos) - 1
    BY <2>2, <2>3, <2>4, RespondsToNext
  <2>6. Differ(s, v, LoopFields) BY <2>3, <2>5 DEF Differ
  <2>7. Len(v.pendingPullIntos) = n - (k + 1) BY <2>3, <2>5, <1>1
  <2>8. Inv(v, k + 1) BY <2>5, <2>6, <2>7
  <2> QED BY <2>8 DEF v
<1>5. Inv(f[n], n)
  <2> HIDE DEF T
  <2>1. Nat \subseteq T BY <1>3, <1>4, SetInduction
  <2>2. n \in T BY <2>1, <1>1
  <2> HIDE DEF Inv
  <2> QED BY <2>2, <1>1 DEF T
<1> DEFINE t == f[n]
<1> HIDE DEF t
<1>6. Core(t, a, q) /\ Responding(t) /\ Len(t.pendingPullIntos) = 0
      /\ Differ(s, t, LoopFields)
  BY <1>1, <1>5 DEF t
<1>7. t.pendingPullIntos \in Seq(Descriptors) /\ t.readIntoRequests \in Seq(Nat)
  BY <1>6 DEF Core, Parts, Fields
<1>8. t.pendingPullIntos = <<>> BY <1>6, <1>7
<1>9. Len(t.readIntoRequests) = 0
  <2>1. Len(t.readIntoRequests) = Len(t.pendingPullIntos) - NoneHead(t)
    BY <1>6 DEF Core, Parts, DescriptorInv, Responding
  <2> QED BY <2>1, <1>6 DEF Responding
<1>10. t.readIntoRequests = <<>> BY <1>7, <1>9
<1> QED BY <1>6, <1>8, <1>10 DEF t

\* The source answers with nothing after the close: reads into views end.
LEMMA RespondsInClosed ==
  ASSUME NEW s, NEW a, NEW q, Core(s, a, q), s.state = "closed", s.pendingPullIntos # <<>>,
         ~s.byobRequest, ~s.failed, HeadAligned(s)
  PROVE  LET t == readableByteStreamControllerRespondInClosedState(s)
         IN  /\ \E g \in Nat : g <= q /\ Core(t, a, g) /\ (NoneHead(s) = 0 => g = q)
             /\ ~t.failed /\ Differ(s, t, LoopFields) /\ BetweenCalls(t) /\ NoneHead(t) = 0
             /\ t.readIntoRequests = <<>> /\ (DefaultOnly(s) => DefaultOnly(t))
<1> DEFINE t == readableByteStreamControllerRespondInClosedState(s)
           p == s.pendingPullIntos
           d == Head(p)
           v == Asserting(s, Len(d.bytes) % d.elementSize = 0)
           w == readableByteStreamControllerShiftPendingPullInto(v)
           u == IF d.readerType = "none" THEN w ELSE v
<1>1. Parts(s, a) /\ Fields(s) /\ FieldNames \subseteq DOMAIN s /\ s.failed \in BOOLEAN
      /\ s.byobRequest \in BOOLEAN /\ s.reader \in BOOLEAN /\ s.byob \in BOOLEAN
  BY DEF Core, Parts, Fields
<1>2. /\ Len(p) \in Nat /\ Len(p) >= 1 /\ Len(Tail(p)) = Len(p) - 1
      /\ Head(p) = p[1] /\ p[1] \in Descriptors /\ 1 \in 1..Len(p)
      /\ Tail(p) \in Seq(Descriptors)
      /\ \A i \in 1..Len(Tail(p)) :
           /\ i + 1 \in 1..Len(p) /\ Tail(p)[i] = p[i + 1] /\ Tail(p)[i] \in Descriptors
           /\ ~Tail(p)[i].detached /\ Tail(p)[i].bytes = <<>>
  BY <1>1, PendingTail DEF Parts
<1>3. Differ(s, v, {}) /\ v.failed = s.failed
  <2>1. Len(d.bytes) % d.elementSize = 0 BY <1>2 DEF HeadAligned
  <2> QED BY <1>1, <2>1 DEF Asserting, Differ, FieldNames
<1>4. s.queue = <<>> /\ s.readRequests = <<>> BY <1>1 DEF Parts, ControllerInv, RequestInv
<1>5. NoneHead(s) = IF d.readerType = "none" THEN 1 ELSE 0 BY <1>2 DEF NoneHead
<1>6. u = LET x == Head(s.pendingPullIntos)
              y == Asserting(s, Len(x.bytes) % x.elementSize = 0)
          IN IF x.readerType = "none"
               THEN readableByteStreamControllerShiftPendingPullInto(y) ELSE y
  OBVIOUS
<1>7. PICK g \in Nat, h \in Nat : /\ Consecutive(s.got, 0, g) /\ Run(HeadBytes(s), g, h)
                                  /\ Consecutive(s.queue, h, q)
  BY DEF Core, LineTo
<1>8. h = q /\ g <= q
  <2>1. h = q BY <1>4, <1>7, EmptyLine
  <2> QED BY <2>1, <1>7 DEF Run
<1> HIDE DEF v, d, t
<1>9. /\ Core(u, a, IF NoneHead(s) = 0 THEN q ELSE g) /\ Differ(s, u, LoopFields)
      /\ NoneHead(u) = 0 /\ HeadAligned(u) /\ u.failed = FALSE
      /\ DefaultOnly(s) => DefaultOnly(u)
  <2>1. CASE d.readerType # "none"
    <3>1. u = v /\ NoneHead(s) = 0 BY <2>1, <1>5
    <3> HIDE DEF u
    <3>2. v.pendingPullIntos = s.pendingPullIntos /\ v.state = s.state
      BY <1>3 DEF Differ, FieldNames
    <3>3. Fields(v) BY <1>1, <1>3 DEF Fields, Differ, FieldNames
    <3>4. ControllerInv(v) BY <1>1, <1>3 DEF Parts, ControllerInv, Differ, FieldNames
    <3>5. DescriptorInv(v) /\ RequestInv(v, a) /\ AnswerInv(v, a) /\ LineTo(v, q)
          /\ (DefaultOnly(s) => DefaultOnly(v))
      BY <1>3, Unaffected DEF Core, Parts
    <3>6. Core(v, a, q) BY <3>3, <3>4, <3>5 DEF Core, Parts
    <3>7. Differ(s, v, LoopFields) BY <1>3 DEF Differ
    <3>8. NoneHead(v) = 0 /\ HeadAligned(v) BY <3>1, <3>2 DEF NoneHead, HeadAligned
    <3> QED BY <3>1, <3>5, <3>6, <3>7, <3>8, <1>1, <1>3
  <2>2. CASE d.readerType = "none"
    <3>1. u = w /\ NoneHead(s) = 1 BY <2>2, <1>5
    <3>2. FieldNames \subseteq DOMAIN v /\ v.failed \in BOOLEAN /\ v.byobRequest = s.byobRequest
          /\ v.pendingPullIntos = p /\ v.queue = <<>> /\ v.got = s.got
      BY <1>1, <1>3, <1>4 DEF Differ, FieldNames
    <3>3. /\ Differ(v, w, {"pendingPullIntos", "failed"}) /\ w.pendingPullIntos = Tail(p)
          /\ w.failed = (v.failed \/ v.byobRequest)
      BY <1>1, <3>2, Shifts
    <3> HIDE DEF w, u
    <3>4. Differ(s, w, {"pendingPullIntos", "failed"}) /\ w.failed = FALSE
      BY <1>1, <1>3, <3>2, <3>3 DEF Differ, FieldNames
    <3>5. Differ(s, w, ShiftFields) /\ Differ(s, w, LoopFields) /\ w.queue = <<>>
          /\ w.byobRequest = s.byobRequest /\ w.got = s.got /\ w.state = s.state
      BY <3>4, <1>4 DEF Differ, FieldNames, ShiftFields, LoopFields, CommitFields
    <3>6. Abandons(s, w)
      <4>1. w.failed \in BOOLEAN /\ w.byobRequest \in BOOLEAN /\ ~w.byobRequest
        BY <3>4, <3>5, <1>1
      <4>2. w.queue \in Seq(Seq(Nat) \ {<<>>}) BY <3>5
      <4> QED BY <4>1, <4>2, <3>1, <3>3, <3>5 DEF Abandons
    <3>7. Parts(w, a) /\ NoneHead(w) = 0 /\ HeadBytes(w) = <<>> BY <3>6, <1>1, ShiftsAbandoned
    <3>8. LineTo(w, g)
      <4>1. Run(<<>>, g, g) /\ Consecutive(<<>>, g, g) BY RunFacts, EmptyLine
      <4> QED BY <4>1, <3>5, <3>7, <1>7 DEF LineTo
    <3>9. HeadAligned(w)
      <4> SUFFICES ASSUME Tail(p) # <<>>
                   PROVE  Len(Tail(p)[1].bytes) % Tail(p)[1].elementSize = 0
                          /\ ~Tail(p)[1].detached
        BY <3>3 DEF HeadAligned
      <4>1. 1 \in 1..Len(Tail(p)) BY <1>2
      <4> HIDE DEF p
      <4>2. Tail(p)[1] \in Descriptors /\ ~Tail(p)[1].detached /\ Tail(p)[1].bytes = <<>>
        BY <4>1, <1>2
      <4>3. Len(Tail(p)[1].bytes) = 0 /\ Tail(p)[1].elementSize \in Numbers
        BY <4>2 DEF Descriptors
      <4>4. \A e \in Numbers : 0 % e = 0 BY Remainder
      <4> QED BY <4>2, <4>3, <4>4
    <3>10. DefaultOnly(s) => DefaultOnly(w)
      BY <1>2, <3>3, <3>5 DEF DefaultOnly
    <3> QED BY <3>1, <3>4, <3>5, <3>7, <3>8, <3>9, <3>10 DEF Core
  <2> QED BY <2>1, <2>2
<1> DEFINE m == IF NoneHead(s) = 0 THEN q ELSE g
<1>10. m \in Nat /\ m <= q /\ (NoneHead(s) = 0 => m = q) BY <1>7, <1>8
<1> HIDE DEF u, w, m
<1>11. Core(u, a, m) BY <1>9 DEF m
<1>12. u.readIntoRequests \in Seq(Nat) BY <1>11 DEF Core, Parts, Fields
<1> DEFINE n == Len(u.readIntoRequests)
<1>13. n \in Nat BY <1>12
<1>14. PICK f : Turns(f, "responds", u, n) /\ t = f[n]
  BY <1>6, <1>13, LoopResponds DEF t, u, v, w, d
<1>15. u.state = "closed" /\ u.reader = s.reader /\ u.byob = s.byob
       /\ u.byobRequest = s.byobRequest
  BY <1>9 DEF Differ, FieldNames, LoopFields, CommitFields
<1>16. CASE s.reader /\ s.byob
  <2>1. Responding(u) BY <1>9, <1>15, <1>16 DEF Responding
  <2>2. /\ Core(t, a, m) /\ Responding(t) /\ Differ(u, t, LoopFields)
        /\ t.pendingPullIntos = <<>> /\ t.readIntoRequests = <<>>
    BY <2>1, <1>11, <1>14, RespondsToAll
  <2> HIDE DEF n
  <2>3. Differ(s, t, LoopFields) BY <2>2, <1>9 DEF Differ
  <2>4. t.state = "closed" BY <2>3 DEF Differ, FieldNames, LoopFields, CommitFields
  <2>5. BetweenCalls(t) /\ DefaultOnly(t) BY <2>2, <2>4 DEF BetweenCalls, DefaultOnly
  <2>6. ~t.failed /\ NoneHead(t) = 0 BY <2>2 DEF Responding
  <2> QED BY <2>2, <2>3, <2>5, <2>6, <1>10 DEF t
<1>17. CASE ~(s.reader /\ s.byob)
  <2>1. u.readIntoRequests = <<>>
    <3>1. ~(u.reader /\ u.byob) BY <1>15, <1>17
    <3> QED BY <3>1, <1>11 DEF Core, Parts, RequestInv
  <2>2. n = 0 BY <2>1
  <2> HIDE DEF n
  <2>3. PICK j \in Nat : j = 0 OBVIOUS
  <2>4. Turns(f, "responds", u, j) /\ t = f[0] BY <2>2, <2>3, <1>14
  <2>5. f[0] = u BY <2>4, TurnByTurn
  <2>6. t = u BY <2>4, <2>5
  <2>7. BetweenCalls(u)
    <3>1. u.queue = <<>> BY <1>11, <1>15 DEF Core, Parts, ControllerInv
    <3> QED BY <3>1, <1>9, <1>15 DEF BetweenCalls, HeadAligned
  <2> QED BY <2>1, <2>6, <2>7, <1>9, <1>10, <1>11 DEF t
<1> QED BY <1>16, <1>17

-----------------------------------------------------------------------------
(* What a call promises: from Resting to Call. *)

\* No demand is lost: the source is told when the stream comes to want bytes or a read
\* begins to wait, and asked again when it was to be.
Told(s, t) ==
  readableByteStreamControllerShouldCallPull(t) =>
    /\ ~readableByteStreamControllerShouldCallPull(s) \/ Requests(t) > Requests(s) =>
         \/ t.pull = "pending" /\ (s.pull = "pending" => t.pullAgain)
         \/ s.byob /\ s.pendingPullIntos # <<>>
    /\ s.pullAgain => t.pull = "pending"

\* n bytes come after the first q, or bytes have been given up.
LineGoes(s, t, q, n) ==
  \/ /\ LineTo(t, q + n) /\ (t.state = "readable" => s.state = "readable")
     /\ t.state = "closed" /\ t.cancel = "none" =>
          s.state = "readable" \/ (s.state = "closed" /\ s.cancel = "none")
  \/ /\ \E g \in Nat : g <= q + n /\ LineTo(t, g)
     /\ t.state # "readable"
     /\ t.state = "errored" \/ t.cancel # "none" \/ NoneHead(s) = 1

\* A call takes the stream from s to t, with b the views of the reads and n bytes more.
Goes(s, t, b, q, n) ==
  /\ Parts(t, b) /\ BetweenCalls(t)
  /\ t.reader = s.reader /\ t.byob = s.byob /\ NoneHead(t) <= NoneHead(s)
  /\ DefaultOnly(s) /\ ~(s.reader /\ s.byob) => DefaultOnly(t)
  /\ LineGoes(s, t, q, n) /\ Told(s, t)

\* Only a default reader that has descriptors of other readers before its own fails.
Call(s, t, b, q, n) ==
  /\ t.failed \in BOOLEAN
  /\ IF t.failed THEN s.reader /\ ~s.byob /\ ~DefaultOnly(s) ELSE Goes(s, t, b, q, n)

\* A stream between two calls.
Resting(s, a, q) == Core(s, a, q) /\ BetweenCalls(s) /\ s.failed = FALSE /\ q \in Nat

\* The last thing a call does is to ask for more.
LEMMA PullKeeps ==
  ASSUME NEW s, NEW a, Parts(s, a)
  PROVE  LET t == readableByteStreamControllerCallPullIfNeeded(s)
         IN  /\ Parts(t, a) /\ Differ(s, t, PullFields) /\ NoneHead(t) = NoneHead(s)
             /\ \A q : LineTo(s, q) => LineTo(t, q)
             /\ BetweenCalls(s) => BetweenCalls(t)
             /\ DefaultOnly(s) => DefaultOnly(t)
             /\ PullGoes(s, t)
<1> DEFINE t == readableByteStreamControllerCallPullIfNeeded(s)
<1>1. /\ Differ(s, t, PullFields) /\ Fields(t) /\ ControllerInv(t)
      /\ PullGoes(s, t)
  BY PullsIfNeeded DEF Parts, PullFields
<1> HIDE DEF t
<1>2. PullFields \cap {"byobRequest", "pendingPullIntos", "reader", "byob",
                       "readIntoRequests"} = {}
      /\ PullFields \cap {"readRequests", "readIntoRequests", "state", "reader", "byob",
                          "got", "pendingPullIntos"} = {}
      /\ PullFields \cap {"got", "reads"} = {}
      /\ PullFields \cap {"got", "pendingPullIntos", "queue"} = {}
      /\ PullFields \cap {"pendingPullIntos", "state", "autoAllocateChunkSize",
                          "readRequests", "queue"} = {}
  BY DEF PullFields
<1>3. DescriptorInv(t) /\ RequestInv(t, a) /\ AnswerInv(t, a)
      /\ (\A q : LineTo(s, q) => LineTo(t, q)) /\ (DefaultOnly(s) => DefaultOnly(t))
  BY <1>1, <1>2, Unaffected DEF Parts
<1>4. BetweenCalls(s) => BetweenCalls(t)
  BY <1>1 DEF BetweenCalls, Differ, FieldNames, PullFields
<1>5. NoneHead(t) = NoneHead(s) BY <1>1 DEF NoneHead, Differ, FieldNames, PullFields
<1> QED BY <1>1, <1>3, <1>4, <1>5 DEF Parts, t

\* What a call has done before it asks for more.
Worked(s, v, b, q, n) ==
  IF v.failed
    THEN Dead(v) /\ s.reader /\ ~s.byob /\ ~DefaultOnly(s)
    ELSE /\ Parts(v, b) /\ BetweenCalls(v)
         /\ v.reader = s.reader /\ v.byob = s.byob /\ NoneHead(v) <= NoneHead(s)
         /\ DefaultOnly(s) /\ ~(s.reader /\ s.byob) => DefaultOnly(v)
         /\ LineGoes(s, v, q, n) /\ KeepsPull(s, v)

\* The call has done its work at v and asks for more.
LEMMA EndsWithPull ==
  ASSUME NEW s, NEW v, NEW b, NEW q \in Nat, NEW n \in Nat, Worked(s, v, b, q, n)
  PROVE  Call(s, readableByteStreamControllerCallPullIfNeeded(v), b, q, n)
<1> DEFINE t == readableByteStreamControllerCallPullIfNeeded(v)
<1>1. CASE v.failed
  <2>1. Dead(v) /\ s.reader /\ ~s.byob /\ ~DefaultOnly(s) BY <1>1 DEF Worked
  <2>2. Dead(t) BY <2>1, DeadStays
  <2> HIDE DEF t
  <2>3. t.failed = TRUE BY <2>2 DEF Dead
  <2> QED BY <2>1, <2>3 DEF Call, t
<1>2. CASE ~v.failed
  <2>1. /\ Parts(v, b) /\ BetweenCalls(v)
        /\ v.reader = s.reader /\ v.byob = s.byob /\ NoneHead(v) <= NoneHead(s)
        /\ DefaultOnly(s) /\ ~(s.reader /\ s.byob) => DefaultOnly(v)
        /\ LineGoes(s, v, q, n) /\ KeepsPull(s, v)
    BY <1>2 DEF Worked
  <2>2. /\ Parts(t, b) /\ Differ(v, t, PullFields) /\ NoneHead(t) = NoneHead(v)
        /\ \A x : LineTo(v, x) => LineTo(t, x)
        /\ BetweenCalls(v) => BetweenCalls(t)
        /\ DefaultOnly(v) => DefaultOnly(t)
        /\ PullGoes(v, t)
    BY <2>1, PullKeeps
  <2> HIDE DEF t
  <2>3. t.reader = v.reader /\ t.byob = v.byob /\ t.state = v.state /\ t.cancel = v.cancel
        /\ t.failed = v.failed
    BY <2>2 DEF Differ, FieldNames, PullFields
  <2>4. LineGoes(s, t, q, n) BY <2>1, <2>2, <2>3 DEF LineGoes
  <2>5. Told(s, t) BY <2>1, <2>2 DEF Told, PullGoes, KeepsPull
  <2>6. t.failed \in BOOLEAN BY <2>2 DEF Parts, Fields
  <2>7. Goes(s, t, b, q, n) BY <2>1, <2>2, <2>3, <2>4, <2>5 DEF Goes
  <2>8. ~t.failed BY <2>3, <1>2
  <2> QED BY <2>6, <2>7, <2>8 DEF Call, t
<1> QED BY <1>1, <1>2

\* The rest of a sequence whose first element changes.
LEMMA TailOfReplaced ==
  ASSUME NEW S, NEW p \in Seq(S), p # <<>>, NEW d \in S
  PROVE  Tail([p EXCEPT ![1] = d]) = Tail(p) /\ [p EXCEPT ![1] = d] # <<>>
         /\ Head([p EXCEPT ![1] = d]) = d /\ [p EXCEPT ![1] = d] \in Seq(S)
<1> DEFINE t == [p EXCEPT ![1] = d]
           n == Len(p)
<1>1. n \in Nat /\ n >= 1 /\ 1 \in 1..Len(p) OBVIOUS
<1>2. t \in Seq(S) /\ Len(t) = n /\ \A i \in 1..n : t[i] = IF i = 1 THEN d ELSE p[i]
  BY <1>1, ExceptSeq
<1> HIDE DEF t
<1>3. t # <<>> /\ Head(t) = d BY <1>1, <1>2
<1>4. Tail(t) \in Seq(S) /\ Len(Tail(t)) = n - 1 /\ \A i \in 1..(n - 1) : Tail(t)[i] = t[i + 1]
  BY <1>2, <1>3, HeadTailProperties
<1>5. Tail(p) \in Seq(S) /\ Len(Tail(p)) = n - 1 /\ \A i \in 1..(n - 1) : Tail(p)[i] = p[i + 1]
  BY <1>1, HeadTailProperties
<1>6. \A i \in 1..(n - 1) : Tail(t)[i] = Tail(p)[i]
  <2> TAKE i \in 1..(n - 1)
  <2>1. i + 1 \in 1..n /\ i + 1 # 1 BY <1>1
  <2> QED BY <2>1, <1>2, <1>4, <1>5
<1>7. Tail(t) = Tail(p) BY <1>4, <1>5, <1>6, SeqEqual
<1> QED BY <1>2, <1>3, <1>7 DEF t

-----------------------------------------------------------------------------
(* enqueue(). *)

\* The first descriptor of s has no reader, and is d in v.
Orphan(s, v, d, q) ==
  /\ NoneHead(s) = 1 /\ s.queue = <<>> /\ s.state = "readable"
  /\ s.pendingPullIntos # <<>> /\ ~s.byobRequest /\ s.failed = FALSE
  /\ Refilled(s.pendingPullIntos[1], d) /\ Differ(s, v, {"pendingPullIntos"})
  /\ v.pendingPullIntos = [s.pendingPullIntos EXCEPT ![1] = d] /\ LineTo(v, q)

\* What a released read had received goes to the empty queue.
LEMMA EnqueuesDetached ==
  ASSUME NEW s, NEW a, Parts(s, a), NEW v, NEW d, NEW q, Orphan(s, v, d, q)
  PROVE  LET t == readableByteStreamControllerEnqueueDetachedPullIntoToQueue(v)
         IN  /\ Core(t, a, q) /\ t.failed = FALSE /\ NoneHead(t) = 0
             /\ t.pendingPullIntos = Tail(s.pendingPullIntos)
             /\ Differ(s, t, {"queue", "pendingPullIntos"})
             /\ d.bytes = <<>> => t.queue = <<>>
<1> DEFINE t == readableByteStreamControllerEnqueueDetachedPullIntoToQueue(v)
           p == s.pendingPullIntos
           y == Asserting(v, d.readerType = "none")
           z == [y EXCEPT !.queue = Append(@, d.bytes)]
           u == IF d.bytes = <<>> THEN y ELSE z
<1>1. /\ NoneHead(s) = 1 /\ s.queue = <<>> /\ s.state = "readable"
      /\ s.pendingPullIntos # <<>> /\ ~s.byobRequest /\ s.failed = FALSE
      /\ Refilled(s.pendingPullIntos[1], d) /\ Differ(s, v, {"pendingPullIntos"})
      /\ v.pendingPullIntos = [s.pendingPullIntos EXCEPT ![1] = d] /\ LineTo(v, q)
  BY DEF Orphan
<1> USE <1>1
<1>2. FieldNames \subseteq DOMAIN s /\ p \in Seq(Descriptors) /\ s.byobRequest \in BOOLEAN
  BY DEF Parts, Fields
<1>3. d \in Descriptors /\ d.readerType = p[1].readerType /\ d.bytes \in Seq(Nat)
  BY DEF Refilled, Descriptors
<1>4. d.readerType = "none" BY <1>3 DEF NoneHead
<1>5. v.pendingPullIntos # <<>> /\ Head(v.pendingPullIntos) = d
      /\ Tail(v.pendingPullIntos) = Tail(p)
  BY <1>2, <1>3, TailOfReplaced
<1>6. t = readableByteStreamControllerShiftPendingPullInto(u)
  BY <1>5 DEF readableByteStreamControllerEnqueueDetachedPullIntoToQueue,
              readableByteStreamControllerEnqueueChunkToQueue
<1>7. FieldNames \subseteq DOMAIN v /\ v.queue = <<>> /\ v.failed = FALSE /\ v.got = s.got
      /\ v.byobRequest = s.byobRequest
  BY DEF Differ, FieldNames
<1>8. Differ(v, y, {}) BY <1>4, <1>7 DEF Asserting, Differ, FieldNames
<1> HIDE DEF y
<1>9. y.queue = <<>> BY <1>7, <1>8 DEF Differ, FieldNames
<1>10. Differ(v, u, {"queue"}) /\ u.queue = IF d.bytes = <<>> THEN <<>> ELSE Append(<<>>, d.bytes)
  <2>1. Differ(y, z, {"queue"}) /\ z.queue = Append(<<>>, d.bytes)
    BY <1>8, <1>9 DEF Differ, FieldNames
  <2> HIDE DEF z
  <2>2. Differ(v, y, {"queue"}) /\ Differ(v, z, {"queue"}) BY <1>8, <2>1 DEF Differ
  <2> QED BY <2>1, <2>2, <1>9
<1> HIDE DEF u, t
<1>11. FieldNames \subseteq DOMAIN u /\ u.failed = FALSE /\ u.byobRequest = s.byobRequest
       /\ u.pendingPullIntos = v.pendingPullIntos
  BY <1>7, <1>10 DEF Differ, FieldNames
<1>12. /\ Differ(u, t, {"pendingPullIntos", "failed"}) /\ t.pendingPullIntos = Tail(p)
       /\ t.failed = (u.failed \/ u.byobRequest)
  <2>1. u.failed \in BOOLEAN /\ u.byobRequest \in BOOLEAN BY <1>2, <1>11
  <2>2. Tail(u.pendingPullIntos) = Tail(p) BY <1>5, <1>11
  <2>3. FieldNames \subseteq DOMAIN u BY <1>11
  <2> HIDE DEF p
  <2> QED BY <2>1, <2>2, <2>3, <1>6, Shifts
<1>13. t.failed = FALSE BY <1>2, <1>11, <1>12
<1>14. Differ(s, t, {"queue", "pendingPullIntos"}) /\ t.queue = u.queue
  BY <1>10, <1>12, <1>13 DEF Differ, FieldNames
<1>15. t.byobRequest = s.byobRequest /\ t.got = s.got /\ Differ(s, t, ShiftFields)
  BY <1>14 DEF Differ, FieldNames, ShiftFields
<1>16. t.queue \in Seq(Seq(Nat) \ {<<>>})
  <2>1. CASE d.bytes = <<>> BY <2>1, <1>10, <1>14
  <2>2. CASE d.bytes # <<>>
    <3>1. d.bytes \in Seq(Nat) \ {<<>>} BY <2>2, <1>3
    <3> QED BY <3>1, <2>2, <1>10, <1>14
  <2> QED BY <2>1, <2>2
<1>17. Abandons(s, t)
  <2>1. t.failed \in BOOLEAN /\ t.byobRequest \in BOOLEAN /\ ~t.byobRequest
    BY <1>2, <1>13, <1>15
  <2> QED BY <2>1, <1>12, <1>15, <1>16 DEF Abandons
<1>18. Parts(t, a) /\ NoneHead(t) = 0 /\ HeadBytes(t) = <<>> BY <1>17, ShiftsAbandoned
<1>19. LineTo(t, q)
  <2>1. PICK g \in Nat, h \in Nat : /\ Consecutive(v.got, 0, g) /\ Run(HeadBytes(v), g, h)
                                    /\ Consecutive(v.queue, h, q)
    BY DEF LineTo
  <2>2. h = q BY <2>1, <1>7, EmptyLine
  <2>3. HeadBytes(v) = d.bytes
    <3>1. 1 \in 1..Len(p) BY <1>2
    <3>2. v.pendingPullIntos[1] = d BY <3>1, <1>2, <1>3, ExceptSeq
    <3> QED BY <3>2, <1>5 DEF HeadBytes
  <2>4. Run(d.bytes, g, q) BY <2>1, <2>2, <2>3
  <2>5. Consecutive(t.queue, g, q)
    <3>1. CASE d.bytes = <<>>
      <4>1. q = g BY <3>1, <2>4 DEF Run
      <4> QED BY <4>1, <3>1, <1>10, <1>14, EmptyLine
    <3>2. CASE d.bytes # <<>>
      <4>1. Consecutive(<<>>, g, g) BY EmptyLine
      <4>2. Consecutive(Append(<<>>, d.bytes), g, q) BY <4>1, <2>4, LineAppend
      <4> QED BY <4>2, <3>2, <1>10, <1>14
    <3> QED BY <3>1, <3>2
  <2>6. Run(<<>>, g, g) BY RunFacts
  <2> QED BY <2>1, <2>5, <2>6, <1>7, <1>15, <1>18 DEF LineTo
<1> QED BY <1>10, <1>12, <1>13, <1>14, <1>18, <1>19 DEF Core, t

\* Bytes go to the end of the queue.
LEMMA QueuesChunk ==
  ASSUME NEW s, NEW a, NEW q, Core(s, a, q), s.state = "readable", NEW x, NEW c,
         Run(x, q, c), x # <<>>
  PROVE  LET t == readableByteStreamControllerEnqueueChunkToQueue(s, x)
         IN  Core(t, a, c) /\ Differ(s, t, {"queue"}) /\ t.queue # <<>>
<1> DEFINE t == readableByteStreamControllerEnqueueChunkToQueue(s, x)
<1>1. Differ(s, t, {"queue"}) /\ t.queue = Append(s.queue, x)
  BY DEF Core, Parts, Fields, readableByteStreamControllerEnqueueChunkToQueue, Differ, FieldNames
<1> HIDE DEF t
<1>2. s.queue \in Seq(Seq(Nat) \ {<<>>}) /\ x \in Seq(Nat) \ {<<>>}
  BY DEF Core, Parts, Fields, Run
<1>3. t.queue \in Seq(Seq(Nat) \ {<<>>}) /\ t.queue # <<>>
  <2> DEFINE S == Seq(Nat) \ {<<>>}
  <2>1. s.queue \in Seq(S) /\ x \in S BY <1>2
  <2> HIDE DEF S
  <2>2. Append(s.queue, x) \in Seq(S) /\ Append(s.queue, x) # <<>> BY <2>1, AppendProperties
  <2> QED BY <2>2, <1>1 DEF S
<1>4. Fields(t) BY <1>1, <1>3 DEF Core, Parts, Fields, Differ, FieldNames
<1>5. ControllerInv(t) BY <1>1 DEF Core, Parts, ControllerInv, Differ, FieldNames
<1>6. {"queue"} \cap {"byobRequest", "pendingPullIntos", "reader", "byob",
                      "readIntoRequests"} = {}
      /\ {"queue"} \cap {"readRequests", "readIntoRequests", "state", "reader", "byob",
                         "got", "pendingPullIntos"} = {}
      /\ {"queue"} \cap {"got", "reads"} = {}
  OBVIOUS
<1>7. DescriptorInv(t) /\ RequestInv(t, a) /\ AnswerInv(t, a)
  BY <1>1, <1>6, Unaffected DEF Core, Parts
<1>8. LineTo(t, c)
  <2>1. PICK g \in Nat, h \in Nat : /\ Consecutive(s.got, 0, g) /\ Run(HeadBytes(s), g, h)
                                    /\ Consecutive(s.queue, h, q)
    BY DEF Core, LineTo
  <2>2. Consecutive(t.queue, h, c) BY <2>1, <1>1, LineAppend
  <2>3. t.got = s.got /\ HeadBytes(t) = HeadBytes(s)
    BY <1>1 DEF Differ, FieldNames, HeadBytes
  <2> QED BY <2>1, <2>2, <2>3 DEF LineTo
<1> QED BY <1>1, <1>3, <1>4, <1>5, <1>7, <1>8 DEF Core, Parts, t

\* The bytes of the source meet a default reader.
LEMMA EnqueuesToDefault ==
  ASSUME NEW s, NEW a, NEW q, Core(s, a, q), DefaultReading(s), s.failed = FALSE,
         ~s.byobRequest, NEW x, NEW c, Run(x, q, c), x # <<>>
  PROVE  LET t == EnqueueToDefaultReader(s, x)
         IN  /\ t.failed => Dead(t) /\ ~DefaultOnly(s)
             /\ ~t.failed => /\ Core(t, a, c) /\ BetweenCalls(t) /\ NoneHead(t) = 0
                             /\ t.reader = s.reader /\ t.byob = s.byob /\ t.state = "readable"
                             /\ KeepsPull(s, t) /\ (DefaultOnly(s) => DefaultOnly(t))
<1> DEFINE t == EnqueueToDefaultReader(s, x)
           v == readableByteStreamControllerProcessReadRequestsUsingQueue(s)
           u == Asserting(v, v.queue = <<>>)
           y == Asserting(u, Head(u.pendingPullIntos).readerType = "default")
           w == IF u.pendingPullIntos = <<>> THEN u
                ELSE readableByteStreamControllerShiftPendingPullInto(y)
           z == [w EXCEPT !.readRequests = Tail(@)]
           k == Asserting(v, v.pendingPullIntos = <<>>)
<1>1. t = IF v.readRequests = <<>>
            THEN readableByteStreamControllerEnqueueChunkToQueue(k, x)
            ELSE Answer(z, Head(w.readRequests), x, FALSE)
  BY DEF EnqueueToDefaultReader
<1>2. /\ Core(v, a, q) /\ DefaultReading(v)
      /\ Differ(s, v, TakeFields \cup {"readRequests"}) /\ KeepsPull(s, v)
      /\ v.readRequests = <<>> \/ v.queue = <<>>
      /\ s.readRequests = <<>> \/ s.queue = <<>> => v = s
  BY ProcessesReads
<1> HIDE DEF v
<1>3. v.failed = FALSE /\ v.byobRequest = s.byobRequest /\ v.reader = s.reader
      /\ v.byob = s.byob /\ v.pendingPullIntos = s.pendingPullIntos
      /\ FieldNames \subseteq DOMAIN v
  BY <1>2 DEF Differ, FieldNames, TakeFields
<1>4. v.state = "readable" /\ ~v.closeRequested /\ v.reader /\ ~v.byob /\ NoneHead(v) = 0
  BY <1>2 DEF DefaultReading
<1>5. DefaultOnly(s) => v = s
  <2> SUFFICES ASSUME DefaultOnly(s) PROVE v = s OBVIOUS
  <2>1. s.readRequests # <<>> => s.queue = <<>> BY DEF DefaultOnly, DefaultReading
  <2> QED BY <2>1, <1>2
<1>6. v.pendingPullIntos \in Seq(Descriptors) /\ v.byobRequest \in BOOLEAN
      /\ v.readRequests \in Seq(Nat)
  BY <1>2 DEF Core, Parts, Fields
<1>7. CASE v.readRequests = <<>> /\ v.pendingPullIntos = <<>>
  <2>1. Differ(v, k, {}) /\ k.failed = FALSE BY <1>3, <1>7 DEF Asserting, Differ, FieldNames
  <2> HIDE DEF k
  <2>2. t = readableByteStreamControllerEnqueueChunkToQueue(k, x) BY <1>1, <1>7
  <2>3. Fields(k) BY <1>2, <2>1 DEF Core, Parts, Fields, Differ, FieldNames
  <2>4. ControllerInv(k) BY <1>2, <2>1 DEF Core, Parts, ControllerInv, Differ, FieldNames
  <2>5. DescriptorInv(k) /\ RequestInv(k, a) /\ AnswerInv(k, a) /\ LineTo(k, q)
    BY <1>2, <2>1, Unaffected DEF Core, Parts
  <2>6. Core(k, a, q) BY <2>3, <2>4, <2>5 DEF Core, Parts
  <2>7. k.state = "readable" BY <1>4, <2>1 DEF Differ, FieldNames
  <2>8. Core(t, a, c) /\ Differ(k, t, {"queue"}) /\ t.queue # <<>>
    BY <2>2, <2>6, <2>7, QueuesChunk
  <2> HIDE DEF t
  <2>9. t.failed = FALSE /\ t.pendingPullIntos = <<>> /\ t.readRequests = <<>>
        /\ t.state = "readable" /\ t.reader = s.reader /\ t.byob = s.byob
    BY <1>3, <1>4, <1>7, <2>1, <2>8 DEF Differ, FieldNames
  <2>10. BetweenCalls(t) /\ NoneHead(t) = 0 /\ DefaultOnly(t)
    BY <2>8, <2>9 DEF BetweenCalls, NoneHead, DefaultOnly
  <2>11. t.pull = v.pull BY <2>1, <2>8 DEF Differ, FieldNames
  <2>12. KeepsPull(s, t) BY <2>11, <1>2 DEF KeepsPull
  <2> QED BY <2>8, <2>9, <2>10, <2>12 DEF t
<1>8. CASE v.readRequests = <<>> /\ v.pendingPullIntos # <<>>
  <2>1. Dead(k) BY <1>3, <1>8 DEF Asserting, FieldNames, Dead
  <2> HIDE DEF k
  <2>2. t = readableByteStreamControllerEnqueueChunkToQueue(k, x) BY <1>1, <1>8
  <2>3. Dead(t)
    BY <2>1, <2>2 DEF readableByteStreamControllerEnqueueChunkToQueue, Dead, FieldNames
  <2> HIDE DEF t
  <2>4. ~DefaultOnly(s)
    <3> SUFFICES ASSUME DefaultOnly(s) PROVE FALSE OBVIOUS
    <3>1. v = s BY <1>5
    <3>2. IF v.autoAllocateChunkSize = 0 THEN v.pendingPullIntos = <<>>
          ELSE Len(v.readRequests) = Len(v.pendingPullIntos) - NoneHead(v)
      BY <3>1, <1>4 DEF DefaultOnly
    <3>3. Len(v.pendingPullIntos) \in Nat /\ Len(v.pendingPullIntos) # 0 BY <1>6, <1>8
    <3> QED BY <3>2, <3>3, <1>4, <1>8
  <2>5. t.failed = TRUE BY <2>3 DEF Dead
  <2> QED BY <2>3, <2>4, <2>5 DEF t
<1>9. CASE v.readRequests # <<>>
  <2>1. v.queue = <<>> BY <1>2, <1>9
  <2>2. Differ(v, u, {}) /\ u.failed = FALSE
    BY <1>3, <2>1 DEF Asserting, Differ, FieldNames
  <2> HIDE DEF u
  <2>3. FieldNames \subseteq DOMAIN u /\ u.pendingPullIntos = v.pendingPullIntos
        /\ u.byobRequest = v.byobRequest
    BY <2>2 DEF Differ, FieldNames
  <2>4. Differ(v, w, {"pendingPullIntos", "failed"}) /\ w.failed = FALSE
        /\ \/ w.pendingPullIntos = v.pendingPullIntos /\ v.pendingPullIntos = <<>>
           \/ /\ v.pendingPullIntos # <<>>
              /\ w.pendingPullIntos = Tail(v.pendingPullIntos)
    <3>1. CASE v.pendingPullIntos = <<>>
      <4>1. w = u BY <3>1, <2>3
      <4> HIDE DEF w
      <4> QED BY <4>1, <3>1, <2>2, <2>3 DEF Differ
    <3>2. CASE v.pendingPullIntos # <<>>
      <4> DEFINE d == v.pendingPullIntos[1]
      <4>1. Head(u.pendingPullIntos) = d /\ d \in Descriptors
            /\ 1 \in 1..Len(v.pendingPullIntos)
        BY <3>2, <2>3, <1>6
      <4>2. d.readerType # "none" BY <3>2, <1>4 DEF NoneHead
      <4>3. d.readerType # "byob" BY <4>1, <1>2, <1>4 DEF Core, Parts, DescriptorInv
      <4>4. d.readerType = "default" BY <4>1, <4>2, <4>3 DEF Descriptors
      <4>5. Differ(u, y, {}) /\ y.failed = FALSE
        BY <4>1, <4>4, <2>2, <2>3 DEF Asserting, Differ, FieldNames
      <4> HIDE DEF y
      <4>6. FieldNames \subseteq DOMAIN y /\ y.failed \in BOOLEAN /\ y.byobRequest = v.byobRequest
            /\ y.pendingPullIntos = v.pendingPullIntos
        BY <4>5, <2>3 DEF Differ, FieldNames
      <4>7. w = readableByteStreamControllerShiftPendingPullInto(y) BY <3>2, <2>3
      <4> HIDE DEF w
      <4>8. /\ Differ(y, w, {"pendingPullIntos", "failed"})
            /\ w.pendingPullIntos = Tail(v.pendingPullIntos)
            /\ w.failed = (y.failed \/ y.byobRequest)
        BY <4>6, <4>7, <1>6, Shifts
      <4>9. w.failed = FALSE BY <4>5, <4>6, <4>8, <1>3, <1>6
      <4>10. Differ(v, w, {"pendingPullIntos", "failed"}) BY <4>5, <4>8, <2>2 DEF Differ
      <4> QED BY <4>8, <4>9, <4>10, <3>2
    <3> QED BY <3>1, <3>2
  <2> HIDE DEF w
  <2> DEFINE r == Head(v.readRequests)
  <2>5. w.readRequests = v.readRequests BY <2>4 DEF Differ, FieldNames
  <2>6. Differ(w, z, {"readRequests"}) /\ z.readRequests = Tail(v.readRequests)
    BY <2>4, <2>5 DEF Differ, FieldNames
  <2>7. t = Answer(z, r, x, FALSE) BY <1>1, <1>9, <2>5
  <2> HIDE DEF z
  <2>8. Differ(v, z, TakenFields) /\ z.failed = FALSE /\ z.byobRequest = v.byobRequest
        /\ z.queue = v.queue /\ z.readIntoRequests = v.readIntoRequests
        /\ z.pendingPullIntos = w.pendingPullIntos /\ z.got = v.got
        /\ z.state = v.state /\ z.reader = v.reader /\ z.byob = v.byob
        /\ z.closeRequested = v.closeRequested
        /\ z.autoAllocateChunkSize = v.autoAllocateChunkSize
    BY <2>4, <2>6 DEF Differ, FieldNames, TakenFields, ShiftFields
  <2>9. /\ Parts(z, a) /\ Free(z, r) /\ a[r].elementSize = 1 /\ a[r].minimumFill = 1
    <3>1. z.failed \in BOOLEAN /\ z.byobRequest \in BOOLEAN
          /\ z.queue \in Seq(Seq(Nat) \ {<<>>})
      <4>1. z.queue \in Seq(Seq(Nat) \ {<<>>}) BY <2>1, <2>8
      <4> QED BY <4>1, <2>8, <1>6
    <3>2. z.byobRequest => z.pendingPullIntos # <<>> BY <2>8, <1>3
    <3>3. \/ z.pendingPullIntos = v.pendingPullIntos
          \/ v.pendingPullIntos # <<>> /\ z.pendingPullIntos = Tail(v.pendingPullIntos)
      BY <2>4, <2>8
    <3> QED BY <3>1, <3>2, <3>3, <2>6, <2>8, <1>2, <1>4, <1>9, TakesRead DEF Core
  <2> HIDE DEF r
  <2>10. x \in Seq(Nat) /\ Len(x) \in Nat /\ Len(x) >= 1 BY DEF Run
  <2>11. PICK b \in BOOLEAN : b = FALSE OBVIOUS
  <2>12. Suits(x, a[r], b)
    <3>1. Len(x) % 1 = 0 BY <2>10
    <3> QED BY <3>1, <2>9, <2>10 DEF Suits
  <2>13. t = Answer(z, r, x, b) BY <2>7, <2>11
  <2> HIDE DEF t
  <2>14. LET n == Answer(z, r, x, b)
         IN  /\ Differ(z, n, {"reads", "got"}) /\ n.got = [z.got EXCEPT ![r] = x]
             /\ Parts(n, a)
    BY <2>9, <2>12, AnswersRead
  <2>15. Differ(z, t, {"reads", "got"}) /\ t.got = [v.got EXCEPT ![r] = x] /\ Parts(t, a)
    BY <2>8, <2>13, <2>14
  <2>16. t.failed = FALSE /\ t.queue = <<>> /\ t.pendingPullIntos = w.pendingPullIntos
         /\ t.reader = s.reader /\ t.byob = s.byob /\ t.state = "readable"
         /\ t.readRequests = Tail(v.readRequests) /\ t.closeRequested = v.closeRequested
         /\ t.autoAllocateChunkSize = v.autoAllocateChunkSize
    BY <2>1, <2>6, <2>8, <2>15, <1>3, <1>4, ZenonT(60) DEF Differ, FieldNames
  <2>17. NoneHead(t) = 0 /\ HeadBytes(t) = <<>>
    <3>1. CASE v.pendingPullIntos = <<>> BY <3>1, <2>4, <2>16 DEF NoneHead, HeadBytes
    <3>2. CASE v.pendingPullIntos # <<>>
      <4>1. t.pendingPullIntos = Tail(v.pendingPullIntos) BY <3>2, <2>4, <2>16
      <4> QED BY <4>1, <3>2, <1>2, PendingTail DEF Core, Parts
    <3> QED BY <3>1, <3>2
  <2>18. LineTo(t, c)
    <3>1. HeadBytes(v) = <<>> BY <1>2, <1>4, NoHeadBytes DEF Core
    <3>2. PICK g \in Nat : Consecutive(v.got, 0, g) /\ Consecutive(v.queue, g, q)
      BY <3>1, <1>2, LineFromQueue DEF Core
    <3>3. g = q BY <3>2, <2>1, EmptyLine
    <3>4. r \in 1..Len(v.got) /\ \A j \in r..Len(v.got) : v.got[j] = <<>>
      BY <2>8, <2>9 DEF Free
    <3>5. Consecutive(t.got, 0, c) BY <3>2, <3>3, <3>4, <2>15, LineAnswer
    <3>6. c \in Nat BY <3>5, Ends
    <3>7. Run(<<>>, c, c) /\ Consecutive(<<>>, c, c) BY <3>6, RunFacts, EmptyLine
    <3> QED BY <3>5, <3>6, <3>7, <2>16, <2>17 DEF LineTo
  <2>19. BetweenCalls(t) BY <2>16, <1>4 DEF BetweenCalls
  <2>20. ASSUME DefaultOnly(s) PROVE DefaultOnly(t)
    <3>1. v = s BY <2>20, <1>5
    <3>2. DefaultOnly(v) BY <3>1, <2>20
    <3>3. Len(t.readRequests) = Len(v.readRequests) - 1 /\ Len(v.readRequests) \in Nat
          /\ Len(v.readRequests) >= 1
      BY <1>6, <1>9, <2>16, HeadTailProperties
    <3>4. CASE v.autoAllocateChunkSize = 0
      <4>1. v.pendingPullIntos = <<>> BY <3>2, <3>4, <1>4 DEF DefaultOnly
      <4>2. t.pendingPullIntos = <<>> BY <4>1, <2>4, <2>16
      <4> QED BY <4>2, <3>4, <2>16 DEF DefaultOnly
    <3>5. CASE v.autoAllocateChunkSize # 0
      <4>1. Len(v.readRequests) = Len(v.pendingPullIntos) BY <3>2, <3>5, <1>4, <1>6 DEF DefaultOnly
      <4>2. v.pendingPullIntos # <<>> BY <4>1, <3>3
      <4>3. t.pendingPullIntos = Tail(v.pendingPullIntos) BY <4>2, <2>4, <2>16
      <4>4. Len(t.pendingPullIntos) = Len(v.pendingPullIntos) - 1
            /\ \A i \in 1..Len(t.pendingPullIntos) :
                 /\ i + 1 \in 1..Len(v.pendingPullIntos)
                 /\ t.pendingPullIntos[i] = v.pendingPullIntos[i + 1]
        BY <4>2, <4>3, <1>2, PendingTail DEF Core, Parts
      <4>5. \A i \in 1..Len(t.pendingPullIntos) :
              t.pendingPullIntos[i].elementSize = 1 /\ t.pendingPullIntos[i].minimumFill = 1
        BY <4>4, <3>2 DEF DefaultOnly
      <4>6. Len(t.readRequests) = Len(t.pendingPullIntos) - NoneHead(t)
        BY <4>1, <4>4, <3>3, <2>17
      <4> QED BY <4>5, <4>6, <3>5, <2>16 DEF DefaultOnly
    <3> QED BY <3>4, <3>5
  <2>21. t.pull = v.pull BY <2>8, <2>15 DEF Differ, FieldNames, TakenFields, ShiftFields
  <2>22. KeepsPull(s, t) BY <2>21, <1>2 DEF KeepsPull
  <2> QED BY <2>15, <2>16, <2>17, <2>18, <2>19, <2>20, <2>22 DEF Core, t
<1> QED BY <1>7, <1>8, <1>9

\* Only the BYOB request is no longer valid.
LEMMA Invalidates ==
  ASSUME NEW s, NEW a, NEW q, Core(s, a, q)
  PROVE  LET t == readableByteStreamControllerInvalidateBYOBRequest(s)
         IN  /\ Core(t, a, q) /\ Differ(s, t, {"byobRequest"}) /\ t.byobRequest = FALSE
             /\ DefaultOnly(s) => DefaultOnly(t)
<1> DEFINE t == readableByteStreamControllerInvalidateBYOBRequest(s)
<1>1. Differ(s, t, {"byobRequest"}) /\ t.byobRequest = FALSE
  BY DEF Core, Parts, Fields, readableByteStreamControllerInvalidateBYOBRequest, Differ, FieldNames
<1> HIDE DEF t
<1>2. Fields(t) BY <1>1 DEF Core, Parts, Fields, Differ, FieldNames
<1>3. ControllerInv(t) BY <1>1 DEF Core, Parts, ControllerInv, Differ, FieldNames
<1>4. {"byobRequest"} \cap {"readRequests", "readIntoRequests", "state", "reader", "byob",
                            "got", "pendingPullIntos"} = {}
      /\ {"byobRequest"} \cap {"got", "reads"} = {}
      /\ {"byobRequest"} \cap {"got", "pendingPullIntos", "queue"} = {}
      /\ {"byobRequest"} \cap {"pendingPullIntos", "state", "autoAllocateChunkSize",
                               "readRequests", "queue"} = {}
  OBVIOUS
<1>5. RequestInv(t, a) /\ AnswerInv(t, a) /\ LineTo(t, q) /\ (DefaultOnly(s) => DefaultOnly(t))
  BY <1>1, <1>4, Unaffected DEF Core, Parts
<1>6. DescriptorInv(t)
  BY <1>1 DEF Core, Parts, DescriptorInv, NoneHead, Differ, FieldNames
<1> QED BY <1>1, <1>2, <1>3, <1>5, <1>6 DEF Core, Parts, t

\* The descriptor of a reader that is gone has been set aside before an enqueue.
Clean(s, v, a, q) ==
  /\ Core(v, a, q) /\ Differ(s, v, ShiftFields) /\ v.failed = FALSE /\ ~v.byobRequest
  /\ NoneHead(v) = 0 /\ (v.pendingPullIntos # <<>> => ~v.pendingPullIntos[1].detached)
  /\ DefaultOnly(s) => DefaultOnly(v)

\* The descriptor of a reader that is gone is set aside.
LEMMA Cleans ==
  ASSUME NEW s, NEW a, NEW q, Resting(s, a, q), s.state = "readable",
         s.pendingPullIntos # <<>> => ~Head(s.pendingPullIntos).detached
  PROVE  LET u == readableByteStreamControllerInvalidateBYOBRequest(s)
             v == IF s.pendingPullIntos = <<>> THEN s
                  ELSE IF Head(s.pendingPullIntos).readerType = "none"
                    THEN readableByteStreamControllerEnqueueDetachedPullIntoToQueue(u) ELSE u
         IN  Clean(s, v, a, q)
<1> DEFINE u == readableByteStreamControllerInvalidateBYOBRequest(s)
           w == readableByteStreamControllerEnqueueDetachedPullIntoToQueue(u)
           v == IF s.pendingPullIntos = <<>> THEN s
                ELSE IF Head(s.pendingPullIntos).readerType = "none" THEN w ELSE u
<1> SUFFICES Clean(s, v, a, q) OBVIOUS
<1>1. Core(s, a, q) /\ BetweenCalls(s) /\ s.failed = FALSE BY DEF Resting
<1>2. Fields(s) /\ DescriptorInv(s) BY <1>1 DEF Core, Parts
<1>3. CASE s.pendingPullIntos = <<>>
  <2>1. v = s BY <1>3
  <2>2. Differ(s, s, ShiftFields) BY <1>2 DEF Differ, Fields
  <2>3. ~s.byobRequest BY <1>2, <1>3 DEF DescriptorInv
  <2>4. NoneHead(s) = 0 BY <1>3 DEF NoneHead
  <2>5. Clean(s, s, a, q) BY <1>1, <1>3, <2>2, <2>3, <2>4 DEF Clean
  <2> QED BY <2>1, <2>5
<1>4. CASE s.pendingPullIntos # <<>>
  <2>1. /\ Core(u, a, q) /\ Differ(s, u, {"byobRequest"}) /\ u.byobRequest = FALSE
        /\ DefaultOnly(s) => DefaultOnly(u)
    BY <1>1, Invalidates
  <2> HIDE DEF u
  <2>2. u.pendingPullIntos = s.pendingPullIntos /\ u.failed = FALSE /\ u.queue = s.queue
        /\ u.state = "readable" /\ u.readRequests = s.readRequests
        /\ u.autoAllocateChunkSize = s.autoAllocateChunkSize
    BY <2>1, <1>1 DEF Differ, FieldNames
  <2>3. /\ Head(s.pendingPullIntos) = s.pendingPullIntos[1]
        /\ s.pendingPullIntos[1] \in Descriptors /\ 1 \in 1..Len(s.pendingPullIntos)
    BY <1>2, <1>4, PendingTail
  <2>4. CASE s.pendingPullIntos[1].readerType # "none"
    <3>1. v = u BY <1>4, <2>3, <2>4
    <3>2. NoneHead(u) = 0 BY <2>2, <2>4, <1>4 DEF NoneHead
    <3>3. Differ(s, u, ShiftFields) BY <2>1 DEF Differ, ShiftFields
    <3>4. ~u.pendingPullIntos[1].detached BY <2>2, <2>3, <1>4
    <3>5. Clean(s, u, a, q) BY <2>1, <2>2, <3>2, <3>3, <3>4 DEF Clean
    <3> QED BY <3>1, <3>5
  <2>5. CASE s.pendingPullIntos[1].readerType = "none"
    <3> DEFINE d == s.pendingPullIntos[1]
    <3>1. v = w BY <1>4, <2>3, <2>5
    <3>2. NoneHead(u) = 1 BY <2>2, <2>5, <1>4 DEF NoneHead
    <3>3. u.queue = <<>> BY <2>2, <1>1, <1>4 DEF BetweenCalls
    <3>4. Refilled(u.pendingPullIntos[1], d) BY <2>2, <2>3 DEF Refilled
    <3>5. u.pendingPullIntos = [u.pendingPullIntos EXCEPT ![1] = d]
      BY <2>2, <2>3, <1>2 DEF Fields
    <3>6. Differ(u, u, {"pendingPullIntos"}) BY <2>1 DEF Differ
    <3>7. Parts(u, a) /\ LineTo(u, q) BY <2>1 DEF Core
    <3>8. u.pendingPullIntos # <<>> BY <2>2, <1>4
    <3>9. d.bytes = HeadBytes(s) BY <1>4 DEF HeadBytes
    <3> HIDE DEF d
    <3>10. ~u.byobRequest /\ u.failed = FALSE /\ u.state = "readable" BY <2>1, <2>2
    <3>11. Orphan(u, u, d, q)
      BY <3>2, <3>3, <3>4, <3>5, <3>6, <3>7, <3>8, <3>10 DEF Orphan
    <3>12. /\ Core(w, a, q) /\ w.failed = FALSE /\ NoneHead(w) = 0
           /\ w.pendingPullIntos = Tail(u.pendingPullIntos)
           /\ Differ(u, w, {"queue", "pendingPullIntos"})
           /\ d.bytes = <<>> => w.queue = <<>>
      BY <3>7, <3>11, EnqueuesDetached
    <3> HIDE DEF w
    <3>13. Differ(s, w, ShiftFields) /\ ~w.byobRequest /\ w.state = "readable"
           /\ w.readRequests = s.readRequests
           /\ w.autoAllocateChunkSize = s.autoAllocateChunkSize
      BY <3>12, <2>1, <2>2 DEF Differ, ShiftFields, FieldNames
    <3>14. /\ Len(w.pendingPullIntos) = Len(s.pendingPullIntos) - 1
           /\ Len(s.pendingPullIntos) \in Nat /\ Len(s.pendingPullIntos) >= 1
           /\ \A i \in 1..Len(w.pendingPullIntos) :
                /\ i + 1 \in 1..Len(s.pendingPullIntos)
                /\ w.pendingPullIntos[i] = s.pendingPullIntos[i + 1]
                /\ ~w.pendingPullIntos[i].detached
      BY <3>12, <2>2, <1>2, <1>4, PendingTail
    <3>15. w.pendingPullIntos # <<>> => ~w.pendingPullIntos[1].detached
      <4>1. w.pendingPullIntos \in Seq(Descriptors) BY <3>12 DEF Core, Parts, Fields
      <4>2. w.pendingPullIntos # <<>> => 1 \in 1..Len(w.pendingPullIntos) BY <4>1
      <4> QED BY <4>2, <3>14
    <3>16. ASSUME DefaultOnly(s) PROVE DefaultOnly(w)
      <4>1. d.bytes = <<>> BY <3>9, <3>16, <1>1, NoHeadBytes DEF Core
      <4>2. w.queue = <<>> BY <4>1, <3>12
      <4>3. s.autoAllocateChunkSize # 0
            /\ Len(s.readRequests) = Len(s.pendingPullIntos) - NoneHead(s)
        BY <3>16, <1>4 DEF DefaultOnly
      <4>4. NoneHead(s) = 1 BY <1>4, <2>5 DEF NoneHead
      <4>5. Len(w.readRequests) = Len(w.pendingPullIntos) - NoneHead(w)
        BY <4>3, <4>4, <3>12, <3>13, <3>14
      <4>6. \A i \in 1..Len(w.pendingPullIntos) :
              w.pendingPullIntos[i].elementSize = 1 /\ w.pendingPullIntos[i].minimumFill = 1
        BY <3>14, <3>16 DEF DefaultOnly
      <4> QED BY <4>2, <4>3, <4>5, <4>6, <3>13 DEF DefaultOnly
    <3>17. Clean(s, w, a, q) BY <3>12, <3>13, <3>15, <3>16 DEF Clean
    <3> QED BY <3>1, <3>17
  <2> QED BY <2>4, <2>5
<1> QED BY <1>3, <1>4

\* The source enqueues bytes.
LEMMA EnqueuesBytes ==
  ASSUME NEW s, NEW a, NEW q, Resting(s, a, q), s.state = "readable", ~s.closeRequested,
         s.pendingPullIntos # <<>> => ~Head(s.pendingPullIntos).detached,
         NEW x, NEW n \in Nat, Run(x, q, q + n), x # <<>>
  PROVE  Call(s, readableByteStreamControllerEnqueue(s, x), a, q, n)
<1> DEFINE u == readableByteStreamControllerInvalidateBYOBRequest(s)
           v == IF s.pendingPullIntos = <<>> THEN s
                ELSE IF Head(s.pendingPullIntos).readerType = "none"
                  THEN readableByteStreamControllerEnqueueDetachedPullIntoToQueue(u) ELSE u
           k == readableByteStreamControllerEnqueueChunkToQueue(v, x)
           t == CASE readableStreamHasDefaultReader(v) -> EnqueueToDefaultReader(v, x)
                  [] readableStreamHasBYOBReader(v) ->
                       readableByteStreamControllerProcessPullIntoDescriptorsUsingQueue(k)
                  [] ~v.reader -> k
<1>1. readableByteStreamControllerEnqueue(s, x)
        = readableByteStreamControllerCallPullIfNeeded(t)
  BY DEF readableByteStreamControllerEnqueue
<1>2. Clean(s, v, a, q) BY Cleans
<1> HIDE DEF v
<1>3. /\ Core(v, a, q) /\ Differ(s, v, ShiftFields) /\ v.failed = FALSE /\ ~v.byobRequest
      /\ NoneHead(v) = 0 /\ (v.pendingPullIntos # <<>> => ~v.pendingPullIntos[1].detached)
      /\ DefaultOnly(s) => DefaultOnly(v)
  BY <1>2 DEF Clean
<1>4. v.state = "readable" /\ ~v.closeRequested /\ v.reader = s.reader /\ v.byob = s.byob
      /\ v.pull = s.pull
  BY <1>3 DEF Differ, ShiftFields, FieldNames
<1>5. Fields(v) /\ DescriptorInv(v) /\ RequestInv(v, a) BY <1>3 DEF Core, Parts
<1>6. q \in Nat BY DEF Resting
<1>7. v.reader \in BOOLEAN /\ v.byob \in BOOLEAN BY <1>5 DEF Fields
<1>8. NoneHead(s) \in {0, 1} BY DEF NoneHead
<1>9. Core(k, a, q + n) /\ Differ(v, k, {"queue"}) /\ k.queue # <<>>
  BY <1>3, <1>4, QueuesChunk
<1> HIDE DEF k
<1>10. /\ k.failed = FALSE /\ k.pendingPullIntos = v.pendingPullIntos
       /\ k.reader = s.reader /\ k.byob = s.byob /\ k.state = "readable" /\ ~k.closeRequested
       /\ NoneHead(k) = 0 /\ k.readRequests = v.readRequests /\ k.byobRequest = v.byobRequest
       /\ k.autoAllocateChunkSize = v.autoAllocateChunkSize /\ k.pull = s.pull
  BY <1>3, <1>4, <1>9 DEF Differ, FieldNames, NoneHead
<1>11. ASSUME NEW r, r.failed = FALSE, Core(r, a, q + n), BetweenCalls(r), r.reader = s.reader,
              r.byob = s.byob, NoneHead(r) = 0, r.state = "readable", KeepsPull(s, r),
              DefaultOnly(s) /\ ~(s.reader /\ s.byob) => DefaultOnly(r)
       PROVE  Worked(s, r, a, q, n)
  <2>1. LineGoes(s, r, q, n) BY <1>11 DEF LineGoes, Core
  <2> QED BY <2>1, <1>8, <1>11 DEF Worked, Core
<1>12. CASE v.reader /\ ~v.byob
  <2> DEFINE r == EnqueueToDefaultReader(v, x)
  <2>1. t = r BY <1>12 DEF readableStreamHasDefaultReader, readableStreamHasBYOBReader
  <2> HIDE DEF t
  <2>2. DefaultReading(v) BY <1>3, <1>4, <1>12 DEF DefaultReading
  <2>3. /\ r.failed => Dead(r) /\ ~DefaultOnly(v)
        /\ ~r.failed => /\ Core(r, a, q + n) /\ BetweenCalls(r) /\ NoneHead(r) = 0
                        /\ r.reader = v.reader /\ r.byob = v.byob /\ r.state = "readable"
                        /\ KeepsPull(v, r) /\ (DefaultOnly(v) => DefaultOnly(r))
    BY <1>3, <2>2, EnqueuesToDefault
  <2> HIDE DEF r
  <2>4. CASE r.failed
    <3>1. Worked(s, r, a, q, n) BY <2>3, <2>4, <1>3, <1>4, <1>12 DEF Worked
    <3> QED BY <3>1, <2>1, <1>1, <1>6, EndsWithPull
  <2>5. CASE ~r.failed
    <3>1. r.failed = FALSE BY <2>3, <2>5 DEF Core, Parts, Fields
    <3>2. KeepsPull(s, r) BY <2>3, <2>5, <1>4 DEF KeepsPull
    <3>3. Worked(s, r, a, q, n) BY <3>1, <3>2, <2>3, <2>5, <1>3, <1>4, <1>11
    <3> QED BY <3>3, <2>1, <1>1, <1>6, EndsWithPull
  <2> QED BY <2>4, <2>5
<1>13. CASE v.reader /\ v.byob
  <2> DEFINE r == readableByteStreamControllerProcessPullIntoDescriptorsUsingQueue(k)
  <2>1. t = r BY <1>13 DEF readableStreamHasDefaultReader, readableStreamHasBYOBReader
  <2> HIDE DEF t
  <2>2. Fillable(k) BY <1>3, <1>4, <1>10, <1>13 DEF Fillable
  <2>3. /\ FieldNames \subseteq DOMAIN r /\ r.failed \in BOOLEAN
        /\ Fillable(k) => ~r.failed
        /\ ~r.failed =>
             /\ Core(r, a, q + n) /\ NoneHead(r) = 0 /\ Differ(k, r, LoopFields)
             /\ Matched(k) => Matched(r)
             /\ r.queue = <<>> \/ r.pendingPullIntos = <<>>
    BY <1>9, <1>10, ProcessesPullIntos
  <2> HIDE DEF r
  <2>4. ~r.failed BY <2>2, <2>3
  <2>5. r.failed = FALSE BY <2>3, <2>4
  <2>6. r.state = "readable" /\ ~r.closeRequested /\ r.reader = s.reader /\ r.byob = s.byob
        /\ r.pull = s.pull
    BY <2>3, <2>4, <1>10 DEF Differ, LoopFields, CommitFields, FieldNames
  <2>7. BetweenCalls(r) BY <2>3, <2>4, <2>6 DEF BetweenCalls
  <2>8. KeepsPull(s, r) BY <2>6 DEF KeepsPull
  <2>9. Worked(s, r, a, q, n) BY <2>3, <2>4, <2>5, <2>6, <2>7, <2>8, <1>4, <1>11, <1>13
  <2> QED BY <2>1, <2>9, <1>1, <1>6, EndsWithPull
<1>14. CASE ~v.reader
  <2>1. t = k BY <1>14 DEF readableStreamHasDefaultReader, readableStreamHasBYOBReader
  <2> HIDE DEF t
  <2>2. v.pendingPullIntos = <<>>
    <3> SUFFICES ASSUME v.pendingPullIntos # <<>> PROVE FALSE OBVIOUS
    <3> DEFINE d == v.pendingPullIntos[1]
    <3>1. d \in Descriptors /\ 1 \in 1..Len(v.pendingPullIntos) BY <1>5, PendingTail
    <3>2. d.readerType # "default" /\ d.readerType # "byob"
      BY <3>1, <1>5, <1>14 DEF DescriptorInv
    <3>3. d.readerType = "none" BY <3>1, <3>2 DEF Descriptors
    <3> QED BY <3>3, <1>3 DEF NoneHead
  <2>3. v.readRequests = <<>> BY <1>5, <1>14 DEF RequestInv
  <2>4. BetweenCalls(k) BY <1>9, <1>10, <2>2 DEF BetweenCalls
  <2>5. DefaultOnly(k) BY <1>10, <2>2, <2>3 DEF DefaultOnly
  <2>6. KeepsPull(s, k) BY <1>10 DEF KeepsPull
  <2>7. Worked(s, k, a, q, n) BY <1>9, <1>10, <1>11, <2>4, <2>5, <2>6
  <2> QED BY <2>1, <2>7, <1>1, <1>6, EndsWithPull
<1> QED BY <1>7, <1>12, <1>13, <1>14

\* Before the descriptors are filled from the queue.
Looping(s, z, a, q, n) ==
  /\ Core(z, a, q + n) /\ z.failed = FALSE /\ ~z.byobRequest /\ NoneHead(z) = 0
  /\ z.pendingPullIntos # <<>> => ~z.pendingPullIntos[1].detached
  /\ z.reader = s.reader /\ z.byob = s.byob /\ z.state = "readable" /\ ~z.closeRequested
  /\ s.state = "readable" /\ z.pull = s.pull
  /\ DefaultOnly(s) /\ ~(s.reader /\ s.byob) => Matched(z) /\ z.autoAllocateChunkSize # 0

\* The descriptors are filled from the queue.
LEMMA LoopWorks ==
  ASSUME NEW s, NEW z, NEW a, NEW q, NEW n, Looping(s, z, a, q, n), s.reader \in BOOLEAN
  PROVE  Worked(s, readableByteStreamControllerProcessPullIntoDescriptorsUsingQueue(z), a, q, n)
<1> DEFINE r == readableByteStreamControllerProcessPullIntoDescriptorsUsingQueue(z)
<1>1. /\ Core(z, a, q + n) /\ z.failed = FALSE /\ ~z.byobRequest /\ NoneHead(z) = 0
      /\ z.pendingPullIntos # <<>> => ~z.pendingPullIntos[1].detached
      /\ z.reader = s.reader /\ z.byob = s.byob /\ z.state = "readable" /\ ~z.closeRequested
      /\ s.state = "readable" /\ z.pull = s.pull
      /\ DefaultOnly(s) /\ ~(s.reader /\ s.byob) => Matched(z) /\ z.autoAllocateChunkSize # 0
  BY DEF Looping
<1>2. /\ FieldNames \subseteq DOMAIN r /\ r.failed \in BOOLEAN
      /\ Fillable(z) => ~r.failed
      /\ ~r.failed =>
           /\ Core(r, a, q + n) /\ NoneHead(r) = 0 /\ Differ(z, r, LoopFields)
           /\ Matched(z) => Matched(r)
           /\ r.queue = <<>> \/ r.pendingPullIntos = <<>>
  BY <1>1, ProcessesPullIntos
<1> HIDE DEF r
<1>3. ~(s.reader /\ ~s.byob /\ ~Matched(z)) => Fillable(z) BY <1>1 DEF Fillable
<1>4. CASE r.failed
  <2>1. s.reader /\ ~s.byob /\ ~Matched(z) BY <1>2, <1>3, <1>4
  <2>2. ~DefaultOnly(s) BY <2>1, <1>1
  <2>3. Dead(r) BY <1>2, <1>4 DEF Dead
  <2> QED BY <2>1, <2>2, <2>3, <1>4 DEF Worked, r
<1>5. CASE ~r.failed
  <2>1. /\ Core(r, a, q + n) /\ NoneHead(r) = 0 /\ Differ(z, r, LoopFields)
        /\ Matched(z) => Matched(r)
        /\ r.queue = <<>> \/ r.pendingPullIntos = <<>>
    BY <1>2, <1>5
  <2>2. r.state = "readable" /\ ~r.closeRequested /\ r.reader = s.reader /\ r.byob = s.byob
        /\ r.autoAllocateChunkSize = z.autoAllocateChunkSize /\ r.pull = s.pull
    BY <2>1, <1>1 DEF Differ, LoopFields, CommitFields, FieldNames
  <2>3. BetweenCalls(r) BY <2>1, <2>2 DEF BetweenCalls
  <2>4. ASSUME DefaultOnly(s), ~(s.reader /\ s.byob) PROVE DefaultOnly(r)
    <3>1. Matched(r) /\ r.autoAllocateChunkSize # 0 BY <2>4, <2>1, <2>2, <1>1
    <3>2. r.readRequests # <<>> => r.queue = <<>>
      <4>1. r.readRequests \in Seq(Nat) BY <2>1 DEF Core, Parts, Fields
      <4>2. r.readRequests # <<>> => Len(r.readRequests) # 0 BY <4>1
      <4>3. r.pendingPullIntos = <<>> => Len(r.pendingPullIntos) = 0 OBVIOUS
      <4> QED BY <4>2, <4>3, <3>1, <2>1 DEF Matched
    <3>3. Len(r.readRequests) = Len(r.pendingPullIntos) - NoneHead(r)
      <4>1. Len(r.pendingPullIntos) \in Nat BY <2>1 DEF Core, Parts, Fields
      <4> QED BY <4>1, <3>1, <2>1 DEF Matched
    <3> QED BY <3>1, <3>2, <3>3 DEF DefaultOnly, Matched
  <2>5. LineGoes(s, r, q, n) BY <2>1, <2>2, <1>1 DEF LineGoes, Core
  <2>6. NoneHead(s) \in {0, 1} BY DEF NoneHead
  <2>7. KeepsPull(s, r) BY <2>2 DEF KeepsPull
  <2> QED BY <2>1, <2>2, <2>3, <2>4, <2>5, <2>6, <2>7, <1>5 DEF Worked, Core, r
<1> QED BY <1>4, <1>5

\* A failure before the descriptors are filled is one after it.
LEMMA LoopDead ==
  ASSUME NEW z, Dead(z), z.pendingPullIntos \in Seq(Descriptors)
  PROVE  Dead(readableByteStreamControllerProcessPullIntoDescriptorsUsingQueue(z))
<1> DEFINE n == Len(z.pendingPullIntos)
           y == Asserting(z, ~z.closeRequested)
<1>1. n \in Nat OBVIOUS
<1>2. PICK f : /\ Turns(f, "pullIntos", y, n)
               /\ readableByteStreamControllerProcessPullIntoDescriptorsUsingQueue(z) = f[n]
  BY <1>1, LoopPullIntos
<1>3. Dead(y) BY DeadStays
<1> HIDE DEF y, n
<1>4. f[0] = y /\ \A k \in 1..n : f[k] = Turn("pullIntos", f[k - 1]) BY <1>1, <1>2, TurnByTurn
<1> DEFINE T == {k \in Nat : k <= n => Dead(f[k])}
<1>5. 0 \in T BY <1>3, <1>4
<1>6. ASSUME NEW k \in Nat, k \in T PROVE k + 1 \in T
  <2> SUFFICES ASSUME k + 1 <= n PROVE Dead(f[k + 1]) OBVIOUS
  <2>1. Dead(f[k]) BY <1>1, <1>6
  <2>2. k + 1 \in 1..n /\ (k + 1) - 1 = k BY <1>1
  <2>3. f[k + 1] = ProcessPullInto(f[k]) BY <1>4, <2>2 DEF Turn
  <2> QED BY <2>1, <2>3, DeadStays
<1>7. Nat \subseteq T
  <2> HIDE DEF T
  <2> QED BY <1>5, <1>6, SetInduction
<1>8. n \in T BY <1>1, <1>7
<1> QED BY <1>1, <1>2, <1>8

-----------------------------------------------------------------------------
(* respond() and respondWithNewView(). *)

\* The descriptor has a whole buffer again, and its request is no longer valid.
Returned(s) ==
  [readableByteStreamControllerInvalidateBYOBRequest(s)
     EXCEPT !.pendingPullIntos[1].detached = FALSE]

\* Nothing else changes.
LEMMA Returns ==
  ASSUME NEW s, NEW a, Parts(s, a), s.pendingPullIntos # <<>>
  PROVE  LET v == Returned(s)
         IN  /\ Parts(v, a) /\ Differ(s, v, {"byobRequest", "pendingPullIntos"})
             /\ v.byobRequest = FALSE /\ v.pendingPullIntos # <<>>
             /\ ~v.pendingPullIntos[1].detached
             /\ Refilled(s.pendingPullIntos[1], v.pendingPullIntos[1])
             /\ HeadBytes(v) = HeadBytes(s) /\ NoneHead(v) = NoneHead(s)
             /\ DefaultOnly(s) => DefaultOnly(v)
             /\ \A q : LineTo(s, q) => LineTo(v, q)
<1> DEFINE v == Returned(s)
           p == s.pendingPullIntos
           e == [p[1] EXCEPT !.detached = FALSE]
<1>1. Fields(s) /\ DescriptorInv(s) BY DEF Parts
<1>2. p \in Seq(Descriptors) /\ p[1] \in Descriptors /\ 1 \in 1..Len(p) /\ Len(p) \in Nat
  BY <1>1, PendingTail DEF Fields
<1>3. /\ Differ(s, v, {"byobRequest", "pendingPullIntos"}) /\ v.byobRequest = FALSE
      /\ v.pendingPullIntos = [p EXCEPT ![1] = e]
  BY <1>1, <1>2 DEF Returned, readableByteStreamControllerInvalidateBYOBRequest, Fields,
                    Differ, FieldNames
<1> HIDE DEF v
<1>4. Refilled(p[1], e) /\ e.bytes = p[1].bytes /\ e.detached = FALSE
  BY <1>2 DEF Refilled, Descriptors
<1>5. WellMade(e)
  <2>1. WellMade(p[1]) BY <1>1, <1>2 DEF DescriptorInv
  <2> QED BY <2>1, <1>4 DEF WellMade, Refilled
<1> HIDE DEF e
<1>6. v.failed \in BOOLEAN /\ v.byobRequest \in BOOLEAN /\ v.queue = s.queue
      /\ v.queue \in Seq(Seq(Nat) \ {<<>>}) /\ v.got = s.got /\ v.state = s.state
      /\ v.readRequests = s.readRequests /\ v.autoAllocateChunkSize = s.autoAllocateChunkSize
  BY <1>1, <1>3 DEF Fields, Differ, FieldNames
<1>7. Differ(s, v, ShiftFields) BY <1>3 DEF Differ, ShiftFields
<1>8. s.state # "readable" => v.queue = <<>> BY <1>6 DEF Parts, ControllerInv
<1>9. Replaces(s, v, e) BY <1>3, <1>4, <1>5, <1>6, <1>7, <1>8 DEF Replaces
<1>10. /\ Parts(v, a) /\ NoneHead(v) = NoneHead(s) /\ HeadBytes(v) = e.bytes
       /\ v.pendingPullIntos # <<>> /\ v.pendingPullIntos[1] = e
       /\ Len(v.pendingPullIntos) = Len(s.pendingPullIntos)
       /\ \A i \in 2..Len(s.pendingPullIntos) : v.pendingPullIntos[i] = s.pendingPullIntos[i]
  BY <1>9, HeadReplaced
<1>11. HeadBytes(v) = HeadBytes(s) BY <1>4, <1>10 DEF HeadBytes
<1>12. ASSUME DefaultOnly(s) PROVE DefaultOnly(v)
  <2>1. ASSUME NEW i \in 1..Len(v.pendingPullIntos)
        PROVE  v.pendingPullIntos[i].elementSize = 1 /\ v.pendingPullIntos[i].minimumFill = 1
    <3>1. p[i].elementSize = 1 /\ p[i].minimumFill = 1 BY <1>10, <1>12 DEF DefaultOnly
    <3>2. CASE i = 1 BY <3>1, <3>2, <1>4, <1>10 DEF Refilled
    <3>3. CASE i # 1
      <4>1. i \in 2..Len(p) BY <3>3, <1>2, <1>10
      <4> QED BY <4>1, <3>1, <1>10
    <3> QED BY <3>2, <3>3
  <2> QED BY <2>1, <1>6, <1>10, <1>12 DEF DefaultOnly
<1>13. \A q : LineTo(s, q) => LineTo(v, q) BY <1>6, <1>11 DEF LineTo
<1> QED BY <1>3, <1>4, <1>10, <1>11, <1>12, <1>13 DEF v

\* The source has written the bytes x into the buffer of the first descriptor, which
\* makes it d; the reads have the first g bytes.
Written(v, d, x, g, q, n) ==
  /\ v.pendingPullIntos # <<>> /\ v.queue = <<>> /\ v.state = "readable"
  /\ ~v.closeRequested /\ v.failed = FALSE /\ ~v.byobRequest
  /\ d = [v.pendingPullIntos[1] EXCEPT !.bytes = @ \o x]
  /\ Refilled(v.pendingPullIntos[1], d) /\ ~d.detached /\ Len(d.bytes) <= d.byteLength
  /\ g \in Nat /\ q \in Nat /\ n \in Nat /\ Consecutive(v.got, 0, g) /\ Run(d.bytes, g, q + n)

\* What the source writes follows the bytes that the stream had.
LEMMA Writes ==
  ASSUME NEW v, NEW a, Parts(v, a), NEW q \in Nat, LineTo(v, q), v.pendingPullIntos # <<>>,
         v.queue = <<>>, v.state = "readable", ~v.closeRequested, v.failed = FALSE,
         ~v.byobRequest, ~v.pendingPullIntos[1].detached, NEW x, NEW n \in Nat,
         Run(x, q, q + n), Len(HeadBytes(v)) + n <= v.pendingPullIntos[1].byteLength
  PROVE  \E g : Written(v, [v.pendingPullIntos[1] EXCEPT !.bytes = @ \o x], x, g, q, n)
<1> DEFINE e == v.pendingPullIntos[1]
           d == [e EXCEPT !.bytes = e.bytes \o x]
<1>1. e \in Descriptors BY PendingTail DEF Parts
<1>2. HeadBytes(v) = e.bytes BY DEF HeadBytes
<1>3. PICK g \in Nat, h \in Nat : /\ Consecutive(v.got, 0, g) /\ Run(e.bytes, g, h)
                                  /\ Consecutive(v.queue, h, q)
  BY <1>2 DEF LineTo
<1>4. h = q BY <1>3, EmptyLine
<1>5. /\ Run(e.bytes \o x, g, q + n) /\ Len(e.bytes \o x) = Len(e.bytes) + Len(x)
      /\ e.bytes \o x \in Seq(Nat)
  BY <1>3, <1>4, RunConcat
<1>6. Refilled(e, d) /\ d.bytes = e.bytes \o x /\ d.detached = e.detached BY <1>1, <1>5, Refills
<1>7. Len(x) = n
  <2>1. Len(x) \in Nat /\ q + n = q + Len(x) BY DEF Run
  <2> QED BY <2>1
<1>8. Len(d.bytes) <= d.byteLength BY <1>2, <1>5, <1>6, <1>7 DEF Refilled
<1>9. Written(v, d, x, g, q, n)
  BY <1>3, <1>5, <1>6, <1>8 DEF Written
<1> QED BY <1>9

\* The descriptor of a reader that is gone: its bytes go to the queue.
LEMMA RespondsOrphan ==
  ASSUME NEW s, NEW v, NEW a, Parts(v, a), NEW d, NEW x, NEW g, NEW q, NEW n,
         Written(v, d, x, g, q, n), NEW w, Differ(v, w, {"pendingPullIntos"}),
         w.pendingPullIntos = [v.pendingPullIntos EXCEPT ![1] = d], d.readerType = "none",
         s.state = "readable", v.reader = s.reader, v.byob = s.byob, v.pull = s.pull,
         DefaultOnly(s) => DefaultOnly(v)
  PROVE  Looping(s, readableByteStreamControllerEnqueueDetachedPullIntoToQueue(w), a, q, n)
<1> DEFINE z == readableByteStreamControllerEnqueueDetachedPullIntoToQueue(w)
<1>1. /\ v.pendingPullIntos # <<>> /\ v.queue = <<>> /\ v.state = "readable"
      /\ ~v.closeRequested /\ v.failed = FALSE /\ ~v.byobRequest
      /\ Refilled(v.pendingPullIntos[1], d)
      /\ g \in Nat /\ q \in Nat /\ n \in Nat /\ Consecutive(v.got, 0, g) /\ Run(d.bytes, g, q + n)
  BY DEF Written
<1>2. Fields(v) /\ DescriptorInv(v) BY DEF Parts
<1>3. NoneHead(v) = 1 BY <1>1 DEF NoneHead, Refilled
<1>4. LineTo(w, q + n)
  <2>1. w.got = v.got /\ w.queue = <<>> BY <1>1 DEF Differ, FieldNames
  <2>2. d \in Descriptors /\ v.pendingPullIntos \in Seq(Descriptors)
    BY <1>1, <1>2 DEF Refilled, Fields
  <2>3. w.pendingPullIntos # <<>> /\ w.pendingPullIntos[1] = d BY <2>2, <1>1
  <2>4. HeadBytes(w) = d.bytes BY <2>3 DEF HeadBytes
  <2>5. q + n \in Nat BY <1>1
  <2>6. Consecutive(<<>>, q + n, q + n) BY <2>5, EmptyLine
  <2> QED BY <2>1, <2>4, <2>5, <2>6, <1>1 DEF LineTo
<1>5. Orphan(v, w, d, q + n) BY <1>1, <1>3, <1>4 DEF Orphan
<1>6. /\ Core(z, a, q + n) /\ z.failed = FALSE /\ NoneHead(z) = 0
      /\ z.pendingPullIntos = Tail(v.pendingPullIntos)
      /\ Differ(v, z, {"queue", "pendingPullIntos"})
  BY <1>5, EnqueuesDetached
<1> HIDE DEF z
<1>7. z.reader = s.reader /\ z.byob = s.byob /\ z.state = "readable" /\ ~z.closeRequested
      /\ ~z.byobRequest /\ z.readRequests = v.readRequests
      /\ z.autoAllocateChunkSize = v.autoAllocateChunkSize /\ z.pull = s.pull
  BY <1>1, <1>6 DEF Differ, FieldNames
<1>8. /\ Len(z.pendingPullIntos) = Len(v.pendingPullIntos) - 1
      /\ Len(v.pendingPullIntos) \in Nat /\ Len(v.pendingPullIntos) >= 1
      /\ \A i \in 1..Len(z.pendingPullIntos) :
           /\ i + 1 \in 1..Len(v.pendingPullIntos)
           /\ z.pendingPullIntos[i] = v.pendingPullIntos[i + 1]
           /\ ~z.pendingPullIntos[i].detached
  BY <1>1, <1>2, <1>6, PendingTail
<1>9. z.pendingPullIntos # <<>> => ~z.pendingPullIntos[1].detached
  <2>1. z.pendingPullIntos \in Seq(Descriptors) BY <1>6 DEF Core, Parts, Fields
  <2>2. z.pendingPullIntos # <<>> => 1 \in 1..Len(z.pendingPullIntos) BY <2>1
  <2> QED BY <2>2, <1>8
<1>10. ASSUME DefaultOnly(s) PROVE Matched(z) /\ z.autoAllocateChunkSize # 0
  <2>1. DefaultOnly(v) BY <1>10
  <2>2. v.autoAllocateChunkSize # 0
        /\ Len(v.readRequests) = Len(v.pendingPullIntos) - NoneHead(v)
    BY <2>1, <1>1 DEF DefaultOnly
  <2>3. Len(z.readRequests) = Len(z.pendingPullIntos) BY <2>2, <1>3, <1>7, <1>8
  <2>4. \A i \in 1..Len(z.pendingPullIntos) :
          z.pendingPullIntos[i].elementSize = 1 /\ z.pendingPullIntos[i].minimumFill = 1
    BY <2>1, <1>8 DEF DefaultOnly
  <2> QED BY <2>2, <2>3, <2>4, <1>6, <1>7 DEF Matched
<1> QED BY <1>6, <1>7, <1>9, <1>10 DEF Looping, z

\* The whole elements of a descriptor.
WholeElements(d) == [d EXCEPT !.bytes = SubSeq(@, 1, Len(@) - (Len(d.bytes) % d.elementSize))]

\* The first descriptor, now d, has been shifted, and what is left of an element queued.
Shifted(v, w, d) ==
  /\ Differ(v, w, ShiftFields) /\ w.failed = FALSE /\ w.byobRequest = FALSE
  /\ w.pendingPullIntos = Tail(v.pendingPullIntos)
  /\ w.queue = IF Len(d.bytes) % d.elementSize = 0 THEN <<>>
               ELSE <<LastBytes(d.bytes, Len(d.bytes) % d.elementSize)>>

\* A descriptor with its minimum can be committed.
LEMMA WrittenReady ==
  ASSUME NEW v, NEW a, Parts(v, a), NEW d, NEW x, NEW g, NEW q, NEW n,
         Written(v, d, x, g, q, n), Len(d.bytes) >= d.minimumFill, NEW w, Shifted(v, w, d)
  PROVE  /\ \E m : Ready(v, w, WholeElements(d), g, m, q + n)
         /\ WholeElements(d).detached = d.detached
<1> DEFINE l == Len(d.bytes)
           k == l % d.elementSize
           e == WholeElements(d)
           y == SubSeq(d.bytes, 1, l - k)
           z == LastBytes(d.bytes, k)
           m == g + (l - k)
<1>1. /\ v.pendingPullIntos # <<>> /\ v.state = "readable" /\ v.queue = <<>>
      /\ Refilled(v.pendingPullIntos[1], d) /\ ~d.detached /\ l <= d.byteLength
      /\ g \in Nat /\ q \in Nat /\ n \in Nat /\ Consecutive(v.got, 0, g) /\ Run(d.bytes, g, q + n)
  BY DEF Written
<1>2. d \in Descriptors /\ d.bytes \in Seq(Nat) /\ l \in Nat /\ d.elementSize \in Numbers
      /\ d.minimumFill \in Nat /\ d.byteLength \in Nat
  BY <1>1 DEF Refilled, Descriptors, Numbers
<1>3. d.minimumFill % d.elementSize = 0
  <2>1. WellMade(v.pendingPullIntos[1])
    <3>1. 1 \in 1..Len(v.pendingPullIntos) BY <1>1, PendingTail DEF Parts
    <3> QED BY <3>1 DEF Parts, DescriptorInv
  <2> QED BY <2>1, <1>1 DEF WellMade, Refilled
<1>4. k \in Nat /\ k <= l /\ l - k \in Nat /\ (l - k) % d.elementSize = 0
      /\ d.minimumFill <= l - k
  <2> HIDE DEF l
  <2>1. k \in 0..(d.elementSize - 1) /\ k <= l /\ l - k \in Nat /\ (l - k) % d.elementSize = 0
    BY <1>2, Remainder
  <2>2. d.minimumFill <= l - k BY <1>2, <1>3, Remainder DEF l
  <2> QED BY <2>1, <2>2
<1>5. Run(y, g, m) /\ Len(y) = l - k
  <2>1. 1 \in 1..(l + 1) /\ l - k \in (1 - 1)..l BY <1>2, <1>4
  <2>2. Run(SubSeq(d.bytes, 1, l - k), g + 1 - 1, g + (l - k))
        /\ Len(SubSeq(d.bytes, 1, l - k)) = (l - k) - 1 + 1
    <3> HIDE DEF k
    <3> QED BY <2>1, <1>1, RunSubSeq
  <2>3. g + 1 - 1 = g /\ (l - k) - 1 + 1 = l - k BY <1>1, <1>4
  <2> QED BY <2>2, <2>3
<1>6. y \in Seq(Nat) BY <1>5 DEF Run
<1>7. e = [d EXCEPT !.bytes = y] BY <1>2 DEF WholeElements, Descriptors
<1>8. Refilled(d, e) /\ e.bytes = y /\ e.detached = d.detached
  <2> HIDE DEF e, y
  <2> QED BY <1>2, <1>6, <1>7, Refills
<1>9. Refilled(v.pendingPullIntos[1], e) BY <1>1, <1>8 DEF Refilled
<1>10. m \in Nat BY <1>1, <1>4
<1>11. w.queue \in Seq(Seq(Nat) \ {<<>>}) /\ Consecutive(w.queue, m, q + n)
  <2>1. m <= q + n /\ m + k = q + n
    <3>1. q + n = g + l BY <1>1 DEF Run
    <3> QED BY <3>1, <1>1, <1>2, <1>4
  <2>2. CASE k = 0
    <3>1. m = q + n BY <2>1, <2>2, <1>10
    <3>2. w.queue = <<>> BY <2>2 DEF Shifted
    <3> QED BY <3>1, <3>2, <1>10, EmptyLine
  <2>3. CASE k # 0
    <3>1. w.queue = <<z>> BY <2>3 DEF Shifted
    <3>2. l - k + 1 \in 1..(l + 1) /\ l \in ((l - k + 1) - 1)..l BY <2>3, <1>2, <1>4
    <3>3. Run(SubSeq(d.bytes, l - k + 1, l), g + (l - k + 1) - 1, g + l)
          /\ Len(SubSeq(d.bytes, l - k + 1, l)) = l - (l - k + 1) + 1
      <4>1. PICK i, j : i = l - k + 1 /\ j = l OBVIOUS
      <4>2. i \in 1..(Len(d.bytes) + 1) /\ j \in (i - 1)..Len(d.bytes) BY <4>1, <3>2
      <4>3. Run(d.bytes, g, q + n) /\ g \in Nat BY <1>1
      <4> HIDE DEF l, k, z, y, m, e
      <4>4. Run(SubSeq(d.bytes, i, j), g + i - 1, g + j)
            /\ Len(SubSeq(d.bytes, i, j)) = j - i + 1
        BY <4>2, <4>3, RunSubSeq
      <4> QED BY <4>1, <4>4
    <3>4. g + (l - k + 1) - 1 = m /\ g + l = q + n /\ l - (l - k + 1) + 1 = k
      <4>1. q + n = g + l BY <1>1 DEF Run
      <4> QED BY <4>1, <1>1, <1>2, <1>4, SMTT(30)
    <3>5. Run(z, m, q + n) /\ Len(z) = k BY <3>3, <3>4 DEF LastBytes
    <3>6. z \in Seq(Nat) /\ z # <<>> BY <3>5, <2>3 DEF Run
    <3>7. w.queue \in Seq(Seq(Nat) \ {<<>>})
      <4> HIDE DEF z
      <4> DEFINE S == Seq(Nat) \ {<<>>}
      <4>1. z \in S BY <3>6
      <4> HIDE DEF S
      <4>2. <<z>> \in Seq(S) BY <4>1
      <4> QED BY <4>2, <3>1 DEF S
    <3>8. Consecutive(<<>>, m, m) BY <1>10, EmptyLine
    <3>9. Append(<<>>, z) = <<z>> OBVIOUS
    <3>10. Consecutive(Append(<<>>, z), m, q + n)
      <4> HIDE DEF z, m
      <4> QED BY <3>5, <3>8, LineAppend
    <3> QED BY <3>1, <3>7, <3>9, <3>10
  <2> QED BY <2>2, <2>3
<1>12. Len(e.bytes) <= e.byteLength /\ Len(e.bytes) % e.elementSize = 0
       /\ Len(e.bytes) >= e.minimumFill
  <2>1. Len(e.bytes) = l - k BY <1>5, <1>8
  <2>2. e.byteLength = d.byteLength /\ e.elementSize = d.elementSize
        /\ e.minimumFill = d.minimumFill
    BY <1>8 DEF Refilled
  <2>3. l - k <= d.byteLength BY <1>1, <1>2, <1>4
  <2> HIDE DEF e
  <2> QED BY <2>1, <2>2, <2>3, <1>4
<1>13. Ready(v, w, e, g, m, q + n)
  <2> HIDE DEF e, m
  <2>1. Run(e.bytes, g, m) BY <1>5, <1>8
  <2> QED BY <2>1, <1>1, <1>9, <1>10, <1>11, <1>12 DEF Ready, Shifted
<1> QED BY <1>8, <1>13

\* A commit leaves the other descriptors.
LEMMA CommitPending ==
  ASSUME NEW w, FieldNames \subseteq DOMAIN w, NEW d
  PROVE  readableByteStreamControllerCommitPullIntoDescriptor(w, d).pendingPullIntos
           = w.pendingPullIntos
BY DEF readableByteStreamControllerCommitPullIntoDescriptor, Answer, Asserting, FieldNames

\* The source has filled a descriptor: it is committed, and the queue offered to the others.
LEMMA RespondsReady ==
  ASSUME NEW s, NEW v, NEW a, Parts(v, a), NEW d, NEW x, NEW g, NEW q, NEW n,
         Written(v, d, x, g, q, n), Len(d.bytes) >= d.minimumFill, NEW w, Shifted(v, w, d),
         d.readerType # "none", s.state = "readable", s.reader \in BOOLEAN,
         v.reader = s.reader, v.byob = s.byob, v.pull = s.pull,
         DefaultOnly(s) => DefaultOnly(v)
  PROVE  Worked(s, readableByteStreamControllerProcessPullIntoDescriptorsUsingQueue(
                     readableByteStreamControllerCommitPullIntoDescriptor(
                       w, WholeElements(d))), a, q, n)
<1> DEFINE e == WholeElements(d)
           c == readableByteStreamControllerCommitPullIntoDescriptor(w, e)
           t == readableByteStreamControllerProcessPullIntoDescriptorsUsingQueue(c)
<1>1. PICK m : Ready(v, w, e, g, m, q + n) BY WrittenReady
<1>2. /\ v.pendingPullIntos # <<>> /\ v.state = "readable" /\ ~v.closeRequested
      /\ Refilled(v.pendingPullIntos[1], d) /\ ~d.detached
  BY DEF Written
<1>3. /\ Differ(v, w, ShiftFields) /\ w.failed = FALSE /\ w.byobRequest = FALSE
      /\ w.pendingPullIntos = Tail(v.pendingPullIntos)
  BY DEF Shifted
<1>4. ~e.detached BY <1>2, WrittenReady
<1>5. NoneHead(v) = 0 BY <1>2 DEF NoneHead, Refilled
<1>6. /\ v.pendingPullIntos \in Seq(Descriptors) /\ Tail(v.pendingPullIntos) \in Seq(Descriptors)
      /\ Len(v.pendingPullIntos) \in Nat /\ Len(v.pendingPullIntos) >= 1
      /\ Len(Tail(v.pendingPullIntos)) = Len(v.pendingPullIntos) - 1
      /\ \A i \in 1..Len(Tail(v.pendingPullIntos)) :
           /\ i + 1 \in 1..Len(v.pendingPullIntos)
           /\ Tail(v.pendingPullIntos)[i] = v.pendingPullIntos[i + 1]
           /\ ~Tail(v.pendingPullIntos)[i].detached
  BY <1>2, PendingTail DEF Parts, Fields
<1> HIDE DEF e
<1>7. /\ FieldNames \subseteq DOMAIN c
      /\ c.failed \in BOOLEAN
      /\ c.failed => \/ w.failed \/ NoneHead(v) = 1 \/ e.detached
                     \/ (v.reader /\ ~v.byob /\ v.readRequests = <<>>)
      /\ ~c.failed => /\ Core(c, a, q + n) /\ Differ(w, c, CommitFields)
                      /\ v.reader /\ NoneHead(v) = 0 /\ NoneHead(c) = 0
                      /\ ~v.byob => /\ v.readRequests # <<>>
                                    /\ c.readRequests = Tail(v.readRequests)
  BY <1>1, Commits
<1>8. c.pendingPullIntos = Tail(v.pendingPullIntos)
  <2>1. FieldNames \subseteq DOMAIN w BY <1>3 DEF Differ
  <2> QED BY <2>1, <1>3, CommitPending
<1> HIDE DEF c
<1>9. ASSUME DefaultOnly(s)
      PROVE  /\ v.autoAllocateChunkSize # 0 /\ Len(v.readRequests) = Len(v.pendingPullIntos)
             /\ \A i \in 1..Len(v.pendingPullIntos) :
                  v.pendingPullIntos[i].elementSize = 1 /\ v.pendingPullIntos[i].minimumFill = 1
  <2>1. DefaultOnly(v) BY <1>9
  <2>2. v.autoAllocateChunkSize # 0
        /\ Len(v.readRequests) = Len(v.pendingPullIntos) - NoneHead(v)
    BY <2>1, <1>2 DEF DefaultOnly
  <2>3. Len(v.readRequests) = Len(v.pendingPullIntos) BY <2>2, <1>5, <1>6
  <2> QED BY <2>1, <2>2, <2>3 DEF DefaultOnly
<1>10. CASE c.failed
  <2>1. v.reader /\ ~v.byob /\ v.readRequests = <<>> BY <1>3, <1>4, <1>5, <1>7, <1>10
  <2>2. ~DefaultOnly(s)
    <3> SUFFICES ASSUME DefaultOnly(s) PROVE FALSE OBVIOUS
    <3>1. Len(v.readRequests) = 0 BY <2>1
    <3> QED BY <3>1, <1>6, <1>9
  <2>3. Dead(c) BY <1>7, <1>10 DEF Dead
  <2>4. Dead(t) BY <2>3, <1>6, <1>8, LoopDead
  <2> HIDE DEF t
  <2>5. Worked(s, t, a, q, n) BY <2>1, <2>2, <2>4 DEF Worked, Dead
  <2> QED BY <2>5 DEF t, c, e
<1>11. CASE ~c.failed
  <2>1. /\ Core(c, a, q + n) /\ Differ(w, c, CommitFields) /\ v.reader /\ NoneHead(c) = 0
        /\ ~v.byob => v.readRequests # <<>> /\ c.readRequests = Tail(v.readRequests)
    BY <1>7, <1>11
  <2>2. c.failed = FALSE BY <1>7, <1>11
  <2>3. /\ c.reader = s.reader /\ c.byob = s.byob /\ c.state = "readable"
        /\ ~c.closeRequested /\ ~c.byobRequest
        /\ c.autoAllocateChunkSize = v.autoAllocateChunkSize /\ c.pull = s.pull
    BY <2>1, <1>2, <1>3, ZenonT(60) DEF Differ, CommitFields, ShiftFields, FieldNames
  <2>4. c.pendingPullIntos # <<>> => ~c.pendingPullIntos[1].detached
    <3>1. c.pendingPullIntos # <<>> => 1 \in 1..Len(c.pendingPullIntos) BY <1>6, <1>8
    <3> QED BY <3>1, <1>6, <1>8
  <2>5. ASSUME DefaultOnly(s), ~(s.reader /\ s.byob)
        PROVE  Matched(c) /\ c.autoAllocateChunkSize # 0
    <3>1. ~v.byob BY <2>1, <2>5
    <3>2. v.readRequests # <<>> /\ c.readRequests = Tail(v.readRequests) BY <2>1, <3>1
    <3>3. Len(c.readRequests) = Len(v.readRequests) - 1
      <4>1. v.readRequests \in Seq(Nat) BY DEF Parts, Fields
      <4> QED BY <4>1, <3>2, HeadTailProperties
    <3>4. Len(c.readRequests) = Len(c.pendingPullIntos) BY <3>3, <2>5, <1>6, <1>8, <1>9
    <3>5. \A i \in 1..Len(c.pendingPullIntos) :
            c.pendingPullIntos[i].elementSize = 1 /\ c.pendingPullIntos[i].minimumFill = 1
      BY <2>5, <1>6, <1>8, <1>9
    <3> QED BY <3>4, <3>5, <2>1, <2>3, <2>5, <1>9 DEF Matched
  <2>6. Looping(s, c, a, q, n) BY <2>1, <2>2, <2>3, <2>4, <2>5 DEF Looping
  <2>7. Worked(s, t, a, q, n) BY <2>6, LoopWorks
  <2> QED BY <2>7 DEF c, e
<1> QED BY <1>10, <1>11

\* The source answers while the stream is readable.
LEMMA RespondsInReadable ==
  ASSUME NEW s, NEW a, NEW q, Resting(s, a, q), s.state = "readable",
         s.pendingPullIntos # <<>>, NEW x, NEW n \in Nat, Run(x, q, q + n), n > 0,
         Len(HeadBytes(s)) + n <= s.pendingPullIntos[1].byteLength
  PROVE  Worked(s, readableByteStreamControllerRespondInReadableState(Returned(s), x), a, q, n)
<1> DEFINE v == Returned(s)
           d == [Head(v.pendingPullIntos) EXCEPT !.bytes = @ \o x]
           y == Asserting(v, Len(d.bytes) <= d.byteLength)
           w == [y EXCEPT !.pendingPullIntos[1] = d]
           k == Len(d.bytes) % d.elementSize
           u == readableByteStreamControllerShiftPendingPullInto(w)
           z == IF k = 0 THEN u
                ELSE readableByteStreamControllerEnqueueChunkToQueue(u, LastBytes(d.bytes, k))
           t == readableByteStreamControllerRespondInReadableState(v, x)
<1>1. Core(s, a, q) /\ BetweenCalls(s) /\ s.failed = FALSE /\ q \in Nat BY DEF Resting
<1>2. Parts(s, a) /\ LineTo(s, q) /\ Fields(s) BY <1>1 DEF Core, Parts
<1>3. s.queue = <<>> /\ ~s.closeRequested BY <1>1 DEF BetweenCalls
<1>4. /\ Parts(v, a) /\ Differ(s, v, {"byobRequest", "pendingPullIntos"})
      /\ v.byobRequest = FALSE /\ v.pendingPullIntos # <<>>
      /\ ~v.pendingPullIntos[1].detached
      /\ Refilled(s.pendingPullIntos[1], v.pendingPullIntos[1])
      /\ HeadBytes(v) = HeadBytes(s) /\ NoneHead(v) = NoneHead(s)
      /\ DefaultOnly(s) => DefaultOnly(v)
      /\ \A p : LineTo(s, p) => LineTo(v, p)
  BY <1>2, Returns
<1>5. /\ t = CASE d.readerType = "none" ->
                     readableByteStreamControllerProcessPullIntoDescriptorsUsingQueue(
                       readableByteStreamControllerEnqueueDetachedPullIntoToQueue(w))
                [] d.readerType # "none" /\ Len(d.bytes) < d.minimumFill -> w
                [] d.readerType # "none" /\ Len(d.bytes) >= d.minimumFill ->
                     readableByteStreamControllerProcessPullIntoDescriptorsUsingQueue(
                       readableByteStreamControllerCommitPullIntoDescriptor(
                         z, WholeElements(d)))
  <2> HIDE DEF v
  <2> QED BY DEF readableByteStreamControllerRespondInReadableState, WholeElements
<1> SUFFICES Worked(s, t, a, q, n) OBVIOUS
<1> HIDE DEF v, t
<1>6. /\ v.queue = <<>> /\ ~v.closeRequested /\ v.failed = FALSE /\ v.state = "readable"
      /\ v.reader = s.reader /\ v.byob = s.byob /\ v.pull = s.pull
  BY <1>1, <1>3, <1>4 DEF Differ, FieldNames
<1>7. \E g : Written(v, d, x, g, q, n)
  <2>1. Len(HeadBytes(v)) + n <= v.pendingPullIntos[1].byteLength BY <1>4 DEF Refilled
  <2>2. LineTo(v, q) /\ ~v.byobRequest BY <1>2, <1>4
  <2>3. d = [v.pendingPullIntos[1] EXCEPT !.bytes = @ \o x]
    <3>1. Head(v.pendingPullIntos) = v.pendingPullIntos[1] BY <1>4, PendingTail DEF Parts
    <3> QED BY <3>1
  <2> HIDE DEF d
  <2> QED BY <2>1, <2>2, <2>3, <1>1, <1>4, <1>6, Writes
<1>8. PICK g : Written(v, d, x, g, q, n) BY <1>7
<1>9. /\ Refilled(v.pendingPullIntos[1], d) /\ ~d.detached /\ Len(d.bytes) <= d.byteLength
      /\ g \in Nat /\ Consecutive(v.got, 0, g) /\ Run(d.bytes, g, q + n)
  BY <1>8 DEF Written
<1> HIDE DEF d
<1>10. d \in Descriptors /\ d.bytes \in Seq(Nat) /\ Len(d.bytes) \in Nat
       /\ d.minimumFill \in Nat /\ Fields(v) /\ DescriptorInv(v)
       /\ v.pendingPullIntos \in Seq(Descriptors)
  <2>1. d \in Descriptors BY <1>9 DEF Refilled
  <2>2. d.bytes \in Seq(Nat) /\ Len(d.bytes) \in Nat /\ d.minimumFill \in Nat
    BY <2>1 DEF Descriptors, Numbers
  <2>3. Fields(v) /\ DescriptorInv(v) BY <1>4 DEF Parts
  <2>4. v.pendingPullIntos \in Seq(Descriptors) BY <2>3 DEF Fields
  <2> QED BY <2>1, <2>2, <2>3, <2>4
<1>11. /\ Differ(v, w, {"pendingPullIntos"})
       /\ w.pendingPullIntos = [v.pendingPullIntos EXCEPT ![1] = d]
  <2>1. FieldNames \subseteq DOMAIN v BY <1>10 DEF Fields
  <2>2. Differ(v, y, {}) BY <2>1, <1>6, <1>9 DEF Asserting, Differ, FieldNames
  <2> HIDE DEF y
  <2>3. FieldNames \subseteq DOMAIN y /\ y.pendingPullIntos = v.pendingPullIntos
    BY <2>2 DEF Differ, FieldNames
  <2> QED BY <2>2, <2>3 DEF Differ, FieldNames
<1> HIDE DEF w
<1>12. s.reader \in BOOLEAN BY <1>2 DEF Fields
<1>13. CASE d.readerType = "none"
  <2> DEFINE o == readableByteStreamControllerEnqueueDetachedPullIntoToQueue(w)
  <2>1. Looping(s, o, a, q, n) BY <1>4, <1>6, <1>8, <1>11, <1>13, RespondsOrphan
  <2>2. t = readableByteStreamControllerProcessPullIntoDescriptorsUsingQueue(o)
    BY <1>5, <1>13
  <2> HIDE DEF o
  <2> QED BY <2>1, <2>2, <1>12, LoopWorks
<1>14. CASE d.readerType # "none" /\ Len(d.bytes) < d.minimumFill
  <2>1. t = w BY <1>5, <1>10, <1>14
  <2>2. w.failed = FALSE /\ w.byobRequest = FALSE /\ w.queue = <<>> /\ w.state = "readable"
        /\ w.reader = s.reader /\ w.byob = s.byob /\ ~w.closeRequested /\ w.got = v.got
        /\ w.readRequests = v.readRequests /\ w.autoAllocateChunkSize = v.autoAllocateChunkSize
        /\ w.pull = s.pull
    BY <1>4, <1>6, <1>11 DEF Differ, FieldNames
  <2>3. WellMade(d)
    <3>1. WellMade(v.pendingPullIntos[1])
      <4>1. 1 \in 1..Len(v.pendingPullIntos) BY <1>4, <1>10
      <4> QED BY <4>1, <1>10 DEF DescriptorInv
    <3> QED BY <3>1, <1>9, <1>14 DEF WellMade, Refilled
  <2>4. Differ(v, w, ShiftFields) BY <1>11 DEF Differ, ShiftFields
  <2>5. <<>> \in Seq(Seq(Nat) \ {<<>>}) OBVIOUS
  <2>6. Replaces(v, w, d) BY <2>2, <2>3, <2>4, <2>5, <1>4, <1>9, <1>11 DEF Replaces
  <2>7. /\ Parts(w, a) /\ NoneHead(w) = NoneHead(v) /\ HeadBytes(w) = d.bytes
        /\ w.pendingPullIntos # <<>> /\ w.pendingPullIntos[1] = d
        /\ Len(w.pendingPullIntos) = Len(v.pendingPullIntos)
        /\ \A i \in 2..Len(v.pendingPullIntos) : w.pendingPullIntos[i] = v.pendingPullIntos[i]
    BY <2>6, <1>4, HeadReplaced
  <2>8. BetweenCalls(w) BY <2>2 DEF BetweenCalls
  <2>9. LineTo(w, q + n)
    <3>1. q + n \in Nat BY <1>1
    <3>2. Consecutive(<<>>, q + n, q + n) BY <3>1, EmptyLine
    <3> QED BY <3>1, <3>2, <2>2, <2>7, <1>9 DEF LineTo
  <2>10. LineGoes(s, w, q, n) BY <2>2, <2>9 DEF LineGoes
  <2>11. ASSUME DefaultOnly(s) PROVE DefaultOnly(w)
    <3>1. DefaultOnly(v) BY <2>11, <1>4
    <3>2. ASSUME NEW i \in 1..Len(w.pendingPullIntos)
          PROVE  w.pendingPullIntos[i].elementSize = 1 /\ w.pendingPullIntos[i].minimumFill = 1
      <4>1. v.pendingPullIntos[i].elementSize = 1 /\ v.pendingPullIntos[i].minimumFill = 1
        BY <3>1, <2>7 DEF DefaultOnly
      <4>2. CASE i = 1 BY <4>1, <4>2, <2>7, <1>9 DEF Refilled
      <4>3. CASE i # 1
        <5>1. i \in 2..Len(v.pendingPullIntos) BY <4>3, <2>7, <1>10
        <5> QED BY <5>1, <4>1, <2>7
      <4> QED BY <4>2, <4>3
    <3>3. IF v.autoAllocateChunkSize = 0 THEN v.pendingPullIntos = <<>>
          ELSE Len(v.readRequests) = Len(v.pendingPullIntos) - NoneHead(v)
      BY <3>1, <1>6 DEF DefaultOnly
    <3> QED BY <3>2, <3>3, <2>2, <2>7, <1>4 DEF DefaultOnly
  <2>12. NoneHead(w) = NoneHead(s) /\ NoneHead(s) \in {0, 1} BY <2>7, <1>4 DEF NoneHead
  <2> QED BY <2>1, <2>2, <2>7, <2>8, <2>10, <2>11, <2>12 DEF Worked, KeepsPull
<1>15. CASE d.readerType # "none" /\ Len(d.bytes) >= d.minimumFill
  <2>1. FieldNames \subseteq DOMAIN w /\ w.failed = FALSE /\ w.byobRequest = FALSE
        /\ w.queue = <<>>
    BY <1>4, <1>6, <1>11 DEF Differ, FieldNames
  <2>2. w.failed \in BOOLEAN /\ w.byobRequest \in BOOLEAN BY <2>1
  <2>3. Tail(w.pendingPullIntos) = Tail(v.pendingPullIntos)
    BY <1>4, <1>10, <1>11, TailOfReplaced
  <2>4. /\ Differ(w, u, {"pendingPullIntos", "failed"})
        /\ u.pendingPullIntos = Tail(w.pendingPullIntos)
        /\ u.failed = (w.failed \/ w.byobRequest)
    BY <2>1, <2>2, Shifts
  <2> HIDE DEF u
  <2>5. u.failed = FALSE BY <2>1, <2>4
  <2>6. Differ(v, u, ShiftFields) /\ u.queue = <<>> /\ u.byobRequest = FALSE
    BY <2>1, <2>4, <1>11 DEF Differ, ShiftFields, FieldNames
  <2>7. Differ(u, z, {"queue"})
        /\ z.queue = IF k = 0 THEN <<>> ELSE <<LastBytes(d.bytes, k)>>
    <3>1. CASE k = 0
      <4>1. z = u BY <3>1
      <4> HIDE DEF k, z
      <4> QED BY <3>1, <4>1, <2>6 DEF Differ
    <3>2. CASE k # 0
      <4>1. PICK b : b = LastBytes(d.bytes, k) OBVIOUS
      <4>2. z = [u EXCEPT !.queue = Append(@, b)]
        BY <3>2, <4>1 DEF readableByteStreamControllerEnqueueChunkToQueue
      <4> HIDE DEF k, z
      <4>3. Differ(u, z, {"queue"}) /\ z.queue = Append(<<>>, b)
        BY <4>2, <2>6 DEF Differ, FieldNames
      <4>4. Append(<<>>, b) = <<b>> OBVIOUS
      <4> QED BY <3>2, <4>1, <4>3, <4>4
    <3> QED BY <3>1, <3>2
  <2> HIDE DEF z
  <2>8. Differ(v, z, ShiftFields) /\ z.failed = FALSE /\ z.byobRequest = FALSE
        /\ z.pendingPullIntos = Tail(v.pendingPullIntos)
    BY <2>3, <2>4, <2>5, <2>6, <2>7 DEF Differ, ShiftFields, FieldNames
  <2>9. Shifted(v, z, d) BY <2>7, <2>8 DEF Shifted
  <2>10. t = readableByteStreamControllerProcessPullIntoDescriptorsUsingQueue(
               readableByteStreamControllerCommitPullIntoDescriptor(z, WholeElements(d)))
    <3>1. ~(Len(d.bytes) < d.minimumFill) BY <1>10, <1>15
    <3> QED BY <3>1, <1>5, <1>15
  <2> QED BY <2>9, <2>10, <1>4, <1>6, <1>8, <1>12, <1>15, RespondsReady
<1> QED BY <1>10, <1>13, <1>14, <1>15

\* The source answers with nothing after the close.
LEMMA RespondsWithNothing ==
  ASSUME NEW s, NEW a, NEW q, Core(s, a, q), BetweenCalls(s), s.failed = FALSE, q \in Nat,
         s.state = "closed", s.pendingPullIntos # <<>>
  PROVE  LET t == readableByteStreamControllerRespondInClosedState(Returned(s))
         IN  Worked(s, t, a, q, 0) /\ ~t.failed /\ t.readIntoRequests = <<>>
<1> DEFINE v == Returned(s)
           t == readableByteStreamControllerRespondInClosedState(v)
<1>1. Parts(s, a) /\ LineTo(s, q) BY DEF Core
<1>2. /\ Parts(v, a) /\ Differ(s, v, {"byobRequest", "pendingPullIntos"})
      /\ v.byobRequest = FALSE /\ v.pendingPullIntos # <<>>
      /\ ~v.pendingPullIntos[1].detached
      /\ Refilled(s.pendingPullIntos[1], v.pendingPullIntos[1])
      /\ HeadBytes(v) = HeadBytes(s) /\ NoneHead(v) = NoneHead(s)
      /\ DefaultOnly(s) => DefaultOnly(v)
      /\ \A p : LineTo(s, p) => LineTo(v, p)
  BY <1>1, Returns
<1> SUFFICES Worked(s, t, a, q, 0) /\ ~t.failed /\ t.readIntoRequests = <<>> OBVIOUS
<1> HIDE DEF v
<1>3. Core(v, a, q) BY <1>1, <1>2 DEF Core
<1>4. v.state = "closed" /\ ~v.failed /\ ~v.byobRequest /\ v.reader = s.reader
      /\ v.byob = s.byob /\ v.cancel = s.cancel /\ v.pull = s.pull
  BY <1>2 DEF Differ, FieldNames
<1>5. HeadAligned(v)
  <2>1. v.pendingPullIntos[1].bytes = s.pendingPullIntos[1].bytes BY <1>2 DEF HeadBytes
  <2>2. v.pendingPullIntos[1].elementSize = s.pendingPullIntos[1].elementSize
    BY <1>2 DEF Refilled
  <2>3. Len(s.pendingPullIntos[1].bytes) % s.pendingPullIntos[1].elementSize = 0
    BY DEF BetweenCalls
  <2> QED BY <2>1, <2>2, <2>3, <1>2 DEF HeadAligned
<1>6. /\ \E g \in Nat : g <= q /\ Core(t, a, g) /\ (NoneHead(v) = 0 => g = q)
      /\ ~t.failed /\ Differ(v, t, LoopFields) /\ BetweenCalls(t) /\ NoneHead(t) = 0
      /\ t.readIntoRequests = <<>> /\ (DefaultOnly(v) => DefaultOnly(t))
  BY <1>2, <1>3, <1>4, <1>5, RespondsInClosed
<1> HIDE DEF t
<1>7. t.state = "closed" /\ t.reader = s.reader /\ t.byob = s.byob /\ t.cancel = s.cancel
      /\ t.pull = s.pull
  BY <1>4, <1>6 DEF Differ, LoopFields, CommitFields, FieldNames
<1>8. PICK g \in Nat : g <= q /\ Core(t, a, g) /\ (NoneHead(v) = 0 => g = q) BY <1>6
<1>9. NoneHead(s) \in {0, 1} BY DEF NoneHead
<1>10. q + 0 = q OBVIOUS
<1>11. LineGoes(s, t, q, 0)
  <2>1. CASE NoneHead(s) = 0 BY <2>1, <1>2, <1>7, <1>8, <1>10 DEF LineGoes, Core
  <2>2. CASE NoneHead(s) = 1
    <3>1. g <= q + 0 /\ LineTo(t, g) BY <1>8, <1>10 DEF Core
    <3> QED BY <3>1, <2>2, <1>7 DEF LineGoes
  <2> QED BY <2>1, <2>2, <1>9
<1> QED BY <1>2, <1>6, <1>7, <1>8, <1>9, <1>11 DEF Worked, Core, KeepsPull

\* How many bytes the source may say that it has written.
MayWrite(s, n) ==
  IF s.state = "closed" THEN n = 0
  ELSE n > 0 /\ Len(HeadBytes(s)) + n <= s.pendingPullIntos[1].byteLength

\* The source answers the BYOB request.
LEMMA RespondsBytes ==
  ASSUME NEW s, NEW a, NEW q, Resting(s, a, q), s.pendingPullIntos # <<>>,
         NEW n \in Nat, MayWrite(s, n), NEW x, Run(x, q, q + n)
  PROVE  Call(s, readableByteStreamControllerRespondInternal(s, x), a, q, n)
<1> DEFINE v == Returned(s)
           t == IF s.state = "closed" THEN readableByteStreamControllerRespondInClosedState(v)
                ELSE readableByteStreamControllerRespondInReadableState(v, x)
<1>1. readableByteStreamControllerRespondInternal(s, x)
        = readableByteStreamControllerCallPullIfNeeded(t)
  BY DEF readableByteStreamControllerRespondInternal, Returned
<1>2. Core(s, a, q) /\ BetweenCalls(s) /\ s.failed = FALSE /\ q \in Nat BY DEF Resting
<1>3. s.state \in {"readable", "closed"} BY <1>2 DEF Core, Parts, Fields, ControllerInv
<1>4. Worked(s, t, a, q, n)
  <2>1. CASE s.state = "closed"
    <3>1. n = 0 BY <2>1 DEF MayWrite
    <3>2. Worked(s, readableByteStreamControllerRespondInClosedState(v), a, q, 0)
      BY <2>1, <1>2, RespondsWithNothing
    <3> HIDE DEF v
    <3> QED BY <3>1, <3>2, <2>1
  <2>2. CASE s.state = "readable"
    <3>1. n > 0 /\ Len(HeadBytes(s)) + n <= s.pendingPullIntos[1].byteLength
      BY <2>2 DEF MayWrite
    <3>2. Worked(s, readableByteStreamControllerRespondInReadableState(v, x), a, q, n)
      BY <2>2, <3>1, RespondsInReadable
    <3> HIDE DEF v
    <3> QED BY <3>2, <2>2
  <2> QED BY <2>1, <2>2, <1>3
<1> HIDE DEF t
<1> QED BY <1>1, <1>2, <1>4, EndsWithPull

\* After one answer with nothing nobody waits for a closed stream.
LEMMA RespondEnds ==
  ASSUME NEW s, NEW a, NEW q, Core(s, a, q), BetweenCalls(s), s.failed = FALSE, q \in Nat,
         s.state = "closed", s.pendingPullIntos # <<>>
  PROVE  LET t == readableByteStreamControllerRespondInternal(s, <<>>)
         IN  ~t.failed /\ ~Waiting(t)
<1> DEFINE v == readableByteStreamControllerRespondInClosedState(Returned(s))
           t == readableByteStreamControllerRespondInternal(s, <<>>)
<1>1. t = readableByteStreamControllerCallPullIfNeeded(v)
  BY DEF readableByteStreamControllerRespondInternal, Returned
<1>2. Worked(s, v, a, q, 0) /\ ~v.failed /\ v.readIntoRequests = <<>> BY RespondsWithNothing
<1> HIDE DEF v
<1>3. Parts(v, a) BY <1>2 DEF Worked
<1>4. Parts(t, a) /\ Differ(v, t, PullFields) BY <1>1, <1>3, PullKeeps
<1> HIDE DEF t
<1>5. ~t.failed /\ t.readIntoRequests = <<>> /\ t.state = v.state
  BY <1>2, <1>4 DEF Differ, PullFields, FieldNames
<1>6. v.state # "readable" BY <1>2 DEF Worked, LineGoes
<1>7. t.readRequests = <<>> BY <1>4, <1>5, <1>6 DEF Parts, RequestInv
<1> QED BY <1>5, <1>7 DEF Waiting, t

-----------------------------------------------------------------------------
(* read() of a default reader. *)

\* The stream with one read more.
Added(s, outcome) ==
  [s EXCEPT !.reads = Append(@, outcome), !.got = Append(@, <<>>)]

\* A read more has nothing yet.
LEMMA AddsRead ==
  ASSUME NEW s, NEW a, Parts(s, a), NEW view \in Asks, NEW outcome \in {Pending, Done, Failed}
  PROVE  LET t == Added(s, outcome)
             b == Append(a, view)
             n == Len(s.got) + 1
         IN  /\ Parts(t, b) /\ Differ(s, t, {"reads", "got"})
             /\ Len(t.got) = n /\ Len(t.reads) = n /\ t.got[n] = <<>> /\ b[n] = view /\ n \in Nat
             /\ \A i \in 1..Len(s.readRequests) : s.readRequests[i] < n
             /\ \A i \in 1..Len(s.readIntoRequests) : s.readIntoRequests[i] < n
             /\ \A q : LineTo(s, q) => LineTo(t, q)
             /\ NoneHead(t) = NoneHead(s) /\ (BetweenCalls(s) => BetweenCalls(t))
             /\ DefaultOnly(s) => DefaultOnly(t)
<1> DEFINE t == Added(s, outcome)
           b == Append(a, view)
           n == Len(s.got) + 1
<1>1. Fields(s) /\ ControllerInv(s) /\ DescriptorInv(s) /\ RequestInv(s, a) /\ AnswerInv(s, a)
  BY DEF Parts
<1>2. /\ Differ(s, t, {"reads", "got"}) /\ t.reads = Append(s.reads, outcome)
      /\ t.got = Append(s.got, <<>>)
  BY <1>1 DEF Added, Fields, Differ, FieldNames
<1> HIDE DEF t
<1>3. s.got \in Seq(Seq(Nat)) /\ s.reads \in Seq(Int) /\ Len(s.reads) = Len(s.got)
      /\ outcome \in Int /\ outcome # Filled /\ <<>> \in Seq(Nat)
      /\ s.readRequests \in Seq(Nat) /\ s.readIntoRequests \in Seq(Nat)
  BY <1>1 DEF Fields, Pending, Done, Failed, Filled
<1>4. /\ t.got \in Seq(Seq(Nat)) /\ Len(t.got) = n /\ t.got[n] = <<>> /\ n \in Nat
      /\ \A i \in 1..Len(s.got) : t.got[i] = s.got[i]
  BY <1>2, <1>3, AppendProperties
<1>5. /\ t.reads \in Seq(Int) /\ Len(t.reads) = n /\ t.reads[n] = outcome
      /\ \A i \in 1..Len(s.got) : t.reads[i] = s.reads[i]
  BY <1>2, <1>3, AppendProperties
<1>6. a \in Seq(Asks) /\ Len(a) = Len(s.got) BY <1>1 DEF AnswerInv
<1>7. /\ b \in Seq(Asks) /\ Len(b) = n /\ b[n] = view
      /\ \A i \in 1..Len(s.got) : b[i] = a[i]
  BY <1>6, AppendProperties
<1> HIDE DEF b
<1>8. Fields(t) BY <1>1, <1>2, <1>4, <1>5 DEF Fields, Differ, FieldNames
<1>9. ControllerInv(t) BY <1>1, <1>2 DEF ControllerInv, Differ, FieldNames
<1>10. {"reads", "got"} \cap {"byobRequest", "pendingPullIntos", "reader", "byob",
                              "readIntoRequests"} = {}
       /\ {"reads", "got"} \cap {"pendingPullIntos", "state", "autoAllocateChunkSize",
                                 "readRequests", "queue"} = {}
  OBVIOUS
<1>11. DescriptorInv(t) /\ (DefaultOnly(s) => DefaultOnly(t)) BY <1>1, <1>2, <1>10, Unaffected
<1>12. ASSUME NEW i \in 1..n
       PROVE  /\ Len(t.got[i]) % b[i].elementSize = 0
              /\ t.reads[i] = Filled => Len(t.got[i]) >= b[i].minimumFill
  <2>1. CASE i = n
    <3>1. Len(t.got[i]) = 0 BY <2>1, <1>4
    <3>2. 0 % view.elementSize = 0
      <4>1. view.elementSize \in Numbers /\ 0 \in Nat BY DEF Asks
      <4> QED BY <4>1, Remainder
    <3> QED BY <3>1, <3>2, <2>1, <1>3, <1>5, <1>7
  <2>2. CASE i # n
    <3>1. i \in 1..Len(s.got) BY <2>2, <1>3
    <3> QED BY <3>1, <1>1, <1>4, <1>5, <1>6, <1>7 DEF AnswerInv
  <2> QED BY <2>1, <2>2
<1>13. AnswerInv(t, b) BY <1>4, <1>7, <1>12 DEF AnswerInv
<1>14. ASSUME NEW requests \in Seq(Nat), Queued(requests, s.got)
       PROVE  /\ Queued(requests, t.got)
              /\ \A i \in 1..Len(requests) : requests[i] \in 1..Len(s.got) /\ requests[i] < n
  <2>1. \A i \in 1..Len(requests) : requests[i] \in 1..Len(s.got) BY <1>14 DEF Queued
  <2>2. \A i \in 1..Len(requests) : requests[i] < n /\ requests[i] \in 1..n BY <2>1, <1>3, SMTT(30)
  <2>3. ASSUME NEW i \in 1..Len(requests), NEW j \in requests[i]..n PROVE t.got[j] = <<>>
    <3>1. CASE j = n BY <3>1, <1>4
    <3>2. CASE j # n
      <4>1. j \in requests[i]..Len(s.got) /\ j \in 1..Len(s.got) BY <3>2, <2>1, <1>3, SMTT(30)
      <4> QED BY <4>1, <1>4, <1>14 DEF Queued
    <3> QED BY <3>1, <3>2
  <2> QED BY <2>1, <2>2, <2>3, <1>4, <1>14 DEF Queued
<1>15. t.readRequests = s.readRequests /\ t.readIntoRequests = s.readIntoRequests
       /\ t.state = s.state /\ t.reader = s.reader /\ t.byob = s.byob /\ t.queue = s.queue
       /\ t.pendingPullIntos = s.pendingPullIntos /\ t.closeRequested = s.closeRequested
  BY <1>2 DEF Differ, FieldNames
<1>16. NoneHead(t) = NoneHead(s) /\ HeadBytes(t) = HeadBytes(s) BY <1>15 DEF NoneHead, HeadBytes
<1>17. RequestInv(t, b)
  <2>1. Queued(t.readRequests, t.got) /\ Queued(t.readIntoRequests, t.got)
    BY <1>1, <1>3, <1>14, <1>15 DEF RequestInv
  <2>2. /\ \A i \in 1..Len(s.readRequests) : b[s.readRequests[i]] = a[s.readRequests[i]]
        /\ \A i \in 1..Len(s.readIntoRequests) :
             b[s.readIntoRequests[i]] = a[s.readIntoRequests[i]]
    BY <1>1, <1>3, <1>7, <1>14 DEF RequestInv
  <2> QED BY <2>1, <2>2, <1>1, <1>15, <1>16 DEF RequestInv
<1>18. /\ \A i \in 1..Len(s.readRequests) : s.readRequests[i] < n
       /\ \A i \in 1..Len(s.readIntoRequests) : s.readIntoRequests[i] < n
  BY <1>1, <1>3, <1>14 DEF RequestInv
<1>19. ASSUME NEW q, LineTo(s, q) PROVE LineTo(t, q)
  <2>1. PICK g \in Nat, h \in Nat : /\ Consecutive(s.got, 0, g) /\ Run(HeadBytes(s), g, h)
                                    /\ Consecutive(s.queue, h, q)
    BY <1>19 DEF LineTo
  <2>2. Run(<<>>, g, g) BY RunFacts
  <2>3. Consecutive(t.got, 0, g) BY <2>1, <2>2, <1>2, LineAppend
  <2> QED BY <2>1, <2>3, <1>15, <1>16 DEF LineTo
<1>20. BetweenCalls(s) => BetweenCalls(t) BY <1>15 DEF BetweenCalls
<1> QED
  BY <1>2, <1>4, <1>5, <1>7, <1>8, <1>9, <1>11, <1>13, <1>16, <1>17, <1>18, <1>19, <1>20
  DEF Parts, t, b

\* A read ends without a chunk.
LEMMA EndsRead ==
  ASSUME NEW s, NEW a, Parts(s, a), NEW r \in 1..Len(s.reads), NEW outcome \in {Done, Failed}
  PROVE  LET t == [s EXCEPT !.reads[r] = outcome]
         IN  /\ Parts(t, a) /\ Differ(s, t, {"reads"})
             /\ \A q : LineTo(s, q) => LineTo(t, q)
             /\ NoneHead(t) = NoneHead(s) /\ (BetweenCalls(s) => BetweenCalls(t))
             /\ DefaultOnly(s) => DefaultOnly(t)
<1> DEFINE t == [s EXCEPT !.reads[r] = outcome]
<1>1. Fields(s) /\ ControllerInv(s) /\ DescriptorInv(s) /\ RequestInv(s, a) /\ AnswerInv(s, a)
  BY DEF Parts
<1>2. Differ(s, t, {"reads"}) /\ t.reads = [s.reads EXCEPT ![r] = outcome]
  BY <1>1 DEF Fields, Differ, FieldNames
<1> HIDE DEF t
<1>3. s.reads \in Seq(Int) /\ outcome \in Int /\ outcome # Filled
  BY <1>1 DEF Fields, Done, Failed, Filled
<1>4. /\ t.reads \in Seq(Int) /\ Len(t.reads) = Len(s.reads)
      /\ \A i \in 1..Len(s.reads) : t.reads[i] = IF i = r THEN outcome ELSE s.reads[i]
  BY <1>2, <1>3
<1>5. Fields(t) BY <1>1, <1>2, <1>4 DEF Fields, Differ, FieldNames
<1>6. ControllerInv(t) BY <1>1, <1>2 DEF ControllerInv, Differ, FieldNames
<1>7. {"reads"} \cap {"byobRequest", "pendingPullIntos", "reader", "byob",
                      "readIntoRequests"} = {}
      /\ {"reads"} \cap {"readRequests", "readIntoRequests", "state", "reader", "byob",
                         "got", "pendingPullIntos"} = {}
      /\ {"reads"} \cap {"got", "pendingPullIntos", "queue"} = {}
      /\ {"reads"} \cap {"pendingPullIntos", "state", "autoAllocateChunkSize",
                         "readRequests", "queue"} = {}
  OBVIOUS
<1>8. DescriptorInv(t) /\ RequestInv(t, a) /\ (\A q : LineTo(s, q) => LineTo(t, q))
      /\ (DefaultOnly(s) => DefaultOnly(t))
  BY <1>1, <1>2, <1>7, Unaffected
<1>9. AnswerInv(t, a)
  <2>1. t.got = s.got BY <1>2 DEF Differ, FieldNames
  <2>2. Len(s.reads) = Len(a) BY <1>1 DEF Fields, AnswerInv
  <2> QED BY <2>1, <2>2, <1>1, <1>3, <1>4 DEF AnswerInv
<1>10. NoneHead(t) = NoneHead(s) BY <1>2 DEF NoneHead, Differ, FieldNames
<1>11. BetweenCalls(s) => BetweenCalls(t) BY <1>2 DEF BetweenCalls, Differ, FieldNames
<1> QED BY <1>2, <1>5, <1>6, <1>8, <1>9, <1>10, <1>11 DEF Parts, t

\* A read more waits.
LEMMA QueuedAppend ==
  ASSUME NEW requests \in Seq(Nat), NEW got, Queued(requests, got), NEW r, r = Len(got),
         r \in Nat, r > 0, got[r] = <<>>, \A i \in 1..Len(requests) : requests[i] < r
  PROVE  /\ Queued(Append(requests, r), got) /\ Append(requests, r) \in Seq(Nat)
         /\ Len(Append(requests, r)) = Len(requests) + 1 /\ Len(requests) \in Nat
         /\ Append(requests, r)[Len(requests) + 1] = r
         /\ \A i \in 1..Len(requests) : Append(requests, r)[i] = requests[i]
<1> DEFINE all == Append(requests, r)
           n == Len(requests)
<1>1. /\ all \in Seq(Nat) /\ Len(all) = n + 1 /\ n \in Nat /\ all[n + 1] = r
      /\ \A i \in 1..n : all[i] = requests[i]
  BY AppendProperties
<1> HIDE DEF all, n
<1>2. \A i \in 1..Len(all) : i \in 1..n \/ i = n + 1 BY <1>1
<1>3. \A i \in 1..Len(all) : all[i] \in 1..Len(got) BY <1>1, <1>2, SMTT(30) DEF Queued, n
<1>4. ASSUME NEW i \in 1..Len(all), NEW j \in 1..Len(all), i < j PROVE all[i] < all[j]
  <2>1. i \in 1..n BY <1>1, <1>4
  <2>2. CASE j = n + 1 BY <2>1, <2>2, <1>1 DEF n
  <2>3. CASE j \in 1..n BY <2>1, <2>3, <1>1, <1>4 DEF Queued, n
  <2> QED BY <2>2, <2>3, <1>2
<1>5. ASSUME NEW i \in 1..Len(all), NEW j \in all[i]..Len(got) PROVE got[j] = <<>>
  <2>1. CASE i = n + 1
    <3>1. j = r BY <2>1, <1>1
    <3> QED BY <3>1
  <2>2. CASE i \in 1..n BY <2>2, <1>1 DEF Queued, n
  <2> QED BY <2>1, <2>2, <1>2
<1>6. Queued(all, got) BY <1>3, <1>4, <1>5 DEF Queued
<1> QED BY <1>1, <1>6 DEF all, n

\* A descriptor more is at the end.
LEMMA PendingAppend ==
  ASSUME NEW s, Fields(s), NEW t, NEW e \in Descriptors,
         t.pendingPullIntos = Append(s.pendingPullIntos, e),
         e.readerType # "none"
  PROVE  LET n == Len(s.pendingPullIntos)
         IN  /\ t.pendingPullIntos \in Seq(Descriptors) /\ n \in Nat
             /\ Len(t.pendingPullIntos) = n + 1 /\ t.pendingPullIntos[n + 1] = e
             /\ t.pendingPullIntos # <<>>
             /\ \A i \in 1..n : t.pendingPullIntos[i] = s.pendingPullIntos[i]
             /\ \A i \in 1..(n + 1) : i \in 1..n \/ i = n + 1
             /\ NoneHead(t) = NoneHead(s)
             /\ HeadBytes(t) = IF s.pendingPullIntos = <<>> THEN e.bytes ELSE HeadBytes(s)
<1> DEFINE p == s.pendingPullIntos
           n == Len(p)
<1>1. p \in Seq(Descriptors) BY DEF Fields
<1>2. /\ t.pendingPullIntos \in Seq(Descriptors) /\ n \in Nat
      /\ Len(t.pendingPullIntos) = n + 1 /\ t.pendingPullIntos[n + 1] = e
      /\ t.pendingPullIntos # <<>>
      /\ \A i \in 1..n : t.pendingPullIntos[i] = p[i]
  BY <1>1, AppendProperties
<1>3. \A i \in 1..(n + 1) : i \in 1..n \/ i = n + 1 BY <1>2
<1>4. CASE p = <<>>
  <2>1. n = 0 BY <1>4
  <2>2. t.pendingPullIntos[1] = e BY <2>1, <1>2
  <2> QED BY <2>2, <1>2, <1>3, <1>4 DEF NoneHead, HeadBytes
<1>5. CASE p # <<>>
  <2>1. 1 \in 1..n BY <1>1, <1>5
  <2>2. t.pendingPullIntos[1] = p[1] BY <2>1, <1>2
  <2> QED BY <2>2, <1>2, <1>3, <1>5 DEF NoneHead, HeadBytes
<1> QED BY <1>4, <1>5

\* Read r is the last one, and nobody knows of it yet.
Fresh(s, r) ==
  /\ r = Len(s.got) /\ Len(s.reads) = r /\ r \in Nat /\ r > 0 /\ s.got[r] = <<>>
  /\ \A i \in 1..Len(s.readRequests) : s.readRequests[i] < r
  /\ \A i \in 1..Len(s.readIntoRequests) : s.readIntoRequests[i] < r

\* A read of a default reader waits, with a descriptor where the stream allocates buffers.
LEMMA ReadWaits ==
  ASSUME NEW s, NEW b, Parts(s, b), s.state = "readable", s.reader, ~s.byob, NEW r, Fresh(s, r),
         b[r].elementSize = 1, b[r].minimumFill = 1,
         NEW w, Differ(s, w, {"readRequests", "pendingPullIntos"}),
         w.readRequests = Append(s.readRequests, r),
         w.pendingPullIntos =
           IF s.autoAllocateChunkSize = 0 THEN s.pendingPullIntos
           ELSE Append(s.pendingPullIntos,
                       NewPullInto(OneByte(s.autoAllocateChunkSize), "default"))
  PROVE  /\ Parts(w, b) /\ NoneHead(w) = NoneHead(s) /\ HeadBytes(w) = HeadBytes(s)
         /\ DefaultOnly(s) /\ s.queue = <<>> => DefaultOnly(w)
<1> DEFINE m == s.autoAllocateChunkSize
           e == NewPullInto(OneByte(m), "default")
           n == Len(s.pendingPullIntos)
<1>1. Fields(s) /\ ControllerInv(s) /\ DescriptorInv(s) /\ RequestInv(s, b) /\ AnswerInv(s, b)
  BY DEF Parts
<1>2. /\ w.state = "readable" /\ w.reader = s.reader /\ w.byob = s.byob /\ w.queue = s.queue
      /\ w.got = s.got /\ w.readIntoRequests = s.readIntoRequests /\ w.autoAllocateChunkSize = m
      /\ w.byobRequest = s.byobRequest /\ FieldNames \subseteq DOMAIN w
  BY DEF Differ, FieldNames
<1>3. /\ Queued(w.readRequests, w.got) /\ w.readRequests \in Seq(Nat)
      /\ Len(w.readRequests) = Len(s.readRequests) + 1 /\ Len(s.readRequests) \in Nat
      /\ w.readRequests[Len(s.readRequests) + 1] = r
      /\ \A i \in 1..Len(s.readRequests) : w.readRequests[i] = s.readRequests[i]
  <2>1. s.readRequests \in Seq(Nat) /\ Queued(s.readRequests, s.got)
    BY <1>1 DEF Fields, RequestInv
  <2>2. r = Len(s.got) /\ r \in Nat /\ r > 0 /\ s.got[r] = <<>>
        /\ \A i \in 1..Len(s.readRequests) : s.readRequests[i] < r
    BY DEF Fresh
  <2> QED BY <2>1, <2>2, <1>2, QueuedAppend, SMTT(30)
<1>4. s.readIntoRequests = <<>> BY <1>1 DEF RequestInv
<1>5. m \in Nat BY <1>1 DEF Fields
<1>6. ASSUME m = 0
      PROVE  /\ Fields(w) /\ DescriptorInv(w) /\ NoneHead(w) = NoneHead(s)
             /\ HeadBytes(w) = HeadBytes(s)
             /\ DefaultOnly(s) /\ s.queue = <<>> => DefaultOnly(w)
  <2>1. w.pendingPullIntos = s.pendingPullIntos BY <1>6
  <2>2. NoneHead(w) = NoneHead(s) /\ HeadBytes(w) = HeadBytes(s) BY <2>1 DEF NoneHead, HeadBytes
  <2>3. Fields(w) BY <1>1, <1>3, <2>1, ZenonT(60) DEF Fields, Differ, FieldNames
  <2>4. DescriptorInv(w) BY <1>1, <1>2, <2>1, <2>2 DEF DescriptorInv
  <2>5. DefaultOnly(s) /\ s.queue = <<>> => DefaultOnly(w) BY <1>2, <1>6, <2>1 DEF DefaultOnly
  <2> QED BY <2>2, <2>3, <2>4, <2>5
<1>7. ASSUME m # 0
      PROVE  /\ Fields(w) /\ DescriptorInv(w) /\ NoneHead(w) = NoneHead(s)
             /\ HeadBytes(w) = HeadBytes(s)
             /\ DefaultOnly(s) /\ s.queue = <<>> => DefaultOnly(w)
  <2>1. w.pendingPullIntos = Append(s.pendingPullIntos, e) BY <1>7
  <2>2. /\ e \in Descriptors /\ e.readerType = "default" /\ e.bytes = <<>> /\ ~e.detached
        /\ e.elementSize = 1 /\ e.minimumFill = 1 /\ e.byteLength = m
    BY <1>5, <1>7 DEF NewPullInto, OneByte, Descriptors, Numbers
  <2>3. WellMade(e)
    <3>1. 1 % 1 = 0 /\ Len(<<>>) = 0 OBVIOUS
    <3>2. 1 <= m BY <1>5, <1>7
    <3> QED BY <2>2, <3>1, <3>2 DEF WellMade
  <2> HIDE DEF e
  <2>4. /\ w.pendingPullIntos \in Seq(Descriptors) /\ n \in Nat
        /\ Len(w.pendingPullIntos) = n + 1 /\ w.pendingPullIntos[n + 1] = e
        /\ w.pendingPullIntos # <<>>
        /\ \A i \in 1..n : w.pendingPullIntos[i] = s.pendingPullIntos[i]
        /\ \A i \in 1..(n + 1) : i \in 1..n \/ i = n + 1
        /\ NoneHead(w) = NoneHead(s)
        /\ HeadBytes(w) = IF s.pendingPullIntos = <<>> THEN e.bytes ELSE HeadBytes(s)
    BY <1>1, <2>1, <2>2, PendingAppend
  <2>5. HeadBytes(w) = HeadBytes(s) BY <2>2, <2>4 DEF HeadBytes
  <2>6. Fields(w) BY <1>1, <1>3, <2>4, ZenonT(60) DEF Fields, Differ, FieldNames
  <2>7. DescriptorInv(w)
    <3>1. ASSUME NEW i \in 1..Len(w.pendingPullIntos)
          PROVE  LET d == w.pendingPullIntos[i] IN
                 /\ WellMade(d)
                 /\ d.readerType = "default" => w.reader /\ ~w.byob
                 /\ d.readerType = "byob" => w.reader /\ w.byob
                 /\ i > 1 => d.readerType # "none" /\ d.bytes = <<>> /\ ~d.detached
      <4>1. CASE i = n + 1 BY <4>1, <2>2, <2>3, <2>4, <1>2
      <4>2. CASE i \in 1..n BY <4>2, <2>4, <1>1, <1>2 DEF DescriptorInv
      <4> QED BY <4>1, <4>2, <2>4
    <3> QED BY <3>1, <2>4, <1>2 DEF DescriptorInv
  <2>8. ASSUME DefaultOnly(s), s.queue = <<>> PROVE DefaultOnly(w)
    <3>1. Len(s.readRequests) = n - NoneHead(s) /\ NoneHead(s) \in {0, 1}
      BY <2>8, <1>7 DEF DefaultOnly, NoneHead
    <3>2. Len(w.readRequests) = Len(w.pendingPullIntos) - NoneHead(w)
      BY <3>1, <2>4, <1>3, SMTT(30)
    <3>3. ASSUME NEW i \in 1..Len(w.pendingPullIntos)
          PROVE  w.pendingPullIntos[i].elementSize = 1 /\ w.pendingPullIntos[i].minimumFill = 1
      <4>1. CASE i = n + 1 BY <4>1, <2>2, <2>4
      <4>2. CASE i \in 1..n BY <4>2, <2>4, <2>8 DEF DefaultOnly
      <4> QED BY <4>1, <4>2, <2>4
    <3> QED BY <3>2, <3>3, <2>8, <1>2, <1>7 DEF DefaultOnly
  <2> QED BY <2>4, <2>5, <2>6, <2>7, <2>8
<1>8. /\ Fields(w) /\ DescriptorInv(w) /\ NoneHead(w) = NoneHead(s)
      /\ HeadBytes(w) = HeadBytes(s)
      /\ DefaultOnly(s) /\ s.queue = <<>> => DefaultOnly(w)
  BY <1>6, <1>7
<1>9. ControllerInv(w) BY <1>1, <1>2 DEF ControllerInv, Differ, FieldNames
<1>10. {"readRequests", "pendingPullIntos"} \cap {"got", "reads"} = {} OBVIOUS
<1>11. AnswerInv(w, b) BY <1>1, <1>10, Unaffected
<1>12. RequestInv(w, b)
  <2>1. ASSUME NEW i \in 1..Len(w.readRequests)
        PROVE  b[w.readRequests[i]].elementSize = 1 /\ b[w.readRequests[i]].minimumFill = 1
    <3>1. i \in 1..Len(s.readRequests) \/ i = Len(s.readRequests) + 1 BY <1>3
    <3> QED BY <3>1, <1>1, <1>3 DEF RequestInv
  <2>2. Queued(w.readIntoRequests, w.got) BY <1>1, <1>2 DEF RequestInv
  <2>3. Len(w.readIntoRequests) = 0 BY <1>2, <1>4
  <2> QED BY <2>1, <2>2, <2>3, <1>2, <1>3, <1>4 DEF RequestInv
<1> QED BY <1>8, <1>9, <1>11, <1>12 DEF Parts

\* A read into a view waits with its descriptor e.
LEMMA ReadIntoWaits ==
  ASSUME NEW s, NEW b, Parts(s, b), s.reader, s.byob, NEW r, Fresh(s, r),
         s.state # "errored", NEW e \in Descriptors, WellMade(e), e.readerType = "byob",
         b[r].elementSize = e.elementSize, b[r].minimumFill = e.minimumFill,
         s.pendingPullIntos # <<>> => e.bytes = <<>> /\ ~e.detached,
         NEW w, Differ(s, w, {"readIntoRequests", "pendingPullIntos"}),
         w.readIntoRequests = Append(s.readIntoRequests, r),
         w.pendingPullIntos = Append(s.pendingPullIntos, e)
  PROVE  /\ Parts(w, b) /\ NoneHead(w) = NoneHead(s)
         /\ HeadBytes(w) = IF s.pendingPullIntos = <<>> THEN e.bytes ELSE HeadBytes(s)
         /\ w.pendingPullIntos # <<>>
         /\ s.pendingPullIntos # <<>> => w.pendingPullIntos[1] = s.pendingPullIntos[1]
<1> DEFINE n == Len(s.pendingPullIntos)
           k == Len(s.readIntoRequests)
<1>1. Fields(s) /\ ControllerInv(s) /\ DescriptorInv(s) /\ RequestInv(s, b) /\ AnswerInv(s, b)
  BY DEF Parts
<1>2. /\ w.state = s.state /\ w.reader = s.reader /\ w.byob = s.byob /\ w.queue = s.queue
      /\ w.got = s.got /\ w.readRequests = s.readRequests
      /\ w.byobRequest = s.byobRequest /\ FieldNames \subseteq DOMAIN w
  BY DEF Differ, FieldNames
<1>3. /\ Queued(w.readIntoRequests, w.got) /\ w.readIntoRequests \in Seq(Nat)
      /\ Len(w.readIntoRequests) = k + 1 /\ k \in Nat /\ w.readIntoRequests[k + 1] = r
      /\ \A i \in 1..k : w.readIntoRequests[i] = s.readIntoRequests[i]
  <2>1. s.readIntoRequests \in Seq(Nat) /\ Queued(s.readIntoRequests, s.got)
    BY <1>1 DEF Fields, RequestInv
  <2>2. r = Len(s.got) /\ r \in Nat /\ r > 0 /\ s.got[r] = <<>>
        /\ \A i \in 1..Len(s.readIntoRequests) : s.readIntoRequests[i] < r
    BY DEF Fresh
  <2> QED BY <2>1, <2>2, <1>2, QueuedAppend, SMTT(30)
<1>4. /\ w.pendingPullIntos \in Seq(Descriptors) /\ n \in Nat
      /\ Len(w.pendingPullIntos) = n + 1 /\ w.pendingPullIntos[n + 1] = e
      /\ w.pendingPullIntos # <<>>
      /\ \A i \in 1..n : w.pendingPullIntos[i] = s.pendingPullIntos[i]
      /\ \A i \in 1..(n + 1) : i \in 1..n \/ i = n + 1
      /\ NoneHead(w) = NoneHead(s)
      /\ HeadBytes(w) = IF s.pendingPullIntos = <<>> THEN e.bytes ELSE HeadBytes(s)
  BY <1>1, PendingAppend
<1>5. Fields(w)
  <2>1. w.readIntoRequests \in Seq(Nat) /\ w.pendingPullIntos \in Seq(Descriptors)
    BY <1>3, <1>4
  <2> QED BY <2>1, <1>1, ZenonT(60) DEF Fields, Differ, FieldNames
<1>6. k = n - NoneHead(s) /\ NoneHead(s) \in {0, 1} BY <1>1 DEF DescriptorInv, NoneHead
<1>7. DescriptorInv(w)
  <2>1. ASSUME NEW i \in 1..Len(w.pendingPullIntos)
        PROVE  LET d == w.pendingPullIntos[i] IN
               /\ WellMade(d)
               /\ d.readerType = "default" => w.reader /\ ~w.byob
               /\ d.readerType = "byob" => w.reader /\ w.byob
               /\ i > 1 => d.readerType # "none" /\ d.bytes = <<>> /\ ~d.detached
    <3>1. CASE i = n + 1
      <4>1. i > 1 => s.pendingPullIntos # <<>> BY <3>1, <1>4
      <4> QED BY <3>1, <4>1, <1>2, <1>4
    <3>2. CASE i \in 1..n BY <3>2, <1>1, <1>2, <1>4 DEF DescriptorInv
    <3> QED BY <3>1, <3>2, <1>4
  <2>2. Len(w.readIntoRequests) = Len(w.pendingPullIntos) - NoneHead(w)
    BY <1>3, <1>4, <1>6
  <2> QED BY <2>1, <2>2, <1>4 DEF DescriptorInv
<1>8. ControllerInv(w) BY <1>1, <1>2 DEF ControllerInv, Differ, FieldNames
<1>9. {"readIntoRequests", "pendingPullIntos"} \cap {"got", "reads"} = {} OBVIOUS
<1>10. AnswerInv(w, b) BY <1>1, <1>9, Unaffected
<1>11. RequestInv(w, b)
  <2>1. ASSUME NEW i \in 1..Len(w.readIntoRequests)
        PROVE  LET view == b[w.readIntoRequests[i]]
                   d == w.pendingPullIntos[i + NoneHead(w)]
               IN view.elementSize = d.elementSize /\ view.minimumFill = d.minimumFill
    <3>1. CASE i = k + 1
      <4>1. i + NoneHead(w) = n + 1 BY <3>1, <1>3, <1>4, <1>6
      <4> QED BY <3>1, <4>1, <1>3, <1>4
    <3>2. CASE i \in 1..k
      <4>1. i + NoneHead(s) \in 1..n BY <3>2, <1>3, <1>4, <1>6
      <4>2. w.pendingPullIntos[i + NoneHead(w)] = s.pendingPullIntos[i + NoneHead(s)]
        BY <4>1, <1>4
      <4> QED BY <3>2, <4>2, <1>1, <1>3 DEF RequestInv
    <3>3. i \in 1..k \/ i = k + 1 BY <1>3
    <3> QED BY <3>1, <3>2, <3>3
  <2>2. Queued(w.readRequests, w.got) /\ s.readRequests = <<>> BY <1>1, <1>2 DEF RequestInv
  <2>3. Len(w.readRequests) = 0 BY <2>2, <1>2
  <2>4. w.readRequests = <<>> /\ w.reader /\ w.byob /\ Queued(w.readIntoRequests, w.got)
    BY <2>2, <1>2, <1>3
  <2>5. \A i \in 1..Len(w.readRequests) :
          b[w.readRequests[i]].elementSize = 1 /\ b[w.readRequests[i]].minimumFill = 1
    BY <2>3
  <2>6. \A i \in 1..Len(w.readIntoRequests) :
          LET view == b[w.readIntoRequests[i]]
              d == w.pendingPullIntos[i + NoneHead(w)]
          IN view.elementSize = d.elementSize /\ view.minimumFill = d.minimumFill
    BY <2>1
  <2> QED BY <2>2, <2>4, <2>5, <2>6 DEF RequestInv
<1>12. s.pendingPullIntos # <<>> => w.pendingPullIntos[1] = s.pendingPullIntos[1]
  <2>1. s.pendingPullIntos \in Seq(Descriptors) BY <1>1 DEF Fields
  <2>2. s.pendingPullIntos # <<>> => 1 \in 1..n BY <2>1
  <2> QED BY <2>2, <1>4
<1> QED BY <1>4, <1>5, <1>7, <1>8, <1>10, <1>11, <1>12 DEF Parts

\* A failure stays one when a request is filled from the queue.
LEMMA DeadFill ==
  ASSUME NEW s, Dead(s), NEW r
  PROVE  Dead(readableByteStreamControllerFillReadRequestFromQueue(s, r))
<1> DEFINE w == [s EXCEPT !.queue = Tail(@)]
           x == readableByteStreamControllerHandleQueueDrain(w)
           y == Asserting(w, w.state = "readable")
           z == [y EXCEPT !.algorithms = FALSE]
<1>1. Dead(w) BY DEF Dead, FieldNames
<1> HIDE DEF w
<1>2. Dead(y) BY <1>1, DeadStays
<1> HIDE DEF y
<1>3. Dead(z) BY <1>2 DEF Dead, FieldNames
<1> HIDE DEF z
<1>4. Dead(readableStreamClose(z))
  BY <1>3 DEF Dead, FieldNames, readableStreamClose, Asserting, SettleReads
<1>5. x = IF QueueTotalSize(w) = 0 /\ w.closeRequested THEN readableStreamClose(z)
          ELSE readableByteStreamControllerCallPullIfNeeded(y)
  BY DEF readableByteStreamControllerHandleQueueDrain, y, z
<1>6. Dead(x) BY <1>2, <1>4, <1>5, DeadStays
<1>7. readableByteStreamControllerFillReadRequestFromQueue(s, r)
        = Answer(x, r, Head(s.queue), FALSE)
  BY DEF readableByteStreamControllerFillReadRequestFromQueue, w
<1> HIDE DEF x
<1> QED BY <1>6, <1>7 DEF Answer, Dead, FieldNames

\* Whether a stream wants bytes.
LEMMA WantsSame ==
  ASSUME NEW s, NEW t, NEW F, Differ(s, t, F),
         F \cap {"state", "closeRequested", "start", "readRequests", "readIntoRequests",
                 "hwm", "queue", "pull"} = {}
  PROVE  readableByteStreamControllerShouldCallPull(t)
           = readableByteStreamControllerShouldCallPull(s) /\ t.pull = s.pull
<1>1. \A f \in {"state", "closeRequested", "start", "readRequests", "readIntoRequests",
                "hwm", "queue", "pull"} : t[f] = s[f]
  BY DEF Differ, FieldNames
<1>2. t.state = s.state /\ t.closeRequested = s.closeRequested /\ t.start = s.start
      /\ t.readRequests = s.readRequests /\ t.readIntoRequests = s.readIntoRequests
      /\ t.hwm = s.hwm /\ t.queue = s.queue /\ t.pull = s.pull
  BY <1>1
<1> QED BY <1>2 DEF readableByteStreamControllerShouldCallPull, QueueTotalSize

\* A pull that is to follow another has that one before it.
LEMMA PullAgain ==
  ASSUME NEW s, Fields(s), ControllerInv(s), s.state = "readable", s.pullAgain
  PROVE  s.pull = "pending"
BY DEF Fields, ControllerInv

\* How many reads wait.
LEMMA CountsRequests ==
  ASSUME NEW s, Fields(s)
  PROVE  Requests(s) \in Nat
<1>1. s.readRequests \in Seq(Nat) /\ s.readIntoRequests \in Seq(Nat) BY DEF Fields
<1>2. Len(s.readRequests) \in Nat /\ Len(s.readIntoRequests) \in Nat BY <1>1
<1>3. PICK i \in Nat, j \in Nat : i = Len(s.readRequests) /\ j = Len(s.readIntoRequests)
  BY <1>2
<1>4. i + j \in Nat OBVIOUS
<1> QED BY <1>3, <1>4, Zenon DEF Requests

\* Nothing is to be told where nothing changes that makes bytes wanted.
LEMMA ToldSame ==
  ASSUME NEW s, NEW t, NEW F, Fields(s), ControllerInv(s), Differ(s, t, F),
         F \cap {"state", "closeRequested", "start", "readRequests", "readIntoRequests",
                 "hwm", "queue", "pull"} = {}
  PROVE  Told(s, t)
<1>1. readableByteStreamControllerShouldCallPull(t)
        = readableByteStreamControllerShouldCallPull(s) /\ t.pull = s.pull
  BY WantsSame
<1>2. \A f \in {"readRequests", "readIntoRequests"} : t[f] = s[f] BY DEF Differ, FieldNames
<1>3. Requests(t) = Requests(s) BY <1>2 DEF Requests
<1>4. Requests(s) \in Nat BY CountsRequests
<1>5. readableByteStreamControllerShouldCallPull(s) => s.state = "readable"
  BY DEF readableByteStreamControllerShouldCallPull
<1>6. readableByteStreamControllerShouldCallPull(s) /\ s.pullAgain => s.pull = "pending"
  BY <1>5, PullAgain
<1>7. ~(Requests(t) > Requests(s)) BY <1>3, <1>4
<1> QED BY <1>1, <1>6, <1>7 DEF Told

\* A read more, of a stream that is not readable, ends at once.
LEMMA ReadEnds ==
  ASSUME NEW s, NEW a, NEW q, Resting(s, a, q), s.state # "readable", NEW view \in Asks,
         NEW outcome \in {Done, Failed}
  PROVE  Call(s, Added(s, outcome), Append(a, view), q, 0)
<1> DEFINE t == Added(s, outcome)
           b == Append(a, view)
<1>1. Core(s, a, q) /\ BetweenCalls(s) /\ s.failed = FALSE /\ q \in Nat BY DEF Resting
<1>2. Parts(s, a) /\ LineTo(s, q) BY <1>1 DEF Core
<1>3. outcome \in {Pending, Done, Failed} OBVIOUS
<1>4. /\ Parts(t, b) /\ Differ(s, t, {"reads", "got"}) /\ LineTo(t, q)
      /\ NoneHead(t) = NoneHead(s) /\ BetweenCalls(t) /\ (DefaultOnly(s) => DefaultOnly(t))
  BY <1>1, <1>2, <1>3, AddsRead
<1> HIDE DEF t, b
<1>5. t.failed = FALSE /\ t.reader = s.reader /\ t.byob = s.byob /\ t.state = s.state
      /\ t.cancel = s.cancel
  BY <1>1, <1>4 DEF Differ, FieldNames
<1>6. NoneHead(s) \in {0, 1} /\ q + 0 = q BY <1>1 DEF NoneHead
<1>7. LineGoes(s, t, q, 0)
  <2>1. s.state \in {"closed", "errored"} BY <1>2 DEF Parts, Fields
  <2> QED BY <2>1, <1>4, <1>5, <1>6 DEF LineGoes
<1>8. Told(s, t) BY <1>5 DEF Told, readableByteStreamControllerShouldCallPull
<1>9. Goes(s, t, b, q, 0) BY <1>4, <1>5, <1>6, <1>7, <1>8 DEF Goes
<1>10. t.failed \in BOOLEAN BY <1>5
<1> QED BY <1>5, <1>9, <1>10 DEF Call, t, b

\* A default reader reads from a stream that is readable.
LEMMA PullsBytes ==
  ASSUME NEW s, NEW a, NEW q, Resting(s, a, q), s.state = "readable", s.reader, ~s.byob,
         NEW view \in Asks, view.elementSize = 1, view.minimumFill = 1
  PROVE  Call(s, PullBytes(Added(s, Pending)), Append(a, view), q, 0)
<1> DEFINE v == Added(s, Pending)
           b == Append(a, view)
           r == Len(v.reads)
           y == Asserting(v, v.readRequests = <<>>)
           f == readableByteStreamControllerFillReadRequestFromQueue(y, r)
           e == NewPullInto(OneByte(v.autoAllocateChunkSize), "default")
           w == [v EXCEPT !.readRequests = Append(@, r),
                          !.pendingPullIntos =
                            IF v.autoAllocateChunkSize = 0 THEN @ ELSE Append(@, e)]
           t == PullBytes(v)
<1> SUFFICES Call(s, t, b, q, 0) OBVIOUS
<1>1. Core(s, a, q) /\ BetweenCalls(s) /\ s.failed = FALSE /\ q \in Nat BY DEF Resting
<1>2. Parts(s, a) /\ LineTo(s, q) BY <1>1 DEF Core
<1>3. PICK n : n = Len(s.got) + 1 OBVIOUS
<1>4. Pending \in {Pending, Done, Failed} OBVIOUS
<1>5. /\ Parts(v, b) /\ Differ(s, v, {"reads", "got"})
      /\ Len(v.got) = n /\ Len(v.reads) = n /\ v.got[n] = <<>> /\ b[n] = view /\ n \in Nat
      /\ \A i \in 1..Len(s.readRequests) : s.readRequests[i] < n
      /\ \A i \in 1..Len(s.readIntoRequests) : s.readIntoRequests[i] < n
      /\ LineTo(v, q) /\ NoneHead(v) = NoneHead(s) /\ BetweenCalls(v)
      /\ DefaultOnly(s) => DefaultOnly(v)
  BY <1>1, <1>2, <1>3, <1>4, AddsRead
<1>6. t = IF v.queue # <<>> THEN f ELSE readableByteStreamControllerCallPullIfNeeded(w)
  <2> HIDE DEF v
  <2> QED BY DEF PullBytes
<1> HIDE DEF v, b, t
<1>7. /\ v.failed = FALSE /\ v.reader /\ ~v.byob /\ v.state = "readable" /\ v.queue = s.queue
      /\ v.pendingPullIntos = s.pendingPullIntos /\ v.readRequests = s.readRequests
      /\ v.readIntoRequests = s.readIntoRequests /\ v.reader = s.reader /\ v.byob = s.byob
      /\ v.cancel = s.cancel /\ v.closeRequested = s.closeRequested
      /\ v.autoAllocateChunkSize = s.autoAllocateChunkSize /\ v.pull = s.pull
      /\ v.pullAgain = s.pullAgain
  BY <1>1, <1>5 DEF Differ, FieldNames
<1>8. n > 0 /\ Len(s.got) \in Nat
  <2>1. Len(s.got) \in Nat BY <1>2 DEF Parts, Fields
  <2> QED BY <2>1, <1>3
<1>9. Fresh(v, r) /\ r = n BY <1>5, <1>7, <1>8 DEF Fresh
<1>10. b[r].elementSize = 1 /\ b[r].minimumFill = 1 BY <1>5, <1>9
<1>11. v.readIntoRequests = <<>> BY <1>5, <1>7 DEF Parts, RequestInv
<1>12. NoneHead(s) \in {0, 1} /\ q + 0 = q BY <1>1 DEF NoneHead
<1>13. FieldNames \subseteq DOMAIN v BY <1>5 DEF Differ
<1> HIDE DEF r
<1>14. CASE v.queue # <<>> /\ v.readRequests # <<>>
  <2>1. t = f BY <1>6, <1>14
  <2>2. ~DefaultOnly(s)
    <3>1. s.queue # <<>> /\ s.readRequests # <<>> BY <1>7, <1>14
    <3> QED BY <3>1 DEF DefaultOnly
  <2>3. Dead(y) BY <1>13, <1>14 DEF Asserting, Dead, FieldNames
  <2> HIDE DEF y
  <2>4. Dead(f) BY <2>3, DeadFill
  <2> HIDE DEF f
  <2>5. t.failed = TRUE BY <2>1, <2>4 DEF Dead
  <2> QED BY <2>2, <2>5 DEF Call
<1>15. CASE v.queue # <<>> /\ v.readRequests = <<>>
  <2>1. t = f BY <1>6, <1>15
  <2>2. Differ(v, y, {}) BY <1>7, <1>13, <1>15 DEF Asserting, Differ, FieldNames
  <2> HIDE DEF y
  <2>3. Fields(y) BY <1>5, <2>2, SMTT(30) DEF Parts, Fields, Differ, FieldNames
  <2>4. ControllerInv(y) BY <1>5, <2>2 DEF Parts, ControllerInv, Differ, FieldNames
  <2>5. DescriptorInv(y) /\ RequestInv(y, b) /\ AnswerInv(y, b) /\ LineTo(y, q)
    BY <1>5, <2>2, Unaffected DEF Parts
  <2>6. Core(y, b, q) BY <2>3, <2>4, <2>5 DEF Core, Parts
  <2>7. y.state = "readable" /\ y.queue # <<>> /\ y.pendingPullIntos = s.pendingPullIntos
        /\ y.readRequests = <<>> /\ y.readIntoRequests = <<>> /\ y.got = v.got
        /\ y.failed = FALSE /\ y.reader = s.reader /\ y.byob = s.byob /\ y.cancel = s.cancel
        /\ y.pull = s.pull
    BY <1>7, <1>11, <1>15, <2>2 DEF Differ, FieldNames
  <2>8. s.pendingPullIntos = <<>> BY <1>1, <1>7, <1>15 DEF BetweenCalls
  <2>9. HeadBytes(y) = <<>> BY <2>7, <2>8 DEF HeadBytes
  <2>10. Free(y, r)
    <3>1. r \in 1..Len(y.got) /\ \A j \in r..Len(y.got) : j = r BY <1>5, <1>8, <1>9, <2>7
    <3>2. y.got[r] = <<>> BY <1>5, <1>9, <2>7
    <3>3. Len(y.readRequests) = 0 /\ Len(y.readIntoRequests) = 0 BY <2>7
    <3> QED BY <3>1, <3>2, <3>3 DEF Free
  <2>11. /\ Core(f, b, q) /\ f.queue = Tail(y.queue)
         /\ Differ(y, f, EndFields \cup TakeFields)
         /\ f.state \in {"readable", "closed"}
         /\ f.state = "readable" => Differ(y, f, TakeFields)
         /\ f.state = "readable" /\ f.closeRequested => f.queue # <<>>
         /\ f.state = "closed" => f.readRequests = <<>> /\ f.queue = <<>>
         /\ PullGoes(y, f)
    BY <1>10, <2>6, <2>7, <2>9, <2>10, FillsReadRequest, ZenonT(60)
  <2> HIDE DEF f
  <2>12. f.pendingPullIntos = <<>> /\ f.failed = FALSE /\ f.reader = s.reader
         /\ f.byob = s.byob /\ f.cancel = s.cancel
    BY <2>7, <2>8, <2>11, ZenonT(60) DEF Differ, EndFields, TakeFields, FieldNames
  <2>13. f.state = "readable" => f.readRequests = <<>>
    BY <2>7, <2>11 DEF Differ, TakeFields, FieldNames
  <2>14. f.readRequests = <<>> BY <2>11, <2>13
  <2>15. BetweenCalls(f) BY <2>11, <2>12 DEF BetweenCalls
  <2>16. NoneHead(f) = 0 BY <2>12 DEF NoneHead
  <2>17. DefaultOnly(f) BY <2>12, <2>14, <2>16 DEF DefaultOnly
  <2>18. LineGoes(s, f, q, 0) BY <2>11, <1>12 DEF LineGoes, Core
  <2>19. Told(s, f) BY <2>7, <2>11 DEF Told, PullGoes
  <2>20. Goes(s, f, b, q, 0)
    BY <2>11, <2>12, <2>15, <2>16, <2>17, <2>18, <2>19, <1>12 DEF Goes, Core
  <2>21. f.failed \in BOOLEAN BY <2>12
  <2> QED BY <2>1, <2>12, <2>20, <2>21 DEF Call
<1>16. CASE v.queue = <<>>
  <2>1. t = readableByteStreamControllerCallPullIfNeeded(w) BY <1>6, <1>16
  <2>2. /\ Differ(v, w, {"readRequests", "pendingPullIntos"})
        /\ w.readRequests = Append(v.readRequests, r)
        /\ w.pendingPullIntos = IF v.autoAllocateChunkSize = 0 THEN v.pendingPullIntos
                                ELSE Append(v.pendingPullIntos, e)
    <3> HIDE DEF e
    <3> QED BY <1>13 DEF Differ, FieldNames
  <2> HIDE DEF w
  <2>3. /\ Parts(w, b) /\ NoneHead(w) = NoneHead(v) /\ HeadBytes(w) = HeadBytes(v)
        /\ DefaultOnly(v) /\ v.queue = <<>> => DefaultOnly(w)
    BY <2>2, <1>5, <1>7, <1>9, <1>10, ReadWaits
  <2>4. w.failed = FALSE /\ w.queue = <<>> /\ w.state = "readable" /\ w.reader = s.reader
        /\ w.byob = s.byob /\ w.got = v.got /\ w.closeRequested = v.closeRequested
        /\ w.pull = s.pull
    BY <1>7, <1>16, <2>2 DEF Differ, FieldNames
  <2>5. LineTo(w, q) BY <1>5, <1>16, <2>3, <2>4 DEF LineTo
  <2>6. BetweenCalls(w) BY <1>5, <1>7, <1>16, <2>4 DEF BetweenCalls
  <2>7. LineGoes(s, w, q, 0) BY <2>4, <2>5, <1>12 DEF LineGoes
  <2>8. Worked(s, w, b, q, 0)
    BY <2>3, <2>4, <2>6, <2>7, <1>5, <1>12, <1>16 DEF Worked, KeepsPull
  <2>9. Call(s, readableByteStreamControllerCallPullIfNeeded(w), b, q, 0)
    <3>1. PICK z \in Nat : z = 0 OBVIOUS
    <3>2. Worked(s, w, b, q, z) BY <2>8, <3>1
    <3>3. Call(s, readableByteStreamControllerCallPullIfNeeded(w), b, q, z)
      BY <1>1, <3>2, EndsWithPull
    <3> QED BY <3>1, <3>3
  <2> QED BY <2>1, <2>9
<1> QED BY <1>14, <1>15, <1>16

\* A default reader reads.
LEMMA ReadsBytes ==
  ASSUME NEW s, NEW a, NEW q, Resting(s, a, q), s.reader, ~s.byob
  PROVE  OneByte(1) \in Asks /\ Call(s, ReadBytes(s), Append(a, OneByte(1)), q, 0)
<1> DEFINE view == OneByte(1)
<1>1. view \in Asks /\ view.elementSize = 1 /\ view.minimumFill = 1
  BY DEF OneByte, Asks, Numbers
<1>2. Fields(s) BY DEF Resting, Core, Parts
<1>3. s.state \in {"readable", "closed", "errored"} /\ FieldNames \subseteq DOMAIN s
  BY <1>2 DEF Fields
<1>4. AddRead(s) = Added(s, Pending) BY DEF AddRead, Added
<1>5. ASSUME NEW o PROVE [AddRead(s) EXCEPT !.reads = Append(s.reads, o)] = Added(s, o)
  BY <1>3 DEF AddRead, Added, FieldNames
<1> HIDE DEF view
<1>6. CASE s.state = "closed"
  <2>1. ReadBytes(s) = Added(s, Done) BY <1>5, <1>6 DEF ReadBytes
  <2>2. Done \in {Done, Failed} OBVIOUS
  <2>3. Call(s, Added(s, Done), Append(a, view), q, 0) BY <1>1, <1>6, <2>2, ReadEnds
  <2> QED BY <2>1, <2>3, <1>1 DEF view
<1>7. CASE s.state = "errored"
  <2>1. ReadBytes(s) = Added(s, Failed) BY <1>5, <1>7 DEF ReadBytes
  <2>2. Failed \in {Done, Failed} OBVIOUS
  <2>3. Call(s, Added(s, Failed), Append(a, view), q, 0) BY <1>1, <1>7, <2>2, ReadEnds
  <2> QED BY <2>1, <2>3, <1>1 DEF view
<1>8. CASE s.state = "readable"
  <2>1. ReadBytes(s) = PullBytes(Added(s, Pending)) BY <1>4, <1>8 DEF ReadBytes
  <2>2. Call(s, PullBytes(Added(s, Pending)), Append(a, view), q, 0)
    BY <1>1, <1>8, PullsBytes
  <2> QED BY <2>1, <2>2, <1>1 DEF view
<1> QED BY <1>3, <1>6, <1>7, <1>8

-----------------------------------------------------------------------------
(* read(view) of a BYOB reader. *)

\* What a read into a view may ask for.
GoodView(view) ==
  /\ view \in Asks /\ view.minimumFill % view.elementSize = 0
  /\ view.minimumFill <= view.byteLength

\* The stream with the read r of a BYOB reader, which it has not looked at yet.
Incoming(s, v, b, q, r, view) ==
  /\ Parts(v, b) /\ LineTo(v, q) /\ BetweenCalls(v) /\ v.failed = FALSE /\ q \in Nat
  /\ v.reader = TRUE /\ v.byob = TRUE /\ s.reader = TRUE /\ s.byob = TRUE
  /\ Fresh(v, r) /\ b[r] = view /\ GoodView(view)
  /\ NoneHead(v) = NoneHead(s) /\ v.pendingPullIntos = s.pendingPullIntos
  /\ v.state = s.state /\ v.cancel = s.cancel
  /\ v.pull = s.pull /\ v.pullAgain = s.pullAgain

\* The descriptor of a view.
LEMMA NewDescriptor ==
  ASSUME NEW view, GoodView(view)
  PROVE  LET d == NewPullInto(view, "byob")
         IN  /\ d \in Descriptors /\ WellMade(d) /\ d.readerType = "byob" /\ d.bytes = <<>>
             /\ d.detached = FALSE /\ d.elementSize = view.elementSize
             /\ d.minimumFill = view.minimumFill
<1> DEFINE d == NewPullInto(view, "byob")
<1>1. view \in Asks /\ view.minimumFill % view.elementSize = 0
      /\ view.minimumFill <= view.byteLength
  BY DEF GoodView
<1>2. /\ d \in Descriptors /\ d.readerType = "byob" /\ d.bytes = <<>> /\ d.detached = FALSE
      /\ d.elementSize = view.elementSize /\ d.minimumFill = view.minimumFill
      /\ d.byteLength = view.byteLength
  BY <1>1 DEF NewPullInto, Asks, Descriptors
<1> HIDE DEF d
<1>3. 0 < view.minimumFill /\ Len(<<>>) = 0
  <2>1. view.minimumFill \in Numbers BY <1>1 DEF Asks
  <2> QED BY <2>1 DEF Numbers
<1>4. WellMade(d) BY <1>1, <1>2, <1>3 DEF WellMade
<1> QED BY <1>2, <1>4 DEF d

\* The stream y with the descriptor e of a read that waits.
WaitsInto(y, e, r) ==
  [y EXCEPT !.pendingPullIntos = Append(@, e), !.readIntoRequests = Append(@, r)]

\* A read into a view waits behind another, which the source knows of.
LEMMA WaitsBehind ==
  ASSUME NEW s, NEW v, NEW b, NEW q, NEW r, NEW view, Incoming(s, v, b, q, r, view),
         v.pendingPullIntos # <<>>
  PROVE  Call(s, WaitsInto(v, NewPullInto(view, "byob"), r), b, q, 0)
<1> DEFINE d == NewPullInto(view, "byob")
           w == WaitsInto(v, d, r)
<1>1. /\ Parts(v, b) /\ LineTo(v, q) /\ BetweenCalls(v) /\ v.failed = FALSE /\ q \in Nat
      /\ v.reader = TRUE /\ v.byob = TRUE /\ s.reader = TRUE /\ s.byob = TRUE
      /\ Fresh(v, r) /\ b[r] = view /\ GoodView(view)
      /\ NoneHead(v) = NoneHead(s) /\ v.pendingPullIntos = s.pendingPullIntos
      /\ v.state = s.state /\ v.cancel = s.cancel /\ v.pullAgain = s.pullAgain
  BY DEF Incoming
<1>2. /\ d \in Descriptors /\ WellMade(d) /\ d.readerType = "byob" /\ d.bytes = <<>>
      /\ d.detached = FALSE /\ d.elementSize = view.elementSize
      /\ d.minimumFill = view.minimumFill
  BY <1>1, NewDescriptor
<1> HIDE DEF d
<1>3. /\ Differ(v, w, {"readIntoRequests", "pendingPullIntos"})
      /\ w.readIntoRequests = Append(v.readIntoRequests, r)
      /\ w.pendingPullIntos = Append(v.pendingPullIntos, d)
  BY <1>1 DEF WaitsInto, Parts, Fields, Differ, FieldNames
<1> HIDE DEF w
<1>4. v.state # "errored" BY <1>1 DEF Parts, ControllerInv
<1>5. /\ Parts(w, b) /\ NoneHead(w) = NoneHead(v)
      /\ HeadBytes(w) = IF v.pendingPullIntos = <<>> THEN d.bytes ELSE HeadBytes(v)
      /\ w.pendingPullIntos # <<>>
      /\ v.pendingPullIntos # <<>> => w.pendingPullIntos[1] = v.pendingPullIntos[1]
  <2>1. v.reader /\ v.byob
        /\ (v.pendingPullIntos # <<>> => d.bytes = <<>> /\ ~d.detached)
    BY <1>1, <1>2
  <2>2. b[r].elementSize = d.elementSize /\ b[r].minimumFill = d.minimumFill BY <1>1, <1>2
  <2>3. Parts(v, b) /\ Fresh(v, r) BY <1>1
  <2>4. d \in Descriptors /\ WellMade(d) /\ d.readerType = "byob" BY <1>2
  <2> QED BY <2>1, <2>2, <2>3, <2>4, <1>3, <1>4, ReadIntoWaits
<1>6. w.failed = FALSE /\ w.queue = v.queue /\ w.state = v.state /\ w.reader = TRUE
      /\ w.byob = TRUE /\ w.got = v.got /\ w.closeRequested = v.closeRequested
      /\ w.cancel = v.cancel /\ w.pullAgain = s.pullAgain
  BY <1>1, <1>3 DEF Differ, FieldNames
<1>7. LineTo(w, q) BY <1>1, <1>5, <1>6 DEF LineTo
<1>8. BetweenCalls(w) BY <1>1, <1>5, <1>6 DEF BetweenCalls
<1>9. NoneHead(s) \in {0, 1} /\ q + 0 = q BY <1>1 DEF NoneHead
<1>10. LineGoes(s, w, q, 0)
  <2>1. v.state \in {"readable", "closed"} BY <1>1, <1>4 DEF Parts, Fields
  <2> QED BY <2>1, <1>1, <1>6, <1>7, <1>9 DEF LineGoes
<1>11. Told(s, w)
  <2>1. s.byob /\ s.pendingPullIntos # <<>> BY <1>1
  <2>2. w.state = "readable" /\ w.pullAgain => w.pull = "pending" BY <1>5, PullAgain DEF Parts
  <2> QED BY <2>1, <2>2, <1>6 DEF Told, readableByteStreamControllerShouldCallPull
<1>12. Goes(s, w, b, q, 0)
  <2>1. s.reader /\ s.byob /\ w.reader = s.reader /\ w.byob = s.byob BY <1>1, <1>6
  <2>2. NoneHead(w) <= NoneHead(s) BY <1>1, <1>5, <1>9
  <2> QED BY <2>1, <2>2, <1>5, <1>8, <1>10, <1>11 DEF Goes
<1>13. w.failed \in BOOLEAN BY <1>6
<1> QED BY <1>6, <1>12, <1>13 DEF Call, w, d

\* The first read into a view waits with the bytes it could get, and the source is asked.
LEMMA WaitsFirst ==
  ASSUME NEW s, NEW v, NEW b, NEW q, NEW r, NEW view, Incoming(s, v, b, q, r, view),
         v.pendingPullIntos = <<>>, v.state = "readable", ~v.closeRequested,
         NEW y, Differ(v, y, {"queue", "failed"}), y.queue = <<>>, y.failed = FALSE,
         NEW e, Refilled(NewPullInto(view, "byob"), e), Len(e.bytes) < e.minimumFill,
         NEW g \in Nat, Consecutive(v.got, 0, g), Run(e.bytes, g, q)
  PROVE  Call(s, readableByteStreamControllerCallPullIfNeeded(WaitsInto(y, e, r)), b, q, 0)
<1> DEFINE d == NewPullInto(view, "byob")
           w == WaitsInto(y, e, r)
<1>1. /\ Parts(v, b) /\ LineTo(v, q) /\ BetweenCalls(v) /\ v.failed = FALSE /\ q \in Nat
      /\ v.reader = TRUE /\ v.byob = TRUE /\ s.reader = TRUE /\ s.byob = TRUE
      /\ Fresh(v, r) /\ b[r] = view /\ GoodView(view)
      /\ NoneHead(v) = NoneHead(s) /\ v.pendingPullIntos = s.pendingPullIntos
      /\ v.state = s.state /\ v.cancel = s.cancel /\ v.pull = s.pull
  BY DEF Incoming
<1>2. /\ d \in Descriptors /\ WellMade(d) /\ d.readerType = "byob"
      /\ d.elementSize = view.elementSize /\ d.minimumFill = view.minimumFill
  BY <1>1, NewDescriptor
<1> HIDE DEF d
<1>3. /\ e \in Descriptors /\ e.readerType = "byob" /\ e.elementSize = view.elementSize
      /\ e.minimumFill = view.minimumFill
  BY <1>2 DEF Refilled, d
<1>4. WellMade(e) BY <1>2, <1>3 DEF WellMade, Refilled, d
<1>5. y.state = "readable" /\ y.reader = TRUE /\ y.byob = TRUE /\ y.got = v.got
      /\ y.pendingPullIntos = <<>> /\ y.reads = v.reads /\ y.readRequests = v.readRequests
      /\ y.readIntoRequests = v.readIntoRequests /\ ~y.closeRequested /\ y.cancel = v.cancel
      /\ y.pull = s.pull
  BY <1>1 DEF Differ, FieldNames
<1>6. Fields(y)
  <2>1. <<>> \in Seq(Seq(Nat) \ {<<>>}) OBVIOUS
  <2> QED BY <2>1, <1>1 DEF Parts, Fields, Differ, FieldNames
<1>7. ControllerInv(y) BY <1>1 DEF Parts, ControllerInv, Differ, FieldNames
<1>8. {"queue", "failed"} \cap {"byobRequest", "pendingPullIntos", "reader", "byob",
                                "readIntoRequests"} = {}
      /\ {"queue", "failed"} \cap {"readRequests", "readIntoRequests", "state", "reader",
                                   "byob", "got", "pendingPullIntos"} = {}
      /\ {"queue", "failed"} \cap {"got", "reads"} = {}
  OBVIOUS
<1>9. DescriptorInv(y) /\ RequestInv(y, b) /\ AnswerInv(y, b)
  BY <1>1, <1>8, Unaffected DEF Parts
<1>10. Parts(y, b) BY <1>6, <1>7, <1>9 DEF Parts
<1>11. Fresh(y, r) BY <1>1, <1>5 DEF Fresh
<1>12. /\ Differ(y, w, {"readIntoRequests", "pendingPullIntos"})
       /\ w.readIntoRequests = Append(y.readIntoRequests, r)
       /\ w.pendingPullIntos = Append(y.pendingPullIntos, e)
  BY <1>6 DEF WaitsInto, Fields, Differ, FieldNames
<1> HIDE DEF w
<1>13. /\ Parts(w, b) /\ NoneHead(w) = NoneHead(y)
       /\ HeadBytes(w) = IF y.pendingPullIntos = <<>> THEN e.bytes ELSE HeadBytes(y)
  <2>1. y.state # "errored" /\ y.reader /\ y.byob
        /\ (y.pendingPullIntos # <<>> => e.bytes = <<>> /\ ~e.detached)
    BY <1>5
  <2>2. b[r].elementSize = e.elementSize /\ b[r].minimumFill = e.minimumFill BY <1>1, <1>3
  <2> QED BY <2>1, <2>2, <1>3, <1>4, <1>10, <1>11, <1>12, ReadIntoWaits
<1>14. w.failed = FALSE /\ w.queue = <<>> /\ w.state = "readable" /\ w.reader = TRUE
       /\ w.byob = TRUE /\ w.got = v.got /\ ~w.closeRequested /\ w.pull = s.pull
  BY <1>5, <1>12 DEF Differ, FieldNames
<1>15. LineTo(w, q)
  <2>1. Consecutive(<<>>, q, q) BY <1>1, EmptyLine
  <2>2. HeadBytes(w) = e.bytes BY <1>5, <1>13
  <2> QED BY <2>1, <2>2, <1>1, <1>14 DEF LineTo
<1>16. BetweenCalls(w) BY <1>14 DEF BetweenCalls
<1>17. NoneHead(y) = 0 /\ NoneHead(s) \in {0, 1} /\ q + 0 = q BY <1>1, <1>5 DEF NoneHead
<1>18. LineGoes(s, w, q, 0) BY <1>1, <1>14, <1>15, <1>17 DEF LineGoes
<1>19. PICK z \in Nat : z = 0 OBVIOUS
<1>20. Worked(s, w, b, q, z)
  <2>1. s.reader /\ s.byob /\ w.reader = s.reader /\ w.byob = s.byob BY <1>1, <1>14
  <2>2. NoneHead(w) <= NoneHead(s) BY <1>13, <1>17
  <2> QED BY <2>1, <2>2, <1>13, <1>14, <1>16, <1>18, <1>19 DEF Worked, KeepsPull
<1>21. Call(s, readableByteStreamControllerCallPullIfNeeded(w), b, q, z)
  BY <1>1, <1>20, EndsWithPull
<1> QED BY <1>19, <1>21 DEF w

\* The stream y is v after a view took bytes from its queue up to m.
Took(s, v, y, b, q, r, view, e, g, m) ==
  /\ Incoming(s, v, b, q, r, view) /\ v.pendingPullIntos = <<>> /\ v.state = "readable"
  /\ Differ(v, y, {"queue", "failed"}) /\ y.failed = FALSE
  /\ y.queue \in Seq(Seq(Nat) \ {<<>>})
  /\ g \in Nat /\ m \in Nat /\ Consecutive(v.got, 0, g) /\ Run(e.bytes, g, m)
  /\ Consecutive(y.queue, m, q)

\* What stays of the stream.
Kept(s, v, y, b, q, r, view) ==
  /\ Parts(y, b) /\ y.state = "readable" /\ y.pendingPullIntos = <<>>
  /\ y.readRequests = <<>> /\ y.readIntoRequests = <<>> /\ y.got = v.got
  /\ y.reads = v.reads /\ y.reader = TRUE /\ y.byob = TRUE
  /\ y.closeRequested = v.closeRequested /\ y.cancel = s.cancel
  /\ y.pull = s.pull
  /\ s.reader = TRUE /\ s.byob = TRUE /\ s.state = "readable" /\ q \in Nat
  /\ Fresh(v, r) /\ b[r] = view /\ NoneHead(s) \in {0, 1}

\* What stays of a stream from whose queue a view took bytes.
LEMMA TookKeeps ==
  ASSUME NEW s, NEW v, NEW y, NEW b, NEW q, NEW r, NEW view, NEW e, NEW g, NEW m,
         Took(s, v, y, b, q, r, view, e, g, m)
  PROVE  Kept(s, v, y, b, q, r, view)
<1>1. /\ Incoming(s, v, b, q, r, view) /\ v.pendingPullIntos = <<>> /\ v.state = "readable"
      /\ Differ(v, y, {"queue", "failed"}) /\ y.failed = FALSE
      /\ y.queue \in Seq(Seq(Nat) \ {<<>>})
  BY DEF Took
<1>2. /\ Parts(v, b) /\ v.failed = FALSE /\ q \in Nat
      /\ v.reader = TRUE /\ v.byob = TRUE /\ s.reader = TRUE /\ s.byob = TRUE
      /\ Fresh(v, r) /\ b[r] = view /\ v.state = s.state /\ v.cancel = s.cancel
      /\ v.pull = s.pull
  BY <1>1 DEF Incoming
<1>3. /\ y.state = "readable" /\ y.pendingPullIntos = <<>> /\ y.got = v.got
      /\ y.reads = v.reads /\ y.reader = TRUE /\ y.byob = TRUE
      /\ y.readRequests = v.readRequests /\ y.readIntoRequests = v.readIntoRequests
      /\ y.closeRequested = v.closeRequested /\ y.cancel = s.cancel
      /\ y.pull = s.pull
  BY <1>1, <1>2 DEF Differ, FieldNames
<1>4. v.readRequests = <<>>
  <2>1. v.byob BY <1>2
  <2> QED BY <2>1, <1>2 DEF Parts, RequestInv
<1>5. v.readIntoRequests = <<>>
  <2>1. v.reader /\ v.byob BY <1>2
  <2>2. Len(v.readIntoRequests) = Len(v.pendingPullIntos) - NoneHead(v)
    BY <2>1, <1>2 DEF Parts, DescriptorInv
  <2>3. NoneHead(v) = 0 /\ Len(v.pendingPullIntos) = 0 BY <1>1 DEF NoneHead
  <2>4. v.readIntoRequests \in Seq(Nat) BY <1>2 DEF Parts, Fields
  <2> QED BY <2>2, <2>3, <2>4
<1>6. Fields(y) BY <1>1, <1>2 DEF Parts, Fields, Differ, FieldNames
<1>7. ControllerInv(y) BY <1>1, <1>2, <1>3 DEF Parts, ControllerInv, Differ, FieldNames
<1>8. {"queue", "failed"} \cap {"byobRequest", "pendingPullIntos", "reader", "byob",
                                "readIntoRequests"} = {}
      /\ {"queue", "failed"} \cap {"readRequests", "readIntoRequests", "state", "reader",
                                   "byob", "got", "pendingPullIntos"} = {}
      /\ {"queue", "failed"} \cap {"got", "reads"} = {}
  OBVIOUS
<1>9. DescriptorInv(y) /\ RequestInv(y, b) /\ AnswerInv(y, b)
  BY <1>1, <1>2, <1>8, Unaffected DEF Parts
<1>10. NoneHead(s) \in {0, 1} BY DEF NoneHead
<1> QED BY <1>1, <1>2, <1>3, <1>4, <1>5, <1>6, <1>7, <1>9, <1>10 DEF Parts, Kept

\* A view is filled at once.
LEMMA FillsAtOnce ==
  ASSUME NEW s, NEW v, NEW y, NEW b, NEW q, NEW r, NEW view, NEW e, NEW g, NEW m,
         Took(s, v, y, b, q, r, view, e, g, m), Len(e.bytes) >= view.minimumFill,
         Len(e.bytes) % view.elementSize = 0
  PROVE  Call(s, Answer(readableByteStreamControllerHandleQueueDrain(y), r, e.bytes, FALSE),
              b, q, 0)
<1> DEFINE z == readableByteStreamControllerHandleQueueDrain(y)
           t == Answer(z, r, e.bytes, FALSE)
<1>1. /\ Parts(y, b) /\ y.state = "readable" /\ y.pendingPullIntos = <<>>
      /\ y.readRequests = <<>> /\ y.readIntoRequests = <<>> /\ y.got = v.got
      /\ y.reader = TRUE /\ y.byob = TRUE
      /\ y.closeRequested = v.closeRequested /\ y.cancel = s.cancel
      /\ y.pull = s.pull
      /\ s.reader = TRUE /\ s.byob = TRUE /\ s.state = "readable" /\ q \in Nat
      /\ Fresh(v, r) /\ b[r] = view /\ NoneHead(s) \in {0, 1}
  <2>1. Kept(s, v, y, b, q, r, view) BY TookKeeps
  <2> QED BY <2>1 DEF Kept
<1>2. /\ y.failed = FALSE /\ g \in Nat /\ m \in Nat /\ Consecutive(v.got, 0, g)
      /\ Run(e.bytes, g, m) /\ Consecutive(y.queue, m, q)
  BY DEF Took
<1>3. /\ Parts(z, b) /\ Differ(y, z, EndFields \cup PullFields)
      /\ z.state \in {"readable", "closed"}
      /\ z.state = "closed" => z.queue = <<>>
      /\ z.state = "readable" => Differ(y, z, PullFields)
      /\ z.state = "readable" /\ z.closeRequested => z.queue # <<>>
      /\ z.state = "closed" => z.readRequests = <<>>
      /\ PullGoes(y, z)
  BY <1>1, <1>2, HandlesDrain
<1> HIDE DEF z
<1>4. z.pendingPullIntos = <<>> /\ z.readIntoRequests = <<>> /\ z.got = v.got
      /\ z.reader = TRUE /\ z.byob = TRUE /\ z.cancel = s.cancel /\ z.queue = y.queue
      /\ z.failed = FALSE
  BY <1>1, <1>2, <1>3 DEF Differ, EndFields, PullFields, FieldNames
<1>5. z.readRequests = <<>>
  <2>1. z.byob BY <1>4
  <2> QED BY <2>1, <1>3 DEF Parts, RequestInv
<1>6. r \in 1..Len(v.got) /\ v.got[r] = <<>> /\ \A j \in r..Len(v.got) : j = r
  BY <1>1 DEF Fresh
<1>7. Free(z, r)
  <2>1. Len(z.readRequests) = 0 /\ Len(z.readIntoRequests) = 0 BY <1>4, <1>5
  <2> QED BY <2>1, <1>4, <1>6 DEF Free
<1>8. PICK no \in BOOLEAN : no = FALSE OBVIOUS
<1>9. Suits(e.bytes, b[r], no)
  <2>1. e.bytes \in Seq(Nat) BY <1>2 DEF Run
  <2> QED BY <2>1, <1>1, <1>8 DEF Suits
<1>10. t = Answer(z, r, e.bytes, no) BY <1>8
<1> HIDE DEF t
<1>11. LET k == Answer(z, r, e.bytes, no)
       IN  /\ Differ(z, k, {"reads", "got"}) /\ k.got = [z.got EXCEPT ![r] = e.bytes]
           /\ Parts(k, b)
  BY <1>3, <1>7, <1>9, AnswersRead
<1>12. Differ(z, t, {"reads", "got"}) /\ t.got = [v.got EXCEPT ![r] = e.bytes] /\ Parts(t, b)
  BY <1>4, <1>10, <1>11
<1>13. t.failed = FALSE /\ t.reader = TRUE /\ t.byob = TRUE /\ t.cancel = s.cancel
       /\ t.queue = y.queue /\ t.pendingPullIntos = <<>> /\ t.state = z.state
       /\ t.closeRequested = z.closeRequested
  BY <1>4, <1>12 DEF Differ, FieldNames
<1>14. LineTo(t, q)
  <2>1. \A j \in r..Len(v.got) : v.got[j] = <<>> BY <1>6
  <2>2. Consecutive(t.got, 0, m) BY <2>1, <1>2, <1>6, <1>12, LineAnswer
  <2>3. HeadBytes(t) = <<>> BY <1>13 DEF HeadBytes
  <2>4. Run(<<>>, m, m) BY <1>2, RunFacts
  <2> QED BY <2>2, <2>3, <2>4, <1>2, <1>13 DEF LineTo
<1>15. BetweenCalls(t) BY <1>3, <1>4, <1>13 DEF BetweenCalls
<1>16. Told(s, t)
  <2>1. {"reads", "got"} \cap {"state", "closeRequested", "start", "readRequests",
                               "readIntoRequests", "hwm", "queue", "pull"} = {}
    OBVIOUS
  <2>2. readableByteStreamControllerShouldCallPull(t)
          = readableByteStreamControllerShouldCallPull(z) /\ t.pull = z.pull
        /\ t.pullAgain = z.pullAgain
    BY <2>1, <1>12, WantsSame DEF Differ, FieldNames
  <2> QED BY <2>2, <1>1, <1>3 DEF Told, PullGoes
<1>17. q + 0 = q BY <1>1
<1>18. LineGoes(s, t, q, 0) BY <1>1, <1>3, <1>13, <1>14, <1>17 DEF LineGoes
<1>19. Goes(s, t, b, q, 0)
  <2>1. s.reader /\ s.byob /\ t.reader = s.reader /\ t.byob = s.byob BY <1>1, <1>13
  <2>2. NoneHead(t) = 0 BY <1>13 DEF NoneHead
  <2>3. NoneHead(t) <= NoneHead(s) BY <2>2, <1>1
  <2> QED BY <2>1, <2>3, <1>12, <1>15, <1>16, <1>18 DEF Goes
<1>20. t.failed \in BOOLEAN BY <1>13
<1> QED BY <1>13, <1>19, <1>20 DEF Call, t, z

\* A view that the last bytes of a stream cannot fill: the stream is errored.
LEMMA TooFewBytes ==
  ASSUME NEW s, NEW v, NEW y, NEW b, NEW q, NEW r, NEW view, NEW e, NEW g, NEW m,
         Took(s, v, y, b, q, r, view, e, g, m), y.queue = <<>>
  PROVE  Call(s, [readableByteStreamControllerError(y) EXCEPT !.reads[r] = Failed], b, q, 0)
<1> DEFINE z == readableByteStreamControllerError(y)
           t == [z EXCEPT !.reads[r] = Failed]
<1>1. /\ Parts(y, b) /\ y.state = "readable" /\ y.pendingPullIntos = <<>>
      /\ y.got = v.got /\ y.reader = TRUE /\ y.byob = TRUE
      /\ s.reader = TRUE /\ s.byob = TRUE /\ s.state = "readable" /\ q \in Nat
      /\ Fresh(v, r) /\ NoneHead(s) \in {0, 1}
  <2>1. Kept(s, v, y, b, q, r, view) BY TookKeeps
  <2> QED BY <2>1 DEF Kept
<1>2. /\ y.failed = FALSE /\ g \in Nat /\ m \in Nat /\ Consecutive(v.got, 0, g)
      /\ Run(e.bytes, g, m) /\ Consecutive(y.queue, m, q)
  BY DEF Took
<1>3. g <= q
  <2>1. m = q BY <1>2, EmptyLine
  <2>2. m = g + Len(e.bytes) /\ Len(e.bytes) \in Nat BY <1>2, RunFacts
  <2> QED BY <2>1, <2>2, <1>2
<1>4. LineTo(y, g)
  <2>1. HeadBytes(y) = <<>> BY <1>1 DEF HeadBytes
  <2>2. Run(<<>>, g, g) /\ Consecutive(<<>>, g, g) BY <1>2, RunFacts, EmptyLine
  <2> QED BY <2>1, <2>2, <1>1, <1>2 DEF LineTo
<1>5. Core(y, b, g) BY <1>1, <1>4 DEF Core
<1>6. /\ \E k \in Nat : k <= g /\ Core(z, b, k)
      /\ BetweenCalls(z) /\ DefaultOnly(z) /\ z.state = "errored"
      /\ Differ(y, z, ClearFields) /\ z.pendingPullIntos = <<>>
  BY <1>1, <1>5, BytesError
<1> HIDE DEF z
<1>7. PICK k \in Nat : k <= g /\ Core(z, b, k) BY <1>6
<1>8. z.got = v.got /\ z.failed = FALSE /\ z.reader = TRUE /\ z.byob = TRUE
  BY <1>1, <1>2, <1>6 DEF Differ, ClearFields, EndFields, FieldNames
<1>9. r \in 1..Len(z.reads)
  <2>1. Len(z.reads) = Len(z.got) BY <1>7 DEF Core, Parts, Fields
  <2> QED BY <2>1, <1>1, <1>8 DEF Fresh
<1>10. PICK o \in {Done, Failed} : o = Failed OBVIOUS
<1>11. t = [z EXCEPT !.reads[r] = o] BY <1>10
<1> HIDE DEF t
<1>12. LET x == [z EXCEPT !.reads[r] = o]
       IN  /\ Parts(x, b) /\ Differ(z, x, {"reads"})
           /\ \A p : LineTo(z, p) => LineTo(x, p)
           /\ NoneHead(x) = NoneHead(z) /\ (BetweenCalls(z) => BetweenCalls(x))
  BY <1>7, <1>9, EndsRead DEF Core
<1>13. /\ Parts(t, b) /\ Differ(z, t, {"reads"}) /\ LineTo(t, k)
       /\ NoneHead(t) = NoneHead(z) /\ BetweenCalls(t)
  BY <1>6, <1>7, <1>11, <1>12 DEF Core
<1>14. t.state = "errored" /\ t.failed = FALSE /\ t.reader = TRUE /\ t.byob = TRUE
  BY <1>6, <1>8, <1>13 DEF Differ, FieldNames
<1>15. LineGoes(s, t, q, 0)
  <2>1. k <= q + 0 BY <1>1, <1>2, <1>3, <1>7
  <2> QED BY <2>1, <1>13, <1>14 DEF LineGoes
<1>16. Told(s, t) BY <1>14 DEF Told, readableByteStreamControllerShouldCallPull
<1>17. Goes(s, t, b, q, 0)
  <2>1. s.reader /\ s.byob /\ t.reader = s.reader /\ t.byob = s.byob BY <1>1, <1>14
  <2>2. NoneHead(t) = 0 BY <1>6, <1>13 DEF NoneHead
  <2>3. NoneHead(t) <= NoneHead(s) BY <2>2, <1>1
  <2> QED BY <2>1, <2>3, <1>13, <1>15, <1>16 DEF Goes
<1>18. t.failed \in BOOLEAN BY <1>14
<1> QED BY <1>14, <1>17, <1>18 DEF Call, t, z

\* A read into a view, of a stream that is not errored.
LEMMA PullsInto ==
  ASSUME NEW s, NEW v, NEW b, NEW q, NEW r, NEW view, Incoming(s, v, b, q, r, view),
         v.state # "errored", r = Len(v.reads), v.queue # <<>> => v.pendingPullIntos = <<>>
  PROVE  Call(s, readableByteStreamControllerPullInto(v, view), b, q, 0)
<1> DEFINE d == NewPullInto(view, "byob")
           f == readableByteStreamControllerFillPullIntoDescriptorFromQueue(v, d)
           t == readableByteStreamControllerPullInto(v, view)
           z == [v EXCEPT !.reads[r] = Done]
<1>1. /\ Parts(v, b) /\ LineTo(v, q) /\ BetweenCalls(v) /\ v.failed = FALSE /\ q \in Nat
      /\ v.reader = TRUE /\ v.byob = TRUE /\ s.reader = TRUE /\ s.byob = TRUE
      /\ Fresh(v, r) /\ b[r] = view /\ GoodView(view)
      /\ NoneHead(v) = NoneHead(s) /\ v.pendingPullIntos = s.pendingPullIntos
      /\ v.state = s.state /\ v.cancel = s.cancel
  BY DEF Incoming
<1>2. Fields(v) BY <1>1 DEF Parts
<1>3. v.state \in {"readable", "closed"} /\ v.closeRequested \in BOOLEAN BY <1>2 DEF Fields
<1>4. t = CASE v.pendingPullIntos # <<>> -> WaitsInto(v, d, r)
            [] v.pendingPullIntos = <<>> /\ v.state = "closed" -> z
            [] v.pendingPullIntos = <<>> /\ v.state = "readable" /\ v.queue = <<>> ->
                 readableByteStreamControllerCallPullIfNeeded(WaitsInto(v, d, r))
            [] OTHER ->
                 CASE f.ready ->
                        Answer(readableByteStreamControllerHandleQueueDrain(f.stream), r,
                               f.descriptor.bytes, FALSE)
                   [] ~f.ready /\ v.closeRequested ->
                        [readableByteStreamControllerError(f.stream) EXCEPT !.reads[r] = Failed]
                   [] ~f.ready /\ ~v.closeRequested ->
                        readableByteStreamControllerCallPullIfNeeded(
                          WaitsInto(f.stream, f.descriptor, r))
  BY DEF readableByteStreamControllerPullInto, WaitsInto
<1> SUFFICES Call(s, t, b, q, 0) OBVIOUS
<1> HIDE DEF t
<1>5. /\ d \in Descriptors /\ WellMade(d) /\ d.readerType = "byob" /\ d.bytes = <<>>
      /\ d.detached = FALSE /\ d.elementSize = view.elementSize
      /\ d.minimumFill = view.minimumFill
  BY <1>1, NewDescriptor
<1>6. CASE v.pendingPullIntos # <<>>
  <2>1. t = WaitsInto(v, d, r)
    <3> HIDE DEF f, d, z
    <3> QED BY <1>4, <1>6
  <2>2. Call(s, WaitsInto(v, d, r), b, q, 0) BY <1>6, WaitsBehind
  <2> QED BY <2>1, <2>2
<1>7. CASE v.pendingPullIntos = <<>> /\ v.state = "closed"
  <2>1. t = z
    <3> HIDE DEF f, d, z
    <3> QED BY <1>4, <1>7
  <2>2. r \in 1..Len(v.reads) BY <1>1 DEF Fresh
  <2>3. PICK o \in {Done, Failed} : o = Done OBVIOUS
  <2>4. z = [v EXCEPT !.reads[r] = o] BY <2>3
  <2> HIDE DEF z
  <2>5. PICK i \in 1..Len(v.reads) : i = r BY <2>2
  <2>6. /\ Parts(z, b) /\ Differ(v, z, {"reads"}) /\ LineTo(z, q)
        /\ NoneHead(z) = NoneHead(v) /\ BetweenCalls(z)
    <3>1. Parts(v, b) BY <1>1
    <3>2. LET x == [v EXCEPT !.reads[i] = o]
          IN  /\ Parts(x, b) /\ Differ(v, x, {"reads"})
              /\ \A p : LineTo(v, p) => LineTo(x, p)
              /\ NoneHead(x) = NoneHead(v) /\ (BetweenCalls(v) => BetweenCalls(x))
      BY <3>1, EndsRead
    <3>3. z = [v EXCEPT !.reads[i] = o] BY <2>4, <2>5
    <3> QED BY <1>1, <3>2, <3>3
  <2>7. z.state = "closed" /\ z.failed = FALSE /\ z.reader = TRUE /\ z.byob = TRUE
        /\ z.cancel = s.cancel
    BY <1>1, <1>7, <2>6 DEF Differ, FieldNames
  <2>8. q + 0 = q /\ NoneHead(s) \in {0, 1} BY <1>1 DEF NoneHead
  <2>9. LineGoes(s, z, q, 0) BY <1>1, <1>7, <2>6, <2>7, <2>8 DEF LineGoes
  <2>10. Told(s, z) BY <2>7 DEF Told, readableByteStreamControllerShouldCallPull
  <2>11. Goes(s, z, b, q, 0)
    <3>1. s.reader /\ s.byob /\ z.reader = s.reader /\ z.byob = s.byob BY <1>1, <2>7
    <3>2. NoneHead(z) <= NoneHead(s) BY <2>6, <2>8, <1>1
    <3> QED BY <3>1, <3>2, <2>6, <2>9, <2>10 DEF Goes
  <2>12. z.failed \in BOOLEAN BY <2>7
  <2>13. Call(s, z, b, q, 0) BY <2>7, <2>11, <2>12 DEF Call
  <2> QED BY <2>1, <2>13
<1>8. CASE v.pendingPullIntos = <<>> /\ v.state = "readable"
  <2>1. PICK g \in Nat : Consecutive(v.got, 0, g) /\ Consecutive(v.queue, g, q)
    <3>1. HeadBytes(v) = <<>> BY <1>8 DEF HeadBytes
    <3> QED BY <3>1, <1>1, LineFromQueue
  <2>2. Run(d.bytes, g, g)
    <3>1. Run(<<>>, g, g) BY RunFacts
    <3> QED BY <3>1, <1>5
  <2>3. CASE v.queue = <<>>
    <3>1. t = readableByteStreamControllerCallPullIfNeeded(WaitsInto(v, d, r))
      <4> HIDE DEF f, d, z
      <4> QED BY <1>4, <1>8, <2>3
    <3>2. g = q BY <2>1, <2>3, EmptyLine
    <3>3. ~v.closeRequested BY <1>1, <1>8, <2>3 DEF BetweenCalls
    <3>4. Refilled(d, d) BY <1>5 DEF Refilled
    <3>5. Len(d.bytes) < d.minimumFill BY <1>5 DEF WellMade
    <3>6. Differ(v, v, {"queue", "failed"}) BY <1>2 DEF Differ, Fields
    <3>7. Run(d.bytes, g, q) BY <2>2, <3>2
    <3>8. Call(s, readableByteStreamControllerCallPullIfNeeded(WaitsInto(v, d, r)), b, q, 0)
      <4>1. PICK e : e = d OBVIOUS
      <4>2. Refilled(d, e) /\ Len(e.bytes) < e.minimumFill /\ Run(e.bytes, g, q)
        BY <4>1, <3>4, <3>5, <3>7
      <4>3. v.failed = FALSE BY <1>1
      <4>4. Call(s, readableByteStreamControllerCallPullIfNeeded(WaitsInto(v, e, r)), b, q, 0)
        BY <4>2, <4>3, <1>8, <2>1, <2>3, <3>3, <3>6, WaitsFirst
      <4> QED BY <4>1, <4>4
    <3> QED BY <3>1, <3>8
  <2>4. CASE v.queue # <<>>
    <3> DEFINE y == f.stream
               e == f.descriptor
    <3>1. t = CASE f.ready ->
                     Answer(readableByteStreamControllerHandleQueueDrain(y), r, e.bytes, FALSE)
                [] ~f.ready /\ v.closeRequested ->
                     [readableByteStreamControllerError(y) EXCEPT !.reads[r] = Failed]
                [] ~f.ready /\ ~v.closeRequested ->
                     readableByteStreamControllerCallPullIfNeeded(WaitsInto(y, e, r))
      <4> HIDE DEF f, d, z
      <4> QED BY <1>4, <1>8, <2>4
    <3>2. /\ Differ(v, y, {"queue", "failed"})
          /\ y.failed = (v.failed \/ v.byobRequest)
          /\ y.queue \in Seq(Seq(Nat) \ {<<>>})
          /\ Refilled(d, e) /\ f.ready \in BOOLEAN
          /\ \E m \in Nat : Run(e.bytes, g, m) /\ Consecutive(y.queue, m, q)
          /\ f.ready => Len(e.bytes) >= d.minimumFill /\ Len(e.bytes) % d.elementSize = 0
          /\ ~f.ready => Len(e.bytes) < d.minimumFill /\ y.queue = <<>>
      <4> HIDE DEF d
      <4> QED BY <1>2, <1>5, <2>1, <2>2, <2>4, FillsPullInto
    <3> HIDE DEF f
    <3>3. v.byobRequest = FALSE
      <4>1. v.byobRequest \in BOOLEAN BY <1>2 DEF Fields
      <4>2. ~v.byobRequest BY <1>1, <1>8 DEF Parts, DescriptorInv
      <4> QED BY <4>1, <4>2
    <3>4. y.failed = FALSE BY <1>1, <3>2, <3>3
    <3>5. PICK m \in Nat : Run(e.bytes, g, m) /\ Consecutive(y.queue, m, q) BY <3>2
    <3> HIDE DEF y, e
    <3>6. Took(s, v, y, b, q, r, view, e, g, m)
      BY <3>2, <3>4, <3>5, <1>8, <2>1 DEF Took
    <3>7. CASE f.ready
      <4>1. t = Answer(readableByteStreamControllerHandleQueueDrain(y), r, e.bytes, FALSE)
        BY <3>1, <3>7
      <4>2. Len(e.bytes) >= view.minimumFill /\ Len(e.bytes) % view.elementSize = 0
        BY <3>2, <3>7, <1>5
      <4>3. Call(s, Answer(readableByteStreamControllerHandleQueueDrain(y), r, e.bytes, FALSE),
                 b, q, 0)
        BY <3>6, <4>2, FillsAtOnce
      <4> QED BY <4>1, <4>3
    <3>8. CASE ~f.ready /\ v.closeRequested
      <4>1. t = [readableByteStreamControllerError(y) EXCEPT !.reads[r] = Failed]
        BY <3>1, <3>8
      <4>2. y.queue = <<>> BY <3>2, <3>8
      <4>3. Call(s, [readableByteStreamControllerError(y) EXCEPT !.reads[r] = Failed], b, q, 0)
        BY <3>6, <4>2, TooFewBytes
      <4> QED BY <4>1, <4>3
    <3>9. CASE ~f.ready /\ ~v.closeRequested
      <4>1. t = readableByteStreamControllerCallPullIfNeeded(WaitsInto(y, e, r))
        BY <3>1, <3>9
      <4>2. y.queue = <<>> /\ Len(e.bytes) < d.minimumFill BY <3>2, <3>9
      <4>3. m = q BY <3>5, <4>2, EmptyLine
      <4>4. Run(e.bytes, g, q) BY <3>5, <4>3
      <4>5. Len(e.bytes) < e.minimumFill BY <3>2, <4>2 DEF Refilled
      <4>6. Call(s, readableByteStreamControllerCallPullIfNeeded(WaitsInto(y, e, r)), b, q, 0)
        BY <3>2, <3>4, <3>9, <4>2, <4>4, <4>5, <1>8, <2>1, WaitsFirst
      <4> QED BY <4>1, <4>6
    <3> QED BY <3>7, <3>8, <3>9
  <2> QED BY <2>3, <2>4
<1> QED BY <1>3, <1>6, <1>7, <1>8

\* A BYOB reader reads into a view.
LEMMA ReadsInto ==
  ASSUME NEW s, NEW a, NEW q, Resting(s, a, q), s.reader, s.byob, NEW view, GoodView(view)
  PROVE  Call(s, readableStreamBYOBReaderRead(s, view), Append(a, view), q, 0)
<1> DEFINE v == Added(s, Pending)
           b == Append(a, view)
<1>1. Core(s, a, q) /\ BetweenCalls(s) /\ s.failed = FALSE /\ q \in Nat BY DEF Resting
<1>2. Parts(s, a) /\ LineTo(s, q) /\ Fields(s) BY <1>1 DEF Core, Parts
<1>3. view \in Asks BY DEF GoodView
<1>4. AddRead(s) = v BY DEF AddRead, Added
<1>5. CASE s.state = "errored"
  <2>1. FieldNames \subseteq DOMAIN s BY <1>2 DEF Fields
  <2>2. [AddRead(s) EXCEPT !.reads = Append(s.reads, Failed)] = Added(s, Failed)
    BY <2>1 DEF AddRead, Added, FieldNames
  <2>3. readableStreamBYOBReaderRead(s, view) = Added(s, Failed)
    BY <1>5, <2>2 DEF readableStreamBYOBReaderRead
  <2>4. Failed \in {Done, Failed} OBVIOUS
  <2>5. Call(s, Added(s, Failed), b, q, 0) BY <1>3, <1>5, <2>4, ReadEnds
  <2> QED BY <2>3, <2>5
<1>6. CASE s.state # "errored"
  <2>1. readableStreamBYOBReaderRead(s, view) = readableByteStreamControllerPullInto(v, view)
    <3> HIDE DEF v
    <3> QED BY <1>4, <1>6 DEF readableStreamBYOBReaderRead
  <2>2. PICK n : n = Len(s.got) + 1 OBVIOUS
  <2>3. Pending \in {Pending, Done, Failed} OBVIOUS
  <2>4. /\ Parts(v, b) /\ Differ(s, v, {"reads", "got"})
        /\ Len(v.got) = n /\ Len(v.reads) = n /\ v.got[n] = <<>> /\ b[n] = view /\ n \in Nat
        /\ \A i \in 1..Len(s.readRequests) : s.readRequests[i] < n
        /\ \A i \in 1..Len(s.readIntoRequests) : s.readIntoRequests[i] < n
        /\ LineTo(v, q) /\ NoneHead(v) = NoneHead(s) /\ BetweenCalls(v)
    BY <1>1, <1>2, <1>3, <2>2, <2>3, AddsRead
  <2> HIDE DEF v, b
  <2>5. v.failed = FALSE /\ v.reader = s.reader /\ v.byob = s.byob /\ v.state = s.state
        /\ v.cancel = s.cancel /\ v.pendingPullIntos = s.pendingPullIntos
        /\ v.readRequests = s.readRequests /\ v.readIntoRequests = s.readIntoRequests
        /\ v.pull = s.pull /\ v.pullAgain = s.pullAgain
    BY <1>1, <2>4 DEF Differ, FieldNames
  <2>6. s.reader = TRUE /\ s.byob = TRUE BY <1>2 DEF Fields
  <2>7. n > 0
    <3>1. Len(s.got) \in Nat BY <1>2 DEF Fields
    <3> QED BY <3>1, <2>2
  <2>8. Fresh(v, n) BY <2>4, <2>5, <2>7 DEF Fresh
  <2>9. Incoming(s, v, b, q, n, view) BY <1>1, <2>4, <2>5, <2>6, <2>8 DEF Incoming
  <2>10. v.queue # <<>> => v.pendingPullIntos = <<>> BY <2>4 DEF BetweenCalls
  <2>11. Call(s, readableByteStreamControllerPullInto(v, view), b, q, 0)
    BY <1>6, <2>4, <2>5, <2>9, <2>10, PullsInto
  <2> QED BY <2>1, <2>11 DEF b
<1> QED BY <1>5, <1>6

-----------------------------------------------------------------------------
(* Callbacks, errors, cancel() and close(). *)

\* What is neither about the bytes nor about the readers.
SideFields == {"start", "pull", "pullAgain", "cancel", "byobRequest"}

\* Something that does not touch the bytes or the readers.
LEMMA Touches ==
  ASSUME NEW s, NEW a, NEW q, Resting(s, a, q), NEW t, Differ(s, t, SideFields),
         Fields(t), ControllerInv(t), t.byobRequest => t.pendingPullIntos # <<>>,
         t.cancel = "none" => s.cancel = "none"
  PROVE  /\ KeepsPull(s, t) => Worked(s, t, a, q, 0)
         /\ t.failed = FALSE
         /\ Told(s, t) => Call(s, t, a, q, 0)
<1>1. Core(s, a, q) /\ BetweenCalls(s) /\ s.failed = FALSE /\ q \in Nat BY DEF Resting
<1>2. Parts(s, a) /\ LineTo(s, q) BY <1>1 DEF Core
<1>3. SideFields \cap {"readRequests", "readIntoRequests", "state", "reader", "byob",
                       "got", "pendingPullIntos"} = {}
      /\ SideFields \cap {"got", "reads"} = {}
      /\ SideFields \cap {"got", "pendingPullIntos", "queue"} = {}
      /\ SideFields \cap {"pendingPullIntos", "state", "autoAllocateChunkSize",
                          "readRequests", "queue"} = {}
  BY DEF SideFields
<1>4. RequestInv(t, a) /\ AnswerInv(t, a) /\ LineTo(t, q) /\ (DefaultOnly(s) => DefaultOnly(t))
  BY <1>2, <1>3, Unaffected DEF Parts
<1>5. /\ t.state = s.state /\ t.queue = s.queue /\ t.pendingPullIntos = s.pendingPullIntos
      /\ t.reader = s.reader /\ t.byob = s.byob /\ t.closeRequested = s.closeRequested
      /\ t.failed = FALSE /\ t.readIntoRequests = s.readIntoRequests
  BY <1>1 DEF Differ, FieldNames, SideFields
<1>6. NoneHead(t) = NoneHead(s) /\ NoneHead(s) \in {0, 1} BY <1>5 DEF NoneHead
<1>7. DescriptorInv(t) BY <1>2, <1>5, <1>6 DEF Parts, DescriptorInv
<1>8. BetweenCalls(t) BY <1>1, <1>5 DEF BetweenCalls
<1>9. q + 0 = q BY <1>1
<1>10. LineGoes(s, t, q, 0) BY <1>4, <1>5, <1>9 DEF LineGoes
<1>11. Parts(t, a) BY <1>4, <1>7 DEF Parts
<1>12. NoneHead(t) <= NoneHead(s) BY <1>6
<1>13. ASSUME KeepsPull(s, t) PROVE Worked(s, t, a, q, 0)
  BY <1>13, <1>4, <1>5, <1>8, <1>10, <1>11, <1>12 DEF Worked
<1>14. ASSUME Told(s, t) PROVE Call(s, t, a, q, 0)
  <2>1. Goes(s, t, a, q, 0) BY <1>4, <1>5, <1>8, <1>10, <1>11, <1>12, <1>14 DEF Goes
  <2>2. t.failed \in BOOLEAN BY <1>5
  <2> QED BY <2>1, <2>2, <1>5 DEF Call
<1> QED BY <1>5, <1>13, <1>14

\* The end of a call that asks for more, with no bytes more.
LEMMA EndsAsking ==
  ASSUME NEW s, NEW v, NEW b, NEW q \in Nat, Worked(s, v, b, q, 0)
  PROVE  Call(s, readableByteStreamControllerCallPullIfNeeded(v), b, q, 0)
<1>1. PICK n \in Nat : n = 0 OBVIOUS
<1>2. Worked(s, v, b, q, n) BY <1>1
<1>3. Call(s, readableByteStreamControllerCallPullIfNeeded(v), b, q, n) BY <1>2, EndsWithPull
<1> QED BY <1>1, <1>3

\* The source is given a BYOB request.
LEMMA GetsRequest ==
  ASSUME NEW s, NEW a, NEW q, Resting(s, a, q), s.pendingPullIntos # <<>>
  PROVE  Call(s, [s EXCEPT !.byobRequest = TRUE], a, q, 0)
<1> DEFINE t == [s EXCEPT !.byobRequest = TRUE]
<1>1. Fields(s) /\ ControllerInv(s) BY DEF Resting, Core, Parts
<1>2. Differ(s, t, {"byobRequest"}) /\ t.byobRequest = TRUE
  BY <1>1 DEF Fields, Differ, FieldNames
<1> HIDE DEF t
<1>3. Differ(s, t, SideFields) BY <1>2 DEF Differ, SideFields
<1>4. Fields(t) BY <1>1, <1>2 DEF Fields, Differ, FieldNames
<1>5. ControllerInv(t) BY <1>1, <1>2 DEF ControllerInv, Differ, FieldNames
<1>6. t.pendingPullIntos # <<>> /\ t.cancel = s.cancel BY <1>2 DEF Differ, FieldNames
<1>7. {"byobRequest"} \cap {"state", "closeRequested", "start", "readRequests",
                            "readIntoRequests", "hwm", "queue", "pull"} = {}
  OBVIOUS
<1>8. Told(s, t) BY <1>1, <1>2, <1>7, ToldSame
<1> QED BY <1>3, <1>4, <1>5, <1>6, <1>8, Touches DEF t

\* The start of the source is over.
LEMMA StartResolves ==
  ASSUME NEW s, NEW a, NEW q, Resting(s, a, q), s.start = "pending"
  PROVE  Call(s, readableByteStreamControllerCallPullIfNeeded(
                   [Asserting(s, s.pull = "idle" /\ ~s.pullAgain)
                      EXCEPT !.start = "resolved"]), a, q, 0)
<1> DEFINE y == Asserting(s, s.pull = "idle" /\ ~s.pullAgain)
           t == [y EXCEPT !.start = "resolved"]
<1>1. Fields(s) /\ ControllerInv(s) /\ DescriptorInv(s) /\ s.failed = FALSE /\ q \in Nat
  BY DEF Resting, Core, Parts
<1>2. s.pull = "idle" /\ ~s.pullAgain BY <1>1 DEF ControllerInv
<1>3. Differ(s, y, {}) BY <1>1, <1>2 DEF Fields, Asserting, Differ, FieldNames
<1> HIDE DEF y
<1>4. Differ(s, t, {"start"}) /\ t.start = "resolved" BY <1>3 DEF Differ, FieldNames
<1> HIDE DEF t
<1>5. Differ(s, t, SideFields) BY <1>4 DEF Differ, SideFields
<1>6. Fields(t) BY <1>1, <1>4 DEF Fields, Differ, FieldNames
<1>7. ControllerInv(t) BY <1>1, <1>4 DEF ControllerInv, Differ, FieldNames
<1>8. t.pendingPullIntos = s.pendingPullIntos /\ t.byobRequest = s.byobRequest
      /\ t.cancel = s.cancel /\ t.pull = s.pull
  BY <1>4 DEF Differ, FieldNames
<1>9. t.byobRequest => t.pendingPullIntos # <<>> BY <1>1, <1>8 DEF DescriptorInv
<1>10. KeepsPull(s, t) BY <1>8 DEF KeepsPull
<1>11. Worked(s, t, a, q, 0) BY <1>5, <1>6, <1>7, <1>8, <1>9, <1>10, Touches
<1> QED BY <1>1, <1>11, EndsAsking DEF t, y

\* A pull is over.
LEMMA PullResolves ==
  ASSUME NEW s, NEW a, NEW q, Resting(s, a, q), s.pull = "pending"
  PROVE  LET again == [s EXCEPT !.pull = "idle", !.pullAgain = FALSE]
         IN  Call(s, IF s.pullAgain THEN readableByteStreamControllerCallPullIfNeeded(again)
                     ELSE again, a, q, 0)
<1> DEFINE t == [s EXCEPT !.pull = "idle", !.pullAgain = FALSE]
<1>1. Fields(s) /\ ControllerInv(s) /\ DescriptorInv(s) /\ s.failed = FALSE /\ q \in Nat
  BY DEF Resting, Core, Parts
<1>2. Differ(s, t, PullFields) /\ t.pull = "idle" /\ t.pullAgain = FALSE
  BY <1>1 DEF Fields, Differ, FieldNames, PullFields
<1> SUFFICES Call(s, IF s.pullAgain THEN readableByteStreamControllerCallPullIfNeeded(t)
                     ELSE t, a, q, 0)
  OBVIOUS
<1> HIDE DEF t
<1> DEFINE z == readableByteStreamControllerCallPullIfNeeded(t)
<1>3. Fields(t) BY <1>1, <1>2 DEF Fields, Differ, FieldNames, PullFields
<1>4. ControllerInv(t) BY <1>1, <1>2 DEF ControllerInv, Differ, FieldNames, PullFields
<1>5. Differ(t, z, PullFields) /\ Fields(z) /\ ControllerInv(z) /\ PullGoes(t, z)
  BY <1>3, <1>4, PullsIfNeeded DEF PullFields
<1> HIDE DEF z
<1>6. Differ(s, z, PullFields) BY <1>2, <1>5 DEF Differ
<1>7. ASSUME NEW u, Differ(s, u, PullFields), Fields(u), ControllerInv(u),
             readableByteStreamControllerShouldCallPull(u) => ~s.pullAgain \/ u.pull = "pending"
      PROVE  Call(s, u, a, q, 0)
  <2>1. Differ(s, u, SideFields) BY <1>7 DEF Differ, SideFields, PullFields
  <2>2. u.pendingPullIntos = s.pendingPullIntos /\ u.byobRequest = s.byobRequest
        /\ u.cancel = s.cancel /\ u.state = s.state /\ u.closeRequested = s.closeRequested
        /\ u.start = s.start /\ u.readRequests = s.readRequests /\ u.hwm = s.hwm
        /\ u.readIntoRequests = s.readIntoRequests /\ u.queue = s.queue
    BY <1>7 DEF Differ, FieldNames, PullFields
  <2>3. u.byobRequest => u.pendingPullIntos # <<>> BY <1>1, <2>2 DEF DescriptorInv
  <2>4. readableByteStreamControllerShouldCallPull(u)
          = readableByteStreamControllerShouldCallPull(s)
    BY <2>2 DEF readableByteStreamControllerShouldCallPull, QueueTotalSize
  <2>5. Requests(u) = Requests(s) /\ Requests(s) \in Nat
    BY <1>1, <2>2, CountsRequests DEF Requests
  <2>6. ~(Requests(u) > Requests(s)) BY <2>5
  <2>7. Told(s, u) BY <1>7, <2>4, <2>6 DEF Told
  <2> QED BY <1>7, <2>1, <2>2, <2>3, <2>7, Touches
<1>8. CASE s.pullAgain
  <2>1. Call(s, z, a, q, 0) BY <1>5, <1>6, <1>7 DEF PullGoes
  <2> QED BY <2>1, <1>8 DEF z
<1>9. CASE ~s.pullAgain
  <2>1. Call(s, t, a, q, 0) BY <1>2, <1>3, <1>4, <1>7, <1>9
  <2> QED BY <2>1, <1>9
<1> QED BY <1>8, <1>9

\* The cancel of the source is over.
LEMMA CancelEnds ==
  ASSUME NEW s, NEW a, NEW q, Resting(s, a, q), s.cancel = "pending", NEW ok
  PROVE  Call(s, CancelSettles(s, ok), a, q, 0)
<1> DEFINE t == CancelSettles(s, ok)
<1>1. Fields(s) /\ ControllerInv(s) /\ DescriptorInv(s) BY DEF Resting, Core, Parts
<1>2. Differ(s, t, {"cancel"}) /\ t.cancel # "none"
  BY <1>1 DEF Fields, Differ, FieldNames, CancelSettles
<1> HIDE DEF t
<1>3. Differ(s, t, SideFields) BY <1>2 DEF Differ, SideFields
<1>4. Fields(t) BY <1>1, <1>2 DEF Fields, Differ, FieldNames
<1>5. ControllerInv(t) BY <1>1, <1>2 DEF ControllerInv, Differ, FieldNames
<1>6. t.pendingPullIntos = s.pendingPullIntos /\ t.byobRequest = s.byobRequest
  BY <1>2 DEF Differ, FieldNames
<1>7. t.byobRequest => t.pendingPullIntos # <<>> BY <1>1, <1>6 DEF DescriptorInv
<1>8. {"cancel"} \cap {"state", "closeRequested", "start", "readRequests",
                       "readIntoRequests", "hwm", "queue", "pull"} = {}
  OBVIOUS
<1>9. Told(s, t) BY <1>1, <1>2, <1>8, ToldSame
<1> QED BY <1>2, <1>3, <1>4, <1>5, <1>7, <1>9, Touches DEF t

\* The stream has ended at t, and has given up what it held.
GivenUp(s, t, a, q) ==
  /\ \E g \in Nat : g <= q /\ Core(t, a, g)
  /\ BetweenCalls(t) /\ DefaultOnly(t) /\ t.pendingPullIntos = <<>>
  /\ t.state = "errored" \/ (t.state = "closed" /\ t.cancel # "none")
  /\ t.reader = s.reader /\ t.byob = s.byob /\ t.failed = s.failed

\* A call that ends the stream.
LEMMA EndsCall ==
  ASSUME NEW s, NEW t, NEW a, NEW q, Resting(s, a, q), GivenUp(s, t, a, q)
  PROVE  Call(s, t, a, q, 0)
<1>1. s.failed = FALSE /\ q \in Nat BY DEF Resting
<1>2. PICK g \in Nat : g <= q /\ Core(t, a, g) BY DEF GivenUp
<1>3. /\ BetweenCalls(t) /\ DefaultOnly(t) /\ t.pendingPullIntos = <<>>
      /\ t.state = "errored" \/ (t.state = "closed" /\ t.cancel # "none")
      /\ t.reader = s.reader /\ t.byob = s.byob /\ t.failed = FALSE
  BY <1>1 DEF GivenUp
<1>4. Parts(t, a) /\ LineTo(t, g) BY <1>2 DEF Core
<1>5. NoneHead(t) <= NoneHead(s) BY <1>3 DEF NoneHead
<1>6. g <= q + 0 BY <1>1, <1>2
<1>7. LineGoes(s, t, q, 0) BY <1>3, <1>4, <1>6 DEF LineGoes
<1>8. Told(s, t) BY <1>3 DEF Told, readableByteStreamControllerShouldCallPull
<1>9. Goes(s, t, a, q, 0) BY <1>3, <1>4, <1>5, <1>7, <1>8 DEF Goes
<1>10. t.failed \in BOOLEAN BY <1>3
<1> QED BY <1>3, <1>9, <1>10 DEF Call

\* The source errors the stream.
LEMMA ErrorsBytes ==
  ASSUME NEW s, NEW a, NEW q, Resting(s, a, q), s.state = "readable"
  PROVE  LET t == readableByteStreamControllerError(s)
         IN  GivenUp(s, t, a, q) /\ Differ(s, t, ClearFields) /\ t.state = "errored"
<1> DEFINE t == readableByteStreamControllerError(s)
<1>1. Core(s, a, q) BY DEF Resting
<1>2. /\ \E g \in Nat : g <= q /\ Core(t, a, g)
      /\ BetweenCalls(t) /\ DefaultOnly(t) /\ t.state = "errored"
      /\ Differ(s, t, ClearFields) /\ t.pendingPullIntos = <<>>
  BY <1>1, BytesError
<1> HIDE DEF t
<1>3. t.reader = s.reader /\ t.byob = s.byob /\ t.failed = s.failed
  BY <1>2 DEF Differ, FieldNames, ClearFields, EndFields
<1>4. GivenUp(s, t, a, q) BY <1>2, <1>3 DEF GivenUp
<1> QED BY <1>2, <1>4 DEF t

\* The stream is cancelled.
LEMMA CancelsBytes ==
  ASSUME NEW s, NEW a, NEW q, Resting(s, a, q), s.state = "readable"
  PROVE  Call(s, CancelBytes(s), a, q, 0)
<1> DEFINE t == CancelBytes(s)
<1>1. Core(s, a, q) BY DEF Resting
<1>2. /\ \E g \in Nat : g <= q /\ Core(t, a, g)
      /\ BetweenCalls(t) /\ DefaultOnly(t) /\ t.state = "closed" /\ t.cancel = "pending"
      /\ Differ(s, t, ClearFields) /\ t.pendingPullIntos = <<>>
  BY <1>1, BytesCancel
<1> HIDE DEF t
<1>3. t.reader = s.reader /\ t.byob = s.byob /\ t.failed = s.failed
  BY <1>2 DEF Differ, FieldNames, ClearFields, EndFields
<1>4. GivenUp(s, t, a, q) BY <1>2, <1>3 DEF GivenUp
<1> QED BY <1>4, EndsCall DEF t

\* The source errors the stream with error().
LEMMA ErrorsCall ==
  ASSUME NEW s, NEW a, NEW q, Resting(s, a, q), s.state = "readable"
  PROVE  Call(s, readableByteStreamControllerError(s), a, q, 0)
<1> DEFINE t == readableByteStreamControllerError(s)
<1>1. GivenUp(s, t, a, q) BY ErrorsBytes
<1> HIDE DEF t
<1> QED BY <1>1, EndsCall DEF t

\* The promise of start() or of pull() is rejected: the stream is errored, if it has not
\* ended before.
Rejects(s, z, t, f) ==
  /\ z = readableByteStreamControllerError(s) /\ f \in {"start", "pull"}
  /\ s[f] = "pending" /\ t = [z EXCEPT ![f] = "rejected"]

\* The rejection is a call of its own.
LEMMA RejectsCall ==
  ASSUME NEW s, NEW a, NEW q, Resting(s, a, q), NEW z, NEW t, NEW f, Rejects(s, z, t, f)
  PROVE  Call(s, t, a, q, 0)
<1>1. Core(s, a, q) /\ BetweenCalls(s) /\ s.failed = FALSE /\ q \in Nat BY DEF Resting
<1>2. Parts(s, a) /\ LineTo(s, q) BY <1>1 DEF Core
<1>3. /\ z = readableByteStreamControllerError(s) /\ f \in {"start", "pull"}
      /\ s[f] = "pending" /\ t = [z EXCEPT ![f] = "rejected"]
  BY DEF Rejects
<1>4. CASE s.state # "readable"
  <2>1. z = s BY <1>3, <1>4 DEF readableByteStreamControllerError
  <2>2. Differ(s, t, {f}) /\ t[f] = "rejected"
    BY <1>2, <1>3, <2>1 DEF Parts, Fields, Differ, FieldNames
  <2>3. Differ(s, t, SideFields) BY <2>2, <1>3 DEF Differ, SideFields
  <2>4. Fields(t) BY <1>2, <1>3, <2>2 DEF Parts, Fields, Differ, FieldNames
  <2>5. ControllerInv(t) BY <1>2, <1>3, <1>4, <2>2 DEF Parts, ControllerInv, Differ, FieldNames
  <2>6. t.pendingPullIntos = s.pendingPullIntos /\ t.byobRequest = s.byobRequest
        /\ t.cancel = s.cancel /\ t.state = s.state
    BY <2>2, <1>3 DEF Differ, FieldNames
  <2>7. t.byobRequest => t.pendingPullIntos # <<>> BY <1>2, <2>6 DEF Parts, DescriptorInv
  <2>8. Told(s, t) BY <1>4, <2>6 DEF Told, readableByteStreamControllerShouldCallPull
  <2> QED BY <2>3, <2>4, <2>5, <2>6, <2>7, <2>8, Touches
<1>5. CASE s.state = "readable"
  <2>1. GivenUp(s, z, a, q) /\ Differ(s, z, ClearFields) /\ z.state = "errored"
    BY <1>3, <1>5, ErrorsBytes
  <2>2. /\ BetweenCalls(z) /\ DefaultOnly(z) /\ z.pendingPullIntos = <<>>
        /\ z.reader = s.reader /\ z.byob = s.byob /\ z.failed = s.failed
    BY <2>1 DEF GivenUp
  <2>3. PICK g \in Nat : g <= q /\ Core(z, a, g) BY <2>1 DEF GivenUp
  <2>4. Parts(z, a) /\ LineTo(z, g) BY <2>3 DEF Core
  <2>5. Differ(z, t, {f}) /\ t[f] = "rejected"
    BY <1>3, <2>4 DEF Parts, Fields, Differ, FieldNames
  <2>6. z.start = s.start /\ z.pull = s.pull
    BY <2>1 DEF Differ, FieldNames, ClearFields, EndFields
  <2>7. Fields(t) BY <1>3, <2>4, <2>5 DEF Parts, Fields, Differ, FieldNames
  <2>8. /\ t.pendingPullIntos = z.pendingPullIntos /\ t.reader = z.reader /\ t.byob = z.byob
        /\ t.failed = z.failed /\ t.state = z.state
    BY <1>3, <2>5 DEF Differ, FieldNames
  <2>9. ControllerInv(t)
    BY <1>3, <2>1, <2>4, <2>5, <2>6 DEF Parts, ControllerInv, Differ, FieldNames
  <2>10. /\ {f} \cap {"byobRequest", "pendingPullIntos", "reader", "byob",
                      "readIntoRequests"} = {}
         /\ {f} \cap {"readRequests", "readIntoRequests", "state", "reader", "byob", "got",
                      "pendingPullIntos"} = {}
         /\ {f} \cap {"got", "reads"} = {} /\ {f} \cap {"got", "pendingPullIntos", "queue"} = {}
         /\ {f} \cap {"pendingPullIntos", "state", "autoAllocateChunkSize", "readRequests",
                      "queue"} = {}
    BY <1>3
  <2>11. /\ DescriptorInv(t) /\ RequestInv(t, a) /\ AnswerInv(t, a) /\ LineTo(t, g)
         /\ DefaultOnly(t)
    BY <2>2, <2>4, <2>5, <2>10, Unaffected DEF Parts
  <2>12. Core(t, a, g) BY <2>7, <2>9, <2>11 DEF Core, Parts
  <2>13. BetweenCalls(t) BY <2>1, <2>8, <2>2 DEF BetweenCalls
  <2>14. GivenUp(s, t, a, q) BY <2>1, <2>2, <2>3, <2>8, <2>11, <2>12, <2>13 DEF GivenUp
  <2> QED BY <2>14, EndsCall
<1> QED BY <1>4, <1>5

\* The source closes the stream while bytes wait.
LEMMA ClosesLater ==
  ASSUME NEW s, NEW a, NEW q, Resting(s, a, q), s.queue # <<>>
  PROVE  Call(s, [s EXCEPT !.closeRequested = TRUE], a, q, 0)
<1> DEFINE t == [s EXCEPT !.closeRequested = TRUE]
           F == {"closeRequested"}
<1>1. Core(s, a, q) /\ BetweenCalls(s) /\ s.failed = FALSE /\ q \in Nat BY DEF Resting
<1>2. Parts(s, a) /\ LineTo(s, q) BY <1>1 DEF Core
<1>3. Differ(s, t, F) /\ t.closeRequested = TRUE
  BY <1>2 DEF Parts, Fields, Differ, FieldNames
<1> HIDE DEF t
<1>4. Fields(t) BY <1>2, <1>3 DEF Parts, Fields, Differ, FieldNames
<1>5. ControllerInv(t) BY <1>2, <1>3 DEF Parts, ControllerInv, Differ, FieldNames
<1>6. /\ F \cap {"byobRequest", "pendingPullIntos", "reader", "byob", "readIntoRequests"} = {}
      /\ F \cap {"readRequests", "readIntoRequests", "state", "reader", "byob", "got",
                 "pendingPullIntos"} = {}
      /\ F \cap {"got", "reads"} = {} /\ F \cap {"got", "pendingPullIntos", "queue"} = {}
      /\ F \cap {"pendingPullIntos", "state", "autoAllocateChunkSize", "readRequests",
                 "queue"} = {}
  OBVIOUS
<1>7. t.state = s.state /\ t.queue = s.queue /\ t.pendingPullIntos = s.pendingPullIntos
      /\ t.reader = s.reader /\ t.byob = s.byob /\ t.failed = FALSE /\ t.cancel = s.cancel
  BY <1>1, <1>3 DEF Differ, FieldNames
<1> HIDE DEF F
<1>8. DescriptorInv(t) /\ RequestInv(t, a) /\ AnswerInv(t, a) /\ LineTo(t, q)
      /\ (DefaultOnly(s) => DefaultOnly(t))
  BY <1>2, <1>3, <1>6, Unaffected DEF Parts
<1>9. Parts(t, a) BY <1>4, <1>5, <1>8 DEF Parts
<1>10. BetweenCalls(t) BY <1>1, <1>7 DEF BetweenCalls
<1>11. NoneHead(t) <= NoneHead(s) BY <1>7 DEF NoneHead
<1>12. q + 0 = q BY <1>1
<1>13. LineGoes(s, t, q, 0) BY <1>7, <1>8, <1>12 DEF LineGoes
<1>14. Told(s, t) BY <1>3 DEF Told, readableByteStreamControllerShouldCallPull
<1>15. Goes(s, t, a, q, 0) BY <1>7, <1>8, <1>9, <1>10, <1>11, <1>13, <1>14 DEF Goes
<1>16. t.failed \in BOOLEAN BY <1>7
<1> QED BY <1>7, <1>15, <1>16 DEF Call, t

\* The source closes the stream while no byte waits; the descriptor under way has whole
\* elements.
LEMMA ClosesNow ==
  ASSUME NEW s, NEW a, NEW q, Resting(s, a, q), s.state = "readable", s.queue = <<>>,
         s.pendingPullIntos # <<>> =>
           Len(s.pendingPullIntos[1].bytes) % s.pendingPullIntos[1].elementSize = 0
  PROVE  Call(s, readableStreamClose([s EXCEPT !.algorithms = FALSE]), a, q, 0)
<1> DEFINE t == readableStreamClose([s EXCEPT !.algorithms = FALSE])
<1>1. Core(s, a, q) /\ BetweenCalls(s) /\ s.failed = FALSE /\ q \in Nat BY DEF Resting
<1>2. Parts(s, a) /\ LineTo(s, q) BY <1>1 DEF Core
<1>3. /\ Parts(t, a) /\ t.state = "closed" /\ t.readRequests = <<>>
      /\ Differ(s, t, EndFields)
  BY <1>2, BytesClose
<1> HIDE DEF t
<1>4. t.queue = <<>> /\ t.pendingPullIntos = s.pendingPullIntos
      /\ t.reader = s.reader /\ t.byob = s.byob /\ t.failed = FALSE /\ t.cancel = s.cancel
  BY <1>1, <1>3 DEF Differ, FieldNames, EndFields
<1>5. EndFields \cap {"got", "pendingPullIntos", "queue"} = {} BY DEF EndFields
<1>6. LineTo(t, q) BY <1>2, <1>3, <1>5, Unaffected
<1>7. DefaultOnly(s) => DefaultOnly(t) BY <1>3, <1>4 DEF DefaultOnly
<1>8. BetweenCalls(t) BY <1>3, <1>4 DEF BetweenCalls
<1>9. NoneHead(t) <= NoneHead(s) BY <1>4 DEF NoneHead
<1>10. q + 0 = q BY <1>1
<1>11. LineGoes(s, t, q, 0) BY <1>3, <1>4, <1>6, <1>10 DEF LineGoes
<1>12. Told(s, t) BY <1>3 DEF Told, readableByteStreamControllerShouldCallPull
<1>13. Goes(s, t, a, q, 0) BY <1>3, <1>4, <1>7, <1>8, <1>9, <1>11, <1>12 DEF Goes
<1>14. t.failed \in BOOLEAN BY <1>4
<1> QED BY <1>4, <1>13, <1>14 DEF Call, t

\* The source closes the stream.
LEMMA ClosesBytes ==
  ASSUME NEW s, NEW a, NEW q, Resting(s, a, q), s.state = "readable"
  PROVE  Call(s, readableByteStreamControllerClose(s), a, q, 0)
<1> DEFINE p == s.pendingPullIntos
           mis == p # <<>> /\ Len(p[1].bytes) % p[1].elementSize # 0
           z == readableStreamClose([s EXCEPT !.algorithms = FALSE])
           l == [s EXCEPT !.closeRequested = TRUE]
           e == readableByteStreamControllerError(s)
<1>1. Fields(s) BY DEF Resting, Core, Parts
<1>2. p # <<>> => Head(p) = p[1] BY <1>1 DEF Fields
<1>3. readableByteStreamControllerClose(s)
        = IF s.queue # <<>> THEN l ELSE IF mis THEN e ELSE z
  BY <1>2 DEF readableByteStreamControllerClose
<1>4. CASE s.queue # <<>>
  <2>1. Call(s, l, a, q, 0) BY <1>4, ClosesLater
  <2> HIDE DEF l, e, z, mis
  <2> QED BY <2>1, <1>3, <1>4
<1>5. CASE s.queue = <<>> /\ mis
  <2>1. Call(s, e, a, q, 0) BY ErrorsCall
  <2> HIDE DEF l, e, z, mis
  <2> QED BY <2>1, <1>3, <1>5
<1>6. CASE s.queue = <<>> /\ ~mis
  <2>1. Call(s, z, a, q, 0) BY <1>6, ClosesNow
  <2> HIDE DEF l, e, z, mis
  <2> QED BY <2>1, <1>3, <1>6
<1> QED BY <1>4, <1>5, <1>6

\* The source transfers the buffer of the descriptor under way.
LEMMA TransfersView ==
  ASSUME NEW s, NEW a, NEW q, Resting(s, a, q), s.pendingPullIntos # <<>>
  PROVE  Call(s, [s EXCEPT !.pendingPullIntos[1].detached = TRUE], a, q, 0)
<1> DEFINE v == [s EXCEPT !.pendingPullIntos[1].detached = TRUE]
           p == s.pendingPullIntos
           e == [p[1] EXCEPT !.detached = TRUE]
<1>1. Core(s, a, q) /\ BetweenCalls(s) /\ s.failed = FALSE /\ q \in Nat BY DEF Resting
<1>2. Parts(s, a) /\ LineTo(s, q) BY <1>1 DEF Core
<1>3. Fields(s) /\ DescriptorInv(s) BY <1>2 DEF Parts
<1>4. p \in Seq(Descriptors) /\ p[1] \in Descriptors /\ 1 \in 1..Len(p) /\ Len(p) \in Nat
  BY <1>3, PendingTail DEF Fields
<1>5. /\ Differ(s, v, {"pendingPullIntos"})
      /\ v.pendingPullIntos = [p EXCEPT ![1] = e]
  BY <1>3, <1>4 DEF Fields, Differ, FieldNames
<1> HIDE DEF v
<1>6. Refilled(p[1], e) /\ e.bytes = p[1].bytes
  BY <1>4 DEF Refilled, Descriptors
<1>7. WellMade(e)
  <2>1. WellMade(p[1]) BY <1>3, <1>4 DEF DescriptorInv
  <2> QED BY <2>1, <1>6 DEF WellMade, Refilled
<1> HIDE DEF e
<1>8. v.failed \in BOOLEAN /\ v.byobRequest \in BOOLEAN /\ v.queue = s.queue
      /\ v.queue \in Seq(Seq(Nat) \ {<<>>}) /\ v.got = s.got /\ v.state = s.state
      /\ v.readRequests = s.readRequests /\ v.autoAllocateChunkSize = s.autoAllocateChunkSize
      /\ v.reader = s.reader /\ v.byob = s.byob /\ v.failed = FALSE /\ v.cancel = s.cancel
      /\ v.closeRequested = s.closeRequested
  BY <1>1, <1>3, <1>5 DEF Fields, Differ, FieldNames
<1>9. Differ(s, v, ShiftFields) BY <1>5 DEF Differ, ShiftFields
<1>10. s.state # "readable" => v.queue = <<>> BY <1>2, <1>8 DEF Parts, ControllerInv
<1>11. Replaces(s, v, e) BY <1>5, <1>6, <1>7, <1>8, <1>9, <1>10 DEF Replaces
<1>12. /\ Parts(v, a) /\ NoneHead(v) = NoneHead(s) /\ HeadBytes(v) = e.bytes
       /\ v.pendingPullIntos # <<>> /\ v.pendingPullIntos[1] = e
       /\ Len(v.pendingPullIntos) = Len(s.pendingPullIntos)
       /\ \A i \in 2..Len(s.pendingPullIntos) : v.pendingPullIntos[i] = s.pendingPullIntos[i]
  BY <1>2, <1>11, HeadReplaced
<1>13. HeadBytes(v) = HeadBytes(s) BY <1>6, <1>12 DEF HeadBytes
<1>14. ASSUME DefaultOnly(s) PROVE DefaultOnly(v)
  <2>1. ASSUME NEW i \in 1..Len(v.pendingPullIntos)
        PROVE  v.pendingPullIntos[i].elementSize = 1 /\ v.pendingPullIntos[i].minimumFill = 1
    <3>1. p[i].elementSize = 1 /\ p[i].minimumFill = 1 BY <1>12, <1>14 DEF DefaultOnly
    <3>2. CASE i = 1 BY <3>1, <3>2, <1>6, <1>12 DEF Refilled
    <3>3. CASE i # 1
      <4>1. i \in 2..Len(p) BY <3>3, <1>4, <1>12
      <4> QED BY <4>1, <3>1, <1>12
    <3> QED BY <3>2, <3>3
  <2> QED BY <2>1, <1>8, <1>12, <1>14 DEF DefaultOnly
<1>15. LineTo(v, q) BY <1>2, <1>8, <1>13 DEF LineTo
<1>16. BetweenCalls(v)
  <2>1. e.elementSize = p[1].elementSize BY <1>6 DEF Refilled
  <2> QED BY <2>1, <1>1, <1>6, <1>8, <1>12 DEF BetweenCalls
<1>17. {"pendingPullIntos"} \cap {"state", "closeRequested", "start", "readRequests",
                                  "readIntoRequests", "hwm", "queue", "pull"} = {}
  OBVIOUS
<1>18. Told(s, v) BY <1>2, <1>5, <1>17, ToldSame DEF Parts
<1>19. NoneHead(v) <= NoneHead(s) BY <1>12 DEF NoneHead
<1>20. q + 0 = q BY <1>1
<1>21. LineGoes(s, v, q, 0) BY <1>8, <1>15, <1>20 DEF LineGoes
<1>22. Goes(s, v, a, q, 0) BY <1>8, <1>12, <1>14, <1>16, <1>18, <1>19, <1>21 DEF Goes
<1> QED BY <1>8, <1>22 DEF Call, v

-----------------------------------------------------------------------------
(* Calls and the history of the stream. *)

\* The stream holds the first q of the p bytes.
Holding(s, a, p, r, q) ==
  /\ Sound(s, a, p, r) /\ s.failed = FALSE /\ Resting(s, a, q)
  /\ q <= p /\ (Whole(s, r) => q = p)

\* It always does, for some q.
LEMMA HoldsSome ==
  ASSUME NEW s, NEW a, NEW p, NEW r, Sound(s, a, p, r), ~s.failed
  PROVE  \E q \in Nat : Holding(s, a, p, r, q)
<1>1. BetweenCalls(s) /\ HistoryInv(s, p, r) BY DEF Sound
<1>2. Parts(s, a) BY DEF Sound, Core
<1>3. PICK q \in Nat : q <= p /\ LineTo(s, q) /\ (Whole(s, r) => q = p)
  BY <1>1 DEF HistoryInv
<1>4. s.failed = FALSE BY <1>2 DEF Parts, Fields
<1>5. Core(s, a, q) BY <1>2, <1>3 DEF Core
<1>6. Resting(s, a, q) BY <1>1, <1>4, <1>5 DEF Resting
<1> QED BY <1>3, <1>4, <1>6 DEF Holding

\* A call that does not fail keeps the invariant.
LEMMA CallKeeps ==
  ASSUME NEW s, NEW a, NEW p, NEW r, NEW q \in Nat, Holding(s, a, p, r, q), NEW t, NEW b,
         NEW n \in Nat, Call(s, t, b, q, n), ~t.failed, p + n <= MaxBytes
  PROVE  Sound(t, b, p + n, r)
<1>1. q <= p /\ (Whole(s, r) => q = p) /\ HistoryInv(s, p, r) BY DEF Holding, Sound
<1>2. /\ Parts(t, b) /\ BetweenCalls(t)
      /\ t.reader = s.reader /\ t.byob = s.byob /\ NoneHead(t) <= NoneHead(s)
      /\ DefaultOnly(s) /\ ~(s.reader /\ s.byob) => DefaultOnly(t)
      /\ LineGoes(s, t, q, n)
  BY DEF Call, Goes
<1>3. /\ p \in 0..MaxBytes /\ r \in Seq({"default", "byob"})
      /\ s.reader => r # <<>> /\ s.byob = (r[Len(r)] = "byob")
      /\ NoneHead(s) = 1 => Len(r) >= (IF s.reader THEN 2 ELSE 1)
      /\ (\A i \in 1..Len(r) : r[i] = "default") => DefaultOnly(s)
  BY <1>1 DEF HistoryInv
<1>4. p \in Nat /\ MaxBytes \in Nat BY <1>3, ByteAssumption
<1>5. p + n \in 0..MaxBytes BY <1>4
<1>6. NoneHead(t) \in {0, 1} /\ NoneHead(s) \in {0, 1} BY DEF NoneHead
<1>7. NoneHead(t) = 1 => Len(r) >= (IF t.reader THEN 2 ELSE 1) BY <1>2, <1>3, <1>6
<1>8. \E g \in Nat : g <= p + n /\ LineTo(t, g) /\ (Whole(t, r) => g = p + n)
  <2>1. CASE /\ LineTo(t, q + n) /\ (t.state = "readable" => s.state = "readable")
             /\ t.state = "closed" /\ t.cancel = "none" =>
                  s.state = "readable" \/ (s.state = "closed" /\ s.cancel = "none")
    <3>1. Whole(t, r) => Whole(s, r) BY <2>1, <1>2 DEF Whole
    <3>2. q + n \in Nat /\ q + n <= p + n /\ (Whole(t, r) => q + n = p + n)
      BY <3>1, <1>1, <1>4
    <3> QED BY <2>1, <3>2
  <2>2. CASE /\ \E g \in Nat : g <= q + n /\ LineTo(t, g)
             /\ t.state # "readable"
             /\ t.state = "errored" \/ t.cancel # "none" \/ NoneHead(s) = 1
    <3>1. PICK g \in Nat : g <= q + n /\ LineTo(t, g) BY <2>2
    <3>2. g <= p + n BY <3>1, <1>1, <1>4
    <3>3. ~Whole(t, r)
      <4>1. CASE t.state = "errored" \/ t.cancel # "none" BY <4>1, <2>2 DEF Whole
      <4>2. CASE NoneHead(s) = 1 /\ s.reader
        <5>1. Len(r) >= 2 /\ Len(r) \in Nat BY <4>2, <1>3
        <5>2. ~(Len(r) <= 1) BY <5>1
        <5> QED BY <5>2, <2>2 DEF Whole
      <4>3. CASE NoneHead(s) = 1 /\ ~s.reader
        <5>1. Len(r) >= 1 BY <4>3, <1>3
        <5>2. r # <<>> BY <5>1
        <5> QED BY <5>2, <2>2, <4>3, <1>2 DEF Whole
      <4> QED BY <4>1, <4>2, <4>3, <2>2
    <3> QED BY <3>1, <3>2, <3>3
  <2> QED BY <2>1, <2>2, <1>2 DEF LineGoes
<1>9. ASSUME \A i \in 1..Len(r) : r[i] = "default" PROVE DefaultOnly(t)
  <2>1. s.reader => ~s.byob
    <3>1. SUFFICES ASSUME s.reader PROVE ~s.byob OBVIOUS
    <3>2. r # <<>> /\ s.byob = (r[Len(r)] = "byob") BY <3>1, <1>3
    <3>3. Len(r) \in 1..Len(r) BY <3>2, <1>3
    <3>4. r[Len(r)] # "byob" BY <3>3, <1>9
    <3> QED BY <3>2, <3>4
  <2> QED BY <2>1, <1>2, <1>3, <1>9
<1>10. t.reader => r # <<>> /\ t.byob = (r[Len(r)] = "byob") BY <1>2, <1>3
<1>11. HistoryInv(t, p + n, r) BY <1>3, <1>5, <1>7, <1>8, <1>9, <1>10 DEF HistoryInv
<1>12. \E g \in Nat : Core(t, b, g) BY <1>2, <1>8 DEF Core
<1> QED BY <1>2, <1>11, <1>12 DEF Sound

\* A call that fails leaves the stream as it was.
LEMMA FailureKeeps ==
  ASSUME NEW s, NEW a, NEW p, NEW r, Sound(s, a, p, r),
         s.reader /\ ~s.byob /\ ~DefaultOnly(s)
  PROVE  Sound([s EXCEPT !.failed = TRUE], a, p, r)
<1> DEFINE t == [s EXCEPT !.failed = TRUE]
           F == {"failed"}
<1>1. PICK q \in Nat : Core(s, a, q) BY DEF Sound
<1>2. BetweenCalls(s) /\ HistoryInv(s, p, r) BY DEF Sound
<1>3. Parts(s, a) /\ LineTo(s, q) BY <1>1 DEF Core
<1>4. Differ(s, t, F) /\ t.failed = TRUE BY <1>3 DEF Parts, Fields, Differ, FieldNames
<1> HIDE DEF t
<1>5. Fields(t) BY <1>3, <1>4 DEF Parts, Fields, Differ, FieldNames
<1>6. ControllerInv(t) BY <1>3, <1>4 DEF Parts, ControllerInv, Differ, FieldNames
<1>7. /\ F \cap {"byobRequest", "pendingPullIntos", "reader", "byob", "readIntoRequests"} = {}
      /\ F \cap {"readRequests", "readIntoRequests", "state", "reader", "byob", "got",
                 "pendingPullIntos"} = {}
      /\ F \cap {"got", "reads"} = {} /\ F \cap {"got", "pendingPullIntos", "queue"} = {}
      /\ F \cap {"pendingPullIntos", "state", "autoAllocateChunkSize", "readRequests",
                 "queue"} = {}
  OBVIOUS
<1>8. t.state = s.state /\ t.queue = s.queue /\ t.pendingPullIntos = s.pendingPullIntos
      /\ t.reader = s.reader /\ t.byob = s.byob /\ t.cancel = s.cancel
      /\ t.closeRequested = s.closeRequested /\ t.readRequests = s.readRequests
      /\ t.autoAllocateChunkSize = s.autoAllocateChunkSize
  BY <1>4 DEF Differ, FieldNames
<1> HIDE DEF F
<1>9. DescriptorInv(t) /\ RequestInv(t, a) /\ AnswerInv(t, a)
      /\ (\A g : LineTo(s, g) => LineTo(t, g)) /\ (DefaultOnly(s) => DefaultOnly(t))
  BY <1>3, <1>4, <1>7, Unaffected DEF Parts
<1>10. Core(t, a, q) BY <1>3, <1>5, <1>6, <1>9 DEF Core, Parts
<1>11. BetweenCalls(t) BY <1>2, <1>8 DEF BetweenCalls
<1>12. NoneHead(t) = NoneHead(s) /\ (Whole(t, r) <=> Whole(s, r)) BY <1>8 DEF NoneHead, Whole
<1>13. ~DefaultOnly(t)
  <2>1. DefaultOnly(t) => DefaultOnly(s)
    <3>1. NoneHead(t) = NoneHead(s) BY <1>12
    <3> QED BY <3>1, <1>8 DEF DefaultOnly
  <2> QED BY <2>1
<1>14. HistoryInv(t, p, r)
  <2>1. \E g \in Nat : g <= p /\ LineTo(t, g) /\ (Whole(t, r) => g = p)
    BY <1>2, <1>9, <1>12 DEF HistoryInv
  <2>2. t.reader /\ ~t.byob /\ ~DefaultOnly(t) BY <1>8, <1>13
  <2>3. /\ p \in 0..MaxBytes /\ r \in Seq({"default", "byob"})
        /\ t.reader => r # <<>> /\ t.byob = (r[Len(r)] = "byob")
        /\ NoneHead(t) = 1 => Len(r) >= (IF t.reader THEN 2 ELSE 1)
        /\ ~\A i \in 1..Len(r) : r[i] = "default"
    BY <1>2, <1>8, <1>12 DEF HistoryInv
  <2> QED BY <2>1, <2>2, <2>3 DEF HistoryInv
<1> QED BY <1>10, <1>11, <1>14 DEF Sound, t

\* The descriptor under way stays, without its reader.
Orphaned(s) ==
  [s EXCEPT !.pendingPullIntos =
     IF @ = <<>> THEN @ ELSE <<[Head(@) EXCEPT !.readerType = "none"]>>]

\* Its bytes and sizes are as before.
LEMMA OrphansHead ==
  ASSUME NEW s, Fields(s), DescriptorInv(s)
  PROVE  LET u == Orphaned(s)
         IN  /\ Differ(s, u, {"pendingPullIntos"}) /\ Fields(u)
             /\ HeadBytes(u) = HeadBytes(s)
             /\ (u.pendingPullIntos = <<>>) = (s.pendingPullIntos = <<>>)
             /\ s.pendingPullIntos # <<>> =>
                  /\ Len(u.pendingPullIntos) = 1 /\ WellMade(u.pendingPullIntos[1])
                  /\ u.pendingPullIntos[1].readerType = "none"
                  /\ u.pendingPullIntos[1].elementSize = s.pendingPullIntos[1].elementSize
                  /\ u.pendingPullIntos[1].minimumFill = s.pendingPullIntos[1].minimumFill
<1> DEFINE u == Orphaned(s)
           p == s.pendingPullIntos
           e == [p[1] EXCEPT !.readerType = "none"]
<1>1. p \in Seq(Descriptors) BY DEF Fields
<1>2. CASE p = <<>>
  <2>1. Differ(s, u, {}) BY <1>2 DEF Orphaned, Fields, Differ, FieldNames
  <2> HIDE DEF u
  <2>2. Differ(s, u, {"pendingPullIntos"}) /\ u.pendingPullIntos = p
    BY <2>1 DEF Differ, FieldNames
  <2>3. Fields(u) BY <2>1 DEF Fields, Differ, FieldNames
  <2> QED BY <1>2, <2>2, <2>3 DEF HeadBytes, u
<1>3. CASE p # <<>>
  <2>1. p[1] \in Descriptors /\ 1 \in 1..Len(p) /\ Head(p) = p[1] BY <1>3, PendingTail
  <2>2. e \in Descriptors /\ e.readerType = "none" /\ e.elementSize = p[1].elementSize
        /\ e.minimumFill = p[1].minimumFill /\ e.bytes = p[1].bytes
        /\ e.byteLength = p[1].byteLength
    BY <2>1 DEF Descriptors
  <2>3. WellMade(p[1]) BY <2>1 DEF DescriptorInv
  <2>4. Differ(s, u, {"pendingPullIntos"}) /\ u.pendingPullIntos = <<e>>
    BY <1>3, <2>1 DEF Orphaned, Fields, Differ, FieldNames
  <2> HIDE DEF u, e
  <2>5. WellMade(e) BY <2>2, <2>3 DEF WellMade
  <2>6. <<e>> \in Seq(Descriptors) /\ Len(<<e>>) = 1 /\ <<e>>[1] = e /\ <<e>> # <<>> BY <2>2
  <2>7. Fields(u) BY <2>4, <2>6 DEF Fields, Differ, FieldNames
  <2>8. HeadBytes(u) = HeadBytes(s) BY <1>3, <2>2, <2>4, <2>6 DEF HeadBytes
  <2> QED BY <1>3, <2>2, <2>4, <2>5, <2>6, <2>7, <2>8 DEF u
<1> QED BY <1>2, <1>3

ReleaseFields == {"pendingPullIntos", "reads", "readRequests", "reader", "closed",
                  "readIntoRequests"}

\* What is left of the stream when its reader is released.
LEMMA Releases ==
  ASSUME NEW s, NEW a, Parts(s, a), s.reader, s.failed = FALSE
  PROVE  LET t == ReleaseBytes(s)
         IN  /\ Differ(s, t, ReleaseFields) /\ Fields(t) /\ AnswerInv(t, a)
             /\ t.pendingPullIntos = Orphaned(s).pendingPullIntos
             /\ t.readRequests = <<>> /\ t.readIntoRequests = <<>> /\ t.reader = FALSE
             /\ t.failed = FALSE
<1> DEFINE u == Orphaned(s)
           x == Asserting(u, u.reader)
           y == SettleReads(x, Failed)
           z == [y EXCEPT !.reader = FALSE, !.closed = "rejected"]
           t == SettleReadIntos(z, Failed)
<1>1. ReleaseBytes(s) = t BY DEF ReleaseBytes, readableStreamDefaultReaderRelease, Orphaned
<1>2. Differ(s, u, {"pendingPullIntos"}) /\ Fields(u) BY OrphansHead DEF Parts
<1> HIDE DEF u
<1>3. u.reader /\ u.failed = FALSE BY <1>2 DEF Differ, FieldNames
<1>4. {"pendingPullIntos"} \cap {"got", "reads"} = {} OBVIOUS
<1>5. AnswerInv(u, a) BY <1>2, <1>4, Unaffected DEF Parts
<1>6. Differ(u, x, {}) /\ Fields(x) /\ AnswerInv(x, a)
  <2>1. Differ(u, x, {}) BY <1>2, <1>3 DEF Asserting, Fields, Differ, FieldNames
  <2> HIDE DEF x
  <2>2. Fields(x) BY <1>2, <2>1 DEF Fields, Differ, FieldNames
  <2>3. {} \cap {"got", "reads"} = {} OBVIOUS
  <2>4. AnswerInv(x, a) BY <1>5, <2>1, <2>3, Unaffected
  <2> QED BY <2>1, <2>2, <2>4
<1> HIDE DEF x
<1>7. /\ Differ(x, y, {"reads", "readRequests"}) /\ y.readRequests = <<>>
      /\ Fields(y) /\ AnswerInv(y, a)
  BY <1>6, SettlesReads
<1> HIDE DEF y
<1>8. Differ(y, z, {"reader", "closed"}) /\ z.reader = FALSE
  BY <1>7 DEF Fields, Differ, FieldNames
<1> HIDE DEF z
<1>9. Fields(z) BY <1>7, <1>8, ZenonT(60) DEF Fields, Differ, FieldNames
<1>10. {"reader", "closed"} \cap {"got", "reads"} = {} OBVIOUS
<1>11. AnswerInv(z, a) BY <1>7, <1>8, <1>10, Unaffected
<1>12. /\ Differ(z, t, {"reads", "readIntoRequests"}) /\ t.readIntoRequests = <<>>
       /\ Fields(t) /\ AnswerInv(t, a)
  BY <1>9, <1>11, SettlesReads
<1> HIDE DEF t
<1>13. Differ(s, t, ReleaseFields) /\ t.pendingPullIntos = u.pendingPullIntos
       /\ t.readRequests = <<>> /\ t.reader = FALSE /\ t.failed = FALSE
  BY <1>2, <1>3, <1>6, <1>7, <1>8, <1>12 DEF Differ, FieldNames, ReleaseFields
<1> QED BY <1>1, <1>12, <1>13 DEF u

\* releaseLock() keeps the invariant, and does not make the stream want bytes.
LEMMA ReleaseKeeps ==
  ASSUME NEW s, NEW a, NEW p, NEW r, Sound(s, a, p, r), s.reader, ~s.failed
  PROVE  LET t == ReleaseBytes(s)
         IN  ~t.failed /\ Sound(t, a, p, r) /\ Told(s, t)
<1> DEFINE t == ReleaseBytes(s)
<1>1. PICK q \in Nat : Core(s, a, q) BY DEF Sound
<1>2. BetweenCalls(s) /\ HistoryInv(s, p, r) BY DEF Sound
<1>3. Parts(s, a) /\ LineTo(s, q) BY <1>1 DEF Core
<1>4. Fields(s) /\ ControllerInv(s) /\ DescriptorInv(s) /\ s.failed = FALSE
  BY <1>3 DEF Parts, Fields
<1>5. /\ Differ(s, t, ReleaseFields) /\ Fields(t) /\ AnswerInv(t, a)
      /\ t.pendingPullIntos = Orphaned(s).pendingPullIntos
      /\ t.readRequests = <<>> /\ t.readIntoRequests = <<>> /\ t.reader = FALSE
      /\ t.failed = FALSE
  BY <1>3, <1>4, Releases
<1> HIDE DEF t
<1>6. /\ HeadBytes(t) = HeadBytes(s)
      /\ (t.pendingPullIntos = <<>>) = (s.pendingPullIntos = <<>>)
      /\ s.pendingPullIntos # <<>> =>
           /\ Len(t.pendingPullIntos) = 1 /\ WellMade(t.pendingPullIntos[1])
           /\ t.pendingPullIntos[1].readerType = "none"
           /\ t.pendingPullIntos[1].elementSize = s.pendingPullIntos[1].elementSize
           /\ t.pendingPullIntos[1].minimumFill = s.pendingPullIntos[1].minimumFill
  <2> DEFINE u == Orphaned(s)
  <2>1. /\ HeadBytes(u) = HeadBytes(s)
        /\ (u.pendingPullIntos = <<>>) = (s.pendingPullIntos = <<>>)
        /\ s.pendingPullIntos # <<>> =>
             /\ Len(u.pendingPullIntos) = 1 /\ WellMade(u.pendingPullIntos[1])
             /\ u.pendingPullIntos[1].readerType = "none"
             /\ u.pendingPullIntos[1].elementSize = s.pendingPullIntos[1].elementSize
             /\ u.pendingPullIntos[1].minimumFill = s.pendingPullIntos[1].minimumFill
    BY <1>4, OrphansHead
  <2> HIDE DEF u
  <2>2. t.pendingPullIntos = u.pendingPullIntos BY <1>5 DEF u
  <2>3. HeadBytes(t) = HeadBytes(u) BY <2>2 DEF HeadBytes
  <2> QED BY <2>1, <2>2, <2>3
<1>7. /\ t.state = s.state /\ t.start = s.start /\ t.queue = s.queue /\ t.got = s.got
      /\ t.closeRequested = s.closeRequested /\ t.pull = s.pull /\ t.pullAgain = s.pullAgain
      /\ t.algorithms = s.algorithms /\ t.byobRequest = s.byobRequest /\ t.cancel = s.cancel
      /\ t.autoAllocateChunkSize = s.autoAllocateChunkSize /\ t.hwm = s.hwm
  BY <1>5 DEF Differ, FieldNames, ReleaseFields
<1>8. ControllerInv(t) BY <1>4, <1>6, <1>7 DEF ControllerInv
<1>9. DescriptorInv(t)
  <2>1. ASSUME NEW i \in 1..Len(t.pendingPullIntos)
        PROVE  LET d == t.pendingPullIntos[i] IN
               /\ WellMade(d) /\ d.readerType = "none" /\ ~(i > 1)
    <3>1. t.pendingPullIntos # <<>> BY <2>1
    <3>2. Len(t.pendingPullIntos) = 1 /\ s.pendingPullIntos # <<>> BY <3>1, <1>6
    <3>3. i = 1 BY <3>2
    <3> QED BY <3>2, <3>3, <1>6
  <2> QED BY <2>1, <1>4, <1>5, <1>6, <1>7 DEF DescriptorInv
<1>10. RequestInv(t, a) BY <1>5, NobodyQueued DEF RequestInv
<1>11. LineTo(s, q) => LineTo(t, q) BY <1>6, <1>7 DEF LineTo
<1>12. \A g : LineTo(s, g) => LineTo(t, g) BY <1>6, <1>7 DEF LineTo
<1>13. Core(t, a, q) BY <1>3, <1>5, <1>8, <1>9, <1>10, <1>11 DEF Core, Parts
<1>14. BetweenCalls(t)
  <2>1. s.pendingPullIntos # <<>> => t.pendingPullIntos[1].bytes = s.pendingPullIntos[1].bytes
    BY <1>6 DEF HeadBytes
  <2> QED BY <2>1, <1>2, <1>6, <1>7 DEF BetweenCalls
<1>15. NoneHead(t) = Len(t.pendingPullIntos) /\ Len(t.pendingPullIntos) \in {0, 1}
  <2>1. CASE t.pendingPullIntos = <<>> BY <2>1 DEF NoneHead
  <2>2. CASE t.pendingPullIntos # <<>>
    <3>1. s.pendingPullIntos # <<>> BY <2>2, <1>6
    <3> QED BY <2>2, <3>1, <1>6 DEF NoneHead
  <2> QED BY <2>1, <2>2
<1>16. /\ p \in 0..MaxBytes /\ r \in Seq({"default", "byob"}) /\ r # <<>>
       /\ \E g \in Nat : g <= p /\ LineTo(s, g) /\ (Whole(s, r) => g = p)
       /\ (\A i \in 1..Len(r) : r[i] = "default") => DefaultOnly(s)
  BY <1>2 DEF HistoryInv
<1>17. Whole(t, r) => Whole(s, r) BY <1>5, <1>7, <1>16 DEF Whole
<1>18. DefaultOnly(s) => DefaultOnly(t)
  <2> SUFFICES ASSUME DefaultOnly(s) PROVE DefaultOnly(t) OBVIOUS
  <2>1. ASSUME NEW i \in 1..Len(t.pendingPullIntos)
        PROVE  t.pendingPullIntos[i].elementSize = 1 /\ t.pendingPullIntos[i].minimumFill = 1
    <3>1. t.pendingPullIntos # <<>> BY <2>1
    <3>2. Len(t.pendingPullIntos) = 1 /\ s.pendingPullIntos # <<>> BY <3>1, <1>6
    <3>3. i = 1 BY <3>2
    <3>4. 1 \in 1..Len(s.pendingPullIntos) BY <3>2, <1>4, PendingTail
    <3> QED BY <3>2, <3>3, <3>4, <1>6 DEF DefaultOnly
  <2>2. Len(t.readRequests) = Len(t.pendingPullIntos) - NoneHead(t) BY <1>5, <1>15
  <2>3. s.state = "readable" /\ s.autoAllocateChunkSize = 0 => t.pendingPullIntos = <<>>
    BY <1>6 DEF DefaultOnly
  <2> QED BY <2>1, <2>2, <2>3, <1>5, <1>7 DEF DefaultOnly
<1>19. Len(r) >= 1 BY <1>16
<1>20. HistoryInv(t, p, r)
  <2>1. \E g \in Nat : g <= p /\ LineTo(t, g) /\ (Whole(t, r) => g = p)
    BY <1>12, <1>16, <1>17
  <2> QED BY <2>1, <1>5, <1>16, <1>18, <1>19 DEF HistoryInv
<1>21. Told(s, t)
  <2>1. Requests(t) = 0 BY <1>5 DEF Requests
  <2>2. Requests(s) \in Nat BY <1>4, CountsRequests
  <2>3. ~(Requests(t) > Requests(s)) BY <2>1, <2>2
  <2>4. readableByteStreamControllerShouldCallPull(t) =>
          readableByteStreamControllerShouldCallPull(s) /\ s.state = "readable"
    BY <1>5, <1>7 DEF readableByteStreamControllerShouldCallPull, QueueTotalSize
  <2>5. s.state = "readable" /\ s.pullAgain => t.pull = "pending" BY <1>4, <1>7, PullAgain
  <2> QED BY <2>3, <2>4, <2>5 DEF Told
<1>22. ~t.failed BY <1>5
<1> QED BY <1>13, <1>14, <1>20, <1>21, <1>22 DEF Sound, t

\* A new reader keeps the invariant, and does not make the stream want bytes.
LEMMA ReaderKeeps ==
  ASSUME NEW s, NEW a, NEW p, NEW r, Sound(s, a, p, r), ~s.reader, ~s.failed,
         NEW kind \in {"default", "byob"}
  PROVE  LET t == [setUpReadableStreamDefaultReader(s) EXCEPT !.byob = (kind = "byob")]
         IN  ~t.failed /\ Sound(t, a, p, Append(r, kind)) /\ Told(s, t)
<1> DEFINE t == [setUpReadableStreamDefaultReader(s) EXCEPT !.byob = (kind = "byob")]
           F == {"reader", "closed", "byob"}
           b == Append(r, kind)
<1>1. PICK q \in Nat : Core(s, a, q) BY DEF Sound
<1>2. BetweenCalls(s) /\ HistoryInv(s, p, r) BY DEF Sound
<1>3. Parts(s, a) /\ LineTo(s, q) BY <1>1 DEF Core
<1>4. Fields(s) /\ ControllerInv(s) /\ DescriptorInv(s) /\ s.failed = FALSE
      /\ RequestInv(s, a) /\ AnswerInv(s, a)
  BY <1>3 DEF Parts, Fields
<1>5. Differ(s, t, F) /\ t.reader = TRUE /\ t.byob = (kind = "byob")
  BY <1>4 DEF Fields, setUpReadableStreamDefaultReader, Differ, FieldNames
<1> HIDE DEF t
<1>6. Fields(t)
  <2>1. t.byob \in BOOLEAN BY <1>5
  <2> QED BY <1>4, <1>5, <2>1, ZenonT(60) DEF Fields, Differ, FieldNames
<1>7. ControllerInv(t) BY <1>4, <1>5 DEF ControllerInv, Differ, FieldNames
<1>8. /\ t.state = s.state /\ t.queue = s.queue /\ t.got = s.got /\ t.reads = s.reads
      /\ t.closeRequested = s.closeRequested /\ t.pendingPullIntos = s.pendingPullIntos
      /\ t.byobRequest = s.byobRequest /\ t.cancel = s.cancel
      /\ t.readRequests = s.readRequests /\ t.readIntoRequests = s.readIntoRequests
      /\ t.autoAllocateChunkSize = s.autoAllocateChunkSize /\ t.failed = FALSE
  BY <1>4, <1>5 DEF Differ, FieldNames
<1>9. s.readRequests = <<>> /\ s.readIntoRequests = <<>> BY <1>4 DEF RequestInv
<1>10. NoneHead(t) = NoneHead(s) BY <1>8 DEF NoneHead
<1>11. ASSUME NEW i \in 1..Len(s.pendingPullIntos)
       PROVE  i = 1 /\ s.pendingPullIntos[i].readerType = "none"
              /\ WellMade(s.pendingPullIntos[i])
  <2>1. s.pendingPullIntos[i].readerType \in {"default", "byob", "none"}
    <3>1. s.pendingPullIntos \in Seq(Descriptors) BY <1>4 DEF Fields
    <3>2. s.pendingPullIntos[i] \in Descriptors BY <3>1
    <3> QED BY <3>2 DEF Descriptors
  <2>2. WellMade(s.pendingPullIntos[i]) /\ s.pendingPullIntos[i].readerType = "none"
        /\ ~(i > 1)
    BY <1>4, <2>1 DEF DescriptorInv
  <2> QED BY <2>2
<1>12. Len(s.pendingPullIntos) = NoneHead(s)
  <2>1. s.pendingPullIntos \in Seq(Descriptors) BY <1>4 DEF Fields
  <2>2. CASE s.pendingPullIntos = <<>> BY <2>2 DEF NoneHead
  <2>3. CASE s.pendingPullIntos # <<>>
    <3>1. Len(s.pendingPullIntos) \in Nat /\ Len(s.pendingPullIntos) >= 1
      BY <2>3, <1>4, PendingTail
    <3>2. Len(s.pendingPullIntos) \in 1..Len(s.pendingPullIntos)
          /\ 1 \in 1..Len(s.pendingPullIntos) BY <3>1
    <3>3. Len(s.pendingPullIntos) = 1 /\ s.pendingPullIntos[1].readerType = "none"
      BY <3>2, <1>11
    <3> QED BY <2>3, <3>3 DEF NoneHead
  <2> QED BY <2>2, <2>3
<1>13. DescriptorInv(t)
  <2>1. Len(t.readIntoRequests) = Len(t.pendingPullIntos) - NoneHead(t)
    BY <1>8, <1>9, <1>10, <1>12 DEF NoneHead
  <2>2. t.byobRequest => t.pendingPullIntos # <<>> BY <1>4, <1>8 DEF DescriptorInv
  <2>3. ASSUME NEW i \in 1..Len(t.pendingPullIntos)
        PROVE  LET d == t.pendingPullIntos[i] IN
               WellMade(d) /\ d.readerType = "none" /\ ~(i > 1)
    BY <1>8, <1>11
  <2> QED BY <2>1, <2>2, <2>3 DEF DescriptorInv
<1>14. RequestInv(t, a) BY <1>8, <1>9, NobodyQueued DEF RequestInv
<1>15. F \cap {"got", "reads"} = {} /\ F \cap {"got", "pendingPullIntos", "queue"} = {}
       /\ F \cap {"pendingPullIntos", "state", "autoAllocateChunkSize", "readRequests",
                  "queue"} = {}
  OBVIOUS
<1>16. F \cap {"state", "closeRequested", "start", "readRequests", "readIntoRequests", "hwm",
               "queue", "pull"} = {}
  OBVIOUS
<1> HIDE DEF F
<1>17. AnswerInv(t, a) /\ (\A g : LineTo(s, g) => LineTo(t, g))
       /\ (DefaultOnly(s) => DefaultOnly(t))
  BY <1>4, <1>5, <1>15, Unaffected
<1>18. Told(s, t) BY <1>4, <1>5, <1>16, ToldSame
<1>19. Core(t, a, q) BY <1>3, <1>6, <1>7, <1>13, <1>14, <1>17 DEF Core, Parts
<1>20. BetweenCalls(t) BY <1>2, <1>8 DEF BetweenCalls
<1>21. /\ p \in 0..MaxBytes /\ r \in Seq({"default", "byob"})
       /\ \E g \in Nat : g <= p /\ LineTo(s, g) /\ (Whole(s, r) => g = p)
       /\ (\A i \in 1..Len(r) : r[i] = "default") => DefaultOnly(s)
       /\ NoneHead(s) = 1 => Len(r) >= 1
  BY <1>2 DEF HistoryInv
<1>22. /\ b \in Seq({"default", "byob"}) /\ Len(b) = Len(r) + 1 /\ b[Len(b)] = kind
       /\ b # <<>> /\ Len(r) \in Nat /\ \A i \in 1..Len(r) : b[i] = r[i]
  <2> DEFINE S == {"default", "byob"}
  <2>1. r \in Seq(S) /\ kind \in S BY <1>21
  <2> HIDE DEF S
  <2>2. b \in Seq(S) /\ Len(b) = Len(r) + 1 /\ b[Len(r) + 1] = kind
        /\ Len(r) \in Nat /\ \A i \in 1..Len(r) : b[i] = r[i]
    BY <2>1, AppendProperties
  <2>3. b # <<>> BY <2>2
  <2> QED BY <2>2, <2>3 DEF S
<1> HIDE DEF b
<1>23. Whole(t, b) => Whole(s, r)
  <2>1. Len(b) <= 1 => r = <<>> BY <1>21, <1>22
  <2> QED BY <2>1, <1>8, <1>22 DEF Whole
<1>24. HistoryInv(t, p, b)
  <2>1. \E g \in Nat : g <= p /\ LineTo(t, g) /\ (Whole(t, b) => g = p)
    BY <1>17, <1>21, <1>23
  <2>2. t.byob = (b[Len(b)] = "byob") BY <1>5, <1>22
  <2>3. NoneHead(t) = 1 => Len(b) >= 2 BY <1>10, <1>21, <1>22
  <2>4. (\A i \in 1..Len(b) : b[i] = "default") => DefaultOnly(t)
    <3> SUFFICES ASSUME \A i \in 1..Len(b) : b[i] = "default" PROVE DefaultOnly(t) OBVIOUS
    <3>1. \A i \in 1..Len(r) : i \in 1..Len(b) BY <1>22
    <3>2. \A i \in 1..Len(r) : r[i] = "default" BY <3>1, <1>22
    <3> QED BY <3>2, <1>17, <1>21
  <2> QED BY <2>1, <2>2, <2>3, <2>4, <1>5, <1>8, <1>21, <1>22 DEF HistoryInv
<1> QED BY <1>8, <1>18, <1>19, <1>20, <1>24 DEF Sound, t, b

\* A new stream.
LEMMA StartsSound ==
  ASSUME NEW h \in Nat, NEW auto \in Nat
  PROVE  LET s == setUpReadableByteStreamController(h, auto)
         IN  Sound(s, <<>>, 0, <<>>) /\ ~s.failed
<1> DEFINE s == setUpReadableByteStreamController(h, auto)
           x == initializeReadableStream(h)
           y == [byob |-> FALSE, autoAllocateChunkSize |-> auto, pendingPullIntos |-> <<>>,
                 byobRequest |-> FALSE, readIntoRequests |-> <<>>, got |-> <<>>]
<1>1. s = [f \in (DOMAIN x) \cup (DOMAIN y) |-> IF f \in DOMAIN y THEN y[f] ELSE x[f]]
  BY DEF setUpReadableByteStreamController
<1>2. DOMAIN x = {"state", "start", "hwm", "queue", "closeRequested", "pull", "pullAgain",
                  "algorithms", "reader", "closed", "readRequests", "reads", "cancel", "failed"}
  BY DEF initializeReadableStream
<1>3. DOMAIN y = {"byob", "autoAllocateChunkSize", "pendingPullIntos", "byobRequest",
                  "readIntoRequests", "got"}
  OBVIOUS
<1>4. /\ FieldNames \subseteq DOMAIN s
      /\ s.state = "readable" /\ s.start = "pending" /\ s.hwm = h /\ s.queue = <<>>
      /\ s.closeRequested = FALSE /\ s.pull = "idle" /\ s.pullAgain = FALSE
      /\ s.algorithms = TRUE /\ s.reader = FALSE /\ s.readRequests = <<>> /\ s.reads = <<>>
      /\ s.cancel = "none" /\ s.failed = FALSE
  <2> HIDE DEF s, y
  <2>1. s.state = x.state /\ s.start = x.start /\ s.hwm = x.hwm /\ s.queue = x.queue
        /\ s.closeRequested = x.closeRequested /\ s.pull = x.pull
        /\ s.pullAgain = x.pullAgain /\ s.algorithms = x.algorithms /\ s.reader = x.reader
        /\ s.readRequests = x.readRequests /\ s.reads = x.reads /\ s.cancel = x.cancel
        /\ s.failed = x.failed
    <3> HIDE DEF x
    <3> QED BY <1>1, <1>2, <1>3
  <2>2. DOMAIN s = (DOMAIN x) \cup (DOMAIN y) BY <1>1
  <2> HIDE DEF x
  <2>3. FieldNames \subseteq DOMAIN s BY <2>2, <1>2, <1>3 DEF FieldNames
  <2> USE DEF x
  <2> QED BY <2>1, <2>3 DEF initializeReadableStream
<1>5. /\ s.byob = FALSE /\ s.autoAllocateChunkSize = auto /\ s.pendingPullIntos = <<>>
      /\ s.byobRequest = FALSE /\ s.readIntoRequests = <<>> /\ s.got = <<>>
  <2> HIDE DEF s, x
  <2>1. s.byob = y.byob /\ s.autoAllocateChunkSize = y.autoAllocateChunkSize
        /\ s.pendingPullIntos = y.pendingPullIntos /\ s.byobRequest = y.byobRequest
        /\ s.readIntoRequests = y.readIntoRequests /\ s.got = y.got
    <3> HIDE DEF y
    <3> QED BY <1>1, <1>2, <1>3
  <2> QED BY <2>1
<1> HIDE DEF s, x, y
<1>6. Fields(s)
  <2>1. <<>> \in Seq(Seq(Nat) \ {<<>>}) /\ <<>> \in Seq(Descriptors) /\ <<>> \in Seq(Nat)
        /\ <<>> \in Seq(Int) /\ <<>> \in Seq(Seq(Nat))
    OBVIOUS
  <2> QED BY <2>1, <1>4, <1>5 DEF Fields
<1>7. ControllerInv(s) BY <1>4 DEF ControllerInv
<1>8. DescriptorInv(s) BY <1>4, <1>5 DEF DescriptorInv
<1>9. RequestInv(s, <<>>) BY <1>4, <1>5, NobodyQueued DEF RequestInv
<1>10. AnswerInv(s, <<>>) BY <1>5 DEF AnswerInv
<1>11. LineTo(s, 0)
  <2>1. Run(<<>>, 0, 0) /\ Consecutive(<<>>, 0, 0) BY RunFacts, EmptyLine
  <2> QED BY <2>1, <1>4, <1>5 DEF LineTo, HeadBytes
<1>12. Core(s, <<>>, 0) BY <1>6, <1>7, <1>8, <1>9, <1>10, <1>11 DEF Core, Parts
<1>13. BetweenCalls(s) BY <1>4, <1>5 DEF BetweenCalls
<1>14. DefaultOnly(s) BY <1>4, <1>5 DEF DefaultOnly, NoneHead
<1>15. 0 \in 0..MaxBytes BY ByteAssumption
<1>16. HistoryInv(s, 0, <<>>) BY <1>4, <1>5, <1>11, <1>14, <1>15 DEF HistoryInv, NoneHead
<1> QED BY <1>4, <1>12, <1>13, <1>16 DEF Sound, s

-----------------------------------------------------------------------------
(* One lemma for each part of Next. *)

\* A step that makes a call keeps the invariant.
LEMMA CallStep ==
  ASSUME IInv, NEW q \in Nat, Holding(stream, asked, produced, readers, q), NEW t, NEW b,
         NEW n \in Nat, Call(stream, t, b, q, n), NEW m, m = produced + n, m <= MaxBytes,
         Len(b) <= MaxReads, Becomes(t, m, b, readers)
  PROVE  IInv' /\ Told(stream, stream')
<1>1. Sound(stream, asked, produced, readers) /\ Len(asked) <= MaxReads BY DEF IInv
<1>2. t.failed \in BOOLEAN BY DEF Call
<1>3. CASE t.failed
  <2>1. stream' = [stream EXCEPT !.failed = TRUE] /\ produced' = produced
        /\ asked' = asked /\ readers' = readers
    BY <1>3 DEF Becomes
  <2>2. stream.reader /\ ~stream.byob /\ ~DefaultOnly(stream) BY <1>3 DEF Call
  <2>3. Sound(stream', asked', produced', readers') BY <1>1, <2>1, <2>2, FailureKeeps
  <2>4. Differ(stream, stream', {"failed"})
    BY <1>1, <2>1 DEF Sound, Core, Parts, Fields, Differ, FieldNames
  <2>5. {"failed"} \cap {"state", "closeRequested", "start", "readRequests",
                         "readIntoRequests", "hwm", "queue", "pull"} = {}
    OBVIOUS
  <2>6. Told(stream, stream') BY <1>1, <2>4, <2>5, ToldSame DEF Sound, Core, Parts
  <2> QED BY <1>1, <2>1, <2>3, <2>6 DEF IInv
<1>4. CASE ~t.failed
  <2>1. stream' = t /\ produced' = m /\ asked' = b /\ readers' = readers
    BY <1>4 DEF Becomes
  <2>2. Sound(t, b, produced + n, readers) BY <1>4, CallKeeps
  <2>3. Sound(stream', asked', produced', readers') BY <2>1, <2>2
  <2>4. Told(stream, t) BY <1>4 DEF Call, Goes
  <2> QED BY <2>1, <2>3, <2>4 DEF IInv
<1> QED BY <1>2, <1>3, <1>4

\* A step that makes a call which brings no bytes and is no read.
LEMMA PlainStep ==
  ASSUME IInv, NEW q \in Nat, Holding(stream, asked, produced, readers, q), NEW t,
         Call(stream, t, asked, q, 0), Calls(t)
  PROVE  IInv' /\ Told(stream, stream')
<1>1. PICK n \in Nat : n = 0 OBVIOUS
<1>2. produced \in 0..MaxBytes /\ Len(asked) <= MaxReads BY DEF IInv, Sound, HistoryInv
<1>3. produced = produced + n /\ produced <= MaxBytes BY <1>1, <1>2, ByteAssumption
<1>4. Call(stream, t, asked, q, n) BY <1>1
<1>5. Becomes(t, produced, asked, readers) BY DEF Calls
<1> QED BY <1>2, <1>3, <1>4, <1>5, CallStep

\* A read.
LEMMA ReadStep ==
  ASSUME IInv, NEW q \in Nat, Holding(stream, asked, produced, readers, q), NEW t,
         NEW view \in Asks, Call(stream, t, Append(asked, view), q, 0), Read(t, view)
  PROVE  IInv' /\ Told(stream, stream')
<1> DEFINE b == Append(asked, view)
<1>1. PICK n \in Nat : n = 0 OBVIOUS
<1>2. produced \in 0..MaxBytes /\ asked \in Seq(Asks)
  BY DEF IInv, Sound, HistoryInv, Core, Parts, AnswerInv
<1>3. produced = produced + n /\ produced <= MaxBytes BY <1>1, <1>2, ByteAssumption
<1>4. Call(stream, t, b, q, n) BY <1>1
<1>5. Becomes(t, produced, b, readers) /\ Len(asked) < MaxReads BY DEF Read
<1>6. Len(b) <= MaxReads
  <2>1. Len(b) = Len(asked) + 1 /\ Len(asked) \in Nat BY <1>2, AppendProperties
  <2> QED BY <2>1, <1>5, ByteAssumption
<1> HIDE DEF b
<1> QED BY <1>3, <1>4, <1>5, <1>6, CallStep

\* The source produces n bytes.
LEMMA ProduceStep ==
  ASSUME IInv, NEW q \in Nat, Holding(stream, asked, produced, readers, q), NEW t,
         NEW n \in Nat, produced + n <= MaxBytes, Call(stream, t, asked, q, n), Produces(n, t)
  PROVE  IInv' /\ Told(stream, stream')
<1>1. PICK m : m = produced + n OBVIOUS
<1>2. Becomes(t, m, asked, readers) BY <1>1 DEF Produces
<1>3. m <= MaxBytes BY <1>1
<1>4. Len(asked) <= MaxReads BY DEF IInv
<1> QED BY <1>1, <1>2, <1>3, <1>4, CallStep

\* The bytes the source produces next.
LEMMA NextRun ==
  ASSUME NEW n \in Nat, NEW q \in Nat, q = produced
  PROVE  Run(NextBytes(n), q, q + n) /\ (n > 0 => NextBytes(n) # <<>>)
<1>1. NextBytes(n) = [i \in 1..n |-> q + i] BY DEF NextBytes
<1>2. Run(NextBytes(n), q, q + n) BY <1>1, RunFacts
<1>3. Len(NextBytes(n)) = n BY <1>2 DEF Run
<1> QED BY <1>2, <1>3

\* What a step of the source or of a user may rely on.
LEMMA StepFacts ==
  ASSUME IInv, ~stream.failed
  PROVE  /\ \E q \in Nat : Holding(stream, asked, produced, readers, q)
         /\ Fields(stream) /\ ControllerInv(stream) /\ DescriptorInv(stream)
         /\ produced \in Nat
<1>1. Sound(stream, asked, produced, readers) BY DEF IInv
<1>2. \E q \in Nat : Holding(stream, asked, produced, readers, q) BY <1>1, HoldsSome
<1>3. Fields(stream) /\ ControllerInv(stream) /\ DescriptorInv(stream)
  BY <1>1 DEF Sound, Core, Parts
<1>4. produced \in Nat BY <1>1 DEF Sound, HistoryInv
<1> QED BY <1>2, <1>3, <1>4

\* Readers and reads.
LEMMA UsersKeep ==
  ASSUME IInv, Users
  PROVE  IInv' /\ Told(stream, stream')
<1>1. CASE GetReader
  <2>1. ~stream.reader BY <1>1 DEF GetReader
  <2>2. PICK kind \in {"default", "byob"} :
          Becomes([setUpReadableStreamDefaultReader(stream) EXCEPT !.byob = (kind = "byob")],
                  produced, asked, Append(readers, kind))
    BY <1>1 DEF GetReader
  <2> DEFINE t == [setUpReadableStreamDefaultReader(stream) EXCEPT !.byob = (kind = "byob")]
             b == Append(readers, kind)
  <2>3. ~stream.failed BY <2>2 DEF Becomes
  <2>4. Sound(stream, asked, produced, readers) /\ Len(asked) <= MaxReads BY DEF IInv
  <2>5. ~t.failed /\ Sound(t, asked, produced, b) /\ Told(stream, t)
    BY <2>1, <2>3, <2>4, ReaderKeeps
  <2>6. Becomes(t, produced, asked, b) BY <2>2
  <2> HIDE DEF t, b
  <2>7. stream' = t /\ produced' = produced /\ asked' = asked /\ readers' = b
    BY <2>5, <2>6 DEF Becomes
  <2> QED BY <2>4, <2>5, <2>7 DEF IInv
<1>2. CASE ReadDefault
  <2>1. ~stream.byob /\ Read(ReadBytes(stream), OneByte(1)) BY <1>2 DEF ReadDefault
  <2>2. stream.reader /\ ~stream.failed BY <2>1 DEF Read, Becomes
  <2>3. PICK q \in Nat : Holding(stream, asked, produced, readers, q) BY <2>2, StepFacts
  <2>4. Resting(stream, asked, q) BY <2>3 DEF Holding
  <2>5. OneByte(1) \in Asks
        /\ Call(stream, ReadBytes(stream), Append(asked, OneByte(1)), q, 0)
    BY <2>1, <2>2, <2>4, ReadsBytes
  <2> QED BY <2>1, <2>3, <2>5, ReadStep
<1>3. CASE ReadInto
  <2>1. stream.byob BY <1>3 DEF ReadInto
  <2>2. PICK v \in Views : Read(readableStreamBYOBReaderRead(stream, v), v)
    BY <1>3 DEF ReadInto
  <2>3. stream.reader /\ ~stream.failed BY <2>2 DEF Read, Becomes
  <2>4. PICK q \in Nat : Holding(stream, asked, produced, readers, q) BY <2>3, StepFacts
  <2>5. Resting(stream, asked, q) BY <2>4 DEF Holding
  <2>6. v \in Asks BY ByteAssumption DEF Asks, Numbers
  <2>7. GoodView(v) BY <2>6, ByteAssumption DEF GoodView
  <2>8. Call(stream, readableStreamBYOBReaderRead(stream, v), Append(asked, v), q, 0)
    BY <2>1, <2>3, <2>5, <2>7, ReadsInto
  <2> QED BY <2>2, <2>4, <2>6, <2>8, ReadStep
<1>4. CASE ReleaseLock
  <2> DEFINE t == ReleaseBytes(stream)
  <2>1. stream.reader /\ Becomes(t, produced, asked, readers)
    BY <1>4 DEF ReleaseLock, Calls
  <2>2. ~stream.failed BY <2>1 DEF Becomes
  <2>3. Sound(stream, asked, produced, readers) /\ Len(asked) <= MaxReads BY DEF IInv
  <2>4. ~t.failed /\ Sound(t, asked, produced, readers) /\ Told(stream, t)
    BY <2>1, <2>2, <2>3, ReleaseKeeps
  <2> HIDE DEF t
  <2>5. stream' = t /\ produced' = produced /\ asked' = asked /\ readers' = readers
    BY <2>1, <2>4 DEF Becomes
  <2> QED BY <2>3, <2>4, <2>5 DEF IInv
<1>5. CASE Cancel
  <2>1. stream.state = "readable" /\ Calls(CancelBytes(stream)) BY <1>5 DEF Cancel
  <2>2. ~stream.failed BY <2>1 DEF Calls, Becomes
  <2>3. PICK q \in Nat : Holding(stream, asked, produced, readers, q) BY <2>2, StepFacts
  <2>4. Resting(stream, asked, q) BY <2>3 DEF Holding
  <2>5. Call(stream, CancelBytes(stream), asked, q, 0) BY <2>1, <2>4, CancelsBytes
  <2> QED BY <2>1, <2>3, <2>5, PlainStep
<1> QED BY <1>1, <1>2, <1>3, <1>4, <1>5 DEF Users

\* enqueue().
LEMMA EnqueueKeeps ==
  ASSUME IInv, Enqueue
  PROVE  IInv' /\ Told(stream, stream')
<1>1. /\ stream.state = "readable" /\ ~stream.closeRequested
      /\ stream.pendingPullIntos # <<>> => ~Head(stream.pendingPullIntos).detached
  BY DEF Enqueue
<1>2. PICK n \in 1 .. MaxBytes - produced :
        Produces(n, readableByteStreamControllerEnqueue(stream, NextBytes(n)))
  BY DEF Enqueue
<1>3. ~stream.failed BY <1>2 DEF Produces, Becomes
<1>4. PICK q \in Nat : Holding(stream, asked, produced, readers, q) BY <1>3, StepFacts
<1>5. Resting(stream, asked, q) /\ q = produced BY <1>1, <1>4 DEF Holding, Whole
<1>6. MaxBytes \in Nat BY ByteAssumption
<1>7. n \in Nat /\ n > 0 /\ produced + n <= MaxBytes BY <1>2, <1>5, <1>6
<1>8. Run(NextBytes(n), q, q + n) /\ NextBytes(n) # <<>> BY <1>5, <1>7, NextRun
<1>9. Call(stream, readableByteStreamControllerEnqueue(stream, NextBytes(n)), asked, q, n)
  BY <1>1, <1>5, <1>7, <1>8, EnqueuesBytes
<1> QED BY <1>2, <1>4, <1>7, <1>9, ProduceStep

\* respond() and respondWithNewView().
LEMMA RespondKeeps ==
  ASSUME IInv, stream.byobRequest, readableByteStreamControllerRespond
  PROVE  IInv' /\ Told(stream, stream')
<1> DEFINE d == Head(stream.pendingPullIntos)
           written == IF stream.state = "closed" THEN {0}
                      ELSE 1 .. Min({MaxBytes - produced, d.byteLength - Len(d.bytes)})
<1>1. PICK n \in written :
        Produces(n, readableByteStreamControllerRespondInternal(stream, NextBytes(n)))
  BY DEF readableByteStreamControllerRespond
<1>2. ~stream.failed BY <1>1 DEF Produces, Becomes
<1>3. /\ \E q \in Nat : Holding(stream, asked, produced, readers, q)
      /\ Fields(stream) /\ ControllerInv(stream) /\ DescriptorInv(stream)
      /\ produced \in Nat
  BY <1>2, StepFacts
<1>4. PICK q \in Nat : Holding(stream, asked, produced, readers, q) BY <1>3
<1>5. stream.pendingPullIntos # <<>> BY <1>3 DEF DescriptorInv
<1>6. stream.state \in {"readable", "closed"} BY <1>3, <1>5 DEF Fields, ControllerInv
<1>7. Resting(stream, asked, q) BY <1>4 DEF Holding
<1>8. produced <= MaxBytes /\ MaxBytes \in Nat
  BY ByteAssumption DEF IInv, Sound, HistoryInv
<1>9. CASE stream.state = "closed"
  <2>1. n = 0 BY <1>1, <1>9
  <2>2. PICK m \in Nat : m = 0 OBVIOUS
  <2>3. MayWrite(stream, m) BY <1>9, <2>2 DEF MayWrite
  <2>4. NextBytes(n) = <<>> BY <2>1 DEF NextBytes
  <2>5. Run(<<>>, q, q) /\ q + m = q BY <2>2, RunFacts
  <2>6. Run(NextBytes(n), q, q + m) BY <2>4, <2>5
  <2>7. Call(stream, readableByteStreamControllerRespondInternal(stream, NextBytes(n)),
             asked, q, m)
    BY <1>5, <1>7, <2>3, <2>6, RespondsBytes
  <2>8. produced + m <= MaxBytes BY <1>3, <1>8, <2>2
  <2>9. Produces(m, readableByteStreamControllerRespondInternal(stream, NextBytes(n)))
    BY <1>1, <2>1, <2>2
  <2> QED BY <1>4, <2>7, <2>8, <2>9, ProduceStep
<1>10. CASE stream.state = "readable"
  <2>1. q = produced BY <1>4, <1>10 DEF Holding, Whole
  <2>2. d = stream.pendingPullIntos[1] /\ d \in Descriptors /\ 1 \in 1..Len(stream.pendingPullIntos)
    BY <1>3, <1>5, PendingTail
  <2>3. HeadBytes(stream) = d.bytes BY <1>5, <2>2 DEF HeadBytes
  <2>4. d.byteLength - Len(d.bytes) \in Nat /\ d.byteLength \in Nat /\ Len(d.bytes) \in Nat
    <3>1. WellMade(d) BY <1>3, <2>2 DEF DescriptorInv
    <3>2. d.bytes \in Seq(Nat) /\ d.byteLength \in Nat /\ d.minimumFill \in Nat
      BY <2>2 DEF Descriptors, Numbers
    <3> QED BY <3>1, <3>2, SMTT(30) DEF WellMade
  <2>5. MaxBytes - produced \in Nat BY <1>3, <1>8
  <2>6. n \in 1 .. Min({MaxBytes - produced, d.byteLength - Len(d.bytes)}) BY <1>1, <1>10
  <2> HIDE DEF d
  <2>7. n \in Nat /\ n > 0 /\ n <= MaxBytes - produced /\ n <= d.byteLength - Len(d.bytes)
    BY <2>4, <2>5, <2>6, MinOfTwo
  <2>8. produced + n <= MaxBytes BY <2>7, <1>3, <1>8
  <2>9. Len(HeadBytes(stream)) + n <= stream.pendingPullIntos[1].byteLength
    BY <2>2, <2>3, <2>4, <2>7
  <2>10. MayWrite(stream, n) BY <1>10, <2>7, <2>9 DEF MayWrite
  <2>11. Run(NextBytes(n), q, q + n) BY <2>1, <2>7, NextRun
  <2>12. Call(stream, readableByteStreamControllerRespondInternal(stream, NextBytes(n)),
              asked, q, n)
    BY <1>5, <1>7, <2>7, <2>10, <2>11, RespondsBytes
  <2> QED BY <1>1, <1>4, <2>7, <2>8, <2>12, ProduceStep
<1> QED BY <1>6, <1>9, <1>10

\* The source.
LEMMA SourceKeeps ==
  ASSUME IInv, Source
  PROVE  IInv' /\ Told(stream, stream')
<1>1. CASE Enqueue BY <1>1, EnqueueKeeps
<1>2. CASE readableByteStreamControllerGetBYOBRequest
  <2>1. stream.pendingPullIntos # <<>> /\ Calls([stream EXCEPT !.byobRequest = TRUE])
    BY <1>2 DEF readableByteStreamControllerGetBYOBRequest
  <2>2. ~stream.failed BY <2>1 DEF Calls, Becomes
  <2>3. PICK q \in Nat : Holding(stream, asked, produced, readers, q) BY <2>2, StepFacts
  <2>4. Resting(stream, asked, q) BY <2>3 DEF Holding
  <2>5. Call(stream, [stream EXCEPT !.byobRequest = TRUE], asked, q, 0)
    BY <2>1, <2>4, GetsRequest
  <2> QED BY <2>1, <2>3, <2>5, PlainStep
<1>3. CASE TransferView
  <2>1. stream.byobRequest /\ Calls([stream EXCEPT !.pendingPullIntos[1].detached = TRUE])
    BY <1>3 DEF TransferView
  <2>2. ~stream.failed BY <2>1 DEF Calls, Becomes
  <2>3. PICK q \in Nat : Holding(stream, asked, produced, readers, q) BY <2>2, StepFacts
  <2>4. Resting(stream, asked, q) BY <2>3 DEF Holding
  <2>5. DescriptorInv(stream) BY <2>2, StepFacts
  <2>6. stream.pendingPullIntos # <<>> BY <2>1, <2>5 DEF DescriptorInv
  <2>7. Call(stream, [stream EXCEPT !.pendingPullIntos[1].detached = TRUE], asked, q, 0)
    BY <2>4, <2>6, TransfersView
  <2> QED BY <2>1, <2>3, <2>7, PlainStep
<1>4. CASE Respond BY <1>4, RespondKeeps DEF Respond
<1>5. CASE RespondWithNewView
  BY <1>5, RespondKeeps DEF RespondWithNewView, readableByteStreamControllerRespondWithNewView
<1>6. CASE ControllerClose
  <2>1. stream.state = "readable" /\ Calls(readableByteStreamControllerClose(stream))
    BY <1>6 DEF ControllerClose
  <2>2. ~stream.failed BY <2>1 DEF Calls, Becomes
  <2>3. PICK q \in Nat : Holding(stream, asked, produced, readers, q) BY <2>2, StepFacts
  <2>4. Resting(stream, asked, q) BY <2>3 DEF Holding
  <2>5. Call(stream, readableByteStreamControllerClose(stream), asked, q, 0)
    BY <2>1, <2>4, ClosesBytes
  <2> QED BY <2>1, <2>3, <2>5, PlainStep
<1>7. CASE ControllerError
  <2>1. stream.state = "readable" /\ Calls(readableByteStreamControllerError(stream))
    BY <1>7 DEF ControllerError
  <2>2. ~stream.failed BY <2>1 DEF Calls, Becomes
  <2>3. PICK q \in Nat : Holding(stream, asked, produced, readers, q) BY <2>2, StepFacts
  <2>4. Resting(stream, asked, q) BY <2>3 DEF Holding
  <2>5. Call(stream, readableByteStreamControllerError(stream), asked, q, 0)
    BY <2>1, <2>4, ErrorsCall
  <2> QED BY <2>1, <2>3, <2>5, PlainStep
<1> QED BY <1>1, <1>2, <1>3, <1>4, <1>5, <1>6, <1>7 DEF Source

\* The reactions to the promises of the source.
LEMMA CallbacksKeep ==
  ASSUME IInv, Callbacks
  PROVE  IInv' /\ Told(stream, stream')
<1> SUFFICES ASSUME NEW q \in Nat, Holding(stream, asked, produced, readers, q)
             PROVE  IInv' /\ Told(stream, stream')
  <2>1. ~stream.failed BY DEF Callbacks, Started, Pulled, Cancelled, Calls, Becomes
  <2> QED BY <2>1, StepFacts
<1>1. Resting(stream, asked, q) BY DEF Holding
<1>2. CASE Started
  <2> DEFINE t == readableByteStreamControllerCallPullIfNeeded(
                    [Asserting(stream, stream.pull = "idle" /\ ~stream.pullAgain)
                       EXCEPT !.start = "resolved"])
             z == readableByteStreamControllerError(stream)
             e == [z EXCEPT !.start = "rejected"]
  <2>1. stream.start = "pending" /\ (Calls(t) \/ Calls(e)) BY <1>2 DEF Started
  <2>2. Call(stream, t, asked, q, 0) BY <1>1, <2>1, StartResolves
  <2>3. PICK f : f = "start" OBVIOUS
  <2>4. Rejects(stream, z, e, f) BY <2>1, <2>3 DEF Rejects
  <2>5. Call(stream, e, asked, q, 0) BY <1>1, <2>4, RejectsCall
  <2> HIDE DEF t, e
  <2> QED BY <2>1, <2>2, <2>5, PlainStep
<1>3. CASE Pulled
  <2> DEFINE again == [stream EXCEPT !.pull = "idle", !.pullAgain = FALSE]
             t == IF stream.pullAgain
                    THEN readableByteStreamControllerCallPullIfNeeded(again) ELSE again
             z == readableByteStreamControllerError(stream)
             e == [z EXCEPT !.pull = "rejected"]
  <2>1. stream.pull = "pending" /\ (Calls(t) \/ Calls(e)) BY <1>3 DEF Pulled
  <2>2. Call(stream, t, asked, q, 0) BY <1>1, <2>1, PullResolves
  <2>3. PICK f : f = "pull" OBVIOUS
  <2>4. Rejects(stream, z, e, f) BY <2>1, <2>3 DEF Rejects
  <2>5. Call(stream, e, asked, q, 0) BY <1>1, <2>4, RejectsCall
  <2> HIDE DEF t, e
  <2> QED BY <2>1, <2>2, <2>5, PlainStep
<1>4. CASE Cancelled
  <2>1. stream.cancel = "pending" BY <1>4 DEF Cancelled
  <2>2. PICK ok \in BOOLEAN : Calls(CancelSettles(stream, ok)) BY <1>4 DEF Cancelled
  <2>3. Call(stream, CancelSettles(stream, ok), asked, q, 0) BY <1>1, <2>1, CancelEnds
  <2> QED BY <2>2, <2>3, PlainStep
<1> QED BY <1>2, <1>3, <1>4 DEF Callbacks

-----------------------------------------------------------------------------
(* What the invariant implies. *)

\* A run is the one sequence of its bytes.
LEMMA RunIs ==
  ASSUME NEW x, NEW a \in Nat, NEW b, Run(x, a, b)
  PROVE  x = [i \in 1..(b - a) |-> a + i]
<1>1. x \in Seq(Nat) /\ Len(x) \in Nat /\ b = a + Len(x) /\ b - a = Len(x) BY DEF Run
<1>2. \A i \in 1..Len(x) : x[i] = a + i BY DEF Run
<1>3. x = [i \in 1..Len(x) |-> x[i]] BY <1>1
<1> QED BY <1>1, <1>2, <1>3

\* The bytes of a run that ends in time are bytes of the source.
LEMMA RunBytes ==
  ASSUME NEW x, NEW a \in Nat, NEW b \in Nat, Run(x, a, b), b <= MaxBytes
  PROVE  x \in Seq(Bytes)
<1>1. MaxBytes \in Nat BY ByteAssumption
<1>2. x \in Seq(Nat) /\ Len(x) \in Nat /\ b = a + Len(x) BY DEF Run
<1>3. \A i \in 1..Len(x) : x[i] \in Bytes
  <2> SUFFICES ASSUME NEW i \in 1..Len(x) PROVE x[i] \in Bytes OBVIOUS
  <2>1. x[i] = a + i BY DEF Run
  <2> QED BY <1>1, <1>2, <2>1 DEF Bytes
<1>4. x = [i \in 1..Len(x) |-> x[i]] BY <1>2
<1> QED BY <1>2, <1>3, <1>4

\* The bytes of the queue and of the descriptor under way are bytes of the source.
LEMMA HeldBytes ==
  ASSUME NEW s, Fields(s), NEW q, LineTo(s, q), q <= MaxBytes
  PROVE  HeadBytes(s) \in Seq(Bytes) /\ s.queue \in Seq(Seq(Bytes) \ {<<>>})
<1>1. PICK g \in Nat, h \in Nat : /\ Consecutive(s.got, 0, g) /\ Run(HeadBytes(s), g, h)
                                  /\ Consecutive(s.queue, h, q)
  BY DEF LineTo
<1>2. h <= q /\ q \in Nat BY <1>1, Ends
<1>3. h <= MaxBytes /\ MaxBytes \in Nat BY <1>2, ByteAssumption
<1>4. HeadBytes(s) \in Seq(Bytes) BY <1>1, <1>3, RunBytes
<1>5. PICK o : Marks(s.queue, h, q, o) BY <1>1 DEF Consecutive
<1> DEFINE z == s.queue
<1>6. z \in Seq(Seq(Nat) \ {<<>>}) /\ Len(z) \in Nat BY DEF Fields
<1>7. ASSUME NEW i \in 1..Len(z) PROVE z[i] \in Seq(Bytes) \ {<<>>}
  <2>1. z[i] # <<>> BY <1>6
  <2>2. i - 1 \in 0..Len(z) /\ i \in 0..Len(z) /\ Len(z) \in 0..Len(z) /\ i <= Len(z) BY <1>6
  <2>3. o[i - 1] \in Nat /\ o[i] \in Nat /\ o[i] <= o[Len(z)] /\ o[Len(z)] = q
        /\ Run(z[i], o[i - 1], o[i])
    BY <1>5, <2>2 DEF Marks
  <2>4. o[i] <= MaxBytes BY <2>3, <1>2, <1>3
  <2>5. z[i] \in Seq(Bytes) BY <2>3, <2>4, RunBytes
  <2> QED BY <2>1, <2>5
<1>8. z \in Seq(Seq(Bytes) \ {<<>>})
  <2> DEFINE S == Seq(Bytes) \ {<<>>}
  <2>1. z = [i \in 1..Len(z) |-> z[i]] BY <1>6
  <2>2. \A i \in 1..Len(z) : z[i] \in S BY <1>7
  <2> HIDE DEF S, z
  <2>3. PICK n \in Nat : n = Len(z) BY <1>6
  <2>4. z \in [1..n -> S] BY <2>1, <2>2, <2>3
  <2>5. z \in Seq(S) BY <2>4
  <2> QED BY <2>5 DEF S
<1> QED BY <1>4, <1>8

\* The invariant gives the types.
LEMMA IInvTypes ==
  ASSUME IInv
  PROVE  TypeOK
<1>1. HistoryInv(stream, produced, readers) /\ Len(asked) <= MaxReads
  BY DEF IInv, Sound
<1>2. Fields(stream) /\ DescriptorInv(stream) /\ RequestInv(stream, asked)
      /\ AnswerInv(stream, asked)
  BY DEF IInv, Sound, Core, Parts
<1>3. PICK q \in Nat : q <= produced /\ LineTo(stream, q) BY <1>1 DEF HistoryInv
<1>4. produced \in 0..MaxBytes /\ readers \in Seq({"default", "byob"}) /\ MaxBytes \in Nat
  BY <1>1, ByteAssumption DEF HistoryInv
<1>5. q <= MaxBytes BY <1>3, <1>4
<1>6. HeadBytes(stream) \in Seq(Bytes) /\ stream.queue \in Seq(Seq(Bytes) \ {<<>>})
  BY <1>2, <1>3, <1>5, HeldBytes
<1>7. stream.pendingPullIntos \in Seq(PullIntos)
  <2> DEFINE p == stream.pendingPullIntos
  <2>1. p \in Seq(Descriptors) /\ Len(p) \in Nat BY <1>2 DEF Fields
  <2>2. ASSUME NEW i \in 1..Len(p) PROVE p[i] \in PullIntos
    <3>1. p[i] \in Descriptors BY <2>1
    <3>2. p[i].bytes \in Seq(Bytes)
      <4>1. CASE i = 1
        <5>1. p # <<>> BY <4>1
        <5> QED BY <4>1, <5>1, <1>6 DEF HeadBytes
      <4>2. CASE i # 1
        <5>1. p[i].bytes = <<>> BY <4>2, <1>2 DEF DescriptorInv
        <5> QED BY <5>1
      <4> QED BY <4>1, <4>2
    <3> QED BY <3>1, <3>2 DEF Descriptors, PullIntos, Numbers
  <2>3. p = [i \in 1..Len(p) |-> p[i]] BY <2>1
  <2> HIDE DEF p
  <2>4. p \in Seq(PullIntos) BY <2>1, <2>2, <2>3
  <2> QED BY <2>4 DEF p
<1>8. stream.byobRequest => stream.pendingPullIntos # <<>> BY <1>2 DEF DescriptorInv
<1>9. /\ stream.readRequests # <<>> => readableStreamHasDefaultReader(stream)
      /\ stream.readIntoRequests # <<>> => readableStreamHasBYOBReader(stream)
  BY <1>2 DEF RequestInv, readableStreamHasDefaultReader, readableStreamHasBYOBReader
<1>10. {Len(stream.reads), Len(stream.got)} = {Len(asked)} BY <1>2 DEF Fields, AnswerInv
<1>11. stream.state \in {"readable", "closed", "errored"} BY <1>2 DEF Fields
<1> QED BY <1>1, <1>4, <1>6, <1>7, <1>8, <1>9, <1>10, <1>11 DEF TypeOK

\* When all readers are of one kind and the last is a default reader, nothing but reads of
\* default readers has touched the stream.
LEMMA OneKindDefault ==
  ASSUME IInv, OneKind, stream.reader, ~stream.byob
  PROVE  DefaultOnly(stream)
<1>1. /\ readers \in Seq({"default", "byob"})
      /\ readers # <<>> /\ stream.byob = (readers[Len(readers)] = "byob")
      /\ (\A i \in 1..Len(readers) : readers[i] = "default") => DefaultOnly(stream)
  BY DEF IInv, Sound, HistoryInv
<1>2. Len(readers) \in DOMAIN readers /\ DOMAIN readers = 1..Len(readers) BY <1>1
<1>3. readers[Len(readers)] \in {"default", "byob"} BY <1>1, <1>2
<1>4. readers[Len(readers)] = "default" BY <1>1, <1>3
<1>5. \A i \in 1..Len(readers) : readers[i] = "default" BY <1>2, <1>4 DEF OneKind
<1> QED BY <1>1, <1>5

\* The invariant shows that no assertion fails.
LEMMA IInvAsserts ==
  ASSUME IInv
  PROVE  NoAssertFails
<1>1. stream.failed => stream.reader /\ ~stream.byob /\ ~DefaultOnly(stream)
  BY DEF IInv, Sound, HistoryInv
<1>2. ASSUME OneKind, stream.failed PROVE FALSE
  <2>1. stream.reader /\ ~stream.byob /\ ~DefaultOnly(stream) BY <1>1, <1>2
  <2> QED BY <2>1, <1>2, OneKindDefault
<1> QED BY <1>2 DEF NoAssertFails

\* The invariant shows that the bytes are kept.
LEMMA IInvBytes ==
  ASSUME IInv
  PROVE  BytesKept
<1> DEFINE got == FlattenSeq(stream.got)
           all == [i \in 1 .. produced |-> i]
<1>1. HistoryInv(stream, produced, readers) BY DEF IInv, Sound
<1>2. Fields(stream) /\ AnswerInv(stream, asked) BY DEF IInv, Sound, Core, Parts
<1>3. PICK q \in Nat : q <= produced /\ LineTo(stream, q)
                       /\ (Whole(stream, readers) => q = produced)
  BY <1>1 DEF HistoryInv
<1>4. produced \in Nat BY <1>1 DEF HistoryInv
<1>5. PICK g \in Nat, h \in Nat :
        /\ Consecutive(stream.got, 0, g) /\ Run(HeadBytes(stream), g, h)
        /\ Consecutive(stream.queue, h, q)
  BY <1>3 DEF LineTo
<1>6. got = [i \in 1..g |-> i] /\ Len(got) = g /\ Run(got, 0, g)
  <2>1. FlattenSeq(stream.got) = [i \in 1..(g - 0) |-> 0 + i]
        /\ Len(FlattenSeq(stream.got)) = g - 0 /\ Run(FlattenSeq(stream.got), 0, g)
    BY <1>5, Ends
  <2> HIDE DEF got
  <2>2. got = [i \in 1..(g - 0) |-> 0 + i] /\ Len(got) = g - 0 /\ Run(got, 0, g)
    BY <2>1 DEF got
  <2>3. g - 0 = g /\ \A i \in 1..g : 0 + i = i OBVIOUS
  <2> QED BY <2>2, <2>3
<1>7. Run(FlattenSeq(stream.queue), h, q) /\ h <= q BY <1>5, Ends
<1>8. g <= h BY <1>5 DEF Run
<1>9. got = SubSeq(all, 1, Len(got))
  <2>1. g <= produced BY <1>3, <1>4, <1>7, <1>8
  <2>2. all \in Seq(Nat) /\ Len(all) = produced /\ \A i \in 1..produced : all[i] = i
    BY <1>4
  <2> HIDE DEF all, got
  <2>3. Len(SubSeq(all, 1, g)) = g /\ SubSeq(all, 1, g) \in Seq(Nat)
        /\ \A i \in 1..g : SubSeq(all, 1, g)[i] = i
    BY <2>1, <2>2, <1>4
  <2>4. SubSeq(all, 1, g) = [i \in 1..g |-> i]
    <3>1. SubSeq(all, 1, g) = [i \in 1..Len(SubSeq(all, 1, g)) |-> SubSeq(all, 1, g)[i]]
      BY <2>3
    <3> QED BY <2>3, <3>1
  <2> QED BY <2>4, <1>6
<1>10. ASSUME Whole(stream, readers) PROVE got \o Held = all
  <2> DEFINE flat == FlattenSeq(stream.queue)
             head == HeadBytes(stream)
  <2>1. q = produced BY <1>3, <1>10
  <2>2. Held = head \o flat
    <3>1. stream.pendingPullIntos # <<>> =>
            Head(stream.pendingPullIntos) = stream.pendingPullIntos[1]
      BY <1>2 DEF Fields
    <3> QED BY <3>1 DEF Held, HeadBytes
  <2> HIDE DEF got, head, flat
  <2>3. Run(head, g, h) /\ Run(flat, h, q) /\ Run(got, 0, g) BY <1>5, <1>6, <1>7 DEF head, flat
  <2>4. Run(head \o flat, g, q) BY <2>3, RunConcat
  <2>5. PICK z \in Nat : z = 0 OBVIOUS
  <2>6. Run(got, z, g) BY <2>3, <2>5
  <2>7. Run(got \o (head \o flat), z, q) BY <2>4, <2>6, RunConcat
  <2>8. got \o (head \o flat) = [i \in 1..(q - z) |-> z + i] BY <2>7, RunIs
  <2>9. q - z = produced /\ \A i \in 1..produced : z + i = i BY <2>1, <2>5
  <2> QED BY <2>2, <2>8, <2>9
<1>11. stream.state = "readable"
         \/ (/\ stream.state = "closed" /\ stream.cancel = "none" /\ stream.reader
             /\ Len(readers) = 1)
       => Whole(stream, readers)
  <2>1. CASE stream.state = "readable" BY <2>1 DEF Whole
  <2>2. ASSUME stream.state = "closed", stream.cancel = "none", stream.reader,
               Len(readers) = 1
        PROVE  Whole(stream, readers)
    <3>1. Len(readers) <= 1 BY <2>2
    <3> QED BY <2>2, <3>1 DEF Whole
  <2> QED BY <2>1, <2>2
<1>12. \A i \in DOMAIN asked :
         /\ Len(stream.got[i]) % asked[i].elementSize = 0
         /\ stream.reads[i] = Filled => Len(stream.got[i]) >= asked[i].minimumFill
  <2>1. DOMAIN asked = 1..Len(asked) BY <1>2 DEF AnswerInv
  <2> QED BY <2>1, <1>2 DEF AnswerInv
<1> HIDE DEF got, all
<1>13. (stream.state = "readable"
         \/ (/\ stream.state = "closed" /\ stream.cancel = "none" /\ stream.reader
             /\ Len(readers) = 1))
       => got \o Held = all
  BY <1>10, <1>11
<1> QED BY <1>9, <1>12, <1>13 DEF BytesKept, got, all

\* The invariant shows that no read is stranded.
LEMMA IInvReads ==
  ASSUME IInv
  PROVE  NoReadStranded
<1>1. PICK q \in Nat : Core(stream, asked, q) BY DEF IInv, Sound
<1>2. BetweenCalls(stream) /\ HistoryInv(stream, produced, readers) BY DEF IInv, Sound
<1>3. Fields(stream) /\ ControllerInv(stream) /\ DescriptorInv(stream)
      /\ RequestInv(stream, asked)
  BY <1>1 DEF Core, Parts
<1>4. ASSUME stream.readIntoRequests # <<>>
      PROVE  stream.pendingPullIntos # <<>> /\ stream.reader /\ stream.byob
  <2>1. stream.reader /\ stream.byob BY <1>3, <1>4 DEF RequestInv
  <2>2. Len(stream.readIntoRequests) = Len(stream.pendingPullIntos) - NoneHead(stream)
    BY <2>1, <1>3 DEF DescriptorInv
  <2>3. Len(stream.readIntoRequests) \in Nat /\ Len(stream.readIntoRequests) # 0
    BY <1>3, <1>4 DEF Fields
  <2>4. stream.pendingPullIntos # <<>> BY <2>2, <2>3 DEF NoneHead
  <2> QED BY <2>1, <2>4
<1>5. ASSUME OneKind, stream.queue # <<>> PROVE ~Waiting(stream)
  <2>1. stream.state = "readable" /\ stream.pendingPullIntos = <<>>
    BY <1>2, <1>3, <1>5 DEF ControllerInv, BetweenCalls
  <2>2. stream.readIntoRequests = <<>> BY <2>1, <1>4
  <2>3. ASSUME stream.readRequests # <<>> PROVE FALSE
    <3>1. stream.reader /\ ~stream.byob BY <2>3, <1>3 DEF RequestInv
    <3>2. DefaultOnly(stream) BY <3>1, <1>5, OneKindDefault
    <3> QED BY <3>2, <2>1, <2>3, <1>5 DEF DefaultOnly
  <2> QED BY <2>2, <2>3 DEF Waiting
<1>6. ASSUME stream.state = "closed", Waiting(stream)
      PROVE  /\ stream.pendingPullIntos # <<>>
             /\ LET s == readableByteStreamControllerRespondInternal(stream, <<>>)
                IN ~s.failed /\ ~Waiting(s)
  <2>1. stream.readRequests = <<>> BY <1>3, <1>6 DEF RequestInv
  <2>2. stream.readIntoRequests # <<>> BY <2>1, <1>6 DEF Waiting
  <2>3. stream.pendingPullIntos # <<>> /\ stream.reader /\ stream.byob BY <2>2, <1>4
  <2>4. stream.failed = FALSE BY <2>3, <1>2, <1>3 DEF HistoryInv, Fields
  <2> QED BY <1>1, <1>2, <1>6, <2>3, <2>4, RespondEnds
<1> QED BY <1>5, <1>6 DEF NoReadStranded

-----------------------------------------------------------------------------
(* The theorems. *)

\* The invariant holds at the start.
LEMMA IInvInit ==
  ASSUME Init
  PROVE  IInv
<1>1. PICK h \in HWMs, auto \in AutoSizes : stream = setUpReadableByteStreamController(h, auto)
  BY DEF Init
<1>2. produced = 0 /\ asked = <<>> /\ readers = <<>> BY DEF Init
<1>3. h \in Nat /\ auto \in Nat /\ MaxReads \in Nat BY ByteAssumption
<1>4. Sound(stream, <<>>, 0, <<>>) BY <1>1, <1>3, StartsSound
<1>5. Len(asked) = 0 BY <1>2
<1> QED BY <1>2, <1>3, <1>4, <1>5 DEF IInv

\* Every step keeps it, and tells the source when bytes are wanted.
LEMMA IInvNext ==
  ASSUME IInv, Next
  PROVE  IInv' /\ Told(stream, stream')
BY UsersKeep, SourceKeeps, CallbacksKeep DEF Next

\* The invariant holds throughout.
LEMMA IInvCorrect == Spec => []IInv
<1>1. Init => IInv BY IInvInit
<1>2. IInv /\ [Next]_vars => IInv'
  <2>1. ASSUME IInv, UNCHANGED vars PROVE IInv'
    BY <2>1 DEF vars, IInv
  <2> QED BY <2>1, IInvNext
<1> QED BY <1>1, <1>2, PTL DEF Spec

\* The stream, its queue and its descriptors hold bytes of the source and have their types;
\* requests belong to the reader that holds the lock, and the BYOB request of the source
\* to a descriptor.
THEOREM ByteTypeOK == Spec => []TypeOK
<1>1. IInv => TypeOK BY IInvTypes
<1> QED BY <1>1, IInvCorrect, PTL

\* No assert() of the byte stream fails in any order of enqueue(), respond(), close(),
\* error(), read(), cancel() and releaseLock(), when all readers are of one kind.
THEOREM ByteAsserts == Spec => []NoAssertFails
<1>1. IInv => NoAssertFails BY IInvAsserts
<1> QED BY <1>1, IInvCorrect, PTL

\* The reads receive the bytes the source enqueues or writes into views in order, each
\* once, in whole elements and with the minimum they asked for.
THEOREM ByteOrder == Spec => []BytesKept
<1>1. IInv => BytesKept BY IInvBytes
<1> QED BY <1>1, IInvCorrect, PTL

\* No read waits for bytes that are in the queue, and one respond(0) after close() ends
\* every read into a view.
THEOREM ByteReads == Spec => []NoReadStranded
<1>1. IInv => NoReadStranded BY IInvReads
<1> QED BY <1>1, IInvCorrect, PTL

\* When the stream comes to want bytes, or a read begins to wait, pull() is called, or
\* called again after the call under way; only a read into a view behind another leaves
\* it to the BYOB request of that one.  A pull() that settles is followed by the one asked
\* for in the meantime, as long as bytes are wanted.
THEOREM BytePulls == Spec => PullNotLost
<1> DEFINE A == Wants' =>
                  /\ ~Wants \/ Requests(stream') > Requests(stream) =>
                       \/ stream'.pull = "pending"
                            /\ (stream.pull = "pending" => stream'.pullAgain)
                       \/ stream.byob /\ stream.pendingPullIntos # <<>>
                  /\ stream.pullAgain => stream'.pull = "pending"
<1>1. IInv /\ [Next]_vars => [A]_vars
  <2>1. ASSUME IInv, Next PROVE A
    <3>1. Told(stream, stream') BY <2>1, IInvNext
    <3> QED BY <3>1 DEF Told, Wants
  <2> QED BY <2>1
<1>2. Spec => []IInv BY IInvCorrect
<1>3. Spec => [][A]_vars BY <1>1, <1>2, PTL DEF Spec
<1> QED BY <1>3 DEF PullNotLost
=============================================================================
