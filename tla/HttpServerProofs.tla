-------------------------- MODULE HttpServerProofs ---------------------------
(***************************************************************************)
(* What HttpServer promises for any number of connections, records and     *)
(* requests, any capacity of the channel and any size of the pool.         *)
(***************************************************************************)
EXTENDS HttpServer, FiniteSetTheorems, SequenceTheorems, TLAPS

USE NoRecordAssumption, BoundAssumption
    DEF record, channel, server, connVars, jsVars

\* The conjuncts of TypeOK, by component.
ConnTypes ==
  /\ conn \in [Conns -> ConnPhases]
  /\ draining \in [Conns -> BOOLEAN]
  /\ rec \in [Conns -> Records \cup {NoRecord}]
  /\ sent \in 0..MaxRequests
RecordTypes ==
  /\ inner \in [Records -> Inner]
  /\ refs \in [Records -> SUBSET Holders]
  /\ pool \in Seq(Records)
  /\ panic \in Panics
ChannelTypes ==
  /\ queue \in Seq(Records) /\ Len(queue) <= ChannelCap
  /\ senders \in Seq(Conns)
JsTypes ==
  js \in [Records -> JsPhases] /\ answering \in [Records -> Nat] /\ stray \in BOOLEAN
FlagTypes ==
  /\ table \in BOOLEAN /\ joinTaken \in BOOLEAN /\ listenCancel \in BOOLEAN
  /\ connCancel \in BOOLEAN /\ closed \in BOOLEAN
ServerTypes ==
  /\ acceptor \in {"running", "canceled", "failed"}
  /\ loop \in LoopPhases
  /\ closing \in {"none", "graceful", "forceful"}
  /\ closeOp \in {"none", "drain", "yield", "join", "done", "failed"}
  /\ drainWaker \in {"none", "set", "woken"}

\* TypeOK is the conjunction of its parts.
LEMMA TypeParts ==
  TypeOK <=> /\ ConnTypes /\ RecordTypes /\ ChannelTypes
             /\ JsTypes /\ FlagTypes /\ ServerTypes
<1>1. {table, joinTaken, listenCancel, connCancel, closed, stray} \subseteq BOOLEAN
        <=> FlagTypes /\ stray \in BOOLEAN
  BY Zenon DEF FlagTypes
<1> QED BY <1>1, Zenon DEF TypeOK, ConnTypes, RecordTypes, ChannelTypes, JsTypes, ServerTypes

-----------------------------------------------------------------------------
(* The operators of a record. *)

\* The strong count of the server state is a number, and it is 1 exactly when the
\* HttpJoinHandle is the last that holds the state.
Quiet ==
  /\ acceptor # "running"
  /\ \A c \in Conns : ~Open(c)
  /\ \A r \in Records : ~Live(r)

\* The count as a number.
LEMMA CountType == StrongCount \in Nat /\ StrongCount >= 1 /\ (StrongCount = 1 <=> Quiet)
<1> DEFINE C == {c \in Conns : Open(c)}
           R == {r \in Records : Live(r)}
<1>1. IsFiniteSet(C) /\ IsFiniteSet(R) BY FiniteAssumption, FS_Subset
<1>2. Cardinality(C) \in Nat /\ Cardinality(R) \in Nat BY <1>1, FS_CardinalityType
<1>3. (Cardinality(C) = 0 <=> C = {}) /\ (Cardinality(R) = 0 <=> R = {})
  BY <1>1, FS_EmptySet
<1>4. Quiet <=> acceptor # "running" /\ C = {} /\ R = {} BY DEF Quiet
<1>5. StrongCount = 1 + (IF acceptor = "running" THEN 1 ELSE 0) + Cardinality(C) + Cardinality(R)
  BY DEF StrongCount
<1> QED BY <1>2, <1>3, <1>4, <1>5

\* Fields of a record that is written.
LEMMA InnerFields ==
  ASSUME NEW i \in Inner
  PROVE  /\ [i EXCEPT !.response_ready = TRUE] \in Inner
         /\ [i EXCEPT !.been_dropped = TRUE] \in Inner
         /\ [i EXCEPT !.body_finished = TRUE] \in Inner
         /\ [i EXCEPT !.needs_close = TRUE] \in Inner
         /\ [i EXCEPT !.upgrade = TRUE] \in Inner
BY DEF Inner

\* Fields of a record that is freed or new.
LEMMA InnerNew == NoInner \in Inner /\ \A n \in Nat : Fresh(n) \in Inner
BY DEF Inner, NoInner, Fresh

\* What recycle() leaves in the pool is a shorter pool, the pool, or the pool with
\* the record at its end.
LEMMA PooledShape ==
  ASSUME NEW r \in Records, pool \in Seq(Records)
  PROVE  \/ Pooled(r) = Append(pool, r)
         \/ \E n \in 0..Len(pool) : Pooled(r) = SubSeq(pool, 1, n)
<1> DEFINE target == PoolBase + (StrongCount \div 8)
<1>1. target \in Nat BY CountType
<1>2. Len(pool) \in Nat /\ SubSeq(pool, 1, Len(pool)) = pool BY SubSeqFull
<1>3. CASE target > Len(pool) BY <1>3 DEF Pooled
<1>4. CASE ~(target > Len(pool)) /\ target < Len(pool) - PoolSlack
  <2>1. Pooled(r) = SubSeq(pool, 1, target) BY <1>4 DEF Pooled
  <2>2. target \in 0..Len(pool) BY <1>1, <1>2, <1>4
  <2> QED BY <2>1, <2>2
<1>5. CASE ~(target > Len(pool)) /\ ~(target < Len(pool) - PoolSlack)
  <2>1. Pooled(r) = pool BY <1>5 DEF Pooled
  <2>2. Len(pool) \in 0..Len(pool) BY <1>2
  <2> QED BY <1>2, <2>1, <2>2
<1> QED BY <1>3, <1>4, <1>5

\* A prefix of the pool holds what the pool holds.
LEMMA PoolPrefix ==
  ASSUME NEW s \in Seq(Records), NEW n \in 0..Len(s)
  PROVE  /\ SubSeq(s, 1, n) \in Seq(Records) /\ Len(SubSeq(s, 1, n)) = n
         /\ \A k \in 1..n : SubSeq(s, 1, n)[k] = s[k]
<1>1. Len(s) \in Nat /\ n \in Int /\ \A k \in 1..n : s[k] \in Records OBVIOUS
<1> QED BY <1>1, SubSeqProperties

\* Consuming a reference keeps the types of the records.
LEMMA RecordOpTypes ==
  ASSUME RecordTypes, NEW r \in Records, NEW S, NEW h, S \ {h} \subseteq Holders,
         NEW i \in Inner,
         \/ Release(r, S, h, i) \/ Finish(r, S, h, i)
         \/ Cancel(r, S, h, i) \/ Complete(r, S, h, i) \/ Recycle(r, S, h)
  PROVE  RecordTypes'
<1>1. ASSUME NEW j \in Inner, Release(r, S, h, j) PROVE RecordTypes'
  BY <1>1, InnerNew DEF Release, RecordTypes
<1>2. ASSUME Recycle(r, S, h) PROVE RecordTypes'
  <2>1. CASE S # {h} BY <1>2, <2>1 DEF Recycle, RecordTypes, Panics
  <2>2. CASE S = {h}
    <3>0. pool \in Seq(Records) BY DEF RecordTypes
    <3>1. Pooled(r) \in Seq(Records)
      <4>1. CASE Pooled(r) = Append(pool, r) BY <3>0, <4>1
      <4>2. ASSUME NEW n \in 0..Len(pool), Pooled(r) = SubSeq(pool, 1, n)
            PROVE  Pooled(r) \in Seq(Records)
        BY <3>0, <4>2, PoolPrefix
      <4> QED BY <3>0, <4>1, <4>2, PooledShape
    <3> QED BY <1>2, <2>2, <3>1, InnerNew DEF Recycle, RecordTypes
  <2> QED BY <2>1, <2>2
<1>3. ASSUME Finish(r, S, h, i) PROVE RecordTypes'
  BY <1>1, <1>2, <1>3, InnerFields DEF Finish
<1>4. ASSUME Cancel(r, S, h, i) PROVE RecordTypes'
  BY <1>1, <1>3, <1>4, InnerFields DEF Cancel
<1>5. ASSUME Complete(r, S, h, i) PROVE RecordTypes'
  <2>1. CASE i.response_ready BY <1>5, <2>1 DEF Complete, RecordTypes, Panics
  <2>2. CASE ~i.response_ready BY <1>1, <1>3, <1>5, <2>2, InnerFields DEF Complete
  <2> QED BY <2>1, <2>2
<1> QED BY <1>1, <1>2, <1>3, <1>4, <1>5

-----------------------------------------------------------------------------
(* The invariant: who holds a record. *)

\* Where JavaScript holds the record itself.
JsHolds == {"handler", "streaming", "finished", "threw", "leaked"}

\* A record with the holders S, the fields i and the phase p of its handler: it is
\* alive while somebody holds it, it is with JavaScript in one place at a time and
\* only after the channel, and its fields say what the holders still have to do.
RecordOK(S, i, p) ==
  /\ i.req # 0 <=> S # {}
  /\ "js" \in S <=> p \in JsHolds
  /\ "op" \in S <=> p = "streaming"
  /\ "task" \in S <=> p = "raw"
  /\ "send" \in S => S = {"conn", "send"}
  /\ "queue" \in S => S \subseteq {"conn", "queue"}
  /\ i.response_ready =>
       "send" \notin S /\ "queue" \notin S /\ p \in {"none", "streaming", "finished"}
  /\ i.needs_close <=> p \in {"streaming", "finished"}
  /\ i.body_finished \/ i.been_dropped => "conn" \notin S
  /\ p = "finished" => i.body_finished

\* The holders named in refs are there, and a handler has the request it was given.
PlaceOK(r) ==
  /\ "conn" \in refs[r] <=> \E c \in Conns : rec[c] = r
  /\ "send" \in refs[r] <=> \E c \in Conns : rec[c] = r /\ conn[c] = "sending"
  /\ "queue" \in refs[r] <=> \E k \in 1..Len(queue) : queue[k] = r
  /\ js[r] # "none" => answering[r] = inner[r].req

RecordInv == \A r \in Records : RecordOK(refs[r], inner[r], js[r]) /\ PlaceOK(r)

\* A connection has a record exactly while it serves a request, one of its own.
ConnInv ==
  /\ \A c \in Conns : rec[c] = NoRecord <=> conn[c] \in {"new", "idle", "closed"}
  /\ \A c, d \in Conns : rec[c] = rec[d] /\ rec[c] # NoRecord => c = d
  /\ \A c \in Conns : conn[c] = "responding" => inner[rec[c]].response_ready
  /\ \A c \in Conns : conn[c] = "sending" => \E k \in 1..Len(senders) : senders[k] = c

\* Nothing is twice in the channel or in the pool, and nobody holds what is pooled.
QueueInv == \A k, m \in 1..Len(queue) : queue[k] = queue[m] => k = m
PoolInv ==
  /\ \A k, m \in 1..Len(pool) : pool[k] = pool[m] => k = m
  /\ \A k \in 1..Len(pool) : refs[pool[k]] = {}

Own == TypeOK /\ RecordInv /\ ConnInv /\ QueueInv /\ PoolInv

\* Who can hold a record, by what JavaScript does with it.
LEMMA JsRefs ==
  ASSUME Own, NEW r \in Records
  PROVE  /\ js[r] = "handler" => "js" \in refs[r] /\ refs[r] \subseteq {"conn", "js"}
         /\ js[r] = "streaming" =>
              {"js", "op"} \subseteq refs[r] /\ refs[r] \subseteq {"conn", "js", "op"}
         /\ js[r] = "finished" => refs[r] = {"js"}
         /\ js[r] = "raw" => "task" \in refs[r] /\ refs[r] \subseteq {"conn", "task"}
         /\ js[r] = "threw" => "js" \in refs[r]
<1>1. refs[r] \subseteq Holders BY DEF Own, TypeOK
<1>2. RecordOK(refs[r], inner[r], js[r]) /\ PlaceOK(r) BY DEF Own, RecordInv
<1> QED BY <1>1, <1>2 DEF RecordOK, JsHolds, Holders

\* A connection that serves a request holds a record of its own.
LEMMA ConnRefs ==
  ASSUME Own, NEW c \in Conns
  PROVE  /\ conn[c] \in {"sending", "waiting", "responding"} =>
              rec[c] \in Records /\ "conn" \in refs[rec[c]]
         /\ conn[c] = "sending" => refs[rec[c]] = {"conn", "send"}
         /\ conn[c] = "waiting" => "send" \notin refs[rec[c]]
         /\ conn[c] = "responding" =>
              /\ inner[rec[c]].response_ready
              /\ "send" \notin refs[rec[c]] /\ "queue" \notin refs[rec[c]]
<1>1. rec[c] \in Records \cup {NoRecord} /\ conn[c] \in ConnPhases BY DEF Own, TypeOK
<1>2. conn[c] \in {"sending", "waiting", "responding"} => rec[c] \in Records
  BY <1>1 DEF Own, ConnInv
<1>3. conn[c] \in {"sending", "waiting", "responding"} =>
        RecordOK(refs[rec[c]], inner[rec[c]], js[rec[c]]) /\ PlaceOK(rec[c])
  BY <1>2 DEF Own, RecordInv
<1>4. conn[c] = "responding" => inner[rec[c]].response_ready BY DEF Own, ConnInv
<1>5. ASSUME conn[c] = "waiting" PROVE "send" \notin refs[rec[c]]
  <2>1. ASSUME NEW d \in Conns, rec[d] = rec[c], conn[d] = "sending" PROVE FALSE
    <3>1. rec[c] # NoRecord BY <1>2, <1>5
    <3>2. d = c BY <2>1, <3>1 DEF Own, ConnInv
    <3> QED BY <1>5, <2>1, <3>2
  <2> QED BY <1>3, <1>5, <2>1 DEF PlaceOK
<1> QED BY <1>2, <1>3, <1>4, <1>5 DEF RecordOK, PlaceOK

-----------------------------------------------------------------------------
(* Types. *)

\* Dropping the last HttpJoinHandle keeps the types of records and channel.
LEMMA DropHandleTypes ==
  ASSUME TypeOK, NEW q \in Seq(Records), Len(q) <= ChannelCap,
         NEW f \in [Records -> SUBSET Holders], NEW l, NEW k, DropHandle(q, f, l, k)
  PROVE  /\ inner' \in [Records -> Inner]
         /\ refs' \in [Records -> SUBSET Holders]
         /\ queue' \in Seq(Records) /\ Len(queue') <= ChannelCap
         /\ listenCancel' \in BOOLEAN /\ connCancel' \in BOOLEAN
<1>1. refs' \in [Records -> SUBSET Holders] BY DEF DropHandle
<1>2. inner' \in [Records -> Inner] BY InnerNew DEF DropHandle, TypeOK
<1>3. queue' \in Seq(Records) /\ Len(queue') <= ChannelCap BY DEF DropHandle
<1>4. listenCancel' \in BOOLEAN /\ connCancel' \in BOOLEAN BY Zenon DEF DropHandle
<1> QED BY <1>1, <1>2, <1>3, <1>4

\* A request taken from the channel keeps the types.
LEMMA TakeTypes ==
  ASSUME TypeOK, queue # <<>>
  PROVE  /\ Head(queue) \in Records
         /\ Tail(queue) \in Seq(Records) /\ Len(Tail(queue)) <= ChannelCap
         /\ GivenToJs \in [Records -> SUBSET Holders]
<1>1. queue \in Seq(Records) /\ Len(queue) <= ChannelCap /\ refs \in [Records -> SUBSET Holders]
  BY DEF TypeOK
<1>2. Head(queue) \in Records /\ Tail(queue) \in Seq(Records) /\ Len(Tail(queue)) = Len(queue) - 1
  BY <1>1
<1>3. Len(Tail(queue)) <= ChannelCap BY <1>1, <1>2
<1>4. GivenToJs \in [Records -> SUBSET Holders] BY <1>1 DEF GivenToJs, Holders
<1> QED BY <1>2, <1>3, <1>4

\* The waker of the server state.
LEMMA SignalTypes == ASSUME TypeOK, Signal PROVE drainWaker' \in {"none", "set", "woken"}
BY DEF Signal, TypeOK

\* The accept task and the connections keep the types.
LEMMA TypeConn ==
  ASSUME Own, NEW c \in Conns,
         Accept(c) \/ Request(c) \/ ConnStep(c) \/ Disconnect(c)
  PROVE  TypeOK'
<1>0. /\ ConnTypes /\ RecordTypes /\ ChannelTypes
      /\ JsTypes /\ FlagTypes /\ ServerTypes
  BY TypeParts DEF Own
<1>q. ASSUME ConnTypes', RecordTypes', ChannelTypes', UNCHANGED <<jsVars, loop, table,
         joinTaken, listenCancel, connCancel, closing, closed, closeOp>>,
         acceptor' \in {"running", "canceled", "failed"},
         drainWaker' \in {"none", "set", "woken"}
      PROVE  TypeOK'
  <2>1. JsTypes' BY <1>0, <1>q DEF JsTypes
  <2>2. FlagTypes' BY <1>0, <1>q DEF FlagTypes
  <2>3. ServerTypes' BY <1>0, <1>q DEF ServerTypes
  <2> QED BY <1>q, <2>1, <2>2, <2>3
        DEF TypeOK, ConnTypes, RecordTypes, ChannelTypes, JsTypes, FlagTypes, ServerTypes
<1>1. CASE Accept(c)
  <2>1. ConnTypes' BY <1>0, <1>1 DEF Accept, ConnTypes, ConnPhases
  <2>2. RecordTypes' /\ ChannelTypes' BY <1>0, <1>1 DEF Accept, RecordTypes, ChannelTypes
  <2>3. acceptor' \in {"running", "canceled", "failed"}
    BY <1>0, <1>1 DEF Accept, ServerTypes
  <2>4. drainWaker' \in {"none", "set", "woken"} BY <1>1, SignalTypes DEF Accept, Own
  <2> QED BY <1>1, <1>q, <2>1, <2>2, <2>3, <2>4 DEF Accept
<1>2. CASE Request(c)
  <2>1. CASE ~Held
    <3>1. panic' \in Panics BY <1>2, <2>1 DEF Request, Panics
    <3> QED BY <1>0, <1>2, <1>q, <2>1, <3>1
          DEF Request, ConnTypes, RecordTypes, ChannelTypes, ServerTypes
  <2>2. CASE Held
    <3> DEFINE room == senders = <<>> /\ Len(queue) < ChannelCap
    <3>1. PICK r \in Records :
             /\ pool' = IF pool # <<>> THEN Front(pool) ELSE pool
             /\ inner' = [inner EXCEPT ![r] = Fresh(sent + 1)]
             /\ rec' = [rec EXCEPT ![c] = r]
             /\ refs' = [refs EXCEPT ![r] = {"conn", IF room THEN "queue" ELSE "send"}]
             /\ conn' = [conn EXCEPT ![c] = IF room THEN "waiting" ELSE "sending"]
             /\ queue' = IF room THEN Append(queue, r) ELSE queue
             /\ senders' = IF room THEN senders ELSE Append(senders, c)
      BY <1>2, <2>2 DEF Request
    <3>2. sent' = sent + 1 /\ sent < MaxRequests /\ UNCHANGED <<draining, panic>>
      BY <1>2, <2>2 DEF Request
    <3>3. ConnTypes' BY <1>0, <3>1, <3>2 DEF ConnTypes, ConnPhases
    <3>4. pool' \in Seq(Records)
      <4>1. pool \in Seq(Records) BY <1>0 DEF RecordTypes
      <4>2. pool # <<>> => Len(pool) - 1 \in 0..Len(pool) BY <4>1
      <4> QED BY <3>1, <4>1, <4>2, PoolPrefix DEF Front
    <3>5. RecordTypes'
      <4>1. Fresh(sent + 1) \in Inner BY <1>0, InnerNew DEF ConnTypes
      <4>2. inner' \in [Records -> Inner] BY <1>0, <3>1, <4>1 DEF RecordTypes
      <4>3. refs' \in [Records -> SUBSET Holders] BY <1>0, <3>1 DEF RecordTypes, Holders
      <4> QED BY <1>0, <3>2, <3>4, <4>2, <4>3 DEF RecordTypes
    <3>6. ChannelTypes' BY <1>0, <3>1 DEF ChannelTypes
    <3>7. UNCHANGED <<jsVars, server, drainWaker>> BY <1>2 DEF Request
    <3> QED BY <1>0, <1>q, <3>3, <3>5, <3>6, <3>7 DEF ServerTypes
  <2> QED BY <2>1, <2>2
<1>3. CASE SendAdmitted(c)
  <2>0. /\ conn[c] = "sending"
        /\ UNCHANGED <<draining, rec, sent, inner, pool, jsVars, server, drainWaker>>
    BY <1>3 DEF SendAdmitted
  <2>1. CASE ~Held
    <3>1. panic' \in Panics BY <1>3, <2>1 DEF SendAdmitted, Panics
    <3> QED BY <1>0, <1>3, <1>q, <2>0, <2>1, <3>1
          DEF SendAdmitted, ConnTypes, RecordTypes, ChannelTypes, ServerTypes
  <2>2. CASE Held
    <3>1. rec[c] \in Records BY <2>0, ConnRefs
    <3>2. senders # <<>> BY <1>0, <2>0 DEF Own, ConnInv, ChannelTypes
    <3>3. ConnTypes' BY <1>0, <1>3, <2>0, <2>2 DEF SendAdmitted, ConnTypes, ConnPhases
    <3>4. RecordTypes' BY <1>0, <1>3, <2>0, <2>2 DEF SendAdmitted, RecordTypes, Holders
    <3>5. /\ Len(queue) < ChannelCap /\ queue' = Append(queue, rec[c])
          /\ senders' = Tail(senders)
      BY <1>3, <2>2 DEF SendAdmitted
    <3>6. ChannelTypes' BY <1>0, <3>1, <3>2, <3>5 DEF ChannelTypes
    <3> QED BY <1>0, <1>q, <2>0, <3>3, <3>4, <3>6 DEF ServerTypes
  <2> QED BY <2>1, <2>2
<1>4. CASE IntoResponse(c)
  <2>1. ConnTypes' BY <1>0, <1>4 DEF IntoResponse, ConnTypes, ConnPhases
  <2>2. RecordTypes' /\ ChannelTypes' BY <1>0, <1>4 DEF IntoResponse, RecordTypes, ChannelTypes
  <2> QED BY <1>0, <1>4, <1>q, <2>1, <2>2 DEF IntoResponse, ServerTypes
<1>5. CASE BodyEnds(c)
  <2>1. rec[c] \in Records BY <1>5, ConnRefs DEF BodyEnds
  <2>2. refs[rec[c]] \ {"conn"} \subseteq Holders /\ inner[rec[c]] \in Inner
    BY <1>0, <2>1 DEF RecordTypes
  <2>3. RecordTypes' BY <1>0, <1>5, <2>1, <2>2, RecordOpTypes DEF BodyEnds
  <2>4. ConnTypes' BY <1>0, <1>5 DEF BodyEnds, ConnTypes, ConnPhases
  <2>5. ChannelTypes' BY <1>0, <1>5 DEF BodyEnds, ChannelTypes
  <2>6. drainWaker' \in {"none", "set", "woken"} BY <1>5, SignalTypes DEF BodyEnds, Own
  <2> QED BY <1>0, <1>5, <1>q, <2>3, <2>4, <2>5, <2>6 DEF BodyEnds, ServerTypes
<1>6. CASE Open(c) /\ DropConn(c)
  <2>1. RecordTypes'
    <3>1. CASE conn[c] = "idle" BY <1>0, <1>6, <3>1 DEF DropConn, RecordTypes
    <3>2. CASE conn[c] # "idle"
      <4>1. conn[c] \in {"sending", "waiting", "responding"} BY <1>6, <3>2 DEF DropConn
      <4>2. rec[c] \in Records BY <4>1, ConnRefs
      <4>3. /\ refs[rec[c]] \ {"conn"} \subseteq Holders /\ inner[rec[c]] \in Inner
            /\ (refs[rec[c]] \ {"send"}) \ {"conn"} \subseteq Holders
        BY <1>0, <4>2 DEF RecordTypes
      <4>4. \/ Release(rec[c], refs[rec[c]] \ {"send"}, "conn", inner[rec[c]])
            \/ Cancel(rec[c], refs[rec[c]], "conn", inner[rec[c]])
            \/ Finish(rec[c], refs[rec[c]], "conn", inner[rec[c]])
        BY <1>6, <3>2 DEF DropConn
      <4> QED BY <1>0, <4>2, <4>3, <4>4, RecordOpTypes
    <3> QED BY <3>1, <3>2
  <2>2. ConnTypes' BY <1>0, <1>6 DEF DropConn, ConnTypes, ConnPhases
  <2>3. senders' \in Seq(Conns)
    <3>1. senders \in Seq(Conns) BY <1>0 DEF ChannelTypes
    <3>2. ASSUME NEW k \in DOMAIN senders PROVE RemoveAt(senders, k) \in Seq(Conns)
      <4>1. k \in 1..Len(senders) /\ Len(senders) \in Nat BY <3>1, <3>2
      <4>2. /\ \A m \in 1..(k - 1) : senders[m] \in Conns
            /\ \A m \in (k + 1)..Len(senders) : senders[m] \in Conns
        BY <3>1, <4>1
      <4>3. SubSeq(senders, 1, k - 1) \in Seq(Conns) BY <4>1, <4>2, SubSeqProperties
      <4>4. SubSeq(senders, k + 1, Len(senders)) \in Seq(Conns)
        BY <4>1, <4>2, SubSeqProperties
      <4> QED BY <4>3, <4>4, ConcatProperties DEF RemoveAt
    <3>3. senders' = senders \/ \E k \in DOMAIN senders : senders' = RemoveAt(senders, k)
      BY <1>6 DEF DropConn
    <3> QED BY <3>1, <3>2, <3>3
  <2>4. ChannelTypes' BY <1>0, <1>6, <2>3 DEF DropConn, ChannelTypes
  <2>5. drainWaker' \in {"none", "set", "woken"} BY <1>6, SignalTypes DEF DropConn, Own
  <2> QED BY <1>0, <1>6, <1>q, <2>1, <2>2, <2>4, <2>5 DEF DropConn, ServerTypes
<1>7. CASE ConnDrains(c)
  <2>1. ConnTypes'
    <3>1. draining' \in [Conns -> BOOLEAN] BY <1>0, <1>7 DEF ConnDrains, ConnTypes
    <3> QED BY <1>0, <1>7, <3>1 DEF ConnDrains, ConnTypes, ConnPhases
  <2>2. RecordTypes' /\ ChannelTypes' BY <1>0, <1>7 DEF ConnDrains, RecordTypes, ChannelTypes
  <2>3. drainWaker' \in {"none", "set", "woken"} BY <1>7, SignalTypes DEF ConnDrains, Own
  <2> QED BY <1>0, <1>7, <1>q, <2>1, <2>2, <2>3 DEF ConnDrains, ServerTypes
<1> QED BY <1>1, <1>2, <1>3, <1>4, <1>5, <1>6, <1>7 DEF ConnStep, ConnAborted, Disconnect

\* context.close() keeps them.
LEMMA CloseTypes ==
  ASSUME Own, CloseContext, js' \in [Records -> JsPhases], stray' \in BOOLEAN
  PROVE  TypeOK'
<1>0. /\ ConnTypes /\ RecordTypes /\ ChannelTypes
      /\ JsTypes /\ FlagTypes /\ ServerTypes
  BY TypeParts DEF Own
<1>1. /\ inner' \in [Records -> Inner] /\ refs' \in [Records -> SUBSET Holders]
      /\ queue' \in Seq(Records) /\ Len(queue') <= ChannelCap
      /\ listenCancel' \in BOOLEAN /\ connCancel' \in BOOLEAN
  BY <1>0, DropHandleTypes DEF CloseContext, Own, ChannelTypes, RecordTypes
<1>2. RecordTypes' BY <1>0, <1>1 DEF CloseContext, RecordTypes
<1>3. ChannelTypes' BY <1>0, <1>1 DEF CloseContext, ChannelTypes
<1>4. JsTypes' BY <1>0 DEF CloseContext, JsTypes
<1>5. closed' \in BOOLEAN /\ table' \in BOOLEAN /\ joinTaken' = joinTaken
  BY Zenon DEF CloseContext
<1>6. FlagTypes' BY <1>0, <1>1, <1>5 DEF FlagTypes
<1>7. drainWaker' \in {"none", "set", "woken"} BY SignalTypes DEF CloseContext, Own
<1>8. ServerTypes' BY <1>0, <1>7 DEF CloseContext, ServerTypes
<1>9. ConnTypes' BY <1>0 DEF CloseContext, ConnTypes
<1> QED BY <1>2, <1>3, <1>4, <1>6, <1>8, <1>9
      DEF TypeOK, ConnTypes, RecordTypes, ChannelTypes, JsTypes, FlagTypes, ServerTypes

\* So do the handlers.
LEMMA TypeRecord ==
  ASSUME Own, NEW r \in Records, RecordStep(r)
  PROVE  TypeOK'
<1>0. /\ ConnTypes /\ RecordTypes /\ ChannelTypes
      /\ JsTypes /\ FlagTypes /\ ServerTypes
  BY TypeParts DEF Own
<1>q. ASSUME RecordTypes', js' \in [Records -> JsPhases], stray' \in BOOLEAN,
             UNCHANGED <<connVars, channel, answering, server>>,
             drainWaker' \in {"none", "set", "woken"}
      PROVE  TypeOK'
  <2>1. JsTypes' BY <1>0, <1>q DEF JsTypes
  <2>2. FlagTypes' BY <1>0, <1>q DEF FlagTypes
  <2>3. ServerTypes' BY <1>0, <1>q DEF ServerTypes
  <2>4. ConnTypes' /\ ChannelTypes' BY <1>0, <1>q DEF ConnTypes, ChannelTypes
  <2> QED BY <1>q, <2>1, <2>2, <2>3, <2>4
        DEF TypeOK, ConnTypes, RecordTypes, ChannelTypes, JsTypes, FlagTypes, ServerTypes
<1>r. /\ inner[r] \in Inner /\ refs[r] \subseteq Holders
      /\ \A h : refs[r] \ {h} \subseteq Holders
  BY <1>0 DEF RecordTypes
<1>j. \A p \in JsPhases : [js EXCEPT ![r] = p] \in [Records -> JsPhases]
  BY <1>0 DEF JsTypes
<1>b. stray \in BOOLEAN BY <1>0 DEF JsTypes
<1>1. CASE Answer(r)
  <2>1. RecordTypes' /\ js' \in [Records -> JsPhases]
    <3>1. CASE AnswerStatic(r)
      BY <1>0, <1>r, <1>j, <3>1, RecordOpTypes DEF AnswerStatic, JsPhases
    <3>2. CASE AnswerStream(r)
      <4>1. (refs[r] \cup {"op", "set_response"}) \ {"set_response"} \subseteq Holders
        BY <1>r DEF Holders
      <4>2. [inner[r] EXCEPT !.needs_close = TRUE] \in Inner BY <1>r, InnerFields
      <4> QED BY <1>0, <1>j, <3>2, <4>1, <4>2, RecordOpTypes DEF AnswerStream, JsPhases
    <3>3. CASE AnswerNoStream(r)
      BY <1>0, <1>j, <3>3 DEF AnswerNoStream, RecordTypes, JsPhases
    <3>4. CASE AnswerWebSocket(r)
      <4>1. [inner[r] EXCEPT !.upgrade = TRUE] \in Inner BY <1>r, InnerFields
      <4> QED BY <1>0, <1>r, <1>j, <3>4, <4>1, RecordOpTypes DEF AnswerWebSocket, JsPhases
    <3>5. CASE AnswerRaw(r)
      BY <1>0, <1>j, <3>5 DEF AnswerRaw, RecordTypes, Holders, JsPhases
    <3>6. CASE AnswerNoUpgrade(r)
      BY <1>0, <1>r, <1>j, <3>6, RecordOpTypes DEF AnswerNoUpgrade, JsPhases
    <3>7. CASE AnswerThrows(r)
      BY <1>0, <1>j, <3>7 DEF AnswerThrows, RecordTypes, JsPhases
    <3> QED BY <1>1, <3>1, <3>2, <3>3, <3>4, <3>5, <3>6, <3>7 DEF Answer
  <2>2. drainWaker' \in {"none", "set", "woken"} BY <1>1, SignalTypes DEF Answer, Own
  <2>3. stray' \in {stray, TRUE}
    BY <1>1, Zenon DEF Answer, AnswerStatic, AnswerStream, AnswerNoStream, AnswerWebSocket,
                       AnswerRaw, AnswerNoUpgrade, AnswerThrows, Upgraded
  <2>4. stray' \in BOOLEAN BY <1>b, <2>3
  <2> QED BY <1>1, <1>q, <2>1, <2>2, <2>4 DEF Answer
<1>2. CASE RawEnds(r)
  <2>1. [inner[r] EXCEPT !.upgrade = TRUE] \in Inner BY <1>r, InnerFields
  <2>2. RecordTypes' BY <1>0, <1>r, <1>2, <2>1, RecordOpTypes DEF RawEnds
  <2>3. js' \in [Records -> JsPhases] BY <1>j, <1>2 DEF RawEnds, JsPhases
  <2>4. drainWaker' \in {"none", "set", "woken"} BY <1>2, SignalTypes DEF RawEnds, Own
  <2> QED BY <1>2, <1>b, <1>q, <2>2, <2>3, <2>4 DEF RawEnds
<1>3. CASE StreamOpEnds(r)
  <2>1. RecordTypes' BY <1>0, <1>r, <1>3, RecordOpTypes DEF StreamOpEnds
  <2>2. js' \in [Records -> JsPhases] BY <1>j, <1>3 DEF StreamOpEnds, JsPhases
  <2> QED BY <1>0, <1>3, <1>b, <1>q, <2>1, <2>2 DEF StreamOpEnds, ServerTypes
<1>4. CASE CloseAfterFinish(r)
  <2>1. RecordTypes' BY <1>0, <1>r, <1>4, RecordOpTypes DEF CloseAfterFinish
  <2>2. js' \in [Records -> JsPhases] BY <1>j, <1>4 DEF CloseAfterFinish, JsPhases
  <2>3. drainWaker' \in {"none", "set", "woken"} BY <1>4, SignalTypes DEF CloseAfterFinish, Own
  <2> QED BY <1>4, <1>b, <1>q, <2>1, <2>2, <2>3 DEF CloseAfterFinish
<1>5. CASE ContextClose(r)
  <2>1. js' \in [Records -> JsPhases] BY <1>j, <1>5 DEF ContextClose, JsPhases
  <2>2. CloseContext /\ stray' = stray BY <1>5 DEF ContextClose
  <2> QED BY <1>b, <2>1, <2>2, CloseTypes
<1> QED BY <1>1, <1>2, <1>3, <1>4, <1>5 DEF RecordStep

\* The steps of the accept task's end, the serve loop, shutdown and abort.
ServerStep ==
  \/ AcceptCanceled \/ AcceptFails \/ OpStep \/ LoopStep \/ Shutdown \/ Abort
  \/ StrayResponse

\* They keep the types too.
LEMMA TypeServer == ASSUME Own, ServerStep PROVE TypeOK'
<1>0. /\ ConnTypes /\ RecordTypes /\ ChannelTypes
      /\ JsTypes /\ FlagTypes /\ ServerTypes
  BY TypeParts DEF Own
<1>q. ASSUME RecordTypes', ChannelTypes', JsTypes', FlagTypes', ServerTypes',
             UNCHANGED connVars
      PROVE  TypeOK'
  <2>1. ConnTypes' BY <1>0, <1>q DEF ConnTypes
  <2> QED BY <1>q, <2>1
        DEF TypeOK, ConnTypes, RecordTypes, ChannelTypes, JsTypes, FlagTypes, ServerTypes
\* Steps that leave records, channel and handlers alone.
<1>s. ASSUME UNCHANGED <<connVars, record, channel, jsVars>>, FlagTypes', ServerTypes'
      PROVE  TypeOK'
  <2>1. RecordTypes' /\ ChannelTypes' /\ JsTypes'
    BY <1>0, <1>s DEF RecordTypes, ChannelTypes, JsTypes
  <2> QED BY <1>q, <1>s, <2>1
<1>1. ASSUME NEW how \in {"canceled", "failed"}, AcceptEnds(how) PROVE TypeOK'
  <2>1. FlagTypes' BY <1>0, <1>1 DEF AcceptEnds, FlagTypes
  <2>2. drainWaker' \in {"none", "set", "woken"} BY <1>1, SignalTypes DEF AcceptEnds, Own
  <2>3. ServerTypes' BY <1>0, <1>1, <2>2 DEF AcceptEnds, ServerTypes
  <2> QED BY <1>1, <1>s, <2>1, <2>3 DEF AcceptEnds
<1>2. CASE LoopTries
  <2>1. Head(queue) \in Records /\ Tail(queue) \in Seq(Records)
        /\ Len(Tail(queue)) <= ChannelCap /\ GivenToJs \in [Records -> SUBSET Holders]
    BY <1>2, TakeTypes DEF LoopTries, Own
  <2>2. RecordTypes' BY <1>0, <1>2, <2>1 DEF LoopTries, RecordTypes
  <2>3. ChannelTypes' BY <1>0, <1>2, <2>1 DEF LoopTries, ChannelTypes
  <2>4. inner[Head(queue)].req \in Nat BY <1>0, <2>1 DEF RecordTypes, Inner
  <2>5. JsTypes' BY <1>0, <1>2, <2>1, <2>4 DEF LoopTries, TakeRequest, JsTypes, JsPhases
  <2>6. FlagTypes' /\ ServerTypes' BY <1>0, <1>2 DEF LoopTries, FlagTypes, ServerTypes
  <2> QED BY <1>2, <1>q, <2>2, <2>3, <2>5, <2>6 DEF LoopTries
<1>3. CASE WaitReceives
  <2>1. Head(queue) \in Records /\ Tail(queue) \in Seq(Records)
        /\ Len(Tail(queue)) <= ChannelCap /\ GivenToJs \in [Records -> SUBSET Holders]
    BY <1>3, TakeTypes DEF WaitReceives, Own
  <2>2. /\ inner' \in [Records -> Inner] /\ refs' \in [Records -> SUBSET Holders]
        /\ queue' \in Seq(Records) /\ Len(queue') <= ChannelCap
        /\ listenCancel' \in BOOLEAN /\ connCancel' \in BOOLEAN
    BY <1>3, <2>1, DropHandleTypes DEF WaitReceives, Own
  <2>3. RecordTypes' BY <1>0, <1>3, <2>2 DEF WaitReceives, RecordTypes
  <2>4. ChannelTypes' BY <1>0, <1>3, <2>2 DEF WaitReceives, ChannelTypes
  <2>5. inner[Head(queue)].req \in Nat BY <1>0, <2>1 DEF RecordTypes, Inner
  <2>6. JsTypes' BY <1>0, <1>3, <2>1, <2>5 DEF WaitReceives, TakeRequest, JsTypes, JsPhases
  <2>7. FlagTypes' BY <1>0, <1>3, <2>2 DEF WaitReceives, FlagTypes
  <2>8. drainWaker' \in {"none", "set", "woken"} BY <1>3, SignalTypes DEF WaitReceives, Own
  <2>9. ServerTypes' BY <1>0, <1>3, <2>8 DEF WaitReceives, ServerTypes, LoopPhases
  <2> QED BY <1>3, <1>q, <2>3, <2>4, <2>6, <2>7, <2>9 DEF WaitReceives
<1>4. CASE WaitJoins \/ CloseJoins
  <2>1. /\ inner' \in [Records -> Inner] /\ refs' \in [Records -> SUBSET Holders]
        /\ queue' \in Seq(Records) /\ Len(queue') <= ChannelCap
        /\ listenCancel' \in BOOLEAN /\ connCancel' \in BOOLEAN
    BY <1>0, <1>4, DropHandleTypes
       DEF WaitJoins, CloseJoins, Own, ChannelTypes, RecordTypes
  <2>2. panic' \in Panics BY <1>0, <1>4 DEF WaitJoins, CloseJoins, RecordTypes, Panics
  <2>3. RecordTypes' BY <1>0, <1>4, <2>1, <2>2 DEF WaitJoins, CloseJoins, RecordTypes
  <2>4. ChannelTypes' BY <1>0, <1>4, <2>1 DEF WaitJoins, CloseJoins, ChannelTypes
  <2>5. JsTypes' BY <1>0, <1>4 DEF WaitJoins, CloseJoins, JsTypes
  <2>6. joinTaken' \in BOOLEAN BY <1>4, Zenon DEF WaitJoins, CloseJoins
  <2>7. closed' \in BOOLEAN
    <3>1. closed \in BOOLEAN BY <1>0 DEF FlagTypes
    <3> QED BY <1>4, <3>1, Zenon DEF WaitJoins, CloseJoins
  <2>8. FlagTypes' BY <1>0, <1>4, <2>1, <2>6, <2>7 DEF WaitJoins, CloseJoins, FlagTypes
  <2>9. drainWaker' \in {"none", "set", "woken"}
    BY <1>4, SignalTypes DEF WaitJoins, CloseJoins, Own
  <2>10. ServerTypes' BY <1>0, <1>4, <2>9 DEF WaitJoins, CloseJoins, ServerTypes, LoopPhases
  <2> QED BY <1>4, <1>q, <2>3, <2>4, <2>5, <2>8, <2>10 DEF WaitJoins, CloseJoins
<1>5. CASE LoopWaits \/ WaitGivesUp \/ CloseYields
  <2>1. FlagTypes' BY <1>0, <1>5 DEF LoopWaits, WaitGivesUp, CloseYields, FlagTypes
  <2>2. ServerTypes'
    BY <1>0, <1>5 DEF LoopWaits, WaitGivesUp, CloseYields, ServerTypes, LoopPhases
  <2> QED BY <1>5, <1>s, <2>1, <2>2 DEF LoopWaits, WaitGivesUp, CloseYields
<1>6. CASE LoopLeaves
  <2>1. closed' \in BOOLEAN /\ table' \in BOOLEAN /\ listenCancel' \in BOOLEAN
        /\ connCancel' \in BOOLEAN
    BY <1>6, Zenon DEF LoopLeaves
  <2>2. FlagTypes' BY <1>0, <1>6, <2>1 DEF LoopLeaves, FlagTypes
  <2>3. ServerTypes' BY <1>0, <1>6 DEF LoopLeaves, ServerTypes, LoopPhases
  <2> QED BY <1>6, <1>s, <2>2, <2>3 DEF LoopLeaves
<1>7. CASE LoopFinishes
  <2>1. closed' \in BOOLEAN BY <1>7, Zenon DEF LoopFinishes
  <2>2. FlagTypes' BY <1>0, <1>7, <2>1 DEF LoopFinishes, FlagTypes
  <2>3. ServerTypes' BY <1>0, <1>7 DEF LoopFinishes, ServerTypes, LoopPhases
  <2> QED BY <1>7, <1>s, <2>2, <2>3 DEF LoopFinishes
<1>8. CASE Shutdown
  <2>1. table' \in BOOLEAN /\ listenCancel' \in BOOLEAN BY <1>8, Zenon DEF Shutdown
  <2>2. FlagTypes' BY <1>0, <1>8, <2>1 DEF Shutdown, FlagTypes
  <2>3. ServerTypes' BY <1>0, <1>8 DEF Shutdown, PollComplete, ServerTypes
  <2> QED BY <1>8, <1>s, <2>2, <2>3 DEF Shutdown
<1>9. CASE DrainPolled
  <2>1. FlagTypes' BY <1>0, <1>9 DEF DrainPolled, FlagTypes
  <2>2. ServerTypes' BY <1>0, <1>9 DEF DrainPolled, PollComplete, ServerTypes
  <2> QED BY <1>9, <1>s, <2>1, <2>2 DEF DrainPolled
<1>10. CASE Abort
  <2>1. listenCancel' \in BOOLEAN /\ connCancel' \in BOOLEAN BY <1>10, Zenon DEF Abort
  <2>2. FlagTypes' BY <1>0, <1>10, <2>1 DEF Abort, FlagTypes
  <2>3. ServerTypes' BY <1>0, <1>10 DEF Abort, ServerTypes
  <2> QED BY <1>10, <1>s, <2>2, <2>3 DEF Abort
<1>11. CASE StrayResponse
  <2>1. js' \in [Records -> JsPhases] /\ stray' \in BOOLEAN
    BY <1>0, <1>11 DEF StrayResponse, JsTypes
  <2> QED BY <1>11, <2>1, CloseTypes DEF StrayResponse
<1> QED BY <1>1, <1>2, <1>3, <1>4, <1>5, <1>6, <1>7, <1>8, <1>9, <1>10, <1>11
      DEF ServerStep, AcceptCanceled, AcceptFails, OpStep, LoopStep

\* A step is one of a connection, of a record or of the server.
LEMMA NextCases ==
  Next => \/ \E c \in Conns : Accept(c) \/ Request(c) \/ ConnStep(c) \/ Disconnect(c)
          \/ \E r \in Records : RecordStep(r)
          \/ ServerStep
BY DEF Next, ServerStep

\* Every step keeps the types.
LEMMA TypeStep == Own /\ [Next]_vars => TypeOK'
<1> SUFFICES ASSUME Own, [Next]_vars PROVE TypeOK' OBVIOUS
<1>1. CASE UNCHANGED vars
  <2>1. UNCHANGED <<table, joinTaken, listenCancel, connCancel, closed, stray>> BY <1>1 DEF vars
  <2> QED BY <1>1, <2>1 DEF vars, Own, TypeOK
<1> QED BY <1>1, NextCases, TypeConn, TypeRecord, TypeServer

-----------------------------------------------------------------------------
(* Ownership. *)

\* What an operator of a record does when none of its assertions fails: T are the
\* holders that are left, i the fields, and only a record without holders is pooled.
Consumes(r, T, i) ==
  /\ refs' = [refs EXCEPT ![r] = T] /\ inner' = [inner EXCEPT ![r] = i]
  /\ pool' = pool \/ (T = {} /\ pool' = Pooled(r))
  /\ panic' = panic

\* Steps of the handlers: they move one record between JavaScript's holders and
\* leave its connection and its place in the channel alone.
LEMMA JsMove ==
  ASSUME Own, NEW r \in Records, NEW T, NEW i, NEW p,
         refs' = [refs EXCEPT ![r] = T], inner' = [inner EXCEPT ![r] = i],
         js' = [js EXCEPT ![r] = p], UNCHANGED <<conn, rec, queue, senders, answering>>,
         \A h \in {"conn", "send", "queue"} : h \in T <=> h \in refs[r],
         RecordOK(T, i, p), p # "none" => i.req = inner[r].req /\ js[r] # "none",
         "conn" \in T /\ inner[r].response_ready => i.response_ready
  PROVE  RecordInv' /\ ConnInv' /\ QueueInv'
<1>1. /\ refs \in [Records -> SUBSET Holders] /\ inner \in [Records -> Inner]
      /\ js \in [Records -> JsPhases] /\ rec \in [Conns -> Records \cup {NoRecord}]
      /\ conn \in [Conns -> ConnPhases]
  BY DEF Own, TypeOK
<1>2. /\ refs'[r] = T /\ inner'[r] = i /\ js'[r] = p
      /\ \A s \in Records \ {r} : refs'[s] = refs[s] /\ inner'[s] = inner[s] /\ js'[s] = js[s]
  BY <1>1
<1>3. ASSUME NEW s \in Records
      PROVE  RecordOK(refs'[s], inner'[s], js'[s]) /\ PlaceOK(s)'
  <2>1. RecordOK(refs[s], inner[s], js[s]) /\ PlaceOK(s) BY DEF Own, RecordInv
  <2>2. CASE s = r
    <3>1. PlaceOK(r)' BY <1>2, <2>1, <2>2 DEF PlaceOK
    <3> QED BY <1>2, <2>2, <3>1
  <2>3. CASE s # r
    <3>1. refs'[s] = refs[s] /\ inner'[s] = inner[s] /\ js'[s] = js[s] BY <1>2, <2>3
    <3> QED BY <2>1, <3>1 DEF PlaceOK
  <2> QED BY <2>2, <2>3
<1>4. ASSUME NEW c \in Conns, conn[c] = "responding"
      PROVE  inner'[rec[c]].response_ready
  <2>1. rec[c] \in Records /\ "conn" \in refs[rec[c]] /\ inner[rec[c]].response_ready
    BY <1>4, ConnRefs
  <2>2. CASE rec[c] = r BY <1>2, <2>1, <2>2
  <2>3. CASE rec[c] # r BY <1>2, <2>1, <2>3
  <2> QED BY <2>2, <2>3
<1>5. ConnInv' BY <1>4 DEF Own, ConnInv
<1>6. QueueInv' BY DEF Own, QueueInv
<1>7. RecordInv' BY <1>3 DEF RecordInv
<1> QED BY <1>5, <1>6, <1>7

\* Steps of a connection that end its request.
LEMMA ConnMove ==
  ASSUME Own, NEW c \in Conns, conn[c] \in {"sending", "waiting", "responding"},
         NEW q \in {"idle", "closed"}, NEW i,
         conn' = [conn EXCEPT ![c] = q], rec' = [rec EXCEPT ![c] = NoRecord],
         refs' = [refs EXCEPT ![rec[c]] = @ \ {"conn", "send"}],
         inner' = [inner EXCEPT ![rec[c]] = i], UNCHANGED <<queue, js, answering>>,
         RecordOK(refs[rec[c]] \ {"conn", "send"}, i, js[rec[c]]),
         refs[rec[c]] \ {"conn", "send"} # {} => i.req = inner[rec[c]].req,
         \A d \in Conns \ {c} : (\E k \in 1..Len(senders) : senders[k] = d) =>
                                 \E k \in 1..Len(senders') : senders'[k] = d
  PROVE  RecordInv' /\ ConnInv' /\ QueueInv'
<1>0. PICK r \in Records : r = rec[c] /\ "conn" \in refs[r] BY ConnRefs
<1>1. /\ refs \in [Records -> SUBSET Holders] /\ inner \in [Records -> Inner]
      /\ js \in [Records -> JsPhases] /\ rec \in [Conns -> Records \cup {NoRecord}]
      /\ conn \in [Conns -> ConnPhases]
  BY DEF Own, TypeOK
<1>2. /\ refs'[r] = refs[r] \ {"conn", "send"} /\ inner'[r] = i
      /\ \A s \in Records \ {r} : refs'[s] = refs[s] /\ inner'[s] = inner[s]
  BY <1>0, <1>1
<1>3. /\ conn'[c] = q /\ rec'[c] = NoRecord
      /\ \A d \in Conns \ {c} : conn'[d] = conn[d] /\ rec'[d] = rec[d]
  BY <1>1
<1>4. \A d \in Conns \ {c} : rec[d] # r BY <1>0 DEF Own, ConnInv
<1>5. ASSUME NEW s \in Records
      PROVE  RecordOK(refs'[s], inner'[s], js'[s]) /\ PlaceOK(s)'
  <2>1. RecordOK(refs[s], inner[s], js[s]) /\ PlaceOK(s) BY DEF Own, RecordInv
  <2>2. CASE s = r
    <3>1. \A d \in Conns : rec'[d] # r BY <1>0, <1>3, <1>4
    <3>2. "conn" \notin refs'[r] /\ "send" \notin refs'[r] BY <1>2
    <3>3. "queue" \in refs'[r] <=> "queue" \in refs[r] BY <1>2
    <3>4. js[r] # "none" => refs'[r] # {}
      <4>1. js[r] \in JsPhases BY <1>0, <1>1
      <4> QED BY <1>0, <1>2, <4>1 DEF RecordOK, JsPhases, JsHolds
    <3>5. PlaceOK(r)' BY <1>2, <2>1, <2>2, <3>1, <3>2, <3>3, <3>4 DEF PlaceOK
    <3> QED BY <1>0, <1>2, <2>2, <3>5
  <2>3. CASE s # r
    <3>1. refs'[s] = refs[s] /\ inner'[s] = inner[s] BY <1>2, <2>3
    <3>2. \A d \in Conns : rec'[d] = s <=> rec[d] = s BY <1>0, <1>3, <2>3
    <3>3. \A d \in Conns : rec[d] = s => conn'[d] = conn[d] BY <1>0, <1>3, <2>3
    <3> QED BY <2>1, <3>1, <3>2, <3>3 DEF PlaceOK
  <2> QED BY <2>2, <2>3
<1>6. ConnInv'
  <2>1. \A d \in Conns : rec'[d] = NoRecord <=> conn'[d] \in {"new", "idle", "closed"}
    BY <1>3 DEF Own, ConnInv
  <2>2. \A d, e \in Conns : rec'[d] = rec'[e] /\ rec'[d] # NoRecord => d = e
    BY <1>3 DEF Own, ConnInv
  <2>3. ASSUME NEW d \in Conns, conn'[d] = "responding"
        PROVE  inner'[rec'[d]].response_ready
    <3>1. d # c /\ conn[d] = "responding" /\ rec'[d] = rec[d] BY <1>3, <2>3
    <3>2. rec[d] \in Records /\ inner[rec[d]].response_ready BY <3>1, ConnRefs
    <3>3. rec[d] # r BY <1>4, <3>1
    <3> QED BY <1>2, <3>1, <3>2, <3>3
  <2>4. \A d \in Conns : conn'[d] = "sending" => \E k \in 1..Len(senders') : senders'[k] = d
    BY <1>3 DEF Own, ConnInv
  <2> QED BY <2>1, <2>2, <2>3, <2>4 DEF ConnInv
<1>7. QueueInv' BY DEF Own, QueueInv
<1>8. RecordInv' BY <1>5 DEF RecordInv
<1> QED BY <1>6, <1>7, <1>8

\* Consuming a reference keeps the pool unused.
LEMMA PoolMove ==
  ASSUME Own, NEW r \in Records, refs[r] # {}, NEW T, NEW i, Consumes(r, T, i)
  PROVE  PoolInv'
<1>1. pool \in Seq(Records) /\ refs \in [Records -> SUBSET Holders] BY DEF Own, TypeOK
<1>2. \A k \in 1..Len(pool) : pool[k] \in Records /\ pool[k] # r /\ refs[pool[k]] = {}
  BY <1>1 DEF Own, PoolInv
<1>3. \A k, m \in 1..Len(pool) : pool[k] = pool[m] => k = m BY DEF Own, PoolInv
<1>4. refs'[r] = T /\ \A s \in Records \ {r} : refs'[s] = refs[s] BY <1>1 DEF Consumes
<1>5. \A k \in 1..Len(pool) : refs'[pool[k]] = {} BY <1>2, <1>4
<1>6. CASE pool' = pool BY <1>3, <1>5, <1>6 DEF PoolInv
<1>7. CASE T = {} /\ pool' = Append(pool, r)
  <2>1. Len(pool') = Len(pool) + 1 /\ pool'[Len(pool) + 1] = r BY <1>1, <1>7
  <2>2. \A k \in 1..Len(pool) : pool'[k] = pool[k] BY <1>1, <1>7
  <2>3. \A k \in 1..Len(pool') : k \in 1..Len(pool) \/ k = Len(pool) + 1 BY <1>1, <2>1
  <2>4. \A k \in 1..Len(pool') : refs'[pool'[k]] = {} BY <1>4, <1>5, <1>7, <2>1, <2>2, <2>3
  <2>5. \A k, m \in 1..Len(pool') : pool'[k] = pool'[m] => k = m
    BY <1>2, <1>3, <2>1, <2>2, <2>3
  <2> QED BY <2>4, <2>5 DEF PoolInv
<1>8. ASSUME NEW n \in 0..Len(pool), pool' = SubSeq(pool, 1, n) PROVE PoolInv'
  <2>1. Len(pool') = n /\ \A k \in 1..n : pool'[k] = pool[k] BY <1>1, <1>8, PoolPrefix
  <2>2. \A k \in 1..n : k \in 1..Len(pool) BY <1>1
  <2> QED BY <1>3, <1>5, <2>1, <2>2 DEF PoolInv
<1> QED BY <1>1, <1>6, <1>7, <1>8, PooledShape DEF Consumes

\* The connection's reference is the last one when finish() recycles.
LEMMA FinishConn ==
  ASSUME Own, NEW r \in Records, "conn" \in refs[r], inner[r].response_ready,
         Finish(r, refs[r], "conn", inner[r])
  PROVE  \E i : /\ Consumes(r, refs[r] \ {"conn", "send"}, i)
                /\ RecordOK(refs[r] \ {"conn", "send"}, i, js[r])
                /\ refs[r] \ {"conn", "send"} # {} => i.req = inner[r].req
<1>1. /\ refs[r] \subseteq Holders /\ inner[r] \in Inner /\ js[r] \in JsPhases
      /\ refs \in [Records -> SUBSET Holders] /\ inner \in [Records -> Inner]
  BY DEF Own, TypeOK
<1>2. RecordOK(refs[r], inner[r], js[r]) BY DEF Own, RecordInv
<1>3. refs[r] \ {"conn", "send"} = refs[r] \ {"conn"} BY <1>2 DEF RecordOK
<1>4. CASE inner[r].needs_close
  <2> DEFINE i == [inner[r] EXCEPT !.body_finished = TRUE]
  <2>1. refs[r] # {"conn"} BY <1>2, <1>4 DEF RecordOK, JsHolds
  <2>2. Consumes(r, refs[r] \ {"conn"}, i) BY <1>4, <2>1 DEF Finish, Release, Consumes
  <2>3. /\ i.req = inner[r].req /\ i.response_ready = inner[r].response_ready
        /\ i.needs_close = inner[r].needs_close /\ i.body_finished
    BY <1>1 DEF Inner
  <2>4. RecordOK(refs[r] \ {"conn"}, i, js[r]) BY <1>2, <1>4, <2>1, <2>3 DEF RecordOK
  <2> QED BY <1>3, <2>2, <2>3, <2>4
<1>5. CASE ~inner[r].needs_close
  <2>1. refs[r] = {"conn"} BY <1>1, <1>2, <1>5 DEF RecordOK, JsHolds, Holders
  <2>2. Consumes(r, {}, NoInner) BY <1>5, <2>1 DEF Finish, Recycle, Consumes
  <2>3. RecordOK({}, NoInner, js[r]) BY <1>2, <1>5, <2>1 DEF RecordOK, NoInner
  <2> QED BY <2>1, <2>2, <2>3
<1> QED BY <1>4, <1>5

\* So it is when a connection is dropped before its response.
LEMMA CancelConn ==
  ASSUME Own, NEW r \in Records, "conn" \in refs[r], "send" \notin refs[r],
         Cancel(r, refs[r], "conn", inner[r])
  PROVE  \E i : /\ Consumes(r, refs[r] \ {"conn", "send"}, i)
                /\ RecordOK(refs[r] \ {"conn", "send"}, i, js[r])
                /\ refs[r] \ {"conn", "send"} # {} => i.req = inner[r].req
<1>1. /\ refs[r] \subseteq Holders /\ inner[r] \in Inner /\ js[r] \in JsPhases
      /\ refs \in [Records -> SUBSET Holders] /\ inner \in [Records -> Inner]
  BY DEF Own, TypeOK
<1>2. RecordOK(refs[r], inner[r], js[r]) BY DEF Own, RecordInv
<1>3. refs[r] \ {"conn", "send"} = refs[r] \ {"conn"} BY <1>2 DEF RecordOK
<1>4. CASE inner[r].response_ready BY <1>4, FinishConn DEF Cancel
<1>5. CASE ~inner[r].response_ready /\ refs[r] = {"conn"}
  <2>1. Consumes(r, {}, NoInner) BY <1>5 DEF Cancel, Release, Consumes
  <2>2. RecordOK({}, NoInner, js[r]) BY <1>2, <1>5 DEF RecordOK, NoInner, JsHolds
  <2> QED BY <1>5, <2>1, <2>2
<1>6. CASE ~inner[r].response_ready /\ refs[r] # {"conn"}
  <2> DEFINE i == [inner[r] EXCEPT !.been_dropped = TRUE]
  <2>1. Consumes(r, refs[r] \ {"conn"}, i) BY <1>6 DEF Cancel, Release, Consumes
  <2>2. /\ i.req = inner[r].req /\ i.response_ready = inner[r].response_ready
        /\ i.needs_close = inner[r].needs_close /\ i.body_finished = inner[r].body_finished
    BY <1>1 DEF Inner
  <2>3. refs[r] \ {"conn"} # {} BY <1>6
  <2>4. RecordOK(refs[r] \ {"conn"}, i, js[r]) BY <1>2, <1>6, <2>2, <2>3 DEF RecordOK
  <2> QED BY <1>3, <2>1, <2>2, <2>4
<1> QED BY <1>4, <1>5, <1>6

\* An answer finds a record that is not complete, and has the last reference to it
\* when the connection is gone.
LEMMA AnswerConsumes ==
  ASSUME Own, NEW r \in Records, NEW h,
         (js[r] = "handler" /\ h = "js") \/ (js[r] = "raw" /\ h = "task"),
         NEW i \in {inner[r], [inner[r] EXCEPT !.upgrade = TRUE]},
         Complete(r, refs[r], h, i) \/ Release(r, refs[r], h, i)
  PROVE  \E j : Consumes(r, refs[r] \ {h}, j) /\ RecordOK(refs[r] \ {h}, j, "none")
<1>1. /\ refs[r] \subseteq Holders /\ inner[r] \in Inner /\ js[r] \in JsPhases
      /\ refs \in [Records -> SUBSET Holders] /\ inner \in [Records -> Inner]
  BY DEF Own, TypeOK
<1>2. RecordOK(refs[r], inner[r], js[r]) BY DEF Own, RecordInv
<1>3. h \in refs[r] /\ refs[r] \subseteq {"conn", h} /\ h # "conn" BY JsRefs
<1>4. /\ i \in Inner /\ i.req = inner[r].req /\ i.response_ready = inner[r].response_ready
      /\ i.needs_close = inner[r].needs_close /\ i.body_finished = inner[r].body_finished
      /\ i.been_dropped = inner[r].been_dropped
  BY <1>1 DEF Inner
<1>5. ~i.response_ready /\ ~i.needs_close /\ i.req # 0
  BY <1>2, <1>3, <1>4 DEF RecordOK
<1>6. RecordOK({}, NoInner, "none") BY DEF RecordOK, NoInner, JsHolds
<1>7. CASE refs[r] = {h}
  <2>1. refs[r] \ {h} = {} BY <1>7
  <2>2. \/ Release(r, refs[r], h, i) \/ Recycle(r, refs[r], h)
        \/ Release(r, refs[r], h, [i EXCEPT !.response_ready = TRUE])
    BY <1>5, Zenon DEF Complete, Finish
  <2>3. Consumes(r, {}, NoInner) BY <1>7, <2>1, <2>2 DEF Release, Recycle, Consumes
  <2> QED BY <1>6, <2>1, <2>3
<1>8. CASE refs[r] # {h}
  <2>1. refs[r] \ {h} = {"conn"} /\ "conn" \in refs[r] BY <1>3, <1>8
  <2>2. ~i.been_dropped /\ ~i.body_finished BY <1>2, <1>4, <2>1 DEF RecordOK
  <2>3. ASSUME NEW j, j.req = i.req, ~j.needs_close, ~j.body_finished, ~j.been_dropped
        PROVE  RecordOK({"conn"}, j, "none")
    BY <1>5, <2>3 DEF RecordOK, JsHolds
  <2>4. CASE Release(r, refs[r], h, i)
    <3>1. Consumes(r, {"conn"}, i) BY <1>8, <2>1, <2>4 DEF Release, Consumes
    <3> QED BY <1>5, <2>1, <2>2, <2>3, <3>1
  <2>5. CASE Complete(r, refs[r], h, i)
    <3> DEFINE j == [i EXCEPT !.response_ready = TRUE]
    <3>0. Release(r, refs[r], h, j) BY <1>5, <2>2, <2>5, Zenon DEF Complete
    <3>1. Consumes(r, {"conn"}, j) BY <1>8, <2>1, <3>0 DEF Release, Consumes
    <3>2. j.req = i.req /\ ~j.needs_close /\ ~j.body_finished /\ ~j.been_dropped
      BY <1>4, <1>5, <2>2 DEF Inner
    <3> HIDE DEF j
    <3> QED BY <2>1, <2>3, <3>1, <3>2
  <2> QED BY <2>4, <2>5
<1> QED BY <1>7, <1>8

\* Streaming a body keeps the record for JavaScript and for the op.
LEMMA StreamConsumes ==
  ASSUME Own, NEW r \in Records, js[r] = "handler", AnswerStream(r)
  PROVE  \E j : /\ Consumes(r, refs[r] \cup {"op"}, j) /\ j.req = inner[r].req
                /\ RecordOK(refs[r] \cup {"op"}, j, "streaming")
<1>1. /\ refs[r] \subseteq Holders /\ inner[r] \in Inner
      /\ refs \in [Records -> SUBSET Holders] /\ inner \in [Records -> Inner]
  BY DEF Own, TypeOK
<1>2. RecordOK(refs[r], inner[r], js[r]) BY DEF Own, RecordInv
<1>3. "js" \in refs[r] /\ refs[r] \subseteq {"conn", "js"} BY JsRefs
<1> DEFINE i == [inner[r] EXCEPT !.needs_close = TRUE]
           S == refs[r] \cup {"op", "set_response"}
<1>4. /\ i \in Inner /\ i.req = inner[r].req /\ i.response_ready = inner[r].response_ready
      /\ i.needs_close /\ i.body_finished = inner[r].body_finished
      /\ i.been_dropped = inner[r].been_dropped
  BY <1>1 DEF Inner
<1>5. ~i.response_ready /\ i.req # 0 BY <1>2, <1>3, <1>4 DEF RecordOK
<1>6. S # {"set_response"} /\ S \ {"set_response"} = refs[r] \cup {"op"} BY <1>3
<1>7. Complete(r, S, "set_response", i) BY DEF AnswerStream
<1> HIDE DEF i, S
<1>8. ASSUME NEW j, j.req = i.req, j.needs_close,
             "conn" \in refs[r] => ~j.body_finished /\ ~j.been_dropped
      PROVE  RecordOK(refs[r] \cup {"op"}, j, "streaming")
  BY <1>3, <1>5, <1>8 DEF RecordOK, JsHolds
<1>9. "conn" \in refs[r] => ~i.body_finished /\ ~i.been_dropped BY <1>2, <1>4 DEF RecordOK
<1>10. CASE i.been_dropped
  <2> DEFINE j == [i EXCEPT !.body_finished = TRUE]
  <2>0. Release(r, S, "set_response", j)
    BY <1>4, <1>5, <1>7, <1>10, Zenon DEF Complete, Finish
  <2>1. Consumes(r, refs[r] \cup {"op"}, j) BY <1>6, <2>0 DEF Release, Consumes
  <2>2. j.req = i.req /\ j.needs_close BY <1>4 DEF Inner
  <2> HIDE DEF j
  <2> QED BY <1>4, <1>8, <1>9, <1>10, <2>1, <2>2
<1>11. CASE ~i.been_dropped
  <2> DEFINE j == [i EXCEPT !.response_ready = TRUE]
  <2>0. Release(r, S, "set_response", j) BY <1>5, <1>7, <1>11, Zenon DEF Complete
  <2>1. Consumes(r, refs[r] \cup {"op"}, j) BY <1>6, <2>0 DEF Release, Consumes
  <2>2. /\ j.req = i.req /\ j.needs_close /\ j.body_finished = i.body_finished
        /\ j.been_dropped = i.been_dropped
    BY <1>4 DEF Inner
  <2> HIDE DEF j
  <2> QED BY <1>4, <1>8, <1>9, <2>1, <2>2
<1> QED BY <1>10, <1>11

\* The parts of Own besides the types, after a step, and the panics it may raise.
Kept == RecordInv' /\ ConnInv' /\ QueueInv' /\ PoolInv'
NoPanic == panic' \in {panic, "send on a closed channel"}

\* Steps that leave the connections alone keep the invariant when each record is in
\* order after them.
LEMMA OwnMove ==
  ASSUME Own, UNCHANGED <<conn, rec, senders, pool>>,
         \A s \in Records :
           /\ RecordOK(refs'[s], inner'[s], js'[s])
           /\ \A h \in {"conn", "send"} : h \in refs'[s] <=> h \in refs[s]
           /\ "queue" \in refs'[s] <=> \E k \in 1..Len(queue') : queue'[k] = s
           /\ js'[s] # "none" => answering'[s] = inner'[s].req
           /\ refs[s] = {} => refs'[s] = {}
           /\ "conn" \in refs[s] /\ inner[s].response_ready => inner'[s].response_ready,
         QueueInv'
  PROVE  Kept
<1>1. ASSUME NEW s \in Records PROVE PlaceOK(s)'
  <2>1. PlaceOK(s) BY DEF Own, RecordInv
  <2> QED BY <2>1 DEF PlaceOK
<1>2. RecordInv' BY <1>1 DEF RecordInv
<1>3. ASSUME NEW c \in Conns, conn[c] = "responding" PROVE inner'[rec[c]].response_ready
  <2>1. rec[c] \in Records /\ "conn" \in refs[rec[c]] /\ inner[rec[c]].response_ready
    BY <1>3, ConnRefs
  <2> QED BY <2>1
<1>4. ConnInv' BY <1>3 DEF Own, ConnInv
<1>5. pool \in Seq(Records) BY DEF Own, TypeOK
<1>6. PoolInv' BY <1>5 DEF Own, PoolInv
<1> QED BY <1>2, <1>4, <1>6 DEF Kept

\* A step that leaves the channel q and the holders f leaves every record in order.
Leaves(q, f) ==
  /\ \A s \in Records :
       /\ RecordOK(f[s], inner[s], js'[s])
       /\ \A h \in {"conn", "send"} : h \in f[s] <=> h \in refs[s]
       /\ "queue" \in f[s] <=> \E m \in 1..Len(q) : q[m] = s
       /\ js'[s] # "none" => answering'[s] = inner[s].req
       /\ refs[s] = {} => f[s] = {}
  /\ \A m, n \in 1..Len(q) : q[m] = q[n] => m = n
  /\ js' \in [Records -> JsPhases]

\* Dropping the last HttpJoinHandle takes the channel's references with it; q and f
\* are the channel and the holders the step itself leaves.
LEMMA DropOwn ==
  ASSUME Own, NEW q \in Seq(Records), NEW f \in [Records -> SUBSET Holders],
         NEW l, NEW k, DropHandle(q, f, l, k), UNCHANGED <<conn, rec, senders, pool>>,
         Leaves(q, f)
  PROVE  Kept
<1>0. /\ \A s \in Records :
           /\ RecordOK(f[s], inner[s], js'[s])
           /\ \A h \in {"conn", "send"} : h \in f[s] <=> h \in refs[s]
           /\ "queue" \in f[s] <=> \E m \in 1..Len(q) : q[m] = s
           /\ js'[s] # "none" => answering'[s] = inner[s].req
           /\ refs[s] = {} => f[s] = {}
      /\ \A m, n \in 1..Len(q) : q[m] = q[n] => m = n
      /\ js' \in [Records -> JsPhases]
  BY DEF Leaves
<1>1. ASSUME NEW s \in Records
      PROVE  /\ inner'[s] = IF refs'[s] = {} THEN NoInner ELSE inner[s]
             /\ Held' => refs'[s] = f[s]
             /\ ~Held' => refs'[s] = f[s] \ {"queue"}
  BY DEF DropHandle
<1>2. QueueInv'
  <2>1. CASE Held' BY <1>0, <2>1 DEF DropHandle, QueueInv
  <2>2. CASE ~Held'
    <3>1. queue' = <<>> BY <2>2 DEF DropHandle
    <3> QED BY <3>1 DEF QueueInv
  <2> QED BY <2>1, <2>2
<1>3. ASSUME NEW s \in Records
      PROVE  /\ RecordOK(refs'[s], inner'[s], js'[s])
             /\ \A h \in {"conn", "send"} : h \in refs'[s] <=> h \in refs[s]
             /\ "queue" \in refs'[s] <=> \E m \in 1..Len(queue') : queue'[m] = s
             /\ js'[s] # "none" => answering'[s] = inner'[s].req
             /\ refs[s] = {} => refs'[s] = {}
             /\ "conn" \in refs[s] /\ inner[s].response_ready => inner'[s].response_ready
  <2>0. f[s] \subseteq Holders /\ js'[s] \in JsPhases BY <1>0
  <2>1. RecordOK(f[s], inner[s], js'[s]) BY <1>0
  <2>2. RecordOK(refs'[s], inner[s], js'[s]) \/ refs'[s] = {}
    BY <1>1, <2>1 DEF RecordOK
  <2>3. refs'[s] = {} => js'[s] = "none"
    <3>1. refs'[s] = {} => f[s] \subseteq {"queue"} BY <1>1
    <3> QED BY <2>0, <2>1, <3>1 DEF RecordOK, JsHolds, JsPhases
  <2>4. RecordOK({}, NoInner, "none") BY DEF RecordOK, NoInner, JsHolds
  <2>5. RecordOK(refs'[s], inner'[s], js'[s]) BY <1>1, <2>2, <2>3, <2>4
  <2>6. \A h \in {"conn", "send"} : h \in refs'[s] <=> h \in refs[s] BY <1>0, <1>1
  <2>7. "queue" \in refs'[s] <=> \E m \in 1..Len(queue') : queue'[m] = s
    <3>1. CASE Held' BY <1>0, <1>1, <3>1 DEF DropHandle
    <3>2. CASE ~Held'
      <4>1. queue' = <<>> BY <3>2 DEF DropHandle
      <4> QED BY <1>1, <3>2, <4>1
    <3> QED BY <3>1, <3>2
  <2>8. js'[s] # "none" => answering'[s] = inner'[s].req BY <1>0, <1>1, <2>3
  <2>9. refs[s] = {} => refs'[s] = {} BY <1>0, <1>1
  <2>10. "conn" \in refs[s] => inner'[s] = inner[s] BY <1>1, <2>6
  <2> QED BY <2>5, <2>6, <2>7, <2>8, <2>9, <2>10
<1> QED BY <1>2, <1>3, OwnMove

\* The request at the head of the channel goes from there to JavaScript, once.
LEMMA TakeOwn ==
  ASSUME Own, queue # <<>>, TakeRequest
  PROVE  Leaves(Tail(queue), GivenToJs)
<1>1. /\ queue \in Seq(Records) /\ refs \in [Records -> SUBSET Holders]
      /\ js \in [Records -> JsPhases] /\ answering \in [Records -> Nat]
  BY DEF Own, TypeOK
<1>2. PICK r \in Records : r = Head(queue) /\ r = queue[1] BY <1>1
<1>3. /\ Len(Tail(queue)) = Len(queue) - 1 /\ Len(queue) \in Nat \ {0}
      /\ \A m \in 1..Len(Tail(queue)) : Tail(queue)[m] = queue[m + 1]
  BY <1>1
<1>4. \A m, n \in 1..Len(queue) : queue[m] = queue[n] => m = n BY DEF Own, QueueInv
<1>5. \A m, n \in 1..Len(Tail(queue)) : Tail(queue)[m] = Tail(queue)[n] => m = n
  <2> TAKE m, n \in 1..Len(Tail(queue))
  <2>1. m + 1 \in 1..Len(queue) /\ n + 1 \in 1..Len(queue) BY <1>3
  <2> QED BY <1>3, <1>4, <2>1
<1>6. \A m \in 1..Len(Tail(queue)) : Tail(queue)[m] # r
  <2> TAKE m \in 1..Len(Tail(queue))
  <2>1. m + 1 \in 1..Len(queue) /\ 1 \in 1..Len(queue) /\ m + 1 # 1 BY <1>3
  <2> QED BY <1>2, <1>3, <1>4, <2>1
<1>7. \A s \in Records \ {r} : (\E m \in 1..Len(queue) : queue[m] = s) <=>
                               \E m \in 1..Len(Tail(queue)) : Tail(queue)[m] = s
  <2> TAKE s \in Records \ {r}
  <2>1. ASSUME NEW m \in 1..Len(queue), queue[m] = s
        PROVE  \E n \in 1..Len(Tail(queue)) : Tail(queue)[n] = s
    <3>1. m # 1 BY <1>2, <2>1
    <3>2. m - 1 \in 1..Len(Tail(queue)) /\ m = (m - 1) + 1 BY <1>3, <3>1
    <3> QED BY <1>3, <2>1, <3>2
  <2>2. ASSUME NEW m \in 1..Len(Tail(queue)), Tail(queue)[m] = s
        PROVE  \E n \in 1..Len(queue) : queue[n] = s
    <3>1. m + 1 \in 1..Len(queue) BY <1>3
    <3> QED BY <1>3, <2>2, <3>1
  <2> QED BY <2>1, <2>2
<1>8. /\ js'[r] = "handler" /\ answering'[r] = inner[r].req
      /\ GivenToJs[r] = (refs[r] \ {"queue"}) \cup {"js"}
      /\ \A s \in Records \ {r} :
           js'[s] = js[s] /\ answering'[s] = answering[s] /\ GivenToJs[s] = refs[s]
      /\ js' \in [Records -> JsPhases]
  BY <1>1, <1>2 DEF TakeRequest, GivenToJs, JsPhases
<1>9. "queue" \in refs[r]
  <2>1. PlaceOK(r) BY DEF Own, RecordInv
  <2>2. 1 \in 1..Len(queue) BY <1>3
  <2> QED BY <1>2, <2>1, <2>2 DEF PlaceOK
<1>10. ASSUME NEW s \in Records
       PROVE  /\ RecordOK(GivenToJs[s], inner[s], js'[s])
              /\ \A h \in {"conn", "send"} : h \in GivenToJs[s] <=> h \in refs[s]
              /\ "queue" \in GivenToJs[s] <=> \E m \in 1..Len(Tail(queue)) : Tail(queue)[m] = s
              /\ js'[s] # "none" => answering'[s] = inner[s].req
              /\ refs[s] = {} => GivenToJs[s] = {}
  <2>1. RecordOK(refs[s], inner[s], js[s]) /\ PlaceOK(s) BY DEF Own, RecordInv
  <2>2. CASE s = r
    <3>1. RecordOK(GivenToJs[r], inner[r], "handler")
      <4>1. refs[r] \subseteq {"conn", "queue"} /\ js[r] \in JsPhases
        BY <1>1, <1>9, <2>1, <2>2 DEF RecordOK
      <4>2. js[r] = "none" BY <1>9, <2>1, <2>2, <4>1 DEF RecordOK, JsHolds, JsPhases
      <4> QED BY <1>8, <1>9, <2>1, <2>2, <4>1, <4>2 DEF RecordOK, JsHolds
    <3> QED BY <1>6, <1>8, <1>9, <2>2, <3>1
  <2>3. CASE s # r
    <3>1. js'[s] = js[s] /\ answering'[s] = answering[s] /\ GivenToJs[s] = refs[s]
      BY <1>8, <2>3
    <3>2. (\E m \in 1..Len(queue) : queue[m] = s) <=>
          \E m \in 1..Len(Tail(queue)) : Tail(queue)[m] = s
      BY <1>7, <2>3
    <3> QED BY <2>1, <3>1, <3>2 DEF PlaceOK
  <2> QED BY <2>2, <2>3
<1> QED BY <1>5, <1>8, <1>10 DEF Leaves

\* context.close() keeps the invariant, whatever its caller does with its own record.
LEMMA CloseOwn ==
  ASSUME Own, CloseContext, js' \in [Records -> JsPhases],
         \A s \in Records : /\ RecordOK(refs[s], inner[s], js'[s])
                            /\ js'[s] # "none" => js[s] # "none"
  PROVE  Kept /\ NoPanic
<1>0. refs \in [Records -> SUBSET Holders] /\ queue \in Seq(Records) BY DEF Own, TypeOK
<1>1. UNCHANGED <<conn, rec, senders, pool, answering, panic>> BY DEF CloseContext
<1>2. PICK l, k : DropHandle(queue, refs, l, k) BY Zenon DEF CloseContext
<1>3. ASSUME NEW s \in Records
      PROVE  /\ RecordOK(refs[s], inner[s], js'[s])
             /\ \A h \in {"conn", "send"} : h \in refs[s] <=> h \in refs[s]
             /\ "queue" \in refs[s] <=> \E m \in 1..Len(queue) : queue[m] = s
             /\ js'[s] # "none" => answering'[s] = inner[s].req
             /\ refs[s] = {} => refs[s] = {}
  <2>1. PlaceOK(s) BY DEF Own, RecordInv
  <2> QED BY <1>1, <2>1 DEF PlaceOK
<1>4. \A m, n \in 1..Len(queue) : queue[m] = queue[n] => m = n BY DEF Own, QueueInv
<1>5. Leaves(queue, refs) BY <1>3, <1>4 DEF Leaves
<1>u. UNCHANGED <<conn, rec, senders, pool>> BY <1>1
<1>6. Kept BY <1>0, <1>u, <1>2, <1>5, DropOwn
<1> QED BY <1>1, <1>6 DEF NoPanic

\* The handlers keep the invariant, and their assertions hold.
LEMMA OwnRecord ==
  ASSUME Own, NEW r \in Records, RecordStep(r)
  PROVE  Kept /\ NoPanic
<1>0. /\ refs \in [Records -> SUBSET Holders] /\ inner \in [Records -> Inner]
      /\ js \in [Records -> JsPhases] /\ queue \in Seq(Records)
  BY DEF Own, TypeOK
<1>1. RecordOK(refs[r], inner[r], js[r]) /\ PlaceOK(r) BY DEF Own, RecordInv
<1>m. ASSUME NEW T, NEW i, NEW p, Consumes(r, T, i), js' = [js EXCEPT ![r] = p],
             UNCHANGED <<conn, rec, queue, senders, answering>>, refs[r] # {},
             \A h \in {"conn", "send", "queue"} : h \in T <=> h \in refs[r],
             RecordOK(T, i, p), p # "none" => i.req = inner[r].req /\ js[r] # "none",
             "conn" \in T /\ inner[r].response_ready => i.response_ready
      PROVE  Kept /\ NoPanic
  <2>1. RecordInv' /\ ConnInv' /\ QueueInv' BY <1>m, JsMove DEF Consumes
  <2>2. PoolInv' BY <1>m, PoolMove
  <2>3. NoPanic BY <1>m DEF Consumes, NoPanic
  <2> QED BY <2>1, <2>2, <2>3 DEF Kept
<1>s. Consumes(r, refs[r], inner[r]) <=> UNCHANGED record \/ Consumes(r, refs[r], inner[r])
  BY <1>0 DEF Consumes
<1>2. CASE Answer(r)
  <2>0. js[r] = "handler" /\ UNCHANGED <<conn, rec, queue, senders, answering>>
    BY <1>2 DEF Answer
  <2>1. "js" \in refs[r] /\ refs[r] \subseteq {"conn", "js"} /\ ~inner[r].response_ready
    BY <1>1, <2>0, JsRefs DEF RecordOK
  <2>2. CASE AnswerStatic(r) \/ AnswerWebSocket(r) \/ AnswerNoUpgrade(r)
    <3>1. PICK i \in {inner[r], [inner[r] EXCEPT !.upgrade = TRUE]} :
             Complete(r, refs[r], "js", i) \/ Release(r, refs[r], "js", i)
      BY <2>2 DEF AnswerStatic, AnswerWebSocket, AnswerNoUpgrade
    <3>2. PICK j : Consumes(r, refs[r] \ {"js"}, j) /\ RecordOK(refs[r] \ {"js"}, j, "none")
      BY <2>0, <3>1, AnswerConsumes
    <3>3. js' = [js EXCEPT ![r] = "none"]
      BY <2>2 DEF AnswerStatic, AnswerWebSocket, AnswerNoUpgrade
    <3> QED BY <1>m, <2>0, <2>1, <3>2, <3>3
  <2>3. CASE AnswerStream(r)
    <3>1. PICK j : /\ Consumes(r, refs[r] \cup {"op"}, j) /\ j.req = inner[r].req
                   /\ RecordOK(refs[r] \cup {"op"}, j, "streaming")
      BY <2>0, <2>3, StreamConsumes
    <3>2. js' = [js EXCEPT ![r] = "streaming"] BY <2>3 DEF AnswerStream
    <3> QED BY <1>m, <2>0, <2>1, <3>1, <3>2
  <2>4. CASE AnswerNoStream(r) \/ AnswerThrows(r)
    <3>1. Consumes(r, refs[r], inner[r])
      BY <1>s, <2>4 DEF AnswerNoStream, AnswerThrows
    <3>2. PICK p \in {"leaked", "threw"} : js' = [js EXCEPT ![r] = p]
      BY <2>4 DEF AnswerNoStream, AnswerThrows
    <3>3. RecordOK(refs[r], inner[r], p) BY <1>1, <2>0, <2>1 DEF RecordOK, JsHolds
    <3> QED BY <1>m, <2>0, <2>1, <3>1, <3>2, <3>3
  <2>5. CASE AnswerRaw(r)
    <3> DEFINE T == (refs[r] \ {"js"}) \cup {"task"}
    <3>1. Consumes(r, T, inner[r]) BY <1>0, <2>5 DEF AnswerRaw, Consumes
    <3>2. js' = [js EXCEPT ![r] = "raw"] BY <2>5 DEF AnswerRaw
    <3>3. RecordOK(T, inner[r], "raw") BY <1>1, <2>0, <2>1 DEF RecordOK, JsHolds
    <3> QED BY <1>m, <2>0, <2>1, <3>1, <3>2, <3>3
  <2> QED BY <1>2, <2>2, <2>3, <2>4, <2>5 DEF Answer
<1>3. CASE RawEnds(r)
  <2>0. js[r] = "raw" /\ UNCHANGED <<conn, rec, queue, senders, answering>>
        /\ js' = [js EXCEPT ![r] = "none"]
    BY <1>3 DEF RawEnds
  <2>1. "task" \in refs[r] /\ refs[r] \subseteq {"conn", "task"} /\ ~inner[r].response_ready
    BY <1>1, <2>0, JsRefs DEF RecordOK
  <2>2. PICK i \in {inner[r], [inner[r] EXCEPT !.upgrade = TRUE]} :
           Complete(r, refs[r], "task", i) \/ Release(r, refs[r], "task", i)
    BY <1>3 DEF RawEnds
  <2>3. PICK j : Consumes(r, refs[r] \ {"task"}, j) /\ RecordOK(refs[r] \ {"task"}, j, "none")
    BY <2>0, <2>2, AnswerConsumes
  <2> QED BY <1>m, <2>0, <2>1, <2>3
<1>4. CASE StreamOpEnds(r)
  <2>0. js[r] = "streaming" /\ UNCHANGED <<conn, rec, queue, senders, answering>>
        /\ js' = [js EXCEPT ![r] = "finished"] /\ inner[r].body_finished
    BY <1>4 DEF StreamOpEnds
  <2>1. {"js", "op"} \subseteq refs[r] /\ refs[r] \subseteq {"conn", "js", "op"}
    BY <2>0, JsRefs
  <2>2. Consumes(r, refs[r] \ {"op"}, inner[r])
    BY <1>4, <2>1 DEF StreamOpEnds, Release, Consumes
  <2>3. RecordOK(refs[r] \ {"op"}, inner[r], "finished")
    BY <1>1, <2>0, <2>1 DEF RecordOK, JsHolds
  <2> QED BY <1>m, <2>0, <2>1, <2>2, <2>3
<1>5. CASE CloseAfterFinish(r)
  <2>0. js[r] = "finished" /\ UNCHANGED <<conn, rec, queue, senders, answering>>
        /\ js' = [js EXCEPT ![r] = "none"]
    BY <1>5 DEF CloseAfterFinish
  <2>1. refs[r] = {"js"} BY <2>0, JsRefs
  <2>2. Consumes(r, {}, NoInner) BY <1>5, <2>1 DEF CloseAfterFinish, Recycle, Consumes
  <2>3. RecordOK({}, NoInner, "none") BY DEF RecordOK, NoInner, JsHolds
  <2> QED BY <1>m, <2>0, <2>1, <2>2, <2>3
<1>6. CASE ContextClose(r)
  <2>1. js[r] = "threw" /\ js' = [js EXCEPT ![r] = "leaked"] /\ CloseContext
    BY <1>6 DEF ContextClose
  <2>2. ASSUME NEW s \in Records PROVE RecordOK(refs[s], inner[s], js'[s])
    <3>1. RecordOK(refs[s], inner[s], js[s]) BY DEF Own, RecordInv
    <3>2. js'[s] = IF s = r THEN "leaked" ELSE js[s] BY <1>0, <2>1
    <3> QED BY <2>1, <3>1, <3>2 DEF RecordOK, JsHolds
  <2>3. js' \in [Records -> JsPhases] BY <1>0, <2>1 DEF JsPhases
  <2>4. \A s \in Records : js'[s] # "none" => js[s] # "none" BY <1>0, <2>1
  <2> QED BY <2>1, <2>2, <2>3, <2>4, CloseOwn
<1> QED BY <1>2, <1>3, <1>4, <1>5, <1>6 DEF RecordStep

\* Steps that touch no record keep the invariant.
LEMMA OwnKeep ==
  ASSUME Own, UNCHANGED <<conn, rec, senders, queue, refs, inner, pool, js, answering>>
  PROVE  Kept
BY DEF Own, Kept, RecordInv, PlaceOK, ConnInv, QueueInv, PoolInv

\* The server's steps keep the invariant.
LEMMA OwnServer ==
  ASSUME Own, ServerStep
  PROVE  Kept /\ (NoPanic \/ (WaitJoins /\ joinTaken))
<1>0. refs \in [Records -> SUBSET Holders] /\ queue \in Seq(Records) /\ js \in [Records -> JsPhases]
  BY DEF Own, TypeOK
<1>1. CASE LoopTries
  <2>1. queue # <<>> /\ TakeRequest /\ queue' = Tail(queue) /\ refs' = GivenToJs
        /\ UNCHANGED <<conn, rec, senders, pool, inner, panic>>
    BY <1>1 DEF LoopTries
  <2>2. Leaves(Tail(queue), GivenToJs) BY <2>1, TakeOwn
  <2>3. Kept BY <2>1, <2>2, OwnMove DEF Leaves, QueueInv
  <2> QED BY <2>1, <2>3 DEF NoPanic
<1>2. CASE WaitReceives
  <2>1. queue # <<>> /\ TakeRequest /\ UNCHANGED panic /\ UNCHANGED <<conn, rec, senders, pool>>
        /\ DropHandle(Tail(queue), GivenToJs, listenCancel, connCancel)
    BY <1>2 DEF WaitReceives
  <2>2. Leaves(Tail(queue), GivenToJs) BY <2>1, TakeOwn
  <2>3. Tail(queue) \in Seq(Records) /\ GivenToJs \in [Records -> SUBSET Holders]
    BY <2>1, TakeTypes DEF Own
  <2>4. Kept BY <2>1, <2>2, <2>3, DropOwn
  <2> QED BY <2>1, <2>4 DEF NoPanic
<1>3. CASE WaitJoins \/ CloseJoins
  <2>0. DropHandle(queue, refs, listenCancel, connCancel)
    BY <1>3, Zenon DEF WaitJoins, CloseJoins
  <2>1. UNCHANGED <<conn, rec, senders, pool>> /\ UNCHANGED <<js, answering>>
    <3>1. CASE WaitJoins
      <4>1. UNCHANGED <<connVars, pool, senders, jsVars, acceptor, closing, closed>>
        BY <3>1, Zenon DEF WaitJoins
      <4> QED BY <4>1
    <3>2. CASE CloseJoins BY <3>2 DEF CloseJoins
    <3> QED BY <1>3, <3>1, <3>2
  <2>2. Leaves(queue, refs)
    BY <1>0, <2>1 DEF Leaves, Own, RecordInv, PlaceOK, QueueInv
  <2>3. Kept BY <1>0, <2>0, <2>1, <2>2, DropOwn
  <2>4. NoPanic \/ (WaitJoins /\ joinTaken)
    <3>1. CASE WaitJoins /\ ~joinTaken
      <4>1. UNCHANGED panic BY <3>1, Zenon DEF WaitJoins
      <4> QED BY <4>1 DEF NoPanic
    <3>2. CASE CloseJoins BY <3>2 DEF CloseJoins, NoPanic
    <3> QED BY <1>3, <3>1, <3>2
  <2> QED BY <2>3, <2>4
<1>4. CASE StrayResponse
  <2>1. UNCHANGED js /\ CloseContext BY <1>4 DEF StrayResponse
  <2>2. \A s \in Records : RecordOK(refs[s], inner[s], js'[s]) BY <2>1 DEF Own, RecordInv
  <2> QED BY <1>0, <2>1, <2>2, CloseOwn
<1>5. CASE ~LoopTries /\ ~WaitReceives /\ ~WaitJoins /\ ~CloseJoins /\ ~StrayResponse
  <2>1. UNCHANGED <<conn, rec, senders, queue, refs, inner, pool, js, answering>> /\ UNCHANGED panic
    BY <1>5 DEF ServerStep, AcceptCanceled, AcceptFails, AcceptEnds, OpStep, LoopStep, WaitGivesUp,
                DrainPolled, CloseYields, LoopWaits, LoopLeaves, LoopFinishes, Shutdown, Abort
  <2> QED BY <2>1, OwnKeep DEF NoPanic
<1> QED BY <1>1, <1>2, <1>3, <1>4, <1>5

\* A connection that goes on without its record changing hands.
LEMMA ConnPhase ==
  ASSUME Own, NEW c \in Conns, NEW q \in {"idle", "closed", "responding"},
         conn' = [conn EXCEPT ![c] = q],
         IF q = "responding" THEN conn[c] = "waiting" /\ inner[rec[c]].response_ready
                             ELSE conn[c] \in {"new", "idle"},
         UNCHANGED <<rec, senders, queue, refs, inner, pool, js, answering>>
  PROVE  Kept
<1>1. conn \in [Conns -> ConnPhases] BY DEF Own, TypeOK
<1>2. conn'[c] = q /\ \A d \in Conns \ {c} : conn'[d] = conn[d] BY <1>1
<1>3. \A d \in Conns : conn'[d] = "sending" <=> conn[d] = "sending" BY <1>2
<1>4. RecordInv' BY <1>3 DEF Own, RecordInv, PlaceOK
<1>5. \A d \in Conns : conn'[d] \in {"new", "idle", "closed"} <=>
                       conn[d] \in {"new", "idle", "closed"}
  BY <1>2
<1>6. ConnInv' BY <1>2, <1>3, <1>5 DEF Own, ConnInv
<1> QED BY <1>4, <1>6 DEF Own, Kept, QueueInv, PoolInv

\* What a waiting sender leaves is in the list without it.
LEMMA SenderRemoved ==
  ASSUME NEW s \in Seq(Conns), NEW i \in DOMAIN s, NEW d, NEW k \in 1..Len(s),
         s[k] = d, d # s[i]
  PROVE  \E m \in 1..Len(RemoveAt(s, i)) : RemoveAt(s, i)[m] = d
<1>1. Len(s) \in Nat /\ i \in 1..Len(s) /\ k # i OBVIOUS
<1> DEFINE a == SubSeq(s, 1, i - 1)
           b == SubSeq(s, i + 1, Len(s))
<1>2. a \in Seq(Conns) /\ Len(a) = i - 1 /\ \A m \in 1..(i - 1) : a[m] = s[m]
  <2>1. i - 1 \in 0..Len(s) BY <1>1
  <2>2. \A m \in 1..(i - 1) : s[m] \in Conns BY <1>1
  <2> QED BY <1>1, <2>1, <2>2, SubSeqProperties
<1>3. b \in Seq(Conns) /\ Len(b) = Len(s) - i /\ \A m \in 1..(Len(s) - i) : b[m] = s[i + m]
  <2>1. \A m \in (i + 1)..Len(s) : s[m] \in Conns BY <1>1
  <2>2. CASE i = Len(s)
    <3>1. b = <<>> BY <1>1, <2>2
    <3> QED BY <1>1, <2>2, <3>1
  <2>3. CASE i < Len(s) BY <1>1, <2>1, <2>3, SubSeqProperties
  <2>4. i = Len(s) \/ i < Len(s) BY <1>1
  <2> QED BY <2>2, <2>3, <2>4, Zenon
<1>4. RemoveAt(s, i) = a \o b BY DEF RemoveAt
<1> HIDE DEF a, b
<1>5. /\ Len(a \o b) = Len(a) + Len(b)
      /\ \A m \in 1..Len(a) : (a \o b)[m] = a[m]
      /\ \A m \in 1..Len(b) : (a \o b)[Len(a) + m] = b[m]
  <2>1. a \in Seq(Conns) /\ b \in Seq(Conns) /\ Len(a) \in Nat /\ Len(b) \in Nat
    BY <1>1, <1>2, <1>3
  <2>2. /\ Len(a \o b) = Len(a) + Len(b)
        /\ \A m \in 1..(Len(a) + Len(b)) :
             (a \o b)[m] = IF m <= Len(a) THEN a[m] ELSE b[m - Len(a)]
    BY <2>1, ConcatProperties
  <2>3. \A m \in 1..Len(a) : (a \o b)[m] = a[m] BY <2>1, <2>2
  <2>4. ASSUME NEW m \in 1..Len(b) PROVE (a \o b)[Len(a) + m] = b[m]
    <3>1. Len(a) + m \in 1..(Len(a) + Len(b)) /\ (Len(a) + m) - Len(a) = m
          /\ ~(Len(a) + m <= Len(a))
      BY <2>1
    <3> QED BY <2>2, <3>1
  <2> QED BY <2>2, <2>3, <2>4
<1>6. CASE k < i
  <2>1. k \in 1..Len(a) /\ k \in 1..(Len(a) + Len(b)) BY <1>1, <1>2, <1>3, <1>6
  <2> QED BY <1>2, <1>4, <1>5, <2>1
<1>7. CASE k > i
  <2>1. /\ k - i \in 1..Len(b) /\ k - i \in 1..(Len(s) - i)
        /\ Len(a) + (k - i) \in 1..(Len(a) + Len(b)) /\ i + (k - i) = k
    BY <1>1, <1>2, <1>3, <1>7, SMTT(30)
  <2>2. b[k - i] = s[k] BY <1>3, <2>1
  <2>3. (a \o b)[Len(a) + (k - i)] = b[k - i] BY <1>5, <2>1
  <2> QED BY <1>4, <1>5, <2>1, <2>2, <2>3
<1> QED BY <1>1, <1>6, <1>7

\* A connection that ends its request: it drops its reference and its place among
\* the senders.
LEMMA ConnEnds ==
  ASSUME Own, NEW c \in Conns, BodyEnds(c) \/ (DropConn(c) /\ conn[c] # "idle"),
         Open(c)
  PROVE  Kept /\ NoPanic
<1>0. /\ refs \in [Records -> SUBSET Holders] /\ inner \in [Records -> Inner]
      /\ senders \in Seq(Conns) /\ conn \in [Conns -> ConnPhases]
      /\ js \in [Records -> JsPhases]
  BY DEF Own, TypeOK
<1>1. conn[c] \in {"sending", "waiting", "responding"}
  BY <1>0 DEF BodyEnds, Open, ConnPhases
<1>2. PICK r \in Records : r = rec[c] /\ "conn" \in refs[r] BY <1>1, ConnRefs
<1>3. PICK q \in {"idle", "closed"} : conn' = [conn EXCEPT ![c] = q]
  BY DEF BodyEnds, DropConn
<1>4. UNCHANGED <<queue, js, answering>> /\ rec' = [rec EXCEPT ![c] = NoRecord]
  BY DEF BodyEnds, DropConn
<1>5. RecordOK(refs[r], inner[r], js[r]) BY DEF Own, RecordInv
<1>m. ASSUME NEW i, Consumes(r, refs[r] \ {"conn", "send"}, i),
             RecordOK(refs[r] \ {"conn", "send"}, i, js[r]),
             refs[r] \ {"conn", "send"} # {} => i.req = inner[r].req,
             \A d \in Conns \ {c} : (\E k \in 1..Len(senders) : senders[k] = d) =>
                                     \E k \in 1..Len(senders') : senders'[k] = d
      PROVE  Kept /\ NoPanic
  <2>1. refs' = [refs EXCEPT ![rec[c]] = @ \ {"conn", "send"}] BY <1>2, <1>m DEF Consumes
  <2>2. inner' = [inner EXCEPT ![rec[c]] = i] BY <1>2, <1>m DEF Consumes
  <2>3. RecordInv' /\ ConnInv' /\ QueueInv'
    BY <1>1, <1>2, <1>3, <1>4, <1>m, <2>1, <2>2, ConnMove
  <2>4. PoolInv' BY <1>2, <1>m, PoolMove
  <2>5. NoPanic BY <1>m DEF Consumes, NoPanic
  <2> QED BY <2>3, <2>4, <2>5 DEF Kept
<1>6. CASE conn[c] = "sending"
  <2>1. DropConn(c) BY <1>6 DEF BodyEnds
  <2>2. Release(r, refs[r] \ {"send"}, "conn", inner[r]) BY <1>2, <1>6, <2>1 DEF DropConn
  <2>3. PICK i \in DOMAIN senders : senders[i] = c /\ senders' = RemoveAt(senders, i)
    BY <1>6, <2>1 DEF DropConn
  <2>4. refs[r] = {"conn", "send"} BY <1>2, <1>6, ConnRefs
  <2>5. refs[r] \ {"send"} = {"conn"} /\ refs[r] \ {"conn", "send"} = {} BY <2>4
  <2>6. Consumes(r, {}, NoInner) BY <2>2, <2>5 DEF Release, Consumes
  <2>7. js[r] = "none" BY <1>0, <1>5, <2>4 DEF RecordOK, JsHolds, JsPhases
  <2>8. RecordOK({}, NoInner, js[r]) BY <2>7 DEF RecordOK, NoInner, JsHolds
  <2>9. \A d \in Conns \ {c} : (\E k \in 1..Len(senders) : senders[k] = d) =>
                               \E k \in 1..Len(senders') : senders'[k] = d
    BY <1>0, <2>3, SenderRemoved
  <2> QED BY <1>m, <2>5, <2>6, <2>8, <2>9
<1>7. CASE conn[c] = "waiting"
  <2>1. DropConn(c) BY <1>7 DEF BodyEnds
  <2>2. Cancel(r, refs[r], "conn", inner[r]) /\ UNCHANGED senders
    BY <1>2, <1>7, <2>1 DEF DropConn
  <2>3. "send" \notin refs[r] BY <1>2, <1>7, ConnRefs
  <2>4. PICK i : /\ Consumes(r, refs[r] \ {"conn", "send"}, i)
                 /\ RecordOK(refs[r] \ {"conn", "send"}, i, js[r])
                 /\ refs[r] \ {"conn", "send"} # {} => i.req = inner[r].req
    BY <1>2, <2>2, <2>3, CancelConn
  <2> QED BY <1>m, <2>2, <2>4
<1>8. CASE conn[c] = "responding"
  <2>1. Finish(r, refs[r], "conn", inner[r]) /\ UNCHANGED senders
    <3>1. CASE BodyEnds(c) BY <1>2, <3>1 DEF BodyEnds
    <3>2. CASE DropConn(c) BY <1>2, <1>8, <3>2 DEF DropConn
    <3> QED BY <3>1, <3>2
  <2>2. inner[r].response_ready BY <1>2, <1>8, ConnRefs
  <2>3. PICK i : /\ Consumes(r, refs[r] \ {"conn", "send"}, i)
                 /\ RecordOK(refs[r] \ {"conn", "send"}, i, js[r])
                 /\ refs[r] \ {"conn", "send"} # {} => i.req = inner[r].req
    BY <1>2, <2>1, <2>2, FinishConn
  <2> QED BY <1>m, <2>1, <2>3
<1> QED BY <1>1, <1>6, <1>7, <1>8

\* A record that nobody holds is with no connection, in no channel, with no handler.
LEMMA FreeRecord ==
  ASSUME Own, NEW r \in Records, refs[r] = {}
  PROVE  /\ \A c \in Conns : rec[c] # r
         /\ \A k \in 1..Len(queue) : queue[k] # r
         /\ js[r] = "none"
<1>1. RecordOK(refs[r], inner[r], js[r]) /\ PlaceOK(r) BY DEF Own, RecordInv
<1>2. js[r] \in JsPhases BY DEF Own, TypeOK
<1>3. js[r] = "none" BY <1>1, <1>2 DEF RecordOK, JsHolds, JsPhases
<1> QED BY <1>1, <1>3 DEF PlaceOK

\* HttpRecord::new takes a record that nobody holds.
LEMMA NewIsFree ==
  ASSUME Own, NEW r \in Records, NewRecord(r),
         pool' = IF pool # <<>> THEN Front(pool) ELSE pool
  PROVE  /\ refs[r] = {}
         /\ Len(pool') <= Len(pool) /\ \A k \in 1..Len(pool') : pool'[k] = pool[k] /\ pool'[k] # r
<1>1. pool \in Seq(Records) BY DEF Own, TypeOK
<1>2. CASE pool = <<>> BY <1>2 DEF NewRecord
<1>3. CASE pool # <<>>
  <2>1. Len(pool) \in Nat \ {0} /\ Len(pool) \in 1..Len(pool) BY <1>1, <1>3
  <2>2. r = pool[Len(pool)] BY <1>3 DEF NewRecord, Last
  <2>3. Len(pool) - 1 \in 0..Len(pool) BY <2>1
  <2>4. pool' = SubSeq(pool, 1, Len(pool) - 1) BY <1>3 DEF Front
  <2>5. Len(pool') = Len(pool) - 1 /\ \A k \in 1..(Len(pool) - 1) : pool'[k] = pool[k]
    BY <1>1, <2>3, <2>4, PoolPrefix
  <2>6. refs[r] = {} BY <2>1, <2>2 DEF Own, PoolInv
  <2>7. \A k \in 1..(Len(pool) - 1) : pool[k] # r
    <3> TAKE k \in 1..(Len(pool) - 1)
    <3>1. k \in 1..Len(pool) /\ k # Len(pool) BY <2>1
    <3> QED BY <2>1, <2>2, <3>1 DEF Own, PoolInv
  <2> QED BY <2>1, <2>5, <2>6, <2>7
<1> QED BY <1>2, <1>3

\* A record that goes to the end of the channel is there, once, and nothing else moves.
LEMMA QueueAppend ==
  ASSUME Own, NEW r \in Records, \A k \in 1..Len(queue) : queue[k] # r,
         queue' = Append(queue, r)
  PROVE  /\ QueueInv'
         /\ \E k \in 1..Len(queue') : queue'[k] = r
         /\ \A s \in Records \ {r} : (\E k \in 1..Len(queue') : queue'[k] = s) <=>
                                     \E k \in 1..Len(queue) : queue[k] = s
<1>1. queue \in Seq(Records) /\ Len(queue) \in Nat BY DEF Own, TypeOK
<1>2. /\ Len(queue') = Len(queue) + 1 /\ queue'[Len(queue) + 1] = r
      /\ \A k \in 1..Len(queue) : queue'[k] = queue[k]
  BY <1>1
<1>3. \A k : k \in 1..Len(queue') <=> k \in 1..Len(queue) \/ k = Len(queue) + 1 BY <1>1, <1>2
<1>4. QueueInv' BY <1>1, <1>2, <1>3 DEF Own, QueueInv
<1>5. \E k \in 1..Len(queue') : queue'[k] = r BY <1>2, <1>3
<1>6. \A s \in Records \ {r} : (\E k \in 1..Len(queue') : queue'[k] = s) <=>
                               \E k \in 1..Len(queue) : queue[k] = s
  BY <1>2, <1>3
<1> QED BY <1>4, <1>5, <1>6

\* A request comes in with a record that nobody else has.
LEMMA OwnRequest ==
  ASSUME Own, NEW c \in Conns, Request(c)
  PROVE  Kept /\ NoPanic
<1>0. /\ refs \in [Records -> SUBSET Holders] /\ inner \in [Records -> Inner]
      /\ senders \in Seq(Conns) /\ conn \in [Conns -> ConnPhases]
      /\ rec \in [Conns -> Records \cup {NoRecord}] /\ sent \in Nat
      /\ queue \in Seq(Records) /\ pool \in Seq(Records)
  BY DEF Own, TypeOK
<1>a. conn[c] = "idle" /\ UNCHANGED <<jsVars, server, drainWaker>> BY Zenon DEF Request
<1>1. conn[c] = "idle" /\ UNCHANGED <<js, answering>> BY <1>a
<1>2. CASE ~Held
  <2>0. UNCHANGED <<connVars, inner, refs, pool, channel>> BY <1>2, Zenon DEF Request
  <2>1. NoPanic BY <1>2, Zenon DEF Request, NoPanic
  <2>2. UNCHANGED <<conn, rec, senders, queue, refs, inner, pool, js, answering>>
    BY <1>1, <2>0
  <2>3. Kept BY <2>2, OwnKeep
  <2> QED BY <2>1, <2>3
<1>3. CASE Held
  <2> DEFINE room == senders = <<>> /\ Len(queue) < ChannelCap
  <2>1. PICK r \in Records :
           /\ NewRecord(r)
           /\ pool' = IF pool # <<>> THEN Front(pool) ELSE pool
           /\ inner' = [inner EXCEPT ![r] = Fresh(sent + 1)]
           /\ rec' = [rec EXCEPT ![c] = r]
           /\ refs' = [refs EXCEPT ![r] = {"conn", IF room THEN "queue" ELSE "send"}]
           /\ conn' = [conn EXCEPT ![c] = IF room THEN "waiting" ELSE "sending"]
           /\ queue' = IF room THEN Append(queue, r) ELSE queue
           /\ senders' = IF room THEN senders ELSE Append(senders, c)
    BY <1>3 DEF Request
  <2>2. /\ refs[r] = {} /\ Len(pool') <= Len(pool)
        /\ \A k \in 1..Len(pool') : pool'[k] = pool[k] /\ pool'[k] # r
    BY <2>1, NewIsFree
  <2>3. /\ \A d \in Conns : rec[d] # r
        /\ \A k \in 1..Len(queue) : queue[k] # r
        /\ js[r] = "none"
    BY <2>2, FreeRecord
  <2>4. NoPanic BY <1>3 DEF Request, NoPanic
  <2>5. /\ rec'[c] = r /\ \A d \in Conns \ {c} : rec'[d] = rec[d] /\ conn'[d] = conn[d]
        /\ conn'[c] = IF room THEN "waiting" ELSE "sending"
    BY <1>0, <2>1
  <2>6. /\ refs'[r] = {"conn", IF room THEN "queue" ELSE "send"}
        /\ inner'[r] = Fresh(sent + 1)
        /\ \A s \in Records \ {r} : refs'[s] = refs[s] /\ inner'[s] = inner[s]
    BY <1>0, <2>1
  <2>7. /\ QueueInv'
        /\ (\E k \in 1..Len(queue') : queue'[k] = r) <=> room
        /\ \A s \in Records \ {r} : (\E k \in 1..Len(queue') : queue'[k] = s) <=>
                                    \E k \in 1..Len(queue) : queue[k] = s
    <3>1. CASE room
      <4>1. queue' = Append(queue, r) BY <2>1, <3>1
      <4> QED BY <2>3, <3>1, <4>1, QueueAppend
    <3>2. CASE ~room
      <4>1. queue' = queue BY <2>1, <3>2
      <4> QED BY <2>3, <3>2, <4>1 DEF Own, QueueInv
    <3> QED BY <3>1, <3>2
  <2>8. /\ \A d \in Conns : (\E k \in 1..Len(senders) : senders[k] = d) =>
                            \E k \in 1..Len(senders') : senders'[k] = d
        /\ ~room => \E k \in 1..Len(senders') : senders'[k] = c
    <3>1. CASE room BY <2>1, <3>1
    <3>2. CASE ~room
      <4>1. senders' = Append(senders, c) BY <2>1, <3>2
      <4>2. /\ Len(senders) \in Nat /\ Len(senders') = Len(senders) + 1
            /\ senders'[Len(senders) + 1] = c
            /\ \A k \in 1..Len(senders) : senders'[k] = senders[k]
        BY <1>0, <4>1
      <4>3. Len(senders) + 1 \in 1..Len(senders')
            /\ \A k \in 1..Len(senders) : k \in 1..Len(senders')
        BY <4>2
      <4> QED BY <4>2, <4>3
    <3> QED BY <3>1, <3>2
  <2>9. RecordOK(refs'[r], inner'[r], js'[r])
    <3>1. /\ inner'[r].req # 0 /\ ~inner'[r].response_ready /\ ~inner'[r].needs_close
          /\ ~inner'[r].body_finished /\ ~inner'[r].been_dropped
      BY <1>0, <2>6 DEF Fresh, NoInner
    <3>2. js'[r] = "none" BY <1>1, <2>3
    <3>3. CASE room BY <2>6, <3>1, <3>2, <3>3 DEF RecordOK, JsHolds
    <3>4. CASE ~room BY <2>6, <3>1, <3>2, <3>4 DEF RecordOK, JsHolds
    <3> QED BY <3>3, <3>4
  <2>10. PlaceOK(r)'
    <3>1. "conn" \in refs'[r] /\ (\E d \in Conns : rec'[d] = r) BY <2>5, <2>6
    <3>2. "send" \in refs'[r] <=> ~room BY <2>6
    <3>3. (\E d \in Conns : rec'[d] = r /\ conn'[d] = "sending") <=> ~room BY <2>3, <2>5
    <3>4. "queue" \in refs'[r] <=> room BY <2>6
    <3>5. js'[r] = "none" BY <1>1, <2>3
    <3> QED BY <2>7, <3>1, <3>2, <3>3, <3>4, <3>5 DEF PlaceOK
  <2>11. ASSUME NEW s \in Records \ {r}
         PROVE  RecordOK(refs'[s], inner'[s], js'[s]) /\ PlaceOK(s)'
    <3>1. RecordOK(refs[s], inner[s], js[s]) /\ PlaceOK(s) BY DEF Own, RecordInv
    <3>2. refs'[s] = refs[s] /\ inner'[s] = inner[s] BY <2>6
    <3>3. rec[c] # s BY <1>1, NoRecordAssumption DEF Own, ConnInv
    <3>4. \A d \in Conns : (rec'[d] = s <=> rec[d] = s) /\ (rec[d] = s => conn'[d] = conn[d])
      BY <2>5, <3>3
    <3> QED BY <1>1, <2>7, <3>1, <3>2, <3>4 DEF PlaceOK
  <2>12. RecordInv' BY <2>9, <2>10, <2>11 DEF RecordInv
  <2>13. ConnInv'
    <3>1. \A d \in Conns : rec'[d] = NoRecord <=> conn'[d] \in {"new", "idle", "closed"}
      BY <2>5 DEF Own, ConnInv
    <3>2. \A d, e \in Conns : rec'[d] = rec'[e] /\ rec'[d] # NoRecord => d = e
      BY <2>3, <2>5 DEF Own, ConnInv
    <3>3. ASSUME NEW d \in Conns, conn'[d] = "responding"
          PROVE  inner'[rec'[d]].response_ready
      <4>1. d # c /\ conn[d] = "responding" /\ rec'[d] = rec[d] BY <2>5, <3>3
      <4>2. rec[d] \in Records /\ inner[rec[d]].response_ready BY <4>1, ConnRefs
      <4> QED BY <2>3, <2>6, <4>1, <4>2
    <3>4. \A d \in Conns : conn'[d] = "sending" => \E k \in 1..Len(senders') : senders'[k] = d
      BY <2>5, <2>8 DEF Own, ConnInv
    <3> QED BY <3>1, <3>2, <3>3, <3>4 DEF ConnInv
  <2>14. PoolInv'
    <3>1. \A k \in 1..Len(pool') : k \in 1..Len(pool) /\ pool[k] \in Records \ {r}
      <4>1. pool' \in Seq(Records)
        <5>1. TypeOK' BY TypeConn
        <5> QED BY <5>1 DEF TypeOK
      <4>2. Len(pool') \in Nat /\ Len(pool) \in Nat BY <1>0, <4>1
      <4> QED BY <1>0, <2>2, <4>2
    <3>2. \A k \in 1..Len(pool') : refs'[pool'[k]] = {}
      <4> TAKE k \in 1..Len(pool')
      <4>1. refs[pool[k]] = {} BY <3>1 DEF Own, PoolInv
      <4> QED BY <2>2, <2>6, <3>1, <4>1
    <3>3. \A k, m \in 1..Len(pool') : pool'[k] = pool'[m] => k = m
      BY <2>2, <3>1 DEF Own, PoolInv
    <3> QED BY <3>2, <3>3 DEF PoolInv
  <2> QED BY <2>4, <2>7, <2>12, <2>13, <2>14 DEF Kept
<1> QED BY <1>2, <1>3

\* A waiting sender whose turn it is moves its record into the channel.
LEMMA OwnSend ==
  ASSUME Own, NEW c \in Conns, SendAdmitted(c)
  PROVE  Kept /\ NoPanic
<1>0. /\ refs \in [Records -> SUBSET Holders] /\ inner \in [Records -> Inner]
      /\ senders \in Seq(Conns) /\ conn \in [Conns -> ConnPhases]
      /\ js \in [Records -> JsPhases]
  BY DEF Own, TypeOK
<1>a. conn[c] = "sending" BY Zenon DEF SendAdmitted
<1>b. UNCHANGED <<draining, rec, sent, inner, pool, jsVars, server, drainWaker>>
  BY Zenon DEF SendAdmitted
<1>1. CASE ~Held
  <2>1. NoPanic BY <1>1, Zenon DEF SendAdmitted, NoPanic
  <2>2. UNCHANGED <<conn, refs, channel>> BY <1>1, Zenon DEF SendAdmitted
  <2>3. UNCHANGED <<conn, rec, senders, queue, refs, inner, pool, js, answering>>
    BY <1>b, <2>2
  <2>4. Kept BY <2>3, OwnKeep
  <2> QED BY <2>1, <2>4
<1>2. CASE Held
  <2>0. PICK r \in Records : r = rec[c] /\ refs[r] = {"conn", "send"} BY <1>a, ConnRefs
  <2>1. NoPanic BY <1>2, Zenon DEF SendAdmitted, NoPanic
  <2>2. c = Head(senders) /\ queue' = Append(queue, rec[c]) /\ senders' = Tail(senders)
    BY <1>2, Zenon DEF SendAdmitted
  <2>3. /\ refs' = [refs EXCEPT ![rec[c]] = {"conn", "queue"}]
        /\ conn' = [conn EXCEPT ![c] = "waiting"]
    BY <1>2, Zenon DEF SendAdmitted
  <2>4. RecordOK(refs[r], inner[r], js[r]) /\ PlaceOK(r) BY DEF Own, RecordInv
  <2>5. js[r] = "none" BY <1>0, <2>0, <2>4 DEF RecordOK, JsHolds, JsPhases
  <2>6. \A k \in 1..Len(queue) : queue[k] # r BY <2>0, <2>4 DEF PlaceOK
  <2>7. /\ QueueInv'
        /\ \E k \in 1..Len(queue') : queue'[k] = r
        /\ \A s \in Records \ {r} : (\E k \in 1..Len(queue') : queue'[k] = s) <=>
                                    \E k \in 1..Len(queue) : queue[k] = s
    BY <2>0, <2>2, <2>6, QueueAppend
  <2>8. /\ refs'[r] = {"conn", "queue"} /\ \A s \in Records \ {r} : refs'[s] = refs[s]
        /\ conn'[c] = "waiting" /\ \A d \in Conns \ {c} : conn'[d] = conn[d]
    BY <1>0, <2>0, <2>3
  <2>9. RecordOK(refs'[r], inner'[r], js'[r])
    BY <1>b, <2>0, <2>4, <2>5, <2>8 DEF RecordOK, JsHolds
  <2>10. \A d \in Conns : rec[d] = r => d = c BY <2>0 DEF Own, ConnInv
  <2>11. PlaceOK(r)'
    <3>1. \E d \in Conns : rec'[d] = r BY <1>b, <2>0
    <3>2. ~\E d \in Conns : rec'[d] = r /\ conn'[d] = "sending" BY <1>b, <2>8, <2>10
    <3>3. js'[r] = "none" BY <1>b, <2>5
    <3> QED BY <2>7, <2>8, <3>1, <3>2, <3>3 DEF PlaceOK
  <2>12. ASSUME NEW s \in Records \ {r}
         PROVE  RecordOK(refs'[s], inner'[s], js'[s]) /\ PlaceOK(s)'
    <3>1. RecordOK(refs[s], inner[s], js[s]) /\ PlaceOK(s) BY DEF Own, RecordInv
    <3>2. \A d \in Conns : rec[d] = s => conn'[d] = conn[d] BY <2>0, <2>8
    <3> QED BY <1>b, <2>7, <2>8, <3>1, <3>2 DEF PlaceOK
  <2>13. RecordInv' BY <2>9, <2>11, <2>12 DEF RecordInv
  <2>14. \A d \in Conns \ {c} : (\E k \in 1..Len(senders) : senders[k] = d) =>
                                \E k \in 1..Len(senders') : senders'[k] = d
    <3> TAKE d \in Conns \ {c}
    <3> HAVE \E k \in 1..Len(senders) : senders[k] = d
    <3>1. PICK k \in 1..Len(senders) : senders[k] = d OBVIOUS
    <3>2. senders # <<>> /\ Len(senders) \in Nat BY <1>0, <3>1
    <3>3. /\ Head(senders) = senders[1] /\ Len(senders') = Len(senders) - 1
          /\ \A m \in 1..(Len(senders) - 1) : senders'[m] = senders[m + 1]
      BY <1>0, <2>2, <3>2
    <3>4. k # 1 BY <2>2, <3>1, <3>3
    <3>5. k - 1 \in 1..(Len(senders) - 1) /\ (k - 1) + 1 = k BY <3>2, <3>4
    <3> QED BY <3>1, <3>3, <3>5
  <2>15. ConnInv'
    <3>1. \A d \in Conns : conn'[d] = "sending" => \E k \in 1..Len(senders') : senders'[k] = d
      BY <2>8, <2>14 DEF Own, ConnInv
    <3>2. \A d \in Conns : rec'[d] = NoRecord <=> conn'[d] \in {"new", "idle", "closed"}
      BY <1>a, <1>b, <2>8 DEF Own, ConnInv
    <3>3. \A d \in Conns : conn'[d] = "responding" => inner'[rec'[d]].response_ready
      BY <1>b, <2>8 DEF Own, ConnInv
    <3> QED BY <1>b, <3>1, <3>2, <3>3 DEF Own, ConnInv
  <2>16. PoolInv'
    <3>1. pool \in Seq(Records) BY DEF Own, TypeOK
    <3>2. ASSUME NEW k \in 1..Len(pool) PROVE refs'[pool[k]] = {}
      <4>1. pool[k] \in Records /\ refs[pool[k]] = {} BY <3>1 DEF Own, PoolInv
      <4>2. pool[k] # r BY <2>0, <4>1
      <4> QED BY <2>8, <4>1, <4>2
    <3> QED BY <1>b, <3>2 DEF Own, PoolInv
  <2> QED BY <2>1, <2>7, <2>13, <2>15, <2>16 DEF Kept
<1> QED BY <1>1, <1>2

\* The connections keep the invariant, and their assertions hold.
LEMMA OwnConn ==
  ASSUME Own, NEW c \in Conns,
         Accept(c) \/ Request(c) \/ ConnStep(c) \/ Disconnect(c)
  PROVE  Kept /\ NoPanic
<1>0. conn \in [Conns -> ConnPhases] BY DEF Own, TypeOK
<1>1. CASE Accept(c)
  <2>1. /\ conn' = [conn EXCEPT ![c] = "idle"] /\ conn[c] = "new" /\ UNCHANGED panic
        /\ UNCHANGED <<rec, senders, queue, refs, inner, pool, js, answering>>
    BY <1>1 DEF Accept
  <2>2. Kept BY <2>1, ConnPhase
  <2> QED BY <2>1, <2>2, Zenon DEF NoPanic
<1>2. CASE IntoResponse(c)
  <2>1. /\ conn' = [conn EXCEPT ![c] = "responding"] /\ conn[c] = "waiting"
        /\ inner[rec[c]].response_ready /\ UNCHANGED panic
        /\ UNCHANGED <<rec, senders, queue, refs, inner, pool, js, answering>>
    BY <1>2 DEF IntoResponse
  <2>2. Kept BY <2>1, ConnPhase
  <2> QED BY <2>1, <2>2, Zenon DEF NoPanic
<1>3. CASE ConnDrains(c)
  <2>1. /\ conn' = IF conn[c] = "idle" THEN [conn EXCEPT ![c] = "closed"] ELSE conn
        /\ UNCHANGED <<rec, senders, queue, refs, inner, pool, js, answering>>
        /\ UNCHANGED panic
    BY <1>3 DEF ConnDrains
  <2>2. CASE conn[c] = "idle" BY <2>1, <2>2, ConnPhase, Zenon DEF NoPanic
  <2>3. CASE conn[c] # "idle"
    <3>1. UNCHANGED <<conn, rec, senders, queue, refs, inner, pool, js, answering>>
      BY <2>1, <2>3
    <3>2. Kept BY <3>1, OwnKeep
    <3> QED BY <2>1, <3>2, Zenon DEF NoPanic
  <2> QED BY <2>2, <2>3
<1>4. CASE BodyEnds(c)
  <2>1. Open(c) BY <1>4 DEF BodyEnds, Open
  <2> QED BY <1>4, <2>1, ConnEnds
<1>5. CASE DropConn(c) /\ Open(c)
  <2>1. CASE conn[c] # "idle" BY <1>5, <2>1, ConnEnds
  <2>2. CASE conn[c] = "idle"
    <3>1. UNCHANGED <<inner, refs, pool, panic, senders, queue, js, answering>>
      BY <1>5, <2>2 DEF DropConn
    <3>2. conn' = [conn EXCEPT ![c] = "closed"] /\ rec' = [rec EXCEPT ![c] = NoRecord]
      BY <1>5 DEF DropConn
    <3>3. rec \in [Conns -> Records \cup {NoRecord}] /\ rec[c] = NoRecord
      BY <2>2 DEF Own, TypeOK, ConnInv
    <3>4. UNCHANGED <<rec, senders, queue, refs, inner, pool, js, answering>>
      BY <3>1, <3>2, <3>3
    <3>5. Kept BY <2>2, <3>2, <3>4, ConnPhase
    <3>6. NoPanic BY <3>1 DEF NoPanic
    <3> QED BY <3>5, <3>6
  <2> QED BY <2>1, <2>2
<1> QED BY <1>1, <1>2, <1>3, <1>4, <1>5, OwnRequest, OwnSend
      DEF ConnStep, ConnAborted, Disconnect

-----------------------------------------------------------------------------
(* The accept task is joined once, and the drain. *)

\* Whoever joins the accept task does so after everybody else who might: the serve
\* loop leaves op_http_wait first, and op_http_close finds the resource gone.
JoinInv ==
  /\ joinTaken => loop \notin {"wait", "join"} /\ (loop = "poll" => ~table)
  /\ closeOp # "none" => ~table /\ closing # "none"
  /\ closeOp = "yield" => closing = "forceful"
  /\ closeOp \in {"yield", "join", "done", "failed"} => loop # "wait"

\* An op that op_http_close() waits for has a waker, which is woken when the server
\* state has no other holder; after it, there is none.
DrainInv ==
  /\ closing = "graceful" /\ closeOp \in {"join", "done", "failed"} => Quiet
  /\ closeOp = "drain" => drainWaker # "none" /\ listenCancel
  /\ closeOp = "drain" /\ Quiet => drainWaker = "woken"

\* context.close() leaves the loop and op_http_close alone.
LEMMA CloseKept ==
  CloseContext => /\ UNCHANGED <<loop, joinTaken, closing, closeOp>> /\ Signal
                  /\ ~table' /\ (listenCancel => listenCancel')
<1> SUFFICES ASSUME CloseContext
             PROVE  /\ UNCHANGED <<loop, joinTaken, closing, closeOp>> /\ Signal
                    /\ ~table' /\ (listenCancel => listenCancel')
  OBVIOUS
<1>1. UNCHANGED <<loop, joinTaken, closing, closeOp>> BY DEF CloseContext
<1>2. ~table' BY Zenon DEF CloseContext
<1>3. listenCancel => listenCancel' BY Zenon DEF CloseContext, DropHandle
<1>4. Signal BY Zenon DEF CloseContext
<1> QED BY <1>1, <1>2, <1>3, <1>4

\* The steps of connections and records leave the loop and op_http_close alone.
LEMMA ServerKept ==
  /\ \A c \in Conns : Accept(c) \/ Request(c) \/ ConnStep(c) \/ Disconnect(c) =>
       UNCHANGED <<loop, table, joinTaken, closing, closeOp, listenCancel>>
  /\ \A r \in Records : RecordStep(r) =>
       /\ UNCHANGED <<loop, joinTaken, closing, closeOp>>
       /\ (table' => table) /\ (listenCancel => listenCancel')
<1>1. ASSUME NEW c \in Conns, Accept(c) \/ Request(c) \/ ConnStep(c) \/ Disconnect(c)
      PROVE  UNCHANGED <<loop, table, joinTaken, closing, closeOp, listenCancel>>
  <2>1. CASE Request(c)
    <3>1. UNCHANGED <<jsVars, server, drainWaker>> BY <2>1, Zenon DEF Request
    <3> QED BY <3>1
  <2>2. CASE SendAdmitted(c)
    <3>1. UNCHANGED <<draining, rec, sent, inner, pool, jsVars, server, drainWaker>>
      BY <2>2, Zenon DEF SendAdmitted
    <3> QED BY <3>1
  <2>3. CASE Accept(c) \/ IntoResponse(c) \/ ConnDrains(c)
    BY <2>3 DEF Accept, IntoResponse, ConnDrains
  <2>4. CASE BodyEnds(c) BY <2>4 DEF BodyEnds
  <2>5. CASE DropConn(c) BY <2>5 DEF DropConn
  <2> QED BY <1>1, <2>1, <2>2, <2>3, <2>4, <2>5 DEF ConnStep, ConnAborted, Disconnect
<1>2. ASSUME NEW r \in Records, RecordStep(r)
      PROVE  /\ UNCHANGED <<loop, joinTaken, closing, closeOp>>
             /\ (table' => table) /\ (listenCancel => listenCancel')
  <2>1. CASE Answer(r) BY <2>1 DEF Answer
  <2>2. CASE RawEnds(r) \/ StreamOpEnds(r) \/ CloseAfterFinish(r)
    BY <2>2 DEF RawEnds, StreamOpEnds, CloseAfterFinish
  <2>3. CASE ContextClose(r)
    <3>1. CloseContext BY <2>3 DEF ContextClose
    <3> QED BY <3>1, CloseKept
  <2> QED BY <1>2, <2>1, <2>2, <2>3 DEF RecordStep
<1> QED BY <1>1, <1>2

\* Every step keeps the accept task to be joined once.
LEMMA JoinStep ==
  ASSUME Own, JoinInv, DrainInv, [Next]_vars
  PROVE  JoinInv'
<1>1. CASE \E c \in Conns : Accept(c) \/ Request(c) \/ ConnStep(c) \/ Disconnect(c)
  <2>1. UNCHANGED <<loop, table, joinTaken, closing, closeOp>> BY <1>1, ServerKept
  <2> QED BY <2>1 DEF JoinInv
<1>2. CASE \E r \in Records : RecordStep(r)
  <2>1. UNCHANGED <<loop, joinTaken, closing, closeOp>> /\ (table' => table)
    BY <1>2, ServerKept
  <2> QED BY <2>1 DEF JoinInv
<1>3. CASE UNCHANGED vars BY <1>3 DEF vars, JoinInv
<1>t. FlagTypes /\ ServerTypes BY TypeParts DEF Own
<1>4. CASE AcceptCanceled \/ AcceptFails \/ LoopTries \/ Abort
  <2>1. UNCHANGED <<loop, table, joinTaken, closing, closeOp>>
    BY <1>4 DEF AcceptCanceled, AcceptFails, AcceptEnds, LoopTries, Abort
  <2> QED BY <2>1 DEF JoinInv
<1>5. CASE LoopWaits
  <2>1. /\ UNCHANGED <<table, joinTaken, closing, closeOp>> /\ loop = "poll"
        /\ loop' \in {"left", "join", "wait"}
        /\ loop' # "left" => table
    BY <1>5 DEF LoopWaits
  <2> QED BY <2>1 DEF JoinInv
<1>6. CASE WaitReceives
  <2>1. UNCHANGED <<table, joinTaken, closing, closeOp>> /\ loop = "wait" /\ loop' = "poll"
    BY <1>6 DEF WaitReceives
  <2> QED BY <2>1 DEF JoinInv
<1>7. CASE WaitGivesUp
  <2>1. UNCHANGED <<table, joinTaken, closing, closeOp>> /\ loop = "wait" /\ loop' = "join"
    BY <1>7 DEF WaitGivesUp
  <2> QED BY <2>1 DEF JoinInv
<1>8. CASE WaitJoins
  <2>1. loop = "join" /\ UNCHANGED <<table, closeOp>> BY <1>8, Zenon DEF WaitJoins
  <2>2. UNCHANGED <<connVars, pool, senders, jsVars, acceptor, closing, closed>>
    BY <1>8, Zenon DEF WaitJoins
  <2>3. ~joinTaken BY <2>1 DEF JoinInv
  <2>4. loop' \in {"left", "threw"} BY <1>8, <2>3, Zenon DEF WaitJoins
  <2> QED BY <2>1, <2>2, <2>4 DEF JoinInv
<1>9. CASE LoopLeaves
  <2>1. loop' = "closing" /\ UNCHANGED joinTaken BY <1>9 DEF LoopLeaves
  <2>2. CASE closing = "none" /\ ~closed
    <3>1. closing' = "forceful" /\ closeOp' = "yield" BY <1>9, <2>2 DEF LoopLeaves
    <3>2. ~table' BY <1>9, <2>2, Zenon DEF LoopLeaves
    <3> QED BY <2>1, <3>1, <3>2 DEF JoinInv
  <2>3. CASE ~(closing = "none" /\ ~closed)
    <3>1. closing' = closing /\ closeOp' = closeOp BY <1>9, <2>3 DEF LoopLeaves
    <3>2. table' => table BY <1>9, Zenon DEF LoopLeaves
    <3> QED BY <2>1, <3>1, <3>2 DEF JoinInv
  <2> QED BY <2>2, <2>3
<1>10. CASE LoopFinishes
  <2>1. UNCHANGED <<table, joinTaken, closing, closeOp>> /\ loop' \in {"finished", "threw"}
    BY <1>10 DEF LoopFinishes
  <2> QED BY <2>1 DEF JoinInv
<1>11. CASE Shutdown
  <2>1. closing' = "graceful" /\ UNCHANGED <<loop, joinTaken>> /\ closing = "none"
    BY <1>11 DEF Shutdown
  <2>2. ~table' BY <1>11, Zenon DEF Shutdown
  <2>3. closeOp' \in {"join", "drain"} /\ (closeOp' = "join" => StrongCount = 1)
    BY <1>11 DEF Shutdown, PollComplete
  <2>4. closeOp' = "join" => loop # "wait"
    <3>1. StrongCount = 1 => NoSenders BY CountType DEF Quiet, NoSenders
    <3>2. ~WaitReady BY <1>11 DEF Shutdown
    <3> QED BY <2>3, <3>1, <3>2 DEF WaitReady
  <2> QED BY <2>1, <2>2, <2>3, <2>4 DEF JoinInv
<1>12. CASE DrainPolled
  <2>1. UNCHANGED <<loop, table, joinTaken, closing>> /\ closeOp = "drain"
    BY <1>12 DEF DrainPolled
  <2>2. closeOp' \in {"join", "drain"} BY <1>12 DEF DrainPolled, PollComplete
  <2>3. loop # "wait"
    <3>1. listenCancel BY <2>1 DEF DrainInv
    <3>2. ~WaitReady BY <1>12 DEF DrainPolled
    <3> QED BY <3>1, <3>2 DEF WaitReady
  <2> QED BY <2>1, <2>2, <2>3 DEF JoinInv
<1>13. CASE CloseYields
  <2>1. UNCHANGED <<loop, table, joinTaken, closing>> /\ closeOp = "yield" /\ closeOp' = "join"
    BY <1>13 DEF CloseYields
  <2> QED BY <2>1 DEF JoinInv
<1>14. CASE CloseJoins
  <2>1. closeOp = "join" /\ loop # "join" /\ UNCHANGED <<loop, table>> /\ UNCHANGED closing
    BY <1>14 DEF CloseJoins
  <2>2. closeOp' \in {"done", "failed"} BY <1>14 DEF CloseJoins
  <2> QED BY <2>1, <2>2 DEF JoinInv
<1>15. CASE StrayResponse
  <2>1. UNCHANGED <<loop, joinTaken, closing, closeOp>> /\ ~table'
    BY <1>15, CloseKept DEF StrayResponse
  <2> QED BY <2>1 DEF JoinInv
<1> QED BY <1>1, <1>2, <1>3, <1>4, <1>5, <1>6, <1>7, <1>8, <1>9, <1>10, <1>11, <1>12, <1>13,
           <1>14, <1>15, NextCases
      DEF ServerStep, OpStep, LoopStep

\* Once the server state has no other holder, nothing brings one back.
LEMMA QuietStays ==
  ASSUME Own, Quiet, [Next]_vars
  PROVE  Quiet'
<1>0. /\ inner \in [Records -> Inner] /\ queue \in Seq(Records)
  BY DEF Own, TypeOK
<1>1. \A r \in Records : refs[r] = {}
  BY DEF Quiet, Live, Own, RecordInv, RecordOK
<1>2. \A r \in Records : js[r] = "none" BY <1>1, FreeRecord
<1>3. queue = <<>>
  <2>1. \A r \in Records : \A k \in 1..Len(queue) : queue[k] # r BY <1>1, FreeRecord
  <2> QED BY <1>0, <2>1
<1>4. ASSUME NEW c \in Conns, Accept(c) \/ Request(c) \/ ConnStep(c) \/ Disconnect(c)
      PROVE  FALSE
  <2>0. ~Open(c) /\ acceptor # "running" BY DEF Quiet
  <2>1. ~Accept(c) BY <2>0 DEF Accept
  <2>2. ~Request(c)
    <3>1. Request(c) => conn[c] = "idle" BY Zenon DEF Request
    <3> QED BY <2>0, <3>1 DEF Open
  <2>3. ~SendAdmitted(c)
    <3>1. SendAdmitted(c) => conn[c] = "sending" BY Zenon DEF SendAdmitted
    <3> QED BY <2>0, <3>1 DEF Open
  <2>4. ~IntoResponse(c) /\ ~BodyEnds(c) BY <2>0 DEF IntoResponse, BodyEnds, Open
  <2>5. ~ConnAborted(c) /\ ~ConnDrains(c) /\ ~Disconnect(c)
    BY <2>0 DEF ConnAborted, ConnDrains, Disconnect
  <2> QED BY <1>4, <2>1, <2>2, <2>3, <2>4, <2>5 DEF ConnStep
<1>5. ASSUME NEW r \in Records, RecordStep(r) PROVE FALSE
  <2>1. js[r] \in {"handler", "raw", "streaming", "finished", "threw"}
    BY <1>5, Zenon DEF RecordStep, Answer, RawEnds, StreamOpEnds, CloseAfterFinish, ContextClose
  <2> QED BY <1>2, <2>1
<1>u. ASSUME UNCHANGED <<acceptor, conn, inner>> PROVE Quiet'
  BY <1>u DEF Quiet, Open, Live
<1>6. CASE UNCHANGED vars BY <1>6, <1>u DEF vars
<1>7. CASE ServerStep
  <2>1. ~AcceptCanceled /\ ~AcceptFails BY DEF AcceptCanceled, AcceptFails, AcceptEnds, Quiet
  <2>2. ~LoopTries /\ ~WaitReceives BY <1>3 DEF LoopTries, WaitReceives
  <2>3. CASE LoopWaits \/ LoopLeaves \/ LoopFinishes \/ Shutdown \/ Abort
    BY <1>u, <2>3 DEF LoopWaits, LoopLeaves, LoopFinishes, Shutdown, Abort
  <2>4. CASE WaitGivesUp \/ DrainPolled \/ CloseYields
    BY <1>u, <2>4 DEF WaitGivesUp, DrainPolled, CloseYields
  <2>5. CASE WaitJoins \/ CloseJoins \/ StrayResponse
    <3>1. PICK l, k : DropHandle(queue, refs, l, k)
      BY <2>5, Zenon DEF WaitJoins, CloseJoins, StrayResponse, CloseContext
    <3>2. inner' = [r \in Records |-> IF refs'[r] = {} THEN NoInner ELSE inner[r]]
      BY <3>1, Zenon DEF DropHandle
    <3>3. \A r \in Records : ~Live(r)' BY <3>2 DEF Live, Quiet, NoInner
    <3>4. UNCHANGED <<acceptor, conn>>
      <4>1. CASE WaitJoins
        <5>1. UNCHANGED <<connVars, pool, senders, jsVars, acceptor, closing, closed>>
          BY <4>1, Zenon DEF WaitJoins
        <5> QED BY <5>1
      <4>2. CASE CloseJoins BY <4>2 DEF CloseJoins
      <4>3. CASE StrayResponse BY <4>3 DEF StrayResponse, CloseContext
      <4> QED BY <2>5, <4>1, <4>2, <4>3
    <3> QED BY <3>3, <3>4 DEF Quiet, Open
  <2> QED BY <1>7, <2>1, <2>2, <2>3, <2>4, <2>5 DEF ServerStep, OpStep, LoopStep
<1> QED BY <1>4, <1>5, <1>6, <1>7, NextCases

\* A step that wakes op_http_close() when it drops the last other reference keeps the
\* drain exact, and so does one that drops none.
LEMMA DrainWoken ==
  ASSUME Own, DrainInv, [Next]_vars, closeOp' = closeOp, closing' = closing,
         listenCancel => listenCancel',
         Signal \/ ((Quiet' => Quiet) /\ drainWaker' = drainWaker)
  PROVE  DrainInv'
<1>1. Quiet => Quiet' BY QuietStays
<1>2. StrongCount \in Nat /\ StrongCount >= 1 /\ (StrongCount = 1 <=> Quiet) BY CountType
<1>3. (StrongCount = 1 <=> Quiet)' BY CountType, PTL
<1>4. drainWaker \in {"none", "set", "woken"} BY DEF Own, TypeOK
<1>5. closeOp = "drain" => drainWaker' # "none" /\ listenCancel' BY <1>4 DEF DrainInv, Signal
<1>6. ASSUME closeOp = "drain", Quiet' PROVE drainWaker' = "woken"
  <2>1. CASE Quiet
    <3>1. drainWaker = "woken" BY <1>6, <2>1 DEF DrainInv
    <3> QED BY <3>1 DEF Signal
  <2>2. CASE ~Quiet
    <3>1. StrongCount > 1 /\ StrongCount' = 1 BY <1>2, <1>3, <1>6, <2>2
    <3>2. Signal BY <1>6, <2>2
    <3>3. drainWaker \in {"set", "woken"} BY <1>4, <1>6 DEF DrainInv
    <3> QED BY <3>1, <3>2, <3>3 DEF Signal
  <2> QED BY <2>1, <2>2
<1> QED BY <1>1, <1>5, <1>6 DEF DrainInv

\* Every step keeps the drain exact.
LEMMA DrainStep ==
  ASSUME Own, JoinInv, DrainInv, [Next]_vars
  PROVE  DrainInv'
<1>u. ASSUME UNCHANGED <<acceptor, conn, inner>> PROVE Quiet' <=> Quiet
  BY <1>u DEF Quiet, Open, Live
<1>1. ASSUME NEW c \in Conns, Accept(c) \/ Request(c) \/ ConnStep(c) \/ Disconnect(c)
      PROVE  DrainInv'
  <2>1. UNCHANGED <<closing, closeOp, listenCancel>> BY <1>1, ServerKept
  <2>2. conn \in [Conns -> ConnPhases] BY DEF Own, TypeOK
  <2>3. CASE Accept(c) \/ BodyEnds(c) \/ ConnDrains(c) \/ DropConn(c)
    <3>1. Signal BY <2>3, Zenon DEF Accept, BodyEnds, ConnDrains, DropConn
    <3> QED BY <2>1, <3>1, DrainWoken
  <2>4. CASE Request(c)
    <3>1. conn[c] = "idle" /\ UNCHANGED <<jsVars, server, drainWaker>> BY <2>4, Zenon DEF Request
    <3>2. conn'[c] \in {"idle", "waiting", "sending"}
      <4>1. CASE ~Held
        <5>1. UNCHANGED <<connVars, inner, refs, pool, channel>> BY <2>4, <4>1, Zenon DEF Request
        <5> QED BY <3>1, <5>1
      <4>2. CASE Held
        <5>1. PICK q \in {"waiting", "sending"} : conn' = [conn EXCEPT ![c] = q]
          BY <2>4, <4>2 DEF Request
        <5> QED BY <2>2, <5>1
      <4> QED BY <4>1, <4>2
    <3>3. ~Quiet' BY <3>2 DEF Quiet, Open
    <3> QED BY <2>1, <3>1, <3>3, DrainWoken
  <2>5. CASE SendAdmitted(c)
    <3>1. conn[c] = "sending" BY <2>5, Zenon DEF SendAdmitted
    <3>2. UNCHANGED <<draining, rec, sent, inner, pool, jsVars, server, drainWaker>>
      BY <2>5, Zenon DEF SendAdmitted
    <3>3. conn' = conn \/ conn' = [conn EXCEPT ![c] = "waiting"]
      <4>1. CASE ~Held
        <5>1. UNCHANGED <<conn, refs, channel>> BY <2>5, <4>1, Zenon DEF SendAdmitted
        <5> QED BY <5>1
      <4>2. CASE Held BY <2>5, <4>2, Zenon DEF SendAdmitted
      <4> QED BY <4>1, <4>2
    <3>4. ~Quiet' BY <2>2, <3>1, <3>3 DEF Quiet, Open
    <3> QED BY <2>1, <3>2, <3>4, DrainWoken
  <2>6. CASE IntoResponse(c)
    <3>1. UNCHANGED drainWaker /\ conn' = [conn EXCEPT ![c] = "responding"]
      BY <2>6 DEF IntoResponse
    <3>2. ~Quiet' BY <2>2, <3>1 DEF Quiet, Open
    <3> QED BY <2>1, <3>1, <3>2, DrainWoken
  <2> QED BY <1>1, <2>3, <2>4, <2>5, <2>6 DEF ConnStep, ConnAborted, Disconnect
<1>2. ASSUME NEW r \in Records, RecordStep(r) PROVE DrainInv'
  <2>1. UNCHANGED <<closing, closeOp>> /\ (listenCancel => listenCancel') BY <1>2, ServerKept
  <2>2. CASE Answer(r) \/ RawEnds(r) \/ CloseAfterFinish(r) \/ ContextClose(r)
    <3>1. Signal BY <2>2, Zenon DEF Answer, RawEnds, CloseAfterFinish, ContextClose, CloseContext
    <3> QED BY <2>1, <3>1, DrainWoken
  <2>3. CASE StreamOpEnds(r)
    <3>1. js[r] = "streaming" /\ Release(r, refs[r], "op", inner[r]) /\ UNCHANGED drainWaker
          /\ UNCHANGED <<conn, acceptor>>
      BY <2>3 DEF StreamOpEnds
    <3>2. refs[r] # {"op"} BY <3>1, JsRefs
    <3>3. inner \in [Records -> Inner] BY DEF Own, TypeOK
    <3>4. inner' = inner BY <3>1, <3>2, <3>3 DEF Release
    <3> QED BY <1>u, <2>1, <3>1, <3>4, DrainWoken
  <2> QED BY <1>2, <2>2, <2>3 DEF RecordStep
<1>3. CASE UNCHANGED vars
  <2>1. UNCHANGED <<acceptor, conn, inner>> BY <1>3 DEF vars
  <2>2. UNCHANGED <<closing, closeOp, listenCancel, drainWaker>> BY <1>3 DEF vars
  <2> QED BY <1>u, <2>1, <2>2, DrainWoken
<1>4. CASE AcceptCanceled \/ AcceptFails
  <2>1. UNCHANGED <<closing, closeOp, listenCancel>>
    BY <1>4 DEF AcceptCanceled, AcceptFails, AcceptEnds
  <2>2. Signal BY <1>4, Zenon DEF AcceptCanceled, AcceptFails, AcceptEnds
  <2> QED BY <2>1, <2>2, DrainWoken
<1>5. CASE LoopTries \/ LoopWaits \/ LoopFinishes \/ WaitGivesUp
  <2>1. /\ UNCHANGED <<acceptor, conn, inner>>
        /\ UNCHANGED <<closing, closeOp, listenCancel, drainWaker>>
    BY <1>5 DEF LoopTries, LoopWaits, LoopFinishes, WaitGivesUp
  <2> QED BY <1>u, <2>1, DrainWoken
<1>6. CASE WaitReceives \/ WaitJoins
  <2>1. UNCHANGED <<closing, closeOp>>
    <3>1. CASE WaitReceives BY <3>1 DEF WaitReceives
    <3>2. CASE WaitJoins
      <4>1. UNCHANGED <<connVars, pool, senders, jsVars, acceptor, closing, closed>>
            /\ UNCHANGED <<table, closeOp>>
        BY <3>2, Zenon DEF WaitJoins
      <4> QED BY <4>1
    <3> QED BY <1>6, <3>1, <3>2
  <2>2. Signal BY <1>6, Zenon DEF WaitReceives, WaitJoins
  <2>3. listenCancel => listenCancel' BY <1>6, Zenon DEF WaitReceives, WaitJoins, DropHandle
  <2> QED BY <2>1, <2>2, <2>3, DrainWoken
<1>7. CASE LoopLeaves
  <2>1. UNCHANGED <<acceptor, conn, inner>> /\ UNCHANGED drainWaker BY <1>7 DEF LoopLeaves
  <2>2. CASE closing = "none" /\ ~closed
    <3>1. closing' = "forceful" /\ closeOp' = "yield" BY <1>7, <2>2 DEF LoopLeaves
    <3> QED BY <3>1 DEF DrainInv
  <2>3. CASE ~(closing = "none" /\ ~closed)
    <3>1. closing' = closing /\ closeOp' = closeOp BY <1>7, <2>3 DEF LoopLeaves
    <3>2. listenCancel => listenCancel' BY <1>7, Zenon DEF LoopLeaves
    <3> QED BY <1>u, <2>1, <3>1, <3>2, DrainWoken
  <2> QED BY <2>2, <2>3
<1>8. CASE Abort
  <2>1. UNCHANGED <<acceptor, conn, inner>> /\ UNCHANGED <<closing, closeOp, drainWaker>>
    BY <1>8 DEF Abort
  <2>2. listenCancel' BY <1>8, Zenon DEF Abort
  <2> QED BY <1>u, <2>1, <2>2, DrainWoken
<1>9. CASE Shutdown \/ DrainPolled
  <2>1. UNCHANGED <<acceptor, conn, inner>> BY <1>9 DEF Shutdown, DrainPolled
  <2>2. PollComplete BY <1>9, Zenon DEF Shutdown, DrainPolled
  <2>3. listenCancel'
    <3>1. CASE Shutdown BY <3>1, Zenon DEF Shutdown
    <3>2. CASE DrainPolled
      <4>1. closeOp = "drain" /\ UNCHANGED listenCancel BY <3>2 DEF DrainPolled
      <4> QED BY <4>1 DEF DrainInv
    <3> QED BY <1>9, <3>1, <3>2
  <2>4. CASE Quiet
    <3>1. closeOp' = "join" BY <2>2, <2>4, CountType DEF PollComplete
    <3> QED BY <1>u, <2>1, <2>4, <3>1 DEF DrainInv
  <2>5. CASE ~Quiet
    <3>1. closeOp' = "drain" /\ drainWaker' = "set" BY <2>2, <2>5, CountType DEF PollComplete
    <3> QED BY <1>u, <2>1, <2>3, <2>5, <3>1 DEF DrainInv
  <2> QED BY <2>4, <2>5
<1>10. CASE CloseYields
  <2>1. closeOp = "yield" /\ closeOp' = "join" /\ UNCHANGED closing BY <1>10 DEF CloseYields
  <2>2. closing = "forceful" BY <2>1 DEF JoinInv
  <2> QED BY <2>1, <2>2 DEF DrainInv
<1>11. CASE CloseJoins
  <2>1. closeOp = "join" /\ closeOp' \in {"done", "failed"} /\ UNCHANGED closing
    BY <1>11 DEF CloseJoins
  <2>2. closing = "graceful" => Quiet' BY <2>1, QuietStays DEF DrainInv
  <2> QED BY <2>1, <2>2 DEF DrainInv
<1>12. CASE StrayResponse
  <2>1. UNCHANGED <<closing, closeOp>> /\ Signal /\ (listenCancel => listenCancel')
    BY <1>12, CloseKept DEF StrayResponse
  <2> QED BY <2>1, DrainWoken
<1> QED BY <1>1, <1>2, <1>3, <1>4, <1>5, <1>6, <1>7, <1>8, <1>9, <1>10, <1>11, <1>12, NextCases
      DEF ServerStep, OpStep, LoopStep

-----------------------------------------------------------------------------
(* The theorems. *)

\* The inductive invariant.
IInv == Own /\ JoinInv /\ DrainInv /\ NoStateError

\* It holds when the server starts.
LEMMA InitInv == Init => IInv
<1> SUFFICES ASSUME Init PROVE IInv OBVIOUS
<1>1. TypeOK
  <2>1. ConnTypes BY DEF Init, ConnTypes, ConnPhases
  <2>2. RecordTypes BY InnerNew DEF Init, RecordTypes, Panics
  <2>3. ChannelTypes BY DEF Init, ChannelTypes
  <2>4. JsTypes BY DEF Init, JsTypes, JsPhases
  <2>5. FlagTypes BY DEF Init, FlagTypes
  <2>6. ServerTypes BY DEF Init, ServerTypes, LoopPhases
  <2> QED BY <2>1, <2>2, <2>3, <2>4, <2>5, <2>6, TypeParts
<1>2. queue = <<>> /\ pool = <<>> /\ Len(queue) = 0 /\ Len(pool) = 0 BY DEF Init
<1>3. ASSUME NEW r \in Records PROVE RecordOK(refs[r], inner[r], js[r]) /\ PlaceOK(r)
  <2>1. refs[r] = {} /\ inner[r] = NoInner /\ js[r] = "none" BY DEF Init
  <2>2. RecordOK(refs[r], inner[r], js[r]) BY <2>1 DEF RecordOK, NoInner, JsHolds
  <2>3. \A c \in Conns : rec[c] # r BY DEF Init
  <2> QED BY <1>2, <2>1, <2>2, <2>3 DEF PlaceOK
<1>4. RecordInv BY <1>3 DEF RecordInv
<1>5. ConnInv BY DEF Init, ConnInv
<1>6. QueueInv /\ PoolInv BY <1>2 DEF QueueInv, PoolInv
<1>7. JoinInv /\ DrainInv BY DEF Init, JoinInv, DrainInv
<1>8. NoStateError BY Zenon DEF Init, NoStateError
<1> QED BY <1>1, <1>4, <1>5, <1>6, <1>7, <1>8 DEF IInv, Own

\* Every step keeps it.
LEMMA NextInv == IInv /\ [Next]_vars => IInv'
<1> SUFFICES ASSUME IInv, [Next]_vars PROVE IInv' OBVIOUS
<1>0. Own /\ JoinInv /\ DrainInv /\ NoStateError BY DEF IInv
<1>1. TypeOK' BY <1>0, TypeStep
<1>2. Kept /\ (NoPanic \/ (WaitJoins /\ joinTaken))
  <2>1. CASE UNCHANGED vars
    <3>1. UNCHANGED <<conn, rec, senders, queue, refs, inner, pool, js, answering>>
      BY <2>1 DEF vars
    <3>2. UNCHANGED panic BY <2>1 DEF vars
    <3>3. NoPanic BY <3>2, Zenon DEF NoPanic
    <3> QED BY <1>0, <3>1, <3>3, OwnKeep
  <2>2. CASE Next BY <1>0, <2>2, NextCases, OwnConn, OwnRecord, OwnServer
  <2> QED BY <2>1, <2>2
<1>3. Own' BY <1>1, <1>2 DEF Own, Kept
<1>4. JoinInv' BY <1>0, JoinStep
<1>5. DrainInv' BY <1>0, DrainStep
<1>6. ~(WaitJoins /\ joinTaken)
  <2>1. WaitJoins => loop = "join" BY Zenon DEF WaitJoins
  <2> QED BY <1>0, <2>1 DEF JoinInv
<1>7. NoStateError' BY <1>0, <1>2, <1>6, Zenon DEF NoPanic, NoStateError
<1> QED BY <1>3, <1>4, <1>5, <1>7 DEF IInv

\* It holds in every state of the server.
LEMMA InvCorrect == Spec => []IInv
BY InitInv, NextInv, PTL DEF Spec

\* Every variable keeps its type, and the channel to JavaScript its capacity
\* (op_http_serve), for any number of connections and records.
THEOREM TypeCorrect == Spec => []TypeOK
<1>1. IInv => TypeOK BY DEF IInv, Own
<1> QED BY <1>1, InvCorrect, PTL

\* recycle() always has the last reference, complete() is called once per request and
\* the accept task is joined once, in whatever order answers, disconnects, aborts and
\* shutdowns come (HttpRecord in service.rs, HttpJoinHandle in http_next.rs).
THEOREM NoStateErrorCorrect == Spec => []NoStateError
<1>1. IInv => NoStateError BY DEF IInv
<1> QED BY <1>1, InvCorrect, PTL

\* The pool of HttpServerStateInner holds no record twice and none that is in use, and
\* a record in use has its fields.
THEOREM PoolUnusedCorrect == Spec => []PoolUnused
<1>1. IInv => PoolUnused
  <2> SUFFICES ASSUME IInv PROVE PoolUnused OBVIOUS
  <2>1. pool \in Seq(Records) BY DEF IInv, Own, TypeOK
  <2>2. DOMAIN pool = 1..Len(pool) BY <2>1
  <2>3. \A r \in Records : Live(r) <=> refs[r] # {}
    BY DEF IInv, Own, RecordInv, RecordOK, Live
  <2> QED BY <2>2, <2>3 DEF IInv, Own, PoolInv, PoolUnused
<1> QED BY <1>1, InvCorrect, PTL

\* What JavaScript answers with goes to the request it was given the record for,
\* although records are reused (HttpRecord::new, HttpRecord::complete).
THEOREM AnswersOwnRequestCorrect == Spec => []AnswersOwnRequest
<1>1. IInv => AnswersOwnRequest BY DEF IInv, Own, RecordInv, PlaceOK, AnswersOwnRequest
<1> QED BY <1>1, InvCorrect, PTL

\* shutdown() goes on only when nothing but the HttpJoinHandle holds the server state,
\* and has been woken when that is so (SignallingRc in service.rs).
THEOREM DrainExactCorrect == Spec => []DrainExact
<1>1. IInv => DrainExact BY CountType DEF IInv, DrainInv, DrainExact
<1> QED BY <1>1, InvCorrect, PTL

\* Once nothing but the HttpJoinHandle holds the server state, nothing ever does again.
Drained == [][Quiet => Quiet']_vars

\* What shutdown() has found drained (SignallingRc in service.rs) stays drained: no late
\* step of a connection, of a record or of the accept task takes the state up again.
THEOREM DrainedStays == Spec => Drained
<1>1. IInv /\ [Next]_vars => [Quiet => Quiet']_vars BY QuietStays DEF IInv
<1> QED BY <1>1, InvCorrect, PTL DEF Spec, Drained
=============================================================================
