------------------------- MODULE TunerServiceProofs -------------------------
(***************************************************************************)
(* What the service and its FIFO say, taken by themselves: the promises    *)
(* that whatever implements TunerService keeps, for every capacity, every  *)
(* size of a block, and every set of channels and readers.                 *)
(***************************************************************************)
EXTENDS TunerService, SequenceTheorems, TLAPS

\* What the buffer sizes of an implementation are.
Limits == MaxBlock \in Nat

----------------------------------------------------------------------------
(* The stream.                                                             *)

\* The number of the last byte that is no longer in the queue.
Front == nPut - Len(queue)

\* The queue is a stretch of the stream without a gap, up to the last byte that
\* was put.
QueueIsLatest ==
  /\ queue \in Seq(Int) /\ nPut \in Nat
  /\ Len(queue) <= nPut
  /\ \A i \in 1..Len(queue) : queue[i] = Front + i

\* The block of a get is the stretch of the stream by which the front moves: no
\* byte is handed out twice, none after a later one, and none after a purge
\* that came before.
BlockIsNext ==
  /\ Front <= Front'
  /\ \A r \in Readers : got'[r] # got[r] /\ got'[r].ok =>
       /\ Len(got'[r].data) = Front' - Front
       /\ \A i \in 1..Len(got'[r].data) : got'[r].data[i] = Front + i

OnceInOrder == [][BlockIsNext]_serviceVars

\* The two ends of a sequence.
LEMMA Ends ==
  ASSUME NEW q \in Seq(Int), NEW m \in 0..Len(q)
  PROVE  /\ Len(SubSeq(q, 1, m)) = m
         /\ \A i \in 1..m : SubSeq(q, 1, m)[i] = q[i]
         /\ SubSeq(q, m + 1, Len(q)) \in Seq(Int)
         /\ Len(SubSeq(q, m + 1, Len(q))) = Len(q) - m
         /\ \A i \in 1..(Len(q) - m) : SubSeq(q, m + 1, Len(q))[i] = q[m + i]
OBVIOUS

\* A put keeps the queue the latest stretch of the stream.
LEMMA PutStep ==
  ASSUME QueueIsLatest, NEW n \in Nat, Put(n)
  PROVE  QueueIsLatest' /\ Front' = Front /\ nPut' = nPut + n
<1> DEFINE new == [i \in 1..n |-> nPut + i]
<1>1. new \in Seq(Int) /\ Len(new) = n
  BY DEF QueueIsLatest
<1>2. queue \in Seq(Int) /\ nPut \in Nat /\ Len(queue) \in Nat
  BY LenProperties DEF QueueIsLatest
<1>3. queue' = queue \o new /\ nPut' = nPut + n
  BY DEF Put
<1>4. \A i \in 1..n : new[i] = nPut + i
  OBVIOUS
<1> HIDE DEF new
<1>5. /\ queue' \in Seq(Int) /\ Len(queue') = Len(queue) + n
      /\ \A i \in 1..(Len(queue) + n) :
           queue'[i] = IF i <= Len(queue) THEN queue[i] ELSE new[i - Len(queue)]
  BY <1>1, <1>2, <1>3, ConcatProperties
<1>6. Front' = Front
  BY <1>2, <1>3, <1>5 DEF Front
<1>7. ASSUME NEW i \in 1..Len(queue') PROVE queue'[i] = Front + i
  <2>1. CASE i <= Len(queue)
    BY <1>2, <1>5, <2>1 DEF QueueIsLatest
  <2>2. CASE ~(i <= Len(queue))
    <3>1. i - Len(queue) \in 1..n
      BY <1>2, <1>5, <2>2
    <3>2. queue'[i] = nPut + (i - Len(queue))
      BY <1>4, <1>5, <2>2, <3>1
    <3>3. QED
      BY <1>2, <3>1, <3>2 DEF Front
  <2>3. QED
    BY <2>1, <2>2
<1>8. QED
  BY <1>2, <1>3, <1>5, <1>6, <1>7 DEF QueueIsLatest

\* A get moves the front by the block it hands out.
LEMMA GetStep ==
  ASSUME QueueIsLatest, NEW r \in Readers, NEW n \in Nat, Get(r, n),
         got \in [Readers -> [ok : BOOLEAN, data : Seq(Int)]]
  PROVE  /\ QueueIsLatest' /\ Front' = Front + n /\ nPut' = nPut
         /\ BlockIsNext
<1>1. /\ queue \in Seq(Int) /\ nPut \in Nat /\ Len(queue) \in Nat
      /\ n \in 0..Len(queue)
  BY LenProperties DEF QueueIsLatest, Get
<1>2. /\ queue' = SubSeq(queue, n + 1, Len(queue)) /\ nPut' = nPut
      /\ got' = [got EXCEPT ![r] = [ok |-> TRUE, data |-> SubSeq(queue, 1, n)]]
  BY DEF Get
<1>3. /\ queue' \in Seq(Int) /\ Len(queue') = Len(queue) - n
      /\ \A i \in 1..(Len(queue) - n) : queue'[i] = queue[n + i]
  BY <1>1, <1>2, Ends
<1>4. Front' = Front + n
  <2>1. ASSUME NEW a \in Nat, NEW l \in Nat PROVE a - (l - n) = (a - l) + n
    OBVIOUS
  <2>2. nPut' = nPut /\ Len(queue') = Len(queue) - n
    BY <1>2, <1>3
  <2>3. QED
    BY <1>1, <2>1, <2>2 DEF Front
<1>5. ASSUME NEW i \in 1..Len(queue') PROVE queue'[i] = Front' + i
  <2>1. n + i \in 1..Len(queue) /\ queue'[i] = queue[n + i]
    <3>1. i \in 1..(Len(queue) - n)
      BY <1>3
    <3>2. n + i \in 1..Len(queue)
      BY <1>1, <3>1
    <3>3. QED
      BY <1>3, <3>1, <3>2
  <2>2. QED
    BY <1>1, <1>4, <2>1 DEF QueueIsLatest, Front
<1>6. QueueIsLatest'
  BY <1>1, <1>2, <1>3, <1>5 DEF QueueIsLatest
<1>7. BlockIsNext
  <2>1. /\ Len(SubSeq(queue, 1, n)) = n
        /\ \A i \in 1..n : SubSeq(queue, 1, n)[i] = Front + i
    BY <1>1, Ends DEF QueueIsLatest
  <2>2. got'[r].data = SubSeq(queue, 1, n) /\ \A q \in Readers \ {r} : got'[q] = got[q]
    BY <1>2
  <2>3. n = Front' - Front /\ Front <= Front'
    BY <1>1, <1>4 DEF Front
  <2>4. QED
    BY <2>1, <2>2, <2>3 DEF BlockIsNext
<1>8. QED
  BY <1>2, <1>4, <1>6, <1>7

----------------------------------------------------------------------------
(* The service.                                                            *)

\* Whatever is in the queue came with the latest stream, which began after the
\* one before had ended: since is where.
QueueIsThisStream == since \in Nat /\ since <= Front

\* While no control call is in progress, bytes come in only for a current channel
\* of an open tuner; the channel is given up before the stream ends only by
\* OpenTuner and CloseTuner, on their way to end it.
StreamHasChannel ==
  /\ call \in {"none", "open", "close", "set"}
  /\ call = "set" => open
  /\ receiving => open
  /\ receiving /\ channel = None => call \in {"open", "close"}

ServiceInv ==
  /\ got \in [Readers -> [ok : BOOLEAN, data : Seq(Int)]]
  /\ QueueIsLatest /\ QueueIsThisStream /\ StreamHasChannel

\* Every step of the service keeps it, and hands out what is next.
LEMMA ServiceStep ==
  ASSUME Limits, ServiceInv, ServiceNext
  PROVE  ServiceInv' /\ BlockIsNext
<1>0. /\ queue \in Seq(Int) /\ nPut \in Nat /\ Len(queue) \in Nat /\ Front \in Nat
      /\ since \in Nat /\ since <= Front
  BY LenProperties DEF ServiceInv, QueueIsLatest, QueueIsThisStream, Front
<1>1. ASSUME UNCHANGED <<queue, nPut>>, \/ UNCHANGED got
                                        \/ \E r \in Readers : Refuse(r)
      PROVE  QueueIsLatest' /\ Front' = Front /\ BlockIsNext
             /\ got' \in [Readers -> [ok : BOOLEAN, data : Seq(Int)]]
  <2>1. QueueIsLatest' /\ Front' = Front
    BY <1>1 DEF ServiceInv, QueueIsLatest, Front
  <2>2. << >> \in Seq(Int)
    BY EmptySeq
  <2>3. CASE UNCHANGED got
    BY <1>0, <2>1, <2>3 DEF BlockIsNext, ServiceInv
  <2>4. ASSUME NEW r \in Readers, Refuse(r)
        PROVE  BlockIsNext /\ got' \in [Readers -> [ok : BOOLEAN, data : Seq(Int)]]
    BY <1>0, <2>1, <2>2, <2>4 DEF Refuse, Refused, BlockIsNext, ServiceInv
  <2>5. QED
    BY <1>1, <2>1, <2>3, <2>4
<1>2. ASSUME UNCHANGED <<fifoVars, since>>, StreamHasChannel'
      PROVE  ServiceInv' /\ BlockIsNext
  BY <1>0, <1>1, <1>2 DEF fifoVars, ServiceInv, QueueIsThisStream
<1>3. CASE \/ \E op \in {"open", "close"} : OpenOrClose(op)
           \/ Tune \/ Closed \/ Opened \/ OpenFailed
  <2>1. UNCHANGED <<fifoVars, since>>
    BY <1>3 DEF OpenOrClose, Tune, Closed, Opened, OpenFailed
  <2>2. StreamHasChannel'
    BY <1>3 DEF OpenOrClose, Tune, Closed, Opened, OpenFailed, ServiceInv, StreamHasChannel
  <2>3. QED
    BY <1>2, <2>1, <2>2
<1>4. CASE (\E ch \in Channels : Select(ch)) \/ TuneFailed \/ StreamEnds
  <2>1. UNCHANGED <<fifoVars, since>>
    BY <1>4 DEF Select, TuneFailed, StreamEnds
  <2>2. StreamHasChannel'
    BY <1>4 DEF Select, TuneFailed, StreamEnds, ServiceInv, StreamHasChannel
  <2>3. QED
    BY <1>2, <2>1, <2>2
<1>5. CASE Tuned
  <2>1. since' = nPut /\ nPut = Front
    BY <1>0, <1>5 DEF Tuned, Front
  <2>2. StreamHasChannel'
    BY <1>5 DEF Tuned, ServiceInv, StreamHasChannel
  <2>3. QED
    BY <1>0, <1>1, <1>5, <2>1, <2>2 DEF Tuned, fifoVars, ServiceInv, QueueIsThisStream
<1>6. ASSUME NEW n \in 1..MaxBlock, Receive(n) PROVE ServiceInv' /\ BlockIsNext
  <2>1. n \in Nat /\ Put(n) /\ UNCHANGED <<control, got>>
    BY <1>6 DEF Limits, Receive, Put
  <2>2. QueueIsLatest' /\ Front' = Front
    BY <2>1, PutStep DEF ServiceInv
  <2>3. QED
    BY <1>0, <2>1, <2>2 DEF control, ServiceInv, QueueIsThisStream, StreamHasChannel,
                            BlockIsNext
<1>7. ASSUME NEW r \in Readers, Take(r) PROVE ServiceInv' /\ BlockIsNext
  <2>1. UNCHANGED control
    BY <1>7 DEF Take
  <2>2. CASE Refuse(r)
    BY <1>0, <1>1, <2>1, <2>2 DEF Refuse, control, ServiceInv, QueueIsThisStream,
                                  StreamHasChannel
  <2>3. ASSUME NEW n \in 0..MaxBlock, Get(r, n) PROVE ServiceInv' /\ BlockIsNext
    <3>1. n \in Nat
      BY DEF Limits
    <3>2. QueueIsLatest' /\ Front' = Front + n /\ BlockIsNext
      BY <2>3, <3>1, GetStep DEF ServiceInv
    <3>3. SubSeq(queue, 1, n) \in Seq(Int)
      BY <1>0, <2>3, <3>1 DEF Get
    <3>4. got' \in [Readers -> [ok : BOOLEAN, data : Seq(Int)]]
      BY <2>3, <3>3 DEF Get, ServiceInv
    <3>5. QED
      BY <1>0, <2>1, <3>1, <3>2, <3>4 DEF control, ServiceInv, QueueIsThisStream,
                                          StreamHasChannel
  <2>4. QED
    BY <1>7, <2>2, <2>3 DEF Take
<1>8. CASE Empty
  <2>1. queue' = << >> /\ UNCHANGED <<nPut, got, control>>
    BY <1>8 DEF Empty, Purge
  <2>2. QueueIsLatest' /\ Front' = nPut
    BY <1>0, <2>1, EmptySeq DEF QueueIsLatest, Front
  <2>3. Front <= nPut
    BY <1>0 DEF Front
  <2>4. QED
    BY <1>0, <2>1, <2>2, <2>3 DEF control, ServiceInv, QueueIsThisStream,
                                  StreamHasChannel, BlockIsNext
<1>9. QED
  BY <1>3, <1>4, <1>5, <1>6, <1>7, <1>8 DEF ServiceNext

\* The invariant holds of a tuner that nobody has opened, and of every one after.
LEMMA ServiceInvHolds ==
  ASSUME Limits
  PROVE  ServiceSpec => []ServiceInv
<1>1. ServiceInit => ServiceInv
  <2> SUFFICES ASSUME ServiceInit PROVE ServiceInv
    OBVIOUS
  <2>1. queue = << >> /\ << >> \in Seq(Int) /\ Len(queue) = 0 /\ nPut = 0 /\ since = 0
    BY EmptySeq DEF ServiceInit, Init
  <2>2. QueueIsLatest /\ QueueIsThisStream
    BY <2>1 DEF QueueIsLatest, QueueIsThisStream, Front
  <2>3. got \in [Readers -> [ok : BOOLEAN, data : Seq(Int)]]
    BY <2>1 DEF ServiceInit, Init, Refused
  <2>4. QED
    BY <2>2, <2>3 DEF ServiceInit, ServiceInv, StreamHasChannel
<1>2. ServiceInv /\ [ServiceNext]_serviceVars => ServiceInv'
  <2> SUFFICES ASSUME ServiceInv, [ServiceNext]_serviceVars PROVE ServiceInv'
    OBVIOUS
  <2>1. CASE UNCHANGED serviceVars
    BY <2>1 DEF serviceVars, fifoVars, control, ServiceInv, QueueIsLatest,
                QueueIsThisStream, StreamHasChannel, Front
  <2>2. QED
    BY <2>1, ServiceStep
<1>3. QED
  BY <1>1, <1>2, PTL DEF ServiceSpec

\* What the host can rely on between its control calls: bytes come in only while a
\* channel is current and the tuner is open, and every byte in the queue belongs to
\* the stream the last successful SetChannel began.
THEOREM OneStreamAtATime ==
  ASSUME Limits
  PROVE  ServiceSpec => [](StreamHasChannel /\ QueueIsThisStream)
<1>1. ServiceInv => StreamHasChannel /\ QueueIsThisStream
  BY DEF ServiceInv
<1>2. QED
  BY <1>1, ServiceInvHolds, PTL

\* Over all sessions, all readers and all purges, the blocks handed out are
\* disjoint stretches of the stream in the order it was received.
THEOREM BlocksOnceInOrder ==
  ASSUME Limits
  PROVE  ServiceSpec => OnceInOrder
<1>1. ServiceInv /\ [ServiceNext]_serviceVars => [BlockIsNext]_serviceVars
  BY ServiceStep
<1>2. QED
  BY <1>1, ServiceInvHolds, PTL DEF ServiceSpec, OnceInOrder

=============================================================================
