-------------------------- MODULE GrabTsDataProofs --------------------------
(***************************************************************************)
(* Theorems about the ring buffer, for every buffer size, every set of     *)
(* threads and every bound.                                                *)
(***************************************************************************)
EXTENDS GrabTsData, SequenceTheorems, TLAPS

----------------------------------------------------------------------------
(* Index arithmetic.                                                       *)

\* The remainder by RING_BUF_SIZE, without the remainder.
LEMMA DistCases ==
  ASSUME NEW a \in Cells, NEW b \in Cells
  PROVE  /\ Dist(a, b) = IF b <= a THEN a - b ELSE RING_BUF_SIZE + a - b
         /\ Dist(a, b) \in Cells
BY BufSizes DEF Dist, Cells

\* Walking i cells from p stays in the ring, and Dist undoes it.
LEMMA CellStep ==
  ASSUME NEW p \in Cells, NEW i \in Cells
  PROVE  Cell(p, i) \in Cells /\ Dist(Cell(p, i), p) = i
<1>1. Cell(p, i) \in Cells
  BY BufSizes DEF Cell, Cells
<1>2. Dist(Cell(p, i), p) = IF p <= Cell(p, i) THEN Cell(p, i) - p
                            ELSE RING_BUF_SIZE + Cell(p, i) - p
  BY <1>1, DistCases
<1>3. QED
  BY <1>1, <1>2, BufSizes DEF Cell, Cells

\* Every cell is so many steps from p.
LEMMA CellDist ==
  ASSUME NEW p \in Cells, NEW c \in Cells
  PROVE  Cell(p, Dist(c, p)) = c
<1>1. Dist(c, p) = IF p <= c THEN c - p ELSE RING_BUF_SIZE + c - p
  BY DistCases
<1>2. QED
  BY <1>1, BufSizes DEF Cell, Cells

\* Both index updates of the code are steps around the ring.
LEMMA NextIsCell ==
  ASSUME NEW p \in Cells, NEW n \in Cells
  PROVE  NextPush(p, n) = Cell(p, n) /\ NextPull(p, n) = Cell(p, n)
BY BufSizes DEF NextPush, NextPull, Cell, Cells

\* A put of n bytes that fits makes the contents n longer.
LEMMA PushGrows ==
  ASSUME NEW push \in Cells, NEW pull \in Cells, NEW n \in Cells,
         n <= (RING_BUF_SIZE - 1) - Dist(push, pull)
  PROVE  Dist(Cell(push, n), pull) = Dist(push, pull) + n
<1>1. Cell(push, n) \in Cells
  BY CellStep
<1>2. /\ Dist(push, pull) = IF pull <= push THEN push - pull
                           ELSE RING_BUF_SIZE + push - pull
      /\ Dist(Cell(push, n), pull) = IF pull <= Cell(push, n) THEN Cell(push, n) - pull
                                  ELSE RING_BUF_SIZE + Cell(push, n) - pull
  BY <1>1, DistCases
<1>3. QED
  BY <1>1, <1>2, BufSizes DEF Cell, Cells

\* A get of n bytes that are there makes the contents n shorter.
LEMMA PullShrinks ==
  ASSUME NEW push \in Cells, NEW pull \in Cells, NEW n \in Cells,
         n <= Dist(push, pull)
  PROVE  Dist(push, Cell(pull, n)) = Dist(push, pull) - n
<1>1. Cell(pull, n) \in Cells
  BY CellStep
<1>2. /\ Dist(push, pull) = IF pull <= push THEN push - pull
                           ELSE RING_BUF_SIZE + push - pull
      /\ Dist(push, Cell(pull, n)) = IF Cell(pull, n) <= push THEN push - Cell(pull, n)
                                  ELSE RING_BUF_SIZE + push - Cell(pull, n)
  BY <1>1, DistCases
<1>3. QED
  BY <1>1, <1>2, BufSizes DEF Cell, Cells

\* How far the i-th cell of the contents is from m_nPush: it is not among the
\* cells the next put writes, unless i is past the contents.
LEMMA ContentsFromPush ==
  ASSUME NEW push \in Cells, NEW pull \in Cells, NEW i \in Cells
  PROVE  Dist(Cell(pull, i), push) =
           IF i < Dist(push, pull) THEN RING_BUF_SIZE - (Dist(push, pull) - i)
                                   ELSE i - Dist(push, pull)
<1>1. Cell(pull, i) \in Cells
  BY CellStep
<1>2. /\ Dist(push, pull) = IF pull <= push THEN push - pull
                           ELSE RING_BUF_SIZE + push - pull
      /\ Dist(Cell(pull, i), push) =
           IF push <= Cell(pull, i) THEN Cell(pull, i) - push
                                    ELSE RING_BUF_SIZE + Cell(pull, i) - push
  BY <1>1, DistCases
<1>3. QED
  BY <1>1, <1>2, BufSizes DEF Cell, Cells

\* Walking n and then i cells is walking n + i.
LEMMA CellAdd ==
  ASSUME NEW p \in Cells, NEW n \in Cells, NEW i \in Cells, n + i \in Cells
  PROVE  Cell(Cell(p, n), i) = Cell(p, n + i)
BY BufSizes DEF Cell, Cells

\* The count that Wait_TsStream tests is zero only when the ring is empty.
LEMMA ReadyCountZero ==
  ASSUME NEW u \in Nat
  PROVE  ((u + DATA_BUF_SIZE - 1) \div DATA_BUF_SIZE = 0) <=> u = 0
BY BufSizes

----------------------------------------------------------------------------
(* Types.                                                                  *)

\* A thread waiting for room holds a block that is neither empty nor larger
\* than the bound on the stream allows.
PutFits ==
  snd.pc \in {"blocked", "woken"} =>
    snd.size \in 1..DATA_BUF_SIZE /\ nPut + snd.size <= MaxBytes

TypeInv == TypeOK /\ PutFits /\ BitrateCountsOnce

\* The constructor leaves every variable in its type.
LEMMA TypeInit == Init => TypeInv
<1> SUFFICES ASSUME Init PROVE TypeInv
  OBVIOUS
<1>1. 0 \in Cells
  BY BufSizes DEF Cells
<1>2. TypeOK
  <2>1. RingTypeOK
    <3>1. m_pBuf \in [Cells -> 0..MaxBytes]
      BY Bounds DEF Init
    <3>2. m_nPush = 0 /\ m_nPull = 0 /\ nPut = 0 /\ epoch = 0
      BY DEF Init
    <3>3. QED
      BY <1>1, <3>1, <3>2, Bounds DEF RingTypeOK
  <2>b. FlagTypeOK
    BY DEF Init, FlagTypeOK
  <2>a. RateTypeOK
    BY Clock, Bounds DEF Init, RateTypeOK, NoSample
  <2>2. NotReading \in [pc : {"idle", "copy"}, push : Cells, pull : Cells,
                        k : 0..DATA_BUF_SIZE, epoch : 0..MaxPurges]
    BY <1>1, BufSizes, Bounds DEF NotReading
  <2>3. BlockTypeOK
    BY <2>2, Bounds DEF Init, BlockTypeOK, Refused
  <2>4. ThreadTypeOK
    BY BufSizes DEF Init, ThreadTypeOK, Gone
  <2>5. QED
    BY <2>1, <2>a, <2>b, <2>3, <2>4 DEF TypeOK
<1>3. PutFits /\ BitrateCountsOnce
  BY DEF Init, PutFits, BitrateCountsOnce, Gone
<1>4. QED
  BY <1>2, <1>3 DEF TypeInv

\* The number of bytes in the ring is below RING_BUF_SIZE.
LEMMA UsedInCells ==
  ASSUME TypeOK
  PROVE  Used \in Cells
BY DistCases DEF TypeOK, RingTypeOK, Used

\* What a put that finds room for its n bytes preserves.
LEMMA StoreType ==
  ASSUME TypeInv, NEW n \in 1..DATA_BUF_SIZE, nPut + n <= MaxBytes,
         Store(n)
  PROVE  /\ m_nPush' \in Cells
         /\ m_pBuf' \in [Cells -> 0..MaxBytes]
         /\ nPut' \in 0..MaxBytes
         /\ m_nAccumData' \in 0..MaxBytes
         /\ m_dBitrate.bytes + m_nAccumData' <= nPut'
         /\ snd' = Running
<1>1. n \in Cells
  BY BufSizes DEF Cells
<1>2. m_nPush' \in Cells
  BY <1>1, NextIsCell, CellStep DEF Store, TypeInv, TypeOK, RingTypeOK, RateTypeOK
<1>3. ASSUME NEW c \in Cells
      PROVE  (IF Dist(c, m_nPush) < n THEN nPut + 1 + Dist(c, m_nPush)
                                      ELSE m_pBuf[c]) \in 0..MaxBytes
  <2>1. Dist(c, m_nPush) \in Nat
    BY DistCases DEF TypeInv, TypeOK, RingTypeOK, RateTypeOK, Cells
  <2>2. QED
    BY <2>1, Bounds DEF TypeInv, TypeOK, RingTypeOK, RateTypeOK
<1>4. m_pBuf' \in [Cells -> 0..MaxBytes]
  BY <1>3 DEF Store
<1>5. nPut' \in 0..MaxBytes /\ m_nAccumData' \in 0..MaxBytes
  BY Bounds DEF Store, TypeInv, TypeOK, RingTypeOK, RateTypeOK, BitrateCountsOnce
<1>6. QED
  BY <1>2, <1>4, <1>5, Bounds DEF Store, TypeInv, TypeOK, RingTypeOK, RateTypeOK, BitrateCountsOnce

\* A signal keeps the type of the waiters, one of which it may wake.
LEMMA SignalStreamType ==
  ASSUME ThreadTypeOK, SignalStream
  PROVE  wait' \in [Waiters -> [pc : {"idle", "blocked", "woken"},
                                ret : {"none", "WAIT_OBJECT_0", "WAIT_TIMEOUT"}]]
<1> DEFINE blocked == {w \in Waiters : wait[w].pc = "blocked"}
<1>1. CASE blocked = {}
  BY <1>1 DEF ThreadTypeOK, SignalStream
<1>2. CASE blocked # {}
  <2>1. PICK w \in Waiters : wait' = [wait EXCEPT ![w].pc = "woken"]
    BY <1>2 DEF SignalStream
  <2>2. QED
    BY <2>1 DEF ThreadTypeOK
<1>3. QED
  BY <1>1, <1>2

\* One turn of the wait loop, on the call or after a wakeup.
LEMMA PutTurnType ==
  ASSUME TypeInv, NEW n \in 1..DATA_BUF_SIZE, nPut + n <= MaxBytes, PutTurn(n),
         UNCHANGED <<m_dBitrate, m_ui64LastTime, meter, now>>,
         UNCHANGED <<m_pDst, m_bReading, m_bPurge, m_bShutdown, rd, got>>
  PROVE  TypeInv'
<1>1. FlagTypeOK' /\ BlockTypeOK'
  BY DEF TypeInv, TypeOK, FlagTypeOK, BlockTypeOK
<1>2. CASE Store(n)
  <2>1. m_nPull' = m_nPull /\ epoch' = epoch /\ SignalStream
    BY <1>2 DEF Store
  <2>2. RingTypeOK' /\ RateTypeOK'
    BY <1>2, <2>1, StoreType DEF TypeInv, TypeOK, RingTypeOK, RateTypeOK
  <2>3. ThreadTypeOK'
    BY <1>2, <2>1, StoreType, SignalStreamType, BufSizes
       DEF TypeInv, TypeOK, ThreadTypeOK, Running
  <2>4. PutFits' /\ BitrateCountsOnce'
    BY <1>2, <2>1, StoreType DEF TypeInv, PutFits, BitrateCountsOnce, Running
  <2>5. QED
    BY <1>1, <2>2, <2>3, <2>4 DEF TypeInv, TypeOK
<1>3. CASE ~Store(n)
  <2>1. /\ snd' = IF m_bShutdown THEN Gone ELSE [pc |-> "blocked", size |-> n]
        /\ UNCHANGED <<ring, m_nAccumData, wait>>
    BY <1>3 DEF PutTurn
  <2>2. RingTypeOK' /\ RateTypeOK'
    BY <2>1 DEF TypeInv, TypeOK, RingTypeOK, RateTypeOK, ring
  <2>3. ThreadTypeOK'
    BY <2>1, BufSizes DEF TypeInv, TypeOK, ThreadTypeOK, Gone
  <2>4. PutFits' /\ BitrateCountsOnce'
    BY <2>1 DEF TypeInv, PutFits, BitrateCountsOnce, ring, Gone
  <2>5. QED
    BY <1>1, <2>2, <2>3, <2>4 DEF TypeInv, TypeOK
<1>4. QED
  BY <1>2, <1>3

\* A function on 1..n is a sequence.
LEMMA FunctionIsSeq ==
  ASSUME NEW S, NEW n \in Nat, NEW f \in [1..n -> S]
  PROVE  f \in Seq(S)
OBVIOUS

\* The block a reader copies is no larger than m_pDst.
LEMMA BlockSizeType ==
  ASSUME BlockTypeOK, NEW r \in Readers
  PROVE  BlockSize(r) \in 0..DATA_BUF_SIZE /\ BlockSize(r) \in Cells
<1>1. Dist(rd[r].push, rd[r].pull) \in Cells
  BY DistCases DEF BlockTypeOK
<1>2. QED
  BY <1>1, BufSizes DEF BlockSize, Cells

\* The first critical section of a get keeps the types.
LEMMA EnterType ==
  ASSUME TypeInv, NEW r \in Readers, get_Enter(r)
  PROVE  TypeInv'
<1>1. RingTypeOK' /\ RateTypeOK' /\ ThreadTypeOK' /\ PutFits' /\ BitrateCountsOnce'
  BY DEF TypeInv, TypeOK, RingTypeOK, RateTypeOK, ThreadTypeOK, PutFits,
         BitrateCountsOnce, get_Enter, ring, rate
<1>2. FlagTypeOK'
  BY DEF TypeInv, TypeOK, FlagTypeOK, get_Enter
<1>3. BlockTypeOK'
  <2>1. Refused \in [ok : BOOLEAN, data : Seq(0..MaxBytes)]
    BY DEF Refused
  <2>2. [pc |-> "copy", push |-> m_nPush, pull |-> m_nPull, k |-> 0, epoch |-> epoch]
          \in [pc : {"idle", "copy"}, push : Cells, pull : Cells,
               k : 0..DATA_BUF_SIZE, epoch : 0..MaxPurges]
    BY BufSizes DEF TypeInv, TypeOK, RingTypeOK
  <2>3. \/ rd' = [rd EXCEPT ![r] = [pc |-> "copy", push |-> m_nPush,
                                     pull |-> m_nPull, k |-> 0, epoch |-> epoch]]
           /\ got' = got
        \/ got' = [got EXCEPT ![r] = Refused] /\ rd' = rd
    BY DEF get_Enter
  <2>4. m_pDst' = m_pDst
    BY DEF get_Enter
  <2>5. rd' \in [Readers -> [pc : {"idle", "copy"}, push : Cells, pull : Cells,
                              k : 0..DATA_BUF_SIZE, epoch : 0..MaxPurges]]
    BY <2>2, <2>3 DEF TypeInv, TypeOK, BlockTypeOK
  <2>6. got' \in [Readers -> [ok : BOOLEAN, data : Seq(0..MaxBytes)]]
    BY <2>1, <2>3 DEF TypeInv, TypeOK, BlockTypeOK
  <2>7. QED
    BY <2>4, <2>5, <2>6 DEF TypeInv, TypeOK, BlockTypeOK
<1>4. QED
  BY <1>1, <1>2, <1>3 DEF TypeInv, TypeOK

\* The copy of one byte stays inside m_pBuf and m_pDst.
LEMMA CopyType ==
  ASSUME TypeInv, NEW r \in Readers, get_Copy(r)
  PROVE  TypeInv'
<1>1. /\ RingTypeOK' /\ RateTypeOK' /\ FlagTypeOK' /\ ThreadTypeOK'
      /\ PutFits' /\ BitrateCountsOnce'
  BY DEF TypeInv, TypeOK, RingTypeOK, RateTypeOK, FlagTypeOK, ThreadTypeOK,
         PutFits, BitrateCountsOnce, get_Copy, ring, rate
<1>2. BlockTypeOK'
  <2>1. /\ BlockSize(r) \in 0..DATA_BUF_SIZE /\ BlockSize(r) \in Cells
        /\ rd[r].k \in Nat /\ rd[r].k < BlockSize(r) /\ rd[r].pull \in Cells
    BY BlockSizeType DEF TypeInv, TypeOK, BlockTypeOK, get_Copy
  <2>2. rd[r].k \in Cells /\ rd[r].k + 1 \in 0..DATA_BUF_SIZE
    BY <2>1, BufSizes DEF Cells
  <2>3. m_pBuf[Cell(rd[r].pull, rd[r].k)] \in 0..MaxBytes
    BY <2>1, <2>2, CellStep DEF TypeInv, TypeOK, RingTypeOK
  <2>4. QED
    BY <2>2, <2>3 DEF TypeInv, TypeOK, BlockTypeOK, get_Copy
<1>3. QED
  BY <1>1, <1>2 DEF TypeInv, TypeOK

\* The second critical section of a get keeps the types.
LEMMA LeaveType ==
  ASSUME TypeInv, NEW r \in Readers, get_Leave(r)
  PROVE  TypeInv'
<1> DEFINE n == BlockSize(r)
           block == [i \in 1..n |-> m_pDst[i - 1]]
<1>1. n \in 0..DATA_BUF_SIZE /\ n \in Cells /\ rd[r].pull \in Cells
  BY BlockSizeType DEF TypeInv, TypeOK, BlockTypeOK
<1>2. NextPull(rd[r].pull, n) \in Cells
  BY <1>1, NextIsCell, CellStep
<1>3. m_nPull' \in Cells /\ UNCHANGED <<m_pBuf, m_nPush, nPut, epoch, rate, wait>>
  BY <1>2 DEF get_Leave, TypeInv, TypeOK, RingTypeOK
<1>4. snd' = snd \/ snd' = SignalGet(snd)
  BY DEF get_Leave
<1>5. RingTypeOK' /\ RateTypeOK' /\ BitrateCountsOnce'
  BY <1>3 DEF TypeInv, TypeOK, RingTypeOK, RateTypeOK, BitrateCountsOnce, rate
<1>6. ThreadTypeOK' /\ PutFits'
  BY <1>3, <1>4 DEF TypeInv, TypeOK, ThreadTypeOK, PutFits, SignalGet
<1>7. FlagTypeOK'
  BY DEF TypeInv, TypeOK, FlagTypeOK, get_Leave
<1>8. BlockTypeOK'
  <2>1. block \in Seq(0..MaxBytes)
    <3>1. \A i \in 1..n : m_pDst[i - 1] \in 0..MaxBytes
      BY <1>1, BufSizes DEF TypeInv, TypeOK, BlockTypeOK
    <3>2. block \in [1..n -> 0..MaxBytes]
      BY <3>1
    <3>3. n \in Nat
      BY <1>1, BufSizes
    <3> HIDE DEF n, block
    <3>4. QED
      BY <3>2, <3>3, FunctionIsSeq
  <2>2. NotReading \in [pc : {"idle", "copy"}, push : Cells, pull : Cells,
                        k : 0..DATA_BUF_SIZE, epoch : 0..MaxPurges]
    BY BufSizes, Bounds DEF NotReading, Cells
  <2>3. got' = [got EXCEPT ![r] = Refused]
        \/ got' = [got EXCEPT ![r] = [ok |-> TRUE, data |-> block]]
    BY DEF get_Leave
  <2>4. got' \in [Readers -> [ok : BOOLEAN, data : Seq(0..MaxBytes)]]
    <3>1. Refused \in [ok : BOOLEAN, data : Seq(0..MaxBytes)]
      BY DEF Refused
    <3>2. [ok |-> TRUE, data |-> block] \in [ok : BOOLEAN, data : Seq(0..MaxBytes)]
      BY <2>1
    <3> HIDE DEF block
    <3>3. QED
      BY <2>3, <3>1, <3>2 DEF TypeInv, TypeOK, BlockTypeOK
  <2>5. QED
    BY <2>2, <2>4 DEF TypeInv, TypeOK, BlockTypeOK, get_Leave
<1>9. QED
  BY <1>5, <1>6, <1>7, <1>8 DEF TypeInv, TypeOK

\* The locked part of get_Bitrate keeps the types.
LEMMA UpdateType ==
  ASSUME TypeInv, NEW m \in Meters, get_Bitrate_Update(m)
  PROVE  TypeInv'
<1>1. /\ RingTypeOK' /\ FlagTypeOK' /\ BlockTypeOK' /\ ThreadTypeOK' /\ PutFits'
  BY DEF TypeInv, TypeOK, RingTypeOK, FlagTypeOK, BlockTypeOK, ThreadTypeOK,
         PutFits, get_Bitrate_Update, ring
<1>2. meter[m].at \in 0..MaxNow /\ Duration(m) \in Nat
  BY Clock DEF TypeInv, TypeOK, RateTypeOK, Duration
<1>3. meter' \in [Meters -> [pc : {"idle", "sampled"}, at : 0..MaxNow]]
  BY Clock DEF TypeInv, TypeOK, RateTypeOK, get_Bitrate_Update, NoSample
<1>4. CASE Duration(m) >= BITRATE_PERIOD
  BY <1>1, <1>2, <1>3, <1>4, Bounds
     DEF TypeInv, TypeOK, RateTypeOK, RingTypeOK, BitrateCountsOnce,
         get_Bitrate_Update, ring
<1>5. CASE ~(Duration(m) >= BITRATE_PERIOD)
  BY <1>1, <1>3, <1>5
     DEF TypeInv, TypeOK, RateTypeOK, BitrateCountsOnce, get_Bitrate_Update, ring
<1>6. QED
  BY <1>4, <1>5

\* Every step keeps the types.
LEMMA TypeStep == TypeInv /\ [Next]_vars => TypeInv'
<1> SUFFICES ASSUME TypeInv, [Next]_vars PROVE TypeInv'
  OBVIOUS
<1> USE DEF TypeInv, TypeOK
<1>1. ASSUME NEW n \in 1..DATA_BUF_SIZE, put_TsStream(n) PROVE TypeInv'
  BY <1>1, PutTurnType DEF put_TsStream
<1>2. CASE put_Resume
  BY <1>2, PutTurnType DEF put_Resume, PutFits
<1>3. CASE put_SpuriousWake
  BY <1>3 DEF put_SpuriousWake, RingTypeOK, RateTypeOK, FlagTypeOK, BlockTypeOK,
              ThreadTypeOK, PutFits, BitrateCountsOnce, ring, rate
<1>4. CASE RecvThread_End \/ RecvThread_Start
  <2>1. /\ snd' = Gone \/ snd' = Running
        /\ UNCHANGED <<ring, rate, m_pDst, m_bReading, m_bPurge, rd, wait, got>>
        /\ UNCHANGED m_bShutdown
    BY <1>4 DEF RecvThread_End, RecvThread_Start
  <2>2. /\ RingTypeOK' /\ RateTypeOK' /\ FlagTypeOK' /\ BlockTypeOK'
        /\ BitrateCountsOnce'
    BY <2>1 DEF RingTypeOK, RateTypeOK, FlagTypeOK, BlockTypeOK,
                BitrateCountsOnce, ring, rate
  <2>3. ThreadTypeOK' /\ PutFits'
    BY <2>1, BufSizes DEF ThreadTypeOK, PutFits, Gone, Running
  <2>4. QED
    BY <2>2, <2>3
<1>5. ASSUME NEW r \in Readers, get_Enter(r) \/ get_Copy(r) \/ get_Leave(r)
      PROVE  TypeInv'
  BY <1>5, EnterType, CopyType, LeaveType
<1>6. CASE purge_TsStream
  <2>1. RingTypeOK'
    BY <1>6, BufSizes, Bounds DEF purge_TsStream, RingTypeOK, Cells
  <2>2. RateTypeOK' /\ BitrateCountsOnce'
    BY <1>6, Bounds DEF purge_TsStream, RateTypeOK, RingTypeOK, BitrateCountsOnce
  <2>3. FlagTypeOK' /\ BlockTypeOK' /\ ThreadTypeOK' /\ PutFits'
    BY <1>6 DEF purge_TsStream, FlagTypeOK, BlockTypeOK, ThreadTypeOK, PutFits,
                SignalGet
  <2>4. QED
    BY <2>1, <2>2, <2>3
<1>7. CASE RequestShutdown \/ ResetShutdown
  BY <1>7 DEF RequestShutdown, ResetShutdown, RingTypeOK, RateTypeOK, FlagTypeOK,
              BlockTypeOK, ThreadTypeOK, PutFits, BitrateCountsOnce, ring, rate,
              SignalGet
<1>8. ASSUME NEW w \in Waiters, Wait_TsStream(w) \/ Wait_Return(w)
      PROVE  TypeInv'
  <2>1. /\ RingTypeOK' /\ RateTypeOK' /\ FlagTypeOK' /\ BlockTypeOK'
        /\ PutFits' /\ BitrateCountsOnce'
    BY <1>8 DEF Wait_TsStream, Wait_Return, RingTypeOK, RateTypeOK, FlagTypeOK,
                BlockTypeOK, PutFits, BitrateCountsOnce, ring, rate
  <2>2. ThreadTypeOK'
    BY <1>8 DEF Wait_TsStream, Wait_Return, ThreadTypeOK
  <2>3. QED
    BY <2>1, <2>2
<1>9. ASSUME NEW m \in Meters, get_Bitrate_Sample(m) PROVE TypeInv'
  BY <1>9 DEF get_Bitrate_Sample, RingTypeOK, RateTypeOK, FlagTypeOK, BlockTypeOK,
              ThreadTypeOK, PutFits, BitrateCountsOnce, ring
<1>10. ASSUME NEW m \in Meters, get_Bitrate_Update(m) PROVE TypeInv'
  BY <1>10, UpdateType
<1>11. CASE Tick
  BY <1>11, Clock
     DEF Tick, RingTypeOK, RateTypeOK, FlagTypeOK, BlockTypeOK, ThreadTypeOK,
         PutFits, BitrateCountsOnce, ring
<1>12. CASE UNCHANGED vars
  BY <1>12 DEF vars, ring, rate, RingTypeOK, RateTypeOK, FlagTypeOK, BlockTypeOK,
               ThreadTypeOK, PutFits, BitrateCountsOnce
<1>13. QED
  BY <1>1, <1>2, <1>3, <1>4, <1>5, <1>6, <1>7, <1>8, <1>9, <1>10, <1>11, <1>12
     DEF Next

\* Every variable keeps its type: the indices stay inside the ring whatever
\* the readers, the receive thread and the purges do, so that the memcpys of
\* put_TsStream and get_TsStream stay inside the buffers.
THEOREM TypeCorrect == Spec => []TypeOK
<1>1. TypeInv => TypeOK
  BY DEF TypeInv
<1>2. QED
  BY <1>1, TypeInit, TypeStep, PTL DEF Spec

\* No byte is counted in two windows of the bit rate, with any number of
\* threads in get_Bitrate.
THEOREM BitrateCounts == Spec => []BitrateCountsOnce
<1>1. TypeInv => BitrateCountsOnce
  BY DEF TypeInv
<1>2. QED
  BY <1>1, TypeInit, TypeStep, PTL DEF Spec

----------------------------------------------------------------------------
(* With any number of threads.                                             *)

\* Every step keeps the guard and its reader together.
LEMMA ExclusiveStep ==
  TypeInv /\ DstExclusive /\ [Next]_vars => DstExclusive'
<1> SUFFICES ASSUME TypeInv, DstExclusive, [Next]_vars PROVE DstExclusive'
  OBVIOUS
<1>1. rd \in [Readers -> [pc : {"idle", "copy"}, push : Cells, pull : Cells,
                         k : 0..DATA_BUF_SIZE, epoch : 0..MaxPurges]]
  BY DEF TypeInv, TypeOK, BlockTypeOK
<1>2. CASE UNCHANGED <<m_bReading, rd>>
  BY <1>2 DEF DstExclusive
<1>3. ASSUME NEW r \in Readers, get_Enter(r) PROVE DstExclusive'
  <2>1. CASE UNCHANGED <<m_bReading, rd>>
    BY <1>2, <2>1
  <2>2. CASE ~UNCHANGED <<m_bReading, rd>>
    <3>1. ~m_bReading /\ m_bReading' = TRUE
      BY <1>3, <2>2 DEF get_Enter, GuardFree
    <3>2. /\ rd'[r].pc = "copy"
          /\ \A s \in Readers : s # r => rd'[s] = rd[s]
      BY <1>1, <1>3, <2>2 DEF get_Enter
    <3>3. \A s \in Readers : rd[s].pc # "copy"
      BY <3>1 DEF DstExclusive
    <3>4. QED
      BY <3>1, <3>2, <3>3 DEF DstExclusive
  <2>3. QED
    BY <2>1, <2>2
<1>4. ASSUME NEW r \in Readers, get_Copy(r) PROVE DstExclusive'
  <2>1. m_bReading' = m_bReading /\ \A s \in Readers : rd'[s].pc = rd[s].pc
    BY <1>1, <1>4 DEF get_Copy
  <2>2. QED
    BY <2>1 DEF DstExclusive
<1>5. ASSUME NEW r \in Readers, get_Leave(r) PROVE DstExclusive'
  <2>1. /\ rd[r].pc = "copy" /\ m_bReading' = FALSE /\ rd'[r].pc = "idle"
        /\ \A s \in Readers : s # r => rd'[s] = rd[s]
    BY <1>1, <1>5 DEF get_Leave, NotReading
  <2>2. \A s \in Readers : rd'[s].pc # "copy"
    BY <2>1 DEF DstExclusive
  <2>3. QED
    BY <2>1, <2>2 DEF DstExclusive
<1>6. QED
  BY <1>2, <1>3, <1>4, <1>5
     DEF Next, put_TsStream, put_Resume, put_SpuriousWake, RecvThread_End,
         RecvThread_Start, purge_TsStream, RequestShutdown, ResetShutdown,
         Wait_TsStream, Wait_Return, get_Bitrate_Sample, get_Bitrate_Update,
         Tick, vars

\* However many threads call get_TsStream, one at a time copies into the
\* shared m_pDst, and m_bReading is set exactly while one does.
THEOREM DstIsExclusive == Spec => []DstExclusive
<1>1. Init => DstExclusive
  BY DEF Init, DstExclusive, NotReading
<1>2. QED
  BY <1>1, TypeInit, TypeStep, ExclusiveStep, PTL DEF Spec

\* Every step that makes room, or asks for a shutdown, wakes the sender.
LEMMA RoomSignalStep ==
  TypeInv /\ NoLostRoomSignal /\ [Next]_vars => NoLostRoomSignal'
<1> SUFFICES ASSUME TypeInv, NoLostRoomSignal, [Next]_vars
             PROVE  NoLostRoomSignal'
  OBVIOUS
<1>1. CASE UNCHANGED <<m_nPush, m_nPull, snd, m_bShutdown>>
  BY <1>1 DEF NoLostRoomSignal, Avail, Used
<1>2. CASE snd'.pc # "blocked"
  BY <1>2 DEF NoLostRoomSignal
<1>3. ASSUME NEW n \in 1..DATA_BUF_SIZE, PutTurn(n), UNCHANGED m_bShutdown
      PROVE  NoLostRoomSignal'
  <2>1. CASE Store(n)
    BY <1>2, <2>1 DEF Store, Running
  <2>2. CASE ~Store(n)
    BY <1>2, <1>3, <2>2 DEF PutTurn, NoLostRoomSignal, Avail, Used, ring, Gone
  <2>3. QED
    BY <2>1, <2>2
<1>4. ASSUME NEW n \in 1..DATA_BUF_SIZE, put_TsStream(n) PROVE NoLostRoomSignal'
  BY <1>3, <1>4 DEF put_TsStream
<1>5. CASE put_Resume
  BY <1>3, <1>5 DEF put_Resume, TypeInv, PutFits
<1>6. CASE put_SpuriousWake \/ RecvThread_End \/ RecvThread_Start
  BY <1>2, <1>6 DEF put_SpuriousWake, RecvThread_End, RecvThread_Start, Gone,
                    Running, TypeInv, TypeOK, ThreadTypeOK
<1>7. CASE purge_TsStream \/ RequestShutdown
  BY <1>2, <1>7 DEF purge_TsStream, RequestShutdown, SignalGet, TypeInv, TypeOK,
                    ThreadTypeOK
<1>8. CASE ResetShutdown
  BY <1>2, <1>8 DEF ResetShutdown
<1>9. ASSUME NEW r \in Readers, get_Leave(r) PROVE NoLostRoomSignal'
  <2>1. UNCHANGED <<m_nPush, m_bShutdown>>
    BY <1>9 DEF get_Leave
  <2>2. CASE UNCHANGED <<m_nPull, snd>>
    BY <1>1, <2>1, <2>2
  <2>3. CASE snd' = SignalGet(snd)
    BY <1>2, <2>3 DEF SignalGet, TypeInv, TypeOK, ThreadTypeOK
  <2>4. QED
    BY <1>9, <2>2, <2>3 DEF get_Leave
<1>10. QED
  BY <1>1, <1>4, <1>5, <1>6, <1>7, <1>8, <1>9
     DEF Next, get_Enter, get_Copy, Wait_TsStream, Wait_Return,
         get_Bitrate_Sample, get_Bitrate_Update, Tick, vars, ring

\* The receive thread is never left blocked in put_TsStream once there is room
\* for its bytes or a shutdown is requested, with any number of readers and
\* purges: every change of the condition it waits for is signalled.
THEOREM RoomSignalKept == Spec => []NoLostRoomSignal
<1>1. Init => NoLostRoomSignal
  BY DEF Init, NoLostRoomSignal, Gone
<1>2. QED
  BY <1>1, TypeInit, TypeStep, RoomSignalStep, PTL DEF Spec

----------------------------------------------------------------------------
(* With one thread in get_TsStream at a time: the order and the integrity  *)
(* of the stream.                                                          *)

SingleReader == \A r, s \in Readers : r = s

\* A purge since the reader entered has left its mark.
StaleFlag ==
  \A r \in Readers : rd[r].pc = "copy" =>
    rd[r].epoch <= epoch /\ (rd[r].epoch # epoch => m_bPurge)

\* Until then its snapshot is good: m_nPull has not moved and the contents
\* have only grown.
SnapshotHeld ==
  \A r \in Readers : rd[r].pc = "copy" /\ rd[r].epoch = epoch =>
    rd[r].pull = m_nPull /\ Dist(rd[r].push, rd[r].pull) <= Used

\* The ring holds the last Used bytes of the stream, in order.
ContentsInOrder ==
  /\ Used <= nPut
  /\ \A i \in Cells : i < Used => m_pBuf[Cell(m_nPull, i)] = nPut - Used + 1 + i

\* m_pDst holds as much of them as the reader has copied.
CopiedInOrder ==
  \A r \in Readers : rd[r].pc = "copy" =>
    /\ rd[r].k <= BlockSize(r)
    /\ rd[r].epoch = epoch =>
         \A i \in Cells : i < rd[r].k => m_pDst[i] = nPut - Used + 1 + i

StreamInv ==
  TypeInv /\ StaleFlag /\ SnapshotHeld /\ ContentsInOrder /\ CopiedInOrder

\* What the types say of the ring and of a block in progress, as facts to cite.
LEMMA StreamFacts ==
  ASSUME TypeInv
  PROVE  /\ Used \in Cells /\ Used \in Nat /\ m_nPush \in Cells /\ m_nPull \in Cells
         /\ nPut \in Nat /\ epoch \in Nat
         /\ rd \in [Readers -> [pc : {"idle", "copy"}, push : Cells, pull : Cells,
                                k : 0..DATA_BUF_SIZE, epoch : 0..MaxPurges]]
         /\ \A r \in Readers : /\ BlockSize(r) \in Cells
                              /\ BlockSize(r) \in 0..DATA_BUF_SIZE
                              /\ BlockSize(r) <= Dist(rd[r].push, rd[r].pull)
                              /\ Dist(rd[r].push, rd[r].pull) \in Cells
<1>1. /\ m_nPush \in Cells /\ m_nPull \in Cells /\ nPut \in Nat /\ epoch \in Nat
      /\ rd \in [Readers -> [pc : {"idle", "copy"}, push : Cells, pull : Cells,
                             k : 0..DATA_BUF_SIZE, epoch : 0..MaxPurges]]
  BY DEF TypeInv, TypeOK, RingTypeOK, BlockTypeOK
<1>2. Used \in Cells /\ Used \in Nat
  BY UsedInCells DEF TypeInv, Cells
<1>3. ASSUME NEW r \in Readers
      PROVE  /\ BlockSize(r) \in Cells /\ BlockSize(r) \in 0..DATA_BUF_SIZE
             /\ BlockSize(r) <= Dist(rd[r].push, rd[r].pull)
             /\ Dist(rd[r].push, rd[r].pull) \in Cells
  <2>1. Dist(rd[r].push, rd[r].pull) \in Cells
    BY <1>1, DistCases
  <2>2. QED
    BY <2>1, BufSizes DEF BlockSize, Cells
<1>4. QED
  BY <1>1, <1>2, <1>3

\* A put lengthens the contents and leaves what was there, and what a reader
\* has taken a snapshot of, in place.
LEMMA StoreStream ==
  ASSUME StreamInv, NEW n \in 1..DATA_BUF_SIZE, Avail >= n, Store(n),
         UNCHANGED <<m_pDst, m_bPurge, rd>>
  PROVE  StaleFlag' /\ SnapshotHeld' /\ ContentsInOrder' /\ CopiedInOrder'
<1> USE StreamFacts DEF StreamInv
<1>1. n \in Cells /\ n \in Nat
  BY BufSizes DEF Cells
<1>2. /\ m_nPush' = Cell(m_nPush, n) /\ nPut' = nPut + n
      /\ UNCHANGED <<m_nPull, epoch>>
  BY <1>1, NextIsCell DEF Store
<1>3. Used' = Used + n
  BY <1>1, <1>2, PushGrows DEF Used, Avail
<1>4. StaleFlag'
  BY <1>2 DEF StaleFlag
<1>5. SnapshotHeld'
  <2>1. ASSUME NEW r \in Readers, rd[r].pc = "copy", rd[r].epoch = epoch
        PROVE  rd[r].pull = m_nPull /\ Dist(rd[r].push, rd[r].pull) <= Used + n
    BY <1>1, <2>1 DEF SnapshotHeld, Cells
  <2>2. QED
    BY <1>2, <1>3, <2>1 DEF SnapshotHeld
<1>6. ContentsInOrder'
  <2>1. ASSUME NEW i \in Cells, i < Used + n
        PROVE  m_pBuf'[Cell(m_nPull, i)] = (nPut + n) - (Used + n) + 1 + i
    <3> DEFINE c == Cell(m_nPull, i)
    <3>0. c = Cell(m_nPull, i)
      OBVIOUS
    <3>1. c \in Cells
      BY CellStep
    <3>2. m_pBuf'[c] = IF Dist(c, m_nPush) < n THEN nPut + 1 + Dist(c, m_nPush)
                                               ELSE m_pBuf[c]
      BY <3>1 DEF Store
    <3>3. Dist(c, m_nPush) = IF i < Used THEN RING_BUF_SIZE - (Used - i)
                                         ELSE i - Used
      BY ContentsFromPush DEF Used
    <3>4. CASE i < Used
      <4>1. ~(Dist(c, m_nPush) < n)
        BY <1>1, <3>3, <3>4, BufSizes DEF Avail, Cells
      <4>2. m_pBuf[c] = nPut - Used + 1 + i
        BY <3>4 DEF ContentsInOrder
      <4> HIDE DEF c
      <4>3. QED
        BY <1>1, <3>0, <3>2, <4>1, <4>2 DEF Cells
    <3>5. CASE ~(i < Used)
      <4> HIDE DEF c
      <4>1. QED
        BY <1>1, <2>1, <3>0, <3>2, <3>3, <3>5 DEF Cells
    <3>6. QED
      BY <3>4, <3>5
  <2>2. QED
    BY <1>1, <1>2, <1>3, <2>1 DEF ContentsInOrder
<1>7. CopiedInOrder'
  <2>1. nPut' - Used' = nPut - Used
    BY <1>1, <1>2, <1>3
  <2>2. \A r \in Readers : BlockSize(r)' = BlockSize(r)
    BY DEF BlockSize
  <2>3. QED
    BY <1>2, <2>1, <2>2 DEF CopiedInOrder
<1>8. QED
  BY <1>4, <1>5, <1>6, <1>7

\* The only reader enters: it finds a purge and clears its mark, while nobody
\* copies, or takes its snapshot.
LEMMA EnterStream ==
  ASSUME StreamInv, SingleReader, NEW r \in Readers, get_Enter(r)
  PROVE  StaleFlag' /\ SnapshotHeld' /\ ContentsInOrder' /\ CopiedInOrder'
<1> USE StreamFacts DEF StreamInv
<1>1. UNCHANGED <<m_pBuf, m_nPush, m_nPull, nPut, epoch, m_pDst>> /\ Used' = Used
  BY DEF get_Enter, ring, Used
<1>2. ContentsInOrder'
  BY <1>1 DEF ContentsInOrder
<1>3. rd[r].pc = "idle" /\ \A s \in Readers : s = r
  BY DEF get_Enter, SingleReader
<1>4. CASE rd' = rd
  BY <1>2, <1>3, <1>4 DEF StaleFlag, SnapshotHeld, CopiedInOrder
<1>5. CASE rd' = [rd EXCEPT ![r] = [pc |-> "copy", push |-> m_nPush,
                                    pull |-> m_nPull, k |-> 0, epoch |-> epoch]]
  <2>1. \A s \in Readers : rd'[s] = [pc |-> "copy", push |-> m_nPush,
                                    pull |-> m_nPull, k |-> 0, epoch |-> epoch]
    BY <1>3, <1>5
  <2>2. StaleFlag'
    BY <1>1, <2>1 DEF StaleFlag
  <2>3. SnapshotHeld'
    BY <1>1, <2>1 DEF SnapshotHeld, Used
  <2>4. CopiedInOrder'
    <3>1. \A s \in Readers : BlockSize(s)' >= 0
      BY <2>1, BufSizes DEF BlockSize, Used, Cells
    <3>2. QED
      BY <1>1, <2>1, <3>1 DEF CopiedInOrder, Cells
  <2>5. QED
    BY <1>2, <2>2, <2>3, <2>4
<1>6. QED
  BY <1>4, <1>5 DEF get_Enter

\* The copy of one byte keeps the stream invariant.
LEMMA CopyStream ==
  ASSUME StreamInv, SingleReader, NEW r \in Readers, get_Copy(r)
  PROVE  StaleFlag' /\ SnapshotHeld' /\ ContentsInOrder' /\ CopiedInOrder'
<1> USE StreamFacts DEF StreamInv
<1>1. /\ UNCHANGED <<m_pBuf, m_nPush, m_nPull, nPut, epoch, m_bPurge>>
      /\ Used' = Used
  BY DEF get_Copy, ring, Used
<1>2. /\ rd[r].pc = "copy" /\ rd[r].k < BlockSize(r)
      /\ rd' = [rd EXCEPT ![r].k = @ + 1] /\ \A s \in Readers : s = r
      /\ rd[r].k \in Nat
  BY DEF get_Copy, SingleReader
<1>3. /\ rd'[r].pc = "copy" /\ rd'[r].k = rd[r].k + 1 /\ rd'[r].push = rd[r].push
      /\ rd'[r].pull = rd[r].pull /\ rd'[r].epoch = rd[r].epoch
      /\ BlockSize(r)' = BlockSize(r)
  BY <1>2 DEF BlockSize
<1>4. ContentsInOrder' /\ StaleFlag' /\ SnapshotHeld'
  BY <1>1, <1>2, <1>3 DEF ContentsInOrder, StaleFlag, SnapshotHeld
<1>5. ASSUME rd[r].epoch = epoch, NEW i \in Cells, i < rd[r].k + 1
      PROVE  m_pDst'[i] = nPut - Used + 1 + i
  <2>1. BlockSize(r) <= Used /\ rd[r].pull = m_nPull
    BY <1>2, <1>5 DEF SnapshotHeld, Cells
  <2>2. rd[r].k \in Cells /\ rd[r].k \in 0..(DATA_BUF_SIZE - 1)
    BY <1>2, BufSizes DEF Cells
  <2>3. m_pDst' = [m_pDst EXCEPT ![rd[r].k] = m_pBuf[Cell(m_nPull, rd[r].k)]]
        /\ m_pDst \in [0..(DATA_BUF_SIZE - 1) -> 0..MaxBytes]
    BY <2>1 DEF get_Copy, TypeInv, TypeOK, BlockTypeOK
  <2>4. CASE i = rd[r].k
    <3>1. i < Used
      BY <1>2, <2>1, <2>4 DEF Cells
    <3>2. m_pDst'[i] = m_pBuf[Cell(m_nPull, i)]
      BY <2>2, <2>3, <2>4
    <3>3. QED
      BY <3>1, <3>2 DEF ContentsInOrder
  <2>5. CASE i # rd[r].k
    <3>1. i < rd[r].k /\ i \in 0..(DATA_BUF_SIZE - 1)
      BY <1>2, <1>5, <2>2, <2>5, BufSizes DEF Cells
    <3>2. m_pDst'[i] = m_pDst[i]
      BY <2>3, <2>5, <3>1
    <3>3. QED
      BY <1>2, <1>5, <3>1, <3>2 DEF CopiedInOrder
  <2>6. QED
    BY <2>4, <2>5
<1>6. CopiedInOrder'
  BY <1>1, <1>2, <1>3, <1>5 DEF CopiedInOrder, Cells
<1>7. QED
  BY <1>4, <1>6

\* A block that no purge overtook is the front of the contents; its reader
\* moves m_nPull past it.
LEMMA LeaveStream ==
  ASSUME StreamInv, SingleReader, NEW r \in Readers, get_Leave(r)
  PROVE  StaleFlag' /\ SnapshotHeld' /\ ContentsInOrder' /\ CopiedInOrder'
<1> USE StreamFacts DEF StreamInv
<1> DEFINE n == BlockSize(r)
<1>1. /\ rd[r].pc = "copy"
      /\ UNCHANGED <<m_pBuf, m_nPush, nPut, epoch>>
  BY DEF get_Leave
<1>2. \A s \in Readers : rd'[s].pc = "idle"
  BY DEF get_Leave, SingleReader, NotReading
<1>3. StaleFlag' /\ SnapshotHeld' /\ CopiedInOrder'
  BY <1>2 DEF StaleFlag, SnapshotHeld, CopiedInOrder
<1>4. CASE m_nPull' = m_nPull
  BY <1>1, <1>3, <1>4 DEF ContentsInOrder, Used
<1>5. CASE m_nPull' = NextPull(rd[r].pull, n) /\ ~m_bPurge
  <2>1. rd[r].pull = m_nPull /\ n <= Used
    BY <1>1, <1>5 DEF StaleFlag, SnapshotHeld, Cells
  <2>2. n \in Cells /\ n \in Nat
    BY DEF Cells
  <2>3. m_nPull' = Cell(m_nPull, n)
    BY <1>5, <2>1, <2>2, NextIsCell
  <2>4. Used' = Used - n
    BY <1>1, <2>1, <2>2, <2>3, PullShrinks DEF Used
  <2>a. /\ m_nPull \in Cells /\ Used \in Cells /\ Used \in Nat /\ nPut \in Nat
        /\ ContentsInOrder
    OBVIOUS
  <2> HIDE StreamFacts DEF n, StreamInv
  <2>5. ASSUME NEW i \in Cells, i < Used - n
        PROVE  m_pBuf[Cell(Cell(m_nPull, n), i)] = nPut - (Used - n) + 1 + i
    <3>1. n + i \in Cells /\ n + i < Used
      BY <2>1, <2>2, <2>5, <2>a, BufSizes DEF Cells
    <3>2. Cell(Cell(m_nPull, n), i) = Cell(m_nPull, n + i)
      BY <2>2, <2>5, <2>a, <3>1, CellAdd
    <3>3. m_pBuf[Cell(m_nPull, n + i)] = nPut - Used + 1 + (n + i)
      BY <2>a, <3>1 DEF ContentsInOrder
    <3>4. QED
      BY <2>2, <2>a, <3>2, <3>3 DEF Cells
  <2>6. ContentsInOrder'
    BY <1>1, <2>a, <2>1, <2>2, <2>3, <2>4, <2>5 DEF ContentsInOrder
  <2>7. QED
    BY <1>3, <2>6
<1>6. QED
  BY <1>4, <1>5 DEF get_Leave, PurgedMeanwhile

\* A purge keeps the stream invariant: it marks every copy in progress stale.
LEMMA PurgeStream ==
  ASSUME StreamInv, purge_TsStream
  PROVE  StaleFlag' /\ SnapshotHeld' /\ ContentsInOrder' /\ CopiedInOrder'
<1> USE StreamFacts DEF StreamInv
<1>1. /\ m_nPull' = 0 /\ m_nPush' = 0 /\ m_bPurge' = TRUE /\ epoch' = epoch + 1
      /\ UNCHANGED <<m_pBuf, nPut, rd, m_pDst>>
  BY DEF purge_TsStream
<1>2. Used' = 0
  BY <1>1, BufSizes DEF Used, Dist
<1>3. \A r \in Readers : rd[r].pc = "copy" =>
        rd'[r].epoch # epoch' /\ rd[r].epoch <= epoch' /\ BlockSize(r)' = BlockSize(r)
  BY <1>1 DEF StaleFlag, BlockSize
<1>4. ContentsInOrder'
  BY <1>1, <1>2 DEF ContentsInOrder, Cells
<1>5. QED
  BY <1>1, <1>3, <1>4 DEF StaleFlag, SnapshotHeld, CopiedInOrder

\* Every step keeps the stream invariant.
LEMMA StreamStep ==
  ASSUME StreamInv, SingleReader, [Next]_vars
  PROVE  StreamInv'
<1>1. TypeInv'
  BY TypeStep DEF StreamInv
<1>2. CASE UNCHANGED <<m_pBuf, m_nPush, m_nPull, nPut, epoch, m_pDst, m_bPurge, rd>>
  BY <1>1, <1>2 DEF StreamInv, StaleFlag, SnapshotHeld, ContentsInOrder,
                    CopiedInOrder, Used, BlockSize
<1>3. ASSUME NEW n \in 1..DATA_BUF_SIZE, PutTurn(n),
             UNCHANGED <<m_pDst, m_bPurge, rd>>
      PROVE  StreamInv'
  <2>1. CASE Avail >= n /\ Store(n)
    BY <1>1, <1>3, <2>1, StoreStream DEF StreamInv
  <2>2. CASE ~(Avail >= n /\ Store(n))
    BY <1>2, <1>3, <2>2 DEF PutTurn, ring
  <2>3. QED
    BY <2>1, <2>2
<1>4. ASSUME NEW n \in 1..DATA_BUF_SIZE, put_TsStream(n) PROVE StreamInv'
  BY <1>3, <1>4 DEF put_TsStream
<1>5. CASE put_Resume
  BY <1>3, <1>5 DEF put_Resume, StreamInv, TypeInv, PutFits
<1>6. ASSUME NEW r \in Readers, get_Enter(r) \/ get_Copy(r) \/ get_Leave(r)
      PROVE  StreamInv'
  BY <1>1, <1>6, EnterStream, CopyStream, LeaveStream DEF StreamInv
<1>7. CASE purge_TsStream
  BY <1>1, <1>7, PurgeStream DEF StreamInv
<1>8. QED
  BY <1>2, <1>4, <1>5, <1>6, <1>7
     DEF Next, put_SpuriousWake, RecvThread_End, RecvThread_Start, RequestShutdown,
         ResetShutdown, Wait_TsStream, Wait_Return, get_Bitrate_Sample,
         get_Bitrate_Update, Tick, vars, ring

\* The stream invariant holds of the empty ring.
LEMMA StreamInit == Init => StreamInv
<1> SUFFICES ASSUME Init PROVE StreamInv
  OBVIOUS
<1>1. Used = 0
  BY BufSizes DEF Init, Used, Dist
<1>2. StaleFlag /\ SnapshotHeld /\ CopiedInOrder
  BY DEF Init, StaleFlag, SnapshotHeld, CopiedInOrder, NotReading
<1>3. nPut = 0
  BY DEF Init
<1>4. ContentsInOrder
  BY <1>1, <1>3 DEF ContentsInOrder, Cells
<1>5. QED
  BY <1>2, <1>4, TypeInit DEF StreamInv

\* With one reader, a block stays at the front of the ring while it is copied
\* outside the lock, neither overwritten by puts nor consumed, unless somebody
\* purges.  This is what makes copying without the mutex safe.
THEOREM BlockIsStable ==
  ASSUME SingleReader
  PROVE  Spec => []BlockStable
<1>1. StreamInv => BlockStable
  <2> SUFFICES ASSUME StreamInv, NEW r \in Readers,
                      rd[r].pc = "copy", rd[r].epoch = epoch
               PROVE  /\ rd[r].pull = m_nPull
                      /\ BlockSize(r) <= Used
                      /\ \A i \in 0..(BlockSize(r) - 1) :
                           m_pBuf[Cell(rd[r].pull, i)] = nPut - Used + 1 + i
    BY DEF BlockStable
  <2> USE StreamFacts DEF StreamInv
  <2>1. rd[r].pull = m_nPull /\ BlockSize(r) <= Used
    BY DEF SnapshotHeld, Cells
  <2>2. \A i \in 0..(BlockSize(r) - 1) : i \in Cells /\ i < Used
    BY <2>1, BufSizes DEF Cells
  <2>3. QED
    BY <2>1, <2>2 DEF ContentsInOrder
<1>2. StreamInv /\ [Next]_vars => StreamInv'
  BY StreamStep
<1>3. QED
  BY <1>1, <1>2, StreamInit, PTL DEF Spec

\* A reader's block is given up or delivered by its own second critical section.
LEMMA LeavingReader ==
  ASSUME TypeInv, [Next]_vars,
         NEW r \in Readers, rd[r].pc = "copy", rd'[r].pc = "idle"
  PROVE  get_Leave(r)
<1>1. PICK s \in Readers : get_Enter(s) \/ get_Copy(s) \/ get_Leave(s)
  BY DEF Next, put_TsStream, put_Resume, put_SpuriousWake, RecvThread_End,
         RecvThread_Start, purge_TsStream, RequestShutdown, ResetShutdown,
         Wait_TsStream, Wait_Return, get_Bitrate_Sample, get_Bitrate_Update,
         Tick, vars
<1>2. rd \in [Readers -> [pc : {"idle", "copy"}, push : Cells, pull : Cells,
                         k : 0..DATA_BUF_SIZE, epoch : 0..MaxPurges]]
  BY DEF TypeInv, TypeOK, BlockTypeOK
<1>3. s = r /\ ~get_Enter(s) /\ ~get_Copy(s)
  BY <1>1, <1>2 DEF get_Enter, get_Copy, get_Leave
<1>4. QED
  BY <1>1, <1>3

\* What a get that no purge overtook takes: its block, the first bytes of the
\* contents.
LEMMA LeaveTakes ==
  ASSUME StreamInv, NEW r \in Readers, get_Leave(r), ~m_bPurge
  PROVE  /\ BlockSize(r) <= Used /\ Used' = Used - BlockSize(r)
         /\ \A i \in 1..BlockSize(r) : m_pDst[i - 1] = (nPut - Used) + i
<1> DEFINE n == BlockSize(r)
<1>1. /\ Used \in Cells /\ Used \in Nat /\ nPut \in Nat
      /\ m_nPush \in Cells /\ m_nPull \in Cells
      /\ n \in Cells /\ n \in Nat /\ Dist(rd[r].push, rd[r].pull) \in Cells
      /\ n <= Dist(rd[r].push, rd[r].pull)
  BY StreamFacts DEF StreamInv, Cells
<1>2. /\ rd[r].pc = "copy" /\ rd[r].k = n /\ rd[r].epoch = epoch
      /\ UNCHANGED <<m_nPush, nPut>>
      /\ m_nPull' = IF n > 0 THEN NextPull(rd[r].pull, n) ELSE m_nPull
  BY DEF get_Leave, PurgedMeanwhile, StreamInv, StaleFlag
<1> HIDE DEF n
<1>3. rd[r].pull = m_nPull /\ n <= Used
  BY <1>1, <1>2 DEF StreamInv, SnapshotHeld, Cells
<1>4. Used' = Used - n
  <2>1. CASE n > 0
    <3>1. m_nPull' = Cell(m_nPull, n)
      BY <1>1, <1>2, <1>3, <2>1, NextIsCell
    <3>2. n <= Dist(m_nPush, m_nPull)
      BY <1>3 DEF Used
    <3>3. Dist(m_nPush, Cell(m_nPull, n)) = Dist(m_nPush, m_nPull) - n
      BY <1>1, <3>2, PullShrinks
    <3>4. QED
      BY <1>2, <3>1, <3>3 DEF Used
  <2>2. CASE n = 0
    <3>1. Used' = Used
      BY <1>2, <2>2 DEF Used
    <3>2. QED
      BY <1>1, <2>2, <3>1
  <2>3. QED
    BY <1>1, <2>1, <2>2
<1>5. ASSUME NEW i \in 1..n
      PROVE  m_pDst[i - 1] = (nPut - Used) + i
  <2>1. i - 1 \in Cells /\ i - 1 < n
    BY <1>1, BufSizes DEF Cells
  <2>2. m_pDst[i - 1] = nPut - Used + 1 + (i - 1)
    BY <1>2, <2>1 DEF StreamInv, CopiedInOrder
  <2>3. QED
    BY <1>1, <2>2
<1>6. QED
  BY <1>3, <1>4, <1>5 DEF n

\* With one reader, a get that a purge overtook gives its block up and leaves
\* m_nPull alone.
THEOREM PurgeAlwaysWins ==
  ASSUME SingleReader
  PROVE  Spec => PurgeWins
<1> DEFINE A == \A r \in Readers :
                  rd[r].pc = "copy" /\ rd'[r].pc = "idle" /\ rd[r].epoch # epoch
                    => got'[r] = Refused /\ m_nPull' = m_nPull
<1>1. ASSUME StreamInv, [Next]_vars PROVE A
  <2> SUFFICES ASSUME NEW r \in Readers, rd[r].pc = "copy", rd'[r].pc = "idle",
                      rd[r].epoch # epoch
               PROVE  got'[r] = Refused /\ m_nPull' = m_nPull
    OBVIOUS
  <2>1. m_bPurge
    BY <1>1 DEF StreamInv, StaleFlag
  <2>3. get_Leave(r)
    BY <1>1, LeavingReader DEF StreamInv
  <2>4. got \in [Readers -> [ok : BOOLEAN, data : Seq(0..MaxBytes)]]
    BY <1>1 DEF StreamInv, TypeInv, TypeOK, BlockTypeOK
  <2>5. got' = [got EXCEPT ![r] = Refused] /\ m_nPull' = m_nPull
    BY <2>1, <2>3 DEF get_Leave, PurgedMeanwhile
  <2>6. QED
    BY <2>4, <2>5
<1>2. StreamInv /\ [Next]_vars => [A]_vars
  BY <1>1
<1>3. StreamInv /\ [Next]_vars => StreamInv'
  BY StreamStep
<1>4. QED
  BY <1>2, <1>3, StreamInit, PTL DEF Spec, PurgeWins

----------------------------------------------------------------------------
(* The ring implements the FIFO of module TsFifo.                          *)

\* The n bytes of the stream that follow byte a.
Run(a, n) == [i \in 1..n |-> a + i]

\* A run of consecutive numbers, and how long it is.
LEMMA RunLen ==
  ASSUME NEW a \in Int, NEW m \in Nat
  PROVE  Run(a, m) \in Seq(Int) /\ Len(Run(a, m)) = m
<1>1. Run(a, m) \in [1..m -> Int]
  BY DEF Run
<1>2. QED
  BY <1>1, FunctionIsSeq DEF Run

\* Two runs that follow each other are one run.
LEMMA RunConcat ==
  ASSUME NEW a \in Int, NEW m \in Nat, NEW n \in Nat
  PROVE  Run(a, m) \o Run(a + m, n) = Run(a, m + n)
<1>1. /\ Run(a, m) \in Seq(Int) /\ Len(Run(a, m)) = m
      /\ Run(a + m, n) \in Seq(Int) /\ Len(Run(a + m, n)) = n
      /\ Run(a, m + n) \in Seq(Int) /\ Len(Run(a, m + n)) = m + n
  BY RunLen
<1>2. ASSUME NEW i \in 1..(m + n)
      PROVE  (Run(a, m) \o Run(a + m, n))[i] = Run(a, m + n)[i]
  BY <1>1 DEF Run
<1>3. /\ Run(a, m) \o Run(a + m, n) \in Seq(Int)
      /\ Len(Run(a, m) \o Run(a + m, n)) = m + n
  <2>1. /\ Run(a, m) \in Seq(Int) /\ Run(a + m, n) \in Seq(Int)
    BY <1>1
  <2>2. QED
    BY <1>1, <2>1, ConcatProperties
<1>4. QED
  BY <1>1, <1>2, <1>3, SeqEqual

\* A run splits into its front and its rest.
LEMMA RunSplit ==
  ASSUME NEW a \in Int, NEW m \in Nat, NEW n \in 0..m
  PROVE  /\ SubSeq(Run(a, m), 1, n) = Run(a, n)
         /\ SubSeq(Run(a, m), n + 1, m) = Run(a + n, m - n)
<1>1. Run(a, m) \in Seq(Int) /\ Len(Run(a, m)) = m
  BY RunLen
<1>2. SubSeq(Run(a, m), 1, n) = Run(a, n)
  BY <1>1 DEF Run
<1>3. SubSeq(Run(a, m), n + 1, m) = Run(a + n, m - n)
  BY <1>1 DEF Run
<1>4. QED
  BY <1>2, <1>3

\* The contents of the ring are the last bytes stored, in order.
LEMMA ContentsAreRun == StreamInv => Contents = Run(nPut - Used, Used)
<1> SUFFICES ASSUME StreamInv PROVE Contents = Run(nPut - Used, Used)
  OBVIOUS
<1>1. Used \in Cells /\ nPut \in Nat
  BY StreamFacts DEF StreamInv
<1>2. ASSUME NEW i \in 1..Used
      PROVE  m_pBuf[Cell(m_nPull, i - 1)] = (nPut - Used) + i
  <2>1. i - 1 \in Cells /\ i - 1 < Used
    BY <1>1, BufSizes DEF Cells
  <2>2. m_pBuf[Cell(m_nPull, i - 1)] = nPut - Used + 1 + (i - 1)
    BY <2>1 DEF StreamInv, ContentsInOrder
  <2>3. QED
    BY <1>1, <2>2 DEF Cells
<1>3. QED
  BY <1>2 DEF Contents, Run

\* A put that finds room appends its bytes.
LEMMA StoreIsPut ==
  ASSUME StreamInv, StreamInv', NEW n \in 1..DATA_BUF_SIZE, Avail >= n, Store(n),
         UNCHANGED got
  PROVE  Fifo!Put(n)
<1>1. /\ Used \in Nat /\ nPut \in Nat /\ n \in Cells /\ n \in Nat
      /\ m_nPush \in Cells /\ m_nPull \in Cells
  BY StreamFacts, BufSizes DEF StreamInv, Cells
<1>2. nPut' = nPut + n /\ m_nPush' = Cell(m_nPush, n) /\ m_nPull' = m_nPull
  BY <1>1, NextIsCell DEF Store
<1>3. Used' = Used + n
  BY <1>1, <1>2, PushGrows DEF Used, Avail
<1>4. Contents = Run(nPut - Used, Used) /\ Contents' = Run(nPut' - Used', Used')
  <2>1. (StreamInv => Contents = Run(nPut - Used, Used))'
    BY ContentsAreRun, PTL
  <2>2. QED
    BY <2>1, ContentsAreRun
<1>5. Contents' = Run(nPut - Used, Used + n)
  <2>1. nPut' - Used' = nPut - Used
    BY <1>1, <1>2, <1>3
  <2>2. QED
    BY <1>3, <1>4, <2>1
<1>6. Contents' = Contents \o Run(nPut, n)
  <2>1. (nPut - Used) + Used = nPut /\ nPut - Used \in Int
    BY <1>1
  <2>2. QED
    BY <1>1, <1>4, <1>5, <2>1, RunConcat
<1>7. Len(Contents) + n <= RING_BUF_SIZE - 1
  BY <1>1, <1>4, RunLen, BufSizes DEF Avail
<1>8. QED
  BY <1>2, <1>6, <1>7 DEF Fifo!Put, Run

\* A get that no purge overtook takes its block off the front.
LEMMA LeaveIsGet ==
  ASSUME StreamInv, StreamInv', NEW r \in Readers, get_Leave(r), ~m_bPurge
  PROVE  Fifo!Get(r, BlockSize(r))
<1> DEFINE n == BlockSize(r)
           block == [i \in 1..n |-> m_pDst[i - 1]]
<1>1. Used \in Nat /\ nPut \in Nat /\ n \in Nat
  BY StreamFacts DEF StreamInv, Cells
<1>2. /\ UNCHANGED nPut
      /\ got' = [got EXCEPT ![r] = [ok |-> TRUE, data |-> block]]
  BY DEF get_Leave, PurgedMeanwhile
<1> HIDE DEF n
<1>3. n <= Used
  BY LeaveTakes DEF n
<1>4. Used' = Used - n
  BY LeaveTakes DEF n
<1>5. Contents = Run(nPut - Used, Used) /\ Contents' = Run(nPut' - Used', Used')
  <2>1. (StreamInv => Contents = Run(nPut - Used, Used))'
    BY ContentsAreRun, PTL
  <2>2. QED
    BY <2>1, ContentsAreRun
<1>6. Contents' = Run((nPut - Used) + n, Used - n)
  <2>1. nPut' - Used' = (nPut - Used) + n
    BY <1>1, <1>2, <1>4
  <2>2. QED
    BY <1>4, <1>5, <2>1
<1>7. block = Run(nPut - Used, n)
  <2>1. \A i \in 1..n : m_pDst[i - 1] = (nPut - Used) + i
    BY LeaveTakes DEF n
  <2>2. QED
    BY <2>1 DEF Run
<1>8. n \in 0..Used /\ Len(Contents) = Used /\ nPut - Used \in Int
  BY <1>1, <1>3, <1>5, RunLen
<1>9. /\ SubSeq(Contents, 1, n) = block
      /\ SubSeq(Contents, n + 1, Len(Contents)) = Contents'
  <2>1. /\ SubSeq(Run(nPut - Used, Used), 1, n) = Run(nPut - Used, n)
        /\ SubSeq(Run(nPut - Used, Used), n + 1, Used)
             = Run((nPut - Used) + n, Used - n)
    BY <1>1, <1>8, RunSplit
  <2>2. QED
    BY <1>5, <1>6, <1>7, <1>8, <2>1
<1> HIDE DEF block
<1>10. Fifo!Get(r, n)
  <2>1. n <= Len(Contents)
    BY <1>1, <1>3, <1>8
  <2>2. UNCHANGED nPut
    BY <1>2
  <2>3. got' = [got EXCEPT ![r] = [ok |-> TRUE, data |-> SubSeq(Contents, 1, n)]]
    BY <1>2, <1>9
  <2>4. QED
    BY <1>9, <2>1, <2>2, <2>3, Zenon DEF Fifo!Get
<1>11. QED
  BY <1>10 DEF n

\* Every step of the ring is a step of the FIFO or leaves it unchanged.
LEMMA FifoStep ==
  ASSUME StreamInv, SingleReader, [Next]_vars
  PROVE  [Fifo!Next]_Fifo!fifoVars
<1> USE DEF Fifo!fifoVars
<1>1. StreamInv'
  BY StreamStep
<1>2. CASE UNCHANGED <<m_pBuf, m_nPush, m_nPull, nPut, got>>
  BY <1>2 DEF Contents, Used
<1>3. ASSUME NEW n \in 1..DATA_BUF_SIZE, PutTurn(n), UNCHANGED got
      PROVE  [Fifo!Next]_Fifo!fifoVars
  <2>1. CASE Avail >= n /\ Store(n)
    BY <1>1, <1>3, <2>1, StoreIsPut DEF Fifo!Next
  <2>2. CASE ~(Avail >= n /\ Store(n))
    BY <1>2, <1>3, <2>2 DEF PutTurn, ring
  <2>3. QED
    BY <2>1, <2>2
<1>4. ASSUME NEW n \in 1..DATA_BUF_SIZE, put_TsStream(n)
      PROVE  [Fifo!Next]_Fifo!fifoVars
  BY <1>3, <1>4 DEF put_TsStream
<1>5. CASE put_Resume
  BY <1>3, <1>5 DEF put_Resume, StreamInv, TypeInv, PutFits
<1>6. ASSUME NEW r \in Readers, got' = [got EXCEPT ![r] = Refused],
             UNCHANGED <<m_pBuf, m_nPush, m_nPull, nPut>>
      PROVE  [Fifo!Next]_Fifo!fifoVars
  <2>1. Contents' = Contents
    BY <1>6 DEF Contents, Used
  <2>2. Fifo!Refuse(r)
    BY <1>6, <2>1 DEF Fifo!Refuse, Fifo!Refused, Refused
  <2>3. QED
    BY <2>2 DEF Fifo!Next
<1>7. ASSUME NEW r \in Readers, get_Enter(r) PROVE [Fifo!Next]_Fifo!fifoVars
  BY <1>2, <1>6, <1>7 DEF get_Enter, ring
<1>8. ASSUME NEW r \in Readers, get_Leave(r) PROVE [Fifo!Next]_Fifo!fifoVars
  <2>1. CASE m_bPurge
    BY <1>6, <1>8, <2>1 DEF get_Leave, PurgedMeanwhile
  <2>2. CASE ~m_bPurge
    <3>1. BlockSize(r) \in 0..DATA_BUF_SIZE
      BY StreamFacts DEF StreamInv
    <3>2. QED
      BY <1>1, <1>8, <2>2, <3>1, LeaveIsGet DEF Fifo!Next
  <2>3. QED
    BY <2>1, <2>2
<1>9. CASE purge_TsStream
  <2>1. Used' = 0 /\ UNCHANGED <<nPut, got>>
    BY <1>9, BufSizes DEF purge_TsStream, Used, Dist
  <2>2. Contents' = << >>
    BY <2>1 DEF Contents
  <2>3. QED
    BY <2>1, <2>2 DEF Fifo!Next, Fifo!Purge
<1>10. QED
  BY <1>2, <1>4, <1>5, <1>7, <1>8, <1>9
     DEF Next, put_SpuriousWake, RecvThread_End, RecvThread_Start, get_Copy,
         RequestShutdown, ResetShutdown, Wait_TsStream, Wait_Return,
         get_Bitrate_Sample, get_Bitrate_Update, Tick, vars, ring

\* With one reader, the ring implements the bounded FIFO: whatever the
\* interleaving of puts, of the steps of a get and of purges, no byte is lost,
\* repeated, reordered or handed out after a purge.
THEOREM RingIsFifo ==
  ASSUME SingleReader
  PROVE  Spec => FifoSpec
<1>1. Init => Fifo!Init
  <2> SUFFICES ASSUME Init PROVE Fifo!Init
    OBVIOUS
  <2>1. Used = 0
    BY BufSizes DEF Init, Used, Dist
  <2>2. Contents = << >>
    BY <2>1 DEF Contents
  <2>3. QED
    BY <2>2 DEF Init, Fifo!Init, Fifo!Refused, Refused
<1>2. StreamInv /\ [Next]_vars => StreamInv' /\ [Fifo!Next]_Fifo!fifoVars
  BY StreamStep, FifoStep
<1>3. QED
  BY <1>1, <1>2, StreamInit, PTL DEF Spec, FifoSpec, Fifo!Spec

----------------------------------------------------------------------------
(* Wait_TsStream with one waiter, get_Bitrate with one meter.              *)

SingleWaiter == \A w, v \in Waiters : w = v

SingleMeter == \A m, k \in Meters : m = k

\* Every step that brings data wakes the waiter, if there is one.
LEMMA DataSignalStep ==
  ASSUME StreamInv, NoLostDataSignal, SingleReader, SingleWaiter, [Next]_vars
  PROVE  NoLostDataSignal'
<1>1. /\ Used \in Nat
      /\ wait \in [Waiters -> [pc : {"idle", "blocked", "woken"},
                               ret : {"none", "WAIT_OBJECT_0", "WAIT_TIMEOUT"}]]
  BY StreamFacts DEF StreamInv, TypeInv, TypeOK, ThreadTypeOK
<1>2. CASE UNCHANGED <<m_nPush, m_nPull, wait>>
  BY <1>2 DEF NoLostDataSignal, Used
<1>3. CASE \A w \in Waiters : wait'[w].pc # "blocked"
  BY <1>3 DEF NoLostDataSignal
<1>4. ASSUME NEW n \in 1..DATA_BUF_SIZE, PutTurn(n) PROVE NoLostDataSignal'
  <2>1. CASE Store(n)
    <3> DEFINE blocked == {w \in Waiters : wait[w].pc = "blocked"}
    <3>1. CASE blocked = {}
      BY <1>3, <2>1, <3>1 DEF Store, SignalStream
    <3>2. CASE blocked # {}
      <4>1. PICK w \in blocked : wait' = [wait EXCEPT ![w].pc = "woken"]
        BY <2>1, <3>2 DEF Store, SignalStream
      <4>2. wait'[w].pc = "woken" /\ \A v \in Waiters : v = w
        BY <1>1, <4>1 DEF SingleWaiter
      <4>3. QED
        BY <1>3, <4>2
    <3>3. QED
      BY <3>1, <3>2
  <2>2. CASE ~Store(n)
    BY <1>2, <1>4, <2>2 DEF PutTurn, ring
  <2>3. QED
    BY <2>1, <2>2
<1>5. ASSUME NEW n \in 1..DATA_BUF_SIZE, put_TsStream(n) PROVE NoLostDataSignal'
  BY <1>4, <1>5 DEF put_TsStream
<1>6. CASE put_Resume
  BY <1>4, <1>6 DEF put_Resume, StreamInv, TypeInv, PutFits
<1>7. ASSUME NEW r \in Readers, get_Leave(r) PROVE NoLostDataSignal'
  <2>1. UNCHANGED <<m_nPush, wait>>
    BY <1>7 DEF get_Leave
  <2>2. CASE m_nPull' = m_nPull
    BY <1>2, <2>1, <2>2
  <2>3. CASE m_nPull' # m_nPull
    <3>1. ~m_bPurge /\ BlockSize(r) > 0 /\ rd[r].pc = "copy"
      BY <1>7, <2>3 DEF get_Leave, PurgedMeanwhile
    <3>2. rd[r].epoch = epoch
      BY <3>1 DEF StreamInv, StaleFlag
    <3>3. /\ Dist(rd[r].push, rd[r].pull) <= Used
          /\ Dist(rd[r].push, rd[r].pull) \in Cells
          /\ BlockSize(r) <= Dist(rd[r].push, rd[r].pull)
          /\ BlockSize(r) \in 0..DATA_BUF_SIZE
      BY <3>1, <3>2, StreamFacts DEF StreamInv, SnapshotHeld
    <3>4. Used # 0
      BY <1>1, <3>1, <3>3, BufSizes DEF Cells
    <3>5. QED
      BY <1>3, <2>1, <3>4 DEF NoLostDataSignal
  <2>4. QED
    BY <2>2, <2>3
<1>8. CASE purge_TsStream
  <2>1. Used' = 0
    BY <1>8, BufSizes DEF purge_TsStream, Used, Dist
  <2>2. QED
    BY <2>1 DEF NoLostDataSignal
<1>9. ASSUME NEW w \in Waiters, Wait_TsStream(w) PROVE NoLostDataSignal'
  <2>1. Used' = Used
    BY <1>9 DEF Wait_TsStream, ring, Used
  <2>2. CASE Used = 0
    BY <2>1, <2>2 DEF NoLostDataSignal
  <2>3. CASE Used # 0
    <3>1. ReadyCount # 0
      BY <1>1, <2>3, ReadyCountZero DEF ReadyCount
    <3>2. wait' = [wait EXCEPT ![w].ret = "WAIT_OBJECT_0"]
      BY <1>9, <3>1 DEF Wait_TsStream
    <3>3. \A v \in Waiters : wait'[v].pc = wait[v].pc
      BY <1>1, <3>2
    <3>4. QED
      BY <2>1, <3>3 DEF NoLostDataSignal
  <2>4. QED
    BY <2>2, <2>3
<1>10. ASSUME NEW w \in Waiters, Wait_Return(w) PROVE NoLostDataSignal'
  <2>1. Used' = Used
    BY <1>10 DEF Wait_Return, ring, Used
  <2>2. \A v \in Waiters : wait'[v].pc = "blocked" => wait[v].pc = "blocked"
    BY <1>1, <1>10 DEF Wait_Return
  <2>3. QED
    BY <2>1, <2>2 DEF NoLostDataSignal
<1>11. QED
  BY <1>2, <1>5, <1>6, <1>7, <1>8, <1>9, <1>10
     DEF Next, put_SpuriousWake, RecvThread_End, RecvThread_Start, get_Enter,
         get_Copy, RequestShutdown, ResetShutdown, get_Bitrate_Sample,
         get_Bitrate_Update, Tick, vars, ring

\* With one reader and one waiter, no thread sits in WaitTsStream, to time out
\* there, while the ring holds data.
THEOREM DataSignalKept ==
  ASSUME SingleReader, SingleWaiter
  PROVE  Spec => []NoLostDataSignal
<1>1. Init => NoLostDataSignal
  BY DEF Init, NoLostDataSignal
<1>2. StreamInv /\ NoLostDataSignal /\ [Next]_vars => StreamInv' /\ NoLostDataSignal'
  BY StreamStep, DataSignalStep
<1>3. QED
  BY <1>1, <1>2, StreamInit, PTL DEF Spec

\* The clock, the sampled times and the end of the last window, in order.
ClockInv ==
  /\ TypeInv
  /\ m_ui64LastTime <= now
  /\ \A m \in Meters : meter[m].pc = "sampled" =>
       m_ui64LastTime <= meter[m].at /\ meter[m].at <= now

\* Every step keeps the sampled time at or after the end of the last window.
LEMMA ClockStep ==
  ASSUME ClockInv, SingleMeter, [Next]_vars
  PROVE  ClockInv'
<1>1. /\ m_ui64LastTime \in Nat /\ now \in Nat
      /\ meter \in [Meters -> [pc : {"idle", "sampled"}, at : 0..MaxNow]]
  BY Clock DEF ClockInv, TypeInv, TypeOK, RateTypeOK
<1>2. TypeInv'
  BY TypeStep DEF ClockInv
<1>3. CASE UNCHANGED <<m_ui64LastTime, meter, now>>
  BY <1>2, <1>3 DEF ClockInv
<1>4. ASSUME NEW m \in Meters, get_Bitrate_Sample(m) PROVE ClockInv'
  <2>1. /\ meter' = [meter EXCEPT ![m] = [pc |-> "sampled", at |-> now]]
        /\ UNCHANGED <<m_ui64LastTime, now>>
    BY <1>4 DEF get_Bitrate_Sample
  <2>2. QED
    BY <1>1, <1>2, <2>1 DEF ClockInv
<1>5. ASSUME NEW m \in Meters, get_Bitrate_Update(m) PROVE ClockInv'
  <2>1. meter'[m].pc = "idle" /\ \A k \in Meters : k = m
    BY <1>1, <1>5 DEF get_Bitrate_Update, NoSample, SingleMeter
  <2>2. meter[m].at <= now /\ now' = now
    BY <1>5 DEF get_Bitrate_Update, ClockInv
  <2>3. m_ui64LastTime' \in {m_ui64LastTime, meter[m].at}
    BY <1>5 DEF get_Bitrate_Update
  <2>4. QED
    BY <1>2, <2>1, <2>2, <2>3 DEF ClockInv
<1>6. CASE Tick
  <2>1. now' = now + 1 /\ UNCHANGED <<m_ui64LastTime, meter>>
    BY <1>6 DEF Tick
  <2>2. \A m \in Meters : meter[m].at \in Nat
    BY <1>1, Clock
  <2>3. QED
    BY <1>1, <1>2, <2>1, <2>2 DEF ClockInv
<1>7. QED
  BY <1>3, <1>4, <1>5, <1>6
     DEF Next, put_TsStream, put_Resume, put_SpuriousWake, RecvThread_End,
         RecvThread_Start, get_Enter, get_Copy, get_Leave, purge_TsStream,
         RequestShutdown, ResetShutdown, Wait_TsStream, Wait_Return, vars, rate

\* With one thread in GetSignalLevel at a time, the time of a window is never
\* computed as a wrapped-around unsigned difference.
THEOREM ClockNeverUnderflows ==
  ASSUME SingleMeter
  PROVE  Spec => []NoClockUnderflow
<1>1. Init => ClockInv
  BY TypeInit, Clock DEF Init, ClockInv, NoSample
<1>2. ClockInv /\ [Next]_vars => ClockInv'
  BY ClockStep
<1>3. ClockInv => NoClockUnderflow
  BY DEF ClockInv, NoClockUnderflow
<1>4. QED
  BY <1>1, <1>2, <1>3, PTL DEF Spec

=============================================================================
