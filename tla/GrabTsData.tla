----------------------------- MODULE GrabTsData -----------------------------
(***************************************************************************)
(* class GrabTsData (src/src/GrabTsData.hpp, GrabTsData.cpp): the ring     *)
(* buffer between the receive thread, which puts the TS bytes it reads     *)
(* from the socket, and the host's threads, which wait for data, take      *)
(* blocks, purge, and ask for the bit rate.                                *)
(*                                                                         *)
(* Every access to the indices and flags is made under m_pRingMutex, so a  *)
(* critical section is one action.  The copy of get_TsStream is made with  *)
(* the mutex released, so a get is several actions: Enter (first critical  *)
(* section), Copy (one byte at a time), Leave (second critical section).   *)
(* A pthread_cond_wait is two: the thread blocks, and after a signal or a  *)
(* spurious wakeup it goes on once it holds the mutex again.               *)
(*                                                                         *)
(* Bytes are numbered 1, 2, ... in the order put_TsStream stored them;     *)
(* cell 0 stands for memory nobody has written.                            *)
(***************************************************************************)
EXTENDS Integers, Sequences

CONSTANTS
  RING_BUF_SIZE,  \* cells of m_pBuf
  DATA_BUF_SIZE,  \* cells of m_pDst; also the receive thread's buffer
  Readers,        \* threads that call get_TsStream
  Waiters,        \* threads that call Wait_TsStream
  Meters,         \* threads that call get_Bitrate
  BITRATE_PERIOD, \* clock ticks in the 1000 ms of get_Bitrate
  TICK_WORD,      \* the modulus of the unsigned clock arithmetic (2^64)
  MaxBytes,       \* bound: bytes the stream carries
  MaxPurges,      \* bound: calls of purge_TsStream
  MaxNow          \* bound: clock ticks

ASSUME BufSizes ==
  /\ DATA_BUF_SIZE \in Nat \ {0}
  /\ RING_BUF_SIZE \in Nat
  /\ DATA_BUF_SIZE < RING_BUF_SIZE

ASSUME Clock ==
  /\ BITRATE_PERIOD \in Nat \ {0}
  /\ TICK_WORD \in Nat \ {0}
  /\ MaxNow \in Nat /\ MaxNow < TICK_WORD

ASSUME Bounds == MaxBytes \in Nat /\ MaxPurges \in Nat

VARIABLES
  m_pBuf, m_nPush, m_nPull,       \* the ring
  m_pDst, m_bReading,             \* the block handed out, and its guard
  m_bPurge, m_bShutdown,          \* flags
  m_nAccumData, m_dBitrate, m_ui64LastTime,  \* bit rate; m_dBitrate is the
                                  \* pair (bytes, ticks) it is the quotient of
  snd,      \* the receive thread inside put_TsStream
  rd,       \* rd[r]: reader r inside get_TsStream
  wait,     \* wait[w]: waiter w inside Wait_TsStream, and its last result
  meter,    \* meter[m]: the clock value m has sampled in get_Bitrate
  now,      \* CLOCK_MONOTONIC
  nPut,     \* history: bytes stored so far
  epoch,    \* history: purges so far
  got       \* history: what the last get_TsStream of each reader returned

ring == <<m_pBuf, m_nPush, m_nPull, nPut, epoch>>
rate == <<m_nAccumData, m_dBitrate, m_ui64LastTime, meter, now>>
vars == <<ring, rate, m_pDst, m_bReading, m_bPurge, m_bShutdown,
          snd, rd, wait, got>>

----------------------------------------------------------------------------
(* Index arithmetic.  Every sum is below 2 * RING_BUF_SIZE, far from the   *)
(* width of DWORD.                                                         *)

Cells == 0..(RING_BUF_SIZE - 1)

\* Steps from index b forward to index a, around the ring.
Dist(a, b) == (RING_BUF_SIZE + a - b) % RING_BUF_SIZE

\* The cell i steps after index p: where the two memcpy calls, up to the end
\* of the buffer and from its start, put or find byte i.
Cell(p, i) == IF i < RING_BUF_SIZE - p THEN p + i ELSE i - (RING_BUF_SIZE - p)

Used == Dist(m_nPush, m_nPull)

\* nAvail.  The clamp of lines 41-43 never fires: Used is below RING_BUF_SIZE.
Avail_Full == RING_BUF_SIZE - Used
Avail == (RING_BUF_SIZE - 1) - Used

\* The new m_nPush after storing n bytes from p on.
NextPush(p, n) ==
  LET nTail == RING_BUF_SIZE - p IN
  IF n <= nTail THEN (IF p + n >= RING_BUF_SIZE THEN 0 ELSE p + n)
                ELSE n - nTail

\* The new m_nPull after taking n bytes from p on.
NextPull_NoWrap(p, n) ==
  IF n <= RING_BUF_SIZE - p THEN p + n ELSE n - (RING_BUF_SIZE - p)
NextPull(p, n) ==
  IF n < RING_BUF_SIZE - p THEN p + n ELSE n - (RING_BUF_SIZE - p)

\* CEIL(used, DATA_BUF_SIZE): what get_ReadyCount returns.
ReadyCount == (Used + DATA_BUF_SIZE - 1) \div DATA_BUF_SIZE

----------------------------------------------------------------------------
(* The two condition variables.                                            *)

\* pthread_cond_signal(&m_phOnStreamGetEvent): only the receive thread waits.
SignalGet_Lost(s) == s
SignalGet(s) == IF s.pc = "blocked" THEN [s EXCEPT !.pc = "woken"] ELSE s

\* pthread_cond_signal(&m_phOnStreamEvent): one of the waiters, if any.
SignalStream_Lost == UNCHANGED wait
SignalStream ==
  LET blocked == {w \in Waiters : wait[w].pc = "blocked"} IN
  IF blocked = {} THEN UNCHANGED wait
  ELSE \E w \in blocked : wait' = [wait EXCEPT ![w].pc = "woken"]

----------------------------------------------------------------------------
(* put_TsStream, called by the receive thread only.                        *)

Running == [pc |-> "run", size |-> 0]
Gone    == [pc |-> "gone", size |-> 0]

\* The locked part once there is room: copy, advance, signal.
Store(n) ==
  /\ m_nAccumData' = m_nAccumData + n
  /\ m_pBuf' = [c \in Cells |-> IF Dist(c, m_nPush) < n
                                THEN nPut + 1 + Dist(c, m_nPush)
                                ELSE m_pBuf[c]]
  /\ m_nPush' = NextPush(m_nPush, n)
  /\ nPut' = nPut + n
  /\ snd' = Running
  /\ SignalStream
  /\ UNCHANGED <<m_nPull, epoch>>

\* One turn of the wait loop, with the mutex held: store, give up on a
\* shutdown request (put returns FALSE and RecvThread leaves its loop), or
\* block.
PutTurn_IgnoreShutdown(n) ==
  \/ Avail >= n /\ Store(n)
  \/ /\ Avail < n
     /\ snd' = [pc |-> "blocked", size |-> n]
     /\ UNCHANGED <<ring, m_nAccumData, wait>>

PutTurn(n) ==
  \/ Avail >= n /\ Store(n)
  \/ /\ Avail < n
     /\ snd' = IF m_bShutdown THEN Gone ELSE [pc |-> "blocked", size |-> n]
     /\ UNCHANGED <<ring, m_nAccumData, wait>>

put_TsStream(n) ==
  /\ snd.pc = "run"
  /\ nPut + n <= MaxBytes
  /\ PutTurn(n)
  /\ UNCHANGED <<m_dBitrate, m_ui64LastTime, meter, now>>
  /\ UNCHANGED <<m_pDst, m_bReading, m_bPurge, m_bShutdown, rd, got>>

\* pthread_cond_wait returned; the loop is run again.
put_Resume ==
  /\ snd.pc = "woken"
  /\ PutTurn(snd.size)
  /\ UNCHANGED <<m_dBitrate, m_ui64LastTime, meter, now>>
  /\ UNCHANGED <<m_pDst, m_bReading, m_bPurge, m_bShutdown, rd, got>>

put_SpuriousWake ==
  /\ snd.pc = "blocked"
  /\ snd' = [snd EXCEPT !.pc = "woken"]
  /\ UNCHANGED <<ring, rate, m_pDst, m_bReading, m_bPurge, m_bShutdown,
                 rd, wait, got>>

\* RecvThread leaves its loop: recvBody returned 0 or an error.
RecvThread_End ==
  /\ snd.pc = "run"
  /\ snd' = Gone
  /\ UNCHANGED <<ring, rate, m_pDst, m_bReading, m_bPurge, m_bShutdown,
                 rd, wait, got>>

\* pthread_create of the next session's receive thread.  SetChannel clears the
\* shutdown request and purges before; nothing here depends on it, so it is
\* not required (module CBonTuner does what SetChannel does).
RecvThread_Start ==
  /\ snd.pc = "gone"
  /\ snd' = Running
  /\ UNCHANGED <<ring, rate, m_pDst, m_bReading, m_bPurge, m_bShutdown,
                 rd, wait, got>>

----------------------------------------------------------------------------
(* get_TsStream, called by any thread of the host.                         *)

NotReading == [pc |-> "idle", push |-> 0, pull |-> 0, k |-> 0, epoch |-> 0]
Refused    == [ok |-> FALSE, data |-> << >>]

\* nData: the size of the block reader r is copying.
BlockSize(r) ==
  LET n == Dist(rd[r].push, rd[r].pull) IN
  IF n < DATA_BUF_SIZE THEN n ELSE DATA_BUF_SIZE

\* m_bReading keeps a second reader out of m_pDst.
GuardFree_None == TRUE
GuardFree == ~m_bReading

\* First critical section: tell of a purge once, refuse a second reader, or
\* take the guard and a snapshot of the indices.
get_Enter(r) ==
  /\ rd[r].pc = "idle"
  /\ \/ /\ m_bPurge
        /\ m_bPurge' = FALSE
        /\ got' = [got EXCEPT ![r] = Refused]
        /\ UNCHANGED <<m_bReading, rd>>
     \/ /\ ~m_bPurge /\ ~GuardFree
        /\ got' = [got EXCEPT ![r] = Refused]
        /\ UNCHANGED <<m_bPurge, m_bReading, rd>>
     \/ /\ ~m_bPurge /\ GuardFree
        /\ m_bReading' = TRUE
        /\ rd' = [rd EXCEPT ![r] = [pc |-> "copy", push |-> m_nPush,
                                    pull |-> m_nPull, k |-> 0,
                                    epoch |-> epoch]]
        /\ UNCHANGED <<m_bPurge, got>>
  /\ UNCHANGED <<ring, rate, m_pDst, m_bShutdown, snd, wait>>

\* The copy to m_pDst, with the mutex released.
get_Copy(r) ==
  /\ rd[r].pc = "copy" /\ rd[r].k < BlockSize(r)
  /\ m_pDst' = [m_pDst EXCEPT ![rd[r].k] = m_pBuf[Cell(rd[r].pull, rd[r].k)]]
  /\ rd' = [rd EXCEPT ![r].k = @ + 1]
  /\ UNCHANGED <<ring, rate, m_bReading, m_bPurge, m_bShutdown,
                 snd, wait, got>>

\* A get that finds m_bPurge set throws its block away and leaves m_nPull
\* alone; the flag stays for the next call.
PurgedMeanwhile_Ignored == FALSE
PurgedMeanwhile == m_bPurge

\* Second critical section.
get_Leave(r) ==
  /\ rd[r].pc = "copy" /\ rd[r].k = BlockSize(r)
  /\ m_bReading' = FALSE
  /\ rd' = [rd EXCEPT ![r] = NotReading]
  /\ \/ /\ PurgedMeanwhile
        /\ got' = [got EXCEPT ![r] = Refused]
        /\ UNCHANGED <<m_nPull, snd>>
     \/ /\ ~PurgedMeanwhile
        /\ LET n == BlockSize(r) IN
           /\ m_nPull' = IF n > 0 THEN NextPull(rd[r].pull, n) ELSE m_nPull
           /\ snd' = IF n > 0 THEN SignalGet(snd) ELSE snd
           /\ got' = [got EXCEPT ![r] =
                        [ok |-> TRUE, data |-> [i \in 1..n |-> m_pDst[i - 1]]]]
  /\ UNCHANGED <<m_pBuf, m_nPush, nPut, epoch, rate, m_pDst, m_bPurge,
                 m_bShutdown, wait>>

----------------------------------------------------------------------------
(* purge_TsStream and the shutdown request.                                *)

purge_TsStream ==
  /\ epoch < MaxPurges
  /\ m_nPull' = 0 /\ m_nPush' = 0
  /\ m_nAccumData' = 0
  /\ m_bPurge' = TRUE
  /\ snd' = SignalGet(snd)
  /\ epoch' = epoch + 1
  /\ UNCHANGED <<m_pBuf, nPut, m_dBitrate, m_ui64LastTime, meter, now>>
  /\ UNCHANGED <<m_pDst, m_bReading, m_bShutdown, rd, wait, got>>

RequestShutdown ==
  /\ m_bShutdown' = TRUE
  /\ snd' = SignalGet(snd)
  /\ UNCHANGED <<ring, rate, m_pDst, m_bReading, m_bPurge, rd, wait, got>>

\* waitForRecvThreadFinish calls it after pthread_join: the thread is gone.
ResetShutdown ==
  /\ snd.pc = "gone"
  /\ m_bShutdown' = FALSE
  /\ UNCHANGED <<ring, rate, m_pDst, m_bReading, m_bPurge, snd, rd, wait, got>>

----------------------------------------------------------------------------
(* Wait_TsStream.  The deadline may pass at any moment of the wait.        *)

\* The count and the wait are one critical section (the mutex is recursive).
Wait_TsStream(w) ==
  /\ wait[w].pc = "idle"
  /\ wait' = [wait EXCEPT ![w] = IF ReadyCount = 0
                                 THEN [@ EXCEPT !.pc = "blocked"]
                                 ELSE [@ EXCEPT !.ret = "WAIT_OBJECT_0"]]
  /\ UNCHANGED <<ring, rate, m_pDst, m_bReading, m_bPurge, m_bShutdown,
                 snd, rd, got>>

\* The timed wait ended: by a signal, spuriously, or at its deadline.
Wait_Return(w) ==
  /\ \/ /\ wait[w].pc \in {"woken", "blocked"}
        /\ wait' = [wait EXCEPT ![w] = [pc |-> "idle", ret |-> "WAIT_OBJECT_0"]]
     \/ /\ wait[w].pc = "blocked"
        /\ wait' = [wait EXCEPT ![w] = [pc |-> "idle", ret |-> "WAIT_TIMEOUT"]]
  /\ UNCHANGED <<ring, rate, m_pDst, m_bReading, m_bPurge, m_bShutdown,
                 snd, rd, got>>

----------------------------------------------------------------------------
(* get_Bitrate: the clock is read first, the mutex taken after.            *)

NoSample == [pc |-> "idle", at |-> 0]

get_Bitrate_Sample(m) ==
  /\ meter[m].pc = "idle"
  /\ meter' = [meter EXCEPT ![m] = [pc |-> "sampled", at |-> now]]
  /\ UNCHANGED <<ring, m_nAccumData, m_dBitrate, m_ui64LastTime, now, m_pDst,
                 m_bReading, m_bPurge, m_bShutdown, snd, rd, wait, got>>

Duration(m) == (meter[m].at - m_ui64LastTime) % TICK_WORD

get_Bitrate_Update_KeepCount(m) ==
  /\ meter[m].pc = "sampled"
  /\ meter' = [meter EXCEPT ![m] = NoSample]
  /\ IF Duration(m) >= BITRATE_PERIOD
     THEN /\ m_dBitrate' = [bytes |-> m_nAccumData, ticks |-> Duration(m)]
          /\ m_ui64LastTime' = meter[m].at
     ELSE UNCHANGED <<m_dBitrate, m_ui64LastTime>>
  /\ UNCHANGED <<ring, m_nAccumData, now, m_pDst, m_bReading, m_bPurge,
                 m_bShutdown, snd, rd, wait, got>>

get_Bitrate_Update(m) ==
  /\ meter[m].pc = "sampled"
  /\ meter' = [meter EXCEPT ![m] = NoSample]
  /\ IF Duration(m) >= BITRATE_PERIOD
     THEN /\ m_dBitrate' = [bytes |-> m_nAccumData, ticks |-> Duration(m)]
          /\ m_nAccumData' = 0
          /\ m_ui64LastTime' = meter[m].at
     ELSE UNCHANGED <<m_dBitrate, m_nAccumData, m_ui64LastTime>>
  /\ UNCHANGED <<ring, now, m_pDst, m_bReading, m_bPurge, m_bShutdown,
                 snd, rd, wait, got>>

\* CLOCK_REALTIME may be set back; CLOCK_MONOTONIC only goes forward.
Tick_Realtime ==
  /\ now' \in 0..MaxNow
  /\ UNCHANGED <<ring, m_nAccumData, m_dBitrate, m_ui64LastTime, meter, m_pDst,
                 m_bReading, m_bPurge, m_bShutdown, snd, rd, wait, got>>

Tick ==
  /\ now < MaxNow
  /\ now' = now + 1
  /\ UNCHANGED <<ring, m_nAccumData, m_dBitrate, m_ui64LastTime, meter, m_pDst,
                 m_bReading, m_bPurge, m_bShutdown, snd, rd, wait, got>>

----------------------------------------------------------------------------

Init ==
  /\ m_pBuf = [c \in Cells |-> 0] /\ m_nPush = 0 /\ m_nPull = 0
  /\ m_pDst = [i \in 0..(DATA_BUF_SIZE - 1) |-> 0] /\ m_bReading = FALSE
  /\ m_bPurge = FALSE /\ m_bShutdown = FALSE
  /\ m_nAccumData = 0 /\ m_dBitrate = [bytes |-> 0, ticks |-> 1]
  /\ m_ui64LastTime = 0 /\ now = 0
  /\ snd = Gone
  /\ rd = [r \in Readers |-> NotReading]
  /\ wait = [w \in Waiters |-> [pc |-> "idle", ret |-> "none"]]
  /\ meter = [m \in Meters |-> NoSample]
  /\ nPut = 0 /\ epoch = 0
  /\ got = [r \in Readers |-> Refused]

RecvStep == RecvThread_End \/ \E n \in 1..DATA_BUF_SIZE : put_TsStream(n)

Next ==
  \/ \E n \in 1..DATA_BUF_SIZE : put_TsStream(n)
  \/ put_Resume \/ put_SpuriousWake
  \/ RecvThread_End \/ RecvThread_Start
  \/ \E r \in Readers : get_Enter(r) \/ get_Copy(r) \/ get_Leave(r)
  \/ purge_TsStream \/ RequestShutdown \/ ResetShutdown
  \/ \E w \in Waiters : Wait_TsStream(w) \/ Wait_Return(w)
  \/ \E m \in Meters : get_Bitrate_Sample(m) \/ get_Bitrate_Update(m)
  \/ Tick

Spec == Init /\ [][Next]_vars

\* A thread that a signal woke gets the mutex; and once a shutdown is requested
\* the receive thread's recv returns, because waitForRecvThreadFinish shuts the
\* socket down before it calls RequestShutdown.  Nothing is assumed of the host,
\* which may stop calling, nor of a server that is silent.
FairSpec ==
  Spec /\ WF_vars(m_bShutdown /\ RecvStep) /\ WF_vars(put_Resume)

----------------------------------------------------------------------------
(* Properties.                                                             *)

RingTypeOK ==
  /\ m_pBuf \in [Cells -> 0..MaxBytes]
  /\ m_nPush \in Cells /\ m_nPull \in Cells
  /\ nPut \in 0..MaxBytes /\ epoch \in 0..MaxPurges

RateTypeOK ==
  /\ m_nAccumData \in 0..MaxBytes
  /\ m_dBitrate \in [bytes : 0..MaxBytes, ticks : Nat]
  /\ m_ui64LastTime \in 0..MaxNow /\ now \in 0..MaxNow
  /\ meter \in [Meters -> [pc : {"idle", "sampled"}, at : 0..MaxNow]]

FlagTypeOK ==
  m_bReading \in BOOLEAN /\ m_bPurge \in BOOLEAN /\ m_bShutdown \in BOOLEAN

BlockTypeOK ==
  /\ m_pDst \in [0..(DATA_BUF_SIZE - 1) -> 0..MaxBytes]
  /\ rd \in [Readers -> [pc : {"idle", "copy"}, push : Cells, pull : Cells,
                         k : 0..DATA_BUF_SIZE, epoch : 0..MaxPurges]]
  /\ got \in [Readers -> [ok : BOOLEAN, data : Seq(0..MaxBytes)]]

ThreadTypeOK ==
  /\ snd \in [pc : {"run", "gone", "blocked", "woken"}, size : 0..DATA_BUF_SIZE]
  /\ wait \in [Waiters -> [pc : {"idle", "blocked", "woken"},
                           ret : {"none", "WAIT_OBJECT_0", "WAIT_TIMEOUT"}]]

\* Every variable has its type; above all both indices stay inside the ring,
\* which lines 37-40 of GrabTsData.cpp name as what the memcpys depend on.
TypeOK == RingTypeOK /\ RateTypeOK /\ FlagTypeOK /\ BlockTypeOK /\ ThreadTypeOK

\* While a reader copies with the mutex released, and until someone purges,
\* its block stays where it is: at the front of the ring, not consumed by
\* anyone else and not overwritten by the puts that go on meanwhile.
BlockStable ==
  \A r \in Readers :
    rd[r].pc = "copy" /\ rd[r].epoch = epoch =>
      /\ rd[r].pull = m_nPull
      /\ BlockSize(r) <= Used
      /\ \A i \in 0..(BlockSize(r) - 1) :
           m_pBuf[Cell(rd[r].pull, i)] = nPut - Used + 1 + i

\* A get that a purge overtook returns nothing and does not touch m_nPull:
\* what the comment on lines 128-133 of GrabTsData.cpp says it must do.
PurgeWins ==
  [][\A r \in Readers :
       rd[r].pc = "copy" /\ rd'[r].pc = "idle" /\ rd[r].epoch # epoch
         => got'[r] = Refused /\ m_nPull' = m_nPull]_vars

\* The part of it that protects the ring: the index of a block from before the
\* purge is never written back, whoever else calls get_TsStream meanwhile.
StalePullNeverStored ==
  [][\A r \in Readers :
       rd[r].pc = "copy" /\ rd'[r].pc = "idle" /\ rd[r].epoch # epoch
         => m_nPull' = m_nPull]_vars

\* At most one reader copies into m_pDst at a time, and the guard says whether
\* one does: it is neither shared nor left set by a get that gave up.
DstExclusive ==
  /\ \A r, s \in Readers : rd[r].pc = "copy" /\ rd[s].pc = "copy" => r = s
  /\ m_bReading <=> \E r \in Readers : rd[r].pc = "copy"

\* The receive thread is never left blocked once there is room for its bytes
\* or a shutdown is requested: no signal of m_phOnStreamGetEvent is lost.
NoLostRoomSignal ==
  snd.pc = "blocked" => Avail < snd.size /\ ~m_bShutdown

\* With one waiter, it is never left blocked (so it cannot time out) while
\* the ring holds data: no signal of m_phOnStreamEvent is lost.
NoLostDataSignal ==
  \A w \in Waiters : wait[w].pc = "blocked" => Used = 0

\* The unsigned subtraction of get_Bitrate never runs backwards: a sampled
\* time is not older than the end of the last window (lines 233-236).
NoClockUnderflow ==
  \A m \in Meters : meter[m].pc = "sampled" => meter[m].at >= m_ui64LastTime

\* No byte is counted in two windows of the bit rate.
BitrateCountsOnce == m_dBitrate.bytes + m_nAccumData <= nPut

\* A requested shutdown ends the receive thread even when the ring is full
\* and nobody ever takes a block, so pthread_join returns.
ShutdownEndsPut == m_bShutdown ~> snd.pc = "gone"

\* The ring implements the FIFO: the queue is the cells from m_nPull up to
\* m_nPush.  No byte is lost, repeated, reordered, or handed out after a purge.
Contents == [i \in 1..Used |-> m_pBuf[Cell(m_nPull, i - 1)]]

Fifo == INSTANCE TsFifo WITH
  queue <- Contents, Capacity <- RING_BUF_SIZE - 1, MaxBlock <- DATA_BUF_SIZE

FifoSpec == Fifo!Spec

=============================================================================
