------------------------------- MODULE TsFifo -------------------------------
(***************************************************************************)
(* What the TS buffer promises its callers, with no ring, no indices and   *)
(* no lock: a bounded FIFO of bytes that one sender appends to, that       *)
(* callers take blocks from the front of, and that anyone may empty.       *)
(* Bytes are numbered in the order they were appended, so an element of    *)
(* the queue says which byte of which put it is.  Module GrabTsData, the   *)
(* code's ring buffer, is shown to implement this specification.           *)
(***************************************************************************)
EXTENDS Integers, Sequences

CONSTANTS
  Readers,    \* the threads that take blocks
  Capacity,   \* most bytes the queue holds
  MaxBlock    \* most bytes one put or one get moves

VARIABLES
  queue,      \* the bytes not yet taken, oldest first
  nPut,       \* the number of bytes appended so far
  got         \* got[r]: what the last call of reader r returned

fifoVars == <<queue, nPut, got>>

Refused == [ok |-> FALSE, data |-> << >>]

Init ==
  /\ queue = << >>
  /\ nPut = 0
  /\ got = [r \in Readers |-> Refused]

Put(n) ==
  /\ Len(queue) + n <= Capacity
  /\ queue' = queue \o [i \in 1..n |-> nPut + i]
  /\ nPut' = nPut + n
  /\ UNCHANGED got

\* A block of n bytes leaves the front.  A get may return fewer bytes than
\* there are, and none at all: it looks at the queue before it takes.
Get(r, n) ==
  /\ n <= Len(queue)
  /\ got' = [got EXCEPT ![r] = [ok |-> TRUE, data |-> SubSeq(queue, 1, n)]]
  /\ queue' = SubSeq(queue, n + 1, Len(queue))
  /\ UNCHANGED nPut

\* The caller is told that there is nothing for it; nothing is taken.
Refuse(r) ==
  /\ got' = [got EXCEPT ![r] = Refused]
  /\ UNCHANGED <<queue, nPut>>

Purge ==
  /\ queue' = << >>
  /\ UNCHANGED <<nPut, got>>

Next ==
  \/ \E n \in 1..MaxBlock : Put(n)
  \/ \E r \in Readers, n \in 0..MaxBlock : Get(r, n)
  \/ \E r \in Readers : Refuse(r)
  \/ Purge

Spec == Init /\ [][Next]_fifoVars

=============================================================================
