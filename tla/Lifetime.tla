------------------------------ MODULE Lifetime ------------------------------
(***************************************************************************)
(* The one instance of CBonTuner and its sharing                           *)
(* (src/src/BonDriver_LinuxMirakc.cpp): CreateBonDriver hands out the      *)
(* instance m_pThis that is there or makes one, Release gives a reference  *)
(* back and deletes the instance with the last.  Every access to m_pThis,  *)
(* the count and the heap is a step, and clients interleave.               *)
(*                                                                         *)
(* m_pThis is tested in one step and used in others, so that the host has  *)
(* to keep a rule, MayBegin: a call overlaps with another one only while   *)
(* some client holds the driver and is not giving it back.                 *)
(***************************************************************************)
EXTENDS Integers, FiniteSets

CONSTANTS
  Clients,  \* the users of the driver in a host
  Addrs,    \* where an instance can be; memory that is freed is used again
  Null      \* NULL

ASSUME Finite == IsFiniteSet(Clients) /\ Null \notin Addrs

VARIABLES
  m_pThis,        \* the static pointer
  heap,           \* "free", "raw" in the constructor, "built", or "dying"
  m_refCount,     \* of the instance at an address
  m_pGrabTsData,  \* whether the ring is allocated
  opened,         \* whether OpenTuner was called without CloseTuner
  pc,             \* where a client is; "out" without, "held" with the driver
  p               \* the client's pointer, in Release and the constructor: this

vars == <<m_pThis, heap, m_refCount, m_pGrabTsData, opened, pc, p>>
instance == <<heap, m_refCount, m_pGrabTsData, opened>>

Goto(c, l)   == pc' = [pc EXCEPT ![c] = l]
Point(c, a)  == p' = [p EXCEPT ![c] = a]
Set(f, c, v) == [f EXCEPT ![p[c]] = v]

Init ==
  /\ m_pThis = Null
  /\ heap = [a \in Addrs |-> "free"]
  /\ m_refCount = [a \in Addrs |-> 0]
  /\ m_pGrabTsData = [a \in Addrs |-> FALSE]
  /\ opened = [a \in Addrs |-> FALSE]
  /\ pc = [c \in Clients |-> "out"]
  /\ p = [c \in Clients |-> Null]

\* The host's rule.
MayBegin(c) ==
  \/ \A d \in Clients \ {c} : pc[d] \in {"out", "held"}
  \/ \E d \in Clients \ {c} : pc[d] = "held"

----------------------------------------------------------------------------
(* CreateBonDriver.                                                        *)

Create(c) ==
  /\ pc[c] = "out" /\ MayBegin(c)
  /\ Goto(c, IF m_pThis # Null THEN "share" ELSE "init")
  /\ UNCHANGED <<m_pThis, instance, p>>

\* The count, then the pointer: m_pThis is read for each of them.
Share_Uncounted(c) ==
  /\ pc[c] = "share" /\ m_pThis # Null
  /\ Goto(c, "return")
  /\ UNCHANGED <<m_pThis, instance, p>>
Share(c) ==
  /\ pc[c] = "share" /\ m_pThis # Null
  /\ m_refCount' = [m_refCount EXCEPT ![m_pThis] = @ + 1]
  /\ Goto(c, "return")
  /\ UNCHANGED <<m_pThis, heap, m_pGrabTsData, opened, p>>

Share_Return(c) ==
  /\ pc[c] = "return"
  /\ Point(c, m_pThis) /\ Goto(c, "held")
  /\ UNCHANGED <<m_pThis, instance>>

\* Init returns -1, or it or new throws: CreateBonDriver returns NULL.
Init_Fails(c) ==
  /\ pc[c] = "init"
  /\ Goto(c, "out")
  /\ UNCHANGED <<m_pThis, instance, p>>

\* Init has read the settings (module Config); new CBonTuner.
New_Published(c) ==
  /\ pc[c] = "init"
  /\ \E a \in Addrs :
       /\ heap[a] = "free"
       /\ heap' = [heap EXCEPT ![a] = "raw"]
       /\ Point(c, a) /\ m_pThis' = a
  /\ Goto(c, "construct")
  /\ UNCHANGED <<m_refCount, m_pGrabTsData, opened>>
New(c) ==
  /\ pc[c] = "init"
  /\ \E a \in Addrs :
       /\ heap[a] = "free"
       /\ heap' = [heap EXCEPT ![a] = "raw"]
       /\ Point(c, a)
  /\ Goto(c, "construct")
  /\ UNCHANGED <<m_pThis, m_refCount, m_pGrabTsData, opened>>

Construct_Uncounted(c) ==
  /\ pc[c] = "construct"
  /\ m_refCount' = Set(m_refCount, c, 0)
  /\ m_pGrabTsData' = Set(m_pGrabTsData, c, TRUE)
  /\ Goto(c, "publish")
  /\ UNCHANGED <<m_pThis, heap, opened, p>>
Construct(c) ==
  /\ pc[c] = "construct"
  /\ m_refCount' = Set(m_refCount, c, 1)
  /\ m_pGrabTsData' = Set(m_pGrabTsData, c, TRUE)
  /\ Goto(c, "publish")
  /\ UNCHANGED <<m_pThis, heap, opened, p>>

\* new GrabTsData throws: the memory is given back.
Construct_Throws(c) ==
  /\ pc[c] = "construct"
  /\ heap' = Set(heap, c, "free")
  /\ Point(c, Null) /\ Goto(c, "out")
  /\ UNCHANGED <<m_pThis, m_refCount, m_pGrabTsData, opened>>

Construct_Publish(c) ==
  /\ pc[c] = "publish"
  /\ m_pThis' = p[c]
  /\ heap' = Set(heap, c, "built")
  /\ Goto(c, "held")
  /\ UNCHANGED <<m_refCount, m_pGrabTsData, opened, p>>

----------------------------------------------------------------------------
(* The client uses the driver.                                             *)

OpenTuner(c) ==
  /\ pc[c] = "held"
  /\ opened' = Set(opened, c, TRUE)
  /\ UNCHANGED <<m_pThis, heap, m_refCount, m_pGrabTsData, pc, p>>

CloseTuner(c) ==
  /\ pc[c] = "held"
  /\ opened' = Set(opened, c, FALSE)
  /\ UNCHANGED <<m_pThis, heap, m_refCount, m_pGrabTsData, pc, p>>

----------------------------------------------------------------------------
(* Release and the destructor.                                             *)

Release(c) ==
  /\ pc[c] = "held" /\ MayBegin(c)
  /\ Goto(c, "release")
  /\ UNCHANGED <<m_pThis, instance, p>>

\* --m_refCount is one step; what it returns decides.
Drop(c) ==
  /\ pc[c] = "release"
  /\ m_refCount' = [m_refCount EXCEPT ![p[c]] = @ - 1]
  /\ IF m_refCount[p[c]] - 1 > 0
     THEN Goto(c, "out") /\ Point(c, Null)
     ELSE Goto(c, "delete") /\ UNCHANGED p
  /\ UNCHANGED <<m_pThis, heap, m_pGrabTsData, opened>>

Delete_StayOpen(c) ==
  /\ pc[c] = "delete"
  /\ heap' = Set(heap, c, "dying")
  /\ Goto(c, "closed")
  /\ UNCHANGED <<m_pThis, m_refCount, m_pGrabTsData, opened, p>>
Delete(c) ==
  /\ pc[c] = "delete"
  /\ heap' = Set(heap, c, "dying")
  /\ opened' = Set(opened, c, FALSE)
  /\ Goto(c, "closed")
  /\ UNCHANGED <<m_pThis, m_refCount, m_pGrabTsData, p>>

Delete_Ring(c) ==
  /\ pc[c] = "closed"
  /\ m_pGrabTsData' = Set(m_pGrabTsData, c, FALSE)
  /\ Goto(c, "forget")
  /\ UNCHANGED <<m_pThis, heap, m_refCount, opened, p>>

Delete_Forget(c) ==
  /\ pc[c] = "forget"
  /\ m_pThis' = Null
  /\ Goto(c, "free")
  /\ UNCHANGED <<instance, p>>

Delete_Free(c) ==
  /\ pc[c] = "free"
  /\ heap' = Set(heap, c, "free")
  /\ Point(c, Null) /\ Goto(c, "out")
  /\ UNCHANGED <<m_pThis, m_refCount, m_pGrabTsData, opened>>

CreateStep(c) ==
  \/ Create(c) \/ Share(c) \/ Share_Return(c)
  \/ Init_Fails(c) \/ New(c)
  \/ Construct(c) \/ Construct_Throws(c) \/ Construct_Publish(c)

ReleaseStep(c) ==
  \/ Release(c) \/ Drop(c)
  \/ Delete(c) \/ Delete_Ring(c) \/ Delete_Forget(c) \/ Delete_Free(c)

UseStep(c) == OpenTuner(c) \/ CloseTuner(c)

Next == \E c \in Clients : CreateStep(c) \/ ReleaseStep(c) \/ UseStep(c)

Spec == Init /\ [][Next]_vars

----------------------------------------------------------------------------
(* What holds.                                                             *)

Creating == {"init", "construct", "publish"}
Deleting == {"delete", "closed", "forget", "free"}
Places   == {"out", "share", "return", "held", "release"}
              \cup Creating \cup Deleting

\* The clients the count stands for.
Counted == {c \in Clients : pc[c] \in {"publish", "return", "held", "release"}}

\* Every variable keeps its type; a client in Release, in the constructor
\* and in the destructor has a pointer.
TypeOK ==
  /\ m_pThis \in Addrs \cup {Null}
  /\ heap \in [Addrs -> {"free", "raw", "built", "dying"}]
  /\ m_refCount \in [Addrs -> Nat]
  /\ m_pGrabTsData \in [Addrs -> BOOLEAN]
  /\ opened \in [Addrs -> BOOLEAN]
  /\ pc \in [Clients -> Places]
  /\ p \in [Clients -> Addrs \cup {Null}]
  /\ \A c \in Clients :
       p[c] = Null <=> pc[c] \in {"out", "share", "return", "init"}

\* A client that holds the driver, gives it back, or is about to count its
\* reference has an instance that is built and that nobody is deleting.
HeldIsLive ==
  \A c \in Clients :
    /\ pc[c] \in {"held", "release"} => heap[p[c]] = "built" /\ p[c] = m_pThis
    /\ pc[c] \in {"share", "return"} =>
         m_pThis # Null /\ heap[m_pThis] = "built"
    /\ pc[c] \in {"share", "return", "held", "release"} =>
         \A d \in Clients : pc[d] \notin Deleting

\* m_pThis points to an instance, and there is no other one: Init rewrites
\* the settings only when no instance uses them.
OneInstance ==
  /\ m_pThis # Null => heap[m_pThis] \in {"built", "dying"}
  /\ \A a, b \in Addrs : heap[a] # "free" /\ heap[b] # "free" => a = b
  /\ (\E c \in Clients : pc[c] \in Creating)
       => m_pThis = Null /\ \A a \in Addrs : heap[a] \in {"free", "raw"}

\* The count is the number of references, so that the last Release deletes
\* the instance and no other one does.
CountExact ==
  \A a \in Addrs :
    (heap[a] = "built" \/ \E c \in Clients : pc[c] = "publish" /\ p[c] = a)
      => m_refCount[a] = Cardinality(Counted)

\* Nothing is left behind: freed memory had its ring deleted and the tuner
\* closed, and with no client there is no instance.
NothingLeft ==
  /\ \A a \in Addrs : heap[a] = "free" => ~m_pGrabTsData[a] /\ ~opened[a]
  /\ (\A c \in Clients : pc[c] = "out")
       => m_pThis = Null /\ \A a \in Addrs : heap[a] = "free"

=============================================================================
