--------------------------- MODULE LifetimeProofs ---------------------------
(***************************************************************************)
(* Proofs about Lifetime, for every finite set of clients and any set of   *)
(* addresses: types, and the four invariants.                              *)
(***************************************************************************)
EXTENDS Lifetime, TLAPS, FiniteSetTheorems

\* A client that makes or deletes the instance is the only one.
Solo ==
  \A c \in Clients : pc[c] \in Creating \cup Deleting =>
    \A d \in Clients \ {c} : pc[d] = "out"

\* The host's rule as a fact about states: calls overlap only while some
\* client holds the driver.
Pinned ==
  \A c, d \in Clients :
    c # d /\ pc[c] \notin {"out", "held"} /\ pc[d] \notin {"out", "held"}
      => \E e \in Clients : pc[e] = "held"

\* Where the pointers point.
Pointers ==
  \A c \in Clients :
    /\ pc[c] \in {"held", "release", "delete", "closed", "forget"} =>
         p[c] = m_pThis
    /\ pc[c] \in {"share", "return"} =>
         m_pThis # Null /\ heap[m_pThis] = "built"
    /\ pc[c] \in Creating \cup {"free"} => m_pThis = Null
    /\ pc[c] \in {"construct", "publish"} => heap[p[c]] = "raw"
    /\ pc[c] \in {"held", "release", "delete"} => heap[p[c]] = "built"
    /\ pc[c] \in {"closed", "forget", "free"} => heap[p[c]] = "dying"

\* Whom the memory belongs to.
Owned ==
  /\ m_pThis # Null => heap[m_pThis] \in {"built", "dying"}
  /\ \A a \in Addrs :
       /\ heap[a] = "built" => a = m_pThis
       /\ heap[a] = "raw" =>
            \E c \in Clients : pc[c] \in {"construct", "publish"} /\ p[c] = a
       /\ heap[a] = "dying" =>
            \E c \in Clients : pc[c] \in {"closed", "forget", "free"} /\ p[c] = a

\* An instance that is built is counted, or being deleted.
InUse ==
  \A a \in Addrs : heap[a] = "built" =>
    m_refCount[a] >= 1 \/ \E c \in Clients : pc[c] = "delete"

Clean ==
  /\ \A a \in Addrs : heap[a] = "free" => ~m_pGrabTsData[a] /\ ~opened[a]
  /\ \A c \in Clients :
       /\ pc[c] = "construct" => ~m_pGrabTsData[p[c]]
       /\ pc[c] \in {"construct", "publish", "closed", "forget", "free"} =>
            ~opened[p[c]]
       /\ pc[c] \in {"forget", "free"} => ~m_pGrabTsData[p[c]]

LInv == TypeOK /\ Solo /\ Pinned /\ Pointers /\ Owned /\ CountExact /\ InUse /\ Clean

LEMMA CountedFinite ==
  /\ IsFiniteSet(Counted) /\ Cardinality(Counted) \in Nat
  /\ \A c \in Counted : Cardinality(Counted) >= 1
<1>1. IsFiniteSet(Counted)
  BY Finite, FS_Subset DEF Counted
<1>2. Cardinality(Counted) \in Nat
  BY <1>1, FS_CardinalityType
<1>3. \A c \in Counted : Cardinality(Counted) # 0
  BY <1>1, FS_EmptySet
<1> QED
  BY <1>1, <1>2, <1>3

LEMMA CreateKeeps ==
  ASSUME LInv, NEW c \in Clients, Create(c)
  PROVE  LInv'
<1> USE DEF Goto, instance, Creating, Deleting
<1>1. TypeOK'
  BY DEF LInv, TypeOK, Places, Create
<1>2. Solo'
  BY DEF LInv, TypeOK, Solo, Pointers, MayBegin, Create
<1>3. Pinned'
  BY DEF LInv, Pinned, MayBegin, Create
<1>4. Pointers'
  BY DEF LInv, TypeOK, Pointers, Owned, MayBegin, Create
<1>5. Owned'
  BY DEF LInv, Owned, Create
<1>6. CountExact'
  BY DEF LInv, CountExact, Counted, Create
<1>7. InUse'
  BY DEF LInv, InUse, Create
<1>8. Clean'
  BY DEF LInv, Clean, Create
<1> QED
  BY <1>1, <1>2, <1>3, <1>4, <1>5, <1>6, <1>7, <1>8 DEF LInv

LEMMA ShareKeeps ==
  ASSUME LInv, NEW c \in Clients, Share(c)
  PROVE  LInv'
<1> USE DEF Goto, Creating, Deleting
<1>1. TypeOK'
  BY DEF LInv, TypeOK, Places, Share
<1>2. Solo'
  BY DEF LInv, Solo, Share
<1>3. Pinned'
  BY DEF LInv, Pinned, Share
<1>4. Pointers'
  BY DEF LInv, Pointers, Share
<1>5. Owned'
  BY DEF LInv, Owned, Share
<1>6. CountExact'
  <2>1. c \notin Counted /\ Counted' = Counted \cup {c}
    BY DEF Counted, Share, LInv, TypeOK
  <2>2. Cardinality(Counted') = Cardinality(Counted) + 1
    BY <2>1, CountedFinite, FS_AddElement
  <2>3. heap[m_pThis] = "built" /\ m_pThis \in Addrs
    BY DEF LInv, Pointers, Share, TypeOK
  <2>4. m_refCount[m_pThis] = Cardinality(Counted)
    BY <2>3 DEF LInv, CountExact
  <2>5. \A d \in Clients : pc[d] # "publish" /\ pc'[d] # "publish"
    BY DEF LInv, Solo, Share, TypeOK
  <2>6. \A a \in Addrs : heap[a] = "built" => a = m_pThis
    BY DEF LInv, Owned
  <2>7. heap' = heap /\ m_refCount' = [m_refCount EXCEPT ![m_pThis] = @ + 1]
    BY DEF Share
  <2>8. m_refCount'[m_pThis] = Cardinality(Counted')
    BY <2>2, <2>3, <2>4, <2>7 DEF LInv, TypeOK
  <2> QED
    BY <2>5, <2>6, <2>7, <2>8 DEF CountExact
<1>7. InUse'
  BY DEF LInv, TypeOK, InUse, Share
<1>8. Clean'
  BY DEF LInv, Clean, Share
<1> QED
  BY <1>1, <1>2, <1>3, <1>4, <1>5, <1>6, <1>7, <1>8 DEF LInv

LEMMA Share_ReturnKeeps ==
  ASSUME LInv, NEW c \in Clients, Share_Return(c)
  PROVE  LInv'
<1> USE DEF Goto, Point, instance, Creating, Deleting
<1>1. TypeOK'
  BY DEF LInv, TypeOK, Pointers, Places, Share_Return
<1>2. Solo'
  BY DEF LInv, Solo, Share_Return
<1>3. Pinned'
  BY DEF LInv, Pinned, Share_Return
<1>4. Pointers'
  BY DEF LInv, TypeOK, Pointers, Share_Return
<1>5. Owned'
  BY DEF LInv, Owned, Share_Return
<1>6. CountExact'
  <2>1. Counted' = Counted
    BY DEF Counted, Share_Return, LInv, TypeOK
  <2> QED
    BY <2>1 DEF LInv, CountExact, Share_Return
<1>7. InUse'
  BY DEF LInv, InUse, Share_Return
<1>8. Clean'
  BY DEF LInv, Clean, Share_Return
<1> QED
  BY <1>1, <1>2, <1>3, <1>4, <1>5, <1>6, <1>7, <1>8 DEF LInv

LEMMA Init_FailsKeeps ==
  ASSUME LInv, NEW c \in Clients, Init_Fails(c)
  PROVE  LInv'
<1> USE DEF Goto, instance, Creating, Deleting
<1>1. TypeOK'
  BY DEF LInv, TypeOK, Places, Init_Fails
<1>2. Solo'
  BY DEF LInv, Solo, Init_Fails
<1>3. Pinned'
  BY DEF LInv, Pinned, Init_Fails
<1>4. Pointers'
  BY DEF LInv, Pointers, Init_Fails
<1>5. Owned'
  BY DEF LInv, Owned, Init_Fails
<1>6. CountExact'
  BY DEF LInv, CountExact, Counted, Init_Fails
<1>7. InUse'
  BY DEF LInv, InUse, Init_Fails
<1>8. Clean'
  BY DEF LInv, Clean, Init_Fails
<1> QED
  BY <1>1, <1>2, <1>3, <1>4, <1>5, <1>6, <1>7, <1>8 DEF LInv

LEMMA NewKeeps ==
  ASSUME LInv, NEW c \in Clients, New(c)
  PROVE  LInv'
<1> USE DEF Goto, Point, Creating, Deleting
<1>1. TypeOK'
  BY Finite DEF LInv, TypeOK, Places, New
<1>2. Solo'
  BY DEF LInv, Solo, New
<1>3. Pinned'
  BY DEF LInv, Pinned, New
<1>4. Pointers'
  BY DEF LInv, TypeOK, Pointers, New
<1>5. Owned'
  BY DEF LInv, TypeOK, Owned, New
<1>6. CountExact'
  BY DEF LInv, CountExact, Counted, New
<1>7. InUse'
  BY DEF LInv, InUse, New
<1>8. Clean'
  BY DEF LInv, TypeOK, Clean, New
<1> QED
  BY <1>1, <1>2, <1>3, <1>4, <1>5, <1>6, <1>7, <1>8 DEF LInv

LEMMA ConstructKeeps ==
  ASSUME LInv, NEW c \in Clients, Construct(c)
  PROVE  LInv'
<1> USE DEF Goto, Set, Creating, Deleting
<1>1. TypeOK'
  BY DEF LInv, TypeOK, Places, Construct
<1>2. Solo'
  BY DEF LInv, Solo, Construct
<1>3. Pinned'
  BY DEF LInv, Pinned, Construct
<1>4. Pointers'
  BY DEF LInv, Pointers, Construct
<1>5. Owned'
  BY DEF LInv, Owned, Construct
<1>6. CountExact'
  <2>1. \A d \in Clients \ {c} : pc[d] = "out"
    BY DEF LInv, Solo, Construct
  <2>2. Counted' = {c}
    BY <2>1 DEF Counted, Construct, LInv, TypeOK
  <2>3. Cardinality(Counted') = 1
    BY <2>2, FS_Singleton
  <2>4. p[c] \in Addrs /\ m_refCount' = [m_refCount EXCEPT ![p[c]] = 1]
    BY DEF Construct, LInv, TypeOK
  <2>5. \A a \in Addrs : heap'[a] # "built"
    BY Finite DEF LInv, Owned, Pointers, Construct
  <2>6. \A d \in Clients : pc'[d] = "publish" => d = c /\ p'[d] = p[c]
    BY <2>1 DEF Construct, LInv, TypeOK
  <2> QED
    BY <2>3, <2>4, <2>5, <2>6 DEF CountExact, LInv, TypeOK
<1>7. InUse'
  BY DEF LInv, InUse, Construct
<1>8. Clean'
  BY DEF LInv, TypeOK, Pinned, Pointers, Clean, Construct
<1> QED
  BY <1>1, <1>2, <1>3, <1>4, <1>5, <1>6, <1>7, <1>8 DEF LInv

LEMMA Construct_ThrowsKeeps ==
  ASSUME LInv, NEW c \in Clients, Construct_Throws(c)
  PROVE  LInv'
<1> USE DEF Goto, Point, Set, Creating, Deleting
<1>1. TypeOK'
  BY DEF LInv, TypeOK, Places, Construct_Throws
<1>2. Solo'
  BY DEF LInv, Solo, Construct_Throws
<1>3. Pinned'
  BY DEF LInv, Pinned, Construct_Throws
<1>4. Pointers'
  BY DEF LInv, TypeOK, Pointers, Solo, Construct_Throws
<1>5. Owned'
  BY DEF LInv, TypeOK, Pointers, Owned, Construct_Throws
<1>6. CountExact'
  BY DEF LInv, CountExact, Counted, Construct_Throws
<1>7. InUse'
  BY DEF LInv, InUse, Construct_Throws
<1>8. Clean'
  BY DEF LInv, TypeOK, Clean, Construct_Throws
<1> QED
  BY <1>1, <1>2, <1>3, <1>4, <1>5, <1>6, <1>7, <1>8 DEF LInv

LEMMA Construct_PublishKeeps ==
  ASSUME LInv, NEW c \in Clients, Construct_Publish(c)
  PROVE  LInv'
<1> USE DEF Goto, Set, Creating, Deleting
<1>1. TypeOK'
  BY DEF LInv, TypeOK, Places, Construct_Publish
<1>2. Solo'
  BY DEF LInv, Solo, Construct_Publish
<1>3. Pinned'
  BY DEF LInv, Pinned, Construct_Publish
<1>4. Pointers'
  BY DEF LInv, TypeOK, Pointers, Solo, Construct_Publish
<1>5. Owned'
  <2>1. p[c] \in Addrs /\ heap[p[c]] = "raw" /\ m_pThis = Null
    BY DEF LInv, TypeOK, Pointers, Construct_Publish
  <2>2. \A d \in Clients \ {c} : pc[d] = "out"
    BY DEF LInv, Solo, Construct_Publish
  <2>3. \A a \in Addrs : a # p[c] => heap[a] = "free"
    BY <2>1, <2>2, Finite DEF LInv, TypeOK, Owned, Construct_Publish
  <2> QED
    BY <2>1, <2>3 DEF LInv, TypeOK, Owned, Construct_Publish
<1>6. CountExact'
  <2>1. Counted' = Counted
    BY DEF Counted, Construct_Publish, LInv, TypeOK
  <2>2. m_refCount[p[c]] = Cardinality(Counted)
    BY DEF LInv, CountExact, Construct_Publish, TypeOK
  <2>3. \A d \in Clients : pc'[d] # "publish"
    BY DEF LInv, Solo, Construct_Publish, TypeOK
  <2>4. \A a \in Addrs : heap'[a] = "built" => a = p[c]
    BY Finite DEF LInv, Owned, Pointers, Construct_Publish, TypeOK
  <2>5. m_refCount' = m_refCount
    BY DEF Construct_Publish
  <2> QED
    BY <2>1, <2>2, <2>3, <2>4, <2>5 DEF CountExact
<1>7. InUse'
  <2>1. c \in Counted
    BY DEF Counted, Construct_Publish
  <2>2. m_refCount[p[c]] = Cardinality(Counted)
    BY DEF LInv, CountExact, Construct_Publish, TypeOK
  <2>3. m_refCount[p[c]] >= 1
    BY <2>1, <2>2, CountedFinite
  <2>4. \A a \in Addrs : heap'[a] = "built" => a = p[c]
    BY Finite DEF LInv, Owned, Pointers, Construct_Publish, TypeOK
  <2>5. m_refCount' = m_refCount
    BY DEF Construct_Publish
  <2> QED
    BY <2>3, <2>4, <2>5 DEF InUse
<1>8. Clean'
  BY DEF LInv, Clean, Construct_Publish
<1> QED
  BY <1>1, <1>2, <1>3, <1>4, <1>5, <1>6, <1>7, <1>8 DEF LInv

LEMMA ReleaseKeeps ==
  ASSUME LInv, NEW c \in Clients, Release(c)
  PROVE  LInv'
<1> USE DEF Goto, instance, Creating, Deleting
<1>1. TypeOK'
  BY DEF LInv, TypeOK, Places, Release
<1>2. Solo'
  BY DEF LInv, Solo, Release
<1>3. Pinned'
  BY DEF LInv, Pinned, MayBegin, Release
<1>4. Pointers'
  BY DEF LInv, Pointers, Release
<1>5. Owned'
  BY DEF LInv, Owned, Release
<1>6. CountExact'
  BY DEF LInv, CountExact, Counted, Release
<1>7. InUse'
  BY DEF LInv, InUse, Release
<1>8. Clean'
  BY DEF LInv, Clean, Release
<1> QED
  BY <1>1, <1>2, <1>3, <1>4, <1>5, <1>6, <1>7, <1>8 DEF LInv

LEMMA DropKeeps ==
  ASSUME LInv, NEW c \in Clients, Drop(c)
  PROVE  LInv'
<1> USE DEF Goto, Point, Creating, Deleting
<1>1. TypeOK'
  BY DEF LInv, TypeOK, Solo, Pointers, InUse, Places, Drop
<1>2. Solo'
  <2>1. \A d \in Clients : pc[d] \notin Creating \cup Deleting
    BY DEF LInv, Solo, Drop
  <2>2. CASE m_refCount[p[c]] - 1 > 0
    BY <2>1, <2>2 DEF Drop, LInv, TypeOK, Solo
  <2>3. CASE ~(m_refCount[p[c]] - 1 > 0)
    <3>1. c \in Counted /\ IsFiniteSet(Counted \ {c})
      BY CountedFinite, FS_RemoveElement DEF Counted, Drop
    <3>2. m_refCount[p[c]] = Cardinality(Counted) /\ Cardinality(Counted) \in Nat
      BY CountedFinite DEF LInv, CountExact, Pointers, Drop, TypeOK
    <3>3. Cardinality(Counted) = 1
      BY <2>3, <3>1, <3>2, CountedFinite
    <3>4. Counted = {c}
      BY <3>1, <3>3, CountedFinite, FS_Singleton
    <3>5. \A d \in Clients \ {c} : pc[d] \notin {"held", "release", "return"}
      BY <3>4 DEF Counted
    <3>6. \A e \in Clients : pc[e] # "held"
      BY <3>5 DEF Drop
    <3>7. \A d \in Clients \ {c} : pc[d] = "out"
      BY <3>6 DEF LInv, Pinned, Drop
    <3> QED
      BY <3>7 DEF Solo, Drop, LInv, TypeOK
  <2> QED
    BY <2>2, <2>3
<1>3. Pinned'
  BY DEF LInv, TypeOK, Pinned, Drop
<1>4. Pointers'
  BY DEF LInv, TypeOK, Pointers, Drop
<1>5. Owned'
  BY DEF LInv, TypeOK, Owned, Drop
<1>6. CountExact'
  <2>1. c \in Counted /\ Counted' = Counted \ {c}
    BY DEF Counted, Drop, LInv, TypeOK
  <2>2. Cardinality(Counted') = Cardinality(Counted) - 1
    BY <2>1, CountedFinite, FS_RemoveElement
  <2>3. p[c] \in Addrs /\ heap[p[c]] = "built" /\ p[c] = m_pThis
    BY DEF LInv, Pointers, Drop, TypeOK
  <2>4. m_refCount[p[c]] = Cardinality(Counted)
    BY <2>3 DEF LInv, CountExact
  <2>5. \A d \in Clients : pc'[d] # "publish"
    BY <2>3 DEF LInv, Pointers, Drop, TypeOK
  <2>6. \A a \in Addrs : heap[a] = "built" => a = p[c]
    BY <2>3 DEF LInv, Owned
  <2>7. heap' = heap /\ m_refCount' = [m_refCount EXCEPT ![p[c]] = @ - 1]
    BY DEF Drop
  <2>8. m_refCount'[p[c]] = Cardinality(Counted')
    BY <2>2, <2>3, <2>4, <2>7 DEF LInv, TypeOK
  <2> QED
    BY <2>5, <2>6, <2>7, <2>8 DEF CountExact
<1>7. InUse'
  BY DEF LInv, TypeOK, InUse, Drop
<1>8. Clean'
  BY DEF LInv, TypeOK, Clean, Drop
<1> QED
  BY <1>1, <1>2, <1>3, <1>4, <1>5, <1>6, <1>7, <1>8 DEF LInv

LEMMA DeleteKeeps ==
  ASSUME LInv, NEW c \in Clients, Delete(c)
  PROVE  LInv'
<1> USE DEF Goto, Set, Creating, Deleting
<1>1. TypeOK'
  BY DEF LInv, TypeOK, Places, Delete
<1>2. Solo'
  BY DEF LInv, Solo, Delete
<1>3. Pinned'
  BY DEF LInv, Pinned, Delete
<1>4. Pointers'
  BY DEF LInv, TypeOK, Pointers, Solo, Delete
<1>5. Owned'
  BY DEF LInv, TypeOK, Owned, Delete
<1>6. CountExact'
  BY DEF LInv, TypeOK, CountExact, Counted, Delete
<1>7. InUse'
  BY DEF LInv, TypeOK, Pointers, Owned, InUse, Delete
<1>8. Clean'
  BY DEF LInv, TypeOK, Clean, Delete
<1> QED
  BY <1>1, <1>2, <1>3, <1>4, <1>5, <1>6, <1>7, <1>8 DEF LInv

LEMMA Delete_RingKeeps ==
  ASSUME LInv, NEW c \in Clients, Delete_Ring(c)
  PROVE  LInv'
<1> USE DEF Goto, Set, Creating, Deleting
<1>1. TypeOK'
  BY DEF LInv, TypeOK, Places, Delete_Ring
<1>2. Solo'
  BY DEF LInv, Solo, Delete_Ring
<1>3. Pinned'
  BY DEF LInv, Pinned, Delete_Ring
<1>4. Pointers'
  BY DEF LInv, Pointers, Delete_Ring
<1>5. Owned'
  BY DEF LInv, Owned, Delete_Ring
<1>6. CountExact'
  BY DEF LInv, CountExact, Counted, Delete_Ring
<1>7. InUse'
  BY DEF LInv, InUse, Delete_Ring
<1>8. Clean'
  BY DEF LInv, TypeOK, Clean, Delete_Ring
<1> QED
  BY <1>1, <1>2, <1>3, <1>4, <1>5, <1>6, <1>7, <1>8 DEF LInv

LEMMA Delete_ForgetKeeps ==
  ASSUME LInv, NEW c \in Clients, Delete_Forget(c)
  PROVE  LInv'
<1> USE DEF Goto, instance, Creating, Deleting
<1>1. TypeOK'
  BY DEF LInv, TypeOK, Places, Delete_Forget
<1>2. Solo'
  BY DEF LInv, Solo, Delete_Forget
<1>3. Pinned'
  BY DEF LInv, Pinned, Delete_Forget
<1>4. Pointers'
  BY DEF LInv, TypeOK, Pointers, Solo, Delete_Forget
<1>5. Owned'
  BY DEF LInv, Pointers, Owned, Delete_Forget
<1>6. CountExact'
  BY DEF LInv, CountExact, Counted, Delete_Forget
<1>7. InUse'
  BY DEF LInv, InUse, Delete_Forget
<1>8. Clean'
  BY DEF LInv, Clean, Delete_Forget
<1> QED
  BY <1>1, <1>2, <1>3, <1>4, <1>5, <1>6, <1>7, <1>8 DEF LInv

LEMMA Delete_FreeKeeps ==
  ASSUME LInv, NEW c \in Clients, Delete_Free(c)
  PROVE  LInv'
<1> USE DEF Goto, Point, Set, Creating, Deleting
<1>1. TypeOK'
  BY DEF LInv, TypeOK, Places, Delete_Free
<1>2. Solo'
  BY DEF LInv, Solo, Delete_Free
<1>3. Pinned'
  BY DEF LInv, Pinned, Delete_Free
<1>4. Pointers'
  BY DEF LInv, TypeOK, Pointers, Solo, Delete_Free
<1>5. Owned'
  BY DEF LInv, TypeOK, Pointers, Owned, Delete_Free
<1>6. CountExact'
  BY DEF LInv, CountExact, Counted, Delete_Free
<1>7. InUse'
  BY DEF LInv, InUse, Delete_Free
<1>8. Clean'
  BY DEF LInv, TypeOK, Clean, Delete_Free
<1> QED
  BY <1>1, <1>2, <1>3, <1>4, <1>5, <1>6, <1>7, <1>8 DEF LInv

LEMMA OpenTunerKeeps ==
  ASSUME LInv, NEW c \in Clients, OpenTuner(c)
  PROVE  LInv'
<1> USE DEF Set, Creating, Deleting
<1>1. TypeOK'
  BY DEF LInv, TypeOK, OpenTuner
<1>2. Solo'
  BY DEF LInv, Solo, OpenTuner
<1>3. Pinned'
  BY DEF LInv, Pinned, OpenTuner
<1>4. Pointers'
  BY DEF LInv, Pointers, OpenTuner
<1>5. Owned'
  BY DEF LInv, Owned, OpenTuner
<1>6. CountExact'
  <2>1. Counted' = Counted
    BY DEF Counted, OpenTuner, LInv, TypeOK
  <2> QED
    BY <2>1 DEF LInv, CountExact, OpenTuner
<1>7. InUse'
  BY DEF LInv, InUse, OpenTuner
<1>8. Clean'
  BY DEF LInv, Pointers, Clean, OpenTuner
<1> QED
  BY <1>1, <1>2, <1>3, <1>4, <1>5, <1>6, <1>7, <1>8 DEF LInv

LEMMA CloseTunerKeeps ==
  ASSUME LInv, NEW c \in Clients, CloseTuner(c)
  PROVE  LInv'
<1> USE DEF Set, Creating, Deleting
<1>1. TypeOK'
  BY DEF LInv, TypeOK, CloseTuner
<1>2. Solo'
  BY DEF LInv, Solo, CloseTuner
<1>3. Pinned'
  BY DEF LInv, Pinned, CloseTuner
<1>4. Pointers'
  BY DEF LInv, Pointers, CloseTuner
<1>5. Owned'
  BY DEF LInv, Owned, CloseTuner
<1>6. CountExact'
  <2>1. Counted' = Counted
    BY DEF Counted, CloseTuner, LInv, TypeOK
  <2> QED
    BY <2>1 DEF LInv, CountExact, CloseTuner
<1>7. InUse'
  BY DEF LInv, InUse, CloseTuner
<1>8. Clean'
  BY DEF LInv, Clean, CloseTuner
<1> QED
  BY <1>1, <1>2, <1>3, <1>4, <1>5, <1>6, <1>7, <1>8 DEF LInv

LEMMA LInit == Init => LInv
<1> SUFFICES ASSUME Init PROVE LInv
  OBVIOUS
<1> USE DEF Init, Creating, Deleting
<1>1. TypeOK
  BY DEF TypeOK, Places
<1>2. Solo /\ Pinned
  BY DEF Solo, Pinned
<1>3. Pointers /\ Owned
  BY DEF Pointers, Owned
<1>4. CountExact /\ InUse
  BY DEF CountExact, InUse
<1>5. Clean
  BY DEF Clean
<1> QED
  BY <1>1, <1>2, <1>3, <1>4, <1>5 DEF LInv

LEMMA LStep == LInv /\ [Next]_vars => LInv'
<1> SUFFICES ASSUME LInv, [Next]_vars PROVE LInv'
  OBVIOUS
<1>1. CASE UNCHANGED vars
  BY <1>1 DEF vars, LInv, TypeOK, Solo, Pinned, Pointers, Owned, CountExact,
      Counted, InUse, Clean
<1>2. CASE Next
  <2>1. PICK c \in Clients : CreateStep(c) \/ ReleaseStep(c) \/ UseStep(c)
    BY <1>2 DEF Next
  <2>2. CASE CreateStep(c)
    BY <2>2, CreateKeeps, ShareKeeps, Share_ReturnKeeps, Init_FailsKeeps,
        NewKeeps, ConstructKeeps, Construct_ThrowsKeeps,
        Construct_PublishKeeps DEF CreateStep
  <2>3. CASE ReleaseStep(c)
    BY <2>3, ReleaseKeeps, DropKeeps, DeleteKeeps, Delete_RingKeeps,
        Delete_ForgetKeeps, Delete_FreeKeeps DEF ReleaseStep
  <2>4. CASE UseStep(c)
    BY <2>4, OpenTunerKeeps, CloseTunerKeeps DEF UseStep
  <2> QED
    BY <2>1, <2>2, <2>3, <2>4
<1> QED
  BY <1>1, <1>2

LEMMA LAlways == Spec => []LInv
  BY LInit, LStep, PTL DEF Spec

----------------------------------------------------------------------------

\* Every variable keeps its type, and a client has a pointer exactly while it
\* holds the driver, gives it back, or makes or deletes the instance.
THEOREM LifetimeTypeCorrect == Spec => []TypeOK
<1>1. LInv => TypeOK
  BY DEF LInv
<1> QED
  BY <1>1, LAlways, PTL

\* The instance of a client that holds the driver, gives it back, or was
\* promised it by the test of m_pThis is built, and nobody deletes it:
\* CreateBonDriver and Release keep this between them without a lock, for
\* any number of clients, under the host's rule.
THEOREM HeldInstanceIsLive == Spec => []HeldIsLive
<1>1. ASSUME LInv, NEW c \in Clients,
             pc[c] \in {"share", "return", "held", "release"}
      PROVE  \A d \in Clients : pc[d] \notin Deleting
  BY <1>1 DEF LInv, Solo, Deleting
<1>2. LInv => HeldIsLive
  BY <1>1 DEF LInv, Pointers, HeldIsLive
<1> QED
  BY <1>2, LAlways, PTL

\* There is never a second instance, whatever addresses new returns, so that
\* Init never rewrites the settings of an instance in use.
THEOREM OnlyOneInstance == Spec => []OneInstance
<1>1. ASSUME LInv, NEW a \in Addrs, NEW b \in Addrs,
             heap[a] # "free", heap[b] # "free"
      PROVE  a = b
  <2> USE <1>1
  <2>1. CASE heap[a] = "raw"
    <3>1. PICK c \in Clients : pc[c] \in {"construct", "publish"} /\ p[c] = a
      BY <2>1 DEF LInv, Owned
    <3>2. m_pThis = Null /\ \A d \in Clients \ {c} : pc[d] = "out"
      BY <3>1 DEF LInv, Solo, Pointers, Creating
    <3>3. heap[b] # "built"
      BY <3>2, Finite DEF LInv, Owned
    <3>4. heap[b] # "dying"
      BY <3>1, <3>2 DEF LInv, Owned
    <3>5. heap[b] = "raw"
      BY <3>3, <3>4 DEF LInv, TypeOK
    <3>6. \E d \in Clients : pc[d] \in {"construct", "publish"} /\ p[d] = b
      BY <3>5 DEF LInv, Owned
    <3> QED
      BY <3>1, <3>2, <3>6
  <2>2. CASE heap[a] = "dying"
    <3>1. PICK c \in Clients : pc[c] \in {"closed", "forget", "free"} /\ p[c] = a
      BY <2>2 DEF LInv, Owned
    <3>2. \A d \in Clients \ {c} : pc[d] = "out"
      BY <3>1 DEF LInv, Solo, Deleting
    <3>3. heap[b] = "built" => a = b
      BY <3>1, Finite DEF LInv, Owned, Pointers
    <3>4. heap[b] # "raw"
      BY <3>1, <3>2 DEF LInv, Owned
    <3>5. heap[b] = "dying" => a = b
      BY <3>1, <3>2 DEF LInv, Owned
    <3> QED
      BY <3>3, <3>4, <3>5 DEF LInv, TypeOK
  <2>3. CASE heap[a] = "built"
    <3>1. a = m_pThis /\ m_pThis # Null
      BY <2>3, Finite DEF LInv, Owned
    <3>2. heap[b] # "raw"
      BY <3>1 DEF LInv, Owned, Pointers, Creating
    <3>3. heap[b] = "built" => a = b
      BY <3>1 DEF LInv, Owned
    <3>4. heap[b] # "dying"
      <4>1. SUFFICES ASSUME heap[b] = "dying" PROVE FALSE
        OBVIOUS
      <4>2. PICK c \in Clients :
              pc[c] \in {"closed", "forget", "free"} /\ p[c] = b
        BY <4>1 DEF LInv, Owned
      <4>3. pc[c] = "free" \/ b = m_pThis
        BY <4>2 DEF LInv, Pointers
      <4> QED
        BY <2>3, <3>1, <4>1, <4>2, <4>3 DEF LInv, Pointers
    <3> QED
      BY <3>2, <3>3, <3>4 DEF LInv, TypeOK
  <2> QED
    BY <2>1, <2>2, <2>3 DEF LInv, TypeOK
<1>2. ASSUME LInv, NEW c \in Clients, pc[c] \in Creating
      PROVE  m_pThis = Null /\ \A a \in Addrs : heap[a] \in {"free", "raw"}
  <2> USE <1>2
  <2>1. m_pThis = Null /\ \A d \in Clients \ {c} : pc[d] = "out"
    BY <1>2 DEF LInv, Solo, Pointers
  <2>2. \A a \in Addrs : heap[a] # "built"
    BY <2>1, Finite DEF LInv, Owned
  <2>3. \A a \in Addrs : heap[a] # "dying"
    BY <2>1 DEF LInv, Owned, Creating
  <2> QED
    BY <2>1, <2>2, <2>3 DEF LInv, TypeOK
<1>3. LInv => OneInstance
  BY <1>1, <1>2 DEF LInv, Owned, OneInstance
<1> QED
  BY <1>3, LAlways, PTL

\* m_refCount is the number of references, for any number of clients.
THEOREM CountIsExact == Spec => []CountExact
<1>1. LInv => CountExact
  BY DEF LInv
<1> QED
  BY <1>1, LAlways, PTL

\* Freed memory had its ring deleted and its tuner closed, and when no
\* client has the driver no instance is left.
THEOREM NothingIsLeft == Spec => []NothingLeft
<1>1. ASSUME LInv, \A c \in Clients : pc[c] = "out", NEW a \in Addrs
      PROVE  heap[a] = "free"
  <2> USE <1>1
  <2>1. heap[a] \notin {"raw", "dying"}
    BY DEF LInv, Owned
  <2>2. SUFFICES ASSUME heap[a] = "built" PROVE FALSE
    BY <2>1 DEF LInv, TypeOK
  <2>3. Cardinality(Counted) = 0
    <3>1. Counted = {}
      BY DEF Counted
    <3> QED
      BY <3>1, FS_EmptySet
  <2>4. m_refCount[a] = 0
    BY <2>2, <2>3 DEF LInv, CountExact
  <2>5. m_refCount[a] >= 1
    BY <2>2 DEF LInv, InUse
  <2> QED
    BY <2>4, <2>5
<1>2. ASSUME LInv, \A c \in Clients : pc[c] = "out"
      PROVE  m_pThis = Null
  BY <1>1, <1>2 DEF LInv, TypeOK, Owned
<1>3. LInv => NothingLeft
  BY <1>1, <1>2 DEF LInv, Clean, NothingLeft
<1> QED
  BY <1>3, LAlways, PTL

=============================================================================
