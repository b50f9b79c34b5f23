------------------------- MODULE TuningSpacesProofs -------------------------
(***************************************************************************)
(* Theorems about the tuning spaces, for every set of types, every number  *)
(* of spaces, every width of DWORD and lists of any length below it.       *)
(***************************************************************************)
EXTENDS TuningSpaces, TLAPS

----------------------------------------------------------------------------
(* Arithmetic and lists.                                                   *)

\* A sum of a channel number and a base wraps around at most once.
LEMMA AddWraps ==
  ASSUME NEW c \in 0..(DWORD - 1), NEW b \in 0..(DWORD - 1)
  PROVE  (c + b) % DWORD = IF c + b < DWORD THEN c + b ELSE c + b - DWORD
BY SpaceBounds

\* A list is a sequence of entries, of bounded length.
LEMMA ListIsSeq ==
  ASSUME NEW list \in Lists
  PROVE  /\ list \in Seq(Entries)
         /\ Len(list) \in 0..MaxEntries
         /\ \A n \in 0..(Len(list) - 1) : list[n + 1] \in Entries
<1>1. PICK n \in 0..MaxEntries : list \in [1..n -> Entries]
  BY DEF Lists
<1>2. n \in Nat
  BY <1>1, SpaceBounds
<1>3. list \in Seq(Entries) /\ Len(list) = n
  BY <1>1, <1>2
<1>4. QED
  BY <1>1, <1>2, <1>3

----------------------------------------------------------------------------
(* Types.                                                                  *)

\* Every reachable state is well typed; in particular the scan never writes
\* past the end of g_pType and g_Channel_Base, however long the list is.
THEOREM TypeCorrect == Spec => []TypeOK
<1>1. Init => TypeOK
  <2> SUFFICES ASSUME Init PROVE TypeOK
    OBVIOUS
  <2>1. << >> \in Lists /\ Len(<< >>) = 0
    <3>1. << >> \in [1..0 -> Entries]
      OBVIOUS
    <3>2. 0 \in 0..MaxEntries
      BY SpaceBounds
    <3>3. QED
      BY <3>1, <3>2 DEF Lists
  <2>2. QED
    BY <2>1, SpaceBounds DEF Init, TypeOK, Spaces
<1>2. TypeOK /\ [Next]_vars => TypeOK'
  <2> SUFFICES ASSUME TypeOK, [Next]_vars PROVE TypeOK'
    OBVIOUS
  <2> USE DEF TypeOK
  <2>1. Len(g_Channel_JSON) \in 0..MaxEntries
    BY ListIsSeq
  <2>2. CASE CloseTuner
    BY <2>2, SpaceBounds DEF CloseTuner, FreeNames, ForgetChannel
  <2>3. ASSUME NEW list \in Lists, OpenTuner(list) PROVE TypeOK'
    <3>1. Len(list) \in 0..MaxEntries
      BY ListIsSeq
    <3>2. QED
      BY <2>3, <3>1, SpaceBounds DEF OpenTuner, InitChannel, FreeNames, ForgetChannel
  <2>4. CASE scan_SameSpace
    BY <2>1, <2>4 DEF scan_SameSpace, Contains
  <2>5. CASE scan_NewSpace
    <3>1. Entry(i).type \in Types
      BY <2>5, <2>1, ListIsSeq DEF scan_NewSpace, Contains, Entry, Entries
    <3>2. j + 1 \in Spaces /\ i \in 0..MaxEntries
      BY <2>5, <2>1, SpaceBounds DEF scan_NewSpace, NoMoreSpaces, Spaces
    <3>3. QED
      BY <2>1, <2>5, <3>1, <3>2, SpaceBounds DEF scan_NewSpace, Contains, Spaces
  <2>6. CASE scan_End
    BY <2>6 DEF scan_End, EndOfScan
  <2>7. CASE scan_Exception
    BY <2>7, SpaceBounds DEF scan_Exception
  <2>8. ASSUME NEW sp \in Spaces, NEW ch \in 0..(DWORD - 1), SetChannel(sp, ch)
        PROVE  TypeOK'
    BY <2>8 DEF SetChannel
  <2>9. CASE UNCHANGED vars
    BY <2>9 DEF vars
  <2>10. QED
    BY <2>2, <2>3, <2>4, <2>5, <2>6, <2>7, <2>8, <2>9 DEF Next
<1>3. QED
  BY <1>1, <1>2, PTL DEF Spec

----------------------------------------------------------------------------
(* Names and the current channel.                                          *)

\* Also in the middle of a scan the names are those of the spaces found so
\* far, and no channel is current.
NamesInv ==
  /\ pc = "scan" => g_Max_Type = -1 /\ cur = Null
  /\ \A k \in Spaces :
       g_pType[k] # Null <=> k <= (IF pc = "scan" THEN j ELSE g_Max_Type)

\* The names are those of the spaces found so far, in every reachable state.
LEMMA NamesInvariant == Spec => []NamesInv
<1>1. Init => NamesInv
  BY DEF Init, NamesInv, Spaces
<1>2. TypeOK /\ NamesInv /\ [Next]_vars => NamesInv'
  <2> SUFFICES ASSUME TypeOK, NamesInv, [Next]_vars PROVE NamesInv'
    OBVIOUS
  <2> USE DEF NamesInv
  <2>0. Len(g_Channel_JSON) \in 0..MaxEntries
    BY ListIsSeq DEF TypeOK
  <2>1. CASE CloseTuner
    BY <2>1 DEF CloseTuner, FreeNames, ForgetChannel, TypeOK, Spaces
  <2>2. ASSUME NEW list \in Lists, OpenTuner(list) PROVE NamesInv'
    BY <2>2 DEF OpenTuner, InitChannel, FreeNames, ForgetChannel, TypeOK, Spaces
  <2>3. CASE scan_SameSpace
    BY <2>3 DEF scan_SameSpace
  <2>4. CASE scan_NewSpace
    <3>1. Entry(i).type \in Types /\ Entry(i).type # Null
      BY <2>0, <2>4, ListIsSeq, Distinct
      DEF scan_NewSpace, Contains, Entry, Entries, TypeOK
    <3>2. QED
      BY <2>4, <3>1 DEF scan_NewSpace, NoMoreSpaces, TypeOK, Spaces
  <2>5. CASE scan_End
    BY <2>5 DEF scan_End, EndOfScan
  <2>6. CASE scan_Exception
    BY <2>6 DEF scan_Exception, Spaces
  <2>7. ASSUME NEW sp \in Spaces, NEW ch \in 0..(DWORD - 1), SetChannel(sp, ch)
        PROVE  NamesInv'
    BY <2>7 DEF SetChannel
  <2>8. CASE UNCHANGED vars
    BY <2>8 DEF vars
  <2>9. QED
    BY <2>1, <2>2, <2>3, <2>4, <2>5, <2>6, <2>7, <2>8 DEF Next
<1>3. QED
  BY <1>1, <1>2, TypeCorrect, PTL DEF Spec

\* The allocated names are those of the existing spaces: none leaks when an
\* open fails or the tuner is opened again, and none is read after its free.
THEOREM NamesAreOwned == Spec => []NamesOwned
<1>1. NamesInv => NamesOwned
  BY DEF NamesInv, NamesOwned
<1>2. QED
  BY <1>1, NamesInvariant, PTL

\* The current channel is one the current list has.
THEOREM CurrentChannelIsListed == Spec => []CurrentIsListed
<1>1. Init => CurrentIsListed
  BY DEF Init, CurrentIsListed
<1>2. TypeOK /\ NamesInv /\ NamesInv' /\ CurrentIsListed /\ [Next]_vars
        => CurrentIsListed'
  <2> SUFFICES ASSUME TypeOK, NamesInv, NamesInv', CurrentIsListed, [Next]_vars
               PROVE  CurrentIsListed'
    OBVIOUS
  <2> USE DEF CurrentIsListed
  <2>1. CASE CloseTuner
    BY <2>1 DEF CloseTuner, FreeNames, ForgetChannel
  <2>2. ASSUME NEW list \in Lists, OpenTuner(list) PROVE CurrentIsListed'
    BY <2>2 DEF OpenTuner, InitChannel, FreeNames, ForgetChannel
  <2>3. CASE scan_SameSpace \/ scan_NewSpace \/ scan_End \/ scan_Exception
    BY <2>3
    DEF NamesInv, scan_SameSpace, scan_NewSpace, scan_End, scan_Exception, EndOfScan
  <2>4. ASSUME NEW sp \in Spaces, NEW ch \in 0..(DWORD - 1), SetChannel(sp, ch)
        PROVE  CurrentIsListed'
    BY <2>4 DEF SetChannel, Accepts, Bon_Channel, Contains
  <2>5. CASE UNCHANGED vars
    BY <2>5 DEF vars, Accepts, Bon_Channel, Contains
  <2>6. QED
    BY <2>1, <2>2, <2>3, <2>4, <2>5 DEF Next
<1>3. QED
  BY <1>1, <1>2, TypeCorrect, NamesInvariant, PTL DEF Spec

----------------------------------------------------------------------------
(* The cut of the list into spaces.                                        *)

\* Entry n is in space k, of the spaces 0..last that start at base.
Within(base, last, n, k) ==
  base[k] <= n /\ (k < last => n < base[k + 1])

\* The spaces start at entry 0 and at growing entries, each entry the scan has
\* passed is in one of them, and has its type.
Cut ==
  /\ i > 0 => j >= 0
  /\ \A k \in 0..j : g_Channel_Base[k] < i
  /\ \A a, b \in 0..j : a < b => g_Channel_Base[a] < g_Channel_Base[b]
  /\ \A n \in 0..(i - 1) : \E k \in 0..j : Within(g_Channel_Base, j, n, k)
  /\ \A n \in 0..(i - 1), k \in 0..j :
       Within(g_Channel_Base, j, n, k) => Entry(n).type = g_pType[k]

CutInv ==
  /\ g_Max_Type >= 0 => g_Max_Type = j
  /\ pc = "scan" \/ g_Max_Type >= 0 => Cut

\* The scan keeps the cut, and it is what the open tuner is left with.
LEMMA CutInvariant == Spec => []CutInv
<1>1. Init => CutInv
  BY DEF Init, CutInv
<1>2. TypeOK /\ NamesInv /\ CutInv /\ [Next]_vars => CutInv'
  <2> SUFFICES ASSUME TypeOK, NamesInv, CutInv, [Next]_vars PROVE CutInv'
    OBVIOUS
  <2>0. Len(g_Channel_JSON) \in 0..MaxEntries
    BY ListIsSeq DEF TypeOK
  <2>1. CASE CloseTuner
    BY <2>1 DEF CloseTuner, FreeNames, CutInv
  <2>2. ASSUME NEW list \in Lists, OpenTuner(list) PROVE CutInv'
    BY <2>2 DEF OpenTuner, InitChannel, FreeNames, CutInv, Cut
  <2>3. CASE scan_SameSpace
    <3>1. Cut /\ j >= 0 /\ Entry(i).type = g_pType[j] /\ i < Len(g_Channel_JSON)
      BY <2>3 DEF scan_SameSpace, SameSpace, CutInv, Contains
    <3>2. /\ i' = i + 1
          /\ UNCHANGED <<pc, g_Channel_JSON, j, g_pType, g_Channel_Base, g_Max_Type>>
      BY <2>3 DEF scan_SameSpace
    <3>3. /\ i \in Nat /\ j \in Nat
          /\ \A k \in 0..j : g_Channel_Base[k] \in Int /\ g_Channel_Base[k] < i
      BY <3>1, SpaceBounds DEF Cut, TypeOK, Spaces
    <3>4. Within(g_Channel_Base, j, i, j)
      BY <3>3 DEF Within
    <3>5. ASSUME NEW k \in 0..j, Within(g_Channel_Base, j, i, k) PROVE k = j
      <4>1. CASE k < j
        <5>1. k + 1 \in 0..j
          BY <3>3, <4>1
        <5>2. g_Channel_Base[k + 1] < i /\ i < g_Channel_Base[k + 1]
          BY <3>3, <3>5, <4>1, <5>1 DEF Within
        <5>3. QED
          BY <3>3, <5>1, <5>2
      <4>2. QED
        BY <3>3, <4>1
    <3>6. ASSUME NEW n \in 0..(i' - 1)
          PROVE  /\ \E k \in 0..j : Within(g_Channel_Base, j, n, k)
                 /\ \A k \in 0..j : Within(g_Channel_Base, j, n, k) =>
                                      Entry(n).type = g_pType[k]
      <4>1. CASE n = i
        BY <3>1, <3>3, <3>4, <3>5, <4>1
      <4>2. CASE n \in 0..(i - 1)
        BY <3>1, <4>2 DEF Cut
      <4>3. QED
        BY <3>2, <3>3, <4>1, <4>2
    <3>7. Cut'
      <4>1. i' > 0 => j' >= 0
        BY <3>2, <3>3
      <4>2. \A k \in 0..j' : g_Channel_Base'[k] < i'
        BY <3>2, <3>3
      <4>3. \A a, b \in 0..j' : a < b => g_Channel_Base'[a] < g_Channel_Base'[b]
        BY <3>1, <3>2 DEF Cut
      <4>4. \A n \in 0..(i' - 1) : \E k \in 0..j' : Within(g_Channel_Base', j', n, k)
        BY <3>2, <3>6
      <4>5. \A n \in 0..(i' - 1), k \in 0..j' :
              Within(g_Channel_Base', j', n, k) => Entry(n)'.type = g_pType'[k]
        BY <3>2, <3>6 DEF Entry
      <4>6. QED
        BY <4>1, <4>2, <4>3, <4>4, <4>5 DEF Cut
    <3>8. QED
      BY <3>2, <3>7 DEF CutInv
  <2>4. CASE scan_NewSpace
    <3>1. Cut /\ i < Len(g_Channel_JSON) /\ j + 1 < SPACE_NUM
      BY <2>4, SpaceBounds
      DEF scan_NewSpace, NoMoreSpaces, CutInv, Contains, TypeOK
    <3>2. /\ i' = i + 1 /\ j' = j + 1
          /\ g_pType' = [g_pType EXCEPT ![j + 1] = Entry(i).type]
          /\ g_Channel_Base' = [g_Channel_Base EXCEPT ![j + 1] = i]
          /\ UNCHANGED <<pc, g_Channel_JSON, g_Max_Type>>
      BY <2>4 DEF scan_NewSpace
    <3>0. /\ i \in Nat /\ j \in Int /\ j + 1 \in Nat /\ j + 1 \in Spaces
          /\ \A k \in 0..j : k \in Spaces /\ k # j + 1 /\ g_Channel_Base[k] \in Int
      BY <3>1, SpaceBounds DEF TypeOK, Spaces
    <3>3. /\ \A k \in 0..j : g_Channel_Base'[k] = g_Channel_Base[k]
                               /\ g_pType'[k] = g_pType[k]
          /\ g_Channel_Base'[j + 1] = i /\ g_pType'[j + 1] = Entry(i).type
      BY <3>0, <3>2 DEF TypeOK
    <3>4. \A n \in 0..(i - 1), k \in 0..j :
            Within(g_Channel_Base', j', n, k) <=> Within(g_Channel_Base, j, n, k)
      <4>1. ASSUME NEW n \in 0..(i - 1), NEW k \in 0..j
            PROVE  Within(g_Channel_Base', j', n, k) <=> Within(g_Channel_Base, j, n, k)
        <5>1. CASE k = j
          BY <3>0, <3>2, <3>3, <5>1 DEF Within
        <5>2. CASE k < j
          <6>1. k + 1 \in 0..j /\ k < j'
            BY <3>0, <3>2, <5>2
          <6>2. QED
            BY <3>3, <5>2, <6>1 DEF Within
        <5>3. QED
          BY <3>0, <5>1, <5>2
      <4>2. QED
        BY <4>1
    <3>5. \A n \in 0..(i - 1) : ~Within(g_Channel_Base', j', n, j + 1)
      BY <3>0, <3>3 DEF Within
    <3>6. /\ Within(g_Channel_Base', j', i, j + 1)
          /\ \A k \in 0..j : ~Within(g_Channel_Base', j', i, k)
      <4>1. Within(g_Channel_Base', j', i, j + 1)
        BY <3>0, <3>2, <3>3 DEF Within
      <4>2. ASSUME NEW k \in 0..j PROVE ~Within(g_Channel_Base', j', i, k)
        <5>1. CASE k = j
          BY <3>0, <3>2, <3>3, <5>1 DEF Within
        <5>2. CASE k < j
          <6>1. k + 1 \in 0..j /\ k < j'
            BY <3>0, <3>2, <5>2
          <6>2. g_Channel_Base'[k + 1] = g_Channel_Base[k + 1] /\ g_Channel_Base[k + 1] < i
            BY <3>1, <3>3, <6>1 DEF Cut
          <6>3. QED
            BY <3>0, <6>1, <6>2 DEF Within
        <5>3. QED
          BY <3>0, <5>1, <5>2
      <4>3. QED
        BY <4>1, <4>2
    <3>7. Cut'
      <4>1. i' > 0 /\ j' >= 0
        BY <3>2, <3>0
      <4>2. ASSUME NEW k \in 0..j' PROVE g_Channel_Base'[k] < i'
        <5>1. CASE k = j + 1
          BY <3>2, <3>3, <3>0, <5>1
        <5>2. CASE k \in 0..j
          <6>1. g_Channel_Base'[k] = g_Channel_Base[k] /\ g_Channel_Base[k] < i
            BY <3>1, <3>3, <5>2 DEF Cut
          <6>2. g_Channel_Base[k] \in Int
            BY <3>0, <5>2
          <6>3. QED
            BY <3>2, <3>0, <6>1, <6>2
        <5>3. QED
          BY <3>2, <3>0, <5>1, <5>2
      <4>3. ASSUME NEW a \in 0..j', NEW b \in 0..j', a < b
            PROVE  g_Channel_Base'[a] < g_Channel_Base'[b]
        <5>1. a \in 0..j /\ (b \in 0..j \/ b = j + 1)
          BY <3>0, <3>2, <4>3
        <5>2. CASE b = j + 1
          BY <3>1, <3>3, <5>1, <5>2 DEF Cut
        <5>3. CASE b \in 0..j
          BY <3>1, <3>3, <4>3, <5>1, <5>3 DEF Cut
        <5>4. QED
          BY <5>1, <5>2, <5>3
      <4>4. \A n \in 0..(i' - 1) : \E k \in 0..j' : Within(g_Channel_Base', j', n, k)
        <5>1. ASSUME NEW n \in 0..(i' - 1)
              PROVE  \E k \in 0..j' : Within(g_Channel_Base', j', n, k)
          <6>0. n = i \/ n \in 0..(i - 1)
            BY <3>0, <3>2
          <6>1. CASE n = i
            <7>1. j + 1 \in 0..j'
              BY <3>2, <3>0
            <7>2. QED
              BY <3>6, <6>1, <7>1
          <6>2. CASE n \in 0..(i - 1)
            <7>1. PICK k \in 0..j : Within(g_Channel_Base, j, n, k)
              BY <3>1, <6>2 DEF Cut
            <7>2. Within(g_Channel_Base', j', n, k)
              BY <3>4, <6>2, <7>1
            <7>3. k \in 0..j'
              BY <3>0, <3>2
            <7>4. QED
              BY <7>2, <7>3
          <6>3. QED
            BY <6>0, <6>1, <6>2
        <5>2. QED
          BY <5>1
      <4>5. \A n \in 0..(i' - 1), k \in 0..j' :
              Within(g_Channel_Base', j', n, k) => Entry(n)'.type = g_pType'[k]
        <5>1. ASSUME NEW n \in 0..(i' - 1), NEW k \in 0..j',
                     Within(g_Channel_Base', j', n, k)
              PROVE  Entry(n).type = g_pType'[k]
          <6>0. k \in 0..j \/ k = j + 1
            BY <3>2, <3>0
          <6>1. CASE n = i
            BY <3>3, <3>6, <5>1, <6>0, <6>1
          <6>2. CASE n \in 0..(i - 1)
            <7>1. k \in 0..j
              BY <3>5, <5>1, <6>0, <6>2
            <7>2. Within(g_Channel_Base, j, n, k)
              BY <3>4, <5>1, <6>2, <7>1
            <7>3. QED
              BY <3>1, <3>3, <6>2, <7>1, <7>2 DEF Cut
          <6>3. QED
            BY <3>2, <3>0, <6>1, <6>2
        <5>2. QED
          BY <3>2, <5>1 DEF Entry
      <4>6. QED
        BY <4>1, <4>2, <4>3, <4>4, <4>5 DEF Cut
    <3>8. g_Max_Type' = -1
      BY <2>4 DEF scan_NewSpace, NamesInv
    <3>9. QED
      BY <3>7, <3>8 DEF CutInv
  <2>5. CASE scan_End
    BY <2>5 DEF scan_End, EndOfScan, CutInv, Cut, Within, Entry
  <2>6. CASE scan_Exception
    BY <2>6 DEF scan_Exception, CutInv
  <2>7. ASSUME NEW sp \in Spaces, NEW ch \in 0..(DWORD - 1), SetChannel(sp, ch)
        PROVE  CutInv'
    BY <2>7 DEF SetChannel, CutInv, Cut, Within, Entry
  <2>8. CASE UNCHANGED vars
    BY <2>8 DEF vars, CutInv, Cut, Within, Entry
  <2>9. QED
    BY <2>1, <2>2, <2>3, <2>4, <2>5, <2>6, <2>7, <2>8 DEF Next
<1>3. QED
  BY <1>1, <1>2, TypeCorrect, NamesInvariant, PTL DEF Spec

----------------------------------------------------------------------------
(* From a pair to an entry.                                                *)

\* A pair that is accepted denotes the entry its space starts at plus its
\* channel number, without a wrap around the width of DWORD.
LEMMA AcceptedEntry ==
  ASSUME TypeOK, NEW sp \in Spaces, NEW ch \in 0..(DWORD - 1), Accepts(sp, ch)
  PROVE  /\ Bon_Channel(sp, ch) = ch + g_Channel_Base[sp]
         /\ Bon_Channel(sp, ch) \in 0..(Len(g_Channel_JSON) - 1)
<1>1. g_Channel_Base[sp] \in 0..(DWORD - 1)
  BY SpaceBounds DEF TypeOK
<1>2. Bon_Channel(sp, ch) =
        IF ch + g_Channel_Base[sp] < DWORD THEN ch + g_Channel_Base[sp]
        ELSE ch + g_Channel_Base[sp] - DWORD
  BY <1>1, AddWraps DEF Bon_Channel
<1>3. /\ Bon_Channel(sp, ch) >= g_Channel_Base[sp]
      /\ Bon_Channel(sp, ch) < Len(g_Channel_JSON)
  BY DEF Accepts, Contains
<1>4. Len(g_Channel_JSON) \in Nat
  BY ListIsSeq, SpaceBounds DEF TypeOK
<1>5. QED
  BY <1>1, <1>2, <1>3, <1>4, SpaceBounds

\* A host can tune to every entry of the list, and to each by one pair only.
THEOREM EveryEntryAddressedOnce == Spec => []AddressedOnce
<1>1. TypeOK /\ CutInv => AddressedOnce
  <2> SUFFICES ASSUME TypeOK, CutInv, g_Max_Type >= 0,
                      NEW n \in 0..(Len(g_Channel_JSON) - 1)
               PROVE  \E sp \in Spaces, ch \in 0..(DWORD - 1) :
                        /\ Accepts(sp, ch) /\ Bon_Channel(sp, ch) = n
                        /\ \A sp2 \in Spaces, ch2 \in 0..(DWORD - 1) :
                             Accepts(sp2, ch2) /\ Bon_Channel(sp2, ch2) = n
                               => sp2 = sp /\ ch2 = ch
    BY DEF AddressedOnce
  <2>1. g_Max_Type = j /\ j \in Nat /\ Cut
    BY SpaceBounds DEF CutInv, TypeOK
  <2>2. Len(g_Channel_JSON) \in 0..MaxEntries /\ i \in Nat
    BY ListIsSeq, SpaceBounds DEF TypeOK
  <2>3. \A k \in 0..j : k \in Spaces /\ g_Channel_Base[k] \in 0..MaxEntries
    BY <2>1, SpaceBounds DEF TypeOK, Spaces
  <2>4. \E k \in 0..j : Within(g_Channel_Base, j, n, k)
    <3>1. CASE n \in 0..(i - 1)
      BY <2>1, <3>1 DEF Cut
    <3>2. CASE n >= i
      <4>1. j \in 0..j /\ g_Channel_Base[j] < i
        BY <2>1 DEF Cut
      <4>2. Within(g_Channel_Base, j, n, j)
        BY <2>1, <2>2, <2>3, <3>2, <4>1 DEF Within
      <4>3. QED
        BY <4>1, <4>2
    <3>3. QED
      BY <2>2, <3>1, <3>2
  <2>5. PICK sp \in 0..j : Within(g_Channel_Base, j, n, sp)
    BY <2>4
  <2>6. sp \in Spaces /\ g_Channel_Base[sp] \in 0..MaxEntries
    BY <2>3
  <2> DEFINE ch == n - g_Channel_Base[sp]
  <2>7. ch \in 0..(DWORD - 1)
    BY <2>2, <2>5, <2>6, SpaceBounds DEF Within
  <2>8. Bon_Channel(sp, ch) = n
    <3>1. g_Channel_Base[sp] \in 0..(DWORD - 1)
      BY <2>6, SpaceBounds
    <3>2. (ch + g_Channel_Base[sp]) % DWORD =
            IF ch + g_Channel_Base[sp] < DWORD THEN ch + g_Channel_Base[sp]
            ELSE ch + g_Channel_Base[sp] - DWORD
      BY <2>7, <3>1, AddWraps
    <3>3. ch + g_Channel_Base[sp] = n /\ n < DWORD
      BY <2>2, <2>6, SpaceBounds
    <3>4. QED
      BY <3>2, <3>3 DEF Bon_Channel
  <2>9. Accepts(sp, ch)
    BY <2>1, <2>2, <2>5, <2>8 DEF Accepts, Contains, Within
  <2>10. ASSUME NEW sp2 \in Spaces, NEW ch2 \in 0..(DWORD - 1),
                Accepts(sp2, ch2), Bon_Channel(sp2, ch2) = n
         PROVE  sp2 = sp /\ ch2 = ch
    <3>1. sp2 \in 0..j /\ Within(g_Channel_Base, j, n, sp2)
      BY <2>1, <2>10 DEF Accepts, Within, Spaces
    <3>2. \A a, b \in 0..j :
            Within(g_Channel_Base, j, n, a) /\ Within(g_Channel_Base, j, n, b)
              => ~(a < b)
      <4>1. ASSUME NEW a \in 0..j, NEW b \in 0..j, a < b,
                   Within(g_Channel_Base, j, n, a), Within(g_Channel_Base, j, n, b)
            PROVE  FALSE
        <5>1. a + 1 \in 0..j /\ (a + 1 = b \/ a + 1 < b)
          BY <2>1, <4>1
        <5>2. g_Channel_Base[a + 1] <= g_Channel_Base[b]
          BY <2>1, <2>3, <5>1 DEF Cut
        <5>3. n < g_Channel_Base[a + 1] /\ g_Channel_Base[b] <= n
          BY <2>1, <4>1, <5>1 DEF Within
        <5>4. g_Channel_Base[a + 1] \in Nat /\ g_Channel_Base[b] \in Nat /\ n \in Nat
          BY <2>2, <2>3, <5>1, SpaceBounds
        <5>5. QED
          BY <5>2, <5>3, <5>4
      <4>2. QED
        BY <4>1
    <3>3. sp2 = sp
      BY <2>1, <2>5, <3>1, <3>2
    <3>4. n = ch2 + g_Channel_Base[sp2]
      BY <2>10, AcceptedEntry
    <3>5. QED
      BY <2>6, <3>3, <3>4
  <2>11. QED
    BY <2>6, <2>7, <2>8, <2>9, <2>10
<1>2. QED
  BY <1>1, TypeCorrect, CutInvariant, PTL

\* What is listed under a space is of its type, as far as the scan has seen.
THEOREM ListedTypeIsRight == Spec => []SpaceHoldsItsType
<1>1. TypeOK /\ CutInv => SpaceHoldsItsType
  <2> SUFFICES ASSUME TypeOK, CutInv, NEW sp \in Spaces, NEW ch \in 0..(DWORD - 1),
                      pc = "idle", Accepts(sp, ch), Bon_Channel(sp, ch) < i
               PROVE  Entry(Bon_Channel(sp, ch)).type = EnumTuningSpace(sp)
    BY DEF SpaceHoldsItsType
  <2>1. sp <= g_Max_Type /\ g_Max_Type = j /\ Cut
    BY SpaceBounds DEF Accepts, CutInv, TypeOK, Spaces
  <2>2. Bon_Channel(sp, ch) \in 0..(i - 1) /\ sp \in 0..j
    BY <2>1, AcceptedEntry DEF TypeOK, Spaces
  <2>3. Within(g_Channel_Base, j, Bon_Channel(sp, ch), sp)
    BY <2>1 DEF Accepts, Within
  <2>4. QED
    BY <2>1, <2>2, <2>3 DEF Cut, EnumTuningSpace
<1>2. QED
  BY <1>1, TypeCorrect, CutInvariant, PTL

=============================================================================
