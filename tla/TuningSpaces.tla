---------------------------- MODULE TuningSpaces ----------------------------
(***************************************************************************)
(* The tuning spaces of CBonTuner (src/src/BonDriver_LinuxMirakc.cpp): how *)
(* OpenTuner cuts the server's channel list into spaces (InitChannel), and *)
(* how a host's (space, channel) pair is turned back into an entry of the  *)
(* list (EnumTuningSpace, EnumChannelName, SetChannel).                    *)
(*                                                                         *)
(* The list is what the server sends; an entry is its type and whether it  *)
(* has the fields that are read after the scan.  InitChannel is a loop     *)
(* over the list and one turn of it is one action.                         *)
(***************************************************************************)
EXTENDS Integers, Sequences

CONSTANTS
  Types,      \* the values of an entry's "type"
  NoType,     \* the "type" of an entry that has none, or not a string
  Null,       \* NULL
  SPACE_NUM,  \* most tuning spaces
  DWORD,      \* the modulus of DWORD arithmetic (2^32)
  MaxEntries  \* bound: entries of a list

ASSUME SpaceBounds ==
  /\ SPACE_NUM \in Nat \ {0}
  /\ MaxEntries \in Nat /\ DWORD \in Nat /\ MaxEntries < DWORD

ASSUME Distinct == NoType \notin Types /\ Null \notin Types \cup {NoType}

VARIABLES
  pc,              \* "idle", or "scan" in the loop of InitChannel
  g_Channel_JSON,  \* the list; entry n of the code is g_Channel_JSON[n + 1]
  i, j,            \* the loop's entry and space
  g_pType, g_Channel_Base, g_Max_Type,
  cur              \* <<m_dwCurSpace, m_dwCurChannel>>, Null for 0xffffffff

vars == <<pc, g_Channel_JSON, i, j, g_pType, g_Channel_Base, g_Max_Type, cur>>

Spaces  == 0..(SPACE_NUM - 1)
Entries == [type : Types \cup {NoType}, complete : BOOLEAN]
Lists   == UNION {[1..n -> Entries] : n \in 0..MaxEntries}

\* g_Channel_JSON.contains(n)
Contains(n) == n < Len(g_Channel_JSON)
Entry(n)    == g_Channel_JSON[n + 1]

----------------------------------------------------------------------------
(* OpenTuner and CloseTuner.                                               *)

ForgetChannel_Skip == UNCHANGED cur
ForgetChannel == cur' = Null

FreeNames ==
  /\ g_pType' = [k \in Spaces |-> IF k <= g_Max_Type THEN Null ELSE g_pType[k]]
  /\ g_Max_Type' = -1

CloseTuner ==
  /\ pc = "idle"
  /\ ForgetChannel /\ FreeNames
  /\ UNCHANGED <<pc, g_Channel_JSON, i, j, g_Channel_Base>>

\* The list was fetched and replaces the old one.  An empty one, or one that
\* is not an array, ends the call.
InitChannel(list) ==
  /\ g_Channel_JSON' = list
  /\ pc' = IF Len(list) = 0 THEN "idle" ELSE "scan"
  /\ i' = 0 /\ j' = -1
  /\ UNCHANGED g_Channel_Base

\* OpenTuner closes first.  When the fetch fails, that is all it does: then it
\* is the same step as CloseTuner.
OpenTuner(list) ==
  /\ pc = "idle"
  /\ ForgetChannel /\ FreeNames
  /\ InitChannel(list)

(* The loop of InitChannel. *)

\* The entry is of the space being filled.
SameSpace == j >= 0 /\ Entry(i).type = g_pType[j]

NoMoreSpaces_OffByOne == j + 1 > SPACE_NUM
NoMoreSpaces == j + 1 >= SPACE_NUM

\* After the loop: the spaces found so far are the tuner's.
EndOfScan ==
  /\ pc' = "idle"
  /\ g_Max_Type' = j
  /\ UNCHANGED <<g_Channel_JSON, i, j, g_pType, g_Channel_Base, cur>>

scan_SameSpace ==
  /\ pc = "scan" /\ Contains(i)
  /\ Entry(i).type # NoType /\ SameSpace
  /\ i' = i + 1
  /\ UNCHANGED <<pc, g_Channel_JSON, j, g_pType, g_Channel_Base, g_Max_Type, cur>>

scan_NewSpace ==
  /\ pc = "scan" /\ Contains(i)
  /\ Entry(i).type # NoType /\ ~SameSpace /\ ~NoMoreSpaces
  /\ j' = j + 1 /\ i' = i + 1
  /\ g_pType' = [g_pType EXCEPT ![j + 1] = Entry(i).type]
  /\ g_Channel_Base' = [g_Channel_Base EXCEPT ![j + 1] = i]
  /\ UNCHANGED <<pc, g_Channel_JSON, g_Max_Type, cur>>

\* The loop is left at entry i: the list is at its end, there is no room for
\* another space, or malloc failed for its name.
scan_End ==
  /\ pc = "scan"
  /\ \/ ~Contains(i)
     \/ Contains(i) /\ Entry(i).type # NoType /\ ~SameSpace
  /\ EndOfScan

\* Reading the entry's type throws: all names are freed, the call fails.
scan_Exception_KeepNames ==
  /\ pc = "scan" /\ Contains(i) /\ Entry(i).type = NoType
  /\ pc' = "idle" /\ g_Max_Type' = -1
  /\ UNCHANGED <<g_Channel_JSON, i, j, g_pType, g_Channel_Base, cur>>
scan_Exception ==
  /\ pc = "scan" /\ Contains(i) /\ Entry(i).type = NoType
  /\ pc' = "idle" /\ g_Max_Type' = -1
  /\ g_pType' = [k \in Spaces |-> Null]
  /\ UNCHANGED <<g_Channel_JSON, i, j, g_Channel_Base, cur>>

----------------------------------------------------------------------------
(* From a (space, channel) pair to an entry.                               *)

Bon_Channel(dwSpace, dwChannel) == (dwChannel + g_Channel_Base[dwSpace]) % DWORD

\* What EnumChannelName and SetChannel both check of their arguments.
Accepts_NoWrapCheck(dwSpace, dwChannel) ==
  /\ dwSpace <= g_Max_Type
  /\ LET n == Bon_Channel(dwSpace, dwChannel) IN
     /\ Contains(n)
     /\ dwSpace < g_Max_Type => n < g_Channel_Base[dwSpace + 1]

Accepts_NoRangeCheck(dwSpace, dwChannel) ==
  /\ dwSpace <= g_Max_Type
  /\ LET n == Bon_Channel(dwSpace, dwChannel) IN
     n >= g_Channel_Base[dwSpace] /\ Contains(n)

Accepts(dwSpace, dwChannel) ==
  /\ dwSpace <= g_Max_Type
  /\ LET n == Bon_Channel(dwSpace, dwChannel) IN
     /\ n >= g_Channel_Base[dwSpace]
     /\ Contains(n)
     /\ dwSpace < g_Max_Type => n < g_Channel_Base[dwSpace + 1]

EnumTuningSpace(dwSpace) ==
  IF dwSpace <= g_Max_Type THEN g_pType[dwSpace] ELSE Null

\* SetChannel for a pair that is accepted.  The stream is granted, or refused
\* and no channel is current.  A rejected pair, and an entry without the
\* fields the URL is made of, change nothing.  SetChannel(BYTE) is the same
\* with space 0 and channel bCh - 13.
SetChannel(dwSpace, dwChannel) ==
  /\ pc = "idle"
  /\ Accepts(dwSpace, dwChannel)
  /\ Entry(Bon_Channel(dwSpace, dwChannel)).complete
  /\ cur' \in {<<dwSpace, dwChannel>>, Null}
  /\ UNCHANGED <<pc, g_Channel_JSON, i, j, g_pType, g_Channel_Base, g_Max_Type>>

----------------------------------------------------------------------------

Init ==
  /\ pc = "idle" /\ g_Channel_JSON = << >> /\ i = 0 /\ j = -1
  /\ g_pType = [k \in Spaces |-> Null] /\ g_Channel_Base = [k \in Spaces |-> 0]
  /\ g_Max_Type = -1 /\ cur = Null

Next ==
  \/ CloseTuner \/ \E list \in Lists : OpenTuner(list)
  \/ scan_SameSpace \/ scan_NewSpace \/ scan_End \/ scan_Exception
  \/ \E dwSpace \in Spaces, dwChannel \in 0..(DWORD - 1) :
       SetChannel(dwSpace, dwChannel)

Spec == Init /\ [][Next]_vars

----------------------------------------------------------------------------
(* Properties.                                                             *)

\* Every variable has its type; g_Max_Type and j stay below SPACE_NUM.
TypeOK ==
  /\ pc \in {"idle", "scan"}
  /\ g_Channel_JSON \in Lists
  /\ i \in 0..Len(g_Channel_JSON)
  /\ j \in -1..(SPACE_NUM - 1) /\ g_Max_Type \in -1..(SPACE_NUM - 1)
  /\ g_pType \in [Spaces -> Types \cup {Null}]
  /\ g_Channel_Base \in [Spaces -> 0..MaxEntries]
  /\ cur \in (Spaces \X (0..(DWORD - 1))) \cup {Null}

\* Between calls the names that are allocated are those of the spaces that
\* exist, so a later open leaks none, and nothing reads a freed one.
NamesOwned ==
  pc = "idle" => \A k \in Spaces : g_pType[k] # Null <=> k <= g_Max_Type

\* On an open tuner every entry of the list is one channel of one space: no
\* entry is out of reach, and no two pairs tune to the same one, not even by
\* wrapping around the width of DWORD.
AddressedOnce ==
  g_Max_Type >= 0 =>
    \A n \in 0..(Len(g_Channel_JSON) - 1) :
      \E sp \in Spaces, ch \in 0..(DWORD - 1) :
        /\ Accepts(sp, ch) /\ Bon_Channel(sp, ch) = n
        /\ \A sp2 \in Spaces, ch2 \in 0..(DWORD - 1) :
             Accepts(sp2, ch2) /\ Bon_Channel(sp2, ch2) = n => sp2 = sp /\ ch2 = ch

\* A channel listed under a space is of the space's type.  For the last space
\* this holds of the entries the scan has seen.
SpaceHoldsItsType ==
  \A sp \in Spaces, ch \in 0..(DWORD - 1) :
    pc = "idle" /\ Accepts(sp, ch) /\ Bon_Channel(sp, ch) < i =>
      Entry(Bon_Channel(sp, ch)).type = EnumTuningSpace(sp)

\* Once the table of spaces is full, the last one holds one type too: the
\* comment on lines 637-638 says it is given the channels of its type.
LastSpaceOfOneType ==
  pc = "idle" /\ g_Max_Type = SPACE_NUM - 1 =>
    \A ch \in 0..(DWORD - 1) :
      Accepts(g_Max_Type, ch) =>
        Entry(Bon_Channel(g_Max_Type, ch)).type = EnumTuningSpace(g_Max_Type)

\* While a channel is current it is one of the list's: the numbers the host
\* reads back never outlive the list they index.
CurrentIsListed ==
  cur # Null => pc = "idle" /\ Accepts(cur[1], cur[2])

=============================================================================
