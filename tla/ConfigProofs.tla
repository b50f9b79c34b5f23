---------------------------- MODULE ConfigProofs ----------------------------
(***************************************************************************)
(* Proofs about Config, for every set of files, every alphabet and every   *)
(* set of settings: the types, and that the settings are what the first    *)
(* [GLOBAL] section of the file says.                                      *)
(***************************************************************************)
EXTENDS Config, TLAPS, SequenceTheorems,
        FiniteSetTheorems, WellFoundedInduction

----------------------------------------------------------------------------
(* Minima and maxima.                                                      *)

LEMMA MinIs ==
  ASSUME NEW S \in SUBSET Nat, S # {}
  PROVE  /\ Min(S) \in S
         /\ \A n \in S : Min(S) <= n
<1> DEFINE T == {1..n : n \in S}
           R == StrictSubsetOrdering(Nat)
<1>1. T \subseteq FiniteSubsetsOf(Nat) /\ T # {}
  <2>1. \A n \in S : IsFiniteSet(1..n)
    BY FS_Interval
  <2>2. \A n \in S : 1..n \in SUBSET Nat
    OBVIOUS
  <2>3. \A n \in S : 1..n \in FiniteSubsetsOf(Nat)
    BY <2>1, <2>2 DEF FiniteSubsetsOf
  <2> QED
    BY <2>3
<1>2. PICK t \in T : \A u \in T : <<u, t>> \notin R
  BY <1>1, FS_StrictSubsetOrderingWellFounded, WFMin
<1>3. PICK m \in S : t = 1..m
  OBVIOUS
<1>4. ASSUME NEW k \in S, k < m
      PROVE  FALSE
  <2>1. 1..k \in T
    OBVIOUS
  <2>2. 1..k \in SUBSET Nat /\ 1..m \in SUBSET Nat
    OBVIOUS
  <2>3. m \in 1..m /\ m \notin 1..k /\ 1..k \subseteq 1..m
    BY <1>4
  <2> HIDE DEF T
  <2>4. <<(1..k), t>> \in R
    BY <1>3, <2>2, <2>3 DEF StrictSubsetOrdering
  <2> QED
    BY <1>2, <2>1, <2>4
<1>5. \A k \in S : m =< k
  BY <1>4
<1> QED
  BY <1>5 DEF Min

LEMMA MaxIs ==
  ASSUME NEW b \in Nat, NEW S \in SUBSET (0..b), S # {}
  PROVE  /\ Max(S) \in S
         /\ \A n \in S : n <= Max(S)
<1> DEFINE R == {b - n : n \in S}
<1>1. R \in SUBSET Nat /\ R # {}
  <2>1. \A n \in S : n \in Nat /\ b - n \in Nat
    OBVIOUS
  <2> QED
    BY <2>1
<1>2. Min(R) \in R /\ \A n \in R : Min(R) <= n
  BY <1>1, MinIs
<1> HIDE DEF R
<1>3. b - Min(R) \in S /\ \A n \in S : b - Min(R) >= n
  <2>1. PICK m \in S : Min(R) = b - m
    BY <1>2 DEF R
  <2>2. b - Min(R) = m
    BY <2>1
  <2>3. \A n \in S : b - n \in R
    BY DEF R
  <2> QED
    BY <1>2, <2>1, <2>2, <2>3
<1>4. \E m \in S : \A n \in S : m >= n
  BY <1>3
<1>5. Max(S) \in S /\ \A n \in S : Max(S) >= n
  BY <1>4 DEF Max
<1> QED
  BY <1>5

LEMMA MinUnique ==
  ASSUME NEW S \in SUBSET Nat, NEW m \in S, \A n \in S : m <= n
  PROVE  Min(S) = m
<1>1. Min(S) \in S /\ \A n \in S : Min(S) <= n
  BY MinIs
<1>2. Min(S) \in Nat /\ m \in Nat
  BY <1>1
<1>3. Min(S) <= m /\ m <= Min(S)
  BY <1>1
<1> QED
  BY <1>2, <1>3

----------------------------------------------------------------------------
(* Texts and their parts.                                                  *)

LEMMA TextFacts ==
  ASSUME NEW s \in Text
  PROVE  Len(s) \in Nat /\ \A i \in 1..Len(s) : s[i] \in Chars
BY LenProperties DEF Text

LEMMA PartIsText ==
  ASSUME NEW s \in Text, NEW m \in Nat \ {0}, NEW n \in Int, n <= Len(s)
  PROVE  /\ SubSeq(s, m, n) \in Text
         /\ Len(SubSeq(s, m, n)) = IF m <= n THEN n - m + 1 ELSE 0
         /\ \A i \in 1..(n - m + 1) : SubSeq(s, m, n)[i] = s[m + i - 1]
<1>1. Len(s) \in Nat /\ \A i \in m..n : s[i] \in Chars
  BY TextFacts
<1>2. /\ SubSeq(s, m, n) \in Seq(Chars)
      /\ Len(SubSeq(s, m, n)) = IF m <= n THEN n - m + 1 ELSE 0
      /\ \A i \in 1..(n - m + 1) : SubSeq(s, m, n)[i] = s[m + i - 1]
  BY <1>1, SubSeqProperties
<1> QED
  BY <1>2 DEF Text

LEMMA FindIs ==
  ASSUME NEW s \in Text, NEW C, NEW from \in Nat \ {0}
  PROVE  /\ Find(s, C, from) \in 1..(Len(s) + 1)
         /\ Find(s, C, from) <= Len(s) =>
              Find(s, C, from) >= from /\ s[Find(s, C, from)] \in C
         /\ \A i \in from..Len(s) : i < Find(s, C, from) => s[i] \notin C
<1> DEFINE F == {i \in from..Len(s) : s[i] \in C} \cup {Len(s) + 1}
<1>1. Len(s) \in Nat
  BY TextFacts
<1>2. F \in SUBSET Nat /\ F # {}
  BY <1>1
<1>3. Min(F) \in F /\ \A n \in F : Min(F) <= n
  BY <1>2, MinIs
<1>4. Find(s, C, from) = Min(F)
  BY DEF Find
<1>5. Min(F) \in Nat
  BY <1>2, <1>3
<1> DEFINE f == Min(F)
<1>6. f = Len(s) + 1 \/ (f \in from..Len(s) /\ s[f] \in C)
  BY <1>3
<1>7. f \in 1..(Len(s) + 1)
  BY <1>1, <1>6
<1>8. f <= Len(s) => f >= from /\ s[f] \in C
  BY <1>1, <1>6
<1>9. \A i \in from..Len(s) : i < f => s[i] \notin C
  <2>1. ASSUME NEW i \in from..Len(s), i < f, s[i] \in C
        PROVE  FALSE
    <3>1. i \in F
      BY <2>1
    <3>2. f <= i
      BY <1>3, <3>1
    <3> QED
      BY <1>1, <1>5, <2>1, <3>2
  <2> QED
    BY <2>1
<1> HIDE DEF F
<1> QED
  BY <1>4, <1>7, <1>8, <1>9

LEMMA WithoutIs ==
  ASSUME NEW s \in Text, NEW c
  PROVE  \E n \in 0..Len(s) :
           /\ Without(s, c) = SubSeq(s, 1, n)
           /\ \A i \in (n + 1)..Len(s) : s[i] = c
           /\ n > 0 => s[n] # c
<1> DEFINE M == {i \in 1..Len(s) : s[i] # c} \cup {0}
<1>1. Len(s) \in Nat
  BY TextFacts
<1>2. M \in SUBSET (0..Len(s)) /\ M # {}
  BY <1>1
<1>3. Max(M) \in M /\ \A n \in M : n <= Max(M)
  BY <1>1, <1>2, MaxIs
<1>4. Without(s, c) = SubSeq(s, 1, Max(M))
  BY DEF Without
<1>5. Max(M) \in 0..Len(s)
  BY <1>2, <1>3
<1>6. \A i \in (Max(M) + 1)..Len(s) : s[i] = c
  <2>1. ASSUME NEW i \in (Max(M) + 1)..Len(s), s[i] # c
        PROVE  FALSE
    <3>1. i \in 1..Len(s) /\ i > Max(M)
      BY <1>1, <1>5
    <3>2. i \in M
      BY <2>1, <3>1
    <3> QED
      BY <1>3, <1>5, <3>1, <3>2
  <2> QED
    BY <2>1
<1>7. Max(M) > 0 => s[Max(M)] # c
  BY <1>3
<1> HIDE DEF M
<1> QED
  BY <1>4, <1>5, <1>6, <1>7

LEMMA WithoutText ==
  ASSUME NEW s \in Text, NEW c
  PROVE  Without(s, c) \in Text
<1>1. PICK n \in 0..Len(s) : Without(s, c) = SubSeq(s, 1, n)
  BY WithoutIs
<1>2. n \in Int /\ n <= Len(s)
  BY TextFacts
<1> QED
  BY <1>1, <1>2, PartIsText

\* Trim: from the first character that is no blank.
LEMMA TrimIs ==
  ASSUME NEW s \in Text
  PROVE  \E i \in 1..(Len(s) + 1) :
           /\ Trim(s) = SubSeq(s, i, Len(s))
           /\ \A j \in 1..(i - 1) : s[j] = Blank
           /\ i <= Len(s) => s[i] # Blank
<1> DEFINE i == Find(s, Chars \ {Blank}, 1)
<1>1. Len(s) \in Nat /\ \A j \in 1..Len(s) : s[j] \in Chars
  BY TextFacts
<1>2. /\ i \in 1..(Len(s) + 1)
      /\ i <= Len(s) => s[i] \in Chars \ {Blank}
      /\ \A j \in 1..Len(s) : j < i => s[j] \notin Chars \ {Blank}
  BY FindIs
<1>3. Trim(s) = SubSeq(s, i, Len(s))
  BY DEF Trim
<1> HIDE DEF i
<1>4. \A j \in 1..(i - 1) : s[j] = Blank
  BY <1>1, <1>2
<1> QED
  BY <1>2, <1>3, <1>4

LEMMA TrimText ==
  ASSUME NEW s \in Text
  PROVE  Trim(s) \in Text
<1>1. PICK i \in 1..(Len(s) + 1) : Trim(s) = SubSeq(s, i, Len(s))
  BY TrimIs
<1>2. Len(s) \in Nat /\ i \in Nat \ {0}
  BY TextFacts
<1> QED
  BY <1>1, <1>2, PartIsText

LEMMA StrippedText ==
  ASSUME NEW l \in Text
  PROVE  Stripped(l) \in Text
BY WithoutText, TrimText DEF Stripped

\* A part up to, or from, the place of a character.
LEMMA FoundText ==
  ASSUME NEW s \in Text, NEW C, NEW from \in Nat \ {0}
  PROVE  /\ SubSeq(s, 1, Find(s, C, from) - 1) \in Text
         /\ SubSeq(s, Find(s, C, from) + 1, Len(s)) \in Text
<1>1. Len(s) \in Nat /\ Find(s, C, from) \in 1..(Len(s) + 1)
  BY TextFacts, FindIs
<1> QED
  BY <1>1, PartIsText

LEMMA NameText ==
  ASSUME NEW l \in Text, IsHeading(l)
  PROVE  NameOf(l) \in Text
<1>1. Stripped(l) \in Text /\ Stripped(l) # <<>>
  BY StrippedText DEF IsHeading, IsSkipped
<1>2. Tail(Stripped(l)) \in Text
  BY <1>1, HeadTailProperties DEF Text
<1>3. Trim(Tail(Stripped(l))) \in Text
  BY <1>2, TrimText
<1> QED
  BY <1>3, FoundText, WithoutText DEF NameOf, RTrim

LEMMA KeyText ==
  ASSUME NEW l \in Text
  PROVE  KeyOf(l) \in Text
BY StrippedText, FoundText, WithoutText DEF KeyOf, RTrim

LEMMA WrittenText ==
  ASSUME NEW l \in Text
  PROVE  Written(l) \in Text
BY StrippedText, FoundText DEF Written

----------------------------------------------------------------------------
(* What a value is: the lemma behind ValuesAsWritten.                      *)

LEMMA PartOfPart ==
  ASSUME NEW s \in Text, NEW i \in 1..(Len(s) + 1),
         NEW v, v = SubSeq(s, i, Len(s)),
         NEW m \in Nat \ {0}, NEW n \in Int, n <= Len(v)
  PROVE  SubSeq(v, m, n) = SubSeq(s, i + m - 1, i + n - 1)
<1>1. Len(s) \in Nat /\ i \in Nat \ {0}
  BY TextFacts
<1>2. /\ v \in Text /\ Len(v) = Len(s) - i + 1
      /\ \A x \in 1..(Len(s) - i + 1) : v[x] = s[i + x - 1]
  BY <1>1, PartIsText
<1> DEFINE A == SubSeq(v, m, n)
           B == SubSeq(s, i + m - 1, i + n - 1)
<1>3. /\ A \in Text /\ Len(A) = IF m <= n THEN n - m + 1 ELSE 0
      /\ \A x \in 1..(n - m + 1) : A[x] = v[m + x - 1]
  <2>1. \A w \in Text : n <= Len(w) =>
          /\ SubSeq(w, m, n) \in Text
          /\ Len(SubSeq(w, m, n)) = IF m <= n THEN n - m + 1 ELSE 0
          /\ \A x \in 1..(n - m + 1) : SubSeq(w, m, n)[x] = w[m + x - 1]
    BY PartIsText
  <2>2. v \in Text /\ n <= Len(v)
    BY <1>2
  <2> QED
    BY <2>1, <2>2
<1>4. i + m - 1 \in Nat \ {0} /\ i + n - 1 \in Int /\ i + n - 1 <= Len(s)
  BY <1>1, <1>2
<1>5. /\ B \in Text
      /\ Len(B) = IF i + m - 1 <= i + n - 1
                  THEN (i + n - 1) - (i + m - 1) + 1 ELSE 0
      /\ \A x \in 1..((i + n - 1) - (i + m - 1) + 1) :
           B[x] = s[(i + m - 1) + x - 1]
  BY <1>4, PartIsText
<1> HIDE DEF A, B
<1>6. (i + n - 1) - (i + m - 1) + 1 = n - m + 1
  BY <1>1
<1>7. i + m - 1 <= i + n - 1 <=> m <= n
  BY <1>1
<1>8. Len(A) = Len(B)
  BY <1>3, <1>5, <1>6, <1>7
<1>9. \A x \in 1..Len(A) : A[x] = B[x]
  <2> TAKE x \in 1..Len(A)
  <2>1. x \in 1..(n - m + 1) /\ x \in Nat
    BY <1>3
  <2>2. A[x] = v[m + x - 1]
    BY <1>3, <2>1
  <2>3. m + x - 1 \in 1..(Len(s) - i + 1)
    BY <1>1, <1>2, <2>1
  <2>4. v[m + x - 1] = s[i + (m + x - 1) - 1]
    BY <1>2, <2>3
  <2>5. B[x] = s[(i + m - 1) + x - 1]
    BY <1>5, <1>6, <2>1
  <2>6. (i + m - 1) + x - 1 = i + (m + x - 1) - 1
    BY <1>1, <2>1
  <2> QED
    BY <2>2, <2>4, <2>5, <2>6
<1>10. A \in Seq(Chars) /\ B \in Seq(Chars)
  BY <1>3, <1>5 DEF Text
<1> QED
  BY <1>8, <1>9, <1>10, SeqEqual DEF A, B

LEMMA BlankPart ==
  ASSUME NEW s \in Text, NEW m \in Nat \ {0}, NEW n \in Int, n <= Len(s),
         \A x \in m..n : s[x] = Blank
  PROVE  Blanks(SubSeq(s, m, n))
<1>1. /\ Len(SubSeq(s, m, n)) = IF m <= n THEN n - m + 1 ELSE 0
      /\ \A x \in 1..(n - m + 1) : SubSeq(s, m, n)[x] = s[m + x - 1]
  BY PartIsText
<1>2. \A x \in 1..Len(SubSeq(s, m, n)) :
         x \in 1..(n - m + 1) /\ m + x - 1 \in m..n
  BY <1>1
<1> QED
  BY <1>1, <1>2 DEF Blanks

LEMMA UnquotedIs ==
  ASSUME NEW v \in Text
  PROVE  \E k \in 1..(Len(v) + 1) : \E n \in 0..(k - 1) :
           /\ Unquoted(v) = SubSeq(v, 1, n)
           /\ \A x \in (n + 1)..(k - 1) : v[x] = Blank
           /\ n > 0 => v[n] # Blank
           /\ k <= Len(v) => k >= 2 /\ v[k] \in Remarks /\ v[k - 1] = Blank
           /\ \A x \in 2..(k - 1) : v[x] \in Remarks => v[x - 1] # Blank
<1> DEFINE K == {k \in 2..Len(v) : v[k] \in Remarks /\ v[k - 1] = Blank}
                  \cup {Len(v) + 1}
<1>1. Len(v) \in Nat
  BY TextFacts
<1>2. K \in SUBSET Nat /\ K # {}
  BY <1>1
<1>3. Min(K) \in K /\ \A x \in K : Min(K) <= x
  BY <1>2, MinIs
<1>4. RemarkAt(v) = Min(K)
  BY DEF RemarkAt
<1>5. PICK k \in Nat : k = Min(K)
  BY <1>2, <1>3
<1>6. /\ k \in 1..(Len(v) + 1)
      /\ k <= Len(v) => k >= 2 /\ v[k] \in Remarks /\ v[k - 1] = Blank
  BY <1>1, <1>3, <1>5
<1>7. \A x \in 2..(k - 1) : v[x] \in Remarks => v[x - 1] # Blank
  <2>1. ASSUME NEW x \in 2..(k - 1), v[x] \in Remarks, v[x - 1] = Blank
        PROVE  FALSE
    <3>1. x \in 2..Len(v) /\ x < k
      BY <1>1, <1>6
    <3>2. x \in K
      BY <2>1, <3>1
    <3>3. k <= x
      BY <1>3, <1>5, <3>2
    <3> QED
      BY <1>5, <3>1, <3>3
  <2> QED
    BY <2>1
<1> HIDE DEF K
<1> DEFINE u == SubSeq(v, 1, k - 1)
<1>8. k - 1 \in Int /\ k - 1 <= Len(v) /\ k - 1 \in Nat
  BY <1>1, <1>6
<1>9. /\ u \in Text /\ Len(u) = k - 1
      /\ \A x \in 1..(k - 1) : u[x] = v[x]
  <2>1. /\ u \in Text /\ Len(u) = IF 1 <= k - 1 THEN k - 1 - 1 + 1 ELSE 0
        /\ \A x \in 1..(k - 1 - 1 + 1) : u[x] = v[1 + x - 1]
    BY <1>8, PartIsText
  <2> QED
    BY <1>8, <2>1
<1>10. Unquoted(v) = Without(u, Blank)
  BY <1>4, <1>5 DEF Unquoted, RTrim
<1> HIDE DEF u
<1>11. PICK n \in 0..Len(u) :
         /\ Without(u, Blank) = SubSeq(u, 1, n)
         /\ \A x \in (n + 1)..Len(u) : u[x] = Blank
         /\ n > 0 => u[n] # Blank
  BY <1>9, WithoutIs
<1>12. n \in 0..(k - 1)
  BY <1>9
<1>13. SubSeq(u, 1, n) = SubSeq(v, 1, n)
  <2>1. /\ SubSeq(u, 1, n) \in Text /\ Len(SubSeq(u, 1, n)) = n
        /\ \A x \in 1..n : SubSeq(u, 1, n)[x] = u[x]
    <3>1. /\ SubSeq(u, 1, n) \in Text
          /\ Len(SubSeq(u, 1, n)) = IF 1 <= n THEN n - 1 + 1 ELSE 0
          /\ \A x \in 1..(n - 1 + 1) : SubSeq(u, 1, n)[x] = u[1 + x - 1]
      BY <1>8, <1>9, <1>12, PartIsText
    <3> QED
      BY <1>8, <1>12, <3>1
  <2>2. /\ SubSeq(v, 1, n) \in Text /\ Len(SubSeq(v, 1, n)) = n
        /\ \A x \in 1..n : SubSeq(v, 1, n)[x] = v[x]
    <3>1. n \in Int /\ n <= Len(v)
      BY <1>1, <1>8, <1>12
    <3>2. /\ SubSeq(v, 1, n) \in Text
          /\ Len(SubSeq(v, 1, n)) = IF 1 <= n THEN n - 1 + 1 ELSE 0
          /\ \A x \in 1..(n - 1 + 1) : SubSeq(v, 1, n)[x] = v[1 + x - 1]
      BY <3>1, PartIsText
    <3> QED
      BY <1>8, <1>12, <3>2
  <2>3. \A x \in 1..n : x \in 1..(k - 1)
    BY <1>8, <1>12
  <2>4. \A x \in 1..n : SubSeq(u, 1, n)[x] = SubSeq(v, 1, n)[x]
    BY <1>9, <2>1, <2>2, <2>3
  <2> QED
    BY <2>1, <2>2, <2>4, SeqEqual DEF Text
<1>14. n > 0 => v[n] # Blank
  BY <1>8, <1>9, <1>11, <1>12
<1>15. \A x \in (n + 1)..(k - 1) : v[x] = Blank
  BY <1>8, <1>9, <1>11, <1>12
<1>16. Unquoted(v) = SubSeq(v, 1, n)
  BY <1>10, <1>11, <1>13
<1> QED
  BY <1>6, <1>7, <1>12, <1>14, <1>15, <1>16

LEMMA QuotedIs ==
  ASSUME NEW v \in Text, v # <<>>, v[1] \in Quotes
  PROVE  \/ \E c \in 2..Len(v) :
              /\ Quoted(v) = SubSeq(v, 2, c - 1) /\ v[c] = v[1]
              /\ \A x \in 2..(c - 1) : v[x] # v[1]
         \/ \E n \in 1..Len(v) :
              /\ Quoted(v) = SubSeq(v, 1, n) /\ v[n] # Blank
              /\ \A x \in 2..Len(v) : v[x] # v[1]
              /\ \A x \in (n + 1)..Len(v) : v[x] = Blank
<1> DEFINE c == Find(v, {v[1]}, 2)
<1>1. Len(v) \in Nat /\ Len(v) > 0
  BY TextFacts, EmptySeq DEF Text
<1>2. /\ c \in 1..(Len(v) + 1)
      /\ c <= Len(v) => c >= 2 /\ v[c] \in {v[1]}
      /\ \A x \in 2..Len(v) : x < c => v[x] \notin {v[1]}
  BY FindIs
<1>3. Quoted(v) = IF c <= Len(v) THEN SubSeq(v, 2, c - 1) ELSE RTrim(v)
  BY DEF Quoted
<1> HIDE DEF c
<1>4. CASE c <= Len(v)
  <2>1. c \in 2..Len(v) /\ v[c] = v[1] /\ Quoted(v) = SubSeq(v, 2, c - 1)
    BY <1>1, <1>2, <1>3, <1>4
  <2>2. \A x \in 2..(c - 1) : v[x] # v[1]
    BY <1>1, <1>2, <2>1
  <2> QED
    BY <2>1, <2>2
<1>5. CASE ~(c <= Len(v))
  <2>1. Quoted(v) = Without(v, Blank)
    BY <1>3, <1>5 DEF RTrim
  <2>2. PICK n \in 0..Len(v) :
          /\ Without(v, Blank) = SubSeq(v, 1, n)
          /\ \A x \in (n + 1)..Len(v) : v[x] = Blank
          /\ n > 0 => v[n] # Blank
    BY WithoutIs
  <2>3. \A x \in 2..Len(v) : v[x] # v[1]
    BY <1>1, <1>2, <1>5
  <2>4. v[1] # Blank
    BY Characters
  <2>5. n # 0
    BY <1>1, <2>2, <2>4
  <2>6. n \in 1..Len(v) /\ v[n] # Blank
    BY <1>1, <2>2, <2>5
  <2> QED
    BY <2>1, <2>2, <2>3, <2>6
<1> QED
  BY <1>4, <1>5

----------------------------------------------------------------------------
(* A value says what its line says.                                        *)

\* v is what is left of r, from its first character that is no blank on.
LEMMA Leftover ==
  ASSUME NEW r \in Text
  PROVE  \E i \in 1..(Len(r) + 1) :
           /\ Trim(r) = SubSeq(r, i, Len(r))
           /\ Trim(r) \in Text /\ Len(Trim(r)) = Len(r) - i + 1
           /\ \A x \in 1..Len(Trim(r)) : Trim(r)[x] = r[i + x - 1]
           /\ Blanks(SubSeq(r, 1, i - 1))
           /\ i <= Len(r) => r[i] # Blank
<1>1. PICK i \in 1..(Len(r) + 1) :
        /\ Trim(r) = SubSeq(r, i, Len(r))
        /\ \A j \in 1..(i - 1) : r[j] = Blank
        /\ i <= Len(r) => r[i] # Blank
  BY TrimIs
<1>2. Len(r) \in Nat /\ i \in Nat \ {0}
  BY TextFacts
<1>3. Blanks(SubSeq(r, 1, i - 1))
  <2>1. i - 1 \in Int /\ i - 1 <= Len(r)
    BY <1>2
  <2> QED
    BY <1>1, <2>1, BlankPart
<1>4. /\ SubSeq(r, i, Len(r)) \in Text
      /\ Len(SubSeq(r, i, Len(r))) = Len(r) - i + 1
      /\ \A x \in 1..(Len(r) - i + 1) :
           SubSeq(r, i, Len(r))[x] = r[i + x - 1]
  BY <1>2, PartIsText
<1> QED
  BY <1>1, <1>3, <1>4

LEMMA UnquotedAsWritten ==
  ASSUME NEW r \in Text, Trim(r) # <<>> => Trim(r)[1] \notin Quotes
  PROVE  Unquoted(Trim(r)) \in Text /\ AsWritten(r, Unquoted(Trim(r)))
<1> DEFINE v == Trim(r)
<1>1. PICK i \in 1..(Len(r) + 1) :
        /\ v = SubSeq(r, i, Len(r))
        /\ v \in Text /\ Len(v) = Len(r) - i + 1
        /\ \A x \in 1..Len(v) : v[x] = r[i + x - 1]
        /\ Blanks(SubSeq(r, 1, i - 1))
        /\ i <= Len(r) => r[i] # Blank
  BY Leftover
<1>2a. PICK k \in 1..(Len(v) + 1) : \E n \in 0..(k - 1) :
        /\ Unquoted(v) = SubSeq(v, 1, n)
        /\ \A x \in (n + 1)..(k - 1) : v[x] = Blank
        /\ n > 0 => v[n] # Blank
        /\ k <= Len(v) => k >= 2 /\ v[k] \in Remarks /\ v[k - 1] = Blank
        /\ \A x \in 2..(k - 1) : v[x] \in Remarks => v[x - 1] # Blank
  BY <1>1, UnquotedIs
<1>2. PICK n \in 0..(k - 1) :
        /\ Unquoted(v) = SubSeq(v, 1, n)
        /\ \A x \in (n + 1)..(k - 1) : v[x] = Blank
        /\ n > 0 => v[n] # Blank
        /\ k <= Len(v) => k >= 2 /\ v[k] \in Remarks /\ v[k - 1] = Blank
        /\ \A x \in 2..(k - 1) : v[x] \in Remarks => v[x - 1] # Blank
  BY <1>2a
<1>3. v # <<>> => v[1] \notin Quotes
  OBVIOUS
<1> SUFFICES Unquoted(v) \in Text /\ AsWritten(r, Unquoted(v))
  OBVIOUS
<1> HIDE DEF v
<1>4. /\ Len(r) \in Nat /\ Len(v) \in Nat /\ i \in Nat \ {0}
      /\ k \in Nat \ {0} /\ n \in Nat /\ n < k /\ n <= Len(v)
  BY <1>1, <1>2, TextFacts
<1>5. Unquoted(v) = SubSeq(r, i, i + n - 1)
  <2>1. SubSeq(v, 1, n) = SubSeq(r, i + 1 - 1, i + n - 1)
    BY <1>1, <1>4, PartOfPart
  <2>2. i + 1 - 1 = i
    BY <1>4
  <2> QED
    BY <1>2, <2>1, <2>2
<1>6. Unquoted(v) \in Text
  <2>1. n \in Int /\ n <= Len(v) /\ 1 \in Nat \ {0}
    BY <1>4
  <2>2. SubSeq(v, 1, n) \in Text
    BY <1>1, <2>1, PartIsText
  <2> QED
    BY <1>2, <2>2
<1>7. CASE v = <<>>
  <2>1. Len(v) = 0
    BY <1>7
  <2>2. n = 0 /\ i = Len(r) + 1
    BY <1>1, <1>2, <1>4, <2>1
  <2>3. Unquoted(v) = <<>>
    BY <1>2, <2>2, SubSeqEmpty
  <2>4. i - 1 = Len(r)
    BY <1>4, <2>2
  <2>5. SubSeq(r, 1, Len(r)) = r
    BY SubSeqFull DEF Text
  <2>6. Blanks(r)
    BY <1>1, <2>4, <2>5
  <2>7. i \in 1..(Len(r) + 1) /\ Len(r) \in (i - 1)..Len(r)
    BY <1>4, <2>2
  <2>8. SubSeq(r, Len(r) + 1, Len(r)) = <<>>
    BY <1>4, SubSeqEmpty
  <2>9. Blanks(SubSeq(r, Len(r) + 1, Len(r)))
    BY <2>8 DEF Blanks
  <2> QED
    BY <1>1, <1>6, <2>3, <2>6, <2>7, <2>9 DEF AsWritten
<1>8. CASE v # <<>>
  <2>1. Len(v) # 0
    BY <1>1, <1>8, EmptySeq DEF Text
  <2>2. i <= Len(r) /\ v[1] = r[i] /\ r[i] # Blank /\ r[i] \notin Quotes
    <3>1. 1 \in 1..Len(v) /\ i <= Len(r) /\ i + 1 - 1 = i
      BY <1>1, <1>4, <2>1
    <3> QED
      BY <1>1, <1>3, <1>8, <3>1
  <2>3. n # 0
    <3>1. SUFFICES ASSUME n = 0 PROVE FALSE
      OBVIOUS
    <3>2. k >= 2
      BY <1>2, <1>4, <2>1
    <3>3. 1 \in (n + 1)..(k - 1)
      BY <1>4, <3>1, <3>2
    <3> QED
      BY <1>2, <2>2, <3>3
  <2> DEFINE j == i + n - 1
             rest == SubSeq(r, j + 1, Len(r))
  <2>4. j \in Nat /\ j >= i /\ j <= Len(r)
    BY <1>1, <1>4, <2>3
  <2>5. v[n] = r[j] /\ r[j] # Blank
    BY <1>1, <1>2, <1>4, <2>3
  <2>6. \A m \in (i + 1)..j : r[m] \in Remarks => r[m - 1] # Blank
    <3> TAKE m \in (i + 1)..j
    <3>1. m - i + 1 \in 2..(k - 1) /\ m \in Nat /\ m - i + 1 <= Len(v)
      BY <1>1, <1>4
    <3> DEFINE x == m - i + 1
    <3>2. x \in 1..Len(v) /\ x - 1 \in 1..Len(v)
      BY <1>4, <3>1
    <3>3. v[x] = r[i + x - 1] /\ v[x - 1] = r[i + (x - 1) - 1]
      BY <1>1, <3>2
    <3>4. i + x - 1 = m /\ i + (x - 1) - 1 = m - 1
      BY <1>4, <3>1
    <3>5. x \in 2..(k - 1)
      BY <3>1
    <3> HIDE DEF x
    <3> QED
      BY <1>2, <3>3, <3>4, <3>5
  <2>7. /\ rest \in Text /\ Len(rest) = Len(r) - j
        /\ \A x \in 1..(Len(r) - j) : rest[x] = r[j + x]
    <3>1. /\ rest \in Text
          /\ Len(rest) = IF j + 1 <= Len(r) THEN Len(r) - (j + 1) + 1 ELSE 0
          /\ \A x \in 1..(Len(r) - (j + 1) + 1) : rest[x] = r[j + 1 + x - 1]
      <4>1. j + 1 \in Nat \ {0} /\ Len(r) \in Int /\ Len(r) <= Len(r)
        BY <1>4, <2>4
      <4> HIDE DEF j
      <4> QED
        BY <4>1, PartIsText
    <3> HIDE DEF rest, j
    <3>2. Len(r) - (j + 1) + 1 = Len(r) - j
      BY <1>4, <2>4
    <3>3. \A x \in 1..(Len(r) - j) : j + 1 + x - 1 = j + x
      BY <1>4, <2>4
    <3>4. Len(rest) = Len(r) - j
      BY <1>4, <2>4, <3>1
    <3> QED
      BY <3>1, <3>2, <3>3, <3>4
  <2>8. \A x \in 1..(k - 1 - n) : rest[x] = Blank
    <3> TAKE x \in 1..(k - 1 - n)
    <3>1. x \in Nat /\ x \in 1..(Len(r) - j) /\ n + x \in (n + 1)..(k - 1)
      BY <1>1, <1>2, <1>4
    <3>2. n + x \in 1..Len(v) /\ i + (n + x) - 1 = j + x
      BY <1>2, <1>4, <3>1
    <3>3. v[n + x] = r[i + (n + x) - 1]
      BY <1>1, <3>2
    <3> HIDE DEF rest, j
    <3> QED
      BY <1>2, <2>7, <3>1, <3>2, <3>3
  <2>9. \/ Blanks(rest)
        \/ \E m \in 2..Len(rest) :
             rest[m] \in Remarks /\ Blanks(SubSeq(rest, 1, m - 1))
    <3>1. CASE k = Len(v) + 1
      <4>1. Len(rest) = k - 1 - n
        BY <1>1, <1>4, <2>7, <3>1
      <4> HIDE DEF rest, j
      <4> QED
        BY <2>8, <4>1 DEF Blanks
    <3>2. CASE k # Len(v) + 1
      <4>1. k <= Len(v) /\ k >= 2 /\ v[k] \in Remarks /\ v[k - 1] = Blank
        BY <1>2, <1>4, <3>2
      <4>2. n # k - 1
        BY <1>2, <1>4, <2>3, <4>1
      <4> DEFINE m == k - n
      <4>3. m \in 2..Len(rest) /\ m \in 1..(Len(r) - j) /\ j + m = i + k - 1
        BY <1>1, <1>4, <2>7, <4>1, <4>2
      <4>4. k \in 1..Len(v)
        BY <1>4, <4>1
      <4>5. rest[m] = v[k]
        <5> HIDE DEF m, rest, j
        <5> QED
          BY <1>1, <2>7, <4>3, <4>4
      <4>6. m - 1 \in Int /\ m - 1 <= Len(rest) /\ m - 1 = k - 1 - n
        BY <1>4, <4>3
      <4>7. Blanks(SubSeq(rest, 1, m - 1))
        <5> HIDE DEF m, rest, j
        <5>1. \A x \in 1..(m - 1) : rest[x] = Blank
          BY <2>8, <4>6
        <5> QED
          BY <2>7, <4>6, <5>1, BlankPart
      <4> HIDE DEF m, rest, j
      <4> QED
        BY <4>1, <4>3, <4>5, <4>7
    <3> QED
      BY <3>1, <3>2
  <2>10. j \in (i - 1)..Len(r) /\ i <= j /\ Unquoted(v) = SubSeq(r, i, j)
    BY <1>4, <1>5, <2>4
  <2> HIDE DEF j
  <2> QED
    BY <1>1, <1>6, <2>2, <2>5, <2>6, <2>9, <2>10 DEF AsWritten
<1> QED
  BY <1>7, <1>8

LEMMA QuotedAsWritten ==
  ASSUME NEW r \in Text, Trim(r) # <<>>, Trim(r)[1] \in Quotes
  PROVE  Quoted(Trim(r)) \in Text /\ AsWritten(r, Quoted(Trim(r)))
<1> DEFINE v == Trim(r)
<1>1. PICK i \in 1..(Len(r) + 1) :
        /\ v = SubSeq(r, i, Len(r))
        /\ v \in Text /\ Len(v) = Len(r) - i + 1
        /\ \A x \in 1..Len(v) : v[x] = r[i + x - 1]
        /\ Blanks(SubSeq(r, 1, i - 1))
        /\ i <= Len(r) => r[i] # Blank
  BY Leftover
<1>2. v # <<>> /\ v[1] \in Quotes
  OBVIOUS
<1> SUFFICES Quoted(v) \in Text /\ AsWritten(r, Quoted(v))
  OBVIOUS
<1> HIDE DEF v
<1>3. Len(r) \in Nat /\ Len(v) \in Nat \ {0} /\ i \in Nat \ {0} /\ i <= Len(r)
  BY <1>1, <1>2, TextFacts, EmptySeq DEF Text
<1>4. r[i] = v[1] /\ r[i] \in Quotes
  <2>1. 1 \in 1..Len(v) /\ i + 1 - 1 = i
    BY <1>3
  <2> QED
    BY <1>1, <1>2, <2>1
<1>5. CASE \E c \in 2..Len(v) :
             /\ Quoted(v) = SubSeq(v, 2, c - 1) /\ v[c] = v[1]
             /\ \A x \in 2..(c - 1) : v[x] # v[1]
  <2>1. PICK c \in 2..Len(v) :
          /\ Quoted(v) = SubSeq(v, 2, c - 1) /\ v[c] = v[1]
          /\ \A x \in 2..(c - 1) : v[x] # v[1]
    BY <1>5
  <2>2. c \in Nat /\ c >= 2 /\ c <= Len(v) /\ c \in 1..Len(v)
    BY <1>3
  <2>3. Quoted(v) \in Text
    <3>1. c - 1 \in Int /\ c - 1 <= Len(v) /\ 2 \in Nat \ {0}
      BY <1>3, <2>2
    <3>2. SubSeq(v, 2, c - 1) \in Text
      BY <1>1, <3>1, PartIsText
    <3> QED
      BY <2>1, <3>2
  <2> DEFINE j == i + c - 1
  <2>4. j \in (i - 1)..Len(r) /\ i < j /\ j \in Nat
    BY <1>1, <1>3, <2>2
  <2>5. r[j] = r[i]
    BY <1>1, <1>4, <2>1, <2>2
  <2>6. \A m \in (i + 1)..(j - 1) : r[m] # r[i]
    <3> TAKE m \in (i + 1)..(j - 1)
    <3> DEFINE x == m - i + 1
    <3>1. x \in 2..(c - 1) /\ x \in 1..Len(v) /\ i + x - 1 = m
      BY <1>3, <2>2
    <3> HIDE DEF x
    <3> QED
      BY <1>1, <1>4, <2>1, <3>1
  <2>7. SubSeq(v, 2, c - 1) = SubSeq(r, i + 1, j - 1)
    <3>1. SubSeq(v, 2, c - 1) = SubSeq(r, i + 2 - 1, i + (c - 1) - 1)
      BY <1>1, <2>2, PartOfPart
    <3>2. i + 2 - 1 = i + 1 /\ i + (c - 1) - 1 = j - 1
      BY <1>3, <2>2
    <3> QED
      BY <3>1, <3>2
  <2> HIDE DEF j
  <2> QED
    BY <1>1, <1>4, <2>1, <2>3, <2>4, <2>5, <2>6, <2>7 DEF AsWritten
<1>6. CASE \E n \in 1..Len(v) :
             /\ Quoted(v) = SubSeq(v, 1, n) /\ v[n] # Blank
             /\ \A x \in 2..Len(v) : v[x] # v[1]
             /\ \A x \in (n + 1)..Len(v) : v[x] = Blank
  <2>1. PICK n \in 1..Len(v) :
          /\ Quoted(v) = SubSeq(v, 1, n) /\ v[n] # Blank
          /\ \A x \in 2..Len(v) : v[x] # v[1]
          /\ \A x \in (n + 1)..Len(v) : v[x] = Blank
    BY <1>6
  <2>2. n \in Nat /\ n >= 1 /\ n <= Len(v)
    BY <1>3
  <2>3. Quoted(v) \in Text
    <3>1. n \in Int /\ n <= Len(v) /\ 1 \in Nat \ {0}
      BY <2>2
    <3>2. SubSeq(v, 1, n) \in Text
      BY <1>1, <3>1, PartIsText
    <3> QED
      BY <2>1, <3>2
  <2> DEFINE j == i + n - 1
  <2>4. j \in (i - 1)..Len(r) /\ i <= j /\ j \in Nat
    BY <1>1, <1>3, <2>2
  <2>5. r[j] # Blank
    BY <1>1, <2>1
  <2>6. \A m \in (i + 1)..Len(r) : r[m] # r[i]
    <3> TAKE m \in (i + 1)..Len(r)
    <3> DEFINE x == m - i + 1
    <3>1. x \in 2..Len(v) /\ x \in 1..Len(v) /\ i + x - 1 = m
      BY <1>1, <1>3
    <3> HIDE DEF x
    <3> QED
      BY <1>1, <1>4, <2>1, <3>1
  <2>7. \A m \in (j + 1)..Len(r) : r[m] = Blank
    <3> TAKE m \in (j + 1)..Len(r)
    <3> DEFINE x == m - i + 1
    <3>1. x \in (n + 1)..Len(v) /\ x \in 1..Len(v) /\ i + x - 1 = m
      BY <1>1, <1>3, <2>2
    <3> HIDE DEF x
    <3> QED
      BY <1>1, <2>1, <3>1
  <2>8. Blanks(SubSeq(r, j + 1, Len(r)))
    <3>1. j + 1 \in Nat \ {0} /\ Len(r) \in Int
      BY <1>3, <2>4
    <3> HIDE DEF j
    <3> QED
      BY <1>3, <2>7, <3>1, BlankPart
  <2>9. SubSeq(v, 1, n) = SubSeq(r, i, j)
    <3>1. SubSeq(v, 1, n) = SubSeq(r, i + 1 - 1, i + n - 1)
      BY <1>1, <2>2, PartOfPart
    <3>2. i + 1 - 1 = i
      BY <1>3
    <3> QED
      BY <3>1, <3>2
  <2> HIDE DEF j
  <2> QED
    BY <1>1, <1>4, <2>1, <2>3, <2>4, <2>5, <2>6, <2>8, <2>9 DEF AsWritten
<1> QED
  BY <1>1, <1>2, <1>5, <1>6, QuotedIs

\* Whatever stands behind a '=', the value is what it says.
THEOREM ReadsAsWritten ==
  ASSUME NEW l \in Text
  PROVE  ValueOf(l) \in Text /\ AsWritten(Written(l), ValueOf(l))
<1>1. Written(l) \in Text
  BY WrittenText
<1> DEFINE v == Trim(Written(l))
<1>2. CASE v # <<>> /\ v[1] \in Quotes
  <2>1. ValueOf(l) = Quoted(v)
    BY <1>2 DEF ValueOf
  <2> QED
    BY <1>1, <1>2, <2>1, QuotedAsWritten
<1>3. CASE ~(v # <<>> /\ v[1] \in Quotes)
  <2>1. ValueOf(l) = Unquoted(v)
    BY <1>3 DEF ValueOf
  <2> QED
    BY <1>1, <1>3, <2>1, UnquotedAsWritten
<1> QED
  BY <1>2, <1>3

----------------------------------------------------------------------------
(* Types.                                                                  *)

Whole == (0 - IntMax - 1)..IntMax

LEMMA NumberRange ==
  ASSUME NEW v, NEW d \in 0..IntMax
  PROVE  Number(v, d) \in Whole
<1>1. IntMax \in Nat /\ d \in Whole
  BY Settings DEF Whole
<1> QED
  BY <1>1 DEF Number, Whole

LEMMA SettingsTyped ==
  ASSUME NEW values, \A k \in DOMAIN values : values[k] \in Text
  PROVE  /\ DOMAIN SettingsOf(values) = Keys
         /\ \A k \in Texts : /\ SettingsOf(values)[k] \in Text
                             /\ Len(SettingsOf(values)[k]) <= Size[k]
         /\ \A k \in Numbers :
              SettingsOf(values)[k] \in IF k = PORT THEN 0..(2 * IntMax + 1)
                                        ELSE Whole
<1>1. DOMAIN SettingsOf(values) = Keys
  BY DEF SettingsOf
<1>2. ASSUME NEW k \in Texts
      PROVE  /\ SettingsOf(values)[k] \in Text
             /\ Len(SettingsOf(values)[k]) <= Size[k]
  <2> DEFINE v == IF k \in DOMAIN values THEN values[k] ELSE Default[k]
             n == Min({Len(v), Size[k]})
  <2>1. v \in Text /\ Len(v) \in Nat /\ Size[k] \in Nat
    <3>1. v \in Text /\ Size[k] \in Nat
      BY Settings
    <3> HIDE DEF v
    <3> QED
      BY <3>1, TextFacts
  <2>2. SettingsOf(values)[k] = SubSeq(v, 1, n)
    BY DEF SettingsOf, Keys, TextSetting
  <2> HIDE DEF v
  <2>3. {Len(v), Size[k]} \in SUBSET Nat /\ {Len(v), Size[k]} # {}
    BY <2>1
  <2>4. /\ n \in {Len(v), Size[k]}
        /\ \A x \in {Len(v), Size[k]} : n <= x
    BY <2>3, MinIs
  <2> HIDE DEF n
  <2>5. n \in Nat /\ n <= Len(v) /\ n <= Size[k]
    BY <2>1, <2>4
  <2>6. 1 \in Nat \ {0} /\ n \in Int
    BY <2>5
  <2>7. /\ SubSeq(v, 1, n) \in Text
        /\ Len(SubSeq(v, 1, n)) = IF 1 <= n THEN n - 1 + 1 ELSE 0
    BY <2>1, <2>5, <2>6, PartIsText
  <2>8. Len(SubSeq(v, 1, n)) <= Size[k]
    BY <2>1, <2>5, <2>7
  <2> QED
    BY <2>2, <2>7, <2>8
<1>3. ASSUME NEW k \in Numbers
      PROVE  SettingsOf(values)[k] \in IF k = PORT THEN 0..(2 * IntMax + 1)
                                       ELSE Whole
  <2> DEFINE n == IF k \in DOMAIN values THEN Number(values[k], Default[k])
                  ELSE Default[k]
  <2>1. Default[k] \in 0..IntMax /\ IntMax \in Nat /\ k \in Keys /\ k \notin Texts
    BY Settings DEF Keys
  <2>2. n \in Whole
    BY <2>1, NumberRange DEF Whole
  <2>3. SettingsOf(values)[k] = IF k = PORT THEN n % (2 * (IntMax + 1)) ELSE n
    BY <2>1 DEF SettingsOf, NumberSetting
  <2> HIDE DEF n
  <2>4. n % (2 * (IntMax + 1)) \in 0..(2 * IntMax + 1)
    <3>1. n \in Int /\ 2 * (IntMax + 1) \in Nat /\ 2 * (IntMax + 1) > 0
      BY <2>1, <2>2 DEF Whole
    <3> DEFINE w == 2 * (IntMax + 1)
    <3>2. n % w \in 0..(w - 1)
      <4> HIDE DEF w
      <4>1. w \in Nat \ {0}
        BY <3>1 DEF w
      <4> QED
        BY <3>1, <4>1
    <3> QED
      BY <2>1, <3>2
  <2> QED
    BY <2>2, <2>3, <2>4
<1> QED
  BY <1>1, <1>2, <1>3

LEMMA DefaultsAreSettings == Defaults = SettingsOf(Nothing)
<1>1. ASSUME NEW k \in Texts
      PROVE  TextSetting(k, Nothing) = Default[k]
  <2>1. Default[k] \in Text /\ Size[k] \in Nat /\ Len(Default[k]) <= Size[k]
    BY Settings
  <2>2. Len(Default[k]) \in Nat
    BY <2>1, TextFacts
  <2>3. /\ {Len(Default[k]), Size[k]} \in SUBSET Nat
        /\ Len(Default[k]) \in {Len(Default[k]), Size[k]}
        /\ \A x \in {Len(Default[k]), Size[k]} : Len(Default[k]) <= x
    BY <2>1, <2>2
  <2>4. Min({Len(Default[k]), Size[k]}) = Len(Default[k])
    BY <2>3, MinUnique
  <2>5. SubSeq(Default[k], 1, Len(Default[k])) = Default[k]
    BY <2>1, SubSeqFull DEF Text
  <2> QED
    BY <2>4, <2>5 DEF TextSetting, Nothing
<1>2. ASSUME NEW k \in Numbers
      PROVE  NumberSetting(k, Nothing) = Default[k]
  <2>1. Default[k] \in 0..IntMax /\ IntMax \in Nat
    BY Settings
  <2>2. Default[k] % (2 * (IntMax + 1)) = Default[k]
    <3> DEFINE w == 2 * (IntMax + 1)
    <3>1. w \in Nat \ {0} /\ Default[k] \in 0..(w - 1)
      BY <2>1
    <3> HIDE DEF w
    <3>2. Default[k] % w = Default[k]
      BY <3>1
    <3> QED
      BY <3>2 DEF w
  <2> QED
    BY <2>2 DEF NumberSetting, Nothing
<1>3. \A k \in Keys : k \notin Texts => k \in Numbers
  BY DEF Keys
<1>4. \A k \in Keys :
         Default[k] = IF k \in Texts THEN TextSetting(k, Nothing)
                      ELSE NumberSetting(k, Nothing)
  BY <1>1, <1>2, <1>3
<1> QED
  BY <1>4 DEF Defaults, SettingsOf

\* The g_ variables are the settings of some texts.
LEMMA DefaultsTyped ==
  /\ DOMAIN Defaults = Keys
  /\ \A k \in Texts : Defaults[k] \in Text /\ Len(Defaults[k]) <= Size[k]
  /\ \A k \in Numbers :
       Defaults[k] \in IF k = PORT THEN 0..(2 * IntMax + 1) ELSE Whole
<1>1. \A k \in DOMAIN Nothing : Nothing[k] \in Text
  BY DEF Nothing
<1> QED
  BY <1>1, SettingsTyped, DefaultsAreSettings

LEMMA LineText ==
  ASSUME TypeOK, pc = "load", line <= Len(ini)
  PROVE  /\ Len(ini) \in Nat /\ line \in 1..Len(ini)
         /\ ini[line] \in Text
         /\ \A i \in 1..Len(ini) : ini[i] \in Text
<1>1. ini \in Seq(Text) /\ line \in Nat \ {0}
  BY Loadable DEF TypeOK
<1>2. Len(ini) \in Nat /\ \A i \in 1..Len(ini) : ini[i] \in Text
  BY <1>1, LenProperties
<1>3. line \in 1..Len(ini)
  BY <1>1, <1>2
<1> QED
  BY <1>2, <1>3

LEMMA TypeStep == TypeOK /\ [Next]_vars => TypeOK'
<1> SUFFICES ASSUME TypeOK, [Next]_vars PROVE TypeOK'
  OBVIOUS
<1> DEFINE SettingsOK(g) ==
      /\ DOMAIN g = Keys
      /\ \A k \in Texts : g[k] \in Text /\ Len(g[k]) <= Size[k]
      /\ \A k \in Numbers :
           g[k] \in IF k = PORT THEN 0..(2 * IntMax + 1)
                    ELSE (0 - IntMax - 1)..IntMax
    SectionsOK(S) ==
      \A n \in DOMAIN S :
        /\ n \in Text \ {<<>>}
        /\ \A k \in DOMAIN S[n] : k \in Text /\ S[n][k] \in Text
    PlaceOK(f, l, p) ==
      /\ f \in Files \cup {Unread} /\ l \in Nat \ {0}
      /\ p \in {"start", "load", "ready"}
      /\ p = "load" => f \in Files /\ l \in 1..(Len(f) + 1)
<1>1. /\ PlaceOK(ini, line, pc) /\ SectionsOK(sections) /\ SettingsOK(settings)
      /\ sct \in DOMAIN sections \cup {NoSection}
  BY DEF TypeOK
<1>2. /\ PlaceOK(ini', line', pc') /\ SectionsOK(sections')
      /\ SettingsOK(settings') /\ sct' \in DOMAIN sections' \cup {NoSection}
      => TypeOK'
  BY DEF TypeOK
<1>3. SettingsOK(Defaults)
  BY DefaultsTyped DEF Whole
<1>4. SectionsOK(Nothing) /\ \A S : sct \in DOMAIN S => sct \in DOMAIN S \cup {NoSection}
  BY DEF Nothing
<1>5. ASSUME GetLine
      PROVE  /\ PlaceOK(ini', line', pc') /\ SettingsOK(settings')
             /\ line \in 1..Len(ini) /\ ini[line] \in Text
  <2>1. Len(ini) \in Nat /\ line \in 1..Len(ini) /\ ini[line] \in Text
    BY <1>5, LineText DEF GetLine
  <2>2. line + 1 \in Nat \ {0} /\ line + 1 \in 1..(Len(ini) + 1)
    BY <2>1
  <2>3. ini' = ini /\ pc' = pc /\ settings' = settings /\ line' = line + 1
    BY <1>5 DEF GetLine
  <2>4. PlaceOK(ini, line + 1, pc)
    BY <1>1, <2>2
  <2>5. PlaceOK(ini', line', pc') /\ SettingsOK(settings')
    BY <1>1, <2>3, <2>4
  <2> QED
    BY <2>1, <2>5
<1>6. CASE Init_NotFound
  <2>1. PlaceOK(Unread, 1, "ready")
    OBVIOUS
  <2> QED
    BY <1>2, <1>3, <1>4, <1>6, <2>1 DEF Init_NotFound, Begin
<1>7. CASE \E f \in Files : Load(f)
  <2>1. PICK f \in Files : Load(f)
    BY <1>7
  <2>2. PlaceOK(f, 1, "load")
    <3>1. Len(f) \in Nat
      BY Loadable, LenProperties
    <3> QED
      BY <3>1
  <2>3. /\ ini' = f /\ line' = 1 /\ pc' = "load" /\ settings' = settings
        /\ sct' = NoSection /\ sections' = Nothing
    BY <2>1 DEF Load, Begin
  <2> QED
    BY <1>1, <1>2, <1>4, <2>2, <2>3
<1>8. CASE Load_Skip
  <2>1. GetLine /\ sct' = sct /\ sections' = sections
    BY <1>8 DEF Load_Skip
  <2> QED
    BY <1>1, <1>2, <1>5, <2>1
<1>9. CASE Load_Heading_Rejected
  <2>1. GetLine /\ sct' = NoSection /\ sections' = sections
    BY <1>9 DEF Load_Heading_Rejected
  <2> QED
    BY <1>1, <1>2, <1>5, <2>1
<1>10. CASE Load_Heading
  <2> DEFINE n == NameOf(ini[line])
  <2>1. /\ GetLine /\ IsHeading(ini[line]) /\ n # <<>>
        /\ sct' = n
        /\ sections' = [m \in DOMAIN sections \cup {n} |->
                          IF m = n THEN Nothing ELSE sections[m]]
    BY <1>10 DEF Load_Heading, NoSuchSection
  <2>2. n \in Text \ {<<>>}
    BY <1>5, <2>1, NameText
  <2> HIDE DEF n
  <2>3. DOMAIN sections' = DOMAIN sections \cup {n}
    BY <2>1
  <2>4. sct' \in DOMAIN sections' \cup {NoSection}
    BY <2>1, <2>3
  <2>5. ASSUME NEW m \in DOMAIN sections'
        PROVE  /\ m \in Text \ {<<>>}
               /\ \A k \in DOMAIN sections'[m] :
                    k \in Text /\ sections'[m][k] \in Text
    <3>1. CASE m = n
      <4>1. sections'[m] = Nothing
        BY <2>1, <2>3, <3>1
      <4>2. DOMAIN sections'[m] = {}
        BY <4>1 DEF Nothing
      <4> QED
        BY <2>2, <3>1, <4>2
    <3>2. CASE m # n
      <4>1. sections'[m] = sections[m] /\ m \in DOMAIN sections
        BY <2>1, <2>3, <2>5, <3>2
      <4> QED
        BY <1>1, <4>1
    <3> QED
      BY <3>1, <3>2
  <2>6. SectionsOK(sections')
    BY <2>5
  <2> QED
    BY <1>2, <1>5, <2>1, <2>4, <2>6
<1>11. CASE Load_Pair_Ignored
  <2>1. GetLine /\ sct' = sct /\ sections' = sections
    BY <1>11 DEF Load_Pair_Ignored
  <2> QED
    BY <1>1, <1>2, <1>5, <2>1
<1>12. CASE Load_Pair
  <2> DEFINE key   == KeyOf(ini[line])
             value == ValueOf(ini[line])
  <2>1. /\ GetLine /\ sct \in DOMAIN sections /\ sct' = sct
        /\ sections' = [sections EXCEPT ![sct] = Emplace(sections[sct], key, value)]
    BY <1>1, <1>12 DEF Load_Pair
  <2>2. key \in Text /\ value \in Text
    BY <1>5, <2>1, KeyText, ReadsAsWritten
  <2> HIDE DEF key, value
  <2> DEFINE e == Emplace(sections[sct], key, value)
  <2>3. \A k \in DOMAIN e : k \in Text /\ e[k] \in Text
    BY <1>1, <2>1, <2>2 DEF Emplace
  <2> HIDE DEF e
  <2>4. DOMAIN sections' = DOMAIN sections
    BY <2>1
  <2>5. \A n \in DOMAIN sections :
           sections'[n] = IF n = sct THEN e ELSE sections[n]
    BY <2>1 DEF e
  <2>6. SectionsOK(sections')
    BY <1>1, <2>3, <2>4, <2>5
  <2>7. sct' \in DOMAIN sections' \cup {NoSection}
    BY <2>1, <2>4
  <2> QED
    BY <1>2, <1>5, <2>1, <2>6, <2>7
<1>13. ASSUME NEW g, Init_Return(g), SettingsOK(g)
       PROVE  TypeOK'
  <2>1. /\ ini' = ini /\ line' = line /\ pc' = "ready" /\ settings' = g
        /\ sct' = sct /\ sections' = sections
    BY <1>13 DEF Init_Return
  <2>2. PlaceOK(ini, line, "ready")
    BY <1>1
  <2> QED
    BY <1>1, <1>2, <1>13, <2>1, <2>2
<1>14. CASE Init_NoGlobal
  BY <1>3, <1>13, <1>14 DEF Init_NoGlobal
<1>15. CASE Init_Read
  <2>1. \A k \in DOMAIN sections[GLOBAL] : sections[GLOBAL][k] \in Text
    BY <1>1, <1>15 DEF Init_Read
  <2>2. SettingsOK(SettingsOf(sections[GLOBAL]))
    BY <2>1, SettingsTyped DEF Whole
  <2>3. Init_Return(SettingsOf(sections[GLOBAL]))
    BY <1>15 DEF Init_Read
  <2> HIDE DEF SettingsOK
  <2> QED
    BY <1>13, <2>2, <2>3
<1>16. CASE UNCHANGED vars
  <2>1. /\ ini' = ini /\ line' = line /\ pc' = pc /\ settings' = settings
        /\ sct' = sct /\ sections' = sections
    BY <1>16 DEF vars
  <2> QED
    BY <1>1, <1>2, <2>1
<1> QED
  BY <1>6, <1>7, <1>8, <1>9, <1>10, <1>11, <1>12, <1>14, <1>15, <1>16 DEF Next

LEMMA TypeInit == Init => TypeOK
<1> SUFFICES ASSUME Init PROVE TypeOK
  OBVIOUS
<1>1. IntMax \in Nat /\ Texts \cap Numbers = {}
  BY Settings
<1>2. \A k \in Texts : Size[k] \in Nat
  BY Settings
<1>3. <<>> \in Text /\ Len(<<>>) = 0
  BY EmptySeq DEF Text
<1>4. 0 \in 0..(2 * IntMax + 1) /\ 0 \in (0 - IntMax - 1)..IntMax
  BY <1>1
<1>5. /\ DOMAIN settings = Keys
      /\ \A k \in Texts : settings[k] = <<>>
      /\ \A k \in Numbers : settings[k] = 0
  BY <1>1 DEF Init, Keys
<1>6. DOMAIN sections = {} /\ sct = NoSection
  BY DEF Init, Nothing
<1>7. /\ ini \in Files \cup {Unread} /\ line \in Nat \ {0} /\ pc = "start"
  BY DEF Init
<1>8. \A k \in Texts : settings[k] \in Text /\ Len(settings[k]) <= Size[k]
  BY <1>2, <1>3, <1>5
<1>9. \A k \in Numbers :
         settings[k] \in IF k = PORT THEN 0..(2 * IntMax + 1)
                         ELSE (0 - IntMax - 1)..IntMax
  BY <1>4, <1>5
<1>10. pc # "load" /\ pc \in {"start", "load", "ready"}
  BY <1>7
<1> QED
  BY <1>5, <1>6, <1>7, <1>8, <1>9, <1>10 DEF TypeOK

\* The settings keep their types, whatever files are found.
THEOREM SettingsTypeCorrect == Spec => []TypeOK
BY TypeInit, TypeStep, PTL DEF Spec

----------------------------------------------------------------------------
(* The file as it has been read.                                           *)

\* The loader has read the lines so far: the inductive invariant behind the
\* two properties.
FileRead ==
  IF ini = Unread THEN sections = Nothing /\ pc # "load"
  ELSE /\ pc # "start" /\ (pc = "ready" => line = Len(ini) + 1)
       /\ \A n \in DOMAIN sections : \E h \in 1..(line - 1) : Opens(ini, h, n)
       /\ \A h \in 1..(line - 1) :
            IsHeading(ini[h]) /\ NameOf(ini[h]) # <<>>
              => NameOf(ini[h]) \in DOMAIN sections
       /\ \A n \in DOMAIN sections :
            /\ sct = n <=> Under(ini, line, n)
            /\ sections[n] = ValuesOf(ini, n, line - 1)

\* What is left to show of a turn of the loop.
LEMMA GetLineRead ==
  ASSUME TypeOK, FileRead, GetLine,
         \A n \in DOMAIN sections' : \E h \in 1..line : Opens(ini, h, n),
         \A h \in 1..line :
           IsHeading(ini[h]) /\ NameOf(ini[h]) # <<>>
             => NameOf(ini[h]) \in DOMAIN sections',
         \A n \in DOMAIN sections' :
           /\ sct' = n <=> Under(ini, line + 1, n)
           /\ sections'[n] = ValuesOf(ini, n, line)
  PROVE  FileRead'
<1>1. ini' = ini /\ pc' = "load" /\ line' = line + 1 /\ line \in Nat
  BY DEF GetLine, TypeOK
<1>2. ini # Unread
  BY DEF FileRead, GetLine
<1>3. line' - 1 = line
  BY <1>1
<1>4. pc' # "start" /\ pc' # "ready"
  BY <1>1
<1> QED
  BY <1>1, <1>2, <1>3, <1>4 DEF FileRead

\* What the lines before say, when the line at hand is of another kind.
LEMMA NoHeading ==
  ASSUME TypeOK, FileRead, GetLine, ~IsHeading(ini[line])
  PROVE  /\ \A n : Under(ini, line + 1, n) <=> Under(ini, line, n)
         /\ \A n \in DOMAIN sections : \E h \in 1..line : Opens(ini, h, n)
         /\ \A h \in 1..line :
              IsHeading(ini[h]) /\ NameOf(ini[h]) # <<>>
                => NameOf(ini[h]) \in DOMAIN sections
<1>1. line \in Nat \ {0} /\ ini # Unread
  BY DEF TypeOK, FileRead, GetLine
<1>2. \A n : Opens(ini, line, n) => FALSE
  BY DEF Opens
<1>3. (line + 1) - 1 = line /\ 1..line = 1..(line - 1) \cup {line}
  BY <1>1
<1>4. ASSUME NEW n, Under(ini, line + 1, n)
      PROVE  Under(ini, line, n)
  <2>1. PICK h \in 1..line :
          Opens(ini, h, n) /\ \A g \in (h + 1)..line : ~IsHeading(ini[g])
    BY <1>3, <1>4 DEF Under
  <2>2. h \in 1..(line - 1)
    BY <1>2, <1>3, <2>1
  <2>3. \A g \in (h + 1)..(line - 1) : g \in (h + 1)..line
    BY <1>1, <2>2
  <2> QED
    BY <2>1, <2>2, <2>3 DEF Under
<1>5. ASSUME NEW n, Under(ini, line, n)
      PROVE  Under(ini, line + 1, n)
  <2>1. PICK h \in 1..(line - 1) :
          Opens(ini, h, n) /\ \A g \in (h + 1)..(line - 1) : ~IsHeading(ini[g])
    BY <1>5 DEF Under
  <2>2. \A g \in (h + 1)..line : g = line \/ g \in (h + 1)..(line - 1)
    BY <1>1, <2>1
  <2>3. \A g \in (h + 1)..line : ~IsHeading(ini[g])
    BY <2>1, <2>2
  <2>4. h \in 1..line
    BY <1>3, <2>1
  <2> QED
    BY <1>3, <2>1, <2>3, <2>4 DEF Under
<1>6. \A n : Under(ini, line + 1, n) <=> Under(ini, line, n)
  BY <1>4, <1>5
<1>7. /\ \A n \in DOMAIN sections : \E h \in 1..(line - 1) : Opens(ini, h, n)
      /\ \A h \in 1..(line - 1) :
           IsHeading(ini[h]) /\ NameOf(ini[h]) # <<>>
             => NameOf(ini[h]) \in DOMAIN sections
  BY <1>1 DEF FileRead
<1> QED
  BY <1>3, <1>6, <1>7

LEMMA NoPair ==
  ASSUME TypeOK, FileRead, GetLine, NEW n, n \in DOMAIN sections,
         ~IsPair(ini[line]) \/ ~Under(ini, line, n)
  PROVE  sections[n] = ValuesOf(ini, n, line)
<1>1. line \in Nat \ {0} /\ ini # Unread
  BY DEF TypeOK, FileRead, GetLine
<1>2. 1..line = 1..(line - 1) \cup {line}
  BY <1>1
<1>3. PairsOf(ini, n, line) = PairsOf(ini, n, line - 1)
  BY <1>2 DEF PairsOf
<1>4. sections[n] = ValuesOf(ini, n, line - 1)
  BY <1>1 DEF FileRead
<1> QED
  BY <1>3, <1>4 DEF ValuesOf

LEMMA SkipRead ==
  ASSUME TypeOK, FileRead, Load_Skip \/ Load_Pair_Ignored
  PROVE  FileRead'
<1>1. GetLine /\ sct' = sct /\ sections' = sections
  BY DEF Load_Skip, Load_Pair_Ignored
<1>2. ~IsHeading(ini[line])
  BY DEF Load_Skip, Load_Pair_Ignored, IsHeading, IsPair
<1>3. ini # Unread
  BY <1>1 DEF FileRead, GetLine
<1>4. ~IsPair(ini[line]) \/ \A n \in DOMAIN sections : ~Under(ini, line, n)
  <2>1. CASE Load_Skip
    BY <2>1 DEF Load_Skip, IsPair
  <2>2. CASE Load_Pair_Ignored
    <3>1. sct = NoSection
      BY <2>2 DEF Load_Pair_Ignored
    <3>2. NoSection \notin DOMAIN sections
      BY Loadable DEF TypeOK
    <3> QED
      BY <1>3, <3>1, <3>2 DEF FileRead
  <2> QED
    BY <2>1, <2>2
<1>5. \A n \in DOMAIN sections : sections[n] = ValuesOf(ini, n, line)
  BY <1>1, <1>4, NoPair
<1>6. \A n \in DOMAIN sections : sct = n <=> Under(ini, line + 1, n)
  BY <1>1, <1>2, <1>3, NoHeading DEF FileRead
<1> QED
  BY <1>1, <1>2, <1>5, <1>6, NoHeading, GetLineRead

LEMMA RejectedRead ==
  ASSUME TypeOK, FileRead, Load_Heading_Rejected
  PROVE  FileRead'
<1> DEFINE m == NameOf(ini[line])
<1>1. /\ GetLine /\ sct' = NoSection /\ sections' = sections
      /\ IsHeading(ini[line]) /\ (m = <<>> \/ m \in DOMAIN sections)
  BY DEF Load_Heading_Rejected, NoSuchSection
<1>2. ini # Unread /\ line \in Nat \ {0}
  BY <1>1 DEF FileRead, GetLine, TypeOK
<1>3. (line + 1) - 1 = line /\ 1..line = 1..(line - 1) \cup {line}
  BY <1>2
<1> HIDE DEF m
<1>4. /\ \A n \in DOMAIN sections : \E h \in 1..(line - 1) : Opens(ini, h, n)
      /\ \A h \in 1..(line - 1) :
           IsHeading(ini[h]) /\ NameOf(ini[h]) # <<>>
             => NameOf(ini[h]) \in DOMAIN sections
  BY <1>2 DEF FileRead
<1>5. ASSUME NEW n, Under(ini, line + 1, n)
      PROVE  FALSE
  <2>1. PICK h \in 1..line :
          Opens(ini, h, n) /\ \A g \in (h + 1)..line : ~IsHeading(ini[g])
    BY <1>3, <1>5 DEF Under
  <2>2. h = line
    <3>1. h \in 1..(line - 1) => line \in (h + 1)..line
      BY <1>2
    <3> QED
      BY <1>1, <1>3, <2>1, <3>1
  <2>3. m = n /\ n # <<>> /\ \A g \in 1..(line - 1) :
                               IsHeading(ini[g]) => NameOf(ini[g]) # n
    BY <2>1, <2>2 DEF Opens, m
  <2>4. PICK g \in 1..(line - 1) : Opens(ini, g, n)
    BY <1>1, <1>4, <2>3
  <2> QED
    BY <2>3, <2>4 DEF Opens
<1>6. NoSection \notin DOMAIN sections
  BY Loadable DEF TypeOK
<1>7. \A n \in DOMAIN sections : sections[n] = ValuesOf(ini, n, line)
  BY <1>1, NoPair DEF IsPair, IsHeading
<1>8. \A h \in 1..line :
        IsHeading(ini[h]) /\ NameOf(ini[h]) # <<>>
          => NameOf(ini[h]) \in DOMAIN sections
  BY <1>1, <1>3, <1>4 DEF m
<1>9. \A n \in DOMAIN sections : \E h \in 1..line : Opens(ini, h, n)
  BY <1>3, <1>4
<1>10. \A n \in DOMAIN sections : sct' = n <=> Under(ini, line + 1, n)
  BY <1>1, <1>5, <1>6
<1> QED
  BY <1>1, <1>7, <1>8, <1>9, <1>10, GetLineRead

LEMMA HeadingRead ==
  ASSUME TypeOK, FileRead, Load_Heading
  PROVE  FileRead'
<1> DEFINE m == NameOf(ini[line])
<1>1. /\ GetLine /\ sct' = m /\ IsHeading(ini[line])
      /\ m # <<>> /\ m \notin DOMAIN sections
      /\ sections' = [n \in DOMAIN sections \cup {m} |->
                        IF n = m THEN Nothing ELSE sections[n]]
  BY DEF Load_Heading, NoSuchSection
<1>2. ini # Unread /\ line \in Nat \ {0}
  BY <1>1 DEF FileRead, GetLine, TypeOK
<1>3. (line + 1) - 1 = line /\ 1..line = 1..(line - 1) \cup {line}
  BY <1>2
<1>4. /\ \A n \in DOMAIN sections : \E h \in 1..(line - 1) : Opens(ini, h, n)
      /\ \A h \in 1..(line - 1) :
           IsHeading(ini[h]) /\ NameOf(ini[h]) # <<>>
             => NameOf(ini[h]) \in DOMAIN sections
  BY <1>2 DEF FileRead
<1>5. \A h \in 1..(line - 1) : IsHeading(ini[h]) => NameOf(ini[h]) # m
  BY <1>1, <1>4
<1>6. Opens(ini, line, m)
  BY <1>1, <1>5 DEF Opens
<1>7. \A n : Opens(ini, line, n) => n = m
  BY DEF Opens
<1> HIDE DEF m
<1>8. DOMAIN sections' = DOMAIN sections \cup {m}
  BY <1>1
<1>9. \A n : Under(ini, line + 1, n) <=> n = m
  <2>1. ASSUME NEW n, Under(ini, line + 1, n)
        PROVE  n = m
    <3>1. PICK h \in 1..line :
            Opens(ini, h, n) /\ \A g \in (h + 1)..line : ~IsHeading(ini[g])
      BY <1>3, <2>1 DEF Under
    <3>2. h = line
      <4>1. h \in 1..(line - 1) => line \in (h + 1)..line
        BY <1>2
      <4> QED
        BY <1>1, <1>3, <3>1, <4>1
    <3> QED
      BY <1>7, <3>1, <3>2
  <2>2. Under(ini, line + 1, m)
    <3>1. line \in 1..line /\ \A g \in (line + 1)..line : FALSE
      BY <1>2
    <3> QED
      BY <1>3, <1>6, <3>1 DEF Under
  <2> QED
    BY <2>1, <2>2
<1>10. ASSUME NEW n \in DOMAIN sections'
       PROVE  sections'[n] = ValuesOf(ini, n, line)
  <2>1. CASE n = m
    <3>1. PairsOf(ini, m, line) = {}
      <4>1. SUFFICES ASSUME NEW i \in 1..line, Under(ini, i, m) PROVE FALSE
        BY DEF PairsOf
      <4>2. PICK h \in 1..(i - 1) : Opens(ini, h, m)
        BY <4>1 DEF Under
      <4>3. h \in 1..(line - 1)
        BY <1>2, <4>1
      <4> QED
        BY <1>5, <4>2, <4>3 DEF Opens
    <3>2. {KeyOf(ini[i]) : i \in PairsOf(ini, m, line)} = {}
      BY <3>1
    <3>3. ValuesOf(ini, m, line) = [k \in {} |->
            ValueOf(ini[Min({i \in PairsOf(ini, m, line) : KeyOf(ini[i]) = k})])]
      BY <3>2 DEF ValuesOf
    <3>4. ValuesOf(ini, m, line) = Nothing
      BY <3>3 DEF Nothing
    <3>5. sections'[n] = Nothing
      BY <1>1, <1>8, <2>1
    <3> QED
      BY <2>1, <3>4, <3>5
  <2>2. CASE n # m
    <3>1. n \in DOMAIN sections /\ sections'[n] = sections[n]
      BY <1>1, <1>8, <1>10, <2>2
    <3>2. ~IsPair(ini[line])
      BY <1>1 DEF IsPair, IsHeading
    <3> QED
      BY <1>1, <3>1, <3>2, NoPair
  <2> QED
    BY <2>1, <2>2
<1>11. \A n \in DOMAIN sections' : \E h \in 1..line : Opens(ini, h, n)
  BY <1>2, <1>3, <1>4, <1>6, <1>8
<1>12. \A h \in 1..line :
         IsHeading(ini[h]) /\ NameOf(ini[h]) # <<>>
           => NameOf(ini[h]) \in DOMAIN sections'
  BY <1>3, <1>4, <1>8 DEF m
<1>13. \A n \in DOMAIN sections' : sct' = n <=> Under(ini, line + 1, n)
  BY <1>1, <1>9
<1> QED
  BY <1>1, <1>10, <1>11, <1>12, <1>13, GetLineRead

\* One more pair: its key's value is its own only if the key is new.
LEMMA OneMorePair ==
  ASSUME NEW f, NEW n, NEW last \in Nat \ {0}, IsPair(f[last]),
         Under(f, last, n)
  PROVE  ValuesOf(f, n, last)
           = Emplace(ValuesOf(f, n, last - 1), KeyOf(f[last]), ValueOf(f[last]))
<1> DEFINE P == PairsOf(f, n, last - 1)
           Q == PairsOf(f, n, last)
           key == KeyOf(f[last])
<1>1. 1..last = 1..(last - 1) \cup {last}
  OBVIOUS
<1>2. Q = P \cup {last}
  BY <1>1 DEF PairsOf
<1>3. P \in SUBSET Nat /\ \A i \in P : i < last
  BY DEF PairsOf
<1> HIDE DEF P, Q, key
<1> DEFINE old == ValuesOf(f, n, last - 1)
           new == ValuesOf(f, n, last)
           D == {KeyOf(f[i]) : i \in P}
<1>4. old = [k \in D |-> ValueOf(f[Min({i \in P : KeyOf(f[i]) = k})])]
  BY DEF ValuesOf, P
<1>5. {KeyOf(f[i]) : i \in Q} = D \cup {key}
  BY <1>2 DEF key
<1>6. new = [k \in D \cup {key} |-> ValueOf(f[Min({i \in Q : KeyOf(f[i]) = k})])]
  BY <1>5 DEF ValuesOf, Q
<1>7. ASSUME NEW k \in D
      PROVE  Min({i \in Q : KeyOf(f[i]) = k}) = Min({i \in P : KeyOf(f[i]) = k})
  <2> DEFINE S == {i \in P : KeyOf(f[i]) = k}
             T == {i \in Q : KeyOf(f[i]) = k}
  <2>1. S \in SUBSET Nat /\ S # {}
    BY <1>3, <1>7
  <2>2. Min(S) \in S /\ \A i \in S : Min(S) <= i
    BY <2>1, MinIs
  <2>3. T \in SUBSET Nat /\ S \subseteq T /\ T \subseteq S \cup {last}
    BY <1>2, <1>3
  <2> DEFINE s == Min(S)
  <2>4. s \in Nat /\ s < last
    BY <1>3, <2>1, <2>2
  <2> HIDE DEF S, T, s
  <2>5. s \in T /\ \A i \in T : s <= i
    BY <2>2, <2>3, <2>4 DEF s
  <2>6. Min(T) = s
    BY <2>3, <2>5, MinUnique
  <2> QED
    BY <2>6 DEF S, T, s
<1>8. ASSUME key \notin D
      PROVE  Min({i \in Q : KeyOf(f[i]) = key}) = last
  <2>1. {i \in Q : KeyOf(f[i]) = key} = {last}
    BY <1>2, <1>8 DEF key
  <2>2. {last} \in SUBSET Nat /\ last \in {last} /\ \A i \in {last} : last <= i
    OBVIOUS
  <2> QED
    BY <2>1, <2>2, MinUnique
<1> HIDE DEF D
<1>9. DOMAIN old = D
  BY <1>4
<1>10. Emplace(old, key, ValueOf(f[last]))
         = [x \in D \cup {key} |->
              IF x \in D THEN old[x] ELSE ValueOf(f[last])]
  BY <1>9 DEF Emplace
<1>11. \A x \in D \cup {key} :
          ValueOf(f[Min({i \in Q : KeyOf(f[i]) = x})])
            = IF x \in D THEN old[x] ELSE ValueOf(f[last])
  <2> TAKE x \in D \cup {key}
  <2>1. CASE x \in D
    <3>1. old[x] = ValueOf(f[Min({i \in P : KeyOf(f[i]) = x})])
      BY <1>4, <2>1
    <3> QED
      BY <1>7, <2>1, <3>1
  <2>2. CASE x \notin D
    <3>1. x = key
      BY <2>2
    <3> QED
      BY <1>8, <2>2, <3>1
  <2> QED
    BY <2>1, <2>2
<1> HIDE DEF old, new
<1>12. new = Emplace(old, key, ValueOf(f[last]))
  BY <1>6, <1>10, <1>11
<1> QED
  BY <1>12 DEF old, new, key

LEMMA PairRead ==
  ASSUME TypeOK, FileRead, Load_Pair
  PROVE  FileRead'
<1> DEFINE key   == KeyOf(ini[line])
           value == ValueOf(ini[line])
<1>1. /\ GetLine /\ sct' = sct /\ IsPair(ini[line])
      /\ sct # NoSection /\ sct \in DOMAIN sections
      /\ sections' = [sections EXCEPT ![sct] = Emplace(sections[sct], key, value)]
  BY DEF Load_Pair, TypeOK
<1>2. ini # Unread /\ line \in Nat \ {0}
  BY <1>1 DEF FileRead, GetLine, TypeOK
<1>3. ~IsHeading(ini[line])
  BY <1>1 DEF IsPair, IsHeading
<1>4. \A n \in DOMAIN sections : sct = n <=> Under(ini, line, n)
  BY <1>2 DEF FileRead
<1>5. sections[sct] = ValuesOf(ini, sct, line - 1)
  BY <1>1, <1>2 DEF FileRead
<1>6. ValuesOf(ini, sct, line) = Emplace(sections[sct], key, value)
  BY <1>1, <1>2, <1>4, <1>5, OneMorePair
<1> HIDE DEF key, value
<1>7. DOMAIN sections' = DOMAIN sections
  BY <1>1
<1>8. ASSUME NEW n \in DOMAIN sections'
      PROVE  sections'[n] = ValuesOf(ini, n, line)
  <2>1. CASE n = sct
    BY <1>1, <1>6, <1>7, <2>1
  <2>2. CASE n # sct
    <3>1. n \in DOMAIN sections /\ sections'[n] = sections[n]
      BY <1>1, <1>7, <1>8, <2>2
    <3>2. ~Under(ini, line, n)
      BY <1>4, <2>2, <3>1
    <3> QED
      BY <1>1, <3>1, <3>2, NoPair
  <2> QED
    BY <2>1, <2>2
<1>9. \A n \in DOMAIN sections' : sct' = n <=> Under(ini, line + 1, n)
  BY <1>1, <1>3, <1>4, <1>7, NoHeading
<1>10. /\ \A n \in DOMAIN sections' : \E h \in 1..line : Opens(ini, h, n)
       /\ \A h \in 1..line :
            IsHeading(ini[h]) /\ NameOf(ini[h]) # <<>>
              => NameOf(ini[h]) \in DOMAIN sections'
  BY <1>1, <1>3, <1>7, NoHeading
<1> QED
  BY <1>1, <1>8, <1>9, <1>10, GetLineRead

ReadInv == TypeOK /\ FileRead /\ SettingsAreTheFiles

LEMMA ReadInit == Init => ReadInv
<1> SUFFICES ASSUME Init PROVE ReadInv
  OBVIOUS
<1>1. TypeOK
  BY TypeInit
<1> QED
  BY <1>1 DEF Init, ReadInv, FileRead, SettingsAreTheFiles

LEMMA LoadRead ==
  ASSUME NEW f \in Files, Load(f)
  PROVE  FileRead'
<1>1. /\ ini' = f /\ line' = 1 /\ pc' = "load" /\ sections' = Nothing
  BY DEF Load, Begin
<1>2. f # Unread
  BY Loadable
<1>3. DOMAIN sections' = {} /\ 1..(line' - 1) = {}
  BY <1>1 DEF Nothing
<1>4. pc' # "start" /\ pc' # "ready"
  BY <1>1
<1> QED
  BY <1>1, <1>2, <1>3, <1>4 DEF FileRead

LEMMA ReturnRead ==
  ASSUME TypeOK, FileRead, NEW g, Init_Return(g)
  PROVE  /\ FileRead' /\ line - 1 = Len(ini) /\ ini # Unread
         /\ ini' = ini /\ settings' = g
<1>1. /\ ini' = ini /\ line' = line /\ sct' = sct /\ sections' = sections
      /\ pc' = "ready" /\ pc = "load" /\ line > Len(ini) /\ settings' = g
  BY DEF Init_Return
<1>2. ini # Unread /\ line \in 1..(Len(ini) + 1) /\ ini \in Files
  BY <1>1 DEF FileRead, TypeOK
<1>3. Len(ini) \in Nat
  BY <1>2, Loadable, LenProperties
<1>4. line = Len(ini) + 1 /\ line - 1 = Len(ini)
  BY <1>1, <1>2, <1>3
<1>5. pc' # "start"
  BY <1>1
<1>6. FileRead'
  BY <1>1, <1>2, <1>4, <1>5 DEF FileRead
<1> QED
  BY <1>1, <1>2, <1>4, <1>6

LEMMA ReadStep == ReadInv /\ [Next]_vars => ReadInv'
<1> SUFFICES ASSUME ReadInv, [Next]_vars PROVE ReadInv'
  OBVIOUS
<1>1. TypeOK /\ FileRead /\ SettingsAreTheFiles
  BY DEF ReadInv
<1>2. TypeOK'
  BY <1>1, TypeStep
<1>3. SUFFICES FileRead' /\ SettingsAreTheFiles'
  BY <1>2 DEF ReadInv
<1>4. GetLine => pc' = "load"
  BY DEF GetLine
<1>5. pc' = "load" => SettingsAreTheFiles'
  BY DEF SettingsAreTheFiles
<1>6. CASE Init_NotFound
  <2>1. /\ ini' = Unread /\ settings' = Defaults /\ pc' = "ready"
        /\ sections' = Nothing
    BY <1>6 DEF Init_NotFound, Begin
  <2> QED
    BY <2>1 DEF FileRead, SettingsAreTheFiles
<1>7. CASE \E f \in Files : Load(f)
  <2>1. PICK f \in Files : Load(f)
    BY <1>7
  <2>2. pc' = "load"
    BY <2>1 DEF Load
  <2> QED
    BY <1>5, <2>1, <2>2, LoadRead
<1>8. CASE Load_Skip
  BY <1>1, <1>4, <1>5, <1>8, SkipRead DEF Load_Skip
<1>9. CASE Load_Heading_Rejected
  BY <1>1, <1>4, <1>5, <1>9, RejectedRead DEF Load_Heading_Rejected
<1>10. CASE Load_Heading
  BY <1>1, <1>4, <1>5, <1>10, HeadingRead DEF Load_Heading
<1>11. CASE Load_Pair_Ignored
  BY <1>1, <1>4, <1>5, <1>11, SkipRead DEF Load_Pair_Ignored
<1>12. CASE Load_Pair
  BY <1>1, <1>4, <1>5, <1>12, PairRead DEF Load_Pair
<1>13. CASE Init_NoGlobal
  <2>1. GLOBAL \notin DOMAIN sections /\ Init_Return(Defaults)
    BY <1>13 DEF Init_NoGlobal
  <2>2. /\ FileRead' /\ line - 1 = Len(ini) /\ ini # Unread
        /\ ini' = ini /\ settings' = Defaults
    BY <1>1, <2>1, ReturnRead
  <2>3. PairsOf(ini, GLOBAL, Len(ini)) = {}
    <3>1. SUFFICES ASSUME NEW i \in 1..Len(ini), Under(ini, i, GLOBAL)
                   PROVE  FALSE
      BY DEF PairsOf
    <3>2. PICK h \in 1..(i - 1) : Opens(ini, h, GLOBAL)
      BY <3>1 DEF Under
    <3>3. Len(ini) \in Nat
      <4>1. ini \in Files
        BY <2>1 DEF Init_Return, TypeOK, ReadInv
      <4> QED
        BY <4>1, Loadable, LenProperties
    <3>4. h \in 1..(line - 1)
      BY <2>2, <3>1, <3>2, <3>3
    <3>5. IsHeading(ini[h]) /\ NameOf(ini[h]) = GLOBAL /\ GLOBAL # <<>>
      BY <3>2 DEF Opens
    <3>6. GLOBAL \in DOMAIN sections
      BY <1>1, <2>2, <3>4, <3>5 DEF FileRead
    <3> QED
      BY <2>1, <3>6
  <2>4. ValuesOf(ini, GLOBAL, Len(ini)) = Nothing
    <3>1. {KeyOf(ini[i]) : i \in PairsOf(ini, GLOBAL, Len(ini))} = {}
      BY <2>3
    <3>2. ValuesOf(ini, GLOBAL, Len(ini)) = [k \in {} |->
            ValueOf(ini[Min({i \in PairsOf(ini, GLOBAL, Len(ini)) :
                               KeyOf(ini[i]) = k})])]
      BY <3>1 DEF ValuesOf
    <3> QED
      BY <3>2 DEF Nothing
  <2> QED
    BY <2>2, <2>4, DefaultsAreSettings DEF SettingsAreTheFiles
<1>14. CASE Init_Read
  <2>1. GLOBAL \in DOMAIN sections /\ Init_Return(SettingsOf(sections[GLOBAL]))
    BY <1>14 DEF Init_Read
  <2>2. /\ FileRead' /\ line - 1 = Len(ini) /\ ini # Unread
        /\ ini' = ini /\ settings' = SettingsOf(sections[GLOBAL])
    BY <1>1, <2>1, ReturnRead
  <2>3. sections[GLOBAL] = ValuesOf(ini, GLOBAL, Len(ini))
    BY <1>1, <2>1, <2>2 DEF FileRead
  <2> QED
    BY <2>2, <2>3 DEF SettingsAreTheFiles
<1>15. CASE UNCHANGED vars
  <2>1. /\ ini' = ini /\ line' = line /\ pc' = pc /\ settings' = settings
        /\ sct' = sct /\ sections' = sections
    BY <1>15 DEF vars
  <2> QED
    BY <1>1, <2>1 DEF FileRead, SettingsAreTheFiles
<1> QED
  BY <1>6, <1>7, <1>8, <1>9, <1>10, <1>11, <1>12, <1>13, <1>14, <1>15 DEF Next

LEMMA ReadAlways == Spec => []ReadInv
BY ReadInit, ReadStep, PTL DEF Spec

\* After Init the settings are the first values of the first [GLOBAL]
\* section, and the defaults, for every file and every earlier file.
THEOREM SettingsFromFile == Spec => []SettingsAreTheFiles
<1>1. ReadInv => SettingsAreTheFiles
  BY DEF ReadInv
<1> QED
  BY <1>1, ReadAlways, PTL

LEMMA WrittenByInv == ReadInv => ValuesAsWritten
<1> SUFFICES ASSUME ReadInv, NEW n \in DOMAIN sections,
                    NEW k \in DOMAIN sections[n]
             PROVE  \E i \in 1..(line - 1) :
                      /\ IsPair(ini[i]) /\ KeyOf(ini[i]) = k
                      /\ AsWritten(Written(ini[i]), sections[n][k])
  BY DEF ValuesAsWritten
<1>1. TypeOK /\ FileRead
  BY DEF ReadInv
<1>2. ini # Unread
  BY <1>1 DEF FileRead, Nothing
<1>3. sections[n] = ValuesOf(ini, n, line - 1)
  BY <1>1, <1>2 DEF FileRead
<1> DEFINE S == {i \in PairsOf(ini, n, line - 1) : KeyOf(ini[i]) = k}
<1>4. /\ k \in {KeyOf(ini[i]) : i \in PairsOf(ini, n, line - 1)}
      /\ sections[n][k] = ValueOf(ini[Min(S)])
  <2>1. DOMAIN sections[n] = {KeyOf(ini[i]) : i \in PairsOf(ini, n, line - 1)}
    BY <1>3 DEF ValuesOf
  <2> QED
    BY <1>3, <2>1 DEF ValuesOf
<1>5. S # {} /\ S \in SUBSET Nat
  BY <1>4 DEF PairsOf
<1>6. Min(S) \in S
  BY <1>5, MinIs
<1> DEFINE m == Min(S)
<1>7. m \in 1..(line - 1) /\ IsPair(ini[m]) /\ KeyOf(ini[m]) = k
  BY <1>6 DEF PairsOf
<1> HIDE DEF S, m
<1>8. ini[m] \in Text
  <2>1. ini \in Files /\ line - 1 <= Len(ini) /\ Len(ini) \in Nat /\ line \in Nat
    <3>1. ini \in Files /\ line \in Nat \ {0}
      BY <1>1, <1>2 DEF TypeOK
    <3>2. Len(ini) \in Nat
      BY <3>1, Loadable, LenProperties
    <3>3. CASE pc = "load"
      BY <1>1, <3>1, <3>2, <3>3 DEF TypeOK
    <3>4. CASE pc # "load"
      <4>1. pc = "ready"
        BY <1>1, <1>2, <3>4 DEF TypeOK, FileRead
      <4>2. line = Len(ini) + 1
        BY <1>1, <1>2, <4>1 DEF FileRead
      <4> QED
        BY <3>1, <3>2, <4>2
    <3> QED
      BY <3>3, <3>4
  <2>2. m \in 1..Len(ini)
    BY <1>7, <2>1
  <2>3. ini \in Seq(Text)
    BY <2>1, Loadable
  <2> QED
    BY <2>2, <2>3, LenProperties
<1>9. AsWritten(Written(ini[m]), ValueOf(ini[m]))
  BY <1>8, ReadsAsWritten
<1> QED
  BY <1>4, <1>7, <1>9 DEF m

\* Every value that is kept is the one its line spells.
THEOREM ValuesCorrect == Spec => []ValuesAsWritten
BY WrittenByInv, ReadAlways, PTL

=============================================================================
