---------------------------- MODULE NumberProofs ----------------------------
(***************************************************************************)
(* Proofs about the numbers of Config: a row of decimal digits is read as  *)
(* the number that has these digits, however many they are.                *)
(***************************************************************************)
EXTENDS ConfigProofs

----------------------------------------------------------------------------
(* Induction, over a set in place of a predicate, and recursion.           *)

\* A set with 0 in it that has the successor of each number it has, has every
\* natural number.
LEMMA SetInduction ==
  ASSUME NEW S, 0 \in S, \A n \in Nat : n \in S => n + 1 \in S
  PROVE  Nat \subseteq S
<1> DEFINE T == Nat \ S
<1> SUFFICES ASSUME T # {} PROVE FALSE
  OBVIOUS
<1>1. Min(T) \in T /\ \A n \in T : Min(T) <= n
  BY MinIs
<1> DEFINE m == Min(T)
<1>2. m \in Nat /\ m \notin S /\ m # 0
  BY <1>1
<1>3. m - 1 \in Nat /\ m - 1 \in S
  BY <1>1, <1>2
<1> HIDE DEF m, T
<1>4. (m - 1) + 1 \in S
  BY <1>3
<1> QED
  BY <1>2, <1>4

\* What holds at the low end of an interval and is handed on holds in it.
LEMMA UpTo ==
  ASSUME NEW n \in Nat, NEW S, 0 \in S, \A i \in 1..n : i - 1 \in S => i \in S
  PROVE  0..n \subseteq S
<1> DEFINE T == S \cup {i \in Nat : i > n}
<1>1. 0 \in T
  OBVIOUS
<1>2. ASSUME NEW i \in Nat, i \in T PROVE i + 1 \in T
  <2>1. CASE i + 1 \in 1..n
    <3>1. i \in S /\ (i + 1) - 1 = i
      BY <1>2, <2>1
    <3> QED
      BY <2>1, <3>1
  <2>2. CASE i + 1 \notin 1..n
    BY <2>2
  <2> QED
    BY <2>1, <2>2
<1> HIDE DEF T
<1>3. Nat \subseteq T
  BY <1>1, <1>2, SetInduction
<1> QED
  BY <1>3 DEF T

\* f starts with a, and F[i] makes its value i from the one before.  There is
\* such a function.
Follows(f, n, a, F) ==
  /\ f = [i \in 0..n |-> f[i]]
  /\ f[0] = a
  /\ \A i \in 1..n : f[i] = F[i][f[i - 1]]

LEMMA Recursion ==
  ASSUME NEW n \in Nat, NEW a, NEW F
  PROVE  \E f : Follows(f, n, a, F)
<1> DEFINE Upto(k, f) ==
             f = [i \in 0..k |-> IF i = 0 THEN a ELSE F[i][f[i - 1]]]
           S == {k \in Nat : \E f : Upto(k, f)}
<1>1. 0 \in S
  <2> DEFINE f == [i \in {0} |-> a]
  <2>1. 0..0 = {0}
    OBVIOUS
  <2>2. Upto(0, f)
    BY <2>1
  <2> QED
    BY <2>2
<1>2. ASSUME NEW k \in Nat, k \in S PROVE k + 1 \in S
  <2>1. PICK f : Upto(k, f)
    BY <1>2
  <2> DEFINE g == [i \in 0..(k + 1) |-> IF i = k + 1 THEN F[k + 1][f[k]]
                                        ELSE f[i]]
  <2>2. ASSUME NEW i \in 0..(k + 1)
        PROVE  g[i] = IF i = 0 THEN a ELSE F[i][g[i - 1]]
    <3>1. CASE i = k + 1
      <4>1. i # 0 /\ i - 1 = k /\ k \in 0..(k + 1) /\ k # k + 1
        BY <3>1
      <4>2. g[i] = F[i][f[k]] /\ g[i - 1] = f[k]
        BY <3>1, <4>1
      <4> QED
        BY <4>1, <4>2
    <3>2. CASE i # k + 1 /\ i # 0
      <4>1. i \in 0..k /\ i - 1 \in 0..(k + 1) /\ i - 1 # k + 1
        BY <3>2
      <4>2. g[i] = f[i] /\ g[i - 1] = f[i - 1]
        BY <3>2, <4>1
      <4>3. f[i] = F[i][f[i - 1]]
        BY <2>1, <3>2, <4>1
      <4> QED
        BY <3>2, <4>2, <4>3
    <3>3. CASE i = 0
      <4>1. i \in 0..k /\ i # k + 1
        BY <3>3
      <4>2. g[i] = f[i] /\ f[i] = a
        BY <2>1, <3>3, <4>1
      <4> QED
        BY <3>3, <4>2
    <3> QED
      BY <3>1, <3>2, <3>3
  <2>3. g = [i \in 0..(k + 1) |-> g[i]]
    OBVIOUS
  <2> HIDE DEF g
  <2>4. Upto(k + 1, g)
    BY <2>2, <2>3
  <2> QED
    BY <2>4
<1> HIDE DEF S
<1>3. n \in S
  BY <1>1, <1>2, SetInduction
<1>4. PICK f : Upto(n, f)
  BY <1>3 DEF S
<1>5. f = [i \in 0..n |-> f[i]] /\ f[0] = a
  BY <1>4
<1>6. \A i \in 1..n : f[i] = F[i][f[i - 1]]
  BY <1>4
<1> QED
  BY <1>5, <1>6 DEF Follows

----------------------------------------------------------------------------
(* What Horner and PowerOf10 compute.                                      *)

\* The recursive function in PowerOf10 is a function that satisfies its equation.
LEMMA PowerIs ==
  ASSUME NEW n \in Nat
  PROVE  \E p : /\ p = [i \in 0..n |-> IF i = 0 THEN 1 ELSE p[i - 1] * 10]
                /\ PowerOf10(n) = p[n]
<1> DEFINE F == [i \in 1..n |-> [x \in Nat |-> x * 10]]
<1>1. PICK p : Follows(p, n, 1, F)
  <2> HIDE DEF F
  <2> QED
    BY Recursion
<1>2. p = [i \in 0..n |-> p[i]] /\ p[0] = 1
  BY <1>1 DEF Follows
<1>3. ASSUME NEW i \in 1..n, p[i - 1] \in Nat
      PROVE  p[i] = p[i - 1] * 10
  <2>1. p[i] = F[i][p[i - 1]]
    <3> HIDE DEF F
    <3> QED
      BY <1>1 DEF Follows
  <2> QED
    BY <1>3, <2>1
<1> HIDE DEF F
<1> DEFINE S == {i \in Nat : i \in 0..n => p[i] \in Nat}
<1>4. \A i \in 0..n : p[i] \in Nat
  <2>1. 0 \in S
    BY <1>2
  <2>2. ASSUME NEW i \in 1..n, i - 1 \in S PROVE i \in S
    <3>1. i - 1 \in 0..n /\ p[i - 1] \in Nat /\ i # 0 /\ i \in 0..n
      BY <2>2
    <3>2. p[i] = p[i - 1] * 10
      BY <1>3, <2>2, <3>1
    <3> QED
      BY <3>1, <3>2
  <2> HIDE DEF S
  <2>3. 0..n \subseteq S
    BY <2>1, <2>2, UpTo
  <2> QED
    BY <2>3 DEF S
<1>5. p = [i \in 0..n |-> IF i = 0 THEN 1 ELSE p[i - 1] * 10]
  <2>1. \A i \in 0..n : p[i] = IF i = 0 THEN 1 ELSE p[i - 1] * 10
    <3> TAKE i \in 0..n
    <3>1. CASE i # 0
      <4>1. i - 1 \in 0..n /\ i \in 1..n
        BY <3>1
      <4> QED
        BY <1>4, <1>3, <3>1, <4>1
    <3> QED
      BY <1>2, <3>1
  <2>2. p = [i \in 0..n |-> p[i]]
    BY <1>2
  <2> QED
    BY <2>1, <2>2
<1> HIDE DEF S
<1> QED
  BY <1>5 DEF PowerOf10

\* So is the one in Horner, on a row of integers.
LEMMA HornerIs ==
  ASSUME NEW v \in Seq(Int)
  PROVE  \E h : /\ h = [i \in 0..Len(v) |->
                          IF i = 0 THEN 0 ELSE h[i - 1] * 10 + v[i]]
                /\ Horner(10, v) = h[Len(v)]
<1> DEFINE n == Len(v)
           F == [i \in 1..n |-> [x \in Int |-> x * 10 + v[i]]]
<1>0. n \in Nat /\ \A i \in 1..n : v[i] \in Int
  BY LenProperties
<1>1. PICK h : Follows(h, n, 0, F)
  <2> HIDE DEF F, n
  <2> QED
    BY <1>0, Recursion
<1>2. h = [i \in 0..n |-> h[i]] /\ h[0] = 0
  BY <1>1 DEF Follows
<1>3. ASSUME NEW i \in 1..n, h[i - 1] \in Int
      PROVE  h[i] = h[i - 1] * 10 + v[i]
  <2>1. h[i] = F[i][h[i - 1]]
    <3> HIDE DEF F
    <3> QED
      BY <1>1 DEF Follows
  <2> QED
    BY <1>3, <2>1
<1> HIDE DEF F
<1> DEFINE S == {i \in Nat : i \in 0..n => h[i] \in Int}
<1>4. \A i \in 0..n : h[i] \in Int
  <2>1. 0 \in S
    BY <1>2
  <2>2. ASSUME NEW i \in 1..n, i - 1 \in S PROVE i \in S
    <3>1. i - 1 \in 0..n /\ h[i - 1] \in Int /\ i # 0 /\ i \in 0..n
      BY <1>0, <2>2
    <3>2. h[i] = h[i - 1] * 10 + v[i]
      BY <1>3, <2>2, <3>1
    <3> QED
      BY <1>0, <3>1, <3>2
  <2> HIDE DEF S, n
  <2>3. 0..n \subseteq S
    BY <1>0, <2>1, <2>2, UpTo
  <2> QED
    BY <2>3 DEF S
<1>5. h = [i \in 0..n |-> IF i = 0 THEN 0 ELSE h[i - 1] * 10 + v[i]]
  <2>1. \A i \in 0..n : h[i] = IF i = 0 THEN 0 ELSE h[i - 1] * 10 + v[i]
    <3> TAKE i \in 0..n
    <3>1. CASE i # 0
      <4>1. i - 1 \in 0..n /\ i \in 1..n
        BY <1>0, <3>1
      <4> QED
        BY <1>4, <1>3, <3>1, <4>1
    <3> QED
      BY <1>2, <3>1
  <2>2. h = [i \in 0..n |-> h[i]]
    BY <1>2
  <2> QED
    BY <2>1, <2>2
<1> HIDE DEF S
<1> QED
  BY <1>5 DEF Horner

\* PowerOf10 starts with 1 and grows ten times with each step.
LEMMA Powers ==
  /\ PowerOf10(0) = 1
  /\ \A n \in Nat : /\ PowerOf10(n) \in Nat \ {0}
                    /\ PowerOf10(n + 1) = PowerOf10(n) * 10
<1>1. PowerOf10(0) = 1
  <2>1. PICK p : /\ p = [i \in 0..0 |-> IF i = 0 THEN 1 ELSE p[i - 1] * 10]
                 /\ PowerOf10(0) = p[0]
    BY PowerIs
  <2> QED
    BY <2>1
<1>2. ASSUME NEW n \in Nat
      PROVE  /\ PowerOf10(n) \in Nat \ {0}
             /\ PowerOf10(n + 1) = PowerOf10(n) * 10
  <2>1. PICK p : /\ p = [i \in 0..n |-> IF i = 0 THEN 1 ELSE p[i - 1] * 10]
                 /\ PowerOf10(n) = p[n]
    BY PowerIs
  <2>2. n + 1 \in Nat
    OBVIOUS
  <2>3. PICK q : /\ q = [i \in 0..(n + 1) |-> IF i = 0 THEN 1 ELSE q[i - 1] * 10]
                 /\ PowerOf10(n + 1) = q[n + 1]
    BY <2>2, PowerIs
  <2> DEFINE S == {i \in Nat : i <= n => p[i] = q[i] /\ p[i] \in Nat \ {0}}
  <2>4. 0 \in S
    BY <2>1, <2>3
  <2>5. ASSUME NEW i \in 1..n, i - 1 \in S PROVE i \in S
    <3>1. /\ i \in 0..n /\ i \in 0..(n + 1) /\ i # 0
          /\ p[i - 1] = q[i - 1] /\ p[i - 1] \in Nat \ {0}
      BY <2>5
    <3>2. p[i] = p[i - 1] * 10
      BY <2>1, <3>1
    <3>3. q[i] = q[i - 1] * 10
      BY <2>3, <3>1
    <3> QED
      BY <3>1, <3>2, <3>3
  <2> HIDE DEF S
  <2>6. 0..n \subseteq S
    BY <2>4, <2>5, UpTo
  <2>7. p[n] = q[n] /\ p[n] \in Nat \ {0}
    BY <2>6 DEF S
  <2>8. q[n + 1] = q[n] * 10
    <3>1. n + 1 \in 0..(n + 1) /\ n + 1 # 0 /\ (n + 1) - 1 = n
      OBVIOUS
    <3> QED
      BY <2>3, <3>1
  <2> QED
    BY <2>1, <2>3, <2>7, <2>8
<1> QED
  BY <1>1, <1>2

----------------------------------------------------------------------------
(* Division by powers of ten.                                              *)

\* The quotient is the one number whose multiple of t is next below n.
LEMMA QuotientIs ==
  ASSUME NEW n \in Nat, NEW t \in Nat \ {0}
  PROVE  /\ n \div t \in Nat
         /\ (n \div t) * t <= n /\ n < (n \div t) * t + t
         /\ \A q \in Nat : q * t <= n /\ n < q * t + t => n \div t = q
<1>1. /\ n \div t \in Nat
      /\ (n \div t) * t <= n /\ n < (n \div t) * t + t
  OBVIOUS
<1>2. ASSUME NEW q \in Nat, q * t <= n, n < q * t + t
      PROVE  n \div t = q
  <2> DEFINE k == n \div t
  <2>1. k \in Nat /\ k * t <= n /\ n < k * t + t
    BY <1>1
  <2> HIDE DEF k
  <2>2. ASSUME k < q PROVE FALSE
    <3>1. (k + 1) * t <= q * t /\ (k + 1) * t = k * t + t
      BY <2>1, <2>2
    <3> QED
      BY <1>2, <2>1, <3>1
  <2>3. ASSUME q < k PROVE FALSE
    <3>1. (q + 1) * t <= k * t /\ (q + 1) * t = q * t + t
      BY <2>1, <2>3
    <3> QED
      BY <1>2, <2>1, <3>1
  <2>4. k = q
    BY <2>1, <2>2, <2>3
  <2> QED
    BY <2>4 DEF k
<1> QED
  BY <1>1, <1>2

\* A number is its last digit put after the others.
LEMMA LastDigit ==
  ASSUME NEW n \in Nat
  PROVE  /\ n = (n \div 10) * 10 + (n % 10)
         /\ \A d \in 0..9 : (n * 10 + d) \div 10 = n /\ (n * 10 + d) % 10 = d
OBVIOUS

\* Dividing by t and then by ten is dividing by ten times t.
LEMMA QuotientOfQuotient ==
  ASSUME NEW n \in Nat, NEW t \in Nat \ {0}
  PROVE  (n \div t) \div 10 = n \div (t * 10)
<1> DEFINE q == n \div t
           k == q \div 10
<1>1. q \in Nat /\ q * t <= n /\ n < q * t + t
  BY QuotientIs
<1> HIDE DEF q
<1>2. k \in Nat /\ k * 10 <= q /\ q + 1 <= k * 10 + 10
  BY <1>1
<1> HIDE DEF k
<1>3. (k * 10) * t <= q * t
  BY <1>1, <1>2
<1>4. (q + 1) * t <= (k * 10 + 10) * t
  BY <1>1, <1>2
<1>5. /\ (k * 10) * t = k * (t * 10)
      /\ (k * 10 + 10) * t = k * (t * 10) + t * 10
      /\ (q + 1) * t = q * t + t
  BY <1>1, <1>2
<1>6. k * (t * 10) <= n /\ n < k * (t * 10) + t * 10
  <2>1. q * t \in Nat /\ k * (t * 10) \in Nat /\ t * 10 \in Nat
    BY <1>1, <1>2
  <2> QED
    BY <1>1, <1>3, <1>4, <1>5, <2>1
<1>7. t * 10 \in Nat \ {0}
  OBVIOUS
<1>8. n \div (t * 10) = k
  BY <1>2, <1>6, <1>7, QuotientIs
<1> QED
  BY <1>8 DEF k, q

----------------------------------------------------------------------------
(* The value of a row of digits.                                           *)

\* The places of a decimal number: h[i] is what the first i digits say.
PrefixValues(v, h) ==
  /\ h[0] = 0
  /\ \A i \in 1..Len(v) : h[i] = h[i - 1] * 10 + v[i]
  /\ \A i \in 0..Len(v) : h[i] \in Nat

\* Horner on decimal digits gives the last of these values.
LEMMA HornerPrefixes ==
  ASSUME NEW v \in Seq(0..9)
  PROVE  \E h : PrefixValues(v, h) /\ Horner(10, v) = h[Len(v)]
<1>1. v \in Seq(Int) /\ Len(v) \in Nat /\ \A i \in 1..Len(v) : v[i] \in 0..9
  <2>1. Len(v) \in Nat /\ v \in [1..Len(v) -> 0..9]
    BY LenProperties
  <2>2. \A i \in 1..Len(v) : v[i] \in 0..9
    BY <2>1
  <2>3. v \in [1..Len(v) -> Int]
    BY <2>1, <2>2
  <2> QED
    BY <2>1, <2>2, <2>3
<1>2. PICK h : /\ h = [i \in 0..Len(v) |-> IF i = 0 THEN 0
                                          ELSE h[i - 1] * 10 + v[i]]
               /\ Horner(10, v) = h[Len(v)]
  BY <1>1, HornerIs
<1> DEFINE n == Len(v)
           S == {i \in Nat : i <= n => h[i] \in Nat}
<1>3. h[0] = 0 /\ \A i \in 1..n : h[i] = h[i - 1] * 10 + v[i]
  <2>1. n \in Nat
    BY <1>1
  <2> HIDE DEF n
  <2>2. h = [i \in 0..n |-> IF i = 0 THEN 0 ELSE h[i - 1] * 10 + v[i]]
    BY <1>2 DEF n
  <2>3. \A i \in 0..n : h[i] = IF i = 0 THEN 0 ELSE h[i - 1] * 10 + v[i]
    BY <2>2
  <2> QED
    BY <2>1, <2>3
<1> HIDE DEF n
<1>4. 0 \in S
  BY <1>3
<1>5. ASSUME NEW i \in 1..n, i - 1 \in S PROVE i \in S
  <2>1. n \in Nat /\ v[i] \in 0..9
    BY <1>1 DEF n
  <2>2. i \in Nat /\ h[i - 1] \in Nat
    BY <1>5, <2>1
  <2>3. h[i] = h[i - 1] * 10 + v[i]
    BY <1>3
  <2>4. \A x \in Nat, y \in 0..9 : x * 10 + y \in Nat
    OBVIOUS
  <2> QED
    BY <2>1, <2>2, <2>3, <2>4
<1> HIDE DEF S
<1>6. 0..n \subseteq S
  BY <1>1, <1>4, <1>5, UpTo DEF n
<1>7. \A i \in 0..n : h[i] \in Nat
  BY <1>1, <1>6 DEF S, n
<1> QED
  BY <1>2, <1>3, <1>7 DEF PrefixValues, n

\* The digits of n are those of v exactly when the quotients of n by the
\* powers of ten are what the first digits of v say.
LEMMA QuotientsAreDigits ==
  ASSUME NEW v \in Seq(0..9), NEW h, PrefixValues(v, h), NEW n \in Nat
  PROVE  IsValueOf(n, v) <=> n = h[Len(v)]
<1> DEFINE m == Len(v)
           Q(i) == n \div PowerOf10(m - i)
<1>1. m \in Nat /\ \A i \in 1..m : v[i] \in 0..9
  BY LenProperties
<1> HIDE DEF m
<1>2. ASSUME NEW i \in 0..m
      PROVE  PowerOf10(m - i) \in Nat \ {0} /\ Q(i) \in Nat
  <2>1. m - i \in Nat
    BY <1>1
  <2>2. PowerOf10(m - i) \in Nat \ {0}
    BY <2>1, Powers
  <2> QED
    BY <2>2, QuotientIs
<1>3. ASSUME NEW i \in 1..m
      PROVE  Q(i - 1) = Q(i) \div 10
  <2>1. m - i \in Nat /\ m - (i - 1) = (m - i) + 1
    BY <1>1
  <2>2. PowerOf10(m - (i - 1)) = PowerOf10(m - i) * 10
    BY <2>1, Powers
  <2>3. PowerOf10(m - i) \in Nat \ {0}
    BY <2>1, Powers
  <2> QED
    BY <2>2, <2>3, QuotientOfQuotient
<1>4. Q(m) = n /\ Q(0) = n \div PowerOf10(m)
  <2>1. m - m = 0 /\ m - 0 = m /\ PowerOf10(m - m) = 1
    BY <1>1, Powers
  <2> QED
    BY <2>1
<1>5. h[0] = 0 /\ \A i \in 1..m : h[i] = h[i - 1] * 10 + v[i]
  BY DEF PrefixValues, m
<1>6. \A i \in 0..m : h[i] \in Nat
  BY DEF PrefixValues, m
<1>7. IsValueOf(n, v) <=>
        n < PowerOf10(m) /\ \A i \in 1..m : v[i] = Q(i) % 10
  <2>1. PowerOf10(m) \in Nat \ {0}
    BY <1>1, Powers
  <2> QED
    BY <2>1 DEF IsValueOf, m
<1>8. n < PowerOf10(m) <=> Q(0) = 0
  <2>1. PowerOf10(m) \in Nat \ {0}
    BY <1>1, Powers
  <2> DEFINE p == PowerOf10(m)
  <2> HIDE DEF p
  <2>2. ASSUME p \in Nat \ {0} PROVE n < p <=> n \div p = 0
    <3>1. 0 \in Nat /\ 0 * p <= n /\ (n < p <=> n < 0 * p + p)
      BY <2>2
    <3>2. n < p => n \div p = 0
      BY <2>2, <3>1, QuotientIs
    <3>3. n < (n \div p) * p + p
      BY <2>2, QuotientIs
    <3> QED
      BY <2>2, <3>2, <3>3
  <2> QED
    BY <1>4, <2>1, <2>2 DEF p
<1> DEFINE S == {i \in Nat : i <= m => Q(i) = h[i]}
<1>9. ASSUME IsValueOf(n, v) PROVE n = h[m]
  <2>1. 0 \in S
    BY <1>5, <1>7, <1>8, <1>9
  <2>2. ASSUME NEW i \in 1..m, i - 1 \in S PROVE i \in S
    <3>1. Q(i - 1) = h[i - 1]
      BY <1>1, <2>2
    <3>2. v[i] = Q(i) % 10 /\ Q(i) \in Nat
      BY <1>1, <1>2, <1>7, <1>9
    <3> HIDE DEF Q
    <3>3. Q(i) = (Q(i) \div 10) * 10 + (Q(i) % 10)
      BY <3>2, LastDigit
    <3>4. Q(i) = h[i]
      BY <1>3, <1>5, <3>1, <3>2, <3>3
    <3> QED
      BY <3>4
  <2> HIDE DEF S
  <2>3. 0..m \subseteq S
    BY <1>1, <2>1, <2>2, UpTo
  <2>4. Q(m) = h[m]
    BY <1>1, <2>3 DEF S
  <2> QED
    BY <1>4, <2>4
<1>10. ASSUME n = h[m] PROVE IsValueOf(n, v)
  <2> DEFINE T == {j \in Nat : j <= m => Q(m - j) = h[m - j]}
  <2>1. 0 \in T
    BY <1>1, <1>4, <1>10
  <2>2. ASSUME NEW j \in 1..m, j - 1 \in T PROVE j \in T
    <3> DEFINE i == m - (j - 1)
    <3>1. i \in 1..m /\ i \in Nat /\ i - 1 = m - j /\ i - 1 \in 0..m
      BY <1>1
    <3>2. Q(i) = h[i]
      BY <1>1, <2>2
    <3> HIDE DEF i
    <3>3. h[i] = h[i - 1] * 10 + v[i] /\ h[i - 1] \in Nat /\ v[i] \in 0..9
      BY <1>1, <1>5, <1>6, <3>1
    <3>4. (h[i - 1] * 10 + v[i]) \div 10 = h[i - 1]
      BY <3>3, LastDigit
    <3>5. Q(i - 1) = h[i - 1]
      BY <1>3, <3>1, <3>2, <3>3, <3>4
    <3> QED
      BY <3>1, <3>5
  <2> HIDE DEF T
  <2>3. 0..m \subseteq T
    BY <1>1, <2>1, <2>2, UpTo
  <2>4. ASSUME NEW i \in 0..m PROVE Q(i) = h[i]
    <3>1. m - i \in T /\ m - i <= m /\ m - (m - i) = i
      BY <1>1, <2>3
    <3> QED
      BY <3>1 DEF T
  <2>5. Q(0) = 0
    BY <1>1, <1>5, <2>4
  <2>6. ASSUME NEW i \in 1..m PROVE v[i] = Q(i) % 10
    <3>1. Q(i) = h[i - 1] * 10 + v[i] /\ h[i - 1] \in Nat /\ v[i] \in 0..9
      BY <1>1, <1>5, <1>6, <2>4
    <3> HIDE DEF Q
    <3> QED
      BY <3>1, LastDigit
  <2> QED
    BY <1>7, <1>8, <2>5, <2>6
<1> QED
  BY <1>9, <1>10 DEF m

\* Reading digits from the left gives the one number that has these digits.
THEOREM DecimalValue ==
  ASSUME NEW v \in Seq(0..9)
  PROVE  /\ Horner(10, v) \in Nat
         /\ \A n \in Nat : IsValueOf(n, v) <=> n = Horner(10, v)
<1>1. PICK h : PrefixValues(v, h) /\ Horner(10, v) = h[Len(v)]
  BY HornerPrefixes
<1>2. Len(v) \in Nat /\ h[Len(v)] \in Nat
  BY <1>1, LenProperties DEF PrefixValues
<1> QED
  BY <1>1, <1>2, QuotientsAreDigits

----------------------------------------------------------------------------
(* Number, on decimal digits.                                              *)

\* All of a text is the text.
LEMMA WholeText ==
  ASSUME NEW v \in Text
  PROVE  SubSeq(v, 1, Len(v)) = v
<1>1. Len(v) \in Nat /\ v = [i \in 1..Len(v) |-> v[i]]
  BY LenProperties DEF Text
<1>2. Len(v) \in Int /\ 1 \in Nat \ {0} /\ Len(v) <= Len(v)
  BY <1>1
<1>3. /\ SubSeq(v, 1, Len(v)) \in Text
      /\ Len(SubSeq(v, 1, Len(v))) = IF 1 <= Len(v) THEN Len(v) - 1 + 1 ELSE 0
      /\ \A i \in 1..(Len(v) - 1 + 1) : SubSeq(v, 1, Len(v))[i] = v[1 + i - 1]
  BY <1>2, PartIsText
<1> DEFINE w == SubSeq(v, 1, Len(v))
<1>4. w \in Text /\ Len(w) = Len(v) /\ \A i \in 1..Len(v) : w[i] = v[i]
  BY <1>1, <1>3
<1> HIDE DEF w
<1>5. w = v
  BY <1>4, SeqEqual DEF Text
<1> QED
  BY <1>5 DEF w

\* What Number finds in a row of decimal digits: no blank, no sign, no 0x,
\* and digits up to the end.
LEMMA DecimalText ==
  ASSUME NEW v \in Text, IsDecimal(v)
  PROVE  /\ v \in Seq(0..9) /\ Len(v) \in Nat \ {0}
         /\ \A c : 0..9 \subseteq c => Find(v, c, 1) = 1
         /\ \A c : c \cap (0..9) = {} => Find(v, c, 1) = Len(v) + 1
         /\ Trim(v) = v /\ v[1] \notin {Plus, Minus}
         /\ ~Begins(v, 0, <<0, X>>)
<1>1. Len(v) \in Nat \ {0} /\ \A i \in 1..Len(v) : v[i] \in 0..9
  <2>1. v \in Seq(Chars) /\ v # <<>>
    BY DEF Text, IsDecimal
  <2>2. Len(v) \in Nat /\ Len(v) # 0
    BY <2>1, EmptySeq, LenProperties
  <2> QED
    BY <2>2 DEF IsDecimal
<1>2. v \in Seq(0..9)
  <2>1. v \in [1..Len(v) -> Chars]
    BY LenProperties DEF Text
  <2>2. v \in [1..Len(v) -> 0..9]
    BY <1>1, <2>1
  <2> QED
    BY <1>1, <2>2
<1>3. ASSUME NEW c, 0..9 \subseteq c PROVE Find(v, c, 1) = 1
  <2>1. /\ Find(v, c, 1) \in 1..(Len(v) + 1)
        /\ \A i \in 1..Len(v) : i < Find(v, c, 1) => v[i] \notin c
    BY FindIs
  <2>2. 1 \in 1..Len(v) /\ v[1] \in c
    BY <1>1, <1>3
  <2> QED
    BY <1>1, <2>1, <2>2
<1>4. ASSUME NEW c, c \cap (0..9) = {} PROVE Find(v, c, 1) = Len(v) + 1
  <2>1. /\ Find(v, c, 1) \in 1..(Len(v) + 1)
        /\ Find(v, c, 1) <= Len(v) => v[Find(v, c, 1)] \in c
    BY FindIs
  <2>2. \A i \in 1..Len(v) : v[i] \notin c
    BY <1>1, <1>4
  <2> QED
    BY <1>1, <2>1, <2>2
<1>5. Trim(v) = v
  <2>1. 0..9 \subseteq Chars \ {Blank}
    BY Characters DEF Chars, Digits
  <2>2. Find(v, Chars \ {Blank}, 1) = 1
    BY <1>3, <2>1
  <2> QED
    BY <2>2, WholeText DEF Trim
<1>6. v[1] \notin {Plus, Minus}
  <2>1. v[1] \in Digits
    BY <1>1 DEF Digits
  <2> QED
    BY <2>1, Characters
<1>7. ~Begins(v, 0, <<0, X>>)
  <2> SUFFICES ASSUME Begins(v, 0, <<0, X>>) PROVE FALSE
    OBVIOUS
  <2>1. Len(<<0, X>>) = 2 /\ <<0, X>>[2] = X
    OBVIOUS
  <2>2. Len(v) >= 2 /\ SubSeq(v, 1, 2) = <<0, X>>
    BY <2>1 DEF Begins
  <2>3. 2 \in Int /\ 1 \in Nat \ {0} /\ 2 <= Len(v) /\ 2 \in 1..(2 - 1 + 1)
    BY <1>1, <2>2
  <2>4. SubSeq(v, 1, 2)[2] = v[1 + 2 - 1]
    BY <2>3, PartIsText
  <2>5. v[2] = X
    <3>1. SubSeq(v, 1, 2)[2] = <<0, X>>[2]
      BY <2>2, Zenon
    <3>2. 1 + 2 - 1 = 2
      OBVIOUS
    <3>3. v[1 + 2 - 1] = X
      BY <2>1, <2>4, <3>1, Zenon
    <3> QED
      BY <3>2, <3>3
  <2>6. v[2] \in Digits
    BY <1>1, <2>3 DEF Digits
  <2> QED
    BY <2>5, <2>6, Characters
<1> QED
  BY <1>1, <1>2, <1>3, <1>4, <1>5, <1>6, <1>7

\* A decimal number that an int has is read as its value, any other as the
\* default.
LEMMA NumberOfDecimal ==
  ASSUME NEW v \in Text, IsDecimal(v), NEW d
  PROVE  Number(v, d) = IF Horner(10, v) \in 0..IntMax THEN Horner(10, v) ELSE d
<1> DEFINE t    == SubSeq(v, Find(v, Chars \ {Blank, CR}, 1), Len(v))
           sign == IF t # <<>> /\ t[1] \in {Plus, Minus} THEN 1 ELSE 0
           base == BaseOf(Trim(v), sign, t)
           from == sign + (IF base = 16 THEN 3 ELSE 1)
           to   == Find(t, Chars \ 0..(base - 1), from) - 1
           n    == Horner(base, SubSeq(t, from, to))
           m    == IF sign = 1 /\ t[1] = Minus THEN 0 - n ELSE n
<1>1. Number(v, d) = IF \/ base # 16 /\ to < from
                        \/ m \notin (0 - IntMax - 1)..IntMax
                     THEN d ELSE m
  BY DEF Number
<1>2. t = v
  <2>1. 0..9 \subseteq Chars \ {Blank, CR}
    BY Characters DEF Chars, Digits
  <2>2. Find(v, Chars \ {Blank, CR}, 1) = 1
    BY <2>1, DecimalText
  <2> QED
    BY <2>2, WholeText
<1> HIDE DEF t
<1>3. sign = 0
  BY <1>2, DecimalText
<1> HIDE DEF sign
<1>4. base = 10
  BY <1>2, <1>3, DecimalText DEF BaseOf
<1> HIDE DEF base
<1>5. from = 1
  BY <1>3, <1>4
<1> HIDE DEF from
<1>6. to = Len(v)
  <2>1. (Chars \ 0..(base - 1)) \cap (0..9) = {}
    BY <1>4
  <2>2. Find(v, Chars \ 0..(base - 1), 1) = Len(v) + 1
    BY <2>1, DecimalText
  <2>3. Len(v) \in Nat
    BY DecimalText
  <2> QED
    BY <1>2, <1>5, <2>2, <2>3
<1> HIDE DEF to
<1>7. n = Horner(10, v)
  BY <1>2, <1>4, <1>5, <1>6, WholeText
<1> HIDE DEF n
<1>8. m = Horner(10, v)
  BY <1>3, <1>7
<1> HIDE DEF m
<1>9. Horner(10, v) \in Nat /\ IntMax \in Nat /\ Len(v) \in Nat \ {0}
  BY DecimalText, DecimalValue, Settings
<1> QED
  BY <1>1, <1>4, <1>5, <1>6, <1>8, <1>9

----------------------------------------------------------------------------
(* The settings.                                                           *)

\* The values of a section are texts.
LEMMA ValuesAreTexts ==
  ASSUME NEW f \in Files, NEW n
  PROVE  \A k \in DOMAIN ValuesOf(f, n, Len(f)) : ValuesOf(f, n, Len(f))[k] \in Text
<1> SUFFICES ASSUME NEW k \in DOMAIN ValuesOf(f, n, Len(f))
             PROVE  ValuesOf(f, n, Len(f))[k] \in Text
  OBVIOUS
<1> DEFINE P == PairsOf(f, n, Len(f))
           S == {i \in P : KeyOf(f[i]) = k}
<1>1. f \in Seq(Text) /\ Len(f) \in Nat /\ \A i \in 1..Len(f) : f[i] \in Text
  BY Loadable, LenProperties
<1>2. k \in {KeyOf(f[i]) : i \in P} /\ ValuesOf(f, n, Len(f))[k] = ValueOf(f[Min(S)])
  BY DEF ValuesOf
<1>3. S # {} /\ S \in SUBSET (1..Len(f))
  BY <1>2 DEF PairsOf
<1> HIDE DEF S, P
<1>4. S \in SUBSET Nat
  BY <1>1, <1>3
<1>5. Min(S) \in 1..Len(f)
  BY <1>3, <1>4, MinIs
<1> QED
  BY <1>1, <1>2, <1>5, ReadsAsWritten

\* A number that an int has is no other number as a port.
LEMMA PortInRange ==
  ASSUME NEW n \in 0..IntMax
  PROVE  n % (2 * (IntMax + 1)) = n
<1>1. IntMax \in Nat
  BY Settings
<1> QED
  BY <1>1

\* Settings that are those of a file have the numbers the file gives.
LEMMA NumbersByInv == TypeOK /\ SettingsAreTheFiles => NumbersAsWritten
<1> DEFINE values == ValuesOf(ini, GLOBAL, Len(ini))
<1> SUFFICES ASSUME TypeOK, SettingsAreTheFiles, pc = "ready", ini # Unread,
                    NEW k \in Numbers \cap DOMAIN values, IsDecimal(values[k])
             PROVE  \/ IsValueOf(settings[k], values[k])
                    \/ /\ settings[k] = Default[k]
                       /\ \A n \in 0..IntMax : ~IsValueOf(n, values[k])
  BY DEF NumbersAsWritten
<1>1. ini \in Files
  BY DEF TypeOK
<1> DEFINE v == values[k]
<1>2. v \in Text
  BY <1>1, ValuesAreTexts
<1>3. k \in Keys /\ k \notin Texts /\ k \in Numbers /\ k \in DOMAIN values
  BY Settings DEF Keys
<1>4. settings[k] = NumberSetting(k, values)
  <2>1. settings = SettingsOf(values)
    BY DEF SettingsAreTheFiles
  <2> QED
    BY <1>3, <2>1 DEF SettingsOf
<1>5. settings[k] = IF k = PORT THEN Number(v, Default[k]) % (2 * (IntMax + 1))
                    ELSE Number(v, Default[k])
  <2> HIDE DEF values
  <2> QED
    BY <1>3, <1>4 DEF NumberSetting
<1> HIDE DEF values
<1>6. IsDecimal(v)
  OBVIOUS
<1> HIDE DEF v
<1>7. /\ Number(v, Default[k]) =
           IF Horner(10, v) \in 0..IntMax THEN Horner(10, v) ELSE Default[k]
      /\ Default[k] \in 0..IntMax
  BY <1>2, <1>3, <1>6, NumberOfDecimal, Settings
<1>8. settings[k] = Number(v, Default[k])
  BY <1>5, <1>7, PortInRange
<1>9. /\ Horner(10, v) \in Nat
      /\ \A n \in Nat : IsValueOf(n, v) <=> n = Horner(10, v)
  BY <1>2, <1>6, DecimalText, DecimalValue
<1>10. CASE Horner(10, v) \in 0..IntMax
  BY <1>7, <1>8, <1>9, <1>10 DEF v
<1>11. CASE Horner(10, v) \notin 0..IntMax
  <2>1. \A n \in 0..IntMax : n \in Nat /\ n # Horner(10, v)
    BY <1>11
  <2>2. \A n \in 0..IntMax : ~IsValueOf(n, v)
    BY <1>9, <2>1
  <2>3. settings[k] = Default[k]
    BY <1>7, <1>8, <1>11
  <2> QED
    BY <2>2, <2>3 DEF v
<1> QED
  BY <1>10, <1>11

\* A number of any length that the file gives in decimal digits, with or
\* without leading zeros, becomes the setting of that value; one that no int
\* has leaves the default.
THEOREM NumbersCorrect == Spec => []NumbersAsWritten
BY NumbersByInv, SettingsTypeCorrect, SettingsFromFile, PTL

=============================================================================
