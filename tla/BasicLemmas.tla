----------------------------- MODULE BasicLemmas -----------------------------
(***************************************************************************)
(* What the proofs about the parts need of numbers, sets and sequences:    *)
(* induction and recursion (from the theorem that a set of numbers has a   *)
(* least element, since the provers cannot apply a theorem about all       *)
(* predicates), Max and Min of FiniteSetsExt, remainders and the joining   *)
(* of sequences.                                                           *)
(***************************************************************************)
EXTENDS Integers, Sequences, FiniteSetsExt, WellFoundedInduction, TLAPS

-----------------------------------------------------------------------------
(* Induction and recursion, on sets and functions                          *)

\* A set of numbers has a least one: what induction needs.
LEMMA LeastNumber ==
  ASSUME NEW T \in SUBSET Nat, T # {}
  PROVE  \E m \in T : \A n \in T : m <= n
<1> DEFINE R == OpToRel(<, Nat)
<1>1. \E m \in T : \A n \in T : ~(<<n, m>> \in R)
  <2>1. IsWellFoundedOn(R, Nat)  BY NatLessThanWellFounded DEF R
  <2> HIDE DEF R
  <2> QED  BY <2>1, WFMin
<1>2. PICK m \in T : \A n \in T : ~(n < m)  BY <1>1 DEF OpToRel
<1>3. \A n \in T : m <= n  BY <1>2
<1> QED  BY <1>3

\* What holds at 0, and at a number when it holds at the one before, holds up to m.
LEMMA Induction ==
  ASSUME NEW m \in Nat, NEW T, 0 \in T, \A n \in 1..m : n - 1 \in T => n \in T
  PROVE  \A n \in 0..m : n \in T
<1> DEFINE Failing == {n \in 0..m : n \notin T}
<1> SUFFICES ASSUME Failing # {} PROVE FALSE  OBVIOUS
<1>1. PICK n \in Failing : \A k \in Failing : n <= k
  <2>1. Failing \in SUBSET Nat  OBVIOUS
  <2> HIDE DEF Failing
  <2> QED  BY <2>1, LeastNumber
<1>2. n \in 0..m /\ n \notin T  OBVIOUS
<1>3. n - 1 \in 0..m /\ n \in 1..m /\ ~(n <= n - 1)  BY <1>2
<1> QED  BY <1>1, <1>2, <1>3

\* g goes on from x by step, m times.
GoesFrom(g, x, step, m) == g[0] = x /\ \A n \in 1..m : g[n] = step[<<n, g[n - 1]>>]

\* A function on numbers can be defined from the value before ...
LEMMA Recursion ==
  ASSUME NEW m \in Nat, NEW X, NEW x \in X, NEW step \in [(1..m) \X X -> X]
  PROVE  \E g \in [0..m -> X] : GoesFrom(g, x, step, m)
<1> DEFINE Has(n) == \E g \in [0..n -> X] : GoesFrom(g, x, step, n)
           T == {n \in 0..m : Has(n)}
<1>1. 0 \in T
  <2> DEFINE g == [k \in 0..0 |-> x]
  <2>1. g \in [0..0 -> X] /\ g[0] = x /\ 1..0 = {}  OBVIOUS
  <2> HIDE DEF g
  <2>2. Has(0)  BY <2>1 DEF GoesFrom
  <2> QED  BY <2>2
<1>2. ASSUME NEW n \in 1..m, n - 1 \in T  PROVE n \in T
  <2>1. PICK g \in [0..n-1 -> X] : GoesFrom(g, x, step, n - 1)  BY <1>2
  <2>2. n - 1 \in 0..n-1 /\ n \in 0..m  OBVIOUS
  <2> DEFINE new == step[<<n, g[n - 1]>>]
             h == [k \in 0..n |-> IF k = n THEN new ELSE g[k]]
  <2>3. new \in X  BY <2>2
  <2>4. /\ h \in [0..n -> X] /\ h[n] = new
        /\ \A k \in 0..n-1 : h[k] = g[k]
    BY <2>3
  <2> HIDE DEF h
  <2>5. h[0] = x  BY <2>1, <2>4 DEF GoesFrom
  <2>6. ASSUME NEW k \in 1..n  PROVE h[k] = step[<<k, h[k - 1]>>]
    <3>1. CASE k = n  BY <2>2, <2>4, <3>1
    <3>2. CASE k # n
      <4>1. k \in 1..n-1 /\ k \in 0..n-1 /\ k - 1 \in 0..n-1  BY <3>2
      <4> QED  BY <2>1, <2>4, <4>1 DEF GoesFrom
    <3> QED  BY <3>1, <3>2
  <2>7. Has(n)  BY <2>4, <2>5, <2>6 DEF GoesFrom
  <2> QED  BY <2>2, <2>7
<1>3. m \in T
  <2> HIDE DEF T
  <2>1. \A n \in 0..m : n \in T  BY <1>1, <1>2, Induction
  <2> QED  BY <2>1
<1> QED  BY <1>3

-----------------------------------------------------------------------------
(* The greatest and the least of a set                                     *)

LEMMA MaxIs ==
  ASSUME NEW S \in SUBSET Int, NEW x \in S, \A y \in S : y <= x
  PROVE  Max(S) = x
<1>1. \A z \in S : (\A y \in S : z >= y) => z = x  OBVIOUS
<1>2. \A y \in S : x >= y  OBVIOUS
<1> QED  BY <1>1, <1>2 DEF Max

LEMMA MinIs ==
  ASSUME NEW S \in SUBSET Int, NEW x \in S, \A y \in S : x <= y
  PROVE  Min(S) = x
<1>1. \A z \in S : (\A y \in S : z <= y) => z = x  OBVIOUS
<1> QED  BY <1>1 DEF Min

LEMMA Greatest ==
  ASSUME NEW m \in Nat, NEW S \in SUBSET (1..m), S # {}
  PROVE  Max(S) \in S /\ \A y \in S : y <= Max(S)
<1> DEFINE T == {n \in Nat : m - n \in S}
<1>1. T \in SUBSET Nat /\ T # {}
  <2>1. PICK y \in S : TRUE  OBVIOUS
  <2>2. m - y \in Nat /\ m - (m - y) = y  OBVIOUS
  <2> QED  BY <2>1, <2>2
<1> HIDE DEF T
<1>2. PICK n \in T : \A k \in T : n <= k  BY <1>1, LeastNumber
<1>3. n \in Nat /\ m - n \in S  BY DEF T
<1>4. ASSUME NEW y \in S  PROVE y <= m - n
  <2>1. y \in Nat /\ m - y \in Nat /\ m - (m - y) = y  OBVIOUS
  <2>2. m - y \in T  BY <2>1 DEF T
  <2> QED  BY <1>2, <1>3, <2>1, <2>2
<1>5. S \in SUBSET Int  OBVIOUS
<1>6. Max(S) = m - n  BY <1>3, <1>4, <1>5, MaxIs
<1> QED  BY <1>3, <1>4, <1>6

-----------------------------------------------------------------------------
(* Remainders                                                              *)

\* A multiple of m does not change a remainder ...
LEMMA Remainder ==
  ASSUME NEW m \in Nat \ {0}, NEW r \in 0..m-1, NEW q \in Int
  PROVE  (m * q + r) % m = r
<1> DEFINE a == m * q + r
           d == a \div m
           e == a % m
<1>1. a \in Int /\ m \in Int /\ m > 0 /\ r \in Int /\ 0 <= r /\ r < m  OBVIOUS
<1>2. a = m * q + r  OBVIOUS
<1> HIDE DEF a
<1>3. d \in Int /\ e \in Int /\ a = m * d + e /\ 0 <= e /\ e < m  BY <1>1
<1> HIDE DEF d, e
<1>4. m * (q - d) = e - r  BY <1>1, <1>2, <1>3
<1> DEFINE f == q - d
<1>5. f \in Int /\ m * f = e - r  BY <1>3, <1>4
<1> HIDE DEF f
<1>6. f < 1
  <2> SUFFICES ASSUME f >= 1  PROVE FALSE  BY <1>5
  <2>1. m * (f - 1) >= 0  BY <1>1, <1>5
  <2>2. m * f >= m  BY <1>1, <1>5, <2>1
  <2> QED  BY <1>1, <1>3, <1>5, <2>2
<1>7. f > -1
  <2> SUFFICES ASSUME f <= -1  PROVE FALSE  BY <1>5
  <2>1. m * (-1 - f) >= 0  BY <1>1, <1>5
  <2>2. m * f <= -m  BY <1>1, <1>5, <2>1
  <2> QED  BY <1>1, <1>3, <1>5, <2>2
<1>8. f = 0  BY <1>5, <1>6, <1>7
<1>9. m * 0 = 0  BY <1>1
<1>10. e = r  BY <1>1, <1>3, <1>5, <1>8, <1>9
<1> QED  BY <1>10 DEF e, a

\* ... and every number is a multiple of m and its remainder.
LEMMA Division ==
  ASSUME NEW m \in Nat \ {0}, NEW a \in Int
  PROVE  \E q \in Int : a = m * q + (a % m)
<1>1. a \div m \in Int /\ a = m * (a \div m) + (a % m)  OBVIOUS
<1> QED  BY <1>1

LEMMA SumOfRemainders ==
  ASSUME NEW m \in Nat \ {0}, NEW a \in Int, NEW x \in Int
  PROVE  ((a % m) + x) % m = (a + x) % m
<1> DEFINE r == (a + x) % m
           s == a % m
<1>1. PICK p \in Int : a = m * p + s  BY Division
<1>2. PICK q \in Int : a + x = m * q + r
  <2>1. a + x \in Int  OBVIOUS
  <2> HIDE DEF r
  <2> DEFINE b == a + x
  <2> HIDE DEF b
  <2>2. \E q \in Int : b = m * q + (b % m)  BY <2>1, Division DEF b
  <2> QED  BY <2>2 DEF b, r
<1>3. r \in 0..m-1 /\ s \in Nat  OBVIOUS
<1> HIDE DEF r, s
<1>4. m * p \in Int /\ m * q \in Int /\ m * (q - p) \in Int /\ m * (q - p) = m * q - m * p
  OBVIOUS
<1>5. s + x = m * (q - p) + r  BY <1>1, <1>2, <1>3, <1>4
<1> DEFINE f == q - p
<1>6. f \in Int  OBVIOUS
<1> HIDE DEF f
<1>7. (m * f + r) % m = r  BY <1>3, <1>6, Remainder
<1>8. (s + x) % m = r  BY <1>5, <1>7 DEF f
<1> QED  BY <1>8 DEF r, s

-----------------------------------------------------------------------------
(* Sequences                                                               *)

LEMMA Joined ==
  ASSUME NEW S, NEW s \in Seq(S), NEW t \in Seq(S)
  PROVE  /\ s \o t \in Seq(S) /\ Len(s \o t) = Len(s) + Len(t)
         /\ \A i \in 1..Len(s) : (s \o t)[i] = s[i]
         /\ \A i \in 1..Len(t) : (s \o t)[Len(s) + i] = t[i]
  OBVIOUS
=============================================================================
