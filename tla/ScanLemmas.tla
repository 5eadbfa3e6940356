----------------------------- MODULE ScanLemmas -----------------------------
(* First and last hits of the scans over arrays that the models describe   *)
(* with Min and Max.                                                       *)
EXTENDS Integers, FiniteSetsExt, FiniteSetTheorems, TLAPS

\* A set of naturals that is not empty has a least element, which Min returns
\* (the scans of frat.c stop at the first hit).  The lower bounds of S form an
\* interval 0 .. k - 1 with k elements, so k - 1 is the least element.
LEMMA MinIsLeast ==
  ASSUME NEW S \in SUBSET Nat, S # {}
  PROVE  Min(S) \in S /\ \A y \in S : Min(S) <= y
<1> DEFINE T == {n \in Nat : \A y \in S : n <= y}
           k == Cardinality(T)
<1>1. PICK z \in S : TRUE  OBVIOUS
<1>2. \A n \in T : n <= z  BY <1>1
<1>3. IsFiniteSet(T)
  <2>1. T \in SUBSET Nat /\ z \in Nat  BY <1>1
  <2> QED BY <2>1, <1>2, FS_BoundedSetOfNaturals
<1>4. k \in Nat  BY <1>3, FS_CardinalityType
<1>5. \A n \in T : \A i \in 0 .. n : i \in T  OBVIOUS
<1>6. k \notin T
  <2> SUFFICES ASSUME k \in T PROVE FALSE  OBVIOUS
  <2>1. 0 .. k \subseteq T  BY <1>5
  <2>2. Cardinality(0 .. k) <= k  BY <2>1, <1>3, FS_Subset
  <2>3. Cardinality(0 .. k) = k + 1  BY <1>4, FS_Interval
  <2> QED BY <2>2, <2>3, <1>4
<1>7. 0 \in T /\ k # 0
  <2>1. 0 \in T  OBVIOUS
  <2> QED BY <2>1, <1>3, FS_EmptySet
<1>8. k - 1 \in T
  <2> SUFFICES ASSUME k - 1 \notin T PROVE FALSE  OBVIOUS
  <2>0. k - 1 \in Nat  BY <1>4, <1>7
  <2>1. \A n \in T : n <= k - 2
    <3> SUFFICES ASSUME NEW n \in T, n > k - 2 PROVE FALSE  BY <1>4
    <3>1. k - 1 \in 0 .. n  BY <2>0, <1>4
    <3> QED BY <3>1, <1>5
  <2>2. T \in SUBSET (0 .. (k - 2))  BY <2>1, <1>4
  <2>3. IsFiniteSet(0 .. (k - 2)) /\ Cardinality(0 .. (k - 2)) = k - 1
    <3> DEFINE j == k - 2
    <3>1. j \in Int /\ 0 \in Int /\ j - 0 + 1 = k - 1 /\ (0 > j => k - 1 = 0)
      BY <1>4, <1>7
    <3> HIDE DEF j
    <3>2. IsFiniteSet(0 .. j) /\ Cardinality(0 .. j) = IF 0 > j THEN 0 ELSE j - 0 + 1
      BY <3>1, FS_Interval
    <3>3. IsFiniteSet(0 .. j) /\ Cardinality(0 .. j) = k - 1
      BY <3>1, <3>2
    <3> QED BY <3>3 DEF j
  <2>4. k <= Cardinality(0 .. (k - 2))  
    <3> HIDE DEF T
    <3> QED BY <2>2, <2>3, FS_Subset
  <2> QED BY <2>4, <2>3, <1>4
<1>9. \E x \in S : \A y \in S : x <= y
  <2>1. k \in Nat /\ k - 1 \in Nat  BY <1>4, <1>7
  <2>2. PICK x \in S : ~(k <= x)  BY <1>6, <2>1
  <2>3. k - 1 <= x /\ \A y \in S : k - 1 <= y  BY <1>8
  <2>4. x = k - 1  BY <2>1, <2>2, <2>3
  <2> QED BY <2>3, <2>4
<1> QED BY <1>9 DEF Min

\* A set of indices below a bound that is not empty has a greatest element,
\* which Max returns (loops that overwrite what an earlier turn wrote).
LEMMA MaxIsGreatest ==
  ASSUME NEW n \in Nat, NEW S \in SUBSET (0 .. n), S # {}
  PROVE  Max(S) \in S /\ \A y \in S : y <= Max(S)
<1> DEFINE T == {n - i : i \in S}
<1>1. T \in SUBSET Nat /\ T # {}
  <2>1. \A i \in S : n - i \in Nat  OBVIOUS
  <2>2. PICK z \in S : TRUE  OBVIOUS
  <2>3. n - z \in T  OBVIOUS
  <2>4. \A t \in T : t \in Nat  BY <2>1
  <2> QED BY <2>3, <2>4
<1>2. Min(T) \in T /\ \A y \in T : Min(T) <= y
  <2> HIDE DEF T
  <2> QED BY <1>1, MinIsLeast
<1>3. PICK i \in S : Min(T) = n - i  BY <1>2
<1>4. \A j \in S : n - i <= n - j  BY <1>2, <1>3
<1>5. \A j \in S : j <= i  BY <1>4
<1> QED BY <1>5 DEF Max
============================================================================
