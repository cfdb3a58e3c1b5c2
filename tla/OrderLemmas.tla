---------------------------- MODULE OrderLemmas ----------------------------
(***************************************************************************)
(* Positions in a sequence, as the proofs about the vectors of the program *)
(* use them: the first of some positions, the k-th of them, and where an   *)
(* erased element leaves the others.                                       *)
(***************************************************************************)
EXTENDS Naturals, FiniteSets, Sequences, SequencesExt, FiniteSetTheorems, SequenceTheorems,
        WellFoundedInduction, TLAPS

(* A set of numbers that is not empty has a least one.                     *)
LEMMA LeastNatural ==
  ASSUME NEW T \in SUBSET Nat, T # {}
  PROVE  \E i \in T : \A j \in T : i <= j
<1> DEFINE R == OpToRel(<, Nat)
<1>1. IsWellFoundedOn(R, Nat)
  BY NatLessThanWellFounded
<1>2. \A x, y \in Nat : <<y, x>> \in R <=> y < x
  BY DEF OpToRel
<1> HIDE DEF R
<1>3. PICK i \in T : \A j \in T : ~(<<j, i>> \in R)
  BY <1>1, WFMin, Zenon
<1>4. \A j \in T : ~(j < i)
  BY <1>2, <1>3
<1>5. QED
  BY <1>4

(* Counting up to each of some positions takes every value: one of them is *)
(* the k-th.                                                               *)
LEMMA KthPosition ==
  ASSUME NEW n \in Nat, NEW kept \in SUBSET (1 .. n), NEW k \in 1 .. Cardinality(kept)
  PROVE  \E i \in kept : Cardinality({j \in kept : j <= i}) = k
<1> DEFINE upto(i) == {j \in kept : j <= i}
           c(i) == Cardinality(upto(i))
           m == Cardinality(kept)
           T == {i \in 0 .. n : c(i) >= k}
<1>1. IsFiniteSet(kept) /\ m \in Nat
  <2>1. IsFiniteSet(1 .. n)
    BY FS_Interval
  <2>2. QED
    BY <2>1, FS_Subset, FS_CardinalityType
<1>2. \A i \in 0 .. n : IsFiniteSet(upto(i)) /\ c(i) \in Nat
  <2>1. TAKE i \in 0 .. n
  <2>2. upto(i) \in SUBSET kept
    OBVIOUS
  <2> HIDE DEF upto
  <2>3. IsFiniteSet(upto(i))
    BY <1>1, <2>2, FS_Subset
  <2>4. QED
    BY <2>3, FS_CardinalityType
<1>3. c(0) = 0 /\ c(n) = m
  <2>1. \A j \in kept : ~(j <= 0) /\ j <= n
    OBVIOUS
  <2>2. upto(0) = {} /\ upto(n) = kept
    BY <2>1, Zenon
  <2> HIDE DEF upto
  <2>3. QED
    BY <2>2, FS_EmptySet
<1>4. \A i \in 1 .. n : c(i) = IF i \in kept THEN c(i - 1) + 1 ELSE c(i - 1)
  <2>1. TAKE i \in 1 .. n
  <2>2. i - 1 \in 0 .. n
    OBVIOUS
  <2>3. CASE i \in kept
    <3>1. \A j \in kept : j <= i <=> j <= i - 1 \/ j = i
      OBVIOUS
    <3>2. ~(i <= i - 1)
      OBVIOUS
    <3>3. upto(i) = upto(i - 1) \cup {i} /\ i \notin upto(i - 1)
      BY <2>3, <3>1, <3>2, Zenon
    <3> HIDE DEF upto
    <3>4. QED
      BY <1>2, <2>2, <2>3, <3>3, FS_AddElement
  <2>4. CASE i \notin kept
    <3>1. \A j \in kept : j <= i <=> j <= i - 1
      BY <2>4
    <3>2. upto(i) = upto(i - 1)
      BY <3>1, Zenon
    <3> HIDE DEF upto
    <3>3. QED
      BY <2>4, <3>2
  <2>5. QED
    BY <2>3, <2>4
<1> HIDE DEF c, m
<1>5. k \in Nat /\ 1 <= k /\ k <= m
  BY <1>1 DEF m
<1>6. PICK i \in T : \A j \in T : i <= j
  <2>1. n \in T
    BY <1>3, <1>5
  <2>2. T \in SUBSET Nat
    OBVIOUS
  <2> HIDE DEF T
  <2>3. QED
    BY <2>1, <2>2, LeastNatural
<1>7. i \in 1 .. n /\ c(i) >= k
  <2>1. i \in 0 .. n /\ c(i) >= k
    OBVIOUS
  <2>2. i # 0
    BY <1>3, <1>5, <2>1
  <2>3. QED
    BY <2>1, <2>2
<1>8. i - 1 \in 0 .. n /\ c(i - 1) < k
  <2>1. i - 1 \in 0 .. n /\ ~(i <= i - 1)
    BY <1>7
  <2>2. ~(c(i - 1) >= k)
    BY <1>6, <2>1
  <2>3. c(i - 1) \in Nat
    BY <1>2, <2>1
  <2>4. QED
    BY <1>5, <2>1, <2>2, <2>3
<1>9. i \in kept /\ c(i) = k
  <2>1. c(i) \in Nat /\ c(i - 1) \in Nat
    BY <1>2, <1>7, <1>8
  <2>2. c(i) = IF i \in kept THEN c(i - 1) + 1 ELSE c(i - 1)
    BY <1>4, <1>7
  <2>3. QED
    BY <1>5, <1>7, <1>8, <2>1, <2>2
<1>10. QED
  BY <1>9 DEF c

(* What RemoveAt leaves keeps its order and closes the gap.                *)
LEMMA RemovedPositions ==
  ASSUME NEW S, NEW s \in Seq(S), NEW i \in 1 .. Len(s)
  PROVE  /\ RemoveAt(s, i) \in Seq(S) /\ Len(RemoveAt(s, i)) = Len(s) - 1
         /\ \A k \in 1 .. Len(s) - 1 : RemoveAt(s, i)[k] = IF k < i THEN s[k] ELSE s[k + 1]
<1> DEFINE low == SubSeq(s, 1, i - 1)
           high == SubSeq(s, i + 1, Len(s))
<1>1. low \in Seq(S) /\ Len(low) = i - 1 /\ \A k \in 1 .. i - 1 : low[k] = s[k]
  OBVIOUS
<1>2. /\ high \in Seq(S) /\ Len(high) = Len(s) - i
      /\ \A k \in 1 .. Len(s) - i : high[k] = s[i + k]
  OBVIOUS
<1> HIDE DEF low, high
<1>3. /\ low \o high \in Seq(S)
      /\ Len(low \o high) = Len(s) - 1
      /\ \A k \in 1 .. Len(s) - 1 : (low \o high)[k] = IF k < i THEN s[k] ELSE s[k + 1]
  <2>1. /\ low \o high \in Seq(S)
        /\ Len(low \o high) = Len(s) - 1
        /\ \A k \in 1 .. Len(s) - 1 :
             (low \o high)[k] = IF k <= i - 1 THEN low[k] ELSE high[k - (i - 1)]
    <3>1. Len(low) + Len(high) = Len(s) - 1
      BY <1>1, <1>2
    <3>2. /\ low \o high \in Seq(S)
          /\ Len(low \o high) = Len(low) + Len(high)
          /\ \A k \in 1 .. Len(low) + Len(high) :
               (low \o high)[k] = IF k <= Len(low) THEN low[k] ELSE high[k - Len(low)]
      BY <1>1, <1>2, ConcatProperties, Zenon
    <3>3. QED
      BY <1>1, <3>1, <3>2
  <2>2. ASSUME NEW k \in 1 .. Len(s) - 1, k >= i
        PROVE  high[k - (i - 1)] = s[k + 1]
    <3>1. k - (i - 1) \in 1 .. Len(s) - i /\ i + (k - (i - 1)) = k + 1
      BY <2>2
    <3>2. QED
      BY <1>2, <3>1
  <2>3. QED
    BY <1>1, <2>1, <2>2
<1>4. QED
  BY <1>3 DEF RemoveAt, low, high

=============================================================================
