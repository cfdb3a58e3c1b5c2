---------------------------- MODULE ParserProofs ----------------------------
(***************************************************************************)
(* What the parser makes of texts of any length.                           *)
(*                                                                         *)
(* split() scans, and its recursion is over the positions of a text that   *)
(* is as long as it likes.  The tokens as the reference definition lists   *)
(* them, from any position on, satisfy the same equation; so the function  *)
(* that the recursion defines exists, and it is theirs, because there is   *)
(* no last position from which on the two differ.                          *)
(***************************************************************************)
EXTENDS Parser, OrderLemmas, TLAPS

(* Member number k of a set of numbers, from 0 on *)
Nth(C, k) == CHOOSE c \in C : Cardinality({d \in C : d < c}) = k

(* The reference tokens of what is left of s from start on *)
CutsFrom(s, delim, start) ==
  {start - 1, Len(s) + 1} \cup {i \in start .. Len(s) : s[i] = delim}

TokensFrom(s, delim, start) ==
  [k \in 1 .. Cardinality(CutsFrom(s, delim, start)) - 1 |->
     Chomp(SubSeq(s, Nth(CutsFrom(s, delim, start), k - 1) + 1,
                     Nth(CutsFrom(s, delim, start), k) - 1))]

-----------------------------------------------------------------------------
(* Searching and numbering. *)

LEMMA FindFromIs ==
  ASSUME NEW S, NEW s \in Seq(S), NEW delim, NEW start \in 1 .. Len(s) + 1
  PROVE  \/ /\ FindFrom(s, delim, start) = 0
            /\ \A i \in start .. Len(s) : s[i] # delim
         \/ /\ FindFrom(s, delim, start) \in start .. Len(s)
            /\ s[FindFrom(s, delim, start)] = delim
            /\ \A i \in start .. FindFrom(s, delim, start) - 1 : s[i] # delim
<1> DEFINE at == {i \in start .. Len(s) : s[i] = delim}
           least == CHOOSE i \in at : \A j \in at : i <= j
<1>1. Len(s) \in Nat /\ at \in SUBSET Nat
  OBVIOUS
<1>2. FindFrom(s, delim, start) = IF at = {} THEN 0 ELSE least
  BY DEF FindFrom
<1>3. CASE at = {}
  BY <1>2, <1>3
<1>4. CASE at # {}
  <2>1. least \in at /\ \A j \in at : least <= j
    <3> HIDE DEF at
    <3>1. \E i \in at : \A j \in at : i <= j
      BY <1>1, <1>4, LeastNatural
    <3>2. QED
      BY <3>1
  <2> HIDE DEF least
  <2>2. FindFrom(s, delim, start) = least
    BY <1>2, <1>4
  <2>3. least \in start .. Len(s) /\ s[least] = delim
    BY <2>1
  <2>4. \A i \in start .. least - 1 : s[i] # delim
    <3>1. TAKE i \in start .. least - 1
    <3>2. i \in start .. Len(s) /\ ~(least <= i)
      BY <1>1, <2>3
    <3>3. QED
      BY <2>1, <3>2
  <2>5. QED
    BY <2>2, <2>3, <2>4
<1>5. QED
  BY <1>3, <1>4

LEMMA ChompIsText ==
  ASSUME NEW S, NEW token \in Seq(S)
  PROVE  Chomp(token) \in Seq(S)
<1>1. token # <<>> => Front(token) \in Seq(S)
  BY DEF Front
<1>2. QED
  BY <1>1 DEF Chomp

(* The first member is the least, and it counts for all others. *)
LEMMA NthMembers ==
  ASSUME NEW C \in SUBSET Nat, IsFiniteSet(C), NEW m \in C, \A d \in C : m <= d
  PROVE  /\ Nth(C, 0) = m
         /\ \A k \in Nat : Nth(C, k + 1) = Nth(C \ {m}, k)
<1> DEFINE below(c) == {d \in C : d < c}
           rest(c)  == {d \in C \ {m} : d < c}
<1>1. \A c \in C : IsFiniteSet(below(c)) /\ IsFiniteSet(rest(c))
  <2>1. TAKE c \in C
  <2>2. below(c) \in SUBSET C /\ rest(c) \in SUBSET C
    OBVIOUS
  <2> HIDE DEF below, rest
  <2>3. QED
    BY <2>2, FS_Subset
<1>2. below(m) = {}
  <2>1. \A d \in C : ~(d < m)
    <3>1. TAKE d \in C
    <3>2. m <= d /\ m \in Nat /\ d \in Nat
      OBVIOUS
    <3>3. QED
      BY <3>2
  <2>2. QED
    BY <2>1, Zenon
<1>3. \A c \in C \ {m} : below(c) = rest(c) \cup {m} /\ m \notin rest(c)
  <2>1. TAKE c \in C \ {m}
  <2>2. m < c
    <3>1. m <= c /\ m # c /\ m \in Nat /\ c \in Nat
      OBVIOUS
    <3>2. QED
      BY <3>1
  <2>3. QED
    BY <2>2
<1>4. Cardinality({}) = 0
  BY FS_EmptySet
<1>5. \A c \in C \ {m} :
        Cardinality(rest(c)) \in Nat /\ Cardinality(below(c)) = Cardinality(rest(c)) + 1
  <2>1. TAKE c \in C \ {m}
  <2>2. IsFiniteSet(rest(c)) /\ below(c) = rest(c) \cup {m} /\ m \notin rest(c)
    BY <1>1, <1>3
  <2> HIDE DEF below, rest
  <2>3. QED
    BY <2>2, FS_AddElement, FS_CardinalityType
<1>6. Nth(C, 0) = m
  <2>1. \A c \in C : Cardinality(below(c)) = 0 <=> c = m
    <3> HIDE DEF below, rest
    <3>1. QED
      BY <1>2, <1>4, <1>5
  <2>2. QED
    BY <2>1 DEF Nth
<1>7. ASSUME NEW k \in Nat
      PROVE  Nth(C, k + 1) = Nth(C \ {m}, k)
  <2>1. \A c : (c \in C /\ Cardinality(below(c)) = k + 1)
                 <=> (c \in C \ {m} /\ Cardinality(rest(c)) = k)
    <3> HIDE DEF below, rest
    <3>1. k + 1 # 0
      OBVIOUS
    <3>2. Cardinality(below(m)) = 0
      BY <1>2, <1>4
    <3>3. TAKE c
    <3>4. CASE c \in C \ {m}
      <4>1. Cardinality(rest(c)) \in Nat /\ Cardinality(below(c)) = Cardinality(rest(c)) + 1
        BY <1>5, <3>4
      <4>2. Cardinality(below(c)) = k + 1 <=> Cardinality(rest(c)) = k
        BY <4>1
      <4>3. QED
        BY <3>4, <4>2, Zenon
    <3>5. CASE c \notin C \ {m}
      BY <3>1, <3>2, <3>5, Zenon
    <3>6. QED
      BY <3>4, <3>5
  <2>2. (CHOOSE c : c \in C /\ Cardinality(below(c)) = k + 1)
          = (CHOOSE c : c \in C \ {m} /\ Cardinality(rest(c)) = k)
    <3> HIDE DEF below, rest
    <3>1. QED
      BY <2>1, Zenon
  <2>3. Nth(C, k + 1) = (CHOOSE c : c \in C /\ Cardinality(below(c)) = k + 1)
    BY DEF Nth
  <2>4. Nth(C \ {m}, k) = (CHOOSE c : c \in C \ {m} /\ Cardinality(rest(c)) = k)
    BY DEF Nth
  <2>5. QED
    BY <2>2, <2>3, <2>4
<1>8. QED
  BY <1>6, <1>7

-----------------------------------------------------------------------------
(* The tokens by position. *)

LEMMA CutsAre ==
  ASSUME NEW S, NEW s \in Seq(S), NEW delim, NEW start \in 1 .. Len(s) + 1
  PROVE  /\ CutsFrom(s, delim, start) \in SUBSET Nat
         /\ IsFiniteSet(CutsFrom(s, delim, start))
         /\ start - 1 \in CutsFrom(s, delim, start)
         /\ \A d \in CutsFrom(s, delim, start) : start - 1 <= d
         /\ \A k \in Nat : Nth(CutsFrom(s, delim, start), k + 1)
                             = Nth(CutsFrom(s, delim, start) \ {start - 1}, k)
         /\ Nth(CutsFrom(s, delim, start), 0) = start - 1
<1> DEFINE C == CutsFrom(s, delim, start)
<1>1. C \in SUBSET (0 .. Len(s) + 1)
  BY DEF CutsFrom
<1>2. IsFiniteSet(0 .. Len(s) + 1)
  BY FS_Interval
<1>3. start - 1 \in C /\ \A d \in C : start - 1 <= d
  BY DEF CutsFrom
<1> HIDE DEF C
<1>4. C \in SUBSET Nat /\ IsFiniteSet(C)
  <2>1. 0 .. Len(s) + 1 \in SUBSET Nat
    OBVIOUS
  <2>2. C \in SUBSET Nat
    BY <1>1, <2>1, Zenon
  <2>3. QED
    BY <1>1, <1>2, <2>2, FS_Subset, Zenon
<1>5. Nth(C, 0) = start - 1 /\ \A k \in Nat : Nth(C, k + 1) = Nth(C \ {start - 1}, k)
  BY <1>3, <1>4, NthMembers
<1>6. QED
  BY <1>3, <1>4, <1>5 DEF C

(* No delimiter is left: one token. *)
LEMMA LastToken ==
  ASSUME NEW S, NEW s \in Seq(S), NEW delim, NEW start \in 1 .. Len(s) + 1,
         \A i \in start .. Len(s) : s[i] # delim
  PROVE  TokensFrom(s, delim, start) = <<Chomp(SubSeq(s, start, Len(s)))>>
<1> DEFINE C == CutsFrom(s, delim, start)
           n == Len(s)
<1>1. n \in Nat /\ start - 1 # n + 1
  OBVIOUS
<1>2. C = {start - 1, n + 1} /\ C \ {start - 1} = {n + 1}
  BY <1>1 DEF CutsFrom
<1>3. Cardinality(C) = 2
  <2>1. IsFiniteSet({start - 1}) /\ Cardinality({start - 1}) = 1
    BY FS_Singleton
  <2>2. C = {start - 1} \cup {n + 1}
    BY <1>2
  <2> HIDE DEF C
  <2>3. Cardinality(C) = 1 + 1
    BY <1>1, <2>1, <2>2, FS_AddElement
  <2>4. QED
    BY <2>3
<1>4. Nth(C, 0) = start - 1 /\ Nth(C, 1) = n + 1
  <2>1. Nth(C, 0) = start - 1 /\ Nth(C, 0 + 1) = Nth(C \ {start - 1}, 0)
    BY CutsAre
  <2>2. Nth({n + 1}, 0) = n + 1
    <3>1. n + 1 \in Nat /\ n + 1 <= n + 1
      BY <1>1
    <3>2. IsFiniteSet({n + 1})
      BY FS_Singleton, Zenon
    <3> HIDE DEF n
    <3>3. {n + 1} \in SUBSET Nat /\ n + 1 \in {n + 1} /\ \A d \in {n + 1} : n + 1 <= d
      BY <3>1, Zenon
    <3>4. QED
      BY <3>2, <3>3, NthMembers, Zenon
  <2> HIDE DEF C
  <2>3. QED
    BY <1>2, <2>1, <2>2, 0 + 1 = 1, Zenon
<1>5. TokensFrom(s, delim, start)
        = [k \in 1 .. Cardinality(C) - 1 |-> Chomp(SubSeq(s, Nth(C, k - 1) + 1, Nth(C, k) - 1))]
  BY DEF TokensFrom
<1> HIDE DEF C
<1>6. \A k \in 1 .. 1 : Chomp(SubSeq(s, Nth(C, k - 1) + 1, Nth(C, k) - 1))
                          = Chomp(SubSeq(s, start, n))
  <2>1. TAKE k \in 1 .. 1
  <2>2. k = 1 /\ k - 1 = 0
    OBVIOUS
  <2>3. Nth(C, k - 1) + 1 = start /\ Nth(C, k) - 1 = n
    BY <1>1, <1>4, <2>2
  <2>4. QED
    BY <2>3
<1>7. TokensFrom(s, delim, start) = [k \in 1 .. 1 |-> Chomp(SubSeq(s, start, n))]
  BY <1>3, <1>5, <1>6
<1>8. QED
  BY <1>7

(* Up to the next delimiter, and what comes after it. *)
LEMMA FirstToken ==
  ASSUME NEW S, NEW s \in Seq(S), NEW delim, NEW start \in 1 .. Len(s) + 1,
         NEW e \in start .. Len(s), s[e] = delim, \A i \in start .. e - 1 : s[i] # delim
  PROVE  TokensFrom(s, delim, start)
           = <<Chomp(SubSeq(s, start, e - 1))>> \o TokensFrom(s, delim, e + 1)
<1> DEFINE C == CutsFrom(s, delim, start)
           D == CutsFrom(s, delim, e + 1)
           n == Len(s)
           token(k) == Chomp(SubSeq(s, Nth(C, k - 1) + 1, Nth(C, k) - 1))
           later(k) == Chomp(SubSeq(s, Nth(D, k - 1) + 1, Nth(D, k) - 1))
           first == Chomp(SubSeq(s, start, e - 1))
<1>1. n \in Nat /\ start \in Nat /\ e \in Nat /\ e + 1 \in 1 .. n + 1
  OBVIOUS
<1>2. D = C \ {start - 1}
  <2>1. start - 1 # n + 1 /\ start - 1 \notin start .. n /\ (e + 1) - 1 = e /\ start - 1 # e
    BY <1>1
  <2>2. \A i \in start .. n : s[i] = delim <=> i = e \/ (i \in e + 1 .. n /\ s[i] = delim)
    <3>1. \A i \in start .. n : i \in start .. e - 1 \/ i = e \/ i \in e + 1 .. n
      OBVIOUS
    <3>2. \A i \in start .. e - 1 : i # e /\ i \notin e + 1 .. n
      OBVIOUS
    <3>3. QED
      BY <3>1, <3>2
  <2>3. \A i \in e + 1 .. n : i \in start .. n
    OBVIOUS
  <2>4. C = {start - 1, n + 1} \cup {i \in start .. n : s[i] = delim}
    BY DEF CutsFrom
  <2>5. D = {e, n + 1} \cup {i \in e + 1 .. n : s[i] = delim}
    BY <2>1 DEF CutsFrom
  <2>6. e \in start .. n
    OBVIOUS
  <2> HIDE DEF C, D, n
  <2>7. QED
    BY <2>1, <2>2, <2>3, <2>4, <2>5, <2>6
<1>3. /\ Nth(C, 0) = start - 1 /\ \A k \in Nat : Nth(C, k + 1) = Nth(D, k)
      /\ Nth(D, 0) = e
      /\ IsFiniteSet(C) /\ start - 1 \in C /\ IsFiniteSet(D) /\ e \in D /\ n + 1 \in D
  <2>1. (e + 1) - 1 = e /\ n + 1 \in D
    BY <1>1 DEF CutsFrom
  <2>2. /\ IsFiniteSet(D) /\ e \in D /\ Nth(D, 0) = e
    <3>1. e + 1 \in 1 .. Len(s) + 1
      BY <1>1
    <3> DEFINE next == e + 1
    <3> HIDE DEF next
    <3>2. next \in 1 .. Len(s) + 1
      BY <3>1 DEF next
    <3>3. /\ IsFiniteSet(CutsFrom(s, delim, next))
          /\ next - 1 \in CutsFrom(s, delim, next)
          /\ Nth(CutsFrom(s, delim, next), 0) = next - 1
      BY <3>2, CutsAre
    <3>4. next - 1 = e /\ CutsFrom(s, delim, next) = D
      BY <2>1 DEF next
    <3>5. QED
      BY <3>3, <3>4, Zenon
  <2>3. /\ IsFiniteSet(C) /\ start - 1 \in C /\ Nth(C, 0) = start - 1
        /\ \A k \in Nat : Nth(C, k + 1) = Nth(C \ {start - 1}, k)
    <3>1. IsFiniteSet(C) /\ start - 1 \in C /\ Nth(C, 0) = start - 1
      BY CutsAre
    <3>2. ASSUME NEW k \in Nat
          PROVE  Nth(C, k + 1) = Nth(C \ {start - 1}, k)
      <4>1. \A j \in Nat : Nth(CutsFrom(s, delim, start), j + 1)
                             = Nth(CutsFrom(s, delim, start) \ {start - 1}, j)
        BY CutsAre
      <4>2. QED
        BY <4>1
    <3>3. QED
      BY <3>1, <3>2
  <2> HIDE DEF C, D
  <2>4. QED
    BY <1>2, <2>1, <2>2, <2>3
<1>4. TokensFrom(s, delim, start) = [k \in 1 .. Cardinality(C) - 1 |-> token(k)]
  BY DEF TokensFrom
<1>5. TokensFrom(s, delim, e + 1) = [k \in 1 .. Cardinality(D) - 1 |-> later(k)]
  BY DEF TokensFrom
<1> HIDE DEF C, D, n
<1>6. Cardinality(C) = Cardinality(D) + 1 /\ Cardinality(D) \in Nat /\ Cardinality(D) >= 1
  <2>1. Cardinality(D) \in Nat /\ Cardinality(D) # 0
    BY <1>3, FS_CardinalityType, FS_EmptySet
  <2>2. Cardinality(D) = Cardinality(C) - 1 /\ Cardinality(C) \in Nat
    BY <1>2, <1>3, FS_RemoveElement, FS_CardinalityType
  <2>3. QED
    BY <2>1, <2>2
<1>7. token(1) = first
  <2>1. Nth(C, 1 - 1) = start - 1 /\ Nth(C, 1) = e
    <3>1. Nth(C, 0 + 1) = Nth(D, 0) /\ 0 + 1 = 1 /\ 1 - 1 = 0
      BY <1>3
    <3>2. QED
      BY <1>3, <3>1
  <2>2. (start - 1) + 1 = start
    BY <1>1
  <2>3. QED
    BY <2>1, <2>2
<1>8. \A k \in Nat : k >= 2 => token(k) = later(k - 1)
  <2>1. TAKE k \in Nat
  <2>2. HAVE k >= 2
  <2>3. k - 1 \in Nat /\ k - 2 \in Nat /\ (k - 1) + 1 = k /\ (k - 2) + 1 = k - 1
        /\ (k - 1) - 1 = k - 2
    BY <2>2
  <2>4. Nth(C, k) = Nth(D, k - 1) /\ Nth(C, k - 1) = Nth(D, k - 2)
    BY <1>3, <2>3
  <2>5. QED
    BY <2>3, <2>4
<1> DEFINE N == Cardinality(D) - 1
           rest == [k \in 1 .. N |-> later(k)]
           U == {later(k) : k \in 1 .. N} \cup {first}
<1>9. TokensFrom(s, delim, start) = [k \in 1 .. N + 1 |-> token(k)]
  <2>1. Cardinality(C) - 1 = N + 1
    BY <1>6
  <2>2. QED
    BY <1>4, <2>1
<1> HIDE DEF token, later, first
<1>10. N \in Nat /\ rest \in Seq(U) /\ Len(rest) = N /\ <<first>> \in Seq(U)
  <2>1. N \in Nat
    BY <1>6
  <2> HIDE DEF N
  <2>2. QED
    BY <2>1
<1> HIDE DEF N
<1>11. [k \in 1 .. N + 1 |-> token(k)] = <<first>> \o rest
  <2>1. /\ <<first>> \o rest \in Seq(U)
        /\ Len(<<first>> \o rest) = N + 1
        /\ \A k \in 1 .. N + 1 :
             (<<first>> \o rest)[k] = IF k <= 1 THEN <<first>>[k] ELSE rest[k - 1]
    <3>1. Len(<<first>>) = 1 /\ Len(rest) = N /\ N + 1 = 1 + N
      BY <1>10
    <3> HIDE DEF rest, U
    <3>2. QED
      BY <1>10, <3>1, ConcatProperties
  <2>2. ASSUME NEW k \in 1 .. N + 1
        PROVE  (<<first>> \o rest)[k] = token(k)
    <3>1. CASE k = 1
      BY <1>7, <2>1, <3>1
    <3>2. CASE k # 1
      <4>1. k \in Nat /\ k >= 2 /\ k - 1 \in 1 .. N /\ ~(k <= 1)
        BY <1>10, <3>2
      <4>2. rest[k - 1] = later(k - 1)
        BY <4>1
      <4> HIDE DEF rest
      <4>3. QED
        BY <1>8, <2>1, <4>1, <4>2
    <3>3. QED
      BY <3>1, <3>2
  <2> HIDE DEF rest, U
  <2>3. <<first>> \o rest = [k \in 1 .. N + 1 |-> (<<first>> \o rest)[k]]
    BY <1>10, <2>1
  <2>4. QED
    BY <2>2, <2>3
<1>12. QED
  BY <1>5, <1>9, <1>11 DEF first, N

-----------------------------------------------------------------------------
(* The scan. *)

LEMMA ScanFindsTokens ==
  ASSUME NEW S, NEW s \in Seq(S), NEW delim
  PROVE  /\ Split(s, delim) = TokensFrom(s, delim, 1)
         /\ Split(s, delim) \in Seq(Seq(S)) /\ Split(s, delim) # <<>>
<1> DEFINE n == Len(s)
           end(k)   == FindFrom(s, delim, k)
           last(k)  == Chomp(SubSeq(s, k, n))
           token(k) == Chomp(SubSeq(s, k, end(k) - 1))
           loop(f)  == [k \in 1 .. n + 1 |->
                          IF end(k) = 0 THEN <<last(k)>> ELSE <<token(k)>> \o f[end(k) + 1]]
           tokens   == CHOOSE f : f = loop(f)
           g        == [k \in 1 .. n + 1 |-> TokensFrom(s, delim, k)]
<1>1. Split(s, delim) = tokens[1]
  BY DEF Split
<1>2. n \in Nat /\ 1 \in 1 .. n + 1
  OBVIOUS
<1>3. ASSUME NEW k \in 1 .. n + 1
      PROVE  \/ end(k) = 0 /\ g[k] = <<last(k)>> /\ last(k) \in Seq(S)
             \/ /\ end(k) \in k .. n /\ end(k) + 1 \in 1 .. n + 1
                /\ g[k] = <<token(k)>> \o g[end(k) + 1] /\ token(k) \in Seq(S)
  <2>1. g[k] = TokensFrom(s, delim, k)
    OBVIOUS
  <2>2. CASE end(k) = 0 /\ \A i \in k .. n : s[i] # delim
    <3>1. TokensFrom(s, delim, k) = <<last(k)>>
      BY <2>2, LastToken
    <3>2. last(k) \in Seq(S)
      <4>1. SubSeq(s, k, n) \in Seq(S)
        OBVIOUS
      <4>2. QED
        BY <4>1, ChompIsText
    <3>3. QED
      BY <2>1, <2>2, <3>1, <3>2
  <2>3. CASE end(k) \in k .. n /\ s[end(k)] = delim /\ \A i \in k .. end(k) - 1 : s[i] # delim
    <3>1. end(k) + 1 \in 1 .. n + 1
      BY <2>3
    <3>2. TokensFrom(s, delim, k) = <<token(k)>> \o TokensFrom(s, delim, end(k) + 1)
      <4> DEFINE e == end(k)
      <4>1. e \in k .. n /\ s[e] = delim /\ \A i \in k .. e - 1 : s[i] # delim
        BY <2>3
      <4> HIDE DEF e
      <4>2. TokensFrom(s, delim, k)
              = <<Chomp(SubSeq(s, k, e - 1))>> \o TokensFrom(s, delim, e + 1)
        BY <4>1, FirstToken
      <4>3. QED
        BY <4>2 DEF e
    <3>3. g[end(k) + 1] = TokensFrom(s, delim, end(k) + 1)
      BY <3>1
    <3>4. token(k) \in Seq(S)
      <4>1. SubSeq(s, k, end(k) - 1) \in Seq(S)
        BY <2>3
      <4>2. QED
        BY <4>1, ChompIsText
    <3>5. QED
      BY <2>1, <2>3, <3>1, <3>2, <3>3, <3>4
  <2>4. QED
    BY <2>2, <2>3, FindFromIs
<1> HIDE DEF end, last, token
<1>4. tokens = loop(tokens)
  <2>1. g = loop(g)
    <3> DEFINE body(k) == IF end(k) = 0 THEN <<last(k)>> ELSE <<token(k)>> \o g[end(k) + 1]
    <3>1. g = [k \in 1 .. n + 1 |-> g[k]]
      OBVIOUS
    <3>2. loop(g) = [k \in 1 .. n + 1 |-> body(k)]
      OBVIOUS
    <3> HIDE DEF g, loop
    <3>3. \A k \in 1 .. n + 1 : g[k] = body(k)
      <4>1. TAKE k \in 1 .. n + 1
      <4>2. CASE end(k) = 0
        <5>1. end(k) \notin k .. n
          BY <4>2
        <5>2. QED
          BY <1>3, <4>2, <5>1
      <4>3. CASE end(k) # 0
        BY <1>3, <4>3
      <4>4. QED
        BY <4>2, <4>3
    <3> HIDE DEF body
    <3>4. QED
      BY <3>1, <3>2, <3>3
  <2> HIDE DEF g, loop
  <2>2. QED
    BY <2>1
<1> HIDE DEF tokens
<1>5. \A k \in 1 .. n + 1 :
        tokens[k] = IF end(k) = 0 THEN <<last(k)>> ELSE <<token(k)>> \o tokens[end(k) + 1]
  BY <1>4
<1> HIDE DEF g, n
<1> DEFINE Good(k) == tokens[k] = g[k] /\ tokens[k] \in Seq(Seq(S)) /\ tokens[k] # <<>>
           T == {j \in 0 .. n : ~Good(n + 1 - j)}
<1>6. T = {}
  <2>1. SUFFICES ASSUME NEW j \in T, \A i \in T : j <= i
                 PROVE  FALSE
    <3>1. T \in SUBSET Nat
      BY <1>2
    <3> HIDE DEF T
    <3>2. QED
      BY <3>1, LeastNatural
  <2> DEFINE k == n + 1 - j
  <2>2. j \in 0 .. n /\ k \in 1 .. n + 1 /\ ~Good(k)
    BY <1>2
  <2>3. CASE end(k) = 0
    <3>1. end(k) \notin k .. n
      BY <1>2, <2>2, <2>3
    <3>2. g[k] = <<last(k)>> /\ last(k) \in Seq(S)
      BY <1>3, <2>2, <3>1
    <3>3. tokens[k] = <<last(k)>>
      BY <1>5, <2>2, <2>3
    <3>4. <<last(k)>> \in Seq(Seq(S)) /\ <<last(k)>> # <<>>
      BY <3>2
    <3>5. QED
      BY <2>2, <3>2, <3>3, <3>4
  <2>4. CASE end(k) # 0
    <3> DEFINE e == end(k) + 1
    <3>1. /\ e \in 1 .. n + 1 /\ end(k) \in k .. n
          /\ g[k] = <<token(k)>> \o g[e] /\ token(k) \in Seq(S)
      BY <1>3, <2>2, <2>4
    <3>2. tokens[k] = <<token(k)>> \o tokens[e]
      BY <1>5, <2>2, <2>4
    <3>3. Good(e)
      <4>1. n + 1 - e \in 0 .. n /\ ~(j <= n + 1 - e) /\ n + 1 - (n + 1 - e) = e
        <5>1. \A i \in 0 .. n, c \in Nat :
                c \in n + 1 - i .. n =>
                  /\ n + 1 - (c + 1) \in 0 .. n /\ ~(i <= n + 1 - (c + 1))
                  /\ n + 1 - (n + 1 - (c + 1)) = c + 1
          BY <1>2
        <5>2. end(k) \in Nat /\ end(k) \in n + 1 - j .. n /\ j \in 0 .. n
          BY <1>2, <2>2, <3>1
        <5> HIDE DEF k
        <5>3. QED
          BY <5>1, <5>2
      <4>2. n + 1 - e \notin T
        BY <2>1, <4>1
      <4> HIDE DEF e, Good
      <4>3. QED
        BY <4>1, <4>2
    <3> HIDE DEF e, k
    <3>4. <<token(k)>> \o tokens[e] \in Seq(Seq(S)) /\ <<token(k)>> \o tokens[e] # <<>>
      <4>1. <<token(k)>> \in Seq(Seq(S)) /\ Len(<<token(k)>>) = 1
        BY <3>1
      <4>2. tokens[e] \in Seq(Seq(S)) /\ Len(tokens[e]) \in Nat
        BY <3>3
      <4>3. /\ <<token(k)>> \o tokens[e] \in Seq(Seq(S))
            /\ Len(<<token(k)>> \o tokens[e]) = 1 + Len(tokens[e])
        BY <4>1, <4>2, ConcatProperties
      <4>4. QED
        BY <4>2, <4>3
    <3>5. QED
      BY <2>2, <3>1, <3>2, <3>3, <3>4
  <2>5. QED
    BY <2>3, <2>4
<1>7. Good(1)
  <2>1. n \in 0 .. n /\ n + 1 - n = 1
    BY <1>2
  <2>2. n \notin T
    BY <1>6
  <2> HIDE DEF Good
  <2>3. QED
    BY <2>1, <2>2
<1>8. g[1] = TokensFrom(s, delim, 1)
  BY <1>2 DEF g
<1>9. QED
  BY <1>1, <1>7, <1>8

(* The tokens that split() finds, scanning, are those between the          *)
(* delimiters, in order, each without its carriage return: for every text  *)
(* and every delimiter, a carriage return as the delimiter included.       *)
THEOREM SplitIsTokens ==
  ASSUME NEW S, NEW s \in Seq(S), NEW delim
  PROVE  /\ Split(s, delim) = Tokens(s, delim)
         /\ Tokens(s, delim) \in Seq(Seq(S)) /\ Tokens(s, delim) # <<>>
<1>1. CutsFrom(s, delim, 1) = Cuts(s, delim)
  <2>1. 1 - 1 = 0
    OBVIOUS
  <2>2. QED
    BY <2>1 DEF CutsFrom, Cuts
<1>2. \A k : Nth(Cuts(s, delim), k) = Cut(s, delim, k)
  BY DEF Nth, Cut
<1>3. TokensFrom(s, delim, 1) = Tokens(s, delim)
  BY <1>1, <1>2 DEF TokensFrom, Tokens
<1>4. QED
  BY <1>3, ScanFindsTokens

-----------------------------------------------------------------------------
(* parse_message(), line by line. *)

FrameLines == Tokens(raw, NL)
Done       == Len(FrameLines) - Len(lines)
UpTo(k)    == Cardinality({i \in LinesWith("|") : i <= k})
Messages   == [room_id : Seq(TextChars), type : Seq(TextChars), args : Seq(Seq(TextChars))]

(* What is left are the last lines of the frame; the messages are those of *)
(* the lines before; the room is the one the next line is in.              *)
TypeOK ==
  /\ raw \in Seq(TextChars) /\ ident \in Seq(IdentChars)
  /\ lines \in Seq(Seq(TextChars)) /\ current_room \in Seq(TextChars)
  /\ msgs \in Seq(Messages)

LinesLeft ==
  /\ Len(lines) <= Len(FrameLines)
  /\ \A i \in 1 .. Len(lines) : lines[i] = FrameLines[Done + i]

MessagesSoFar ==
  /\ Len(msgs) = UpTo(Done)
  /\ \A k \in LinesWith("|") : k <= Done => msgs[UpTo(k)] = MessageOf(k)

RoomSoFar == current_room = RoomOf(Done + 1)

LoopInv == TypeOK /\ LinesLeft /\ MessagesSoFar /\ RoomSoFar

LEMMA FrameLinesAre ==
  ASSUME raw \in Seq(TextChars)
  PROVE  /\ FrameLines = Split(raw, NL) /\ FrameLines \in Seq(Seq(TextChars))
         /\ Len(FrameLines) \in Nat /\ Len(FrameLines) >= 1
         /\ \A c : LinesWith(c) = {k \in 1 .. Len(FrameLines) : First(FrameLines[k]) = c}
<1>1. FrameLines = Split(raw, NL) /\ FrameLines \in Seq(Seq(TextChars)) /\ FrameLines # <<>>
  BY SplitIsTokens DEF FrameLines
<1>2. \A c : LinesWith(c) = {k \in 1 .. Len(FrameLines) : First(FrameLines[k]) = c}
  BY DEF LinesWith, FrameLines
<1>3. QED
  BY <1>1, <1>2

LEMMA UpToCounts ==
  ASSUME raw \in Seq(TextChars), NEW k \in 0 .. Len(FrameLines) - 1
  PROVE  /\ UpTo(0) = 0 /\ UpTo(k) \in Nat
         /\ UpTo(k + 1) = IF k + 1 \in LinesWith("|") THEN UpTo(k) + 1 ELSE UpTo(k)
         /\ \A i \in LinesWith("|") : i <= k => UpTo(i) \in 1 .. UpTo(k)
<1> DEFINE bars == LinesWith("|")
           upto(i) == {j \in bars : j <= i}
           n == Len(FrameLines)
<1>1. n \in Nat /\ k \in Nat /\ \A j \in bars : j \in 1 .. n /\ j \in Nat /\ j >= 1
  BY FrameLinesAre
<1> HIDE DEF bars, n
<1>2. \A i \in Int : IsFiniteSet(upto(i)) /\ Cardinality(upto(i)) \in Nat
  <2>1. TAKE i \in Int
  <2>2. upto(i) \in SUBSET (1 .. n) /\ IsFiniteSet(1 .. n)
    BY <1>1, FS_Interval
  <2>3. QED
    BY <2>2, FS_Subset, FS_CardinalityType
<1>3. \A i : UpTo(i) = Cardinality(upto(i))
  BY DEF UpTo, bars
<1>4. UpTo(0) = 0
  <2>1. upto(0) = {}
    BY <1>1
  <2>2. QED
    BY <1>3, <2>1, FS_EmptySet
<1>5. UpTo(k + 1) = IF k + 1 \in bars THEN UpTo(k) + 1 ELSE UpTo(k)
  <2>1. CASE k + 1 \in bars
    <3>1. upto(k + 1) = upto(k) \cup {k + 1} /\ k + 1 \notin upto(k) /\ IsFiniteSet(upto(k))
      BY <1>1, <1>2, <2>1
    <3> HIDE DEF upto
    <3>2. QED
      BY <1>3, <2>1, <3>1, FS_AddElement
  <2>2. CASE k + 1 \notin bars
    <3>1. upto(k + 1) = upto(k)
      BY <1>1, <2>2
    <3> HIDE DEF upto
    <3>2. QED
      BY <1>3, <2>2, <3>1
  <2>3. QED
    BY <2>1, <2>2
<1>6. \A i \in bars : i <= k => UpTo(i) \in 1 .. UpTo(k)
  <2>1. TAKE i \in bars
  <2>2. HAVE i <= k
  <2>3. i \in upto(i) /\ upto(i) \in SUBSET upto(k) /\ i \in Int
    BY <1>1, <2>2
  <2>4. /\ IsFiniteSet(upto(i)) /\ IsFiniteSet(upto(k))
        /\ Cardinality(upto(i)) \in Nat /\ Cardinality(upto(k)) \in Nat
    BY <1>1, <1>2, <2>3
  <2> HIDE DEF upto
  <2>5. Cardinality(upto(i)) <= Cardinality(upto(k)) /\ Cardinality(upto(i)) # 0
    BY <2>3, <2>4, FS_Subset, FS_EmptySet
  <2>6. QED
    BY <1>3, <2>4, <2>5
<1>7. UpTo(k) \in Nat
  <2>1. k \in Int
    BY <1>1
  <2>2. Cardinality(upto(k)) \in Nat /\ UpTo(k) = Cardinality(upto(k))
    BY <1>2, <1>3, <2>1, Zenon
  <2> HIDE DEF upto
  <2>3. QED
    BY <2>2
<1>8. QED
  BY <1>4, <1>5, <1>6, <1>7 DEF bars

LEMMA RoomAbove ==
  ASSUME raw \in Seq(TextChars), NEW k \in 0 .. Len(FrameLines) - 1
  PROVE  /\ RoomOf(1) = <<>>
         /\ RoomOf(k + 2) = IF k + 1 \in LinesWith(">") THEN Tail(FrameLines[k + 1])
                            ELSE RoomOf(k + 1)
<1> DEFINE rooms == LinesWith(">")
           above(i) == {j \in rooms : j < i}
           last(A) == CHOOSE i \in A : \A j \in A : j <= i
<1>1. k \in Nat /\ \A j \in rooms : j \in Nat /\ j >= 1
  BY FrameLinesAre
<1>2. \A i : RoomOf(i) = IF above(i) = {} THEN <<>> ELSE Tail(FrameLines[last(above(i))])
  BY DEF RoomOf, FrameLines
<1> HIDE DEF rooms
<1>3. above(1) = {}
  BY <1>1
<1>4. CASE k + 1 \in rooms
  <2>1. k + 1 \in above(k + 2) /\ \A j \in above(k + 2) : j \in Nat /\ j <= k + 1
    BY <1>1, <1>4
  <2> HIDE DEF above
  <2>2. last(above(k + 2)) = k + 1
    <3>1. /\ last(above(k + 2)) \in above(k + 2)
          /\ \A j \in above(k + 2) : j <= last(above(k + 2))
      BY <2>1
    <3> HIDE DEF last
    <3>2. QED
      BY <1>1, <2>1, <3>1
  <2> HIDE DEF last
  <2>3. above(k + 2) # {}
    BY <2>1
  <2>4. RoomOf(k + 2) = Tail(FrameLines[k + 1])
    BY <1>2, <2>2, <2>3
  <2>5. QED
    BY <1>2, <1>3, <1>4, <2>4 DEF rooms
<1>5. CASE k + 1 \notin rooms
  <2>1. above(k + 2) = above(k + 1)
    BY <1>1, <1>5
  <2> HIDE DEF above, last
  <2>2. RoomOf(k + 2) = RoomOf(k + 1)
    BY <1>2, <2>1
  <2>3. QED
    BY <1>2, <1>3, <1>5, <2>2 DEF rooms
<1>6. QED
  BY <1>4, <1>5

LEMMA LoopStarts == Init => LoopInv
<1> SUFFICES ASSUME Init PROVE LoopInv
  OBVIOUS
<1>1. raw \in Seq(TextChars) /\ ident \in Seq(IdentChars)
  <2>1. \A S, max : max \in Nat => Texts(S, max) \in SUBSET Seq(S)
    BY DEF Texts
  <2>2. <<>> \in Seq(TextChars) /\ <<>> \in Seq(IdentChars)
    OBVIOUS
  <2>3. Texts(TextChars, MaxText) \in SUBSET Seq(TextChars)
    BY <2>1, ParserAssumption
  <2>4. Texts(IdentChars, MaxIdent) \in SUBSET Seq(IdentChars)
    BY <2>1, ParserAssumption
  <2>5. QED
    BY <2>2, <2>3, <2>4 DEF Init
<1>2. /\ FrameLines = Split(raw, NL) /\ FrameLines \in Seq(Seq(TextChars))
      /\ Len(FrameLines) \in Nat /\ Len(FrameLines) >= 1
      /\ \A c : LinesWith(c) = {k \in 1 .. Len(FrameLines) : First(FrameLines[k]) = c}
  BY <1>1, FrameLinesAre
<1>3. UpTo(0) = 0 /\ RoomOf(1) = <<>>
  <2>1. 0 \in 0 .. Len(FrameLines) - 1
    BY <1>2
  <2>2. QED
    BY <1>1, <2>1, UpToCounts, RoomAbove
<1>4. lines = IF raw = <<>> THEN <<>> ELSE FrameLines
  BY <1>2 DEF Init
<1>5. current_room = <<>> /\ msgs = <<>>
  BY DEF Init
<1>6. TypeOK
  BY <1>1, <1>2, <1>4, <1>5 DEF TypeOK
<1>7. CASE raw # <<>>
  <2>1. lines = FrameLines /\ Done = 0
    BY <1>2, <1>4, <1>7 DEF Done
  <2>2. LinesLeft
    BY <1>2, <2>1 DEF LinesLeft
  <2>3. MessagesSoFar
    <3>1. \A k \in LinesWith("|") : ~(k <= Done)
      BY <1>2, <2>1
    <3>2. QED
      BY <1>3, <1>5, <2>1, <3>1 DEF MessagesSoFar
  <2>4. RoomSoFar
    BY <1>3, <1>5, <2>1 DEF RoomSoFar
  <2>5. QED
    BY <1>6, <2>2, <2>3, <2>4 DEF LoopInv
<1>8. CASE raw = <<>>
  (* The one line of the empty frame is empty, and looking at it or not is *)
  (* the same.                                                             *)
  <2>1. FrameLines = << <<>> >>
    <3>1. raw \in Seq(TextChars) /\ 1 \in 1 .. Len(raw) + 1 /\ \A i \in 1 .. Len(raw) : raw[i] # NL
      BY <1>1, <1>8
    <3>2. TokensFrom(raw, NL, 1) = <<Chomp(SubSeq(raw, 1, Len(raw)))>>
      BY <3>1, LastToken
    <3>3. Split(raw, NL) = TokensFrom(raw, NL, 1)
      BY <1>1, ScanFindsTokens
    <3>4. SubSeq(raw, 1, Len(raw)) = <<>>
      BY <1>8
    <3>5. QED
      BY <1>2, <3>2, <3>3, <3>4 DEF Chomp
  <2>2. Len(FrameLines) = 1 /\ First(FrameLines[1]) = "none"
    BY <2>1 DEF First
  <2>3. lines = <<>> /\ Done = 1 /\ Done = 0 + 1 /\ Done + 1 = 0 + 2
    BY <1>4, <1>8, <2>2 DEF Done
  <2>4. LinesWith("|") = {} /\ LinesWith(">") = {}
    BY <1>2, <2>2
  <2>5. UpTo(Done) = 0 /\ RoomOf(Done + 1) = <<>>
    <3>1. 0 \in 0 .. Len(FrameLines) - 1
      BY <2>2
    <3>2. 0 + 1 \notin LinesWith("|") /\ 0 + 1 \notin LinesWith(">")
      BY <2>4
    <3>3. UpTo(0 + 1) = UpTo(0)
      BY <1>1, <3>1, <3>2, UpToCounts
    <3>4. RoomOf(0 + 2) = RoomOf(0 + 1)
      BY <1>1, <3>1, <3>2, RoomAbove
    <3>5. QED
      BY <1>3, <2>3, <3>3, <3>4, 0 + 1 = 1
  <2>6. QED
    BY <1>5, <1>6, <2>2, <2>3, <2>4, <2>5 DEF LoopInv, LinesLeft, MessagesSoFar, RoomSoFar
<1>9. QED
  BY <1>7, <1>8

LEMMA LoopGoesOn == LoopInv /\ [Next]_vars => LoopInv'
<1> SUFFICES ASSUME LoopInv, [Next]_vars PROVE LoopInv'
  OBVIOUS
<1> USE DEF LoopInv
<1>1. CASE TakeLine /\ (RoomLine \/ MessageLine \/ OtherLine)
  <2> DEFINE k == Done
             line == Head(lines)
  <2>1. /\ raw' = raw /\ ident' = ident /\ raw \in Seq(TextChars)
        /\ lines # <<>> /\ lines' = Tail(lines)
    BY <1>1 DEF TakeLine, TypeOK
  <2>2. /\ FrameLines \in Seq(Seq(TextChars)) /\ Len(FrameLines) \in Nat
        /\ \A c : LinesWith(c) = {i \in 1 .. Len(FrameLines) : First(FrameLines[i]) = c}
    BY <2>1, FrameLinesAre
  <2>3. /\ FrameLines' = FrameLines /\ (\A c : LinesWith(c)' = LinesWith(c))
        /\ (\A i : UpTo(i)' = UpTo(i)) /\ (\A i : RoomOf(i)' = RoomOf(i))
        /\ (\A i : MessageOf(i)' = MessageOf(i))
    BY <2>1 DEF FrameLines, LinesWith, UpTo, RoomOf, MessageOf
  <2>4. /\ lines \in Seq(Seq(TextChars)) /\ lines' \in Seq(Seq(TextChars))
        /\ Len(lines) \in Nat /\ Len(lines) >= 1 /\ Len(lines') = Len(lines) - 1
        /\ line = lines[1] /\ line \in Seq(TextChars)
        /\ \A i \in 1 .. Len(lines) - 1 : lines'[i] = lines[i + 1]
    BY <2>1 DEF TypeOK
  <2>5. /\ k \in 0 .. Len(FrameLines) - 1 /\ Done' = k + 1 /\ k \in Nat
        /\ k = Len(FrameLines) - Len(lines)
    BY <2>2, <2>3, <2>4 DEF Done, LinesLeft
  <2> HIDE DEF k, line
  <2>6. line = FrameLines[k + 1]
    BY <2>4 DEF LinesLeft, k
  <2>7. \A c : k + 1 \in LinesWith(c) <=> First(line) = c
    <3>1. TAKE c
    <3>2. k + 1 \in 1 .. Len(FrameLines)
      BY <2>2, <2>5
    <3>3. LinesWith(c) = {i \in 1 .. Len(FrameLines) : First(FrameLines[i]) = c}
      BY <2>2, Zenon
    <3>4. QED
      BY <2>6, <3>2, <3>3, Zenon
  <2>8. LinesLeft'
    <3>1. \A i \in 1 .. Len(lines') : lines'[i] = FrameLines[(k + 1) + i]
      <4>1. TAKE i \in 1 .. Len(lines')
      <4>2. i \in 1 .. Len(lines) - 1 /\ i + 1 \in 1 .. Len(lines) /\ (k + 1) + i = k + (i + 1)
        BY <2>4, <2>5
      <4>3. lines[i + 1] = FrameLines[k + (i + 1)]
        BY <4>2 DEF LinesLeft, k
      <4>4. QED
        BY <2>4, <4>2, <4>3
    <3>2. Len(lines') <= Len(FrameLines)
      BY <2>2, <2>4, <2>5
    <3>3. QED
      BY <2>3, <2>5, <3>1, <3>2 DEF LinesLeft
  <2>9. /\ UpTo(k) \in Nat
        /\ UpTo(k + 1) = IF k + 1 \in LinesWith("|") THEN UpTo(k) + 1 ELSE UpTo(k)
        /\ \A i \in LinesWith("|") : i <= k => UpTo(i) \in 1 .. UpTo(k)
    BY <2>1, <2>5, UpToCounts
  <2>10. RoomOf(k + 2) = IF k + 1 \in LinesWith(">") THEN Tail(FrameLines[k + 1])
                         ELSE RoomOf(k + 1)
    BY <2>1, <2>5, RoomAbove
  <2>11. /\ Len(msgs) = UpTo(k) /\ current_room = RoomOf(k + 1)
         /\ \A i \in LinesWith("|") : i <= k => msgs[UpTo(i)] = MessageOf(i)
         /\ msgs \in Seq(Messages) /\ current_room \in Seq(TextChars)
    BY DEF MessagesSoFar, RoomSoFar, TypeOK, k
  <2>12. \A i \in LinesWith("|") : i <= k + 1 => i <= k \/ i = k + 1
    BY <2>2, <2>5
  (* A message is added for a line with a bar, and no other. *)
  <2>13. /\ msgs' \in Seq(Messages) /\ Len(msgs') = UpTo(k + 1)
         /\ \A i \in LinesWith("|") : i <= k + 1 => msgs'[UpTo(i)] = MessageOf(i)
    <3>1. CASE MessageLine
      <4> DEFINE fields == Split(Tail(line), "|")
                 m == [room_id |-> current_room, type |-> Head(fields), args |-> Tail(fields)]
      <4>1. First(line) = "|" /\ msgs' = Append(msgs, m)
        BY <3>1 DEF MessageLine, line
      <4>2. Tail(line) \in Seq(TextChars)
        <5>1. line # <<>>
          BY <4>1 DEF First
        <5>2. QED
          BY <2>4, <5>1
      <4>3. /\ fields = Tokens(Tail(line), "|")
            /\ fields \in Seq(Seq(TextChars)) /\ fields # <<>>
        BY <4>2, SplitIsTokens
      <4>4. m = MessageOf(k + 1)
        <5>1. Head(fields) = fields[1]
          BY <4>3
        <5> HIDE DEF fields
        <5>2. QED
          BY <2>6, <2>11, <4>3, <5>1 DEF MessageOf, FrameLines
      <4>5. m \in Messages
        <5>1. Head(fields) \in Seq(TextChars) /\ Tail(fields) \in Seq(Seq(TextChars))
          BY <4>3
        <5> HIDE DEF fields
        <5>2. QED
          BY <2>11, <5>1 DEF Messages
      <4> HIDE DEF m
      <4>6. UpTo(k + 1) = UpTo(k) + 1
        BY <2>7, <2>9, <4>1
      <4>7. /\ msgs' \in Seq(Messages) /\ Len(msgs') = UpTo(k) + 1
            /\ msgs'[UpTo(k) + 1] = m /\ \A j \in 1 .. UpTo(k) : msgs'[j] = msgs[j]
        BY <2>9, <2>11, <4>1, <4>5
      <4>8. \A i \in LinesWith("|") : i <= k + 1 => msgs'[UpTo(i)] = MessageOf(i)
        <5>1. TAKE i \in LinesWith("|")
        <5>2. HAVE i <= k + 1
        <5>3. CASE i <= k
          BY <2>9, <2>11, <4>7, <5>3
        <5>4. CASE i = k + 1
          BY <4>4, <4>6, <4>7, <5>4
        <5>5. QED
          BY <2>12, <5>2, <5>3, <5>4
      <4>9. QED
        BY <4>6, <4>7, <4>8
    <3>2. CASE RoomLine \/ OtherLine
      <4>1. First(line) # "|" /\ msgs' = msgs
        BY <3>2 DEF RoomLine, OtherLine, line
      <4>2. k + 1 \notin LinesWith("|")
        BY <2>7, <4>1
      <4>3. QED
        BY <2>9, <2>11, <2>12, <4>1, <4>2
    <3>3. QED
      BY <1>1, <3>1, <3>2
  (* A line with ">" names the room of those below it. *)
  <2>14. current_room' = RoomOf(k + 2) /\ current_room' \in Seq(TextChars)
    <3>1. CASE RoomLine
      <4>1. First(line) = ">" /\ current_room' = Tail(line)
        BY <3>1 DEF RoomLine, line
      <4>2. line # <<>>
        BY <4>1 DEF First
      <4>3. QED
        BY <2>4, <2>6, <2>7, <2>10, <4>1, <4>2
    <3>2. CASE MessageLine \/ OtherLine
      <4>1. First(line) # ">" /\ current_room' = current_room
        BY <3>2 DEF MessageLine, OtherLine, line
      <4>2. k + 1 \notin LinesWith(">")
        BY <2>7, <4>1
      <4>3. QED
        BY <2>10, <2>11, <4>1, <4>2
    <3>3. QED
      BY <1>1, <3>1, <3>2
  <2>15. TypeOK'
    BY <2>1, <2>4, <2>13, <2>14 DEF TypeOK
  <2>16. MessagesSoFar'
    BY <2>3, <2>5, <2>13 DEF MessagesSoFar
  <2>17. RoomSoFar'
    <3>1. Done' + 1 = k + 2
      BY <2>5
    <3>2. QED
      BY <2>3, <2>14, <3>1 DEF RoomSoFar
  <2>18. QED
    BY <2>8, <2>15, <2>16, <2>17
<1>2. CASE UNCHANGED vars
  <2>1. /\ raw' = raw /\ ident' = ident /\ lines' = lines
        /\ msgs' = msgs /\ current_room' = current_room
    BY <1>2 DEF vars
  <2>2. /\ FrameLines' = FrameLines /\ (\A c : LinesWith(c)' = LinesWith(c))
        /\ (\A i : UpTo(i)' = UpTo(i)) /\ (\A i : RoomOf(i)' = RoomOf(i))
        /\ (\A i : MessageOf(i)' = MessageOf(i))
    BY <2>1 DEF FrameLines, LinesWith, UpTo, RoomOf, MessageOf
  <2>3. Done' = Done
    BY <2>1, <2>2 DEF Done
  <2>4. TypeOK' /\ LinesLeft'
    BY <2>1, <2>2, <2>3 DEF TypeOK, LinesLeft
  <2>5. MessagesSoFar' /\ RoomSoFar'
    BY <2>1, <2>2, <2>3 DEF MessagesSoFar, RoomSoFar
  <2>6. QED
    BY <2>4, <2>5
<1>3. QED
  BY <1>1, <1>2 DEF Next, RoomLine, MessageLine, OtherLine, Parsed

(* Whatever the frame, parse_message() makes of it one message for each    *)
(* line with a bar in front, in order, in the room last named above it,    *)
(* with the line's fields.                                                 *)
THEOREM FramesAreRead == Spec => []FramesParseAsLines
<1>1. LoopInv => FramesParseAsLines
  <2> SUFFICES ASSUME LoopInv, lines = <<>>
               PROVE  /\ Len(msgs) = Cardinality(LinesWith("|"))
                      /\ \A k \in LinesWith("|") :
                           msgs[Cardinality({i \in LinesWith("|") : i <= k})] = MessageOf(k)
    BY DEF FramesParseAsLines
  <2>1. /\ Len(FrameLines) \in Nat
        /\ \A k \in LinesWith("|") : k \in 1 .. Len(FrameLines)
    BY FrameLinesAre DEF LoopInv, TypeOK
  <2>2. Done = Len(FrameLines)
    BY <2>1 DEF Done
  <2>3. \A k \in LinesWith("|") : k <= Done
    BY <2>1, <2>2
  <2>4. {i \in LinesWith("|") : i <= Done} = LinesWith("|")
    BY <2>3
  <2>5. Len(msgs) = Cardinality(LinesWith("|"))
    BY <2>4 DEF LoopInv, MessagesSoFar, UpTo
  <2>6. \A k \in LinesWith("|") : msgs[UpTo(k)] = MessageOf(k)
    BY <2>3 DEF LoopInv, MessagesSoFar
  <2>7. QED
    BY <2>5, <2>6 DEF UpTo
<1>2. QED
  BY <1>1, LoopStarts, LoopGoesOn, PTL DEF Spec

-----------------------------------------------------------------------------
(* parse_ident() *)

(* Behind a name, the blank does not confuse the provers. *)
Blank == " "

(* What is read from any text that has its first colon behind p characters *)
(* and a name from position b on, blanks at most between.                  *)
LEMMA IdentIs ==
  ASSUME NEW S, NEW id \in Seq(S), NEW p \in {2, 3}, NEW b \in p + 2 .. Len(id),
         id[p + 1] = ":", \A i \in 1 .. p : id[i] # ":",
         \A i \in p + 2 .. b - 1 : id[i] = Blank, id[b] # Blank
  PROVE  ParseIdent(id) = [slot |-> IF p = 3 THEN id[3] ELSE "none",
                           side |-> SubSeq(id, 1, 2), name |-> SubSeq(id, b, Len(id))]
<1> DEFINE pos   == FindFrom(id, ":", 1)
           begin == {i \in pos + 1 .. Len(id) : id[i] # Blank}
           start == CHOOSE i \in begin : \A j \in begin : i <= j
<1>1. Len(id) \in Nat /\ b \in Nat /\ p \in Nat /\ 1 \in 1 .. Len(id) + 1
  OBVIOUS
<1>2. pos = p + 1
  <2>1. \/ pos = 0 /\ \A i \in 1 .. Len(id) : id[i] # ":"
        \/ /\ pos \in 1 .. Len(id) /\ id[pos] = ":"
           /\ \A i \in 1 .. pos - 1 : id[i] # ":"
    BY <1>1, FindFromIs
  <2> HIDE DEF pos
  <2>2. p + 1 \in 1 .. Len(id) /\ ~(\A i \in 1 .. Len(id) : id[i] # ":")
    BY <1>1
  <2>3. pos \in 1 .. Len(id) /\ id[pos] = ":" /\ \A i \in 1 .. pos - 1 : id[i] # ":"
    BY <2>1, <2>2
  <2>4. ~(pos <= p) /\ ~(p + 1 <= pos - 1)
    <3>1. pos <= p => pos \in 1 .. p
      BY <1>1, <2>3
    <3>2. p + 1 <= pos - 1 => p + 1 \in 1 .. pos - 1
      BY <1>1, <2>3
    <3>3. QED
      BY <2>3, <3>1, <3>2
  <2>5. QED
    BY <1>1, <2>3, <2>4
<1> HIDE DEF pos
<1>3. start = b /\ begin # {}
  <2>1. b \in begin /\ \A j \in begin : b <= j /\ j \in Nat
    <3>1. b \in begin
      BY <1>1, <1>2
    <3>2. \A j \in begin : ~(j < b) /\ j \in Nat
      <4>1. TAKE j \in begin
      <4>2. j \in p + 2 .. Len(id) /\ id[j] # Blank
        BY <1>1, <1>2
      <4>3. j < b => j \in p + 2 .. b - 1
        BY <1>1, <4>2
      <4>4. QED
        BY <1>1, <4>2, <4>3
    <3> HIDE DEF begin
    <3>3. QED
      BY <1>1, <3>1, <3>2
  <2> HIDE DEF begin
  <2>2. start \in begin /\ \A j \in begin : start <= j
    BY <2>1
  <2> HIDE DEF start
  <2>3. QED
    BY <1>1, <2>1, <2>2
<1>4. ParseIdent(id)
        = IF pos - 1 \notin {2, 3} \/ begin = {} THEN NoIdent
          ELSE [slot |-> IF pos = 4 THEN id[3] ELSE "none",
                side |-> SubSeq(id, 1, 2), name |-> SubSeq(id, start, Len(id))]
  BY Zenon DEF ParseIdent, pos, Blank
<1> HIDE DEF begin, start
<1>5. pos - 1 \in {2, 3} /\ (pos = 4 <=> p = 3)
  BY <1>1, <1>2
<1>6. QED
  BY <1>3, <1>4, <1>5

(* An ident is read back as what it was written from, side, slot and name: *)
(* colons and blanks in the name, and blanks in front of it, included.     *)
THEOREM IdentsAreReadBack == Spec => []IdentsReadBack
<1>1. LoopInv => IdentsReadBack
  <2> SUFFICES ASSUME LoopInv, NEW p \in 2 .. Len(ident) - 1
               PROVE  LET before == SubSeq(ident, 1, p)
                          name   == SubSeq(ident, p + 2, Len(ident))
                      IN  /\ p \in {2, 3} /\ ident[p + 1] = ":" /\ ":" \notin ToSet(before)
                          /\ First(name) \notin {"none", Blank}
                          => /\ ParseIdent(ident)
                                  = [slot |-> IF p = 3 THEN before[3] ELSE "none",
                                     side |-> SubSeq(before, 1, 2), name |-> name]
                             /\ ParseIdent(before \o <<":", Blank>> \o name)
                                  = ParseIdent(ident)
    BY Zenon DEF IdentsReadBack, Blank
  <2> DEFINE n      == Len(ident)
             before == SubSeq(ident, 1, p)
             name   == SubSeq(ident, p + 2, n)
             spaced == before \o <<":", Blank>> \o name
             S      == IdentChars \cup {":", Blank}
  <2> SUFFICES ASSUME p \in {2, 3}, ident[p + 1] = ":", ":" \notin ToSet(before),
                      First(name) \notin {"none", Blank}
               PROVE  /\ ParseIdent(ident) = [slot |-> IF p = 3 THEN before[3] ELSE "none",
                                              side |-> SubSeq(before, 1, 2), name |-> name]
                      /\ ParseIdent(spaced) = ParseIdent(ident)
    OBVIOUS
  <2>1. /\ ident \in Seq(IdentChars) /\ ident \in Seq(S) /\ n \in Nat /\ p + 1 <= n
        /\ p \in Nat
    BY DEF LoopInv, TypeOK
  <2>2. /\ before \in Seq(S) /\ Len(before) = p /\ \A i \in 1 .. p : before[i] = ident[i]
        /\ name \in Seq(S) /\ Len(name) = n - (p + 1)
        /\ \A i \in 1 .. n - (p + 1) : name[i] = ident[p + 1 + i]
    BY <2>1
  <2> HIDE DEF n, S
  <2>3. \A i \in 1 .. p : ident[i] # ":"
    <3> HIDE DEF before
    <3>1. \A i \in 1 .. p : before[i] \in ToSet(before)
      BY <2>2 DEF ToSet
    <3>2. QED
      BY <2>2, <3>1
  <2>4. name # <<>> /\ name[1] # Blank /\ n >= p + 2
    <3>1. name # <<>> /\ name[1] # Blank
      BY DEF First
    <3> HIDE DEF name
    <3>2. QED
      BY <2>1, <2>2, <3>1
  <2>5. ident[p + 2] # Blank
    <3>1. 1 \in 1 .. n - (p + 1) /\ p + 1 + 1 = p + 2
      BY <2>1, <2>4
    <3> HIDE DEF name
    <3>2. QED
      BY <2>2, <2>4, <3>1
  <2>6. ParseIdent(ident) = [slot |-> IF p = 3 THEN ident[3] ELSE "none",
                             side |-> SubSeq(ident, 1, 2), name |-> name]
    <3>1. p + 2 \in p + 2 .. Len(ident) /\ \A i \in p + 2 .. p + 2 - 1 : ident[i] = Blank
      BY <2>1, <2>4 DEF n
    <3>2. QED
      BY <2>1, <2>3, <2>5, <3>1, IdentIs DEF n
  <2>7. /\ p = 3 => before[3] = ident[3]
        /\ SubSeq(before, 1, 2) = SubSeq(ident, 1, 2)
    BY <2>1, <2>2
  <2> HIDE DEF before, name
  <2>8. /\ spaced \in Seq(S) /\ Len(spaced) = n + 1
        /\ \A i \in 1 .. p : spaced[i] = before[i]
        /\ spaced[p + 1] = ":" /\ spaced[p + 2] = Blank
        /\ \A i \in 1 .. n - (p + 1) : spaced[p + 2 + i] = name[i]
    <3>1. /\ <<":", Blank>> \in Seq(S) /\ Len(<<":", Blank>>) = 2
      BY DEF S
    <3> DEFINE front == before \o <<":", Blank>>
    <3>2. /\ front \in Seq(S) /\ Len(front) = p + 2 /\ \A i \in 1 .. p : front[i] = before[i]
          /\ front[p + 1] = ":" /\ front[p + 2] = Blank
      BY <2>1, <2>2, <3>1
    <3>3. spaced = front \o name
      OBVIOUS
    <3> HIDE DEF front, spaced
    <3>4. spaced \in Seq(S) /\ Len(spaced) = n + 1
      <4>1. spaced \in Seq(S) /\ Len(spaced) = Len(front) + Len(name)
        BY <2>2, <3>2, <3>3, ConcatProperties
      <4>2. QED
        BY <2>1, <2>2, <3>2, <4>1
    <3>5. \A i \in 1 .. p + 2 : spaced[i] = front[i]
      BY <2>1, <2>2, <3>2, <3>3, ConcatProperties
    <3>6. \A i \in 1 .. n - (p + 1) : spaced[p + 2 + i] = name[i]
      BY <2>1, <2>2, <3>2, <3>3
    <3>7. p + 1 \in 1 .. p + 2 /\ p + 2 \in 1 .. p + 2 /\ \A i \in 1 .. p : i \in 1 .. p + 2
      BY <2>1
    <3>8. QED
      BY <3>2, <3>4, <3>5, <3>6, <3>7
  <2> HIDE DEF spaced
  <2>9. ParseIdent(spaced) = [slot |-> IF p = 3 THEN spaced[3] ELSE "none",
                              side |-> SubSeq(spaced, 1, 2),
                              name |-> SubSeq(spaced, p + 3, Len(spaced))]
    <3> DEFINE b == p + 3
    <3>1. b \in p + 2 .. Len(spaced) /\ \A i \in p + 2 .. b - 1 : spaced[i] = Blank
      BY <2>1, <2>4, <2>8
    <3>2. \A i \in 1 .. p : spaced[i] # ":"
      BY <2>2, <2>3, <2>8
    <3>3. spaced[b] # Blank
      <4>1. 1 \in 1 .. n - (p + 1) /\ p + 2 + 1 = p + 3
        BY <2>1, <2>4
      <4>2. QED
        BY <2>4, <2>8, <4>1
    <3> HIDE DEF b
    <3>4. ParseIdent(spaced) = [slot |-> IF p = 3 THEN spaced[3] ELSE "none",
                                side |-> SubSeq(spaced, 1, 2),
                                name |-> SubSeq(spaced, b, Len(spaced))]
      BY <2>8, <3>1, <3>2, <3>3, IdentIs
    <3>5. QED
      BY <3>4 DEF b
  <2>10. /\ p = 3 => spaced[3] = ident[3]
         /\ SubSeq(spaced, 1, 2) = SubSeq(ident, 1, 2)
         /\ SubSeq(spaced, p + 3, Len(spaced)) = name
    <3>1. \A i \in 1 .. p : spaced[i] = ident[i]
      BY <2>2, <2>8
    <3>2. SubSeq(spaced, 1, 2) = SubSeq(ident, 1, 2)
      <4>1. \A i \in 1 .. 2 : spaced[i] = ident[i]
        BY <3>1
      <4>2. 2 <= Len(spaced) /\ 2 <= Len(ident)
        BY <2>1, <2>8 DEF n
      <4>3. QED
        BY <2>1, <2>8, <4>1, <4>2
    <3>3. SubSeq(spaced, p + 3, Len(spaced)) = name
      <4>1. \A i \in 1 .. n - (p + 1) : spaced[p + 3 + i - 1] = name[i]
        BY <2>1, <2>8
      <4> DEFINE rest == SubSeq(spaced, p + 3, n + 1)
      <4>2. /\ rest \in Seq(S) /\ Len(rest) = n - (p + 1)
            /\ \A i \in 1 .. n - (p + 1) : rest[i] = spaced[p + 3 + i - 1]
        BY <2>1, <2>4, <2>8
      <4> HIDE DEF rest
      <4>3. rest = name
        <5>1. Len(rest) = Len(name) /\ \A i \in 1 .. Len(rest) : rest[i] = name[i]
          BY <2>2, <4>1, <4>2
        <5>2. QED
          BY <2>2, <4>2, <5>1, SeqEqual
      <4>4. QED
        BY <2>8, <4>3 DEF rest
    <3>4. QED
      BY <3>1, <3>2, <3>3
  <2>11. QED
    BY <2>6, <2>7, <2>9, <2>10
<1>2. QED
  BY <1>1, LoopStarts, LoopGoesOn, PTL DEF Spec

=============================================================================
