-------------------------- MODULE LayerStackProofs --------------------------
(***************************************************************************)
(* The invariants of LayerStack and its refinement of LayerHalves, for     *)
(* every set of layers and every modulus.                                  *)
(*                                                                         *)
(* The one fact they rest on is where the offset may be: in the vector,    *)
(* with nothing but layers below it, or so far above it that it must have  *)
(* wrapped.  That nothing lies in between needs the length of the vector   *)
(* to be bounded, hence its elements to be distinct.                       *)
(***************************************************************************)
EXTENDS LayerStack, OrderLemmas, TLAPS

Distinct ==
  \A i, j \in 1 .. Len(m_layers) : i # j => m_layers[i] # m_layers[j]

Wrapped == m_layer_iterator_offset >= Modulus - MaxUnderflow

LayersBelowOffset ==
  /\ OffsetInVector
  /\ \A i \in 1 .. m_layer_iterator_offset : m_layers[i] \notin overlays

OffsetKnown ==
  IF status = "destroyed" THEN m_layers = <<>> ELSE LayersBelowOffset \/ Wrapped

(* The inductive invariant. *)
IInv == TypeOK /\ Distinct /\ LayersBelowOverlays /\ OffsetKnown

-----------------------------------------------------------------------------
(* What the two operations on sequences do, position by position. *)

IsInsertion(r, s, i, e) ==
  /\ r \in Seq(LayerIds) /\ Len(r) = Len(s) + 1
  /\ \A k \in 1 .. Len(s) + 1 :
       r[k] = IF k < i THEN s[k] ELSE IF k = i THEN e ELSE s[k - 1]

LEMMA InsertAtPositions ==
  ASSUME NEW s \in Seq(LayerIds), NEW i \in 1 .. Len(s) + 1, NEW e \in LayerIds
  PROVE  IsInsertion(InsertAt(s, i, e), s, i, e)
<1> DEFINE low == SubSeq(s, 1, i - 1)
           high == SubSeq(s, i, Len(s))
<1>1. low \in Seq(LayerIds) /\ Len(low) = i - 1 /\ \A k \in 1 .. i - 1 : low[k] = s[k]
  OBVIOUS
<1>2. /\ high \in Seq(LayerIds) /\ Len(high) = Len(s) - i + 1
      /\ \A k \in 1 .. Len(s) - i + 1 : high[k] = s[i + k - 1]
  OBVIOUS
<1> HIDE DEF low, high
<1>3. /\ low \o <<e>> \in Seq(LayerIds) /\ Len(low \o <<e>>) = i
      /\ \A k \in 1 .. i : (low \o <<e>>)[k] = IF k < i THEN s[k] ELSE e
  <2>1. <<e>> \in Seq(LayerIds) /\ Len(<<e>>) = 1 /\ <<e>>[1] = e
    OBVIOUS
  <2>2. QED
    BY <1>1, <2>1, ConcatProperties
<1>4. /\ (low \o <<e>>) \o high \in Seq(LayerIds)
      /\ Len((low \o <<e>>) \o high) = Len(s) + 1
      /\ \A k \in 1 .. Len(s) + 1 :
           ((low \o <<e>>) \o high)[k] =
             IF k < i THEN s[k] ELSE IF k = i THEN e ELSE s[k - 1]
  <2> DEFINE left == low \o <<e>>
  <2> HIDE DEF left
  <2>1. left \in Seq(LayerIds) /\ Len(left) = i
        /\ \A k \in 1 .. i : left[k] = IF k < i THEN s[k] ELSE e
    BY <1>3 DEF left
  <2>2. /\ left \o high \in Seq(LayerIds)
        /\ Len(left \o high) = Len(s) + 1
        /\ \A k \in 1 .. Len(s) + 1 :
             (left \o high)[k] = IF k <= i THEN left[k] ELSE high[k - i]
    <3>1. Len(left) + Len(high) = Len(s) + 1
      BY <1>2, <2>1
    <3>2. /\ left \o high \in Seq(LayerIds)
          /\ Len(left \o high) = Len(left) + Len(high)
          /\ \A k \in 1 .. Len(left) + Len(high) :
               (left \o high)[k] = IF k <= Len(left) THEN left[k] ELSE high[k - Len(left)]
      BY <1>2, <2>1, ConcatProperties, Zenon
    <3>3. QED
      BY <2>1, <3>1, <3>2
  <2>3. ASSUME NEW k \in 1 .. Len(s) + 1, k > i
        PROVE  high[k - i] = s[k - 1]
    <3>1. k - i \in 1 .. Len(s) - i + 1 /\ i + (k - i) - 1 = k - 1
      BY <2>3
    <3>2. QED
      BY <1>2, <3>1
  <2>4. QED
    BY <2>1, <2>2, <2>3 DEF left
<1>5. QED
  BY <1>4 DEF IsInsertion, InsertAt, low, high

IsRemoval(r, s, i) ==
  /\ r \in Seq(LayerIds) /\ Len(r) = Len(s) - 1
  /\ \A k \in 1 .. Len(s) - 1 : r[k] = IF k < i THEN s[k] ELSE s[k + 1]

LEMMA RemoveAtPositions ==
  ASSUME NEW s \in Seq(LayerIds), NEW i \in 1 .. Len(s)
  PROVE  IsRemoval(RemoveAt(s, i), s, i)
  BY RemovedPositions DEF IsRemoval

(* std::find returns a position in its range, or the end of the range if   *)
(* what it looks for is not there.                                         *)
LEMMA FindInRange ==
  ASSUME NEW first \in Nat, NEW last \in Nat, first <= last, NEW l
  PROVE  /\ Find(first, last, l) \in first .. last
         /\ (\E i \in first .. last - 1 : m_layers[i] = l)
              => Find(first, last, l) \in first .. last - 1
<1> DEFINE Hits == {i \in first .. last - 1 : m_layers[i] = l}
<1>1. CASE Hits = {}
  BY <1>1 DEF Find
<1>2. CASE Hits # {}
  <2>1. PICK i \in Hits : \A j \in Hits : i <= j
    <3>1. Hits \in SUBSET Nat
      OBVIOUS
    <3> HIDE DEF Hits
    <3>2. QED
      BY <1>2, <3>1, LeastNatural
  <2>2. m_layers[i] = l /\ \A j \in first .. i - 1 : m_layers[j] # l
    BY <2>1
  <2>3. QED
    BY <2>1, <2>2 DEF Find
<1>3. QED
  BY <1>1, <1>2

-----------------------------------------------------------------------------
(* The vector holds no more than there are layers, so an offset in it has  *)
(* not wrapped.                                                            *)

LEMMA LengthBound ==
  ASSUME NEW s \in Seq(LayerIds),
         \A i, j \in 1 .. Len(s) : i # j => s[i] # s[j]
  PROVE  Len(s) + MaxUnderflow < Modulus
<1>1. s \in Injection(1 .. Len(s), LayerIds)
  BY DEF Injection, IsInjective
<1>2. IsFiniteSet(LayerIds)
  BY StackAssumption
<1>3. Cardinality(1 .. Len(s)) <= Cardinality(LayerIds)
  BY <1>1, <1>2, FS_Injection
<1>4. Cardinality(1 .. Len(s)) = Len(s)
  <2>1. Len(s) \in Nat
    OBVIOUS
  <2>2. Cardinality(1 .. Len(s)) = IF 1 > Len(s) THEN 0 ELSE Len(s) - 1 + 1
    BY <2>1, FS_Interval
  <2>3. QED
    BY <2>1, <2>2
<1>5. Cardinality(LayerIds) \in Nat
  BY <1>2, FS_CardinalityType
<1>6. QED
  BY <1>3, <1>4, <1>5, StackAssumption

LEMMA InVectorIsNotWrapped ==
  ASSUME TypeOK, Distinct, OffsetInVector
  PROVE  ~Wrapped
<1>1. Len(m_layers) + MaxUnderflow < Modulus
  BY LengthBound DEF TypeOK, Distinct
<1>2. QED
  BY <1>1, StackAssumption DEF TypeOK, OffsetInVector, Wrapped

-----------------------------------------------------------------------------
(* The steps. *)

LEMMA PushLayerStep ==
  ASSUME IInv, NEW l \in LayerIds \ ToSet(m_layers), PushLayer(l)
  PROVE  IInv'
<1>1. CASE ~OffsetInVector
  BY <1>1 DEF IInv, TypeOK, Distinct, LayersBelowOverlays, OffsetKnown, LayersBelowOffset,
              OffsetInVector, Wrapped, PushLayer, Fault
<1>2. CASE OffsetInVector
  <2> DEFINE n == Len(m_layers)
             o == m_layer_iterator_offset
  <2>1. /\ m_layers \in Seq(LayerIds) /\ n \in Nat /\ o \in 0 .. n
        /\ overlays \subseteq LayerIds
    BY <1>2 DEF IInv, TypeOK, OffsetInVector
  <2>2. \A k \in 1 .. n : m_layers[k] # l
    BY <2>1 DEF ToSet
  <2>3. \A k \in 1 .. o : m_layers[k] \notin overlays
    BY <1>2, InVectorIsNotWrapped
       DEF IInv, TypeOK, OffsetKnown, LayersBelowOffset, PushLayer
  <2>4. /\ m_layers' = InsertAt(m_layers, o + 1, l)
        /\ m_layer_iterator_offset' = (o + 1) % Modulus
        /\ overlays' = overlays \ {l}
        /\ status' = "live"
    BY <1>2 DEF PushLayer
  <2>5. /\ m_layers' \in Seq(LayerIds)
        /\ Len(m_layers') = n + 1
        /\ \A k \in 1 .. n + 1 :
             m_layers'[k] = IF k < o + 1 THEN m_layers[k]
                            ELSE IF k = o + 1 THEN l ELSE m_layers[k - 1]
    <3> DEFINE p == o + 1
    <3>1. p \in 1 .. Len(m_layers) + 1 /\ l \in LayerIds
      BY <2>1
    <3>2. m_layers' = InsertAt(m_layers, p, l)
      BY <2>4
    <3> HIDE DEF p
    <3>3. m_layers \in Seq(LayerIds)
      BY <2>1
    <3>4. IsInsertion(m_layers', m_layers, p, l)
      BY <3>1, <3>2, <3>3, InsertAtPositions
    <3>5. QED
      BY <3>4 DEF IsInsertion, p
  <2> HIDE DEF n, o
  <2>6. \A i, j \in 1 .. n : i # j => m_layers[i] # m_layers[j]
    BY DEF IInv, Distinct, n
  <2>7. Distinct'
    <3>1. SUFFICES ASSUME NEW i \in 1 .. n + 1, NEW j \in 1 .. n + 1, i < j
                   PROVE  m_layers'[i] # m_layers'[j]
      BY <2>1, <2>5 DEF Distinct
    <3>2. IF i = o + 1
          THEN m_layers'[i] = l
          ELSE \E a \in {i, i - 1} :
               a \in 1 .. n /\ m_layers'[i] = m_layers[a] /\ (a = i <=> i < o + 1)
      BY <2>1, <2>5
    <3>3. IF j = o + 1
          THEN m_layers'[j] = l
          ELSE \E b \in {j, j - 1} :
               b \in 1 .. n /\ m_layers'[j] = m_layers[b] /\ (b = j <=> j < o + 1)
      BY <2>1, <2>5
    <3>4. CASE i = o + 1 \/ j = o + 1
      BY <2>1, <2>2, <3>1, <3>2, <3>3, <3>4
    <3>5. CASE i # o + 1 /\ j # o + 1
      <4>1. PICK a \in {i, i - 1} :
               a \in 1 .. n /\ m_layers'[i] = m_layers[a] /\ (a = i <=> i < o + 1)
        BY <3>2, <3>5
      <4>2. PICK b \in {j, j - 1} :
               b \in 1 .. n /\ m_layers'[j] = m_layers[b] /\ (b = j <=> j < o + 1)
        BY <3>3, <3>5
      <4>3. a # b
        BY <2>1, <3>1, <3>5, <4>1, <4>2
      <4>4. QED
        BY <2>6, <4>1, <4>2, <4>3
    <3>6. QED
      BY <3>4, <3>5
  <2>8. m_layer_iterator_offset' = o + 1
    <3>1. Len(m_layers') + MaxUnderflow < Modulus
      BY <2>5, <2>7, LengthBound DEF Distinct
    <3>2. o + 1 \in 0 .. Modulus - 1
      BY <2>1, <2>5, <3>1, StackAssumption
    <3>3. QED
      BY <2>4, <3>2, StackAssumption
  <2>9. TypeOK'
    <3>1. Len(m_layers') + MaxUnderflow < Modulus
      BY <2>5, <2>7, LengthBound DEF Distinct
    <3>2. QED
      BY <2>1, <2>4, <2>5, <2>8, <3>1, StackAssumption DEF TypeOK
  <2>10. LayersBelowOverlays'
    <3>1. \A i, j \in 1 .. n : m_layers[i] \in overlays /\ i < j => m_layers[j] \in overlays
      BY DEF IInv, LayersBelowOverlays, n
    <3>2. SUFFICES ASSUME NEW i \in 1 .. n + 1, NEW j \in 1 .. n + 1,
                          m_layers'[i] \in overlays', i < j
                   PROVE  m_layers'[j] \in overlays'
      BY <2>5 DEF LayersBelowOverlays
    <3>3. i > o + 1
      <4>1. i < o + 1 => m_layers'[i] = m_layers[i] /\ i \in 1 .. o
        BY <2>1, <2>5
      <4>2. i = o + 1 => m_layers'[i] = l
        BY <2>1, <2>5
      <4>3. i # o + 1 /\ ~(i < o + 1)
        BY <2>3, <2>4, <3>2, <4>1, <4>2
      <4>4. QED
        BY <2>1, <4>3
    <3>4. /\ m_layers'[i] = m_layers[i - 1] /\ m_layers'[j] = m_layers[j - 1]
          /\ i - 1 \in 1 .. n /\ j - 1 \in 1 .. n
      BY <2>1, <2>5, <3>2, <3>3
    <3>5. QED
      BY <2>2, <2>4, <3>1, <3>2, <3>4
  <2>11. OffsetKnown'
    <3>1. \A k \in 1 .. o + 1 : m_layers'[k] \notin overlays'
      BY <2>1, <2>3, <2>4, <2>5
    <3>2. QED
      BY <2>1, <2>4, <2>5, <2>8, <3>1 DEF OffsetKnown, LayersBelowOffset, OffsetInVector
  <2>12. QED
    BY <2>7, <2>9, <2>10, <2>11 DEF IInv
<1>3. QED
  BY <1>1, <1>2

LEMMA PushOverlayStep ==
  ASSUME IInv, NEW l \in LayerIds \ ToSet(m_layers), PushOverlay(l)
  PROVE  IInv'
<1> DEFINE n == Len(m_layers)
<1>1. /\ m_layers \in Seq(LayerIds) /\ n \in Nat /\ overlays \subseteq LayerIds
      /\ m_layers' = Append(m_layers, l)
      /\ overlays' = overlays \cup {l}
      /\ m_layer_iterator_offset' = m_layer_iterator_offset
      /\ status = "live" /\ status' = "live"
  BY DEF IInv, TypeOK, PushOverlay
<1>2. /\ m_layers' \in Seq(LayerIds)
      /\ Len(m_layers') = n + 1
      /\ \A k \in 1 .. n + 1 : m_layers'[k] = IF k = n + 1 THEN l ELSE m_layers[k]
  BY <1>1
<1>3. \A k \in 1 .. n : m_layers[k] # l /\ m_layers[k] \in LayerIds
  BY <1>1 DEF ToSet
<1> HIDE DEF n
<1>4. TypeOK'
  BY <1>1, <1>2 DEF IInv, TypeOK
<1>5. Distinct'
  <2>1. \A i, j \in 1 .. n : i # j => m_layers[i] # m_layers[j]
    BY DEF IInv, Distinct, n
  <2>2. QED
    BY <1>1, <1>2, <1>3, <2>1 DEF Distinct
<1>6. LayersBelowOverlays'
  <2>1. \A i, j \in 1 .. n : m_layers[i] \in overlays /\ i < j => m_layers[j] \in overlays
    BY DEF IInv, LayersBelowOverlays, n
  <2>2. QED
    BY <1>1, <1>2, <1>3, <2>1 DEF LayersBelowOverlays
<1>7. OffsetKnown'
  <2>1. CASE Wrapped
    BY <1>1, <2>1 DEF OffsetKnown, Wrapped
  <2>2. CASE LayersBelowOffset
    <3>1. /\ m_layer_iterator_offset \in 0 .. n
          /\ \A k \in 1 .. m_layer_iterator_offset : m_layers[k] \notin overlays
      BY <2>2 DEF IInv, TypeOK, LayersBelowOffset, OffsetInVector, n
    <3>2. \A k \in 1 .. m_layer_iterator_offset : m_layers'[k] \notin overlays'
      BY <1>1, <1>2, <1>3, <3>1
    <3>3. QED
      BY <1>1, <1>2, <3>1, <3>2 DEF OffsetKnown, LayersBelowOffset, OffsetInVector
  <2>3. QED
    BY <1>1, <2>1, <2>2 DEF IInv, OffsetKnown
<1>8. QED
  BY <1>4, <1>5, <1>6, <1>7 DEF IInv

(* Both pops: any element may go, and the offset drops by one. *)
LEMMA EraseStep ==
  ASSUME IInv, MayUnderflow, status = "live",
         NEW it \in 1 .. Len(m_layers), Erase(it)
  PROVE  IInv'
<1> DEFINE n == Len(m_layers)
           o == m_layer_iterator_offset
<1>1. /\ m_layers \in Seq(LayerIds) /\ n \in Nat /\ overlays \subseteq LayerIds
      /\ o \in 0 .. Modulus - 1 /\ it \in 1 .. n
      /\ m_layers' = RemoveAt(m_layers, it)
      /\ o' = (o + Modulus - 1) % Modulus
      /\ overlays' = overlays \ {m_layers[it]}
      /\ status' = "live"
  BY DEF IInv, TypeOK, Erase
<1>2. /\ m_layers' \in Seq(LayerIds)
      /\ Len(m_layers') = n - 1
      /\ \A k \in 1 .. n - 1 : m_layers'[k] = IF k < it THEN m_layers[k] ELSE m_layers[k + 1]
  <2>1. IsRemoval(m_layers', m_layers, it)
    BY <1>1, RemoveAtPositions
  <2>2. QED
    BY <2>1 DEF IsRemoval
<1>3. n + MaxUnderflow < Modulus
  BY <1>1, LengthBound DEF IInv, Distinct
<1>4. o' = IF o = 0 THEN Modulus - 1 ELSE o - 1
  BY <1>1, <1>3, StackAssumption
<1>5. /\ \A i, j \in 1 .. n : i # j => m_layers[i] # m_layers[j]
      /\ \A i, j \in 1 .. n : m_layers[i] \in overlays /\ i < j => m_layers[j] \in overlays
  BY DEF IInv, Distinct, LayersBelowOverlays
<1>6. (o <= n /\ \A k \in 1 .. o : m_layers[k] \notin overlays) \/ o >= Modulus - MaxUnderflow
  BY DEF IInv, OffsetKnown, LayersBelowOffset, OffsetInVector, Wrapped
<1>7. o # (Modulus - MaxUnderflow) % Modulus
  BY DEF MayUnderflow
<1> HIDE DEF n, o
<1>8. TypeOK'
  <2>1. o' \in 0 .. Modulus - 1
    BY <1>1, <1>4, StackAssumption
  <2>2. QED
    BY <1>1, <1>2, <2>1 DEF TypeOK, o
<1>9. Distinct'
  BY <1>1, <1>2, <1>5 DEF Distinct
<1>10. LayersBelowOverlays'
  <2>1. SUFFICES ASSUME NEW i \in 1 .. n - 1, NEW j \in 1 .. n - 1,
                        m_layers'[i] \in overlays', i < j
                 PROVE  m_layers'[j] \in overlays'
    BY <1>2 DEF LayersBelowOverlays
  <2>2. PICK a \in {i, i + 1} : m_layers'[i] = m_layers[a] /\ a # it /\ (a = i <=> i < it)
    BY <1>1, <1>2
  <2>3. PICK b \in {j, j + 1} : m_layers'[j] = m_layers[b] /\ b # it /\ (b = j <=> j < it)
    BY <1>1, <1>2
  <2>4. a \in 1 .. n /\ b \in 1 .. n /\ a < b
    BY <1>1, <2>1, <2>2, <2>3
  <2>5. m_layers[b] \in overlays /\ m_layers[b] # m_layers[it]
    BY <1>1, <1>5, <2>1, <2>2, <2>3, <2>4
  <2>6. QED
    BY <1>1, <2>3, <2>5
<1>11. OffsetKnown'
  <2>1. CASE o >= Modulus - MaxUnderflow \/ o = 0
    <3>1. o' >= Modulus - MaxUnderflow
      BY <1>1, <1>3, <1>4, <1>7, <2>1, StackAssumption
    <3>2. QED
      BY <1>1, <3>1 DEF OffsetKnown, Wrapped, o
  <2>2. CASE o # 0 /\ o <= n /\ \A k \in 1 .. o : m_layers[k] \notin overlays
    <3>1. o' = o - 1 /\ o - 1 \in 0 .. n - 1
      BY <1>1, <1>4, <2>2
    <3>2. \A k \in 1 .. o - 1 : m_layers'[k] \notin overlays'
      <4>1. TAKE k \in 1 .. o - 1
      <4>2. k \in 1 .. o /\ k + 1 \in 1 .. o /\ k \in 1 .. n - 1
        BY <1>1, <2>2, <3>1
      <4>3. m_layers'[k] \in {m_layers[k], m_layers[k + 1]}
        BY <1>2, <4>2
      <4>4. QED
        BY <1>1, <2>2, <4>2, <4>3
    <3>3. QED
      BY <1>1, <1>2, <3>1, <3>2 DEF OffsetKnown, LayersBelowOffset, OffsetInVector, o
  <2>3. QED
    BY <1>6, <2>1, <2>2
<1>12. QED
  BY <1>8, <1>9, <1>10, <1>11 DEF IInv

(* A step after which nothing but the status has changed, and that only    *)
(* from "live" to "fault".                                                 *)
LEMMA StatusStep ==
  ASSUME IInv, m_layers' = m_layers, m_layer_iterator_offset' = m_layer_iterator_offset,
         overlays' = overlays, status' = status \/ (status = "live" /\ status' = "fault")
  PROVE  IInv'
  BY DEF IInv, TypeOK, Distinct, LayersBelowOverlays, OffsetKnown, LayersBelowOffset,
         OffsetInVector, Wrapped

(* Either pop erases some element of the vector, or leaves it alone. *)
ErasesOrNot ==
  \/ \E it \in 1 .. Len(m_layers) : Erase(it)
  \/ UNCHANGED stackVars
  \/ Fault

LEMMA PopLayerErasesOrNot ==
  ASSUME IInv, NEW l \in LayerIds, PopLayer(l)
  PROVE  ErasesOrNot
<1>1. /\ m_layers \in Seq(LayerIds) /\ Len(m_layers) \in Nat
      /\ m_layer_iterator_offset \in Nat
  BY StackAssumption DEF IInv, TypeOK
<1>2. CASE OffsetInVector
  <2> DEFINE it == Find(1, m_layer_iterator_offset + 1, l)
  <2>1. it \in 1 .. m_layer_iterator_offset + 1
    <3>1. 1 \in Nat /\ m_layer_iterator_offset + 1 \in Nat /\ 1 <= m_layer_iterator_offset + 1
      BY <1>1
    <3>2. QED
      BY <3>1, FindInRange
  <2> HIDE DEF it
  <2>2. IF it # End THEN Erase(it) ELSE UNCHANGED stackVars
    BY <1>2 DEF PopLayer, it
  <2>3. it # End => it \in 1 .. Len(m_layers)
    BY <1>1, <1>2, <2>1 DEF End, OffsetInVector
  <2>4. QED
    BY <2>2, <2>3 DEF ErasesOrNot
<1>3. CASE ~OffsetInVector
  <2> DEFINE it == Find(1, End, l)
  <2>1. IF l \in ToSet(m_layers) THEN Erase(it) ELSE Fault
    BY <1>3 DEF PopLayer
  <2>2. CASE l \in ToSet(m_layers)
    <3>1. \E i \in 1 .. End - 1 : m_layers[i] = l
      BY <1>1, <2>2 DEF ToSet, End
    <3>2. it \in 1 .. Len(m_layers)
      <4>1. 1 \in Nat /\ End \in Nat /\ 1 <= End /\ End - 1 = Len(m_layers)
        BY <1>1 DEF End
      <4>2. QED
        BY <3>1, <4>1, FindInRange
    <3> HIDE DEF it
    <3>3. QED
      BY <2>1, <2>2, <3>2 DEF ErasesOrNot
  <2>3. CASE l \notin ToSet(m_layers)
    BY <2>1, <2>3 DEF ErasesOrNot
  <2>4. QED
    BY <2>2, <2>3
<1>4. QED
  BY <1>2, <1>3

LEMMA PopOverlayErasesOrNot ==
  ASSUME IInv, NEW l \in LayerIds, PopOverlay(l)
  PROVE  ErasesOrNot
<1>1. Len(m_layers) \in Nat /\ m_layer_iterator_offset \in Nat
  BY StackAssumption DEF IInv, TypeOK
<1>2. CASE OffsetInVector
  <2> DEFINE it == Find(m_layer_iterator_offset + 1, End, l)
  <2>1. it \in m_layer_iterator_offset + 1 .. End
    <3>1. /\ m_layer_iterator_offset + 1 \in Nat /\ End \in Nat
          /\ m_layer_iterator_offset + 1 <= End
      BY <1>1, <1>2 DEF End, OffsetInVector
    <3>2. QED
      BY <3>1, FindInRange
  <2> HIDE DEF it
  <2>2. IF it # End THEN Erase(it) ELSE UNCHANGED stackVars
    BY <1>2 DEF PopOverlay, it
  <2>3. it # End => it \in 1 .. Len(m_layers)
    BY <1>1, <2>1 DEF End
  <2>4. QED
    BY <2>2, <2>3 DEF ErasesOrNot
<1>3. CASE ~OffsetInVector
  BY <1>3 DEF PopOverlay, ErasesOrNot
<1>4. QED
  BY <1>2, <1>3

(* What a client's pop comes to. *)
LEMMA PopCases ==
  ASSUME IInv, ClientPopLayer \/ ClientPopOverlay
  PROVE  ErasesOrNot /\ MayUnderflow /\ status = "live"
<1>1. CASE ClientPopLayer
  BY <1>1, PopLayerErasesOrNot DEF ClientPopLayer, PopLayer
<1>2. CASE ClientPopOverlay
  BY <1>2, PopOverlayErasesOrNot DEF ClientPopOverlay, PopOverlay
<1>3. QED
  BY <1>1, <1>2

LEMMA PopStep ==
  ASSUME IInv, ClientPopLayer \/ ClientPopOverlay
  PROVE  IInv'
  BY PopCases, EraseStep, StatusStep DEF ErasesOrNot, stackVars, Fault

LEMMA DestroyStep ==
  ASSUME IInv, Destroy
  PROVE  IInv'
<1>1. Len(m_layers') = 0 /\ m_layers' \in Seq(LayerIds)
  BY DEF Destroy
<1>2. QED
  BY <1>1 DEF IInv, TypeOK, Distinct, LayersBelowOverlays, OffsetKnown, Destroy

-----------------------------------------------------------------------------
LEMMA InitIInv == Init => IInv
<1> SUFFICES ASSUME Init PROVE IInv
  OBVIOUS
<1>1. Cardinality(LayerIds) \in Nat
  BY FS_CardinalityType, StackAssumption
<1>2. Len(m_layers) = 0 /\ m_layers \in Seq(LayerIds)
  BY DEF Init
<1>3. QED
  BY <1>1, <1>2, StackAssumption
     DEF Init, IInv, TypeOK, Distinct, LayersBelowOverlays, OffsetKnown, LayersBelowOffset,
         OffsetInVector

LEMMA NextIInv == IInv /\ [Next]_stackVars => IInv'
<1> SUFFICES ASSUME IInv, [Next]_stackVars PROVE IInv'
  OBVIOUS
<1>1. CASE ClientPushLayer
  BY <1>1, PushLayerStep DEF ClientPushLayer
<1>2. CASE ClientPushOverlay
  BY <1>2, PushOverlayStep DEF ClientPushOverlay
<1>3. CASE ClientPopLayer \/ ClientPopOverlay
  BY <1>3, PopStep
<1>4. CASE Destroy
  BY <1>4, DestroyStep
<1>5. CASE UNCHANGED stackVars
  BY <1>5, StatusStep DEF stackVars
<1>6. QED
  BY <1>1, <1>2, <1>3, <1>4, <1>5 DEF Next, Ended

LEMMA Invariance == Spec => []IInv
<1>1. Init => IInv
  BY InitIInv
<1>2. IInv /\ [Next]_stackVars => IInv'
  BY NextIInv
<1>3. QED
  BY <1>1, <1>2, PTL DEF Spec

-----------------------------------------------------------------------------
(* layerstack.cpp keeps its types: the offset, wrapped or not, is one of   *)
(* its Modulus values, and the vector holds layers.                        *)
THEOREM TypeCorrect == Spec => []TypeOK
<1>1. IInv => TypeOK
  BY DEF IInv
<1>2. QED
  BY <1>1, Invariance, PTL

(* layerstack.h's announced order, layers first and overlays second, after *)
(* any sequence of pushes and pops by any client that pushes no layer      *)
(* twice, pops through the wrong operation and missed searches included.   *)
THEOREM LayersStayBelow == Spec => []LayersBelowOverlays
<1>1. IInv => LayersBelowOverlays
  BY DEF IInv
<1>2. QED
  BY <1>1, Invariance, PTL

(* Whenever push_layer and the two searches of layerstack.cpp have a valid *)
(* range to work on, no overlay lies below the offset that splits it.      *)
THEOREM OffsetIsSafe == Spec => []NoOverlayBelowOffset
<1>1. IInv => NoOverlayBelowOffset
  <2> SUFFICES ASSUME IInv, OffsetInVector,
                      NEW i \in 1 .. m_layer_iterator_offset
               PROVE  m_layers[i] \notin overlays
    BY DEF NoOverlayBelowOffset
  <2>1. CASE status = "destroyed"
    <3>1. Len(m_layers) = 0
      BY <2>1 DEF IInv, OffsetKnown
    <3>2. QED
      BY <3>1, StackAssumption DEF IInv, TypeOK, OffsetInVector
  <2>2. CASE status # "destroyed"
    BY <2>2, InVectorIsNotWrapped DEF IInv, OffsetKnown, LayersBelowOffset
  <2>3. QED
    BY <2>1, <2>2
<1>2. QED
  BY <1>1, Invariance, PTL

-----------------------------------------------------------------------------
(***************************************************************************)
(* The offset as a count: how it gets out of step with the layers in the   *)
(* vector, that it never gets back, and that until then the vector is the  *)
(* two halves of LayerHalves.                                              *)
(***************************************************************************)

(* The layers in the vector, and how many they are. *)
Counted == ToSet(m_layers) \ overlays
Count   == Cardinality(Counted)

-----------------------------------------------------------------------------
(* Counting. *)

LEMMA CountType ==
  ASSUME IInv
  PROVE  IsFiniteSet(Counted) /\ Count \in Nat /\ Count + MaxUnderflow < Modulus
<1>1. Counted \in SUBSET LayerIds
  BY DEF IInv, TypeOK, Counted, ToSet
<1>2. IsFiniteSet(Counted) /\ Cardinality(Counted) <= Cardinality(LayerIds)
  BY <1>1, FS_Subset, StackAssumption
<1>3. Cardinality(Counted) \in Nat /\ Cardinality(LayerIds) \in Nat
  BY <1>2, FS_CardinalityType, StackAssumption
<1>4. QED
  BY <1>2, <1>3, StackAssumption DEF Count

(* Layers lie below overlays, so that the first Count positions are the    *)
(* layers' and the others the overlays'.                                   *)
LEMMA CountIsBorder ==
  ASSUME IInv
  PROVE  /\ Count <= Len(m_layers)
         /\ \A i \in 1 .. Len(m_layers) : m_layers[i] \in overlays <=> i > Count
<1> DEFINE n == Len(m_layers)
           T == {i \in 1 .. n + 1 : i = n + 1 \/ m_layers[i] \in overlays}
<1>1. m_layers \in Seq(LayerIds) /\ n \in Nat
  BY DEF IInv, TypeOK
<1>2. PICK b \in T : \A j \in T : b <= j
  <2>1. T \in SUBSET Nat /\ n + 1 \in T
    BY <1>1
  <2> HIDE DEF T
  <2>2. QED
    BY <2>1, LeastNatural
<1>3. /\ b \in 1 .. n + 1
      /\ \A i \in 1 .. n : m_layers[i] \in overlays <=> i >= b
  <2>1. \A i \in 1 .. n : m_layers[i] \in overlays => i >= b
    BY <1>1, <1>2
  <2>2. \A i \in 1 .. n : i >= b => m_layers[i] \in overlays
    <3>1. b \in 1 .. n + 1 /\ (b <= n => m_layers[b] \in overlays)
      BY <1>1, <1>2
    <3>2. QED
      BY <1>1, <3>1 DEF IInv, LayersBelowOverlays
  <2>3. QED
    BY <1>2, <2>1, <2>2
<1>4. [i \in 1 .. b - 1 |-> m_layers[i]] \in Bijection(1 .. b - 1, Counted)
  <2> DEFINE f == [i \in 1 .. b - 1 |-> m_layers[i]]
  <2>1. \A i \in 1 .. b - 1 : i \in 1 .. n /\ m_layers[i] \in Counted
    BY <1>1, <1>3 DEF Counted, ToSet
  <2>2. \A i, j \in 1 .. b - 1 : m_layers[i] = m_layers[j] => i = j
    BY <1>1, <2>1 DEF IInv, Distinct
  <2>3. \A x \in Counted : \E i \in 1 .. b - 1 : m_layers[i] = x
    <3>1. TAKE x \in Counted
    <3>2. PICK i \in 1 .. n : m_layers[i] = x /\ x \notin overlays
      BY <1>1 DEF Counted, ToSet
    <3>3. i \in 1 .. b - 1
      BY <1>1, <1>3, <3>2
    <3>4. QED
      BY <3>2, <3>3
  <2>4. QED
    BY <2>1, <2>2, <2>3 DEF Bijection, Injection, Surjection, IsInjective
<1>5. Count = b - 1
  <2>1. b - 1 \in Nat /\ IsFiniteSet(1 .. b - 1) /\ Cardinality(1 .. b - 1) = b - 1
    <3>1. b - 1 \in Nat /\ 1 \in Int /\ b - 1 \in Int
      BY <1>1, <1>3
    <3>2. /\ IsFiniteSet(1 .. b - 1)
          /\ Cardinality(1 .. b - 1) = IF 1 > b - 1 THEN 0 ELSE b - 1 - 1 + 1
      BY <3>1, FS_Interval
    <3>3. QED
      BY <3>1, <3>2
  <2>2. ExistsBijection(1 .. b - 1, Counted)
    BY <1>4 DEF ExistsBijection
  <2>3. QED
    BY <2>1, <2>2, FS_Bijection DEF Count
<1>6. QED
  BY <1>1, <1>3, <1>5

(* The offset does not exceed the count unless it has wrapped: "out of     *)
(* step" always means too few.                                             *)
LEMMA OffsetLags ==
  ASSUME IInv, status = "live"
  PROVE  m_layer_iterator_offset <= Count \/ Wrapped
<1>1. /\ m_layers \in Seq(LayerIds) /\ Len(m_layers) \in Nat
      /\ m_layer_iterator_offset \in Nat
  BY StackAssumption DEF IInv, TypeOK
<1>2. CASE LayersBelowOffset
  <2>1. CASE m_layer_iterator_offset = 0
    BY <2>1, CountType
  <2>2. CASE m_layer_iterator_offset # 0
    <3>1. /\ m_layer_iterator_offset \in 1 .. Len(m_layers)
          /\ m_layers[m_layer_iterator_offset] \notin overlays
      BY <1>1, <1>2, <2>2 DEF LayersBelowOffset, OffsetInVector
    <3>2. QED
      BY <1>1, <3>1, CountIsBorder, CountType
  <2>3. QED
    BY <2>1, <2>2
<1>3. QED
  BY <1>2 DEF IInv, OffsetKnown

LEMMA InStepIsCount == InStep <=> m_layer_iterator_offset = Count
  BY DEF InStep, Count, Counted

(* What is known of a stack that is usable. *)
LEMMA UsableFacts ==
  ASSUME IInv, Usable
  PROVE  /\ m_layers \in Seq(LayerIds) /\ overlays \subseteq LayerIds
         /\ Len(m_layers) \in Nat /\ m_layer_iterator_offset \in 0 .. Len(m_layers)
         /\ OffsetInVector
         /\ \A i \in 1 .. Len(m_layers) :
              m_layers[i] \in overlays <=> i > m_layer_iterator_offset
<1>1. m_layer_iterator_offset = Count
  BY InStepIsCount DEF Usable
<1>2. QED
  BY <1>1, CountIsBorder, CountType DEF IInv, TypeOK, OffsetInVector

-----------------------------------------------------------------------------
(* How the steps change the count. *)

LEMMA PushLayerChanges ==
  ASSUME IInv, NEW l \in LayerIds \ ToSet(m_layers), PushLayer(l), OffsetInVector
  PROVE  /\ IsInsertion(m_layers', m_layers, m_layer_iterator_offset + 1, l)
         /\ m_layer_iterator_offset' = m_layer_iterator_offset + 1
         /\ overlays' = overlays \ {l} /\ status' = "live"
         /\ Count' = Count + 1
<1> DEFINE n == Len(m_layers)
           o == m_layer_iterator_offset
<1>1. /\ m_layers \in Seq(LayerIds) /\ n \in Nat /\ o \in 0 .. n
      /\ m_layers' = InsertAt(m_layers, o + 1, l)
      /\ o' = (o + 1) % Modulus
      /\ overlays' = overlays \ {l} /\ status' = "live"
  BY DEF IInv, TypeOK, OffsetInVector, PushLayer
<1>2. IsInsertion(m_layers', m_layers, o + 1, l)
  <2> DEFINE p == o + 1
  <2>1. p \in 1 .. Len(m_layers) + 1 /\ m_layers' = InsertAt(m_layers, p, l)
    BY <1>1
  <2> HIDE DEF p
  <2>2. IsInsertion(m_layers', m_layers, p, l)
    BY <1>1, <2>1, InsertAtPositions
  <2>3. QED
    BY <2>2 DEF p
<1>3. o' = o + 1
  <2>1. m_layers' \in Seq(LayerIds) /\ Len(m_layers') = n + 1
    BY <1>2 DEF IsInsertion
  <2>2. \A i, j \in 1 .. Len(m_layers') : i # j => m_layers'[i] # m_layers'[j]
    BY PushLayerStep DEF IInv, Distinct
  <2>3. Len(m_layers') + MaxUnderflow < Modulus
    BY <2>1, <2>2, LengthBound
  <2>4. o + 1 \in 0 .. Modulus - 1
    BY <1>1, <2>1, <2>3, StackAssumption
  <2>5. QED
    BY <1>1, <2>4, StackAssumption
<1>4. Count' = Count + 1
  <2>1. ToSet(m_layers') = ToSet(m_layers) \cup {l}
    <3>1. n \in Nat /\ o \in 0 .. n
      BY <1>1
    <3>2. /\ DOMAIN m_layers' = 1 .. n + 1 /\ DOMAIN m_layers = 1 .. n
          /\ \A i \in 1 .. n + 1 : m_layers'[i] = IF i < o + 1 THEN m_layers[i]
                                             ELSE IF i = o + 1 THEN l ELSE m_layers[i - 1]
      BY <1>1, <1>2 DEF IsInsertion
    <3> HIDE DEF n, o
    <3>3. ASSUME NEW i \in 1 .. n + 1
          PROVE  m_layers'[i] \in ToSet(m_layers) \cup {l}
      <4>1. i = o + 1 \/ (i \in 1 .. n /\ i < o + 1) \/ (i - 1 \in 1 .. n /\ i > o + 1)
        BY <3>1
      <4>2. m_layers'[i] = l \/ \E j \in 1 .. n : m_layers'[i] = m_layers[j]
        BY <3>1, <3>2, <4>1
      <4>3. QED
        BY <3>2, <4>2 DEF ToSet
    <3>4. ASSUME NEW i \in 1 .. n
          PROVE  m_layers[i] \in ToSet(m_layers')
      <4>1. CASE i < o + 1
        <5>1. i \in 1 .. n + 1 /\ m_layers'[i] = m_layers[i]
          BY <3>1, <3>2, <4>1
        <5>2. QED
          BY <3>2, <5>1 DEF ToSet
      <4>2. CASE ~(i < o + 1)
        <5>1. i + 1 \in 1 .. n + 1 /\ ~(i + 1 < o + 1) /\ i + 1 # o + 1 /\ (i + 1) - 1 = i
          BY <3>1, <4>2
        <5>2. QED
          BY <3>2, <5>1 DEF ToSet
      <4>3. QED
        BY <4>1, <4>2
    <3>5. l \in ToSet(m_layers')
      <4>1. o + 1 \in 1 .. n + 1 /\ ~(o + 1 < o + 1)
        BY <3>1
      <4>2. QED
        BY <3>2, <4>1 DEF ToSet
    <3>6. QED
      BY <3>2, <3>3, <3>4, <3>5 DEF ToSet
  <2>2. Counted' = Counted \cup {l} /\ l \notin Counted
    BY <1>1, <2>1 DEF Counted
  <2>3. QED
    BY <2>2, CountType, FS_AddElement DEF Count
<1>5. QED
  BY <1>1, <1>2, <1>3, <1>4

LEMMA PushOverlayChanges ==
  ASSUME IInv, NEW l \in LayerIds \ ToSet(m_layers), PushOverlay(l)
  PROVE  /\ m_layers' = Append(m_layers, l) /\ status' = "live"
         /\ m_layer_iterator_offset' = m_layer_iterator_offset
         /\ Count' = Count
<1>1. /\ m_layers \in Seq(LayerIds) /\ m_layers' = Append(m_layers, l)
      /\ m_layer_iterator_offset' = m_layer_iterator_offset
      /\ overlays' = overlays \cup {l} /\ status' = "live"
  BY DEF IInv, TypeOK, PushOverlay
<1>2. ToSet(m_layers') = ToSet(m_layers) \cup {l}
  BY <1>1 DEF ToSet
<1>3. Counted' = Counted
  BY <1>1, <1>2 DEF Counted
<1>4. QED
  BY <1>1, <1>3 DEF Count

LEMMA EraseChanges ==
  ASSUME IInv, NEW it \in 1 .. Len(m_layers), Erase(it)
  PROVE  /\ IsRemoval(m_layers', m_layers, it)
         /\ m_layer_iterator_offset' = (IF m_layer_iterator_offset = 0 THEN Modulus - 1
                                        ELSE m_layer_iterator_offset - 1)
         /\ overlays' = overlays \ {m_layers[it]}
         /\ ToSet(m_layers') = ToSet(m_layers) \ {m_layers[it]}
         /\ Count' = IF m_layers[it] \in overlays THEN Count ELSE Count - 1
<1> DEFINE n == Len(m_layers)
           o == m_layer_iterator_offset
           x == m_layers[it]
<1>1. /\ m_layers \in Seq(LayerIds) /\ n \in Nat /\ o \in 0 .. Modulus - 1
      /\ m_layers' = RemoveAt(m_layers, it)
      /\ o' = (o + Modulus - 1) % Modulus
      /\ overlays' = overlays \ {x}
  BY DEF IInv, TypeOK, Erase
<1>2. IsRemoval(m_layers', m_layers, it)
  BY <1>1, RemoveAtPositions
<1>3. o' = IF o = 0 THEN Modulus - 1 ELSE o - 1
  BY <1>1, StackAssumption
<1>4. ToSet(m_layers') = ToSet(m_layers) \ {x}
  <2>1. ASSUME NEW i \in 1 .. n - 1
        PROVE  m_layers'[i] \in ToSet(m_layers) \ {x}
    <3>1. PICK k \in {i, i + 1} : k \in 1 .. n /\ k # it /\ m_layers'[i] = m_layers[k]
      BY <1>1, <1>2 DEF IsRemoval
    <3>2. m_layers[k] # x
      BY <3>1 DEF IInv, Distinct
    <3>3. QED
      BY <1>1, <3>1, <3>2 DEF ToSet
  <2>2. ASSUME NEW i \in 1 .. n, m_layers[i] # x
        PROVE  m_layers[i] \in ToSet(m_layers')
    <3>1. PICK k \in {i, i - 1} : k \in 1 .. n - 1 /\ m_layers'[k] = m_layers[i]
      <4>1. i # it
        BY <2>2
      <4>2. CASE i < it
        <5>1. i \in 1 .. n - 1
          BY <1>1, <4>2
        <5>2. QED
          BY <1>2, <4>2, <5>1 DEF IsRemoval
      <4>3. CASE i > it
        <5>1. i - 1 \in 1 .. n - 1 /\ ~(i - 1 < it) /\ (i - 1) + 1 = i
          BY <1>1, <4>3
        <5>2. QED
          BY <1>2, <5>1 DEF IsRemoval
      <4>4. QED
        BY <1>1, <4>1, <4>2, <4>3
    <3>2. QED
      BY <1>2, <3>1 DEF IsRemoval, ToSet
  <2>3. DOMAIN m_layers' = 1 .. n - 1 /\ DOMAIN m_layers = 1 .. n
    BY <1>1, <1>2 DEF IsRemoval
  <2>4. QED
    BY <2>1, <2>2, <2>3 DEF ToSet
<1>5. Count' = IF x \in overlays THEN Count ELSE Count - 1
  <2>1. Counted' = Counted \ {x}
    BY <1>1, <1>4 DEF Counted
  <2>2. x \in Counted <=> x \notin overlays
    BY <1>1 DEF Counted, ToSet
  <2>3. QED
    BY <2>1, <2>2, CountType, FS_RemoveElement DEF Count
<1>6. QED
  BY <1>1, <1>2, <1>3, <1>4, <1>5

-----------------------------------------------------------------------------
(* In step and out of step. *)

(* A pop of an overlay is never made good: the offset stays behind the     *)
(* count, or wraps to where push_layer and pop_layer cannot use it.        *)
LEMMA NeverBackInStep ==
  ASSUME IInv, [Next]_stackVars, ~Usable
  PROVE  ~Usable'
<1> SUFFICES ASSUME status = "live", status' = "live", ~InStep
             PROVE  ~InStep'
  BY DEF Usable, Next, ClientPushLayer, ClientPushOverlay, ClientPopLayer, ClientPopOverlay,
         PushLayer, PushOverlay, PopLayer, PopOverlay, Destroy, Ended, stackVars
<1> DEFINE o == m_layer_iterator_offset
<1>1. /\ o < Count \/ Wrapped
      /\ o \in Nat /\ o < Modulus
      /\ Count \in Nat /\ Count + MaxUnderflow < Modulus
      /\ Modulus \in Nat /\ MaxUnderflow \in Nat
  <2>1. o # Count
    BY InStepIsCount
  <2>2. o \in Nat /\ o < Modulus
    BY StackAssumption DEF IInv, TypeOK
  <2>3. QED
    BY <2>1, <2>2, OffsetLags, CountType, StackAssumption
<1>2. InStep' <=> o' = Count'
  BY DEF InStep, Count, Counted
<1> HIDE DEF o
<1>3. ASSUME NEW l \in LayerIds \ ToSet(m_layers), PushLayer(l)
      PROVE  ~InStep'
  <2>1. CASE OffsetInVector
    <3>1. ~Wrapped
      BY <2>1, InVectorIsNotWrapped DEF IInv
    <3>2. QED
      BY <1>1, <1>2, <1>3, <2>1, <3>1, PushLayerChanges DEF o
  <2>2. CASE ~OffsetInVector
    BY <1>3, <2>2 DEF PushLayer, Fault
  <2>3. QED
    BY <2>1, <2>2
<1>4. ASSUME NEW l \in LayerIds \ ToSet(m_layers), PushOverlay(l)
      PROVE  ~InStep'
  BY <1>1, <1>2, <1>4, PushOverlayChanges, StackAssumption DEF Wrapped, o
<1>5. ASSUME MayUnderflow, NEW it \in 1 .. Len(m_layers), Erase(it)
      PROVE  ~InStep'
  <2>1. /\ o' = IF o = 0 THEN Modulus - 1 ELSE o - 1
        /\ Count' \in {Count, Count - 1}
    BY <1>5, EraseChanges DEF o
  <2>2. o # (Modulus - MaxUnderflow) % Modulus
    BY <1>5 DEF MayUnderflow, o
  <2>3. CASE o = 0
    <3>1. MaxUnderflow # 0
      BY <1>1, <2>2, <2>3
    <3>2. QED
      BY <1>1, <1>2, <2>1, <2>3, <3>1
  <2>4. CASE o # 0 /\ o < Count
    BY <1>1, <1>2, <2>1, <2>4
  <2>5. CASE o # 0 /\ Wrapped
    <3>1. o >= Modulus - MaxUnderflow
      BY <2>5 DEF Wrapped, o
    <3>2. o - 1 >= Modulus - MaxUnderflow
      <4>1. CASE MaxUnderflow = 0
        BY <1>1, <3>1, <4>1
      <4>2. CASE MaxUnderflow # 0
        <5>1. (Modulus - MaxUnderflow) % Modulus = Modulus - MaxUnderflow
          BY <1>1, <4>2
        <5>2. QED
          BY <1>1, <2>2, <3>1, <5>1
      <4>3. QED
        BY <4>1, <4>2
    <3>3. QED
      BY <1>1, <1>2, <2>1, <2>5, <3>2
  <2>6. QED
    BY <1>1, <2>3, <2>4, <2>5
<1>6. CASE UNCHANGED stackVars
  BY <1>6 DEF stackVars, InStep
<1>7. CASE ClientPopLayer \/ ClientPopOverlay
  BY <1>5, <1>6, <1>7, PopCases DEF ErasesOrNot, Fault
<1>8. QED
  BY <1>3, <1>4, <1>6, <1>7 DEF Next, ClientPushLayer, ClientPushOverlay, Destroy, Ended

(* Whatever removes no overlay leaves the offset in step. *)
LEMMA KeepsInStep ==
  ASSUME IInv, [Next]_stackVars,
         InStep, status' = "live", overlays \subseteq ToSet(m_layers')
  PROVE  InStep'
<1> DEFINE o == m_layer_iterator_offset
<1>1. /\ o = Count /\ (InStep' <=> o' = Count')
      /\ Count \in Nat
  BY InStepIsCount, CountType DEF InStep, Count, Counted
<1>2. ASSUME NEW l \in LayerIds \ ToSet(m_layers), PushLayer(l)
      PROVE  InStep'
  <2>1. CASE OffsetInVector
    BY <1>1, <1>2, <2>1, PushLayerChanges
  <2>2. CASE ~OffsetInVector
    BY <1>2, <2>2 DEF PushLayer, Fault
  <2>3. QED
    BY <2>1, <2>2
<1>3. ASSUME NEW l \in LayerIds \ ToSet(m_layers), PushOverlay(l)
      PROVE  InStep'
  BY <1>1, <1>3, PushOverlayChanges
<1>4. ASSUME NEW it \in 1 .. Len(m_layers), Erase(it)
      PROVE  InStep'
  <2>1. m_layers[it] \notin overlays
    BY <1>4, EraseChanges
  <2>2. m_layers \in Seq(LayerIds) /\ Len(m_layers) \in Nat
    BY DEF IInv, TypeOK
  <2>3. Count # 0
    BY <1>1, <2>1, <2>2, CountIsBorder
  <2>4. QED
    BY <1>1, <1>4, <2>1, <2>3, EraseChanges
<1>5. CASE UNCHANGED stackVars
  BY <1>5 DEF stackVars, InStep
<1>6. CASE ClientPopLayer \/ ClientPopOverlay
  BY <1>4, <1>5, <1>6, PopCases DEF ErasesOrNot, Fault
<1>7. QED
  BY <1>2, <1>3, <1>5, <1>6 DEF Next, ClientPushLayer, ClientPushOverlay, Destroy, Ended

(* The offset of layerstack.cpp is set wrong by a pop that removes an      *)
(* overlay and by nothing else, for any number of layers and any width of  *)
(* the counter that holds them.                                            *)
THEOREM OnlyOverlayPopsUnsettle == Spec => StaysInStep
<1>1. IInv /\ [Next]_stackVars
        => [InStep /\ status' = "live" /\ overlays \subseteq ToSet(m_layers') => InStep']_stackVars
  BY KeepsInStep
<1>2. QED
  BY <1>1, Invariance, PTL DEF Spec, StaysInStep

-----------------------------------------------------------------------------
(* The two halves. *)

(* A sequence split after its first k elements. *)
LEMMA SplitAt ==
  ASSUME NEW s \in Seq(LayerIds), NEW k \in 0 .. Len(s)
  PROVE  /\ SubSeq(s, 1, k) \in Seq(LayerIds) /\ Len(SubSeq(s, 1, k)) = k
         /\ \A i \in 1 .. k : SubSeq(s, 1, k)[i] = s[i]
         /\ SubSeq(s, k + 1, Len(s)) \in Seq(LayerIds)
         /\ Len(SubSeq(s, k + 1, Len(s))) = Len(s) - k
         /\ \A i \in 1 .. Len(s) - k : SubSeq(s, k + 1, Len(s))[i] = s[k + i]
<1> DEFINE n == Len(s)
<1>1. n \in Nat /\ k \in Nat /\ k <= n
  OBVIOUS
<1>2. SubSeq(s, 1, k) \in Seq(LayerIds) /\ Len(SubSeq(s, 1, k)) = k
      /\ \A i \in 1 .. k : SubSeq(s, 1, k)[i] = s[i]
  OBVIOUS
<1>3. /\ SubSeq(s, k + 1, n) \in Seq(LayerIds) /\ Len(SubSeq(s, k + 1, n)) = n - k
      /\ \A i \in 1 .. n - k : SubSeq(s, k + 1, n)[i] = s[k + i]
  OBVIOUS
<1>4. QED
  BY <1>2, <1>3

(* What an insertion at the split, one after the last element, and a       *)
(* removal below the split make of the two parts.                          *)
LEMMA SplitOfInsertion ==
  ASSUME NEW s \in Seq(LayerIds), NEW k \in 0 .. Len(s), NEW l \in LayerIds,
         NEW r, IsInsertion(r, s, k + 1, l)
  PROVE  /\ SubSeq(r, 1, k + 1) = Append(SubSeq(s, 1, k), l)
         /\ SubSeq(r, k + 1 + 1, Len(r)) = SubSeq(s, k + 1, Len(s))
<1> DEFINE n == Len(s)
           low == SubSeq(s, 1, k)
           high == SubSeq(s, k + 1, n)
           low1 == SubSeq(r, 1, k + 1)
           high1 == SubSeq(r, k + 1 + 1, Len(r))
<1>1. n \in Nat /\ k \in Nat /\ k <= n
  OBVIOUS
<1>2. /\ low \in Seq(LayerIds) /\ Len(low) = k
      /\ \A i \in 1 .. k : low[i] = s[i]
      /\ high \in Seq(LayerIds) /\ Len(high) = n - k
      /\ \A i \in 1 .. n - k : high[i] = s[k + i]
  BY SplitAt
<1>3. /\ r \in Seq(LayerIds) /\ Len(r) = n + 1
      /\ \A i \in 1 .. n + 1 : r[i] = IF i < k + 1 THEN s[i]
                                   ELSE IF i = k + 1 THEN l ELSE s[i - 1]
  BY DEF IsInsertion
<1>4. /\ low1 \in Seq(LayerIds) /\ Len(low1) = k + 1
      /\ \A i \in 1 .. k + 1 : low1[i] = r[i]
      /\ high1 \in Seq(LayerIds) /\ Len(high1) = n + 1 - (k + 1)
      /\ \A i \in 1 .. n + 1 - (k + 1) : high1[i] = r[k + 1 + i]
  <2>1. k + 1 \in 0 .. Len(r)
    BY <1>1, <1>3
  <2>2. QED
    BY <1>3, <2>1, SplitAt
<1> HIDE DEF n, low, high, low1, high1
<1>5. low1 = Append(low, l)
  <2>1. ASSUME NEW i \in 1 .. k + 1
        PROVE  low1[i] = Append(low, l)[i]
    <3>1. low1[i] = r[i]
      BY <1>4
    <3>2. CASE i <= k
      <4>1. r[i] = s[i] /\ i \in 1 .. k
        BY <1>1, <1>3, <3>2
      <4>2. Append(low, l)[i] = low[i]
        BY <1>2, <4>1
      <4>3. QED
        BY <1>2, <3>1, <4>1, <4>2
    <3>3. CASE i = k + 1
      <4>1. r[i] = l
        BY <1>1, <1>3, <3>3
      <4>2. Append(low, l)[i] = l
        BY <1>2, <3>3
      <4>3. QED
        BY <3>1, <4>1, <4>2
    <3>4. i <= k \/ i = k + 1
      BY <1>1
    <3>5. QED
      BY <3>2, <3>3, <3>4
  <2>2. Append(low, l) \in Seq(LayerIds) /\ Len(Append(low, l)) = k + 1
    BY <1>2
  <2>3. QED
    BY <1>4, <2>1, <2>2, SeqEqual
<1>6. high1 = high
  <2>1. n + 1 - (k + 1) = n - k
    BY <1>1
  <2>2. ASSUME NEW i \in 1 .. n - k
        PROVE  high1[i] = high[i]
    <3>1. high1[i] = r[k + 1 + i]
      BY <1>4, <2>1
    <3>2. k + 1 + i \in 1 .. n + 1 /\ ~(k + 1 + i < k + 1) /\ k + 1 + i # k + 1
          /\ k + 1 + i - 1 = k + i
      BY <1>1
    <3>3. r[k + 1 + i] = s[k + i]
      BY <1>3, <3>2
    <3>4. QED
      BY <1>2, <3>1, <3>3
  <2>3. Len(high1) = Len(high)
    BY <1>2, <1>4, <2>1
  <2>4. QED
    BY <1>2, <1>4, <2>2, <2>3, SeqEqual
<1>7. QED
  BY <1>5, <1>6 DEF low, high, low1, high1, n

LEMMA SplitOfAppend ==
  ASSUME NEW s \in Seq(LayerIds), NEW k \in 0 .. Len(s), NEW l \in LayerIds
  PROVE  /\ SubSeq(Append(s, l), 1, k) = SubSeq(s, 1, k)
         /\ SubSeq(Append(s, l), k + 1, Len(Append(s, l)))
              = Append(SubSeq(s, k + 1, Len(s)), l)
<1> DEFINE n == Len(s)
           r == Append(s, l)
           low == SubSeq(s, 1, k)
           high == SubSeq(s, k + 1, n)
           low1 == SubSeq(r, 1, k)
           high1 == SubSeq(r, k + 1, Len(r))
<1>1. n \in Nat /\ k \in Nat /\ k <= n
  OBVIOUS
<1>2. /\ low \in Seq(LayerIds) /\ Len(low) = k
      /\ \A i \in 1 .. k : low[i] = s[i]
      /\ high \in Seq(LayerIds) /\ Len(high) = n - k
      /\ \A i \in 1 .. n - k : high[i] = s[k + i]
  BY SplitAt
<1>3. /\ r \in Seq(LayerIds) /\ Len(r) = n + 1
      /\ \A i \in 1 .. n : r[i] = s[i]
      /\ r[n + 1] = l
  OBVIOUS
<1> HIDE DEF r
<1>4. /\ low1 \in Seq(LayerIds) /\ Len(low1) = k
      /\ \A i \in 1 .. k : low1[i] = r[i]
      /\ high1 \in Seq(LayerIds) /\ Len(high1) = n + 1 - k
      /\ \A i \in 1 .. n + 1 - k : high1[i] = r[k + i]
  <2>1. k \in 0 .. Len(r)
    BY <1>1, <1>3
  <2>2. /\ low1 \in Seq(LayerIds) /\ Len(low1) = k
        /\ \A i \in 1 .. k : low1[i] = r[i]
        /\ high1 \in Seq(LayerIds) /\ Len(high1) = Len(r) - k
        /\ \A i \in 1 .. Len(r) - k : high1[i] = r[k + i]
    BY <1>3, <2>1, SplitAt
  <2>3. QED
    BY <1>3, <2>2
<1> HIDE DEF n, low, high, low1, high1
<1>5. low1 = low
  <2>1. ASSUME NEW i \in 1 .. k
        PROVE  low1[i] = low[i]
    <3>1. i \in 1 .. n
      BY <1>1
    <3>2. QED
      BY <1>2, <1>3, <1>4, <3>1
  <2>2. QED
    BY <1>2, <1>4, <2>1, SeqEqual
<1>6. high1 = Append(high, l)
  <2>1. ASSUME NEW i \in 1 .. n + 1 - k
        PROVE  high1[i] = Append(high, l)[i]
    <3>1. high1[i] = r[k + i]
      BY <1>4
    <3>2. CASE i <= n - k
      <4>1. k + i \in 1 .. n /\ i \in 1 .. n - k
        BY <1>1, <3>2
      <4>2. r[k + i] = high[i]
        BY <1>2, <1>3, <4>1
      <4>3. Append(high, l)[i] = high[i]
        BY <1>2, <4>1
      <4>4. QED
        BY <3>1, <4>2, <4>3
    <3>3. CASE i = n - k + 1
      <4>1. k + i = n + 1
        BY <1>1, <3>3
      <4>2. Append(high, l)[i] = l
        BY <1>2, <3>3
      <4>3. QED
        BY <1>3, <3>1, <4>1, <4>2
    <3>4. i <= n - k \/ i = n - k + 1
      BY <1>1
    <3>5. QED
      BY <3>2, <3>3, <3>4
  <2>2. Append(high, l) \in Seq(LayerIds) /\ Len(Append(high, l)) = n + 1 - k
    BY <1>1, <1>2
  <2>3. QED
    BY <1>4, <2>1, <2>2, SeqEqual
<1>7. QED
  BY <1>5, <1>6 DEF low, high, low1, high1, n, r

LEMMA SplitOfRemoval ==
  ASSUME NEW s \in Seq(LayerIds), NEW k \in 1 .. Len(s), NEW it \in 1 .. k,
         NEW r, IsRemoval(r, s, it)
  PROVE  /\ SubSeq(r, 1, k - 1) = RemoveAt(SubSeq(s, 1, k), it)
         /\ SubSeq(r, k - 1 + 1, Len(r)) = SubSeq(s, k + 1, Len(s))
<1> DEFINE n == Len(s)
           low == SubSeq(s, 1, k)
           high == SubSeq(s, k + 1, n)
           low1 == SubSeq(r, 1, k - 1)
           high1 == SubSeq(r, k - 1 + 1, Len(r))
<1>1. n \in Nat /\ k \in Nat /\ k <= n /\ 1 <= k /\ it <= k /\ it \in Nat
  OBVIOUS
<1>2. /\ low \in Seq(LayerIds) /\ Len(low) = k
      /\ \A i \in 1 .. k : low[i] = s[i]
      /\ high \in Seq(LayerIds) /\ Len(high) = n - k
      /\ \A i \in 1 .. n - k : high[i] = s[k + i]
  <2>1. k \in 0 .. Len(s)
    OBVIOUS
  <2>2. QED
    BY <2>1, SplitAt
<1>3. /\ r \in Seq(LayerIds) /\ Len(r) = n - 1
      /\ \A i \in 1 .. n - 1 : r[i] = IF i < it THEN s[i] ELSE s[i + 1]
  BY DEF IsRemoval
<1>4. /\ low1 \in Seq(LayerIds) /\ Len(low1) = k - 1
      /\ \A i \in 1 .. k - 1 : low1[i] = r[i]
      /\ high1 \in Seq(LayerIds) /\ Len(high1) = n - 1 - (k - 1)
      /\ \A i \in 1 .. n - 1 - (k - 1) : high1[i] = r[k - 1 + i]
  <2>1. k - 1 \in 0 .. Len(r)
    BY <1>1, <1>3
  <2>2. QED
    BY <1>3, <2>1, SplitAt
<1> HIDE DEF n, low, high, low1, high1
<1>5. low1 = RemoveAt(low, it)
  <2>1. it \in 1 .. Len(low)
    BY <1>1, <1>2
  <2>2. /\ RemoveAt(low, it) \in Seq(LayerIds) /\ Len(RemoveAt(low, it)) = k - 1
        /\ \A i \in 1 .. k - 1 : RemoveAt(low, it)[i] = IF i < it THEN low[i] ELSE low[i + 1]
    BY <1>2, <2>1, RemoveAtPositions DEF IsRemoval
  <2>3. ASSUME NEW i \in 1 .. k - 1
        PROVE  low1[i] = RemoveAt(low, it)[i]
    <3>1. i \in 1 .. n - 1 /\ i \in 1 .. k /\ i + 1 \in 1 .. k
      BY <1>1
    <3>2. low1[i] = IF i < it THEN s[i] ELSE s[i + 1]
      BY <1>3, <1>4, <3>1
    <3>3. low[i] = s[i] /\ low[i + 1] = s[i + 1]
      BY <1>2, <3>1
    <3>4. QED
      BY <2>2, <3>2, <3>3
  <2>4. QED
    BY <1>4, <2>2, <2>3, SeqEqual
<1>6. high1 = high
  <2>1. n - 1 - (k - 1) = n - k
    BY <1>1
  <2>2. ASSUME NEW i \in 1 .. n - k
        PROVE  high1[i] = high[i]
    <3>1. high1[i] = r[k - 1 + i]
      BY <1>4, <2>1
    <3>2. k - 1 + i \in 1 .. n - 1 /\ ~(k - 1 + i < it) /\ k - 1 + i + 1 = k + i
      BY <1>1
    <3>3. r[k - 1 + i] = s[k + i]
      BY <1>3, <3>2
    <3>4. QED
      BY <1>2, <3>1, <3>3
  <2>3. Len(high1) = Len(high)
    BY <1>2, <1>4, <2>1
  <2>4. QED
    BY <1>2, <1>4, <2>2, <2>3, SeqEqual
<1>7. QED
  BY <1>5, <1>6 DEF low, high, low1, high1, n

(* A layer that is not in the vector is in neither half.                   *)
LEMMA HalvesHold ==
  ASSUME IInv, Usable, NEW l, l \notin ToSet(m_layers)
  PROVE  l \notin Halves!ToSet(LayerHalf) \cup Halves!ToSet(OverlayHalf)
<1> DEFINE n == Len(m_layers)
           o == m_layer_iterator_offset
           low == SubSeq(m_layers, 1, o)
           high == SubSeq(m_layers, o + 1, n)
<1>1. m_layers \in Seq(LayerIds) /\ n \in Nat /\ o \in 0 .. n
  BY UsableFacts
<1>2. /\ low \in Seq(LayerIds) /\ Len(low) = o
      /\ \A i \in 1 .. o : low[i] = m_layers[i]
      /\ high \in Seq(LayerIds) /\ Len(high) = n - o
      /\ \A i \in 1 .. n - o : high[i] = m_layers[o + i]
  BY <1>1, SplitAt
<1>3. LayerHalf = low /\ OverlayHalf = high
  BY DEF LayerHalf, OverlayHalf
<1>4. \A i \in 1 .. n : m_layers[i] # l
  BY <1>1 DEF ToSet
<1> HIDE DEF n, o, low, high
<1>5. DOMAIN low = 1 .. o /\ DOMAIN high = 1 .. n - o
  BY <1>2
<1>6. ASSUME NEW i \in 1 .. o
      PROVE  low[i] # l
  <2>1. i \in 1 .. n
    BY <1>1
  <2>2. QED
    BY <1>2, <1>4, <2>1
<1>7. ASSUME NEW i \in 1 .. n - o
      PROVE  high[i] # l
  <2>1. o + i \in 1 .. n
    BY <1>1
  <2>2. QED
    BY <1>2, <1>4, <2>1
<1>8. QED
  BY <1>3, <1>5, <1>6, <1>7 DEF Halves!ToSet

LEMMA HalvesPushLayer ==
  ASSUME IInv, Usable, Usable', NEW l \in LayerIds \ ToSet(m_layers), PushLayer(l)
  PROVE  Halves!PushLayer(l)
<1>1. /\ m_layers \in Seq(LayerIds) /\ m_layer_iterator_offset \in 0 .. Len(m_layers)
      /\ IsInsertion(m_layers', m_layers, m_layer_iterator_offset + 1, l)
      /\ m_layer_iterator_offset' = m_layer_iterator_offset + 1
  BY UsableFacts, PushLayerChanges
<1>2. LayerHalf' = Append(LayerHalf, l) /\ OverlayHalf' = OverlayHalf
  BY <1>1, SplitOfInsertion DEF LayerHalf, OverlayHalf
<1>3. QED
  BY <1>2, HalvesHold DEF Halves!PushLayer

LEMMA HalvesPushOverlay ==
  ASSUME IInv, Usable, Usable', NEW l \in LayerIds \ ToSet(m_layers), PushOverlay(l)
  PROVE  Halves!PushOverlay(l)
<1>1. /\ m_layers \in Seq(LayerIds) /\ m_layer_iterator_offset \in 0 .. Len(m_layers)
      /\ m_layers' = Append(m_layers, l)
      /\ m_layer_iterator_offset' = m_layer_iterator_offset
  BY UsableFacts, PushOverlayChanges
<1>2. LayerHalf' = LayerHalf /\ OverlayHalf' = Append(OverlayHalf, l)
  BY <1>1, SplitOfAppend DEF LayerHalf, OverlayHalf
<1>3. QED
  BY <1>2, HalvesHold DEF Halves!PushOverlay

(* A pop that leaves the stack usable has found a layer. *)
LEMMA HalvesErase ==
  ASSUME IInv, Usable, Usable', NEW it \in 1 .. Len(m_layers), Erase(it)
  PROVE  Halves!PopLayer(m_layers[it])
<1> DEFINE n == Len(m_layers)
           o == m_layer_iterator_offset
<1>1. /\ m_layers \in Seq(LayerIds) /\ n \in Nat /\ o \in 0 .. n
      /\ \A i \in 1 .. n : m_layers[i] \in overlays <=> i > o
  BY UsableFacts
<1>2. o = Count /\ o' = Count' /\ Count \in Nat /\ Count + MaxUnderflow < Modulus
  BY InStepIsCount, CountType DEF Usable, InStep, Count, Counted
<1>3. /\ o' = (IF o = 0 THEN Modulus - 1 ELSE o - 1)
      /\ Count' = IF m_layers[it] \in overlays THEN Count ELSE Count - 1
      /\ IsRemoval(m_layers', m_layers, it)
  BY EraseChanges
<1>4. m_layers[it] \notin overlays /\ o # 0
  <2> DEFINE c == Count
             u == o'
             c1 == Count'
  <2>1. n \in Nat /\ n + MaxUnderflow < Modulus /\ 1 <= n /\ MaxUnderflow \in Nat /\ Modulus \in Nat
    BY <1>1, LengthBound, StackAssumption DEF IInv, Distinct
  <2>2. /\ o = c /\ u = c1 /\ c \in Nat
        /\ u = (IF o = 0 THEN Modulus - 1 ELSE o - 1)
        /\ m_layers[it] \in overlays => c1 = c
    BY <1>2, <1>3
  <2>3. o = 0 => m_layers[it] \in overlays
    BY <1>1
  <2> HIDE DEF c, u, c1, o, n
  <2>4. m_layers[it] \notin overlays
    BY <2>1, <2>2
  <2>5. QED
    BY <2>3, <2>4
<1>5. it \in 1 .. o /\ o \in 1 .. n /\ o' = o - 1
  BY <1>1, <1>3, <1>4
<1>6. LayerHalf' = RemoveAt(LayerHalf, it) /\ OverlayHalf' = OverlayHalf
  <2>1. /\ SubSeq(m_layers', 1, o - 1) = RemoveAt(SubSeq(m_layers, 1, o), it)
        /\ SubSeq(m_layers', o - 1 + 1, Len(m_layers')) = SubSeq(m_layers, o + 1, n)
    BY <1>1, <1>3, <1>5, SplitOfRemoval
  <2>2. QED
    BY <1>5, <2>1 DEF LayerHalf, OverlayHalf
<1>7. it \in 1 .. Len(LayerHalf) /\ LayerHalf[it] = m_layers[it]
  BY <1>1, <1>5, SplitAt DEF LayerHalf
<1>8. QED
  BY <1>6, <1>7 DEF Halves!PopLayer, Halves!RemoveAt, RemoveAt

(* Every step of the vector and its offset is a step of the two halves, or *)
(* one they do not see.                                                    *)
LEMMA HalvesStep ==
  ASSUME IInv, [Next]_stackVars
  PROVE  [Halves!Next]_(Halves!halvesVars)
<1>1. CASE ~Usable
  <2>1. ~Usable'
    BY <1>1, NeverBackInStep
  <2>2. LayerHalf' = LayerHalf /\ OverlayHalf' = OverlayHalf
    BY <1>1, <2>1, Zenon DEF LayerHalf, OverlayHalf
  <2>3. Usable' = Usable
    BY <1>1, <2>1, Zenon DEF Usable
  <2>4. QED
    BY <2>2, <2>3, Zenon DEF Halves!halvesVars
<1>2. CASE Usable /\ ~Usable'
  BY <1>2 DEF LayerHalf, OverlayHalf, Halves!Next, Halves!Destroy
<1>3. CASE Usable /\ Usable'
  <2>1. CASE UNCHANGED stackVars
    BY <2>1 DEF stackVars, Usable, InStep, LayerHalf, OverlayHalf, Halves!halvesVars
  <2>2. CASE ClientPushLayer
    BY <1>3, <2>2, HalvesPushLayer DEF ClientPushLayer, Halves!Next
  <2>3. CASE ClientPushOverlay
    BY <1>3, <2>3, HalvesPushOverlay DEF ClientPushOverlay, Halves!Next
  <2>4. CASE ClientPopLayer \/ ClientPopOverlay
    <3>1. ASSUME NEW it \in 1 .. Len(m_layers), Erase(it)
          PROVE  Halves!Next
      <4>1. m_layers[it] \in LayerIds
        BY DEF IInv, TypeOK
      <4>2. QED
        BY <1>3, <3>1, <4>1, HalvesErase DEF Halves!Next
    <3>2. QED
      BY <1>3, <2>1, <2>4, <3>1, PopCases DEF ErasesOrNot, Fault, Usable
  <2>5. CASE Destroy \/ Ended
    BY <1>3, <2>1, <2>5 DEF Destroy, Ended, Usable
  <2>6. QED
    BY <2>1, <2>2, <2>3, <2>4, <2>5 DEF Next
<1>4. QED
  BY <1>1, <1>2, <1>3

LEMMA HalvesInit == Init => Halves!Init
<1> SUFFICES ASSUME Init PROVE Halves!Init
  OBVIOUS
<1>1. ToSet(m_layers) \ overlays = {}
  BY DEF Init, ToSet
<1>2. Usable
  BY <1>1, FS_EmptySet DEF Init, Usable, InStep
<1>3. SubSeq(m_layers, 1, 0) = <<>> /\ SubSeq(m_layers, 1, Len(m_layers)) = <<>>
  BY DEF Init
<1>4. LayerHalf = <<>> /\ OverlayHalf = <<>>
  BY <1>2, <1>3 DEF Init, LayerHalf, OverlayHalf
<1>5. QED
  BY <1>2, <1>4 DEF Halves!Init

(* The vector and the offset of layerstack.cpp are two independent halves, *)
(* as layerstack.h promises, from the start and until a pop removes an     *)
(* overlay, whatever the client pushes and pops till then.                 *)
THEOREM RefinesHalves == Spec => ImplementsHalves
<1>1. Init => Halves!Init
  BY HalvesInit
<1>2. IInv /\ [Next]_stackVars => [Halves!Next]_(Halves!halvesVars)
  BY HalvesStep
<1>3. QED
  BY <1>1, <1>2, Invariance, PTL DEF Spec, ImplementsHalves, Halves!Spec

=============================================================================
