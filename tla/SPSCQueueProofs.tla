--------------------------- MODULE SPSCQueueProofs ---------------------------
(***************************************************************************)
(* Proofs about SPSCQueue for every capacity, every set of values and      *)
(* either reading of the acquire loads.                                    *)
(*                                                                         *)
(* The inductive invariant has three parts.  IndexInv says that an index   *)
(* the other thread saw earlier lies on the safe side of the current one:  *)
(* seen_head, head, seen_tail and tail follow one another round the ring.  *)
(* SlotInv says which slots hold a value.  CallInv ties the two to where   *)
(* each call is.                                                           *)
(***************************************************************************)
EXTENDS SPSCQueue, SequenceTheorems, TLAPS

IndexInv ==
  /\ Dist(seen_head, m_head) + Dist(m_head, m_tail) = Dist(seen_head, m_tail)
  /\ Dist(m_head, seen_tail) + Dist(seen_tail, m_tail) = Dist(m_head, m_tail)

(* The slots from head to tail, less the one pop() has emptied already and *)
(* with the one push() has filled already.                                 *)
Holds(i) ==
  \/ /\ Dist(m_head, i) < Occupied
     /\ ~(i = m_head /\ popping = "publish")
  \/ i = m_tail /\ pushing = "publish"

SlotInv == \A i \in Slots : m_queue[i] # Blank <=> Holds(i)

CallInv ==
  /\ pushing # "idle" => seen_head # Succ(m_tail)
  /\ pushing = "write" => val \in Values
  /\ popping # "idle" => seen_tail # m_head
  /\ popping = "publish" => out \in Values

IInv == TypeOK /\ IndexInv /\ SlotInv /\ CallInv

-----------------------------------------------------------------------------
(* The ring's arithmetic. *)

(* The next slot, without a modulus: what queue.h:34, 37 and 52 compute.   *)
LEMMA SuccIsWrap ==
  ASSUME NEW i \in Slots
  PROVE  Succ(i) = IF i + 1 = Capacity THEN 0 ELSE i + 1
  BY QueueAssumption DEF Slots, Succ

LEMMA SuccIsSlot ==
  ASSUME NEW i \in Slots
  PROVE  Succ(i) \in Slots
  BY SuccIsWrap, QueueAssumption DEF Slots

(* A load returns a slot between the one seen last and the current one.    *)
LEMMA VisibleIsBetween ==
  ASSUME NEW last \in Slots, NEW now \in Slots, NEW i \in Visible(last, now)
  PROVE  /\ i \in Slots
         /\ Dist(last, i) + Dist(i, now) = Dist(last, now)
  BY QueueAssumption DEF Visible, Slots, Dist

(* Of four slots in ring order, the last three are in ring order.          *)
LEMMA BetweenDrops ==
  ASSUME NEW a \in Slots, NEW b \in Slots, NEW c \in Slots, NEW d \in Slots,
         Dist(a, b) + Dist(b, c) = Dist(a, c),
         Dist(a, c) + Dist(c, d) = Dist(a, d)
  PROVE  Dist(b, c) + Dist(c, d) = Dist(b, d)
  BY QueueAssumption DEF Slots, Dist

-----------------------------------------------------------------------------
(* Type correctness. *)

LEMMA TypeInit == Init => TypeOK
  BY QueueAssumption DEF Init, TypeOK, Slots

LEMMA TypeStep == TypeOK /\ [Next]_vars => TypeOK'
<1> SUFFICES ASSUME TypeOK, [Next]_vars PROVE TypeOK'
  OBVIOUS
<1> USE DEF TypeOK
<1>1. ASSUME NEW v \in Values, PushBegin(v) PROVE TypeOK'
  BY <1>1, VisibleIsBetween DEF PushBegin, popVars
<1>2. CASE PushFull
  BY <1>2, SuccIsSlot DEF PushFull, popVars
<1>3. CASE PushWrite
  BY <1>3 DEF PushWrite, popVars
<1>4. CASE PushPublish
  BY <1>4, SuccIsSlot DEF PushPublish, popVars
<1>5. CASE PopBegin
  BY <1>5, VisibleIsBetween DEF PopBegin, pushVars
<1>6. CASE PopEmpty
  BY <1>6 DEF PopEmpty, pushVars
<1>7. CASE PopTake
  BY <1>7 DEF PopTake, pushVars
<1>8. CASE PopPublish
  BY <1>8, SuccIsSlot DEF PopPublish, pushVars
<1>9. CASE UNCHANGED vars
  BY <1>9 DEF vars, pushVars, popVars
<1>10. QED
  BY <1>1, <1>2, <1>3, <1>4, <1>5, <1>6, <1>7, <1>8, <1>9 DEF Next, Push, Pop

(* Every index stays a slot of the ring, every slot and register holds a   *)
(* value or nothing, and each thread is at one point of its call: TypeOK   *)
(* holds of push() and pop() (queue.h:29-56) for every capacity.           *)
THEOREM TypeCorrect == Spec => []TypeOK
  BY TypeInit, TypeStep, PTL DEF Spec

-----------------------------------------------------------------------------
(* The inductive invariant. *)

LEMMA IInvInit == Init => IInv
<1> SUFFICES ASSUME Init PROVE IInv
  OBVIOUS
<1>1. TypeOK
  BY TypeInit
<1>2. IndexInv
  BY DEF Init, IndexInv, Dist
<1>3. SlotInv
  BY QueueAssumption DEF Init, SlotInv, Holds, Occupied, Dist, Slots
<1>4. CallInv
  BY DEF Init, CallInv
<1>5. QED
  BY <1>1, <1>2, <1>3, <1>4 DEF IInv

LEMMA IInvStep == IInv /\ [Next]_vars => IInv'
<1> SUFFICES ASSUME IInv, [Next]_vars PROVE IInv'
  OBVIOUS
<1>0. TypeOK /\ TypeOK'
  BY TypeStep DEF IInv
<1> USE QueueAssumption, SuccIsWrap DEF IInv
<1>1. ASSUME NEW v \in Values, PushBegin(v) PROVE IInv'
  <2>1. PICK h \in Visible(seen_head, m_head) : h # Succ(m_tail) /\ seen_head' = h
    BY <1>1 DEF PushBegin
  <2>2. IndexInv'
    BY <1>0, <1>1, <2>1, VisibleIsBetween DEF IndexInv, PushBegin, popVars, Dist, TypeOK, Slots
  <2>3. SlotInv'
    BY <1>0, <1>1 DEF SlotInv, Holds, Occupied, Dist, PushBegin, popVars
  <2>4. CallInv'
    BY <1>0, <1>1, <2>1 DEF CallInv, PushBegin, popVars, TypeOK, Succ
  <2>5. QED
    BY <1>0, <2>2, <2>3, <2>4
<1>2. CASE PushFull
  <2>0. Dist(seen_head, seen_head') + Dist(seen_head', m_head) = Dist(seen_head, m_head)
    BY <1>0, <1>2, VisibleIsBetween DEF PushFull, TypeOK
  <2>1. IndexInv'
    <3>1. Dist(seen_head', m_head) + Dist(m_head, m_tail) = Dist(seen_head', m_tail)
      BY <1>0, <2>0, BetweenDrops DEF IndexInv, TypeOK
    <3>2. UNCHANGED <<m_head, m_tail, seen_tail>>
      BY <1>2 DEF PushFull, popVars
    <3>3. QED
      BY <3>1, <3>2 DEF IndexInv, Dist
  <2>2. SlotInv'
    BY <1>0, <1>2 DEF SlotInv, Holds, Occupied, Dist, PushFull, popVars
  <2>3. CallInv'
    BY <1>0, <1>2 DEF CallInv, PushFull, popVars, TypeOK
  <2>4. QED
    BY <1>0, <2>1, <2>2, <2>3
<1>3. CASE PushWrite
  <2>1. IndexInv'
    BY <1>0, <1>3 DEF IndexInv, PushWrite, popVars, Dist
  <2>2. Dist(m_head, m_tail) < Capacity
    BY <1>0 DEF TypeOK, Slots, Dist
  <2>3. SlotInv'
    BY <1>0, <1>3, <2>2 DEF SlotInv, Holds, Occupied, Dist, PushWrite, popVars, CallInv, TypeOK, Slots
  <2>4. CallInv'
    BY <1>0, <1>3 DEF CallInv, PushWrite, popVars, Succ
  <2>5. QED
    BY <1>0, <2>1, <2>3, <2>4
<1>4. CASE PushPublish
  <2>0. /\ Succ(m_tail) = IF m_tail + 1 = Capacity THEN 0 ELSE m_tail + 1
        /\ seen_head # Succ(m_tail)
    BY <1>0, <1>4 DEF TypeOK, PushPublish, CallInv
  <2>1. Dist(m_head, Succ(m_tail)) = Dist(m_head, m_tail) + 1
    BY <1>0, <2>0 DEF TypeOK, Slots, Dist, IndexInv
  <2>2. IndexInv'
    BY <1>0, <1>4, <2>0 DEF IndexInv, PushPublish, popVars, Dist, TypeOK, Slots
  <2>3. SlotInv'
    <3> SUFFICES ASSUME NEW i \in Slots PROVE m_queue[i] # Blank <=> Holds(i)'
      BY <1>4 DEF SlotInv, PushPublish
    <3>1. Dist(m_head, i) < Dist(m_head, m_tail) + 1
            <=> Dist(m_head, i) < Dist(m_head, m_tail) \/ i = m_tail
      BY <1>0 DEF TypeOK, Slots, Dist
    <3>2. i = m_head /\ i = m_tail => popping # "publish"
      BY <1>0 DEF TypeOK, Slots, Dist, IndexInv, CallInv
    <3>3. Holds(i)' <=> /\ Dist(m_head, i) < Dist(m_head, m_tail) + 1
                        /\ ~(i = m_head /\ popping = "publish")
      BY <1>4, <2>1 DEF Holds, Occupied, Dist, PushPublish, popVars
    <3>4. Holds(i) <=> \/ /\ Dist(m_head, i) < Dist(m_head, m_tail)
                          /\ ~(i = m_head /\ popping = "publish")
                       \/ i = m_tail
      BY <1>4 DEF Holds, Occupied, PushPublish
    <3>5. QED
      BY <3>1, <3>2, <3>3, <3>4 DEF SlotInv
  <2>4. CallInv'
    BY <1>0, <1>4 DEF CallInv, PushPublish, popVars
  <2>5. QED
    BY <1>0, <2>2, <2>3, <2>4
<1>5. CASE PopBegin
  <2>1. PICK t \in Visible(seen_tail, m_tail) : t # m_head /\ seen_tail' = t
    BY <1>5 DEF PopBegin
  <2>2. IndexInv'
    BY <1>0, <1>5, <2>1, VisibleIsBetween DEF IndexInv, PopBegin, pushVars, Dist, TypeOK, Slots
  <2>3. SlotInv'
    BY <1>0, <1>5 DEF SlotInv, Holds, Occupied, Dist, PopBegin, pushVars
  <2>4. CallInv'
    BY <1>0, <1>5, <2>1 DEF CallInv, PopBegin, pushVars, Succ
  <2>5. QED
    BY <1>0, <2>2, <2>3, <2>4
<1>6. CASE PopEmpty
  <2>1. IndexInv'
    BY <1>0, <1>6 DEF IndexInv, PopEmpty, pushVars, Dist, TypeOK, Slots
  <2>2. SlotInv'
    BY <1>0, <1>6 DEF SlotInv, Holds, Occupied, Dist, PopEmpty, pushVars
  <2>3. CallInv'
    BY <1>0, <1>6 DEF CallInv, PopEmpty, pushVars, Succ
  <2>4. QED
    BY <1>0, <2>1, <2>2, <2>3
<1>7. CASE PopTake
  <2>1. m_head # m_tail
    BY <1>0, <1>7 DEF PopTake, IndexInv, CallInv, Dist, TypeOK, Slots
  <2>2. m_queue[m_head] # Blank
    BY <1>0, <1>7, <2>1 DEF PopTake, SlotInv, Holds, Occupied, Dist, TypeOK, Slots
  <2>3. IndexInv'
    BY <1>0, <1>7 DEF IndexInv, PopTake, pushVars, Dist
  <2>4. SlotInv'
    BY <1>0, <1>7, <2>1 DEF SlotInv, Holds, Occupied, Dist, PopTake, pushVars, TypeOK, Slots
  <2>5. CallInv'
    BY <1>0, <1>7, <2>2 DEF CallInv, PopTake, pushVars, TypeOK, Succ
  <2>6. QED
    BY <1>0, <2>3, <2>4, <2>5
<1>8. CASE PopPublish
  <2>0. /\ Succ(m_head) = IF m_head + 1 = Capacity THEN 0 ELSE m_head + 1
        /\ seen_tail # m_head
    BY <1>0, <1>8 DEF TypeOK, PopPublish, CallInv
  <2>1. m_head # m_tail
    BY <1>0, <2>0 DEF IndexInv, Dist, TypeOK, Slots
  <2>2. IndexInv'
    BY <1>0, <1>8, <2>0, <2>1 DEF IndexInv, PopPublish, pushVars, Dist, TypeOK, Slots
  <2>3. SlotInv'
    BY <1>0, <1>8, <2>0, <2>1 DEF SlotInv, Holds, Occupied, Dist, PopPublish, pushVars, TypeOK, Slots
  <2>4. CallInv'
    BY <1>0, <1>8 DEF CallInv, PopPublish, pushVars, Succ
  <2>5. QED
    BY <1>0, <2>2, <2>3, <2>4
<1>9. CASE UNCHANGED vars
  BY <1>0, <1>9 DEF vars, pushVars, popVars, IndexInv, SlotInv, CallInv, Holds, Occupied, Dist, Succ
<1>10. QED
  BY <1>1, <1>2, <1>3, <1>4, <1>5, <1>6, <1>7, <1>8, <1>9 DEF Next, Push, Pop

LEMMA InvCorrect == Spec => []IInv
  BY IInvInit, IInvStep, PTL DEF Spec

-----------------------------------------------------------------------------
(* The network thread and the main thread never touch one slot at a time,  *)
(* so the plain memory of m_queue (queue.h:36 and 51) has no data race.    *)
THEOREM SlotRaceFreedom == Spec => []NoSlotRace
<1>1. IInv => NoSlotRace
  BY QueueAssumption DEF IInv, TypeOK, IndexInv, CallInv, NoSlotRace, Dist, Slots
<1>2. QED
  BY InvCorrect, <1>1, PTL

(* push() never overwrites a value not yet taken, and pop() never takes a  *)
(* slot not yet filled (queue.h:34 and 48).                                *)
THEOREM SlotDisciplineHolds == Spec => []SlotDiscipline
<1>1. IInv => SlotDiscipline
  <2> SUFFICES ASSUME IInv PROVE SlotDiscipline
    OBVIOUS
  <2>1. ASSUME pushing = "write" PROVE m_queue[m_tail] = Blank
    BY <2>1, QueueAssumption DEF IInv, TypeOK, SlotInv, Holds, Occupied, Dist, Slots
  <2>2. ASSUME popping = "take" PROVE m_queue[m_head] # Blank
    <3>1. m_head # m_tail
      BY <2>2, QueueAssumption DEF IInv, TypeOK, IndexInv, CallInv, Dist, Slots
    <3>2. QED
      BY <2>2, <3>1, QueueAssumption DEF IInv, TypeOK, SlotInv, Holds, Occupied, Dist, Slots
  <2>3. QED
    BY <2>1, <2>2 DEF SlotDiscipline
<1>2. QED
  BY InvCorrect, <1>1, PTL

-----------------------------------------------------------------------------
(* The refinement. *)

(* The k-th value's slot is one of the ring's, at distance k - 1.          *)
LEMMA PlaceInRing ==
  ASSUME TypeOK, NEW k \in 1 .. Occupied
  PROVE  /\ Place(k) \in Slots
         /\ Dist(m_head, Place(k)) = k - 1
         /\ Place(k) # m_tail
         /\ Place(k) = m_head <=> k = 1
  BY QueueAssumption DEF TypeOK, Occupied, Dist, Place, Slots

LEMMA ContentsIsSeq ==
  ASSUME IInv
  PROVE  /\ Occupied \in 0 .. Capacity - 1
         /\ Contents \in [1 .. Occupied -> Values]
         /\ Contents \in Seq(Values)
         /\ Len(Contents) = Occupied
<1>1. Occupied \in 0 .. Capacity - 1
  BY QueueAssumption DEF IInv, TypeOK, Occupied, Dist, Slots
<1>2. ASSUME NEW k \in 1 .. Occupied PROVE Contents[k] \in Values
  <2>1. CASE k = 1 /\ popping = "publish"
    BY <1>2, <2>1 DEF IInv, CallInv, Contents
  <2>2. CASE ~(k = 1 /\ popping = "publish")
    <3>1. Contents[k] = m_queue[Place(k)]
      BY <2>2 DEF Contents
    <3>2. Holds(Place(k))
      BY <1>1, <2>2, PlaceInRing DEF IInv, Holds
    <3>3. QED
      BY <3>1, <3>2, PlaceInRing DEF IInv, SlotInv, TypeOK
  <2>3. QED
    BY <2>1, <2>2
<1>3. Contents \in [1 .. Occupied -> Values]
  BY <1>2 DEF Contents
<1>4. QED
  BY <1>1, <1>3, LenProperties, SeqDef

LEMMA InitRefines == Init => Fifo!Init
<1> SUFFICES ASSUME Init PROVE Fifo!Init
  OBVIOUS
<1>1. Occupied = 0
  BY DEF Init, Occupied, Dist
<1>2. Contents = <<>>
  BY <1>1, IInvInit, ContentsIsSeq, EmptySeq
<1>3. QED
  BY <1>2 DEF Init, Fifo!Init

(* A step that leaves the indices and the occupied slots alone leaves the  *)
(* buffer alone.                                                           *)
LEMMA ContentsUnchanged ==
  ASSUME UNCHANGED <<m_head, m_tail>>,
         \A k \in 1 .. Occupied : Contents'[k] = Contents[k]
  PROVE  UNCHANGED Contents
<1>1. Occupied' = Occupied
  BY DEF Occupied, Dist
<1>2. Contents = [k \in 1 .. Occupied |-> Contents[k]]
  BY DEF Contents
<1>3. Contents' = [k \in 1 .. Occupied |-> Contents'[k]]
  BY <1>1 DEF Contents
<1>4. QED
  BY <1>2, <1>3

(* Slots outside the buffer do not show in it.                             *)
LEMMA ContentsAt ==
  ASSUME NEW k \in 1 .. Occupied
  PROVE  Contents[k] = IF k = 1 /\ popping = "publish" THEN out ELSE m_queue[Place(k)]
  BY DEF Contents

LEMMA FunctionIsSeq ==
  ASSUME NEW S, NEW n \in Nat, NEW f \in [1 .. n -> S]
  PROVE  f \in Seq(S) /\ Len(f) = n
  BY LenProperties, SeqDef

(* Storing the tail appends the value just written.                        *)
LEMMA PublishAppends ==
  ASSUME IInv, PushPublish
  PROVE  /\ m_queue[m_tail] \in Values
         /\ Len(Contents) < Capacity - 1
         /\ Contents' = Append(Contents, m_queue[m_tail])
<1> DEFINE v == m_queue[m_tail]
<1>1. /\ Succ(m_tail) = IF m_tail + 1 = Capacity THEN 0 ELSE m_tail + 1
      /\ seen_head # Succ(m_tail)
      /\ TypeOK
  BY SuccIsWrap DEF IInv, TypeOK, PushPublish, CallInv
<1>2. v \in Values
  BY DEF IInv, TypeOK, SlotInv, Holds, PushPublish
<1>3. Occupied \in Nat /\ Occupied < Capacity - 1 /\ Occupied' = Occupied + 1
  BY <1>1, QueueAssumption DEF IInv, IndexInv, TypeOK, Slots, PushPublish, Occupied, Dist
<1>4. m_head # m_tail \/ popping # "publish"
  BY <1>1, QueueAssumption DEF IInv, IndexInv, CallInv, TypeOK, Slots, Dist
<1>5. ASSUME NEW k \in 1 .. Occupied PROVE Contents'[k] = Contents[k]
  BY <1>3, <1>5 DEF PushPublish, popVars, Contents, Place
<1>6. Place(Occupied + 1) = m_tail
  BY <1>1, QueueAssumption DEF TypeOK, Slots, Occupied, Dist, Place
<1>7. Occupied + 1 = 1 => popping # "publish"
  BY <1>1, <1>3, <1>4, QueueAssumption DEF TypeOK, Slots, Occupied, Dist
<1>8. Contents'[Occupied + 1] = v
  <2>1. Contents'[Occupied + 1]
          = IF Occupied + 1 = 1 /\ popping = "publish" THEN out ELSE m_queue[Place(Occupied + 1)]
    BY <1>3 DEF PushPublish, popVars, Contents, Place
  <2>2. QED
    BY <2>1, <1>6, <1>7
<1>9. Contents \in Seq(Values) /\ Len(Contents) = Occupied
  BY ContentsIsSeq
<1>10. Contents' \in Seq(Values) /\ Len(Contents') = Occupied + 1
  <2>1. ASSUME NEW k \in 1 .. Occupied + 1 PROVE Contents'[k] \in Values
    <3>1. CASE k \in 1 .. Occupied
      BY <1>5, <3>1, ContentsIsSeq
    <3>2. CASE k = Occupied + 1
      BY <1>2, <1>8, <3>2
    <3>3. QED
      BY <1>3, <3>1, <3>2
  <2>2. Contents' = [k \in 1 .. Occupied + 1 |-> Contents'[k]]
    BY <1>3 DEF Contents
  <2>3. Contents' \in [1 .. Occupied + 1 -> Values]
    BY <2>1, <2>2
  <2>4. QED
    BY <1>3, <2>3, FunctionIsSeq
<1>11. Contents' = Append(Contents, v)
  <2>1. \A i \in 1 .. Len(Contents') : Contents'[i] = Append(Contents, v)[i]
    BY <1>2, <1>3, <1>5, <1>8, <1>9, <1>10, AppendProperties
  <2>2. QED
    BY <1>2, <1>9, <1>10, <2>1, AppendProperties, SeqEqual
<1>12. QED
  BY <1>2, <1>3, <1>9, <1>11

(* Storing the head removes the first value, which out then holds.         *)
LEMMA PublishRemoves ==
  ASSUME IInv, PopPublish
  PROVE  /\ Contents # <<>>
         /\ out = Head(Contents)
         /\ Contents' = Tail(Contents)
<1>1. /\ Succ(m_head) = IF m_head + 1 = Capacity THEN 0 ELSE m_head + 1
      /\ seen_tail # m_head
      /\ TypeOK
  BY SuccIsWrap DEF IInv, TypeOK, PopPublish, CallInv
<1>2. Occupied \in Nat \ {0} /\ Occupied' = Occupied - 1
  BY <1>1, QueueAssumption DEF IInv, IndexInv, TypeOK, Slots, PopPublish, Occupied, Dist
<1>3. Contents \in Seq(Values) /\ Len(Contents) = Occupied
  BY ContentsIsSeq
<1>4. Contents # <<>>
  BY <1>2, <1>3, EmptySeq
<1>5. out = Head(Contents)
  <2>1. Contents[1] = out
    BY <1>2 DEF PopPublish, Contents
  <2>2. QED
    BY <1>2, <1>3, <2>1
<1>6. ASSUME NEW k \in 1 .. Occupied - 1 PROVE Contents'[k] = Contents[k + 1]
  <2>1. k \in 1 .. Occupied' /\ k + 1 \in 1 .. Occupied /\ k + 1 # 1
    BY <1>2
  <2>2. Place(k)' = Place(k + 1)
    <3>1. m_head \in 0 .. Capacity - 1 /\ k \in Nat \ {0} /\ k + 1 <= Capacity - 1
      BY <1>1, <1>2, <1>6, QueueAssumption DEF TypeOK, Slots, Occupied, Dist
    <3>2. m_head' = IF m_head + 1 = Capacity THEN 0 ELSE m_head + 1
      BY <1>1 DEF PopPublish
    <3>3. QED
      BY <3>1, <3>2, QueueAssumption DEF Place
  <2>3. Contents'[k] = m_queue[Place(k)']
    BY <2>1 DEF PopPublish, Contents
  <2>4. Contents[k + 1] = m_queue[Place(k + 1)]
    BY <2>1 DEF Contents
  <2>5. QED
    BY <2>2, <2>3, <2>4
<1>7. Contents' \in Seq(Values) /\ Len(Contents') = Occupied - 1
  <2>1. ASSUME NEW k \in 1 .. Occupied - 1 PROVE Contents'[k] \in Values
    BY <1>2, <1>6, <2>1, ContentsIsSeq
  <2>2. Contents' = [k \in 1 .. Occupied - 1 |-> Contents'[k]]
    BY <1>2 DEF Contents
  <2>3. Contents' \in [1 .. Occupied - 1 -> Values]
    BY <2>1, <2>2
  <2>4. QED
    BY <1>2, <2>3, FunctionIsSeq
<1>8. Contents' = Tail(Contents)
  <2>1. \A i \in 1 .. Len(Contents') : Contents'[i] = Tail(Contents)[i]
    BY <1>2, <1>3, <1>4, <1>6, <1>7, HeadTailProperties
  <2>2. QED
    BY <1>2, <1>3, <1>4, <1>7, <2>1, HeadTailProperties, SeqEqual
<1>9. QED
  BY <1>4, <1>5, <1>8

LEMMA StepRefines == IInv /\ [Next]_vars => [Fifo!Next]_(Fifo!fifoVars)
<1> SUFFICES ASSUME IInv, [Next]_vars PROVE [Fifo!Next]_(Fifo!fifoVars)
  OBVIOUS
<1> USE DEF Fifo!Next, Fifo!fifoVars
<1>1. ASSUME NEW v \in Values, PushBegin(v) PROVE UNCHANGED Fifo!fifoVars
  BY <1>1 DEF PushBegin, popVars, Contents, Occupied, Dist, Place
<1>2. CASE PushFull
  <2>1. UNCHANGED Contents
    BY <1>2 DEF PushFull, popVars, Contents, Occupied, Dist, Place
  <2>2. Len(Contents) = Capacity - 1 \/ StaleLoads
    <3>1. CASE StaleLoads
      BY <3>1
    <3>2. CASE ~StaleLoads
      <4>1. m_head = Succ(m_tail)
        BY <1>2, <3>2 DEF PushFull, Visible
      <4>2. Occupied = Capacity - 1
        BY <4>1, SuccIsWrap, QueueAssumption DEF IInv, TypeOK, Occupied, Dist, Slots
      <4>3. QED
        BY <4>2, ContentsIsSeq
    <3>3. QED
      BY <3>1, <3>2
  <2>3. Fifo!Refuse
    BY <1>2, <2>1, <2>2 DEF Fifo!Refuse, PushFull, popVars
  <2>4. QED
    BY <2>3
<1>3. CASE PushWrite
  <2>1. ASSUME NEW k \in 1 .. Occupied PROVE Contents'[k] = Contents[k]
    BY <1>3, <2>1, PlaceInRing DEF IInv, TypeOK, PushWrite, popVars, Contents, Occupied, Dist, Place
  <2>2. UNCHANGED Contents
    BY <1>3, <2>1, ContentsUnchanged DEF PushWrite
  <2>3. QED
    BY <1>3, <2>2 DEF PushWrite, popVars
<1>4. CASE PushPublish
  <2>1. Fifo!Put(m_queue[m_tail])
    BY <1>4, PublishAppends DEF Fifo!Put, PushPublish, popVars
  <2>2. QED
    BY <1>4, <2>1, PublishAppends
<1>5. CASE PopBegin
  BY <1>5 DEF PopBegin, pushVars, Contents, Occupied, Dist, Place
<1>6. CASE PopEmpty
  <2>1. UNCHANGED Contents
    BY <1>6 DEF PopEmpty, pushVars, Contents, Occupied, Dist, Place
  <2>2. Contents = <<>> \/ StaleLoads
    <3>1. CASE StaleLoads
      BY <3>1
    <3>2. CASE ~StaleLoads
      <4>1. Occupied = 0
        BY <1>6, <3>2 DEF IInv, TypeOK, PopEmpty, Visible, Occupied, Dist, Slots
      <4>2. QED
        BY <4>1, ContentsIsSeq, EmptySeq
    <3>3. QED
      BY <3>1, <3>2
  <2>3. Fifo!Miss
    BY <1>6, <2>1, <2>2 DEF Fifo!Miss, PopEmpty, pushVars
  <2>4. QED
    BY <2>3
<1>7. CASE PopTake
  <2>1. ASSUME NEW k \in 1 .. Occupied PROVE Contents'[k] = Contents[k]
    BY <1>7, <2>1, PlaceInRing DEF IInv, TypeOK, PopTake, pushVars, Contents, Occupied, Dist, Place
  <2>2. UNCHANGED Contents
    BY <1>7, <2>1, ContentsUnchanged DEF PopTake
  <2>3. QED
    BY <1>7, <2>2 DEF PopTake, pushVars
<1>8. CASE PopPublish
  <2>1. Fifo!Get
    BY <1>8, PublishRemoves DEF Fifo!Get, PopPublish, pushVars
  <2>2. QED
    BY <2>1
<1>9. CASE UNCHANGED vars
  BY <1>9 DEF vars, pushVars, popVars, Contents, Occupied, Dist, Place
<1>10. QED
  BY <1>1, <1>2, <1>3, <1>4, <1>5, <1>6, <1>7, <1>8, <1>9 DEF Next, Push, Pop

(* The ring buffer is a bounded FIFO: whatever the capacity, the values    *)
(* and the interleaving, pop() hands out exactly what push() accepted, in  *)
(* the order it was accepted (queue.h:29-56).                              *)
THEOREM RefinesFifo == Spec => ImplementsFifo
<1>1. Init => Fifo!Init
  BY InitRefines
<1>2. IInv /\ [Next]_vars => [Fifo!Next]_(Fifo!fifoVars)
  BY StepRefines
<1>3. QED
  BY <1>1, <1>2, InvCorrect, PTL DEF Spec, ImplementsFifo, Fifo!Spec

=============================================================================
