---------------------------- MODULE PsAppProofs ----------------------------
(***************************************************************************)
(* The safety properties of PsApp, for any number of layers, rooms,        *)
(* challenges, lines and requests, and queues of any capacity that PsApp   *)
(* allows: the invariant IInv of PsAppLemmas holds at the start and after  *)
(* every step.                                                             *)
(***************************************************************************)
EXTENDS PsAppLemmas

-----------------------------------------------------------------------------
(* The stack and the event queue. *)

StackInv ==
  /\ Shape /\ QueueShape /\ LoopInv
  /\ CommandReachesReader /\ PopsAreLive /\ NoInputLost /\ RoomInQueue

(* How a step that leaves the stack and the queue alone may move on *)
PcKept ==
  /\ pc' \in {"auth", "hung", "input"} => pc \in {"auth", "hung", "input"}
  /\ pc' = "start" => pc = "start"
  /\ pc' \in {"stop", "stuck", "exit", "done"} => ~m_running
  /\ pc' = "net" => m_running
  /\ pc' # "done" => pc # "done"
  /\ pc' = "input" => pc = "input"

LEMMA SameStackInv ==
  ASSUME StackInv, PcKept,
         UNCHANGED <<m_running, m_event_queue, m_username, m_password, lost>>,
         UNCHANGED stackVars
  PROVE  StackInv'
<1>1. /\ Top' = Top /\ UNCHANGED <<m_layers, m_layer_iterator_offset, overlays, obj>>
      /\ \A kind : TopIs(kind)' <=> TopIs(kind)
  BY DEF Top, stackVars, vectorVars, TopIs
<1>2. Shape'
  BY <1>1 DEF StackInv, Shape
<1>3. QueueShape'
  <2>1. SUFFICES ASSUME m_running
                 PROVE  /\ pc' \in {"auth", "hung", "input"} => m_event_queue = <<>>
                        /\ \A i \in 1 .. Len(m_event_queue) :
                             EventFits(m_event_queue[i], i, Len(m_event_queue))'
    BY <1>1 DEF QueueShape
  <2>2. pc' \in {"auth", "hung", "input"} => m_event_queue = <<>>
    BY <2>1 DEF StackInv, QueueShape, PcKept
  <2>3. \A i \in 1 .. Len(m_event_queue) :
          EventFits(m_event_queue[i], i, Len(m_event_queue))
    BY <2>1 DEF StackInv, QueueShape
  <2>4. QED
    BY <1>1, <2>2, <2>3 DEF EventFits, Gone
<1>4. LoopInv' /\ CommandReachesReader' /\ PopsAreLive' /\ NoInputLost' /\ RoomInQueue'
  BY <1>1 DEF StackInv, PcKept, LoopInv, CommandReachesReader, PopsAreLive, NoInputLost,
     RoomInQueue
<1>5. QED
  BY <1>2, <1>3, <1>4 DEF StackInv

(* The stack stays, whatever its layers make of an event. *)
KindsKept ==
  /\ UNCHANGED vectorVars
  /\ \A l \in LayerIds : /\ obj'[l].kind = obj[l].kind
                         /\ l \notin ToSet(m_layers) => obj'[l] = obj[l]

LEMMA KeepsTop ==
  ASSUME StackFacts, KindsKept
  PROVE  /\ UNCHANGED <<m_layers, overlays>> /\ Top' = Top
         /\ \A kind : TopIs(kind)' <=> TopIs(kind)
<1>1. UNCHANGED <<m_layers, overlays>> /\ Top' = Top
  BY DEF KindsKept, vectorVars, Top
<1>2. m_layers # <<>> => obj'[Top].kind = obj[Top].kind
  BY DEF KindsKept, StackFacts
<1>3. QED
  BY <1>1, <1>2 DEF TopIs

LEMMA KeepsShape ==
  ASSUME Shape, StackFacts, KindsKept,
         m_running /\ Queued("LayerPush") # {} => UNCHANGED <<m_event_queue, m_running>>
  PROVE  Shape'
<1>1. UNCHANGED <<m_layers, overlays>> /\ Top' = Top
  BY KeepsTop
<1>2. m_layers \in Seq(LayerIds) /\ ToSet(m_layers) \subseteq LayerIds
      /\ ToSet(m_layers) = {m_layers[i] : i \in 1 .. Len(m_layers)}
  BY DEF StackFacts
<1>3. \A l \in LayerIds : /\ obj'[l].kind = obj[l].kind
                          /\ l \notin ToSet(m_layers) => obj'[l] = obj[l]
  BY DEF KindsKept
<1>4. \A l \in ToSet(m_layers) : obj'[l].kind = obj[l].kind
  BY <1>2, <1>3
<1>5. \A i \in 1 .. Len(m_layers) : obj'[m_layers[i]].kind = obj[m_layers[i]].kind
  BY <1>2, <1>4
<1>6. /\ Len(m_layers') <= 2
      /\ \A i \in 1 .. Len(m_layers') : obj'[m_layers'[i]].kind # "free"
      /\ Len(m_layers') = 2 =>
           obj'[m_layers'[1]].kind = "menu" /\ obj'[m_layers'[2]].kind # "menu"
  BY <1>1, <1>5 DEF Shape
<1>7. overlays' \subseteq {l \in ToSet(m_layers') : l = Top' /\ obj'[l].kind # "menu"}
  BY <1>1, <1>4 DEF Shape
<1>8. ASSUME NEW l \in LayerIds \ ToSet(m_layers')
      PROVE  \/ obj'[l] = Free
             \/ /\ obj'[l] = Menu /\ m_running'
                /\ m_layers' = <<>> /\ m_event_queue' = <<LayerPush(l)>>
  <2>1. obj'[l] = obj[l] /\ l \notin ToSet(m_layers)
    BY <1>1, <1>3
  <2>2. \/ obj[l] = Free
        \/ /\ obj[l] = Menu /\ m_running
           /\ m_layers = <<>> /\ m_event_queue = <<LayerPush(l)>>
    BY <2>1 DEF Shape
  <2>3. m_event_queue = <<LayerPush(l)>> => Queued("LayerPush") # {}
    BY DEF Queued, LayerPush
  <2>4. QED
    BY <1>1, <2>1, <2>2, <2>3
<1>9. QED
  BY <1>6, <1>7, <1>8 DEF Shape

LEMMA FitsKept ==
  ASSUME StackFacts, KindsKept, UNCHANGED <<m_username, m_password>>,
         NEW e \in Events, NEW i, NEW n, EventFits(e, i, n)
  PROVE  EventFits(e, i, n)'
<1>1. /\ Top' = Top /\ UNCHANGED <<m_layers, m_layer_iterator_offset>>
      /\ \A kind : TopIs(kind)' <=> TopIs(kind)
  BY KeepsTop DEF KindsKept, vectorVars
<1>2. ASSUME e.type = "LayerPush"
      PROVE  obj'[e.layer] = Menu
  <2>1. e.layer \in LayerIds
    BY <1>2, EventFields
  <2>2. m_layers = <<>> /\ obj[e.layer] = Menu
    BY <1>2 DEF EventFits
  <2>3. ToSet(m_layers) = {}
    BY <2>2 DEF StackFacts
  <2>4. QED
    BY <2>1, <2>2, <2>3 DEF KindsKept
<1>3. ASSUME e.type = "LayerPop", Gone(e)
      PROVE  Gone(e)'
  <2>1. e.layer \in LayerIds /\ obj[e.layer] = Free /\ Free.kind = "free"
    BY <1>3, EventFields, NewLayers DEF Gone
  <2>2. e.layer \notin ToSet(m_layers)
    <3>1. CASE m_layers = <<>>
      BY <3>1 DEF StackFacts
    <3>2. CASE TopIs("menu")
      <4>1. Len(m_layers) = 1 /\ Top = m_layers[Len(m_layers)] /\ obj[Top].kind = "menu"
        BY <3>2 DEF StackFacts, TopIs
      <4>2. ToSet(m_layers) = {Top}
        BY <4>1 DEF StackFacts
      <4>3. QED
        BY <2>1, <4>1, <4>2
    <3>3. QED
      BY <1>3, <3>1, <3>2 DEF Gone
  <2>3. obj'[e.layer] = Free
    BY <2>1, <2>2 DEF KindsKept
  <2>4. QED
    BY <1>1, <1>3, <2>3 DEF Gone
<1>4. QED
  BY <1>1, <1>2, <1>3 DEF EventFits

(* An event on a stack with a battle on top fits whatever comes after it. *)
LEMMA FitsLonger ==
  ASSUME TopIs("battle"), NEW e, NEW i, NEW n, NEW k, EventFits(e, i, n)
  PROVE  EventFits(e, i, k)
  BY DEF EventFits, Gone, TopIs

(* What is left when the head is taken *)
LEMMA FitsBehind ==
  ASSUME NEW e \in Events, NEW n \in Nat, NEW i \in 2 .. n, EventFits(e, i, n), NEW k, NEW j
  PROVE  /\ EventFits(e, j, k)
         /\ e.type \notin {"LayerPush", "Login", "BattleSearch", "Command"}
         /\ e.type = "LayerPop" =>
              ~e.overlay /\ ((e.layer = Top /\ TopIs("battle")) \/ Gone(e))
  BY EventFields DEF EventFits

(* Every event of the queue fits the stack. *)
AllFit ==
  \A i \in 1 .. Len(m_event_queue) : EventFits(m_event_queue[i], i, Len(m_event_queue))

LEMMA AllFitAfter ==
  ASSUME StackFacts, KindsKept, UNCHANGED <<m_username, m_password>>, QueueTypes',
         \A i \in 1 .. Len(m_event_queue') :
           EventFits(m_event_queue'[i], i, Len(m_event_queue'))
  PROVE  AllFit'
<1>1. SUFFICES ASSUME NEW i \in 1 .. Len(m_event_queue')
               PROVE  EventFits(m_event_queue[i], i, Len(m_event_queue))'
  BY DEF AllFit
<1>2. m_event_queue' \in Seq(Events)
  BY DEF QueueTypes
<1>3. PICK e \in Events : e = m_event_queue'[i]
  BY <1>2
<1>4. PICK n \in Nat : n = Len(m_event_queue')
  BY <1>2
<1>5. EventFits(e, i, n)
  BY <1>3, <1>4
<1>6. EventFits(e, i, n)'
  BY <1>5, FitsKept
<1>7. QED
  BY <1>3, <1>4, <1>6 DEF EventFits

(* The queue after a step that leaves the stack: the same, its tail, or    *)
(* one longer                                                              *)
LEMMA SameFits ==
  ASSUME Types, AllFit, StackFacts, KindsKept, UNCHANGED <<m_username, m_password>>,
         UNCHANGED m_event_queue
  PROVE  AllFit'
<1>1. QueueTypes'
  BY TypeParts, SameQueueTypes DEF Types
<1>2. \A i \in 1 .. Len(m_event_queue') :
        EventFits(m_event_queue'[i], i, Len(m_event_queue'))
  BY DEF AllFit
<1>3. QED
  BY <1>1, <1>2, AllFitAfter

LEMMA TailFits ==
  ASSUME Types, AllFit, StackFacts, KindsKept, UNCHANGED <<m_username, m_password>>,
         m_event_queue # <<>>, m_event_queue' = Tail(m_event_queue), QueueTypes'
  PROVE  AllFit'
<1> DEFINE n == Len(m_event_queue)
<1>1. m_event_queue \in Seq(Events)
  BY DEF Types, TypeOK
<1>2. /\ m_event_queue' \in Seq(Events) /\ n \in Nat \ {0} /\ Len(m_event_queue') = n - 1
      /\ \A i \in 1 .. n - 1 : m_event_queue'[i] = m_event_queue[i + 1] /\ i + 1 \in 1 .. n
  BY <1>1, HeadTail
<1>3. \A i \in 1 .. n : EventFits(m_event_queue[i], i, n) /\ m_event_queue[i] \in Events
  BY <1>1 DEF AllFit
<1> HIDE DEF n
<1>4. ASSUME NEW i \in 1 .. n - 1
      PROVE  EventFits(m_event_queue'[i], i, n - 1)
  <2>1. i + 1 \in 2 .. n /\ i + 1 \in 1 .. n /\ n \in Nat
    BY <1>2
  <2>2. PICK e \in Events : e = m_event_queue[i + 1]
    BY <1>3, <2>1
  <2>3. EventFits(e, i + 1, n)
    BY <1>3, <2>1, <2>2
  <2>4. EventFits(e, i, n - 1)
    BY <2>1, <2>3, FitsBehind
  <2>5. QED
    BY <1>2, <2>2, <2>4
<1>5. QED
  BY <1>2, <1>4, AllFitAfter

LEMMA LongerFits ==
  ASSUME Types, AllFit, StackFacts, KindsKept, UNCHANGED <<m_username, m_password>>,
         TopIs("battle"), NEW x \in Events, EventFits(x, 2, 2),
         Submitted(m_event_queue, x), QueueTypes'
  PROVE  AllFit'
<1> DEFINE n == Len(m_event_queue)
<1>1. m_event_queue \in Seq(Events)
  BY DEF Types, TypeOK
<1>2. CASE m_event_queue' = m_event_queue
  BY <1>2, SameFits
<1>3. CASE m_event_queue' = Append(m_event_queue, x)
  <2>1. /\ n \in Nat /\ Len(m_event_queue') = n + 1
        /\ \A i \in 1 .. n : m_event_queue'[i] = m_event_queue[i]
        /\ m_event_queue'[n + 1] = x
    BY <1>1, <1>3, Appended
  <2>2. \A i \in 1 .. n : EventFits(m_event_queue[i], i, n)
    BY DEF AllFit
  <2> HIDE DEF n
  <2>3. ASSUME NEW i \in 1 .. n + 1
        PROVE  EventFits(m_event_queue'[i], i, n + 1)
    <3>1. CASE i \in 1 .. n
      <4>1. PICK e : e = m_event_queue[i]
        OBVIOUS
      <4>2. EventFits(e, i, n)
        BY <2>2, <3>1, <4>1
      <4>3. EventFits(e, i, n + 1)
        BY <4>2, FitsLonger
      <4>4. QED
        BY <2>1, <3>1, <4>1, <4>3
    <3>2. CASE i = n + 1
      <4>1. x.type \notin {"Command"} /\ (x.type = "LayerPop" => ~x.overlay)
            /\ x.type \notin {"LayerPush", "Login", "BattleSearch"}
        BY EventFields DEF EventFits, TopIs
      <4>2. EventFits(x, i, n + 1)
        BY <4>1 DEF EventFits
      <4>3. QED
        BY <2>1, <3>2, <4>2
    <3>3. QED
      BY <2>1, <3>1, <3>2
  <2>4. QED
    BY <2>1, <2>3, AllFitAfter
<1>4. QED
  BY <1>2, <1>3 DEF Submitted

(* Where the events of the new queue come from *)
LEMMA SubmittedEvents ==
  ASSUME NEW q \in Seq(Events), NEW x \in Events, Submitted(q, x)
  PROVE  \A i \in 1 .. Len(m_event_queue') :
           m_event_queue'[i] = x \/ \E j \in 1 .. Len(q) : m_event_queue'[i] = q[j]
<1>1. CASE m_event_queue' = q
  BY <1>1
<1>2. CASE m_event_queue' = Append(q, x)
  <2>1. /\ Len(q) \in Nat /\ Len(m_event_queue') = Len(q) + 1
        /\ \A i \in 1 .. Len(q) : m_event_queue'[i] = q[i]
        /\ m_event_queue'[Len(q) + 1] = x
    BY <1>2, Appended
  <2>2. \A i \in 1 .. Len(q) + 1 : i \in 1 .. Len(q) \/ i = Len(q) + 1
    BY <2>1
  <2>3. QED
    BY <2>1, <2>2
<1>3. QED
  BY <1>1, <1>2 DEF Submitted

(* Whoever read a line is still there, and so is what a pop is about, or   *)
(* it is gone for good.                                                    *)
LEMMA ReadersKept ==
  ASSUME CommandReachesReader, PopsAreLive, KindsKept, pc # "done",
         m_event_queue \in Seq(Events), QueueTypes', obj \in [LayerIds -> Layers],
         NEW q, \A j \in 1 .. Len(q) : \E k \in 1 .. Len(m_event_queue) : q[j] = m_event_queue[k],
         \A i \in 1 .. Len(m_event_queue') :
           \/ \E j \in 1 .. Len(q) : m_event_queue'[i] = q[j]
           \/ /\ m_event_queue'[i].type = "Command" => m_event_queue'[i].reader = Top
              /\ m_event_queue'[i].type = "LayerPop" => m_event_queue'[i].layer \in ToSet(m_layers)
  PROVE  CommandReachesReader' /\ PopsAreLive'
<1>1. Top' = Top /\ m_layers' = m_layers
  BY DEF Top, KindsKept, vectorVars
<1>2. \A i \in 1 .. Len(m_event_queue') :
        /\ m_event_queue'[i].type = "Command" => m_event_queue'[i].reader = Top
        /\ m_event_queue'[i].type = "LayerPop" =>
             \/ m_event_queue'[i].layer \in ToSet(m_layers)
             \/ Elsewhere /\ obj[m_event_queue'[i].layer] = Free
  <2>1. \A k \in 1 .. Len(m_event_queue) :
          /\ m_event_queue[k].type = "Command" => m_event_queue[k].reader = Top
          /\ m_event_queue[k].type = "LayerPop" =>
               \/ m_event_queue[k].layer \in ToSet(m_layers)
               \/ Elsewhere /\ obj[m_event_queue[k].layer] = Free
    BY DEF CommandReachesReader, PopsAreLive
  <2>2. QED
    BY <2>1
<1>3. ASSUME NEW i \in 1 .. Len(m_event_queue'), m_event_queue'[i].type = "LayerPop"
      PROVE  \/ m_event_queue'[i].layer \in ToSet(m_layers')
             \/ Elsewhere /\ obj'[m_event_queue'[i].layer] = Free
  <2>1. PICK e \in Events : e = m_event_queue'[i]
    BY DEF QueueTypes
  <2>2. e.layer \in LayerIds
    BY <1>3, <2>1, EventFields
  <2>3. CASE e.layer \in ToSet(m_layers)
    BY <1>1, <2>1, <2>3
  <2>4. CASE e.layer \notin ToSet(m_layers)
    <3>1. Elsewhere /\ obj[e.layer] = Free
      BY <1>2, <1>3, <2>1, <2>4
    <3>2. obj'[e.layer] = obj[e.layer]
      BY <2>2, <2>4 DEF KindsKept
    <3>3. QED
      BY <2>1, <3>1, <3>2
  <2>5. QED
    BY <2>3, <2>4
<1>4. QED
  BY <1>1, <1>2, <1>3 DEF CommandReachesReader, PopsAreLive

(* The event that pushes the menu is alone in the queue. *)
LEMMA PushIsAlone ==
  ASSUME Types, QueueShape, m_running, Queued("LayerPush") # {}
  PROVE  m_event_queue # <<>> /\ Head(m_event_queue).type = "LayerPush" /\ m_layers = <<>>
<1>1. PICK i \in 1 .. Len(m_event_queue) : m_event_queue[i].type = "LayerPush"
  BY DEF Queued
<1>2. Len(m_event_queue) = 1 /\ m_layers = <<>>
  BY <1>1 DEF QueueShape, EventFits
<1>3. m_event_queue \in Seq(Events)
  BY DEF Types, TypeOK
<1>4. m_event_queue # <<>> /\ Head(m_event_queue) = m_event_queue[1]
  <2>1. m_event_queue # <<>>
    BY <1>2
  <2>2. QED
    BY <1>3, <2>1, HeadTail
<1>5. i = 1
  BY <1>1, <1>2
<1>6. QED
  BY <1>1, <1>2, <1>4, <1>5

(* A battle takes an event: what it is stays. *)
LEMMA BattleTakes ==
  ASSUME Types, StackFacts, UNCHANGED vectorVars, NEW r \in Layers,
         obj' = IF TopIs("battle") THEN [obj EXCEPT ![Top] = r] ELSE obj,
         TopIs("battle") => r.kind = "battle"
  PROVE  KindsKept
<1>1. obj \in [LayerIds -> Layers]
  BY DEF Types, TypeOK
<1>2. CASE TopIs("battle")
  <2>1. Top \in ToSet(m_layers) /\ obj[Top].kind = "battle"
    BY <1>2 DEF TopIs, StackFacts
  <2>2. QED
    BY <1>1, <1>2, <2>1 DEF KindsKept
<1>3. CASE ~TopIs("battle")
  BY <1>3 DEF KindsKept
<1>4. QED
  BY <1>2, <1>3

LEMMA MessageKinds ==
  ASSUME Types, Shape, ProcessMessage
  PROVE  KindsKept /\ StackFacts
<1>1. StackFacts /\ obj \in [LayerIds -> Layers]
  BY StackIs DEF Types, TypeOK
<1>2. PICK m \in Messages : m = Head(m_inbound)
  BY MessageChanges
<1>3. obj' = IF TopIs("battle") THEN [obj EXCEPT ![Top] = BattleReacts(obj[Top], Message(m))]
             ELSE obj
  BY <1>2, MessageChanges
<1>4. UNCHANGED vectorVars
  BY DEF ProcessMessage
<1>5. CASE TopIs("battle")
  <2>1. Top \in LayerIds /\ obj[Top].kind = "battle"
    BY <1>1, <1>5 DEF TopIs, StackFacts
  <2>2. PICK b \in Layers : b = obj[Top]
    BY <1>1, <2>1
  <2>3. BattleReacts(b, Message(m)) \in Layers /\ BattleReacts(b, Message(m)).kind = "battle"
    BY <2>1, <2>2, ReactsToMessage
  <2>4. PICK r \in Layers : r = BattleReacts(b, Message(m)) /\ r.kind = "battle"
    BY <2>3
  <2>5. obj' = IF TopIs("battle") THEN [obj EXCEPT ![Top] = r] ELSE obj
    BY <1>3, <1>5, <2>2, <2>4
  <2>6. QED
    BY <1>1, <1>4, <2>4, <2>5, BattleTakes
<1>6. CASE ~TopIs("battle")
  BY <1>1, <1>3, <1>4, <1>6 DEF KindsKept
<1>7. QED
  BY <1>1, <1>5, <1>6

LEMMA CommandKinds ==
  ASSUME Types, Shape, PollCommand
  PROVE  KindsKept /\ StackFacts
<1>1. StackFacts /\ obj \in [LayerIds -> Layers]
  BY StackIs DEF Types, TypeOK
<1>2. PICK e \in Events : e = Head(m_event_queue) /\ e.type = "Command"
  BY CommandChanges
<1>3. obj' = IF TopIs("battle") THEN [obj EXCEPT ![Top] = BattleReacts(obj[Top], e)] ELSE obj
  BY <1>2, CommandChanges
<1>4. UNCHANGED vectorVars
  BY DEF PollCommand
<1>5. CASE TopIs("battle")
  <2>1. Top \in LayerIds /\ obj[Top].kind = "battle"
    BY <1>1, <1>5 DEF TopIs, StackFacts
  <2>2. PICK b \in Layers : b = obj[Top]
    BY <1>1, <2>1
  <2>3. BattleReacts(b, e) \in Layers /\ BattleReacts(b, e).kind = "battle"
    BY <1>2, <2>1, <2>2, ReactsToCommand
  <2>4. PICK r \in Layers : r = BattleReacts(b, e) /\ r.kind = "battle"
    BY <2>3
  <2>5. obj' = IF TopIs("battle") THEN [obj EXCEPT ![Top] = r] ELSE obj
    BY <1>3, <1>5, <2>2, <2>4
  <2>6. QED
    BY <1>1, <1>4, <2>4, <2>5, BattleTakes
<1>6. CASE ~TopIs("battle")
  BY <1>1, <1>3, <1>4, <1>6 DEF KindsKept
<1>7. QED
  BY <1>1, <1>5, <1>6

-----------------------------------------------------------------------------
(* Each action that changes the stack or the event queue keeps StackInv.   *)

LEMMA MessageStack ==
  ASSUME Types, StackInv, ProcessMessage
  PROVE  StackInv'
<1>1. /\ Shape /\ QueueShape /\ LoopInv /\ CommandReachesReader /\ PopsAreLive
      /\ NoInputLost /\ RoomInQueue
  BY DEF StackInv
<1>2. KindsKept /\ StackFacts
  BY <1>1, MessageKinds
<1>3. /\ pc = "net" /\ pc' = pc /\ m_running' = m_running
      /\ UNCHANGED <<m_username, m_password>> /\ UNCHANGED m_layers
  BY DEF ProcessMessage, Client!Poll, vectorVars
<1>4. Types' /\ QueueTypes'
  BY <1>1, MessageTypes, TypePartsAfter DEF Types
<1>5. /\ m_event_queue \in Seq(Events) /\ Len(m_event_queue) <= EventCap
      /\ obj \in [LayerIds -> Layers]
  BY DEF Types, TypeOK
<1>6. \/ UNCHANGED <<m_event_queue, lost>>
      \/ /\ TopIs("battle")
         /\ \E x \in {LayerPop(Top, FALSE), BattleJoin} \cap Events : Submitted(m_event_queue, x)
  <2>1. \/ UNCHANGED <<m_event_queue, lost>>
        \/ TopIs("battle") /\ Submitted(m_event_queue, LayerPop(Top, FALSE))
        \/ TopIs("battle") /\ Submitted(m_event_queue, BattleJoin)
    BY <1>1, MessageChanges
  <2>2. TopIs("battle") => LayerPop(Top, FALSE) \in Events
    BY <1>1, MessageChanges
  <2>3. QED
    BY <2>1, <2>2, EventsAre
<1>7. CASE UNCHANGED <<m_event_queue, lost>>
  <2>1. Shape'
    BY <1>1, <1>2, <1>3, <1>7, KeepsShape
  <2>2. QueueShape'
    <3>1. m_running => AllFit
      BY <1>1 DEF QueueShape, AllFit
    <3>2. m_running => AllFit'
      BY <1>2, <1>3, <1>7, <3>1, SameFits
    <3>3. QED
      BY <1>3, <3>2 DEF QueueShape, AllFit
  <2>3. CommandReachesReader' /\ PopsAreLive'
    BY <1>1, <1>2, <1>3, <1>4, <1>5, <1>7, ReadersKept
  <2>4. QED
    BY <1>1, <1>3, <1>7, <2>1, <2>2, <2>3 DEF StackInv, LoopInv, NoInputLost, RoomInQueue
<1>8. CASE /\ TopIs("battle")
           /\ \E x \in {LayerPop(Top, FALSE), BattleJoin} \cap Events : Submitted(m_event_queue, x)
  <2>1. PICK x \in {LayerPop(Top, FALSE), BattleJoin} \cap Events : Submitted(m_event_queue, x)
    BY <1>8
  <2>2. /\ x.type \in {"LayerPop", "BattleJoin"}
        /\ x.type = "LayerPop" => x.layer = Top /\ ~x.overlay
    BY <2>1 DEF LayerPop, BattleJoin
  <2>3. Top \in ToSet(m_layers) /\ m_layers # <<>>
    BY <1>2, <1>8 DEF TopIs, StackFacts
  <2>4. Shape'
    <3>1. ~(m_running /\ Queued("LayerPush") # {})
      BY <1>1, <2>3, PushIsAlone
    <3>2. QED
      BY <1>1, <1>2, <3>1, KeepsShape
  <2>5. QueueShape'
    <3>1. m_running => AllFit
      BY <1>1 DEF QueueShape, AllFit
    <3>2. EventFits(x, 2, 2)
      BY <1>8, <2>2 DEF EventFits
    <3>3. m_running => AllFit'
      BY <1>2, <1>3, <1>4, <1>8, <2>1, <3>1, <3>2, LongerFits
    <3>4. QED
      BY <1>3, <3>3 DEF QueueShape, AllFit
  <2>6. CommandReachesReader' /\ PopsAreLive'
    <3>1. \A i \in 1 .. Len(m_event_queue') :
            m_event_queue'[i] = x \/ \E j \in 1 .. Len(m_event_queue) : m_event_queue'[i] = m_event_queue[j]
      BY <1>5, <2>1, SubmittedEvents
    <3>2. QED
      BY <1>1, <1>2, <1>3, <1>4, <1>5, <2>2, <2>3, <3>1, ReadersKept
  <2>7. NoInputLost'
    BY <1>1, <2>1, <2>2 DEF NoInputLost, Submitted
  <2>8. QED
    BY <1>1, <1>3, <2>4, <2>5, <2>6, <2>7 DEF StackInv, LoopInv, RoomInQueue
<1>9. QED
  BY <1>6, <1>7, <1>8

(* The line at the head of the queue is alone there, but for what a battle *)
(* has submitted.                                                          *)
LEMMA HeadCommand ==
  ASSUME Types, QueueShape, Polling("Command")
  PROVE  /\ ~TopIs("battle") => Len(m_event_queue) = 1 /\ Tail(m_event_queue) = <<>>
         /\ Queued("LayerPush") = {}
<1>1. QueueTypes /\ m_event_queue # <<>> /\ m_running /\ Head(m_event_queue).type = "Command"
  BY TypeParts DEF Types, Polling
<1>2. 1 \in 1 .. Len(m_event_queue) /\ Head(m_event_queue) = m_event_queue[1]
  BY <1>1, HeadIsQueued
<1>3. ~TopIs("battle") => Len(m_event_queue) = 1
  BY <1>1, <1>2 DEF QueueShape, EventFits
<1>4. ASSUME Len(m_event_queue) = 1 PROVE Tail(m_event_queue) = <<>>
  <2>1. m_event_queue \in Seq(Events)
    BY <1>1 DEF QueueTypes
  <2>2. PICK rest \in Seq(Events) : rest = Tail(m_event_queue)
    BY <1>1, <2>1, HeadTail
  <2>3. Len(rest) = 0
    BY <1>1, <1>4, <2>1, <2>2, HeadTail
  <2>4. rest = <<>>
    BY <2>3
  <2>5. QED
    BY <2>2, <2>4
<1>5. QED
  BY <1>1, <1>3, <1>4, PushIsAlone

LEMMA CommandStack ==
  ASSUME Types, StackInv, PollCommand
  PROVE  StackInv'
<1>1. /\ Shape /\ QueueShape /\ LoopInv /\ CommandReachesReader /\ PopsAreLive
      /\ NoInputLost /\ RoomInQueue
  BY DEF StackInv
<1>2. KindsKept /\ StackFacts
  BY <1>1, CommandKinds
<1>3. /\ pc = "poll" /\ pc' = pc /\ m_running
      /\ UNCHANGED <<m_username, m_password>> /\ UNCHANGED m_layers
      /\ Polling("Command")
  BY DEF PollCommand, Polling, clientVars, vectorVars
<1>4. Types' /\ QueueTypes'
  BY <1>1, CommandTypes, TypePartsAfter DEF Types
<1> DEFINE e == Head(m_event_queue)
           rest == Tail(m_event_queue)
<1>5. /\ m_event_queue # <<>> /\ m_running' = (e.cmd # "q")
      /\ \/ m_event_queue' = rest /\ lost' = lost
         \/ TopIs("menu") /\ e.cmd = "1" /\ Submitted(rest, BattleSearch)
         \/ TopIs("menu") /\ e.cmd \in {"2", "3"} /\ Submitted(rest, LoginEvent)
         \/ TopIs("menu") /\ e.cmd = "q" /\ Submitted(rest, LayerPop(Top, FALSE))
      /\ TopIs("menu") => LayerPop(Top, FALSE) \in Events
  BY <1>1, CommandChanges
<1>6. (~TopIs("battle") => rest = <<>>) /\ Queued("LayerPush") = {}
  BY <1>1, <1>3, HeadCommand
<1>7. /\ m_event_queue \in Seq(Events) /\ obj \in [LayerIds -> Layers]
      /\ rest \in Seq(Events) /\ Len(rest) < EventCap
      /\ \A j \in 1 .. Len(rest) : \E k \in 1 .. Len(m_event_queue) : rest[j] = m_event_queue[k]
  <2>1. m_event_queue \in Seq(Events) /\ obj \in [LayerIds -> Layers]
    BY DEF Types, TypeOK
  <2>2. /\ Len(m_event_queue) \in Nat \ {0} /\ Len(rest) = Len(m_event_queue) - 1
        /\ \A i \in 1 .. Len(m_event_queue) - 1 :
             rest[i] = m_event_queue[i + 1] /\ i + 1 \in 1 .. Len(m_event_queue)
    BY <1>5, <2>1, HeadTail
  <2>3. rest \in Seq(Events) /\ Len(rest) < EventCap
    BY <1>5, TypeParts, TailTypes DEF Types
  <2>4. QED
    BY <2>1, <2>2, <2>3
<1> HIDE DEF e, rest
<1>8. Shape'
  BY <1>1, <1>2, <1>6, KeepsShape
<1>9. CASE m_event_queue' = rest /\ lost' = lost
  <2>1. QueueShape'
    <3>1. AllFit
      BY <1>1, <1>3 DEF QueueShape, AllFit
    <3>2. AllFit'
      BY <1>2, <1>3, <1>4, <1>5, <1>9, <3>1, TailFits DEF rest
    <3>3. QED
      BY <1>3, <3>2 DEF QueueShape, AllFit
  <2>2. CommandReachesReader' /\ PopsAreLive'
    BY <1>1, <1>2, <1>3, <1>4, <1>7, <1>9, ReadersKept
  <2>3. QED
    BY <1>1, <1>3, <1>8, <1>9, <2>1, <2>2 DEF StackInv, LoopInv, NoInputLost, RoomInQueue
<1>10. ASSUME TopIs("menu"), NEW x \in Events, Submitted(rest, x),
              x.type \in {"BattleSearch", "Login"} \/ (~m_running' /\ x.type = "LayerPop"),
              x.type = "LayerPop" => x.layer = Top
       PROVE  StackInv'
  <2>1. ~TopIs("battle") /\ Top \in ToSet(m_layers)
    BY <1>2, <1>10 DEF TopIs, StackFacts
  <2>2. rest = <<>> /\ m_event_queue' = <<x>> /\ lost' = lost
    BY <1>6, <1>7, <1>10, <2>1 DEF Submitted
  <2>3. QueueShape'
    <3>1. CASE ~m_running'
      BY <3>1 DEF QueueShape
    <3>2. CASE x.type \in {"BattleSearch", "Login"}
      <4>1. TopIs("menu")'
        BY <1>2, <1>10, KeepsTop
      <4>2. EventFits(x, 1, 1)'
        BY <3>2, <4>1 DEF EventFits
      <4>3. Len(m_event_queue') = 1 /\ m_event_queue'[1] = x
        BY <2>2
      <4>4. AllFit'
        BY <4>2, <4>3 DEF AllFit
      <4>5. QED
        BY <1>3, <4>4 DEF QueueShape, AllFit
    <3>3. QED
      BY <1>10, <3>1, <3>2
  <2>4. CommandReachesReader' /\ PopsAreLive'
    <3>1. \A i \in 1 .. Len(m_event_queue') : m_event_queue'[i] = x
      BY <2>2
    <3>2. QED
      BY <1>1, <1>2, <1>3, <1>4, <1>7, <1>10, <2>1, <3>1, ReadersKept
  <2>5. QED
    BY <1>1, <1>3, <1>8, <2>2, <2>3, <2>4 DEF StackInv, LoopInv, NoInputLost, RoomInQueue
<1>11. BattleSearch.type = "BattleSearch" /\ LoginEvent.type = "Login"
       /\ LayerPop(Top, FALSE).type = "LayerPop" /\ LayerPop(Top, FALSE).layer = Top
  BY DEF BattleSearch, LoginEvent, LayerPop
<1>12. CASE TopIs("menu") /\ e.cmd = "1" /\ Submitted(rest, BattleSearch)
  BY <1>10, <1>11, <1>12, EventsAre
<1>13. CASE TopIs("menu") /\ e.cmd \in {"2", "3"} /\ Submitted(rest, LoginEvent)
  BY <1>10, <1>11, <1>13, EventsAre
<1>14. CASE TopIs("menu") /\ e.cmd = "q" /\ Submitted(rest, LayerPop(Top, FALSE))
  <2> DEFINE p == LayerPop(Top, FALSE)
  <2>1. p \in Events /\ p.type = "LayerPop" /\ p.layer = Top /\ Submitted(rest, p) /\ ~m_running'
    BY <1>5, <1>11, <1>14
  <2> HIDE DEF p
  <2>2. QED
    BY <1>10, <1>14, <2>1
<1>15. QED
  BY <1>5, <1>9, <1>12, <1>13, <1>14

(* Nothing is left in the queue. *)
LEMMA EmptyQueue ==
  ASSUME m_event_queue' = <<>>
  PROVE  /\ QueueShape' /\ CommandReachesReader' /\ PopsAreLive'
         /\ EventCap \in Nat \ {0} => RoomInQueue'
<1>1. Len(m_event_queue') = 0 /\ 1 .. 0 = {}
  OBVIOUS
<1>2. QED
  BY <1>1 DEF QueueShape, CommandReachesReader, PopsAreLive, RoomInQueue

LEMMA LayerPushStack ==
  ASSUME Types, StackInv, PollLayerPush
  PROVE  StackInv'
<1>1. Shape /\ QueueShape /\ LoopInv /\ NoInputLost
  BY DEF StackInv
<1>2. PICK l \in LayerIds :
        /\ obj[l] = Menu /\ m_event_queue' = <<>>
        /\ m_layers = <<>> /\ m_layers' = <<l>> /\ overlays' = {}
  BY <1>1, LayerPushChanges
<1>3. /\ pc = "poll" /\ pc' = pc /\ m_running' = m_running /\ lost' = lost /\ obj' = obj
  BY DEF PollLayerPush, Polling
<1>4. ToSet(m_layers) = {} /\ ToSet(m_layers') = {l} /\ Len(m_layers') = 1 /\ m_layers'[1] = l
  BY <1>2 DEF ToSet
<1>5. Menu.kind = "menu" /\ Free.kind = "free"
  BY DEF Menu, Free
<1>6. m_event_queue = <<LayerPush(l)>>
  BY <1>1, <1>2, <1>4, <1>5 DEF Shape
<1>7. ASSUME NEW k \in LayerIds \ {l}
      PROVE  obj[k] = Free
  <2>1. m_event_queue # <<LayerPush(k)>>
    <3>1. <<LayerPush(l)>>[1].layer = l /\ <<LayerPush(k)>>[1].layer = k
      BY DEF LayerPush
    <3>2. QED
      BY <1>6, <3>1
  <2>2. QED
    BY <1>1, <1>4, <2>1 DEF Shape
<1>8. Shape'
  <2>1. \A i \in 1 .. Len(m_layers') : obj'[m_layers'[i]].kind # "free"
    BY <1>2, <1>3, <1>4, <1>5
  <2>2. QED
    BY <1>2, <1>3, <1>4, <1>7, <2>1 DEF Shape
<1>9. QED
  BY <1>1, <1>2, <1>3, <1>8, EmptyQueue, AppAssumption DEF StackInv, LoopInv, NoInputLost,
     RoomInQueue

LEMMA OpeningStack ==
  ASSUME Types, StackInv, PollLogin \/ PollBattleSearch
  PROVE  StackInv'
<1>1. Shape /\ QueueShape /\ LoopInv /\ NoInputLost
  BY DEF StackInv
<1>2. pc = "poll" /\ pc' = pc /\ m_running' = m_running /\ lost' = lost
  BY DEF PollLogin, PollBattleSearch, Polling
<1>3. \E l \in LayerIds, b \in Layers : b.kind \in {"login", "battle"} /\ Opens(l, b)
  BY <1>1, PollLoginChanges, SearchChanges, NewLayers
<1>4. PICK l \in LayerIds, b \in Layers : b.kind \in {"login", "battle"} /\ Opens(l, b)
  BY <1>3
<1>5. /\ obj' = [obj EXCEPT ![l] = b] /\ m_event_queue' = <<>> /\ overlays' = {l}
  BY <1>4 DEF Opens
<1>6. PICK x \in LayerIds \ {l} : m_layers = <<x>> /\ m_layers' = <<x, l>> /\ obj[x].kind = "menu"
  BY <1>4 DEF Opens
<1>7. /\ Len(m_layers') = 2 /\ m_layers'[1] = x /\ m_layers'[2] = l
      /\ ToSet(m_layers') = {x, l} /\ ToSet(m_layers) = {x}
  BY <1>6 DEF ToSet
<1>8. Top' = l
  BY <1>6, <1>7 DEF Top, Last
<1>9. obj \in [LayerIds -> Layers]
  BY DEF Types, TypeOK
<1>10. \A k \in LayerIds : obj'[k] = IF k = l THEN b ELSE obj[k]
  BY <1>5, <1>9
<1>11. Shape'
  <2>1. \A i \in 1 .. Len(m_layers') : obj'[m_layers'[i]].kind # "free"
    BY <1>4, <1>6, <1>7, <1>10
  <2>2. obj'[m_layers'[1]].kind = "menu" /\ obj'[m_layers'[2]].kind # "menu"
    BY <1>4, <1>6, <1>7, <1>10
  <2>3. \A k \in LayerIds \ ToSet(m_layers') : obj'[k] = Free
    <3>1. m_layers # <<>>
      BY <1>6
    <3>2. QED
      BY <1>1, <1>7, <1>10, <3>1 DEF Shape
  <2>4. overlays' \subseteq {k \in ToSet(m_layers') : k = Top' /\ obj'[k].kind # "menu"}
    BY <1>4, <1>5, <1>7, <1>8, <1>10
  <2>5. QED
    BY <1>7, <2>1, <2>2, <2>3, <2>4 DEF Shape
<1>12. QED
  BY <1>1, <1>2, <1>5, <1>11, EmptyQueue, AppAssumption DEF StackInv, LoopInv, NoInputLost,
     RoomInQueue

LEMMA LoginStack ==
  ASSUME Types, StackInv, LoginTaken
  PROVE  StackInv'
<1>1. Shape /\ QueueShape /\ LoopInv /\ NoInputLost /\ StackFacts
  BY StackIs DEF StackInv, Types
<1>2. /\ m_running /\ pc = "poll" /\ pc' \in {pc, "auth"} /\ TopIs("login") /\ Top \in LayerIds
      /\ m_event_queue' = Tail(m_event_queue)
      /\ \E n \in BOOLEAN : obj' = [obj EXCEPT ![Top].named = n]
  <2>1. Client!CanAsk \in BOOLEAN
    BY DEF Client!CanAsk
  <2>2. QED
    BY <1>1, <2>1, LoginChanges
<1>3. Polling("Command") /\ lost' = lost /\ UNCHANGED vectorVars
  BY DEF LoginTaken, LoginName, LoginPassword
<1>4. m_event_queue' = <<>> /\ Queued("LayerPush") = {}
  BY <1>1, <1>2, <1>3, HeadCommand DEF TopIs
<1>5. PICK n \in BOOLEAN : obj' = [obj EXCEPT ![Top].named = n]
  BY <1>2
<1>6. KindsKept
  <2>1. obj \in [LayerIds -> Layers]
    BY DEF Types, TypeOK
  <2>2. \A l \in LayerIds : obj'[l].kind = obj[l].kind /\ (l # Top => obj'[l] = obj[l])
    BY <1>2, <1>5, <2>1 DEF Layers
  <2>3. Top \in ToSet(m_layers)
    BY <1>1, <1>2 DEF TopIs, StackFacts
  <2>4. QED
    BY <1>3, <2>2, <2>3 DEF KindsKept
<1>7. Shape'
  BY <1>1, <1>4, <1>6, KeepsShape
<1>8. QED
  BY <1>1, <1>2, <1>3, <1>4, <1>7, EmptyQueue, AppAssumption DEF StackInv, LoopInv, NoInputLost,
     RoomInQueue

LEMMA JoinStack ==
  ASSUME Types, StackInv, PollBattleJoin
  PROVE  StackInv'
<1>1. /\ Shape /\ QueueShape /\ LoopInv /\ NoInputLost /\ StackFacts
      /\ CommandReachesReader /\ PopsAreLive
  BY StackIs DEF StackInv, Types
<1>2. /\ pc = "poll" /\ pc' = pc /\ m_running' = m_running /\ m_running /\ lost' = lost
      /\ m_event_queue # <<>> /\ m_event_queue' = Tail(m_event_queue)
      /\ Head(m_event_queue).type = "BattleJoin"
      /\ UNCHANGED <<m_username, m_password>> /\ KindsKept
  BY DEF PollBattleJoin, Polling, stackVars, clientVars, KindsKept
<1>3. QueueTypes'
  BY TakenTypes, TypePartsAfter DEF Types
<1>4. Queued("LayerPush") = {}
  BY <1>1, <1>2, PushIsAlone
<1>5. Shape'
  BY <1>1, <1>2, <1>4, KeepsShape
<1>6. QueueShape'
  <2>1. AllFit
    BY <1>1, <1>2 DEF QueueShape, AllFit
  <2>2. AllFit'
    BY <1>1, <1>2, <1>3, <2>1, TailFits
  <2>3. QED
    BY <1>2, <2>2 DEF QueueShape, AllFit
<1>7. CommandReachesReader' /\ PopsAreLive'
  <2>1. m_event_queue \in Seq(Events) /\ obj \in [LayerIds -> Layers]
    BY DEF Types, TypeOK
  <2>2. /\ Len(m_event_queue) \in Nat \ {0} /\ Len(m_event_queue') = Len(m_event_queue) - 1
        /\ \A i \in 1 .. Len(m_event_queue) - 1 :
             m_event_queue'[i] = m_event_queue[i + 1] /\ i + 1 \in 1 .. Len(m_event_queue)
    BY <1>2, <2>1, HeadTail
  <2>3. \A i \in 1 .. Len(m_event_queue') :
          \E j \in 1 .. Len(m_event_queue) : m_event_queue'[i] = m_event_queue[j]
    BY <2>2
  <2>4. QED
    BY <1>1, <1>2, <1>3, <2>1, <2>3, ReadersKept
<1>8. QED
  BY <1>1, <1>2, <1>5, <1>6, <1>7 DEF StackInv, LoopInv, NoInputLost, RoomInQueue

(* The login server has answered: the overlay is to go, or starts over. *)
LEMMA AuthStack ==
  ASSUME Types, StackInv, NameInv, AuthSucceeds \/ AuthFails
  PROVE  StackInv'
<1>1. /\ Shape /\ QueueShape /\ LoopInv /\ NoInputLost /\ StackFacts
      /\ CommandReachesReader /\ PopsAreLive
  BY StackIs DEF StackInv, Types
<1>2. /\ pc = "auth" /\ pc' = "poll" /\ m_running' = m_running /\ UNCHANGED vectorVars
      /\ TopIs("login") /\ UNCHANGED m_layers
  BY DEF AuthSucceeds, AuthFails, authRest, NameInv, vectorVars
<1>3. Top \in LayerIds /\ Top \in ToSet(m_layers)
  BY <1>1, <1>2 DEF TopIs, StackFacts
<1>4. KindsKept
  <2>1. obj \in [LayerIds -> Layers]
    BY DEF Types, TypeOK
  <2>2. obj' = obj \/ obj' = [obj EXCEPT ![Top].named = FALSE]
    BY DEF AuthSucceeds, AuthFails
  <2>3. \A l \in LayerIds : obj'[l].kind = obj[l].kind /\ (l # Top => obj'[l] = obj[l])
    BY <1>3, <2>1, <2>2 DEF Layers
  <2>4. QED
    BY <1>2, <1>3, <2>3 DEF KindsKept
<1>5. m_running => m_event_queue = <<>>
  BY <1>1, <1>2 DEF QueueShape
<1>6. Shape'
  <2>1. m_event_queue = <<>> => Queued("LayerPush") = {}
    BY DEF Queued
  <2>2. QED
    BY <1>1, <1>4, <1>5, <2>1, KeepsShape
<1>7. CASE AuthFails
  <2>1. UNCHANGED <<m_event_queue, lost>>
    BY <1>7 DEF AuthFails
  <2>2. QueueShape'
    BY <1>2, <1>5, <2>1, EmptyQueue DEF QueueShape
  <2>3. m_event_queue \in Seq(Events) /\ QueueTypes' /\ obj \in [LayerIds -> Layers]
    BY <2>1 DEF Types, TypeOK, QueueTypes
  <2>4. CommandReachesReader' /\ PopsAreLive'
    BY <1>1, <1>2, <1>4, <2>1, <2>3, ReadersKept
  <2>5. QED
    BY <1>1, <1>2, <1>6, <2>1, <2>2, <2>4 DEF StackInv, LoopInv, NoInputLost, RoomInQueue
<1>8. CASE AuthSucceeds
  <2>0. PICK p \in Events : p = LayerPop(Top, TRUE)
    BY <1>3, EventsAre
  <2>1. p \in Events /\ p.type = "LayerPop" /\ p.layer = Top /\ p.overlay
    BY <2>0 DEF LayerPop
  <2>2. Submit(m_event_queue, <<p>>) /\ m_username' = None /\ m_password' = None
    BY <1>8, <2>0 DEF AuthSucceeds, Client!LoggedIn
  <2>3. /\ m_event_queue \in Seq(Events) /\ Len(m_event_queue) <= EventCap
        /\ obj \in [LayerIds -> Layers]
    BY DEF Types, TypeOK
  <2>4. Submitted(m_event_queue, p) /\ QueueTypes'
    BY <2>1, <2>2, <2>3, SubmitOne, SubmittedTypes
  <2>5. QueueShape'
    <3>1. SUFFICES ASSUME m_running PROVE AllFit'
      BY <1>2 DEF QueueShape, AllFit
    <3>2. m_event_queue = <<>>
      BY <1>5, <3>1
    <3>3. m_event_queue' = <<p>>
      BY <2>4, <3>2, AppAssumption DEF Submitted
    <3>4. TopIs("login")' /\ Top' = Top
      BY <1>1, <1>2, <1>4, KeepsTop
    <3>5. EventFits(p, 1, 1)'
      BY <2>1, <2>2, <3>4 DEF EventFits
    <3>6. Len(m_event_queue') = 1 /\ m_event_queue'[1] = p
      BY <3>3
    <3>7. QED
      BY <3>5, <3>6 DEF AllFit
  <2>6. CommandReachesReader' /\ PopsAreLive'
    <3>1. \A i \in 1 .. Len(m_event_queue') :
            m_event_queue'[i] = p \/ \E j \in 1 .. Len(m_event_queue) : m_event_queue'[i] = m_event_queue[j]
      BY <2>1, <2>3, <2>4, SubmittedEvents
    <3>2. QED
      BY <1>1, <1>2, <1>3, <1>4, <2>1, <2>3, <2>4, <3>1, ReadersKept
  <2>7. NoInputLost'
    BY <1>1, <2>1, <2>4 DEF NoInputLost, Submitted
  <2>8. QED
    BY <1>1, <1>2, <1>6, <2>5, <2>6, <2>7 DEF StackInv, LoopInv, RoomInQueue
<1>9. QED
  BY <1>7, <1>8

LEMMA EndsStack ==
  ASSUME Types, StackInv, PollEnds
  PROVE  StackInv'
<1>1. /\ Shape /\ QueueShape /\ LoopInv /\ NoInputLost /\ StackFacts
      /\ CommandReachesReader /\ PopsAreLive
  BY StackIs DEF StackInv, Types
<1>2. /\ pc = "poll" /\ pc' = "input" /\ m_running' = m_running /\ lost' = lost
      /\ m_event_queue = <<>> \/ ~m_running
      /\ m_event_queue' = IF m_event_queue = <<>> THEN <<>> ELSE Tail(m_event_queue)
      /\ KindsKept /\ UNCHANGED m_layers
  BY DEF PollEnds, stackVars, KindsKept, vectorVars
<1>3. Shape'
  <2>1. m_event_queue = <<>> => Queued("LayerPush") = {}
    BY DEF Queued
  <2>2. QED
    BY <1>1, <1>2, <2>1, KeepsShape
<1>4. LoopInv' /\ NoInputLost'
  BY <1>1, <1>2 DEF LoopInv, NoInputLost
<1>5. CASE m_event_queue = <<>>
  BY <1>2, <1>3, <1>4, <1>5, EmptyQueue, AppAssumption DEF StackInv
<1>6. CASE m_event_queue # <<>>
  <2>1. ~m_running' /\ m_event_queue' = Tail(m_event_queue)
    BY <1>2, <1>6
  <2>2. /\ m_event_queue \in Seq(Events) /\ Len(m_event_queue) <= EventCap /\ EventCap \in Nat
        /\ obj \in [LayerIds -> Layers] /\ QueueTypes'
    BY TakenTypes, TypePartsAfter, AppAssumption DEF Types, TypeOK
  <2>3. /\ Len(m_event_queue) \in Nat \ {0} /\ Len(m_event_queue') = Len(m_event_queue) - 1
        /\ \A i \in 1 .. Len(m_event_queue) - 1 :
             m_event_queue'[i] = m_event_queue[i + 1] /\ i + 1 \in 1 .. Len(m_event_queue)
    BY <1>6, <2>1, <2>2, HeadTail
  <2>4. \A i \in 1 .. Len(m_event_queue') :
          \E j \in 1 .. Len(m_event_queue) : m_event_queue'[i] = m_event_queue[j]
    BY <2>3
  <2>5. CommandReachesReader' /\ PopsAreLive'
    BY <1>1, <1>2, <2>2, <2>4, ReadersKept
  <2>6. RoomInQueue'
    BY <2>2, <2>3 DEF RoomInQueue
  <2>7. QED
    BY <1>3, <1>4, <2>1, <2>5, <2>6 DEF StackInv, QueueShape
<1>7. QED
  BY <1>5, <1>6

(* A line always finds room in the queue. *)
LEMMA LineStack ==
  ASSUME Types, StackInv, NEW c \in Commands, ReadLine(c)
  PROVE  StackInv'
<1>1. /\ Shape /\ QueueShape /\ LoopInv /\ NoInputLost /\ StackFacts
      /\ CommandReachesReader /\ PopsAreLive /\ RoomInQueue
  BY StackIs DEF StackInv, Types
<1>2. /\ pc = "input" /\ pc' = "render" /\ m_running' = m_running
      /\ KindsKept /\ UNCHANGED m_layers
  BY DEF ReadLine, stackVars, KindsKept, vectorVars
<1>3. m_running => m_event_queue = <<>>
  BY <1>1, <1>2 DEF QueueShape
<1>4. Shape'
  <2>1. m_event_queue = <<>> => Queued("LayerPush") = {}
    BY DEF Queued
  <2>2. QED
    BY <1>1, <1>2, <1>3, <2>1, KeepsShape
<1> PICK x \in Events : x = Command(c)
  BY <1>1, LineChanges
<1>5. x \in Events /\ Submitted(m_event_queue, x) /\ x.type = "Command" /\ x.reader = Top
  BY <1>1, LineChanges DEF Command
<1>6. m_event_queue' = Append(m_event_queue, x) /\ lost' = lost
  BY <1>1, <1>2, <1>5 DEF Submitted, RoomInQueue
<1>7. /\ m_event_queue \in Seq(Events) /\ Len(m_event_queue) <= EventCap
      /\ obj \in [LayerIds -> Layers] /\ QueueTypes'
  BY <1>5, SubmittedTypes DEF Types, TypeOK
<1>8. QueueShape'
  <2>1. SUFFICES ASSUME m_running PROVE AllFit'
    BY <1>2 DEF QueueShape, AllFit
  <2>2. m_event_queue' = <<x>>
    BY <1>3, <1>6, <2>1
  <2>3. Top' = Top
    BY <1>2 DEF Top
  <2>4. EventFits(x, 1, 1)'
    BY <1>5, <2>3 DEF EventFits
  <2>5. Len(m_event_queue') = 1 /\ m_event_queue'[1] = x
    BY <2>2
  <2>6. QED
    BY <2>4, <2>5 DEF AllFit
<1>9. CommandReachesReader' /\ PopsAreLive'
  <2>1. \A i \in 1 .. Len(m_event_queue') :
          m_event_queue'[i] = x \/ \E j \in 1 .. Len(m_event_queue) : m_event_queue'[i] = m_event_queue[j]
    BY <1>5, <1>7, SubmittedEvents
  <2>2. QED
    BY <1>1, <1>2, <1>5, <1>7, <2>1, ReadersKept
<1>10. QED
  BY <1>1, <1>2, <1>4, <1>6, <1>8, <1>9 DEF StackInv, LoopInv, NoInputLost, RoomInQueue

(* ~PsApp: the stack is gone, and so are its layers. *)
LEMMA ExitStack ==
  ASSUME Types, StackInv, Exit
  PROVE  StackInv'
<1>1. Shape /\ LoopInv /\ NoInputLost
  BY DEF StackInv
<1>2. /\ pc = "exit" /\ pc' = "done" /\ m_running' = m_running /\ lost' = lost
      /\ obj' = [l \in LayerIds |-> IF l \in ToSet(m_layers) THEN Free ELSE obj[l]]
      /\ m_layers' = <<>> /\ overlays' = {}
  BY DEF Exit, Stack!Destroy, Stack!ToSet, ToSet, ghostVars
<1>3. ~m_running
  BY <1>1, <1>2 DEF LoopInv
<1>4. Len(m_layers') = 0
  BY <1>2
<1>5. \A l \in LayerIds : obj'[l] = Free
  BY <1>1, <1>2, <1>3 DEF Shape
<1>6. Shape'
  BY <1>2, <1>4, <1>5 DEF Shape
<1>7. QED
  BY <1>1, <1>2, <1>3, <1>6 DEF StackInv, QueueShape, LoopInv, CommandReachesReader, PopsAreLive,
     NoInputLost, RoomInQueue

-----------------------------------------------------------------------------
(* The steps that change neither the layers, nor the queues, nor the       *)
(* client, and those of the server.                                        *)

QuietStep ==
  \/ Start \/ StartUnresolved \/ NetworkDrained \/ ReadNothing \/ Render
  \/ Shutdown \/ CloseHangs
  \/ ConnectionLost \/ LoginServerHangs
  \/ UNCHANGED vars

LEMMA DrawnIsTyped ==
  ASSUME Types, Shape, m_layers # <<>>
  PROVE  Drawn(Top) \in [layer : LayerIds \cup {None},
                         kind : {"none", "menu", "login", "battle"}, moves : 0 .. MaxRequests]
<1>1. StackFacts
  BY StackIs DEF Types
<1>2. Top \in LayerIds /\ Top # None /\ obj[Top].kind \in {"menu", "login", "battle"}
  BY <1>1 DEF StackFacts
<1>3. obj[Top] \in Layers
  BY <1>2 DEF Types, TypeOK
<1>4. obj[Top].moves \in 0 .. MaxRequests
  BY <1>3, LayerFields
<1>5. QED
  BY <1>2, <1>4 DEF Drawn

LEMMA QuietSteps ==
  ASSUME Types, Shape, LoopInv, QuietStep
  PROVE  Quiet /\ LoopTypes' /\ PcKept
<1>1. LoopTypes
  BY TypeParts DEF Types
<1>2. CASE Start \/ StartUnresolved
  BY <1>1, <1>2 DEF Start, StartUnresolved, Quiet, LoopTypes, PcKept, ghostVars, LoopInv
<1>3. CASE NetworkDrained \/ ReadNothing
  BY <1>1, <1>3 DEF NetworkDrained, ReadNothing, Quiet, LoopTypes, PcKept, ghostVars
<1>4. CASE Render
  <2>1. /\ pc = "render" /\ pc' = IF m_running THEN "net" ELSE "stop"
        /\ Quiet /\ connected' = connected
        /\ \/ m_layers # <<>> /\ shown' = Drawn(Top) /\ m_dirty_ui' = FALSE
           \/ UNCHANGED <<shown, m_dirty_ui>>
    BY <1>4 DEF Render, Quiet, ghostVars
  <2>2. LoopTypes'
    BY <1>1, <2>1, DrawnIsTyped DEF LoopTypes, Quiet, ghostVars
  <2>3. QED
    BY <2>1, <2>2 DEF PcKept
<1>5. CASE Shutdown \/ CloseHangs
  BY <1>1, <1>5 DEF Shutdown, CloseHangs, Quiet, LoopTypes, PcKept, ghostVars, LoopInv
<1>6. CASE ConnectionLost
  BY <1>1, <1>6 DEF ConnectionLost, Quiet, LoopTypes, PcKept, ghostVars, LoopInv
<1>7. CASE LoginServerHangs
  BY <1>1, <1>7 DEF LoginServerHangs, Quiet, LoopTypes, PcKept, authRest, historyRest, stackVars,
     ghostVars
<1>8. CASE UNCHANGED vars
  BY <1>1, <1>8 DEF vars, Quiet, LoopTypes, PcKept, ghostVars, LoopInv
<1>9. QED
  BY <1>2, <1>3, <1>4, <1>5, <1>6, <1>7, <1>8 DEF QuietStep

LEMMA QuietStack ==
  ASSUME Types, StackInv, QuietStep
  PROVE  Types' /\ StackInv'
<1>1. Quiet /\ LoopTypes' /\ PcKept
  BY QuietSteps DEF StackInv
<1>2. QED
  BY <1>1, QuietTypes, SameStackInv DEF Quiet, clientVars, ghostVars

ServerStep ==
  \/ ServerGreets \/ ServerNames \/ ServerTalks
  \/ ServerFindsBattle \/ ServerStartsElsewhere \/ ServerRequests \/ ServerEndsBattle

(* What it sends that is no room and no end of a battle *)
SendsOther(m) ==
  /\ Deliver(m) /\ m.type \notin {"win", "updatesearch"}
  /\ UNCHANGED <<srv.search, srv.own, srv.others, srv.rooms>>

LEMMA ServerSteps ==
  ASSUME Types, ServerStep
  PROVE  /\ SrvOK'
         /\ (\E m \in Messages : SendsOther(m)) \/ SendsTalk \/ SendsBattle \/ SendsEnd
<1>1. SrvOK
  BY DEF Types
<1>2. CASE ServerGreets \/ ServerNames
  <2>1. CASE SendsChallenge
    <3>1. PICK c \in srv.chall :
            srv' = [srv EXCEPT !.chall = @ \ {c}] /\ Deliver(ChallMessage(c))
      BY <2>1 DEF SendsChallenge
    <3>2. c \in Challenges
      BY <1>1, <3>1 DEF SrvOK
    <3>3. PICK m \in Messages : m = ChallMessage(c)
      BY <3>2, MessagesAre
    <3>4. m.type = "challstr" /\ Deliver(m)
      BY <3>1, <3>3 DEF ChallMessage
    <3>5. SrvOK' /\ UNCHANGED <<srv.search, srv.own, srv.others, srv.rooms>>
      BY <1>1, <3>1 DEF SrvOK
    <3>6. QED
      BY <3>4, <3>5 DEF SendsOther
  <2>2. CASE SendsUser
    <3>1. PICK n \in BOOLEAN : /\ Deliver(UserMessage(n))
                               /\ \/ srv' = [srv EXCEPT !.guest = FALSE]
                                  \/ srv' = [srv EXCEPT !.trn = FALSE]
      BY <2>2 DEF SendsUser
    <3>2. PICK m \in Messages : m = UserMessage(n)
      BY MessagesAre
    <3>3. m.type = "updateuser" /\ Deliver(m)
      BY <3>1, <3>2 DEF UserMessage
    <3>4. SrvOK' /\ UNCHANGED <<srv.search, srv.own, srv.others, srv.rooms>>
      BY <1>1, <3>1 DEF SrvOK
    <3>5. QED
      BY <3>3, <3>4 DEF SendsOther
  <2>3. QED
    BY <1>2, <2>1, <2>2, GreetsOrNames
<1>3. CASE ServerTalks
  BY <1>1, <1>3, TalkIsSent DEF SendsTalk, SrvOK
<1>4. CASE ServerFindsBattle \/ ServerStartsElsewhere
  <2>1. SendsBattle
    BY <1>4, TalkIsSent
  <2>2. PICK r \in srv.rooms : Begins(r)
    BY <2>1 DEF SendsBattle
  <2>3. r \in Rooms /\ 0 \in 0 .. MaxRequests /\ srv.rooms \ {r} \in SUBSET Rooms
    BY <1>1, AppAssumption DEF SrvOK
  <2>4. srv.own \cup {r} \in SUBSET Rooms /\ srv.others \cup {r} \in SUBSET Rooms
    BY <1>1, <2>3 DEF SrvOK
  <2>5. SrvOK'
    BY <1>1, <2>2, <2>3, <2>4 DEF SrvOK, Begins
  <2>6. QED
    BY <2>1, <2>5
<1>5. CASE ServerRequests
  <2>1. PICK k \in Requests, n \in 0 .. MaxRequests :
          /\ srv' = [srv EXCEPT !.requests = @ + 1]
          /\ Deliver(Request(k, n))
    BY <1>5, RequestIsSent DEF SendsRequest
  <2>2. PICK m \in Messages : m = Request(k, n)
    BY MessagesAre
  <2>3. m.type = "request" /\ Deliver(m)
    BY <2>1, <2>2 DEF Request
  <2>4. srv.requests + 1 \in 0 .. MaxRequests
    BY <1>5, RequestIsSent
  <2>5. SrvOK' /\ UNCHANGED <<srv.search, srv.own, srv.others, srv.rooms>>
    BY <1>1, <2>1, <2>4 DEF SrvOK
  <2>6. QED
    BY <2>3, <2>5 DEF SendsOther
<1>6. CASE ServerEndsBattle
  <2>1. SendsEnd
    BY <1>6, TalkIsSent
  <2>2. PICK r \in srv.own \cup srv.others :
          srv' = [srv EXCEPT !.own = @ \ {r}, !.others = @ \ {r}]
    BY <2>1 DEF SendsEnd
  <2>3. srv.own \ {r} \in SUBSET Rooms /\ srv.others \ {r} \in SUBSET Rooms
    BY <1>1 DEF SrvOK
  <2>4. SrvOK'
    BY <1>1, <2>2, <2>3 DEF SrvOK
  <2>5. QED
    BY <2>1, <2>4
<1>7. QED
  BY <1>2, <1>3, <1>4, <1>5, <1>6 DEF ServerStep

LEMMA Delivers ==
  ASSUME Types, ServerStep
  PROVE  \E m \in Messages : Deliver(m)
<1>1. SrvOK /\ SrvOK'
  BY ServerSteps DEF Types
<1>2. CASE \E m \in Messages : SendsOther(m)
  BY <1>2 DEF SendsOther
<1>3. CASE SendsTalk
  <2>1. srv.own \cup srv.others \in SUBSET Rooms
    BY <1>1 DEF SrvOK
  <2>2. QED
    BY <1>3, <2>1, MessagesAre DEF SendsTalk
<1>4. CASE SendsBattle
  <2>1. srv'.own \cup srv'.others \in SUBSET Rooms
    BY <1>1 DEF SrvOK
  <2>2. QED
    BY <1>4, <2>1, MessagesAre DEF SendsBattle
<1>5. CASE SendsEnd
  BY <1>5, MessagesAre DEF SendsEnd
<1>6. QED
  BY <1>2, <1>3, <1>4, <1>5, ServerSteps

LEMMA ServerStack ==
  ASSUME Types, StackInv, ServerStep
  PROVE  Types' /\ StackInv'
<1>1. SrvOK'
  BY ServerSteps
<1>2. PICK m \in Messages : Deliver(m)
  BY Delivers
<1>3. /\ UNCHANGED <<pc, m_running, stackVars, m_event_queue, lost, m_username, m_password>>
  BY <1>2 DEF Deliver, Client!Receive, Client!credVars, ghostVars
<1>4. PcKept
  BY <1>3 DEF StackInv, LoopInv, PcKept
<1>5. QED
  BY <1>1, <1>2, <1>3, <1>4, DeliverTypes, SameStackInv
-----------------------------------------------------------------------------
(* Searches, battles, their ends and their rooms. *)

EndInv == OneEnd /\ MisledInv /\ RoomsInv

(* What goes out of a queue, and what comes in *)
LEMMA InboundTail ==
  ASSUME InboundTypes, m_inbound # <<>>, m_inbound' = Tail(m_inbound)
  PROVE  /\ \A type : \A i \in Inbound(type)' : i \in Nat /\ i + 1 \in Inbound(type)
         /\ \A i \in RoomMessages' :
              i \in Nat /\ i + 1 \in RoomMessages /\ m_inbound'[i] = m_inbound[i + 1]
         /\ 1 \in Inbound(Head(m_inbound).type)
         /\ NamesRoom(Head(m_inbound)) => 1 \in RoomMessages
         /\ m_inbound[1] = Head(m_inbound)
<1> DEFINE n == Len(m_inbound)
<1>1. m_inbound \in Seq(Messages)
  BY DEF InboundTypes
<1>2. /\ n \in Nat \ {0} /\ Len(m_inbound') = n - 1
      /\ \A i \in 1 .. n - 1 : m_inbound'[i] = m_inbound[i + 1] /\ i + 1 \in 1 .. n
      /\ Head(m_inbound) = m_inbound[1]
  BY <1>1, HeadTail
<1>3. \A type : \A i \in Inbound(type)' : i \in 1 .. n - 1 /\ m_inbound'[i].type = type
  BY <1>2 DEF Inbound
<1>4. \A i \in RoomMessages' : i \in 1 .. n - 1 /\ NamesRoom(m_inbound'[i])
  BY <1>2 DEF RoomMessages, NamesRoom
<1>5. 1 \in 1 .. n
  BY <1>2
<1>6. \A i \in 1 .. n - 1 : i \in Nat
  BY <1>2
<1> HIDE DEF n
<1>7. \A type : \A i \in Inbound(type)' : i \in Nat /\ i + 1 \in Inbound(type)
  BY <1>2, <1>3, <1>6 DEF Inbound, n
<1>8. \A i \in RoomMessages' :
        i \in Nat /\ i + 1 \in RoomMessages /\ m_inbound'[i] = m_inbound[i + 1]
  BY <1>2, <1>4, <1>6 DEF RoomMessages, NamesRoom, n
<1>9. QED
  BY <1>2, <1>5, <1>7, <1>8 DEF Inbound, RoomMessages, n

LEMMA InboundAppended ==
  ASSUME InboundTypes, NEW m \in Messages, Client!Receive(m)
  PROVE  /\ \A type : \A i \in Inbound(type)' :
              i \in Inbound(type) \/ (i = Len(m_inbound) + 1 /\ m.type = type)
         /\ \A i \in RoomMessages' :
              \/ i \in RoomMessages /\ m_inbound'[i] = m_inbound[i]
              \/ i = Len(m_inbound) + 1 /\ NamesRoom(m) /\ m_inbound'[i] = m
<1> DEFINE n == Len(m_inbound)
<1>1. m_inbound \in Seq(Messages)
  BY DEF InboundTypes
<1>2. m_inbound' = m_inbound \/ m_inbound' = Append(m_inbound, m)
  BY DEF Client!Receive
<1>3. CASE m_inbound' = m_inbound
  BY <1>3 DEF Inbound, RoomMessages
<1>4. CASE m_inbound' = Append(m_inbound, m)
  <2>1. /\ n \in Nat /\ Len(m_inbound') = n + 1
        /\ \A i \in 1 .. n : m_inbound'[i] = m_inbound[i]
        /\ m_inbound'[n + 1] = m
    BY <1>1, <1>4, Appended
  <2>2. \A i \in 1 .. n + 1 : i \in 1 .. n \/ i = n + 1
    BY <2>1
  <2>3. \A type : \A i \in Inbound(type)' : i \in 1 .. n + 1 /\ m_inbound'[i].type = type
    BY <2>1 DEF Inbound
  <2>4. \A i \in RoomMessages' : i \in 1 .. n + 1 /\ NamesRoom(m_inbound'[i])
    BY <2>1 DEF RoomMessages, NamesRoom
  <2> HIDE DEF n
  <2>5. \A type : \A i \in Inbound(type)' : i \in Inbound(type) \/ (i = n + 1 /\ m.type = type)
    BY <2>1, <2>2, <2>3 DEF Inbound, n
  <2>6. \A i \in RoomMessages' :
          \/ i \in RoomMessages /\ m_inbound'[i] = m_inbound[i]
          \/ i = n + 1 /\ NamesRoom(m) /\ m_inbound'[i] = m
    BY <2>1, <2>2, <2>4 DEF RoomMessages, n
  <2>7. QED
    BY <2>5, <2>6 DEF n
<1>5. QED
  BY <1>2, <1>3, <1>4

(* What a battle is to the server *)
SameBattle(l) == obj'[l].kind = obj[l].kind /\ obj'[l].room = obj[l].room

LEMMA EndKept ==
  ASSUME EndInv, UNCHANGED <<m_inbound, misled>>,
         srv'.search = srv.search, srv'.own = srv.own, srv'.others = srv.others,
         m_running' => m_running,
         TopIs("battle")' <=> TopIs("battle"),
         \A l \in LayerIds : SameBattle(l),
         m_running' => /\ LayerPops' # {} => LayerPops # {}
                       /\ ~Elsewhere => \A i, j \in LayerPops' : i = j
  PROVE  EndInv'
<1>1. \A type : Inbound(type)' = Inbound(type)
  BY DEF Inbound
<1>2. RoomMessages' = RoomMessages
  BY DEF RoomMessages, NamesRoom
<1>3. OwnPending' <=> OwnPending
  BY DEF OwnPending
<1>4. OneEnd'
  BY <1>1, <1>3 DEF EndInv, OneEnd
<1>5. MisledInv'
  BY <1>3 DEF EndInv, MisledInv
<1>6. RoomsInv'
  BY <1>1, <1>2 DEF EndInv, RoomsInv, SameBattle, NamedRoom
<1>7. QED
  BY <1>4, <1>5, <1>6 DEF EndInv

(* Nothing is going on: what a new layer is, or whether one is gone, makes *)
(* no difference.                                                          *)
LEMMA EndIdle ==
  ASSUME EndInv, UNCHANGED <<m_inbound, m_running, srv, misled>>,
         OwnPending => misled,
         ~Elsewhere => /\ Inbound("win") = {} /\ RoomMessages = {} /\ ~OwnPending
                       /\ LayerPops' = {},
         \A l \in LayerIds : SameBattle(l) \/ obj'[l].room = None
  PROVE  EndInv'
<1>1. /\ Inbound("win")' = Inbound("win") /\ RoomMessages' = RoomMessages
      /\ OwnPending' <=> OwnPending
  BY DEF Inbound, RoomMessages, NamesRoom, OwnPending
<1>2. OneEnd'
  BY <1>1 DEF OneEnd
<1>3. MisledInv'
  BY <1>1 DEF EndInv, MisledInv
<1>4. RoomsInv'
  <2>1. SUFFICES ASSUME ~Elsewhere PROVE RoomsInv'
    BY DEF RoomsInv
  <2>2. srv.own = {} /\ ~srv.search
    BY <2>1 DEF OwnPending
  <2>3. srv.others = {} /\ \A l \in LayerIds : obj[l].kind # "battle" => obj[l].room = None
    BY <2>1 DEF EndInv, RoomsInv
  <2>4. \A l \in LayerIds : obj'[l].kind # "battle" => obj'[l].room = None
    BY <2>3 DEF SameBattle
  <2>5. Inbound("win")' = {} /\ RoomMessages' = {}
    BY <1>1, <2>1
  <2>6. QED
    BY <2>2, <2>3, <2>4, <2>5 DEF RoomsInv
<1>5. QED
  BY <1>2, <1>3, <1>4 DEF EndInv

(* No pop of a battle is left in the queue. *)
LEMMA NoPops ==
  ASSUME \A i \in 1 .. Len(m_event_queue') :
           m_event_queue'[i].type # "LayerPop" \/ m_event_queue'[i].overlay
  PROVE  LayerPops' = {}
  BY DEF LayerPops, Queued

LEMMA PopsSame ==
  ASSUME EndInv, m_running, UNCHANGED m_event_queue
  PROVE  /\ LayerPops' # {} => LayerPops # {}
         /\ ~Elsewhere => \A i, j \in LayerPops' : i = j
<1>1. LayerPops' = LayerPops
  BY DEF LayerPops, Queued
<1>2. QED
  BY <1>1 DEF EndInv, OneEnd

LEMMA PopsTail ==
  ASSUME EndInv, QueueTypes, m_running, m_event_queue # <<>>,
         m_event_queue' = Tail(m_event_queue)
  PROVE  /\ LayerPops' # {} => LayerPops # {}
         /\ ~Elsewhere => \A i, j \in LayerPops' : i = j
<1> DEFINE n == Len(m_event_queue)
<1>1. m_event_queue \in Seq(Events)
  BY DEF QueueTypes
<1>2. /\ n \in Nat \ {0} /\ Len(m_event_queue') = n - 1
      /\ \A i \in 1 .. n - 1 : m_event_queue'[i] = m_event_queue[i + 1] /\ i + 1 \in 1 .. n
  BY <1>1, HeadTail
<1>3. \A i \in LayerPops' : /\ i \in 1 .. n - 1 /\ m_event_queue'[i].type = "LayerPop"
                            /\ ~m_event_queue'[i].overlay
  BY <1>2 DEF LayerPops, Queued
<1>4. \A i \in 1 .. n - 1 : i \in Nat
  BY <1>2
<1> HIDE DEF n
<1>5. \A i \in LayerPops' : i \in Nat /\ i + 1 \in LayerPops
  BY <1>2, <1>3, <1>4 DEF LayerPops, Queued, n
<1>6. ~Elsewhere => \A i, j \in LayerPops : i = j
  BY DEF EndInv, OneEnd
<1>7. ~Elsewhere => \A i, j \in LayerPops' : i + 1 = j + 1
  BY <1>5, <1>6
<1>8. QED
  BY <1>5, <1>7

(* Each action keeps EndInv. *)

LEMMA QuietEnd ==
  ASSUME Types, StackInv, EndInv, QuietStep
  PROVE  EndInv'
<1>1. Quiet
  BY QuietSteps DEF StackInv
<1>2. UNCHANGED <<m_inbound, m_running, srv, obj, m_layers, m_event_queue, misled>>
  BY <1>1 DEF Quiet, clientVars, stackVars, vectorVars, ghostVars
<1>3. TopIs("battle")' <=> TopIs("battle")
  BY <1>2 DEF TopIs, Top
<1>4. \A l \in LayerIds : SameBattle(l)
  BY <1>2 DEF SameBattle
<1>5. m_running' => /\ LayerPops' # {} => LayerPops # {}
                    /\ ~Elsewhere => \A i, j \in LayerPops' : i = j
  BY <1>2, PopsSame
<1>6. QED
  BY <1>2, <1>3, <1>4, <1>5, EndKept

(* What a message of the server leaves alone, and what it adds to *)
LEMMA ServerLeaves ==
  ASSUME Types, NEW m \in Messages, Deliver(m)
  PROVE  /\ UNCHANGED <<m_running, obj, misled>> /\ LayerPops' = LayerPops
         /\ TopIs("battle")' <=> TopIs("battle")
         /\ \A i \in Inbound("win")' :
              i \in Inbound("win") \/ (i = Len(m_inbound) + 1 /\ m.type = "win")
         /\ \A i \in RoomMessages' :
              \/ i \in RoomMessages /\ m_inbound'[i] = m_inbound[i]
              \/ i = Len(m_inbound) + 1 /\ NamesRoom(m) /\ m_inbound'[i] = m
<1>1. /\ UNCHANGED <<m_running, obj, m_layers, m_event_queue, misled>>
      /\ Client!Receive(m) /\ InboundTypes
  BY TypeParts DEF Types, Deliver, stackVars, vectorVars, ghostVars
<1>2. LayerPops' = LayerPops /\ (TopIs("battle")' <=> TopIs("battle"))
  BY <1>1 DEF LayerPops, Queued, TopIs, Top
<1>3. QED
  BY <1>1, <1>2, InboundAppended

(* A message that names the rooms of the battles there are, or none *)
LEMMA TalkEnd ==
  ASSUME Types, EndInv, NEW m \in Messages, Deliver(m), m.type # "win",
         UNCHANGED <<srv.search, srv.own, srv.others>>,
         NamesRoom(m) => m.games = srv.own \cup srv.others
  PROVE  EndInv'
<1>1. OneEnd /\ MisledInv /\ RoomsInv /\ SrvOK
  BY DEF EndInv, Types
<1>2. /\ UNCHANGED <<m_running, obj, misled>> /\ LayerPops' = LayerPops
      /\ TopIs("battle")' <=> TopIs("battle")
      /\ \A i \in Inbound("win")' : i \in Inbound("win")
      /\ \A i \in RoomMessages' :
           \/ i \in RoomMessages /\ m_inbound'[i] = m_inbound[i]
           \/ NamesRoom(m) /\ m_inbound'[i] = m
  BY ServerLeaves
<1>3. OwnPending' <=> OwnPending
  BY DEF OwnPending
<1>4. OneEnd'
  BY <1>1, <1>2, <1>3 DEF OneEnd
<1>5. MisledInv'
  BY <1>1, <1>2, <1>3 DEF MisledInv
<1>6. RoomsInv'
  <2>1. SUFFICES ASSUME ~Elsewhere PROVE RoomsInv'
    BY DEF RoomsInv
  <2>2. /\ srv'.others = {} /\ srv.others = {}
        /\ \A l \in LayerIds : obj[l].kind # "battle" => obj[l].room = None
        /\ srv.search =>
             srv.own = {} /\ RoomMessages = {} /\ \A l \in LayerIds : obj[l].room = None
    BY <1>1, <2>1 DEF RoomsInv
  <2>3. CASE srv.own = {}
    <3>1. ~NamesRoom(m)
      BY <2>2, <2>3 DEF NamesRoom
    <3>2. \A i \in RoomMessages' : i \in RoomMessages
      BY <1>2, <3>1
    <3>3. m_running =>
            /\ ~TopIs("battle") \/ LayerPops # {} => RoomMessages = {}
            /\ \A i \in Inbound("win"), j \in RoomMessages : j < i
      BY <1>1, <2>1 DEF RoomsInv
    <3>4. QED
      BY <1>2, <2>2, <2>3, <3>2, <3>3 DEF RoomsInv
  <2>4. CASE srv.own # {}
    <3>1. PICK r \in srv.own : TRUE
      BY <2>4
    <3>2. /\ srv.own = {r} /\ r \in Rooms
          /\ \A i \in RoomMessages : NamedRoom(m_inbound[i]) = r
          /\ \A l \in LayerIds : obj[l].room \in {None, r}
      BY <1>1, <2>1, <3>1 DEF RoomsInv, SrvOK
    <3>3. NamesRoom(m) => NamedRoom(m) = r
      BY <2>2, <3>2, RoomIsNamed
    <3>4. \A i \in RoomMessages' : NamedRoom(m_inbound'[i]) = r
      BY <1>2, <3>2, <3>3
    <3>5. OwnPending /\ ~srv.search
      BY <2>2, <2>4 DEF OwnPending
    <3>6. m_running => Inbound("win") = {} /\ LayerPops = {} /\ TopIs("battle")
      BY <1>1, <2>1, <3>5 DEF OneEnd
    <3>7. \A i \in RoomMessages' : NamedRoom(m_inbound[i])' = r
      BY <3>4 DEF NamedRoom
    <3>8. QED
      BY <1>2, <2>2, <3>2, <3>5, <3>6, <3>7 DEF RoomsInv
  <2>5. QED
    BY <2>3, <2>4
<1>7. QED
  BY <1>4, <1>5, <1>6 DEF EndInv

LEMMA BattleEnd ==
  ASSUME Types, EndInv, SendsBattle
  PROVE  EndInv'
<1>1. OneEnd /\ MisledInv /\ RoomsInv /\ SrvOK
  BY DEF EndInv, Types
<1>2. PICK r \in srv.rooms : Begins(r) /\ Deliver(UpdateSearch(srv'.own \cup srv'.others))
  BY DEF SendsBattle
<1>3. r \in Rooms /\ SrvOK'
  <2>1. r \in Rooms /\ 0 \in 0 .. MaxRequests /\ srv.rooms \ {r} \in SUBSET Rooms
    BY <1>1, AppAssumption DEF SrvOK
  <2>2. srv.own \cup {r} \in SUBSET Rooms /\ srv.others \cup {r} \in SUBSET Rooms
    BY <1>1, <2>1 DEF SrvOK
  <2>3. QED
    BY <1>1, <1>2, <2>1, <2>2 DEF SrvOK, Begins
<1>4. PICK m \in Messages : m = UpdateSearch(srv'.own \cup srv'.others)
  <2>1. srv'.own \cup srv'.others \in SUBSET Rooms
    BY <1>3 DEF SrvOK
  <2>2. QED
    BY <2>1, MessagesAre
<1>5. Deliver(m) /\ m.type = "updatesearch" /\ m.games = srv'.own \cup srv'.others
  BY <1>2, <1>4 DEF UpdateSearch
<1>6. /\ UNCHANGED <<m_running, obj, misled>> /\ LayerPops' = LayerPops
      /\ TopIs("battle")' <=> TopIs("battle")
      /\ \A i \in Inbound("win")' : i \in Inbound("win")
      /\ \A i \in RoomMessages' :
           \/ i \in RoomMessages /\ m_inbound'[i] = m_inbound[i]
           \/ NamesRoom(m) /\ m_inbound'[i] = m
  BY <1>5, ServerLeaves
<1>7. OwnPending' => OwnPending
  BY <1>1, <1>2 DEF OwnPending, Begins, SrvOK
<1>8. MisledInv'
  BY <1>1, <1>6, <1>7 DEF MisledInv
<1>9. ASSUME ~Elsewhere
      PROVE  /\ srv.search /\ ~srv'.search /\ srv'.own = {r} /\ srv'.others = {}
             /\ RoomMessages = {} /\ \A l \in LayerIds : obj[l].room = None
             /\ m_running => Inbound("win") = {} /\ LayerPops = {} /\ TopIs("battle")
  <2>1. /\ srv.search
        /\ srv' = [srv EXCEPT !.search = FALSE, !.own = @ \cup {r}, !.rooms = @ \ {r},
                              !.requests = 0]
    BY <1>2, <1>9 DEF Begins
  <2>2. /\ srv.own = {} /\ srv.others = {}
        /\ RoomMessages = {} /\ \A l \in LayerIds : obj[l].room = None
    BY <1>1, <1>9, <2>1 DEF RoomsInv
  <2>3. srv'.search = FALSE /\ srv'.own = {r} /\ srv'.others = {}
    BY <1>1, <2>1, <2>2 DEF SrvOK
  <2>4. m_running => Inbound("win") = {} /\ LayerPops = {} /\ TopIs("battle")
    BY <1>1, <1>9, <2>1 DEF OneEnd, OwnPending
  <2>5. QED
    BY <2>1, <2>2, <2>3, <2>4
<1>10. OneEnd'
  BY <1>6, <1>9 DEF OneEnd
<1>11. RoomsInv'
  <2>1. SUFFICES ASSUME ~Elsewhere PROVE RoomsInv'
    BY DEF RoomsInv
  <2>2. m.games = {r}
    BY <1>5, <1>9, <2>1
  <2>3. NamedRoom(m) = r
    BY <1>3, <2>2, RoomIsNamed
  <2>4. \A i \in RoomMessages' : NamedRoom(m_inbound'[i]) = r
    BY <1>6, <1>9, <2>1, <2>3
  <2>5. \A i \in RoomMessages' : NamedRoom(m_inbound[i])' = r
    BY <2>4 DEF NamedRoom
  <2>6. m_running => Inbound("win")' = {} /\ LayerPops' = {} /\ TopIs("battle")'
    BY <1>6, <1>9, <2>1
  <2>7. \A l \in LayerIds : obj'[l].room = None
    BY <1>6, <1>9, <2>1
  <2>8. srv'.own = {r} /\ srv'.others = {} /\ ~srv'.search /\ m_running' = m_running
    BY <1>6, <1>9, <2>1
  <2>9. QED
    BY <2>5, <2>6, <2>7, <2>8 DEF RoomsInv
<1>12. QED
  BY <1>8, <1>10, <1>11 DEF EndInv

LEMMA WinEnd ==
  ASSUME Types, EndInv, SendsEnd
  PROVE  EndInv'
<1>1. OneEnd /\ MisledInv /\ RoomsInv /\ SrvOK
  BY DEF EndInv, Types
<1>2. PICK r \in srv.own \cup srv.others :
        srv' = [srv EXCEPT !.own = @ \ {r}, !.others = @ \ {r}] /\ Deliver(WinMessage)
  BY DEF SendsEnd
<1>3. PICK m \in Messages : m = WinMessage
  BY MessagesAre
<1>4. Deliver(m) /\ ~NamesRoom(m)
  BY <1>2, <1>3 DEF WinMessage, NamesRoom
<1>5. /\ UNCHANGED <<m_running, obj, misled>> /\ LayerPops' = LayerPops
      /\ TopIs("battle")' <=> TopIs("battle")
      /\ \A i \in Inbound("win")' : i \in Inbound("win") \/ i = Len(m_inbound) + 1
      /\ \A i \in RoomMessages' : i \in RoomMessages
  BY <1>4, ServerLeaves
<1>6. srv'.search = srv.search /\ srv'.own = srv.own \ {r} /\ srv'.others = srv.others \ {r}
  BY <1>1, <1>2 DEF SrvOK
<1>7. OwnPending' => OwnPending
  BY <1>6 DEF OwnPending
<1>8. MisledInv'
  BY <1>1, <1>5, <1>7 DEF MisledInv
<1>9. ASSUME ~Elsewhere
      PROVE  /\ srv'.own = {} /\ srv'.others = {} /\ ~srv'.search
             /\ m_running => Inbound("win") = {} /\ LayerPops = {} /\ TopIs("battle")
  <2>1. srv.others = {} /\ r \in srv.own
    BY <1>1, <1>9 DEF RoomsInv
  <2>2. srv.own = {r} /\ ~srv.search
    BY <1>1, <1>9, <2>1 DEF RoomsInv
  <2>3. m_running => Inbound("win") = {} /\ LayerPops = {} /\ TopIs("battle")
    BY <1>1, <1>9, <2>1 DEF OneEnd, OwnPending
  <2>4. QED
    BY <1>6, <2>1, <2>2, <2>3
<1>10. OneEnd'
  <2>1. SUFFICES ASSUME ~Elsewhere, m_running PROVE OneEnd'
    BY <1>5 DEF OneEnd
  <2>2. ~OwnPending' /\ LayerPops' = {} /\ TopIs("battle")'
    BY <1>5, <1>9, <2>1 DEF OwnPending
  <2>3. \A i, j \in Inbound("win")' : i = j
    BY <1>5, <1>9, <2>1
  <2>4. QED
    BY <2>2, <2>3 DEF OneEnd
<1>11. RoomsInv'
  <2>1. SUFFICES ASSUME ~Elsewhere PROVE RoomsInv'
    BY DEF RoomsInv
  <2>2. \A j \in RoomMessages : j < Len(m_inbound) + 1
    BY TypeParts DEF Types, RoomMessages, InboundTypes
  <2>3. m_running => \A i \in Inbound("win")', j \in RoomMessages' : j < i
    BY <1>5, <1>9, <2>1, <2>2
  <2>4. m_running => TopIs("battle")' /\ LayerPops' = {}
    BY <1>5, <1>9, <2>1
  <2>5. \A l \in LayerIds : obj'[l].kind # "battle" => obj'[l].room = None
    BY <1>1, <1>5, <2>1 DEF RoomsInv
  <2>6. srv'.own = {} /\ srv'.others = {} /\ ~srv'.search /\ m_running' = m_running
    BY <1>5, <1>9, <2>1
  <2>7. QED
    BY <2>3, <2>4, <2>5, <2>6 DEF RoomsInv
<1>12. QED
  BY <1>8, <1>10, <1>11 DEF EndInv

LEMMA ServerEnd ==
  ASSUME Types, EndInv, ServerStep
  PROVE  EndInv'
<1>1. SrvOK
  BY DEF Types
<1>2. CASE \E m \in Messages : SendsOther(m)
  <2>1. PICK m \in Messages : SendsOther(m)
    BY <1>2
  <2>2. /\ Deliver(m) /\ m.type # "win" /\ ~NamesRoom(m)
        /\ UNCHANGED <<srv.search, srv.own, srv.others>>
    BY <2>1 DEF SendsOther, NamesRoom
  <2>3. QED
    BY <2>2, TalkEnd
<1>3. CASE SendsTalk
  <2>1. srv.own \cup srv.others \in SUBSET Rooms
    BY <1>1 DEF SrvOK
  <2>2. PICK m \in Messages :
          m \in {UpdateSearch(srv.own \cup srv.others), ChatMessage} /\ Deliver(m)
    BY <1>3, <2>1, MessagesAre DEF SendsTalk
  <2>3. m.type # "win" /\ (NamesRoom(m) => m.games = srv.own \cup srv.others)
    BY <2>2 DEF UpdateSearch, ChatMessage, NamesRoom
  <2>4. UNCHANGED <<srv.search, srv.own, srv.others>>
    BY <1>3 DEF SendsTalk
  <2>5. QED
    BY <2>2, <2>3, <2>4, TalkEnd
<1>4. QED
  BY <1>2, <1>3, ServerSteps, BattleEnd, WinEnd

LEMMA MessageEnd ==
  ASSUME Types, StackInv, EndInv, ProcessMessage
  PROVE  EndInv'
<1>1. Shape /\ StackFacts /\ KindsKept /\ InboundTypes /\ QueueTypes /\ m_running
  BY StackIs, MessageKinds, TypeParts DEF StackInv, Types, LoopInv, ProcessMessage
<1>2. PICK m \in Messages : m = Head(m_inbound)
  BY <1>1, MessageChanges
<1>3. /\ m_inbound # <<>> /\ m_inbound' = Tail(m_inbound)
      /\ obj' = IF TopIs("battle")
                THEN [obj EXCEPT ![Top] = BattleReacts(obj[Top], Message(m))] ELSE obj
  BY <1>1, <1>2, MessageChanges
<1>4. /\ m_running' = m_running /\ srv' = srv /\ m_layers' = m_layers
      /\ misled' = (misled \/ (TopIs("battle") /\ m.type = "win" /\ OwnPending))
  BY <1>2 DEF ProcessMessage, vectorVars, BattleOnTop, TopIs
<1>5. OneEnd /\ MisledInv /\ RoomsInv /\ misled \in BOOLEAN
  BY TypeParts DEF EndInv, Types, LoopTypes
<1>6. /\ \A i \in Inbound("win")' : i \in Nat /\ i + 1 \in Inbound("win")
      /\ \A i \in RoomMessages' :
           i \in Nat /\ i + 1 \in RoomMessages /\ m_inbound'[i] = m_inbound[i + 1]
      /\ m.type = "win" => 1 \in Inbound("win")
      /\ NamesRoom(m) => 1 \in RoomMessages
      /\ m_inbound[1] = m
  BY <1>1, <1>2, <1>3, InboundTail
<1>7. (TopIs("battle")' <=> TopIs("battle")) /\ (OwnPending' <=> OwnPending)
  BY <1>1, <1>4, KeepsTop DEF OwnPending
<1>8. obj \in [LayerIds -> Layers]
  BY DEF Types, TypeOK
<1>9. \A l \in LayerIds :
        \/ SameBattle(l)
        \/ /\ TopIs("battle") /\ l = Top /\ NamesRoom(m)
           /\ obj'[l].kind = obj[l].kind /\ obj'[l].room = NamedRoom(m)
  <2>1. CASE TopIs("battle")
    <3>1. Top \in LayerIds
      BY <1>1, <2>1 DEF TopIs, StackFacts
    <3>2. PICK b \in Layers : b = obj[Top]
      BY <1>8, <3>1
    <3>3. PICK b1 : b1 = BattleReacts(b, Message(m))
      OBVIOUS
    <3>4. b1.kind = b.kind /\ b1.room = IF NamesRoom(m) THEN NamedRoom(m) ELSE b.room
      BY <3>3, ReactsToMessage
    <3>5. obj' = [obj EXCEPT ![Top] = b1]
      BY <1>3, <2>1, <3>2, <3>3
    <3>6. \A l \in LayerIds : obj'[l] = IF l = Top THEN b1 ELSE obj[l]
      BY <1>8, <3>5
    <3>7. QED
      BY <2>1, <3>2, <3>4, <3>6 DEF SameBattle
  <2>2. CASE ~TopIs("battle")
    BY <1>3, <2>2 DEF SameBattle
  <2>3. QED
    BY <2>1, <2>2
<1>10. ASSUME ~Elsewhere, m.type = "win"
       PROVE  /\ LayerPops = {} /\ ~OwnPending /\ Inbound("win")' = {} /\ RoomMessages' = {}
  <2>1. 1 \in Inbound("win")
    BY <1>6, <1>10
  <2>2. LayerPops = {} /\ ~OwnPending /\ \A i \in Inbound("win") : i = 1
    BY <1>1, <1>5, <1>10, <2>1 DEF OneEnd
  <2>3. \A j \in RoomMessages : j < 1
    BY <1>1, <1>5, <1>10, <2>1 DEF RoomsInv
  <2>4. Inbound("win")' = {}
    <3>1. \A i \in Nat : i + 1 = 1 => i = 0
      OBVIOUS
    <3>2. \A i \in Inbound("win")' : i # 0
      BY <1>3 DEF Inbound
    <3>3. QED
      BY <1>6, <2>2, <3>1, <3>2
  <2>5. RoomMessages' = {}
    <3>1. \A i \in Nat : i + 1 < 1 => FALSE
      OBVIOUS
    <3>2. QED
      BY <1>6, <2>3, <3>1
  <2>6. QED
    BY <2>2, <2>4, <2>5
<1>12. CASE TopIs("battle") /\ m.type = "win"
  <2>1. ~Elsewhere => misled' = misled
    BY <1>4, <1>5, <1>10, <1>12
  <2>2. MisledInv'
    BY <1>4, <1>5, <1>7, <1>12, <2>1 DEF MisledInv
  <2>3. OneEnd'
    <3>1. SUFFICES ASSUME ~Elsewhere PROVE OneEnd'
      BY DEF OneEnd
    <3>2. \A i, j \in LayerPops' : i = j
      <4>1. PICK x \in Events : x = LayerPop(Top, FALSE)
        BY <1>1, <1>12, MessageChanges
      <4>2. Submitted(m_event_queue, x)
        BY <1>1, <1>2, <1>12, <4>1, MessageChanges
      <4>3. m_event_queue \in Seq(Events) /\ LayerPops = {}
        BY <1>1, <1>10, <1>12, <3>1 DEF QueueTypes
      <4>4. CASE m_event_queue' = m_event_queue
        BY <4>3, <4>4 DEF LayerPops, Queued
      <4>5. CASE m_event_queue' = Append(m_event_queue, x)
        <5> DEFINE n == Len(m_event_queue)
        <5>1. /\ n \in Nat /\ Len(m_event_queue') = n + 1
              /\ \A i \in 1 .. n : m_event_queue'[i] = m_event_queue[i]
          BY <4>3, <4>5, Appended
        <5>2. \A i \in LayerPops' : i \in 1 .. n + 1 /\ m_event_queue'[i].type = "LayerPop"
                                    /\ ~m_event_queue'[i].overlay
          BY <5>1 DEF LayerPops, Queued
        <5>3. \A i \in 1 .. n + 1 : i \in 1 .. n \/ i = n + 1
          BY <5>1
        <5> HIDE DEF n
        <5>4. \A i \in LayerPops' : i \in LayerPops \/ i = n + 1
          BY <5>1, <5>2, <5>3 DEF LayerPops, Queued, n
        <5>5. QED
          BY <4>3, <5>4
      <4>6. QED
        BY <4>2, <4>4, <4>5 DEF Submitted
    <3>3. /\ Inbound("win")' = {} /\ ~OwnPending' /\ TopIs("battle")'
      BY <1>7, <1>10, <1>12, <3>1
    <3>4. QED
      BY <3>2, <3>3 DEF OneEnd
  <2>4. RoomsInv'
    <3>1. SUFFICES ASSUME ~Elsewhere PROVE RoomsInv'
      BY DEF RoomsInv
    <3>2. RoomMessages' = {} /\ Inbound("win")' = {} /\ ~OwnPending
      BY <1>10, <1>12, <3>1
    <3>3. srv'.own = {} /\ ~srv'.search /\ srv'.others = {}
      BY <1>4, <1>5, <3>1, <3>2 DEF RoomsInv, OwnPending
    <3>4. \A l \in LayerIds : SameBattle(l)
      BY <1>9, <1>12 DEF NamesRoom
    <3>5. \A l \in LayerIds : obj'[l].kind # "battle" => obj'[l].room = None
      BY <1>5, <3>1, <3>4 DEF RoomsInv, SameBattle
    <3>6. QED
      BY <3>2, <3>3, <3>5 DEF RoomsInv
  <2>5. QED
    BY <2>2, <2>3, <2>4 DEF EndInv
<1>13. CASE ~(TopIs("battle") /\ m.type = "win")
  <2>1. LayerPops' = LayerPops
    <3>1. CASE UNCHANGED m_event_queue
      BY <3>1 DEF LayerPops, Queued
    <3>2. CASE Submitted(m_event_queue, BattleJoin)
      <4>1. PICK x \in Events : x = BattleJoin
        BY EventsAre
      <4>2. x.type # "LayerPop"
        BY <4>1 DEF BattleJoin
      <4>3. m_event_queue \in Seq(Events)
        BY <1>1 DEF QueueTypes
      <4>4. CASE m_event_queue' = m_event_queue
        BY <4>4 DEF LayerPops, Queued
      <4>5. CASE m_event_queue' = Append(m_event_queue, x)
        <5> DEFINE n == Len(m_event_queue)
        <5>1. /\ n \in Nat /\ Len(m_event_queue') = n + 1
              /\ \A i \in 1 .. n : m_event_queue'[i] = m_event_queue[i] /\ i \in 1 .. n + 1
              /\ m_event_queue'[n + 1] = x
          BY <4>3, <4>5, Appended
        <5>2. /\ LayerPops' = {i \in 1 .. n + 1 : m_event_queue'[i].type = "LayerPop"
                                                  /\ ~m_event_queue'[i].overlay}
              /\ LayerPops = {i \in 1 .. n : m_event_queue[i].type = "LayerPop"
                                             /\ ~m_event_queue[i].overlay}
          BY <5>1 DEF LayerPops, Queued
        <5>3. \A i \in 1 .. n + 1 : i \in 1 .. n \/ i = n + 1
          BY <5>1
        <5> HIDE DEF n
        <5>4. QED
          BY <4>2, <5>1, <5>2, <5>3
      <4>6. QED
        BY <3>2, <4>1, <4>4, <4>5 DEF Submitted
    <3>3. QED
      BY <1>1, <1>2, <1>13, <3>1, <3>2, MessageChanges
  <2>2. misled' = misled
    BY <1>4, <1>5, <1>13
  <2>3. MisledInv'
    BY <1>4, <1>5, <1>7, <2>1, <2>2 DEF MisledInv
  <2>4. OneEnd'
    <3>1. SUFFICES ASSUME ~Elsewhere PROVE OneEnd'
      BY DEF OneEnd
    <3>2. \A i, j \in Inbound("win")' : i = j
      <4>1. \A i, j \in Inbound("win")' : i + 1 = j + 1
        BY <1>1, <1>5, <1>6, <3>1 DEF OneEnd
      <4>2. QED
        BY <1>6, <4>1
    <3>3. Inbound("win") = {} => Inbound("win")' = {}
      BY <1>6
    <3>4. QED
      BY <1>1, <1>4, <1>5, <1>7, <2>1, <3>1, <3>2, <3>3 DEF OneEnd
  <2>5. RoomsInv'
    <3>0. SUFFICES ASSUME ~Elsewhere PROVE RoomsInv'
      BY DEF RoomsInv
    <3>1. srv.search =>
            srv.own = {} /\ RoomMessages' = {} /\ \A l \in LayerIds : obj'[l].room = None
      BY <1>5, <1>6, <1>9, <3>0 DEF RoomsInv, SameBattle
    <3>2. ASSUME NEW r \in srv.own
          PROVE  /\ srv.own = {r}
                 /\ \A i \in RoomMessages' : NamedRoom(m_inbound'[i]) = r
                 /\ \A l \in LayerIds : obj'[l].room \in {None, r}
      <4>1. /\ srv.own = {r} /\ \A i \in RoomMessages : NamedRoom(m_inbound[i]) = r
            /\ \A l \in LayerIds : obj[l].room \in {None, r}
        BY <1>5, <3>0 DEF RoomsInv
      <4>2. NamesRoom(m) => NamedRoom(m) = r
        BY <1>6, <4>1
      <4>3. \A i \in RoomMessages' : NamedRoom(m_inbound'[i]) = r
        BY <1>6, <4>1
      <4>4. \A l \in LayerIds : obj'[l].room \in {None, r}
        BY <1>9, <4>1, <4>2 DEF SameBattle
      <4>5. QED
        BY <4>1, <4>3, <4>4
    <3>3. \A l \in LayerIds : obj'[l].kind # "battle" => obj'[l].room = None
      BY <1>5, <1>9, <3>0 DEF RoomsInv, SameBattle, TopIs
    <3>4. /\ ~TopIs("battle") \/ LayerPops # {} => RoomMessages' = {}
          /\ \A i \in Inbound("win")', j \in RoomMessages' : j < i
      <4>1. \A i \in Inbound("win"), j \in RoomMessages : j < i
        BY <1>1, <1>5, <3>0 DEF RoomsInv
      <4>2. \A i \in Inbound("win")', j \in RoomMessages' : j + 1 < i + 1
        BY <1>6, <4>1
      <4>3. \A i \in Inbound("win")', j \in RoomMessages' : j < i
        BY <1>6, <4>2
      <4>4. ~TopIs("battle") \/ LayerPops # {} => RoomMessages = {}
        BY <1>1, <1>5, <3>0 DEF RoomsInv
      <4>5. RoomMessages = {} => RoomMessages' = {}
        BY <1>6
      <4>6. QED
        BY <4>3, <4>4, <4>5
    <3>5. srv'.others = {}
      BY <1>4, <1>5, <3>0 DEF RoomsInv
    <3>6. \A r \in srv.own : \A i \in RoomMessages' : NamedRoom(m_inbound[i])' = r
      BY <3>2 DEF NamedRoom
    <3>7. QED
      BY <1>4, <1>7, <2>1, <3>1, <3>2, <3>3, <3>4, <3>5, <3>6 DEF RoomsInv
  <2>6. QED
    BY <2>3, <2>4, <2>5 DEF EndInv
<1>14. QED
  BY <1>12, <1>13

LEMMA CommandEnd ==
  ASSUME Types, StackInv, EndInv, PollCommand
  PROVE  EndInv'
<1>1. Shape /\ QueueShape /\ StackFacts /\ KindsKept /\ QueueTypes
  BY StackIs, CommandKinds, TypeParts DEF StackInv, Types
<1>2. /\ m_running /\ Polling("Command")
      /\ UNCHANGED <<m_inbound, srv, misled>>
  BY DEF PollCommand, Polling, clientVars, historyRest
<1> DEFINE rest == Tail(m_event_queue)
<1>3. PICK e \in Events : e = Head(m_event_queue) /\ e.type = "Command"
  BY <1>1, CommandChanges
<1>4. /\ m_event_queue # <<>> /\ m_running' = (e.cmd # "q")
      /\ obj' = IF TopIs("battle") THEN [obj EXCEPT ![Top] = BattleReacts(obj[Top], e)] ELSE obj
      /\ \/ m_event_queue' = rest
         \/ TopIs("menu") /\ Submitted(rest, BattleSearch)
         \/ TopIs("menu") /\ Submitted(rest, LoginEvent)
         \/ ~m_running'
  BY <1>1, <1>3, CommandChanges
<1>5. \A l \in LayerIds : SameBattle(l)
  <2>1. obj \in [LayerIds -> Layers]
    BY DEF Types, TypeOK
  <2>2. CASE TopIs("battle")
    <3>1. Top \in LayerIds
      BY <1>1, <2>2 DEF TopIs, StackFacts
    <3>2. PICK b \in Layers : b = obj[Top]
      BY <2>1, <3>1
    <3>3. PICK b1 : b1 = BattleReacts(b, e)
      OBVIOUS
    <3>4. b1.kind = b.kind /\ b1.room = b.room
      BY <1>3, <3>3, ReactsToCommand
    <3>5. obj' = [obj EXCEPT ![Top] = b1]
      BY <1>4, <2>2, <3>2, <3>3
    <3>6. \A l \in LayerIds : obj'[l] = IF l = Top THEN b1 ELSE obj[l]
      BY <2>1, <3>5
    <3>7. QED
      BY <3>2, <3>4, <3>6 DEF SameBattle
  <2>3. CASE ~TopIs("battle")
    BY <1>4, <2>3 DEF SameBattle
  <2>4. QED
    BY <2>2, <2>3
<1>6. TopIs("battle")' <=> TopIs("battle")
  BY <1>1, KeepsTop
<1>7. ASSUME m_running'
      PROVE  /\ LayerPops' # {} => LayerPops # {}
             /\ ~Elsewhere => \A i, j \in LayerPops' : i = j
  <2>1. CASE m_event_queue' = rest
    BY <1>1, <1>2, <1>4, <2>1, PopsTail
  <2>2. CASE TopIs("menu") /\ (Submitted(rest, BattleSearch) \/ Submitted(rest, LoginEvent))
    <3>1. PICK x \in Events : x \in {BattleSearch, LoginEvent} /\ Submitted(rest, x)
      BY <2>2, EventsAre
    <3>2. x.type # "LayerPop"
      BY <3>1 DEF BattleSearch, LoginEvent
    <3>3. rest = <<>>
      BY <1>1, <1>2, <2>2, HeadCommand DEF TopIs
    <3> HIDE DEF rest
    <3>4. m_event_queue' = <<x>>
      BY <3>1, <3>3, AppAssumption DEF Submitted
    <3>5. LayerPops' = {}
      BY <3>2, <3>4, NoPops
    <3>6. QED
      BY <3>5
  <2>3. QED
    BY <1>4, <1>7, <2>1, <2>2
<1>8. QED
  BY <1>2, <1>5, <1>6, <1>7, EndKept

(* What is left when a LayerPop is taken: BattleJoins, and where battles   *)
(* elsewhere end, more pops of the same battle, or of one that is gone.    *)
LEMMA PopsBehind ==
  ASSUME Types, StackInv, EndInv, PollLayerPop
  PROVE  LET e == Head(m_event_queue)
         IN  /\ e \in Events
             /\ \A i \in 1 .. Len(m_event_queue') :
                  \/ m_event_queue'[i].type = "BattleJoin"
                  \/ /\ Elsewhere /\ ~e.overlay
                     /\ m_event_queue'[i].type = "LayerPop" /\ ~m_event_queue'[i].overlay
                     /\ (m_event_queue'[i].layer = Top /\ TopIs("battle"))
                          \/ Gone(m_event_queue'[i])
             /\ OwnPending => misled
             /\ ~Elsewhere => Inbound("win") = {} /\ RoomMessages = {} /\ ~OwnPending
             /\ IF e.overlay
                THEN e.layer = Top /\ TopIs("login") /\ m_username = None /\ m_password = None
                ELSE (e.layer = Top /\ TopIs("battle")) \/ Gone(e)
<1>1. QueueShape /\ QueueTypes /\ OneEnd /\ MisledInv /\ RoomsInv /\ StackFacts
  BY TypeParts, StackIs DEF StackInv, Types, EndInv
<1>2. /\ m_running /\ m_event_queue # <<>> /\ m_event_queue' = Tail(m_event_queue)
      /\ Head(m_event_queue).type = "LayerPop"
  BY DEF PollLayerPop, Polling
<1> DEFINE n == Len(m_event_queue)
<1>3. m_event_queue \in Seq(Events)
  BY <1>1 DEF QueueTypes
<1>4. /\ n \in Nat \ {0} /\ Len(m_event_queue') = n - 1
      /\ \A i \in 1 .. n - 1 : m_event_queue'[i] = m_event_queue[i + 1] /\ i + 1 \in 1 .. n
      /\ Head(m_event_queue) = m_event_queue[1]
  BY <1>2, <1>3, HeadTail
<1>5. \A i \in 1 .. n : EventFits(m_event_queue[i], i, n) /\ m_event_queue[i] \in Events
  BY <1>1, <1>2, <1>3 DEF QueueShape
<1>6. 1 \in 1 .. n /\ m_event_queue[1].type = "LayerPop"
  BY <1>2, <1>4
<1> HIDE DEF n
<1>7. PICK e \in Events : e = m_event_queue[1]
  BY <1>5, <1>6
<1>8. EventFits(e, 1, n) /\ e.type = "LayerPop" /\ e = Head(m_event_queue)
  BY <1>4, <1>5, <1>6, <1>7
<1>9. CASE e.overlay
  <2>1. /\ n = 1 /\ e.layer = Top /\ TopIs("login")
        /\ m_username = None /\ m_password = None
    BY <1>8, <1>9 DEF EventFits
  <2>2. ~TopIs("battle")
    BY <2>1 DEF TopIs
  <2>3. ~Elsewhere => Inbound("win") = {} /\ RoomMessages = {} /\ ~OwnPending
    BY <1>1, <1>2, <2>2 DEF OneEnd, RoomsInv
  <2>4. OwnPending => misled
    BY <1>1, <1>2, <2>2 DEF MisledInv
  <2>5. Len(m_event_queue') = 0
    BY <1>4, <2>1
  <2>6. QED
    BY <1>7, <1>8, <1>9, <2>1, <2>3, <2>4, <2>5
<1>10. CASE ~e.overlay
  <2>1. ((e.layer = Top /\ TopIs("battle")) \/ Gone(e)) /\ 1 \in LayerPops
    BY <1>6, <1>7, <1>8, <1>10 DEF EventFits, LayerPops, Queued, n
  <2>2. /\ OwnPending => misled
        /\ ~Elsewhere => /\ Inbound("win") = {} /\ RoomMessages = {} /\ ~OwnPending
                         /\ \A i \in LayerPops : i = 1
    BY <1>1, <1>2, <2>1 DEF OneEnd, RoomsInv, MisledInv
  <2>3. ASSUME NEW i \in 1 .. n - 1
        PROVE  \/ m_event_queue'[i].type = "BattleJoin"
               \/ /\ Elsewhere
                  /\ m_event_queue'[i].type = "LayerPop" /\ ~m_event_queue'[i].overlay
                  /\ (m_event_queue'[i].layer = Top /\ TopIs("battle"))
                       \/ Gone(m_event_queue'[i])
    <3>1. i + 1 \in 2 .. n /\ n \in Nat /\ i + 1 # 1
      BY <1>4
    <3>2. m_event_queue'[i] = m_event_queue[i + 1] /\ i + 1 \in 1 .. n
      BY <1>4
    <3>3. PICK x \in Events : x = m_event_queue[i + 1]
      BY <1>5, <3>2
    <3>4. EventFits(x, i + 1, n)
      BY <1>5, <3>2, <3>3
    <3>5. /\ x.type \notin {"LayerPush", "Login", "BattleSearch", "Command"}
          /\ x.type = "LayerPop" =>
               ~x.overlay /\ ((x.layer = Top /\ TopIs("battle")) \/ Gone(x))
      BY <3>1, <3>4, FitsBehind
    <3>6. x.type = "LayerPop" => Elsewhere
      <4>1. ~Elsewhere => i + 1 \notin LayerPops
        BY <2>2, <3>1
      <4>2. QED
        BY <3>2, <3>3, <3>5, <4>1 DEF LayerPops, Queued, n
    <3>7. QED
      BY <3>2, <3>3, <3>5, <3>6, EventFields
  <2>4. QED
    BY <1>4, <1>7, <1>8, <1>10, <2>1, <2>2, <2>3
<1>11. QED
  BY <1>9, <1>10

LEMMA LayerPopEnd ==
  ASSUME Types, StackInv, EndInv, PollLayerPop
  PROVE  EndInv'
<1>1. Shape
  BY DEF StackInv
<1>2. /\ ~Elsewhere => \A i \in 1 .. Len(m_event_queue') : m_event_queue'[i].type = "BattleJoin"
      /\ OwnPending => misled
      /\ ~Elsewhere => Inbound("win") = {} /\ RoomMessages = {} /\ ~OwnPending
  BY PopsBehind
<1>3. UNCHANGED <<m_inbound, m_running, srv, misled>>
  BY DEF PollLayerPop, clientVars, pollRest, historyRest
<1>4. ~Elsewhere => LayerPops' = {}
  BY <1>2, NoPops
<1>5. NothingGoes \/ \E x \in ToSet(m_layers) : Goes(x)
  BY <1>1, LayerPopChanges
<1>6. \A l \in LayerIds : SameBattle(l) \/ obj'[l].room = None
  <2>1. CASE NothingGoes
    BY <2>1 DEF NothingGoes, SameBattle
  <2>2. CASE \E x \in ToSet(m_layers) : Goes(x)
    <3>1. PICK x \in ToSet(m_layers) : Goes(x)
      BY <2>2
    <3>2. obj \in [LayerIds -> Layers] /\ obj' = [obj EXCEPT ![x] = Free]
      BY <3>1 DEF Goes, Types, TypeOK
    <3>3. Free.room = None
      BY DEF Free
    <3>4. QED
      BY <3>2, <3>3 DEF SameBattle
  <2>3. QED
    BY <1>5, <2>1, <2>2
<1>7. QED
  BY <1>2, <1>3, <1>4, <1>6, EndIdle

LEMMA OpeningEnd ==
  ASSUME Types, StackInv, EndInv, PollLogin \/ PollBattleSearch
  PROVE  EndInv'
<1>1. Shape /\ QueueShape /\ StackFacts /\ OneEnd /\ MisledInv /\ RoomsInv
  BY StackIs DEF StackInv, Types, EndInv
<1>2. UNCHANGED <<m_inbound, m_running>> /\ m_running
  BY DEF PollLogin, PollBattleSearch, Polling, clientVars, pollRest
<1>3. obj \in [LayerIds -> Layers]
  BY DEF Types, TypeOK
<1>4. ASSUME NEW l \in LayerIds, NEW b \in Layers, Opens(l, b), b.room = None
      PROVE  /\ LayerPops' = {} /\ (OwnPending => misled)
             /\ ~Elsewhere => Inbound("win") = {} /\ RoomMessages = {} /\ ~OwnPending
             /\ \A k \in LayerIds : obj'[k] = IF k = l THEN b ELSE obj[k]
             /\ \A k \in LayerIds : obj[k].kind # "battle"
             /\ Top' = l /\ m_layers' # <<>>
  <2>1. obj' = [obj EXCEPT ![l] = b] /\ m_event_queue' = <<>>
    BY <1>4 DEF Opens
  <2>2. PICK x \in LayerIds \ {l} : m_layers = <<x>> /\ m_layers' = <<x, l>> /\ obj[x].kind = "menu"
    BY <1>4 DEF Opens
  <2>3. Top = x /\ Top' = l /\ m_layers' # <<>>
    BY <2>2 DEF Top, Last
  <2>4. ~TopIs("battle")
    BY <2>2, <2>3 DEF TopIs
  <2>5. LayerPops' = {}
    BY <2>1, NoPops
  <2>6. ~Elsewhere => Inbound("win") = {} /\ RoomMessages = {} /\ ~OwnPending
    BY <1>1, <1>2, <2>4 DEF OneEnd, RoomsInv
  <2>7. OwnPending => misled
    BY <1>1, <1>2, <2>4 DEF MisledInv
  <2>8. \A k \in LayerIds : obj[k].kind # "battle"
    BY <1>1, <2>4 DEF StackFacts, TopIs
  <2>9. QED
    BY <1>3, <2>1, <2>3, <2>5, <2>6, <2>7, <2>8
<1>5. CASE PollLogin
  <2>1. PICK l \in LayerIds : Opens(l, Login)
    BY <1>1, <1>5, PollLoginChanges
  <2>2. Login \in Layers /\ Login.room = None
    BY NewLayers
  <2>3. srv' = srv /\ misled' = misled
    BY <1>5 DEF PollLogin, pollRest, historyRest
  <2>4. /\ LayerPops' = {} /\ (OwnPending => misled)
        /\ ~Elsewhere => Inbound("win") = {} /\ RoomMessages = {} /\ ~OwnPending
        /\ \A k \in LayerIds : obj'[k] = IF k = l THEN Login ELSE obj[k]
    BY <1>4, <2>1, <2>2
  <2>5. \A k \in LayerIds : SameBattle(k) \/ obj'[k].room = None
    BY <2>2, <2>4 DEF SameBattle
  <2>6. QED
    BY <1>2, <2>3, <2>4, <2>5, EndIdle
<1>6. CASE PollBattleSearch
  <2>1. PICK l \in LayerIds, b \in Battles : Opens(l, b)
    BY <1>1, <1>6, SearchChanges
  <2>2. b \in Layers /\ b.room = None /\ b.kind = "battle"
    BY NewLayers
  <2>3. srv' = [srv EXCEPT !.search = TRUE] /\ misled' = (misled /\ OwnPending)
    BY <1>6 DEF PollBattleSearch
  <2>4. srv'.search /\ srv'.own = srv.own /\ srv'.others = srv.others
    BY <2>3 DEF Types, SrvOK
  <2>5. /\ LayerPops' = {}
        /\ ~Elsewhere => Inbound("win") = {} /\ RoomMessages = {} /\ ~OwnPending
        /\ \A k \in LayerIds : obj'[k] = IF k = l THEN b ELSE obj[k]
        /\ \A k \in LayerIds : obj[k].kind # "battle"
        /\ Top' = l /\ m_layers' # <<>>
    BY <1>4, <2>1, <2>2
  <2>6. Inbound("win")' = Inbound("win") /\ RoomMessages' = RoomMessages
    BY <1>2 DEF Inbound, RoomMessages, NamesRoom
  <2>7. TopIs("battle")'
    BY <2>2, <2>5 DEF TopIs
  <2>8. OneEnd'
    BY <2>5, <2>6, <2>7 DEF OneEnd
  <2>9. MisledInv'
    BY <1>1, <2>3, <2>5, <2>7 DEF MisledInv
  <2>10. RoomsInv'
    <3>1. SUFFICES ASSUME ~Elsewhere PROVE RoomsInv'
      BY DEF RoomsInv
    <3>2. \A k \in LayerIds : obj[k].room = None
      BY <1>1, <2>5, <3>1 DEF RoomsInv
    <3>3. \A k \in LayerIds : obj'[k].room = None
      BY <2>2, <2>5, <3>2
    <3>4. srv'.own = {} /\ srv'.others = {} /\ Inbound("win")' = {} /\ RoomMessages' = {}
      BY <1>1, <2>4, <2>5, <2>6, <3>1 DEF RoomsInv, OwnPending
    <3>5. QED
      BY <3>3, <3>4 DEF RoomsInv
  <2>11. QED
    BY <2>8, <2>9, <2>10 DEF EndInv
<1>7. QED
  BY <1>5, <1>6

(* The steps on the queue and on the login that no battle notices *)
LEMMA OtherEnd ==
  ASSUME Types, StackInv, EndInv, NameInv,
         \/ PollLayerPush \/ PollBattleJoin \/ LoginTaken \/ AuthSucceeds \/ AuthFails
         \/ PollEnds
         \/ \E c \in Commands : ReadLine(c)
  PROVE  EndInv'
<1>1. Shape /\ QueueShape /\ StackFacts /\ QueueTypes
  BY StackIs, TypeParts DEF StackInv, Types
<1>2. obj \in [LayerIds -> Layers] /\ SrvOK
  BY DEF Types, TypeOK
<1>3. ASSUME UNCHANGED <<m_inbound, misled>>, m_running' => m_running,
             srv' = srv \/ srv' = [srv EXCEPT !.trn = TRUE],
             TopIs("battle")' <=> TopIs("battle"),
             \A l \in LayerIds : SameBattle(l),
             m_running' => \/ m_event_queue' = m_event_queue
                           \/ m_event_queue # <<>> /\ m_event_queue' = Tail(m_event_queue)
                           \/ LayerPops' = {}
      PROVE  EndInv'
  <2>1. srv'.search = srv.search /\ srv'.own = srv.own /\ srv'.others = srv.others
    BY <1>2, <1>3 DEF SrvOK
  <2>2. m_running' => /\ LayerPops' # {} => LayerPops # {}
                      /\ ~Elsewhere => \A i, j \in LayerPops' : i = j
    BY <1>1, <1>3, PopsSame, PopsTail
  <2>3. QED
    BY <1>3, <2>1, <2>2, EndKept
<1>4. CASE PollLayerPush
  <2>1. PICK l \in LayerIds :
          /\ obj[l] = Menu /\ m_event_queue' = <<>> /\ m_layers = <<>> /\ m_layers' = <<l>>
    BY <1>1, <1>4, LayerPushChanges
  <2>2. UNCHANGED <<m_inbound, misled, m_running, srv, obj>>
    BY <1>4 DEF PollLayerPush, clientVars, pollRest, historyRest
  <2>3. ~TopIs("battle") /\ ~TopIs("battle")'
    <3>1. Top' = l
      BY <2>1 DEF Top, Last
    <3>2. obj'[Top'].kind = "menu"
      BY <2>1, <2>2, <3>1, NewLayers
    <3>3. ~TopIs("battle")
      BY <2>1 DEF TopIs
    <3>4. ~TopIs("battle")'
      BY <3>2 DEF TopIs
    <3>5. QED
      BY <3>3, <3>4
  <2>4. LayerPops' = {}
    BY <2>1, NoPops
  <2>5. QED
    BY <1>3, <2>2, <2>3, <2>4 DEF SameBattle
<1>5. CASE PollBattleJoin \/ PollEnds
  <2>1. /\ UNCHANGED <<m_inbound, misled, m_running, srv, obj, m_layers>>
        /\ m_running => \/ m_event_queue' = m_event_queue
                        \/ m_event_queue # <<>> /\ m_event_queue' = Tail(m_event_queue)
    BY <1>5 DEF PollBattleJoin, PollEnds, Polling, clientVars, pollRest, historyRest, stackVars, vectorVars
  <2>2. TopIs("battle")' <=> TopIs("battle")
    BY <2>1 DEF TopIs, Top
  <2>3. QED
    BY <1>3, <2>1, <2>2 DEF SameBattle
<1>6. CASE \E c \in Commands : ReadLine(c)
  <2>1. PICK c \in Commands : ReadLine(c)
    BY <1>6
  <2>2. UNCHANGED <<m_inbound, misled, m_running, srv, obj, m_layers>> /\ pc = "input"
    BY <2>1 DEF ReadLine, clientVars, stackVars, vectorVars
  <2>3. TopIs("battle")' <=> TopIs("battle")
    BY <2>2 DEF TopIs, Top
  <2>4. PICK x \in Events : x = Command(c)
    BY <1>1, <2>1, LineChanges
  <2>5. Submitted(m_event_queue, x) /\ x.type = "Command"
    BY <1>1, <2>1, <2>4, LineChanges DEF Command
  <2>6. m_running => LayerPops' = {}
    <3>1. SUFFICES ASSUME m_running PROVE LayerPops' = {}
      OBVIOUS
    <3>2. m_event_queue = <<>>
      BY <1>1, <2>2, <3>1 DEF QueueShape
    <3>3. m_event_queue' = <<x>>
      BY <2>5, <3>2, AppAssumption DEF Submitted
    <3>4. QED
      BY <2>5, <3>3, NoPops
  <2>7. QED
    BY <1>3, <2>2, <2>3, <2>6 DEF SameBattle
<1>7. ASSUME NEW n \in BOOLEAN, obj' = [obj EXCEPT ![Top].named = n], TopIs("login"),
             m_layers' = m_layers
      PROVE  (\A l \in LayerIds : SameBattle(l)) /\ (TopIs("battle")' <=> TopIs("battle"))
  <2>1. Top \in LayerIds
    BY <1>1, <1>7 DEF TopIs, StackFacts
  <2>2. \A l \in LayerIds : SameBattle(l)
    BY <1>2, <1>7, <2>1 DEF SameBattle, Layers
  <2>3. Top' = Top /\ obj'[Top].kind = obj[Top].kind
    BY <1>7, <2>1, <2>2 DEF SameBattle, Top
  <2>4. QED
    BY <1>7, <2>2, <2>3 DEF TopIs
<1>8. CASE LoginTaken
  <2>1. /\ m_running /\ m_event_queue # <<>> /\ m_event_queue' = Tail(m_event_queue)
        /\ TopIs("login")
        /\ \E n \in BOOLEAN : obj' = [obj EXCEPT ![Top].named = n]
    <3>1. Client!CanAsk \in BOOLEAN
      BY DEF Client!CanAsk
    <3>2. QED
      BY <1>1, <1>8, <3>1, LoginChanges
  <2>2. UNCHANGED <<m_inbound, misled, srv, m_layers>>
    BY <1>8 DEF LoginTaken, LoginName, LoginPassword, vectorVars, Client!SetUsername,
       Client!SetPassword
  <2>3. QED
    BY <1>3, <1>7, <2>1, <2>2
<1>9. CASE AuthFails
  <2>1. /\ UNCHANGED <<m_inbound, misled, srv, m_layers, m_running, m_event_queue>>
        /\ obj' = [obj EXCEPT ![Top].named = FALSE]
        /\ TopIs("login")
    BY <1>9 DEF AuthFails, authRest, historyRest, clientVars, vectorVars, NameInv
  <2>2. QED
    BY <1>3, <1>7, <2>1
<1>10. CASE AuthSucceeds
  <2>1. /\ UNCHANGED <<m_inbound, misled, m_layers, m_running, obj>>
        /\ srv' = [srv EXCEPT !.trn = TRUE]
        /\ TopIs("login") /\ pc = "auth"
    BY <1>10 DEF AuthSucceeds, authRest, historyRest, vectorVars, NameInv, Client!LoggedIn
  <2>2. TopIs("battle")' <=> TopIs("battle")
    BY <2>1 DEF TopIs, Top
  <2>3. m_running => LayerPops' = {}
    <3>1. SUFFICES ASSUME m_running PROVE LayerPops' = {}
      OBVIOUS
    <3>2. m_event_queue = <<>>
      BY <1>1, <2>1, <3>1 DEF QueueShape
    <3>3. Top \in LayerIds
      BY <1>1, <2>1 DEF TopIs, StackFacts
    <3>4. PICK p \in Events : p = LayerPop(Top, TRUE)
      BY <3>3, EventsAre
    <3>5. Submit(m_event_queue, <<p>>) /\ p.overlay
      BY <1>10, <3>4 DEF AuthSucceeds, LayerPop
    <3>6. m_event_queue \in Seq(Events) /\ Len(m_event_queue) <= EventCap
      BY <1>1 DEF QueueTypes
    <3>7. Submitted(m_event_queue, p)
      BY <3>5, <3>6, SubmitOne
    <3>8. m_event_queue' = <<p>>
      BY <3>2, <3>7, AppAssumption DEF Submitted
    <3>9. QED
      BY <3>5, <3>8, NoPops
  <2>4. QED
    BY <1>3, <2>1, <2>2, <2>3 DEF SameBattle
<1>11. QED
  BY <1>4, <1>5, <1>6, <1>8, <1>9, <1>10

LEMMA ExitEnd ==
  ASSUME Types, StackInv, EndInv, Exit
  PROVE  EndInv'
<1>1. /\ pc = "exit" /\ ~m_running /\ Shape
  BY DEF Exit, StackInv, LoopInv
<1>2. /\ UNCHANGED <<m_running, m_inbound, srv, misled>>
      /\ obj' = [l \in LayerIds |-> IF l \in ToSet(m_layers) THEN Free ELSE obj[l]]
  BY DEF Exit, clientVars, ghostVars
<1>3. \A l \in LayerIds : obj'[l] = Free
  BY <1>1, <1>2 DEF Shape
<1>4. Free.kind = "free" /\ Free.room = None
  BY DEF Free
<1>5. OneEnd' /\ MisledInv'
  BY <1>1, <1>2 DEF EndInv, OneEnd, MisledInv
<1>6. RoomMessages' = RoomMessages
  BY <1>2 DEF RoomMessages, NamesRoom
<1>7. RoomsInv'
  BY <1>1, <1>2, <1>3, <1>4, <1>6 DEF EndInv, RoomsInv, NamedRoom
<1>8. QED
  BY <1>5, <1>7 DEF EndInv
-----------------------------------------------------------------------------
(* Names, passwords and challenges. *)

LoginInv == CredentialsOnlyDuringLogin /\ UsesLastTyped /\ NameInv

(* What a login overlay is to the client *)
SameLogin(l) == obj'[l].kind = obj[l].kind /\ obj'[l].named = obj[l].named

LEMMA LoginKept ==
  ASSUME StackFacts, LoginInv, UNCHANGED <<m_username, m_password, typed, m_layers>>,
         pc' = "auth" => pc = "auth" /\ m_chall_str' = m_chall_str,
         pc \in {"auth", "hung"} => pc' \in {"auth", "hung"},
         pc' # "done" => pc # "done",
         \A l \in LayerIds : SameLogin(l)
  PROVE  LoginInv'
<1>1. \A i \in 1 .. Len(m_layers) : m_layers[i] \in LayerIds
  BY DEF StackFacts
<1>2. CredentialsOnlyDuringLogin'
  BY <1>1 DEF LoginInv, CredentialsOnlyDuringLogin, SameLogin
<1>3. UsesLastTyped'
  BY DEF LoginInv, UsesLastTyped
<1>4. pc' = "auth" => TopIs("login")' /\ m_chall_str' # None
  <2>1. SUFFICES ASSUME pc' = "auth" PROVE TopIs("login")' /\ m_chall_str' # None
    OBVIOUS
  <2>2. TopIs("login") /\ m_chall_str' # None
    BY <2>1 DEF LoginInv, NameInv
  <2>3. Top \in LayerIds /\ Top' = Top
    BY <2>2 DEF TopIs, StackFacts, Top
  <2>4. QED
    BY <2>2, <2>3 DEF TopIs, SameLogin
<1>5. NameInv'
  <2>1. SUFFICES ASSUME pc' \notin {"auth", "hung"}, NEW l \in LayerIds,
                        obj'[l].kind = "login", obj'[l].named
                 PROVE  m_username \in {None, Client!Clip(typed[2])}
    BY <1>4 DEF NameInv
  <2>2. pc \notin {"auth", "hung"} /\ obj[l].kind = "login" /\ obj[l].named
    BY <2>1 DEF SameLogin
  <2>3. QED
    BY <2>2 DEF LoginInv, NameInv
<1>6. QED
  BY <1>2, <1>3, <1>5 DEF LoginInv

(* There is nothing to remember. *)
LEMMA LoginIdle ==
  ASSUME m_username' = None, m_password' = None, pc' # "auth"
  PROVE  LoginInv'
  BY DEF LoginInv, CredentialsOnlyDuringLogin, UsesLastTyped, NameInv

LEMMA NoCredentials ==
  ASSUME StackFacts, LoginInv, pc # "done", ~TopIs("login")
  PROVE  m_username = None /\ m_password = None
<1>1. \A i \in 1 .. Len(m_layers) : m_layers[i] \in LayerIds
  BY DEF StackFacts
<1>2. \A i \in 1 .. Len(m_layers) : obj[m_layers[i]].kind # "login"
  BY <1>1 DEF StackFacts, TopIs
<1>3. QED
  BY <1>2 DEF LoginInv, CredentialsOnlyDuringLogin

LEMMA QuietLogin ==
  ASSUME Types, StackInv, LoginInv, QuietStep
  PROVE  LoginInv'
<1>1. Quiet /\ PcKept /\ StackFacts
  BY QuietSteps, StackIs DEF StackInv, Types
<1>2. pc' = "auth" => pc = "auth"
  BY DEF QuietStep, Start, StartUnresolved, NetworkDrained, ReadNothing, Render, Shutdown,
     CloseHangs, ConnectionLost, LoginServerHangs, vars
<1>3. pc \in {"auth", "hung"} => pc' \in {"auth", "hung"}
  BY DEF QuietStep, Start, StartUnresolved, NetworkDrained, ReadNothing, Render, Shutdown,
     CloseHangs, ConnectionLost, LoginServerHangs, vars
<1>4. UNCHANGED <<m_username, m_password, typed, m_layers, m_chall_str, obj>>
  BY <1>1 DEF Quiet, clientVars, stackVars, vectorVars, ghostVars
<1>5. QED
  BY <1>1, <1>2, <1>3, <1>4, LoginKept DEF SameLogin, PcKept

LEMMA ServerLogin ==
  ASSUME Types, StackInv, LoginInv, ServerStep
  PROVE  LoginInv'
<1>1. StackFacts
  BY StackIs DEF StackInv, Types
<1>2. \E m : Deliver(m)
  BY Delivers
<1>3. UNCHANGED <<pc, m_username, m_password, typed, m_layers, m_chall_str, obj>>
  BY <1>2 DEF Deliver, Client!Receive, Client!credVars, stackVars, vectorVars, ghostVars
<1>4. QED
  BY <1>1, <1>3, LoginKept DEF SameLogin

(* A message or a command that no login overlay takes *)
LEMMA HandledLogin ==
  ASSUME Types, StackInv, LoginInv, ProcessMessage \/ PollCommand
  PROVE  LoginInv'
<1>1. Shape /\ StackFacts /\ obj \in [LayerIds -> Layers]
  BY StackIs DEF StackInv, Types, TypeOK
<1>2. /\ pc' = pc /\ pc \in {"net", "poll"}
      /\ UNCHANGED <<m_username, m_password, typed, m_layers>>
  BY DEF ProcessMessage, PollCommand, Polling, Client!Poll, clientVars, vectorVars, historyRest
<1>3. ASSUME NEW b \in Layers, obj' = [obj EXCEPT ![Top] = b], TopIs("battle"),
             b.kind = obj[Top].kind, b.named = obj[Top].named
      PROVE  \A l \in LayerIds : SameLogin(l)
  BY <1>1, <1>3 DEF SameLogin
<1>4. \A l \in LayerIds : SameLogin(l)
  <2>1. CASE ~TopIs("battle")
    <3>1. obj' = obj
      BY <1>1, <2>1, MessageChanges, CommandChanges
    <3>2. QED
      BY <3>1 DEF SameLogin
  <2>2. CASE TopIs("battle") /\ ProcessMessage
    <3>1. PICK m \in Messages : m = Head(m_inbound)
      BY <1>1, <2>2, MessageChanges
    <3>2. PICK b \in Layers : b = obj[Top]
      BY <1>1, <2>2 DEF TopIs, StackFacts
    <3>3. PICK b1 \in Layers : b1 = BattleReacts(b, Message(m))
      BY ReactsToMessage
    <3>4. b1.kind = b.kind /\ b1.named = b.named
      BY <3>3, ReactsToMessage
    <3>5. obj' = [obj EXCEPT ![Top] = b1]
      BY <1>1, <2>2, <3>1, <3>2, <3>3, MessageChanges
    <3>6. QED
      BY <1>3, <2>2, <3>2, <3>4, <3>5
  <2>3. CASE TopIs("battle") /\ PollCommand
    <3>1. PICK e \in Events : e = Head(m_event_queue) /\ e.type = "Command"
      BY <1>1, <2>3, CommandChanges
    <3>2. PICK b \in Layers : b = obj[Top]
      BY <1>1, <2>3 DEF TopIs, StackFacts
    <3>3. PICK b1 \in Layers : b1 = BattleReacts(b, e)
      BY <3>1, ReactsToCommand
    <3>4. b1.kind = b.kind /\ b1.named = b.named
      BY <3>1, <3>3, ReactsToCommand
    <3>5. obj' = [obj EXCEPT ![Top] = b1]
      BY <1>1, <2>3, <3>1, <3>2, <3>3, CommandChanges
    <3>6. QED
      BY <1>3, <2>3, <3>2, <3>4, <3>5
  <2>4. QED
    BY <2>1, <2>2, <2>3
<1>5. QED
  BY <1>1, <1>2, <1>4, LoginKept

(* Layers come and go. *)
LEMMA LayersLogin ==
  ASSUME Types, StackInv, EndInv, LoginInv,
         PollLayerPush \/ PollLayerPop \/ PollLogin \/ PollBattleSearch
  PROVE  LoginInv'
<1>1. Shape /\ QueueShape /\ StackFacts
  BY StackIs DEF StackInv, Types
<1>2. pc = "poll" /\ pc' # "auth" /\ UNCHANGED <<m_username, m_password>>
  BY DEF PollLayerPush, PollLayerPop, PollLogin, PollBattleSearch, Polling, clientVars
<1>3. m_username = None /\ m_password = None
  <2>1. CASE PollLayerPop
    <3>1. CASE TopIs("login")
      BY <2>1, <3>1, PopsBehind DEF TopIs, Gone
    <3>2. CASE ~TopIs("login")
      BY <1>1, <1>2, <3>2, NoCredentials
    <3>3. QED
      BY <3>1, <3>2
  <2>2. CASE PollLayerPush
    <3>1. m_layers = <<>>
      BY <1>1, <2>2, LayerPushChanges
    <3>2. QED
      BY <1>1, <1>2, <3>1, NoCredentials DEF TopIs
  <2>3. CASE PollLogin \/ PollBattleSearch
    <3>1. \E l \in LayerIds, b \in Layers : Opens(l, b)
      BY <1>1, <2>3, PollLoginChanges, SearchChanges, NewLayers
    <3>2. PICK x \in LayerIds : m_layers = <<x>> /\ obj[x].kind = "menu"
      BY <3>1 DEF Opens
    <3>3. Top = x
      BY <3>2 DEF Top, Last
    <3>4. QED
      BY <1>1, <1>2, <3>2, <3>3, NoCredentials DEF TopIs
  <2>4. QED
    BY <2>1, <2>2, <2>3
<1>4. QED
  BY <1>2, <1>3, LoginIdle

(* A name or a password is typed. *)
LEMMA TakenLogin ==
  ASSUME Types, StackInv, LoginInv, LoginTaken
  PROVE  LoginInv'
<1>1. Shape /\ StackFacts /\ obj \in [LayerIds -> Layers]
  BY StackIs DEF StackInv, Types, TypeOK
<1>2. PICK c : c = Head(m_event_queue).cmd
  OBVIOUS
<1>3. /\ pc = "poll" /\ TopIs("login") /\ Top \in LayerIds /\ typed' = <<typed[2], c>>
      /\ \/ /\ pc' = pc /\ Client!SetUsername(c)
            /\ obj' = [obj EXCEPT ![Top].named = TRUE]
         \/ /\ obj[Top].named /\ Client!SetPassword(c)
            /\ pc' = IF Client!CanAsk THEN "auth" ELSE pc
            /\ obj' = [obj EXCEPT ![Top].named = Client!CanAsk]
  BY <1>1, <1>2, LoginChanges
<1>4. m_layers' = m_layers /\ Top' = Top
  BY DEF LoginTaken, LoginName, LoginPassword, vectorVars, Top
<1>5. ASSUME NEW n \in BOOLEAN, obj' = [obj EXCEPT ![Top].named = n]
      PROVE  /\ CredentialsOnlyDuringLogin' /\ TopIs("login")'
             /\ \A l \in LayerIds : obj'[l].kind = "login" => l = Top /\ obj'[l].named = n
  <2>1. \A l \in LayerIds : obj'[l].kind = obj[l].kind
    BY <1>1, <1>3, <1>5 DEF Layers
  <2>2. obj'[Top].kind = "login" /\ obj'[Top].named = n
    BY <1>1, <1>3, <1>5 DEF TopIs, Layers
  <2>3. TopIs("login")'
    BY <1>3, <1>4, <2>2 DEF TopIs
  <2>4. Top = m_layers[Len(m_layers)] /\ Len(m_layers) \in 1 .. Len(m_layers)
    BY <1>1, <1>3 DEF TopIs, StackFacts
  <2>5. CredentialsOnlyDuringLogin'
    BY <1>4, <2>2, <2>4 DEF CredentialsOnlyDuringLogin
  <2>6. \A l \in LayerIds : obj'[l].kind = "login" => l = Top
    BY <1>1, <2>1 DEF StackFacts
  <2>7. QED
    BY <2>2, <2>3, <2>5, <2>6
<1>6. typed'[1] = typed[2] /\ typed'[2] = c
  BY <1>3
<1>7. CASE pc' = pc /\ Client!SetUsername(c) /\ obj' = [obj EXCEPT ![Top].named = TRUE]
  <2>1. m_username' = Client!Clip(c)
    BY <1>7 DEF Client!SetUsername
  <2>2. CredentialsOnlyDuringLogin'
    BY <1>5, <1>7
  <2>3. UsesLastTyped' /\ NameInv'
    BY <1>3, <1>6, <1>7, <2>1 DEF UsesLastTyped, NameInv
  <2>4. QED
    BY <2>2, <2>3 DEF LoginInv
<1>8. CASE /\ obj[Top].named /\ Client!SetPassword(c)
           /\ pc' = IF Client!CanAsk THEN "auth" ELSE pc
           /\ obj' = [obj EXCEPT ![Top].named = Client!CanAsk]
  <2>1. m_password' = Client!Clip(c) /\ m_username' = m_username /\ m_chall_str' = m_chall_str
    BY <1>8 DEF Client!SetPassword
  <2>2. m_username \in {None, Client!Clip(typed[2])}
    BY <1>3, <1>8 DEF LoginInv, NameInv, TopIs
  <2>3. PICK n \in BOOLEAN : n = Client!CanAsk
    BY DEF Client!CanAsk
  <2>4. /\ CredentialsOnlyDuringLogin' /\ TopIs("login")'
        /\ \A l \in LayerIds : obj'[l].kind = "login" => l = Top /\ obj'[l].named = n
    BY <1>5, <1>8, <2>3
  <2>5. CASE Client!CanAsk
    <3>1. pc' = "auth" /\ m_chall_str # None /\ m_username = Client!Clip(typed[2])
      BY <1>8, <2>2, <2>5 DEF Client!CanAsk
    <3>2. UsesLastTyped'
      BY <1>6, <2>1, <3>1 DEF UsesLastTyped
    <3>3. NameInv'
      BY <2>1, <2>4, <3>1 DEF NameInv
    <3>4. QED
      BY <2>4, <3>2, <3>3 DEF LoginInv
  <2>6. CASE ~Client!CanAsk
    <3>1. pc' = "poll" /\ ~n
      BY <1>3, <1>8, <2>3, <2>6
    <3>2. UsesLastTyped' /\ NameInv'
      BY <2>4, <3>1 DEF UsesLastTyped, NameInv
    <3>3. QED
      BY <2>4, <3>2 DEF LoginInv
  <2>7. QED
    BY <2>5, <2>6
<1>9. QED
  BY <1>3, <1>7, <1>8

(* The login server has answered, or an event or a line goes by. *)
LEMMA OtherLogin ==
  ASSUME Types, StackInv, LoginInv,
         \/ PollBattleJoin \/ AuthSucceeds \/ AuthFails \/ PollEnds
         \/ \E c \in Commands : ReadLine(c)
  PROVE  LoginInv'
<1>1. Shape /\ StackFacts /\ obj \in [LayerIds -> Layers]
  BY StackIs DEF StackInv, Types, TypeOK
<1>2. CASE AuthSucceeds
  BY <1>2, LoginIdle DEF AuthSucceeds, Client!LoggedIn
<1>3. CASE AuthFails
  <2>1. /\ pc' = "poll" /\ UNCHANGED <<m_username, m_password, m_layers>>
        /\ obj' = [obj EXCEPT ![Top].named = FALSE]
        /\ TopIs("login")
    BY <1>3 DEF AuthFails, authRest, historyRest, clientVars, vectorVars, LoginInv, NameInv
  <2>2. Top \in LayerIds /\ Top = m_layers[Len(m_layers)] /\ Len(m_layers) \in 1 .. Len(m_layers)
    BY <1>1, <2>1 DEF TopIs, StackFacts
  <2>3. \A l \in LayerIds : obj'[l].kind = obj[l].kind
    BY <1>1, <2>1, <2>2 DEF Layers
  <2>4. obj'[Top].kind = "login" /\ ~obj'[Top].named
    BY <1>1, <2>1, <2>2 DEF TopIs, Layers
  <2>5. CredentialsOnlyDuringLogin'
    BY <2>1, <2>2, <2>4 DEF CredentialsOnlyDuringLogin
  <2>6. \A l \in LayerIds : obj'[l].kind = "login" => l = Top
    BY <1>1, <2>3 DEF StackFacts
  <2>7. UsesLastTyped' /\ NameInv'
    BY <2>1, <2>4, <2>6 DEF UsesLastTyped, NameInv
  <2>8. QED
    BY <2>5, <2>7 DEF LoginInv
<1>4. CASE PollBattleJoin \/ PollEnds \/ \E c \in Commands : ReadLine(c)
  <2>1. /\ UNCHANGED <<m_username, m_password, typed, m_layers, obj>>
        /\ pc \in {"poll", "input"} /\ pc' \in {"poll", "input", "render"}
    BY <1>4 DEF PollBattleJoin, PollEnds, ReadLine, Polling, clientVars, stackVars, vectorVars,
       pollRest, historyRest
  <2>2. QED
    BY <1>1, <2>1, LoginKept DEF SameLogin
<1>5. QED
  BY <1>2, <1>3, <1>4

LEMMA ExitLogin ==
  ASSUME Types, StackInv, LoginInv, Exit
  PROVE  LoginInv'
<1>1. /\ pc = "exit" /\ ~m_running /\ Shape
  BY DEF Exit, StackInv, LoopInv
<1>2. /\ pc' = "done"
      /\ obj' = [l \in LayerIds |-> IF l \in ToSet(m_layers) THEN Free ELSE obj[l]]
  BY DEF Exit
<1>3. \A l \in LayerIds : obj'[l].kind = "free"
  BY <1>1, <1>2 DEF Shape, Free
<1>4. QED
  BY <1>2, <1>3 DEF LoginInv, CredentialsOnlyDuringLogin, UsesLastTyped, NameInv

(* Where a challenge is: with the server, on its way, with the client, or  *)
(* spent.                                                                  *)
LEMMA ChallKept ==
  ASSUME ChallInv, UNCHANGED <<m_inbound, m_chall_str, spent>>, srv'.chall = srv.chall
  PROVE  ChallInv'
<1>1. Inbound("challstr")' = Inbound("challstr")
  BY DEF Inbound
<1>2. QED
  BY <1>1 DEF ChallInv

LEMMA MessageChall ==
  ASSUME Types, StackInv, ChallInv, ProcessMessage
  PROVE  ChallInv'
<1>1. InboundTypes /\ Shape
  BY TypeParts DEF Types, StackInv
<1>2. PICK m \in Messages : m = Head(m_inbound)
  BY <1>1, MessageChanges
<1>3. m_inbound # <<>> /\ m_inbound' = Tail(m_inbound) /\ Client!Poll(m) /\ srv' = srv
  BY <1>1, <1>2, MessageChanges DEF ProcessMessage
<1>4. /\ \A i \in Inbound("challstr")' : i \in Nat /\ i + 1 \in Inbound("challstr")
      /\ m.type = "challstr" => 1 \in Inbound("challstr")
      /\ m_inbound[1] = m
  BY <1>1, <1>2, <1>3, InboundTail
<1>5. \A i \in Inbound("challstr")' : m_inbound'[i] = m_inbound[i + 1]
  <2>1. m_inbound \in Seq(Messages)
    BY <1>1 DEF InboundTypes
  <2>2. /\ Len(m_inbound') = Len(m_inbound) - 1
        /\ \A i \in 1 .. Len(m_inbound) - 1 : m_inbound'[i] = m_inbound[i + 1]
    BY <1>3, <2>1, HeadTail
  <2>3. QED
    BY <2>2 DEF Inbound
<1>6. spent' = spent /\ m_chall_str' \in {m_chall_str} \cup (IF m.type = "challstr" THEN {m.chall} ELSE {})
  BY <1>3 DEF Client!Poll, Client!OnChallStr, Client!OnUpdateUser
<1>7. \A i, j \in Inbound("challstr")' : m_inbound'[i].chall = m_inbound'[j].chall => i = j
  <2>1. \A i, j \in Inbound("challstr")' :
          m_inbound'[i].chall = m_inbound'[j].chall => i + 1 = j + 1
    BY <1>4, <1>5 DEF ChallInv
  <2>2. QED
    BY <1>4, <2>1
<1>8. CASE m_chall_str' = m_chall_str
  BY <1>3, <1>4, <1>5, <1>6, <1>7, <1>8 DEF ChallInv
<1>9. CASE m.type = "challstr" /\ m_chall_str' = m.chall
  <2>1. m.chall \notin spent \cup srv.chall
    BY <1>4, <1>9 DEF ChallInv
  <2>2. \A i \in Inbound("challstr")' : m_inbound'[i].chall # m.chall
    <3>1. \A i \in Inbound("challstr")' : i + 1 # 1
      <4>1. \A i \in Inbound("challstr")' : i \in 1 .. Len(m_inbound')
        BY DEF Inbound
      <4>2. QED
        BY <4>1
    <3>2. QED
      BY <1>4, <1>5, <1>9, <3>1 DEF ChallInv
  <2>3. QED
    BY <1>3, <1>4, <1>5, <1>6, <1>7, <1>9, <2>1, <2>2 DEF ChallInv
<1>10. QED
  BY <1>6, <1>8, <1>9

LEMMA ServerChall ==
  ASSUME Types, ServerStep
  PROVE  \/ SendsChallenge
         \/ \E m \in Messages : m.type # "challstr" /\ Deliver(m) /\ srv'.chall = srv.chall
<1>1. SrvOK
  BY DEF Types
<1>2. CASE ServerGreets \/ ServerNames
  <2>1. CASE SendsUser
    <3>1. PICK n \in BOOLEAN : /\ Deliver(UserMessage(n))
                               /\ \/ srv' = [srv EXCEPT !.guest = FALSE]
                                  \/ srv' = [srv EXCEPT !.trn = FALSE]
      BY <2>1 DEF SendsUser
    <3>2. PICK m \in Messages : m = UserMessage(n)
      BY MessagesAre
    <3>3. m.type # "challstr" /\ srv'.chall = srv.chall
      BY <1>1, <3>1, <3>2 DEF UserMessage, SrvOK
    <3>4. QED
      BY <3>1, <3>2, <3>3
  <2>2. QED
    BY <1>2, <2>1, GreetsOrNames
<1>3. CASE SendsTalk
  <2>1. PICK m \in {UpdateSearch(srv.own \cup srv.others), ChatMessage} : Deliver(m)
    BY <1>3 DEF SendsTalk
  <2>2. m \in Messages /\ m.type # "challstr"
    BY <1>1, MessagesAre DEF SrvOK, UpdateSearch, ChatMessage
  <2>3. QED
    BY <1>3, <2>1, <2>2 DEF SendsTalk
<1>4. CASE SendsBattle
  <2>1. PICK r \in srv.rooms : Begins(r) /\ Deliver(UpdateSearch(srv'.own \cup srv'.others))
    BY <1>4 DEF SendsBattle
  <2>2. PICK m \in Messages : m = UpdateSearch(srv'.own \cup srv'.others)
    BY ServerSteps, MessagesAre DEF SrvOK
  <2>3. m.type # "challstr" /\ srv'.chall = srv.chall
    BY <1>1, <2>1, <2>2 DEF UpdateSearch, Begins, SrvOK
  <2>4. QED
    BY <2>1, <2>2, <2>3
<1>5. CASE ServerRequests
  <2>1. PICK k \in Requests, n \in 0 .. MaxRequests :
          /\ srv' = [srv EXCEPT !.requests = @ + 1]
          /\ Deliver(Request(k, n))
    BY <1>5, RequestIsSent DEF SendsRequest
  <2>2. PICK m \in Messages : m = Request(k, n)
    BY MessagesAre
  <2>3. m.type # "challstr" /\ srv'.chall = srv.chall
    BY <1>1, <2>1, <2>2 DEF Request, SrvOK
  <2>4. QED
    BY <2>1, <2>2, <2>3
<1>6. CASE SendsEnd
  <2>1. PICK r \in srv.own \cup srv.others :
          srv' = [srv EXCEPT !.own = @ \ {r}, !.others = @ \ {r}] /\ Deliver(WinMessage)
    BY <1>6 DEF SendsEnd
  <2>2. PICK m \in Messages : m = WinMessage
    BY MessagesAre
  <2>3. m.type # "challstr" /\ srv'.chall = srv.chall
    BY <1>1, <2>1, <2>2 DEF WinMessage, SrvOK
  <2>4. QED
    BY <2>1, <2>2, <2>3
<1>7. QED
  BY <1>2, <1>3, <1>4, <1>5, <1>6, TalkIsSent DEF ServerStep

LEMMA ServerSendsChall ==
  ASSUME Types, ChallInv, ServerStep
  PROVE  ChallInv'
<1>1. InboundTypes /\ SrvOK
  BY TypeParts DEF Types
<1>2. ASSUME NEW m \in Messages, Deliver(m)
      PROVE  /\ UNCHANGED <<m_chall_str, spent>>
             /\ \A i \in Inbound("challstr")' :
                  \/ i \in Inbound("challstr") /\ m_inbound'[i] = m_inbound[i]
                  \/ i = Len(m_inbound) + 1 /\ m.type = "challstr" /\ m_inbound'[i] = m
  <2>1. Client!Receive(m)
    BY <1>2 DEF Deliver
  <2>2. \A i \in Inbound("challstr")' :
          i \in Inbound("challstr") \/ (i = Len(m_inbound) + 1 /\ m.type = "challstr")
    BY <1>1, <2>1, InboundAppended
  <2>3. m_inbound \in Seq(Messages)
    BY <1>1 DEF InboundTypes
  <2>4. \A i \in Inbound("challstr") : m_inbound'[i] = m_inbound[i]
    <3>1. CASE m_inbound' = m_inbound
      BY <3>1
    <3>2. CASE m_inbound' = Append(m_inbound, m)
      BY <2>3, <3>2, Appended DEF Inbound
    <3>3. QED
      BY <2>1, <3>1, <3>2 DEF Client!Receive
  <2>5. \A i \in Inbound("challstr")' : i = Len(m_inbound) + 1 => m_inbound'[i] = m
    <3>1. CASE m_inbound' = m_inbound
      <4>1. \A i \in Inbound("challstr")' : i \in 1 .. Len(m_inbound)
        BY <3>1 DEF Inbound
      <4>2. Len(m_inbound) \in Nat
        BY <2>3
      <4>3. QED
        BY <4>1, <4>2
    <3>2. CASE m_inbound' = Append(m_inbound, m)
      BY <2>3, <3>2, Appended
    <3>3. QED
      BY <2>1, <3>1, <3>2 DEF Client!Receive
  <2>6. QED
    BY <2>1, <2>2, <2>4, <2>5 DEF Client!Receive, Client!credVars
<1>3. ASSUME NEW m \in Messages, m.type # "challstr", Deliver(m), srv'.chall = srv.chall
      PROVE  ChallInv'
  <2>1. /\ UNCHANGED <<m_chall_str, spent>>
        /\ \A i \in Inbound("challstr")' : i \in Inbound("challstr") /\ m_inbound'[i] = m_inbound[i]
    BY <1>2, <1>3
  <2>2. QED
    BY <1>3, <2>1 DEF ChallInv
<1>4. CASE SendsChallenge
  <2>1. PICK c \in srv.chall :
          srv' = [srv EXCEPT !.chall = @ \ {c}] /\ Deliver(ChallMessage(c))
    BY <1>4 DEF SendsChallenge
  <2>2. PICK m \in Messages : m = ChallMessage(c)
    BY <1>1, MessagesAre DEF SrvOK
  <2>3. m.chall = c /\ srv'.chall = srv.chall \ {c}
    BY <1>1, <2>1, <2>2 DEF ChallMessage, SrvOK
  <2>4. /\ UNCHANGED <<m_chall_str, spent>>
        /\ \A i \in Inbound("challstr")' :
             \/ i \in Inbound("challstr") /\ m_inbound'[i] = m_inbound[i]
             \/ i = Len(m_inbound) + 1 /\ m_inbound'[i] = m
    BY <1>2, <2>1, <2>2
  <2>5. c \notin spent /\ c # m_chall_str /\ \A i \in Inbound("challstr") : m_inbound[i].chall # c
    BY <2>1 DEF ChallInv
  <2>6. \A i, j \in Inbound("challstr")' : m_inbound'[i].chall = m_inbound'[j].chall => i = j
    BY <2>3, <2>4, <2>5 DEF ChallInv
  <2>7. \A i \in Inbound("challstr")' :
          m_inbound'[i].chall \notin spent' \cup srv'.chall \cup {m_chall_str'}
    BY <2>3, <2>4, <2>5 DEF ChallInv
  <2>8. QED
    BY <2>3, <2>4, <2>6, <2>7 DEF ChallInv
<1>5. QED
  BY <1>3, <1>4, ServerChall

LEMMA OtherChall ==
  ASSUME Types, StackInv, ChallInv, LoginInv,
         \/ QuietStep
         \/ PollLayerPush \/ PollLayerPop \/ PollLogin \/ PollBattleSearch \/ PollBattleJoin
         \/ PollCommand \/ LoginTaken \/ AuthSucceeds \/ AuthFails \/ PollEnds
         \/ \E c \in Commands : ReadLine(c)
         \/ Exit
  PROVE  ChallInv'
<1>1. SrvOK
  BY DEF Types
<1>2. CASE QuietStep
  BY <1>2, QuietSteps, ChallKept DEF StackInv, Quiet, clientVars
<1>3. CASE PollLayerPush \/ PollLayerPop \/ PollLogin \/ PollBattleJoin \/ PollEnds
  BY <1>3, ChallKept DEF PollLayerPush, PollLayerPop, PollLogin, PollBattleJoin, PollEnds,
     clientVars, pollRest, historyRest
<1>4. CASE PollBattleSearch
  <2>1. srv' = [srv EXCEPT !.search = TRUE]
        /\ UNCHANGED <<m_inbound, m_chall_str, spent>>
    BY <1>4 DEF PollBattleSearch, clientVars
  <2>2. QED
    BY <1>1, <2>1, ChallKept DEF SrvOK
<1>5. CASE PollCommand
  <2>1. srv' = srv /\ UNCHANGED <<m_inbound, m_chall_str, spent>>
    BY <1>5 DEF PollCommand, clientVars
  <2>2. QED
    BY <2>1, ChallKept
<1>6. CASE LoginTaken
  BY <1>6, ChallKept DEF LoginTaken, LoginName, LoginPassword, Client!SetUsername,
     Client!SetPassword
<1>7. CASE AuthFails \/ Exit \/ \E c \in Commands : ReadLine(c)
  BY <1>7, ChallKept DEF AuthFails, Exit, ReadLine, clientVars
<1>8. CASE AuthSucceeds
  <2>1. /\ srv' = [srv EXCEPT !.trn = TRUE] /\ UNCHANGED m_inbound
        /\ spent' = spent \cup {m_chall_str} /\ m_chall_str' = None
    BY <1>8 DEF AuthSucceeds, Client!LoggedIn
  <2>2. srv'.chall = srv.chall /\ srv.chall \subseteq Challenges
    BY <1>1, <2>1 DEF SrvOK
  <2>3. pc = "auth" /\ m_chall_str # None
    BY <1>8 DEF AuthSucceeds, LoginInv, NameInv
  <2>4. spent \cup {m_chall_str} \subseteq Challenges /\ None \notin Challenges
    BY <2>3, AppAssumption DEF Types, TypeOK
  <2>5. Inbound("challstr")' = Inbound("challstr")
    BY <2>1 DEF Inbound
  <2>6. \A i \in Inbound("challstr") : m_inbound[i].chall \in Challenges
    <3>1. m_inbound \in Seq(Messages)
      BY DEF Types, TypeOK
    <3>2. \A i \in Inbound("challstr") : m_inbound[i] \in Messages /\ m_inbound[i].type = "challstr"
      BY <3>1 DEF Inbound
    <3>3. QED
      BY <3>2, MessageFields
  <2>7. QED
    BY <2>1, <2>2, <2>4, <2>5, <2>6 DEF ChallInv
<1>9. QED
  BY <1>2, <1>3, <1>4, <1>5, <1>6, <1>7, <1>8
-----------------------------------------------------------------------------
(* What the user looks at. *)

ScreenInv == ScreenIsTop /\ PromptInv

(* What the screen and the commands take from a layer *)
SamePrompt(l) ==
  obj'[l].kind = obj[l].kind /\ obj'[l].force = obj[l].force /\ obj'[l].moves = obj[l].moves

(* An event is queued that marks the screen for drawing. *)
Marks == \E i \in 1 .. Len(m_event_queue) : m_event_queue[i].type # "Command"

LEMMA MarksLater ==
  ASSUME m_event_queue \in Seq(Events), Marks,
         \/ UNCHANGED m_event_queue
         \/ \E x \in Events : Submitted(m_event_queue, x)
         \/ /\ m_event_queue # <<>> /\ Head(m_event_queue).type = "Command"
            /\ m_event_queue' = Tail(m_event_queue)
  PROVE  Marks'
<1>1. CASE UNCHANGED m_event_queue
  BY <1>1 DEF Marks
<1>2. CASE \E x \in Events : Submitted(m_event_queue, x)
  <2>1. PICK x \in Events : Submitted(m_event_queue, x)
    BY <1>2
  <2>2. PICK q \in Seq(Events) : q = Append(m_event_queue, x)
    BY Appended
  <2>3. Len(q) = Len(m_event_queue) + 1 /\ Len(m_event_queue) \in Nat
        /\ \A i \in 1 .. Len(m_event_queue) : q[i] = m_event_queue[i]
    BY <2>2, Appended
  <2>4. \E i \in 1 .. Len(q) : q[i].type # "Command"
    BY <2>3 DEF Marks
  <2>5. m_event_queue' \in {q, m_event_queue}
    BY <2>1, <2>2 DEF Submitted
  <2>6. QED
    BY <2>4, <2>5 DEF Marks
<1>3. CASE /\ m_event_queue # <<>> /\ Head(m_event_queue).type = "Command"
           /\ m_event_queue' = Tail(m_event_queue)
  <2>1. PICK t \in Seq(Events) : t = Tail(m_event_queue)
    BY <1>3, HeadTail
  <2>2. /\ Len(t) = Len(m_event_queue) - 1 /\ Len(m_event_queue) \in Nat
        /\ Head(m_event_queue) = m_event_queue[1]
        /\ \A i \in 1 .. Len(m_event_queue) - 1 : t[i] = m_event_queue[i + 1]
    BY <1>3, <2>1, HeadTail
  <2>3. PICK i \in 1 .. Len(m_event_queue) : m_event_queue[i].type # "Command"
    BY DEF Marks
  <2>4. i # 1
    BY <1>3, <2>2, <2>3
  <2>5. i - 1 \in 1 .. Len(t) /\ i - 1 \in 1 .. Len(m_event_queue) - 1 /\ i - 1 + 1 = i
    BY <2>2, <2>4
  <2>6. t[i - 1].type # "Command"
    BY <2>2, <2>3, <2>5
  <2>7. QED
    BY <1>3, <2>1, <2>5, <2>6 DEF Marks
<1>4. QED
  BY <1>1, <1>2, <1>3

(* The screen, once a battle is as it was asked to be *)
LEMMA PromptAfter ==
  ASSUME TopIs("battle")' => AsAsked(obj[Top])',
         \/ ~TopIs("battle")' \/ prompt'.kind = "nothing" \/ pc' = "crashed" \/ ~m_running'
         \/ shown'.moves = prompt'.moves \/ ToBeDrawn'
         \/ pc' \in {"net", "poll"} /\ Marks'
  PROVE  PromptInv'
  BY DEF PromptInv, PromptIsCurrent, BattleOnTop, TopIs, AsAsked, Marks

LEMMA ScreenKept ==
  ASSUME ScreenInv, StackFacts, UNCHANGED <<m_layers, shown, prompt>>,
         \A l \in LayerIds : SamePrompt(l),
         m_running' => m_running,
         ToBeDrawn => ToBeDrawn', pc' # "crashed" => pc # "crashed",
         m_running' /\ TopIs("battle") /\ Marks /\ pc \in {"net", "poll"}
           => Marks' /\ pc' \in {"net", "poll"}
  PROVE  ScreenInv'
<1>1. Top' = Top /\ (m_layers # <<>> => Top \in LayerIds)
  BY DEF Top, StackFacts
<1>2. ScreenIsTop'
  BY <1>1 DEF ScreenInv, ScreenIsTop, SamePrompt
<1>3. TopIs("battle")' => TopIs("battle") /\ SamePrompt(Top)
  BY <1>1 DEF TopIs, SamePrompt
<1>4. TopIs("battle")' => AsAsked(obj[Top])'
  BY <1>1, <1>3 DEF ScreenInv, PromptInv, AsAsked, SamePrompt
<1>5. ASSUME TopIs("battle")', prompt'.kind # "nothing", pc' # "crashed", m_running'
      PROVE  \/ shown'.moves = prompt'.moves \/ ToBeDrawn'
             \/ pc' \in {"net", "poll"} /\ Marks'
  <2>1. BattleOnTop /\ prompt.kind # "nothing" /\ pc # "crashed" /\ m_running
    BY <1>3, <1>5 DEF BattleOnTop, TopIs
  <2>2. shown.moves = prompt.moves \/ ToBeDrawn \/ (pc \in {"net", "poll"} /\ Marks)
    BY <2>1 DEF ScreenInv, PromptInv, PromptIsCurrent, Marks
  <2>3. QED
    BY <1>3, <1>5, <2>2
<1>6. QED
  BY <1>2, <1>4, <1>5, PromptAfter DEF ScreenInv

(* The screen is marked for drawing. *)
LEMMA ScreenDirty ==
  ASSUME ScreenInv, StackFacts, StackFacts', m_dirty_ui', pc' \in {"poll", "crashed"},
         \/ prompt'.kind = "nothing"
         \/ /\ prompt' = prompt
            /\ \A l \in LayerIds : obj'[l].kind = "battle" => obj'[l] = obj[l]
  PROVE  ScreenInv'
<1>1. pc' # "crashed" => ToBeDrawn'
  BY DEF ToBeDrawn
<1>2. TopIs("battle")' => AsAsked(obj[Top])'
  <2>1. SUFFICES ASSUME TopIs("battle")', prompt'.kind # "nothing" PROVE AsAsked(obj[Top])'
    BY DEF AsAsked
  <2>2. Top' \in LayerIds /\ obj'[Top'].kind = "battle"
    BY <2>1 DEF TopIs, StackFacts
  <2>3. obj'[Top'] = obj[Top'] /\ prompt' = prompt
    BY <2>1, <2>2
  <2>4. Top' = Top /\ TopIs("battle")
    BY <2>2, <2>3 DEF StackFacts, TopIs
  <2>5. QED
    BY <2>3, <2>4 DEF ScreenInv, PromptInv, AsAsked
<1>3. QED
  BY <1>1, <1>2, PromptAfter DEF ScreenInv, ScreenIsTop

LEMMA EmptyScreen ==
  ASSUME m_layers' = <<>>
  PROVE  ScreenInv'
<1>1. ~TopIs("battle")'
  BY DEF TopIs
<1>2. QED
  BY <1>1, PromptAfter DEF ScreenInv, ScreenIsTop

LEMMA QuietScreen ==
  ASSUME Types, StackInv, ScreenInv, QuietStep
  PROVE  ScreenInv'
<1>1. Quiet /\ PcKept /\ StackFacts
  BY QuietSteps, StackIs DEF StackInv, Types
<1>2. /\ UNCHANGED <<m_running, m_layers, obj, m_event_queue, prompt>>
      /\ (\A l \in LayerIds : SamePrompt(l)) /\ Marks' = Marks
  BY <1>1 DEF Quiet, stackVars, vectorVars, ghostVars, SamePrompt, Marks
<1>3. CASE Render
  <2>1. /\ pc = "render" /\ pc' \in {"net", "stop"} /\ connected' = connected
        /\ \/ m_dirty_ui /\ m_layers # <<>> /\ shown' = Drawn(Top)
           \/ ~(m_dirty_ui /\ m_layers # <<>>) /\ UNCHANGED <<shown, m_dirty_ui>>
    BY <1>3 DEF Render
  <2>2. CASE m_dirty_ui /\ m_layers # <<>> /\ shown' = Drawn(Top)
    <3>1. Top' = Top /\ Top \in LayerIds /\ Top # None
      BY <1>1, <1>2, <2>2 DEF StackFacts, Top
    <3>2. shown'.layer = Top /\ shown'.kind = obj[Top].kind /\ shown'.moves = obj[Top].moves
      BY <2>2, <3>1 DEF Drawn
    <3>3. ScreenIsTop'
      BY <1>2, <3>1, <3>2 DEF ScreenIsTop
    <3>4. TopIs("battle")' => TopIs("battle") /\ AsAsked(obj[Top])
      BY <1>2, <3>1 DEF TopIs, ScreenInv, PromptInv
    <3>5. TopIs("battle")' => AsAsked(obj[Top])'
      BY <1>2, <3>1, <3>4 DEF AsAsked
    <3>6. TopIs("battle")' /\ prompt'.kind # "nothing" => shown'.moves = prompt'.moves
      BY <1>2, <3>2, <3>4 DEF AsAsked
    <3>7. QED
      BY <3>3, <3>5, <3>6, PromptAfter DEF ScreenInv
  <2>3. CASE ~(m_dirty_ui /\ m_layers # <<>>) /\ UNCHANGED <<shown, m_dirty_ui>>
    <3>1. CASE m_layers = <<>>
      BY <1>2, <3>1, EmptyScreen
    <3>2. CASE ~m_dirty_ui
      <4>1. ~ToBeDrawn
        BY <3>2 DEF ToBeDrawn
      <4>2. QED
        BY <1>1, <1>2, <2>1, <2>3, <4>1, ScreenKept
    <3>3. QED
      BY <2>3, <3>1, <3>2
  <2>4. QED
    BY <2>1, <2>2, <2>3
<1>4. CASE ~Render /\ m_layers # <<>>
  <2>1. ~Start
    BY <1>4 DEF StackInv, LoopInv, Start
  <2>2. CASE ~StartUnresolved /\ ~Shutdown /\ ~CloseHangs
    <3>1. UNCHANGED <<shown, m_dirty_ui>>
      BY <1>4, <2>1, <2>2 DEF QuietStep, NetworkDrained, ReadNothing, ConnectionLost,
         LoginServerHangs, vars, authRest, historyRest
    <3>2. /\ pc' # "crashed" => pc # "crashed"
          /\ pc \in {"net", "poll"} => pc' \in {"net", "poll"}
          /\ pc \in {"poll", "auth", "hung", "input", "render"} =>
               pc' \in {"poll", "auth", "hung", "input", "render"}
      BY <1>4, <2>1, <2>2 DEF QuietStep, NetworkDrained, ReadNothing, ConnectionLost,
         LoginServerHangs, vars
    <3>3. ToBeDrawn => ToBeDrawn'
      BY <3>1, <3>2 DEF ToBeDrawn
    <3>4. QED
      BY <1>1, <1>2, <3>1, <3>2, <3>3, ScreenKept
  <2>3. CASE StartUnresolved
    BY <1>4, <2>3 DEF StartUnresolved, StackInv, LoopInv
  <2>4. CASE Shutdown \/ CloseHangs
    <3>1. pc = "stop" /\ pc' \in {"exit", "stuck"} /\ UNCHANGED <<shown, m_dirty_ui>>
      BY <2>4 DEF Shutdown, CloseHangs
    <3>2. ~ToBeDrawn
      BY <3>1 DEF ToBeDrawn
    <3>3. QED
      BY <1>1, <1>2, <3>1, <3>2, ScreenKept
  <2>5. QED
    BY <2>2, <2>3, <2>4
<1>5. CASE m_layers = <<>>
  BY <1>2, <1>5, EmptyScreen
<1>6. QED
  BY <1>3, <1>4, <1>5

LEMMA ServerScreen ==
  ASSUME Types, StackInv, ScreenInv, ServerStep
  PROVE  ScreenInv'
<1>1. StackFacts /\ \E m : Deliver(m)
  BY StackIs, Delivers DEF StackInv, Types
<1>2. UNCHANGED <<pc, m_running, m_layers, obj, m_event_queue, prompt, shown, m_dirty_ui>>
  BY <1>1 DEF Deliver, stackVars, vectorVars, ghostVars
<1>3. (ToBeDrawn => ToBeDrawn') /\ (Marks => Marks')
  BY <1>2 DEF ToBeDrawn, Marks
<1>4. QED
  BY <1>1, <1>2, <1>3, ScreenKept DEF SamePrompt

LEMMA MessageScreen ==
  ASSUME Types, StackInv, ScreenInv, ProcessMessage
  PROVE  ScreenInv'
<1>1. Shape /\ StackFacts /\ obj \in [LayerIds -> Layers] /\ m_event_queue \in Seq(Events)
  BY StackIs DEF StackInv, Types, TypeOK
<1>2. PICK m \in Messages : m = Head(m_inbound)
  BY <1>1, MessageChanges
<1>3. /\ pc = "net" /\ m_running /\ UNCHANGED <<pc, m_running, m_layers, shown, m_dirty_ui>>
      /\ prompt' = IF TopIs("battle") /\ m.type = "request" /\ m.kind # "empty"
                   THEN [kind |-> m.kind, moves |-> m.moves] ELSE prompt
  BY <1>2 DEF ProcessMessage, vectorVars, BattleOnTop, TopIs, StackInv, LoopInv
<1>4. ~ToBeDrawn /\ Top' = Top
  BY <1>3 DEF ToBeDrawn, Top
<1>5. Marks => Marks'
  <2>1. \/ UNCHANGED m_event_queue
        \/ \E x \in Events : Submitted(m_event_queue, x)
    BY <1>1, <1>2, MessageChanges, EventsAre
  <2>2. QED
    BY <1>1, <2>1, MarksLater
<1>6. ASSUME NEW b \in Layers, b = obj[Top], NEW b1 \in Layers, b1 = BattleReacts(b, Message(m)),
             TopIs("battle")
      PROVE  \A l \in LayerIds : obj'[l] = IF l = Top THEN b1 ELSE obj[l]
  <2>1. obj' = [obj EXCEPT ![Top] = b1]
    BY <1>1, <1>2, <1>6, MessageChanges
  <2>2. QED
    BY <1>1, <2>1
<1>7. CASE TopIs("battle") /\ m.type = "request" /\ m.kind # "empty"
  <2>1. PICK b \in Layers : b = obj[Top]
    BY <1>1, <1>7 DEF TopIs, StackFacts
  <2>2. PICK b1 \in Layers : b1 = BattleReacts(b, Message(m))
    BY ReactsToMessage
  <2>3. b1.force = (m.kind = "switch") /\ b1.moves = m.moves /\ b1.kind = b.kind
    BY <1>7, <2>2, ReactsToMessage
  <2>4. Top \in LayerIds /\ obj'[Top] = b1
    BY <1>1, <1>6, <1>7, <2>1, <2>2 DEF TopIs, StackFacts
  <2>5. prompt'.kind = m.kind /\ prompt'.moves = m.moves
    BY <1>3, <1>7
  <2>6. AsAsked(obj[Top])'
    BY <1>4, <2>3, <2>4, <2>5 DEF AsAsked
  <2>7. Marks'
    <3>1. PICK x \in Events : x = BattleJoin /\ x.type = "BattleJoin"
      BY EventsAre DEF BattleJoin
    <3>2. Submitted(m_event_queue, x)
      BY <1>1, <1>2, <1>7, <3>1, MessageChanges
    <3>3. CASE Len(m_event_queue) < EventCap
      <4>1. PICK q \in Seq(Events) : q = Append(m_event_queue, x)
        BY <1>1, Appended
      <4>2. Len(q) \in 1 .. Len(q) /\ q[Len(q)] = x
        BY <1>1, <4>1, Appended
      <4>3. m_event_queue' = q
        BY <3>2, <3>3, <4>1 DEF Submitted
      <4>4. QED
        BY <3>1, <4>2, <4>3 DEF Marks
    <3>4. CASE ~(Len(m_event_queue) < EventCap)
      <4>1. 2 \in 1 .. Len(m_event_queue)
        BY <1>1, <3>4, AppAssumption
      <4>2. m_event_queue[2].type # "Command"
        BY <1>3, <4>1 DEF StackInv, QueueShape, EventFits
      <4>3. QED
        BY <1>5, <4>1, <4>2 DEF Marks
    <3>5. QED
      BY <3>3, <3>4
  <2>8. ScreenIsTop'
    BY <1>3, <1>4, <2>1, <2>3, <2>4 DEF ScreenInv, ScreenIsTop
  <2>9. QED
    BY <1>3, <2>6, <2>7, <2>8, PromptAfter DEF ScreenInv
<1>8. CASE ~(TopIs("battle") /\ m.type = "request" /\ m.kind # "empty")
  <2>1. \A l \in LayerIds : SamePrompt(l)
    <3>1. CASE ~TopIs("battle")
      <4>1. obj' = obj
        BY <1>1, <3>1, MessageChanges
      <4>2. QED
        BY <4>1 DEF SamePrompt
    <3>2. CASE TopIs("battle")
      <4>1. PICK b \in Layers : b = obj[Top]
        BY <1>1, <3>2 DEF TopIs, StackFacts
      <4>2. PICK b1 \in Layers : b1 = BattleReacts(b, Message(m))
        BY ReactsToMessage
      <4>3. b1.kind = b.kind /\ b1.force = b.force /\ b1.moves = b.moves
        BY <1>8, <3>2, <4>2, ReactsToMessage
      <4>4. \A l \in LayerIds : obj'[l] = IF l = Top THEN b1 ELSE obj[l]
        BY <1>6, <3>2, <4>1, <4>2
      <4>5. QED
        BY <4>1, <4>3, <4>4 DEF SamePrompt
    <3>3. QED
      BY <3>1, <3>2
  <2>2. prompt' = prompt
    BY <1>3, <1>8
  <2>3. QED
    BY <1>1, <1>3, <1>4, <1>5, <2>1, <2>2, ScreenKept
<1>9. QED
  BY <1>7, <1>8

LEMMA CommandScreen ==
  ASSUME Types, StackInv, ScreenInv, PollCommand
  PROVE  ScreenInv'
<1>1. Shape /\ StackFacts /\ obj \in [LayerIds -> Layers] /\ m_event_queue \in Seq(Events)
  BY StackIs DEF StackInv, Types, TypeOK
<1>2. PICK e \in Events : e = Head(m_event_queue) /\ e.type = "Command"
  BY <1>1, CommandChanges
<1>3. /\ pc = "poll" /\ m_running /\ UNCHANGED <<pc, m_layers, shown, m_dirty_ui, prompt>>
  BY DEF PollCommand, Polling, vectorVars, historyRest
<1>4. ToBeDrawn => ToBeDrawn'
  BY <1>3 DEF ToBeDrawn
<1>5. m_event_queue # <<>>
  BY <1>1, CommandChanges
<1>6. \A l \in LayerIds : SamePrompt(l)
  <2>1. CASE ~TopIs("battle")
    <3>1. obj' = obj
      BY <1>1, <2>1, CommandChanges
    <3>2. QED
      BY <3>1 DEF SamePrompt
  <2>2. CASE TopIs("battle")
    <3>1. PICK b \in Layers : b = obj[Top]
      BY <1>1, <2>2 DEF TopIs, StackFacts
    <3>2. PICK b1 \in Layers : b1 = BattleReacts(b, e)
      BY <1>2, ReactsToCommand
    <3>3. b1.kind = b.kind /\ b1.force = b.force /\ b1.moves = b.moves
      BY <1>2, <3>2, ReactsToCommand
    <3>4. obj' = [obj EXCEPT ![Top] = b1]
      BY <1>1, <1>2, <2>2, <3>1, <3>2, CommandChanges
    <3>5. \A l \in LayerIds : obj'[l] = IF l = Top THEN b1 ELSE obj[l]
      BY <1>1, <3>4
    <3>6. QED
      BY <3>1, <3>3, <3>5 DEF SamePrompt
  <2>3. QED
    BY <2>1, <2>2
<1>7. TopIs("battle") /\ Marks => Marks'
  <2>1. SUFFICES ASSUME TopIs("battle"), Marks PROVE Marks'
    OBVIOUS
  <2>2. m_event_queue' = Tail(m_event_queue)
    BY <1>1, <2>1, CommandChanges DEF TopIs
  <2>3. QED
    BY <1>1, <1>2, <1>5, <2>1, <2>2, MarksLater
<1>8. QED
  BY <1>1, <1>3, <1>4, <1>6, <1>7, ScreenKept

(* The events that mark the screen *)
LEMMA MarkedScreen ==
  ASSUME Types, StackInv, ScreenInv, StackFacts',
         PollLayerPush \/ PollLayerPop \/ PollLogin \/ PollBattleSearch \/ PollBattleJoin
  PROVE  ScreenInv'
<1>1. Shape /\ QueueShape /\ StackFacts /\ obj \in [LayerIds -> Layers]
  BY StackIs DEF StackInv, Types, TypeOK
<1>2. m_dirty_ui' /\ pc' \in {"poll", "crashed"}
  BY DEF PollLayerPush, PollLayerPop, PollLogin, PollBattleSearch, PollBattleJoin, Polling
<1>3. ASSUME NEW l \in LayerIds, NEW b, obj' = [obj EXCEPT ![l] = b], b.kind # "battle"
      PROVE  \A k \in LayerIds : obj'[k].kind = "battle" => obj'[k] = obj[k]
  BY <1>1, <1>3
<1>4. \/ prompt'.kind = "nothing"
      \/ /\ prompt' = prompt
         /\ \A l \in LayerIds : obj'[l].kind = "battle" => obj'[l] = obj[l]
  <2>1. CASE PollLayerPush \/ PollBattleJoin
    <3>1. obj' = obj /\ prompt' = prompt
      BY <2>1 DEF PollLayerPush, PollBattleJoin, stackVars, pollRest, historyRest
    <3>2. QED
      BY <3>1
  <2>2. CASE PollLayerPop
    <3>1. prompt' = prompt
      BY <2>2 DEF PollLayerPop, pollRest, historyRest
    <3>2. CASE NothingGoes
      BY <3>1, <3>2 DEF NothingGoes
    <3>3. CASE \E x \in ToSet(m_layers) : Goes(x)
      <4>1. PICK x \in ToSet(m_layers) : Goes(x)
        BY <3>3
      <4>2. obj' = [obj EXCEPT ![x] = Free] /\ Free.kind = "free"
        BY <4>1, NewLayers DEF Goes
      <4>3. x \in LayerIds
        BY <1>1, <4>1 DEF StackFacts
      <4>4. QED
        BY <1>3, <3>1, <4>2, <4>3
    <3>4. QED
      BY <1>1, <2>2, <3>2, <3>3, LayerPopChanges
  <2>3. CASE PollLogin
    <3>1. PICK l \in LayerIds : Opens(l, Login)
      BY <1>1, <2>3, PollLoginChanges
    <3>2. prompt' = prompt
      BY <2>3 DEF PollLogin, pollRest, historyRest
    <3>3. QED
      BY <1>3, <3>1, <3>2, NewLayers DEF Opens
  <2>4. CASE PollBattleSearch
    BY <2>4 DEF PollBattleSearch, NoPrompt
  <2>5. QED
    BY <2>1, <2>2, <2>3, <2>4
<1>5. QED
  BY <1>1, <1>2, <1>4, ScreenDirty

LEMMA OtherScreen ==
  ASSUME Types, StackInv, LoginInv, ScreenInv,
         \/ LoginTaken \/ AuthSucceeds \/ AuthFails \/ PollEnds
         \/ \E c \in Commands : ReadLine(c)
  PROVE  ScreenInv'
<1>1. Shape /\ QueueShape /\ StackFacts /\ obj \in [LayerIds -> Layers]
      /\ m_event_queue \in Seq(Events)
  BY StackIs DEF StackInv, Types, TypeOK
<1>2. ASSUME NEW n \in BOOLEAN, obj' = [obj EXCEPT ![Top].named = n], TopIs("login")
      PROVE  \A l \in LayerIds : SamePrompt(l)
  <2>1. Top \in LayerIds
    BY <1>1, <1>2 DEF TopIs, StackFacts
  <2>2. QED
    BY <1>1, <1>2, <2>1 DEF SamePrompt, Layers
<1>3. ASSUME UNCHANGED <<m_layers, shown, m_dirty_ui, prompt>>,
             \A l \in LayerIds : SamePrompt(l), m_running' => m_running, pc # "crashed",
             pc' \in {"poll", "auth", "input", "render"},
             pc \in {"net", "poll"} => ~TopIs("battle") \/ (m_running' => m_event_queue = <<>>)
      PROVE  ScreenInv'
  <2>1. ToBeDrawn => ToBeDrawn'
    BY <1>3 DEF ToBeDrawn
  <2>2. m_event_queue = <<>> => ~Marks
    BY DEF Marks
  <2>3. QED
    BY <1>1, <1>3, <2>1, <2>2, ScreenKept
<1>4. CASE LoginTaken
  <2>1. /\ m_running /\ pc = "poll" /\ pc' \in {"poll", "auth"} /\ TopIs("login")
        /\ \E n \in BOOLEAN : obj' = [obj EXCEPT ![Top].named = n]
    <3>1. Client!CanAsk \in BOOLEAN
      BY DEF Client!CanAsk
    <3>2. QED
      BY <1>1, <1>4, <3>1, LoginChanges
  <2>2. UNCHANGED <<m_layers, shown, m_dirty_ui, prompt>>
    BY <1>4 DEF LoginTaken, LoginName, LoginPassword, vectorVars
  <2>3. ~TopIs("battle")
    BY <2>1 DEF TopIs
  <2>4. QED
    BY <1>2, <1>3, <2>1, <2>2, <2>3
<1>5. CASE AuthFails
  <2>1. /\ UNCHANGED <<m_layers, shown, m_dirty_ui, prompt, m_running>>
        /\ pc = "auth" /\ pc' = "poll" /\ obj' = [obj EXCEPT ![Top].named = FALSE]
        /\ TopIs("login")
    BY <1>5 DEF AuthFails, authRest, historyRest, vectorVars, LoginInv, NameInv
  <2>2. QED
    BY <1>2, <1>3, <2>1
<1>6. CASE AuthSucceeds
  <2>1. /\ UNCHANGED <<m_layers, shown, m_dirty_ui, prompt, m_running, obj>>
        /\ pc = "auth" /\ pc' = "poll" /\ TopIs("login")
    BY <1>6 DEF AuthSucceeds, authRest, historyRest, vectorVars, LoginInv, NameInv
  <2>2. QED
    BY <1>3, <2>1 DEF SamePrompt
<1>7. CASE PollEnds
  <2>1. /\ UNCHANGED <<m_layers, shown, m_dirty_ui, prompt, m_running, obj>>
        /\ pc = "poll" /\ pc' = "input" /\ (m_event_queue = <<>> \/ ~m_running)
    BY <1>7 DEF PollEnds, pollRest, historyRest, stackVars, vectorVars
  <2>2. QED
    BY <1>3, <2>1 DEF SamePrompt
<1>8. CASE \E c \in Commands : ReadLine(c)
  <2>1. PICK c \in Commands : ReadLine(c)
    BY <1>8
  <2>2. /\ UNCHANGED <<m_layers, shown, m_dirty_ui, prompt, m_running, obj>>
        /\ pc = "input" /\ pc' = "render"
    BY <2>1 DEF ReadLine, stackVars, vectorVars
  <2>3. QED
    BY <1>3, <2>2 DEF SamePrompt
<1>9. QED
  BY <1>4, <1>5, <1>6, <1>7, <1>8

LEMMA ExitScreen ==
  ASSUME Exit
  PROVE  ScreenInv'
<1>1. m_layers' = <<>>
  BY DEF Exit, Stack!Destroy
<1>2. QED
  BY <1>1, EmptyScreen

(* What may follow a pop in the queue, before it and after it *)
Behind(e) ==
  \/ e.type = "BattleJoin"
  \/ /\ Elsewhere /\ e.type = "LayerPop" /\ ~e.overlay
     /\ (e.layer = Top /\ TopIs("battle")) \/ Gone(e)

LEMMA LayerPopStack ==
  ASSUME Types, StackInv, EndInv, PollLayerPop
  PROVE  StackInv'
<1>1. Shape /\ StackFacts /\ LoopInv /\ NoInputLost
  BY StackIs DEF StackInv, Types
<1>2. m_running /\ m_running' = m_running /\ pc' \in {"poll", "crashed"} /\ lost' = lost
  BY DEF PollLayerPop, Polling
<1>3. PICK q \in Seq(Events) : q = m_event_queue'
  BY <1>1, LayerPopTypes DEF Types, TypeOK
<1>4. \A i \in 1 .. Len(q) : q[i] \in Events /\ Behind(q[i])
  BY <1>3, PopsBehind DEF Behind
<1>5. /\ \A l \in LayerIds \ ToSet(m_layers) : obj[l] = Free
      /\ \A i \in 1 .. Len(m_layers) : obj[m_layers[i]].kind # "free"
      /\ \A l \in overlays : l = Top /\ l \in ToSet(m_layers) /\ obj[l].kind # "menu"
      /\ ToSet(m_layers) \subseteq LayerIds /\ obj \in [LayerIds -> Layers]
      /\ ToSet(m_layers) = {m_layers[i] : i \in 1 .. Len(m_layers)}
  <2>1. ASSUME NEW l \in LayerIds, m_event_queue = <<LayerPush(l)>> PROVE FALSE
    <3>1. Head(m_event_queue).type = "LayerPush"
      BY <2>1 DEF LayerPush
    <3>2. QED
      BY <3>1 DEF PollLayerPop, Polling
  <2>2. QED
    BY <1>1, <2>1 DEF Shape, StackFacts, Types, TypeOK
<1>6. CASE /\ Shape'
           /\ \A e \in Events : Behind(e) =>
                 e.type = "BattleJoin"
                   \/ /\ Elsewhere /\ e.type = "LayerPop" /\ ~e.overlay
                      /\ (e.layer \in ToSet(m_layers') /\ e.layer = Top' /\ TopIs("battle")')
                            \/ Gone(e)'
  <2>1. \A i \in 1 .. Len(q) :
          q[i].type = "BattleJoin"
            \/ /\ Elsewhere /\ q[i].type = "LayerPop" /\ ~q[i].overlay
               /\ (q[i].layer \in ToSet(m_layers') /\ q[i].layer = Top' /\ TopIs("battle")')
                     \/ Gone(q[i])'
    BY <1>4, <1>6
  <2>2. \A i \in 1 .. Len(q) : EventFits(q[i], i, Len(q))'
    BY <2>1 DEF EventFits
  <2>3. QueueShape'
    BY <1>2, <1>3, <2>2 DEF QueueShape, EventFits, Gone
  <2>4. CommandReachesReader' /\ PopsAreLive'
    BY <1>3, <2>1 DEF CommandReachesReader, PopsAreLive, Gone
  <2>5. QED
    BY <1>1, <1>2, <1>6, <2>3, <2>4 DEF StackInv, LoopInv, NoInputLost, RoomInQueue
<1>7. CASE NothingGoes
  <2>1. UNCHANGED <<m_layers, overlays, obj>>
    BY <1>7 DEF NothingGoes
  <2>2. Top' = Top
    BY <2>1 DEF Top
  <2>3. Shape'
    BY <1>1, <1>5, <2>1, <2>2 DEF Shape
  <2>4. TopIs("battle") => Top \in ToSet(m_layers)
    BY <1>1 DEF TopIs, StackFacts
  <2>5. QED
    BY <1>6, <2>1, <2>2, <2>3, <2>4 DEF Behind, Gone, TopIs
<1>8. CASE \E x \in ToSet(m_layers) : Goes(x)
  <2>1. PICK x \in ToSet(m_layers) : Goes(x)
    BY <1>8
  <2>2. PICK s \in Seq(LayerIds) : s = m_layers'
    BY <2>1 DEF Goes
  <2>3. /\ Len(s) = Len(m_layers) - 1 /\ ToSet(s) = ToSet(m_layers) \ {x}
        /\ overlays' = overlays \ {x} /\ obj' = [obj EXCEPT ![x] = Free]
    BY <2>1, <2>2 DEF Goes
  <2>4. Len(s) \in 0 .. 1 /\ ToSet(s) = {s[i] : i \in 1 .. Len(s)} /\ m_layers # <<>>
    <3>1. Len(m_layers) \in 1 .. 2 /\ m_layers # <<>>
      BY <1>1, <2>1 DEF StackFacts
    <3>2. QED
      BY <2>3, <3>1 DEF ToSet
  <2>5. \A l \in LayerIds : obj'[l] = IF l = x THEN Free ELSE obj[l]
    BY <1>5, <2>3
  <2>6. \A l \in ToSet(s) : l \in LayerIds /\ l \in ToSet(m_layers) /\ obj'[l] = obj[l]
                            /\ obj'[l].kind # "free"
    BY <1>5, <2>3, <2>5
  <2>7. \A i \in 1 .. Len(s) : obj'[s[i]].kind # "free"
    BY <2>4, <2>6
  <2>8. \A l \in LayerIds \ ToSet(s) : obj'[l] = Free
    BY <1>5, <2>3, <2>5
  <2>9. \A l \in ToSet(s) : Len(s) = 1 /\ s # <<>> /\ l = Top'
    <3>1. ASSUME NEW l \in ToSet(s) PROVE Len(s) = 1 /\ l = s[1] /\ s # <<>>
      BY <2>4, <3>1
    <3>2. Len(s) = 1 => s # <<>>
      <4>1. Len(s) = 1 => s[1] \in ToSet(s)
        BY <2>4
      <4>2. QED
        BY <3>1, <4>1
    <3>3. Len(s) = 1 => Top' = s[1]
      BY <2>2, <3>2 DEF Top, Last
    <3>4. QED
      BY <3>1, <3>3
  <2>10. \A l \in overlays' : l \in ToSet(s) /\ l = Top' /\ obj'[l].kind # "menu"
    BY <1>5, <2>3, <2>6, <2>9
  <2>11. Shape'
    BY <2>2, <2>4, <2>7, <2>8, <2>10 DEF Shape
  <2>12. s = <<>> \/ \E l \in ToSet(s) : l = Top'
    <3>1. Len(s) = 1 => s[1] \in ToSet(s)
      BY <2>4
    <3>2. QED
      BY <2>4, <2>9, <3>1
  <2>13. TopIs("battle") /\ x # Top => Top \in ToSet(s) /\ Top' = Top /\ TopIs("battle")'
    BY <1>1, <2>2, <2>3, <2>6, <2>9 DEF TopIs, StackFacts
  <2>14. TopIs("battle") /\ x = Top => m_layers' = <<>> \/ TopIs("menu")'
    BY <1>1, <2>2, <2>3, <2>6, <2>9, <2>12 DEF TopIs, StackFacts
  <2>15. TopIs("menu") => m_layers' = <<>>
    BY <1>1, <2>2, <2>3, <2>4 DEF StackFacts
  <2>16. ASSUME NEW e \in Events, Behind(e)
         PROVE  e.type = "BattleJoin"
                  \/ /\ Elsewhere /\ e.type = "LayerPop" /\ ~e.overlay
                     /\ (e.layer \in ToSet(m_layers') /\ e.layer = Top' /\ TopIs("battle")')
                           \/ Gone(e)'
    <3>1. CASE e.type = "BattleJoin"
      BY <3>1
    <3>2. CASE e.type = "LayerPop" /\ e.layer = Top /\ TopIs("battle") /\ x = Top
      <4>1. e.layer \in LayerIds /\ obj'[e.layer] = Free /\ Elsewhere /\ ~e.overlay
        BY <2>5, <2>16, <3>2, EventFields DEF Behind
      <4>2. QED
        BY <2>14, <3>2, <4>1 DEF Gone
    <3>3. CASE e.type = "LayerPop" /\ e.layer = Top /\ TopIs("battle") /\ x # Top
      BY <2>2, <2>13, <2>16, <3>3 DEF Behind
    <3>4. CASE e.type = "LayerPop" /\ Gone(e)
      <4>1. e.layer \in LayerIds /\ obj'[e.layer] = Free /\ Elsewhere /\ ~e.overlay
        BY <2>5, <2>16, <3>4, EventFields DEF Behind, Gone
      <4>2. m_layers' = <<>>
        BY <2>4, <2>15, <3>4 DEF Gone
      <4>3. QED
        BY <3>4, <4>1, <4>2 DEF Gone
    <3>5. QED
      BY <2>16, <3>1, <3>2, <3>3, <3>4 DEF Behind
  <2>17. QED
    BY <1>6, <2>11, <2>16
<1>9. QED
  BY <1>1, <1>7, <1>8, LayerPopChanges
-----------------------------------------------------------------------------
(* The invariant as a whole. *)

LEMMA IInvParts ==
  IInv <=> Types /\ StackInv /\ EndInv /\ LoginInv /\ ChallInv /\ ScreenInv
  BY DEF IInv, Types, StackInv, EndInv, LoginInv, ScreenInv

LEMMA IInvPartsAfter ==
  IInv' <=> Types' /\ StackInv' /\ EndInv' /\ LoginInv' /\ ChallInv' /\ ScreenInv'
  BY IInvParts, PTL

HandlingStep ==
  \/ PollLayerPush \/ PollLayerPop \/ PollLogin \/ PollBattleSearch \/ PollBattleJoin
  \/ LoginTaken \/ AuthSucceeds \/ AuthFails \/ PollEnds
  \/ \E c \in Commands : ReadLine(c)

LEMMA NextCases ==
  ASSUME [Next]_vars
  PROVE  QuietStep \/ ServerStep \/ ProcessMessage \/ PollCommand \/ HandlingStep \/ Exit
  BY DEF Next, Main, External, Ended, QuietStep, ServerStep, HandlingStep, LoginTaken

LEMMA StepTypes ==
  ASSUME Types, StackInv, EndInv, LoginInv, [Next]_vars
  PROVE  Types' /\ StackInv'
<1>1. Shape /\ QueueShape /\ NameInv
  BY DEF StackInv, LoginInv
<1>2. CASE QuietStep
  BY <1>2, QuietStack
<1>3. CASE ServerStep
  BY <1>3, ServerStack
<1>4. CASE ProcessMessage
  BY <1>1, <1>4, MessageTypes, MessageStack
<1>5. CASE PollCommand
  BY <1>1, <1>5, CommandTypes, CommandStack
<1>6. CASE Exit
  BY <1>6, ExitTypes, ExitStack
<1>7. CASE PollLayerPush \/ PollLayerPop
  BY <1>1, <1>7, LayerPushTypes, LayerPushStack, LayerPopTypes, LayerPopStack
<1>8. CASE PollLogin \/ PollBattleSearch
  BY <1>1, <1>8, OpeningTypes, OpeningStack
<1>9. CASE PollBattleJoin \/ PollEnds
  BY <1>9, TakenTypes, JoinStack, EndsStack
<1>10. CASE LoginTaken
  BY <1>1, <1>10, LoginTypes, LoginStack
<1>11. CASE AuthSucceeds \/ AuthFails
  BY <1>1, <1>11, AuthTypes, AuthStack
<1>12. ASSUME NEW c \in Commands, ReadLine(c)
       PROVE  Types' /\ StackInv'
  BY <1>1, <1>12, LineTypes, LineStack
<1>13. QED
  BY <1>2, <1>3, <1>4, <1>5, <1>6, <1>7, <1>8, <1>9, <1>10, <1>11, <1>12, NextCases
     DEF HandlingStep

LEMMA StepEnd ==
  ASSUME Types, StackInv, EndInv, LoginInv, [Next]_vars
  PROVE  EndInv'
<1>1. NameInv
  BY DEF LoginInv
<1>2. CASE QuietStep \/ ServerStep
  BY <1>2, QuietEnd, ServerEnd
<1>3. CASE ProcessMessage \/ PollCommand
  BY <1>3, MessageEnd, CommandEnd
<1>4. CASE PollLayerPop \/ PollLogin \/ PollBattleSearch
  BY <1>4, LayerPopEnd, OpeningEnd
<1>5. CASE \/ PollLayerPush \/ PollBattleJoin \/ LoginTaken \/ AuthSucceeds \/ AuthFails
           \/ PollEnds
           \/ \E c \in Commands : ReadLine(c)
  BY <1>1, <1>5, OtherEnd
<1>6. CASE Exit
  BY <1>6, ExitEnd
<1>7. QED
  BY <1>2, <1>3, <1>4, <1>5, <1>6, NextCases DEF HandlingStep

LEMMA StepLogin ==
  ASSUME Types, StackInv, EndInv, LoginInv, [Next]_vars
  PROVE  LoginInv'
<1>1. CASE QuietStep \/ ServerStep
  BY <1>1, QuietLogin, ServerLogin
<1>2. CASE ProcessMessage \/ PollCommand
  BY <1>2, HandledLogin
<1>3. CASE PollLayerPush \/ PollLayerPop \/ PollLogin \/ PollBattleSearch
  BY <1>3, LayersLogin
<1>4. CASE LoginTaken
  BY <1>4, TakenLogin
<1>5. CASE \/ PollBattleJoin \/ AuthSucceeds \/ AuthFails \/ PollEnds
           \/ \E c \in Commands : ReadLine(c)
  BY <1>5, OtherLogin
<1>6. CASE Exit
  BY <1>6, ExitLogin
<1>7. QED
  BY <1>1, <1>2, <1>3, <1>4, <1>5, <1>6, NextCases DEF HandlingStep

LEMMA StepChall ==
  ASSUME Types, StackInv, LoginInv, ChallInv, [Next]_vars
  PROVE  ChallInv'
  BY NextCases, MessageChall, ServerSendsChall, OtherChall DEF HandlingStep

LEMMA StepScreen ==
  ASSUME Types, StackInv, EndInv, LoginInv, ScreenInv, [Next]_vars
  PROVE  ScreenInv'
<1>1. StackFacts'
  <2>1. Types' /\ StackInv'
    BY StepTypes
  <2>2. TypeOK' /\ Shape'
    BY <2>1 DEF Types, StackInv
  <2>3. QED
    BY <2>2, StackWillBe
<1>2. CASE QuietStep \/ ServerStep
  BY <1>2, QuietScreen, ServerScreen
<1>3. CASE ProcessMessage \/ PollCommand
  BY <1>3, MessageScreen, CommandScreen
<1>4. CASE PollLayerPush \/ PollLayerPop \/ PollLogin \/ PollBattleSearch \/ PollBattleJoin
  BY <1>1, <1>4, MarkedScreen
<1>5. CASE \/ LoginTaken \/ AuthSucceeds \/ AuthFails \/ PollEnds
           \/ \E c \in Commands : ReadLine(c)
  BY <1>5, OtherScreen
<1>6. CASE Exit
  BY <1>6, ExitScreen
<1>7. QED
  BY <1>2, <1>3, <1>4, <1>5, <1>6, NextCases DEF HandlingStep

LEMMA StepIInv ==
  ASSUME IInv, [Next]_vars
  PROVE  IInv'
<1>1. Types /\ StackInv /\ EndInv /\ LoginInv /\ ChallInv /\ ScreenInv
  BY IInvParts
<1>2. Types' /\ StackInv' /\ EndInv' /\ LoginInv' /\ ChallInv' /\ ScreenInv'
  BY <1>1, StepTypes, StepEnd, StepLogin, StepChall, StepScreen
<1>3. QED
  BY <1>2, IInvPartsAfter

LEMMA InitTypes == Init => Types
<1> SUFFICES ASSUME Init PROVE Types
  OBVIOUS
<1>1. PICK l \in LayerIds : /\ obj = [k \in LayerIds |-> IF k = l THEN Menu ELSE Free]
                            /\ m_event_queue = <<LayerPush(l)>>
  BY DEF Init
<1>2. /\ EventCap \in Nat \ {0, 1} /\ InboundCap \in Nat /\ MaxCommands \in Nat
      /\ MaxRequests \in Nat /\ Modulus \in Nat \ {0}
  <2>1. Cardinality(LayerIds) \in Nat
    BY AppAssumption, FS_CardinalityType
  <2>2. QED
    BY <2>1, AppAssumption
<1>3. LoopTypes
  <2>1. shown = [layer |-> None, kind |-> "none", moves |-> 0]
    BY DEF Init, Drawn
  <2>2. shown \in [layer : LayerIds \cup {None},
                   kind : {"none", "menu", "login", "battle"}, moves : 0 .. MaxRequests]
    BY <1>2, <2>1
  <2>3. pc = "start" /\ m_running /\ ~m_dirty_ui /\ ~connected /\ ~misled /\ lines = 0
        /\ {m_running, m_dirty_ui, connected, misled} \subseteq BOOLEAN
    BY DEF Init
  <2>4. prompt \in Prompts
    BY <1>2 DEF Init, NoPrompt, Prompts
  <2>5. QED
    BY <1>2, <2>2, <2>3, <2>4 DEF LoopTypes
<1>4. LayerTypes
  <2>1. obj \in [LayerIds -> Layers]
    BY <1>1, NewLayers
  <2>2. Stack!TypeOK
    BY <1>2 DEF Init, Stack!Init, Stack!TypeOK
  <2>3. QED
    BY <2>1, <2>2 DEF LayerTypes
<1>5. QueueTypes
  <2>1. LayerPush(l) \in Events
    BY EventsAre
  <2>2. QED
    BY <1>1, <1>2, <2>1 DEF QueueTypes
<1>6. InboundTypes /\ ClientTypes
  <2>1. /\ m_inbound = <<>> /\ m_chall_str = None /\ m_username = None /\ m_password = None
        /\ m_logged_in = FALSE /\ spent = {}
    BY DEF Init, Client!Init
  <2>2. InboundTypes
    BY <1>2, <2>1 DEF InboundTypes
  <2>3. None \in Client!Stored
    BY DEF Client!Stored
  <2>4. QED
    BY <2>1, <2>2, <2>3 DEF ClientTypes
<1>7. SrvOK
  BY <1>2 DEF Init, SrvOK
<1>8. QED
  BY <1>3, <1>4, <1>5, <1>6, <1>7, TypeParts DEF Types

LEMMA InitIInv == Init => IInv
<1> SUFFICES ASSUME Init PROVE IInv
  OBVIOUS
<1>1. PICK l \in LayerIds : /\ obj = [k \in LayerIds |-> IF k = l THEN Menu ELSE Free]
                            /\ m_event_queue = <<LayerPush(l)>>
  BY DEF Init
<1>2. /\ pc = "start" /\ m_running /\ m_layers = <<>> /\ m_layer_iterator_offset = 0
      /\ overlays = {} /\ m_inbound = <<>> /\ lost = {} /\ spent = {}
      /\ m_username = None /\ m_password = None /\ m_chall_str = None
      /\ ~srv.search /\ srv.own = {} /\ srv.others = {} /\ ~misled
      /\ prompt.kind = "nothing"
  BY DEF Init, Stack!Init, Client!Init, NoPrompt
<1>3. /\ Len(m_event_queue) = 1 /\ m_event_queue[1] = LayerPush(l)
      /\ LayerPush(l).type = "LayerPush" /\ LayerPush(l).layer = l
      /\ obj[l] = Menu /\ \A k \in LayerIds : obj[k] = Menu \/ obj[k] = Free
      /\ \A k \in LayerIds : k # l => obj[k] = Free
  BY <1>1 DEF LayerPush
<1>4. Len(m_layers) = 0 /\ Len(m_inbound) = 0 /\ Top = None /\ ToSet(m_layers) = {}
  BY <1>2 DEF Top, ToSet
<1>5. \A k \in LayerIds : obj[k].kind \in {"menu", "free"} /\ obj[k].room = None
  BY <1>3, NewLayers
<1>6. StackInv
  <2>1. Shape
    BY <1>1, <1>2, <1>3, <1>4 DEF Shape
  <2>2. QueueShape
    <3>1. EventFits(LayerPush(l), 1, 1)
      BY <1>2, <1>3 DEF EventFits
    <3>2. QED
      BY <1>2, <1>3, <3>1 DEF QueueShape
  <2>3. CommandReachesReader /\ PopsAreLive
    BY <1>3 DEF CommandReachesReader, PopsAreLive
  <2>4. QED
    BY <1>2, <2>1, <2>2, <2>3 DEF StackInv, LoopInv, NoInputLost, RoomInQueue
<1>7. EndInv
  <2>1. Inbound("win") = {} /\ RoomMessages = {}
    BY <1>4 DEF Inbound, RoomMessages
  <2>2. LayerPops = {}
    BY <1>3 DEF LayerPops, Queued
  <2>3. QED
    BY <1>2, <1>5, <2>1, <2>2 DEF EndInv, OneEnd, MisledInv, RoomsInv, OwnPending
<1>8. LoginInv
  BY <1>2, <1>5 DEF LoginInv, CredentialsOnlyDuringLogin, UsesLastTyped, NameInv
<1>9. ChallInv
  <2>1. Inbound("challstr") = {}
    BY <1>4 DEF Inbound
  <2>2. srv.chall = Challenges /\ None \notin Challenges
    BY AppAssumption DEF Init
  <2>3. QED
    BY <1>2, <2>1, <2>2 DEF ChallInv
<1>10. ScreenInv
  BY <1>2 DEF ScreenInv, ScreenIsTop, PromptInv, PromptIsCurrent, AsAsked
<1>11. QED
  BY <1>6, <1>7, <1>8, <1>9, <1>10, InitTypes, IInvParts

LEMMA Invariance == Spec => []IInv
<1>1. IInv /\ [Next]_vars => IInv'
  BY StepIInv
<1>2. QED
  BY <1>1, InitIInv, PTL DEF Spec
-----------------------------------------------------------------------------
(* How the first battle ends.  pop_layer is given a battle that lies above *)
(* the offset, does not find it below, and removes what lies at the offset *)
(* instead: that is the battle as long as the offset is 1, which it is     *)
(* until the first pop, and never again.                                   *)

OneRoom == ~Elsewhere /\ spent = {} /\ \A x, y \in Rooms \ srv.rooms : x = y

(* The server runs a battle. *)
Playing == srv.own \cup srv.others # {}

(* The battle that ends, or will, is the first. *)
FirstBattle == srv.rooms = Rooms \/ Playing \/ Inbound("win") # {} \/ LayerPops # {}

BottomIsMenu ==
  /\ m_layers = <<>> /\ pc \notin {"done", "crashed"}
       => m_running /\ Queued("LayerPush") # {}
  /\ m_layers # <<>> => obj[m_layers[1]].kind = "menu"

NoOverlayPops == \A i \in Queued("LayerPop") : ~m_event_queue[i].overlay

RoomsTaken == Playing \/ Inbound("win") # {} \/ LayerPops # {} => srv.rooms # Rooms

OffsetFits == m_layers # <<>> /\ FirstBattle => m_layer_iterator_offset = 1

(* A battle that is over will be popped, unless the event was lost. *)
OverIsPopped ==
  \A l \in LayerIds :
    obj[l].over => obj[l].kind = "battle" /\ (LayerPops # {} \/ "LayerPop" \in lost)

FirstInv ==
  /\ IsFiniteSet(Rooms \ srv.rooms)
  /\ OneRoom =>
       /\ BottomIsMenu
       /\ m_running => NoOverlayPops /\ RoomsTaken /\ OffsetFits /\ OverIsPopped

PopsKept ==
  /\ LayerPops # {} => LayerPops' # {}
  /\ LayerPops' # {} => LayerPops # {} \/ Inbound("win") # {}
  /\ NoOverlayPops => NoOverlayPops'

LEMMA FirstKept ==
  ASSUME Types, StackFacts, FirstInv, UNCHANGED <<m_layers, m_layer_iterator_offset>>,
         spent' = {} => spent = {}, srv'.rooms = srv.rooms, Playing' => Playing,
         \A l \in LayerIds : obj'[l].kind = obj[l].kind,
         lost \subseteq lost', m_running' => m_running,
         pc' \notin {"done", "crashed"} => pc \notin {"done", "crashed"},
         m_running /\ Queued("LayerPush") # {} => UNCHANGED <<m_event_queue, m_running>>,
         m_running' =>
           /\ PopsKept /\ (Inbound("win")' # {} => Inbound("win") # {} \/ Playing)
           /\ \A l \in LayerIds :
                obj'[l].over =>
                  obj[l].over \/ (obj[l].kind = "battle" /\ (LayerPops' # {} \/ "LayerPop" \in lost'))
  PROVE  FirstInv'
<1>1. IsFiniteSet(Rooms \ srv'.rooms)
  BY DEF FirstInv
<1>2. OneRoom' => OneRoom
  BY DEF OneRoom
<1>3. SUFFICES ASSUME OneRoom
               PROVE  BottomIsMenu' /\ (m_running' => NoOverlayPops' /\ RoomsTaken' /\ OffsetFits'
                                                      /\ OverIsPopped')
  BY <1>1, <1>2 DEF FirstInv
<1>4. BottomIsMenu'
  <2>1. BottomIsMenu
    BY <1>3 DEF FirstInv
  <2>2. m_layers # <<>> => m_layers[1] \in LayerIds
    BY DEF StackFacts
  <2>3. m_running /\ Queued("LayerPush") # {} => m_running' /\ Queued("LayerPush")' # {}
    BY DEF Queued
  <2>4. QED
    BY <2>1, <2>2, <2>3 DEF BottomIsMenu
<1>5. ASSUME m_running'
      PROVE  NoOverlayPops' /\ RoomsTaken' /\ OffsetFits' /\ OverIsPopped'
  <2>1. NoOverlayPops /\ RoomsTaken /\ OffsetFits /\ OverIsPopped
    BY <1>3, <1>5 DEF FirstInv
  <2>2. NoOverlayPops'
    BY <1>5, <2>1 DEF PopsKept
  <2>3. RoomsTaken'
    BY <1>5, <2>1 DEF PopsKept, RoomsTaken
  <2>4. OffsetFits'
    BY <1>5, <2>1 DEF PopsKept, OffsetFits, FirstBattle
  <2>5. OverIsPopped'
    BY <1>5, <2>1 DEF PopsKept, OverIsPopped
  <2>6. QED
    BY <2>2, <2>3, <2>4, <2>5
<1>6. QED
  BY <1>4, <1>5

(* The pops in a queue whose events were in the last one, but for x, and   *)
(* that still has the pops of the last one. *)
LEMMA PopsCarried ==
  ASSUME NEW x \in Events,
         \A i \in 1 .. Len(m_event_queue') :
           m_event_queue'[i] = x \/ \E j \in 1 .. Len(m_event_queue) : m_event_queue'[i] = m_event_queue[j],
         \A j \in 1 .. Len(m_event_queue) :
           m_event_queue[j].type = "LayerPop" =>
             \E i \in 1 .. Len(m_event_queue') : m_event_queue'[i] = m_event_queue[j],
         x.type = "LayerPop" =>
           \/ \E j \in 1 .. Len(m_event_queue) : x = m_event_queue[j]
           \/ ~x.overlay /\ Inbound("win") # {}
  PROVE  PopsKept
<1>1. ASSUME NEW j \in LayerPops
      PROVE  LayerPops' # {}
  <2>1. /\ j \in 1 .. Len(m_event_queue) /\ m_event_queue[j].type = "LayerPop"
        /\ ~m_event_queue[j].overlay
    BY <1>1 DEF LayerPops, Queued
  <2>2. PICK i \in 1 .. Len(m_event_queue') : m_event_queue'[i] = m_event_queue[j]
    BY <2>1
  <2>3. i \in LayerPops'
    BY <2>1, <2>2 DEF LayerPops, Queued
  <2>4. QED
    BY <2>3
<1>2. ASSUME NEW i \in LayerPops'
      PROVE  LayerPops # {} \/ Inbound("win") # {}
  <2>1. /\ i \in 1 .. Len(m_event_queue') /\ m_event_queue'[i].type = "LayerPop"
        /\ ~m_event_queue'[i].overlay
    BY <1>2 DEF LayerPops, Queued
  <2>2. \/ \E j \in 1 .. Len(m_event_queue) : m_event_queue'[i] = m_event_queue[j]
        \/ Inbound("win") # {}
    BY <2>1
  <2>3. ASSUME NEW j \in 1 .. Len(m_event_queue), m_event_queue'[i] = m_event_queue[j]
        PROVE  j \in LayerPops
    BY <2>1, <2>3 DEF LayerPops, Queued
  <2>4. QED
    BY <2>2, <2>3
<1>3. ASSUME NoOverlayPops, NEW i \in Queued("LayerPop")'
      PROVE  ~m_event_queue'[i].overlay
  <2>1. i \in 1 .. Len(m_event_queue') /\ m_event_queue'[i].type = "LayerPop"
    BY <1>3 DEF Queued
  <2>2. \/ \E j \in 1 .. Len(m_event_queue) : m_event_queue'[i] = m_event_queue[j]
        \/ ~m_event_queue'[i].overlay
    BY <2>1
  <2>3. ASSUME NEW j \in 1 .. Len(m_event_queue), m_event_queue'[i] = m_event_queue[j]
        PROVE  ~m_event_queue'[i].overlay
    BY <1>3, <2>1, <2>3 DEF NoOverlayPops, Queued
  <2>4. QED
    BY <2>2, <2>3
<1>4. QED
  BY <1>1, <1>2, <1>3 DEF PopsKept, NoOverlayPops

LEMMA PopsStayPut ==
  ASSUME UNCHANGED m_event_queue
  PROVE  PopsKept
  BY DEF PopsKept, LayerPops, Queued, NoOverlayPops

(* An event is taken that is not a pop, and perhaps another comes in. *)
LEMMA PopsStay ==
  ASSUME QueueTypes, m_event_queue # <<>>, Head(m_event_queue).type # "LayerPop",
         \/ m_event_queue' = Tail(m_event_queue)
         \/ \E x \in Events : x.type # "LayerPop" /\ Submitted(Tail(m_event_queue), x)
  PROVE  PopsKept
<1> DEFINE n == Len(m_event_queue)
<1>1. m_event_queue \in Seq(Events)
  BY DEF QueueTypes
<1>2. PICK rest \in Seq(Events) : rest = Tail(m_event_queue)
  BY <1>1, HeadTail
<1>3. PICK h \in Events : h = Head(m_event_queue)
  BY <1>1, HeadTail
<1>4. /\ n \in Nat \ {0} /\ h = m_event_queue[1] /\ h.type # "LayerPop" /\ Len(rest) = n - 1
      /\ \A i \in 1 .. n - 1 : rest[i] = m_event_queue[i + 1] /\ i + 1 \in 1 .. n
  BY <1>1, <1>2, <1>3, HeadTail
<1> HIDE DEF n
<1>5. \A i \in 1 .. Len(rest) : \E j \in 1 .. n : rest[i] = m_event_queue[j]
  BY <1>4
<1>6. ASSUME NEW j \in 1 .. n, m_event_queue[j].type = "LayerPop"
      PROVE  \E i \in 1 .. Len(rest) : rest[i] = m_event_queue[j]
  <2>1. j # 1
    BY <1>4, <1>6
  <2>2. j - 1 \in 1 .. n - 1 /\ j - 1 + 1 = j
    BY <1>4, <2>1
  <2>3. QED
    BY <1>4, <2>2
<1>7. CASE m_event_queue' = Tail(m_event_queue)
  <2>1. m_event_queue' = rest
    BY <1>2, <1>7
  <2>2. QED
    BY <1>4, <1>5, <1>6, <2>1, PopsCarried DEF n
<1>8. CASE \E x \in Events : x.type # "LayerPop" /\ Submitted(Tail(m_event_queue), x)
  <2>1. PICK x \in Events : x.type # "LayerPop" /\ Submitted(rest, x)
    BY <1>2, <1>8
  <2>2. \A i \in 1 .. Len(m_event_queue') :
          m_event_queue'[i] = x \/ \E j \in 1 .. Len(rest) : m_event_queue'[i] = rest[j]
    BY <2>1, SubmittedEvents
  <2>3. \A i \in 1 .. Len(rest) : i \in 1 .. Len(m_event_queue') /\ m_event_queue'[i] = rest[i]
    <3>1. CASE m_event_queue' = rest
      BY <3>1
    <3>2. CASE m_event_queue' = Append(rest, x)
      <4>1. /\ Len(m_event_queue') = Len(rest) + 1
            /\ \A i \in 1 .. Len(rest) : m_event_queue'[i] = rest[i] /\ i \in 1 .. Len(rest) + 1
        BY <3>2, Appended
      <4>2. QED
        BY <4>1
    <3>3. QED
      BY <2>1, <3>1, <3>2 DEF Submitted
  <2>4. \A i \in 1 .. Len(m_event_queue') :
          m_event_queue'[i] = x \/ \E j \in 1 .. n : m_event_queue'[i] = m_event_queue[j]
    <3>1. TAKE i \in 1 .. Len(m_event_queue')
    <3>2. CASE \E j \in 1 .. Len(rest) : m_event_queue'[i] = rest[j]
      <4>1. PICK j \in 1 .. Len(rest) : m_event_queue'[i] = rest[j]
        BY <3>2
      <4>2. PICK k \in 1 .. n : rest[j] = m_event_queue[k]
        BY <1>5
      <4>3. QED
        BY <4>1, <4>2
    <3>3. QED
      BY <2>2, <3>2
  <2>5. ASSUME NEW j \in 1 .. n, m_event_queue[j].type = "LayerPop"
        PROVE  \E i \in 1 .. Len(m_event_queue') : m_event_queue'[i] = m_event_queue[j]
    <3>1. PICK i \in 1 .. Len(rest) : rest[i] = m_event_queue[j]
      BY <1>6, <2>5
    <3>2. QED
      BY <2>3, <3>1
  <2>6. QED
    BY <2>1, <2>4, <2>5, PopsCarried DEF n
<1>9. QED
  BY <1>7, <1>8

(* An event comes in. *)
LEMMA PopsJoined ==
  ASSUME QueueTypes, NEW x \in Events, Submitted(m_event_queue, x),
         x.type = "LayerPop" => ~x.overlay /\ Inbound("win") # {}
  PROVE  /\ PopsKept /\ lost \subseteq lost'
         /\ x.type = "LayerPop" => LayerPops' # {} \/ "LayerPop" \in lost'
<1>1. m_event_queue \in Seq(Events)
  BY DEF QueueTypes
<1>2. \A i \in 1 .. Len(m_event_queue') :
        m_event_queue'[i] = x \/ \E j \in 1 .. Len(m_event_queue) : m_event_queue'[i] = m_event_queue[j]
  BY <1>1, SubmittedEvents
<1>3. \A i \in 1 .. Len(m_event_queue) :
        i \in 1 .. Len(m_event_queue') /\ m_event_queue'[i] = m_event_queue[i]
  BY <1>1, Appended DEF Submitted
<1>4. PopsKept
  BY <1>2, <1>3, PopsCarried
<1>5. ASSUME m_event_queue' = Append(m_event_queue, x), x.type = "LayerPop"
      PROVE  LayerPops' # {}
  <2>1. /\ Len(m_event_queue) \in Nat /\ Len(m_event_queue') = Len(m_event_queue) + 1
        /\ m_event_queue'[Len(m_event_queue) + 1] = x
    BY <1>1, <1>5, Appended
  <2>2. Len(m_event_queue) + 1 \in LayerPops'
    BY <1>5, <2>1 DEF LayerPops, Queued
  <2>3. QED
    BY <2>2
<1>6. QED
  BY <1>4, <1>5 DEF Submitted

(* No message but the one that ends the battle, and no command, makes it    *)
(* one that is over.                                                       *)
LEMMA OverAfterMessage ==
  ASSUME NEW b \in Layers, NEW m \in Messages, BattleReacts(b, Message(m)).over
  PROVE  b.over \/ m.type = "win"
  BY DEF BattleReacts, Message, ApplyRequest, Layers

LEMMA OverAfterCommand ==
  ASSUME NEW b \in Layers, NEW e, e.type = "Command"
  PROVE  BattleReacts(b, e).over = b.over
  BY DEF BattleReacts, Layers

-----------------------------------------------------------------------------
(* Each action keeps FirstInv. *)

LEMMA QuietFirst ==
  ASSUME Types, StackInv, FirstInv, QuietStep
  PROVE  FirstInv'
<1>1. Quiet /\ PcKept /\ StackFacts
  BY QuietSteps, StackIs DEF StackInv, Types
<1>2. /\ UNCHANGED <<m_layers, m_layer_iterator_offset, obj, m_event_queue, m_running, lost>>
      /\ UNCHANGED <<m_inbound, srv, spent>>
  BY <1>1 DEF Quiet, clientVars, stackVars, vectorVars, ghostVars
<1>3. pc' \notin {"done", "crashed"} => pc \notin {"done", "crashed"}
  BY DEF QuietStep, Start, StartUnresolved, NetworkDrained, ReadNothing, Render, Shutdown,
     CloseHangs, ConnectionLost, LoginServerHangs, vars
<1>4. PopsKept /\ Inbound("win")' = Inbound("win") /\ Playing' = Playing
  BY <1>2, PopsStayPut DEF Inbound, Playing
<1>5. QED
  BY <1>1, <1>2, <1>3, <1>4, FirstKept

(* Only a battle that begins is taken off the list, and only one that the  *)
(* server runs comes to an end.                                            *)
LEMMA ServerRooms ==
  ASSUME Types, ServerStep
  PROVE  /\ \/ srv'.rooms = srv.rooms /\ (Playing' => Playing)
            \/ \E r \in srv.rooms : srv'.rooms = srv.rooms \ {r}
         /\ \E m \in Messages : Deliver(m) /\ (m.type = "win" => Playing)
<1>1. SrvOK
  BY DEF Types
<1>2. CASE \E m \in Messages : SendsOther(m)
  BY <1>2 DEF SendsOther, Playing
<1>3. CASE SendsTalk
  <2>1. PICK m \in {UpdateSearch(srv.own \cup srv.others), ChatMessage} : Deliver(m)
    BY <1>3 DEF SendsTalk
  <2>2. m \in Messages /\ m.type # "win"
    BY <1>1, MessagesAre DEF SrvOK, UpdateSearch, ChatMessage
  <2>3. QED
    BY <1>3, <2>1, <2>2 DEF SendsTalk, Playing
<1>4. CASE SendsBattle
  <2>1. PICK r \in srv.rooms : Begins(r) /\ Deliver(UpdateSearch(srv'.own \cup srv'.others))
    BY <1>4 DEF SendsBattle
  <2>2. PICK m \in Messages : m = UpdateSearch(srv'.own \cup srv'.others)
    BY ServerSteps, MessagesAre DEF SrvOK
  <2>3. m.type # "win" /\ srv'.rooms = srv.rooms \ {r}
    BY <1>1, <2>1, <2>2 DEF UpdateSearch, Begins, SrvOK
  <2>4. QED
    BY <2>1, <2>2, <2>3
<1>5. CASE SendsEnd
  <2>1. PICK r \in srv.own \cup srv.others :
          srv' = [srv EXCEPT !.own = @ \ {r}, !.others = @ \ {r}] /\ Deliver(WinMessage)
    BY <1>5 DEF SendsEnd
  <2>2. srv'.rooms = srv.rooms /\ Playing
    BY <1>1, <2>1 DEF SrvOK, Playing
  <2>3. QED
    BY <2>1, <2>2, MessagesAre
<1>6. QED
  BY <1>2, <1>3, <1>4, <1>5, ServerSteps

LEMMA ServerFirst ==
  ASSUME Types, StackInv, FirstInv, ServerStep
  PROVE  FirstInv'
<1>1. StackFacts /\ InboundTypes
  BY StackIs, TypeParts DEF StackInv, Types
<1>2. PICK m \in Messages : Deliver(m) /\ (m.type = "win" => Playing)
  BY ServerRooms
<1>3. /\ UNCHANGED <<pc, m_running, m_layers, m_layer_iterator_offset, obj, m_event_queue, lost>>
      /\ UNCHANGED spent /\ Client!Receive(m)
  BY <1>2 DEF Deliver, stackVars, vectorVars, ghostVars, Client!Receive, Client!credVars
<1>4. \A i \in Inbound("win")' : i \in Inbound("win") \/ Playing
  BY <1>1, <1>2, <1>3, InboundAppended
<1>5. PopsKept
  BY <1>3, PopsStayPut
<1>6. CASE srv'.rooms = srv.rooms /\ (Playing' => Playing)
  BY <1>1, <1>3, <1>4, <1>5, <1>6, FirstKept
<1>7. CASE \E r \in srv.rooms : srv'.rooms = srv.rooms \ {r}
  <2>1. PICK r \in srv.rooms : srv'.rooms = srv.rooms \ {r}
    BY <1>7
  <2>2. srv.rooms \subseteq Rooms
    BY DEF Types, SrvOK
  <2>3. Rooms \ srv'.rooms = (Rooms \ srv.rooms) \cup {r}
    BY <2>1, <2>2
  <2>4. IsFiniteSet(Rooms \ srv'.rooms)
    BY <2>3, FS_AddElement DEF FirstInv
  <2>5. SUFFICES ASSUME OneRoom'
                 PROVE  /\ BottomIsMenu'
                        /\ m_running' => NoOverlayPops' /\ RoomsTaken' /\ OffsetFits' /\ OverIsPopped'
    BY <2>4 DEF FirstInv
  <2>6. ~Elsewhere /\ spent = {} /\ srv.rooms = Rooms /\ srv'.rooms # Rooms
    <3>1. \A x \in Rooms \ srv.rooms : x = r
      BY <2>3, <2>5 DEF OneRoom
    <3>2. QED
      BY <1>3, <2>1, <2>2, <2>5, <3>1 DEF OneRoom
  <2>7. OneRoom
    BY <2>6 DEF OneRoom
  <2>8. BottomIsMenu'
    BY <1>3, <2>7 DEF FirstInv, BottomIsMenu, Queued
  <2>9. ASSUME m_running'
        PROVE  NoOverlayPops' /\ RoomsTaken' /\ OffsetFits' /\ OverIsPopped'
    <3>1. NoOverlayPops /\ OffsetFits /\ OverIsPopped
      BY <1>3, <2>7, <2>9 DEF FirstInv
    <3>2. NoOverlayPops' /\ OverIsPopped'
      BY <1>3, <3>1 DEF NoOverlayPops, OverIsPopped, LayerPops, Queued
    <3>3. RoomsTaken'
      BY <2>6 DEF RoomsTaken
    <3>4. OffsetFits'
      BY <1>3, <2>6, <3>1 DEF OffsetFits, FirstBattle
    <3>5. QED
      BY <3>2, <3>3, <3>4
  <2>10. QED
    BY <2>8, <2>9
<1>8. QED
  BY <1>6, <1>7, ServerRooms

LEMMA MessageFirst ==
  ASSUME Types, StackInv, FirstInv, ProcessMessage
  PROVE  FirstInv'
<1>1. Shape /\ QueueShape /\ StackFacts /\ InboundTypes /\ QueueTypes
  BY StackIs, TypeParts DEF StackInv, Types
<1>2. PICK m \in Messages : m = Head(m_inbound)
  BY <1>1, MessageChanges
<1>3. /\ m_inbound # <<>> /\ m_inbound' = Tail(m_inbound)
      /\ obj' = IF TopIs("battle")
                THEN [obj EXCEPT ![Top] = BattleReacts(obj[Top], Message(m))] ELSE obj
      /\ IF TopIs("battle") /\ m.type = "win"
         THEN Submitted(m_event_queue, LayerPop(Top, FALSE))
         ELSE IF TopIs("battle") /\ m.type = "request"
         THEN Submitted(m_event_queue, BattleJoin)
         ELSE UNCHANGED <<m_event_queue, lost>>
      /\ TopIs("battle") => LayerPop(Top, FALSE) \in Events
  BY <1>1, <1>2, MessageChanges
<1>4. /\ UNCHANGED <<pc, m_running, m_layers, m_layer_iterator_offset, srv, spent>>
  BY DEF ProcessMessage, Client!Poll, vectorVars
<1>5. /\ Inbound("win")' # {} => Inbound("win") # {}
      /\ m.type = "win" => Inbound("win") # {}
  BY <1>1, <1>2, <1>3, InboundTail
<1>6. \A l \in LayerIds : obj'[l].kind = obj[l].kind
  BY <1>1, MessageKinds DEF KindsKept
<1>7. \/ UNCHANGED <<m_event_queue, lost>> /\ ~(TopIs("battle") /\ m.type = "win")
      \/ \E x \in Events : /\ TopIs("battle") /\ Submitted(m_event_queue, x)
                           /\ x.type = "LayerPop" => ~x.overlay /\ m.type = "win"
                           /\ m.type = "win" => x.type = "LayerPop"
  <2>1. BattleJoin \in Events /\ BattleJoin.type # "LayerPop"
    BY EventsAre DEF BattleJoin
  <2>2. LayerPop(Top, FALSE).type = "LayerPop" /\ ~LayerPop(Top, FALSE).overlay
    BY DEF LayerPop
  <2>3. QED
    BY <1>3, <2>1, <2>2
<1>8. /\ PopsKept /\ lost \subseteq lost'
      /\ TopIs("battle") /\ m.type = "win" => LayerPops' # {} \/ "LayerPop" \in lost'
  <2>1. CASE UNCHANGED <<m_event_queue, lost>> /\ ~(TopIs("battle") /\ m.type = "win")
    BY <2>1, PopsStayPut
  <2>2. CASE \E x \in Events : /\ TopIs("battle") /\ Submitted(m_event_queue, x)
                               /\ x.type = "LayerPop" => ~x.overlay /\ m.type = "win"
                               /\ m.type = "win" => x.type = "LayerPop"
    BY <1>1, <1>5, <2>2, PopsJoined
  <2>3. QED
    BY <1>7, <2>1, <2>2
<1>9. m_running /\ Queued("LayerPush") # {} => UNCHANGED <<m_event_queue, m_running>>
  <2>1. m_running /\ Queued("LayerPush") # {} => ~TopIs("battle")
    BY <1>1, PushIsAlone DEF TopIs
  <2>2. QED
    BY <1>4, <1>7, <2>1
<1>10. ASSUME NEW l \in LayerIds, obj'[l].over
       PROVE  \/ obj[l].over
              \/ obj[l].kind = "battle" /\ (LayerPops' # {} \/ "LayerPop" \in lost')
  <2>1. CASE TopIs("battle") /\ l = Top
    <3>1. PICK b \in Layers : b = obj[l]
      BY DEF Types, TypeOK
    <3>2. obj'[l] = BattleReacts(b, Message(m)) /\ b.kind = "battle"
      BY <1>3, <2>1, <3>1 DEF TopIs, Types, TypeOK
    <3>3. b.over \/ m.type = "win"
      BY <1>10, <3>2, OverAfterMessage
    <3>4. QED
      BY <1>8, <2>1, <3>1, <3>2, <3>3
  <2>2. CASE ~(TopIs("battle") /\ l = Top)
    BY <1>3, <1>10, <2>2 DEF Types, TypeOK
  <2>3. QED
    BY <2>1, <2>2
<1>11. Playing' = Playing
  BY <1>4 DEF Playing
<1>12. QED
  BY <1>1, <1>4, <1>5, <1>6, <1>8, <1>9, <1>10, <1>11, FirstKept

LEMMA CommandFirst ==
  ASSUME Types, StackInv, FirstInv, PollCommand
  PROVE  FirstInv'
<1>1. Shape /\ QueueShape /\ StackFacts /\ QueueTypes
  BY StackIs, TypeParts DEF StackInv, Types
<1>2. PICK e \in Events : e = Head(m_event_queue) /\ e.type = "Command"
  BY <1>1, CommandChanges
<1>3. /\ m_event_queue # <<>>
      /\ obj' = IF TopIs("battle") THEN [obj EXCEPT ![Top] = BattleReacts(obj[Top], e)] ELSE obj
      /\ IF TopIs("menu") /\ e.cmd = "1" THEN Submitted(Tail(m_event_queue), BattleSearch)
         ELSE IF TopIs("menu") /\ e.cmd \in {"2", "3"}
         THEN Submitted(Tail(m_event_queue), LoginEvent)
         ELSE IF TopIs("menu") /\ e.cmd = "q"
         THEN Submitted(Tail(m_event_queue), LayerPop(Top, FALSE))
         ELSE m_event_queue' = Tail(m_event_queue) /\ lost' = lost
      /\ m_running' = (e.cmd # "q")
  BY <1>1, <1>2, CommandChanges
<1>4. /\ UNCHANGED <<pc, m_layers, m_layer_iterator_offset, m_inbound, spent>> /\ m_running
      /\ srv' = srv
  BY DEF PollCommand, Polling, vectorVars, clientVars
<1>5. Inbound("win")' = Inbound("win") /\ Playing' = Playing
  BY <1>4 DEF Inbound, Playing
<1>6. \A l \in LayerIds : obj'[l].kind = obj[l].kind
  BY <1>1, CommandKinds DEF KindsKept
<1>7. Queued("LayerPush") = {}
  BY <1>1, HeadCommand DEF PollCommand
<1>8. lost \subseteq lost'
  BY <1>3 DEF Submitted
<1>9. ASSUME m_running'
      PROVE  PopsKept
  <2>1. \/ m_event_queue' = Tail(m_event_queue)
        \/ \E x \in Events : x.type # "LayerPop" /\ Submitted(Tail(m_event_queue), x)
    <3>1. /\ BattleSearch \in Events /\ BattleSearch.type # "LayerPop"
          /\ LoginEvent \in Events /\ LoginEvent.type # "LayerPop"
      BY EventsAre DEF BattleSearch, LoginEvent
    <3>2. QED
      BY <1>3, <1>9, <3>1
  <2>2. QED
    BY <1>1, <1>2, <1>3, <2>1, PopsStay
<1>10. ASSUME NEW l \in LayerIds, obj'[l].over
       PROVE  obj[l].over
  <2>1. CASE TopIs("battle") /\ l = Top
    <3>1. PICK b \in Layers : b = obj[l]
      BY DEF Types, TypeOK
    <3>2. obj'[l] = BattleReacts(b, e)
      BY <1>3, <2>1, <3>1 DEF Types, TypeOK
    <3>3. QED
      BY <1>2, <1>10, <3>1, <3>2, OverAfterCommand
  <2>2. CASE ~(TopIs("battle") /\ l = Top)
    BY <1>3, <1>10, <2>2 DEF Types, TypeOK
  <2>3. QED
    BY <2>1, <2>2
<1>11. QED
  BY <1>1, <1>4, <1>5, <1>6, <1>7, <1>8, <1>9, <1>10, FirstKept

(* The steps that take an event no layer answers, that read a line, or     *)
(* that fail to log in *)
LEMMA OtherFirst ==
  ASSUME Types, StackInv, LoginInv, FirstInv,
         \/ LoginTaken \/ PollBattleJoin \/ PollEnds \/ AuthFails
         \/ \E c \in Commands : ReadLine(c)
  PROVE  FirstInv'
<1>1. Shape /\ QueueShape /\ StackFacts /\ QueueTypes /\ obj \in [LayerIds -> Layers]
  BY StackIs, TypeParts DEF StackInv, Types, TypeOK
<1>2. ASSUME UNCHANGED <<m_layers, m_layer_iterator_offset, m_inbound, spent, srv>>,
             \A l \in LayerIds : obj'[l].kind = obj[l].kind /\ obj'[l].over = obj[l].over,
             lost \subseteq lost', m_running' => m_running /\ PopsKept,
             pc' \notin {"done", "crashed"} => pc \notin {"done", "crashed"},
             m_running /\ Queued("LayerPush") # {} => UNCHANGED <<m_event_queue, m_running>>
      PROVE  FirstInv'
  <2>1. Inbound("win")' = Inbound("win") /\ Playing' = Playing
    BY <1>2 DEF Inbound, Playing
  <2>2. QED
    BY <1>1, <1>2, <2>1, FirstKept
<1>3. CASE LoginTaken
  <2>1. /\ m_running /\ m_event_queue # <<>> /\ Head(m_event_queue).type = "Command"
        /\ pc = "poll" /\ m_event_queue' = Tail(m_event_queue) /\ pc' \in {"poll", "auth"}
        /\ \E b \in BOOLEAN : obj' = [obj EXCEPT ![Top].named = b]
    BY <1>1, <1>3, LoginChanges DEF Client!CanAsk
  <2>2. UNCHANGED <<m_layers, m_layer_iterator_offset, m_inbound, spent, srv, lost>>
    BY <1>3 DEF LoginTaken, LoginName, LoginPassword, vectorVars, Client!SetUsername,
       Client!SetPassword
  <2>3. Queued("LayerPush") = {}
    BY <1>1, <1>3, HeadCommand DEF LoginTaken, LoginName, LoginPassword
  <2>4. \A l \in LayerIds : obj'[l].kind = obj[l].kind /\ obj'[l].over = obj[l].over
    BY <1>1, <2>1 DEF Layers
  <2>5. PopsKept
    BY <1>1, <2>1, PopsStay
  <2>6. QED
    BY <1>2, <2>1, <2>2, <2>3, <2>4, <2>5
<1>4. CASE PollBattleJoin
  <2>1. /\ m_running /\ m_event_queue # <<>> /\ Head(m_event_queue).type = "BattleJoin"
        /\ m_event_queue' = Tail(m_event_queue)
        /\ UNCHANGED <<pc, m_running, m_layers, m_layer_iterator_offset, obj, m_inbound, spent>>
        /\ UNCHANGED <<srv, lost>>
    BY <1>4 DEF PollBattleJoin, Polling, stackVars, vectorVars, clientVars, pollRest, historyRest
  <2>2. Queued("LayerPush") = {}
    BY <1>1, <2>1, PushIsAlone
  <2>3. PopsKept
    BY <1>1, <2>1, PopsStay
  <2>4. QED
    BY <1>2, <2>1, <2>2, <2>3
<1>5. CASE PollEnds
  <2>1. /\ pc = "poll" /\ pc' = "input"
        /\ m_running => UNCHANGED m_event_queue
        /\ UNCHANGED <<m_running, m_layers, m_layer_iterator_offset, obj, m_inbound, spent>>
        /\ UNCHANGED <<srv, lost>>
    BY <1>5 DEF PollEnds, stackVars, vectorVars, clientVars, pollRest, historyRest
  <2>2. m_running => PopsKept
    BY <2>1, PopsStayPut
  <2>3. QED
    BY <1>2, <2>1, <2>2
<1>6. CASE AuthFails
  <2>1. /\ pc = "auth" /\ pc' = "poll" /\ obj' = [obj EXCEPT ![Top].named = FALSE]
        /\ UNCHANGED <<m_running, m_layers, m_layer_iterator_offset, m_inbound, spent>>
        /\ UNCHANGED <<srv, lost, m_event_queue>>
    BY <1>6 DEF AuthFails, vectorVars, clientVars, authRest, historyRest
  <2>2. \A l \in LayerIds : obj'[l].kind = obj[l].kind /\ obj'[l].over = obj[l].over
    BY <1>1, <2>1 DEF Layers
  <2>3. QED
    BY <1>2, <2>1, <2>2, PopsStayPut
<1>7. ASSUME NEW c \in Commands, ReadLine(c)
      PROVE  FirstInv'
  <2>1. /\ pc = "input" /\ pc' = "render"
        /\ UNCHANGED <<m_running, m_layers, m_layer_iterator_offset, obj, m_inbound, spent, srv>>
    BY <1>7 DEF ReadLine, stackVars, vectorVars, clientVars
  <2>2. PICK x \in Events : x = Command(c)
    BY <1>1, <1>7, LineChanges
  <2>3. Submitted(m_event_queue, x) /\ x.type = "Command"
    BY <1>1, <1>7, <2>2, LineChanges DEF Command
  <2>4. PopsKept /\ lost \subseteq lost'
    BY <1>1, <2>3, PopsJoined
  <2>5. m_running => Queued("LayerPush") = {}
    BY <1>1, <2>1, PushIsAlone DEF QueueShape
  <2>6. QED
    BY <1>2, <2>1, <2>4, <2>5
<1>8. QED
  BY <1>3, <1>4, <1>5, <1>6, <1>7

(* A login that succeeds, and the end of the program, leave nothing to     *)
(* show.                                                                   *)
LEMMA EndsFirst ==
  ASSUME Types, StackInv, FirstInv, AuthSucceeds \/ Exit
  PROVE  FirstInv'
<1>1. CASE AuthSucceeds
  <2>1. srv' = [srv EXCEPT !.trn = TRUE] /\ spent' = spent \cup {m_chall_str}
    BY <1>1 DEF AuthSucceeds, Client!LoggedIn
  <2>2. srv'.rooms = srv.rooms /\ spent' # {}
    BY <2>1 DEF Types, SrvOK
  <2>3. QED
    BY <2>2 DEF FirstInv, OneRoom
<1>2. CASE Exit
  <2>1. /\ pc' = "done" /\ m_layers' = <<>> /\ m_running' = m_running /\ srv' = srv
        /\ ~m_running
    BY <1>2 DEF Exit, Stack!Destroy, StackInv, LoopInv
  <2>2. BottomIsMenu'
    BY <2>1 DEF BottomIsMenu
  <2>3. QED
    BY <2>1, <2>2 DEF FirstInv
<1>3. QED
  BY <1>1, <1>2

(* The menu is pushed, and the offset is 1. *)
LEMMA LayerPushFirst ==
  ASSUME Types, StackInv, FirstInv, PollLayerPush
  PROVE  FirstInv'
<1>1. Shape /\ QueueShape /\ QueueTypes
  BY TypeParts DEF StackInv, Types
<1>2. PICK l \in LayerIds : /\ obj[l] = Menu /\ m_layers' = <<l>>
                            /\ m_layer_iterator_offset' = 1
  BY <1>1, LayerPushChanges
<1>3. /\ UNCHANGED <<pc, m_running, obj, m_inbound, spent, srv, lost>>
      /\ m_running /\ m_event_queue # <<>> /\ Head(m_event_queue).type = "LayerPush"
      /\ m_event_queue' = Tail(m_event_queue)
  BY DEF PollLayerPush, Polling, clientVars, pollRest, historyRest
<1>4. PopsKept /\ Inbound("win")' = Inbound("win") /\ Playing' = Playing
  BY <1>1, <1>3, PopsStay DEF Inbound, Playing
<1>5. m_layers'[1] = l /\ obj[l].kind = "menu" /\ m_layers' # <<>>
  BY <1>2, NewLayers
<1>6. BottomIsMenu' /\ OffsetFits'
  BY <1>2, <1>3, <1>5 DEF BottomIsMenu, OffsetFits
<1>7. SUFFICES ASSUME OneRoom
               PROVE  NoOverlayPops' /\ RoomsTaken' /\ OverIsPopped'
  BY <1>3, <1>6 DEF FirstInv, OneRoom
<1>8. NoOverlayPops /\ RoomsTaken /\ OverIsPopped
  BY <1>3, <1>7 DEF FirstInv
<1>9. NoOverlayPops'
  BY <1>4, <1>8 DEF PopsKept
<1>10. RoomsTaken'
  BY <1>3, <1>4, <1>8 DEF PopsKept, RoomsTaken
<1>11. OverIsPopped'
  BY <1>3, <1>4, <1>8 DEF PopsKept, OverIsPopped
<1>12. QED
  BY <1>9, <1>10, <1>11

(* A screen is opened on the menu; the offset stays. *)
LEMMA OpeningFirst ==
  ASSUME Types, StackInv, FirstInv, PollLogin \/ PollBattleSearch
  PROVE  FirstInv'
<1>1. Shape /\ QueueShape /\ StackFacts /\ obj \in [LayerIds -> Layers]
  BY StackIs DEF StackInv, Types, TypeOK
<1>2. PICK l \in LayerIds, b \in Layers : Opens(l, b) /\ ~b.over
  <2>1. Login \in Layers /\ ~Login.over /\ \A b \in Battles : b \in Layers /\ ~b.over
    <3>1. Login \in Layers /\ Battles \subseteq Layers
      BY NewLayers
    <3>2. ~Login.over
      BY DEF Login, Free
    <3>3. \A b \in Battles : ~b.over
      BY DEF Battles, Free
    <3>4. QED
      BY <3>1, <3>2, <3>3
  <2>2. CASE PollLogin
    BY <1>1, <2>1, <2>2, PollLoginChanges
  <2>3. CASE PollBattleSearch
    BY <1>1, <2>1, <2>3, SearchChanges
  <2>4. QED
    BY <2>2, <2>3
<1>3. /\ UNCHANGED <<pc, m_running, m_inbound, spent, lost>> /\ m_running
      /\ srv'.rooms = srv.rooms /\ Playing' = Playing
  BY DEF PollLogin, PollBattleSearch, Polling, clientVars, pollRest, historyRest, Types, SrvOK,
     Playing
<1>4. PICK x \in LayerIds \ {l} : m_layers = <<x>> /\ m_layers' = <<x, l>> /\ obj[x].kind = "menu"
  BY <1>2 DEF Opens
<1>5. /\ m_layers # <<>> /\ m_layers' # <<>> /\ m_layers'[1] = x /\ Top = x
      /\ obj' = [obj EXCEPT ![l] = b] /\ m_event_queue' = <<>>
      /\ UNCHANGED m_layer_iterator_offset
  BY <1>2, <1>4 DEF Opens, Top, Last
<1>6. BottomIsMenu'
  BY <1>1, <1>4, <1>5 DEF BottomIsMenu
<1>7. LayerPops' = {} /\ NoOverlayPops' /\ Inbound("win")' = Inbound("win")
  BY <1>3, <1>5 DEF LayerPops, NoOverlayPops, Queued, Inbound
<1>8. SUFFICES ASSUME OneRoom
               PROVE  RoomsTaken' /\ OffsetFits' /\ OverIsPopped'
  BY <1>3, <1>6, <1>7 DEF FirstInv, OneRoom
<1>9. RoomsTaken /\ OffsetFits /\ OverIsPopped
  BY <1>3, <1>8 DEF FirstInv
<1>10. RoomsTaken'
  BY <1>3, <1>7, <1>9 DEF RoomsTaken
<1>11. OffsetFits'
  BY <1>3, <1>5, <1>7, <1>9 DEF OffsetFits, FirstBattle
<1>12. \A k \in LayerIds : ~obj'[k].over
  <2>1. \A k \in LayerIds : obj[k].kind # "battle"
    BY <1>1, <1>4, <1>5 DEF StackFacts
  <2>2. \A k \in LayerIds : ~obj[k].over
    BY <1>9, <2>1 DEF OverIsPopped
  <2>3. QED
    BY <1>1, <1>2, <1>5, <2>2
<1>13. QED
  BY <1>10, <1>11, <1>12 DEF OverIsPopped

(* The one pop there may be: its battle is at the offset. *)
LEMMA LayerPopFirst ==
  ASSUME Types, StackInv, EndInv, FirstInv, PollLayerPop
  PROVE  FirstInv'
<1>1. Shape /\ QueueShape /\ QueueTypes /\ StackFacts /\ obj \in [LayerIds -> Layers]
  BY StackIs, TypeParts DEF StackInv, Types, TypeOK
<1>2. /\ UNCHANGED <<m_running, m_inbound, spent, srv, lost>> /\ m_running
      /\ m_event_queue # <<>> /\ Head(m_event_queue).type = "LayerPop"
      /\ obj' = Freed(obj)
  BY DEF PollLayerPop, Polling, clientVars, pollRest, historyRest
<1>3. SUFFICES ASSUME OneRoom
               PROVE  /\ BottomIsMenu'
                      /\ m_running' => NoOverlayPops' /\ RoomsTaken' /\ OffsetFits' /\ OverIsPopped'
  BY <1>2 DEF FirstInv, OneRoom
<1>4. /\ \A i \in 1 .. Len(m_event_queue') : m_event_queue'[i].type = "BattleJoin"
      /\ Inbound("win") = {} /\ ~Playing
      /\ ~Head(m_event_queue).overlay => TopIs("battle")
  <2>1. ~Elsewhere
    BY <1>3 DEF OneRoom
  <2>2. /\ \A i \in 1 .. Len(m_event_queue') : m_event_queue'[i].type = "BattleJoin"
        /\ Inbound("win") = {} /\ ~OwnPending
    BY <2>1, PopsBehind
  <2>3. ~Head(m_event_queue).overlay => TopIs("battle")
    BY <2>1, PopsBehind DEF Gone
  <2>4. srv.others = {}
    BY <2>1 DEF EndInv, RoomsInv
  <2>5. QED
    BY <2>2, <2>3, <2>4 DEF OwnPending, Playing
<1>5. /\ LayerPops' = {} /\ NoOverlayPops' /\ Inbound("win")' = {} /\ ~Playing'
  BY <1>2, <1>4 DEF LayerPops, NoOverlayPops, Queued, Inbound, Playing
<1>6. BottomIsMenu /\ NoOverlayPops /\ RoomsTaken /\ OffsetFits /\ OverIsPopped
  BY <1>2, <1>3 DEF FirstInv
<1>7. PICK e \in Events : e = Head(m_event_queue)
  BY <1>1, <1>2, TailTypes
<1>8. 1 \in 1 .. Len(m_event_queue) /\ e = m_event_queue[1] /\ e.type = "LayerPop" /\ ~e.overlay
  <2>1. 1 \in 1 .. Len(m_event_queue) /\ e = m_event_queue[1] /\ 1 \in Queued("LayerPop")
    BY <1>1, <1>2, <1>7, HeadIsQueued
  <2>2. QED
    BY <1>2, <1>6, <1>7, <2>1 DEF NoOverlayPops
<1>9. LayerPops # {} /\ TopIs("battle") /\ e.layer = Top
  <2>1. 1 \in LayerPops
    BY <1>8 DEF LayerPops, Queued
  <2>2. EventFits(e, 1, Len(m_event_queue))
    BY <1>1, <1>2, <1>8 DEF QueueShape
  <2>3. QED
    BY <1>3, <1>8, <2>1, <2>2 DEF EventFits, Gone, OneRoom
<1>10. srv.rooms # Rooms /\ m_layer_iterator_offset = 1
  BY <1>6, <1>9 DEF RoomsTaken, OffsetFits, FirstBattle, TopIs
<1>11. PICK s \in Seq(LayerIds) : s = m_layers
  BY <1>1 DEF StackFacts
<1>12. Len(s) = 2 /\ Top = s[2] /\ s[1] # s[2] /\ obj[s[1]].kind = "menu" /\ s[1] \in LayerIds
  <2>1. m_layers # <<>> /\ obj[Top].kind = "battle"
    BY <1>9 DEF TopIs
  <2>2. Len(s) \in 1 .. 2 /\ Top = s[Len(s)] /\ obj[s[1]].kind = "menu"
    BY <1>1, <1>6, <1>11, <2>1 DEF StackFacts, BottomIsMenu
  <2>3. QED
    BY <1>11, <2>1, <2>2
<1>13. Stack!Erase(2)
  <2>1. Stack!PopLayer(Top)
    BY <1>7, <1>8, <1>9 DEF PollLayerPop
  <2>2. Stack!OffsetInVector /\ Stack!End = 3
    BY <1>10, <1>11, <1>12 DEF Stack!OffsetInVector, Stack!End
  <2>3. Stack!Find(1, 2, Top) = 2
    <3>1. ~ \E i \in 1 .. 2 - 1 : m_layers[i] = Top
      BY <1>11, <1>12
    <3>2. QED
      BY <3>1 DEF Stack!Find
  <2>4. QED
    BY <1>10, <2>1, <2>2, <2>3 DEF Stack!PopLayer
<1>14. PICK t \in Seq(LayerIds) : t = m_layers' /\ Len(t) = 1 /\ t[1] = s[1] /\ t # <<>>
  <2>1. m_layers' = RemoveAt(s, 2)
    BY <1>11, <1>13 DEF Stack!Erase, Stack!RemoveAt, RemoveAt
  <2>2. /\ RemoveAt(s, 2) \in Seq(LayerIds) /\ Len(RemoveAt(s, 2)) = 2 - 1
        /\ \A k \in 1 .. 2 - 1 : RemoveAt(s, 2)[k] = IF k < 2 THEN s[k] ELSE s[k + 1]
    <3>1. 2 \in 1 .. Len(s)
      BY <1>12
    <3>2. QED
      BY <1>12, <3>1, RemovedPositions
  <2>3. QED
    BY <2>1, <2>2
<1>15. \A l \in LayerIds : obj'[l] = IF l = Top THEN Free ELSE obj[l]
  <2>1. ToSet(m_layers) = {s[1], s[2]} /\ ToSet(m_layers') = {s[1]}
    <3>1. ToSet(m_layers) = {s[i] : i \in 1 .. 2}
      BY <1>1, <1>11, <1>12 DEF StackFacts
    <3>2. ToSet(t) = {t[i] : i \in 1 .. 1}
      BY <1>14 DEF ToSet
    <3>3. QED
      BY <1>14, <3>1, <3>2
  <2>2. QED
    BY <1>2, <1>12, <2>1 DEF Freed
<1>16. BottomIsMenu'
  BY <1>12, <1>14, <1>15 DEF BottomIsMenu
<1>17. RoomsTaken' /\ OffsetFits'
  BY <1>2, <1>5, <1>10 DEF RoomsTaken, OffsetFits, FirstBattle
<1>18. OverIsPopped'
  <2>1. \A l \in LayerIds \ {Top} : ~obj[l].over
    BY <1>1, <1>6 DEF OverIsPopped, StackFacts
  <2>2. QED
    BY <1>15, <2>1 DEF OverIsPopped, Free
<1>19. QED
  BY <1>5, <1>16, <1>17, <1>18

LEMMA StepFirst ==
  ASSUME IInv, FirstInv, [Next]_vars
  PROVE  FirstInv'
<1>1. Types /\ StackInv /\ EndInv /\ LoginInv
  BY IInvParts
<1>2. CASE QuietStep \/ ServerStep
  BY <1>1, <1>2, QuietFirst, ServerFirst
<1>3. CASE ProcessMessage \/ PollCommand
  BY <1>1, <1>3, MessageFirst, CommandFirst
<1>4. CASE PollLayerPush \/ PollLayerPop \/ PollLogin \/ PollBattleSearch
  BY <1>1, <1>4, LayerPushFirst, LayerPopFirst, OpeningFirst
<1>5. CASE \/ LoginTaken \/ PollBattleJoin \/ PollEnds \/ AuthFails
           \/ \E c \in Commands : ReadLine(c)
  BY <1>1, <1>5, OtherFirst
<1>6. CASE AuthSucceeds \/ Exit
  BY <1>1, <1>6, EndsFirst
<1>7. QED
  BY <1>2, <1>3, <1>4, <1>5, <1>6, NextCases DEF HandlingStep

LEMMA InitFirst == Init => FirstInv
<1> SUFFICES ASSUME Init PROVE FirstInv
  OBVIOUS
<1>1. PICK l \in LayerIds : /\ obj = [k \in LayerIds |-> IF k = l THEN Menu ELSE Free]
                            /\ m_event_queue = <<LayerPush(l)>>
  BY DEF Init
<1>2. /\ m_running /\ m_layers = <<>> /\ m_inbound = <<>> /\ srv.rooms = Rooms /\ ~Playing
  BY DEF Init, Stack!Init, Client!Init, Playing
<1>3. IsFiniteSet(Rooms \ srv.rooms)
  <2>1. Rooms \ srv.rooms = {}
    BY <1>2
  <2>2. QED
    BY <2>1, FS_EmptySet
<1>4. 1 \in Queued("LayerPush") /\ LayerPops = {} /\ NoOverlayPops
  BY <1>1 DEF Queued, LayerPush, LayerPops, NoOverlayPops
<1>5. BottomIsMenu
  BY <1>2, <1>4 DEF BottomIsMenu
<1>6. RoomsTaken /\ OffsetFits
  <2>1. Inbound("win") = {}
    BY <1>2 DEF Inbound
  <2>2. QED
    BY <1>2, <1>4, <2>1 DEF RoomsTaken, OffsetFits
<1>7. OverIsPopped
  BY <1>1 DEF OverIsPopped, Menu, Free
<1>8. QED
  BY <1>3, <1>4, <1>5, <1>6, <1>7 DEF FirstInv
-----------------------------------------------------------------------------
(* What is taken off the stack.  The offset tells how often an element was *)
(* erased.  Each time one screen less is left to close, and each was       *)
(* opened by a line the user typed, as long as no battle of elsewhere ends *)
(* on a screen a second time.                                              *)

Erased == IF m_layer_iterator_offset <= 1 THEN 1 - m_layer_iterator_offset
          ELSE Modulus + 1 - m_layer_iterator_offset

Opener(e) == e.type \in {"Login", "BattleSearch"} \/ (e.type = "Command" /\ TopIs("menu"))

ToBeOpened == \E i \in 1 .. Len(m_event_queue) : Opener(m_event_queue[i])

(* A login overlay, and a battle until the event of its end is polled *)
ToBeClosed ==
  TopIs("login") \/ srv.search \/ Playing \/ Inbound("win") # {} \/ LayerPops # {}

Owed == ToBeOpened \/ ToBeClosed

MenuPushed == Queued("LayerPush") = {}

BudgetInv == m_running /\ MenuPushed => Erased <= lines /\ (Owed => Erased < lines)

LEMMA Numbers ==
  ASSUME Types
  PROVE  /\ m_layer_iterator_offset \in 0 .. Modulus - 1 /\ lines \in 0 .. MaxCommands
         /\ MaxCommands \in Nat /\ Modulus \in Nat /\ Modulus > MaxCommands
         /\ LayerIds # {} => Modulus > MaxCommands + 1
         /\ Erased \in Nat
<1>1. m_layer_iterator_offset \in 0 .. Modulus - 1 /\ lines \in 0 .. MaxCommands
  BY DEF Types, TypeOK, Stack!TypeOK
<1>2. /\ MaxCommands \in Nat /\ Modulus \in Nat
      /\ Modulus > Cardinality(LayerIds) + MaxCommands /\ IsFiniteSet(LayerIds)
  BY AppAssumption
<1>3. Cardinality(LayerIds) \in Nat /\ (LayerIds # {} => Cardinality(LayerIds) # 0)
  BY <1>2, FS_CardinalityType, FS_EmptySet
<1>4. Modulus > MaxCommands /\ (LayerIds # {} => Modulus > MaxCommands + 1)
  BY <1>2, <1>3
<1>5. Erased \in Nat
  BY <1>1, <1>2 DEF Erased
<1>6. QED
  BY <1>1, <1>2, <1>4, <1>5

LEMMA EraseCounts ==
  ASSUME Types, Erased < lines,
         m_layer_iterator_offset' = (m_layer_iterator_offset + Modulus - 1) % Modulus
  PROVE  Erased' = Erased + 1
<1>1. /\ m_layer_iterator_offset \in 0 .. Modulus - 1 /\ lines \in 0 .. MaxCommands
      /\ MaxCommands \in Nat /\ Modulus \in Nat /\ Modulus > MaxCommands
  BY Numbers
<1>2. CASE m_layer_iterator_offset = 0
  <2>1. 1 < lines /\ Modulus > 2
    BY <1>1, <1>2 DEF Erased
  <2>2. m_layer_iterator_offset' = Modulus - 1
    BY <1>1, <1>2
  <2>3. QED
    BY <1>1, <1>2, <2>1, <2>2 DEF Erased
<1>3. CASE m_layer_iterator_offset # 0
  <2>1. m_layer_iterator_offset' = m_layer_iterator_offset - 1
    <3>1. \A a \in 1 .. Modulus - 1 : (a + Modulus - 1) % Modulus = a - 1
      BY <1>1
    <3>2. QED
      BY <1>1, <1>3, <3>1
  <2>2. m_layer_iterator_offset # 2
    BY <1>1 DEF Erased
  <2>3. QED
    BY <1>1, <1>3, <2>1, <2>2 DEF Erased
<1>4. QED
  BY <1>2, <1>3

LEMMA NoUnderflow ==
  ASSUME Types, Erased < lines, LayerIds # {}
  PROVE  Stack!MayUnderflow
<1>1. /\ m_layer_iterator_offset \in 0 .. Modulus - 1 /\ lines \in 0 .. MaxCommands
      /\ MaxCommands \in Nat /\ Modulus \in Nat /\ Modulus > MaxCommands + 1 /\ Erased \in Nat
  BY Numbers
<1>2. (Modulus - MaxCommands) % Modulus = Modulus - MaxCommands
  BY <1>1
<1>3. m_layer_iterator_offset # Modulus - MaxCommands
  BY <1>1 DEF Erased
<1>4. QED
  BY <1>2, <1>3 DEF Stack!MayUnderflow

(* Steps that leave the number of erasures and of lines as they are *)
LEMMA BudgetKept ==
  ASSUME BudgetInv, UNCHANGED <<m_layer_iterator_offset, lines>>,
         m_running' => /\ m_running /\ (~MenuPushed => UNCHANGED m_event_queue)
                       /\ MenuPushed /\ Owed' => Owed
  PROVE  BudgetInv'
<1>1. Erased' = Erased /\ lines' = lines
  BY DEF Erased
<1>2. SUFFICES ASSUME m_running', MenuPushed'
               PROVE  Erased' <= lines' /\ (Owed' => Erased' < lines')
  BY DEF BudgetInv
<1>3. MenuPushed
  BY <1>2 DEF MenuPushed, Queued
<1>4. QED
  BY <1>1, <1>2, <1>3 DEF BudgetInv

(* An event leaves the queue, and none comes in *)
LEMMA OpenersStay ==
  ASSUME QueueTypes, TopIs("menu")' <=> TopIs("menu"),
         \/ UNCHANGED m_event_queue
         \/ m_event_queue # <<>> /\ m_event_queue' = Tail(m_event_queue)
         \/ \E x \in Events : ~Opener(x) /\ Submitted(m_event_queue, x)
  PROVE  ToBeOpened' => ToBeOpened
<1>1. PICK q \in Seq(Events) : q = m_event_queue
  BY DEF QueueTypes
<1>2. \A e : Opener(e)' <=> Opener(e)
  BY DEF Opener
<1>3. CASE UNCHANGED m_event_queue
  BY <1>2, <1>3 DEF ToBeOpened
<1>4. CASE m_event_queue # <<>> /\ m_event_queue' = Tail(m_event_queue)
  <2>1. /\ Len(Tail(q)) = Len(q) - 1
        /\ \A i \in 1 .. Len(q) - 1 : Tail(q)[i] = q[i + 1] /\ i + 1 \in 1 .. Len(q)
    BY <1>1, <1>4, HeadTail
  <2>2. QED
    BY <1>1, <1>2, <1>4, <2>1 DEF ToBeOpened
<1>5. CASE \E x \in Events : ~Opener(x) /\ Submitted(m_event_queue, x)
  <2>1. PICK x \in Events : ~Opener(x) /\ Submitted(m_event_queue, x)
    BY <1>5
  <2>2. CASE m_event_queue' = m_event_queue
    BY <1>2, <2>2 DEF ToBeOpened
  <2>3. CASE m_event_queue' = Append(q, x)
    <3>1. /\ Len(q) \in Nat /\ Len(Append(q, x)) = Len(q) + 1
          /\ \A i \in 1 .. Len(q) : Append(q, x)[i] = q[i]
          /\ Append(q, x)[Len(q) + 1] = x
      BY Appended
    <3>2. SUFFICES ASSUME NEW i \in 1 .. Len(q) + 1, Opener(Append(q, x)[i])
                   PROVE  \E j \in 1 .. Len(q) : Opener(q[j])
      BY <1>1, <1>2, <2>3, <3>1 DEF ToBeOpened
    <3>3. i # Len(q) + 1
      BY <2>1, <3>1, <3>2
    <3>4. i \in 1 .. Len(q)
      BY <3>1, <3>3
    <3>5. QED
      BY <3>1, <3>2, <3>4
  <2>4. QED
    BY <1>1, <2>1, <2>2, <2>3 DEF Submitted
<1>6. QED
  BY <1>3, <1>4, <1>5

(* What pop_overlay erases is what it was given. *)
LEMMA FindHits ==
  ASSUME NEW first \in Nat, NEW last \in Nat, NEW l, Stack!Find(first, last, l) # last
  PROVE  m_layers[Stack!Find(first, last, l)] = l
<1> DEFINE Hits == {i \in first .. last - 1 : m_layers[i] = l}
<1>1. Hits # {}
  BY DEF Stack!Find
<1>2. PICK i \in Hits : \A j \in Hits : i <= j
  <2>1. Hits \in SUBSET Nat
    OBVIOUS
  <2> HIDE DEF Hits
  <2>2. QED
    BY <1>1, <2>1, LeastNatural
<1>3. m_layers[i] = l /\ \A j \in first .. i - 1 : m_layers[j] # l
  BY <1>2
<1>4. QED
  BY <1>2, <1>3 DEF Stack!Find

OneErased == m_layer_iterator_offset' = (m_layer_iterator_offset + Modulus - 1) % Modulus

LEMMA PopCounts ==
  ASSUME TypeOK, Shape, NEW l \in LayerIds, Stack!PopLayer(l) \/ Stack!PopOverlay(l)
  PROVE  \/ UNCHANGED m_layer_iterator_offset
         \/ OneErased /\ (Stack!PopOverlay(l) => l \notin ToSet(m_layers'))
<1>1. StackFacts
  BY StackIs
<1>2. CASE UNCHANGED vectorVars \/ Stack!Fault
  BY <1>2 DEF vectorVars, Stack!Fault
<1>3. CASE ~Stack!PopOverlay(l) /\ \E it \in 1 .. Len(m_layers) : Stack!Erase(it)
  BY <1>3 DEF Stack!Erase, OneErased
<1>4. CASE Stack!PopOverlay(l) /\ ~(UNCHANGED vectorVars \/ Stack!Fault)
  <2> DEFINE it == Stack!Find(m_layer_iterator_offset + 1, Stack!End, l)
  <2>1. /\ Stack!OffsetInVector
        /\ IF it # Stack!End THEN Stack!Erase(it) ELSE UNCHANGED vectorVars
    BY <1>4 DEF Stack!PopOverlay, Stack!stackVars, vectorVars
  <2>2. /\ m_layer_iterator_offset + 1 \in Nat /\ Stack!End \in Nat
        /\ m_layer_iterator_offset + 1 <= Stack!End /\ Len(m_layers) \in 0 .. 2
        /\ Stack!End = Len(m_layers) + 1 /\ m_layers \in Seq(LayerIds)
    <3>1. m_layer_iterator_offset \in 0 .. Modulus - 1 /\ Modulus \in Nat
      BY AppAssumption DEF TypeOK, Stack!TypeOK
    <3>2. QED
      BY <1>1, <2>1, <3>1 DEF Stack!OffsetInVector, Stack!End, StackFacts
  <2>3. it \in m_layer_iterator_offset + 1 .. Stack!End
    BY <2>2, FindInRange
  <2>4. it # Stack!End /\ Stack!Erase(it) /\ m_layers[it] = l
    <3>1. it # Stack!End
      BY <1>4, <2>1
    <3>2. QED
      BY <2>1, <2>2, <3>1, FindHits
  <2>5. it \in 1 .. Len(m_layers)
    <3>1. m_layer_iterator_offset \in Nat
      BY AppAssumption DEF TypeOK, Stack!TypeOK
    <3> HIDE DEF it
    <3>2. QED
      BY <2>2, <2>3, <2>4, <3>1
  <2> HIDE DEF it
  <2>6. OneErased /\ m_layers' = RemoveAt(m_layers, it)
    BY <2>4 DEF Stack!Erase, Stack!RemoveAt, RemoveAt, OneErased
  <2>7. ToSet(m_layers') = ToSet(m_layers) \ {m_layers[it]}
    <3>1. Len(m_layers) \in 1 .. 2 /\ (Len(m_layers) = 2 => m_layers[1] # m_layers[2])
      BY <2>2, <2>5 DEF Shape
    <3>2. QED
      BY <2>2, <2>5, <2>6, <3>1, RemoveFromTwo
  <2>8. QED
    BY <2>4, <2>6, <2>7
<1>5. QED
  BY <1>2, <1>3, <1>4, PopErasesOrNot

(* A pop is of a screen that has yet to be closed, and closes it. *)
LEMMA PopIsOwed ==
  ASSUME ~Elsewhere, Types, StackInv, EndInv, PollLayerPop
  PROVE  /\ m_running /\ MenuPushed /\ Owed /\ LayerIds # {}
         /\ Head(m_event_queue).layer = Top /\ Top \in LayerIds
         /\ Head(m_event_queue).overlay \in BOOLEAN
         /\ IF Head(m_event_queue).overlay THEN TopIs("login") ELSE TopIs("battle")
<1>1. StackFacts /\ QueueShape /\ QueueTypes
  BY StackIs, TypeParts DEF StackInv, Types
<1>2. m_running /\ m_event_queue # <<>> /\ Head(m_event_queue).type = "LayerPop"
  BY DEF PollLayerPop, Polling
<1>3. MenuPushed
  BY <1>1, <1>2, PushIsAlone DEF MenuPushed
<1>4. /\ Head(m_event_queue).layer = Top
      /\ IF Head(m_event_queue).overlay THEN TopIs("login") ELSE TopIs("battle")
  BY PopsBehind DEF Gone
<1>5. Top \in LayerIds
  BY <1>1, <1>4 DEF TopIs, StackFacts
<1>6. 1 \in 1 .. Len(m_event_queue) /\ Head(m_event_queue) = m_event_queue[1]
  BY <1>1, <1>2, HeadIsQueued
<1>7. Head(m_event_queue).overlay \in BOOLEAN
  <2>1. Head(m_event_queue) \in Events
    BY <1>1, <1>2, HeadTail DEF QueueTypes
  <2>2. QED
    BY <1>2, <2>1 DEF Events
<1>8. Owed
  <2>1. ~Head(m_event_queue).overlay => 1 \in LayerPops
    BY <1>2, <1>6 DEF LayerPops, Queued
  <2>2. QED
    BY <1>4, <2>1 DEF Owed, ToBeClosed
<1>9. QED
  BY <1>2, <1>3, <1>4, <1>5, <1>7, <1>8

LEMMA LayerPopBudget ==
  ASSUME ~Elsewhere, Types, StackInv, EndInv, BudgetInv, PollLayerPop, StackFacts'
  PROVE  BudgetInv'
<1>1. Shape /\ StackFacts /\ TypeOK /\ obj \in [LayerIds -> Layers]
  BY StackIs DEF StackInv, Types, TypeOK
<1>2. /\ m_running /\ MenuPushed /\ Owed
      /\ Head(m_event_queue).layer = Top /\ Top \in LayerIds
      /\ Head(m_event_queue).overlay \in BOOLEAN
      /\ IF Head(m_event_queue).overlay THEN TopIs("login") ELSE TopIs("battle")
  BY PopIsOwed
<1>3. Erased < lines /\ Erased \in Nat /\ lines \in Nat
  <2>1. Erased < lines
    BY <1>2 DEF BudgetInv
  <2>2. QED
    BY <2>1, Numbers
<1>4. /\ UNCHANGED <<lines, m_running, m_inbound, srv>> /\ obj' = Freed(obj)
      /\ IF Head(m_event_queue).overlay THEN Stack!PopOverlay(Top) ELSE Stack!PopLayer(Top)
  BY <1>2 DEF PollLayerPop, clientVars, pollRest, historyRest
<1>5. \/ UNCHANGED m_layer_iterator_offset
      \/ /\ OneErased
         /\ Stack!PopOverlay(Top) => Top \notin ToSet(m_layers')
  BY <1>1, <1>2, <1>4, PopCounts
<1>6. CASE UNCHANGED m_layer_iterator_offset
  <2>1. Erased' = Erased /\ lines' = lines
    BY <1>4, <1>6 DEF Erased
  <2>2. QED
    BY <1>3, <2>1 DEF BudgetInv
<1>7. CASE ~(UNCHANGED m_layer_iterator_offset)
  <2>1. Erased' = Erased + 1 /\ lines' = lines
    BY <1>3, <1>4, <1>5, <1>7, EraseCounts DEF OneErased
  <2>2. ~ToBeOpened'
    <3>1. \A i \in 1 .. Len(m_event_queue') : m_event_queue'[i].type = "BattleJoin"
      BY PopsBehind
    <3>2. QED
      BY <3>1 DEF ToBeOpened, Opener
  <2>3. ~srv'.search /\ ~Playing' /\ Inbound("win")' = {} /\ LayerPops' = {}
    <3>1. /\ \A i \in 1 .. Len(m_event_queue') : m_event_queue'[i].type = "BattleJoin"
          /\ ~OwnPending /\ Inbound("win") = {}
      BY PopsBehind
    <3>2. ~srv.search /\ ~Playing
      BY <3>1 DEF OwnPending, Playing, EndInv, RoomsInv
    <3>3. QED
      BY <1>4, <3>1, <3>2 DEF Playing, Inbound, LayerPops, Queued
  <2>4. ASSUME TopIs("login")'
        PROVE  FALSE
    <3>1. Top' \in LayerIds /\ Top' \in ToSet(m_layers') /\ obj'[Top'].kind = "login"
      BY <2>4 DEF TopIs, StackFacts
    <3>2. obj'[Top'] \in {Free, obj[Top']}
      BY <1>4, <3>1 DEF Freed
    <3>3. obj[Top'].kind = "login"
      BY <3>1, <3>2, NewLayers
    <3>4. Top' = Top
      BY <1>1, <3>1, <3>3 DEF StackFacts
    <3>5. Head(m_event_queue).overlay
      BY <1>2, <3>3, <3>4 DEF TopIs
    <3>6. QED
      BY <1>4, <1>5, <1>7, <3>1, <3>4, <3>5
  <2>5. ~Owed'
    BY <2>2, <2>3, <2>4 DEF Owed, ToBeClosed
  <2>6. QED
    BY <1>3, <2>1, <2>5 DEF BudgetInv
<1>8. QED
  BY <1>6, <1>7

(* No battle begins that was not searched for. *)
LEMMA ServerAwaits ==
  ASSUME ~Elsewhere, Types, ServerStep
  PROVE  srv'.search \/ Playing' => srv.search \/ Playing
<1>1. SrvOK
  BY DEF Types
<1>2. CASE \E m \in Messages : SendsOther(m)
  BY <1>2 DEF SendsOther, Playing
<1>3. CASE SendsTalk
  BY <1>3 DEF SendsTalk, Playing
<1>4. CASE SendsBattle
  BY <1>4 DEF SendsBattle, Begins
<1>5. CASE SendsEnd
  BY <1>1, <1>5 DEF SendsEnd, SrvOK, Playing
<1>6. QED
  BY <1>2, <1>3, <1>4, <1>5, ServerSteps

(* What the network and the clock do takes nothing up that is not owed. *)
LEMMA OutsideBudget ==
  ASSUME ~Elsewhere, Types, StackInv, BudgetInv, QuietStep \/ ServerStep
  PROVE  BudgetInv'
<1>1. StackFacts /\ InboundTypes
  BY StackIs, TypeParts DEF StackInv, Types
<1>2. CASE QuietStep
  <2>1. Quiet
    BY <1>2, QuietSteps DEF StackInv
  <2>2. /\ UNCHANGED <<m_running, m_layers, m_layer_iterator_offset, obj>>
        /\ UNCHANGED <<m_event_queue, m_inbound, srv, lines>>
    BY <2>1 DEF Quiet, clientVars, stackVars, vectorVars, ghostVars
  <2>3. Owed' <=> Owed
    BY <2>2 DEF Owed, ToBeOpened, ToBeClosed, Opener, TopIs, Top, Playing, Inbound, LayerPops, Queued
  <2>4. QED
    BY <2>2, <2>3, BudgetKept
<1>3. CASE ServerStep
  <2>1. PICK m \in Messages : Deliver(m) /\ (m.type = "win" => Playing)
    BY <1>3, ServerRooms
  <2>2. /\ UNCHANGED <<m_running, m_layers, m_layer_iterator_offset, obj>>
        /\ UNCHANGED <<m_event_queue, lines>> /\ Client!Receive(m)
    BY <2>1 DEF Deliver, stackVars, vectorVars, ghostVars
  <2>3. Inbound("win")' # {} => Inbound("win") # {} \/ Playing
    BY <1>1, <2>1, <2>2, InboundAppended
  <2>4. srv'.search \/ Playing' => srv.search \/ Playing
    BY <1>3, ServerAwaits
  <2>5. Owed' => Owed
    BY <2>2, <2>3, <2>4 DEF Owed, ToBeOpened, ToBeClosed, Opener, TopIs, Top, LayerPops, Queued
  <2>6. QED
    BY <2>2, <2>5, BudgetKept
<1>4. QED
  BY <1>2, <1>3

LEMMA MessageBudget ==
  ASSUME Types, StackInv, BudgetInv, ProcessMessage
  PROVE  BudgetInv'
<1>1. Shape /\ QueueShape /\ StackFacts /\ InboundTypes /\ QueueTypes
  BY StackIs, TypeParts DEF StackInv, Types
<1>2. PICK m \in Messages : m = Head(m_inbound)
  BY <1>1, MessageChanges
<1>3. /\ m_inbound # <<>> /\ m_inbound' = Tail(m_inbound)
      /\ IF TopIs("battle") /\ m.type = "win"
         THEN Submitted(m_event_queue, LayerPop(Top, FALSE))
         ELSE IF TopIs("battle") /\ m.type = "request"
         THEN Submitted(m_event_queue, BattleJoin)
         ELSE UNCHANGED <<m_event_queue, lost>>
      /\ TopIs("battle") => LayerPop(Top, FALSE) \in Events
  BY <1>1, <1>2, MessageChanges
<1>4. UNCHANGED <<m_running, m_layer_iterator_offset, srv, lines>>
  BY DEF ProcessMessage, vectorVars
<1>5. /\ Inbound("win")' # {} => Inbound("win") # {}
      /\ m.type = "win" => Inbound("win") # {}
  BY <1>1, <1>2, <1>3, InboundTail
<1>6. \A kind : TopIs(kind)' <=> TopIs(kind)
  BY <1>1, MessageKinds, KeepsTop
<1>7. \/ UNCHANGED m_event_queue
      \/ \E x \in Events : /\ TopIs("battle") /\ ~Opener(x) /\ Submitted(m_event_queue, x)
                           /\ x.type = "LayerPop" => ~x.overlay /\ Inbound("win") # {}
  <2>1. BattleJoin \in Events /\ BattleJoin.type = "BattleJoin"
    BY EventsAre DEF BattleJoin
  <2>2. LayerPop(Top, FALSE).type = "LayerPop" /\ ~LayerPop(Top, FALSE).overlay
    BY DEF LayerPop
  <2>3. \A x : x.type \in {"BattleJoin", "LayerPop"} => ~Opener(x)
    BY DEF Opener
  <2>4. CASE TopIs("battle") /\ m.type = "win"
    <3>1. PICK x \in Events : x = LayerPop(Top, FALSE)
      BY <1>3, <2>4
    <3>2. x.type = "LayerPop" /\ ~x.overlay
      BY <2>2, <3>1
    <3>3. ~Opener(x)
      BY <2>3, <3>2
    <3>4. Submitted(m_event_queue, x)
      BY <1>3, <2>4, <3>1, Zenon
    <3>5. QED
      BY <1>5, <2>4, <3>2, <3>3, <3>4
  <2>5. CASE TopIs("battle") /\ m.type # "win" /\ m.type = "request"
    <3>1. PICK x \in Events : x = BattleJoin
      BY <2>1
    <3>2. Submitted(m_event_queue, x) /\ x.type = "BattleJoin" /\ ~Opener(x)
      BY <1>3, <2>1, <2>3, <2>5, <3>1
    <3>3. QED
      BY <2>5, <3>2
  <2>6. CASE ~(TopIs("battle") /\ m.type \in {"win", "request"})
    BY <1>3, <2>6
  <2>7. QED
    BY <2>4, <2>5, <2>6
<1>8. ToBeOpened' => ToBeOpened
  BY <1>1, <1>6, <1>7, OpenersStay
<1>9. LayerPops' # {} => LayerPops # {} \/ Inbound("win") # {}
  BY <1>1, <1>7, PopsStayPut, PopsJoined DEF PopsKept
<1>10. m_running /\ ~MenuPushed => UNCHANGED m_event_queue
  <2>1. m_running /\ ~MenuPushed => ~TopIs("battle")
    BY <1>1, PushIsAlone DEF TopIs, MenuPushed
  <2>2. QED
    BY <1>7, <2>1
<1>11. Owed' => Owed
  BY <1>4, <1>5, <1>6, <1>8, <1>9 DEF Owed, ToBeClosed, Playing
<1>12. QED
  BY <1>4, <1>10, <1>11, BudgetKept

(* A step that is taken when something is owed: all that is asked of it is *)
(* that it erases nothing.                                                 *)
LEMMA OwedBudget ==
  ASSUME Types, BudgetInv, m_running, MenuPushed, Owed,
         UNCHANGED <<m_layer_iterator_offset, lines>>
  PROVE  BudgetInv'
<1>1. Erased' = Erased /\ lines' = lines /\ Erased < lines
  BY DEF Erased, BudgetInv
<1>2. Erased \in Nat /\ lines \in Nat
  BY Numbers
<1>3. QED
  BY <1>1, <1>2 DEF BudgetInv

LEMMA CommandBudget ==
  ASSUME Types, StackInv, BudgetInv, PollCommand
  PROVE  BudgetInv'
<1>1. Shape /\ QueueShape /\ StackFacts /\ QueueTypes
  BY StackIs, TypeParts DEF StackInv, Types
<1>2. PICK e \in Events : e = Head(m_event_queue) /\ e.type = "Command"
  BY <1>1, CommandChanges
<1>3. /\ m_event_queue # <<>>
      /\ ~TopIs("menu") => m_event_queue' = Tail(m_event_queue) /\ lost' = lost
  BY <1>1, <1>2, CommandChanges
<1>4. /\ UNCHANGED <<m_layer_iterator_offset, m_inbound, lines>> /\ m_running
      /\ srv' = srv
  BY DEF PollCommand, Polling, vectorVars, clientVars, historyRest
<1>5. MenuPushed
  BY <1>1, HeadCommand DEF PollCommand, MenuPushed
<1>6. CASE TopIs("menu")
  <2>1. 1 \in 1 .. Len(m_event_queue) /\ e = m_event_queue[1]
    BY <1>1, <1>2, <1>3, HeadIsQueued
  <2>2. Owed
    BY <1>2, <1>6, <2>1 DEF Owed, ToBeOpened, Opener
  <2>3. QED
    BY <1>4, <1>5, <2>2, OwedBudget
<1>7. CASE ~TopIs("menu")
  <2>1. m_event_queue' = Tail(m_event_queue)
    BY <1>3, <1>7
  <2>2. \A kind : TopIs(kind)' <=> TopIs(kind)
    BY <1>1, CommandKinds, KeepsTop
  <2>3. ToBeOpened' => ToBeOpened
    BY <1>1, <1>3, <2>1, <2>2, OpenersStay
  <2>4. PopsKept
    BY <1>1, <1>2, <1>3, <2>1, PopsStay
  <2>5. Inbound("win")' = Inbound("win")
    BY <1>4 DEF Inbound
  <2>6. Owed' => Owed
    BY <1>4, <2>2, <2>3, <2>4, <2>5 DEF Owed, ToBeClosed, Playing, PopsKept
  <2>7. QED
    BY <1>4, <1>5, <2>6, BudgetKept
<1>8. QED
  BY <1>6, <1>7

(* The menu goes on an empty stack: nothing was erased, nothing is owed. *)
LEMMA LayerPushBudget ==
  ASSUME ~Elsewhere, Types, StackInv, EndInv, PollLayerPush
  PROVE  BudgetInv'
<1>1. Shape /\ QueueShape
  BY DEF StackInv
<1>2. PICK l \in LayerIds :
        /\ obj[l] = Menu /\ m_event_queue' = <<>>
        /\ m_layers = <<>> /\ m_layers' = <<l>> /\ m_layer_iterator_offset' = 1
  BY <1>1, LayerPushChanges
<1>3. /\ UNCHANGED <<obj, lines, m_inbound, srv>> /\ m_running
  BY DEF PollLayerPush, Polling, clientVars, pollRest, historyRest
<1>4. Top' = l /\ obj'[Top'].kind = "menu"
  <2>1. Top' = l
    BY <1>2 DEF Top, Last
  <2>2. QED
    BY <1>2, <1>3, <2>1, NewLayers
<1>5. ~TopIs("login")'
  BY <1>4 DEF TopIs
<1>6. ~TopIs("battle")
  BY <1>2 DEF TopIs
<1>7. ~srv.search /\ ~Playing /\ Inbound("win") = {}
  BY <1>3, <1>6 DEF EndInv, OneEnd, RoomsInv, OwnPending, Playing
<1>8. ~srv'.search /\ ~Playing' /\ Inbound("win")' = {}
  BY <1>3, <1>7 DEF Playing, Inbound
<1>9. LayerPops' = {} /\ ~ToBeOpened'
  <2>1. Len(m_event_queue') = 0 /\ 1 .. 0 = {}
    BY <1>2
  <2>2. QED
    BY <2>1 DEF LayerPops, Queued, ToBeOpened
<1>10. ~Owed'
  BY <1>5, <1>8, <1>9 DEF Owed, ToBeClosed
<1>11. Erased' = 0
  BY <1>2 DEF Erased
<1>12. lines' \in Nat
  BY <1>3, Numbers
<1>13. QED
  BY <1>10, <1>11, <1>12 DEF BudgetInv

(* A screen is opened that was asked for, and is to be closed. *)
LEMMA OpeningBudget ==
  ASSUME Types, StackInv, BudgetInv, PollLogin \/ PollBattleSearch
  PROVE  BudgetInv'
<1>1. Shape /\ QueueShape /\ QueueTypes
  BY TypeParts DEF StackInv, Types
<1>2. /\ m_running /\ m_event_queue # <<>>
      /\ Head(m_event_queue).type \in {"Login", "BattleSearch"}
      /\ UNCHANGED lines
  BY DEF PollLogin, PollBattleSearch, Polling, pollRest, historyRest
<1>3. UNCHANGED m_layer_iterator_offset
  <2>1. \E l, b : Opens(l, b)
    BY <1>1, PollLoginChanges, SearchChanges
  <2>2. QED
    BY <2>1 DEF Opens
<1>4. MenuPushed
  BY <1>1, <1>2, PushIsAlone DEF MenuPushed
<1>5. Owed
  <2>1. 1 \in 1 .. Len(m_event_queue) /\ Head(m_event_queue) = m_event_queue[1]
    BY <1>1, <1>2, HeadIsQueued
  <2>2. QED
    BY <1>2, <2>1 DEF Owed, ToBeOpened, Opener
<1>6. QED
  BY <1>2, <1>3, <1>4, <1>5, OwedBudget

(* A login overlay takes a line, or the login server answers it. *)
LEMMA LoginBudget ==
  ASSUME Types, StackInv, NameInv, BudgetInv, LoginTaken \/ AuthSucceeds \/ AuthFails
  PROVE  BudgetInv'
<1>1. Shape /\ QueueShape
  BY DEF StackInv
<1>2. UNCHANGED <<m_layer_iterator_offset, lines>>
  BY DEF LoginTaken, LoginName, LoginPassword, AuthSucceeds, AuthFails, authRest, historyRest, vectorVars
<1>3. CASE LoginTaken
  <2>1. m_running /\ TopIs("login")
    BY <1>1, <1>3, LoginChanges
  <2>2. MenuPushed
    BY <1>1, <1>3, HeadCommand DEF LoginTaken, LoginName, LoginPassword, MenuPushed
  <2>3. QED
    BY <1>2, <2>1, <2>2, OwedBudget DEF Owed, ToBeClosed
<1>4. CASE AuthSucceeds \/ AuthFails
  <2>1. pc = "auth" /\ m_running' = m_running /\ TopIs("login")
    BY <1>4 DEF AuthSucceeds, AuthFails, authRest, NameInv
  <2>2. CASE m_running
    <3>1. m_event_queue = <<>>
      BY <1>1, <2>1, <2>2 DEF QueueShape
    <3>2. MenuPushed
      BY <3>1 DEF MenuPushed, Queued
    <3>3. QED
      BY <1>2, <2>1, <2>2, <3>2, OwedBudget DEF Owed, ToBeClosed
  <2>3. CASE ~m_running
    BY <2>1, <2>3 DEF BudgetInv
  <2>4. QED
    BY <2>2, <2>3
<1>5. QED
  BY <1>3, <1>4

LEMMA TakenBudget ==
  ASSUME Types, StackInv, BudgetInv, PollBattleJoin \/ PollEnds
  PROVE  BudgetInv'
<1>1. QueueShape /\ QueueTypes
  BY TypeParts DEF StackInv, Types
<1>2. /\ UNCHANGED <<m_running, m_layers, m_layer_iterator_offset, obj>>
      /\ UNCHANGED <<m_inbound, srv, lines>>
  BY DEF PollBattleJoin, PollEnds, clientVars, pollRest, historyRest, stackVars, vectorVars
<1>3. \A kind : TopIs(kind)' <=> TopIs(kind)
  BY <1>2 DEF TopIs, Top
<1>4. CASE UNCHANGED m_event_queue
  <2>1. Owed' <=> Owed
    BY <1>2, <1>3, <1>4 DEF Owed, ToBeOpened, ToBeClosed, Opener, Playing, Inbound, LayerPops, Queued
  <2>2. QED
    BY <1>2, <1>4, <2>1, BudgetKept
<1>5. CASE PollBattleJoin
  <2>1. /\ m_running /\ m_event_queue # <<>> /\ Head(m_event_queue).type = "BattleJoin"
        /\ m_event_queue' = Tail(m_event_queue)
    BY <1>5 DEF PollBattleJoin, Polling
  <2>2. MenuPushed
    BY <1>1, <2>1, PushIsAlone DEF MenuPushed
  <2>3. ToBeOpened' => ToBeOpened
    BY <1>1, <1>3, <2>1, OpenersStay
  <2>4. PopsKept
    BY <1>1, <2>1, PopsStay
  <2>5. Inbound("win")' = Inbound("win")
    BY <1>2 DEF Inbound
  <2>6. Owed' => Owed
    BY <1>2, <1>3, <2>3, <2>4, <2>5 DEF Owed, ToBeClosed, Playing, PopsKept
  <2>7. QED
    BY <1>2, <2>1, <2>2, <2>6, BudgetKept
<1>6. CASE PollEnds /\ ~UNCHANGED m_event_queue
  <2>1. ~m_running'
    BY <1>2, <1>6 DEF PollEnds
  <2>2. QED
    BY <2>1 DEF BudgetInv
<1>7. QED
  BY <1>4, <1>5, <1>6

(* One line more: it may open a screen. *)
LEMMA LineBudget ==
  ASSUME Types, StackInv, BudgetInv, NEW c \in Commands, ReadLine(c)
  PROVE  BudgetInv'
<1>1. /\ pc = "input" /\ lines' = lines + 1 /\ QueueShape
      /\ UNCHANGED <<m_running, m_layer_iterator_offset>>
  BY DEF ReadLine, stackVars, vectorVars, StackInv
<1>2. Erased' = Erased /\ Erased \in Nat /\ lines \in Nat
  <2>1. Erased' = Erased
    BY <1>1 DEF Erased
  <2>2. QED
    BY <2>1, Numbers
<1>3. CASE m_running
  <2>1. m_event_queue = <<>>
    BY <1>1, <1>3 DEF QueueShape
  <2>2. MenuPushed
    BY <2>1 DEF MenuPushed, Queued
  <2>3. Erased <= lines
    BY <1>3, <2>2 DEF BudgetInv
  <2>4. QED
    BY <1>1, <1>2, <2>3 DEF BudgetInv
<1>4. CASE ~m_running
  BY <1>1, <1>4 DEF BudgetInv
<1>5. QED
  BY <1>3, <1>4

LEMMA StepBudget ==
  ASSUME ~Elsewhere, IInv, BudgetInv, [Next]_vars
  PROVE  BudgetInv'
<1>1. Types /\ StackInv /\ EndInv /\ LoginInv
  BY IInvParts
<1>2. StackFacts'
  <2>1. Types' /\ StackInv'
    BY <1>1, StepTypes
  <2>2. TypeOK' /\ Shape'
    BY <2>1 DEF Types, StackInv
  <2>3. QED
    BY <2>2, StackWillBe
<1>3. CASE QuietStep \/ ServerStep
  BY <1>1, <1>3, OutsideBudget
<1>4. CASE ProcessMessage \/ PollCommand
  BY <1>1, <1>4, MessageBudget, CommandBudget
<1>5. CASE PollLayerPush \/ PollLayerPop
  BY <1>1, <1>2, <1>5, LayerPushBudget, LayerPopBudget
<1>6. CASE PollLogin \/ PollBattleSearch
  BY <1>1, <1>6, OpeningBudget
<1>7. CASE LoginTaken \/ AuthSucceeds \/ AuthFails
  BY <1>1, <1>7, LoginBudget DEF LoginInv
<1>8. CASE PollBattleJoin \/ PollEnds
  BY <1>1, <1>8, TakenBudget
<1>9. ASSUME NEW c \in Commands, ReadLine(c)
      PROVE  BudgetInv'
  BY <1>1, <1>9, LineBudget
<1>10. CASE Exit
  <2>1. ~m_running'
    BY <1>1, <1>10 DEF Exit, StackInv, LoopInv
  <2>2. QED
    BY <2>1 DEF BudgetInv
<1>11. QED
  BY <1>3, <1>4, <1>5, <1>6, <1>7, <1>8, <1>9, <1>10, NextCases DEF HandlingStep

LEMMA InitBudget == Init => BudgetInv
<1> SUFFICES ASSUME Init PROVE ~MenuPushed
  BY DEF BudgetInv
<1>1. PICK l \in LayerIds : m_event_queue = <<LayerPush(l)>>
  BY DEF Init
<1>2. Len(m_event_queue) = 1 /\ m_event_queue[1] = LayerPush(l) /\ LayerPush(l).type = "LayerPush"
  BY <1>1 DEF LayerPush
<1>3. 1 \in Queued("LayerPush")
  BY <1>2 DEF Queued
<1>4. QED
  BY <1>3 DEF MenuPushed

LEMMA Budget ==
  ASSUME ~Elsewhere
  PROVE  Spec => [](IInv /\ BudgetInv)
<1>1. Init => IInv /\ BudgetInv
  BY InitIInv, InitBudget
<1>2. IInv /\ BudgetInv /\ [Next]_vars => (IInv /\ BudgetInv)'
  BY StepIInv, StepBudget
<1>3. QED
  BY <1>1, <1>2, PTL DEF Spec

-----------------------------------------------------------------------------
(* What a step does to the stack, as LayerStack has it. *)

LEMMA PopIsAllowed ==
  ASSUME ~Elsewhere, IInv, BudgetInv, PollLayerPop
  PROVE  Stack!ClientPopLayer \/ Stack!ClientPopOverlay
<1>1. Types /\ StackInv /\ EndInv
  BY IInvParts
<1>2. /\ m_running /\ MenuPushed /\ Owed /\ LayerIds # {}
      /\ Head(m_event_queue).layer = Top /\ Top \in LayerIds
  BY <1>1, PopIsOwed
<1>3. Erased < lines
  BY <1>2 DEF BudgetInv
<1>4. Stack!MayUnderflow
  BY <1>1, <1>2, <1>3, NoUnderflow
<1>5. Stack!PopLayer(Top) \/ Stack!PopOverlay(Top)
  BY <1>2 DEF PollLayerPop
<1>6. QED
  BY <1>2, <1>4, <1>5 DEF Stack!ClientPopLayer, Stack!ClientPopOverlay

LEMMA PushIsNew ==
  ASSUME IInv, PollLayerPush \/ PollLogin \/ PollBattleSearch
  PROVE  Stack!ClientPushLayer \/ Stack!ClientPushOverlay
<1>1. Types /\ Shape /\ QueueShape /\ StackFacts /\ QueueTypes
  BY IInvParts, StackIs, TypeParts DEF StackInv, Types
<1>2. Stack!ToSet(m_layers) = ToSet(m_layers)
  BY DEF Stack!ToSet, ToSet
<1>3. CASE PollLayerPush
  <2>1. m_layers = <<>> /\ ToSet(m_layers) = {}
    BY <1>1, <1>3, LayerPushChanges DEF StackFacts
  <2>2. m_event_queue # <<>> /\ Head(m_event_queue).type = "LayerPush"
    BY <1>3 DEF PollLayerPush, Polling
  <2>3. PICK e \in Events : e = Head(m_event_queue)
    BY <1>1, <2>2, TailTypes
  <2>4. e.layer \in LayerIds
    BY <2>2, <2>3, EventFields
  <2>5. Stack!PushLayer(e.layer)
    BY <1>3, <2>3 DEF PollLayerPush
  <2>6. QED
    BY <1>2, <2>1, <2>4, <2>5 DEF Stack!ClientPushLayer
<1>4. CASE PollLogin \/ PollBattleSearch
  <2>1. PICK l \in LayerIds : obj[l] = Free /\ Stack!PushOverlay(l)
    BY <1>4 DEF PollLogin, PollBattleSearch
  <2>2. l \notin ToSet(m_layers)
    <3>1. \A k \in ToSet(m_layers) : obj[k].kind # "free"
      BY <1>1 DEF Shape, StackFacts
    <3>2. QED
      BY <2>1, <3>1, NewLayers
  <2>3. QED
    BY <1>2, <2>1, <2>2 DEF Stack!ClientPushOverlay
<1>5. QED
  BY <1>3, <1>4

LEMMA StepUsesStack ==
  ASSUME ~Elsewhere, IInv, BudgetInv, [Next]_vars
  PROVE  [Stack!Next]_(Stack!stackVars)
<1>1. CASE UNCHANGED vectorVars
  BY <1>1 DEF vectorVars, Stack!stackVars
<1>2. CASE PollLayerPop
  BY <1>2, PopIsAllowed DEF Stack!Next
<1>3. CASE PollLayerPush \/ PollLogin \/ PollBattleSearch
  BY <1>3, PushIsNew DEF Stack!Next
<1>4. CASE Exit
  BY <1>4 DEF Exit, Stack!Next
<1>5. CASE QuietStep
  <2>1. Quiet
    BY <1>5, QuietSteps, IInvParts DEF StackInv
  <2>2. QED
    BY <1>1, <2>1 DEF Quiet, stackVars
<1>6. CASE ServerStep
  BY <1>1, <1>6 DEF ServerStep, ServerGreets, ServerNames, ServerTalks, ServerFindsBattle,
     ServerStartsElsewhere, ServerRequests, ServerEndsBattle, Deliver, stackVars
<1>7. CASE ProcessMessage \/ PollCommand \/ LoginTaken
  BY <1>1, <1>7 DEF ProcessMessage, PollCommand, LoginTaken, LoginName, LoginPassword
<1>8. CASE AuthSucceeds \/ AuthFails
  BY <1>1, <1>8 DEF AuthSucceeds, AuthFails, authRest
<1>9. CASE PollBattleJoin \/ PollEnds \/ \E c \in Commands : ReadLine(c)
  BY <1>1, <1>9 DEF PollBattleJoin, PollEnds, ReadLine, stackVars
<1>10. QED
  BY <1>2, <1>3, <1>4, <1>5, <1>6, <1>7, <1>8, <1>9, NextCases DEF HandlingStep

-----------------------------------------------------------------------------
(* The invariants of the runs. *)

(* Every variable keeps its type: the event queue and the inbound queue    *)
(* never hold more than their capacity, whatever is submitted, and the     *)
(* offset of the stack stays a number of its width.                        *)
THEOREM TypeCorrect == Spec => []TypeOK
<1>1. IInv => TypeOK
  BY DEF IInv
<1>2. QED
  BY <1>1, Invariance, PTL

(* Whatever the user types and the server sends, at most one login overlay *)
(* or battle lies on the menu (push_overlay in poll()).                    *)
THEOREM AtMostOneOverlay == Spec => []OneOverlay
<1>1. IInv => OneOverlay
  <2>1. SUFFICES ASSUME IInv PROVE Cardinality(overlays) <= 1
    BY DEF OneOverlay
  <2>2. overlays \subseteq {Top}
    BY <2>1 DEF IInv, Shape
  <2>3. IsFiniteSet({Top}) /\ Cardinality({Top}) = 1
    BY FS_Singleton
  <2>4. QED
    BY <2>2, <2>3, FS_Subset
<1>2. QED
  BY <1>1, Invariance, PTL

(* A queued command meets the layer that was on top when its line was      *)
(* read, across every message of the frame in between (push_to_layers).    *)
THEOREM CommandsReachTheirReader == Spec => []CommandReachesReader
<1>1. IInv => CommandReachesReader
  BY DEF IInv
<1>2. QED
  BY <1>1, Invariance, PTL

(* A queued LayerPop names a layer on the stack; where battles of          *)
(* elsewhere end, perhaps one that has been deleted, but never a new one   *)
(* at its address.                                                         *)
THEOREM QueuedPopsAreLive == Spec => []PopsAreLive
<1>1. IInv => PopsAreLive
  BY DEF IInv
<1>2. QED
  BY <1>1, Invariance, PTL

(* The unchecked m_event_queue.push() never drops what the user typed, nor *)
(* what a menu command stands for, for any capacity of at least two.       *)
THEOREM InputIsNeverLost == Spec => []NoInputLost
<1>1. IInv => NoInputLost
  BY DEF IInv
<1>2. QED
  BY <1>1, Invariance, PTL

(* What try_login() asks the login server with is the name and the         *)
(* password typed last, after any number of failed attempts.               *)
THEOREM LastTypedIsUsed == Spec => []UsesLastTyped
<1>1. IInv => UsesLastTyped
  BY DEF IInv
<1>2. QED
  BY <1>1, Invariance, PTL

(* The client keeps a name or a password only as long as a login overlay   *)
(* is on the stack: a login that succeeds leaves none behind.              *)
THEOREM CredentialsAreForgotten == Spec => []CredentialsOnlyDuringLogin
<1>1. IInv => CredentialsOnlyDuringLogin
  BY DEF IInv
<1>2. QED
  BY <1>1, Invariance, PTL

(* The screen shows the layer on top, or this frame draws it: m_dirty_ui   *)
(* is set on every path that changes the stack.                            *)
THEOREM ScreenShowsTop == Spec => []ScreenIsTop
<1>1. IInv => ScreenIsTop
  BY DEF IInv
<1>2. QED
  BY <1>1, Invariance, PTL

(* The moves on the screen, and the way a digit is read, are those of the  *)
(* last request with a content, whatever empty ones came since             *)
(* (apply_request), or an event that makes the frame redraw is queued.     *)
THEOREM PromptStaysCurrent == Spec => []PromptIsCurrent
<1>1. IInv => PromptIsCurrent
  BY DEF IInv, PromptInv
<1>2. QED
  BY <1>1, Invariance, PTL

(* The end of a battle is taken for the end of another (on_event of        *)
(* BattleLayer asks no win for its room) only if battles begin elsewhere.  *)
THEOREM OwnEndsAreTheirs == Spec => []OwnEndsOnly
<1>1. IInv => OwnEndsOnly
  BY DEF IInv, MisledInv, OwnEndsOnly
<1>2. QED
  BY <1>1, Invariance, PTL

(* The first battle to end takes its own layer off the stack and not the   *)
(* menu, although pop_layer looks for it where it is not, unless its pop   *)
(* met a full queue: MenuAlwaysPresent and EndedBattlesArePopped, which    *)
(* the second battle breaks, hold until then, if no battle begins          *)
(* elsewhere.                                                              *)
THEOREM FirstBattleIsPopped ==
  ASSUME ~Elsewhere
  PROVE  Spec => []FirstBattleEndsWell
<1>1. IInv /\ FirstInv => FirstBattleEndsWell
  <2>1. SUFFICES ASSUME IInv, FirstInv, spent = {}, Cardinality(Rooms \ srv.rooms) <= 1
                 PROVE  MenuAlwaysPresent /\ ("LayerPop" \in lost \/ EndedBattlesArePopped)
    BY DEF FirstBattleEndsWell
  <2>2. OneRoom
    <3>1. SUFFICES ASSUME NEW x \in Rooms \ srv.rooms, NEW y \in Rooms \ srv.rooms, x # y
                   PROVE  FALSE
      BY <2>1 DEF OneRoom
    <3>2. IsFiniteSet({x}) /\ Cardinality({x}) = 1
      BY FS_Singleton
    <3>3. Cardinality({x} \cup {y}) = 2
      <4>1. Cardinality({x} \cup {y}) = Cardinality({x}) + 1
        <5>1. y \notin {x}
          BY <3>1
        <5>2. QED
          BY <3>2, <5>1, FS_AddElement
      <4>2. QED
        BY <3>2, <4>1
    <3>4. IsFiniteSet(Rooms \ srv.rooms) /\ {x} \cup {y} \subseteq Rooms \ srv.rooms
      BY <2>1 DEF FirstInv
    <3>5. /\ Cardinality({x} \cup {y}) <= Cardinality(Rooms \ srv.rooms)
          /\ Cardinality(Rooms \ srv.rooms) \in Nat
      BY <3>4, FS_Subset, FS_CardinalityType
    <3>6. QED
      BY <2>1, <3>3, <3>5
  <2>3. BottomIsMenu /\ (m_running => OverIsPopped)
    BY <2>1, <2>2 DEF FirstInv
  <2>4. StackFacts /\ QueueShape
    BY <2>1, StackIs DEF IInv
  <2>5. MenuAlwaysPresent
    <3>1. m_layers # <<>> => Head(m_layers) = m_layers[1]
      BY <2>4, HeadTail DEF StackFacts
    <3>2. QED
      BY <2>3, <3>1 DEF BottomIsMenu, MenuAlwaysPresent, Queued
  <2>6. ASSUME "LayerPop" \notin lost, pc = "input", m_running, NEW i \in 1 .. Len(m_layers)
        PROVE  ~obj[m_layers[i]].over
    <3>1. LayerPops = {}
      BY <2>4, <2>6 DEF QueueShape, LayerPops, Queued
    <3>2. m_layers[i] \in LayerIds
      BY <2>4 DEF StackFacts
    <3>3. QED
      BY <2>3, <2>6, <3>1, <3>2 DEF OverIsPopped
  <2>7. QED
    BY <2>5, <2>6 DEF EndedBattlesArePopped
<1>2. IInv /\ FirstInv /\ [Next]_vars => FirstInv'
  BY StepFirst
<1>3. QED
  BY <1>1, <1>2, InitFirst, Invariance, PTL DEF Spec

-----------------------------------------------------------------------------
(* What is sent. *)

BattleKinds ==
  {"move", "switch", "bench", "forfeit", "timer on", "timer off"}

(* Of all steps, these send something, and this is what they send. *)
LEMMA PostedAre ==
  ASSUME IInv, [Next]_vars, posted' # posted
  PROVE  \/ posted'.kind \in {"nothing", "join"}
         \/ PollBattleSearch /\ posted'.kind = "search"
         \/ AuthSucceeds /\ posted'.kind = "trn"
         \/ /\ TopIs("battle") /\ Top \in LayerIds
            /\ posted'.kind \in BattleKinds /\ posted'.room = obj[Top].room
<1>1. Types /\ Shape /\ StackFacts
  BY StackIs DEF IInv, Types
<1>2. posted' = Silence => posted'.kind = "nothing"
  BY DEF Silence
<1>3. CASE QuietStep
  BY <1>2, <1>3 DEF QuietStep, Start, StartUnresolved, NetworkDrained, ReadNothing, Render,
     Shutdown, CloseHangs, ConnectionLost, LoginServerHangs, vars
<1>4. CASE ServerStep
  BY <1>4 DEF ServerStep, ServerGreets, ServerNames, ServerTalks, ServerFindsBattle,
     ServerStartsElsewhere, ServerRequests, ServerEndsBattle, Deliver
<1>5. CASE ProcessMessage
  <2>1. PICK m \in Messages : m = Head(m_inbound)
    BY <1>1, <1>5, MessageChanges
  <2>2. posted' = Silence \/ posted' = BattleSends(obj[Top], Message(m))
    BY <1>1, <1>5, <2>1, MessageChanges
  <2>3. posted'.kind \in {"nothing", "join"}
    BY <2>2 DEF BattleSends, Message, Silence
  <2>4. QED
    BY <2>3
<1>6. CASE PollCommand
  <2>1. PICK e \in Events : e = Head(m_event_queue) /\ e.type = "Command"
    BY <1>1, <1>6, CommandChanges
  <2>2. posted' = IF TopIs("battle") THEN BattleSends(obj[Top], e) ELSE Silence
    BY <1>1, <1>6, <2>1, CommandChanges
  <2>3. CASE TopIs("battle")
    <3>1. Top \in LayerIds
      BY <1>1, <2>3 DEF StackFacts, TopIs
    <3>2. \/ posted' = Silence
          \/ posted'.kind \in BattleKinds /\ posted'.room = obj[Top].room
      BY <2>1, <2>2, <2>3 DEF BattleSends, BattleKinds
    <3>3. QED
      BY <1>2, <2>3, <3>1, <3>2
  <2>4. CASE ~TopIs("battle")
    BY <1>2, <2>2, <2>4
  <2>5. QED
    BY <2>3, <2>4
<1>7. CASE HandlingStep
  <2>1. CASE PollBattleSearch
    BY <2>1 DEF PollBattleSearch, Search
  <2>2. CASE AuthSucceeds
    <3>1. PICK token \in Assertions : posted' = [kind |-> "trn", assertion |-> token]
      BY <2>2 DEF AuthSucceeds
    <3>2. QED
      BY <2>2, <3>1
  <2>3. CASE \/ PollLayerPush \/ PollLayerPop \/ PollLogin \/ PollBattleJoin
             \/ LoginTaken \/ AuthFails \/ PollEnds
             \/ \E c \in Commands : ReadLine(c)
    BY <1>2, <2>3 DEF PollLayerPush, PollLayerPop, PollLogin, PollBattleJoin, LoginTaken,
       LoginName, LoginPassword, AuthFails, PollEnds, ReadLine
  <2>4. QED
    BY <1>7, <2>1, <2>2, <2>3 DEF HandlingStep
<1>8. CASE Exit
  BY <1>8 DEF Exit
<1>9. QED
  BY <1>3, <1>4, <1>5, <1>6, <1>7, <1>8, NextCases

(* BattleLayer::on_attach() searches for a battle only when the server has *)
(* no search of this client and no battle found by one, although nothing   *)
(* in on_attach() or in the menu looks; unless the end of a battle begun   *)
(* elsewhere was taken for the end of its own.                             *)
THEOREM NoSecondSearch == Spec => SearchOnlyWhenIdle
<1>1. ASSUME IInv, [Next]_vars, posted' # posted, posted'.kind = "search"
      PROVE  ~OwnPending \/ misled
  <2>1. PollBattleSearch
    BY <1>1, PostedAre DEF BattleKinds
  <2>2. Types /\ StackInv /\ EndInv
    BY <1>1, IInvParts
  <2>3. Head(m_event_queue).type = "BattleSearch" /\ m_running /\ m_event_queue # <<>>
    BY <2>1 DEF PollBattleSearch, Polling
  <2>4. TopIs("menu")
    <3>1. PICK e \in Events : e = m_event_queue[1]
      BY <2>2, <2>3, TypeParts, HeadIsQueued, HeadTail DEF Types, QueueTypes
    <3>2. e.type = "BattleSearch" /\ EventFits(e, 1, Len(m_event_queue))
      BY <2>2, <2>3, <3>1, TypeParts, HeadIsQueued DEF Types, StackInv, QueueShape
    <3>3. QED
      BY <3>2 DEF EventFits
  <2>5. ~TopIs("battle")
    BY <2>4 DEF TopIs
  <2>6. QED
    BY <2>2, <2>3, <2>5 DEF EndInv, MisledInv
<1>2. QED
  BY <1>1, Invariance, PTL DEF Spec, SearchOnlyWhenIdle

(* m_battle_room is never the room of a battle that is over while another  *)
(* one runs: what a battle layer sends goes to its own battle, if there    *)
(* are no others begun elsewhere.                                          *)
THEOREM ChoicesStayInTheirRoom ==
  ASSUME ~Elsewhere
  PROVE  Spec => ChoicesGoToTheirBattle
<1>1. ASSUME IInv, [Next]_vars, posted' # posted,
             posted'.kind \in {"move", "switch", "bench", "forfeit", "timer on", "timer off"}
      PROVE  posted'.room \in {None} \cup srv.own \/ srv.own = {}
  <2>1. Top \in LayerIds /\ posted'.room = obj[Top].room
    BY <1>1, PostedAre
  <2>2. QED
    BY <1>1, <2>1 DEF IInv, RoomsInv
<1>2. QED
  BY <1>1, Invariance, PTL DEF Spec, ChoicesGoToTheirBattle

(* try_login() sends /trn only with an assertion that request_assertion()  *)
(* took from a signed answer, and never twice for one challenge.           *)
THEOREM TrnIsSignedAndSingle == Spec => SignedOncePerChallenge
<1>1. ASSUME IInv, [Next]_vars, posted' # posted, posted'.kind = "trn"
      PROVE  posted'.assertion = "signed" /\ m_chall_str \in Challenges \ spent
  <2>1. AuthSucceeds
    BY <1>1, PostedAre DEF BattleKinds
  <2>2. PICK token \in Assertions \ {""} : posted' = [kind |-> "trn", assertion |-> token]
    BY <2>1 DEF AuthSucceeds
  <2>3. token = "signed"
    BY <2>2 DEF Assertions, Client!RequestAssertion
  <2>4. m_chall_str # None
    BY <1>1, <2>1 DEF AuthSucceeds, IInv, NameInv
  <2>5. QED
    BY <1>1, <2>2, <2>3, <2>4 DEF IInv, TypeOK, ChallInv
<1>2. QED
  BY <1>1, Invariance, PTL DEF Spec, SignedOncePerChallenge

(* The application is a client as LayerStack expects one, for every number *)
(* of lines typed: what is proved of the stack holds of it inside PsApp.   *)
(* Nothing is pushed twice, and no pop drives the offset further below     *)
(* zero than screens were opened, as long as every end of a battle is that *)
(* of the battle on the stack.                                             *)
THEOREM UsesTheStack ==
  ASSUME ~Elsewhere
  PROVE  Spec => UsesStack
<1>1. Init => Stack!Init
  BY DEF Init
<1>2. IInv /\ BudgetInv /\ [Next]_vars => [Stack!Next]_(Stack!stackVars)
  BY StepUsesStack
<1>3. QED
  BY <1>1, <1>2, Budget, PTL DEF Spec, UsesStack, Stack!Spec

=============================================================================
