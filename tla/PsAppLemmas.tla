---------------------------- MODULE PsAppLemmas ----------------------------
(***************************************************************************)
(* The inductive invariant of PsApp, and what each of its steps changes,   *)
(* for any number of layers, rooms, challenges, lines and requests, and    *)
(* queues of any size.  PsAppProofs shows that the steps keep it.          *)
(*                                                                         *)
(* What it rests on, in this order: no more than a menu and one overlay    *)
(* are ever on the stack (Shape), because the event that opens a screen is *)
(* alone in the queue until it is handled (QueueShape); and while a search *)
(* of this client or its battle is on the server, its screen is there and  *)
(* nothing is about to close it, unless the end of a battle elsewhere has  *)
(* misled the client (MisledInv, OneEnd).                                  *)
(***************************************************************************)
EXTENDS PsApp, OrderLemmas, SequenceTheorems, TLAPS

TopIs(kind) == m_layers # <<>> /\ obj[Top].kind = kind

Queued(type) == {i \in 1 .. Len(m_event_queue) : m_event_queue[i].type = type}

Inbound(type) == {i \in 1 .. Len(m_inbound) : m_inbound[i].type = type}

(* Pops of a battle, or of the menu *)
LayerPops == {i \in Queued("LayerPop") : ~m_event_queue[i].overlay}

RoomMessages == {i \in 1 .. Len(m_inbound) : NamesRoom(m_inbound[i])}

SrvOK ==
  srv \in [chall : SUBSET Challenges, guest : BOOLEAN, trn : BOOLEAN, search : BOOLEAN,
           own : SUBSET Rooms, others : SUBSET Rooms, requests : 0 .. MaxRequests,
           rooms : SUBSET Rooms]

(* A menu, or one overlay, or one overlay on a menu, and nothing else has  *)
(* an object but the menu that start-up has yet to push.                   *)
Shape ==
  /\ Len(m_layers) <= 2
  /\ \A i \in 1 .. Len(m_layers) : obj[m_layers[i]].kind # "free"
  /\ Len(m_layers) = 2 =>
       obj[m_layers[1]].kind = "menu" /\ obj[m_layers[2]].kind # "menu"
  /\ overlays \subseteq {l \in ToSet(m_layers) : l = Top /\ obj[l].kind # "menu"}
  /\ \A l \in LayerIds \ ToSet(m_layers) :
       \/ obj[l] = Free
       \/ /\ obj[l] = Menu /\ m_running
          /\ m_layers = <<>> /\ m_event_queue = <<LayerPush(l)>>

(* What event e, at position i of a queue of n, tells of the stack: one    *)
(* that opens or closes a screen fits what is there, and what the user     *)
(* typed is at the head of the queue.  Where battles elsewhere end, a      *)
(* LayerPop may come second, after one that has taken its layer; nothing   *)
(* opens a screen between the two.                                         *)
Gone(e) ==
  Elsewhere /\ obj[e.layer] = Free /\ (m_layers = <<>> \/ TopIs("menu"))

EventFits(e, i, n) ==
  /\ e.type = "LayerPush" =>
       n = 1 /\ m_layers = <<>> /\ m_layer_iterator_offset = 0 /\ obj[e.layer] = Menu
  /\ e.type \in {"Login", "BattleSearch"} => n = 1 /\ TopIs("menu")
  /\ e.type = "Command" => i = 1 /\ e.reader = Top /\ (n = 1 \/ TopIs("battle"))
  /\ e.type = "LayerPop" =>
       IF e.overlay
       THEN n = 1 /\ e.layer = Top /\ TopIs("login") /\ m_username = None /\ m_password = None
       ELSE (e.layer = Top /\ TopIs("battle")) \/ Gone(e)

QueueShape ==
  m_running =>
    /\ pc \in {"auth", "hung", "input"} => m_event_queue = <<>>
    /\ \A i \in 1 .. Len(m_event_queue) :
         EventFits(m_event_queue[i], i, Len(m_event_queue))

(* The loop starts with an empty stack, and is left only when it no longer *)
(* runs.                                                                   *)
LoopInv ==
  /\ pc = "start" => m_layers = <<>>
  /\ pc \in {"stop", "stuck", "exit", "done"} => ~m_running
  /\ pc \in {"start", "net"} => m_running

(* Without battles elsewhere, a battle layer lives through one search, one *)
(* battle, one end of it, and one event that pops it, and two of these are *)
(* never there together.                                                   *)
OneEnd ==
  ~Elsewhere /\ m_running =>
    /\ \A i, j \in Inbound("win") : i = j
    /\ \A i, j \in LayerPops : i = j
    /\ Inbound("win") = {} \/ LayerPops = {}
    /\ OwnPending \/ ~TopIs("battle") => Inbound("win") = {} /\ LayerPops = {}
    /\ OwnPending => TopIs("battle")

(* With them, a battle of this client has a screen, and no pop for it, or  *)
(* the end of another battle has been taken for its own.                   *)
MisledInv ==
  /\ m_running /\ OwnPending => misled \/ (TopIs("battle") /\ LayerPops = {})
  /\ Elsewhere \/ ~misled

(* No room is named before its battle is found, or after its end. *)
RoomsInv ==
  ~Elsewhere =>
    /\ srv.others = {}
    /\ srv.search =>
         srv.own = {} /\ RoomMessages = {} /\ \A l \in LayerIds : obj[l].room = None
    /\ \A r \in srv.own :
         /\ srv.own = {r}
         /\ \A i \in RoomMessages : NamedRoom(m_inbound[i]) = r
         /\ \A l \in LayerIds : obj[l].room \in {None, r}
    /\ \A l \in LayerIds : obj[l].kind # "battle" => obj[l].room = None
    /\ m_running =>
         /\ ~TopIs("battle") \/ LayerPops # {} => RoomMessages = {}
         /\ \A i \in Inbound("win"), j \in RoomMessages : j < i

(* A login overlay that has a name has the one typed last, or the client   *)
(* has forgotten it, until the login server is asked.                      *)
NameInv ==
  /\ pc = "auth" => TopIs("login") /\ m_chall_str # None
  /\ pc \notin {"auth", "hung"} =>
       \A l \in LayerIds : obj[l].kind = "login" /\ obj[l].named =>
         m_username \in {None, Client!Clip(typed[2])}

(* A challenge is in one place only. *)
ChallInv ==
  /\ \A i, j \in Inbound("challstr") : m_inbound[i].chall = m_inbound[j].chall => i = j
  /\ \A i \in Inbound("challstr") :
       m_inbound[i].chall \notin spent \cup srv.chall \cup {m_chall_str}
  /\ m_chall_str \notin spent \cup srv.chall
  /\ spent \cap srv.chall = {}

(* The battle on top has what it was asked for last. *)
AsAsked(b) ==
  prompt.kind # "nothing" => (b.force <=> prompt.kind = "switch") /\ b.moves = prompt.moves

PromptInv ==
  /\ PromptIsCurrent
  /\ TopIs("battle") => AsAsked(obj[Top])

RoomInQueue == pc = "input" => Len(m_event_queue) < EventCap

(* The inductive invariant. *)
IInv ==
  /\ TypeOK /\ SrvOK
  /\ Shape /\ QueueShape /\ LoopInv
  /\ CommandReachesReader /\ PopsAreLive
  /\ OneEnd /\ MisledInv /\ RoomsInv
  /\ CredentialsOnlyDuringLogin /\ UsesLastTyped /\ NameInv /\ ChallInv
  /\ ScreenIsTop /\ PromptInv /\ NoInputLost /\ RoomInQueue

-----------------------------------------------------------------------------
(* What is on the stack. *)

StackFacts ==
  /\ m_layers \in Seq(LayerIds) /\ Len(m_layers) \in 0 .. 2
  /\ ToSet(m_layers) = {m_layers[i] : i \in 1 .. Len(m_layers)}
  /\ ToSet(m_layers) \subseteq LayerIds
  /\ m_layers = <<>> => Top = None /\ Len(m_layers) = 0 /\ ToSet(m_layers) = {}
  /\ m_layers # <<>> =>
       /\ Len(m_layers) \in 1 .. 2 /\ Top = m_layers[Len(m_layers)]
       /\ Top \in ToSet(m_layers) /\ Top \in LayerIds /\ Top # None
       /\ obj[Top].kind \in {"menu", "login", "battle"}
  /\ \A l \in LayerIds : obj[l].kind \in {"login", "battle"} => m_layers # <<>> /\ l = Top
  /\ TopIs("menu") => Len(m_layers) = 1 /\ overlays = {}
  /\ ~TopIs("menu") => \A l \in ToSet(m_layers) : l # Top => obj[l].kind = "menu"

LEMMA StackIs == TypeOK /\ Shape => StackFacts
<1> SUFFICES ASSUME TypeOK, Shape PROVE StackFacts
  OBVIOUS
<1> DEFINE n == Len(m_layers)
<1>1. m_layers \in Seq(LayerIds) /\ obj \in [LayerIds -> Layers]
  BY DEF TypeOK, Stack!TypeOK
<1>2. n \in 0 .. 2
  <2>1. n \in Nat
    BY <1>1
  <2>2. n <= 2
    BY DEF Shape
  <2> HIDE DEF n
  <2>3. QED
    BY <2>1, <2>2
<1>3. DOMAIN m_layers = 1 .. n /\ \A i \in 1 .. n : m_layers[i] \in LayerIds
  BY <1>1
<1>4. ToSet(m_layers) = {m_layers[i] : i \in 1 .. n} /\ ToSet(m_layers) \subseteq LayerIds
  BY <1>3 DEF ToSet
<1>5. m_layers = <<>> => Top = None /\ n = 0 /\ ToSet(m_layers) = {}
  BY <1>4 DEF Top
<1>6. m_layers # <<>> => n \in 1 .. 2 /\ Top = m_layers[n]
  BY <1>1, <1>2 DEF Top, Last
<1>7. None \notin LayerIds
  BY AppAssumption
<1>8. /\ \A i \in 1 .. n : obj[m_layers[i]].kind # "free"
      /\ n = 2 => obj[m_layers[1]].kind = "menu" /\ obj[m_layers[2]].kind # "menu"
      /\ overlays \subseteq {l \in ToSet(m_layers) : l = Top /\ obj[l].kind # "menu"}
      /\ \A l \in LayerIds \ ToSet(m_layers) : obj[l] \in {Free, Menu}
  BY DEF Shape
<1> HIDE DEF n
<1>9. \A l \in LayerIds : obj[l].kind \in {"free", "menu", "login", "battle"}
  BY <1>1 DEF Layers
<1>10. m_layers # <<>> =>
         /\ Top \in ToSet(m_layers) /\ Top \in LayerIds /\ Top # None
         /\ obj[Top].kind \in {"menu", "login", "battle"}
  BY <1>3, <1>4, <1>6, <1>7, <1>8, <1>9
<1>11. \A l \in ToSet(m_layers) : l = Top \/ (n = 2 /\ l = m_layers[1])
  BY <1>2, <1>4, <1>5, <1>6
<1>12. Free.kind = "free" /\ Menu.kind = "menu"
  BY DEF Free, Menu
<1>13. \A l \in LayerIds : obj[l].kind \in {"login", "battle"} => m_layers # <<>> /\ l = Top
  BY <1>5, <1>8, <1>11, <1>12
<1>14. TopIs("menu") => n = 1 /\ overlays = {}
  BY <1>6, <1>8 DEF TopIs
<1>15. ~TopIs("menu") => \A l \in ToSet(m_layers) : l # Top => obj[l].kind = "menu"
  BY <1>8, <1>11
<1>16. QED
  BY <1>1, <1>2, <1>4, <1>5, <1>6, <1>10, <1>13, <1>14, <1>15 DEF StackFacts, n

LEMMA StackWillBe == TypeOK' /\ Shape' => StackFacts'
  BY StackIs, PTL

(* Whom an event reaches, as far as anything comes of it. *)
LEMMA ReachedAre ==
  ASSUME StackFacts, NEW e
  PROVE  /\ Reached(e) \subseteq LayerIds
         /\ m_layers = <<>> => Reached(e) = {}
         /\ m_layers # <<>> => Top \in Reached(e)
         /\ \A l \in Reached(e) : obj[l].kind \in {"login", "battle"} => l = Top
<1> DEFINE n == Len(m_layers)
<1>1. n \in 0 .. 2
  BY DEF StackFacts
<1>2. Reached(e) \subseteq ToSet(m_layers)
  BY DEF Reached, StackFacts
<1>3. m_layers # <<>> => Top \in Reached(e)
  <2>1. SUFFICES ASSUME m_layers # <<>> PROVE Top \in Reached(e)
    OBVIOUS
  <2>2. n \in 1 .. 2 /\ Top = m_layers[n]
    BY <2>1 DEF StackFacts
  <2> HIDE DEF n
  <2>3. \A j \in n + 1 .. n : ~Handles(m_layers[j], e)
    BY <2>2
  <2>4. QED
    BY <2>2, <2>3 DEF Reached, n
<1>4. \A l \in ToSet(m_layers) : l \in LayerIds
  BY DEF StackFacts
<1>5. QED
  BY <1>2, <1>3, <1>4 DEF StackFacts

LEMMA SubmissionsAre ==
  ASSUME StackFacts, NEW e, NEW T, \A l \in LayerIds : Submits(l, e) \in Seq(T)
  PROVE  Submissions(e) =
           IF Len(m_layers) = 0 THEN <<>>
           ELSE IF Len(m_layers) = 1 THEN Submits(m_layers[1], e)
           ELSE Submits(m_layers[2], e) \o
                  (IF Handles(m_layers[2], e) THEN <<>> ELSE Submits(m_layers[1], e))
<1> DEFINE n == Len(m_layers)
           sub(k) == Submits(m_layers[k], e)
           handles(k) == Handles(m_layers[k], e)
           loop(f) == [k \in 0 .. n |->
                         IF k = 0 THEN <<>>
                         ELSE sub(k) \o (IF handles(k) THEN <<>> ELSE f[k - 1])]
           from == CHOOSE f : f = loop(f)
           one == IF n = 0 THEN <<>> ELSE sub(1)
           two == IF n = 2 THEN sub(2) \o (IF handles(2) THEN <<>> ELSE one) ELSE one
           g == [k \in 0 .. n |-> IF k = 0 THEN <<>> ELSE IF k = 1 THEN one ELSE two]
<1>1. n \in 0 .. 2 /\ m_layers \in [1 .. n -> LayerIds]
  BY DEF StackFacts
<1>2. \A k \in 1 .. n : sub(k) \in Seq(T)
  BY <1>1
<1>3. Submissions(e) = from[n]
  BY DEF Submissions
<1> HIDE DEF n, sub, handles
<1>4. ASSUME n >= 1 PROVE \A x : sub(1) \o (IF handles(1) THEN <<>> ELSE <<>>) = sub(1)
  <2>1. sub(1) \in Seq(T)
    BY <1>1, <1>2, <1>4
  <2>2. QED
    BY <2>1
<1>5. \A k \in 0 .. n :
        g[k] = (IF k = 0 THEN <<>> ELSE sub(k) \o (IF handles(k) THEN <<>> ELSE g[k - 1]))
  <2>1. 0 \in 0 .. n /\ g[0] = <<>>
    BY <1>1
  <2>2. ASSUME n >= 1
        PROVE  g[1] = sub(1) \o (IF handles(1) THEN <<>> ELSE g[0])
    <3>1. g[1] = one /\ one = sub(1)
      BY <1>1, <2>2
    <3>2. QED
      BY <1>4, <2>1, <2>2, <3>1
  <2>3. ASSUME n = 2
        PROVE  g[2] = sub(2) \o (IF handles(2) THEN <<>> ELSE g[1])
    <3>1. 1 \in 0 .. n /\ 2 \in 0 .. n
      BY <2>3
    <3>2. g[1] = one
      BY <3>1
    <3>3. g[2] = two
      BY <3>1
    <3>4. QED
      BY <2>3, <3>2, <3>3
  <2> HIDE DEF g
  <2>4. SUFFICES ASSUME NEW k \in 0 .. n
                 PROVE  g[k] = (IF k = 0 THEN <<>>
                                ELSE sub(k) \o (IF handles(k) THEN <<>> ELSE g[k - 1]))
    OBVIOUS
  <2>5. k = 0 \/ (k = 1 /\ n >= 1) \/ (k = 2 /\ n = 2)
    BY <1>1
  <2>6. CASE k = 0
    BY <2>1, <2>6
  <2>7. CASE k = 1 /\ n >= 1
    BY <2>2, <2>7
  <2>8. CASE k = 2 /\ n = 2
    BY <2>3, <2>8
  <2>9. QED
    BY <2>5, <2>6, <2>7, <2>8
<1>6. g = loop(g)
  <2> DEFINE body(k) == IF k = 0 THEN <<>>
                        ELSE sub(k) \o (IF handles(k) THEN <<>> ELSE g[k - 1])
  <2>1. g = [k \in 0 .. n |-> g[k]]
    OBVIOUS
  <2>2. \A k \in 0 .. n : g[k] = body(k)
    BY <1>5
  <2>3. loop(g) = [k \in 0 .. n |-> body(k)]
    OBVIOUS
  <2> HIDE DEF g, body, loop
  <2>4. QED
    BY <2>1, <2>2, <2>3
<1>7. from = loop(from)
  <2> HIDE DEF g, loop
  <2>1. QED
    BY <1>6
<1>8. \A k \in 0 .. n :
        from[k] = (IF k = 0 THEN <<>> ELSE sub(k) \o (IF handles(k) THEN <<>> ELSE from[k - 1]))
  <2> HIDE DEF from
  <2>1. QED
    BY <1>7
<1> HIDE DEF from
<1>9. from[0] = <<>>
  <2>1. 0 \in 0 .. n
    BY <1>1
  <2>2. QED
    BY <1>8, <2>1
<1>10. n >= 1 => from[1] = sub(1)
  <2>1. n >= 1 => 1 \in 0 .. n /\ 1 # 0 /\ 1 - 1 = 0
    BY <1>1
  <2>2. n >= 1 => from[1] = sub(1) \o (IF handles(1) THEN <<>> ELSE from[0])
    BY <1>8, <2>1
  <2>3. QED
    BY <1>4, <1>9, <2>2
<1>11. n = 2 => from[2] = sub(2) \o (IF handles(2) THEN <<>> ELSE sub(1))
  <2>1. n = 2 => 2 \in 0 .. n /\ 2 # 0 /\ 2 - 1 = 1 /\ n >= 1
    OBVIOUS
  <2>2. n = 2 => from[2] = sub(2) \o (IF handles(2) THEN <<>> ELSE from[1])
    BY <1>8, <2>1
  <2>3. QED
    BY <1>10, <2>1, <2>2
<1>12. n = 0 \/ n = 1 \/ n = 2
  BY <1>1
<1>13. from[n] = IF n = 0 THEN <<>> ELSE IF n = 1 THEN sub(1)
                 ELSE sub(2) \o (IF handles(2) THEN <<>> ELSE sub(1))
  <2>1. CASE n = 0
    BY <1>9, <2>1
  <2>2. CASE n = 1
    BY <1>10, <2>2
  <2>3. CASE n = 2
    BY <1>11, <2>3
  <2>4. QED
    BY <1>12, <2>1, <2>2, <2>3
<1>14. QED
  BY <1>3, <1>13 DEF n, sub, handles

-----------------------------------------------------------------------------
(* What events and messages carry, and what becomes of a submitted event.  *)

LEMMA EventFields ==
  ASSUME NEW e \in Events
  PROVE  /\ e.type \in {"LayerPush", "LayerPop", "Login", "BattleSearch", "BattleJoin",
                        "Command"}
         /\ e.type = "LayerPush" => e.layer \in LayerIds
         /\ e.type = "LayerPop" => e.layer \in LayerIds /\ e.overlay \in BOOLEAN
         /\ e.type = "Command" => e.cmd \in Commands
  BY DEF Events

LEMMA MessageFields ==
  ASSUME NEW m \in Messages
  PROVE  /\ m.type \in {"challstr", "updateuser", "updatesearch", "request", "win", "chat"}
         /\ m.type = "challstr" => m.chall \in Challenges
         /\ m.type = "updateuser" => m.named \in BOOLEAN
         /\ m.type = "updatesearch" => m.games \in SUBSET Rooms
         /\ m.type = "request" => m.kind \in Requests /\ m.moves \in 0 .. MaxRequests
  BY DEF Messages

(* The first key of a list of games is one of them. *)
LEMMA RoomIsNamed ==
  /\ \A m \in Messages : NamesRoom(m) => NamedRoom(m) \in Rooms /\ NamedRoom(m) \in m.games
  /\ \A m, r : m.games = {r} /\ r \in Rooms => NamedRoom(m) = r
<1>1. Rooms \subseteq Nat
  BY AppAssumption
<1>2. ASSUME NEW m \in Messages, NamesRoom(m)
      PROVE  NamedRoom(m) \in Rooms /\ NamedRoom(m) \in m.games
  <2>1. m.games \subseteq Rooms /\ m.games # {}
    BY <1>2, MessageFields DEF NamesRoom
  <2> DEFINE least == CHOOSE x \in m.games : \A y \in m.games : x <= y
  <2>2. \E x \in m.games : \A y \in m.games : x <= y
    BY <1>1, <2>1, LeastNatural
  <2>3. least \in m.games
    BY <2>2
  <2>4. NamedRoom(m) = least
    BY DEF NamedRoom, Min
  <2> HIDE DEF least
  <2>5. QED
    BY <2>1, <2>3, <2>4
<1>3. ASSUME NEW m, NEW r \in Rooms, m.games = {r} PROVE NamedRoom(m) = r
  <2>1. r <= r
    BY <1>1
  <2>2. NamedRoom(m) = CHOOSE x \in {r} : \A y \in {r} : x <= y
    BY <1>3 DEF NamedRoom, Min
  <2>3. QED
    BY <2>1, <2>2
<1>4. QED
  BY <1>2, <1>3

(* An event is appended, or refused and remembered as lost. *)
Submitted(queue, e) ==
  IF Len(queue) < EventCap
  THEN m_event_queue' = Append(queue, e) /\ lost' = lost
  ELSE m_event_queue' = queue /\ lost' = lost \cup {e.type}

LEMMA SubmitNone ==
  ASSUME NEW queue \in Seq(Events), Len(queue) <= EventCap, Submit(queue, <<>>)
  PROVE  m_event_queue' = queue /\ lost' = lost
<1>1. EventCap \in Nat /\ Len(queue) \in Nat /\ 0 <= EventCap - Len(queue)
  BY AppAssumption
<1>2. m_event_queue' = queue \o <<>>
  BY <1>1 DEF Submit
<1>3. queue \o <<>> = queue
  OBVIOUS
<1>4. lost' = lost \cup {<<>>[i].type : i \in 1 .. 0}
  BY <1>1 DEF Submit
<1>5. QED
  BY <1>2, <1>3, <1>4

LEMMA SubmitOne ==
  ASSUME NEW queue \in Seq(Events), Len(queue) <= EventCap, NEW e, Submit(queue, <<e>>)
  PROVE  Submitted(queue, e)
<1> DEFINE room == EventCap - Len(queue)
           kept == IF 1 <= room THEN <<e>> ELSE SubSeq(<<e>>, 1, room)
<1>1. EventCap \in Nat /\ Len(queue) \in Nat /\ room \in Nat
  BY AppAssumption
<1>2. Len(<<e>>) = 1 /\ <<e>>[1] = e
  OBVIOUS
<1>3. /\ m_event_queue' = queue \o kept
      /\ lost' = lost \cup {<<e>>[i].type : i \in Len(kept) + 1 .. 1}
  BY <1>2 DEF Submit
<1>4. CASE Len(queue) < EventCap
  <2>1. kept = <<e>>
    BY <1>1, <1>4
  <2>2. queue \o <<e>> = Append(queue, e)
    OBVIOUS
  <2>3. {<<e>>[i].type : i \in Len(<<e>>) + 1 .. 1} = {}
    BY <1>2
  <2> HIDE DEF kept
  <2>4. QED
    BY <1>3, <1>4, <2>1, <2>2, <2>3 DEF Submitted
<1>5. CASE ~(Len(queue) < EventCap)
  <2>1. room = 0
    BY <1>1, <1>5
  <2>2. kept = SubSeq(<<e>>, 1, 0)
    BY <2>1
  <2>3. SubSeq(<<e>>, 1, 0) = <<>>
    OBVIOUS
  <2>4. kept = <<>>
    BY <2>2, <2>3
  <2> HIDE DEF kept
  <2>5. {<<e>>[i].type : i \in 0 + 1 .. 1} = {e.type}
    <3>1. 0 + 1 .. 1 = {1}
      OBVIOUS
    <3>2. QED
      BY <1>2, <3>1
  <2>6. queue \o <<>> = queue /\ Len(<<>>) = 0
    OBVIOUS
  <2>7. QED
    BY <1>3, <1>5, <2>4, <2>5, <2>6 DEF Submitted
<1>6. QED
  BY <1>4, <1>5

-----------------------------------------------------------------------------
(* What the layers submit, change and send: only the one on top counts.    *)

LEMMA MessageSubmits ==
  ASSUME TypeOK, StackFacts, NEW m \in Messages
  PROVE  Submissions(Message(m)) =
           IF ~TopIs("battle") THEN <<>>
           ELSE IF m.type = "win" THEN <<LayerPop(Top, FALSE)>>
           ELSE IF m.type = "request" THEN <<BattleJoin>>
           ELSE <<>>
<1> DEFINE e == Message(m)
           T == {LayerPop(l, FALSE) : l \in LayerIds} \cup {BattleJoin}
           n == Len(m_layers)
<1>1. e.type = "Message" /\ e.msg = m
  BY DEF Message
<1> HIDE DEF e
<1>2. \A l \in LayerIds :
        Submits(l, e) = IF obj[l].kind # "battle" THEN <<>>
                        ELSE IF m.type = "win" THEN <<LayerPop(l, FALSE)>>
                        ELSE IF m.type = "request" THEN <<BattleJoin>>
                        ELSE <<>>
  BY <1>1 DEF Submits, MenuSubmits, BattleSubmits
<1>3. \A l \in LayerIds : LayerPop(l, FALSE) \in T
  OBVIOUS
<1>4. BattleJoin \in T
  OBVIOUS
<1> HIDE DEF T
<1>5. \A l \in LayerIds : Submits(l, e) \in Seq(T)
  <2>1. <<>> \in Seq(T) /\ <<BattleJoin>> \in Seq(T)
    BY <1>4
  <2>2. ASSUME NEW l \in LayerIds PROVE <<LayerPop(l, FALSE)>> \in Seq(T)
    <3> DEFINE pop == LayerPop(l, FALSE)
    <3>1. pop \in T
      BY <1>3
    <3> HIDE DEF pop
    <3>2. <<pop>> \in Seq(T)
      BY <3>1
    <3>3. QED
      BY <3>2 DEF pop
  <2>3. QED
    BY <1>2, <2>1, <2>2, Zenon
<1>6. Submissions(e) =
        IF n = 0 THEN <<>>
        ELSE IF n = 1 THEN Submits(m_layers[1], e)
        ELSE Submits(m_layers[2], e) \o
               (IF Handles(m_layers[2], e) THEN <<>> ELSE Submits(m_layers[1], e))
  BY <1>5, SubmissionsAre
<1>7. n = 0 \/ n = 1 \/ n = 2
  BY DEF StackFacts
<1>8. CASE n = 0
  <2>1. m_layers = <<>>
    BY <1>8 DEF StackFacts
  <2>2. QED
    BY <1>6, <1>8, <2>1 DEF TopIs, e
<1>9. CASE n = 1
  <2>1. Top = m_layers[1] /\ Top \in LayerIds /\ m_layers # <<>>
    BY <1>9 DEF StackFacts
  <2>2. Submissions(e) = Submits(Top, e)
    BY <1>6, <1>9, <2>1
  <2>3. QED
    BY <1>2, <2>1, <2>2 DEF TopIs, e
<1>10. CASE n = 2
  <2>1. /\ Top = m_layers[2] /\ Top \in LayerIds /\ m_layers # <<>>
        /\ m_layers[1] \in LayerIds
    BY <1>10 DEF StackFacts
  <2>2. obj[Top].kind # "login" => Handles(Top, e)
    BY <1>1 DEF Handles
  <2>3. obj[Top].kind = "login" => Submits(m_layers[1], e) = <<>>
    <3>1. obj[Top].kind = "login" => m_layers[1] = Top \/ obj[m_layers[1]].kind = "menu"
      BY <1>10, <2>1 DEF StackFacts, TopIs
    <3>2. QED
      BY <1>2, <2>1, <3>1
  <2>4. Submissions(e) = Submits(Top, e) \o <<>>
    <3>1. n # 0 /\ n # 1
      BY <1>10
    <3>2. Submissions(e) =
            Submits(Top, e) \o (IF Handles(Top, e) THEN <<>> ELSE Submits(m_layers[1], e))
      BY <1>6, <2>1, <3>1, Zenon
    <3>3. CASE obj[Top].kind = "login"
      BY <2>3, <3>2, <3>3, Zenon
    <3>4. CASE obj[Top].kind # "login"
      BY <2>2, <3>2, <3>4, Zenon
    <3>5. QED
      BY <3>3, <3>4
  <2>5. Submits(Top, e) \o <<>> = Submits(Top, e)
    BY <1>5, <2>1
  <2>6. QED
    BY <1>2, <2>1, <2>4, <2>5 DEF TopIs, e
<1>11. QED
  BY <1>7, <1>8, <1>9, <1>10

LEMMA CommandSubmits ==
  ASSUME TypeOK, StackFacts, NEW e, e.type = "Command"
  PROVE  Submissions(e) = IF TopIs("menu") THEN MenuSubmits(Top, e) ELSE <<>>
<1> DEFINE T == {LayerPop(l, FALSE) : l \in LayerIds} \cup {BattleSearch, LoginEvent}
           n == Len(m_layers)
<1>1. \A l \in LayerIds :
        Submits(l, e) = IF obj[l].kind = "menu" THEN MenuSubmits(l, e) ELSE <<>>
  BY DEF Submits, BattleSubmits
<1>2. \A l \in LayerIds : LayerPop(l, FALSE) \in T
  OBVIOUS
<1>3. BattleSearch \in T /\ LoginEvent \in T
  OBVIOUS
<1> HIDE DEF T
<1>4. \A l \in LayerIds : MenuSubmits(l, e) \in Seq(T)
  <2>1. <<>> \in Seq(T) /\ <<BattleSearch>> \in Seq(T) /\ <<LoginEvent>> \in Seq(T)
    BY <1>3
  <2>2. ASSUME NEW l \in LayerIds PROVE <<LayerPop(l, FALSE)>> \in Seq(T)
    <3> DEFINE pop == LayerPop(l, FALSE)
    <3>1. pop \in T
      BY <1>2
    <3> HIDE DEF pop
    <3>2. <<pop>> \in Seq(T)
      BY <3>1
    <3>3. QED
      BY <3>2 DEF pop
  <2>3. QED
    BY <2>1, <2>2, Zenon DEF MenuSubmits
<1>5. \A l \in LayerIds : Submits(l, e) \in Seq(T)
  <2>1. <<>> \in Seq(T)
    OBVIOUS
  <2>2. QED
    BY <1>1, <1>4, <2>1, Zenon
<1>6. Submissions(e) =
        IF n = 0 THEN <<>>
        ELSE IF n = 1 THEN Submits(m_layers[1], e)
        ELSE Submits(m_layers[2], e) \o
               (IF Handles(m_layers[2], e) THEN <<>> ELSE Submits(m_layers[1], e))
  BY <1>5, SubmissionsAre
<1>7. n = 0 \/ n = 1 \/ n = 2
  BY DEF StackFacts
<1>8. CASE n = 0
  <2>1. m_layers = <<>>
    BY <1>8 DEF StackFacts
  <2>2. QED
    BY <1>6, <1>8, <2>1 DEF TopIs
<1>9. CASE n = 1
  <2>1. Top = m_layers[1] /\ Top \in LayerIds /\ m_layers # <<>>
    BY <1>9 DEF StackFacts
  <2>2. QED
    BY <1>1, <1>6, <1>9, <2>1 DEF TopIs
<1>10. CASE n = 2
  <2>1. Top = m_layers[2] /\ Top \in LayerIds /\ m_layers # <<>> /\ ~TopIs("menu")
    BY <1>10 DEF StackFacts
  <2>2. obj[Top].kind # "menu"
    BY <2>1 DEF TopIs
  <2>3. Handles(Top, e)
    BY <2>2 DEF Handles
  <2>4. Submissions(e) = <<>> \o <<>>
    BY <1>1, <1>6, <1>10, <2>1, <2>2, <2>3
  <2>5. QED
    BY <2>1, <2>4
<1>11. QED
  BY <1>7, <1>8, <1>9, <1>10

(* A battle on top takes the event; any other layer stays as it is. *)
LEMMA PushChanges ==
  ASSUME TypeOK, StackFacts, NEW queue, NEW e, PushToLayers(queue, e)
  PROVE  /\ obj' = IF TopIs("battle") THEN [obj EXCEPT ![Top] = BattleReacts(obj[Top], e)]
                   ELSE obj
         /\ posted' = IF TopIs("battle") THEN BattleSends(obj[Top], e) ELSE Silence
<1> DEFINE R == {l \in Reached(e) : obj[l].kind = "battle"}
           b == CHOOSE l \in Reached(e) : obj[l].kind = "battle"
<1>1. /\ Reached(e) \subseteq LayerIds
      /\ m_layers = <<>> => Reached(e) = {}
      /\ m_layers # <<>> => Top \in Reached(e)
      /\ \A l \in Reached(e) : obj[l].kind \in {"login", "battle"} => l = Top
  BY ReachedAre
<1>2. TopIs("battle") => R = {Top} /\ Top \in LayerIds
  BY <1>1 DEF TopIs, StackFacts
<1>3. ~TopIs("battle") => R = {}
  BY <1>1 DEF TopIs
<1>4. obj' = [l \in LayerIds |-> IF l \in R THEN BattleReacts(obj[l], e) ELSE obj[l]]
  BY <1>1 DEF PushToLayers, Reactions
<1>5. obj = [l \in LayerIds |-> obj[l]]
  BY DEF TypeOK
<1>6. posted' = IF R # {} THEN BattleSends(obj[b], e) ELSE Silence
  BY DEF PushToLayers
<1>7. TopIs("battle") => b = Top
  BY <1>2
<1> HIDE DEF R, b
<1>8. TopIs("battle") => obj' = [obj EXCEPT ![Top] = BattleReacts(obj[Top], e)]
  BY <1>2, <1>4, <1>5
<1>9. ~TopIs("battle") => obj' = obj
  BY <1>3, <1>4, <1>5
<1>10. posted' = IF TopIs("battle") THEN BattleSends(obj[Top], e) ELSE Silence
  <2>1. CASE TopIs("battle")
    <3>1. R # {}
      BY <1>2, <2>1
    <3>2. QED
      BY <1>6, <1>7, <2>1, <3>1, Zenon
  <2>2. CASE ~TopIs("battle")
    BY <1>3, <1>6, <2>2, Zenon
  <2>3. QED
    BY <2>1, <2>2
<1>11. QED
  BY <1>8, <1>9, <1>10

-----------------------------------------------------------------------------
(* A pop takes one layer off the stack, whichever, or none.                *)

LEMMA FindInRange ==
  ASSUME NEW first \in Nat, NEW last \in Nat, first <= last, NEW l
  PROVE  /\ Stack!Find(first, last, l) \in first .. last
         /\ (\E i \in first .. last - 1 : m_layers[i] = l)
              => Stack!Find(first, last, l) \in first .. last - 1
<1> DEFINE Hits == {i \in first .. last - 1 : m_layers[i] = l}
<1>1. CASE Hits = {}
  BY <1>1 DEF Stack!Find
<1>2. CASE Hits # {}
  <2>1. PICK i \in Hits : \A j \in Hits : i <= j
    <3>1. Hits \in SUBSET Nat
      OBVIOUS
    <3> HIDE DEF Hits
    <3>2. QED
      BY <1>2, <3>1, LeastNatural
  <2>2. m_layers[i] = l /\ \A j \in first .. i - 1 : m_layers[j] # l
    BY <2>1
  <2>3. QED
    BY <2>1, <2>2 DEF Stack!Find
<1>3. QED
  BY <1>1, <1>2

LEMMA PopErasesOrNot ==
  ASSUME TypeOK, NEW l \in LayerIds, Stack!PopLayer(l) \/ Stack!PopOverlay(l)
  PROVE  \/ \E it \in 1 .. Len(m_layers) : Stack!Erase(it)
         \/ UNCHANGED vectorVars
         \/ Stack!Fault
<1> DEFINE n == Len(m_layers)
           at == m_layer_iterator_offset
<1>1. n \in Nat /\ at \in Nat /\ Stack!End = n + 1
  <2>1. m_layers \in Seq(LayerIds) /\ at \in 0 .. Modulus - 1
    BY DEF TypeOK, Stack!TypeOK
  <2>2. QED
    BY <2>1, AppAssumption DEF Stack!End
<1>2. Stack!OffsetInVector <=> at <= n
  BY DEF Stack!OffsetInVector
<1>3. UNCHANGED Stack!stackVars <=> UNCHANGED vectorVars
  BY DEF Stack!stackVars, vectorVars
<1>4. m_layers \in Seq(LayerIds)
  BY DEF TypeOK, Stack!TypeOK
<1> HIDE DEF n
<1>5. CASE at <= n /\ Stack!PopLayer(l)
  <2> DEFINE it == Stack!Find(1, at + 1, l)
  <2>1. it \in 1 .. at + 1
    <3>1. 1 \in Nat /\ at + 1 \in Nat /\ 1 <= at + 1
      BY <1>1
    <3>2. QED
      BY <3>1, FindInRange
  <2>2. IF it # n + 1 THEN Stack!Erase(it) ELSE UNCHANGED vectorVars
    BY <1>1, <1>2, <1>3, <1>5 DEF Stack!PopLayer
  <2> HIDE DEF it, at
  <2>3. it # n + 1 => it \in 1 .. n
    BY <1>1, <1>5, <2>1
  <2>4. QED
    BY <2>2, <2>3 DEF n
<1>6. CASE at <= n /\ Stack!PopOverlay(l)
  <2> DEFINE it == Stack!Find(at + 1, n + 1, l)
  <2>1. it \in at + 1 .. n + 1
    <3>1. at + 1 \in Nat /\ n + 1 \in Nat /\ at + 1 <= n + 1
      BY <1>1, <1>6
    <3>2. QED
      BY <3>1, FindInRange
  <2>2. IF it # n + 1 THEN Stack!Erase(it) ELSE UNCHANGED vectorVars
    BY <1>1, <1>2, <1>3, <1>6 DEF Stack!PopOverlay
  <2> HIDE DEF it, at
  <2>3. it # n + 1 => it \in 1 .. n
    BY <1>1, <2>1
  <2>4. QED
    BY <2>2, <2>3 DEF n
<1>7. CASE ~(at <= n) /\ Stack!PopLayer(l)
  <2> DEFINE last == n + 1
             it == Stack!Find(1, last, l)
  <2>1. IF l \in ToSet(m_layers) THEN Stack!Erase(it) ELSE Stack!Fault
    BY <1>1, <1>2, <1>7 DEF Stack!PopLayer, Stack!ToSet, ToSet
  <2>2. ASSUME l \in ToSet(m_layers)
        PROVE  it \in 1 .. n
    <3>1. PICK j \in 1 .. n : m_layers[j] = l
      BY <1>4, <2>2 DEF ToSet, n
    <3>2. last \in Nat /\ 1 <= last /\ last - 1 = n
      BY <1>1
    <3> HIDE DEF last
    <3>3. \E i \in 1 .. last - 1 : m_layers[i] = l
      BY <3>1, <3>2
    <3>4. it \in 1 .. last - 1
      <4>1. 1 \in Nat
        OBVIOUS
      <4>2. QED
        BY <3>2, <3>3, <4>1, FindInRange
    <3>5. QED
      BY <3>2, <3>4
  <2> HIDE DEF it
  <2>3. QED
    BY <2>1, <2>2 DEF n
<1>8. CASE ~(at <= n) /\ Stack!PopOverlay(l)
  BY <1>2, <1>3, <1>8 DEF Stack!PopOverlay
<1>9. QED
  BY <1>5, <1>6, <1>7, <1>8

LEMMA RemoveFromTwo ==
  ASSUME NEW S, NEW s \in Seq(S), Len(s) \in 1 .. 2, NEW i \in 1 .. Len(s),
         Len(s) = 2 => s[1] # s[2]
  PROVE  /\ RemoveAt(s, i) \in Seq(S) /\ Len(RemoveAt(s, i)) = Len(s) - 1
         /\ ToSet(RemoveAt(s, i)) = ToSet(s) \ {s[i]}
<1> DEFINE r == RemoveAt(s, i)
<1>1. /\ r \in Seq(S) /\ Len(r) = Len(s) - 1
      /\ \A k \in 1 .. Len(s) - 1 : r[k] = IF k < i THEN s[k] ELSE s[k + 1]
  BY RemovedPositions
<1>2. \A t \in Seq(S) : ToSet(t) = {t[k] : k \in 1 .. Len(t)}
  BY DEF ToSet
<1> HIDE DEF r
<1>3. ToSet(r) = ToSet(s) \ {s[i]}
  <2>1. CASE Len(s) = 1
    <3>1. i = 1 /\ Len(r) = 0
      BY <1>1, <2>1
    <3>2. ToSet(s) = {s[1]} /\ ToSet(r) = {}
      <4>1. ToSet(s) = {s[k] : k \in 1 .. 1} /\ ToSet(r) = {r[k] : k \in 1 .. 0}
        BY <1>1, <1>2, <2>1, <3>1
      <4>2. QED
        BY <4>1
    <3>3. QED
      BY <3>1, <3>2
  <2>2. CASE Len(s) = 2
    <3>1. Len(r) = 1 /\ (i = 1 \/ i = 2)
      BY <1>1, <2>2
    <3>2. ToSet(s) = {s[1], s[2]} /\ ToSet(r) = {r[1]}
      BY <1>1, <1>2, <2>2, <3>1
    <3>3. r[1] = IF i = 1 THEN s[2] ELSE s[1]
      BY <1>1, <2>2, <3>1
    <3>4. QED
      BY <2>2, <3>1, <3>2, <3>3
  <2>3. QED
    BY <2>1, <2>2
<1>4. QED
  BY <1>1, <1>3 DEF r

(* x is the layer that goes. *)
Goes(x) ==
  /\ m_layers' \in Seq(LayerIds) /\ Len(m_layers') = Len(m_layers) - 1
  /\ ToSet(m_layers') = ToSet(m_layers) \ {x}
  /\ overlays' = overlays \ {x}
  /\ obj' = [obj EXCEPT ![x] = Free]
  /\ status' = status

NothingGoes ==
  /\ UNCHANGED <<m_layers, overlays, obj>>
  /\ status' \in {status, "fault"}

LEMMA PopChanges ==
  ASSUME TypeOK, Shape, NEW l \in LayerIds, Stack!PopLayer(l) \/ Stack!PopOverlay(l),
         obj' = Freed(obj)
  PROVE  /\ NothingGoes \/ \E x \in ToSet(m_layers) : Goes(x)
         /\ m_layer_iterator_offset' \in 0 .. Modulus - 1
<1>1. StackFacts
  BY StackIs
<1>2. obj' = [k \in LayerIds |-> IF k \in ToSet(m_layers) \ ToSet(m_layers') THEN Free
                                 ELSE obj[k]]
  BY DEF Freed
<1>3. /\ obj = [k \in LayerIds |-> obj[k]] /\ ToSet(m_layers) \subseteq LayerIds
      /\ m_layer_iterator_offset \in 0 .. Modulus - 1 /\ Modulus \in Nat
      /\ m_layers \in Seq(LayerIds) /\ Len(m_layers) \in 0 .. 2
  BY <1>1, AppAssumption DEF TypeOK, Stack!TypeOK, StackFacts
<1>4. ASSUME UNCHANGED vectorVars \/ Stack!Fault
      PROVE  NothingGoes /\ m_layer_iterator_offset' \in 0 .. Modulus - 1
  <2>1. m_layers' = m_layers
    BY <1>4 DEF Stack!Fault, vectorVars
  <2>2. ToSet(m_layers) \ ToSet(m_layers') = {}
    BY <2>1
  <2>3. obj' = obj
    BY <1>2, <1>3, <2>2
  <2>4. QED
    BY <1>3, <1>4, <2>1, <2>3 DEF NothingGoes, Stack!Fault, vectorVars
<1>5. ASSUME NEW it \in 1 .. Len(m_layers), Stack!Erase(it)
      PROVE  /\ m_layers[it] \in ToSet(m_layers) /\ Goes(m_layers[it])
             /\ m_layer_iterator_offset' \in 0 .. Modulus - 1
  <2> DEFINE x == m_layers[it]
  <2>1. /\ m_layers' = RemoveAt(m_layers, it) /\ overlays' = overlays \ {x}
        /\ status' = status
        /\ m_layer_iterator_offset' = (m_layer_iterator_offset + Modulus - 1) % Modulus
    BY <1>5 DEF Stack!Erase, Stack!RemoveAt, RemoveAt
  <2>2. Len(m_layers) \in 1 .. 2
    BY <1>3, <1>5
  <2>3. Len(m_layers) = 2 => m_layers[1] # m_layers[2]
    BY DEF Shape
  <2>4. /\ m_layers' \in Seq(LayerIds) /\ Len(m_layers') = Len(m_layers) - 1
        /\ ToSet(m_layers') = ToSet(m_layers) \ {x}
    BY <1>3, <1>5, <2>1, <2>2, <2>3, RemoveFromTwo
  <2>5. x \in ToSet(m_layers)
    BY <1>1, <1>5 DEF StackFacts
  <2>6. (m_layer_iterator_offset + Modulus - 1) % Modulus \in 0 .. Modulus - 1
    BY <1>3
  <2> HIDE DEF x
  <2>7. ToSet(m_layers) \ ToSet(m_layers') = {x}
    BY <2>4, <2>5
  <2>8. obj' = [obj EXCEPT ![x] = Free]
    BY <1>2, <1>3, <2>7
  <2>9. QED
    BY <2>1, <2>4, <2>5, <2>6, <2>8 DEF Goes, x
<1>6. QED
  BY <1>4, <1>5, PopErasesOrNot

-----------------------------------------------------------------------------
(* What a battle makes of an event, field by field. *)

LEMMA NewLayers ==
  /\ {Free, Menu, Login} \subseteq Layers /\ Battles \subseteq Layers
  /\ Free.kind = "free" /\ Free.room = None
  /\ Menu.kind = "menu" /\ Menu.room = None
  /\ Login.kind = "login" /\ Login.room = None /\ Login.named = FALSE
  /\ \A b \in Battles :
       b.kind = "battle" /\ b.room = None
<1>1. 0 \in 0 .. MaxRequests
  BY AppAssumption
<1>2. Free \in Layers /\ Free.kind = "free" /\ Free.room = None /\ Free.named = FALSE
  BY <1>1 DEF Free, Layers
<1>3. Menu \in Layers /\ Menu.kind = "menu" /\ Menu.room = None
  BY <1>2 DEF Menu, Layers
<1>4. /\ Login \in Layers /\ Login.kind = "login" /\ Login.room = None
      /\ Login.named = FALSE
  BY <1>2 DEF Login, Layers
<1>5. ASSUME NEW b \in Battles
      PROVE  b \in Layers /\ b.kind = "battle" /\ b.room = None
  <2>1. PICK f \in BOOLEAN : b = [Free EXCEPT !.kind = "battle", !.force = f]
    BY DEF Battles
  <2>2. QED
    BY <1>2, <2>1 DEF Layers
<1>6. QED
  BY <1>2, <1>3, <1>4, <1>5

LEMMA LayerFields ==
  ASSUME NEW b \in Layers
  PROVE  /\ b.kind \in {"free", "menu", "login", "battle"} /\ b.room \in Rooms \cup {None}
         /\ b.named \in BOOLEAN /\ b.force \in BOOLEAN /\ b.timer \in BOOLEAN
         /\ b.over \in BOOLEAN /\ b.moves \in 0 .. MaxRequests
  BY DEF Layers

LEMMA ReactsToMessage ==
  ASSUME NEW b \in Layers, NEW m \in Messages
  PROVE  LET r == BattleReacts(b, Message(m))
         IN  /\ r \in Layers
             /\ r.kind = b.kind /\ r.named = b.named /\ r.timer = b.timer
             /\ r.room = IF NamesRoom(m) THEN NamedRoom(m) ELSE b.room
             /\ m.type = "request" /\ m.kind # "empty" =>
                  r.force = (m.kind = "switch") /\ r.moves = m.moves
             /\ m.type # "request" \/ m.kind = "empty" =>
                  r.force = b.force /\ r.moves = b.moves
<1> DEFINE e == Message(m)
           r == BattleReacts(b, e)
<1>1. e.type = "Message" /\ e.msg = m
  BY DEF Message
<1> HIDE DEF e
<1>2. CASE m.type = "request" /\ m.kind = "empty"
  <2>1. r = b /\ ~NamesRoom(m)
    BY <1>1, <1>2 DEF BattleReacts, ApplyRequest, NamesRoom
  <2>2. QED
    BY <1>2, <2>1 DEF r, e
<1>3. CASE m.type = "request" /\ m.kind # "empty"
  <2>1. r = ApplyRequest(b, m)
    BY <1>1, <1>3 DEF BattleReacts
  <2>2. m.moves \in 0 .. MaxRequests
    BY <1>3, MessageFields
  <2>3. ~NamesRoom(m)
    BY <1>3 DEF NamesRoom
  <2> DEFINE f == (m.kind = "switch")
  <2>4. f \in BOOLEAN
    OBVIOUS
  <2>5. r = [b EXCEPT !.force = f, !.moves = m.moves]
    BY <1>3, <2>1 DEF ApplyRequest
  <2> HIDE DEF r, f
  <2>6. /\ r \in Layers
        /\ r.kind = b.kind /\ r.named = b.named /\ r.timer = b.timer
        /\ r.room = b.room /\ r.force = f /\ r.moves = m.moves
    BY <2>2, <2>4, <2>5 DEF Layers
  <2>7. QED
    BY <1>3, <2>3, <2>6 DEF r, e, f
<1>4. CASE m.type # "request"
  <2>1. r = [b EXCEPT !.over = @ \/ m.type = "win",
                      !.room = IF NamesRoom(m) THEN NamedRoom(m) ELSE @]
    BY <1>1, <1>4 DEF BattleReacts
  <2>2. NamesRoom(m) => NamedRoom(m) \in Rooms
    BY RoomIsNamed
  <2> HIDE DEF r
  <2>3. QED
    BY <1>4, <2>1, <2>2 DEF Layers, r, e
<1>5. QED
  BY <1>2, <1>3, <1>4

LEMMA ReactsToCommand ==
  ASSUME NEW b \in Layers, NEW e, e.type = "Command"
  PROVE  LET r == BattleReacts(b, e)
         IN  /\ r \in Layers
             /\ r.kind = b.kind /\ r.named = b.named /\ r.room = b.room
             /\ r.force = b.force /\ r.moves = b.moves
<1>1. CASE e.cmd = "t"
  BY <1>1 DEF BattleReacts, Layers
<1>2. CASE e.cmd # "t"
  BY <1>2 DEF BattleReacts, Layers
<1>3. QED
  BY <1>1, <1>2

-----------------------------------------------------------------------------
(* Types. *)

LoopTypes ==
  /\ pc \in {"start", "net", "poll", "auth", "input", "render", "stop", "exit", "done",
             "stuck", "crashed", "hung"}
  /\ m_running \in BOOLEAN /\ m_dirty_ui \in BOOLEAN /\ connected \in BOOLEAN
  /\ shown \in [layer : LayerIds \cup {None},
                kind : {"none", "menu", "login", "battle"}, moves : 0 .. MaxRequests]
  /\ prompt \in Prompts /\ misled \in BOOLEAN
  /\ lines \in 0 .. MaxCommands

LayerTypes == Stack!TypeOK /\ obj \in [LayerIds -> Layers]

QueueTypes == m_event_queue \in Seq(Events) /\ Len(m_event_queue) <= EventCap

InboundTypes == m_inbound \in Seq(Messages) /\ Len(m_inbound) <= InboundCap

ClientTypes ==
  /\ m_chall_str \in Challenges \cup {None}
  /\ {m_username, m_password} \subseteq Client!Stored
  /\ m_logged_in \in BOOLEAN /\ spent \subseteq Challenges

LEMMA TypeParts ==
  TypeOK <=> LoopTypes /\ LayerTypes /\ QueueTypes /\ InboundTypes /\ ClientTypes
  BY DEF TypeOK, LoopTypes, LayerTypes, QueueTypes, InboundTypes, ClientTypes

LEMMA TypePartsAfter ==
  TypeOK' <=> LoopTypes' /\ LayerTypes' /\ QueueTypes' /\ InboundTypes' /\ ClientTypes'
  BY TypeParts, PTL

LEMMA SameLayerTypes == LayerTypes /\ UNCHANGED stackVars => LayerTypes'
  BY DEF LayerTypes, stackVars, vectorVars, Stack!TypeOK

LEMMA SameClientTypes ==
  ClientTypes /\ UNCHANGED <<m_chall_str, m_username, m_password, m_logged_in, spent>>
    => ClientTypes'
  BY DEF ClientTypes

LEMMA SameInboundTypes == InboundTypes /\ UNCHANGED m_inbound => InboundTypes'
  BY DEF InboundTypes

LEMMA SameQueueTypes == QueueTypes /\ UNCHANGED m_event_queue => QueueTypes'
  BY DEF QueueTypes

(* A queue, without its head, or with one more event *)
LEMMA HeadTail ==
  ASSUME NEW S, NEW q \in Seq(S), q # <<>>
  PROVE  /\ Head(q) \in S /\ Head(q) = q[1] /\ Tail(q) \in Seq(S)
         /\ Len(q) \in Nat \ {0} /\ Len(Tail(q)) = Len(q) - 1
         /\ \A i \in 1 .. Len(q) - 1 : Tail(q)[i] = q[i + 1] /\ i + 1 \in 1 .. Len(q)
  OBVIOUS

LEMMA Appended ==
  ASSUME NEW S, NEW q \in Seq(S), NEW e \in S
  PROVE  /\ Append(q, e) \in Seq(S) /\ Len(q) \in Nat /\ Len(Append(q, e)) = Len(q) + 1
         /\ \A i \in 1 .. Len(q) : Append(q, e)[i] = q[i] /\ i \in 1 .. Len(q) + 1
         /\ Append(q, e)[Len(q) + 1] = e
  OBVIOUS

LEMMA SubmittedTypes ==
  ASSUME NEW queue \in Seq(Events), Len(queue) <= EventCap, NEW e \in Events,
         Submitted(queue, e)
  PROVE  QueueTypes'
<1>1. EventCap \in Nat
  BY AppAssumption
<1>2. CASE Len(queue) < EventCap
  <2>1. m_event_queue' = Append(queue, e)
    BY <1>2 DEF Submitted
  <2>2. Append(queue, e) \in Seq(Events) /\ Len(Append(queue, e)) = Len(queue) + 1
        /\ Len(queue) \in Nat
    BY Appended
  <2>3. QED
    BY <1>1, <1>2, <2>1, <2>2 DEF QueueTypes
<1>3. CASE ~(Len(queue) < EventCap)
  BY <1>3 DEF Submitted, QueueTypes
<1>4. QED
  BY <1>2, <1>3

LEMMA TailTypes ==
  ASSUME QueueTypes, m_event_queue # <<>>
  PROVE  /\ Tail(m_event_queue) \in Seq(Events) /\ Len(Tail(m_event_queue)) < EventCap
         /\ Head(m_event_queue) \in Events /\ Len(Tail(m_event_queue)) \in Nat
<1>1. m_event_queue \in Seq(Events) /\ Len(m_event_queue) <= EventCap /\ EventCap \in Nat
  BY AppAssumption DEF QueueTypes
<1>2. /\ Head(m_event_queue) \in Events /\ Tail(m_event_queue) \in Seq(Events)
      /\ Len(m_event_queue) \in Nat \ {0}
      /\ Len(Tail(m_event_queue)) = Len(m_event_queue) - 1
  BY <1>1, HeadTail
<1>3. QED
  BY <1>1, <1>2

LEMMA EventsAre ==
  /\ LoginEvent \in Events /\ BattleSearch \in Events /\ BattleJoin \in Events
  /\ \A l \in LayerIds : LayerPush(l) \in Events
  /\ \A l \in LayerIds, o \in BOOLEAN : LayerPop(l, o) \in Events
<1>1. LoginEvent \in Events /\ BattleSearch \in Events /\ BattleJoin \in Events
  BY DEF LoginEvent, BattleSearch, BattleJoin, Events
<1>2. \A l \in LayerIds : LayerPush(l) \in Events
  BY DEF LayerPush, Events
<1>3. \A l \in LayerIds, o \in BOOLEAN : LayerPop(l, o) \in Events
  BY DEF LayerPop, Events
<1>4. QED
  BY <1>1, <1>2, <1>3

Types == TypeOK /\ SrvOK

(* Whatever leaves the queues, the layers and the client alone *)
Quiet ==
  UNCHANGED <<m_running, stackVars, m_event_queue, clientVars, srv, ghostVars>>

LEMMA QuietTypes ==
  ASSUME Types, Quiet, LoopTypes'
  PROVE  Types'
<1>1. UNCHANGED stackVars /\ UNCHANGED m_event_queue /\ UNCHANGED m_inbound /\ UNCHANGED srv
      /\ UNCHANGED <<m_chall_str, m_username, m_password, m_logged_in, spent>>
  BY DEF Quiet, clientVars
<1>2. SrvOK'
  BY <1>1 DEF Types, SrvOK
<1>3. QED
  BY <1>1, <1>2, TypeParts, TypePartsAfter, SameLayerTypes, SameQueueTypes,
     SameInboundTypes, SameClientTypes DEF Types

(* What a step on a message does to the layers and to the event queue *)
LEMMA MessageChanges ==
  ASSUME Types, Shape, ProcessMessage
  PROVE  LET m == Head(m_inbound)
         IN  /\ m \in Messages /\ m_inbound # <<>> /\ m_inbound' = Tail(m_inbound)
             /\ Client!Poll(m)
             /\ obj' = IF TopIs("battle")
                       THEN [obj EXCEPT ![Top] = BattleReacts(obj[Top], Message(m))] ELSE obj
             /\ posted' = IF TopIs("battle") THEN BattleSends(obj[Top], Message(m)) ELSE Silence
             /\ IF TopIs("battle") /\ m.type = "win"
                THEN Submitted(m_event_queue, LayerPop(Top, FALSE))
                ELSE IF TopIs("battle") /\ m.type = "request"
                THEN Submitted(m_event_queue, BattleJoin)
                ELSE UNCHANGED <<m_event_queue, lost>>
             /\ TopIs("battle") => LayerPop(Top, FALSE) \in Events
<1> DEFINE m == Head(m_inbound)
<1>1. StackFacts
  BY StackIs DEF Types
<1>2. m_inbound \in Seq(Messages) /\ m_inbound # <<>>
  BY DEF Types, TypeOK, ProcessMessage
<1>3. m \in Messages /\ m_inbound' = Tail(m_inbound)
  BY <1>2, HeadTail DEF ProcessMessage, Client!Poll
<1>4. PushToLayers(m_event_queue, Message(m)) /\ Client!Poll(m)
  BY DEF ProcessMessage
<1> HIDE DEF m
<1>5. /\ obj' = IF TopIs("battle")
                THEN [obj EXCEPT ![Top] = BattleReacts(obj[Top], Message(m))] ELSE obj
      /\ posted' = IF TopIs("battle") THEN BattleSends(obj[Top], Message(m)) ELSE Silence
  BY <1>1, <1>4, PushChanges DEF Types
<1>6. m_event_queue \in Seq(Events) /\ Len(m_event_queue) <= EventCap
  BY DEF Types, TypeOK
<1>7. Submit(m_event_queue, Submissions(Message(m)))
  BY <1>4 DEF PushToLayers
<1>8. Submissions(Message(m)) =
         IF ~TopIs("battle") THEN <<>>
         ELSE IF m.type = "win" THEN <<LayerPop(Top, FALSE)>>
         ELSE IF m.type = "request" THEN <<BattleJoin>>
         ELSE <<>>
  BY <1>1, <1>3, MessageSubmits DEF Types
<1>9. TopIs("battle") => LayerPop(Top, FALSE) \in Events
  BY <1>1, EventsAre DEF TopIs, StackFacts
<1>10. CASE ~TopIs("battle") \/ m.type \notin {"win", "request"}
  <2>1. UNCHANGED <<m_event_queue, lost>>
    BY <1>6, <1>7, <1>8, <1>10, SubmitNone
  <2>2. QED
    BY <1>2, <1>3, <1>4, <1>5, <1>9, <1>10, <2>1 DEF m
<1>11. CASE TopIs("battle") /\ m.type = "win"
  <2>1. Submissions(Message(m)) = <<LayerPop(Top, FALSE)>>
    BY <1>8, <1>11, Zenon
  <2> DEFINE e == LayerPop(Top, FALSE)
  <2>2. Submit(m_event_queue, <<e>>)
    BY <1>7, <2>1
  <2> HIDE DEF e
  <2>3. Submitted(m_event_queue, e)
    BY <1>6, <2>2, SubmitOne
  <2>4. QED
    BY <1>2, <1>3, <1>4, <1>5, <1>9, <1>11, <2>3 DEF m, e
<1>12. CASE TopIs("battle") /\ m.type = "request"
  <2>1. Submit(m_event_queue, <<BattleJoin>>)
    BY <1>7, <1>8, <1>12
  <2>2. Submitted(m_event_queue, BattleJoin)
    BY <1>6, <2>1, SubmitOne
  <2>3. m.type # "win"
    BY <1>12
  <2>4. QED
    BY <1>2, <1>3, <1>4, <1>5, <1>9, <1>12, <2>2, <2>3 DEF m
<1>13. QED
  BY <1>10, <1>11, <1>12

(* ... and what a command does to them, that no login overlay takes *)
LEMMA CommandChanges ==
  ASSUME Types, Shape, PollCommand
  PROVE  LET e == Head(m_event_queue)
             rest == Tail(m_event_queue)
         IN  /\ m_event_queue # <<>> /\ e \in Events /\ e.type = "Command"
             /\ obj' = IF TopIs("battle")
                       THEN [obj EXCEPT ![Top] = BattleReacts(obj[Top], e)] ELSE obj
             /\ posted' = IF TopIs("battle") THEN BattleSends(obj[Top], e) ELSE Silence
             /\ IF TopIs("menu") /\ e.cmd = "1" THEN Submitted(rest, BattleSearch)
                ELSE IF TopIs("menu") /\ e.cmd \in {"2", "3"} THEN Submitted(rest, LoginEvent)
                ELSE IF TopIs("menu") /\ e.cmd = "q" THEN Submitted(rest, LayerPop(Top, FALSE))
                ELSE m_event_queue' = rest /\ lost' = lost
             /\ m_running' = (e.cmd # "q")
             /\ TopIs("menu") => LayerPop(Top, FALSE) \in Events
<1> DEFINE e == Head(m_event_queue)
           rest == Tail(m_event_queue)
<1>1. StackFacts
  BY StackIs DEF Types
<1>2. m_event_queue # <<>> /\ e.type = "Command" /\ m_running' = (e.cmd # "q")
  BY DEF PollCommand, Polling, HeedQuit
<1>3. QueueTypes
  BY TypeParts DEF Types
<1>4. e \in Events /\ rest \in Seq(Events) /\ Len(rest) <= EventCap
  <2>1. e \in Events /\ rest \in Seq(Events) /\ Len(rest) < EventCap /\ Len(rest) \in Nat
    BY <1>2, <1>3, TailTypes
  <2>2. EventCap \in Nat
    BY AppAssumption
  <2> HIDE DEF rest
  <2>3. QED
    BY <2>1, <2>2
<1>5. PushToLayers(rest, e)
  BY DEF PollCommand
<1> HIDE DEF e, rest
<1>6. /\ obj' = IF TopIs("battle")
                THEN [obj EXCEPT ![Top] = BattleReacts(obj[Top], e)] ELSE obj
      /\ posted' = IF TopIs("battle") THEN BattleSends(obj[Top], e) ELSE Silence
  BY <1>1, <1>5, PushChanges DEF Types
<1>7. Submit(rest, Submissions(e))
  BY <1>5 DEF PushToLayers
<1>8. Submissions(e) = IF TopIs("menu") THEN MenuSubmits(Top, e) ELSE <<>>
  BY <1>1, <1>2, CommandSubmits DEF Types
<1>9. TopIs("menu") => LayerPop(Top, FALSE) \in Events
  BY <1>1, EventsAre DEF TopIs, StackFacts
<1>10. IF TopIs("menu") /\ e.cmd = "1" THEN Submitted(rest, BattleSearch)
       ELSE IF TopIs("menu") /\ e.cmd \in {"2", "3"} THEN Submitted(rest, LoginEvent)
       ELSE IF TopIs("menu") /\ e.cmd = "q" THEN Submitted(rest, LayerPop(Top, FALSE))
       ELSE m_event_queue' = rest /\ lost' = lost
  <2>1. CASE ~TopIs("menu") \/ e.cmd \notin {"1", "2", "3", "q"}
    <3>1. Submissions(e) = <<>>
      BY <1>2, <1>8, <2>1 DEF MenuSubmits
    <3>2. QED
      BY <1>4, <1>7, <2>1, <3>1, SubmitNone
  <2>2. CASE TopIs("menu") /\ e.cmd = "1"
    <3>1. Submissions(e) = <<BattleSearch>>
      BY <1>2, <1>8, <2>2 DEF MenuSubmits
    <3>2. QED
      BY <1>4, <1>7, <2>2, <3>1, SubmitOne
  <2>3. CASE TopIs("menu") /\ e.cmd \in {"2", "3"}
    <3>1. Submissions(e) = <<LoginEvent>> /\ e.cmd # "1"
      BY <1>2, <1>8, <2>3 DEF MenuSubmits
    <3>2. QED
      BY <1>4, <1>7, <2>3, <3>1, SubmitOne
  <2>4. CASE TopIs("menu") /\ e.cmd = "q"
    <3> DEFINE p == LayerPop(Top, FALSE)
    <3>1. Submissions(e) = <<p>>
      BY <1>2, <1>8, <2>4 DEF MenuSubmits
    <3> HIDE DEF p
    <3>2. Submitted(rest, p)
      BY <1>4, <1>7, <3>1, SubmitOne
    <3>3. QED
      BY <2>4, <3>2 DEF p
  <2>5. QED
    BY <2>1, <2>2, <2>3, <2>4
<1>11. QED
  BY <1>2, <1>4, <1>6, <1>9, <1>10 DEF e, rest

LEMMA MessageTypes ==
  ASSUME Types, Shape, ProcessMessage
  PROVE  Types'
<1> DEFINE m == Head(m_inbound)
           r == BattleReacts(obj[Top], Message(m))
<1>1. StackFacts
  BY StackIs DEF Types
<1>2. /\ m \in Messages /\ m_inbound # <<>> /\ m_inbound' = Tail(m_inbound)
      /\ Client!Poll(m)
      /\ obj' = IF TopIs("battle") THEN [obj EXCEPT ![Top] = r] ELSE obj
      /\ IF TopIs("battle") /\ m.type = "win"
         THEN Submitted(m_event_queue, LayerPop(Top, FALSE))
         ELSE IF TopIs("battle") /\ m.type = "request"
         THEN Submitted(m_event_queue, BattleJoin)
         ELSE UNCHANGED <<m_event_queue, lost>>
      /\ TopIs("battle") => LayerPop(Top, FALSE) \in Events
  BY MessageChanges
<1>3. m_inbound \in Seq(Messages) /\ Len(m_inbound) <= InboundCap
  BY DEF Types, TypeOK
<1>4. /\ Tail(m_inbound) \in Seq(Messages)
      /\ Len(m_inbound) \in Nat /\ Len(Tail(m_inbound)) = Len(m_inbound) - 1
  BY <1>2, <1>3, HeadTail
<1>5. /\ UNCHANGED <<pc, m_running, m_dirty_ui, connected, srv, shown, lines>>
      /\ UNCHANGED vectorVars
      /\ prompt' = IF BattleOnTop /\ m.type = "request" /\ m.kind # "empty"
                   THEN [kind |-> m.kind, moves |-> m.moves] ELSE prompt
      /\ misled' = (misled \/ (BattleOnTop /\ m.type = "win" /\ OwnPending))
  BY DEF ProcessMessage
<1> HIDE DEF m, r
<1>6. LoopTypes'
  <2>1. LoopTypes
    BY TypeParts DEF Types
  <2>2. m.type = "request" /\ m.kind # "empty" => [kind |-> m.kind, moves |-> m.moves] \in Prompts
    BY <1>2, MessageFields DEF Requests, Prompts
  <2>3. prompt' \in Prompts
    BY <1>5, <2>1, <2>2 DEF LoopTypes
  <2>4. misled' \in BOOLEAN
    BY <1>5, <2>1 DEF LoopTypes
  <2>5. QED
    BY <1>5, <2>1, <2>3, <2>4 DEF LoopTypes
<1>7. LayerTypes'
  <2>1. obj \in [LayerIds -> Layers] /\ Stack!TypeOK
    BY DEF Types, TypeOK
  <2>2. obj' \in [LayerIds -> Layers]
    <3>1. TopIs("battle") => Top \in LayerIds /\ r \in Layers
      BY <1>1, <1>2, <2>1, ReactsToMessage DEF TopIs, StackFacts, r
    <3>2. QED
      BY <1>2, <2>1, <3>1
  <2>3. Stack!TypeOK'
    BY <1>5, <2>1 DEF vectorVars, Stack!TypeOK
  <2>4. QED
    BY <2>2, <2>3 DEF LayerTypes
<1>8. InboundTypes'
  <2>1. InboundCap \in Nat
    BY AppAssumption
  <2>2. QED
    BY <1>2, <1>3, <1>4, <2>1 DEF InboundTypes
<1>9. ClientTypes'
  <2>1. /\ m.type = "challstr" => m.chall \in Challenges
        /\ m.type = "updateuser" => m.named \in BOOLEAN
    BY <1>2, MessageFields
  <2>2. /\ m_chall_str \in Challenges \cup {None}
        /\ {m_username, m_password} \subseteq Client!Stored
        /\ m_logged_in \in BOOLEAN /\ spent \subseteq Challenges
    BY DEF Types, TypeOK
  <2>3. m_chall_str' \in Challenges \cup {None}
    BY <1>2, <2>1, <2>2 DEF Client!Poll, Client!OnChallStr, Client!OnUpdateUser
  <2>4. m_logged_in' \in BOOLEAN
    BY <1>2, <2>1, <2>2 DEF Client!Poll, Client!OnChallStr, Client!OnUpdateUser
  <2>5. UNCHANGED <<m_username, m_password, spent>>
    BY <1>2 DEF Client!Poll
  <2>6. QED
    BY <2>2, <2>3, <2>4, <2>5 DEF ClientTypes
<1>10. QueueTypes'
  <2>1. m_event_queue \in Seq(Events) /\ Len(m_event_queue) <= EventCap
    BY DEF Types, TypeOK
  <2>2. CASE UNCHANGED <<m_event_queue, lost>>
    BY <2>1, <2>2 DEF QueueTypes
  <2>3. CASE TopIs("battle") /\ Submitted(m_event_queue, LayerPop(Top, FALSE))
    BY <1>2, <2>1, <2>3, SubmittedTypes
  <2>4. CASE Submitted(m_event_queue, BattleJoin)
    BY <2>1, <2>4, EventsAre, SubmittedTypes
  <2>5. QED
    BY <1>2, <2>2, <2>3, <2>4
<1>11. SrvOK'
  BY <1>5 DEF Types, SrvOK
<1>12. QED
  BY <1>6, <1>7, <1>8, <1>9, <1>10, <1>11, TypePartsAfter DEF Types

LEMMA CommandTypes ==
  ASSUME Types, Shape, PollCommand
  PROVE  Types'
<1> DEFINE e == Head(m_event_queue)
           rest == Tail(m_event_queue)
           r == BattleReacts(obj[Top], e)
<1>1. StackFacts
  BY StackIs DEF Types
<1>2. /\ m_event_queue # <<>> /\ e.type = "Command"
      /\ obj' = IF TopIs("battle") THEN [obj EXCEPT ![Top] = r] ELSE obj
      /\ IF TopIs("menu") /\ e.cmd = "1" THEN Submitted(rest, BattleSearch)
         ELSE IF TopIs("menu") /\ e.cmd \in {"2", "3"} THEN Submitted(rest, LoginEvent)
         ELSE IF TopIs("menu") /\ e.cmd = "q" THEN Submitted(rest, LayerPop(Top, FALSE))
         ELSE m_event_queue' = rest /\ lost' = lost
      /\ m_running' = (e.cmd # "q")
      /\ TopIs("menu") => LayerPop(Top, FALSE) \in Events
  BY CommandChanges
<1>3. rest \in Seq(Events) /\ Len(rest) <= EventCap
  <2>1. rest \in Seq(Events) /\ Len(rest) < EventCap /\ Len(rest) \in Nat
    BY <1>2, TypeParts, TailTypes DEF Types
  <2>2. EventCap \in Nat
    BY AppAssumption
  <2> HIDE DEF rest
  <2>3. QED
    BY <2>1, <2>2
<1>4. /\ UNCHANGED <<pc, m_dirty_ui, connected, srv, shown, prompt, misled, lines>>
      /\ UNCHANGED vectorVars /\ UNCHANGED clientVars
  BY DEF PollCommand, historyRest
<1> HIDE DEF e, r, rest
<1>5. LoopTypes'
  <2>1. m_running' \in BOOLEAN
    BY <1>2
  <2>2. QED
    BY <1>4, <2>1, TypeParts DEF Types, LoopTypes
<1>6. LayerTypes'
  <2>1. obj \in [LayerIds -> Layers] /\ Stack!TypeOK
    BY DEF Types, TypeOK
  <2>2. obj' \in [LayerIds -> Layers]
    <3>1. TopIs("battle") => Top \in LayerIds /\ r \in Layers
      BY <1>1, <1>2, <2>1, ReactsToCommand DEF TopIs, StackFacts, r
    <3>2. QED
      BY <1>2, <2>1, <3>1
  <2>3. Stack!TypeOK'
    BY <1>4, <2>1 DEF vectorVars, Stack!TypeOK
  <2>4. QED
    BY <2>2, <2>3 DEF LayerTypes
<1>7. InboundTypes' /\ ClientTypes'
  BY <1>4, TypeParts, SameInboundTypes, SameClientTypes DEF Types, clientVars
<1>8. QueueTypes'
  <2>1. CASE m_event_queue' = rest
    BY <1>3, <2>1 DEF QueueTypes
  <2>2. CASE Submitted(rest, BattleSearch) \/ Submitted(rest, LoginEvent)
    BY <1>3, <2>2, EventsAre, SubmittedTypes
  <2>3. CASE TopIs("menu") /\ Submitted(rest, LayerPop(Top, FALSE))
    BY <1>2, <1>3, <2>3, SubmittedTypes
  <2>4. QED
    BY <1>2, <2>1, <2>2, <2>3
<1>9. SrvOK'
  BY <1>4 DEF Types, SrvOK
<1>10. QED
  BY <1>5, <1>6, <1>7, <1>8, <1>9, TypePartsAfter DEF Types

LEMMA AppendToOne ==
  ASSUME NEW S, NEW x \in S, NEW y \in S
  PROVE  Append(<<x>>, y) = <<x, y>>
<1> DEFINE one == <<x>>
           both == <<x, y>>
<1>1. Len(one) = 1 /\ one[1] = x
  OBVIOUS
<1>0. one \in Seq(S)
  OBVIOUS
<1>2. both \in Seq(S) /\ Len(both) = 2 /\ both[1] = x /\ both[2] = y
  OBVIOUS
<1> HIDE DEF one, both
<1> DEFINE appended == Append(one, y)
<1>3. /\ appended \in Seq(S) /\ Len(appended) = Len(one) + 1
      /\ \A i \in 1 .. Len(one) : appended[i] = one[i] /\ i \in 1 .. Len(one) + 1
      /\ appended[Len(one) + 1] = y
  BY <1>0, Appended
<1> HIDE DEF appended
<1>4. /\ Len(appended) = 2
      /\ \A i \in 1 .. 2 : appended[i] = both[i]
  BY <1>1, <1>2, <1>3
<1>5. /\ appended \in Seq(S) /\ Len(appended) = Len(both)
      /\ \A i \in 1 .. Len(appended) : appended[i] = both[i]
  BY <1>2, <1>3, <1>4
<1>6. appended = both
  BY <1>2, <1>5, SeqEqual
<1>7. QED
  BY <1>6 DEF one, both, appended

(* The event at the head of the queue, when it is the only one *)
LEMMA OnlyEvent ==
  ASSUME QueueTypes, Len(m_event_queue) = 1, m_event_queue' = Tail(m_event_queue)
  PROVE  m_event_queue' = <<>>
<1>1. m_event_queue \in Seq(Events)
  BY DEF QueueTypes
<1>2. m_event_queue # <<>>
  BY <1>1
<1>3. Tail(m_event_queue) \in Seq(Events) /\ Len(Tail(m_event_queue)) = 0
  BY <1>1, <1>2, HeadTail
<1>4. QED
  BY <1>3

LEMMA HeadIsQueued ==
  ASSUME QueueTypes, m_event_queue # <<>>
  PROVE  /\ 1 \in 1 .. Len(m_event_queue) /\ Head(m_event_queue) = m_event_queue[1]
         /\ 1 \in Queued(Head(m_event_queue).type)
<1>1. m_event_queue \in Seq(Events)
  BY DEF QueueTypes
<1>2. Len(m_event_queue) \in Nat \ {0} /\ Head(m_event_queue) = m_event_queue[1]
  BY <1>1, HeadTail
<1>3. QED
  BY <1>2 DEF Queued

(* The menu gets on the stack. *)
LEMMA LayerPushChanges ==
  ASSUME Types, Shape, QueueShape, PollLayerPush
  PROVE  \E l \in LayerIds :
           /\ obj[l] = Menu /\ m_event_queue' = <<>>
           /\ m_layers = <<>> /\ m_layers' = <<l>> /\ overlays' = {} /\ status' = status
           /\ m_layer_iterator_offset' = 1 /\ 1 \in 0 .. Modulus - 1
<1> DEFINE e == Head(m_event_queue)
           l == e.layer
<1>1. StackFacts /\ QueueTypes
  BY StackIs, TypeParts DEF Types
<1>2. /\ m_running /\ m_event_queue # <<>> /\ e.type = "LayerPush" /\ Stack!PushLayer(l)
      /\ m_event_queue' = Tail(m_event_queue)
  BY DEF PollLayerPush, Polling
<1>3. e \in Events
  BY <1>1, <1>2, TailTypes
<1> HIDE DEF e
<1>4. l \in LayerIds
  BY <1>2, <1>3, EventFields
<1>5. /\ Len(m_event_queue) = 1 /\ m_layers = <<>> /\ m_layer_iterator_offset = 0
      /\ obj[l] = Menu
  <2>1. 1 \in 1 .. Len(m_event_queue) /\ m_event_queue[1] = e
    BY <1>1, <1>2, HeadIsQueued DEF e
  <2>2. EventFits(e, 1, Len(m_event_queue))
    BY <1>2, <2>1 DEF QueueShape
  <2>3. QED
    BY <1>2, <2>2 DEF EventFits
<1>6. m_event_queue' = <<>>
  BY <1>1, <1>2, <1>5, OnlyEvent
<1>7. Stack!OffsetInVector /\ Len(m_layers) = 0
  BY <1>1, <1>5 DEF Stack!OffsetInVector, StackFacts
<1>8. /\ m_layers' = Stack!InsertAt(m_layers, 1, l) /\ overlays' = overlays \ {l}
      /\ status' = status /\ m_layer_iterator_offset' = 1 % Modulus
  BY <1>2, <1>5, <1>7 DEF Stack!PushLayer
<1>9. m_layers' = <<l>>
  <2>1. Stack!InsertAt(<<>>, 1, l) = (SubSeq(<<>>, 1, 1 - 1) \o <<l>>) \o SubSeq(<<>>, 1, Len(<<>>))
    BY DEF Stack!InsertAt
  <2>2. Len(<<>>) = 0 /\ 1 - 1 = 0 /\ SubSeq(<<>>, 1, 0) = <<>>
    OBVIOUS
  <2>3. Stack!InsertAt(<<>>, 1, l) = (<<>> \o <<l>>) \o <<>>
    BY <2>1, <2>2, Zenon
  <2>4. (<<>> \o <<l>>) \o <<>> = <<l>>
    BY <1>4
  <2>5. QED
    BY <1>5, <1>8, <2>3, <2>4, Zenon
<1>10. overlays' = {}
  BY <1>1, <1>5, <1>8 DEF Shape, StackFacts
<1>11. m_layer_iterator_offset' = 1 /\ 1 \in 0 .. Modulus - 1
  <2>1. Modulus \in Nat /\ Modulus > 1
    <3>1. IsFiniteSet(LayerIds) /\ MaxCommands \in Nat /\ Modulus \in Nat
          /\ Modulus > Cardinality(LayerIds) + MaxCommands
      BY AppAssumption
    <3>2. Cardinality(LayerIds) \in Nat /\ Cardinality(LayerIds) # 0
      BY <1>4, <3>1, FS_CardinalityType, FS_EmptySet
    <3>3. QED
      BY <3>1, <3>2
  <2>2. 1 % Modulus = 1
    BY <2>1
  <2>3. QED
    BY <1>8, <2>1, <2>2
<1>12. QED
  BY <1>4, <1>5, <1>6, <1>8, <1>9, <1>10, <1>11

(* An overlay gets on the menu, and nothing else is in the queue. *)
Opens(l, b) ==
  /\ obj[l] = Free /\ obj' = [obj EXCEPT ![l] = b] /\ m_event_queue' = <<>>
  /\ \E x \in LayerIds \ {l} :
       /\ m_layers = <<x>> /\ m_layers' = <<x, l>> /\ obj[x].kind = "menu"
  /\ overlays' = {l}
  /\ UNCHANGED <<status, m_layer_iterator_offset>>

LEMMA OverlayChanges ==
  ASSUME Types, Shape, QueueShape, Polling("Login") \/ Polling("BattleSearch"),
         NEW l \in LayerIds, NEW b, obj[l] = Free, obj' = [obj EXCEPT ![l] = b],
         Stack!PushOverlay(l), m_event_queue' = Tail(m_event_queue)
  PROVE  Opens(l, b)
<1>1. StackFacts /\ QueueTypes
  BY StackIs, TypeParts DEF Types
<1>2. Len(m_event_queue) = 1 /\ TopIs("menu")
  <2>1. /\ m_running /\ m_event_queue # <<>>
        /\ Head(m_event_queue).type \in {"Login", "BattleSearch"}
    BY DEF Polling
  <2>2. 1 \in 1 .. Len(m_event_queue) /\ Head(m_event_queue) = m_event_queue[1]
    BY <1>1, <2>1, HeadIsQueued
  <2>3. EventFits(Head(m_event_queue), 1, Len(m_event_queue))
    BY <2>1, <2>2 DEF QueueShape
  <2>4. QED
    BY <2>1, <2>3 DEF EventFits
<1>3. m_event_queue' = <<>>
  BY <1>1, <1>2, OnlyEvent
<1>4. Len(m_layers) = 1 /\ overlays = {} /\ Top = m_layers[1] /\ Top \in LayerIds
      /\ m_layers \in Seq(LayerIds) /\ obj[Top].kind = "menu"
  BY <1>1, <1>2 DEF StackFacts, TopIs
<1>5. m_layers = <<Top>>
  BY <1>4
<1>6. Top # l
  BY <1>4, NewLayers
<1>7. /\ m_layers' = Append(m_layers, l) /\ overlays' = overlays \cup {l}
      /\ UNCHANGED <<status, m_layer_iterator_offset>>
  BY DEF Stack!PushOverlay
<1> HIDE DEF Top
<1>8. m_layers' = <<Top, l>>
  <2> DEFINE s == <<Top>>
  <2>1. Append(s, l) = <<Top, l>>
    BY <1>4, AppendToOne
  <2>2. m_layers = s
    BY <1>5
  <2> HIDE DEF s
  <2>3. QED
    BY <1>7, <2>1, <2>2
<1>9. QED
  BY <1>3, <1>4, <1>5, <1>6, <1>7, <1>8 DEF Opens

LEMMA LoginIsTop ==
  ASSUME StackFacts, NEW e, NEW l \in LoginsReached(e)
  PROVE  l = Top /\ l \in LayerIds /\ TopIs("login")
<1>1. l \in Reached(e) /\ obj[l].kind = "login"
  BY DEF LoginsReached
<1>2. l = Top /\ l \in LayerIds /\ m_layers # <<>>
  BY <1>1, ReachedAre
<1>3. QED
  BY <1>1, <1>2 DEF TopIs

LEMMA LayerPushTypes ==
  ASSUME Types, Shape, QueueShape, PollLayerPush
  PROVE  Types'
<1>1. PICK l \in LayerIds :
           /\ obj[l] = Menu /\ m_event_queue' = <<>>
           /\ m_layers = <<>> /\ m_layers' = <<l>> /\ overlays' = {} /\ status' = status
           /\ m_layer_iterator_offset' \in 0 .. Modulus - 1
  BY LayerPushChanges
<1>2. /\ UNCHANGED <<pc, m_running, obj, connected, srv, shown, prompt, misled, lines>> /\ m_dirty_ui' = TRUE
      /\ UNCHANGED clientVars
  BY DEF PollLayerPush, pollRest, historyRest
<1>3. LoopTypes'
  BY <1>2, TypeParts DEF Types, LoopTypes
<1>4. LayerTypes'
  BY <1>1, <1>2 DEF Types, TypeOK, LayerTypes, Stack!TypeOK
<1>5. QueueTypes'
  <2>1. <<>> \in Seq(Events) /\ Len(<<>>) <= EventCap
    BY AppAssumption
  <2>2. QED
    BY <1>1, <2>1 DEF QueueTypes
<1>6. InboundTypes' /\ ClientTypes'
  BY <1>2, TypeParts, SameInboundTypes, SameClientTypes DEF Types, clientVars
<1>7. SrvOK'
  BY <1>2 DEF Types, SrvOK
<1>8. QED
  BY <1>3, <1>4, <1>5, <1>6, <1>7, TypePartsAfter DEF Types

(* The pop at the head of the queue *)
LEMMA LayerPopChanges ==
  ASSUME Types, Shape, PollLayerPop
  PROVE  /\ NothingGoes \/ \E x \in ToSet(m_layers) : Goes(x)
         /\ m_layer_iterator_offset' \in 0 .. Modulus - 1
<1> DEFINE e == Head(m_event_queue)
<1>1. /\ m_event_queue # <<>> /\ e.type = "LayerPop"
      /\ IF e.overlay THEN Stack!PopOverlay(e.layer) ELSE Stack!PopLayer(e.layer)
      /\ obj' = Freed(obj)
  BY DEF PollLayerPop, Polling
<1>2. QueueTypes
  BY TypeParts DEF Types
<1>3. e \in Events
  BY <1>1, <1>2, TailTypes
<1> HIDE DEF e
<1>4. e.layer \in LayerIds
  BY <1>1, <1>3, EventFields
<1>5. Stack!PopLayer(e.layer) \/ Stack!PopOverlay(e.layer)
  BY <1>1
<1>6. TypeOK
  BY DEF Types
<1>7. QED
  BY <1>1, <1>4, <1>5, <1>6, PopChanges

LEMMA LayerPopTypes ==
  ASSUME Types, Shape, PollLayerPop
  PROVE  Types'
<1>1. /\ NothingGoes \/ \E x \in ToSet(m_layers) : Goes(x)
      /\ m_layer_iterator_offset' \in 0 .. Modulus - 1
  BY LayerPopChanges
<1>2. /\ UNCHANGED <<m_running, connected, srv, shown, prompt, misled, lines>> /\ m_dirty_ui' = TRUE
      /\ UNCHANGED clientVars /\ pc' \in {pc, "crashed"}
      /\ m_event_queue # <<>> /\ m_event_queue' = Tail(m_event_queue)
  BY DEF PollLayerPop, Polling, pollRest, historyRest
<1>3. LoopTypes'
  BY <1>2, TypeParts DEF Types, LoopTypes
<1>4. LayerTypes'
  <2>1. obj \in [LayerIds -> Layers] /\ m_layers \in Seq(LayerIds) /\ overlays \subseteq LayerIds
        /\ status \in {"live", "fault", "destroyed"}
    BY DEF Types, TypeOK, Stack!TypeOK
  <2>2. CASE NothingGoes
    BY <1>1, <2>1, <2>2 DEF NothingGoes, LayerTypes, Stack!TypeOK
  <2>3. ASSUME NEW x \in ToSet(m_layers), Goes(x)
        PROVE  LayerTypes'
    BY <1>1, <2>1, <2>3, NewLayers DEF Goes, LayerTypes, Stack!TypeOK
  <2>4. QED
    BY <1>1, <2>2, <2>3
<1>5. QueueTypes'
  <2>1. EventCap \in Nat
    BY AppAssumption
  <2>2. QED
    BY <1>2, <2>1, TypeParts, TailTypes DEF Types, QueueTypes
<1>6. InboundTypes' /\ ClientTypes'
  BY <1>2, TypeParts, SameInboundTypes, SameClientTypes DEF Types, clientVars
<1>7. SrvOK'
  BY <1>2 DEF Types, SrvOK
<1>8. QED
  BY <1>3, <1>4, <1>5, <1>6, <1>7, TypePartsAfter DEF Types

LEMMA OverlayTypes ==
  ASSUME Types, NEW l \in LayerIds, NEW b \in Layers, Opens(l, b),
         UNCHANGED <<pc, m_running, connected, shown, lines>>, m_dirty_ui' = TRUE,
         prompt' \in Prompts, misled' \in BOOLEAN, UNCHANGED clientVars, SrvOK'
  PROVE  Types'
<1>1. LoopTypes'
  BY TypeParts DEF Types, LoopTypes
<1>2. LayerTypes'
  <2>1. /\ obj \in [LayerIds -> Layers] /\ status \in {"live", "fault", "destroyed"}
        /\ m_layer_iterator_offset \in 0 .. Modulus - 1
    BY DEF Types, TypeOK, Stack!TypeOK
  <2>2. PICK x \in LayerIds : m_layers' = <<x, l>>
    BY DEF Opens
  <2>3. m_layers' \in Seq(LayerIds)
    BY <2>2
  <2>4. /\ obj' \in [LayerIds -> Layers] /\ overlays' \subseteq LayerIds
        /\ UNCHANGED <<status, m_layer_iterator_offset>>
    BY <2>1 DEF Opens
  <2>5. QED
    BY <2>1, <2>3, <2>4 DEF LayerTypes, Stack!TypeOK
<1>3. QueueTypes'
  <2>1. <<>> \in Seq(Events) /\ Len(<<>>) <= EventCap
    BY AppAssumption
  <2>2. QED
    BY <2>1 DEF QueueTypes, Opens
<1>4. InboundTypes' /\ ClientTypes'
  BY TypeParts, SameInboundTypes, SameClientTypes DEF Types, clientVars
<1>5. QED
  BY <1>1, <1>2, <1>3, <1>4, TypePartsAfter DEF Types

LEMMA PollLoginChanges ==
  ASSUME Types, Shape, QueueShape, PollLogin
  PROVE  \E l \in LayerIds : Opens(l, Login)
<1>1. PICK l \in LayerIds :
        obj[l] = Free /\ obj' = [obj EXCEPT ![l] = Login] /\ Stack!PushOverlay(l)
  BY DEF PollLogin
<1>2. Polling("Login") /\ m_event_queue' = Tail(m_event_queue)
  BY DEF PollLogin
<1>3. QED
  BY <1>1, <1>2, OverlayChanges

LEMMA SearchChanges ==
  ASSUME Types, Shape, QueueShape, PollBattleSearch
  PROVE  \E l \in LayerIds, b \in Battles : Opens(l, b)
<1>1. PICK l \in LayerIds, b \in Battles :
        obj[l] = Free /\ obj' = [obj EXCEPT ![l] = b] /\ Stack!PushOverlay(l)
  BY DEF PollBattleSearch
<1>2. Polling("BattleSearch") /\ m_event_queue' = Tail(m_event_queue)
  BY DEF PollBattleSearch
<1>3. Opens(l, b)
  BY <1>1, <1>2, OverlayChanges
<1>4. QED
  BY <1>3

LEMMA OpeningTypes ==
  ASSUME Types, Shape, QueueShape, PollLogin \/ PollBattleSearch
  PROVE  Types'
<1>1. CASE PollLogin
  <2>1. PICK l \in LayerIds : Opens(l, Login)
    BY <1>1, PollLoginChanges
  <2>2. /\ UNCHANGED <<pc, m_running, connected, srv, shown, prompt, misled, lines>> /\ m_dirty_ui' = TRUE
        /\ UNCHANGED clientVars
    BY <1>1 DEF PollLogin, pollRest, historyRest
  <2>3. SrvOK'
    BY <2>2 DEF Types, SrvOK
  <2>4. prompt' \in Prompts /\ misled' \in BOOLEAN
    BY <2>2 DEF Types, TypeOK
  <2>5. QED
    BY <2>1, <2>2, <2>3, <2>4, NewLayers, OverlayTypes
<1>2. CASE PollBattleSearch
  <2>1. PICK l \in LayerIds, b \in Battles : Opens(l, b)
    BY <1>2, SearchChanges
  <2>2. /\ UNCHANGED <<pc, m_running, connected, shown, lines>> /\ m_dirty_ui' = TRUE
        /\ UNCHANGED clientVars
        /\ srv' = [srv EXCEPT !.search = TRUE]
        /\ prompt' = NoPrompt /\ misled' = (misled /\ OwnPending)
    BY <1>2 DEF PollBattleSearch
  <2>3. SrvOK'
    BY <2>2 DEF Types, SrvOK
  <2>4. b \in Layers
    BY NewLayers
  <2>5. prompt' \in Prompts
    BY <2>2, AppAssumption DEF NoPrompt, Prompts
  <2>6. misled' \in BOOLEAN
    BY <2>2 DEF Types, TypeOK
  <2>7. QED
    BY <2>1, <2>2, <2>3, <2>4, <2>5, <2>6, OverlayTypes
<1>3. QED
  BY <1>1, <1>2

(* The name or the password is taken. *)
LoginTaken == LoginName \/ LoginPassword

LEMMA LoginChanges ==
  ASSUME Types, Shape, LoginTaken
  PROVE  LET e == Head(m_event_queue)
         IN  /\ m_running /\ m_event_queue # <<>> /\ e.type = "Command" /\ e.cmd \in Commands
             /\ pc = "poll" /\ m_running' = (e.cmd # "q")
             /\ m_event_queue' = Tail(m_event_queue)
             /\ TopIs("login") /\ Top \in LayerIds /\ typed' = <<typed[2], e.cmd>>
             /\ \/ /\ pc' = pc /\ Client!SetUsername(e.cmd)
                   /\ obj' = [obj EXCEPT ![Top].named = TRUE]
                \/ /\ obj[Top].named /\ Client!SetPassword(e.cmd)
                   /\ pc' = IF Client!CanAsk THEN "auth" ELSE pc
                   /\ obj' = [obj EXCEPT ![Top].named = Client!CanAsk]
<1> DEFINE e == Head(m_event_queue)
<1>1. StackFacts /\ QueueTypes
  BY StackIs, TypeParts DEF Types
<1>2. /\ Polling("Command") /\ m_event_queue' = Tail(m_event_queue)
      /\ m_running /\ m_event_queue # <<>> /\ e.type = "Command" /\ pc = "poll"
  BY DEF LoginTaken, LoginName, LoginPassword, Polling
<1>3. e.cmd \in Commands
  <2>1. e \in Events
    BY <1>1, <1>2, TailTypes
  <2> HIDE DEF e
  <2>2. QED
    BY <1>2, <2>1, EventFields
<1>4. CASE LoginName
  <2>1. PICK l \in LoginsReached(e) :
          /\ m_running' = (e.cmd # "q") /\ Client!SetUsername(e.cmd)
          /\ obj' = [obj EXCEPT ![l].named = TRUE] /\ typed' = <<typed[2], e.cmd>>
    BY <1>4 DEF LoginName, HeedQuit
  <2>2. pc' = pc
    BY <1>4 DEF LoginName
  <2> HIDE DEF e
  <2>3. l = Top /\ l \in LayerIds /\ TopIs("login")
    BY <1>1, LoginIsTop
  <2>4. QED
    BY <1>2, <1>3, <2>1, <2>2, <2>3 DEF e
<1>5. CASE LoginPassword
  <2>1. PICK l \in LoginsReached(e) :
          /\ m_running' = (e.cmd # "q") /\ obj[l].named /\ Client!SetPassword(e.cmd)
          /\ pc' = IF Client!CanAsk THEN "auth" ELSE pc
          /\ obj' = [obj EXCEPT ![l].named = Client!CanAsk] /\ typed' = <<typed[2], e.cmd>>
    BY <1>5 DEF LoginPassword, HeedQuit
  <2> HIDE DEF e
  <2>2. l = Top /\ l \in LayerIds /\ TopIs("login")
    BY <1>1, LoginIsTop
  <2>3. QED
    BY <1>2, <1>3, <2>1, <2>2 DEF e
<1>6. QED
  BY <1>4, <1>5 DEF LoginTaken

LEMMA Renamed ==
  ASSUME NEW b \in Layers, NEW f \in BOOLEAN
  PROVE  [b EXCEPT !.named = f] \in Layers
  BY DEF Layers

LEMMA LoginTypes ==
  ASSUME Types, Shape, LoginTaken
  PROVE  Types'
<1> DEFINE c == Head(m_event_queue).cmd
<1>1. /\ m_event_queue # <<>> /\ c \in Commands /\ pc = "poll" /\ m_running' = (c # "q")
      /\ m_event_queue' = Tail(m_event_queue) /\ Top \in LayerIds
      /\ \/ /\ pc' = pc /\ Client!SetUsername(c)
            /\ obj' = [obj EXCEPT ![Top].named = TRUE]
         \/ /\ Client!SetPassword(c)
            /\ pc' = IF Client!CanAsk THEN "auth" ELSE pc
            /\ obj' = [obj EXCEPT ![Top].named = Client!CanAsk]
  BY LoginChanges
<1>2. /\ UNCHANGED <<m_dirty_ui, connected, srv, shown, prompt, misled, lines>> /\ UNCHANGED vectorVars
  BY DEF LoginTaken, LoginName, LoginPassword
<1> HIDE DEF c
<1>3. LoopTypes'
  BY <1>1, <1>2, TypeParts DEF Types, LoopTypes
<1>4. LayerTypes'
  <2>1. obj \in [LayerIds -> Layers] /\ Stack!TypeOK
    BY DEF Types, TypeOK
  <2>2. Client!CanAsk \in BOOLEAN
    BY DEF Client!CanAsk
  <2>3. \A f \in BOOLEAN : [obj[Top] EXCEPT !.named = f] \in Layers
    BY <1>1, <2>1, Renamed
  <2>4. \E f \in BOOLEAN : obj' = [obj EXCEPT ![Top].named = f]
    BY <1>1, <2>2
  <2>5. obj' \in [LayerIds -> Layers]
    BY <1>1, <2>1, <2>3, <2>4
  <2>6. Stack!TypeOK'
    BY <1>2, <2>1 DEF vectorVars, Stack!TypeOK
  <2>7. QED
    BY <2>5, <2>6 DEF LayerTypes
<1>5. QueueTypes'
  <2>1. EventCap \in Nat
    BY AppAssumption
  <2>2. QED
    BY <1>1, <2>1, TypeParts, TailTypes DEF Types, QueueTypes
<1>6. Client!Clip(c) \in Client!Stored
  BY <1>1 DEF Client!Stored
<1>7. InboundTypes' /\ ClientTypes'
  BY <1>1, <1>6, TypeParts DEF Types, Client!SetUsername, Client!SetPassword,
     InboundTypes, ClientTypes
<1>8. SrvOK'
  BY <1>2 DEF Types, SrvOK
<1>9. QED
  BY <1>3, <1>4, <1>5, <1>7, <1>8, TypePartsAfter DEF Types

(* The login server has answered. *)
LEMMA AuthTypes ==
  ASSUME Types, Shape, NameInv, AuthSucceeds \/ AuthFails
  PROVE  Types'
<1>1. Top \in LayerIds /\ pc = "auth" /\ m_chall_str \in Challenges
  <2>1. pc = "auth"
    BY DEF AuthSucceeds, AuthFails
  <2>2. StackFacts
    BY StackIs DEF Types
  <2>3. QED
    BY <2>1, <2>2 DEF NameInv, StackFacts, TopIs, Types, TypeOK
<1>2. /\ pc' = "poll" /\ UNCHANGED <<m_running, m_dirty_ui, connected, shown, prompt, misled, lines>>
      /\ UNCHANGED vectorVars
  BY DEF AuthSucceeds, AuthFails, authRest, historyRest
<1>3. LoopTypes'
  BY <1>2, TypeParts DEF Types, LoopTypes
<1>4. LayerTypes'
  <2>1. obj \in [LayerIds -> Layers] /\ Stack!TypeOK
    BY DEF Types, TypeOK
  <2>2. [obj[Top] EXCEPT !.named = FALSE] \in Layers
    BY <1>1, <2>1, Renamed
  <2>3. obj' = obj \/ obj' = [obj EXCEPT ![Top].named = FALSE]
    BY DEF AuthSucceeds, AuthFails
  <2>4. obj' \in [LayerIds -> Layers]
    BY <1>1, <2>1, <2>2, <2>3
  <2>5. Stack!TypeOK'
    BY <1>2, <2>1 DEF vectorVars, Stack!TypeOK
  <2>6. QED
    BY <2>4, <2>5 DEF LayerTypes
<1>5. CASE AuthSucceeds
  <2>1. QueueTypes'
    <3> DEFINE p == LayerPop(Top, TRUE)
    <3>1. Submit(m_event_queue, <<p>>)
      BY <1>5 DEF AuthSucceeds
    <3>2. p \in Events
      BY <1>1, EventsAre
    <3> HIDE DEF p
    <3>3. m_event_queue \in Seq(Events) /\ Len(m_event_queue) <= EventCap
      BY DEF Types, TypeOK
    <3>4. QED
      BY <3>1, <3>2, <3>3, SubmitOne, SubmittedTypes
  <2>2. None \in Client!Stored
    BY DEF Client!Stored
  <2>3. InboundTypes' /\ ClientTypes'
    BY <1>1, <1>5, <2>2, TypeParts DEF Types, AuthSucceeds, Client!LoggedIn,
       InboundTypes, ClientTypes
  <2>4. SrvOK'
    BY <1>5 DEF Types, SrvOK, AuthSucceeds
  <2>5. QED
    BY <1>3, <1>4, <2>1, <2>3, <2>4, TypePartsAfter DEF Types
<1>6. CASE AuthFails
  <2>1. UNCHANGED <<m_event_queue, srv>> /\ UNCHANGED clientVars
    BY <1>6 DEF AuthFails
  <2>2. QueueTypes' /\ InboundTypes' /\ ClientTypes' /\ SrvOK'
    BY <2>1, TypeParts, SameQueueTypes, SameInboundTypes, SameClientTypes
    DEF Types, clientVars, SrvOK
  <2>3. QED
    BY <1>3, <1>4, <2>2, TypePartsAfter DEF Types
<1>7. QED
  BY <1>5, <1>6

LEMMA TakenTypes ==
  ASSUME Types, PollBattleJoin \/ PollEnds
  PROVE  Types'
<1>1. /\ UNCHANGED <<m_running, connected, srv, shown, prompt, misled, lines>> /\ UNCHANGED stackVars
      /\ UNCHANGED clientVars /\ m_dirty_ui' \in {m_dirty_ui, TRUE}
      /\ pc' \in {pc, "input"}
      /\ \/ m_event_queue # <<>> /\ m_event_queue' = Tail(m_event_queue)
         \/ m_event_queue' = <<>>
  BY DEF PollBattleJoin, PollEnds, Polling, pollRest, historyRest
<1>2. LoopTypes'
  BY <1>1, TypeParts DEF Types, LoopTypes
<1>3. QueueTypes'
  <2>1. EventCap \in Nat /\ <<>> \in Seq(Events) /\ Len(<<>>) <= EventCap
    BY AppAssumption
  <2>2. CASE m_event_queue' = <<>>
    BY <2>1, <2>2 DEF QueueTypes
  <2>3. CASE m_event_queue # <<>> /\ m_event_queue' = Tail(m_event_queue)
    BY <2>1, <2>3, TypeParts, TailTypes DEF Types, QueueTypes
  <2>4. QED
    BY <1>1, <2>2, <2>3
<1>4. LayerTypes' /\ InboundTypes' /\ ClientTypes'
  BY <1>1, TypeParts, SameLayerTypes, SameInboundTypes, SameClientTypes
  DEF Types, clientVars
<1>5. SrvOK'
  BY <1>1 DEF Types, SrvOK
<1>6. QED
  BY <1>2, <1>3, <1>4, <1>5, TypePartsAfter DEF Types

LEMMA LineChanges ==
  ASSUME Types, Shape, NEW c \in Commands, ReadLine(c)
  PROVE  Command(c) \in Events /\ Submitted(m_event_queue, Command(c))
<1>1. StackFacts
  BY StackIs DEF Types
<1>2. Top \in LayerIds \cup {None}
  BY <1>1 DEF StackFacts
<1>3. Command(c) \in Events
  BY <1>2 DEF Command, Events
<1>4. m_event_queue \in Seq(Events) /\ Len(m_event_queue) <= EventCap
  BY DEF Types, TypeOK
<1>5. QED
  BY <1>3, <1>4, SubmitOne DEF ReadLine

LEMMA LineTypes ==
  ASSUME Types, Shape, NEW c \in Commands, ReadLine(c)
  PROVE  Types'
<1>1. /\ UNCHANGED <<m_running, m_dirty_ui, connected, srv, shown, prompt, misled>>
      /\ pc' = "render"
      /\ UNCHANGED stackVars /\ UNCHANGED clientVars
      /\ lines' = lines + 1 /\ lines < MaxCommands
  BY DEF ReadLine
<1>2. LoopTypes'
  <2>1. lines' \in 0 .. MaxCommands
    BY <1>1, AppAssumption DEF Types, TypeOK
  <2>2. QED
    BY <1>1, <2>1, TypeParts DEF Types, LoopTypes
<1>3. QueueTypes'
  <2>1. m_event_queue \in Seq(Events) /\ Len(m_event_queue) <= EventCap
    BY DEF Types, TypeOK
  <2>2. QED
    BY <2>1, LineChanges, SubmittedTypes
<1>4. LayerTypes' /\ InboundTypes' /\ ClientTypes'
  BY <1>1, TypeParts, SameLayerTypes, SameInboundTypes, SameClientTypes
  DEF Types, clientVars
<1>5. SrvOK'
  BY <1>1 DEF Types, SrvOK
<1>6. QED
  BY <1>2, <1>3, <1>4, <1>5, TypePartsAfter DEF Types

LEMMA ExitTypes ==
  ASSUME Types, Exit
  PROVE  Types'
<1>1. /\ UNCHANGED <<m_running, m_dirty_ui, m_event_queue, connected, srv, shown, prompt, misled, lines>>
      /\ UNCHANGED clientVars /\ pc' = "done" /\ Stack!Destroy
  BY DEF Exit, ghostVars
<1>0. obj' = [l \in LayerIds |-> IF l \in ToSet(m_layers) THEN Free ELSE obj[l]]
  BY DEF Exit
<1>2. LoopTypes'
  BY <1>1, TypeParts DEF Types, LoopTypes
<1>3. LayerTypes'
  <2>1. obj' \in [LayerIds -> Layers]
    BY <1>0, NewLayers DEF Types, TypeOK
  <2>2. QED
    BY <1>1, <2>1 DEF Types, TypeOK, Stack!Destroy, LayerTypes, Stack!TypeOK
<1>4. QueueTypes' /\ InboundTypes' /\ ClientTypes'
  BY <1>1, TypeParts, SameQueueTypes, SameInboundTypes, SameClientTypes
  DEF Types, clientVars
<1>5. SrvOK'
  BY <1>1 DEF Types, SrvOK
<1>6. QED
  BY <1>2, <1>3, <1>4, <1>5, TypePartsAfter DEF Types

-----------------------------------------------------------------------------
(* The server sends a message. *)

LEMMA DeliverTypes ==
  ASSUME Types, NEW m \in Messages, Deliver(m), SrvOK'
  PROVE  Types'
<1>1. /\ UNCHANGED <<pc, m_running, m_dirty_ui, m_event_queue, connected, shown, prompt, misled, lines>>
      /\ UNCHANGED stackVars
      /\ UNCHANGED <<m_chall_str, m_username, m_password, m_logged_in, spent>>
      /\ m_inbound' = IF Len(m_inbound) < InboundCap THEN Append(m_inbound, m) ELSE m_inbound
  BY DEF Deliver, Client!Receive, Client!credVars, ghostVars
<1>2. LoopTypes'
  BY <1>1, TypeParts DEF Types, LoopTypes
<1>3. InboundTypes'
  <2>1. m_inbound \in Seq(Messages) /\ Len(m_inbound) <= InboundCap /\ InboundCap \in Nat
    BY AppAssumption DEF Types, TypeOK
  <2>2. Append(m_inbound, m) \in Seq(Messages) /\ Len(Append(m_inbound, m)) = Len(m_inbound) + 1
        /\ Len(m_inbound) \in Nat
    BY <2>1, Appended
  <2>3. QED
    BY <1>1, <2>1, <2>2 DEF InboundTypes
<1>4. LayerTypes' /\ QueueTypes' /\ ClientTypes'
  BY <1>1, TypeParts, SameLayerTypes, SameQueueTypes, SameClientTypes DEF Types
<1>5. QED
  BY <1>2, <1>3, <1>4, TypePartsAfter DEF Types

ChallMessage(c) == [type |-> "challstr", chall |-> c]
UserMessage(n)  == [type |-> "updateuser", named |-> n]
Request(k, n)   == [type |-> "request", kind |-> k, moves |-> n]
WinMessage      == [type |-> "win"]
ChatMessage     == [type |-> "chat"]

(* What the server may send, and how it remembers that. *)
SendsChallenge ==
  \E c \in srv.chall :
    srv' = [srv EXCEPT !.chall = @ \ {c}] /\ Deliver(ChallMessage(c))

SendsUser ==
  \/ srv' = [srv EXCEPT !.guest = FALSE] /\ Deliver(UserMessage(FALSE))
  \/ srv' = [srv EXCEPT !.trn = FALSE] /\ Deliver(UserMessage(TRUE))

LEMMA GreetsOrNames ==
  ASSUME Types, ServerGreets \/ ServerNames
  PROVE  SendsChallenge \/ SendsUser
<1>1. ASSUME srv.chall # {}
      PROVE  (CHOOSE x \in srv.chall : \A y \in srv.chall : x <= y) \in srv.chall
  <2>1. srv.chall \in SUBSET Nat
    BY AppAssumption DEF Types, SrvOK
  <2>2. \E x \in srv.chall : \A y \in srv.chall : x <= y
    BY <1>1, <2>1, LeastNatural
  <2>3. QED
    BY <2>2
<1>2. CASE ServerNames
  BY <1>2 DEF ServerNames, SendsUser, UserMessage
<1>3. CASE ServerGreets
  <2>1. CASE srv.chall = {} \/ ~ServerGreets!1
    BY <1>3, <2>1 DEF ServerGreets, SendsUser, UserMessage
  <2>2. CASE srv.chall # {} /\ ServerGreets!1
    <3> DEFINE c == CHOOSE x \in srv.chall : \A y \in srv.chall : x <= y
    <3>1. c \in srv.chall
      BY <1>1, <2>2
    <3>2. srv' = [srv EXCEPT !.chall = @ \ {c}] /\ Deliver(ChallMessage(c))
      BY <2>2 DEF ServerGreets, ChallMessage
    <3> HIDE DEF c
    <3>3. QED
      BY <3>1, <3>2 DEF SendsChallenge
  <2>3. QED
    BY <2>1, <2>2
<1>4. QED
  BY <1>2, <1>3

LEMMA MessagesAre ==
  /\ \A c \in Challenges : ChallMessage(c) \in Messages
  /\ \A n \in BOOLEAN : UserMessage(n) \in Messages
  /\ \A g \in SUBSET Rooms : UpdateSearch(g) \in Messages
  /\ \A k \in Requests, n \in 0 .. MaxRequests : Request(k, n) \in Messages
  /\ WinMessage \in Messages /\ ChatMessage \in Messages
<1>1. \A c \in Challenges : ChallMessage(c) \in Messages
  BY DEF ChallMessage, Messages
<1>2. \A n \in BOOLEAN : UserMessage(n) \in Messages
  BY DEF UserMessage, Messages
<1>3. \A g \in SUBSET Rooms : UpdateSearch(g) \in Messages
  BY DEF UpdateSearch, Messages
<1>4. \A k \in Requests, n \in 0 .. MaxRequests : Request(k, n) \in Messages
  BY DEF Request, Messages
<1>5. WinMessage \in Messages /\ ChatMessage \in Messages
  BY DEF WinMessage, ChatMessage, Messages
<1>6. QED
  BY <1>1, <1>2, <1>3, <1>4, <1>5

SendsRequest ==
  \E k \in Requests, n \in 0 .. MaxRequests :
    /\ srv' = [srv EXCEPT !.requests = @ + 1]
    /\ Deliver(Request(k, n))

LEMMA RequestIsSent ==
  ASSUME Types, ServerRequests
  PROVE  SendsRequest /\ srv.requests + 1 \in 0 .. MaxRequests /\ srv.own \cup srv.others # {}
<1>1. srv.requests + 1 \in 0 .. MaxRequests
  BY AppAssumption DEF ServerRequests, Types, SrvOK
<1>2. /\ srv' = [srv EXCEPT !.requests = @ + 1] /\ srv.own \cup srv.others # {}
      /\ \E k \in Requests :
           Deliver([type |-> "request", kind |-> k,
                    moves |-> IF k = "move" THEN srv'.requests ELSE 0])
  BY DEF ServerRequests
<1>3. PICK k \in Requests :
        Deliver([type |-> "request", kind |-> k,
                 moves |-> IF k = "move" THEN srv'.requests ELSE 0])
  BY <1>2
<1> DEFINE n == IF k = "move" THEN srv'.requests ELSE 0
<1>4. srv'.requests = srv.requests + 1
  BY <1>2 DEF Types, SrvOK
<1>5. n \in 0 .. MaxRequests
  BY <1>1, <1>4, AppAssumption
<1>6. Deliver(Request(k, n))
  BY <1>3 DEF Request
<1> HIDE DEF n
<1>7. QED
  BY <1>1, <1>2, <1>5, <1>6 DEF SendsRequest

SendsTalk ==
  /\ srv' = srv
  /\ Deliver(UpdateSearch(srv.own \cup srv.others)) \/ Deliver(ChatMessage)

(* A battle begins in room r, found by this client's search or elsewhere. *)
Begins(r) ==
  \/ /\ srv.search
     /\ srv' = [srv EXCEPT !.search = FALSE, !.own = @ \cup {r}, !.rooms = @ \ {r},
                           !.requests = 0]
  \/ /\ Elsewhere
     /\ srv' = [srv EXCEPT !.others = @ \cup {r}, !.rooms = @ \ {r}, !.requests = 0]

SendsBattle ==
  \E r \in srv.rooms : Begins(r) /\ Deliver(UpdateSearch(srv'.own \cup srv'.others))

SendsEnd ==
  \E r \in srv.own \cup srv.others :
    /\ srv' = [srv EXCEPT !.own = @ \ {r}, !.others = @ \ {r}]
    /\ Deliver(WinMessage)

LEMMA TalkIsSent ==
  /\ ServerTalks => SendsTalk
  /\ ServerFindsBattle \/ ServerStartsElsewhere => SendsBattle
  /\ ServerEndsBattle => SendsEnd
<1>1. ServerTalks => SendsTalk
  BY DEF ServerTalks, SendsTalk, ChatMessage
<1>2. ServerFindsBattle \/ ServerStartsElsewhere => SendsBattle
  BY DEF ServerFindsBattle, ServerStartsElsewhere, SendsBattle, Begins
<1>3. ServerEndsBattle => SendsEnd
  BY DEF ServerEndsBattle, SendsEnd, WinMessage
<1>4. QED
  BY <1>1, <1>2, <1>3

=============================================================================
