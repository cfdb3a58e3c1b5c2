------------------------------- MODULE PsApp -------------------------------
(***************************************************************************)
(* app/psapp.{h,cpp}: the main loop, its event queue, the three layers and *)
(* the way messages and commands reach them, composed with the layer stack *)
(* (LayerStack) and the login client (PsClient).                           *)
(*                                                                         *)
(* The main thread runs one frame after another: drain the inbound queue   *)
(* ("net"), drain the event queue ("poll"), wait for one input line        *)
(* ("input"), draw ("render").  One step handles one message or one event, *)
(* with everything its handlers do; the blocking call of the login server  *)
(* is the one handler cut in two ("auth").  The network thread delivers    *)
(* messages between any two steps.                                         *)
(*                                                                         *)
(* External: the Showdown server, the login server, the terminal.          *)
(***************************************************************************)
EXTENDS Naturals, FiniteSets, Sequences, SequencesExt

CONSTANTS
  LayerIds,      \* addresses of Layer objects; a freed one may be used again
  Modulus,       \* of the layer iterator offset, see LayerStack
  Commands,      \* the lines the user may type
  LongTokens,    \* the ones of more than 31 characters
  Challenges,    \* a set 1 .. n: the challstr messages the server sends
  Rooms,         \* the rooms of the battles the server may start, one each,
                 \* in the order of their names
  Elsewhere,     \* does the user also play from somewhere else?
  EventCap,      \* m_event_queue holds one less than its capacity of 64
  InboundCap,    \* m_inbound holds one less than its capacity of 256
  MaxCommands,   \* bound: lines typed
  MaxRequests,   \* bound: requests in one battle
  None

ASSUME AppAssumption ==
  /\ EventCap \in Nat \ {0, 1} /\ InboundCap \in Nat \ {0}
  /\ {MaxCommands, MaxRequests} \subseteq Nat
  /\ IsFiniteSet(LayerIds) /\ Modulus \in Nat
  /\ Modulus > Cardinality(LayerIds) + MaxCommands
  /\ LongTokens \subseteq Commands /\ Challenges \subseteq Nat /\ Rooms \subseteq Nat
  /\ Elsewhere \in BOOLEAN
  /\ None \notin LayerIds \cup Challenges \cup Rooms

VARIABLES
  pc,           \* where the main thread is
  m_running,
  m_dirty_ui,
  m_layers, m_layer_iterator_offset, overlays, status,   \* m_layerstack
  obj,          \* the Layer object at each address
  m_event_queue,
  m_inbound, m_chall_str, m_username, m_password, m_logged_in, spent,  \* m_client
  connected,    \* does the network thread still read?
  srv,          \* external: what the server has yet to send, and what it runs
  shown,        \* what the screen shows: the layer that drew it, and its moves
  posted,       \* what the step has given to WsClient::send
  typed,        \* history: the last two lines a login overlay took
  prompt,       \* history: the last request with a content, in this battle
  misled,       \* history: was the end of another battle taken for the end of
                \* the one this client has searched for?
  lost,         \* history: the types of events m_event_queue refused
  lines         \* history: how many lines were typed

vectorVars == <<m_layers, m_layer_iterator_offset, overlays, status>>
stackVars  == <<vectorVars, obj>>
clientVars == <<m_inbound, m_chall_str, m_username, m_password, m_logged_in, spent>>
ghostVars  == <<typed, prompt, misled, lost, lines>>
vars == <<pc, m_running, m_dirty_ui, stackVars, m_event_queue, clientVars,
          connected, srv, shown, posted, ghostVars>>

Stack == INSTANCE LayerStack
           WITH MaxUnderflow <- MaxCommands

Client == INSTANCE PsClient WITH Tokens <- Commands

Top == IF m_layers = <<>> THEN None ELSE Last(m_layers)

-----------------------------------------------------------------------------
(* Layer objects: one record for the fields of all three classes. *)

Free == [kind |-> "free", named |-> FALSE, room |-> None, force |-> FALSE, moves |-> 0,
         timer |-> FALSE, over |-> FALSE]

Menu == [Free EXCEPT !.kind = "menu"]

(* named is m_entered_username; m_entered_password is never read. *)
Login == [Free EXCEPT !.kind = "login"]

(* Mutant: a new battle layer comes with a room, that of an earlier one.   *)
BattlesSomewhere ==
  {[Free EXCEPT !.kind = "battle", !.force = f, !.room = r] : f \in BOOLEAN, r \in Rooms}

(***************************************************************************)
(* room is m_battle_room; moves are m_state.m_available_moves, as the      *)
(* number of the request they came with, 0 for none; force is              *)
(* m_state.m_force_switch, which nothing initializes; timer is             *)
(* m_timer_active.  History: over says that a win or tie was handled here. *)
(***************************************************************************)
Battles == {[Free EXCEPT !.kind = "battle", !.force = f] : f \in BOOLEAN}

(* What a layer draws; only the moves of a battle are kept of it. *)
Drawn(l) == IF l = None THEN [layer |-> None, kind |-> "none", moves |-> 0]
            ELSE [layer |-> l, kind |-> obj[l].kind, moves |-> obj[l].moves]

(* What is known of the objects once the stack is as it is now: those that *)
(* left the vector are deleted, the others are as new says.                *)
Freed(new) ==
  [l \in LayerIds |-> IF l \in ToSet(m_layers) \ ToSet(m_layers') THEN Free ELSE new[l]]

-----------------------------------------------------------------------------
(* Events and messages *)

LayerPush(l)   == [type |-> "LayerPush", layer |-> l]
LayerPop(l, o) == [type |-> "LayerPop", layer |-> l, overlay |-> o]
LoginEvent     == [type |-> "Login"]
BattleSearch   == [type |-> "BattleSearch"]
BattleJoin     == [type |-> "BattleJoin"]
Message(m)     == [type |-> "Message", msg |-> m]

(* reader is history: the layer on top when the line was read. *)
Command(c) == [type |-> "Command", cmd |-> c, reader |-> Top]

Events ==
       [type : {"LayerPush"}, layer : LayerIds]
  \cup [type : {"LayerPop"}, layer : LayerIds, overlay : BOOLEAN]
  \cup [type : {"Login", "BattleSearch", "BattleJoin"}]
  \cup [type : {"Command"}, cmd : Commands, reader : LayerIds \cup {None}]

(* What the JSON of a request asks for: moves, switches (force), nothing   *)
(* while the other side chooses; or there is no JSON.                      *)
Requests == {"move", "switch", "wait", "empty"}

Messages ==
       [type : {"challstr"}, chall : Challenges]
  \cup [type : {"updateuser"}, named : BOOLEAN]
  \cup [type : {"updatesearch"}, games : SUBSET Rooms]
  \cup [type : {"request"}, kind : Requests, moves : 0 .. MaxRequests]
  \cup [type : {"win"}]    \* tie is handled the same way
  \cup [type : {"chat"}]   \* and whatever else no layer looks at

(* Mutant: a queue without a bound. *)
SubmitUnbounded(queue, events) ==
  /\ m_event_queue' = queue \o events
  /\ lost' = lost

(* m_event_queue.push() of each event in turn; its result is ignored. *)
Submit(queue, events) ==
  LET room == EventCap - Len(queue)
      kept == IF Len(events) <= room THEN events ELSE SubSeq(events, 1, room)
  IN  /\ m_event_queue' = queue \o kept
      /\ lost' = lost \cup {events[i].type : i \in Len(kept) + 1 .. Len(events)}

(* util's tokenize(): the number of words of a line, and the first one *)
NumTokens(c)  == IF c = " " THEN 0 ELSE IF c = "1 tera" THEN 2 ELSE 1
FirstToken(c) == IF c = "1 tera" THEN "1" ELSE c

(* What the battle on top has been asked for, if anything *)
Prompts  == [kind : {"nothing", "move", "switch", "wait"}, moves : 0 .. MaxRequests]
NoPrompt == [kind |-> "nothing", moves |-> 0]

Digits   == {"1", "2", "3", "4"}
Switches == {"s1", "s2", "s3", "s4", "s5", "s6"}
Silence  == [kind |-> "nothing"]

-----------------------------------------------------------------------------
(* The layers' on_event(): what each handler answers, submits, changes and *)
(* sends.                                                                  *)

(* Mutant: BattleLayer lets commands through. *)
HandlesLoosely(l, e) ==
  \/ e.type = "Command" /\ ~(obj[l].kind = "menu" /\ e.cmd = "q") /\ obj[l].kind # "battle"
  \/ e.type = "Message" /\ obj[l].kind # "login"

(* LoginOverlay dispatches no messages; the menu lets "q" pass. *)
Handles(l, e) ==
  \/ e.type = "Command" /\ ~(obj[l].kind = "menu" /\ e.cmd = "q")
  \/ e.type = "Message" /\ obj[l].kind # "login"

(* Whom push_to_layers() calls, top down until one handles the event *)
Reached(e) ==
  {m_layers[i] : i \in {k \in 1 .. Len(m_layers) :
                          \A j \in k + 1 .. Len(m_layers) : ~Handles(m_layers[j], e)}}

MenuSubmits(l, e) ==
  IF e.type # "Command" THEN <<>>
  ELSE IF e.cmd = "1" THEN <<BattleSearch>>
  ELSE IF e.cmd \in {"2", "3"} THEN <<LoginEvent>>
  ELSE IF e.cmd = "q" THEN <<LayerPop(l, FALSE)>>
  ELSE <<>>

(* Mutant: a forfeit leaves the battle at once. *)
BattleSubmitsEagerly(l, e) ==
  IF e.type # "Message" THEN IF e.cmd = "f" THEN <<LayerPop(l, FALSE)>> ELSE <<>>
  ELSE IF e.msg.type = "win" THEN <<LayerPop(l, FALSE)>>
  ELSE IF e.msg.type = "request" THEN <<BattleJoin>>
  ELSE <<>>

BattleSubmits(l, e) ==
  IF e.type # "Message" THEN <<>>
  ELSE IF e.msg.type = "win" THEN <<LayerPop(l, FALSE)>>
  ELSE IF e.msg.type = "request" THEN <<BattleJoin>>
  ELSE <<>>

Submits(l, e) ==
  IF obj[l].kind = "menu" THEN MenuSubmits(l, e)
  ELSE IF obj[l].kind = "battle" THEN BattleSubmits(l, e)
  ELSE <<>>

(* What the loop of push_to_layers() submits: from[k] when the k lowest    *)
(* layers are still to be called.                                          *)
Submissions(e) ==
  LET from[k \in 0 .. Len(m_layers)] ==
        IF k = 0 THEN <<>>
        ELSE Submits(m_layers[k], e) \o
               (IF Handles(m_layers[k], e) THEN <<>> ELSE from[k - 1])
  IN  from[Len(m_layers)]

(* Mutant: the moves of an earlier request stay. *)
ApplyRequestKeepingMoves(b, msg) ==
  IF msg.kind = "empty" THEN b
  ELSE [b EXCEPT !.force = (msg.kind = "switch"),
                 !.moves = IF msg.moves = 0 THEN @ ELSE msg.moves]

(* What BattleState::apply() makes of a request, as far as the screen and  *)
(* the commands show it: one without JSON takes nothing back.              *)
ApplyRequest(b, msg) ==
  IF msg.kind = "empty" THEN b
  ELSE [b EXCEPT !.force = (msg.kind = "switch"), !.moves = msg.moves]

(* An updatesearch lists the games, or has null for them; of several, the  *)
(* layer takes the first key.                                              *)
NamesRoom(msg) == msg.type = "updatesearch" /\ msg.games # {}
NamedRoom(msg) == Min(msg.games)

BattleReacts(b, e) ==
  IF e.type = "Command" THEN IF e.cmd = "t" THEN [b EXCEPT !.timer = ~@] ELSE b
  ELSE IF e.msg.type = "request" THEN ApplyRequest(b, e.msg)
  ELSE [b EXCEPT !.over = @ \/ e.msg.type = "win",
                 !.room = IF NamesRoom(e.msg) THEN NamedRoom(e.msg) ELSE @]

Reactions(e) ==
  [l \in LayerIds |-> IF l \in Reached(e) /\ obj[l].kind = "battle"
                      THEN BattleReacts(obj[l], e) ELSE obj[l]]

(* What battle b sends of its own accord; "bench" is the choice of s1-s6. *)
BattleSends(b, e) ==
  LET InRoom(kind) == [kind |-> kind, room |-> b.room]
  IN  IF e.type = "Message"
      THEN IF NamesRoom(e.msg) THEN [kind |-> "join", room |-> NamedRoom(e.msg)] ELSE Silence
      ELSE IF FirstToken(e.cmd) \in Digits THEN InRoom(IF b.force THEN "switch" ELSE "move")
      ELSE IF e.cmd = "f" THEN InRoom("forfeit")
      ELSE IF e.cmd = "t" THEN InRoom(IF b.timer THEN "timer off" ELSE "timer on")
      ELSE IF e.cmd \in Switches THEN InRoom("bench")
      ELSE Silence

(* push_to_layers(e), for the handlers that do not call the login server *)
PushToLayers(queue, e) ==
  /\ Submit(queue, Submissions(e))
  /\ obj' = Reactions(e)
  /\ posted' = IF \E l \in Reached(e) : obj[l].kind = "battle"
               THEN BattleSends(obj[CHOOSE l \in Reached(e) : obj[l].kind = "battle"], e)
               ELSE Silence

-----------------------------------------------------------------------------
(* init() and start() *)

Init ==
  /\ pc = "start" /\ m_running = TRUE /\ m_dirty_ui = FALSE
  /\ Stack!Init
  /\ \E l \in LayerIds :
       /\ obj = [k \in LayerIds |-> IF k = l THEN Menu ELSE Free]
       /\ m_event_queue = <<LayerPush(l)>>
  /\ Client!Init
  /\ connected = FALSE
  /\ srv = [chall |-> Challenges, guest |-> TRUE, trn |-> FALSE,
            search |-> FALSE, own |-> {}, others |-> {}, requests |-> 0, rooms |-> Rooms]
  /\ shown = Drawn(None) /\ posted = Silence
  /\ typed = <<None, None>> /\ prompt = NoPrompt /\ misled = FALSE
  /\ lost = {} /\ lines = 0

(* m_client->start(): without a connection there is no network thread. *)
Start ==
  /\ pc = "start"
  /\ connected' \in BOOLEAN
  /\ pc' = "net"
  /\ UNCHANGED <<m_running, m_dirty_ui, stackVars, m_event_queue, clientVars,
                 srv, shown, posted, ghostVars>>

(* When the host did not resolve, init() failed to make the stream that    *)
(* connect() then dereferences.                                            *)
StartUnresolved ==
  /\ pc = "start"
  /\ pc' = "crashed"
  /\ UNCHANGED <<m_running, m_dirty_ui, stackVars, m_event_queue, clientVars,
                 connected, srv, shown, posted, ghostVars>>

-----------------------------------------------------------------------------
(* on_update(): process_network() *)

BattleOnTop == m_layers # <<>> /\ obj[Top].kind = "battle"

(* The server still has a search of this client, or a battle found by one. *)
OwnPending == srv.search \/ srv.own # {}

ProcessMessage ==
  /\ pc = "net"
  /\ m_inbound # <<>>
  /\ LET m == Head(m_inbound)
     IN  /\ Client!Poll(m) /\ PushToLayers(m_event_queue, Message(m))
         /\ prompt' = IF BattleOnTop /\ m.type = "request" /\ m.kind # "empty"
                      THEN [kind |-> m.kind, moves |-> m.moves] ELSE prompt
         /\ misled' = (misled \/ (BattleOnTop /\ m.type = "win" /\ OwnPending))
  /\ UNCHANGED <<pc, m_running, m_dirty_ui, vectorVars,
                 connected, srv, shown, typed, lines>>

(* Mutant: the loop waits for the next message. *)
NetworkNeverDrained ==
  /\ pc = "net"
  /\ m_inbound = <<>> /\ ~connected
  /\ pc' = "poll"
  /\ posted' = Silence
  /\ UNCHANGED <<m_running, m_dirty_ui, stackVars, m_event_queue, clientVars,
                 connected, srv, shown, ghostVars>>

NetworkDrained ==
  /\ pc = "net"
  /\ m_inbound = <<>>
  /\ pc' = "poll"
  /\ posted' = Silence
  /\ UNCHANGED <<m_running, m_dirty_ui, stackVars, m_event_queue, clientVars,
                 connected, srv, shown, ghostVars>>

-----------------------------------------------------------------------------
(* poll(): each event changes the stack or the run flag, then goes to the  *)
(* layers; only commands mean anything to them.                            *)

Polling(type) ==
  /\ pc = "poll" /\ m_running
  /\ m_event_queue # <<>>
  /\ Head(m_event_queue).type = type

historyRest == <<typed, prompt, misled, lines>>
pollRest    == <<connected, srv, shown, historyRest>>

(* Mutant: the menu is pushed as an overlay. *)
PollLayerPushOnTop ==
  /\ Polling("LayerPush")
  /\ Stack!PushOverlay(Head(m_event_queue).layer)
  /\ m_event_queue' = Tail(m_event_queue)
  /\ m_dirty_ui' = TRUE
  /\ posted' = Silence
  /\ UNCHANGED <<pc, m_running, obj, clientVars, lost, pollRest>>

(* Mutant: the event is looked at, and stays in the queue. *)
PollLayerPushAgain ==
  /\ Polling("LayerPush")
  /\ Stack!PushLayer(Head(m_event_queue).layer)
  /\ m_dirty_ui' = TRUE
  /\ posted' = Silence
  /\ UNCHANGED <<pc, m_running, obj, m_event_queue, clientVars, lost, pollRest>>

PollLayerPush ==
  /\ Polling("LayerPush")
  /\ Stack!PushLayer(Head(m_event_queue).layer)
  /\ m_event_queue' = Tail(m_event_queue)
  /\ m_dirty_ui' = TRUE
  /\ posted' = Silence
  /\ UNCHANGED <<pc, m_running, obj, clientVars, lost, pollRest>>

(* Mutant: the screen is not marked for drawing. *)
PollLayerPopClean ==
  /\ Polling("LayerPop")
  /\ LET e == Head(m_event_queue)
     IN  IF e.overlay THEN Stack!PopOverlay(e.layer) ELSE Stack!PopLayer(e.layer)
  /\ obj' = Freed(obj)
  /\ m_event_queue' = Tail(m_event_queue)
  /\ pc' = IF status' = "fault" THEN "crashed" ELSE pc
  /\ posted' = Silence
  /\ UNCHANGED <<m_running, m_dirty_ui, clientVars, lost, pollRest>>

PollLayerPop ==
  /\ Polling("LayerPop")
  /\ LET e == Head(m_event_queue)
     IN  IF e.overlay THEN Stack!PopOverlay(e.layer) ELSE Stack!PopLayer(e.layer)
  /\ obj' = Freed(obj)
  /\ m_event_queue' = Tail(m_event_queue)
  /\ m_dirty_ui' = TRUE
  /\ pc' = IF status' = "fault" THEN "crashed" ELSE pc
  /\ posted' = Silence
  /\ UNCHANGED <<m_running, clientVars, lost, pollRest>>

PollLogin ==
  /\ Polling("Login")
  /\ \E l \in LayerIds :
       /\ obj[l] = Free
       /\ obj' = [obj EXCEPT ![l] = Login]
       /\ Stack!PushOverlay(l)
  /\ m_event_queue' = Tail(m_event_queue)
  /\ m_dirty_ui' = TRUE
  /\ posted' = Silence
  /\ UNCHANGED <<pc, m_running, clientVars, lost, pollRest>>

(* What BattleLayer::on_attach() sends *)
Search == [kind |-> "search"]

PollBattleSearch ==
  /\ Polling("BattleSearch")
  /\ \E l \in LayerIds, b \in Battles :
       /\ obj[l] = Free
       /\ obj' = [obj EXCEPT ![l] = b]
       /\ Stack!PushOverlay(l)
  /\ m_event_queue' = Tail(m_event_queue)
  /\ m_dirty_ui' = TRUE
  /\ posted' = Search
  /\ srv' = [srv EXCEPT !.search = TRUE]
  /\ prompt' = NoPrompt /\ misled' = (misled /\ OwnPending)
  /\ UNCHANGED <<pc, m_running, clientVars, lost, connected, shown, typed, lines>>

PollBattleJoin ==
  /\ Polling("BattleJoin")
  /\ m_event_queue' = Tail(m_event_queue)
  /\ m_dirty_ui' = TRUE
  /\ posted' = Silence
  /\ UNCHANGED <<pc, m_running, stackVars, clientVars, lost, pollRest>>

(* The login overlay, if the command reaches one, and the name it reads *)
LoginsReached(e) == {l \in Reached(e) : obj[l].kind = "login"}
Word(c) == NumTokens(c) = 1

(* "q" leaves the loop after the layers have had it, whoever they are. *)
HeedQuit(e) == m_running' = (e.cmd # "q")

PollCommand ==
  /\ Polling("Command")
  /\ LET e == Head(m_event_queue)
     IN  /\ LoginsReached(e) = {} \/ ~Word(e.cmd)    \* "Invalid Input, enter again!"
         /\ HeedQuit(e)
         /\ PushToLayers(Tail(m_event_queue), e)
  /\ UNCHANGED <<pc, m_dirty_ui, vectorVars, clientVars, connected, srv, shown, historyRest>>

LoginName ==
  /\ Polling("Command")
  /\ LET e == Head(m_event_queue)
     IN  \E l \in LoginsReached(e) :
           /\ Word(e.cmd) /\ ~obj[l].named
           /\ HeedQuit(e)
           /\ Client!SetUsername(e.cmd)
           /\ obj' = [obj EXCEPT ![l].named = TRUE]
           /\ typed' = <<typed[2], e.cmd>>
  /\ m_event_queue' = Tail(m_event_queue)
  /\ posted' = Silence
  /\ UNCHANGED <<pc, m_dirty_ui, vectorVars,
                 connected, srv, shown, prompt, misled, lost, lines>>

(* try_login() gives up at once or asks the login server, and the main     *)
(* thread waits; a failed attempt starts over with the name.               *)
LoginPassword ==
  /\ Polling("Command")
  /\ LET e == Head(m_event_queue)
     IN  \E l \in LoginsReached(e) :
           /\ Word(e.cmd) /\ obj[l].named
           /\ HeedQuit(e)
           /\ Client!SetPassword(e.cmd)
           /\ pc' = IF Client!CanAsk THEN "auth" ELSE pc
           /\ obj' = [obj EXCEPT ![l].named = Client!CanAsk]
           /\ typed' = <<typed[2], e.cmd>>
  /\ m_event_queue' = Tail(m_event_queue)
  /\ posted' = Silence
  /\ UNCHANGED <<m_dirty_ui, vectorVars,
                 connected, srv, shown, prompt, misled, lost, lines>>

authRest == <<m_running, m_dirty_ui, vectorVars, connected, shown, historyRest>>

(* What request_assertion() may return *)
Assertions == {Client!RequestAssertion(r) : r \in Client!Responses}

(* try_login() has got an assertion. *)
AuthSucceeds ==
  /\ pc = "auth"
  /\ \E token \in Assertions \ {""} : posted' = [kind |-> "trn", assertion |-> token]
  /\ Client!LoggedIn
  /\ Submit(m_event_queue, <<LayerPop(Top, TRUE)>>)
  /\ srv' = [srv EXCEPT !.trn = TRUE]
  /\ pc' = "poll"
  /\ UNCHANGED <<obj, authRest>>

(* Mutant: the overlay does not go back to the name. *)
AuthFailsKeepingName ==
  /\ pc = "auth"
  /\ "" \in Assertions
  /\ posted' = Silence
  /\ pc' = "poll"
  /\ UNCHANGED <<m_event_queue, lost, obj, clientVars, srv, authRest>>

(* It has got none. *)
AuthFails ==
  /\ pc = "auth"
  /\ "" \in Assertions
  /\ obj' = [obj EXCEPT ![Top].named = FALSE]
  /\ posted' = Silence
  /\ pc' = "poll"
  /\ UNCHANGED <<m_event_queue, lost, clientVars, srv, authRest>>

(* External: the answer never comes.  The request sets no timeout, and the  *)
(* main thread waits for ever; the network thread does not notice.         *)
LoginServerHangs ==
  /\ pc = "auth"
  /\ pc' = "hung"
  /\ UNCHANGED <<m_event_queue, lost, obj, clientVars, srv, posted, authRest>>

(* Mutant: the loop may end while there are events. *)
PollEndsEarly ==
  /\ pc = "poll"
  /\ m_event_queue' = IF m_event_queue = <<>> \/ m_running THEN m_event_queue
                      ELSE Tail(m_event_queue)
  /\ pc' = "input"
  /\ posted' = Silence
  /\ UNCHANGED <<m_running, m_dirty_ui, stackVars, clientVars, lost, pollRest>>

(* while (pop(e) && !exit): an exit takes one more event with it. *)
PollEnds ==
  /\ pc = "poll"
  /\ m_event_queue = <<>> \/ ~m_running
  /\ m_event_queue' = IF m_event_queue = <<>> THEN <<>> ELSE Tail(m_event_queue)
  /\ pc' = "input"
  /\ posted' = Silence
  /\ UNCHANGED <<m_running, m_dirty_ui, stackVars, clientVars, lost, pollRest>>

-----------------------------------------------------------------------------
(* m_input->poll(): a line, or none within 100 ms *)

ReadLine(c) ==
  /\ pc = "input"
  /\ lines < MaxCommands
  /\ Submit(m_event_queue, <<Command(c)>>)
  /\ lines' = lines + 1
  /\ pc' = "render"
  /\ UNCHANGED <<m_running, m_dirty_ui, stackVars, clientVars,
                 connected, srv, shown, posted, typed, prompt, misled>>

ReadNothing ==
  /\ pc = "input"
  /\ pc' = "render"
  /\ UNCHANGED <<m_running, m_dirty_ui, stackVars, m_event_queue, clientVars,
                 connected, srv, shown, posted, ghostVars>>

(* Mutant: the loop never ends. *)
RenderForever ==
  /\ pc = "render"
  /\ IF m_dirty_ui /\ m_layers # <<>>
     THEN shown' = Drawn(Top) /\ m_dirty_ui' = FALSE
     ELSE UNCHANGED <<shown, m_dirty_ui>>
  /\ pc' = "net"
  /\ UNCHANGED <<m_running, stackVars, m_event_queue, clientVars, connected, srv,
                 posted, ghostVars>>

(* on_render(), then the test of the main loop *)
Render ==
  /\ pc = "render"
  /\ IF m_dirty_ui /\ m_layers # <<>>
     THEN shown' = Drawn(Top) /\ m_dirty_ui' = FALSE
     ELSE UNCHANGED <<shown, m_dirty_ui>>
  /\ pc' = IF m_running THEN "net" ELSE "stop"
  /\ UNCHANGED <<m_running, stackVars, m_event_queue, clientVars, connected, srv,
                 posted, ghostVars>>

(* shutdown(): the network thread is joined, the stream is closed *)
Shutdown ==
  /\ pc = "stop"
  /\ connected' = FALSE
  /\ pc' = "exit"
  /\ UNCHANGED <<m_running, m_dirty_ui, stackVars, m_event_queue, clientVars, srv,
                 shown, posted, ghostVars>>

(* External: the peer is there, and never answers the closing handshake,   *)
(* for which close() waits without a timeout.                              *)
CloseHangs ==
  /\ pc = "stop" /\ connected
  /\ connected' = FALSE
  /\ pc' = "stuck"
  /\ UNCHANGED <<m_running, m_dirty_ui, stackVars, m_event_queue, clientVars, srv,
                 shown, posted, ghostVars>>

(* main() returns: ~PsApp destroys the stack. *)
Exit ==
  /\ pc = "exit"
  /\ obj' = [l \in LayerIds |-> IF l \in ToSet(m_layers) THEN Free ELSE obj[l]]
  /\ Stack!Destroy
  /\ pc' = "done"
  /\ UNCHANGED <<m_running, m_dirty_ui, m_event_queue, clientVars, connected, srv,
                 shown, posted, ghostVars>>

Ended == pc \in {"done", "crashed", "hung", "stuck"} /\ UNCHANGED vars

-----------------------------------------------------------------------------
(* External: the network thread, and the server behind it.  A server sends *)
(* a challenge when a client connects, answers a /trn and a /search, gives *)
(* each battle its requests and ends it once.  What it has besides for the *)
(* user, it sends at any time and without end; and if the user also plays  *)
(* elsewhere, battles begin that this client has not searched for.         *)

Deliver(m) ==
  /\ connected
  /\ pc \notin {"start", "crashed"}
  /\ Client!Receive(m)
  /\ UNCHANGED <<pc, m_running, m_dirty_ui, stackVars, m_event_queue, connected,
                 shown, posted, ghostVars>>

ServerGreets ==
  \/ /\ srv.chall # {}
     /\ LET c == CHOOSE x \in srv.chall : \A y \in srv.chall : x <= y
        IN  /\ srv' = [srv EXCEPT !.chall = @ \ {c}]
            /\ Deliver([type |-> "challstr", chall |-> c])
  \/ /\ srv.guest
     /\ srv' = [srv EXCEPT !.guest = FALSE]
     /\ Deliver([type |-> "updateuser", named |-> FALSE])

ServerNames ==
  /\ srv.trn
  /\ srv' = [srv EXCEPT !.trn = FALSE]
  /\ Deliver([type |-> "updateuser", named |-> TRUE])

UpdateSearch(games) == [type |-> "updatesearch", games |-> games]

(* The user's searches or battles have changed, or somebody has something  *)
(* to say.                                                                 *)
ServerTalks ==
  /\ Deliver(UpdateSearch(srv.own \cup srv.others)) \/ Deliver([type |-> "chat"])
  /\ UNCHANGED srv

(* The search has found a battle. *)
ServerFindsBattle ==
  /\ srv.search
  /\ \E r \in srv.rooms :
       srv' = [srv EXCEPT !.search = FALSE, !.own = @ \cup {r}, !.rooms = @ \ {r},
                          !.requests = 0]
  /\ Deliver(UpdateSearch(srv'.own \cup srv'.others))

(* A search or a challenge from elsewhere has. *)
ServerStartsElsewhere ==
  /\ Elsewhere
  /\ \E r \in srv.rooms :
       srv' = [srv EXCEPT !.others = @ \cup {r}, !.rooms = @ \ {r}, !.requests = 0]
  /\ Deliver(UpdateSearch(srv'.own \cup srv'.others))

ServerRequests ==
  /\ srv.own \cup srv.others # {}
  /\ srv.requests < MaxRequests
  /\ srv' = [srv EXCEPT !.requests = @ + 1]
  /\ \E k \in Requests :
       Deliver([type |-> "request", kind |-> k,
                moves |-> IF k = "move" THEN srv'.requests ELSE 0])

ServerEndsBattle ==
  /\ \E r \in srv.own \cup srv.others :
       srv' = [srv EXCEPT !.own = @ \ {r}, !.others = @ \ {r}]
  /\ Deliver([type |-> "win"])

(* A read error ends the read loop for good. *)
ConnectionLost ==
  /\ connected
  /\ connected' = FALSE
  /\ UNCHANGED <<pc, m_running, m_dirty_ui, stackVars, m_event_queue, clientVars,
                 srv, shown, posted, ghostVars>>

External ==
  \/ ServerGreets \/ ServerNames \/ ServerTalks
  \/ ServerFindsBattle \/ ServerStartsElsewhere \/ ServerRequests \/ ServerEndsBattle
  \/ ConnectionLost
  \/ LoginServerHangs \/ CloseHangs

Main ==
  \/ Start \/ StartUnresolved
  \/ ProcessMessage \/ NetworkDrained
  \/ PollLayerPush \/ PollLayerPop \/ PollLogin \/ PollBattleSearch \/ PollBattleJoin
  \/ PollCommand \/ LoginName \/ LoginPassword \/ AuthSucceeds \/ AuthFails \/ PollEnds
  \/ (\E c \in Commands : ReadLine(c)) \/ ReadNothing
  \/ Render \/ Shutdown \/ Exit

Next == Main \/ External \/ Ended

Spec == Init /\ [][Next]_vars

(***************************************************************************)
(* The main thread never stops by itself: select() returns within 100 ms.  *)
(* The login server and the peer of the stream may keep it waiting for     *)
(* ever (LoginServerHangs, CloseHangs), and the network owes nothing.      *)
(***************************************************************************)
FairSpec == Spec /\ WF_vars(Main)

-----------------------------------------------------------------------------
(* Types *)

Layers ==
  [kind : {"free", "menu", "login", "battle"}, named : BOOLEAN,
   room : Rooms \cup {None}, force : BOOLEAN, moves : 0 .. MaxRequests, timer : BOOLEAN,
   over : BOOLEAN]

(* The type invariant of the composition. *)
TypeOK ==
  /\ pc \in {"start", "net", "poll", "auth", "input", "render", "stop", "exit", "done",
             "stuck", "crashed", "hung"}
  /\ m_running \in BOOLEAN /\ m_dirty_ui \in BOOLEAN
  /\ Stack!TypeOK
  /\ obj \in [LayerIds -> Layers]
  /\ m_event_queue \in Seq(Events) /\ Len(m_event_queue) <= EventCap
  /\ m_inbound \in Seq(Messages) /\ Len(m_inbound) <= InboundCap
  /\ m_chall_str \in Challenges \cup {None}
  /\ {m_username, m_password} \subseteq Client!Stored
  /\ m_logged_in \in BOOLEAN /\ connected \in BOOLEAN
  /\ spent \subseteq Challenges
  /\ shown \in [layer : LayerIds \cup {None},
                kind : {"none", "menu", "login", "battle"}, moves : 0 .. MaxRequests]
  /\ prompt \in Prompts /\ misled \in BOOLEAN
  /\ lines \in 0 .. MaxCommands

(* One command never opens two screens: whatever is queued or delivered in *)
(* between, at most one login overlay or battle lies on the menu, so that  *)
(* a battle's messages never fall through to the wrong layer.              *)
OneOverlay == Cardinality(overlays) <= 1

(* The application is a client as LayerStack expects one: nothing goes on  *)
(* the stack that is there already, by its address, and no more is taken   *)
(* off than was opened, even where pops take the wrong layer.  What is     *)
(* true of the stack under any such client is true of it here.             *)
UsesStack == Stack!Spec

(* A line goes to the layer that was on top when it was read, although a   *)
(* frame's messages are handled between the two and may end that layer.    *)
CommandReachesReader ==
  \A i \in 1 .. Len(m_event_queue) :
    m_event_queue[i].type = "Command" /\ pc # "done" => m_event_queue[i].reader = Top

(* A full event queue drops what it is given, but never what the user has  *)
(* typed or what a menu command stands for.                                *)
NoInputLost == lost \cap {"Command", "Login", "BattleSearch", "LayerPush"} = {}

(* A LayerPop names a layer that is still there: what is popped is never a *)
(* deleted object, nor a new one at the same address.  Where battles of    *)
(* elsewhere end, several pops may name the one battle on the stack, and   *)
(* the later of them a deleted layer; but never a new one, even then.      *)
PopsAreLive ==
  \A i \in 1 .. Len(m_event_queue) :
    LET e == m_event_queue[i]
    IN  e.type = "LayerPop" /\ pc # "done"
          => e.layer \in ToSet(m_layers) \/ (Elsewhere /\ obj[e.layer] = Free)

(* The rest of this frame will draw the layer on top. *)
ToBeDrawn == m_dirty_ui /\ pc \in {"poll", "auth", "hung", "input", "render"}

(* psapp.cpp polls the input before it draws: what the user looks at while *)
(* typing is the layer on top, or this very frame replaces it.             *)
ScreenIsTop ==
  m_layers # <<>> /\ pc # "crashed"
    => ToBeDrawn \/ (shown.layer = Top /\ shown.kind = obj[Top].kind)

(* Only a request marks a battle for drawing, by an event that goes        *)
(* through the event queue, which may be full: still, whatever came        *)
(* between, the screen offers the moves of the last request that had a     *)
(* content, and a digit is read the way that request wants it, or an event *)
(* that puts the screen right is on its way, if not that request's own.    *)
PromptIsCurrent ==
  BattleOnTop /\ prompt.kind # "nothing" /\ pc # "crashed" /\ m_running =>
    /\ obj[Top].force <=> prompt.kind = "switch"
    /\ \/ shown.moves = prompt.moves
       \/ ToBeDrawn
       \/ pc \in {"net", "poll"} /\ \E i \in 1 .. Len(m_event_queue) :
                                     m_event_queue[i].type # "Command"

(* A choice, a forfeit or a timer command that names a room names the one  *)
(* of the battle the server runs, or it comes after that battle's end: a   *)
(* room never outlives its battle to be used in the next one.  Without     *)
(* battles elsewhere, that is.                                             *)
ChoicesGoToTheirBattle ==
  [][posted' # posted /\ posted'.kind \in {"move", "switch", "bench", "forfeit", "timer on",
                                           "timer off"}
       => posted'.room \in {None} \cup srv.own \/ srv.own = {}]_vars

(* No second search: this client asks for a battle only when the server    *)
(* has none for it from an earlier search, nor such a search; neither a    *)
(* late command nor a lost message can make it.  The one thing that can is *)
(* a battle from elsewhere: its end closes whatever battle is on screen,   *)
(* since the layer does not look at the room of a win.                     *)
SearchOnlyWhenIdle ==
  [][posted' # posted /\ posted'.kind = "search" => ~OwnPending \/ misled]_vars

(* Only battles from elsewhere mislead the client. *)
OwnEndsOnly == Elsewhere \/ ~misled

(* The name and the password that request_assertion() is given are what    *)
(* the user typed last, in this order and each cut at 31 characters,       *)
(* across failed attempts and overlays.                                    *)
UsesLastTyped ==
  pc = "auth" => <<m_username, m_password>> = <<Client!Clip(typed[1]), Client!Clip(typed[2])>>

(* A challenge is good for one /trn (psclient.cpp: "we only need to verify *)
(* chall str once"), and only an assertion the login server has signed is  *)
(* sent with it, whatever failed attempts came before.                     *)
SignedOncePerChallenge ==
  [][posted' # posted /\ posted'.kind = "trn"
       => posted'.assertion = "signed" /\ m_chall_str \in Challenges \ spent]_vars

(* psclient.cpp resets name, password and challenge "for security": its    *)
(* two buffers hold a name or a password only while a login overlay is     *)
(* there.  (The input history and the log keep what was typed.)            *)
CredentialsOnlyDuringLogin ==
  pc # "done" /\ (m_username # None \/ m_password # None)
    => \E i \in 1 .. Len(m_layers) : obj[m_layers[i]].kind = "login"

(* Once the user quits, the program ends, unless the "q" was taken for the *)
(* password and the login server never answers, or the peer of the stream  *)
(* never answers the closing handshake.                                    *)
QuitEnds == (~m_running /\ pc # "start") ~> (pc \in {"done", "crashed", "hung", "stuck"})

(* The main thread is kept in the loop of process_network() by messages    *)
(* that never cease to come.                                               *)
Flooded == [](pc = "net") /\ []<>(m_inbound # <<>>)

(* What the user typed, and what came of it, is handled in the end, until  *)
(* the user quits or a login hangs: only a server that talks without end   *)
(* can put it off for ever, since one loop drains m_inbound before the     *)
(* events have their turn.                                                 *)
EventsAreHandled ==
  m_event_queue # <<>>
    ~> (m_event_queue = <<>> \/ ~m_running \/ pc \in {"crashed", "hung"} \/ Flooded)

-----------------------------------------------------------------------------
(* What comments of the program say. *)

(* psapp.h: "MenuLayer: bottom of stack, always present"; psapp.cpp: "menu *)
(* is always at the bottom of layer stack"                                 *)
MenuAlwaysPresent ==
  \/ \E i \in 1 .. Len(m_event_queue) : m_event_queue[i].type = "LayerPush"
  \/ pc \in {"done", "crashed"}
  \/ /\ m_layers # <<>>
     /\ obj[Head(m_layers)].kind = "menu"

(* psapp.h, on BattleLayer: "popped by PsApp when win/tie received" *)
EndedBattlesArePopped ==
  pc = "input" /\ m_running => \A i \in 1 .. Len(m_layers) : ~obj[m_layers[i]].over

(* Both hold as long as one overlay at most has come to its end, a battle  *)
(* and not a login, and its LayerPop did not meet a full queue: pop_layer  *)
(* misses the battle and then removes what lies at the offset, the battle. *)
FirstBattleEndsWell ==
  spent = {} /\ Cardinality(Rooms \ srv.rooms) <= 1 =>
    /\ MenuAlwaysPresent
    /\ "LayerPop" \in lost \/ EndedBattlesArePopped

=============================================================================
