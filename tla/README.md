# A verification project for pokemon-showdown-cli

TLA+ models of the terminal client for Pokemon Showdown, checked by TLC and,
where the result matters for every size of the system, proved with TLAPS. Paths
below are relative to `src/` of the repository (its sources are `src/src/...` in
`PROJECT.json`).

Contents: [the system](#1-the-system), [the plan](#2-the-plan),
[module by module](#3-module-by-module), [the runs](#4-the-runs),
[bounds](#5-bounds), [fairness](#6-fairness), [proofs](#7-proofs),
[what the code does that its text denies](#8-findings), [not modelled](#9-what-is-not-modelled).

## 1. The system

The program has two threads. The **main thread** runs the frame loop of
`PsApp::run`: drain the messages that came from the network, drain the event
queue, wait up to 100 ms for one input line, draw the layer on top. The
**network thread** runs one Boost.Asio `io_context`: it reads WebSocket frames,
parses them, and writes what the main thread asked it to send.

    terminal --line--> CLInput --Command--+                    +--> network thread
                                          v                    |    (strand, write queue)
      PsApp: m_event_queue --> poll() --> LayerStack --> layers: send()
         ^                                  Menu / Login / Battle
         |  LayerPush, LayerPop, Login,       |
         +--BattleSearch, BattleJoin----------+
      PsClient::poll() <-- m_inbound (SPSCQueue) <-- read loop <-- frames

| component | state | operations | what makes it correct |
|---|---|---|---|
| SPSC queue (`core/thread/queue.h`) | ring, head, tail | `push`, `pop` | no two threads at one slot; a FIFO of capacity - 1; nothing accepted is lost |
| Layer stack (`core/layerstack.*`) | vector of layers, offset of the first overlay | `push_layer`, `push_overlay`, `pop_layer`, `pop_overlay`, destructor | layers below overlays; a pop removes what it names and nothing else |
| Application (`app/psapp.*`, `main.cpp`) | run flag, dirty flag, event queue, stack, client | `init`, the four phases of a frame, `shutdown`, `on_event` of three layers | input reaches the layer it was meant for; one overlay at a time; the menu stays; what ended is popped; the screen is current; the loop ends |
| Login client (`protocol/psclient.*`) | inbound queue, challenge, name, password, logged-in flag | `start`, `stop`, `poll`, `send`, `set_username`, `set_password`, `try_login` | name, password and challenge of one attempt belong together; a challenge is used once; nothing is kept after the login |
| Login server call (`net/auth.*`) | none | `request_assertion`, blocking, no timeout | of all answers only a signed assertion gets through |
| WebSocket client (`net/wsclient.*`) | strand, write queue, read buffer | `send`, `do_write`, `start_read_loop`, `close` | one write at a time; ordered, once each; `close` alone with the stream |
| Connection set-up (`net/connection.*`, `net/sslcontext.*`) | resolver result, TLS stream | `resolve`, `connect` in three steps | the network thread runs on connected streams only |
| Battle state (`protocol/battlestate.*`) | two teams, turn, moves, force-switch flag | `apply` of six messages, `apply_request` | each team holds its own pokemon, one of them active |
| Parser (`protocol/parser.*`) | none | frame to messages | - |
| Terminal input (`input/*`) | a linenoise session | `poll`: one line or none | - |
| Events (`core/event/*`) | none | records, dispatcher | top layer first, first handler wins |
| Format registry, utilities, logger, configuration | none of importance | | |

How they interact:

- *Shared between the threads*: `m_inbound` (lock-free, network thread pushes,
  main thread pops), the strand's queue (`post` from the main thread), the
  stream (network thread until it is joined, then `close()` on the main
  thread), the `io_context` (`stop()` from the main thread).
- *Within the main thread*: layers never change the stack or the run flag
  themselves. They submit events, which are handled in the next `poll()` phase;
  a `LayerPop` carries a raw pointer through the queue. Messages are given to
  the layers at once, commands only when their event is popped.
- *Blocking calls*: the main thread waits for the login server, in `stop()` for
  the network thread, and in `close()` for the peer, each without a timeout.
  Meanwhile `m_inbound` fills and then drops messages.

Hard to test, and what the properties are for (each with its line in
`PROJECT.json`, "hazards"): interleavings of `push` and `pop` with indices that
are stale; messages that arrive between the reading of a line and its handling;
pointers in the event queue that outlive their layers; the unsigned offset of
the stack below zero; login attempts that fail and start over, against
challenges that change meanwhile; sends while a write is under way, after one
has failed, or after the connection is gone; shutdown at any moment; the two
queues when they are full, and what the battle looks like after a message was
dropped; a screen that is older than what a command is read by, or than the last
request; battles that were begun elsewhere and end on the wrong screen.

## 2. The plan

Order: what every other part stands on first (the queue), then the part the
program's behaviour is decided in (stack, login, main loop), then the network
side, then the data side.

| | module | models | abstract specification | state |
|---|---|---|---|---|
| 1 | `SPSCQueue` | the ring at the grain of memory accesses | `BoundedFifo` | checked, proved |
| 2 | `LayerStack` | the stack for any client | `LayerHalves` | checked, proved |
| 3 | `PsClient` | login state, login server call, inbound queue | uses the FIFO of 1 | checked and proved within 4 |
| 4 | `PsApp` | frames, events, layers, screen; composes 2 and 3 | what `LayerStack` expects of a client | checked, safety proved |
| 5 | `WsClient` | connection set-up, the network thread and its shutdown | `OutChannel` | checked, safety proved |
| 6 | `BattleState` | teams, switches, requests, missed messages | the battle as the server announced it | checked, proved |
| 7 | `Parser` | a frame to its messages, an ident to its parts | a reference definition by positions | checked, proved |

Theorems, in order of worth, each for every value of the constants:

1. `SPSCQueue`: type, slot discipline, absence of races, refinement of
   `BoundedFifo`. *Done.*
2. `LayerStack`: type, `LayersBelowOverlays`, `NoOverlayBelowOffset`,
   `StaysInStep`, refinement of `LayerHalves`. *Done.*
3. `WsClient`: type, `OneWriteAtATime`, `CloseAlone`, `InboundInOrder`,
   refinement of `OutChannel`. *Done.*
4. `PsApp`: all its invariants and action properties; that it is a client of the
   stack as `LayerStack` has it. *Done*, three of them for a user who plays here
   only.
5. `BattleState`: all the invariants of its passing run. *Done.*
6. `Parser`: that the scan of `split()` finds the tokens of the reference
   definition, and both invariants of its run, for texts of any length. *Done.*
7. Left: what `PsApp` and `WsClient` ask of the queue between the threads
   (`InboundCap`, a refused `push`) from the refinement of `BoundedFifo` without
   stale loads. Both take one call on it as one step.

## 3. Module by module

### SPSCQueue, BoundedFifo, SPSCQueueProofs

`push()` is three steps (load both indices and test, write the slot, store the
tail), `pop()` likewise; a step may be interrupted by any step of the other
thread. An acquire load may return any value the other index has had since this
thread last saw it (`StaleLoads`), which is all that acquire/release on a single
writer's index guarantees. A slot that was moved from is `Blank`. `BoundedFifo`
has `Put`, `Refuse`, `Get`, `Miss` as single steps; the refinement lets a
`push` take effect at its store of the tail and a `pop` at its store of the
head, and `Lossy` says whether failing without a reason is allowed, which it is
exactly when loads may be stale.

### LayerStack, LayerHalves, LayerStackProofs, OrderLemmas

The vector, the offset, and as history which layers came through
`push_overlay`. The offset is unsigned: it is kept modulo `Modulus` (2^32 in the
program). Once it has wrapped, `begin() + offset` lies outside the vector; the
searches that use it are undefined, and the model allows what a build can do:
find nothing, or fault. The client is arbitrary: it pops layers with the wrong
operation and layers that are no longer there. `pop_layer` and `pop_overlay` are modelled as written,
with the comparison of the found iterator against `end()` although the search
of `pop_layer` ends at the offset. `LayerHalves` is what `layerstack.h` describes
in its comment: layers in the first half, overlays in the second, each popped by
name. The refinement follows it until a pop removes an overlay, which sets the
offset wrong for good (`StaysInStep` says that nothing else does) and is mapped
to the abstract stack being closed. `OrderLemmas` is about positions in
sequences (the least of a set of numbers, the k-th position that passes a test,
what `RemoveAt` leaves where) and serves all the proofs outside the queue's and
`WsClient`'s.

### PsClient, PsApp, PsAppMC, PsAppLemmas, PsAppProofs

`PsApp` instances `LayerStack` (the vector) and `PsClient` (login state and
inbound queue) over its own variables, so that one step of the main loop is one
handler with all it does to the three. The phases are values of `pc`:

| `pc` | code |
|---|---|
| `start` | `init()` has run; `m_client->start()` is next |
| `net` | `process_network()`: one `ProcessMessage` per message, `NetworkDrained` at the end |
| `poll` | `PsApp::poll()`: one action per event type; `PollEnds` for the end of its loop, which takes one more event with it when the program is to exit |
| `auth` | inside `try_login()`, waiting for the login server |
| `hung` | the same, for ever (`LoginServerHangs`) |
| `input` | `CLInput::poll()`: a line or none |
| `render` | `on_render()` and the loop's test |
| `stop`, `exit`, `done` | `shutdown()`, return from `main()`, end |
| `stuck` | inside `shutdown()`, where `close()` waits for the peer for ever (`CloseHangs`) |
| `crashed` | undefined behaviour after which nothing is known |

`push_to_layers` is `Reached` (who is called, from the top down, until one
handles the event) with `Submissions`, `Reactions` and `BattleSends` (what the
handlers answer). A layer object lives at an address of `LayerIds`; popped ones
become `Free` and may be allocated again, so a pointer in the queue can go stale.
Messages and commands keep what the handlers tell apart: a challenge, whether a
name is registered, the games of an `updatesearch` (none, one or several; the
layer takes the first key, `NamedRoom`), what a request asks for and which of the
battle's requests its moves came with; a command is one of the words the layers
compare with, or a name or password. A request without JSON takes nothing back:
`ApplyRequest` leaves moves and force flag as they are, as `battlestate.cpp:49`
does, and `BattleJoin` is submitted all the same.
`tokenize()` is `NumTokens`/`FirstToken` of these words. The screen (`shown`) is
the layer that drew it, its kind (another layer may get the same address) and
the moves it offered.
`posted` is what the step has given to `WsClient::send`. `typed`, `prompt`,
`misled`, `lost`, `lines`, `spent`, `over` and `reader` are history and guard
nothing but the bound on typed lines: `prompt` is the last request with a content
that reached the battle on top, and `misled` says that a win of another battle was
handled while this client had a search, or a battle found by one, under way.
`PsAppMC` adds the symmetry of addresses for TLC.

`Responses` are the answers of the login server that `request_assertion` tells
apart, and `RequestAssertion` is what it makes of them; `AuthSucceeds` and
`AuthFails` are what `try_login` and the overlay do with the result.

The server (`srv`) is external. It sends each challenge once, answers `/trn` and
`/search`, gives a battle a room and its requests, in any order of kinds, and ends
it once. What it has for the user besides (`ServerTalks`: an `updatesearch` of the
games as they are, or a message no layer looks at) it sends at any time and
without end. With `Elsewhere` the user also plays from somewhere else: battles
begin that this client has not searched for, before its first search too and
several at once, and each of them is announced to it and ends on it
(`srv.others`; those found by its own searches are `srv.own`). The connection may
end at any moment. The server's battle timer is not modelled: nothing in the
repository says how it stands when a battle begins, nor who else may touch it.

### WsClient, OutChannel, WsClientProofs

`main` and `thread` are the two threads, `stream` is what `m_websocket` is and how
far it has come: `Resolve` is the constructor (no endpoint, no stream), `Connect`
the three steps of `connect()`, of which the first that fails decides what the
stream is left as; an operation that fails leaves it "failed", and Beast then
does not call it open. `ConnectNull` is the null dereference when the host did
not resolve. A handler of the `io_context` is one
step of the network thread, enabled while the `io_context` is not stopped. The
handler of a frame is the exception, since it shares `m_inbound` with the main
thread: it starts (`HandleFrame`), pushes message by message (`PushMessage`), and
reads again (`ReadAgain`); between two pushes the main thread may poll, so that of
one frame the first message may be refused and the second accepted, and no other
handler runs before it is over (`Free`). `posted` are the handlers `send()` posted to the strand. `async_write` and
`async_read` make their way outside and then have their handler run; either may
fail. `stop()` is three steps (stop the `io_context`, join, close), and `close()` of
an open stream two, between which the peer may never answer (`silent`). `run()` may
also return by itself, when the read loop has ended on an error and nothing is
left to do: messages sent from then on are posted to an executor nobody runs.
`OutChannel` is an ordered channel that breaks once and for good.

### BattleState, BattleStateMC, BattleStateProofs

`srv` is the battle as the server has announced it so far (order of each team,
the first one in battle; hit points; who has been out; who has fainted); one step
is one message, by which both `srv` and the client's teams change. Whether the
first request comes before the leads (`late` false: a battle just found) or after
a replay (`late`: the user searched while a battle was under way, and
`updatesearch` named that one) is chosen at the start. `Apply...` are the
handlers, `Send...` the server's messages. A message may be missed (`heard` is
false): refused by a full `m_inbound`, or of a type that `apply()` does not know,
as `-sethp` is. `stale` keeps what the client then cannot know: the hit points of
one pokemon, or who is in battle on one side, until a message about it is heard.
Integers that the code does not initialize are right or wrong by chance (`Junk`).
`BattleStateMC` adds the symmetry of names.

### Parser, ParserProofs

Text is a sequence of characters. `Split` is the scan of `split()`, one recursive
function; the loop of `parse_message` is one step a line; `ParseIdent` is
`parse_ident`. The reference definitions do not scan: the k-th token is what lies
between two neighbouring delimiters, a room is the last one named above.

## 4. The runs

| run | asks |
|---|---|
| `queue` | Is the ring race-free, a FIFO under stale loads, and is what was accepted taken in the end? Yes: `NoSlotRace`, `SlotDiscipline`, `ImplementsFifo`, `ImplementsFairFifo`. That without stale loads `push` fails only on a full ring is in the theorem, which covers both values of `StaleLoads`. |
| `stack` | Does the stack stay ordered for a client that pops the wrong way, twice, and below zero? Yes: whatever is removed, layers stay below overlays, until the offset wraps nothing below it is an overlay, and until an overlay is removed the halves are independent. The program does remove overlays (section 8). |
| `app_battle` | Searches, battles, their ends, one after another, with commands and messages in every order and both queues overflowing: no input is lost, every queued `LayerPop` names a layer on the stack, the screen offers what the last request with a content asked for, or an event that makes it do so is queued (empty requests and refused events included), and a room in a choice is that of the battle it is meant for. Up to the end of the *first* battle the menu is there and ended battles are popped: two mistakes cancel out, see section 8. And `PsApp` refines `LayerStack` (`UsesStack`): it never pushes what is there already, nor pops more than was opened. |
| `app_elsewhere` | The same loop for a user who also plays from somewhere else, with a battle under way before the first search, or two at once: at most one overlay, a command is handled by the layer that was on top when it was read, and the screen shows the top layer or is replaced in this frame. A second search can be sent, but only after the end of a battle from elsewhere has closed the screen of the client's own (`misled`); `OwnEndsOnly`, in `app_battle`, says that nothing else sets that flag. |
| `app_login` | Attempts that fail and succeed, every kind of answer, two challenges: what `request_assertion` is given is the name and the password typed last, a `/trn` carries a signed assertion for a challenge not used before, and neither buffer of `PsClient` holds a name or a password longer than the login overlay is there. |
| `app_live` | After "q" the program ends, unless the login server never answers, or the peer never answers the closing handshake. What the user typed, and what came of it, is handled in the end, unless a login hangs, or a server that never pauses keeps `process_network()` in its loop: the property names this way out (`Flooded`), and the server of the run does take it, since `ServerTalks` never ends. |
| `ws` | A connection that comes about or not, sends, frames, failures of either direction, a peer that falls silent and a stop at any moment: one write at a time, nothing overtaken, doubled or lost while the link is up, nothing after it failed, the main thread alone at `connect()` and `close()`, inbound messages in order, any of them missing for which the queue was full, from the middle of a frame too; everything sent leaves on a healthy link, and `stop()` returns, or waits in `close()` for a silent peer and nowhere else. |
| `battle_right` | Does the client show what the server said? In a battle just found, of both teams; in one joined late, of the own team, and of the opponent's from its next switch on; what a missed message leaves wrong is put right by the next one about it. Never two pokemon in battle, never one twice, never an own one among the opponent's. |
| `parser` | Is every short frame and ident taken apart as the reference says? Yes. |
| `app_menu_gone`, `battle_leads`, `battle_slots` | Violations, section 8. |

Every property of a passing run has a mutant: an operator beside the definition
it changes, named after it and commented "Mutant:", which the run must catch.

## 5. Bounds

| constant | value | why it is enough |
|---|---|---|
| `Capacity` | 5 | the ring wraps with every fill level; the proofs cover every capacity |
| `LayerIds` | 2 to 4 | menu and two more; four let two layers and two overlays meet |
| `Modulus` | 64 | far above any size reached, so wrapped and unwrapped offsets never meet, as with 2^32 |
| `MaxUnderflow` | 3, in `PsApp` the number of commands | how far below zero the offset goes; one is enough to leave the vector |
| `EventCap`, `InboundCap` | 2, inbound 1 in `app_elsewhere` (63 and 255 in the program) | small on purpose: overflow is then part of every run. 4 in `app_menu_gone`, where a dropped `LayerPop` would be another matter |
| `MaxCommands` | 3 to 7 | seven is a failed and a successful login with an overlay reopened between |
| `Rooms` | none to two | as many battles as rooms, one after another or, in `app_elsewhere`, at once; the second battle is where the stack's offset has wrapped, where a room of the first would be wrong, and where one of elsewhere meets one of this client |
| `Elsewhere` | true in `app_elsewhere` | see `srv.others` in section 3 |
| `MaxRequests` | 0 to 2 | a request and one that changes it, or that is empty |
| `Challenges` | none to two | the second one arrives before, during or after the first login |
| `MaxSends`, `MaxReceived`, `FrameSizes` | 4, 4, {1, 2} | one write under way, one queued, one posted and one still to come; a frame that fits half |
| `Names`, `TeamSize`, `MaxHp` | 3, 2, 2 | leads of one name or of two; a hit that hurts and one that kills; one on the bench |
| `MaxMessages` | 8 | request, leads, and five more: a faint, its replacement, a return |
| `MaxMissed` | 1, and 0 in the violations | one gap, and room for the messages that close it; the first request and a lead may be the ones missed |
| `MaxText`, `MaxIdent` | 6 | two lines with a field each, or a room and a message; an ident with a slot, a space and a colon in its name |

The bounds on what user, server and peer do stand in the guards of `ReadLine`,
`ServerFindsBattle` and `ServerStartsElsewhere` (each room once), `ServerRequests`,
`Send`, `FrameArrives` and `Announce`, that of `LayerStack` in `MayUnderflow`.
Chatter of the server has no bound but that of the inbound queue.

## 6. Fairness

- *Queue*: both threads finish a call they have begun, and the reader polls
  without end, as the main loop does. Writers owe nothing: weak fairness is on
  the inner steps of `push` and on `pop` only.
- *Main loop*: weak fairness of the main thread as a whole. `select` returns
  within 100 ms, so `input` never blocks; the network thread owes nothing. The
  login server may never answer (`LoginServerHangs`, not fair): the code sets no
  timeout, and the liveness properties name this way out. Nor need the peer answer
  the closing handshake of `shutdown()` (`CloseHangs`, not fair either, possible
  while the connection is up): `QuitEnds` allows for `stuck`. Where in `stop()` and
  `close()` the wait is, and that there is no other, is for `WsClient` to say. No
  fairness says *how* a login ends, or that anything arrives, or that it ever
  ceases to arrive.
- *Network thread*: it runs its handlers in time, those of posts and writes in
  spite of frames that keep coming (strong fairness, since the handler of a frame
  holds them up for a few steps each time; the executor is first come, first
  served), it finishes the handler it has begun, `run()` returns once stopped,
  and a started `async_write` ends, well or badly (TCP gives up in the end). A
  read owes nothing. A peer that has not fallen silent answers the closing
  handshake or cuts it off; a silent one owes nothing, and `StopReturns` says that
  waiting for it in `close()` is the only way for `stop()` not to return.

## 7. Proofs

`SPSCQueueProofs` (TLAPS), under `QueueAssumption` alone: the capacity is a
natural number above 0 and `Blank` is not a value.

- `TypeCorrect`: `Spec => []TypeOK`.
- `SlotDisciplineHolds`, `SlotRaceFreedom`: `Spec => []SlotDiscipline`,
  `Spec => []NoSlotRace`.
- `RefinesFifo`: `Spec => ImplementsFifo`.

None of the invariants is inductive alone. The strengthening `IInv` says where
every index may be: what a thread remembers of the other's index lies, around the
ring, between what it was and what it is; so the slots from head to tail are
filled, the others blank, and a thread that passed its test may still rely on
it, because the other thread can only have made more room (or more values) since.
That the test was made on an old index is thus harmless, and is the reason the
stale loads are part of the invariant rather than an afterthought. `IInv` is
preserved by one case per action; the arithmetic of the ring (distances modulo
the capacity, without `%`) is in lemmas. The refinement needs in addition that
the sequence of occupied slots grows at the tail by `PushPublish`, loses its
first element by `PopPublish`, and is not changed by any other step, the one that
moves the value out included.

`LayerStackProofs`, under `StackAssumption`: finitely many layers, and an offset
with more values than there are layers and permitted steps below zero.

- `TypeCorrect`: `Spec => []TypeOK` (TLC checks it as a part of `PsApp`'s).
- `LayersStayBelow`: `Spec => []LayersBelowOverlays`.
- `OffsetIsSafe`: `Spec => []NoOverlayBelowOffset`.

`NoOverlayBelowOffset` is not inductive: it says nothing of an offset outside the
vector, which a later push could bring back in. `IInv` adds `OffsetKnown`: the
offset is in the vector with only layers below it, or it is one of the
`MaxUnderflow` values below zero, modulo `Modulus`. Nothing in between is possible
because the vector is shorter than that, which needs its elements to be distinct
(`Distinct`, what the client guarantees by pushing no layer twice) and
`FS_Injection`. The steps are one lemma per operation over position-by-position
lemmas on `InsertAt`, `RemoveAt` and `Find`; both pops share `EraseStep`, where any
element may go and the offset drops by one, so the proof covers the wrong element
going as well as the right one.

The second part of `LayerStackProofs`, under the same assumption:

- `OnlyOverlayPopsUnsettle`: `Spec => StaysInStep`.
- `RefinesHalves`: `Spec => ImplementsHalves`.

The layers are exactly the first `Count` positions of the vector
(`CountIsBorder`, from `LayersBelowOverlays`). The offset is `Count` until a pop
removes an overlay; from then on it lags behind (`OffsetLags`) or has wrapped, and
no operation brings the two together again (`NeverBackInStep`), which is what
allows the abstract stack to stay closed. Until then the vector, split at the
offset, is the pair of halves, and each operation on it is the operation on one
half (`SplitOfInsertion`, `SplitOfAppend`, `SplitOfRemoval`).

`WsClientProofs`, under `WsAssumption` (bounds and frame sizes are numbers):

- `TypeCorrect`: `Spec => []TypeOK`.
- `WritesAreSerial`: `Spec => []OneWriteAtATime`.
- `ThreadsTakeTurns`: `Spec => []CloseAlone`.
- `ReadsInOrder`: `Spec => []InboundInOrder`.
- `RefinesChannel`: `Spec => ImplementsChannel`.

`IInv` has a part for each chain of handlers. `LinkInv` says how far the main
thread must have come for there to be a stream and a thread. `WriteInv` ties the
write under way to the queue: its buffer is the front, so the queue is not empty,
and there is one write or none. `ReadInv` orders what was polled last, what is in
the queue, and what the handler of the frame has still to push, in this order; it
holds between any two pushes, whatever the main thread has polled in between and
whichever messages the queue has refused. For the refinement,
the messages on their way are the queue followed by what is posted to the strand
(less the front, once it has left): the strand's handler moves the border between
the two, and only a write that leaves takes one off.

`BattleStateProofs`, under `BattleAssumption` (a team is no larger than the set of
names, hit points and bounds are numbers):

- `TypeCorrect`: `Spec => []TypeOK`.
- `TeamsAreSound`: `Spec => []OneActive`.
- `YourTeamStaysRight`: `Spec => []YourTeamIsRight`.
- `OpponentStaysRight`: `Spec => []OpponentIsRight`.
- `OpponentSettles`: `Spec => []SettlesWithSwitch`.

The handlers work on the first entry that has a name; the lemmas about them
(`HpByName`, `FaintByName`, `SwitchByName`, `WithoutSideKeeps`) say what they do to the
entry of each name, and the steps are proved from these alone. What the
properties say of a team is too weak to be kept: a pokemon that fainted counts as
right with any flag, but a revival would then show two in battle. `Shows` therefore
also says that, on a side whose lead is known, nobody but the lead is shown in
battle, fainted or not. Names whose hit points were missed are *unsure*, a side
whose switch was missed is *adrift*, and the next message about them ends this.
`SideKnown` says that the own side is unknown, with an empty team, or the right
one; `OpponentsOut` and `OpponentShows` say who can be on the other team, before
and after the first request erases the own lead from it; `LeadShown` is what the
opponent's next switch restores.

`PsAppLemmas` and `PsAppProofs`, under `AppAssumption` (queues of at least two
events and one message, finitely many addresses, an offset that cannot wrap onto
itself within the permitted commands, `None` among neither addresses, rooms nor
challenges):

- `TypeCorrect`: `Spec => []TypeOK`.
- `AtMostOneOverlay`, `CommandsReachTheirReader`, `QueuedPopsAreLive`,
  `InputIsNeverLost`: `Spec => []OneOverlay`, `[]CommandReachesReader`,
  `[]PopsAreLive`, `[]NoInputLost`.
- `LastTypedIsUsed`, `CredentialsAreForgotten`: `Spec => []UsesLastTyped`,
  `[]CredentialsOnlyDuringLogin`.
- `ScreenShowsTop`, `PromptStaysCurrent`: `Spec => []ScreenIsTop`,
  `[]PromptIsCurrent`.
- `OwnEndsAreTheirs`: `Spec => []OwnEndsOnly`.
- `NoSecondSearch`, `TrnIsSignedAndSingle`, about steps: `Spec =>
  SearchOnlyWhenIdle`, `SignedOncePerChallenge`.
- Under the further assumption `~Elsewhere`, that no battle begins elsewhere:
  `FirstBattleIsPopped`, `Spec => []FirstBattleEndsWell`, and
  `ChoicesStayInTheirRoom`, `Spec => ChoicesGoToTheirBattle`. All the others but
  `UsesTheStack` below hold with such battles as well as without.

Four of these hold only together, because what keeps a second overlay away is
the order of events in the queue. `Shape` says that the stack is empty, a menu, an
overlay, or an overlay on a menu, and that no other layer exists. `QueueShape`
says which events may be queued over it: one that opens a screen is alone in the
queue and was typed at the menu; a `LayerPop` names the layer on top, and is that of
a login (and alone) or of a battle; what the user typed is at the head, because
the queue was empty when the line was read. From this every handler finds the
stack it was meant for. Where battles end elsewhere, several `LayerPop`s may name
the one battle on the stack, and the later ones then name nothing (`Gone`): all that
lies there is the menu or less, and no screen is opened before they are handled.
The rest has a part per concern: `OneEnd` (without battles elsewhere, a battle
has one search, one end, one pop, and never two of these at once), `MisledInv`
(with them, a battle of this client has a screen and no pop, or the client has
been misled), `RoomsInv` (who can know of a room yet), `NameInv`, `ChallInv` (a
challenge is in one place only), `PromptInv` (the battle on top is as its last
request with a content wants it, and what the screen still lacks is marked). Each part is preserved by one lemma per handler over
lemmas that say what the handler changes (`MessageChanges`, `CommandChanges`,
`LayerPopChanges`, ...). `FirstBattleEndsWell` needs `FirstInv` besides: up to the
end of the first battle, with no login before, the offset is 1 whenever the menu is
there, so the search that fails returns the position of the battle
(section 8). The queues may have any capacity from two on: a refused `LayerPop`, win
or search answer is one of the cases.

- `UsesTheStack`, again under `~Elsewhere`: `Spec => UsesStack`, the composition. `UsesStack` is the
  specification of `LayerStack` itself, over the variables of `PsApp`.

`LayerStack` speaks of any client that pushes a layer once and drives the offset no
further than `MaxUnderflow` below zero; `PsApp` puts the number of lines typed for
that bound, and has to keep it although its pops take the wrong element. That a
pushed layer is new follows from `Shape`. For the pops, `BudgetInv` reads off the
offset how many elements were erased (it is 1 after the menu is pushed, and only
`Erase` lowers it): no more than lines were typed, and fewer while a screen is
*owed*, that is, asked for by an event in the queue, or on its way to being closed
(a login overlay, a search, a battle, its win, its `LayerPop`). This is where a
battle from elsewhere would not do: its end is a pop for which no line was typed.
`PopIsOwed` shows
that every pop is of a screen that is owed, `LayerPopBudget` that nothing is owed
after one that erased something, and each handler's lemma that only a typed line
makes something owed anew. With this, `LayersStayBelow`, `OffsetIsSafe`,
`OnlyOverlayPopsUnsettle` and `RefinesHalves` are facts about the stack inside the
program.

`ParserProofs`, under `ParserAssumption` (the bounds on texts are numbers), so for
texts of any length over any characters:

- `SplitIsTokens`: `Split(s, d) = Tokens(s, d)` for every text and delimiter.
- `FramesAreRead`: `Spec => []FramesParseAsLines`.
- `IdentsAreReadBack`: `Spec => []IdentsReadBack`.

`Split` is a recursive function, and no theorem of the library says that the
recursion has a solution without an induction over an operator. It is not needed:
the tokens from each position on, defined by positions, satisfy the equation of
the scan, so a function that does exists and the one `CHOOSE` picks satisfies it
too; if the two differed anywhere, there would be a last such position
(`LeastNatural` of `OrderLemmas`, counted from the end), where the equation makes
them equal after all. `LoopInv`, checked by TLC as well, says what the loop of
`parse_message` has done after each line: the lines left are a suffix of the
frame's, the messages so far are those of the lines before it, and the room is the
one named last among these. `IdentsAreReadBack` works on positions only: `find` of
the colon, the blanks skipped behind it, the two pieces cut out.

Every inductive invariant was checked by TLC before it was proved.

Only model-checked, and why:

- liveness (`QuitEnds`, `EventsAreHandled`, `StopReturns`) and the refinements with
  fairness (`ImplementsFairFifo`, `ImplementsFairChannel`): fairness and ENABLED
  are out of the prover's reach;
- the three violations, which are refuted and not proved.

## 8. Findings

1. **The end of a battle deletes the menu** (`app_menu_gone`). `psapp.h:65` says
   the menu is "always present". A battle is pushed with `push_overlay` but pops
   itself with `LayerPopEvent(this, false)`, so `pop_layer` looks for it. With
   menu and battle in the vector and the offset at 1, the search covers the menu
   only, fails with an iterator to position 1, which is not `end()`, so the
   element there, the battle, is removed: the right one, by luck. The offset is
   decremented to 0. At the next battle's end the search is empty, returns
   `begin()`, which is the menu; the menu is deleted, the offset wraps, and the
   ended battle stays on top, although `psapp.h:194` says it is "popped by PsApp
   when win/tie received". A login before the first battle has the same effect as
   a first battle: `pop_overlay` decrements the offset too.
   `FirstBattleEndsWell` shows how far the luck reaches.
2. **The opponent's lead is lost** (`battle_leads`). Until the first request the
   client does not know its side, so both leads go to the opponent's team, and
   the comment at `battlestate.cpp:57` says that the own one is erased
   afterwards. If both leads have one name they share one entry, with the ident of
   the first: it is erased when that one was ours. If the names differ and ours
   is `p2`, its switch has marked the opponent's lead as not in battle, and the
   erasure leaves it so. `SettlesWithSwitch` shows that the next switch of the
   opponent puts this right.
3. **Slots go stale** (`battle_slots`). The screen numbers the own team
   (`psapp.cpp:121`) for "[s<1-6>] Switch" (`psapp.cpp:144`). The server goes by
   the order of its last request, in which the pokemon in battle comes first;
   the client keeps the order of the first one. That the server counts this way is
   knowledge about the server, not about this repository.

A remark beside these: the login screen offers "[b] Back to Main Menu"
(`psapp.cpp:77` and `:91`), but `LoginOverlay::on_event` has no such command. The
model follows the code: `LoginName` takes "b" for the name.

## 9. What is not modelled

- *Names, passwords and what reads them*: the form of `auth.cpp:27` is put together
  without escaping, so the login server may read another name or password than
  was typed. The model ends where `request_assertion` is given its arguments, and
  lets any answer come whatever was asked. The input history (`cl_input.cpp:49`) and
  the log keep what was typed; `CredentialsOnlyDuringLogin` is about the two buffers
  of `PsClient`.
- *Malformed messages*: a challstr has both its arguments (`psclient.cpp:97` reads
  them unchecked); what the server may leave out is not in the repository.
- *The server's timer*: see section 3. The flag of "t" and the command it sends are
  modelled.
- *The room of a choice made before one is known*: it is sent without a room, to the
  lobby, and no property says that it may not. With several games at once the layer
  takes the first; choices may then go to the wrong one, which is why
  `ChoicesGoToTheirBattle` is stated for a user who plays here only.
- *The battle inside the application*: `PsApp` keeps of it what a request asks for
  and whether there are moves to show, `is_force_switch()` uninitialized as in the
  code; `BattleState` models the rest by itself. Requests are complete: a move
  without "pp", which `battlestate.cpp:103` cannot read, is a hazard without a
  property, because what the server leaves out is not in the repository.
- *Inside the libraries*: resolver, TCP, TLS and HTTPS are outcomes; so is a write
  that `stop()` cuts in the middle, after which the closing frame means nothing to
  the peer (it ends as any failed closing handshake does).
- *Lines that begin with a blank*: commands are words; `psapp.h:232` takes the first
  character of the line where the test is on the first word.
- *linenoise*, the vendored line editor, and the unused deferred redraw of
  `CLInput`: line editing is its own, and the program sees a line or none. Key
  events and event categories are declared and never used.
- *What screens look like*: a drawing is the layer that made it and its moves.
- *Format registry*, logger, configuration, empty files: a constant table, and
  file I/O at start-up; no state that changes afterwards.
- *Unused fields* of `PsClient` and `PsApp` (`m_outbound`, `m_network_queue` and
  others), and operations without a caller (`WsClient::receive`).
