------------------------------ MODULE WsClient ------------------------------
(***************************************************************************)
(* net/wsclient.{h,cpp} and net/connection.cpp under PsClient's init(),    *)
(* start() and stop(): how a connection comes about, the network thread    *)
(* that runs one io_context, the write queue that a strand guards, the     *)
(* read loop, and the main thread that sends, polls and shuts down.        *)
(*                                                                         *)
(* A handler is started on the network thread, while the io_context is not *)
(* stopped.  It runs as one step, except that of a frame, which shares     *)
(* m_inbound with the main thread: there each push is a step, and no other *)
(* handler runs before it is over.  An asynchronous operation is started   *)
(* by one handler, makes its way outside ("sending", "waiting"), and has   *)
(* its own handler run when it is over.  Messages are numbered, both ways. *)
(*                                                                         *)
(* External: Boost.Asio and Beast (the executor, async_read, async_write,  *)
(* close) and the peer.                                                    *)
(***************************************************************************)
EXTENDS Naturals, Sequences

CONSTANTS
  MaxSends,      \* bound: messages the main thread sends
  MaxReceived,   \* bound: messages the peer sends
  FrameSizes,    \* how many messages one frame may hold
  InboundCap     \* m_inbound holds one less than its capacity of 256

ASSUME WsAssumption ==
  /\ {MaxSends, MaxReceived, InboundCap} \subseteq Nat
  /\ FrameSizes \subseteq Nat

VARIABLES
  main,          \* "init", "start", "up", "stopping", "joined", "closing",
                 \* "closed", or "crashed"
  stream,        \* what m_websocket is: "null", or how far its stream has come
  silent,        \* external: the peer's host is there, but no answer comes
  thread,        \* the network thread: "none", "spawned", "running" or "exited"
  stopped,       \* was m_ioc stopped?
  posted,        \* messages of the handlers posted to m_strand, in order
  m_internal_write_queue,
  writing,       \* the async_write: "idle", "sending", "sent" or "failed"
  writes,        \* history: async_writes started and not yet completed
  wire,          \* external: the messages that left
  sends,         \* history: how many messages were sent
  reading,       \* the async_read: "none", "waiting", "frame" or "error", or
                 \* "pushing" while the handler of a frame runs
  frame,         \* the messages of the frame, those not pushed yet
  received,      \* history: how many messages came
  m_inbound,
  last           \* history: the last message polled

linkVars  == <<main, stream, silent, thread, stopped>>
writeVars == <<posted, m_internal_write_queue, writing, writes, wire, sends>>
readVars  == <<reading, frame, received, m_inbound, last>>
vars      == <<linkVars, writeVars, readVars>>

Init ==
  /\ main = "init" /\ stream = "null" /\ silent = FALSE
  /\ thread = "none" /\ stopped = FALSE
  /\ posted = <<>> /\ m_internal_write_queue = <<>>
  /\ writing = "idle" /\ writes = 0 /\ wire = <<>> /\ sends = 0
  /\ reading = "none" /\ frame = <<>> /\ received = 0 /\ m_inbound = <<>> /\ last = 0

(* run() waits for the operations under way. *)
Alive == thread = "running" /\ ~stopped

(* The network thread may start a handler: the last one is over. *)
Free == Alive /\ reading # "pushing"

-----------------------------------------------------------------------------
(* The main thread *)

(* resolve() finds an endpoint, or it does not. *)
ResolveResults == {"endpoints", "error"}

(* The constructor: without an endpoint no stream is made.  init() and     *)
(* main() take no notice.                                                  *)
Resolve ==
  /\ main = "init"
  /\ main' = "start"
  /\ \E r \in ResolveResults : stream' = IF r = "error" THEN "null" ELSE "fresh"
  /\ UNCHANGED <<silent, thread, stopped, writeVars, readVars>>

(* connect() stops at the first of its three steps that fails: TCP, TLS    *)
(* and the WebSocket handshake.                                            *)
HowFar == {"fresh", "TCP only", "TLS only", "open"}

(* PsClient::start(): without a connection, no thread, and no message to   *)
(* the user either                                                         *)
Connect ==
  /\ main = "start" /\ stream # "null"
  /\ stream' \in HowFar
  /\ main' = "up"
  /\ thread' = IF stream' = "open" THEN "spawned" ELSE "none"
  /\ UNCHANGED <<silent, stopped, writeVars, readVars>>

(* ... which dereferences the stream, if there is one or not. *)
ConnectNull ==
  /\ main = "start" /\ stream = "null"
  /\ main' = "crashed"
  /\ UNCHANGED <<stream, silent, thread, stopped, writeVars, readVars>>

(* WsClient::send(): post the message to the strand, whatever has become   *)
(* of the connection                                                       *)
Send ==
  /\ main = "up"
  /\ sends < MaxSends
  /\ sends' = sends + 1
  /\ posted' = Append(posted, sends + 1)
  /\ UNCHANGED <<linkVars, m_internal_write_queue, writing, writes, wire, readVars>>

(* PsClient::poll() *)
PollInbound ==
  /\ main = "up"
  /\ m_inbound # <<>>
  /\ last' = Head(m_inbound)
  /\ m_inbound' = Tail(m_inbound)
  /\ UNCHANGED <<linkVars, writeVars, reading, frame, received>>

(* Mutant: the io_context is left running. *)
StopQuietly ==
  /\ main = "up"
  /\ main' = "stopping"
  /\ UNCHANGED <<stream, silent, thread, stopped, writeVars, readVars>>

(* PsClient::stop(): get_ioc().stop() ... *)
Stop ==
  /\ main = "up"
  /\ main' = "stopping"
  /\ stopped' = TRUE
  /\ UNCHANGED <<stream, silent, thread, writeVars, readVars>>

(* Mutant: nobody waits for the thread. *)
JoinNot ==
  /\ main = "stopping"
  /\ main' = "joined"
  /\ UNCHANGED <<stream, silent, thread, stopped, writeVars, readVars>>

(* ... join the network thread, if there is one ... *)
Join ==
  /\ main = "stopping"
  /\ thread \in {"none", "exited"}
  /\ main' = "joined"
  /\ UNCHANGED <<stream, silent, thread, stopped, writeVars, readVars>>

(* ... and close(): nothing is done on a stream that is not open ... *)
CloseNothing ==
  /\ main = "joined"
  /\ stream # "open"
  /\ main' = "closed"
  /\ UNCHANGED <<stream, silent, thread, stopped, writeVars, readVars>>

(* ... on one that is open, the closing handshake begins ... *)
CloseBegin ==
  /\ main = "joined"
  /\ stream = "open"
  /\ main' = "closing"
  /\ UNCHANGED <<stream, silent, thread, stopped, writeVars, readVars>>

(* ... and ends when the peer answers it, or has closed or cut the stream  *)
(* itself, or else by closing the socket the hard way.                     *)
CloseEnds ==
  /\ main = "closing"
  /\ ~silent
  /\ stream' \in {"closed", "failed", "socket closed"}
  /\ main' = "closed"
  /\ UNCHANGED <<silent, thread, stopped, writeVars, readVars>>

(* The program has ended, or hangs in close(). *)
Ended ==
  /\ main \in {"closed", "crashed"} \/ (main = "closing" /\ silent)
  /\ UNCHANGED vars

-----------------------------------------------------------------------------
(* The network thread *)

(* network_loop(): start the read loop, enter run() *)
NetworkLoop ==
  /\ thread = "spawned"
  /\ thread' = "running"
  /\ reading' = "waiting"
  /\ UNCHANGED <<main, stream, silent, stopped, writeVars, frame, received, m_inbound, last>>

(* do_write(): the buffer is the front of the queue *)
DoWrite == writing' = "sending" /\ writes' = writes + 1

(* Mutant: a write is started at once, although one may be under way. *)
HandlePostAtOnce ==
  /\ Free
  /\ posted # <<>>
  /\ posted' = Tail(posted)
  /\ m_internal_write_queue' = Append(m_internal_write_queue, Head(posted))
  /\ DoWrite
  /\ UNCHANGED <<linkVars, wire, sends, readVars>>

(* The handler send() posted *)
HandlePost ==
  /\ Free
  /\ posted # <<>>
  /\ posted' = Tail(posted)
  /\ m_internal_write_queue' = Append(m_internal_write_queue, Head(posted))
  /\ IF m_internal_write_queue = <<>> THEN DoWrite ELSE UNCHANGED <<writing, writes>>
  /\ UNCHANGED <<linkVars, wire, sends, readVars>>

(* Mutant: the message stays in the queue. *)
HandleWrittenKeeping ==
  /\ Free
  /\ writing = "sent"
  /\ writing' = "sending"
  /\ UNCHANGED <<linkVars, m_internal_write_queue, writes, posted, wire, sends,
                 readVars>>

(* Mutant: the next message waits for another send(). *)
HandleWrittenStalling ==
  /\ Free
  /\ writing = "sent"
  /\ m_internal_write_queue' = Tail(m_internal_write_queue)
  /\ writing' = "idle" /\ writes' = writes - 1
  /\ UNCHANGED <<linkVars, posted, wire, sends, readVars>>

(* async_write's handler: next message, if there is one *)
HandleWritten ==
  /\ Free
  /\ writing = "sent"
  /\ m_internal_write_queue' = Tail(m_internal_write_queue)
  /\ IF Len(m_internal_write_queue) > 1
     THEN writing' = "sending" /\ UNCHANGED writes
     ELSE writing' = "idle" /\ writes' = writes - 1
  /\ UNCHANGED <<linkVars, posted, wire, sends, readVars>>

(* After an error the message stays in front, and no write follows. *)
HandleWriteError ==
  /\ Free
  /\ writing = "failed"
  /\ writing' = "idle"
  /\ writes' = writes - 1
  /\ UNCHANGED <<linkVars, posted, m_internal_write_queue, wire, sends, readVars>>

(* async_read's handler: parse ... *)
HandleFrame ==
  /\ Free
  /\ reading = "frame"
  /\ reading' = "pushing"
  /\ UNCHANGED <<linkVars, writeVars, frame, received, m_inbound, last>>

(* A handler that runs comes to its end, stopped or not. *)
Pushing == thread = "running" /\ reading = "pushing"

(* Mutant: the queue has no bound. *)
PushUnbounded ==
  /\ Pushing
  /\ frame # <<>>
  /\ m_inbound' = Append(m_inbound, Head(frame))
  /\ frame' = Tail(frame)
  /\ UNCHANGED <<linkVars, writeVars, reading, received, last>>

(* Mutant: the messages of a frame are pushed from the last to the first.  *)
PushBackwards ==
  /\ Pushing
  /\ frame # <<>>
  /\ m_inbound' = IF Len(m_inbound) < InboundCap
                  THEN Append(m_inbound, frame[Len(frame)]) ELSE m_inbound
  /\ frame' = SubSeq(frame, 1, Len(frame) - 1)
  /\ UNCHANGED <<linkVars, writeVars, reading, received, last>>

(* ... push the messages one by one, each of them lost when the queue is   *)
(* full at that moment (the main thread may pop in between) ...            *)
PushMessage ==
  /\ Pushing
  /\ frame # <<>>
  /\ m_inbound' = IF Len(m_inbound) < InboundCap
                  THEN Append(m_inbound, Head(frame)) ELSE m_inbound
  /\ frame' = Tail(frame)
  /\ UNCHANGED <<linkVars, writeVars, reading, received, last>>

(* ... and read again. *)
ReadAgain ==
  /\ Pushing
  /\ frame = <<>>
  /\ reading' = "waiting"
  /\ UNCHANGED <<linkVars, writeVars, frame, received, m_inbound, last>>

(* ... or, after an error, read no more *)
HandleReadError ==
  /\ Free
  /\ reading = "error"
  /\ reading' = "none"
  /\ UNCHANGED <<linkVars, writeVars, frame, received, m_inbound, last>>

(* run() returns when the io_context is stopped, or has nothing to wait    *)
(* for: then, too, what is posted later never runs.                        *)
OutOfWork == posted = <<>> /\ writing = "idle" /\ reading = "none"

ThreadExits ==
  /\ thread = "running" /\ reading # "pushing"
  /\ stopped \/ OutOfWork
  /\ thread' = "exited"
  /\ UNCHANGED <<main, stream, silent, stopped, writeVars, readVars>>

-----------------------------------------------------------------------------
(* External: the asynchronous operations *)

(* The front of the queue leaves ... *)
WriteSucceeds ==
  /\ Alive
  /\ writing = "sending"
  /\ stream = "open"
  /\ writing' = "sent"
  /\ wire' = Append(wire, Head(m_internal_write_queue))
  /\ UNCHANGED <<linkVars, posted, m_internal_write_queue, writes, sends, readVars>>

(* ... or the write fails, and the stream with it. *)
WriteFails ==
  /\ Alive
  /\ writing = "sending"
  /\ writing' = "failed"
  /\ stream' = "failed"
  /\ UNCHANGED <<main, silent, thread, stopped, posted, m_internal_write_queue, writes, wire,
                 sends, readVars>>

FrameArrives ==
  /\ Alive
  /\ reading = "waiting"
  /\ stream = "open" /\ ~silent
  /\ \E k \in FrameSizes :
       /\ received + k <= MaxReceived
       /\ frame' = [i \in 1 .. k |-> received + i]
       /\ received' = received + k
  /\ reading' = "frame"
  /\ UNCHANGED <<linkVars, writeVars, m_inbound, last>>

(* A stream that fails to be read is no good for writing either. *)
ReadFails ==
  /\ Alive
  /\ reading = "waiting"
  /\ reading' = "error"
  /\ stream' = "failed"
  /\ UNCHANGED <<main, silent, thread, stopped, writeVars, frame, received, m_inbound, last>>

(* The peer hangs: TCP still accepts what is written, nothing comes back.  *)
PeerFallsSilent ==
  /\ stream = "open" /\ ~silent
  /\ main # "closed"
  /\ silent' = TRUE
  /\ UNCHANGED <<main, stream, thread, stopped, writeVars, readVars>>

-----------------------------------------------------------------------------
MainThread ==
  \/ Resolve \/ Connect \/ ConnectNull
  \/ Send \/ PollInbound
  \/ Stop \/ Join \/ CloseNothing \/ CloseBegin \/ CloseEnds
  \/ Ended

NetworkThread ==
  \/ NetworkLoop
  \/ HandlePost \/ HandleWritten \/ HandleWriteError
  \/ HandleFrame \/ PushMessage \/ ReadAgain \/ HandleReadError
  \/ ThreadExits

External == WriteSucceeds \/ WriteFails \/ FrameArrives \/ ReadFails \/ PeerFallsSilent

Next == MainThread \/ NetworkThread \/ External

Spec == Init /\ [][Next]_vars

(***************************************************************************)
(* The executor runs each handler that is ready in the end, between those  *)
(* of the frames (the strand is first come, first served), a handler that  *)
(* runs goes on, a write that was started completes one way or the other   *)
(* (TCP gives up), run() returns once stopped, and the main thread, once   *)
(* in stop(), goes through it.  A peer that has not fallen silent answers  *)
(* the closing handshake in the end, or cuts it off.                       *)
(***************************************************************************)
FairSpec ==
  /\ Spec
  /\ WF_vars(NetworkLoop)
  /\ SF_vars(HandlePost) /\ SF_vars(HandleWritten) /\ SF_vars(HandleWriteError)
  /\ WF_vars(HandleFrame) /\ WF_vars(PushMessage) /\ WF_vars(ReadAgain)
  /\ WF_vars(HandleReadError)
  /\ WF_vars(ThreadExits)
  /\ WF_vars(WriteSucceeds \/ WriteFails)
  /\ WF_vars(Join) /\ WF_vars(CloseNothing) /\ WF_vars(CloseBegin) /\ WF_vars(CloseEnds)

-----------------------------------------------------------------------------
TypeOK ==
  /\ main \in {"init", "start", "up", "stopping", "joined", "closing", "closed", "crashed"}
  /\ stream \in HowFar \cup {"null", "failed", "closed", "socket closed"}
  /\ silent \in BOOLEAN
  /\ thread \in {"none", "spawned", "running", "exited"}
  /\ stopped \in BOOLEAN
  /\ posted \in Seq(1 .. MaxSends)
  /\ m_internal_write_queue \in Seq(1 .. MaxSends)
  /\ wire \in Seq(1 .. MaxSends)
  /\ writing \in {"idle", "sending", "sent", "failed"}
  /\ writes \in Nat /\ sends \in 0 .. MaxSends
  /\ reading \in {"none", "waiting", "frame", "pushing", "error"}
  /\ frame \in Seq(1 .. MaxReceived)
  /\ m_inbound \in Seq(1 .. MaxReceived) /\ Len(m_inbound) <= InboundCap
  /\ received \in 0 .. MaxReceived /\ last \in 0 .. MaxReceived

(* Beast allows one async_write at a time, and its buffer, the front of    *)
(* the queue, must outlive it: whatever is posted meanwhile, a write under *)
(* way is the only one and its message is still in front.                  *)
OneWriteAtATime ==
  /\ writes <= 1
  /\ writing # "idle" => m_internal_write_queue # <<>>

(* The stream belongs to one thread at a time: the main thread connects it *)
(* before there is a network thread, and closes it when that one is out of *)
(* run() for good; the network thread runs on connected streams only.      *)
CloseAlone ==
  /\ main \in {"joined", "closing", "closed"} => thread \in {"none", "exited"}
  /\ thread # "none" => stream \in {"open", "failed"} \/ main = "closed"

(* The main thread sees the messages in the order they came, each at most  *)
(* once, although any may be missing for which the queue was full, from    *)
(* the middle of a frame too: what is queued came after what was polled    *)
(* and before what the handler of the frame still has to push.             *)
InboundInOrder ==
  /\ \A i \in 1 .. Len(m_inbound) :
       \A j \in 1 .. i - 1 : m_inbound[j] < m_inbound[i]
  /\ m_inbound # <<>> => last < m_inbound[1]
  /\ frame # <<>> =>
       /\ last < frame[1]
       /\ \A i \in 1 .. Len(m_inbound) : m_inbound[i] < frame[1]

(***************************************************************************)
(* The refinement: pending are the messages in the queue, without the one  *)
(* that has left, and those still posted.                                  *)
(***************************************************************************)
Pending ==
  (IF writing = "sent" THEN Tail(m_internal_write_queue) ELSE m_internal_write_queue)
    \o posted

Link == IF stream = "failed" \/ stopped \/ thread = "exited" THEN "broken"
        ELSE IF thread = "running" THEN "up" ELSE "down"

Channel == INSTANCE OutChannel
             WITH Messages <- 1 .. MaxSends, pending <- Pending, link <- Link

(* The strand, the queue and the chain of write handlers make an ordered   *)
(* channel: nothing is lost, doubled or overtaken while the link is up,    *)
(* and when it has failed no later message jumps over the one it lost ...  *)
ImplementsChannel == Channel!Spec

(* ... and on a link that stays up, everything sent leaves. *)
ImplementsFairChannel == Channel!FairSpec

(* stop() comes to its end, whatever is outstanding; only close() can keep *)
(* it, for as long as a peer that was connected says nothing: it waits for *)
(* the answer without a timeout.                                           *)
StopReturns == main = "stopping" ~> (main = "closed" \/ (main = "closing" /\ silent))

=============================================================================
