------------------------------ MODULE SPSCQueue ------------------------------
(***************************************************************************)
(* core/thread/queue.h: the single-producer single-consumer ring buffer    *)
(* that carries parsed messages from the network thread to the main loop   *)
(* (PsClient::m_inbound), and events inside the main loop                  *)
(* (PsApp::m_event_queue).                                                 *)
(*                                                                         *)
(* One action per access to shared memory.  The two indices are atomics    *)
(* with release stores and acquire loads; a thread loads its own index     *)
(* exactly, and the other's as it stands now or, when StaleLoads holds, as *)
(* it stood at any moment since this thread last looked (the memory model  *)
(* promises no more).  The slots are plain memory: NoSlotRace is what      *)
(* makes it legitimate to treat each slot access as one step.              *)
(***************************************************************************)
EXTENDS Naturals, Sequences

CONSTANTS
  Capacity,    \* m_capacity, the constructor's argument
  Values,      \* what the producer pushes
  Blank,       \* a slot (or out) that holds no value: default or moved-from
  StaleLoads   \* whether an acquire load may return an old index

ASSUME QueueAssumption ==
  /\ Capacity \in Nat \ {0}
  /\ Blank \notin Values
  /\ StaleLoads \in BOOLEAN

VARIABLES
  m_queue,     \* the slots
  m_head,      \* next slot to pop, stored by the consumer
  m_tail,      \* next slot to push, stored by the producer
  pushing,     \* where push() is: "idle", "write" or "publish"
  val,         \* push()'s argument
  seen_head,   \* the head index the producer loaded last
  popping,     \* where pop() is: "idle", "take" or "publish"
  out,         \* pop()'s out parameter
  seen_tail,   \* the tail index the consumer loaded last
  push_ret,    \* what the last push() returned
  popped       \* what the last pop() handed out, Blank if it returned false

pushVars == <<pushing, val, seen_head, push_ret>>
popVars  == <<popping, out, seen_tail, popped>>
vars     == <<m_queue, m_head, m_tail, pushVars, popVars>>

Slots == 0 .. Capacity - 1

(* (i + 1) % m_capacity *)
Succ(i) == (i + 1) % Capacity

(* How many steps of Succ lead from slot i to slot j. *)
Dist(i, j) == IF i <= j THEN j - i ELSE j + Capacity - i

(* The values an acquire load may return: the index as it is now, or any   *)
(* value it has had since this thread last loaded it.                      *)
Visible(last, now) ==
  IF StaleLoads THEN {i \in Slots : Dist(last, i) <= Dist(last, now)} ELSE {now}

Init ==
  /\ m_queue = [i \in Slots |-> Blank]
  /\ m_head = 0 /\ m_tail = 0
  /\ pushing = "idle" /\ val = Blank /\ seen_head = 0 /\ push_ret = TRUE
  /\ popping = "idle" /\ out = Blank /\ seen_tail = 0 /\ popped = Blank

-----------------------------------------------------------------------------
(* bool push(T val) *)

(* Mutant: the capacity test of line 34 is missing. *)
PushBeginUnchecked(v) ==
  /\ pushing = "idle"
  /\ \E h \in Visible(seen_head, m_head) : seen_head' = h
  /\ val' = v
  /\ pushing' = "write"
  /\ UNCHANGED <<m_queue, m_head, m_tail, push_ret, popVars>>

(* m_head.load(acquire): room for v, so push() goes on. *)
PushBegin(v) ==
  /\ pushing = "idle"
  /\ \E h \in Visible(seen_head, m_head) :
       /\ h # Succ(m_tail)
       /\ seen_head' = h
  /\ val' = v
  /\ pushing' = "write"
  /\ UNCHANGED <<m_queue, m_head, m_tail, push_ret, popVars>>

(* m_head.load(acquire): no room, return false. *)
PushFull ==
  /\ pushing = "idle"
  /\ Succ(m_tail) \in Visible(seen_head, m_head)
  /\ seen_head' = Succ(m_tail)
  /\ push_ret' = FALSE
  /\ UNCHANGED <<m_queue, m_head, m_tail, pushing, val, popVars>>

(* m_queue[tail] = std::move(val) *)
PushWrite ==
  /\ pushing = "write"
  /\ m_queue' = [m_queue EXCEPT ![m_tail] = val]
  /\ val' = Blank
  /\ pushing' = "publish"
  /\ UNCHANGED <<m_head, m_tail, seen_head, push_ret, popVars>>

(* Mutant: the new tail is not reduced modulo the capacity. *)
PushPublishUnwrapped ==
  /\ pushing = "publish"
  /\ m_tail' = m_tail + 1
  /\ pushing' = "idle"
  /\ push_ret' = TRUE
  /\ UNCHANGED <<m_queue, m_head, val, seen_head, popVars>>

(* m_tail.store(release), return true *)
PushPublish ==
  /\ pushing = "publish"
  /\ m_tail' = Succ(m_tail)
  /\ pushing' = "idle"
  /\ push_ret' = TRUE
  /\ UNCHANGED <<m_queue, m_head, val, seen_head, popVars>>

-----------------------------------------------------------------------------
(* bool pop(T& out) *)

(* Mutant: emptiness is tested as push() tests for room, one place on.     *)
PopBeginOneKept ==
  /\ popping = "idle"
  /\ \E t \in Visible(seen_tail, m_tail) :
       /\ t \notin {m_head, Succ(m_head)}
       /\ seen_tail' = t
  /\ popping' = "take"
  /\ UNCHANGED <<m_queue, m_head, m_tail, out, popped, pushVars>>

(* m_tail.load(acquire): something to take, so pop() goes on. *)
PopBegin ==
  /\ popping = "idle"
  /\ \E t \in Visible(seen_tail, m_tail) :
       /\ t # m_head
       /\ seen_tail' = t
  /\ popping' = "take"
  /\ UNCHANGED <<m_queue, m_head, m_tail, out, popped, pushVars>>

(* m_tail.load(acquire): empty, return false and leave out alone. *)
PopEmpty ==
  /\ popping = "idle"
  /\ m_head \in Visible(seen_tail, m_tail)
  /\ seen_tail' = m_head
  /\ popped' = Blank
  /\ UNCHANGED <<m_queue, m_head, m_tail, popping, out, pushVars>>

(* Mutant: the new head is stored before the slot has been read. *)
PopTakeLate ==
  /\ popping = "take"
  /\ m_head' = Succ(m_head)
  /\ popping' = "publish"
  /\ UNCHANGED <<m_queue, m_tail, out, seen_tail, popped, pushVars>>

(* out = std::move(m_queue[head]) leaves the slot moved-from. *)
PopTake ==
  /\ popping = "take"
  /\ out' = m_queue[m_head]
  /\ m_queue' = [m_queue EXCEPT ![m_head] = Blank]
  /\ popping' = "publish"
  /\ UNCHANGED <<m_head, m_tail, seen_tail, popped, pushVars>>

(* m_head.store(release), return true *)
PopPublish ==
  /\ popping = "publish"
  /\ m_head' = Succ(m_head)
  /\ popping' = "idle"
  /\ popped' = out
  /\ UNCHANGED <<m_queue, m_tail, out, seen_tail, pushVars>>

-----------------------------------------------------------------------------
Push == (\E v \in Values : PushBegin(v)) \/ PushFull \/ PushWrite \/ PushPublish
Pop  == PopBegin \/ PopEmpty \/ PopTake \/ PopPublish

Next == Push \/ Pop

Spec == Init /\ [][Next]_vars

(***************************************************************************)
(* Both threads finish a call they have begun, and the main loop polls     *)
(* without end (PsApp::run); a store becomes visible in time, so a pop()   *)
(* that may see the queue non-empty for ever does see it so once.          *)
(***************************************************************************)
FairSpec ==
  /\ Spec
  /\ WF_vars(PushWrite) /\ WF_vars(PushPublish)
  /\ WF_vars(PopBegin) /\ WF_vars(PopTake) /\ WF_vars(PopPublish)

-----------------------------------------------------------------------------
(* The type invariant: indices stay slots, and each call is at one point.  *)
TypeOK ==
  /\ m_queue \in [Slots -> Values \cup {Blank}]
  /\ m_head \in Slots /\ m_tail \in Slots
  /\ pushing \in {"idle", "write", "publish"}
  /\ val \in Values \cup {Blank}
  /\ seen_head \in Slots
  /\ push_ret \in BOOLEAN
  /\ popping \in {"idle", "take", "publish"}
  /\ out \in Values \cup {Blank}
  /\ seen_tail \in Slots
  /\ popped \in Values \cup {Blank}

(* The slots are not atomic: the network thread's write of m_queue[tail]   *)
(* and the main thread's move out of m_queue[head] must never be at the    *)
(* same slot at the same time, whichever old indices they acted upon.      *)
NoSlotRace ==
  pushing = "write" /\ popping = "take" => m_tail # m_head

(* push() overwrites no value that pop() has yet to take, and pop() takes  *)
(* no slot that push() has yet to fill.                                    *)
SlotDiscipline ==
  /\ pushing = "write" => m_queue[m_tail] = Blank
  /\ popping = "take"  => m_queue[m_head] # Blank

(***************************************************************************)
(* The refinement.  A push() takes effect when it stores the tail, a pop() *)
(* when it stores the head: until then the value it has moved into out     *)
(* still counts as the first of the buffer.                                *)
(***************************************************************************)
Occupied == Dist(m_head, m_tail)

(* The slot of the k-th value in the buffer. *)
Place(k) == IF m_head + k - 1 < Capacity THEN m_head + k - 1
                                         ELSE m_head + k - 1 - Capacity

Contents ==
  [k \in 1 .. Occupied |->
     IF k = 1 /\ popping = "publish" THEN out ELSE m_queue[Place(k)]]

Fifo == INSTANCE BoundedFifo
          WITH Cap <- Capacity - 1, None <- Blank, Lossy <- StaleLoads,
               fifo <- Contents, put_ret <- push_ret, got <- popped

(* Through every interleaving the ring is a FIFO of m_capacity - 1 values: *)
(* nothing accepted is lost, doubled, reordered or torn.  Without stale    *)
(* loads push() fails only when it is full and pop() only when it is empty.*)
ImplementsFifo == Fifo!Spec

(* ... and one whose reader never waits for ever on a value that is there. *)
ImplementsFairFifo == Fifo!FairSpec

=============================================================================
