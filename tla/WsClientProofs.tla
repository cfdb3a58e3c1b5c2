--------------------------- MODULE WsClientProofs ---------------------------
(***************************************************************************)
(* Proofs about WsClient for any number of messages, any frame sizes and   *)
(* any capacity of the inbound queue.                                      *)
(*                                                                         *)
(* The inductive invariant has three parts.  LinkInv says how far the main *)
(* thread must be for the stream and the network thread to be where they   *)
(* are.  WriteInv ties the write under way to the queue it writes from.    *)
(* ReadInv orders all that has come and has not been lost: the last        *)
(* message polled, the queue, the frame in the buffer.                     *)
(***************************************************************************)
EXTENDS WsClient, SequenceTheorems, TLAPS

LinkInv ==
  /\ main \in {"init", "start", "crashed"} => thread = "none"
  /\ main = "init" => stream = "null"
  /\ main = "start" => stream \in {"null", "fresh"}
  /\ main \in {"stopping", "joined", "closing", "closed"} => stopped
  /\ CloseAlone

WriteInv ==
  /\ writes = (IF writing = "idle" THEN 0 ELSE 1)
  /\ writing # "idle" => m_internal_write_queue # <<>>

ReadInv ==
  /\ thread \in {"none", "spawned"} => reading = "none"
  /\ reading \notin {"frame", "pushing"} => frame = <<>>
  /\ last <= received
  /\ \A i \in 1 .. Len(m_inbound) :
       /\ last < m_inbound[i] /\ m_inbound[i] <= received
       /\ \A j \in 1 .. i - 1 : m_inbound[j] < m_inbound[i]
  /\ \A i \in 1 .. Len(frame) :
       /\ last < frame[i] /\ frame[i] <= received
       /\ \A j \in 1 .. i - 1 : frame[j] < frame[i]
       /\ \A j \in 1 .. Len(m_inbound) : m_inbound[j] < frame[i]

(* The inductive invariant. *)
IInv == TypeOK /\ LinkInv /\ WriteInv /\ ReadInv

-----------------------------------------------------------------------------
(* Type correctness. *)

LinkTypeOK ==
  /\ main \in {"init", "start", "up", "stopping", "joined", "closing", "closed", "crashed"}
  /\ stream \in HowFar \cup {"null", "failed", "closed", "socket closed"}
  /\ silent \in BOOLEAN
  /\ thread \in {"none", "spawned", "running", "exited"}
  /\ stopped \in BOOLEAN

WriteTypeOK ==
  /\ posted \in Seq(1 .. MaxSends)
  /\ m_internal_write_queue \in Seq(1 .. MaxSends)
  /\ wire \in Seq(1 .. MaxSends)
  /\ writing \in {"idle", "sending", "sent", "failed"}
  /\ writes \in Nat /\ sends \in 0 .. MaxSends

ReadTypeOK ==
  /\ reading \in {"none", "waiting", "frame", "pushing", "error"}
  /\ frame \in Seq(1 .. MaxReceived)
  /\ m_inbound \in Seq(1 .. MaxReceived) /\ Len(m_inbound) <= InboundCap
  /\ received \in 0 .. MaxReceived /\ last \in 0 .. MaxReceived

LEMMA TypeParts == TypeOK <=> LinkTypeOK /\ WriteTypeOK /\ ReadTypeOK
  BY DEF TypeOK, LinkTypeOK, WriteTypeOK, ReadTypeOK

(* What one push leaves in the inbound queue: what was there, and the      *)
(* message behind it unless the queue is full.                             *)
LEMMA PushPositions ==
  ASSUME PushMessage, ReadTypeOK
  PROVE  /\ frame # <<>> /\ Len(frame) \in Nat /\ Len(m_inbound) \in Nat
         /\ frame' = Tail(frame) /\ Len(frame') = Len(frame) - 1
         /\ \A i \in 1 .. Len(frame') : frame'[i] = frame[i + 1]
         /\ m_inbound' \in Seq(1 .. MaxReceived) /\ Len(m_inbound') <= InboundCap
         /\ \/ m_inbound' = m_inbound
            \/ /\ Len(m_inbound') = Len(m_inbound) + 1
               /\ \A i \in 1 .. Len(m_inbound) : m_inbound'[i] = m_inbound[i]
               /\ m_inbound'[Len(m_inbound) + 1] = frame[1]
<1>1. /\ frame \in Seq(1 .. MaxReceived) /\ frame # <<>> /\ frame' = Tail(frame)
      /\ m_inbound \in Seq(1 .. MaxReceived) /\ Len(m_inbound) <= InboundCap
      /\ InboundCap \in Nat
  BY WsAssumption DEF PushMessage, ReadTypeOK
<1>2. Head(frame) = frame[1] /\ Head(frame) \in 1 .. MaxReceived
  <2>1. Head(frame) \in 1 .. MaxReceived
    BY <1>1, HeadTailProperties
  <2>2. Head(frame) = frame[1]
    BY <1>1
  <2>3. QED
    BY <2>1, <2>2
<1>3. /\ Len(frame) \in Nat /\ Len(m_inbound) \in Nat /\ Len(frame') = Len(frame) - 1
      /\ \A i \in 1 .. Len(frame') : frame'[i] = frame[i + 1]
  BY <1>1
<1>4. CASE Len(m_inbound) < InboundCap
  <2>1. m_inbound' = Append(m_inbound, Head(frame))
    BY <1>4 DEF PushMessage
  <2>2. /\ m_inbound' \in Seq(1 .. MaxReceived) /\ Len(m_inbound') = Len(m_inbound) + 1
        /\ \A i \in 1 .. Len(m_inbound) : m_inbound'[i] = m_inbound[i]
        /\ m_inbound'[Len(m_inbound) + 1] = Head(frame)
    BY <1>1, <1>2, <2>1, AppendProperties
  <2>3. QED
    BY <1>1, <1>2, <1>3, <1>4, <2>2
<1>5. CASE ~(Len(m_inbound) < InboundCap)
  <2>1. m_inbound' = m_inbound
    BY <1>5 DEF PushMessage
  <2>2. QED
    BY <1>1, <1>3, <2>1
<1>6. QED
  BY <1>4, <1>5

(* Each group of variables is left alone by the actions of the others. *)
LEMMA LinkTypeStep ==
  ASSUME LinkTypeOK, [Next]_vars
  PROVE  LinkTypeOK'
<1> USE DEF LinkTypeOK, linkVars, HowFar
<1>1. CASE UNCHANGED linkVars
  BY <1>1
<1>2. CASE MainThread
  BY <1>1, <1>2
     DEF MainThread, Resolve, ResolveResults, Connect, ConnectNull, Send, PollInbound, Stop, Join,
         CloseNothing, CloseBegin, CloseEnds, Ended, vars
<1>3. CASE NetworkThread
  BY <1>1, <1>3
     DEF NetworkThread, NetworkLoop, HandlePost, HandleWritten, HandleWriteError, HandleFrame, PushMessage, ReadAgain,
         HandleReadError, ThreadExits
<1>4. CASE External
  BY <1>1, <1>4
     DEF External, WriteSucceeds, WriteFails, FrameArrives, ReadFails, PeerFallsSilent
<1>5. QED
  BY <1>1, <1>2, <1>3, <1>4 DEF Next, vars

LEMMA WriteTypeStep ==
  ASSUME WriteTypeOK, WriteInv, [Next]_vars
  PROVE  WriteTypeOK'
<1> USE WsAssumption DEF WriteTypeOK, writeVars
<1>1. CASE UNCHANGED writeVars
  BY <1>1
<1>2. CASE Send
  BY <1>2 DEF Send
<1>3. CASE HandlePost
  <2>1. posted # <<>> /\ posted' = Tail(posted)
        /\ m_internal_write_queue' = Append(m_internal_write_queue, Head(posted))
    BY <1>3 DEF HandlePost
  <2>2. posted' \in Seq(1 .. MaxSends) /\ m_internal_write_queue' \in Seq(1 .. MaxSends)
    BY <2>1
  <2>3. wire' = wire /\ sends' = sends
    BY <1>3 DEF HandlePost
  <2>4. \/ writing' = "sending" /\ writes' = writes + 1
        \/ UNCHANGED <<writing, writes>>
    BY <1>3 DEF HandlePost, DoWrite
  <2>5. QED
    BY <2>2, <2>3, <2>4
<1>4. CASE HandleWritten \/ HandleWriteError
  <2>1. /\ posted' = posted /\ wire' = wire /\ sends' = sends
        /\ writing' \in {"idle", "sending"}
    BY <1>4 DEF HandleWritten, HandleWriteError
  <2>2. m_internal_write_queue' \in Seq(1 .. MaxSends)
    <3>1. CASE HandleWritten
      <4>1. /\ m_internal_write_queue \in Seq(1 .. MaxSends) /\ m_internal_write_queue # <<>>
            /\ m_internal_write_queue' = Tail(m_internal_write_queue)
        BY <3>1 DEF HandleWritten, WriteInv
      <4>2. QED
        BY <4>1
    <3>2. CASE HandleWriteError
      BY <3>2 DEF HandleWriteError
    <3>3. QED
      BY <1>4, <3>1, <3>2
  <2>3. writes' \in Nat
    BY <1>4 DEF HandleWritten, HandleWriteError, WriteInv
  <2>4. QED
    BY <2>1, <2>2, <2>3
<1>5. CASE WriteSucceeds
  BY <1>5 DEF WriteSucceeds, WriteInv
<1>6. CASE WriteFails
  BY <1>6 DEF WriteFails
<1>7. CASE MainThread
  BY <1>1, <1>2, <1>7
     DEF MainThread, Resolve, Connect, ConnectNull, PollInbound, Stop, Join,
         CloseNothing, CloseBegin, CloseEnds, Ended, vars
<1>8. CASE NetworkThread
  BY <1>1, <1>3, <1>4, <1>8
     DEF NetworkThread, NetworkLoop, HandleFrame, PushMessage, ReadAgain, HandleReadError, ThreadExits
<1>9. CASE External
  BY <1>1, <1>5, <1>6, <1>9 DEF External, FrameArrives, ReadFails, PeerFallsSilent
<1>10. QED
  BY <1>1, <1>7, <1>8, <1>9 DEF Next, vars

LEMMA ReadTypeStep ==
  ASSUME ReadTypeOK, [Next]_vars
  PROVE  ReadTypeOK'
<1> USE WsAssumption DEF ReadTypeOK, readVars
<1>1. CASE UNCHANGED readVars
  BY <1>1
<1>2. CASE PollInbound
  BY <1>2 DEF PollInbound
<1>3. CASE NetworkLoop
  BY <1>3 DEF NetworkLoop
<1>4. CASE PushMessage
  <2>1. /\ frame # <<>> /\ frame' = Tail(frame) /\ reading' = reading
        /\ received' = received /\ last' = last
    BY <1>4 DEF PushMessage
  <2>2. frame' \in Seq(1 .. MaxReceived)
    BY <2>1
  <2>3. QED
    BY <1>4, <2>1, <2>2, PushPositions
<1>5. CASE HandleFrame \/ ReadAgain \/ HandleReadError
  BY <1>5 DEF HandleFrame, ReadAgain, HandleReadError
<1>6. CASE FrameArrives
  <2>1. PICK k \in FrameSizes :
          /\ received + k <= MaxReceived
          /\ frame' = [i \in 1 .. k |-> received + i]
          /\ received' = received + k
    BY <1>6 DEF FrameArrives
  <2>2. k \in Nat /\ received \in Nat /\ MaxReceived \in Nat
    OBVIOUS
  <2>3. frame' \in Seq(1 .. MaxReceived)
    BY <2>1, <2>2
  <2>4. QED
    BY <1>6, <2>1, <2>2, <2>3 DEF FrameArrives
<1>7. CASE ReadFails
  BY <1>7 DEF ReadFails
<1>8. CASE MainThread
  BY <1>1, <1>2, <1>8
     DEF MainThread, Resolve, Connect, ConnectNull, Send, Stop, Join,
         CloseNothing, CloseBegin, CloseEnds, Ended, vars
<1>9. CASE NetworkThread
  BY <1>1, <1>3, <1>4, <1>5, <1>9
     DEF NetworkThread, HandlePost, HandleWritten, HandleWriteError, ThreadExits
<1>10. CASE External
  BY <1>1, <1>6, <1>7, <1>10 DEF External, WriteSucceeds, WriteFails, PeerFallsSilent
<1>11. QED
  BY <1>1, <1>8, <1>9, <1>10 DEF Next, vars

-----------------------------------------------------------------------------
(* The other parts of the invariant. *)

LEMMA LinkStep ==
  ASSUME LinkInv, LinkTypeOK, [Next]_vars
  PROVE  LinkInv'
<1> USE DEF LinkInv, LinkTypeOK, CloseAlone, linkVars
<1>1. CASE UNCHANGED linkVars
  BY <1>1
<1>2. CASE Resolve
  BY <1>2 DEF Resolve, ResolveResults
<1>3. CASE Connect \/ ConnectNull
  BY <1>3 DEF Connect, ConnectNull, HowFar
<1>4. CASE Stop \/ Join
  BY <1>4 DEF Stop, Join
<1>5. CASE CloseNothing \/ CloseBegin \/ CloseEnds
  BY <1>5 DEF CloseNothing, CloseBegin, CloseEnds
<1>6. CASE NetworkLoop \/ ThreadExits
  BY <1>6 DEF NetworkLoop, ThreadExits
<1>7. CASE WriteFails \/ ReadFails
  BY <1>7 DEF WriteFails, ReadFails, Alive
<1>8. CASE PeerFallsSilent
  BY <1>8 DEF PeerFallsSilent
<1>9. CASE MainThread
  BY <1>1, <1>2, <1>3, <1>4, <1>5, <1>9 DEF MainThread, Send, PollInbound, Ended, vars
<1>10. CASE NetworkThread
  BY <1>1, <1>6, <1>10
     DEF NetworkThread, HandlePost, HandleWritten, HandleWriteError, HandleFrame, PushMessage, ReadAgain,
         HandleReadError
<1>11. CASE External
  BY <1>1, <1>7, <1>8, <1>11 DEF External, WriteSucceeds, FrameArrives
<1>12. QED
  BY <1>1, <1>9, <1>10, <1>11 DEF Next, vars

(* A write is started by one handler only, the one that finds the queue    *)
(* empty or has just taken a written message off: in both cases it is the  *)
(* only one under way.                                                     *)
LEMMA WriteStep ==
  ASSUME WriteInv, WriteTypeOK, [Next]_vars
  PROVE  WriteInv'
<1> USE DEF WriteInv, writeVars
<1>1. CASE UNCHANGED writeVars
  BY <1>1
<1>2. CASE Send
  BY <1>2 DEF Send
<1>3. CASE HandlePost
  <2>1. posted # <<>> /\ posted \in Seq(1 .. MaxSends)
        /\ m_internal_write_queue \in Seq(1 .. MaxSends)
        /\ m_internal_write_queue' = Append(m_internal_write_queue, Head(posted))
    BY <1>3 DEF HandlePost, WriteTypeOK
  <2>2. m_internal_write_queue' # <<>>
    BY <2>1
  <2>3. CASE m_internal_write_queue = <<>>
    BY <1>3, <2>2, <2>3 DEF HandlePost, DoWrite
  <2>4. CASE m_internal_write_queue # <<>>
    BY <1>3, <2>2, <2>4 DEF HandlePost
  <2>5. QED
    BY <2>3, <2>4
<1>4. CASE HandleWritten
  <2>1. CASE Len(m_internal_write_queue) > 1
    <3>1. m_internal_write_queue' # <<>>
      BY <1>4, <2>1, EmptySeq, HeadTailProperties DEF HandleWritten, WriteTypeOK
    <3>2. QED
      BY <1>4, <2>1, <3>1 DEF HandleWritten
  <2>2. CASE ~(Len(m_internal_write_queue) > 1)
    BY <1>4, <2>2 DEF HandleWritten
  <2>3. QED
    BY <2>1, <2>2
<1>5. CASE HandleWriteError
  BY <1>5 DEF HandleWriteError
<1>6. CASE WriteSucceeds \/ WriteFails
  BY <1>6 DEF WriteSucceeds, WriteFails
<1>7. CASE MainThread
  BY <1>1, <1>2, <1>7
     DEF MainThread, Resolve, Connect, ConnectNull, PollInbound, Stop, Join,
         CloseNothing, CloseBegin, CloseEnds, Ended, vars
<1>8. CASE NetworkThread
  BY <1>1, <1>3, <1>4, <1>5, <1>8
     DEF NetworkThread, NetworkLoop, HandleFrame, PushMessage, ReadAgain, HandleReadError, ThreadExits
<1>9. CASE External
  BY <1>1, <1>6, <1>9 DEF External, FrameArrives, ReadFails, PeerFallsSilent
<1>10. QED
  BY <1>1, <1>7, <1>8, <1>9 DEF Next, vars

(* The network thread has not begun to read before it runs. *)
LEMMA ThreadAdvances ==
  ASSUME LinkInv, [Next]_vars, thread' \in {"none", "spawned"}
  PROVE  thread \in {"none", "spawned"}
<1> USE DEF LinkInv, linkVars
<1>1. CASE MainThread
  BY <1>1 DEF MainThread, Resolve, Connect, ConnectNull, Send, PollInbound, Stop, Join,
              CloseNothing, CloseBegin, CloseEnds, Ended, vars
<1>2. CASE NetworkThread
  BY <1>2 DEF NetworkThread, NetworkLoop, HandlePost, HandleWritten, HandleWriteError,
              HandleFrame, PushMessage, ReadAgain, HandleReadError, ThreadExits
<1>3. CASE External
  BY <1>3 DEF External, WriteSucceeds, WriteFails, FrameArrives, ReadFails, PeerFallsSilent
<1>4. QED
  BY <1>1, <1>2, <1>3 DEF Next, vars

LEMMA ReadStep ==
  ASSUME ReadInv, ReadTypeOK, LinkInv, [Next]_vars
  PROVE  ReadInv'
<1> USE ThreadAdvances DEF readVars
<1>1. CASE UNCHANGED readVars
  BY <1>1 DEF ReadInv
<1>2. CASE PollInbound
  <2>1. /\ m_inbound \in Seq(1 .. MaxReceived) /\ m_inbound # <<>>
        /\ last' = m_inbound[1] /\ m_inbound' = Tail(m_inbound)
        /\ reading' = reading /\ frame' = frame /\ received' = received
    BY <1>2 DEF PollInbound, ReadTypeOK
  <2>2. /\ Len(m_inbound) \in Nat \ {0}
        /\ Len(m_inbound') = Len(m_inbound) - 1
        /\ \A i \in 1 .. Len(m_inbound') : m_inbound'[i] = m_inbound[i + 1]
    BY <2>1
  <2>3. \A i \in 1 .. Len(m_inbound') :
          i \in 1 .. Len(m_inbound) /\ i + 1 \in 1 .. Len(m_inbound)
    BY <2>2
  <2>4. 1 \in 1 .. Len(m_inbound)
    BY <2>2
  <2>5. \A i \in 1 .. Len(m_inbound') :
          /\ last' < m_inbound'[i] /\ m_inbound'[i] <= received'
          /\ \A j \in 1 .. i - 1 : m_inbound'[j] < m_inbound'[i]
    <3>1. SUFFICES ASSUME NEW i \in 1 .. Len(m_inbound')
                   PROVE  /\ last' < m_inbound'[i] /\ m_inbound'[i] <= received'
                          /\ \A j \in 1 .. i - 1 : m_inbound'[j] < m_inbound'[i]
      OBVIOUS
    <3>2. 1 \in 1 .. (i + 1) - 1
      OBVIOUS
    <3>3. last' < m_inbound'[i] /\ m_inbound'[i] <= received'
      BY <2>1, <2>2, <2>3, <3>2 DEF ReadInv
    <3>4. ASSUME NEW j \in 1 .. i - 1
          PROVE  m_inbound'[j] < m_inbound'[i]
      <4>1. j \in 1 .. Len(m_inbound') /\ j + 1 \in 1 .. (i + 1) - 1
        BY <2>2
      <4>2. m_inbound[j + 1] < m_inbound[i + 1]
        BY <2>3, <4>1 DEF ReadInv
      <4>3. QED
        BY <2>2, <4>1, <4>2
    <3>5. QED
      BY <3>3, <3>4
  <2>6. \A i \in 1 .. Len(frame') :
          /\ last' < frame'[i] /\ frame'[i] <= received'
          /\ \A j \in 1 .. i - 1 : frame'[j] < frame'[i]
          /\ \A j \in 1 .. Len(m_inbound') : m_inbound'[j] < frame'[i]
    BY <2>1, <2>2, <2>3, <2>4 DEF ReadInv
  <2>7. /\ last' <= received' /\ (reading' \notin {"frame", "pushing"} => frame' = <<>>)
        /\ thread' \in {"none", "spawned"} => reading' = "none"
    BY <2>1, <2>4 DEF ReadInv
  <2>8. QED
    BY <2>5, <2>6, <2>7 DEF ReadInv
<1>3. CASE NetworkLoop
  BY <1>3 DEF NetworkLoop, ReadInv
<1>4. CASE PushMessage
  <2>1. /\ frame # <<>> /\ Len(frame) \in Nat /\ Len(m_inbound) \in Nat
        /\ Len(frame') = Len(frame) - 1 /\ Len(m_inbound') \in Nat
        /\ \A i \in 1 .. Len(frame') : frame'[i] = frame[i + 1]
        /\ \/ m_inbound' = m_inbound
           \/ /\ Len(m_inbound') = Len(m_inbound) + 1
              /\ \A i \in 1 .. Len(m_inbound) : m_inbound'[i] = m_inbound[i]
              /\ m_inbound'[Len(m_inbound) + 1] = frame[1]
    BY <1>4, PushPositions
  <2>2. /\ received' = received /\ last' = last
        /\ reading = "pushing" /\ reading' = reading /\ thread' = "running"
    BY <1>4 DEF PushMessage, Pushing, linkVars
  <2>3. 1 \in 1 .. Len(frame)
    BY <2>1 DEF ReadTypeOK
  <2>4. \A i \in 1 .. Len(m_inbound') :
          /\ last' < m_inbound'[i] /\ m_inbound'[i] <= received'
          /\ \A j \in 1 .. i - 1 : m_inbound'[j] < m_inbound'[i]
    <3>1. CASE m_inbound' = m_inbound
      BY <2>2, <3>1 DEF ReadInv
    <3>2. CASE /\ Len(m_inbound') = Len(m_inbound) + 1
               /\ \A i \in 1 .. Len(m_inbound) : m_inbound'[i] = m_inbound[i]
               /\ m_inbound'[Len(m_inbound) + 1] = frame[1]
      BY <2>1, <2>2, <2>3, <3>2 DEF ReadInv
    <3>3. QED
      BY <2>1, <3>1, <3>2
  <2>5. \A i \in 1 .. Len(frame') :
          /\ i + 1 \in 1 .. Len(frame) /\ frame'[i] = frame[i + 1]
          /\ 1 \in 1 .. (i + 1) - 1
          /\ \A j \in 1 .. i - 1 : /\ j + 1 \in 1 .. (i + 1) - 1
                                 /\ frame'[j] = frame[j + 1]
    BY <2>1
  <2>6. \A i \in 1 .. Len(frame') :
          /\ last' < frame'[i] /\ frame'[i] <= received'
          /\ \A j \in 1 .. i - 1 : frame'[j] < frame'[i]
    BY <2>2, <2>5 DEF ReadInv
  <2>7. \A i \in 1 .. Len(frame') :
          \A j \in 1 .. Len(m_inbound') : m_inbound'[j] < frame'[i]
    <3>1. \A i \in 1 .. Len(frame') :
            /\ frame[1] < frame'[i]
            /\ \A j \in 1 .. Len(m_inbound) : m_inbound[j] < frame'[i]
      BY <2>5 DEF ReadInv
    <3>2. QED
      BY <2>1, <3>1
  <2>8. QED
    BY <2>2, <2>4, <2>6, <2>7 DEF ReadInv
<1>5. CASE HandleFrame \/ ReadAgain \/ HandleReadError
  BY <1>5 DEF HandleFrame, ReadAgain, Pushing, HandleReadError, ReadInv
<1>6. CASE FrameArrives
  <2>1. PICK k \in FrameSizes :
          /\ received + k <= MaxReceived
          /\ frame' = [i \in 1 .. k |-> received + i]
          /\ received' = received + k
    BY <1>6 DEF FrameArrives
  <2>2. /\ k \in Nat /\ received \in Nat /\ last \in Nat
        /\ m_inbound \in Seq(Nat)
    BY WsAssumption DEF ReadTypeOK
  <2>3. Len(frame') = k /\ \A i \in 1 .. k : frame'[i] = received + i
    BY <2>1, <2>2
  <2>4. m_inbound' = m_inbound /\ last' = last /\ reading' = "frame" /\ thread' = "running"
    BY <1>6 DEF FrameArrives, Alive, linkVars
  <2>5. QED
    BY <2>1, <2>2, <2>3, <2>4 DEF ReadInv
<1>7. CASE ReadFails
  BY <1>7 DEF ReadFails, ReadInv
<1>8. CASE MainThread
  BY <1>1, <1>2, <1>8
     DEF MainThread, Resolve, Connect, ConnectNull, Send, Stop, Join,
         CloseNothing, CloseBegin, CloseEnds, Ended, vars
<1>9. CASE NetworkThread
  BY <1>1, <1>3, <1>4, <1>5, <1>9
     DEF NetworkThread, HandlePost, HandleWritten, HandleWriteError, ThreadExits
<1>10. CASE External
  BY <1>1, <1>6, <1>7, <1>10 DEF External, WriteSucceeds, WriteFails, PeerFallsSilent
<1>11. QED
  BY <1>1, <1>8, <1>9, <1>10 DEF Next, vars

LEMMA InitIInv == Init => IInv
<1> SUFFICES ASSUME Init PROVE IInv
  OBVIOUS
<1>1. LinkTypeOK /\ LinkInv
  BY DEF Init, LinkTypeOK, LinkInv, CloseAlone
<1>2. WriteTypeOK /\ WriteInv
  BY WsAssumption DEF Init, WriteTypeOK, WriteInv
<1>3. ReadTypeOK /\ ReadInv
  BY WsAssumption DEF Init, ReadTypeOK, ReadInv
<1>4. QED
  BY <1>1, <1>2, <1>3, TypeParts DEF IInv

LEMMA NextIInv == IInv /\ [Next]_vars => IInv'
<1> SUFFICES ASSUME IInv, [Next]_vars PROVE IInv'
  OBVIOUS
<1>1. LinkTypeOK' /\ LinkInv'
  BY TypeParts, LinkTypeStep, LinkStep DEF IInv
<1>2. WriteTypeOK' /\ WriteInv'
  BY TypeParts, WriteTypeStep, WriteStep DEF IInv
<1>3. ReadTypeOK' /\ ReadInv'
  BY TypeParts, ReadTypeStep, ReadStep DEF IInv
<1>4. TypeOK' <=> LinkTypeOK' /\ WriteTypeOK' /\ ReadTypeOK'
  BY DEF TypeOK, LinkTypeOK, WriteTypeOK, ReadTypeOK
<1>5. QED
  BY <1>1, <1>2, <1>3, <1>4 DEF IInv

LEMMA Invariance == Spec => []IInv
<1>1. QED
  BY InitIInv, NextIInv, PTL DEF Spec

(* The variables of wsclient.h and connection.h keep their types, and      *)
(* m_inbound never exceeds its capacity.                                   *)
THEOREM TypeCorrect == Spec => []TypeOK
<1>1. IInv => TypeOK
  BY DEF IInv
<1>2. QED
  BY <1>1, Invariance, PTL

(* wsclient.cpp never has two async_writes under way, and the message that *)
(* one writes stays in front of the queue until its handler has run,       *)
(* however many messages are posted meanwhile.                             *)
THEOREM WritesAreSerial == Spec => []OneWriteAtATime
<1>1. IInv => OneWriteAtATime
  BY DEF IInv, WriteInv, OneWriteAtATime
<1>2. QED
  BY <1>1, Invariance, PTL

(* PsClient::stop() closes the stream when the network thread is out of    *)
(* run(), and start() makes that thread for a stream that is open.         *)
THEOREM ThreadsTakeTurns == Spec => []CloseAlone
<1>1. IInv => CloseAlone
  BY DEF IInv, LinkInv
<1>2. QED
  BY <1>1, Invariance, PTL

(* What poll() hands out comes in the order in which it was received,      *)
(* whatever the size of the frames and of m_inbound, and whichever of the  *)
(* messages were lost on the way in, one push at a time.                   *)
THEOREM ReadsInOrder == Spec => []InboundInOrder
<1>1. IInv => InboundInOrder
  <2> SUFFICES ASSUME IInv PROVE InboundInOrder
    OBVIOUS
  <2>1. /\ m_inbound \in Seq(1 .. MaxReceived) /\ frame \in Seq(1 .. MaxReceived)
        /\ ReadInv
    BY DEF IInv, TypeOK
  <2>2. m_inbound # <<>> => 1 \in 1 .. Len(m_inbound)
    BY <2>1
  <2>3. frame # <<>> => 1 \in 1 .. Len(frame)
    BY <2>1
  <2>4. QED
    BY <2>1, <2>2, <2>3 DEF ReadInv, InboundInOrder
<1>2. QED
  BY <1>1, Invariance, PTL

-----------------------------------------------------------------------------
(* The refinement of OutChannel. *)

(* What is still to leave when a write has: all but the message in front.  *)
Unsent == IF writing = "sent" THEN Tail(m_internal_write_queue) ELSE m_internal_write_queue

LEMMA UnsentIsSeq ==
  ASSUME IInv
  PROVE  Unsent \in Seq(1 .. MaxSends) /\ Pending = Unsent \o posted
<1>1. /\ m_internal_write_queue \in Seq(1 .. MaxSends)
      /\ writing = "sent" => m_internal_write_queue # <<>>
  BY DEF IInv, TypeOK, WriteInv
<1>2. Unsent \in Seq(1 .. MaxSends)
  <2>1. CASE writing = "sent"
    <3>1. Tail(m_internal_write_queue) \in Seq(1 .. MaxSends)
      BY <1>1, <2>1
    <3>2. QED
      BY <2>1, <3>1 DEF Unsent
  <2>2. CASE writing # "sent"
    BY <1>1, <2>2 DEF Unsent
  <2>3. QED
    BY <2>1, <2>2
<1>3. QED
  BY <1>2, Zenon DEF Unsent, Pending

(* Taking a message from the one queue to the other changes nothing; one   *)
(* at the end of the second, or the front of the first, changes the whole. *)
LEMMA ShiftOne ==
  ASSUME NEW S, NEW s \in Seq(S), NEW t \in Seq(S), t # <<>>
  PROVE  Append(s, Head(t)) \o Tail(t) = s \o t
<1> DEFINE u == Append(s, Head(t))
           v == Tail(t)
<1>1. /\ u \in Seq(S) /\ Len(u) = Len(s) + 1
      /\ \A i \in 1 .. Len(s) : u[i] = s[i]
      /\ u[Len(s) + 1] = t[1]
  BY HeadTailProperties, AppendProperties
<1>2. /\ v \in Seq(S) /\ Len(v) = Len(t) - 1 /\ Len(t) \in Nat \ {0}
      /\ \A i \in 1 .. Len(v) : v[i] = t[i + 1]
  BY HeadTailProperties, EmptySeq
<1> HIDE DEF u, v
<1>3. /\ u \o v \in Seq(S) /\ Len(u \o v) = Len(u) + Len(v)
      /\ \A i \in 1 .. Len(u) + Len(v) :
           (u \o v)[i] = IF i <= Len(u) THEN u[i] ELSE v[i - Len(u)]
  BY <1>1, <1>2, ConcatProperties, Zenon
<1>4. /\ s \o t \in Seq(S) /\ Len(s \o t) = Len(s) + Len(t)
      /\ \A i \in 1 .. Len(s) + Len(t) :
           (s \o t)[i] = IF i <= Len(s) THEN s[i] ELSE t[i - Len(s)]
  BY ConcatProperties, Zenon
<1>5. Len(u \o v) = Len(s \o t)
  BY <1>1, <1>2, <1>3, <1>4
<1>6. ASSUME NEW i \in 1 .. Len(s \o t)
      PROVE  (u \o v)[i] = (s \o t)[i]
  <2>1. CASE i <= Len(s)
    BY <1>1, <1>2, <1>3, <1>4, <2>1
  <2>2. CASE i = Len(s) + 1
    BY <1>1, <1>2, <1>3, <1>4, <2>2
  <2>3. CASE i > Len(s) + 1
    <3>1. /\ i - Len(u) \in 1 .. Len(v) /\ (i - Len(u)) + 1 = i - Len(s)
          /\ i \in 1 .. Len(u) + Len(v) /\ i \in 1 .. Len(s) + Len(t)
          /\ ~(i <= Len(u)) /\ ~(i <= Len(s))
      BY <1>1, <1>2, <1>4, <2>3
    <3>2. (u \o v)[i] = v[i - Len(u)] /\ (s \o t)[i] = t[i - Len(s)]
      BY <1>3, <1>4, <3>1
    <3>3. v[i - Len(u)] = t[(i - Len(u)) + 1]
      BY <1>2, <3>1
    <3>4. QED
      BY <3>1, <3>2, <3>3
  <2>4. i <= Len(s) \/ i = Len(s) + 1 \/ i > Len(s) + 1
    BY <1>4
  <2>5. QED
    BY <2>1, <2>2, <2>3, <2>4, Zenon
<1>7. u \o v = s \o t
  BY <1>3, <1>4, <1>5, <1>6, SeqEqual
<1>8. QED
  BY <1>7 DEF u, v

LEMMA ConcatAppend ==
  ASSUME NEW S, NEW s \in Seq(S), NEW t \in Seq(S), NEW e \in S
  PROVE  s \o Append(t, e) = Append(s \o t, e)
<1> DEFINE u == Append(t, e)
           v == s \o t
<1>1. /\ u \in Seq(S) /\ Len(u) = Len(t) + 1
      /\ \A i \in 1 .. Len(t) : u[i] = t[i]
      /\ u[Len(t) + 1] = e
  BY AppendProperties
<1>2. /\ v \in Seq(S) /\ Len(v) = Len(s) + Len(t)
      /\ \A i \in 1 .. Len(s) + Len(t) : v[i] = IF i <= Len(s) THEN s[i] ELSE t[i - Len(s)]
  BY ConcatProperties, Zenon
<1> HIDE DEF u, v
<1>3. /\ s \o u \in Seq(S) /\ Len(s \o u) = Len(s) + Len(u)
      /\ \A i \in 1 .. Len(s) + Len(u) :
           (s \o u)[i] = IF i <= Len(s) THEN s[i] ELSE u[i - Len(s)]
  BY <1>1, ConcatProperties, Zenon
<1>4. /\ Append(v, e) \in Seq(S) /\ Len(Append(v, e)) = Len(v) + 1
      /\ \A i \in 1 .. Len(v) : Append(v, e)[i] = v[i]
      /\ Append(v, e)[Len(v) + 1] = e
  <2>1. v \in Seq(S) /\ e \in S
    BY <1>2
  <2>2. QED
    BY <2>1, AppendProperties
<1>5. Len(s \o u) = Len(Append(v, e))
  BY <1>1, <1>2, <1>3, <1>4
<1>6. ASSUME NEW i \in 1 .. Len(s \o u)
      PROVE  (s \o u)[i] = Append(v, e)[i]
  <2>1. CASE i = Len(v) + 1
    BY <1>1, <1>2, <1>3, <1>4, <2>1
  <2>2. CASE i # Len(v) + 1
    <3>1. i \in 1 .. Len(v) /\ i \in 1 .. Len(s) + Len(u)
      BY <1>1, <1>2, <1>3, <2>2
    <3>2. ~(i <= Len(s)) => i - Len(s) \in 1 .. Len(t)
      BY <1>2, <3>1
    <3>3. QED
      BY <1>1, <1>2, <1>3, <1>4, <3>1, <3>2
  <2>3. QED
    BY <2>1, <2>2
<1>7. s \o u = Append(v, e)
  BY <1>3, <1>4, <1>5, <1>6, SeqEqual
<1>8. QED
  BY <1>7 DEF u, v

LEMMA HeadTailConcat ==
  ASSUME NEW S, NEW s \in Seq(S), NEW t \in Seq(S), s # <<>>
  PROVE  /\ s \o t # <<>>
         /\ Head(s \o t) = Head(s)
         /\ Tail(s \o t) = Tail(s) \o t
<1> DEFINE u == s \o t
           v == Tail(s)
<1>1. /\ u \in Seq(S) /\ Len(u) = Len(s) + Len(t)
      /\ \A i \in 1 .. Len(s) + Len(t) : u[i] = IF i <= Len(s) THEN s[i] ELSE t[i - Len(s)]
  BY ConcatProperties, Zenon
<1>2. /\ v \in Seq(S) /\ Len(v) = Len(s) - 1 /\ Len(s) \in Nat \ {0}
      /\ \A i \in 1 .. Len(v) : v[i] = s[i + 1]
  BY HeadTailProperties, EmptySeq
<1> HIDE DEF u, v
<1>3. u # <<>> /\ Head(u) = Head(s)
  BY <1>1, <1>2
<1>4. /\ v \o t \in Seq(S) /\ Len(v \o t) = Len(v) + Len(t)
      /\ \A i \in 1 .. Len(v) + Len(t) :
           (v \o t)[i] = IF i <= Len(v) THEN v[i] ELSE t[i - Len(v)]
  BY <1>2, ConcatProperties, Zenon
<1>5. /\ Tail(u) \in Seq(S) /\ Len(Tail(u)) = Len(u) - 1
      /\ \A i \in 1 .. Len(Tail(u)) : Tail(u)[i] = u[i + 1]
  BY <1>1, <1>3, HeadTailProperties
<1>6. Len(Tail(u)) = Len(v \o t)
  BY <1>1, <1>2, <1>4, <1>5
<1>7. ASSUME NEW i \in 1 .. Len(Tail(u))
      PROVE  Tail(u)[i] = (v \o t)[i]
  <2>1. Tail(u)[i] = u[i + 1] /\ i + 1 \in 1 .. Len(s) + Len(t) /\ i \in 1 .. Len(v) + Len(t)
    BY <1>1, <1>2, <1>5
  <2>2. CASE i <= Len(v)
    BY <1>1, <1>2, <1>4, <2>1, <2>2
  <2>3. CASE ~(i <= Len(v))
    <3>1. (i + 1) - Len(s) = i - Len(v) /\ ~(i + 1 <= Len(s))
      BY <1>2, <2>3
    <3>2. QED
      BY <1>1, <1>4, <2>1, <2>3, <3>1
  <2>4. QED
    BY <2>2, <2>3
<1>8. Tail(u) = v \o t
  BY <1>4, <1>5, <1>6, <1>7, SeqEqual
<1>9. QED
  BY <1>3, <1>8 DEF u, v

LEMMA InitRefines == Init => Channel!Init
<1> SUFFICES ASSUME Init PROVE Channel!Init
  OBVIOUS
<1>1. Link = "down"
  BY DEF Init, Link
<1>2. Pending = <<>>
  BY DEF Init, Pending
<1>3. QED
  BY <1>1, <1>2 DEF Init, Channel!Init

(* Once the link is broken it stays so: stop() is never taken back, and    *)
(* the stream is made and connected before the network thread is.          *)
LEMMA LinkStays ==
  ASSUME IInv, [Next]_vars
  PROVE  \/ Link' = Link
         \/ Link = "down" /\ Link' = "up"
         \/ Link # "broken" /\ Link' = "broken"
<1> USE DEF Link, IInv, LinkInv, linkVars
<1>1. CASE UNCHANGED linkVars
  BY <1>1
<1>2. CASE MainThread
  BY <1>1, <1>2
     DEF MainThread, Resolve, ResolveResults, Connect, ConnectNull, HowFar, Send, PollInbound,
         Stop, Join, CloseNothing, CloseBegin, CloseEnds, Ended, vars
<1>3. CASE NetworkThread
  BY <1>1, <1>3
     DEF NetworkThread, NetworkLoop, HandlePost, HandleWritten, HandleWriteError, HandleFrame, PushMessage, ReadAgain,
         HandleReadError, ThreadExits
<1>4. CASE External
  BY <1>1, <1>4
     DEF External, WriteSucceeds, WriteFails, FrameArrives, ReadFails, PeerFallsSilent
<1>5. QED
  BY <1>1, <1>2, <1>3, <1>4 DEF Next, vars

(* What the channel has pending and what has left change in two actions.   *)
LEMMA SendAppends ==
  ASSUME IInv, Send
  PROVE  Channel!Submit(sends + 1) /\ sends + 1 \in 1 .. MaxSends
<1>1. /\ posted \in Seq(1 .. MaxSends) /\ sends + 1 \in 1 .. MaxSends
      /\ posted' = Append(posted, sends + 1)
  <2>1. posted \in Seq(1 .. MaxSends) /\ sends \in 0 .. MaxSends /\ MaxSends \in Nat
    BY WsAssumption DEF IInv, TypeOK
  <2>2. sends < MaxSends /\ posted' = Append(posted, sends + 1)
    BY DEF Send
  <2>3. QED
    BY <2>1, <2>2
<1>2. Pending' = Unsent \o posted'
  BY DEF Send, Pending, Unsent
<1>3. Pending' = Append(Pending, sends + 1)
  BY <1>1, <1>2, UnsentIsSeq, ConcatAppend
<1>4. wire' = wire /\ Link' = Link
  BY DEF Send, Link, linkVars
<1>5. QED
  BY <1>1, <1>3, <1>4 DEF Channel!Submit

LEMMA WriteTransmits ==
  ASSUME IInv, WriteSucceeds
  PROVE  Channel!Transmit
<1>1. /\ m_internal_write_queue \in Seq(1 .. MaxSends) /\ posted \in Seq(1 .. MaxSends)
      /\ m_internal_write_queue # <<>>
      /\ Pending = m_internal_write_queue \o posted
      /\ Pending' = Tail(m_internal_write_queue) \o posted
      /\ wire' = Append(wire, Head(m_internal_write_queue))
  BY DEF IInv, TypeOK, WriteInv, WriteSucceeds, Pending
<1>2. Pending # <<>> /\ Head(Pending) = Head(m_internal_write_queue) /\ Pending' = Tail(Pending)
  BY <1>1, HeadTailConcat
<1>3. Link = "up" /\ Link' = Link
  BY DEF WriteSucceeds, Alive, Link, linkVars
<1>4. QED
  BY <1>1, <1>2, <1>3 DEF Channel!Transmit

(* What the handler of a post appends to the queue was pending before. *)
LEMMA PostKeepsPending ==
  ASSUME IInv, HandlePost
  PROVE  Pending' = Pending
<1>1. /\ m_internal_write_queue \in Seq(1 .. MaxSends) /\ posted \in Seq(1 .. MaxSends)
      /\ posted # <<>> /\ posted' = Tail(posted)
      /\ m_internal_write_queue' = Append(m_internal_write_queue, Head(posted))
      /\ writing = "sent" => m_internal_write_queue # <<>>
  BY DEF IInv, TypeOK, WriteInv, HandlePost
<1>2. Head(posted) \in 1 .. MaxSends
  BY <1>1, HeadTailProperties
<1>3. writing' = "sent" <=> writing = "sent"
  BY DEF HandlePost, DoWrite, IInv, WriteInv
<1>4. Unsent' = Append(Unsent, Head(posted))
  <2>1. CASE writing = "sent"
    <3>1. Tail(Append(m_internal_write_queue, Head(posted)))
            = Append(Tail(m_internal_write_queue), Head(posted))
      BY <1>1, <1>2, <2>1
    <3>2. QED
      BY <1>1, <1>3, <2>1, <3>1 DEF Unsent
  <2>2. CASE writing # "sent"
    BY <1>1, <1>3, <2>2 DEF Unsent
  <2>3. QED
    BY <2>1, <2>2
<1>5. Pending' = Unsent' \o posted'
  BY Zenon DEF Pending, Unsent
<1>6. QED
  BY <1>1, <1>4, <1>5, UnsentIsSeq, ShiftOne

LEMMA OthersKeepPending ==
  ASSUME IInv, [Next]_vars, ~Send, ~WriteSucceeds
  PROVE  Pending' = Pending /\ wire' = wire
<1> USE DEF Pending, writeVars
<1>1. CASE UNCHANGED writeVars
  BY <1>1
<1>2. CASE HandlePost
  BY <1>2, PostKeepsPending DEF HandlePost
<1>3. CASE HandleWritten \/ HandleWriteError \/ WriteFails
  BY <1>3 DEF HandleWritten, HandleWriteError, WriteFails
<1>4. CASE MainThread
  BY <1>1, <1>4
     DEF MainThread, Resolve, Connect, ConnectNull, PollInbound, Stop, Join,
         CloseNothing, CloseBegin, CloseEnds, Ended, vars
<1>5. CASE NetworkThread
  BY <1>1, <1>2, <1>3, <1>5
     DEF NetworkThread, NetworkLoop, HandleFrame, PushMessage, ReadAgain, HandleReadError, ThreadExits
<1>6. CASE External
  BY <1>1, <1>3, <1>6 DEF External, FrameArrives, ReadFails, PeerFallsSilent
<1>7. QED
  BY <1>1, <1>4, <1>5, <1>6 DEF Next, vars

LEMMA StepRefines == IInv /\ [Next]_vars => [Channel!Next]_(Channel!channelVars)
<1> SUFFICES ASSUME IInv, [Next]_vars PROVE [Channel!Next]_(Channel!channelVars)
  OBVIOUS
<1> USE DEF Channel!Next, Channel!channelVars
<1>1. CASE Send
  BY <1>1, SendAppends
<1>2. CASE WriteSucceeds
  BY <1>2, WriteTransmits
<1>3. CASE ~Send /\ ~WriteSucceeds
  <2>1. Pending' = Pending /\ wire' = wire
    BY <1>3, OthersKeepPending
  <2>2. CASE Link' = Link
    BY <2>1, <2>2
  <2>3. CASE Link = "down" /\ Link' = "up"
    BY <2>1, <2>3 DEF Channel!Open
  <2>4. CASE Link # "broken" /\ Link' = "broken"
    BY <2>1, <2>4 DEF Channel!Break
  <2>5. QED
    BY <2>2, <2>3, <2>4, LinkStays
<1>4. QED
  BY <1>1, <1>2, <1>3

(* The strand, m_internal_write_queue and the chain of write handlers      *)
(* (wsclient.cpp, send() and do_write()) make an ordered channel that      *)
(* loses nothing while the link is up, for any number of messages.         *)
THEOREM RefinesChannel == Spec => ImplementsChannel
<1>1. Init => Channel!Init
  BY InitRefines
<1>2. IInv /\ [Next]_vars => [Channel!Next]_(Channel!channelVars)
  BY StepRefines
<1>3. QED
  BY <1>1, <1>2, Invariance, PTL DEF Spec, ImplementsChannel, Channel!Spec

=============================================================================
