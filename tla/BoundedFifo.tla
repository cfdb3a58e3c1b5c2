----------------------------- MODULE BoundedFifo -----------------------------
(***************************************************************************)
(* What SPSCQueue promises its two clients: a first-in first-out buffer    *)
(* of at most Cap values.  put and get take effect in one step each.       *)
(*                                                                         *)
(*   put_ret  what the last completed push() returned;                     *)
(*   got      the value the last completed pop() handed out, or None when  *)
(*            that pop() returned false.                                   *)
(*                                                                         *)
(* Lossy lets put and get fail without a reason in the buffer, as they may *)
(* when a thread still sees an old index of the other one.                 *)
(***************************************************************************)
EXTENDS Naturals, Sequences

CONSTANTS
  Cap,      \* a number of values
  Values,
  None,     \* not a member of Values
  Lossy     \* a Boolean

VARIABLES fifo, put_ret, got

fifoVars == <<fifo, put_ret, got>>

Init ==
  /\ fifo = <<>>
  /\ put_ret = TRUE
  /\ got = None

Put(v) ==
  /\ Len(fifo) < Cap
  /\ fifo' = Append(fifo, v)
  /\ put_ret' = TRUE
  /\ UNCHANGED got

Refuse ==
  /\ Len(fifo) = Cap \/ Lossy
  /\ put_ret' = FALSE
  /\ UNCHANGED <<fifo, got>>

Get ==
  /\ fifo # <<>>
  /\ got' = Head(fifo)
  /\ fifo' = Tail(fifo)
  /\ UNCHANGED put_ret

Miss ==
  /\ fifo = <<>> \/ Lossy
  /\ got' = None
  /\ UNCHANGED <<fifo, put_ret>>

Next == (\E v \in Values : Put(v)) \/ Refuse \/ Get \/ Miss

Spec == Init /\ [][Next]_fifoVars

(***************************************************************************)
(* The consumer keeps polling, so a value in the buffer is taken in time.  *)
(***************************************************************************)
FairSpec == Spec /\ WF_fifoVars(Get)

=============================================================================
