----------------------------- MODULE OutChannel -----------------------------
(***************************************************************************)
(* What WsClient::send promises: messages go out once each, in the order   *)
(* they were sent, while the link is up.  A link that breaks does so for   *)
(* good, at any moment, and what is pending then is lost.                  *)
(***************************************************************************)
EXTENDS Sequences, Naturals

CONSTANT Messages

VARIABLES pending, wire, link

channelVars == <<pending, wire, link>>

Init == pending = <<>> /\ wire = <<>> /\ link = "down"

Submit(m) ==
  /\ pending' = Append(pending, m)
  /\ UNCHANGED <<wire, link>>

Open ==
  /\ link = "down"
  /\ link' = "up"
  /\ UNCHANGED <<pending, wire>>

Transmit ==
  /\ link = "up"
  /\ pending # <<>>
  /\ wire' = Append(wire, Head(pending))
  /\ pending' = Tail(pending)
  /\ UNCHANGED link

Break ==
  /\ link # "broken"
  /\ link' = "broken"
  /\ UNCHANGED <<pending, wire>>

Next == (\E m \in Messages : Submit(m)) \/ Open \/ Transmit \/ Break

Spec == Init /\ [][Next]_channelVars

(* What is sent on a link that stays up is transmitted. *)
FairSpec == Spec /\ WF_channelVars(Transmit)

=============================================================================
