------------------------------ MODULE PsClient ------------------------------
(***************************************************************************)
(* protocol/psclient.{h,cpp}: the login state of the client and the queue  *)
(* through which the network thread hands it messages.                     *)
(*                                                                         *)
(* The queue is the FIFO that SPSCQueue is shown to implement: push() and  *)
(* pop() are one step each, and what push() refuses is gone, since the     *)
(* read loop ignores its result.  A challstr message carries a challenge,  *)
(* an updateuser message whether the name is registered.                   *)
(***************************************************************************)
EXTENDS Naturals, Sequences

CONSTANTS
  Tokens,       \* what the user may type as a name or a password
  LongTokens,   \* the ones of more than 31 characters
  Challenges,
  InboundCap,   \* m_inbound holds one less than its capacity of 256
  None

VARIABLES
  m_inbound,
  m_chall_str,
  m_username,
  m_password,
  m_logged_in,
  spent         \* history: the challenges a /trn was sent for

clientVars == <<m_inbound, m_chall_str, m_username, m_password, m_logged_in, spent>>
credVars   == <<m_chall_str, m_username, m_password, m_logged_in, spent>>

(* The buffers keep 31 characters. *)
Clip(t) == IF t \in LongTokens THEN "the first 31 characters" ELSE t

Stored == {Clip(t) : t \in Tokens} \cup {None}

Init ==
  /\ m_inbound = <<>>
  /\ m_chall_str = None
  /\ m_username = None /\ m_password = None
  /\ m_logged_in = FALSE
  /\ spent = {}

(* The read loop's inbound_queue.push(m), on the network thread. *)
Receive(m) ==
  /\ m_inbound' = IF Len(m_inbound) < InboundCap THEN Append(m_inbound, m) ELSE m_inbound
  /\ UNCHANGED credVars

(* A challenge that comes after the login is of no use.  Of a challstr     *)
(* message only the challenge is kept: both its arguments are there.       *)
OnChallStr(msg) ==
  /\ m_chall_str' = IF m_logged_in THEN m_chall_str ELSE msg.chall
  /\ UNCHANGED m_logged_in

OnUpdateUser(msg) ==
  /\ m_logged_in' = (m_logged_in \/ msg.named)
  /\ UNCHANGED m_chall_str

(* Take a message, look at it, and leave it to the caller all the same. *)
Poll(msg) ==
  /\ m_inbound # <<>>
  /\ msg = Head(m_inbound)
  /\ m_inbound' = Tail(m_inbound)
  /\ IF msg.type = "challstr" THEN OnChallStr(msg)
     ELSE IF msg.type = "updateuser" THEN OnUpdateUser(msg)
     ELSE UNCHANGED <<m_chall_str, m_logged_in>>
  /\ UNCHANGED <<m_username, m_password, spent>>

SetUsername(t) ==
  /\ m_username' = Clip(t)
  /\ UNCHANGED <<m_inbound, m_chall_str, m_password, m_logged_in, spent>>

(* set_password(), and try_login() as far as its call of the login server *)
SetPassword(t) ==
  /\ m_password' = Clip(t)
  /\ UNCHANGED <<m_inbound, m_chall_str, m_username, m_logged_in, spent>>

(* There is a challenge to answer, and a name to answer it with. *)
CanAsk == m_chall_str # None /\ m_username # None

(***************************************************************************)
(* External: the answers of the login server, as far as the code tells     *)
(* them apart: no answer at all (sent is FALSE), a body without the "]"    *)
(* that goes before JSON, one that is no JSON or has no "assertion", one   *)
(* of another type than a string, and what the string may be.  The form    *)
(* it reads is name, password and challenge put together without escaping, *)
(* so that it may read others than were typed; hence any answer is         *)
(* possible, whatever was asked.                                           *)
(***************************************************************************)
Responses ==
  [sent : BOOLEAN, prefix : BOOLEAN,
   assertion : {"unparsable", "missing", "a number", "", "; error", "signed"}]

(* Mutant: an error message is taken for an assertion. *)
RequestAssertionTrusting(r) ==
  IF r.sent /\ r.prefix /\ r.assertion \in {"; error", "signed"} THEN r.assertion ELSE ""

(* What request_assertion() makes of the answer; exceptions of the JSON    *)
(* library are caught inside.                                              *)
RequestAssertion(r) ==
  IF r.sent /\ r.prefix /\ r.assertion = "signed" THEN r.assertion ELSE ""

(* Mutant: the password is kept. *)
LoggedInKeepingPassword ==
  /\ spent' = spent \cup {m_chall_str}
  /\ m_username' = None /\ m_chall_str' = None
  /\ UNCHANGED <<m_inbound, m_logged_in, m_password>>

(* try_login() once an assertion has come: /trn is sent, all is forgotten. *)
LoggedIn ==
  /\ spent' = spent \cup {m_chall_str}
  /\ m_username' = None /\ m_password' = None /\ m_chall_str' = None
  /\ UNCHANGED <<m_inbound, m_logged_in>>

=============================================================================
