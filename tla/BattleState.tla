----------------------------- MODULE BattleState -----------------------------
(***************************************************************************)
(* protocol/battlestate.{h,cpp}: what a battle layer knows of the battle,  *)
(* against what the server has told so far.                                *)
(*                                                                         *)
(* One step is one message: the server (external) makes a move in its own  *)
(* account of the battle, srv, and the client applies the message that     *)
(* announces it, or misses that message: apply() does not know its type    *)
(* (-sethp also changes hit points), or m_inbound was full.  Messages      *)
(* arrive in order (SPSCQueue, WsClient), so there is nothing to           *)
(* interleave: what matters is their sequence, and above all whether the   *)
(* first request, which tells the client its side, comes before the leads  *)
(* are announced (a battle just found) or after a replay of the battle so  *)
(* far (one joined late).                                                  *)
(*                                                                         *)
(* An ident ("p2a: Hoopa") is a side and a name, a condition ("250/288",   *)
(* "0 fnt") a number of hit points.                                        *)
(***************************************************************************)
EXTENDS Naturals, FiniteSets, Sequences, SequencesExt

CONSTANTS
  Names,         \* of pokemon; both sides may have one of the same name
  TeamSize,
  MaxHp,
  MaxMessages,   \* bound: messages of a battle
  MaxMissed,     \* bound: the ones of them the client misses
  None

Sides == {"p1", "p2"}

ASSUME BattleAssumption ==
  /\ IsFiniteSet(Names) /\ TeamSize \in 1 .. Cardinality(Names)
  /\ MaxHp \in Nat \ {0} /\ MaxMessages \in Nat /\ MaxMissed \in Nat
  /\ None \notin Sides

Other(s) == CHOOSE t \in Sides : t # s

VARIABLES
  m_your_side,         \* None until the first request
  m_your_team,
  m_opponent_team,
  m_force_switch,
  m_available_moves,
  m_turn,
  you,                 \* external: the side the server has given us
  late,                \* external: did we join a battle under way?
  srv,                 \* external: the battle as announced so far
  offered,             \* history: the names in the last request, in order
  blind,               \* history: a lead was announced before the first request
  stale,               \* history: what changed without the client being told
  settled,             \* history: the opponent switched after the first request
  messages,            \* history: how many messages came
  misses               \* history: how many of them the client missed

stateVars  == <<m_your_side, m_your_team, m_opponent_team, m_force_switch,
                m_available_moves, m_turn>>
teamVars   == <<m_your_team, m_opponent_team>>
choiceVars == <<m_your_side, m_force_switch, m_available_moves, offered>>
vars == <<stateVars, you, late, srv, offered, blind, stale, settled, messages, misses>>

-----------------------------------------------------------------------------
(* The client *)

Pokemon == [side : Sides, name : Names, active : BOOLEAN, fainted : BOOLEAN,
            hp : 0 .. MaxHp + 1]

(* An int no one has initialized: right by chance, or not. *)
Junk == {0, MaxHp + 1}

(* Until the first request every ident belongs to the opponent's team. *)
TeamOf(s) == IF s = m_your_side THEN m_your_team ELSE m_opponent_team

SetTeam(s, team) ==
  /\ m_your_team'     = IF s = m_your_side THEN team ELSE m_your_team
  /\ m_opponent_team' = IF s = m_your_side THEN m_opponent_team ELSE team

(* find_pokemon(): the first of this name, or 0 *)
Find(team, n) == SelectInSeq(team, LAMBDA p : p.name = n)

(* What a condition with a slash sets; "0 fnt" has none. *)
Condition(old, h) == IF h > 0 THEN h ELSE old

(* Mutant: only a pokemon in battle is looked for. *)
ApplyHpActive(s, n, h) ==
  LET i == SelectInSeq(TeamOf(s), LAMBDA p : p.name = n /\ p.active)
  IN  IF i = 0 THEN UNCHANGED teamVars
      ELSE SetTeam(s, [TeamOf(s) EXCEPT ![i].hp = Condition(@, h)])

(* -damage, -heal *)
ApplyHp(s, n, h) ==
  LET i == Find(TeamOf(s), n)
  IN  IF i = 0 THEN UNCHANGED teamVars
      ELSE SetTeam(s, [TeamOf(s) EXCEPT ![i].hp = Condition(@, h)])

ApplyFaint(s, n) ==
  LET i == Find(TeamOf(s), n)
  IN  IF i = 0 THEN UNCHANGED teamVars
      ELSE SetTeam(s, [TeamOf(s) EXCEPT ![i].fainted = TRUE, ![i].active = FALSE, ![i].hp = 0])

(* Mutant: the one that leaves is not marked. *)
ApplySwitchLeaving(s, n, h) ==
  LET i   == Find(TeamOf(s), n)
      new == [side |-> s, name |-> n, active |-> TRUE, fainted |-> FALSE, hp |-> h]
  IN  SetTeam(s, IF i = 0 THEN Append(TeamOf(s), new)
                 ELSE [TeamOf(s) EXCEPT ![i].active = TRUE, ![i].fainted = FALSE,
                                        ![i].hp = Condition(@, h)])

(* Mutant: one that comes back is not marked. *)
ApplySwitchNewOnly(s, n, h) ==
  LET bench == [i \in DOMAIN TeamOf(s) |-> [TeamOf(s)[i] EXCEPT !.active = FALSE]]
      i     == Find(bench, n)
      new   == [side |-> s, name |-> n, active |-> TRUE, fainted |-> FALSE, hp |-> h]
  IN  SetTeam(s, IF i = 0 THEN Append(bench, new)
                 ELSE [bench EXCEPT ![i].hp = Condition(@, h)])

(* switch, drag *)
ApplySwitch(s, n, h) ==
  LET bench == [i \in DOMAIN TeamOf(s) |-> [TeamOf(s)[i] EXCEPT !.active = FALSE]]
      i     == Find(bench, n)
      new   == [side |-> s, name |-> n, active |-> TRUE, fainted |-> FALSE, hp |-> h]
  IN  SetTeam(s, IF i = 0 THEN Append(bench, new)
                 ELSE [bench EXCEPT ![i].active = TRUE, ![i].fainted = FALSE,
                                    ![i].hp = Condition(@, h)])

(* remove_if() and erase(): those that are not of side s, in their order *)
WithoutSide(team, s) ==
  LET kept    == {i \in DOMAIN team : team[i].side # s}
      rank(i) == Cardinality({j \in kept : j <= i})
  IN  [k \in 1 .. Cardinality(kept) |-> team[CHOOSE i \in kept : rank(i) = k]]

(* The team of the first request.  hp is not set for one that has fainted. *)
FromRequest(s, order, hp, junk) ==
  [i \in 1 .. TeamSize |->
     [side |-> s, name |-> order[i], active |-> i = 1, fainted |-> FALSE,
      hp |-> Condition(junk[i], hp[order[i]])]]

(* Mutant: every request brings the team again. *)
ApplyRequestRefilling(kind, s, order, hp) ==
  /\ m_your_side' = s
  /\ m_your_team' = m_your_team \o FromRequest(s, order, hp, [i \in 1 .. TeamSize |-> 0])
  /\ m_opponent_team' = WithoutSide(m_opponent_team, s)
  /\ m_force_switch' = (kind = "switch")
  /\ m_available_moves' = IF kind = "move" THEN {"move"} ELSE {}

(* Mutant: no clean-up. *)
ApplyRequestUnsorted(kind, s, order, hp) ==
  /\ IF m_your_side = None
     THEN /\ m_your_side' = s
          /\ m_your_team' = FromRequest(s, order, hp, [i \in 1 .. TeamSize |-> 0])
          /\ UNCHANGED m_opponent_team
     ELSE UNCHANGED <<m_your_side, teamVars>>
  /\ m_force_switch' = (kind = "switch")
  /\ m_available_moves' = IF kind = "move" THEN {"move"} ELSE {}

(* A request that is not empty.  The opponent's team loses what has our    *)
(* side in its ident.                                                      *)
ApplyRequest(kind, s, order, hp) ==
  /\ IF m_your_side = None
     THEN /\ m_your_side' = s
          /\ \E junk \in [1 .. TeamSize -> Junk] :
               m_your_team' = FromRequest(s, order, hp, junk)
          /\ m_opponent_team' = WithoutSide(m_opponent_team, s)
     ELSE UNCHANGED <<m_your_side, teamVars>>
  /\ m_force_switch' = (kind = "switch")
  /\ m_available_moves' = IF kind = "move" THEN {"move"} ELSE {}

-----------------------------------------------------------------------------
(* The server.  The first of order is the one in battle; it stays first    *)
(* when it has fainted, until another takes its place.                     *)

Lead(s)     == Head(srv.order[s])
Alive(s, n) == srv.hp[s][n] > 0

Orders == {o \in [1 .. TeamSize -> Names] : IsInjective(o)}

Init ==
  /\ m_your_side = None /\ m_your_team = <<>> /\ m_opponent_team = <<>>
  /\ m_force_switch \in BOOLEAN      \* not initialized
  /\ m_available_moves = {}
  /\ m_turn = None                   \* not initialized, and never read
  /\ you \in Sides /\ late \in BOOLEAN
  /\ \E o \in [Sides -> Orders] :
       srv = [order |-> o, hp |-> [s \in Sides |-> [n \in Names |-> MaxHp]],
              out |-> [s \in Sides |-> {}], down |-> [s \in Sides |-> {}], turn |-> 0,
              asked |-> FALSE]
  /\ offered = <<>> /\ blind = FALSE /\ stale = [hp |-> {}, active |-> {}]
  /\ settled = FALSE /\ messages = 0 /\ misses = 0

(* One more message, which the client hears or misses *)
Announce(heard) ==
  /\ messages < MaxMessages
  /\ messages' = messages + 1
  /\ heard \/ misses < MaxMissed
  /\ misses' = IF heard THEN misses ELSE misses + 1
  /\ UNCHANGED <<you, late>>

(* What is stale once n's hit points have changed to h, or n has switched  *)
(* in: a message that is applied puts right what an earlier one left.      *)
HpTold(heard, s, n, h) ==
  stale' = [stale EXCEPT !.hp =
              IF ~heard THEN @ \cup {<<s, n>>}
              ELSE IF h > 0 /\ Find(TeamOf(s), n) # 0 THEN @ \ {<<s, n>>} ELSE @]

SwitchTold(heard, s, n) ==
  stale' = IF heard THEN [hp |-> stale.hp \ {<<s, n>>}, active |-> stale.active \ {s}]
           ELSE [hp |-> IF n \in srv.out[s] THEN stale.hp ELSE stale.hp \cup {<<s, n>>},
                 active |-> stale.active \cup {s}]

LeadsOut == \A s \in Sides : srv.out[s] # {}

(* The leads come out, p1's first; in a battle just found the request has  *)
(* come before.                                                            *)
SendLead(s, heard) ==
  /\ Announce(heard)
  /\ srv.out[s] = {}
  /\ s = "p2" => srv.out["p1"] # {}
  /\ late \/ srv.asked
  /\ srv' = [srv EXCEPT !.out[s] = {Lead(s)}]
  /\ IF heard THEN ApplySwitch(s, Lead(s), srv.hp[s][Lead(s)]) ELSE UNCHANGED teamVars
  /\ SwitchTold(heard, s, Lead(s))
  /\ blind' = (blind \/ (heard /\ m_your_side = None))
  /\ UNCHANGED <<choiceVars, m_turn, settled>>

(* Another pokemon, still able to fight, changes places with the first. *)
SendSwitch(s, heard) ==
  /\ Announce(heard)
  /\ LeadsOut
  /\ Alive(s, Lead(s)) \/ Lead(s) \in srv.down[s]
  /\ \E i \in 2 .. TeamSize :
       LET n == srv.order[s][i]
       IN  /\ Alive(s, n)
           /\ srv' = [srv EXCEPT !.order[s] = [@ EXCEPT ![1] = n, ![i] = Lead(s)],
                                 !.out[s] = @ \cup {n}]
           /\ IF heard THEN ApplySwitch(s, n, srv.hp[s][n]) ELSE UNCHANGED teamVars
           /\ SwitchTold(heard, s, n)
  /\ blind' = (blind \/ (heard /\ m_your_side = None))
  /\ settled' = (settled \/ (heard /\ m_your_side # None /\ s # you))
  /\ UNCHANGED <<choiceVars, m_turn>>

SendDamage(s, heard) ==
  /\ Announce(heard)
  /\ LeadsOut
  /\ \E h \in 0 .. srv.hp[s][Lead(s)] - 1 :
       /\ srv' = [srv EXCEPT !.hp[s][Lead(s)] = h]
       /\ IF heard THEN ApplyHp(s, Lead(s), h) ELSE UNCHANGED teamVars
       /\ HpTold(heard, s, Lead(s), h)
  /\ UNCHANGED <<choiceVars, m_turn, blind, settled>>

(* One in battle recovers, or one that has fainted is revived: then it may *)
(* be one the opponent brought in before.                                  *)
SendHeal(s, heard) ==
  /\ Announce(heard)
  /\ LeadsOut
  /\ \E n \in srv.out[s] :
       /\ IF n = Lead(s) THEN Alive(s, n) ELSE n \in srv.down[s]
       /\ \E h \in srv.hp[s][n] + 1 .. MaxHp :
            /\ srv' = [srv EXCEPT !.hp[s][n] = h, !.down[s] = @ \ {n}]
            /\ IF heard THEN ApplyHp(s, n, h) ELSE UNCHANGED teamVars
            /\ HpTold(heard, s, n, h)
  /\ UNCHANGED <<choiceVars, m_turn, blind, settled>>

SendFaint(s, heard) ==
  /\ Announce(heard)
  /\ LeadsOut
  /\ ~Alive(s, Lead(s)) /\ Lead(s) \notin srv.down[s]
  /\ srv' = [srv EXCEPT !.down[s] = @ \cup {Lead(s)}]
  /\ IF heard THEN ApplyFaint(s, Lead(s)) ELSE UNCHANGED teamVars
  /\ UNCHANGED <<choiceVars, m_turn, blind, stale, settled>>

SendTurn ==
  /\ Announce(TRUE)
  /\ LeadsOut
  /\ srv' = [srv EXCEPT !.turn = @ + 1]
  /\ m_turn' = srv'.turn
  /\ UNCHANGED <<choiceVars, teamVars, blind, stale, settled>>

(* A choice of a move, of a replacement, or none for now: the server may   *)
(* ask.                                                                    *)
MayAsk(kind) ==
  /\ IF srv.asked THEN LeadsOut ELSE late <=> LeadsOut
  /\ kind = "move"   => Alive(you, Lead(you))
  /\ kind = "switch" => Lead(you) \in srv.down[you]

SendRequest(kind) ==
  /\ Announce(TRUE)
  /\ MayAsk(kind)
  /\ srv' = [srv EXCEPT !.asked = TRUE]
  /\ ApplyRequest(kind, you, srv.order[you], srv.hp[you])
  /\ stale' = IF m_your_side # None THEN stale
              ELSE [hp |-> stale.hp \ ({you} \X Names), active |-> stale.active \ {you}]
  /\ offered' = srv.order[you]
  /\ UNCHANGED <<m_turn, blind, settled>>

LoseRequest(kind) ==
  /\ Announce(FALSE)
  /\ MayAsk(kind)
  /\ srv' = [srv EXCEPT !.asked = TRUE]
  /\ UNCHANGED <<stateVars, offered, blind, stale, settled>>

(* "|request|" with nothing in it: apply_request() returns at once. *)
SendEmptyRequest ==
  /\ Announce(TRUE)
  /\ UNCHANGED <<stateVars, srv, offered, blind, stale, settled>>

Ended == messages = MaxMessages /\ UNCHANGED vars

Next ==
  \/ \E s \in Sides, heard \in BOOLEAN :
       \/ SendLead(s, heard) \/ SendSwitch(s, heard)
       \/ SendDamage(s, heard) \/ SendHeal(s, heard) \/ SendFaint(s, heard)
  \/ SendTurn
  \/ \E k \in {"move", "switch", "wait"} : SendRequest(k) \/ LoseRequest(k)
  \/ SendEmptyRequest
  \/ Ended

Spec == Init /\ [][Next]_vars

-----------------------------------------------------------------------------
(* The type invariant. *)
TypeOK ==
  /\ m_your_side \in Sides \cup {None}
  /\ m_your_team \in Seq(Pokemon) /\ Len(m_your_team) \in {0, TeamSize}
  /\ m_opponent_team \in Seq(Pokemon)
  /\ m_force_switch \in BOOLEAN
  /\ m_available_moves \subseteq {"move"}
  /\ m_turn \in Nat \cup {None}
  /\ stale.hp \subseteq Sides \X Names /\ stale.active \subseteq Sides

(* A team never shows two pokemon in battle, nor one pokemon twice, even   *)
(* while the sides are unknown and both are taken for the opponent's.      *)
OneActive ==
  \A team \in {m_your_team, m_opponent_team} :
    \A i, j \in DOMAIN team :
      i # j => /\ ~(team[i].active /\ team[j].active)
               /\ team[i].name # team[j].name

(* What the client shows of a pokemon of side s that can still fight is    *)
(* what the server said last, unless it missed it and nothing has put it   *)
(* right since.                                                            *)
Right(team, s) ==
  \A i \in DOMAIN team :
    LET p == team[i]
    IN  Alive(s, p.name) =>
          /\ <<s, p.name>> \in stale.hp \/ p.hp = srv.hp[s][p.name]
          /\ s \in stale.active \/ (p.active <=> p.name = Lead(s))

(* From the first request on, however late it comes, the own team is the   *)
(* one the server has, with the right hit points and the right one in      *)
(* battle, through any sequence of switches, hits, faints and revivals;    *)
(* what a missed message leaves wrong, the next one about it puts right.   *)
YourTeamIsRight ==
  m_your_side # None =>
    /\ {m_your_team[i].name : i \in DOMAIN m_your_team} = ToSet(srv.order[you])
    /\ Right(m_your_team, you)

(* The opponent's team: what has been in battle so far and was not missed. *)
OpponentComplete ==
  LET s    == Other(you)
      team == {m_opponent_team[i].name : i \in DOMAIN m_opponent_team}
  IN  /\ \A n \in srv.out[s] \ team : <<s, n>> \in stale.hp
      /\ Right(m_opponent_team, s)

(* The clean-up of the first request leaves none of ours behind, and when  *)
(* that request came before the leads, as in a battle just found, the      *)
(* opponent's team is right as well.                                       *)
OpponentIsRight ==
  m_your_side # None =>
    /\ \A i \in DOMAIN m_opponent_team :
         /\ m_opponent_team[i].side # you
         /\ m_opponent_team[i].name \in srv.out[Other(you)]
    /\ blind \/ OpponentComplete

(* One joined late gets the opponent's active pokemon right with the       *)
(* opponent's next switch, as does one who missed a switch.                *)
SettlesWithSwitch ==
  settled /\ Other(you) \notin stale.active /\ Alive(Other(you), Lead(Other(you))) =>
    \E i \in DOMAIN m_opponent_team :
      /\ m_opponent_team[i].active
      /\ m_opponent_team[i].name = Lead(Other(you))

-----------------------------------------------------------------------------
(* What comments and screens of the program say. *)

(* battlestate.cpp, on the clean-up: "If our lead pokemon was accidentally *)
(* put on the opponents team during the opening switches, this erases it": *)
(* what is left is the opponent's team as the opening switches showed it.  *)
CleanUpSorts ==
  late /\ m_your_side # None /\ (\A s \in Sides : srv.out[s] = {Lead(s)})
    => OpponentComplete

(* psapp.cpp, BattleLayer::on_render() shows the own team as "[s1]" to     *)
(* "[s6]", the numbers "[s<1-6>] Switch" goes by: those of the request.    *)
SlotsAsOffered ==
  offered # <<>> => [i \in DOMAIN m_your_team |-> m_your_team[i].name] = offered

=============================================================================
