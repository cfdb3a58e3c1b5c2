-------------------------- MODULE BattleStateProofs --------------------------
(***************************************************************************)
(* What a battle layer shows is what the server announced: for any team    *)
(* size, any names and hit points, any length of a battle and any number   *)
(* of messages missed.                                                     *)
(*                                                                         *)
(* The lemmas about the handlers say what each makes of a team by name, so *)
(* that the invariant speaks of names too and never of places in a vector. *)
(***************************************************************************)
EXTENDS BattleState, OrderLemmas, SequenceTheorems, TLAPS

(* The server's account, by type.  Only one still in its ball has all its  *)
(* hit points for certain.                                                 *)
SrvOK ==
  /\ you \in Sides
  /\ srv \in [order : [Sides -> Orders], hp : [Sides -> [Names -> 0 .. MaxHp]],
              out : [Sides -> SUBSET Names], down : [Sides -> SUBSET Names],
              turn : Nat, asked : BOOLEAN]
  /\ stale \in [hp : SUBSET (Sides \X Names), active : SUBSET Sides]
  /\ blind \in BOOLEAN /\ settled \in BOOLEAN

HasName(team, n) == \E i \in DOMAIN team : team[i].name = n

OneNameEach(team) == \A i, j \in DOMAIN team : team[i].name = team[j].name => i = j

OnlyOneActive(team) ==
  \A i, j \in DOMAIN team : team[i].active /\ team[j].active => i = j

Fine(team) == team \in Seq(Pokemon) /\ OneNameEach(team) /\ OnlyOneActive(team)

(* The own side is not known, or known and right; so is the team.          *)
SideKnown ==
  /\ m_your_side \in {None, you}
  /\ m_your_side = None => m_your_team = <<>>
  /\ m_your_side = you  =>
       /\ Len(m_your_team) = TeamSize
       /\ \A n \in Names : HasName(m_your_team, n)
                             <=> \E k \in 1 .. TeamSize : srv.order[you][k] = n

(* What a team shows of side s with these hit points and this lead, unless *)
(* a name is unsure or the side adrift.  The lead stays the only one that  *)
(* may be shown in battle when it has fainted, or it would be shown there  *)
(* when revived.                                                           *)
Shows(team, s, hp, lead, unsure, adrift) ==
  \A i \in DOMAIN team :
    LET p == team[i]
    IN  /\ hp[p.name] > 0 => /\ p.name \in unsure \/ p.hp = hp[p.name]
                             /\ s \in adrift \/ p.name # lead \/ p.active
        /\ s \in adrift \/ ~p.active \/ p.name = lead

Unsure(s) == {n \in Names : <<s, n>> \in stale.hp}

ShowsSide(team, s) ==
  Shows(team, s, srv.hp[s], srv.order[s][1], Unsure(s), stale.active)

YourTeamShows == m_your_side = you => ShowsSide(m_your_team, you)

(* Who is on the opponent's team has been in battle, on its own side; once *)
(* our side is known, on the other.                                        *)
OpponentsOut ==
  \A i \in DOMAIN m_opponent_team :
    /\ m_opponent_team[i].name \in srv.out[m_opponent_team[i].side]
    /\ m_your_side = you => m_opponent_team[i].side # you

(* Unless someone came out before the first request, the opponent's team   *)
(* misses no one the client has heard of, and shows the others' side only. *)
OpponentShows ==
  ~blind =>
    /\ m_your_side = None => m_opponent_team = <<>>
    /\ \A n \in srv.out[Other(you)] :
         HasName(m_opponent_team, n) \/ n \in Unsure(Other(you))
    /\ ShowsSide(m_opponent_team, Other(you))

LeadShown ==
  settled =>
    /\ m_your_side = you
    /\ \/ Other(you) \in stale.active
       \/ srv.hp[Other(you)][srv.order[Other(you)][1]] = 0
       \/ \E i \in DOMAIN m_opponent_team :
            /\ m_opponent_team[i].active
            /\ m_opponent_team[i].name = srv.order[Other(you)][1]

(* The inductive invariant. *)
TeamsInv ==
  /\ SideKnown
  /\ Fine(m_your_team) /\ Fine(m_opponent_team)
  /\ YourTeamShows /\ OpponentsOut /\ OpponentShows /\ LeadShown

IInv == TypeOK /\ SrvOK /\ TeamsInv

-----------------------------------------------------------------------------
(* What the handlers make of a team. *)

HpTeam(team, n, h) ==
  LET i == Find(team, n)
  IN  IF i = 0 THEN team ELSE [team EXCEPT ![i].hp = Condition(@, h)]

FaintTeam(team, n) ==
  LET i == Find(team, n)
  IN  IF i = 0 THEN team
      ELSE [team EXCEPT ![i].fainted = TRUE, ![i].active = FALSE, ![i].hp = 0]

Bench(team) == [i \in DOMAIN team |-> [team[i] EXCEPT !.active = FALSE]]

SwitchTeam(team, s, n, h) ==
  LET i   == Find(Bench(team), n)
      new == [side |-> s, name |-> n, active |-> TRUE, fainted |-> FALSE, hp |-> h]
  IN  IF i = 0 THEN Append(Bench(team), new)
      ELSE [Bench(team) EXCEPT ![i].active = TRUE, ![i].fainted = FALSE,
                               ![i].hp = Condition(@, h)]

LEMMA FindByName ==
  ASSUME NEW team \in Seq(Pokemon), NEW n
  PROVE  \/ Find(team, n) = 0 /\ ~HasName(team, n)
         \/ /\ Find(team, n) \in 1 .. Len(team) /\ HasName(team, n)
            /\ team[Find(team, n)].name = n
<1> DEFINE I == {i \in 1 .. Len(team) : team[i].name = n}
<1>1. Find(team, n) = IF I # {} THEN Min(I) ELSE 0
  BY DEF Find, SelectInSeq
<1>2. HasName(team, n) <=> I # {}
  BY DEF HasName
<1>3. CASE I # {}
  <2>1. I \in SUBSET Nat
    OBVIOUS
  <2>2. \E i \in I : \A j \in I : i <= j
    <3> HIDE DEF I
    <3>1. QED
      BY <1>3, <2>1, LeastNatural
  <2>3. Min(I) \in I
    <3> HIDE DEF I
    <3>1. QED
      BY <2>2, Zenon DEF Min
  <2>4. QED
    BY <1>1, <1>2, <1>3, <2>3
<1>4. QED
  BY <1>1, <1>2, <1>3

(* Hit points: those of the one of this name, if the condition has any. *)
LEMMA HpByName ==
  ASSUME NEW team \in Seq(Pokemon), OneNameEach(team),
         NEW n \in Names, NEW h \in 0 .. MaxHp
  PROVE  LET r == HpTeam(team, n, h)
         IN  /\ r \in Seq(Pokemon) /\ Len(r) = Len(team)
             /\ \A i \in 1 .. Len(team) :
                  /\ r[i].side = team[i].side /\ r[i].name = team[i].name
                  /\ r[i].active = team[i].active
                  /\ r[i].hp = IF team[i].name = n /\ h > 0 THEN h ELSE team[i].hp
<1> DEFINE r == HpTeam(team, n, h)
           f == Find(team, n)
<1>1. MaxHp \in Nat
  BY BattleAssumption
<1>2. CASE f = 0
  <2>1. r = team /\ \A i \in 1 .. Len(team) : team[i].name # n
    BY <1>2, FindByName DEF HpTeam, HasName
  <2>2. QED
    BY <2>1
<1>3. CASE f # 0
  <2>1. f \in 1 .. Len(team) /\ team[f].name = n
    BY <1>3, FindByName
  <2>2. r = [team EXCEPT ![f] = [team[f] EXCEPT !.hp = Condition(team[f].hp, h)]]
    BY <1>3 DEF HpTeam
  <2> HIDE DEF r, f
  <2>3. team[f] \in Pokemon /\ Condition(team[f].hp, h) \in 0 .. MaxHp + 1
    <3>1. team[f] \in Pokemon
      BY <2>1
    <3>2. QED
      BY <1>1, <3>1 DEF Condition, Pokemon
  <2>4. [team[f] EXCEPT !.hp = Condition(team[f].hp, h)] \in Pokemon
    BY <2>3 DEF Pokemon
  <2>5. r \in Seq(Pokemon) /\ Len(r) = Len(team)
    BY <2>1, <2>2, <2>4
  <2>6. ASSUME NEW i \in 1 .. Len(team)
        PROVE  /\ r[i].side = team[i].side /\ r[i].name = team[i].name
               /\ r[i].active = team[i].active
               /\ r[i].hp = IF team[i].name = n /\ h > 0 THEN h ELSE team[i].hp
    <3>1. CASE i = f
      <4>1. r[i] = [team[f] EXCEPT !.hp = Condition(team[f].hp, h)]
        BY <2>1, <2>2, <3>1
      <4>2. QED
        BY <2>1, <2>3, <3>1, <4>1 DEF Pokemon, Condition
    <3>2. CASE i # f
      <4>1. r[i] = team[i]
        BY <2>1, <2>2, <3>2
      <4>2. team[i].name # n
        BY <2>1, <3>2 DEF OneNameEach
      <4>3. QED
        BY <4>1, <4>2
    <3>3. QED
      BY <3>1, <3>2
  <2>7. QED
    BY <2>5, <2>6 DEF r
<1>4. QED
  BY <1>2, <1>3
(* The one of this name faints, wherever it is. *)
LEMMA FaintByName ==
  ASSUME NEW team \in Seq(Pokemon), OneNameEach(team), NEW n \in Names
  PROVE  LET r == FaintTeam(team, n)
         IN  /\ r \in Seq(Pokemon) /\ Len(r) = Len(team)
             /\ \A i \in 1 .. Len(team) :
                  /\ r[i].side = team[i].side /\ r[i].name = team[i].name
                  /\ r[i].active = IF team[i].name = n THEN FALSE ELSE team[i].active
                  /\ r[i].hp = IF team[i].name = n THEN 0 ELSE team[i].hp
<1> DEFINE r == FaintTeam(team, n)
           f == Find(team, n)
           down == [team[f] EXCEPT !.fainted = TRUE, !.active = FALSE, !.hp = 0]
<1>1. MaxHp \in Nat
  BY BattleAssumption
<1>2. CASE f = 0
  <2>1. r = team /\ \A i \in 1 .. Len(team) : team[i].name # n
    BY <1>2, FindByName DEF FaintTeam, HasName
  <2>2. QED
    BY <2>1
<1>3. CASE f # 0
  <2>1. f \in 1 .. Len(team) /\ team[f].name = n
    BY <1>3, FindByName
  <2>2. r = [team EXCEPT ![f] = down]
    BY <1>3, <2>1 DEF FaintTeam
  <2> HIDE DEF r, f
  <2>3. team[f] \in Pokemon
    BY <2>1
  <2>4. /\ down \in Pokemon /\ down.side = team[f].side /\ down.name = team[f].name
        /\ down.active = FALSE /\ down.hp = 0
    <3>1. 0 \in 0 .. MaxHp + 1
      BY <1>1
    <3>2. DOMAIN team[f] = {"side", "name", "active", "fainted", "hp"}
      BY <2>3 DEF Pokemon
    <3>3. /\ down.side = team[f].side /\ down.name = team[f].name
          /\ down.active = FALSE /\ down.hp = 0
      BY <3>2
    <3>4. down \in Pokemon
      BY <2>3, <3>1 DEF Pokemon
    <3>5. QED
      BY <3>3, <3>4
  <2> HIDE DEF down
  <2>5. r \in Seq(Pokemon) /\ Len(r) = Len(team)
    BY <2>1, <2>2, <2>4
  <2>6. ASSUME NEW i \in 1 .. Len(team)
        PROVE  /\ r[i].side = team[i].side /\ r[i].name = team[i].name
               /\ r[i].active = IF team[i].name = n THEN FALSE ELSE team[i].active
               /\ r[i].hp = IF team[i].name = n THEN 0 ELSE team[i].hp
    <3>1. CASE i = f
      <4>1. r[i] = down
        BY <2>1, <2>2, <3>1
      <4>2. QED
        BY <2>1, <2>4, <3>1, <4>1
    <3>2. CASE i # f
      <4>1. r[i] = team[i]
        BY <2>1, <2>2, <3>2
      <4>2. team[i].name # n
        BY <2>1, <3>2 DEF OneNameEach
      <4>3. QED
        BY <4>1, <4>2
    <3>3. QED
      BY <3>1, <3>2
  <2>7. QED
    BY <2>5, <2>6 DEF r
<1>4. QED
  BY <1>2, <1>3

LEMMA BenchByName ==
  ASSUME NEW team \in Seq(Pokemon)
  PROVE  /\ Bench(team) \in Seq(Pokemon) /\ Len(Bench(team)) = Len(team)
         /\ \A i \in 1 .. Len(team) :
              /\ Bench(team)[i].side = team[i].side /\ Bench(team)[i].name = team[i].name
              /\ Bench(team)[i].active = FALSE
              /\ Bench(team)[i].hp = team[i].hp
<1> DEFINE b(i) == [team[i] EXCEPT !.active = FALSE]
           r == Bench(team)
<1>1. ASSUME NEW i \in 1 .. Len(team)
      PROVE  /\ b(i) \in Pokemon /\ b(i).side = team[i].side /\ b(i).name = team[i].name
             /\ b(i).active = FALSE /\ b(i).hp = team[i].hp
  <2>1. team[i] \in Pokemon
    OBVIOUS
  <2>2. QED
    BY <2>1 DEF Pokemon
<1>2. r = [i \in 1 .. Len(team) |-> b(i)]
  BY DEF Bench
<1> HIDE DEF b, r
<1>3. r \in Seq(Pokemon) /\ Len(r) = Len(team)
  <2>1. \A i \in 1 .. Len(team) : b(i) \in Pokemon
    BY <1>1
  <2>2. r \in [1 .. Len(team) -> Pokemon] /\ Len(team) \in Nat
    BY <1>2, <2>1
  <2>3. QED
    BY <2>2
<1>4. ASSUME NEW i \in 1 .. Len(team)
      PROVE  /\ r[i].side = team[i].side /\ r[i].name = team[i].name
             /\ r[i].active = FALSE /\ r[i].hp = team[i].hp
  <2>1. r[i] = b(i)
    BY <1>2
  <2>2. QED
    BY <1>1, <2>1, Zenon
<1>5. QED
  BY <1>3, <1>4, Zenon DEF r

(* Who comes in is then the only one active, has the hit points announced  *)
(* and joins the team if it was not there.                                 *)
LEMMA SwitchByName ==
  ASSUME NEW team \in Seq(Pokemon), OneNameEach(team),
         NEW s \in Sides, NEW n \in Names, NEW h \in 0 .. MaxHp
  PROVE  LET r == SwitchTeam(team, s, n, h)
         IN  /\ r \in Seq(Pokemon) /\ OneNameEach(r) /\ HasName(r, n)
             /\ Len(r) >= Len(team) /\ (HasName(team, n) => Len(r) = Len(team))
             /\ \A i \in 1 .. Len(team) :
                  r[i].side = team[i].side /\ r[i].name = team[i].name
             /\ \A i \in 1 .. Len(r) :
                  /\ r[i].active = (r[i].name = n)
                  /\ r[i].name = n /\ h > 0 => r[i].hp = h
                  /\ r[i].name # n => i \in 1 .. Len(team) /\ r[i].hp = team[i].hp
                  /\ i \notin 1 .. Len(team) => r[i].side = s /\ r[i].name = n
<1> DEFINE r == SwitchTeam(team, s, n, h)
           bench == Bench(team)
           f == Find(bench, n)
           new == [side |-> s, name |-> n, active |-> TRUE, fainted |-> FALSE, hp |-> h]
           back == [bench[f] EXCEPT !.active = TRUE, !.fainted = FALSE,
                                    !.hp = Condition(bench[f].hp, h)]
<1>1. MaxHp \in Nat
  BY BattleAssumption
<1>2. /\ bench \in Seq(Pokemon) /\ Len(bench) = Len(team)
      /\ \A i \in 1 .. Len(team) :
           /\ bench[i].side = team[i].side /\ bench[i].name = team[i].name
           /\ bench[i].active = FALSE /\ bench[i].hp = team[i].hp
  BY BenchByName
<1>3. /\ HasName(bench, n) <=> HasName(team, n)
      /\ OneNameEach(bench)
  <2>1. DOMAIN bench = 1 .. Len(team) /\ DOMAIN team = 1 .. Len(team)
    BY <1>2
  <2>2. \A i \in 1 .. Len(team) : bench[i].name = team[i].name
    BY <1>2
  <2> HIDE DEF bench
  <2>3. HasName(bench, n) <=> HasName(team, n)
    BY <2>1, <2>2 DEF HasName
  <2>4. OneNameEach(bench)
    BY <2>1, <2>2 DEF OneNameEach
  <2>5. QED
    BY <2>3, <2>4
<1>4. CASE f = 0
  <2>1. r = Append(bench, new) /\ \A i \in 1 .. Len(team) : team[i].name # n
    BY <1>2, <1>3, <1>4, FindByName DEF SwitchTeam, HasName
  <2>2. new \in Pokemon
    BY <1>1 DEF Pokemon
  <2>3. new.side = s /\ new.name = n /\ new.active = TRUE /\ new.hp = h
    OBVIOUS
  <2>4. ~HasName(team, n)
    BY <2>1 DEF HasName
  <2> HIDE DEF r, f, bench, new
  <2>5. /\ r \in Seq(Pokemon) /\ Len(r) = Len(team) + 1
        /\ \A i \in 1 .. Len(team) : r[i] = bench[i]
        /\ r[Len(team) + 1] = new
    BY <1>2, <2>1, <2>2
  <2>6. \A i \in 1 .. Len(r) : i \in 1 .. Len(team) \/ i = Len(team) + 1
    BY <2>5
  <2>7. OneNameEach(r) /\ HasName(r, n)
    BY <1>2, <2>1, <2>3, <2>5, <2>6 DEF OneNameEach, HasName
  <2>8. \A i \in 1 .. Len(team) :
          /\ r[i].side = team[i].side /\ r[i].name = team[i].name /\ r[i].name # n
          /\ r[i].active = FALSE /\ r[i].hp = team[i].hp
    BY <1>2, <2>1, <2>5
  <2>9. ASSUME NEW i \in 1 .. Len(r)
        PROVE  /\ r[i].active = (r[i].name = n)
               /\ r[i].name = n /\ h > 0 => r[i].hp = h
               /\ r[i].name # n => i \in 1 .. Len(team) /\ r[i].hp = team[i].hp
               /\ i \notin 1 .. Len(team) => r[i].side = s /\ r[i].name = n
    BY <2>3, <2>5, <2>6, <2>8
  <2>10. Len(r) >= Len(team)
    BY <2>5
  <2>11. QED
    BY <2>4, <2>5, <2>7, <2>8, <2>9, <2>10 DEF r
<1>5. CASE f # 0
  <2>1. f \in 1 .. Len(team) /\ bench[f].name = n /\ HasName(team, n)
    BY <1>2, <1>3, <1>5, FindByName
  <2>2. r = [bench EXCEPT ![f] = back]
    BY <1>5, <2>1 DEF SwitchTeam
  <2> HIDE DEF r, f, bench
  <2>3. bench[f] \in Pokemon
    BY <1>2, <2>1
  <2>4. Condition(bench[f].hp, h) \in 0 .. MaxHp + 1
    BY <1>1, <2>3 DEF Condition, Pokemon
  <2>5. /\ back \in Pokemon /\ back.side = bench[f].side /\ back.name = bench[f].name
        /\ back.active = TRUE /\ back.hp = Condition(bench[f].hp, h)
    BY <2>3, <2>4 DEF Pokemon
  <2> HIDE DEF back
  <2>6. /\ r \in Seq(Pokemon) /\ Len(r) = Len(team)
        /\ r[f] = back /\ \A i \in 1 .. Len(team) : i # f => r[i] = bench[i]
    BY <1>2, <2>1, <2>2, <2>5
  <2>7. \A i \in 1 .. Len(team) : i # f => bench[i].name # n
    BY <1>2, <1>3, <2>1 DEF OneNameEach
  <2>8. \A i \in 1 .. Len(team) : r[i].side = team[i].side /\ r[i].name = team[i].name
    BY <1>2, <2>1, <2>5, <2>6
  <2>9. DOMAIN r = 1 .. Len(team) /\ DOMAIN team = 1 .. Len(team)
    BY <2>6
  <2>10. OneNameEach(r)
    BY <2>8, <2>9 DEF OneNameEach
  <2>11. r[f].name = n /\ r[f].active = TRUE /\ (h > 0 => r[f].hp = h)
    BY <2>1, <2>5, <2>6 DEF Condition
  <2>12. HasName(r, n)
    BY <2>1, <2>9, <2>11 DEF HasName
  <2>13. ASSUME NEW i \in 1 .. Len(r)
         PROVE  /\ r[i].active = (r[i].name = n)
                /\ r[i].name = n /\ h > 0 => r[i].hp = h
                /\ r[i].name # n => i \in 1 .. Len(team) /\ r[i].hp = team[i].hp
                /\ i \in 1 .. Len(team)
    <3>1. CASE i = f
      BY <2>1, <2>11, <3>1
    <3>2. CASE i # f
      BY <1>2, <2>6, <2>7, <3>2
    <3>3. QED
      BY <3>1, <3>2
  <2>14. QED
    BY <2>1, <2>6, <2>8, <2>10, <2>12, <2>13 DEF r
<1>6. QED
  BY <1>4, <1>5

(* The clean-up leaves no one of side s and adds no one. *)
LEMMA WithoutSideKeeps ==
  ASSUME NEW team \in Seq(Pokemon), NEW s
  PROVE  LET r == WithoutSide(team, s)
         IN  /\ r \in Seq(Pokemon)
             /\ \A k \in 1 .. Len(r) : \E i \in 1 .. Len(team) :
                  r[k] = team[i] /\ team[i].side # s
             /\ OneNameEach(team) => OneNameEach(r)
             /\ OnlyOneActive(team) => OnlyOneActive(r)
             /\ team = <<>> => r = <<>>
<1> DEFINE kept == {i \in DOMAIN team : team[i].side # s}
           rank(i) == Cardinality({j \in kept : j <= i})
           kth(k) == CHOOSE i \in kept : rank(i) = k
           m == Cardinality(kept)
           r == WithoutSide(team, s)
<1>1. r = [k \in 1 .. m |-> team[kth(k)]]
  BY DEF WithoutSide
<1>2. kept \in SUBSET (1 .. Len(team)) /\ \A i \in kept : team[i].side # s
  OBVIOUS
<1>3. m \in Nat
  <2>1. IsFiniteSet(1 .. Len(team))
    BY FS_Interval
  <2> HIDE DEF kept
  <2>2. QED
    BY <1>2, <2>1, FS_Subset, FS_CardinalityType
<1>4. \A k \in 1 .. m : kth(k) \in kept /\ rank(kth(k)) = k
  <2> HIDE DEF kept
  <2>1. TAKE k \in 1 .. m
  <2>2. \E i \in kept : rank(i) = k
    <3>1. Len(team) \in Nat
      OBVIOUS
    <3>2. QED
      BY <1>2, <3>1, KthPosition
  <2> HIDE DEF rank
  <2>3. QED
    BY <2>2, Zenon
<1>5. team = <<>> => m = 0
  <2>1. team = <<>> => kept = {}
    OBVIOUS
  <2> HIDE DEF kept
  <2>2. QED
    BY <2>1, FS_EmptySet
<1> HIDE DEF kept, rank, kth, m, r
<1>6. \A k, l \in 1 .. m : kth(k) = kth(l) => k = l
  BY <1>4, Zenon
<1>7. /\ r \in Seq(Pokemon) /\ Len(r) = m
      /\ \A k \in 1 .. m : r[k] = team[kth(k)] /\ kth(k) \in 1 .. Len(team)
  <2>1. \A k \in 1 .. m : kth(k) \in 1 .. Len(team)
    BY <1>2, <1>4
  <2>2. \A k \in 1 .. m : team[kth(k)] \in Pokemon
    BY <2>1
  <2>3. QED
    BY <1>1, <1>3, <2>1, <2>2
<1>8. \A k \in 1 .. Len(r) : r[k] = team[kth(k)] /\ team[kth(k)].side # s
  BY <1>2, <1>4, <1>7
<1>9. OneNameEach(team) => OneNameEach(r)
  BY <1>6, <1>7 DEF OneNameEach
<1>10. OnlyOneActive(team) => OnlyOneActive(r)
  BY <1>6, <1>7 DEF OnlyOneActive
<1>11. team = <<>> => r = <<>>
  BY <1>5, <1>7
<1>12. QED
  BY <1>7, <1>8, <1>9, <1>10, <1>11 DEF r

-----------------------------------------------------------------------------
(* What it then shows.  Each lemma has one part for a message that is      *)
(* heard and one for the same message missed.                              *)

SameNames(r, team) ==
  /\ Len(r) = Len(team)
  /\ \A i \in 1 .. Len(team) : r[i].side = team[i].side /\ r[i].name = team[i].name

LEMMA FineHp ==
  ASSUME NEW team, Fine(team), NEW n \in Names, NEW h \in 0 .. MaxHp
  PROVE  LET r == HpTeam(team, n, h)
         IN  /\ Fine(r) /\ SameNames(r, team)
             /\ \A i \in 1 .. Len(team) : r[i].active = team[i].active
<1> DEFINE r == HpTeam(team, n, h)
<1>1. /\ r \in Seq(Pokemon) /\ Len(r) = Len(team)
      /\ \A i \in 1 .. Len(team) :
           /\ r[i].side = team[i].side /\ r[i].name = team[i].name
           /\ r[i].active = team[i].active
  BY HpByName DEF Fine
<1>2. DOMAIN team = 1 .. Len(team) /\ DOMAIN r = 1 .. Len(team)
  BY <1>1 DEF Fine
<1> HIDE DEF r
<1>3. Fine(r)
  BY <1>1, <1>2 DEF Fine, OneNameEach, OnlyOneActive
<1>4. QED
  BY <1>1, <1>3 DEF r, SameNames

LEMMA FineFaint ==
  ASSUME NEW team, Fine(team), NEW n \in Names
  PROVE  LET r == FaintTeam(team, n)
         IN  /\ Fine(r) /\ SameNames(r, team)
             /\ \A i \in 1 .. Len(team) : team[i].name # n => r[i].active = team[i].active
<1> DEFINE r == FaintTeam(team, n)
<1>1. /\ r \in Seq(Pokemon) /\ Len(r) = Len(team)
      /\ \A i \in 1 .. Len(team) :
           /\ r[i].side = team[i].side /\ r[i].name = team[i].name
           /\ r[i].active = (IF team[i].name = n THEN FALSE ELSE team[i].active)
  <2>1. team \in Seq(Pokemon) /\ OneNameEach(team)
    BY DEF Fine
  <2>2. LET down == FaintTeam(team, n)
        IN  /\ down \in Seq(Pokemon) /\ Len(down) = Len(team)
            /\ \A i \in 1 .. Len(team) :
                 /\ down[i].side = team[i].side /\ down[i].name = team[i].name
                 /\ down[i].active = IF team[i].name = n THEN FALSE ELSE team[i].active
                 /\ down[i].hp = IF team[i].name = n THEN 0 ELSE team[i].hp
    BY <2>1, FaintByName
  <2> HIDE DEF r
  <2>3. PICK down \in Seq(Pokemon) :
          /\ down = FaintTeam(team, n) /\ Len(down) = Len(team)
          /\ \A i \in 1 .. Len(team) :
               /\ down[i].side = team[i].side /\ down[i].name = team[i].name
               /\ down[i].active = IF team[i].name = n THEN FALSE ELSE team[i].active
    BY <2>2
  <2>4. QED
    BY <2>3 DEF r
<1>2. DOMAIN team = 1 .. Len(team) /\ DOMAIN r = 1 .. Len(team)
  BY <1>1 DEF Fine
<1> HIDE DEF r
<1>3. Fine(r)
  BY <1>1, <1>2 DEF Fine, OneNameEach, OnlyOneActive
<1>4. QED
  BY <1>1, <1>3 DEF r, SameNames

LEMMA NamesStay ==
  ASSUME NEW team, Fine(team), NEW r, Fine(r), SameNames(r, team)
  PROVE  /\ \A n : HasName(r, n) <=> HasName(team, n)
         /\ team = <<>> => r = <<>>
         /\ DOMAIN r = 1 .. Len(team) /\ DOMAIN team = 1 .. Len(team)
<1>1. DOMAIN r = 1 .. Len(team) /\ DOMAIN team = 1 .. Len(team)
  BY DEF Fine, SameNames
<1>2. team = <<>> => r = <<>>
  BY DEF Fine, SameNames
<1>3. QED
  BY <1>1, <1>2 DEF HasName, SameNames

LEMMA ShowsHp ==
  ASSUME NEW team, Fine(team), NEW hp \in [Names -> 0 .. MaxHp], NEW lead,
         NEW unsure, NEW s, NEW adrift, Shows(team, s, hp, lead, unsure, adrift),
         NEW n \in Names, NEW h \in 0 .. MaxHp, hp[n] > 0 \/ n # lead,
         NEW sure, sure = IF h > 0 /\ HasName(team, n) THEN {n} ELSE {}
  PROVE  LET r   == HpTeam(team, n, h)
             hp1 == [hp EXCEPT ![n] = h]
         IN  /\ Shows(r, s, hp1, lead, unsure \ sure, adrift)
             /\ Shows(team, s, hp1, lead, unsure \cup {n}, adrift)
<1> DEFINE r == HpTeam(team, n, h)
           hp1 == [hp EXCEPT ![n] = h]
<1>1. MaxHp \in Nat
  BY BattleAssumption
<1>2. /\ r \in Seq(Pokemon) /\ Len(r) = Len(team)
      /\ \A i \in 1 .. Len(team) :
           /\ r[i].side = team[i].side /\ r[i].name = team[i].name
           /\ r[i].active = team[i].active
           /\ r[i].hp = IF team[i].name = n /\ h > 0 THEN h ELSE team[i].hp
  BY HpByName DEF Fine
<1>3. /\ team \in Seq(Pokemon) /\ DOMAIN team = 1 .. Len(team) /\ DOMAIN r = 1 .. Len(team)
      /\ \A i \in 1 .. Len(team) : team[i] \in Pokemon
  BY <1>2 DEF Fine
<1> HIDE DEF r
<1>5. \A m \in Names : hp1[m] = IF m = n THEN h ELSE hp[m]
  OBVIOUS
<1> HIDE DEF hp1
<1>6. ASSUME NEW i \in 1 .. Len(team)
      PROVE  /\ team[i].name \in Names
             /\ hp1[team[i].name] = (IF team[i].name = n THEN h ELSE hp[team[i].name])
             /\ hp[team[i].name] \in Nat /\ h \in Nat
             /\ team[i].name \in sure <=> team[i].name = n /\ h > 0
             /\ hp[team[i].name] > 0 => /\ team[i].name \in unsure \/ team[i].hp = hp[team[i].name]
                                        /\ s \in adrift \/ team[i].name # lead \/ team[i].active
             /\ s \in adrift \/ ~team[i].active \/ team[i].name = lead
  <2>1. team[i].name \in Names
    BY <1>3 DEF Pokemon
  <2>2. hp[team[i].name] \in Nat /\ h \in Nat
    BY <1>1, <2>1
  <2>3. HasName(team, team[i].name)
    BY <1>3 DEF HasName
  <2>4. QED
    BY <1>3, <1>5, <2>1, <2>2, <2>3 DEF Shows
<1>7. Shows(r, s, hp1, lead, unsure \ sure, adrift)
  <2>1. SUFFICES ASSUME NEW i \in 1 .. Len(team)
                 PROVE  /\ hp1[r[i].name] > 0 =>
                             /\ r[i].name \in unsure \ sure \/ r[i].hp = hp1[r[i].name]
                             /\ s \in adrift \/ r[i].name # lead \/ r[i].active
                        /\ s \in adrift \/ ~r[i].active \/ r[i].name = lead
    BY <1>3 DEF Shows
  <2>2. QED
    BY <1>2, <1>6
<1>8. Shows(team, s, hp1, lead, unsure \cup {n}, adrift)
  <2>1. SUFFICES ASSUME NEW i \in 1 .. Len(team)
                 PROVE  /\ hp1[team[i].name] > 0 =>
                             /\ team[i].name \in unsure \cup {n} \/ team[i].hp = hp1[team[i].name]
                             /\ s \in adrift \/ team[i].name # lead \/ team[i].active
                        /\ s \in adrift \/ ~team[i].active \/ team[i].name = lead
    BY <1>3 DEF Shows
  <2>2. QED
    BY <1>6
<1>9. QED
  BY <1>7, <1>8 DEF r, hp1

LEMMA ShowsFaint ==
  ASSUME NEW team, Fine(team), NEW hp \in [Names -> 0 .. MaxHp], NEW n \in Names,
         NEW unsure, NEW s, NEW adrift, Shows(team, s, hp, n, unsure, adrift),
         hp[n] = 0
  PROVE  Shows(FaintTeam(team, n), s, hp, n, unsure, adrift)
<1> DEFINE r == FaintTeam(team, n)
<1>1. /\ r \in Seq(Pokemon) /\ Len(r) = Len(team)
      /\ \A i \in 1 .. Len(team) :
           /\ r[i].side = team[i].side /\ r[i].name = team[i].name
           /\ r[i].active = (IF team[i].name = n THEN FALSE ELSE team[i].active)
           /\ r[i].hp = IF team[i].name = n THEN 0 ELSE team[i].hp
  BY FaintByName DEF Fine
<1>2. /\ team \in Seq(Pokemon) /\ DOMAIN team = 1 .. Len(team) /\ DOMAIN r = 1 .. Len(team)
  BY <1>1 DEF Fine
<1> HIDE DEF r
<1>4. Shows(r, s, hp, n, unsure, adrift)
  <2>1. SUFFICES ASSUME NEW i \in 1 .. Len(team)
                 PROVE  /\ hp[r[i].name] > 0 =>
                             /\ r[i].name \in unsure \/ r[i].hp = hp[r[i].name]
                             /\ s \in adrift \/ r[i].name # n \/ r[i].active
                        /\ s \in adrift \/ ~r[i].active \/ r[i].name = n
    BY <1>2 DEF Shows
  <2>2. /\ hp[team[i].name] > 0 => /\ team[i].name \in unsure \/ team[i].hp = hp[team[i].name]
                                   /\ s \in adrift \/ team[i].name # n \/ team[i].active
        /\ s \in adrift \/ ~team[i].active \/ team[i].name = n
    BY <1>2 DEF Shows
  <2>3. ~(hp[n] > 0)
    OBVIOUS
  <2>4. QED
    BY <1>1, <2>2, <2>3
<1>5. QED
  BY <1>4 DEF r

LEMMA ShowsSwitch ==
  ASSUME NEW team, Fine(team), NEW hp \in [Names -> 0 .. MaxHp], NEW lead,
         NEW s \in Sides, NEW n \in Names,
         NEW unsure, NEW adrift, Shows(team, s, hp, lead, unsure, adrift)
  PROVE  /\ Shows(SwitchTeam(team, s, n, hp[n]), s, hp, n, unsure \ {n}, adrift \ {s})
         /\ \A more : unsure \subseteq more => Shows(team, s, hp, n, more, adrift \cup {s})
<1> DEFINE r == SwitchTeam(team, s, n, hp[n])
<1>1. hp[n] \in 0 .. MaxHp
  OBVIOUS
<1>2. /\ r \in Seq(Pokemon)
      /\ \A i \in 1 .. Len(team) : r[i].name = team[i].name
      /\ \A i \in 1 .. Len(r) :
           /\ r[i].active = (r[i].name = n)
           /\ r[i].name = n /\ hp[n] > 0 => r[i].hp = hp[n]
           /\ r[i].name # n => i \in 1 .. Len(team) /\ r[i].hp = team[i].hp
  BY <1>1, SwitchByName DEF Fine
<1>3. DOMAIN team = 1 .. Len(team) /\ DOMAIN r = 1 .. Len(r)
  BY <1>2 DEF Fine
<1>4. \A i \in 1 .. Len(team) :
        hp[team[i].name] > 0 => team[i].name \in unsure \/ team[i].hp = hp[team[i].name]
  BY <1>3 DEF Shows
<1> HIDE DEF r
<1>5. Shows(r, s, hp, n, unsure \ {n}, adrift \ {s})
  <2>1. SUFFICES ASSUME NEW i \in 1 .. Len(r)
                 PROVE  /\ hp[r[i].name] > 0 =>
                             /\ r[i].name \in unsure \ {n} \/ r[i].hp = hp[r[i].name]
                             /\ r[i].name # n \/ r[i].active
                        /\ ~r[i].active \/ r[i].name = n
    BY <1>3 DEF Shows
  <2>2. CASE r[i].name = n
    BY <1>2, <2>2
  <2>3. CASE r[i].name # n
    BY <1>2, <1>4, <2>3
  <2>4. QED
    BY <2>2, <2>3
<1>6. ASSUME NEW more, unsure \subseteq more
      PROVE  Shows(team, s, hp, n, more, adrift \cup {s})
  BY <1>3, <1>4, <1>6 DEF Shows
<1>7. QED
  BY <1>5, <1>6 DEF r

LEMMA FineSwitch ==
  ASSUME NEW team, Fine(team), NEW s \in Sides, NEW n \in Names, NEW h \in 0 .. MaxHp
  PROVE  Fine(SwitchTeam(team, s, n, h))
<1> DEFINE r == SwitchTeam(team, s, n, h)
<1>1. /\ r \in Seq(Pokemon) /\ OneNameEach(r)
      /\ \A i \in 1 .. Len(r) : r[i].active = (r[i].name = n)
  BY SwitchByName DEF Fine
<1> HIDE DEF r
<1>2. OnlyOneActive(r)
  <2>1. \A i \in 1 .. Len(r) : r[i].active => r[i].name = n
    BY <1>1
  <2>2. DOMAIN r = 1 .. Len(r)
    BY <1>1
  <2>3. QED
    BY <1>1, <2>1, <2>2, Zenon DEF OneNameEach, OnlyOneActive
<1>3. QED
  BY <1>1, <1>2 DEF Fine, r

(* The team of the first request: the server's, in its order. *)
LEMMA ShowsRequest ==
  ASSUME NEW s \in Sides, NEW order \in Orders, NEW hp \in [Names -> 0 .. MaxHp],
         NEW junk \in [1 .. TeamSize -> Junk], NEW unsure, NEW adrift
  PROVE  LET r == FromRequest(s, order, hp, junk)
         IN  /\ Fine(r) /\ Len(r) = TeamSize
             /\ \A n \in Names : HasName(r, n) <=> \E k \in 1 .. TeamSize : order[k] = n
             /\ Shows(r, s, hp, order[1], unsure, adrift \ {s})
<1> DEFINE r == FromRequest(s, order, hp, junk)
           p(i) == [side |-> s, name |-> order[i], active |-> i = 1, fainted |-> FALSE,
                    hp |-> Condition(junk[i], hp[order[i]])]
<1>1. MaxHp \in Nat /\ TeamSize \in Nat /\ 1 <= TeamSize
  BY FS_CardinalityType, BattleAssumption
<1>2. order \in [1 .. TeamSize -> Names]
      /\ \A i, j \in 1 .. TeamSize : order[i] = order[j] => i = j
  BY DEF Orders, IsInjective
<1>3. r = [i \in 1 .. TeamSize |-> p(i)]
  BY DEF FromRequest
<1>4. ASSUME NEW i \in 1 .. TeamSize
      PROVE  /\ p(i) \in Pokemon /\ p(i).name = order[i] /\ p(i).active = (i = 1)
             /\ p(i).hp = IF hp[order[i]] > 0 THEN hp[order[i]] ELSE junk[i]
  <2>1. junk[i] \in 0 .. MaxHp + 1 /\ hp[order[i]] \in 0 .. MaxHp + 1 /\ order[i] \in Names
    <3>1. order[i] \in Names
      BY <1>2
    <3>2. hp[order[i]] \in 0 .. MaxHp
      BY <3>1
    <3>3. junk[i] \in {0, MaxHp + 1}
      BY DEF Junk
    <3>4. QED
      BY <1>1, <3>1, <3>2, <3>3
  <2>2. PICK c \in 0 .. MaxHp + 1 :
          /\ c = Condition(junk[i], hp[order[i]])
          /\ c = IF hp[order[i]] > 0 THEN hp[order[i]] ELSE junk[i]
    BY <2>1 DEF Condition
  <2>3. p(i) = [side |-> s, name |-> order[i], active |-> i = 1, fainted |-> FALSE, hp |-> c]
    BY <2>2
  <2>4. (i = 1) \in BOOLEAN
    OBVIOUS
  <2>5. QED
    BY <2>1, <2>2, <2>3, <2>4 DEF Pokemon
<1> HIDE DEF r, p
<1>5. r \in Seq(Pokemon) /\ Len(r) = TeamSize /\ DOMAIN r = 1 .. TeamSize
  <2>1. \A i \in 1 .. TeamSize : p(i) \in Pokemon
    BY <1>4
  <2>2. r \in [1 .. TeamSize -> Pokemon]
    BY <1>3, <2>1
  <2>3. QED
    BY <1>1, <2>2
<1>6. ASSUME NEW i \in 1 .. TeamSize
      PROVE  /\ r[i].name = order[i] /\ r[i].active = (i = 1)
             /\ r[i].hp = IF hp[order[i]] > 0 THEN hp[order[i]] ELSE junk[i]
  <2>1. r[i] = p(i)
    BY <1>3
  <2>2. /\ p(i).name = order[i] /\ p(i).active = (i = 1)
        /\ p(i).hp = IF hp[order[i]] > 0 THEN hp[order[i]] ELSE junk[i]
    BY <1>4
  <2>3. QED
    BY <2>1, <2>2
<1>7. Fine(r)
  <2>1. OneNameEach(r)
    BY <1>2, <1>5, <1>6 DEF OneNameEach
  <2>2. \A i \in 1 .. TeamSize : r[i].active => i = 1
    BY <1>6
  <2>3. OnlyOneActive(r)
    BY <1>5, <2>2, Zenon DEF OnlyOneActive
  <2>4. QED
    BY <1>5, <2>1, <2>3 DEF Fine
<1>8. \A n \in Names : HasName(r, n) <=> \E k \in 1 .. TeamSize : order[k] = n
  <2>1. DOMAIN r = 1 .. TeamSize /\ \A k \in 1 .. TeamSize : r[k].name = order[k]
    BY <1>5, <1>6
  <2>2. QED
    BY <2>1 DEF HasName
<1>9. Shows(r, s, hp, order[1], unsure, adrift \ {s})
  <2>1. SUFFICES ASSUME NEW i \in 1 .. TeamSize
                 PROVE  /\ hp[r[i].name] > 0 =>
                             /\ r[i].name \in unsure \/ r[i].hp = hp[r[i].name]
                             /\ r[i].name # order[1] \/ r[i].active
                        /\ ~r[i].active \/ r[i].name = order[1]
    BY <1>5 DEF Shows
  <2>2. order[i] = order[1] <=> i = 1
    BY <1>1, <1>2
  <2>3. QED
    BY <1>6, <2>2
<1>10. QED
  BY <1>5, <1>7, <1>8, <1>9 DEF r

-----------------------------------------------------------------------------
(* The parts of the state the invariant reads. *)

LEMMA SideInSides ==
  ASSUME NEW team \in Seq(Pokemon), NEW i \in DOMAIN team
  PROVE  team[i].side \in Sides /\ team[i].name \in Names
<1>1. team[i] \in Pokemon
  OBVIOUS
<1>2. QED
  BY <1>1 DEF Pokemon

LEMMA SidesAre ==
  ASSUME SrvOK
  PROVE  /\ you \in Sides /\ Other(you) \in Sides /\ Other(you) # you
         /\ \A s \in Sides : s = you \/ s = Other(you)
         /\ you # None
<1>1. \E t \in Sides : t # you
  BY DEF SrvOK, Sides
<1>2. Other(you) \in Sides /\ Other(you) # you
  BY <1>1 DEF Other
<1>3. QED
  BY <1>2, BattleAssumption DEF SrvOK, Sides

LEMMA SrvFields ==
  ASSUME SrvOK
  PROVE  /\ srv.hp \in [Sides -> [Names -> 0 .. MaxHp]]
         /\ srv.order \in [Sides -> Orders] /\ srv.out \in [Sides -> SUBSET Names]
         /\ srv.down \in [Sides -> SUBSET Names] /\ srv.turn \in Nat /\ srv.asked \in BOOLEAN
         /\ \A s \in Sides : /\ srv.order[s] \in [1 .. TeamSize -> Names]
                             /\ Lead(s) = srv.order[s][1] /\ Lead(s) \in Names
         /\ TeamSize \in Nat /\ 1 <= TeamSize /\ MaxHp \in Nat
<1>1. TeamSize \in Nat /\ 1 <= TeamSize /\ MaxHp \in Nat
  BY FS_CardinalityType, BattleAssumption
<1>2. /\ srv.hp \in [Sides -> [Names -> 0 .. MaxHp]]
      /\ srv.order \in [Sides -> Orders] /\ srv.out \in [Sides -> SUBSET Names]
      /\ srv.down \in [Sides -> SUBSET Names] /\ srv.turn \in Nat /\ srv.asked \in BOOLEAN
  BY DEF SrvOK
<1>3. ASSUME NEW s \in Sides
      PROVE  /\ srv.order[s] \in [1 .. TeamSize -> Names]
             /\ Lead(s) = srv.order[s][1] /\ Lead(s) \in Names
  <2>1. srv.order[s] \in [1 .. TeamSize -> Names]
    BY <1>2 DEF Orders
  <2>2. srv.order[s] \in Seq(Names) /\ Len(srv.order[s]) = TeamSize
    BY <1>1, <2>1
  <2>3. Head(srv.order[s]) = srv.order[s][1] /\ srv.order[s][1] \in Names
    BY <1>1, <2>1, <2>2
  <2>4. QED
    BY <2>1, <2>3 DEF Lead
<1>4. QED
  BY <1>1, <1>2, <1>3

(* Hit points announced as h: both handlers of a hit or of a recovery, and *)
(* the message missed.                                                     *)
LEMMA HpStep ==
  ASSUME SrvOK, TeamsInv,
         NEW s \in Sides, NEW heard \in BOOLEAN, NEW n \in Names, NEW h \in 0 .. MaxHp,
         srv.hp[s][n] > 0 \/ n # srv.order[s][1],
         srv'.hp = [srv.hp EXCEPT ![s] = [srv.hp[s] EXCEPT ![n] = h]],
         srv'.order = srv.order, srv'.out = srv.out,
         IF heard THEN ApplyHp(s, n, h) ELSE UNCHANGED teamVars,
         HpTold(heard, s, n, h),
         UNCHANGED <<m_your_side, you, blind, settled>>
  PROVE  TeamsInv'
<1> DEFINE team == TeamOf(s)
           sure == IF h > 0 /\ HasName(team, n) THEN {n} ELSE {}
           o == Other(you)
<1>1. /\ you \in Sides /\ o \in Sides /\ o # you /\ you # None
      /\ \A t \in Sides : t = you \/ t = o
  BY SidesAre
<1>2. /\ srv.hp \in [Sides -> [Names -> 0 .. MaxHp]]
      /\ srv'.hp[s] = [srv.hp[s] EXCEPT ![n] = h]
      /\ \A t \in Sides : t # s => srv'.hp[t] = srv.hp[t]
  BY SrvFields
<1>3. Fine(m_your_team) /\ Fine(m_opponent_team) /\ Fine(team)
  BY DEF TeamsInv, TeamOf
<1>4. /\ stale'.active = stale.active
      /\ Unsure(s)' = (IF heard THEN Unsure(s) \ sure ELSE Unsure(s) \cup {n})
      /\ \A t \in Sides : t # s => Unsure(t)' = Unsure(t)
  <2>1. stale \in [hp : SUBSET (Sides \X Names), active : SUBSET Sides]
    BY DEF SrvOK
  <2>2. Find(team, n) # 0 <=> HasName(team, n)
    BY <1>3, FindByName DEF Fine
  <2>3. stale'.active = stale.active
    BY <2>1 DEF HpTold
  <2>4. stale'.hp = IF ~heard THEN stale.hp \cup {<<s, n>>}
                    ELSE IF h > 0 /\ HasName(team, n) THEN stale.hp \ {<<s, n>>}
                    ELSE stale.hp
    BY <2>1, <2>2 DEF HpTold
  <2> HIDE DEF team
  <2>5. Unsure(s)' = (IF heard THEN Unsure(s) \ sure ELSE Unsure(s) \cup {n})
    <3>1. CASE ~heard
      BY <2>4, <3>1 DEF Unsure
    <3>2. CASE heard /\ h > 0 /\ HasName(team, n)
      BY <2>4, <3>2 DEF Unsure
    <3>3. CASE heard /\ ~(h > 0 /\ HasName(team, n))
      BY <2>4, <3>3 DEF Unsure
    <3>4. QED
      BY <3>1, <3>2, <3>3
  <2>6. ASSUME NEW t \in Sides, t # s
        PROVE  Unsure(t)' = Unsure(t)
    <3>1. \A m : <<t, m>> # <<s, n>>
      BY <2>6
    <3>2. \A m : <<t, m>> \in stale'.hp <=> <<t, m>> \in stale.hp
      BY <2>4, <3>1
    <3>3. QED
      BY <3>2 DEF Unsure
  <2>7. QED
    BY <2>3, <2>5, <2>6
<1>5. /\ m_your_team' = (IF heard /\ s = m_your_side THEN HpTeam(m_your_team, n, h)
                         ELSE m_your_team)
      /\ m_opponent_team' = (IF heard /\ s # m_your_side THEN HpTeam(m_opponent_team, n, h)
                             ELSE m_opponent_team)
  BY DEF ApplyHp, HpTeam, TeamOf, SetTeam, teamVars
<1>6. ASSUME NEW t, NEW t1, Fine(t), t1 = t \/ t1 = HpTeam(t, n, h)
      PROVE  /\ Fine(t1) /\ SameNames(t1, t)
             /\ \A i \in 1 .. Len(t) : t1[i].active = t[i].active
  BY <1>6, FineHp DEF SameNames
<1>7. /\ Fine(m_your_team') /\ SameNames(m_your_team', m_your_team)
      /\ Fine(m_opponent_team') /\ SameNames(m_opponent_team', m_opponent_team)
      /\ \A i \in 1 .. Len(m_opponent_team) :
           m_opponent_team'[i].active = m_opponent_team[i].active
  BY <1>3, <1>5, <1>6
<1>8. SideKnown'
  BY <1>3, <1>7, NamesStay DEF TeamsInv, SideKnown, SameNames
<1>9. YourTeamShows'
  <2>1. SUFFICES ASSUME m_your_side = you PROVE ShowsSide(m_your_team, you)'
    BY DEF YourTeamShows
  <2>2. Shows(m_your_team, you, srv.hp[you], srv.order[you][1], Unsure(you), stale.active)
    BY <2>1 DEF TeamsInv, YourTeamShows, ShowsSide
  <2>3. CASE s = you
    <3>1. team = m_your_team /\ srv.hp[you] \in [Names -> 0 .. MaxHp]
      BY <1>1, <1>2, <2>1, <2>3 DEF TeamOf
    <3>2. /\ Shows(HpTeam(m_your_team, n, h), you, srv'.hp[you], srv.order[you][1],
                   Unsure(you) \ sure, stale.active)
          /\ Shows(m_your_team, you, srv'.hp[you], srv.order[you][1],
                   Unsure(you) \cup {n}, stale.active)
      <4> DEFINE hp == srv.hp[you]
                 lead == srv.order[you][1]
                 unsure == Unsure(you)
                 adrift == stale.active
      <4>1. /\ hp \in [Names -> 0 .. MaxHp] /\ srv'.hp[you] = [hp EXCEPT ![n] = h]
            /\ hp[n] > 0 \/ n # lead
            /\ Shows(m_your_team, you, hp, lead, unsure, adrift)
            /\ Fine(m_your_team)
            /\ sure = IF h > 0 /\ HasName(m_your_team, n) THEN {n} ELSE {}
        BY <1>2, <1>3, <2>2, <2>3, <3>1
      <4> HIDE DEF hp, lead, unsure, adrift, sure
      <4>2. /\ Shows(HpTeam(m_your_team, n, h), you, [hp EXCEPT ![n] = h], lead,
                     unsure \ sure, adrift)
            /\ Shows(m_your_team, you, [hp EXCEPT ![n] = h], lead, unsure \cup {n}, adrift)
        BY <4>1, ShowsHp
      <4>3. QED
        BY <4>1, <4>2 DEF lead, unsure, adrift
    <3>3. QED
      BY <1>4, <1>5, <2>1, <2>3, <3>2 DEF ShowsSide
  <2>4. CASE s # you
    BY <1>1, <1>2, <1>4, <1>5, <2>1, <2>2, <2>4 DEF ShowsSide
  <2>5. QED
    BY <2>3, <2>4
<1>10. OpponentsOut'
  <2>1. /\ DOMAIN m_opponent_team' = 1 .. Len(m_opponent_team)
        /\ DOMAIN m_opponent_team = 1 .. Len(m_opponent_team)
    BY <1>3, <1>7, NamesStay
  <2>2. QED
    BY <1>7, <2>1 DEF TeamsInv, OpponentsOut, SameNames
<1>11. OpponentShows'
  <2>1. SUFFICES ASSUME ~blind
                 PROVE  /\ m_your_side = None => m_opponent_team' = <<>>
                        /\ \A m \in srv.out[o] :
                             HasName(m_opponent_team', m) \/ m \in Unsure(o)'
                        /\ ShowsSide(m_opponent_team, o)'
    BY DEF OpponentShows
  <2>2. /\ m_your_side = None => m_opponent_team = <<>>
        /\ \A m \in srv.out[o] : HasName(m_opponent_team, m) \/ m \in Unsure(o)
        /\ Shows(m_opponent_team, o, srv.hp[o], srv.order[o][1], Unsure(o), stale.active)
        /\ m_your_side \in {None, you}
    BY <2>1 DEF TeamsInv, OpponentShows, ShowsSide, SideKnown
  <2>3. m_your_side = None => m_opponent_team' = <<>>
    BY <1>3, <1>7, <2>2, NamesStay
  <2>4. \A m \in srv.out[o] : HasName(m_opponent_team', m) \/ m \in Unsure(o)'
    <3>1. s = o => team = m_opponent_team
      BY <1>1, <2>2, BattleAssumption DEF TeamOf
    <3>2. \A m : HasName(m_opponent_team', m) <=> HasName(m_opponent_team, m)
      BY <1>3, <1>7, NamesStay
    <3>3. \A m \in Unsure(o) : m \in Unsure(o)' \/ HasName(m_opponent_team, m)
      BY <1>1, <1>4, <3>1
    <3>4. QED
      BY <2>2, <3>2, <3>3
  <2>5. CASE s = o
    <3>1. /\ team = m_opponent_team /\ srv.hp[o] \in [Names -> 0 .. MaxHp] /\ s # m_your_side
      BY <1>1, <1>2, <2>2, <2>5, BattleAssumption DEF TeamOf
    <3>2. /\ Shows(HpTeam(m_opponent_team, n, h), o, srv'.hp[o], srv.order[o][1],
                   Unsure(o) \ sure, stale.active)
          /\ Shows(m_opponent_team, o, srv'.hp[o], srv.order[o][1],
                   Unsure(o) \cup {n}, stale.active)
      <4> DEFINE hp == srv.hp[o]
                 lead == srv.order[o][1]
                 unsure == Unsure(o)
                 adrift == stale.active
      <4>1. /\ hp \in [Names -> 0 .. MaxHp] /\ srv'.hp[o] = [hp EXCEPT ![n] = h]
            /\ hp[n] > 0 \/ n # lead
            /\ Shows(m_opponent_team, o, hp, lead, unsure, adrift)
            /\ Fine(m_opponent_team)
            /\ sure = IF h > 0 /\ HasName(m_opponent_team, n) THEN {n} ELSE {}
        BY <1>2, <1>3, <2>2, <2>5, <3>1
      <4> HIDE DEF hp, lead, unsure, adrift, sure
      <4>2. /\ Shows(HpTeam(m_opponent_team, n, h), o, [hp EXCEPT ![n] = h], lead,
                     unsure \ sure, adrift)
            /\ Shows(m_opponent_team, o, [hp EXCEPT ![n] = h], lead, unsure \cup {n}, adrift)
        BY <4>1, ShowsHp
      <4>3. QED
        BY <4>1, <4>2 DEF lead, unsure, adrift
    <3>3. ShowsSide(m_opponent_team, o)'
      BY <1>4, <1>5, <2>5, <3>1, <3>2 DEF ShowsSide
    <3>4. QED
      BY <2>3, <2>4, <3>3
  <2>6. CASE s = you
    <3>1. m_opponent_team' = m_opponent_team
      BY <1>5, <2>2, <2>3, <2>6
    <3>2. ShowsSide(m_opponent_team, o)'
      BY <1>1, <1>2, <1>4, <2>2, <2>6, <3>1 DEF ShowsSide
    <3>3. QED
      BY <2>3, <2>4, <3>2
  <2>7. QED
    BY <1>1, <2>5, <2>6
<1>12. LeadShown'
  <2>1. SUFFICES ASSUME settled PROVE LeadShown'
    BY DEF LeadShown
  <2> DEFINE lead == srv.order[o][1]
  <2>2. /\ m_your_side = you
        /\ \/ o \in stale.active
           \/ srv.hp[o][lead] = 0
           \/ \E i \in DOMAIN m_opponent_team :
                m_opponent_team[i].active /\ m_opponent_team[i].name = lead
    BY <2>1 DEF TeamsInv, LeadShown
  <2>3. lead \in Names
    BY <1>1, SrvFields
  <2>4. srv.hp[o][lead] = 0 => srv'.hp[o][lead] = 0
    <3>1. CASE s = o
      <4>1. srv.hp[o][lead] = 0 => n # lead
        BY <3>1
      <4>2. QED
        BY <1>1, <1>2, <2>3, <3>1, <4>1
    <3>2. CASE s # o
      BY <1>1, <1>2, <3>2
    <3>3. QED
      BY <3>1, <3>2
  <2>5. ASSUME NEW i \in DOMAIN m_opponent_team,
               m_opponent_team[i].active, m_opponent_team[i].name = lead
        PROVE  /\ i \in DOMAIN m_opponent_team'
               /\ m_opponent_team'[i].active /\ m_opponent_team'[i].name = lead
    <3>1. /\ DOMAIN m_opponent_team' = 1 .. Len(m_opponent_team)
          /\ DOMAIN m_opponent_team = 1 .. Len(m_opponent_team)
      BY <1>3, <1>7, NamesStay
    <3>2. QED
      BY <1>7, <2>5, <3>1 DEF SameNames
  <2>6. o' = o /\ lead' = lead /\ m_your_side' = m_your_side /\ you' = you
    OBVIOUS
  <2>7. QED
    BY <1>4, <2>2, <2>4, <2>5, <2>6 DEF LeadShown
<1>13. QED
  BY <1>7, <1>8, <1>9, <1>10, <1>11, <1>12 DEF TeamsInv

(* What the invariant reads: a step that leaves it alone keeps it. *)
LEMMA SameStep ==
  ASSUME TeamsInv, srv'.hp = srv.hp, srv'.order = srv.order, srv'.out = srv.out,
         UNCHANGED <<m_your_side, m_your_team, m_opponent_team, you, blind, settled, stale>>
  PROVE  TeamsInv'
<1>1. Unsure(you)' = Unsure(you) /\ Unsure(Other(you))' = Unsure(Other(you))
  BY DEF Unsure
<1>2. SideKnown' /\ YourTeamShows' /\ OpponentsOut'
  BY <1>1 DEF TeamsInv, SideKnown, YourTeamShows, OpponentsOut, ShowsSide
<1>3. OpponentShows' /\ LeadShown'
  BY <1>1 DEF TeamsInv, OpponentShows, LeadShown, ShowsSide
<1>4. QED
  BY <1>2, <1>3 DEF TeamsInv

LEMMA FaintStep ==
  ASSUME SrvOK, TeamsInv,
         NEW s \in Sides, NEW n \in Names,
         srv.hp[s][n] = 0, n = srv.order[s][1],
         srv'.hp = srv.hp, srv'.order = srv.order, srv'.out = srv.out,
         ApplyFaint(s, n),
         UNCHANGED <<m_your_side, you, blind, settled, stale>>
  PROVE  TeamsInv'
<1> DEFINE o == Other(you)
<1>1. /\ you \in Sides /\ o \in Sides /\ o # you /\ you # None
      /\ \A t \in Sides : t = you \/ t = o
  BY SidesAre
<1>2. srv.hp \in [Sides -> [Names -> 0 .. MaxHp]]
  BY SrvFields
<1>3. Fine(m_your_team) /\ Fine(m_opponent_team)
  BY DEF TeamsInv
<1>4. /\ stale'.active = stale.active
      /\ \A t : Unsure(t)' = Unsure(t)
  BY DEF Unsure
<1>5. /\ m_your_team' = (IF s = m_your_side THEN FaintTeam(m_your_team, n) ELSE m_your_team)
      /\ m_opponent_team' = (IF s # m_your_side THEN FaintTeam(m_opponent_team, n)
                             ELSE m_opponent_team)
  BY DEF ApplyFaint, FaintTeam, TeamOf, SetTeam, teamVars
<1>6. /\ Fine(m_your_team') /\ SameNames(m_your_team', m_your_team)
      /\ Fine(m_opponent_team') /\ SameNames(m_opponent_team', m_opponent_team)
      /\ \A i \in 1 .. Len(m_opponent_team) : m_opponent_team[i].name # n =>
           m_opponent_team'[i].active = m_opponent_team[i].active
  BY <1>3, <1>5, FineFaint DEF SameNames
<1>7. SideKnown'
  BY <1>3, <1>6, NamesStay DEF TeamsInv, SideKnown, SameNames
<1>8. YourTeamShows'
  <2>1. SUFFICES ASSUME m_your_side = you PROVE ShowsSide(m_your_team, you)'
    BY DEF YourTeamShows
  <2>2. Shows(m_your_team, you, srv.hp[you], srv.order[you][1], Unsure(you), stale.active)
    BY <2>1 DEF TeamsInv, YourTeamShows, ShowsSide
  <2>3. CASE s = you
    <3>1. srv.hp[you] \in [Names -> 0 .. MaxHp] /\ srv.order[you][1] = n
      BY <1>1, <1>2, <2>3
    <3>2. Shows(FaintTeam(m_your_team, n), you, srv.hp[you], n, Unsure(you), stale.active)
      BY <1>3, <2>2, <2>3, <3>1, ShowsFaint
    <3>3. QED
      BY <1>4, <1>5, <2>1, <2>3, <3>1, <3>2 DEF ShowsSide
  <2>4. CASE s # you
    BY <1>4, <1>5, <2>1, <2>2, <2>4 DEF ShowsSide
  <2>5. QED
    BY <2>3, <2>4
<1>9. OpponentsOut'
  <2>1. /\ DOMAIN m_opponent_team' = 1 .. Len(m_opponent_team)
        /\ DOMAIN m_opponent_team = 1 .. Len(m_opponent_team)
    BY <1>3, <1>6, NamesStay
  <2>2. QED
    BY <1>6, <2>1 DEF TeamsInv, OpponentsOut, SameNames
<1>10. OpponentShows'
  <2>1. SUFFICES ASSUME ~blind
                 PROVE  /\ m_your_side = None => m_opponent_team' = <<>>
                        /\ \A m \in srv.out[o] :
                             HasName(m_opponent_team', m) \/ m \in Unsure(o)'
                        /\ ShowsSide(m_opponent_team, o)'
    BY DEF OpponentShows
  <2>2. /\ m_your_side = None => m_opponent_team = <<>>
        /\ \A m \in srv.out[o] : HasName(m_opponent_team, m) \/ m \in Unsure(o)
        /\ Shows(m_opponent_team, o, srv.hp[o], srv.order[o][1], Unsure(o), stale.active)
        /\ m_your_side \in {None, you}
    BY <2>1 DEF TeamsInv, OpponentShows, ShowsSide, SideKnown
  <2>3. /\ m_your_side = None => m_opponent_team' = <<>>
        /\ \A m : HasName(m_opponent_team', m) <=> HasName(m_opponent_team, m)
    BY <1>3, <1>6, <2>2, NamesStay
  <2>4. \A m \in srv.out[o] : HasName(m_opponent_team', m) \/ m \in Unsure(o)'
    BY <1>4, <2>2, <2>3
  <2>5. CASE s = o
    <3>1. srv.hp[o] \in [Names -> 0 .. MaxHp] /\ srv.order[o][1] = n /\ s # m_your_side
      BY <1>1, <1>2, <2>2, <2>5, BattleAssumption
    <3>2. Shows(FaintTeam(m_opponent_team, n), o, srv.hp[o], n, Unsure(o), stale.active)
      BY <1>3, <2>2, <2>5, <3>1, ShowsFaint
    <3>3. ShowsSide(m_opponent_team, o)'
      BY <1>4, <1>5, <2>5, <3>1, <3>2 DEF ShowsSide
    <3>4. QED
      BY <2>3, <2>4, <3>3
  <2>6. CASE s = you
    <3>1. m_opponent_team' = m_opponent_team
      BY <1>5, <2>2, <2>3, <2>6
    <3>2. ShowsSide(m_opponent_team, o)'
      BY <1>4, <2>2, <3>1 DEF ShowsSide
    <3>3. QED
      BY <2>3, <2>4, <3>2
  <2>7. QED
    BY <1>1, <2>5, <2>6
<1>11. LeadShown'
  <2>1. SUFFICES ASSUME settled PROVE LeadShown'
    BY DEF LeadShown
  <2> DEFINE lead == srv.order[o][1]
  <2>2. /\ m_your_side = you
        /\ \/ o \in stale.active
           \/ srv.hp[o][lead] = 0
           \/ \E i \in DOMAIN m_opponent_team :
                m_opponent_team[i].active /\ m_opponent_team[i].name = lead
    BY <2>1 DEF TeamsInv, LeadShown
  <2>3. CASE s = o
    BY <2>2, <2>3 DEF LeadShown
  <2>4. CASE s # o
    <3>1. m_opponent_team' = m_opponent_team
      BY <1>1, <1>5, <2>2, <2>4
    <3>2. QED
      BY <2>2, <3>1 DEF LeadShown
  <2>5. QED
    BY <2>3, <2>4
<1>12. QED
  BY <1>6, <1>7, <1>8, <1>9, <1>10, <1>11 DEF TeamsInv

(* One side being adrift says nothing of another. *)
LEMMA ShowsOther ==
  ASSUME NEW team, NEW s, NEW hp, NEW lead, NEW unsure, NEW a, NEW b,
         Shows(team, s, hp, lead, unsure, a), s \in a <=> s \in b
  PROVE  Shows(team, s, hp, lead, unsure, b)
  BY DEF Shows

(* n comes in on side s as its new lead, heard or not. *)
LEMMA SwitchStep ==
  ASSUME SrvOK, TeamsInv,
         NEW s \in Sides, NEW heard \in BOOLEAN, NEW n \in Names,
         srv'.hp = srv.hp,
         srv'.out = [srv.out EXCEPT ![s] = srv.out[s] \cup {n}],
         srv'.order[s][1] = n,
         \E k \in 1 .. TeamSize : srv.order[s][k] = n,
         \A m : (\E k \in 1 .. TeamSize : srv'.order[s][k] = m)
                 <=> \E k \in 1 .. TeamSize : srv.order[s][k] = m,
         \A t \in Sides : t # s => srv'.order[t] = srv.order[t],
         IF heard THEN ApplySwitch(s, n, srv.hp[s][n]) ELSE UNCHANGED teamVars,
         SwitchTold(heard, s, n),
         blind' = (blind \/ (heard /\ m_your_side = None)),
         settled' => settled \/ (heard /\ m_your_side # None /\ s # you),
         UNCHANGED <<m_your_side, you>>
  PROVE  TeamsInv'
<1> DEFINE o == Other(you)
           h == srv.hp[s][n]
<1>1. /\ you \in Sides /\ o \in Sides /\ o # you /\ you # None
      /\ \A t \in Sides : t = you \/ t = o
      /\ m_your_side \in {None, you}
  BY SidesAre DEF TeamsInv, SideKnown
<1>2. /\ srv.hp \in [Sides -> [Names -> 0 .. MaxHp]] /\ h \in 0 .. MaxHp
      /\ srv'.out[s] = srv.out[s] \cup {n}
      /\ \A t \in Sides : t # s => srv'.out[t] = srv.out[t]
  BY SrvFields
<1>3. Fine(m_your_team) /\ Fine(m_opponent_team)
  BY DEF TeamsInv
<1>4. /\ stale'.active = (IF heard THEN stale.active \ {s} ELSE stale.active \cup {s})
      /\ heard => Unsure(s)' = Unsure(s) \ {n}
      /\ ~heard => Unsure(s) \subseteq Unsure(s)'
      /\ ~heard /\ n \notin srv.out[s] => n \in Unsure(s)'
      /\ \A t \in Sides : t # s => Unsure(t)' = Unsure(t)
  <2>1. stale'.hp = (IF heard THEN stale.hp \ {<<s, n>>}
                     ELSE IF n \in srv.out[s] THEN stale.hp ELSE stale.hp \cup {<<s, n>>})
        /\ stale'.active = (IF heard THEN stale.active \ {s} ELSE stale.active \cup {s})
    BY DEF SwitchTold
  <2>2. heard => Unsure(s)' = Unsure(s) \ {n}
    BY <2>1 DEF Unsure
  <2>3. ~heard => Unsure(s) \subseteq Unsure(s)'
    BY <2>1 DEF Unsure
  <2>4. ~heard /\ n \notin srv.out[s] => n \in Unsure(s)'
    BY <2>1 DEF Unsure
  <2>5. ASSUME NEW t \in Sides, t # s
        PROVE  Unsure(t)' = Unsure(t)
    <3>1. \A m : <<t, m>> # <<s, n>>
      BY <2>5
    <3>2. \A m : <<t, m>> \in stale'.hp <=> <<t, m>> \in stale.hp
      BY <2>1, <3>1
    <3>3. QED
      BY <3>2 DEF Unsure
  <2>6. QED
    BY <2>1, <2>2, <2>3, <2>4, <2>5
<1>5. /\ m_your_team' = (IF heard /\ s = m_your_side THEN SwitchTeam(m_your_team, s, n, h)
                         ELSE m_your_team)
      /\ m_opponent_team' = (IF heard /\ s # m_your_side
                             THEN SwitchTeam(m_opponent_team, s, n, h)
                             ELSE m_opponent_team)
  <2>1. CASE ~heard
    BY <2>1 DEF teamVars
  <2>2. CASE heard
    <3>1. SetTeam(s, SwitchTeam(TeamOf(s), s, n, h))
      BY <2>2 DEF ApplySwitch, SwitchTeam, Bench
    <3>2. QED
      BY <2>2, <3>1 DEF SetTeam, TeamOf
  <2>3. QED
    BY <2>1, <2>2
<1>6. ASSUME NEW team, Fine(team)
      PROVE  LET r == SwitchTeam(team, s, n, h)
             IN  /\ r \in Seq(Pokemon) /\ OneNameEach(r) /\ HasName(r, n)
                 /\ Len(r) >= Len(team) /\ (HasName(team, n) => Len(r) = Len(team))
                 /\ \A i \in 1 .. Len(team) :
                      r[i].side = team[i].side /\ r[i].name = team[i].name
                 /\ \A i \in 1 .. Len(r) :
                      /\ r[i].active = (r[i].name = n)
                      /\ i \notin 1 .. Len(team) => r[i].side = s /\ r[i].name = n
  <2>1. team \in Seq(Pokemon) /\ OneNameEach(team)
    BY <1>6 DEF Fine
  <2> HIDE DEF h
  <2>2. QED
    BY <1>2, <2>1, SwitchByName
<1>7. Fine(m_your_team') /\ Fine(m_opponent_team')
  <2>1. ASSUME NEW team, Fine(team)
        PROVE  Fine(SwitchTeam(team, s, n, h))
    <3> HIDE DEF h
    <3>1. QED
      BY <1>2, <2>1, FineSwitch
  <2> HIDE DEF h
  <2>2. QED
    BY <1>3, <1>5, <2>1
<1> HIDE DEF h
<1>o. \A m : (\E k \in 1 .. TeamSize : srv'.order[you][k] = m)
               <=> \E k \in 1 .. TeamSize : srv.order[you][k] = m
  <2>1. CASE s = you
    BY <2>1
  <2>2. CASE s # you
    BY <1>1, <2>2
  <2>3. QED
    BY <2>1, <2>2
<1>8. SideKnown'
  <2>1. CASE ~(heard /\ s = m_your_side)
    <3>1. m_your_team' = m_your_team
      BY <1>5, <2>1
    <3>2. QED
      BY <1>1, <1>o, <3>1 DEF TeamsInv, SideKnown
  <2>2. CASE heard /\ s = m_your_side
    <3>1. s = you /\ m_your_side = you /\ m_your_team' = SwitchTeam(m_your_team, s, n, h)
      BY <1>1, <1>5, <2>2, BattleAssumption
    <3>2. /\ Len(m_your_team) = TeamSize
          /\ \A m \in Names : HasName(m_your_team, m)
                                <=> \E k \in 1 .. TeamSize : srv.order[you][k] = m
      BY <3>1 DEF TeamsInv, SideKnown
    <3>3. HasName(m_your_team, n)
      BY <3>1, <3>2
    <3>4. Len(m_your_team') = TeamSize /\ SameNames(m_your_team', m_your_team)
      BY <1>3, <1>6, <3>1, <3>2, <3>3 DEF SameNames
    <3>5. \A m : HasName(m_your_team', m) <=> HasName(m_your_team, m)
      BY <1>3, <1>7, <3>4, NamesStay
    <3>6. \A m \in Names : HasName(m_your_team', m)
                            <=> \E k \in 1 .. TeamSize : srv'.order[you][k] = m
      BY <1>o, <3>2, <3>5
    <3>7. QED
      BY <1>1, <3>1, <3>4, <3>6 DEF SideKnown
  <2>3. QED
    BY <2>1, <2>2
<1>9. ASSUME NEW t \in Sides, t # s, NEW team, ShowsSide(team, t)
      PROVE  Shows(team, t, srv'.hp[t], srv'.order[t][1], Unsure(t)', stale'.active)
  <2>1. Shows(team, t, srv.hp[t], srv.order[t][1], Unsure(t), stale.active)
    BY <1>9 DEF ShowsSide
  <2>2. t \in stale.active <=> t \in stale'.active
    BY <1>4, <1>9
  <2>3. QED
    BY <1>4, <1>9, <2>1, <2>2, ShowsOther
<1>10. ASSUME NEW team, Fine(team), ShowsSide(team, s),
              NEW r, r = IF heard THEN SwitchTeam(team, s, n, h) ELSE team
       PROVE  Shows(r, s, srv'.hp[s], srv'.order[s][1], Unsure(s)', stale'.active)
  <2> DEFINE hp == srv.hp[s]
             lead == srv.order[s][1]
             unsure == Unsure(s)
             adrift == stale.active
  <2>1. /\ Shows(team, s, hp, lead, unsure, adrift) /\ hp \in [Names -> 0 .. MaxHp]
        /\ srv'.hp[s] = hp /\ h = hp[n]
    BY <1>2, <1>10 DEF ShowsSide, h
  <2>2. /\ Shows(SwitchTeam(team, s, n, h), s, hp, n, unsure \ {n}, adrift \ {s})
        /\ \A more : unsure \subseteq more => Shows(team, s, hp, n, more, adrift \cup {s})
    <3> HIDE DEF hp, lead, unsure, adrift
    <3>1. QED
      BY <1>10, <2>1, ShowsSwitch
  <2>3. CASE heard
    <3>1. r = SwitchTeam(team, s, n, h)
      BY <1>10, <2>3
    <3>2. QED
      BY <1>4, <2>1, <2>2, <2>3, <3>1
  <2>4. CASE ~heard
    <3>1. r = team
      BY <1>10, <2>4
    <3>2. Shows(team, s, hp, n, Unsure(s)', adrift \cup {s})
      <4>1. unsure \subseteq Unsure(s)'
        BY <1>4, <2>4
      <4>2. QED
        BY <2>2, <4>1
    <3>3. stale'.active = adrift \cup {s}
      BY <1>4, <2>4
    <3>4. QED
      BY <2>1, <3>1, <3>2, <3>3
  <2>5. QED
    BY <2>3, <2>4
<1>11. YourTeamShows'
  <2>1. SUFFICES ASSUME m_your_side = you PROVE ShowsSide(m_your_team, you)'
    BY DEF YourTeamShows
  <2>2. ShowsSide(m_your_team, you)
    BY <2>1 DEF TeamsInv, YourTeamShows
  <2>3. CASE s = you
    BY <1>3, <1>5, <1>10, <2>1, <2>2, <2>3 DEF ShowsSide
  <2>4. CASE s # you
    BY <1>1, <1>5, <1>9, <2>1, <2>2, <2>4 DEF ShowsSide
  <2>5. QED
    BY <2>3, <2>4
<1>12. OpponentsOut'
  <2>1. \A i \in DOMAIN m_opponent_team :
          /\ m_opponent_team[i].name \in srv.out[m_opponent_team[i].side]
          /\ m_your_side = you => m_opponent_team[i].side # you
    BY DEF TeamsInv, OpponentsOut
  <2>2. \A i \in DOMAIN m_opponent_team :
          m_opponent_team[i].name \in srv'.out[m_opponent_team[i].side]
    <3>1. \A i \in DOMAIN m_opponent_team : m_opponent_team[i].side \in Sides
      BY <1>3, SideInSides DEF Fine
    <3>2. \A x \in Sides : srv.out[x] \subseteq srv'.out[x]
      BY <1>2
    <3>3. QED
      BY <2>1, <3>1, <3>2
  <2>3. CASE ~(heard /\ s # m_your_side)
    <3>1. m_opponent_team' = m_opponent_team
      BY <1>5, <2>3
    <3>2. QED
      BY <2>1, <2>2, <3>1 DEF OpponentsOut
  <2>4. CASE heard /\ s # m_your_side
    <3> DEFINE r == m_opponent_team'
               t == m_opponent_team
    <3>1. /\ \A i \in 1 .. Len(t) : r[i].side = t[i].side /\ r[i].name = t[i].name
          /\ \A i \in 1 .. Len(r) : i \notin 1 .. Len(t) => r[i].side = s /\ r[i].name = n
      BY <1>3, <1>5, <1>6, <2>4
    <3>2. DOMAIN r = 1 .. Len(r) /\ DOMAIN t = 1 .. Len(t)
      BY <1>3, <1>7 DEF Fine
    <3>3. ASSUME NEW i \in DOMAIN r
          PROVE  r[i].name \in srv'.out[r[i].side] /\ (m_your_side = you => r[i].side # you)
      BY <1>2, <2>1, <2>2, <2>4, <3>1, <3>2
    <3>4. QED
      BY <3>3 DEF OpponentsOut
  <2>5. QED
    BY <2>3, <2>4
<1>13. OpponentShows'
  <2>1. SUFFICES ASSUME ~blind, ~(heard /\ m_your_side = None)
                 PROVE  /\ m_your_side = None => m_opponent_team' = <<>>
                        /\ \A m \in srv'.out[o] :
                             HasName(m_opponent_team', m) \/ m \in Unsure(o)'
                        /\ ShowsSide(m_opponent_team, o)'
    BY DEF OpponentShows
  <2>2. /\ m_your_side = None => m_opponent_team = <<>>
        /\ \A m \in srv.out[o] : HasName(m_opponent_team, m) \/ m \in Unsure(o)
        /\ ShowsSide(m_opponent_team, o)
    BY <2>1 DEF TeamsInv, OpponentShows
  <2>3. m_your_side = None => m_opponent_team' = <<>>
    BY <1>5, <2>1, <2>2
  <2>4. CASE s = o
    <3>1. s # m_your_side
      BY <1>1, <2>4, BattleAssumption
    <3>2. m_opponent_team' = (IF heard THEN SwitchTeam(m_opponent_team, s, n, h)
                              ELSE m_opponent_team)
      BY <1>5, <3>1
    <3>3. ShowsSide(m_opponent_team, o)'
      BY <1>3, <1>10, <2>2, <2>4, <3>2 DEF ShowsSide
    <3>4. ASSUME NEW m \in srv'.out[o]
          PROVE  HasName(m_opponent_team', m) \/ m \in Unsure(o)'
      <4>1. CASE ~heard
        BY <1>2, <1>4, <2>2, <2>4, <3>2, <4>1
      <4>2. CASE heard
        <5>1. HasName(m_opponent_team', n)
          BY <1>3, <1>6, <3>2, <4>2
        <5>2. HasName(m_opponent_team, m) => HasName(m_opponent_team', m)
          <6> DEFINE r == m_opponent_team'
                     t == m_opponent_team
          <6>1. /\ Len(r) >= Len(t)
                /\ \A i \in 1 .. Len(t) : r[i].name = t[i].name
            BY <1>3, <1>6, <3>2, <4>2
          <6>2. /\ DOMAIN r = 1 .. Len(r) /\ DOMAIN t = 1 .. Len(t)
                /\ Len(r) \in Nat /\ Len(t) \in Nat
            BY <1>3, <1>7 DEF Fine
          <6> HIDE DEF r, t
          <6>3. HasName(t, m) => HasName(r, m)
            BY <6>1, <6>2 DEF HasName
          <6>4. QED
            BY <6>3 DEF r, t
        <5>3. QED
          BY <1>2, <1>4, <2>2, <2>4, <4>2, <5>1, <5>2
      <4>3. QED
        BY <4>1, <4>2
    <3>5. QED
      BY <2>3, <3>3, <3>4
  <2>5. CASE s = you
    <3>1. m_opponent_team' = m_opponent_team
      BY <1>1, <1>5, <2>1, <2>5
    <3>2. ShowsSide(m_opponent_team, o)'
      BY <1>1, <1>9, <2>2, <2>5, <3>1 DEF ShowsSide
    <3>3. \A m \in srv'.out[o] : HasName(m_opponent_team', m) \/ m \in Unsure(o)'
      BY <1>1, <1>2, <1>4, <2>2, <2>5, <3>1
    <3>4. QED
      BY <2>3, <3>2, <3>3
  <2>6. QED
    BY <1>1, <2>4, <2>5
<1>14. LeadShown'
  <2>1. SUFFICES ASSUME settled'
                 PROVE  /\ m_your_side = you
                        /\ \/ o \in stale'.active
                           \/ srv'.hp[o][srv'.order[o][1]] = 0
                           \/ \E i \in DOMAIN m_opponent_team' :
                                /\ m_opponent_team'[i].active
                                /\ m_opponent_team'[i].name = srv'.order[o][1]
    BY DEF LeadShown
  <2>2. m_your_side = you
    BY <1>1, <2>1 DEF TeamsInv, LeadShown
  <2>3. CASE s = o /\ heard
    <3> DEFINE r == m_opponent_team'
    <3>1. /\ HasName(r, n) /\ DOMAIN r = 1 .. Len(r)
          /\ \A i \in 1 .. Len(r) : r[i].active = (r[i].name = n)
      BY <1>1, <1>3, <1>5, <1>6, <1>7, <2>2, <2>3 DEF Fine
    <3>2. PICK i \in DOMAIN r : r[i].name = n
      BY <3>1 DEF HasName
    <3>3. r[i].active
      BY <3>1, <3>2
    <3>4. QED
      BY <2>2, <2>3, <3>2, <3>3
  <2>4. CASE s = o /\ ~heard
    BY <1>4, <2>2, <2>4
  <2>5. CASE s = you
    <3>1. m_opponent_team' = m_opponent_team /\ settled
      BY <1>5, <2>1, <2>2, <2>5
    <3>2. \/ o \in stale.active
          \/ srv.hp[o][srv.order[o][1]] = 0
          \/ \E i \in DOMAIN m_opponent_team :
               /\ m_opponent_team[i].active
               /\ m_opponent_team[i].name = srv.order[o][1]
      BY <3>1 DEF TeamsInv, LeadShown
    <3>3. srv'.order[o] = srv.order[o] /\ (o \in stale.active => o \in stale'.active)
      BY <1>1, <1>4, <2>5
    <3>4. QED
      BY <2>2, <3>1, <3>2, <3>3
  <2>6. QED
    BY <1>1, <2>3, <2>4, <2>5
<1>15. QED
  BY <1>7, <1>8, <1>11, <1>12, <1>13, <1>14 DEF TeamsInv

(* The first request, however late. *)
LEMMA FirstRequestStep ==
  ASSUME SrvOK, TeamsInv, m_your_side = None,
         NEW junk \in [1 .. TeamSize -> Junk],
         m_your_side' = you,
         m_your_team' = FromRequest(you, srv.order[you], srv.hp[you], junk),
         m_opponent_team' = WithoutSide(m_opponent_team, you),
         stale' = [hp |-> stale.hp \ ({you} \X Names), active |-> stale.active \ {you}],
         srv'.hp = srv.hp, srv'.order = srv.order, srv'.out = srv.out,
         UNCHANGED <<you, blind, settled>>
  PROVE  TeamsInv'
<1> DEFINE o == Other(you)
           r == m_opponent_team'
           t == m_opponent_team
<1>1. you \in Sides /\ o \in Sides /\ o # you /\ you # None
  BY SidesAre
<1>2. /\ srv.order[you] \in Orders /\ srv.hp[you] \in [Names -> 0 .. MaxHp]
  BY <1>1, SrvFields
<1>3. /\ Fine(m_your_team') /\ Len(m_your_team') = TeamSize
      /\ \A n \in Names : HasName(m_your_team', n)
                            <=> \E k \in 1 .. TeamSize : srv.order[you][k] = n
      /\ Shows(m_your_team', you, srv.hp[you], srv.order[you][1], Unsure(you)',
               stale.active \ {you})
  <2> DEFINE order == srv.order[you]
             hp == srv.hp[you]
             unsure == Unsure(you)'
             adrift == stale.active
             team == FromRequest(you, order, hp, junk)
  <2>1. order \in Orders /\ hp \in [Names -> 0 .. MaxHp] /\ m_your_team' = team
    BY <1>2
  <2>2. /\ Fine(team) /\ Len(team) = TeamSize
        /\ \A n \in Names : HasName(team, n) <=> \E k \in 1 .. TeamSize : order[k] = n
        /\ Shows(team, you, hp, order[1], unsure, adrift \ {you})
    <3> HIDE DEF order, hp, unsure, adrift
    <3>1. QED
      BY <1>1, <2>1, ShowsRequest
  <2>3. QED
    BY <2>1, <2>2
<1>4. /\ Fine(r)
      /\ \A k \in 1 .. Len(r) : \E i \in 1 .. Len(t) : r[k] = t[i] /\ t[i].side # you
      /\ t = <<>> => r = <<>>
  BY WithoutSideKeeps DEF TeamsInv, Fine
<1>5. SideKnown'
  BY <1>1, <1>3 DEF SideKnown
<1>6. YourTeamShows'
  <2>1. stale'.active = stale.active \ {you}
    OBVIOUS
  <2>2. QED
    BY <1>3, <2>1 DEF YourTeamShows, ShowsSide
<1>7. OpponentsOut'
  <2>1. DOMAIN r = 1 .. Len(r) /\ DOMAIN t = 1 .. Len(t)
    BY <1>4 DEF TeamsInv, Fine
  <2>2. ASSUME NEW k \in DOMAIN r
        PROVE  r[k].name \in srv.out[r[k].side] /\ r[k].side # you
    <3>1. PICK i \in 1 .. Len(t) : r[k] = t[i] /\ t[i].side # you
      BY <1>4, <2>1
    <3>2. t[i].name \in srv.out[t[i].side]
      BY <2>1 DEF TeamsInv, OpponentsOut
    <3>3. QED
      BY <3>1, <3>2
  <2>3. QED
    BY <2>2 DEF OpponentsOut
<1>8. OpponentShows'
  <2>1. SUFFICES ASSUME ~blind
                 PROVE  /\ \A m \in srv.out[o] : m \in Unsure(o)'
                        /\ ShowsSide(m_opponent_team, o)'
    BY <1>1 DEF OpponentShows
  <2>2. t = <<>> /\ \A m \in srv.out[o] : HasName(t, m) \/ m \in Unsure(o)
    BY <2>1 DEF TeamsInv, OpponentShows
  <2>3. \A m : ~HasName(t, m)
    BY <2>2 DEF HasName
  <2>4. \A m \in Unsure(o) : m \in Unsure(o)'
    <3>1. \A m : <<o, m>> \notin {you} \X Names
      BY <1>1
    <3>2. \A m : <<o, m>> \in stale.hp => <<o, m>> \in stale'.hp
      BY <3>1
    <3>3. QED
      BY <3>2 DEF Unsure
  <2>5. DOMAIN r = {}
    BY <1>4, <2>2
  <2>6. ShowsSide(m_opponent_team, o)'
    BY <2>5 DEF ShowsSide, Shows
  <2>7. QED
    BY <2>2, <2>3, <2>4, <2>6
<1>9. LeadShown'
  BY <1>1 DEF TeamsInv, LeadShown
<1>10. QED
  BY <1>3, <1>4, <1>5, <1>6, <1>7, <1>8, <1>9 DEF TeamsInv

-----------------------------------------------------------------------------
(* The messages. *)

(* What the invariant says of the fields it need not know the truth of. *)
ChoiceOK ==
  m_force_switch \in BOOLEAN /\ m_available_moves \subseteq {"move"} /\ m_turn \in Nat \cup {None}

LEMMA Typed ==
  ASSUME SrvOK', TeamsInv', ChoiceOK'
  PROVE  TypeOK'
<1>1. /\ m_your_side' \in Sides \cup {None} /\ Len(m_your_team') \in {0, TeamSize}
      /\ m_your_team' \in Seq(Pokemon) /\ m_opponent_team' \in Seq(Pokemon)
  BY DEF SrvOK, TeamsInv, SideKnown, Fine
<1>2. stale'.hp \subseteq Sides \X Names /\ stale'.active \subseteq Sides
  BY DEF SrvOK
<1>3. QED
  BY <1>1, <1>2 DEF TypeOK, ChoiceOK

LEMMA ChoiceFromType == TypeOK => ChoiceOK
  BY DEF TypeOK, ChoiceOK

(* Either message that changes hit points. *)
LEMMA HpMessage ==
  ASSUME IInv, NEW s \in Sides, NEW heard \in BOOLEAN, NEW n \in Names, NEW h \in 0 .. MaxHp,
         srv.hp[s][n] > 0 \/ n # Lead(s), NEW down \in [Sides -> SUBSET Names],
         srv' = [srv EXCEPT !.hp[s][n] = h, !.down = down],
         IF heard THEN ApplyHp(s, n, h) ELSE UNCHANGED teamVars,
         HpTold(heard, s, n, h),
         UNCHANGED <<choiceVars, m_turn, you, blind, settled>>
  PROVE  IInv'
<1>1. SrvOK /\ TeamsInv /\ ChoiceOK
  BY ChoiceFromType DEF IInv
<1>2. /\ srv.hp \in [Sides -> [Names -> 0 .. MaxHp]]
      /\ Lead(s) = srv.order[s][1] /\ MaxHp \in Nat
  BY <1>1, SrvFields
<1>3. /\ srv'.hp = [srv.hp EXCEPT ![s] = [srv.hp[s] EXCEPT ![n] = h]]
      /\ srv'.order = srv.order /\ srv'.out = srv.out /\ srv'.down = down
      /\ srv'.turn = srv.turn /\ srv'.asked = srv.asked
  BY <1>1 DEF SrvOK
<1>4. SrvOK'
  <2>1. srv' \in [order : [Sides -> Orders], hp : [Sides -> [Names -> 0 .. MaxHp]],
                  out : [Sides -> SUBSET Names], down : [Sides -> SUBSET Names],
                  turn : Nat, asked : BOOLEAN]
    <3>1. srv'.hp \in [Sides -> [Names -> 0 .. MaxHp]]
      BY <1>2, <1>3
    <3>2. srv' = [srv EXCEPT !.hp = srv'.hp, !.down = down]
      BY <1>1, <1>3 DEF SrvOK
    <3>3. QED
      BY <1>1, <3>1, <3>2 DEF SrvOK
  <2>2. stale' \in [hp : SUBSET (Sides \X Names), active : SUBSET Sides]
    BY <1>1 DEF HpTold, SrvOK
  <2>3. QED
    BY <1>1, <2>1, <2>2 DEF SrvOK
<1>5. TeamsInv'
  BY <1>1, <1>2, <1>3, HpStep DEF choiceVars
<1>6. ChoiceOK'
  BY <1>1 DEF ChoiceOK, choiceVars
<1>7. QED
  BY <1>4, <1>5, <1>6, Typed DEF IInv

(* Either message that brings one in. *)
LEMMA SwitchMessage ==
  ASSUME IInv, NEW s \in Sides, NEW heard \in BOOLEAN, NEW n \in Names,
         NEW order \in Orders, order[1] = n,
         \A m : (\E k \in 1 .. TeamSize : order[k] = m)
                 <=> \E k \in 1 .. TeamSize : srv.order[s][k] = m,
         \E k \in 1 .. TeamSize : srv.order[s][k] = n,
         srv' = [srv EXCEPT !.order[s] = order, !.out[s] = srv.out[s] \cup {n}],
         IF heard THEN ApplySwitch(s, n, srv.hp[s][n]) ELSE UNCHANGED teamVars,
         SwitchTold(heard, s, n),
         blind' = (blind \/ (heard /\ m_your_side = None)),
         settled' = settled \/ settled' = (settled \/ (heard /\ m_your_side # None /\ s # you)),
         UNCHANGED <<choiceVars, m_turn, you>>
  PROVE  IInv'
<1>1. SrvOK /\ TeamsInv /\ ChoiceOK
  BY ChoiceFromType DEF IInv
<1>2. srv.order \in [Sides -> Orders] /\ srv.out \in [Sides -> SUBSET Names]
  BY <1>1, SrvFields
<1>3. /\ srv'.order = [srv.order EXCEPT ![s] = order]
      /\ srv'.out = [srv.out EXCEPT ![s] = srv.out[s] \cup {n}]
      /\ srv'.hp = srv.hp
      /\ srv' = [srv EXCEPT !.order = srv'.order, !.out = srv'.out]
  BY <1>1 DEF SrvOK
<1>4. SrvOK'
  <2>1. srv'.order \in [Sides -> Orders] /\ srv'.out \in [Sides -> SUBSET Names]
    BY <1>2, <1>3
  <2>2. srv' \in [order : [Sides -> Orders], hp : [Sides -> [Names -> 0 .. MaxHp]],
                  out : [Sides -> SUBSET Names], down : [Sides -> SUBSET Names],
                  turn : Nat, asked : BOOLEAN]
    BY <1>1, <1>3, <2>1 DEF SrvOK
  <2>3. stale' \in [hp : SUBSET (Sides \X Names), active : SUBSET Sides]
    BY <1>1 DEF SwitchTold, SrvOK
  <2>4. blind' \in BOOLEAN /\ settled' \in BOOLEAN
    BY <1>1 DEF SrvOK
  <2>5. QED
    BY <1>1, <2>2, <2>3, <2>4 DEF SrvOK
<1>5. /\ srv'.order[s] = order
      /\ \A t \in Sides : t # s => srv'.order[t] = srv.order[t]
  BY <1>2, <1>3
<1>6. settled' => settled \/ (heard /\ m_your_side # None /\ s # you)
  BY <1>1 DEF SrvOK
<1>7. TeamsInv'
  BY <1>1, <1>3, <1>5, <1>6, SwitchStep DEF choiceVars
<1>8. ChoiceOK'
  BY <1>1 DEF ChoiceOK, choiceVars
<1>9. QED
  BY <1>4, <1>7, <1>8, Typed DEF IInv

LEMMA LeadMessage ==
  ASSUME IInv, NEW s \in Sides, NEW heard \in BOOLEAN, SendLead(s, heard)
  PROVE  IInv'
<1> DEFINE n == Lead(s)
           order == srv.order[s]
<1>1. SrvOK
  BY DEF IInv
<1>2. /\ order \in Orders /\ n \in Names /\ order[1] = n
      /\ 1 \in 1 .. TeamSize /\ srv.order \in [Sides -> Orders]
  BY <1>1, SrvFields
<1>3. srv.out[s] = {} /\ srv' = [srv EXCEPT !.out[s] = {n}]
  BY DEF SendLead
<1>4. srv' = [srv EXCEPT !.order[s] = order, !.out[s] = srv.out[s] \cup {n}]
  <2>1. [srv.order EXCEPT ![s] = order] = srv.order
    BY <1>2
  <2>2. srv.out[s] \cup {n} = {n}
    BY <1>3
  <2>3. QED
    BY <1>1, <1>3, <2>1, <2>2 DEF SrvOK
<1>5. /\ IF heard THEN ApplySwitch(s, n, srv.hp[s][n]) ELSE UNCHANGED teamVars
      /\ SwitchTold(heard, s, n)
      /\ blind' = (blind \/ (heard /\ m_your_side = None))
      /\ UNCHANGED <<choiceVars, m_turn, you, settled>>
  BY DEF SendLead, Announce
<1> HIDE DEF n, order
<1>6. \E k \in 1 .. TeamSize : srv.order[s][k] = n
  BY <1>2 DEF order
<1>7. \A m : (\E k \in 1 .. TeamSize : order[k] = m)
               <=> \E k \in 1 .. TeamSize : srv.order[s][k] = m
  BY DEF order
<1>8. QED
  BY <1>2, <1>4, <1>5, <1>6, <1>7, SwitchMessage

(* Two of an order change places. *)
LEMMA SwapOrder ==
  ASSUME NEW o \in Orders, NEW i \in 1 .. TeamSize, 1 \in 1 .. TeamSize
  PROVE  LET r == [o EXCEPT ![1] = o[i], ![i] = o[1]]
         IN  /\ r \in Orders /\ r[1] = o[i]
             /\ \A m : (\E k \in 1 .. TeamSize : r[k] = m)
                         <=> \E k \in 1 .. TeamSize : o[k] = m
<1> DEFINE D == 1 .. TeamSize
           r == [o EXCEPT ![1] = o[i], ![i] = o[1]]
<1>1. o \in [D -> Names] /\ \A j, k \in D : o[j] = o[k] => j = k
  BY DEF Orders, IsInjective
<1>2. i \in D /\ 1 \in D
  OBVIOUS
<1> HIDE DEF D
<1>3. /\ r \in [D -> Names]
      /\ \A k \in D : r[k] = IF k = i THEN o[1] ELSE IF k = 1 THEN o[i] ELSE o[k]
  BY <1>1, <1>2
<1>4. r[1] = o[i]
  BY <1>2, <1>3
<1> HIDE DEF r
<1>5. \A j, k \in D : r[j] = r[k] => j = k
  BY <1>1, <1>2, <1>3
<1>6. ASSUME NEW m PROVE (\E k \in D : r[k] = m) <=> \E k \in D : o[k] = m
  <2>1. ASSUME NEW k \in D, r[k] = m PROVE \E j \in D : o[j] = m
    BY <1>2, <1>3, <2>1
  <2>2. ASSUME NEW k \in D, o[k] = m PROVE \E j \in D : r[j] = m
    <3>1. CASE k = i
      BY <1>2, <1>4, <2>2, <3>1
    <3>2. CASE k = 1
      BY <1>2, <1>3, <2>2, <3>2
    <3>3. CASE k # i /\ k # 1
      BY <1>3, <2>2, <3>3
    <3>4. QED
      BY <3>1, <3>2, <3>3
  <2>3. QED
    BY <2>1, <2>2
<1>7. r \in Orders
  BY <1>3, <1>5 DEF Orders, IsInjective, D
<1>8. QED
  BY <1>4, <1>6, <1>7 DEF r, D

LEMMA SwitchInMessage ==
  ASSUME IInv, NEW s \in Sides, NEW heard \in BOOLEAN, SendSwitch(s, heard)
  PROVE  IInv'
<1>1. SrvOK
  BY DEF IInv
<1>2. PICK i \in 2 .. TeamSize :
        LET n == srv.order[s][i]
        IN  /\ srv' = [srv EXCEPT !.order[s] = [@ EXCEPT ![1] = n, ![i] = Lead(s)],
                                  !.out[s] = @ \cup {n}]
            /\ IF heard THEN ApplySwitch(s, n, srv.hp[s][n]) ELSE UNCHANGED teamVars
            /\ SwitchTold(heard, s, n)
  BY DEF SendSwitch
<1> DEFINE n == srv.order[s][i]
           o == srv.order[s]
           order == [o EXCEPT ![1] = o[i], ![i] = o[1]]
<1>3. /\ o \in Orders /\ o \in [1 .. TeamSize -> Names] /\ Lead(s) = o[1]
      /\ TeamSize \in Nat /\ 1 <= TeamSize
  BY <1>1, SrvFields
<1>4. i \in 1 .. TeamSize /\ 1 \in 1 .. TeamSize /\ n \in Names /\ n = o[i]
  BY <1>3
<1>5. srv' = [srv EXCEPT !.order[s] = order, !.out[s] = srv.out[s] \cup {n}]
  BY <1>2, <1>3
<1>6. /\ IF heard THEN ApplySwitch(s, n, srv.hp[s][n]) ELSE UNCHANGED teamVars
      /\ SwitchTold(heard, s, n)
  BY <1>2
<1>7. /\ blind' = (blind \/ (heard /\ m_your_side = None))
      /\ settled' = (settled \/ (heard /\ m_your_side # None /\ s # you))
      /\ UNCHANGED <<choiceVars, m_turn, you>>
  BY DEF SendSwitch, Announce
<1> HIDE DEF o
<1>8. /\ order \in Orders /\ order[1] = o[i]
      /\ \A m : (\E k \in 1 .. TeamSize : order[k] = m)
                  <=> \E k \in 1 .. TeamSize : o[k] = m
  BY <1>3, <1>4, SwapOrder
<1> HIDE DEF n, order
<1>9. /\ order[1] = n /\ \E k \in 1 .. TeamSize : srv.order[s][k] = n
      /\ \A m : (\E k \in 1 .. TeamSize : order[k] = m)
                  <=> \E k \in 1 .. TeamSize : srv.order[s][k] = m
  BY <1>4, <1>8 DEF o
<1>10. QED
  BY <1>4, <1>5, <1>6, <1>7, <1>8, <1>9, SwitchMessage

LEMMA DamageMessage ==
  ASSUME IInv, NEW s \in Sides, NEW heard \in BOOLEAN, SendDamage(s, heard)
  PROVE  IInv'
<1> DEFINE n == Lead(s)
<1>1. SrvOK
  BY DEF IInv
<1>2. PICK h \in 0 .. srv.hp[s][n] - 1 :
        /\ srv' = [srv EXCEPT !.hp[s][n] = h]
        /\ IF heard THEN ApplyHp(s, n, h) ELSE UNCHANGED teamVars
        /\ HpTold(heard, s, n, h)
  BY DEF SendDamage
<1>3. n \in Names /\ srv.hp[s][n] \in 0 .. MaxHp /\ MaxHp \in Nat
      /\ srv.down \in [Sides -> SUBSET Names]
  BY <1>1, SrvFields
<1>4. UNCHANGED <<choiceVars, m_turn, you, blind, settled>>
  BY DEF SendDamage, Announce
<1> HIDE DEF n
<1>5. h \in 0 .. MaxHp /\ srv.hp[s][n] > 0
  BY <1>3
<1>6. srv' = [srv EXCEPT !.hp[s][n] = h, !.down = srv.down]
  BY <1>1, <1>2 DEF SrvOK
<1>7. QED
  BY <1>2, <1>3, <1>4, <1>5, <1>6, HpMessage

LEMMA HealMessage ==
  ASSUME IInv, NEW s \in Sides, NEW heard \in BOOLEAN, SendHeal(s, heard)
  PROVE  IInv'
<1>1. SrvOK
  BY DEF IInv
<1>2. PICK n \in srv.out[s] :
        /\ IF n = Lead(s) THEN Alive(s, n) ELSE n \in srv.down[s]
        /\ \E h \in srv.hp[s][n] + 1 .. MaxHp :
             /\ srv' = [srv EXCEPT !.hp[s][n] = h, !.down[s] = @ \ {n}]
             /\ IF heard THEN ApplyHp(s, n, h) ELSE UNCHANGED teamVars
             /\ HpTold(heard, s, n, h)
  BY DEF SendHeal
<1>3. PICK h \in srv.hp[s][n] + 1 .. MaxHp :
        /\ srv' = [srv EXCEPT !.hp[s][n] = h, !.down[s] = @ \ {n}]
        /\ IF heard THEN ApplyHp(s, n, h) ELSE UNCHANGED teamVars
        /\ HpTold(heard, s, n, h)
  BY <1>2
<1> DEFINE down == [srv.down EXCEPT ![s] = srv.down[s] \ {n}]
<1>4. /\ n \in Names /\ srv.hp[s][n] \in 0 .. MaxHp /\ MaxHp \in Nat
      /\ srv.down \in [Sides -> SUBSET Names]
  BY <1>1, SrvFields
<1>5. UNCHANGED <<choiceVars, m_turn, you, blind, settled>>
  BY DEF SendHeal, Announce
<1>6. h \in 0 .. MaxHp /\ (srv.hp[s][n] > 0 \/ n # Lead(s))
  BY <1>2, <1>4 DEF Alive
<1>7. down \in [Sides -> SUBSET Names]
  BY <1>4
<1>8. srv' = [srv EXCEPT !.hp[s][n] = h, !.down = down]
  BY <1>3
<1> HIDE DEF down
<1>9. QED
  BY <1>3, <1>4, <1>5, <1>6, <1>7, <1>8, HpMessage

LEMMA FaintMessage ==
  ASSUME IInv, NEW s \in Sides, NEW heard \in BOOLEAN, SendFaint(s, heard)
  PROVE  IInv'
<1> DEFINE n == Lead(s)
<1>1. SrvOK /\ TeamsInv /\ ChoiceOK
  BY ChoiceFromType DEF IInv
<1>2. /\ n \in Names /\ n = srv.order[s][1] /\ srv.hp[s][n] \in 0 .. MaxHp
      /\ srv.down \in [Sides -> SUBSET Names] /\ MaxHp \in Nat
  BY <1>1, SrvFields
<1>3. /\ ~Alive(s, n) /\ srv' = [srv EXCEPT !.down[s] = srv.down[s] \cup {n}]
      /\ IF heard THEN ApplyFaint(s, n) ELSE UNCHANGED teamVars
      /\ UNCHANGED <<choiceVars, m_turn, you, blind, stale, settled>>
  BY DEF SendFaint, Announce
<1>4. srv.hp[s][n] = 0
  BY <1>2, <1>3 DEF Alive
<1>5. /\ srv'.hp = srv.hp /\ srv'.order = srv.order /\ srv'.out = srv.out
      /\ srv' = [srv EXCEPT !.down = [srv.down EXCEPT ![s] = srv.down[s] \cup {n}]]
      /\ [srv.down EXCEPT ![s] = srv.down[s] \cup {n}] \in [Sides -> SUBSET Names]
  BY <1>1, <1>2, <1>3 DEF SrvOK
<1> HIDE DEF n
<1>6. SrvOK'
  BY <1>1, <1>3, <1>5 DEF SrvOK
<1>7. TeamsInv'
  <2>1. CASE heard
    BY <1>1, <1>2, <1>3, <1>4, <1>5, <2>1, FaintStep DEF choiceVars
  <2>2. CASE ~heard
    BY <1>1, <1>3, <1>5, <2>2, SameStep DEF choiceVars, teamVars
  <2>3. QED
    BY <2>1, <2>2
<1>8. ChoiceOK'
  BY <1>1, <1>3 DEF ChoiceOK, choiceVars
<1>9. QED
  BY <1>6, <1>7, <1>8, Typed DEF IInv

(* A message after which no one is in another place or state. *)
LEMMA OtherMessage ==
  ASSUME IInv, NEW turn \in Nat, NEW asked \in BOOLEAN,
         srv' = [srv EXCEPT !.turn = turn, !.asked = asked],
         UNCHANGED <<m_your_side, m_your_team, m_opponent_team, you, blind, settled, stale>>,
         ChoiceOK'
  PROVE  IInv'
<1>1. SrvOK /\ TeamsInv
  BY DEF IInv
<1>2. SrvOK'
  BY <1>1 DEF SrvOK
<1>3. srv'.hp = srv.hp /\ srv'.order = srv.order /\ srv'.out = srv.out
  BY <1>1 DEF SrvOK
<1>4. QED
  BY <1>1, <1>2, <1>3, SameStep, Typed DEF IInv

LEMMA TurnMessage ==
  ASSUME IInv, SendTurn
  PROVE  IInv'
<1>1. SrvOK /\ ChoiceOK
  BY ChoiceFromType DEF IInv
<1>2. srv.turn + 1 \in Nat /\ srv.asked \in BOOLEAN
  BY <1>1, SrvFields
<1>3. srv' = [srv EXCEPT !.turn = srv.turn + 1, !.asked = srv.asked]
  BY <1>1 DEF SendTurn, SrvOK
<1>4. ChoiceOK'
  <2>1. m_turn' = srv.turn + 1
    BY <1>1, <1>3 DEF SendTurn, SrvOK
  <2>2. QED
    BY <1>1, <1>2, <2>1 DEF SendTurn, choiceVars, ChoiceOK
<1>5. QED
  BY <1>2, <1>3, <1>4, OtherMessage DEF SendTurn, Announce, choiceVars, teamVars

LEMMA RequestMessage ==
  ASSUME IInv, NEW kind \in {"move", "switch", "wait"}, SendRequest(kind)
  PROVE  IInv'
<1>1. SrvOK /\ TeamsInv /\ ChoiceOK
  BY ChoiceFromType DEF IInv
<1>2. /\ srv.turn \in Nat /\ srv' = [srv EXCEPT !.turn = srv.turn, !.asked = TRUE]
      /\ srv' \in [order : [Sides -> Orders], hp : [Sides -> [Names -> 0 .. MaxHp]],
                   out : [Sides -> SUBSET Names], down : [Sides -> SUBSET Names],
                   turn : Nat, asked : BOOLEAN]
      /\ srv'.hp = srv.hp /\ srv'.order = srv.order /\ srv'.out = srv.out
  BY <1>1 DEF SendRequest, SrvOK
<1>3. /\ ApplyRequest(kind, you, srv.order[you], srv.hp[you])
      /\ stale' = IF m_your_side # None THEN stale
                  ELSE [hp |-> stale.hp \ ({you} \X Names), active |-> stale.active \ {you}]
      /\ UNCHANGED <<m_turn, you, blind, settled>>
  BY DEF SendRequest, Announce
<1>4. ChoiceOK'
  BY <1>1, <1>3 DEF ApplyRequest, ChoiceOK
<1>5. CASE m_your_side # None
  <2>1. UNCHANGED <<m_your_side, m_your_team, m_opponent_team, you, blind, settled, stale>>
    BY <1>3, <1>5 DEF ApplyRequest, teamVars
  <2>2. QED
    BY <1>2, <1>4, <2>1, OtherMessage
<1>6. CASE m_your_side = None
  <2>1. /\ m_your_side' = you
        /\ m_opponent_team' = WithoutSide(m_opponent_team, you)
        /\ stale' = [hp |-> stale.hp \ ({you} \X Names), active |-> stale.active \ {you}]
    BY <1>3, <1>6 DEF ApplyRequest
  <2>2. PICK junk \in [1 .. TeamSize -> Junk] :
          m_your_team' = FromRequest(you, srv.order[you], srv.hp[you], junk)
    BY <1>3, <1>6 DEF ApplyRequest
  <2>3. TeamsInv'
    BY <1>1, <1>2, <1>3, <1>6, <2>1, <2>2, FirstRequestStep
  <2>4. SrvOK'
    BY <1>1, <1>2, <1>3, <2>1 DEF SrvOK
  <2>5. QED
    BY <1>4, <2>3, <2>4, Typed DEF IInv
<1>7. QED
  BY <1>5, <1>6

LEMMA LostRequest ==
  ASSUME IInv, NEW kind \in {"move", "switch", "wait"}, LoseRequest(kind)
  PROVE  IInv'
<1>1. SrvOK /\ ChoiceOK
  BY ChoiceFromType DEF IInv
<1>2. srv.turn \in Nat /\ srv' = [srv EXCEPT !.turn = srv.turn, !.asked = TRUE]
  BY <1>1 DEF LoseRequest, SrvOK
<1>3. UNCHANGED <<stateVars, you, blind, settled, stale>>
  BY DEF LoseRequest, Announce
<1>4. ChoiceOK'
  BY <1>1, <1>3 DEF ChoiceOK, stateVars
<1>5. QED
  BY <1>2, <1>3, <1>4, OtherMessage DEF stateVars

LEMMA Unread ==
  ASSUME IInv, UNCHANGED <<stateVars, you, srv, blind, settled, stale>>
  PROVE  IInv'
<1>1. SrvOK /\ ChoiceOK
  BY ChoiceFromType DEF IInv
<1>2. /\ srv.turn \in Nat /\ srv.asked \in BOOLEAN
      /\ srv' = [srv EXCEPT !.turn = srv.turn, !.asked = srv.asked]
  BY <1>1 DEF SrvOK
<1>3. ChoiceOK'
  BY <1>1 DEF ChoiceOK, stateVars
<1>4. QED
  BY <1>2, <1>3, OtherMessage DEF stateVars

LEMMA InitIInv == Init => IInv
<1>1. SUFFICES ASSUME Init PROVE IInv
  OBVIOUS
<1>2. PICK o \in [Sides -> Orders] :
        srv = [order |-> o, hp |-> [s \in Sides |-> [n \in Names |-> MaxHp]],
               out |-> [s \in Sides |-> {}], down |-> [s \in Sides |-> {}], turn |-> 0,
               asked |-> FALSE]
  BY <1>1 DEF Init
<1>3. MaxHp \in Nat /\ None \notin Sides
  BY BattleAssumption
<1>4. SrvOK
  <2>1. /\ [s \in Sides |-> [n \in Names |-> MaxHp]] \in [Sides -> [Names -> 0 .. MaxHp]]
        /\ [s \in Sides |-> {}] \in [Sides -> SUBSET Names]
    BY <1>3
  <2>2. QED
    BY <1>1, <1>2, <2>1 DEF Init, SrvOK
<1>5. TypeOK
  BY <1>1 DEF Init, TypeOK
<1>6. Other(you) \in Sides
  BY <1>4, SidesAre
<1>7. DOMAIN m_your_team = {} /\ DOMAIN m_opponent_team = {}
  BY <1>1 DEF Init
<1>8. /\ m_your_side = None /\ m_your_side # you
      /\ m_your_team = <<>> /\ m_opponent_team = <<>> /\ ~settled
      /\ srv.out[Other(you)] = {}
  BY <1>1, <1>2, <1>3, <1>6 DEF Init
<1>9. Fine(m_your_team) /\ Fine(m_opponent_team)
  BY <1>7, <1>8 DEF Fine, OneNameEach, OnlyOneActive
<1>10. SideKnown /\ YourTeamShows /\ OpponentsOut /\ LeadShown
  BY <1>7, <1>8 DEF SideKnown, YourTeamShows, OpponentsOut, LeadShown
<1>11. OpponentShows
  BY <1>7, <1>8 DEF OpponentShows, ShowsSide, Shows
<1>12. QED
  BY <1>4, <1>5, <1>9, <1>10, <1>11 DEF IInv, TeamsInv

LEMMA NextIInv ==
  ASSUME IInv, [Next]_vars
  PROVE  IInv'
<1>1. ASSUME NEW s \in Sides, NEW heard \in BOOLEAN, SendLead(s, heard) PROVE IInv'
  BY <1>1, LeadMessage
<1>2. ASSUME NEW s \in Sides, NEW heard \in BOOLEAN, SendSwitch(s, heard) PROVE IInv'
  BY <1>2, SwitchInMessage
<1>3. ASSUME NEW s \in Sides, NEW heard \in BOOLEAN, SendDamage(s, heard) PROVE IInv'
  BY <1>3, DamageMessage
<1>4. ASSUME NEW s \in Sides, NEW heard \in BOOLEAN, SendHeal(s, heard) PROVE IInv'
  BY <1>4, HealMessage
<1>5. ASSUME NEW s \in Sides, NEW heard \in BOOLEAN, SendFaint(s, heard) PROVE IInv'
  BY <1>5, FaintMessage
<1>6. CASE SendTurn
  BY <1>6, TurnMessage
<1>7. ASSUME NEW k \in {"move", "switch", "wait"}, SendRequest(k) PROVE IInv'
  BY <1>7, RequestMessage
<1>8. ASSUME NEW k \in {"move", "switch", "wait"}, LoseRequest(k) PROVE IInv'
  BY <1>8, LostRequest
<1>9. CASE SendEmptyRequest
  BY <1>9, Unread DEF SendEmptyRequest, Announce
<1>10. CASE UNCHANGED vars
  BY <1>10, Unread DEF vars
<1>11. QED
  BY <1>1, <1>2, <1>3, <1>4, <1>5, <1>6, <1>7, <1>8, <1>9, <1>10 DEF Next, Ended

LEMMA Invariance == Spec => []IInv
<1>1. Init => IInv
  BY InitIInv
<1>2. IInv /\ [Next]_vars => IInv'
  BY NextIInv
<1>3. QED
  BY <1>1, <1>2, PTL DEF Spec

-----------------------------------------------------------------------------
(* What follows for a battle of any length. *)

(* Whatever messages come, and whichever are missed, a team holds 0 or a   *)
(* full team of our pokemon, and every field what its type allows.         *)
THEOREM TypeCorrect == Spec => []TypeOK
<1>1. IInv => TypeOK
  BY DEF IInv
<1>2. QED
  BY <1>1, Invariance, PTL

(* No handler ever leaves two pokemon of a team in battle, or adds one     *)
(* that the team has: apply_switch() benches all before it marks one, and  *)
(* adds only what find_pokemon() did not find.                             *)
THEOREM TeamsAreSound == Spec => []OneActive
<1>1. IInv => OneActive
  BY DEF IInv, TeamsInv, Fine, OneNameEach, OnlyOneActive, OneActive
<1>2. QED
  BY <1>1, Invariance, PTL

LEMMA ShowsIsRight ==
  ASSUME SrvOK, NEW team, Fine(team), NEW s \in Sides, ShowsSide(team, s)
  PROVE  Right(team, s)
<1>1. Lead(s) = srv.order[s][1]
  BY SrvFields
<1>2. \A i \in DOMAIN team : team[i].name \in Names /\ team[i].active \in BOOLEAN
  <2>1. \A i \in DOMAIN team : team[i] \in Pokemon
    BY DEF Fine
  <2>2. QED
    BY <2>1 DEF Pokemon
<1>3. QED
  BY <1>1, <1>2 DEF ShowsSide, Shows, Right, Alive, Unsure

(* From the first request on the own team is the server's, with the hit    *)
(* points and the one in battle that it announced last and the client did  *)
(* not miss: what apply_request() fills in, apply_switch(), the handlers   *)
(* of damage and healing and apply_faint() keep right.                     *)
THEOREM YourTeamStaysRight == Spec => []YourTeamIsRight
<1>1. IInv => YourTeamIsRight
  <2>1. SUFFICES ASSUME IInv, m_your_side # None PROVE YourTeamIsRight
    BY DEF YourTeamIsRight
  <2>2. SrvOK /\ TeamsInv /\ m_your_side = you /\ you \in Sides
    BY <2>1 DEF IInv, TeamsInv, SideKnown, SrvOK
  <2>3. Right(m_your_team, you)
    BY <2>2, ShowsIsRight DEF TeamsInv, YourTeamShows
  <2>4. \A n \in Names : HasName(m_your_team, n)
                            <=> \E k \in 1 .. TeamSize : srv.order[you][k] = n
    BY <2>2 DEF TeamsInv, SideKnown
  <2>5. ToSet(srv.order[you]) = {srv.order[you][k] : k \in 1 .. TeamSize}
    BY <2>2, SrvFields DEF ToSet
  <2>6. \A i \in DOMAIN m_your_team : m_your_team[i].name \in Names
    BY <2>2, SideInSides DEF TeamsInv, Fine
  <2>7. \A k \in 1 .. TeamSize : srv.order[you][k] \in Names
    BY <2>2, SrvFields
  <2>8. {m_your_team[i].name : i \in DOMAIN m_your_team} = ToSet(srv.order[you])
    BY <2>4, <2>5, <2>6, <2>7 DEF HasName
  <2>9. QED
    BY <2>3, <2>8 DEF YourTeamIsRight
<1>2. QED
  BY <1>1, Invariance, PTL

(* The first request takes all of ours off the opponent's team, and none   *)
(* comes back; where no one came out before that request, the team is all  *)
(* the server has shown of the opponent, but for what was missed.          *)
THEOREM OpponentStaysRight == Spec => []OpponentIsRight
<1>1. IInv => OpponentIsRight
  <2> DEFINE o == Other(you)
  <2>1. SUFFICES ASSUME IInv, m_your_side # None PROVE OpponentIsRight
    BY DEF OpponentIsRight
  <2>2. SrvOK /\ TeamsInv /\ m_your_side = you
    BY <2>1 DEF IInv, TeamsInv, SideKnown
  <2>3. o \in Sides /\ \A s \in Sides : s = you \/ s = o
    BY <2>2, SidesAre
  <2>4. Fine(m_opponent_team)
    BY <2>2 DEF TeamsInv
  <2>5. ASSUME NEW i \in DOMAIN m_opponent_team
        PROVE  m_opponent_team[i].side # you /\ m_opponent_team[i].name \in srv.out[o]
    <3>1. /\ m_opponent_team[i].name \in srv.out[m_opponent_team[i].side]
          /\ m_opponent_team[i].side # you
      BY <2>2 DEF TeamsInv, OpponentsOut
    <3>2. m_opponent_team[i].side \in Sides
      BY <2>4, SideInSides DEF Fine
    <3>3. QED
      BY <2>3, <3>1, <3>2
  <2>6. ASSUME ~blind PROVE OpponentComplete
    <3>1. /\ ShowsSide(m_opponent_team, o)
          /\ \A n \in srv.out[o] : HasName(m_opponent_team, n) \/ n \in Unsure(o)
      BY <2>2, <2>6 DEF TeamsInv, OpponentShows
    <3>2. Right(m_opponent_team, o)
      BY <2>2, <2>3, <2>4, <3>1, ShowsIsRight
    <3>3. QED
      BY <3>1, <3>2 DEF OpponentComplete, HasName, Unsure
  <2>7. QED
    BY <2>5, <2>6 DEF OpponentIsRight
<1>2. QED
  BY <1>1, Invariance, PTL

(* However wrong the opponent's team was when the first request came, its  *)
(* next switch that the client hears shows the right one in battle, and    *)
(* from then on only a missed switch can undo that.                        *)
THEOREM OpponentSettles == Spec => []SettlesWithSwitch
<1>1. IInv => SettlesWithSwitch
  <2>1. SUFFICES ASSUME IInv, settled, Other(you) \notin stale.active,
                        Alive(Other(you), Lead(Other(you)))
                 PROVE  \E i \in DOMAIN m_opponent_team :
                          /\ m_opponent_team[i].active
                          /\ m_opponent_team[i].name = Lead(Other(you))
    BY DEF SettlesWithSwitch
  <2>2. SrvOK /\ LeadShown
    BY <2>1 DEF IInv, TeamsInv
  <2>3. Lead(Other(you)) = srv.order[Other(you)][1]
    BY <2>2, SidesAre, SrvFields
  <2>4. QED
    BY <2>1, <2>2, <2>3 DEF LeadShown, Alive
<1>2. QED
  BY <1>1, Invariance, PTL

=============================================================================
