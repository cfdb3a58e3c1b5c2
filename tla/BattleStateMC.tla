--------------------------- MODULE BattleStateMC ---------------------------
(***************************************************************************)
(* BattleState for TLC: what the pokemon are called makes no difference.   *)
(***************************************************************************)
EXTENDS BattleState, TLC

Renaming == Permutations(Names)

=============================================================================
