------------------------------ MODULE PsAppMC ------------------------------
(***************************************************************************)
(* PsApp for TLC: which address a layer gets makes no difference.          *)
(***************************************************************************)
EXTENDS PsApp, TLC

Addresses == Permutations(LayerIds)

=============================================================================
