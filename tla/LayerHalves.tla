---------------------------- MODULE LayerHalves ----------------------------
(***************************************************************************)
(* What core/layerstack.h means a layer stack to be: a sequence of layers  *)
(* below a sequence of overlays, each pushed at the top of its own half    *)
(* and popped by name.                                                     *)
(***************************************************************************)
EXTENDS Naturals, Sequences, SequencesExt

CONSTANT LayerIds

VARIABLES base, over, open

halvesVars == <<base, over, open>>

Init == base = <<>> /\ over = <<>> /\ open = TRUE

PushLayer(l) ==
  /\ open
  /\ l \notin ToSet(base) \cup ToSet(over)
  /\ base' = Append(base, l)
  /\ UNCHANGED <<over, open>>

PushOverlay(l) ==
  /\ open
  /\ l \notin ToSet(base) \cup ToSet(over)
  /\ over' = Append(over, l)
  /\ UNCHANGED <<base, open>>

PopLayer(l) ==
  /\ open
  /\ \E i \in 1 .. Len(base) : base[i] = l /\ base' = RemoveAt(base, i)
  /\ UNCHANGED <<over, open>>

PopOverlay(l) ==
  /\ open
  /\ \E i \in 1 .. Len(over) : over[i] = l /\ over' = RemoveAt(over, i)
  /\ UNCHANGED <<base, open>>

Destroy ==
  /\ open
  /\ open' = FALSE
  /\ base' = <<>> /\ over' = <<>>

Next ==
  \/ \E l \in LayerIds : PushLayer(l) \/ PushOverlay(l) \/ PopLayer(l) \/ PopOverlay(l)
  \/ Destroy

Spec == Init /\ [][Next]_halvesVars

=============================================================================
