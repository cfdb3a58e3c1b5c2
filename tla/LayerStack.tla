----------------------------- MODULE LayerStack -----------------------------
(***************************************************************************)
(* core/layerstack.{h,cpp}: one vector of layers in which a counter, the   *)
(* layer iterator offset, is meant to mark where the overlays begin.       *)
(*                                                                         *)
(* A C++ iterator begin() + k is the 1-based position k + 1 here; End is   *)
(* the position after the last element.  The offset is unsigned and wraps  *)
(* at Modulus (2^32 in the program).  Once it exceeds the size, begin() +  *)
(* offset is not a valid iterator: what std::find then does is undefined,  *)
(* and the model takes any outcome the build can produce, "fault" being    *)
(* the one after which nothing is known.                                   *)
(***************************************************************************)
EXTENDS Naturals, FiniteSets, Sequences, SequencesExt

CONSTANTS
  LayerIds,      \* addresses of Layer objects
  Modulus,       \* number of values of m_layer_iterator_offset
  MaxUnderflow   \* bound: how far below zero the offset may be driven

ASSUME StackAssumption ==
  /\ IsFiniteSet(LayerIds)
  /\ Modulus \in Nat /\ MaxUnderflow \in Nat
  /\ Modulus > Cardinality(LayerIds) + MaxUnderflow

VARIABLES
  m_layers,                  \* the vector, bottom first
  m_layer_iterator_offset,   \* where the overlays are taken to begin
  overlays,                  \* history: what is there through push_overlay
  status                     \* "live", "fault" or "destroyed"

stackVars == <<m_layers, m_layer_iterator_offset, overlays, status>>

End == Len(m_layers) + 1

(* begin() + m_layer_iterator_offset is in [begin(), end()] *)
OffsetInVector == m_layer_iterator_offset <= Len(m_layers)

(* std::find over the positions first .. last - 1 *)
Find(first, last, l) ==
  IF \E i \in first .. last - 1 : m_layers[i] = l
  THEN CHOOSE i \in first .. last - 1 :
         m_layers[i] = l /\ \A j \in first .. i - 1 : m_layers[j] # l
  ELSE last

Init ==
  /\ m_layers = <<>>
  /\ m_layer_iterator_offset = 0
  /\ overlays = {}
  /\ status = "live"

Fault ==
  /\ status' = "fault"
  /\ UNCHANGED <<m_layers, m_layer_iterator_offset, overlays>>

-----------------------------------------------------------------------------
(* Mutant: the new layer is not counted. *)
PushLayerUncounted(l) ==
  /\ status = "live"
  /\ IF OffsetInVector
     THEN /\ m_layers' = InsertAt(m_layers, m_layer_iterator_offset + 1, l)
          /\ overlays' = overlays \ {l}
          /\ UNCHANGED <<m_layer_iterator_offset, status>>
     ELSE Fault

(* emplace at begin() + offset, then count it *)
PushLayer(l) ==
  /\ status = "live"
  /\ IF OffsetInVector
     THEN /\ m_layers' = InsertAt(m_layers, m_layer_iterator_offset + 1, l)
          /\ m_layer_iterator_offset' = (m_layer_iterator_offset + 1) % Modulus
          /\ overlays' = overlays \ {l}
          /\ UNCHANGED status
     ELSE Fault

(* Mutant: the overlay goes where a layer would. *)
PushOverlayAtOffset(l) ==
  /\ status = "live"
  /\ m_layers' = IF OffsetInVector THEN InsertAt(m_layers, m_layer_iterator_offset + 1, l)
                                   ELSE Append(m_layers, l)
  /\ overlays' = overlays \cup {l}
  /\ UNCHANGED <<m_layer_iterator_offset, status>>

(* Mutant: overlays are counted too, as both pops suppose. *)
PushOverlayCounted(l) ==
  /\ status = "live"
  /\ m_layers' = Append(m_layers, l)
  /\ m_layer_iterator_offset' = (m_layer_iterator_offset + 1) % Modulus
  /\ overlays' = overlays \cup {l}
  /\ UNCHANGED status

PushOverlay(l) ==
  /\ status = "live"
  /\ m_layers' = Append(m_layers, l)
  /\ overlays' = overlays \cup {l}
  /\ UNCHANGED <<m_layer_iterator_offset, status>>

(* on_detach, delete, erase and decrement: the tail of both pops *)
Erase(it) ==
  /\ m_layers' = RemoveAt(m_layers, it)
  /\ m_layer_iterator_offset' = (m_layer_iterator_offset + Modulus - 1) % Modulus
  /\ overlays' = overlays \ {m_layers[it]}
  /\ UNCHANGED status

(* The search stops at the offset, but "found" is read off end(): a layer  *)
(* that is not below the offset costs the first element above it its life. *)
PopLayer(l) ==
  /\ status = "live"
  /\ \/ /\ OffsetInVector
        /\ LET it == Find(1, m_layer_iterator_offset + 1, l)
           IN  IF it # End THEN Erase(it) ELSE UNCHANGED stackVars
     \/ /\ ~OffsetInVector
        /\ IF l \in ToSet(m_layers) THEN Erase(Find(1, End, l)) ELSE Fault

(* The offset is decremented although no layer has gone. *)
PopOverlay(l) ==
  /\ status = "live"
  /\ \/ /\ OffsetInVector
        /\ LET it == Find(m_layer_iterator_offset + 1, End, l)
           IN  IF it # End THEN Erase(it) ELSE UNCHANGED stackVars
     \/ /\ ~OffsetInVector    \* an empty or a runaway search
        /\ UNCHANGED stackVars \/ Fault

(* ~LayerStack: detach and delete from the top down *)
Destroy ==
  /\ status = "live"
  /\ m_layers' = <<>>
  /\ overlays' = {}
  /\ status' = "destroyed"
  /\ UNCHANGED m_layer_iterator_offset

-----------------------------------------------------------------------------
(* Any client that pushes a layer once: it may pop a layer with the wrong  *)
(* operation, or one that is no longer there.                              *)
MayUnderflow == m_layer_iterator_offset # (Modulus - MaxUnderflow) % Modulus

ClientPushLayer   == \E l \in LayerIds \ ToSet(m_layers) : PushLayer(l)
ClientPushOverlay == \E l \in LayerIds \ ToSet(m_layers) : PushOverlay(l)
ClientPopLayer    == MayUnderflow /\ \E l \in LayerIds : PopLayer(l)
ClientPopOverlay  == MayUnderflow /\ \E l \in LayerIds : PopOverlay(l)

Ended == status # "live" /\ UNCHANGED stackVars

Next ==
  \/ ClientPushLayer \/ ClientPushOverlay
  \/ ClientPopLayer \/ ClientPopOverlay
  \/ Destroy \/ Ended

Spec == Init /\ [][Next]_stackVars

-----------------------------------------------------------------------------
(* The type invariant, also of the stack within PsApp. *)
TypeOK ==
  /\ m_layers \in Seq(LayerIds)
  /\ m_layer_iterator_offset \in 0 .. Modulus - 1
  /\ overlays \subseteq LayerIds
  /\ status \in {"live", "fault", "destroyed"}

(* The order layerstack.h announces: layers in the first half of the list, *)
(* overlays in the second.  It survives every sequence of pushes and pops, *)
(* the ones that remove the wrong element and move the border included.    *)
LayersBelowOverlays ==
  \A i, j \in 1 .. Len(m_layers) :
    m_layers[i] \in overlays /\ i < j => m_layers[j] \in overlays

(* As long as it has not wrapped, the offset errs on one side only: what   *)
(* lies below it was pushed as a layer, so no later push_layer or          *)
(* successful search by pop_layer ever touches an overlay.                 *)
NoOverlayBelowOffset ==
  OffsetInVector =>
    \A i \in 1 .. m_layer_iterator_offset : m_layers[i] \notin overlays

(* The offset counts the layers ... *)
InStep == m_layer_iterator_offset = Cardinality(ToSet(m_layers) \ overlays)

(* ... until a pop removes an overlay, which it may do through either      *)
(* operation: both decrement the offset.  Nothing else, a pop of a layer   *)
(* that is not there included, sets it wrong.                              *)
StaysInStep ==
  [][InStep /\ status' = "live" /\ overlays \subseteq ToSet(m_layers') => InStep']_stackVars

Usable == status = "live" /\ InStep

(* The two halves the vector stands for, split at the offset. *)
LayerHalf   == IF Usable THEN SubSeq(m_layers, 1, m_layer_iterator_offset) ELSE <<>>
OverlayHalf == IF Usable THEN SubSeq(m_layers, m_layer_iterator_offset + 1, Len(m_layers))
                         ELSE <<>>

Halves == INSTANCE LayerHalves
            WITH base <- LayerHalf, over <- OverlayHalf, open <- Usable

(* Two independent halves, with the offset as the border, for as long as   *)
(* no pop removes an overlay: pushes in any order, pops of layers, and     *)
(* pops that find nothing keep every promise of layerstack.h.              *)
ImplementsHalves == Halves!Spec

=============================================================================
