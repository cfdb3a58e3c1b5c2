\* Four layers: two below two overlays, or any other mixture.
SPECIFICATION Spec
CONSTANTS
  LayerIds = {l1, l2, l3, l4}
  Modulus = 64
  MaxUnderflow = 3
INVARIANTS LayersBelowOverlays NoOverlayBelowOffset
PROPERTIES ImplementsHalves StaysInStep
