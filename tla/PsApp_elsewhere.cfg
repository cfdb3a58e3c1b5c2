SPECIFICATION Spec
SYMMETRY Addresses
CONSTANTS
  LayerIds = {l1, l2, l3}
  None = none
  Modulus = 64
  Commands = {"1", "1 tera", "q"}
  LongTokens = {}
  Challenges = {}
  Rooms = {1, 2}
  Elsewhere = TRUE
  EventCap = 2
  InboundCap = 1
  MaxCommands = 3
  MaxRequests = 1
INVARIANTS TypeOK OneOverlay CommandReachesReader ScreenIsTop
PROPERTIES SearchOnlyWhenIdle
