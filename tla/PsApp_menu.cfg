SPECIFICATION Spec
SYMMETRY Addresses
CONSTANTS
  LayerIds = {l1, l2, l3}
  None = none
  Modulus = 64
  Commands = {"1", "q"}
  LongTokens = {}
  Challenges = {}
  Rooms = {1, 2}
  Elsewhere = FALSE
  EventCap = 4
  InboundCap = 4
  MaxCommands = 3
  MaxRequests = 1
INVARIANTS MenuAlwaysPresent
