SPECIFICATION Spec
SYMMETRY Addresses
CONSTANTS
  LayerIds = {l1, l2, l3}
  None = none
  Modulus = 64
  Commands = {"2", "name", " ", "q"}
  LongTokens = {"name"}
  Challenges = {1, 2}
  Rooms = {}
  Elsewhere = FALSE
  EventCap = 2
  InboundCap = 2
  MaxCommands = 7
  MaxRequests = 0
INVARIANTS UsesLastTyped CredentialsOnlyDuringLogin
PROPERTIES SignedOncePerChallenge
