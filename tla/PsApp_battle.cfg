SPECIFICATION Spec
SYMMETRY Addresses
CONSTANTS
  LayerIds = {l1, l2, l3}
  None = none
  Modulus = 64
  Commands = {"1", "f", "q"}
  LongTokens = {}
  Challenges = {}
  Rooms = {1, 2}
  Elsewhere = FALSE
  EventCap = 2
  InboundCap = 2
  MaxCommands = 3
  MaxRequests = 2
INVARIANTS NoInputLost PopsAreLive PromptIsCurrent FirstBattleEndsWell OwnEndsOnly
PROPERTIES ChoicesGoToTheirBattle UsesStack
