SPECIFICATION FairSpec
CONSTANTS
  LayerIds = {l1, l2}
  None = none
  Modulus = 64
  Commands = {"1", "2", "t", "q"}
  LongTokens = {}
  Challenges = {1}
  Rooms = {1}
  Elsewhere = FALSE
  EventCap = 2
  InboundCap = 2
  MaxCommands = 3
  MaxRequests = 0
PROPERTIES QuitEnds EventsAreHandled
