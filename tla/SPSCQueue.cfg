\* Five slots, two values: the ring wraps at every fill level, and acquire
\* loads may return any index since the last one.
CONSTANTS
  Capacity = 5
  Values = {v1, v2}
  Blank = blank
  StaleLoads = TRUE
SPECIFICATION FairSpec
INVARIANTS TypeOK NoSlotRace SlotDiscipline
PROPERTIES ImplementsFifo ImplementsFairFifo
