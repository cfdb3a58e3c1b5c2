\* Two on each side out of three names, so that the leads may share one; two
\* hit points, so that a hit may hurt or kill.
SPECIFICATION Spec
SYMMETRY Renaming
CONSTANTS
  Names = {a, b, c}
  TeamSize = 2
  MaxHp = 2
  MaxMessages = 5
  MaxMissed = 0
  None = none
INVARIANTS SlotsAsOffered
