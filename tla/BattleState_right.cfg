\* Two on each side out of three names, so that the leads may share one; two
\* hit points, so that a hit may hurt or kill.
SPECIFICATION Spec
SYMMETRY Renaming
CONSTANTS
  Names = {a, b, c}
  TeamSize = 2
  MaxHp = 2
  MaxMessages = 8
  MaxMissed = 1
  None = none
INVARIANTS TypeOK OneActive YourTeamIsRight OpponentIsRight SettlesWithSwitch
