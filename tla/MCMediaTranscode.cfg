\* Two assets, three tasks, two slots; forced requests and a restart.
SPECIFICATION Spec
CONSTANTS
  Media = {a1, a2}
  Jobs = {j1, j2, j3}
  MaxTranscodes = 2
  Rungs = 1
  ForceFlags = {TRUE, FALSE}
  MaxRestarts = 1
  NoRow = NoRow
  NoTask = NoTask
SYMMETRY Symmetry
INVARIANTS TypeOK SlotsAddUp ReadyHasAMaster
CHECK_DEADLOCK FALSE
