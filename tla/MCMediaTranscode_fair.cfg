\* Two assets, two tasks, one slot, two rungs, no forced requests, under fairness.
SPECIFICATION FairSpec
CONSTANTS
  Media = {a1, a2}
  Jobs = {j1, j2}
  MaxTranscodes = 1
  Rungs = 2
  ForceFlags = {FALSE}
  MaxRestarts = 0
  NoRow = NoRow
  NoTask = NoTask
INVARIANTS OneTaskPerAsset PreparingMeansRunning
PROPERTY QueuedAssetsGetTheirTurn
CHECK_DEADLOCK FALSE
