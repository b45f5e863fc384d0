SPECIFICATION Spec
CONSTANTS
  NoRoom = noroom
  MaxVersion = 2
  MaxPosted = 1
  MaxDrops = 1
  MaxLoads = 1
  MaxAnswers = 2
INVARIANTS
  ReconnectingIsAFullRefresh
CHECK_DEADLOCK FALSE
