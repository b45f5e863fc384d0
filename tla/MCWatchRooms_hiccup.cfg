\* Is an owned room kept for its grace period after its last visitor left?
CONSTANTS
  Users = {alice}
  Guest = guest
  RoomIds = {r1}
  Lobby = lobby
  NoRow = none
  PresenceSeconds = 1
  OwnedGrace = 3
  AnonymousGrace = 4
  StaleSeconds = 4
  MaxMessages = 0
SPECIFICATION Spec
PROPERTIES
  OwnedRoomsSurviveAHiccup
