\* Two users and one room under fair time and a fair cleanup task.
CONSTANTS
  Users = {alice, bob}
  Guest = guest
  RoomIds = {r1}
  Lobby = lobby
  NoRow = none
  PresenceSeconds = 0
  OwnedGrace = 1
  AnonymousGrace = 2
  StaleSeconds = 1
  MaxMessages = 0
SPECIFICATION FairSpec
PROPERTIES
  LastingRoomsAreInUse
