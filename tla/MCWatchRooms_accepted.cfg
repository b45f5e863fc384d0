\* Does an accepted invitation last as long as its room?
CONSTANTS
  Users = {alice, bob}
  Guest = guest
  RoomIds = {r1}
  Lobby = lobby
  NoRow = none
  PresenceSeconds = 1
  OwnedGrace = 2
  AnonymousGrace = 3
  StaleSeconds = 2
  MaxMessages = 0
SPECIFICATION Spec
PROPERTIES
  AcceptedInvitationsLast
