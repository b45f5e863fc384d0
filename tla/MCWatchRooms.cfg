\* Two users and a guest in two rooms: presence moves between the rooms, the
\* cleanup deletes one of them, invitations are answered and withdrawn.
CONSTANTS
  Users = {alice, bob}
  Guest = guest
  RoomIds = {r1, r2}
  Lobby = lobby
  NoRow = none
  PresenceSeconds = 1
  OwnedGrace = 2
  AnonymousGrace = 3
  StaleSeconds = 2
  MaxMessages = 1
SPECIFICATION Spec
CONSTRAINT FewRows
SYMMETRY Symmetry
INVARIANTS
  TypeOK
  NoOrphans
  ActivePresenceNamesALiveRoom
  OpenInvitationsAreBetweenFriends
PROPERTIES
  OwnersNeverChange
  DeletedRoomsStayDeleted
  AcceptedInvitationsAreNotRevoked
