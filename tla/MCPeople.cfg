SPECIFICATION Spec
CONSTANTS
  People = {u1, u2, u3}
  Nothing = nothing
  PageLimit = 1
  MaxDirect = 2
  MaxCrashes = 1
  Names = {n1}
  Addresses = {a1}
  Tokens = {t1, t2}
  NoSession = nosession
  SessionTtl = 2
  Window = 5
  Capacity = 2
  Viewers = {v1}
  Shows = {s1, s2}
  Media = {m1, m2}
  NoRow = norow
  MaxLength = 1
  MaxClock = 1
CONSTRAINT FewRows
SYMMETRY Symmetry
INVARIANTS
  TypeOK
  CrossedRequestsMeet
  OnlyACrashTears
  ShownMessagesAreRead
  TheLimiterKeepsItsWord
  EndedSessionsStayEnded
  TheShelfIsKept
CHECK_DEADLOCK FALSE
