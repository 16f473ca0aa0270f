\* Two users, two pairs, two requests; Redis commands that fail.
SPECIFICATION Spec
CONSTANTS
  Users = {u1, u2}
  Pairs = {p1, p2}
  Requests = {r1, r2}
  NoUser = NoUser
  NoPair = NoPair
  AccessExpiry = 1
  RefreshExpiry = 2
  MaxTime = 3
  RedisMayFail = TRUE
SYMMETRY Symmetry
INVARIANTS TypeOK RevokedNeverAccepted LogoutEndsItsToken
PROPERTIES NoResurrection ImplementsLifecycle
CHECK_DEADLOCK FALSE
