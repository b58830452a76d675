SPECIFICATION AccessSpec
CONSTANTS
  Pairs = {p1, p2, p3}
  Requests = {r1, r2}
  NoPair = NoPair
  AccessTtl = 1
  RefreshTtl = 2
  Leeway = 1
  MaxTime = 3
  User = {r1, r2}
  Request = {r1, r2}
  Invite = {i1, i2}
  MaxRow = 3
SYMMETRY MCSymmetry
INVARIANTS RefreshedOnce EndedStaysEnded JarIsLive SoleOwner PendingOnlyForOutsiders
PROPERTY JoinsOnlyByInvite
CHECK_DEADLOCK FALSE
