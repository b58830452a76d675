SPECIFICATION SessionSpec
CONSTANTS
  Pairs = {p1, p2, p3}
  Requests = {q1, q2}
  NoPair = NoPair
  AccessTtl = 1
  RefreshTtl = 2
  Leeway = 1
  MaxTime = 2
SYMMETRY MCSymmetry
INVARIANT RevokedIsInvalid
