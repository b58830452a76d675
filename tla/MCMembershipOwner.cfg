SPECIFICATION Spec
CONSTANTS
  User = {u1, u2}
  Request = {r1, r2}
  Invite = {i1, i2}
  MaxRow = 3
SYMMETRY MCSymmetry
INVARIANTS OwnerRemains
