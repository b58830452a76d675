SPECIFICATION Spec
CONSTANTS
  Worker = {w1, w2}
  Request = {r1}
  Lease = {l1, l2, l3, l4, l5}
  Local = FALSE
  MaxCrash = 0
INVARIANTS LeaseHasRunner
