SPECIFICATION AccountsSpec
CONSTANTS
  Browser = {b1, b2}
  Form = {r1, r2}
  None = None
  MaxUser = 2
  MaxToken = 3
  Attempt = {a1, a2, a3}
  Limit = 2
  Window = 1
  Tries = 2
  MaxClock = 5
  MaxCount = 4
SYMMETRY MCSymmetry
INVARIANTS ChosenByVerifier PendingWasMailed ThrottleHolds
CHECK_DEADLOCK FALSE
