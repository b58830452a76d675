SPECIFICATION MCSpec
CONSTANTS
  Worker = {w1, w2}
  Request = {q1, q2}
  Lease = {l1, l2, l3, l4, l5, l6}
  Local = FALSE
  MaxCrash = 1
  r1 = r1
  r2 = r2
  r3 = r3
  k1 = k1
  k2 = k2
  h1 = h1
  h2 = h2
  c1 = c1
  c2 = c2
  Refresh = {r1, r2, r3}
  Key = {k1, k2}
  Wants <- MCWants
  Crypto = {k2}
  Krx = {k1}
  Slots = 1
  CacheTime = 0
  MaxTime = 1
  Reader = {c1, c2}
  Holding = {h1, h2}
  HoldingsOf <- MCHoldingsOf
  SymbolOf <- MCSymbolOf
  Foreign <- MCForeign
  FxTime = 0
  MaxVersion = 1
CHECK_DEADLOCK FALSE
INVARIANTS SingleRunner FreshIsFresh AmountsAgree
PROPERTIES QueuedIsAnswered OrphansAreRecovered QuotesEnd
