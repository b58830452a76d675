SPECIFICATION MCSpec
CONSTANTS
  Worker = {w1, w2}
  Interval = 1
  Deadline = 2
  Timeout = 2
  MaxTime = 6
  User = {u1}
  Server = {w1, w2}
  Socket = {s1, s2}
  Ticket = {t1, t2}
  Ttl = 1
  Leeway = 1
  MaxSecond = 2
INVARIANTS CommitsAreSerial TicketOpensOnce
PROPERTIES StaleLeaseYields RevokedAreDisconnected
