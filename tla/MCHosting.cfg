SPECIFICATION MCSpec
CONSTANTS
  Capsule = {c1, c2}
  CrossLane = {c1}
  Busy = c1
  Port = {p1, p2}
  MaxStart = 2
  MaxJob <- MCMaxJob
  NoPort = NoPort
  Job = {"j1", "j2"}
  Outcome <- MCOutcome
  Run = {r1, r2}
  NoRun = NoRun
INVARIANTS  AllOrNothing NothingLost CompleteMeansPublished ManifestIsOwn
PROPERTIES StopReaches ChildrenEnd
CHECK_DEADLOCK FALSE
