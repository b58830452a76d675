SPECIFICATION SchedulerSpec
CONSTANTS
  Warm <- MCWarm
  Reserve <- MCReserve
  Job = {"j1", "j2", "j3"}
  Project <- MCProject
  Locks <- MCLocks
  Seconds <- MCSeconds
  Projects = {"chrome", "webkit"}
  Chromium = {"chrome"}
  Minimum = 1
  HealthyRuns = 1
  PressureRuns = 1
  Nobody = Nobody
PROPERTIES ImplementsBoard RunEnds
CHECK_DEADLOCK FALSE
