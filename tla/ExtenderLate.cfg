SPECIFICATION Spec
CONSTANTS
  None = None
  Second = 8
  Window = 40
  Margin = 4
  Visibilities = {0, 8, 16, 40}
  Delays = {3, 16, 80}
  MaxPoll = 2
  MaxTrip = 1
  MaxLate = 1
  MaxFailures = 0
  MaxTime = 44
INVARIANTS
  NotBeforeDelay
\* The clock is bounded.
CHECK_DEADLOCK FALSE
