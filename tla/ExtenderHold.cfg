SPECIFICATION Spec
CONSTANTS
  None = None
  Second = 8
  Window = 40
  Margin = 4
  Visibilities = {0, 8, 16, 24, 40}
  Delays = {3, 16, 80}
  MaxPoll = 2
  MaxTrip = 1
  MaxLate = 1
  MaxFailures = 1
  MaxTime = 44
INVARIANTS
  NeverRefused
  HiddenWhileHeld
  LanesAgree
\* The clock is bounded.
CHECK_DEADLOCK FALSE
