SPECIFICATION Spec
CONSTANTS
  Error = Error
  Size = 2
  MaxMessages = 5
  MaxErrors = 2
INVARIANTS
  AtMostOneAhead
\* The stream ends.
CHECK_DEADLOCK FALSE
