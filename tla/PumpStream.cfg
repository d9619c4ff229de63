SPECIFICATION Spec
CONSTANTS
  Error = Error
  Size = 2
  MaxMessages = 5
  MaxErrors = 2
PROPERTIES
  HandsOver
  PumpEnds
  EventuallyHanded
\* The stream ends.
CHECK_DEADLOCK FALSE
