SPECIFICATION Spec
CONSTANTS
  Receivers = {r1, r2}
  None = None
  MaxReceives = 2
  MaxMessages = 3
  r1 = r1
  r2 = r2
  Size <- Sizes
  Windowed = {r2}
  Groups = {g1, g2}
INVARIANTS
  NoMissedWakeup
  BatchInBounds
PROPERTIES
  EventuallyReceived
\* Every subscription may have closed.
CHECK_DEADLOCK FALSE
