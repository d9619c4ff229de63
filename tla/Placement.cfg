SPECIFICATION Spec
CONSTANTS
  None = None
  Brokers = {b1, b2, b3}
  Threads = {t1, t2}
  Runtimes = {r1, r2}
  Addresses = {a1, a2}
SYMMETRY Symmetry
INVARIANTS
  OwnBroker
  OneRuntimePerSet
PROPERTIES
  ChoiceKept
\* Brokers and threads come to their end.
CHECK_DEADLOCK FALSE
