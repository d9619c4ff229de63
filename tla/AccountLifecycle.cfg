SPECIFICATION Spec
CONSTANTS
  work = work
  dead = dead
  orders = orders
  fdead = fdead
  topic = topic
  ftopic = ftopic
  None = None
  Queues = {work, dead}
  FifoQueues = {}
  Topics = {}
  FifoTopics = {}
  Subscriptions = {s1, s2}
  Groups = {}
  DedupIds = {}
  Sizes = {1, 2}
  Delays = {0, 3, 9}
  Second = 2
  Window = 4
  Margin = 1
  MaxLag = 1
  DedupWindow = 2
  MaxId = 5
  MaxTime = 5
  MaxLog = 2
  Registrations <- DeadLetterRegs
SYMMETRY Readers
INVARIANTS
  UnattendedIsEmpty
  HeldExclusively
  OnePlace
  PendingIsExact
  NoneStranded
PROPERTIES
  NoSilentLoss
  KeepsMessages
\* The bounds exhaust: ids, ticks and log entries run out.
CHECK_DEADLOCK FALSE
