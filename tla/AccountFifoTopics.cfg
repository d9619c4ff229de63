SPECIFICATION Spec
CONSTANTS
  work = work
  dead = dead
  orders = orders
  fdead = fdead
  topic = topic
  ftopic = ftopic
  None = None
  Queues = {work, orders, fdead}
  FifoQueues = {orders, fdead}
  Topics = {topic, ftopic}
  FifoTopics = {ftopic}
  Subscriptions = {s1, s2}
  Groups = {g1, g2}
  DedupIds = {d1, d2}
  Sizes = {1, 2}
  Delays = {}
  Second = 2
  Window = 4
  Margin = 1
  MaxLag = 0
  DedupWindow = 2
  MaxId = 6
  MaxTime = 3
  MaxLog = 2
  Registrations <- MixedRegs
SYMMETRY FifoSymmetry
CONSTRAINT OneScene
INVARIANTS
  TypeOK
  KindsMatch
  DedupHolds
PROPERTIES
  GroupOrder
\* The bounds exhaust: ids, ticks and log entries run out.
CHECK_DEADLOCK FALSE
