SPECIFICATION Spec
CONSTANTS
  None = None
  gold = gold
  bill = bill
  Names = {gold, bill}
  Pid <- SamePid
  Procs = {one, two}
  Calls = {c1, c2}
  Queues = {orders}
  FifoQueues = {orders}
  Topics = {}
  FifoTopics = {}
  Addresses = {}
  Statements = {ops}
  Settings <- NoSettings
  Outset = {orders}
INVARIANTS
  OnPurposeArrive
\* The calls end.
CHECK_DEADLOCK FALSE
