SPECIFICATION Spec
CONSTANTS
  None = None
  gold = gold
  bill = bill
  Names = {gold, bill}
  Pid <- SamePid
  Procs = {one}
  Calls = {c1, c2}
  Queues = {orders, rejects}
  FifoQueues = {}
  Topics = {events, plain}
  FifoTopics = {events}
  Addresses = {plain}
  Statements = {ops}
  Settings <- SomeSettings
  Outset = {orders, plain}
INVARIANTS
  TypeOK
  OneLookup
  GrantFirst
  OpenUnderPolicy
  OnPurposeArrive
PROPERTIES
  PolicyOnlyGrows
  CoreIsForGood
  CallsEnd
\* The calls end.
CHECK_DEADLOCK FALSE
