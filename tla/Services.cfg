SPECIFICATION Spec
CONSTANTS
  Catalogue <- ExampleServices
  Queues <- ExampleQueues
  Topics <- ExampleTopics
  FifoNames <- ExampleFifoNames
  Idempotent <- ExampleIdempotent
  Kinds = {"good", "bad", "wait"}
  None = None
  MaxReceives = 4
  MaxInputs <- ExampleInputs
  MaxFaults <- ExampleFaults
INVARIANTS WorkBeforeDelete CappedNeverLost OneMessagePerInput FirstRunsInOrder
PROPERTY CappedQueuesDrain
CHECK_DEADLOCK FALSE
