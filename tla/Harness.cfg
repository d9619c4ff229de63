SPECIFICATION Spec
CONSTANTS
  None = None
  Text <- Texts
  Other = {"binary"}
  Base64 <- Codes
  Empty = ""
  Lossy = "?"
  GroupIds = {"default", "customer", "text"}
  HeaderNames <- Headers
  BadNames = {"aws.bad"}
  MaxAttributes = 2
  Names = {"events", "ev.ents", "audit", "log.fifo", "?"}
  Destinations = {"events", "log.fifo", "?"}
  Links <- OwnLinks
  Keys = {"events", "audit", "log.fifo"}
  Key <- Addresses
  FifoKeys = {"log.fifo"}
  Publishers = {"queue", "topic", "stray", "own"}
  Policy <- Modes
  Subscriptions <- Apps
  Published <- Messages
  One = "1"
  MaxCalls = 2
  MaxTaken = 2
  MaxAsks = 4
INVARIANTS
  ReceivedAsSent
  PassAddsUp
  RecordIsExact
\* The bounds exhaust.
CHECK_DEADLOCK FALSE
