SPECIFICATION FairSpec
CONSTANTS
  MaxMessages = 3
  MaxCommands = 2
  MaxFailures = 2
  QUEUE_CAP = 2
  MESSAGE_QUEUE_CAP = 1
  CallsMayFail = TRUE
INVARIANTS TypeOK OutboundSound CommandsOnceInOrder
PROPERTIES EveryMessageLeaves
CHECK_DEADLOCK FALSE
