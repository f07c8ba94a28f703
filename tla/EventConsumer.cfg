SPECIFICATION FairConsumerSpec
CONSTANTS
  Messages = {"trip", "junk"}
  Partitions = {p0}
  Replicas = {r1, r2}
  Handlers = {"index", "notify"}
  NoOne = NoOne
  Malformed = {"junk"}
  Poison = {"trip"}
  MaxLog = 3
  MaxDisruptions = 1
  HandlersOf <- MCHandlersOf
  ActionsOf <- MCActionsOf
CHECK_DEADLOCK FALSE
INVARIANTS
  ConsumerIInv
  NoGap
  RedeliveriesOwedToDisruptions
PROPERTIES
  EventuallyHandled
