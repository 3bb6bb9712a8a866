SPECIFICATION WatcherSpec
CONSTANTS
  MaxRevocations = 2
  MaxSubscriptions = 2
INVARIANTS
  OneSourceOpen
  StopsSubscribing
PROPERTIES
  SubscribesAgain
  FetchesAgain
CHECK_DEADLOCK FALSE
