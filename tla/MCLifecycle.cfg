SPECIFICATION FairLifecycleSpec
CONSTANTS
  MaxDrains = 2
INVARIANT
  DrainedBeforeExit
PROPERTY
  ProcessExits
CHECK_DEADLOCK FALSE
