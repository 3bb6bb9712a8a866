SPECIFICATION StartupSpec
CONSTANTS
  Ports = {1, 2}
  Contents <- MCContents
  Durations <- MCDurations
INVARIANTS
  SettingsInRange
  BackendTLSChecked
  NoReservedPortRouted
PROPERTIES
  StartupEnds
CHECK_DEADLOCK FALSE
