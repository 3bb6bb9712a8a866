SPECIFICATION MonitorSpec
CONSTANTS
  Callers = {c1, c2}
  NoCaller = NoCaller
  Partial = Partial
  Absent = Absent
  MaxCalls = 4
  MaxCrashes = 1
INVARIANTS
  ConfigurerTypeOK
  ConfigComplete
  ReloadsOwnContent
PROPERTIES
  BackupBeforeReplace
  ConfigureIsAtomic
  DeathNoticed
CHECK_DEADLOCK FALSE
