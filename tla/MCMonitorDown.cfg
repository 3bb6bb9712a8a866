SPECIFICATION MonitorSpec
CONSTANTS
  Callers = {c1}
  NoCaller = NoCaller
  Partial = Partial
  Absent = Absent
  MaxCalls = 1
  MaxCrashes = 0
PROPERTIES
  DownIsNoticed
CHECK_DEADLOCK FALSE
