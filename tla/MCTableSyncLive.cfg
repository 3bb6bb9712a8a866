SPECIFICATION FairSyncSpec
CONSTANTS
  Nil = Nil  EmptySni = EmptySni  NoOne = NoOne  Watcher = Watcher
  Ports = {1}
  SniHostnames = {EmptySni}
  Backends = {b1}
  Guids = {0, 1, 2, 3, 4}
  Syncs = {s1}
  Drains = {}
  Events <- None
  Snapshots <- None
  Leftover <- None
  DefaultTTL = 1
  ConfigureFails = FALSE
  MaxTime = 0
  MaxCached = 1
  MaxChanges = 2
  MaxBreaks = 2
PROPERTIES
  EventuallyServed
