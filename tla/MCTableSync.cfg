SPECIFICATION SyncSpec
CONSTANTS
  Nil = Nil  EmptySni = EmptySni  NoOne = NoOne  Watcher = Watcher
  Ports = {1}
  SniHostnames = {EmptySni}
  Backends = {b1, b2}
  Guids = {0, 1, 2, 3, 4}
  Syncs = {s1}
  Drains = {}
  Events <- None
  Snapshots <- None
  Leftover <- None
  DefaultTTL = 1
  ConfigureFails = FALSE
  MaxTime = 0
  MaxCached = 2
  MaxChanges = 3
  MaxBreaks = 1
INVARIANTS
  NoRouteMissing
  NoStaleRoute
