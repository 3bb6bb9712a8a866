SPECIFICATION Spec
CONSTANTS
  b1 = b1  b2 = b2  h = h  g = g
  Nil = Nil  EmptySni = EmptySni  NoOne = NoOne  Watcher = Watcher
  Ports = {1}
  SniHostnames = {EmptySni, h}
  Backends = {b1, b2}
  Guids = {g}
  Syncs = {s1}
  Drains = {d1}
  Events <- FewEvents
  Snapshots <- FewSnapshots
  Leftover <- NoLeftover
  DefaultTTL = 1
  ConfigureFails = TRUE
  MaxTime = 2
  MaxCached = 1
INVARIANTS
  TypeOK
  CacheOnlyWhileSyncing
  Served
PROPERTIES
  NoEventDropped
  DrainSticky
