SPECIFICATION Spec
CONSTANTS
  b1 = b1  b2 = b2  h = h  g = g
  Nil = Nil  EmptySni = EmptySni  NoOne = NoOne  Watcher = Watcher
  Ports = {1}
  SniHostnames = {EmptySni, h}
  Backends = {b1, b2}
  Guids = {g}
  Syncs = {s1, s2}
  Drains = {}
  Events <- EventSet
  Snapshots <- SnapshotSet
  Leftover <- NoLeftover
  DefaultTTL = 1
  ConfigureFails = FALSE
  MaxTime = 0
  MaxCached = 1
PROPERTIES
  NoEventDropped
