SPECIFICATION ServerSpec
CONSTANTS
  h1 = h1
  h2 = h2
  g = g
  c = c
  d = d
  Ticker = Ticker
  Stopper = Stopper
  Main = Main
  NoOne = NoOne
  NoFile = NoFile
  Torn = Torn
  Handlers = {h1, h2}
  Gauges = {g}
  Counters = {c}
  Singles = {g, c}
  Batches = {}
  StoreInterval = 0
  Restore = TRUE
  MaxUpdates = 2
  MaxFaults = 2
  Backoffs = 1
INVARIANTS
  TypeOK
  FileIntact
  SavedDurable
  NeverOvercounts
  IdleMeansSaved
PROPERTIES
  FileMonotone
SYMMETRY HandlerSymmetry
CHECK_DEADLOCK FALSE
