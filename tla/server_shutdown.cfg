SPECIFICATION ServerSpec
CONSTANTS
  h1 = h1
  h2 = h2
  g = g
  c = c
  d = d
  Ticker = Ticker
  Stopper = Stopper
  Main = Main
  NoOne = NoOne
  NoFile = NoFile
  Torn = Torn
  Handlers = {h1, h2}
  Gauges = {g}
  Counters = {c, d}
  Singles = {c}
  Batches <- CounterFirst
  StoreInterval = 1
  Restore = TRUE
  MaxUpdates = 2
  MaxFaults = 1
  Backoffs = 1
INVARIANTS
  FinalSaveComplete
  SavedDurable
  CounterLeads
PROPERTIES
  DurableStoreSpec
SYMMETRY HandlerSymmetry
CHECK_DEADLOCK FALSE
