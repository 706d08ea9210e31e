SPECIFICATION ServerSpec
CONSTANTS
  h1 = h1
  h2 = h2
  g = g
  c = c
  d = d
  Ticker = Ticker
  Stopper = Stopper
  Main = Main
  NoOne = NoOne
  NoFile = NoFile
  Torn = Torn
  Handlers = {h1}
  Gauges = {g}
  Counters = {c}
  Singles = {c}
  Batches = {}
  StoreInterval = 1
  Restore = TRUE
  MaxUpdates = 1
  MaxFaults = 0
  Backoffs = 1
PROPERTIES
  CleanExitKeepsUpdates
CHECK_DEADLOCK FALSE
