SPECIFICATION Spec
CONSTANTS
  h1 = h1
  h2 = h2
  x = x
  y = y
  v = v
  NoOne = NoOne
  Blank = Blank
  Nil = Nil
  Handlers = {h1, h2}
  Ids = {x, y}
  GaugeValues = {v}
  Requests <- Updates
  MaxInt = 3
  MaxRequests = 2
  MaxFaults = 0
  Backoffs = 1
INVARIANTS
  GaugesParse
CHECK_DEADLOCK FALSE
