SPECIFICATION Spec
CONSTANTS
  h1 = h1
  h2 = h2
  x = x
  y = y
  v = v
  NoOne = NoOne
  Blank = Blank
  Nil = Nil
  Handlers = {h1, h2}
  Ids = {x, y}
  GaugeValues = {v}
  Requests <- Updates
  MaxInt = 3
  MaxRequests = 1
  MaxFaults = 1
  Backoffs = 1
PROPERTIES
  Class08Retried
CHECK_DEADLOCK FALSE
