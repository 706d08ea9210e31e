SPECIFICATION FairSpec
CONSTANTS
  h1 = h1
  h2 = h2
  x = x
  y = y
  v = v
  NoOne = NoOne
  Blank = Blank
  Nil = Nil
  Handlers = {h1, h2}
  Ids = {x, y}
  GaugeValues = {v}
  Requests <- UpdatesAndReads
  MaxInt = 3
  MaxRequests = 4
  MaxFaults = 2
  Backoffs = 1
INVARIANTS
  TypeOK
  NothingLost
  NothingInvented
  ListedUnlessFlipped
PROPERTIES
  AnswersHonest
  EveryUpdateAnswered
CHECK_DEADLOCK FALSE
