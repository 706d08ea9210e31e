SPECIFICATION HttpSpec
CONSTANTS
  h1 = h1
  h2 = h2
  w1 = w1
  w2 = w2
  hits = hits
  load = load
  one = one
  secret = secret
  NaN = NaN
  Invalid = Invalid
  Nil = Nil
  Absent = Absent
  NoKey = NoKey
  NoneKey = NoneKey
  NoSig = NoSig
  Nobody = Nobody
  Handlers = {h1, h2}
  Names = {hits, load}
  GaugeValues = {one, NaN}
  Requests <- Mixed
  MaxInt = 1
  MaxRequests = 3
  Keys = {NoKey, NoneKey, secret}
  Writers = {w1, w2}
INVARIANTS
  TypeOK
  SumsExact
  AnswersCurrent
  AnswersComplete
  ResponseIntact
  SignedAsSent
  Admitted
SYMMETRY Interchangeable
CHECK_DEADLOCK FALSE
