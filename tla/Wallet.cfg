\* A budget window of two time units in a clock that reaches three: rows leave
\* the window while calls that read the clock before them still wait.
CONSTANTS
  Keys = {"k1"}
  Handlers = {h1, h2}
  Sessions = {i1, i2}
  CreateBudget = 2
  SessionTtl = 2
  AuthMax = 1
  AuthWindow = 1
  CacheTtl = 1
  BalanceMaxAges = {2, NoMaxAge}
  NoMaxAge = NoMaxAge
  MaxNow = 4
  MaxLog = 2
  MaxLives = 2
  s1 = s1
  s2 = s2
  s3 = s3
  c1 = c1
  NoCaller = NoCaller
  NoCeiling = NoCeiling
  Caller <- FourCalls
  Line <- Lines
  LineOf <- CallLine
  Cost <- CallCost
  Skew <- CallSkew
  maxCount <- CountLimit
  maxStroops <- SpendLimit
  windowMs = 2
  MaxTime = 3
SPECIFICATION MCSpec
INVARIANTS CreatedOnceAndMetered NothingStaleRevives CountCeiling StroopsCeiling NoUnmeteredGrant
SYMMETRY Symmetry
CHECK_DEADLOCK FALSE
