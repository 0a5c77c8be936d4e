SPECIFICATION FairBackgroundSpec
CONSTANTS
  Tokens = {t1, t2, t3}
  Txs = {x1}
  Prices = {p1, p2}
  Cap = 2
  MaxMarks = 4
  MaxFaults = 1
  NoPoint = NoPoint
  NoQuote = NoQuote
  Nobody = Nobody
  Wallets = {w1, w2}
  Threshold = 3
  MaxSells = 3
  MaxBlock = 2
  EOA = EOA
  Contract = Contract
  Interval = 1
  Slow = 2
  MaxEdits = 1
  RetentionDays = 1
  Batch = 2
  MaxPerRun = 3
  MaxRows = 5
  MaxTime = 3
  Subjects = {s1, s2, s3}
  SignalCap = 2
  Limit = 2
  RoundsPerDay = 3
  MaxRounds = 5
  Poll = 2
  Timeout = 1
  TTL = 3
  Stale = 6
  FirstBackoff = 1
  MaxBackoff = 5
INVARIANTS BackgroundTypeOK LatestNeverLost ScoresKeepUp PricesSurvive
PROPERTIES NothingGoesBack OldestExpiredGo RepeatsOnlyOverCap LatestIsShown TicksCatchUp
CHECK_DEADLOCK FALSE
