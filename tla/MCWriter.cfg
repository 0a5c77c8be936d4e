SPECIFICATION FairSpec
CONSTANTS
  Requests = {r1, r2, r3}
  Capacity = 1
  None = None
INVARIANTS TypeOK NoSendAfterClose AnsweredTruthfully ClosedIsQuiet
PROPERTIES NobodyWaitsForever
CHECK_DEADLOCK FALSE
