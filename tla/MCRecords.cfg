SPECIFICATION RecordsSpec
CONSTANTS
  Names = {1, 2, 3}
  Versions = {1, 2}
  MaxDeploys = 4
  Base = 2
  MaxRaw = 2
  Prices = {1, 3}
  Decimals = {0}
  MaxEvents = 4
  BlockWidth = 3
  TxWidth = 1
  LogWidth = 1
  Blocks = {0, 3, 4, 7, 8}
  TxIndexes = {0, 1, 2, 3}
  LogIndexes = {0, 1, 2}
  MaxIds = 3
  Tokens = {1, 2, 3}
  Categories = {"pons", "o1_crypto"}
  PageLimit = 1
  HealthLagWarn = 1
  BlocksPerSecond = 3
  MaxHead = 3
  Accounts = {user, router}
  Target = user
  Values = {1}
  MaxTraceNodes = 3
  MaxTraceDepth = 2
  MaxFrames = 4
  Users = {alice, bob, carol}
  PM = PM
  Router = Router
  NoUser = NoUser
  MaxAmount = 2
  MaxSteps = 3
INVARIANTS RecordsTypeOK ProfitIsFifo NarrowIdsAreTrue SchemaIsKnown AnswersAreTrue TraceIsTrue FillsAreTrue
PROPERTIES NothingIsInvented
SYMMETRY Symmetry
CHECK_DEADLOCK FALSE
