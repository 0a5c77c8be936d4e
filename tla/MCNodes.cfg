SPECIFICATION NodesSpec
CONSTANTS
  t1 = t1
  t2 = t2
  t3 = t3
  fA = fA
  fB = fB
  fE = fE
  Forks = {fA, fB, fE}
  TxsOf <- MCTxsOf
  Txs = {t1, t2, t3}
  Workers = {w1, w2}
  MaxRows = 2
  Absent = 0
  NoBlock = NoBlock
  NoReceipt = NoReceipt
  N = 2
  QpsOf <- MCQps
  Callers = {c1, c2}
  Sec = 2
  MaxLag = 1
  MaxCalls = 5
INVARIANTS NodesTypeOK SharesAreKept ReturnedWhole
PROPERTIES NoCallWhileCooling CallsReturn
CHECK_DEADLOCK FALSE
