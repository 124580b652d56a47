SPECIFICATION Spec
CONSTANTS
  Main = main
  w1 = w1
  w2 = w2
  Workers <- MCWorkers
  Addrs = {a1, a2}
  NoThread = NoThread
  NoScore = NoScore
  NoTable = NoTable
  Nothing = Nothing
  blacklist_threshold <- MCThreshold
  Faults = {"kill", "open", "step", "select"}
  MaxScore = 2
INVARIANTS
  TypeOK
  TableFollowsMap
  StatementRuns
PROPERTIES
  ImplementsReputation
  RowsMoveByOne
  UpdateReturns
