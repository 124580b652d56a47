SPECIFICATION SafeSpec
CONSTANTS
  Main = main
  w1 = w1
  w2 = w2
  Workers <- MCWorkers
  Addrs = {a1, a2}
  NoThread = NoThread
  NoScore = NoScore
  NoTable = NoTable
  Nothing = Nothing
  blacklist_threshold <- MCThreshold
  Faults = {}
  MaxScore = 2
INVARIANTS
  FalseMeansListed
