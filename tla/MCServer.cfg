SPECIFICATION Spec
CONSTANTS
  c1 = c1
  c2 = c2
  c3 = c3
  c4 = c4
  a1 = a1
  a2 = a2
  Workers = {w1, w2}
  Conns <- MCConns
  NoConn = NoConn
  Addrs = {a1, a2}
  Addr <- MCAddr
  Fds = {f1, f2}
  NoScore = NoScore
  Nothing = Nothing
  blacklist_threshold = 0
INVARIANTS
  TypeOK
  SocketIsMine
  ScoreFloor
PROPERTIES
  ListedStays
  EveryClientCloses
CHECK_DEADLOCK FALSE
