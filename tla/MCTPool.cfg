SPECIFICATION Spec
CONSTANTS
  main = main
  w1 = w1
  w2 = w2
  w3 = w3
  Threads <- MCThreads
  Workers <- MCWorkers
  Main = main
  NoThread = NoThread
  Conns = {c1, c2, c3, c4}
  NoConn = NoConn
  TPOOL_MAX_WORKERS = 10
INVARIANTS
  TypeOK
  NoLostWakeup
  TicketsMatchJobs
  PopFindsJob
  OneOwner
PROPERTIES
  ImplementsJobQueue
  QueuedIsServed
