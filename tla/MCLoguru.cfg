SPECIFICATION Spec
CONSTANTS
  Threads = {t1, t2}
  Nobody = Nobody
  StderrVerbosities <- MCVerbosities
  MaxLines = 1
  MaxSignals = 2
INVARIANTS
  TypeOK
  SinksAgree
  ReturnedIsWritten
PROPERTIES
  SignalEnds
CHECK_DEADLOCK FALSE
