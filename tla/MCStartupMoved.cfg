SPECIFICATION Spec
CONSTANTS
  Procs = {p1}
  Argvs <- ReadmeArgvs
  Path <- MCPath
  Number <- MCNumber
  VerbosityNames = {"OFF", "INFO", "WARNING", "ERROR", "FATAL"}
  StartDir <- Home
  FirstDirs <- MCFirstDirs
  DbFiles <- MCDbFiles
  NoTable = NoTable
  Garbage = Garbage
  Nothing = Nothing
  UintMax = 255
  TPOOL_MAX_WORKERS = 10
INVARIANTS
  PathsKeepMeaning
