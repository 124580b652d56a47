SPECIFICATION Spec
CONSTANTS
  DEFAULT_BUFFER_SIZE = 7
  UintMax = 255
  Kilo = 4
  SizeNames = 3
  RequestChars = {"LF", "CR", "SP", ":", "a"}
  PathChars = {"/", "SP", "%20", "a"}
  MaxRequest = 8
  MaxPath = 6
  MaxBytes = 300
INVARIANTS
  EveryLineComes
  ParsedStands
  UpFromEntry
  EntryIsFetched
  SizesAreRounded
CHECK_DEADLOCK FALSE
