SPECIFICATION Spec
CONSTANTS
  Nothing = Nothing
  Changes = {}
  HeadSize = 2
  MaxSize = 3
  MaxChanges = 3
INVARIANTS
  DirectoryIsListed
CHECK_DEADLOCK FALSE
