SPECIFICATION Spec
CONSTANTS
  Nothing = Nothing
  Changes = {"resize"}
  HeadSize = 2
  MaxSize = 3
  MaxChanges = 3
PROPERTIES
  EveryConnectionCloses
CHECK_DEADLOCK FALSE
