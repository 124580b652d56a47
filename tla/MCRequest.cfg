SPECIFICATION Spec
CONSTANTS
  Nothing = Nothing
  Changes = {"create", "resize", "remove", "chmod"}
  HeadSize = 2
  MaxSize = 3
  MaxChanges = 3
INVARIANTS
  TypeOK
  BodyWithinLength
  BodyIsWhole
  RatedOnceServed
  NotFoundMeansMissing
  OnlyWholeGetsServed
PROPERTIES
  ClosesUnlessCut
CHECK_DEADLOCK FALSE
