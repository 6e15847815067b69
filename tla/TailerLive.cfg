SPECIFICATION Spec
CONSTANTS
  Paths = {"a", "b"}
  PathOrder <- TwoPaths
  NoFile = NoFile
  HasFileID = TRUE
  BatchMax = 2
  Closers = {c1, c2}
  StartContent <- TwoFiles
  StartEntry <- Linked
  StartOld = {}
  EnvOps = {"delete", "replace"}
  LineKinds = {"short"}
  MaxLines = 4
  MaxOps = 1
  MaxHydrates = 0
INVARIANTS
  BackfillComplete
PROPERTIES
  NothingAfterClose
  CloseReturns
  EventuallyIngested
CHECK_DEADLOCK FALSE
