SPECIFICATION Spec
CONSTANTS
  Paths = {"a"}
  PathOrder <- OnePath
  NoFile = NoFile
  HasFileID = TRUE
  BatchMax = 2
  Closers = {}
  StartContent <- OneLine
  StartEntry <- Linked
  StartOld = {}
  EnvOps = {"create", "delete"}
  LineKinds = {"short"}
  MaxLines = 3
  MaxOps = 2
  MaxHydrates = 0
PROPERTIES
  EventuallyIngested
CHECK_DEADLOCK FALSE
