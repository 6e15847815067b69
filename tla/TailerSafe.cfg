SPECIFICATION Spec
CONSTANTS
  Paths = {"a"}
  PathOrder <- OnePath
  NoFile = NoFile
  HasFileID = TRUE
  BatchMax = 2
  Closers = {}
  StartContent <- OneLine
  StartEntry <- Linked
  StartOld = {1}
  EnvOps = {"replace", "create", "delete", "truncate"}
  LineKinds = {"short", "long"}
  MaxLines = 3
  MaxOps = 3
  MaxHydrates = 1
INVARIANTS
  TypeOK
  RefIdentifies
  IngestionOrder
  HandlerOneGeneration
  OncePerGeneration
PROPERTIES
  HydrateLagsOnly
CHECK_DEADLOCK FALSE
