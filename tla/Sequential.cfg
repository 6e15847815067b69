SPECIFICATION MCSpec
CONSTANTS
  Records <- EdgeRecords
  NaN = NaN
  Minute = 4
  Nows = {5880, 5881}
  Lookbacks <- ShortAndLong
  TableSizes = {1, 2}
  MaxEvents = 3
  Durations = {1, 2, 3}
  Percentiles = {0, 50, 95}
  Budgets = {1, 9}
  MaxLen = 5
  MaxLine = 2
  BufSize = 2
  MaxBytes = 7
  EventIds = {i1, i2}
  NoId = NoId
  Contents = {x, y}
  Blank = Blank
  BufferSize = 4
  Lookback = 2
  MaxBatch = 3
  Unset = Unset
  Bad = Bad
  Missing = Missing
  Registered = {"axiom", "jsonl", "pi"}
  Unsafe = {"]"}
  Launches <- AllLaunches
INVARIANTS
  PanelsAgree
  InBounds
  SelectedIsKth
  FramesExact
  PercentileIsNearestRank
  ArrayDiscipline
  CommandLineObeyed
  OpenedAsConfigured
PROPERTIES
  SelectEnds
  ImplementsLog
CHECK_DEADLOCK FALSE
