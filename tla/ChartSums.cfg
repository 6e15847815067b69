SPECIFICATION AxiomSpec
CONSTANTS
  Rows <- RowsAtEdges
  Null = Null
  Routes = {"GET"}
  TakeRows = 2
  Bin = 2
  Lookback = 4
  TableSize = 1
  MaxNow = 8
  MaxRows = 4
INVARIANTS
  ChartSums
CHECK_DEADLOCK FALSE
