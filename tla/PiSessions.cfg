SPECIFICATION PiSpec
CONSTANTS
  Files = {f1, f2}
  FirstLines <- Headers
  Lines <- Entries
  Absent = Absent
  Base <- Basename
  Nows = {7}
  Hour = 2
  Day = 4
  Lookback = 3
  OrphanAfter = 1
  MaxBatch = 1
  MaxEvents = 2
  MaxLines = 4
  MaxResets = 1
INVARIANTS
  OrphansAreUnanswered
  NoAnsweredOrphan
  QuietReport
SYMMETRY FileSymmetry
CHECK_DEADLOCK FALSE
