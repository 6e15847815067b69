SPECIFICATION Spec
CONSTANTS
  Files = {0, 1}
  Times <- MixedTimes
  EntryIds = {e}
  NoId = NoId
  MaxEvents = 3
  StreamLimit = 2
  Readers = {r}
  MaxBatch = 2
  MaxSeq = 4
INVARIANTS
  TypeOK
  SequenceOrder
  IdentityKept
  NoEventTwice
PROPERTIES
  FirstBatchIsNewest
  ImplementsFeed
CHECK_DEADLOCK FALSE
