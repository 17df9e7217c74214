SPECIFICATION FairSpec
CONSTANTS
  w1 = w1  w2 = w2  c1 = c1  c2 = c2  st1 = st1
  None = None
  Workers <- TwoWorkers
  Closers <- TwoClosers
  Stages <- OneStage
  MemoryBytes = 3
  TransferBufferSize = 2
  BufferSizes = {3}
  SectionSizes = {1}
  WriteEnds = {2}
  MaxInt64 = 2
  MaxRounds = 2
INVARIANTS NoLostWakeup NoPanic SpillDisjoint BudgetHolds
PROPERTIES CallsReturn
CHECK_DEADLOCK FALSE
