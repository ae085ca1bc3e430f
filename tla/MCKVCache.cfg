CONSTANTS
  Threads = {t1, t2}
  PageIds = {0, 1}
  SeqLens = {2}
  MaxBuffers = 2
  Wrap = 8
  None = None
SPECIFICATION FairSpec
INVARIANTS AccountingExact StuckOnlyInEviction
PROPERTIES CallsReturn PointersOutliveOtherCalls OverrunOnlyByRace
CHECK_DEADLOCK FALSE
