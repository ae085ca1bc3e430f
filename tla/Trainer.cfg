CONSTANTS
  Batches = 3
  MaxSteps = 4
  GradAccumSteps = 2
  SaveSteps = 2
  MaxCrashes = 1
SPECIFICATION FairSpec
INVARIANTS StepsBounded OneLateStep CheckpointsWhole
PROPERTIES WindowsFull TrainReturns
CHECK_DEADLOCK FALSE
