CONSTANTS
  Batches = 3
  MaxSteps = 4
  GradAccumSteps = 2
  SaveSteps = 2
  MaxCrashes = 1
SPECIFICATION Spec
INVARIANT UpdatesClipped
CHECK_DEADLOCK FALSE
