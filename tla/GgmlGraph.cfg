CONSTANTS
  Size = 2
  MaxTensors = 3
  MaxSrc = 2
SPECIFICATION Spec
INVARIANTS SourcesFirst NoDuplicates GraphComplete UseCountsExact ComputeExact
CHECK_DEADLOCK FALSE
