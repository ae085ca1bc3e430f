CONSTANTS
  Clients = {c1, c2}
  Values = {x, y}
  Blank = Blank
  Shapes <- SmallShapes
  MaxBlocks = 2
  MaxPages = 3
  MaxSeqLen = 1
  MaxClears = 1
SPECIFICATION Spec
SYMMETRY Symmetry
INVARIANTS FreeListExact MappingExact AliasedOnlyAsZero RulesSuffice
PROPERTY ImplementsPageStore
CHECK_DEADLOCK FALSE
