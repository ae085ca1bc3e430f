CONSTANTS
  a = a
  b = b
  Vocab <- MCVocab
  Prompts <- MCPrompts
  DraftLens = {1, 2}
  NewTokens = {2}
SPECIFICATION Spec
PROPERTY BonusOnlyAfterFullAcceptance
CHECK_DEADLOCK FALSE
