CONSTANTS
  a = a
  b = b
  Vocab <- MCVocab
  Prompts <- MCPrompts
  DraftLens = {0, 1, 2}
  NewTokens = {0, 2, 3}
SPECIFICATION FairSpec
INVARIANTS ContextMatches OvershootAtMostOne
PROPERTIES Returns ImplementsDecoder
CHECK_DEADLOCK FALSE
