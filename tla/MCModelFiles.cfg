CONSTANTS
  Corpora <- MCCorpora
  Limits = {3, 6}
  Specials <- MCSpecials
  MaxCalls = 4
  Files <- MCFiles
  Buffers = {1, 2}
  Garbage = {0, 1}
  MaxLoads = 2
SPECIFICATION Spec
INVARIANTS VocabularyForeseen EncodeForeseen AnswersForeseen
CHECK_DEADLOCK FALSE
