SPECIFICATION Spec
CONSTANTS
  Dictionary <- MCDictionary
  BytesOf <- MCBytesOf
  Space = " "
  Escaped = "_"
  Invalid = "bad"
  Replacement = "fffd"
  DummyPrefix = TRUE
  EscapeSpaces = TRUE
  ByteFallback = TRUE
  Whitespace <- MCWhitespace
  SentenceMarks <- MCSentenceMarks
  ClauseMarks <- MCClauseMarks
  Closers <- MCClosers
  Alphabet <- MCAlphabet
  MaxLength = 5
  Budgets <- MCBudgets
INVARIANTS
  EncodingIsBest
  ChunksAreGreedy
CHECK_DEADLOCK FALSE
