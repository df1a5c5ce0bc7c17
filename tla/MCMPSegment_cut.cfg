SPECIFICATION Spec
CONSTANTS
  Texts <- MCTexts
  Dictionaries <- MCDictionaries
  MaxWordLen = 3
  MinDouble <- MCMinDouble
  NoInfo = NoInfo
INVARIANTS WordsTile Optimal
PROPERTY CutsWords
CHECK_DEADLOCK FALSE
