SPECIFICATION Spec
CONSTANTS
  Texts <- MCTexts
  Dictionaries <- PlainDictionaries
  MaxWordLen = 3
  MinDouble <- MCMinDouble
  NoInfo = NoInfo
INVARIANT MaxProbability
CHECK_DEADLOCK FALSE
