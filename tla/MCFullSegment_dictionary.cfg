SPECIFICATION Spec
CONSTANTS
  MaxWordLen = 3
  DictFiles <- MCDictFiles
  UserFiles <- MCUserFiles
  Texts <- MCTexts
  BadUtf8 = BadUtf8
  MaxDouble = 1000
  MinDouble <- MCMinDouble
  MinusInf <- MCMinusInf
INVARIANTS PointerFresh WeightsSound FindAgrees FullCovers
PROPERTY KeepsLexicon
CHECK_DEADLOCK FALSE
