SPECIFICATION Spec
CONSTANTS
  Letters = {"a"}
  Digits = {"1"}
  Point = "."
  OtherAscii = {"-"}
  Texts <- MCTexts
  Models <- MCModels
  MinDouble <- MCMinDouble
  Skip = Skip
  BadEntry = BadEntry
INVARIANTS WordsTile AsciiRules MostProbable
PROPERTY CutsWords
CHECK_DEADLOCK FALSE
