SPECIFICATION FairSpec
CONSTANTS
  Sentences <- MCSentences
  Separators <- MCSeparators
  Lexicons <- MCLexicons
  StopWords <- MCStopWords
  Span = 2
  Width <- MCWidth
INVARIANTS TypeOK MixTiles QueryCovers SeparatorsAlone FoundWordsStay OffsetsRight WindowRight
PROPERTY Terminates
CHECK_DEADLOCK FALSE
