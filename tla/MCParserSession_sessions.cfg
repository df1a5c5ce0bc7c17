SPECIFICATION Spec
CONSTANTS
  Sessions = {s1, s2}
  Vectors = {v1, v2, v3}
  CodeTexts <- MCCodeTexts
  ByteTexts <- MCByteTexts
  Dictionaries <- MCDictionaries
  Null = Null
  MaxResets = 1
  MaxErrors = 1
INVARIANTS TypeOK OwnWords InOrder DecodedRight BytesKept TypesDeclared LeaksBounded
SYMMETRY Symmetry
