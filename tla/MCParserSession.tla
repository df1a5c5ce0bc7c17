-------------------------- MODULE MCParserSession ---------------------------
(* Two sessions; texts of runes of one to four bytes, bytes that are no UTF-8,  *)
(* and dictionaries with known, unknown and no tags.                          *)
EXTENDS ParserSession, TLC

A == 65
EAcute == 233
Zhong == 20013
Face == 128512

MCCodeTexts == {<<Face, Zhong, EAcute>>, <<A>>}

MCByteTexts == {<<A, 228, 184>>}      \* the last rune is cut short

Tagged(tag) == EncodeText(<<Zhong, EAcute>>) :> tag @@ EncodeText(<<A>>) :> ""

MCDictionaries == {Tagged("ns"), Tagged("nt\r")}

Symmetry == Permutations(Sessions) \cup Permutations(Vectors)
=============================================================================
