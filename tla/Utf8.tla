-------------------------------- MODULE Utf8 --------------------------------
(***************************************************************************)
(* Text and runes (jiaba/Unicode.hpp).  A text is a sequence of bytes.     *)
(* Decoding looks at the lead byte of a rune only: it does not ask whether *)
(* the bytes that follow are continuation bytes, whether a lead byte is    *)
(* one, or whether the encoding is the shortest.                           *)
(***************************************************************************)
EXTENDS Tiling

Byte == 0..255

Failed == [ok |-> FALSE, runes |-> <<>>]

\* Faulty: only runes of the basic plane are known.
SizeByLeadBasic(b) ==
  CASE b < 128  -> 1
    [] b \in 128..223 -> 2
    [] b \in 224..247 -> 3
    [] OTHER -> 0

\* the bytes a rune takes, as its lead byte says
SizeByLead(b) ==
  CASE b < 128  -> 1
    [] b \in 128..223 -> 2
    [] b \in 224..239 -> 3
    [] b \in 240..247 -> 4
    [] OTHER -> 0

\* DecodeRuneInString at s[i + 1]: len = 0 if there is no rune
DecodeRune(s, i) ==
  LET size == SizeByLead(s[i + 1])
      bits[j \in 0..size-1] ==
        IF j = 0 THEN s[i + 1] % (IF size = 1 THEN 128 ELSE 2 ^ (7 - size))
                 ELSE bits[j - 1] * 64 + (s[i + 1 + j] % 64)
  IN  IF size \in 1..Len(s) - i THEN [rune |-> bits[size - 1], offset |-> i, len |-> size]
                                ELSE [rune |-> 0, offset |-> i, len |-> 0]

\* Faulty: what was decoded before the first bad byte is kept.
DecodeRunesPartly(s) ==
  LET from[i \in 0..Len(s)] ==
        IF i = Len(s) \/ DecodeRune(s, i).len = 0 THEN <<>>
        ELSE <<DecodeRune(s, i)>> \o from[i + DecodeRune(s, i).len]
  IN  [ok |-> TRUE, runes |-> from[0]]

\* DecodeRunesInString: all or nothing
DecodeRunes(s) ==
  LET from[i \in 0..Len(s)] ==
        IF i = Len(s) THEN [ok |-> TRUE, runes |-> <<>>]
        ELSE LET r == DecodeRune(s, i)
             IN  IF r.len = 0 \/ ~from[i + r.len].ok THEN Failed
                 ELSE [ok |-> TRUE, runes |-> <<r>> \o from[i + r.len].runes]
  IN  from[0]

\* GetWordFromRunes: the bytes of a range of runes
GetWord(s, runes, w) ==
  SubSeq(s, runes[w.left + 1].offset + 1, runes[w.right + 1].offset + runes[w.right + 1].len)

-----------------------------------------------------------------------------
(* What UTF-8 is, whatever the code does.                                  *)

CodePoint == {c \in Nat : c <= 1114111}

\* the bytes of a code point
Encode(c) ==
  LET lead(mark, unit) == mark + (c \div unit)
      next(unit) == 128 + ((c \div unit) % 64)
  IN  IF c < 128 THEN <<c>>
      ELSE IF c < 2048 THEN <<lead(192, 64), next(1)>>
      ELSE IF c < 65536 THEN <<lead(224, 4096), next(64), next(1)>>
      ELSE <<lead(240, 262144), next(4096), next(64), next(1)>>

EncodeText(cs) == Concat([k \in 1..Len(cs) |-> Encode(cs[k])])
=============================================================================
