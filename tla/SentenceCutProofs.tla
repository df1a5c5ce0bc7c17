------------------------- MODULE SentenceCutProofs ---------------------
(***************************************************************************)
(* The cut of a sentence, put together from the cuts of its stretches,     *)
(* loses nothing and keeps separators and the dictionary's words apart,    *)
(* for every sentence, dictionary and set of separators.                   *)
(***************************************************************************)
EXTENDS SentenceCut, TilingProofs

\* where the range begins
Start == words[1].left

\* Inside a range: MPSegment's words tile it, and it is one rune or without
\* separators.
RangeTiled ==
  pc # "next" =>
    /\ words # <<>>
    /\ Tiles(words, Start, cursor)
    /\ cursor = Start + 1 \/ \A p \in Start..cursor-1 : Rune(p) \notin Symbols

\* MixSegment's words tile what it has passed: of the sentence, or of the range, if
\* QuerySegment is to go through them.
MixTiled ==
  /\ ~query => Tiles(wrs, 0, Front) /\ pc # "query"
  /\ query /\ pc # "next" => Tiles(mixRes, Start, Front)
  /\ pc = "mix" => m = 1

\* a word of the result
Has(w) ==
  \/ \E p \in 1..Len(mixRes) : mixRes[p] = w
  \/ \E p \in 1..Len(wrs) : wrs[p] = w

\* The words MPSegment found are there.
FoundKept == pc # "next" => \A k \in 1..i-1 : Kept(words[k]) => Has(words[k])

IInv == TypeOK /\ RangeTiled /\ MixTiled /\ SeparatorsAlone /\ FoundKept

-----------------------------------------------------------------------------
(* The sentence.                                                           *)

\* Positions are natural numbers.
LEMMA SentenceLength == ASSUME runes \in Sentences PROVE n \in Nat
BY SentenceAssumption DEF n

\* The sentence and the dictionary stay the same.
LEMMA SameSentence ==
  ASSUME UNCHANGED <<runes, dict, singles>>
  PROVE  /\ n' = n
         /\ \A k : Rune(k)' = Rune(k)
         /\ \A w : Piece(w)' = Piece(w)
         /\ \A w : Kept(w)' = Kept(w)
BY DEF n, Rune, Piece, Kept

\* The next range ends behind where it begins, and holds no separator unless it is
\* one.
LEMMA RangeEndRight ==
  ASSUME n \in Nat, NEW from \in 0..n-1
  PROVE  /\ RangeEnd(from) \in from+1..n
         /\ RangeEnd(from) = from + 1 \/ \A p \in from..RangeEnd(from)-1 : Rune(p) \notin Symbols
<1>1. CASE Rune(from) \in Symbols
  BY <1>1 DEF RangeEnd
<1>2. CASE Rune(from) \notin Symbols
  <2>. DEFINE Ok(e) == /\ \A k \in from..e-1 : Rune(k) \notin Symbols
                       /\ e = n \/ Rune(e) \in Symbols
              stops == {e \in from+1..n : e = n \/ Rune(e) \in Symbols}
  <2>1. stops \in SUBSET Nat /\ n \in stops
    OBVIOUS
  <2>2. PICK e \in stops : \A x \in stops : e <= x
    <3>. HIDE DEF stops
    <3>. QED
      BY <2>1, LeastNatural
  <2>3. ASSUME NEW k \in from..e-1 PROVE Rune(k) \notin Symbols
    <3>1. CASE k = from
      BY <1>2, <3>1
    <3>2. CASE k # from
      BY <2>2, <3>2
    <3>. QED
      BY <3>1, <3>2
  <2>4. e \in from+1..n /\ Ok(e)
    BY <2>3
  <2>5. RangeEnd(from) = CHOOSE x \in from+1..n : Ok(x)
    BY <1>2 DEF RangeEnd
  <2>. HIDE DEF Ok
  <2>6. RangeEnd(from) \in from+1..n /\ Ok(RangeEnd(from))
    BY <2>4, <2>5
  <2>. QED
    BY <2>6 DEF Ok
<1>. QED
  BY <1>1, <1>2

\* In a range, a word with a separator is of one rune.
LEMMA AloneInRange ==
  ASSUME IInv, pc # "next", NEW w \in IntRanges,
         Start <= w.left, w.left <= w.right, w.right < cursor
  PROVE  \A p \in w.left..w.right : Rune(p) \in Symbols => Length(w) = 1
<1>1. w.left \in Int /\ w.right \in Int
  BY DEF IntRanges
<1>2. words \in Seq(IntRanges) /\ Start \in Int /\ cursor \in Int
  <2>1. n \in Nat
    BY SentenceLength DEF IInv, TypeOK
  <2>2. words \in Seq(IntRanges)
    BY <2>1, RangesInt DEF IInv, TypeOK, IntRanges
  <2>3. 1 \in 1..Len(words)
    BY <2>2, RangeEnds DEF IInv, RangeTiled
  <2>. QED
    BY <2>1, <2>2, <2>3, RangeEnds DEF IInv, TypeOK, Start
<1>3. cursor = Start + 1 \/ \A p \in Start..cursor-1 : Rune(p) \notin Symbols
  BY DEF IInv, RangeTiled
<1>. QED
  BY <1>1, <1>2, <1>3 DEF Length

-----------------------------------------------------------------------------
(* MixSegment.                                                             *)

\* Nothing is there at first.
LEMMA InitIInv == Init => IInv
<1>. SUFFICES ASSUME Init PROVE IInv
  OBVIOUS
<1>1. n \in Nat
  BY SentenceLength DEF Init
<1>2. singles \subseteq {runes[k] : k \in 1..n}
  BY DEF Init
<1>3. words = <<>> /\ mixRes = <<>> /\ wrs = <<>> /\ i = 1 /\ m = 1 /\ cursor = 0 /\ pc = "next"
  BY DEF Init
<1>4. TypeOK
  BY <1>1, <1>2, <1>3 DEF Init, TypeOK
<1>. QED
  BY <1>4 DEF Init, IInv, RangeTiled, MixTiled, SeparatorsAlone, FoundKept, Tiles, Front

\* What the types say, as the provers like it.
LEMMA Types ==
  ASSUME IInv
  PROVE  /\ n \in Nat /\ cursor \in 0..n
         /\ words \in Seq(IntRanges) /\ mixRes \in Seq(IntRanges) /\ wrs \in Seq(IntRanges)
         /\ Len(words) \in Nat /\ Len(mixRes) \in Nat /\ Len(wrs) \in Nat
         /\ i \in 1..Len(words)+1 /\ m \in 1..Len(mixRes)+1
<1>1. n \in Nat
  BY SentenceLength DEF IInv, TypeOK
<1>2. words \in Seq(IntRanges) /\ mixRes \in Seq(IntRanges) /\ wrs \in Seq(IntRanges)
  BY <1>1, RangesInt DEF IInv, TypeOK, IntRanges
<1>. QED
  BY <1>1, <1>2, RangeEnds DEF IInv, TypeOK

\* The places of the words of the range.
LEMMA InsideRange ==
  ASSUME IInv, pc # "next"
  PROVE  /\ Start \in 0..n-1 /\ Start < cursor /\ 1 \in 1..Len(words)
         /\ \A k \in 1..Len(words) : /\ words[k].left \in Int /\ words[k].right \in Int
                                     /\ Start <= words[k].left
                                     /\ words[k].left <= words[k].right
                                     /\ words[k].right < cursor
         /\ \A k \in 1..Len(words)-1 : words[k+1].left = words[k].right + 1
         /\ words[Len(words)].right + 1 = cursor
<1>1. words # <<>> /\ Tiles(words, Start, cursor)
  BY DEF IInv, RangeTiled
<1>2. 1 \in 1..Len(words) /\ Len(words) \in 1..Len(words)
  BY <1>1, Types, RangeEnds
<1>3. \A k \in 1..Len(words) : words[k].left \in Int /\ words[k].right \in Int
  BY Types, RangeEnds
<1>4. Start \in Int /\ cursor \in Int
  BY <1>2, <1>3, Types DEF Start
<1>5. \A k \in 1..Len(words) : Start <= words[k].left /\ words[k].right < cursor
  BY <1>1, <1>4, Types, TilesInside DEF IntRanges
<1>6. \A k \in 1..Len(words) : words[k].left <= words[k].right
  BY <1>1 DEF Tiles
<1>7. /\ \A k \in 1..Len(words)-1 : words[k+1].left = words[k].right + 1
      /\ words[Len(words)].right + 1 = cursor
  BY <1>1 DEF Tiles
<1>8. words[1] \in Ranges(n)
  BY <1>2 DEF IInv, TypeOK
<1>9. Start \in 0..n-1
  BY <1>8 DEF Start, Ranges
<1>10. Start < cursor
  BY <1>2, <1>3, <1>4, <1>5, <1>6
<1>. QED
  BY <1>2, <1>3, <1>5, <1>6, <1>7, <1>9, <1>10

\* The next range.
LEMMA NextRangeIInv == ASSUME IInv, NextRange PROVE IInv'
<1>. DEFINE end == RangeEnd(cursor)
<1>1. n' = n /\ \A k : Rune(k)' = Rune(k)
  BY SameSentence DEF NextRange
<1>2. cursor \in 0..n-1 /\ n \in Nat
  BY Types DEF NextRange
<1>3. /\ end \in cursor+1..n
      /\ end = cursor + 1 \/ \A p \in cursor..end-1 : Rune(p) \notin Symbols
  BY <1>2, RangeEndRight
<1>. HIDE DEF end
<1>4. words' \in Tilings(cursor, end) /\ cursor' = end
  BY DEF NextRange, MPCuts, end
<1>5. words' \in Seq(IntRanges) /\ Tiles(words', cursor, end)
  BY <1>2, <1>3, <1>4, TilingsTile DEF IntRanges
<1>6. words' # <<>> /\ words'[1].left = cursor /\ Len(words') \in Nat /\ Len(words') >= 1
  <2>1. words' # <<>> /\ words'[1].left = cursor
    BY <1>2, <1>3, <1>5 DEF Tiles
  <2>. QED
    BY <1>5, <2>1, RangeEnds
<1>7. words' \in Seq(Ranges(n))
  BY <1>2, <1>3, <1>5, TilesRanges
<1>8. Start' = cursor
  BY <1>6 DEF Start
<1>9. TypeOK'
  BY <1>1, <1>2, <1>3, <1>4, <1>6, <1>7 DEF NextRange, IInv, TypeOK
<1>10. RangeTiled'
  BY <1>1, <1>3, <1>4, <1>5, <1>6, <1>8 DEF RangeTiled
<1>11. Front' = cursor
  BY <1>6 DEF NextRange, Front
<1>12. MixTiled'
  BY <1>8, <1>11 DEF NextRange, IInv, MixTiled, Front, Tiles
<1>13. SeparatorsAlone'
  BY <1>1 DEF NextRange, IInv, SeparatorsAlone
<1>14. FoundKept'
  BY DEF NextRange, FoundKept
<1>. QED
  BY <1>9, <1>10, <1>12, <1>13, <1>14 DEF IInv

\* Words that go on where MixSegment has come to are pushed, up to another word's
\* beginning or the end of the range.
LEMMA PushIInv ==
  ASSUME IInv, pc = "mix", i <= Len(words), NEW ws \in Seq(IntRanges), NEW j \in i+1..Len(words)+1,
         Tiles(ws, words[i].left, words[j-1].right + 1),
         Push(ws), i' = j,
         UNCHANGED <<runes, dict, singles, query, cursor, pc, words, m>>,
         \A k \in i..j-1 : Kept(words[k]) => \E p \in 1..Len(ws) : ws[p] = words[k]
  PROVE  IInv'
<1>1. n' = n /\ (\A k : Rune(k)' = Rune(k)) /\ (\A w : Kept(w)' = Kept(w))
  BY SameSentence
<1>2. /\ i \in 1..Len(words) /\ j - 1 \in 1..Len(words) /\ j \in 1..Len(words)+1
      /\ j \in Int /\ Len(words) \in Nat /\ pc # "next"
  BY Types, SMTT(20)
<1>. DEFINE from == words[i].left
            to == words[j-1].right + 1
<1>3. from \in Int /\ to \in Int /\ Start <= from /\ to <= cursor /\ Start \in 0..n-1 /\ cursor \in 0..n
  <2>1. /\ words[i].left \in Int /\ words[j-1].right \in Int
        /\ Start <= words[i].left /\ words[j-1].right < cursor
        /\ Start \in 0..n-1
    BY <1>2, InsideRange
  <2>2. cursor \in 0..n /\ n \in Nat
    BY Types
  <2>3. from \in Int /\ to \in Int /\ Start <= from
    BY <2>1
  <2>4. to <= cursor
    BY <2>1, <2>2
  <2>. QED
    BY <2>1, <2>2, <2>3, <2>4
<1>4. Front = from
  BY DEF Front
<1>5. Front' = to
  <2>1. CASE j <= Len(words)
    <3>1. j - 1 \in 1..Len(words)-1 /\ (j - 1) + 1 = j
      BY <1>2, <2>1
    <3>2. words[j].left = words[j-1].right + 1
      BY <1>2, <3>1, InsideRange
    <3>. QED
      BY <2>1, <3>2 DEF Front
  <2>2. CASE j > Len(words)
    <3>1. j - 1 = Len(words)
      BY <1>2, <2>2
    <3>2. words[j-1].right + 1 = cursor
      BY <1>2, <3>1, InsideRange
    <3>. QED
      BY <1>2, <2>2, <3>2 DEF Front
  <2>. QED
    BY <1>2, <2>1, <2>2
<1>6. Tiles(ws, from, to)
  OBVIOUS
<1>. HIDE DEF from, to
<1>7. \A k \in 1..Len(ws) : /\ ws[k] \in IntRanges /\ ws[k].left \in Int /\ ws[k].right \in Int
                            /\ from <= ws[k].left /\ ws[k].left <= ws[k].right /\ ws[k].right < to
  <2>1. \A k \in 1..Len(ws) : from <= ws[k].left /\ ws[k].right < to
    BY <1>3, <1>6, TilesInside DEF IntRanges
  <2>2. \A k \in 1..Len(ws) : ws[k].left <= ws[k].right
    BY <1>6 DEF Tiles
  <2>. QED
    BY <2>1, <2>2, RangeEnds
<1>8. ws \in Seq(Ranges(n)) /\ Len(ws) \in Nat
  <2>1. (from \in Nat /\ to \in 0..n) \/ ws = <<>>
    <3>1. CASE Len(ws) = 0
      BY <3>1, RangeEnds
    <3>2. CASE Len(ws) # 0
      <4>1. 1 \in 1..Len(ws)
        BY <3>2, RangeEnds
      <4>2. from < to
        BY <1>3, <1>7, <4>1
      <4>3. n \in Nat
        BY Types
      <4>. QED
        BY ONLY <1>3, <4>2, <4>3
    <3>. QED
      BY <3>1, <3>2
  <2>2. n \in Nat
    BY Types
  <2>. QED
    BY <1>6, <2>1, <2>2, TilesRanges, RangeEnds
<1>9. \A k \in 1..Len(ws) : \A p \in ws[k].left..ws[k].right :
        Rune(p) \in Symbols => Length(ws[k]) = 1
  <2>. SUFFICES ASSUME NEW k \in 1..Len(ws)
                PROVE  \A p \in ws[k].left..ws[k].right : Rune(p) \in Symbols => Length(ws[k]) = 1
    OBVIOUS
  <2>1. ws[k] \in IntRanges /\ Start <= ws[k].left /\ ws[k].left <= ws[k].right /\ ws[k].right < cursor
    BY <1>3, <1>7, SMTT(20)
  <2>. QED
    BY <1>2, <2>1, AloneInRange
<1>10. wrs' = wrs \o ws \/ wrs' = wrs
  BY DEF Push
<1>11. mixRes' = mixRes \o ws \/ mixRes' = mixRes
  BY DEF Push
<1>12. wrs \in Seq(Ranges(n)) /\ mixRes \in Seq(Ranges(n)) /\ Len(mixRes) \in Nat /\ Len(wrs) \in Nat
  BY Types DEF IInv, TypeOK
<1>13. TypeOK'
  <2>1. wrs' \in Seq(Ranges(n)) /\ mixRes' \in Seq(Ranges(n)) /\ Len(mixRes') >= Len(mixRes) /\ Len(mixRes') \in Nat
    <3>1. ASSUME NEW s \in Seq(Ranges(n))
          PROVE  s \o ws \in Seq(Ranges(n)) /\ Len(s \o ws) = Len(s) + Len(ws)
      BY <1>8, ConcatProperties
    <3>2. wrs' \in Seq(Ranges(n)) /\ mixRes' \in Seq(Ranges(n))
      BY <1>10, <1>11, <1>12, <3>1
    <3>3. Len(mixRes') = Len(mixRes) + Len(ws) \/ Len(mixRes') = Len(mixRes)
      BY <1>11, <1>12, <3>1
    <3>. QED
      BY <1>8, <1>12, <3>2, <3>3
  <2>2. m \in 1..Len(mixRes)+1
    BY Types
  <2>3. m' \in 1..Len(mixRes')+1
    BY <1>12, <2>1, <2>2
  <2>. QED
    BY <1>1, <1>2, <2>1, <2>3 DEF IInv, TypeOK
<1>14. RangeTiled'
  BY <1>1 DEF IInv, RangeTiled, Start
<1>15. MixTiled'
  <2>1. CASE query
    <3>1. mixRes' = mixRes \o ws /\ Tiles(mixRes, Start, from)
      BY <1>2, <1>4, <2>1 DEF Push, IInv, MixTiled
    <3>2. Tiles(mixRes', Start, to)
      BY <1>3, <1>6, <3>1, Types, TilesConcat
    <3>. QED
      BY <1>5, <2>1, <3>2 DEF IInv, MixTiled, Start
  <2>2. CASE ~query
    <3>1. wrs' = wrs \o ws /\ Tiles(wrs, 0, from)
      BY <1>4, <2>2 DEF Push, IInv, MixTiled
    <3>2. Tiles(wrs', 0, to)
      BY <1>3, <1>6, <3>1, Types, TilesConcat, SMTT(20)
    <3>. QED
      BY <1>5, <2>2, <3>2 DEF IInv, MixTiled
  <2>. QED
    BY <2>1, <2>2
<1>16. SeparatorsAlone'
  <2>1. ASSUME NEW k \in 1..Len(wrs')
        PROVE  \/ k \in 1..Len(wrs) /\ wrs'[k] = wrs[k]
               \/ \E q \in 1..Len(ws) : wrs'[k] = ws[q]
    <3>1. CASE wrs' = wrs
      BY <3>1
    <3>2. CASE wrs' = wrs \o ws
      <4>1. Len(wrs') = Len(wrs) + Len(ws)
        BY <1>8, <1>12, <3>2, ConcatProperties
      <4>2. wrs'[k] = IF k <= Len(wrs) THEN wrs[k] ELSE ws[k - Len(wrs)]
        BY <1>8, <1>12, <3>2, <4>1, ConcatProperties
      <4>3. k <= Len(wrs) \/ k - Len(wrs) \in 1..Len(ws)
        BY <1>8, <1>12, <4>1
      <4>. QED
        BY <1>12, <4>1, <4>2, <4>3
    <3>. QED
      BY <1>10, <3>1, <3>2
  <2>2. ASSUME NEW k \in 1..Len(wrs'), NEW w, w = wrs'[k]
        PROVE  \A p \in w.left..w.right : Rune(p) \in Symbols => Length(w) = 1
    BY <1>9, <2>1, <2>2, SMTT(20) DEF IInv, SeparatorsAlone
  <2>. QED
    BY <1>1, <2>2 DEF SeparatorsAlone
<1>17. ASSUME NEW w, Has(w) \/ \E p \in 1..Len(ws) : ws[p] = w PROVE Has(w)'
  <2>1. ASSUME NEW s \in Seq(Ranges(n))
        PROVE  /\ \A p \in 1..Len(s) : p \in 1..Len(s \o ws) /\ (s \o ws)[p] = s[p]
               /\ \A p \in 1..Len(ws) : Len(s) + p \in 1..Len(s \o ws) /\ (s \o ws)[Len(s) + p] = ws[p]
    <3>1. Len(s) \in Nat /\ Len(s \o ws) = Len(s) + Len(ws)
      BY <1>8, ConcatProperties
    <3>2. \A q \in 1..Len(s)+Len(ws) : (s \o ws)[q] = IF q <= Len(s) THEN s[q] ELSE ws[q - Len(s)]
      BY <1>8, ConcatProperties
    <3>. HIDE DEF Ranges
    <3>3. \A p \in 1..Len(ws) : /\ Len(s) + p \in 1..Len(s)+Len(ws) /\ ~(Len(s) + p <= Len(s))
                                /\ (Len(s) + p) - Len(s) = p
      BY <1>8, <3>1
    <3>4. \A p \in 1..Len(s) : p \in 1..Len(s)+Len(ws) /\ p <= Len(s)
      BY <1>8, <3>1
    <3>. QED
      BY <3>1, <3>2, <3>3, <3>4
  <2>2. CASE query
    <3>1. mixRes' = mixRes \o ws /\ wrs' = wrs
      BY <2>2 DEF Push
    <3>. QED
      BY <1>12, <1>17, <2>1, <3>1, ZenonT(30) DEF Has
  <2>3. CASE ~query
    <3>1. wrs' = wrs \o ws /\ mixRes' = mixRes
      BY <2>3 DEF Push
    <3>. QED
      BY <1>12, <1>17, <2>1, <3>1, ZenonT(30) DEF Has
  <2>. QED
    BY <2>2, <2>3
<1>18. FoundKept'
  <2>1. ASSUME NEW k \in 1..j-1, NEW w, w = words[k], Kept(w) PROVE Has(w)'
    <3>1. k \in 1..i-1 \/ k \in i..j-1
      BY <1>2
    <3>2. Has(w) \/ \E p \in 1..Len(ws) : ws[p] = w
      BY <1>2, <2>1, <3>1 DEF IInv, FoundKept
    <3>. QED
      BY <1>17, <3>2
  <2>. QED
    BY <1>1, <2>1 DEF FoundKept
<1>. QED
  BY <1>13, <1>14, <1>15, <1>16, <1>18 DEF IInv

\* A word MPSegment found is pushed as it is.
LEMMA KeepWordIInv == ASSUME IInv, KeepWord PROVE IInv'
<1>. DEFINE w == words[i]
            ws == <<w>>
            j == i + 1
<1>1. i \in 1..Len(words) /\ i <= Len(words) /\ pc = "mix" /\ Len(words) \in Nat
  BY Types DEF KeepWord
<1>2. w \in IntRanges /\ w.left <= w.right /\ w.left \in Int /\ w.right \in Int
  <2>1. words[i] \in IntRanges
    BY <1>1, Types
  <2>. QED
    BY <1>1, <2>1, InsideRange
<1>3. j \in i+1..Len(words)+1 /\ j - 1 = i /\ i..j-1 = {i}
  BY <1>1
<1>. HIDE DEF w, j
<1>4. ws \in Seq(IntRanges) /\ Len(ws) = 1 /\ ws[1] = w
  BY <1>2
<1>5. Tiles(ws, w.left, w.right + 1)
  BY <1>2 DEF Tiles
<1>6. Push(ws) /\ i' = j /\ UNCHANGED <<runes, dict, singles, query, cursor, pc, words, m>>
  BY DEF KeepWord, w, j
<1>. HIDE DEF ws
<1>7. Tiles(ws, words[i].left, words[j-1].right + 1)
  BY <1>3, <1>5 DEF w
<1>8. \A k \in i..j-1 : Kept(words[k]) => \E p \in 1..Len(ws) : ws[p] = words[k]
  BY <1>3, <1>4 DEF w
<1>. QED
  BY <1>1, <1>3, <1>4, <1>6, <1>7, <1>8, PushIInv

\* A sequence of single runes is cut by HMMSegment.
LEMMA CutSequenceIInv == ASSUME IInv, CutSequence PROVE IInv'
<1>1. i \in 1..Len(words) /\ i <= Len(words) /\ pc = "mix" /\ Len(words) \in Nat
  BY Types DEF CutSequence
<1>2. PICK j \in i+1..Len(words)+1 :
        /\ SequenceEnd(j)
        /\ \E ws \in HMMCuts(words[i].left, words[j-1].left + 1) : Push(ws)
        /\ i' = j
  BY DEF CutSequence
<1>3. PICK ws \in HMMCuts(words[i].left, words[j-1].left + 1) : Push(ws)
  BY <1>2
<1>4. j - 1 \in i..Len(words) /\ j - 1 \in 1..Len(words) /\ j - 1 \in i..j-1
  BY <1>1
<1>5. \A k \in i..j-1 : ~Kept(words[k])
  BY <1>2 DEF SequenceEnd
<1>6. words[j-1].left = words[j-1].right
  BY <1>4, <1>5 DEF Kept
<1>7. words[i].left \in Int /\ words[j-1].left \in Int /\ words[i].left <= words[j-1].left
  <2>1. words[i].left \in Int /\ words[j-1].left \in Int
    BY <1>1, <1>4, InsideRange
  <2>2. Tiles(words, Start, cursor) /\ Start \in Int /\ cursor \in Int
    BY <1>1, InsideRange, Types DEF IInv, RangeTiled
  <2>3. words[i].left <= words[j-1].left
    BY <1>1, <1>4, <2>2, Types, TilesOrder
  <2>. QED
    BY <2>1, <2>3
<1>8. ws \in Seq(IntRanges) /\ Tiles(ws, words[i].left, words[j-1].left + 1)
  <2>. DEFINE from == words[i].left
              to == words[j-1].left + 1
  <2>1. from \in Int /\ to \in Int /\ from <= to
    BY <1>7
  <2>2. ws \in Tilings(from, to)
    BY <1>3 DEF HMMCuts
  <2>. HIDE DEF from, to
  <2>3. ws \in Seq(IntRanges) /\ Tiles(ws, from, to)
    BY <2>1, <2>2, TilingsTile DEF IntRanges
  <2>. QED
    BY <2>3 DEF from, to
<1>9. Tiles(ws, words[i].left, words[j-1].right + 1)
  BY <1>6, <1>8
<1>10. UNCHANGED <<runes, dict, singles, query, cursor, pc, words, m>>
  BY DEF CutSequence
<1>. QED
  BY <1>1, <1>2, <1>3, <1>5, <1>8, <1>9, <1>10, PushIInv

\* A step that changes pc only, and the words are there.
LEMMA EndMixIInv == ASSUME IInv, EndMix PROVE IInv'
<1>1. n' = n /\ (\A k : Rune(k)' = Rune(k)) /\ (\A w : Kept(w)' = Kept(w))
  BY SameSentence DEF EndMix
<1>2. TypeOK'
  BY <1>1 DEF EndMix, IInv, TypeOK
<1>3. RangeTiled'
  BY <1>1 DEF EndMix, IInv, RangeTiled, Start
<1>4. Front = cursor /\ Front' = cursor
  BY Types DEF EndMix, Front
<1>5. MixTiled'
  BY <1>4 DEF EndMix, IInv, MixTiled, Start
<1>6. SeparatorsAlone'
  BY <1>1 DEF EndMix, IInv, SeparatorsAlone
<1>7. FoundKept'
  BY <1>1 DEF EndMix, IInv, FoundKept, Has
<1>. QED
  BY <1>2, <1>3, <1>5, <1>6, <1>7 DEF IInv

LEMMA EndQueryIInv == ASSUME IInv, EndQuery PROVE IInv'
<1>1. n' = n /\ \A k : Rune(k)' = Rune(k)
  BY SameSentence DEF EndQuery
<1>2. TypeOK'
  BY <1>1 DEF EndQuery, IInv, TypeOK
<1>3. MixTiled'
  BY DEF EndQuery, IInv, MixTiled
<1>4. SeparatorsAlone'
  BY <1>1 DEF EndQuery, IInv, SeparatorsAlone
<1>. QED
  BY <1>2, <1>3, <1>4 DEF EndQuery, IInv, RangeTiled, FoundKept

-----------------------------------------------------------------------------
(* QuerySegment.                                                           *)

\* what QuerySegment adds to w
Added(v, w) == Inside(v, w) /\ Length(v) \in {2, 3} /\ Piece(v) \in dict

\* The words of len runes found inside a word.
LEMMA SubwordsRight ==
  ASSUME n \in Nat, NEW w \in Ranges(n), NEW len \in {2, 3}
  PROVE  /\ Subwords(w, len) \in Seq(Ranges(n))
         /\ \A j \in 1..Len(Subwords(w, len)) : Added(Subwords(w, len)[j], w)
<1>. DEFINE sub(k) == WordRange(w.left + k, w.left + k + len - 1)
            N == Length(w)-len+1
            all == [k \in 1..N |-> sub(k - 1)]
            keep == {k \in DOMAIN all : Piece(all[k]) \in dict}
<1>1. /\ w.left \in 0..n-1 /\ w.right \in 0..n-1 /\ w.left <= w.right
      /\ w = [left |-> w.left, right |-> w.right]
  BY DEF Ranges
<1>2. CASE Length(w) > len
  <2>1. N \in Nat
    BY <1>1, <1>2 DEF Length
  <2>2. ASSUME NEW k \in 1..N
        PROVE  sub(k - 1) \in Ranges(n) /\ Inside(sub(k - 1), w) /\ Length(sub(k - 1)) = len
    <3>. DEFINE l == w.left + (k - 1)
                r == w.left + (k - 1) + len - 1
    <3>1. /\ l \in 0..n-1 /\ r \in 0..n-1 /\ l <= r
          /\ w.left <= l /\ r <= w.right /\ r - l + 1 = len
      BY <1>1, <2>1 DEF Length
    <3>2. ~(w.left = l /\ w.right = r)
      BY <1>1, <1>2 DEF Length
    <3>3. sub(k - 1) = [left |-> l, right |-> r]
      BY DEF WordRange
    <3>. HIDE DEF l, r, sub
    <3>. QED
      BY <1>1, <3>1, <3>2, <3>3 DEF Ranges, Inside, Length
  <2>3. Subwords(w, len) = Selected(all, keep)
    BY <1>2 DEF Subwords
  <2>. HIDE DEF sub, N
  <2>4. all \in Seq(Ranges(n)) /\ Len(all) = N /\ \A k \in 1..N : all[k] = sub(k - 1)
    BY <2>1, <2>2
  <2>5. \A k \in keep : k \in 1..N /\ Piece(all[k]) \in dict
    OBVIOUS
  <2>. HIDE DEF all, keep
  <2>6. /\ Selected(all, keep) \in Seq(Ranges(n))
        /\ \A j \in 1..Len(Selected(all, keep)) :
             \E k \in 1..Len(all) : k \in keep /\ Selected(all, keep)[j] = all[k]
    BY <2>4, SelectedMembers
  <2>7. ASSUME NEW v, NEW k \in 1..N, k \in keep, v = all[k] PROVE Added(v, w)
    BY <2>2, <2>4, <2>5, <2>7 DEF Added
  <2>. QED
    BY <2>3, <2>4, <2>6, <2>7
<1>3. CASE ~(Length(w) > len)
  BY <1>3 DEF Subwords
<1>. QED
  BY <1>2, <1>3

\* QuerySegment pushes what it adds to the word, then the word.
LEMMA QueryPush ==
  ASSUME IInv, QueryWord
  PROVE  LET w == mixRes[m]
             A == Len(wrs)
             Z == Len(wrs')
         IN  /\ w \in Ranges(n) /\ m \in 1..Len(mixRes)
             /\ wrs' \in Seq(Ranges(n)) /\ A \in Nat /\ Z \in Nat /\ A < Z
             /\ \A k \in 1..A : wrs'[k] = wrs[k]
             /\ \A k \in A+1..Z-1 : Added(wrs'[k], w)
             /\ wrs'[Z] = w
<1>. DEFINE w == mixRes[m]
            s2 == Subwords(w, 2)
            s3 == Subwords(w, 3)
            R == Ranges(n)
<1>1. n \in Nat /\ m \in 1..Len(mixRes) /\ mixRes \in Seq(R) /\ wrs \in Seq(R)
  BY Types DEF QueryWord, IInv, TypeOK
<1>2. w \in R
  BY <1>1
<1>. HIDE DEF w
<1>3. /\ s2 \in Seq(R) /\ \A j \in 1..Len(s2) : Added(s2[j], w)
      /\ s3 \in Seq(R) /\ \A j \in 1..Len(s3) : Added(s3[j], w)
  BY <1>1, <1>2, SubwordsRight
<1>4. wrs' = wrs \o s2 \o s3 \o <<w>>
  BY DEF QueryWord, w
<1>. HIDE DEF s2, s3, R
<1>. DEFINE t2 == wrs \o s2
            t3 == t2 \o s3
            A == Len(wrs)
            A2 == Len(t2)
            A3 == Len(t3)
<1>5. /\ t2 \in Seq(R) /\ Len(t2) = A + Len(s2) /\ A \in Nat /\ Len(s2) \in Nat
      /\ \A k \in 1..A+Len(s2) : t2[k] = IF k <= A THEN wrs[k] ELSE s2[k - A]
  BY <1>1, <1>3, ConcatProperties, LenProperties
<1>6. /\ t3 \in Seq(R) /\ Len(t3) = A2 + Len(s3) /\ A2 \in Nat /\ Len(s3) \in Nat
      /\ \A k \in 1..A2+Len(s3) : t3[k] = IF k <= A2 THEN t2[k] ELSE s3[k - A2]
  <2>1. t2 \in Seq(R) /\ s3 \in Seq(R)
    BY <1>3, <1>5
  <2>. HIDE DEF t2
  <2>2. A2 \in Nat /\ Len(s3) \in Nat
    BY <2>1, LenProperties
  <2>. QED
    BY ONLY <2>1, <2>2, ConcatProperties
<1>7. /\ wrs' \in Seq(R) /\ Len(wrs') = A3 + 1 /\ A3 \in Nat
      /\ \A k \in 1..A3+1 : wrs'[k] = IF k <= A3 THEN t3[k] ELSE w
  <2>1. <<w>> \in Seq(R) /\ Len(<<w>>) = 1 /\ <<w>>[1] = w
    BY <1>2
  <2>2. A3 \in Nat
    BY <1>6
  <2>. DEFINE one == <<w>>
  <2>3. wrs' = t3 \o one
    BY <1>4
  <2>. HIDE DEF t3, one
  <2>4. /\ wrs' \in Seq(R) /\ Len(wrs') = A3 + 1
        /\ \A k \in 1..A3+1 : wrs'[k] = IF k <= A3 THEN t3[k] ELSE one[k - A3]
    <3>1. t3 \in Seq(R) /\ one \in Seq(R) /\ Len(one) = 1
      BY <1>6, <2>1 DEF one
    <3>. QED
      BY ONLY <2>2, <2>3, <3>1, ConcatProperties, SMTT(20)
  <2>5. \A k \in 1..A3+1 : ~(k <= A3) => k - A3 = 1
    BY <2>2
  <2>. QED
    BY <2>1, <2>2, <2>4, <2>5 DEF one
<1>. HIDE DEF t2, t3, A, A2, A3
<1>8. A2 = A + Len(s2) /\ A3 = A2 + Len(s3)
  BY <1>5, <1>6 DEF A2, A3
<1>9. ASSUME NEW k \in 1..A PROVE wrs'[k] = wrs[k]
  <2>1. k <= A3 /\ k <= A2 /\ k <= A /\ k \in 1..A3+1 /\ k \in 1..A2+Len(s3) /\ k \in 1..A+Len(s2)
    BY <1>5, <1>6, <1>7, <1>8
  <2>. QED
    BY <1>5, <1>6, <1>7, <2>1
<1>10. ASSUME NEW k \in A+1..A3 PROVE Added(wrs'[k], w)
  <2>1. k <= A3 /\ k \in 1..A3+1 /\ k \in 1..A2+Len(s3)
    BY <1>5, <1>6, <1>7, <1>8
  <2>2. CASE k <= A2
    <3>1. k \in 1..A+Len(s2) /\ ~(k <= A) /\ k - A \in 1..Len(s2)
      BY <1>5, <1>8, <2>2
    <3>2. wrs'[k] = s2[k - A]
      BY <1>5, <1>6, <1>7, <2>1, <2>2, <3>1
    <3>. QED
      BY <1>3, <3>1, <3>2
  <2>3. CASE ~(k <= A2)
    <3>1. k - A2 \in 1..Len(s3)
      BY <1>5, <1>6, <1>8, <2>3
    <3>2. wrs'[k] = s3[k - A2]
      BY <1>6, <1>7, <2>1, <2>3
    <3>. QED
      BY <1>3, <3>1, <3>2
  <2>. QED
    BY <2>2, <2>3
<1>11. wrs'[A3 + 1] = w
  BY <1>7
<1>12. A < A3 + 1 /\ (A3 + 1) - 1 = A3
  BY <1>5, <1>6, <1>7, <1>8
<1>13. /\ w \in R /\ m \in 1..Len(mixRes)
       /\ wrs' \in Seq(R) /\ A \in Nat /\ Len(wrs') \in Nat /\ A < Len(wrs')
       /\ \A k \in 1..A : wrs'[k] = wrs[k]
       /\ \A k \in A+1..Len(wrs')-1 : Added(wrs'[k], w)
       /\ wrs'[Len(wrs')] = w
  BY <1>1, <1>2, <1>5, <1>7, <1>9, <1>10, <1>11, <1>12
<1>. QED
  BY <1>13 DEF w, A, R

\* The word QuerySegment is at is inside the range.
LEMMA MixResInside ==
  ASSUME IInv, pc = "query", NEW k \in 1..Len(mixRes)
  PROVE  /\ mixRes[k] \in IntRanges /\ mixRes[k].left \in Int /\ mixRes[k].right \in Int
         /\ Start <= mixRes[k].left /\ mixRes[k].left <= mixRes[k].right /\ mixRes[k].right < cursor
<1>1. Tiles(mixRes, Start, cursor)
  BY DEF IInv, MixTiled, Front
<1>2. Start \in Int /\ cursor \in Int /\ mixRes \in Seq(IntRanges)
  BY InsideRange, Types
<1>3. mixRes[k].left <= mixRes[k].right
  BY <1>1 DEF Tiles
<1>4. Start <= mixRes[k].left /\ mixRes[k].right < cursor
  BY <1>1, <1>2, TilesInside DEF IntRanges
<1>. QED
  BY <1>2, <1>3, <1>4, RangeEnds

\* One word of MixSegment's.
LEMMA QueryWordIInv == ASSUME IInv, QueryWord PROVE IInv'
<1>. DEFINE w == mixRes[m]
            A == Len(wrs)
            Z == Len(wrs')
<1>1. n' = n /\ (\A k : Rune(k)' = Rune(k)) /\ (\A x : Kept(x)' = Kept(x))
  BY SameSentence DEF QueryWord
<1>2. /\ w \in Ranges(n) /\ m \in 1..Len(mixRes)
      /\ wrs' \in Seq(Ranges(n)) /\ A \in Nat /\ Z \in Nat /\ A < Z
      /\ \A k \in 1..A : wrs'[k] = wrs[k]
      /\ \A k \in A+1..Z-1 : Added(wrs'[k], w)
      /\ wrs'[Z] = w
  BY QueryPush
<1>3. pc = "query" /\ pc # "next"
  BY DEF QueryWord
<1>4. w \in IntRanges /\ Start <= w.left /\ w.left <= w.right /\ w.right < cursor
  BY <1>2, <1>3, MixResInside
<1>5. w.left \in Int /\ w.right \in Int /\ Start \in Int /\ cursor \in Int
  BY <1>3, <1>4, InsideRange, Types, SMTT(20) DEF IntRanges
<1>. HIDE DEF w, A, Z
<1>6. TypeOK'
  <2>1. m' = m + 1 /\ mixRes' = mixRes
    BY DEF QueryWord
  <2>2. m \in 1..Len(mixRes) /\ Len(mixRes) \in Nat
    BY <1>2, Types
  <2>3. m + 1 \in 1..Len(mixRes)+1
    BY <2>2
  <2>. QED
    BY <1>1, <1>2, <2>1, <2>3 DEF QueryWord, IInv, TypeOK
<1>7. RangeTiled'
  BY <1>1 DEF QueryWord, IInv, RangeTiled, Start
<1>8. MixTiled'
  BY DEF QueryWord, IInv, MixTiled, Start, Front
<1>9. SeparatorsAlone'
  <2>1. ASSUME NEW k \in 1..Z, NEW x, x = wrs'[k]
        PROVE  \A p \in x.left..x.right : Rune(p) \in Symbols => Length(x) = 1
    <3>1. CASE k \in 1..A
      <4>1. x = wrs[k]
        BY <1>2, <2>1, <3>1
      <4>. QED
        BY <3>1, <4>1 DEF IInv, SeparatorsAlone, A
    <3>2. CASE k \notin 1..A
      <4>1. x \in IntRanges /\ Start <= x.left /\ x.left <= x.right /\ x.right < cursor
        <5>1. x \in Ranges(n)
          BY <1>2, <2>1 DEF Z
        <5>2. x \in IntRanges /\ x.left \in Int /\ x.right \in Int /\ x.left <= x.right
          BY <5>1, Types DEF Ranges, IntRanges
        <5>3. x = w \/ (w.left <= x.left /\ x.right <= w.right)
          <6>1. CASE k = Z
            BY <1>2, <2>1, <6>1
          <6>2. CASE k \in A+1..Z-1
            BY <1>2, <2>1, <6>2 DEF Added, Inside
          <6>. QED
            BY <1>2, <3>2, <6>1, <6>2
        <5>. QED
          BY <1>4, <1>5, <5>2, <5>3
      <4>. QED
        BY <1>3, <4>1, AloneInRange
    <3>. QED
      BY <3>1, <3>2
  <2>. QED
    BY <1>1, <2>1 DEF SeparatorsAlone, Z
<1>10. FoundKept'
  <2>1. ASSUME NEW x, Has(x) PROVE Has(x)'
    <3>1. CASE \E p \in 1..Len(mixRes) : mixRes[p] = x
      BY <3>1 DEF QueryWord, Has
    <3>2. CASE \E p \in 1..Len(wrs) : wrs[p] = x
      <4>1. PICK p \in 1..A : wrs[p] = x
        BY <3>2 DEF A
      <4>2. p \in 1..Z /\ wrs'[p] = x
        BY <1>2, <4>1
      <4>. QED
        BY <4>2 DEF Has, Z
    <3>. QED
      BY <2>1, <3>1, <3>2 DEF Has
  <2>2. ASSUME NEW k \in 1..i-1, NEW x, x = words[k], Kept(x) PROVE Has(x)'
    BY <1>3, <2>1, <2>2 DEF IInv, FoundKept
  <2>. QED
    BY <1>1, <2>2 DEF QueryWord, FoundKept
<1>. QED
  BY <1>6, <1>7, <1>8, <1>9, <1>10 DEF IInv

\* No step breaks the invariant.
LEMMA NextIInv == IInv /\ [Next]_vars => IInv'
<1>. SUFFICES ASSUME IInv, [Next]_vars PROVE IInv'
  OBVIOUS
<1>1. CASE UNCHANGED vars
  <2>1. n' = n /\ (\A k : Rune(k)' = Rune(k)) /\ (\A w : Kept(w)' = Kept(w))
    BY <1>1, SameSentence DEF vars
  <2>2. TypeOK' /\ RangeTiled' /\ MixTiled' /\ SeparatorsAlone'
    BY <1>1, <2>1 DEF vars, IInv, TypeOK, RangeTiled, MixTiled, SeparatorsAlone, Start, Front
  <2>3. FoundKept'
    BY <1>1, <2>1 DEF vars, IInv, FoundKept, Has
  <2>. QED
    BY <2>2, <2>3 DEF IInv
<1>. QED
  BY <1>1, NextRangeIInv, KeepWordIInv, CutSequenceIInv, EndMixIInv, QueryWordIInv, EndQueryIInv DEF Next

LEMMA IInvAlways == Spec => []IInv
BY InitIInv, NextIInv, PTL DEF Spec

\* Every variable stays in its domain.
THEOREM SentenceTypeCorrect == Spec => []TypeOK
BY IInvAlways, PTL DEF IInv

\* MixTiles: MixSegment's words, of all ranges passed so far, tile the sentence,
\* whatever MPSegment and HMMSegment make of its ranges.
THEOREM SentenceTiles == Spec => []MixTiles
<1>1. IInv => MixTiles
  BY DEF IInv, MixTiled, MixTiles
<1>. QED
  BY <1>1, IInvAlways, PTL

\* SeparatorsAlone: a separator is never part of a longer word.
THEOREM SeparatorsStayAlone == Spec => []SeparatorsAlone
BY IInvAlways, PTL DEF IInv

\* FoundWordsStay: no word of several runes and no one-rune word of the user
\* dictionary that MPSegment found is cut or joined.
THEOREM FoundWordsAreKept == Spec => []FoundWordsStay
<1>1. ASSUME IInv PROVE FoundWordsStay
  <2>. SUFFICES ASSUME pc # "next", NEW k \in 1..i-1, Kept(words[k])
                PROVE  \E p \in 1..Len(mixRes \o wrs) : (mixRes \o wrs)[p] = words[k]
    BY DEF FoundWordsStay, Kept
  <2>1. Has(words[k])
    BY <1>1 DEF IInv, FoundKept
  <2>2. /\ Len(mixRes) \in Nat /\ Len(wrs) \in Nat
        /\ Len(mixRes \o wrs) = Len(mixRes) + Len(wrs)
        /\ \A p \in 1..Len(mixRes)+Len(wrs) :
             (mixRes \o wrs)[p] = IF p <= Len(mixRes) THEN mixRes[p] ELSE wrs[p - Len(mixRes)]
    BY <1>1, Types, ConcatProperties
  <2>3. CASE \E p \in 1..Len(mixRes) : mixRes[p] = words[k]
    BY <2>2, <2>3
  <2>4. CASE \E p \in 1..Len(wrs) : wrs[p] = words[k]
    <3>1. PICK p \in 1..Len(wrs) : wrs[p] = words[k]
      BY <2>4
    <3>. DEFINE q == Len(mixRes) + p
    <3>2. q \in 1..Len(mixRes)+Len(wrs) /\ ~(q <= Len(mixRes)) /\ q - Len(mixRes) = p
      BY <2>2
    <3>. HIDE DEF q
    <3>. QED
      BY <2>2, <3>1, <3>2
  <2>. QED
    BY <2>1, <2>3, <2>4 DEF Has
<1>. QED
  BY <1>1, IInvAlways, PTL

-----------------------------------------------------------------------------
(* What QuerySegment adds.                                                *)

\* where the words end that QuerySegment has passed
Passed ==
  IF pc = "next" THEN cursor
  ELSE IF pc = "query" /\ m <= Len(mixRes) THEN mixRes[m].left
  ELSE IF pc = "query" THEN cursor ELSE Start

\* the places of the words that are inside no other
WholePlaces == {k \in 1..Len(wrs) : \A j \in 1..Len(wrs) : ~Inside(wrs[k], wrs[j])}

\* What QuerySegment adds comes right before the word it is inside of.
AddedBefore ==
  \A k \in 1..Len(wrs) : (\E w \in 1..Len(wrs) : Inside(wrs[k], wrs[w])) =>
    /\ Piece(wrs[k]) \in dict
    /\ Length(wrs[k]) \in {2, 3}
    /\ k < Len(wrs) /\ \E w \in k+1..Len(wrs) :
         \A v \in k..w-1 : Inside(wrs[v], wrs[w])

\* The words that are inside no other tile what QuerySegment has passed.
Covered ==
  query =>
    /\ Tiles(Wholes, 0, Passed)
    /\ \A k \in 1..Len(wrs) : wrs[k].right < Passed
    /\ AddedBefore

CoverInv == IInv /\ Covered

\* Steps that push nothing and pass nothing.
LEMMA CoveredSame ==
  ASSUME Covered, UNCHANGED <<runes, dict, singles, query, wrs>>, Passed' = Passed
  PROVE  Covered'
<1>1. \A w : Piece(w)' = Piece(w)
  BY SameSentence
<1>2. AddedBefore' <=> AddedBefore
  BY <1>1 DEF AddedBefore
<1>3. Wholes' = Wholes
  BY DEF Wholes
<1>. QED
  BY <1>2, <1>3 DEF Covered

\* QuerySegment passes one word: it is inside no other, the words added are.
LEMMA QueryWordCovered == ASSUME CoverInv, QueryWord PROVE query => Covered'
<1>. SUFFICES ASSUME query PROVE Covered'
  OBVIOUS
<1>. DEFINE w == mixRes[m]
            A == Len(wrs)
            Z == Len(wrs')
            new == wrs'
<1>1. /\ w \in Ranges(n) /\ m \in 1..Len(mixRes)
      /\ new \in Seq(Ranges(n)) /\ A \in Nat /\ Z \in Nat /\ A < Z /\ Z = Len(new)
      /\ \A k \in 1..A : new[k] = wrs[k]
      /\ \A k \in A+1..Z-1 : Added(new[k], w)
      /\ new[Z] = w
  BY QueryPush DEF CoverInv
<1>2. pc = "query" /\ pc' = "query" /\ IInv /\ n \in Nat
  BY Types DEF QueryWord, CoverInv
<1>3. Passed = w.left
  BY <1>1, <1>2, Types DEF Passed
<1>4. w.left \in 0..n-1 /\ w.right \in w.left..n-1 /\ w \in IntRanges
  BY <1>1, <1>2 DEF Ranges, IntRanges
<1>5. \A k \in 1..Z : /\ new[k] = [left |-> new[k].left, right |-> new[k].right]
                      /\ new[k].left \in Int /\ new[k].right \in Int /\ new[k].left <= new[k].right
  <2>1. \A k \in 1..Z : new[k] \in Ranges(n)
    BY <1>1
  <2>. HIDE DEF new, Z
  <2>2. ASSUME NEW x \in Ranges(n)
        PROVE  x = [left |-> x.left, right |-> x.right] /\ x.left \in Int /\ x.right \in Int /\ x.left <= x.right
    BY <1>2 DEF Ranges
  <2>. QED
    BY <2>1, <2>2
<1>6. Passed' = w.right + 1
  <2>1. m' = m + 1 /\ mixRes' = mixRes /\ cursor' = cursor
    BY DEF QueryWord
  <2>2. Tiles(mixRes, Start, cursor)
    BY <1>2 DEF IInv, MixTiled, Front
  <2>3. CASE m + 1 <= Len(mixRes)
    <3>1. m \in 1..Len(mixRes)-1
      BY <1>1, <1>2, <2>3, Types
    <3>2. mixRes[m+1].left = mixRes[m].right + 1
      BY <2>2, <3>1 DEF Tiles
    <3>. QED
      BY <1>2, <2>1, <2>3, <3>2 DEF Passed
  <2>4. CASE ~(m + 1 <= Len(mixRes))
    <3>1. m = Len(mixRes) /\ mixRes # <<>>
      BY <1>1, <1>2, <2>4, Types
    <3>2. mixRes[m].right + 1 = cursor
      BY <2>2, <3>1 DEF Tiles
    <3>. QED
      BY <1>2, <2>1, <2>4, <3>2 DEF Passed
  <2>. QED
    BY <2>3, <2>4
<1>7. \A k \in 1..A : new[k].right < w.left
  BY <1>1, <1>3 DEF CoverInv, Covered
<1>8. \A k \in A+1..Z-1 : /\ new[k] # w /\ w.left <= new[k].left /\ new[k].right <= w.right
                          /\ Length(new[k]) \in {2, 3} /\ Piece(new[k]) \in dict
  BY <1>1 DEF Added, Inside
<1>9. A \in Nat /\ Z \in Nat /\ A < Z /\ new[Z] = w
  BY <1>1
<1>10. \A k \in 1..Z : k \in 1..A \/ k \in A+1..Z-1 \/ k = Z
  BY <1>9
<1>11. \A k \in 1..Z : A < k => w.left <= new[k].left /\ new[k].right <= w.right
  BY <1>4, <1>8, <1>9, <1>10
<1>. HIDE DEF w, new, A, Z
<1>12. \A k \in 1..A, j \in 1..Z : Inside(new[k], new[j]) => j \in 1..A
  <2>. SUFFICES ASSUME NEW k \in 1..A, NEW j \in 1..Z, Inside(new[k], new[j]), j > A PROVE FALSE
    BY <1>9
  <2>1. w.left <= new[j].left /\ new[j].left <= new[k].left /\ new[k].right < w.left
    BY <1>7, <1>11 DEF Inside
  <2>2. k \in 1..Z
    BY <1>9
  <2>3. new[k].left \in Int /\ new[k].right \in Int /\ new[k].left <= new[k].right
    BY <1>5, <2>2
  <2>4. new[j].left \in Int
    BY <1>5
  <2>5. w.left \in Int
    BY <1>2, <1>4
  <2>. QED
    BY <2>1, <2>3, <2>4, <2>5
<1>13. \A j \in 1..Z : ~Inside(w, new[j])
  <2>. SUFFICES ASSUME NEW j \in 1..Z, Inside(w, new[j]) PROVE FALSE
    OBVIOUS
  <2>1. w # new[j] /\ new[j].left <= w.left /\ w.right <= new[j].right
    BY DEF Inside
  <2>2. new[j].left \in Int /\ new[j].right \in Int /\ new[j] = [left |-> new[j].left, right |-> new[j].right]
    BY <1>5
  <2>3. j > A
    <3>1. j \in 1..A => FALSE
      BY <1>4, <1>7, <2>1, <2>2
    <3>. QED
      BY <1>9, <3>1
  <2>4. new[j].left = w.left /\ new[j].right = w.right
    BY <1>4, <1>11, <2>1, <2>2, <2>3
  <2>5. w = [left |-> w.left, right |-> w.right]
    BY <1>4 DEF IntRanges
  <2>. QED
    BY <2>1, <2>2, <2>4, <2>5
<1>14. \A k \in A+1..Z-1 : k \in 1..Z /\ Inside(new[k], new[Z]) /\ Z \in 1..Z
  BY <1>8, <1>9 DEF Inside
<1>. DEFINE keep == {k \in 1..Z : \A j \in 1..Z : ~Inside(new[k], new[j])}
<1>15. \A k \in 1..A : wrs[k] = new[k] /\ (k \in WholePlaces <=> k \in keep)
  <2>. SUFFICES ASSUME NEW k \in 1..A PROVE wrs[k] = new[k] /\ (k \in WholePlaces <=> k \in keep)
    OBVIOUS
  <2>1. k \in 1..Z /\ \A j \in 1..A : j \in 1..Z /\ wrs[j] = new[j]
    BY <1>1, <1>9 DEF A
  <2>2. wrs[k] = new[k]
    BY <2>1
  <2>3. k \in WholePlaces <=> \A j \in 1..A : ~Inside(new[k], new[j])
    BY <2>1 DEF WholePlaces, A
  <2>4. k \in keep <=> \A j \in 1..A : ~Inside(new[k], new[j])
    BY <1>12, <2>1
  <2>. QED
    BY <2>2, <2>3, <2>4
<1>16. Z \in keep /\ \A k \in A+1..Z-1 : k \notin keep
  BY <1>9, <1>13, <1>14
<1>17. Selected(new, keep) = Append(Wholes, w)
  <2>1. wrs \in Seq(Ranges(n)) /\ new \in Seq(Ranges(n)) /\ Len(new) = Z /\ Len(wrs) = A
    BY <1>1, <1>2 DEF IInv, TypeOK, A
  <2>2. Wholes = Selected(wrs, WholePlaces)
    BY DEF Wholes, WholePlaces
  <2>. HIDE DEF keep
  <2>3. Selected(new, keep) = Append(Selected(wrs, WholePlaces), new[Len(new)])
    BY <1>9, <1>15, <1>16, <2>1, SelectedExtend
  <2>. QED
    BY <1>9, <2>1, <2>2, <2>3
<1>18. Wholes' = Append(Wholes, w)
  BY <1>17 DEF Wholes, new, Z
<1>19. Tiles(Wholes', 0, w.right + 1)
  <2>1. Wholes \in Seq(IntRanges)
    BY <1>2, Types, SelectedMembers DEF Wholes
  <2>2. Tiles(Wholes, 0, w.left)
    BY <1>3 DEF CoverInv, Covered
  <2>3. w = WordRange(w.left, w.right)
    BY <1>4 DEF WordRange, IntRanges
  <2>4. w.left \in Int /\ w.right \in Int /\ w.left <= w.right
    BY <1>2, <1>4
  <2>. QED
    BY <1>18, <2>1, <2>2, <2>3, <2>4, TilesAppend DEF IntRanges
<1>20. \A k \in 1..Z : new[k].right < w.right + 1
  <2>. SUFFICES ASSUME NEW k \in 1..Z PROVE new[k].right < w.right + 1
    OBVIOUS
  <2>1. w.left \in Int /\ w.right \in Int /\ w.left <= w.right
    BY <1>2, <1>4
  <2>3. new[k].right \in Int
    BY <1>5
  <2>2. CASE k \in 1..A
    BY <1>7, <2>1, <2>2, <2>3
  <2>4. CASE k \notin 1..A
    BY <1>9, <1>11, <2>1, <2>3, <2>4
  <2>. QED
    BY <2>2, <2>4
<1>21. AddedBefore'
  <2>1. ASSUME NEW k \in 1..Z, NEW q \in 1..Z, Inside(new[k], new[q])
        PROVE  /\ Piece(new[k]) \in dict
               /\ Length(new[k]) \in {2, 3}
               /\ k < Z /\ \E x \in k+1..Z : \A v \in k..x-1 : Inside(new[v], new[x])
    <3>1. CASE k \in 1..A
      <4>1. q \in 1..A /\ Inside(wrs[k], wrs[q])
        BY <1>12, <1>15, <2>1, <3>1
      <4>2. /\ Piece(wrs[k]) \in dict
            /\ Length(wrs[k]) \in {2, 3}
            /\ k < A /\ \E x \in k+1..A : \A v \in k..x-1 : Inside(wrs[v], wrs[x])
        BY <1>2, <3>1, <4>1 DEF CoverInv, Covered, AddedBefore, A
      <4>3. PICK x \in k+1..A : \A v \in k..x-1 : Inside(wrs[v], wrs[x])
        BY <4>2
      <4>4. x \in k+1..Z /\ x \in 1..A /\ \A v \in k..x-1 : v \in 1..A
        BY <1>9, <3>1
      <4>5. \A v \in k..x-1 : Inside(new[v], new[x])
        BY <1>15, <4>3, <4>4
      <4>. QED
        BY <1>9, <1>15, <3>1, <4>2, <4>4, <4>5
    <3>2. CASE k \in A+1..Z-1
      <4>1. Z \in k+1..Z /\ k < Z /\ \A v \in k..Z-1 : v \in A+1..Z-1
        BY <1>9, <3>2
      <4>2. \A v \in k..Z-1 : Inside(new[v], new[Z])
        BY <1>14, <4>1
      <4>. QED
        BY <1>8, <3>2, <4>1, <4>2
    <3>3. CASE k = Z
      BY <1>9, <1>13, <2>1, <3>3
    <3>. QED
      BY <1>10, <3>1, <3>2, <3>3
  <2>2. dict' = dict /\ \A x : Piece(x)' = Piece(x)
    BY SameSentence DEF QueryWord
  <2>. QED
    BY <2>1, <2>2 DEF AddedBefore, new, Z
<1>. QED
  BY <1>6, <1>19, <1>20, <1>21 DEF Covered, new, Z

\* The next range begins where the last one ended.
LEMMA NextRangeStart == ASSUME IInv, NextRange PROVE words'[1].left = cursor
<1>. DEFINE end == RangeEnd(cursor)
<1>1. cursor \in 0..n-1 /\ n \in Nat
  BY Types DEF NextRange
<1>2. end \in cursor+1..n
  BY <1>1, RangeEndRight
<1>. HIDE DEF end
<1>3. words' \in Tilings(cursor, end)
  BY DEF NextRange, MPCuts, end
<1>4. Tiles(words', cursor, end)
  BY <1>1, <1>2, <1>3, TilingsTile
<1>. QED
  BY <1>1, <1>2, <1>4 DEF Tiles

\* MixSegment's steps add nothing to the result of QuerySegment.
LEMMA MixCovered ==
  ASSUME CoverInv, Next, ~QueryWord, query, IInv'
  PROVE  Covered'
<1>1. CASE NextRange
  <2>1. Passed = cursor
    BY <1>1 DEF NextRange, Passed
  <2>2. words'[1].left = cursor
    BY <1>1, NextRangeStart DEF CoverInv
  <2>3. Passed' = cursor
    BY <1>1, <2>2 DEF NextRange, Passed, Start
  <2>. QED
    BY <1>1, <2>1, <2>3, CoveredSame DEF NextRange, CoverInv
<1>2. CASE KeepWord \/ CutSequence
  <2>1. wrs' = wrs /\ UNCHANGED <<runes, dict, singles, query, words>> /\ pc = "mix" /\ pc' = "mix"
    BY <1>2 DEF KeepWord, CutSequence, Push
  <2>2. Passed' = Passed
    BY <2>1 DEF Passed, Start
  <2>. QED
    BY <2>1, <2>2, CoveredSame DEF CoverInv
<1>3. CASE EndMix
  <2>1. pc = "mix" /\ pc' = "query" /\ UNCHANGED <<runes, dict, singles, query, cursor, words, mixRes, m, wrs>>
    BY <1>3 DEF EndMix
  <2>2. m = 1 /\ Tiles(mixRes, Start, cursor) /\ Len(mixRes) \in Nat
    <3>1. m = 1 /\ Tiles(mixRes, Start, Front)
      BY <2>1 DEF CoverInv, IInv, MixTiled
    <3>2. Front = cursor
      BY <1>3, Types DEF EndMix, Front, CoverInv
    <3>. QED
      BY <3>1, <3>2, Types DEF CoverInv
  <2>3. IF m <= Len(mixRes) THEN mixRes[m].left = Start ELSE cursor = Start
    <3>1. CASE mixRes = <<>>
      BY <2>2, <3>1 DEF Tiles
    <3>2. CASE mixRes # <<>>
      <4>1. 1 \in 1..Len(mixRes)
        BY <3>2, Types, RangeEnds DEF CoverInv
      <4>. QED
        BY <2>2, <3>2, <4>1 DEF Tiles
    <3>. QED
      BY <3>1, <3>2
  <2>4. Passed' = Passed
    BY <2>1, <2>3 DEF Passed
  <2>. QED
    BY <2>1, <2>4, CoveredSame DEF CoverInv
<1>4. CASE EndQuery
  <2>1. Passed' = Passed
    BY <1>4, Types DEF EndQuery, Passed, CoverInv
  <2>. QED
    BY <1>4, <2>1, CoveredSame DEF EndQuery, CoverInv
<1>. QED
  BY <1>1, <1>2, <1>3, <1>4 DEF Next

\* The empty result covers nothing, and nothing is passed.
LEMMA InitCovered == Init => Covered
<1>. SUFFICES ASSUME Init PROVE Covered
  OBVIOUS
<1>1. wrs = <<>> /\ Len(wrs) = 0 /\ Passed = 0
  BY DEF Init, Passed
<1>2. Wholes = <<>>
  <2>. DEFINE keep == {k \in 1..Len(wrs) : \A j \in 1..Len(wrs) : ~Inside(wrs[k], wrs[j])}
  <2>1. wrs \in Seq(IntRanges)
    BY <1>1
  <2>2. Wholes = Selected(wrs, keep)
    BY DEF Wholes
  <2>. HIDE DEF keep
  <2>3. /\ Wholes \in Seq(IntRanges)
        /\ \A j \in 1..Len(Wholes) : \E k \in 1..Len(wrs) : k \in keep /\ Wholes[j] = wrs[k]
    BY <2>1, <2>2, SelectedMembers
  <2>4. Len(Wholes) \in Nat /\ ~(1 \in 1..Len(Wholes))
    BY <1>1, <2>3, RangeEnds
  <2>. QED
    BY <2>3, <2>4, RangeEnds
<1>. QED
  BY <1>1, <1>2 DEF Covered, Tiles, AddedBefore

\* QuerySegment loses no word: the words that are inside no other tile the sentence
\* up to the range that comes next, and what it adds are dictionary words of two or
\* three runes that come right before the word they are inside of.
THEOREM QueryLosesNothing == Spec => []QueryCovers
<1>1. Init => CoverInv
  BY InitIInv, InitCovered DEF CoverInv
<1>2. CoverInv /\ [Next]_vars => CoverInv'
  <2>. SUFFICES ASSUME CoverInv, [Next]_vars PROVE CoverInv'
    OBVIOUS
  <2>1. IInv'
    BY NextIInv DEF CoverInv
  <2>2. CASE UNCHANGED vars
    <3>1. Passed' = Passed
      BY <2>2 DEF vars, Passed, Start
    <3>. QED
      BY <2>1, <2>2, <3>1, CoveredSame DEF vars, CoverInv
  <2>3. CASE ~query
    <3>1. query' = query
      BY DEF Next, vars, NextRange, KeepWord, CutSequence, EndMix, QueryWord, EndQuery
    <3>. QED
      BY <2>1, <2>3, <3>1 DEF CoverInv, Covered
  <2>4. CASE query /\ QueryWord
    BY <2>1, <2>4, QueryWordCovered DEF CoverInv
  <2>5. CASE query /\ Next /\ ~QueryWord
    BY <2>1, <2>5, MixCovered DEF CoverInv
  <2>. QED
    BY <2>2, <2>3, <2>4, <2>5
<1>3. CoverInv => QueryCovers
  <2>. SUFFICES ASSUME CoverInv, query, pc = "next" PROVE QueryCovers
    BY DEF QueryCovers
  <2>1. Passed = cursor
    BY DEF Passed
  <2>. QED
    BY <2>1 DEF CoverInv, Covered, AddedBefore, QueryCovers
<1>. QED
  BY <1>1, <1>2, <1>3, PTL DEF Spec
=============================================================================
