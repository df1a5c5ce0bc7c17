---------------------------- MODULE SentenceCut -----------------------------
(***************************************************************************)
(* The cut of a whole sentence: PreFilter splits it at the separators,     *)
(* MixSegment::Cut joins the dictionary cut (MPSegment) and the cut by     *)
(* probability (HMMSegment), QuerySegment::Cut adds the short words found  *)
(* inside long ones.  Each iteration of the loops is an action.            *)
(*                                                                         *)
(* Of the two cuts only what they promise is used here: each tiles its     *)
(* stretch, and MPSegment makes a word of several runes only of a          *)
(* dictionary word.  MPSegment and HMMSegment are modules of their own.    *)
(***************************************************************************)
EXTENDS Tiling, Functions

CONSTANTS
  Sentences,   \* the sentences to cut, as runes
  Separators,  \* SPECIAL_SEPARATORS
  Lexicons     \* sets of words

ASSUME SentenceAssumption == \A s \in Sentences : s \in Seq(STRING)

VARIABLES
  runes,    \* the decoded sentence
  dict,     \* the words of the trie
  singles,  \* the user dictionary's words of one rune
  query,    \* QuerySegment, not MixSegment
  cursor,   \* of the PreFilter
  pc,       \* "next", or inside a range: "mix", then "query"
  words,    \* MPSegment's words of the range
  i,        \* the index into words
  mixRes,   \* QuerySegment: MixSegment's words of the range
  m,        \* the index into mixRes
  wrs       \* the result

vars == <<runes, dict, singles, query, cursor, pc, words, i, mixRes, m, wrs>>

n == Len(runes)
Rune(k) == runes[k + 1]
Piece(w) == SubSeq(runes, w.left + 1, w.right + 1)

\* ResetSeparators: up to the first separator that is there twice
Symbols ==
  {Separators[k] : k \in {k \in 1..Len(Separators) : IsInjective(SubSeq(Separators, 1, k - 1))}}

-----------------------------------------------------------------------------
(* What the two cuts return.                                               *)

MPCuts(from, to) ==
  {ws \in Tilings(from, to) : \A k \in 1..Len(ws) :
     ws[k].left = ws[k].right \/ Piece(ws[k]) \in dict}

HMMCuts(from, to) == Tilings(from, to)

-----------------------------------------------------------------------------
Init ==
  /\ runes \in Sentences
  /\ dict \in Lexicons
  /\ singles \in SUBSET {r \in {runes[k] : k \in 1..n} : <<r>> \in dict}
  /\ query \in BOOLEAN
  /\ cursor = 0
  /\ pc = "next"
  /\ words = <<>> /\ i = 1
  /\ mixRes = <<>> /\ m = 1
  /\ wrs = <<>>

\* Faulty: the separator becomes part of the range before it.
RangeEndAfter(from) ==
  CHOOSE e \in from+1..n :
    /\ \A k \in from+1..e-2 : Rune(k) \notin Symbols
    /\ e = n \/ Rune(e - 1) \in Symbols

\* PreFilter::Next: up to the next separator; a separator is a range by itself
RangeEnd(from) ==
  IF Rune(from) \in Symbols THEN from + 1
  ELSE CHOOSE e \in from+1..n : /\ \A k \in from..e-1 : Rune(k) \notin Symbols
                                /\ e = n \/ Rune(e) \in Symbols

\* the next range, and its cut by MPSegment
NextRange ==
  /\ pc = "next" /\ cursor < n
  /\ words' \in MPCuts(cursor, RangeEnd(cursor))
  /\ cursor' = RangeEnd(cursor)
  /\ i' = 1
  /\ mixRes' = <<>> /\ m' = 1
  /\ pc' = "mix"
  /\ UNCHANGED <<runes, dict, singles, query, wrs>>

Push(ws) ==
  IF query THEN mixRes' = mixRes \o ws /\ UNCHANGED wrs
           ELSE wrs' = wrs \o ws /\ UNCHANGED mixRes

\* Faulty: every word of one rune goes to HMMSegment.
KeptLong(w) == w.left # w.right

\* MPSegment got a word
Kept(w) == w.left # w.right \/ Rune(w.left) \in singles

KeepWord ==
  /\ pc = "mix" /\ i <= Len(words)
  /\ Kept(words[i])
  /\ Push(<<words[i]>>)
  /\ i' = i + 1
  /\ UNCHANGED <<runes, dict, singles, query, cursor, pc, words, m>>

\* the sequence of single runes words[i]..words[j-1]
SequenceEnd(j) ==
  /\ i < j
  /\ \A k \in i..j-1 : ~Kept(words[k])
  /\ j <= Len(words) => Kept(words[j])

\* Faulty: i is left at j, and the loop adds one to it.
CutSequenceSkip ==
  /\ pc = "mix" /\ i <= Len(words)
  /\ \E j \in i+1..Len(words)+1 :
       /\ SequenceEnd(j)
       /\ \E ws \in HMMCuts(words[i].left, words[j-1].left + 1) : Push(ws)
       /\ i' = j + 1
  /\ UNCHANGED <<runes, dict, singles, query, cursor, pc, words, m>>

\* the sequence is cut by HMMSegment
CutSequence ==
  /\ pc = "mix" /\ i <= Len(words)
  /\ \E j \in i+1..Len(words)+1 :
       /\ SequenceEnd(j)
       /\ \E ws \in HMMCuts(words[i].left, words[j-1].left + 1) : Push(ws)
       /\ i' = j
  /\ UNCHANGED <<runes, dict, singles, query, cursor, pc, words, m>>

EndMix ==
  /\ pc = "mix" /\ i > Len(words)
  /\ pc' = IF query THEN "query" ELSE "next"
  /\ UNCHANGED <<runes, dict, singles, query, cursor, words, i, mixRes, m, wrs>>

\* Faulty: words as long as the whole are added, too.
SubwordsAll(w, len) ==
  LET sub(k) == WordRange(w.left + k, w.left + k + len - 1)
      all    == [k \in 1..Length(w)-len+1 |-> sub(k - 1)]
  IN  IF Length(w) >= len THEN Selected(all, {k \in DOMAIN all : Piece(all[k]) \in dict})
                          ELSE <<>>

\* the dictionary words of len runes inside a longer word, from left to right
Subwords(w, len) ==
  LET sub(k) == WordRange(w.left + k, w.left + k + len - 1)
      all    == [k \in 1..Length(w)-len+1 |-> sub(k - 1)]
  IN  IF Length(w) > len THEN Selected(all, {k \in DOMAIN all : Piece(all[k]) \in dict})
                         ELSE <<>>

\* Faulty: the index is advanced only past words that are in the dictionary.
QueryWordStuck ==
  /\ pc = "query" /\ m <= Len(mixRes)
  /\ Piece(mixRes[m]) \in dict
  /\ wrs' = wrs \o Subwords(mixRes[m], 2) \o Subwords(mixRes[m], 3) \o <<mixRes[m]>>
  /\ m' = m + 1
  /\ UNCHANGED <<runes, dict, singles, query, cursor, pc, words, i, mixRes>>

\* QuerySegment: one word of MixSegment's
QueryWord ==
  /\ pc = "query" /\ m <= Len(mixRes)
  /\ LET w == mixRes[m]
     IN  wrs' = wrs \o Subwords(w, 2) \o Subwords(w, 3) \o <<w>>
  /\ m' = m + 1
  /\ UNCHANGED <<runes, dict, singles, query, cursor, pc, words, i, mixRes>>

EndQuery ==
  /\ pc = "query" /\ m > Len(mixRes)
  /\ pc' = "next"
  /\ UNCHANGED <<runes, dict, singles, query, cursor, words, i, mixRes, m, wrs>>

Next ==
  NextRange \/ KeepWord \/ CutSequence \/ EndMix \/ QueryWord \/ EndQuery

Spec == Init /\ [][Next]_vars

FairSpec == Spec /\ WF_vars(Next)

-----------------------------------------------------------------------------
Done == pc = "next" /\ cursor = n

\* Every variable stays in its domain.
TypeOK ==
  /\ runes \in Sentences /\ dict \in Lexicons /\ query \in BOOLEAN
  /\ singles \subseteq {runes[k] : k \in 1..n}
  /\ cursor \in 0..n
  /\ pc \in {"next", "mix", "query"}
  /\ words \in Seq(Ranges(n)) /\ i \in 1..Len(words)+1
  /\ mixRes \in Seq(Ranges(n)) /\ m \in 1..Len(mixRes)+1
  /\ wrs \in Seq(Ranges(n))

\* where MixSegment's words end so far
Front ==
  IF pc = "mix" /\ i <= Len(words) THEN words[i].left ELSE cursor

\* MixSegment's words, of all ranges passed so far, tile the sentence.
MixTiles == ~query => Tiles(wrs, 0, Front)

Inside(v, w) == v # w /\ w.left <= v.left /\ v.right <= w.right

\* the words of the result that are inside no other
Wholes ==
  Selected(wrs, {k \in 1..Len(wrs) : \A j \in 1..Len(wrs) : ~Inside(wrs[k], wrs[j])})

\* QuerySegment adds words, it loses none: leaving out the words inside others, the
\* rest tiles the sentence.  What it adds are dictionary words of two or three
\* runes, and they come right before the word they are inside of.
QueryCovers ==
  query /\ pc = "next" =>
    /\ Tiles(Wholes, 0, cursor)
    /\ \A k \in 1..Len(wrs) : (\E w \in 1..Len(wrs) : Inside(wrs[k], wrs[w])) =>
         /\ Piece(wrs[k]) \in dict
         /\ Length(wrs[k]) \in {2, 3}
         /\ k < Len(wrs) /\ \E w \in k+1..Len(wrs) :
              \A v \in k..w-1 : Inside(wrs[v], wrs[w])

\* A separator is never part of a longer word, whatever the dictionary says.
SeparatorsAlone ==
  \A k \in 1..Len(wrs) : \A p \in wrs[k].left..wrs[k].right :
    Rune(p) \in Symbols => Length(wrs[k]) = 1

\* "if mp Get a word, it's ok, put it into result": no word of several runes and
\* no one-rune word of the user dictionary that MPSegment found is cut or joined.
FoundWordsStay ==
  pc # "next" => \A k \in 1..i-1 :
    words[k].left # words[k].right \/ Rune(words[k].left) \in singles =>
      \E p \in 1..Len(mixRes \o wrs) : (mixRes \o wrs)[p] = words[k]

\* The cut comes to an end.
Terminates == <>Done
=============================================================================
