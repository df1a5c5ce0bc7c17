------------------------------ MODULE KeyWords ------------------------------
(***************************************************************************)
(* The key words of a sentence, jiaba/KeywordExtractor.hpp (TF-IDF) and    *)
(* jiaba/TextRankExtractor.hpp, from the words of MixSegment's cut of it.  *)
(* Both add up the sizes of the words to know where in the sentence, in    *)
(* bytes, they are.  Ranks are not modelled: only the graph they are       *)
(* computed from, which is that of the words near each other.              *)
(***************************************************************************)
EXTENDS SentenceCut, FiniteSets

CONSTANTS
  StopWords,   \* stopWords_
  Span,        \* the width of TextRank's window
  Width        \* the bytes of a rune

ASSUME KeyWordAssumption ==
  /\ Span \in Nat
  /\ \A s \in Sentences : \A k \in 1..Len(s) : Width[s[k]] \in Nat

\* segment_.Cut(sentence, words)
Cut == [k \in 1..Len(wrs) |-> Piece(wrs[k])]

Bytes(w) ==
  LET sum[k \in 0..Len(w)] == IF k = 0 THEN 0 ELSE sum[k - 1] + Width[w[k]]
  IN  sum[Len(w)]

\* the words that are passed over: of one rune, and stop words
Skipped(w) == Len(w) = 1 \/ w \in StopWords

\* Faulty: words passed over are not counted.
OffsetKept ==
  LET offset[k \in 0..Len(Cut)] ==
        IF k = 0 THEN 0 ELSE offset[k - 1] + IF Skipped(Cut[k]) THEN 0 ELSE Bytes(Cut[k])
  IN  offset

\* offset, after k words
Offset ==
  LET offset[k \in 0..Len(Cut)] == IF k = 0 THEN 0 ELSE offset[k - 1] + Bytes(Cut[k])
  IN  offset

\* Extract returns what it was given unless the words make up the sentence
Extracts == Offset[Len(Cut)] = Bytes(runes)

\* wordmap: the offsets of each word; KeywordExtractor weighs it by their number
WordMap ==
  [w \in {v \in {Cut[k] : k \in 1..Len(Cut)} : ~Skipped(v)} |->
     LET at == Selected([k \in 1..Len(Cut) |-> k], {k \in 1..Len(Cut) : Cut[k] = w})
     IN  [p \in 1..Len(at) |-> Offset[at[p] - 1]]]

\* Faulty: words passed over count.
SkipsNone(k, j) == 0

\* skip, when the inner loop of TextRankExtractor::Extract has come to j
Skips(k, j) == Cardinality({x \in k+1..j-1 : Skipped(Cut[x])})

\* the pairs of places that Extract calls addEdge for
Pairs ==
  {e \in (1..Len(Cut)) \X (1..Len(Cut)) :
     /\ ~Skipped(Cut[e[1]]) /\ ~Skipped(Cut[e[2]])
     /\ e[1] < e[2] /\ e[2] < e[1] + Span + Skips(e[1], e[2])}

\* WordGraph::addEdge, graph[v][w]: both directions, a loop twice
Edge(v, w) ==
  Cardinality({e \in Pairs : Cut[e[1]] = v /\ Cut[e[2]] = w})
    + Cardinality({e \in Pairs : Cut[e[1]] = w /\ Cut[e[2]] = v})

-----------------------------------------------------------------------------
Extracting == Done /\ ~query

\* Adding up the words' sizes gives the place of each of them in the sentence: what
\* a key word's offsets say is where its runes are, all of its places are there, and
\* in the end the whole sentence has been passed, so that Extract does not return.
\* This is about sentences that decode: of another there are no words, and it does.
OffsetsRight ==
  Extracting =>
    /\ Extracts
    /\ \A w \in DOMAIN WordMap : \A k \in 1..Len(wrs) : Cut[k] = w =>
         \E p \in 1..Len(WordMap[w]) :
           WordMap[w][p] = Bytes(SubSeq(runes, 1, wrs[k].left))
    /\ \A w \in DOMAIN WordMap : \A p \in 1..Len(WordMap[w]) :
         \E from \in 0..n-Len(w) :
           /\ Bytes(SubSeq(runes, 1, from)) = WordMap[w][p]
           /\ SubSeq(runes, from + 1, from + Len(w)) = w

\* the cut without the words passed over
Remaining == Selected(Cut, {k \in 1..Len(Cut) : ~Skipped(Cut[k])})

\* Words passed over do not narrow the window: two words are joined as often as
\* they are less than Span apart when all others are left out of the sentence.
WindowRight ==
  Extracting =>
    \A v, w \in {Remaining[k] : k \in 1..Len(Remaining)} :
      Edge(v, w) =
        LET near(a, b) == {e \in (1..Len(Remaining)) \X (1..Len(Remaining)) :
                             /\ e[1] < e[2] /\ e[2] - e[1] < Span
                             /\ Remaining[e[1]] = a /\ Remaining[e[2]] = b}
        IN  Cardinality(near(v, w)) + Cardinality(near(w, v))
=============================================================================
