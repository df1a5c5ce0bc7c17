----------------------------- MODULE MPSegment ------------------------------
(***************************************************************************)
(* The maximum probability cut, MPSegment::Cut of jiaba/MPSegment.hpp, of  *)
(* one stretch of runes: DictTrie::Find collects per position the          *)
(* dictionary words that begin there, CalcDP walks backwards and picks the *)
(* best continuation per position, CutByDag walks forwards along the       *)
(* picks.  Each iteration of the two loops is an action.                   *)
(*                                                                         *)
(* The logarithm of a probability is an integer here, -infinity (of a user *)
(* word of frequency 0) an integer below MinDouble.                        *)
(***************************************************************************)
EXTENDS Tiling

CONSTANTS
  Texts,          \* the stretches of runes to cut
  Dictionaries,   \* functions from words to weights
  MaxWordLen,     \* MAX_WORD_LENGTH
  MinDouble,      \* MIN_DOUBLE
  NoInfo          \* a null DictUnit pointer

ASSUME TextAssumption == Texts \subseteq Seq(STRING)

ASSUME WeightAssumption ==
  /\ MaxWordLen \in Nat \ {0}
  /\ MinDouble \in Int /\ MinDouble < 0
  /\ NoInfo \notin Nat
  /\ \A d \in Dictionaries :
       /\ DOMAIN d \subseteq Seq(STRING) \ {<<>>}
       /\ \A w \in DOMAIN d : d[w] \in Int

VARIABLES
  dict,    \* the words of the trie and their weights
  runes,   \* [begin, end)
  pInfo,   \* dags[i].pInfo: the end of the word picked at i
  weight,  \* dags[i].weight
  rit,     \* dags from here on are done
  i,       \* the cursor of CutByDag
  words    \* the result

vars == <<dict, runes, pInfo, weight, rit, i, words>>

-----------------------------------------------------------------------------
n == Len(runes)

\* the runes at positions from..to, counted from 0
Piece(from, to) == SubSeq(runes, from + 1, to + 1)

\* dags[k].nexts of DictTrie::Find: the rune itself, word or not, and every
\* longer dictionary word that begins there
Nexts(k) == {j \in k..n-1 : j = k \/ (j - k + 1 <= MaxWordLen
                                       /\ Piece(k, j) \in DOMAIN dict)}

\* A rune that is no word comes with a default DictUnit: no word, weight 0.0.
UnitWeight(k, j) == IF Piece(k, j) \in DOMAIN dict THEN dict[Piece(k, j)] ELSE 0

\* Faulty: the weight of what follows is left out.
ValueGreedy(k, j) == UnitWeight(k, j)

\* val of CalcDP; MIN_DOUBLE absorbs any finite weight that is added to it
Value(k, j) ==
  IF j + 1 = n THEN UnitWeight(k, j)
  ELSE IF weight[j + 1] = MinDouble /\ UnitWeight(k, j) > MinDouble
       THEN MinDouble
       ELSE UnitWeight(k, j) + weight[j + 1]

-----------------------------------------------------------------------------
\* DictTrie::Find has filled the dags; CalcDP starts at the last one.
Init ==
  /\ dict \in Dictionaries
  /\ runes \in Texts
  /\ pInfo = [k \in 0..n-1 |-> NoInfo]
  /\ weight = [k \in 0..n-1 |-> 0]
  /\ rit = n
  /\ i = 0
  /\ words = <<>>

\* the unit picked at k is a word of the dictionary: p && p->word.size() > 0
Picked(k) == pInfo[k] # NoInfo /\ Piece(k, pInfo[k]) \in DOMAIN dict

\* CalcDP: one dag; of equally good continuations the first, the shortest word
CalcDP ==
  /\ rit > 0
  /\ LET k    == rit - 1
         good == {j \in Nexts(k) : Value(k, j) > MinDouble}
         best == {j \in good : \A m \in good : Value(k, j) >= Value(k, m)}
     IN IF good = {}
        THEN /\ weight' = [weight EXCEPT ![k] = MinDouble]
             /\ UNCHANGED pInfo
        ELSE \E j \in best :
               /\ \A m \in best : j <= m
               /\ pInfo' = [pInfo EXCEPT ![k] = j]
               /\ weight' = [weight EXCEPT ![k] = Value(k, j)]
  /\ rit' = rit - 1
  /\ UNCHANGED <<dict, runes, i, words>>

\* Faulty: the cursor moves by one rune whatever the word.
CutWordByOne ==
  /\ rit = 0 /\ i < n
  /\ Picked(i)
  /\ words' = Append(words, WordRange(i, pInfo[i]))
  /\ i' = i + 1
  /\ UNCHANGED <<dict, runes, pInfo, weight, rit>>

\* Faulty: the cursor ends up one past the word's end.
CutWordTooFar ==
  /\ rit = 0 /\ i < n
  /\ Picked(i)
  /\ words' = Append(words, WordRange(i, pInfo[i]))
  /\ i' = pInfo[i] + 2
  /\ UNCHANGED <<dict, runes, pInfo, weight, rit>>

\* CutByDag: a word
CutWord ==
  /\ rit = 0 /\ i < n
  /\ Picked(i)
  /\ words' = Append(words, WordRange(i, pInfo[i]))
  /\ i' = pInfo[i] + 1
  /\ UNCHANGED <<dict, runes, pInfo, weight, rit>>

\* CutByDag: a rune by itself
CutRune ==
  /\ rit = 0 /\ i < n
  /\ ~Picked(i)
  /\ words' = Append(words, WordRange(i, i))
  /\ i' = i + 1
  /\ UNCHANGED <<dict, runes, pInfo, weight, rit>>

Next == CalcDP \/ CutWord \/ CutRune

Spec == Init /\ [][Next]_vars

-----------------------------------------------------------------------------
Done == rit = 0 /\ i = n

\* Every variable stays in its domain.
TypeOK ==
  /\ dict \in Dictionaries /\ runes \in Texts
  /\ pInfo \in [0..n-1 -> 0..n-1 \cup {NoInfo}]
  /\ weight \in [0..n-1 -> Int]
  /\ rit \in 0..n /\ i \in 0..n
  /\ words \in Seq(Ranges(n))

\* The words found so far cut the runes passed so far: no rune is lost, none is
\* taken twice, whatever the dictionary holds.  A word of two or more runes is a
\* dictionary word, on which MixSegment relies when it keeps it as it is.
WordsTile ==
  /\ Tiles(words, 0, i)
  /\ \A k \in 1..Len(words) : words[k].left < words[k].right =>
       Piece(words[k].left, words[k].right) \in DOMAIN dict

Cutter == INSTANCE WordCutter WITH length <- n, front <- i, returned <- Done

\* The cut does what SentenceCut relies on: it goes word by word through the text
\* and returns at its end.
CutsWords == Cutter!Spec

\* the cuts of the whole text that the dictionary allows
Cuts == {ws \in Tilings(0, n) : \A k \in 1..Len(ws) : ws[k].right \in Nexts(ws[k].left)}

\* the weight of the words of a cut, a rune that is no word weighing unknown
CutWeight(ws, unknown) ==
  LET sum[k \in 0..Len(ws)] ==
        IF k = 0 THEN 0
        ELSE LET p == Piece(ws[k].left, ws[k].right)
             IN  sum[k-1] + (IF p \in DOMAIN dict THEN dict[p] ELSE unknown)
  IN  sum[Len(ws)]

\* No allowed cut weighs more than the one returned, as the code weighs them.
Optimal ==
  Done => \A ws \in Cuts : CutWeight(ws, 0) > MinDouble =>
            CutWeight(words, 0) >= CutWeight(ws, 0)

\* What Optimal needs of the weights, as the logarithms of a dictionary have it: a
\* finite one is so small that a text's sum of them stays above MIN_DOUBLE, and one
\* of -infinity brings any sum below it.
SumsFit(maxWeight) ==
  /\ maxWeight \in Nat
  /\ \A t \in Texts : Len(t) * maxWeight < -MinDouble
  /\ \A d \in Dictionaries : \A w \in DOMAIN d :
       d[w] \in -maxWeight..maxWeight \/ d[w] <= 2 * MinDouble

\* GetMinWeight(): the least weight in the dictionary
MinWeight == CHOOSE m \in {dict[w] : w \in DOMAIN dict} :
               \A w \in DOMAIN dict : m <= dict[w]

\* The same when a rune that is no word weighs GetMinWeight(), as CalcDP says.
MaxProbability ==
  Done /\ DOMAIN dict # {} =>
    \A ws \in Cuts : CutWeight(words, MinWeight) >= CutWeight(ws, MinWeight)
=============================================================================
