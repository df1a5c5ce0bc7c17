---------------------------- MODULE FullSegment -----------------------------
(***************************************************************************)
(* The full cut, jiaba/FullSegment.hpp, of one stretch of runes: all words *)
(* of the dictionary in it, as found by the trie that DictTrie has built.  *)
(***************************************************************************)
EXTENDS DictTrie, Tiling

CONSTANT Texts   \* the stretches of runes to cut

ASSUME TextAssumption == Texts \subseteq Seq(STRING) /\ MaxWordLen \in Nat

\* nexts of the dag at k, from the shortest word to the longest
NextsInOrder(t, k) ==
  Selected([m \in 1..Len(t) |-> m - 1], {m \in 1..Len(t) : m - 1 \in FindDags(t, k)})

\* du->word.size(): of a rune that is no word 0
UnitLength(t, k, m) ==
  IF FindWord(SubSeq(t, k + 1, m + 1)) = 0 THEN 0 ELSE m - k + 1

\* Faulty: a rune right after the last word is left out.
RuneAloneStrict(maxIdx, k) == maxIdx < k

\* maxIdx <= uIdx: no word pushed so far reaches the rune
RuneAlone(maxIdx, k) == maxIdx <= k

\* Cut: the words of two runes or more, and the runes in no word
FullCut(t) ==
  LET cut[k \in 0..Len(t)] ==
        IF k = 0 THEN [res |-> <<>>, maxIdx |-> 0]
        ELSE LET u     == k - 1
                 nexts == NextsInOrder(t, u)
                 alone == Len(nexts) = 1 /\ RuneAlone(cut[u].maxIdx, u)
                 ends  == Selected(nexts, {j \in 1..Len(nexts) :
                                             alone \/ UnitLength(t, u, nexts[j]) >= 2})
                 reach == {cut[u].maxIdx}
                            \cup {u + UnitLength(t, u, nexts[j]) : j \in 1..Len(nexts)}
             IN  [res    |-> cut[u].res \o [j \in 1..Len(ends) |-> WordRange(u, ends[j])],
                  maxIdx |-> CHOOSE r \in reach : \A q \in reach : q <= r]
  IN  cut[Len(t)].res

-----------------------------------------------------------------------------
\* the words of the files
Known == {units[k].word : k \in 1..Len(units)} \ {<<>>}

\* What the trie finds is what is in the files: a word's unit is that of its last
\* line, and from each position on the words up to MAX_WORD_LENGTH and the rune.
FindAgrees ==
  Done =>
    /\ \A k \in 1..Len(units) : units[k].word # <<>> =>
         /\ FindWord(units[k].word) >= k
         /\ units[FindWord(units[k].word)].word = units[k].word
    /\ \A t \in Texts : \A k \in 0..Len(t)-1 :
         FindDags(t, k) = {m \in k..Len(t)-1 : m = k \/
           (m - k + 1 <= MaxWordLen /\ SubSeq(t, k + 1, m + 1) \in Known)}

\* The full cut loses no rune and no word: each rune is in one of its ranges, it has
\* every word of two runes or more, and what else it has is a rune in no word.
FullCovers ==
  Done => \A t \in Texts :
    LET cut     == FullCut(t)
        res     == {cut[j] : j \in 1..Len(cut)}
        inWords == {w \in Ranges(Len(t)) : Length(w) \in 2..MaxWordLen
                      /\ SubSeq(t, w.left + 1, w.right + 1) \in Known}
    IN  /\ \A p \in 0..Len(t)-1 : \E w \in res : p \in w.left..w.right
        /\ inWords \subseteq res
        /\ \A w \in res \ inWords :
             w.left = w.right /\ \A v \in inWords : w.left \notin v.left..v.right
=============================================================================
