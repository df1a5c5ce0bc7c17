------------------------------ MODULE Lexicon -------------------------------
(***************************************************************************)
(* What the dictionary promises to those who look words up: the words are  *)
(* collected in the order of the files, then taken one by one, and for     *)
(* each word the last one counts.  DictTrie implements it.                 *)
(***************************************************************************)
EXTENDS Integers, Sequences

VARIABLES
  words,   \* the words in the order of the files, <<>> for those without runes
  taken,   \* how many of them can be looked up
  lex      \* pairs of a word and its place in words

Init == words = <<>> /\ taken = 0 /\ lex = {}

Collect ==
  /\ taken = 0 /\ taken' = taken
  /\ Len(words') >= Len(words) /\ SubSeq(words', 1, Len(words)) = words
  /\ lex' = lex

Take ==
  /\ taken < Len(words)
  /\ taken' = taken + 1
  /\ LET w == words[taken + 1]
     IN  lex' = IF w = <<>> THEN lex ELSE {p \in lex : p[1] # w} \cup {<<w, taken + 1>>}
  /\ words' = words

Spec == Init /\ [][Collect \/ Take]_<<words, taken, lex>>

\* Looking a word up gives the last of its places among those taken.
LastWins ==
  lex = {<<words[k], k>> : k \in {k \in 1..taken :
           words[k] # <<>> /\ \A m \in k+1..taken : words[m] # words[k]}}
=============================================================================
