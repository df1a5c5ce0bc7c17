------------------------------ MODULE DictTrie ------------------------------
(***************************************************************************)
(* The dictionary of the process that builds it, jiaba/DictTrie.hpp: the   *)
(* main dictionary line by line, its weights, the user dictionary line by  *)
(* line, then the trie.  assert() is in force, as CMakeLists.txt leaves    *)
(* it; JiebaShare has both kinds of builds.                                *)
(*                                                                         *)
(* log(f / freq_sum_) is f - freq_sum_ here: it has the same sign and      *)
(* orders frequencies in the same way.                                     *)
(***************************************************************************)
EXTENDS Trie

CONSTANTS
  DictFiles,   \* the main dictionaries: sequences of lines
  UserFiles,   \* the user dictionaries
  BadUtf8,     \* a word that cannot be decoded
  MaxDouble, MinDouble,   \* MAX_DOUBLE, MIN_DOUBLE
  MinusInf                \* log(0)

\* a line: its columns, and what the first three are as word, frequency and tag
Line == [columns: Nat, word: Seq(STRING) \cup {BadUtf8}, freq: Int, tag: STRING]

ASSUME DictAssumption ==
  /\ DictFiles \subseteq Seq(Line) /\ UserFiles \subseteq Seq(Line)
  /\ MaxDouble \in Int /\ MinDouble \in Int /\ MinusInf \in Int

VARIABLES
  dictFile, userFile,
  pc,      \* "dict", "weights", "user", "trie" or "aborted"
  line,
  freq_sum_, min_weight_, max_weight_, median_weight_,
  user_dict_single_chinese_word_

fileVars == <<dictFile, userFile>>
weightVars == <<freq_sum_, min_weight_, max_weight_, median_weight_>>
vars == <<units, trieVars, fileVars, pc, line, weightVars, user_dict_single_chinese_word_>>

Log(freq) == IF freq = 0 THEN MinusInf ELSE freq - freq_sum_

\* MakeNodeInfo of a new DictUnit, which has no runes and weight 0.0
NodeInfo(w, weight, tag) ==
  IF w = BadUtf8 THEN [word |-> <<>>, weight |-> 0, tag |-> ""]
                 ELSE [word |-> w, weight |-> weight, tag |-> tag]

Init ==
  /\ dictFile \in DictFiles /\ userFile \in UserFiles
  /\ pc = "dict" /\ line = 1
  /\ units = <<>>
  /\ freq_sum_ = 0 /\ min_weight_ = 0 /\ max_weight_ = 0 /\ median_weight_ = 0
  /\ user_dict_single_chinese_word_ = {}
  /\ TrieInit

\* LoadDict: one line
LoadDict ==
  /\ pc = "dict" /\ line <= Len(dictFile)
  /\ LET buf == dictFile[line]
     IN  IF buf.columns # 3 THEN pc' = "aborted" /\ UNCHANGED <<units, line>>
         ELSE /\ units' = Append(units, NodeInfo(buf.word, buf.freq, buf.tag))
              /\ line' = line + 1
              /\ UNCHANGED pc
  /\ UNCHANGED <<fileVars, trieVars, weightVars, user_dict_single_chinese_word_>>

Weights == [k \in 1..Len(units) |-> units[k].weight]

\* CalcFreqSum
Sum(ws) ==
  LET sum[k \in 0..Len(ws)] == IF k = 0 THEN 0 ELSE sum[k - 1] + ws[k]
  IN  sum[Len(ws)]

\* CalculateWeight
CalculateWeight ==
  /\ pc = "dict" /\ line > Len(dictFile)
  /\ freq_sum_' = Sum(Weights)
  /\ IF freq_sum_' <= 0 \/ \E k \in 1..Len(units) : units[k].weight <= 0
     THEN pc' = "aborted" /\ UNCHANGED units
     ELSE /\ units' = [k \in 1..Len(units) |-> [units[k] EXCEPT !.weight = @ - freq_sum_']]
          /\ pc' = "weights"
  /\ UNCHANGED <<fileVars, trieVars, line, min_weight_, max_weight_, median_weight_,
                 user_dict_single_chinese_word_>>

\* SetStaticWordWeights: what is a new maximum is not looked at as a minimum
Extremes ==
  LET seen[k \in 0..Len(units)] ==
        IF k = 0 THEN [min |-> MaxDouble, max |-> MinDouble]
        ELSE LET w == units[k].weight
             IN  IF w > seen[k - 1].max THEN [seen[k - 1] EXCEPT !.max = w]
                 ELSE IF w < seen[k - 1].min THEN [seen[k - 1] EXCEPT !.min = w]
                 ELSE seen[k - 1]
  IN  seen[Len(units)]

\* Faulty: the sum is not divided.
MeanUndivided == Sum(Weights)

\* median_weight_
Mean == Sum(Weights) \div Len(units)

SetStaticWordWeights ==
  /\ pc = "weights"
  /\ min_weight_' = Extremes.min
  /\ max_weight_' = Extremes.max
  /\ median_weight_' = Mean
  /\ pc' = "user" /\ line' = 1
  /\ UNCHANGED <<units, fileVars, trieVars, freq_sum_, user_dict_single_chinese_word_>>

\* InserUserDictNode; an empty line or one of more than three columns is skipped
LoadUserDict ==
  /\ pc = "user" /\ line <= Len(userFile)
  /\ LET buf  == userFile[line]
         unit == NodeInfo(buf.word, IF buf.columns = 3 THEN Log(buf.freq) ELSE median_weight_,
                          IF buf.columns = 1 THEN "" ELSE buf.tag)
     IN  IF buf.columns \notin 1..3 THEN UNCHANGED <<units, user_dict_single_chinese_word_>>
         ELSE /\ units' = Append(units, unit)
              /\ user_dict_single_chinese_word_' = user_dict_single_chinese_word_
                   \cup IF Len(unit.word) = 1 THEN {unit.word[1]} ELSE {}
  /\ line' = line + 1
  /\ UNCHANGED <<fileVars, trieVars, pc, weightVars>>

\* Init: the units are saved (JiebaShare), the trie is made from them
MakeTrie ==
  /\ pc = "user" /\ line > Len(userFile)
  /\ pc' = "trie"
  /\ CreateTrie
  /\ UNCHANGED <<units, fileVars, line, weightVars, user_dict_single_chinese_word_>>

Insert ==
  /\ pc = "trie"
  /\ InsertKey \/ EndInsert
  /\ UNCHANGED <<fileVars, pc, line, weightVars, user_dict_single_chinese_word_>>

Next ==
  LoadDict \/ CalculateWeight \/ SetStaticWordWeights \/ LoadUserDict \/ MakeTrie \/ Insert

Spec == Init /\ [][Next]_vars

-----------------------------------------------------------------------------
Done == pc = "trie" /\ i > Len(units)

\* A user word without a frequency weighs no less than the rarest word of the main
\* dictionary and no more than its most frequent one; of two words of the main
\* dictionary, if a float tells their frequencies apart, the more frequent weighs more;
\* and none weighs more than 0.
WeightsSound ==
  pc \in {"user", "trie"} =>
    LET main == 1..Len(dictFile)
    IN  /\ \E a, b \in main : units[a].weight <= median_weight_
                                /\ median_weight_ <= units[b].weight
        /\ \A a, b \in main : dictFile[a].freq < dictFile[b].freq
                                => units[a].weight < units[b].weight
        /\ \A a \in main : units[a].weight <= 0 /\ units[a].weight <= max_weight_
=============================================================================
