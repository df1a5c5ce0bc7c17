-------------------------------- MODULE Trie --------------------------------
(***************************************************************************)
(* The word index, jiaba/Trie.hpp: nodes in one vector, maps from runes to *)
(* nodes in another.  InsertNode walks down a word with a pointer into the *)
(* vector of nodes, which it lets grow on its way; each rune is a step.    *)
(*                                                                         *)
(* Indices count from 1 here, and 0 stands for -1.                         *)
(***************************************************************************)
EXTENDS Integers, Sequences

CONSTANT MaxWordLen   \* MAX_WORD_LENGTH

VARIABLES
  units,     \* the vector of SharedDictUnits: [word, weight, tag]
  i, key,    \* the unit being inserted, how many runes of it are done
  tnodes, nxtMaps,
  capacity,  \* of tnodes
  buffer,    \* the buffer tnodes is in: it changes when tnodes outgrows it
  ptNode     \* a TrieNode*: a buffer and the node in it

trieVars == <<i, key, tnodes, nxtMaps, capacity, buffer, ptNode>>

NewNode == [next |-> 0, ptValue |-> 0]

\* the constructor's root
TrieInit ==
  /\ i = 1 /\ key = 0
  /\ tnodes = <<NewNode>> /\ nxtMaps = <<>>
  /\ capacity = 1 /\ buffer = 1
  /\ ptNode = [buffer |-> 1, node |-> 1]

\* Faulty: the pointer is taken before the vector grows.
PointStale(node) == ptNode' = [buffer |-> buffer, node |-> node]

\* ptNode = &nextNode, once tnodes has grown
Point(node) == ptNode' = [buffer |-> buffer', node |-> node]

\* CreateTrie: reserve, then all units; InsertNode begins at the root
CreateTrie ==
  LET grows == 2 * Len(units) > capacity
  IN  /\ capacity' = IF grows THEN 2 * Len(units) ELSE capacity
      /\ buffer' = IF grows THEN buffer + 1 ELSE buffer
      /\ Point(1)
      /\ UNCHANGED <<i, key, tnodes, nxtMaps>>

word == units[i].word

\* the boost vector grows by 3/5, as far as needed at least
Grown(needed) ==
  LET more == (8 * capacity) \div 5 IN IF more >= needed THEN more ELSE needed

\* InsertNode: one rune of the word
InsertKey ==
  /\ i <= Len(units) /\ key < Len(word)
  /\ LET ky    == word[key + 1]
         next  == tnodes[ptNode.node].next
         maps  == IF next = 0 THEN Append(nxtMaps, <<>>) ELSE nxtMaps
         m     == IF next = 0 THEN Len(maps) ELSE next
         keys  == DOMAIN maps[m]
         last  == Len(tnodes) + 1
         grows == last > capacity
     IN  IF ky \in keys
         THEN /\ UNCHANGED <<tnodes, nxtMaps, capacity, buffer>>
              /\ Point(maps[m][ky])
         ELSE /\ nxtMaps' = [maps EXCEPT ![m] =
                   [r \in keys \cup {ky} |-> IF r = ky THEN last ELSE @[r]]]
              /\ tnodes' = Append([tnodes EXCEPT ![ptNode.node].next = m], NewNode)
              /\ capacity' = IF grows THEN Grown(last) ELSE capacity
              /\ buffer' = IF grows THEN buffer + 1 ELSE buffer
              /\ Point(last)
  /\ key' = key + 1
  /\ UNCHANGED <<units, i>>

\* Faulty: a word that is there keeps its first unit.
EndInsertFirst ==
  /\ i <= Len(units) /\ key = Len(word)
  /\ tnodes' = IF word = <<>> \/ tnodes[ptNode.node].ptValue # 0 THEN tnodes
               ELSE [tnodes EXCEPT ![ptNode.node].ptValue = i]
  /\ i' = i + 1 /\ key' = 0
  /\ UNCHANGED <<units, nxtMaps, capacity, buffer>>
  /\ Point(1)

\* InsertNode: the word's end, its unit; a unit without runes is left out
EndInsert ==
  /\ i <= Len(units) /\ key = Len(word)
  /\ tnodes' = IF word = <<>> THEN tnodes ELSE [tnodes EXCEPT ![ptNode.node].ptValue = i]
  /\ i' = i + 1 /\ key' = 0
  /\ UNCHANGED <<units, nxtMaps, capacity, buffer>>
  /\ Point(1)

-----------------------------------------------------------------------------
(* Looking up.                                                             *)

\* the node one rune below a node, 0 if there is none
Below(node, rune) ==
  IF node = 0 THEN 0
  ELSE LET next == tnodes[node].next
       IN  IF next # 0 /\ rune \in DOMAIN nxtMaps[next] THEN nxtMaps[next][rune] ELSE 0

\* the nodes along the runes of w, from the root on, 0 once there is none
Along(w) ==
  LET node[k \in 0..Len(w)] == IF k = 0 THEN 1 ELSE Below(node[k - 1], w[k]) IN node

\* Find(begin, end, du) of a word: its unit, 0 if there is none
FindWord(w) ==
  LET node == Along(w)[Len(w)]
  IN  IF w = <<>> \/ node = 0 THEN 0 ELSE tnodes[node].ptValue

\* Faulty: words that are no prefix of a longer one only.
FindDagsLong(t, k) ==
  LET node(m) == Along(SubSeq(t, k + 1, m + 1))[m - k + 1]
  IN  {m \in k..Len(t)-1 : m = k \/ (m - k + 1 <= MaxWordLen /\ node(m) # 0
                                       /\ tnodes[node(m)].next = 0)}

\* Find(begin, end, res, max_word_len): nexts of the dag at k, as positions from 0
FindDags(t, k) ==
  LET node(m) == Along(SubSeq(t, k + 1, m + 1))[m - k + 1]
  IN  {m \in k..Len(t)-1 : m = k \/ (m - k + 1 <= MaxWordLen /\ node(m) # 0
                                       /\ tnodes[node(m)].ptValue # 0)}

\* the words of the tree and their units; a node's number is above its parent's
Held ==
  LET below[node \in 1..Len(tnodes)] ==
        LET value == tnodes[node].ptValue
            next  == tnodes[node].next
        IN  (IF value = 0 THEN {} ELSE {<<<<>>, value>>})
              \cup IF next = 0 THEN {}
                   ELSE UNION {{<<<<r>> \o p[1], p[2]>> : p \in below[nxtMaps[next][r]]}
                                 : r \in DOMAIN nxtMaps[next]}
  IN  below[1]

-----------------------------------------------------------------------------
\* InsertNode never uses a pointer into a buffer that tnodes has outgrown.
PointerFresh == ptNode.buffer = buffer /\ ptNode.node <= Len(tnodes)

Lexical == INSTANCE Lexicon WITH
  words <- [k \in 1..Len(units) |-> units[k].word], taken <- i - 1, lex <- Held

\* Nodes and maps are a dictionary in which the last line of a word counts: the user
\* dictionary, which is loaded last, overrides the other.
KeepsLexicon == Lexical!Spec
=============================================================================
