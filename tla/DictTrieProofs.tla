--------------------------- MODULE DictTrieProofs ---------------------------
(* The dictionary, for any files: whatever they hold, also lines that do not   *)
(* decode, and however often the vectors grow.  In turn: InsertNode's pointer  *)
(* stays fresh; the weights are sound; the nodes are a tree whose paths are    *)
(* the words inserted, so the trie implements Lexicon; every look up agrees    *)
(* with the dictionary; and so the full cut of any text covers it.             *)
EXTENDS FullSegment, TilingProofs

\* a sequence, of whatever: runes have no type here
IsSeq(s) == \E S : s \in Seq(S)

\* What Append does.
LEMMA AppendIsSeq ==
  ASSUME NEW s, IsSeq(s), NEW e
  PROVE  /\ IsSeq(Append(s, e)) /\ Len(s) \in Nat /\ Len(Append(s, e)) = Len(s) + 1
         /\ \A k \in 1..Len(s) : Append(s, e)[k] = s[k]
         /\ Append(s, e)[Len(s) + 1] = e
<1>1. PICK S : s \in Seq(S)
  BY DEF IsSeq
<1>2. s \in Seq(S \cup {e})
  BY <1>1, SeqMonotonic
<1>3. Append(s, e) \in Seq(S \cup {e})
  BY <1>2
<1>. QED
  BY <1>2, <1>3 DEF IsSeq

\* Nodes lead to maps that are there, and maps to nodes that are there.
Linked ==
  /\ \A k \in 1..Len(tnodes) : tnodes[k].next \in 0..Len(nxtMaps)
  /\ \A m \in 1..Len(nxtMaps) : \A r \in DOMAIN nxtMaps[m] :
       nxtMaps[m][r] \in 1..Len(tnodes)

Node == [next: Nat, ptValue: Nat]

\* The vectors have their types, links lead where something is, ptNode is fresh.
IInv ==
  /\ i \in Nat
  /\ tnodes \in Seq(Node) /\ tnodes # <<>>
  /\ IsSeq(nxtMaps)
  /\ Linked
  /\ ptNode.buffer = buffer /\ ptNode.node \in 1..Len(tnodes)

LEMMA InitIInv == Init => IInv
<1>. SUFFICES ASSUME Init PROVE IInv
  OBVIOUS
<1>1. tnodes \in Seq(Node) /\ Len(tnodes) = 1 /\ tnodes[1].next = 0
  BY DEF Init, TrieInit, NewNode, Node
<1>2. nxtMaps \in Seq({}) /\ Len(nxtMaps) = 0
  BY DEF Init, TrieInit
<1>. QED
  BY <1>1, <1>2 DEF Init, TrieInit, IInv, IsSeq, Linked

\* One member of one node is changed.
LEMMA NodeExcept ==
  ASSUME NEW t \in Seq(Node), NEW k \in 1..Len(t), NEW v \in Node
  PROVE  /\ [t EXCEPT ![k] = v] \in Seq(Node) /\ Len([t EXCEPT ![k] = v]) = Len(t)
         /\ \A x \in 1..Len(t) : [t EXCEPT ![k] = v][x] = IF x = k THEN v ELSE t[x]
OBVIOUS

\* InsertNode: the maps with one for ptNode, the index of that one, and what is in
\* it once there is a new node for a rune
Next0 == tnodes[ptNode.node].next
Maps == IF Next0 = 0 THEN Append(nxtMaps, <<>>) ELSE nxtMaps
Map == IF Next0 = 0 THEN Len(Maps) ELSE Next0
Edges(ky) ==
  [r \in DOMAIN Maps[Map] \cup {ky} |-> IF r = ky THEN Len(tnodes) + 1 ELSE Maps[Map][r]]
Up == [tnodes[ptNode.node] EXCEPT !.next = Map]

\* All edges lead to nodes that are there, also when a map has just been added.
LEMMA MapLinked ==
  ASSUME IInv
  PROVE  /\ IsSeq(Maps) /\ Len(Maps) \in Nat /\ Map \in 1..Len(Maps)
         /\ Len(Maps) >= Len(nxtMaps) /\ Len(nxtMaps) \in Nat
         /\ \A x \in 1..Len(Maps) : \A r \in DOMAIN Maps[x] : Maps[x][r] \in 1..Len(tnodes)
<1>1. Len(nxtMaps) \in Nat /\ Next0 \in 0..Len(nxtMaps)
  BY AppendIsSeq DEF IInv, Linked, Next0
<1>2. CASE Next0 = 0
  <2>1. /\ IsSeq(Maps) /\ Len(Maps) = Len(nxtMaps) + 1
        /\ \A x \in 1..Len(nxtMaps) : Maps[x] = nxtMaps[x]
        /\ Maps[Len(nxtMaps) + 1] = <<>>
    BY <1>2, AppendIsSeq DEF IInv, Maps
  <2>2. DOMAIN <<>> = {}
    OBVIOUS
  <2>3. Map = Len(Maps)
    BY <1>2 DEF Map
  <2>. QED
    BY <1>1, <2>1, <2>2, <2>3, SMTT(20) DEF IInv, Linked
<1>3. CASE Next0 # 0
  <2>1. Maps = nxtMaps /\ Map = Next0
    BY <1>3 DEF Maps, Map
  <2>. QED
    BY <1>1, <1>3, <2>1 DEF IInv, Linked
<1>. QED
  BY <1>2, <1>3

\* A new node at the end of the vector, and an edge to it.
LEMMA GrowLinked ==
  ASSUME IInv, NEW ky, nxtMaps' = [Maps EXCEPT ![Map] = Edges(ky)],
         tnodes' = Append([tnodes EXCEPT ![ptNode.node] = Up], NewNode)
  PROVE  /\ IsSeq(nxtMaps') /\ Linked'
         /\ tnodes' \in Seq(Node) /\ Len(tnodes') = Len(tnodes) + 1
         /\ tnodes'[Len(tnodes) + 1] = NewNode
         /\ \A x \in 1..Len(tnodes) :
              /\ tnodes'[x].ptValue = tnodes[x].ptValue
              /\ tnodes'[x].next = IF x = ptNode.node THEN Map ELSE tnodes[x].next
         /\ Len(nxtMaps') = Len(Maps)
         /\ \A x \in 1..Len(Maps) : nxtMaps'[x] = IF x = Map THEN Edges(ky) ELSE Maps[x]
<1>1. /\ tnodes \in Seq(Node) /\ ptNode.node \in 1..Len(tnodes)
      /\ Len(tnodes) \in Nat /\ tnodes[ptNode.node] \in Node
  BY DEF IInv
<1>2. /\ IsSeq(Maps) /\ Len(Maps) \in Nat /\ Map \in 1..Len(Maps)
      /\ Len(Maps) >= Len(nxtMaps) /\ Len(nxtMaps) \in Nat
      /\ \A x \in 1..Len(Maps) : \A r \in DOMAIN Maps[x] : Maps[x][r] \in 1..Len(tnodes)
  BY MapLinked
<1>3. Up \in Node /\ Up.next = Map /\ Up.ptValue = tnodes[ptNode.node].ptValue
  <2>1. Map \in Nat
    BY <1>2
  <2>. QED
    BY <1>1, <2>1 DEF Up, Node
<1>4. NewNode \in Node /\ NewNode.next = 0
  BY DEF NewNode, Node
<1>5. PICK up : up = [tnodes EXCEPT ![ptNode.node] = Up]
  OBVIOUS
<1>6. /\ up \in Seq(Node) /\ Len(up) = Len(tnodes)
      /\ \A x \in 1..Len(tnodes) : up[x] = IF x = ptNode.node THEN Up ELSE tnodes[x]
  BY <1>1, <1>3, <1>5, NodeExcept
<1>7. tnodes' = Append(up, NewNode)
  BY <1>5
<1>8. /\ tnodes' \in Seq(Node) /\ Len(tnodes') = Len(tnodes) + 1
      /\ \A x \in 1..Len(tnodes) : tnodes'[x] = up[x]
      /\ tnodes'[Len(tnodes) + 1] = NewNode
  <2>1. ASSUME NEW t, t = Append(up, NewNode)
        PROVE  /\ t \in Seq(Node) /\ Len(t) = Len(tnodes) + 1
               /\ \A x \in 1..Len(tnodes) : t[x] = up[x]
               /\ t[Len(tnodes) + 1] = NewNode
    BY <1>1, <1>4, <1>6, <2>1
  <2>. QED
    BY <1>7, <2>1, Zenon
<1>9. /\ IsSeq(nxtMaps') /\ Len(nxtMaps') = Len(Maps)
      /\ \A x \in 1..Len(Maps) : nxtMaps'[x] = IF x = Map THEN Edges(ky) ELSE Maps[x]
  <2>1. PICK s, m, e, t : s = Maps /\ m = Map /\ e = Edges(ky) /\ t = nxtMaps'
    OBVIOUS
  <2>2. IsSeq(s) /\ m \in 1..Len(s) /\ t = [s EXCEPT ![m] = e]
    BY <1>2, <2>1, Zenon
  <2>3. IsSeq(t) /\ Len(t) = Len(s) /\ \A k \in 1..Len(s) : t[k] = IF k = m THEN e ELSE s[k]
    <3>1. PICK S : s \in Seq(S)
      BY <2>2 DEF IsSeq
    <3>2. s \in Seq(S \cup {e})
      BY <3>1, SeqMonotonic
    <3>3. t \in Seq(S \cup {e})
      BY <2>2, <3>2
    <3>. QED
      BY <2>2, <3>2, <3>3 DEF IsSeq
  <2>. QED
    BY <2>1, <2>3, Zenon
<1>10. \A r \in DOMAIN Edges(ky) : Edges(ky)[r] \in 1..Len(tnodes)+1
  BY <1>1, <1>2 DEF Edges
<1>11. \A x \in 1..Len(tnodes) : tnodes[x].next \in 0..Len(nxtMaps)
  BY DEF IInv, Linked
<1>12. \A x \in 1..Len(tnodes)+1 : tnodes'[x].next \in 0..Len(nxtMaps')
  BY <1>1, <1>2, <1>3, <1>4, <1>6, <1>8, <1>9, <1>11
<1>13. \A x \in 1..Len(Maps) : \A r \in DOMAIN nxtMaps'[x] :
         nxtMaps'[x][r] \in 1..Len(tnodes)+1
  BY <1>1, <1>2, <1>9, <1>10
<1>14. \A x \in 1..Len(tnodes) :
         /\ tnodes'[x].ptValue = tnodes[x].ptValue
         /\ tnodes'[x].next = IF x = ptNode.node THEN Map ELSE tnodes[x].next
  BY <1>3, <1>6, <1>8
<1>. QED
  BY <1>8, <1>9, <1>12, <1>13, <1>14 DEF Linked

\* One rune: along an edge that is there, or to a new node.
LEMMA InsertKeyIInv == ASSUME IInv, InsertKey PROVE IInv'
<1>. DEFINE ky == word[key + 1]
<1>1. /\ i' = i
      /\ \/ /\ ky \in DOMAIN Maps[Map]
            /\ UNCHANGED <<tnodes, nxtMaps, buffer>>
            /\ ptNode' = [buffer |-> buffer', node |-> Maps[Map][ky]]
         \/ /\ nxtMaps' = [Maps EXCEPT ![Map] = Edges(ky)]
            /\ tnodes' = Append([tnodes EXCEPT ![ptNode.node] = Up], NewNode)
            /\ ptNode' = [buffer |-> buffer', node |-> Len(tnodes) + 1]
  BY DEF InsertKey, Point, Maps, Map, Next0, Edges, Up
<1>2. Len(tnodes) \in Nat
  BY DEF IInv
<1>. HIDE DEF ky
<1>3. CASE /\ ky \in DOMAIN Maps[Map]
           /\ UNCHANGED <<tnodes, nxtMaps, buffer>>
           /\ ptNode' = [buffer |-> buffer', node |-> Maps[Map][ky]]
  <2>1. Maps[Map][ky] \in 1..Len(tnodes)
    BY <1>3, MapLinked
  <2>. QED
    BY <1>1, <1>3, <2>1 DEF IInv, Linked
<1>4. CASE /\ nxtMaps' = [Maps EXCEPT ![Map] = Edges(ky)]
           /\ tnodes' = Append([tnodes EXCEPT ![ptNode.node] = Up], NewNode)
           /\ ptNode' = [buffer |-> buffer', node |-> Len(tnodes) + 1]
  <2>1. /\ IsSeq(nxtMaps') /\ Linked'
        /\ tnodes' \in Seq(Node) /\ Len(tnodes') = Len(tnodes) + 1
    BY <1>4, GrowLinked
  <2>2. ptNode'.buffer = buffer' /\ ptNode'.node = Len(tnodes) + 1
    BY <1>4
  <2>3. tnodes' # <<>> /\ ptNode'.node \in 1..Len(tnodes')
    BY <1>2, <2>1, <2>2
  <2>. QED
    BY <1>1, <2>1, <2>2, <2>3 DEF IInv
<1>. QED
  BY <1>1, <1>3, <1>4

\* The word's end: the pointer is back at the root.
LEMMA EndInsertIInv == ASSUME IInv, EndInsert PROVE IInv'
<1>1. /\ tnodes \in Seq(Node) /\ ptNode.node \in 1..Len(tnodes)
      /\ Len(tnodes) \in Nat /\ Len(tnodes) >= 1 /\ tnodes[ptNode.node] \in Node
  BY DEF IInv
<1>2. /\ tnodes' \in Seq(Node) /\ Len(tnodes') = Len(tnodes)
      /\ \A x \in 1..Len(tnodes) : tnodes'[x].next = tnodes[x].next
  <2>1. PICK v : v = [tnodes[ptNode.node] EXCEPT !.ptValue = i]
    OBVIOUS
  <2>2. v \in Node /\ v.next = tnodes[ptNode.node].next
    BY <1>1, <2>1 DEF IInv, Node
  <2>3. tnodes' = tnodes \/ tnodes' = [tnodes EXCEPT ![ptNode.node] = v]
    BY <2>1 DEF EndInsert
  <2>. QED
    BY <1>1, <2>2, <2>3, NodeExcept
<1>3. /\ i' \in Nat /\ nxtMaps' = nxtMaps
      /\ ptNode' = [buffer |-> buffer', node |-> 1]
  BY DEF EndInsert, IInv, Point
<1>4. Linked'
  BY <1>2, <1>3 DEF IInv, Linked
<1>. QED
  BY <1>1, <1>2, <1>3, <1>4 DEF IInv

\* Reading the files leaves the trie as it is, making it takes room at most.
LEMMA NextIInv == IInv /\ [Next]_vars => IInv'
<1>. SUFFICES ASSUME IInv, [Next]_vars PROVE IInv'
  OBVIOUS
<1>1. CASE trieVars' = trieVars
  BY <1>1 DEF trieVars, IInv, Linked
<1>2. CASE CreateTrie
  <2>1. UNCHANGED <<i, tnodes, nxtMaps>> /\ ptNode' = [buffer |-> buffer', node |-> 1]
    BY <1>2 DEF CreateTrie, Point
  <2>2. Len(tnodes) >= 1 /\ Len(tnodes) \in Nat
    BY DEF IInv
  <2>. QED
    BY <2>1, <2>2 DEF IInv, Linked
<1>3. CASE Next
  <2>1. CASE LoadDict \/ CalculateWeight \/ SetStaticWordWeights \/ LoadUserDict
    BY <1>1, <2>1 DEF LoadDict, CalculateWeight, SetStaticWordWeights, LoadUserDict
  <2>2. CASE MakeTrie
    BY <1>2, <2>2 DEF MakeTrie
  <2>3. CASE Insert
    BY <2>3, InsertKeyIInv, EndInsertIInv DEF Insert
  <2>. QED
    BY <1>3, <2>1, <2>2, <2>3 DEF Next
<1>. QED
  BY <1>1, <1>3 DEF vars

\* For every dictionary: when InsertNode uses ptNode, the vector of nodes is still
\* where the pointer says, and the node is in it.
THEOREM PointerStaysFresh == Spec => []PointerFresh
<1>1. IInv => PointerFresh
  BY DEF IInv, PointerFresh
<1>. QED
  BY <1>1, InitIInv, NextIInv, PTL DEF Spec

\* Sum is what its recursion says.
LEMMA SumDef ==
  ASSUME NEW ws \in Seq(Int)
  PROVE  \E sum \in [0..Len(ws) -> Int] :
           /\ Sum(ws) = sum[Len(ws)] /\ sum[0] = 0
           /\ \A k \in 1..Len(ws) : sum[k] = sum[k-1] + ws[k]
<1>. DEFINE N == Len(ws)
            G == [k \in 1..N |-> [x \in Int |-> x + ws[k]]]
            F(g) == [k \in 0..N |-> IF k = 0 THEN 0 ELSE g[k-1] + ws[k]]
            sum == CHOOSE g : g = F(g)
<1>1. Sum(ws) = sum[N]
  BY DEF Sum
<1>. HIDE DEF sum
<1>2. N \in Nat /\ \A k \in 1..N : ws[k] \in Int
  OBVIOUS
<1>. HIDE DEF N
<1>3. \A k \in 1..N : \A x \in Int : G[k][x] = x + ws[k] /\ G[k][x] \in Int
  BY <1>2
<1>. HIDE DEF G
<1>4. PICK f \in [0..N -> Int] : Steps(f, N, 0, G)
  <2>1. Stepwise(N, Int, 0, G)
    BY <1>2, <1>3 DEF Stepwise
  <2>. QED
    BY <2>1, StepsExist
<1>5. f = F(f)
  <2>1. ASSUME NEW k \in 0..N PROVE f[k] = IF k = 0 THEN 0 ELSE f[k-1] + ws[k]
    <3>1. k # 0 => k \in 1..N /\ k - 1 \in 0..N
      BY <1>2
    <3>. QED
      BY <1>3, <1>4, <3>1 DEF Steps
  <2>2. f = [k \in 0..N |-> f[k]]
    BY <1>4 DEF Steps
  <2>. QED
    BY <2>1, <2>2
<1>6. sum = F(sum)
  <2>. HIDE DEF F
  <2>. QED
    BY <1>5 DEF sum
<1>7. sum[0] = 0 /\ \A k \in 1..N : sum[k] = sum[k-1] + ws[k]
  <2>1. \A k \in 0..N : sum[k] = IF k = 0 THEN 0 ELSE sum[k-1] + ws[k]
    BY <1>6
  <2>. QED
    BY <1>2, <2>1
<1>8. sum \in [0..N -> Int]
  <2>. DEFINE T == {k \in Nat : k <= N => sum[k] \in Int}
  <2>1. \A k \in T : k + 1 \in T
    <3>. SUFFICES ASSUME NEW k \in T, k + 1 <= N PROVE sum[k+1] \in Int
      OBVIOUS
    <3>1. sum[k+1] = sum[k] + ws[k+1]
      BY <1>2, <1>7
    <3>. QED
      BY <1>2, <3>1
  <2>2. T = Nat
    <3>1. T \in SUBSET Nat /\ 0 \in T
      BY <1>7
    <3>. HIDE DEF T
    <3>. QED
      BY <2>1, <3>1, Induction
  <2>3. \A k \in 0..N : sum[k] \in Int
    BY <1>2, <2>2
  <2>. QED
    BY <1>6, <2>3
<1>. QED
  BY <1>1, <1>7, <1>8 DEF N

\* A sum lies between as many times the least and the greatest.
LEMMA SumBetween ==
  ASSUME NEW ws \in Seq(Int), NEW lo \in Int, NEW hi \in Int,
         \A k \in 1..Len(ws) : lo <= ws[k] /\ ws[k] <= hi
  PROVE  Sum(ws) \in Int /\ Len(ws) * lo <= Sum(ws) /\ Sum(ws) <= Len(ws) * hi
<1>. DEFINE N == Len(ws)
<1>1. N \in Nat /\ \A k \in 1..N : ws[k] \in Int
  OBVIOUS
<1>2. PICK sum \in [0..N -> Int] :
        /\ Sum(ws) = sum[N] /\ sum[0] = 0
        /\ \A k \in 1..N : sum[k] = sum[k-1] + ws[k]
  BY SumDef
<1>. HIDE DEF N
<1>. DEFINE P(k) == k <= N => k * lo <= sum[k] /\ sum[k] <= k * hi
            T == {k \in Nat : P(k)}
<1>3. ASSUME NEW k \in Nat, P(k) PROVE P(k + 1)
  <2>. SUFFICES ASSUME k + 1 <= N
                PROVE  (k+1) * lo <= sum[k+1] /\ sum[k+1] <= (k+1) * hi
    OBVIOUS
  <2>0. k * lo <= sum[k] /\ sum[k] <= k * hi
    BY <1>1, <1>3
  <2>1. sum[k+1] = sum[k] + ws[k+1] /\ sum[k] \in Int /\ ws[k+1] \in Int
        /\ lo <= ws[k+1] /\ ws[k+1] <= hi
    BY <1>1, <1>2 DEF N
  <2>2. (k+1) * lo = k * lo + lo /\ (k+1) * hi = k * hi + hi /\ k * lo \in Int /\ k * hi \in Int
    OBVIOUS
  <2>. QED
    BY <2>0, <2>1, <2>2, SMTT(30)
<1>4. P(0)
  BY <1>2
<1>5. P(N)
  <2>. HIDE DEF P
  <2>1. T \in SUBSET Nat /\ 0 \in T /\ \A k \in T : k + 1 \in T
    BY <1>3, <1>4
  <2>2. T = Nat
    BY <2>1, Induction
  <2>. QED
    BY <1>1, <2>2
<1>. QED
  BY <1>1, <1>2, <1>5 DEF N

\* A whole mean lies between whole bounds.
LEMMA MeanBetween ==
  ASSUME NEW N \in Nat, N > 0, NEW s \in Int, NEW lo \in Int, NEW hi \in Int,
         N * lo <= s, s <= N * hi
  PROVE  s \div N \in Int /\ lo <= s \div N /\ s \div N <= hi
<1>. DEFINE d == s \div N
<1>1. d \in Int /\ N * d <= s /\ s < N * d + N
  OBVIOUS
<1>. HIDE DEF d
<1>2. ASSUME d + 1 <= lo PROVE FALSE
  <2>1. N * (d + 1) <= N * lo /\ N * (d + 1) = N * d + N
    BY <1>1, <1>2
  <2>. QED
    BY <1>1, <2>1
<1>3. ASSUME hi + 1 <= d PROVE FALSE
  <2>1. N * (hi + 1) <= N * d /\ N * (hi + 1) = N * hi + N
    BY <1>1, <1>3
  <2>. QED
    BY <1>1, <2>1
<1>. QED
  BY <1>1, <1>2, <1>3 DEF d

\* The provers know no more of runes than that they are the same or not.
Runes == STRING

Tags == STRING \cup {""}

Unit == [word: Seq(Runes), weight: Int, tag: Tags]

\* Extremes is what its recursion says.
LEMMA ExtremesDef ==
  ASSUME units \in Seq(Unit)
  PROVE  \E seen \in [0..Len(units) -> [min: Int, max: Int]] :
           /\ Extremes = seen[Len(units)]
           /\ \A k \in 1..Len(units) :
                seen[k] = LET w == units[k].weight
                          IN  IF w > seen[k - 1].max THEN [seen[k - 1] EXCEPT !.max = w]
                              ELSE IF w < seen[k - 1].min THEN [seen[k - 1] EXCEPT !.min = w]
                              ELSE seen[k - 1]
<1>. DEFINE N == Len(units)
            R == [min: Int, max: Int]
            a == [min |-> MaxDouble, max |-> MinDouble]
            see(x, w) == IF w > x.max THEN [x EXCEPT !.max = w]
                         ELSE IF w < x.min THEN [x EXCEPT !.min = w] ELSE x
            W(k) == units[k].weight
            G == [k \in 1..N |-> [x \in R |-> see(x, W(k))]]
            F(g) == [k \in 0..N |-> IF k = 0 THEN a ELSE see(g[k-1], W(k))]
            seen == CHOOSE g : g = F(g)
<1>1. Extremes = seen[N]
  BY DEF Extremes
<1>. HIDE DEF seen
<1>2. N \in Nat /\ a \in R /\ \A k \in 1..N : W(k) \in Int
  <2>1. N \in Nat /\ \A k \in 1..N : units[k] \in Unit
    OBVIOUS
  <2>2. \A u \in Unit : u.weight \in Int
    BY DEF Unit
  <2>. QED
    BY <2>1, <2>2, DictAssumption
<1>. HIDE DEF N, W, a
<1>3. \A x \in R : \A w \in Int : see(x, w) \in R
  OBVIOUS
<1>. HIDE DEF see
<1>4. \A k \in 1..N : \A x \in R : G[k][x] = see(x, W(k)) /\ G[k][x] \in R
  BY <1>2, <1>3
<1>. HIDE DEF G, R
<1>5. PICK f \in [0..N -> R] : Steps(f, N, a, G)
  <2>1. Stepwise(N, R, a, G)
    BY <1>2, <1>4 DEF Stepwise
  <2>. QED
    BY <2>1, StepsExist
<1>6. f = F(f)
  <2>1. ASSUME NEW k \in 0..N PROVE f[k] = IF k = 0 THEN a ELSE see(f[k-1], W(k))
    <3>1. k # 0 => k \in 1..N /\ k - 1 \in 0..N
      BY <1>2
    <3>. QED
      BY <1>4, <1>5, <3>1 DEF Steps
  <2>2. f = [k \in 0..N |-> f[k]]
    BY <1>5 DEF Steps
  <2>. QED
    BY <2>1, <2>2
<1>7. seen = F(seen)
  <2>. HIDE DEF F
  <2>. QED
    BY <1>6 DEF seen
<1>8. seen[0] = a /\ \A k \in 1..N : seen[k] = see(seen[k-1], W(k))
  <2>1. \A k \in 0..N : seen[k] = IF k = 0 THEN a ELSE see(seen[k-1], W(k))
    BY <1>7
  <2>. QED
    BY <1>2, <2>1
<1>9. seen \in [0..N -> R]
  <2>. DEFINE P(k) == k <= N => seen[k] \in R
              T == {k \in Nat : P(k)}
  <2>1. ASSUME NEW k \in Nat, P(k) PROVE P(k + 1)
    BY <1>2, <1>3, <1>8, <2>1
  <2>2. P(0)
    BY <1>2, <1>8
  <2>3. \A k \in Nat : P(k)
    <3>. HIDE DEF P
    <3>1. T \in SUBSET Nat /\ 0 \in T /\ \A k \in T : k + 1 \in T
      BY <2>1, <2>2
    <3>2. T = Nat
      BY <3>1, Induction
    <3>. QED
      BY <3>2
  <2>4. \A k \in 0..N : seen[k] \in R
    BY <1>2, <2>3
  <2>. QED
    BY <1>7, <2>4
<1>. QED
  BY <1>1, <1>8, <1>9 DEF N, see, W, R

\* What is kept as the maximum is one, whatever MIN_DOUBLE is.
LEMMA ExtremesRight ==
  ASSUME units \in Seq(Unit)
  PROVE  /\ Extremes.min \in Int /\ Extremes.max \in Int
         /\ \A k \in 1..Len(units) : units[k].weight <= Extremes.max
<1>. DEFINE N == Len(units)
            W(k) == units[k].weight
<1>1. N \in Nat /\ \A k \in 1..N : W(k) \in Int
  <2>1. N \in Nat /\ \A k \in 1..N : units[k] \in Unit
    OBVIOUS
  <2>2. \A u \in Unit : u.weight \in Int
    BY DEF Unit
  <2>. QED
    BY <2>1, <2>2
<1>2. PICK seen \in [0..N -> [min: Int, max: Int]] :
        /\ Extremes = seen[N]
        /\ \A k \in 1..N :
             seen[k] = IF W(k) > seen[k-1].max THEN [seen[k-1] EXCEPT !.max = W(k)]
                       ELSE IF W(k) < seen[k-1].min THEN [seen[k-1] EXCEPT !.min = W(k)]
                       ELSE seen[k-1]
  BY ExtremesDef
<1>. HIDE DEF N, W
<1>3. ASSUME NEW k \in 1..N
      PROVE  seen[k].max \in Int /\ W(k) <= seen[k].max /\ seen[k-1].max <= seen[k].max
  <2>1. k - 1 \in 0..N /\ k \in 0..N /\ W(k) \in Int
    BY <1>1
  <2>2. seen[k-1].max \in Int /\ seen[k].max \in Int
    BY <1>2, <2>1
  <2>3. seen[k] = IF W(k) > seen[k-1].max THEN [seen[k-1] EXCEPT !.max = W(k)]
                  ELSE IF W(k) < seen[k-1].min THEN [seen[k-1] EXCEPT !.min = W(k)]
                  ELSE seen[k-1]
    BY <1>2
  <2>4. seen[k].max = IF W(k) > seen[k-1].max THEN W(k) ELSE seen[k-1].max
    BY <1>2, <2>1, <2>3
  <2>. QED
    BY <2>1, <2>2, <2>4
<1>. DEFINE P(k) == k <= N => \A j \in 1..k : W(j) <= seen[k].max
            T == {k \in Nat : P(k)}
<1>4. P(0)
  OBVIOUS
<1>5. ASSUME NEW k \in Nat, P(k) PROVE P(k + 1)
  <2>. SUFFICES ASSUME k + 1 <= N, NEW j \in 1..k+1 PROVE W(j) <= seen[k+1].max
    OBVIOUS
  <2>1. k + 1 \in 1..N /\ k \in 0..N /\ j \in 1..N
    BY <1>1
  <2>2. /\ W(k+1) <= seen[k+1].max /\ seen[k].max <= seen[k+1].max
        /\ seen[k].max \in Int /\ seen[k+1].max \in Int /\ W(j) \in Int
    <3>1. (k + 1) - 1 = k
      OBVIOUS
    <3>2. W(k+1) <= seen[k+1].max /\ seen[k].max <= seen[k+1].max /\ seen[k+1].max \in Int
      BY <1>3, <2>1, <3>1
    <3>3. seen[k] \in [min: Int, max: Int]
      BY <1>2, <2>1
    <3>. QED
      BY <1>1, <2>1, <3>2, <3>3
  <2>. QED
    BY <1>5, <2>1, <2>2
<1>6. P(N)
  <2>. HIDE DEF P
  <2>1. T \in SUBSET Nat /\ 0 \in T /\ \A k \in T : k + 1 \in T
    BY <1>4, <1>5
  <2>2. T = Nat
    BY <2>1, Induction
  <2>. QED
    BY <1>1, <2>2
<1>7. seen[N] \in [min: Int, max: Int]
  BY <1>1, <1>2
<1>. QED
  BY <1>1, <1>2, <1>6, <1>7 DEF N, W

\* A sum of numbers that are not negative is no less than any of them.
LEMMA SumAtLeast ==
  ASSUME NEW ws \in Seq(Int), \A k \in 1..Len(ws) : 0 <= ws[k]
  PROVE  Sum(ws) \in Int /\ \A k \in 1..Len(ws) : ws[k] <= Sum(ws)
<1>. DEFINE N == Len(ws)
<1>1. N \in Nat /\ \A k \in 1..N : ws[k] \in Int /\ 0 <= ws[k]
  OBVIOUS
<1>2. PICK sum \in [0..N -> Int] :
        /\ Sum(ws) = sum[N] /\ sum[0] = 0
        /\ \A k \in 1..N : sum[k] = sum[k-1] + ws[k]
  BY SumDef
<1>. HIDE DEF N
<1>. DEFINE P(k) == k <= N => 0 <= sum[k] /\ \A j \in 1..k : ws[j] <= sum[k]
            T == {k \in Nat : P(k)}
<1>3. P(0)
  BY <1>2
<1>4. ASSUME NEW k \in Nat, P(k) PROVE P(k + 1)
  <2>. SUFFICES ASSUME k + 1 <= N
                PROVE  0 <= sum[k+1] /\ \A j \in 1..k+1 : ws[j] <= sum[k+1]
    OBVIOUS
  <2>1. sum[k] \in Int /\ sum[k+1] = sum[k] + ws[k+1] /\ ws[k+1] \in Int /\ 0 <= ws[k+1]
    <3>1. k + 1 \in 1..N /\ k \in 0..N /\ (k + 1) - 1 = k
      BY <1>1
    <3>. QED
      BY <1>1, <1>2, <3>1
  <2>2. 0 <= sum[k] /\ \A j \in 1..k : ws[j] <= sum[k]
    BY <1>1, <1>4
  <2>3. \A j \in 1..k+1 : j \in 1..k \/ j = k + 1
    OBVIOUS
  <2>4. \A j \in 1..k : ws[j] \in Int
    BY <1>1
  <2>. QED
    BY <2>1, <2>2, <2>3, <2>4
<1>5. P(N)
  <2>. HIDE DEF P
  <2>1. T \in SUBSET Nat /\ 0 \in T /\ \A k \in T : k + 1 \in T
    BY <1>3, <1>4
  <2>2. T = Nat
    BY <2>1, Induction
  <2>. QED
    BY <1>1, <2>2
<1>. QED
  BY <1>1, <1>2, <1>5 DEF N

\* the main dictionary's lines, as they were read
Loaded ==
  \A k \in 1..Len(units) :
    units[k] = NodeInfo(dictFile[k].word, dictFile[k].freq, dictFile[k].tag)

\* and weighed
Weighed ==
  /\ Len(dictFile) \in 1..Len(units)
  /\ \A k \in 1..Len(dictFile) :
       units[k].weight = dictFile[k].freq - freq_sum_ /\ units[k].weight <= 0

\* after CalculateWeight and SetStaticWordWeights: the extremes and the median
Measured ==
  /\ \A k \in 1..Len(dictFile) : units[k].weight <= max_weight_
  /\ \E a, b \in 1..Len(dictFile) :
       units[a].weight <= median_weight_ /\ median_weight_ <= units[b].weight

\* What is known of the units and their weights, stage by stage.
WeightInv ==
  /\ dictFile \in Seq(Line) /\ userFile \in Seq(Line)
  /\ pc \in {"dict", "weights", "user", "trie", "aborted"}
  /\ line \in Nat \ {0}
  /\ units \in Seq(Unit)
  /\ freq_sum_ \in Int /\ min_weight_ \in Int /\ max_weight_ \in Int /\ median_weight_ \in Int
  /\ pc = "dict" => Len(dictFile) >= line - 1 /\ Len(units) = line - 1 /\ Loaded
  /\ pc = "weights" => Len(units) = Len(dictFile)
  /\ pc \in {"weights", "user", "trie"} => Weighed
  /\ pc \in {"user", "trie"} => Measured

\* What a line holds.
LEMMA Lines ==
  ASSUME NEW file \in Seq(Line), NEW k \in 1..Len(file)
  PROVE  /\ file[k] \in Line
         /\ file[k].word \in Seq(Runes) \cup {BadUtf8}
         /\ file[k].freq \in Int /\ file[k].tag \in Tags
<1>1. file[k] \in Line
  OBVIOUS
<1>2. \A l \in Line : l.word \in Seq(Runes) \cup {BadUtf8} /\ l.freq \in Int /\ l.tag \in Tags
  BY DEF Line, Tags, Runes
<1>. QED
  BY <1>1, <1>2

\* A unit made of a line, also of one that does not decode.
LEMMA NodeInfoType ==
  ASSUME NEW w \in Seq(Runes) \cup {BadUtf8}, NEW weight \in Int, NEW tag \in Tags
  PROVE  /\ NodeInfo(w, weight, tag) \in Unit
         /\ NodeInfo(w, weight, tag).weight = IF w = BadUtf8 THEN 0 ELSE weight
<1>1. CASE w = BadUtf8
  <2>1. NodeInfo(w, weight, tag) = [word |-> <<>>, weight |-> 0, tag |-> ""]
    BY <1>1 DEF NodeInfo
  <2>2. PICK e : e = ""
    OBVIOUS
  <2>3. e \in Tags
    BY <2>2 DEF Tags
  <2>4. NodeInfo(w, weight, tag) = [word |-> <<>>, weight |-> 0, tag |-> e]
    BY <2>1, <2>2
  <2>. QED
    BY <1>1, <2>3, <2>4 DEF Unit
<1>2. CASE w # BadUtf8
  <2>1. NodeInfo(w, weight, tag) = [word |-> w, weight |-> weight, tag |-> tag]
    BY <1>2 DEF NodeInfo
  <2>. QED
    BY <1>2, <2>1 DEF Unit
<1>. QED
  BY <1>1, <1>2

\* WeightInv, action by action.
LEMMA InitWeightInv == Init => WeightInv
<1>. SUFFICES ASSUME Init PROVE WeightInv
  OBVIOUS
<1>1. dictFile \in Seq(Line) /\ userFile \in Seq(Line)
  BY DictAssumption DEF Init
<1>2. units = <<>> /\ units \in Seq(Unit) /\ Len(units) = 0
  BY DEF Init
<1>. QED
  BY <1>1, <1>2 DEF Init, WeightInv, Loaded

LEMMA LoadDictWeightInv == ASSUME WeightInv, LoadDict PROVE WeightInv'
<1>. DEFINE buf == dictFile[line]
            unit == NodeInfo(buf.word, buf.freq, buf.tag)
<1>1. CASE pc' = "aborted" /\ UNCHANGED <<units, line>>
  BY <1>1 DEF WeightInv, LoadDict, fileVars, weightVars
<1>2. CASE /\ units' = Append(units, unit)
           /\ line' = line + 1
           /\ UNCHANGED pc
  <2>1. /\ line \in 1..Len(dictFile) /\ units \in Seq(Unit) /\ Len(units) = line - 1
        /\ dictFile \in Seq(Line) /\ Loaded /\ line \in Nat /\ Len(dictFile) \in Nat
    BY DEF WeightInv, LoadDict
  <2>2. unit \in Unit
    BY <2>1, Lines, NodeInfoType
  <2>. HIDE DEF unit
  <2>3. /\ units' \in Seq(Unit) /\ Len(units') = line
        /\ units'[line] = unit /\ \A k \in 1..line-1 : units'[k] = units[k]
    BY <1>2, <2>1, <2>2
  <2>4. Loaded'
    <3>. SUFFICES ASSUME NEW k \in 1..line
                  PROVE  units'[k] = NodeInfo(dictFile[k].word, dictFile[k].freq, dictFile[k].tag)
      BY <2>3 DEF Loaded, NodeInfo, LoadDict, fileVars
    <3>1. CASE k = line
      BY <2>3, <3>1 DEF unit
    <3>2. CASE k \in 1..line-1
      BY <2>1, <2>3, <3>2 DEF Loaded
    <3>. QED
      BY <2>1, <3>1, <3>2
  <2>. QED
    BY <1>2, <2>1, <2>3, <2>4 DEF WeightInv, LoadDict, fileVars, weightVars
<1>. QED
  BY <1>1, <1>2 DEF LoadDict

LEMMA CalculateWeightInv == ASSUME WeightInv, CalculateWeight PROVE WeightInv'
<1>. DEFINE N == Len(units)
<1>1. /\ units \in Seq(Unit) /\ N \in Nat /\ dictFile \in Seq(Line) /\ Len(dictFile) = N /\ Loaded
      /\ \A k \in 1..N : units[k] \in Unit
  BY DEF WeightInv, CalculateWeight
<1>2. \A u \in Unit : u.weight \in Int
  BY DEF Unit
<1>3. Weights \in Seq(Int) /\ Len(Weights) = N /\ \A k \in 1..N : Weights[k] = units[k].weight
  <2>1. \A k \in 1..N : units[k].weight \in Int
    BY <1>1, <1>2
  <2>. QED
    BY <1>1, <2>1 DEF Weights
<1>4. freq_sum_' = Sum(Weights) /\ freq_sum_' \in Int
  <2>1. PICK sum \in [0..Len(Weights) -> Int] : Sum(Weights) = sum[Len(Weights)]
    BY <1>3, SumDef
  <2>. QED
    BY <1>1, <1>3, <2>1 DEF CalculateWeight
<1>5. CASE pc' = "aborted" /\ UNCHANGED units
  BY <1>4, <1>5 DEF WeightInv, CalculateWeight, fileVars
<1>6. CASE /\ ~(freq_sum_' <= 0 \/ \E k \in 1..N : units[k].weight <= 0)
           /\ units' = [k \in 1..N |-> [units[k] EXCEPT !.weight = @ - freq_sum_']]
           /\ pc' = "weights"
  <2>1. /\ units' \in Seq(Unit) /\ Len(units') = N
        /\ \A k \in 1..N : units'[k].weight = units[k].weight - freq_sum_'
    <3>1. ASSUME NEW u \in Unit
          PROVE  /\ [u EXCEPT !.weight = @ - freq_sum_'] \in Unit
                 /\ [u EXCEPT !.weight = @ - freq_sum_'].weight = u.weight - freq_sum_'
      BY <1>2, <1>4 DEF Unit
    <3>2. PICK new : new = [k \in 1..N |-> [units[k] EXCEPT !.weight = @ - freq_sum_']]
      OBVIOUS
    <3>3. \A k \in 1..N : new[k] \in Unit /\ new[k].weight = units[k].weight - freq_sum_'
      BY <1>1, <3>1, <3>2
    <3>4. new = [k \in 1..N |-> new[k]]
      BY <3>2
    <3>5. new \in Seq(Unit) /\ Len(new) = N
      BY <1>1, <3>3, <3>4
    <3>. QED
      BY <1>6, <3>2, <3>3, <3>5
  <2>2. \A k \in 1..N : units[k].weight = dictFile[k].freq
    <3>. TAKE k \in 1..N
    <3>1. units[k] = NodeInfo(dictFile[k].word, dictFile[k].freq, dictFile[k].tag)
      BY <1>1 DEF Loaded
    <3>2. units[k].weight = IF dictFile[k].word = BadUtf8 THEN 0 ELSE dictFile[k].freq
      <4>1. k \in 1..Len(dictFile)
        BY <1>1
      <4>2. /\ dictFile[k].word \in Seq(Runes) \cup {BadUtf8}
            /\ dictFile[k].freq \in Int /\ dictFile[k].tag \in Tags
        BY <1>1, <4>1, Lines
      <4>4. PICK w, f, t : w = dictFile[k].word /\ f = dictFile[k].freq /\ t = dictFile[k].tag
        OBVIOUS
      <4>3. NodeInfo(w, f, t).weight = IF w = BadUtf8 THEN 0 ELSE f
        BY <4>2, <4>4, NodeInfoType
      <4>. QED
        BY <3>1, <4>4, <4>3
    <3>. QED
      BY <1>6, <3>2
  <2>3. \A k \in 1..N : units[k].weight <= freq_sum_'
    <3>1. \A k \in 1..N : 0 <= Weights[k]
      BY <1>1, <1>2, <1>3, <1>6
    <3>. QED
      BY <1>3, <1>4, <3>1, SumAtLeast
  <2>4. N > 0
    <3>1. ASSUME N = 0 PROVE FALSE
      <4>1. PICK sum \in [0..Len(Weights) -> Int] : Sum(Weights) = sum[Len(Weights)] /\ sum[0] = 0
        BY <1>3, SumDef
      <4>. QED
        BY <1>3, <1>4, <1>6, <3>1, <4>1
    <3>. QED
      BY <1>1, <3>1
  <2>5. Weighed'
    <3>1. dictFile' = dictFile
      BY DEF CalculateWeight, fileVars
    <3>2. \A k \in 1..N : units'[k].weight = dictFile[k].freq - freq_sum_' /\ units'[k].weight <= 0
      BY <1>1, <1>2, <1>4, <2>1, <2>2, <2>3
    <3>. QED
      BY <1>1, <2>1, <2>4, <3>1, <3>2 DEF Weighed
  <2>. QED
    BY <1>1, <1>4, <1>6, <2>1, <2>5 DEF WeightInv, CalculateWeight, fileVars
<1>. QED
  BY <1>5, <1>6 DEF CalculateWeight

\* A finite choice of numbers has a least and a greatest.
LEMMA LeastGreatest ==
  ASSUME NEW N \in Nat, N > 0, NEW ws \in Seq(Int), Len(ws) = N
  PROVE  \E a, b \in 1..N : \A k \in 1..N : ws[a] <= ws[k] /\ ws[k] <= ws[b]
<1>. DEFINE P(m) == m + 1 <= N =>
                      \E a, b \in 1..m+1 : \A k \in 1..m+1 : ws[a] <= ws[k] /\ ws[k] <= ws[b]
            T == {m \in Nat : P(m)}
<1>1. \A k \in 1..N : ws[k] \in Int
  OBVIOUS
<1>2. P(0)
  BY <1>1
<1>3. ASSUME NEW m \in Nat, P(m) PROVE P(m + 1)
  <2>. SUFFICES ASSUME m + 2 <= N
       PROVE \E a, b \in 1..m+2 : \A k \in 1..m+2 : ws[a] <= ws[k] /\ ws[k] <= ws[b]
    OBVIOUS
  <2>1. PICK a \in 1..m+1, b \in 1..m+1 : \A k \in 1..m+1 : ws[a] <= ws[k] /\ ws[k] <= ws[b]
    BY <1>3
  <2>2. PICK x \in 1..m+2 : x = IF ws[m+2] < ws[a] THEN m + 2 ELSE a
    OBVIOUS
  <2>3. PICK y \in 1..m+2 : y = IF ws[b] < ws[m+2] THEN m + 2 ELSE b
    OBVIOUS
  <2>4. ASSUME NEW k \in 1..m+2 PROVE ws[x] <= ws[k] /\ ws[k] <= ws[y]
    <3>1. ws[a] \in Int /\ ws[b] \in Int /\ ws[m+2] \in Int /\ ws[k] \in Int /\ ws[a] <= ws[b]
      BY <1>1, <2>1
    <3>2. k \in 1..m+1 \/ k = m + 2
      OBVIOUS
    <3>. QED
      BY <2>1, <2>2, <2>3, <3>1, <3>2
  <2>. QED
    BY <2>4
<1>4. P(N - 1)
  <2>. HIDE DEF P
  <2>1. T \in SUBSET Nat /\ 0 \in T /\ \A m \in T : m + 1 \in T
    BY <1>2, <1>3
  <2>2. T = Nat
    BY <2>1, Induction
  <2>. QED
    BY <2>2
<1>. QED
  BY <1>4

\* The weights are numbers.
LEMMA WeightsType ==
  ASSUME units \in Seq(Unit)
  PROVE  /\ Weights \in Seq(Int) /\ Len(Weights) = Len(units) /\ Len(units) \in Nat
         /\ \A k \in 1..Len(units) : Weights[k] = units[k].weight /\ units[k].weight \in Int
<1>1. \A u \in Unit : u.weight \in Int
  BY DEF Unit
<1>2. Len(units) \in Nat /\ \A k \in 1..Len(units) : units[k].weight \in Int
  BY <1>1
<1>. QED
  BY <1>2 DEF Weights

LEMMA SetStaticWordWeightsInv == ASSUME WeightInv, SetStaticWordWeights PROVE WeightInv'
<1>. DEFINE N == Len(units)
<1>1. /\ units \in Seq(Unit) /\ N \in Nat /\ Len(dictFile) = N /\ N > 0 /\ Weighed
      /\ dictFile' = dictFile /\ userFile' = userFile /\ units' = units
  BY DEF WeightInv, SetStaticWordWeights, Weighed, fileVars
<1>2. /\ Extremes.min \in Int /\ Extremes.max \in Int
      /\ \A k \in 1..N : units[k].weight <= Extremes.max
  BY <1>1, ExtremesRight
<1>3. PICK a \in 1..N, b \in 1..N : \A k \in 1..N : Weights[a] <= Weights[k] /\ Weights[k] <= Weights[b]
  <2>1. Weights \in Seq(Int) /\ Len(Weights) = N
    BY <1>1, WeightsType
  <2>. QED
    BY <1>1, <2>1, LeastGreatest
<1>4. Mean \in Int /\ units[a].weight <= Mean /\ Mean <= units[b].weight
  <2>1. /\ Weights \in Seq(Int) /\ Len(Weights) = N
        /\ Weights[a] \in Int /\ Weights[b] \in Int
        /\ Weights[a] = units[a].weight /\ Weights[b] = units[b].weight
    BY <1>1, <1>3, WeightsType
  <2>2. Sum(Weights) \in Int /\ N * Weights[a] <= Sum(Weights) /\ Sum(Weights) <= N * Weights[b]
    BY <1>3, <2>1, SumBetween
  <2>3. /\ Sum(Weights) \div N \in Int
        /\ Weights[a] <= Sum(Weights) \div N /\ Sum(Weights) \div N <= Weights[b]
    BY <1>1, <2>1, <2>2, MeanBetween
  <2>. QED
    BY <2>1, <2>3 DEF Mean
<1>5. Measured'
  <2>1. max_weight_' = Extremes.max /\ median_weight_' = Mean
    BY DEF SetStaticWordWeights
  <2>. QED
    BY <1>1, <1>2, <1>3, <1>4, <2>1 DEF Measured
<1>6. Weighed'
  BY <1>1 DEF Weighed, SetStaticWordWeights
<1>. QED
  BY <1>1, <1>2, <1>4, <1>5, <1>6 DEF WeightInv, SetStaticWordWeights, fileVars

\* More units behind the main dictionary's.
LEMMA AppendWeighed ==
  ASSUME WeightInv, pc \in {"user", "trie"}, NEW unit \in Unit, units' = Append(units, unit),
         UNCHANGED <<dictFile, weightVars>>
  PROVE  units' \in Seq(Unit) /\ Weighed' /\ Measured'
<1>1. /\ units \in Seq(Unit) /\ Len(units) \in Nat /\ Weighed /\ Measured
  BY DEF WeightInv
<1>2. /\ units' \in Seq(Unit) /\ Len(units') = Len(units) + 1
      /\ \A k \in 1..Len(units) : units'[k] = units[k]
  BY <1>1
<1>3. \A k \in 1..Len(dictFile) : k \in 1..Len(units)
  BY <1>1 DEF Weighed
<1>. QED
  BY <1>1, <1>2, <1>3 DEF Weighed, Measured, weightVars

LEMMA LoadUserDictInv == ASSUME WeightInv, LoadUserDict PROVE WeightInv'
<1>. DEFINE buf  == userFile[line]
            weight == IF buf.columns = 3 THEN Log(buf.freq) ELSE median_weight_
            tag  == IF buf.columns = 1 THEN "" ELSE buf.tag
            unit == NodeInfo(buf.word, weight, tag)
<1>0. userFile \in Seq(Line) /\ line \in Nat \ {0} /\ freq_sum_ \in Int /\ median_weight_ \in Int
  BY DEF WeightInv
<1>5. line <= Len(userFile)
  BY DEF LoadUserDict
<1>1. /\ userFile \in Seq(Line) /\ line \in 1..Len(userFile) /\ line \in Nat
      /\ freq_sum_ \in Int /\ median_weight_ \in Int
  BY <1>0, <1>5
<1>2. unit \in Unit
  <2>1. buf.word \in Seq(Runes) \cup {BadUtf8} /\ buf.freq \in Int /\ buf.tag \in Tags
    BY <1>1, Lines
  <2>2. tag \in Tags
    BY <2>1 DEF Tags
  <2>3. weight \in Int
    BY <1>1, <2>1, DictAssumption DEF Log
  <2>. HIDE DEF weight, tag
  <2>4. PICK w : w = buf.word
    OBVIOUS
  <2>. QED
    BY <2>1, <2>2, <2>3, <2>4, NodeInfoType
<1>3. units' = units \/ units' = Append(units, unit)
  BY DEF LoadUserDict
<1>. HIDE DEF unit
<1>4. units' \in Seq(Unit) /\ Weighed' /\ Measured'
  <2>1. CASE units' = units
    BY <2>1 DEF WeightInv, LoadUserDict, Weighed, Measured, fileVars, weightVars
  <2>2. CASE units' = Append(units, unit)
    <3>1. pc \in {"user", "trie"} /\ UNCHANGED <<dictFile, weightVars>>
      BY DEF LoadUserDict, fileVars
    <3>. QED
      BY <1>2, <2>2, <3>1, AppendWeighed
  <2>. QED
    BY <1>3, <2>1, <2>2
<1>6. /\ line' = line + 1 /\ pc = "user" /\ pc' = "user"
      /\ UNCHANGED <<dictFile, userFile, freq_sum_, min_weight_, max_weight_, median_weight_>>
  BY DEF LoadUserDict, fileVars, weightVars
<1>. QED
  BY <1>1, <1>4, <1>6 DEF WeightInv

LEMMA NextWeightInv == WeightInv /\ [Next]_vars => WeightInv'
<1>. SUFFICES ASSUME WeightInv, [Next]_vars PROVE WeightInv'
  OBVIOUS
<1>1. ASSUME /\ units' = units /\ dictFile' = dictFile /\ userFile' = userFile /\ line' = line
             /\ freq_sum_' = freq_sum_ /\ min_weight_' = min_weight_
             /\ max_weight_' = max_weight_ /\ median_weight_' = median_weight_,
             pc' = pc \/ (pc = "user" /\ pc' = "trie")
      PROVE  WeightInv'
  BY <1>1 DEF WeightInv, Loaded, NodeInfo, Weighed, Measured
<1>2. CASE UNCHANGED vars
  BY <1>1, <1>2 DEF vars, fileVars, weightVars
<1>3. CASE MakeTrie
  BY <1>1, <1>3 DEF MakeTrie, fileVars, weightVars
<1>4. CASE Insert
  BY <1>1, <1>4 DEF Insert, InsertKey, EndInsert, fileVars, weightVars
<1>. QED
  BY <1>2, <1>3, <1>4, LoadDictWeightInv, CalculateWeightInv, SetStaticWordWeightsInv,
     LoadUserDictInv DEF Next

\* The weights are always what their stage says.
LEMMA WeightInvAlways == Spec => []WeightInv
BY InitWeightInv, NextWeightInv, PTL DEF Spec

\* For all dictionaries: once the weights are computed a word has a higher weight than
\* another when its frequency is higher, none is above zero or above max_weight_,
\* and the median is between two of them.
THEOREM WeightsAreSound == Spec => []WeightsSound
<1>1. ASSUME WeightInv PROVE WeightsSound
  <2>. SUFFICES ASSUME pc \in {"user", "trie"}
       PROVE  /\ \E a, b \in 1..Len(dictFile) : units[a].weight <= median_weight_
                                                  /\ median_weight_ <= units[b].weight
              /\ \A a, b \in 1..Len(dictFile) : dictFile[a].freq < dictFile[b].freq
                                                  => units[a].weight < units[b].weight
              /\ \A a \in 1..Len(dictFile) : units[a].weight <= 0 /\ units[a].weight <= max_weight_
    BY DEF WeightsSound
  <2>1. Weighed /\ Measured /\ freq_sum_ \in Int
    BY <1>1 DEF WeightInv
  <2>2. \A a \in 1..Len(dictFile) : dictFile[a].freq \in Int
    BY <1>1, Lines DEF WeightInv
  <2>. QED
    BY <2>1, <2>2 DEF Weighed, Measured
<1>. QED
  BY <1>1, WeightInvAlways, PTL

\* the places of tnodes; 1 is the root
Nodes == 1..Len(tnodes)

\* an edge of the trie
Edge(x, r, y) ==
  /\ tnodes[x].next # 0 /\ r \in DOMAIN nxtMaps[tnodes[x].next]
  /\ nxtMaps[tnodes[x].next][r] = y

\* path[x]: the runes from the root to x
Tree(path) ==
  /\ path \in [Nodes -> Seq(Runes)]
  /\ path[1] = <<>>
  /\ \A x, y \in Nodes : path[x] = path[y] => x = y
  /\ \A x, y \in Nodes : \A r \in Runes : Edge(x, r, y) <=> path[y] = Append(path[x], r)
  /\ \A y \in Nodes \ {1} : \E x \in 1..y-1 : \E r \in Runes : path[y] = Append(path[x], r)
  /\ \A x, y \in Nodes : tnodes[x].next = tnodes[y].next /\ tnodes[x].next # 0 => x = y
  /\ \A k \in 1..Len(nxtMaps) : DOMAIN nxtMaps[k] \subseteq Runes

\* Sequences that end in different ways, or begin in different ways, are different.
LEMMA AppendApart ==
  ASSUME NEW R, NEW s \in Seq(R), NEW t \in Seq(R), NEW a \in R, NEW b \in R
  PROVE  /\ Append(s, a) \in Seq(R) /\ Append(s, a) # <<>> /\ Append(s, a) # s
         /\ Append(s, a) = Append(t, b) => s = t /\ a = b
<1>1. /\ Append(s, a) \in Seq(R) /\ Len(s) \in Nat /\ Len(Append(s, a)) = Len(s) + 1
      /\ Append(s, a)[Len(s) + 1] = a /\ \A k \in 1..Len(s) : Append(s, a)[k] = s[k]
  OBVIOUS
<1>2. /\ Len(t) \in Nat /\ Len(Append(t, b)) = Len(t) + 1
      /\ Append(t, b)[Len(t) + 1] = b /\ \A k \in 1..Len(t) : Append(t, b)[k] = t[k]
  OBVIOUS
<1>3. ASSUME Append(s, a) = Append(t, b) PROVE s = t /\ a = b
  <2>1. Len(s) = Len(t) /\ a = b
    BY <1>1, <1>2, <1>3
  <2>2. \A k \in 1..Len(s) : s[k] = t[k]
    BY <1>1, <1>2, <1>3, <2>1
  <2>. QED
    BY <2>1, <2>2
<1>4. Append(s, a) # <<>> /\ Append(s, a) # s
  <2>1. Len(<<>>) = 0
    OBVIOUS
  <2>. QED
    BY <1>1, <2>1
<1>. QED
  BY <1>1, <1>3, <1>4

\* One rune more of the beginning of a word.
LEMMA SubSeqAppend ==
  ASSUME NEW R, NEW s \in Seq(R), NEW k \in 0..Len(s)-1
  PROVE  Append(SubSeq(s, 1, k), s[k+1]) = SubSeq(s, 1, k + 1)
<1>1. Len(s) \in Nat /\ 0 \in 0..Len(s) /\ k \in 0..Len(s) /\ k + 1 \in 0..Len(s) /\ s[k+1] \in R
  OBVIOUS
<1>. DEFINE u == SubSeq(s, 0 + 1, k)
            v == SubSeq(s, 0 + 1, k + 1)
<1>2. u \in Seq(R) /\ Len(u) = k /\ \A j \in 1..k : u[j] = s[j]
  <2>1. Len(u) = k - 0 /\ \A j \in 1..k-0 : u[j] = s[0 + j]
    BY <1>1, SubSeqRight
  <2>. QED
    BY <1>1, <2>1, SubSeqRight
<1>3. v \in Seq(R) /\ Len(v) = k + 1 /\ \A j \in 1..k+1 : v[j] = s[j]
  <2>1. Len(v) = k + 1 - 0 /\ \A j \in 1..k+1-0 : v[j] = s[0 + j]
    BY <1>1, SubSeqRight
  <2>. QED
    BY <1>1, <2>1, SubSeqRight
<1>4. SubSeq(s, 1, k) = u /\ SubSeq(s, 1, k + 1) = v
  OBVIOUS
<1>. HIDE DEF u, v
<1>5. /\ Append(u, s[k+1]) \in Seq(R) /\ Len(Append(u, s[k+1])) = k + 1
      /\ \A j \in 1..k+1 : Append(u, s[k+1])[j] = v[j]
  BY <1>1, <1>2, <1>3
<1>6. Append(u, s[k+1]) = v
  BY <1>1, <1>3, <1>5
<1>. QED
  BY <1>4, <1>6

\* Two words that end in the same step are the same.
LEMMA SameEnd ==
  \A s, t \in Seq(Runes) : \A a, b \in Runes :
    Append(s, a) = Append(t, b) => s = t /\ a = b
<1>. SUFFICES ASSUME NEW s \in Seq(Runes), NEW t \in Seq(Runes), NEW a \in Runes, NEW b \in Runes
     PROVE  Append(s, a) = Append(t, b) => s = t /\ a = b
  OBVIOUS
<1>. QED
  BY AppendApart

\* No node for the rune yet: none has the path that the new one gets.
LEMMA NewPath ==
  ASSUME IInv, NEW path, Tree(path), NEW ky \in Runes, ky \notin DOMAIN Maps[Map],
         NEW y \in Nodes
  PROVE  path[y] # Append(path[ptNode.node], ky)
<1>1. ptNode.node \in Nodes
  BY DEF IInv, Nodes
<1>. SUFFICES ASSUME Edge(ptNode.node, ky, y) PROVE FALSE
  BY <1>1 DEF Tree
<1>. QED
  BY DEF Edge, Maps, Map, Next0

\* A new node under a node that has no such child keeps the tree a tree.
LEMMA GrowTree ==
  ASSUME IInv, NEW path, Tree(path), NEW ky \in Runes, ky \notin DOMAIN Maps[Map],
         nxtMaps' = [Maps EXCEPT ![Map] = Edges(ky)],
         tnodes' = Append([tnodes EXCEPT ![ptNode.node] = Up], NewNode)
  PROVE  \E new : /\ Tree(new)'
                  /\ \A x \in Nodes : new[x] = path[x]
                  /\ new[Len(tnodes) + 1] = Append(path[ptNode.node], ky)
<1>1. PICK N, at : N = Len(tnodes) /\ at = ptNode.node
  OBVIOUS
<1>2. /\ N \in Nat /\ at \in 1..N /\ Nodes = 1..N /\ 1 \in 1..N
      /\ \A x \in 1..N : tnodes[x].next \in 0..Len(nxtMaps)
  BY <1>1 DEF IInv, Linked, Nodes
<1>3. /\ IsSeq(nxtMaps') /\ Linked'
      /\ Len(tnodes') = N + 1
      /\ tnodes'[N + 1] = NewNode
      /\ \A x \in 1..N : tnodes'[x].next = IF x = at THEN Map ELSE tnodes[x].next
      /\ Len(nxtMaps') = Len(Maps)
      /\ \A x \in 1..Len(Maps) : nxtMaps'[x] = IF x = Map THEN Edges(ky) ELSE Maps[x]
  BY <1>1, GrowLinked
<1>4. /\ Len(Maps) \in Nat /\ Map \in 1..Len(Maps) /\ Len(Maps) >= Len(nxtMaps) /\ Len(nxtMaps) \in Nat
      /\ \A x \in 1..Len(Maps) : \A r \in DOMAIN Maps[x] : Maps[x][r] \in 1..N
  BY <1>1, MapLinked
<1>5. /\ \A x \in 1..Len(nxtMaps) : Maps[x] = nxtMaps[x]
      /\ \/ tnodes[at].next = 0 /\ Map = Len(nxtMaps) + 1 /\ Len(Maps) = Map /\ Maps[Map] = <<>>
         \/ tnodes[at].next # 0 /\ Map = tnodes[at].next /\ Len(Maps) = Len(nxtMaps)
  <2>1. IsSeq(nxtMaps)
    BY DEF IInv
  <2>. QED
    BY <1>1, <1>4, <2>1, AppendIsSeq DEF Maps, Map, Next0
<1>6. path \in [1..N -> Seq(Runes)] /\ path[1] = <<>> /\ \A x \in 1..N : path[x] \in Seq(Runes)
  BY <1>2 DEF Tree
<1>18. \A x, y \in 1..N : path[x] = path[y] => x = y
  BY <1>2 DEF Tree
<1>19. \A x, y \in 1..N : \A r \in Runes : Edge(x, r, y) <=> path[y] = Append(path[x], r)
  BY <1>2 DEF Tree
<1>20. \A y \in (1..N) \ {1} : \E x \in 1..y-1 : \E r \in Runes : path[y] = Append(path[x], r)
  BY <1>2 DEF Tree
<1>21. \A x, y \in 1..N : tnodes[x].next = tnodes[y].next /\ tnodes[x].next # 0 => x = y
  BY <1>2 DEF Tree
<1>22. \A k \in 1..Len(nxtMaps) : DOMAIN nxtMaps[k] \subseteq Runes
  BY DEF Tree
<1>7. \A y \in 1..N : path[y] # Append(path[at], ky)
  BY <1>1, <1>2, NewPath
<1>8. PICK new : new = [x \in 1..N+1 |-> IF x = N + 1 THEN Append(path[at], ky) ELSE path[x]]
  OBVIOUS
<1>9. /\ Append(path[at], ky) \in Seq(Runes) /\ Append(path[at], ky) # <<>>
      /\ path[at] \in Seq(Runes)
  <2>1. path[at] \in Seq(Runes)
    BY <1>2, <1>6
  <2>. QED
    BY <2>1, AppendApart
<1>10. /\ new \in [1..N+1 -> Seq(Runes)] /\ \A x \in 1..N : new[x] = path[x]
       /\ new[N + 1] = Append(path[at], ky)
  <2>1. \A x \in 1..N : x \in 1..N+1 /\ x # N + 1
    BY <1>2
  <2>2. \A x \in 1..N+1 : x = N + 1 \/ x \in 1..N
    BY <1>2
  <2>3. N + 1 \in 1..N+1
    BY <1>2
  <2>. QED
    BY <1>6, <1>8, <1>9, <2>1, <2>2, <2>3
<1>11. new[1] = <<>>
  BY <1>2, <1>6, <1>10
<1>12. \A x, y \in 1..N+1 : new[x] = new[y] => x = y
  <2>. TAKE x, y \in 1..N+1
  <2>1. (x \in 1..N \/ x = N + 1) /\ (y \in 1..N \/ y = N + 1)
    BY <1>2
  <2>. QED
    BY <1>7, <1>10, <1>18, <2>1
<1>13. \A x, y \in 1..N+1 : tnodes'[x].next = tnodes'[y].next /\ tnodes'[x].next # 0 => x = y
  <2>. TAKE x, y \in 1..N+1
  <2>1. (x \in 1..N \/ x = N + 1) /\ (y \in 1..N \/ y = N + 1)
    BY <1>2
  <2>2. tnodes'[N+1].next = 0
    BY <1>3 DEF NewNode
  <2>3. \A z \in 1..N : z # at => tnodes'[z].next = tnodes[z].next /\ tnodes[z].next \in 0..Len(nxtMaps)
    BY <1>2, <1>3
  <2>4. tnodes'[at].next = Map
    BY <1>2, <1>3
  <2>5. ASSUME NEW z \in 1..N, z # at, tnodes[z].next = Map PROVE FALSE
    BY <1>2, <1>4, <1>5, <1>21, <2>5
  <2>6. Map # 0
    BY <1>4
  <2>7. CASE x \in 1..N /\ y \in 1..N
    BY <1>21, <2>3, <2>4, <2>5, <2>6, <2>7
  <2>. QED
    BY <2>1, <2>2, <2>7
<1>14. \A k \in 1..Len(nxtMaps') : DOMAIN nxtMaps'[k] \subseteq Runes
  <2>. TAKE k \in 1..Len(nxtMaps')
  <2>1. \A x \in 1..Len(Maps) : DOMAIN Maps[x] \subseteq Runes
    <3>1. DOMAIN <<>> = {}
      OBVIOUS
    <3>. QED
      BY <1>4, <1>5, <1>22, <3>1
  <2>2. DOMAIN Edges(ky) = DOMAIN Maps[Map] \cup {ky}
    BY DEF Edges
  <2>. QED
    BY <1>3, <1>4, <2>1, <2>2
<1>15. \A y \in (1..N+1) \ {1} : \E x \in 1..y-1 : \E r \in Runes : new[y] = Append(new[x], r)
  <2>. TAKE y \in (1..N+1) \ {1}
  <2>1. CASE y = N + 1
    <3>1. at \in 1..y-1
      BY <1>2, <2>1
    <3>2. new[y] = Append(new[at], ky)
      BY <1>2, <1>10, <2>1
    <3>. QED
      BY <3>1, <3>2
  <2>2. CASE y \in (1..N) \ {1}
    <3>1. PICK x \in 1..y-1, r \in Runes : path[y] = Append(path[x], r)
      BY <1>20, <2>2
    <3>2. x \in 1..N
      BY <1>2, <2>2
    <3>. QED
      BY <1>10, <2>2, <3>1, <3>2
  <2>. QED
    BY <1>2, <2>1, <2>2
<1>16. ASSUME NEW x \in 1..N+1, NEW y \in 1..N+1, NEW r \in Runes
       PROVE  Edge(x, r, y)' <=> new[y] = Append(new[x], r)
  <2>0. Edge(x, r, y)' <=> /\ tnodes'[x].next # 0 /\ r \in DOMAIN nxtMaps'[tnodes'[x].next]
                           /\ nxtMaps'[tnodes'[x].next][r] = y
    BY DEF Edge
  <2>1. (x \in 1..N \/ x = N + 1) /\ (y \in 1..N \/ y = N + 1)
    BY <1>2
  <2>2. CASE x = N + 1
    <3>1. ~Edge(x, r, y)'
      BY <1>3, <2>0, <2>2 DEF NewNode
    <3>2. ASSUME new[y] = Append(new[x], r) PROVE FALSE
      <4>1. new[y] # <<>> /\ new[x] # new[y] /\ y # 1
        BY <1>9, <1>10, <1>11, <2>2, <3>2, AppendApart, SMTT(30)
      <4>2. y \in (1..N) \ {1}
        BY <2>1, <2>2, <4>1
      <4>3. PICK z \in 1..y-1, s \in Runes : path[y] = Append(path[z], s)
        BY <1>20, <4>2
      <4>4. z \in 1..N
        BY <1>2, <4>2
      <4>5. path[z] = Append(path[at], ky)
        <5>1. path[y] = Append(new[N+1], r) /\ path[z] \in Seq(Runes) /\ new[N+1] \in Seq(Runes)
          BY <1>6, <1>9, <1>10, <2>2, <3>2, <4>2, <4>4
        <5>2. path[z] = new[N+1]
          <6>1. PICK p, q : p = path[z] /\ q = new[N+1]
            OBVIOUS
          <6>2. p \in Seq(Runes) /\ q \in Seq(Runes) /\ Append(p, s) = Append(q, r)
            BY <4>3, <5>1, <6>1
          <6>3. p = q
            BY <6>2, SameEnd
          <6>. QED
            BY <6>1, <6>3
        <5>. QED
          BY <1>10, <5>2
      <4>. QED
        BY <1>7, <4>4, <4>5
    <3>. QED
      BY <3>1, <3>2
  <2>3. CASE x \in 1..N /\ x # at
    <3>1. tnodes'[x].next = tnodes[x].next /\ tnodes[x].next \in 0..Len(nxtMaps)
      BY <1>2, <1>3, <2>3
    <3>2. tnodes[x].next # Map
      BY <1>2, <1>4, <1>5, <1>21, <2>3, <3>1, SMTT(30)
    <3>3. tnodes[x].next # 0 => nxtMaps'[tnodes[x].next] = nxtMaps[tnodes[x].next]
      <4>1. tnodes[x].next # 0 => tnodes[x].next \in 1..Len(nxtMaps) /\ tnodes[x].next \in 1..Len(Maps)
        BY <1>4, <3>1
      <4>. QED
        BY <1>3, <1>5, <3>2, <4>1
    <3>4. Edge(x, r, y)' <=> Edge(x, r, y)
      BY <2>0, <3>1, <3>3 DEF Edge
    <3>5. CASE y \in 1..N
      <4>1. new[y] = path[y] /\ new[x] = path[x]
        BY <1>10, <2>3, <3>5
      <4>2. Edge(x, r, y) <=> path[y] = Append(path[x], r)
        BY <1>19, <2>3, <3>5
      <4>. QED
        BY <3>4, <4>1, <4>2
    <3>6. CASE y = N + 1
      <4>1. ~Edge(x, r, y)
        <5>1. ASSUME Edge(x, r, y) PROVE y \in 1..N
          BY <1>1, <2>3, <3>1, <5>1 DEF Edge, IInv, Linked
        <5>. QED
          BY <1>2, <3>6, <5>1
      <4>2. path[x] # path[at]
        BY <1>2, <1>18, <2>3
      <4>3. Append(path[at], ky) # Append(path[x], r)
        <5>1. path[x] \in Seq(Runes)
          BY <1>6, <2>3
        <5>. QED
          BY <1>9, <4>2, <5>1, SameEnd
      <4>. QED
        BY <1>10, <2>3, <3>4, <3>6, <4>1, <4>3
    <3>. QED
      BY <2>1, <3>5, <3>6
  <2>4. CASE x = at
    <3>1. tnodes'[x].next = Map /\ Map # 0 /\ nxtMaps'[Map] = Edges(ky)
      BY <1>2, <1>3, <1>4, <2>4
    <3>2. /\ DOMAIN Edges(ky) = DOMAIN Maps[Map] \cup {ky}
          /\ Edges(ky)[ky] = N + 1
          /\ \A s \in DOMAIN Maps[Map] : s # ky /\ Edges(ky)[s] = Maps[Map][s]
      BY <1>1 DEF Edges
    <3>3. CASE y = N + 1
      <4>1. Edge(x, r, y)' <=> r = ky
        <5>1. \A s \in DOMAIN Maps[Map] : Edges(ky)[s] \in 1..N
          BY <1>4, <3>2
        <5>2. \A s \in DOMAIN Maps[Map] : Edges(ky)[s] # y
          BY <1>2, <3>3, <5>1
        <5>3. Edge(x, r, y)' <=> r \in DOMAIN Maps[Map] \cup {ky} /\ Edges(ky)[r] = y
          BY <2>0, <3>1, <3>2
        <5>. QED
          BY <3>2, <3>3, <5>2, <5>3
      <4>2. Append(path[at], ky) = Append(path[at], r) <=> r = ky
        BY <1>9, AppendApart
      <4>. QED
        BY <1>2, <1>10, <2>4, <3>3, <4>1, <4>2
    <3>4. CASE y \in 1..N
      <4>1. Edge(x, r, y)' <=> r \in DOMAIN Maps[Map] /\ Maps[Map][r] = y
        <5>1. y # N + 1
          BY <1>2, <3>4
        <5>. QED
          BY <2>0, <3>1, <3>2, <5>1, ZenonT(40)
      <4>2. Edge(x, r, y) <=> r \in DOMAIN Maps[Map] /\ Maps[Map][r] = y
        <5>1. DOMAIN <<>> = {}
          OBVIOUS
        <5>. QED
          BY <1>2, <1>4, <1>5, <2>4, <5>1 DEF Edge
      <4>. QED
        <5>1. Edge(x, r, y) <=> path[y] = Append(path[x], r)
          BY <1>2, <1>19, <2>4, <3>4
        <5>2. new[y] = path[y] /\ new[x] = path[x]
          BY <1>2, <1>10, <2>4, <3>4
        <5>. QED
          BY <4>1, <4>2, <5>1, <5>2
    <3>. QED
      BY <2>1, <3>3, <3>4
  <2>. QED
    BY <2>1, <2>2, <2>3, <2>4
<1>17. Tree(new)'
  <2>1. Nodes' = 1..N+1
    BY <1>3 DEF Nodes
  <2>. QED
    BY <1>10, <1>11, <1>12, <1>13, <1>14, <1>15, <1>16, <2>1 DEF Tree
<1>. QED
  BY <1>1, <1>2, <1>10, <1>17

\* ptNode is where the runes inserted so far lead.
AtKey(path) ==
  IF key = 0 THEN ptNode.node = 1
  ELSE i <= Len(units) /\ key <= Len(word) /\ path[ptNode.node] = SubSeq(word, 1, key)

\* The inductive invariant of the trie: its nodes are a tree, and ptNode is on the
\* way to the word being inserted.
TreeInv ==
  /\ IInv /\ WeightInv
  /\ key \in Nat /\ i \in 1..Len(units)+1
  /\ pc # "trie" => i = 1 /\ key = 0
  /\ \E path : Tree(path) /\ AtKey(path)

\* A trie with the same edges has the same paths.
LEMMA TreeSame ==
  ASSUME NEW path, Tree(path), Len(tnodes') = Len(tnodes),
         \A x \in 1..Len(tnodes) : tnodes'[x].next = tnodes[x].next, nxtMaps' = nxtMaps
  PROVE  Tree(path)'
<1>1. Nodes' = Nodes
  BY DEF Nodes
<1>2. \A x \in Nodes : \A r, y : Edge(x, r, y)' <=> Edge(x, r, y)
  BY DEF Edge, Nodes
<1>3. \A x \in Nodes : tnodes'[x].next = tnodes[x].next
  BY DEF Nodes
<1>4. /\ path \in [Nodes' -> Seq(Runes)] /\ path[1] = <<>>
      /\ \A x, y \in Nodes' : path[x] = path[y] => x = y
      /\ \A y \in Nodes' \ {1} : \E x \in 1..y-1 : \E r \in Runes : path[y] = Append(path[x], r)
  BY <1>1 DEF Tree
<1>5. \A x, y \in Nodes' : \A r \in Runes : Edge(x, r, y)' <=> path[y] = Append(path[x], r)
  BY <1>1, <1>2 DEF Tree
<1>6. \A x, y \in Nodes' : tnodes'[x].next = tnodes'[y].next /\ tnodes'[x].next # 0 => x = y
  BY <1>1, <1>3, SMTT(30) DEF Tree
<1>7. \A k \in 1..Len(nxtMaps') : DOMAIN nxtMaps'[k] \subseteq Runes
  BY DEF Tree
<1>. QED
  BY <1>4, <1>5, <1>6, <1>7 DEF Tree

\* The word being inserted is a sequence of runes.
LEMMA WordType ==
  ASSUME WeightInv, i \in 1..Len(units)
  PROVE  word \in Seq(Runes) /\ Len(word) \in Nat /\ \A k \in 1..Len(word) : word[k] \in Runes
<1>1. \A u \in Unit : u.word \in Seq(Runes)
  BY DEF Unit
<1>2. units[i] \in Unit
  BY DEF WeightInv
<1>3. word \in Seq(Runes)
  BY <1>1, <1>2 DEF word
<1>. QED
  BY <1>3

\* The end of a word changes the value of one node, and no link.
LEMMA EndInsertParts ==
  ASSUME IInv, EndInsert
  PROVE  /\ Len(tnodes') = Len(tnodes) /\ nxtMaps' = nxtMaps /\ tnodes' \in Seq(Node)
         /\ \A x \in 1..Len(tnodes) :
              /\ tnodes'[x].next = tnodes[x].next
              /\ tnodes'[x].ptValue = IF x = ptNode.node /\ word # <<>> THEN i ELSE tnodes[x].ptValue
<1>1. /\ tnodes \in Seq(Node) /\ ptNode.node \in 1..Len(tnodes) /\ i \in Nat
      /\ tnodes[ptNode.node] \in Node
  BY DEF IInv
<1>2. PICK v : v = [tnodes[ptNode.node] EXCEPT !.ptValue = i]
  OBVIOUS
<1>3. v \in Node /\ v.next = tnodes[ptNode.node].next /\ v.ptValue = i
  BY <1>1, <1>2 DEF Node
<1>4. tnodes' = IF word = <<>> THEN tnodes ELSE [tnodes EXCEPT ![ptNode.node] = v]
  BY <1>2 DEF EndInsert
<1>5. nxtMaps' = nxtMaps
  BY DEF EndInsert
<1>6. CASE word = <<>>
  BY <1>1, <1>4, <1>5, <1>6
<1>7. CASE word # <<>>
  <2>1. PICK t : t = [tnodes EXCEPT ![ptNode.node] = v]
    OBVIOUS
  <2>2. /\ t \in Seq(Node) /\ Len(t) = Len(tnodes)
        /\ \A x \in 1..Len(tnodes) : t[x] = IF x = ptNode.node THEN v ELSE tnodes[x]
    BY <1>1, <1>3, <2>1, NodeExcept
  <2>3. tnodes' = t
    BY <1>4, <1>7, <2>1
  <2>. QED
    BY <1>3, <1>5, <1>7, <2>2, <2>3
<1>. QED
  BY <1>6, <1>7

LEMMA EndInsertTree == ASSUME TreeInv, EndInsert, WeightInv', pc' = pc, pc = "trie" PROVE TreeInv'
<1>1. PICK path : Tree(path)
  BY DEF TreeInv
<1>2. IInv'
  BY EndInsertIInv DEF TreeInv
<1>3. Tree(path)'
  BY <1>1, EndInsertParts, TreeSame DEF TreeInv
<1>4. AtKey(path)'
  BY DEF AtKey, EndInsert, Point
<1>5. key' \in Nat /\ i' \in 1..Len(units')+1
  BY SMTT(30) DEF EndInsert, TreeInv, WeightInv
<1>. QED
  BY <1>2, <1>3, <1>4, <1>5 DEF TreeInv

\* Where ptNode is, as a path, whether or not a rune has been inserted.
LEMMA AtPrefix ==
  ASSUME TreeInv, i <= Len(units), key <= Len(word), NEW path, Tree(path), AtKey(path)
  PROVE  ptNode.node \in Nodes /\ path[ptNode.node] = SubSeq(word, 1, key)
<1>1. word \in Seq(Runes) /\ i \in 1..Len(units)
  <2>1. i \in 1..Len(units)
    BY DEF TreeInv
  <2>. QED
    BY <2>1, WordType DEF TreeInv
<1>2. ptNode.node \in Nodes
  BY DEF TreeInv, IInv, Nodes
<1>3. CASE key = 0
  <2>1. SubSeq(word, 1, 0) = <<>>
    BY <1>1
  <2>. QED
    BY <1>2, <1>3, <2>1 DEF AtKey, Tree
<1>. QED
  BY <1>2, <1>3 DEF AtKey

LEMMA InsertKeyTree == ASSUME TreeInv, InsertKey, WeightInv', pc' = pc, pc = "trie" PROVE TreeInv'
<1>1. PICK path : Tree(path) /\ AtKey(path)
  BY DEF TreeInv
<1>2. PICK ky : ky = word[key + 1]
  OBVIOUS
<1>3. /\ i' = i /\ key' = key + 1 /\ units' = units /\ i <= Len(units) /\ key < Len(word)
      /\ \/ /\ ky \in DOMAIN Maps[Map]
            /\ tnodes' = tnodes /\ nxtMaps' = nxtMaps
            /\ ptNode'.node = Maps[Map][ky]
         \/ /\ ky \notin DOMAIN Maps[Map]
            /\ nxtMaps' = [Maps EXCEPT ![Map] = Edges(ky)]
            /\ tnodes' = Append([tnodes EXCEPT ![ptNode.node] = Up], NewNode)
            /\ ptNode'.node = Len(tnodes) + 1
  <2>. DEFINE kz == word[key + 1]
  <2>1. /\ i' = i /\ key' = key + 1 /\ units' = units /\ i <= Len(units) /\ key < Len(word)
        /\ \/ /\ kz \in DOMAIN Maps[Map]
              /\ UNCHANGED <<tnodes, nxtMaps>>
              /\ ptNode' = [buffer |-> buffer', node |-> Maps[Map][kz]]
           \/ /\ kz \notin DOMAIN Maps[Map]
              /\ nxtMaps' = [Maps EXCEPT ![Map] = Edges(kz)]
              /\ tnodes' = Append([tnodes EXCEPT ![ptNode.node] = Up], NewNode)
              /\ ptNode' = [buffer |-> buffer', node |-> Len(tnodes) + 1]
    BY DEF InsertKey, Point, Maps, Map, Next0, Edges, Up
  <2>2. ky = kz
    BY <1>2
  <2>. HIDE DEF kz
  <2>. QED
    BY <2>1, <2>2
<1>4. /\ i \in 1..Len(units) /\ key \in 0..Len(word)-1 /\ word \in Seq(Runes) /\ ky \in Runes
      /\ Len(units) \in Nat
  <2>1. i \in 1..Len(units) /\ key \in Nat /\ Len(units) \in Nat
    BY <1>3 DEF TreeInv, WeightInv
  <2>2. word \in Seq(Runes) /\ Len(word) \in Nat /\ \A k \in 1..Len(word) : word[k] \in Runes
    BY <2>1, WordType DEF TreeInv
  <2>. QED
    BY <1>2, <1>3, <2>1, <2>2
<1>5. Append(path[ptNode.node], ky) = SubSeq(word, 1, key + 1) /\ ptNode.node \in Nodes
  <2>1. ptNode.node \in Nodes /\ path[ptNode.node] = SubSeq(word, 1, key)
    <3>1. key <= Len(word) /\ i <= Len(units)
      BY <1>3, <1>4
    <3>. QED
      BY <1>1, <3>1, AtPrefix
  <2>. QED
    BY <1>2, <1>4, <2>1, SubSeqAppend
<1>6. word' = word
  BY <1>3 DEF word
<1>7. IInv'
  BY InsertKeyIInv DEF TreeInv
<1>8. key' \in Nat /\ i' \in 1..Len(units')+1
  BY <1>3, <1>4
<1>9. ASSUME NEW new, Tree(new)', new[ptNode'.node] = SubSeq(word, 1, key + 1)
      PROVE  TreeInv'
  <2>1. AtKey(new)'
    <3>1. key' # 0 /\ i' <= Len(units') /\ key' <= Len(word')
      BY <1>3, <1>4, <1>6
    <3>2. new[ptNode'.node] = SubSeq(word', 1, key')
      BY <1>3, <1>6, <1>9
    <3>. QED
      BY <3>1, <3>2 DEF AtKey
  <2>. QED
    BY <1>7, <1>8, <1>9, <2>1 DEF TreeInv
<1>10. CASE ky \in DOMAIN Maps[Map]
  <2>1. tnodes' = tnodes /\ nxtMaps' = nxtMaps /\ ptNode'.node = Maps[Map][ky]
    BY <1>3, <1>10
  <2>2. Tree(path)'
    BY <1>1, <2>1, TreeSame
  <2>3. Maps[Map][ky] \in Nodes /\ Map \in 1..Len(Maps)
    BY <1>10, MapLinked DEF Nodes, TreeInv
  <2>4. Next0 # 0
    <3>1. SUFFICES ASSUME Next0 = 0 PROVE FALSE
      OBVIOUS
    <3>2. Maps[Map] = <<>>
      BY <3>1, AppendIsSeq DEF Maps, Map, TreeInv, IInv
    <3>3. DOMAIN <<>> = {}
      OBVIOUS
    <3>. QED
      BY <1>10, <3>2, <3>3
  <2>5. Edge(ptNode.node, ky, Maps[Map][ky])
    BY <1>10, <2>4 DEF Edge, Maps, Map, Next0
  <2>6. path[Maps[Map][ky]] = Append(path[ptNode.node], ky)
    BY <1>1, <1>4, <1>5, <2>3, <2>5 DEF Tree
  <2>. QED
    BY <1>5, <1>9, <2>1, <2>2, <2>6
<1>11. CASE ky \notin DOMAIN Maps[Map]
  <2>1. /\ nxtMaps' = [Maps EXCEPT ![Map] = Edges(ky)]
        /\ tnodes' = Append([tnodes EXCEPT ![ptNode.node] = Up], NewNode)
        /\ ptNode'.node = Len(tnodes) + 1
    BY <1>3, <1>11
  <2>2. IInv
    BY DEF TreeInv
  <2>3. PICK new : Tree(new)' /\ new[Len(tnodes) + 1] = Append(path[ptNode.node], ky)
    BY <1>1, <1>4, <1>11, <2>1, <2>2, GrowTree
  <2>. QED
    BY <1>5, <1>9, <2>1, <2>3
<1>. QED
  BY <1>10, <1>11

LEMMA InitTree == Init => TreeInv
<1>. SUFFICES ASSUME Init PROVE TreeInv
  OBVIOUS
<1>1. IInv /\ WeightInv
  BY InitIInv, InitWeightInv
<1>2. PICK path : path = [x \in 1..1 |-> <<>>]
  OBVIOUS
<1>3. /\ tnodes = <<NewNode>> /\ nxtMaps = <<>> /\ ptNode.node = 1
      /\ i = 1 /\ key = 0 /\ units = <<>> /\ pc = "dict"
  BY DEF Init, TrieInit
<1>4. Len(tnodes) = 1 /\ tnodes[1].next = 0 /\ Nodes = 1..1 /\ Len(nxtMaps) = 0
  BY <1>3 DEF NewNode, Nodes
<1>5. path \in [Nodes -> Seq(Runes)] /\ path[1] = <<>> /\ \A x \in Nodes : x = 1
  <2>1. <<>> \in Seq(Runes)
    OBVIOUS
  <2>. QED
    BY <1>2, <1>4, <2>1
<1>6. Tree(path)
  <2>1. \A r \in Runes : Append(<<>>, r) # <<>>
    BY AppendApart
  <2>2. \A x, y \in Nodes : \A r : ~Edge(x, r, y)
    BY <1>4, <1>5 DEF Edge
  <2>3. \A x, y \in Nodes : \A r \in Runes : path[y] # Append(path[x], r)
    BY <1>5, <2>1
  <2>4. \A x, y \in Nodes : x = y
    BY <1>5
  <2>5. Nodes \ {1} = {} /\ 1..Len(nxtMaps) = {}
    BY <1>4
  <2>. QED
    BY <1>5, <2>2, <2>3, <2>4, <2>5 DEF Tree
<1>7. Len(units) = 0 /\ i \in 1..Len(units)+1
  BY <1>3
<1>. QED
  BY <1>1, <1>3, <1>6, <1>7 DEF TreeInv, AtKey

\* Reading the files leaves the root where it is.
LEMMA NextTree == TreeInv /\ [Next]_vars => TreeInv'
<1>. SUFFICES ASSUME TreeInv, [Next]_vars PROVE TreeInv'
  OBVIOUS
<1>1. IInv' /\ WeightInv'
  BY NextIInv, NextWeightInv DEF TreeInv
<1>2. PICK path : Tree(path) /\ AtKey(path)
  BY DEF TreeInv
<1>3. ASSUME tnodes' = tnodes, nxtMaps' = nxtMaps, i' = i, key' = key
      PROVE  Tree(path)' /\ key' \in Nat
  BY <1>2, <1>3, TreeSame DEF TreeInv
<1>4. ASSUME tnodes' = tnodes, nxtMaps' = nxtMaps, i' = i, key' = key,
             ptNode'.node = ptNode.node \/ ptNode'.node = 1, pc # "trie"
      PROVE  TreeInv'
  <2>1. i = 1 /\ key = 0 /\ ptNode.node = 1
    BY <1>2, <1>4 DEF TreeInv, AtKey
  <2>2. AtKey(path)'
    BY <1>4, <2>1 DEF AtKey
  <2>3. Len(units') \in Nat
    BY <1>1 DEF WeightInv
  <2>. QED
    BY <1>1, <1>3, <1>4, <2>1, <2>2, <2>3 DEF TreeInv
<1>5. CASE UNCHANGED vars
  <2>1. /\ tnodes' = tnodes /\ nxtMaps' = nxtMaps /\ i' = i /\ key' = key
        /\ ptNode' = ptNode /\ units' = units /\ pc' = pc
    BY <1>5 DEF vars, trieVars
  <2>2. AtKey(path)'
    BY <1>2, <2>1 DEF AtKey, word
  <2>. QED
    BY <1>1, <1>3, <2>1, <2>2 DEF TreeInv
<1>6. CASE LoadDict \/ CalculateWeight \/ SetStaticWordWeights \/ LoadUserDict
  <2>1. /\ tnodes' = tnodes /\ nxtMaps' = nxtMaps /\ i' = i /\ key' = key
        /\ ptNode' = ptNode /\ pc # "trie"
    BY <1>6 DEF LoadDict, CalculateWeight, SetStaticWordWeights, LoadUserDict, trieVars
  <2>. QED
    BY <1>4, <2>1
<1>7. CASE MakeTrie
  <2>1. /\ tnodes' = tnodes /\ nxtMaps' = nxtMaps /\ i' = i /\ key' = key
        /\ ptNode'.node = 1 /\ pc # "trie"
    BY <1>7 DEF MakeTrie, CreateTrie, Point
  <2>. QED
    BY <1>4, <2>1
<1>8. CASE Insert
  <2>1. pc' = pc /\ pc = "trie" /\ (InsertKey \/ EndInsert)
    BY <1>8 DEF Insert
  <2>. QED
    BY <1>1, <2>1, InsertKeyTree, EndInsertTree
<1>. QED
  BY <1>5, <1>6, <1>7, <1>8 DEF Next

\* The end of a word, one rune longer or not there.
LEMMA LastRune ==
  ASSUME NEW s \in Seq(Runes), NEW t \in Seq(Runes), NEW n \in Nat, Len(t) = n + 1
  PROVE  \E u \in Seq(Runes) : \E r \in Runes : Len(u) = n /\ s \o t = Append(s \o u, r)
<1>. DEFINE R == Runes
<1>. HIDE DEF R
<1>1. s \in Seq(R) /\ t \in Seq(R)
  BY DEF R
<1>2. t # <<>>
  BY <1>1, EmptySeq
<1>3. PICK u \in Seq(R), r \in R : t = Append(u, r)
  BY <1>1, <1>2, SequenceEmptyOrAppend
<1>4. Len(u) = n
  <2>1. Len(t) = Len(u) + 1 /\ Len(u) \in Nat
    BY <1>3, AppendProperties, LenProperties
  <2>. QED
    BY <2>1
<1>5. s \o t = Append(s \o u, r)
  <2>1. t = u \o <<r>> /\ <<r>> \in Seq(R)
    BY <1>3, AppendIsConcat
  <2>2. s \o u \in Seq(R)
    BY <1>1, ConcatProperties
  <2>3. Append(s \o u, r) = (s \o u) \o <<r>>
    BY <2>2, AppendIsConcat
  <2>. QED
    BY <1>1, <2>1, <2>3, ConcatAssociative
<1>. QED
  BY <1>4, <1>5 DEF R

\* The first rune of a word and the rest.
LEMMA FirstRune ==
  ASSUME NEW t \in Seq(Runes)
  PROVE  t = <<>> \/ \E r \in Runes : \E u \in Seq(Runes) : t = <<r>> \o u
<1>. DEFINE R == Runes
<1>. HIDE DEF R
<1>1. t \in Seq(R)
  BY DEF R
<1>2. ASSUME t # <<>> PROVE \E r \in R : \E u \in Seq(R) : t = <<r>> \o u
  <2>1. Len(t) \in Nat \ {0}
    BY <1>1, <1>2, EmptySeq
  <2>2. t[1] \in R
    BY <1>1, <2>1
  <2>3. SubSeq(t, 1, Len(t)) = <<t[1]>> \o SubSeq(t, 1 + 1, Len(t))
    BY <1>1, <2>1, SubSeqRecursiveFirst
  <2>4. SubSeq(t, 1, Len(t)) = t
    BY <1>1, SubSeqFull
  <2>5. SubSeq(t, 1 + 1, Len(t)) \in Seq(R)
    BY <1>1, <2>1
  <2>. QED
    BY <2>2, <2>3, <2>4, <2>5
<1>. QED
  BY <1>2 DEF R

\* The beginnings of the words of a tree are there too.
LEMMA Beginnings ==
  ASSUME NEW path, Tree(path), Len(tnodes) \in Nat,
         NEW y \in Nodes, NEW s \in Seq(Runes), NEW t \in Seq(Runes), path[y] = s \o t
  PROVE  \E x \in Nodes : path[x] = s
<1>. DEFINE P(n) == \A z \in Nodes : \A u \in Seq(Runes) :
                      Len(u) = n /\ path[z] = s \o u => \E x \in Nodes : path[x] = s
            T == {n \in Nat : P(n)}
<1>1. P(0)
  <2>. SUFFICES ASSUME NEW z \in Nodes, NEW u \in Seq(Runes), Len(u) = 0, path[z] = s \o u
       PROVE  path[z] = s
    OBVIOUS
  <2>. DEFINE R == Runes
  <2>. HIDE DEF R
  <2>1. u \in Seq(R) /\ s \in Seq(R)
    BY DEF R
  <2>2. u = <<>>
    BY <2>1, EmptySeq
  <2>. QED
    BY <2>1, <2>2, ConcatEmptySeq
<1>2. ASSUME NEW n \in Nat, P(n) PROVE P(n + 1)
  <2>. SUFFICES ASSUME NEW z \in Nodes, NEW u \in Seq(Runes), Len(u) = n + 1, path[z] = s \o u
       PROVE  \E x \in Nodes : path[x] = s
    OBVIOUS
  <2>1. PICK v \in Seq(Runes), r \in Runes : Len(v) = n /\ s \o u = Append(s \o v, r)
    BY LastRune
  <2>2. s \o v \in Seq(Runes)
    BY ConcatProperties
  <2>3. path[z] = Append(s \o v, r) /\ path[z] # <<>>
    BY <2>1, <2>2, AppendApart
  <2>4. z \in Nodes \ {1}
    BY <2>3 DEF Tree
  <2>5. PICK x \in 1..z-1, q \in Runes : path[z] = Append(path[x], q)
    BY <2>4 DEF Tree
  <2>6. x \in Nodes
    BY <2>5 DEF Nodes
  <2>7. path[x] = s \o v
    <3>1. path[x] \in Seq(Runes)
      BY <2>6 DEF Tree
    <3>2. PICK p, w : p = path[x] /\ w = s \o v
      OBVIOUS
    <3>3. p \in Seq(Runes) /\ w \in Seq(Runes) /\ Append(p, q) = Append(w, r)
      BY <2>2, <2>3, <2>5, <3>1, <3>2
    <3>4. p = w
      BY <3>3, SameEnd
    <3>. QED
      BY <3>2, <3>4
  <2>. QED
    BY <1>2, <2>1, <2>6, <2>7
<1>3. \A n \in Nat : P(n)
  <2>. HIDE DEF P
  <2>1. T \in SUBSET Nat /\ 0 \in T /\ \A n \in T : n + 1 \in T
    BY <1>1, <1>2
  <2>2. T = Nat
    BY <2>1, Induction
  <2>. QED
    BY <2>2
<1>. QED
  <2>1. Len(t) \in Nat
    OBVIOUS
  <2>. QED
    BY <1>3, <2>1

\* A node's children come after it.
LEMMA ChildAfter ==
  ASSUME NEW path, Tree(path), Len(tnodes) \in Nat,
         NEW x \in Nodes, NEW y \in Nodes, NEW r \in Runes, path[y] = Append(path[x], r)
  PROVE  y \in x+1..Len(tnodes)
<1>1. path[x] \in Seq(Runes) /\ path[1] = <<>>
  BY DEF Tree
<1>2. y \in Nodes \ {1}
  BY <1>1, AppendApart
<1>3. PICK z \in 1..y-1, q \in Runes : path[y] = Append(path[z], q)
  BY <1>2 DEF Tree
<1>4. z \in Nodes
  BY <1>3 DEF Nodes
<1>5. path[z] \in Seq(Runes)
  BY <1>4 DEF Tree
<1>6. path[z] = path[x]
  BY <1>1, <1>3, <1>5, SameEnd, ZenonT(40)
<1>7. z = x
  BY <1>4, <1>6 DEF Tree
<1>. QED
  BY <1>3, <1>7 DEF Nodes

\* Joining runes and sequences of runes.
LEMMA RuneConcat ==
  ASSUME NEW s \in Seq(Runes), NEW r \in Runes, NEW u \in Seq(Runes)
  PROVE  /\ Append(s, r) \in Seq(Runes) /\ <<r>> \o u \in Seq(Runes) /\ <<r>> \o u # <<>>
         /\ Append(s, r) \o u = s \o (<<r>> \o u)
<1>. DEFINE R == Runes
<1>. HIDE DEF R
<1>1. s \in Seq(R) /\ u \in Seq(R) /\ r \in R
  BY DEF R
<1>2. <<r>> \in Seq(R) /\ <<r>> # <<>>
  BY <1>1
<1>3. Append(s, r) = s \o <<r>> /\ Append(s, r) \in Seq(R)
  BY <1>1, AppendIsConcat, AppendProperties
<1>4. <<r>> \o u \in Seq(R)
  BY <1>1, <1>2, ConcatProperties
<1>5. <<r>> \o u # <<>>
  BY <1>1, <1>2, ConcatEqualIffEmpty
<1>6. (s \o <<r>>) \o u = s \o (<<r>> \o u)
  BY <1>1, <1>2, ConcatAssociative
<1>. QED
  BY <1>3, <1>4, <1>5, <1>6 DEF R

\* the words below a node, from there on, with their units
Words(path, x) ==
  {p \in Seq(Runes) \X (Nat \ {0}) :
     \E y \in Nodes : path[y] = path[x] \o p[1] /\ tnodes[y].ptValue = p[2]}

\* what Held collects at a node
Beneath(f, x) ==
  LET value == tnodes[x].ptValue
      next  == tnodes[x].next
  IN  (IF value = 0 THEN {} ELSE {<<<<>>, value>>})
        \cup IF next = 0 THEN {}
             ELSE UNION {{<<<<r>> \o p[1], p[2]>> : p \in f[nxtMaps[next][r]]}
                           : r \in DOMAIN nxtMaps[next]}

\* An edge leads to a node below, by one rune.
LEMMA EdgeDown ==
  ASSUME IInv, NEW path, Tree(path), NEW x \in Nodes, NEW r, NEW y,
         tnodes[x].next # 0, r \in DOMAIN nxtMaps[tnodes[x].next],
         y = nxtMaps[tnodes[x].next][r]
  PROVE  /\ r \in Runes /\ y \in Nodes /\ path[y] = Append(path[x], r)
         /\ y \in x+1..Len(tnodes)
<1>1. tnodes[x].next \in 1..Len(nxtMaps) /\ y \in Nodes /\ Len(tnodes) \in Nat
  <2>1. Len(nxtMaps) \in Nat /\ Len(tnodes) \in Nat
    BY AppendIsSeq DEF IInv
  <2>2. tnodes[x].next \in 1..Len(nxtMaps)
    BY <2>1 DEF IInv, Linked, Nodes
  <2>. QED
    BY <2>1, <2>2 DEF IInv, Linked, Nodes
<1>2. r \in Runes
  BY <1>1 DEF Tree
<1>3. Edge(x, r, y)
  BY DEF Edge
<1>4. path[y] = Append(path[x], r)
  BY <1>1, <1>2, <1>3 DEF Tree
<1>. QED
  BY <1>1, <1>2, <1>4, ChildAfter

\* Beneath is what its recursion says.
LEMMA BeneathDef ==
  ASSUME NEW f, NEW x, NEW p
  PROVE  p \in Beneath(f, x) <=>
           \/ tnodes[x].ptValue # 0 /\ p = <<<<>>, tnodes[x].ptValue>>
           \/ /\ tnodes[x].next # 0
              /\ \E r \in DOMAIN nxtMaps[tnodes[x].next] :
                   \E q \in f[nxtMaps[tnodes[x].next][r]] : p = <<<<r>> \o q[1], q[2]>>
<1>. DEFINE value == tnodes[x].ptValue
            next == tnodes[x].next
            D == DOMAIN nxtMaps[next]
            m == nxtMaps[next]
            below == UNION {{<<<<r>> \o q[1], q[2]>> : q \in f[m[r]]} : r \in D}
<1>6. Beneath(f, x) = (IF value = 0 THEN {} ELSE {<<<<>>, value>>})
                        \cup IF next = 0 THEN {} ELSE below
  BY DEF Beneath
<1>3. p \in below <=> \E r \in D : p \in {<<<<r>> \o q[1], q[2]>> : q \in f[m[r]]}
  BY Zenon
<1>4. \A r \in D : p \in {<<<<r>> \o q[1], q[2]>> : q \in f[m[r]]}
                    <=> \E q \in f[m[r]] : p = <<<<r>> \o q[1], q[2]>>
  BY Zenon
<1>5. p \in below <=> \E r \in D : \E q \in f[m[r]] : p = <<<<r>> \o q[1], q[2]>>
  BY <1>3, <1>4, Zenon
<1>7. p \in Beneath(f, x) <=> (value # 0 /\ p = <<<<>>, value>>) \/ (next # 0 /\ p \in below)
  <2>. HIDE DEF Beneath, value, next, below
  <2>1. PICK b : b = <<<<>>, value>>
    OBVIOUS
  <2>. QED
    BY <1>6, <2>1, Zenon
<1>. QED
  BY <1>5, <1>7, Zenon

\* Beneath a node are the words whose beginning leads to it.
LEMMA BeneathRight ==
  ASSUME IInv, NEW path, Tree(path), NEW x \in Nodes, NEW f,
         \A y \in x+1..Len(tnodes) : f[y] = Words(path, y)
  PROVE  Beneath(f, x) = Words(path, x)
<1>1. Len(tnodes) \in Nat /\ \A y \in Nodes : tnodes[y].ptValue \in Nat
  <2>1. \A n \in Node : n.ptValue \in Nat
    BY DEF Node
  <2>2. Len(tnodes) \in Nat /\ \A y \in Nodes : tnodes[y] \in Node
    BY DEF IInv, Nodes
  <2>. QED
    BY <2>1, <2>2
<1>2. \A y \in Nodes : path[y] \in Seq(Runes) /\ path[y] \o <<>> = path[y]
  <2>1. \A y \in Nodes : path[y] \in Seq(Runes)
    BY DEF Tree
  <2>. QED
    BY <2>1, ConcatEmptySeq
<1>3. ASSUME NEW p \in Beneath(f, x) PROVE p \in Words(path, x)
  <2>1. CASE tnodes[x].ptValue # 0 /\ p = <<<<>>, tnodes[x].ptValue>>
    <3>1. <<>> \in Seq(Runes) /\ p[1] = <<>> /\ p[2] = tnodes[x].ptValue
      BY <2>1
    <3>2. p \in Seq(Runes) \X (Nat \ {0})
      BY <1>1, <2>1, <3>1
    <3>. QED
      BY <1>2, <3>1, <3>2 DEF Words
  <2>2. ASSUME tnodes[x].next # 0, NEW r \in DOMAIN nxtMaps[tnodes[x].next],
               NEW q \in f[nxtMaps[tnodes[x].next][r]], p = <<<<r>> \o q[1], q[2]>>
        PROVE  p \in Words(path, x)
    <3>1. PICK y : y = nxtMaps[tnodes[x].next][r]
      OBVIOUS
    <3>2. /\ r \in Runes /\ y \in Nodes /\ path[y] = Append(path[x], r)
          /\ y \in x+1..Len(tnodes)
      BY <2>2, <3>1, EdgeDown
    <3>3. q \in Words(path, y)
      BY <2>2, <3>1, <3>2
    <3>4. /\ q[1] \in Seq(Runes) /\ q[2] \in Nat \ {0}
          /\ \E z \in Nodes : path[z] = path[y] \o q[1] /\ tnodes[z].ptValue = q[2]
      BY <3>3 DEF Words
    <3>5. PICK u : u = <<r>> \o q[1]
      OBVIOUS
    <3>6. u \in Seq(Runes) /\ path[y] \o q[1] = path[x] \o u
      <4>1. PICK a, b : a = path[x] /\ b = q[1]
        OBVIOUS
      <4>2. <<r>> \o b \in Seq(Runes) /\ Append(a, r) \o b = a \o (<<r>> \o b)
        <5>1. a \in Seq(Runes) /\ b \in Seq(Runes) /\ r \in Runes
          BY <1>2, <3>2, <3>4, <4>1
        <5>. QED
          BY <5>1, RuneConcat
      <4>. QED
        BY <3>2, <3>5, <4>1, <4>2
    <3>7. p = <<u, q[2]>>
      BY <2>2, <3>5
    <3>8. p \in Seq(Runes) \X (Nat \ {0}) /\ p[1] = u /\ p[2] = q[2]
      BY <3>4, <3>6, <3>7
    <3>. QED
      BY <3>4, <3>6, <3>8 DEF Words
  <2>. QED
    BY <2>1, <2>2, BeneathDef
<1>4. ASSUME NEW p \in Words(path, x) PROVE p \in Beneath(f, x)
  <2>1. PICK y \in Nodes : path[y] = path[x] \o p[1] /\ tnodes[y].ptValue = p[2]
    BY DEF Words
  <2>2. /\ p[1] \in Seq(Runes) /\ p[2] # 0 /\ p[2] \in Nat \ {0} /\ p = <<p[1], p[2]>>
    BY DEF Words
  <2>3. CASE p[1] = <<>>
    <3>1. y = x
      BY <1>2, <2>1, <2>3 DEF Tree
    <3>. QED
      BY <2>1, <2>2, <2>3, <3>1, BeneathDef
  <2>4. ASSUME NEW r \in Runes, NEW u \in Seq(Runes), p[1] = <<r>> \o u
        PROVE  p \in Beneath(f, x)
    <3>1. path[y] = Append(path[x], r) \o u /\ Append(path[x], r) \in Seq(Runes)
      <4>1. PICK a : a = path[x]
        OBVIOUS
      <4>2. Append(a, r) \in Seq(Runes) /\ Append(a, r) \o u = a \o (<<r>> \o u)
        BY <1>2, <4>1, RuneConcat
      <4>. QED
        BY <2>1, <2>4, <4>1, <4>2
    <3>2. PICK z \in Nodes : path[z] = Append(path[x], r)
      BY <1>1, <3>1, Beginnings
    <3>3. z \in x+1..Len(tnodes) /\ Edge(x, r, z)
      <4>1. z \in x+1..Len(tnodes)
        BY <1>1, <3>2, ChildAfter
      <4>. QED
        BY <3>2, <4>1 DEF Tree
    <3>4. <<u, p[2]>> \in Words(path, z)
      BY <2>1, <2>2, <3>1, <3>2 DEF Words
    <3>5. <<u, p[2]>> \in f[z]
      BY <3>3, <3>4
    <3>6. /\ tnodes[x].next # 0 /\ r \in DOMAIN nxtMaps[tnodes[x].next]
          /\ nxtMaps[tnodes[x].next][r] = z
      BY <3>3 DEF Edge
    <3>7. PICK q : q = <<u, p[2]>>
      OBVIOUS
    <3>8. q \in f[nxtMaps[tnodes[x].next][r]] /\ p = <<<<r>> \o q[1], q[2]>>
      BY <2>2, <2>4, <3>5, <3>6, <3>7
    <3>. QED
      BY <3>6, <3>8, BeneathDef
  <2>. QED
    BY <2>2, <2>3, <2>4, FirstRune
<1>. QED
  BY <1>3, <1>4

\* The words a trie with these paths holds.
Entries(path) ==
  {p \in Seq(Runes) \X (Nat \ {0}) : \E y \in Nodes : path[y] = p[1] /\ tnodes[y].ptValue = p[2]}

\* Held are the paths of the nodes that have a unit.
LEMMA HeldRight == ASSUME IInv, NEW path, Tree(path) PROVE Held = Entries(path)
<1>. DEFINE F(g) == [node \in 1..Len(tnodes) |-> Beneath(g, node)]
            below == CHOOSE g : g = F(g)
            N == Len(tnodes)
<1>1. Held = below[1]
  BY DEF Held, Beneath
<1>. HIDE DEF below
<1>2. N \in Nat /\ N >= 1 /\ Nodes = 1..N
  <2>1. N \in Nat /\ N # 0
    BY DEF IInv
  <2>. QED
    BY <2>1 DEF Nodes
<1>. HIDE DEF N
<1>3. \A g : F(g) = [node \in 1..N |-> Beneath(g, node)]
  BY DEF N
<1>4. PICK b : b = [x \in 1..N |-> Words(path, x)]
  OBVIOUS
<1>5. b = F(b)
  <2>1. ASSUME NEW x \in 1..N PROVE Beneath(b, x) = Words(path, x)
    <3>1. \A y \in x+1..N : b[y] = Words(path, y)
      BY <1>2, <1>4
    <3>. QED
      BY <1>2, <3>1, BeneathRight DEF N
  <2>. QED
    BY <1>3, <1>4, <2>1
<1>6. below = F(below)
  <2>. HIDE DEF F
  <2>. QED
    BY <1>5 DEF below
<1>7. \A x \in 1..N : below[x] = Beneath(below, x)
  BY <1>3, <1>6
<1>. HIDE DEF F
<1>8. \A x \in 1..N : below[x] = Words(path, x)
  <2>. DEFINE P(k) == \A x \in 1..N : x > N - k => below[x] = Words(path, x)
              T == {k \in Nat : P(k)}
  <2>1. P(0)
    BY <1>2
  <2>2. ASSUME NEW k \in Nat, P(k) PROVE P(k + 1)
    <3>. SUFFICES ASSUME NEW x \in 1..N, x > N - (k + 1) PROVE below[x] = Words(path, x)
      OBVIOUS
    <3>1. \A y \in x+1..N : below[y] = Words(path, y)
      <4>. TAKE y \in x+1..N
      <4>1. y \in 1..N /\ y > N - k
        BY <1>2
      <4>. QED
        BY <2>2, <4>1
    <3>. QED
      BY <1>2, <1>7, <3>1, BeneathRight DEF N
  <2>3. \A k \in Nat : P(k)
    <3>. HIDE DEF P
    <3>1. T \in SUBSET Nat /\ 0 \in T /\ \A k \in T : k + 1 \in T
      BY <2>1, <2>2
    <3>2. T = Nat
      BY <3>1, Induction
    <3>. QED
      BY <3>2
  <2>4. P(N)
    BY <1>2, <2>3
  <2>. QED
    BY <1>2, <2>4
<1>9. Words(path, 1) = Entries(path)
  <2>1. path[1] = <<>>
    BY DEF Tree
  <2>2. \A s \in Seq(Runes) : <<>> \o s = s
    BY ConcatEmptySeq
  <2>3. \A p \in Seq(Runes) \X (Nat \ {0}) : path[1] \o p[1] = p[1]
    BY <2>1, <2>2
  <2>. QED
    BY <2>3 DEF Words, Entries
<1>. QED
  BY <1>1, <1>2, <1>8, <1>9

\* The words and their units: at most one unit for each.
LEMMA HeldOnce ==
  ASSUME IInv, NEW path, Tree(path), NEW y \in Nodes, NEW v
  PROVE  <<path[y], v>> \in Held <=> tnodes[y].ptValue = v /\ v # 0
<1>1. path[y] \in Seq(Runes) /\ tnodes[y].ptValue \in Nat
  <2>1. \A n \in Node : n.ptValue \in Nat
    BY DEF Node
  <2>2. tnodes[y] \in Node
    BY DEF IInv, Nodes
  <2>. QED
    BY <2>1, <2>2 DEF Tree
<1>2. \A z \in Nodes : path[z] = path[y] => z = y
  BY DEF Tree
<1>3. <<path[y], v>> \in Held <=>
        v \in Nat \ {0} /\ \E z \in Nodes : path[z] = path[y] /\ tnodes[z].ptValue = v
  <2>1. PICK p : p = <<path[y], v>>
    OBVIOUS
  <2>2. p[1] = path[y] /\ p[2] = v
    BY <2>1
  <2>3. p \in Seq(Runes) \X (Nat \ {0}) <=> v \in Nat \ {0}
    BY <1>1, <2>1
  <2>4. p \in Held <=> p \in Seq(Runes) \X (Nat \ {0})
                        /\ \E z \in Nodes : path[z] = p[1] /\ tnodes[z].ptValue = p[2]
    BY HeldRight DEF Entries
  <2>. QED
    BY <2>1, <2>2, <2>3, <2>4
<1>. QED
  BY <1>1, <1>2, <1>3

\* HeldRight of the next state.
LEMMA HeldAlways == \A path : IInv /\ Tree(path) => Held = Entries(path)
BY HeldRight

LEMMA HeldRightNext == (\A path : IInv /\ Tree(path) => Held = Entries(path))'
BY HeldAlways, PTL

\* What is an entry.
LEMMA EntriesIn ==
  ASSUME NEW path, NEW p
  PROVE  p \in Entries(path) <=>
           p \in Seq(Runes) \X (Nat \ {0}) /\ \E y \in Nodes : path[y] = p[1] /\ tnodes[y].ptValue = p[2]
BY DEF Entries

\* What is an entry of the next state.
LEMMA EntriesInNext ==
  ASSUME NEW path, NEW p
  PROVE  p \in Entries(path)' <=>
           p \in Seq(Runes) \X (Nat \ {0}) /\ \E y \in Nodes' : path[y] = p[1] /\ tnodes'[y].ptValue = p[2]
BY DEF Entries

\* The same paths and values hold the same.
LEMMA HeldSame ==
  ASSUME TreeInv, TreeInv', tnodes' = tnodes, nxtMaps' = nxtMaps
  PROVE  Held' = Held
<1>1. PICK path : Tree(path)
  BY DEF TreeInv
<1>2. Tree(path)'
  BY <1>1, TreeSame
<1>3. Held = Entries(path)
  BY <1>1, HeldRight DEF TreeInv
<1>4. Held' = Entries(path)'
  BY <1>2, HeldRightNext DEF TreeInv
<1>5. \A p : p \in Entries(path)' <=> p \in Entries(path)
  BY EntriesIn, EntriesInNext DEF Nodes
<1>6. Entries(path)' = Entries(path)
  BY <1>5 DEF Entries
<1>. QED
  BY <1>3, <1>4, <1>6

\* A rune on the way is no word's end.
LEMMA HeldGrow ==
  ASSUME TreeInv, TreeInv', InsertKey
  PROVE  Held' = Held
<1>. DEFINE ky == word[key + 1]
<1>1. /\ i <= Len(units) /\ key < Len(word)
      /\ \/ tnodes' = tnodes /\ nxtMaps' = nxtMaps
         \/ /\ ky \notin DOMAIN Maps[Map]
            /\ nxtMaps' = [Maps EXCEPT ![Map] = Edges(ky)]
            /\ tnodes' = Append([tnodes EXCEPT ![ptNode.node] = Up], NewNode)
  BY DEF InsertKey, Point, Maps, Map, Next0, Edges, Up
<1>2. ky \in Runes
  <2>1. i \in 1..Len(units) /\ key \in Nat
    BY <1>1 DEF TreeInv
  <2>2. Len(word) \in Nat /\ \A k \in 1..Len(word) : word[k] \in Runes
    BY <2>1, WordType DEF TreeInv
  <2>. QED
    BY <1>1, <2>1, <2>2
<1>. HIDE DEF ky
<1>3. CASE tnodes' = tnodes /\ nxtMaps' = nxtMaps
  BY <1>3, HeldSame
<1>4. CASE /\ ky \notin DOMAIN Maps[Map]
           /\ nxtMaps' = [Maps EXCEPT ![Map] = Edges(ky)]
           /\ tnodes' = Append([tnodes EXCEPT ![ptNode.node] = Up], NewNode)
  <2>1. PICK path : Tree(path)
    BY DEF TreeInv
  <2>2. IInv
    BY DEF TreeInv
  <2>3. PICK new : Tree(new)' /\ \A x \in Nodes : new[x] = path[x]
    BY <1>2, <1>4, <2>1, <2>2, GrowTree
  <2>4. /\ Len(tnodes') = Len(tnodes) + 1 /\ tnodes'[Len(tnodes) + 1] = NewNode
        /\ \A x \in 1..Len(tnodes) : tnodes'[x].ptValue = tnodes[x].ptValue
    BY <1>4, <2>2, GrowLinked
  <2>5. Len(tnodes) \in Nat /\ NewNode.ptValue = 0
    BY <2>2 DEF IInv, NewNode
  <2>6. Held = Entries(path)
    BY <2>1, <2>2, HeldRight
  <2>7. Held' = Entries(new)'
    BY <2>3, HeldRightNext DEF TreeInv
  <2>8. ASSUME NEW p PROVE p \in Entries(new)' <=> p \in Entries(path)
    <3>1. ASSUME p \in Seq(Runes) \X (Nat \ {0})
          PROVE  (\E y \in Nodes' : new[y] = p[1] /\ tnodes'[y].ptValue = p[2])
                   <=> \E y \in Nodes : path[y] = p[1] /\ tnodes[y].ptValue = p[2]
      <4>1. p[2] # 0
        BY <3>1
      <4>2. \A y \in Nodes' : y \in Nodes \/ tnodes'[y].ptValue = 0
        BY <2>4, <2>5 DEF Nodes
      <4>3. \A y \in Nodes : y \in Nodes' /\ new[y] = path[y] /\ tnodes'[y].ptValue = tnodes[y].ptValue
        BY <2>3, <2>4, <2>5 DEF Nodes
      <4>. QED
        BY <4>1, <4>2, <4>3
    <3>. QED
      BY <3>1, EntriesIn, EntriesInNext
  <2>9. Entries(new)' = Entries(path)
    BY <2>8 DEF Entries
  <2>. QED
    BY <2>6, <2>7, <2>9
<1>. QED
  BY <1>1, <1>3, <1>4

\* At its end the word gets the unit, and no other word loses its own.
LEMMA HeldTake ==
  ASSUME TreeInv, TreeInv', EndInsert
  PROVE  Held' = IF word = <<>> THEN Held ELSE {p \in Held : p[1] # word} \cup {<<word, i>>}
<1>1. PICK path : Tree(path) /\ AtKey(path)
  BY DEF TreeInv
<1>2. i <= Len(units) /\ key = Len(word) /\ i \in 1..Len(units) /\ i \in Nat \ {0}
  BY DEF EndInsert, TreeInv
<1>3. word \in Seq(Runes) /\ Len(word) \in Nat
  BY <1>2, WordType DEF TreeInv
<1>4. ptNode.node \in Nodes /\ path[ptNode.node] = word
  <2>1. SubSeq(word, 1, Len(word)) = word
    BY <1>3, SubSeqFull
  <2>2. key <= Len(word)
    BY <1>2, <1>3
  <2>. QED
    BY <1>1, <1>2, <2>1, <2>2, AtPrefix
<1>5. /\ Len(tnodes') = Len(tnodes) /\ nxtMaps' = nxtMaps
      /\ \A x \in 1..Len(tnodes) :
           /\ tnodes'[x].next = tnodes[x].next
           /\ tnodes'[x].ptValue = IF x = ptNode.node /\ word # <<>> THEN i ELSE tnodes[x].ptValue
  BY EndInsertParts DEF TreeInv
<1>6. Tree(path)'
  BY <1>1, <1>5, TreeSame
<1>7. Held = Entries(path) /\ Held' = Entries(path)'
  BY <1>1, <1>6, HeldRight, HeldRightNext DEF TreeInv
<1>8. /\ Nodes' = Nodes
      /\ \A x \in Nodes : tnodes'[x].ptValue
                            = IF x = ptNode.node /\ word # <<>> THEN i ELSE tnodes[x].ptValue
  BY <1>5 DEF Nodes
<1>9. CASE word = <<>>
  <2>1. \A p : p \in Entries(path)' <=> p \in Entries(path)
    BY <1>8, <1>9, EntriesIn, EntriesInNext
  <2>2. Entries(path)' = Entries(path)
    BY <2>1 DEF Entries
  <2>. QED
    BY <1>7, <1>9, <2>2
<1>10. CASE word # <<>>
  <2>1. PICK new : new = {p \in Entries(path) : p[1] # word} \cup {<<word, i>>}
    OBVIOUS
  <2>2. ASSUME NEW p PROVE p \in Entries(path)' <=> p \in new
    <3>1. p \in new <=> (p \in Entries(path) /\ p[1] # word) \/ p = <<word, i>>
      BY <2>1
    <3>2. ASSUME p = <<word, i>> PROVE p \in Entries(path)'
      <4>1. p[1] = word /\ p[2] = i /\ p \in Seq(Runes) \X (Nat \ {0})
        BY <1>2, <1>3, <3>2
      <4>. QED
        BY <1>4, <1>8, <1>10, <4>1, EntriesInNext
    <3>3. ASSUME p \in Entries(path), p[1] # word PROVE p \in Entries(path)'
      <4>1. PICK y \in Nodes : path[y] = p[1] /\ tnodes[y].ptValue = p[2]
        BY <3>3, EntriesIn
      <4>2. y # ptNode.node
        BY <1>4, <3>3, <4>1
      <4>. QED
        BY <1>8, <3>3, <4>1, <4>2, EntriesIn, EntriesInNext
    <3>4. ASSUME p \in Entries(path)', p[1] # word PROVE p \in Entries(path)
      <4>1. PICK y \in Nodes : path[y] = p[1] /\ tnodes'[y].ptValue = p[2]
        BY <1>8, <3>4, EntriesInNext
      <4>2. y # ptNode.node
        BY <1>4, <3>4, <4>1
      <4>. QED
        BY <1>8, <3>4, <4>1, <4>2, EntriesIn, EntriesInNext
    <3>5. ASSUME p \in Entries(path)', p[1] = word PROVE p = <<word, i>>
      <4>1. PICK y \in Nodes : path[y] = p[1] /\ tnodes'[y].ptValue = p[2]
        BY <1>8, <3>5, EntriesInNext
      <4>2. y = ptNode.node
        BY <1>1, <1>4, <3>5, <4>1 DEF Tree
      <4>3. p[2] = i
        BY <1>8, <1>10, <4>1, <4>2
      <4>4. p = <<p[1], p[2]>>
        BY <3>5, EntriesInNext
      <4>. QED
        BY <3>5, <4>3, <4>4
    <3>. QED
      BY <3>1, <3>2, <3>3, <3>4, <3>5
  <2>3. Entries(path)' = new
    BY <2>1, <2>2 DEF Entries
  <2>. QED
    BY <1>7, <1>10, <2>1, <2>3
<1>. QED
  BY <1>9, <1>10

\* the words of the units, in the order of the files
UnitWords == [k \in 1..Len(units) |-> units[k].word]

\* More units, with the words that were there before them: Collect.
LEMMA WordsCollect ==
  ASSUME units \in Seq(Unit), units' \in Seq(Unit), Len(units') >= Len(units),
         \A k \in 1..Len(units) : units'[k].word = units[k].word
  PROVE  Len(UnitWords') >= Len(UnitWords) /\ SubSeq(UnitWords', 1, Len(UnitWords)) = UnitWords
<1>1. \A u \in Unit : u.word \in Seq(Runes)
  BY DEF Unit
<1>2. PICK M, N : M = Len(units) /\ N = Len(units')
  OBVIOUS
<1>3. /\ M \in Nat /\ N \in Nat /\ M <= N
      /\ \A k \in 1..M : units[k].word \in Seq(Runes) /\ units'[k].word = units[k].word
      /\ \A k \in 1..N : units'[k].word \in Seq(Runes)
  <2>1. /\ M \in Nat /\ N \in Nat /\ \A k \in 1..M : units[k] \in Unit
        /\ \A k \in 1..N : units'[k] \in Unit
    BY <1>2
  <2>. QED
    BY <1>1, <1>2, <2>1
<1>4. PICK old, new : old = UnitWords /\ new = UnitWords'
  OBVIOUS
<1>5. /\ old \in Seq(Seq(Runes)) /\ Len(old) = M /\ new \in Seq(Seq(Runes)) /\ Len(new) = N
      /\ \A k \in 1..M : new[k] = old[k]
  <2>1. old = [k \in 1..M |-> units[k].word] /\ new = [k \in 1..N |-> units'[k].word]
    BY <1>2, <1>4 DEF UnitWords
  <2>. QED
    BY <1>3, <2>1
<1>6. /\ Len(SubSeq(new, 1, M)) = M /\ SubSeq(new, 1, M) \in Seq(Seq(Runes))
      /\ \A k \in 1..M : SubSeq(new, 1, M)[k] = new[k]
  BY <1>3, <1>5
<1>7. SubSeq(new, 1, M) = old
  BY <1>3, <1>5, <1>6
<1>. QED
  BY <1>3, <1>4, <1>5, <1>7

LEMMA WordsSame == ASSUME units' = units PROVE UnitWords' = UnitWords
BY DEF UnitWords

\* Every step of the dictionary is one of Lexicon, or changes nothing there.
LEMMA StepLexicon ==
  TreeInv /\ TreeInv' /\ [Next]_vars
    => [Lexical!Collect \/ Lexical!Take]_<<UnitWords, i - 1, Held>>
<1>. SUFFICES ASSUME TreeInv, TreeInv', [Next]_vars
     PROVE  \/ Lexical!Collect \/ Lexical!Take
            \/ UnitWords' = UnitWords /\ i' - 1 = i - 1 /\ Held' = Held
  OBVIOUS
<1>1. CASE UNCHANGED vars
  <2>1. units' = units /\ i' = i /\ tnodes' = tnodes /\ nxtMaps' = nxtMaps
    BY <1>1 DEF vars, trieVars
  <2>. QED
    BY <2>1, HeldSame, WordsSame
<1>2. CASE LoadDict \/ CalculateWeight \/ SetStaticWordWeights \/ LoadUserDict
  <2>1. i = 1 /\ i' = 1 /\ tnodes' = tnodes /\ nxtMaps' = nxtMaps
    BY <1>2 DEF LoadDict, CalculateWeight, SetStaticWordWeights, LoadUserDict, trieVars, TreeInv
  <2>2. Held' = Held
    BY <2>1, HeldSame
  <2>3. units \in Seq(Unit) /\ units' \in Seq(Unit)
    BY DEF TreeInv, WeightInv
  <2>4. Len(units') >= Len(units) /\ \A k \in 1..Len(units) : units'[k].word = units[k].word
    <3>1. ASSUME NEW e, units' = Append(units, e)
          PROVE  Len(units') >= Len(units) /\ \A k \in 1..Len(units) : units'[k].word = units[k].word
      <4>1. IsSeq(units)
        BY <2>3 DEF IsSeq
      <4>. QED
        BY <3>1, <4>1, AppendIsSeq
    <3>2. CASE units' = units
      BY <2>3, <3>2
    <3>3. CASE LoadDict
      BY <3>1, <3>2, <3>3 DEF LoadDict
    <3>4. CASE CalculateWeight
      <4>1. units' = units \/ units' = [k \in 1..Len(units) |-> [units[k] EXCEPT !.weight = @ - freq_sum_']]
        BY <3>4 DEF CalculateWeight
      <4>2. CASE units' = [k \in 1..Len(units) |-> [units[k] EXCEPT !.weight = @ - freq_sum_']]
        <5>1. \A u \in Unit : \A w : [u EXCEPT !.weight = w].word = u.word
          BY DEF Unit
        <5>2. Len(units) \in Nat /\ \A k \in 1..Len(units) : units[k] \in Unit
          BY <2>3
        <5>3. Len(units') = Len(units)
          BY <4>2, <5>2
        <5>4. ASSUME NEW k \in 1..Len(units) PROVE units'[k].word = units[k].word
          <6>1. units'[k] = [units[k] EXCEPT !.weight = units[k].weight - freq_sum_']
            BY <4>2
          <6>2. PICK u, w : u = units[k] /\ w = units[k].weight - freq_sum_'
            OBVIOUS
          <6>3. u \in Unit /\ units'[k] = [u EXCEPT !.weight = w]
            BY <5>2, <6>1, <6>2
          <6>. QED
            BY <5>1, <6>2, <6>3
        <5>5. Len(units') >= Len(units)
          BY <5>2, <5>3
        <5>. QED
          BY <5>4, <5>5
      <4>. QED
        BY <3>2, <4>1, <4>2
    <3>5. CASE SetStaticWordWeights
      BY <3>2, <3>5 DEF SetStaticWordWeights
    <3>6. CASE LoadUserDict
      BY <3>1, <3>2, <3>6 DEF LoadUserDict
    <3>. QED
      BY <1>2, <3>3, <3>4, <3>5, <3>6
  <2>5. /\ i - 1 = 0 /\ i' - 1 = i - 1
        /\ Len(UnitWords') >= Len(UnitWords) /\ SubSeq(UnitWords', 1, Len(UnitWords)) = UnitWords
    BY <2>1, <2>3, <2>4, WordsCollect
  <2>6. Lexical!Collect
    BY <2>2, <2>5 DEF Lexical!Collect, UnitWords
  <2>. QED
    BY <2>6
<1>3. CASE MakeTrie
  <2>1. units' = units /\ i' = i /\ tnodes' = tnodes /\ nxtMaps' = nxtMaps
    BY <1>3 DEF MakeTrie, CreateTrie
  <2>. QED
    BY <2>1, HeldSame, WordsSame
<1>4. CASE Insert /\ InsertKey
  <2>1. units' = units /\ i' = i
    BY <1>4 DEF InsertKey
  <2>. QED
    BY <1>4, <2>1, HeldGrow, WordsSame
<1>5. CASE Insert /\ EndInsert
  <2>1. units' = units /\ i' = i + 1 /\ i \in 1..Len(units) /\ Len(units) \in Nat
    BY <1>5 DEF EndInsert, TreeInv, WeightInv
  <2>2. Len(UnitWords) = Len(units) /\ UnitWords[i] = word
    BY <2>1 DEF UnitWords, word
  <2>3. (i - 1) + 1 = i /\ i' - 1 = (i - 1) + 1 /\ i - 1 < Len(units)
    BY <2>1
  <2>4. Held' = IF word = <<>> THEN Held ELSE {p \in Held : p[1] # word} \cup {<<word, i>>}
    BY <1>5, HeldTake
  <2>5. UnitWords' = UnitWords
    BY <2>1, WordsSame
  <2>6. /\ i - 1 < Len(UnitWords) /\ i' - 1 = (i - 1) + 1 /\ UnitWords' = UnitWords
        /\ Held' = IF UnitWords[(i - 1) + 1] = <<>> THEN Held
                   ELSE {p \in Held : p[1] # UnitWords[(i - 1) + 1]}
                          \cup {<<UnitWords[(i - 1) + 1], (i - 1) + 1>>}
    BY <2>2, <2>3, <2>4, <2>5
  <2>7. Lexical!Take
    BY <2>6 DEF Lexical!Take, UnitWords
  <2>. QED
    BY <2>7
<1>. QED
  BY <1>1, <1>2, <1>3, <1>4, <1>5 DEF Next, Insert

\* At the start nothing can be looked up.
LEMMA InitLexicon == Init => Lexical!Init
<1>. SUFFICES ASSUME Init PROVE Lexical!Init
  OBVIOUS
<1>1. IInv /\ TreeInv
  BY InitIInv, InitTree
<1>2. units = <<>> /\ i = 1 /\ tnodes = <<NewNode>>
  BY DEF Init, TrieInit
<1>3. Nodes = 1..1 /\ tnodes[1].ptValue = 0
  BY <1>2 DEF Nodes, NewNode
<1>4. PICK path : Tree(path)
  BY <1>1 DEF TreeInv
<1>5. Held = {}
  <2>1. Held = Entries(path)
    BY <1>1, <1>4, HeldRight
  <2>2. ASSUME NEW p \in Entries(path) PROVE FALSE
    <3>1. PICK y \in Nodes : tnodes[y].ptValue = p[2]
      BY EntriesIn
    <3>2. p[2] # 0
      BY EntriesIn
    <3>. QED
      BY <1>3, <3>1, <3>2
  <2>. QED
    BY <2>1, <2>2
<1>6. UnitWords = <<>>
  BY <1>2 DEF UnitWords
<1>. QED
  BY <1>2, <1>5, <1>6 DEF Lexical!Init, UnitWords

\* The nodes are always a tree.
LEMMA TreeInvAlways == Spec => []TreeInv
BY InitTree, NextTree, PTL DEF Spec

\* For all dictionaries DictTrie implements Lexicon: what can be looked up grows one
\* unit at a time, in the order of the files, and a later unit of a word replaces
\* the earlier; building the nodes and growing the vectors show nothing of themselves.
THEOREM TrieKeepsLexicon == Spec => KeepsLexicon
<1>1. [Lexical!Collect \/ Lexical!Take]_<<UnitWords, i - 1, Held>>
        => [Lexical!Collect \/ Lexical!Take]_<<[k \in 1..Len(units) |-> units[k].word], i - 1, Held>>
  BY DEF UnitWords
<1>. QED
  BY <1>1, InitLexicon, StepLexicon, TreeInvAlways, PTL DEF Spec, KeepsLexicon, Lexical!Spec

-----------------------------------------------------------------------------
\* the place k of a word, when those up to t are taken, is its last
Last(ws, k, t) == ws[k] # <<>> /\ \A m \in k+1..t : ws[m] # ws[k]

\* the last place of each word among the first t
LastPlaces(ws, t) == {<<ws[k], k>> : k \in {k \in 1..t : Last(ws, k, t)}}

\* LastWins says what Held is; so it does of the next state.
LEMMA LastWinsLast == Lexical!LastWins <=> Held = LastPlaces(UnitWords, i - 1)
BY DEF Lexical!LastWins, LastPlaces, Last, UnitWords

LEMMA LastWinsNext == Lexical!LastWins' <=> Held' = LastPlaces(UnitWords', i' - 1)
BY DEF Lexical!LastWins, LastPlaces, Last, UnitWords

\* the words and places that are not of w
Other(L, w) == {p \in L : p[1] # w}

\* One more word: it is the last of its kind, and others stay what they were.
LEMMA TakeLast ==
  ASSUME NEW ws, NEW t \in Nat, NEW w, w = ws[t + 1], NEW L, L = LastPlaces(ws, t),
         NEW u, u = t + 1
  PROVE  /\ w = <<>> => LastPlaces(ws, u) = L
         /\ w # <<>> => LastPlaces(ws, u) = Other(L, w) \cup {<<w, u>>}
<1>6. LastPlaces(ws, t + 1) = IF w = <<>> THEN L ELSE Other(L, w) \cup {<<w, t + 1>>}
  <2>1. \A k \in 1..t : Last(ws, k, t + 1) <=> Last(ws, k, t) /\ ws[k] # w
    BY DEF Last
  <2>2. Last(ws, t + 1, t + 1) <=> w # <<>>
    BY DEF Last
  <2>3. {k \in 1..t+1 : Last(ws, k, t + 1)} =
          {k \in 1..t : Last(ws, k, t) /\ ws[k] # w} \cup {k \in {t + 1} : w # <<>>}
    BY <2>1, <2>2
  <2>4. CASE w = <<>>
    <3>1. {k \in 1..t : Last(ws, k, t) /\ ws[k] # w} = {k \in 1..t : Last(ws, k, t)}
      BY <2>4 DEF Last
    <3>. QED
      BY <2>3, <2>4, <3>1 DEF LastPlaces
  <2>5. CASE w # <<>>
    <3>1. Other(L, w) =
            {<<ws[k], k>> : k \in {k \in 1..t : Last(ws, k, t) /\ ws[k] # w}}
      BY DEF LastPlaces, Other
    <3>. QED
      BY <2>3, <2>5, <3>1 DEF LastPlaces
  <2>. QED
    BY <2>4, <2>5
<1>. QED
  BY <1>6

\* LastWins is inductive, with the number of words taken.
LastInv == i - 1 \in Nat /\ Lexical!LastWins

\* Collecting words moves nothing: none of them is taken yet.
LEMMA StepLast ==
  LastInv /\ [Lexical!Collect \/ Lexical!Take]_<<UnitWords, i - 1, Held>> => LastInv'
<1>. SUFFICES ASSUME LastInv, [Lexical!Collect \/ Lexical!Take]_<<UnitWords, i - 1, Held>>
     PROVE  i' - 1 \in Nat /\ Held' = LastPlaces(UnitWords', i' - 1)
  BY LastWinsNext DEF LastInv
<1>1. i - 1 \in Nat /\ Held = LastPlaces(UnitWords, i - 1)
  BY LastWinsLast DEF LastInv
<1>2. CASE Lexical!Collect
  <2>1. i - 1 = 0 /\ i' - 1 = i - 1 /\ Held' = Held
    BY <1>2 DEF Lexical!Collect
  <2>2. \A ws : LastPlaces(ws, 0) = {}
    BY DEF LastPlaces
  <2>. QED
    BY <1>1, <2>1, <2>2
<1>3. CASE Lexical!Take
  <2>1. PICK t, w : t = i - 1 /\ w = UnitWords[t + 1]
    OBVIOUS
  <2>2. /\ i' - 1 = t + 1 /\ UnitWords' = UnitWords
        /\ Held' = IF w = <<>> THEN Held ELSE {p \in Held : p[1] # w} \cup {<<w, t + 1>>}
    BY <1>3, <2>1 DEF Lexical!Take, UnitWords
  <2>3. PICK ws, L : ws = UnitWords /\ L = LastPlaces(ws, t)
    OBVIOUS
  <2>4. t \in Nat /\ w = ws[t + 1] /\ Held = L
    BY <1>1, <2>1, <2>3
  <2>5. LastPlaces(ws, t + 1) = IF w = <<>> THEN L ELSE Other(L, w) \cup {<<w, t + 1>>}
    <3>1. PICK u : u = t + 1
      OBVIOUS
    <3>2. /\ w = <<>> => LastPlaces(ws, u) = L
          /\ w # <<>> => LastPlaces(ws, u) = Other(L, w) \cup {<<w, u>>}
      BY <2>3, <2>4, <3>1, TakeLast
    <3>. QED
      BY <3>1, <3>2
  <2>6. {p \in Held : p[1] # w} = Other(L, w)
    BY <2>4 DEF Other
  <2>7. Held' = IF w = <<>> THEN L ELSE Other(L, w) \cup {<<w, t + 1>>}
    BY <2>2, <2>4, <2>6
  <2>8. Held' = LastPlaces(UnitWords', i' - 1)
    BY <2>2, <2>3, <2>5, <2>7
  <2>9. i' - 1 \in Nat
    BY <2>2, <2>4
  <2>. QED
    BY <2>8, <2>9
<1>4. CASE UNCHANGED <<UnitWords, i - 1, Held>>
  BY <1>1, <1>4
<1>. QED
  BY <1>2, <1>3, <1>4

\* Whatever the files hold: of the words inserted each has its last unit, and those
\* without runes have none.
THEOREM LastLineCounts == Spec => []Lexical!LastWins
<1>1. Lexical!Init => LastInv
  <2>. SUFFICES ASSUME Lexical!Init PROVE LastInv
    OBVIOUS
  <2>1. i - 1 = 0 /\ Held = {}
    BY DEF Lexical!Init
  <2>2. LastPlaces(UnitWords, 0) = {}
    BY DEF LastPlaces
  <2>. QED
    BY <2>1, <2>2, LastWinsLast DEF LastInv
<1>2. LastInv => Lexical!LastWins
  BY DEF LastInv
<1>. QED
  BY <1>1, <1>2, InitLexicon, StepLexicon, TreeInvAlways, StepLast, PTL DEF Spec

\* One rune down from a node, or from none.
LEMMA BelowRight ==
  ASSUME IInv, NEW path, Tree(path), NEW x \in 0..Len(tnodes), NEW r \in Runes
  PROVE  /\ Below(x, r) \in 0..Len(tnodes) /\ (x = 0 => Below(x, r) = 0)
         /\ \A y \in Nodes : x # 0 => (Below(x, r) = y <=> path[y] = Append(path[x], r))
<1>1. Len(tnodes) \in Nat
  BY DEF IInv
<1>2. CASE x = 0
  BY <1>1, <1>2 DEF Below
<1>3. CASE x # 0
  <2>1. x \in Nodes
    BY <1>1, <1>3 DEF Nodes
  <2>2. CASE tnodes[x].next # 0 /\ r \in DOMAIN nxtMaps[tnodes[x].next]
    <3>1. PICK z : z = nxtMaps[tnodes[x].next][r]
      OBVIOUS
    <3>2. Below(x, r) = z /\ z \in Nodes /\ path[z] = Append(path[x], r)
      BY <1>3, <2>1, <2>2, <3>1, EdgeDown DEF Below
    <3>3. \A y \in Nodes : path[y] = path[z] => y = z
      BY <3>2 DEF Tree
    <3>. QED
      BY <1>1, <1>3, <3>2, <3>3 DEF Nodes
  <2>3. CASE ~(tnodes[x].next # 0 /\ r \in DOMAIN nxtMaps[tnodes[x].next])
    <3>1. Below(x, r) = 0
      BY <1>3, <2>3 DEF Below
    <3>2. \A y \in Nodes : y # 0 /\ ~Edge(x, r, y)
      BY <1>1, <2>3 DEF Edge, Nodes
    <3>3. \A y \in Nodes : path[y] # Append(path[x], r)
      BY <2>1, <3>2 DEF Tree
    <3>. QED
      BY <1>1, <1>3, <3>1, <3>2, <3>3
  <2>. QED
    BY <2>2, <2>3
<1>. QED
  BY <1>2, <1>3

\* Along is what its recursion says.
LEMMA AlongDef ==
  ASSUME IInv, NEW path, Tree(path), NEW w \in Seq(Runes)
  PROVE  /\ Along(w) \in [0..Len(w) -> 0..Len(tnodes)]
         /\ Along(w)[0] = 1
         /\ \A k \in 1..Len(w) : Along(w)[k] = Below(Along(w)[k-1], w[k])
<1>. DEFINE N == Len(w)
            S == 0..Len(tnodes)
            G == [k \in 1..N |-> [x \in S |-> Below(x, w[k])]]
            F(g) == [k \in 0..N |-> IF k = 0 THEN 1 ELSE Below(g[k-1], w[k])]
            node == CHOOSE g : g = F(g)
<1>1. Along(w) = node
  BY DEF Along
<1>. HIDE DEF node
<1>2. N \in Nat /\ 1 \in S /\ \A k \in 1..N : w[k] \in Runes
  <2>1. Len(tnodes) \in Nat /\ Len(tnodes) # 0
    BY DEF IInv
  <2>. QED
    BY <2>1
<1>. HIDE DEF N
<1>3. \A k \in 1..N : \A x \in S : Below(x, w[k]) \in S
  <2>. HIDE DEF S
  <2>1. \A r \in Runes : \A x \in S : Below(x, r) \in S
    BY BelowRight DEF S
  <2>. QED
    BY <1>2, <2>1
<1>. HIDE DEF S
<1>4. \A k \in 1..N : \A x \in S : G[k][x] = Below(x, w[k]) /\ G[k][x] \in S
  BY <1>3
<1>. HIDE DEF G
<1>5. PICK f \in [0..N -> S] : Steps(f, N, 1, G)
  <2>1. Stepwise(N, S, 1, G)
    BY <1>2, <1>4 DEF Stepwise
  <2>. QED
    BY <2>1, StepsExist
<1>6. f = F(f)
  <2>1. ASSUME NEW k \in 0..N PROVE f[k] = IF k = 0 THEN 1 ELSE Below(f[k-1], w[k])
    <3>1. k # 0 => k \in 1..N /\ k - 1 \in 0..N
      BY <1>2
    <3>. QED
      BY <1>4, <1>5, <3>1 DEF Steps
  <2>2. f = [k \in 0..N |-> f[k]]
    BY <1>5 DEF Steps
  <2>. QED
    BY <2>1, <2>2
<1>7. node = F(node)
  <2>. HIDE DEF F
  <2>. QED
    BY <1>6 DEF node
<1>8. node[0] = 1 /\ \A k \in 1..N : node[k] = Below(node[k-1], w[k])
  <2>1. \A k \in 0..N : node[k] = IF k = 0 THEN 1 ELSE Below(node[k-1], w[k])
    BY <1>7
  <2>. QED
    BY <1>2, <2>1
<1>9. node \in [0..N -> S]
  <2>. DEFINE P(k) == k <= N => node[k] \in S
              T == {k \in Nat : P(k)}
  <2>1. ASSUME NEW k \in Nat, P(k) PROVE P(k + 1)
    BY <1>2, <1>3, <1>8, <2>1
  <2>2. P(0)
    BY <1>2, <1>8
  <2>3. \A k \in Nat : P(k)
    <3>. HIDE DEF P
    <3>1. T \in SUBSET Nat /\ 0 \in T /\ \A k \in T : k + 1 \in T
      BY <2>1, <2>2
    <3>2. T = Nat
      BY <3>1, Induction
    <3>. QED
      BY <3>2
  <2>4. \A k \in 0..N : node[k] \in S
    BY <1>2, <2>3
  <2>. QED
    BY <1>7, <2>4
<1>. QED
  BY <1>1, <1>8, <1>9 DEF N, S

\* x is the node of a word, 0 if there is none
IsNodeOf(path, x, s) == \A y \in Nodes : path[y] = s <=> y = x

\* Along finds the node of each beginning of the word, if there is one.
LEMMA AlongRight ==
  ASSUME IInv, NEW path, Tree(path), NEW w \in Seq(Runes)
  PROVE  \A k \in 0..Len(w) : IsNodeOf(path, Along(w)[k], SubSeq(w, 1, k))
<1>. DEFINE P(k) == k <= Len(w) => IsNodeOf(path, Along(w)[k], SubSeq(w, 1, k))
            T == {k \in Nat : P(k)}
<1>1. /\ Along(w) \in [0..Len(w) -> 0..Len(tnodes)]
      /\ Along(w)[0] = 1
      /\ \A k \in 1..Len(w) : Along(w)[k] = Below(Along(w)[k-1], w[k])
      /\ Len(w) \in Nat /\ Len(tnodes) \in Nat /\ 1 \in Nodes
  <2>1. Len(tnodes) \in Nat /\ Len(tnodes) # 0
    BY DEF IInv
  <2>. QED
    BY <2>1, AlongDef DEF Nodes
<1>2. P(0)
  <2>1. SubSeq(w, 1, 0) = <<>>
    OBVIOUS
  <2>2. path[1] = <<>> /\ \A y \in Nodes : path[y] = path[1] => y = 1
    BY <1>1 DEF Tree
  <2>. QED
    BY <1>1, <2>1, <2>2 DEF IsNodeOf
<1>3. ASSUME NEW k \in Nat, P(k) PROVE P(k + 1)
  <2>. SUFFICES ASSUME k + 1 <= Len(w)
       PROVE  IsNodeOf(path, Along(w)[k+1], SubSeq(w, 1, k + 1))
    OBVIOUS
  <2>1. PICK x, r, s : x = Along(w)[k] /\ r = w[k+1] /\ s = SubSeq(w, 1, k)
    OBVIOUS
  <2>2. /\ x \in 0..Len(tnodes) /\ r \in Runes /\ s \in Seq(Runes)
        /\ IsNodeOf(path, x, s) /\ Along(w)[k+1] = Below(x, r)
    <3>1. k \in 0..Len(w) /\ k + 1 \in 1..Len(w) /\ (k + 1) - 1 = k
      BY <1>1
    <3>2. SubSeq(w, 0 + 1, k) \in Seq(Runes)
      BY <1>1, <3>1, SubSeqRight
    <3>. QED
      BY <1>1, <1>3, <2>1, <3>1, <3>2
  <2>3. SubSeq(w, 1, k + 1) = Append(s, r)
    <3>1. k \in 0..Len(w)-1
      BY <1>1
    <3>. QED
      BY <2>1, <3>1, SubSeqAppend
  <2>4. /\ Below(x, r) \in 0..Len(tnodes) /\ (x = 0 => Below(x, r) = 0)
        /\ \A y \in Nodes : x # 0 => (Below(x, r) = y <=> path[y] = Append(path[x], r))
    BY <2>2, BelowRight, SMTT(30)
  <2>5. CASE x # 0
    <3>1. x \in Nodes
      BY <1>1, <2>2, <2>5 DEF Nodes
    <3>2. path[x] = s
      BY <2>2, <3>1 DEF IsNodeOf
    <3>. QED
      BY <2>2, <2>3, <2>4, <2>5, <3>2 DEF IsNodeOf
  <2>6. CASE x = 0
    <3>1. \A y \in Nodes : y # 0
      BY <1>1 DEF Nodes
    <3>2. ASSUME NEW y \in Nodes, path[y] = Append(s, r) PROVE FALSE
      <4>1. path[y] # <<>>
        BY <2>2, <3>2, AppendApart
      <4>2. PICK z \in 1..y-1, q \in Runes : path[y] = Append(path[z], q)
        BY <4>1 DEF Tree
      <4>3. z \in Nodes
        BY <4>2 DEF Nodes
      <4>4. PICK p : p = path[z]
        OBVIOUS
      <4>5. p \in Seq(Runes) /\ Append(p, q) = Append(s, r)
        BY <3>2, <4>2, <4>3, <4>4 DEF Tree
      <4>6. p = s
        BY <2>2, <4>5, SameEnd
      <4>. QED
        BY <2>2, <2>6, <3>1, <4>3, <4>4, <4>6 DEF IsNodeOf
    <3>. QED
      BY <2>2, <2>3, <2>4, <2>6, <3>1, <3>2 DEF IsNodeOf
  <2>. QED
    BY <2>5, <2>6
<1>4. \A k \in Nat : P(k)
  <2>. HIDE DEF P
  <2>1. T \in SUBSET Nat /\ 0 \in T /\ \A k \in T : k + 1 \in T
    BY <1>2, <1>3
  <2>2. T = Nat
    BY <2>1, Induction
  <2>. QED
    BY <2>2
<1>. QED
  BY <1>1, <1>4

\* The node at the end of a word has its unit, if the trie holds the word.
LEMMA UnitAt ==
  ASSUME IInv, NEW path, Tree(path), NEW w \in Seq(Runes), NEW x, x = Along(w)[Len(w)]
  PROVE  /\ x # 0 => tnodes[x].ptValue \in Nat
         /\ \A v \in Nat \ {0} : (x # 0 /\ tnodes[x].ptValue = v) <=> <<w, v>> \in Held
<1>1. Len(w) \in Nat /\ Len(tnodes) \in Nat
  BY DEF IInv
<1>2. x \in 0..Len(tnodes)
  BY <1>1, AlongDef
<1>3. IsNodeOf(path, x, w)
  <2>1. SubSeq(w, 1, Len(w)) = w
    BY SubSeqFull
  <2>2. IsNodeOf(path, Along(w)[Len(w)], SubSeq(w, 1, Len(w)))
    BY <1>1, AlongRight
  <2>. QED
    BY <2>1, <2>2
<1>4. CASE x # 0
  <2>1. x \in Nodes
    BY <1>1, <1>2, <1>4 DEF Nodes
  <2>2. path[x] = w
    BY <1>3, <2>1 DEF IsNodeOf
  <2>3. \A n \in Node : n.ptValue \in Nat
    BY DEF Node
  <2>4. tnodes[x].ptValue \in Nat
    BY <2>1, <2>3 DEF IInv, Nodes
  <2>5. \A v : <<path[x], v>> \in Held <=> tnodes[x].ptValue = v /\ v # 0
    BY <2>1, HeldOnce
  <2>. QED
    BY <1>4, <2>2, <2>4, <2>5
<1>5. CASE x = 0
  <2>1. ASSUME NEW v \in Nat \ {0}, <<w, v>> \in Held PROVE FALSE
    <3>1. PICK p : p = <<w, v>>
      OBVIOUS
    <3>2. p \in Entries(path) /\ p[1] = w
      BY <2>1, <3>1, HeldRight
    <3>3. PICK y \in Nodes : path[y] = w
      BY <3>2, EntriesIn
    <3>4. y = 0
      BY <1>3, <1>5, <3>3 DEF IsNodeOf
    <3>. QED
      BY <1>1, <3>3, <3>4 DEF Nodes
  <2>. QED
    BY <1>5, <2>1
<1>. QED
  BY <1>4, <1>5

\* Looking up a word: the unit that the trie holds for it.
LEMMA FindWordRight ==
  ASSUME TreeInv, NEW w \in Seq(Runes), w # <<>>
  PROVE  /\ FindWord(w) \in Nat
         /\ \A v \in Nat \ {0} : FindWord(w) = v <=> <<w, v>> \in Held
<1>1. PICK path : Tree(path)
  BY DEF TreeInv
<1>2. PICK x : x = Along(w)[Len(w)]
  OBVIOUS
<1>3. /\ x # 0 => tnodes[x].ptValue \in Nat
      /\ \A v \in Nat \ {0} : (x # 0 /\ tnodes[x].ptValue = v) <=> <<w, v>> \in Held
  BY <1>1, <1>2, UnitAt DEF TreeInv
<1>4. FindWord(w) = IF x = 0 THEN 0 ELSE tnodes[x].ptValue
  BY <1>2 DEF FindWord
<1>. QED
  BY <1>3, <1>4

\* When all units are in the trie, it holds the last unit of each word.
LEMMA DoneHeld ==
  ASSUME TreeInv, Lexical!LastWins, Done
  PROVE  /\ Len(units) \in Nat /\ UnitWords \in Seq(Seq(Runes)) /\ Len(UnitWords) = Len(units)
         /\ \A w, v : <<w, v>> \in Held <=>
              /\ v \in 1..Len(units) /\ UnitWords[v] = w /\ w # <<>>
              /\ \A m \in v+1..Len(units) : UnitWords[m] # w
<1>1. Len(units) \in Nat /\ i - 1 = Len(units) /\ units \in Seq(Unit)
  BY DEF TreeInv, WeightInv, Done
<1>2. UnitWords \in Seq(Seq(Runes)) /\ Len(UnitWords) = Len(units)
  <2>1. \A u \in Unit : u.word \in Seq(Runes)
    BY DEF Unit
  <2>2. \A k \in 1..Len(units) : units[k].word \in Seq(Runes)
    BY <1>1, <2>1
  <2>. QED
    BY <1>1, <2>2 DEF UnitWords
<1>3. Held = LastPlaces(UnitWords, Len(units))
  BY <1>1, LastWinsLast
<1>4. ASSUME NEW w, NEW v
      PROVE  <<w, v>> \in Held <=>
              /\ v \in 1..Len(units) /\ UnitWords[v] = w /\ w # <<>>
              /\ \A m \in v+1..Len(units) : UnitWords[m] # w
  <2>1. PICK ws, N : ws = UnitWords /\ N = Len(units)
    OBVIOUS
  <2>2. <<w, v>> \in LastPlaces(ws, N) <=> v \in 1..N /\ ws[v] = w /\ Last(ws, v, N)
    BY DEF LastPlaces
  <2>. QED
    BY <1>3, <2>1, <2>2 DEF Last
<1>. QED
  BY <1>1, <1>2, <1>4

\* Of the places from k on there is a last one.
LEMMA LastPlace ==
  ASSUME NEW N \in Nat, NEW P \in SUBSET (1..N), NEW k \in P
  PROVE  \E v \in P : v >= k /\ \A m \in v+1..N : m \notin P
<1>. DEFINE A == {d \in 0..N : N - d \in P /\ N - d >= k}
<1>1. A \in SUBSET Nat /\ N - k \in A
  <2>1. N - (N - k) = k /\ N - k \in 0..N
    OBVIOUS
  <2>. QED
    BY <2>1
<1>2. PICK d \in A : \A e \in A : d <= e
  <2>. HIDE DEF A
  <2>. QED
    BY <1>1, LeastNatural
<1>3. ASSUME NEW m \in (N-d)+1..N, m \in P PROVE FALSE
  <2>1. d \in 0..N /\ N - d \in 1..N /\ N - d >= k /\ k \in 1..N
    BY <1>2
  <2>2. N - m \in 0..N /\ N - (N - m) = m /\ m >= k /\ N - m < d
    BY <2>1
  <2>3. N - m \in A
    BY <1>3, <2>2
  <2>4. d <= N - m
    BY <1>2, <2>3
  <2>. QED
    BY <2>1, <2>2, <2>4
<1>4. N - d \in P /\ N - d >= k
  BY <1>2
<1>. QED
  BY <1>3, <1>4

\* v is the last place of w, which is at k, too.
Latest(v, k, w) == v >= k /\ UnitWords[v] = w /\ \A m \in v+1..Len(units) : UnitWords[m] # w

\* A word of the files has a last place there.
LEMMA LastOfWord ==
  ASSUME Len(units) \in Nat, NEW k \in 1..Len(units), NEW w, UnitWords[k] = w
  PROVE  \E v \in 1..Len(units) : Latest(v, k, w)
<1>. DEFINE P == {m \in 1..Len(units) : UnitWords[m] = w}
<1>1. P \in SUBSET (1..Len(units)) /\ k \in P
  OBVIOUS
<1>2. PICK v \in P : v >= k /\ \A m \in v+1..Len(units) : m \notin P
  <2>. HIDE DEF P
  <2>. QED
    BY <1>1, LastPlace
<1>3. \A m \in v+1..Len(units) : m \in 1..Len(units)
  BY <1>2
<1>. QED
  BY <1>2, <1>3 DEF Latest

\* Once the trie is made, exactly the words of the files are found.
LEMMA FoundKnown ==
  ASSUME TreeInv, Lexical!LastWins, Done, NEW w \in Seq(Runes), w # <<>>
  PROVE  FindWord(w) \in Nat /\ (FindWord(w) # 0 <=> w \in Known)
<1>1. /\ FindWord(w) \in Nat
      /\ \A v \in Nat \ {0} : FindWord(w) = v <=> <<w, v>> \in Held
  BY FindWordRight
<1>2. /\ Len(units) \in Nat
      /\ \A v : <<w, v>> \in Held <=>
              /\ v \in 1..Len(units) /\ UnitWords[v] = w /\ w # <<>>
              /\ \A m \in v+1..Len(units) : UnitWords[m] # w
  BY DoneHeld
<1>3. \A k \in 1..Len(units) : UnitWords[k] = units[k].word
  BY DEF UnitWords
<1>4. w \in Known <=> \E k \in 1..Len(units) : UnitWords[k] = w
  BY <1>3 DEF Known
<1>5. ASSUME FindWord(w) # 0 PROVE w \in Known
  BY <1>1, <1>2, <1>4, <1>5
<1>6. ASSUME w \in Known PROVE FindWord(w) # 0
  <2>1. PICK k \in 1..Len(units) : UnitWords[k] = w
    BY <1>4, <1>6
  <2>2. PICK v \in 1..Len(units) : Latest(v, k, w)
    BY <1>2, <2>1, LastOfWord
  <2>3. v \in 1..Len(units) /\ v \in Nat \ {0}
    BY <1>2, <2>2 DEF Latest
  <2>4. <<w, v>> \in Held
    BY <1>2, <2>2, <2>3 DEF Latest
  <2>. QED
    BY <1>1, <2>3, <2>4
<1>. QED
  BY <1>1, <1>5, <1>6

\* The words found from a position on: those of the files.
LEMMA FindDagsRight ==
  ASSUME TreeInv, Lexical!LastWins, Done, NEW t \in Seq(Runes), NEW k \in 0..Len(t)-1
  PROVE  FindDags(t, k) = {m \in k..Len(t)-1 : m = k \/
           (m - k + 1 <= MaxWordLen /\ SubSeq(t, k + 1, m + 1) \in Known)}
<1>1. PICK path : Tree(path)
  BY DEF TreeInv
<1>2. Len(t) \in Nat
  OBVIOUS
<1>3. ASSUME NEW m \in k..Len(t)-1
      PROVE  (/\ Along(SubSeq(t, k + 1, m + 1))[m - k + 1] # 0
              /\ tnodes[Along(SubSeq(t, k + 1, m + 1))[m - k + 1]].ptValue # 0)
               <=> SubSeq(t, k + 1, m + 1) \in Known
  <2>1. PICK w : w = SubSeq(t, k + 1, m + 1)
    OBVIOUS
  <2>2. w \in Seq(Runes) /\ Len(w) = m - k + 1 /\ w # <<>>
    <3>1. k \in 0..Len(t) /\ m + 1 \in k..Len(t) /\ (m + 1) - k = m - k + 1
      BY <1>2
    <3>2. w \in Seq(Runes) /\ Len(w) = m + 1 - k
      BY <2>1, <3>1, SubSeqRight
    <3>3. Len(w) # 0
      BY <1>2, <3>1, <3>2
    <3>. QED
      BY <3>1, <3>2, <3>3
  <2>3. PICK x : x = Along(w)[Len(w)]
    OBVIOUS
  <2>4. FindWord(w) = IF x = 0 THEN 0 ELSE tnodes[x].ptValue
    BY <2>2, <2>3 DEF FindWord
  <2>5. FindWord(w) # 0 <=> w \in Known
    BY <2>2, FoundKnown
  <2>. QED
    BY <2>1, <2>2, <2>3, <2>4, <2>5
<1>4. FindDags(t, k) = {m \in k..Len(t)-1 : m = k \/
        (/\ m - k + 1 <= MaxWordLen
         /\ Along(SubSeq(t, k + 1, m + 1))[m - k + 1] # 0
         /\ tnodes[Along(SubSeq(t, k + 1, m + 1))[m - k + 1]].ptValue # 0)}
  BY DEF FindDags
<1>. QED
  BY <1>3, <1>4

\* both invariants of the trie together
LEMMA LastAlways == Spec => [](TreeInv /\ Lexical!LastWins)
BY TreeInvAlways, LastLineCounts, PTL

\* For all dictionaries: the trie ends up with exactly the words of the files, each
\* with the unit of its last line, and finds them in every text.
THEOREM TrieAgrees == Spec => []FindAgrees
<1>1. ASSUME TreeInv, Lexical!LastWins PROVE FindAgrees
  <2>. SUFFICES ASSUME Done
       PROVE /\ \A k \in 1..Len(units) : units[k].word # <<>> =>
                  /\ FindWord(units[k].word) >= k
                  /\ units[FindWord(units[k].word)].word = units[k].word
             /\ \A t \in Texts : \A k \in 0..Len(t)-1 :
                  FindDags(t, k) = {m \in k..Len(t)-1 : m = k \/
                    (m - k + 1 <= MaxWordLen /\ SubSeq(t, k + 1, m + 1) \in Known)}
    BY DEF FindAgrees
  <2>1. ASSUME NEW k \in 1..Len(units), units[k].word # <<>>
        PROVE  /\ FindWord(units[k].word) >= k
               /\ units[FindWord(units[k].word)].word = units[k].word
    <3>1. PICK w : w = units[k].word
      OBVIOUS
    <3>2. /\ Len(units) \in Nat /\ UnitWords \in Seq(Seq(Runes)) /\ Len(UnitWords) = Len(units)
          /\ \A v : <<w, v>> \in Held <=>
              /\ v \in 1..Len(units) /\ UnitWords[v] = w /\ w # <<>>
              /\ \A m \in v+1..Len(units) : UnitWords[m] # w
      BY <1>1, DoneHeld
    <3>3. \A m \in 1..Len(units) : UnitWords[m] = units[m].word
      BY DEF UnitWords
    <3>4. UnitWords[k] = w /\ w \in Seq(Runes) /\ w # <<>>
      <4>1. UnitWords[k] \in Seq(Runes)
        BY <3>2
      <4>. QED
        BY <2>1, <3>1, <3>3, <4>1
    <3>5. PICK v \in 1..Len(units) : Latest(v, k, w)
      BY <3>2, <3>4, LastOfWord
    <3>6. v \in 1..Len(units) /\ v \in Nat \ {0} /\ v >= k
      BY <3>2, <3>5 DEF Latest
    <3>7. FindWord(w) = v
      <4>1. <<w, v>> \in Held
        BY <3>2, <3>4, <3>5 DEF Latest
      <4>. QED
        BY <1>1, <3>4, <3>6, <4>1, FindWordRight
    <3>. QED
      BY <3>1, <3>3, <3>5, <3>6, <3>7 DEF Latest
  <2>2. ASSUME NEW t \in Texts, NEW k \in 0..Len(t)-1
        PROVE  FindDags(t, k) = {m \in k..Len(t)-1 : m = k \/
                 (m - k + 1 <= MaxWordLen /\ SubSeq(t, k + 1, m + 1) \in Known)}
    <3>1. t \in Seq(Runes)
      BY TextAssumption DEF Runes
    <3>. QED
      BY <1>1, <3>1, FindDagsRight
  <2>. QED
    BY <2>1, <2>2
<1>. QED
  BY <1>1, LastAlways, PTL

\* The nexts of the dag at u are in a sequence, from the rune itself on.
LEMMA NextsRight ==
  ASSUME NEW t \in Seq(Runes), NEW u \in 0..Len(t)-1, NEW nexts, nexts = NextsInOrder(t, u)
  PROVE  /\ nexts \in Seq(Int) /\ Members(nexts) = FindDags(t, u)
         /\ u \in FindDags(t, u) /\ FindDags(t, u) \subseteq u..Len(t)-1
         /\ Len(nexts) = 1 <=> FindDags(t, u) = {u}
<1>1. PICK n, D : n = Len(t) /\ D = FindDags(t, u)
  OBVIOUS
<1>2. n \in Nat /\ u \in 0..n-1
  BY <1>1
<1>3. u \in D /\ D \subseteq u..n-1
  BY <1>1, <1>2 DEF FindDags
<1>4. PICK s, keep : s = [m \in 1..n |-> m - 1] /\ keep = {m \in 1..n : m - 1 \in D}
  OBVIOUS
<1>5. nexts = Selected(s, keep)
  BY <1>1, <1>4 DEF NextsInOrder
<1>6. /\ s \in Seq(Int) /\ Len(s) = n /\ \A a \in 1..n : s[a] = a - 1
      /\ \A a, b \in 1..Len(s) : a < b => s[a] < s[b]
  BY <1>2, <1>4
<1>7. /\ nexts \in Seq(Int)
      /\ \A a, b \in 1..Len(nexts) : a < b => nexts[a] < nexts[b]
  BY <1>5, <1>6, SelectedOrder
<1>8. \A j \in 1..Len(nexts) : nexts[j] \in D
  <2>1. \A j \in 1..Len(Selected(s, keep)) :
          \E k \in 1..Len(s) : k \in keep /\ Selected(s, keep)[j] = s[k]
    BY <1>6, SelectedMembers
  <2>. QED
    BY <1>4, <1>5, <1>6, <2>1
<1>9. ASSUME NEW m \in D PROVE \E j \in 1..Len(nexts) : nexts[j] = m
  <2>1. PICK a : a = m + 1
    OBVIOUS
  <2>2. a \in 1..Len(s) /\ a \in keep /\ s[a] = m
    <3>1. m \in u..n-1
      BY <1>3
    <3>2. a \in 1..n /\ a - 1 = m
      BY <1>2, <2>1, <3>1
    <3>. QED
      BY <1>4, <1>6, <3>2
  <2>3. \E j \in 1..Len(Selected(s, keep)) : Selected(s, keep)[j] = s[a]
    BY <1>6, <2>2, SelectedAll
  <2>. QED
    BY <1>5, <2>2, <2>3
<1>10. Members(nexts) = D
  BY <1>8, <1>9 DEF Members
<1>11. Len(nexts) \in Nat
  BY <1>7
<1>12. ASSUME Len(nexts) = 1 PROVE D = {u}
  <2>1. \A m \in D : m = nexts[1]
    BY <1>9, <1>12
  <2>. QED
    BY <1>3, <2>1
<1>13. ASSUME D = {u} PROVE Len(nexts) = 1
  <2>1. PICK j \in 1..Len(nexts) : nexts[j] = u
    BY <1>3, <1>9
  <2>2. ASSUME Len(nexts) > 1 PROVE FALSE
    <3>1. 1 \in 1..Len(nexts) /\ 2 \in 1..Len(nexts)
      BY <1>11, <2>2
    <3>2. nexts[1] < nexts[2] /\ nexts[1] = u /\ nexts[2] = u
      BY <1>7, <1>8, <1>13, <3>1
    <3>. QED
      BY <1>2, <3>2
  <2>3. Len(nexts) >= 1
    BY <1>11, <2>1
  <2>4. PICK c : c = Len(nexts)
    OBVIOUS
  <2>5. c \in Nat /\ c >= 1 /\ ~(c > 1)
    BY <1>11, <2>2, <2>3, <2>4
  <2>6. c = 1
    BY <2>5
  <2>. QED
    BY <2>4, <2>6
<1>. QED
  BY <1>1, <1>3, <1>7, <1>10, <1>12, <1>13

\* One position of the full cut: what the ones before it have left, and what it adds.
FullStep(t, u, x) ==
  LET nexts == NextsInOrder(t, u)
      alone == Len(nexts) = 1 /\ RuneAlone(x.maxIdx, u)
      ends  == Selected(nexts, {j \in 1..Len(nexts) :
                                  alone \/ UnitLength(t, u, nexts[j]) >= 2})
      reach == {x.maxIdx} \cup {u + UnitLength(t, u, nexts[j]) : j \in 1..Len(nexts)}
  IN  [res    |-> x.res \o [j \in 1..Len(ends) |-> WordRange(u, ends[j])],
       maxIdx |-> CHOOSE r \in reach : \A q \in reach : q <= r]

\* the ends of the words that it adds
Pushed(t, u, x) ==
  {m \in FindDags(t, u) :
     (FindDags(t, u) = {u} /\ x.maxIdx <= u) \/ UnitLength(t, u, m) >= 2}

\* what the loop of Cut carries from one position to the next
CutState(n) == [res: Seq(Ranges(n)), maxIdx: Nat]

\* What one position adds, and how far the words reach then.
LEMMA FullStepRight ==
  ASSUME TreeInv, Lexical!LastWins, Done, NEW t \in Seq(Runes), NEW n, n = Len(t),
         NEW u \in 0..n-1, NEW x \in CutState(n), NEW y, y = FullStep(t, u, x)
  PROVE  /\ y \in CutState(n)
         /\ Members(y.res) = Members(x.res) \cup {WordRange(u, m) : m \in Pushed(t, u, x)}
         /\ y.maxIdx >= x.maxIdx
         /\ \A m \in FindDags(t, u) : y.maxIdx >= u + UnitLength(t, u, m)
         /\ \/ y.maxIdx = x.maxIdx
            \/ \E m \in FindDags(t, u) : y.maxIdx = u + UnitLength(t, u, m)
<1>1. PICK nexts : nexts = NextsInOrder(t, u)
  OBVIOUS
<1>2. PICK D : D = FindDags(t, u)
  OBVIOUS
<1>3. /\ n \in Nat /\ nexts \in Seq(Int) /\ Members(nexts) = D /\ u \in D /\ D \subseteq u..n-1
      /\ Len(nexts) = 1 <=> D = {u}
  BY <1>1, <1>2, NextsRight
<1>4. /\ \A j \in 1..Len(nexts) : nexts[j] \in D
      /\ \A m \in D : \E j \in 1..Len(nexts) : nexts[j] = m
  BY <1>3 DEF Members
<1>5. x.res \in Seq(Ranges(n)) /\ x.maxIdx \in Nat
  BY DEF CutState
<1>6. \A m \in D : UnitLength(t, u, m) \in 0..n
  <2>. TAKE m \in D
  <2>1. m \in u..n-1
    BY <1>3
  <2>. QED
    BY <1>3, <2>1 DEF UnitLength
<1>7. PICK alone \in BOOLEAN : alone <=> Len(nexts) = 1 /\ RuneAlone(x.maxIdx, u)
  OBVIOUS
<1>8. PICK keep : keep = {j \in 1..Len(nexts) : alone \/ UnitLength(t, u, nexts[j]) >= 2}
  OBVIOUS
<1>9. PICK ends : ends = Selected(nexts, keep)
  OBVIOUS
<1>10. PICK reach : reach = {x.maxIdx} \cup {u + UnitLength(t, u, nexts[j]) : j \in 1..Len(nexts)}
  OBVIOUS
<1>11. PICK more : more = [j \in 1..Len(ends) |-> WordRange(u, ends[j])]
  OBVIOUS
<1>12. /\ y.res = x.res \o more
       /\ y.maxIdx = CHOOSE r \in reach : \A q \in reach : q <= r
       /\ y = [res |-> y.res, maxIdx |-> y.maxIdx]
  <2>1. keep = {j \in 1..Len(nexts) : (Len(nexts) = 1 /\ RuneAlone(x.maxIdx, u))
                                         \/ UnitLength(t, u, nexts[j]) >= 2}
    BY <1>7, <1>8
  <2>2. y = [res |-> x.res \o more, maxIdx |-> CHOOSE r \in reach : \A q \in reach : q <= r]
    BY <1>1, <1>9, <1>10, <1>11, <2>1 DEF FullStep
  <2>. QED
    BY <2>2
<1>13. Pushed(t, u, x) = {m \in D : alone \/ UnitLength(t, u, m) >= 2}
  BY <1>2, <1>3, <1>7 DEF Pushed, RuneAlone
<1>14. /\ ends \in Seq(Int) /\ \A j \in 1..Len(ends) : ends[j] \in Pushed(t, u, x)
       /\ \A m \in Pushed(t, u, x) : \E j \in 1..Len(ends) : ends[j] = m
  <2>1. /\ ends \in Seq(Int)
        /\ \A j \in 1..Len(ends) : \E k \in 1..Len(nexts) : k \in keep /\ ends[j] = nexts[k]
    BY <1>3, <1>9, SelectedMembers, SMTT(30)
  <2>2. ASSUME NEW m \in Pushed(t, u, x) PROVE \E j \in 1..Len(ends) : ends[j] = m
    <3>1. PICK a \in 1..Len(nexts) : nexts[a] = m
      BY <1>4, <1>13, <2>2
    <3>2. a \in keep
      BY <1>8, <1>13, <2>2, <3>1
    <3>3. \E j \in 1..Len(Selected(nexts, keep)) : Selected(nexts, keep)[j] = nexts[a]
      BY <1>3, <3>2, SelectedAll
    <3>. QED
      BY <1>9, <3>1, <3>3
  <2>. QED
    BY <1>4, <1>8, <1>13, <2>1, <2>2
<1>15. more \in Seq(Ranges(n)) /\ Members(more) = {WordRange(u, m) : m \in Pushed(t, u, x)}
  <2>1. \A m \in Pushed(t, u, x) : WordRange(u, m) \in Ranges(n)
    <3>. TAKE m \in Pushed(t, u, x)
    <3>1. m \in u..n-1
      BY <1>3, <1>13
    <3>2. u \in 0..n-1 /\ m \in 0..n-1 /\ u <= m
      BY <1>3, <3>1
    <3>. QED
      BY <3>2 DEF WordRange, Ranges
  <2>2. Len(ends) \in Nat /\ \A j \in 1..Len(ends) : WordRange(u, ends[j]) \in Ranges(n)
    BY <1>14, <2>1
  <2>3. more \in Seq(Ranges(n)) /\ Len(more) = Len(ends)
    BY <1>11, <2>2
  <2>4. \A j \in 1..Len(more) : more[j] = WordRange(u, ends[j])
    BY <1>11, <2>3
  <2>. QED
    <3>1. \A r : r \in Members(more) <=> \E j \in 1..Len(ends) : r = WordRange(u, ends[j])
      BY <2>3, <2>4 DEF Members
    <3>2. \A r : r \in {WordRange(u, m) : m \in Pushed(t, u, x)}
                 <=> \E m \in Pushed(t, u, x) : r = WordRange(u, m)
      OBVIOUS
    <3>3. \A r : r \in Members(more) <=> r \in {WordRange(u, m) : m \in Pushed(t, u, x)}
      BY <1>14, <3>1, <3>2
    <3>4. \A A, B : (\A r : r \in A <=> r \in B) => A = B
      OBVIOUS
    <3>. QED
      BY <2>3, <3>3, <3>4
<1>16. y.res \in Seq(Ranges(n)) /\ Members(y.res) = Members(x.res) \cup Members(more)
  BY <1>5, <1>12, <1>15, MembersConcat
<1>17. /\ y.maxIdx \in reach /\ \A q \in reach : q <= y.maxIdx
       /\ reach \subseteq Nat
  <2>1. PICK B : B = x.maxIdx + n + n
    OBVIOUS
  <2>2. B \in Nat /\ reach \subseteq 0..B /\ reach # {}
    <3>1. \A j \in 1..Len(nexts) : u + UnitLength(t, u, nexts[j]) \in 0..n+n
      <4>. TAKE j \in 1..Len(nexts)
      <4>1. PICK l : l = UnitLength(t, u, nexts[j])
        OBVIOUS
      <4>2. l \in 0..n
        BY <1>4, <1>6, <4>1
      <4>3. u + l \in 0..n+n
        BY <1>3, <4>2
      <4>. QED
        BY <4>1, <4>3
    <3>2. x.maxIdx \in 0..B /\ 0..n+n \subseteq 0..B /\ B \in Nat
      BY <1>3, <1>5, <2>1
    <3>. QED
      BY <1>10, <3>1, <3>2
  <2>3. \E r \in reach : \A q \in reach : q <= r
    BY <2>2, GreatestNatural
  <2>. QED
    BY <1>12, <2>2, <2>3
<1>18. /\ x.maxIdx \in reach /\ \A m \in D : u + UnitLength(t, u, m) \in reach
       /\ \A r \in reach : r = x.maxIdx \/ \E m \in D : r = u + UnitLength(t, u, m)
  BY <1>4, <1>10
<1>19. y \in CutState(n)
  <2>1. y.maxIdx \in Nat
    BY <1>17
  <2>. QED
    BY <1>12, <1>16, <2>1 DEF CutState
<1>. QED
  BY <1>2, <1>15, <1>16, <1>17, <1>18, <1>19

\* the words of two runes or more in a text
InWords(t) ==
  {w \in Ranges(Len(t)) : Length(w) \in 2..MaxWordLen
     /\ SubSeq(t, w.left + 1, w.right + 1) \in Known}

\* What is found at u are the words that begin there, and the rune.
LEMMA DagsInWords ==
  ASSUME TreeInv, Lexical!LastWins, Done, NEW t \in Seq(Runes), NEW u \in 0..Len(t)-1
  PROVE  /\ \A m \in FindDags(t, u) : m # u => WordRange(u, m) \in InWords(t)
         /\ \A m \in FindDags(t, u) : m # u => UnitLength(t, u, m) = m - u + 1
         /\ UnitLength(t, u, u) \in {0, 1}
         /\ \A w \in InWords(t) : w.left = u => w.right \in FindDags(t, u) /\ w.right # u
<1>1. Len(t) \in Nat /\ MaxWordLen \in Nat
  BY TextAssumption
<1>2. FindDags(t, u) = {m \in u..Len(t)-1 : m = u \/
         (m - u + 1 <= MaxWordLen /\ SubSeq(t, u + 1, m + 1) \in Known)}
  BY FindDagsRight
<1>3. ASSUME NEW m \in FindDags(t, u), m # u
      PROVE  WordRange(u, m) \in InWords(t) /\ UnitLength(t, u, m) = m - u + 1
  <2>1. m \in u..Len(t)-1 /\ m - u + 1 <= MaxWordLen /\ SubSeq(t, u + 1, m + 1) \in Known
    BY <1>2, <1>3
  <2>2. PICK w : w = WordRange(u, m)
    OBVIOUS
  <2>3. w.left = u /\ w.right = m /\ w \in Ranges(Len(t)) /\ Length(w) = m - u + 1
    <3>1. u \in 0..Len(t)-1 /\ m \in 0..Len(t)-1 /\ u <= m
      BY <1>1, <2>1
    <3>. QED
      BY <2>2, <3>1 DEF WordRange, Ranges, Length
  <2>4. Length(w) \in 2..MaxWordLen
    BY <1>1, <1>3, <2>1, <2>3
  <2>5. w \in InWords(t)
    BY <2>1, <2>3, <2>4 DEF InWords
  <2>6. PICK s : s = SubSeq(t, u + 1, m + 1)
    OBVIOUS
  <2>7. s \in Seq(Runes) /\ s # <<>>
    <3>1. u \in 0..Len(t) /\ m + 1 \in u..Len(t) /\ (m + 1) - u # 0
      BY <1>1, <2>1
    <3>2. s \in Seq(Runes) /\ Len(s) = (m + 1) - u
      BY <2>6, <3>1, SubSeqRight
    <3>. QED
      BY <3>1, <3>2
  <2>8. FindWord(s) # 0
    BY <2>1, <2>6, <2>7, FoundKnown
  <2>. QED
    BY <2>2, <2>5, <2>6, <2>8 DEF UnitLength
<1>4. UnitLength(t, u, u) \in {0, 1}
  BY <1>1 DEF UnitLength
<1>5. ASSUME NEW w \in InWords(t), w.left = u
      PROVE  w.right \in FindDags(t, u) /\ w.right # u
  <2>1. /\ w.right \in 0..Len(t)-1 /\ w.left <= w.right /\ Length(w) \in 2..MaxWordLen
        /\ SubSeq(t, u + 1, w.right + 1) \in Known
    BY <1>5 DEF InWords, Ranges
  <2>2. Length(w) = w.right - u + 1
    BY <1>5 DEF Length
  <2>3. w.right \in u..Len(t)-1 /\ w.right - u + 1 <= MaxWordLen /\ w.right # u
    BY <1>1, <1>5, <2>1, <2>2
  <2>. QED
    BY <1>2, <2>1, <2>3
<1>. QED
  BY <1>3, <1>4, <1>5

\* Up to k, all words are there and all runes are; what else is there is in no word.
CutInv(t, k, x) ==
  /\ \A w \in InWords(t) : w.left < k => w \in Members(x.res) /\ w.right + 1 <= x.maxIdx
  /\ \A w \in Members(x.res) : w \in InWords(t) \/
       (w.left = w.right /\ \A v \in InWords(t) : w.left \notin v.left..v.right)
  /\ \A p \in 0..Len(t)-1 : p < k \/ p < x.maxIdx
       => \E w \in Members(x.res) : p \in w.left..w.right

\* One position of the text keeps what the full cut has covered.
LEMMA CutStep ==
  ASSUME TreeInv, Lexical!LastWins, Done, NEW t \in Seq(Runes), NEW n, n = Len(t),
         NEW u \in 0..n-1, NEW x \in CutState(n), CutInv(t, u, x),
         NEW y, y = FullStep(t, u, x)
  PROVE  CutInv(t, u + 1, y)
<1>1. PICK D : D = FindDags(t, u)
  OBVIOUS
<1>2. /\ n \in Nat /\ u \in D /\ D \subseteq u..n-1
      /\ \A m \in D : m # u => WordRange(u, m) \in InWords(t)
      /\ \A m \in D : m # u => UnitLength(t, u, m) = m - u + 1
      /\ UnitLength(t, u, u) \in {0, 1}
      /\ \A w \in InWords(t) : w.left = u => w.right \in D /\ w.right # u
  <2>1. n \in Nat /\ u \in 0..Len(t)-1 /\ n = Len(t)
    OBVIOUS
  <2>2. u \in D /\ D \subseteq u..n-1
    BY <1>1, <2>1 DEF FindDags
  <2>. QED
    BY <1>1, <2>1, <2>2, DagsInWords
<1>3. /\ x.maxIdx \in Nat /\ y.maxIdx \in Nat
      /\ Members(y.res) = Members(x.res) \cup {WordRange(u, m) : m \in Pushed(t, u, x)}
      /\ y.maxIdx >= x.maxIdx
      /\ \A m \in D : y.maxIdx >= u + UnitLength(t, u, m)
      /\ \/ y.maxIdx = x.maxIdx
         \/ \E m \in D : y.maxIdx = u + UnitLength(t, u, m)
  <2>1. /\ y \in CutState(n)
        /\ Members(y.res) = Members(x.res) \cup {WordRange(u, m) : m \in Pushed(t, u, x)}
        /\ y.maxIdx >= x.maxIdx
        /\ \A m \in FindDags(t, u) : y.maxIdx >= u + UnitLength(t, u, m)
        /\ \/ y.maxIdx = x.maxIdx
           \/ \E m \in FindDags(t, u) : y.maxIdx = u + UnitLength(t, u, m)
    BY FullStepRight
  <2>2. \A z \in CutState(n) : z.maxIdx \in Nat
    BY DEF CutState
  <2>. QED
    BY <1>1, <2>1, <2>2
<1>4. Pushed(t, u, x) = {m \in D : (D = {u} /\ x.maxIdx <= u) \/ m # u}
  <2>1. \A m \in D : UnitLength(t, u, m) >= 2 <=> m # u
    <3>. TAKE m \in D
    <3>1. CASE m = u
      BY <1>2, <3>1
    <3>2. CASE m # u
      <4>1. m \in u..n-1
        BY <1>2
      <4>. QED
        BY <1>2, <3>2, <4>1
    <3>. QED
      BY <3>1, <3>2
  <2>. QED
    BY <1>1, <2>1 DEF Pushed
<1>5. \A m \in D : WordRange(u, m).left = u /\ WordRange(u, m).right = m
  BY DEF WordRange
<1>6. \A w \in InWords(t) : /\ w.left \in 0..n-1 /\ w.right \in 0..n-1
                            /\ w = WordRange(w.left, w.right)
  BY DEF InWords, Ranges, WordRange
<1>7. ASSUME NEW w \in InWords(t), w.left < u + 1
      PROVE  w \in Members(y.res) /\ w.right + 1 <= y.maxIdx
  <2>1. CASE w.left < u
    <3>1. w \in Members(x.res) /\ w.right + 1 <= x.maxIdx /\ w.right \in 0..n-1
      BY <1>6, <2>1 DEF CutInv
    <3>. QED
      BY <1>2, <1>3, <3>1
  <2>2. CASE w.left = u
    <3>1. w.right \in D /\ w.right # u /\ w.right \in 0..n-1 /\ w = WordRange(u, w.right)
      BY <1>2, <1>6, <2>2
    <3>2. w \in Members(y.res)
      BY <1>3, <1>4, <3>1
    <3>3. UnitLength(t, u, w.right) = w.right - u + 1 /\ y.maxIdx >= u + UnitLength(t, u, w.right)
      BY <1>2, <1>3, <3>1
    <3>. QED
      BY <1>2, <1>3, <3>1, <3>2, <3>3
  <2>3. w.left \in 0..n-1
    BY <1>6
  <2>. QED
    BY <1>2, <1>7, <2>1, <2>2, <2>3
<1>8. ASSUME NEW w \in Members(y.res)
      PROVE  w \in InWords(t) \/
               (w.left = w.right /\ \A v \in InWords(t) : w.left \notin v.left..v.right)
  <2>1. CASE w \in Members(x.res)
    BY <2>1 DEF CutInv
  <2>2. ASSUME NEW m \in D, m # u, w = WordRange(u, m) PROVE w \in InWords(t)
    BY <1>2, <2>2
  <2>3. ASSUME w = WordRange(u, u), D = {u}, x.maxIdx <= u
        PROVE  w.left = w.right /\ \A v \in InWords(t) : w.left \notin v.left..v.right
    <3>1. w.left = u /\ w.right = u
      BY <2>3 DEF WordRange
    <3>2. ASSUME NEW v \in InWords(t), u \in v.left..v.right PROVE FALSE
      <4>1. v.left \in 0..n-1 /\ v.right \in 0..n-1
        BY <1>6
      <4>2. CASE v.left < u
        <5>1. v.right + 1 <= x.maxIdx
          BY <4>2 DEF CutInv
        <5>. QED
          BY <1>2, <1>3, <2>3, <3>2, <4>1, <5>1
      <4>3. CASE v.left = u
        BY <1>2, <2>3, <4>3
      <4>. QED
        BY <1>2, <3>2, <4>1, <4>2, <4>3
    <3>. QED
      BY <3>1, <3>2
  <2>. QED
    BY <1>3, <1>4, <1>8, <2>1, <2>2, <2>3
<1>9. ASSUME NEW p \in 0..n-1, p < u + 1 \/ p < y.maxIdx
      PROVE  \E w \in Members(y.res) : p \in w.left..w.right
  <2>1. CASE p < u \/ p < x.maxIdx
    BY <1>3, <2>1 DEF CutInv
  <2>2. CASE ~(p < u \/ p < x.maxIdx)
    <3>1. p >= u /\ x.maxIdx <= p
      BY <1>2, <1>3, <2>2
    <3>2. ASSUME NEW m \in D, m # u, p <= m
          PROVE  \E w \in Members(y.res) : p \in w.left..w.right
      <4>1. WordRange(u, m) \in Members(y.res) /\ m \in u..n-1
        BY <1>2, <1>3, <1>4, <3>2
      <4>2. p \in u..m
        BY <1>2, <3>1, <3>2, <4>1
      <4>. QED
        BY <1>5, <4>1, <4>2
    <3>3. CASE D # {u}
      <4>1. PICK m \in D : m # u
        BY <1>2, <3>3
      <4>2. m \in u..n-1
        BY <1>2
      <4>3. CASE p = u
        BY <1>2, <3>2, <4>1, <4>2, <4>3
      <4>4. CASE p # u
        <5>1. p < y.maxIdx /\ y.maxIdx # x.maxIdx
          BY <1>2, <1>3, <1>9, <3>1, <4>4
        <5>2. PICK k \in D : y.maxIdx = u + UnitLength(t, u, k)
          BY <1>3, <5>1
        <5>3. k \in u..n-1
          BY <1>2
        <5>4. k # u
          <6>1. SUFFICES ASSUME k = u PROVE FALSE
            OBVIOUS
          <6>2. UnitLength(t, u, u) \in {0, 1} /\ p < u + UnitLength(t, u, u)
            BY <1>2, <5>1, <5>2, <6>1
          <6>. QED
            BY <1>2, <3>1, <4>4, <6>2
        <5>5. UnitLength(t, u, k) = k - u + 1
          BY <1>2, <5>4
        <5>6. p <= k
          BY <1>2, <5>1, <5>2, <5>3, <5>5
        <5>. QED
          BY <3>2, <5>4, <5>6
      <4>. QED
        BY <4>3, <4>4
    <3>4. CASE D = {u}
      <4>1. p = u
        <5>1. SUFFICES ASSUME p # u PROVE FALSE
          OBVIOUS
        <5>2. p < y.maxIdx /\ y.maxIdx # x.maxIdx
          BY <1>2, <1>3, <1>9, <3>1, <5>1
        <5>3. y.maxIdx = u + UnitLength(t, u, u)
          BY <1>3, <3>4, <5>2
        <5>. QED
          BY <1>2, <3>1, <5>1, <5>2, <5>3
      <4>2. u \in Pushed(t, u, x)
        BY <1>2, <1>4, <3>1, <3>4, <4>1
      <4>3. WordRange(u, u) \in Members(y.res)
        BY <1>3, <4>2
      <4>4. p \in u..u
        BY <1>2, <4>1
      <4>. QED
        BY <1>2, <1>5, <4>3, <4>4
    <3>. QED
      BY <3>3, <3>4
  <2>. QED
    BY <2>1, <2>2
<1>. QED
  BY <1>7, <1>8, <1>9 DEF CutInv

\* FullCut goes through the text position by position.
LEMMA FullCutDef ==
  ASSUME TreeInv, Lexical!LastWins, Done, NEW t \in Seq(Runes), NEW n, n = Len(t)
  PROVE  \E cut \in [0..n -> CutState(n)] :
           /\ FullCut(t) = cut[n].res
           /\ cut[0] = [res |-> <<>>, maxIdx |-> 0]
           /\ \A k \in 1..n : cut[k] = FullStep(t, k - 1, cut[k-1])
<1>. DEFINE S == CutState(n)
            a == [res |-> <<>>, maxIdx |-> 0]
            G == [k \in 1..n |-> [x \in S |-> FullStep(t, k - 1, x)]]
            F(g) == [k \in 0..Len(t) |-> IF k = 0 THEN a ELSE FullStep(t, k - 1, g[k-1])]
            cut == CHOOSE g : g = F(g)
<1>1. FullCut(t) = cut[Len(t)].res
  BY DEF FullCut, FullStep
<1>. HIDE DEF cut
<1>2. n \in Nat /\ \A g : F(g) = [k \in 0..n |-> IF k = 0 THEN a ELSE FullStep(t, k - 1, g[k-1])]
  OBVIOUS
<1>. HIDE DEF F
<1>3. a \in S
  BY DEF CutState
<1>. HIDE DEF a
<1>4. \A k \in 1..n : \A x \in S : FullStep(t, k - 1, x) \in S
  <2>. TAKE k \in 1..n
  <2>. TAKE x \in S
  <2>1. PICK u, y : u = k - 1 /\ y = FullStep(t, u, x)
    OBVIOUS
  <2>2. u \in 0..n-1
    BY <1>2, <2>1
  <2>3. y \in CutState(n)
    BY <2>1, <2>2, FullStepRight
  <2>. QED
    BY <2>1, <2>3
<1>. HIDE DEF S
<1>5. \A k \in 1..n : \A x \in S : G[k][x] = FullStep(t, k - 1, x) /\ G[k][x] \in S
  BY <1>4
<1>. HIDE DEF G
<1>6. PICK f \in [0..n -> S] : Steps(f, n, a, G)
  <2>1. Stepwise(n, S, a, G)
    BY <1>2, <1>3, <1>5 DEF Stepwise
  <2>. QED
    BY <2>1, StepsExist
<1>7. f = F(f)
  <2>1. ASSUME NEW k \in 0..n PROVE f[k] = IF k = 0 THEN a ELSE FullStep(t, k - 1, f[k-1])
    <3>1. k # 0 => k \in 1..n /\ k - 1 \in 0..n
      BY <1>2
    <3>. QED
      BY <1>5, <1>6, <3>1 DEF Steps
  <2>2. f = [k \in 0..n |-> f[k]]
    BY <1>6 DEF Steps
  <2>. QED
    BY <1>2, <2>1, <2>2
<1>8. cut = F(cut)
  BY <1>7 DEF cut
<1>9. cut = [k \in 0..n |-> IF k = 0 THEN a ELSE FullStep(t, k - 1, cut[k-1])]
  BY <1>2, <1>8
<1>10. cut[0] = a /\ \A k \in 1..n : cut[k] = FullStep(t, k - 1, cut[k-1])
  <2>1. \A k \in 0..n : cut[k] = IF k = 0 THEN a ELSE FullStep(t, k - 1, cut[k-1])
    BY <1>9
  <2>. QED
    BY <1>2, <2>1
<1>11. cut \in [0..n -> S]
  <2>. DEFINE P(k) == k <= n => cut[k] \in S
              T == {k \in Nat : P(k)}
  <2>1. ASSUME NEW k \in Nat, P(k) PROVE P(k + 1)
    <3>. SUFFICES ASSUME k + 1 <= n PROVE cut[k+1] \in S
      OBVIOUS
    <3>1. k + 1 \in 1..n /\ (k + 1) - 1 = k /\ cut[k] \in S
      BY <1>2, <2>1
    <3>2. cut[k+1] = FullStep(t, (k + 1) - 1, cut[k]) /\ FullStep(t, (k + 1) - 1, cut[k]) \in S
      BY <1>4, <1>10, <3>1
    <3>. QED
      BY <3>2
  <2>2. P(0)
    BY <1>2, <1>3, <1>10
  <2>3. \A k \in Nat : P(k)
    <3>. HIDE DEF P
    <3>1. T \in SUBSET Nat /\ 0 \in T /\ \A k \in T : k + 1 \in T
      BY <2>1, <2>2
    <3>2. T = Nat
      BY <3>1, Induction
    <3>. QED
      BY <3>2
  <2>4. \A k \in 0..n : cut[k] \in S
    BY <1>2, <2>3
  <2>5. cut = [k \in 0..n |-> cut[k]]
    BY <1>9
  <2>. QED
    BY <2>4, <2>5
<1>. QED
  BY <1>1, <1>10, <1>11 DEF a, S

\* The whole text: all of it is as the last position has it.
LEMMA FullCutRight ==
  ASSUME TreeInv, Lexical!LastWins, Done, NEW t \in Seq(Runes)
  PROVE  /\ \A p \in 0..Len(t)-1 : \E w \in Members(FullCut(t)) : p \in w.left..w.right
         /\ InWords(t) \subseteq Members(FullCut(t))
         /\ \A w \in Members(FullCut(t)) \ InWords(t) :
              w.left = w.right /\ \A v \in InWords(t) : w.left \notin v.left..v.right
<1>1. PICK n : n = Len(t)
  OBVIOUS
<1>2. n \in Nat
  BY <1>1
<1>3. PICK cut \in [0..n -> CutState(n)] :
         /\ FullCut(t) = cut[n].res
         /\ cut[0] = [res |-> <<>>, maxIdx |-> 0]
         /\ \A k \in 1..n : cut[k] = FullStep(t, k - 1, cut[k-1])
  BY <1>1, FullCutDef
<1>. DEFINE P(k) == k <= n => CutInv(t, k, cut[k])
            T == {k \in Nat : P(k)}
<1>4. P(0)
  <2>1. cut[0].res = <<>> /\ cut[0].maxIdx = 0
    BY <1>3
  <2>2. Members(<<>>) = {}
    BY DEF Members
  <2>3. \A w \in InWords(t) : w.left \in 0..n-1
    BY <1>1 DEF InWords, Ranges
  <2>. QED
    BY <1>1, <1>2, <2>1, <2>2, <2>3 DEF CutInv
<1>5. ASSUME NEW k \in Nat, P(k) PROVE P(k + 1)
  <2>. SUFFICES ASSUME k + 1 <= n PROVE CutInv(t, k + 1, cut[k+1])
    OBVIOUS
  <2>1. k \in 0..n-1 /\ k \in 0..n /\ k + 1 \in 1..n /\ (k + 1) - 1 = k /\ k <= n
    BY <1>2
  <2>2. PICK x, y : x = cut[k] /\ y = cut[k+1]
    OBVIOUS
  <2>3. x \in CutState(n) /\ CutInv(t, k, x) /\ y = FullStep(t, k, x)
    BY <1>3, <1>5, <2>1, <2>2
  <2>4. CutInv(t, k + 1, y)
    BY <1>1, <2>1, <2>3, CutStep
  <2>. QED
    BY <2>2, <2>4
<1>6. CutInv(t, n, cut[n])
  <2>1. \A k \in Nat : P(k)
    <3>. HIDE DEF P
    <3>1. T \in SUBSET Nat /\ 0 \in T /\ \A k \in T : k + 1 \in T
      BY <1>4, <1>5
    <3>2. T = Nat
      BY <3>1, Induction
    <3>. QED
      BY <3>2
  <2>. QED
    BY <1>2, <2>1
<1>7. \A w \in InWords(t) : w.left < n
  BY <1>1, <1>2 DEF InWords, Ranges
<1>8. \A p \in 0..Len(t)-1 : p < n
  BY <1>1, <1>2
<1>. QED
  BY <1>3, <1>6, <1>7, <1>8 DEF CutInv

\* For all dictionaries and texts: the full cut loses no rune and no word.
THEOREM FullCutCovers == Spec => []FullCovers
<1>1. ASSUME TreeInv, Lexical!LastWins PROVE FullCovers
  <2>. SUFFICES ASSUME Done, NEW t \in Texts
       PROVE  /\ \A p \in 0..Len(t)-1 : \E w \in Members(FullCut(t)) : p \in w.left..w.right
              /\ InWords(t) \subseteq Members(FullCut(t))
              /\ \A w \in Members(FullCut(t)) \ InWords(t) :
                   w.left = w.right /\ \A v \in InWords(t) : w.left \notin v.left..v.right
    BY DEF FullCovers, Members, InWords
  <2>1. t \in Seq(Runes)
    BY TextAssumption DEF Runes
  <2>. QED
    BY <1>1, <2>1, FullCutRight
<1>. QED
  BY <1>1, LastAlways, PTL
=============================================================================
