--------------------------- MODULE KeyWordsProofs ---------------------------
(***************************************************************************)
(* The places and the graph of the key words, for all sentences,           *)
(* dictionaries, stop words, spans and widths of runes.  That the words    *)
(* tile the sentence (SentenceCutProofs) makes their sizes add up to their *)
(* places; the graph's window is that of the words that remain because     *)
(* skip makes up for what the places run ahead of the ranks.               *)
(***************************************************************************)
EXTENDS KeyWords, SentenceCutProofs

-----------------------------------------------------------------------------
(* Places.                                                                  *)

\* Bytes is what its recursion says.
LEMMA BytesDef ==
  ASSUME NEW w, Len(w) \in Nat, \A k \in 1..Len(w) : Width[w[k]] \in Nat
  PROVE  \E sum \in [0..Len(w) -> Nat] :
           /\ Bytes(w) = sum[Len(w)] /\ sum[0] = 0
           /\ \A k \in 1..Len(w) : sum[k] = sum[k-1] + Width[w[k]]
<1>. DEFINE N == Len(w)
            G == [k \in 1..N |-> [x \in Nat |-> x + Width[w[k]]]]
            F(g) == [k \in 0..N |-> IF k = 0 THEN 0 ELSE g[k-1] + Width[w[k]]]
            sum == CHOOSE g : g = F(g)
<1>1. Bytes(w) = sum[N]
  BY DEF Bytes
<1>. HIDE DEF sum
<1>2. N \in Nat /\ \A k \in 1..N : Width[w[k]] \in Nat
  OBVIOUS
<1>. HIDE DEF N
<1>3. \A k \in 1..N : \A x \in Nat : G[k][x] = x + Width[w[k]] /\ G[k][x] \in Nat
  BY <1>2
<1>. HIDE DEF G
<1>4. PICK f \in [0..N -> Nat] : Steps(f, N, 0, G)
  <2>1. Stepwise(N, Nat, 0, G)
    BY <1>2, <1>3 DEF Stepwise
  <2>. QED
    BY <2>1, StepsExist
<1>5. f = F(f)
  <2>1. ASSUME NEW k \in 0..N PROVE f[k] = IF k = 0 THEN 0 ELSE f[k-1] + Width[w[k]]
    <3>1. k # 0 => k \in 1..N /\ k - 1 \in 0..N
      BY <1>2
    <3>. QED
      BY <1>3, <1>4, <3>1 DEF Steps
  <2>2. f = [k \in 0..N |-> f[k]]
    BY <1>4 DEF Steps
  <2>. QED
    BY <2>1, <2>2
<1>6. sum = F(sum)
  <2>. HIDE DEF F
  <2>. QED
    BY <1>5 DEF sum
<1>7. sum = [k \in 0..N |-> sum[k]] /\ sum[0] = 0 /\ \A k \in 1..N : sum[k] = sum[k-1] + Width[w[k]]
  <2>1. \A k \in 0..N : sum[k] = IF k = 0 THEN 0 ELSE sum[k-1] + Width[w[k]]
    BY <1>6
  <2>2. sum = [k \in 0..N |-> sum[k]]
    <3>1. DOMAIN sum = 0..N
      BY <1>6
    <3>. QED
      BY <1>6, <3>1
  <2>. QED
    BY <1>2, <2>1, <2>2
<1>8. sum \in [0..N -> Nat]
  <2>. DEFINE P(k) == k <= N => sum[k] \in Nat
              T == {k \in Nat : P(k)}
  <2>1. P(0)
    BY <1>7
  <2>2. ASSUME NEW k \in Nat, P(k) PROVE P(k+1)
    <3>. SUFFICES ASSUME k + 1 <= N PROVE sum[k+1] \in Nat
      OBVIOUS
    <3>1. k + 1 \in 1..N /\ (k + 1) - 1 = k /\ sum[k] \in Nat
      BY <1>2, <2>2
    <3>2. sum[k+1] = sum[k] + Width[w[k+1]]
      BY <1>7, <3>1
    <3>3. Width[w[k+1]] \in Nat
      BY <1>2, <3>1
    <3>. QED
      BY <3>1, <3>2, <3>3
  <2>3. \A k \in Nat : P(k)
    <3>. HIDE DEF P
    <3>1. T \in SUBSET Nat /\ 0 \in T /\ \A k \in T : k + 1 \in T
      BY <2>1, <2>2
    <3>2. T = Nat
      BY <3>1, Induction
    <3>. QED
      BY <3>2
  <2>4. \A k \in 0..N : sum[k] \in Nat
    BY <1>2, <2>3
  <2>. QED
    BY <1>7, <2>4
<1>. QED
  BY <1>1, <1>7, <1>8 DEF N

\* Offset is what its recursion says.
LEMMA OffsetDef ==
  ASSUME Len(Cut) \in Nat, \A k \in 1..Len(Cut) : Bytes(Cut[k]) \in Nat
  PROVE  /\ Offset \in [0..Len(Cut) -> Nat] /\ Offset[0] = 0
         /\ \A k \in 1..Len(Cut) : Offset[k] = Offset[k-1] + Bytes(Cut[k])
<1>. DEFINE N == Len(Cut)
            G == [k \in 1..N |-> [x \in Nat |-> x + Bytes(Cut[k])]]
            F(g) == [k \in 0..N |-> IF k = 0 THEN 0 ELSE g[k-1] + Bytes(Cut[k])]
            sum == CHOOSE g : g = F(g)
<1>1. Offset = sum
  BY DEF Offset
<1>. HIDE DEF sum
<1>2. N \in Nat /\ \A k \in 1..N : Bytes(Cut[k]) \in Nat
  OBVIOUS
<1>. HIDE DEF N
<1>3. \A k \in 1..N : \A x \in Nat : G[k][x] = x + Bytes(Cut[k]) /\ G[k][x] \in Nat
  BY <1>2
<1>. HIDE DEF G
<1>4. PICK f \in [0..N -> Nat] : Steps(f, N, 0, G)
  <2>1. Stepwise(N, Nat, 0, G)
    BY <1>2, <1>3 DEF Stepwise
  <2>. QED
    BY <2>1, StepsExist
<1>5. f = F(f)
  <2>1. ASSUME NEW k \in 0..N PROVE f[k] = IF k = 0 THEN 0 ELSE f[k-1] + Bytes(Cut[k])
    <3>1. k # 0 => k \in 1..N /\ k - 1 \in 0..N
      BY <1>2
    <3>. QED
      BY <1>3, <1>4, <3>1 DEF Steps
  <2>2. f = [k \in 0..N |-> f[k]]
    BY <1>4 DEF Steps
  <2>. QED
    BY <2>1, <2>2
<1>6. sum = F(sum)
  <2>. HIDE DEF F
  <2>. QED
    BY <1>5 DEF sum
<1>7. sum = [k \in 0..N |-> sum[k]] /\ sum[0] = 0 /\ \A k \in 1..N : sum[k] = sum[k-1] + Bytes(Cut[k])
  <2>1. \A k \in 0..N : sum[k] = IF k = 0 THEN 0 ELSE sum[k-1] + Bytes(Cut[k])
    BY <1>6
  <2>2. sum = [k \in 0..N |-> sum[k]]
    <3>1. DOMAIN sum = 0..N
      BY <1>6
    <3>. QED
      BY <1>6, <3>1
  <2>. QED
    BY <1>2, <2>1, <2>2
<1>8. sum \in [0..N -> Nat]
  <2>. DEFINE P(k) == k <= N => sum[k] \in Nat
              T == {k \in Nat : P(k)}
  <2>1. P(0)
    BY <1>7
  <2>2. ASSUME NEW k \in Nat, P(k) PROVE P(k+1)
    <3>. SUFFICES ASSUME k + 1 <= N PROVE sum[k+1] \in Nat
      OBVIOUS
    <3>1. k + 1 \in 1..N /\ (k + 1) - 1 = k /\ sum[k] \in Nat
      BY <1>2, <2>2
    <3>2. sum[k+1] = sum[k] + Bytes(Cut[k+1])
      BY <1>7, <3>1
    <3>3. Bytes(Cut[k+1]) \in Nat
      BY <1>2, <3>1
    <3>. QED
      BY <3>1, <3>2, <3>3
  <2>3. \A k \in Nat : P(k)
    <3>. HIDE DEF P
    <3>1. T \in SUBSET Nat /\ 0 \in T /\ \A k \in T : k + 1 \in T
      BY <2>1, <2>2
    <3>2. T = Nat
      BY <3>1, Induction
    <3>. QED
      BY <3>2
  <2>4. \A k \in 0..N : sum[k] \in Nat
    BY <1>2, <2>3
  <2>. QED
    BY <1>7, <2>4
<1>. QED
  BY <1>1, <1>7, <1>8 DEF N

\* The bytes of the sentence's beginnings give those of each stretch of it.
LEMMA BytesAlong ==
  ASSUME runes \in Sentences
  PROVE  \E to \in [0..n -> Nat] :
           /\ to[0] = 0 /\ to[n] = Bytes(runes)
           /\ \A a \in 0..n : \A b \in a..n : Bytes(SubSeq(runes, a + 1, b)) \in Nat
           /\ \A a \in 0..n : \A b \in a..n : Bytes(SubSeq(runes, a + 1, b)) = to[b] - to[a]
<1>1. n \in Nat /\ n = Len(runes)
  BY SentenceLength DEF n
<1>2. \A k \in 1..n : Width[runes[k]] \in Nat
  BY <1>1, KeyWordAssumption
<1>3. PICK to \in [0..n -> Nat] : /\ Bytes(runes) = to[n] /\ to[0] = 0
                                 /\ \A k \in 1..n : to[k] = to[k-1] + Width[runes[k]]
  BY <1>1, <1>2, BytesDef
<1>4. ASSUME NEW a \in 0..n, NEW b \in a..n
      PROVE  /\ Bytes(SubSeq(runes, a + 1, b)) \in Nat
             /\ Bytes(SubSeq(runes, a + 1, b)) = to[b] - to[a]
  <2>1. PICK w, N : w = SubSeq(runes, a + 1, b) /\ N = b - a
    OBVIOUS
  <2>2. N \in Nat /\ a \in Nat /\ b \in Nat /\ a + N = b /\ b <= n
    BY <1>1, <2>1
  <2>3. Len(w) = N /\ \A k \in 1..N : w[k] = runes[a + k]
    <3>1. \E R : runes \in Seq(R)
      BY SentenceAssumption
    <3>. QED
      BY <1>1, <2>1, <3>1, SubSeqRight
  <2>4. \A k \in 1..N : a + k \in 1..n /\ Width[w[k]] = Width[runes[a + k]]
    BY <1>1, <2>2, <2>3
  <2>5. \A k \in 1..N : Width[w[k]] \in Nat
    BY <1>2, <2>4
  <2>6. PICK sum \in [0..N -> Nat] : /\ Bytes(w) = sum[N] /\ sum[0] = 0
                                    /\ \A k \in 1..N : sum[k] = sum[k-1] + Width[w[k]]
    BY <2>2, <2>3, <2>5, BytesDef
  <2>. DEFINE P(k) == k <= N => sum[k] = to[a + k] - to[a]
              T == {k \in Nat : P(k)}
  <2>7. P(0)
    <3>1. a + 0 = a /\ a \in 0..n
      BY <2>2, <1>1
    <3>2. to[a] \in Nat /\ to[a + 0] = to[a]
      BY <1>3, <3>1
    <3>. QED
      BY <2>6, <3>2
  <2>8. ASSUME NEW k \in Nat, P(k) PROVE P(k+1)
    <3>. SUFFICES ASSUME k + 1 <= N PROVE sum[k+1] = to[a + (k + 1)] - to[a]
      OBVIOUS
    <3>1. /\ k + 1 \in 1..N /\ (k + 1) - 1 = k /\ k <= N
          /\ a + (k + 1) \in 1..n /\ (a + (k + 1)) - 1 = a + k
          /\ a \in 0..n /\ a + k \in 0..n
      BY <1>1, <2>2
    <3>2. sum[k+1] = sum[k] + Width[w[k+1]]
      BY <2>6, <3>1
    <3>3. to[a + (k + 1)] = to[a + k] + Width[runes[a + (k + 1)]]
      BY <1>3, <3>1
    <3>4. Width[w[k+1]] = Width[runes[a + (k + 1)]] /\ Width[w[k+1]] \in Nat
      BY <2>4, <2>5, <3>1
    <3>5. sum[k] = to[a + k] - to[a] /\ to[a + k] \in Nat /\ to[a] \in Nat
      BY <1>3, <2>8, <3>1
    <3>. QED
      BY <3>2, <3>3, <3>4, <3>5
  <2>9. P(N)
    <3>. HIDE DEF P
    <3>1. T \in SUBSET Nat /\ 0 \in T /\ \A k \in T : k + 1 \in T
      BY <2>7, <2>8
    <3>2. T = Nat
      BY <3>1, Induction
    <3>. QED
      BY <2>2, <3>2
  <2>. QED
    BY <2>1, <2>2, <2>6, <2>9
<1>. QED
  BY <1>3, <1>4

\* The words Extract goes through, and where they are.
LEMMA CutRight ==
  ASSUME IInv, Extracting
  PROVE  /\ n \in Nat /\ Len(wrs) \in Nat /\ Len(Cut) = Len(wrs)
         /\ Tiles(wrs, 0, n)
         /\ \A k \in 1..Len(wrs) : /\ wrs[k].left \in 0..n-1 /\ wrs[k].right \in wrs[k].left..n-1
                                   /\ Cut[k] = SubSeq(runes, wrs[k].left + 1, wrs[k].right + 1)
<1>1. n \in Nat /\ wrs \in Seq(IntRanges)
  BY Types
<1>2. Len(wrs) \in Nat /\ \A k \in 1..Len(wrs) : wrs[k].left \in Int /\ wrs[k].right \in Int
  BY <1>1, RangeEnds
<1>3. Tiles(wrs, 0, n)
  BY DEF Extracting, Done, IInv, MixTiled, Front
<1>4. \A k \in 1..Len(wrs) : 0 <= wrs[k].left /\ wrs[k].right < n
  BY <1>1, <1>3, TilesInside DEF IntRanges
<1>5. \A k \in 1..Len(wrs) : wrs[k].left <= wrs[k].right
  BY <1>3 DEF Tiles
<1>6. Len(Cut) = Len(wrs) /\ \A k \in 1..Len(wrs) : Cut[k] = Piece(wrs[k])
  BY <1>2 DEF Cut
<1>7. ASSUME NEW k \in 1..Len(wrs)
      PROVE  /\ wrs[k].left \in 0..n-1 /\ wrs[k].right \in wrs[k].left..n-1
             /\ Cut[k] = SubSeq(runes, wrs[k].left + 1, wrs[k].right + 1)
  <2>1. PICK l, r : l = wrs[k].left /\ r = wrs[k].right
    OBVIOUS
  <2>2. l \in Int /\ r \in Int /\ 0 <= l /\ l <= r /\ r < n
    BY <1>2, <1>4, <1>5, <2>1
  <2>3. l \in 0..n-1 /\ r \in l..n-1
    BY <1>1, <2>2
  <2>4. Cut[k] = SubSeq(runes, l + 1, r + 1)
    BY <1>6, <2>1 DEF Piece
  <2>. QED
    BY <2>1, <2>3, <2>4
<1>. QED
  BY <1>1, <1>2, <1>3, <1>6, <1>7

\* What the offsets add up to is where the words begin.
LEMMA OffsetAt ==
  ASSUME IInv, Extracting
  PROVE  /\ Offset[Len(Cut)] = Bytes(runes)
         /\ \A k \in 1..Len(wrs) : Offset[k-1] = Bytes(SubSeq(runes, 1, wrs[k].left))
<1>1. PICK N : N = Len(wrs)
  OBVIOUS
<1>2. /\ n \in Nat /\ N \in Nat /\ Len(Cut) = N
      /\ Tiles(wrs, 0, n)
      /\ \A k \in 1..N : /\ wrs[k].left \in 0..n-1 /\ wrs[k].right \in wrs[k].left..n-1
                         /\ Cut[k] = SubSeq(runes, wrs[k].left + 1, wrs[k].right + 1)
  BY <1>1, CutRight
<1>3. PICK to \in [0..n -> Nat] :
        /\ to[0] = 0 /\ to[n] = Bytes(runes)
        /\ \A a \in 0..n : \A b \in a..n : Bytes(SubSeq(runes, a + 1, b)) \in Nat
        /\ \A a \in 0..n : \A b \in a..n : Bytes(SubSeq(runes, a + 1, b)) = to[b] - to[a]
  BY BytesAlong DEF IInv, TypeOK
<1>4. ASSUME NEW k \in 1..N
      PROVE  /\ wrs[k].left \in 0..n /\ wrs[k].right + 1 \in 0..n
             /\ Bytes(Cut[k]) \in Nat
             /\ Bytes(Cut[k]) = to[wrs[k].right + 1] - to[wrs[k].left]
             /\ Bytes(SubSeq(runes, 1, wrs[k].left)) = to[wrs[k].left]
  <2>1. PICK l, r : l = wrs[k].left /\ r = wrs[k].right + 1
    OBVIOUS
  <2>2. l \in 0..n /\ r \in l..n /\ Cut[k] = SubSeq(runes, l + 1, r)
    <3>1. l \in 0..n-1 /\ wrs[k].right \in l..n-1 /\ Cut[k] = SubSeq(runes, l + 1, r)
      BY <1>2, <2>1
    <3>2. PICK q, len : q = wrs[k].right /\ len = n
      OBVIOUS
    <3>3. len \in Nat /\ l \in 0..len-1 /\ q \in l..len-1 /\ r = q + 1
      BY <1>2, <2>1, <3>1, <3>2
    <3>4. l \in 0..len /\ r \in l..len
      BY <3>3
    <3>. QED
      BY <3>1, <3>2, <3>4
  <2>3. Bytes(Cut[k]) \in Nat /\ Bytes(Cut[k]) = to[r] - to[l]
    BY <1>3, <2>2
  <2>4. 0 \in 0..n /\ l \in 0..n /\ 0 + 1 = 1
    BY <1>2, <2>2
  <2>5. Bytes(SubSeq(runes, 0 + 1, l)) = to[l] - to[0]
    BY <1>3, <2>4
  <2>6. to[l] \in Nat /\ to[0] = 0
    BY <1>3, <2>4
  <2>7. Bytes(SubSeq(runes, 1, l)) = to[l]
    BY <2>4, <2>5, <2>6
  <2>8. r \in 0..n
    BY <1>2, <2>2
  <2>. QED
    BY <2>1, <2>2, <2>3, <2>4, <2>7, <2>8
<1>5. \A k \in 1..N : Bytes(Cut[k]) \in Nat
  BY <1>4
<1>6. /\ Offset[0] = 0
      /\ \A k \in 1..N : Offset[k] = Offset[k-1] + Bytes(Cut[k])
  BY <1>2, <1>5, OffsetDef
<1>7. \A k \in 1..N-1 : wrs[k+1].left = wrs[k].right + 1
  BY <1>1, <1>2 DEF Tiles
<1>8. /\ N # 0 => wrs[1].left = 0 /\ wrs[N].right + 1 = n
      /\ N = 0 => n = 0
  <2>1. wrs = <<>> <=> N = 0
    BY <1>1, Types, RangeEnds
  <2>. QED
    BY <1>1, <1>2, <2>1 DEF Tiles
<1>. DEFINE P(k) == k + 1 <= N => Offset[k] = to[wrs[k+1].left]
            T == {k \in Nat : P(k)}
<1>10. P(0)
  <2>1. 0 + 1 = 1 /\ (1 <= N => N # 0)
    OBVIOUS
  <2>. QED
    BY <1>3, <1>6, <1>8, <2>1
<1>11. ASSUME NEW k \in Nat, k + 1 <= N, Offset[k] = to[wrs[k+1].left]
       PROVE  Offset[k+1] = to[wrs[k+1].right + 1]
  <2>1. k + 1 \in 1..N /\ (k + 1) - 1 = k
    BY <1>2, <1>11
  <2>2. Offset[k+1] = Offset[k] + Bytes(Cut[k+1])
    BY <1>6, <2>1
  <2>3. /\ Bytes(Cut[k+1]) = to[wrs[k+1].right + 1] - to[wrs[k+1].left]
        /\ wrs[k+1].left \in 0..n /\ wrs[k+1].right + 1 \in 0..n
    BY <1>4, <2>1
  <2>4. to[wrs[k+1].right + 1] \in Nat /\ to[wrs[k+1].left] \in Nat
    BY <1>3, <2>3
  <2>. QED
    BY <1>11, <2>2, <2>3, <2>4
<1>12. ASSUME NEW k \in Nat, P(k) PROVE P(k+1)
  <2>. SUFFICES ASSUME (k + 1) + 1 <= N PROVE Offset[k+1] = to[wrs[(k+1)+1].left]
    OBVIOUS
  <2>1. k + 1 <= N /\ k + 1 \in 1..N-1
    BY <1>2
  <2>. QED
    BY <1>7, <1>11, <1>12, <2>1
<1>13. \A k \in Nat : P(k)
  <2>. HIDE DEF P
  <2>1. T \in SUBSET Nat /\ 0 \in T /\ \A k \in T : k + 1 \in T
    BY <1>10, <1>12
  <2>2. T = Nat
    BY <2>1, Induction
  <2>. QED
    BY <2>2
<1>14. ASSUME NEW k \in 1..N PROVE Offset[k-1] = Bytes(SubSeq(runes, 1, wrs[k].left))
  <2>1. k - 1 \in Nat /\ (k - 1) + 1 = k /\ k <= N
    BY <1>2
  <2>2. Offset[k-1] = to[wrs[(k-1)+1].left]
    BY <1>13, <2>1
  <2>. QED
    BY <1>4, <2>1, <2>2
<1>15. Offset[N] = Bytes(runes)
  <2>1. CASE N = 0
    BY <1>3, <1>6, <1>8, <2>1
  <2>2. CASE N # 0
    <3>1. N - 1 \in Nat /\ (N - 1) + 1 = N /\ N <= N
      BY <1>2, <2>2
    <3>2. Offset[(N-1)+1] = to[wrs[(N-1)+1].right + 1]
      BY <1>11, <1>13, <3>1
    <3>. QED
      BY <1>3, <1>8, <2>2, <3>1, <3>2
  <2>. QED
    BY <2>1, <2>2
<1>. QED
  BY <1>1, <1>2, <1>14, <1>15

\* The places that WordMap has an offset for are those of the word.
LEMMA OffsetsOf ==
  ASSUME Len(Cut) \in Nat, NEW w \in DOMAIN WordMap
  PROVE  /\ \A k \in 1..Len(Cut) : Cut[k] = w =>
              \E p \in 1..Len(WordMap[w]) : WordMap[w][p] = Offset[k-1]
         /\ \A p \in 1..Len(WordMap[w]) :
              \E k \in 1..Len(Cut) : Cut[k] = w /\ WordMap[w][p] = Offset[k-1]
<1>0. PICK N, s, keep : /\ N = Len(Cut) /\ s = [k \in 1..N |-> k]
                        /\ keep = {k \in 1..N : Cut[k] = w}
  OBVIOUS
<1>1. PICK at : at = Selected(s, keep)
  OBVIOUS
<1>2. N \in Nat /\ s \in Seq(Int) /\ Len(s) = N /\ \A k \in 1..N : s[k] = k
  BY <1>0
<1>3. at \in Seq(Int) /\ \A j \in 1..Len(at) : \E k \in 1..N : k \in keep /\ at[j] = k
  <2>1. /\ Selected(s, keep) \in Seq(Int)
        /\ \A j \in 1..Len(Selected(s, keep)) :
             \E k \in 1..Len(s) : k \in keep /\ Selected(s, keep)[j] = s[k]
    BY <1>2, SelectedMembers
  <2>. QED
    BY <1>1, <1>2, <2>1
<1>4. ASSUME NEW k \in 1..N, k \in keep PROVE \E j \in 1..Len(at) : at[j] = k
  <2>1. \E j \in 1..Len(Selected(s, keep)) : Selected(s, keep)[j] = s[k]
    BY <1>2, <1>4, SelectedAll
  <2>. QED
    BY <1>1, <1>2, <2>1
<1>5. WordMap[w] = [p \in 1..Len(at) |-> Offset[at[p] - 1]]
  BY <1>0, <1>1 DEF WordMap
<1>6. Len(at) \in Nat
  BY <1>3
<1>7. Len(WordMap[w]) = Len(at) /\ \A p \in 1..Len(at) : WordMap[w][p] = Offset[at[p] - 1]
  BY <1>5, <1>6
<1>8. N = Len(Cut) /\ \A k \in 1..N : k \in keep <=> Cut[k] = w
  BY <1>0
<1>9. ASSUME NEW k \in 1..N, Cut[k] = w
      PROVE  \E p \in 1..Len(WordMap[w]) : WordMap[w][p] = Offset[k-1]
  BY <1>4, <1>7, <1>8, <1>9
<1>10. ASSUME NEW p \in 1..Len(WordMap[w])
       PROVE  \E k \in 1..N : Cut[k] = w /\ WordMap[w][p] = Offset[k-1]
  BY <1>3, <1>7, <1>8
<1>. QED
  BY <1>8, <1>9, <1>10

\* For all sentences, dictionaries and widths: adding up the sizes of the words gives
\* the place of each, and of nothing else, and passes the whole sentence.
THEOREM OffsetsAreRight == Spec => []OffsetsRight
<1>1. ASSUME IInv PROVE OffsetsRight
  <2>. SUFFICES ASSUME Extracting PROVE OffsetsRight
    BY DEF OffsetsRight
  <2>1. /\ n \in Nat /\ Len(wrs) \in Nat /\ Len(Cut) = Len(wrs)
        /\ \A k \in 1..Len(wrs) : /\ wrs[k].left \in 0..n-1 /\ wrs[k].right \in wrs[k].left..n-1
                                  /\ Cut[k] = SubSeq(runes, wrs[k].left + 1, wrs[k].right + 1)
    BY <1>1, CutRight
  <2>2. /\ Offset[Len(Cut)] = Bytes(runes)
        /\ \A k \in 1..Len(wrs) : Offset[k-1] = Bytes(SubSeq(runes, 1, wrs[k].left))
    BY <1>1, OffsetAt
  <2>0. ASSUME NEW w \in DOMAIN WordMap
        PROVE  /\ \A k \in 1..Len(wrs) : Cut[k] = w =>
                    \E p \in 1..Len(WordMap[w]) : WordMap[w][p] = Offset[k-1]
               /\ \A p \in 1..Len(WordMap[w]) :
                    \E k \in 1..Len(wrs) : Cut[k] = w /\ WordMap[w][p] = Offset[k-1]
    <3>1. Len(Cut) = Len(wrs) /\ Len(Cut) \in Nat
      BY <2>1
    <3>2. /\ \A k \in 1..Len(Cut) : Cut[k] = w =>
               \E p \in 1..Len(WordMap[w]) : WordMap[w][p] = Offset[k-1]
          /\ \A p \in 1..Len(WordMap[w]) :
               \E k \in 1..Len(Cut) : Cut[k] = w /\ WordMap[w][p] = Offset[k-1]
      BY <3>1, OffsetsOf
    <3>. QED
      BY <3>1, <3>2
  <2>3. ASSUME NEW w \in DOMAIN WordMap, NEW k \in 1..Len(wrs), Cut[k] = w
        PROVE  \E p \in 1..Len(WordMap[w]) :
                 WordMap[w][p] = Bytes(SubSeq(runes, 1, wrs[k].left))
    <3>1. PICK p \in 1..Len(WordMap[w]) : WordMap[w][p] = Offset[k-1]
      BY <2>0, <2>3
    <3>. QED
      BY <2>2, <3>1
  <2>4. ASSUME NEW w \in DOMAIN WordMap, NEW p \in 1..Len(WordMap[w])
        PROVE  \E from \in 0..n-Len(w) :
                 /\ Bytes(SubSeq(runes, 1, from)) = WordMap[w][p]
                 /\ SubSeq(runes, from + 1, from + Len(w)) = w
    <3>1. PICK k \in 1..Len(wrs) : Cut[k] = w /\ WordMap[w][p] = Offset[k-1]
      BY <2>0
    <3>2. PICK l, r : l = wrs[k].left /\ r = wrs[k].right + 1
      OBVIOUS
    <3>3. l \in 0..n-1 /\ wrs[k].right \in l..n-1 /\ w = SubSeq(runes, l + 1, r)
      BY <2>1, <3>1, <3>2
    <3>4. l \in 0..Len(runes) /\ r \in l..Len(runes)
      <4>1. PICK q, len : q = wrs[k].right /\ len = n
        OBVIOUS
      <4>2. len \in Nat /\ l \in 0..len-1 /\ q \in l..len-1 /\ r = q + 1
        BY <2>1, <3>2, <3>3, <4>1
      <4>3. l \in 0..len /\ r \in l..len
        BY <4>2
      <4>. QED
        BY <4>1, <4>3 DEF n
    <3>5. Len(w) = r - l
      <4>1. \E R : runes \in Seq(R)
        BY <1>1, SentenceAssumption DEF IInv, TypeOK
      <4>. QED
        BY <3>3, <3>4, <4>1, SubSeqRight
    <3>6. l \in 0..n-Len(w) /\ l + Len(w) = r
      <4>1. PICK N, L : N = n /\ L = Len(w)
        OBVIOUS
      <4>2. N \in Nat /\ l \in 0..N-1 /\ r \in l..N /\ L = r - l
        BY <2>1, <3>3, <3>4, <3>5, <4>1 DEF n
      <4>3. l \in 0..N-L /\ l + L = r
        BY <4>2
      <4>. QED
        BY <4>1, <4>3
    <3>7. Bytes(SubSeq(runes, 1, l)) = WordMap[w][p]
      BY <2>2, <3>1, <3>2
    <3>. QED
      BY <3>3, <3>6, <3>7
  <2>. QED
    BY <2>2, <2>3, <2>4 DEF OffsetsRight, Extracts
<1>. QED
  BY <1>1, IInvAlways, PTL

-----------------------------------------------------------------------------
(* The window.                                                              *)

\* rank[k]: how many of the first k places are kept
RankSteps(rank, N, keep) ==
  /\ rank[0] = 0
  /\ \A k \in 1..N : /\ k \in keep => rank[k] = rank[k-1] + 1
                     /\ k \notin keep => rank[k] = rank[k-1]

\* Selected puts what it keeps where its rank says.
LEMMA RankRight ==
  ASSUME NEW R, NEW s \in Seq(R), NEW keep
  PROVE  \E rank \in [0..Len(s) -> Nat] :
           /\ RankSteps(rank, Len(s), keep) /\ rank[Len(s)] = Len(Selected(s, keep))
           /\ \A k \in 1..Len(s) : k \in keep => Selected(s, keep)[rank[k]] = s[k]
<1>1. PICK N : N = Len(s)
  OBVIOUS
<1>2. N \in Nat /\ s \in [1..N -> R]
  BY <1>1
<1>3. PICK upto \in [0..N -> Seq(R)] : Selected(s, keep) = upto[N] /\ SelectsUpto(upto, s, keep)
  BY <1>1, SelectedDef
<1>4. /\ upto[0] = <<>>
      /\ \A k \in 1..N : /\ k \in keep => upto[k] = Append(upto[k-1], s[k])
                         /\ k \notin keep => upto[k] = upto[k-1]
  BY <1>1, <1>3 DEF SelectsUpto
<1>5. \A u \in Seq(R) : \A v \in R :
         /\ Len(u) \in Nat /\ Len(Append(u, v)) = Len(u) + 1 /\ Append(u, v)[Len(u) + 1] = v
         /\ \A j \in 1..Len(u) : Append(u, v)[j] = u[j]
  OBVIOUS
<1>6. PICK rank : rank = [k \in 0..N |-> Len(upto[k])]
  OBVIOUS
<1>7. rank \in [0..N -> Nat] /\ \A k \in 0..N : rank[k] = Len(upto[k]) /\ upto[k] \in Seq(R)
  BY <1>3, <1>6
<1>8. ASSUME NEW k \in 1..N
      PROVE  /\ k \in 0..N /\ k - 1 \in 0..N /\ upto[k-1] \in Seq(R) /\ s[k] \in R
             /\ k \in keep => rank[k] = rank[k-1] + 1 /\ upto[k][rank[k]] = s[k]
             /\ k \notin keep => rank[k] = rank[k-1]
             /\ rank[k-1] <= rank[k]
             /\ \A j \in 1..rank[k-1] : upto[k][j] = upto[k-1][j]
  <2>1. k \in 0..N /\ k - 1 \in 0..N /\ s[k] \in R
    BY <1>2
  <2>2. PICK u, v, w : u = upto[k-1] /\ v = s[k] /\ w = upto[k]
    OBVIOUS
  <2>3. u \in Seq(R) /\ v \in R /\ rank[k-1] = Len(u) /\ rank[k] = Len(w) /\ Len(u) \in Nat
    BY <1>5, <1>7, <2>1, <2>2
  <2>4. /\ k \in keep => w = Append(u, v)
        /\ k \notin keep => w = u
    BY <1>4, <2>2
  <2>5. CASE k \in keep
    <3>1. PICK z : z = Append(u, v)
      OBVIOUS
    <3>2. /\ Len(z) = Len(u) + 1 /\ z[Len(u) + 1] = v
          /\ \A j \in 1..Len(u) : z[j] = u[j]
      BY <1>5, <2>3, <3>1
    <3>3. w = z
      BY <2>4, <2>5, <3>1
    <3>. QED
      BY <2>1, <2>2, <2>3, <2>5, <3>2, <3>3
  <2>6. CASE k \notin keep
    BY <2>1, <2>2, <2>3, <2>4, <2>6
  <2>. QED
    BY <2>5, <2>6
<1>9. RankSteps(rank, N, keep)
  <2>1. rank[0] = 0
    <3>1. 0 \in 0..N /\ Len(upto[0]) = 0
      BY <1>2, <1>4
    <3>. QED
      BY <1>7, <3>1
  <2>. QED
    BY <1>8, <2>1 DEF RankSteps
<1>10. ASSUME NEW k \in 1..N, k \in keep PROVE upto[N][rank[k]] = s[k]
  <2>1. rank[k] \in Nat /\ upto[k][rank[k]] = s[k] /\ rank[k] = rank[k-1] + 1 /\ rank[k-1] \in Nat
    BY <1>7, <1>8, <1>10
  <2>. DEFINE P(d) == k + d <= N => rank[k] <= rank[k+d] /\ upto[k+d][rank[k]] = s[k]
              T == {d \in Nat : P(d)}
  <2>2. P(0)
    <3>1. k + 0 = k
      OBVIOUS
    <3>. QED
      BY <2>1, <3>1
  <2>3. ASSUME NEW d \in Nat, P(d) PROVE P(d + 1)
    <3>. SUFFICES ASSUME k + (d + 1) <= N
         PROVE  rank[k] <= rank[k+(d+1)] /\ upto[k+(d+1)][rank[k]] = s[k]
      OBVIOUS
    <3>1. PICK b : b = k + (d + 1)
      OBVIOUS
    <3>2. b \in 1..N /\ b - 1 = k + d /\ k + d <= N /\ b \in 0..N /\ b - 1 \in 0..N
      BY <1>2, <3>1
    <3>3. rank[k] <= rank[b-1] /\ upto[b-1][rank[k]] = s[k]
      BY <2>3, <3>2
    <3>4. rank[b-1] <= rank[b] /\ \A j \in 1..rank[b-1] : upto[b][j] = upto[b-1][j]
      BY <1>8, <3>2
    <3>5. rank[b-1] \in Nat /\ rank[b] \in Nat
      BY <1>7, <3>2
    <3>6. rank[k] \in 1..rank[b-1]
      BY <2>1, <3>3, <3>5
    <3>7. rank[k] <= rank[b] /\ upto[b][rank[k]] = s[k]
      <4>1. PICK r : r = rank[k]
        OBVIOUS
      <4>2. r \in 1..rank[b-1] /\ upto[b][r] = upto[b-1][r]
        BY <3>4, <3>6, <4>1
      <4>3. rank[k] <= rank[b]
        BY <2>1, <3>3, <3>4, <3>5
      <4>. QED
        BY <3>3, <4>1, <4>2, <4>3
    <3>. QED
      BY <3>1, <3>7
  <2>4. PICK d : d = N - k
    OBVIOUS
  <2>5. d \in Nat /\ k + d = N /\ N <= N
    BY <1>2, <2>4
  <2>6. P(d)
    <3>. HIDE DEF P
    <3>1. T \in SUBSET Nat /\ 0 \in T /\ \A x \in T : x + 1 \in T
      BY <2>2, <2>3
    <3>2. T = Nat
      BY <3>1, Induction
    <3>. QED
      BY <2>5, <3>2
  <2>. QED
    BY <2>5, <2>6
<1>11. rank[N] = Len(Selected(s, keep))
  <2>1. N \in 0..N
    BY <1>2
  <2>. QED
    BY <1>3, <1>7, <2>1
<1>. QED
  BY <1>1, <1>3, <1>7, <1>9, <1>10, <1>11

\* the places between two that are not kept
Between(keep, a, b) == {x \in a+1..b : x \notin keep}

\* Ranks go up by one at each place kept, and the places between two that are not
\* kept are as many as the ranks fall behind.
Ranked(rank, keep, a, b) ==
  /\ rank[a] <= rank[b] /\ rank[b] - rank[a] <= b - a
  /\ IsFiniteSet(Between(keep, a, b))
  /\ Cardinality(Between(keep, a, b)) = (b - a) - (rank[b] - rank[a])

\* So it is for any two places.
LEMMA RankOrder ==
  ASSUME NEW N \in Nat, NEW rank \in [0..N -> Nat], NEW keep, RankSteps(rank, N, keep),
         NEW a \in 0..N, NEW b \in a..N
  PROVE  Ranked(rank, keep, a, b)
<1>. DEFINE Gap(d) == {x \in a+1..a+d : x \notin keep}
            P(d) == a + d <= N =>
                      /\ rank[a] <= rank[a+d] /\ rank[a+d] - rank[a] <= d
                      /\ IsFiniteSet(Gap(d)) /\ Cardinality(Gap(d)) = d - (rank[a+d] - rank[a])
            T == {d \in Nat : P(d)}
<1>1. P(0)
  <2>1. a + 0 = a /\ rank[a] \in Nat
    OBVIOUS
  <2>2. Gap(0) = {}
    OBVIOUS
  <2>. HIDE DEF Gap
  <2>. QED
    BY <2>1, <2>2, FS_EmptySet, SMTT(30)
<1>2. ASSUME NEW d \in Nat, P(d) PROVE P(d + 1)
  <2>. SUFFICES ASSUME a + (d + 1) <= N PROVE P(d + 1)
    OBVIOUS
  <2>1. PICK c : c = a + (d + 1)
    OBVIOUS
  <2>2. c \in 1..N /\ c - 1 = a + d /\ a + d <= N /\ a + d \in 0..N /\ c \in 0..N
    BY <2>1
  <2>3. rank[a] \in Nat /\ rank[a+d] \in Nat /\ rank[c] \in Nat
    BY <2>2
  <2>4. /\ rank[a] <= rank[a+d] /\ rank[a+d] - rank[a] <= d
        /\ IsFiniteSet(Gap(d)) /\ Cardinality(Gap(d)) = d - (rank[a+d] - rank[a])
    BY <1>2, <2>2
  <2>5. /\ c \in keep => rank[c] = rank[a+d] + 1
        /\ c \notin keep => rank[c] = rank[a+d]
    BY <2>2 DEF RankSteps
  <2>6. c \notin Gap(d) /\ \A x : x \in Gap(d+1) <=> (x \in a+1..c /\ x \notin keep)
    BY <2>1, <2>2
  <2>7. \A x \in a+1..c : x \in a+1..a+d \/ x = c
    BY <2>1, <2>2
  <2>8. a+1..a+d \subseteq a+1..c /\ c \in a+1..c
    BY <2>1, <2>2
  <2>9. \A x : x \in Gap(d) <=> (x \in a+1..a+d /\ x \notin keep)
    OBVIOUS
  <2>. HIDE DEF Gap
  <2>. HIDE DEF P
  <2>10. PICK x, y, z, old, new : /\ x = rank[a] /\ y = rank[a+d] /\ z = rank[c]
                                  /\ old = Gap(d) /\ new = Gap(d+1)
    OBVIOUS
  <2>11. PICK size : size = Cardinality(old)
    OBVIOUS
  <2>12. /\ x \in Nat /\ y \in Nat /\ z \in Nat
         /\ x <= y /\ y - x <= d /\ IsFiniteSet(old) /\ size = d - (y - x)
         /\ c \in keep => z = y + 1
         /\ c \notin keep => z = y
    BY <2>3, <2>4, <2>5, <2>10, <2>11
  <2>13. /\ c \in keep => new = old
         /\ c \notin keep => new = old \cup {c} /\ c \notin old
    BY <2>6, <2>7, <2>8, <2>9, <2>10
  <2>14. /\ rank[a] <= rank[c] /\ rank[c] - rank[a] <= d + 1
         /\ IsFiniteSet(Gap(d+1)) /\ Cardinality(Gap(d+1)) = (d + 1) - (rank[c] - rank[a])
    <3>1. CASE c \in keep
      <4>1. IsFiniteSet(new) /\ Cardinality(new) = size
        BY <2>11, <2>12, <2>13, <3>1
      <4>2. x <= z /\ z - x <= d + 1 /\ size = (d + 1) - (z - x)
        BY <2>12, <3>1
      <4>. QED
        BY <2>10, <4>1, <4>2
    <3>2. CASE c \notin keep
      <4>1. IsFiniteSet(old \cup {c}) /\ Cardinality(old \cup {c}) = size + 1
        BY <2>11, <2>12, <2>13, <3>2, FS_AddElement
      <4>2. IsFiniteSet(new) /\ Cardinality(new) = size + 1
        BY <2>13, <3>2, <4>1
      <4>3. x <= z /\ z - x <= d + 1 /\ size + 1 = (d + 1) - (z - x)
        BY <2>12, <3>2
      <4>. QED
        BY <2>10, <4>2, <4>3
    <3>. QED
      BY <3>1, <3>2
  <2>. QED
    BY <2>1, <2>14 DEF P
<1>3. \A d \in Nat : P(d)
  <2>. HIDE DEF P
  <2>1. T \in SUBSET Nat /\ 0 \in T /\ \A x \in T : x + 1 \in T
    BY <1>1, <1>2
  <2>2. T = Nat
    BY <2>1, Induction
  <2>. QED
    BY <2>2
<1>4. PICK d : d = b - a
  OBVIOUS
<1>5. d \in Nat /\ a + d = b /\ a + d <= N
  BY <1>4
<1>. HIDE DEF Gap
<1>6. /\ rank[a] <= rank[a+d] /\ rank[a+d] - rank[a] <= d
      /\ IsFiniteSet(Gap(d)) /\ Cardinality(Gap(d)) = d - (rank[a+d] - rank[a])
  BY <1>3, <1>5
<1>7. Gap(d) = Between(keep, a, b)
  BY <1>5 DEF Gap, Between
<1>. QED
  BY <1>4, <1>5, <1>6, <1>7 DEF Ranked

\* Every rank is that of a place that is kept.
LEMMA RankOnto ==
  ASSUME NEW N \in Nat, NEW rank \in [0..N -> Nat], NEW keep, RankSteps(rank, N, keep),
         NEW j \in 1..rank[N]
  PROVE  \E k \in 1..N : k \in keep /\ rank[k] = j
<1>. DEFINE P(d) == d <= N => \A x \in 1..rank[d] : \E k \in 1..N : k \in keep /\ rank[k] = x
            T == {d \in Nat : P(d)}
<1>1. P(0)
  BY DEF RankSteps
<1>2. ASSUME NEW d \in Nat, P(d) PROVE P(d + 1)
  <2>. SUFFICES ASSUME d + 1 <= N, NEW x \in 1..rank[d+1]
       PROVE  \E k \in 1..N : k \in keep /\ rank[k] = x
    OBVIOUS
  <2>1. d + 1 \in 1..N /\ (d + 1) - 1 = d /\ d <= N /\ d \in 0..N /\ d + 1 \in 0..N
    OBVIOUS
  <2>2. rank[d] \in Nat /\ rank[d+1] \in Nat
    BY <2>1
  <2>3. /\ d + 1 \in keep => rank[d+1] = rank[d] + 1
        /\ d + 1 \notin keep => rank[d+1] = rank[d]
    BY <2>1 DEF RankSteps
  <2>4. CASE x \in 1..rank[d]
    BY <1>2, <2>1, <2>4
  <2>5. CASE x \notin 1..rank[d]
    <3>1. d + 1 \in keep /\ x = rank[d+1]
      BY <2>2, <2>3, <2>5
    <3>. QED
      BY <2>1, <3>1
  <2>. QED
    BY <2>4, <2>5
<1>3. P(N)
  <2>. HIDE DEF P
  <2>1. T \in SUBSET Nat /\ 0 \in T /\ \A x \in T : x + 1 \in T
    BY <1>1, <1>2
  <2>2. T = Nat
    BY <2>1, Induction
  <2>. QED
    BY <2>2
<1>. QED
  BY <1>3

\* The rank of a place that is kept is above those before it.
LEMMA RankStrict ==
  ASSUME NEW N \in Nat, NEW rank \in [0..N -> Nat], NEW keep, RankSteps(rank, N, keep),
         NEW b \in 1..N, b \in keep
  PROVE  rank[b] \in 1..rank[N] /\ \A a \in 0..b-1 : rank[a] < rank[b] /\ rank[b] - rank[a] <= b - a
<1>1. b - 1 \in 0..N /\ b \in 0..N /\ N \in b..N /\ N \in 0..N /\ 0 \in 0..b-1
  OBVIOUS
<1>2. rank[b] = rank[b-1] + 1 /\ rank[0] = 0
  BY DEF RankSteps
<1>3. rank[b] <= rank[N]
  BY <1>1, RankOrder DEF Ranked
<1>4. ASSUME NEW a \in 0..b-1 PROVE rank[a] < rank[b] /\ rank[b] - rank[a] <= b - a
  <2>1. a \in 0..N /\ b - 1 \in a..N /\ b \in a..N
    OBVIOUS
  <2>2. rank[a] <= rank[b-1]
    BY <2>1, RankOrder DEF Ranked
  <2>3. rank[b] - rank[a] <= b - a
    BY <2>1, RankOrder DEF Ranked
  <2>4. rank[a] \in Nat /\ rank[b-1] \in Nat /\ rank[b] \in Nat
    BY <1>1, <2>1
  <2>. QED
    BY <1>2, <2>2, <2>3, <2>4
<1>5. rank[b] \in Nat /\ rank[N] \in Nat /\ rank[0] < rank[b]
  BY <1>1, <1>4
<1>. QED
  BY <1>2, <1>3, <1>4, <1>5

\* Sets paired off one by one have the same size.
LEMMA SameSize ==
  ASSUME NEW S, NEW T, IsFiniteSet(S), NEW f \in [S -> T],
         \A x, y \in S : f[x] = f[y] => x = y, \A z \in T : \E x \in S : f[x] = z
  PROVE  Cardinality(S) = Cardinality(T)
<1>1. f \in Surjection(S, T)
  BY DEF Surjection
<1>2. f \in Injection(S, T)
  BY DEF Injection, IsInjective
<1>. QED
  BY <1>1, <1>2, FS_Surjection

\* the places of the words that are not passed over
Counted == {k \in 1..Len(Cut) : ~Skipped(Cut[k])}

\* the joined places of a and b, and those that are near each other in what remains
Joined(a, b) == {e \in Pairs : Cut[e[1]] = a /\ Cut[e[2]] = b}

Near(a, b) ==
  {e \in (1..Len(Remaining)) \X (1..Len(Remaining)) :
     /\ e[1] < e[2] /\ e[2] - e[1] < Span
     /\ Remaining[e[1]] = a /\ Remaining[e[2]] = b}

\* Two places are in the window together when their ranks are.
LEMMA WindowByRank ==
  ASSUME NEW N \in Nat, N = Len(Cut), NEW rank \in [0..N -> Nat], RankSteps(rank, N, Counted),
         NEW k \in 1..N, NEW j \in 1..N, k < j, j \in Counted
  PROVE  j < k + Span + Skips(k, j) <=> rank[j] - rank[k] < Span
<1>1. PICK keep : keep = Counted
  OBVIOUS
<1>2. Between(keep, k, j - 1) = {x \in k+1..j-1 : Skipped(Cut[x])}
  <2>1. \A x \in k+1..j-1 : x \in 1..N
    OBVIOUS
  <2>2. \A x \in k+1..j-1 : x \notin keep <=> Skipped(Cut[x])
    BY <1>1, <2>1 DEF Counted
  <2>. QED
    BY <2>2 DEF Between
<1>3. k \in 0..N /\ j - 1 \in k..N /\ j \in 0..N /\ j - 1 \in 0..N
  OBVIOUS
<1>4. PICK size, skips : size = Cardinality(Between(keep, k, j - 1)) /\ skips = Skips(k, j)
  OBVIOUS
<1>5. skips = size
  BY <1>2, <1>4 DEF Skips
<1>6. PICK b, x, y, z : b = j - 1 /\ x = rank[k] /\ y = rank[b] /\ z = rank[j]
  OBVIOUS
<1>7. size = (b - k) - (y - x)
  <2>1. RankSteps(rank, N, keep) /\ b \in k..N
    BY <1>1, <1>3, <1>6
  <2>2. Cardinality(Between(keep, k, b)) = (b - k) - (rank[b] - rank[k])
    <3>1. Ranked(rank, keep, k, b)
      BY <1>3, <2>1, RankOrder
    <3>. QED
      BY <3>1 DEF Ranked
  <2>. QED
    BY <1>4, <1>6, <2>2
<1>8. z = y + 1
  BY <1>6 DEF RankSteps
<1>9. x \in Nat /\ y \in Nat /\ z \in Nat /\ Span \in Nat /\ b = j - 1
  BY <1>3, <1>6, KeyWordAssumption
<1>10. j < k + Span + skips <=> z - x < Span
  BY <1>5, <1>7, <1>8, <1>9
<1>. QED
  BY <1>4, <1>6, <1>10

\* As many are joined as are near in what remains.
LEMMA JoinedNear ==
  ASSUME NEW R, Cut \in Seq(R), NEW a, NEW b
  PROVE  Cardinality(Joined(a, b)) = Cardinality(Near(a, b))
<1>1. PICK N, M : N = Len(Cut) /\ M = Len(Remaining)
  OBVIOUS
<1>2. N \in Nat
  BY <1>1
<1>3. Remaining = Selected(Cut, Counted)
  BY DEF Remaining, Counted
<1>4. PICK rank \in [0..N -> Nat] :
        /\ RankSteps(rank, N, Counted) /\ rank[N] = M
        /\ \A k \in 1..N : k \in Counted => Remaining[rank[k]] = Cut[k]
  BY <1>1, <1>3, RankRight
<1>5. M \in Nat
  <2>1. N \in 0..N
    BY <1>2
  <2>. QED
    BY <1>4, <2>1
<1>6. \A k \in Counted : k \in 1..N /\ k \in 0..N /\ rank[k] \in 1..M /\ Remaining[rank[k]] = Cut[k]
  <2>. SUFFICES ASSUME NEW k \in Counted
       PROVE k \in 1..N /\ k \in 0..N /\ rank[k] \in 1..M /\ Remaining[rank[k]] = Cut[k]
    OBVIOUS
  <2>1. k \in 1..N /\ k \in 0..N
    BY <1>1, <1>2 DEF Counted
  <2>2. rank[k] \in 1..rank[N]
    BY <1>2, <1>4, <2>1, RankStrict
  <2>. QED
    BY <1>4, <2>1, <2>2
<1>7. ASSUME NEW k \in Counted, NEW j \in Counted PROVE k < j => rank[k] < rank[j]
  <2>. SUFFICES ASSUME k < j PROVE rank[k] < rank[j]
    OBVIOUS
  <2>1. j \in 1..N /\ k \in 0..j-1
    BY <1>2, <1>6
  <2>. QED
    BY <1>2, <1>4, <2>1, RankStrict
<1>8. ASSUME NEW k \in Counted, NEW j \in Counted
      PROVE  /\ k < j <=> rank[k] < rank[j]
             /\ rank[k] = rank[j] => k = j
             /\ k < j => (j < k + Span + Skips(k, j) <=> rank[j] - rank[k] < Span)
  <2>1. k \in 1..N /\ j \in 1..N /\ rank[k] \in 1..M /\ rank[j] \in 1..M
    BY <1>6
  <2>2. k < j \/ k = j \/ j < k
    BY <1>2, <2>1
  <2>3. (k < j => rank[k] < rank[j]) /\ (j < k => rank[j] < rank[k])
    BY <1>7
  <2>4. k < j => (j < k + Span + Skips(k, j) <=> rank[j] - rank[k] < Span)
    BY <1>1, <1>2, <1>4, <2>1, WindowByRank
  <2>5. /\ k < j <=> rank[k] < rank[j]
        /\ rank[k] = rank[j] => k = j
    BY <1>2, <1>5, <2>1, <2>2, <2>3
  <2>. QED
    BY <2>4, <2>5
<1>9. \A x \in 1..M : \E k \in Counted : rank[k] = x
  <2>. SUFFICES ASSUME NEW x \in 1..M PROVE \E k \in Counted : rank[k] = x
    OBVIOUS
  <2>1. x \in 1..rank[N]
    BY <1>4
  <2>2. PICK keep : keep = Counted
    OBVIOUS
  <2>3. RankSteps(rank, N, keep)
    BY <1>4, <2>2
  <2>4. \E k \in 1..N : k \in keep /\ rank[k] = x
    BY <1>2, <2>1, <2>3, RankOnto, SMTT(30)
  <2>. QED
    BY <2>2, <2>4
<1>. DEFINE In(k, j) == /\ k \in Counted /\ j \in Counted /\ k < j /\ j < k + Span + Skips(k, j)
                        /\ Cut[k] = a /\ Cut[j] = b
            At(x, y) == /\ x \in 1..M /\ y \in 1..M /\ x < y /\ y - x < Span
                        /\ Remaining[x] = a /\ Remaining[y] = b
<1>10. \A e \in Joined(a, b) : e = <<e[1], e[2]>> /\ In(e[1], e[2])
  BY <1>1 DEF Joined, Pairs, Counted
<1>11. \A k, j : In(k, j) => <<k, j>> \in Joined(a, b)
  BY <1>1 DEF Joined, Pairs, Counted
<1>12. \A e \in Near(a, b) : e = <<e[1], e[2]>> /\ At(e[1], e[2])
  BY <1>1 DEF Near
<1>13. \A x, y : At(x, y) => <<x, y>> \in Near(a, b)
  BY <1>1 DEF Near
<1>14. ASSUME NEW k \in Counted, NEW j \in Counted PROVE In(k, j) <=> At(rank[k], rank[j])
  BY <1>6, <1>8
<1>15. \A k, j : In(k, j) => k \in Counted /\ j \in Counted
  OBVIOUS
<1>16. \A x, y : At(x, y) => x \in 1..M /\ y \in 1..M
  OBVIOUS
<1>. HIDE DEF In, At
<1>17. PICK S, T : S = Joined(a, b) /\ T = Near(a, b)
  OBVIOUS
<1>18. PICK f : f = [e \in S |-> <<rank[e[1]], rank[e[2]]>>]
  OBVIOUS
<1>19. f \in [S -> T]
  <2>1. ASSUME NEW e \in S PROVE <<rank[e[1]], rank[e[2]]>> \in T
    BY <1>10, <1>13, <1>14, <1>15, <1>17
  <2>. QED
    BY <1>18, <2>1
<1>20. ASSUME NEW e \in S, NEW g \in S, f[e] = f[g] PROVE e = g
  <2>1. rank[e[1]] = rank[g[1]] /\ rank[e[2]] = rank[g[2]]
    BY <1>18, <1>20
  <2>2. e[1] \in Counted /\ e[2] \in Counted /\ g[1] \in Counted /\ g[2] \in Counted
    BY <1>10, <1>15, <1>17
  <2>3. e[1] = g[1] /\ e[2] = g[2]
    BY <1>8, <2>1, <2>2
  <2>4. e = <<e[1], e[2]>> /\ g = <<g[1], g[2]>>
    BY <1>10, <1>17
  <2>. QED
    BY <2>3, <2>4
<1>21. ASSUME NEW z \in T PROVE \E e \in S : f[e] = z
  <2>1. z = <<z[1], z[2]>> /\ At(z[1], z[2])
    BY <1>12, <1>17
  <2>2. PICK k \in Counted, j \in Counted : rank[k] = z[1] /\ rank[j] = z[2]
    BY <1>9, <1>16, <2>1
  <2>3. <<k, j>> \in S
    BY <1>11, <1>14, <1>17, <2>1, <2>2
  <2>4. PICK e : e = <<k, j>>
    OBVIOUS
  <2>5. e \in S /\ e[1] = k /\ e[2] = j
    BY <2>3, <2>4
  <2>6. f[e] = <<rank[e[1]], rank[e[2]]>>
    BY <1>18, <2>5
  <2>7. f[e] = z
    BY <2>1, <2>2, <2>5, <2>6
  <2>. QED
    BY <2>5, <2>7
<1>22. IsFiniteSet(S)
  <2>1. IsFiniteSet(1..N)
    BY <1>2, FS_Interval
  <2>2. IsFiniteSet((1..N) \X (1..N))
    BY <2>1, FS_Product
  <2>3. S \in SUBSET ((1..N) \X (1..N))
    BY <1>1, <1>17 DEF Joined, Pairs
  <2>. QED
    BY <2>2, <2>3, FS_Subset
<1>. QED
  BY <1>17, <1>19, <1>20, <1>21, <1>22, SameSize

\* For all sentences, dictionaries and stop words: the words passed over do not narrow
\* the window of the graph.
THEOREM WindowIsRight == Spec => []WindowRight
<1>1. ASSUME IInv PROVE WindowRight
  <2>1. Len(wrs) \in Nat
    BY <1>1, Types
  <2>2. PICK R : R = {Piece(wrs[k]) : k \in 1..Len(wrs)}
    OBVIOUS
  <2>3. Cut \in Seq(R)
    BY <2>1, <2>2 DEF Cut
  <2>4. ASSUME NEW v, NEW w
        PROVE  Edge(v, w) = Cardinality(Near(v, w)) + Cardinality(Near(w, v))
    <3>1. Edge(v, w) = Cardinality(Joined(v, w)) + Cardinality(Joined(w, v))
      BY DEF Edge, Joined
    <3>2. /\ Cardinality(Joined(v, w)) = Cardinality(Near(v, w))
          /\ Cardinality(Joined(w, v)) = Cardinality(Near(w, v))
      BY <2>3, JoinedNear
    <3>. QED
      BY <3>1, <3>2
  <2>. QED
    BY <2>4 DEF WindowRight, Near
<1>. QED
  BY <1>1, IInvAlways, PTL
=============================================================================
