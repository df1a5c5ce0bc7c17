-------------------------- MODULE MPSegmentProofs ---------------------------
(***************************************************************************)
(* The dictionary cut loses no rune and doubles none, and is the best one, *)
(* for every text and every dictionary: machine-checked.                   *)
(***************************************************************************)
EXTENDS MPSegment, TilingProofs

\* A unit picked by CalcDP is one of those DictTrie::Find found.
PickedFound == \A k \in 0..n-1 : pInfo[k] # NoInfo => pInfo[k] \in Nexts(k)

IInv == TypeOK /\ WordsTile /\ PickedFound

-----------------------------------------------------------------------------
\* Positions are natural numbers, a unit found at k ends at k or behind it.
LEMMA Positions ==
  ASSUME runes \in Texts
  PROVE  n \in Nat /\ \A k \in 0..n-1 : Nexts(k) \subseteq k..n-1
BY TextAssumption DEF n, Nexts

\* Every weight is a number.
LEMMA ValueType ==
  ASSUME TypeOK, NEW k \in 0..n-1, NEW j \in Nexts(k)
  PROVE  Value(k, j) \in Int
<1>1. UnitWeight(k, j) \in Int
  BY WeightAssumption DEF TypeOK, UnitWeight
<1>2. j + 1 # n => weight[j + 1] \in Int
  BY Positions DEF TypeOK
<1>. QED
  BY <1>1, <1>2, WeightAssumption DEF Value

\* The text and the dictionary stay the same, so what is found stays the same.
LEMMA SameText ==
  ASSUME UNCHANGED <<dict, runes>>
  PROVE  /\ n' = n
         /\ \A k, j : Piece(k, j)' = Piece(k, j)
         /\ \A k : Nexts(k)' = Nexts(k)
BY DEF n, Piece, Nexts

\* The initial state.
LEMMA InitIInv == Init => IInv
<1>. SUFFICES ASSUME Init PROVE IInv
  OBVIOUS
<1>1. n \in Nat
  BY Positions DEF Init
<1>2. TypeOK
  BY <1>1 DEF Init, TypeOK
<1>. QED
  BY <1>2, <1>1 DEF Init, IInv, WordsTile, Tiles, PickedFound

\* CalcDP picks a unit that was found, or none.
LEMMA CalcDPIInv == ASSUME IInv, CalcDP PROVE IInv'
<1>. DEFINE k == rit - 1
<1>1. n \in Nat /\ k \in 0..n-1
  BY Positions DEF IInv, TypeOK, CalcDP
<1>2. n' = n /\ \A x : Nexts(x)' = Nexts(x)
  BY SameText DEF CalcDP
<1>3. /\ pInfo' = pInfo \/ \E j \in Nexts(k) : pInfo' = [pInfo EXCEPT ![k] = j]
      /\ \E v \in Int : weight' = [weight EXCEPT ![k] = v]
  BY <1>1, ValueType, WeightAssumption DEF CalcDP, IInv
<1>. HIDE DEF k
<1>4. pInfo' \in [0..n-1 -> 0..n-1 \cup {NoInfo}] /\ PickedFound'
  <2>1. CASE pInfo' = pInfo
    BY <1>2, <2>1 DEF IInv, TypeOK, PickedFound
  <2>2. ASSUME NEW j \in Nexts(k), pInfo' = [pInfo EXCEPT ![k] = j]
        PROVE  pInfo' \in [0..n-1 -> 0..n-1 \cup {NoInfo}] /\ PickedFound'
    <3>1. j \in 0..n-1
      BY <1>1, Positions DEF IInv, TypeOK
    <3>. QED
      BY <1>1, <1>2, <2>2, <3>1 DEF IInv, TypeOK, PickedFound
  <2>. QED
    BY <1>3, <2>1, <2>2
<1>5. TypeOK'
  BY <1>1, <1>2, <1>3, <1>4 DEF CalcDP, IInv, TypeOK, k
<1>6. WordsTile'
  BY SameText DEF CalcDP, IInv, WordsTile
<1>. QED
  BY <1>4, <1>5, <1>6 DEF IInv

\* A step of CutByDag that appends the word i..r.
LEMMA AppendIInv ==
  ASSUME IInv, i < n, NEW r \in i..n-1,
         words' = Append(words, WordRange(i, r)), i' = r + 1,
         UNCHANGED <<dict, runes, pInfo, weight, rit>>,
         i < r => Piece(i, r) \in DOMAIN dict
  PROVE  IInv'
<1>1. n \in Nat /\ i \in 0..n-1 /\ words \in Seq(Ranges(n))
  BY Positions DEF IInv, TypeOK
<1>2. /\ n' = n
      /\ \A k, j : Piece(k, j)' = Piece(k, j)
      /\ \A k : Nexts(k)' = Nexts(k)
  BY SameText
<1>3. words' \in Seq(Ranges(n))
  BY <1>1, RangesAppend
<1>4. TypeOK'
  BY <1>1, <1>2, <1>3 DEF IInv, TypeOK
<1>5. Tiles(words', 0, i')
  BY <1>1, RangesInt, TilesAppend DEF IInv, WordsTile
<1>6. \A k \in 1..Len(words') : words'[k].left < words'[k].right =>
        Piece(words'[k].left, words'[k].right) \in DOMAIN dict
  <2>1. /\ Len(words') = Len(words) + 1 /\ Len(words) \in Nat
        /\ words'[Len(words) + 1] = WordRange(i, r)
        /\ \A k \in 1..Len(words) : words'[k] = words[k]
    BY <1>1
  <2>. QED
    BY <2>1 DEF IInv, WordsTile, WordRange
<1>7. WordsTile'
  BY <1>2, <1>5, <1>6 DEF WordsTile
<1>8. PickedFound'
  BY <1>2 DEF IInv, PickedFound
<1>. QED
  BY <1>4, <1>7, <1>8 DEF IInv

\* The invariant is inductive.
LEMMA NextIInv == IInv /\ [Next]_vars => IInv'
<1>. SUFFICES ASSUME IInv, [Next]_vars PROVE IInv'
  OBVIOUS
<1>1. CASE CalcDP
  BY <1>1, CalcDPIInv
<1>2. CASE CutWord
  <2>1. pInfo[i] \in i..n-1 /\ Piece(i, pInfo[i]) \in DOMAIN dict
    BY <1>2, Positions DEF CutWord, Picked, IInv, TypeOK, PickedFound
  <2>. QED
    BY <1>2, <2>1, AppendIInv DEF CutWord
<1>3. CASE CutRune
  <2>1. i \in i..n-1
    BY <1>3, Positions DEF CutRune, IInv, TypeOK
  <2>. QED
    BY <1>3, <2>1, AppendIInv DEF CutRune, IInv, TypeOK
<1>4. CASE UNCHANGED vars
  BY <1>4, SameText DEF vars, IInv, TypeOK, WordsTile, PickedFound
<1>. QED
  BY <1>1, <1>2, <1>3, <1>4 DEF Next

\* For every text and every dictionary the cursor and the picks stay within the
\* text: no dag is read that DictTrie::Find did not make.
THEOREM CutTypeCorrect == Spec => []TypeOK
<1>1. IInv => TypeOK
  BY DEF IInv
<1>. QED
  BY <1>1, InitIInv, NextIInv, PTL DEF Spec

\* For every text and every dictionary, words of weight -infinity and an empty
\* dictionary included, the words found cut the runes passed, and those of several
\* runes are words of the dictionary.
THEOREM DictionaryCutTiles == Spec => []WordsTile
<1>1. IInv => WordsTile
  BY DEF IInv
<1>. QED
  BY <1>1, InitIInv, NextIInv, PTL DEF Spec

\* Each step of the cut is a step of WordCutter or changes nothing of it.
LEMMA StepCutsWord ==
  ASSUME IInv, [Next]_vars
  PROVE  [Cutter!CutWord \/ Cutter!Return]_<<n, words, i, Done>>
<1>1. n \in Nat /\ n' = n
  <2>1. runes' = runes
    BY DEF Next, CalcDP, CutWord, CutRune, vars
  <2>. QED
    BY <2>1, Positions DEF IInv, TypeOK, n
<1>2. ASSUME NEW r \in i..n-1, rit = 0, rit' = rit,
             words' = Append(words, WordRange(i, r)), i' = r + 1
      PROVE  Cutter!CutWord
  <2>1. ~Done
    BY <1>1, <1>2 DEF Done, IInv, TypeOK
  <2>2. Done' \in BOOLEAN /\ (Done' => i' = n)
    BY <1>1 DEF Done
  <2>. QED
    BY <1>1, <1>2, <2>1, <2>2 DEF Cutter!CutWord, Cutter!WordRange, WordRange
<1>3. CASE CalcDP
  <2>1. ~Done /\ words' = words /\ i' = i
    BY <1>3 DEF CalcDP, Done, IInv, TypeOK
  <2>2. CASE Done'
    BY <1>1, <2>1, <2>2 DEF Cutter!Return, Done
  <2>3. CASE ~Done'
    <3>1. Done' = Done
      BY <2>1, <2>3 DEF Done
    <3>. QED
      BY <1>1, <2>1, <3>1
  <2>. QED
    BY <2>2, <2>3
<1>4. CASE CutWord
  <2>1. pInfo[i] \in i..n-1
    BY <1>4, Positions DEF CutWord, Picked, IInv, TypeOK, PickedFound
  <2>. QED
    BY <1>2, <1>4, <2>1 DEF CutWord
<1>5. CASE CutRune
  <2>1. i \in i..n-1
    BY <1>1, <1>5 DEF CutRune, IInv, TypeOK
  <2>. QED
    BY <1>2, <1>5, <2>1 DEF CutRune
<1>6. CASE UNCHANGED vars
  BY <1>1, <1>6 DEF vars, Done
<1>. QED
  BY <1>3, <1>4, <1>5, <1>6 DEF Next

\* For every text and every dictionary the dictionary cut keeps the promise that
\* SentenceCut builds on.
THEOREM DictionaryCutImplements == Spec => CutsWords
<1>1. Init => Cutter!Init
  <2>. SUFFICES ASSUME Init PROVE Cutter!Init
    OBVIOUS
  <2>1. n \in Nat
    BY Positions DEF Init
  <2>2. Done \in BOOLEAN /\ (Done => n = 0)
    BY <2>1 DEF Init, Done
  <2>. QED
    BY <2>1, <2>2 DEF Init, Cutter!Init
<1>. QED
  BY <1>1, InitIInv, NextIInv, StepCutsWord, PTL DEF Spec, CutsWords, Cutter!Spec

-----------------------------------------------------------------------------
(* The weight of a cut.                                                     *)

\* CutWeight is the sum of the units' weights.
LEMMA CutWeightDef ==
  ASSUME dict \in Dictionaries, NEW ws \in Seq([left: Int, right: Int])
  PROVE  \E sum \in [0..Len(ws) -> Int] :
           /\ CutWeight(ws, 0) = sum[Len(ws)]
           /\ sum[0] = 0
           /\ \A k \in 1..Len(ws) : sum[k] = sum[k-1] + UnitWeight(ws[k].left, ws[k].right)
<1>. DEFINE N == Len(ws)
            p(k) == Piece(ws[k].left, ws[k].right)
            unit(k) == IF p(k) \in DOMAIN dict THEN dict[p(k)] ELSE 0
            G(g) == [k \in 0..N |-> IF k = 0 THEN 0 ELSE g[k-1] + unit(k)]
            sum == CHOOSE g : g = G(g)
            H == [k \in 0..N |-> [g \in [0..k-1 -> Int] |-> IF k = 0 THEN 0 ELSE g[k-1] + unit(k)]]
<1>1. CutWeight(ws, 0) = sum[N]
  BY DEF CutWeight
<1>. HIDE DEF sum
<1>2. N \in Nat /\ \A k \in 1..N : unit(k) \in Int
  BY WeightAssumption
<1>3. \A k \in 1..N : unit(k) = UnitWeight(ws[k].left, ws[k].right)
  BY DEF UnitWeight
<1>. HIDE DEF N, unit
<1>4. Course(N, Int, H)
  BY <1>2 DEF Course
<1>5. ASSUME NEW f \in [0..N -> Int], Follows(f, N, H) PROVE f = G(f)
  <2>1. ASSUME NEW k \in 0..N PROVE f[k] = G(f)[k]
    <3>1. [j \in 0..k-1 |-> f[j]] \in [0..k-1 -> Int]
      BY <1>2
    <3>2. f[k] = H[k][[j \in 0..k-1 |-> f[j]]]
      BY <1>5 DEF Follows
    <3>. QED
      BY <1>2, <3>1, <3>2
  <2>. QED
    BY <2>1
<1>. HIDE DEF H
<1>6. PICK f \in [0..N -> Int] : Follows(f, N, H)
  BY <1>4, CourseExists
<1>7. f = G(f)
  BY <1>5, <1>6
<1>8. sum = G(sum)
  <2>. HIDE DEF G
  <2>. QED
    BY <1>7 DEF sum
<1>9. sum = f
  <2>1. ASSUME NEW k \in 0..N, \A j \in 0..k-1 : f[j] = sum[j] PROVE f[k] = sum[k]
    <3>1. G(f)[k] = G(sum)[k]
      BY <1>2, <2>1
    <3>. QED
      BY <3>1, <1>7, <1>8
  <2>2. SameStep(f, sum, N)
    BY <1>7, <1>8, <2>1 DEF SameStep
  <2>. QED
    BY <1>2, <2>2, CourseSame
<1>10. f[0] = 0 /\ \A k \in 1..N : f[k] = f[k-1] + unit(k)
  BY <1>2, <1>7
<1>. HIDE DEF G
<1>. QED
  BY <1>1, <1>3, <1>9, <1>10 DEF N

\* A word put behind others adds its weight.
LEMMA CutWeightAppend ==
  ASSUME dict \in Dictionaries, NEW ws \in Seq([left: Int, right: Int]), NEW w \in [left: Int, right: Int]
  PROVE  CutWeight(Append(ws, w), 0) = CutWeight(ws, 0) + UnitWeight(w.left, w.right)
<1>. DEFINE new == Append(ws, w)
            N == Len(ws)
<1>1. /\ N \in Nat /\ Len(new) = N + 1 /\ new[N+1] = w
      /\ \A k \in 1..N : new[k] = ws[k]
      /\ new \in Seq([left: Int, right: Int])
  OBVIOUS
<1>. HIDE DEF new
<1>2. PICK f \in [0..N -> Int] :
         /\ CutWeight(ws, 0) = f[N]
         /\ f[0] = 0
         /\ \A k \in 1..N : f[k] = f[k-1] + UnitWeight(ws[k].left, ws[k].right)
  BY CutWeightDef
<1>3. PICK g \in [0..N+1 -> Int] :
         /\ CutWeight(new, 0) = g[N+1]
         /\ g[0] = 0
         /\ \A k \in 1..N+1 : g[k] = g[k-1] + UnitWeight(new[k].left, new[k].right)
  <2>1. PICK g \in [0..Len(new) -> Int] :
           /\ CutWeight(new, 0) = g[Len(new)]
           /\ g[0] = 0
           /\ \A k \in 1..Len(new) : g[k] = g[k-1] + UnitWeight(new[k].left, new[k].right)
    BY <1>1, CutWeightDef
  <2>. QED
    BY <1>1, <2>1
<1>. DEFINE h == [k \in 0..N |-> g[k]]
<1>4. SameStep(f, h, N)
  <2>1. f = [k \in 0..N |-> f[k]] /\ h = [k \in 0..N |-> h[k]]
    OBVIOUS
  <2>2. ASSUME NEW k \in 0..N, \A j \in 0..k-1 : f[j] = h[j] PROVE f[k] = h[k]
    <3>1. CASE k = 0
      BY <1>1, <1>2, <1>3, <3>1
    <3>2. CASE k \in 1..N
      <4>0. k - 1 \in 0..k-1 /\ k - 1 \in 0..N /\ k \in 1..N+1 /\ new[k] = ws[k]
        <5>1. new[k] = ws[k]
          BY <1>1, <3>2
        <5>. HIDE DEF N, h
        <5>2. k - 1 \in 0..k-1 /\ k - 1 \in 0..N /\ k \in 1..N+1
          BY <1>1, <3>2
        <5>. QED
          BY <5>1, <5>2
      <4>1. f[k-1] = g[k-1] /\ new[k] = ws[k] /\ k \in 1..N+1
        <5>1. f[k-1] = h[k-1] /\ h[k-1] = g[k-1]
          BY <2>2, <4>0
        <5>. QED
          BY <4>0, <5>1
      <4>2. f[k] = f[k-1] + UnitWeight(ws[k].left, ws[k].right)
        BY <1>2, <3>2
      <4>3. g[k] = g[k-1] + UnitWeight(ws[k].left, ws[k].right)
        BY <1>3, <4>1
      <4>. QED
        BY <4>1, <4>2, <4>3
    <3>. QED
      BY <3>1, <3>2
  <2>. HIDE DEF h
  <2>. QED
    BY <2>1, <2>2 DEF SameStep
<1>5. f[N] = g[N]
  <2>1. f = h
    <3>. HIDE DEF h
    <3>. QED
      BY <1>1, <1>4, CourseSame
  <2>. QED
    BY <1>1, <2>1
<1>6. g[N+1] = g[N] + UnitWeight(w.left, w.right)
  <2>1. N + 1 \in 1..N+1 /\ (N + 1) - 1 = N
    BY <1>1
  <2>. QED
    BY <1>1, <1>3, <2>1
<1>. QED
  BY <1>2, <1>3, <1>5, <1>6 DEF new

\* Other words do not change what these weigh.
LEMMA CutWeightSame ==
  ASSUME UNCHANGED <<dict, runes>>, NEW ws PROVE CutWeight(ws, 0)' = CutWeight(ws, 0)
BY DEF CutWeight, Piece

-----------------------------------------------------------------------------
(* The picks are the best, and the words cut follow them.                   *)

\* The weight of what CalcDP found to be the best cut from k on.
Rest(k) == IF k = n THEN 0 ELSE weight[k]

\* Of the dags that are done, none has a better continuation than the one picked.
BestPicked ==
  \A k \in rit..n-1 :
    /\ weight[k] >= MinDouble
    /\ \A j \in Nexts(k) : Value(k, j) <= weight[k]
    /\ weight[k] > MinDouble => pInfo[k] \in Nexts(k) /\ weight[k] = Value(k, pInfo[k])

\* The words cut and the best cut of what is left weigh what the best cut of all does.
WeightKept ==
  /\ rit > 0 => words = <<>> /\ i = 0
  /\ rit = 0 /\ Rest(0) > MinDouble =>
       Rest(i) > MinDouble /\ CutWeight(words, 0) + Rest(i) = Rest(0)

BestInv == IInv /\ BestPicked /\ WeightKept

\* MIN_DOUBLE absorbs: a continuation that is worth more is the sum of two that are.
LEMMA ValueSum ==
  ASSUME IInv, NEW k \in 0..n-1, NEW j \in Nexts(k)
  PROVE  /\ Rest(j + 1) \in Int
         /\ Value(k, j) > MinDouble /\ Rest(j + 1) >= MinDouble =>
              Rest(j + 1) > MinDouble /\ Value(k, j) = UnitWeight(k, j) + Rest(j + 1)
         /\ Rest(j + 1) > MinDouble => Value(k, j) = UnitWeight(k, j) + Rest(j + 1)
<1>1. UnitWeight(k, j) \in Int
  BY WeightAssumption DEF IInv, TypeOK, UnitWeight
<1>2. j \in k..n-1 /\ n \in Nat
  BY Positions DEF IInv, TypeOK
<1>3. j + 1 # n => weight[j + 1] \in Int
  BY <1>2 DEF IInv, TypeOK
<1>. QED
  BY <1>1, <1>2, <1>3, WeightAssumption DEF Value, Rest


\* The initial state.
LEMMA InitBestInv == Init => BestInv
<1>. SUFFICES ASSUME Init PROVE BestInv
  OBVIOUS
<1>1. IInv /\ n \in Nat
  BY InitIInv, Positions DEF Init
<1>2. BestPicked
  BY <1>1 DEF Init, BestPicked
<1>3. WeightKept
  <2>1. CASE n = 0
    <3>1. words = <<>> /\ i = 0 /\ Rest(0) = 0
      BY <2>1 DEF Init, Rest
    <3>2. CutWeight(<<>>, 0) = 0
      <4>1. <<>> \in Seq([left: Int, right: Int]) /\ Len(<<>>) = 0
        OBVIOUS
      <4>. QED
        BY <4>1, CutWeightDef DEF Init
    <3>. QED
      BY <2>1, <3>1, <3>2 DEF Init, WeightKept
  <2>2. CASE n # 0
    BY <1>1, <2>2 DEF Init, WeightKept
  <2>. QED
    BY <2>1, <2>2
<1>. QED
  BY <1>1, <1>2, <1>3 DEF BestInv

\* CalcDP compares all continuations at the dag it is at, and leaves the others.
LEMMA CalcDPBest == ASSUME BestInv, CalcDP PROVE BestPicked' /\ WeightKept'
<1>. DEFINE k == rit - 1
            good == {j \in Nexts(k) : Value(k, j) > MinDouble}
<1>. USE DEF BestInv
<1>1. n \in Nat /\ k \in 0..n-1 /\ rit' = k /\ rit = k + 1 /\ rit' \in Nat
  BY Positions DEF IInv, TypeOK, CalcDP
<1>2. n' = n /\ (\A x : Nexts(x)' = Nexts(x)) /\ (\A x, y : UnitWeight(x, y)' = UnitWeight(x, y))
  BY SameText DEF CalcDP, UnitWeight
<1>8. \/ /\ good = {}
         /\ weight' = [weight EXCEPT ![k] = MinDouble] /\ pInfo' = pInfo
      \/ \E j \in good : /\ \A m \in good : Value(k, j) >= Value(k, m)
                         /\ pInfo' = [pInfo EXCEPT ![k] = j]
                         /\ weight' = [weight EXCEPT ![k] = Value(k, j)]
  BY Zenon DEF CalcDP
<1>3. \A x \in 0..n-1 : x # k => weight'[x] = weight[x] /\ pInfo'[x] = pInfo[x]
  <2>. HIDE DEF good, k
  <2>. QED
    BY <1>1, <1>8 DEF IInv, TypeOK
<1>4. \A x \in k..n-1 : \A j \in Nexts(x) : Value(x, j)' = Value(x, j)
  <2>. SUFFICES ASSUME NEW x \in k..n-1, NEW j \in Nexts(x) PROVE Value(x, j)' = Value(x, j)
    OBVIOUS
  <2>1. j \in x..n-1 /\ j + 1 # k /\ (j + 1 # n => j + 1 \in 0..n-1)
    <3>1. x \in 0..n-1 /\ Nexts(x) \subseteq x..n-1
      BY <1>1, Positions DEF IInv, TypeOK
    <3>. HIDE DEF k
    <3>. QED
      BY <1>1, <3>1
  <2>. HIDE DEF k
  <2>. QED
    BY <1>2, <1>3, <2>1 DEF Value
<1>5. /\ weight'[k] >= MinDouble
      /\ \A j \in Nexts(k) : Value(k, j) <= weight'[k]
      /\ weight'[k] > MinDouble => pInfo'[k] \in Nexts(k) /\ weight'[k] = Value(k, pInfo'[k])
  <2>1. \A j \in Nexts(k) : Value(k, j) \in Int
    BY <1>1, ValueType DEF IInv
  <2>2. CASE good = {} /\ weight' = [weight EXCEPT ![k] = MinDouble]
    <3>1. weight'[k] = MinDouble
      BY <1>1, <2>2 DEF IInv, TypeOK
    <3>. QED
      BY <2>1, <2>2, <3>1, WeightAssumption
  <2>3. ASSUME NEW j \in good, \A m \in good : Value(k, j) >= Value(k, m),
               pInfo' = [pInfo EXCEPT ![k] = j],
               weight' = [weight EXCEPT ![k] = Value(k, j)]
        PROVE  /\ weight'[k] >= MinDouble
               /\ \A m \in Nexts(k) : Value(k, m) <= weight'[k]
               /\ weight'[k] > MinDouble => pInfo'[k] \in Nexts(k) /\ weight'[k] = Value(k, pInfo'[k])
    <3>1. weight'[k] = Value(k, j) /\ pInfo'[k] = j
      BY <1>1, <2>3 DEF IInv, TypeOK
    <3>. QED
      BY <2>1, <2>3, <3>1, WeightAssumption
  <2>. HIDE DEF good, k
  <2>. QED
    BY <1>8, <2>2, <2>3
<1>6. BestPicked'
  <2>. SUFFICES ASSUME NEW x \in k..n-1
                PROVE  /\ weight'[x] >= MinDouble
                       /\ \A j \in Nexts(x) : Value(x, j) <= weight'[x]
                       /\ weight'[x] > MinDouble => pInfo'[x] \in Nexts(x) /\ weight'[x] = Value(x, pInfo'[x])
    BY <1>1, <1>2, <1>4 DEF BestPicked
  <2>1. CASE x = k
    BY <1>5, <2>1
  <2>2. CASE x # k
    BY <1>1, <1>3, <2>2 DEF BestPicked
  <2>. QED
    BY <2>1, <2>2
<1>7. WeightKept'
  <2>1. words' = <<>> /\ i' = 0 /\ dict \in Dictionaries
    BY <1>1 DEF WeightKept, CalcDP, IInv, TypeOK
  <2>2. CutWeight(words, 0)' = 0
    <3>1. <<>> \in Seq([left: Int, right: Int]) /\ Len(<<>>) = 0
      OBVIOUS
    <3>2. CutWeight(<<>>, 0) = 0
      BY <2>1, <3>1, CutWeightDef
    <3>3. CutWeight(<<>>, 0)' = CutWeight(<<>>, 0)
      BY CutWeightSame DEF CalcDP
    <3>4. words' = words
      BY DEF CalcDP
    <3>. QED
      BY <2>1, <3>2, <3>3, <3>4
  <2>3. Rest(0)' \in Int
    <3>1. TypeOK'
      BY CalcDPIInv DEF IInv
    <3>. QED
      BY <1>1, <1>2, <3>1 DEF TypeOK, Rest
  <2>. QED
    BY <2>1, <2>2, <2>3 DEF WeightKept
<1>. QED
  BY <1>6, <1>7

\* A word cut along the picks takes its weight from what is left to what is cut.
LEMMA AppendBest ==
  ASSUME BestInv, rit = 0, i < n, NEW r \in i..n-1,
         words' = Append(words, WordRange(i, r)), i' = r + 1,
         UNCHANGED <<dict, runes, pInfo, weight, rit>>,
         pInfo[i] \in Nexts(i) => r = pInfo[i]
  PROVE  BestPicked' /\ WeightKept'
<1>. USE DEF BestInv
<1>1. n \in Nat /\ i \in 0..n-1 /\ words \in Seq(Ranges(n)) /\ dict \in Dictionaries
  BY Positions DEF IInv, TypeOK
<1>2. n' = n /\ \A x : Nexts(x)' = Nexts(x) /\ \A j : Value(x, j)' = Value(x, j)
  BY SameText DEF Value, UnitWeight
<1>3. BestPicked'
  BY <1>2 DEF BestPicked
<1>4. \A k : Rest(k)' = Rest(k)
  BY <1>2 DEF Rest
<1>5. CutWeight(words, 0)' = CutWeight(words, 0) + UnitWeight(i, r)
  <2>1. words \in Seq([left: Int, right: Int])
    BY <1>1, RangesInt
  <2>2. /\ WordRange(i, r) \in [left: Int, right: Int]
        /\ WordRange(i, r).left = i /\ WordRange(i, r).right = r
    BY <1>1 DEF WordRange
  <2>3. CutWeight(Append(words, WordRange(i, r)), 0) = CutWeight(words, 0) + UnitWeight(i, r)
    BY <1>1, <2>1, <2>2, CutWeightAppend
  <2>. DEFINE new == Append(words, WordRange(i, r))
  <2>4. words' = new
    OBVIOUS
  <2>. HIDE DEF new
  <2>5. CutWeight(words, 0)' = CutWeight(new, 0)
    BY <2>4 DEF CutWeight, Piece
  <2>. QED
    BY <2>3, <2>5 DEF new
<1>6. ASSUME Rest(0) > MinDouble
      PROVE  Rest(r + 1) > MinDouble /\ CutWeight(words, 0) + UnitWeight(i, r) + Rest(r + 1) = Rest(0)
  <2>1. Rest(i) > MinDouble /\ CutWeight(words, 0) + Rest(i) = Rest(0) /\ Rest(i) = weight[i]
    BY <1>1, <1>6 DEF WeightKept, Rest
  <2>2. pInfo[i] \in Nexts(i) /\ weight[i] = Value(i, pInfo[i])
    BY <1>1, <2>1 DEF BestPicked
  <2>3. r = pInfo[i]
    BY <2>1, <2>2
  <2>4. Rest(r + 1) >= MinDouble
    BY <1>1, WeightAssumption DEF BestPicked, Rest
  <2>5. Rest(r + 1) > MinDouble /\ Rest(i) = UnitWeight(i, r) + Rest(r + 1) /\ Rest(r + 1) \in Int
    BY <1>1, <2>1, <2>2, <2>3, <2>4, ValueSum
  <2>6. UnitWeight(i, r) \in Int
    BY WeightAssumption DEF IInv, TypeOK, UnitWeight
  <2>7. CutWeight(words, 0) \in Int
    BY <1>1, RangesInt, CutWeightDef
  <2>. QED
    BY <2>1, <2>5, <2>6, <2>7
<1>7. WeightKept'
  BY <1>1, <1>4, <1>5, <1>6 DEF WeightKept
<1>. QED
  BY <1>3, <1>7

\* Both are kept by every step.
LEMMA NextBestInv == BestInv /\ [Next]_vars => BestInv'
<1>. SUFFICES ASSUME BestInv, [Next]_vars PROVE BestInv'
  OBVIOUS
<1>1. IInv'
  BY NextIInv DEF BestInv
<1>2. CASE CalcDP
  BY <1>1, <1>2, CalcDPBest DEF BestInv
<1>3. CASE CutWord
  <2>1. pInfo[i] \in i..n-1
    BY <1>3, Positions DEF CutWord, Picked, BestInv, IInv, TypeOK, PickedFound
  <2>. QED
    BY <1>1, <1>3, <2>1, AppendBest DEF BestInv, CutWord
<1>4. CASE CutRune
  <2>1. i \in i..n-1 /\ i \in 0..n-1
    BY <1>4, Positions DEF CutRune, BestInv, IInv, TypeOK
  <2>2. pInfo[i] \in Nexts(i) => i = pInfo[i]
    <3>1. pInfo[i] \in Nexts(i) => pInfo[i] # NoInfo
      BY <2>1, Positions, WeightAssumption DEF BestInv, IInv, TypeOK
    <3>. QED
      BY <1>4, <3>1 DEF CutRune, Picked, Nexts
  <2>. QED
    BY <1>1, <1>4, <2>1, <2>2, AppendBest DEF BestInv, CutRune
<1>5. CASE UNCHANGED vars
  <2>1. /\ n' = n /\ \A x : Nexts(x)' = Nexts(x) /\ \A j : Value(x, j)' = Value(x, j)
        /\ UNCHANGED <<dict, runes, pInfo, weight, rit, i, words>>
    BY <1>5, SameText DEF vars, Value, UnitWeight
  <2>2. CutWeight(words, 0)' = CutWeight(words, 0)
    BY <2>1 DEF CutWeight, Piece
  <2>3. \A k : Rest(k)' = Rest(k)
    BY <2>1 DEF Rest
  <2>. QED
    BY <1>1, <2>1, <2>2, <2>3 DEF BestInv, BestPicked, WeightKept
<1>. QED
  BY <1>2, <1>3, <1>4, <1>5 DEF Next

-----------------------------------------------------------------------------
(* No other cut is better.                                                  *)

\* One rune more, one weight more.
LEMMA OneMore ==
  ASSUME NEW W \in Nat, NEW a \in Nat, NEW b \in Nat, a < b
  PROVE  a * W \in Nat /\ b * W \in Nat /\ a * W + W <= b * W
<1>1. a * W \in Nat /\ b * W \in Nat
  OBVIOUS
<1>2. PICK c \in Nat : b = a + 1 + c
  <2>1. b - a - 1 \in Nat /\ b = a + 1 + (b - a - 1)
    OBVIOUS
  <2>. QED
    BY <2>1
<1>3. b * W = a * W + W + c * W /\ c * W \in Nat
  BY <1>2
<1>. QED
  BY <1>1, <1>3

\* From the end of any allowed cut backwards: what follows a word weighs at most what
\* CalcDP found from there on, or is spoilt by a word of weight -infinity.
LEMMA NoneBetter ==
  ASSUME NEW W, SumsFit(W), BestInv, rit = 0, NEW ws \in Cuts
  PROVE  CutWeight(ws, 0) <= Rest(0) \/ CutWeight(ws, 0) <= MinDouble
<1>. USE DEF BestInv
<1>. DEFINE R == [left: Int, right: Int]
            L == Len(ws)
<1>1. n \in Nat /\ dict \in Dictionaries /\ W \in Nat /\ n * W < -MinDouble /\ n * W \in Nat
  <2>1. n \in Nat /\ dict \in Dictionaries /\ W \in Nat /\ n * W < -MinDouble
    BY Positions DEF IInv, TypeOK, SumsFit, n
  <2>. QED
    BY <2>1
<1>2. ws \in Seq(R) /\ Tiles(ws, 0, n) /\ L \in Nat
  <2>1. ws \in Tilings(0, n)
    BY DEF Cuts
  <2>2. ws \in Seq(R) /\ Tiles(ws, 0, n)
    BY <1>1, <2>1, TilingsTile
  <2>. QED
    BY <2>2
<1>3. \A k \in 1..L : /\ ws[k].left \in 0..n-1 /\ ws[k].right \in ws[k].left..n-1
                      /\ ws[k].right \in Nexts(ws[k].left)
  <2>. SUFFICES ASSUME NEW k \in 1..L
                PROVE  /\ ws[k].left \in 0..n-1 /\ ws[k].right \in ws[k].left..n-1
                       /\ ws[k].right \in Nexts(ws[k].left)
    OBVIOUS
  <2>1. ws[k].left \in Int /\ ws[k].right \in Int
    <3>1. ws[k] \in R
      <4>. HIDE DEF R
      <4>. QED
        BY <1>2
    <3>. QED
      BY <3>1
  <2>2. ws[k].left <= ws[k].right
    BY <1>2 DEF Tiles
  <2>3. 0 <= ws[k].left /\ ws[k].right < n
    BY <1>1, <1>2, TilesInside
  <2>. QED
    BY <1>1, <2>1, <2>2, <2>3 DEF Cuts
<1>4. PICK sum \in [0..L -> Int] :
         /\ CutWeight(ws, 0) = sum[L]
         /\ sum[0] = 0
         /\ \A k \in 1..L : sum[k] = sum[k-1] + UnitWeight(ws[k].left, ws[k].right)
  BY <1>1, <1>2, CutWeightDef
<1>. HIDE DEF L, R
<1>. DEFINE start(k) == IF k = L THEN n ELSE ws[k+1].left
            left(k) == sum[L] - sum[k]
            Span(k) == (n - start(k)) * W
            Fine(k) == left(k) <= Rest(start(k)) /\ left(k) >= -Span(k)
            Bad(k) == left(k) <= 2 * MinDouble + Span(k)
            Held(k) == left(k) <= Span(k) /\ (Fine(k) \/ Bad(k))
            P(m) == m <= L => Held(L - m)
            T == {m \in Nat : P(m)}
<1>5. Held(L)
  <2>1. start(L) = n /\ left(L) = 0 /\ Span(L) = 0 /\ Rest(n) = 0
    BY <1>1, <1>2, <1>4 DEF Rest
  <2>. QED
    BY <1>2, <2>1
<1>6. ASSUME NEW q \in 1..L, Held(q) PROVE Held(q - 1)
  <2>. DEFINE l == ws[q].left
              r == ws[q].right
              u == UnitWeight(l, r)
              a == (n - (r + 1)) * W
              b == (n - l) * W
              s == left(q)
  <2>1. q - 1 \in 0..L /\ q \in 0..L /\ q - 1 # L /\ (q - 1) + 1 = q
    BY <1>2
  <2>2. l \in 0..n-1 /\ r \in l..n-1 /\ r \in Nexts(l)
    BY <1>3
  <2>3. start(q) = r + 1
    <3>1. CASE q = L
      <4>1. ws # <<>>
        BY <3>1 DEF L
      <4>2. ws[Len(ws)].right + 1 = n
        BY <1>2, <4>1 DEF Tiles
      <4>. QED
        BY <3>1, <4>2 DEF L
    <3>2. CASE q # L
      <4>1. q \in 1..L-1
        BY <1>2, <3>2
      <4>2. ws[q+1].left = ws[q].right + 1
        BY <1>2, <4>1 DEF Tiles, L
      <4>. QED
        BY <3>2, <4>2
    <3>. QED
      BY <3>1, <3>2
  <2>4. start(q - 1) = l
    BY <2>1
  <2>5. left(q - 1) = u + s /\ s \in Int /\ u \in Int
    <3>1. sum[q] = sum[q-1] + u
      BY <1>4
    <3>2. sum[L] \in Int /\ sum[q] \in Int /\ sum[q-1] \in Int
      BY <1>2, <1>4, <2>1
    <3>3. u \in Int
      BY <1>1, WeightAssumption DEF UnitWeight
    <3>. HIDE DEF u
    <3>. QED
      BY <3>1, <3>2, <3>3
  <2>6. a \in Nat /\ b \in Nat /\ a + W <= b /\ b <= n * W
    <3>1. n - (r + 1) \in Nat /\ n - l \in Nat /\ n - (r + 1) < n - l
      <4>. HIDE DEF r, l
      <4>. QED
        BY <1>1, <2>2
    <3>2. a \in Nat /\ b \in Nat /\ a + W <= b
      <4>. HIDE DEF r, l
      <4>. QED
        BY <1>1, <3>1, OneMore
    <3>3. b <= n * W
      <4>1. CASE l = 0
        BY <1>1, <4>1
      <4>2. CASE l # 0
        <5>. HIDE DEF l
        <5>1. n - l < n
          BY <1>1, <2>2, <4>2
        <5>2. (n - l) * W + W <= n * W /\ (n - l) * W \in Nat
          BY <1>1, <3>1, <5>1, OneMore
        <5>. QED
          BY <1>1, <5>2
      <4>. QED
        BY <4>1, <4>2
    <3>. QED
      BY <3>2, <3>3
  <2>7. s <= a /\ ((s <= Rest(r + 1) /\ s >= -a) \/ s <= 2 * MinDouble + a)
    <3>. HIDE DEF start, left, r
    <3>. QED
      BY <1>6, <2>3
  <2>8. u \in -W..W \/ u <= 2 * MinDouble
    BY <1>1, WeightAssumption DEF UnitWeight, SumsFit
  <2>9. Value(l, r) <= Rest(l)
    <3>. HIDE DEF l, r
    <3>1. Rest(l) = weight[l]
      BY <1>1, <2>2 DEF Rest
    <3>2. l \in rit..n-1
      BY <2>2
    <3>. QED
      BY <2>2, <3>1, <3>2 DEF BestPicked
  <2>10. /\ Rest(r + 1) > MinDouble => Value(l, r) = u + Rest(r + 1)
         /\ Rest(r + 1) \in Int
    <3>. HIDE DEF l, r
    <3>. QED
      BY <2>2, ValueSum
  <2>11. Rest(l) \in Int
    BY <2>2 DEF Rest, IInv, TypeOK
  <2>12. /\ u + s <= b
         /\ \/ u + s <= Rest(l) /\ u + s >= -b
            \/ u + s <= 2 * MinDouble + b
    <3>. DEFINE v == Value(l, r)
                x == Rest(r + 1)
                y == Rest(l)
                c == n * W
    <3>1. MinDouble \in Int /\ MinDouble < 0
      BY WeightAssumption
    <3>. HIDE DEF s, u, a, b, l, r
    <3>2. /\ s <= a /\ ((s <= x /\ s >= -a) \/ s <= 2 * MinDouble + a)
          /\ u \in -W..W \/ u <= 2 * MinDouble
          /\ v <= y /\ (x > MinDouble => v = u + x)
          /\ a \in Nat /\ b \in Nat /\ a + W <= b /\ b <= c /\ c < -MinDouble
          /\ s \in Int /\ u \in Int /\ x \in Int /\ y \in Int /\ c \in Nat /\ W \in Nat
      BY <1>1, <2>5, <2>6, <2>7, <2>8, <2>9, <2>10, <2>11
    <3>. HIDE DEF v, x, y, c
    <3>3. u + s <= b
      BY <3>1, <3>2
    <3>4. ASSUME u <= 2 * MinDouble
         PROVE  u + s <= 2 * MinDouble + b
      BY <3>1, <3>2, <3>4
    <3>5. ASSUME u \in -W..W /\ s <= 2 * MinDouble + a
         PROVE  u + s <= 2 * MinDouble + b
      BY <3>1, <3>2, <3>5
    <3>6. ASSUME u \in -W..W /\ s <= x /\ s >= -a
         PROVE  u + s <= y /\ u + s >= -b
      <4>1. x > MinDouble
        BY <3>1, <3>2, <3>6
      <4>. QED
        BY <3>1, <3>2, <3>6, <4>1
    <3>7. ASSUME u \notin -W..W /\ ~(u <= 2 * MinDouble)
         PROVE  FALSE
      BY <3>2, <3>7
    <3>8. (u + s <= y /\ u + s >= -b) \/ u + s <= 2 * MinDouble + b
      BY <3>2, <3>4, <3>5, <3>6, <3>7
    <3>. QED
      BY <3>3, <3>8 DEF y
  <2>. HIDE DEF s, u, start, left, l
  <2>. QED
    BY <2>4, <2>5, <2>12
<1>7. Held(0)
  <2>. HIDE DEF Held
  <2>1. P(0)
    BY <1>2, <1>5
  <2>2. ASSUME NEW m \in Nat, P(m) PROVE P(m + 1)
    <3>. SUFFICES ASSUME m + 1 <= L PROVE Held(L - (m + 1))
      OBVIOUS
    <3>1. L - m \in 1..L /\ Held(L - m) /\ (L - m) - 1 = L - (m + 1)
      BY <1>2, <2>2
    <3>2. Held((L - m) - 1)
      BY <1>6, <3>1
    <3>. QED
      BY <3>1, <3>2
  <2>3. P(L)
    <3>. HIDE DEF P
    <3>1. T \in SUBSET Nat /\ 0 \in T /\ \A m \in T : m + 1 \in T
      BY <2>1, <2>2
    <3>2. T = Nat
      BY <3>1, Induction
    <3>. QED
      BY <1>2, <3>2
  <2>. QED
    BY <1>2, <2>3
<1>8. left(0) = CutWeight(ws, 0) /\ start(0) = 0 /\ sum[L] \in Int
  <2>1. L = 0 => n = 0
    BY <1>2 DEF Tiles, L
  <2>2. L # 0 => ws[1].left = 0
    BY <1>2 DEF Tiles, L
  <2>. QED
    BY <1>1, <1>2, <1>4, <2>1, <2>2
<1>9. left(0) <= Rest(0) \/ left(0) <= 2 * MinDouble + n * W
  BY <1>1, <1>2, <1>7, <1>8
<1>10. CutWeight(ws, 0) \in Int /\ (CutWeight(ws, 0) <= Rest(0) \/ CutWeight(ws, 0) <= 2 * MinDouble + n * W)
  BY <1>4, <1>8, <1>9
<1>. QED
  BY <1>1, <1>10, WeightAssumption

\* For every text and dictionary whose weights are logarithms of probabilities, or
\* -infinity: no way to cut the text into dictionary words and single runes weighs
\* more than the one returned, as CalcDP weighs them.
THEOREM DictionaryCutIsBest ==
  ASSUME NEW W, SumsFit(W)
  PROVE  Spec => []Optimal
<1>1. BestInv => Optimal
  <2>. SUFFICES ASSUME BestInv, Done, NEW ws \in Cuts, CutWeight(ws, 0) > MinDouble
                PROVE  CutWeight(words, 0) >= CutWeight(ws, 0)
    BY DEF Optimal
  <2>1. rit = 0 /\ i = n /\ n \in Nat /\ dict \in Dictionaries
    BY Positions DEF Done, BestInv, IInv, TypeOK
  <2>2. CutWeight(ws, 0) \in Int
    <3>. DEFINE L == Len(ws)
    <3>1. ws \in Seq([left: Int, right: Int])
      BY <2>1, TilingsTile DEF Cuts
    <3>2. L \in Nat
      BY <3>1
    <3>3. PICK sum \in [0..L -> Int] : CutWeight(ws, 0) = sum[L]
      BY <2>1, <3>1, CutWeightDef
    <3>. QED
      BY <3>2, <3>3
  <2>3. Rest(0) \in Int
    BY <2>1 DEF Rest, BestInv, IInv, TypeOK
  <2>4. CutWeight(ws, 0) <= Rest(0)
    BY <2>1, <2>2, NoneBetter, WeightAssumption
  <2>5. Rest(0) > MinDouble
    BY <2>2, <2>3, <2>4, WeightAssumption
  <2>6. CutWeight(words, 0) + 0 = Rest(0) /\ CutWeight(words, 0) \in Int
    <3>1. words \in Seq([left: Int, right: Int])
      BY <2>1, RangesInt DEF BestInv, IInv, TypeOK
    <3>2. CutWeight(words, 0) \in Int
      BY <2>1, <3>1, CutWeightDef, SMTT(20)
    <3>. QED
      BY <2>1, <2>5, <3>2 DEF BestInv, WeightKept, Rest
  <2>. QED
    BY <2>2, <2>3, <2>4, <2>6
<1>. QED
  BY <1>1, InitBestInv, NextBestInv, PTL DEF Spec
=============================================================================
