-------------------------- MODULE HMMSegmentProofs --------------------------
(***************************************************************************)
(* The cut by probability loses no rune, doubles none, keeps the rules for *)
(* ASCII runes and finds a most probable sequence of states, for every     *)
(* text and every model: machine-checked.                                  *)
(***************************************************************************)
EXTENDS HMMSegment, TilingProofs

\* the states that end a word, E and S
Ending == {1, 3}

\* The runes between the iterators of Cut are not ASCII.
Collected == \A k \in left..right-1 : Rune(k) \notin Ascii

\* In Viterbi: the tables reach at most to right, every path but the first rune's
\* leads to a state, the states are read back only from complete tables, the last
\* one ends a word.
ViterbiInv ==
  pc = "viterbi" =>
    /\ left < right
    /\ Len(columns) \in 1..right-left
    /\ \A x \in 2..Len(columns), y \in States : columns[x][y].path \in States
    /\ Len(status) <= right - left
    /\ status # <<>> => /\ Len(columns) = right - left
                        /\ status[Len(status)] \in Ending

\* In InternalCut: there is a state per rune, the last one ends a word, and after
\* a state that ends a word nothing is open.
InternalInv ==
  pc = "internal" =>
    /\ left < right
    /\ Len(status) = right - left
    /\ status[right - left] \in Ending
    /\ i > 0 /\ status[i] \in Ending => ileft = left + i

IInv ==
  TypeOK /\ Tiles(res, 0, Front) /\ Collected /\ ViterbiInv /\ InternalInv /\ AsciiRules

-----------------------------------------------------------------------------
(* Data.                                                                   *)

ColumnType == [States -> [weight: Int, path: States \cup {-1}]]

\* Adding weights yields a weight.
LEMMA PlusType == ASSUME NEW x \in Int, NEW y \in Int PROVE Plus(x, y) \in Int
<1>1. (-MinDouble - 2 * (x + y)) \div (-2 * MinDouble) \in Int
  BY MinAssumption
<1>. QED
  BY <1>1, MinAssumption DEF Plus

\* The tables of the model hold weights, GetEmitProb yields one.
LEMMA ModelType ==
  ASSUME TypeOK, NEW y \in States, NEW z \in States, NEW r
  PROVE  /\ model.startProb[y] \in Int
         /\ model.transProb[y][z] \in Int
         /\ EmitProb(y, r) \in Int
BY ModelAssumption, MinAssumption DEF TypeOK, EmitProb

\* The table of the first rune.
LEMMA FirstColumnType ==
  ASSUME TypeOK, NEW r PROVE FirstColumn(r) \in ColumnType
<1>1. \A y \in States : Plus(model.startProb[y], EmitProb(y, r)) \in Int
  BY ModelType, PlusType
<1>. QED
  BY <1>1 DEF FirstColumn, ColumnType

\* A set of states that is not empty has a least member.
LEMMA LeastMember ==
  ASSUME NEW best \in SUBSET States, best # {}
  PROVE  (CHOOSE p \in best : \A q \in best : p <= q) \in best
<1>1. \E p \in best : \A q \in best : p <= q
  <2>1. CASE 0 \in best
    BY <2>1 DEF States
  <2>2. CASE 0 \notin best /\ 1 \in best
    BY <2>2 DEF States
  <2>3. CASE 0 \notin best /\ 1 \notin best /\ 2 \in best
    BY <2>3 DEF States
  <2>4. CASE 0 \notin best /\ 1 \notin best /\ 2 \notin best
    <3>1. PICK p \in best : TRUE
      OBVIOUS
    <3>2. \A q \in best : q = 3
      BY <2>4 DEF States
    <3>. QED
      BY <3>1, <3>2
  <2>. QED
    BY <2>1, <2>2, <2>3, <2>4
<1>. QED
  BY <1>1

\* The table of another rune: every path leads to a state.
LEMMA NextColumnType ==
  ASSUME TypeOK, NEW weight \in [States -> Int], NEW r
  PROVE  /\ Column(weight, r) \in ColumnType
         /\ \A y \in States : Column(weight, r)[y].path \in States
<1>. DEFINE tmp(y, p) == Transition(weight, p, y, r)
            best(y) == {p \in States : tmp(y, p) > MinDouble
                                         /\ \A q \in States : tmp(y, p) >= tmp(y, q)}
            least(y) == CHOOSE p \in best(y) : \A q \in best(y) : p <= q
            entry(y) == IF best(y) = {} THEN [weight |-> MinDouble, path |-> E]
                        ELSE [weight |-> tmp(y, least(y)), path |-> least(y)]
<1>1. Column(weight, r) = [y \in States |-> entry(y)]
  BY DEF Column
<1>2. ASSUME NEW y \in States
      PROVE  entry(y) \in [weight: Int, path: States]
  <2>1. \A p \in States : tmp(y, p) \in Int
    BY ModelType, PlusType DEF Transition
  <2>2. best(y) # {} => least(y) \in States
    <3>1. best(y) \in SUBSET States
      OBVIOUS
    <3>. HIDE DEF best
    <3>. QED
      BY <3>1, LeastMember
  <2>3. MinDouble \in Int /\ E \in States
    BY MinAssumption DEF E, States
  <2>. HIDE DEF tmp, best, least
  <2>. QED
    BY <2>1, <2>2, <2>3
<1>. HIDE DEF entry
<1>. QED
  BY <1>1, <1>2 DEF ColumnType

-----------------------------------------------------------------------------
(* The text.                                                               *)

\* Positions are natural numbers.
LEMMA TextLength == ASSUME runes \in Texts PROVE n \in Nat
BY TextAssumption DEF n

\* The text stays the same.
LEMMA SameText ==
  ASSUME UNCHANGED runes
  PROVE  n' = n /\ \A k : Rune(k)' = Rune(k)
BY DEF n, Rune

\* what AsciiRules says of one word
Ruled(w) ==
  LET more == IF Rune(w.left) \in Letters THEN Letters \cup Digits
              ELSE IF Rune(w.left) \in Digits THEN Digits \cup {Point} ELSE {}
  IN /\ \A p \in w.left..w.right : Rune(p) \in Ascii <=> Rune(w.left) \in Ascii
     /\ w.right + 1 < n => Rune(w.right + 1) \notin more

\* A new word that obeys the rules.
LEMMA RulesAppend ==
  ASSUME res \in Seq(Ranges(n)), AsciiRules, NEW l, NEW r,
         res' = Append(res, WordRange(l, r)), UNCHANGED runes,
         Ruled(WordRange(l, r))
  PROVE  AsciiRules'
<1>. DEFINE w == WordRange(l, r)
<1>1. /\ Len(res) \in Nat /\ Len(res') = Len(res) + 1
      /\ res'[Len(res) + 1] = w
      /\ \A k \in 1..Len(res) : res'[k] = res[k]
  OBVIOUS
<1>2. \A k \in 1..Len(res) : Ruled(res[k])
  BY DEF AsciiRules, Ruled
<1>. HIDE DEF w
<1>3. \A k \in 1..Len(res') : Ruled(res'[k])
  BY <1>1, <1>2 DEF w
<1>. QED
  BY <1>3, SameText DEF AsciiRules, Ruled

\* A step that finds no word leaves the rules as they are.
LEMMA RulesSame ==
  ASSUME AsciiRules, UNCHANGED <<runes, res>> PROVE AsciiRules'
BY SameText DEF AsciiRules

-----------------------------------------------------------------------------
(* The loop of Cut.                                                        *)

\* The initial state.
LEMMA InitIInv == Init => IInv
<1>. SUFFICES ASSUME Init PROVE IInv
  OBVIOUS
<1>1. n \in Nat
  BY TextLength DEF Init
<1>2. TypeOK
  BY <1>1 DEF Init, TypeOK
<1>. QED
  BY <1>2 DEF Init, IInv, Tiles, Front, Collected, ViterbiInv, InternalInv, AsciiRules

\* Collecting another rune.
LEMMA SkipRuneIInv == ASSUME IInv, SkipRune PROVE IInv'
<1>1. n \in Nat /\ n' = n /\ \A k : Rune(k)' = Rune(k)
  BY TextLength, SameText DEF SkipRune, IInv, TypeOK
<1>2. TypeOK'
  BY <1>1 DEF SkipRune, IInv, TypeOK
<1>3. Collected'
  BY <1>1 DEF SkipRune, IInv, TypeOK, Collected
<1>. QED
  BY <1>2, <1>3, RulesSame DEF SkipRune, IInv, Front, ViterbiInv, InternalInv

\* The call of InternalCut.
LEMMA CallInternalCutIInv == ASSUME IInv, CallInternalCut PROVE IInv'
<1>1. n \in Nat /\ n' = n /\ \A k : Rune(k)' = Rune(k)
  BY TextLength, SameText DEF CallInternalCut, IInv, TypeOK
<1>. DEFINE first == FirstColumn(Rune(left))
<1>2. first \in ColumnType
  BY FirstColumnType DEF IInv
<1>. HIDE DEF first
<1>3. columns' = <<first>> /\ columns' \in Seq(ColumnType) /\ Len(columns') = 1
  BY <1>2 DEF CallInternalCut, first
<1>4. TypeOK'
  BY <1>1, <1>3 DEF CallInternalCut, IInv, TypeOK, ColumnType
<1>5. Collected'
  BY <1>1 DEF CallInternalCut, IInv, Collected
<1>6. left \in Nat /\ right \in Nat /\ left < right
  BY <1>1 DEF CallInternalCut, IInv, TypeOK
<1>7. ViterbiInv'
  <2>1. status' = <<>> /\ Len(status') = 0 /\ left' = left /\ right' = right
    BY DEF CallInternalCut
  <2>. QED
    BY <1>3, <1>6, <2>1 DEF ViterbiInv
<1>. QED
  BY <1>4, <1>5, <1>7, RulesSame DEF CallInternalCut, IInv, Front, InternalInv

\* A word by the rules for ASCII runes.
LEMMA AsciiWordIInv == ASSUME IInv, AsciiWord PROVE IInv'
<1>1. n \in Nat /\ n' = n /\ \A k : Rune(k)' = Rune(k)
  BY TextLength, SameText DEF AsciiWord, IInv, TypeOK
<1>2. PICK e \in left+1..n : /\ AsciiEnd(left, e)
                             /\ res' = Append(res, WordRange(left, e - 1))
                             /\ left' = e /\ right' = e
  BY DEF AsciiWord
<1>3. left \in 0..n-1 /\ e - 1 \in left..n-1 /\ left' \in 0..n
  BY <1>1, <1>2 DEF IInv, TypeOK
<1>4. TypeOK'
  <2>1. res' \in Seq(Ranges(n))
    BY <1>1, <1>2, <1>3, RangesAppend DEF IInv, TypeOK
  <2>. QED
    BY <1>1, <1>2, <1>3, <2>1 DEF AsciiWord, IInv, TypeOK
<1>5. Tiles(res', 0, e - 1 + 1)
  BY <1>1, <1>2, <1>3, RangesInt, TilesAppend DEF AsciiWord, IInv, TypeOK, Front
<1>6. Tiles(res', 0, Front')
  BY <1>2, <1>3, <1>5 DEF AsciiWord, Front
<1>7. Collected'
  BY <1>1, <1>2, <1>3 DEF Collected
<1>8. Ruled(WordRange(left, e - 1))
  <2>1. Rune(left) \in Ascii
    BY DEF AsciiWord, AtAscii
  <2>2. \A k \in left+1..e-1 : Rune(k) \in Ascii
    BY <1>2 DEF AsciiEnd, RunEnd, Ascii
  <2>3. \A p \in left..e-1 : Rune(p) \in Ascii
    BY <1>3, <2>1, <2>2
  <2>. QED
    BY <1>2, <1>3, <2>1, <2>3 DEF Ruled, WordRange, AsciiEnd, RunEnd
<1>9. AsciiRules'
  BY <1>2, <1>8, RulesAppend DEF AsciiWord, IInv, TypeOK
<1>. QED
  BY <1>4, <1>6, <1>7, <1>9 DEF AsciiWord, IInv, ViterbiInv, InternalInv

-----------------------------------------------------------------------------
(* Viterbi and InternalCut.                                                *)

\* Another column of the tables.
LEMMA ViterbiColumnIInv == ASSUME IInv, ViterbiColumn PROVE IInv'
<1>1. n \in Nat /\ n' = n /\ \A k : Rune(k)' = Rune(k)
  BY TextLength, SameText DEF ViterbiColumn, IInv, TypeOK
<1>. DEFINE x == Len(columns)
            next == Column(Weights(columns[x]), Rune(left + x))
<1>2. x \in 1..right-left /\ x < right - left /\ right - left \in Nat
  BY DEF ViterbiColumn, IInv, ViterbiInv, TypeOK
<1>3. columns \in Seq(ColumnType) /\ columns[x] \in ColumnType
  BY <1>2 DEF IInv, TypeOK, ColumnType
<1>4. Weights(columns[x]) \in [States -> Int]
  BY <1>3 DEF Weights, ColumnType
<1>5. next \in ColumnType /\ \A y \in States : next[y].path \in States
  BY <1>4, NextColumnType DEF IInv
<1>. HIDE DEF next
<1>6. /\ columns' = Append(columns, next) /\ columns' \in Seq(ColumnType)
      /\ Len(columns') = x + 1
      /\ columns'[x + 1] = next
      /\ \A k \in 1..x : columns'[k] = columns[k]
  BY <1>2, <1>3, <1>5 DEF ViterbiColumn, next
<1>7. TypeOK'
  BY <1>1, <1>6 DEF ViterbiColumn, IInv, TypeOK, ColumnType
<1>8. status = <<>>
  BY <1>2 DEF ViterbiColumn, IInv, ViterbiInv
<1>9. ViterbiInv'
  BY <1>2, <1>5, <1>6, <1>8 DEF ViterbiColumn, IInv, ViterbiInv
<1>10. Collected'
  BY <1>1 DEF ViterbiColumn, IInv, Collected
<1>. QED
  BY <1>7, <1>9, <1>10, RulesSame DEF ViterbiColumn, IInv, Front, InternalInv

\* Another state read back.
LEMMA ReadBackIInv == ASSUME IInv, ReadBack PROVE IInv'
<1>1. n \in Nat /\ n' = n /\ \A k : Rune(k)' = Rune(k)
  BY TextLength, SameText DEF ReadBack, IInv, TypeOK
<1>2. /\ Len(columns) = right - left /\ left < right
      /\ right - left \in Nat
      /\ status \in Seq(States) /\ Len(status) < right - left
  BY DEF ReadBack, IInv, ViterbiInv, TypeOK
<1>3. /\ Stat \in States
      /\ status = <<>> => Stat \in Ending
  <2>1. CASE status = <<>>
    BY <2>1 DEF Stat, LastState, States, Ending, E, S
  <2>2. CASE status # <<>>
    <3>. DEFINE x == Len(columns) - Len(status) + 1
    <3>1. x \in 2..Len(columns) /\ status[1] \in States
      BY <1>2, <2>2
    <3>. QED
      BY <2>2, <3>1 DEF Stat, ReadBack, IInv, ViterbiInv
  <2>. QED
    BY <2>1, <2>2
<1>. DEFINE stat == Stat
<1>. HIDE DEF stat
<1>4. /\ status' = <<stat>> \o status
      /\ status' \in Seq(States)
      /\ Len(status') = Len(status) + 1
      /\ Len(status) \in Nat
      /\ status'[Len(status) + 1] = IF status = <<>> THEN stat ELSE status[Len(status)]
      /\ status' # <<>>
  BY <1>2, <1>3 DEF ReadBack, stat
<1>5. TypeOK'
  BY <1>1, <1>4 DEF ReadBack, IInv, TypeOK
<1>6. status'[Len(status')] \in Ending
  BY <1>3, <1>4 DEF ReadBack, IInv, ViterbiInv, stat
<1>7. ViterbiInv'
  BY <1>2, <1>4, <1>6 DEF ReadBack, IInv, ViterbiInv
<1>8. Collected'
  BY <1>1 DEF ReadBack, IInv, Collected
<1>. QED
  BY <1>5, <1>7, <1>8, RulesSame DEF ReadBack, IInv, Front, InternalInv

\* The end of Viterbi.
LEMMA ViterbiEndIInv == ASSUME IInv, ViterbiEnd PROVE IInv'
<1>1. n \in Nat /\ n' = n /\ \A k : Rune(k)' = Rune(k)
  BY TextLength, SameText DEF ViterbiEnd, IInv, TypeOK
<1>2. left \in Nat /\ right \in Nat /\ left < right /\ Len(status) = right - left
  BY <1>1 DEF ViterbiEnd, IInv, ViterbiInv, TypeOK
<1>3. TypeOK'
  BY <1>1, <1>2 DEF ViterbiEnd, IInv, TypeOK
<1>4. status # <<>>
  BY <1>2
<1>5. InternalInv'
  BY <1>2, <1>4 DEF ViterbiEnd, IInv, ViterbiInv, InternalInv
<1>6. Collected'
  BY <1>1 DEF ViterbiEnd, IInv, Collected
<1>7. Tiles(res', 0, Front')
  BY DEF ViterbiEnd, IInv, Front
<1>. QED
  BY <1>3, <1>5, <1>6, <1>7, RulesSame DEF ViterbiEnd, IInv, ViterbiInv

\* One iteration of InternalCut.
LEMMA InternalCutIInv == ASSUME IInv, InternalCut PROVE IInv'
<1>1. n \in Nat /\ n' = n /\ \A k : Rune(k)' = Rune(k)
  BY TextLength, SameText DEF InternalCut, IInv, TypeOK
<1>2. /\ left \in 0..n /\ right \in left..n /\ left < right
      /\ i \in 0..right-left-1 /\ ileft \in left..left+i
      /\ Len(status) = right - left
      /\ status \in Seq(States) /\ status[i + 1] \in States
      /\ res \in Seq(Ranges(n))
  BY <1>1, SMTT(20) DEF InternalCut, IInv, TypeOK, InternalInv
<1>3. status[i + 1] % 2 = 1 <=> status[i + 1] \in Ending
  BY <1>2 DEF States, Ending
<1>4. ileft \in 0..n-1 /\ left + i \in ileft..n-1
  BY <1>1, <1>2
<1>5. Collected'
  BY <1>1 DEF InternalCut, IInv, Collected
<1>6. CASE status[i + 1] \in Ending
  <2>1. /\ res' = Append(res, WordRange(ileft, left + i))
        /\ ileft' = left + i + 1 /\ i' = i + 1
    BY <1>3, <1>6 DEF InternalCut
  <2>2. res' \in Seq(Ranges(n))
    BY <1>1, <1>2, <1>4, <2>1, RangesAppend
  <2>3. TypeOK'
    BY <1>1, <1>2, <2>1, <2>2 DEF InternalCut, IInv, TypeOK
  <2>4. Tiles(res', 0, left + i + 1)
    BY <1>1, <1>2, <1>4, <2>1, RangesInt, TilesAppend DEF InternalCut, IInv, Front
  <2>5. InternalInv'
    BY <1>2, <2>1 DEF InternalCut, IInv, InternalInv
  <2>6. Ruled(WordRange(ileft, left + i))
    <3>1. \A p \in ileft..left+i : Rune(p) \notin Ascii
      BY <1>2, <1>4 DEF IInv, Collected
    <3>2. ileft \in ileft..left+i
      BY <1>2
    <3>. QED
      BY <3>1, <3>2 DEF Ruled, WordRange, Ascii
  <2>7. AsciiRules'
    BY <1>2, <2>1, <2>6, RulesAppend DEF InternalCut, IInv
  <2>. QED
    BY <1>5, <2>1, <2>3, <2>4, <2>5, <2>7 DEF InternalCut, IInv, Front, ViterbiInv
<1>7. CASE status[i + 1] \notin Ending
  <2>1. UNCHANGED <<res, ileft>> /\ i' = i + 1
    BY <1>3, <1>7 DEF InternalCut
  <2>2. TypeOK'
    BY <1>1, <1>2, <2>1 DEF InternalCut, IInv, TypeOK
  <2>3. InternalInv'
    BY <1>2, <1>7, <2>1 DEF InternalCut, IInv, InternalInv
  <2>. QED
    BY <1>5, <2>1, <2>2, <2>3, RulesSame DEF InternalCut, IInv, Front, ViterbiInv
<1>. QED
  BY <1>6, <1>7

\* When InternalCut ends, its last word has ended.
LEMMA NothingOpen ==
  ASSUME IInv, pc = "internal", i = right - left PROVE ileft = right
BY DEF IInv, InternalInv, TypeOK

\* The return of InternalCut.
LEMMA ReturnInternalCutIInv == ASSUME IInv, ReturnInternalCut PROVE IInv'
<1>1. n \in Nat /\ n' = n /\ \A k : Rune(k)' = Rune(k)
  BY TextLength, SameText DEF ReturnInternalCut, IInv, TypeOK
<1>2. ileft = right
  BY NothingOpen DEF ReturnInternalCut
<1>3. TypeOK'
  BY <1>1 DEF ReturnInternalCut, IInv, TypeOK
<1>4. Collected'
  BY <1>1 DEF ReturnInternalCut, IInv, TypeOK, Collected
<1>5. Tiles(res', 0, Front')
  BY <1>2 DEF ReturnInternalCut, IInv, Front
<1>. QED
  BY <1>3, <1>4, <1>5, RulesSame DEF ReturnInternalCut, IInv, ViterbiInv, InternalInv

-----------------------------------------------------------------------------
\* The invariant is inductive.
LEMMA NextIInv == IInv /\ [Next]_vars => IInv'
<1>1. ASSUME IInv, UNCHANGED vars PROVE IInv'
  <2>1. n' = n /\ \A k : Rune(k)' = Rune(k)
    BY <1>1, SameText DEF vars
  <2>. QED
    BY <1>1, <2>1, RulesSame
       DEF vars, IInv, TypeOK, Front, Collected, ViterbiInv, InternalInv
<1>. QED
  BY <1>1, SkipRuneIInv, AsciiWordIInv, CallInternalCutIInv, ViterbiColumnIInv,
     ReadBackIInv, ViterbiEndIInv, InternalCutIInv, ReturnInternalCutIInv DEF Next

\* For every text and every model the iterators stay within the text and the
\* states within the model's tables, the path -1 of the first rune is never used.
THEOREM ProbabilityTypeCorrect == Spec => []TypeOK
<1>1. IInv => TypeOK
  BY DEF IInv
<1>. QED
  BY <1>1, InitIInv, NextIInv, PTL DEF Spec

\* For every text and every model, that of a missing file included, the words cut
\* the runes passed, and InternalCut leaves nothing over.
THEOREM ProbabilityCutTiles == Spec => []WordsTile
<1>1. IInv => WordsTile
  BY NothingOpen DEF IInv, WordsTile
<1>. QED
  BY <1>1, InitIInv, NextIInv, PTL DEF Spec

\* For every text and every model ASCII runes are cut by the rules and never mixed
\* with others.
THEOREM AsciiByRule == Spec => []AsciiRules
<1>1. IInv => AsciiRules
  BY DEF IInv
<1>. QED
  BY <1>1, InitIInv, NextIInv, PTL DEF Spec

-----------------------------------------------------------------------------
(* The promise to SentenceCut.                                             *)

\* A word behind the front is a step of WordCutter.
LEMMA WordStep ==
  ASSUME n \in Nat, n' = n, ~Done, NEW r \in Front..n-1,
         res' = Append(res, WordRange(Front, r)), Front' = r + 1, Done' => r + 1 = n
  PROVE  Cutter!CutWord
<1>1. Done' \in BOOLEAN
  BY DEF Done
<1>. QED
  BY <1>1 DEF Cutter!CutWord, Cutter!WordRange, WordRange

\* Each step of the cut is a step of WordCutter or changes nothing of it.
LEMMA StepCutsWord ==
  ASSUME IInv, [Next]_vars
  PROVE  [Cutter!CutWord \/ Cutter!Return]_<<n, res, Front, Done>>
<1>1. n \in Nat /\ n' = n /\ left \in 0..n /\ right \in left..n
  <2>1. runes' = runes
    BY DEF Next, vars, SkipRune, AsciiWord, CallInternalCut, ViterbiColumn, ReadBack,
           ViterbiEnd, InternalCut, ReturnInternalCut
  <2>. QED
    BY <2>1, TextLength DEF IInv, TypeOK, n
<1>2. ASSUME ~Done, ~Done', res' = res, Front' = Front
      PROVE  UNCHANGED <<n, res, Front, Done>>
  BY <1>1, <1>2 DEF Done
<1>3. CASE SkipRune
  BY <1>1, <1>2, <1>3 DEF SkipRune, Done, Front
<1>4. CASE AsciiWord
  <2>1. PICK e \in left+1..n : /\ res' = Append(res, WordRange(left, e - 1))
                              /\ left' = e
    BY <1>4 DEF AsciiWord
  <2>2. Front = left /\ Front' = e /\ ~Done /\ (Done' => e = n)
    BY <1>1, <1>4, <2>1 DEF AsciiWord, Front, Done, AtAscii
  <2>. QED
    BY <1>1, <2>1, <2>2, WordStep
<1>5. CASE CallInternalCut \/ ViterbiColumn \/ ReadBack \/ ViterbiEnd
  BY <1>1, <1>2, <1>5
     DEF CallInternalCut, ViterbiColumn, ReadBack, ViterbiEnd, Done, Front
<1>6. CASE InternalCut
  <2>1. ~Done /\ ~Done' /\ Front = ileft /\ Front' = ileft'
    BY <1>6 DEF InternalCut, Done, Front
  <2>2. ileft \in left..left+i /\ i \in 0..right-left-1
    BY <1>1, <1>6 DEF InternalCut, IInv, TypeOK
  <2>3. CASE UNCHANGED <<res, ileft>>
    BY <1>2, <2>1, <2>3
  <2>4. CASE /\ res' = Append(res, WordRange(ileft, left + i))
             /\ ileft' = left + i + 1
    <3>1. left + i \in ileft..n-1
      BY <1>1, <2>2
    <3>. QED
      BY <1>1, <2>1, <2>4, <3>1, WordStep
  <2>. QED
    BY <1>6, <2>3, <2>4 DEF InternalCut
<1>7. CASE ReturnInternalCut
  <2>0. /\ pc = "internal" /\ i = right - left
        /\ pc' = "cut" /\ left' = right /\ right' = right /\ res' = res
    BY <1>7 DEF ReturnInternalCut
  <2>1. ~Done /\ Front = right /\ Front' = right /\ res' = res /\ (Done' => right = n)
    <3>1. ileft = right
      BY <2>0, NothingOpen
    <3>2. Front = right /\ ~Done
      BY <2>0, <3>1 DEF Front, Done
    <3>3. Front' = right
      BY <2>0 DEF Front
    <3>4. Done' => right = n
      BY <1>1, <2>0 DEF Done
    <3>. QED
      BY <2>0, <3>2, <3>3, <3>4
  <2>2. CASE Done'
    <3>1. Done' = TRUE
      BY <2>2 DEF Done
    <3>. QED
      BY <1>1, <2>1, <2>2, <3>1 DEF Cutter!Return
  <2>3. CASE ~Done'
    BY <1>2, <2>1, <2>3
  <2>. QED
    BY <2>2, <2>3
<1>8. CASE UNCHANGED vars
  BY <1>1, <1>8 DEF vars, Done, Front
<1>. QED
  BY <1>3, <1>4, <1>5, <1>6, <1>7, <1>8 DEF Next

\* For every text and every model the cut by probability keeps the promise that
\* SentenceCut builds on.
THEOREM ProbabilityCutImplements == Spec => CutsWords
<1>1. Init => Cutter!Init
  <2>. SUFFICES ASSUME Init PROVE Cutter!Init
    OBVIOUS
  <2>1. n \in Nat
    BY TextLength DEF Init
  <2>2. Done \in BOOLEAN /\ (Done => n = 0) /\ Front = 0
    BY <2>1 DEF Init, Done, Front
  <2>. QED
    BY <2>1, <2>2 DEF Init, Cutter!Init
<1>. QED
  BY <1>1, InitIInv, NextIInv, StepCutsWord, PTL DEF Spec, CutsWords, Cutter!Spec

-----------------------------------------------------------------------------
(* Adding weights.                                                         *)

\* Multiplication keeps the order.
LEMMA TimesMonotone ==
  ASSUME NEW c \in Nat, NEW a \in Int, NEW b \in Int, a <= b
  PROVE  c * a <= c * b
<1>1. PICK d \in Nat : b = a + d
  BY b - a \in Nat, b = a + (b - a)
<1>2. c * d >= 0 /\ c * d \in Int
  OBVIOUS
<1>3. c * b = c * a + c * d
  BY <1>1
<1>. QED
  BY <1>2, <1>3

\* Rounding keeps the order, and what is not above MIN_DOUBLE stays so.
LEMMA PlusMonotone ==
  ASSUME NEW a \in Int, NEW b \in Int, NEW y \in Int, a <= b
  PROVE  /\ Plus(a, y) <= Plus(b, y)
         /\ y <= 0 /\ b <= MinDouble => Plus(b, y) <= MinDouble
<1>. DEFINE c == -2 * MinDouble
            times(x) == (-MinDouble - 2 * x) \div c
            round(x) == IF 2 * x > MinDouble THEN x ELSE times(x) * MinDouble
<1>1. Plus(a, y) = round(a + y) /\ Plus(b, y) = round(b + y)
  BY DEF Plus
<1>2. c \in Nat /\ c > 0 /\ MinDouble \in Int /\ MinDouble < 0 /\ -MinDouble \in Nat
  BY MinAssumption
<1>3. ASSUME NEW u \in Int PROVE u \div c \in Int /\ c * (u \div c) <= u /\ u < c * (u \div c) + c
  <2>. HIDE DEF c
  <2>. QED
    BY <1>2
<1>4. ASSUME NEW u \in Int, NEW v \in Int, u <= v PROVE u \div c <= v \div c
  <2>. DEFINE p == u \div c
              q == v \div c
  <2>1. p \in Int /\ q \in Int /\ c * p <= u /\ v < c * q + c
    BY <1>3
  <2>. HIDE DEF p, q
  <2>2. CASE q + 1 <= p
    <3>. HIDE DEF c
    <3>1. c * (q + 1) <= c * p
      BY <1>2, <2>1, <2>2, TimesMonotone
    <3>2. c * (q + 1) = c * q + c
      BY <1>2, <2>1
    <3>3. FALSE
      BY <1>2, <1>4, <2>1, <3>1, <3>2
    <3>. QED
      BY <3>3
  <2>. QED
    BY <2>1, <2>2 DEF p, q
<1>5. c \div c = 1
  <2>. HIDE DEF c
  <2>. QED
    BY <1>2
<1>6. ASSUME NEW u \in Int, 2 * u <= MinDouble
      PROVE  times(u) \in Int /\ times(u) >= 1 /\ round(u) <= MinDouble
  <2>1. -MinDouble - 2 * u \in Int /\ c <= -MinDouble - 2 * u
    BY <1>2, <1>6
  <2>2. times(u) \in Int /\ times(u) >= 1
    <3>. DEFINE w == -MinDouble - 2 * u
    <3>1. w \in Int /\ c \in Int /\ c <= w
      BY <1>2, <2>1
    <3>. HIDE DEF c, w
    <3>2. c \div c <= w \div c /\ w \div c \in Int
      BY <1>3, <1>4, <3>1
    <3>. QED
      BY <1>5, <3>2 DEF w
  <2>. DEFINE t == times(u)
  <2>3. t \in Int /\ t >= 1
    BY <2>2
  <2>4. round(u) = t * MinDouble
    BY <1>2, <1>6
  <2>. HIDE DEF t, round, times
  <2>5. (-MinDouble) * 1 <= (-MinDouble) * t
    BY <1>2, <2>3, TimesMonotone
  <2>6. (-MinDouble) * t = -(t * MinDouble)
    BY <1>2, <2>3
  <2>7. round(u) <= MinDouble
    BY <1>2, <2>3, <2>4, <2>5, <2>6
  <2>. QED
    BY <2>3, <2>7 DEF t
<1>7. ASSUME NEW u \in Int, NEW v \in Int, u <= v PROVE round(u) <= round(v)
  <2>1. CASE 2 * u > MinDouble
    BY <1>2, <1>7, <2>1
  <2>2. CASE 2 * u <= MinDouble /\ 2 * v > MinDouble
    <3>1. round(u) <= MinDouble /\ round(u) \in Int
      BY <1>2, <1>6, <2>2
    <3>2. round(v) = v
      BY <2>2
    <3>. HIDE DEF round
    <3>. QED
      BY <1>2, <2>2, <3>1, <3>2
  <2>3. CASE 2 * u <= MinDouble /\ 2 * v <= MinDouble
    <3>. DEFINE p == times(u)
                q == times(v)
    <3>1. q <= p
      <4>1. -MinDouble - 2 * v <= -MinDouble - 2 * u
        BY <1>2, <1>7
      <4>2. -MinDouble - 2 * v \in Int /\ -MinDouble - 2 * u \in Int
        BY <1>2
      <4>. HIDE DEF c
      <4>. QED
        BY <1>4, <4>1, <4>2
    <3>2. p \in Int /\ q \in Int
      BY <1>6, <2>3
    <3>3. round(u) = p * MinDouble /\ round(v) = q * MinDouble
      BY <2>3, <1>2
    <3>. HIDE DEF p, q, round
    <3>4. (-MinDouble) * q <= (-MinDouble) * p
      BY <1>2, <3>1, <3>2, TimesMonotone
    <3>5. (-MinDouble) * q = -(q * MinDouble) /\ (-MinDouble) * p = -(p * MinDouble)
      BY <1>2, <3>2
    <3>6. q * MinDouble \in Int /\ p * MinDouble \in Int
      BY <1>2, <3>2
    <3>. QED
      BY <3>3, <3>4, <3>5, <3>6
  <2>. QED
    BY <1>2, <2>1, <2>2, <2>3
<1>. HIDE DEF round
<1>8. round(a + y) <= round(b + y)
  BY <1>7
<1>9. ASSUME y <= 0, b <= MinDouble PROVE round(b + y) <= MinDouble
  <2>1. b + y \in Int /\ 2 * (b + y) <= MinDouble
    BY <1>2, <1>9
  <2>. QED
    BY <1>6, <2>1 DEF round
<1>. QED
  BY <1>1, <1>8, <1>9

-----------------------------------------------------------------------------
(* The tables and the states read back.                                    *)

\* The columns are filled in by the rules of Viterbi, each from the one before.
Filled ==
  /\ columns[1] = FirstColumn(Rune(left))
  /\ \A x \in 2..Len(columns) :
       columns[x] = Column(Weights(columns[x-1]), Rune(left + x - 1))

\* The states read back follow path from the better last state on.
Traced ==
  status # <<>> =>
    /\ Len(columns) = right - left
    /\ status[Len(status)] = LastState(columns[Len(columns)])
    /\ \A q \in 1..Len(status)-1 :
         status[q] = columns[Len(columns)-Len(status)+q+1][status[q+1]].path

TraceInv == IInv /\ (pc # "cut" => Filled /\ Traced)

\* Nothing is there at first.
LEMMA InitTrace == Init => TraceInv
BY InitIInv DEF Init, TraceInv

\* The tables depend on the model only.
LEMMA SameModel ==
  ASSUME UNCHANGED model
  PROVE  /\ \A r : FirstColumn(r)' = FirstColumn(r)
         /\ \A c, r : Column(Weights(c), r)' = Column(Weights(c), r)
<1>1. \A r : FirstColumn(r)' = FirstColumn(r)
  BY DEF FirstColumn, EmitProb
<1>2. \A c, r : Column(Weights(c), r)' = Column(Weights(c), r)
  BY DEF Column, Transition, EmitProb
<1>. QED
  BY <1>1, <1>2

\* Steps that leave the tables alone.
LEMMA TraceSame ==
  ASSUME TraceInv, UNCHANGED <<model, runes, left, right, columns, status>>, pc # "cut"
  PROVE  Filled' /\ Traced'
<1>1. \A k : Rune(k)' = Rune(k)
  BY SameText
<1>. QED
  BY <1>1, SameModel DEF TraceInv, Filled, Traced

\* The first column.
LEMMA CallInternalCutTrace == ASSUME TraceInv, CallInternalCut PROVE TraceInv'
<1>1. \A k : Rune(k)' = Rune(k)
  BY SameText DEF CallInternalCut
<1>2. \A r : FirstColumn(r)' = FirstColumn(r)
  BY SameModel DEF CallInternalCut
<1>. DEFINE first == FirstColumn(Rune(left))
<1>. HIDE DEF first
<1>3. columns' = <<first>> /\ Len(columns') = 1 /\ columns'[1] = first
  BY DEF CallInternalCut, first
<1>4. columns'[1] = FirstColumn(Rune(left))'
  BY <1>1, <1>2, <1>3 DEF CallInternalCut, first
<1>5. Filled' /\ Traced'
  BY <1>3, <1>4 DEF CallInternalCut, Filled, Traced
<1>. QED
  BY <1>5, CallInternalCutIInv DEF TraceInv

\* Another column.
LEMMA ViterbiColumnTrace == ASSUME TraceInv, ViterbiColumn PROVE TraceInv'
<1>. DEFINE N == Len(columns)
            next == Column(Weights(columns[N]), Rune(left + N))
<1>1. \A k : Rune(k)' = Rune(k)
  BY SameText DEF ViterbiColumn
<1>2. \A r : FirstColumn(r)' = FirstColumn(r)
  BY SameModel DEF ViterbiColumn
<1>3. \A c, r : Column(Weights(c), r)' = Column(Weights(c), r)
  BY SameModel DEF ViterbiColumn
<1>4. /\ N \in Nat /\ N >= 1 /\ N < right - left
      /\ status = <<>> /\ left \in Int
      /\ columns \in Seq(ColumnType)
  <2>1. /\ N \in 1..right-left /\ N < right - left
        /\ Len(status) <= right - left
        /\ status # <<>> => Len(columns) = right - left
    BY DEF ViterbiColumn, TraceInv, IInv, ViterbiInv
  <2>2. left \in Int /\ right \in Int /\ columns \in Seq(ColumnType)
    BY TextLength DEF TraceInv, IInv, TypeOK, ColumnType
  <2>. QED
    BY <2>1, <2>2
<1>. HIDE DEF next
<1>5. /\ columns' = Append(columns, next) /\ Len(columns') = N + 1
      /\ columns'[N+1] = next
      /\ \A k \in 1..N : columns'[k] = columns[k]
  BY <1>4 DEF ViterbiColumn, next
<1>6. columns'[1] = FirstColumn(Rune(left))'
  BY <1>1, <1>2, <1>4, <1>5 DEF ViterbiColumn, TraceInv, Filled
<1>7. ASSUME NEW x \in 2..Len(columns'), NEW c, c = columns'[x-1], NEW r, r = Rune(left + x - 1)'
      PROVE  columns'[x] = Column(Weights(c), r)'
  <2>1. CASE x = N + 1
    <3>1. x - 1 = N /\ left + x - 1 = left + N /\ columns'[x-1] = columns[N] /\ columns'[x] = next
      BY <1>4, <1>5, <2>1
    <3>2. Rune(left + x - 1)' = Rune(left + N)
      BY <1>1, <3>1 DEF ViterbiColumn
    <3>. QED
      BY <1>3, <1>7, <3>1, <3>2 DEF next
  <2>2. CASE x \in 2..N
    <3>1. columns'[x] = columns[x] /\ columns'[x-1] = columns[x-1]
      BY <1>4, <1>5, <2>2
    <3>2. columns[x] = Column(Weights(columns[x-1]), Rune(left + x - 1))
      BY <2>2 DEF ViterbiColumn, TraceInv, Filled
    <3>3. Rune(left + x - 1)' = Rune(left + x - 1)
      BY <1>1 DEF ViterbiColumn
    <3>. QED
      BY <1>3, <1>7, <3>1, <3>2, <3>3
  <2>. QED
    BY <1>4, <1>5, <2>1, <2>2
<1>8. Filled'
  BY <1>6, <1>7 DEF Filled
<1>9. Traced'
  BY <1>4 DEF ViterbiColumn, Traced
<1>. QED
  BY <1>8, <1>9, ViterbiColumnIInv DEF TraceInv

\* Another state.
LEMMA ReadBackTrace == ASSUME TraceInv, ReadBack PROVE TraceInv'
<1>1. \A k : Rune(k)' = Rune(k)
  BY SameText DEF ReadBack
<1>2. \A r : FirstColumn(r)' = FirstColumn(r)
  BY SameModel DEF ReadBack
<1>3. \A c, r : Column(Weights(c), r)' = Column(Weights(c), r)
  BY SameModel DEF ReadBack
<1>4. Filled'
  BY <1>1, <1>2, <1>3 DEF ReadBack, TraceInv, Filled
<1>. DEFINE stat == Stat
            L == Len(status)
            N == Len(columns)
<1>5. L \in Nat /\ N \in Nat /\ N = right - left /\ L < N /\ status \in Seq(States)
  BY DEF ReadBack, TraceInv, IInv, ViterbiInv, TypeOK
<1>6. stat = IF status = <<>> THEN LastState(columns[N]) ELSE columns[N - L + 1][status[1]].path
  BY <1>5 DEF Stat
<1>. HIDE DEF stat
<1>7. /\ status' = <<stat>> \o status
      /\ Len(status') = L + 1
      /\ status'[1] = stat
      /\ \A q \in 1..L : status'[q+1] = status[q]
      /\ status = <<>> <=> L = 0
  BY <1>5 DEF ReadBack, stat
<1>8. N' = N /\ left' = left /\ right' = right /\ columns' = columns
  BY DEF ReadBack
<1>. HIDE DEF L, N
<1>9. status'[L+1] = LastState(columns[N])
  <2>1. CASE L = 0
    BY <1>6, <1>7, <2>1
  <2>2. CASE L # 0
    <3>1. L \in 1..L /\ status # <<>>
      BY <1>5, <1>7, <2>2
    <3>. QED
      BY <1>7, <3>1 DEF ReadBack, TraceInv, Traced, L, N
  <2>. QED
    BY <2>1, <2>2
<1>10. ASSUME NEW q \in 1..(L+1)-1 PROVE status'[q] = columns[N-(L+1)+q+1][status'[q+1]].path
  <2>1. q \in 1..L /\ status # <<>>
    BY <1>5, <1>7
  <2>2. status'[q+1] = status[q]
    BY <1>7, <2>1
  <2>3. CASE q = 1
    <3>1. N - (L + 1) + q + 1 = N - L + 1
      BY <1>5, <2>3
    <3>. QED
      BY <1>6, <1>7, <2>1, <2>2, <2>3, <3>1
  <2>4. CASE q # 1
    <3>. DEFINE p == q - 1
    <3>1. p \in 1..L-1 /\ p + 1 = q /\ p \in 1..L /\ N - (L + 1) + q + 1 = N - L + p + 1
      BY <1>5, <2>1, <2>4
    <3>. HIDE DEF p
    <3>2. status[p] = columns[N-L+p+1][status[p+1]].path
      BY <2>1, <3>1 DEF ReadBack, TraceInv, Traced, L, N
    <3>3. status'[p+1] = status[p]
      BY <1>7, <3>1
    <3>. QED
      BY <2>2, <3>1, <3>2, <3>3
  <2>. QED
    BY <2>3, <2>4
<1>11. Traced'
  BY <1>5, <1>7, <1>8, <1>9, <1>10 DEF Traced, N
<1>. QED
  BY <1>4, <1>11, ReadBackIInv DEF TraceInv

\* No step spoils the tables.
LEMMA StepTrace == ASSUME TraceInv, [Next]_vars PROVE TraceInv'
<1>1. IInv'
  BY NextIInv DEF TraceInv
<1>2. CASE SkipRune
  BY <1>1, <1>2 DEF SkipRune, TraceInv
<1>3. CASE AsciiWord
  BY <1>1, <1>3 DEF AsciiWord, TraceInv
<1>4. CASE ViterbiEnd
  BY <1>1, <1>4, TraceSame DEF ViterbiEnd, TraceInv
<1>5. CASE InternalCut
  BY <1>1, <1>5, TraceSame DEF InternalCut, TraceInv
<1>6. CASE ReturnInternalCut
  BY <1>1, <1>6 DEF ReturnInternalCut, TraceInv
<1>7. CASE UNCHANGED vars
  BY <1>1, <1>7, TraceSame DEF vars, TraceInv
<1>. QED
  BY <1>2, <1>3, <1>4, <1>5, <1>6, <1>7, CallInternalCutTrace, ViterbiColumnTrace, ReadBackTrace DEF Next

-----------------------------------------------------------------------------
(* The most probable path.                                                 *)

\* a state for every rune of left..right-1
Path(p) == \A x \in 1..right-left : p[x] \in States

\* The weight of a path is what its recursion says.
LEMMA PathWeightDef ==
  ASSUME TypeOK, left < right, NEW p, Path(p)
  PROVE  \E w \in [1..right-left -> Int] :
           /\ PathWeight(p) = w[right-left]
           /\ w[1] = Plus(model.startProb[p[1]], EmitProb(p[1], Rune(left)))
           /\ \A x \in 2..right-left :
                w[x] = Plus(Plus(w[x-1], model.transProb[p[x-1]][p[x]]),
                            EmitProb(p[x], Rune(left + x - 1)))
<1>. DEFINE N == right - left
            first == Plus(model.startProb[p[1]], EmitProb(p[1], Rune(left)))
            step(v, x) == Plus(Plus(v, model.transProb[p[x-1]][p[x]]),
                               EmitProb(p[x], Rune(left + x - 1)))
            On(g, x) == IF x = 1 THEN first ELSE step(g[x-1], x)
            G(g) == [x \in 1..N |-> On(g, x)]
            sum == CHOOSE g : g = G(g)
            H == [x \in 0..N |-> [g \in [0..x-1 -> Int] |-> IF x = 0 THEN 0 ELSE On(g, x)]]
<1>1. PathWeight(p) = sum[N]
  BY DEF PathWeight
<1>. HIDE DEF sum
<1>2. N \in Nat /\ N >= 1
  BY TextLength DEF TypeOK
<1>3. first \in Int /\ \A x \in 2..N : \A v \in Int : step(v, x) \in Int
  <2>1. p[1] \in States
    BY <1>2 DEF Path
  <2>2. ASSUME NEW x \in 2..N, NEW v \in Int PROVE step(v, x) \in Int
    <3>1. p[x] \in States /\ p[x-1] \in States
      BY <1>2 DEF Path
    <3>. QED
      BY <3>1, ModelType, PlusType
  <2>. QED
    BY <2>1, <2>2, ModelType, PlusType
<1>. HIDE DEF N, first, step
<1>4. Course(N, Int, H)
  <2>1. ASSUME NEW x \in 0..N, NEW g \in [0..x-1 -> Int] PROVE H[x][g] \in Int
    <3>1. H[x][g] = IF x = 0 THEN 0 ELSE On(g, x)
      <4>. HIDE DEF On
      <4>. QED
        OBVIOUS
    <3>2. CASE x \in 2..N
      <4>1. g[x-1] \in Int
        BY <1>2, <3>2
      <4>. QED
        BY <1>3, <3>1, <3>2, <4>1
    <3>. HIDE DEF H
    <3>. QED
      BY <1>2, <1>3, <3>1, <3>2
  <2>. HIDE DEF H
  <2>. QED
    BY <1>2, <2>1 DEF Course
<1>5. PICK f \in [0..N -> Int] : Follows(f, N, H)
  <2>. HIDE DEF H
  <2>. QED
    BY <1>4, CourseExists
<1>. DEFINE h == [x \in 1..N |-> f[x]]
<1>6. h = G(h)
  <2>1. ASSUME NEW x \in 1..N PROVE h[x] = On(h, x)
    <3>. DEFINE g == [j \in 0..x-1 |-> f[j]]
    <3>1. g \in [0..x-1 -> Int] /\ x \in 0..N /\ x # 0
      BY <1>2
    <3>2. f[x] = H[x][g]
      BY <1>5, <3>1 DEF Follows
    <3>3. x # 1 => g[x-1] = h[x-1]
      BY <1>2
    <3>4. H[x][g] = On(g, x)
      <4>. HIDE DEF g, On
      <4>. QED
        BY <3>1
    <3>5. On(g, x) = On(h, x)
      <4>. HIDE DEF g, h
      <4>. QED
        BY <3>3
    <3>. QED
      BY <3>2, <3>4, <3>5
  <2>. HIDE DEF On
  <2>. QED
    BY <2>1
<1>7. sum = G(sum)
  <2>. HIDE DEF h, G
  <2>. QED
    BY <1>6 DEF sum
<1>8. sum[1] = first /\ \A x \in 2..N : sum[x] = step(sum[x-1], x)
  BY <1>2, <1>7
<1>9. \A x \in 1..N : sum[x] \in Int
  <2>. DEFINE P(m) == m + 1 <= N => sum[m+1] \in Int
              T == {m \in Nat : P(m)}
  <2>1. P(0)
    BY <1>3, <1>8
  <2>2. ASSUME NEW m \in Nat, P(m) PROVE P(m + 1)
    <3>. SUFFICES ASSUME m + 2 <= N PROVE sum[m+2] \in Int
      OBVIOUS
    <3>1. m + 2 \in 2..N /\ (m + 2) - 1 = m + 1 /\ sum[m+1] \in Int
      BY <1>2, <2>2
    <3>. QED
      BY <1>3, <1>8, <3>1
  <2>3. T = Nat
    <3>. HIDE DEF P
    <3>1. T \in SUBSET Nat /\ 0 \in T /\ \A m \in T : m + 1 \in T
      BY <2>1, <2>2
    <3>. QED
      BY <3>1, Induction
  <2>4. ASSUME NEW x \in 1..N PROVE sum[x] \in Int
    <3>1. x - 1 \in Nat /\ (x - 1) + 1 = x /\ x <= N
      BY <1>2
    <3>2. P(x - 1)
      <4>. HIDE DEF P
      <4>. QED
        BY <2>3, <3>1
    <3>. QED
      BY <3>1, <3>2
  <2>. QED
    BY <2>4
<1>10. sum \in [1..N -> Int]
  <2>1. sum = [x \in 1..N |-> sum[x]]
    <3>1. sum = [x \in 1..N |-> On(sum, x)] /\ \A x \in 1..N : sum[x] = On(sum, x)
      BY <1>7
    <3>. HIDE DEF On, G
    <3>. QED
      BY <3>1
  <2>. QED
    BY <1>9, <2>1
<1>. HIDE DEF G, H, On
<1>. QED
  BY <1>1, <1>8, <1>10 DEF N, first, step

\* One of the states has the greatest weight.
LEMMA GreatestState ==
  ASSUME NEW f \in [States -> Int]
  PROVE  \E p \in States : \A q \in States : f[p] >= f[q]
<1>1. States = {0, 1, 2, 3}
  BY DEF States
<1>2. \E p \in {0, 1} : f[p] >= f[0] /\ f[p] >= f[1]
  BY <1>1
<1>3. \E p \in {2, 3} : f[p] >= f[2] /\ f[p] >= f[3]
  BY <1>1
<1>. QED
  BY <1>1, <1>2, <1>3

\* A weight in the tables is not less than that of any state before, and unless
\* it is MIN_DOUBLE it is that of the state path names.
LEMMA ColumnBest ==
  ASSUME TypeOK, NEW weight \in [States -> Int], NEW r, NEW y \in States
  PROVE  LET c == Column(weight, r)[y] IN
           /\ \A q \in States : c.weight >= Transition(weight, q, y, r)
           /\ c.weight > MinDouble => c.weight = Transition(weight, c.path, y, r)
<1>. DEFINE tmp(p) == Transition(weight, p, y, r)
            best == {p \in States : tmp(p) > MinDouble
                                      /\ \A q \in States : tmp(p) >= tmp(q)}
            least == CHOOSE p \in best : \A q \in best : p <= q
            c == Column(weight, r)[y]
<1>1. c = IF best = {} THEN [weight |-> MinDouble, path |-> E]
          ELSE [weight |-> tmp(least), path |-> least]
  BY DEF Column
<1>2. \A p \in States : tmp(p) \in Int
  BY ModelType, PlusType DEF Transition
<1>3. MinDouble \in Int
  BY MinAssumption
<1>. HIDE DEF c, tmp
<1>4. CASE best = {}
  <2>1. c = [weight |-> MinDouble, path |-> E]
    BY <1>1, <1>4
  <2>2. PICK p \in States : \A q \in States : tmp(p) >= tmp(q)
    <3>. DEFINE f == [p \in States |-> tmp(p)]
    <3>1. f \in [States -> Int]
      BY <1>2
    <3>2. \E p \in States : \A q \in States : f[p] >= f[q]
      <4>. HIDE DEF f
      <4>. QED
        BY <3>1, GreatestState
    <3>. QED
      BY <3>2
  <2>3. tmp(p) <= MinDouble
    BY <1>2, <1>3, <1>4, <2>2
  <2>4. \A q \in States : MinDouble >= tmp(q)
    BY <1>2, <1>3, <2>2, <2>3
  <2>. QED
    BY <1>3, <2>1, <2>4 DEF c, tmp
<1>5. CASE best # {}
  <2>1. best \in SUBSET States
    OBVIOUS
  <2>2. least \in best
    <3>. HIDE DEF best
    <3>. QED
      BY <1>5, <2>1, LeastMember
  <2>. HIDE DEF least
  <2>3. c = [weight |-> tmp(least), path |-> least]
    BY <1>1, <1>5
  <2>4. \A q \in States : tmp(least) >= tmp(q)
    BY <2>2
  <2>. QED
    BY <2>3, <2>4 DEF c, tmp
<1>. QED
  BY <1>4, <1>5

\* The tables hold weights.
LEMMA TablesInt ==
  ASSUME TypeOK, NEW x \in 1..Len(columns)
  PROVE  /\ Weights(columns[x]) \in [States -> Int]
         /\ \A y \in States : /\ columns[x][y].weight \in Int
                              /\ Weights(columns[x])[y] = columns[x][y].weight
<1>1. columns[x] \in ColumnType
  BY DEF TypeOK, ColumnType
<1>2. \A y \in States : columns[x][y].weight \in Int
  BY <1>1 DEF ColumnType
<1>. QED
  BY <1>2 DEF Weights

\* No path is better than the tables say of its last state.
LEMMA NonePathBetter ==
  ASSUME TypeOK, Filled, left < right, Len(columns) = right - left, NEW p, Path(p)
  PROVE  /\ PathWeight(p) \in Int
         /\ PathWeight(p) <= columns[right-left][p[right-left]].weight
<1>. DEFINE N == right - left
<1>1. N \in Nat /\ N >= 1 /\ left \in Int
  BY TextLength DEF TypeOK
<1>2. PICK w \in [1..N -> Int] :
         /\ PathWeight(p) = w[N]
         /\ w[1] = Plus(model.startProb[p[1]], EmitProb(p[1], Rune(left)))
         /\ \A x \in 2..N :
              w[x] = Plus(Plus(w[x-1], model.transProb[p[x-1]][p[x]]),
                          EmitProb(p[x], Rune(left + x - 1)))
  BY PathWeightDef
<1>3. Len(columns) = N /\ \A x \in 1..N : p[x] \in States
  BY DEF Path
<1>. HIDE DEF N
<1>. DEFINE P(m) == m + 1 <= N => w[m+1] <= columns[m+1][p[m+1]].weight
            T == {m \in Nat : P(m)}
<1>4. P(0)
  <2>1. p[1] \in States
    BY <1>1, <1>3
  <2>2. columns[1][p[1]].weight = w[1]
    BY <1>2, <2>1 DEF Filled, FirstColumn
  <2>3. w[1] \in Int
    BY <1>1
  <2>. QED
    BY <2>2, <2>3
<1>5. ASSUME NEW m \in Nat, P(m) PROVE P(m + 1)
  <2>. SUFFICES ASSUME m + 2 <= N PROVE w[m+2] <= columns[m+2][p[m+2]].weight
    OBVIOUS
  <2>. DEFINE x == m + 2
  <2>1. x \in 2..N /\ x \in 1..N /\ x - 1 \in 1..N /\ x - 1 = m + 1 /\ x - 1 \in 1..Len(columns)
    BY <1>1, <1>3
  <2>2. w[x-1] <= columns[x-1][p[x-1]].weight
    BY <1>5, <2>1
  <2>. HIDE DEF x, P
  <2>. DEFINE y == p[x]
              q == p[x-1]
              r == Rune(left + x - 1)
              weight == Weights(columns[x-1])
              v == columns[x-1][q].weight
  <2>3. y \in States /\ q \in States
    BY <1>3, <2>1
  <2>4. w[x] = Plus(Plus(w[x-1], model.transProb[q][y]), EmitProb(y, r))
    BY <1>2, <2>1
  <2>5. columns[x] = Column(weight, r)
    BY <1>3, <2>1 DEF Filled
  <2>6. weight \in [States -> Int] /\ v \in Int /\ weight[q] = v /\ w[x-1] \in Int
    BY <1>2, <2>1, <2>3, TablesInt
  <2>7. model.transProb[q][y] \in Int /\ EmitProb(y, r) \in Int
    BY <2>3, ModelType
  <2>. HIDE DEF y, q, r, weight, v
  <2>8. columns[x][y].weight >= Plus(Plus(v, model.transProb[q][y]), EmitProb(y, r))
    BY <2>3, <2>5, <2>6, ColumnBest DEF Transition
  <2>9. /\ Plus(w[x-1], model.transProb[q][y]) <= Plus(v, model.transProb[q][y])
        /\ Plus(w[x-1], model.transProb[q][y]) \in Int /\ Plus(v, model.transProb[q][y]) \in Int
    BY <2>2, <2>6, <2>7, PlusType, PlusMonotone DEF v, q
  <2>10. w[x] <= Plus(Plus(v, model.transProb[q][y]), EmitProb(y, r))
    BY <2>4, <2>7, <2>9, PlusMonotone
  <2>11. columns[x][y].weight \in Int /\ w[x] \in Int /\ Plus(Plus(v, model.transProb[q][y]), EmitProb(y, r)) \in Int
    BY <1>2, <1>3, <2>1, <2>3, <2>7, <2>9, TablesInt, PlusType
  <2>12. w[x] <= columns[x][y].weight
    BY <2>8, <2>10, <2>11
  <2>. QED
    BY <2>12 DEF x, y
<1>6. P(N - 1)
  <2>. HIDE DEF P
  <2>1. T \in SUBSET Nat /\ 0 \in T /\ \A m \in T : m + 1 \in T
    BY <1>4, <1>5
  <2>2. T = Nat
    BY <2>1, Induction
  <2>3. N - 1 \in Nat
    BY <1>1
  <2>. QED
    BY <2>2, <2>3
<1>7. (N - 1) + 1 = N
  BY <1>1
<1>8. w[N] \in Int /\ w[N] <= columns[N][p[N]].weight
  BY <1>1, <1>2, <1>6, <1>7
<1>. QED
  BY <1>2, <1>8 DEF N

\* The states read back are as good as the tables say, unless these say MIN_DOUBLE.
LEMMA ReadPath ==
  ASSUME Logarithms, TypeOK, Filled, Traced, left < right,
         Len(columns) = right - left, Len(status) = right - left,
         columns[right-left][status[right-left]].weight > MinDouble
  PROVE  PathWeight(status) = columns[right-left][status[right-left]].weight
<1>. DEFINE N == right - left
            s == status
<1>1. N \in Nat /\ N >= 1 /\ left \in Int /\ MinDouble \in Int
  BY TextLength, MinAssumption DEF TypeOK
<1>2. Len(columns) = N /\ Len(status) = N /\ \A x \in 1..N : s[x] \in States
  BY DEF TypeOK
<1>3. PICK w \in [1..N -> Int] :
         /\ PathWeight(s) = w[N]
         /\ w[1] = Plus(model.startProb[s[1]], EmitProb(s[1], Rune(left)))
         /\ \A x \in 2..N :
              w[x] = Plus(Plus(w[x-1], model.transProb[s[x-1]][s[x]]),
                          EmitProb(s[x], Rune(left + x - 1)))
  BY <1>2, PathWeightDef DEF Path
<1>. DEFINE c(x) == columns[x][s[x]].weight
<1>4. \A x \in 1..N : c(x) \in Int
  BY <1>2, TablesInt
<1>5. \A x \in 2..N : s[x-1] = columns[x][s[x]].path
  <2>. SUFFICES ASSUME NEW x \in 2..N PROVE s[x-1] = columns[x][s[x]].path
    OBVIOUS
  <2>. DEFINE q == x - 1
  <2>1. q \in 1..N-1 /\ q + 1 = x /\ N - N + q + 1 = x /\ s # <<>>
    BY <1>1, <1>2
  <2>. HIDE DEF q, N
  <2>2. s[q] = columns[N-N+q+1][s[q+1]].path
    BY <1>2, <2>1 DEF Traced
  <2>. QED
    BY <2>1, <2>2 DEF q
<1>6. c(N) > MinDouble
  OBVIOUS
<1>. HIDE DEF N
<1>7. ASSUME NEW x \in 2..N, c(x) > MinDouble
      PROVE  /\ c(x-1) > MinDouble
             /\ c(x) = Plus(Plus(c(x-1), model.transProb[s[x-1]][s[x]]),
                            EmitProb(s[x], Rune(left + x - 1)))
  <2>. DEFINE y == s[x]
              q == s[x-1]
              r == Rune(left + x - 1)
              weight == Weights(columns[x-1])
              v == columns[x-1][q].weight
  <2>1. x \in 1..N /\ x - 1 \in 1..N
    BY <1>1
  <2>2. y \in States /\ q \in States /\ q = columns[x][y].path
    BY <1>2, <1>5, <2>1
  <2>3. columns[x] = Column(weight, r)
    BY <1>2 DEF Filled
  <2>4. weight \in [States -> Int] /\ v \in Int /\ weight[q] = v
    BY <1>2, <2>1, <2>2, TablesInt
  <2>5. columns[x][y].weight > MinDouble
    BY <1>7
  <2>6. model.transProb[q][y] \in Int /\ EmitProb(y, r) \in Int
    BY <2>2, ModelType
  <2>7. model.transProb[q][y] <= 0 /\ EmitProb(y, r) <= 0
    BY <2>2, MinAssumption, SMTT(20) DEF Logarithms, TypeOK, EmitProb
  <2>. HIDE DEF y, q, r, weight, v
  <2>8. columns[x][y].weight = Plus(Plus(v, model.transProb[q][y]), EmitProb(y, r))
    BY <2>2, <2>3, <2>4, <2>5, ColumnBest DEF Transition
  <2>9. v > MinDouble
    <3>. SUFFICES ASSUME v <= MinDouble PROVE FALSE
      BY <1>1, <2>4
    <3>. DEFINE u == Plus(v, model.transProb[q][y])
    <3>1. u \in Int
      BY <2>4, <2>6, PlusType
    <3>2. u <= MinDouble
      BY <2>4, <2>6, <2>7, PlusMonotone
    <3>. HIDE DEF u
    <3>3. Plus(u, EmitProb(y, r)) <= MinDouble /\ Plus(u, EmitProb(y, r)) \in Int
      BY <2>6, <2>7, <3>1, <3>2, PlusMonotone, PlusType
    <3>. QED
      BY <1>1, <2>5, <2>8, <3>3 DEF u
  <2>. QED
    BY <2>8, <2>9 DEF y, q, r, v
<1>. HIDE DEF c
<1>8. \A x \in 1..N : c(x) > MinDouble
  <2>. DEFINE P(m) == m + 1 <= N => c(N - m) > MinDouble
              T == {m \in Nat : P(m)}
  <2>1. P(0)
    BY <1>1, <1>6
  <2>2. ASSUME NEW m \in Nat, P(m) PROVE P(m + 1)
    <3>. SUFFICES ASSUME m + 2 <= N PROVE c(N - (m + 1)) > MinDouble
      OBVIOUS
    <3>1. N - m \in 2..N /\ (N - m) - 1 = N - (m + 1) /\ c(N - m) > MinDouble
      BY <1>1, <2>2
    <3>. QED
      BY <1>7, <3>1
  <2>3. T = Nat
    <3>. HIDE DEF P
    <3>1. T \in SUBSET Nat /\ 0 \in T /\ \A m \in T : m + 1 \in T
      BY <2>1, <2>2
    <3>. QED
      BY <3>1, Induction
  <2>4. ASSUME NEW x \in 1..N PROVE c(x) > MinDouble
    <3>1. N - x \in Nat /\ (N - x) + 1 <= N /\ N - (N - x) = x
      BY <1>1
    <3>2. P(N - x)
      <4>. HIDE DEF P
      <4>. QED
        BY <2>3, <3>1
    <3>. QED
      BY <3>1, <3>2
  <2>. QED
    BY <2>4
<1>9. c(N) = w[N]
  <2>. DEFINE P(m) == m + 1 <= N => c(m + 1) = w[m + 1]
              T == {m \in Nat : P(m)}
  <2>1. P(0)
    <3>1. s[1] \in States
      BY <1>1, <1>2
    <3>2. c(1) = w[1]
      BY <1>3, <3>1 DEF Filled, FirstColumn, c
    <3>. QED
      BY <3>2
  <2>2. ASSUME NEW m \in Nat, P(m) PROVE P(m + 1)
    <3>. SUFFICES ASSUME m + 2 <= N PROVE c(m + 2) = w[m + 2]
      OBVIOUS
    <3>. DEFINE x == m + 2
    <3>1. x \in 2..N /\ x \in 1..N /\ x - 1 = m + 1 /\ c(x-1) = w[x-1]
      BY <1>1, <2>2
    <3>. HIDE DEF x
    <3>2. c(x) = w[x]
      BY <1>3, <1>7, <1>8, <3>1
    <3>. QED
      BY <3>2 DEF x
  <2>3. T = Nat
    <3>. HIDE DEF P
    <3>1. T \in SUBSET Nat /\ 0 \in T /\ \A m \in T : m + 1 \in T
      BY <2>1, <2>2
    <3>. QED
      BY <3>1, Induction
  <2>4. N - 1 \in Nat /\ (N - 1) + 1 = N
    BY <1>1
  <2>5. P(N - 1)
    <3>. HIDE DEF P
    <3>. QED
      BY <2>3, <2>4
  <2>. QED
    BY <2>4, <2>5
<1>. QED
  BY <1>3, <1>9 DEF c, N

\* MostProbable: whatever the text and the model, Viterbi finds a most probable
\* sequence of states, provided that the model's numbers are logarithms.
THEOREM ViterbiIsBest == ASSUME Logarithms PROVE Spec => []MostProbable
<1>1. ASSUME TraceInv PROVE MostProbable
  <2>. DEFINE N == right - left
  <2>. SUFFICES ASSUME pc = "internal",
                       NEW p \in [1..N -> States], p[N] \in {E, S}, PathWeight(p) > MinDouble
                PROVE  PathWeight(status) >= PathWeight(p)
    BY DEF MostProbable
  <2>1. TypeOK /\ Filled /\ Traced /\ left < right /\ Len(status) = N
    BY <1>1 DEF TraceInv, IInv, InternalInv
  <2>2. N \in Nat /\ N >= 1 /\ MinDouble \in Int
    BY <2>1, TextLength, MinAssumption DEF TypeOK
  <2>3. Len(columns) = N /\ status[N] = LastState(columns[N])
    <3>1. status # <<>>
      BY <2>1, <2>2
    <3>. QED
      BY <2>1, <3>1 DEF Traced
  <2>4. Path(p)
    BY DEF Path
  <2>5. PathWeight(p) \in Int /\ PathWeight(p) <= columns[N][p[N]].weight
    BY <2>1, <2>3, <2>4, NonePathBetter
  <2>6. E \in States /\ S \in States /\ N \in 1..Len(columns)
    BY <2>2, <2>3 DEF E, S, States
  <2>7. columns[N][E].weight \in Int /\ columns[N][S].weight \in Int
    BY <2>1, <2>6, TablesInt
  <2>8. columns[N][p[N]].weight <= columns[N][status[N]].weight /\ columns[N][status[N]].weight \in Int
    <3>. HIDE DEF N
    <3>. QED
      BY <2>3, <2>7 DEF LastState
  <2>9. columns[N][p[N]].weight \in Int
    <3>. HIDE DEF N
    <3>. QED
      BY <2>7
  <2>10. columns[N][status[N]].weight > MinDouble
    <3>. HIDE DEF N
    <3>. QED
      BY <2>2, <2>5, <2>8, <2>9
  <2>11. PathWeight(status) = columns[N][status[N]].weight
    BY <2>1, <2>3, <2>10, ReadPath
  <2>. QED
    BY <2>5, <2>8, <2>9, <2>11
<1>. QED
  BY <1>1, InitTrace, StepTrace, PTL DEF Spec
=============================================================================
