----------------------------- MODULE HMMSegment -----------------------------
(***************************************************************************)
(* The cut of runes the dictionary does not know, HMMSegment::Cut of       *)
(* jiaba/HMMSegment.hpp: runs of ASCII runes are split by rule, the runes  *)
(* between them by the most probable sequence of the states B, E, M and S  *)
(* (begin, end, middle of a word, single rune).  Each iteration of the     *)
(* loops of Cut, Viterbi and InternalCut is an action.                     *)
(*                                                                         *)
(* The logarithm of a probability is an integer here.  MIN_DOUBLE stands   *)
(* for impossible and is so large that a sum of doubles keeps multiples of *)
(* it only: Plus rounds likewise.                                          *)
(***************************************************************************)
EXTENDS Tiling

CONSTANTS
  Letters, Digits, Point, OtherAscii,   \* kinds of runes below 0x80
  Texts,                                \* the stretches of runes to cut
  Models,                               \* HMMModels
  MinDouble                             \* MIN_DOUBLE

Ascii == Letters \cup Digits \cup {Point} \cup OtherAscii

B == 0
E == 1
M == 2
S == 3
States == 0..3

ASSUME TextAssumption == \A t \in Texts : t \in Seq(STRING)

ASSUME ModelAssumption == \A m \in Models :
  /\ m.startProb \in [States -> Int]
  /\ m.transProb \in [States -> [States -> Int]]
  /\ \A r \in DOMAIN m.emitProb : m.emitProb[r] \in [States -> Int]

ASSUME MinAssumption == MinDouble \in Int /\ MinDouble < 0

\* what a model file holds are logarithms of probabilities
Logarithms == \A m \in Models :
  /\ \A y, z \in States : m.transProb[y][z] <= 0
  /\ \A r \in DOMAIN m.emitProb : \A y \in States : m.emitProb[r][y] <= 0

VARIABLES
  model,         \* model_
  runes,         \* [begin, end)
  left, right,   \* the iterators of Cut
  pc,            \* "cut"; in InternalCut(left, right): "viterbi" or "internal"
  columns,       \* weight and path of Viterbi, per rune from left on
  status,        \* the states of the runes up to right-1, as far as read back
  i,             \* the index of InternalCut's loop
  ileft,         \* the iterator left of InternalCut
  res            \* the words

vars == <<model, runes, left, right, pc, columns, status, i, ileft, res>>

n == Len(runes)
Rune(k) == runes[k + 1]

-----------------------------------------------------------------------------
(* Viterbi.                                                                *)

Plus(x, y) ==
  LET sum   == x + y
      times == (-MinDouble - 2 * sum) \div (-2 * MinDouble)
  IN  IF 2 * sum > MinDouble THEN sum ELSE times * MinDouble

\* GetEmitProb with MIN_DOUBLE for a rune the model does not know
EmitProb(y, r) ==
  IF r \in DOMAIN model.emitProb THEN model.emitProb[r][y] ELSE MinDouble

\* Faulty: the transition is looked up the wrong way round.
TransitionSwapped(weight, preY, y, r) ==
  Plus(Plus(weight[preY], model.transProb[y][preY]), EmitProb(y, r))

\* tmp: state y after state preY
Transition(weight, preY, y, r) ==
  Plus(Plus(weight[preY], model.transProb[preY][y]), EmitProb(y, r))

\* weight and path of one rune, given the weights of the rune before it
Column(weight, r) ==
  [y \in States |->
     LET tmp(preY) == Transition(weight, preY, y, r)
         best == {p \in States : tmp(p) > MinDouble
                                   /\ \A q \in States : tmp(p) >= tmp(q)}
     IN  IF best = {} THEN [weight |-> MinDouble, path |-> E]
         ELSE LET p == CHOOSE p \in best : \A q \in best : p <= q
              IN  [weight |-> tmp(p), path |-> p]]

\* the column of the first rune
FirstColumn(r) ==
  [y \in States |-> [weight |-> Plus(model.startProb[y], EmitProb(y, r)), path |-> -1]]

Weights(column) == [y \in States |-> column[y].weight]

\* a word ends with the last rune: state E or S
LastState(column) == IF column[E].weight >= column[S].weight THEN E ELSE S

-----------------------------------------------------------------------------
(* The loops.                                                              *)

Init ==
  /\ model \in Models
  /\ runes \in Texts
  /\ left = 0 /\ right = 0
  /\ pc = "cut"
  /\ columns = <<>>
  /\ status = <<>>
  /\ i = 0 /\ ileft = 0
  /\ res = <<>>

AtAscii == right < n /\ Rune(right) \in Ascii

\* a rune that is not ASCII
SkipRune ==
  /\ pc = "cut"
  /\ right < n /\ Rune(right) \notin Ascii
  /\ right' = right + 1
  /\ UNCHANGED <<model, runes, left, pc, columns, status, i, ileft, res>>

\* InternalCut(left, right): before an ASCII rune, and at the end
CallInternalCut ==
  /\ pc = "cut"
  /\ left # right
  /\ right = n \/ AtAscii
  /\ columns' = <<FirstColumn(Rune(left))>>
  /\ status' = <<>>
  /\ pc' = "viterbi"
  /\ UNCHANGED <<model, runes, left, right, i, ileft, res>>

\* Viterbi: the next rune
ViterbiColumn ==
  /\ pc = "viterbi" /\ Len(columns) < right - left
  /\ LET x == Len(columns)
     IN  columns' = Append(columns, Column(Weights(columns[x]), Rune(left + x)))
  /\ UNCHANGED <<model, runes, left, right, pc, status, i, ileft, res>>

\* stat: the state of the rune in front of those read back
Stat ==
  LET x == Len(columns) - Len(status)
  IN  IF status = <<>> THEN LastState(columns[x]) ELSE columns[x + 1][status[1]].path

\* Viterbi: one more state is read back, from the last rune to the first
ReadBack ==
  /\ pc = "viterbi" /\ Len(columns) = right - left
  /\ Len(status) < right - left
  /\ status' = <<Stat>> \o status
  /\ UNCHANGED <<model, runes, left, right, pc, columns, i, ileft, res>>

\* Viterbi is done; InternalCut starts its loop
ViterbiEnd ==
  /\ pc = "viterbi" /\ Len(status) = right - left
  /\ pc' = "internal"
  /\ i' = 0 /\ ileft' = left
  /\ UNCHANGED <<model, runes, left, right, columns, status, res>>

\* Faulty: only the state E ends a word.
InternalCutEndOnly ==
  /\ pc = "internal" /\ i < right - left
  /\ IF status[i + 1] = E
     THEN /\ res' = Append(res, WordRange(ileft, left + i))
          /\ ileft' = left + i + 1
     ELSE UNCHANGED <<res, ileft>>
  /\ i' = i + 1
  /\ UNCHANGED <<model, runes, left, right, pc, columns, status>>

\* InternalCut: the states E and S end a word
InternalCut ==
  /\ pc = "internal" /\ i < right - left
  /\ IF status[i + 1] % 2 = 1
     THEN /\ res' = Append(res, WordRange(ileft, left + i))
          /\ ileft' = left + i + 1
     ELSE UNCHANGED <<res, ileft>>
  /\ i' = i + 1
  /\ UNCHANGED <<model, runes, left, right, pc, columns, status>>

\* Faulty: the cut goes on behind the rune that ended the stretch.
ReturnInternalCutBehind ==
  /\ pc = "internal" /\ i = right - left
  /\ pc' = "cut"
  /\ left' = right + 1
  /\ UNCHANGED <<model, runes, right, columns, status, i, ileft, res>>

\* Cut goes on where InternalCut ended
ReturnInternalCut ==
  /\ pc = "internal" /\ i = right - left
  /\ pc' = "cut"
  /\ left' = right
  /\ UNCHANGED <<model, runes, right, columns, status, i, ileft, res>>

\* the longest run of runes of a kind behind from ends before e
RunEnd(from, e, kind) ==
  /\ \A k \in from+1..e-1 : Rune(k) \in kind
  /\ e < n => Rune(e) \notin kind

\* Faulty: the rule for numbers stops at the point.
AsciiEndNoPoint(from, e) ==
  IF Rune(from) \in Letters THEN RunEnd(from, e, Letters \cup Digits)
  ELSE IF Rune(from) \in Digits THEN RunEnd(from, e, Digits)
  ELSE e = from + 1

\* SequentialLetterRule, NumbersRule, or the rune by itself
AsciiEnd(from, e) ==
  IF Rune(from) \in Letters THEN RunEnd(from, e, Letters \cup Digits)
  ELSE IF Rune(from) \in Digits THEN RunEnd(from, e, Digits \cup {Point})
  ELSE e = from + 1

\* a word that begins with an ASCII rune
AsciiWord ==
  /\ pc = "cut"
  /\ left = right /\ AtAscii
  /\ \E e \in left+1..n :
       /\ AsciiEnd(left, e)
       /\ res' = Append(res, WordRange(left, e - 1))
       /\ left' = e /\ right' = e
  /\ UNCHANGED <<model, runes, pc, columns, status, i, ileft>>

Next ==
  \/ SkipRune \/ AsciiWord
  \/ CallInternalCut \/ ViterbiColumn \/ ReadBack \/ ViterbiEnd
  \/ InternalCut \/ ReturnInternalCut

Spec == Init /\ [][Next]_vars

-----------------------------------------------------------------------------
Done == pc = "cut" /\ left = n /\ right = n

\* Every variable stays in its domain.
TypeOK ==
  /\ model \in Models /\ runes \in Texts
  /\ left \in 0..n /\ right \in left..n
  /\ pc \in {"cut", "viterbi", "internal"}
  /\ columns \in Seq([States -> [weight: Int, path: States \cup {-1}]])
  /\ status \in Seq(States)
  /\ pc = "internal" => /\ i \in 0..right-left
                        /\ ileft \in left..left+i
  /\ res \in Seq(Ranges(n))

\* where the words end so far
Front == IF pc = "internal" THEN ileft ELSE left

\* The words cut the runes passed so far without gap or overlap, whatever the
\* model says, and nothing is left over when InternalCut returns.
WordsTile ==
  /\ Tiles(res, 0, Front)
  /\ pc = "internal" /\ i = right - left => ileft = right

Cutter == INSTANCE WordCutter WITH
  length <- n, words <- res, front <- Front, returned <- Done

\* The cut does what SentenceCut relies on: rules and model alternate, and still it
\* goes word by word through the text and returns at its end.
CutsWords == Cutter!Spec

\* What the rules promise of ASCII text: no word mixes ASCII with other runes, a
\* word that begins with a letter takes all letters and digits that follow, one
\* that begins with a digit all digits and points.
AsciiRules ==
  \A k \in 1..Len(res) :
    LET w    == res[k]
        more == IF Rune(w.left) \in Letters THEN Letters \cup Digits
                ELSE IF Rune(w.left) \in Digits THEN Digits \cup {Point} ELSE {}
    IN /\ \A p \in w.left..w.right : Rune(p) \in Ascii <=> Rune(w.left) \in Ascii
       /\ w.right + 1 < n => Rune(w.right + 1) \notin more

\* the weight of a sequence of states for left..right-1
PathWeight(path) ==
  LET sum[x \in 1..right-left] ==
        IF x = 1 THEN Plus(model.startProb[path[1]], EmitProb(path[1], Rune(left)))
        ELSE Plus(Plus(sum[x-1], model.transProb[path[x-1]][path[x]]),
                  EmitProb(path[x], Rune(left + x - 1)))
  IN  sum[right - left]

\* Viterbi finds a most probable sequence of states among all that end with the
\* end of a word, if any is possible at all.
MostProbable ==
  pc = "internal" =>
    LET ending == {p \in [1..right-left -> States] : p[right-left] \in {E, S}}
    IN  \A p \in ending : PathWeight(p) > MinDouble =>
          PathWeight(status) >= PathWeight(p)
=============================================================================
