---------------------------- MODULE MCHMMSegment ----------------------------
(* All texts of up to four runes; U is a rune the model does not know.  The   *)
(* models are what is made of a whole file and of damaged ones.               *)
EXTENDS HMMSegment, TLC

CONSTANTS Skip, BadEntry

File == INSTANCE HMMModel

Runes == {"a", "1", ".", "-", "X", "Y", "U"}
MCTexts == UNION {[1..k -> Runes] : k \in 0..4}
MCMinDouble == -1000

Never == MCMinDouble
Numbers(x0, x1, x2, x3) == [numbers |-> <<x0, x1, x2, x3>>, entries |-> <<BadEntry>>]
Emits(x, y) ==
  [numbers |-> <<>>, entries |-> <<[rune |-> "X", prob |-> x], [rune |-> "Y", prob |-> y]>>]
Broken(x) ==
  [numbers |-> <<>>,
   entries |-> <<[rune |-> "X", prob |-> x], BadEntry, [rune |-> "Y", prob |-> x]>>]

\* the start and transition probabilities of hmm_model.utf8, coarsely
Rows == <<
  Numbers(-1, Never, Never, -3), Skip,
  Numbers(Never, -1, -2, Never), Numbers(-1, Never, Never, -2),
  Numbers(Never, -1, -3, Never), Numbers(-2, Never, Never, -1)>>

Whole(lines) == [lines |-> lines, lineEnd |-> TRUE]
Cut(lines) == [lines |-> lines, lineEnd |-> FALSE]

MCModels == {File!LoadModel(f) : f \in {
  Whole(Rows \o <<Emits(-1, -5), Emits(-4, -1), Emits(-2, -1), Emits(-3, -2)>>),
  Whole(Rows \o <<Broken(-6), Emits(-6, -1), Skip, Broken(-6), Emits(-1, Never)>>),
  Cut(Rows \o <<Emits(-1, -2)>>),
  Cut(SubSeq(Rows, 1, 4)),
  Whole(Tail(Rows) \o <<Emits(-1, -5), Emits(-4, -1), Emits(-2, -1), Emits(-3, -2)>>),
  Whole(<<>>)}}

ASSUME LogarithmsAssumption == Logarithms
=============================================================================
