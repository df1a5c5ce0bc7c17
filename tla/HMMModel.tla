------------------------------ MODULE HMMModel ------------------------------
(***************************************************************************)
(* What jiaba/HMMModel.hpp makes of a model file: nothing that is wrong    *)
(* with the file is an error.  A line is what splitting it at blanks and   *)
(* at commas gives: numbers, and entries of a rune and its probability.    *)
(***************************************************************************)
EXTENDS Integers, Sequences

CONSTANTS
  MinDouble,   \* MIN_DOUBLE
  Skip,        \* a line that is empty or a comment
  BadEntry     \* an entry without a colon or with a rune too many

Empty == [numbers |-> <<>>, entries |-> <<BadEntry>>]

\* GetLine, for the k-th time: where there is no line left, the string keeps the last
\* one if that had no line end, and is empty else
GetLine(file, k) ==
  LET lines == SelectSeq(file.lines, LAMBDA l : l # Skip)
  IN  IF k <= Len(lines) THEN lines[k]
      ELSE IF file.lineEnd \/ lines = <<>> THEN Empty ELSE lines[Len(lines)]

\* four numbers, or the zeros that memset left
Row(line) ==
  [s \in 0..3 |-> IF Len(line.numbers) = 4 THEN line.numbers[s + 1] ELSE 0]

\* LoadEmitProb: the entries up to the first bad one, of a rune's the last
LoadEmitProb(line) ==
  LET read == {k \in 1..Len(line.entries) : \A m \in 1..k : line.entries[m] # BadEntry}
      last(r) == CHOOSE k \in read : /\ line.entries[k].rune = r
                                     /\ \A m \in read : line.entries[m].rune = r => m <= k
  IN  [r \in {line.entries[k].rune : k \in read} |-> line.entries[last(r)].prob]

\* LoadModel; of a rune a state's map lacks, GetEmitProb gives MIN_DOUBLE
LoadModel(file) ==
  LET emit == [y \in 0..3 |-> LoadEmitProb(GetLine(file, 6 + y))]
  IN  [startProb |-> Row(GetLine(file, 1)),
       transProb |-> [y \in 0..3 |-> Row(GetLine(file, 2 + y))],
       emitProb  |-> [r \in UNION {DOMAIN emit[y] : y \in 0..3} |->
                        [y \in 0..3 |-> IF r \in DOMAIN emit[y] THEN emit[y][r] ELSE MinDouble]]]
=============================================================================
