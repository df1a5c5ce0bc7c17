----------------------------- MODULE WordCutter -----------------------------
(***************************************************************************)
(* What a cut of a stretch of runes promises to SentenceCut: word after    *)
(* word, each beginning where the last one ended, and the last one ending  *)
(* where the stretch does.  MPSegment and HMMSegment implement it.         *)
(***************************************************************************)
EXTENDS Tiling

VARIABLES
  length,    \* of the stretch
  words,     \* the words so far
  front,     \* where they end
  returned   \* they are all there

Init ==
  /\ length \in Nat
  /\ words = <<>> /\ front = 0
  /\ returned \in BOOLEAN /\ (returned => length = 0)

CutWord ==
  /\ ~returned
  /\ \E r \in front..length-1 :
       words' = Append(words, WordRange(front, r)) /\ front' = r + 1
  /\ returned' \in BOOLEAN /\ (returned' => front' = length)
  /\ length' = length

Return ==
  /\ ~returned /\ front = length
  /\ returned' = TRUE
  /\ UNCHANGED <<length, words, front>>

Spec == Init /\ [][CutWord \/ Return]_<<length, words, front, returned>>
=============================================================================
