------------------------------- MODULE Tiling -------------------------------
(***************************************************************************)
(* Word ranges (WordRange in jiaba/Unicode.hpp): both ends belong to the   *)
(* word.  A sequence of ranges tiles from..to-1 if it cuts that stretch    *)
(* into words, in order, without gap and without overlap.                  *)
(* The end of the module is about sequences of any kind.                   *)
(***************************************************************************)
EXTENDS Integers, Sequences

WordRange(l, r) == [left |-> l, right |-> r]

Length(w) == w.right - w.left + 1

Ranges(n) == {w \in [left: 0..n-1, right: 0..n-1] : w.left <= w.right}

Tiles(ws, from, to) ==
  /\ \A k \in 1..Len(ws) : ws[k].left <= ws[k].right
  /\ \A k \in 1..Len(ws)-1 : ws[k+1].left = ws[k].right + 1
  /\ IF ws = <<>> THEN from = to
                  ELSE ws[1].left = from /\ ws[Len(ws)].right + 1 = to

\* All the ways to cut from..to-1: a cut up to some j, then the word j..to-1.
Tilings(from, to) ==
  LET cuts[k \in from..to] ==
        IF k = from THEN {<<>>}
        ELSE UNION {{Append(ws, WordRange(j, k - 1)) : ws \in cuts[j]} : j \in from..k-1}
  IN  cuts[to]

-----------------------------------------------------------------------------
Concat(parts) ==
  LET upto[k \in 0..Len(parts)] == IF k = 0 THEN <<>> ELSE upto[k - 1] \o parts[k]
  IN  upto[Len(parts)]

\* what s has at the places in keep, in order
Selected(s, keep) == Concat([k \in 1..Len(s) |-> IF k \in keep THEN <<s[k]>> ELSE <<>>])
=============================================================================
