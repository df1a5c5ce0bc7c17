---------------------------- MODULE TilingProofs ----------------------------
(***************************************************************************)
(* Facts that the other proofs share: about tilings, about sequences, and  *)
(* about recursion.  Induction follows from the pigeonhole principle for   *)
(* finite sets, and from it that a recursion over 0..N has a solution and  *)
(* only one (CourseExists, CourseSame): so what a recursive function does  *)
(* is proved here without the library's induction theorems.                *)
(***************************************************************************)
EXTENDS Tiling, FiniteSetTheorems, SequenceTheorems, TLAPS

\* A word put behind a tiling, beginning where the tiling ends, tiles on.
LEMMA TilesAppend ==
  ASSUME NEW ws \in Seq([left: Int, right: Int]), NEW from, NEW to \in Int,
         NEW r \in Int, to <= r, Tiles(ws, from, to)
  PROVE  Tiles(Append(ws, WordRange(to, r)), from, r + 1)
<1>. DEFINE w == WordRange(to, r)
            new == Append(ws, w)
<1>1. /\ Len(ws) \in Nat
      /\ Len(new) = Len(ws) + 1
      /\ new[Len(ws) + 1] = w
      /\ \A k \in 1..Len(ws) : new[k] = ws[k]
      /\ new # <<>>
      /\ w.left = to /\ w.right = r
  <2>1. w.left = to /\ w.right = r
    BY DEF WordRange
  <2>2. w \in [left: Int, right: Int]
    BY DEF WordRange
  <2>. HIDE DEF w
  <2>3. /\ Len(ws) \in Nat /\ Len(new) = Len(ws) + 1 /\ new[Len(ws) + 1] = w
        /\ \A k \in 1..Len(ws) : new[k] = ws[k]
    BY <2>2, AppendProperties
  <2>4. new # <<>>
    <3>1. Len(new) # 0
      BY <2>3
    <3>. QED
      BY <3>1
  <2>. QED
    BY <2>1, <2>3, <2>4
<1>2. ws = <<>> <=> Len(ws) = 0
  OBVIOUS
<1>. HIDE DEF w, new
<1>3. \A k \in 1..Len(new) : new[k].left <= new[k].right
  <2>. SUFFICES ASSUME NEW k \in 1..Len(new) PROVE new[k].left <= new[k].right
    OBVIOUS
  <2>1. CASE k \in 1..Len(ws)
    BY <1>1, <2>1 DEF Tiles
  <2>2. CASE k = Len(ws) + 1
    BY <1>1, <2>2
  <2>. QED
    BY <1>1, <2>1, <2>2
<1>4. \A k \in 1..Len(new)-1 : new[k+1].left = new[k].right + 1
  <2>. SUFFICES ASSUME NEW k \in 1..Len(ws)
                PROVE  new[k+1].left = new[k].right + 1
    BY <1>1
  <2>1. CASE k < Len(ws)
    <3>1. k \in 1..Len(ws)-1 /\ k + 1 \in 1..Len(ws)
      BY <1>1, <2>1, SMTT(20)
    <3>2. ws[k+1].left = ws[k].right + 1
      BY <3>1 DEF Tiles
    <3>. QED
      BY <1>1, <3>1, <3>2
  <2>2. CASE k = Len(ws)
    BY <1>1, <1>2, <2>2 DEF Tiles
  <2>. QED
    BY <2>1, <2>2
<1>5. new[1].left = from /\ new[Len(new)].right + 1 = r + 1
  BY <1>1, <1>2 DEF Tiles
<1>. QED
  BY <1>1, <1>3, <1>4, <1>5 DEF Tiles, new, w

\* Ranges of a text are ranges of integers.
LEMMA RangesInt ==
  ASSUME NEW len \in Nat, NEW ws \in Seq(Ranges(len))
  PROVE  ws \in Seq([left: Int, right: Int])
<1>1. \A w \in Ranges(len) : w \in [left: Int, right: Int]
  BY DEF Ranges
<1>. QED
  BY <1>1, SeqMonotonic

\* A range inside the text, put behind ranges of the text.
LEMMA RangesAppend ==
  ASSUME NEW len \in Nat, NEW ws \in Seq(Ranges(len)),
         NEW l \in 0..len-1, NEW r \in l..len-1
  PROVE  Append(ws, WordRange(l, r)) \in Seq(Ranges(len))
BY DEF Ranges, WordRange

-----------------------------------------------------------------------------
(* Recursion.  A set that holds 0 and every successor holds every number: *)
(* otherwise the successors of what it holds up to the number left out    *)
(* would be as many as these, and fewer.                                  *)

LEMMA Induction ==
  ASSUME NEW T \in SUBSET Nat, 0 \in T, \A n \in T : n + 1 \in T
  PROVE  T = Nat
<1>. SUFFICES ASSUME NEW m \in Nat, m \notin T PROVE FALSE
  OBVIOUS
<1>. DEFINE A == T \cap 0..m
            f == [k \in A |-> k + 1]
<1>1. IsFiniteSet(A)
  <2>1. IsFiniteSet(0..m)
    BY FS_Interval
  <2>. QED
    BY <2>1, FS_Subset
<1>2. 0 \in A
  OBVIOUS
<1>3. IsFiniteSet(A \ {0}) /\ Cardinality(A \ {0}) < Cardinality(A)
  <2>. HIDE DEF A
  <2>1. Cardinality(A) \in Nat
    BY <1>1, FS_CardinalityType
  <2>2. Cardinality(A \ {0}) = Cardinality(A) - 1 /\ IsFiniteSet(A \ {0})
    BY <1>1, <1>2, FS_RemoveElement
  <2>. QED
    BY <2>1, <2>2
<1>4. f \in [A -> A \ {0}]
  OBVIOUS
<1>5. \E x, y \in A : x # y /\ f[x] = f[y]
  <2>. HIDE DEF A, f
  <2>. QED
    BY <1>1, <1>3, <1>4, FS_PigeonHole
<1>. QED
  BY <1>5

\* H gives the k-th value, in S, from those before it.
Course(N, S, H) ==
  N \in Nat /\ \A k \in 0..N : \A g \in [0..k-1 -> S] : H[k][g] \in S

Follows(f, N, H) ==
  f = [k \in 0..N |-> f[k]] /\ \A k \in 0..N : f[k] = H[k][[j \in 0..k-1 |-> f[j]]]

\* Whatever gives the k-th value from those before it defines a function.
LEMMA CourseExists ==
  ASSUME NEW N, NEW S, NEW H, Course(N, S, H)
  PROVE  \E f \in [0..N -> S] : Follows(f, N, H)
<1>. USE DEF Course, Follows
<1>. DEFINE Right(f, m) == \A k \in 0..m-1 : f[k] = H[k][[j \in 0..k-1 |-> f[j]]]
            P(m) == m <= N + 1 => \E f \in [0..m-1 -> S] : Right(f, m)
            T == {m \in Nat : P(m)}
<1>1. P(0)
  <2>1. [k \in 0..0-1 |-> k] \in [0..0-1 -> S] /\ Right([k \in 0..0-1 |-> k], 0)
    OBVIOUS
  <2>. QED
    BY <2>1
<1>2. ASSUME NEW m \in Nat, P(m) PROVE P(m + 1)
  <2>. SUFFICES ASSUME m + 1 <= N + 1 PROVE \E f \in [0..m -> S] : Right(f, m + 1)
    OBVIOUS
  <2>1. PICK f \in [0..m-1 -> S] : Right(f, m)
    BY <1>2
  <2>. DEFINE g == [k \in 0..m |-> IF k = m THEN H[m][f] ELSE f[k]]
  <2>2. g \in [0..m -> S]
    <3>1. H[m][f] \in S
      OBVIOUS
    <3>. QED
      BY <3>1
  <2>3. g[m] = H[m][f] /\ \A k \in 0..m-1 : g[k] = f[k]
    OBVIOUS
  <2>. HIDE DEF g
  <2>4. \A k \in 0..m : [j \in 0..k-1 |-> g[j]] = [j \in 0..k-1 |-> f[j]]
    BY <2>3
  <2>5. [j \in 0..m-1 |-> f[j]] = f
    OBVIOUS
  <2>6. ASSUME NEW k \in 0..m PROVE g[k] = H[k][[j \in 0..k-1 |-> g[j]]]
    <3>1. CASE k = m
      BY <3>1, <2>3, <2>4, <2>5
    <3>2. CASE k \in 0..m-1
      BY <3>2, <2>1, <2>3, <2>4
    <3>. QED
      BY <3>1, <3>2
  <2>. QED
    BY <2>2, <2>6, SMTT(20)
<1>3. P(N + 1)
  <2>. HIDE DEF P
  <2>1. T \in SUBSET Nat /\ 0 \in T /\ \A n \in T : n + 1 \in T
    BY <1>1, <1>2, SMTT(20)
  <2>2. T = Nat
    BY <2>1, Induction
  <2>. QED
    BY <2>2
<1>. QED
  BY <1>3

\* Two functions are the same if each value is as soon as those before it are.
SameStep(f, g, N) ==
  /\ f = [k \in 0..N |-> f[k]] /\ g = [k \in 0..N |-> g[k]]
  /\ \A k \in 0..N : (\A j \in 0..k-1 : f[j] = g[j]) => f[k] = g[k]

LEMMA CourseSame ==
  ASSUME NEW N \in Nat, NEW f, NEW g, SameStep(f, g, N)
  PROVE  f = g
<1>. USE DEF SameStep
<1>. DEFINE P(m) == \A k \in 0..m-1 : k <= N => f[k] = g[k]
            T == {m \in Nat : P(m)}
<1>1. P(0)
  OBVIOUS
<1>2. ASSUME NEW m \in Nat, P(m) PROVE P(m + 1)
  <2>. SUFFICES ASSUME m <= N PROVE f[m] = g[m]
    BY <1>2
  <2>. QED
    BY <1>2
<1>3. P(N + 1)
  <2>. HIDE DEF P
  <2>1. T \in SUBSET Nat /\ 0 \in T /\ \A n \in T : n + 1 \in T
    BY <1>1, <1>2
  <2>2. T = Nat
    BY <2>1, Induction
  <2>. QED
    BY <2>2
<1>. QED
  BY <1>3

-----------------------------------------------------------------------------
(* All tilings of a stretch.                                               *)

\* Tilings is what its recursion says.
LEMMA TilingsDef ==
  ASSUME NEW from \in Int, NEW to \in Int, from <= to
  PROVE  \E cuts : /\ Tilings(from, to) = cuts[to]
                   /\ cuts[from] = {<<>>}
                   /\ \A k \in from+1..to : \A new \in cuts[k] :
                        \E j \in from..k-1 : \E ws \in cuts[j] : new = Append(ws, WordRange(j, k - 1))
<1>. DEFINE R == [left: Int, right: Int]
            N == to - from
            S == SUBSET Seq(R)
            On(g, k) == IF k = from THEN {<<>>}
                        ELSE UNION {{Append(ws, WordRange(j, k - 1)) : ws \in g[j]} : j \in from..k-1}
            G(g) == [k \in from..to |-> On(g, k)]
            cuts == CHOOSE g : g = G(g)
            Moved(g, k) == [j \in from..k-1 |-> g[j - from]]
            H == [m \in 0..N |-> [g \in [0..m-1 -> S] |-> On(Moved(g, from + m), from + m)]]
<1>1. Tilings(from, to) = cuts[to]
  BY DEF Tilings
<1>. HIDE DEF cuts
<1>2. /\ \A g : On(g, from) = {<<>>}
      /\ \A g : \A k \in from+1..to : \A new :
           new \in On(g, k) <=> \E j \in from..k-1 : \E ws \in g[j] : new = Append(ws, WordRange(j, k - 1))
  OBVIOUS
<1>. HIDE DEF On
<1>3. ASSUME NEW k \in from..to, NEW g, NEW h, \A j \in from..k-1 : g[j] = h[j]
      PROVE  On(g, k) = On(h, k)
  <2>1. CASE k = from
    BY <1>2, <2>1
  <2>2. CASE k \in from+1..to
    <3>1. \A new : new \in On(g, k) <=> new \in On(h, k)
      BY <1>2, <1>3, <2>2
    <3>. QED
      BY <3>1
  <2>. QED
    BY <2>1, <2>2
<1>4. Course(N, S, H)
  <2>1. ASSUME NEW m \in 0..N, NEW g \in [0..m-1 -> S] PROVE H[m][g] \in S
    <3>. DEFINE k == from + m
    <3>1. H[m][g] = On(Moved(g, k), k)
      OBVIOUS
    <3>2. CASE m = 0
      <4>1. H[m][g] = {<<>>}
        BY <1>2, <3>1, <3>2
      <4>2. <<>> \in Seq(R)
        OBVIOUS
      <4>. HIDE DEF R
      <4>. QED
        BY <4>1, <4>2
    <3>3. CASE m # 0
      <4>1. k \in from+1..to
        BY <3>3
      <4>2. ASSUME NEW j \in from..k-1, NEW ws \in Moved(g, k)[j]
            PROVE  Append(ws, WordRange(j, k - 1)) \in Seq(R)
        <5>1. ws \in Seq(R)
          OBVIOUS
        <5>2. WordRange(j, k - 1) \in R
          BY DEF WordRange
        <5>. HIDE DEF R
        <5>. QED
          BY <5>1, <5>2
      <4>. HIDE DEF k, Moved, H, R
      <4>3. ASSUME NEW new \in On(Moved(g, k), k) PROVE new \in Seq(R)
        <5>1. PICK j \in from..k-1 : \E ws \in Moved(g, k)[j] : new = Append(ws, WordRange(j, k - 1))
          BY <1>2, <4>1
        <5>. QED
          BY <4>2, <5>1
      <4>. QED
        BY <3>1, <4>3
    <3>. QED
      BY <3>2, <3>3
  <2>2. N \in Nat
    OBVIOUS
  <2>. HIDE DEF H
  <2>. QED
    BY <2>1, <2>2 DEF Course
<1>5. PICK f \in [0..N -> S] : Follows(f, N, H)
  <2>. HIDE DEF H, S, N
  <2>. QED
    BY <1>4, CourseExists
<1>. DEFINE h == [k \in from..to |-> f[k - from]]
<1>6. h = G(h)
  <2>1. ASSUME NEW k \in from..to PROVE h[k] = On(h, k)
    <3>. DEFINE m == k - from
                g == [j \in 0..m-1 |-> f[j]]
    <3>1. m \in 0..N /\ g \in [0..m-1 -> S] /\ from + m = k /\ h[k] = f[m]
      OBVIOUS
    <3>2. f[m] = H[m][g]
      BY <1>5, <3>1 DEF Follows
    <3>3. \A j \in from..k-1 : Moved(g, k)[j] = h[j]
      OBVIOUS
    <3>4. H[m][g] = On(Moved(g, k), k)
      <4>. HIDE DEF g, m, Moved
      <4>. QED
        BY <3>1
    <3>5. On(Moved(g, k), k) = On(h, k)
      <4>. HIDE DEF g, h, Moved
      <4>. QED
        BY <1>3, <3>3
    <3>. QED
      BY <3>1, <3>2, <3>4, <3>5
  <2>. QED
    BY <2>1
<1>7. cuts = G(cuts)
  <2>. HIDE DEF h, G
  <2>. QED
    BY <1>6 DEF cuts
<1>8. \A k \in from..to : cuts[k] = On(cuts, k)
  BY <1>7
<1>. HIDE DEF G, H, S, Moved, h
<1>. QED
  BY <1>1, <1>2, <1>8

\* Every member of Tilings tiles.
LEMMA TilingsTile ==
  ASSUME NEW from \in Int, NEW to \in Int, from <= to, NEW ws \in Tilings(from, to)
  PROVE  ws \in Seq([left: Int, right: Int]) /\ Tiles(ws, from, to)
<1>. DEFINE R == [left: Int, right: Int]
            Good(x, k) == x \in Seq(R) /\ Tiles(x, from, k)
<1>1. PICK cuts : /\ Tilings(from, to) = cuts[to]
                  /\ cuts[from] = {<<>>}
                  /\ \A k \in from+1..to : \A new \in cuts[k] :
                       \E j \in from..k-1 : \E x \in cuts[j] : new = Append(x, WordRange(j, k - 1))
  BY TilingsDef
<1>. DEFINE P(m) == \A k \in from..from+m-1 : k <= to => \A x \in cuts[k] : Good(x, k)
            T == {m \in Nat : P(m)}
<1>2. P(0)
  OBVIOUS
<1>3. ASSUME NEW m \in Nat, P(m) PROVE P(m + 1)
  <2>. DEFINE k == from + m
  <2>. SUFFICES ASSUME k <= to, NEW x \in cuts[k] PROVE Good(x, k)
    BY <1>3
  <2>1. CASE m = 0
    <3>1. x = <<>>
      BY <1>1, <2>1
    <3>. QED
      BY <2>1, <3>1 DEF Tiles
  <2>2. CASE m # 0
    <3>1. k \in from+1..to
      BY <2>2
    <3>2. PICK j \in from..k-1 : \E y \in cuts[j] : x = Append(y, WordRange(j, k - 1))
      BY <1>1, <3>1
    <3>3. PICK y \in cuts[j] : x = Append(y, WordRange(j, k - 1))
      BY <3>2
    <3>4. Good(y, j)
      <4>1. j \in from..from+m-1 /\ j <= to
        OBVIOUS
      <4>. QED
        BY <1>3, <4>1
    <3>5. j \in Int /\ k - 1 \in Int /\ j <= k - 1 /\ (k - 1) + 1 = k
      OBVIOUS
    <3>. HIDE DEF k
    <3>6. Tiles(x, from, k)
      BY <3>3, <3>4, <3>5, TilesAppend
    <3>7. WordRange(j, k - 1) \in R
      BY <3>5 DEF WordRange
    <3>. HIDE DEF R
    <3>. QED
      BY <3>3, <3>4, <3>6, <3>7
  <2>. QED
    BY <2>1, <2>2
<1>4. P(to - from + 1)
  <2>. HIDE DEF P
  <2>1. T \in SUBSET Nat /\ 0 \in T /\ \A m \in T : m + 1 \in T
    BY <1>2, <1>3
  <2>2. T = Nat
    BY <2>1, Induction
  <2>. QED
    BY <2>2
<1>. QED
  BY <1>1, <1>4

\* The words of a tiling are within what is tiled.
LEMMA TilesInside ==
  ASSUME NEW ws \in Seq([left: Int, right: Int]), NEW from \in Int, NEW to \in Int, Tiles(ws, from, to)
  PROVE  \A k \in 1..Len(ws) : from <= ws[k].left /\ ws[k].right < to
<1>. DEFINE P(m) == m + 1 <= Len(ws) => /\ from <= ws[m+1].left
                                        /\ ws[Len(ws)-m].right < to
            T == {m \in Nat : P(m)}
<1>1. /\ Len(ws) \in Nat
      /\ \A k \in 1..Len(ws) : ws[k].left \in Int /\ ws[k].right \in Int
  <2>. DEFINE R == [left: Int, right: Int]
  <2>1. \A w \in R : w.left \in Int /\ w.right \in Int
    OBVIOUS
  <2>2. ws \in Seq(R)
    OBVIOUS
  <2>. HIDE DEF R
  <2>. QED
    BY <2>1, <2>2
<1>2. P(0)
  BY <1>1, SMTT(20) DEF Tiles
<1>3. ASSUME NEW m \in Nat, P(m) PROVE P(m + 1)
  <2>. SUFFICES ASSUME m + 2 <= Len(ws)
                PROVE  from <= ws[m+2].left /\ ws[Len(ws)-(m+1)].right < to
    OBVIOUS
  <2>1. from <= ws[m+1].left /\ ws[Len(ws)-m].right < to
    BY <1>1, <1>3
  <2>2. ws[m+1].left <= ws[m+1].right /\ ws[m+2].left = ws[m+1].right + 1
    <3>1. m + 1 \in 1..Len(ws) /\ m + 1 \in 1..Len(ws)-1 /\ (m + 1) + 1 = m + 2
      BY <1>1
    <3>. QED
      BY <3>1 DEF Tiles
  <2>3. /\ ws[Len(ws)-m].left <= ws[Len(ws)-m].right
        /\ ws[Len(ws)-m].left = ws[Len(ws)-(m+1)].right + 1
    <3>. DEFINE q == Len(ws) - (m + 1)
    <3>1. q \in 1..Len(ws)-1 /\ q + 1 \in 1..Len(ws) /\ q + 1 = Len(ws) - m
      BY <1>1
    <3>2. ws[q+1].left <= ws[q+1].right /\ ws[q+1].left = ws[q].right + 1
      <4>. HIDE DEF q
      <4>. QED
        BY <3>1 DEF Tiles
    <3>. QED
      BY <3>1, <3>2
  <2>4. m + 1 \in 1..Len(ws) /\ m + 2 \in 1..Len(ws) /\ Len(ws)-m \in 1..Len(ws) /\ Len(ws)-(m+1) \in 1..Len(ws)
    BY <1>1
  <2>5. from <= ws[m+2].left
    <3>1. ws[m+1].left \in Int /\ ws[m+1].right \in Int /\ ws[m+2].left \in Int
      BY <1>1, <2>4
    <3>. QED
      BY <2>1, <2>2, <3>1, SMTT(20)
  <2>6. ws[Len(ws)-(m+1)].right < to
    <3>1. /\ ws[Len(ws)-m].left \in Int /\ ws[Len(ws)-m].right \in Int
          /\ ws[Len(ws)-(m+1)].right \in Int
      BY <1>1, <2>4
    <3>. DEFINE last == Len(ws) - m
                q == Len(ws) - (m + 1)
    <3>2. /\ ws[last].left <= ws[last].right /\ ws[last].left = ws[q].right + 1
          /\ ws[last].right < to /\ ws[last].left \in Int /\ ws[last].right \in Int
          /\ ws[q].right \in Int
      BY <2>1, <2>3, <3>1
    <3>3. ws[q].right < to
      <4>. HIDE DEF last, q
      <4>. QED
        BY <3>2, SMTT(20)
    <3>. QED
      BY <3>3
  <2>. QED
    BY <2>5, <2>6
<1>4. T = Nat
  <2>. HIDE DEF P
  <2>1. T \in SUBSET Nat /\ 0 \in T /\ \A m \in T : m + 1 \in T
    BY <1>2, <1>3
  <2>. QED
    BY <2>1, Induction
<1>. SUFFICES ASSUME NEW k \in 1..Len(ws) PROVE from <= ws[k].left /\ ws[k].right < to
  OBVIOUS
<1>5. P(k - 1) /\ P(Len(ws) - k)
  <2>1. k - 1 \in Nat /\ Len(ws) - k \in Nat
    BY <1>1
  <2>. HIDE DEF P
  <2>. QED
    BY <1>4, <2>1
<1>6. (k - 1) + 1 = k /\ Len(ws) - (Len(ws) - k) = k /\ (Len(ws) - k) + 1 <= Len(ws)
  BY <1>1
<1>. QED
  BY <1>5, <1>6

-----------------------------------------------------------------------------
(* Concat and Selected.                                                    *)

\* upto[k]: the parts up to the k-th, one behind the other
ConcatSteps(upto, parts) ==
  /\ upto[0] = <<>>
  /\ \A k \in 1..Len(parts) : upto[k] = upto[k-1] \o parts[k]

\* Concat is what its recursion says.
LEMMA ConcatDef ==
  ASSUME NEW R, NEW parts, Len(parts) \in Nat, \A k \in 1..Len(parts) : parts[k] \in Seq(R)
  PROVE  \E upto \in [0..Len(parts) -> Seq(R)] :
           Concat(parts) = upto[Len(parts)] /\ ConcatSteps(upto, parts)
<1>. DEFINE N == Len(parts)
            G(g) == [k \in 0..N |-> IF k = 0 THEN <<>> ELSE g[k-1] \o parts[k]]
            upto == CHOOSE g : g = G(g)
            H == [k \in 0..N |-> [g \in [0..k-1 -> Seq(R)] |-> IF k = 0 THEN <<>> ELSE g[k-1] \o parts[k]]]
<1>1. Concat(parts) = upto[N]
  BY DEF Concat
<1>. HIDE DEF upto
<1>2. N \in Nat /\ \A k \in 1..N : parts[k] \in Seq(R)
  OBVIOUS
<1>. HIDE DEF N
<1>3. Course(N, Seq(R), H)
  <2>1. ASSUME NEW k \in 0..N, NEW g \in [0..k-1 -> Seq(R)] PROVE H[k][g] \in Seq(R)
    <3>1. CASE k = 0
      BY <3>1
    <3>2. CASE k # 0
      <4>1. k - 1 \in 0..k-1 /\ k \in 1..N
        BY <1>2, <3>2
      <4>2. g[k-1] \in Seq(R) /\ parts[k] \in Seq(R)
        BY <1>2, <4>1
      <4>3. g[k-1] \o parts[k] \in Seq(R)
        BY <4>2, ConcatProperties
      <4>. QED
        BY <3>2, <4>3
    <3>. QED
      BY <3>1, <3>2
  <2>. HIDE DEF H
  <2>. QED
    BY <1>2, <2>1 DEF Course
<1>4. PICK f \in [0..N -> Seq(R)] : Follows(f, N, H)
  <2>. HIDE DEF H
  <2>. QED
    BY <1>3, CourseExists
<1>5. f = G(f)
  <2>1. ASSUME NEW k \in 0..N PROVE f[k] = G(f)[k]
    <3>1. [j \in 0..k-1 |-> f[j]] \in [0..k-1 -> Seq(R)]
      BY <1>2
    <3>2. f[k] = H[k][[j \in 0..k-1 |-> f[j]]]
      BY <1>4 DEF Follows
    <3>. QED
      BY <1>2, <3>1, <3>2
  <2>. QED
    BY <2>1
<1>. HIDE DEF H
<1>6. upto = G(upto)
  <2>. HIDE DEF G
  <2>. QED
    BY <1>5 DEF upto
<1>7. upto = f
  <2>1. ASSUME NEW k \in 0..N, \A j \in 0..k-1 : f[j] = upto[j] PROVE f[k] = upto[k]
    <3>1. G(f)[k] = G(upto)[k]
      BY <1>2, <2>1
    <3>. QED
      BY <3>1, <1>5, <1>6
  <2>2. SameStep(f, upto, N)
    BY <1>5, <1>6, <2>1 DEF SameStep
  <2>. QED
    BY <1>2, <2>2, CourseSame
<1>8. f[0] = <<>> /\ \A k \in 1..N : f[k] = f[k-1] \o parts[k]
  <2>1. \A k \in 0..N : f[k] = IF k = 0 THEN <<>> ELSE f[k-1] \o parts[k]
    BY <1>5
  <2>2. 0 \in 0..N /\ \A k \in 1..N : k \in 0..N /\ k # 0
    BY <1>2
  <2>. QED
    BY <2>1, <2>2
<1>. HIDE DEF G
<1>. QED
  BY <1>1, <1>7, <1>8 DEF N, ConcatSteps

\* upto[k]: what is picked up to place k
SelectsUpto(upto, s, keep) ==
  /\ upto[0] = <<>>
  /\ \A k \in 1..Len(s) :
       upto[k] = IF k \in keep THEN Append(upto[k-1], s[k]) ELSE upto[k-1]

\* Selected, place by place.
LEMMA SelectedDef ==
  ASSUME NEW R, NEW s \in Seq(R), NEW keep
  PROVE  \E upto \in [0..Len(s) -> Seq(R)] :
           Selected(s, keep) = upto[Len(s)] /\ SelectsUpto(upto, s, keep)
<1>. DEFINE N == Len(s)
            part(k) == IF k \in keep THEN <<s[k]>> ELSE <<>>
            parts == [k \in 1..N |-> part(k)]
<1>1. N \in Nat /\ \A k \in 1..N : s[k] \in R
  OBVIOUS
<1>2. \A k \in 1..N : part(k) \in Seq(R)
  BY <1>1
<1>3. Len(parts) = N /\ \A k \in 1..N : parts[k] = part(k)
  <2>. HIDE DEF N, part
  <2>. QED
    BY <1>1
<1>4. Selected(s, keep) = Concat(parts)
  BY DEF Selected
<1>. HIDE DEF parts
<1>5. \A k \in 1..N : parts[k] \in Seq(R)
  <2>. HIDE DEF part
  <2>. QED
    BY <1>2, <1>3
<1>6. PICK upto \in [0..N -> Seq(R)] :
         /\ Concat(parts) = upto[N]
         /\ upto[0] = <<>>
         /\ \A k \in 1..N : upto[k] = upto[k-1] \o parts[k]
  <2>. HIDE DEF N, part
  <2>1. Len(parts) \in Nat /\ \A k \in 1..Len(parts) : parts[k] \in Seq(R)
    BY <1>1, <1>3, <1>5
  <2>2. \E upto \in [0..Len(parts) -> Seq(R)] :
           Concat(parts) = upto[Len(parts)] /\ ConcatSteps(upto, parts)
    BY <2>1, ConcatDef
  <2>. QED
    BY <1>3, <2>2 DEF ConcatSteps
<1>7. ASSUME NEW k \in 1..N
      PROVE  upto[k] = IF k \in keep THEN Append(upto[k-1], s[k]) ELSE upto[k-1]
  <2>1. upto[k-1] \in Seq(R)
    BY <1>1
  <2>2. upto[k] = upto[k-1] \o part(k)
    BY <1>3, <1>6
  <2>3. CASE k \in keep
    <3>1. part(k) = <<s[k]>> /\ s[k] \in R
      BY <1>1, <2>3
    <3>. HIDE DEF N, part
    <3>2. upto[k-1] \o <<s[k]>> = Append(upto[k-1], s[k])
      BY <2>1, <3>1, AppendIsConcat
    <3>. QED
      BY <2>2, <2>3, <3>1, <3>2
  <2>4. CASE k \notin keep
    <3>1. part(k) = <<>>
      BY <2>4
    <3>. HIDE DEF N, part
    <3>. QED
      BY <2>1, <2>2, <2>4, <3>1, ConcatEmptySeq
  <2>. QED
    BY <2>3, <2>4
<1>. HIDE DEF part
<1>8. SelectsUpto(upto, s, keep)
  BY <1>6, <1>7 DEF SelectsUpto
<1>. QED
  BY <1>4, <1>6, <1>8

\* What is picked was there, at a place to keep.
LEMMA SelectedMembers ==
  ASSUME NEW R, NEW s \in Seq(R), NEW keep
  PROVE  /\ Selected(s, keep) \in Seq(R)
         /\ \A j \in 1..Len(Selected(s, keep)) :
              \E k \in 1..Len(s) : k \in keep /\ Selected(s, keep)[j] = s[k]
<1>. DEFINE N == Len(s)
<1>1. PICK upto \in [0..N -> Seq(R)] :
         /\ Selected(s, keep) = upto[N]
         /\ upto[0] = <<>>
         /\ \A k \in 1..N :
              upto[k] = IF k \in keep THEN Append(upto[k-1], s[k]) ELSE upto[k-1]
  BY SelectedDef DEF SelectsUpto
<1>. DEFINE P(m) == m <= N => \A j \in 1..Len(upto[m]) : \E k \in 1..N : k \in keep /\ upto[m][j] = s[k]
            T == {m \in Nat : P(m)}
<1>2. N \in Nat /\ \A k \in 1..N : s[k] \in R
  OBVIOUS
<1>. HIDE DEF N
<1>3. P(0)
  BY <1>1
<1>4. ASSUME NEW m \in Nat, P(m) PROVE P(m + 1)
  <2>. SUFFICES ASSUME m + 1 <= N, NEW j \in 1..Len(upto[m+1])
                PROVE  \E k \in 1..N : k \in keep /\ upto[m+1][j] = s[k]
    OBVIOUS
  <2>. DEFINE u == upto[m]
  <2>1. m + 1 \in 1..N /\ (m + 1) - 1 = m /\ u \in Seq(R)
    BY <1>2
  <2>2. upto[m+1] = IF m + 1 \in keep THEN Append(u, s[m+1]) ELSE u
    BY <1>1, <2>1
  <2>3. \A q \in 1..Len(u) : \E k \in 1..N : k \in keep /\ u[q] = s[k]
    <3>1. m <= N
      BY <1>2
    <3>. QED
      BY <1>4, <3>1
  <2>. HIDE DEF u, P
  <2>4. CASE m + 1 \notin keep
    BY <2>2, <2>3, <2>4
  <2>5. CASE m + 1 \in keep
    <3>1. Len(upto[m+1]) = Len(u) + 1 /\ Len(u) \in Nat
      BY <2>1, <2>2, <2>5
    <3>2. CASE j = Len(u) + 1
      <4>1. upto[m+1][j] = s[m+1]
        BY <2>1, <2>2, <2>5, <3>2
      <4>. QED
        BY <2>1, <2>5, <4>1
    <3>3. CASE j \in 1..Len(u)
      <4>1. upto[m+1][j] = u[j]
        BY <2>1, <2>2, <2>5, <3>3
      <4>. QED
        BY <2>3, <3>3, <4>1
    <3>. QED
      BY <3>1, <3>2, <3>3
  <2>. QED
    BY <2>4, <2>5
<1>5. T = Nat
  <2>. HIDE DEF P
  <2>1. T \in SUBSET Nat /\ 0 \in T /\ \A m \in T : m + 1 \in T
    BY <1>3, <1>4
  <2>. QED
    BY <2>1, Induction
<1>6. P(N)
  <2>. HIDE DEF P
  <2>. QED
    BY <1>2, <1>5
<1>. QED
  BY <1>1, <1>2, <1>6 DEF N

\* More of a sequence, of which the last only is picked.
LEMMA SelectedExtend ==
  ASSUME NEW R, NEW s \in Seq(R), NEW t \in Seq(R), NEW old, NEW keep,
         Len(s) < Len(t), \A k \in 1..Len(s) : t[k] = s[k] /\ (k \in old <=> k \in keep),
         \A k \in Len(s)+1..Len(t)-1 : k \notin keep,
         Len(t) \in keep
  PROVE  Selected(t, keep) = Append(Selected(s, old), t[Len(t)])
<1>. DEFINE A == Len(s)
            Z == Len(t)
<1>1. PICK u \in [0..A -> Seq(R)] : Selected(s, old) = u[A] /\ SelectsUpto(u, s, old)
  BY SelectedDef
<1>2. PICK v \in [0..Z -> Seq(R)] : Selected(t, keep) = v[Z] /\ SelectsUpto(v, t, keep)
  BY SelectedDef
<1>3. /\ u[0] = <<>> /\ v[0] = <<>>
      /\ \A k \in 1..A : u[k] = IF k \in old THEN Append(u[k-1], s[k]) ELSE u[k-1]
      /\ \A k \in 1..Z : v[k] = IF k \in keep THEN Append(v[k-1], t[k]) ELSE v[k-1]
  BY <1>1, <1>2 DEF SelectsUpto
<1>4. A \in Nat /\ Z \in Nat /\ A < Z
  OBVIOUS
<1>. HIDE DEF A, Z
<1>. DEFINE P(m) == m < Z => v[m] = IF m <= A THEN u[m] ELSE u[A]
            T == {m \in Nat : P(m)}
<1>5. P(0)
  BY <1>3, <1>4
<1>6. ASSUME NEW m \in Nat, P(m) PROVE P(m + 1)
  <2>. SUFFICES ASSUME m + 1 < Z PROVE v[m+1] = IF m + 1 <= A THEN u[m+1] ELSE u[A]
    OBVIOUS
  <2>1. m + 1 \in 1..Z /\ (m + 1) - 1 = m /\ v[m] = IF m <= A THEN u[m] ELSE u[A]
    <3>1. m < Z /\ m + 1 \in 1..Z /\ (m + 1) - 1 = m
      BY <1>4
    <3>. QED
      BY <1>6, <3>1
  <2>. HIDE DEF P
  <2>2. v[m+1] = IF m + 1 \in keep THEN Append(v[m], t[m+1]) ELSE v[m]
    BY <1>3, <2>1
  <2>3. CASE m + 1 <= A
    <3>1. m + 1 \in 1..A /\ m <= A
      BY <1>4, <2>3
    <3>2. u[m+1] = IF m + 1 \in old THEN Append(u[m], s[m+1]) ELSE u[m]
      BY <1>3, <2>1, <3>1
    <3>3. t[m+1] = s[m+1] /\ (m + 1 \in old <=> m + 1 \in keep)
      BY <3>1 DEF A
    <3>. QED
      BY <2>1, <2>2, <2>3, <3>1, <3>2, <3>3
  <2>4. CASE m + 1 > A
    <3>1. m + 1 \in A+1..Z-1 /\ (m <= A => m = A)
      BY <1>4, <2>4
    <3>2. m + 1 \notin keep
      BY <3>1 DEF A, Z
    <3>3. v[m+1] = u[A]
      BY <2>1, <2>2, <3>1, <3>2
    <3>. QED
      BY <1>4, <2>4, <3>3
  <2>. QED
    BY <1>4, <2>3, <2>4
<1>7. T = Nat
  <2>. HIDE DEF P
  <2>1. T \in SUBSET Nat /\ 0 \in T /\ \A m \in T : m + 1 \in T
    BY <1>5, <1>6
  <2>. QED
    BY <2>1, Induction
<1>8. Z - 1 \in Nat /\ Z \in 1..Z /\ (Z - 1 <= A => Z - 1 = A)
  BY <1>4
<1>9. P(Z - 1)
  <2>. HIDE DEF P
  <2>. QED
    BY <1>7, <1>8
<1>10. v[Z-1] = u[A]
  <2>1. Z - 1 < Z
    BY <1>4
  <2>. QED
    BY <1>8, <1>9, <2>1
<1>11. v[Z] = Append(v[Z-1], t[Z])
  <2>1. v[Z] = IF Z \in keep THEN Append(v[Z-1], t[Z]) ELSE v[Z-1]
    BY <1>3, <1>8
  <2>2. Z \in keep
    BY DEF Z
  <2>. QED
    BY <2>1, <2>2
<1>. QED
  BY <1>1, <1>2, <1>10, <1>11 DEF Z

-----------------------------------------------------------------------------
(* More about tilings.                                                     *)

\* A set of natural numbers that is not empty has a least member.
LEMMA LeastNatural ==
  ASSUME NEW A \in SUBSET Nat, A # {}
  PROVE  \E x \in A : \A y \in A : x <= y
<1>. SUFFICES ASSUME ~\E x \in A : \A y \in A : x <= y PROVE FALSE
  OBVIOUS
<1>. DEFINE T == {m \in Nat : \A y \in A : m <= y}
<1>1. T \in SUBSET Nat /\ 0 \in T /\ \A m \in T : m + 1 \in T
  <2>1. ASSUME NEW m \in T PROVE m + 1 \in T
    <3>1. m \notin A
      OBVIOUS
    <3>2. \A y \in A : m + 1 <= y
      BY <3>1
    <3>. QED
      BY <3>2
  <2>. QED
    BY <2>1
<1>2. T = Nat
  <2>. HIDE DEF T
  <2>. QED
    BY <1>1, Induction
<1>3. PICK y \in A : TRUE
  OBVIOUS
<1>4. y + 1 \in T
  BY <1>2
<1>. QED
  BY <1>4

\* ranges of integers
IntRanges == [left: Int, right: Int]

\* A sequence whose members are in a set.
LEMMA SeqOf ==
  ASSUME NEW A, NEW C, NEW s \in Seq(A), \A k \in 1..Len(s) : s[k] \in C
  PROVE  s \in Seq(C)
<1>1. Len(s) \in Nat /\ s = [k \in 1..Len(s) |-> s[k]]
  OBVIOUS
<1>. QED
  BY <1>1

\* A sequence of ranges holds ranges.
LEMMA RangeEnds ==
  ASSUME NEW ws \in Seq(IntRanges)
  PROVE  /\ Len(ws) \in Nat
         /\ ws = <<>> <=> Len(ws) = 0
         /\ \A k \in 1..Len(ws) : ws[k].left \in Int /\ ws[k].right \in Int
<1>1. \A w \in IntRanges : w.left \in Int /\ w.right \in Int
  BY DEF IntRanges
<1>. QED
  BY <1>1

\* Two tilings, the one beginning where the other ends.
LEMMA TilesConcat ==
  ASSUME NEW ws \in Seq(IntRanges), NEW vs \in Seq(IntRanges),
         NEW from \in Int, NEW mid \in Int, NEW to \in Int,
         Tiles(ws, from, mid), Tiles(vs, mid, to)
  PROVE  Tiles(ws \o vs, from, to)
<1>. DEFINE new == ws \o vs
            A == Len(ws)
            Z == Len(vs)
<1>1. A \in Nat /\ Z \in Nat /\ (ws = <<>> <=> A = 0) /\ (vs = <<>> <=> Z = 0)
  BY RangeEnds
<1>2. CASE A = 0
  <2>1. new = vs
    BY <1>1, <1>2
  <2>. QED
    BY <1>1, <1>2, <2>1 DEF Tiles
<1>3. CASE Z = 0
  <2>1. new = ws
    BY <1>1, <1>3
  <2>. QED
    BY <1>1, <1>3, <2>1 DEF Tiles
<1>4. CASE A # 0 /\ Z # 0
  <2>1. /\ Len(new) = A + Z /\ new # <<>>
        /\ \A k \in 1..A : new[k] = ws[k]
        /\ \A k \in 1..Z : new[A + k] = vs[k]
    BY <1>1, <1>4
  <2>2. /\ \A k \in 1..A : ws[k].left <= ws[k].right
        /\ \A k \in 1..A-1 : ws[k+1].left = ws[k].right + 1
        /\ ws[1].left = from /\ ws[A].right + 1 = mid
    BY <1>1, <1>4 DEF Tiles
  <2>3. /\ \A k \in 1..Z : vs[k].left <= vs[k].right
        /\ \A k \in 1..Z-1 : vs[k+1].left = vs[k].right + 1
        /\ vs[1].left = mid /\ vs[Z].right + 1 = to
    BY <1>1, <1>4 DEF Tiles
  <2>. HIDE DEF new, A, Z
  <2>4. ASSUME NEW k \in 1..A+Z PROVE new[k].left <= new[k].right
    <3>1. CASE k \in 1..A
      BY <2>1, <2>2, <3>1
    <3>2. CASE k \notin 1..A
      <4>. DEFINE q == k - A
      <4>1. q \in 1..Z /\ k = A + q
        BY <1>1, <3>2
      <4>. HIDE DEF q
      <4>. QED
        BY <2>1, <2>3, <4>1
    <3>. QED
      BY <3>1, <3>2
  <2>5. ASSUME NEW k \in 1..A+Z-1 PROVE new[k+1].left = new[k].right + 1
    <3>1. CASE k \in 1..A-1
      <4>1. k \in 1..A /\ k + 1 \in 1..A
        BY <1>1, <3>1
      <4>. QED
        BY <2>1, <2>2, <3>1, <4>1
    <3>2. CASE k = A
      <4>1. A \in 1..A /\ 1 \in 1..Z
        BY <1>1, <1>4
      <4>. QED
        BY <2>1, <2>2, <2>3, <3>2, <4>1
    <3>3. CASE k \notin 1..A
      <4>. DEFINE q == k - A
      <4>1. q \in 1..Z /\ q \in 1..Z-1 /\ q + 1 \in 1..Z /\ k = A + q /\ k + 1 = A + (q + 1)
        BY <1>1, <3>3
      <4>. HIDE DEF q
      <4>2. new[k] = vs[q] /\ new[k+1] = vs[q+1]
        BY <2>1, <4>1
      <4>. QED
        BY <2>3, <4>1, <4>2
    <3>. QED
      BY <1>1, <3>1, <3>2, <3>3
  <2>6. new[1].left = from /\ new[A+Z].right + 1 = to
    <3>1. 1 \in 1..A /\ Z \in 1..Z
      BY <1>1, <1>4
    <3>. QED
      BY <2>1, <2>2, <2>3, <3>1
  <2>7. Tiles(new, from, to)
    <3>1. Len(new) = A + Z /\ new # <<>>
      BY <2>1
    <3>2. \A k \in 1..A+Z : new[k].left <= new[k].right
      BY <2>4
    <3>3. \A k \in 1..A+Z-1 : new[k+1].left = new[k].right + 1
      BY <2>5
    <3>. QED
      BY ONLY <1>1, <2>6, <3>1, <3>2, <3>3 DEF Tiles
  <2>. QED
    BY <2>7 DEF new
<1>. QED
  BY <1>2, <1>3, <1>4

\* The words of a tiling are in order.
LEMMA TilesOrder ==
  ASSUME NEW ws \in Seq(IntRanges), NEW from \in Int, NEW to \in Int, Tiles(ws, from, to),
         NEW a \in 1..Len(ws), NEW z \in a..Len(ws)
  PROVE  ws[a].left <= ws[z].left
<1>. DEFINE P(m) == a + m <= Len(ws) => ws[a].left <= ws[a+m].left
            T == {m \in Nat : P(m)}
<1>1. Len(ws) \in Nat /\ \A k \in 1..Len(ws) : ws[k].left \in Int /\ ws[k].right \in Int
  BY RangeEnds
<1>2. P(0)
  BY <1>1
<1>3. ASSUME NEW m \in Nat, P(m) PROVE P(m + 1)
  <2>. SUFFICES ASSUME a + (m + 1) <= Len(ws) PROVE ws[a].left <= ws[a+(m+1)].left
    OBVIOUS
  <2>. DEFINE k == a + m
  <2>1. k \in 1..Len(ws) /\ k \in 1..Len(ws)-1 /\ k + 1 \in 1..Len(ws) /\ a + (m + 1) = k + 1 /\ ws[a].left <= ws[k].left
    BY <1>1, <1>3, SMTT(20)
  <2>. HIDE DEF k, P
  <2>2. ws[k].left <= ws[k].right /\ ws[k+1].left = ws[k].right + 1
    BY <2>1 DEF Tiles
  <2>3. ws[a].left \in Int /\ ws[k].left \in Int /\ ws[k].right \in Int /\ ws[k+1].left \in Int
    BY <1>1, <2>1
  <2>4. ws[a].left <= ws[k+1].left
    BY <2>1, <2>2, <2>3, SMTT(20)
  <2>. QED
    BY <2>1, <2>4
<1>4. T = Nat
  <2>. HIDE DEF P
  <2>1. T \in SUBSET Nat /\ 0 \in T /\ \A m \in T : m + 1 \in T
    BY <1>2, <1>3
  <2>. QED
    BY <2>1, Induction
<1>5. P(z - a)
  <2>1. z - a \in Nat
    BY <1>1
  <2>. HIDE DEF P
  <2>. QED
    BY <1>4, <2>1
<1>. QED
  BY <1>1, <1>5

\* What tiles a part of a text are ranges of the text.
LEMMA TilesRanges ==
  ASSUME NEW len \in Nat, NEW ws \in Seq(IntRanges),
         NEW from \in Nat, NEW to \in 0..len, Tiles(ws, from, to)
  PROVE  ws \in Seq(Ranges(len))
<1>1. Len(ws) \in Nat /\ \A k \in 1..Len(ws) : ws[k].left \in Int /\ ws[k].right \in Int
  BY RangeEnds
<1>2. \A k \in 1..Len(ws) : from <= ws[k].left /\ ws[k].right < to
  BY TilesInside DEF IntRanges
<1>3. \A k \in 1..Len(ws) : ws[k] \in IntRanges
  OBVIOUS
<1>4. ASSUME NEW k \in 1..Len(ws) PROVE ws[k] \in Ranges(len)
  <2>. DEFINE w == ws[k]
  <2>1. w \in IntRanges /\ from <= w.left /\ w.right < to /\ w.left <= w.right
    BY <1>2, <1>3 DEF Tiles
  <2>. HIDE DEF w
  <2>2. w \in Ranges(len)
    BY <2>1 DEF Ranges, IntRanges
  <2>. QED
    BY <2>2 DEF w
<1>. QED
  BY <1>4, SeqOf

-----------------------------------------------------------------------------
(* Parts of a sequence.                                                    *)

\* One element put before a sequence.
LEMMA Prepend ==
  ASSUME NEW R, NEW x \in R, NEW s \in Seq(R)
  PROVE  /\ <<x>> \o s \in Seq(R) /\ Len(<<x>> \o s) = Len(s) + 1 /\ Len(s) \in Nat
         /\ (<<x>> \o s)[1] = x
         /\ \A k \in 2..Len(s)+1 : (<<x>> \o s)[k] = s[k-1]
<1>. DEFINE u == <<x>>
<1>1. u \in Seq(R) /\ Len(u) = 1 /\ u[1] = x /\ Len(s) \in Nat
  OBVIOUS
<1>. HIDE DEF u
<1>2. u \o s \in Seq(R)
  BY <1>1, ConcatProperties
<1>3. Len(u \o s) = Len(s) + 1
  BY <1>1, ConcatProperties
<1>4. \A k \in 1..1+Len(s) : (u \o s)[k] = IF k <= Len(u) THEN u[k] ELSE s[k - Len(u)]
  BY <1>1, ConcatProperties, ZenonT(30)
<1>5. (u \o s)[1] = x
  BY <1>1, <1>4
<1>6. ASSUME NEW k \in 2..Len(s)+1 PROVE (u \o s)[k] = s[k-1]
  <2>1. k \in 1..1+Len(s) /\ ~(k <= Len(u)) /\ k - Len(u) = k - 1
    BY <1>1
  <2>. QED
    BY <1>4, <2>1
<1>. QED
  BY <1>1, <1>2, <1>3, <1>5, <1>6 DEF u

\* A part of a sequence.
LEMMA SubSeqRight ==
  ASSUME NEW R, NEW s \in Seq(R), NEW a \in 0..Len(s), NEW b \in a..Len(s)
  PROVE  /\ SubSeq(s, a + 1, b) \in Seq(R)
         /\ Len(SubSeq(s, a + 1, b)) = b - a
         /\ \A k \in 1..b-a : SubSeq(s, a + 1, b)[k] = s[a + k]
<1>1. Len(s) \in Nat /\ a \in Nat /\ b \in Nat /\ a <= b
  OBVIOUS
<1>2. SubSeq(s, a + 1, b) = [i \in 1..(1+b-(a+1)) |-> s[i+(a+1)-1]]
  BY <1>1
<1>3. 1+b-(a+1) = b - a /\ b - a \in Nat /\ \A k \in 1..b-a : k+(a+1)-1 = a + k /\ a + k \in 1..Len(s)
  BY <1>1
<1>4. \A k \in 1..Len(s) : s[k] \in R
  OBVIOUS
<1>5. SubSeq(s, a + 1, b) = [i \in 1..b-a |-> s[a+i]]
  BY <1>2, <1>3
<1>. QED
  BY <1>3, <1>4, <1>5

\* Two parts of a sequence, one where the other ends.
LEMMA SubSeqConcat ==
  ASSUME NEW R, NEW s \in Seq(R), NEW a \in 0..Len(s), NEW b \in a..Len(s)
  PROVE  SubSeq(s, 1, a) \o SubSeq(s, a + 1, b) = SubSeq(s, 1, b)
<1>. DEFINE u == SubSeq(s, 0 + 1, a)
            v == SubSeq(s, a + 1, b)
            w == SubSeq(s, 0 + 1, b)
<1>1. Len(s) \in Nat /\ a \in Nat /\ b \in Nat /\ a <= b /\ 0 \in 0..Len(s) /\ a \in 0..Len(s) /\ b \in 0..Len(s)
  OBVIOUS
<1>2. u \in Seq(R) /\ Len(u) = a /\ \A k \in 1..a : u[k] = s[k]
  BY <1>1, SubSeqRight
<1>3. v \in Seq(R) /\ Len(v) = b - a /\ \A k \in 1..b-a : v[k] = s[a + k]
  BY <1>1, SubSeqRight
<1>4. w \in Seq(R) /\ Len(w) = b /\ \A k \in 1..b : w[k] = s[k]
  BY <1>1, SubSeqRight
<1>. HIDE DEF u, v, w
<1>5. u \o v \in Seq(R) /\ Len(u \o v) = b
  BY <1>1, <1>2, <1>3, ConcatProperties
<1>6. \A k \in 1..a+(b-a) : (u \o v)[k] = IF k <= a THEN u[k] ELSE v[k - a]
  BY <1>1, <1>2, <1>3, ConcatProperties
<1>7. ASSUME NEW k \in 1..b PROVE (u \o v)[k] = w[k]
  <2>1. a + (b - a) = b /\ k \in 1..a+(b-a)
    BY <1>1
  <2>2. CASE k <= a
    BY <1>1, <1>2, <1>4, <1>6, <2>1, <2>2
  <2>3. CASE ~(k <= a)
    <3>1. k - a \in 1..b-a /\ a + (k - a) = k
      BY <1>1, <2>3
    <3>. QED
      BY <1>3, <1>4, <1>6, <2>1, <2>3, <3>1
  <2>. QED
    BY <2>2, <2>3
<1>8. u \o v = [k \in 1..b |-> (u \o v)[k]] /\ w = [k \in 1..b |-> w[k]]
  <2>1. \A t \in Seq(R) : t = [k \in 1..Len(t) |-> t[k]]
    OBVIOUS
  <2>. QED
    BY <1>4, <1>5, <2>1
<1>9. u \o v = w
  BY <1>7, <1>8
<1>10. 0 + 1 = 1
  OBVIOUS
<1>. QED
  BY <1>9, <1>10 DEF u, v, w

\* A sequence put together from its elements, one by one.
LEMMA ConcatSingles ==
  ASSUME NEW R, NEW s \in Seq(R), NEW parts,
         parts = [k \in 1..Len(s) |-> <<s[k]>>]
  PROVE  Concat(parts) = s
<1>. DEFINE N == Len(s)
<1>1. N \in Nat /\ \A k \in 1..N : s[k] \in R
  OBVIOUS
<1>2. Len(parts) = N /\ \A k \in 1..N : parts[k] = <<s[k]>> /\ parts[k] \in Seq(R)
  <2>. HIDE DEF N
  <2>1. parts = [k \in 1..N |-> <<s[k]>>]
    BY DEF N
  <2>2. \A k \in 1..N : parts[k] = <<s[k]>>
    BY <2>1
  <2>3. Len(parts) = N
    BY <1>1, <2>1
  <2>. QED
    BY <1>1, <2>2, <2>3
<1>3. PICK upto \in [0..Len(parts) -> Seq(R)] :
        Concat(parts) = upto[Len(parts)] /\ ConcatSteps(upto, parts)
  <2>. HIDE DEF N
  <2>1. Len(parts) \in Nat /\ \A k \in 1..Len(parts) : parts[k] \in Seq(R)
    BY <1>1, <1>2
  <2>. QED
    BY <2>1, ConcatDef
<1>10. upto[0] = <<>> /\ \A k \in 1..N : upto[k] = upto[k-1] \o parts[k]
  BY <1>2, <1>3 DEF ConcatSteps
<1>. DEFINE P(m) == m <= N => Len(upto[m]) = m /\ \A k \in 1..m : upto[m][k] = s[k]
            T == {m \in Nat : P(m)}
<1>. HIDE DEF N
<1>4. P(0)
  BY <1>10
<1>5. ASSUME NEW m \in Nat, P(m) PROVE P(m + 1)
  <2>. SUFFICES ASSUME m + 1 <= N
                PROVE  Len(upto[m+1]) = m + 1 /\ \A k \in 1..m+1 : upto[m+1][k] = s[k]
    OBVIOUS
  <2>. DEFINE u == upto[m]
  <2>1. m + 1 \in 1..N /\ (m + 1) - 1 = m /\ m \in 0..N
    BY <1>1
  <2>2. u \in Seq(R)
    BY <1>2, <1>3, <2>1
  <2>5. Len(u) = m /\ \A k \in 1..m : u[k] = s[k]
    <3>1. m <= N
      BY <2>1
    <3>. QED
      BY <1>5, <3>1
  <2>3. upto[m+1] = u \o <<s[m+1]>> /\ s[m+1] \in R
    BY <1>1, <1>2, <1>10, <2>1
  <2>. HIDE DEF u, P
  <2>4. upto[m+1] = Append(u, s[m+1])
    BY <2>2, <2>3, AppendIsConcat
  <2>. QED
    BY <2>2, <2>3, <2>4, <2>5
<1>6. T = Nat
  <2>. HIDE DEF P
  <2>1. T \in SUBSET Nat /\ 0 \in T /\ \A m \in T : m + 1 \in T
    BY <1>4, <1>5
  <2>. QED
    BY <2>1, Induction
<1>7. P(N)
  <2>. HIDE DEF P
  <2>. QED
    BY <1>1, <1>6
<1>8. Len(upto[N]) = N /\ (\A k \in 1..N : upto[N][k] = s[k]) /\ upto[N] \in Seq(R)
  BY <1>1, <1>2, <1>3, <1>7
<1>9. upto[N] = s
  <2>1. \A t \in Seq(R) : t = [k \in 1..Len(t) |-> t[k]]
    OBVIOUS
  <2>2. upto[N] = [k \in 1..N |-> upto[N][k]] /\ s = [k \in 1..N |-> s[k]]
    BY <1>8, <2>1 DEF N
  <2>. QED
    BY <1>8, <2>2
<1>. QED
  BY <1>2, <1>3, <1>9

\* G gives the k-th value, in S, from the one before it; a is the first.
Stepwise(N, S, a, G) == N \in Nat /\ a \in S /\ \A k \in 1..N : \A x \in S : G[k][x] \in S

Steps(f, N, a, G) == f = [k \in 0..N |-> f[k]] /\ f[0] = a /\ \A k \in 1..N : f[k] = G[k][f[k-1]]

\* Whatever gives each value from the one before it defines a function.
LEMMA StepsExist ==
  ASSUME NEW N, NEW S, NEW a, NEW G, Stepwise(N, S, a, G)
  PROVE  \E f \in [0..N -> S] : Steps(f, N, a, G)
<1>. USE DEF Stepwise, Steps
<1>. DEFINE H == [k \in 0..N |-> [g \in [0..k-1 -> S] |-> IF k = 0 THEN a ELSE G[k][g[k-1]]]]
<1>1. ASSUME NEW k \in 0..N, NEW g \in [0..k-1 -> S]
      PROVE  H[k][g] = (IF k = 0 THEN a ELSE G[k][g[k-1]]) /\ H[k][g] \in S
  <2>1. H[k][g] = IF k = 0 THEN a ELSE G[k][g[k-1]]
    OBVIOUS
  <2>. HIDE DEF H
  <2>2. CASE k = 0
    BY <2>1, <2>2
  <2>3. CASE k # 0
    <3>1. g[k-1] \in S /\ k \in 1..N
      BY <2>3
    <3>. QED
      BY <2>1, <2>3, <3>1
  <2>. QED
    BY <2>2, <2>3
<1>. HIDE DEF H
<1>2. PICK f \in [0..N -> S] : Follows(f, N, H)
  BY <1>1, CourseExists DEF Course
<1>3. ASSUME NEW k \in 0..N PROVE f[k] = IF k = 0 THEN a ELSE G[k][f[k-1]]
  <2>1. [j \in 0..k-1 |-> f[j]] \in [0..k-1 -> S] /\ (k # 0 => k - 1 \in 0..k-1)
    OBVIOUS
  <2>2. f[k] = H[k][[j \in 0..k-1 |-> f[j]]]
    BY <1>2 DEF Follows
  <2>. QED
    BY <1>1, <2>1, <2>2
<1>. QED
  BY <1>3

\* What is at a place to keep is picked.
LEMMA SelectedAll ==
  ASSUME NEW R, NEW s \in Seq(R), NEW keep, NEW a \in 1..Len(s), a \in keep
  PROVE  \E j \in 1..Len(Selected(s, keep)) : Selected(s, keep)[j] = s[a]
<1>1. PICK N : N = Len(s)
  OBVIOUS
<1>2. N \in Nat /\ s \in [1..N -> R] /\ a \in 1..N
  BY <1>1
<1>3. PICK upto \in [0..N -> Seq(R)] : Selected(s, keep) = upto[N] /\ SelectsUpto(upto, s, keep)
  BY <1>1, SelectedDef
<1>4. /\ \A k \in 1..N : k \in keep => upto[k] = Append(upto[k-1], s[k])
      /\ \A k \in 1..N : k \notin keep => upto[k] = upto[k-1]
  BY <1>1, <1>3 DEF SelectsUpto
<1>. DEFINE P(m) == a + m <= N => \E j \in 1..Len(upto[a+m]) : upto[a+m][j] = s[a]
            T == {m \in Nat : P(m)}
<1>6. \A u \in Seq(R) : \A v \in R :
         /\ Len(u) \in Nat /\ Len(Append(u, v)) = Len(u) + 1 /\ Append(u, v)[Len(u) + 1] = v
         /\ \A j \in 1..Len(u) : Append(u, v)[j] = u[j]
  OBVIOUS
<1>7. P(0)
  <2>0. a - 1 \in 0..N
    BY <1>2
  <2>1. upto[a-1] \in Seq(R) /\ s[a] \in R /\ upto[a] = Append(upto[a-1], s[a])
    BY <1>2, <1>3, <1>4, <2>0
  <2>2. PICK j : j = Len(upto[a-1]) + 1
    OBVIOUS
  <2>3. j \in 1..Len(upto[a]) /\ upto[a][j] = s[a]
    BY <1>6, <2>1, <2>2
  <2>4. a + 0 = a
    OBVIOUS
  <2>. QED
    BY <2>3, <2>4
<1>8. ASSUME NEW m \in Nat, P(m) PROVE P(m + 1)
  <2>. SUFFICES ASSUME a + (m + 1) <= N
       PROVE  \E j \in 1..Len(upto[a+(m+1)]) : upto[a+(m+1)][j] = s[a]
    OBVIOUS
  <2>1. PICK b : b = a + m
    OBVIOUS
  <2>2. /\ b \in 0..N /\ b + 1 \in 1..N /\ (b + 1) - 1 = b /\ a + (m + 1) = b + 1
        /\ upto[b] \in Seq(R) /\ s[b+1] \in R
    BY <1>2, <1>3, <2>1
  <2>3. PICK j \in 1..Len(upto[b]) : upto[b][j] = s[a]
    BY <1>8, <2>1, <2>2
  <2>4. upto[b+1] = upto[b] \/ upto[b+1] = Append(upto[b], s[b+1])
    BY <1>4, <2>2
  <2>5. j \in 1..Len(upto[b+1]) /\ upto[b+1][j] = s[a]
    <3>1. PICK u, v, w : u = upto[b] /\ v = s[b+1] /\ w = upto[b+1]
      OBVIOUS
    <3>2. CASE w = u
      BY <2>3, <3>1, <3>2
    <3>3. CASE w = Append(u, v)
      <4>1. u \in Seq(R) /\ v \in R /\ j \in 1..Len(u) /\ u[j] = s[a]
        BY <2>2, <2>3, <3>1
      <4>2. Len(u) \in Nat /\ Len(w) = Len(u) + 1 /\ w[j] = u[j]
        BY <1>6, <3>3, <4>1
      <4>3. j \in 1..Len(w)
        BY <4>1, <4>2
      <4>. QED
        BY <3>1, <4>1, <4>2, <4>3
    <3>. QED
      BY <2>4, <3>1, <3>2, <3>3
  <2>. QED
    BY <2>2, <2>5
<1>9. \A m \in Nat : P(m)
  <2>. HIDE DEF P
  <2>1. T \in SUBSET Nat /\ 0 \in T /\ \A m \in T : m + 1 \in T
    BY <1>7, <1>8
  <2>2. T = Nat
    BY <2>1, Induction
  <2>. QED
    BY <2>2
<1>10. PICK m : m = N - a
  OBVIOUS
<1>11. m \in Nat /\ a + m = N
  BY <1>2, <1>10
<1>12. P(m)
  <2>. HIDE DEF P
  <2>. QED
    BY <1>9, <1>11
<1>13. a + m <= N
  BY <1>2, <1>11
<1>14. \E j \in 1..Len(upto[a+m]) : upto[a+m][j] = s[a]
  BY <1>12, <1>13
<1>. QED
  BY <1>3, <1>11, <1>14

\* Numbers in order stay in order.
LEMMA SelectedOrder ==
  ASSUME NEW s \in Seq(Int), NEW keep,
         \A a, b \in 1..Len(s) : a < b => s[a] < s[b]
  PROVE  /\ Selected(s, keep) \in Seq(Int)
         /\ \A a, b \in 1..Len(Selected(s, keep)) :
              a < b => Selected(s, keep)[a] < Selected(s, keep)[b]
<1>1. PICK N : N = Len(s)
  OBVIOUS
<1>2. N \in Nat /\ s \in [1..N -> Int] /\ \A a, b \in 1..N : a < b => s[a] < s[b]
  BY <1>1
<1>3. PICK upto \in [0..N -> Seq(Int)] : Selected(s, keep) = upto[N] /\ SelectsUpto(upto, s, keep)
  BY <1>1, SelectedDef
<1>4. /\ upto[0] = <<>>
      /\ \A k \in 1..N : upto[k] = IF k \in keep THEN Append(upto[k-1], s[k]) ELSE upto[k-1]
  BY <1>1, <1>3 DEF SelectsUpto
<1>5. \A u \in Seq(Int) : \A v \in Int :
         /\ Len(u) \in Nat /\ Len(Append(u, v)) = Len(u) + 1 /\ Append(u, v)[Len(u) + 1] = v
         /\ \A j \in 1..Len(u) : Append(u, v)[j] = u[j] /\ u[j] \in Int
  OBVIOUS
<1>. DEFINE P(m) == m <= N =>
              /\ \A a, b \in 1..Len(upto[m]) : a < b => upto[m][a] < upto[m][b]
              /\ \A a \in 1..Len(upto[m]) : \A k \in m+1..N : upto[m][a] < s[k]
            T == {m \in Nat : P(m)}
<1>6. P(0)
  BY <1>4
<1>7. ASSUME NEW m \in Nat, P(m) PROVE P(m + 1)
  <2>. SUFFICES ASSUME m + 1 <= N
       PROVE  /\ \A a, b \in 1..Len(upto[m+1]) : a < b => upto[m+1][a] < upto[m+1][b]
              /\ \A a \in 1..Len(upto[m+1]) : \A k \in m+2..N : upto[m+1][a] < s[k]
    OBVIOUS
  <2>1. PICK u, v, w : u = upto[m] /\ v = s[m+1] /\ w = upto[m+1]
    OBVIOUS
  <2>2. /\ u \in Seq(Int) /\ v \in Int /\ m + 1 \in 1..N /\ (m + 1) - 1 = m
        /\ w = Append(u, v) \/ w = u
    <3>1. m + 1 \in 1..N /\ (m + 1) - 1 = m /\ m \in 0..N
      BY <1>2
    <3>2. upto[m+1] = Append(upto[m], s[m+1]) \/ upto[m+1] = upto[m]
      BY <1>4, <3>1
    <3>. QED
      BY <1>2, <2>1, <3>1, <3>2
  <2>3. /\ \A a, b \in 1..Len(u) : a < b => u[a] < u[b]
        /\ \A a \in 1..Len(u) : u[a] < v /\ \A k \in m+2..N : u[a] < s[k]
    <3>1. m <= N /\ m + 1 \in m+1..N /\ \A k \in m+2..N : k \in m+1..N
      BY <1>2
    <3>2. /\ \A a, b \in 1..Len(u) : a < b => u[a] < u[b]
          /\ \A a \in 1..Len(u) : \A k \in m+1..N : u[a] < s[k]
      BY <1>7, <2>1, <3>1
    <3>. QED
      BY <2>1, <3>1, <3>2
  <2>4. \A k \in m+2..N : v < s[k]
    BY <1>2, <2>1
  <2>5. CASE w = u
    BY <2>1, <2>3, <2>5
  <2>6. CASE w = Append(u, v)
    <3>1. /\ Len(u) \in Nat /\ Len(w) = Len(u) + 1 /\ w[Len(u) + 1] = v
          /\ \A j \in 1..Len(u) : w[j] = u[j] /\ u[j] \in Int
      BY <1>5, <2>2, <2>6
    <3>2. \A a \in 1..Len(w) : a \in 1..Len(u) \/ a = Len(u) + 1
      BY <3>1
    <3>3. \A a, b \in 1..Len(w) : a < b => w[a] < w[b]
      <4>. TAKE a, b \in 1..Len(w)
      <4>. HAVE a < b
      <4>1. a \in 1..Len(u)
        BY <3>1
      <4>. QED
        BY <2>3, <3>1, <3>2, <4>1
    <3>4. \A a \in 1..Len(w) : \A k \in m+2..N : w[a] < s[k]
      BY <2>3, <2>4, <3>1, <3>2
    <3>. QED
      BY <2>1, <3>3, <3>4
  <2>. QED
    BY <2>2, <2>5, <2>6
<1>8. P(N)
  <2>. HIDE DEF P
  <2>1. T \in SUBSET Nat /\ 0 \in T /\ \A m \in T : m + 1 \in T
    BY <1>6, <1>7
  <2>2. T = Nat
    BY <2>1, Induction
  <2>. QED
    BY <1>2, <2>2
<1>. QED
  BY <1>2, <1>3, <1>8

\* A set of natural numbers up to some B that is not empty has a greatest member.
LEMMA GreatestNatural ==
  ASSUME NEW B \in Nat, NEW A \in SUBSET (0..B), A # {}
  PROVE  \E x \in A : \A y \in A : y <= x
<1>. DEFINE D == {d \in 0..B : B - d \in A}
<1>1. D \in SUBSET Nat /\ D # {}
  <2>1. PICK x \in A : TRUE
    OBVIOUS
  <2>2. B - (B - x) = x /\ B - x \in 0..B
    OBVIOUS
  <2>3. B - x \in D
    BY <2>1, <2>2
  <2>4. D \in SUBSET Nat
    OBVIOUS
  <2>. QED
    BY <2>3, <2>4
<1>2. PICK d \in D : \A e \in D : d <= e
  <2>. HIDE DEF D
  <2>. QED
    BY <1>1, LeastNatural
<1>3. ASSUME NEW y \in A PROVE y <= B - d
  <2>1. B - (B - y) = y /\ B - y \in 0..B
    OBVIOUS
  <2>2. d <= B - y
    BY <1>2, <2>1
  <2>. QED
    BY <2>1, <2>2
<1>. QED
  BY <1>2, <1>3

\* what is in a sequence
Members(s) == {s[j] : j \in 1..Len(s)}

LEMMA MembersConcat ==
  ASSUME NEW R, NEW a \in Seq(R), NEW b \in Seq(R)
  PROVE  a \o b \in Seq(R) /\ Members(a \o b) = Members(a) \cup Members(b)
<1>1. PICK c : c = a \o b
  OBVIOUS
<1>2. /\ c \in Seq(R) /\ Len(c) = Len(a) + Len(b) /\ Len(a) \in Nat /\ Len(b) \in Nat
      /\ \A j \in 1..Len(a) : c[j] = a[j]
      /\ \A j \in 1..Len(b) : c[Len(a) + j] = b[j]
  BY <1>1
<1>3. ASSUME NEW x \in Members(c) PROVE x \in Members(a) \cup Members(b)
  <2>1. PICK j \in 1..Len(c) : x = c[j]
    BY DEF Members
  <2>2. CASE j \in 1..Len(a)
    BY <1>2, <2>1, <2>2 DEF Members
  <2>3. CASE j \notin 1..Len(a)
    <3>1. PICK k : k = j - Len(a)
      OBVIOUS
    <3>2. k \in 1..Len(b) /\ j = Len(a) + k
      BY <1>2, <2>3, <3>1
    <3>. QED
      BY <1>2, <2>1, <3>2 DEF Members
  <2>. QED
    BY <2>2, <2>3
<1>4. ASSUME NEW j \in 1..Len(a) PROVE a[j] \in Members(c)
  BY <1>2 DEF Members
<1>5. ASSUME NEW j \in 1..Len(b) PROVE b[j] \in Members(c)
  <2>1. PICK k : k = Len(a) + j
    OBVIOUS
  <2>2. k \in 1..Len(c) /\ c[k] = b[j]
    BY <1>2, <2>1
  <2>. QED
    BY <2>2 DEF Members
<1>6. Members(c) = Members(a) \cup Members(b)
  BY <1>3, <1>4, <1>5 DEF Members
<1>. QED
  BY <1>1, <1>2, <1>6
=============================================================================
