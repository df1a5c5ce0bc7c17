------------------------ MODULE ParserSessionProofs -------------------------
(***************************************************************************)
(* Parser sessions, for any number of sessions, any texts and dictionaries *)
(* and whatever resets and errors come in between:                         *)
(*   - decoding is the inverse of encoding, and what it gives lies end to  *)
(*     end in the text;                                                    *)
(*   - so the bytes of a cut's words are those of the text;                *)
(*   - the words of a session are its own (IInv), what it delivered are    *)
(*     the first of them (SInv), and only errors leak vectors (LeakInv).   *)
(***************************************************************************)
EXTENDS ParserSession, TilingProofs

-----------------------------------------------------------------------------
(* Decoding.                                                               *)

\* the bytes of each rune
Spans(runes) ==
  [k \in 1..Len(runes) |-> WordRange(runes[k].offset, runes[k].offset + runes[k].len - 1)]

\* A rune is where it was looked for, and takes no more bytes than there are.
LEMMA DecodeRuneRight ==
  ASSUME NEW s, Len(s) \in Nat, NEW i \in 0..Len(s)-1
  PROVE  DecodeRune(s, i).offset = i /\ DecodeRune(s, i).len \in 0..Len(s)-i
<1>. DEFINE size == SizeByLead(s[i + 1])
            bits == CHOOSE b : b = [j \in 0..size-1 |->
                      IF j = 0 THEN s[i + 1] % (IF size = 1 THEN 128 ELSE 2 ^ (7 - size))
                               ELSE b[j - 1] * 64 + (s[i + 1 + j] % 64)]
<1>1. DecodeRune(s, i) = IF size \in 1..Len(s) - i THEN [rune |-> bits[size - 1], offset |-> i, len |-> size]
                                ELSE [rune |-> 0, offset |-> i, len |-> 0]
  BY DEF DecodeRune
<1>. HIDE DEF size, bits
<1>. QED
  BY <1>1

\* what DecodeRuneInString can return
Decoded(s) == {DecodeRune(s, j) : j \in 0..Len(s)-1}

\* from[i]: what decoding from byte i on gives
DecodeSteps(from, s) ==
  /\ from[Len(s)] = [ok |-> TRUE, runes |-> <<>>]
  /\ \A i \in 0..Len(s)-1 :
       from[i] = IF DecodeRune(s, i).len = 0 \/ ~from[i + DecodeRune(s, i).len].ok THEN Failed
                 ELSE [ok |-> TRUE, runes |-> <<DecodeRune(s, i)>> \o from[i + DecodeRune(s, i).len].runes]
  /\ \A i \in 0..Len(s) : from[i] \in [ok: BOOLEAN, runes: Seq(Decoded(s))]

\* Decoding is what its recursion says: all or nothing.
LEMMA DecodeRunesDef ==
  ASSUME NEW s, Len(s) \in Nat
  PROVE  \E from : DecodeRunes(s) = from[0] /\ DecodeSteps(from, s)
<1>. DEFINE N == Len(s)
            r(i) == DecodeRune(s, i)
            R == {r(j) : j \in 0..N-1}
            S == [ok: BOOLEAN, runes: Seq(R)]
            All == [ok |-> TRUE, runes |-> <<>>]
            On(g, i) == IF i = N THEN All
                        ELSE IF r(i).len = 0 \/ ~g[i + r(i).len].ok THEN Failed
                        ELSE [ok |-> TRUE, runes |-> <<r(i)>> \o g[i + r(i).len].runes]
            G(g) == [i \in 0..N |-> On(g, i)]
            from == CHOOSE g : g = G(g)
            Back(g, k) == [i \in N-k+1..N |-> g[N - i]]
            H == [k \in 0..N |-> [g \in [0..k-1 -> S] |-> On(Back(g, k), N - k)]]
<1>1. DecodeRunes(s) = from[0]
  BY DEF DecodeRunes
<1>. HIDE DEF from
<1>2. N \in Nat /\ \A i \in 0..N-1 : r(i).len \in 0..N-i /\ r(i) \in R
  BY DecodeRuneRight
<1>3. \A g : On(g, N) = All /\ \A i \in 0..N-1 :
        On(g, i) = IF r(i).len = 0 \/ ~g[i + r(i).len].ok THEN Failed
                   ELSE [ok |-> TRUE, runes |-> <<r(i)>> \o g[i + r(i).len].runes]
  <2>. HIDE DEF r, R, All
  <2>. QED
    BY <1>2
<1>4. All \in S /\ Failed \in S
  BY DEF Failed
<1>. HIDE DEF N, r, R, All, On
<1>5. ASSUME NEW i \in 0..N, NEW g, \A j \in i+1..N : g[j] \in S PROVE On(g, i) \in S
  <2>1. CASE i = N
    BY <1>3, <1>4, <2>1
  <2>2. CASE i # N
    <3>1. i \in 0..N-1
      BY <1>2, <2>2
    <3>2. CASE r(i).len = 0 \/ ~g[i + r(i).len].ok
      BY <1>3, <1>4, <3>1, <3>2
    <3>3. CASE ~(r(i).len = 0 \/ ~g[i + r(i).len].ok)
      <4>1. i + r(i).len \in i+1..N
        BY <1>2, <3>1, <3>3
      <4>2. g[i + r(i).len].runes \in Seq(R) /\ <<r(i)>> \in Seq(R)
        BY <1>2, <1>5, <3>1, <4>1
      <4>3. <<r(i)>> \o g[i + r(i).len].runes \in Seq(R)
        BY <4>2, ConcatProperties
      <4>4. On(g, i) = [ok |-> TRUE, runes |-> <<r(i)>> \o g[i + r(i).len].runes]
        BY <1>3, <3>1, <3>3
      <4>. DEFINE rest == <<r(i)>> \o g[i + r(i).len].runes
      <4>5. On(g, i) = [ok |-> TRUE, runes |-> rest] /\ rest \in Seq(R)
        BY <4>3, <4>4
      <4>. HIDE DEF rest
      <4>. QED
        BY <4>5
    <3>. QED
      BY <3>2, <3>3
  <2>. QED
    BY <2>1, <2>2
<1>6. ASSUME NEW i \in 0..N, NEW g, NEW h, \A j \in i+1..N : g[j] = h[j] PROVE On(g, i) = On(h, i)
  <2>1. CASE i = N
    BY <1>3, <2>1
  <2>2. CASE i # N
    <3>1. i \in 0..N-1
      BY <1>2, <2>2
    <3>2. CASE r(i).len = 0
      BY <1>3, <3>1, <3>2
    <3>3. CASE r(i).len # 0
      <4>1. i + r(i).len \in i+1..N
        BY <1>2, <3>1, <3>3
      <4>2. g[i + r(i).len] = h[i + r(i).len]
        BY <1>6, <4>1
      <4>. QED
        BY <1>3, <3>1, <4>2
    <3>. QED
      BY <3>2, <3>3
  <2>. QED
    BY <2>1, <2>2
<1>. HIDE DEF S
<1>7. Course(N, S, H)
  <2>1. ASSUME NEW k \in 0..N, NEW g \in [0..k-1 -> S] PROVE H[k][g] \in S
    <3>1. N - k \in 0..N /\ \A j \in (N-k)+1..N : Back(g, k)[j] \in S
      BY <1>2
    <3>. HIDE DEF Back
    <3>2. On(Back(g, k), N - k) \in S
      BY <1>5, <3>1
    <3>. QED
      BY <3>2
  <2>. HIDE DEF H
  <2>. QED
    BY <1>2, <2>1 DEF Course
<1>8. PICK f \in [0..N -> S] : Follows(f, N, H)
  <2>. HIDE DEF H
  <2>. QED
    BY <1>7, CourseExists
<1>. DEFINE h == [i \in 0..N |-> f[N - i]]
<1>9. h = G(h)
  <2>1. ASSUME NEW i \in 0..N PROVE h[i] = On(h, i)
    <3>. DEFINE k == N - i
                g == [j \in 0..k-1 |-> f[j]]
    <3>1. k \in 0..N /\ g \in [0..k-1 -> S] /\ N - k = i /\ h[i] = f[k]
      BY <1>2
    <3>2. f[k] = H[k][g]
      BY <1>8, <3>1 DEF Follows
    <3>3. \A j \in i+1..N : Back(g, k)[j] = h[j]
      BY <1>2
    <3>4. H[k][g] = On(Back(g, k), i)
      <4>. HIDE DEF g, k, Back
      <4>. QED
        BY <3>1
    <3>5. On(Back(g, k), i) = On(h, i)
      <4>. HIDE DEF g, h, k, Back
      <4>. QED
        BY <1>6, <3>3
    <3>. QED
      BY <3>1, <3>2, <3>4, <3>5
  <2>. QED
    BY <2>1
<1>10. from = G(from)
  <2>. HIDE DEF h, G
  <2>. QED
    BY <1>9 DEF from
<1>11. \A i \in 0..N : from[i] = On(from, i)
  BY <1>10
<1>. HIDE DEF G
<1>12. \A i \in 0..N : from[i] \in S
  <2>. DEFINE P(m) == \A k \in 0..m : k <= N => from[N - k] \in S
              T == {m \in Nat : P(m)}
  <2>1. P(0)
    <3>1. from[N] \in S
      BY <1>2, <1>3, <1>4, <1>11
    <3>. QED
      BY <1>2, <3>1
  <2>2. ASSUME NEW m \in Nat, P(m) PROVE P(m + 1)
    <3>. SUFFICES ASSUME m + 1 <= N PROVE from[N - (m + 1)] \in S
      BY <2>2
    <3>. DEFINE i == N - (m + 1)
    <3>1. i \in 0..N
      BY <1>2
    <3>2. ASSUME NEW j \in i+1..N PROVE from[j] \in S
      <4>1. N - j \in 0..m /\ N - j <= N /\ N - (N - j) = j
        BY <1>2
      <4>. HIDE DEF i
      <4>. QED
        BY <2>2, <4>1
    <3>. HIDE DEF i
    <3>3. from[i] \in S
      BY <1>5, <1>11, <3>1, <3>2
    <3>. QED
      BY <3>3 DEF i
  <2>3. T = Nat
    <3>. HIDE DEF P
    <3>1. T \in SUBSET Nat /\ 0 \in T /\ \A m \in T : m + 1 \in T
      BY <2>1, <2>2
    <3>. QED
      BY <3>1, Induction
  <2>4. P(N)
    <3>. HIDE DEF P
    <3>. QED
      BY <1>2, <2>3
  <2>5. ASSUME NEW i \in 0..N PROVE from[i] \in S
    <3>1. N - i \in 0..N /\ N - i <= N /\ N - (N - i) = i
      BY <1>2
    <3>. QED
      BY <2>4, <3>1
  <2>. QED
    BY <2>5
<1>13. from[N] = All /\ \A i \in 0..N-1 : i \in 0..N /\ from[i] = On(from, i)
  BY <1>2, <1>3, <1>11
<1>. HIDE DEF h, H, Back
<1>14. DecodeRunes(s) = from[0] /\ from[Len(s)] = [ok |-> TRUE, runes |-> <<>>]
  BY <1>1, <1>13 DEF All, N
<1>15. \A i \in 0..N-1 : from[i] = IF r(i).len = 0 \/ ~from[i + r(i).len].ok THEN Failed
                   ELSE [ok |-> TRUE, runes |-> <<r(i)>> \o from[i + r(i).len].runes]
  BY <1>3, <1>13
<1>16. \A i \in 0..Len(s)-1 :
         from[i] = IF DecodeRune(s, i).len = 0 \/ ~from[i + DecodeRune(s, i).len].ok THEN Failed
                   ELSE [ok |-> TRUE, runes |-> <<DecodeRune(s, i)>> \o from[i + DecodeRune(s, i).len].runes]
  BY <1>15 DEF r, N
<1>17. \A i \in 0..Len(s) : from[i] \in [ok: BOOLEAN, runes: Seq(Decoded(s))]
  BY <1>12 DEF S, R, r, N, Decoded
<1>18. DecodeSteps(from, s)
  BY <1>14, <1>16, <1>17 DEF DecodeSteps
<1>. QED
  BY <1>14, <1>18

LEMMA DecodedSpan ==
  ASSUME NEW s, Len(s) \in Nat, NEW r \in Decoded(s)
  PROVE  r.offset \in 0..Len(s)-1 /\ r.len \in Nat
BY DecodeRuneRight DEF Decoded

\* The spans of runes, and of one rune more before them.
LEMMA SpansType ==
  ASSUME NEW s, Len(s) \in Nat, NEW rs \in Seq(Decoded(s))
  PROVE  /\ Spans(rs) \in Seq(IntRanges) /\ Len(Spans(rs)) = Len(rs) /\ Len(rs) \in Nat
         /\ \A k \in 1..Len(rs) : /\ rs[k].offset \in Int /\ rs[k].len \in Int
                                  /\ Spans(rs)[k] = WordRange(rs[k].offset, rs[k].offset + rs[k].len - 1)
<1>1. Len(rs) \in Nat /\ \A k \in 1..Len(rs) : rs[k] \in Decoded(s)
  OBVIOUS
<1>2. \A k \in 1..Len(rs) : rs[k].offset \in Int /\ rs[k].len \in Int
  BY <1>1, DecodedSpan
<1>. DEFINE span(k) == WordRange(rs[k].offset, rs[k].offset + rs[k].len - 1)
<1>3. \A k \in 1..Len(rs) : span(k) \in IntRanges
  BY <1>2 DEF WordRange, IntRanges
<1>4. Spans(rs) = [k \in 1..Len(rs) |-> span(k)]
  BY DEF Spans
<1>. HIDE DEF span
<1>5. Spans(rs) \in Seq(IntRanges) /\ Len(Spans(rs)) = Len(rs) /\ \A k \in 1..Len(rs) : Spans(rs)[k] = span(k)
  BY <1>1, <1>3, <1>4
<1>. QED
  BY <1>1, <1>2, <1>5 DEF span

LEMMA SpansPrepend ==
  ASSUME NEW s, Len(s) \in Nat, NEW r \in Decoded(s), NEW rs \in Seq(Decoded(s))
  PROVE  Spans(<<r>> \o rs) = <<WordRange(r.offset, r.offset + r.len - 1)>> \o Spans(rs)
<1>. DEFINE w == WordRange(r.offset, r.offset + r.len - 1)
            new == <<r>> \o rs
            ws == <<w>> \o Spans(rs)
<1>2. /\ new \in Seq(Decoded(s)) /\ Len(new) = Len(rs) + 1 /\ Len(rs) \in Nat
      /\ new[1] = r /\ \A k \in 2..Len(rs)+1 : new[k] = rs[k-1]
  BY Prepend
<1>3. Spans(rs) \in Seq(IntRanges) /\ Len(Spans(rs)) = Len(rs) /\
      \A k \in 1..Len(rs) : Spans(rs)[k] = WordRange(rs[k].offset, rs[k].offset + rs[k].len - 1)
  BY SpansType
<1>4. w \in IntRanges
  <2>1. r.offset \in Int /\ r.len \in Int
    BY DecodedSpan
  <2>. QED
    BY <2>1 DEF WordRange, IntRanges
<1>. HIDE DEF new, w
<1>5. /\ ws \in Seq(IntRanges) /\ Len(ws) = Len(rs) + 1
      /\ ws[1] = w /\ \A k \in 2..Len(rs)+1 : ws[k] = Spans(rs)[k-1]
  BY <1>2, <1>3, <1>4, Prepend
<1>6. /\ Spans(new) \in Seq(IntRanges) /\ Len(Spans(new)) = Len(rs) + 1
      /\ \A k \in 1..Len(rs)+1 : Spans(new)[k] = WordRange(new[k].offset, new[k].offset + new[k].len - 1)
  BY <1>2, SpansType
<1>. HIDE DEF ws
<1>7. \A k \in 1..Len(rs)+1 : Spans(new)[k] = ws[k]
  <2>1. Spans(new)[1] = w
    BY <1>2, <1>6 DEF w
  <2>2. ASSUME NEW k \in 2..Len(rs)+1 PROVE Spans(new)[k] = ws[k]
    <3>1. k - 1 \in 1..Len(rs) /\ k \in 1..Len(rs)+1
      BY <1>2
    <3>2. ws[k] = Spans(rs)[k-1] /\ new[k] = rs[k-1]
      BY <1>2, <1>5
    <3>3. Spans(rs)[k-1] = WordRange(rs[k-1].offset, rs[k-1].offset + rs[k-1].len - 1)
      BY <1>3, <3>1
    <3>4. Spans(new)[k] = WordRange(new[k].offset, new[k].offset + new[k].len - 1)
      BY <1>6, <3>1
    <3>. QED
      BY <3>2, <3>3, <3>4
  <2>3. \A k \in 1..Len(rs)+1 : k = 1 \/ k \in 2..Len(rs)+1
    BY <1>2
  <2>. QED
    BY <1>5, <2>1, <2>2, <2>3
<1>8. Spans(new) = ws
  <2>1. Spans(new) = [k \in 1..Len(rs)+1 |-> Spans(new)[k]] /\ ws = [k \in 1..Len(rs)+1 |-> ws[k]]
    BY <1>5, <1>6
  <2>. QED
    BY <1>7, <2>1
<1>. QED
  BY <1>8 DEF new, ws, w

\* A text that decodes is tiled by the bytes of its runes; of one that does not no
\* rune is left.
LEMMA DecodeRunesTile ==
  ASSUME NEW s, Len(s) \in Nat
  PROVE  /\ DecodeRunes(s).ok \in BOOLEAN
         /\ DecodeRunes(s).runes \in Seq(Decoded(s))
         /\ IF DecodeRunes(s).ok THEN Tiles(Spans(DecodeRunes(s).runes), 0, Len(s))
                                 ELSE DecodeRunes(s).runes = <<>>
<1>. DEFINE N == Len(s)
            r(i) == DecodeRune(s, i)
<1>1. PICK from : DecodeRunes(s) = from[0] /\ DecodeSteps(from, s)
  BY DecodeRunesDef
<1>2. N \in Nat /\ \A i \in 0..N-1 : r(i).len \in 0..N-i /\ r(i).offset = i /\ r(i) \in Decoded(s)
  BY DecodeRuneRight DEF Decoded
<1>. DEFINE Right(i) == IF from[i].ok THEN Tiles(Spans(from[i].runes), i, N) ELSE from[i].runes = <<>>
            P(m) == \A k \in 0..m : k <= N => Right(N - k)
            T == {m \in Nat : P(m)}
<1>9. /\ from[N] = [ok |-> TRUE, runes |-> <<>>]
      /\ \A i \in 0..N-1 :
           from[i] = IF r(i).len = 0 \/ ~from[i + r(i).len].ok THEN Failed
                     ELSE [ok |-> TRUE, runes |-> <<r(i)>> \o from[i + r(i).len].runes]
      /\ \A i \in 0..N : from[i] \in [ok: BOOLEAN, runes: Seq(Decoded(s))]
  BY <1>1 DEF DecodeSteps
<1>. HIDE DEF N, r
<1>3. P(0)
  <2>1. from[N].ok /\ from[N].runes = <<>>
    BY <1>9
  <2>2. Spans(<<>>) = <<>>
    BY DEF Spans
  <2>3. Right(N)
    BY <2>1, <2>2 DEF Tiles
  <2>. QED
    BY <1>2, <2>3
<1>4. ASSUME NEW m \in Nat, P(m) PROVE P(m + 1)
  <2>. SUFFICES ASSUME m + 1 <= N PROVE Right(N - (m + 1))
    BY <1>4
  <2>. DEFINE i == N - (m + 1)
              l == r(i).len
              j == i + l
              rest == from[j].runes
              w == WordRange(i, j - 1)
  <2>1. i \in 0..N-1 /\ i \in Int /\ N \in Nat
    BY <1>2
  <2>. HIDE DEF i
  <2>2. CASE l = 0 \/ ~from[j].ok
    <3>1. from[i] = Failed
      BY <1>9, <2>1, <2>2
    <3>. QED
      BY <3>1 DEF Failed, i
  <2>3. CASE ~(l = 0 \/ ~from[j].ok)
    <3>1. l \in 1..N-i /\ r(i).offset = i /\ r(i) \in Decoded(s)
      BY <1>2, <2>1, <2>3
    <3>2. j \in i+1..N /\ j \in Int
      BY <2>1, <3>1
    <3>3. from[i].ok /\ from[i].runes = <<r(i)>> \o rest
      <4>1. from[i] = [ok |-> TRUE, runes |-> <<r(i)>> \o rest]
        BY <1>9, <2>1, <2>3
      <4>. HIDE DEF rest
      <4>. QED
        BY <4>1
    <3>4. w = WordRange(r(i).offset, r(i).offset + r(i).len - 1)
      <4>1. r(i).offset + r(i).len - 1 = j - 1
        BY <2>1, <3>1
      <4>. QED
        BY <3>1, <4>1
    <3>. HIDE DEF l, j
    <3>5. from[j].ok /\ rest \in Seq(Decoded(s))
      BY <1>9, <2>1, <2>3, <3>2
    <3>6. Tiles(Spans(rest), j, N)
      <4>1. N - j \in 0..m /\ N - j <= N /\ N - (N - j) = j
        BY <2>1, <3>2 DEF i
      <4>2. Right(j)
        BY <1>4, <4>1
      <4>. QED
        BY <3>5, <4>2
    <3>. HIDE DEF rest, w
    <3>7. Spans(<<r(i)>> \o rest) = <<w>> \o Spans(rest)
      BY <1>2, <3>1, <3>4, <3>5, SpansPrepend DEF N
    <3>8. <<w>> \in Seq(IntRanges) /\ Tiles(<<w>>, i, j)
      <4>1. w \in IntRanges /\ w.left = i /\ w.right = j - 1
        BY <2>1, <3>2 DEF w, WordRange, IntRanges
      <4>2. Len(<<w>>) = 1 /\ <<w>>[1] = w /\ <<w>> # <<>>
        OBVIOUS
      <4>3. i <= j - 1 /\ (j - 1) + 1 = j
        BY <2>1, <3>2
      <4>. QED
        BY <4>1, <4>2, <4>3 DEF Tiles
    <3>9. Spans(rest) \in Seq(IntRanges)
      BY <1>2, <3>5, SpansType DEF N
    <3>10. Tiles(<<w>> \o Spans(rest), i, N)
      <4>. DEFINE u == <<w>>
                  v == Spans(rest)
      <4>1. u \in Seq(IntRanges) /\ v \in Seq(IntRanges) /\ Tiles(u, i, j) /\ Tiles(v, j, N)
        BY <3>6, <3>8, <3>9
      <4>. HIDE DEF u, v, P, Right
      <4>2. Tiles(u \o v, i, N)
        BY ONLY <2>1, <3>2, <4>1, TilesConcat
      <4>. QED
        BY <4>2 DEF u, v
    <3>. QED
      BY <3>3, <3>7, <3>10 DEF i
  <2>. QED
    BY <2>2, <2>3
<1>5. T = Nat
  <2>. HIDE DEF P
  <2>1. T \in SUBSET Nat /\ 0 \in T /\ \A m \in T : m + 1 \in T
    BY <1>3, <1>4
  <2>. QED
    BY <2>1, Induction
<1>6. P(N)
  <2>. HIDE DEF P
  <2>. QED
    BY <1>2, <1>5
<1>7. Right(0)
  <2>1. N \in 0..N /\ N <= N /\ N - N = 0
    BY <1>2
  <2>. HIDE DEF Right
  <2>. QED
    BY <1>6, <2>1
<1>8. from[0] \in [ok: BOOLEAN, runes: Seq(Decoded(s))]
  BY <1>9, <1>2
<1>. QED
  BY <1>1, <1>7, <1>8 DEF N

\* where rune j begins, the text's end for j = Len(runes)
At(text, j) ==
  IF j = Len(DecodeRunes(text).runes) THEN Len(text) ELSE DecodeRunes(text).runes[j + 1].offset

\* The bytes of a word are those from its first rune to the rune behind it.
LEMMA WordBytes ==
  ASSUME NEW text \in Seq(Byte), DecodeRunes(text).ok
  PROVE  /\ Len(DecodeRunes(text).runes) \in Nat
         /\ At(text, 0) = 0 /\ At(text, Len(DecodeRunes(text).runes)) = Len(text)
         /\ \A j \in 0..Len(DecodeRunes(text).runes) : At(text, j) \in 0..Len(text)
         /\ \A l \in 0..Len(DecodeRunes(text).runes), r \in 0..Len(DecodeRunes(text).runes) :
              l <= r => At(text, l) <= At(text, r)
         /\ \A w \in Ranges(Len(DecodeRunes(text).runes)) :
              GetWord(text, DecodeRunes(text).runes, w) = SubSeq(text, At(text, w.left) + 1, At(text, w.right + 1))
<1>. DEFINE rs == DecodeRunes(text).runes
            M == Len(rs)
            N == Len(text)
            spans == Spans(rs)
<1>1. N \in Nat /\ rs \in Seq(Decoded(text)) /\ Tiles(spans, 0, N)
  BY DecodeRunesTile
<1>2. /\ spans \in Seq(IntRanges) /\ Len(spans) = M /\ M \in Nat
      /\ \A k \in 1..M : /\ rs[k].offset \in Int /\ rs[k].len \in Int
                         /\ spans[k] = WordRange(rs[k].offset, rs[k].offset + rs[k].len - 1)
  BY <1>1, SpansType
<1>3. \A k \in 1..M : spans[k].left = rs[k].offset /\ spans[k].right = rs[k].offset + rs[k].len - 1
  <2>1. \A x, y : WordRange(x, y).left = x /\ WordRange(x, y).right = y
    BY DEF WordRange
  <2>. QED
    BY <1>2, <2>1
<1>4. \A j \in 0..M : At(text, j) = IF j = M THEN N ELSE rs[j+1].offset
  BY DEF At
<1>. HIDE DEF rs, N, spans
<1>5. \A k \in 1..M : 0 <= spans[k].left /\ spans[k].right < N
  <2>1. N \in Int /\ 0 \in Int /\ spans \in Seq([left: Int, right: Int])
    BY <1>1, <1>2 DEF IntRanges
  <2>2. \A k \in 1..Len(spans) : 0 <= spans[k].left /\ spans[k].right < N
    BY <1>1, <2>1, TilesInside
  <2>. QED
    BY <1>2, <2>2
<1>6. \A k \in 1..M : spans[k].left <= spans[k].right
  BY <1>1, <1>2 DEF Tiles
<1>7. ASSUME NEW j \in 0..M PROVE At(text, j) \in 0..N
  <2>1. CASE j = M
    BY <1>1, <1>4, <2>1
  <2>2. CASE j # M
    <3>1. j + 1 \in 1..M
      BY <1>2, <2>2
    <3>2. rs[j+1].offset \in Int /\ rs[j+1].len \in Int
      BY <1>2, <3>1
    <3>3. spans[j+1].left \in 0..N
      <4>1. spans[j+1].left \in Int /\ spans[j+1].right \in Int
        BY <1>2, <3>1, RangeEnds
      <4>2. 0 <= spans[j+1].left /\ spans[j+1].left <= spans[j+1].right /\ spans[j+1].right < N
        BY <1>5, <1>6, <3>1
      <4>. QED
        BY <1>1, <4>1, <4>2
    <3>. QED
      BY <1>3, <1>4, <2>2, <3>1, <3>3
  <2>. QED
    BY <2>1, <2>2
<1>8. At(text, M) = N /\ At(text, 0) = 0
  <2>1. At(text, M) = N
    BY <1>2, <1>4
  <2>2. CASE M = 0
    <3>1. N = 0
      BY <1>1, <1>2, <2>2, RangeEnds DEF Tiles
    <3>. QED
      BY <2>1, <2>2, <3>1
  <2>3. CASE M # 0
    <3>1. 1 \in 1..M /\ spans # <<>>
      BY <1>2, <2>3, RangeEnds
    <3>2. spans[1].left = 0
      BY <1>1, <3>1 DEF Tiles
    <3>3. At(text, 0) = rs[0+1].offset
      BY <1>2, <1>4, <2>3
    <3>. QED
      BY <1>3, <2>1, <3>1, <3>2, <3>3
  <2>. QED
    BY <2>2, <2>3
<1>9. ASSUME NEW l \in 0..M, NEW r \in 0..M, l <= r PROVE At(text, l) <= At(text, r)
  <2>1. At(text, l) \in 0..N /\ At(text, r) \in 0..N
    BY <1>7
  <2>2. CASE r = M
    BY <1>1, <1>8, <2>1, <2>2
  <2>3. CASE r # M
    <3>1. l + 1 \in 1..M /\ r + 1 \in l+1..M /\ r + 1 \in 1..M /\ l # M
      BY <1>2, <1>9, <2>3
    <3>2. 0 \in Int /\ N \in Int
      BY <1>1
    <3>3. spans[l+1].left <= spans[r+1].left
      BY <1>1, <1>2, <3>1, <3>2, TilesOrder
    <3>. QED
      BY <1>3, <1>4, <2>3, <3>1, <3>3
  <2>. QED
    BY <2>2, <2>3
<1>10. ASSUME NEW w \in Ranges(M)
       PROVE  GetWord(text, rs, w) = SubSeq(text, At(text, w.left) + 1, At(text, w.right + 1))
  <2>1. w.left \in 0..M-1 /\ w.right \in 0..M-1
    BY <1>2 DEF Ranges
  <2>. DEFINE l == w.left
              r == w.right
  <2>2. l \in 0..M /\ l # M /\ r + 1 \in 0..M /\ r + 1 \in 1..M
    BY <1>2, <2>1
  <2>. HIDE DEF l, r
  <2>3. rs[l+1].offset = At(text, l)
    BY <1>4, <2>2
  <2>4. rs[r+1].offset + rs[r+1].len = spans[r+1].right + 1
    <3>. DEFINE o == rs[r+1].offset
                len == rs[r+1].len
    <3>1. o \in Int /\ len \in Int /\ spans[r+1].right = o + len - 1
      BY <1>2, <1>3, <2>2
    <3>. HIDE DEF o, len
    <3>2. o + len = (o + len - 1) + 1
      BY <3>1
    <3>. QED
      BY <3>1, <3>2 DEF o, len
  <2>5. spans[r+1].right + 1 = At(text, r + 1)
    <3>1. CASE r + 1 = M
      <4>1. spans # <<>> /\ Len(spans) = M
        BY <1>2, <2>2, RangeEnds
      <4>2. spans[M].right + 1 = N
        BY <1>1, <4>1 DEF Tiles
      <4>. QED
        BY <1>8, <3>1, <4>2
    <3>2. CASE r + 1 # M
      <4>1. r + 1 \in 1..Len(spans)-1 /\ (r + 1) + 1 \in 1..M
        BY <1>2, <2>2, <3>2
      <4>2. spans[(r+1)+1].left = spans[r+1].right + 1
        BY <1>1, <4>1 DEF Tiles
      <4>3. At(text, r + 1) = rs[(r+1)+1].offset
        BY <1>4, <2>2, <3>2
      <4>. QED
        BY <1>3, <4>1, <4>2, <4>3
    <3>. QED
      BY <3>1, <3>2
  <2>6. GetWord(text, rs, w) = SubSeq(text, rs[l+1].offset + 1, rs[r+1].offset + rs[r+1].len)
    BY DEF GetWord, l, r
  <2>. QED
    BY <2>3, <2>4, <2>5, <2>6 DEF l, r
<1>. QED
  BY <1>2, <1>7, <1>8, <1>9, <1>10 DEF rs, N

-----------------------------------------------------------------------------
(* Encoding.                                                               *)

\* the lead byte's bits that belong to the rune
Mask(size) == IF size = 1 THEN 128 ELSE 2 ^ (7 - size)

LEMMA MaskValues ==
  /\ Mask(1) = 128 /\ Mask(2) = 32 /\ Mask(3) = 16 /\ Mask(4) = 8
  /\ \A size \in 1..4 : Mask(size) \in {128, 32, 16, 8}
<1>1. 2^5 = 32 /\ 2^4 = 16 /\ 2^3 = 8 /\ 7 - 2 = 5 /\ 7 - 3 = 4 /\ 7 - 4 = 3
  BY SMT
<1>2. Mask(1) = 128
  BY DEF Mask
<1>3. Mask(2) = 32
  BY <1>1 DEF Mask
<1>4. Mask(3) = 16
  BY <1>1 DEF Mask
<1>5. Mask(4) = 8
  BY <1>1 DEF Mask
<1>6. \A size \in 1..4 : size \in {1, 2, 3, 4}
  BY SMT
<1>. QED
  BY <1>2, <1>3, <1>4, <1>5, <1>6

\* bits[j]: the rune's bits up to the byte j behind the lead byte
BitSteps(bits, s, i, size) ==
  /\ bits[0] = s[i + 1] % Mask(size)
  /\ \A j \in 1..size-1 : bits[j] = bits[j - 1] * 64 + (s[i + 1 + j] % 64)

\* A rune that is there is what the recursion over its bytes says.
LEMMA DecodeRuneDef ==
  ASSUME NEW s, NEW i, NEW size \in 1..4, SizeByLead(s[i + 1]) = size, size \in 1..Len(s) - i,
         s[i + 1] \in Byte, \A j \in 0..size-1 : s[i + 1 + j] \in Byte
  PROVE  \E bits \in [0..size-1 -> Int] :
           /\ DecodeRune(s, i) = [rune |-> bits[size - 1], offset |-> i, len |-> size]
           /\ BitSteps(bits, s, i, size)
<1>. DEFINE N == size - 1
            b(j) == s[i + 1 + j]
            On(g, j) == IF j = 0 THEN s[i + 1] % Mask(size) ELSE g[j - 1] * 64 + (b(j) % 64)
            G(g) == [j \in 0..N |-> On(g, j)]
            bits == CHOOSE g : g = G(g)
            H == [k \in 0..N |-> [g \in [0..k-1 -> Int] |-> On(g, k)]]
<1>1. DecodeRune(s, i) = [rune |-> bits[N], offset |-> i, len |-> size]
  BY DEF DecodeRune, Mask
<1>. HIDE DEF bits
<1>2. N \in Nat /\ N = size - 1 /\ \A j \in 0..N : b(j) % 64 \in Int
  <2>1. N \in Nat /\ N = size - 1
    OBVIOUS
  <2>2. \A x \in Byte : x % 64 \in Int
    BY SMT DEF Byte
  <2>3. \A j \in 0..N : b(j) \in Byte
    OBVIOUS
  <2>. HIDE DEF N, b
  <2>. QED
    BY <2>1, <2>2, <2>3
<1>3. s[i + 1] % Mask(size) \in Int
  <2>1. Mask(size) \in {128, 32, 16, 8}
    BY MaskValues
  <2>2. \A m \in {128, 32, 16, 8}, x \in Byte : x % m \in Int
    BY SMT DEF Byte
  <2>. QED
    BY <2>1, <2>2
<1>. HIDE DEF N, b
<1>4. ASSUME NEW k \in 0..N, NEW g, \A j \in 0..k-1 : g[j] \in Int PROVE On(g, k) \in Int
  <2>1. CASE k = 0
    BY <1>3, <2>1
  <2>2. CASE k # 0
    <3>1. k - 1 \in 0..k-1
      BY <1>2, <2>2
    <3>2. g[k - 1] \in Int /\ b(k) % 64 \in Int
      BY <1>2, <1>4, <3>1
    <3>3. \A x \in Int, y \in Int : x * 64 + y \in Int
      OBVIOUS
    <3>. QED
      BY <2>2, <3>2, <3>3
  <2>. QED
    BY <2>1, <2>2
<1>5. Course(N, Int, H)
  <2>1. ASSUME NEW k \in 0..N, NEW g \in [0..k-1 -> Int] PROVE H[k][g] \in Int
    <3>. HIDE DEF On
    <3>. QED
      BY <1>4
  <2>. HIDE DEF H
  <2>. QED
    BY <1>2, <2>1 DEF Course
<1>6. PICK f \in [0..N -> Int] : Follows(f, N, H)
  <2>. HIDE DEF H
  <2>. QED
    BY <1>5, CourseExists
<1>7. ASSUME NEW k \in 0..N, NEW g, NEW h, \A j \in 0..k-1 : g[j] = h[j] PROVE On(g, k) = On(h, k)
  <2>1. CASE k = 0
    BY <2>1
  <2>2. CASE k # 0
    <3>1. k - 1 \in 0..k-1
      BY <1>2, <2>2
    <3>. QED
      BY <1>7, <2>2, <3>1
  <2>. QED
    BY <2>1, <2>2
<1>8. f = G(f)
  <2>. HIDE DEF On
  <2>1. ASSUME NEW k \in 0..N PROVE f[k] = On(f, k)
    <3>. DEFINE g == [j \in 0..k-1 |-> f[j]]
    <3>1. g \in [0..k-1 -> Int]
      BY <1>2
    <3>2. f[k] = H[k][g]
      BY <1>6 DEF Follows
    <3>3. \A j \in 0..k-1 : g[j] = f[j]
      OBVIOUS
    <3>. HIDE DEF g
    <3>4. H[k][g] = On(g, k)
      BY <3>1
    <3>5. On(g, k) = On(f, k)
      BY <1>7, <3>3
    <3>. QED
      BY <3>2, <3>4, <3>5
  <2>. QED
    BY <2>1
<1>9. bits = G(bits)
  <2>. HIDE DEF G
  <2>. QED
    BY <1>8 DEF bits
<1>. HIDE DEF H
<1>10. bits = f
  <2>. HIDE DEF On
  <2>1. ASSUME NEW k \in 0..N, \A j \in 0..k-1 : f[j] = bits[j] PROVE f[k] = bits[k]
    <3>1. On(f, k) = On(bits, k)
      BY <1>7, <2>1
    <3>. QED
      BY <1>8, <1>9, <3>1
  <2>2. SameStep(f, bits, N)
    BY <1>8, <1>9, <2>1 DEF SameStep
  <2>. QED
    BY <1>2, <2>2, CourseSame
<1>11. \A k \in 0..N : f[k] = On(f, k)
  BY <1>8
<1>12. BitSteps(f, s, i, size)
  <2>1. f[0] = s[i + 1] % Mask(size)
    BY <1>2, <1>11
  <2>2. ASSUME NEW j \in 1..size-1 PROVE f[j] = f[j - 1] * 64 + (s[i + 1 + j] % 64)
    <3>1. j \in 0..N /\ j # 0
      BY <1>2
    <3>. QED
      BY <1>11, <3>1 DEF b
  <2>. QED
    BY <2>1, <2>2 DEF BitSteps
<1>. HIDE DEF G, On
<1>. QED
  BY <1>1, <1>6, <1>10, <1>12 DEF N

\* The numbers that encoding a code point comes to.
LEMMA CodePointUnits ==
  ASSUME NEW c \in CodePoint
  PROVE  /\ c \in Nat
         /\ c < 2048 => c \div 64 \in 0..31
         /\ c < 65536 => c \div 4096 \in 0..15
         /\ c \div 262144 \in 0..4
         /\ c \div 1 = c
         /\ c % 64 \in 0..63 /\ (c \div 64) % 64 \in 0..63 /\ (c \div 4096) % 64 \in 0..63
         /\ (c \div 64) * 64 + (c % 64) = c
         /\ (c \div 4096) * 64 + ((c \div 64) % 64) = c \div 64
         /\ (c \div 262144) * 64 + ((c \div 4096) % 64) = c \div 4096
<1>1. c \in Nat
  BY SMT DEF CodePoint
<1>2. c < 2048 => c \div 64 \in 0..31
  BY SMT DEF CodePoint
<1>3. c < 65536 => c \div 4096 \in 0..15
  BY SMT DEF CodePoint
<1>4. c \div 262144 \in 0..4
  BY SMT DEF CodePoint
<1>5. c \div 1 = c
  BY <1>1, SMT
<1>6. c % 64 \in 0..63 /\ (c \div 64) % 64 \in 0..63 /\ (c \div 4096) % 64 \in 0..63
  BY <1>1, SMT
<1>7. (c \div 64) * 64 + (c % 64) = c
  BY <1>1, SMT
<1>8. (c \div 4096) * 64 + ((c \div 64) % 64) = c \div 64
  BY <1>1, SMT
<1>9. (c \div 262144) * 64 + ((c \div 4096) % 64) = c \div 4096
  BY <1>1, SMT
<1>. QED
  BY <1>1, <1>2, <1>3, <1>4, <1>5, <1>6, <1>7, <1>8, <1>9

\* A lead byte says how many bytes there are, and keeps the rune's first bits.
LEMMA LeadBytes ==
  /\ \A q \in 0..127 : q \in Byte /\ SizeByLead(q) = 1 /\ (q % 128) = q
  /\ \A q \in 0..31 : 192 + q \in Byte /\ SizeByLead(192 + q) = 2 /\ ((192 + q) % 32) = q
  /\ \A q \in 0..15 : 224 + q \in Byte /\ SizeByLead(224 + q) = 3 /\ ((224 + q) % 16) = q
  /\ \A q \in 0..4 : 240 + q \in Byte /\ SizeByLead(240 + q) = 4 /\ ((240 + q) % 8) = q
  /\ \A q \in 0..63 : 128 + q \in Byte /\ ((128 + q) % 64) = q
<1>1. \A q \in 0..127 : q \in Byte /\ SizeByLead(q) = 1 /\ (q % 128) = q
  BY SMT DEF Byte, SizeByLead
<1>2. \A q \in 0..31 : 192 + q \in Byte /\ SizeByLead(192 + q) = 2 /\ ((192 + q) % 32) = q
  BY SMT DEF Byte, SizeByLead
<1>3. \A q \in 0..15 : 224 + q \in Byte /\ SizeByLead(224 + q) = 3 /\ ((224 + q) % 16) = q
  BY SMT DEF Byte, SizeByLead
<1>4. \A q \in 0..4 : 240 + q \in Byte /\ SizeByLead(240 + q) = 4 /\ ((240 + q) % 8) = q
  BY SMT DEF Byte, SizeByLead
<1>5. \A q \in 0..63 : 128 + q \in Byte /\ ((128 + q) % 64) = q
  BY SMT DEF Byte
<1>. QED
  BY <1>1, <1>2, <1>3, <1>4, <1>5

\* bits: the rune's bits, byte by byte
BitsOf(bits, s, i, e, size) ==
  /\ DecodeRune(s, i) = [rune |-> bits[size - 1], offset |-> i, len |-> size]
  /\ bits[0] = e[1] % Mask(size)
  /\ \A j \in 1..size-1 : bits[j] = bits[j - 1] * 64 + (e[j + 1] % 64)

HasBits(s, i, e, size) == \E bits \in [0..size-1 -> Int] : BitsOf(bits, s, i, e, size)

\* e, of size bytes as its first one says, is at place i of s
Spelled(s, i, e, size) ==
  /\ Len(s) \in Nat /\ i \in Nat /\ e \in Seq(Byte) /\ size \in 1..4
  /\ Len(e) = size /\ SizeByLead(e[1]) = size /\ size <= Len(s) - i
  /\ \A j \in 1..size : s[i + j] = e[j]

\* The bytes e of one rune at a place of s are decoded to the rune.
LEMMA DecodeRuneAt ==
  ASSUME NEW s, NEW i, NEW e, NEW size, Spelled(s, i, e, size)
  PROVE  HasBits(s, i, e, size)
<1>0. /\ Len(s) \in Nat /\ i \in Nat /\ e \in Seq(Byte) /\ size \in 1..4
      /\ Len(e) = size /\ SizeByLead(e[1]) = size /\ size <= Len(s) - i
      /\ \A j \in 1..size : s[i + j] = e[j]
  BY DEF Spelled
<1>1. s[i + 1] = e[1] /\ size \in 1..Len(s) - i
  BY <1>0
<1>2. SizeByLead(s[i + 1]) = size
  BY <1>0, <1>1
<1>3. ASSUME NEW j \in 0..size-1 PROVE s[i + 1 + j] = e[j + 1] /\ s[i + 1 + j] \in Byte
  <2>1. j + 1 \in 1..size /\ i + 1 + j = i + (j + 1)
    BY <1>0
  <2>2. e[j + 1] \in Byte
    BY <1>0, <2>1
  <2>. QED
    BY <1>0, <2>1, <2>2
<1>4. s[i + 1] \in Byte
  <2>1. 1 \in 1..Len(e)
    BY <1>0
  <2>. QED
    BY <1>0, <1>1, <2>1
<1>5. PICK bits \in [0..size-1 -> Int] :
        /\ DecodeRune(s, i) = [rune |-> bits[size - 1], offset |-> i, len |-> size]
        /\ BitSteps(bits, s, i, size)
  BY <1>0, <1>1, <1>2, <1>3, <1>4, DecodeRuneDef
<1>6. bits[0] = e[1] % Mask(size)
  BY <1>0, <1>1, <1>5 DEF BitSteps
<1>7. ASSUME NEW j \in 1..size-1 PROVE bits[j] = bits[j - 1] * 64 + (e[j + 1] % 64)
  <2>1. bits[j] = bits[j - 1] * 64 + (s[i + 1 + j] % 64) /\ j \in 0..size-1
    BY <1>5 DEF BitSteps
  <2>. QED
    BY <1>3, <2>1
<1>8. BitsOf(bits, s, i, e, size)
  BY <1>5, <1>6, <1>7 DEF BitsOf
<1>. QED
  BY <1>8 DEF HasBits

\* the bytes at place i of s are those of c
IsAt(s, i, c) ==
  Len(Encode(c)) <= Len(s) - i /\ \A j \in 1..Len(Encode(c)) : s[i + j] = Encode(c)[j]

\* what decoding a rune at place i of s should give
Rune(c, i) == [rune |-> c, offset |-> i, len |-> Len(Encode(c))]

\* what is to be shown of a code point
Coded(c) ==
  /\ Encode(c) \in Seq(Byte) /\ Len(Encode(c)) \in 1..4
  /\ \A s, i : i \in Nat /\ Len(s) \in Nat /\ IsAt(s, i, c) => DecodeRune(s, i) = Rune(c, i)

LEMMA CodedOne == ASSUME NEW c \in CodePoint, c < 128 PROVE Coded(c)
<1>1. Encode(c) = <<c>>
  BY DEF Encode
<1>2. c \in 0..127
  <2>1. c \in Nat
    BY CodePointUnits
  <2>. QED
    BY <2>1
<1>3. c \in Byte /\ SizeByLead(c) = 1 /\ (c % 128) = c
  BY <1>2, LeadBytes
<1>. DEFINE e == Encode(c)
<1>4. e \in Seq(Byte) /\ Len(e) = 1 /\ e[1] = c
  BY <1>1, <1>3
<1>. HIDE DEF e
<1>5. ASSUME NEW s, NEW i \in Nat, Len(s) \in Nat, 1 <= Len(s) - i, \A j \in 1..1 : s[i + j] = e[j]
      PROVE  DecodeRune(s, i) = [rune |-> c, offset |-> i, len |-> 1]
  <2>1. PICK bits \in [0..1-1 -> Int] : BitsOf(bits, s, i, e, 1)
    <3>1. 1 \in 1..4 /\ SizeByLead(e[1]) = 1 /\ 1 <= Len(s) - i
      BY <1>3, <1>4, <1>5
    <3>2. e \in Seq(Byte) /\ Len(e) = 1 /\ \A j \in 1..1 : s[i + j] = e[j]
      BY <1>4, <1>5
    <3>3. Spelled(s, i, e, 1)
      BY <1>5, <3>1, <3>2 DEF Spelled
    <3>4. HasBits(s, i, e, 1)
      BY <3>3, DecodeRuneAt
    <3>. QED
      BY <3>4 DEF HasBits
  <2>2. bits[0] = c /\ 1 - 1 = 0
    BY <1>3, <1>4, <2>1, MaskValues DEF BitsOf
  <2>. QED
    BY <2>1, <2>2 DEF BitsOf
<1>. QED
  BY <1>4, <1>5 DEF Coded, IsAt, Rune, e

LEMMA CodedTwo == ASSUME NEW c \in CodePoint, ~(c < 128), c < 2048 PROVE Coded(c)
<1>. DEFINE q == c \div 64
            a == c % 64
            e == Encode(c)
<1>1. q \in 0..31 /\ a \in 0..63 /\ (q * 64) + a = c /\ c \div 1 = c
  BY CodePointUnits
<1>2. e = <<192 + (c \div 64), 128 + ((c \div 1) % 64)>>
  BY DEF Encode
<1>3. e = <<192 + q, 128 + a>>
  BY <1>1, <1>2
<1>. HIDE DEF q, a, e
<1>4. /\ 192 + q \in Byte /\ SizeByLead(192 + q) = 2 /\ ((192 + q) % 32) = q
      /\ 128 + a \in Byte /\ ((128 + a) % 64) = a
  BY <1>1, LeadBytes
<1>. DEFINE x == 192 + q
            y == 128 + a
<1>. HIDE DEF x, y
<1>5. e \in Seq(Byte) /\ Len(e) = 2 /\ e[1] = x /\ e[2] = y
  <2>1. e = <<x, y>> /\ x \in Byte /\ y \in Byte
    BY <1>3, <1>4 DEF x, y
  <2>. QED
    BY <2>1
<1>6. SizeByLead(x) = 2 /\ (x % 32) = q /\ (y % 64) = a
  BY <1>4 DEF x, y
<1>7. ASSUME NEW s, NEW i \in Nat, Len(s) \in Nat, 2 <= Len(s) - i, \A j \in 1..2 : s[i + j] = e[j]
      PROVE  DecodeRune(s, i) = [rune |-> c, offset |-> i, len |-> 2]
  <2>1. PICK bits \in [0..2-1 -> Int] : BitsOf(bits, s, i, e, 2)
    <3>1. 2 \in 1..4 /\ SizeByLead(e[1]) = 2 /\ 2 <= Len(s) - i
      BY <1>5, <1>6, <1>7
    <3>2. e \in Seq(Byte) /\ Len(e) = 2 /\ \A j \in 1..2 : s[i + j] = e[j]
      BY <1>5, <1>7
    <3>3. Spelled(s, i, e, 2)
      BY <1>7, <3>1, <3>2 DEF Spelled
    <3>4. HasBits(s, i, e, 2)
      BY <3>3, DecodeRuneAt
    <3>. QED
      BY <3>4 DEF HasBits
  <2>2. bits[0] = q
    BY <1>5, <1>6, <2>1, MaskValues DEF BitsOf
  <2>3. bits[1] = bits[0] * 64 + (e[2] % 64)
    <3>1. 1 \in 1..2-1 /\ 1 - 1 = 0 /\ 1 + 1 = 2
      OBVIOUS
    <3>. QED
      BY <2>1, <3>1 DEF BitsOf
  <2>4. bits[1] = c
    BY <1>1, <1>5, <1>6, <2>2, <2>3
  <2>5. 2 - 1 = 1
    OBVIOUS
  <2>. QED
    BY <2>1, <2>4, <2>5 DEF BitsOf
<1>. QED
  BY <1>5, <1>7 DEF Coded, IsAt, Rune, e

LEMMA CodedThree == ASSUME NEW c \in CodePoint, ~(c < 2048), c < 65536 PROVE Coded(c)
<1>. DEFINE q == c \div 4096
            a == (c \div 64) % 64
            b == c % 64
            half == c \div 64
            e == Encode(c)
<1>1. q \in 0..15 /\ a \in 0..63 /\ b \in 0..63 /\ c \div 1 = c
  BY CodePointUnits
<1>2. (q * 64) + a = half /\ (half * 64) + b = c
  BY CodePointUnits
<1>3. e = <<224 + q, 128 + a, 128 + b>>
  <2>1. ~(c < 128)
    <3>1. c \in Nat
      BY CodePointUnits
    <3>. QED
      BY <3>1
  <2>2. e = <<224 + (c \div 4096), 128 + ((c \div 64) % 64), 128 + ((c \div 1) % 64)>>
    BY <2>1 DEF Encode
  <2>. QED
    BY <1>1, <2>2
<1>. HIDE DEF q, a, b, half, e
<1>4. /\ 224 + q \in Byte /\ SizeByLead(224 + q) = 3 /\ ((224 + q) % 16) = q
      /\ 128 + a \in Byte /\ ((128 + a) % 64) = a
      /\ 128 + b \in Byte /\ ((128 + b) % 64) = b
  BY <1>1, LeadBytes
<1>. DEFINE x == 224 + q
            y == 128 + a
            z == 128 + b
<1>. HIDE DEF x, y, z
<1>5. e \in Seq(Byte) /\ Len(e) = 3 /\ e[1] = x /\ e[2] = y /\ e[3] = z
  <2>1. e = <<x, y, z>> /\ x \in Byte /\ y \in Byte /\ z \in Byte
    BY <1>3, <1>4 DEF x, y, z
  <2>. QED
    BY <2>1
<1>6. SizeByLead(x) = 3 /\ (x % 16) = q /\ (y % 64) = a /\ (z % 64) = b
  BY <1>4 DEF x, y, z
<1>7. ASSUME NEW s, NEW i \in Nat, Len(s) \in Nat, 3 <= Len(s) - i, \A j \in 1..3 : s[i + j] = e[j]
      PROVE  DecodeRune(s, i) = [rune |-> c, offset |-> i, len |-> 3]
  <2>1. PICK bits \in [0..3-1 -> Int] : BitsOf(bits, s, i, e, 3)
    <3>1. 3 \in 1..4 /\ SizeByLead(e[1]) = 3 /\ 3 <= Len(s) - i
      BY <1>5, <1>6, <1>7
    <3>2. e \in Seq(Byte) /\ Len(e) = 3 /\ \A j \in 1..3 : s[i + j] = e[j]
      BY <1>5, <1>7
    <3>3. Spelled(s, i, e, 3)
      BY <1>7, <3>1, <3>2 DEF Spelled
    <3>4. HasBits(s, i, e, 3)
      BY <3>3, DecodeRuneAt
    <3>. QED
      BY <3>4 DEF HasBits
  <2>2. bits[0] = q
    BY <1>5, <1>6, <2>1, MaskValues DEF BitsOf
  <2>3. bits[1] = bits[0] * 64 + (e[2] % 64) /\ bits[2] = bits[1] * 64 + (e[3] % 64)
    <3>1. 1 \in 1..3-1 /\ 2 \in 1..3-1 /\ 1 - 1 = 0 /\ 2 - 1 = 1 /\ 1 + 1 = 2 /\ 2 + 1 = 3
      OBVIOUS
    <3>. QED
      BY <2>1, <3>1 DEF BitsOf
  <2>4. bits[2] = c
    BY <1>2, <1>5, <1>6, <2>2, <2>3
  <2>5. 3 - 1 = 2
    OBVIOUS
  <2>. QED
    BY <2>1, <2>4, <2>5 DEF BitsOf
<1>8. Encode(c) \in Seq(Byte) /\ Len(Encode(c)) = 3 /\ 3 \in 1..4
  BY <1>5 DEF e
<1>9. ASSUME NEW s, NEW i \in Nat, Len(s) \in Nat, IsAt(s, i, c) PROVE DecodeRune(s, i) = Rune(c, i)
  <2>1. 3 <= Len(s) - i /\ \A j \in 1..3 : s[i + j] = e[j]
    BY <1>8, <1>9 DEF IsAt, e
  <2>2. DecodeRune(s, i) = [rune |-> c, offset |-> i, len |-> 3]
    BY <1>7, <1>9, <2>1
  <2>. QED
    BY <1>8, <2>2 DEF Rune
<1>. QED
  BY <1>8, <1>9 DEF Coded

LEMMA CodedFour == ASSUME NEW c \in CodePoint, ~(c < 65536) PROVE Coded(c)
<1>. DEFINE q == c \div 262144
            a == (c \div 4096) % 64
            b == (c \div 64) % 64
            d == c % 64
            quarter == c \div 4096
            half == c \div 64
            e == Encode(c)
<1>1. q \in 0..4 /\ a \in 0..63 /\ b \in 0..63 /\ d \in 0..63 /\ c \div 1 = c
  BY CodePointUnits
<1>2. (q * 64) + a = quarter /\ (quarter * 64) + b = half /\ (half * 64) + d = c
  BY CodePointUnits
<1>3. e = <<240 + q, 128 + a, 128 + b, 128 + d>>
  <2>1. ~(c < 128) /\ ~(c < 2048)
    <3>1. c \in Nat
      BY CodePointUnits
    <3>. QED
      BY <3>1
  <2>2. e = <<240 + (c \div 262144), 128 + ((c \div 4096) % 64),
              128 + ((c \div 64) % 64), 128 + ((c \div 1) % 64)>>
    BY <2>1 DEF Encode
  <2>. QED
    BY <1>1, <2>2
<1>. HIDE DEF q, a, b, d, quarter, half, e
<1>4. /\ 240 + q \in Byte /\ SizeByLead(240 + q) = 4 /\ ((240 + q) % 8) = q
      /\ 128 + a \in Byte /\ ((128 + a) % 64) = a
      /\ 128 + b \in Byte /\ ((128 + b) % 64) = b
      /\ 128 + d \in Byte /\ ((128 + d) % 64) = d
  BY <1>1, LeadBytes
<1>. DEFINE x == 240 + q
            y == 128 + a
            z == 128 + b
            w == 128 + d
<1>. HIDE DEF x, y, z, w
<1>5. e \in Seq(Byte) /\ Len(e) = 4 /\ e[1] = x /\ e[2] = y /\ e[3] = z /\ e[4] = w
  <2>1. e = <<x, y, z, w>> /\ x \in Byte /\ y \in Byte /\ z \in Byte /\ w \in Byte
    BY <1>3, <1>4 DEF x, y, z, w
  <2>. QED
    BY <2>1
<1>6. SizeByLead(x) = 4 /\ (x % 8) = q /\ (y % 64) = a /\ (z % 64) = b /\ (w % 64) = d
  BY <1>4 DEF x, y, z, w
<1>7. ASSUME NEW s, NEW i \in Nat, Len(s) \in Nat, 4 <= Len(s) - i, \A j \in 1..4 : s[i + j] = e[j]
      PROVE  DecodeRune(s, i) = [rune |-> c, offset |-> i, len |-> 4]
  <2>1. PICK bits \in [0..4-1 -> Int] : BitsOf(bits, s, i, e, 4)
    <3>1. 4 \in 1..4 /\ SizeByLead(e[1]) = 4 /\ 4 <= Len(s) - i
      BY <1>5, <1>6, <1>7
    <3>2. e \in Seq(Byte) /\ Len(e) = 4 /\ \A j \in 1..4 : s[i + j] = e[j]
      BY <1>5, <1>7
    <3>3. Spelled(s, i, e, 4)
      BY <1>7, <3>1, <3>2 DEF Spelled
    <3>4. HasBits(s, i, e, 4)
      BY <3>3, DecodeRuneAt
    <3>. QED
      BY <3>4 DEF HasBits
  <2>2. bits[0] = q
    BY <1>5, <1>6, <2>1, MaskValues DEF BitsOf
  <2>3. /\ bits[1] = bits[0] * 64 + (e[2] % 64)
        /\ bits[2] = bits[1] * 64 + (e[3] % 64)
        /\ bits[3] = bits[2] * 64 + (e[4] % 64)
    <3>1. /\ 1 \in 1..4-1 /\ 2 \in 1..4-1 /\ 3 \in 1..4-1
          /\ 1 - 1 = 0 /\ 2 - 1 = 1 /\ 3 - 1 = 2 /\ 1 + 1 = 2 /\ 2 + 1 = 3 /\ 3 + 1 = 4
      OBVIOUS
    <3>. QED
      BY <2>1, <3>1 DEF BitsOf
  <2>4. bits[3] = c
    BY <1>2, <1>5, <1>6, <2>2, <2>3
  <2>5. 4 - 1 = 3
    OBVIOUS
  <2>. QED
    BY <2>1, <2>4, <2>5 DEF BitsOf
<1>8. Encode(c) \in Seq(Byte) /\ Len(Encode(c)) = 4 /\ 4 \in 1..4
  BY <1>5 DEF e
<1>9. ASSUME NEW s, NEW i \in Nat, Len(s) \in Nat, IsAt(s, i, c) PROVE DecodeRune(s, i) = Rune(c, i)
  <2>1. 4 <= Len(s) - i /\ \A j \in 1..4 : s[i + j] = e[j]
    BY <1>8, <1>9 DEF IsAt, e
  <2>2. DecodeRune(s, i) = [rune |-> c, offset |-> i, len |-> 4]
    BY <1>7, <1>9, <2>1
  <2>. QED
    BY <1>8, <2>2 DEF Rune
<1>. QED
  BY <1>8, <1>9 DEF Coded

\* Decoding undoes encoding, rune by rune.
LEMMA EncodeRight == ASSUME NEW c \in CodePoint PROVE Coded(c)
<1>1. c < 128 \/ (~(c < 128) /\ c < 2048) \/ (~(c < 2048) /\ c < 65536) \/ ~(c < 65536)
  OBVIOUS
<1>. QED
  BY <1>1, CodedOne, CodedTwo, CodedThree, CodedFour

\* start[k]: where the bytes of the code point behind the k-th begin.
LEMMA EncodedAt ==
  ASSUME NEW cs \in Seq(CodePoint)
  PROVE  \E start \in [0..Len(cs) -> Nat] :
           /\ EncodeText(cs) \in Seq(Byte)
           /\ start[0] = 0 /\ start[Len(cs)] = Len(EncodeText(cs))
           /\ \A k \in 1..Len(cs) : /\ start[k] = start[k-1] + Len(Encode(cs[k]))
                                    /\ start[k] <= Len(EncodeText(cs))
                                    /\ IsAt(EncodeText(cs), start[k-1], cs[k])
<1>. DEFINE M == Len(cs)
            part(k) == Encode(cs[k])
            parts == [k \in 1..M |-> part(k)]
            text == EncodeText(cs)
<1>1. M \in Nat /\ \A k \in 1..M : cs[k] \in CodePoint
  OBVIOUS
<1>2. \A k \in 1..M : part(k) \in Seq(Byte) /\ Len(part(k)) \in 1..4
  BY <1>1, EncodeRight DEF Coded
<1>3. text = Concat(parts)
  BY DEF EncodeText
<1>. HIDE DEF M, part, text
<1>4. Len(parts) = M /\ \A k \in 1..M : parts[k] = part(k)
  BY <1>1
<1>. HIDE DEF parts
<1>5. PICK upto \in [0..M -> Seq(Byte)] : text = upto[M] /\ ConcatSteps(upto, parts)
  <2>1. Len(parts) \in Nat /\ \A k \in 1..Len(parts) : parts[k] \in Seq(Byte)
    BY <1>1, <1>2, <1>4
  <2>2. \E upto \in [0..Len(parts) -> Seq(Byte)] :
           Concat(parts) = upto[Len(parts)] /\ ConcatSteps(upto, parts)
    BY <2>1, ConcatDef
  <2>. QED
    BY <1>3, <1>4, <2>2
<1>. DEFINE start == [k \in 0..M |-> Len(upto[k])]
<1>6. start \in [0..M -> Nat] /\ start[0] = 0 /\ start[M] = Len(text) /\ text \in Seq(Byte)
  <2>1. \A k \in 0..M : upto[k] \in Seq(Byte) /\ Len(upto[k]) \in Nat
    BY <1>5
  <2>2. 0 \in 0..M /\ M \in 0..M
    BY <1>1
  <2>3. upto[0] = <<>>
    BY <1>5 DEF ConcatSteps
  <2>. QED
    BY <1>5, <2>1, <2>2, <2>3
<1>7. ASSUME NEW k \in 1..M
      PROVE  /\ k-1 \in 0..M /\ k \in 0..M
             /\ upto[k-1] \in Seq(Byte) /\ upto[k] \in Seq(Byte)
             /\ start[k-1] \in Nat /\ start[k] = start[k-1] + Len(part(k))
             /\ \A j \in 1..start[k-1] : upto[k][j] = upto[k-1][j]
             /\ \A j \in 1..Len(part(k)) : upto[k][start[k-1] + j] = part(k)[j]
  <2>1. k-1 \in 0..M /\ k \in 0..M
    BY <1>1
  <2>2. upto[k-1] \in Seq(Byte) /\ upto[k] \in Seq(Byte) /\ part(k) \in Seq(Byte)
    BY <1>2, <1>5, <2>1
  <2>3. upto[k] = upto[k-1] \o part(k)
    BY <1>4, <1>5 DEF ConcatSteps
  <2>. DEFINE u == upto[k-1]
              v == part(k)
  <2>4. start[k-1] = Len(u) /\ start[k] = Len(u \o v) /\ u \in Seq(Byte) /\ v \in Seq(Byte)
    BY <2>1, <2>2, <2>3
  <2>5. Len(u) \in Nat /\ Len(v) \in Nat
    BY <2>4
  <2>. HIDE DEF u, v, start
  <2>6. Len(u \o v) = Len(u) + Len(v)
    BY <2>4, ConcatProperties
  <2>7. \A j \in 1..Len(u)+Len(v) : (u \o v)[j] = IF j <= Len(u) THEN u[j] ELSE v[j - Len(u)]
    BY <2>4, ConcatProperties
  <2>8. ASSUME NEW j \in 1..Len(u) PROVE (u \o v)[j] = u[j]
    BY <2>5, <2>7
  <2>9. ASSUME NEW j \in 1..Len(v) PROVE (u \o v)[Len(u) + j] = v[j]
    <3>1. Len(u) + j \in 1..Len(u)+Len(v) /\ ~(Len(u) + j <= Len(u)) /\ (Len(u) + j) - Len(u) = j
      BY <2>5
    <3>. QED
      BY <2>7, <3>1
  <2>10. \A j \in 1..start[k-1] : upto[k][j] = upto[k-1][j]
    BY <2>3, <2>4, <2>8 DEF u, v
  <2>11. \A j \in 1..Len(part(k)) : upto[k][start[k-1] + j] = part(k)[j]
    BY <2>3, <2>4, <2>9 DEF u, v
  <2>12. start[k-1] \in Nat /\ start[k] = start[k-1] + Len(part(k))
    BY <2>4, <2>5, <2>6 DEF v
  <2>. QED
    BY <2>1, <2>2, <2>10, <2>11, <2>12
<1>. HIDE DEF start
\* what the first k code points are encoded to stays the text's beginning
<1>. DEFINE Begins(n) == \A k \in 0..n : start[k] <= start[n] /\ \A j \in 1..start[k] : upto[n][j] = upto[k][j]
            P(n) == n <= M => Begins(n)
            T == {n \in Nat : P(n)}
<1>8. P(0)
  BY <1>1, <1>6
<1>9. ASSUME NEW n \in Nat, P(n) PROVE P(n + 1)
  <2>. SUFFICES ASSUME n + 1 <= M, NEW k \in 0..n+1
                PROVE  start[k] <= start[n+1] /\ \A j \in 1..start[k] : upto[n+1][j] = upto[k][j]
    OBVIOUS
  <2>1. n + 1 \in 1..M /\ (n + 1) - 1 = n /\ n \in 0..M /\ n <= M /\ k \in 0..M
    BY <1>1
  <2>2. /\ start[n] \in Nat /\ start[n+1] = start[n] + Len(part(n+1))
        /\ \A j \in 1..start[n] : upto[n+1][j] = upto[n][j]
    BY <1>7, <2>1
  <2>3. start[k] \in Nat /\ start[n+1] \in Nat /\ Len(part(n+1)) \in 1..4
    <3>1. n + 1 \in 0..M
      BY <2>1
    <3>2. start[k] \in Nat /\ start[n+1] \in Nat
      BY <1>6, <2>1, <3>1
    <3>. QED
      BY <1>2, <2>1, <3>2
  <2>4. CASE k = n + 1
    BY <2>3, <2>4
  <2>5. CASE k # n + 1
    <3>1. k \in 0..n
      BY <2>5
    <3>2. start[k] <= start[n] /\ \A j \in 1..start[k] : upto[n][j] = upto[k][j]
      BY <1>9, <2>1, <3>1
    <3>3. start[k] <= start[n+1]
      BY <2>2, <2>3, <3>2
    <3>4. \A j \in 1..start[k] : j \in 1..start[n]
      BY <2>2, <2>3, <3>2
    <3>. QED
      BY <2>2, <3>2, <3>3, <3>4
  <2>. QED
    BY <2>4, <2>5
<1>10. T = Nat
  <2>. HIDE DEF P
  <2>1. T \in SUBSET Nat /\ 0 \in T /\ \A n \in T : n + 1 \in T
    BY <1>8, <1>9
  <2>. QED
    BY <2>1, Induction
<1>11. Begins(M)
  <2>1. P(M)
    <3>. HIDE DEF P
    <3>. QED
      BY <1>1, <1>10
  <2>. HIDE DEF Begins
  <2>. QED
    BY <1>1, <2>1
<1>12. ASSUME NEW k \in 1..M
       PROVE  /\ start[k] = start[k-1] + Len(part(k)) /\ start[k] <= Len(text)
              /\ IsAt(text, start[k-1], cs[k])
  <2>1. k \in 0..M /\ start[k] <= start[M] /\ \A j \in 1..start[k] : upto[M][j] = upto[k][j]
    BY <1>1, <1>11
  <2>2. /\ start[k-1] \in Nat /\ start[k] = start[k-1] + Len(part(k))
        /\ \A j \in 1..Len(part(k)) : upto[k][start[k-1] + j] = part(k)[j]
    BY <1>7
  <2>3. Len(part(k)) \in 1..4 /\ Len(text) \in Nat /\ start[k] <= Len(text)
    BY <1>2, <1>6, <2>1
  <2>4. ASSUME NEW j \in 1..Len(part(k)) PROVE text[start[k-1] + j] = part(k)[j]
    <3>1. start[k-1] + j \in 1..start[k]
      BY <2>2, <2>3
    <3>. QED
      BY <1>5, <2>1, <2>2, <3>1
  <2>5. Len(part(k)) <= Len(text) - start[k-1]
    BY <2>2, <2>3
  <2>. QED
    BY <2>2, <2>3, <2>4, <2>5 DEF IsAt, part
<1>. QED
  BY <1>6, <1>12 DEF M, part, text

\* Decoding an encoded text gives its code points.
LEMMA DecodeEncoded ==
  ASSUME NEW cs \in Seq(CodePoint)
  PROVE  LET text == EncodeText(cs) IN
         /\ text \in Seq(Byte) /\ DecodeRunes(text).ok
         /\ Len(DecodeRunes(text).runes) = Len(cs)
         /\ \A k \in 1..Len(cs) : DecodeRunes(text).runes[k].rune = cs[k]
<1>. DEFINE text == EncodeText(cs)
            M == Len(cs)
            N == Len(text)
<1>1. PICK start \in [0..M -> Nat] :
        /\ text \in Seq(Byte) /\ start[0] = 0 /\ start[M] = N
        /\ \A k \in 1..M : /\ start[k] = start[k-1] + Len(Encode(cs[k])) /\ start[k] <= N
                           /\ IsAt(text, start[k-1], cs[k])
  BY EncodedAt
<1>2. M \in Nat /\ N \in Nat /\ \A k \in 1..M : cs[k] \in CodePoint
  BY <1>1
<1>. HIDE DEF text
<1>3. PICK from : DecodeRunes(text) = from[0] /\ DecodeSteps(from, text)
  BY <1>2, DecodeRunesDef
<1>. HIDE DEF M, N
\* from the k-th place on
<1>. DEFINE Right(k) == LET d == from[start[k]] IN
              /\ d.ok /\ d.runes \in Seq(Decoded(text)) /\ Len(d.runes) = M - k
              /\ \A j \in 1..M-k : d.runes[j].rune = cs[k + j]
            P(m) == m <= M => Right(M - m)
            T == {m \in Nat : P(m)}
<1>4. \A i \in 0..N : from[i] \in [ok: BOOLEAN, runes: Seq(Decoded(text))]
  BY <1>3 DEF DecodeSteps, N
<1>5. P(0)
  <2>1. from[N] = [ok |-> TRUE, runes |-> <<>>]
    BY <1>3 DEF DecodeSteps, N
  <2>2. M - 0 = M /\ M - M = 0
    BY <1>2
  <2>3. from[start[M]] = [ok |-> TRUE, runes |-> <<>>]
    BY <1>1, <2>1
  <2>4. Right(M)
    <3>. DEFINE d == from[start[M]]
    <3>1. d.ok /\ d.runes = <<>>
      BY <2>3
    <3>. HIDE DEF d
    <3>2. d.runes \in Seq(Decoded(text)) /\ Len(d.runes) = 0
      BY <3>1
    <3>3. \A j \in 1..M-M : FALSE
      BY <2>2
    <3>. QED
      BY <2>2, <3>1, <3>2, <3>3 DEF d
  <2>. HIDE DEF Right
  <2>. QED
    BY <2>2, <2>4
<1>6. ASSUME NEW m \in Nat, P(m), m + 1 <= M PROVE Right(M - (m + 1))
  <2>. DEFINE k == M - m
  <2>1. k \in 1..M /\ M - (m + 1) = k - 1 /\ m <= M /\ M - k = m
    BY <1>2, <1>6
  <2>2. Right(k)
    BY <1>6, <2>1
  <2>. HIDE DEF k
  <2>. DEFINE c == cs[k]
              i == start[k-1]
              r == DecodeRune(text, i)
              d == from[start[k]]
  <2>3. c \in CodePoint /\ i \in Nat /\ start[k] \in Nat /\ k - 1 \in 0..M
    BY <1>1, <1>2, <2>1
  <2>4. start[k] = i + Len(Encode(c)) /\ start[k] <= N /\ IsAt(text, i, c)
    BY <1>1, <2>1
  <2>5. Coded(c)
    BY <2>3, EncodeRight
  <2>6. Len(Encode(c)) \in 1..4 /\ r = Rune(c, i)
    BY <1>2, <2>3, <2>4, <2>5 DEF Coded, N
  <2>. DEFINE len == Len(Encode(c))
              next == start[k]
  <2>7. i \in 0..N-1
    <3>1. i \in Nat /\ len \in 1..4 /\ next = i + len /\ next <= N
      BY <2>3, <2>4, <2>6
    <3>. HIDE DEF i, len, next
    <3>. QED
      BY <1>2, <3>1
  <2>8. r \in Decoded(text)
    BY <2>7 DEF Decoded, N
  <2>9. r.len = Len(Encode(c)) /\ r.rune = c
    BY <2>6 DEF Rune
  <2>. HIDE DEF r
  <2>10. r.len # 0 /\ i + r.len = start[k]
    <3>1. len \in 1..4 /\ r.len = len /\ start[k] = i + len
      BY <2>4, <2>6, <2>9
    <3>. HIDE DEF i, len
    <3>. QED
      BY <3>1
  <2>11. from[i] = IF r.len = 0 \/ ~from[i + r.len].ok THEN Failed
                   ELSE [ok |-> TRUE, runes |-> <<r>> \o from[i + r.len].runes]
    BY <1>3, <2>7 DEF DecodeSteps, N, r
  <2>12. d.ok /\ d.runes \in Seq(Decoded(text)) /\ Len(d.runes) = m /\ \A j \in 1..m : d.runes[j].rune = cs[k + j]
    BY <2>1, <2>2
  <2>. HIDE DEF d, c, i
  <2>. DEFINE new == <<r>> \o d.runes
  <2>13. from[i] = [ok |-> TRUE, runes |-> new]
    BY <2>10, <2>11, <2>12 DEF d
  <2>14. /\ new \in Seq(Decoded(text)) /\ Len(new) = m + 1 /\ new[1] = r
         /\ \A j \in 2..m+1 : new[j] = d.runes[j-1]
    BY <2>8, <2>12, Prepend, SMTT(30)
  <2>. HIDE DEF new
  <2>15. ASSUME NEW j \in 1..m+1 PROVE new[j].rune = cs[(k - 1) + j]
    <3>1. CASE j = 1
      <4>1. (k - 1) + 1 = k
        BY <2>1
      <4>. QED
        BY <2>9, <2>14, <3>1, <4>1 DEF c
    <3>2. CASE j # 1
      <4>1. j \in 2..m+1 /\ j - 1 \in 1..m /\ k + (j - 1) = (k - 1) + j
        BY <2>1, <3>2
      <4>. QED
        BY <2>12, <2>14, <4>1
    <3>. QED
      BY <3>1, <3>2
  <2>16. M - (k - 1) = m + 1
    BY <1>2, <2>1
  <2>17. Right(k - 1)
    BY <2>13, <2>14, <2>15, <2>16 DEF i
  <2>. HIDE DEF Right
  <2>. QED
    BY <2>1, <2>17
<1>7. T = Nat
  <2>1. ASSUME NEW m \in Nat, P(m) PROVE P(m + 1)
    <3>. HIDE DEF Right
    <3>. QED
      BY <1>6, <2>1
  <2>. HIDE DEF P
  <2>2. T \in SUBSET Nat /\ 0 \in T /\ \A m \in T : m + 1 \in T
    BY <1>5, <2>1
  <2>. QED
    BY <2>2, Induction
<1>8. Right(0)
  <2>1. P(M)
    <3>. HIDE DEF P
    <3>. QED
      BY <1>2, <1>7
  <2>2. M <= M /\ M - M = 0
    BY <1>2
  <2>. HIDE DEF Right
  <2>. QED
    BY <2>1, <2>2
<1>9. start[0] = 0 /\ M - 0 = M /\ \A j \in 1..M : 0 + j = j
  BY <1>1, <1>2
<1>10. /\ from[0].ok /\ Len(from[0].runes) = M
       /\ \A k \in 1..M : from[0].runes[k].rune = cs[k]
  BY <1>8, <1>9
<1>. QED
  BY <1>1, <1>3, <1>10 DEF M, text

\* Texts are bytes, however they are given.
LEMMA TextsAreBytes == \A text \in Texts : text \in Seq(Byte)
<1>1. ASSUME NEW cs \in CodeTexts PROVE EncodeText(cs) \in Seq(Byte)
  BY SessionAssumption, DecodeEncoded
<1>. QED
  BY <1>1, SessionAssumption DEF Texts, Utf8Texts

\* Whoever asks: a text that is UTF-8 is decoded to its code points.
LEMMA DecodedTexts ==
  ASSUME NEW text \in Utf8Texts
  PROVE  LET runes == DecodeRunes(text).runes
         IN  EncodeText([k \in 1..Len(runes) |-> runes[k].rune]) = text
<1>1. PICK cs \in CodeTexts : text = EncodeText(cs)
  BY DEF Utf8Texts
<1>2. cs \in Seq(CodePoint)
  BY SessionAssumption
<1>. DEFINE runes == DecodeRunes(text).runes
            back == [k \in 1..Len(runes) |-> runes[k].rune]
<1>3. Len(runes) = Len(cs) /\ \A k \in 1..Len(cs) : runes[k].rune = cs[k]
  BY <1>1, <1>2, DecodeEncoded
<1>4. cs = [k \in 1..Len(cs) |-> cs[k]]
  BY <1>2
<1>. HIDE DEF runes
<1>5. back = cs
  BY <1>3, <1>4
<1>. HIDE DEF back
<1>6. EncodeText(back) = text
  BY <1>1, <1>5
<1>. QED
  BY <1>6 DEF back, runes

-----------------------------------------------------------------------------
(* The words of a text.                                                    *)

Bytes == Seq(Byte)

\* the runes of a text
Runes(text) == DecodeRunes(text).runes

\* A word of the text is a sequence of bytes.
LEMMA WordType ==
  ASSUME NEW text \in Seq(Byte), NEW w \in Ranges(Len(Runes(text)))
  PROVE  GetWord(text, Runes(text), w) \in Bytes
<1>1. DecodeRunes(text).ok
  <2>. SUFFICES ASSUME ~DecodeRunes(text).ok PROVE FALSE
    OBVIOUS
  <2>1. Runes(text) = <<>>
    BY DecodeRunesTile DEF Runes
  <2>. QED
    BY <2>1 DEF Ranges
<1>. DEFINE M == Len(Runes(text))
            a == At(text, w.left)
            b == At(text, w.right + 1)
<1>2. M \in Nat /\ w.left \in 0..M /\ w.right + 1 \in 0..M /\ w.left <= w.right + 1
  <2>1. M \in Nat
    BY <1>1, WordBytes DEF Runes
  <2>2. w.left \in 0..M-1 /\ w.right \in 0..M-1 /\ w.left <= w.right
    BY DEF Ranges
  <2>. QED
    BY <2>1, <2>2
<1>3. a \in 0..Len(text) /\ b \in 0..Len(text) /\ a <= b
  BY <1>1, <1>2, WordBytes DEF Runes
<1>4. GetWord(text, Runes(text), w) = SubSeq(text, a + 1, b)
  BY <1>1, WordBytes DEF Runes
<1>. HIDE DEF a, b
<1>5. b \in a..Len(text)
  BY <1>3
<1>. QED
  BY <1>3, <1>4, <1>5, SubSeqRight DEF Bytes

\* The words found inside a word are sequences of bytes.
LEMMA ShortType ==
  ASSUME NEW text \in Seq(Byte), NEW w \in Ranges(Len(Runes(text))), NEW len \in {2, 3}, NEW dict
  PROVE  Short(text, Runes(text), w, len, dict) \in Seq(Bytes)
<1>. DEFINE M == Len(Runes(text))
            N == Length(w)-len+1
            word(k) == GetWord(text, Runes(text), WordRange(w.left + k - 1, w.left + k + len - 2))
            all == [k \in 1..N |-> word(k)]
            keep == {k \in DOMAIN all : all[k] \in DOMAIN dict}
<1>1. M \in Nat
  BY DecodeRunesTile DEF Runes
<1>2. CASE Length(w) > len
  <2>1. N \in Nat /\ w.left \in 0..M-1 /\ w.right \in 0..M-1 /\ Length(w) = w.right - w.left + 1
    BY <1>1, <1>2 DEF Ranges, Length
  <2>2. ASSUME NEW k \in 1..N PROVE word(k) \in Bytes
    <3>. DEFINE l == w.left + k - 1
                r == w.left + k + len - 2
    <3>1. l \in 0..M-1 /\ r \in 0..M-1 /\ l <= r
      <4>. DEFINE a == w.left
                  z == w.right
      <4>1. a \in Int /\ z \in Int /\ len \in Int /\ k \in Int /\ M \in Int
        BY <1>1, <2>1
      <4>2. 0 <= a /\ z <= M - 1 /\ 2 <= len /\ 1 <= k /\ k <= (z - a + 1) - len + 1
        BY <1>1, <2>1
      <4>. HIDE DEF a, z, M
      <4>3. 0 <= a + k - 1 /\ a + k - 1 <= a + k + len - 2 /\ a + k + len - 2 <= M - 1
        BY ONLY <4>1, <4>2
      <4>4. /\ a + k - 1 \in Int /\ a + k + len - 2 \in Int
            /\ a + k - 1 <= M - 1 /\ 0 <= a + k + len - 2
        BY ONLY <4>1, <4>3
      <4>. QED
        BY ONLY <4>1, <4>3, <4>4 DEF a
    <3>. HIDE DEF l, r
    <3>2. WordRange(l, r) \in Ranges(M)
      BY <3>1 DEF WordRange, Ranges
    <3>. QED
      BY <3>2, WordType DEF l, r
  <2>3. Short(text, Runes(text), w, len, dict) = Selected(all, keep)
    BY <1>2 DEF Short
  <2>. HIDE DEF N, word, keep
  <2>4. all \in Seq(Bytes)
    BY <2>1, <2>2
  <2>. HIDE DEF all
  <2>. QED
    BY <2>3, <2>4, SelectedMembers
<1>3. CASE ~(Length(w) > len)
  BY <1>3 DEF Short
<1>. QED
  BY <1>2, <1>3

\* A cut of a text: words of its runes, none if it does not decode.
LEMMA CutType ==
  ASSUME NEW text \in Seq(Byte), NEW ws \in Tilings(0, Len(Runes(text)))
  PROVE  /\ Len(Runes(text)) \in Nat
         /\ ws \in Seq(Ranges(Len(Runes(text)))) /\ ws \in Seq(IntRanges)
         /\ Tiles(ws, 0, Len(Runes(text)))
         /\ ~DecodeRunes(text).ok => ws = <<>>
<1>. DEFINE M == Len(Runes(text))
<1>1. M \in Nat /\ 0 \in Int /\ 0 <= M /\ (~DecodeRunes(text).ok => M = 0)
  BY DecodeRunesTile DEF Runes
<1>. HIDE DEF M
<1>2. ws \in Seq(IntRanges) /\ Tiles(ws, 0, M)
  BY <1>1, TilingsTile DEF M, IntRanges
<1>3. ws \in Seq(Ranges(M))
  <2>1. 0 \in Nat /\ M \in 0..M
    BY <1>1
  <2>. QED
    BY <1>1, <1>2, <2>1, TilesRanges
<1>4. M = 0 => ws = <<>>
  <2>. SUFFICES ASSUME M = 0, ws # <<>> PROVE FALSE
    OBVIOUS
  <2>1. 1 \in 1..Len(ws)
    BY <1>2, RangeEnds
  <2>2. ws[1] \in Ranges(M)
    BY <1>3, <2>1
  <2>. QED
    BY <2>2 DEF Ranges
<1>. QED
  BY <1>1, <1>2, <1>3, <1>4 DEF M

\* The words of a text are sequences of bytes, and there are none if it does not
\* decode.
LEMMA WordsType ==
  ASSUME NEW text \in Seq(Byte), NEW dict, NEW query, NEW words \in Cuts(text, dict, query)
  PROVE  words \in Seq(Bytes) /\ (~DecodeRunes(text).ok => words = <<>>)
<1>. DEFINE M == Len(Runes(text))
<1>1. PICK ws \in Tilings(0, M) : words = Words(text, ws, dict, query)
  BY DEF Cuts, Runes
<1>2. ws \in Seq(Ranges(M)) /\ Len(ws) \in Nat /\ (~DecodeRunes(text).ok => ws = <<>>)
  BY <1>1, CutType, RangeEnds
<1>. DEFINE short(w) == IF query THEN Short(text, Runes(text), w, 2, dict) \o Short(text, Runes(text), w, 3, dict)
                                 ELSE <<>>
            part(k) == Append(short(ws[k]), GetWord(text, Runes(text), ws[k]))
            parts == [k \in 1..Len(ws) |-> part(k)]
<1>3. words = Concat(parts)
  BY <1>1 DEF Words, Runes
<1>4. ASSUME NEW k \in 1..Len(ws) PROVE part(k) \in Seq(Bytes)
  <2>. DEFINE w == ws[k]
  <2>1. w \in Ranges(M)
    BY <1>2
  <2>2. GetWord(text, Runes(text), w) \in Bytes
    BY <2>1, WordType
  <2>3. Short(text, Runes(text), w, 2, dict) \in Seq(Bytes) /\ Short(text, Runes(text), w, 3, dict) \in Seq(Bytes)
    BY <2>1, ShortType
  <2>4. short(w) \in Seq(Bytes)
    <3>1. \A u, v \in Seq(Bytes) : u \o v \in Seq(Bytes)
      BY ConcatProperties
    <3>2. <<>> \in Seq(Bytes)
      OBVIOUS
    <3>. QED
      BY <2>3, <3>1, <3>2
  <2>. HIDE DEF short, w
  <2>5. Append(short(w), GetWord(text, Runes(text), w)) \in Seq(Bytes)
    BY <2>2, <2>4, AppendProperties
  <2>. QED
    BY <2>5 DEF w
<1>. HIDE DEF part
<1>5. Len(parts) = Len(ws) /\ \A k \in 1..Len(parts) : parts[k] \in Seq(Bytes)
  BY <1>2, <1>4
<1>6. PICK upto \in [0..Len(parts) -> Seq(Bytes)] :
        Concat(parts) = upto[Len(parts)] /\ ConcatSteps(upto, parts)
  <2>. HIDE DEF parts
  <2>1. Len(parts) \in Nat
    BY <1>2, <1>5
  <2>. QED
    BY <1>5, <2>1, ConcatDef
<1>. HIDE DEF parts
<1>7. words \in Seq(Bytes)
  BY <1>2, <1>3, <1>5, <1>6
<1>8. ~DecodeRunes(text).ok => words = <<>>
  BY <1>2, <1>3, <1>5, <1>6 DEF ConcatSteps
<1>. QED
  BY <1>7, <1>8

\* The words of a cut, one behind the other, are the text.
LEMMA WordsKeepBytes ==
  ASSUME NEW text \in Seq(Byte), NEW dict, NEW words \in Cuts(text, dict, FALSE), DecodeRunes(text).ok
  PROVE  Concat(words) = text
<1>. DEFINE M == Len(Runes(text))
<1>1. PICK ws \in Tilings(0, M) : words = Words(text, ws, dict, FALSE)
  BY DEF Cuts, Runes
<1>2. M \in Nat /\ ws \in Seq(Ranges(M)) /\ ws \in Seq(IntRanges) /\ Tiles(ws, 0, M)
  BY <1>1, CutType
<1>. DEFINE N == Len(ws)
            word(k) == GetWord(text, Runes(text), ws[k])
            all == [k \in 1..N |-> word(k)]
<1>3. N \in Nat /\ (ws = <<>> <=> N = 0)
  BY <1>2, RangeEnds
<1>4. \A k \in 1..N : ws[k] \in Ranges(M) /\ word(k) \in Bytes
  BY <1>2, WordType
<1>5. all \in Seq(Bytes) /\ Len(all) = N /\ \A k \in 1..N : all[k] = word(k)
  <2>. HIDE DEF N, word
  <2>. QED
    BY <1>3, <1>4
<1>6. words = all
  <2>. DEFINE parts == [k \in 1..N |-> Append(<<>>, word(k))]
  <2>1. words = Concat(parts)
    BY <1>1 DEF Words, Runes
  <2>. HIDE DEF word, N, all
  <2>2. \A k \in 1..N : Append(<<>>, word(k)) = <<all[k]>>
    BY <1>5
  <2>3. parts = [k \in 1..Len(all) |-> <<all[k]>>]
    BY <1>5, <2>2
  <2>. HIDE DEF parts
  <2>. QED
    BY <1>5, <2>1, <2>3, ConcatSingles
<1>. DEFINE end(k) == IF k = 0 THEN 0 ELSE ws[k].right + 1
            from(k) == At(text, end(k))
<1>7. \A k \in 1..N : /\ end(k) \in 0..M /\ end(k-1) \in 0..M
                      /\ end(k-1) <= end(k)
                      /\ ws[k].left = end(k-1) /\ ws[k].right + 1 = end(k)
  <2>1. ASSUME NEW k \in 1..N
        PROVE  ws[k].left \in 0..M-1 /\ ws[k].right \in 0..M-1 /\ ws[k].left <= ws[k].right
    BY <1>4 DEF Ranges
  <2>2. ASSUME NEW k \in 1..N PROVE ws[k].left = end(k-1)
    <3>1. CASE k = 1
      BY <1>2, <1>3, <3>1 DEF Tiles
    <3>2. CASE k # 1
      <4>1. k - 1 \in 1..Len(ws)-1 /\ (k - 1) + 1 = k /\ k - 1 # 0
        BY <1>3, <3>2
      <4>2. ws[(k-1)+1].left = ws[k-1].right + 1
        BY <1>2, <4>1 DEF Tiles
      <4>. QED
        BY <4>1, <4>2
    <3>. QED
      BY <3>1, <3>2
  <2>3. ASSUME NEW k \in 1..N PROVE ws[k].right + 1 = end(k)
    BY <1>3
  <2>. HIDE DEF end, M, N
  <2>4. ASSUME NEW k \in 1..N
        PROVE  /\ end(k) \in 0..M /\ end(k-1) \in 0..M /\ end(k-1) <= end(k)
    BY <1>2, <2>1, <2>2, <2>3, SMTT(30)
  <2>. QED
    BY <2>2, <2>3, <2>4
<1>8. end(0) = 0 /\ end(N) = M
  <2>1. CASE N = 0
    BY <1>2, <1>3, <2>1 DEF Tiles
  <2>2. CASE N # 0
    BY <1>2, <1>3, <2>2 DEF Tiles
  <2>. QED
    BY <2>1, <2>2
<1>9. \A k \in 0..N : end(k) \in 0..M
  <2>. HIDE DEF end, M, N
  <2>1. \A k \in 0..N : k = 0 \/ k \in 1..N
    BY <1>3
  <2>. QED
    BY <1>2, <1>7, <1>8, <2>1
<1>10. /\ from(0) = 0 /\ from(N) = Len(text)
       /\ \A k \in 0..N : from(k) \in 0..Len(text)
       /\ \A k \in 1..N : from(k-1) <= from(k) /\ word(k) = SubSeq(text, from(k-1) + 1, from(k))
  <2>1. from(0) = 0 /\ from(N) = Len(text)
    <3>. HIDE DEF end
    <3>. QED
      BY <1>8, WordBytes DEF Runes
  <2>2. \A k \in 0..N : from(k) \in 0..Len(text)
    <3>. HIDE DEF end, N
    <3>. QED
      BY <1>9, WordBytes DEF Runes
  <2>3. ASSUME NEW k \in 1..N PROVE from(k-1) <= from(k) /\ word(k) = SubSeq(text, from(k-1) + 1, from(k))
    <3>. HIDE DEF end, N
    <3>1. from(k-1) <= from(k)
      BY <1>7, WordBytes DEF Runes
    <3>2. word(k) = SubSeq(text, At(text, ws[k].left) + 1, At(text, ws[k].right + 1))
      BY <1>4, WordBytes DEF Runes
    <3>. QED
      BY <1>7, <3>1, <3>2
  <2>. HIDE DEF from, word, N
  <2>. QED
    BY <2>1, <2>2, <2>3
<1>. HIDE DEF from, word, N, end, M, all
<1>11. PICK upto \in [0..Len(words) -> Seq(Byte)] :
        Concat(words) = upto[Len(words)] /\ ConcatSteps(upto, words)
  <2>1. Len(words) \in Nat /\ \A k \in 1..Len(words) : words[k] \in Seq(Byte)
    BY <1>3, <1>5, <1>6 DEF Bytes
  <2>. QED
    BY <2>1, ConcatDef
<1>12. Len(words) = N /\ \A k \in 1..N : words[k] = word(k)
  BY <1>5, <1>6
<1>18. upto[0] = <<>> /\ \A k \in 1..N : upto[k] = upto[k-1] \o words[k]
  BY <1>11, <1>12 DEF ConcatSteps
<1>. DEFINE P(m) == m <= N => upto[m] = SubSeq(text, 1, from(m))
            T == {m \in Nat : P(m)}
<1>13. P(0)
  <2>1. SubSeq(text, 0 + 1, 0) \in Seq(Byte) /\ Len(SubSeq(text, 0 + 1, 0)) = 0 - 0
    BY SubSeqRight
  <2>2. 0 + 1 = 1 /\ 0 - 0 = 0
    OBVIOUS
  <2>. DEFINE u == SubSeq(text, 0 + 1, 0)
  <2>3. u \in Seq(Byte) /\ Len(u) = 0
    BY <2>1, <2>2
  <2>. HIDE DEF u
  <2>4. u = <<>>
    BY <2>3
  <2>. QED
    BY <1>10, <1>18, <2>2, <2>4 DEF u
<1>14. ASSUME NEW m \in Nat, P(m) PROVE P(m + 1)
  <2>. SUFFICES ASSUME m + 1 <= N PROVE upto[m+1] = SubSeq(text, 1, from(m+1))
    OBVIOUS
  <2>1. m + 1 \in 1..N /\ (m + 1) - 1 = m /\ m \in 0..N /\ m + 1 \in 0..N /\ m <= N
    BY <1>3
  <2>2. upto[m+1] = upto[m] \o word(m+1)
    BY <1>12, <1>18, <2>1
  <2>3. upto[m] = SubSeq(text, 1, from(m))
    BY <1>14, <2>1
  <2>4. from(m) <= from(m+1) /\ word(m+1) = SubSeq(text, from(m) + 1, from(m+1))
    BY <1>10, <2>1
  <2>5. from(m) \in 0..Len(text) /\ from(m+1) \in 0..Len(text)
    BY <1>10, <2>1
  <2>6. from(m+1) \in from(m)..Len(text)
    BY <2>4, <2>5
  <2>. HIDE DEF P
  <2>. QED
    BY <2>2, <2>3, <2>4, <2>5, <2>6, SubSeqConcat
<1>15. T = Nat
  <2>. HIDE DEF P
  <2>1. T \in SUBSET Nat /\ 0 \in T /\ \A m \in T : m + 1 \in T
    BY <1>13, <1>14
  <2>. QED
    BY <2>1, Induction
<1>16. P(N)
  <2>. HIDE DEF P
  <2>. QED
    BY <1>3, <1>15
<1>17. Concat(words) = SubSeq(text, 1, Len(text))
  BY <1>3, <1>10, <1>11, <1>12, <1>16
<1>. QED
  BY <1>17

-----------------------------------------------------------------------------
(* The words of a session are its own.                                     *)

Fields == {"wordVct", "size", "pos"}

\* A ParserState has its three members: what counts here is that the one can be
\* changed without the others.
Shaped ==
  /\ DOMAIN pst = Sessions /\ DOMAIN call = Sessions
  /\ \A s \in Open : pst[s] = [f \in Fields |-> pst[s][f]]

\* The parser is there if and only if the flag says so: init_parse_state never
\* leaves wordVct as it was.
FlagTrue == gInited <=> gJiaba # Null

IInv ==
  /\ files \in Dictionaries \cup {Null}
  /\ Shaped
  /\ ended \subseteq Open
  /\ FlagTrue
  /\ OwnWords

LEMMA InitIInv == Init => IInv
BY SessionAssumption DEF Init, IInv, FlagTrue, Shaped, OwnWords, Open

\* A session that is gone, while the vectors of the others stay as they are.
LEMMA ForgetOwn ==
  ASSUME IInv, NEW s \in Sessions, Forget(s),
         \A t \in Open \ {s} : /\ pst[t].wordVct \in DOMAIN heap'
                               /\ heap'[pst[t].wordVct] = heap[pst[t].wordVct]
  PROVE  Shaped' /\ ended' \subseteq Open' /\ OwnWords'
<1>1. /\ Open' = Open \ {s} /\ ended' = ended \ {s}
      /\ \A t \in Sessions \ {s} : pst'[t] = pst[t] /\ call'[t] = call[t]
      /\ DOMAIN pst' = Sessions /\ DOMAIN call' = Sessions
  BY DEF IInv, Shaped, Forget, Open
<1>2. OwnWords'
  BY <1>1 DEF IInv, OwnWords, Open
<1>. QED
  BY <1>1, <1>2 DEF IInv, Shaped, Open

\* A step that leaves the sessions and their vectors alone.
LEMMA SessionsSame ==
  ASSUME IInv, UNCHANGED <<heap, pst, call>> PROVE Shaped' /\ Open' = Open /\ OwnWords'
<1>1. Open' = Open
  BY DEF Open
<1>. QED
  BY <1>1 DEF IInv, Shaped, OwnWords

\* init() leaves a parser and the flag set, or neither.
LEMMA LoadFlag == ASSUME Load PROVE FlagTrue'
BY DEF Load, FlagTrue

\* A session with a parser gets an address that is nobody's.
LEMMA StartOwn ==
  ASSUME IInv, NEW s \in Sessions, NEW text, NEW query, Start(s, text, query)
  PROVE  IInv'
<1>1. files' = files
  BY DEF Start
<1>2. FlagTrue' /\ gJiaba' # Null
  <2>1. CASE gInited
    BY <2>1 DEF Start, IInv, FlagTrue
  <2>2. CASE ~gInited
    BY <2>2, LoadFlag DEF Start, Load
  <2>. QED
    BY <2>1, <2>2
<1>3. s \notin Open
  BY DEF Start
<1>4. PICK v \in Vectors, words \in Cuts(text, gJiaba', query) :
        /\ v \notin DOMAIN heap
        /\ heap' = [u \in DOMAIN heap \cup {v} |-> IF u = v THEN words ELSE heap[u]]
        /\ pst' = [pst EXCEPT ![s] = [wordVct |-> v, size |-> Len(words), pos |-> 0]]
        /\ call' = [call EXCEPT ![s] = [text |-> text, query |-> query, words |-> words]]
  BY <1>2 DEF Start, InitParseState
<1>5. /\ Open' \subseteq Open \cup {s}
      /\ DOMAIN pst' = Sessions /\ DOMAIN call' = Sessions
      /\ \A t \in Open : pst'[t] = pst[t] /\ call'[t] = call[t]
      /\ pst'[s] = [wordVct |-> v, size |-> Len(words), pos |-> 0]
      /\ call'[s].words = words
  BY <1>3, <1>4 DEF IInv, Shaped, Open
<1>6. /\ DOMAIN heap' = DOMAIN heap \cup {v}
      /\ heap'[v] = words
      /\ \A u \in DOMAIN heap : heap'[u] = heap[u]
  BY <1>3, <1>4
<1>7. Shaped'
  <2>1. pst'[s] = [f \in Fields |-> pst'[s][f]]
    BY <1>5 DEF Fields
  <2>. QED
    BY <1>5, <2>1 DEF IInv, Shaped
<1>8. OwnWords'
  BY <1>3, <1>4, <1>5, <1>6 DEF IInv, OwnWords
<1>9. ended' \subseteq Open'
  BY <1>3, <1>5 DEF Start, IInv, Open
<1>. QED
  BY <1>1, <1>2, <1>7, <1>8, <1>9 DEF IInv

\* A lexeme moves the position only.
LEMMA GetLexemeOwn == ASSUME IInv, NEW s \in Sessions, GetLexeme(s) PROVE IInv'
<1>1. UNCHANGED <<files, gInited, gJiaba, heap, call>> /\ s \in Open
  BY DEF GetLexeme
<1>2. CASE pst' = pst
  BY <1>1, <1>2, SessionsSame DEF GetLexeme, IInv, FlagTrue
<1>3. CASE pst' = [pst EXCEPT ![s].pos = @ + 1] /\ ended' = ended
  <2>1. /\ DOMAIN pst' = Sessions
        /\ \A t \in Sessions \ {s} : pst'[t] = pst[t]
        /\ pst'[s] = [pst[s] EXCEPT !.pos = @ + 1]
    BY <1>1, <1>3 DEF IInv, Shaped, Open
  <2>2. Open' \subseteq Open
    BY <1>1, <2>1 DEF Open
  <2>3. \A t \in Open : pst'[t].wordVct = pst[t].wordVct
    BY <1>1, <2>1 DEF IInv, Shaped, Open, Fields
  <2>4. Shaped'
    <3>1. \A t \in Open : pst'[t] = [f \in Fields |-> pst'[t][f]]
      BY <1>1, <2>1 DEF IInv, Shaped, Open, Fields
    <3>. QED
      BY <1>1, <2>1, <2>2, <3>1 DEF IInv, Shaped
  <2>5. OwnWords'
    BY <1>1, <2>2, <2>3 DEF IInv, OwnWords
  <2>6. ended' \subseteq Open'
    BY <1>3, <2>1 DEF GetLexeme, IInv, Open
  <2>. QED
    BY <1>1, <2>4, <2>5, <2>6 DEF IInv, FlagTrue
<1>. QED
  BY <1>2, <1>3 DEF GetLexeme

\* The vector that is deleted is no other session's.
LEMMA EndOwn == ASSUME IInv, NEW s \in Sessions, End(s) PROVE IInv'
<1>1. UNCHANGED <<files, gInited, gJiaba>> /\ Forget(s) /\ s \in Open
  BY DEF End, IInv
<1>2. \A t \in Open \ {s} : /\ pst[t].wordVct \in DOMAIN heap'
                            /\ heap'[pst[t].wordVct] = heap[pst[t].wordVct]
  BY DEF End, IInv, OwnWords
<1>. QED
  BY <1>1, <1>2, ForgetOwn DEF IInv, FlagTrue

-----------------------------------------------------------------------------
LEMMA NextIInv == IInv /\ [Next]_vars => IInv'
<1>. SUFFICES ASSUME IInv, [Next]_vars PROVE IInv'
  OBVIOUS
<1>1. CASE \E s \in Sessions, text \in Texts, query \in BOOLEAN : Start(s, text, query)
  BY <1>1, StartOwn
<1>2. CASE \E s \in Sessions : GetLexeme(s)
  BY <1>2, GetLexemeOwn
<1>3. CASE \E s \in Sessions : End(s)
  BY <1>3, EndOwn
<1>4. ASSUME NEW s \in Sessions, Error(s) PROVE IInv'
  <2>1. UNCHANGED <<files, gInited, gJiaba, heap>> /\ Forget(s)
    BY <1>4 DEF Error
  <2>2. \A t \in Open : pst[t].wordVct \in DOMAIN heap
    BY DEF IInv, OwnWords
  <2>. QED
    BY <2>1, <2>2, ForgetOwn DEF IInv, FlagTrue
<1>5. CASE LexType \/ Reset
  <2>1. Load /\ UNCHANGED <<files, heap, pst, call, ended>>
    BY <1>5 DEF LexType, Reset
  <2>. QED
    BY <2>1, LoadFlag, SessionsSame DEF IInv
<1>6. CASE ReplaceFiles
  <2>1. UNCHANGED <<gInited, gJiaba, heap, pst, call, ended>>
    BY <1>6 DEF ReplaceFiles
  <2>. QED
    BY <1>6, <2>1, SessionsSame DEF ReplaceFiles, IInv, FlagTrue
<1>7. CASE UNCHANGED vars
  BY <1>7, SessionsSame DEF vars, IInv, FlagTrue
<1>. QED
  BY <1>1, <1>2, <1>3, <1>4, <1>5, <1>6, <1>7 DEF Next

\* An open session points to a vector that is allocated, holds its words and is no
\* other session's: what end_parse deletes and get_word reads is its own, though
\* wordVct is set in one branch of init_parse_state only.
THEOREM SessionsOwnTheirWords == Spec => []OwnWords
<1>1. IInv => OwnWords
  BY DEF IInv
<1>. QED
  BY <1>1, InitIInv, NextIInv, PTL DEF Spec

-----------------------------------------------------------------------------
(* Types of tokens.                                                        *)

\* 'x', which get_word falls back to, is the type of "ns" by chance.
LEMMA XIsDeclared == 120 \in LexTypes
<1>1. /\ Len(lex_descr) = 56 /\ 20 \in 1..56 /\ lex_descr[20] = "ns"
      /\ \A k \in 1..56 : lex_descr[k] = "ns" => k = 20
  BY DEF lex_descr
<1>. HIDE DEF lex_descr
<1>2. TypeOf("ns") = 120
  <2>. DEFINE place == CHOOSE k \in 1..Len(lex_descr) : lex_descr[k] = "ns"
  <2>1. place = 20
    BY <1>1
  <2>2. TypeOf("ns") = 100 + place
    BY DEF TypeOf
  <2>. HIDE DEF place
  <2>3. 100 + 20 = 120
    OBVIOUS
  <2>. QED
    BY <2>1, <2>2, <2>3
<1>3. "ns" \in Tokens
  BY <1>1 DEF Tokens
<1>. QED
  BY <1>2, <1>3 DEF LexTypes

\* Whatever the tag, the type is declared.
LEMMA TypeDeclared == \A tag : LexemeType(tag) \in LexTypes
BY XIsDeclared DEF LexemeType, LexTypes

-----------------------------------------------------------------------------
(* What the sessions have delivered.                                       *)

Lexeme == [word: Bytes, type: LexTypes]

\* A ParserState p that was asked for c and has given g: of c's words, which are a
\* cut of its text, those up to the position.
Serving(p, c, g) ==
  /\ p.size = Len(c.words) /\ p.pos = Len(g) /\ p.pos <= p.size
  /\ c.text \in Seq(Byte) /\ c.query \in BOOLEAN /\ c.words \in Seq(Bytes)
  /\ \E dict \in Dictionaries : c.words \in Cuts(c.text, dict, c.query)
  /\ g \in Seq(Lexeme)
  /\ \A k \in 1..Len(g) : g[k].word = c.words[k]

\* A session is told too early that there is no more only if a reset failed.
Delivered ==
  /\ DOMAIN got = Sessions
  /\ \A s \in Open : Serving(pst[s], call[s], got[s])
  /\ \A s \in Sessions \ Open : got[s] = <<>>
  /\ \A s \in ended \ cutOff : pst[s].pos = pst[s].size
  /\ gJiaba = Null => Open \subseteq cutOff

SInv == IInv /\ TypeOK /\ Delivered

LEMMA InitSInv == Init => SInv
<1>. SUFFICES ASSUME Init PROVE SInv
  OBVIOUS
<1>1. Open = {}
  BY DEF Init, Open
<1>2. IInv
  BY InitIInv
<1>3. TypeOK
  <2>1. DOMAIN heap \subseteq Vectors /\ \A v \in DOMAIN heap : heap[v] \in Seq(Seq(Byte))
    BY DEF Init
  <2>2. pst \in [Sessions -> ParserState \cup {Null}]
    BY DEF Init
  <2>3. resets \in 0..MaxResets /\ errors \in 0..MaxErrors
    BY SessionAssumption DEF Init
  <2>. QED
    BY <1>1, <2>1, <2>2, <2>3 DEF Init, TypeOK
<1>4. Delivered
  BY <1>1 DEF Init, Delivered
<1>. QED
  BY <1>2, <1>3, <1>4 DEF SInv

\* A session that is gone.
LEMMA ForgetDelivered ==
  ASSUME SInv, NEW s \in Open, Forget(s), UNCHANGED gJiaba
  PROVE  /\ pst' \in [Sessions -> ParserState \cup {Null}]
         /\ Open' = Open \ {s}
         /\ \A t \in Open' : pst'[t] = pst[t]
         /\ ended' \subseteq Open' /\ cutOff' \subseteq Open'
         /\ Delivered'
<1>1. /\ Open' = Open \ {s} /\ ended' = ended \ {s} /\ cutOff' = cutOff \ {s}
      /\ \A t \in Sessions \ {s} : pst'[t] = pst[t] /\ call'[t] = call[t] /\ got'[t] = got[t]
      /\ got'[s] = <<>> /\ DOMAIN got' = Sessions
      /\ ended \subseteq Open /\ cutOff \subseteq Open /\ Open \subseteq Sessions
  BY DEF SInv, IInv, Shaped, TypeOK, Delivered, Forget, Open
<1>2. pst' \in [Sessions -> ParserState \cup {Null}]
  BY DEF SInv, TypeOK, Forget
<1>3. Delivered'
  <2>1. \A t \in Open' : Serving(pst'[t], call'[t], got'[t])
    BY <1>1 DEF SInv, Delivered
  <2>2. \A t \in Sessions \ Open' : got'[t] = <<>>
    BY <1>1 DEF SInv, Delivered
  <2>3. \A t \in ended' \ cutOff' : pst'[t].pos = pst'[t].size
    BY <1>1 DEF SInv, Delivered
  <2>4. gJiaba' = Null => Open' \subseteq cutOff'
    BY <1>1 DEF SInv, Delivered
  <2>. QED
    BY <1>1, <2>1, <2>2, <2>3, <2>4 DEF Delivered
<1>. QED
  BY <1>1, <1>2, <1>3

\* A new session has delivered nothing yet.
LEMMA StartSInv ==
  ASSUME SInv, NEW s \in Sessions, NEW text \in Texts, NEW query \in BOOLEAN, Start(s, text, query)
  PROVE  SInv'
<1>1. IInv' /\ files' = files /\ UNCHANGED <<got, ended, cutOff, resets, errors>> /\ s \notin Open
  BY StartOwn DEF SInv, Start
<1>2. gJiaba' \in Dictionaries /\ gInited' \in BOOLEAN
  <2>1. CASE gInited
    BY <2>1 DEF Start, SInv, IInv, FlagTrue, TypeOK
  <2>2. CASE ~gInited
    BY <2>2 DEF Start, Load, SInv, TypeOK
  <2>. QED
    BY <2>1, <2>2
<1>3. PICK v \in Vectors, words \in Cuts(text, gJiaba', query) :
        /\ v \notin DOMAIN heap
        /\ heap' = [u \in DOMAIN heap \cup {v} |-> IF u = v THEN words ELSE heap[u]]
        /\ pst' = [pst EXCEPT ![s] = [wordVct |-> v, size |-> Len(words), pos |-> 0]]
        /\ call' = [call EXCEPT ![s] = [text |-> text, query |-> query, words |-> words]]
  BY <1>2, SessionAssumption DEF Start, InitParseState
<1>4. text \in Seq(Byte)
  BY TextsAreBytes
<1>5. words \in Seq(Bytes) /\ Len(words) \in Nat
  BY <1>3, <1>4, WordsType
<1>. DEFINE p == [wordVct |-> v, size |-> Len(words), pos |-> 0]
            c == [text |-> text, query |-> query, words |-> words]
<1>6. p \in ParserState /\ p # Null /\ p.pos = 0 /\ p.size = Len(words)
  BY <1>5, SessionAssumption DEF ParserState
<1>7. c.text = text /\ c.query = query /\ c.words = words
  OBVIOUS
<1>8. pst' = [pst EXCEPT ![s] = p] /\ call' = [call EXCEPT ![s] = c]
  BY <1>3
<1>. HIDE DEF p, c
<1>9. /\ Open' = Open \cup {s} /\ pst'[s] = p /\ call'[s] = c
      /\ \A t \in Open : t # s /\ pst'[t] = pst[t] /\ call'[t] = call[t]
      /\ pst' \in [Sessions -> ParserState \cup {Null}]
      /\ Open \subseteq Sessions
  BY <1>1, <1>6, <1>8 DEF SInv, IInv, Shaped, TypeOK, Open
<1>10. got[s] = <<>>
  BY <1>1 DEF SInv, Delivered
<1>11. Serving(p, c, got[s])
  <2>1. Len(got[s]) = 0 /\ got[s] \in Seq(Lexeme)
    BY <1>10
  <2>. QED
    BY <1>2, <1>3, <1>4, <1>5, <1>6, <1>7, <2>1 DEF Serving
<1>12. TypeOK'
  <2>1. \A t \in Open' : pst'[t].pos \in 0..pst'[t].size
    <3>1. \A t \in Open : pst[t].pos \in 0..pst[t].size
      BY DEF SInv, TypeOK
    <3>. QED
      BY <1>5, <1>6, <1>9, <3>1
  <2>2. DOMAIN heap' \subseteq Vectors /\ \A u \in DOMAIN heap' : heap'[u] \in Seq(Seq(Byte))
    BY <1>3, <1>5 DEF SInv, TypeOK, Bytes
  <2>. QED
    BY <1>1, <1>2, <1>9, <2>1, <2>2 DEF SInv, TypeOK
<1>13. Delivered'
  <2>1. \A t \in Open' : Serving(pst'[t], call'[t], got'[t])
    BY <1>1, <1>9, <1>11 DEF SInv, Delivered
  <2>2. \A t \in ended' \ cutOff' : pst'[t].pos = pst'[t].size
    BY <1>1, <1>9 DEF SInv, IInv, Delivered
  <2>. QED
    BY <1>1, <1>2, <1>9, <2>1, <2>2, SessionAssumption DEF SInv, Delivered
<1>. QED
  BY <1>1, <1>12, <1>13 DEF SInv

\* The next word and its type, or the end.
LEMMA GetLexemeSInv == ASSUME SInv, NEW s \in Sessions, GetLexeme(s) PROVE SInv'
<1>1. IInv' /\ UNCHANGED <<files, gInited, gJiaba, heap, call, cutOff, resets, errors>> /\ s \in Open
  BY GetLexemeOwn DEF SInv, GetLexeme
<1>. DEFINE p == pst[s]
            word == heap[p.wordVct][p.pos + 1]
            x == [word |-> word, type |-> LexemeType(LookupTag(word, gJiaba))]
<1>2. Serving(p, call[s], got[s]) /\ p \in ParserState /\ p.pos \in Nat /\ p.size \in Nat /\ p.pos <= p.size
  <2>1. Serving(p, call[s], got[s])
    BY <1>1 DEF SInv, Delivered
  <2>2. p \in ParserState
    BY <1>1 DEF SInv, TypeOK, Open
  <2>. QED
    BY <2>1, <2>2 DEF ParserState, Serving
<1>3. CASE gJiaba = Null \/ p.pos >= p.size
  <2>1. UNCHANGED <<pst, got>> /\ ended' = ended \cup {s} /\ Open' = Open
    BY <1>3 DEF GetLexeme, Open
  <2>2. s \in cutOff \/ p.pos = p.size
    BY <1>1, <1>2, <1>3 DEF SInv, Delivered
  <2>3. TypeOK'
    BY <1>1, <2>1 DEF SInv, TypeOK
  <2>4. Delivered'
    <3>1. \A t \in ended' \ cutOff' : pst'[t].pos = pst'[t].size
      BY <1>1, <2>1, <2>2 DEF SInv, Delivered
    <3>. QED
      BY <1>1, <2>1, <3>1 DEF SInv, Delivered
  <2>. QED
    BY <1>1, <2>3, <2>4 DEF SInv
<1>4. CASE ~(gJiaba = Null \/ p.pos >= p.size)
  <2>1. /\ got' = [got EXCEPT ![s] = Append(@, x)]
        /\ pst' = [pst EXCEPT ![s].pos = @ + 1]
        /\ ended' = ended /\ s \notin ended
    BY <1>4 DEF GetLexeme
  <2>2. p.pos + 1 \in 1..p.size
    BY <1>2, <1>4
  <2>3. word = call[s].words[p.pos + 1] /\ word \in Bytes
    <3>1. heap[p.wordVct] = call[s].words
      BY <1>1 DEF SInv, IInv, OwnWords
    <3>. QED
      BY <1>2, <2>2, <3>1 DEF Serving
  <2>. HIDE DEF word
  <2>4. x \in Lexeme /\ x.word = word
    BY <2>3, TypeDeclared DEF Lexeme
  <2>. HIDE DEF x
  <2>. DEFINE q == [p EXCEPT !.pos = @ + 1]
              g == Append(got[s], x)
  <2>5. q \in ParserState /\ q.pos = p.pos + 1 /\ q.size = p.size
    BY <1>2 DEF ParserState
  <2>6. pst' = [pst EXCEPT ![s] = q]
    BY <2>1
  <2>7. got' = [got EXCEPT ![s] = g]
    BY <2>1
  <2>. HIDE DEF q
  <2>8. Serving(q, call[s], g)
    <3>1. got[s] \in Seq(Lexeme) /\ Len(got[s]) = p.pos /\ \A k \in 1..p.pos : got[s][k].word = call[s].words[k]
      BY <1>2 DEF Serving
    <3>2. g \in Seq(Lexeme) /\ Len(g) = p.pos + 1
      BY <2>4, <3>1, AppendProperties
    <3>3. \A k \in 1..p.pos : g[k] = got[s][k]
      BY <2>4, <3>1, AppendProperties
    <3>4. g[p.pos + 1] = x
      BY <2>4, <3>1, AppendProperties
    <3>. HIDE DEF g
    <3>5. \A k \in 1..p.pos+1 : k \in 1..p.pos \/ k = p.pos + 1
      BY <1>2
    <3>6. \A k \in 1..Len(g) : g[k].word = call[s].words[k]
      BY <2>3, <2>4, <3>1, <3>2, <3>3, <3>4, <3>5
    <3>7. q.pos <= q.size
      BY <1>2, <2>2, <2>5
    <3>. QED
      BY <1>2, <2>5, <3>2, <3>6, <3>7 DEF Serving
  <2>. HIDE DEF g, p
  <2>9. /\ Open' = Open /\ pst'[s] = q /\ got'[s] = g
        /\ \A t \in Sessions \ {s} : pst'[t] = pst[t] /\ got'[t] = got[t]
        /\ pst' \in [Sessions -> ParserState \cup {Null}] /\ DOMAIN got' = Sessions
    BY <1>1, <2>5, <2>6, <2>7, SessionAssumption DEF SInv, TypeOK, Delivered, Open
  <2>10. TypeOK'
    <3>1. \A t \in Open' : pst'[t].pos \in 0..pst'[t].size
      <4>1. q.pos \in 0..q.size
        BY <2>2, <2>5
      <4>2. \A t \in Open : pst[t].pos \in 0..pst[t].size
        BY DEF SInv, TypeOK
      <4>. QED
        BY <2>9, <4>1, <4>2 DEF Open
    <3>. QED
      BY <1>1, <2>1, <2>9, <3>1 DEF SInv, TypeOK
  <2>11. Delivered'
    <3>1. \A t \in Open' : Serving(pst'[t], call'[t], got'[t])
      BY <1>1, <2>8, <2>9 DEF SInv, Delivered, Open
    <3>2. \A t \in Sessions \ Open' : got'[t] = <<>>
      BY <1>1, <2>9 DEF SInv, Delivered
    <3>3. \A t \in ended' \ cutOff' : pst'[t].pos = pst'[t].size
      BY <1>1, <2>1, <2>9 DEF SInv, Delivered, TypeOK, Open
    <3>. QED
      BY <1>1, <2>9, <3>1, <3>2, <3>3 DEF SInv, Delivered
  <2>. QED
    BY <1>1, <2>10, <2>11 DEF SInv
<1>. QED
  BY <1>3, <1>4

\* A session that ends, with or without its vector.
LEMMA ForgetSInv ==
  ASSUME SInv, IInv', NEW s \in Open, Forget(s), UNCHANGED <<files, gInited, gJiaba, resets>>,
         errors' \in 0..MaxErrors,
         DOMAIN heap' \subseteq DOMAIN heap, \A v \in DOMAIN heap' : heap'[v] = heap[v]
  PROVE  SInv'
<1>1. /\ pst' \in [Sessions -> ParserState \cup {Null}]
      /\ Open' = Open \ {s}
      /\ \A t \in Open' : pst'[t] = pst[t]
      /\ ended' \subseteq Open' /\ cutOff' \subseteq Open'
      /\ Delivered'
  BY ForgetDelivered
<1>2. TypeOK'
  BY <1>1 DEF SInv, TypeOK
<1>. QED
  BY <1>1, <1>2 DEF SInv

\* A step that leaves the sessions as they are; they may be cut off.
LEMMA SameSInv ==
  ASSUME SInv, IInv', UNCHANGED <<heap, pst, call, got, ended, errors>>,
         files' \in Dictionaries \cup {Null}, gJiaba' \in Dictionaries \cup {Null}, gInited' \in BOOLEAN,
         resets' \in 0..MaxResets,
         cutOff' = Open \/ (cutOff' = cutOff /\ (gJiaba' = Null => gJiaba = Null))
  PROVE  SInv'
<1>1. Open' = Open
  BY DEF Open
<1>2. TypeOK'
  BY <1>1 DEF SInv, TypeOK
<1>3. cutOff \subseteq cutOff' /\ cutOff' \subseteq Open
  BY DEF SInv, TypeOK
<1>4. Delivered'
  BY <1>1, <1>3 DEF SInv, Delivered
<1>. QED
  BY <1>2, <1>4 DEF SInv

LEMMA NextSInv == SInv /\ [Next]_vars => SInv'
<1>. SUFFICES ASSUME SInv, [Next]_vars PROVE SInv'
  OBVIOUS
<1>1. IInv'
  BY NextIInv DEF SInv
<1>2. CASE \E s \in Sessions, text \in Texts, query \in BOOLEAN : Start(s, text, query)
  BY <1>2, StartSInv
<1>3. CASE \E s \in Sessions : GetLexeme(s)
  BY <1>3, GetLexemeSInv
<1>4. ASSUME NEW s \in Sessions, End(s) PROVE SInv'
  <2>1. s \in Open /\ Forget(s) /\ UNCHANGED <<files, gInited, gJiaba, resets, errors>>
    BY <1>4 DEF End, SInv, TypeOK
  <2>2. DOMAIN heap' \subseteq DOMAIN heap /\ \A v \in DOMAIN heap' : heap'[v] = heap[v]
    BY <1>4 DEF End
  <2>3. errors' \in 0..MaxErrors
    BY <2>1 DEF SInv, TypeOK
  <2>. QED
    BY <1>1, <2>1, <2>2, <2>3, ForgetSInv
<1>5. ASSUME NEW s \in Sessions, Error(s) PROVE SInv'
  <2>1. s \in Open /\ Forget(s) /\ UNCHANGED <<files, gInited, gJiaba, resets, heap>>
    BY <1>5 DEF Error
  <2>2. errors' \in 0..MaxErrors
    BY <1>5, SessionAssumption DEF Error, SInv, TypeOK
  <2>. QED
    BY <1>1, <2>1, <2>2, ForgetSInv
<1>6. CASE LexType
  <2>1. /\ UNCHANGED <<files, heap, pst, call, got, ended, cutOff, resets, errors>>
        /\ gJiaba' = files /\ files # Null /\ gInited' \in BOOLEAN
    BY <1>6 DEF LexType, Load
  <2>. QED
    BY <1>1, <2>1, SameSInv DEF SInv, TypeOK
<1>7. CASE Reset
  <2>1. /\ UNCHANGED <<files, heap, pst, call, got, ended, errors>>
        /\ gJiaba' = files /\ gInited' \in BOOLEAN
        /\ cutOff' = IF files = Null THEN Open ELSE cutOff
    BY <1>7 DEF Reset, Load
  <2>2. resets' \in 0..MaxResets
    BY <1>7, SessionAssumption DEF Reset, SInv, TypeOK
  <2>3. files \in Dictionaries \cup {Null}
    BY DEF SInv, TypeOK
  <2>4. cutOff' = Open \/ (cutOff' = cutOff /\ (gJiaba' = Null => gJiaba = Null))
    BY <2>1
  <2>. QED
    BY <1>1, <2>1, <2>2, <2>3, <2>4, SameSInv
<1>8. CASE ReplaceFiles
  <2>1. UNCHANGED <<gInited, gJiaba, heap, pst, call, got, ended, cutOff, resets, errors>>
        /\ files' \in Dictionaries \cup {Null}
    BY <1>8 DEF ReplaceFiles
  <2>. QED
    BY <1>1, <2>1, SameSInv DEF SInv, TypeOK
<1>9. CASE UNCHANGED vars
  BY <1>1, <1>9, SameSInv DEF vars, SInv, TypeOK
<1>. QED
  BY <1>2, <1>3, <1>4, <1>5, <1>6, <1>7, <1>8, <1>9 DEF Next

LEMMA SInvAlways == Spec => []SInv
BY InitSInv, NextSInv, PTL DEF Spec

-----------------------------------------------------------------------------
(* What follows.                                                           *)

\* Every variable has its type at all times, and a ParserState that is there has
\* all its members: start_parse, get_lexeme and end_parse never see a partly set one.
THEOREM SessionTypeCorrect == Spec => []TypeOK
<1>1. SInv => TypeOK
  BY DEF SInv
<1>. QED
  BY <1>1, SInvAlways, PTL

\* get_word hands out the words that start_parse cut, in order and none twice or
\* skipped, and says that there is no more only behind the last one, but for the
\* sessions that a failed jiebaparser_reset cut off.
THEOREM WordsComeInOrder == Spec => []InOrder
<1>1. SInv => InOrder
  <2>. SUFFICES ASSUME SInv, NEW s \in Open
                PROVE  /\ Len(got[s]) <= Len(call[s].words)
                       /\ \A k \in 1..Len(got[s]) : got[s][k].word = call[s].words[k]
                       /\ s \in ended \ cutOff => Len(got[s]) = Len(call[s].words)
    BY DEF InOrder
  <2>1. Serving(pst[s], call[s], got[s])
    BY DEF SInv, Delivered
  <2>2. s \in ended \ cutOff => pst[s].pos = pst[s].size
    BY DEF SInv, Delivered
  <2>. QED
    BY <2>1, <2>2 DEF Serving
<1>. QED
  BY <1>1, SInvAlways, PTL

\* Every lexeme's type is one that lextype declares, whatever tag the dictionary
\* has: 'x', which get_word falls back to, is 120 and so the type of "ns".
THEOREM TypesAreDeclared == Spec => []TypesDeclared
<1>1. SInv => TypesDeclared
  <2>. SUFFICES ASSUME SInv, NEW s \in Open, NEW k \in 1..Len(got[s]) PROVE got[s][k].type \in LexTypes
    BY DEF TypesDeclared
  <2>1. got[s] \in Seq(Lexeme)
    BY DEF SInv, Delivered, Serving
  <2>2. got[s][k] \in Lexeme
    BY <2>1
  <2>. QED
    BY <2>2 DEF Lexeme
<1>. QED
  BY <1>1, SInvAlways, PTL

\* The words of a text that decodes, put behind each other, are the text, byte for
\* byte: decoding (Unicode.hpp), cutting and GetWordsFromWordRanges lose nothing;
\* a text that does not decode has no words at all.
THEOREM NoByteIsLost == Spec => []BytesKept
<1>1. SInv => BytesKept
  <2>. SUFFICES ASSUME SInv, NEW s \in Open
                PROVE  LET c == call[s] IN
                         IF DecodeRunes(c.text).ok THEN ~c.query => Concat(c.words) = c.text
                                                   ELSE c.words = <<>>
    BY DEF BytesKept
  <2>. DEFINE c == call[s]
  <2>1. Serving(pst[s], c, got[s])
    BY DEF SInv, Delivered
  <2>. HIDE DEF c
  <2>2. c.text \in Seq(Byte) /\ c.query \in BOOLEAN
    BY <2>1 DEF Serving
  <2>3. PICK dict \in Dictionaries : c.words \in Cuts(c.text, dict, c.query)
    BY <2>1 DEF Serving
  <2>4. ~DecodeRunes(c.text).ok => c.words = <<>>
    BY <2>2, <2>3, WordsType
  <2>5. ASSUME DecodeRunes(c.text).ok, ~c.query PROVE Concat(c.words) = c.text
    <3>1. c.query = FALSE
      BY <2>2, <2>5
    <3>. QED
      BY <2>2, <2>3, <2>5, <3>1, WordsKeepBytes
  <2>. QED
    BY <2>4, <2>5 DEF c
<1>. QED
  BY <1>1, SInvAlways, PTL

\* A text that is UTF-8 is decoded to its code points: encoded again they are the
\* text, whatever its length (DecodeRunesInString, by lead bytes and masks alone).
THEOREM DecodingIsRight == Spec => []DecodedRight
<1>1. DecodedRight
  BY DecodedTexts DEF DecodedRight
<1>. QED
  BY <1>1, PTL

-----------------------------------------------------------------------------
(* Memory.                                                                 *)

\* The count of vectors is that of sessions and errors: both sets stay finite.
LeakInv == SInv /\ IsFiniteSet(DOMAIN heap) /\ IsFiniteSet(Open) /\ LeaksBounded

LEMMA NextLeakInv == LeakInv /\ [Next]_vars => LeakInv'
<1>. SUFFICES ASSUME LeakInv, [Next]_vars PROVE LeakInv'
  OBVIOUS
<1>1. SInv /\ SInv' /\ IsFiniteSet(DOMAIN heap) /\ IsFiniteSet(Open)
      /\ Cardinality(DOMAIN heap) = Cardinality(Open) + errors
  BY NextSInv DEF LeakInv, LeaksBounded
<1>2. Cardinality(DOMAIN heap) \in Nat /\ Cardinality(Open) \in Nat /\ errors \in Nat
  BY <1>1, SessionAssumption, FS_CardinalityType DEF SInv, TypeOK
<1>3. ASSUME NEW s \in Sessions, NEW text \in Texts, NEW query \in BOOLEAN, Start(s, text, query)
      PROVE  LeakInv'
  <2>1. s \notin Open /\ errors' = errors /\ gJiaba' # Null
    <3>1. gInited' => gJiaba' # Null
      BY <1>1 DEF SInv, IInv, FlagTrue
    <3>2. gInited'
      BY <1>3 DEF Start, Load
    <3>. QED
      BY <1>3, <3>1, <3>2 DEF Start
  <2>2. PICK v \in Vectors, words \in Cuts(text, gJiaba', query) :
          /\ v \notin DOMAIN heap
          /\ heap' = [u \in DOMAIN heap \cup {v} |-> IF u = v THEN words ELSE heap[u]]
          /\ pst' = [pst EXCEPT ![s] = [wordVct |-> v, size |-> Len(words), pos |-> 0]]
    BY <1>3, <2>1 DEF Start, InitParseState
  <2>3. DOMAIN heap' = DOMAIN heap \cup {v}
    BY <2>2
  <2>4. Len(words) \in Nat
    <3>1. words \in Seq(Bytes)
      BY <1>3, <2>2, TextsAreBytes, WordsType
    <3>. QED
      BY <3>1
  <2>5. Open' = Open \cup {s}
    <3>1. [wordVct |-> v, size |-> Len(words), pos |-> 0] # Null
      BY <2>4, SessionAssumption DEF ParserState
    <3>2. DOMAIN pst = Sessions
      BY <1>1 DEF SInv, TypeOK
    <3>. QED
      BY <2>2, <3>1, <3>2 DEF Open
  <2>6. IsFiniteSet(DOMAIN heap') /\ Cardinality(DOMAIN heap') = Cardinality(DOMAIN heap) + 1
    BY <1>1, <2>2, <2>3, FS_AddElement
  <2>7. IsFiniteSet(Open') /\ Cardinality(Open') = Cardinality(Open) + 1
    BY <1>1, <2>1, <2>5, FS_AddElement
  <2>8. LeaksBounded'
    BY <1>1, <1>2, <2>1, <2>6, <2>7 DEF LeaksBounded
  <2>. QED
    BY <1>1, <2>6, <2>7, <2>8 DEF LeakInv
<1>4. CASE \E s \in Sessions : GetLexeme(s)
  <2>1. UNCHANGED <<heap, errors>>
    BY <1>4 DEF GetLexeme
  <2>2. Open' = Open
    <3>1. PICK s \in Sessions : GetLexeme(s)
      BY <1>4
    <3>2. CASE pst' = pst
      BY <3>2 DEF Open
    <3>3. CASE pst' = [pst EXCEPT ![s].pos = @ + 1]
      <4>1. s \in Open /\ pst[s] \in ParserState
        BY <1>1, <3>1 DEF GetLexeme, SInv, TypeOK, Open
      <4>. DEFINE q == [pst[s] EXCEPT !.pos = @ + 1]
      <4>2. q \in ParserState
        BY <4>1 DEF ParserState
      <4>3. pst' = [pst EXCEPT ![s] = q]
        BY <3>3
      <4>. HIDE DEF q
      <4>. QED
        BY <1>1, <4>1, <4>2, <4>3, SessionAssumption DEF SInv, TypeOK, Open
    <3>. QED
      BY <3>1, <3>2, <3>3 DEF GetLexeme
  <2>. QED
    BY <1>1, <2>1, <2>2 DEF LeakInv, LeaksBounded
<1>5. ASSUME NEW s \in Open, Forget(s)
      PROVE  Open' = Open \ {s} /\ IsFiniteSet(Open') /\ Cardinality(Open') = Cardinality(Open) - 1
  <2>1. Open' = Open \ {s}
    <3>1. DOMAIN pst = Sessions
      BY <1>1 DEF SInv, TypeOK
    <3>. QED
      BY <1>5, <3>1 DEF Forget, Open
  <2>. QED
    BY <1>1, <1>5, <2>1, FS_RemoveElement
<1>6. ASSUME NEW s \in Sessions, End(s) PROVE LeakInv'
  <2>1. s \in Open /\ Forget(s) /\ errors' = errors
    BY <1>1, <1>6 DEF End, SInv, TypeOK
  <2>. DEFINE v == pst[s].wordVct
  <2>2. v \in DOMAIN heap
    BY <1>1, <2>1 DEF SInv, IInv, OwnWords
  <2>3. DOMAIN heap' = DOMAIN heap \ {v}
    BY <1>6 DEF End
  <2>4. IsFiniteSet(DOMAIN heap') /\ Cardinality(DOMAIN heap') = Cardinality(DOMAIN heap) - 1
    BY <1>1, <2>2, <2>3, FS_RemoveElement
  <2>5. IsFiniteSet(Open') /\ Cardinality(Open') = Cardinality(Open) - 1
    BY <1>5, <2>1
  <2>6. LeaksBounded'
    BY <1>1, <1>2, <2>1, <2>4, <2>5 DEF LeaksBounded
  <2>. QED
    BY <1>1, <2>4, <2>5, <2>6 DEF LeakInv
<1>7. ASSUME NEW s \in Sessions, Error(s) PROVE LeakInv'
  <2>1. s \in Open /\ Forget(s) /\ errors' = errors + 1 /\ heap' = heap
    BY <1>7 DEF Error
  <2>2. IsFiniteSet(Open') /\ Cardinality(Open') = Cardinality(Open) - 1
    BY <1>5, <2>1
  <2>3. LeaksBounded'
    BY <1>1, <1>2, <2>1, <2>2 DEF LeaksBounded
  <2>. QED
    BY <1>1, <2>1, <2>2, <2>3 DEF LeakInv
<1>8. CASE LexType \/ Reset \/ ReplaceFiles \/ UNCHANGED vars
  <2>1. UNCHANGED <<heap, pst, errors>>
    BY <1>8 DEF LexType, Reset, ReplaceFiles, vars
  <2>2. Open' = Open
    BY <2>1 DEF Open
  <2>. QED
    BY <1>1, <2>1, <2>2 DEF LeakInv, LeaksBounded
<1>. QED
  BY <1>3, <1>4, <1>6, <1>7, <1>8 DEF Next

\* Of the vectors that init_parse_state news, those that no session points to any
\* more are as many as the errors that ended a session before end_parse.
THEOREM OnlyErrorsLeak == Spec => []LeaksBounded
<1>1. Init => LeakInv
  <2>. SUFFICES ASSUME Init PROVE LeakInv
    OBVIOUS
  <2>1. DOMAIN heap = {} /\ Open = {} /\ errors = 0
    BY DEF Init, Open
  <2>2. IsFiniteSet({}) /\ Cardinality({}) = 0
    BY FS_EmptySet
  <2>3. LeaksBounded
    BY <2>1, <2>2 DEF LeaksBounded
  <2>. QED
    BY <2>1, <2>2, <2>3, InitSInv DEF LeakInv
<1>2. LeakInv => LeaksBounded
  BY DEF LeakInv
<1>. QED
  BY <1>1, <1>2, NextLeakInv, PTL DEF Spec
=============================================================================
