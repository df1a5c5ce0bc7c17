--------------------------- MODULE MCSentenceCut ----------------------------
(* Sentences of up to five runes, and one with three words of two; "," is a   *)
(* separator of one byte, the other runes have three.                         *)
EXTENDS KeyWords, TLC

MCSentences ==
  UNION {[1..k -> {"X", "Y", ","}] : k \in 0..4}
    \cup {<<"X", "Y", "X", "Y", "Y">>, <<"Y", ",", "X", "Y", "X">>,
          <<"X", "Y", ",", "X", "Y", ",", "Y", "X">>}

MCLexicons == {
  {},
  {<<"X">>, <<"Y">>},
  {<<"X">>, <<"X", "Y">>, <<"Y", "X">>},
  {<<"Y">>, <<"X", "Y">>, <<"X", "Y", "X">>, <<"X", "Y", "X", "Y">>},
  {<<"X", ",">>, <<"X", "Y", "X">>, <<"Y", "Y">>, <<"Y", "X", "Y", "Y">>}}

MCStopWords == {<<"Y", "Y">>}

MCSeparators == <<",", ",", "X">>

MCWidth == [r \in {"X", "Y", ","} |-> IF r = "," THEN 1 ELSE 3]
=============================================================================
