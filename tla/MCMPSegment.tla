---------------------------- MODULE MCMPSegment -----------------------------
(* All texts of up to four runes over two letters, cut with every dictionary *)
(* of up to three of the words below; NegInf is the weight of a user word    *)
(* of frequency 0.                                                           *)
EXTENDS MPSegment, FiniteSets, TLC

NegInf == -1000

Letters == {"a", "b"}
MCTexts == UNION {[1..k -> Letters] : k \in 0..4}
Words == {<<"a">>, <<"b">>, <<"a", "b">>, <<"b", "a">>, <<"a", "a">>,
          <<"a", "b", "a">>, <<"b", "a", "b", "b">>}
MCDictionaries ==
  UNION {[ws -> {NegInf, -5, 1}] : ws \in {s \in SUBSET Words : Cardinality(s) <= 3}}
MCMinDouble == -100

\* the dictionary always has at least one word that is not of frequency 0
PlainDictionaries ==
  UNION {[ws -> {-5, -2}] : ws \in {s \in SUBSET Words : Cardinality(s) <= 3}}

ASSUME SumsAssumption == SumsFit(5)
=============================================================================
