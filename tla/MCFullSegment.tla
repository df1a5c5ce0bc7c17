--------------------------- MODULE MCFullSegment ----------------------------
(* Main dictionaries and user dictionaries of up to two lines and some longer  *)
(* ones; texts of up to four runes, words longer than the trie's limit.       *)
EXTENDS FullSegment

X == "X"
Y == "Y"

Row(n, w, freq, tag) == [columns |-> n, word |-> w, freq |-> freq, tag |-> tag]

DictLines == {
  Row(3, <<X>>, 1, "n"), Row(3, <<X, Y>>, 3, "v"), Row(3, <<Y, X, Y>>, 2, "n"),
  Row(3, <<X, Y>>, 0, "n"), Row(2, <<X>>, 1, "n"), Row(3, BadUtf8, 2, "n")}

UserLines == {
  Row(1, <<Y>>, 0, ""), Row(2, <<X, Y>>, 0, "x"), Row(3, <<X, Y, X, Y>>, 0, "n"),
  Row(3, <<Y, X>>, 5, "n"), Row(4, <<X, X>>, 0, "n"), Row(2, BadUtf8, 0, "n")}

Short(lines) == UNION {[1..k -> lines] : k \in 0..2}

MCDictFiles == Short(DictLines) \cup {
  <<Row(3, <<X>>, 1, "n"), Row(3, <<X, Y>>, 2, "n"), Row(3, <<X, X, X>>, 3, "n")>>,
  <<Row(3, <<X, Y, X, Y>>, 9, "n"), Row(3, <<X, Y>>, 2, "n"), Row(3, <<X, Y>>, 3, "v")>>}

MCUserFiles == Short(UserLines)

MCMinDouble == -1000
MCMinusInf == -2000

MCTexts == UNION {[1..k -> {X, Y}] : k \in 0..4}
=============================================================================
