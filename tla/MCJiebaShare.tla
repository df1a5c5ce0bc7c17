---------------------------- MODULE MCJiebaShare ----------------------------
(* Small instances of JiebaShare. *)
EXTENDS JiebaShare, TLC

CONSTANTS b1, b2, b3

OneCluster  == {{b1, b2, b3}}
PairCluster == {{b1, b2}}
TwoClusters == {{b1, b2}, {b3}}
Apart       == {{b1}, {b2}}

\* Backends are told apart by their clusters only: sound where all are alike.
Alike == Permutations(Backends)
=============================================================================
