-------------------------- MODULE MCCanonicalModels --------------------------
(* Strings of up to two characters, the separator and the colon among      *)
(* them; rows of one column or two.                                        *)
EXTENDS CanonicalModels

CONSTANTS a, f, m, colon, separator

MCStrings == UNION {[1..n -> {a, separator}] : n \in 0..2}

MCAccounts == MCStrings \cup {<<colon>>, <<a, separator, a>>}

MCBanks == {<<f>>, <<m>>}

MCRows == UNION {[1..n -> {<<>>, <<a>>, <<a, a>>, <<separator>>}] : n \in 1..2}
=============================================================================
