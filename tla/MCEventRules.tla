---------------------------- MODULE MCEventRules ----------------------------
(* Two resources; prefixes and suffixes with and without a wildcard that can*)
(* overlap in an object name of at most three letters.                      *)
EXTENDS EventRules

MCValues == {<<>>, <<"a", "?">>, <<"b", "*">>, <<"*", "b">>}
MCObjectNames == {<<>>} \union UNION {[1 .. n -> Letters] : n \in 1 .. 3}
Symmetry == Permutations(Resources)
=============================================================================
