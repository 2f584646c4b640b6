------------------------------ MODULE MCOracle ------------------------------
(* A small instance of FilswanOracleV2 for TLC. *)
EXTENDS FilswanOracleV2, TLC

CONSTANT a

MCBatchLists == {<<>>, <<a>>}
\* With a list that nobody signs: a hash nobody knows the list of.
MCLists == {<<>>, <<a>>, <<a, a>>}

MemberSymmetry == Permutations(Members)
=============================================================================
