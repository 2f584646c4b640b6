------------------------------- MODULE MCDao --------------------------------
(* A small instance of DaoService for TLC: one deal of three files. *)
EXTENDS DaoService, TLC

CONSTANTS d1

MCCarFiles == d1 :> {4, 7, 9}
\* The batches the files come in, and what they add up to.
MCBatchLists == {<<4, 7>>, <<9>>}
MCLists == {CidList(b) : b \in [Batches -> MCBatchLists \cup {<<>>}]}

DaoSymmetry == Permutations(Members)
=============================================================================
