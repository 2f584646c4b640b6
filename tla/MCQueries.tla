----------------------------- MODULE MCQueries ------------------------------
(* A small instance of ClientQueries for TLC. *)
EXTENDS ClientQueries

MCFiles == {[name |-> 1, size |-> 1]}
MCAmounts == {<<9>>}
Listed(list, orderBy, ascend, status, limit) ==
  [list |-> list, orderBy |-> orderBy, ascend |-> ascend, status |-> status,
   minted |-> All, limit |-> limit]
MCQueriesAsked ==
  {Listed("uploads", "upload_at", TRUE, All, 1),
   Listed("uploads", "upload_at", FALSE, "Processing", 1),
   Listed("billing", "pay_at", TRUE, All, 1), Everything}

ClientSymmetry == Permutations(Clients)
=============================================================================
