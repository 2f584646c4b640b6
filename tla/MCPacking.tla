----------------------------- MODULE MCPacking ------------------------------
(* Small instances of Packing for TLC. *)
EXTENDS Packing, TLC

CONSTANTS u1, u2, f1

MCUploads == {u1, u2, f1}
MCFreeUploads == {f1}
MCSize == u1 :> 1 @@ u2 :> 1 @@ f1 :> 3
MCOfferedPrice == u1 :> 1 @@ u2 :> 2 @@ f1 :> 0

\* For the liveness runs: one charged and one free file.
FewUploads == {u1, f1}
FewSizes == u1 :> 1 @@ f1 :> 1
FewPrices == u1 :> 1 @@ f1 :> 0

PackSymmetry == Permutations(Cars) \cup Permutations(TaskIds)
=============================================================================
