--------------------------- MODULE MCDealTracking ---------------------------
(* Small instances of DealTracking for TLC. *)
EXTENDS DealTracking, TLC

DealSymmetry == Permutations(Cars) \cup Permutations(Deals)
=============================================================================
