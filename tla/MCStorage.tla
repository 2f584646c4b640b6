------------------------------ MODULE MCStorage -----------------------------
(* A small instance of StorageService for TLC. *)
EXTENDS StorageService, TLC

CONSTANTS c1, c2, c3, f, g

MCPayload == c1 :> f @@ c2 :> f @@ c3 :> g
MCWallet == c1 :> 1 @@ c2 :> 1 @@ c3 :> 1
MCSize == f :> 1 @@ g :> 1

StorageSymmetry == Permutations({c1, c2}) \cup Permutations(Unpins)
=============================================================================
