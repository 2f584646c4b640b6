---------------------------- MODULE MCScheduler -----------------------------
(* A small instance of Scheduler for TLC: one charged file. *)
EXTENDS Scheduler, TLC

CONSTANTS u1

MCUploads == {u1}
MCFreeUploads == {}
MCSize == u1 :> 1
MCOfferedPrice == u1 :> 1

CarSymmetry == Permutations(Cars)
=============================================================================
