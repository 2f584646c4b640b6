----------------------------- MODULE MCEvents -------------------------------
(* A small instance of ContractEvents for TLC: every event of the bindings. *)
EXTENDS ContractEvents

MCBindings == AllBindings
=============================================================================
