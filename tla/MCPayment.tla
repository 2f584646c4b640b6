------------------------------ MODULE MCPayment -----------------------------
(* A small instance of SwanPayment for TLC. *)
EXTENDS SwanPayment, TLC

CONSTANTS a, b

MCLockParams ==
  { [id |-> a, amount |-> 3, lockTime |-> 0, size |-> 2, copyLimit |-> 2],
    [id |-> b, amount |-> 2, lockTime |-> 1, size |-> 1, copyLimit |-> 1],
    [id |-> b, amount |-> 2, lockTime |-> 0, size |-> 0, copyLimit |-> 1] }
MCLists == {{}, {a}, {a, b}}
MCWorth == [price \in Prices |-> {price}]
=============================================================================
