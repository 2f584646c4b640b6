----------------------------- MODULE McsTables -----------------------------
(***************************************************************************)
(* What every job of service/scheduler reads and writes: the car_file rows *)
(* and the clock.  A car is created by the packing job and taken on by the *)
(* job that sends its deals; its life is status.                           *)
(***************************************************************************)
EXTENDS Integers, FiniteSets

CONSTANTS
  Cars,       \* ids of car_file rows
  Null,       \* SQL NULL, and a reference of a job that is not set
  MaxNow      \* bound: the clock stops here

ASSUME NullAssumption == Null \notin Cars
ASSUME MaxNowAssumption == MaxNow \in Nat

VARIABLES
  now,        \* libutils.GetCurrentUtcSecond(), in ticks
  car         \* car[c]: status, is_free and create_at of a car_file row

CarStatus == {"None", "TaskCreated", "DealSent", "DealSentFailed", "DealSentExpired"}
CarRow == [status : CarStatus, isFree : BOOLEAN, createAt : Nat]
NoCar == [status |-> "None", isFree |-> FALSE, createAt |-> 0]

TablesTypeOK == now \in Nat /\ car \in [Cars -> CarRow]

TablesInit == now = 0 /\ car = [c \in Cars |-> NoCar]

GetCarFilesByStatus(status) == {c \in Cars : car[c].status = status}

\* Mutant: the row gets the status of a new deal.
InsertCar_DealStatus(c, free) ==
  /\ car[c].status = "None"
  /\ car' = [car EXCEPT ![c] = [status |-> "Created", isFree |-> free, createAt |-> now]]

\* A new car_file row, as saveCarInfo2DB inserts it.
InsertCar(c, free) ==
  /\ car[c].status = "None"
  /\ car' = [car EXCEPT ![c] = [status |-> "TaskCreated", isFree |-> free, createAt |-> now]]

Tick == now < MaxNow /\ now' = now + 1
=============================================================================
