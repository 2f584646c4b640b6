----------------------------- MODULE Scheduler ------------------------------
(***************************************************************************)
(* service/scheduler as a whole: the three jobs InitScheduler starts run   *)
(* concurrently over one database.  Packing and DealTracking each describe *)
(* one side with the other as an environment (CarTakenOn, CarPacked); here *)
(* the two sides are put together, and each side's specification is a      *)
(* property of the whole.                                                  *)
(***************************************************************************)
EXTENDS Packing, DealTracking

vars == <<now, car, packTables, createJob, dealTables, sendJob, scanJob>>

Init == TablesInit /\ CreateTaskInit /\ DealTablesInit
        /\ sendJob = SendIdle /\ scanJob = ScanIdle

packSide == <<packTables, createJob>>
dealSide == <<dealTables, sendJob, scanJob>>

\* runJob: each job in its own goroutine.
Jobs ==
  \/ CreateTaskStep /\ UNCHANGED <<now, dealSide>>
  \/ SendDealStep /\ UNCHANGED <<now, packSide, scanJob>>
  \/ ScanDealStep /\ UNCHANGED <<now, packSide, sendJob>>

World ==
  \/ Arrivals /\ UNCHANGED <<now, dealSide>>
  \/ DealWorld /\ UNCHANGED <<now, packSide>>
  \/ Tick /\ UNCHANGED <<car, packSide, dealSide>>

\* The process dies and main calls InitScheduler again.
Restart == RestartCreateTask /\ RestartDealJobs /\ UNCHANGED now

Next == Jobs \/ World \/ Restart

Spec == Init /\ [][Next]_vars

-----------------------------------------------------------------------------
\* Whatever a deal stores has been packed by a committed transaction, for a price
\* every charged file in it has paid: no deal is ever sent for a car that was rolled
\* back, or for files that could be packed again.
DealsStorePackedFiles ==
  \A d \in Deals : deal[d].status # "None" =>
    LET c == deal[d].carFile
    IN  /\ c \in Cars /\ source[c].files # {}
        /\ \A u \in source[c].files :
             /\ upload[u].status = "TaskCreated"
             /\ u \notin FreeUploads => source[c].maxPrice <= OfferedPrice[u]
=============================================================================
