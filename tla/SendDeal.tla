------------------------------ MODULE SendDeal ------------------------------
(***************************************************************************)
(* service/scheduler/send_deal.go: the job that sends deal proposals for   *)
(* the cars whose Swan task has been matched with miners, and records the  *)
(* deals it sent.                                                          *)
(***************************************************************************)
EXTENDS DealTables

CONSTANT DealSendWindow   \* three days, in ticks
ASSUME DealSendWindowAssumption == DealSendWindow \in Nat

VARIABLE sendJob

SendIdle == [pc |-> "idle", todo |-> {}, cur |-> Null, sent |-> {}, at |-> 0]

SendJobTypeOK ==
  sendJob \in [pc : {"idle", "loop", "record"}, todo : SUBSET Cars,
               cur : Cars \cup {Null}, sent : SUBSET Deals, at : Nat]

-----------------------------------------------------------------------------
\* Mutant: the clock is read once for all runs.
StartSendDeal_OldClock ==
  /\ sendJob.pc = "idle"
  /\ sendJob' = [sendJob EXCEPT !.pc = "loop", !.todo = GetCarFilesByStatus("TaskCreated")]
  /\ UNCHANGED <<car, dealTables>>

StartSendDeal ==
  /\ sendJob.pc = "idle"
  /\ sendJob' = [SendIdle EXCEPT !.pc = "loop", !.at = now,
                                 !.todo = GetCarFilesByStatus("TaskCreated")]
  /\ UNCHANGED <<car, dealTables>>

\* The row is saved with its new status, or the save fails and the row stays.
SaveStatus(c, status) == car' \in {car, [car EXCEPT ![c].status = status]}

\* Mutant: no continue, the loop goes on with the same car.
NextCar_Same(c) == sendJob' = [sendJob EXCEPT !.pc = "loop", !.cur = Null, !.sent = {}]

NextCar(c) == sendJob' = [sendJob EXCEPT !.pc = "loop", !.todo = @ \ {c},
                                         !.cur = Null, !.sent = {}]

\* Mutant: off by one tick.
Expired_Early(c) == sendJob.at - car[c].createAt >= DealSendWindow

Expired(c) == sendJob.at - car[c].createAt > DealSendWindow

ExpireCar(c) ==
  /\ sendJob.pc = "loop" /\ c \in sendJob.todo
  /\ Expired(c)
  /\ SaveStatus(c, "DealSentExpired")
  /\ NextCar(c)
  /\ UNCHANGED dealTables

\* SendAutoBidDealsByTaskUuid returns an error.
SendFails(c) ==
  /\ sendJob.pc = "loop" /\ c \in sendJob.todo
  /\ ~Expired(c)
  /\ SaveStatus(c, "DealSentFailed")
  /\ NextCar(c)
  /\ UNCHANGED dealTables

\* No bid has been assigned yet.
NoDealsSent(c) ==
  /\ sendJob.pc = "loop" /\ c \in sendJob.todo
  /\ ~Expired(c)
  /\ NextCar(c)
  /\ UNCHANGED <<car, dealTables>>

\* The proposals are on their way to the miners before any row says so.
SendAutoBidDeals(c, proposals) ==
  /\ sendJob.pc = "loop" /\ c \in sendJob.todo
  /\ ~Expired(c)
  /\ proposals # {} /\ \A d \in proposals : chain[d] = "unsent"
  /\ chain' = [d \in Deals |-> IF d \in proposals THEN "proposed" ELSE chain[d]]
  /\ sendJob' = [sendJob EXCEPT !.pc = "record", !.cur = c, !.sent = proposals]
  /\ UNCHANGED <<car, deal, dealLog>>

\* One deal of the answer becomes a row ...
RecordDeal(d) ==
  /\ sendJob.pc = "record" /\ d \in sendJob.sent
  /\ deal' = [deal EXCEPT ![d] = [NoDeal EXCEPT !.status = "Created",
                                                !.carFile = sendJob.cur]]
  /\ sendJob' = [sendJob EXCEPT !.sent = @ \ {d}]
  /\ UNCHANGED <<car, dealLog, chain>>

\* ... or its miner cannot be looked up, or the insert fails.
LoseDeal(d) ==
  /\ sendJob.pc = "record" /\ d \in sendJob.sent
  /\ sendJob' = [sendJob EXCEPT !.sent = @ \ {d}]
  /\ UNCHANGED <<car, dealTables>>

SaveCarSent(c) ==
  /\ sendJob.pc = "record" /\ sendJob.sent = {} /\ c = sendJob.cur
  /\ SaveStatus(c, "DealSent")
  /\ NextCar(c)
  /\ UNCHANGED dealTables

EndSendDeal ==
  /\ sendJob.pc = "loop" /\ sendJob.todo = {}
  /\ sendJob' = SendIdle
  /\ UNCHANGED <<car, dealTables>>

SendDealStep ==
  \/ StartSendDeal
  \/ \E c \in Cars : \/ ExpireCar(c)
                     \/ SendFails(c)
                     \/ NoDealsSent(c)
                     \/ \E proposals \in SUBSET Deals : SendAutoBidDeals(c, proposals)
                     \/ SaveCarSent(c)
  \/ \E d \in Deals : RecordDeal(d) \/ LoseDeal(d)
  \/ EndSendDeal
=============================================================================
