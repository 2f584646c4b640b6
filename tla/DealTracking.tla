---------------------------- MODULE DealTracking ----------------------------
(***************************************************************************)
(* The deal side of the scheduler: SendDeal and ScanDeal running           *)
(* concurrently, with cars arriving from the packing job, deals making     *)
(* progress on the chain, the unlock service settling them, crashes and    *)
(* time.                                                                   *)
(***************************************************************************)
EXTENDS SendDeal, ScanDeal

dealVars == <<now, car, dealTables, sendJob, scanJob>>

DealTypeOK == TablesTypeOK /\ DealTablesTypeOK /\ SendJobTypeOK /\ ScanJobTypeOK

DealInit == TablesInit /\ DealTablesInit /\ sendJob = SendIdle /\ scanJob = ScanIdle

\* A miner publishes a deal and later seals it.
DealProgress(d) ==
  /\ chain[d] \in {"proposed", "published"}
  /\ chain' = [chain EXCEPT ![d] = IF @ = "proposed" THEN "published" ELSE "active"]
  /\ UNCHANGED <<car, deal, dealLog, sendJob, scanJob>>

\* The unlock service, outside this repository, settles an active deal the way
\* models.UpdateOfflineDealUnlockInfo does.
UpdateOfflineDealUnlockInfo(d) ==
  /\ deal[d].status = "Active"
  /\ deal' = [deal EXCEPT ![d].status = "Success", ![d].unlocked = TRUE]
  /\ UNCHANGED <<car, dealLog, chain, sendJob, scanJob>>

\* The packing job commits a car.
CarPacked ==
  /\ \E c \in Cars, free \in BOOLEAN : InsertCar(c, free)
  /\ UNCHANGED <<dealTables, sendJob, scanJob>>

RestartDealJobs ==
  /\ sendJob' = SendIdle /\ scanJob' = ScanIdle
  /\ UNCHANGED <<car, dealTables>>

DealWorld == \E d \in Deals : DealProgress(d) \/ UpdateOfflineDealUnlockInfo(d)

\* The steps of a process that stays up.
DealRun ==
  \/ /\ \/ SendDealStep /\ UNCHANGED scanJob
        \/ ScanDealStep /\ UNCHANGED sendJob
        \/ DealWorld
        \/ CarPacked
     /\ UNCHANGED now
  \/ Tick /\ UNCHANGED <<car, dealTables, sendJob, scanJob>>

DealNext == DealRun \/ (RestartDealJobs /\ UNCHANGED now)

DealSpec == DealInit /\ [][DealNext]_dealVars

-----------------------------------------------------------------------------
\* What a deal is called active on: that it is on the chain, or the node's own word,
\* of which the log keeps a line.  Failed saves, stale rows, ids without an activation
\* and the other status reports never make it so.
ActiveIsAttested ==
  \A d \in Deals : deal[d].status \in {"Active", "Success"} =>
    chain[d] = "active" \/ <<d, "Active">> \in dealLog

\* Deals of free cars succeed without an unlock, deals of charged cars only
\* through one.
UnlockedIffCharged ==
  \A d \in Deals :
    /\ deal[d].status = "Active" => ~car[deal[d].carFile].isFree
    /\ deal[d].status = "Success" => (deal[d].unlocked <=> ~car[deal[d].carFile].isFree)

\* The log is written before the row, so it has every on-chain status a row shows.
StatusIsLogged ==
  \A d \in Deals : deal[d].onChain # Null => <<d, deal[d].onChain>> \in dealLog

\* A deal id is stored only with the status it was reported with, so the pass over
\* the active deals, which skips a NULL status, misses none that has an id.
DealIdHasStatus ==
  \A d \in Deals : deal[d].dealId => deal[d].onChain # Null

\* A whole row written back by the scan takes back nothing that the unlock service
\* or an earlier pass has settled, nor a deal id, nor the car of the deal.
SettledDealsStay ==
  [][\A d \in Deals :
       /\ deal[d].status \in {"Failed", "Success"} =>
            deal'[d].status = deal[d].status /\ deal'[d].unlocked = deal[d].unlocked
       /\ deal[d].status # "None" =>
            deal'[d].carFile = deal[d].carFile /\ (deal[d].dealId => deal'[d].dealId)]_dealVars

\* The send job works from a list and a clock it read once, however long the sending
\* takes: still it never takes a car back, changes nothing but its status, and
\* declares none expired before its time.
CarsMoveForward ==
  [][\A c \in Cars : car[c].status # "None" =>
       /\ [car'[c] EXCEPT !.status = car[c].status] = car[c]
       /\ car'[c].status # car[c].status =>
            /\ car[c].status = "TaskCreated"
            /\ car'[c].status = "DealSentExpired" => now - car[c].createAt > DealSendWindow]_dealVars

\* constants.go:18-19: a car whose send failed or expired has no offline deals.
UnsentCarHasNoDeals ==
  \A c \in Cars : car[c].status \in {"DealSentFailed", "DealSentExpired"} =>
    \A d \in Deals : deal[d].carFile # c

-----------------------------------------------------------------------------
(***************************************************************************)
(* From some time on the process stays up; then both goroutines keep       *)
(* taking steps and time passes.  What a job tries again in every run      *)
(* (reading the rows, learning a deal id from the node, asking the chain,  *)
(* saving a row) does not fail every time.                                 *)
(***************************************************************************)
SendStep(A) == A /\ UNCHANGED <<now, scanJob>>
ScanStep(A) == A /\ UNCHANGED <<now, sendJob>>

DealFairness ==
  /\ <>[][DealRun]_dealVars
  /\ WF_dealVars(SendStep(SendDealStep))
  /\ WF_dealVars(ScanStep(ScanDealStep))
  /\ WF_dealVars(Tick /\ UNCHANGED <<car, dealTables, sendJob, scanJob>>)
  /\ \A c \in Cars : SF_dealVars(SendStep(ExpireCar(c)) /\ car' # car)
  /\ SF_dealVars(ScanStep(StartScanDealBeforeActive) /\ scanJob'.todo = GetOfflineDeals2BeScanned)
  /\ \A d \in Deals :
       /\ SF_dealVars(ScanStep(\E isDealActive \in IsDealActive(d) :
                                ScanDealBeforeActive(d, isDealActive)) /\ deal'[d].dealId)
       /\ SF_dealVars(ScanStep(ScanDealBeforeActive(d, chain[d] = "active")))

FairDealSpec == DealSpec /\ DealFairness

\* Every recorded deal that is active on the chain is settled in its row, even when
\* the node never reports it active and now and then answers about the chain with an
\* error.  A deal the node has forgotten may be settled as failed.
ActiveDealsAreSettled ==
  \A d \in Deals :
    (deal[d].status = "Created" /\ chain[d] = "active") ~> (deal[d].status # "Created")

\* No car is offered for ever: its deals are sent, the send fails, or it expires.
CarsAreDecided ==
  \A c \in Cars : (car[c].status = "TaskCreated" /\ car[c].createAt + DealSendWindow < MaxNow)
                    ~> (car[c].status # "TaskCreated")
=============================================================================
