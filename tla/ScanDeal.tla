------------------------------ MODULE ScanDeal ------------------------------
(***************************************************************************)
(* service/scheduler/scan_deal.go: the job that follows the deals on the   *)
(* Filecoin network.  Each pass first reads the rows, then asks the Lotus  *)
(* node about one deal after the other and writes back the whole row it    *)
(* had read (before the deal is active) or one column (after).             *)
(***************************************************************************)
EXTENDS DealTables

VARIABLE scanJob

ScanIdle == [pc |-> "idle", todo |-> {}, rows |-> [d \in Deals |-> NoDeal]]

ScanJobTypeOK ==
  scanJob \in [pc : {"idle", "before", "after"}, todo : SUBSET Deals,
               rows : [Deals -> DealRow]]

-----------------------------------------------------------------------------
\* What LotusClientGetDealInfo can answer about a deal, whatever the chain knows: the
\* node may be behind, confused or wrong.  Only an id, if it gives one, is the deal's own.
DealInfos == [status : OnChainStatus, dealId : BOOLEAN]

\* What utils.IsDealActive answers for a deal id: an error reply of the node is "not
\* active", too.  Without a reply the deal is skipped.
IsDealActive(d) == {FALSE, chain[d] = "active"}

\* The switch on the answer's status.
StatusAfter(status, answer) ==
  CASE answer = "Error" -> "Failed" [] answer = "Active" -> "Active" [] OTHER -> status

\* The row that was read, with the answer.  Where the code finds nothing changed,
\* this is the row it already has.
WithInfo(row, info) ==
  [row EXCEPT !.onChain = info.status,
              !.dealId = @ \/ info.dealId,
              !.status = StatusAfter(@, info.status)]

\* "datastore: key not found": the node has forgotten the proposal.
Forgotten(row) == [row EXCEPT !.status = "Failed"]

\* Mutant: a deal with an id counts as active.
IsActive_HasId(isDealActive, row) == row.status = "Active" \/ row.dealId

\* Mutant: the chain is not asked.
IsActive_NodeOnly(isDealActive, row) == row.status = "Active"

\* The node's "Active" is taken as it is; otherwise the chain is asked.
IsActive(isDealActive, row) == row.status = "Active" \/ (row.dealId /\ isDealActive)

\* Mutant: free cars' deals wait for an unlock, too.
Settled_AllCharged(isDealActive, row) ==
  IF IsActive(isDealActive, row) THEN [row EXCEPT !.status = "Active"] ELSE row

\* A free car's deal needs no unlock.
Settled(isDealActive, row) ==
  IF IsActive(isDealActive, row)
  THEN [row EXCEPT !.status = IF car[row.carFile].isFree THEN "Success" ELSE "Active"]
  ELSE row

\* The rows that one look at deal d can lead to.
ScannedRows(d, isDealActive) ==
  {Settled(isDealActive, WithInfo(scanJob.rows[d], info)) : info \in DealInfos}
    \cup {Settled(isDealActive, Forgotten(scanJob.rows[d]))}

-----------------------------------------------------------------------------
\* The rows a query returned are the job's own copies until it is done with them.
Query(pc, found) ==
  scanJob' = [pc |-> pc, todo |-> found,
              rows |-> [d \in Deals |-> IF d \in found THEN deal[d] ELSE NoDeal]]

Done(d) == scanJob' = [scanJob EXCEPT !.todo = @ \ {d}, !.rows[d] = NoDeal]

\* The query may fail; the pass is then over before it began.
StartScanDealBeforeActive ==
  /\ scanJob.pc = "idle"
  /\ \E found \in {GetOfflineDeals2BeScanned, {}} : Query("before", found)
  /\ UNCHANGED <<car, dealTables>>

ScanDealBeforeActive(d, isDealActive) ==
  /\ scanJob.pc = "before" /\ d \in scanJob.todo
  /\ \E row \in ScannedRows(d, isDealActive) :
       /\ dealLog' = dealLog \cup {<<d, row.onChain>>}
       /\ deal' = [deal EXCEPT ![d] = row]
  /\ Done(d)
  /\ UNCHANGED <<car, chain>>

\* The log line is written, the row is not.
SaveDealFails(d, isDealActive) ==
  /\ scanJob.pc = "before" /\ d \in scanJob.todo
  /\ \E row \in ScannedRows(d, isDealActive) : dealLog' = dealLog \cup {<<d, row.onChain>>}
  /\ Done(d)
  /\ UNCHANGED <<car, deal, chain>>

\* The node, the chain or the database did not answer.
SkipDeal(d) ==
  /\ scanJob.pc \in {"before", "after"} /\ d \in scanJob.todo
  /\ Done(d)
  /\ UNCHANGED <<car, dealTables>>

StartScanDealAfterActive ==
  /\ scanJob.pc = "before" /\ scanJob.todo = {}
  /\ Query("after", GetOfflineDeals2BeScannedAfterActive)
  /\ UNCHANGED <<car, dealTables>>

ScanDealAfterActive(d) ==
  /\ scanJob.pc = "after" /\ d \in scanJob.todo
  /\ \E info \in DealInfos :
       IF scanJob.rows[d].onChain = info.status
       THEN UNCHANGED <<deal, dealLog>>
       ELSE /\ dealLog' = dealLog \cup {<<d, info.status>>}
            /\ deal' \in {deal, [deal EXCEPT ![d].onChain = info.status]}
  /\ Done(d)
  /\ UNCHANGED <<car, chain>>

EndScanDeal ==
  /\ scanJob.pc = "after" /\ scanJob.todo = {}
  /\ scanJob' = ScanIdle
  /\ UNCHANGED <<car, dealTables>>

ScanDealStep ==
  \/ StartScanDealBeforeActive
  \/ \E d \in Deals : \/ \E isDealActive \in IsDealActive(d) :
                           \/ ScanDealBeforeActive(d, isDealActive)
                           \/ SaveDealFails(d, isDealActive)
                      \/ SkipDeal(d)
                      \/ ScanDealAfterActive(d)
  \/ StartScanDealAfterActive
  \/ EndScanDeal
=============================================================================
