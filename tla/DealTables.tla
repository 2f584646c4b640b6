----------------------------- MODULE DealTables -----------------------------
(***************************************************************************)
(* What the sending and the scanning job share besides the cars: the rows  *)
(* of offline_deal and offline_deal_log, and the Filecoin network, where   *)
(* the proposals live whether or not a row knows them.                     *)
(***************************************************************************)
EXTENDS McsTables

CONSTANT Deals      \* deal proposals (deal_cid), at most one row each

VARIABLES
  deal,             \* deal[d]: an offline_deal row
  dealLog,          \* offline_deal_log: <<deal, on-chain status>>
  chain             \* what became of each proposal on the Filecoin network

dealTables == <<deal, dealLog, chain>>

DealStatus == {"None", "Created", "Active", "Failed", "Success"}

\* The statuses LotusClientGetDealInfo reports.  "Error" and "Active" are the two
\* the code acts on; "Other" is every other one, and StorageDealError when its
\* message is ON_CHAIN_MESSAGE_NOT_COMPLETED.
OnChainStatus == {"Other", "Error", "Active"}
ChainStatus == {"unsent", "proposed", "published", "active"}

ASSUME StatusIsSetAssumption == Null \notin OnChainStatus

DealRow == [status : DealStatus, carFile : Cars \cup {Null}, dealId : BOOLEAN,
            onChain : OnChainStatus \cup {Null}, unlocked : BOOLEAN]
NoDeal == [status |-> "None", carFile |-> Null, dealId |-> FALSE,
           onChain |-> Null, unlocked |-> FALSE]

DealTablesTypeOK ==
  /\ deal \in [Deals -> DealRow]
  /\ dealLog \subseteq Deals \X (OnChainStatus \cup {Null})
  /\ chain \in [Deals -> ChainStatus]

DealTablesInit ==
  /\ deal = [d \in Deals |-> NoDeal]
  /\ dealLog = {}
  /\ chain = [d \in Deals |-> "unsent"]

\* Mutant: active deals are scanned again.
GetOfflineDeals2BeScanned_Active ==
  {d \in Deals : deal[d].status \notin {"None", "Success", "Failed"}}

\* SQL's != is not true of a NULL on_chain_status.
GetOfflineDeals2BeScanned ==
  {d \in Deals : deal[d].status \notin {"None", "Active", "Success", "Failed"}}
GetOfflineDeals2BeScannedAfterActive ==
  {d \in Deals : deal[d].status \in {"Active", "Success"}
                 /\ deal[d].onChain \notin {Null, "Active"}}
=============================================================================
