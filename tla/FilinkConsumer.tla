--------------------------- MODULE FilinkConsumer ---------------------------
(***************************************************************************)
(* on-chain/contracts/FilinkConsumer.sol: asks a Chainlink oracle for the  *)
(* storage price of a deal, for a fee in LINK, and keeps the answer.       *)
(* Requests of one deal differ by an id that the answer only uses to find  *)
(* the deal again, so they are counted.                                    *)
(***************************************************************************)
EXTENDS Integers

CONSTANTS
  Deals, Networks,
  Prices,       \* what the adapter answers, 0 for a deal it does not know
  MaxLink       \* bound: the requests the contract has LINK for

\* concatenate(deal, network)
Keys == Deals \X Networks

ASSUME FilinkAssumption ==
  /\ Prices \subseteq Nat /\ MaxLink \in Nat
  /\ Deals \cap Keys = {}

VARIABLES
  link,         \* how many more requests the LINK it holds pays for
  pending,      \* pending[k]: requests about k without an answer
  mapDealPrice  \* by the strings it is read and written with

filinkVars == <<link, pending, mapDealPrice>>

FilinkTypeOK ==
  /\ link \in Nat
  /\ pending \in [Keys -> Nat]
  /\ mapDealPrice \in [Deals \cup Keys -> Nat]

FilinkInit ==
  /\ link = MaxLink
  /\ pending = [k \in Keys |-> 0]
  /\ mapDealPrice = [s \in Deals \cup Keys |-> 0]

GetPrice(k) == mapDealPrice[k]

\* Public, and called by the DAO oracle for every vote of a quorum.  The guard
\* reads the price under the deal id alone.
RequestDealInfo(deal, network) ==
  /\ mapDealPrice[deal] = 0
  /\ link > 0
  /\ link' = link - 1
  /\ pending' = [pending EXCEPT ![<<deal, network>>] = @ + 1]
  /\ UNCHANGED mapDealPrice

\* The answers come in any order, each once (recordChainlinkFulfillment).
Fulfill(k, price) ==
  /\ pending[k] > 0
  /\ pending' = [pending EXCEPT ![k] = @ - 1]
  /\ mapDealPrice' = [mapDealPrice EXCEPT ![k] = price]
  /\ UNCHANGED link

\* The owner takes the LINK back.
WithdrawTokens ==
  /\ link' = 0
  /\ UNCHANGED <<pending, mapDealPrice>>

FilinkNext ==
  \/ \E deal \in Deals, network \in Networks : RequestDealInfo(deal, network)
  \/ \E k \in Keys, price \in Prices : Fulfill(k, price)
  \/ WithdrawTokens
=============================================================================
