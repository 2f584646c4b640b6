--------------------------- MODULE FilswanOracleV2 --------------------------
(***************************************************************************)
(* on-chain/contracts/FilswanOracleV2.sol: DAO members sign, batch by      *)
(* batch, the list of files a deal stores; a member who trusts the list    *)
(* signs its hash instead.  With enough votes the list of the deal is      *)
(* published and FilinkConsumer is asked for the deal's price.             *)
(*                                                                         *)
(* A call is one step, and a call that reverts is none: among them the     *)
(* last vote of a quorum when FilinkConsumer cannot pay for its request.   *)
(***************************************************************************)
EXTENDS Integers, FiniteSets, SequencesExt

CONSTANTS
  Members,     \* addresses that may hold DAO_ROLE
  Keys,        \* concatenate(dealId, network): an id of digits, a name of letters
  Recipients,
  BatchLists,  \* the cid lists a member passes to sign
  Lists,       \* the cid lists those add up to
  MaxBatch,    \* bound: the most batches a member announces
  Thresholds   \* the thresholds an administrator sets

VARIABLES
  threshold,
  filink,      \* _filinkAddress # address(0)
  dao,         \* who holds DAO_ROLE
  txInfo,      \* txInfoMap[key][member]
  userVoted,   \* userVotedMap: <<voteKey, member>>
  txVoteMap,   \* number of votes of a voteKey
  voteKeyCidList,
  cidListMap,
  requested    \* the deals whose price FilinkConsumer was asked for

admin == <<threshold, filink, dao>>
ballotBox == <<userVoted, txVoteMap, voteKeyCidList, cidListMap, requested>>
oracleVars == <<admin, txInfo, ballotBox>>

\* getHashKey: keccak256 over the arguments, so equal only for equal arguments.
VoteKeys == [key : Keys, recipient : Recipients, list : Lists]

Batches == 0..(MaxBatch - 1)
NoInfo == [flag |-> FALSE, recipient |-> CHOOSE r \in Recipients : TRUE, batch |-> 0,
           signStatus |-> {}, batchCidList |-> [n \in Batches |-> <<>>]]
TxOracleInfo ==
  [flag : BOOLEAN, recipient : Recipients, batch : 0..MaxBatch,
   signStatus : SUBSET Batches, batchCidList : [Batches -> BatchLists \cup {<<>>}]]

\* Mutant: the commented-out line of the loop, every cid as often as it is signed.
CidList_Repeats(batchCidList) == FlattenSeq([i \in 1..MaxBatch |-> batchCidList[i - 1]])

\* The double loop of sign: batch after batch, each cid where it first occurs.
CidLists ==
  [batchCidList \in [Batches -> BatchLists \cup {<<>>}] |->
     FoldLeft(LAMBDA list, cid : IF Contains(list, cid) THEN list ELSE Append(list, cid),
              <<>>,
              FlattenSeq([i \in 1..MaxBatch |-> batchCidList[i - 1]]))]
CidList(batchCidList) == CidLists[batchCidList]

ASSUME OracleAssumption ==
  /\ IsFiniteSet(Members)
  /\ Recipients # {}
  /\ MaxBatch \in Nat \ {0}
  /\ Thresholds \subseteq Nat /\ Thresholds # {}
ASSUME ListsAssumption ==
  /\ \A list \in BatchLists : list \in Seq(Range(list))
  /\ <<>> \in Lists
  /\ \A b \in [Batches -> BatchLists \cup {<<>>}] : CidList(b) \in Lists

OracleTypeOK ==
  /\ threshold \in Thresholds /\ filink \in BOOLEAN /\ dao \subseteq Members
  /\ txInfo \in [Keys -> [Members -> TxOracleInfo]]
  /\ userVoted \subseteq VoteKeys \X Members
  /\ txVoteMap \in [VoteKeys -> Nat]
  /\ voteKeyCidList \in [VoteKeys -> Lists]
  /\ cidListMap \in [Keys -> Lists]
  /\ requested \subseteq Keys

OracleInit ==
  /\ threshold \in Thresholds /\ filink = FALSE /\ dao = {}
  /\ txInfo = [k \in Keys |-> [m \in Members |-> NoInfo]]
  /\ userVoted = {}
  /\ txVoteMap = [vk \in VoteKeys |-> 0]
  /\ voteKeyCidList = [vk \in VoteKeys |-> <<>>]
  /\ cidListMap = [k \in Keys |-> <<>>]
  /\ requested = {}

-----------------------------------------------------------------------------
UpdateThreshold(n) ==
  /\ threshold' = n
  /\ UNCHANGED <<filink, dao, txInfo, ballotBox>>

SetFilinkOracle(set) ==
  /\ filink' = set
  /\ UNCHANGED <<threshold, dao, txInfo, ballotBox>>

\* The old list loses DAO_ROLE, the new one gets it.  Votes already cast stay.
SetDAOUsers(daoUsers) ==
  /\ dao' = daoUsers
  /\ UNCHANGED <<threshold, filink, txInfo, ballotBox>>

PreSign(m, k, recipient, batchCount) ==
  /\ m \in dao
  /\ ~txInfo[k][m].flag
  /\ txInfo' = [txInfo EXCEPT ![k][m] =
       [@ EXCEPT !.flag = TRUE, !.recipient = recipient, !.batch = batchCount,
                 !.signStatus = 0..(batchCount - 1)]]
  /\ UNCHANGED <<admin, ballotBox>>

\* Mutant: signHash of the first FilswanOracle, which forgets who has voted.
CastVote_Again(m, vk, known, mayPublish) ==
  /\ userVoted' = userVoted \cup {<<vk, m>>}
  /\ txVoteMap' = [txVoteMap EXCEPT ![vk] = @ + 1]
  /\ IF mayPublish /\ txVoteMap'[vk] >= threshold /\ filink /\ known # <<>>
     THEN /\ cidListMap' = [cidListMap EXCEPT ![vk.key] = known]
          /\ requested' = requested \cup {vk.key}
     ELSE UNCHANGED <<cidListMap, requested>>

\* Mutant: one vote short of the threshold is enough.
CastVote_OneShort(m, vk, known, mayPublish) ==
  /\ <<vk, m>> \notin userVoted
  /\ userVoted' = userVoted \cup {<<vk, m>>}
  /\ txVoteMap' = [txVoteMap EXCEPT ![vk] = @ + 1]
  /\ IF mayPublish /\ txVoteMap'[vk] + 1 >= threshold /\ filink /\ known # <<>>
     THEN /\ cidListMap' = [cidListMap EXCEPT ![vk.key] = known]
          /\ requested' = requested \cup {vk.key}
     ELSE UNCHANGED <<cidListMap, requested>>

\* The vote that sign and signHash both end in: not twice, counted, and with a
\* quorum for a list that is known, the list is published and the price asked for.
CastVote(m, vk, known, mayPublish) ==
  /\ <<vk, m>> \notin userVoted
  /\ userVoted' = userVoted \cup {<<vk, m>>}
  /\ txVoteMap' = [txVoteMap EXCEPT ![vk] = @ + 1]
  /\ IF mayPublish /\ txVoteMap'[vk] >= threshold /\ filink /\ known # <<>>
     THEN /\ cidListMap' = [cidListMap EXCEPT ![vk.key] = known]
          /\ requested' = requested \cup {vk.key}
     ELSE UNCHANGED <<cidListMap, requested>>

\* Mutant: the list is put together before the last batch is stored.
Sign_WithoutLast(m, k, cidList, batchNo) ==
  LET info == [txInfo[k][m] EXCEPT !.signStatus = @ \ {batchNo},
                                   !.batchCidList[batchNo] = cidList]
      list == CidList(txInfo[k][m].batchCidList)
      vk == [key |-> k, recipient |-> info.recipient, list |-> list]
  IN  /\ m \in dao
      /\ txInfo[k][m].flag /\ batchNo < txInfo[k][m].batch
      /\ batchNo \in txInfo[k][m].signStatus
      /\ txInfo' = [txInfo EXCEPT ![k][m] = info]
      /\ IF info.signStatus = {}
         THEN /\ voteKeyCidList' = [voteKeyCidList EXCEPT ![vk] = list]
              /\ CastVote(m, vk, list, TRUE)
         ELSE UNCHANGED ballotBox
      /\ UNCHANGED admin

Sign(m, k, cidList, batchNo) ==
  LET info == [txInfo[k][m] EXCEPT !.signStatus = @ \ {batchNo},
                                   !.batchCidList[batchNo] = cidList]
      list == CidList(info.batchCidList)
      vk == [key |-> k, recipient |-> info.recipient, list |-> list]
  IN  /\ m \in dao
      /\ txInfo[k][m].flag /\ batchNo < txInfo[k][m].batch
      /\ batchNo \in txInfo[k][m].signStatus
      /\ txInfo' = [txInfo EXCEPT ![k][m] = info]
      /\ IF info.signStatus = {}
         THEN /\ voteKeyCidList' = [voteKeyCidList EXCEPT ![vk] = list]
              /\ CastVote(m, vk, list, TRUE)
         ELSE UNCHANGED ballotBox
      /\ UNCHANGED admin

\* signStatus is empty as well for a member that never called preSign.
SignHash(m, vk) ==
  /\ m \in dao
  /\ CastVote(m, vk, voteKeyCidList[vk], txInfo[vk.key][m].signStatus = {})
  /\ UNCHANGED <<admin, txInfo, voteKeyCidList>>

IsCarPaymentAvailable(k, recipient) ==
  txVoteMap[[key |-> k, recipient |-> recipient, list |-> cidListMap[k]]] >= threshold

\* Callers compute the voteKey with getHashKey, from the deal they sign for.
OracleNext ==
  \/ \E n \in Thresholds : UpdateThreshold(n)
  \/ \E set \in BOOLEAN : SetFilinkOracle(set)
  \/ \E daoUsers \in SUBSET Members : SetDAOUsers(daoUsers)
  \/ \E m \in Members, k \in Keys :
       \/ \E r \in Recipients, n \in 1..MaxBatch : PreSign(m, k, r, n)
       \/ \E list \in BatchLists, n \in Batches : Sign(m, k, list, n)
  \/ \E m \in Members, vk \in VoteKeys : SignHash(m, vk)

OracleSpec == OracleInit /\ [][OracleNext]_oracleVars

-----------------------------------------------------------------------------
\* No cid twice: SwanPayment charges a file for every time it is in the list.
ListedOnce ==
  \A k \in Keys : \A i, j \in DOMAIN cidListMap[k] :
    cidListMap[k][i] = cidListMap[k][j] => i = j

\* However a member splits its vote into batches, repeats cids, mixes sign and
\* signHash, leaves the DAO and comes back: a ballot's count is the number of
\* members who voted for it.
VotesAreVoters ==
  \A vk \in VoteKeys : txVoteMap[vk] = Cardinality({m \in Members : <<vk, m>> \in userVoted})

\* A member whose last batch is signed has voted for exactly the list its batches
\* add up to, and the contract knows that list by its hash.
SignedIsVoted ==
  \A k \in Keys, m \in Members :
    txInfo[k][m].flag /\ txInfo[k][m].signStatus = {} =>
      LET vk == [key |-> k, recipient |-> txInfo[k][m].recipient,
                 list |-> CidList(txInfo[k][m].batchCidList)]
      IN  <<vk, m>> \in userVoted /\ voteKeyCidList[vk] = vk.list

\* A price is asked for exactly when a deal has a list of files to spread it over.
RequestedIsPublished ==
  \A k \in Keys : k \in requested <=> cidListMap[k] # <<>>

\* What the DAO promises: DaoVote with the members, the votes and the lists.
Dao == INSTANCE DaoVote WITH
  Ballots <- VoteKeys, NoList <- <<>>, members <- dao, votes <- userVoted,
  published <- cidListMap
DaoVoteSpec == Dao!VoteSpec

=============================================================================
