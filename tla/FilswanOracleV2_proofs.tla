----------------------- MODULE FilswanOracleV2_proofs -----------------------
(***************************************************************************)
(* FilswanOracleV2 counts votes right and implements DaoVote, for any      *)
(* number of members, deals, lists and batches.                            *)
(***************************************************************************)
EXTENDS FilswanOracleV2, FoldTheorems

\* What the contract knows of a voteKey is its list, or nothing.
KnownListsAreTheirs ==
  \A vk \in VoteKeys : voteKeyCidList[vk] \in {<<>>, vk.list}

\* Nothing is left to sign before preSign.
NothingUnsignedYet ==
  \A k \in Keys, m \in Members : ~txInfo[k][m].flag => txInfo[k][m].signStatus = {}

OracleInv ==
  /\ OracleTypeOK
  /\ VotesAreVoters
  /\ SignedIsVoted
  /\ RequestedIsPublished
  /\ KnownListsAreTheirs
  /\ NothingUnsignedYet

USE OracleAssumption, ListsAssumption

\* The contract starts with nothing signed, known or published.
LEMMA OracleInitInv == OracleInit => OracleInv
<1> SUFFICES ASSUME OracleInit PROVE OracleInv
  OBVIOUS
<1>1. NoInfo \in TxOracleInfo
  BY DEF NoInfo, TxOracleInfo, Batches
<1>2. OracleTypeOK
  BY <1>1 DEF OracleInit, OracleTypeOK
<1>3. VotesAreVoters
  <2>1. \A vk \in VoteKeys : {m \in Members : <<vk, m>> \in userVoted} = {}
    BY DEF OracleInit
  <2>2. Cardinality({}) = 0
    BY FS_EmptySet
  <2> QED BY <2>1, <2>2 DEF OracleInit, VotesAreVoters
<1>4. NothingUnsignedYet /\ \A k \in Keys, m \in Members : ~txInfo[k][m].flag
  BY DEF OracleInit, NoInfo, NothingUnsignedYet
<1>5. SignedIsVoted
  BY <1>4 DEF SignedIsVoted
<1>6. RequestedIsPublished /\ KnownListsAreTheirs
  BY DEF OracleInit, RequestedIsPublished, KnownListsAreTheirs
<1> QED BY <1>2, <1>3, <1>4, <1>5, <1>6 DEF OracleInv

\* One vote more is one voter more.
LEMMA OneMoreVoter ==
  ASSUME OracleInv, NEW m \in Members, NEW vk \in VoteKeys, NEW known, NEW mayPublish,
         CastVote(m, vk, known, mayPublish)
  PROVE  /\ VotesAreVoters'
         /\ txVoteMap' \in [VoteKeys -> Nat]
         /\ userVoted' \subseteq VoteKeys \X Members
<1> DEFINE Voters(v, vs) == {n \in Members : <<v, n>> \in vs}
<1>1. /\ <<vk, m>> \notin userVoted
      /\ userVoted' = userVoted \cup {<<vk, m>>}
      /\ txVoteMap' = [txVoteMap EXCEPT ![vk] = @ + 1]
  BY DEF CastVote
<1>2. /\ txVoteMap \in [VoteKeys -> Nat] /\ userVoted \subseteq VoteKeys \X Members
      /\ \A v \in VoteKeys : txVoteMap[v] = Cardinality(Voters(v, userVoted))
  BY DEF OracleInv, OracleTypeOK, VotesAreVoters
<1>3. \A v \in VoteKeys : IsFiniteSet(Voters(v, userVoted))
  BY FS_Subset DEF OracleAssumption
<1>4. /\ Voters(vk, userVoted') = Voters(vk, userVoted) \cup {m}
      /\ m \notin Voters(vk, userVoted)
      /\ \A v \in VoteKeys \ {vk} : Voters(v, userVoted') = Voters(v, userVoted)
  BY <1>1
<1>5. Cardinality(Voters(vk, userVoted')) = Cardinality(Voters(vk, userVoted)) + 1
  BY <1>3, <1>4, FS_AddElement
<1>6. \A v \in VoteKeys : txVoteMap'[v] = Cardinality(Voters(v, userVoted'))
  BY <1>1, <1>2, <1>4, <1>5
<1>7. VotesAreVoters'
  BY <1>6 DEF VotesAreVoters
<1> QED BY <1>1, <1>2, <1>7

\* A vote publishes the ballot's own list, if any, and then asks for the price.
LEMMA OneMoreVotePublishes ==
  ASSUME OracleInv, NEW m \in Members, NEW vk \in VoteKeys, NEW mayPublish,
         NEW known \in {<<>>, vk.list},
         CastVote(m, vk, known, mayPublish)
  PROVE  /\ cidListMap' \in [Keys -> Lists] /\ requested' \subseteq Keys
         /\ RequestedIsPublished'
         /\ \/ UNCHANGED cidListMap
            \/ /\ txVoteMap'[vk] >= threshold /\ vk.list # <<>>
               /\ cidListMap' = [cidListMap EXCEPT ![vk.key] = vk.list]
<1>1. vk.key \in Keys /\ vk.list \in Lists
  BY DEF VoteKeys
<1>2. /\ cidListMap \in [Keys -> Lists] /\ requested \subseteq Keys
      /\ \A k \in Keys : k \in requested <=> cidListMap[k] # <<>>
  BY DEF OracleInv, OracleTypeOK, RequestedIsPublished
<1>3. CASE UNCHANGED <<cidListMap, requested>>
  BY <1>2, <1>3 DEF RequestedIsPublished
<1>4. CASE /\ txVoteMap'[vk] >= threshold /\ known # <<>>
           /\ cidListMap' = [cidListMap EXCEPT ![vk.key] = known]
           /\ requested' = requested \cup {vk.key}
  BY <1>1, <1>2, <1>4 DEF RequestedIsPublished
<1> QED BY <1>3, <1>4 DEF CastVote

\* preSign opens a record that nothing was voted through yet.
LEMMA PreSignInv ==
  ASSUME OracleInv, NEW m \in Members, NEW k \in Keys, NEW r \in Recipients,
         NEW n \in 1..MaxBatch, PreSign(m, k, r, n)
  PROVE  OracleInv'
<1> DEFINE info == [txInfo[k][m] EXCEPT !.flag = TRUE, !.recipient = r, !.batch = n,
                                        !.signStatus = 0..(n - 1)]
<1>1. txInfo \in [Keys -> [Members -> TxOracleInfo]] /\ txInfo[k][m] \in TxOracleInfo
  BY DEF OracleInv, OracleTypeOK
<1>2. /\ txInfo' = [txInfo EXCEPT ![k][m] = info]
      /\ UNCHANGED <<admin, ballotBox>>
  BY DEF PreSign
<1>3. /\ 0 \in 0..(n - 1) /\ 0..(n - 1) \subseteq Batches /\ n \in 0..MaxBatch
  BY DEF Batches
<1>4. info \in TxOracleInfo /\ info.flag = TRUE /\ info.signStatus # {}
  BY <1>1, <1>3 DEF TxOracleInfo
<1>5. /\ txInfo' \in [Keys -> [Members -> TxOracleInfo]]
      /\ txInfo'[k][m] = info
      /\ \A j \in Keys, p \in Members : j # k \/ p # m => txInfo'[j][p] = txInfo[j][p]
  BY <1>1, <1>2, <1>4
<1>6. OracleTypeOK'
  BY <1>2, <1>5 DEF OracleInv, OracleTypeOK, admin, ballotBox
<1>7. VotesAreVoters' /\ RequestedIsPublished' /\ KnownListsAreTheirs'
  BY <1>2 DEF OracleInv, VotesAreVoters, RequestedIsPublished, KnownListsAreTheirs, ballotBox
<1>8. NothingUnsignedYet'
  <2> SUFFICES ASSUME NEW j \in Keys, NEW p \in Members, ~txInfo'[j][p].flag
               PROVE  txInfo'[j][p].signStatus = {}
    BY DEF NothingUnsignedYet
  <2>1. j # k \/ p # m
    BY <1>4, <1>5
  <2>2. txInfo'[j][p] = txInfo[j][p]
    BY <1>5, <2>1
  <2> QED BY <2>2 DEF OracleInv, NothingUnsignedYet
<1>9. SignedIsVoted'
  BY <1>2, <1>4, <1>5 DEF OracleInv, SignedIsVoted, ballotBox
<1> QED BY <1>6, <1>7, <1>8, <1>9 DEF OracleInv

\* sign: a batch more, or the last one and with it the vote.
LEMMA SignInv ==
  ASSUME OracleInv, NEW m \in Members, NEW k \in Keys, NEW cids \in BatchLists,
         NEW n \in Batches, Sign(m, k, cids, n)
  PROVE  OracleInv'
<1> DEFINE info == [txInfo[k][m] EXCEPT !.signStatus = @ \ {n}, !.batchCidList[n] = cids]
           list == CidList(info.batchCidList)
           vk == [key |-> k, recipient |-> info.recipient, list |-> list]
<1>1. txInfo \in [Keys -> [Members -> TxOracleInfo]] /\ txInfo[k][m] \in TxOracleInfo
  BY DEF OracleInv, OracleTypeOK
<1>2. /\ txInfo[k][m].flag /\ txInfo' = [txInfo EXCEPT ![k][m] = info]
      /\ IF info.signStatus = {}
         THEN /\ voteKeyCidList' = [voteKeyCidList EXCEPT ![vk] = list]
              /\ CastVote(m, vk, list, TRUE)
         ELSE UNCHANGED ballotBox
      /\ UNCHANGED admin
  BY DEF Sign
<1>3. info \in TxOracleInfo /\ info.flag = txInfo[k][m].flag
  BY <1>1 DEF TxOracleInfo
<1>4. /\ txInfo' \in [Keys -> [Members -> TxOracleInfo]]
      /\ txInfo'[k][m] = info
      /\ \A j \in Keys, p \in Members : j # k \/ p # m => txInfo'[j][p] = txInfo[j][p]
  BY <1>1, <1>2, <1>3
<1>5. NothingUnsignedYet'
  BY <1>2, <1>3, <1>4 DEF OracleInv, NothingUnsignedYet
<1>6. vk \in VoteKeys /\ vk.key = k /\ vk.list = list
  <2>1. info.batchCidList \in [Batches -> BatchLists \cup {<<>>}] /\ info.recipient \in Recipients
    BY <1>3 DEF TxOracleInfo
  <2>2. list \in Lists
    BY <2>1
  <2> QED BY <2>1, <2>2 DEF VoteKeys
<1> HIDE DEF info, list, vk
<1>7. CASE info.signStatus # {}
  <2>1. UNCHANGED ballotBox
    BY <1>2, <1>7
  <2>2. OracleTypeOK'
    BY <1>2, <1>4, <2>1 DEF OracleInv, OracleTypeOK, admin, ballotBox
  <2>3. VotesAreVoters' /\ RequestedIsPublished' /\ KnownListsAreTheirs'
    BY <2>1 DEF OracleInv, VotesAreVoters, RequestedIsPublished, KnownListsAreTheirs, ballotBox
  <2>4. SignedIsVoted'
    <3> SUFFICES ASSUME NEW j \in Keys, NEW p \in Members,
                        txInfo'[j][p].flag, txInfo'[j][p].signStatus = {}
                 PROVE  LET v == [key |-> j, recipient |-> txInfo'[j][p].recipient,
                                  list |-> CidList(txInfo'[j][p].batchCidList)]
                        IN  <<v, p>> \in userVoted' /\ voteKeyCidList'[v] = v.list
      BY DEF SignedIsVoted
    <3>1. j # k \/ p # m
      BY <1>4, <1>7
    <3>2. txInfo'[j][p] = txInfo[j][p]
      BY <1>4, <3>1
    <3>3. UNCHANGED <<userVoted, voteKeyCidList>>
      BY <2>1 DEF ballotBox
    <3>4. LET v == [key |-> j, recipient |-> txInfo[j][p].recipient,
                    list |-> CidList(txInfo[j][p].batchCidList)]
          IN  <<v, p>> \in userVoted /\ voteKeyCidList[v] = v.list
      BY <3>2 DEF OracleInv, SignedIsVoted
    <3> QED BY <3>2, <3>3, <3>4
  <2> QED BY <1>5, <2>2, <2>3, <2>4 DEF OracleInv
<1>8. CASE info.signStatus = {}
  <2>1. /\ voteKeyCidList' = [voteKeyCidList EXCEPT ![vk] = list]
        /\ CastVote(m, vk, list, TRUE)
    BY <1>2, <1>8
  <2>2. /\ VotesAreVoters' /\ txVoteMap' \in [VoteKeys -> Nat]
        /\ userVoted' \subseteq VoteKeys \X Members
    BY <1>6, <2>1, OneMoreVoter
  <2>3. /\ cidListMap' \in [Keys -> Lists] /\ requested' \subseteq Keys
        /\ RequestedIsPublished'
    BY <1>6, <2>1, OneMoreVotePublishes
  <2>4. voteKeyCidList' \in [VoteKeys -> Lists] /\ KnownListsAreTheirs'
    <3>1. voteKeyCidList \in [VoteKeys -> Lists] /\ list \in Lists
      BY <1>6 DEF OracleInv, OracleTypeOK, VoteKeys
    <3> QED BY <1>6, <2>1, <3>1 DEF OracleInv, KnownListsAreTheirs
  <2>5. OracleTypeOK'
    BY <1>2, <1>4, <2>2, <2>3, <2>4 DEF OracleInv, OracleTypeOK, admin
  <2>6. SignedIsVoted'
    <3>1. userVoted \subseteq userVoted' /\ <<vk, m>> \in userVoted'
      BY <2>1 DEF CastVote
    <3>2. voteKeyCidList'[vk] = vk.list
      BY <1>6, <2>1 DEF OracleInv, OracleTypeOK
    <3>3. \A v \in VoteKeys : voteKeyCidList[v] = v.list => voteKeyCidList'[v] = v.list
      BY <1>6, <2>1, <3>2 DEF OracleInv, OracleTypeOK
    <3> SUFFICES ASSUME NEW j \in Keys, NEW p \in Members,
                        txInfo'[j][p].flag, txInfo'[j][p].signStatus = {}
                 PROVE  LET v == [key |-> j, recipient |-> txInfo'[j][p].recipient,
                                  list |-> CidList(txInfo'[j][p].batchCidList)]
                        IN  <<v, p>> \in userVoted' /\ voteKeyCidList'[v] = v.list
      BY DEF SignedIsVoted
    <3>4. CASE j = k /\ p = m
      BY <1>4, <3>1, <3>2, <3>4 DEF list, vk
    <3>5. CASE j # k \/ p # m
      <4> DEFINE v == [key |-> j, recipient |-> txInfo[j][p].recipient,
                       list |-> CidList(txInfo[j][p].batchCidList)]
      <4>1. txInfo'[j][p] = txInfo[j][p]
        BY <1>4, <3>5
      <4>2. <<v, p>> \in userVoted /\ voteKeyCidList[v] = v.list
        BY <4>1 DEF OracleInv, SignedIsVoted
      <4>3. v \in VoteKeys
        BY <4>2 DEF OracleInv, OracleTypeOK
      <4>4. <<v, p>> \in userVoted' /\ voteKeyCidList'[v] = v.list
        BY <3>1, <3>3, <4>2, <4>3
      <4> QED BY <4>1, <4>4
    <3> QED BY <3>4, <3>5
  <2> QED BY <1>5, <2>2, <2>3, <2>4, <2>5, <2>6 DEF OracleInv
<1> QED BY <1>7, <1>8

\* signHash: a vote and nothing else.
LEMMA SignHashInv ==
  ASSUME OracleInv, NEW m \in Members, NEW vk \in VoteKeys, SignHash(m, vk)
  PROVE  OracleInv'
<1>1. /\ CastVote(m, vk, voteKeyCidList[vk], txInfo[vk.key][m].signStatus = {})
      /\ UNCHANGED <<admin, txInfo, voteKeyCidList>>
  BY DEF SignHash
<1>2. voteKeyCidList[vk] \in {<<>>, vk.list}
  BY DEF OracleInv, KnownListsAreTheirs
<1>3. /\ VotesAreVoters' /\ txVoteMap' \in [VoteKeys -> Nat]
      /\ userVoted' \subseteq VoteKeys \X Members
  BY <1>1, OneMoreVoter
<1>4. /\ cidListMap' \in [Keys -> Lists] /\ requested' \subseteq Keys
      /\ RequestedIsPublished'
  BY <1>1, <1>2, OneMoreVotePublishes
<1>5. OracleTypeOK'
  BY <1>1, <1>3, <1>4 DEF OracleInv, OracleTypeOK, admin
<1>6. userVoted \subseteq userVoted'
  BY <1>1 DEF CastVote
<1>7. SignedIsVoted'
  BY <1>1, <1>6 DEF OracleInv, SignedIsVoted
<1>8. KnownListsAreTheirs' /\ NothingUnsignedYet'
  BY <1>1 DEF OracleInv, KnownListsAreTheirs, NothingUnsignedYet
<1> QED BY <1>3, <1>4, <1>5, <1>7, <1>8 DEF OracleInv

\* The administrator's calls touch no vote and no record.
LEMMA AdminInv ==
  ASSUME OracleInv, UNCHANGED <<txInfo, ballotBox>>,
         threshold' \in Thresholds, filink' \in BOOLEAN, dao' \subseteq Members
  PROVE  OracleInv'
<1>1. OracleTypeOK'
  BY DEF OracleInv, OracleTypeOK, ballotBox
<1>2. VotesAreVoters' /\ RequestedIsPublished' /\ KnownListsAreTheirs'
  BY DEF OracleInv, VotesAreVoters, RequestedIsPublished, KnownListsAreTheirs, ballotBox
<1>3. SignedIsVoted' /\ NothingUnsignedYet'
  BY DEF OracleInv, SignedIsVoted, NothingUnsignedYet, ballotBox
<1> QED BY <1>1, <1>2, <1>3 DEF OracleInv

\* Every call keeps the invariant.
LEMMA OracleStepInv == OracleInv /\ [OracleNext]_oracleVars => OracleInv'
<1> SUFFICES ASSUME OracleInv, [OracleNext]_oracleVars PROVE OracleInv'
  OBVIOUS
<1>0. threshold \in Thresholds /\ filink \in BOOLEAN /\ dao \subseteq Members
  BY DEF OracleInv, OracleTypeOK
<1>1. ASSUME NEW n \in Thresholds, UpdateThreshold(n) PROVE OracleInv'
  BY <1>0, <1>1, AdminInv DEF UpdateThreshold
<1>2. ASSUME NEW set \in BOOLEAN, SetFilinkOracle(set) PROVE OracleInv'
  BY <1>0, <1>2, AdminInv DEF SetFilinkOracle
<1>3. ASSUME NEW daoUsers \in SUBSET Members, SetDAOUsers(daoUsers) PROVE OracleInv'
  BY <1>0, <1>3, AdminInv DEF SetDAOUsers
<1>4. ASSUME NEW m \in Members, NEW k \in Keys, NEW r \in Recipients, NEW n \in 1..MaxBatch,
             PreSign(m, k, r, n)
      PROVE  OracleInv'
  BY <1>4, PreSignInv
<1>5. ASSUME NEW m \in Members, NEW k \in Keys, NEW list \in BatchLists, NEW n \in Batches,
             Sign(m, k, list, n)
      PROVE  OracleInv'
  BY <1>5, SignInv
<1>6. ASSUME NEW m \in Members, NEW vk \in VoteKeys, SignHash(m, vk) PROVE OracleInv'
  BY <1>6, SignHashInv
<1>7. CASE UNCHANGED oracleVars
  BY <1>0, <1>7, AdminInv DEF oracleVars, admin
<1> QED BY <1>1, <1>2, <1>3, <1>4, <1>5, <1>6, <1>7 DEF OracleNext

\* The inductive invariant holds in every reachable state of the contract.
THEOREM OracleInvariance == OracleSpec => []OracleInv
  BY OracleInitInv, OracleStepInv, PTL DEF OracleSpec

-----------------------------------------------------------------------------
\* The contract's storage has the types the code gives it.
THEOREM OracleTypeCorrect == OracleSpec => []OracleTypeOK
  BY OracleInvariance, PTL DEF OracleInv

\* Whatever mixture of sign and signHash members use, a count is a number of voters.
THEOREM VotesCountVoters == OracleSpec => []VotesAreVoters
  BY OracleInvariance, PTL DEF OracleInv

\* Signing the last batch is voting for exactly the list the batches add up to.
THEOREM SigningIsVoting == OracleSpec => []SignedIsVoted
  BY OracleInvariance, PTL DEF OracleInv

\* Prices are asked for exactly where there is a list to spread them over.
THEOREM RequestsFollowLists == OracleSpec => []RequestedIsPublished
  BY OracleInvariance, PTL DEF OracleInv

-----------------------------------------------------------------------------
\* A cast vote is a Vote of DaoVote: its count is the number of voters.
LEMMA CastVoteIsVote ==
  ASSUME OracleInv, NEW m \in Members, NEW vk \in VoteKeys, NEW mayPublish,
         NEW known \in {<<>>, vk.list}, m \in dao,
         CastVote(m, vk, known, mayPublish), UNCHANGED admin
  PROVE  Dao!Vote(m, vk)
<1>1. VotesAreVoters'
  BY OneMoreVoter
<1>2. txVoteMap'[vk] = Dao!Cardinality(Dao!VotersOf(vk, userVoted'))
  <2>1. txVoteMap'[vk] = Cardinality(Dao!VotersOf(vk, userVoted'))
    BY <1>1 DEF VotesAreVoters, Dao!VotersOf
  <2>2. \A S : Dao!Cardinality(S) = Cardinality(S)
    BY DEF Cardinality, Dao!Cardinality
  <2> QED BY <2>1, <2>2
<1>3. \/ UNCHANGED cidListMap
      \/ /\ txVoteMap'[vk] >= threshold /\ vk.list # <<>>
         /\ cidListMap' = [cidListMap EXCEPT ![vk.key] = vk.list]
  BY OneMoreVotePublishes, SMTT(60)
<1>4. <<vk, m>> \notin userVoted /\ userVoted' = userVoted \cup {<<vk, m>>}
  BY DEF CastVote
<1> QED BY <1>2, <1>3, <1>4 DEF Dao!Vote, admin

\* Every call is a step of DaoVote or changes nothing it speaks of.
LEMMA OracleStepIsVote ==
  ASSUME OracleInv, OracleInv', [OracleNext]_oracleVars
  PROVE  [Dao!VoteNext]_Dao!voteVars
<1>1. /\ threshold' \in Nat /\ dao' \subseteq Members
  BY DEF OracleInv, OracleTypeOK, OracleAssumption
<1>2. ASSUME UNCHANGED ballotBox PROVE Dao!VoteNext
  BY <1>1, <1>2 DEF Dao!VoteNext, Dao!Administer, ballotBox
<1>3. ASSUME NEW m \in Members, NEW k \in Keys, NEW cids \in BatchLists, NEW n \in Batches,
             Sign(m, k, cids, n)
      PROVE  Dao!VoteNext
  <2> DEFINE info == [txInfo[k][m] EXCEPT !.signStatus = @ \ {n}, !.batchCidList[n] = cids]
             list == CidList(info.batchCidList)
             vk == [key |-> k, recipient |-> info.recipient, list |-> list]
  <2>1. CASE info.signStatus # {}
    BY <1>2, <1>3, <2>1 DEF Sign
  <2>2. CASE info.signStatus = {}
    <3>1. CastVote(m, vk, list, TRUE) /\ m \in dao /\ UNCHANGED admin
      BY <1>3, <2>2 DEF Sign
    <3>2. txInfo[k][m] \in TxOracleInfo
      BY DEF OracleInv, OracleTypeOK
    <3>3. info.batchCidList \in [Batches -> BatchLists \cup {<<>>}] /\ info.recipient \in Recipients
      BY <3>2 DEF TxOracleInfo
    <3>4. list \in Lists
      BY <3>3
    <3>5. vk \in VoteKeys /\ list \in {<<>>, vk.list}
      BY <3>3, <3>4 DEF VoteKeys
    <3> HIDE DEF info, list, vk
    <3>6. Dao!Vote(m, vk)
      BY <3>1, <3>5, CastVoteIsVote
    <3> QED BY <3>5, <3>6 DEF Dao!VoteNext
  <2> QED BY <2>1, <2>2
<1>4. ASSUME NEW m \in Members, NEW vk \in VoteKeys, SignHash(m, vk) PROVE Dao!VoteNext
  <2>1. /\ CastVote(m, vk, voteKeyCidList[vk], txInfo[vk.key][m].signStatus = {})
        /\ m \in dao /\ UNCHANGED admin
    BY <1>4 DEF SignHash
  <2>2. voteKeyCidList[vk] \in {<<>>, vk.list}
    BY DEF OracleInv, KnownListsAreTheirs
  <2>3. Dao!Vote(m, vk)
    BY <2>1, <2>2, CastVoteIsVote
  <2> QED BY <2>3 DEF Dao!VoteNext
<1>5. ASSUME UNCHANGED oracleVars PROVE Dao!VoteNext
  BY <1>2, <1>5 DEF oracleVars
<1>6. CASE \/ \E n \in Thresholds : UpdateThreshold(n)
           \/ \E set \in BOOLEAN : SetFilinkOracle(set)
           \/ \E daoUsers \in SUBSET Members : SetDAOUsers(daoUsers)
           \/ \E m \in Members, k \in Keys, r \in Recipients, n \in 1..MaxBatch :
                PreSign(m, k, r, n)
  BY <1>2, <1>6 DEF UpdateThreshold, SetFilinkOracle, SetDAOUsers, PreSign
<1> QED BY <1>3, <1>4, <1>5, <1>6 DEF OracleNext

\* The contract starts where DaoVote starts.
LEMMA OracleInitIsVote == OracleInit => Dao!VoteInit
  BY DEF OracleInit, Dao!VoteInit, OracleAssumption

\* The contract keeps what DaoVote promises: one vote per member and ballot, and only
\* a quorum's ballot becomes the list of its deal.
THEOREM OracleImplementsDaoVote == OracleSpec => DaoVoteSpec
<1>1. OracleInv /\ OracleInv' /\ [OracleNext]_oracleVars => [Dao!VoteNext]_Dao!voteVars
  BY OracleStepIsVote
<1> QED BY <1>1, OracleInitIsVote, OracleInvariance, PTL
        DEF OracleSpec, DaoVoteSpec, Dao!VoteSpec

-----------------------------------------------------------------------------
\* What the batches of a member add up to names no cid twice.
LEMMA CidListOnce ==
  ASSUME NEW batches \in [Batches -> BatchLists \cup {<<>>}]
  PROVE  IsInjective(CidList(batches))
<1> DEFINE S == UNION {Range(list) : list \in BatchLists}
           q == [i \in 1..MaxBatch |-> batches[i - 1]]
<1>1. ASSUME NEW list \in BatchLists \cup {<<>>} PROVE list \in Seq(S)
  <2>1. CASE list = <<>>
    BY <2>1
  <2>2. CASE list \in BatchLists
    <3>1. list \in Seq(Range(list)) /\ Range(list) \subseteq S
      BY <2>2
    <3> HIDE DEF S
    <3> QED
      BY <3>1, SeqMonotonic
  <2> QED
    BY <2>1, <2>2
<1>2. MaxBatch \in Nat \ {0} /\ Len(q) = MaxBatch
  OBVIOUS
<1>3. \A i \in 1..MaxBatch : q[i] \in Seq(S)
  <2> SUFFICES ASSUME NEW i \in 1..MaxBatch PROVE batches[i - 1] \in Seq(S)
    OBVIOUS
  <2>1. batches[i - 1] \in BatchLists \cup {<<>>}
    BY DEF Batches
  <2> HIDE DEF S
  <2> QED
    BY <1>1, <2>1
<1>4. CidList(batches) = Dedupe(FlattenSeq(q))
  BY DEF CidList, CidLists, Dedupe
<1> HIDE DEF S, q
<1>5. FlattenSeq(q) \in Seq(S)
  BY <1>2, <1>3, FlattenType
<1> QED
  BY <1>4, <1>5, DedupeOnce

\* So do the lists the contract knows and those it has published.
OnceInv ==
  /\ OracleInv
  /\ \A vk \in VoteKeys : IsInjective(voteKeyCidList[vk])
  /\ \A k \in Keys : IsInjective(cidListMap[k])

\* No call lists a cid twice.
LEMMA OnceStepInv == OnceInv /\ [OracleNext]_oracleVars => OnceInv'
<1> SUFFICES ASSUME OnceInv, [OracleNext]_oracleVars PROVE OnceInv'
  OBVIOUS
<1>0. /\ OracleInv'
      /\ cidListMap \in [Keys -> Lists] /\ voteKeyCidList \in [VoteKeys -> Lists]
      /\ txInfo \in [Keys -> [Members -> TxOracleInfo]]
  BY OracleStepInv DEF OnceInv, OracleInv, OracleTypeOK
<1>1. CASE UNCHANGED ballotBox
  BY <1>0, <1>1 DEF OnceInv, ballotBox
<1>2. ASSUME NEW m \in Members, NEW vk \in VoteKeys, NEW known, NEW may,
             CastVote(m, vk, known, may), IsInjective(known)
      PROVE  \A k \in Keys : IsInjective(cidListMap'[k])
  BY <1>0, <1>2 DEF CastVote, OnceInv
<1>3. ASSUME NEW m \in Members, NEW k \in Keys, NEW cids \in BatchLists, NEW n \in Batches,
             Sign(m, k, cids, n)
      PROVE  OnceInv'
  <2> DEFINE info == [txInfo[k][m] EXCEPT !.signStatus = @ \ {n}, !.batchCidList[n] = cids]
             list == CidList(info.batchCidList)
             vk == [key |-> k, recipient |-> info.recipient, list |-> list]
  <2>1. CASE info.signStatus # {}
    BY <1>1, <1>3, <2>1 DEF Sign
  <2>2. CASE info.signStatus = {}
    <3>1. CastVote(m, vk, list, TRUE) /\ voteKeyCidList' = [voteKeyCidList EXCEPT ![vk] = list]
      BY <1>3, <2>2 DEF Sign
    <3>2. txInfo[k][m] \in TxOracleInfo
      BY <1>0
    <3>3. info.batchCidList \in [Batches -> BatchLists \cup {<<>>}] /\ info.recipient \in Recipients
      BY <3>2 DEF TxOracleInfo
    <3>4. list \in Lists /\ IsInjective(list)
      BY <3>3, CidListOnce
    <3>5. vk \in VoteKeys
      BY <3>3, <3>4 DEF VoteKeys
    <3> HIDE DEF info, list, vk
    <3>6. \A j \in Keys : IsInjective(cidListMap'[j])
      BY <1>2, <3>1, <3>4, <3>5
    <3>7. \A v \in VoteKeys : IsInjective(voteKeyCidList'[v])
      BY <1>0, <3>1, <3>4, <3>5 DEF OnceInv
    <3> QED
      BY <1>0, <3>6, <3>7 DEF OnceInv
  <2> QED
    BY <2>1, <2>2
<1>4. ASSUME NEW m \in Members, NEW vk \in VoteKeys, SignHash(m, vk) PROVE OnceInv'
  <2>1. IsInjective(voteKeyCidList[vk])
    BY DEF OnceInv
  <2>2. /\ CastVote(m, vk, voteKeyCidList[vk], txInfo[vk.key][m].signStatus = {})
        /\ UNCHANGED voteKeyCidList
    BY <1>4 DEF SignHash
  <2>3. \A k \in Keys : IsInjective(cidListMap'[k])
    BY <1>2, <2>1, <2>2
  <2> QED
    BY <1>0, <2>2, <2>3 DEF OnceInv
<1> QED
  BY <1>1, <1>3, <1>4
  DEF OracleNext, oracleVars, UpdateThreshold, SetFilinkOracle, SetDAOUsers, PreSign

\* A published list names no cid twice.
THEOREM CidsAreListedOnce == OracleSpec => []ListedOnce
<1>1. OracleInit => OnceInv
  <2>1. IsInjective(<<>>)
    BY DEF IsInjective
  <2> QED
    BY <2>1, OracleInitInv DEF OracleInit, OnceInv
<1>2. OnceInv /\ [OracleNext]_oracleVars => OnceInv'
  BY OnceStepInv
<1>3. OnceInv => ListedOnce
  BY DEF OnceInv, ListedOnce, IsInjective
<1> QED
  BY <1>1, <1>2, <1>3, PTL DEF OracleSpec
=============================================================================
