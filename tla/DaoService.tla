----------------------------- MODULE DaoService -----------------------------
(***************************************************************************)
(* service/dao.go between the tables and the DAO oracle: it tells a member *)
(* what is left to announce, to sign batch by batch and to sign by hash,   *)
(* the member sends transactions for it some time later, the contract      *)
(* takes or reverts them, and a scanner outside the repository records     *)
(* them in dao_pre_sign and dao_signature later still.                     *)
(*                                                                         *)
(* The keys of the oracle are the deals.  Its administration is done       *)
(* before the members start (Deploy), and nobody joins or leaves.          *)
(***************************************************************************)
EXTENDS FilswanOracleV2

CONSTANTS
  CarFiles,         \* ids of the uploads in a deal's car; stand for their w_cids too
  Recipient,        \* payment_recipient_address, which every member names
  BatchSizeMax,     \* MAX_WCID_COUNT_IN_TRANSACTION
  UnlockThreshold,  \* DAO_SIGNATURE_THRESHOLD
  MaxInFlight,      \* bound: transactions the scanner has not seen
  MaxFailed         \* bound: calls that revert

VARIABLES
  dealStatus,       \* offline_deal.status
  preSign,          \* dao_pre_sign, unique by deal and signer
  signature,        \* dao_signature
  offers,           \* what a member was told to do last
  failed,           \* number of calls that have reverted
  unscanned         \* transactions on the chain and not in the tables, oldest first

daoRows == <<dealStatus, preSign, signature>>
daoVars == <<daoRows, offers, failed, unscanned, oracleVars>>

ASSUME DaoAssumption ==
  /\ \A d \in Keys : CarFiles[d] \subseteq Nat /\ IsFiniteSet(CarFiles[d]) /\ CarFiles[d] # {}
  /\ Recipient \in Recipients
  /\ BatchSizeMax \in Nat \ {0} /\ UnlockThreshold \in Nat \ {0}
  /\ MaxInFlight \in Nat \ {0} /\ MaxFailed \in Nat

NoBatch == -1
Offer == [kind : {"preSign", "sign", "signHash"}, deal : Keys,
          batch : {NoBatch} \cup 0..MaxBatch, list : Lists \cup BatchLists]
Tx == [from : Members, offer : Offer, status : {"Success", "Failed"}]
NoPreSign == [status |-> "None", batchCount |-> 0, total |-> 0, signed |-> 0]
PreSignRow == [status : {"None", "Success", "Failed"}, batchCount : 0..MaxBatch,
               total : Nat, signed : Nat]
SignatureRow == [deal : Keys, signer : Members, batchNo : {NoBatch} \cup Batches,
                 byHash : BOOLEAN, status : {"Success", "Failed"}]

DaoTypeOK ==
  /\ dealStatus \in [Keys -> {"Created", "Active", "Success"}]
  /\ preSign \in [Keys -> [Members -> PreSignRow]]
  /\ \A d \in Keys, m \in Members : preSign[d][m].signed <= preSign[d][m].total
  /\ signature \subseteq SignatureRow
  /\ \A m \in Members : offers[m] \subseteq Offer
  /\ failed \in 0..MaxFailed /\ \A i \in DOMAIN unscanned : unscanned[i] \in Tx

DaoInit ==
  /\ OracleInit
  /\ dealStatus = [d \in Keys |-> "Created"]
  /\ preSign = [d \in Keys |-> [m \in Members |-> NoPreSign]]
  /\ signature = {}
  /\ offers = [m \in Members |-> {}]
  /\ failed = 0 /\ unscanned = <<>>

-----------------------------------------------------------------------------
(* The queries of models/offline_deal.go and source_file_upload.go.        *)

\* The files of a car, order by id.
Ordered ==
  [d \in Keys |-> CHOOSE files \in [1..Cardinality(CarFiles[d]) -> CarFiles[d]] :
                    \A i, j \in DOMAIN files : i < j => files[i] < files[j]]

\* Mutant: the offset is left out, and every batch is the first.
GetSourceFileUploadsByCarFileId_First(d, batchNo) ==
  LET files == Ordered[d]
  IN  SubSeq(files, 1, IF BatchSizeMax < Len(files) THEN BatchSizeMax ELSE Len(files))

\* limit batchSizeMax offset batchSizeMax * batchNo
GetSourceFileUploadsByCarFileId(d, batchNo) ==
  LET files == Ordered[d]
      end == BatchSizeMax * (batchNo + 1)
  IN  SubSeq(files, BatchSizeMax * batchNo + 1, IF end < Len(files) THEN end ELSE Len(files))

\* MaxBatch is no limit, and BatchLists has the batches of the deals.  The service
\* counts members with all batches signed, before whom another has signed by hash, and
\* the contract counts that vote as well: its threshold may be one higher.
ASSUME BatchesAssumption ==
  /\ \A d \in Keys : Cardinality(CarFiles[d]) <= BatchSizeMax * MaxBatch
  /\ \A d \in Keys, i \in Batches : GetSourceFileUploadsByCarFileId(d, i) \in BatchLists \cup {<<>>}
  /\ \A n \in Thresholds : n <= UnlockThreshold + 1

\* Mutant: count / size is not rounded up.
BatchCount_Floor(d) == Cardinality(CarFiles[d]) \div BatchSizeMax

\* ceil(count / MAX_WCID_COUNT_IN_TRANSACTION)
BatchCount(d) == (Cardinality(CarFiles[d]) + BatchSizeMax - 1) \div BatchSizeMax

SignedBy(d, m) == {s \in signature : s.deal = d /\ s.signer = m}

\* Deals somebody has signed by hash and this member has not announced.
GetDeals2PreSign(m) ==
  {d \in Keys : /\ dealStatus[d] = "Active"
                /\ preSign[d][m].status # "Success"
                /\ \E s \in signature : s.deal = d /\ s.status = "Success" /\ s.byHash}

\* Announced and not all signed, whatever became of the deal.
GetDeals2Sign(m) ==
  {d \in Keys : preSign[d][m].status = "Success" /\ preSign[d][m].signed < preSign[d][m].total}

GetDeals2SignHash(m) ==
  {d \in Keys : /\ dealStatus[d] = "Active"
                /\ ~\E s \in SignedBy(d, m) : s.status = "Success"}

\* Mutant: the deal of any announced member.
GetDeals2Unlock_Announced ==
  {d \in Keys : /\ dealStatus[d] = "Active"
                /\ Cardinality({m \in Members : preSign[d][m].status = "Success"})
                     >= UnlockThreshold}

FullySigned(d, m) ==
  preSign[d][m].status = "Success" /\ preSign[d][m].signed = preSign[d][m].total

GetDeals2Unlock ==
  {d \in Keys : /\ dealStatus[d] = "Active"
                /\ Cardinality({m \in Members : FullySigned(d, m)}) >= UnlockThreshold}

\* Mutant: a batch signed by hash or in vain counts as signed.
OpenBatches_AnyRow(d, m) ==
  {i \in 0..(preSign[d][m].batchCount - 1) : ~\E s \in SignedBy(d, m) : s.batchNo \in {i, NoBatch}}

\* The loop of GetDeals2Sign: batches without a signature of their own.
OpenBatches(d, m) ==
  {i \in 0..(preSign[d][m].batchCount - 1) :
     ~\E s \in SignedBy(d, m) : s.batchNo = i /\ ~s.byHash}

-----------------------------------------------------------------------------
(* What a member asks and is told: each answer replaces the last of its kind. *)

Told(m, kind, answer) ==
  /\ offers' = [offers EXCEPT ![m] = {o \in @ : o.kind # kind} \cup answer]
  /\ UNCHANGED <<daoRows, failed, unscanned, oracleVars>>

AskPreSign(m) ==
  Told(m, "preSign", {[kind |-> "preSign", deal |-> d, batch |-> BatchCount(d), list |-> <<>>] :
                        d \in GetDeals2PreSign(m)})

AskSignHash(m) ==
  Told(m, "signHash", {[kind |-> "signHash", deal |-> d, batch |-> NoBatch,
                        list |-> Ordered[d]] : d \in GetDeals2SignHash(m)})

BatchOffers(d, m) ==
  {[kind |-> "sign", deal |-> d, batch |-> i, list |-> GetSourceFileUploadsByCarFileId(d, i)] :
     i \in OpenBatches(d, m)}

\* The deals are listed first and their signatures read afterwards, one by one; what
\* is recorded meanwhile only takes batches out of the answer, as in a later one.
AskSign(m) == Told(m, "sign", UNION {BatchOffers(d, m) : d \in GetDeals2Sign(m)})

-----------------------------------------------------------------------------
(* The chain, and what the scanner makes of it.                            *)

Deploy ==
  \/ dao # Members /\ SetDAOUsers(Members)
  \/ ~filink /\ SetFilinkOracle(TRUE)

Call(m, o) ==
  CASE o.kind = "preSign"  -> PreSign(m, o.deal, Recipient, o.batch)
    [] o.kind = "sign"     -> Sign(m, o.deal, o.list, o.batch)
    [] o.kind = "signHash" ->
         SignHash(m, [key |-> o.deal, recipient |-> Recipient, list |-> o.list])

Sent(m, o, status) == unscanned' = Append(unscanned, [from |-> m, offer |-> o, status |-> status])

MayCall(m, o) ==
  /\ dao = Members /\ filink
  /\ Len(unscanned) < MaxInFlight
  /\ o \in offers[m]
  /\ offers' = [offers EXCEPT ![m] = @ \ {o}]
  /\ UNCHANGED daoRows

\* A member acts on what it was told, however old that is, and the contract takes it.
Taken(m, o) == MayCall(m, o) /\ Call(m, o) /\ Sent(m, o, "Success") /\ UNCHANGED failed

\* The call reverts: because of a guard, or for want of gas or of LINK for the price.
Reverted(m, o) ==
  /\ failed < MaxFailed /\ failed' = failed + 1
  /\ MayCall(m, o) /\ Sent(m, o, "Failed") /\ UNCHANGED oracleVars

RecordPreSign(d, m, tx) ==
  /\ preSign' = IF preSign[d][m].status = "Success" THEN preSign
                ELSE [preSign EXCEPT ![d][m] =
                        [status |-> tx.status, batchCount |-> tx.offer.batch,
                         total |-> Cardinality(CarFiles[d]), signed |-> 0]]
  /\ UNCHANGED signature

RecordSignature(d, m, tx) ==
  /\ signature' = signature \cup
       {[deal |-> d, signer |-> m, batchNo |-> tx.offer.batch,
         byHash |-> tx.offer.kind = "signHash", status |-> tx.status]}
  /\ preSign' = IF tx.offer.kind = "sign" /\ tx.status = "Success"
                THEN [preSign EXCEPT ![d][m].signed = @ + Len(tx.offer.list)]
                ELSE preSign

Record ==
  LET tx == Head(unscanned) IN
  /\ unscanned # <<>>
  /\ IF tx.offer.kind = "preSign" THEN RecordPreSign(tx.offer.deal, tx.from, tx)
     ELSE RecordSignature(tx.offer.deal, tx.from, tx)
  /\ unscanned' = Tail(unscanned)
  /\ UNCHANGED <<dealStatus, offers, failed, oracleVars>>

\* The ScanDeal job finds the deal active; the unlock service unlocks it.
DealActivated(d) ==
  /\ dealStatus[d] = "Created"
  /\ dealStatus' = [dealStatus EXCEPT ![d] = "Active"]
  /\ UNCHANGED <<preSign, signature, offers, failed, unscanned, oracleVars>>

Unlocked(d) ==
  /\ d \in GetDeals2Unlock
  /\ dealStatus' = [dealStatus EXCEPT ![d] = "Success"]
  /\ UNCHANGED <<preSign, signature, offers, failed, unscanned, oracleVars>>

MemberStep(m) ==
  AskPreSign(m) \/ AskSignHash(m) \/ AskSign(m) \/ \E o \in offers[m] : Taken(m, o) \/ Reverted(m, o)

DaoNext ==
  \/ \E m \in Members : MemberStep(m)
  \/ Deploy /\ UNCHANGED <<daoRows, offers, failed, unscanned>>
  \/ Record
  \/ \E d \in Keys : DealActivated(d) \/ Unlocked(d)

DaoSpec == DaoInit /\ [][DaoNext]_daoVars

-----------------------------------------------------------------------------
\* However the members split between batches and hashes, and however old what they
\* act on is: all votes for a deal are for the same list, the files of its car, each
\* once and in order, and no other list is published.
VotesAgree ==
  /\ \A v \in userVoted : v[1].list = Ordered[v[1].key]
  /\ \A d \in Keys : cidListMap[d] \in {<<>>, Ordered[d]}

\* GetDeals2Unlock judges by the rows what the contract judges by its votes: it never
\* names a deal whose payment the contract would not unlock.
UnlockIsAvailable == \A d \in GetDeals2Unlock : IsCarPaymentAvailable(d, Recipient)

\* Transactions the contract took that the scanner has before it.
IsPreSign(tx, d, m) ==
  tx.from = m /\ tx.status = "Success" /\ tx.offer.kind = "preSign" /\ tx.offer.deal = d
IsBatch(tx, d, m, i) ==
  /\ tx.from = m /\ tx.status = "Success"
  /\ tx.offer.kind = "sign" /\ tx.offer.deal = d /\ tx.offer.batch = i
Queued == {unscanned[k] : k \in DOMAIN unscanned}
Announcing(d, m) == \E tx \in Queued : IsPreSign(tx, d, m)
Waiting(d, m, i) == \E tx \in Queued : IsBatch(tx, d, m, i)
WaitingBatches(d, m) == {i \in Batches : Waiting(d, m, i)}

\* Batches a call of the member has failed for, as far as the tables know.
FailedBatches(d, m) ==
  {s.batchNo : s \in {t \in SignedBy(d, m) : ~t.byHash /\ t.status = "Failed"}}

\* However late the tables are: once they have a member's announcement, GetDeals2Sign
\* asks for exactly the batches the contract waits for and those the scanner has before
\* it, without the ones a call has failed for (dao.go:49 looks at no status: they are
\* never asked for again).  Until then it asks for none, and if the contract has the
\* announcement, the scanner has it before it.
OpenBatchesAreOffered ==
  \A m \in Members, d \in Keys :
    LET offered == IF d \in GetDeals2Sign(m) THEN OpenBatches(d, m) ELSE {}
    IN  IF preSign[d][m].status = "Success"
        THEN offered = (txInfo[d][m].signStatus \cup WaitingBatches(d, m)) \ FailedBatches(d, m)
        ELSE offered = {} /\ (txInfo[d][m].flag => Announcing(d, m))

-----------------------------------------------------------------------------
(***************************************************************************)
(* A member goes on asking and sending, its calls do not run out of gas    *)
(* every time, and the scanner goes on.                                    *)
(***************************************************************************)
SignsBatch(m) == \E o \in offers[m] : o.kind = "sign" /\ Taken(m, o)

DaoFairness ==
  /\ WF_unscanned(Record)
  /\ \A m \in Members : WF_offers(AskSign(m)) /\ SF_unscanned(SignsBatch(m))

FairDaoSpec == DaoSpec /\ DaoFairness

\* Whoever has announced a deal is told batch after batch until the deal counts it as
\* signed, unless it votes by hash as well (the contract then refuses its last batch
\* for ever) or one of its calls fails (the batch is then never offered again).
AnnouncedAreCounted ==
  <>[](\A m \in Members, d \in Keys :
         preSign[d][m].status = "Success" =>
           FullySigned(d, m) \/ \E s \in SignedBy(d, m) : s.byHash \/ s.status = "Failed")
=============================================================================
