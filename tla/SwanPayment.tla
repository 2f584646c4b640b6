----------------------------- MODULE SwanPayment ----------------------------
(***************************************************************************)
(* on-chain/contracts/SwanPayment.sol with the FilinkConsumer it asks for  *)
(* prices: users lock tokens for files, a car's unlock charges the files   *)
(* of a deal and pays the storage provider, and what is left is refunded   *)
(* after a deadline.  The DAO oracle is an environment here: a list of     *)
(* files and a verdict for each deal, both of which change as it pleases.  *)
(*                                                                         *)
(* A call is one step, and one that reverts or changes nothing is none.    *)
(* The fields that nothing reads (minPayment, recipient, blockNumber) are  *)
(* left out.                                                               *)
(***************************************************************************)
EXTENDS FilinkConsumer, FiniteSetsExt

CONSTANTS
  Ids,          \* WCIDs
  Owners,       \* users who lock tokens
  Recipients,
  LockParams,   \* the lockPaymentParams users send
  Lists,        \* lists of files; without repetitions, as FilswanOracleV2 publishes them
  Worth,        \* Worth[p]: what IPriceFeed.consult may answer for the price p
  Funds,        \* bound: the tokens each user has and has approved
  MaxNow,       \* bound: the clock stops here
  Null

VARIABLES
  now,
  purse,        \* tokens of a user
  balance,      \* tokens of this contract
  txMap,        \* locks of plain transactions
  txCarMap,     \* locks of files
  cidList,      \* FilswanOracle.getCidList
  available,    \* FilswanOracle.isCarPaymentAvailable
  rounded,      \* history: what divisions have rounded off
  leaked        \* history: what unlocks have paid and taken from no lock, or revived

locks == <<purse, balance, txMap, txCarMap, rounded, leaked>>
oracleView == <<cidList, available>>
swanVars == <<now, locks, oracleView, filinkVars>>

LockParam == [id : Ids, amount : Nat, lockTime : Nat, size : Nat, copyLimit : Nat]
TxInfo == [owner : Owners \cup {Null}, deadline : Nat, lockedFee : Nat, exists : BOOLEAN,
           size : Nat, copyLimit : Nat]
NoTx == [owner |-> Null, deadline |-> 0, lockedFee |-> 0, exists |-> FALSE,
         size |-> 0, copyLimit |-> 0]

ASSUME SwanAssumption ==
  /\ IsFiniteSet(Ids) /\ Null \notin Owners
  /\ LockParams \subseteq LockParam
  /\ Lists \subseteq SUBSET Ids /\ {} \in Lists
  /\ Worth \in [Prices -> SUBSET Nat]
  /\ Funds \in Nat /\ MaxNow \in Nat

SwanTypeOK ==
  /\ FilinkTypeOK
  /\ now \in Nat
  /\ purse \in [Owners -> Nat] /\ balance \in Nat
  /\ txMap \in [Ids -> TxInfo] /\ txCarMap \in [Ids -> TxInfo]
  /\ cidList \in [Keys -> Lists] /\ available \subseteq Keys \X Recipients
  /\ rounded \in Nat /\ leaked \in Nat

SwanInit ==
  /\ FilinkInit
  /\ now = 0
  /\ purse = [u \in Owners |-> Funds] /\ balance = 0
  /\ txMap = [id \in Ids |-> NoTx] /\ txCarMap = [id \in Ids |-> NoTx]
  /\ cidList = [k \in Keys |-> {}] /\ available = {}
  /\ rounded = 0 /\ leaked = 0

-----------------------------------------------------------------------------
NewTx(u, p) == [owner |-> u, deadline |-> now + p.lockTime, lockedFee |-> p.amount,
                exists |-> TRUE, size |-> p.size, copyLimit |-> p.copyLimit]

\* Some minPayment is above 0 and below the amount.
LockTokenPayment(u, p) ==
  /\ ~txMap[p.id].exists /\ ~txCarMap[p.id].exists
  /\ p.amount > 1
  /\ purse[u] >= p.amount
  /\ purse' = [purse EXCEPT ![u] = @ - p.amount]
  /\ balance' = balance + p.amount
  /\ IF p.size > 0
     THEN txCarMap' = [txCarMap EXCEPT ![p.id] = NewTx(u, p)] /\ UNCHANGED txMap
     ELSE txMap' = [txMap EXCEPT ![p.id] = [NewTx(u, p) EXCEPT !.size = txMap[p.id].size]]
          /\ UNCHANGED txCarMap
  /\ UNCHANGED <<now, oracleView, filinkVars, rounded, leaked>>

\* After the deadline, by the owner; before, nothing happens.
UnlockTokenPayment(id) ==
  LET t == txMap[id]
  IN  /\ t.exists /\ now > t.deadline
      /\ balance >= t.lockedFee
      /\ txMap' = [txMap EXCEPT ![id] = [t EXCEPT !.exists = FALSE, !.lockedFee = 0]]
      /\ purse' = [purse EXCEPT ![t.owner] = @ + t.lockedFee]
      /\ balance' = balance - t.lockedFee
      /\ UNCHANGED <<now, txCarMap, oracleView, filinkVars, rounded, leaked>>

Size(files) == SumFunctionOnSet([id \in Ids |-> txCarMap[id].size], files)
Fees(files) == SumFunctionOnSet([id \in Ids |-> txCarMap[id].lockedFee], files)

\* Mutant: not by size.
Charge_PerFile(t, unitPrice) ==
  LET left == IF t.lockedFee < unitPrice THEN 0 ELSE t.lockedFee - unitPrice
  IN  [t EXCEPT !.lockedFee = left, !.copyLimit = @ - 1, !.exists = left > 0]

\* Mutant: the copy is not used up.
Charge_KeepsCopy(t, unitPrice) ==
  LET cost == unitPrice * t.size
      left == IF t.lockedFee < cost THEN 0 ELSE t.lockedFee - cost
  IN  [t EXCEPT !.lockedFee = left, !.exists = left > 0]

\* Mutant: an unchecked subtraction.
Charge_Unchecked(t, unitPrice) ==
  LET left == t.lockedFee - unitPrice * t.size
  IN  [t EXCEPT !.lockedFee = left, !.copyLimit = @ - 1, !.exists = left > 0]

Charge(t, unitPrice) ==
  LET cost == unitPrice * t.size
      left == IF t.lockedFee < cost THEN 0 ELSE t.lockedFee - cost
  IN  [t EXCEPT !.lockedFee = left, !.copyLimit = @ - 1, !.exists = left > 0]

\* A file's share of the cost that is paid without being taken from its lock: nobody
\* has ordered one more copy, or too little is locked.  Or what a charge leaves of a
\* lock that was paid back, which exists again.
Leak(t, unitPrice) ==
  LET cost == unitPrice * t.size
  IN  CASE t.exists /\ t.copyLimit = 0  -> cost
        [] t.exists /\ t.copyLimit > 0  -> IF t.lockedFee < cost THEN cost - t.lockedFee ELSE 0
        [] ~t.exists /\ t.copyLimit > 0 -> IF t.lockedFee > cost THEN t.lockedFee - cost ELSE 0
        [] OTHER -> 0

\* The files with a lock share the cost by size; those with a copy left are charged.
\* (The contract imports FilswanOracle, whose lists nobody checks for repetitions;
\* here a list is one of FilswanOracleV2, which has none.)
UnlockCarPayment(k, recipient) ==
  LET counted == {id \in cidList[k] : txCarMap[id].exists}
      charged == {id \in cidList[k] : txCarMap[id].copyLimit > 0}
  IN  /\ <<k, recipient>> \in available
      /\ GetPrice(k) > 0
      /\ Size(counted) > 0
      /\ \E tokenAmount \in Worth[GetPrice(k)] :
           LET unitPrice == tokenAmount \div Size(counted)
               leaks == [id \in Ids |-> Leak(txCarMap[id], unitPrice)]
           IN  /\ balance >= tokenAmount
               /\ txCarMap' = [id \in Ids |-> IF id \in charged
                                              THEN Charge(txCarMap[id], unitPrice)
                                              ELSE txCarMap[id]]
               /\ balance' = balance - tokenAmount
               /\ rounded' = rounded + (tokenAmount % Size(counted))
               /\ leaked' = leaked + SumFunctionOnSet(leaks, cidList[k])
      /\ UNCHANGED <<now, purse, txMap, oracleView, filinkVars>>

\* Expired locks go back to their owners.  The record keeps its lockedFee.
Refund(ids) ==
  LET due == {id \in ids : txCarMap[id].exists /\ now > txCarMap[id].deadline}
  IN  /\ due # {}
      /\ balance >= Fees(due)
      /\ txCarMap' = [id \in Ids |-> IF id \in due THEN [txCarMap[id] EXCEPT !.exists = FALSE]
                                     ELSE txCarMap[id]]
      /\ balance' = balance - Fees(due)
      /\ purse' = [u \in Owners |-> purse[u] + Fees({id \in due : txCarMap[id].owner = u})]
      /\ UNCHANGED <<now, txMap, oracleView, filinkVars, rounded, leaked>>

\* The DAO oracle publishes a list; votes and thresholds change its verdicts.
OracleDecides ==
  /\ \E k \in Keys, list \in Lists : cidList' = [cidList EXCEPT ![k] = list]
  /\ available' \in SUBSET (Keys \X Recipients)
  /\ UNCHANGED <<now, locks, filinkVars>>

SwanNext ==
  \/ \E u \in Owners, p \in LockParams : LockTokenPayment(u, p)
  \/ \E id \in Ids : UnlockTokenPayment(id)
  \/ \E k \in Keys, r \in Recipients : UnlockCarPayment(k, r)
  \/ \E ids \in SUBSET Ids : Refund(ids)
  \/ OracleDecides
  \/ FilinkNext /\ UNCHANGED <<now, locks, oracleView>>
  \/ now < MaxNow /\ now' = now + 1 /\ UNCHANGED <<locks, oracleView, filinkVars>>

SwanSpec == SwanInit /\ [][SwanNext]_swanVars

-----------------------------------------------------------------------------
Claim(t) == IF t.exists THEN t.lockedFee ELSE 0
Claims == SumFunctionOnSet([id \in Ids |-> Claim(txMap[id]) + Claim(txCarMap[id])], Ids)

\* Over all locks, unlocks, refunds, prices and verdicts: what the contract lacks to
\* pay back every lock is what its divisions have rounded off and what unlocks have
\* leaked (file by file: a copy nobody has left, a lock too small, a refunded lock that
\* exists again), and nothing else.
CoversItsLocks == balance + rounded + leaked = Claims

\* What a lock loses goes to its owner after its deadline, or is taken in an unlock of a
\* deal that the DAO has found to store the file: that uses up one of its copies, and the
\* recipient is paid at least as much.  (Not the other way round: an unlock also pays
\* for files it cannot charge, and brings refunded locks back; see leaked.)
LocksAreUsedUp ==
  [][\A id \in Ids :
       /\ Claim(txMap'[id]) < Claim(txMap[id]) =>
            /\ now > txMap[id].deadline /\ Claim(txMap'[id]) = 0
            /\ purse'[txMap[id].owner] = purse[txMap[id].owner] + txMap[id].lockedFee
       /\ Claim(txCarMap'[id]) < Claim(txCarMap[id]) =>
            LET t == txCarMap[id]
            IN  \/ /\ now > t.deadline /\ Claim(txCarMap'[id]) = 0
                   /\ purse'[t.owner] >= purse[t.owner] + t.lockedFee
                \/ /\ txCarMap'[id].copyLimit = t.copyLimit - 1
                   /\ \E k \in Keys, r \in Recipients : id \in cidList[k] /\ <<k, r>> \in available
                   /\ balance - balance' >= Claim(t) - Claim(txCarMap'[id])]_swanVars
=============================================================================
