------------------------- MODULE SwanPayment_proofs -------------------------
(***************************************************************************)
(* SwanPayment can pay back what it locks, and what is locked leaves it    *)
(* only as it should, for any number of users, files, deals and prices.    *)
(***************************************************************************)
EXTENDS SwanPayment, FoldTheorems

\* A price that the contract reads is one that the adapter may have answered.
PricesAreAnswers == \A k \in Keys : GetPrice(k) \in Prices \cup {0}

\* A lock belongs to a user, and a file's also when it is refunded: a later charge
\* may bring it back.
LocksHaveOwners ==
  \A id \in Ids : /\ txMap[id].exists => txMap[id].owner \in Owners
                  /\ txCarMap[id].exists \/ txCarMap[id].lockedFee > 0
                       => txCarMap[id].owner \in Owners

SwanInv ==
  /\ SwanTypeOK
  /\ PricesAreAnswers
  /\ LocksHaveOwners
  /\ CoversItsLocks

USE FilinkAssumption, SwanAssumption

-----------------------------------------------------------------------------
\* The sizes, the fees and the claims of files, as functions.
Sizes == [id \in Ids |-> txCarMap[id].size]
LockedFees == [id \in Ids |-> txCarMap[id].lockedFee]
ClaimOf == [id \in Ids |-> Claim(txMap[id]) + Claim(txCarMap[id])]

\* What they are worth: natural numbers, and their sums are what the contract adds up.
LEMMA Totals ==
  ASSUME SwanTypeOK, NEW files \in SUBSET Ids
  PROVE  /\ IsFiniteSet(files)
         /\ \A id \in Ids : Sizes[id] \in Nat /\ LockedFees[id] \in Nat /\ ClaimOf[id] \in Nat
         /\ Size(files) = SumFunctionOnSet(Sizes, files) /\ Size(files) \in Nat
         /\ Fees(files) = SumFunctionOnSet(LockedFees, files) /\ Fees(files) \in Nat
         /\ Claims = SumFunctionOnSet(ClaimOf, Ids) /\ Claims \in Nat
<1>1. IsFiniteSet(files)
  BY FS_Subset
<1>2. \A id \in Ids : Sizes[id] \in Nat /\ LockedFees[id] \in Nat /\ ClaimOf[id] \in Nat
  BY DEF SwanTypeOK, TxInfo, Sizes, LockedFees, ClaimOf, Claim
<1>3. /\ Size(files) = SumFunctionOnSet(Sizes, files)
      /\ Fees(files) = SumFunctionOnSet(LockedFees, files)
      /\ Claims = SumFunctionOnSet(ClaimOf, Ids)
  BY DEF Size, Fees, Claims, Sizes, LockedFees, ClaimOf
<1>4. SumFunctionOnSet(Sizes, files) \in Nat
  BY <1>1, <1>2, SumNat
<1>5. SumFunctionOnSet(LockedFees, files) \in Nat
  BY <1>1, <1>2, SumNat
<1>6. SumFunctionOnSet(ClaimOf, Ids) \in Nat
  BY <1>2, SumNat
<1> QED
  BY <1>1, <1>2, <1>3, <1>4, <1>5, <1>6

\* Nothing is locked at first.
LEMMA SwanInitInv == SwanInit => SwanInv
<1> SUFFICES ASSUME SwanInit PROVE SwanInv
  OBVIOUS
<1>1. NoTx \in TxInfo
  BY DEF NoTx, TxInfo
<1>2. SwanTypeOK
  BY <1>1 DEF SwanInit, SwanTypeOK, FilinkInit, FilinkTypeOK, Keys
<1>3. PricesAreAnswers
  BY DEF SwanInit, FilinkInit, PricesAreAnswers, GetPrice
<1>4. LocksHaveOwners
  BY DEF SwanInit, LocksHaveOwners, NoTx
<1>5. CoversItsLocks
  <2>1. \A id \in Ids : ClaimOf[id] = 0
    BY DEF SwanInit, ClaimOf, Claim, NoTx
  <2>2. SumFunctionOnSet(ClaimOf, Ids) = 0
    BY <2>1, SumZero
  <2>3. Claims = 0
    BY <2>2 DEF Claims, ClaimOf
  <2> QED
    BY <2>3 DEF SwanInit, CoversItsLocks
<1> QED
  BY <1>2, <1>3, <1>4, <1>5 DEF SwanInv

-----------------------------------------------------------------------------
\* Locking: the contract gains what the new lock claims.
LEMMA LockInv ==
  ASSUME SwanInv, NEW u \in Owners, NEW p \in LockParams, LockTokenPayment(u, p)
  PROVE  SwanInv'
<1>1. /\ p.id \in Ids /\ p.amount \in Nat /\ p.lockTime \in Nat /\ p.size \in Nat
      /\ p.copyLimit \in Nat
  BY DEF LockParam
<1>2. /\ SwanTypeOK /\ now \in Nat /\ balance \in Nat /\ purse \in [Owners -> Nat]
      /\ txMap \in [Ids -> TxInfo] /\ txCarMap \in [Ids -> TxInfo]
  BY DEF SwanInv, SwanTypeOK
<1>3. NewTx(u, p) \in TxInfo /\ [NewTx(u, p) EXCEPT !.size = txMap[p.id].size] \in TxInfo
  <2>1. NewTx(u, p) \in TxInfo
    BY <1>1, <1>2 DEF NewTx, TxInfo
  <2>2. txMap[p.id].size \in Nat
    BY <1>1, <1>2 DEF TxInfo
  <2> QED
    BY <2>1, <2>2 DEF TxInfo
<1>4. /\ NewTx(u, p).owner = u /\ NewTx(u, p).exists /\ NewTx(u, p).lockedFee = p.amount
      /\ [NewTx(u, p) EXCEPT !.size = txMap[p.id].size].owner = u
      /\ [NewTx(u, p) EXCEPT !.size = txMap[p.id].size].exists
      /\ [NewTx(u, p) EXCEPT !.size = txMap[p.id].size].lockedFee = p.amount
  BY DEF NewTx
<1>5. txMap' \in [Ids -> TxInfo] /\ txCarMap' \in [Ids -> TxInfo]
  BY <1>2, <1>3 DEF LockTokenPayment
<1>6. balance' = balance + p.amount /\ balance' \in Nat
  BY <1>1, <1>2 DEF LockTokenPayment
<1>7. purse' \in [Owners -> Nat]
  BY <1>1, <1>2 DEF LockTokenPayment
<1>8. SwanTypeOK'
  BY <1>5, <1>6, <1>7 DEF SwanInv, SwanTypeOK, LockTokenPayment, oracleView, filinkVars, FilinkTypeOK
<1>9. LocksHaveOwners'
  BY <1>1, <1>2, <1>4 DEF SwanInv, LocksHaveOwners, LockTokenPayment
<1>10. PricesAreAnswers'
  BY DEF SwanInv, PricesAreAnswers, LockTokenPayment, filinkVars, GetPrice
<1>11. CoversItsLocks'
  <2>1. ClaimOf[p.id] = 0
    BY <1>1 DEF LockTokenPayment, ClaimOf, Claim
  <2>2. ClaimOf'[p.id] = p.amount
    <3>1. ~txMap[p.id].exists /\ ~txCarMap[p.id].exists
      BY DEF LockTokenPayment
    <3>2. ClaimOf'[p.id] = Claim(txMap'[p.id]) + Claim(txCarMap'[p.id])
      BY <1>1 DEF ClaimOf
    <3>3. CASE p.size > 0
      <4>1. txCarMap'[p.id] = NewTx(u, p) /\ txMap'[p.id] = txMap[p.id]
        BY <1>1, <1>2, <3>3 DEF LockTokenPayment
      <4> QED
        BY <1>1, <1>4, <3>1, <3>2, <4>1 DEF Claim
    <3>4. CASE ~(p.size > 0)
      <4> DEFINE n == [NewTx(u, p) EXCEPT !.size = txMap[p.id].size]
      <4>1. txMap'[p.id] = n /\ txCarMap'[p.id] = txCarMap[p.id]
        BY <1>1, <1>2, <3>4 DEF LockTokenPayment
      <4>2. n.exists /\ n.lockedFee = p.amount
        BY <1>4
      <4> HIDE DEF n
      <4> QED
        BY <1>1, <3>1, <3>2, <4>1, <4>2 DEF Claim
    <3> QED
      BY <3>3, <3>4
  <2>3. \A id \in Ids \ {p.id} : ClaimOf'[id] = ClaimOf[id]
    BY <1>1, <1>2 DEF LockTokenPayment, ClaimOf
  <2>4. \A id \in Ids : ClaimOf[id] \in Int
    BY <1>2, Totals
  <2>5. SumFunctionOnSet(ClaimOf', Ids) = SumFunctionOnSet(ClaimOf, Ids) - ClaimOf[p.id] + ClaimOf'[p.id]
    BY <1>1, <2>2, <2>3, <2>4, SumChange
  <2>6. Claims = SumFunctionOnSet(ClaimOf, Ids) /\ Claims \in Nat
    BY <1>2, Totals
  <2>7. Claims' = SumFunctionOnSet(ClaimOf', Ids)
    BY DEF Claims, ClaimOf
  <2>8. Claims' = Claims + p.amount
    BY <1>1, <2>1, <2>2, <2>5, <2>6, <2>7
  <2> HIDE DEF Claims
  <2>9. rounded \in Nat /\ leaked \in Nat /\ rounded' = rounded /\ leaked' = leaked
    BY DEF SwanInv, SwanTypeOK, LockTokenPayment
  <2> QED
    BY <1>1, <1>2, <1>6, <2>6, <2>8, <2>9 DEF SwanInv, CoversItsLocks
<1> QED
  BY <1>8, <1>9, <1>10, <1>11 DEF SwanInv

\* Unlocking a transaction: its owner gets what it claims.
LEMMA UnlockTokenInv ==
  ASSUME SwanInv, NEW id \in Ids, UnlockTokenPayment(id)
  PROVE  SwanInv'
<1> DEFINE t == txMap[id]
           n == [t EXCEPT !.exists = FALSE, !.lockedFee = 0]
<1>1. /\ SwanTypeOK /\ balance \in Nat /\ purse \in [Owners -> Nat]
      /\ txMap \in [Ids -> TxInfo] /\ txCarMap \in [Ids -> TxInfo] /\ t \in TxInfo
  BY DEF SwanInv, SwanTypeOK
<1>2. t.lockedFee \in Nat /\ t.exists /\ balance >= t.lockedFee
  BY <1>1 DEF TxInfo, UnlockTokenPayment
<1>3. n \in TxInfo /\ ~n.exists
  BY <1>1 DEF TxInfo
<1>4. txMap' = [txMap EXCEPT ![id] = n] /\ txCarMap' = txCarMap /\ balance' = balance - t.lockedFee
  BY DEF UnlockTokenPayment
<1>5. purse' = [purse EXCEPT ![t.owner] = @ + t.lockedFee]
  BY DEF UnlockTokenPayment
<1>6. UNCHANGED <<now, oracleView, filinkVars, rounded, leaked>>
  BY DEF UnlockTokenPayment
<1> HIDE DEF n, t
<1>7. SwanTypeOK'
  <2>1. txMap' \in [Ids -> TxInfo] /\ balance' \in Nat /\ purse' \in [Owners -> Nat]
    <3>1. purse' \in [Owners -> Nat]
      <4>1. \A u \in Owners : purse[u] \in Nat /\ purse[u] + t.lockedFee \in Nat
        BY <1>1, <1>2
      <4> QED
        BY <1>1, <1>5, <4>1
    <3> QED
      BY <1>1, <1>2, <1>3, <1>4, <3>1
  <2> QED
    BY <2>1, <1>4, <1>6 DEF SwanInv, SwanTypeOK, oracleView, filinkVars, FilinkTypeOK
<1>8. LocksHaveOwners'
  BY <1>1, <1>3, <1>4 DEF SwanInv, LocksHaveOwners
<1>9. PricesAreAnswers'
  BY <1>6 DEF SwanInv, PricesAreAnswers, filinkVars, GetPrice
<1>10. CoversItsLocks'
  <2>1. /\ \A x \in Ids : ClaimOf[x] \in Nat
        /\ Claims = SumFunctionOnSet(ClaimOf, Ids) /\ Claims \in Nat
    BY <1>1, Totals
  <2>2. \A x \in Ids \ {id} : ClaimOf'[x] = ClaimOf[x]
    BY <1>1, <1>4 DEF ClaimOf
  <2>3. ClaimOf[id] = t.lockedFee + Claim(txCarMap[id])
    BY <1>2 DEF ClaimOf, Claim, t
  <2>4. ClaimOf'[id] = 0 + Claim(txCarMap[id])
    BY <1>1, <1>3, <1>4 DEF ClaimOf, Claim
  <2>5. Claim(txCarMap[id]) \in Nat
    BY <1>1 DEF Claim, TxInfo
  <2>6. SumFunctionOnSet(ClaimOf', Ids) = SumFunctionOnSet(ClaimOf, Ids) - ClaimOf[id] + ClaimOf'[id]
    <3>1. ClaimOf'[id] \in Int /\ \A x \in Ids : ClaimOf[x] \in Int
      BY <2>1, <2>4, <2>5
    <3> QED
      BY <3>1, <2>2, SumChange
  <2>7. Claims' = SumFunctionOnSet(ClaimOf', Ids)
    BY DEF Claims, ClaimOf
  <2>8. Claims' = Claims - t.lockedFee
    BY <1>2, <2>1, <2>3, <2>4, <2>5, <2>6, <2>7
  <2> HIDE DEF Claims
  <2>9. rounded \in Nat /\ leaked \in Nat /\ rounded' = rounded /\ leaked' = leaked
    BY <1>6 DEF SwanInv, SwanTypeOK
  <2> QED
    BY <1>1, <1>2, <1>4, <2>1, <2>8, <2>9 DEF SwanInv, CoversItsLocks
<1> QED
  BY <1>7, <1>8, <1>9, <1>10 DEF SwanInv

\* What charging a lock leaves of it.
LEMMA ChargeLeaves ==
  ASSUME NEW t \in TxInfo, t.copyLimit > 0, NEW unitPrice \in Nat
  PROVE  /\ Charge(t, unitPrice) \in TxInfo
         /\ Charge(t, unitPrice).owner = t.owner
         /\ Charge(t, unitPrice).copyLimit = t.copyLimit - 1
         /\ Charge(t, unitPrice).exists => Charge(t, unitPrice).lockedFee > 0
         /\ Claim(Charge(t, unitPrice)) = Charge(t, unitPrice).lockedFee
         /\ unitPrice * t.size \in Nat
         /\ Charge(t, unitPrice).lockedFee + unitPrice * t.size >= t.lockedFee
         /\ t.lockedFee >= unitPrice * t.size =>
              Charge(t, unitPrice).lockedFee = t.lockedFee - unitPrice * t.size
         /\ Charge(t, unitPrice).exists => t.lockedFee > 0
<1> DEFINE cost == unitPrice * t.size
           left == IF t.lockedFee < cost THEN 0 ELSE t.lockedFee - cost
           n == [t EXCEPT !.lockedFee = left, !.copyLimit = @ - 1, !.exists = left > 0]
<1>1. /\ t.size \in Nat /\ t.lockedFee \in Nat /\ t.copyLimit \in Nat /\ t.deadline \in Nat
      /\ t.owner \in Owners \cup {Null}
  BY DEF TxInfo
<1>2. cost \in Nat
  BY <1>1
<1>3. Charge(t, unitPrice) = n
  BY DEF Charge
<1> HIDE DEF cost
<1>4. left \in Nat /\ left + cost >= t.lockedFee /\ t.copyLimit - 1 \in Nat
  BY <1>1, <1>2
<1>5. t.lockedFee >= cost => left = t.lockedFee - cost
  BY <1>1, <1>2
<1>6. left > 0 => t.lockedFee > 0
  BY <1>1, <1>2
<1> HIDE DEF left
<1>7. PICK b \in BOOLEAN : b = (left > 0)
  <2>1. CASE left > 0
    <3>1. TRUE \in BOOLEAN /\ TRUE = (left > 0)
      BY <2>1
    <3> QED
      BY <3>1
  <2>2. CASE ~(left > 0)
    <3>1. FALSE \in BOOLEAN /\ FALSE = (left > 0)
      BY <2>2
    <3> QED
      BY <3>1
  <2> QED
    BY <2>1, <2>2
<1> DEFINE m == [t EXCEPT !.lockedFee = left, !.copyLimit = @ - 1, !.exists = b]
<1>8. n = m
  BY <1>7
<1>9. /\ m.owner = t.owner /\ m.copyLimit = t.copyLimit - 1 /\ m.exists = b /\ m.lockedFee = left
      /\ m \in TxInfo
  BY <1>1, <1>4 DEF TxInfo
<1> HIDE DEF n, m
<1>10. m.exists <=> left > 0
  BY <1>7, <1>9
<1>11. Claim(m) = left
  BY <1>4, <1>9, <1>10 DEF Claim
<1> QED
  BY <1>2, <1>3, <1>4, <1>5, <1>6, <1>8, <1>9, <1>10, <1>11 DEF cost

\* What a lock claims after an unlock: what it did, less its share of the cost if it
\* was counted, plus what leaks.
LEMMA LeakFills ==
  ASSUME NEW t \in TxInfo, NEW unitPrice \in Nat, NEW n,
         n = IF t.copyLimit > 0 THEN Charge(t, unitPrice) ELSE t
  PROVE  /\ Leak(t, unitPrice) \in Nat /\ unitPrice * t.size \in Nat
         /\ t.exists => Claim(n) = Claim(t) + Leak(t, unitPrice) - unitPrice * t.size
         /\ ~t.exists => Claim(n) = Claim(t) + Leak(t, unitPrice)
<1> DEFINE cost == unitPrice * t.size
           left == IF t.lockedFee < cost THEN 0 ELSE t.lockedFee - cost
<1>1. /\ t.size \in Nat /\ t.lockedFee \in Nat /\ t.copyLimit \in Nat /\ t.exists \in BOOLEAN
  BY DEF TxInfo
<1>2. cost \in Nat
  BY <1>1
<1>3. t.copyLimit > 0 => Claim(n) = Charge(t, unitPrice).lockedFee
  BY ChargeLeaves
<1>4. Charge(t, unitPrice).lockedFee = left
  BY DEF Charge, TxInfo
<1>5. t.copyLimit = 0 => n = t
  BY <1>1
<1> DEFINE leak == Leak(t, unitPrice)
<1>6. leak = CASE t.exists /\ t.copyLimit = 0  -> cost
               [] t.exists /\ t.copyLimit > 0  -> IF t.lockedFee < cost THEN cost - t.lockedFee ELSE 0
               [] ~t.exists /\ t.copyLimit > 0 -> IF t.lockedFee > cost THEN t.lockedFee - cost ELSE 0
               [] OTHER -> 0
  BY DEF Leak
<1> HIDE DEF cost, leak
<1>7. CASE t.exists
  <2>1. CASE t.copyLimit = 0
    <3>1. leak = cost
      BY <1>6, <1>7, <2>1
    <3>2. Claim(n) = t.lockedFee /\ Claim(t) = t.lockedFee
      BY <1>5, <1>7, <2>1 DEF Claim
    <3> QED
      BY <1>1, <1>2, <1>7, <3>1, <3>2 DEF cost, leak
  <2>2. CASE t.copyLimit > 0
    <3>1. leak = IF t.lockedFee < cost THEN cost - t.lockedFee ELSE 0
      BY <1>6, <1>7, <2>2
    <3>2. Claim(n) = left /\ Claim(t) = t.lockedFee
      BY <1>3, <1>4, <1>7, <2>2 DEF Claim
    <3>3. leak \in Nat /\ Claim(n) = Claim(t) + leak - cost
      BY <1>1, <1>2, <3>1, <3>2
    <3> QED
      BY <1>2, <1>7, <3>3 DEF cost, leak
  <2> QED
    BY <1>1, <2>1, <2>2
<1>8. CASE ~t.exists
  <2>1. CASE t.copyLimit = 0
    <3>1. leak = 0
      BY <1>6, <1>8, <2>1
    <3>2. Claim(n) = 0 /\ Claim(t) = 0
      BY <1>5, <1>8, <2>1 DEF Claim
    <3> QED
      BY <1>1, <1>2, <1>8, <3>1, <3>2 DEF cost, leak
  <2>2. CASE t.copyLimit > 0
    <3>1. leak = IF t.lockedFee > cost THEN t.lockedFee - cost ELSE 0
      BY <1>6, <1>8, <2>2
    <3>2. Claim(n) = left /\ Claim(t) = 0
      BY <1>3, <1>4, <1>8, <2>2 DEF Claim
    <3>3. leak \in Nat /\ Claim(n) = Claim(t) + leak
      BY <1>1, <1>2, <3>1, <3>2
    <3> QED
      BY <1>2, <1>8, <3>3 DEF cost, leak
  <2> QED
    BY <1>1, <2>1, <2>2
<1> QED
  BY <1>7, <1>8

\* Division splits what is paid into what is charged and what is rounded off.
LEMMA DivideUp ==
  ASSUME NEW a \in Nat, NEW b \in Nat, b > 0
  PROVE  a = b * (a \div b) + (a % b) /\ a \div b \in Nat /\ (a % b) \in Nat
OBVIOUS

\* The same unit price for more bytes is not less.
LEMMA MoreBytesCostMore ==
  ASSUME NEW u \in Nat, NEW m \in Nat, NEW n \in Nat, m =< n
  PROVE  u * m =< u * n /\ u * m \in Nat /\ u * n \in Nat
OBVIOUS

\* What an unlock of a deal's files counts and charges, and what one of them pays.
Counted(k) == {id \in cidList[k] : txCarMap[id].exists}
Charged(k) == {id \in cidList[k] : txCarMap[id].copyLimit > 0}

\* What leaks at each file, and what a lock would claim if nothing were paid.
LeakOf(unitPrice) == [id \in Ids |-> Leak(txCarMap[id], unitPrice)]
FilledUp(unitPrice, list) ==
  [id \in Ids |-> IF id \in list THEN ClaimOf[id] + LeakOf(unitPrice)[id] ELSE ClaimOf[id]]

\* The unlock of a deal, taken apart: the unit price and what it does to each file.
LEMMA UnlockCarStep ==
  ASSUME SwanInv, NEW k \in Keys, NEW r \in Recipients, UnlockCarPayment(k, r)
  PROVE  \E tokenAmount \in Nat, unitPrice \in Nat :
           /\ Counted(k) \subseteq Ids /\ Charged(k) \subseteq Ids
           /\ Size(Counted(k)) \in Nat
           /\ tokenAmount = Size(Counted(k)) * unitPrice + (tokenAmount % Size(Counted(k)))
           /\ (tokenAmount % Size(Counted(k))) \in Nat
           /\ balance >= tokenAmount /\ balance' = balance - tokenAmount
           /\ rounded' = rounded + (tokenAmount % Size(Counted(k)))
           /\ txCarMap' \in [Ids -> TxInfo]
           /\ \A id \in Ids \ Charged(k) : txCarMap'[id] = txCarMap[id]
           /\ \A id \in Charged(k) : txCarMap'[id] = Charge(txCarMap[id], unitPrice)
           /\ leaked' = leaked + SumFunctionOnSet(LeakOf(unitPrice), cidList[k])
<1>1. /\ cidList[k] \in SUBSET Ids /\ txCarMap \in [Ids -> TxInfo] /\ SwanTypeOK
  BY DEF SwanInv, SwanTypeOK
<1>2. Counted(k) \subseteq Ids /\ Charged(k) \subseteq Ids
  BY <1>1 DEF Counted, Charged
<1>3. Size(Counted(k)) \in Nat /\ Size(Counted(k)) > 0
  <2>1. Size(Counted(k)) > 0
    BY DEF UnlockCarPayment, Counted
  <2> QED
    BY <1>1, <1>2, <2>1, Totals
<1>4. GetPrice(k) \in Prices
  <2>1. GetPrice(k) \in Prices \cup {0} /\ GetPrice(k) > 0
    BY DEF SwanInv, PricesAreAnswers, UnlockCarPayment
  <2> QED
    BY <2>1
<1>5. PICK tokenAmount \in Worth[GetPrice(k)] :
        LET unitPrice == tokenAmount \div Size(Counted(k))
        IN  /\ balance >= tokenAmount
            /\ txCarMap' = [id \in Ids |-> IF id \in Charged(k)
                                           THEN Charge(txCarMap[id], unitPrice)
                                           ELSE txCarMap[id]]
            /\ balance' = balance - tokenAmount
            /\ rounded' = rounded + (tokenAmount % Size(Counted(k)))
            /\ leaked' = leaked + SumFunctionOnSet(LeakOf(unitPrice), cidList[k])
  BY DEF UnlockCarPayment, Counted, Charged, LeakOf
<1>6. tokenAmount \in Nat
  BY <1>4, <1>5
<1> DEFINE unitPrice == tokenAmount \div Size(Counted(k))
           rest == tokenAmount % Size(Counted(k))
<1>7. /\ tokenAmount = Size(Counted(k)) * unitPrice + rest
      /\ unitPrice \in Nat /\ rest \in Nat
  BY <1>3, <1>6, DivideUp
<1>8. /\ balance >= tokenAmount /\ balance' = balance - tokenAmount /\ rounded' = rounded + rest
      /\ txCarMap' = [id \in Ids |-> IF id \in Charged(k) THEN Charge(txCarMap[id], unitPrice)
                                     ELSE txCarMap[id]]
      /\ leaked' = leaked + SumFunctionOnSet(LeakOf(unitPrice), cidList[k])
  BY <1>5
<1> HIDE DEF unitPrice
<1>9. ASSUME NEW id \in Charged(k) PROVE Charge(txCarMap[id], unitPrice) \in TxInfo
  <2>1. txCarMap[id] \in TxInfo /\ txCarMap[id].copyLimit > 0
    BY <1>1, <1>2 DEF Charged
  <2> QED
    BY <1>7, <2>1, ChargeLeaves
<1>10. txCarMap' \in [Ids -> TxInfo]
  BY <1>1, <1>8, <1>9
<1>11. /\ \A id \in Ids \ Charged(k) : txCarMap'[id] = txCarMap[id]
       /\ \A id \in Charged(k) : txCarMap'[id] = Charge(txCarMap[id], unitPrice)
  BY <1>2, <1>8
<1> HIDE DEF rest
<1> QED
  BY <1>2, <1>3, <1>6, <1>7, <1>8, <1>10, <1>11 DEF rest

\* Unlocking a deal's files: what the locks lose is what is paid, but for the rest of
\* the division and for what leaks.
LEMMA UnlockCarInv ==
  ASSUME SwanInv, NEW k \in Keys, NEW r \in Recipients, UnlockCarPayment(k, r)
  PROVE  SwanInv'
<1>1. PICK tokenAmount \in Nat, unitPrice \in Nat :
           /\ Counted(k) \subseteq Ids /\ Charged(k) \subseteq Ids
           /\ Size(Counted(k)) \in Nat
           /\ tokenAmount = Size(Counted(k)) * unitPrice + (tokenAmount % Size(Counted(k)))
           /\ (tokenAmount % Size(Counted(k))) \in Nat
           /\ balance >= tokenAmount /\ balance' = balance - tokenAmount
           /\ rounded' = rounded + (tokenAmount % Size(Counted(k)))
           /\ txCarMap' \in [Ids -> TxInfo]
           /\ \A id \in Ids \ Charged(k) : txCarMap'[id] = txCarMap[id]
           /\ \A id \in Charged(k) : txCarMap'[id] = Charge(txCarMap[id], unitPrice)
           /\ leaked' = leaked + SumFunctionOnSet(LeakOf(unitPrice), cidList[k])
  BY UnlockCarStep
<1> DEFINE rest == tokenAmount % Size(Counted(k))
<1>2. rest \in Nat /\ rounded' = rounded + rest /\ tokenAmount = Size(Counted(k)) * unitPrice + rest
  BY <1>1
<1> HIDE DEF rest
<1>3. UNCHANGED <<now, purse, txMap, oracleView, filinkVars>> /\ cidList[k] \in SUBSET Ids
  BY DEF UnlockCarPayment, SwanInv, SwanTypeOK
<1>4. /\ SwanTypeOK /\ balance \in Nat /\ rounded \in Nat /\ leaked \in Nat
      /\ txMap \in [Ids -> TxInfo] /\ txCarMap \in [Ids -> TxInfo]
  BY DEF SwanInv, SwanTypeOK
<1> DEFINE gone == SumFunctionOnSet(LeakOf(unitPrice), cidList[k])
<1>10. ASSUME NEW id \in Ids
       PROVE  /\ LeakOf(unitPrice)[id] \in Nat /\ unitPrice * Sizes[id] \in Nat
              /\ id \in cidList[k] => FilledUp(unitPrice, cidList[k])[id] =
                                          ClaimOf[id] + LeakOf(unitPrice)[id]
              /\ id \notin cidList[k] => FilledUp(unitPrice, cidList[k])[id] = ClaimOf[id]
  <2>1. txCarMap[id] \in TxInfo /\ Sizes[id] = txCarMap[id].size
    BY <1>4 DEF Sizes
  <2>2. Leak(txCarMap[id], unitPrice) \in Nat /\ unitPrice * txCarMap[id].size \in Nat
    BY <1>1, <2>1, LeakFills
  <2> QED
    BY <2>1, <2>2 DEF LeakOf, FilledUp
<1>11. gone \in Nat /\ leaked' = leaked + gone /\ IsFiniteSet(cidList[k])
  <2>1. IsFiniteSet(cidList[k])
    BY <1>3, FS_Subset
  <2>2. \A id \in cidList[k] : LeakOf(unitPrice)[id] \in Nat
    BY <1>3, <1>10
  <2> QED
    BY <1>1, <2>1, <2>2, SumNat
<1> HIDE DEF gone
<1>5. SwanTypeOK'
  <2>1. balance' \in Nat /\ rounded' \in Nat /\ leaked' \in Nat
    BY <1>1, <1>2, <1>4, <1>11
  <2> QED
    BY <1>1, <1>3, <2>1 DEF SwanInv, SwanTypeOK, oracleView, filinkVars, FilinkTypeOK
<1>6. PricesAreAnswers'
  BY <1>3 DEF SwanInv, PricesAreAnswers, filinkVars, GetPrice
<1>7. ASSUME NEW id \in Charged(k)
      PROVE  /\ id \in Ids /\ txCarMap[id] \in TxInfo /\ txCarMap[id].copyLimit > 0
             /\ txCarMap[id].lockedFee \in Nat /\ txCarMap[id].size \in Nat
  BY <1>1, <1>4 DEF Charged, TxInfo
<1>8. LocksHaveOwners'
  <2>1. ASSUME NEW id \in Ids, txCarMap'[id].exists \/ txCarMap'[id].lockedFee > 0
        PROVE  txCarMap'[id].owner \in Owners
    <3>1. CASE id \in Charged(k)
      <4> DEFINE n == Charge(txCarMap[id], unitPrice)
      <4>1. /\ n \in TxInfo /\ n.owner = txCarMap[id].owner
            /\ n.exists => n.lockedFee > 0
            /\ n.exists => txCarMap[id].lockedFee > 0
            /\ Claim(n) = n.lockedFee
        BY <1>7, <3>1, ChargeLeaves
      <4>2. txCarMap'[id] = n
        BY <1>1, <3>1
      <4> HIDE DEF n
      <4>3. n.exists
        <5>1. n.lockedFee \in Nat
          BY <4>1 DEF TxInfo
        <5> QED
          BY <2>1, <4>1, <4>2, <5>1 DEF Claim
      <4> QED
        BY <4>1, <4>2, <4>3 DEF SwanInv, LocksHaveOwners
    <3>2. CASE id \notin Charged(k)
      BY <1>1, <2>1, <3>2 DEF SwanInv, LocksHaveOwners
    <3> QED
      BY <3>1, <3>2
  <2> QED
    BY <1>3, <2>1 DEF SwanInv, LocksHaveOwners
<1>9. CoversItsLocks'
  <2> DEFINE mid == FilledUp(unitPrice, cidList[k])
  <2>1. ASSUME NEW id \in Ids
        PROVE  /\ id \in Counted(k) => ClaimOf'[id] = mid[id] - unitPrice * Sizes[id]
               /\ id \notin Counted(k) => ClaimOf'[id] = mid[id]
    <3> DEFINE t == txCarMap[id]
               n == txCarMap'[id]
               c == Claim(txMap[id])
               leak == Leak(t, unitPrice)
    <3>1. t \in TxInfo /\ c \in Nat /\ t.copyLimit \in Nat
      BY <1>4 DEF Claim, TxInfo
    <3>2. ClaimOf'[id] = c + Claim(n) /\ ClaimOf[id] = c + Claim(t)
      BY <1>3 DEF ClaimOf
    <3>3. CASE id \in cidList[k]
      <4>1. n = IF t.copyLimit > 0 THEN Charge(t, unitPrice) ELSE t
        BY <1>1, <3>3 DEF Charged
      <4>2. /\ leak \in Nat /\ unitPrice * t.size \in Nat
            /\ t.exists => Claim(n) = Claim(t) + leak - unitPrice * t.size
            /\ ~t.exists => Claim(n) = Claim(t) + leak
        BY ONLY <1>1, <3>1, <4>1, LeakFills
      <4>3. mid[id] = ClaimOf[id] + leak /\ Sizes[id] = t.size
        BY <1>10, <3>3 DEF LeakOf, Sizes
      <4>4. id \in Counted(k) <=> t.exists
        BY <3>3 DEF Counted
      <4>5. Claim(t) \in Nat
        BY <3>1 DEF Claim, TxInfo
      <4> DEFINE cost == unitPrice * t.size
      <4> HIDE DEF t, n, c, leak, mid, cost
      <4>6. t.exists => ClaimOf'[id] = mid[id] - cost
        BY <3>1, <3>2, <4>2, <4>3, <4>5 DEF cost
      <4>7. ~t.exists => ClaimOf'[id] = mid[id]
        BY <3>1, <3>2, <4>2, <4>3, <4>5
      <4> QED
        BY <4>3, <4>4, <4>6, <4>7 DEF cost
    <3>4. CASE id \notin cidList[k]
      <4>1. id \notin Charged(k) /\ id \notin Counted(k)
        BY <3>4 DEF Charged, Counted
      <4>2. n = t
        BY <1>1, <4>1
      <4>3. mid[id] = ClaimOf[id]
        BY <1>10, <3>4
      <4> HIDE DEF mid
      <4> QED
        BY <3>2, <4>1, <4>2, <4>3
    <3> QED
      BY <3>3, <3>4
  <2>2. \A id \in Ids : ClaimOf[id] \in Int /\ Sizes[id] \in Int /\ LeakOf(unitPrice)[id] \in Int
    <3>1. Ids \in SUBSET Ids
      OBVIOUS
    <3>2. \A id \in Ids : ClaimOf[id] \in Nat /\ Sizes[id] \in Nat
      BY <1>4, <3>1, Totals
    <3> QED
      BY <1>10, <3>2
  <2>3. \A id \in Ids : mid[id] \in Int
    BY <1>10, <2>2
  <2>4. SumFunctionOnSet(mid, Ids) = SumFunctionOnSet(ClaimOf, Ids) + gone
    <3>1. PICK c \in Int : c = -1
      OBVIOUS
    <3>2. \A id \in cidList[k] : mid[id] = ClaimOf[id] - c * LeakOf(unitPrice)[id]
      <4>1. ASSUME NEW id \in cidList[k] PROVE mid[id] = ClaimOf[id] - c * LeakOf(unitPrice)[id]
        <5>1. mid[id] = ClaimOf[id] + LeakOf(unitPrice)[id]
          BY <1>3, <1>10
        <5>2. ClaimOf[id] \in Int /\ LeakOf(unitPrice)[id] \in Int
          BY <1>3, <2>2
        <5> HIDE DEF mid
        <5> QED
          BY <3>1, <5>1, <5>2
      <4> QED
        BY <4>1
    <3>3. \A id \in Ids \ cidList[k] : mid[id] = ClaimOf[id]
      BY <1>10
    <3> HIDE DEF mid
    <3>4. SumFunctionOnSet(mid, Ids) = SumFunctionOnSet(ClaimOf, Ids) - c * gone
      BY <1>3, <2>2, <3>2, <3>3, SumTake DEF gone
    <3>5. SumFunctionOnSet(ClaimOf, Ids) \in Int
      <4>1. Ids \in SUBSET Ids
        OBVIOUS
      <4> QED
        BY <1>4, <4>1, Totals
    <3> QED
      BY <1>11, <3>1, <3>4, <3>5
  <2>5. SumFunctionOnSet(ClaimOf', Ids) =
          SumFunctionOnSet(mid, Ids) - unitPrice * SumFunctionOnSet(Sizes, Counted(k))
    <3>1. Counted(k) \in SUBSET Ids /\ unitPrice \in Int
      BY <1>1
    <3> HIDE DEF mid
    <3> QED
      BY <3>1, <2>1, <2>2, <2>3, SumTake
  <2>6. /\ Claims = SumFunctionOnSet(ClaimOf, Ids) /\ Claims \in Nat
        /\ Size(Counted(k)) = SumFunctionOnSet(Sizes, Counted(k))
    BY <1>1, <1>4, Totals
  <2>7. Claims' = SumFunctionOnSet(ClaimOf', Ids)
    BY DEF Claims, ClaimOf
  <2> HIDE DEF mid
  <2>8. Claims' = Claims + gone - unitPrice * Size(Counted(k))
    <3> DEFINE old == SumFunctionOnSet(ClaimOf, Ids)
               middle == SumFunctionOnSet(mid, Ids)
               new == SumFunctionOnSet(ClaimOf', Ids)
               size == SumFunctionOnSet(Sizes, Counted(k))
    <3>1. middle = old + gone /\ new = middle - unitPrice * size
      BY <2>4, <2>5
    <3>2. Claims = old /\ Size(Counted(k)) = size /\ Claims' = new
      BY <2>6, <2>7
    <3>3. old \in Nat /\ gone \in Nat /\ unitPrice * size \in Nat
      BY <1>1, <1>11, <2>6
    <3> DEFINE cost == unitPrice * size
    <3>4. unitPrice * Size(Counted(k)) = cost /\ new = middle - cost
      BY <3>1, <3>2
    <3> HIDE DEF old, middle, new, size, cost
    <3>5. new = old + gone - cost
      BY <3>1, <3>3, <3>4 DEF cost
    <3> QED
      BY <3>2, <3>4, <3>5
  <2>9. balance + rounded + leaked = Claims
    BY DEF SwanInv, CoversItsLocks
  <2> DEFINE n == Size(Counted(k))
  <2>10. unitPrice * n = n * unitPrice /\ unitPrice * n \in Nat
    BY <1>1
  <2> DEFINE p == unitPrice * n
  <2>11. p \in Nat /\ tokenAmount = p + rest /\ Claims' = Claims + gone - p
    BY <1>2, <2>8, <2>10
  <2> HIDE DEF p, Claims
  <2>12. balance' + rounded' + leaked' = Claims'
    BY ONLY <1>1, <1>2, <1>4, <1>11, <2>6, <2>9, <2>11
  <2> QED
    BY <2>12 DEF CoversItsLocks
<1> QED
  BY <1>5, <1>6, <1>8, <1>9 DEF SwanInv

\* Refunding: every due file gives its owner what it claims.
LEMMA RefundInv ==
  ASSUME SwanInv, NEW ids \in SUBSET Ids, Refund(ids)
  PROVE  SwanInv'
<1> DEFINE due == {id \in ids : txCarMap[id].exists /\ now > txCarMap[id].deadline}
<1>1. /\ SwanTypeOK /\ balance \in Nat /\ rounded \in Nat /\ leaked \in Nat
      /\ txMap \in [Ids -> TxInfo] /\ txCarMap \in [Ids -> TxInfo] /\ purse \in [Owners -> Nat]
  BY DEF SwanInv, SwanTypeOK
<1>2. /\ balance >= Fees(due) /\ balance' = balance - Fees(due)
      /\ txCarMap' = [id \in Ids |-> IF id \in due THEN [txCarMap[id] EXCEPT !.exists = FALSE]
                                     ELSE txCarMap[id]]
      /\ purse' = [u \in Owners |-> purse[u] + Fees({id \in due : txCarMap[id].owner = u})]
      /\ UNCHANGED <<now, txMap, oracleView, filinkVars, rounded, leaked>>
  BY DEF Refund
<1>3. Fees(due) \in Nat /\ Fees(due) = SumFunctionOnSet(LockedFees, due)
  <2>1. due \in SUBSET Ids
    OBVIOUS
  <2> HIDE DEF due
  <2> QED
    BY <1>1, <2>1, Totals
<1>4. purse' \in [Owners -> Nat]
  <2>1. ASSUME NEW u \in Owners PROVE purse[u] + Fees({id \in due : txCarMap[id].owner = u}) \in Nat
    <3> DEFINE mine == {id \in due : txCarMap[id].owner = u}
    <3>1. mine \in SUBSET Ids
      OBVIOUS
    <3> HIDE DEF mine
    <3>2. Fees(mine) \in Nat
      BY <1>1, <3>1, Totals
    <3> QED
      BY <1>1, <3>2 DEF mine
  <2> HIDE DEF due
  <2> QED
    BY <1>2, <2>1
<1>5. /\ txCarMap' \in [Ids -> TxInfo]
      /\ \A id \in Ids : /\ txCarMap'[id].owner = txCarMap[id].owner
                         /\ txCarMap'[id].lockedFee = txCarMap[id].lockedFee
                         /\ txCarMap'[id].exists => txCarMap[id].exists
      /\ \A id \in due : ~txCarMap'[id].exists
      /\ \A id \in Ids \ due : txCarMap'[id] = txCarMap[id]
  <2>1. ASSUME NEW id \in Ids
        PROVE  /\ [txCarMap[id] EXCEPT !.exists = FALSE] \in TxInfo
               /\ [txCarMap[id] EXCEPT !.exists = FALSE].owner = txCarMap[id].owner
               /\ [txCarMap[id] EXCEPT !.exists = FALSE].lockedFee = txCarMap[id].lockedFee
               /\ ~[txCarMap[id] EXCEPT !.exists = FALSE].exists
    <3> DEFINE t == txCarMap[id]
               n == [t EXCEPT !.exists = FALSE]
    <3>1. t \in TxInfo
      BY <1>1
    <3> HIDE DEF t
    <3>2. n \in TxInfo /\ n.owner = t.owner /\ n.lockedFee = t.lockedFee
      BY <3>1 DEF TxInfo
    <3>3. n.exists = FALSE
      BY <3>1 DEF TxInfo
    <3> QED
      BY <3>2, <3>3 DEF t
  <2>2. due \subseteq Ids
    OBVIOUS
  <2> HIDE DEF due
  <2> QED
    BY <1>1, <1>2, <2>1, <2>2
<1>6. SwanTypeOK'
  <2>1. balance' \in Nat
    BY <1>1, <1>2, <1>3
  <2> QED
    BY <1>2, <1>4, <1>5, <2>1 DEF SwanInv, SwanTypeOK, oracleView, filinkVars, FilinkTypeOK
<1>7. LocksHaveOwners'
  BY <1>2, <1>5 DEF SwanInv, LocksHaveOwners
<1>8. PricesAreAnswers'
  BY <1>2 DEF SwanInv, PricesAreAnswers, filinkVars, GetPrice
<1>9. CoversItsLocks'
  <2>1. PICK c \in Int : c = 1
    OBVIOUS
  <2>2. ASSUME NEW id \in due PROVE ClaimOf'[id] = ClaimOf[id] - c * LockedFees[id]
    <3>1. id \in Ids /\ txCarMap[id].exists /\ ~txCarMap'[id].exists /\ txMap' = txMap
      BY <1>2, <1>5
    <3>2. ClaimOf[id] = Claim(txMap[id]) + txCarMap[id].lockedFee /\ LockedFees[id] = txCarMap[id].lockedFee
      BY <3>1 DEF ClaimOf, Claim, LockedFees
    <3>3. ClaimOf'[id] = Claim(txMap[id]) + 0
      BY <3>1 DEF ClaimOf, Claim
    <3>4. Claim(txMap[id]) \in Nat /\ txCarMap[id].lockedFee \in Nat
      BY <1>1, <3>1 DEF Claim, TxInfo
    <3> QED
      BY <2>1, <3>2, <3>3, <3>4
  <2>3. \A id \in Ids \ due : ClaimOf'[id] = ClaimOf[id]
    BY <1>2, <1>5 DEF ClaimOf
  <2>4. /\ \A id \in Ids : ClaimOf[id] \in Int /\ LockedFees[id] \in Int
        /\ Claims = SumFunctionOnSet(ClaimOf, Ids) /\ Claims \in Nat
    <3>1. Ids \in SUBSET Ids
      OBVIOUS
    <3> QED
      BY <1>1, <3>1, Totals
  <2>5. SumFunctionOnSet(ClaimOf', Ids) =
          SumFunctionOnSet(ClaimOf, Ids) - c * SumFunctionOnSet(LockedFees, due)
    <3>1. due \in SUBSET Ids
      OBVIOUS
    <3> HIDE DEF due
    <3> QED
      BY <3>1, <2>2, <2>3, <2>4, SumTake
  <2>6. Claims' = SumFunctionOnSet(ClaimOf', Ids)
    BY DEF Claims, ClaimOf
  <2> HIDE DEF due
  <2>7. Claims' = Claims - Fees(due)
    BY <1>3, <2>1, <2>4, <2>5, <2>6
  <2> QED
    BY <1>1, <1>2, <1>3, <2>4, <2>7 DEF SwanInv, CoversItsLocks
<1> QED
  BY <1>6, <1>7, <1>8, <1>9 DEF SwanInv

\* The steps that move no token keep the invariant.
LEMMA LocksAloneInv ==
  ASSUME SwanInv, SwanTypeOK', PricesAreAnswers', UNCHANGED locks
  PROVE  SwanInv'
<1>1. LocksHaveOwners'
  BY DEF SwanInv, LocksHaveOwners, locks
<1>2. Claims' = Claims
  BY DEF Claims, Claim, locks
<1>3. CoversItsLocks'
  BY <1>2 DEF SwanInv, CoversItsLocks, locks
<1> QED
  BY <1>1, <1>3 DEF SwanInv

\* The oracle decides, prices come in, time passes, or nothing happens.
LEMMA OtherStepsInv ==
  ASSUME SwanInv,
         \/ OracleDecides
         \/ FilinkNext /\ UNCHANGED <<now, locks, oracleView>>
         \/ now < MaxNow /\ now' = now + 1 /\ UNCHANGED <<locks, oracleView, filinkVars>>
         \/ UNCHANGED swanVars
  PROVE  SwanInv'
<1>1. UNCHANGED locks
  BY DEF OracleDecides, swanVars
<1>2. now' \in Nat
  BY DEF OracleDecides, swanVars, SwanInv, SwanTypeOK
<1>3. cidList' \in [Keys -> Lists] /\ available' \subseteq Keys \X Recipients
  BY DEF OracleDecides, swanVars, oracleView, SwanInv, SwanTypeOK
<1>4. FilinkTypeOK' /\ PricesAreAnswers'
  <2>1. FilinkTypeOK /\ \A k \in Keys : mapDealPrice[k] \in Prices \cup {0}
    BY DEF SwanInv, SwanTypeOK, PricesAreAnswers, GetPrice
  <2>2. CASE UNCHANGED filinkVars
    BY <2>1, <2>2 DEF filinkVars, FilinkTypeOK, PricesAreAnswers, GetPrice
  <2>3. CASE FilinkNext
    <3>1. CASE \E deal \in Deals, network \in Networks : RequestDealInfo(deal, network)
      <4>1. PICK deal \in Deals, network \in Networks : RequestDealInfo(deal, network)
        BY <3>1
      <4>2. <<deal, network>> \in Keys
        BY DEF Keys
      <4> QED
        BY <2>1, <4>1, <4>2 DEF RequestDealInfo, FilinkTypeOK, PricesAreAnswers, GetPrice
    <3>2. CASE \E k \in Keys, price \in Prices : Fulfill(k, price)
      <4>1. PICK k \in Keys, price \in Prices : Fulfill(k, price)
        BY <3>2
      <4>2. pending[k] \in Nat /\ pending[k] - 1 \in Nat
        BY <2>1, <4>1 DEF Fulfill, FilinkTypeOK
      <4>3. /\ pending' = [pending EXCEPT ![k] = pending[k] - 1] /\ link' = link
            /\ mapDealPrice' = [mapDealPrice EXCEPT ![k] = price]
        BY <4>1 DEF Fulfill
      <4> QED
        BY <2>1, <4>2, <4>3 DEF FilinkTypeOK, PricesAreAnswers, GetPrice
    <3>3. CASE WithdrawTokens
      BY <2>1, <3>3 DEF WithdrawTokens, FilinkTypeOK, PricesAreAnswers, GetPrice
    <3> QED
      BY <2>3, <3>1, <3>2, <3>3 DEF FilinkNext
  <2> QED
    BY <2>2, <2>3 DEF OracleDecides, swanVars
<1>5. SwanTypeOK'
  BY <1>1, <1>2, <1>3, <1>4 DEF SwanInv, SwanTypeOK, locks
<1> QED
  BY <1>1, <1>4, <1>5, LocksAloneInv

\* Every step keeps the invariant.
LEMMA SwanStepInv == SwanInv /\ [SwanNext]_swanVars => SwanInv'
<1> SUFFICES ASSUME SwanInv, [SwanNext]_swanVars PROVE SwanInv'
  OBVIOUS
<1>1. CASE \E u \in Owners, p \in LockParams : LockTokenPayment(u, p)
  BY <1>1, LockInv
<1>2. CASE \E id \in Ids : UnlockTokenPayment(id)
  BY <1>2, UnlockTokenInv
<1>3. CASE \E k \in Keys, r \in Recipients : UnlockCarPayment(k, r)
  BY <1>3, UnlockCarInv
<1>4. CASE \E ids \in SUBSET Ids : Refund(ids)
  BY <1>4, RefundInv
<1>5. CASE \/ OracleDecides
           \/ FilinkNext /\ UNCHANGED <<now, locks, oracleView>>
           \/ now < MaxNow /\ now' = now + 1 /\ UNCHANGED <<locks, oracleView, filinkVars>>
           \/ UNCHANGED swanVars
  BY <1>5, OtherStepsInv
<1> QED
  BY <1>1, <1>2, <1>3, <1>4, <1>5 DEF SwanNext

\* The invariant holds of the contract.
THEOREM SwanInvariance == SwanSpec => []SwanInv
<1> QED
  BY SwanInitInv, SwanStepInv, PTL DEF SwanSpec

\* Amounts, sizes, prices and verdicts keep their types: nothing goes below zero.
THEOREM SwanTypeCorrect == SwanSpec => []SwanTypeOK
<1>1. SwanInv => SwanTypeOK
  BY DEF SwanInv
<1> QED
  BY <1>1, SwanInvariance, PTL

\* What the contract lacks to pay back all it has locked is exactly what divisions have
\* rounded off and unlocks have leaked: for any number of locks, unlocks, refunds and
\* late prices.
THEOREM SwanCoversItsLocks == SwanSpec => []CoversItsLocks
<1>1. SwanInv => CoversItsLocks
  BY DEF SwanInv
<1> QED
  BY <1>1, SwanInvariance, PTL

-----------------------------------------------------------------------------
\* What LocksAreUsedUp says of the plain lock of id, and of the one of the file id.
PlainUsedUp(id) ==
  Claim(txMap'[id]) < Claim(txMap[id]) =>
    /\ now > txMap[id].deadline /\ Claim(txMap'[id]) = 0
    /\ purse'[txMap[id].owner] = purse[txMap[id].owner] + txMap[id].lockedFee

FileUsedUp(id) ==
  Claim(txCarMap'[id]) < Claim(txCarMap[id]) =>
    LET t == txCarMap[id]
    IN  \/ /\ now > t.deadline /\ Claim(txCarMap'[id]) = 0
           /\ purse'[t.owner] >= purse[t.owner] + t.lockedFee
        \/ /\ txCarMap'[id].copyLimit = t.copyLimit - 1
           /\ \E k \in Keys, r \in Recipients : id \in cidList[k] /\ <<k, r>> \in available
           /\ balance - balance' >= Claim(t) - Claim(txCarMap'[id])

\* A lock that is kept as it is claims no less.
LEMMA KeptIsUsedUp ==
  ASSUME SwanTypeOK, NEW id \in Ids
  PROVE  /\ txMap'[id] = txMap[id] => PlainUsedUp(id)
         /\ txCarMap'[id] = txCarMap[id] => FileUsedUp(id)
<1>1. Claim(txMap[id]) \in Nat /\ Claim(txCarMap[id]) \in Nat
  BY DEF SwanTypeOK, TxInfo, Claim
<1> QED
  BY <1>1 DEF PlainUsedUp, FileUsedUp

\* Locking overwrites no lock that claims anything.
LEMMA LockUsesUp ==
  ASSUME SwanInv, NEW u \in Owners, NEW p \in LockParams, LockTokenPayment(u, p), NEW id \in Ids
  PROVE  PlainUsedUp(id) /\ FileUsedUp(id)
<1>1. SwanTypeOK /\ SwanTypeOK' /\ p.id \in Ids
  BY LockInv DEF SwanInv, LockParam
<1>2. txMap \in [Ids -> TxInfo] /\ txCarMap \in [Ids -> TxInfo]
  BY <1>1 DEF SwanTypeOK
<1>3. CASE id = p.id
  <2>1. Claim(txMap[id]) = 0 /\ Claim(txCarMap[id]) = 0
    BY <1>3 DEF LockTokenPayment, Claim
  <2>2. Claim(txMap'[id]) \in Nat /\ Claim(txCarMap'[id]) \in Nat
    BY <1>1 DEF SwanTypeOK, TxInfo, Claim
  <2> QED
    BY <2>1, <2>2 DEF PlainUsedUp, FileUsedUp
<1>4. CASE id # p.id
  <2>1. txMap'[id] = txMap[id] /\ txCarMap'[id] = txCarMap[id]
    BY <1>1, <1>2, <1>4 DEF LockTokenPayment
  <2> QED
    BY <1>1, <2>1, KeptIsUsedUp
<1> QED
  BY <1>3, <1>4

\* Unlocking a transaction returns all of it to its owner.
LEMMA UnlockTokenUsesUp ==
  ASSUME SwanInv, NEW tx \in Ids, UnlockTokenPayment(tx), NEW id \in Ids
  PROVE  PlainUsedUp(id) /\ FileUsedUp(id)
<1>1. SwanTypeOK /\ txMap \in [Ids -> TxInfo] /\ purse \in [Owners -> Nat]
  BY DEF SwanInv, SwanTypeOK
<1>2. txCarMap' = txCarMap
  BY DEF UnlockTokenPayment
<1>3. CASE id = tx
  <2> DEFINE t == txMap[id]
             n == [t EXCEPT !.exists = FALSE, !.lockedFee = 0]
  <2>1. /\ t.exists /\ now > t.deadline /\ txMap' = [txMap EXCEPT ![id] = n]
        /\ purse' = [purse EXCEPT ![t.owner] = @ + t.lockedFee]
    BY <1>3 DEF UnlockTokenPayment
  <2>2. t \in TxInfo /\ t.owner \in Owners
    BY <1>1, <2>1 DEF SwanInv, LocksHaveOwners
  <2>3. ~n.exists
    BY <2>2 DEF TxInfo
  <2> HIDE DEF n
  <2>4. Claim(txMap'[id]) = 0
    BY <1>1, <2>1, <2>3 DEF Claim
  <2>5. purse'[t.owner] = purse[t.owner] + t.lockedFee
    BY <1>1, <2>1, <2>2
  <2> QED
    BY <1>1, <1>2, <2>1, <2>4, <2>5, KeptIsUsedUp DEF PlainUsedUp
<1>4. CASE id # tx
  <2>1. txMap'[id] = txMap[id]
    BY <1>1, <1>4 DEF UnlockTokenPayment
  <2> QED
    BY <1>1, <1>2, <2>1, KeptIsUsedUp
<1> QED
  BY <1>3, <1>4

\* Unlocking a deal's files takes one copy from each, and no more than is paid.
LEMMA UnlockCarUsesUp ==
  ASSUME SwanInv, NEW k \in Keys, NEW r \in Recipients, UnlockCarPayment(k, r), NEW id \in Ids
  PROVE  PlainUsedUp(id) /\ FileUsedUp(id)
<1>1. /\ SwanTypeOK /\ txCarMap \in [Ids -> TxInfo] /\ balance \in Nat
  BY DEF SwanInv, SwanTypeOK
<1>2. txMap' = txMap
  BY DEF UnlockCarPayment
<1>3. PICK tokenAmount \in Nat, unitPrice \in Nat :
           /\ Counted(k) \subseteq Ids /\ Charged(k) \subseteq Ids
           /\ Size(Counted(k)) \in Nat
           /\ tokenAmount = Size(Counted(k)) * unitPrice + (tokenAmount % Size(Counted(k)))
           /\ (tokenAmount % Size(Counted(k))) \in Nat
           /\ balance >= tokenAmount /\ balance' = balance - tokenAmount
           /\ \A x \in Ids \ Charged(k) : txCarMap'[x] = txCarMap[x]
           /\ \A x \in Charged(k) : txCarMap'[x] = Charge(txCarMap[x], unitPrice)
  BY UnlockCarStep
<1>4. CASE id \in Charged(k)
  <2> DEFINE t == txCarMap[id]
             n == Charge(t, unitPrice)
  <2>1. t \in TxInfo /\ t.copyLimit > 0 /\ txCarMap'[id] = n
    BY <1>1, <1>3, <1>4 DEF Charged
  <2>2. /\ n.copyLimit = t.copyLimit - 1 /\ Claim(n) = n.lockedFee /\ n \in TxInfo
        /\ unitPrice * t.size \in Nat /\ n.lockedFee + unitPrice * t.size >= t.lockedFee
    BY <1>3, <2>1, ChargeLeaves
  <2>3. id \in cidList[k] /\ <<k, r>> \in available
    BY <1>4 DEF Charged, UnlockCarPayment
  <2> HIDE DEF n
  <2>4. ASSUME Claim(n) < Claim(t) PROVE balance - balance' >= Claim(t) - Claim(n)
    <3>1. t.exists /\ t.lockedFee \in Nat /\ n.lockedFee \in Nat /\ t.size \in Nat
      <4>1. t.lockedFee \in Nat /\ n.lockedFee \in Nat /\ t.size \in Nat
        BY <2>1, <2>2 DEF TxInfo
      <4> QED
        BY <4>1, <2>2, <2>4 DEF Claim
    <3>2. id \in Counted(k)
      BY <2>3, <3>1 DEF Counted
    <3>3. t.size =< Size(Counted(k))
      <4>1. /\ Size(Counted(k)) = SumFunctionOnSet(Sizes, Counted(k)) /\ IsFiniteSet(Counted(k))
            /\ \A x \in Counted(k) : Sizes[x] \in Nat
        BY <1>1, <1>3, Totals
      <4>2. Sizes[id] =< SumFunctionOnSet(Sizes, Counted(k))
        BY <3>2, <4>1, SumTermAtMost
      <4> QED
        BY <4>1, <4>2 DEF Sizes
    <3> DEFINE all == Size(Counted(k))
               rest == tokenAmount % all
    <3>4. unitPrice * t.size =< unitPrice * all /\ unitPrice * all \in Nat
      BY <1>3, <3>1, <3>3, MoreBytesCostMore
    <3>5. unitPrice * all = all * unitPrice /\ tokenAmount = all * unitPrice + rest /\ rest \in Nat
      BY <1>3
    <3> DEFINE cost == unitPrice * t.size
               share == unitPrice * all
    <3>6. tokenAmount = share + rest /\ cost =< share /\ cost \in Nat /\ share \in Nat /\ rest \in Nat
      BY <2>2, <3>4, <3>5
    <3>7. n.lockedFee + cost >= t.lockedFee /\ Claim(t) = t.lockedFee /\ Claim(n) = n.lockedFee
      BY <2>2, <3>1 DEF Claim
    <3> HIDE DEF cost, share, rest, all, t
    <3>8. tokenAmount >= Claim(t) - Claim(n)
      BY <3>1, <3>6, <3>7
    <3>9. balance - balance' = tokenAmount
      BY <1>1, <1>3
    <3> QED
      BY <3>8, <3>9
  <2> QED
    BY <1>1, <1>2, <2>1, <2>2, <2>3, <2>4, KeptIsUsedUp DEF FileUsedUp
<1>5. CASE id \notin Charged(k)
  <2>1. txCarMap'[id] = txCarMap[id]
    BY <1>3, <1>5
  <2> QED
    BY <1>1, <1>2, <2>1, KeptIsUsedUp
<1> QED
  BY <1>4, <1>5

\* A refund returns all of a due lock, and what its owner gets is no less than that.
LEMMA RefundUsesUp ==
  ASSUME SwanInv, NEW ids \in SUBSET Ids, Refund(ids), NEW id \in Ids
  PROVE  PlainUsedUp(id) /\ FileUsedUp(id)
<1> DEFINE due == {x \in ids : txCarMap[x].exists /\ now > txCarMap[x].deadline}
           t == txCarMap[id]
           mine == {x \in due : txCarMap[x].owner = t.owner}
<1>1. /\ SwanTypeOK /\ txCarMap \in [Ids -> TxInfo] /\ purse \in [Owners -> Nat] /\ t \in TxInfo
  BY DEF SwanInv, SwanTypeOK
<1>2. /\ txCarMap' = [x \in Ids |-> IF x \in due THEN [txCarMap[x] EXCEPT !.exists = FALSE]
                                    ELSE txCarMap[x]]
      /\ purse' = [u \in Owners |-> purse[u] + Fees({x \in due : txCarMap[x].owner = u})]
      /\ txMap' = txMap
  BY DEF Refund
<1>3. CASE id \in due
  <2>1. t.exists /\ now > t.deadline /\ t.owner \in Owners /\ id \in mine /\ mine \in SUBSET Ids
    BY <1>3 DEF SwanInv, LocksHaveOwners
  <2>2. Claim(txCarMap'[id]) = 0
    <3>1. txCarMap'[id] = [t EXCEPT !.exists = FALSE]
      BY <1>2, <1>3
    <3> HIDE DEF t
    <3>2. ~[t EXCEPT !.exists = FALSE].exists
      BY <1>1 DEF TxInfo
    <3> QED
      BY <3>1, <3>2 DEF Claim
  <2>3. purse'[t.owner] = purse[t.owner] + Fees(mine)
    BY <1>2, <2>1
  <2> HIDE DEF mine
  <2>4. /\ Fees(mine) = SumFunctionOnSet(LockedFees, mine) /\ Fees(mine) \in Nat /\ IsFiniteSet(mine)
        /\ \A x \in mine : LockedFees[x] \in Nat
    BY <1>1, <2>1, Totals
  <2>5. LockedFees[id] =< Fees(mine)
    BY <2>1, <2>4, SumTermAtMost
  <2>6. purse'[t.owner] >= purse[t.owner] + t.lockedFee
    <3>1. LockedFees[id] = t.lockedFee /\ t.lockedFee \in Nat
      BY <1>1 DEF LockedFees, TxInfo
    <3>2. purse[t.owner] \in Nat
      BY <1>1, <2>1
    <3> HIDE DEF t
    <3> QED
      BY <2>3, <2>4, <2>5, <3>1, <3>2
  <2> QED
    BY <1>1, <1>2, <2>1, <2>2, <2>6, KeptIsUsedUp DEF FileUsedUp
<1>4. CASE id \notin due
  <2>1. txCarMap'[id] = txCarMap[id]
    BY <1>2, <1>4
  <2> QED
    BY <1>1, <1>2, <2>1, KeptIsUsedUp
<1> QED
  BY <1>3, <1>4

\* No step takes from a lock otherwise.
LEMMA StepsUseUp ==
  ASSUME SwanInv, [SwanNext]_swanVars, NEW id \in Ids
  PROVE  PlainUsedUp(id) /\ FileUsedUp(id)
<1>1. CASE \E u \in Owners, p \in LockParams : LockTokenPayment(u, p)
  BY <1>1, LockUsesUp
<1>2. CASE \E tx \in Ids : UnlockTokenPayment(tx)
  BY <1>2, UnlockTokenUsesUp
<1>3. CASE \E k \in Keys, r \in Recipients : UnlockCarPayment(k, r)
  BY <1>3, UnlockCarUsesUp
<1>4. CASE \E ids \in SUBSET Ids : Refund(ids)
  BY <1>4, RefundUsesUp
<1>5. CASE UNCHANGED locks
  <2>1. txMap'[id] = txMap[id] /\ txCarMap'[id] = txCarMap[id]
    BY <1>5 DEF locks
  <2>2. SwanTypeOK
    BY DEF SwanInv
  <2> QED
    BY <2>1, <2>2, KeptIsUsedUp
<1> QED
  BY <1>1, <1>2, <1>3, <1>4, <1>5 DEF SwanNext, swanVars, OracleDecides

\* What a lock loses in a step goes to its owner after the deadline, or is taken, with
\* one of its copies, in the unlock of a deal the DAO found to store the file, which pays
\* as much to the recipient.  That an unlock takes all it pays from locks is not said.
THEOREM SwanLocksAreUsedUp == SwanSpec => LocksAreUsedUp
<1>1. SwanInv /\ [SwanNext]_swanVars =>
      [\A id \in Ids :
         /\ Claim(txMap'[id]) < Claim(txMap[id]) =>
              /\ now > txMap[id].deadline /\ Claim(txMap'[id]) = 0
              /\ purse'[txMap[id].owner] = purse[txMap[id].owner] + txMap[id].lockedFee
         /\ Claim(txCarMap'[id]) < Claim(txCarMap[id]) =>
              LET t == txCarMap[id]
              IN  \/ /\ now > t.deadline /\ Claim(txCarMap'[id]) = 0
                     /\ purse'[t.owner] >= purse[t.owner] + t.lockedFee
                  \/ /\ txCarMap'[id].copyLimit = t.copyLimit - 1
                     /\ \E k \in Keys, r \in Recipients : id \in cidList[k] /\ <<k, r>> \in available
                     /\ balance - balance' >= Claim(t) - Claim(txCarMap'[id])]_swanVars
  BY StepsUseUp DEF PlainUsedUp, FileUsedUp
<1> QED
  BY <1>1, SwanInvariance, PTL DEF SwanSpec, LocksAreUsedUp
=============================================================================
