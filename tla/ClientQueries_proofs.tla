------------------------- MODULE ClientQueries_proofs -----------------------
(***************************************************************************)
(* What the requests of ClientQueries may rely on although each of them is *)
(* several statements: for any number of clients, wallets, uploads and     *)
(* payments.  First what each request found so far, then the lists.        *)
(***************************************************************************)
EXTENDS ClientQueries, FoldTheorems, TLAPS

\* The tables are sequences of rows that refer to rows there are.
TablesFit ==
  /\ now \in 0..MaxNow
  /\ wallet \in Seq(Addresses) /\ isDao \subseteq DOMAIN wallet
  /\ upload \in Seq(Upload) /\ Len(upload) <= MaxUploads
  /\ transaction \in Seq(Transaction)
  /\ unlocked \subseteq {u \in DOMAIN upload : upload[u].status = "TaskCreated"}
  /\ mint \in Seq(DOMAIN upload)

\* An upload passes for free or for paid only if it is.
PaidOrFree ==
  \A u \in DOMAIN upload :
    /\ upload[u].status = "Free" => upload[u].isFree
    /\ upload[u].status \in {"Paid", "TaskCreated"} => Paid(u) \/ upload[u].isFree

\* A request for a wallet holds one once it found it, and cannot miss one it began with.
WalletRequest(r) ==
  /\ {"pc", "kind", "address", "wallet", "known"} \subseteq DOMAIN r
  /\ r.kind \in {"list", "registerDao"} /\ r.address \in Addresses
  /\ r.pc \in {"find", "create", "found", "done", "failed"}
  /\ r.pc = "found" => r.wallet \in DOMAIN wallet
  /\ r.known => WalletsAt(r.address) # {} /\ r.pc \notin {"create", "failed"}

\* A mint request that began with a row finds it.
MintRequest(r) ==
  /\ {"pc", "kind", "target", "before"} \subseteq DOMAIN r
  /\ r.kind = "mint" /\ r.target \in DOMAIN upload
  /\ r.pc \in {"checkMint", "insertMint", "done", "failed"}
  /\ r.before => Minted(r.target) # {} /\ r.pc # "insertMint"

\* What was read of a deal is still so, and what is read after it goes with it.
DealRequest(r) ==
  /\ {"pc", "kind", "target", "deal", "unlocked", "paid", "inCar"} \subseteq DOMAIN r
  /\ r.kind = "deal" /\ r.target \in DOMAIN upload
  /\ r.pc \in {"readDeal", "readPayment", "readCar", "done"}
  /\ r.unlocked /\ r.deal = r.target =>
                   /\ r.target \in unlocked
                   /\ r.pc \in {"readCar", "done"} => r.paid \/ upload[r.target].isFree
                   /\ r.pc = "done" => r.inCar

RequestFits(c) ==
  \/ request[c] = Idle
  \/ WalletRequest(request[c])
  \/ MintRequest(request[c])
  \/ DealRequest(request[c])

QueryInv ==
  /\ TablesFit
  /\ PaidOrFree
  /\ IsInjective(wallet)
  /\ DOMAIN request = Clients /\ \A c \in Clients : RequestFits(c)

USE QueryAssumption

-----------------------------------------------------------------------------
\* The invariant has everything the properties ask for.
LEMMA QueryInvSuffices ==
  QueryInv => QueryTypeOK /\ ChecksMissOnlyOverlaps /\ UnlockedShowsPayment
<1> SUFFICES ASSUME QueryInv PROVE QueryTypeOK /\ ChecksMissOnlyOverlaps /\ UnlockedShowsPayment
  OBVIOUS
<1>1. QueryTypeOK
  <2>1. TablesFit
    BY DEF QueryInv
  <2> QED
    BY <2>1 DEF TablesFit, QueryTypeOK, IsSeqOf
<1>2. ASSUME NEW c \in Clients
      PROVE  /\ request[c].pc = "insertMint" => ~request[c].before
             /\ request[c].pc = "failed" /\ request[c].kind \in {"list", "registerDao"}
                  => ~request[c].known
             /\ request[c].pc = "done" /\ request[c].kind = "deal" /\ request[c].unlocked
                  /\ request[c].deal = request[c].target
                  => request[c].inCar /\ (request[c].paid \/ upload[request[c].target].isFree)
  <2>1. RequestFits(c)
    BY DEF QueryInv
  <2> QED
    BY <2>1 DEF RequestFits, WalletRequest, MintRequest, DealRequest, Idle
<1>3. IsInjective(wallet)
  BY DEF QueryInv
<1> QED
  BY <1>1, <1>2, <1>3 DEF ChecksMissOnlyOverlaps, UnlockedShowsPayment

\* There is nothing at first.
LEMMA QueryInitInv == QueryInit => QueryInv
<1> SUFFICES ASSUME QueryInit PROVE QueryInv
  OBVIOUS
<1>1. TablesFit
  BY DEF QueryInit, TablesFit
<1>2. PaidOrFree /\ IsInjective(wallet)
  BY DEF QueryInit, PaidOrFree, IsInjective
<1> QED
  BY <1>1, <1>2 DEF QueryInit, QueryInv, RequestFits

-----------------------------------------------------------------------------
\* No table loses what a request may have seen of it.
Grows ==
  /\ DOMAIN wallet \subseteq DOMAIN wallet' /\ DOMAIN upload \subseteq DOMAIN upload'
  /\ unlocked \subseteq unlocked'
  /\ \A a \in Addresses : WalletsAt(a) # {} => WalletsAt(a)' # {}
  /\ \A u \in DOMAIN upload : /\ Minted(u) # {} => Minted(u)' # {}
                              /\ upload'[u].isFree = upload[u].isFree

\* A request that is left alone is not disturbed by what happens to the tables.
LEMMA KeptRequest ==
  ASSUME Grows, NEW c \in Clients, RequestFits(c), request'[c] = request[c]
  PROVE  RequestFits(c)'
<1> DEFINE r == request[c]
<1>1. CASE r = Idle
  BY <1>1 DEF RequestFits
<1>2. CASE WalletRequest(r)
  <2>1. r.known => WalletsAt(r.address)' # {}
    BY <1>2 DEF WalletRequest, Grows
  <2>2. r.pc = "found" => r.wallet \in DOMAIN wallet'
    BY <1>2 DEF WalletRequest, Grows
  <2>3. WalletRequest(request[c])'
    BY <1>2, <2>1, <2>2 DEF WalletRequest, WalletsAt
  <2> QED
    BY <2>3 DEF RequestFits
<1>3. CASE MintRequest(r)
  <2>1. r.before => Minted(r.target)' # {}
    BY <1>3 DEF MintRequest, Grows
  <2>2. r.target \in DOMAIN upload'
    BY <1>3 DEF MintRequest, Grows
  <2>3. MintRequest(request[c])'
    BY <1>3, <2>1, <2>2 DEF MintRequest, Minted
  <2> QED
    BY <2>3 DEF RequestFits
<1>4. CASE DealRequest(r)
  <2>1. /\ r.target \in DOMAIN upload' /\ upload'[r.target].isFree = upload[r.target].isFree
        /\ r.unlocked /\ r.deal = r.target => r.target \in unlocked'
    BY <1>4 DEF DealRequest, Grows
  <2>2. DealRequest(request[c])'
    BY <1>4, <2>1 DEF DealRequest
  <2> QED
    BY <2>2 DEF RequestFits
<1> QED
  BY <1>1, <1>2, <1>3, <1>4 DEF RequestFits

\* Unchanged tables.
LEMMA SameTables ==
  ASSUME QueryInv, UNCHANGED <<now, tables>>
  PROVE  TablesFit' /\ PaidOrFree' /\ IsInjective(wallet)' /\ Grows
<1>1. /\ now' = now /\ wallet' = wallet /\ isDao' = isDao /\ upload' = upload
      /\ transaction' = transaction /\ unlocked' = unlocked /\ mint' = mint
  BY DEF tables
<1>2. TablesFit'
  BY <1>1 DEF QueryInv, TablesFit, Upload, Transaction
<1>3. PaidOrFree' /\ IsInjective(wallet)'
  BY <1>1 DEF QueryInv, PaidOrFree, Paid, IsInjective
<1>4. Grows
  BY <1>1 DEF Grows, WalletsAt, Minted
<1> QED
  BY <1>2, <1>3, <1>4

\* A step that leaves the requests alone.
LEMMA WorldKeepsRequests ==
  ASSUME QueryInv, UNCHANGED request, Grows, TablesFit', PaidOrFree', IsInjective(wallet)'
  PROVE  QueryInv'
<1>1. ASSUME NEW c \in Clients PROVE RequestFits(c)'
  <2>1. RequestFits(c) /\ request'[c] = request[c]
    BY DEF QueryInv
  <2> QED
    BY <2>1, KeptRequest
<1> QED
  BY <1>1 DEF QueryInv

\* A step of one request.
LEMMA StepKeepsOthers ==
  ASSUME QueryInv, NEW c \in Clients, NEW r, Goes(c, r), RequestFits(c)', Grows,
         TablesFit', PaidOrFree', IsInjective(wallet)'
  PROVE  QueryInv'
<1>1. DOMAIN request' = Clients
  BY DEF QueryInv, Goes
<1>2. ASSUME NEW d \in Clients PROVE RequestFits(d)'
  <2>1. CASE d = c
    BY <2>1
  <2>2. CASE d # c
    <3>1. RequestFits(d) /\ request'[d] = request[d]
      BY <2>2 DEF QueryInv, Goes
    <3> QED
      BY <3>1, KeptRequest
  <2> QED
    BY <2>1, <2>2
<1> QED
  BY <1>1, <1>2 DEF QueryInv

-----------------------------------------------------------------------------
\* A new upload: free, or pending.
LEMMA SaveFileInv ==
  ASSUME QueryInv, NEW w \in DOMAIN wallet, NEW file \in Files, NEW isFree \in BOOLEAN,
         SaveFile(w, file, isFree)
  PROVE  QueryInv'
<1> DEFINE row == [wallet |-> w, file |-> file, at |-> now, isFree |-> isFree,
                   status |-> IF isFree THEN "Free" ELSE "Pending"]
<1>1. /\ upload' = Append(upload, row) /\ Len(upload) < MaxUploads
      /\ UNCHANGED <<now, wallet, isDao, transaction, unlocked, mint, request>>
  BY DEF SaveFile
<1>2. /\ upload \in Seq(Upload) /\ now \in 0..MaxNow /\ transaction \in Seq(Transaction)
      /\ mint \in Seq(DOMAIN upload) /\ wallet \in Seq(Addresses) /\ isDao \subseteq DOMAIN wallet
      /\ unlocked \subseteq {u \in DOMAIN upload : upload[u].status = "TaskCreated"}
  BY DEF QueryInv, TablesFit
<1>3. row \in Upload
  BY <1>2 DEF Upload
<1>4. /\ upload' \in Seq(Upload) /\ Len(upload') = Len(upload) + 1 /\ Len(upload) \in Nat
      /\ DOMAIN upload = 1..Len(upload) /\ DOMAIN upload' = 1..(Len(upload) + 1)
      /\ \A u \in DOMAIN upload : upload'[u] = upload[u]
      /\ upload'[Len(upload) + 1] = row
  BY <1>1, <1>2, <1>3
<1>5. row.isFree = isFree /\ row.status = IF isFree THEN "Free" ELSE "Pending"
  OBVIOUS
<1> HIDE DEF row
<1>6. TablesFit'
  <2>1. upload' \in Seq(Upload')
    BY <1>1, <1>4 DEF Upload
  <2>2. transaction' \in Seq(Transaction')
    <3>1. Transaction \subseteq Transaction'
      BY <1>1, <1>4 DEF Transaction
    <3> QED
      BY <1>1, <1>2, <3>1
  <2>3. mint' \in Seq(DOMAIN upload')
    BY <1>1, <1>2, <1>4
  <2>4. Len(upload') <= MaxUploads
    BY <1>1, <1>4
  <2>5. unlocked' \subseteq {u \in DOMAIN upload' : upload'[u].status = "TaskCreated"}
    BY <1>1, <1>2, <1>4
  <2> QED
    BY <1>1, <1>2, <2>1, <2>2, <2>3, <2>4, <2>5 DEF TablesFit
<1>7. PaidOrFree'
  <2>1. SUFFICES ASSUME NEW u \in DOMAIN upload'
                 PROVE  /\ upload'[u].status = "Free" => upload'[u].isFree
                        /\ upload'[u].status \in {"Paid", "TaskCreated"} => Paid(u)' \/ upload'[u].isFree
    BY DEF PaidOrFree
  <2>2. CASE u \in DOMAIN upload
    BY <1>1, <1>4, <2>2 DEF QueryInv, PaidOrFree, Paid
  <2>3. CASE u = Len(upload) + 1
    BY <1>4, <1>5, <2>3
  <2> QED
    BY <1>4, <2>1, <2>2, <2>3
<1>8. IsInjective(wallet)'
  BY <1>1 DEF QueryInv, IsInjective
<1>9. Grows
  BY <1>1, <1>4 DEF Grows, WalletsAt, Minted
<1> QED
  BY <1>1, <1>6, <1>7, <1>8, <1>9, WorldKeepsRequests

\* An upload moves on: only its status changes.
LEMMA StatusMoves ==
  ASSUME TablesFit, NEW u \in DOMAIN upload,
         NEW status \in {"Free", "Pending", "Paid", "TaskCreated"},
         upload' = [upload EXCEPT ![u].status = status]
  PROVE  /\ upload' \in Seq(Upload) /\ Len(upload') = Len(upload)
         /\ DOMAIN upload' = DOMAIN upload
         /\ \A v \in DOMAIN upload : v # u => upload'[v] = upload[v]
         /\ \A v \in DOMAIN upload : upload'[v].isFree = upload[v].isFree
         /\ upload'[u].status = status
<1>1. upload \in Seq(Upload) /\ upload[u] \in Upload
  BY DEF TablesFit
<1> DEFINE row == [upload[u] EXCEPT !.status = status]
<1>2. upload' = [upload EXCEPT ![u] = row]
  OBVIOUS
<1>3. row \in Upload /\ row.isFree = upload[u].isFree /\ row.status = status
  BY <1>1 DEF Upload
<1> HIDE DEF row
<1>4. upload'[u] = row /\ DOMAIN upload' = DOMAIN upload
      /\ \A v \in DOMAIN upload : v # u => upload'[v] = upload[v]
  BY <1>2
<1>5. upload' \in Seq(Upload) /\ Len(upload') = Len(upload)
  BY <1>1, <1>2, <1>3
<1> QED
  BY <1>3, <1>4, <1>5

\* The tables around an upload that moves on.
LEMMA MoveFits ==
  ASSUME QueryInv, NEW u \in DOMAIN upload,
         NEW status \in {"Paid", "TaskCreated"},
         upload' = [upload EXCEPT ![u].status = status],
         upload[u].status = "TaskCreated" => status = "TaskCreated",
         UNCHANGED <<now, wallet, isDao, unlocked, mint, request>>,
         transaction' \in Seq(Transaction),
         \A v \in DOMAIN upload : Paid(v) => Paid(v)',
         Paid(u)' \/ upload[u].isFree
  PROVE  QueryInv'
<1>1. /\ upload' \in Seq(Upload) /\ Len(upload') = Len(upload)
      /\ DOMAIN upload' = DOMAIN upload
      /\ \A v \in DOMAIN upload : v # u => upload'[v] = upload[v]
      /\ \A v \in DOMAIN upload : upload'[v].isFree = upload[v].isFree
      /\ upload'[u].status = status
  BY StatusMoves DEF QueryInv
<1>2. TablesFit'
  <2>1. upload' \in Seq(Upload')
    BY <1>1 DEF Upload
  <2>2. transaction' \in Seq(Transaction')
    BY <1>1 DEF Transaction
  <2>3. unlocked' \subseteq {v \in DOMAIN upload' : upload'[v].status = "TaskCreated"}
    BY <1>1 DEF QueryInv, TablesFit
  <2> QED
    BY <1>1, <2>1, <2>2, <2>3 DEF QueryInv, TablesFit
<1>3. PaidOrFree'
  BY <1>1 DEF QueryInv, PaidOrFree
<1>4. IsInjective(wallet)'
  BY DEF QueryInv, IsInjective
<1>5. Grows
  BY <1>1 DEF Grows, WalletsAt, Minted
<1> QED
  BY <1>2, <1>3, <1>4, <1>5, WorldKeepsRequests

\* The payment of a pending upload is written together with its status.
LEMMA PayInv ==
  ASSUME QueryInv, NEW u \in DOMAIN upload, NEW payer \in DOMAIN wallet, NEW amount \in Amounts,
         Pay(u, payer, amount)
  PROVE  QueryInv'
<1> DEFINE row == [upload |-> u, payer |-> payer, amount |-> amount, at |-> now]
<1>1. /\ transaction \in Seq(Transaction) /\ row \in Transaction
      /\ transaction' = Append(transaction, row)
      /\ upload[u].status = "Pending" /\ upload' = [upload EXCEPT ![u].status = "Paid"]
      /\ UNCHANGED <<now, wallet, isDao, unlocked, mint, request>>
  BY DEF QueryInv, TablesFit, Transaction, Pay
<1>2. row.upload = u
  OBVIOUS
<1> HIDE DEF row
<1>3. /\ transaction' \in Seq(Transaction) /\ Len(transaction) + 1 \in DOMAIN transaction'
      /\ transaction'[Len(transaction) + 1] = row
      /\ \A t \in DOMAIN transaction : t \in DOMAIN transaction' /\ transaction'[t] = transaction[t]
  BY <1>1
<1>4. Paid(u)'
  BY <1>2, <1>3 DEF Paid
<1>5. \A v \in DOMAIN upload : Paid(v) => Paid(v)'
  BY <1>3 DEF Paid
<1> QED
  BY <1>1, <1>3, <1>4, <1>5, MoveFits

\* Only what is paid or free is packed.
LEMMA PackInv ==
  ASSUME QueryInv, NEW u \in DOMAIN upload, Pack(u)
  PROVE  QueryInv'
<1>1. /\ upload' = [upload EXCEPT ![u].status = "TaskCreated"]
      /\ UNCHANGED <<now, wallet, isDao, transaction, unlocked, mint, request>>
      /\ transaction \in Seq(Transaction)
  BY DEF Pack, QueryInv, TablesFit
<1>2. Paid(u) \/ upload[u].isFree
  BY DEF Pack, QueryInv, PaidOrFree
<1>3. \A v \in DOMAIN upload : Paid(v) => Paid(v)'
  BY <1>1 DEF Paid
<1> QED
  BY <1>1, <1>2, <1>3, MoveFits

\* Only what is packed is unlocked.
LEMMA UnlockInv ==
  ASSUME QueryInv, NEW u \in DOMAIN upload, Unlock(u)
  PROVE  QueryInv'
<1>1. /\ unlocked' = unlocked \cup {u} /\ upload[u].status = "TaskCreated"
      /\ UNCHANGED <<now, wallet, isDao, upload, transaction, mint, request>>
  BY DEF Unlock
<1>2. TablesFit'
  BY <1>1 DEF QueryInv, TablesFit, Upload, Transaction
<1>3. PaidOrFree' /\ IsInjective(wallet)'
  BY <1>1 DEF QueryInv, PaidOrFree, Paid, IsInjective
<1>4. Grows
  BY <1>1 DEF Grows, WalletsAt, Minted
<1> QED
  BY <1>1, <1>2, <1>3, <1>4, WorldKeepsRequests

\* Time passes.
LEMMA TickInv ==
  ASSUME QueryInv, Tick
  PROVE  QueryInv'
<1>1. /\ now < MaxNow /\ now' = now + 1 /\ wallet' = wallet /\ isDao' = isDao /\ upload' = upload
      /\ transaction' = transaction /\ unlocked' = unlocked /\ mint' = mint /\ request' = request
  BY DEF Tick, tables
<1>2. TablesFit'
  <2>1. now \in Nat /\ now' \in 0..MaxNow /\ 0..now \subseteq 0..now'
    BY <1>1 DEF QueryInv, TablesFit
  <2>2. Upload \subseteq Upload' /\ Transaction \subseteq Transaction'
    BY <1>1, <2>1 DEF Upload, Transaction
  <2>3. upload' \in Seq(Upload') /\ transaction' \in Seq(Transaction')
    BY <1>1, <2>2 DEF QueryInv, TablesFit
  <2> QED
    BY <1>1, <2>1, <2>3 DEF QueryInv, TablesFit
<1>3. PaidOrFree' /\ IsInjective(wallet)'
  BY <1>1 DEF QueryInv, PaidOrFree, Paid, IsInjective
<1>4. Grows
  BY <1>1 DEF Grows, WalletsAt, Minted
<1> QED
  BY <1>1, <1>2, <1>3, <1>4, WorldKeepsRequests

-----------------------------------------------------------------------------
\* A request that names an address begins without a wallet.
LEMMA AskWalletInv ==
  ASSUME QueryInv, NEW c \in Clients, NEW address \in Addresses,
         (\E q \in Queries : AskList(c, q, address)) \/ AskRegisterDao(c, address)
  PROVE  QueryInv'
<1>1. PICK r : /\ Goes(c, r) /\ UNCHANGED <<now, tables>>
               /\ {"pc", "kind", "address", "wallet", "known"} \subseteq DOMAIN r
               /\ r.pc = "find" /\ r.kind \in {"list", "registerDao"} /\ r.address = address
               /\ r.known => WalletsAt(address) # {}
  <2>1. CASE AskRegisterDao(c, address)
    <3> DEFINE r == [pc |-> "find", kind |-> "registerDao", address |-> address, wallet |-> 0,
                     known |-> WalletsAt(address) # {}]
    <3>1. Goes(c, r) /\ UNCHANGED <<now, tables>>
      BY <2>1 DEF AskRegisterDao
    <3>2. /\ {"pc", "kind", "address", "wallet", "known"} \subseteq DOMAIN r
          /\ r.pc = "find" /\ r.kind = "registerDao" /\ r.address = address
          /\ r.known => WalletsAt(address) # {}
      OBVIOUS
    <3> HIDE DEF r
    <3> QED
      BY <3>1, <3>2
  <2>2. CASE \E q \in Queries : AskList(c, q, address)
    <3>1. PICK q \in Queries : AskList(c, q, address)
      BY <2>2
    <3> DEFINE r == [pc |-> "find", kind |-> "list", address |-> address, wallet |-> 0,
                     known |-> WalletsAt(address) # {},
                     q |-> q, page |-> 1, seen |-> <<>>, calm |-> TRUE,
                     first |-> UNION {IdsOf(q, w) : w \in WalletsAt(address)}]
    <3>2. Goes(c, r) /\ UNCHANGED <<now, tables>>
      BY <3>1 DEF AskList
    <3>3. /\ {"pc", "kind", "address", "wallet", "known"} \subseteq DOMAIN r
          /\ r.pc = "find" /\ r.kind = "list" /\ r.address = address
          /\ r.known => WalletsAt(address) # {}
      OBVIOUS
    <3> HIDE DEF r
    <3> QED
      BY <3>2, <3>3
  <2> QED
    BY <2>1, <2>2
<1>2. TablesFit' /\ PaidOrFree' /\ IsInjective(wallet)' /\ Grows
  BY <1>1, SameTables
<1>3. request'[c] = r
  BY <1>1 DEF Goes, QueryInv
<1>4. r.known => WalletsAt(r.address)' # {}
  BY <1>1, <1>2 DEF Grows
<1>5. WalletRequest(request[c])'
  BY <1>1, <1>3, <1>4 DEF WalletRequest, WalletsAt
<1> QED
  BY <1>1, <1>2, <1>5, StepKeepsOthers DEF RequestFits

\* The look-up of a wallet finds one that is there.
LEMMA GetWalletByAddressInv ==
  ASSUME QueryInv, NEW c \in Clients, GetWalletByAddress(c)
  PROVE  QueryInv'
<1> DEFINE r == request[c]
<1>1. r.pc = "find" /\ UNCHANGED <<now, tables>>
  BY DEF GetWalletByAddress
<1>2. TablesFit' /\ PaidOrFree' /\ IsInjective(wallet)' /\ Grows
  BY <1>1, SameTables
<1>3. WalletRequest(r)
  BY <1>1 DEF QueryInv, RequestFits, MintRequest, DealRequest, Idle
<1>4. wallet' = wallet
  BY <1>1 DEF tables
<1>5. CASE WalletsAt(r.address) = {}
  <2> DEFINE n == [r EXCEPT !.pc = "create"]
  <2>1. Goes(c, n)
    BY <1>5 DEF GetWalletByAddress
  <2>2. request'[c] = n
    BY <2>1 DEF Goes, QueryInv
  <2>3. /\ DOMAIN n = DOMAIN r /\ n.pc = "create" /\ n.kind = r.kind
        /\ n.address = r.address /\ n.known = r.known
    BY <1>3 DEF WalletRequest
  <2> HIDE DEF n
  <2>4. WalletRequest(request[c])'
    BY <1>3, <1>4, <1>5, <2>2, <2>3 DEF WalletRequest, WalletsAt
  <2> QED
    BY <1>2, <2>1, <2>4, StepKeepsOthers DEF RequestFits
<1>6. CASE WalletsAt(r.address) # {}
  <2>1. PICK w \in WalletsAt(r.address) : Goes(c, [r EXCEPT !.pc = "found", !.wallet = w])
    BY <1>6 DEF GetWalletByAddress
  <2> DEFINE n == [r EXCEPT !.pc = "found", !.wallet = w]
  <2>2. request'[c] = n
    BY <2>1 DEF Goes, QueryInv
  <2>3. /\ DOMAIN n = DOMAIN r /\ n.pc = "found" /\ n.kind = r.kind /\ n.wallet = w
        /\ n.address = r.address /\ n.known = r.known
    BY <1>3 DEF WalletRequest
  <2>4. w \in DOMAIN wallet'
    BY <1>4 DEF WalletsAt
  <2>5. Goes(c, n)
    BY <2>1
  <2> HIDE DEF n
  <2>6. WalletRequest(request[c])'
    BY <1>3, <1>4, <1>6, <2>2, <2>3, <2>4 DEF WalletRequest, WalletsAt
  <2> QED
    BY <1>2, <2>5, <2>6, StepKeepsOthers DEF RequestFits
<1> QED
  BY <1>5, <1>6

\* A wallet is inserted where there is none with its address.
LEMMA SaveWalletInv ==
  ASSUME QueryInv, NEW c \in Clients, SaveWallet(c)
  PROVE  QueryInv'
<1> DEFINE r == request[c]
<1>1. r.pc = "create" /\ UNCHANGED <<now, isDao, upload, transaction, unlocked, mint>>
  BY DEF SaveWallet
<1>2. WalletRequest(r)
  BY <1>1 DEF QueryInv, RequestFits, MintRequest, DealRequest, Idle
<1>3. ~r.known
  BY <1>1, <1>2 DEF WalletRequest
<1>4. CASE WalletsAt(r.address) # {}
  <2> DEFINE n == [r EXCEPT !.pc = "failed"]
  <2>1. Goes(c, n) /\ UNCHANGED <<now, tables>>
    BY <1>1, <1>4 DEF SaveWallet, tables
  <2>2. request'[c] = n
    BY <2>1 DEF Goes, QueryInv
  <2>3. /\ DOMAIN n = DOMAIN r /\ n.pc = "failed" /\ n.kind = r.kind
        /\ n.address = r.address /\ n.known = r.known
    BY <1>2 DEF WalletRequest
  <2> HIDE DEF n
  <2>4. WalletRequest(request[c])'
    BY <1>2, <1>3, <2>2, <2>3 DEF WalletRequest
  <2> QED
    BY <2>1, <2>4, SameTables, StepKeepsOthers DEF RequestFits
<1>5. CASE WalletsAt(r.address) = {}
  <2> DEFINE id == Len(wallet) + 1
             n == [r EXCEPT !.pc = "found", !.wallet = id]
  <2>1. Goes(c, n) /\ wallet' = Append(wallet, r.address)
    BY <1>5 DEF SaveWallet
  <2>2. request'[c] = n
    BY <2>1 DEF Goes, QueryInv
  <2>3. /\ DOMAIN n = DOMAIN r /\ n.pc = "found" /\ n.kind = r.kind /\ n.wallet = id
        /\ n.address = r.address /\ n.known = r.known
    BY <1>2 DEF WalletRequest
  <2> HIDE DEF n
  <2>4. wallet \in Seq(Addresses) /\ r.address \in Addresses
    BY <1>2 DEF QueryInv, TablesFit, WalletRequest
  <2>5. /\ wallet' \in Seq(Addresses) /\ DOMAIN wallet = 1..Len(wallet)
        /\ Len(wallet) \in Nat /\ DOMAIN wallet' = 1..id
        /\ \A w \in DOMAIN wallet : wallet'[w] = wallet[w]
        /\ wallet'[id] = r.address
    BY <2>1, <2>4
  <2>6. TablesFit'
    <3>1. Upload \subseteq Upload' /\ Transaction \subseteq Transaction'
      BY <1>1, <2>5 DEF Upload, Transaction
    <3>2. upload' \in Seq(Upload') /\ transaction' \in Seq(Transaction')
      BY <1>1, <3>1 DEF QueryInv, TablesFit
    <3> QED
      BY <1>1, <2>5, <3>2 DEF QueryInv, TablesFit
  <2>7. PaidOrFree'
    BY <1>1 DEF QueryInv, PaidOrFree, Paid
  <2>8. IsInjective(wallet)'
    <3>1. \A w \in DOMAIN wallet : wallet[w] # r.address
      BY <1>5 DEF WalletsAt
    <3>2. \A v, w \in DOMAIN wallet : wallet[v] = wallet[w] => v = w
      BY DEF QueryInv, IsInjective
    <3>3. \A v, w \in DOMAIN wallet' : wallet'[v] = wallet'[w] => v = w
      BY <2>5, <3>1, <3>2
    <3> QED
      BY <3>3 DEF IsInjective
  <2>9. Grows
    BY <1>1, <2>5 DEF Grows, WalletsAt, Minted
  <2>10. WalletRequest(request[c])'
    BY <1>2, <1>3, <2>2, <2>3, <2>5 DEF WalletRequest
  <2> QED
    BY <2>1, <2>6, <2>7, <2>8, <2>9, <2>10, StepKeepsOthers DEF RequestFits
<1> QED
  BY <1>4, <1>5

\* The flag is set for the wallet that was found.
LEMMA SetWalletAsDaoInv ==
  ASSUME QueryInv, NEW c \in Clients, SetWalletAsDao(c)
  PROVE  QueryInv'
<1> DEFINE r == request[c]
           n == [r EXCEPT !.pc = "done"]
<1>1. /\ r.pc = "found" /\ isDao' = isDao \cup {r.wallet} /\ Goes(c, n)
      /\ UNCHANGED <<now, wallet, upload, transaction, unlocked, mint>>
  BY DEF SetWalletAsDao
<1>2. WalletRequest(r)
  BY <1>1 DEF QueryInv, RequestFits, MintRequest, DealRequest, Idle
<1>3. /\ DOMAIN n = DOMAIN r /\ n.pc = "done" /\ n.kind = r.kind
      /\ n.address = r.address /\ n.known = r.known
  BY <1>2 DEF WalletRequest
<1> HIDE DEF n
<1>4. request'[c] = n
  BY <1>1 DEF Goes, QueryInv
<1>5. TablesFit'
  BY <1>1, <1>2 DEF QueryInv, TablesFit, WalletRequest, Upload, Transaction
<1>6. PaidOrFree' /\ IsInjective(wallet)' /\ Grows
  BY <1>1 DEF QueryInv, PaidOrFree, Paid, IsInjective, Grows, WalletsAt, Minted
<1>7. WalletRequest(request[c])'
  BY <1>1, <1>2, <1>3, <1>4 DEF WalletRequest, WalletsAt
<1> QED
  BY <1>1, <1>5, <1>6, <1>7, StepKeepsOthers DEF RequestFits

\* A page is read and nothing written.
LEMMA ListPageInv ==
  ASSUME QueryInv, NEW c \in Clients, ListPage(c)
  PROVE  QueryInv'
<1> DEFINE r == request[c]
<1>1. r.pc = "found" /\ UNCHANGED <<now, tables>>
  BY DEF ListPage
<1>2. WalletRequest(r)
  BY <1>1 DEF QueryInv, RequestFits, MintRequest, DealRequest, Idle
<1>3. PICK pc \in {"find", "done"} : \E seen, page, calm :
        Goes(c, [r EXCEPT !.seen = seen, !.page = page, !.pc = pc, !.calm = calm])
  <2>1. PICK s \in Sorted(r.q, Rows(r.q, r.wallet)) :
       LET rows == Page(s, r.q.limit, r.page)
           ids == [i \in DOMAIN rows |-> rows[i][1]]
       IN  Goes(c, [r EXCEPT !.seen = @ \o ids, !.page = @ + 1,
                             !.pc = IF rows = <<>> \/ r.q.limit = NoLimit THEN "done" ELSE "find",
                             !.calm = @ /\ IdsOf(r.q, r.wallet) = r.first])
    BY DEF ListPage
  <2> DEFINE rows == Page(s, r.q.limit, r.page)
             seen == r.seen \o [i \in DOMAIN rows |-> rows[i][1]]
             pc == IF rows = <<>> \/ r.q.limit = NoLimit THEN "done" ELSE "find"
             calm == r.calm /\ IdsOf(r.q, r.wallet) = r.first
  <2>2. Goes(c, [r EXCEPT !.seen = seen, !.page = r.page + 1, !.pc = pc, !.calm = calm])
    BY <2>1
  <2>3. pc \in {"find", "done"}
    OBVIOUS
  <2> HIDE DEF pc, seen, calm
  <2> QED
    BY <2>2, <2>3
<1>3a. PICK seen, page, calm :
         Goes(c, [r EXCEPT !.seen = seen, !.page = page, !.pc = pc, !.calm = calm])
  BY <1>3
<1> DEFINE n == [r EXCEPT !.seen = seen, !.page = page, !.pc = pc, !.calm = calm]
<1>4. /\ DOMAIN n = DOMAIN r /\ n.pc = pc /\ n.kind = r.kind
      /\ n.address = r.address /\ n.known = r.known
  BY <1>2 DEF WalletRequest
<1>5. Goes(c, n)
  BY <1>3a
<1> HIDE DEF n
<1>6. request'[c] = n
  BY <1>5 DEF Goes, QueryInv
<1>7. TablesFit' /\ PaidOrFree' /\ IsInjective(wallet)' /\ Grows
  BY <1>1, SameTables
<1>8. wallet' = wallet
  BY <1>1 DEF tables
<1>9. WalletRequest(request[c])'
  BY <1>2, <1>4, <1>6, <1>8 DEF WalletRequest, WalletsAt
<1> QED
  BY <1>5, <1>7, <1>9, StepKeepsOthers DEF RequestFits

\* A mint request notes whether there is a row.
LEMMA AskMintInv ==
  ASSUME QueryInv, NEW c \in Clients, NEW u \in DOMAIN upload, AskMint(c, u)
  PROVE  QueryInv'
<1> DEFINE n == [pc |-> "checkMint", kind |-> "mint", target |-> u, before |-> Minted(u) # {}]
<1>1. Goes(c, n) /\ UNCHANGED <<now, tables>>
  BY DEF AskMint
<1>2. TablesFit' /\ PaidOrFree' /\ IsInjective(wallet)' /\ Grows
  BY <1>1, SameTables
<1>3. /\ {"pc", "kind", "target", "before"} \subseteq DOMAIN n
      /\ n.pc = "checkMint" /\ n.kind = "mint" /\ n.target = u
      /\ n.before => Minted(u) # {}
  OBVIOUS
<1> HIDE DEF n
<1>4. request'[c] = n
  BY <1>1 DEF Goes, QueryInv
<1>5. upload' = upload /\ mint' = mint
  BY <1>1 DEF tables
<1>6. MintRequest(request[c])'
  BY <1>3, <1>4, <1>5 DEF MintRequest, Minted
<1> QED
  BY <1>1, <1>2, <1>6, StepKeepsOthers DEF RequestFits

\* The look-up finds a row that was there when the request began.
LEMMA GetSourceFileMintInv ==
  ASSUME QueryInv, NEW c \in Clients, GetSourceFileMint(c)
  PROVE  QueryInv'
<1> DEFINE r == request[c]
           pc == IF Minted(r.target) = {} THEN "insertMint" ELSE "failed"
           n == [r EXCEPT !.pc = pc]
<1>1. r.pc = "checkMint" /\ Goes(c, n) /\ UNCHANGED <<now, tables>>
  BY DEF GetSourceFileMint
<1>2. TablesFit' /\ PaidOrFree' /\ IsInjective(wallet)' /\ Grows
  BY <1>1, SameTables
<1>3. MintRequest(r)
  BY <1>1 DEF QueryInv, RequestFits, WalletRequest, DealRequest, Idle
<1>4. pc \in {"insertMint", "failed"} /\ (r.before => pc = "failed")
  BY <1>3 DEF MintRequest
<1> HIDE DEF pc
<1>5. /\ DOMAIN n = DOMAIN r /\ n.pc = pc /\ n.kind = r.kind
      /\ n.target = r.target /\ n.before = r.before
  BY <1>3 DEF MintRequest
<1> HIDE DEF n
<1>6. request'[c] = n
  BY <1>1 DEF Goes, QueryInv
<1>7. upload' = upload /\ mint' = mint
  BY <1>1 DEF tables
<1>8. MintRequest(request[c])'
  BY <1>3, <1>4, <1>5, <1>6, <1>7 DEF MintRequest, Minted
<1> QED
  BY <1>1, <1>2, <1>8, StepKeepsOthers DEF RequestFits

\* A row is added, whatever others there are by now.
LEMMA CreateSourceFileMintInv ==
  ASSUME QueryInv, NEW c \in Clients, CreateSourceFileMint(c)
  PROVE  QueryInv'
<1> DEFINE r == request[c]
           n == [r EXCEPT !.pc = "done"]
<1>1. /\ r.pc = "insertMint" /\ mint' = Append(mint, r.target) /\ Goes(c, n)
      /\ UNCHANGED <<now, wallet, isDao, upload, transaction, unlocked>>
  BY DEF CreateSourceFileMint
<1>2. MintRequest(r)
  BY <1>1 DEF QueryInv, RequestFits, WalletRequest, DealRequest, Idle
<1>3. /\ DOMAIN n = DOMAIN r /\ n.pc = "done" /\ n.kind = r.kind
      /\ n.target = r.target /\ n.before = r.before
  BY <1>2 DEF MintRequest
<1> HIDE DEF n
<1>4. request'[c] = n
  BY <1>1 DEF Goes, QueryInv
<1>5. mint \in Seq(DOMAIN upload) /\ r.target \in DOMAIN upload
  BY <1>2 DEF QueryInv, TablesFit, MintRequest
<1>6. /\ mint' \in Seq(DOMAIN upload)
      /\ \A k \in DOMAIN mint : k \in DOMAIN mint' /\ mint'[k] = mint[k]
  BY <1>1, <1>5
<1>7. TablesFit'
  BY <1>1, <1>6 DEF QueryInv, TablesFit, Upload, Transaction
<1>8. PaidOrFree' /\ IsInjective(wallet)'
  BY <1>1 DEF QueryInv, PaidOrFree, Paid, IsInjective
<1>9. Grows
  BY <1>1, <1>6 DEF Grows, WalletsAt, Minted
<1>10. ~r.before
  BY <1>1, <1>2 DEF MintRequest
<1>11. MintRequest(request[c])'
  BY <1>1, <1>2, <1>3, <1>4, <1>10 DEF MintRequest
<1> QED
  BY <1>1, <1>7, <1>8, <1>9, <1>11, StepKeepsOthers DEF RequestFits

\* A request about a deal has read nothing yet.
LEMMA AskDealInv ==
  ASSUME QueryInv, NEW c \in Clients, NEW u \in DOMAIN upload, AskDeal(c, u)
  PROVE  QueryInv'
<1>d. PICK deal \in DOMAIN upload :
        Goes(c, [pc |-> "readDeal", kind |-> "deal", target |-> u, deal |-> deal,
                 unlocked |-> FALSE, paid |-> FALSE, inCar |-> FALSE])
  BY DEF AskDeal
<1> DEFINE n == [pc |-> "readDeal", kind |-> "deal", target |-> u, deal |-> deal,
                 unlocked |-> FALSE, paid |-> FALSE, inCar |-> FALSE]
<1>1. Goes(c, n) /\ UNCHANGED <<now, tables>>
  BY <1>d DEF AskDeal
<1>2. TablesFit' /\ PaidOrFree' /\ IsInjective(wallet)' /\ Grows
  BY <1>1, SameTables
<1>3. /\ {"pc", "kind", "target", "deal", "unlocked", "paid", "inCar"} \subseteq DOMAIN n
      /\ n.pc = "readDeal" /\ n.kind = "deal" /\ n.target = u /\ ~n.unlocked
  OBVIOUS
<1> HIDE DEF n
<1>4. request'[c] = n
  BY <1>1 DEF Goes, QueryInv
<1>5. upload' = upload
  BY <1>1 DEF tables
<1>6. DealRequest(request[c])'
  BY <1>3, <1>4, <1>5 DEF DealRequest
<1> QED
  BY <1>1, <1>2, <1>6, StepKeepsOthers DEF RequestFits

\* The deal is read first: what it depends on is there for the reads after it.
LEMMA GetSourceFileUploadDealInv ==
  ASSUME QueryInv, NEW c \in Clients, GetSourceFileUploadDeal(c)
  PROVE  QueryInv'
<1> DEFINE r == request[c]
           u == r.target
<1>1. UNCHANGED <<now, tables>> /\ r.pc \in {"readDeal", "readPayment", "readCar"}
  BY DEF GetSourceFileUploadDeal
<1>2. TablesFit' /\ PaidOrFree' /\ IsInjective(wallet)' /\ Grows
  BY <1>1, SameTables
<1>3. DealRequest(r)
  BY <1>1 DEF QueryInv, RequestFits, WalletRequest, MintRequest, Idle
<1>4. u \in DOMAIN upload /\ (u \in unlocked => upload[u].status = "TaskCreated")
  BY <1>3 DEF DealRequest, QueryInv, TablesFit
<1>5. u \in unlocked => Paid(u) \/ upload[u].isFree
  BY <1>4 DEF QueryInv, PaidOrFree
<1>6. upload' = upload /\ unlocked' = unlocked
  BY <1>1 DEF tables
<1>7. CASE r.pc = "readDeal"
  <2> DEFINE found == r.deal \in unlocked
             n == [r EXCEPT !.unlocked = found, !.pc = "readPayment"]
  <2>1. Goes(c, n)
    BY <1>7 DEF GetSourceFileUploadDeal
  <2>2. request'[c] = n
    BY <2>1 DEF Goes, QueryInv
  <2>3. /\ DOMAIN n = DOMAIN r /\ n.pc = "readPayment" /\ n.kind = r.kind
        /\ n.target = u /\ n.deal = r.deal
        /\ n.unlocked /\ n.deal = u => u \in unlocked
    BY <1>3 DEF DealRequest
  <2> HIDE DEF n
  <2>4. DealRequest(request[c])'
    BY <1>3, <1>6, <2>2, <2>3 DEF DealRequest
  <2> QED
    BY <1>2, <2>1, <2>4, StepKeepsOthers DEF RequestFits
<1>8. CASE r.pc = "readPayment"
  <2> DEFINE found == Paid(u)
             n == [r EXCEPT !.paid = found, !.pc = "readCar"]
  <2>1. Goes(c, n)
    BY <1>8 DEF GetSourceFileUploadDeal
  <2>2. request'[c] = n
    BY <2>1 DEF Goes, QueryInv
  <2>3. /\ DOMAIN n = DOMAIN r /\ n.pc = "readCar" /\ n.kind = r.kind
        /\ n.target = u /\ n.deal = r.deal /\ n.unlocked = r.unlocked /\ n.paid = found
    BY <1>3 DEF DealRequest
  <2>4. n.unlocked /\ n.deal = u => n.paid \/ upload[u].isFree
    BY <1>3, <1>5, <2>3 DEF DealRequest
  <2> HIDE DEF n, found
  <2>5. DealRequest(request[c])'
    BY <1>3, <1>6, <2>2, <2>3, <2>4 DEF DealRequest
  <2> QED
    BY <1>2, <2>1, <2>5, StepKeepsOthers DEF RequestFits
<1>9. CASE r.pc = "readCar"
  <2> DEFINE found == upload[u].status = "TaskCreated"
             n == [r EXCEPT !.inCar = found, !.pc = "done"]
  <2>1. Goes(c, n)
    BY <1>9 DEF GetSourceFileUploadDeal
  <2>2. request'[c] = n
    BY <2>1 DEF Goes, QueryInv
  <2>3. /\ DOMAIN n = DOMAIN r /\ n.pc = "done" /\ n.kind = r.kind
        /\ n.target = u /\ n.deal = r.deal
        /\ n.unlocked = r.unlocked /\ n.inCar = found /\ n.paid = r.paid
    BY <1>3 DEF DealRequest
  <2>4. n.unlocked /\ n.deal = u => n.inCar /\ (n.paid \/ upload[u].isFree)
    BY <1>3, <1>4, <1>9, <2>3 DEF DealRequest
  <2> HIDE DEF n, found
  <2>5. DealRequest(request[c])'
    BY <1>3, <1>6, <2>2, <2>3, <2>4 DEF DealRequest
  <2> QED
    BY <1>2, <2>1, <2>5, StepKeepsOthers DEF RequestFits
<1> QED
  BY <1>1, <1>7, <1>8, <1>9

\* A client that has its answer may ask again.
LEMMA AnsweredInv ==
  ASSUME QueryInv, NEW c \in Clients, Answered(c)
  PROVE  QueryInv'
<1>1. Goes(c, Idle) /\ UNCHANGED <<now, tables>>
  BY DEF Answered
<1>2. request'[c] = Idle
  BY <1>1 DEF Goes, QueryInv
<1>3. RequestFits(c)'
  BY <1>2 DEF RequestFits, Idle
<1> QED
  BY <1>1, <1>3, SameTables, StepKeepsOthers

-----------------------------------------------------------------------------
\* Every step keeps the invariant.
LEMMA QueryStepInv == QueryInv /\ [QueryNext]_queryVars => QueryInv'
<1> SUFFICES ASSUME QueryInv, [QueryNext]_queryVars PROVE QueryInv'
  OBVIOUS
<1>1. CASE World
  BY <1>1, SaveFileInv, PayInv, PackInv, UnlockInv, TickInv DEF World
<1>2. CASE \E c \in Clients : RequestStep(c)
  <2>1. PICK c \in Clients : RequestStep(c)
    BY <1>2
  <2>2. CASE \E address \in Addresses :
               \/ \E q \in Queries : GetDeals(c, q, address) \/ DownloadDeals(c, q, address)
                                     \/ GetUserBillingHistory(c, q, address)
               \/ AskRegisterDao(c, address)
    BY <2>2, AskWalletInv DEF GetDeals, DownloadDeals, GetUserBillingHistory
  <2>3. CASE \E u \in DOMAIN upload : AskMint(c, u) \/ AskDeal(c, u)
    BY <2>3, AskMintInv, AskDealInv
  <2>4. CASE \/ GetWalletByAddress(c) \/ SaveWallet(c) \/ SetWalletAsDao(c) \/ ListPage(c)
             \/ GetSourceFileMint(c) \/ CreateSourceFileMint(c) \/ GetSourceFileUploadDeal(c)
    BY <2>4, GetWalletByAddressInv, SaveWalletInv, SetWalletAsDaoInv, ListPageInv,
       GetSourceFileMintInv, CreateSourceFileMintInv, GetSourceFileUploadDealInv
  <2> QED
    BY <2>1, <2>2, <2>3, <2>4 DEF RequestStep
<1>3. CASE \E c \in Clients : Answered(c)
  BY <1>3, AnsweredInv
<1>4. CASE UNCHANGED queryVars
  <2>1. UNCHANGED <<now, tables>> /\ UNCHANGED request
    BY <1>4 DEF queryVars
  <2> QED
    BY <2>1, SameTables, WorldKeepsRequests
<1> QED
  BY <1>1, <1>2, <1>3, <1>4 DEF QueryNext

\* The invariant holds whatever clients ask and whatever goes on meanwhile.
THEOREM QueryInvariance == QuerySpec => []QueryInv
<1> QED
  BY QueryInitInv, QueryStepInv, PTL DEF QuerySpec

\* Rows refer to rows there are, and nothing is unlocked that is not in a car.
THEOREM QueryTypeCorrect == QuerySpec => []QueryTypeOK
<1> QED
  BY QueryInvariance, QueryInvSuffices, PTL

\* Whatever two requests do at once: a second mint row comes only from one that began
\* before the first, a request fails for its wallet only if it began before there was
\* one, and no address has two wallets.
THEOREM OnlyOverlapsAreMissed == QuerySpec => []ChecksMissOnlyOverlaps
<1> QED
  BY QueryInvariance, QueryInvSuffices, PTL

\* However far payments, cars and deals come between its three reads, an answer that
\* calls a deal unlocked has its car and its payment.
THEOREM UnlockedIsShownPaid == QuerySpec => []UnlockedShowsPayment
<1> QED
  BY QueryInvariance, QueryInvSuffices, PTL

-----------------------------------------------------------------------------
(***************************************************************************)
(* Lists.  A page is cut from the rows in order, and where no two rows     *)
(* have the same key there is only one order: the pages of a walk are      *)
(* pieces of one sequence of ids, even if rows come behind it meanwhile.   *)
(***************************************************************************)
Table(q) == IF q.list = "uploads" THEN DOMAIN upload ELSE DOMAIN transaction
IdKey(q, i) == Key(q, <<i, 0>>)

\* What comes before b has another key, or comes behind.
Behind(q, a, b) ==
  IF q.ascend THEN Less(IdKey(q, b), IdKey(q, a)) ELSE Less(IdKey(q, a), IdKey(q, b))

\* The ids have different keys and are selected once.
Clean(q, I) ==
  /\ \A a, b \in I : IdKey(q, a) = IdKey(q, b) => a = b
  /\ q.list = "uploads" => \A u \in I : \A j, k \in Minted(u) : j = k

Order(q, I, t) ==
  /\ t \in Seq(I)
  /\ \A i \in I : \E j \in 1..Len(t) : t[j] = i
  /\ \A i, j \in 1..Len(t) : /\ i < j => ~Behind(q, t[i], t[j])
                             /\ t[i] = t[j] => i = j

\* Of the first n of t, seen has what is in first and none twice.
IsSeen(seen, t, first, n) ==
  /\ seen \in Seq(Nat) /\ \A i, j \in 1..Len(seen) : seen[i] = seen[j] => i = j
  /\ \A i \in 1..Len(seen) : \E j \in 1..Len(t) : j <= n /\ seen[i] = t[j]
  /\ \A j \in 1..Len(t) : j <= n /\ t[j] \in first => \E i \in 1..Len(seen) : seen[i] = t[j]

\* The n of t that follow the first m.
IsPiece(ids, t, m, n) ==
  /\ ids \in Seq(Nat)
  /\ \A i \in 1..Len(ids) : m + i \in 1..Len(t) /\ i <= n /\ ids[i] = t[m + i]
  /\ \A j \in 1..Len(t) : m < j /\ j <= m + n => j - m \in 1..Len(ids)

\* Of two different keys one is less.
LEMMA LessTotal ==
  ASSUME NEW s \in Seq(Int), NEW t \in Seq(Int), s # t
  PROVE  Less(s, t) \/ Less(t, s)
<1> DEFINE Bad == {i \in 1..Len(s) : i <= Len(t) /\ s[i] # t[i]}
<1>1. Len(s) \in Nat /\ Len(t) \in Nat /\ DOMAIN s = 1..Len(s) /\ DOMAIN t = 1..Len(t)
  OBVIOUS
<1>2. CASE Bad # {}
  <2>1. Bad \in SUBSET Nat
    BY <1>1
  <2>2. PICK n \in Bad : \A m \in Bad : ~(m < n)
    <3> HIDE DEF Bad
    <3> QED BY <1>2, <2>1, NaturalInduction
  <2>3. /\ n \in (DOMAIN s) \cap (DOMAIN t) /\ s[n] # t[n] /\ s[n] \in Int /\ t[n] \in Int
        /\ n \in Nat
    BY <1>1
  <2>4. \A j \in 1..(n - 1) : s[j] = t[j]
    <3>1. ASSUME NEW j \in 1..(n - 1), s[j] # t[j] PROVE FALSE
      <4>1. j \in Bad /\ j < n
        BY <1>1, <2>3, <3>1
      <4> QED BY <2>2, <4>1
    <3> QED BY <3>1
  <2>5. s[n] < t[n] \/ t[n] < s[n]
    BY <2>3
  <2> HIDE DEF Bad
  <2> QED BY <2>3, <2>4, <2>5 DEF Less
<1>3. CASE Bad = {}
  <2>1. \A i \in 1..Len(s) : i <= Len(t) => s[i] = t[i]
    BY <1>3
  <2> HIDE DEF Bad
  <2>2. CASE Len(s) <= Len(t)
    <3>1. SubSeq(s, 1, Len(s)) = SubSeq(t, 1, Len(s))
      BY <1>1, <2>1, <2>2
    <3> QED BY <2>2, <3>1 DEF Less, IsPrefix
  <2>3. CASE Len(t) <= Len(s)
    <3>1. SubSeq(t, 1, Len(t)) = SubSeq(s, 1, Len(t))
      BY <1>1, <2>1, <2>3
    <3> QED BY <2>3, <3>1 DEF Less, IsPrefix
  <2> QED BY <1>1, <2>2, <2>3
<1> QED BY <1>2, <1>3

\* Of two ids with different keys one comes behind the other.
LEMMA BehindTotal ==
  ASSUME NEW q, NEW a, NEW b, IdKey(q, a) \in Seq(Int), IdKey(q, b) \in Seq(Int),
         IdKey(q, a) # IdKey(q, b)
  PROVE  Behind(q, a, b) \/ Behind(q, b, a)
BY LessTotal DEF Behind

\* If all that B has beyond A comes behind it, an order of A is how any order of B begins.
LEMMA OrderBegins ==
  ASSUME NEW q, NEW A, NEW B, NEW s, NEW t, A \subseteq B, Order(q, A, s), Order(q, B, t),
         \A a, b \in B : a # b => Behind(q, a, b) \/ Behind(q, b, a),
         \A a \in A, b \in B \ A : Behind(q, b, a)
  PROVE  Len(s) <= Len(t) /\ \A i \in 1..Len(s) : s[i] = t[i]
<1>1. /\ s \in Seq(A) /\ Len(s) \in Nat /\ \A i \in 1..Len(s) : s[i] \in A
      /\ \A i \in A : \E j \in 1..Len(s) : s[j] = i
      /\ \A i, j \in 1..Len(s) : i < j => ~Behind(q, s[i], s[j])
      /\ \A i, j \in 1..Len(s) : s[i] = s[j] => i = j
  <2>1. s \in Seq(A) /\ \A i \in A : \E j \in 1..Len(s) : s[j] = i
    BY DEF Order
  <2>2. \A i, j \in 1..Len(s) : (i < j => ~Behind(q, s[i], s[j])) /\ (s[i] = s[j] => i = j)
    BY DEF Order
  <2>3. Len(s) \in Nat /\ \A i \in 1..Len(s) : s[i] \in A
    BY <2>1
  <2> QED BY <2>1, <2>2, <2>3
<1>2. /\ t \in Seq(B) /\ Len(t) \in Nat /\ \A i \in 1..Len(t) : t[i] \in B
      /\ \A i \in B : \E j \in 1..Len(t) : t[j] = i
      /\ \A i, j \in 1..Len(t) : i < j => ~Behind(q, t[i], t[j])
      /\ \A i, j \in 1..Len(t) : t[i] = t[j] => i = j
  <2>1. t \in Seq(B) /\ \A i \in B : \E j \in 1..Len(t) : t[j] = i
    BY DEF Order
  <2>2. \A i, j \in 1..Len(t) : (i < j => ~Behind(q, t[i], t[j])) /\ (t[i] = t[j] => i = j)
    BY DEF Order
  <2>3. Len(t) \in Nat /\ \A i \in 1..Len(t) : t[i] \in B
    BY <2>1
  <2> QED BY <2>1, <2>2, <2>3
<1> DEFINE Bad == {i \in 1..Len(s) : ~(i <= Len(t) /\ s[i] = t[i])}
<1>3. ASSUME NEW i \in Bad, \A k \in Bad : ~(k < i) PROVE FALSE
  <2>1. i \in 1..Len(s) /\ i \in Nat /\ ~(i <= Len(t) /\ s[i] = t[i])
    BY <1>1
  <2>2. \A k \in 1..(i - 1) : k \in 1..Len(s) /\ k \in 1..Len(t) /\ s[k] = t[k]
    <3>1. ASSUME NEW k \in 1..(i - 1) PROVE k \in 1..Len(s) /\ k \in 1..Len(t) /\ s[k] = t[k]
      <4>0. Len(s) \in Nat /\ i \in 1..Len(s) /\ k \in 1..(i - 1)
        BY <1>1, <2>1
      <4>1. k \in 1..Len(s) /\ k < i
        BY ONLY <4>0
      <4>2. k \notin Bad
        BY <1>3, <4>1
      <4> QED BY <1>1, <1>2, <4>1, <4>2
    <3> QED BY <3>1
  <2> HIDE DEF Bad
  <2>3. PICK j \in 1..Len(t) : t[j] = s[i]
    BY <1>1, <1>2, <2>1
  <2>4. ~(j < i)
    <3>1. SUFFICES ASSUME j < i PROVE FALSE
      OBVIOUS
    <3>2. j \in 1..(i - 1)
      BY <1>2, <2>1, <3>1
    <3>3. j \in 1..Len(s) /\ s[j] = s[i]
      BY <2>2, <2>3, <3>2
    <3> QED BY <1>1, <2>1, <3>1, <3>3
  <2>5. j # i
    BY <1>2, <2>1, <2>3
  <2>6. i < j /\ i \in 1..Len(t)
    BY <1>2, <2>1, <2>4, <2>5
  <2>7. t[i] # s[i] /\ ~Behind(q, t[i], s[i])
    BY <1>2, <2>3, <2>5, <2>6
  <2>8. Behind(q, s[i], t[i])
    BY <1>1, <1>2, <2>1, <2>6, <2>7
  <2>9. CASE t[i] \in A
    <3>1. PICK k \in 1..Len(s) : s[k] = t[i]
      BY <1>1, <2>9
    <3>2. ~(k < i)
      <4>1. SUFFICES ASSUME k < i PROVE FALSE
        OBVIOUS
      <4>2. k \in 1..(i - 1)
        BY <1>1, <2>1, <4>1
      <4>3. k \in 1..Len(t) /\ t[k] = t[i]
        BY <2>2, <3>1, <4>2
      <4>4. k = i
        BY <1>2, <2>6, <4>3
      <4> QED BY <1>1, <2>1, <4>1, <4>4
    <3>3. k # i
      BY <2>7, <3>1
    <3>4. i < k
      BY <1>1, <2>1, <3>2, <3>3
    <3> QED BY <1>1, <2>1, <2>8, <3>1, <3>4
  <2>10. CASE t[i] \notin A
    BY <1>1, <1>2, <2>1, <2>6, <2>7, <2>10
  <2> QED BY <2>9, <2>10
<1>4. Bad = {}
  <2>1. Bad \in SUBSET Nat
    BY <1>1
  <2> HIDE DEF Bad
  <2> QED BY <1>3, <2>1, NaturalInduction
<1>5. \A i \in 1..Len(s) : i <= Len(t) /\ s[i] = t[i]
  BY <1>4
<1>6. Len(s) <= Len(t)
  <2>1. CASE Len(s) = 0
    BY <1>2, <2>1
  <2>2. CASE Len(s) # 0
    BY <1>1, <1>5, <2>2
  <2> QED BY <2>1, <2>2
<1> QED BY <1>5, <1>6

-----------------------------------------------------------------------------
\* The key of a row is that of its id, and a sequence of numbers.
LEMMA KeyType ==
  ASSUME TablesFit, NEW q \in Queries, NEW i \in Table(q)
  PROVE  IdKey(q, i) \in Seq(Int)
<1>1. q \in Query /\ Files \subseteq [name : Nat, size : Nat] /\ Amounts \subseteq Seq(0..9)
  BY QueryAssumption
<1>2. \A n \in Int : <<n>> \in Seq(Int)
  OBVIOUS
<1>3. \A u \in DOMAIN upload : /\ upload[u].file \in Files /\ upload[u].at \in Int
                               /\ upload[u].file.name \in Int /\ upload[u].file.size \in Int
  <2>1. ASSUME NEW u \in DOMAIN upload
        PROVE  upload[u].file \in Files /\ upload[u].at \in Int
    <3>1. upload[u] \in Upload /\ now \in Nat
      BY DEF TablesFit
    <3> QED BY <3>1 DEF Upload
  <2> QED BY <1>1, <2>1
<1>4. \A t \in DOMAIN transaction : /\ transaction[t].upload \in DOMAIN upload
                                    /\ transaction[t].at \in Int /\ transaction[t].amount \in Seq(Int)
  <2>1. ASSUME NEW t \in DOMAIN transaction
        PROVE  /\ transaction[t].upload \in DOMAIN upload
               /\ transaction[t].at \in Int /\ transaction[t].amount \in Seq(0..9)
    <3>1. transaction[t] \in Transaction /\ now \in Nat
      BY DEF TablesFit
    <3> QED BY <1>1, <3>1 DEF Transaction
  <2>2. Seq(0..9) \subseteq Seq(Int)
    OBVIOUS
  <2> QED BY <2>1, <2>2
<1>5. CASE q.list = "uploads"
  <2>1. q.orderBy \in {"file_name", "file_size", "upload_at"} /\ i \in DOMAIN upload
    BY <1>1, <1>5 DEF Query, OrderBy, Table
  <2> QED BY <1>2, <1>3, <1>5, <2>1 DEF IdKey, Key, UploadOf
<1>6. CASE q.list # "uploads"
  <2>1. q.orderBy \in {"file_name", "pay_amount", "pay_at"} /\ i \in DOMAIN transaction
    BY <1>1, <1>6 DEF Query, OrderBy, Table
  <2> QED BY <1>2, <1>3, <1>4, <1>6, <2>1 DEF IdKey, Key, UploadOf
<1> QED BY <1>5, <1>6

\* The second component of a row has no part in its key.
LEMMA KeyOfRow ==
  ASSUME NEW q, NEW row, q \in Queries
  PROVE  Key(q, row) = IdKey(q, row[1])
<1>1. q \in Query
  BY QueryAssumption
<1>2. q.orderBy \in {"file_name", "file_size", "upload_at", "pay_amount", "pay_at"}
  BY <1>1 DEF Query, OrderBy
<1>3. <<row[1], 0>>[1] = row[1]
  OBVIOUS
<1>4. UploadOf(q, <<row[1], 0>>) = UploadOf(q, row)
  BY <1>3 DEF UploadOf
<1> QED BY <1>2, <1>3, <1>4 DEF IdKey, Key

\* A list has finitely many rows, of the ids of its table.
LEMMA RowsFinite ==
  ASSUME TablesFit, NEW q, NEW w
  PROVE  IsFiniteSet(Rows(q, w)) /\ IdsOf(q, w) \subseteq Table(q)
<1>1. /\ DOMAIN upload = 1..Len(upload) /\ Len(upload) \in Nat /\ Len(mint) \in Nat
      /\ DOMAIN transaction = 1..Len(transaction) /\ Len(transaction) \in Nat
  BY DEF TablesFit
<1>2. /\ IsFiniteSet(DOMAIN upload) /\ IsFiniteSet(DOMAIN transaction)
      /\ IsFiniteSet(0..Len(mint)) /\ IsFiniteSet({0})
  <2>1. PICK one \in Int : one = 1
    OBVIOUS
  <2>2. PICK zero \in Int : zero = 0
    OBVIOUS
  <2>3. Len(upload) \in Int /\ Len(transaction) \in Int /\ Len(mint) \in Int
    BY <1>1
  <2>4. /\ IsFiniteSet(one..Len(upload)) /\ IsFiniteSet(one..Len(transaction))
        /\ IsFiniteSet(zero..Len(mint)) /\ IsFiniteSet({zero})
    BY <2>3, FS_Interval, FS_Singleton
  <2> QED BY <1>1, <2>1, <2>2, <2>4
<1>3. IsFiniteSet((DOMAIN upload) \X (0..Len(mint))) /\ IsFiniteSet((DOMAIN transaction) \X {0})
  BY <1>2, FS_Product
<1>4. CASE q.list = "uploads"
  <2>1. Rows(q, w) \subseteq (DOMAIN upload) \X (0..Len(mint))
    BY <1>4 DEF Rows, UploadRows
  <2>2. \A row \in Rows(q, w) : row[1] \in DOMAIN upload
    BY <2>1
  <2> QED BY <1>3, <1>4, <2>1, <2>2, FS_Subset DEF IdsOf, Table
<1>5. CASE q.list # "uploads"
  <2>1. Rows(q, w) \subseteq (DOMAIN transaction) \X {0}
    BY <1>5 DEF Rows, BillingRows
  <2>2. \A row \in Rows(q, w) : row[1] \in DOMAIN transaction
    BY <2>1
  <2> QED BY <1>3, <1>5, <2>1, <2>2, FS_Subset DEF IdsOf, Table
<1> QED BY <1>4, <1>5

\* Where each id is selected once, a row is known by its id.
LEMMA RowsById ==
  ASSUME NEW q, NEW w, Clean(q, IdsOf(q, w)), NEW a \in Rows(q, w), NEW b \in Rows(q, w),
         a[1] = b[1]
  PROVE  a = b
<1>1. CASE q.list = "uploads"
  <2>1. a \in UploadRows(q, w) /\ b \in UploadRows(q, w) /\ a[1] \in IdsOf(q, w)
    BY <1>1 DEF Rows, IdsOf
  <2>2. /\ a = <<a[1], a[2]>> /\ b = <<b[1], b[2]>>
        /\ IF Minted(a[1]) = {} THEN a[2] = 0 ELSE a[2] \in Minted(a[1])
        /\ IF Minted(a[1]) = {} THEN b[2] = 0 ELSE b[2] \in Minted(a[1])
    BY <2>1 DEF UploadRows
  <2>3. \A j, k \in Minted(a[1]) : j = k
    BY <1>1, <2>1 DEF Clean
  <2> QED BY <2>2, <2>3
<1>2. CASE q.list # "uploads"
  BY <1>2 DEF Rows, BillingRows
<1> QED BY <1>1, <1>2

\* Different keys of rows are different keys of ids.
LEMMA DistinctIsClean ==
  ASSUME TablesFit, NEW q \in Queries, NEW w, DistinctKeys(q, w)
  PROVE  Clean(q, IdsOf(q, w))
<1>1. ASSUME NEW a \in IdsOf(q, w), NEW b \in IdsOf(q, w), IdKey(q, a) = IdKey(q, b)
      PROVE  a = b
  <2>1. PICK x \in Rows(q, w) : x[1] = a
    BY DEF IdsOf
  <2>2. PICK y \in Rows(q, w) : y[1] = b
    BY DEF IdsOf
  <2>3. Key(q, x) = Key(q, y)
    BY <1>1, <2>1, <2>2, KeyOfRow
  <2> QED BY <2>1, <2>2, <2>3 DEF DistinctKeys
<1>2. ASSUME q.list = "uploads", NEW u \in IdsOf(q, w), NEW j \in Minted(u), NEW k \in Minted(u)
      PROVE  j = k
  <2>1. PICK x \in UploadRows(q, w) : x[1] = u
    BY <1>2 DEF IdsOf, Rows
  <2>2. Len(mint) \in Nat /\ DOMAIN mint = 1..Len(mint)
    BY DEF TablesFit
  <2>3. j \in 0..Len(mint) /\ k \in 0..Len(mint) /\ Minted(u) # {}
    BY <1>2, <2>2 DEF Minted
  <2>4. /\ u \in DOMAIN upload /\ upload[u].wallet = w /\ InStatus(q, upload[u].status)
        /\ q.minted # "n"
    BY <2>1, <2>3 DEF UploadRows
  <2>5. <<u, j>> \in UploadRows(q, w) /\ <<u, k>> \in UploadRows(q, w)
    BY <1>2, <2>3, <2>4 DEF UploadRows
  <2>6. Key(q, <<u, j>>) = Key(q, <<u, k>>)
    BY KeyOfRow
  <2>7. <<u, j>> = <<u, k>>
    BY <1>2, <2>5, <2>6 DEF DistinctKeys, Rows
  <2> QED BY <2>7
<1> QED BY <1>1, <1>2 DEF Clean

\* The ids of sorted rows are in order.
LEMMA SortedIsOrder ==
  ASSUME TablesFit, NEW q \in Queries, NEW w, Clean(q, IdsOf(q, w)),
         NEW s \in Sorted(q, Rows(q, w))
  PROVE  /\ s \in Seq(Rows(q, w))
         /\ Order(q, IdsOf(q, w), [i \in 1..Len(s) |-> s[i][1]])
<1> DEFINE n == Cardinality(Rows(q, w))
           t == [i \in 1..Len(s) |-> s[i][1]]
<1>1. /\ IsFiniteSet(Rows(q, w)) /\ n \in Nat
  BY RowsFinite, FS_CardinalityType
<1>2. /\ s \in [1..n -> Rows(q, w)] /\ \A i, j \in 1..n : i # j => s[i] # s[j]
      /\ \A i, j \in DOMAIN s : i < j => IF q.ascend THEN ~Less(Key(q, s[j]), Key(q, s[i]))
                                         ELSE ~Less(Key(q, s[i]), Key(q, s[j]))
  BY DEF Sorted, SetToSeqs
<1>3. /\ DOMAIN s = 1..n /\ s \in Seq(Rows(q, w)) /\ Len(s) = n
      /\ \A i \in 1..n : s[i] \in Rows(q, w)
  BY <1>1, <1>2
<1>4. \A row \in Rows(q, w) : \E j \in 1..n : s[j] = row
  <2>1. s \in Injection(1..n, Rows(q, w))
    BY <1>2 DEF Injection, IsInjective
  <2>2. Cardinality(1..n) = n
    BY <1>1, FS_Interval
  <2>3. s \in Surjection(1..n, Rows(q, w))
    BY <1>1, <2>1, <2>2, FS_Injection
  <2> QED BY <2>3 DEF Surjection
<1>5. \A i \in 1..n : t[i] = s[i][1] /\ t[i] \in IdsOf(q, w)
  BY <1>3 DEF IdsOf
<1>6. t \in Seq(IdsOf(q, w)) /\ Len(t) = n
  BY <1>1, <1>3, <1>5
<1>7. \A i \in IdsOf(q, w) : \E j \in 1..n : t[j] = i
  <2>1. ASSUME NEW i \in IdsOf(q, w) PROVE \E j \in 1..n : t[j] = i
    <3>1. PICK row \in Rows(q, w) : row[1] = i
      BY DEF IdsOf
    <3>2. PICK j \in 1..n : s[j] = row
      BY <1>4
    <3> QED BY <1>5, <3>1, <3>2
  <2> QED BY <2>1
<1>8. ASSUME NEW i \in 1..n, NEW j \in 1..n
      PROVE  /\ i < j => ~Behind(q, t[i], t[j])
             /\ t[i] = t[j] => i = j
  <2>1. t[i] = s[i][1] /\ t[j] = s[j][1] /\ s[i] \in Rows(q, w) /\ s[j] \in Rows(q, w)
    BY <1>3, <1>5
  <2> HIDE DEF t
  <2>2. Key(q, s[i]) = IdKey(q, t[i]) /\ Key(q, s[j]) = IdKey(q, t[j])
    BY <2>1, KeyOfRow
  <2>3. i < j => ~Behind(q, t[i], t[j])
    BY <1>2, <1>3, <2>2 DEF Behind
  <2>4. t[i] = t[j] => s[i] = s[j]
    BY <2>1, RowsById
  <2> QED BY <1>2, <2>3, <2>4
<1> HIDE DEF n, t
<1>9. Order(q, IdsOf(q, w), t)
  BY <1>6, <1>7, <1>8 DEF Order
<1> QED BY <1>3, <1>9 DEF t

-----------------------------------------------------------------------------
\* The next page adds what it shows of an order that begins like the one walked so far.
LEMMA PageAdds ==
  ASSUME NEW q, NEW A, NEW B, NEW s, NEW t, A \subseteq B, Order(q, A, s), Order(q, B, t),
         \A a, b \in B : a # b => Behind(q, a, b) \/ Behind(q, b, a),
         \A a \in A, b \in B \ A : Behind(q, b, a),
         NEW first, first \subseteq A, NEW seen, NEW ids, NEW m \in Nat, NEW n \in Nat,
         IsSeen(seen, s, first, m), IsPiece(ids, t, m, n)
  PROVE  IsSeen(seen \o ids, t, first, m + n)
<1>1. /\ s \in Seq(A) /\ Len(s) \in Nat /\ \A i \in 1..Len(s) : s[i] \in A
      /\ \A i \in A : \E j \in 1..Len(s) : s[j] = i
  BY DEF Order
<1>2. /\ t \in Seq(B) /\ Len(t) \in Nat /\ \A i \in 1..Len(t) : t[i] \in B
      /\ \A i, j \in 1..Len(t) : t[i] = t[j] => i = j
  BY DEF Order
<1>3. Len(s) <= Len(t) /\ \A i \in 1..Len(s) : s[i] = t[i]
  BY OrderBegins
<1>4. /\ seen \in Seq(Nat) /\ Len(seen) \in Nat
      /\ \A i, j \in 1..Len(seen) : seen[i] = seen[j] => i = j
      /\ \A i \in 1..Len(seen) : \E j \in 1..Len(s) : j <= m /\ seen[i] = s[j]
      /\ \A j \in 1..Len(s) : j <= m /\ s[j] \in first => \E i \in 1..Len(seen) : seen[i] = s[j]
  BY DEF IsSeen
<1>5. /\ ids \in Seq(Nat) /\ Len(ids) \in Nat
      /\ \A i \in 1..Len(ids) : m + i \in 1..Len(t) /\ i <= n /\ ids[i] = t[m + i]
      /\ \A j \in 1..Len(t) : m < j /\ j <= m + n => j - m \in 1..Len(ids)
  BY DEF IsPiece
<1> DEFINE r == seen \o ids
<1>6. /\ r \in Seq(Nat) /\ Len(r) = Len(seen) + Len(ids)
      /\ \A i \in 1..Len(seen) : i \in 1..Len(r) /\ r[i] = seen[i]
      /\ \A i \in 1..Len(ids) : Len(seen) + i \in 1..Len(r) /\ r[Len(seen) + i] = ids[i]
      /\ \A i \in 1..Len(r) : i \in 1..Len(seen) \/ i - Len(seen) \in 1..Len(ids)
      /\ \A i \in 1..Len(r) : i \in Int /\ i = Len(seen) + (i - Len(seen))
  BY <1>4, <1>5
<1> HIDE DEF r
\* Where in t the first ones stand, and the new ones.
<1>7. \A i \in 1..Len(seen) : \E j \in 1..Len(t) : j <= m /\ r[i] = t[j]
  <2>1. ASSUME NEW i \in 1..Len(seen) PROVE \E j \in 1..Len(t) : j <= m /\ r[i] = t[j]
    <3>1. PICK j \in 1..Len(s) : j <= m /\ seen[i] = s[j]
      BY <1>4
    <3>2. j \in 1..Len(t)
      <4>1. Len(s) \in Nat /\ Len(t) \in Nat /\ Len(s) <= Len(t) /\ j \in 1..Len(s)
        BY <1>1, <1>2, <1>3
      <4> QED BY ONLY <4>1
    <3> QED BY <1>3, <1>6, <3>1, <3>2
  <2> QED BY <2>1
<1>8. \A i \in 1..Len(ids) : m + i \in 1..Len(t) /\ m < m + i /\ m + i <= m + n /\ ids[i] = t[m + i]
  <2>1. ASSUME NEW i \in 1..Len(ids) PROVE m < m + i /\ m + i <= m + n
    <3>1. i <= n /\ Len(ids) \in Nat
      BY <1>5
    <3> QED BY ONLY <3>1, m \in Nat, n \in Nat, i \in 1..Len(ids)
  <2> QED BY <1>5, <2>1
<1>9. \A i \in 1..Len(r) : \E j \in 1..Len(t) : j <= m + n /\ r[i] = t[j]
  <2>1. ASSUME NEW i \in 1..Len(r) PROVE \E j \in 1..Len(t) : j <= m + n /\ r[i] = t[j]
    <3>1. CASE i \in 1..Len(seen)
      <4>1. PICK j \in 1..Len(t) : j <= m /\ r[i] = t[j]
        BY <1>7, <3>1
      <4>2. j <= m + n
        <5>1. Len(t) \in Nat
          BY <1>2
        <5> QED BY ONLY <5>1, j \in 1..Len(t), <4>1, m \in Nat, n \in Nat
      <4> QED BY <4>1, <4>2
    <3>2. CASE i - Len(seen) \in 1..Len(ids)
      <4>1. PICK k \in 1..Len(ids) : k = i - Len(seen)
        BY <3>2
      <4>2. r[i] = t[m + k] /\ m + k \in 1..Len(t) /\ m + k <= m + n
        BY <1>6, <1>8, <4>1
      <4> QED BY <4>2
    <3> QED BY <1>6, <3>1, <3>2
  <2> QED BY <2>1
<1>10. \A i, j \in 1..Len(r) : r[i] = r[j] => i = j
  <2>1. ASSUME NEW i \in 1..Len(r), NEW j \in 1..Len(r), r[i] = r[j],
               i \in 1..Len(seen), j - Len(seen) \in 1..Len(ids)
        PROVE  FALSE
    <3>1. PICK x \in 1..Len(t) : x <= m /\ r[i] = t[x]
      BY <1>7, <2>1
    <3>2. PICK k \in 1..Len(ids) : k = j - Len(seen)
      BY <2>1
    <3>3. r[j] = t[m + k] /\ m + k \in 1..Len(t) /\ m < m + k
      BY <1>6, <1>8, <3>2
    <3>4. x = m + k
      BY <1>2, <2>1, <3>1, <3>3
    <3> QED BY ONLY <3>1, <3>3, <3>4, m \in Nat
  <2>2. ASSUME NEW i \in 1..Len(r), NEW j \in 1..Len(r), r[i] = r[j],
               i \in 1..Len(seen), j \in 1..Len(seen)
        PROVE  i = j
    BY <1>4, <1>6, <2>2
  <2>3. ASSUME NEW i \in 1..Len(r), NEW j \in 1..Len(r), r[i] = r[j],
               i - Len(seen) \in 1..Len(ids), j - Len(seen) \in 1..Len(ids)
        PROVE  i = j
    <3>1. PICK k \in 1..Len(ids) : k = i - Len(seen)
      BY <2>3
    <3>2. PICK l \in 1..Len(ids) : l = j - Len(seen)
      BY <2>3
    <3>3. /\ r[i] = t[m + k] /\ m + k \in 1..Len(t)
          /\ r[j] = t[m + l] /\ m + l \in 1..Len(t)
      BY <1>6, <1>8, <3>1, <3>2
    <3>4. m + k = m + l
      BY <1>2, <2>3, <3>3
    <3>5. i \in Int /\ j \in Int /\ Len(seen) \in Nat
      BY <1>4, <1>6
    <3> QED BY ONLY <3>1, <3>2, <3>4, <3>5, m \in Nat
  <2> QED BY <1>6, <2>1, <2>2, <2>3
<1>11. ASSUME NEW j \in 1..Len(t), j <= m + n, t[j] \in first
       PROVE  \E i \in 1..Len(r) : r[i] = t[j]
  <2>1. CASE m < j
    <3>1. PICK k \in 1..Len(ids) : k = j - m
      BY <1>5, <1>11, <2>1
    <3>2. m + k = j
      BY ONLY <3>1, m \in Nat, j \in 1..Len(t)
    <3>3. Len(seen) + k \in 1..Len(r) /\ r[Len(seen) + k] = ids[k]
      BY <1>6
    <3>4. ids[k] = t[j]
      BY <1>8, <3>2
    <3> QED BY <3>3, <3>4
  <2>2. CASE ~(m < j)
    <3>1. PICK k \in 1..Len(s) : s[k] = t[j]
      BY <1>1, <1>11
    <3>2. k \in 1..Len(t) /\ t[k] = t[j]
      <4>1. Len(s) \in Nat /\ Len(t) \in Nat /\ Len(s) <= Len(t) /\ k \in 1..Len(s)
        BY <1>1, <1>2, <1>3
      <4>2. k \in 1..Len(t)
        BY ONLY <4>1
      <4> QED BY <1>3, <3>1, <4>2
    <3>3. k = j
      BY <1>2, <3>2
    <3>4. j <= m
      BY ONLY <2>2, m \in Nat, j \in 1..Len(t)
    <3>5. PICK i \in 1..Len(seen) : seen[i] = s[k]
      BY <1>4, <1>11, <3>1, <3>3, <3>4
    <3> QED BY <1>6, <3>1, <3>5
  <2> QED BY <2>1, <2>2
<1> QED BY <1>6, <1>9, <1>10, <1>11 DEF IsSeen, r

\* Before the first page nothing is seen.
LEMMA NothingSeen ==
  ASSUME NEW A, NEW t \in Seq(A), NEW first
  PROVE  IsSeen(<<>>, t, first, 0)
BY DEF IsSeen

\* Behind the last page all is seen.
LEMMA AllSeen ==
  ASSUME NEW q, NEW A, NEW t, Order(q, A, t), NEW first, first \subseteq A,
         NEW seen, NEW n \in Nat, Len(t) <= n, IsSeen(seen, t, first, n)
  PROVE  IsInjective(seen) /\ first \subseteq ToSet(seen)
<1>0. \A i \in 1..Len(t) : i <= n
  <2>1. Len(t) \in Nat
    BY DEF Order
  <2> QED BY <2>1
<1>1. \A i \in A : \E j \in 1..Len(t) : j <= n /\ t[j] = i
  BY <1>0 DEF Order
<1>2. DOMAIN seen = 1..Len(seen)
  BY DEF IsSeen
<1>3. IsInjective(seen)
  BY <1>2 DEF IsSeen, IsInjective
<1>4. ASSUME NEW x \in first PROVE \E i \in 1..Len(seen) : seen[i] = x
  BY <1>1 DEF IsSeen
<1> QED BY <1>2, <1>3, <1>4 DEF ToSet

\* A page of the rows is a piece of their ids.
LEMMA PageIsPiece ==
  ASSUME NEW S, S \subseteq Nat \X Nat, NEW s \in Seq(S), NEW limit \in Nat, NEW page \in Nat \ {0},
         limit # NoLimit
  PROVE  LET rows == Page(s, limit, page)
             ids == [i \in DOMAIN rows |-> rows[i][1]]
             t == [i \in 1..Len(s) |-> s[i][1]]
             m == (page - 1) * limit
         IN  /\ m \in Nat /\ page * limit = m + limit /\ IsPiece(ids, t, m, limit)
             /\ rows = <<>> => Len(t) <= m
<1> DEFINE rows == Page(s, limit, page)
           ids == [i \in DOMAIN rows |-> rows[i][1]]
           t == [i \in 1..Len(s) |-> s[i][1]]
           m == (page - 1) * limit
           e == IF m + limit >= Len(s) THEN Len(s) ELSE m + limit
<1>1. m \in Nat /\ page * limit = m + limit
  OBVIOUS
<1>2. /\ Len(s) \in Nat /\ t \in Seq(Nat) /\ Len(t) = Len(s)
      /\ \A i \in 1..Len(s) : s[i] \in S /\ s[i][1] \in Nat /\ t[i] = s[i][1]
  OBVIOUS
<1>3. rows = IF m >= Len(s) THEN <<>> ELSE SubSeq(s, m + 1, e)
  BY DEF Page
<1> HIDE DEF rows, m, t
<1>4. CASE m >= Len(s)
  <2>1. rows = <<>> /\ ids = <<>>
    BY <1>3, <1>4
  <2>2. \A j \in 1..Len(t) : j <= m
    BY <1>1, <1>2, <1>4
  <2>3. IsPiece(ids, t, m, limit)
    BY <1>1, <1>2, <2>1, <2>2 DEF IsPiece
  <2>4. Len(t) <= m
    BY <1>1, <1>2, <1>4
  <2> QED BY <1>1, <2>3, <2>4 DEF rows, t, m
<1>5. CASE ~(m >= Len(s))
  <2>1. /\ e \in Nat /\ m + 1 <= e /\ e <= Len(s) /\ e <= m + limit
        /\ (e = Len(s) \/ e = m + limit)
    BY <1>1, <1>2, <1>5 DEF NoLimit
  <2> HIDE DEF e
  <2>2. rows = SubSeq(s, m + 1, e)
    BY <1>3, <1>5
  <2>3. /\ Len(rows) = e - m /\ e - m \in Nat \ {0} /\ DOMAIN rows = 1..(e - m)
        /\ \A i \in 1..(e - m) : rows[i] = s[m + i]
    <3>1. s \in Seq(S) /\ m \in Nat /\ e \in Nat /\ m + 1 <= e /\ e <= Len(s) /\ Len(s) \in Nat
      BY <1>1, <1>2, <2>1
    <3>2. e - m \in Nat \ {0}
      BY ONLY <3>1
    <3>3. Len(SubSeq(s, m + 1, e)) = e - m
      BY ONLY <3>1
    <3>4. \A i \in 1..(e - m) : SubSeq(s, m + 1, e)[i] = s[m + i]
      BY ONLY <3>1
    <3>5. DOMAIN SubSeq(s, m + 1, e) = 1..(e - m)
      BY ONLY <3>1
    <3> QED BY <2>2, <3>2, <3>3, <3>4, <3>5
  <2>4. \A i \in 1..(e - m) : m + i \in 1..Len(s) /\ i <= limit
    BY <1>1, <1>2, <2>1
  <2>5. /\ ids \in Seq(Nat) /\ Len(ids) = e - m
        /\ \A i \in 1..(e - m) : ids[i] = t[m + i]
    <3>1. DOMAIN ids = 1..(e - m) /\ \A i \in 1..(e - m) : ids[i] = rows[i][1]
      BY <2>3
    <3> HIDE DEF ids
    <3>2. \A i \in 1..(e - m) : rows[i][1] = t[m + i] /\ t[m + i] \in Nat
      BY <1>2, <2>3, <2>4
    <3>3. ids = [i \in 1..(e - m) |-> ids[i]] /\ \A i \in 1..(e - m) : ids[i] \in Nat
      BY <3>1, <3>2 DEF ids
    <3>4. PICK k \in Nat : k = e - m
      BY <2>3
    <3>5. ids \in [1..k -> Nat]
      BY <3>3, <3>4
    <3>6. ids \in Seq(Nat) /\ Len(ids) = k
      BY ONLY <3>5, k \in Nat
    <3> QED BY <3>1, <3>2, <3>4, <3>6
  <2>6. \A j \in 1..Len(t) : m < j /\ j <= m + limit => j - m \in 1..(e - m)
    BY <1>1, <1>2, <2>1
  <2> HIDE DEF ids
  <2>7. IsPiece(ids, t, m, limit)
    BY <1>2, <2>4, <2>5, <2>6 DEF IsPiece
  <2>8. rows # <<>>
    BY <2>3
  <2> QED BY <1>1, <2>7, <2>8 DEF rows, ids, t, m
<1> QED BY <1>4, <1>5

\* A list without limit is one piece.
LEMMA ListIsPiece ==
  ASSUME NEW S, S \subseteq Nat \X Nat, NEW s \in Seq(S)
  PROVE  LET t == [i \in 1..Len(s) |-> s[i][1]]
         IN  /\ [i \in DOMAIN s |-> s[i][1]] = t
             /\ Len(t) \in Nat /\ IsPiece(t, t, 0, Len(t))
<1> DEFINE t == [i \in 1..Len(s) |-> s[i][1]]
<1>1. t \in Seq(Nat) /\ Len(t) \in Nat /\ DOMAIN s = 1..Len(s)
  OBVIOUS
<1>2. [i \in DOMAIN s |-> s[i][1]] = t
  BY <1>1
<1> HIDE DEF t
<1>3. IsPiece(t, t, 0, Len(t))
  BY <1>1 DEF IsPiece
<1> QED BY <1>1, <1>2, <1>3 DEF t

-----------------------------------------------------------------------------
(***************************************************************************)
(* The tables between two pages: rows are added behind the others, and     *)
(* what a key is made of stays.                                            *)
(***************************************************************************)
TablesGrow ==
  /\ \A u \in DOMAIN upload :
       /\ u \in DOMAIN upload' /\ upload'[u].wallet = upload[u].wallet
       /\ upload'[u].file = upload[u].file /\ upload'[u].at = upload[u].at
       /\ Minted(u) \subseteq Minted(u)'
  /\ \A t \in DOMAIN transaction : t \in DOMAIN transaction' /\ transaction'[t] = transaction[t]
  /\ \A a : WalletsAt(a) # {} => WalletsAt(a)' = WalletsAt(a)

\* Rows are inserted with the time of the day.
InTime ==
  /\ \A u, v \in DOMAIN upload : u < v => upload[u].at <= upload[v].at
  /\ \A s, t \in DOMAIN transaction : s < t => transaction[s].at <= transaction[t].at

Owner(q, i) == IF q.list = "uploads" THEN upload[i].wallet ELSE transaction[i].payer

\* A list that only grows selects all rows of its wallet.
GrowingSelectsAll ==
  \A q, w : Growing(q) => IdsOf(q, w) = {i \in Table(q) : Owner(q, i) = w}

\* A list that only grows selects all rows of its wallet: those of an outer join.
LEMMA GrowingIds == TablesFit => GrowingSelectsAll
<1> SUFFICES ASSUME TablesFit, NEW q, Growing(q), NEW w
             PROVE  IdsOf(q, w) = {i \in Table(q) : Owner(q, i) = w}
  BY DEF GrowingSelectsAll
<1>1. q.status = All /\ q.minted = All /\ All # "y" /\ All # "n" /\ All # "Processing"
  BY DEF Growing, All
<1>2. CASE q.list = "uploads"
  <2>1. ASSUME NEW u \in DOMAIN upload, upload[u].wallet = w PROVE u \in IdsOf(q, w)
    <3>1. Len(mint) \in Nat /\ DOMAIN mint = 1..Len(mint)
      BY DEF TablesFit
    <3>2. PICK k \in 0..Len(mint) : IF Minted(u) = {} THEN k = 0 ELSE k \in Minted(u)
      BY <3>1 DEF Minted
    <3>3. InStatus(q, upload[u].status)
      BY <1>1 DEF InStatus
    <3>4. <<u, k>> \in (DOMAIN upload) \X (0..Len(mint)) /\ <<u, k>>[1] = u /\ <<u, k>>[2] = k
      OBVIOUS
    <3>5. <<u, k>> \in UploadRows(q, w)
      BY <1>1, <2>1, <3>2, <3>3, <3>4 DEF UploadRows
    <3> QED BY <1>2, <3>4, <3>5 DEF IdsOf, Rows
  <2>2. ASSUME NEW u \in IdsOf(q, w) PROVE u \in DOMAIN upload /\ upload[u].wallet = w
    BY <1>2 DEF IdsOf, Rows, UploadRows
  <2> QED BY <1>2, <2>1, <2>2 DEF Table, Owner
<1>3. CASE q.list # "uploads"
  <2>1. ASSUME NEW t \in DOMAIN transaction, transaction[t].payer = w PROVE t \in IdsOf(q, w)
    <3>1. <<t, 0>> \in BillingRows(w)
      BY <2>1 DEF BillingRows
    <3> QED BY <1>3, <3>1 DEF IdsOf, Rows
  <2>2. ASSUME NEW t \in IdsOf(q, w) PROVE t \in DOMAIN transaction /\ transaction[t].payer = w
    BY <1>3 DEF IdsOf, Rows, BillingRows
  <2> QED BY <1>3, <2>1, <2>2 DEF Table, Owner
<1> QED BY <1>2, <1>3

\* A key stays.
LEMMA KeyKept ==
  ASSUME TablesFit, TablesGrow, NEW q \in Queries, NEW i \in Table(q)
  PROVE  i \in Table(q)' /\ IdKey(q, i)' = IdKey(q, i)
<1>1. q \in Query
  BY QueryAssumption
<1>2. CASE q.list = "uploads"
  <2>1. /\ q.orderBy \in {"file_name", "file_size", "upload_at"} /\ i \in DOMAIN upload
        /\ upload'[i].file = upload[i].file /\ upload'[i].at = upload[i].at /\ i \in DOMAIN upload'
    BY <1>1, <1>2 DEF Query, OrderBy, Table, TablesGrow
  <2> QED BY <1>2, <2>1 DEF IdKey, Key, UploadOf, Table
<1>3. CASE q.list # "uploads"
  <2>1. /\ q.orderBy \in {"file_name", "pay_amount", "pay_at"} /\ i \in DOMAIN transaction
        /\ transaction'[i] = transaction[i] /\ i \in DOMAIN transaction'
    BY <1>1, <1>3 DEF Query, OrderBy, Table, TablesGrow
  <2>2. transaction[i].upload \in DOMAIN upload
    <3>1. transaction[i] \in Transaction
      BY <2>1 DEF TablesFit
    <3> QED BY <3>1 DEF Transaction
  <2>3. upload'[transaction[i].upload].file = upload[transaction[i].upload].file
    BY <2>2 DEF TablesGrow
  <2> QED BY <1>3, <2>1, <2>3 DEF IdKey, Key, UploadOf, Table
<1> QED BY <1>2, <1>3

\* Ids that have different keys and are selected once had and were before.
LEMMA CleanKept ==
  ASSUME TablesFit, TablesGrow, NEW q \in Queries, NEW I, I \subseteq Table(q), Clean(q, I)'
  PROVE  Clean(q, I)
<1>1. \A i \in I : IdKey(q, i)' = IdKey(q, i)
  BY KeyKept
<1>2. \A a, b \in I : IdKey(q, a)' = IdKey(q, b)' => a = b
  BY DEF Clean
<1>3. \A a, b \in I : IdKey(q, a) = IdKey(q, b) => a = b
  BY <1>1, <1>2
<1>4. ASSUME q.list = "uploads", NEW u \in I, NEW j \in Minted(u), NEW k \in Minted(u) PROVE j = k
  <2>1. j \in Minted(u)' /\ k \in Minted(u)'
    BY <1>4 DEF TablesGrow, Table
  <2> QED BY <1>4, <2>1 DEF Clean
<1> QED BY <1>3, <1>4 DEF Clean

\* An order stays one.
LEMMA OrderKept ==
  ASSUME TablesFit, TablesGrow, NEW q \in Queries, NEW I, I \subseteq Table(q), NEW t,
         Order(q, I, t)
  PROVE  Order(q, I, t)'
<1>1. \A i \in I : IdKey(q, i)' = IdKey(q, i)
  BY KeyKept
<1>2. t \in Seq(I) /\ \A i \in 1..Len(t) : t[i] \in I
  BY DEF Order
<1>3. \A a, b \in I : Behind(q, a, b)' <=> Behind(q, a, b)
  BY <1>1 DEF Behind, Less
<1> QED BY <1>2, <1>3 DEF Order

\* What a growing list selects stays, and what comes is behind all there was.
LEMMA IdsKept ==
  ASSUME TablesFit, TablesFit', TablesGrow, NEW q \in Queries, Growing(q), NEW w
  PROVE  /\ IdsOf(q, w) \subseteq IdsOf(q, w)'
         /\ \A a \in Table(q), b \in IdsOf(q, w)' \ IdsOf(q, w) : a < b
<1>1. IdsOf(q, w) = {i \in Table(q) : Owner(q, i) = w}
  BY GrowingIds DEF GrowingSelectsAll
<1>2. IdsOf(q, w)' = {i \in Table(q)' : Owner(q, i)' = w}
  <2>1. GrowingSelectsAll'
    BY GrowingIds, PTL
  <2> QED BY <2>1 DEF GrowingSelectsAll, Growing
<1>3. \A i \in Table(q) : i \in Table(q)' /\ Owner(q, i)' = Owner(q, i)
  BY DEF Table, Owner, TablesGrow
<1>4. PICK m \in Nat : Table(q) = 1..m
  <2>1. Len(upload) \in Nat /\ DOMAIN upload = 1..Len(upload)
    BY DEF TablesFit
  <2>2. Len(transaction) \in Nat /\ DOMAIN transaction = 1..Len(transaction)
    BY DEF TablesFit
  <2> QED BY <2>1, <2>2 DEF Table
<1>5. PICK n \in Nat : Table(q)' = 1..n
  <2>1. Len(upload') \in Nat /\ DOMAIN upload' = 1..Len(upload')
    BY DEF TablesFit
  <2>2. Len(transaction') \in Nat /\ DOMAIN transaction' = 1..Len(transaction')
    BY DEF TablesFit
  <2> QED BY <2>1, <2>2 DEF Table
<1>6. ASSUME NEW a \in Table(q), NEW b \in IdsOf(q, w)', b \notin IdsOf(q, w) PROVE a < b
  <2>1. b \in 1..n /\ b \notin 1..m /\ a \in 1..m
    BY <1>1, <1>2, <1>3, <1>4, <1>5, <1>6
  <2> QED BY ONLY <2>1, m \in Nat, n \in Nat
<1> QED BY <1>1, <1>2, <1>3, <1>6

\* A later row with another key comes behind.
LEMMA LaterIsBehind ==
  ASSUME TablesFit, InTime, NEW q \in Queries, Growing(q), NEW a \in Table(q), NEW b \in Table(q),
         a < b, IdKey(q, a) # IdKey(q, b)
  PROVE  Behind(q, b, a)
<1> DEFINE At(i) == IF q.list = "uploads" THEN upload[i].at ELSE transaction[i].at
<1>1. \A i \in Table(q) : At(i) \in Nat
  <2>1. now \in Nat
    BY DEF TablesFit
  <2>2. \A u \in DOMAIN upload : upload[u] \in Upload
    BY DEF TablesFit
  <2>3. \A t \in DOMAIN transaction : transaction[t] \in Transaction
    BY DEF TablesFit
  <2> QED BY <2>1, <2>2, <2>3 DEF Table, Upload, Transaction
<1>2. At(a) <= At(b)
  BY DEF Table, InTime
<1>3. \A i : IdKey(q, i) = <<At(i)>>
  <2>1. q \in Query /\ q.orderBy \in {"upload_at", "pay_at"}
    BY QueryAssumption DEF Growing
  <2>2. CASE q.list = "uploads"
    <3>1. q.orderBy = "upload_at"
      BY <2>1, <2>2 DEF Query, OrderBy
    <3> QED BY <2>2, <3>1 DEF IdKey, Key, UploadOf
  <2>3. CASE q.list # "uploads"
    <3>1. q.orderBy = "pay_at"
      BY <2>1, <2>3 DEF Query, OrderBy
    <3> QED BY <2>3, <3>1 DEF IdKey, Key
  <2> QED BY <2>2, <2>3
<1> HIDE DEF At
<1>4. At(a) < At(b)
  BY <1>1, <1>2, <1>3
<1>5. \A x, y \in Nat : x < y => Less(<<x>>, <<y>>)
  <2>1. ASSUME NEW x \in Nat, NEW y \in Nat, x < y PROVE Less(<<x>>, <<y>>)
    <3>1. 1 \in (DOMAIN <<x>>) \cap (DOMAIN <<y>>) /\ <<x>>[1] < <<y>>[1]
      BY <2>1
    <3>2. \A j \in 1..(1 - 1) : <<x>>[j] = <<y>>[j]
      OBVIOUS
    <3> QED BY <3>1, <3>2 DEF Less
  <2> QED BY <2>1
<1> QED BY <1>1, <1>3, <1>4, <1>5 DEF Behind, Growing

-----------------------------------------------------------------------------
(***************************************************************************)
(* A walk between two pages: of what the pages so far were cut from, it    *)
(* has seen what was there first, and once.                                *)
(***************************************************************************)
Walked(r, A) ==
  \E t : Order(r.q, A, t) /\ IsSeen(r.seen, t, r.first, (r.page - 1) * r.q.limit)

\* The rows were the same on every page, ...
CalmWalk(r) == r.calm /\ Clean(r.q, r.first) => Walked(r, r.first)

\* ... or are some of those there are now, and the others came later.
GrowingWalk(r) ==
  Growing(r.q) => \A w \in WalletsAt(r.address) : Clean(r.q, IdsOf(r.q, w)) =>
    \E A \in SUBSET IdsOf(r.q, w) :
      /\ r.first \subseteq A /\ \A a \in A, b \in IdsOf(r.q, w) \ A : a < b
      /\ Walked(r, A)

WalkFits(r) ==
  /\ {"pc", "kind", "address", "wallet", "known", "q", "page", "seen", "calm", "first"} = DOMAIN r
  /\ r.q \in Queries /\ r.page \in Nat \ {0} /\ r.calm \in BOOLEAN
  /\ r.first \subseteq Table(r.q)
  /\ WalletsAt(r.address) = {} => r.first = {} /\ r.page = 1
  /\ Growing(r.q) => \A w \in WalletsAt(r.address) : r.first \subseteq IdsOf(r.q, w)
  /\ r.page = 1 => r.seen = <<>>
  /\ r.page # 1 => r.q.limit # NoLimit /\ CalmWalk(r) /\ GrowingWalk(r)

\* What a walk that came to its end has to show.
Sees(r) ==
  (r.calm \/ Growing(r.q)) /\ DistinctKeys(r.q, r.wallet)
    => IsInjective(r.seen) /\ r.first \subseteq ToSet(r.seen)

\* Rows are pairs of numbers.
LEMMA RowsAreIds ==
  ASSUME TablesFit, NEW q, NEW w
  PROVE  Rows(q, w) \subseteq Nat \X Nat
<1>1. /\ DOMAIN upload \subseteq Nat /\ DOMAIN transaction \subseteq Nat
      /\ 0..Len(mint) \subseteq Nat /\ {0} \subseteq Nat
  BY DEF TablesFit
<1> QED BY <1>1 DEF Rows, UploadRows, BillingRows

\* Clean ids come one behind the other.
LEMMA CleanIsTotal ==
  ASSUME TablesFit, NEW q \in Queries, NEW I, I \subseteq Table(q), Clean(q, I)
  PROVE  \A a, b \in I : a # b => Behind(q, a, b) \/ Behind(q, b, a)
<1>1. ASSUME NEW a \in I, NEW b \in I, a # b PROVE Behind(q, a, b) \/ Behind(q, b, a)
  <2>1. IdKey(q, a) \in Seq(Int) /\ IdKey(q, b) \in Seq(Int)
    BY KeyType
  <2>2. IdKey(q, a) # IdKey(q, b)
    BY <1>1 DEF Clean
  <2> QED BY <2>1, <2>2, BehindTotal
<1> QED BY <1>1

\* A page of a list that is walked: what there was first is seen as far as the page goes.
LEMMA PageOfWalk ==
  ASSUME TablesFit, InTime, IsInjective(wallet), NEW r, WalkFits(r),
         r.wallet \in WalletsAt(r.address), Clean(r.q, IdsOf(r.q, r.wallet)),
         (r.calm /\ IdsOf(r.q, r.wallet) = r.first) \/ Growing(r.q),
         NEW t, Order(r.q, IdsOf(r.q, r.wallet), t),
         NEW ids, NEW n \in Nat, IsPiece(ids, t, (r.page - 1) * r.q.limit, n),
         (r.page - 1) * r.q.limit \in Nat
  PROVE  /\ r.first \subseteq IdsOf(r.q, r.wallet)
         /\ IsSeen(r.seen \o ids, t, r.first, (r.page - 1) * r.q.limit + n)
<1> DEFINE q == r.q
           w == r.wallet
           I == IdsOf(q, w)
           m == (r.page - 1) * q.limit
<1>1. /\ q \in Queries /\ r.page \in Nat \ {0} /\ r.first \subseteq I /\ I \subseteq Table(q)
  BY RowsFinite DEF WalkFits
<1>2. \A a, b \in I : a # b => Behind(q, a, b) \/ Behind(q, b, a)
  BY <1>1, CleanIsTotal
<1>3. PICK A, s : /\ A \subseteq I /\ r.first \subseteq A /\ Order(q, A, s)
                  /\ IsSeen(r.seen, s, r.first, m)
                  /\ \A a \in A, b \in I \ A : Behind(q, b, a)
  <2>1. CASE r.page = 1
    <3>1. m = 0 /\ r.seen = <<>>
      <4>1. PICK limit \in Nat : limit = q.limit
        BY <1>1, QueryAssumption DEF Query
      <4>2. (1 - 1) * limit = 0
        OBVIOUS
      <4> QED BY <2>1, <4>1, <4>2 DEF WalkFits
    <3>2. t \in Seq(I)
      BY DEF Order
    <3>3. IsSeen(r.seen, t, r.first, m)
      BY <3>1, <3>2, NothingSeen
    <3> QED BY <1>1, <3>3
  <2>2. CASE r.page # 1 /\ r.calm /\ I = r.first
    <3>1. Walked(r, I)
      BY <2>2 DEF WalkFits, CalmWalk
    <3> QED BY <1>1, <3>1 DEF Walked
  <2>3. CASE r.page # 1 /\ Growing(q)
    <3>1. PICK A \in SUBSET I : /\ r.first \subseteq A /\ \A a \in A, b \in I \ A : a < b
                                /\ Walked(r, A)
      BY <2>3 DEF WalkFits, GrowingWalk
    <3>2. PICK s : Order(q, A, s) /\ IsSeen(r.seen, s, r.first, m)
      BY <3>1 DEF Walked
    <3>3. ASSUME NEW a \in A, NEW b \in I \ A PROVE Behind(q, b, a)
      <4>1. a < b /\ a \in I /\ b \in I /\ a # b
        BY <3>1
      <4>2. IdKey(q, a) # IdKey(q, b)
        BY <4>1 DEF Clean
      <4> QED BY <1>1, <2>3, <4>1, <4>2, LaterIsBehind
    <3> QED BY <3>1, <3>2, <3>3
  <2> QED BY <2>1, <2>2, <2>3
<1>4. IsSeen(r.seen \o ids, t, r.first, m + n)
  <2> HIDE DEF I, m, q, w
  <2>1. Order(q, I, t) /\ IsPiece(ids, t, m, n) /\ m \in Nat
    BY DEF I, m, q, w
  <2> QED BY <1>2, <1>3, <2>1, PageAdds
<1> QED BY <1>1, <1>4

\* What follows of a page: a walk that goes on, or one that saw everything once.
LEMMA WalkGoesOn ==
  ASSUME TablesFit, InTime, IsInjective(wallet), NEW r, WalkFits(r),
         r.wallet \in WalletsAt(r.address), NEW s \in Sorted(r.q, Rows(r.q, r.wallet)), NEW n,
         LET rows == Page(s, r.q.limit, r.page)
             ids == [i \in DOMAIN rows |-> rows[i][1]]
         IN  /\ n.seen = r.seen \o ids /\ n.page = r.page + 1
             /\ n.calm = (r.calm /\ IdsOf(r.q, r.wallet) = r.first)
             /\ n.pc = IF rows = <<>> \/ r.q.limit = NoLimit THEN "done" ELSE "find",
         DOMAIN n = DOMAIN r, n.kind = r.kind, n.address = r.address, n.wallet = r.wallet,
         n.q = r.q, n.first = r.first
  PROVE  IF n.pc = "done" THEN Sees(n) ELSE WalkFits(n)
<1> DEFINE q == r.q
           w == r.wallet
           I == IdsOf(q, w)
           rows == Page(s, q.limit, r.page)
           ids == [i \in DOMAIN rows |-> rows[i][1]]
           t == [i \in 1..Len(s) |-> s[i][1]]
           m == (r.page - 1) * q.limit
<1>1. /\ q \in Queries /\ r.page \in Nat \ {0} /\ q.limit \in Nat /\ I \subseteq Table(q)
      /\ r.calm \in BOOLEAN
  BY RowsFinite, QueryAssumption DEF WalkFits, Query
<1>2. /\ n.seen = r.seen \o ids /\ n.page = r.page + 1 /\ n.calm = (r.calm /\ I = r.first)
      /\ n.pc = IF rows = <<>> \/ q.limit = NoLimit THEN "done" ELSE "find"
  OBVIOUS
<1>3. ASSUME Clean(q, I) PROVE s \in Seq(Rows(q, w)) /\ Order(q, I, t)
  <2> HIDE DEF q, w, I, t
  <2>1. s \in Sorted(q, Rows(q, w)) /\ I = IdsOf(q, w)
    BY DEF q, w, I
  <2>2. s \in Seq(Rows(q, w)) /\ Order(q, I, [i \in 1..Len(s) |-> s[i][1]])
    BY <1>1, <1>3, <2>1, SortedIsOrder
  <2> QED BY <2>2 DEF t
<1>4. CASE q.limit # NoLimit
  <2>1. ASSUME Clean(q, I), n.calm \/ Growing(q)
        PROVE  /\ r.first \subseteq I /\ Order(q, I, t)
               /\ IsSeen(n.seen, t, r.first, r.page * q.limit)
               /\ rows = <<>> => IsInjective(n.seen) /\ r.first \subseteq ToSet(n.seen)
    <3>1. s \in Seq(Rows(q, w)) /\ Order(q, I, t) /\ Rows(q, w) \subseteq Nat \X Nat
      BY <1>3, <2>1, RowsAreIds
    <3>2. /\ m \in Nat /\ r.page * q.limit = m + q.limit /\ IsPiece(ids, t, m, q.limit)
          /\ rows = <<>> => Len(t) <= m
      BY <1>1, <1>4, <3>1, PageIsPiece
    <3>3. (r.calm /\ I = r.first) \/ Growing(q)
      BY <1>2, <2>1
    <3>4. r.first \subseteq I /\ IsSeen(r.seen \o ids, t, r.first, m + q.limit)
      <4> HIDE DEF t, ids
      <4> QED BY <1>1, <2>1, <3>1, <3>2, <3>3, PageOfWalk
    <3> HIDE DEF t, ids, m, rows
    <3>5. ASSUME rows = <<>> PROVE IsInjective(n.seen) /\ r.first \subseteq ToSet(n.seen)
      <4>1. Len(t) \in Nat /\ Len(t) <= m
        BY <3>1, <3>2, <3>5 DEF t
      <4>2. PICK k \in Nat : k = m + q.limit
        BY <1>1, <3>2
      <4>3. Len(t) <= k
        BY <1>1, <3>2, <4>1, <4>2
      <4> HIDE DEF q, I
      <4>4. IsSeen(n.seen, t, r.first, k)
        BY <1>2, <3>4, <4>2
      <4>5. PICK first, seen : first = r.first /\ seen = n.seen
        OBVIOUS
      <4>6. IsInjective(seen) /\ first \subseteq ToSet(seen)
        <5>1. Order(q, I, t) /\ k \in Nat /\ first \subseteq I /\ IsSeen(seen, t, first, k)
          BY <3>1, <3>4, <4>4, <4>5
        <5> QED BY ONLY <4>3, <5>1, AllSeen
      <4> QED BY <4>5, <4>6
    <3> QED BY <1>2, <3>1, <3>2, <3>4, <3>5
  <2> HIDE DEF t, ids, m, rows
  <2>2. CASE rows = <<>>
    <3>1. n.pc = "done"
      BY <1>2, <2>2
    <3>2. ASSUME n.calm \/ Growing(n.q), DistinctKeys(n.q, n.wallet)
          PROVE  IsInjective(n.seen) /\ n.first \subseteq ToSet(n.seen)
      <4>1. Clean(q, I)
        BY <1>1, <3>2, DistinctIsClean
      <4> QED BY <2>1, <2>2, <3>2, <4>1
    <3> QED BY <3>1, <3>2 DEF Sees
  <2>3. CASE rows # <<>>
    <3>1. n.pc # "done"
      BY <1>2, <1>4, <2>3
    <3>2. n.page \in Nat \ {0} /\ n.page # 1 /\ n.page - 1 = r.page
      BY <1>1, <1>2
    <3>3. ASSUME Clean(q, I), n.calm \/ Growing(q) PROVE r.first \subseteq I /\ Walked(n, I)
      BY <2>1, <3>2, <3>3 DEF Walked
    <3>4. CalmWalk(n)
      <4>1. ASSUME n.calm, Clean(n.q, n.first) PROVE Walked(n, n.first)
        <5>1. I = r.first
          BY <1>2, <4>1
        <5> QED BY <3>3, <4>1, <5>1
      <4> QED BY <4>1 DEF CalmWalk
    <3>5. GrowingWalk(n)
      <4>1. ASSUME Growing(q), NEW v \in WalletsAt(n.address), Clean(n.q, IdsOf(n.q, v))
            PROVE  \E A \in SUBSET IdsOf(n.q, v) :
                     /\ n.first \subseteq A /\ \A a \in A, b \in IdsOf(n.q, v) \ A : a < b
                     /\ Walked(n, A)
        <5>1. v = w
          BY DEF WalletsAt, IsInjective
        <5>2. IdsOf(n.q, v) = I
          BY <5>1
        <5> HIDE DEF I
        <5>3. r.first \subseteq I /\ Walked(n, I)
          BY <3>3, <4>1, <5>2
        <5>4. \A a \in I, b \in I \ I : a < b
          OBVIOUS
        <5> QED BY <5>2, <5>3, <5>4
      <4> QED BY <4>1 DEF GrowingWalk
    <3>6. n.calm \in BOOLEAN
      BY <1>2
    <3>7. WalkFits(n)
      <4>1. /\ {"pc", "kind", "address", "wallet", "known", "q", "page", "seen", "calm", "first"}
                 = DOMAIN n
            /\ n.first \subseteq Table(n.q) /\ WalletsAt(n.address) # {}
            /\ Growing(n.q) => \A v \in WalletsAt(n.address) : n.first \subseteq IdsOf(n.q, v)
        BY DEF WalkFits
      <4> HIDE DEF q
      <4>2. n.q \in Queries /\ n.q.limit # NoLimit
        BY <1>1, <1>4 DEF q
      <4> QED BY <3>2, <3>4, <3>5, <3>6, <4>1, <4>2 DEF WalkFits
    <3> QED BY <3>1, <3>7
  <2> QED BY <2>2, <2>3
<1>5. CASE q.limit = NoLimit
  <2>1. n.pc = "done" /\ r.page = 1 /\ r.seen = <<>>
    BY <1>2, <1>5 DEF WalkFits
  <2>2. rows = s
    BY <1>5 DEF Page
  <2>3. m = 0 /\ m \in Nat
    <3>1. (1 - 1) * 0 = 0
      OBVIOUS
    <3> QED BY <1>5, <2>1, <3>1 DEF NoLimit
  <2>4. ASSUME n.calm \/ Growing(n.q), DistinctKeys(n.q, n.wallet)
        PROVE  IsInjective(n.seen) /\ n.first \subseteq ToSet(n.seen)
    <3>1. Clean(q, I)
      BY <1>1, <2>4, DistinctIsClean
    <3>2. s \in Seq(Rows(q, w)) /\ Order(q, I, t) /\ Rows(q, w) \subseteq Nat \X Nat
      BY <1>3, <3>1, RowsAreIds
    <3>3. ids = t /\ Len(t) \in Nat /\ IsPiece(t, t, 0, Len(t))
      BY <2>2, <3>2, ListIsPiece
    <3>4. (r.calm /\ I = r.first) \/ Growing(q)
      BY <1>2, <2>4
    <3> HIDE DEF t, ids, rows
    <3>5. r.first \subseteq I /\ IsSeen(r.seen \o ids, t, r.first, m + Len(t))
      <4>1. PICK k \in Nat : k = Len(t)
        BY <3>3
      <4>2. IsPiece(ids, t, m, k)
        <5> HIDE DEF m
        <5> QED BY <2>3, <3>3, <4>1
      <4>3. r.first \subseteq I /\ IsSeen(r.seen \o ids, t, r.first, m + k)
        BY <1>1, <2>3, <3>1, <3>2, <3>4, <4>2, PageOfWalk
      <4> QED BY <4>1, <4>3
    <3>6. PICK k \in Nat : k = Len(t) /\ k = m + Len(t)
      <4> HIDE DEF m
      <4> QED BY <2>3, <3>3
    <3>7. Len(t) <= k /\ IsSeen(n.seen, t, r.first, k)
      <4> HIDE DEF m
      <4>1. Len(t) \in Nat /\ k = Len(t)
        BY <3>3, <3>6
      <4>2. Len(t) <= k
        BY ONLY <4>1
      <4> QED BY <1>2, <3>5, <3>6, <4>2
    <3> HIDE DEF q, I, m
    <3>8. PICK first, seen : first = r.first /\ seen = n.seen
      OBVIOUS
    <3>9. IsInjective(seen) /\ first \subseteq ToSet(seen)
      <4>1. Order(q, I, t) /\ k \in Nat /\ first \subseteq I /\ IsSeen(seen, t, first, k)
        BY <3>2, <3>5, <3>7, <3>8
      <4> QED BY ONLY <3>7, <4>1, AllSeen
    <3>10. IsInjective(n.seen) /\ r.first \subseteq ToSet(n.seen)
      BY <3>8, <3>9
    <3> QED BY <3>10
  <2> QED BY <2>1, <2>4 DEF Sees
<1> QED BY <1>4, <1>5

\* A sequence that was walked stays one.
LEMMA WalkedKept ==
  ASSUME TablesFit, TablesGrow, NEW r, r.q \in Queries, NEW A, A \subseteq Table(r.q), Walked(r, A)
  PROVE  Walked(r, A)'
<1>1. PICK t : Order(r.q, A, t) /\ IsSeen(r.seen, t, r.first, (r.page - 1) * r.q.limit)
  BY DEF Walked
<1>2. PICK q \in Queries : q = r.q
  OBVIOUS
<1>3. Order(q, A, t)'
  BY <1>1, <1>2, OrderKept
<1> QED BY <1>1, <1>2, <1>3 DEF Walked

\* A walk goes on from where it is, whatever comes to the tables meanwhile.
LEMMA WalkKept ==
  ASSUME TablesFit, TablesFit', TablesGrow, NEW r, WalkFits(r)
  PROVE  WalkFits(r)'
<1>1. PICK q \in Queries : q = r.q
  BY DEF WalkFits
<1>2. r.first \subseteq Table(q)'
  BY <1>1, KeyKept DEF WalkFits
<1>3. WalletsAt(r.address) # {} => WalletsAt(r.address)' = WalletsAt(r.address)
  BY DEF TablesGrow
<1>4. WalletsAt(r.address)' = {} => r.first = {} /\ r.page = 1
  BY <1>3 DEF WalkFits
<1>5. ASSUME Growing(q), NEW w \in WalletsAt(r.address)' PROVE r.first \subseteq IdsOf(q, w)'
  <2>1. CASE WalletsAt(r.address) = {}
    BY <2>1 DEF WalkFits
  <2>2. CASE WalletsAt(r.address) # {}
    <3>1. r.first \subseteq IdsOf(q, w)
      BY <1>1, <1>3, <1>5, <2>2 DEF WalkFits
    <3> QED BY <1>5, <3>1, IdsKept
  <2> QED BY <2>1, <2>2
<1>6. ASSUME r.page # 1 PROVE CalmWalk(r)'
  <2>1. ASSUME r.calm, Clean(q, r.first)' PROVE Walked(r, r.first)'
    <3>1. PICK first : first = r.first /\ first \subseteq Table(q)
      BY <1>1 DEF WalkFits
    <3>2. Clean(q, first)'
      BY <2>1, <3>1
    <3>3. Clean(q, first)
      BY <3>1, <3>2, CleanKept
    <3>4. Walked(r, first)
      BY <1>1, <1>6, <2>1, <3>1, <3>3 DEF WalkFits, CalmWalk
    <3>5. Walked(r, first)'
      BY <1>1, <3>1, <3>4, WalkedKept
    <3> QED BY <3>1, <3>5
  <2> QED BY <1>1, <2>1 DEF CalmWalk
<1>7. ASSUME r.page # 1 PROVE GrowingWalk(r)'
  <2>1. ASSUME Growing(q), NEW w \in WalletsAt(r.address)', Clean(q, IdsOf(q, w))'
        PROVE  \E A \in SUBSET (IdsOf(q, w)') :
                 /\ r.first \subseteq A /\ \A a \in A, b \in (IdsOf(q, w)') \ A : a < b
                 /\ Walked(r, A)'
    <3>1. PICK I : I = IdsOf(q, w) /\ I \subseteq Table(q)
      BY RowsFinite
    <3>2. PICK J : J = IdsOf(q, w)'
      OBVIOUS
    <3>3. I \subseteq J /\ \A a \in Table(q), b \in J \ I : a < b
      BY <2>1, <3>1, <3>2, IdsKept
    <3>4. Clean(q, J)'
      BY <2>1, <3>2
    <3>5. Clean(q, I)'
      BY <3>3, <3>4 DEF Clean
    <3>6. Clean(q, I)
      BY <3>1, <3>5, CleanKept
    <3>7. w \in WalletsAt(r.address)
      BY <1>3, <1>7, <2>1 DEF WalkFits
    <3>8. GrowingWalk(r)
      BY <1>7 DEF WalkFits
    <3>9. PICK A \in SUBSET I : /\ r.first \subseteq A /\ \A a \in A, b \in I \ A : a < b
                                /\ Walked(r, A)
      BY <1>1, <2>1, <3>1, <3>6, <3>7, <3>8 DEF GrowingWalk
    <3>10. A \subseteq Table(q) /\ \A a \in A, b \in J \ A : a < b
      BY <3>1, <3>3, <3>9
    <3>11. Walked(r, A)'
      BY <1>1, <3>9, <3>10, WalkedKept
    <3>12. A \subseteq J
      BY <3>3
    <3> QED BY <3>2, <3>9, <3>10, <3>11, <3>12
  <2> QED BY <1>1, <2>1 DEF GrowingWalk, Growing
<1>8. r.page # 1 => r.q.limit # NoLimit
  BY DEF WalkFits
<1> QED BY <1>1, <1>2, <1>4, <1>5, <1>6, <1>7, <1>8 DEF WalkFits, Growing

-----------------------------------------------------------------------------
\* The requests for lists: on their way, or answered.
ListFits(r) ==
  r # Idle /\ r.kind = "list" =>
    /\ r.pc \notin {"done", "failed"} => WalkFits(r)
    /\ r.pc = "found" => r.wallet \in WalletsAt(r.address)
    /\ r.pc = "done" => Sees(r)

WalkInv == InTime /\ \A c \in Clients : ListFits(request[c])

\* The invariant has what the property asks for.
LEMMA WalkInvSuffices == WalkInv => WalkSeesEachOnce
<1> SUFFICES ASSUME WalkInv, NEW c \in Clients, request[c].pc = "done", request[c].kind = "list"
             PROVE  Sees(request[c])
  BY DEF WalkSeesEachOnce, Sees
<1>1. request[c] # Idle
  BY DEF Idle
<1> QED BY <1>1 DEF WalkInv, ListFits

\* Nobody asked for anything yet.
LEMMA WalkInitInv == QueryInit => WalkInv
<1> SUFFICES ASSUME QueryInit PROVE WalkInv
  OBVIOUS
<1>1. InTime
  BY DEF QueryInit, InTime
<1> QED BY <1>1 DEF QueryInit, WalkInv, ListFits

\* A request that waits is not disturbed, and one that is answered looks at its answer
\* before anything else happens.
LEMMA ListKept ==
  ASSUME TablesFit, TablesFit', TablesGrow, NEW r, ListFits(r), r.pc # "done" \/ UNCHANGED tables
  PROVE  ListFits(r)'
<1> SUFFICES ASSUME r # Idle, r.kind = "list"
             PROVE  /\ r.pc \notin {"done", "failed"} => WalkFits(r)'
                    /\ r.pc = "found" => r.wallet \in WalletsAt(r.address)'
                    /\ r.pc = "done" => Sees(r)'
  BY DEF ListFits, Idle
<1>1. r.pc \notin {"done", "failed"} => WalkFits(r)'
  BY WalkKept DEF ListFits
<1>2. r.pc = "found" => r.wallet \in WalletsAt(r.address)'
  BY DEF ListFits, TablesGrow
<1>3. ASSUME r.pc = "done" PROVE Sees(r)'
  <2>1. Sees(r)
    BY <1>3 DEF ListFits
  <2>2. upload' = upload /\ transaction' = transaction /\ mint' = mint
    BY <1>3 DEF tables
  <2>3. Rows(r.q, r.wallet)' = Rows(r.q, r.wallet)
    BY <2>2 DEF Rows, UploadRows, BillingRows, Minted
  <2>4. \A row : Key(r.q, row)' = Key(r.q, row)
    BY <2>2 DEF Key, UploadOf
  <2>5. DistinctKeys(r.q, r.wallet)' <=> DistinctKeys(r.q, r.wallet)
    BY <2>3, <2>4 DEF DistinctKeys
  <2> QED BY <2>1, <2>5 DEF Sees, Growing
<1> QED BY <1>1, <1>2, <1>3

\* A step of one request, beside those of others.
LEMMA StepKeepsLists ==
  ASSUME WalkInv, TablesFit, TablesFit', TablesGrow, NEW c \in Clients,
         \A d \in Clients : request[d].pc # "done" \/ UNCHANGED tables,
         \A d \in Clients \ {c} : request'[d] = request[d], ListFits(request[c])'
  PROVE  \A d \in Clients : ListFits(request[d])'
<1>1. ASSUME NEW d \in Clients PROVE ListFits(request[d])'
  <2>1. CASE d = c
    BY <2>1
  <2>2. CASE d # c
    <3>1. PICK r : r = request[d] /\ r = request'[d]
      BY <2>2
    <3>2. ListFits(r) /\ (r.pc # "done" \/ UNCHANGED tables)
      BY <3>1 DEF WalkInv
    <3>3. ListFits(r)'
      BY <3>2, ListKept
    <3> QED BY <3>1, <3>3
  <2> QED BY <2>1, <2>2
<1> QED BY <1>1

\* A step of none.
LEMMA WorldKeepsLists ==
  ASSUME WalkInv, TablesFit, TablesFit', TablesGrow, UNCHANGED request,
         \A d \in Clients : request[d].pc # "done" \/ UNCHANGED tables
  PROVE  \A d \in Clients : ListFits(request[d])'
<1>1. ASSUME NEW d \in Clients PROVE ListFits(request[d])'
  <2>1. PICK r : r = request[d] /\ r = request'[d]
    OBVIOUS
  <2>2. ListFits(r) /\ (r.pc # "done" \/ UNCHANGED tables)
    BY <2>1 DEF WalkInv
  <2>3. ListFits(r)'
    BY <2>2, ListKept
  <2> QED BY <2>1, <2>3
<1> QED BY <1>1

\* Tables that stay grow.
LEMMA SameTablesGrow ==
  ASSUME InTime, UNCHANGED <<wallet, upload, transaction, mint>>
  PROVE  TablesGrow /\ InTime'
<1>1. TablesGrow
  BY DEF TablesGrow, Minted, WalletsAt
<1> QED BY <1>1 DEF InTime

\* An upload comes behind the others.
LEMMA SaveFileGrows ==
  ASSUME TablesFit, InTime, NEW w, NEW file, NEW isFree, SaveFile(w, file, isFree)
  PROVE  TablesGrow /\ InTime'
<1> DEFINE row == [wallet |-> w, file |-> file, at |-> now, isFree |-> isFree,
                   status |-> IF isFree THEN "Free" ELSE "Pending"]
<1>1. /\ upload' = Append(upload, row)
      /\ UNCHANGED <<now, wallet, isDao, transaction, unlocked, mint, request>>
  BY DEF SaveFile
<1>2. row.at = now
  OBVIOUS
<1> HIDE DEF row
<1>3. PICK n \in Nat : n = Len(upload) /\ DOMAIN upload = 1..n
  BY DEF TablesFit
<1>4. upload \in Seq(Upload)
  BY DEF TablesFit
<1>5. /\ DOMAIN upload' = 1..(n + 1) /\ \A u \in 1..n : upload'[u] = upload[u]
      /\ upload'[n + 1] = row
  BY <1>1, <1>3, <1>4
<1>6. \A u \in 1..n : u \in 1..(n + 1)
  OBVIOUS
<1>7. TablesGrow
  BY <1>1, <1>3, <1>5, <1>6 DEF TablesGrow, Minted, WalletsAt
<1>8. \A u \in 1..n : upload[u].at <= now
  <2>1. \A u \in 1..n : upload[u] \in Upload /\ now \in Nat
    BY <1>3, <1>4 DEF TablesFit
  <2> QED BY <2>1 DEF Upload
<1>9. ASSUME NEW u \in DOMAIN upload', NEW v \in DOMAIN upload', u < v
      PROVE  upload'[u].at <= upload'[v].at
  <2>1. u \in 1..n /\ (v \in 1..n \/ v = n + 1)
    <3>1. u \in 1..(n + 1) /\ v \in 1..(n + 1)
      BY <1>5
    <3> QED BY ONLY <3>1, n \in Nat, u < v
  <2>2. CASE v \in 1..n
    BY <1>3, <1>5, <1>9, <2>1, <2>2 DEF InTime
  <2>3. CASE v = n + 1
    BY <1>2, <1>5, <1>8, <2>1, <2>3
  <2> QED BY <2>1, <2>2, <2>3
<1> QED BY <1>1, <1>7, <1>9 DEF InTime

\* An upload that moves on keeps what it is listed by.
LEMMA StatusKeepsRows ==
  ASSUME TablesFit, InTime, NEW u \in DOMAIN upload, NEW status,
         upload' = [upload EXCEPT ![u].status = status],
         UNCHANGED <<wallet, mint>>
  PROVE  /\ \A v \in DOMAIN upload :
              /\ v \in DOMAIN upload' /\ upload'[v].wallet = upload[v].wallet
              /\ upload'[v].file = upload[v].file /\ upload'[v].at = upload[v].at
              /\ Minted(v) \subseteq Minted(v)'
         /\ \A v, w \in DOMAIN upload' : v < w => upload'[v].at <= upload'[w].at
         /\ \A a : WalletsAt(a)' = WalletsAt(a)
<1>1. upload[u] \in Upload
  BY DEF TablesFit
<1> DEFINE row == [upload[u] EXCEPT !.status = status]
<1>2. upload' = [upload EXCEPT ![u] = row]
  OBVIOUS
<1>3. row.wallet = upload[u].wallet /\ row.file = upload[u].file /\ row.at = upload[u].at
  BY <1>1 DEF Upload
<1> HIDE DEF row
<1>4. DOMAIN upload' = DOMAIN upload
  BY <1>2
<1>5. \A v \in DOMAIN upload : /\ upload'[v].wallet = upload[v].wallet
                               /\ upload'[v].file = upload[v].file /\ upload'[v].at = upload[v].at
  BY <1>2, <1>3
<1>6. \A v, w \in DOMAIN upload' : v < w => upload'[v].at <= upload'[w].at
  BY <1>4, <1>5 DEF InTime
<1> QED BY <1>4, <1>5, <1>6 DEF Minted, WalletsAt

\* A payment comes behind the others.
LEMMA PayGrows ==
  ASSUME TablesFit, InTime, NEW u \in DOMAIN upload, NEW payer, NEW amount, Pay(u, payer, amount)
  PROVE  TablesGrow /\ InTime'
<1> DEFINE row == [upload |-> u, payer |-> payer, amount |-> amount, at |-> now]
<1>1. /\ transaction' = Append(transaction, row)
      /\ upload' = [upload EXCEPT ![u].status = "Paid"]
      /\ UNCHANGED <<now, wallet, isDao, unlocked, mint, request>>
  BY DEF Pay
<1>2. row.at = now
  OBVIOUS
<1> HIDE DEF row
<1>3. PICK n \in Nat : n = Len(transaction) /\ DOMAIN transaction = 1..n
  BY DEF TablesFit
<1>4. transaction \in Seq(Transaction)
  BY DEF TablesFit
<1>5. /\ DOMAIN transaction' = 1..(n + 1) /\ \A t \in 1..n : transaction'[t] = transaction[t]
      /\ transaction'[n + 1] = row
  BY <1>1, <1>3, <1>4
<1>6. \A t \in 1..n : t \in 1..(n + 1)
  OBVIOUS
<1>7. /\ \A v \in DOMAIN upload :
           /\ v \in DOMAIN upload' /\ upload'[v].wallet = upload[v].wallet
           /\ upload'[v].file = upload[v].file /\ upload'[v].at = upload[v].at
           /\ Minted(v) \subseteq Minted(v)'
      /\ \A v, w \in DOMAIN upload' : v < w => upload'[v].at <= upload'[w].at
      /\ \A a : WalletsAt(a)' = WalletsAt(a)
  BY <1>1, StatusKeepsRows
<1>8. TablesGrow
  BY <1>3, <1>5, <1>6, <1>7 DEF TablesGrow
<1>9. \A t \in 1..n : transaction[t].at <= now
  <2>1. \A t \in 1..n : transaction[t] \in Transaction /\ now \in Nat
    BY <1>3, <1>4 DEF TablesFit
  <2> QED BY <2>1 DEF Transaction
<1>10. ASSUME NEW s \in DOMAIN transaction', NEW t \in DOMAIN transaction', s < t
       PROVE  transaction'[s].at <= transaction'[t].at
  <2>1. s \in 1..n /\ (t \in 1..n \/ t = n + 1)
    <3>1. s \in 1..(n + 1) /\ t \in 1..(n + 1)
      BY <1>5
    <3> QED BY ONLY <3>1, n \in Nat, s < t
  <2>2. CASE t \in 1..n
    BY <1>3, <1>5, <1>10, <2>1, <2>2 DEF InTime
  <2>3. CASE t = n + 1
    BY <1>2, <1>5, <1>9, <2>1, <2>3
  <2> QED BY <2>1, <2>2, <2>3
<1> QED BY <1>7, <1>8, <1>10 DEF InTime

\* Packing lists no upload elsewhere.
LEMMA PackGrows ==
  ASSUME TablesFit, InTime, NEW u \in DOMAIN upload, Pack(u)
  PROVE  TablesGrow /\ InTime'
<1>1. /\ upload' = [upload EXCEPT ![u].status = "TaskCreated"]
      /\ UNCHANGED <<now, wallet, isDao, transaction, unlocked, mint, request>>
  BY DEF Pack
<1>2. /\ \A v \in DOMAIN upload :
           /\ v \in DOMAIN upload' /\ upload'[v].wallet = upload[v].wallet
           /\ upload'[v].file = upload[v].file /\ upload'[v].at = upload[v].at
           /\ Minted(v) \subseteq Minted(v)'
      /\ \A v, w \in DOMAIN upload' : v < w => upload'[v].at <= upload'[w].at
      /\ \A a : WalletsAt(a)' = WalletsAt(a)
  BY <1>1, StatusKeepsRows
<1> QED BY <1>1, <1>2 DEF TablesGrow, InTime

\* A wallet is added where there is none with its address.
LEMMA SaveWalletGrows ==
  ASSUME TablesFit, InTime, NEW c \in Clients, SaveWallet(c)
  PROVE  TablesGrow /\ InTime'
<1>1. UNCHANGED <<upload, transaction, mint>>
  BY DEF SaveWallet
<1>2. CASE WalletsAt(request[c].address) # {}
  <2>1. wallet' = wallet
    BY <1>2 DEF SaveWallet
  <2> QED BY <1>1, <2>1, SameTablesGrow
<1>3. CASE WalletsAt(request[c].address) = {}
  <2>1. wallet' = Append(wallet, request[c].address) /\ wallet \in Seq(Addresses)
    BY <1>3 DEF SaveWallet, TablesFit
  <2>2. PICK n \in Nat : n = Len(wallet) /\ DOMAIN wallet = 1..n
    BY <2>1
  <2>3. /\ DOMAIN wallet' = 1..(n + 1) /\ \A w \in 1..n : wallet'[w] = wallet[w]
        /\ wallet'[n + 1] = request[c].address
    BY <2>1, <2>2
  <2>4. 1..(n + 1) = (1..n) \cup {n + 1}
    OBVIOUS
  <2>5. ASSUME NEW a, WalletsAt(a) # {} PROVE WalletsAt(a)' = WalletsAt(a)
    <3>1. a # request[c].address
      BY <1>3, <2>5
    <3> QED BY <2>2, <2>3, <2>4, <3>1 DEF WalletsAt
  <2> QED BY <1>1, <2>5 DEF TablesGrow, InTime, Minted
<1> QED BY <1>2, <1>3

\* A mint row is added to the others.
LEMMA MintGrows ==
  ASSUME TablesFit, InTime, NEW c \in Clients, CreateSourceFileMint(c)
  PROVE  TablesGrow /\ InTime'
<1>1. mint' = Append(mint, request[c].target) /\ UNCHANGED <<wallet, upload, transaction>>
  BY DEF CreateSourceFileMint
<1>2. PICK n \in Nat : n = Len(mint) /\ DOMAIN mint = 1..n
  BY DEF TablesFit
<1>3. mint \in Seq(DOMAIN upload)
  BY DEF TablesFit
<1>4. DOMAIN mint' = 1..(n + 1) /\ \A k \in 1..n : mint'[k] = mint[k]
  BY <1>1, <1>2, <1>3
<1>5. \A k \in 1..n : k \in 1..(n + 1)
  OBVIOUS
<1>6. \A u : Minted(u) \subseteq Minted(u)'
  BY <1>2, <1>4, <1>5 DEF Minted
<1> QED BY <1>1, <1>6 DEF TablesGrow, InTime, WalletsAt

\* Whatever happens, the tables only grow, and in the order of time.
LEMMA StepGrows ==
  ASSUME QueryInv, InTime, [QueryNext]_queryVars
  PROVE  TablesGrow /\ InTime'
<1>1. TablesFit
  BY DEF QueryInv
<1>2. CASE World
  <2>1. CASE \E w \in DOMAIN wallet, file \in Files, isFree \in BOOLEAN : SaveFile(w, file, isFree)
    BY <1>1, <2>1, SaveFileGrows
  <2>2. CASE \E u \in DOMAIN upload, payer \in DOMAIN wallet, amount \in Amounts : Pay(u, payer, amount)
    BY <1>1, <2>2, PayGrows
  <2>3. CASE \E u \in DOMAIN upload : Pack(u)
    BY <1>1, <2>3, PackGrows
  <2>4. CASE (\E u \in DOMAIN upload : Unlock(u)) \/ Tick
    BY <2>4, SameTablesGrow DEF Unlock, Tick, tables
  <2> QED BY <1>2, <2>1, <2>2, <2>3, <2>4 DEF World
<1>3. CASE \E c \in Clients : RequestStep(c)
  <2>1. PICK c \in Clients : RequestStep(c)
    BY <1>3
  <2>2. CASE SaveWallet(c)
    BY <1>1, <2>2, SaveWalletGrows
  <2>3. CASE CreateSourceFileMint(c)
    BY <1>1, <2>3, MintGrows
  <2>4. CASE SetWalletAsDao(c)
    BY <2>4, SameTablesGrow DEF SetWalletAsDao
  <2>5. ASSUME \/ \E address \in Addresses :
                    \/ \E q \in Queries : AskList(c, q, address)
                    \/ AskRegisterDao(c, address)
               \/ \E u \in DOMAIN upload : AskMint(c, u) \/ AskDeal(c, u)
               \/ GetWalletByAddress(c) \/ ListPage(c)
               \/ GetSourceFileMint(c) \/ GetSourceFileUploadDeal(c)
        PROVE  UNCHANGED <<wallet, upload, transaction, mint>>
    <3>1. UNCHANGED tables
      BY <2>5 DEF AskList, AskRegisterDao, AskMint, AskDeal, GetWalletByAddress, ListPage,
                  GetSourceFileMint, GetSourceFileUploadDeal
    <3> QED BY <3>1 DEF tables
  <2> QED BY <2>1, <2>2, <2>3, <2>4, <2>5, SameTablesGrow
          DEF RequestStep, GetDeals, DownloadDeals, GetUserBillingHistory
<1>4. CASE (\E c \in Clients : Answered(c)) \/ UNCHANGED queryVars
  <2>1. UNCHANGED tables
    BY <1>4 DEF Answered, queryVars
  <2> QED BY <2>1, SameTablesGrow DEF tables
<1> QED BY <1>2, <1>3, <1>4 DEF QueryNext

\* The shape of a request with a state of its own.
LEMMA ShapeOf ==
  ASSUME QueryInv, NEW c \in Clients, request[c] # Idle
  PROVE  /\ request[c].kind \in {"list", "registerDao", "mint", "deal"}
         /\ request[c].kind \in {"list", "registerDao"} => WalletRequest(request[c])
         /\ request[c].pc \in {"find", "create", "found"} =>
              request[c].kind \in {"list", "registerDao"}
         /\ request[c].pc \in {"checkMint", "insertMint"} => request[c].kind = "mint"
         /\ request[c].pc \in {"readDeal", "readPayment", "readCar"} => request[c].kind = "deal"
BY DEF QueryInv, RequestFits, WalletRequest, MintRequest, DealRequest

\* Who asks for a list has seen nothing of it, and notes what there is.
LEMMA AskListFits ==
  ASSUME QueryInv, NEW c \in Clients, NEW q \in Queries, NEW address \in Addresses,
         AskList(c, q, address)
  PROVE  \E n : request'[c] = n /\ ListFits(n) /\ UNCHANGED <<now, tables>>
<1> DEFINE first == UNION {IdsOf(q, w) : w \in WalletsAt(address)}
           known == WalletsAt(address) # {}
           n == [pc |-> "find", kind |-> "list", address |-> address, wallet |-> 0,
                 known |-> known, q |-> q, page |-> 1, seen |-> <<>>, calm |-> TRUE, first |-> first]
<1>1. TablesFit /\ IsInjective(wallet) /\ DOMAIN request = Clients
  BY DEF QueryInv
<1>2. Goes(c, n) /\ UNCHANGED <<now, tables>>
  BY DEF AskList
<1>3. first \subseteq Table(q)
  BY <1>1, RowsFinite
<1>4. WalletsAt(address) = {} => first = {}
  OBVIOUS
<1>5. \A w \in WalletsAt(address) : first \subseteq IdsOf(q, w)
  <2>1. \A v, w \in WalletsAt(address) : v = w
    BY <1>1 DEF WalletsAt, IsInjective
  <2> QED BY <2>1
<1> HIDE DEF first, known
<1>6. /\ {"pc", "kind", "address", "wallet", "known", "q", "page", "seen", "calm", "first"} = DOMAIN n
      /\ n.pc = "find" /\ n.kind = "list" /\ n.q = q /\ n.page = 1 /\ n.calm = TRUE
      /\ n.first = first /\ n.seen = <<>> /\ n.address = address
  OBVIOUS
<1> HIDE DEF n
<1>7. request'[c] = n
  BY <1>1, <1>2 DEF Goes
<1>8. WalkFits(n)
  <2>1. /\ n.q \in Queries /\ n.page \in Nat \ {0} /\ n.calm \in BOOLEAN /\ n.page = 1
        /\ n.first \subseteq Table(n.q)
    <3>1. n.q = q /\ n.page = 1 /\ n.calm = TRUE /\ n.first = first
      BY <1>6
    <3>2. n.first \subseteq Table(n.q)
      BY <1>3, <3>1
    <3>3. n.page \in Nat \ {0}
      BY ONLY <3>1, SMT
    <3>4. n.calm \in BOOLEAN
      BY ONLY <3>1, Zenon
    <3> QED BY <3>1, <3>2, <3>3, <3>4
  <2>2. WalletsAt(n.address) = {} => n.first = {}
    BY <1>4, <1>6
  <2>3. \A w \in WalletsAt(n.address) : n.first \subseteq IdsOf(n.q, w)
    BY <1>5, <1>6
  <2> QED BY <1>6, <2>1, <2>2, <2>3 DEF WalkFits
<1>9. ListFits(n)
  BY <1>6, <1>8 DEF ListFits
<1> QED BY <1>2, <1>7, <1>9

\* A walk does not depend on what else a request holds.
LEMMA SameWalk ==
  ASSUME NEW r, WalkFits(r), NEW n, DOMAIN n = DOMAIN r, n.address = r.address, n.q = r.q,
         n.page = r.page, n.seen = r.seen, n.calm = r.calm, n.first = r.first
  PROVE  WalkFits(n)
<1>1. \A A : Walked(r, A) => Walked(n, A)
  BY DEF Walked
<1>2. CalmWalk(r) => CalmWalk(n)
  BY <1>1 DEF CalmWalk
<1>3. GrowingWalk(r) => GrowingWalk(n)
  <2> SUFFICES ASSUME GrowingWalk(r), Growing(n.q), NEW w \in WalletsAt(n.address),
                      Clean(n.q, IdsOf(n.q, w))
               PROVE  \E A \in SUBSET IdsOf(n.q, w) :
                        /\ n.first \subseteq A /\ \A a \in A, b \in IdsOf(n.q, w) \ A : a < b
                        /\ Walked(n, A)
    BY DEF GrowingWalk
  <2>1. PICK A \in SUBSET IdsOf(r.q, w) :
          /\ r.first \subseteq A /\ \A a \in A, b \in IdsOf(r.q, w) \ A : a < b
          /\ Walked(r, A)
    BY DEF GrowingWalk
  <2> QED BY <1>1, <2>1
<1> QED BY <1>2, <1>3 DEF WalkFits

\* The wallet that is found is the one with the address.
LEMMA GetWalletByAddressFits ==
  ASSUME QueryInv, WalkInv, NEW c \in Clients, GetWalletByAddress(c)
  PROVE  \E n : request'[c] = n /\ ListFits(n) /\ UNCHANGED <<now, tables>>
<1>1. PICK r : r = request[c]
  OBVIOUS
<1>2. r.pc = "find" /\ UNCHANGED <<now, tables>> /\ r # Idle
  <2>1. request[c].pc = "find" /\ UNCHANGED <<now, tables>>
    BY DEF GetWalletByAddress
  <2> QED BY <1>1, <2>1 DEF Idle
<1>3. WalletRequest(r) /\ DOMAIN request = Clients
  BY <1>1, <1>2, ShapeOf DEF QueryInv
<1>4. r.kind = "list" => WalkFits(r)
  BY <1>1, <1>2 DEF WalkInv, ListFits
<1>5. CASE WalletsAt(r.address) = {}
  <2> DEFINE n == [r EXCEPT !.pc = "create"]
  <2>1. Goes(c, n)
    BY <1>1, <1>5 DEF GetWalletByAddress
  <2>2. request'[c] = n
    BY <1>3, <2>1 DEF Goes
  <2>3. /\ DOMAIN n = DOMAIN r /\ n.pc = "create" /\ n.kind = r.kind
        /\ n.address = r.address /\ n.q = r.q /\ n.page = r.page /\ n.seen = r.seen
        /\ n.calm = r.calm /\ n.first = r.first
    BY <1>3 DEF WalletRequest
  <2> HIDE DEF n
  <2>4. r.kind = "list" => WalkFits(n)
    BY <1>4, <2>3, SameWalk
  <2>5. ListFits(n)
    BY <2>3, <2>4 DEF ListFits
  <2> QED BY <1>2, <2>2, <2>5
<1>6. CASE WalletsAt(r.address) # {}
  <2>1. PICK w \in WalletsAt(r.address) : Goes(c, [r EXCEPT !.pc = "found", !.wallet = w])
    BY <1>1, <1>6 DEF GetWalletByAddress
  <2> DEFINE n == [r EXCEPT !.pc = "found", !.wallet = w]
  <2>2. request'[c] = n
    BY <1>3, <2>1 DEF Goes
  <2>3. /\ DOMAIN n = DOMAIN r /\ n.pc = "found" /\ n.kind = r.kind /\ n.wallet = w
        /\ n.address = r.address /\ n.q = r.q /\ n.page = r.page /\ n.seen = r.seen
        /\ n.calm = r.calm /\ n.first = r.first
    BY <1>3 DEF WalletRequest
  <2> HIDE DEF n
  <2>4. r.kind = "list" => WalkFits(n)
    BY <1>4, <2>3, SameWalk
  <2>5. ListFits(n)
    BY <2>3, <2>4 DEF ListFits
  <2> QED BY <1>2, <2>2, <2>5
<1> QED BY <1>5, <1>6

\* A wallet that is created has the address.
LEMMA SaveWalletFits ==
  ASSUME QueryInv, QueryInv', WalkInv, TablesGrow, NEW c \in Clients, SaveWallet(c)
  PROVE  ListFits(request[c])'
<1>1. PICK r : r = request[c]
  OBVIOUS
<1>2. r.pc = "create" /\ r # Idle
  BY <1>1 DEF SaveWallet, Idle
<1>3. WalletRequest(r) /\ DOMAIN request = Clients
  BY <1>1, <1>2, ShapeOf DEF QueryInv
<1>4. r.kind = "list" => WalkFits(r)'
  <2>1. r.kind = "list" => WalkFits(r)
    BY <1>1, <1>2 DEF WalkInv, ListFits
  <2> QED BY <2>1, WalkKept DEF QueryInv
<1>5. CASE WalletsAt(r.address) # {}
  <2> DEFINE n == [r EXCEPT !.pc = "failed"]
  <2>1. Goes(c, n)
    BY <1>1, <1>5 DEF SaveWallet
  <2>2. request'[c] = n
    BY <1>3, <2>1 DEF Goes
  <2>3. n.pc = "failed"
    BY <1>3 DEF WalletRequest
  <2> QED BY <2>2, <2>3 DEF ListFits
<1>6. CASE WalletsAt(r.address) = {}
  <2>1. PICK id : id = Len(wallet) + 1
    OBVIOUS
  <2> DEFINE n == [r EXCEPT !.pc = "found", !.wallet = id]
  <2>2. Goes(c, n) /\ wallet' = Append(wallet, r.address)
    BY <1>1, <1>6, <2>1 DEF SaveWallet
  <2>3. request'[c] = n
    BY <1>3, <2>2 DEF Goes
  <2>4. /\ DOMAIN n = DOMAIN r /\ n.pc = "found" /\ n.kind = r.kind /\ n.wallet = id
        /\ n.address = r.address /\ n.q = r.q /\ n.page = r.page /\ n.seen = r.seen
        /\ n.calm = r.calm /\ n.first = r.first
    BY <1>3 DEF WalletRequest
  <2>5. id \in WalletsAt(r.address)'
    <3>1. wallet \in Seq(Addresses)
      BY DEF QueryInv, TablesFit
    <3>2. id \in DOMAIN wallet' /\ wallet'[id] = r.address
      BY <2>1, <2>2, <3>1
    <3> QED BY <3>2 DEF WalletsAt
  <2>6. PICK m : m = n
    OBVIOUS
  <2>7. r.kind = "list" => WalkFits(m)'
    <3> HIDE DEF n
    <3>1. /\ DOMAIN m = DOMAIN r /\ m.address = r.address /\ m.q = r.q /\ m.page = r.page
          /\ m.seen = r.seen /\ m.calm = r.calm /\ m.first = r.first
      BY <2>4, <2>6
    <3>2. ASSUME WalkFits(r)' PROVE WalkFits(m)'
      <4>1. \A A : Walked(r, A)' => Walked(m, A)'
        BY <3>1 DEF Walked
      <4>2. CalmWalk(r)' => CalmWalk(m)'
        BY <3>1, <4>1 DEF CalmWalk
      <4>3. GrowingWalk(r)' => GrowingWalk(m)'
        <5> SUFFICES ASSUME GrowingWalk(r)', Growing(m.q), NEW w \in WalletsAt(m.address)',
                            Clean(m.q, IdsOf(m.q, w))'
                     PROVE  \E A \in SUBSET (IdsOf(m.q, w)') :
                              /\ m.first \subseteq A
                              /\ \A a \in A, b \in (IdsOf(m.q, w)') \ A : a < b
                              /\ Walked(m, A)'
          BY DEF GrowingWalk, Growing
        <5>1. PICK A \in SUBSET (IdsOf(r.q, w)') :
                /\ r.first \subseteq A /\ \A a \in A, b \in (IdsOf(r.q, w)') \ A : a < b
                /\ Walked(r, A)'
          BY <3>1 DEF GrowingWalk, Growing
        <5> QED BY <3>1, <4>1, <5>1
      <4> QED BY <3>1, <3>2, <4>2, <4>3 DEF WalkFits, Growing
    <3> QED BY <1>4, <3>2
  <2> HIDE DEF n
  <2>8. /\ r.kind = "list" => WalkFits(m)'
        /\ m.pc = "found" /\ m.kind = r.kind /\ m.wallet \in WalletsAt(m.address)'
        /\ request'[c] = m
    BY <2>3, <2>4, <2>5, <2>6, <2>7
  <2> QED BY <2>8 DEF ListFits
<1> QED BY <1>5, <1>6

\* The next page of a walk, or its end.
LEMMA ListPageFits ==
  ASSUME QueryInv, WalkInv, NEW c \in Clients, ListPage(c)
  PROVE  \E n : request'[c] = n /\ ListFits(n) /\ UNCHANGED <<now, tables>>
<1> DEFINE r == request[c]
<1>2. r.pc = "found" /\ r.kind = "list" /\ UNCHANGED <<now, tables>> /\ r # Idle
  BY DEF ListPage, Idle
<1>3. DOMAIN request = Clients /\ TablesFit /\ IsInjective(wallet)
  BY DEF QueryInv
<1>4. WalkFits(r) /\ r.wallet \in WalletsAt(r.address)
  BY <1>2 DEF WalkInv, ListFits
<1>5. PICK s \in Sorted(r.q, Rows(r.q, r.wallet)) :
       LET rows == Page(s, r.q.limit, r.page)
           ids == [i \in DOMAIN rows |-> rows[i][1]]
       IN  Goes(c, [r EXCEPT !.seen = @ \o ids, !.page = @ + 1,
                             !.pc = IF rows = <<>> \/ r.q.limit = NoLimit THEN "done" ELSE "find",
                             !.calm = @ /\ IdsOf(r.q, r.wallet) = r.first])
  BY DEF ListPage
<1> DEFINE rows == Page(s, r.q.limit, r.page)
           ids == [i \in DOMAIN rows |-> rows[i][1]]
           seen == r.seen \o ids
           pc == IF rows = <<>> \/ r.q.limit = NoLimit THEN "done" ELSE "find"
           calm == r.calm /\ IdsOf(r.q, r.wallet) = r.first
           n == [r EXCEPT !.seen = seen, !.page = r.page + 1, !.pc = pc, !.calm = calm]
<1>6. Goes(c, n)
  BY <1>5
<1>7. request'[c] = n
  BY <1>3, <1>6 DEF Goes
<1>8. /\ n.seen = seen /\ n.page = r.page + 1 /\ n.calm = calm /\ n.pc = pc
      /\ DOMAIN n = DOMAIN r /\ n.kind = r.kind /\ n.address = r.address /\ n.wallet = r.wallet
      /\ n.q = r.q /\ n.first = r.first
  <2> HIDE DEF seen, pc, calm
  <2> QED BY <1>4 DEF WalkFits
<1> HIDE DEF n
<1>9. IF n.pc = "done" THEN Sees(n) ELSE WalkFits(n)
  BY <1>3, <1>4, <1>8, WalkGoesOn DEF WalkInv
<1>10. n.pc \in {"done", "find"}
  BY <1>8
<1>11. ListFits(n)
  BY <1>9, <1>10 DEF ListFits
<1> QED BY <1>2, <1>7, <1>11

\* Requests for anything else are none for lists.
LEMMA OthersAreNoLists ==
  ASSUME QueryInv, NEW c \in Clients,
         \/ \E address \in Addresses : AskRegisterDao(c, address)
         \/ \E u \in DOMAIN upload : AskMint(c, u) \/ AskDeal(c, u)
         \/ SetWalletAsDao(c) \/ GetSourceFileMint(c) \/ CreateSourceFileMint(c)
         \/ GetSourceFileUploadDeal(c) \/ Answered(c)
  PROVE  \E n : request'[c] = n /\ (n = Idle \/ n.kind # "list")
<1>1. DOMAIN request = Clients
  BY DEF QueryInv
<1>2. PICK r : r = request[c]
  OBVIOUS
<1>3. CASE \E address \in Addresses : AskRegisterDao(c, address)
  BY <1>1, <1>3 DEF AskRegisterDao, Goes
<1>4. CASE \E u \in DOMAIN upload : AskMint(c, u) \/ AskDeal(c, u)
  BY <1>1, <1>4 DEF AskMint, AskDeal, Goes
<1>5. CASE SetWalletAsDao(c)
  <2>1. request'[c] = [r EXCEPT !.pc = "done"] /\ r.kind = "registerDao"
    BY <1>1, <1>2, <1>5 DEF SetWalletAsDao, Goes
  <2>2. r.pc = "found" /\ r # Idle
    BY <1>2, <1>5 DEF SetWalletAsDao, Idle
  <2>3. "kind" \in DOMAIN r
    BY <1>2, <2>1, <2>2, ShapeOf DEF WalletRequest
  <2> QED BY <2>1, <2>3
<1>6. CASE GetSourceFileMint(c) \/ CreateSourceFileMint(c)
  <2>1. \E pc : request'[c] = [r EXCEPT !.pc = pc]
    BY <1>1, <1>2, <1>6 DEF GetSourceFileMint, CreateSourceFileMint, Goes
  <2>2. r.pc \in {"checkMint", "insertMint"} /\ r # Idle
    BY <1>2, <1>6 DEF GetSourceFileMint, CreateSourceFileMint, Idle
  <2>3. MintRequest(r)
    BY <1>2, <2>2 DEF QueryInv, RequestFits, WalletRequest, DealRequest
  <2> QED BY <2>1, <2>3 DEF MintRequest
<1>7. CASE GetSourceFileUploadDeal(c)
  <2>1. r.pc \in {"readDeal", "readPayment", "readCar"} /\ r # Idle
    BY <1>2, <1>7 DEF GetSourceFileUploadDeal, Idle
  <2>2. DealRequest(r)
    BY <1>2, <2>1 DEF QueryInv, RequestFits, WalletRequest, MintRequest
  <2>3. \E pc, x : \/ request'[c] = [r EXCEPT !.unlocked = x, !.pc = pc]
                   \/ request'[c] = [r EXCEPT !.paid = x, !.pc = pc]
                   \/ request'[c] = [r EXCEPT !.inCar = x, !.pc = pc]
    <3>1. CASE r.pc = "readDeal"
      <4>1. Goes(c, [r EXCEPT !.unlocked = r.deal \in unlocked, !.pc = "readPayment"])
        BY <1>2, <1>7, <3>1 DEF GetSourceFileUploadDeal
      <4> QED BY <1>1, <4>1 DEF Goes
    <3>2. CASE r.pc = "readPayment"
      <4>1. Goes(c, [r EXCEPT !.paid = Paid(r.target), !.pc = "readCar"])
        BY <1>2, <1>7, <3>2 DEF GetSourceFileUploadDeal
      <4> QED BY <1>1, <4>1 DEF Goes
    <3>3. CASE r.pc = "readCar"
      <4>1. Goes(c, [r EXCEPT !.inCar = upload[r.target].status = "TaskCreated", !.pc = "done"])
        BY <1>2, <1>7, <3>3 DEF GetSourceFileUploadDeal
      <4> QED BY <1>1, <4>1 DEF Goes
    <3> QED BY <2>1, <3>1, <3>2, <3>3
  <2>4. r.kind = "deal" /\ "kind" \in DOMAIN r
    BY <2>2 DEF DealRequest
  <2> QED BY <2>3, <2>4
<1>8. CASE Answered(c)
  BY <1>1, <1>8 DEF Answered, Goes
<1> QED BY <1>3, <1>4, <1>5, <1>6, <1>7, <1>8

\* Every step keeps what the walks rest on.
LEMMA WalkStepInv ==
  QueryInv /\ QueryInv' /\ WalkInv /\ [QueryNext]_queryVars => WalkInv'
<1> SUFFICES ASSUME QueryInv, QueryInv', WalkInv, [QueryNext]_queryVars PROVE WalkInv'
  OBVIOUS
<1>1. TablesFit /\ TablesFit' /\ TablesGrow /\ InTime'
  BY StepGrows DEF QueryInv, WalkInv
<1>2. SUFFICES \A d \in Clients : ListFits(request[d])'
  BY <1>1 DEF WalkInv
<1>3. ASSUME NEW c \in Clients, NEW n, request'[c] = n, ListFits(n), UNCHANGED tables
      PROVE  ListFits(request[c])'
  <2>1. PICK m : m = n
    OBVIOUS
  <2>2. ListFits(m)'
    BY <1>1, <1>3, <2>1, ListKept
  <2> QED BY <1>3, <2>1, <2>2
<1>4. CASE ~(\E c \in Clients : request[c].pc \in {"done", "failed"}) /\ World
  <2>1. UNCHANGED request
    BY <1>4 DEF World, SaveFile, Pay, Pack, Unlock, Tick
  <2> QED BY <1>1, <1>4, <2>1, WorldKeepsLists
<1>5. ASSUME ~(\E c \in Clients : request[c].pc \in {"done", "failed"}),
             NEW c \in Clients, RequestStep(c)
      PROVE  \A d \in Clients : ListFits(request[d])'
  <2>1. \A d \in Clients \ {c} : request'[d] = request[d]
    <3>1. \E r : Goes(c, r)
      <4>1. CASE \E address \in Addresses :
                   \/ \E q \in Queries : GetDeals(c, q, address) \/ DownloadDeals(c, q, address)
                                         \/ GetUserBillingHistory(c, q, address)
                   \/ AskRegisterDao(c, address)
        BY <4>1 DEF GetDeals, DownloadDeals, GetUserBillingHistory, AskList, AskRegisterDao
      <4>2. CASE \E u \in DOMAIN upload : AskMint(c, u) \/ AskDeal(c, u)
        BY <4>2 DEF AskMint, AskDeal
      <4>3. CASE GetWalletByAddress(c) \/ SaveWallet(c) \/ SetWalletAsDao(c)
        BY <4>3 DEF GetWalletByAddress, SaveWallet, SetWalletAsDao
      <4>4. CASE ListPage(c)
        BY <4>4 DEF ListPage
      <4>5. CASE GetSourceFileMint(c) \/ CreateSourceFileMint(c)
        BY <4>5 DEF GetSourceFileMint, CreateSourceFileMint
      <4>6. CASE GetSourceFileUploadDeal(c)
        BY <4>6 DEF GetSourceFileUploadDeal
      <4> QED BY <1>5, <4>1, <4>2, <4>3, <4>4, <4>5, <4>6 DEF RequestStep
    <3> QED BY <3>1 DEF Goes, QueryInv
  <2>2. ListFits(request[c])'
    <3>1. CASE \E address \in Addresses, q \in Queries :
                 GetDeals(c, q, address) \/ DownloadDeals(c, q, address)
                 \/ GetUserBillingHistory(c, q, address)
      <4>1. PICK address \in Addresses, q \in Queries : AskList(c, q, address)
        BY <3>1 DEF GetDeals, DownloadDeals, GetUserBillingHistory
      <4> QED BY <1>3, <4>1, AskListFits DEF tables
    <3>2. CASE GetWalletByAddress(c)
      BY <1>3, <3>2, GetWalletByAddressFits
    <3>3. CASE SaveWallet(c)
      BY <1>1, <3>3, SaveWalletFits
    <3>4. CASE ListPage(c)
      BY <1>3, <3>4, ListPageFits
    <3>5. ASSUME \/ \E address \in Addresses : AskRegisterDao(c, address)
                 \/ \E u \in DOMAIN upload : AskMint(c, u) \/ AskDeal(c, u)
                 \/ SetWalletAsDao(c) \/ GetSourceFileMint(c) \/ CreateSourceFileMint(c)
                 \/ GetSourceFileUploadDeal(c)
          PROVE  ListFits(request[c])'
      <4>1. PICK n : request'[c] = n /\ (n = Idle \/ n.kind # "list")
        BY <3>5, OthersAreNoLists
      <4> QED BY <4>1 DEF ListFits
    <3> QED BY <1>5, <3>1, <3>2, <3>3, <3>4, <3>5 DEF RequestStep
  <2>3. \A d \in Clients : request[d].pc # "done" \/ UNCHANGED tables
    BY <1>5
  <2> QED BY <1>1, <2>1, <2>2, <2>3, StepKeepsLists
<1>6. ASSUME NEW c \in Clients, Answered(c) PROVE \A d \in Clients : ListFits(request[d])'
  <2>1. Goes(c, Idle) /\ UNCHANGED tables
    BY <1>6 DEF Answered
  <2>2. /\ request'[c] = Idle /\ \A d \in Clients \ {c} : request'[d] = request[d]
    BY <2>1 DEF Goes, QueryInv
  <2>3. ListFits(request[c])'
    BY <2>2 DEF ListFits
  <2> QED BY <1>1, <2>1, <2>2, <2>3, StepKeepsLists
<1>7. CASE UNCHANGED queryVars
  <2>1. UNCHANGED request /\ UNCHANGED tables
    BY <1>7 DEF queryVars
  <2> QED BY <1>1, <2>1, WorldKeepsLists
<1> QED BY <1>4, <1>5, <1>6, <1>7 DEF QueryNext

\* Who goes through a list page by page sees what was there at first, and no row twice, if
\* the rows have different keys and stay, or if new ones only come behind: whatever the
\* size of a page is, and whatever goes on between two of them.
THEOREM WalksSeeEachOnce == QuerySpec => []WalkSeesEachOnce
<1> QED
  BY QueryInvariance, WalkInitInv, WalkStepInv, WalkInvSuffices, PTL DEF QuerySpec
=============================================================================
