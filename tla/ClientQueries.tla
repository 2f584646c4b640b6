---------------------------- MODULE ClientQueries ---------------------------
(***************************************************************************)
(* What the HTTP clients read and the little they write themselves: lists  *)
(* of uploads and of payments, page by page (models/source_file_upload.go, *)
(* models/transaction.go); what is known of a deal, put together from      *)
(* several reads; mint records; DAO members; and the wallets behind them,  *)
(* found by their address or created.                                      *)
(*                                                                         *)
(* One step is one statement on the database.  A page is a request of its  *)
(* own, and uploads, payments and deals go on between the pages of a list. *)
(* Page numbers and sizes are small enough for their product to fit an int.*)
(***************************************************************************)
EXTENDS Integers, FiniteSets, SequencesExt, TLC

CONSTANTS
  Clients,     \* each makes one request after another
  Addresses,   \* of MetaMask wallets
  Files,       \* what is uploaded: [name, size]
  Amounts,     \* pay_amount: sequences of digits
  Queries,     \* what lists are asked for
  MaxReaders,  \* bound: lists and deals asked for at a time (a read changes nothing for others)
  MaxMints,    \* bound: rows after which no mint is recorded any more
  MaxUploads, MaxNow  \* bounds

VARIABLES
  now,
  wallet,       \* the addresses in the order of their ids
  isDao,        \* wallets with is_dao
  upload,       \* source_file_upload, in the order of the ids
  transaction,  \* in the order of the ids
  unlocked,     \* uploads stored by a deal in status Success
  mint,         \* source_file_mint: the uploads, in the order of the ids
  request       \* what each client waits for

tables == <<wallet, isDao, upload, transaction, unlocked, mint>>
queryVars == <<now, tables, request>>

NoLimit == 0
All == "any"
\* Any other order asked for is that of upload_at or pay_at, but for unlock_amount,
\* unlock_at and deadline of a payment, which are left out.
OrderBy(list) == IF list = "uploads" THEN {"file_name", "file_size", "upload_at"}
                 ELSE {"file_name", "pay_amount", "pay_at"}
Query == {q \in [list : {"uploads", "billing"}, orderBy : STRING, ascend : BOOLEAN,
                 status : {All, "Pending", "Processing"}, minted : {All, "y", "n"}, limit : Nat] :
            q.orderBy \in OrderBy(q.list)}

Everything == [list |-> "uploads", orderBy |-> "upload_at", ascend |-> TRUE,
               status |-> All, minted |-> All, limit |-> NoLimit]

ASSUME QueryAssumption ==
  /\ Queries \subseteq Query /\ Clients # {} /\ MaxReaders \in Nat /\ MaxMints \in Nat
  /\ MaxUploads \in Nat /\ MaxNow \in Nat
  /\ Files \subseteq [name : Nat, size : Nat] /\ Amounts \subseteq Seq(0..9)

Upload == [wallet : DOMAIN wallet, file : Files, at : 0..now, isFree : BOOLEAN,
           status : {"Free", "Pending", "Paid", "TaskCreated"}]
Transaction == [upload : DOMAIN upload, payer : DOMAIN wallet, amount : Amounts, at : 0..now]

IsSeqOf(s, S) == \A i \in DOMAIN s : s[i] \in S

QueryTypeOK ==
  /\ now \in 0..MaxNow
  /\ IsSeqOf(wallet, Addresses) /\ isDao \subseteq DOMAIN wallet
  /\ IsSeqOf(upload, Upload) /\ Len(upload) <= MaxUploads
  /\ IsSeqOf(transaction, Transaction)
  /\ unlocked \subseteq {u \in DOMAIN upload : upload[u].status = "TaskCreated"}
  /\ IsSeqOf(mint, DOMAIN upload)

Idle == [pc |-> "idle"]

QueryInit ==
  /\ now = 0 /\ wallet = <<>> /\ isDao = {} /\ upload = <<>> /\ transaction = <<>>
  /\ unlocked = {} /\ mint = <<>>
  /\ request = [c \in Clients |-> Idle]

Goes(c, r) == request' = [request EXCEPT ![c] = r]

Readers == {c \in Clients : request[c] # Idle /\ request[c].kind \in {"list", "deal"}}

-----------------------------------------------------------------------------
(* Lists: the rows a query selects, their order, and a page of them.       *)

Minted(u) == {k \in DOMAIN mint : mint[k] = u}

InStatus(q, status) ==
  CASE q.status = All -> TRUE
    [] q.status = "Processing" -> status # "Pending"
    [] OTHER -> status = q.status

\* The left outer join with the mint rows: an upload without one has the row 0.  An
\* upload is paid once (Pay), so that the join with the transactions adds no row.
\* Metadata of mints is uploaded as another file type, which the query excludes: it
\* is not modelled.
UploadRows(q, w) ==
  {row \in (DOMAIN upload) \X (0..Len(mint)) :
     LET u == row[1] IN
     /\ upload[u].wallet = w /\ InStatus(q, upload[u].status)
     /\ IF Minted(u) = {} THEN row[2] = 0 /\ q.minted # "y"
        ELSE row[2] \in Minted(u) /\ q.minted # "n"}

\* An upload is in one car at most (Packing!PackedOnce), so that the join adds none.
BillingRows(w) == {row \in (DOMAIN transaction) \X {0} : transaction[row[1]].payer = w}

Rows(q, w) == IF q.list = "uploads" THEN UploadRows(q, w) ELSE BillingRows(w)

UploadOf(q, row) == IF q.list = "uploads" THEN upload[row[1]]
                    ELSE upload[transaction[row[1]].upload]

\* What the Less of a sort compares; numbers are sequences of one, and amounts strings.
Key(q, row) ==
  CASE q.orderBy = "file_name"  -> <<UploadOf(q, row).file.name>>
    [] q.orderBy = "file_size"  -> <<UploadOf(q, row).file.size>>
    [] q.orderBy = "upload_at"  -> <<UploadOf(q, row).at>>
    [] q.orderBy = "pay_at"     -> <<transaction[row[1]].at>>
    [] q.orderBy = "pay_amount" -> transaction[row[1]].amount

Less(s, t) ==
  \/ s # t /\ IsPrefix(s, t)
  \/ \E i \in (DOMAIN s) \cap (DOMAIN t) :
       s[i] < t[i] /\ \A j \in 1..(i - 1) : s[j] = t[j]

\* sort.Sort is not stable, and the rows come in no particular order.
Sorted(q, rows) ==
  {s \in SetToSeqs(rows) : \A i, j \in DOMAIN s :
     i < j => IF q.ascend THEN ~Less(Key(q, s[j]), Key(q, s[i]))
              ELSE ~Less(Key(q, s[i]), Key(q, s[j]))}

\* Mutant: pages count from 0.
Page_FromZero(s, limit, offset) ==
  LET start == offset * limit
      end == start + limit
  IN  IF limit = NoLimit THEN s
      ELSE IF start >= Len(s) THEN <<>>
      ELSE SubSeq(s, start + 1, IF end >= Len(s) THEN Len(s) ELSE end)

Page(s, limit, offset) ==
  LET start == (offset - 1) * limit
      end == start + limit
  IN  IF limit = NoLimit THEN s
      ELSE IF start >= Len(s) THEN <<>>
      ELSE SubSeq(s, start + 1, IF end >= Len(s) THEN Len(s) ELSE end)

-----------------------------------------------------------------------------
(* Wallets, found or created for every request that names an address.      *)

WalletsAt(address) == {w \in DOMAIN wallet : wallet[w] = address}

GetWalletByAddress(c) ==
  LET r == request[c]
      found == WalletsAt(r.address)
  IN  /\ r.pc = "find"
      /\ IF found = {} THEN Goes(c, [r EXCEPT !.pc = "create"])
         ELSE \E w \in found : Goes(c, [r EXCEPT !.pc = "found", !.wallet = w])
      /\ UNCHANGED <<now, tables>>

\* un_wallet_address_type refuses an address that another request has just inserted.
SaveWallet(c) ==
  LET r == request[c] IN
  /\ r.pc = "create"
  /\ IF WalletsAt(r.address) # {}
     THEN Goes(c, [r EXCEPT !.pc = "failed"]) /\ UNCHANGED wallet
     ELSE /\ wallet' = Append(wallet, r.address)
          /\ Goes(c, [r EXCEPT !.pc = "found", !.wallet = Len(wallet) + 1])
  /\ UNCHANGED <<now, isDao, upload, transaction, unlocked, mint>>

\* Mutant: whatever wallet the request holds, none included.
SetWalletAsDao_Unfound(c) ==
  LET r == request[c] IN
  /\ r.pc \in {"find", "found"} /\ r.kind = "registerDao"
  /\ isDao' = isDao \cup {r.wallet}
  /\ Goes(c, [r EXCEPT !.pc = "done"])
  /\ UNCHANGED <<now, wallet, upload, transaction, unlocked, mint>>

\* RegisterDao; the flag is set again where it was already read as set.
SetWalletAsDao(c) ==
  LET r == request[c] IN
  /\ r.pc = "found" /\ r.kind = "registerDao"
  /\ isDao' = isDao \cup {r.wallet}
  /\ Goes(c, [r EXCEPT !.pc = "done"])
  /\ UNCHANGED <<now, wallet, upload, transaction, unlocked, mint>>

-----------------------------------------------------------------------------
(* Requests.  first, calm, known and before are history.                   *)

IdsOf(q, w) == {row[1] : row \in Rows(q, w)}

AskList(c, q, address) ==
  /\ request[c] = Idle /\ Cardinality(Readers) < MaxReaders
  /\ Goes(c, [pc |-> "find", kind |-> "list", address |-> address, wallet |-> 0,
              known |-> WalletsAt(address) # {},
              q |-> q, page |-> 1, seen |-> <<>>, calm |-> TRUE,
              first |-> UNION {IdsOf(q, w) : w \in WalletsAt(address)}])
  /\ UNCHANGED <<now, tables>>

GetDeals(c, q, address) ==
  q.list = "uploads" /\ q.limit # NoLimit /\ AskList(c, q, address)

\* The whole list, the oldest upload first.
DownloadDeals(c, q, address) ==
  q = Everything /\ AskList(c, q, address)

GetUserBillingHistory(c, q, address) ==
  q.list = "billing" /\ q.limit # NoLimit /\ AskList(c, q, address)

\* One page; the client asks for the next until there is none.
ListPage(c) ==
  LET r == request[c] IN
  /\ r.pc = "found" /\ r.kind = "list"
  /\ \E s \in Sorted(r.q, Rows(r.q, r.wallet)) :
       LET rows == Page(s, r.q.limit, r.page)
           ids == [i \in DOMAIN rows |-> rows[i][1]]
       IN  Goes(c, [r EXCEPT !.seen = @ \o ids, !.page = @ + 1,
                             !.pc = IF rows = <<>> \/ r.q.limit = NoLimit THEN "done" ELSE "find",
                             !.calm = @ /\ IdsOf(r.q, r.wallet) = r.first])
  /\ UNCHANGED <<now, tables>>

\* Bound: DAO members register once and upload nothing, and who uploads is none.
AskRegisterDao(c, address) ==
  /\ request[c] = Idle /\ upload = <<>> /\ WalletsAt(address) \cap isDao = {}
  /\ Goes(c, [pc |-> "find", kind |-> "registerDao", address |-> address, wallet |-> 0,
              known |-> WalletsAt(address) # {}])
  /\ UNCHANGED <<now, tables>>

AskMint(c, u) ==
  /\ request[c] = Idle /\ Len(mint) <= MaxMints
  /\ Goes(c, [pc |-> "checkMint", kind |-> "mint", target |-> u, before |-> Minted(u) # {}])
  /\ UNCHANGED <<now, tables>>

\* Mutant: what the look-up finds is not looked at.
GetSourceFileMint_Unchecked(c) ==
  LET r == request[c] IN
  /\ r.pc = "checkMint"
  /\ Goes(c, [r EXCEPT !.pc = "insertMint"])
  /\ UNCHANGED <<now, tables>>

GetSourceFileMint(c) ==
  LET r == request[c] IN
  /\ r.pc = "checkMint"
  /\ Goes(c, [r EXCEPT !.pc = IF Minted(r.target) = {} THEN "insertMint" ELSE "failed"])
  /\ UNCHANGED <<now, tables>>

\* No key of source_file_mint refuses a second row.
CreateSourceFileMint(c) ==
  LET r == request[c] IN
  /\ r.pc = "insertMint"
  /\ mint' = Append(mint, r.target)
  /\ Goes(c, [r EXCEPT !.pc = "done"])
  /\ UNCHANGED <<now, wallet, isDao, upload, transaction, unlocked>>

\* The client names an upload and a deal, and nothing compares them.  A deal is named
\* here by an upload that it stores.
AskDeal(c, u) ==
  /\ request[c] = Idle /\ Cardinality(Readers) < MaxReaders
  /\ \E deal \in DOMAIN upload :
       Goes(c, [pc |-> "readDeal", kind |-> "deal", target |-> u, deal |-> deal,
                unlocked |-> FALSE, paid |-> FALSE, inCar |-> FALSE])
  /\ UNCHANGED <<now, tables>>

Paid(u) == \E t \in DOMAIN transaction : transaction[t].upload = u

\* Mutant: the deal is read last.
GetSourceFileUploadDeal_DealLast(c) ==
  LET r == request[c] IN
  /\ CASE r.pc = "readDeal" -> Goes(c, [r EXCEPT !.paid = Paid(r.target), !.pc = "readPayment"])
       [] r.pc = "readPayment" ->
            Goes(c, [r EXCEPT !.inCar = upload[r.target].status = "TaskCreated", !.pc = "readCar"])
       [] r.pc = "readCar" -> Goes(c, [r EXCEPT !.unlocked = r.deal \in unlocked, !.pc = "done"])
       [] OTHER -> FALSE
  /\ UNCHANGED <<now, tables>>

\* Three reads: the deal, the transaction, the car (what else is read never changes).
GetSourceFileUploadDeal(c) ==
  LET r == request[c] IN
  /\ CASE r.pc = "readDeal" ->
            Goes(c, [r EXCEPT !.unlocked = r.deal \in unlocked, !.pc = "readPayment"])
       [] r.pc = "readPayment" -> Goes(c, [r EXCEPT !.paid = Paid(r.target), !.pc = "readCar"])
       [] r.pc = "readCar" ->
            Goes(c, [r EXCEPT !.inCar = upload[r.target].status = "TaskCreated", !.pc = "done"])
       [] OTHER -> FALSE
  /\ UNCHANGED <<now, tables>>

Answered(c) ==
  /\ request[c].pc \in {"done", "failed"}
  /\ Goes(c, Idle)
  /\ UNCHANGED <<now, tables>>

RequestStep(c) ==
  \/ \E address \in Addresses :
       \/ \E q \in Queries : GetDeals(c, q, address) \/ DownloadDeals(c, q, address)
                             \/ GetUserBillingHistory(c, q, address)
       \/ AskRegisterDao(c, address)
  \/ \E u \in DOMAIN upload : AskMint(c, u) \/ AskDeal(c, u)
  \/ GetWalletByAddress(c) \/ SaveWallet(c) \/ SetWalletAsDao(c) \/ ListPage(c)
  \/ GetSourceFileMint(c) \/ CreateSourceFileMint(c) \/ GetSourceFileUploadDeal(c)

-----------------------------------------------------------------------------
(* What goes on meanwhile: uploads, payments, cars, deals and time.        *)

SaveFile(w, file, isFree) ==
  /\ Len(upload) < MaxUploads /\ w \notin isDao
  /\ \A c \in Clients : request[c] # Idle => request[c].kind # "registerDao"
  /\ upload' = Append(upload, [wallet |-> w, file |-> file, at |-> now, isFree |-> isFree,
                               status |-> IF isFree THEN "Free" ELSE "Pending"])
  /\ UNCHANGED <<now, wallet, isDao, transaction, unlocked, mint, request>>

Pay(u, payer, amount) ==
  /\ upload[u].status = "Pending"
  /\ transaction' = Append(transaction,
       [upload |-> u, payer |-> payer, amount |-> amount, at |-> now])
  /\ upload' = [upload EXCEPT ![u].status = "Paid"]
  /\ UNCHANGED <<now, wallet, isDao, unlocked, mint, request>>

Pack(u) ==
  /\ upload[u].status \in {"Free", "Paid"}
  /\ upload' = [upload EXCEPT ![u].status = "TaskCreated"]
  /\ UNCHANGED <<now, wallet, isDao, transaction, unlocked, mint, request>>

Unlock(u) ==
  /\ upload[u].status = "TaskCreated"
  /\ unlocked' = unlocked \cup {u}
  /\ UNCHANGED <<now, wallet, isDao, upload, transaction, mint, request>>

Tick == now < MaxNow /\ now' = now + 1 /\ UNCHANGED <<tables, request>>

World ==
  \/ \E w \in DOMAIN wallet, file \in Files, isFree \in BOOLEAN : SaveFile(w, file, isFree)
  \/ \E u \in DOMAIN upload :
       \/ \E payer \in DOMAIN wallet, amount \in Amounts : Pay(u, payer, amount)
       \/ Pack(u) \/ Unlock(u)
  \/ Tick

\* An answer is looked at before anything else happens: nothing depends on it any more.
QueryNext ==
  IF \E c \in Clients : request[c].pc \in {"done", "failed"}
  THEN \E c \in Clients : Answered(c)
  ELSE World \/ \E c \in Clients : RequestStep(c)

QuerySpec == QueryInit /\ [][QueryNext]_queryVars

-----------------------------------------------------------------------------
DistinctKeys(q, w) ==
  \A a, b \in Rows(q, w) : Key(q, a) = Key(q, b) => a = b

\* New rows come behind all others.
Growing(q) ==
  q.ascend /\ q.orderBy \in {"upload_at", "pay_at"} /\ q.status = All /\ q.minted = All

\* Who goes through a list page by page sees every row that was there from the first
\* page on exactly once and none twice, if no two rows have the same key (equal keys,
\* such as the two rows of an upload minted twice, come in any order on every page) and
\* the rows stay the same, or new ones only come behind the others.
WalkSeesEachOnce ==
  \A c \in Clients :
    LET r == request[c] IN
    /\ r.pc = "done" /\ r.kind = "list"
    /\ r.calm \/ Growing(r.q)
    /\ DistinctKeys(r.q, r.wallet)
    => IsInjective(r.seen) /\ r.first \subseteq ToSet(r.seen)

\* What a request checks and then does in two statements only goes wrong beside another
\* request of the same kind: a second mint row is only inserted by one that began before
\* there was a first, and a request fails for its wallet only if it began before there
\* was one.  No address has two wallets.
ChecksMissOnlyOverlaps ==
  /\ \A c \in Clients : request[c].pc = "insertMint" => ~request[c].before
  /\ \A c \in Clients :
       request[c].pc = "failed" /\ request[c].kind \in {"list", "registerDao"} => ~request[c].known
  /\ IsInjective(wallet)

\* However far payment, packing and the deal come between the reads of an answer: a deal
\* it calls unlocked has the car and, if the file was not free, the payment beside it,
\* provided that the client asked for a deal that stores the upload.
UnlockedShowsPayment ==
  \A c \in Clients :
    LET r == request[c] IN
    r.pc = "done" /\ r.kind = "deal" /\ r.unlocked /\ r.deal = r.target =>
      r.inCar /\ (r.paid \/ upload[r.target].isFree)
=============================================================================
