# Verification of multi-chain-storage

TLA+ models of the multi-chain storage (MCS) backend and of its contracts, the
TLC configurations that check them on small instances, and TLAPS proofs of what
matters most for instances of every size. Paths below are relative to the
repository.

    tlc -workers 2 -config MCPacking.cfg MCPacking     # check one instance
    tlapm Scheduler_proofs.tla                         # check one module's proofs

## 1. The system

MCS takes files from users, packs them into CAR files, has them stored on
Filecoin, follows the deals and settles the payments. It is a Go process beside a
MySQL database, an IPFS server, the Swan platform and a Lotus node, plus a set of
Solidity contracts on an EVM chain.

| Component | State it keeps | Operations | Talks to |
|---|---|---|---|
| File storage service, `service/storage.go` | files in the source directory, pins on IPFS, rows of `source_file`, `source_file_upload`, `source_file_mint` | `SaveFile`, `UnpinSourceFile`, `RecordMintInfo`, paged queries | HTTP clients (one goroutine per request), disk, IPFS, database |
| CreateTask job, `service/scheduler/create_task.go` | rows of `car_file`, `car_file_source`; status of uploads; Swan tasks | drain charged files, then free ones: merge, create a Swan task, commit | database, disk, IPFS, Swan |
| SendDeal job, `service/scheduler/send_deal.go` | rows of `offline_deal`; status of `car_file` | per car: expire, send proposals, record each, mark as sent | Swan client, database |
| ScanDeal job, `service/scheduler/scan_deal.go` | rows of `offline_deal`, `offline_deal_log` | two passes per run, before and after activation | Lotus node, chain, database |
| Scheduler, `service/scheduler/common.go` | - | starts each job in its own goroutine, for ever | the three jobs |
| DAO service, `service/dao.go` | `is_dao` of a wallet; reads `dao_pre_sign`, `dao_signature`, `offline_deal` | what a member has left to announce and to sign; `RegisterDao` | DAO members, database |
| Billing service, `service/billing.go` | - | paged queries over `transaction` | database |
| DAO oracle, `on-chain/contracts/FilswanOracleV2.sol` | members, threshold, announced batches, votes, lists of deals | `preSign`, `sign`, `signHash`, administration, views | FilinkConsumer |
| `FilinkConsumer.sol` | requests and prices of deals | `requestDealInfo`, `fulfill`, `getPrice` | Chainlink |
| `SwanPayment.sol` | locked fees by WCID | `lockTokenPayment`, `unlockTokenPayment`, `unlockCarPayment`, `refund` | oracle, FilinkConsumer, price feed, ERC-20 |
| Collections, `MCSCollection.sol`, `SwanNFT.sol`, ... | ERC-1155 tokens | mint | - |
| Routers, `routers/*.go` | - | one handler per request; find or create the wallet of an address | services |
| Contract bindings, `on-chain/goBind` (generated) | an iterator or a goroutine per call | filter, watch and parse events; call and transact | EVM node |
| Configuration, web front end | - | parsing, display | services |

A payment scanner, a signature scanner and an unlock service, which write
`transaction`, `dao_pre_sign`, `dao_signature` and `offline_deal` rows, run outside
this repository; they appear as environment actions (`Pay`, `Record`,
`UpdateOfflineDealUnlockInfo`). No Go code of the repository imports the bindings;
they are for those services.

### What is hard about it

*Concurrency.* Three scheduler goroutines and any number of HTTP requests share
the tables with almost no transactions; a job works on rows it read long ago and
writes whole rows back. The only lock, `uploadMutext`, covers the choice of a
file name and the copy to it. On chain, members vote in any order and in two ways.

*Partial failure.* A file is on disk, on IPFS and in two tables; a deal is on the
network before a row says so; a car, its sources and the uploads' statuses change
together only because of the one transaction in `saveCarInfo2DB`. A crash or a
failed call can fall between any two of these.

*Retry.* Every job runs again after an error, for ever.

*Disagreeing sources.* The Lotus node lags behind the chain, fails and forgets. The
DAO tables lag behind the votes on the contract, and members act on answers that
have gone stale.

*Lists that move.* Every page of a list is a new query, sorted by an unstable sort,
while rows come and change.

### What makes each part correct

- CreateTask: a file is in one car or waiting, never both or neither; a car refers to
  the Swan task of its files; its price is one that every file has paid for; no
  file waits for ever.
- SendDeal: a car is decided once, in time; deals belong to committed cars.
- ScanDeal: no deal is called active unless the chain or the node's own report said so;
  a settled deal stays settled whatever stale row is written; every deal active on the
  chain is settled some day.
- Storage: no file overwrites another; a row refers to a copy of its own payload; a
  pin lasts as long as an upload wants it, and no longer; success means recorded.
- Oracle: votes are counted once per member; only a list a quorum voted for is
  published; a member votes for exactly what it signed.
- DAO service: all members are told the same list however it is cut into batches;
  what is offered is what the contract has open; who announced a deal is counted some
  day; no deal is called unlockable that the contract would not unlock.
- Queries: a client that goes through the pages sees each row once; an answer made of
  several reads does not contradict itself.
- Bindings: events arrive as emitted, in order, each value in its field; an end is told
  from a failure; closing returns.
- Payment: what is taken from a lock goes to the provider of a deal that stores the file
  or back to its owner; what the contract pays beyond that is accounted for.

The hazards behind these, each at its line, are in `PROJECT.json`.

## 2. Modules

    McsTables            cars and the clock, shared by the jobs
      CreateTask         the packing job and its inputs
        Packing          CreateTask + abstract deal side
      DealTables         deals, their log, the Filecoin network
        SendDeal, ScanDeal
          DealTracking   both jobs + abstract packing side
    Scheduler            Packing and DealTracking put together -> Scheduler_proofs
    StorageService       uploads and unpins as requests        -> StorageService_proofs
    DaoVote              what the DAO oracle promises (abstract)
    FilswanOracleV2      the contract, implementing DaoVote    -> FilswanOracleV2_proofs
      DaoService         service, members, scanner, contract   -> DaoService_proofs
    ClientQueries        lists, details, mints and wallets     -> ClientQueries_proofs
    ContractEvents       iterators and watches of the bindings -> ContractEvents_proofs
    FilinkConsumer       prices of deals
      SwanPayment        locks, unlocks and refunds, with the
                         price and verdict they depend on      -> SwanPayment_proofs
    FoldTheorems         facts about sums, folds and lists that the proofs cite
    MC*                  instances for TLC

Operators that end in `_Something` under a comment "Mutant:" are faulty variants
of the operator they stand before. They are used by nothing in the modules; each
shows that some property would notice that fault.

### Scheduler

`McsTables.car` is the part of a `car_file` row that jobs branch on; `now` is the
clock in ticks. `CreateTask` has the job's steps in `createJob.pc`: *select* (the query
and the clock, read once), *copy* (the loop over the rows, one file per step in any
order: `CopyFile` from the disk, `DownloadFile` from IPFS, `SkipFile` when neither can be
had), *task* (`createTask4SrcFiles`) and *save* (the transaction). `createJob` has the
variables of the loop: the batch, `totalSize`, the earliest `create_at`, and `maxPrice`
with its `nil` (`LowerPrice`). The model keeps a peculiarity of the code: a charged file
that had to be downloaded adds nothing to `totalSize`. Failures after which the code
returns an error lead back to *select* in the same phase (`Again`), as `CreateTask`'s
loops do. `local` says which uploads have their copy on disk; copies vanish and come back
at any time (`CopiesChange`), between two steps of the loop too.

`SendDeal` keeps the job's list, its clock reading, the current car and the deals
of the answer not yet recorded in `sendJob`. Each insert is a step, and may fail;
`SaveStatus` is the save of the whole car row, and may fail too. `ScanDeal`
copies the rows of a query to `scanJob.rows` and writes them back one by one
(`ScanDealBeforeActive`), or one column (`ScanDealAfterActive`). `DealInfos` is what the
Lotus node may answer: any status, an activation the chain knows nothing of included,
with or without the deal's id. `IsDealActive` is what the chain is said to know of it:
the truth, or "not active" where the node replied with an error. `IsActive` is the
condition of the code, which asks the chain only if the node has not said "active".

`Packing` and `DealTracking` describe each half with the other as one environment
action (`CarTakenOn`, `CarPacked`). `Scheduler` puts the halves together, and its
implementing both specifications (`PackSpec`, `DealSpec`) discharges those
assumptions: what is shown of a half holds of the whole.

### Storage

`StorageService` has one action per step of `SaveFile` and `UnpinSourceFile` that
reads or writes shared state, so that the steps of all requests interleave, and
every call to disk, IPFS and database may fail. All uploads have the same file name,
the only case in which names interact; `Paths` are the name and its numbered
variants. A payload CID stands for a file's content. IPFS is given what is at the path
when the lock has been given back, and answers with its CID (`cid`); a copy that is
reported a success and is not the whole file is left out, and so is the metadata of
mints, a file type to which the free quota does not apply. `vacated` (paths from which a
file has gone) and `older` (the uploads recorded when an unpin began) are history.
`Restart` ends the requests in flight. The result of `os.Remove` replaces the error
of a failed insert in the model as in the code (`RemoveAndAnswer`).

### DAO oracle

In `FilswanOracleV2` a transaction is one step and one that reverts is none.
`signStatus` is the bit mask as a set of batch numbers; `getHashKey` is injective,
so a vote key is the record of its arguments. `CidList` is the double loop of
`sign`, with FoldLeft. Callers of `signHash` are assumed to compute the key with
`getHashKey` from the deal they name, as the clients in the repository do. The
count of votes is unbounded where the contract's `uint8` reverts at 256 votes.
`requested` stands for FilinkConsumer, and a call in which it reverts is no step.

### DAO service

`DaoService` extends the contract with the tables the service reads. A member asks
(`AskPreSign`, `AskSign`, `AskSignHash`), keeps the last answer of each kind in
`offers` and acts on it whenever it likes; the call is taken by the contract (`Taken`)
or reverts (`Reverted`), and the scanner records it in order, later (`Record`).
`GetDeals2PreSign`, `GetDeals2Sign`, `GetDeals2SignHash`, `GetDeals2Unlock` and
`OpenBatches` are the queries and the loop of `dao.go`; `BatchCount` and
`GetSourceFileUploadsByCarFileId` are the rounding and the limit/offset that cut a
car's files into batches. `Record` keeps the columns the queries compare: a
successful announcement is final, a signed batch adds its files to `signed`. Members
and the threshold are fixed before they start; `FilswanOracleV2` alone has them change.

### Queries

In `ClientQueries` a step is one statement on the database. Every request that names an
address begins with `GetWalletByAddress` and, for a new one, `SaveWallet`, which the
unique key may refuse. A list is selected, sorted and cut anew for every page
(`ListPage`); `Sorted` is every order `sort.Sort` may return, since it is not stable;
`Page` is the arithmetic of the offset. `GetSourceFileUploadDeal` is three reads; the
deal and the upload are what the client names, and need not belong together: what is
checked of the answer (`UnlockedShowsPayment`) is about an upload's own deals.
`RecordMintInfo` is two statements. An upload is paid once (the unique key of
`transaction`), so that the joins add no rows; lists do not show the metadata of mints,
which are left out. Uploads, payments, cars, deals and time go on between any two steps
(`World`). `first`, `calm`, `known` and `before` are history.

### Contract bindings

The bindings repeat the same iterator, Filter, Watch and Parse for each of 22 events;
`ContractEvents` has that code once and the events as data: each `<Contract> <Event>`
definition says which parameters become rules, in which order, and which fields are
filled from the data, and the run goes through all 22. What is checked of one event is
thus checked of every copy of the code, as far as the copies differ in that only.
Channels, the goroutine of a watch, `done` and `fail` of an iterator and each branch of
a `select` are kept. The client of the node is external (it sends what is wanted, in
order, and may refuse or break off), and so is `event.Subscription`. What the contracts
emit (`Declared`) is written down from the Solidity, apart from the bindings. The logs a
filter answers with, and those a property compares with, are taken from the chain by
`Only`, a fold that keeps the order. A log that does not fit its binding stands for
another version of a contract behind the same proxy (`on-chain/scripts/upgrade*.js`).

### Payments

`SwanPayment` extends `FilinkConsumer`: prices are asked for by anyone, answered late,
in any order and more than once, and the LINK for them runs out. A call is a step and
one that reverts (a transfer the balance does not cover included) is none; `minPayment`,
`recipient` and `blockNumber` of a lock are read by nothing and left out. The DAO oracle
is an environment (`OracleDecides`): any list of files, each once (`ListedOnce` of the
oracle), and any verdict. `Worth` is what the price feed may answer. Two history
variables say what the code pays and takes from no lock: `rounded` adds up what
`tokenAmount / size` cuts off, and `leaked` (`Leak`, file by file) the share of a file
without a copy left, what a lock is short of its share, and what a charge leaves of a
lock that was already paid back and now exists again. `SwanPayment.sol` imports
`FilswanOracle`, whose `signCarTransaction` publishes a list as it comes; the model has
it with `FilswanOracleV2`, whose lists repeat no file, and says nothing of a list that
does. Lists are shorter than the 256 entries at which the `uint8` loop counters revert.

## 3. Runs

| Run | Instance | What it shows |
|---|---|---|
| MCPacking | 2 charged files, 1 free, 2 cars, 2 Swan tasks, 2 ticks | exact packing, tasks, prices, kinds, and when a car is worth creating, with copies and uploads changing under the loop |
| MCPackingLive | 1 charged, 1 free file, fairness | free files are always packed; paid ones while their copies are on disk |
| MCDealTracking | 1 car, 1 proposal, 2 ticks, window 1, fairness | safety of sending and scanning; active deals are settled, cars are decided |
| MCDealTrackingUnsent | 1 car, 1 proposal | **violated:** a car marked failed or expired has deals |
| MCScheduler | 1 charged file, 2 cars, 1 proposal | the whole implements both halves; deals store packed, paid files |
| MCStorage | 3 uploads (2 of one file), 2 unpins | names, copies and pins under all interleavings |
| MCStorageWid | the same | **violated:** an upload answers success with nothing recorded |
| MCOracle | 2 members, 1 deal, 2 batches, thresholds 1 and 2 | votes and lists; implements DaoVote |
| MCPayment | 2 users, 2 files of sizes 1 and 2, 1 deal, prices 0, 1 and 3, 3 lock offers, 2 ticks | what the contract lacks to pay all locks back, and what may be taken from a lock |
| MCDao | 2 members, 1 deal of 3 files in batches of 2, threshold 2 on the chain and 1 in the tables, 1 failed call, 1 call not yet scanned | one list for all, open batches, counted announcements, unlocks the contract agrees to; fairness |
| MCQueries | 2 clients, 1 address, 2 uploads of one name, 2 ticks, 4 lists, pages of 1 | pages, mint records, first requests, deal details |
| MCEvents | 22 events, 2 values, 2 logs, a channel of 1, fairness | what is received, how it ends, that closing returns |

*Why these bounds are enough to be interesting.* Two charged files make a full car by
number, three sizes of car occur (too small, full by number, full by size), and a second
car and a second task show double packing and orphaned tasks. Times matter only relative
to one window, which the clock can exceed by a tick. One car and one proposal meet every
stale-row race, since a race is about one row; a second car on the job's list would only
make it wait longer, as the other jobs' steps in between do. Two uploads of one file
race for its row, the third for its name; two unpins race to be the last. Two members
are enough for a quorum of one and of two, and for leaving and coming back; two batches
for any order and for repeated files. Price 3 is exactly one token per unit of size of
both files, price 1 is rounded down to nothing; one file ordered two copies and one a
single copy, so that unlocks repeat and run out of copies, and clocks pass both
deadlines. Three files in batches of two give a full and a partial batch; one call under
way is enough for tables that lag behind each vote. The tables only count members who
signed all batches, and nobody may announce a deal before another member has voted by
hash: with the code's threshold of 2 in both places an unlock takes three members. With
1 in the tables two are enough, and `UnlockIsAvailable` says more, since every deal the
tables call unlockable with 2 they call unlockable with 1. Two uploads with pages of one
row make a list that grows between its pages; two clients make every pair of overlapping
requests. Two logs in a channel of one leave a log in the channel and one on its way
when the subscription ends. Larger sizes are covered by the proofs, where there are any.

Bounds that are part of the modules: `MaxNow` stops the clock (files arrive only
while a day can still pass, `UploadFile`); `MaxBatch` bounds announced batches,
`MaxLink` the price requests and `Funds` the tokens of each user; `MaxInFlight` and
`MaxFailed` the calls of members; `MaxReaders`, `MaxMints`, `MaxUploads` the requests
and rows of `ClientQueries`; `MaxLogs` the chain of `ContractEvents`, where one value
of at most one parameter is asked for and one other event of the contract occurs.
Symmetry is used in safety runs only. Deadlock checking is off only for `MCStorage*`,
where every request ends and the program then waits for more, for `MCDao`, where the
members are done, and for `MCEvents`, whose one call comes to its end.

*Fairness.* `PackFairness` and `DealFairness`: from some time on there are no
crashes; each goroutine keeps taking steps (`runJob` is an endless loop) and the
clock goes on (weak fairness); what a job tries again in each round does not fail
every time (strong fairness on the download of a free file, the Swan task, the commit,
the read of rows, the save of an expired car, learning a deal id from Lotus, and a true
answer about the chain). Without the
last, a permanently broken database would refute any progress. Nothing is assumed
about bids, activations reported by Lotus, or payments. `DaoFairness`: the scanner goes
on, each member asks again, and its calls for batches do not fail for ever.
`EventsFairness`: goroutines run on and who iterates goes on asking; nobody has to
read the sink of a watch.

## 4. Proofs

Each theorem holds for all values of the constants that satisfy the named ASSUMEs
(finite sets, natural numbers, NULL distinct from ids), which TLC also evaluates.

*Scheduler_proofs*: type correctness and every safety property of the packing and the
deals, by induction. The properties are not inductive alone.
`PackInv` adds what the job knows between its steps: an upload's status fits its
kind (`StatusFits`), the rows it has read are still waiting (`BatchIsWaiting`: no one else
moves a paid or free upload), the task held is used by no car (`TaskIsFresh`). That a
car's price is one all its files have paid for is shown of the loop as the code runs it:
after each file, `maxPrice` is the lowest price of the files so far and unset before the
first (`BatchIsPriced`, with `NothingHeld` before the loop).
`CarWorthCreating` needs that the batch was worth a car when it was merged
(`BatchIsWorth`) and still is when it is committed: copies on disk come and go
meanwhile, but sizes and times of uploads do not, and what the loop has counted is at
most what the files hold (`CountedSoFar`), a fact about sums over subsets.
`DealInv` adds that cars on the send job's list are still `TaskCreated`
(`ListedCarsWait`: only this job decides them), that deals of the answer have no row
yet (`SentDealsAreNew`), and that a row the scan holds is still the one in the table
(`ScannedRowsAreGood`): the unlock service writes only `Active` rows and the first pass
reads none of these - the reason why writing whole rows back is harmless here.
Every `Active` or `Success` row has the chain or a logged report of the node behind it
(`ActiveIsAttested`), although rows are written whole and saves fail.
`SettledDealsStay` and `CarsMoveForward` follow from the invariant for each step.
With `PackInv /\ DealInv`, each step of a job is a step of its
half and, for the other half, the environment action or a stutter; so the
scheduler implements both halves, and inherits their theorems. `DealsStorePackedFiles`
joins facts of both.

*FilswanOracleV2_proofs*: `OracleInv` adds that the contract knows a list only under
its own hash (`KnownListsAreTheirs`) and that nothing is open to sign before
`preSign` (`NothingUnsignedYet`). From it: votes count voters, signing is voting,
requests go with lists, and the contract implements `DaoVote`: each call maps to a
vote, an administrative change or a stutter. `ListedOnce` follows with `OnceInv`: a
list is what the double loop of `sign` returns for the batches of some member, and that
fold repeats nothing (`DedupeOnce` of *FoldTheorems*).

*DaoService_proofs*: `DaoKeepsToTheOracle` first shows that what service, scanner and
members do to the contract is a behaviour of the contract's own specification, so that
`OracleInv` holds here too. `DaoInv` is then two halves. `ChainInv` speaks of the
members and the contract: an offer names a deal and batches cut from the files of that
deal's car, whenever it was made, so that every signed batch is the one the table of
files gives, and all members vote for the same list. `TableInv` speaks of the tables and
the queue of calls not yet scanned: tables and queue together say what the contract
says, call by call, so that a table shows no announcement, batch or vote the contract
does not have. `VotesAgree` follows from the first; `UnlockIsAvailable` (counted members
have voted, and the threshold of the tables is at most one below the contract's) and
`OpenBatchesAreOffered` from both: at every moment, and not only when the tables have
caught up, the batches offered to a member are those the contract has open and those in
the queue, except where a call has failed. Two thresholds exist in the code: the constant
`DAO_SIGNATURE_THRESHOLD` (constants.go:73), which the tables are counted with, and the
contract's, which its administrator sets; that the second is not more than one above the
first is an assumption (`BatchesAssumption`), and one above is safe because a deal is
announced only after some member voted by hash.

*StorageService_proofs*: invariants built on one another: `RowInv` (types, and which
rows exist at each step of a request), `LockInv` (the holder of the lock is the only one
choosing or saving, and the chosen path stays free), `CopyInv` (each path a row or
request refers to has a copy of the payload, or a file has gone from it; the CID a
request was told stays that of the path until then, `CidStays`), `UnpinInv` (when an
unpin goes on to remove the pin, all uploads older than it are unpinned, and stay so)
and `ReleaseInv` (once no upload of a file runs and no unpin of it is between its count
and the removal, a file whose uploads are all unpinned has no pin, and its row says so
or an unpin is about to write it: whoever unpinned the last upload counted none). From
them `NoOverwrite`, `CopyIsItsPayload`, `UnpinSparesOlder`, `LastUnpinReleases` and
`LockIsHeldToSave` for any number of requests and failures.

*SwanPayment_proofs*: `SwanInv` adds to the types that a lock with a fee left, a
refunded one included, has an owner (`LocksHaveOwners`), and that every price the
contract reads is one that may have been answered (`PricesAreAnswers`). What the
contract holds, has rounded off and has leaked is compared with the sum over all open
locks, in every history. An unlock changes that sum once for each file of a list: what a
file's lock gives and what it leaks make up its share (`LeakFills`), and the lemmas on
sums of *FoldTheorems* add the shares up to the amount paid.

*ClientQueries_proofs*: `QueryInv` says of each request what it has found so far and
that the tables, which only grow, still have it: who began when there was a wallet finds
one, who began with a mint row finds it, and what was read of a deal is still so when
the next read comes. For the lists a second invariant, `WalkInv`, is added: rows come in
the order of time (`InTime`), and of every walk under way there is an order of the rows
the pages so far were cut from (`Walked`) in whose first `(page - 1) * limit` places all
is seen that was there at first, and once. That order is the same on every page because
different keys admit one order only (`OrderBegins`), and a list that grows has an order
that begins with the old one, as new rows come behind (`LaterIsBehind`). A page need not
be full: a list that grew after its last page was cut short goes on at a multiple of the
limit, and the walk misses rows that are new, but none that was there at first; the
invariant is therefore about what was there at first and not about all that was seen.

*ContractEvents_proofs*: `EventsInv` puts the logs in their places: those received,
the one in the hand of a watch's goroutine, those in the channel and those on their way
are, one after the other, the logs asked for. A log that cannot be unpacked and an end
of the subscription take from the rest only in states in which the caller is told so.
`MatchIsAsked` is the fact about the 22 definitions: that a binding names what a
contract declares, no contract declares two events of one name, and hence what is
selected and unpacked by position is what is asked for by name.

*FoldTheorems*: sums over finite sets, the deduplicating double loop and joined lists,
which the modules define with the folds of the community modules. Induction is carried
out as the absence of a least counterexample (`NaturalInduction`,
`FiniteSubsetInduction`), over sets instead of predicates.

Seven of the invariants are proved and take part in no run: `CarChargedOrFree`,
`DealTypeOK`, `StatusIsLogged`, `DealIdHasStatus`, `OracleTypeOK`,
`RequestedIsPublished` and `LockIsHeldToSave`. A proof for every instance leaves
nothing for a small one to show.

*Only model-checked:* all liveness (`FreeFilesArePacked`, `PaidFilesArePacked`,
`ActiveDealsAreSettled`, `CarsAreDecided`, `AnnouncedAreCounted`, `CallsReturn`), which
is out of the prover's reach with fairness; and of course the violated properties.

## 5. Where the code and its documents disagree

1. `send_deal.go:103` - a crash or failed save after the deals were sent makes a car
   with deals "failed" or "expired" (MCDealTrackingUnsent), against constants.go:18-19.
2. `storage.go:106,174` - the error of a failed insert is lost and the upload
   reported a success (MCStorageWid), against README.md:32.

Seen while modelling, without a run of their own:

- Packing: a charged file downloaded again counts as zero bytes
  (`create_task.go:90`), so that old paid files can wait for ever, against
  README.md:176; `PaidFilesArePacked` speaks of files on the disk. No code writes the
  `Refundable` status that constants.go:18-19 announces.
- Oracle: a vote by hash of a member with announced batches completes a quorum
  without publishing the list, and the payment stays locked
  (`FilswanOracleV2.sol:286`), against README.md:184. A member that has voted by hash
  can never have its last batch accepted.
- DAO service: the loop at `dao.go:49` ignores the status of a signature, so that a
  batch whose transaction failed is never offered again, while `GetDeals2SignHash`
  asks for `Success`; the query at `models/offline_deal.go:101` offers batches of deals
  already unlocked. `OpenBatchesAreOffered` says of the first that just these batches are
  missing; `AnnouncedAreCounted` excepts the members it happens to, and those that vote by
  hash as well.
- Payment: the guard of `requestDealInfo` (`FilinkConsumer.sol:50`) reads another key
  than `fulfill` writes and never applies; an unlock pays the full amount when a file
  has locked less than its share (`SwanPayment.sol:251`); a refunded lock keeps its
  `lockedFee`, so that an unlock of a deal with another locked file makes it exist again
  (`SwanPayment.sol:273`, `258`); a file without a copy left is counted in the size but not
  charged. `CoversItsLocks` counts what the contract loses by these in `leaked`, and does
  not say that it loses nothing.
- Queries: amounts are sorted as strings (`transaction.go:73`); rows with equal keys may
  be repeated or left out from page to page, since `sort.Sort` is not stable; two mint
  requests at once make an upload appear twice (`storage.go:492`); one of two first
  requests of an address may fail on the unique key (`wallet.go:51`); `page * size` may
  overflow (`source_file_upload.go:306`); `routers/storage.go:159` tests
  `walletAddress` where it has just read the location.
- Bindings: `SwanPayment.go` does not know `Refund` and `UnlockCarPayment`, which the
  contract emits (`SwanPayment.sol:264`, `276`), and knows `UnlockPayment`, which is
  declared and never emitted.

## 6. Not modelled, and next

Out of scope: the Vue front end, ABIs, deployment scripts, configuration parsing,
request validation in the routers, the layout of the CSV export (its query is
`DownloadDeals`); the callers and transactors of the bindings, which hand one call on
to go-ethereum; the first `FilswanOracle`, superseded by V2 (its forgetful `signHash`
is a mutant here); the collection contracts, thin layers over OpenZeppelin.

Planned, in this order:

1. Proofs: the safety halves of the liveness properties (what waits for a job is where
   the job will look for it), as invariants.
2. The contracts together: the oracle's calls as requests of `FilinkConsumer` in place
   of `requested`, `DaoVote` for `OracleDecides`.
3. An abstract escrow that `SwanPayment` implements as long as nothing has `leaked`.
4. The free quota in `StorageService`; the storage service and the scheduler over one
   set of tables, in place of `UploadFile` and `CopiesChange`.
