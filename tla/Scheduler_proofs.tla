-------------------------- MODULE Scheduler_proofs --------------------------
(***************************************************************************)
(* The safety properties of Packing, for every set of cars, uploads and    *)
(* tasks, those of DealTracking, for every set of cars and deals, and that *)
(* the scheduler as a whole implements the specification of each side and  *)
(* so has all that is proved of them.                                      *)
(***************************************************************************)
EXTENDS Scheduler, FoldTheorems

(***************************************************************************)
(* The inductive invariant.  PackedOnce is not inductive by itself: the    *)
(* job keeps its batch across two steps in which uploads go on arriving,   *)
(* so one must know that nothing else can take a file of the batch away.   *)
(***************************************************************************)

\* Free files wait as Free, charged ones as Pending and Paid.
StatusFits ==
  \A u \in Uploads :
    upload[u].status \in {"Pending", "Paid"} => u \notin FreeUploads

\* A row that is not there yet has no files and no task.
NoCarNoFiles ==
  \A c \in Cars : car[c].status = "None" =>
    /\ source[c].files = {} /\ source[c].task = Null
    /\ ~car[c].isFree

\* From the query to the commit, the rows the job holds are still waiting to be packed,
\* and all free or all charged; it looks at each once.
BatchIsWaiting ==
  createJob.pc \in {"copy", "task", "save"} =>
    /\ createJob.batch \cup createJob.todo \subseteq Ready(createJob.free)
    /\ createJob.batch \cap createJob.todo = {}

\* The price that the poorest of the files B can pay.
IsLowest(B, price) ==
  /\ \A u \in B : price <= GetMaxPrice(u)
  /\ \E u \in B : price = GetMaxPrice(u)

\* What the loop knows after each file: no price and no bytes before the first one, the
\* lowest price from then on.  A batch to be packed is not empty.
BatchIsPriced ==
  /\ createJob.pc \in {"copy", "task", "save"} /\ ~createJob.free =>
       IF createJob.batch = {} THEN createJob.price = Null
       ELSE IsLowest(createJob.batch, createJob.price)
  /\ createJob.pc = "copy" /\ createJob.batch = {} => createJob.size = 0
  /\ createJob.pc \in {"task", "save"} =>
       createJob.batch # {} /\ (createJob.free => createJob.price = MaxPrice)

\* Before the query the job has merged nothing.
NothingHeld ==
  createJob.pc \in {"idle", "select"} =>
    createJob.batch = {} /\ createJob.price = Null /\ createJob.size = 0

\* There is no car without files.
CarHasFiles == \A c \in Cars : car[c].status # "None" => source[c].files # {}

\* The task the job has just created is made of its batch and no car has it.
TaskIsFresh ==
  createJob.pc = "save" =>
    /\ createJob.task \in TaskIds
    /\ tasks[createJob.task] = createJob.batch
    /\ \A c \in Cars : source[c].task # createJob.task

PackInv ==
  /\ PackTypeOK
  /\ StatusFits
  /\ NoCarNoFiles
  /\ CarHasFiles
  /\ NothingHeld
  /\ BatchIsWaiting
  /\ BatchIsPriced
  /\ TaskIsFresh
  /\ PackedOnce
  /\ CarHasItsTask
  /\ CarPriceIsPaidFor
  /\ CarChargedOrFree

USE UploadsAssumption, SwanTaskAssumption, NullAssumption, MaxNowAssumption

-----------------------------------------------------------------------------
\* One more file keeps the price the lowest of all so far.
LEMMA LowerPriceIsLowest ==
  ASSUME NEW B \in SUBSET Uploads, NEW u \in Uploads, NEW price \in Nat \cup {Null},
         IF B = {} THEN price = Null ELSE IsLowest(B, price)
  PROVE  LowerPrice(price, u) \in Nat /\ IsLowest(B \cup {u}, LowerPrice(price, u))
<1>1. \A v \in Uploads : GetMaxPrice(v) \in Nat
  BY DEF GetMaxPrice
<1>2. CASE B = {}
  BY <1>1, <1>2 DEF LowerPrice, IsLowest
<1>3. CASE B # {}
  <2>1. price \in Nat
    BY <1>1, <1>3 DEF IsLowest
  <2>2. price # Null
    BY <2>1
  <2>3. CASE price > GetMaxPrice(u)
    <3>1. LowerPrice(price, u) = GetMaxPrice(u)
      BY <2>2, <2>3 DEF LowerPrice
    <3>2. ASSUME NEW v \in B \cup {u} PROVE GetMaxPrice(u) <= GetMaxPrice(v)
      <4>1. v = u \/ price <= GetMaxPrice(v)
        BY <1>3 DEF IsLowest
      <4> QED BY <1>1, <2>1, <2>3, <4>1
    <3> QED BY <1>1, <3>1, <3>2 DEF IsLowest
  <2>4. CASE ~(price > GetMaxPrice(u))
    <3>1. LowerPrice(price, u) = price
      BY <2>2, <2>4 DEF LowerPrice
    <3>2. price <= GetMaxPrice(u)
      BY <1>1, <2>1, <2>4
    <3> QED BY <1>3, <2>1, <3>1, <3>2 DEF IsLowest
  <2> QED BY <2>3, <2>4
<1> QED BY <1>2, <1>3

\* A merged batch consists of uploads of one kind.
LEMMA ReadyIsOneKind ==
  ASSUME StatusFits, NEW free \in BOOLEAN
  PROVE  /\ Ready(free) \subseteq Uploads
         /\ free => Ready(free) \subseteq FreeUploads
         /\ ~free => Ready(free) \cap FreeUploads = {}
  BY DEF StatusFits, Ready, GetFreeSourceFileUploadsNeed2Car, GetSourceFileUploadsNeed2Car

\* Empty tables and an idle job satisfy the invariant.
LEMMA InitInv == PackInit => PackInv
<1> SUFFICES ASSUME PackInit PROVE PackInv
  OBVIOUS
<1> USE DEF PackInit, TablesInit, CreateTaskInit, NoCar, CreateIdle
<1>1. PackTypeOK
  BY DEF PackTypeOK, TablesTypeOK, CreateTaskTypeOK, CreateJob, CarRow, CarStatus, UploadStatus
<1>2. StatusFits /\ NoCarNoFiles /\ CarHasFiles /\ NothingHeld /\ BatchIsWaiting /\ BatchIsPriced
      /\ TaskIsFresh
  BY DEF StatusFits, NoCarNoFiles, CarHasFiles, NothingHeld, BatchIsWaiting, BatchIsPriced, TaskIsFresh
<1>3. PackedOnce
  BY DEF PackedOnce, CarsWith
<1>4. CarHasItsTask /\ CarPriceIsPaidFor /\ CarChargedOrFree
  BY DEF CarHasItsTask, CarPriceIsPaidFor, CarChargedOrFree, GetMaxPrice
<1> QED BY <1>1, <1>2, <1>3, <1>4 DEF PackInv

-----------------------------------------------------------------------------
(***************************************************************************)
(* One lemma per kind of step.                                             *)
(***************************************************************************)

\* The job moves on and leaves the tables alone.
LEMMA JobMoves ==
  ASSUME PackInv, UNCHANGED <<now, car, packTables>>, createJob' \in CreateJob,
         createJob'.pc # "save", NothingHeld', BatchIsWaiting', BatchIsPriced'
  PROVE  PackInv'
<1> USE DEF PackInv, packTables
<1>1. PackTypeOK'
  BY DEF PackTypeOK, TablesTypeOK, CreateTaskTypeOK
<1>2. StatusFits' /\ NoCarNoFiles' /\ CarHasFiles' /\ TaskIsFresh'
  BY DEF StatusFits, NoCarNoFiles, CarHasFiles, TaskIsFresh
<1>3. PackedOnce'
  BY DEF PackedOnce, CarsWith
<1>4. CarHasItsTask' /\ CarPriceIsPaidFor' /\ CarChargedOrFree'
  BY DEF CarHasItsTask, CarPriceIsPaidFor, CarChargedOrFree, GetMaxPrice
<1> QED BY <1>1, <1>2, <1>3, <1>4

\* The job between two batches.
BackedOff ==
  {job \in CreateJob : /\ job.pc \in {"idle", "select"}
                       /\ job.batch = {} /\ job.price = Null /\ job.size = 0}

\* Every way the job starts again gives up what it held.
LEMMA StartsEmpty ==
  ASSUME NEW pc \in {"idle", "select"}, NEW free \in BOOLEAN
  PROVE  /\ CreateIdle \in BackedOff
         /\ [CreateIdle EXCEPT !.pc = pc] \in BackedOff
         /\ [CreateIdle EXCEPT !.pc = pc, !.free = free] \in BackedOff
<1>1. CreateIdle \in CreateJob
  BY DEF CreateIdle, CreateJob
<1>2. CreateIdle \in BackedOff
  BY <1>1 DEF BackedOff, CreateIdle
<1>3. [CreateIdle EXCEPT !.pc = pc] \in BackedOff
  BY DEF BackedOff, CreateIdle, CreateJob
<1>4. [CreateIdle EXCEPT !.pc = pc, !.free = free] \in BackedOff
  BY DEF BackedOff, CreateIdle, CreateJob
<1> QED BY <1>2, <1>3, <1>4

\* The job gives up its batch: nothing else changes.
LEMMA JobBacksOff ==
  ASSUME PackInv, UNCHANGED <<now, car, packTables>>,
         createJob' \in BackedOff
  PROVE  PackInv'
<1>1. /\ createJob' \in CreateJob /\ createJob'.pc \in {"idle", "select"}
      /\ createJob'.batch = {} /\ createJob'.price = Null /\ createJob'.size = 0
  BY DEF BackedOff
<1>2. NothingHeld' /\ BatchIsWaiting' /\ BatchIsPriced'
  BY <1>1 DEF NothingHeld, BatchIsWaiting, BatchIsPriced
<1> QED BY <1>1, <1>2, JobMoves

\* The rows just read are waiting, and nothing is merged yet.
LEMMA ReadUploadsInv ==
  ASSUME PackInv, ReadUploads, UNCHANGED now
  PROVE  PackInv'
<1>1. /\ createJob \in CreateJob /\ now \in Nat
      /\ createJob' = [createJob EXCEPT !.pc = "copy", !.todo = Ready(createJob.free),
                                        !.oldest = now, !.at = now]
      /\ createJob.batch = {} /\ createJob.price = Null /\ createJob.size = 0
      /\ UNCHANGED <<now, car, packTables>>
  BY DEF PackInv, PackTypeOK, TablesTypeOK, CreateTaskTypeOK, NothingHeld, ReadUploads
<1>2. Ready(createJob.free) \subseteq Uploads
  BY DEF Ready, GetFreeSourceFileUploadsNeed2Car, GetSourceFileUploadsNeed2Car
<1>3. /\ createJob' \in CreateJob /\ createJob'.pc = "copy" /\ createJob'.free = createJob.free
      /\ createJob'.batch = {} /\ createJob'.price = Null /\ createJob'.size = 0
      /\ createJob'.todo = Ready(createJob.free)
  BY <1>1, <1>2 DEF CreateJob
<1>4. NothingHeld' /\ BatchIsWaiting'
  BY <1>1, <1>3 DEF NothingHeld, BatchIsWaiting, packTables, Ready,
                    GetFreeSourceFileUploadsNeed2Car, GetSourceFileUploadsNeed2Car
<1>5. BatchIsPriced'
  BY <1>3 DEF BatchIsPriced
<1> QED BY <1>1, <1>3, <1>4, <1>5, JobMoves

\* What merging a file makes of the job.
LEMMA MergeFileFacts ==
  ASSUME PackInv, NEW u \in Uploads, NEW bytes \in Nat, Loop(u), MergeFile(u, bytes)
  PROVE  /\ createJob \in CreateJob /\ createJob.pc = "copy" /\ u \in createJob.todo
         /\ createJob' \in CreateJob /\ createJob'.pc = "copy"
         /\ createJob'.free = createJob.free /\ createJob'.at = createJob.at
         /\ createJob'.todo \subseteq createJob.todo \ {u}
         /\ createJob'.batch = createJob.batch \cup {u}
         /\ createJob'.size = createJob.size + bytes
         /\ createJob'.price = IF createJob.free THEN Null ELSE LowerPrice(createJob.price, u)
         /\ createJob'.oldest = createJob.oldest \/ createJob'.oldest = upload[u].createAt
         /\ UNCHANGED <<car, packTables>>
<1> DEFINE price == IF createJob.free THEN Null ELSE LowerPrice(createJob.price, u)
           oldest == IF upload[u].createAt < createJob.oldest THEN upload[u].createAt
                     ELSE createJob.oldest
           merged == [createJob EXCEPT !.todo = createJob.todo \ {u},
                                       !.batch = createJob.batch \cup {u},
                                       !.size = createJob.size + bytes,
                                       !.price = price, !.oldest = oldest]
<1>1. /\ createJob \in CreateJob /\ createJob.pc = "copy" /\ u \in createJob.todo
      /\ upload[u].createAt \in Nat
  BY DEF PackInv, PackTypeOK, CreateTaskTypeOK, Loop
<1>2. price \in Nat \cup {Null}
  <2>1. CASE createJob.free
    BY <2>1
  <2>2. CASE ~createJob.free
    <3>1. PICK B \in SUBSET Uploads, old \in Nat \cup {Null} :
            B = createJob.batch /\ old = createJob.price
      BY <1>1 DEF CreateJob
    <3>2. IF B = {} THEN old = Null ELSE IsLowest(B, old)
      BY <1>1, <2>2, <3>1 DEF PackInv, BatchIsPriced
    <3>3. LowerPrice(old, u) \in Nat
      BY <3>2, LowerPriceIsLowest
    <3> QED BY <2>2, <3>1, <3>3
  <2> QED BY <2>1, <2>2
<1>3. createJob' = IF Full(merged) THEN [merged EXCEPT !.todo = {}] ELSE merged
  BY DEF MergeFile
<1>4. createJob' = merged \/ createJob' = [merged EXCEPT !.todo = {}]
  BY <1>3
<1>5. /\ oldest \in Nat /\ (oldest = createJob.oldest \/ oldest = upload[u].createAt)
      /\ createJob.size + bytes \in Nat
  BY <1>1 DEF CreateJob
<1> HIDE DEF price, oldest
<1>6. /\ merged \in CreateJob /\ merged.pc = "copy"
      /\ merged.free = createJob.free /\ merged.at = createJob.at
      /\ merged.todo = createJob.todo \ {u}
      /\ merged.batch = createJob.batch \cup {u}
      /\ merged.size = createJob.size + bytes
      /\ merged.price = price /\ merged.oldest = oldest
  BY <1>1, <1>2, <1>5 DEF CreateJob
<1> HIDE DEF merged
<1>7. /\ createJob' \in CreateJob /\ createJob'.pc = "copy"
      /\ createJob'.free = createJob.free /\ createJob'.at = createJob.at
      /\ createJob'.todo \subseteq createJob.todo \ {u}
      /\ createJob'.batch = createJob.batch \cup {u}
      /\ createJob'.size = createJob.size + bytes
      /\ createJob'.price = price /\ createJob'.oldest = oldest
  BY <1>4, <1>6 DEF CreateJob
<1>8. UNCHANGED <<car, packTables>>
  BY DEF MergeFile
<1> QED BY <1>1, <1>5, <1>7, <1>8 DEF price

\* One more file of those read: still waiting, and none of the batch pays less.
LEMMA MergeFileInv ==
  ASSUME PackInv, NEW u \in Uploads, NEW bytes \in Nat, Loop(u), MergeFile(u, bytes),
         UNCHANGED now
  PROVE  PackInv'
<1>1. /\ createJob \in CreateJob /\ createJob.pc = "copy" /\ u \in createJob.todo
      /\ createJob' \in CreateJob /\ createJob'.pc = "copy"
      /\ createJob'.free = createJob.free
      /\ createJob'.todo \subseteq createJob.todo \ {u}
      /\ createJob'.batch = createJob.batch \cup {u}
      /\ createJob'.price = IF createJob.free THEN Null ELSE LowerPrice(createJob.price, u)
      /\ UNCHANGED <<car, packTables>>
  BY MergeFileFacts
<1>2. Ready(createJob.free)' = Ready(createJob.free)
  BY <1>1 DEF packTables, Ready, GetFreeSourceFileUploadsNeed2Car, GetSourceFileUploadsNeed2Car
<1>3. BatchIsWaiting'
  <2>1. /\ createJob.batch \cup createJob.todo \subseteq Ready(createJob.free)
        /\ createJob.batch \cap createJob.todo = {}
    BY <1>1 DEF PackInv, BatchIsWaiting
  <2>2. /\ createJob'.batch \cup createJob'.todo \subseteq Ready(createJob.free)
        /\ createJob'.batch \cap createJob'.todo = {}
    BY <1>1, <2>1
  <2> QED BY <1>2, <2>2 DEF BatchIsWaiting
<1>4. CASE createJob.free
  <2>1. BatchIsPriced'
    BY <1>1, <1>4 DEF BatchIsPriced
  <2>2. NothingHeld'
    BY <1>1 DEF NothingHeld
  <2> QED BY <1>1, <1>3, <2>1, <2>2, JobMoves
<1>5. CASE ~createJob.free
  <2>1. PICK B \in SUBSET Uploads, old \in Nat \cup {Null} :
          B = createJob.batch /\ old = createJob.price
    BY <1>1 DEF CreateJob
  <2>2. IF B = {} THEN old = Null ELSE IsLowest(B, old)
    BY <1>1, <1>5, <2>1 DEF PackInv, BatchIsPriced
  <2>3. IsLowest(B \cup {u}, LowerPrice(old, u))
    BY <2>2, LowerPriceIsLowest
  <2>4. createJob'.batch = B \cup {u} /\ createJob'.price = LowerPrice(old, u)
    BY <1>1, <1>5, <2>1
  <2>5. IsLowest(createJob'.batch, createJob'.price) /\ createJob'.batch # {}
    BY <2>3, <2>4
  <2>6. BatchIsPriced'
    BY <1>1, <2>5 DEF BatchIsPriced, IsLowest, GetMaxPrice
  <2>7. NothingHeld'
    BY <1>1 DEF NothingHeld
  <2> QED BY <1>1, <1>3, <2>6, <2>7, JobMoves
<1> QED BY <1>4, <1>5

\* A file that is not to be had leaves no trace.
LEMMA SkipFileInv ==
  ASSUME PackInv, NEW u \in Uploads, SkipFile(u), UNCHANGED now
  PROVE  PackInv'
<1>1. /\ createJob \in CreateJob /\ createJob.pc = "copy"
      /\ createJob' = [createJob EXCEPT !.todo = createJob.todo \ {u}]
      /\ UNCHANGED <<car, packTables>>
  BY DEF PackInv, PackTypeOK, CreateTaskTypeOK, SkipFile, Loop
<1>2. /\ createJob' \in CreateJob /\ createJob'.pc = "copy"
      /\ createJob'.free = createJob.free /\ createJob'.batch = createJob.batch
      /\ createJob'.price = createJob.price /\ createJob'.size = createJob.size
      /\ createJob'.todo = createJob.todo \ {u}
  BY <1>1 DEF CreateJob
<1>3. BatchIsWaiting'
  BY <1>1, <1>2 DEF PackInv, BatchIsWaiting, packTables, Ready,
                    GetFreeSourceFileUploadsNeed2Car, GetSourceFileUploadsNeed2Car
<1>4. BatchIsPriced'
  BY <1>1, <1>2 DEF PackInv, BatchIsPriced, IsLowest, GetMaxPrice
<1>5. NothingHeld'
  BY <1>2 DEF NothingHeld
<1> QED BY <1>1, <1>2, <1>3, <1>4, <1>5, JobMoves

\* What is packed is the batch of the loop, which is not empty.
LEMMA PackBatchFacts ==
  ASSUME PackInv, PackBatch
  PROVE  /\ createJob \in CreateJob /\ createJob.pc = "copy" /\ Packable(createJob)
         /\ createJob.batch # {}
         /\ createJob' \in CreateJob /\ createJob'.pc = "task"
         /\ createJob'.free = createJob.free /\ createJob'.batch = createJob.batch
         /\ createJob'.todo = {}
         /\ createJob'.price = IF createJob.free THEN MaxPrice ELSE createJob.price
         /\ UNCHANGED <<car, packTables>>
<1>1. /\ createJob \in CreateJob /\ createJob.pc = "copy" /\ Packable(createJob)
      /\ createJob' = [CreateIdle EXCEPT
           !.pc = "task", !.free = createJob.free, !.batch = createJob.batch,
           !.price = IF createJob.free THEN MaxPrice ELSE createJob.price]
      /\ UNCHANGED <<car, packTables>>
  BY DEF PackInv, PackTypeOK, CreateTaskTypeOK, PackBatch, EndOfLoop
<1>2. createJob.batch # {}
  BY <1>1 DEF PackInv, BatchIsPriced, Packable
<1>3. /\ createJob' \in CreateJob /\ createJob'.pc = "task"
      /\ createJob'.free = createJob.free /\ createJob'.batch = createJob.batch
      /\ createJob'.todo = {}
      /\ createJob'.price = IF createJob.free THEN MaxPrice ELSE createJob.price
  BY <1>1 DEF CreateJob, CreateIdle
<1> QED BY <1>1, <1>2, <1>3

\* The batch goes on as it is.
LEMMA PackBatchInv ==
  ASSUME PackInv, PackBatch, UNCHANGED now
  PROVE  PackInv'
<1>1. /\ createJob \in CreateJob /\ createJob.pc = "copy" /\ createJob.batch # {}
      /\ createJob' \in CreateJob /\ createJob'.pc = "task"
      /\ createJob'.free = createJob.free /\ createJob'.batch = createJob.batch
      /\ createJob'.todo = {}
      /\ createJob'.price = IF createJob.free THEN MaxPrice ELSE createJob.price
      /\ UNCHANGED <<car, packTables>>
  BY PackBatchFacts
<1>2. BatchIsWaiting'
  BY <1>1 DEF PackInv, BatchIsWaiting, packTables, Ready, GetFreeSourceFileUploadsNeed2Car,
              GetSourceFileUploadsNeed2Car
<1>3. BatchIsPriced'
  BY <1>1 DEF PackInv, BatchIsPriced, IsLowest, GetMaxPrice
<1>4. NothingHeld'
  BY <1>1 DEF NothingHeld
<1> QED BY <1>1, <1>2, <1>3, <1>4, JobMoves

\* The task is filled before any car refers to it, and no car's task is touched.
LEMMA CreateSwanTaskInv ==
  ASSUME PackInv, NEW t \in TaskIds, CreateSwanTask(t), UNCHANGED now
  PROVE  PackInv'
<1> USE DEF PackInv
<1>1. /\ createJob \in CreateJob
      /\ tasks \in [TaskIds -> SUBSET Uploads]
  BY DEF PackTypeOK, CreateTaskTypeOK
<1>2. /\ \A c \in Cars : source[c].task # t
      /\ tasks' = [tasks EXCEPT ![t] = createJob.batch]
      /\ createJob.pc = "task"
      /\ createJob' = [createJob EXCEPT !.pc = "save", !.task = t]
      /\ UNCHANGED <<now, car, upload, local, source>>
  BY DEF CreateSwanTask
<1>3. /\ createJob' \in CreateJob /\ createJob'.pc = "save" /\ createJob'.task = t
      /\ createJob'.batch = createJob.batch /\ createJob'.price = createJob.price
      /\ createJob'.free = createJob.free /\ createJob'.todo = createJob.todo
  BY <1>1, <1>2 DEF CreateJob
<1>4. /\ tasks' \in [TaskIds -> SUBSET Uploads] /\ tasks'[t] = createJob.batch
      /\ \A c \in Cars : source[c].task \in TaskIds => tasks'[source[c].task] = tasks[source[c].task]
  BY <1>1, <1>2 DEF CreateJob
<1>5. PackTypeOK'
  BY <1>2, <1>3, <1>4 DEF PackTypeOK, TablesTypeOK, CreateTaskTypeOK
<1>6. BatchIsWaiting'
  BY <1>2, <1>3 DEF BatchIsWaiting, Ready, GetFreeSourceFileUploadsNeed2Car,
                    GetSourceFileUploadsNeed2Car
<1>7. TaskIsFresh'
  BY <1>2, <1>3, <1>4 DEF TaskIsFresh
<1>8. StatusFits' /\ NoCarNoFiles' /\ CarHasFiles'
  BY <1>2 DEF StatusFits, NoCarNoFiles, CarHasFiles
<1>9. PackedOnce'
  BY <1>2 DEF PackedOnce, CarsWith
<1>10. CarHasItsTask'
  BY <1>2, <1>4 DEF CarHasItsTask
<1>11. CarPriceIsPaidFor' /\ CarChargedOrFree'
  BY <1>2 DEF CarPriceIsPaidFor, CarChargedOrFree, GetMaxPrice
<1>12. BatchIsPriced' /\ NothingHeld'
  BY <1>2, <1>3 DEF BatchIsPriced, NothingHeld, IsLowest, GetMaxPrice
<1> QED BY <1>5, <1>6, <1>7, <1>8, <1>9, <1>10, <1>11, <1>12

\* The commit: the batch becomes the files of a new car.
LEMMA SaveCarInfo2DBInv ==
  ASSUME PackInv, NEW c \in Cars, SaveCarInfo2DB(c), UNCHANGED now
  PROVE  PackInv'
<1> USE DEF PackInv
<1> DEFINE B == createJob.batch
<1>1. /\ createJob \in CreateJob
      /\ upload \in [Uploads -> [status : UploadStatus, createAt : Nat]]
      /\ source \in [Cars -> [files : SUBSET Uploads, maxPrice : Nat, task : TaskIds \cup {Null}]]
      /\ car \in [Cars -> CarRow] /\ now \in Nat
  BY DEF PackTypeOK, TablesTypeOK, CreateTaskTypeOK
<1>2. /\ createJob.pc = "save" /\ car[c].status = "None"
      /\ car' = [car EXCEPT ![c] = [status |-> "TaskCreated", isFree |-> createJob.free,
                                     createAt |-> now]]
      /\ source' = [source EXCEPT ![c] = [files |-> B, maxPrice |-> createJob.price,
                                           task |-> createJob.task]]
      /\ createJob' = [CreateIdle EXCEPT !.pc = "select", !.free = createJob.free]
      /\ UNCHANGED <<now, local, tasks>>
  BY DEF SaveCarInfo2DB, InsertCar, Again
<1>3. upload' = [u \in Uploads |-> IF u \in B THEN [upload[u] EXCEPT !.status = "TaskCreated"]
                                   ELSE upload[u]]
  BY DEF SaveCarInfo2DB
<1>4. /\ B # {} /\ B \subseteq Ready(createJob.free)
      /\ IF createJob.free THEN createJob.price = MaxPrice ELSE IsLowest(B, createJob.price)
      /\ createJob.task \in TaskIds /\ tasks[createJob.task] = B
      /\ \A b \in Cars : source[b].task # createJob.task
  BY <1>2 DEF BatchIsWaiting, BatchIsPriced, TaskIsFresh
<1>5. /\ createJob.free => B \subseteq FreeUploads
      /\ ~createJob.free => B \cap FreeUploads = {}
      /\ B \subseteq Uploads /\ createJob.free \in BOOLEAN /\ createJob.price \in Nat
  <2>1. createJob.free \in BOOLEAN /\ B \subseteq Uploads
    BY <1>1 DEF CreateJob
  <2>2. createJob.price \in Nat
    BY <1>4, <2>1 DEF IsLowest, GetMaxPrice
  <2> QED BY <1>4, <2>1, <2>2, ReadyIsOneKind
<1>6. \A u \in B : upload[u].status \in {"Paid", "Free"}
  BY <1>1, <1>4 DEF Ready, GetFreeSourceFileUploadsNeed2Car, GetSourceFileUploadsNeed2Car
<1>7. /\ source'[c].files = B /\ source'[c].task = createJob.task
      /\ source'[c].maxPrice = createJob.price
      /\ car'[c].status = "TaskCreated" /\ car'[c].isFree = createJob.free
      /\ \A b \in Cars \ {c} : source'[b] = source[b] /\ car'[b] = car[b]
  BY <1>1, <1>2
<1>8. /\ \A u \in B : upload'[u].status = "TaskCreated"
      /\ \A u \in Uploads \ B : upload'[u] = upload[u]
  BY <1>1, <1>3, <1>5
<1>9. /\ createJob' \in CreateJob /\ createJob'.pc = "select"
      /\ createJob'.batch = {} /\ createJob'.price = Null /\ createJob'.size = 0
  BY <1>2, <1>5 DEF CreateIdle, CreateJob
<1>10. PackTypeOK'
  <2>1. car' \in [Cars -> CarRow] /\ now' \in Nat
    BY <1>1, <1>2, <1>5 DEF CarRow, CarStatus
  <2>2. upload' \in [Uploads -> [status : UploadStatus, createAt : Nat]]
    BY <1>1, <1>3 DEF UploadStatus
  <2>3. source' \in [Cars -> [files : SUBSET Uploads, maxPrice : Nat, task : TaskIds \cup {Null}]]
    BY <1>1, <1>2, <1>4, <1>5
  <2> QED BY <1>2, <1>9, <2>1, <2>2, <2>3 DEF PackTypeOK, TablesTypeOK, CreateTaskTypeOK
<1>11. StatusFits'
  BY <1>8 DEF StatusFits
<1>12. /\ NoCarNoFiles' /\ CarHasFiles' /\ NothingHeld' /\ BatchIsWaiting' /\ BatchIsPriced'
       /\ TaskIsFresh'
  BY <1>4, <1>7, <1>9 DEF NoCarNoFiles, CarHasFiles, NothingHeld, BatchIsWaiting, BatchIsPriced,
                          TaskIsFresh
<1>13. PackedOnce'
  <2>1. source[c].files = {}
    BY <1>2 DEF NoCarNoFiles
  <2>2. ASSUME NEW u \in B PROVE CarsWith(u)' = {c}
    <3>1. CarsWith(u) = {}
      BY <1>5, <1>6 DEF PackedOnce
    <3> QED BY <1>7, <3>1 DEF CarsWith
  <2>3. ASSUME NEW u \in Uploads \ B PROVE CarsWith(u)' = CarsWith(u)
    BY <1>7, <2>1 DEF CarsWith
  <2> DEFINE OnceIn(u) == /\ upload[u].status = "TaskCreated" => CarsWith(u) # {}
                          /\ upload[u].status # "TaskCreated" => CarsWith(u) = {}
                          /\ \A c1, c2 \in CarsWith(u) : c1 = c2
  <2>4. ASSUME NEW u \in B PROVE OnceIn(u)'
    BY <1>8, <2>2
  <2>5. ASSUME NEW u \in Uploads \ B PROVE OnceIn(u)'
    <3>1. OnceIn(u) /\ upload'[u] = upload[u]
      BY <1>8 DEF PackedOnce
    <3> QED BY <2>3, <3>1
  <2> QED BY <2>4, <2>5 DEF PackedOnce
<1>14. CarHasItsTask'
  BY <1>2, <1>4, <1>7 DEF CarHasItsTask
<1>15. CarPriceIsPaidFor'
  <2> DEFINE Paid(b) == car[b].status # "None" =>
        IF car[b].isFree THEN source[b].maxPrice = MaxPrice
        ELSE /\ \A u \in source[b].files : source[b].maxPrice <= GetMaxPrice(u)
             /\ \E u \in source[b].files : source[b].maxPrice = GetMaxPrice(u)
  <2>1. Paid(c)'
    BY <1>4, <1>7 DEF IsLowest, GetMaxPrice
  <2>2. ASSUME NEW b \in Cars \ {c} PROVE Paid(b)'
    BY <1>7, <2>2 DEF CarPriceIsPaidFor, GetMaxPrice
  <2> QED BY <2>1, <2>2 DEF CarPriceIsPaidFor
<1>16. CarChargedOrFree'
  BY <1>5, <1>7 DEF CarChargedOrFree
<1> QED BY <1>10, <1>11, <1>12, <1>13, <1>14, <1>15, <1>16

\* Uploads arrive and are paid, copies get lost: none of it touches a packed upload.
LEMMA ArrivalInv ==
  ASSUME PackInv, NEW u \in Uploads, UploadFile(u) \/ Pay(u) \/ CopiesChange(u), UNCHANGED now
  PROVE  PackInv'
<1> USE DEF PackInv
<1>1. /\ upload \in [Uploads -> [status : UploadStatus, createAt : Nat]]
      /\ local \subseteq Uploads /\ now \in Nat
  BY DEF PackTypeOK, TablesTypeOK, CreateTaskTypeOK
<1>2. UNCHANGED <<now, car, source, tasks, createJob>>
  BY DEF UploadFile, Pay, CopiesChange
<1>3. \/ upload' = upload
      \/ /\ upload[u].status \in {"None", "Pending"}
         /\ upload'[u].status \in {"Pending", "Paid", "Free"}
         /\ upload'[u].status \in {"Pending", "Paid"} => u \notin FreeUploads
         /\ \A v \in Uploads \ {u} : upload'[v] = upload[v]
  BY <1>1 DEF UploadFile, Pay, CopiesChange, StatusFits
<1>4. PackTypeOK'
  <2>1. upload' \in [Uploads -> [status : UploadStatus, createAt : Nat]]
    BY <1>1 DEF UploadFile, Pay, CopiesChange, UploadStatus
  <2>2. local' \subseteq Uploads
    BY <1>1 DEF UploadFile, Pay, CopiesChange
  <2> QED BY <1>2, <2>1, <2>2 DEF PackTypeOK, TablesTypeOK, CreateTaskTypeOK
<1>5. StatusFits'
  BY <1>3 DEF StatusFits
<1>6. BatchIsWaiting'
  BY <1>2, <1>3 DEF BatchIsWaiting, Ready, GetFreeSourceFileUploadsNeed2Car,
                    GetSourceFileUploadsNeed2Car
<1>7. NoCarNoFiles' /\ CarHasFiles' /\ NothingHeld' /\ BatchIsPriced' /\ TaskIsFresh'
  BY <1>2 DEF NoCarNoFiles, CarHasFiles, NothingHeld, BatchIsPriced, IsLowest, GetMaxPrice, TaskIsFresh
<1>8. PackedOnce'
  <2>1. \A v \in Uploads : upload'[v].status = "TaskCreated" <=> upload[v].status = "TaskCreated"
    BY <1>3
  <2>2. \A v : CarsWith(v)' = CarsWith(v)
    BY <1>2 DEF CarsWith
  <2> QED BY <2>1, <2>2 DEF PackedOnce
<1>9. CarHasItsTask' /\ CarPriceIsPaidFor' /\ CarChargedOrFree'
  BY <1>2 DEF CarHasItsTask, CarPriceIsPaidFor, CarChargedOrFree, GetMaxPrice
<1> QED BY <1>4, <1>5, <1>6, <1>7, <1>8, <1>9

\* The deal side changes the status of a car that is there; the clock moves.
LEMMA CarTakenOnInv ==
  ASSUME PackInv, CarTakenOn, UNCHANGED now
  PROVE  PackInv'
<1> USE DEF PackInv
<1>1. UNCHANGED <<now, upload, local, source, tasks, createJob>>
  BY DEF CarTakenOn, packTables
<1>2. car \in [Cars -> CarRow]
  BY DEF PackTypeOK, TablesTypeOK
<1>3. PICK c \in Cars, status \in {"DealSent", "DealSentFailed", "DealSentExpired"} :
        /\ car[c].status = "TaskCreated"
        /\ car' = [car EXCEPT ![c].status = status]
  BY DEF CarTakenOn
<1>4. \A b \in Cars : /\ car'[b].status = "None" <=> car[b].status = "None"
                      /\ car'[b].isFree = car[b].isFree
  BY <1>2, <1>3 DEF CarRow
<1>5. PackTypeOK'
  BY <1>1, <1>2, <1>3 DEF PackTypeOK, TablesTypeOK, CreateTaskTypeOK, CarRow, CarStatus
<1>6. /\ StatusFits' /\ NoCarNoFiles' /\ CarHasFiles' /\ NothingHeld' /\ BatchIsPriced'
      /\ TaskIsFresh'
  BY <1>1, <1>4 DEF StatusFits, NoCarNoFiles, CarHasFiles, NothingHeld, BatchIsPriced, IsLowest,
                    GetMaxPrice, TaskIsFresh
<1>7. BatchIsWaiting'
  BY <1>1 DEF BatchIsWaiting, Ready, GetFreeSourceFileUploadsNeed2Car,
              GetSourceFileUploadsNeed2Car
<1>8. PackedOnce'
  BY <1>1 DEF PackedOnce, CarsWith
<1>9. CarHasItsTask' /\ CarPriceIsPaidFor' /\ CarChargedOrFree'
  BY <1>1, <1>4 DEF CarHasItsTask, CarPriceIsPaidFor, CarChargedOrFree, GetMaxPrice
<1> QED BY <1>5, <1>6, <1>7, <1>8, <1>9

\* Time passing, and every stutter, keep the invariant.
LEMMA NothingButTime ==
  ASSUME PackInv, now' \in Nat, UNCHANGED <<car, packTables, createJob>>
  PROVE  PackInv'
<1> USE DEF PackInv, packTables
<1>1. /\ PackTypeOK' /\ StatusFits' /\ NoCarNoFiles' /\ CarHasFiles' /\ NothingHeld'
      /\ BatchIsPriced' /\ TaskIsFresh'
  BY DEF PackTypeOK, TablesTypeOK, CreateTaskTypeOK, StatusFits, NoCarNoFiles, CarHasFiles,
         NothingHeld, BatchIsPriced, IsLowest, GetMaxPrice, TaskIsFresh
<1>2. BatchIsWaiting'
  BY DEF BatchIsWaiting, Ready, GetFreeSourceFileUploadsNeed2Car,
         GetSourceFileUploadsNeed2Car
<1>3. PackedOnce'
  BY DEF PackedOnce, CarsWith
<1>4. CarHasItsTask' /\ CarPriceIsPaidFor' /\ CarChargedOrFree'
  BY DEF CarHasItsTask, CarPriceIsPaidFor, CarChargedOrFree, GetMaxPrice
<1> QED BY <1>1, <1>2, <1>3, <1>4

-----------------------------------------------------------------------------
\* A file is merged with a number of bytes, never more than it has.
LEMMA MergesOrSkips ==
  ASSUME NEW u \in Uploads, CopyFile(u) \/ DownloadFile(u)
  PROVE  \E bytes \in Nat : bytes <= Size[u] /\ Loop(u) /\ MergeFile(u, bytes)
<1>1. PICK k \in Nat : k = 0
  OBVIOUS
<1>2. Size[u] \in Nat /\ k <= Size[u] /\ Size[u] <= Size[u]
  BY <1>1
<1>3. CASE CopyFile(u)
  BY <1>2, <1>3 DEF CopyFile
<1>4. CASE DownloadFile(u)
  <2>1. PICK bytes \in {k, Size[u]} : bytes = IF createJob.free THEN Size[u] ELSE 0
    BY <1>1
  <2> QED BY <1>2, <1>4, <2>1 DEF DownloadFile
<1> QED BY <1>3, <1>4

\* Every step of the job keeps the invariant.
LEMMA CreateTaskStepInv == PackInv /\ CreateTaskStep /\ UNCHANGED now => PackInv'
<1> SUFFICES ASSUME PackInv, CreateTaskStep, UNCHANGED now PROVE PackInv'
  OBVIOUS
<1>1. createJob.free \in BOOLEAN
  BY DEF PackInv, PackTypeOK, CreateTaskTypeOK, CreateJob
<1>2. CASE StartCreateTask
  <2>1. PICK pc \in {"idle", "select"} : pc = "select"
    OBVIOUS
  <2>2. [CreateIdle EXCEPT !.pc = pc] \in BackedOff
    BY StartsEmpty
  <2>3. createJob' \in BackedOff
    BY <1>2, <2>1, <2>2 DEF StartCreateTask
  <2> QED BY <1>2, <2>3, JobBacksOff DEF StartCreateTask
<1>3. CASE ReadUploads
  BY <1>3, ReadUploadsInv
<1>4. CASE \E u \in Uploads : CopyFile(u) \/ DownloadFile(u) \/ SkipFile(u)
  <2>1. ASSUME NEW u \in Uploads, SkipFile(u) PROVE PackInv'
    BY <2>1, SkipFileInv
  <2>2. ASSUME NEW u \in Uploads, CopyFile(u) \/ DownloadFile(u) PROVE PackInv'
    <3>1. PICK bytes \in Nat : Loop(u) /\ MergeFile(u, bytes)
      BY <2>2, MergesOrSkips
    <3> QED BY <3>1, MergeFileInv
  <2> QED BY <1>4, <2>1, <2>2
<1>5. CASE NothingToPack
  <2>1. createJob' = CreateIdle \/ createJob' = [CreateIdle EXCEPT !.pc = "select", !.free = TRUE]
    BY <1>5 DEF NothingToPack
  <2>2. PICK pc \in {"idle", "select"}, free \in BOOLEAN : pc = "select" /\ free = TRUE
    OBVIOUS
  <2>3. createJob' \in BackedOff
    BY <2>1, <2>2, StartsEmpty
  <2> QED BY <1>5, <2>3, JobBacksOff DEF NothingToPack
<1>6. CASE PackBatch
  BY <1>6, PackBatchInv
<1>7. CASE \E t \in TaskIds : CreateSwanTask(t)
  BY <1>7, CreateSwanTaskInv
<1>8. CASE CreateSwanTaskFails \/ SaveCarInfo2DBFails
  <2>1. PICK pc \in {"idle", "select"}, free \in BOOLEAN : pc = "select" /\ free = createJob.free
    BY <1>1
  <2>2. createJob' = [CreateIdle EXCEPT !.pc = pc, !.free = free]
    BY <1>8, <2>1 DEF CreateSwanTaskFails, SaveCarInfo2DBFails, Again
  <2>3. createJob' \in BackedOff
    BY <2>2, StartsEmpty
  <2> QED BY <1>8, <2>3, JobBacksOff DEF CreateSwanTaskFails, SaveCarInfo2DBFails
<1>9. CASE \E c \in Cars : SaveCarInfo2DB(c)
  BY <1>9, SaveCarInfo2DBInv
<1> QED BY <1>2, <1>3, <1>4, <1>5, <1>6, <1>7, <1>8, <1>9 DEF CreateTaskStep

\* So does every step of the packing side, a restart included.
LEMMA StepInv == PackInv /\ [PackNext]_packVars => PackInv'
<1> SUFFICES ASSUME PackInv, [PackNext]_packVars PROVE PackInv'
  OBVIOUS
<1>1. CASE CreateTaskStep /\ UNCHANGED now
  BY <1>1, CreateTaskStepInv
<1>2. CASE Arrivals /\ UNCHANGED now
  BY <1>2, ArrivalInv DEF Arrivals
<1>3. CASE CarTakenOn /\ UNCHANGED now
  BY <1>3, CarTakenOnInv
<1>4. now \in Nat
  BY DEF PackInv, PackTypeOK, TablesTypeOK
<1>5. CASE Tick /\ UNCHANGED <<car, packTables, createJob>>
  BY <1>4, <1>5, NothingButTime DEF Tick
<1>6. CASE RestartCreateTask /\ UNCHANGED now
  <2>1. PICK pc \in {"idle", "select"}, free \in BOOLEAN : TRUE
    OBVIOUS
  <2>2. createJob' \in BackedOff
    BY <1>6, <2>1, StartsEmpty DEF RestartCreateTask
  <2> QED BY <1>6, <2>2, JobBacksOff DEF RestartCreateTask
<1>7. CASE UNCHANGED packVars
  BY <1>4, <1>7, NothingButTime DEF packVars
<1> QED BY <1>1, <1>2, <1>3, <1>5, <1>6, <1>7 DEF PackNext, PackRun

\* The inductive invariant holds in every reachable state of the packing side.
THEOREM PackInvariance == PackSpec => []PackInv
  BY InitInv, StepInv, PTL DEF PackSpec

-----------------------------------------------------------------------------
\* Every table and the job's own state have the types the code gives them.
THEOREM PackTypeCorrect == PackSpec => []PackTypeOK
  BY PackInvariance, PTL DEF PackInv

\* No interleaving of merges, failures, crashes, arrivals and payments packs an
\* upload twice or marks one packed that no car has.
THEOREM PackingIsExact == PackSpec => []PackedOnce
  BY PackInvariance, PTL DEF PackInv

\* Every car refers to the Swan task of exactly its files, and to no other car's.
THEOREM CarsHaveTheirTasks == PackSpec => []CarHasItsTask
  BY PackInvariance, PTL DEF PackInv

\* Whatever files the loop leaves out and whenever it breaks off, a car's price is the
\* lowest of what its charged files pay for: no file in it pays less, and no file that
\* was left out has made it lower.
THEOREM CarPricesArePaidFor == PackSpec => []CarPriceIsPaidFor
  BY PackInvariance, PTL DEF PackInv

\* Charged and free files never share a car.
THEOREM CarsAreChargedOrFree == PackSpec => []CarChargedOrFree
  BY PackInvariance, PTL DEF PackInv

-----------------------------------------------------------------------------
(***************************************************************************)
(* When a car is worth creating.  The loop counts the bytes it copies and  *)
(* the property the bytes of the files, so that sums of some and of all    *)
(* files are compared; and the batch has to stay worth it until it is      *)
(* saved, whatever arrives or gets lost meanwhile.                         *)
(***************************************************************************)

\* The files B make a car that is big enough, old enough or full.
Worth(free, B) ==
  \/ FileBytes(B) >= MinFileSize
  \/ PassedOneDay(B)
  \/ ~free /\ Cardinality(B) >= MaxFileNumPerCar

BatchIsWorth == createJob.pc \in {"task", "save"} => Worth(createJob.free, createJob.batch)

\* The loop never counts more bytes than the files have, and the age it has noted is that
\* of a file of the batch.
CountedSoFar ==
  createJob.pc = "copy" =>
    /\ createJob.size <= FileBytes(createJob.batch)
    /\ createJob.at <= now
    /\ \/ createJob.oldest = createJob.at
       \/ \E u \in createJob.batch : createJob.oldest = upload[u].createAt

WorthInv == CountedSoFar /\ BatchIsWorth

\* The bytes of finitely many files are a number, and one more file adds its own.
LEMMA FileBytesAdds ==
  ASSUME NEW B \in SUBSET Uploads
  PROVE  /\ FileBytes(B) \in Nat
         /\ \A u \in Uploads \ B : FileBytes(B \cup {u}) = FileBytes(B) + Size[u]
<1>1. \A C : FileBytes(C) = SumFunctionOnSet(Size, C)
  BY DEF FileBytes, MapThenSumSet, SumFunctionOnSet, FoldFunctionOnSet
<1>2. IsFiniteSet(B) /\ \A u \in B : Size[u] \in Nat
  BY FS_Subset
<1>3. SumFunctionOnSet(Size, B) \in Nat
  BY <1>2, SumNat
<1>4. ASSUME NEW u \in Uploads \ B PROVE FileBytes(B \cup {u}) = FileBytes(B) + Size[u]
  <2> DEFINE C == B \cup {u}
  <2>1. IsFiniteSet(C) /\ (\A v \in C : Size[v] \in Int) /\ u \in C /\ C \ {u} = B
    BY FS_Subset
  <2> HIDE DEF C
  <2>2. SumFunctionOnSet(Size, C) = Size[u] + SumFunctionOnSet(Size, C \ {u})
    BY <2>1, SumRemove
  <2>3. SumFunctionOnSet(Size, C) = Size[u] + SumFunctionOnSet(Size, B)
    BY <2>1, <2>2
  <2>4. Size[u] \in Nat
    OBVIOUS
  <2> QED BY <1>1, <1>3, <2>3, <2>4 DEF C
<1> QED BY <1>1, <1>3, <1>4

\* What the loop counts when one more file joins the batch.
LEMMA MergeFileCounts ==
  ASSUME PackInv, CountedSoFar, NEW u \in Uploads, CopyFile(u) \/ DownloadFile(u), UNCHANGED now
  PROVE  CountedSoFar'
<1>1. PICK bytes \in Nat : bytes <= Size[u] /\ Loop(u) /\ MergeFile(u, bytes)
  BY MergesOrSkips
<1>2. /\ createJob \in CreateJob /\ createJob.pc = "copy" /\ u \in createJob.todo
      /\ createJob'.at = createJob.at
      /\ createJob'.batch = createJob.batch \cup {u}
      /\ createJob'.size = createJob.size + bytes
      /\ createJob'.oldest = createJob.oldest \/ createJob'.oldest = upload[u].createAt
      /\ UNCHANGED <<car, packTables>>
  BY <1>1, MergeFileFacts
<1>3. PICK B \in SUBSET Uploads : B = createJob.batch
  BY <1>2 DEF CreateJob
<1>4. u \notin B
  BY <1>2, <1>3 DEF PackInv, BatchIsWaiting
<1>5. FileBytes(B) \in Nat /\ FileBytes(B \cup {u}) = FileBytes(B) + Size[u]
  BY <1>4, FileBytesAdds
<1>6. createJob.size <= FileBytes(B) /\ createJob.size \in Nat /\ Size[u] \in Nat
  BY <1>2, <1>3 DEF CountedSoFar, CreateJob
<1>7. createJob'.size <= FileBytes(createJob'.batch)
  BY <1>1, <1>2, <1>3, <1>5, <1>6
<1>8. createJob'.at <= now'
  BY <1>2 DEF CountedSoFar
<1>9. \/ createJob'.oldest = createJob'.at
      \/ \E v \in createJob'.batch : createJob'.oldest = upload[v].createAt
  BY <1>2 DEF CountedSoFar
<1>10. upload' = upload
  BY <1>2 DEF packTables
<1> QED BY <1>7, <1>8, <1>9, <1>10 DEF CountedSoFar

\* What the job decides to pack is worth it.
LEMMA PackableIsWorth ==
  ASSUME PackInv, CountedSoFar, createJob.pc = "copy", Packable(createJob)
  PROVE  Worth(createJob.free, createJob.batch)
<1>1. createJob \in CreateJob /\ now \in Nat
  BY DEF PackInv, PackTypeOK, TablesTypeOK, CreateTaskTypeOK
<1>2. PICK B \in SUBSET Uploads : B = createJob.batch
  BY <1>1 DEF CreateJob
<1>3. CASE createJob.size >= MinFileSize
  <2>1. createJob.size \in Nat /\ createJob.size <= FileBytes(B)
    BY <1>1, <1>2 DEF CreateJob, CountedSoFar
  <2>2. FileBytes(B) \in Nat
    BY FileBytesAdds
  <2> QED BY <1>2, <1>3, <2>1, <2>2 DEF Worth
<1>4. CASE createJob.at - createJob.oldest >= SecondPerDay
  <2>1. createJob.at \in Nat /\ createJob.oldest \in Nat /\ createJob.at <= now
    BY <1>1 DEF CreateJob, CountedSoFar
  <2>2. createJob.oldest # createJob.at
    BY <1>4, <2>1
  <2>3. PICK u \in createJob.batch : createJob.oldest = upload[u].createAt
    BY <2>2 DEF CountedSoFar
  <2>4. now - upload[u].createAt >= SecondPerDay
    BY <1>1, <1>4, <2>1, <2>3
  <2> QED BY <2>3, <2>4 DEF Worth, PassedOneDay
<1>5. CASE ~createJob.free /\ Cardinality(createJob.batch) >= MaxFileNumPerCar
  BY <1>5 DEF Worth
<1> QED BY <1>3, <1>4, <1>5 DEF Packable, CreateAnyway, Full

\* The clock moves on, and the rows of the batch keep their create_at.
HoldsStill ==
  /\ createJob.pc \in {"copy", "task", "save"}
  /\ (createJob'.pc = "copy") = (createJob.pc = "copy")
  /\ createJob'.free = createJob.free /\ createJob'.batch = createJob.batch
  /\ createJob.pc = "copy" => /\ createJob'.size = createJob.size /\ createJob'.at = createJob.at
                              /\ createJob'.oldest = createJob.oldest
  /\ now' \in Nat /\ now <= now'
  /\ \A u \in createJob.batch : upload'[u].createAt = upload[u].createAt

\* Files only get older.
LEMMA WorthStays ==
  ASSUME PackInv, WorthInv, HoldsStill
  PROVE  WorthInv'
<1>1. /\ now \in Nat /\ upload \in [Uploads -> [status : UploadStatus, createAt : Nat]]
      /\ createJob \in CreateJob /\ createJob.batch \in SUBSET Uploads
  BY DEF PackInv, PackTypeOK, TablesTypeOK, CreateTaskTypeOK, CreateJob
<1>2. PICK free \in BOOLEAN, B \in SUBSET Uploads : free = createJob.free /\ B = createJob.batch
  BY <1>1 DEF CreateJob
<1>3. createJob'.free = free /\ createJob'.batch = B
  BY <1>2 DEF HoldsStill
<1>4. ASSUME PassedOneDay(B) PROVE PassedOneDay(B)'
  <2>1. PICK u \in B : now - upload[u].createAt >= SecondPerDay
    BY <1>4 DEF PassedOneDay
  <2>2. upload[u].createAt \in Nat /\ upload'[u].createAt = upload[u].createAt
    BY <1>1, <1>2 DEF HoldsStill
  <2>3. now' \in Nat /\ now <= now'
    BY DEF HoldsStill
  <2>4. now' - upload'[u].createAt >= SecondPerDay
    BY <1>1, <2>1, <2>2, <2>3
  <2> QED BY <2>4 DEF PassedOneDay
<1>5. ASSUME Worth(free, B) PROVE Worth(free, B)'
  BY <1>4, <1>5 DEF Worth
<1>6. BatchIsWorth'
  <2> SUFFICES ASSUME createJob'.pc \in {"task", "save"}
               PROVE  Worth(createJob.free, createJob.batch)'
    BY DEF BatchIsWorth
  <2>1. createJob.pc \in {"task", "save"}
    BY DEF HoldsStill
  <2>2. Worth(free, B)
    BY <1>2, <2>1 DEF WorthInv, BatchIsWorth
  <2> QED BY <1>3, <1>5, <2>2
<1>7. CountedSoFar'
  <2> SUFFICES ASSUME createJob'.pc = "copy"
               PROVE  /\ createJob'.size <= FileBytes(B)
                      /\ createJob'.at <= now'
                      /\ \/ createJob'.oldest = createJob'.at
                         \/ \E u \in B : createJob'.oldest = upload'[u].createAt
    BY <1>3 DEF CountedSoFar
  <2>1. /\ createJob.pc = "copy" /\ createJob'.size = createJob.size
        /\ createJob'.at = createJob.at /\ createJob'.oldest = createJob.oldest
        /\ now' \in Nat /\ now <= now'
    BY DEF HoldsStill
  <2>2. /\ createJob.size <= FileBytes(B) /\ createJob.at <= now /\ createJob.at \in Nat
        /\ \/ createJob.oldest = createJob.at
           \/ \E u \in B : createJob.oldest = upload[u].createAt
    BY <1>1, <1>2, <2>1 DEF WorthInv, CountedSoFar, CreateJob
  <2>3. createJob'.at <= now'
    BY <1>1, <2>1, <2>2
  <2>4. \A u \in B : upload'[u].createAt = upload[u].createAt
    BY <1>2 DEF HoldsStill
  <2> QED BY <2>1, <2>2, <2>3, <2>4
<1> QED BY <1>6, <1>7 DEF WorthInv

\* No step of the job makes what it holds less than worth a car.
LEMMA CreateTaskStepKeepsWorth ==
  ASSUME PackInv, WorthInv, CreateTaskStep, UNCHANGED now
  PROVE  WorthInv'
<1>1. createJob \in CreateJob /\ now \in Nat
  BY DEF PackInv, PackTypeOK, TablesTypeOK, CreateTaskTypeOK
<1>2. createJob'.pc \in {"idle", "select"} => WorthInv'
  BY DEF WorthInv, CountedSoFar, BatchIsWorth
<1>3. CASE StartCreateTask \/ NothingToPack
  <2>1. \/ createJob' = CreateIdle
        \/ createJob' = [CreateIdle EXCEPT !.pc = "select"]
        \/ createJob' = [CreateIdle EXCEPT !.pc = "select", !.free = TRUE]
    BY <1>3 DEF StartCreateTask, NothingToPack
  <2>2. PICK pc \in {"idle", "select"}, free \in BOOLEAN : pc = "select" /\ free = TRUE
    OBVIOUS
  <2>3. createJob' \in BackedOff
    BY <2>1, <2>2, StartsEmpty
  <2>4. createJob'.pc \in {"idle", "select"}
    BY <2>3 DEF BackedOff
  <2> QED BY <1>2, <2>4
<1>4. CASE CreateSwanTaskFails \/ SaveCarInfo2DBFails \/ \E c \in Cars : SaveCarInfo2DB(c)
  <2>1. Again
    BY <1>4 DEF CreateSwanTaskFails, SaveCarInfo2DBFails, SaveCarInfo2DB
  <2> QED BY <1>2, <2>1 DEF Again, CreateIdle
<1>5. CASE ReadUploads
  <2>1. /\ createJob.batch = {} /\ createJob.size = 0
        /\ createJob' = [createJob EXCEPT !.pc = "copy", !.todo = Ready(createJob.free),
                                          !.oldest = now, !.at = now]
    BY <1>5 DEF ReadUploads, PackInv, NothingHeld
  <2>2. /\ createJob'.batch = {} /\ createJob'.size = 0 /\ createJob'.pc = "copy"
        /\ createJob'.at = now /\ createJob'.oldest = now
    BY <1>1, <2>1 DEF CreateJob
  <2>3. PICK B \in SUBSET Uploads : B = {}
    OBVIOUS
  <2>4. FileBytes(B) \in Nat
    BY FileBytesAdds
  <2>5. createJob'.size <= FileBytes(createJob'.batch)
    BY <2>2, <2>3, <2>4
  <2> QED BY <1>1, <2>2, <2>5 DEF WorthInv, CountedSoFar, BatchIsWorth
<1>6. CASE \E u \in Uploads : CopyFile(u) \/ DownloadFile(u)
  <2>1. PICK u \in Uploads : CopyFile(u) \/ DownloadFile(u)
    BY <1>6
  <2>2. CountedSoFar'
    BY <2>1, MergeFileCounts DEF WorthInv
  <2>3. PICK bytes \in Nat : Loop(u) /\ MergeFile(u, bytes)
    BY <2>1, MergesOrSkips
  <2>4. createJob'.pc = "copy"
    BY <2>3, MergeFileFacts
  <2> QED BY <2>2, <2>4 DEF WorthInv, BatchIsWorth
<1>7. CASE \E u \in Uploads : SkipFile(u)
  <2>1. HoldsStill
    BY <1>1, <1>7 DEF HoldsStill, SkipFile, Loop, packTables, CreateJob
  <2> QED BY <2>1, WorthStays
<1>8. CASE PackBatch
  <2>1. /\ createJob.pc = "copy" /\ Packable(createJob) /\ createJob'.pc = "task"
        /\ createJob'.free = createJob.free /\ createJob'.batch = createJob.batch
        /\ UNCHANGED <<car, packTables>>
    BY <1>8, PackBatchFacts
  <2>2. Worth(createJob.free, createJob.batch)
    BY <2>1, PackableIsWorth DEF WorthInv
  <2>3. Worth(createJob'.free, createJob'.batch)
    BY <2>1, <2>2
  <2>4. upload' = upload
    BY <2>1 DEF packTables
  <2> QED BY <2>1, <2>3, <2>4 DEF WorthInv, CountedSoFar, BatchIsWorth, Worth, PassedOneDay
<1>9. CASE \E t \in TaskIds : CreateSwanTask(t)
  <2>1. HoldsStill
    BY <1>1, <1>9 DEF HoldsStill, CreateSwanTask, CreateJob
  <2> QED BY <2>1, WorthStays
<1> QED BY <1>3, <1>4, <1>5, <1>6, <1>7, <1>8, <1>9 DEF CreateTaskStep

\* Nor does any other step: arrivals change no row the job holds.
LEMMA BatchStaysWorth == PackInv /\ WorthInv /\ [PackNext]_packVars => WorthInv'
<1> SUFFICES ASSUME PackInv, WorthInv, [PackNext]_packVars PROVE WorthInv'
  OBVIOUS
<1>1. /\ createJob \in CreateJob
      /\ upload \in [Uploads -> [status : UploadStatus, createAt : Nat]]
      /\ now \in Nat
  BY DEF PackInv, PackTypeOK, TablesTypeOK, CreateTaskTypeOK
<1>2. createJob'.pc \in {"idle", "select"} => WorthInv'
  BY DEF WorthInv, CountedSoFar, BatchIsWorth
<1>3. createJob.pc \in {"idle", "select", "copy", "task", "save"}
  BY <1>1 DEF CreateJob
<1>4. CASE CreateTaskStep /\ UNCHANGED now
  BY <1>4, CreateTaskStepKeepsWorth
<1>5. CASE Arrivals /\ UNCHANGED now
  <2>1. PICK u \in Uploads : UploadFile(u) \/ Pay(u) \/ CopiesChange(u)
    BY <1>5 DEF Arrivals
  <2>2. UNCHANGED createJob
    BY <2>1 DEF UploadFile, Pay, CopiesChange
  <2>3. CASE createJob.pc \in {"copy", "task", "save"}
    <3>1. ASSUME NEW v \in createJob.batch PROVE upload'[v].createAt = upload[v].createAt
      <4>1. upload[v].status # "None"
        BY <2>3 DEF PackInv, BatchIsWaiting, Ready, GetFreeSourceFileUploadsNeed2Car,
                    GetSourceFileUploadsNeed2Car
      <4>2. v \in Uploads
        BY <1>1 DEF CreateJob
      <4> QED BY <1>1, <2>1, <4>1, <4>2 DEF UploadFile, Pay, CopiesChange
    <3>2. HoldsStill
      BY <1>1, <1>5, <2>2, <2>3, <3>1 DEF HoldsStill
    <3> QED BY <3>2, WorthStays
  <2> QED BY <1>2, <1>3, <2>2, <2>3
<1>6. CASE /\ UNCHANGED <<packTables, createJob>>
           /\ (CarTakenOn /\ UNCHANGED now) \/ Tick \/ UNCHANGED now
  <2>1. UNCHANGED <<upload, createJob>> /\ now' \in Nat /\ now <= now'
    BY <1>1, <1>6 DEF packTables, Tick
  <2>2. CASE createJob.pc \in {"copy", "task", "save"}
    <3>1. HoldsStill
      BY <2>1, <2>2 DEF HoldsStill
    <3> QED BY <3>1, WorthStays
  <2> QED BY <1>2, <1>3, <2>1, <2>2
<1>7. CASE RestartCreateTask /\ UNCHANGED now
  BY <1>2, <1>7 DEF RestartCreateTask, CreateIdle
<1> QED BY <1>4, <1>5, <1>6, <1>7 DEF PackNext, PackRun, packVars, CarTakenOn

\* A car is only created for files that are together big enough, old enough or (charged
\* ones) numerous enough at that moment.
THEOREM CarsAreWorthCreating == PackSpec => CarWorthCreating
<1> DEFINE Created(c) ==
      car[c].status = "None" /\ car'[c].status # "None" =>
        LET B == source'[c].files
        IN  /\ B # {}
            /\ \/ FileBytes(B) >= MinFileSize
               \/ PassedOneDay(B)
               \/ ~car'[c].isFree /\ Cardinality(B) >= MaxFileNumPerCar
<1>1. PackInit => WorthInv
  BY DEF PackInit, CreateTaskInit, CreateIdle, WorthInv, CountedSoFar, BatchIsWorth
<1>2. ASSUME PackInv, WorthInv, [PackNext]_packVars, NEW c \in Cars PROVE Created(c)
  <2>1. /\ createJob \in CreateJob
        /\ source \in [Cars -> [files : SUBSET Uploads, maxPrice : Nat, task : TaskIds \cup {Null}]]
        /\ car \in [Cars -> CarRow]
    BY <1>2 DEF PackInv, PackTypeOK, TablesTypeOK, CreateTaskTypeOK
  <2>2. SUFFICES ASSUME car[c].status = "None", car'[c].status # "None"
        PROVE  \E free \in BOOLEAN, B \in SUBSET Uploads :
                 /\ B = source'[c].files /\ free = car'[c].isFree
                 /\ B # {} /\ Worth(free, B)
    BY DEF Worth
  <2>3. PICK d \in Cars : SaveCarInfo2DB(d)
    <3>1. car' # car
      BY <2>2
    <3>2. ~CarTakenOn
      BY <2>1, <2>2 DEF CarTakenOn
    <3> QED BY <1>2, <3>1, <3>2 DEF PackNext, PackRun, CreateTaskStep, Arrivals, UploadFile, Pay,
         CopiesChange, RestartCreateTask, packVars, StartCreateTask, ReadUploads, CopyFile,
         DownloadFile, MergeFile, SkipFile, NothingToPack, PackBatch, CreateSwanTask,
         CreateSwanTaskFails, SaveCarInfo2DBFails
  <2>4. d = c
    BY <2>1, <2>2, <2>3 DEF SaveCarInfo2DB, InsertCar
  <2>5. /\ source'[c].files = createJob.batch /\ car'[c].isFree = createJob.free
        /\ createJob.pc = "save"
    BY <2>1, <2>3, <2>4 DEF SaveCarInfo2DB, InsertCar
  <2>6. createJob.batch # {} /\ Worth(createJob.free, createJob.batch)
    BY <1>2, <2>5 DEF PackInv, BatchIsPriced, WorthInv, BatchIsWorth
  <2> QED BY <2>1, <2>5, <2>6 DEF CreateJob
<1>3. PackInv /\ WorthInv /\ [PackNext]_packVars
        => [\A c \in Cars : car[c].status = "None" /\ car'[c].status # "None" =>
              LET B == source'[c].files
              IN  /\ B # {}
                  /\ \/ FileBytes(B) >= MinFileSize
                     \/ PassedOneDay(B)
                     \/ ~car'[c].isFree /\ Cardinality(B) >= MaxFileNumPerCar]_packVars
  BY <1>2
<1> QED BY <1>1, <1>3, BatchStaysWorth, PackInvariance, PTL DEF PackSpec, CarWorthCreating

-----------------------------------------------------------------------------
(***************************************************************************)
(* The deals.  Both jobs work on rows they read earlier, so the invariant  *)
(* says in what way those copies are still good.                           *)
(***************************************************************************)

\* What the send job listed is still waiting: only this job takes cars on.
ListedCarsWait ==
  /\ sendJob.at <= now
  /\ \A c \in sendJob.todo : car[c].status = "TaskCreated"
  /\ sendJob.pc = "record" => sendJob.cur \in sendJob.todo

\* A proposal the send job has not recorded yet has been sent and has no row; a row
\* has a sent proposal and a car.
SentDealsAreNew ==
  /\ \A d \in sendJob.sent : sendJob.pc = "record" /\ deal[d].status = "None" /\ chain[d] # "unsent"
  /\ \A d \in Deals : deal[d].status # "None" =>
       /\ chain[d] # "unsent"
       /\ deal[d].carFile \in Cars /\ car[deal[d].carFile].status # "None"
  /\ \A d \in Deals : deal[d].status = "Created" => deal[d].unlocked = FALSE

\* Before the deal is active nobody else writes its row, so the copy of the scan is
\* the row; afterwards it stays a deal that has been active.
ScannedRowsAreGood ==
  \A d \in scanJob.todo :
    /\ scanJob.pc = "before" => scanJob.rows[d] = deal[d] /\ deal[d].status = "Created"
    /\ scanJob.pc = "after" => deal[d].status \in {"Active", "Success"}
    /\ scanJob.pc # "idle"

DealInv ==
  /\ DealTypeOK
  /\ ListedCarsWait
  /\ SentDealsAreNew
  /\ ScannedRowsAreGood
  /\ ActiveIsAttested
  /\ UnlockedIffCharged
  /\ StatusIsLogged
  /\ DealIdHasStatus

USE DealSendWindowAssumption, StatusIsSetAssumption

\* Empty tables and idle jobs satisfy the invariant.
LEMMA DealInitInv == DealInit => DealInv
<1> SUFFICES ASSUME DealInit PROVE DealInv
  OBVIOUS
<1> USE DEF DealInit, TablesInit, DealTablesInit, NoCar, NoDeal, SendIdle, ScanIdle
<1>1. DealTypeOK
  BY DEF DealTypeOK, TablesTypeOK, DealTablesTypeOK, SendJobTypeOK, ScanJobTypeOK, CarRow,
         CarStatus, DealRow, DealStatus, OnChainStatus, ChainStatus
<1>2. ListedCarsWait /\ SentDealsAreNew /\ ScannedRowsAreGood
  BY DEF ListedCarsWait, SentDealsAreNew, ScannedRowsAreGood
<1>3. ActiveIsAttested /\ UnlockedIffCharged /\ StatusIsLogged /\ DealIdHasStatus
  BY DEF ActiveIsAttested, UnlockedIffCharged, StatusIsLogged, DealIdHasStatus
<1> QED BY <1>1, <1>2, <1>3 DEF DealInv

-----------------------------------------------------------------------------
\* Everything one look at the node and the chain can make of a deal's row.
LEMMA ScannedRowFacts ==
  ASSUME DealInv, NEW d \in scanJob.todo, scanJob.pc = "before",
         NEW isDealActive \in IsDealActive(d), NEW row \in ScannedRows(d, isDealActive)
  PROVE  /\ row \in DealRow /\ row.carFile = deal[d].carFile /\ row.unlocked = FALSE
         /\ row.status # "None"
         /\ row.dealId => row.onChain # Null
         /\ deal[d].dealId => row.dealId
         /\ row.status \in {"Active", "Success"} => chain[d] = "active" \/ row.onChain = "Active"
         /\ row.status = "Active" => ~car[row.carFile].isFree
         /\ row.status = "Success" => car[row.carFile].isFree
<1> DEFINE old == scanJob.rows[d]
<1>1. /\ d \in Deals /\ old \in DealRow /\ chain[d] \in ChainStatus
      /\ old = deal[d] /\ deal[d].status = "Created"
  BY DEF DealInv, DealTypeOK, DealTablesTypeOK, ScanJobTypeOK, ScannedRowsAreGood
<1>2. old.unlocked = FALSE /\ (old.dealId => old.onChain # Null)
  BY <1>1 DEF DealInv, SentDealsAreNew, DealIdHasStatus
<1>3. PICK seen : /\ row = Settled(isDealActive, seen)
                  /\ \/ \E info \in DealInfos : seen = WithInfo(old, info)
                     \/ seen = Forgotten(old)
  BY DEF ScannedRows
<1>4. /\ seen \in DealRow /\ seen.carFile = old.carFile /\ seen.unlocked = old.unlocked
      /\ seen.status \in {"Created", "Failed", "Active"}
      /\ seen.dealId => seen.onChain # Null
      /\ old.dealId => seen.dealId
      /\ seen.status = "Active" => seen.onChain = "Active"
  <2>1. CASE seen = Forgotten(old)
    BY <1>1, <1>2, <2>1 DEF Forgotten, DealRow, DealStatus
  <2>2. CASE \E info \in DealInfos : seen = WithInfo(old, info)
    <3>1. PICK info \in DealInfos : seen = WithInfo(old, info)
      BY <2>2
    <3>2. info.status \in OnChainStatus /\ info.dealId \in BOOLEAN
      BY DEF DealInfos
    <3>4. /\ StatusAfter(old.status, info.status) \in {"Created", "Failed", "Active"}
          /\ StatusAfter(old.status, info.status) = "Active" => info.status = "Active"
      BY <1>1, <3>2 DEF StatusAfter, OnChainStatus
    <3>5. (old.dealId \/ info.dealId) \in BOOLEAN
      OBVIOUS
    <3>6. /\ seen.carFile = old.carFile /\ seen.unlocked = old.unlocked
          /\ seen.status = StatusAfter(old.status, info.status)
          /\ seen.onChain = info.status
      BY <1>1, <3>1 DEF WithInfo, DealRow
    <3>7. seen.dealId = (old.dealId \/ info.dealId)
      BY <1>1, <3>1, Zenon DEF WithInfo, DealRow
    <3>8. seen \in DealRow
      BY <1>1, <3>1, <3>2, <3>4, <3>5 DEF WithInfo, DealRow, DealStatus
    <3>9. info.status # Null
      BY <3>2 DEF OnChainStatus
    <3> QED BY <1>2, <3>4, <3>6, <3>7, <3>8, <3>9
  <2> QED BY <1>3, <2>1, <2>2
<1>5. CASE IsActive(isDealActive, seen)
  <2>1. isDealActive => chain[d] = "active"
    BY DEF IsDealActive
  <2> QED BY <1>1, <1>2, <1>3, <1>4, <1>5, <2>1 DEF Settled, IsActive, DealRow, DealStatus
<1>6. CASE ~IsActive(isDealActive, seen)
  BY <1>1, <1>2, <1>3, <1>4, <1>6 DEF Settled, IsActive, DealRow, DealStatus
<1> QED BY <1>5, <1>6

-----------------------------------------------------------------------------
(***************************************************************************)
(* The send job.                                                           *)
(***************************************************************************)

\* What the scan relies on does not change while the send job changes only cars'
\* statuses, or only its own state.
LEMMA DealsUntouched ==
  ASSUME DealInv, UNCHANGED <<dealTables, scanJob>>, now' \in Nat,
         car' \in [Cars -> CarRow],
         \A c \in Cars : /\ car[c].status # "None" => car'[c].status # "None"
                         /\ car[c].status # "None" => car'[c].isFree = car[c].isFree
  PROVE  /\ TablesTypeOK' /\ DealTablesTypeOK' /\ ScanJobTypeOK'
         /\ ScannedRowsAreGood'
         /\ ActiveIsAttested' /\ UnlockedIffCharged' /\ StatusIsLogged' /\ DealIdHasStatus'
<1> USE DEF DealInv, dealTables
<1>1. TablesTypeOK' /\ DealTablesTypeOK' /\ ScanJobTypeOK'
  BY DEF DealTypeOK, TablesTypeOK, DealTablesTypeOK, ScanJobTypeOK
<1>2. ScannedRowsAreGood' /\ ActiveIsAttested' /\ StatusIsLogged' /\ DealIdHasStatus'
  BY DEF ScannedRowsAreGood, ActiveIsAttested, StatusIsLogged, DealIdHasStatus
<1>3. UnlockedIffCharged'
  BY DEF UnlockedIffCharged, SentDealsAreNew
<1> QED BY <1>1, <1>2, <1>3

\* The job's list, with cars only leaving it.
LEMMA NextCarInv ==
  ASSUME DealInv, NEW c \in Cars, c \in sendJob.todo, UNCHANGED <<now, dealTables, scanJob>>,
         car' \in [Cars -> CarRow],
         \A b \in Cars \ {c} : car'[b] = car[b],
         car'[c].status # "None", car'[c].isFree = car[c].isFree,
         sendJob.sent = {} \/ sendJob.pc = "record",
         NextCar(c)
  PROVE  DealInv'
<1>1. /\ sendJob \in [pc : {"idle", "loop", "record"}, todo : SUBSET Cars,
                      cur : Cars \cup {Null}, sent : SUBSET Deals, at : Nat]
      /\ now \in Nat
  BY DEF DealInv, DealTypeOK, SendJobTypeOK, TablesTypeOK
<1>2. /\ sendJob'.pc = "loop" /\ sendJob'.todo = sendJob.todo \ {c} /\ sendJob'.cur = Null
      /\ sendJob'.sent = {} /\ sendJob'.at = sendJob.at
  BY <1>1 DEF NextCar
<1>3. SendJobTypeOK'
  BY <1>1 DEF NextCar, SendJobTypeOK
<1>4. ListedCarsWait'
  BY <1>1, <1>2 DEF DealInv, ListedCarsWait
<1>5. SentDealsAreNew'
  BY <1>2 DEF DealInv, SentDealsAreNew, dealTables
<1> QED BY <1>1, <1>3, <1>4, <1>5, DealsUntouched DEF DealInv, DealTypeOK

\* Every step of the sending job keeps the invariant.
LEMMA SendDealStepInv == DealInv /\ SendDealStep /\ UNCHANGED <<now, scanJob>> => DealInv'
<1> SUFFICES ASSUME DealInv, SendDealStep, UNCHANGED <<now, scanJob>> PROVE DealInv'
  OBVIOUS
<1>1. /\ sendJob \in [pc : {"idle", "loop", "record"}, todo : SUBSET Cars,
                      cur : Cars \cup {Null}, sent : SUBSET Deals, at : Nat]
      /\ now \in Nat /\ car \in [Cars -> CarRow]
      /\ deal \in [Deals -> DealRow] /\ chain \in [Deals -> ChainStatus]
      /\ dealLog \subseteq Deals \X (OnChainStatus \cup {Null})
  BY DEF DealInv, DealTypeOK, SendJobTypeOK, TablesTypeOK, DealTablesTypeOK
<1>2. CASE StartSendDeal
  <2>1. /\ sendJob' = [SendIdle EXCEPT !.pc = "loop", !.at = now,
                                      !.todo = GetCarFilesByStatus("TaskCreated")]
        /\ UNCHANGED <<car, dealTables>>
    BY <1>2 DEF StartSendDeal
  <2> DEFINE listed == {c \in Cars : car[c].status = "TaskCreated"}
  <2>2. sendJob' = [pc |-> "loop", todo |-> listed, cur |-> Null, sent |-> {}, at |-> now]
    BY <2>1 DEF SendIdle, GetCarFilesByStatus
  <2>3. SendJobTypeOK' /\ ListedCarsWait' /\ SentDealsAreNew'
    <3>1. SendJobTypeOK'
      BY <1>1, <2>2 DEF SendJobTypeOK
    <3>2. /\ sendJob'.pc = "loop" /\ sendJob'.todo = listed /\ sendJob'.sent = {}
          /\ sendJob'.at = now /\ now' = now
      BY <2>2
    <3>3. ListedCarsWait'
      BY <1>1, <2>1, <3>2 DEF ListedCarsWait
    <3>4. SentDealsAreNew'
      BY <2>1, <3>2 DEF SentDealsAreNew, dealTables, DealInv
    <3> QED BY <3>1, <3>3, <3>4
  <2> QED BY <1>1, <2>1, <2>2, <2>3, DealsUntouched DEF DealInv, DealTypeOK
<1>3. CASE \E c \in Cars : ExpireCar(c) \/ SendFails(c) \/ NoDealsSent(c) \/ SaveCarSent(c)
  <2>1. PICK c \in Cars : ExpireCar(c) \/ SendFails(c) \/ NoDealsSent(c) \/ SaveCarSent(c)
    BY <1>3
  <2>2. c \in sendJob.todo /\ NextCar(c) /\ UNCHANGED dealTables
    BY <2>1 DEF ExpireCar, SendFails, NoDealsSent, SaveCarSent, DealInv, ListedCarsWait
  <2>3. car[c].status = "TaskCreated"
    BY <2>2 DEF DealInv, ListedCarsWait
  <2>4. \/ car' = car
        \/ \E status \in {"DealSent", "DealSentFailed", "DealSentExpired"} :
             car' = [car EXCEPT ![c].status = status]
    BY <2>1 DEF ExpireCar, SendFails, NoDealsSent, SaveCarSent, SaveStatus
  <2>5. /\ car' \in [Cars -> CarRow] /\ \A b \in Cars \ {c} : car'[b] = car[b]
        /\ car'[c].status # "None" /\ car'[c].isFree = car[c].isFree
    BY <1>1, <2>3, <2>4 DEF CarRow, CarStatus
  <2>6. sendJob.sent = {} \/ sendJob.pc = "record"
    BY DEF DealInv, SentDealsAreNew
  <2> QED BY <2>2, <2>5, <2>6, NextCarInv
<1>4. CASE \E c \in Cars, proposals \in SUBSET Deals : SendAutoBidDeals(c, proposals)
  <2>1. PICK c \in Cars, proposals \in SUBSET Deals : SendAutoBidDeals(c, proposals)
    BY <1>4
  <2>2. /\ c \in sendJob.todo /\ sendJob.pc = "loop"
        /\ \A d \in proposals : chain[d] = "unsent"
        /\ chain' = [d \in Deals |-> IF d \in proposals THEN "proposed" ELSE chain[d]]
        /\ sendJob' = [sendJob EXCEPT !.pc = "record", !.cur = c, !.sent = proposals]
        /\ UNCHANGED <<car, deal, dealLog, now, scanJob>>
    BY <2>1 DEF SendAutoBidDeals
  <2>3. /\ sendJob'.pc = "record" /\ sendJob'.todo = sendJob.todo /\ sendJob'.cur = c
        /\ sendJob'.sent = proposals /\ sendJob'.at = sendJob.at
    BY <1>1, <2>2
  <2>4. DealTypeOK'
    BY <1>1, <2>2 DEF DealInv, DealTypeOK, TablesTypeOK, DealTablesTypeOK, SendJobTypeOK,
                      ScanJobTypeOK, ChainStatus
  <2>5. ListedCarsWait'
    BY <2>2, <2>3 DEF DealInv, ListedCarsWait
  <2>6. /\ \A d \in Deals \ proposals : chain'[d] = chain[d]
        /\ \A d \in proposals : chain'[d] = "proposed"
    BY <1>1, <2>2
  <2>7. SentDealsAreNew'
    <3>1. \A d \in proposals : deal[d].status = "None"
      BY <2>2 DEF DealInv, SentDealsAreNew
    <3> QED BY <2>2, <2>3, <2>6, <3>1 DEF DealInv, SentDealsAreNew
  <2>8. ActiveIsAttested'
    BY <2>2, <2>6 DEF DealInv, ActiveIsAttested
  <2>9. ScannedRowsAreGood' /\ UnlockedIffCharged' /\ StatusIsLogged' /\ DealIdHasStatus'
    BY <2>2 DEF DealInv, ScannedRowsAreGood, UnlockedIffCharged, StatusIsLogged, DealIdHasStatus
  <2> QED BY <2>4, <2>5, <2>7, <2>8, <2>9 DEF DealInv
<1>5. CASE \E d \in Deals : RecordDeal(d)
  <2>1. PICK d \in Deals : RecordDeal(d)
    BY <1>5
  <2>2. /\ sendJob.pc = "record" /\ d \in sendJob.sent
        /\ deal' = [deal EXCEPT ![d] = [NoDeal EXCEPT !.status = "Created",
                                                      !.carFile = sendJob.cur]]
        /\ sendJob' = [sendJob EXCEPT !.sent = @ \ {d}]
        /\ UNCHANGED <<car, dealLog, chain, now, scanJob>>
    BY <2>1 DEF RecordDeal
  <2>3. /\ sendJob'.pc = "record" /\ sendJob'.todo = sendJob.todo /\ sendJob'.cur = sendJob.cur
        /\ sendJob'.sent = sendJob.sent \ {d} /\ sendJob'.at = sendJob.at
    BY <1>1, <2>2
  <2>4. /\ sendJob.cur \in Cars /\ car[sendJob.cur].status = "TaskCreated"
        /\ deal[d].status = "None" /\ chain[d] # "unsent"
    BY <1>1, <2>2 DEF DealInv, ListedCarsWait, SentDealsAreNew
  <2>5. /\ deal'[d] = [status |-> "Created", carFile |-> sendJob.cur, dealId |-> FALSE,
                       onChain |-> Null, unlocked |-> FALSE]
        /\ \A e \in Deals \ {d} : deal'[e] = deal[e]
        /\ deal' \in [Deals -> DealRow]
    BY <1>1, <2>2, <2>4 DEF NoDeal, DealRow, DealStatus
  <2>6. DealTypeOK'
    BY <1>1, <2>2, <2>3, <2>5 DEF DealInv, DealTypeOK, TablesTypeOK, DealTablesTypeOK,
                                  SendJobTypeOK, ScanJobTypeOK
  <2>7. ListedCarsWait'
    BY <2>2, <2>3 DEF DealInv, ListedCarsWait
  <2>8. SentDealsAreNew'
    <3>1. SentDealsAreNew
      BY DEF DealInv
    <3>2. \A e \in sendJob'.sent : deal'[e].status = "None" /\ chain'[e] # "unsent"
      BY <1>1, <2>2, <2>3, <2>5, <3>1 DEF SentDealsAreNew
    <3>3. ASSUME NEW e \in Deals, deal'[e].status # "None"
          PROVE  /\ chain'[e] # "unsent"
                 /\ deal'[e].carFile \in Cars /\ car'[deal'[e].carFile].status # "None"
      BY <2>2, <2>4, <2>5, <3>1, <3>3 DEF SentDealsAreNew
    <3>4. ASSUME NEW e \in Deals, deal'[e].status = "Created" PROVE deal'[e].unlocked = FALSE
      BY <2>5, <3>1, <3>4 DEF SentDealsAreNew
    <3> QED BY <2>3, <3>2, <3>3, <3>4 DEF SentDealsAreNew
  <2>9. ScannedRowsAreGood'
    BY <2>2, <2>4, <2>5 DEF DealInv, ScannedRowsAreGood
  <2>10. ActiveIsAttested' /\ UnlockedIffCharged' /\ StatusIsLogged' /\ DealIdHasStatus'
    <3>1. ActiveIsAttested'
      BY <2>2, <2>5 DEF DealInv, ActiveIsAttested
    <3>2. UnlockedIffCharged'
      BY <2>2, <2>5 DEF DealInv, UnlockedIffCharged
    <3>3. StatusIsLogged'
      <4>1. deal'[d].onChain = Null /\ \A e \in Deals \ {d} : deal'[e].onChain = deal[e].onChain
        BY <2>5
      <4>2. \A e \in Deals : deal[e].onChain # Null => <<e, deal[e].onChain>> \in dealLog
        BY DEF DealInv, StatusIsLogged
      <4>3. dealLog' = dealLog
        BY <2>2
      <4> QED BY <4>1, <4>2, <4>3 DEF StatusIsLogged
    <3>4. DealIdHasStatus'
      BY <2>2, <2>5 DEF DealInv, DealIdHasStatus
    <3> QED BY <3>1, <3>2, <3>3, <3>4
  <2> QED BY <2>6, <2>7, <2>8, <2>9, <2>10 DEF DealInv
<1>6. CASE \E d \in Deals : LoseDeal(d)
  <2>1. PICK d \in Deals : LoseDeal(d)
    BY <1>6
  <2>2. /\ sendJob' = [sendJob EXCEPT !.sent = @ \ {d}]
        /\ UNCHANGED <<car, dealTables>>
    BY <2>1 DEF LoseDeal
  <2>3. /\ sendJob'.pc = sendJob.pc /\ sendJob'.todo = sendJob.todo
        /\ sendJob'.cur = sendJob.cur /\ sendJob'.sent = sendJob.sent \ {d}
        /\ sendJob'.at = sendJob.at
    BY <1>1, <2>2
  <2>4. SendJobTypeOK' /\ ListedCarsWait'
    BY <1>1, <2>2, <2>3 DEF DealInv, SendJobTypeOK, ListedCarsWait
  <2>5. SentDealsAreNew'
    BY <2>2, <2>3 DEF DealInv, SentDealsAreNew, dealTables
  <2> QED BY <1>1, <2>2, <2>4, <2>5, DealsUntouched DEF DealInv, DealTypeOK
<1>7. CASE EndSendDeal
  <2>1. sendJob' = SendIdle /\ UNCHANGED <<car, dealTables>>
    BY <1>7 DEF EndSendDeal
  <2>2. SendJobTypeOK' /\ ListedCarsWait'
    BY <1>1, <2>1 DEF SendJobTypeOK, ListedCarsWait, SendIdle
  <2>3. SentDealsAreNew'
    BY <2>1 DEF DealInv, SentDealsAreNew, SendIdle, dealTables
  <2> QED BY <1>1, <2>1, <2>2, <2>3, DealsUntouched DEF DealInv, DealTypeOK
<1> QED BY <1>2, <1>3, <1>4, <1>5, <1>6, <1>7 DEF SendDealStep

-----------------------------------------------------------------------------
(***************************************************************************)
(* The scan job.                                                           *)
(***************************************************************************)

\* What the send job relies on does not change while rows keep their cars.
LEMMA CarsUntouched ==
  ASSUME DealInv, UNCHANGED <<now, car, chain, sendJob>>,
         \A d \in Deals : deal[d].status = "None" => deal'[d].status = "None",
         \A d \in sendJob.sent : deal'[d].status = deal[d].status,
         \A d \in Deals : deal'[d].carFile = deal[d].carFile,
         \A d \in Deals : deal'[d].status = "Created" => deal'[d].unlocked = FALSE
  PROVE  TablesTypeOK' /\ SendJobTypeOK' /\ ListedCarsWait' /\ SentDealsAreNew'
<1>1. TablesTypeOK' /\ SendJobTypeOK'
  BY DEF DealInv, DealTypeOK, TablesTypeOK, SendJobTypeOK
<1>2. ListedCarsWait'
  BY DEF DealInv, ListedCarsWait
<1>3. sendJob.sent \subseteq Deals
  BY DEF DealInv, DealTypeOK, SendJobTypeOK
<1>4. SentDealsAreNew
  BY DEF DealInv
<1>5. \A d \in sendJob'.sent : /\ sendJob'.pc = "record" /\ deal'[d].status = "None"
                             /\ chain'[d] # "unsent"
  BY <1>3, <1>4 DEF SentDealsAreNew
<1>6. \A d \in Deals : deal'[d].status # "None" =>
        /\ chain'[d] # "unsent"
        /\ deal'[d].carFile \in Cars /\ car'[deal'[d].carFile].status # "None"
  BY <1>4 DEF SentDealsAreNew
<1>7. SentDealsAreNew'
  BY <1>5, <1>6 DEF SentDealsAreNew
<1> QED BY <1>1, <1>2, <1>7

\* When the scan is done with a deal, the other rows it holds still fit the table.
LEMMA DoneKeepsRowsGood ==
  ASSUME DealInv, NEW d \in Deals, Done(d),
         \A e \in Deals \ {d} : deal'[e] = deal[e]
  PROVE  ScanJobTypeOK' /\ ScannedRowsAreGood'
<1>1. scanJob \in [pc : {"idle", "before", "after"}, todo : SUBSET Deals, rows : [Deals -> DealRow]]
  BY DEF DealInv, DealTypeOK, ScanJobTypeOK
<1>2. NoDeal \in DealRow
  BY DEF NoDeal, DealRow, DealStatus
<1>3. /\ scanJob'.pc = scanJob.pc /\ scanJob'.todo = scanJob.todo \ {d}
      /\ scanJob'.rows = [scanJob.rows EXCEPT ![d] = NoDeal]
  BY <1>1 DEF Done
<1>4. ScanJobTypeOK'
  BY <1>1, <1>2 DEF Done, ScanJobTypeOK
<1>5. \A e \in scanJob'.todo : /\ e \in scanJob.todo /\ e \in Deals /\ deal'[e] = deal[e]
                              /\ scanJob'.rows[e] = scanJob.rows[e]
  BY <1>1, <1>3
<1>6. ScannedRowsAreGood'
  BY <1>3, <1>5 DEF DealInv, ScannedRowsAreGood
<1> QED BY <1>4, <1>6

\* Every step of the scanning job keeps the invariant.
LEMMA ScanDealStepInv == DealInv /\ ScanDealStep /\ UNCHANGED <<now, sendJob>> => DealInv'
<1> SUFFICES ASSUME DealInv, ScanDealStep, UNCHANGED <<now, sendJob>> PROVE DealInv'
  OBVIOUS
<1>1. /\ scanJob \in [pc : {"idle", "before", "after"}, todo : SUBSET Deals, rows : [Deals -> DealRow]]
      /\ deal \in [Deals -> DealRow] /\ chain \in [Deals -> ChainStatus]
      /\ dealLog \subseteq Deals \X (OnChainStatus \cup {Null})
  BY DEF DealInv, DealTypeOK, ScanJobTypeOK, DealTablesTypeOK
<1>2. ASSUME NEW pc \in {"before", "after"}, NEW found \in SUBSET Deals, Query(pc, found),
             UNCHANGED <<car, dealTables>>,
             pc = "before" => \A d \in found : deal[d].status = "Created",
             pc = "after" => \A d \in found : deal[d].status \in {"Active", "Success"}
      PROVE  DealInv'
  <2>1. NoDeal \in DealRow
    BY DEF NoDeal, DealRow, DealStatus
  <2>2. /\ scanJob'.pc = pc /\ scanJob'.todo = found
        /\ scanJob'.rows = [d \in Deals |-> IF d \in found THEN deal[d] ELSE NoDeal]
    BY <1>2 DEF Query
  <2>3. ScanJobTypeOK'
    BY <1>1, <1>2, <2>1 DEF Query, ScanJobTypeOK
  <2>4. ScannedRowsAreGood'
    BY <1>2, <2>2 DEF ScannedRowsAreGood, dealTables
  <2>5. TablesTypeOK' /\ SendJobTypeOK' /\ ListedCarsWait' /\ SentDealsAreNew'
    BY <1>2, CarsUntouched DEF dealTables, DealInv, SentDealsAreNew
  <2>6. DealTablesTypeOK' /\ ActiveIsAttested' /\ UnlockedIffCharged' /\ StatusIsLogged' /\ DealIdHasStatus'
    BY <1>2 DEF DealInv, DealTypeOK, DealTablesTypeOK, dealTables, ActiveIsAttested,
                UnlockedIffCharged, StatusIsLogged, DealIdHasStatus
  <2> QED BY <2>3, <2>4, <2>5, <2>6 DEF DealInv, DealTypeOK
<1>3. CASE StartScanDealBeforeActive
  <2>1. \A d \in GetOfflineDeals2BeScanned : d \in Deals /\ deal[d].status = "Created"
    BY <1>1 DEF GetOfflineDeals2BeScanned, DealRow, DealStatus
  <2>2. PICK found \in {GetOfflineDeals2BeScanned, {}} : Query("before", found)
    BY <1>3 DEF StartScanDealBeforeActive
  <2>3. found \in SUBSET Deals /\ \A d \in found : deal[d].status = "Created"
    BY <2>1
  <2> QED BY <1>2, <1>3, <2>2, <2>3 DEF StartScanDealBeforeActive
<1>4. CASE StartScanDealAfterActive
  <2>1. \A d \in GetOfflineDeals2BeScannedAfterActive :
          d \in Deals /\ deal[d].status \in {"Active", "Success"}
    BY DEF GetOfflineDeals2BeScannedAfterActive
  <2> QED BY <1>2, <1>4, <2>1 DEF StartScanDealAfterActive
<1>5. CASE \E d \in Deals : \E answer \in IsDealActive(d) : ScanDealBeforeActive(d, answer)
  <2> PICK d \in Deals : \E answer \in IsDealActive(d) : ScanDealBeforeActive(d, answer)
    BY <1>5
  <2>1. PICK answer \in IsDealActive(d) : ScanDealBeforeActive(d, answer)
    OBVIOUS
  <2>2. /\ scanJob.pc = "before" /\ d \in scanJob.todo
        /\ Done(d) /\ UNCHANGED <<car, chain>>
    BY <2>1 DEF ScanDealBeforeActive
  <2>3. PICK row \in ScannedRows(d, answer) :
          /\ dealLog' = dealLog \cup {<<d, row.onChain>>}
          /\ deal' = [deal EXCEPT ![d] = row]
    BY <2>1 DEF ScanDealBeforeActive
  <2>4. /\ row \in DealRow /\ row.carFile = deal[d].carFile /\ row.unlocked = FALSE
        /\ row.status # "None"
        /\ row.dealId => row.onChain # Null
        /\ row.status \in {"Active", "Success"} => chain[d] = "active" \/ row.onChain = "Active"
        /\ row.status = "Active" => ~car[row.carFile].isFree
        /\ row.status = "Success" => car[row.carFile].isFree
    BY <2>2, ScannedRowFacts
  <2>5. deal[d].status = "Created"
    BY <2>2 DEF DealInv, ScannedRowsAreGood
  <2>6. deal'[d] = row /\ \A e \in Deals \ {d} : deal'[e] = deal[e]
    BY <1>1, <2>3
  <2>7. DealTablesTypeOK'
    BY <1>1, <2>2, <2>3, <2>4 DEF DealTablesTypeOK, DealRow
  <2>8. ScanJobTypeOK' /\ ScannedRowsAreGood'
    BY <2>2, <2>6, DoneKeepsRowsGood
  <2>9. TablesTypeOK' /\ SendJobTypeOK' /\ ListedCarsWait' /\ SentDealsAreNew'
    <3>1. ASSUME NEW e \in Deals
          PROVE  /\ deal[e].status = "None" => deal'[e].status = "None"
                 /\ e \in sendJob.sent => deal'[e].status = deal[e].status
                 /\ deal'[e].carFile = deal[e].carFile
                 /\ deal'[e].status = "Created" => deal'[e].unlocked = FALSE
      <4>1. CASE e = d
        BY <2>4, <2>5, <2>6, <4>1 DEF DealInv, SentDealsAreNew
      <4>2. CASE e # d
        BY <2>6, <4>2 DEF DealInv, SentDealsAreNew
      <4> QED BY <4>1, <4>2
    <3>2. sendJob.sent \subseteq Deals
      BY DEF DealInv, DealTypeOK, SendJobTypeOK
    <3> QED BY <2>2, <3>1, <3>2, CarsUntouched
  <2>10. ActiveIsAttested'
    BY <2>2, <2>3, <2>4, <2>6 DEF DealInv, ActiveIsAttested
  <2>11. UnlockedIffCharged'
    BY <2>2, <2>4, <2>6 DEF DealInv, UnlockedIffCharged
  <2>12. StatusIsLogged'
    BY <2>3, <2>6 DEF DealInv, StatusIsLogged
  <2>13. DealIdHasStatus'
    BY <2>4, <2>6 DEF DealInv, DealIdHasStatus
  <2> QED BY <2>7, <2>8, <2>9, <2>10, <2>11, <2>12, <2>13 DEF DealInv, DealTypeOK
<1>6. ASSUME NEW d \in Deals, Done(d), UNCHANGED <<car, chain>>,
             dealLog \subseteq dealLog', dealLog' \subseteq Deals \X (OnChainStatus \cup {Null}),
             \/ deal' = deal
             \/ \E status \in OnChainStatus :
                  /\ <<d, status>> \in dealLog'
                  /\ deal' = [deal EXCEPT ![d].onChain = status]
      PROVE  DealInv'
  <2>1. /\ deal' \in [Deals -> DealRow]
        /\ \A e \in Deals \ {d} : deal'[e] = deal[e]
        /\ deal'[d].status = deal[d].status /\ deal'[d].carFile = deal[d].carFile
        /\ deal'[d].dealId = deal[d].dealId /\ deal'[d].unlocked = deal[d].unlocked
        /\ \/ deal'[d].onChain = deal[d].onChain
           \/ deal'[d].onChain \in OnChainStatus /\ <<d, deal'[d].onChain>> \in dealLog'
    <3>1. CASE deal' = deal
      BY <1>1, <3>1
    <3>2. CASE deal' # deal
      <4>1. PICK status \in OnChainStatus : /\ <<d, status>> \in dealLog'
                                           /\ deal' = [deal EXCEPT ![d].onChain = status]
        BY <1>6, <3>2
      <4>2. deal'[d] = [deal[d] EXCEPT !.onChain = status]
        BY <1>1, <4>1
      <4>3. deal[d] \in DealRow /\ deal'[d] \in DealRow
        BY <1>1, <4>2 DEF DealRow
      <4> QED BY <1>1, <4>1, <4>2, <4>3 DEF DealRow
    <3> QED BY <3>1, <3>2
  <2>2. \A e \in Deals :
          /\ deal'[e].status = deal[e].status /\ deal'[e].carFile = deal[e].carFile
          /\ deal'[e].dealId = deal[e].dealId /\ deal'[e].unlocked = deal[e].unlocked
    BY <2>1
  <2>3. DealTablesTypeOK'
    BY <1>1, <1>6, <2>1 DEF DealTablesTypeOK
  <2>4. ScanJobTypeOK' /\ ScannedRowsAreGood'
    BY <1>6, <2>1, DoneKeepsRowsGood
  <2>5. TablesTypeOK' /\ SendJobTypeOK' /\ ListedCarsWait' /\ SentDealsAreNew'
    <3>1. sendJob.sent \subseteq Deals
      BY DEF DealInv, DealTypeOK, SendJobTypeOK
    <3> QED BY <1>6, <2>2, <3>1, CarsUntouched DEF DealInv, SentDealsAreNew
  <2>6. ActiveIsAttested'
    BY <1>6, <2>2 DEF DealInv, ActiveIsAttested
  <2>7. UnlockedIffCharged'
    BY <1>6, <2>2 DEF DealInv, UnlockedIffCharged
  <2>8. StatusIsLogged'
    BY <1>6, <2>1 DEF DealInv, StatusIsLogged
  <2>9. DealIdHasStatus'
    BY <2>1, <2>2 DEF DealInv, DealIdHasStatus
  <2> QED BY <2>3, <2>4, <2>5, <2>6, <2>7, <2>8, <2>9 DEF DealInv, DealTypeOK
<1>7. CASE \E d \in Deals : \E answer \in IsDealActive(d) : SaveDealFails(d, answer)
  <2> PICK d \in Deals : \E answer \in IsDealActive(d) : SaveDealFails(d, answer)
    BY <1>7
  <2>1. PICK answer \in IsDealActive(d) : SaveDealFails(d, answer)
    OBVIOUS
  <2>2. PICK row \in ScannedRows(d, answer) : dealLog' = dealLog \cup {<<d, row.onChain>>}
    BY <2>1 DEF SaveDealFails
  <2>3. row.onChain \in OnChainStatus \cup {Null}
    BY <2>1, <2>2, ScannedRowFacts DEF SaveDealFails, DealRow
  <2> QED BY <1>1, <1>6, <2>1, <2>2, <2>3 DEF SaveDealFails
<1>8. CASE \E d \in Deals : SkipDeal(d)
  BY <1>1, <1>6, <1>8 DEF SkipDeal, dealTables
<1>9. CASE \E d \in Deals : ScanDealAfterActive(d)
  <2>1. PICK d \in Deals : ScanDealAfterActive(d)
    BY <1>9
  <2>2. PICK info \in DealInfos :
          IF scanJob.rows[d].onChain = info.status
          THEN UNCHANGED <<deal, dealLog>>
          ELSE /\ dealLog' = dealLog \cup {<<d, info.status>>}
               /\ deal' \in {deal, [deal EXCEPT ![d].onChain = info.status]}
    BY <2>1 DEF ScanDealAfterActive
  <2>3. info.status \in OnChainStatus
    BY DEF DealInfos
  <2>4. Done(d) /\ UNCHANGED <<car, chain>>
    BY <2>1 DEF ScanDealAfterActive
  <2>5. CASE scanJob.rows[d].onChain = info.status
    BY <1>1, <1>6, <2>2, <2>4, <2>5
  <2>6. CASE scanJob.rows[d].onChain # info.status
    <3>1. /\ dealLog' = dealLog \cup {<<d, info.status>>}
          /\ deal' \in {deal, [deal EXCEPT ![d].onChain = info.status]}
      BY <2>2, <2>6
    <3> QED BY <1>1, <1>6, <2>3, <2>4, <3>1
  <2> QED BY <2>5, <2>6
<1>10. CASE EndScanDeal
  <2>1. scanJob' = ScanIdle /\ UNCHANGED <<car, dealTables>>
    BY <1>10 DEF EndScanDeal
  <2>2. ScanJobTypeOK' /\ ScannedRowsAreGood'
    BY <1>1, <2>1 DEF ScanJobTypeOK, ScannedRowsAreGood, ScanIdle, NoDeal, DealRow, DealStatus
  <2>3. TablesTypeOK' /\ SendJobTypeOK' /\ ListedCarsWait' /\ SentDealsAreNew'
    BY <2>1, CarsUntouched DEF dealTables, DealInv, SentDealsAreNew
  <2>4. DealTablesTypeOK' /\ ActiveIsAttested' /\ UnlockedIffCharged' /\ StatusIsLogged' /\ DealIdHasStatus'
    BY <2>1 DEF DealInv, DealTypeOK, DealTablesTypeOK, dealTables, ActiveIsAttested,
                UnlockedIffCharged, StatusIsLogged, DealIdHasStatus
  <2> QED BY <2>2, <2>3, <2>4 DEF DealInv, DealTypeOK
<1> QED BY <1>3, <1>4, <1>5, <1>7, <1>8, <1>9, <1>10 DEF ScanDealStep

-----------------------------------------------------------------------------
(***************************************************************************)
(* The world around the jobs.                                              *)
(***************************************************************************)

\* The chain's progress and the unlock service keep the invariant.
LEMMA DealWorldInv == DealInv /\ DealWorld /\ UNCHANGED now => DealInv'
<1> SUFFICES ASSUME DealInv, DealWorld, UNCHANGED now PROVE DealInv'
  OBVIOUS
<1>1. /\ deal \in [Deals -> DealRow] /\ chain \in [Deals -> ChainStatus]
      /\ sendJob.sent \subseteq Deals /\ scanJob.todo \subseteq Deals
  BY DEF DealInv, DealTypeOK, DealTablesTypeOK, SendJobTypeOK, ScanJobTypeOK
<1>2. CASE \E d \in Deals : DealProgress(d)
  <2>1. PICK d \in Deals : DealProgress(d)
    BY <1>2
  <2>2. UNCHANGED <<now, car, deal, dealLog, sendJob, scanJob>>
    BY <2>1 DEF DealProgress
  <2>3. /\ chain' \in [Deals -> ChainStatus]
        /\ \A e \in Deals : /\ chain[e] # "unsent" => chain'[e] # "unsent"
                            /\ chain[e] = "active" => chain'[e] = "active"
    BY <1>1, <2>1 DEF DealProgress, ChainStatus
  <2>4. DealTypeOK'
    BY <2>2, <2>3 DEF DealInv, DealTypeOK, TablesTypeOK, DealTablesTypeOK, SendJobTypeOK,
                      ScanJobTypeOK
  <2>5. ListedCarsWait' /\ ScannedRowsAreGood'
    BY <2>2 DEF DealInv, ListedCarsWait, ScannedRowsAreGood
  <2>6. SentDealsAreNew'
    BY <1>1, <2>2, <2>3 DEF DealInv, SentDealsAreNew
  <2>7. ActiveIsAttested'
    BY <2>2, <2>3 DEF DealInv, ActiveIsAttested
  <2>8. UnlockedIffCharged' /\ StatusIsLogged' /\ DealIdHasStatus'
    BY <2>2 DEF DealInv, UnlockedIffCharged, StatusIsLogged, DealIdHasStatus
  <2> QED BY <2>4, <2>5, <2>6, <2>7, <2>8 DEF DealInv
<1>3. CASE \E d \in Deals : UpdateOfflineDealUnlockInfo(d)
  <2>1. PICK d \in Deals : UpdateOfflineDealUnlockInfo(d)
    BY <1>3
  <2>2. /\ UNCHANGED <<now, car, dealLog, chain, sendJob, scanJob>>
        /\ deal[d].status = "Active"
        /\ deal' = [deal EXCEPT ![d].status = "Success", ![d].unlocked = TRUE]
    BY <2>1 DEF UpdateOfflineDealUnlockInfo
  <2>3. /\ deal' \in [Deals -> DealRow]
        /\ \A e \in Deals \ {d} : deal'[e] = deal[e]
        /\ deal'[d].status = "Success" /\ deal'[d].unlocked = TRUE
        /\ deal'[d].carFile = deal[d].carFile /\ deal'[d].dealId = deal[d].dealId
        /\ deal'[d].onChain = deal[d].onChain
    BY <1>1, <2>2 DEF DealRow, DealStatus
  <2>4. DealTypeOK'
    BY <2>2, <2>3 DEF DealInv, DealTypeOK, TablesTypeOK, DealTablesTypeOK, SendJobTypeOK,
                      ScanJobTypeOK
  <2>5. ListedCarsWait' /\ SentDealsAreNew'
    <3>1. SentDealsAreNew /\ ListedCarsWait
      BY DEF DealInv
    <3>2. ListedCarsWait'
      BY <2>2, <3>1 DEF ListedCarsWait
    <3>3. \A e \in sendJob'.sent : /\ sendJob'.pc = "record" /\ deal'[e].status = "None"
                                  /\ chain'[e] # "unsent"
      BY <1>1, <2>2, <2>3, <3>1 DEF SentDealsAreNew
    <3>4. ASSUME NEW e \in Deals, deal'[e].status # "None"
          PROVE  /\ chain'[e] # "unsent"
                 /\ deal'[e].carFile \in Cars /\ car'[deal'[e].carFile].status # "None"
      BY <2>2, <2>3, <3>1, <3>4 DEF SentDealsAreNew
    <3>5. ASSUME NEW e \in Deals, deal'[e].status = "Created" PROVE deal'[e].unlocked = FALSE
      BY <2>3, <3>1, <3>5 DEF SentDealsAreNew
    <3> QED BY <3>2, <3>3, <3>4, <3>5 DEF SentDealsAreNew
  <2>6. ScannedRowsAreGood'
    BY <1>1, <2>2, <2>3 DEF DealInv, ScannedRowsAreGood
  <2>7. ActiveIsAttested'
    BY <2>2, <2>3 DEF DealInv, ActiveIsAttested
  <2>8. UnlockedIffCharged'
    BY <2>2, <2>3 DEF DealInv, UnlockedIffCharged
  <2>9. StatusIsLogged'
    BY <2>2, <2>3 DEF DealInv, StatusIsLogged
  <2>10. DealIdHasStatus'
    BY <2>3 DEF DealInv, DealIdHasStatus
  <2> QED BY <2>4, <2>5, <2>6, <2>7, <2>8, <2>9, <2>10 DEF DealInv
<1> QED BY <1>2, <1>3 DEF DealWorld

\* Cars arrive and the clock moves: the jobs' own states stay as they are.
LEMMA MoreCarsOrTime ==
  ASSUME DealInv, UNCHANGED <<dealTables, sendJob, scanJob>>,
         now' \in Nat, now <= now', car' \in [Cars -> CarRow],
         \A c \in Cars : car[c].status # "None" => car'[c] = car[c]
  PROVE  DealInv'
<1>1. SendJobTypeOK' /\ ListedCarsWait'
  <2>1. /\ now \in Nat /\ sendJob.at \in Nat /\ sendJob.todo \subseteq Cars
    BY DEF DealInv, DealTypeOK, TablesTypeOK, SendJobTypeOK
  <2>2. ListedCarsWait'
    BY <2>1 DEF DealInv, ListedCarsWait
  <2> QED BY <2>2 DEF DealInv, DealTypeOK, SendJobTypeOK
<1>2. SentDealsAreNew'
  BY DEF DealInv, SentDealsAreNew, dealTables
<1> QED BY <1>1, <1>2, DealsUntouched DEF DealInv, DealTypeOK

\* A restart drops what both jobs held, and the tables need none of it.
LEMMA RestartInv == DealInv /\ RestartDealJobs /\ UNCHANGED now => DealInv'
<1> SUFFICES ASSUME DealInv, RestartDealJobs, UNCHANGED now PROVE DealInv'
  OBVIOUS
<1> USE DEF RestartDealJobs, dealTables
<1>1. TablesTypeOK' /\ DealTablesTypeOK'
  BY DEF DealInv, DealTypeOK, TablesTypeOK, DealTablesTypeOK
<1>2. SendJobTypeOK' /\ ListedCarsWait'
  BY DEF DealInv, DealTypeOK, SendJobTypeOK, ListedCarsWait, SendIdle, TablesTypeOK
<1>3. ScanJobTypeOK' /\ ScannedRowsAreGood'
  BY DEF ScanJobTypeOK, ScannedRowsAreGood, ScanIdle, NoDeal, DealRow, DealStatus
<1>4. SentDealsAreNew'
  BY DEF DealInv, SentDealsAreNew, SendIdle
<1>5. ActiveIsAttested' /\ UnlockedIffCharged' /\ StatusIsLogged' /\ DealIdHasStatus'
  BY DEF DealInv, ActiveIsAttested, UnlockedIffCharged, StatusIsLogged, DealIdHasStatus
<1> QED BY <1>1, <1>2, <1>3, <1>4, <1>5 DEF DealInv, DealTypeOK

\* Every step of the deal side keeps the invariant.
LEMMA DealStepInv == DealInv /\ [DealNext]_dealVars => DealInv'
<1> SUFFICES ASSUME DealInv, [DealNext]_dealVars PROVE DealInv'
  OBVIOUS
<1>1. now \in Nat /\ car \in [Cars -> CarRow]
  BY DEF DealInv, DealTypeOK, TablesTypeOK
<1>2. CASE SendDealStep /\ UNCHANGED <<now, scanJob>>
  BY <1>2, SendDealStepInv
<1>3. CASE ScanDealStep /\ UNCHANGED <<now, sendJob>>
  BY <1>3, ScanDealStepInv
<1>4. CASE DealWorld /\ UNCHANGED now
  BY <1>4, DealWorldInv
<1>5. CASE CarPacked /\ UNCHANGED now
  <2>1. PICK c \in Cars, free \in BOOLEAN : InsertCar(c, free)
    BY <1>5 DEF CarPacked
  <2>2. car' \in [Cars -> CarRow] /\ \A b \in Cars : car[b].status # "None" => car'[b] = car[b]
    BY <1>1, <2>1 DEF InsertCar, CarRow, CarStatus
  <2> QED BY <1>1, <1>5, <2>2, MoreCarsOrTime DEF CarPacked
<1>6. CASE Tick /\ UNCHANGED <<car, dealTables, sendJob, scanJob>>
  BY <1>1, <1>6, MoreCarsOrTime DEF Tick
<1>7. CASE RestartDealJobs /\ UNCHANGED now
  BY <1>7, RestartInv
<1>8. CASE UNCHANGED dealVars
  BY <1>1, <1>8, MoreCarsOrTime DEF dealVars
<1> QED BY <1>2, <1>3, <1>4, <1>5, <1>6, <1>7, <1>8 DEF DealNext, DealRun

\* The inductive invariant holds in every reachable state of the deal side.
THEOREM DealInvariance == DealSpec => []DealInv
  BY DealInitInv, DealStepInv, PTL DEF DealSpec

-----------------------------------------------------------------------------
\* The tables and the states of both jobs have the types the code gives them.
THEOREM DealTypeCorrect == DealSpec => []DealTypeOK
  BY DealInvariance, PTL DEF DealInv

\* Whatever the node answers about deals and ids, a row says Active or Success only of a
\* deal that is on the chain or that the node itself has called active, as the log tells.
THEOREM ActiveDealsAreAttested == DealSpec => []ActiveIsAttested
  BY DealInvariance, PTL DEF DealInv

\* Free cars' deals succeed without an unlock, charged cars' only through one.
THEOREM UnlocksFollowCharges == DealSpec => []UnlockedIffCharged
  BY DealInvariance, PTL DEF DealInv

\* The log has every on-chain status a row shows.
THEOREM StatusesAreLogged == DealSpec => []StatusIsLogged
  BY DealInvariance, PTL DEF DealInv

\* A deal id never goes without an on-chain status.
THEOREM DealIdsHaveStatuses == DealSpec => []DealIdHasStatus
  BY DealInvariance, PTL DEF DealInv

-----------------------------------------------------------------------------
\* The two action properties follow from the invariant, step by step.

DealStays(d) ==
  /\ deal[d].status \in {"Failed", "Success"} =>
       deal'[d].status = deal[d].status /\ deal'[d].unlocked = deal[d].unlocked
  /\ deal[d].status # "None" =>
       deal'[d].carFile = deal[d].carFile /\ (deal[d].dealId => deal'[d].dealId)

\* What each step may do to a row that is already there.
LEMMA StepKeepsDeals ==
  ASSUME DealInv, [DealNext]_dealVars, NEW d \in Deals
  PROVE  DealStays(d)
<1>1. /\ deal \in [Deals -> DealRow] /\ sendJob.sent \subseteq Deals /\ scanJob.todo \subseteq Deals
  BY DEF DealInv, DealTypeOK, DealTablesTypeOK, SendJobTypeOK, ScanJobTypeOK
<1>2. CASE deal' = deal
  BY <1>2 DEF DealStays
<1>3. ASSUME NEW e \in Deals, RecordDeal(e) PROVE DealStays(d)
  <2>1. deal[e].status = "None"
    BY <1>3 DEF RecordDeal, DealInv, SentDealsAreNew
  <2>2. d # e => deal'[d] = deal[d]
    BY <1>1, <1>3 DEF RecordDeal
  <2> QED BY <2>1, <2>2 DEF DealStays
<1>4. ASSUME NEW e \in Deals, NEW answer \in IsDealActive(e), ScanDealBeforeActive(e, answer)
      PROVE  DealStays(d)
  <2>1. PICK row \in ScannedRows(e, answer) : deal' = [deal EXCEPT ![e] = row]
    BY <1>4 DEF ScanDealBeforeActive
  <2>2. /\ row.carFile = deal[e].carFile /\ (deal[e].dealId => row.dealId)
        /\ deal[e].status = "Created"
    BY <1>4, ScannedRowFacts DEF ScanDealBeforeActive, DealInv, ScannedRowsAreGood
  <2>3. /\ d # e => deal'[d] = deal[d]
        /\ deal'[e] = row
    BY <1>1, <2>1
  <2> QED BY <2>2, <2>3 DEF DealStays
<1>5. ASSUME NEW e \in Deals, ScanDealAfterActive(e) PROVE DealStays(d)
  <2>1. PICK info \in DealInfos : deal' \in {deal, [deal EXCEPT ![e].onChain = info.status]}
    BY <1>5 DEF ScanDealAfterActive
  <2>2. /\ deal'[d].status = deal[d].status /\ deal'[d].unlocked = deal[d].unlocked
        /\ deal'[d].carFile = deal[d].carFile /\ deal'[d].dealId = deal[d].dealId
    BY <1>1, <2>1 DEF DealRow
  <2> QED BY <2>2 DEF DealStays
<1>6. ASSUME NEW e \in Deals, UpdateOfflineDealUnlockInfo(e) PROVE DealStays(d)
  <2>1. /\ deal[e].status = "Active"
        /\ deal' = [deal EXCEPT ![e].status = "Success", ![e].unlocked = TRUE]
    BY <1>6 DEF UpdateOfflineDealUnlockInfo
  <2>2. /\ d # e => deal'[d] = deal[d]
        /\ deal'[e].carFile = deal[e].carFile /\ deal'[e].dealId = deal[e].dealId
    BY <1>1, <2>1 DEF DealRow
  <2> QED BY <2>1, <2>2 DEF DealStays
<1>7. CASE SendDealStep
  <2>1. deal' = deal \/ \E e \in Deals : RecordDeal(e)
    BY <1>7 DEF SendDealStep, StartSendDeal, ExpireCar, SendFails, NoDealsSent,
                SendAutoBidDeals, SaveCarSent, LoseDeal, EndSendDeal, dealTables
  <2> QED BY <1>2, <1>3, <2>1
<1>8. CASE ScanDealStep
  <2>1. \/ deal' = deal
        \/ \E e \in Deals : \E answer \in IsDealActive(e) : ScanDealBeforeActive(e, answer)
        \/ \E e \in Deals : ScanDealAfterActive(e)
    BY <1>8 DEF ScanDealStep, StartScanDealBeforeActive, SaveDealFails, SkipDeal,
                StartScanDealAfterActive, EndScanDeal, dealTables
  <2> QED BY <1>2, <1>4, <1>5, <2>1
<1>9. CASE DealWorld
  <2>1. deal' = deal \/ \E e \in Deals : UpdateOfflineDealUnlockInfo(e)
    BY <1>9 DEF DealWorld, DealProgress
  <2> QED BY <1>2, <1>6, <2>1
<1>10. CASE \/ CarPacked
            \/ Tick /\ UNCHANGED <<car, dealTables, sendJob, scanJob>>
            \/ RestartDealJobs
            \/ UNCHANGED dealVars
  BY <1>2, <1>10 DEF CarPacked, RestartDealJobs, dealTables, dealVars
<1> QED BY <1>7, <1>8, <1>9, <1>10 DEF DealNext, DealRun

\* The scan's whole-row writes undo nothing that is settled.
THEOREM SettledDealsStaySettled == DealSpec => SettledDealsStay
<1>1. DealInv /\ [DealNext]_dealVars =>
        [\A d \in Deals :
           /\ deal[d].status \in {"Failed", "Success"} =>
                deal'[d].status = deal[d].status /\ deal'[d].unlocked = deal[d].unlocked
           /\ deal[d].status # "None" =>
                deal'[d].carFile = deal[d].carFile /\ (deal[d].dealId => deal'[d].dealId)]_dealVars
  BY StepKeepsDeals DEF DealStays
<1> QED BY <1>1, DealInvariance, PTL DEF DealSpec, SettledDealsStay

CarStays(c) ==
  car[c].status # "None" =>
    /\ [car'[c] EXCEPT !.status = car[c].status] = car[c]
    /\ car'[c].status # car[c].status =>
         /\ car[c].status = "TaskCreated"
         /\ car'[c].status = "DealSentExpired" => now - car[c].createAt > DealSendWindow

\* What each step may do to a car that is already there.
LEMMA StepMovesCarsForward ==
  ASSUME DealInv, [DealNext]_dealVars, NEW c \in Cars
  PROVE  CarStays(c)
<1>1. /\ car \in [Cars -> CarRow] /\ now \in Nat
      /\ sendJob.todo \subseteq Cars /\ sendJob.at \in Nat
  BY DEF DealInv, DealTypeOK, TablesTypeOK, SendJobTypeOK
<1>2. car'[c] = car[c] => CarStays(c)
  BY <1>1 DEF CarStays, CarRow
<1>3. ASSUME NEW b \in sendJob.todo, NEW status \in CarStatus, SaveStatus(b, status),
             status = "DealSentExpired" => Expired(b)
      PROVE  CarStays(c)
  <2>1. car[b].status = "TaskCreated" /\ sendJob.at <= now
    BY DEF DealInv, ListedCarsWait
  <2>2. car' = car \/ car' = [car EXCEPT ![b].status = status]
    BY <1>3 DEF SaveStatus
  <2>3. CASE car' = [car EXCEPT ![b].status = status] /\ c = b
    <3>1. car'[c] = [car[c] EXCEPT !.status = status]
      BY <1>1, <2>3
    <3>2. status = "DealSentExpired" => now - car[c].createAt > DealSendWindow
      BY <1>1, <1>3, <2>1, <2>3 DEF Expired, CarRow
    <3>3. [car'[c] EXCEPT !.status = car[c].status] = car[c] /\ car'[c].status = status
      BY <1>1, <3>1 DEF CarRow
    <3> QED BY <2>1, <2>3, <3>2, <3>3 DEF CarStays
  <2>4. CASE car' = [car EXCEPT ![b].status = status] /\ c # b
    BY <1>1, <1>2, <2>4
  <2> QED BY <1>2, <2>2, <2>3, <2>4
<1>4. CASE SendDealStep
  <2>1. \/ car' = car
        \/ \E b \in Cars : ExpireCar(b) \/ SendFails(b) \/ SaveCarSent(b)
    BY <1>4 DEF SendDealStep, StartSendDeal, NoDealsSent, SendAutoBidDeals, RecordDeal,
                LoseDeal, EndSendDeal
  <2>2. ASSUME NEW b \in Cars, ExpireCar(b) PROVE CarStays(c)
    BY <1>3, <2>2 DEF ExpireCar, CarStatus
  <2>3. ASSUME NEW b \in Cars, SendFails(b) PROVE CarStays(c)
    BY <1>3, <2>3 DEF SendFails, CarStatus
  <2>4. ASSUME NEW b \in Cars, SaveCarSent(b) PROVE CarStays(c)
    <3>1. b \in sendJob.todo
      BY <2>4 DEF SaveCarSent, DealInv, ListedCarsWait
    <3> QED BY <1>3, <2>4, <3>1 DEF SaveCarSent, CarStatus
  <2> QED BY <1>2, <2>1, <2>2, <2>3, <2>4
<1>5. CASE CarPacked
  <2>1. car[c].status # "None" => car'[c] = car[c]
    BY <1>1, <1>5 DEF CarPacked, InsertCar
  <2> QED BY <1>2, <2>1 DEF CarStays
<1>6. CASE ScanDealStep \/ DealWorld \/ RestartDealJobs \/ UNCHANGED dealVars
           \/ (Tick /\ UNCHANGED <<car, dealTables, sendJob, scanJob>>)
  <2>1. car' = car
    BY <1>6 DEF ScanDealStep, StartScanDealBeforeActive, ScanDealBeforeActive, SaveDealFails,
                SkipDeal, StartScanDealAfterActive, ScanDealAfterActive, EndScanDeal, DealWorld,
                DealProgress, UpdateOfflineDealUnlockInfo, RestartDealJobs, dealVars
  <2> QED BY <1>2, <2>1
<1> QED BY <1>4, <1>5, <1>6 DEF DealNext, DealRun

\* The send job takes no car back and expires none before its time.
THEOREM CarsOnlyMoveForward == DealSpec => CarsMoveForward
<1>1. DealInv /\ [DealNext]_dealVars =>
        [\A c \in Cars : car[c].status # "None" =>
           /\ [car'[c] EXCEPT !.status = car[c].status] = car[c]
           /\ car'[c].status # car[c].status =>
                /\ car[c].status = "TaskCreated"
                /\ car'[c].status = "DealSentExpired" =>
                     now - car[c].createAt > DealSendWindow]_dealVars
  BY StepMovesCarsForward DEF CarStays
<1> QED BY <1>1, DealInvariance, PTL DEF DealSpec, CarsMoveForward

-----------------------------------------------------------------------------
(* The scheduler as a whole.                                               *)

\* The invariants of both sides: a step of one side is a step of the other one's
\* environment only in states where both hold.
Inv == PackInv /\ DealInv

\* The whole starts where both sides start.
LEMMA InitImplements == Init => PackInit /\ DealInit
  BY DEF Init, PackInit, DealInit

\* The send job touches the cars as CarTakenOn allows, and nothing else of the
\* packing side.
LEMMA SendIsCarTakenOn ==
  ASSUME Inv, SendDealStep, UNCHANGED <<now, packSide>>
  PROVE  CarTakenOn \/ UNCHANGED car
<1>1. \/ UNCHANGED car
      \/ \E c \in Cars : ExpireCar(c) \/ SendFails(c) \/ SaveCarSent(c)
  BY DEF SendDealStep, StartSendDeal, NoDealsSent, SendAutoBidDeals, RecordDeal, LoseDeal,
         EndSendDeal
<1>2. ASSUME NEW c \in Cars, ExpireCar(c) \/ SendFails(c) \/ SaveCarSent(c)
      PROVE  CarTakenOn \/ UNCHANGED car
  <2>1. c \in sendJob.todo
    BY <1>2 DEF ExpireCar, SendFails, SaveCarSent, Inv, DealInv, ListedCarsWait
  <2>2. car[c].status = "TaskCreated"
    BY <2>1 DEF Inv, DealInv, ListedCarsWait
  <2>3. PICK status \in {"DealSent", "DealSentFailed", "DealSentExpired"} : SaveStatus(c, status)
    BY <1>2 DEF ExpireCar, SendFails, SaveCarSent
  <2>4. car' = car \/ car' = [car EXCEPT ![c].status = status]
    BY <2>3 DEF SaveStatus
  <2> QED BY <2>2, <2>4 DEF CarTakenOn, packSide, packTables
<1> QED BY <1>1, <1>2

\* The packing job touches the cars as CarPacked allows.
LEMMA CreateIsCarPacked ==
  ASSUME Inv, CreateTaskStep, UNCHANGED <<now, dealSide>>
  PROVE  CarPacked \/ UNCHANGED car
<1>1. \/ UNCHANGED car
      \/ \E c \in Cars : SaveCarInfo2DB(c)
  BY DEF CreateTaskStep, StartCreateTask, ReadUploads, CopyFile, DownloadFile, MergeFile, SkipFile,
         NothingToPack, PackBatch, CreateSwanTask, CreateSwanTaskFails, SaveCarInfo2DBFails
<1>2. createJob.free \in BOOLEAN
  BY DEF Inv, PackInv, PackTypeOK, CreateTaskTypeOK, CreateJob
<1>3. ASSUME NEW c \in Cars, SaveCarInfo2DB(c) PROVE CarPacked
  BY <1>2, <1>3 DEF SaveCarInfo2DB, CarPacked, dealSide
<1> QED BY <1>1, <1>3

\* Every step of the whole is a step, or a stutter, of each side.
LEMMA StepImplements ==
  ASSUME Inv, [Next]_vars
  PROVE  [PackNext]_packVars /\ [DealNext]_dealVars
<1> USE DEF packVars, dealVars, packSide, dealSide
<1>1. CASE CreateTaskStep /\ UNCHANGED <<now, dealSide>>
  <2>1. [PackNext]_packVars
    BY <1>1 DEF PackNext, PackRun
  <2>2. CarPacked \/ UNCHANGED car
    BY <1>1, CreateIsCarPacked
  <2>3. [DealNext]_dealVars
    BY <1>1, <2>2 DEF DealNext, DealRun
  <2> QED BY <2>1, <2>3
<1>2. CASE SendDealStep /\ UNCHANGED <<now, packSide, scanJob>>
  <2>1. [DealNext]_dealVars
    BY <1>2 DEF DealNext, DealRun
  <2>2. CarTakenOn \/ UNCHANGED car
    BY <1>2, SendIsCarTakenOn
  <2>3. [PackNext]_packVars
    BY <1>2, <2>2 DEF PackNext, PackRun
  <2> QED BY <2>1, <2>3
<1>3. CASE ScanDealStep /\ UNCHANGED <<now, packSide, sendJob>>
  <2>1. [DealNext]_dealVars
    BY <1>3 DEF DealNext, DealRun
  <2>2. UNCHANGED car
    BY <1>3 DEF ScanDealStep, StartScanDealBeforeActive, ScanDealBeforeActive, SaveDealFails,
                SkipDeal, StartScanDealAfterActive, ScanDealAfterActive, EndScanDeal
  <2>3. [PackNext]_packVars
    BY <1>3, <2>2
  <2> QED BY <2>1, <2>3
<1>4. CASE Arrivals /\ UNCHANGED <<now, dealSide>>
  <2>1. [PackNext]_packVars
    BY <1>4 DEF PackNext, PackRun
  <2>2. UNCHANGED car
    BY <1>4 DEF Arrivals, UploadFile, Pay, CopiesChange
  <2> QED BY <1>4, <2>1, <2>2
<1>5. CASE DealWorld /\ UNCHANGED <<now, packSide>>
  <2>1. [DealNext]_dealVars
    BY <1>5 DEF DealNext, DealRun
  <2>2. UNCHANGED car
    BY <1>5 DEF DealWorld, DealProgress, UpdateOfflineDealUnlockInfo
  <2> QED BY <1>5, <2>1, <2>2
<1>6. CASE Tick /\ UNCHANGED <<car, packSide, dealSide>>
  BY <1>6 DEF PackNext, PackRun, DealNext, DealRun
<1>7. CASE Restart
  BY <1>7 DEF Restart, RestartDealJobs, PackNext, DealNext
<1>8. CASE UNCHANGED vars
  BY <1>8 DEF vars
<1> QED BY <1>1, <1>2, <1>3, <1>4, <1>5, <1>6, <1>7, <1>8 DEF Next, Jobs, World

\* Both invariants hold of the whole.
THEOREM Invariance == Spec => []Inv
<1>1. Init => Inv
  BY InitImplements, InitInv, DealInitInv DEF Inv
<1>2. Inv /\ [Next]_vars => Inv'
  BY StepImplements, StepInv, DealStepInv DEF Inv
<1> QED BY <1>1, <1>2, PTL DEF Spec

\* The three jobs together do to the packing side only what Packing describes.
THEOREM SchedulerImplementsPacking == Spec => PackSpec
<1>1. Inv /\ [Next]_vars => [PackNext]_packVars
  BY StepImplements
<1> QED BY <1>1, InitImplements, Invariance, PTL DEF Spec, PackSpec

\* And to the deal side only what DealTracking describes.
THEOREM SchedulerImplementsDealTracking == Spec => DealSpec
<1>1. Inv /\ [Next]_vars => [DealNext]_dealVars
  BY StepImplements
<1> QED BY <1>1, InitImplements, Invariance, PTL DEF Spec, DealSpec

\* Whatever a deal stores has been packed once and for all, at a price it has paid.
THEOREM DealsStoreOnlyPackedFiles == Spec => []DealsStorePackedFiles
<1>1. Inv => DealsStorePackedFiles
  <2> SUFFICES ASSUME Inv, NEW d \in Deals, deal[d].status # "None"
               PROVE  LET c == deal[d].carFile
                      IN  /\ c \in Cars /\ source[c].files # {}
                          /\ \A u \in source[c].files :
                               /\ upload[u].status = "TaskCreated"
                               /\ u \notin FreeUploads => source[c].maxPrice <= OfferedPrice[u]
    BY DEF DealsStorePackedFiles
  <2> DEFINE c == deal[d].carFile
  <2>1. c \in Cars /\ car[c].status # "None"
    BY DEF Inv, DealInv, SentDealsAreNew
  <2>2. source[c].files # {} /\ source[c].files \subseteq Uploads
    BY <2>1 DEF Inv, PackInv, CarHasFiles, PackTypeOK, CreateTaskTypeOK
  <2>3. \A u \in source[c].files : upload[u].status = "TaskCreated"
    BY <2>1, <2>2 DEF Inv, PackInv, PackedOnce, CarsWith
  <2>4. ASSUME NEW u \in source[c].files, u \notin FreeUploads
        PROVE  source[c].maxPrice <= OfferedPrice[u]
    <3>1. ~car[c].isFree
      BY <2>1, <2>4 DEF Inv, PackInv, CarChargedOrFree
    <3>2. source[c].maxPrice <= GetMaxPrice(u)
      BY <2>1, <2>4, <3>1 DEF Inv, PackInv, CarPriceIsPaidFor
    <3>3. u \in Uploads /\ source[c].maxPrice \in Nat
      BY <2>1, <2>2, <2>4 DEF Inv, PackInv, PackTypeOK, CreateTaskTypeOK
    <3> QED BY <3>2, <3>3 DEF GetMaxPrice
  <2> QED BY <2>1, <2>2, <2>3, <2>4
<1> QED BY <1>1, Invariance, PTL
=============================================================================
