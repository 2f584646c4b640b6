----------------------------- MODULE CreateTask -----------------------------
(***************************************************************************)
(* service/scheduler/create_task.go: the job that merges source files into *)
(* car files and creates a task on the Swan platform for each.  One run of *)
(* the job drains the charged uploads, then the free ones; after an error  *)
(* it tries the same phase again.                                          *)
(*                                                                         *)
(* Sizes and prices are small naturals.  An upload's price is what its     *)
(* locked fee pays for at the exchange rate of the moment.  Two uploads of *)
(* one source file are two rows of the query, each counted with its size.  *)
(***************************************************************************)
EXTENDS McsTables, FiniteSetsExt

CONSTANTS
  Uploads,          \* ids of source_file_upload rows
  FreeUploads,      \* those stored under the wallet's free quota
  Size,             \* file_size of each upload's source file
  OfferedPrice,     \* the price its locked fee pays for
  TaskIds,          \* uuids of Swan tasks
  MinFileSize,      \* [swan_task].min_file_size
  MaxFileNumPerCar, \* [swan_task].max_file_num_per_car
  MaxPrice,         \* [swan_task].max_price
  SecondPerDay      \* constants.SECOND_PER_DAY, in ticks

ASSUME UploadsAssumption ==
  /\ IsFiniteSet(Uploads)
  /\ FreeUploads \subseteq Uploads
  /\ Size \in [Uploads -> Nat]
  /\ OfferedPrice \in [Uploads -> Nat]
  /\ Null \notin TaskIds
ASSUME SwanTaskAssumption ==
  /\ MinFileSize \in Nat \ {0} /\ MaxFileNumPerCar \in Nat \ {0}
  /\ MaxPrice \in Nat /\ SecondPerDay \in Nat \ {0}
  /\ Null \notin Nat

VARIABLES
  upload,           \* upload[u]: status and create_at of a source_file_upload row
  local,            \* uploads whose source_file.resource_uri is still on this disk
  source,           \* source[c]: car_file_source rows, max_price and task_uuid of a car
  tasks,            \* tasks[t]: the files of task t on the Swan platform
  createJob         \* the running job

packTables == <<upload, local, source, tasks>>

UploadStatus == {"None", "Pending", "Paid", "Free", "TaskCreated", "Refundable"}

\* The loop over the rows keeps what it has merged (batch), totalSize, maxPrice, the
\* earliest create_at (oldest) and the clock it read before (at); todo are the rows it
\* has not looked at.
CreateJob ==
  [pc : {"idle", "select", "copy", "task", "save"}, free : BOOLEAN,
   todo : SUBSET Uploads, batch : SUBSET Uploads, size : Nat, price : Nat \cup {Null},
   oldest : Nat, at : Nat, task : TaskIds \cup {Null}]
CreateIdle ==
  [pc |-> "idle", free |-> FALSE, todo |-> {}, batch |-> {}, size |-> 0, price |-> Null,
   oldest |-> 0, at |-> 0, task |-> Null]

CreateTaskTypeOK ==
  /\ upload \in [Uploads -> [status : UploadStatus, createAt : Nat]]
  /\ local \subseteq Uploads
  /\ source \in [Cars -> [files : SUBSET Uploads, maxPrice : Nat, task : TaskIds \cup {Null}]]
  /\ tasks \in [TaskIds -> SUBSET Uploads]
  /\ createJob \in CreateJob

CreateTaskInit ==
  /\ upload = [u \in Uploads |-> [status |-> "None", createAt |-> 0]]
  /\ local = {}
  /\ source = [c \in Cars |-> [files |-> {}, maxPrice |-> 0, task |-> Null]]
  /\ tasks = [t \in TaskIds |-> {}]
  /\ createJob = CreateIdle

-----------------------------------------------------------------------------
GetSourceFileUploadsNeed2Car == {u \in Uploads : upload[u].status = "Paid"}
GetFreeSourceFileUploadsNeed2Car ==
  {u \in Uploads : upload[u].status = "Free" /\ u \in FreeUploads}
Ready(free) ==
  IF free THEN GetFreeSourceFileUploadsNeed2Car ELSE GetSourceFileUploadsNeed2Car

\* What an upload can pay, never more than the configured price.
GetMaxPrice(u) == IF OfferedPrice[u] > MaxPrice THEN MaxPrice ELSE OfferedPrice[u]

\* Mutant: the highest price instead of the lowest.
LowerPrice_Higher(maxPrice, u) ==
  IF maxPrice = Null THEN GetMaxPrice(u)
  ELSE IF maxPrice < GetMaxPrice(u) THEN GetMaxPrice(u) ELSE maxPrice

\* maxPrice after one more charged file; nil before the first.
LowerPrice(maxPrice, u) ==
  IF maxPrice = Null THEN GetMaxPrice(u)
  ELSE IF maxPrice > GetMaxPrice(u) THEN GetMaxPrice(u) ELSE maxPrice

\* The loop's break.
Full(job) ==
  \/ job.size >= MinFileSize
  \/ ~job.free /\ Cardinality(job.batch) >= MaxFileNumPerCar

\* Mutant: no car before it is full.
CreateAnyway_Full(job) == Full(job)

\* Mutant: one file short of a full car will do.
CreateAnyway_OneShort(job) ==
  \/ job.at - job.oldest >= SecondPerDay \/ Full(job)
  \/ ~job.free /\ Cardinality(job.batch) + 1 >= MaxFileNumPerCar

CreateAnyway(job) == job.at - job.oldest >= SecondPerDay \/ Full(job)
Packable(job) == job.size # 0 /\ CreateAnyway(job)

-----------------------------------------------------------------------------
StartCreateTask ==
  /\ createJob.pc = "idle"
  /\ createJob' = [CreateIdle EXCEPT !.pc = "select"]
  /\ UNCHANGED <<car, packTables>>

\* The rows and the clock, read once.  An error here leads back to where the job is.
ReadUploads ==
  /\ createJob.pc = "select"
  /\ createJob' = [createJob EXCEPT !.pc = "copy", !.todo = Ready(createJob.free),
                                    !.oldest = now, !.at = now]
  /\ UNCHANGED <<car, packTables>>

Loop(u) == createJob.pc = "copy" /\ u \in createJob.todo

\* File u, copied or downloaded, joins the batch, which may now be full.
MergeFile(u, bytesCopied) ==
  LET merged == [createJob EXCEPT
        !.todo = @ \ {u},
        !.batch = @ \cup {u},
        !.size = @ + bytesCopied,
        !.price = IF createJob.free THEN Null ELSE LowerPrice(@, u),
        !.oldest = IF upload[u].createAt < @ THEN upload[u].createAt ELSE @]
  IN  /\ createJob' = IF Full(merged) THEN [merged EXCEPT !.todo = {}] ELSE merged
      /\ UNCHANGED <<car, packTables>>

CopyFile(u) == Loop(u) /\ u \in local /\ MergeFile(u, Size[u])

\* Mutant: a downloaded free file adds nothing either.
DownloadFile_NoSize(u) == Loop(u) /\ u \notin local /\ MergeFile(u, 0)

\* A charged file that had to be downloaded adds nothing to totalSize: there only the
\* copy from disk sets bytesCopied.
DownloadFile(u) ==
  Loop(u) /\ u \notin local /\ MergeFile(u, IF createJob.free THEN Size[u] ELSE 0)

\* Mutant: the price is lowered before the file is there.
SkipFile_Priced(u) ==
  /\ Loop(u) /\ u \notin local
  /\ createJob' = [createJob EXCEPT !.todo = @ \ {u},
                                    !.price = IF createJob.free THEN Null ELSE LowerPrice(@, u)]
  /\ UNCHANGED <<car, packTables>>

\* Neither on the disk nor to be had from IPFS.
SkipFile(u) ==
  /\ Loop(u) /\ u \notin local
  /\ createJob' = [createJob EXCEPT !.todo = @ \ {u}]
  /\ UNCHANGED <<car, packTables>>

EndOfLoop == createJob.pc = "copy" /\ createJob.todo = {}

\* Nothing to pack, or too little so far: on to the free files, then to sleep.
NothingToPack ==
  /\ EndOfLoop /\ ~Packable(createJob)
  /\ createJob' = IF createJob.free THEN CreateIdle
                  ELSE [CreateIdle EXCEPT !.pc = "select", !.free = TRUE]
  /\ UNCHANGED <<car, packTables>>

\* A car of free files has the configured price.
PackBatch ==
  /\ EndOfLoop /\ Packable(createJob)
  /\ createJob' = [CreateIdle EXCEPT
       !.pc = "task", !.free = createJob.free, !.batch = createJob.batch,
       !.price = IF createJob.free THEN MaxPrice ELSE createJob.price]
  /\ UNCHANGED <<car, packTables>>

\* Both loops of CreateTask run the same phase again, after success and after an
\* error alike.
Again == createJob' = [CreateIdle EXCEPT !.pc = "select", !.free = createJob.free]

\* createTask4SrcFiles: car file, upload to IPFS, task on the Swan platform.  The
\* uuid is one no car refers to; a task left behind by a failure keeps no other
\* task from being created.
CreateSwanTask(t) ==
  /\ createJob.pc = "task"
  /\ \A c \in Cars : source[c].task # t
  /\ tasks' = [tasks EXCEPT ![t] = createJob.batch]
  /\ createJob' = [createJob EXCEPT !.pc = "save", !.task = t]
  /\ UNCHANGED <<car, upload, local, source>>

\* Mutant: the error of createTask4SrcFiles is dropped.
CreateSwanTaskFails_Ignored ==
  /\ createJob.pc = "task"
  /\ createJob' = [createJob EXCEPT !.pc = "save"]
  /\ UNCHANGED <<car, packTables>>

CreateSwanTaskFails ==
  /\ createJob.pc = "task"
  /\ Again
  /\ UNCHANGED <<car, packTables>>

\* Mutant: the car is as old as its earliest file.
SaveCarInfo2DB_FileTime(c) ==
  /\ createJob.pc = "save"
  /\ car[c].status = "None"
  /\ \E first \in createJob.batch :
       /\ \A u \in createJob.batch : upload[first].createAt <= upload[u].createAt
       /\ car' = [car EXCEPT ![c] = [status |-> "TaskCreated", isFree |-> createJob.free,
                                     createAt |-> upload[first].createAt]]
  /\ source' = [source EXCEPT ![c] = [files |-> createJob.batch,
                                      maxPrice |-> createJob.price,
                                      task |-> createJob.task]]
  /\ upload' = [u \in Uploads |-> IF u \in createJob.batch
                                  THEN [upload[u] EXCEPT !.status = "TaskCreated"]
                                  ELSE upload[u]]
  /\ Again
  /\ UNCHANGED <<local, tasks>>

\* saveCarInfo2DB: the car_file row, its car_file_source rows and the status of
\* the uploads, in one transaction.  An acknowledgement lost on the way back ends
\* the same way, since the job loops again on success too.
SaveCarInfo2DB(c) ==
  /\ createJob.pc = "save"
  /\ InsertCar(c, createJob.free)
  /\ source' = [source EXCEPT ![c] = [files |-> createJob.batch,
                                      maxPrice |-> createJob.price,
                                      task |-> createJob.task]]
  /\ upload' = [u \in Uploads |-> IF u \in createJob.batch
                                  THEN [upload[u] EXCEPT !.status = "TaskCreated"]
                                  ELSE upload[u]]
  /\ Again
  /\ UNCHANGED <<local, tasks>>

\* Mutant: no transaction, an error at the first upload leaves the car behind.
SaveCarInfo2DBFails_NoRollback ==
  /\ createJob.pc = "save"
  /\ \E c \in Cars :
       /\ InsertCar(c, createJob.free)
       /\ source' = [source EXCEPT ![c] = [files |-> createJob.batch,
                                           maxPrice |-> createJob.price,
                                           task |-> createJob.task]]
  /\ Again
  /\ UNCHANGED <<upload, local, tasks>>

SaveCarInfo2DBFails ==
  /\ createJob.pc = "save"
  /\ Again
  /\ UNCHANGED <<car, packTables>>

CreateTaskStep ==
  \/ StartCreateTask
  \/ ReadUploads
  \/ \E u \in Uploads : CopyFile(u) \/ DownloadFile(u) \/ SkipFile(u)
  \/ NothingToPack
  \/ PackBatch
  \/ \E t \in TaskIds : CreateSwanTask(t)
  \/ CreateSwanTaskFails
  \/ \E c \in Cars : SaveCarInfo2DB(c)
  \/ SaveCarInfo2DBFails

-----------------------------------------------------------------------------
\* What the job does not decide.

\* service/storage.go stored a file; a charged one waits for its payment.  Bound:
\* files arrive while the clock can still make them a day old.
UploadFile(u) ==
  /\ upload[u].status = "None"
  /\ now + SecondPerDay <= MaxNow
  /\ upload' = [upload EXCEPT ![u] =
       [status |-> IF u \in FreeUploads THEN "Free" ELSE "Pending", createAt |-> now]]
  /\ local' \in {local, local \cup {u}}
  /\ UNCHANGED <<car, source, tasks, createJob>>

\* The payment scanner, outside this repository, writes the transaction row.
Pay(u) ==
  /\ upload[u].status = "Pending"
  /\ upload' = [upload EXCEPT ![u].status = "Paid"]
  /\ UNCHANGED <<car, local, source, tasks, createJob>>

\* A file disappears from the disk, IPFS still serving it, or comes back with
\* another upload of the same file.
CopiesChange(u) ==
  /\ upload[u].status # "None"
  /\ local' = IF u \in local THEN local \ {u} ELSE local \cup {u}
  /\ UNCHANGED <<car, upload, source, tasks, createJob>>

Arrivals == \E u \in Uploads : UploadFile(u) \/ Pay(u) \/ CopiesChange(u)

\* The process dies and InitScheduler runs again: only the tables survive.
RestartCreateTask == createJob' = CreateIdle /\ UNCHANGED <<car, packTables>>
=============================================================================
