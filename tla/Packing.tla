------------------------------ MODULE Packing -------------------------------
(***************************************************************************)
(* The packing side of the scheduler: CreateTask with uploads and payments *)
(* arriving, crashes, time, and a deal side that takes cars on.            *)
(***************************************************************************)
EXTENDS CreateTask

packVars == <<now, car, packTables, createJob>>

PackTypeOK == TablesTypeOK /\ CreateTaskTypeOK

PackInit == TablesInit /\ CreateTaskInit

\* The deal side sends a new car's deals, fails to, or gives up.
CarTakenOn ==
  /\ \E c \in Cars, status \in {"DealSent", "DealSentFailed", "DealSentExpired"} :
       /\ car[c].status = "TaskCreated"
       /\ car' = [car EXCEPT ![c].status = status]
  /\ UNCHANGED <<packTables, createJob>>

\* The steps of a process that stays up.
PackRun ==
  \/ /\ \/ CreateTaskStep
        \/ Arrivals
        \/ CarTakenOn
     /\ UNCHANGED now
  \/ Tick /\ UNCHANGED <<car, packTables, createJob>>

PackNext == PackRun \/ (RestartCreateTask /\ UNCHANGED now)

PackSpec == PackInit /\ [][PackNext]_packVars

-----------------------------------------------------------------------------
CarsWith(u) == {c \in Cars : u \in source[c].files}

\* saveCarInfo2DB writes a car and the status of its uploads together, so that no
\* crash, failed commit or repeated loop of the job packs a file twice, or marks it
\* packed without a car: an upload is TaskCreated exactly when one car has it.
PackedOnce ==
  \A u \in Uploads :
    /\ upload[u].status = "TaskCreated" => CarsWith(u) # {}
    /\ upload[u].status # "TaskCreated" => CarsWith(u) = {}
    /\ \A c1, c2 \in CarsWith(u) : c1 = c2

\* A car row refers to the Swan task made of exactly its files, and no two cars
\* to the same task, although failures leave tasks behind that no car refers to.
CarHasItsTask ==
  \A c \in Cars : car[c].status # "None" =>
    /\ source[c].task \in TaskIds
    /\ tasks[source[c].task] = source[c].files
    /\ \A b \in Cars \ {c} : source[b].task # source[c].task

\* README "Work Process" 4: the max price of a car is what the poorest of its charged
\* files pays for.  The loop lowers it file by file, leaves files out whose copies it
\* does not get, and breaks off; still no file in the car pays less, and no file that
\* was left out has made it lower.
CarPriceIsPaidFor ==
  \A c \in Cars : car[c].status # "None" =>
    IF car[c].isFree THEN source[c].maxPrice = MaxPrice
    ELSE /\ \A u \in source[c].files : source[c].maxPrice <= GetMaxPrice(u)
         /\ \E u \in source[c].files : source[c].maxPrice = GetMaxPrice(u)

\* Charged and free files never share a car, and is_free tells which they are.
CarChargedOrFree ==
  \A c \in Cars : IF car[c].isFree THEN source[c].files \subseteq FreeUploads
                  ELSE source[c].files \cap FreeUploads = {}

FileBytes(B) == MapThenSumSet(LAMBDA u : Size[u], B)
PassedOneDay(B) == \E u \in B : now - upload[u].createAt >= SecondPerDay

\* README "Work Process" 4.2: a car is created only when its files reach the minimum
\* size or its earliest file is a day old; the code adds (create_task.go:144) that
\* charged files may be full by number.  This still holds at the commit, whatever
\* copies were lost since the merge.
CarWorthCreating ==
  [][\A c \in Cars : car[c].status = "None" /\ car'[c].status # "None" =>
       LET B == source'[c].files
       IN  /\ B # {}
           /\ \/ FileBytes(B) >= MinFileSize
              \/ PassedOneDay(B)
              \/ ~car'[c].isFree /\ Cardinality(B) >= MaxFileNumPerCar]_packVars

-----------------------------------------------------------------------------
(***************************************************************************)
(* From some time on the process stays up; then the goroutine keeps taking *)
(* steps and time passes.  What the loop tries again (a download, the Swan *)
(* platform, the commit) does not fail every time.                         *)
(***************************************************************************)
PackStep(A) == A /\ UNCHANGED now

PackFairness ==
  /\ <>[][PackRun]_packVars
  /\ WF_packVars(PackStep(CreateTaskStep))
  /\ WF_packVars(Tick /\ UNCHANGED <<car, packTables, createJob>>)
  /\ \A u \in FreeUploads : SF_packVars(PackStep(DownloadFile(u)))
  /\ SF_packVars(PackStep(\E t \in TaskIds : CreateSwanTask(t)))
  /\ SF_packVars(PackStep(\E c \in Cars : SaveCarInfo2DB(c)))

FairPackSpec == PackSpec /\ PackFairness

\* A free file ends up in a car, even when the charged files before it run into
\* errors, and even when it has to be downloaded.
FreeFilesArePacked ==
  \A u \in FreeUploads : (upload[u].status = "Free") ~> (upload[u].status = "TaskCreated")

\* So does a paid file, as long as the charged files are still on the disk.
PaidFilesArePacked ==
  \A u \in Uploads :
    (upload[u].status = "Paid")
      ~> \/ upload[u].status = "TaskCreated"
         \/ \E v \in Uploads \ FreeUploads : upload[v].status = "Paid" /\ v \notin local

=============================================================================
