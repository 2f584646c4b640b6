--------------------------- MODULE StorageService ---------------------------
(***************************************************************************)
(* service/storage.go: SaveFile and UnpinSourceFile, as many requests at   *)
(* once as HTTP clients send.  A request is a goroutine; only the choice   *)
(* of a file name and the copy to it happen under a lock.  Files live in   *)
(* three places that no transaction ties together: the source directory,   *)
(* the IPFS server and the tables source_file and source_file_upload.      *)
(*                                                                         *)
(* A file's content is its payload CID, and every upload has the same file *)
(* name, the case in which names clash.  An upload that answers has        *)
(* pc "ok" (the router's success response) or "error".                     *)
(***************************************************************************)
EXTENDS Integers, FiniteSetsExt

CONSTANTS
  Calls,        \* upload requests; also the id of the row each one inserts
  Unpins,       \* unpin requests
  Payloads,     \* payload CIDs
  Payload,      \* Payload[c]: of the file that c uploads
  Wallet,       \* Wallet[c]: who uploads it
  Size,         \* Size[p]: bytes of a payload
  FreeSize,     \* constants.FREE_SIZE_PER_WALLET_MONTH, for the month of the model
  Null

\* The file name, then the file name with _0, _1, ...: no call leaves more than a file.
Paths == 0..(Cardinality(Calls) - 1)

PinStatus == {"Pinned", "Unpinned"}
SourceRow == [uri : Paths, pin : PinStatus]

ASSUME StorageAssumption ==
  /\ IsFiniteSet(Calls) /\ Calls # {}
  /\ Payload \in [Calls -> Payloads] /\ Null \notin Payloads
  /\ Size \in [Payloads -> Nat] /\ FreeSize \in Nat
  /\ Null \notin Calls /\ Null \notin SourceRow

VARIABLES
  disk,         \* disk[path]: the payload of the file there
  mutex,        \* uploadMutext: the call that holds it
  pins,         \* payloads the IPFS server pins
  sourceFile,   \* sourceFile[p]: resource_uri and pin_status of the row of payload p
  upload,       \* upload[c]: pin_status and is_free of a source_file_upload row
  call,         \* the running SaveFile calls
  unpin,        \* the running UnpinSourceFile calls
  cid,          \* cid[c]: the payload of request c, and of its upload: that of the file it
                \* was sent until IPFS has been given the file that is at its path
  vacated       \* history: paths from which a file has gone

store == <<disk, pins, sourceFile, upload, cid, vacated>>
storageVars == <<store, mutex, call, unpin>>

Torn == "torn"        \* what a failed copy leaves at a path
SavePc == {"start", "choose", "save", "add", "lookup", "create", "check", "repoint",
           "keep", "drop", "usage", "record", "ok", "error"}
UnpinPc == {"start", "list", "rm", "mark", "done", "error"}

SaveCall == [pc : SavePc, path : Paths, row : SourceRow \cup {Null}, free : BOOLEAN]
UnpinCall == [pc : UnpinPc, target : Calls \cup {Null}, older : SUBSET Calls]
UploadRow == [pin : PinStatus \cup {"None"}, free : BOOLEAN]

StorageTypeOK ==
  /\ disk \in [Paths -> Payloads \cup {Torn, Null}]
  /\ mutex \in Calls \cup {Null}
  /\ pins \subseteq Payloads
  /\ sourceFile \in [Payloads -> SourceRow \cup {Null}]
  /\ upload \in [Calls -> UploadRow]
  /\ cid \in [Calls -> Payloads]
  /\ call \in [Calls -> SaveCall]
  /\ unpin \in [Unpins -> UnpinCall]
  /\ vacated \subseteq Paths

At(pc) == [pc |-> pc, path |-> 0, row |-> Null, free |-> FALSE]

StorageInit ==
  /\ disk = [path \in Paths |-> Null]
  /\ mutex = Null
  /\ pins = {}
  /\ sourceFile = [p \in Payloads |-> Null]
  /\ upload = [c \in Calls |-> [pin |-> "None", free |-> FALSE]]
  /\ cid = Payload
  /\ call = [c \in Calls |-> At("start")]
  /\ unpin = [k \in Unpins |-> [pc |-> "start", target |-> Null, older |-> {}]]
  /\ vacated = {}

-----------------------------------------------------------------------------
(* SaveFile *)

Recorded(p) == {c \in Calls : cid[c] = p /\ upload[c].pin # "None"}
SameFile(c) == {d \in Calls : cid[d] = cid[c]}

Goto(c, pc) == call' = [call EXCEPT ![c].pc = pc]
Answer(c, pc) == call' = [call EXCEPT ![c] = At(pc)]
Fail(c) == Answer(c, "error")

\* Mutant: no lock.
LockUpload_NoLock(c) ==
  /\ call[c].pc = "start"
  /\ mutex' = c
  /\ Goto(c, "choose")
  /\ UNCHANGED <<store, unpin>>

\* GetWalletByAddress, without which nothing begins, then uploadMutext.Lock().
LockUpload(c) ==
  /\ call[c].pc = "start"
  /\ mutex = Null
  /\ mutex' = c
  /\ Goto(c, "choose")
  /\ UNCHANGED <<store, unpin>>

\* Mutant: the plain name, whatever is there.
ChooseFilename_Plain(c) ==
  /\ call[c].pc = "choose"
  /\ call' = [call EXCEPT ![c].pc = "save", ![c].path = 0]
  /\ UNCHANGED <<store, mutex, unpin>>

\* The plain name if it is free, else the first free number.
ChooseFilename(c) ==
  /\ call[c].pc = "choose"
  /\ \E path \in Paths :
       /\ disk[path] = Null
       /\ \A before \in 0..(path - 1) : disk[before] # Null
       /\ call' = [call EXCEPT ![c].pc = "save", ![c].path = path]
  /\ UNCHANGED <<store, mutex, unpin>>

\* SaveUploadedFile and the unlock after it.
SaveUploadedFile(c) ==
  /\ call[c].pc = "save"
  /\ mutex' = Null
  /\ \/ /\ disk' = [disk EXCEPT ![call[c].path] = Payload[c]]
        /\ Goto(c, "add")
     \/ /\ \E left \in {Torn, Null} : disk' = [disk EXCEPT ![call[c].path] = left]
        /\ Fail(c)
  /\ UNCHANGED <<pins, sourceFile, upload, cid, vacated, unpin>>

\* IPFS adds and pins the file, an answer may be lost.  What is sent is the file at the
\* path, which is another one if the request's own has gone and its name was given
\* away.  A torn copy is a payload of its own: that IPFS takes one is left out.
IpfsUploadFile(c) ==
  /\ call[c].pc = "add"
  /\ \/ \E p \in Payloads :
          /\ disk[call[c].path] = p
          /\ cid' = [cid EXCEPT ![c] = p]
          /\ \/ pins' = pins \cup {p} /\ Goto(c, "lookup")
             \/ pins' \in {pins, pins \cup {p}} /\ Fail(c)
     \/ /\ disk[call[c].path] \notin Payloads
        /\ Fail(c)
        /\ UNCHANGED <<cid, pins>>
  /\ UNCHANGED <<disk, sourceFile, upload, vacated, mutex, unpin>>

GetSourceFileByPayloadCid(c) ==
  /\ call[c].pc = "lookup"
  /\ \/ call' = [call EXCEPT
          ![c].pc = IF sourceFile[cid[c]] = Null THEN "create" ELSE "check",
          ![c].row = sourceFile[cid[c]]]
     \/ Fail(c)
  /\ UNCHANGED <<store, mutex, unpin>>

\* un_source_file_resource_uri
UriFree(p, uri) == \A q \in Payloads \ {p} : sourceFile[q] # Null => sourceFile[q].uri # uri

\* os.Remove(srcFilepath)
RemoveOwnFile(c) ==
  /\ disk[call[c].path] # Null
  /\ disk' = [disk EXCEPT ![call[c].path] = Null]
  /\ vacated' = vacated \cup {call[c].path}

\* The removal after a failed insert.  Its own result replaces the
\* insert's error: a removal that works answers success.
RemoveAndAnswer(c) ==
  \/ RemoveOwnFile(c) /\ Answer(c, "ok")
  \/ Fail(c) /\ UNCHANGED <<disk, vacated>>

CreateSourceFile(c) ==
  /\ call[c].pc = "create"
  /\ \/ /\ sourceFile[cid[c]] = Null /\ UriFree(cid[c], call[c].path)
        /\ sourceFile' = [sourceFile EXCEPT
             ![cid[c]] = [uri |-> call[c].path, pin |-> "Pinned"]]
        /\ Goto(c, "usage")
        /\ UNCHANGED <<disk, vacated>>
     \/ RemoveAndAnswer(c) /\ UNCHANGED sourceFile
  /\ UNCHANGED <<pins, upload, cid, mutex, unpin>>

IsFileExistsFullPath(c) ==
  /\ call[c].pc = "check"
  /\ Goto(c, IF disk[call[c].row.uri] = Null THEN "repoint" ELSE "keep")
  /\ UNCHANGED <<store, mutex, unpin>>

\* SaveOne(sourceFile): the whole row as it was looked up, with this uri, pinned.
SaveSourceFile(c, uri, next) ==
  /\ \/ /\ UriFree(cid[c], uri)
        /\ sourceFile' = [sourceFile EXCEPT ![cid[c]] = [uri |-> uri, pin |-> "Pinned"]]
        /\ Goto(c, next)
     \/ Fail(c) /\ UNCHANGED sourceFile
  /\ UNCHANGED <<disk, pins, upload, cid, vacated, mutex, unpin>>

RepointSourceFile(c) ==
  /\ call[c].pc = "repoint"
  /\ SaveSourceFile(c, call[c].path, "usage")

KeepSourceFile(c) ==
  /\ call[c].pc = "keep"
  /\ SaveSourceFile(c, call[c].row.uri, IF call[c].row.uri # call[c].path THEN "drop" ELSE "usage")

\* The current copy is removed; the row keeps the one it had.
RemoveCurrentCopy(c) ==
  /\ call[c].pc = "drop"
  /\ \/ RemoveOwnFile(c) /\ Goto(c, "usage")
     \/ Fail(c) /\ UNCHANGED <<disk, vacated>>
  /\ UNCHANGED <<pins, sourceFile, upload, cid, mutex, unpin>>

FreeUsage(w) ==
  MapThenSumSet(LAMBDA c : Size[cid[c]], {c \in Calls : Wallet[c] = w /\ upload[c].free})

\* Every upload is of file type normal: the metadata of a mint, which is never free,
\* is left out.
GetSourceFileUploadFreeUsage(c) ==
  /\ call[c].pc = "usage"
  /\ \/ call' = [call EXCEPT ![c].pc = "record",
          ![c].free = FreeSize - FreeUsage(Wallet[c]) >= Size[Payload[c]]]
     \/ Fail(c)
  /\ UNCHANGED <<store, mutex, unpin>>

\* Mutant: the row gets no pin status.
CreateSourceFileUpload_NoPin(c) ==
  /\ call[c].pc = "record"
  /\ upload' = [upload EXCEPT ![c] = [pin |-> "", free |-> call[c].free]]
  /\ Answer(c, "ok")
  /\ UNCHANGED <<disk, cid, vacated, pins, sourceFile, mutex, unpin>>

CreateSourceFileUpload(c) ==
  /\ call[c].pc = "record"
  /\ \/ /\ upload' = [upload EXCEPT ![c] = [pin |-> "Pinned", free |-> call[c].free]]
        /\ Answer(c, "ok")
        /\ UNCHANGED <<disk, vacated>>
     \/ RemoveAndAnswer(c) /\ UNCHANGED upload
  /\ UNCHANGED <<pins, sourceFile, cid, mutex, unpin>>

SaveFile(c) ==
  \/ LockUpload(c) \/ ChooseFilename(c) \/ SaveUploadedFile(c)
  \/ IpfsUploadFile(c) \/ GetSourceFileByPayloadCid(c) \/ CreateSourceFile(c)
  \/ IsFileExistsFullPath(c) \/ RepointSourceFile(c) \/ KeepSourceFile(c)
  \/ RemoveCurrentCopy(c) \/ GetSourceFileUploadFreeUsage(c) \/ CreateSourceFileUpload(c)

-----------------------------------------------------------------------------
(* UnpinSourceFile *)

UnpinGoto(k, pc) == unpin' = [unpin EXCEPT ![k].pc = pc]

\* Clients know the ids of recorded uploads.  older is history: the uploads there
\* were when the call began.
UpdateSourceFileUploadPinStatus(k) ==
  /\ unpin[k].pc = "start"
  /\ \E c \in Calls :
       /\ upload[c].pin # "None"
       /\ upload' = [upload EXCEPT ![c].pin = "Unpinned"]
       /\ unpin' = [unpin EXCEPT ![k] = [pc |-> "list", target |-> c,
                                         older |-> Recorded(cid[c])]]
  /\ UNCHANGED <<disk, pins, sourceFile, cid, vacated, mutex, call>>

\* Mutant: only the upload of the request is asked about, not those of its file.
GetSourceFileUploadsPinned_ThisUpload(k) ==
  /\ unpin[k].pc = "list"
  /\ UnpinGoto(k, IF upload[unpin[k].target].pin = "Pinned" THEN "done" ELSE "rm")
  /\ UNCHANGED <<store, mutex, call>>

\* Mutant: the query forgets the pin status.
GetSourceFileUploadsPinned_AnyStatus(k) ==
  /\ unpin[k].pc = "list"
  /\ UnpinGoto(k, IF Recorded(cid[unpin[k].target]) \ {unpin[k].target} # {}
                  THEN "done" ELSE "rm")
  /\ UNCHANGED <<store, mutex, call>>

\* The reads of the two rows, whose fields here never change, and of the uploads
\* that are still pinned.
GetSourceFileUploadsPinned(k) ==
  /\ unpin[k].pc = "list"
  /\ \/ UnpinGoto(k, IF \E c \in SameFile(unpin[k].target) : upload[c].pin = "Pinned"
                     THEN "done" ELSE "rm")
     \/ UnpinGoto(k, "error")
  /\ UNCHANGED <<store, mutex, call>>

\* The server refuses to unpin what is not pinned; an answer may be lost.
IpfsPinRm(k) ==
  LET p == cid[unpin[k].target]
  IN  /\ unpin[k].pc = "rm"
      /\ \/ p \in pins /\ pins' = pins \ {p} /\ UnpinGoto(k, "mark")
         \/ pins' \in {pins, pins \ {p}} /\ UnpinGoto(k, "error")
      /\ UNCHANGED <<disk, sourceFile, upload, cid, vacated, mutex, call>>

UpdateSourceFilePinStatus(k) ==
  LET p == cid[unpin[k].target]
  IN  /\ unpin[k].pc = "mark"
      /\ \/ sourceFile' = [sourceFile EXCEPT ![p].pin = "Unpinned"] /\ UnpinGoto(k, "done")
         \/ UnpinGoto(k, "error") /\ UNCHANGED sourceFile
      /\ UNCHANGED <<disk, pins, upload, cid, vacated, mutex, call>>

UnpinSourceFile(k) ==
  \/ UpdateSourceFileUploadPinStatus(k) \/ GetSourceFileUploadsPinned(k)
  \/ IpfsPinRm(k) \/ UpdateSourceFilePinStatus(k)

-----------------------------------------------------------------------------
\* A copy disappears from the disk, which SaveFile and CreateTask allow for.
LoseCopy ==
  /\ \E path \in Paths :
       /\ disk[path] # Null
       /\ disk' = [disk EXCEPT ![path] = Null]
       /\ vacated' = vacated \cup {path}
  /\ UNCHANGED <<pins, sourceFile, upload, cid, mutex, call, unpin>>

\* The process dies: requests in flight get no answer.
Restart ==
  /\ mutex' = Null
  /\ call' = [c \in Calls |-> IF call[c].pc \in {"start", "ok"} THEN call[c]
                              ELSE At("error")]
  /\ unpin' = [k \in Unpins |-> IF unpin[k].pc \in {"start", "done"} THEN unpin[k]
                                ELSE [unpin[k] EXCEPT !.pc = "error"]]
  /\ UNCHANGED store

StorageNext ==
  \/ \E c \in Calls : SaveFile(c)
  \/ \E k \in Unpins : UnpinSourceFile(k)
  \/ LoseCopy
  \/ Restart

StorageSpec == StorageInit /\ [][StorageNext]_storageVars

-----------------------------------------------------------------------------
\* uploadMutext covers the choice of a name and the copy to it, so that of two
\* uploads with one name neither overwrites the other's file.
NoOverwrite ==
  [][\A path \in Paths : disk[path] # Null => disk'[path] \in {disk[path], Null}]_storageVars

\* A source_file row that refers to a path from which nothing was ever removed
\* refers to a copy of its own payload, however many uploads of the same file and
\* of other files with the same name compete.
CopyIsItsPayload ==
  \A p \in Payloads :
    sourceFile[p] # Null /\ sourceFile[p].uri \notin vacated => disk[sourceFile[p].uri] = p

\* IPFS gives up a payload only when every upload of it that was recorded before
\* some unpin request began has been unpinned.
UnpinSparesOlder ==
  [][\A p \in pins \ pins' :
       \E k \in Unpins :
         /\ unpin[k].pc = "rm" /\ cid[unpin[k].target] = p
         /\ \A c \in unpin[k].older : upload[c].pin = "Unpinned"]_storageVars

\* The requests that have turned to IPFS with the payload are over, and each did its work.
BeforeAdd == {"start", "choose", "save", "add"}
Settled(p) ==
  /\ \A c \in Calls : cid[c] = p =>
       call[c].pc \in BeforeAdd \/ (call[c].pc = "ok" /\ upload[c].pin # "None")
  /\ \A k \in Unpins : unpin[k].target # Null /\ cid[unpin[k].target] = p => unpin[k].pc = "done"

\* Of several unpin requests at once for uploads of one file, the last one releases
\* it: nothing stays pinned that no upload wants pinned.
LastUnpinReleases ==
  \A p \in Payloads :
    Settled(p) /\ Recorded(p) # {} /\ (\A c \in Recorded(p) : upload[c].pin = "Unpinned")
      => p \notin pins /\ sourceFile[p].pin = "Unpinned"

\* Every path of SaveFile, the failed copy included, gives the lock back.
LockIsHeldToSave == mutex # Null => call[mutex].pc \in {"choose", "save"}

\* README.md:32: "WID is generated after you upload a file by calling upload file
\* API"; the WID is the uuid of the upload's row and the payload CID.
SuccessHasWid == \A c \in Calls : call[c].pc = "ok" => upload[c].pin # "None"
=============================================================================
