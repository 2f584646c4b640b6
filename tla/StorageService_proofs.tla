----------------------- MODULE StorageService_proofs ------------------------
(***************************************************************************)
(* Proofs about StorageService.  StorageTypeOK is not inductive alone: a   *)
(* row must exist before its pin status is updated.  The claims about the  *)
(* copies need to know what the running calls still hold; those about the  *)
(* pins, what the running unpin requests have seen.                        *)
(***************************************************************************)
EXTENDS StorageService, FiniteSetTheorems, TLAPS

\* Calls past their lookup have a source_file row, and so has every upload; only
\* a call that is over has recorded its upload.
PastLookup == {"check", "repoint", "keep", "drop", "usage", "record"}
CallHasRow(c) ==
  /\ call[c].pc \in {"check", "repoint", "keep"} => call[c].row # Null
  /\ call[c].pc \in PastLookup => sourceFile[cid[c]] # Null
UploadHasRow(c) ==
  upload[c].pin # "None" => sourceFile[cid[c]] # Null /\ call[c].pc = "ok"
UnpinHasRow(k) ==
  /\ unpin[k].pc \in {"list", "rm", "mark"} => unpin[k].target \in Calls
  /\ unpin[k].target # Null => upload[unpin[k].target].pin # "None"

RowInv ==
  /\ StorageTypeOK
  /\ \A c \in Calls : CallHasRow(c) /\ UploadHasRow(c)
  /\ \A k \in Unpins : UnpinHasRow(k)

\* The first name is a path.
LEMMA FirstPath == 0 \in Paths
<1>1. Cardinality(Calls) \in Nat /\ Cardinality(Calls) # 0
  BY StorageAssumption, FS_CardinalityType, FS_EmptySet
<1> QED
  BY <1>1 DEF Paths

\* A request deals with a known payload.
LEMMA PayloadType == RowInv => \A c \in Calls : cid[c] \in Payloads
BY DEF RowInv, StorageTypeOK

\* What a request holds after a step that only moves on.
LEMMA GotoCall ==
  ASSUME call \in [Calls -> SaveCall], NEW c \in Calls, NEW pc \in SavePc, Goto(c, pc)
  PROVE  /\ call' \in [Calls -> SaveCall]
         /\ call'[c].pc = pc /\ call'[c].path = call[c].path
         /\ call'[c].row = call[c].row /\ call'[c].free = call[c].free
         /\ \A d \in Calls \ {c} : call'[d] = call[d]
BY DEF Goto, SaveCall

\* And after its answer.
LEMMA AnswerCall ==
  ASSUME call \in [Calls -> SaveCall], NEW c \in Calls, NEW pc \in SavePc, Answer(c, pc)
  PROVE  /\ call' \in [Calls -> SaveCall]
         /\ call'[c].pc = pc /\ call'[c].path = 0
         /\ call'[c].row = Null
         /\ \A d \in Calls \ {c} : call'[d] = call[d]
BY FirstPath DEF Answer, At, SaveCall

\* The same for an unpin request.
LEMMA GotoUnpin ==
  ASSUME unpin \in [Unpins -> UnpinCall], NEW k \in Unpins, NEW pc \in UnpinPc, UnpinGoto(k, pc)
  PROVE  /\ unpin' \in [Unpins -> UnpinCall]
         /\ unpin'[k].pc = pc /\ unpin'[k].target = unpin[k].target
         /\ unpin'[k].older = unpin[k].older
         /\ \A j \in Unpins \ {k} : unpin'[j] = unpin[j]
BY DEF UnpinGoto, UnpinCall

\* Nothing is stored at the start.
LEMMA RowInit == StorageInit => RowInv
<1> SUFFICES ASSUME StorageInit PROVE RowInv
  OBVIOUS
<1>1. call \in [Calls -> SaveCall] /\ \A c \in Calls : call[c].pc = "start"
  BY FirstPath DEF StorageInit, At, SaveCall, SavePc
<1>2. unpin \in [Unpins -> UnpinCall] /\ \A k \in Unpins : unpin[k].pc = "start"
  BY DEF StorageInit, UnpinCall, UnpinPc
<1>3. upload \in [Calls -> UploadRow] /\ \A c \in Calls : upload[c].pin = "None"
  BY DEF StorageInit, UploadRow
<1>4. StorageTypeOK
  BY <1>1, <1>2, <1>3, StorageAssumption DEF StorageInit, StorageTypeOK
<1> QED
  BY <1>1, <1>2, <1>3, <1>4
  DEF StorageInit, RowInv, CallHasRow, UploadHasRow, UnpinHasRow, PastLookup

\* A step that writes no row and moves a request c keeps types and rows if c keeps
\* them and it does not move back from its answer.
LEMMA RowsKept ==
  ASSUME RowInv, NEW c \in Calls, UNCHANGED <<sourceFile, upload, unpin>>,
         call[c].pc # "ok",
         disk' \in [Paths -> Payloads \cup {Torn, Null}], mutex' \in Calls \cup {Null},
         pins' \subseteq Payloads, vacated' \subseteq Paths, cid' \in [Calls -> Payloads],
         call' \in [Calls -> SaveCall], CallHasRow(c)',
         \A d \in Calls \ {c} : cid'[d] = cid[d],
         \A d \in Calls \ {c} : call'[d] = call[d]
  PROVE  RowInv'
<1>1. StorageTypeOK'
  BY DEF RowInv, StorageTypeOK
<1>2. ASSUME NEW d \in Calls PROVE CallHasRow(d)' /\ UploadHasRow(d)'
  BY DEF RowInv, CallHasRow, UploadHasRow
<1>3. ASSUME NEW k \in Unpins PROVE UnpinHasRow(k)'
  BY DEF RowInv, UnpinHasRow
<1> QED
  BY <1>1, <1>2, <1>3 DEF RowInv

\* A file is removed from its path only.
LEMMA RemoveTypes ==
  ASSUME RowInv, NEW c \in Calls, RemoveOwnFile(c)
  PROVE  disk' \in [Paths -> Payloads \cup {Torn, Null}] /\ vacated' \subseteq Paths
BY DEF RowInv, StorageTypeOK, RemoveOwnFile, SaveCall

\* Every step of an upload request keeps types and rows.
LEMMA SaveFileKeepsRows ==
  ASSUME RowInv, NEW c \in Calls, SaveFile(c)
  PROVE  RowInv'
<1> DEFINE DiskT == [Paths -> Payloads \cup {Torn, Null}]
<1>0. /\ cid[c] \in Payloads
      /\ disk \in DiskT /\ mutex \in Calls \cup {Null} /\ pins \subseteq Payloads
      /\ sourceFile \in [Payloads -> SourceRow \cup {Null}] /\ upload \in [Calls -> UploadRow]
      /\ call \in [Calls -> SaveCall] /\ unpin \in [Unpins -> UnpinCall] /\ vacated \subseteq Paths
      /\ cid \in [Calls -> Payloads]
      /\ call[c].path \in Paths /\ call[c].row \in SourceRow \cup {Null}
  BY PayloadType DEF RowInv, StorageTypeOK, SaveCall
<1>f. ASSUME Fail(c), call[c].pc # "ok", UNCHANGED <<sourceFile, upload, unpin, mutex>>,
             disk' \in DiskT, pins' \subseteq Payloads, vacated' \subseteq Paths,
             cid' \in [Calls -> Payloads], \A d \in Calls \ {c} : cid'[d] = cid[d]
      PROVE  RowInv'
  <2>1. /\ call' \in [Calls -> SaveCall] /\ call'[c].pc = "error"
        /\ \A d \in Calls \ {c} : call'[d] = call[d]
    BY <1>f, <1>0, AnswerCall DEF Fail, SavePc
  <2> QED
    BY <1>0, <1>f, <2>1, RowsKept DEF CallHasRow, PastLookup
<1>1. CASE LockUpload(c)
  <2>1. /\ call' \in [Calls -> SaveCall] /\ call'[c].pc = "choose"
        /\ \A d \in Calls \ {c} : call'[d] = call[d]
    BY <1>1, <1>0, GotoCall DEF LockUpload, SavePc
  <2> QED
    BY <1>1, <1>0, <2>1, RowsKept DEF LockUpload, store, CallHasRow, PastLookup
<1>2. CASE ChooseFilename(c)
  <2>1. /\ call' \in [Calls -> SaveCall] /\ call'[c].pc = "save"
        /\ \A d \in Calls \ {c} : call'[d] = call[d]
    <3>1. PICK path \in Paths : call' = [call EXCEPT ![c].pc = "save", ![c].path = path]
      BY <1>2 DEF ChooseFilename
    <3>2. call' = [call EXCEPT ![c] = [call[c] EXCEPT !.pc = "save", !.path = path]]
      BY <1>0, <3>1
    <3> QED
      BY <1>0, <3>2 DEF SaveCall, SavePc
  <2> QED
    BY <1>2, <1>0, <2>1, RowsKept DEF ChooseFilename, store, CallHasRow, PastLookup
<1>3. CASE SaveUploadedFile(c)
  <2>1. disk' \in DiskT
    BY <1>3, <1>0, StorageAssumption DEF SaveUploadedFile
  <2>2. /\ call' \in [Calls -> SaveCall] /\ call'[c].pc \in {"add", "error"}
        /\ \A d \in Calls \ {c} : call'[d] = call[d]
    BY <1>3, <1>0, GotoCall, AnswerCall DEF SaveUploadedFile, Fail, SavePc
  <2> QED
    BY <1>3, <1>0, <2>1, <2>2, RowsKept DEF SaveUploadedFile, CallHasRow, PastLookup
<1>4. CASE IpfsUploadFile(c)
  <2>1. /\ call' \in [Calls -> SaveCall] /\ call'[c].pc \in {"lookup", "error"}
        /\ \A d \in Calls \ {c} : call'[d] = call[d]
    BY <1>4, <1>0, GotoCall, AnswerCall DEF IpfsUploadFile, Fail, SavePc
  <2>2. pins' \subseteq Payloads
    BY <1>4, <1>0 DEF IpfsUploadFile
  <2>3. cid' \in [Calls -> Payloads] /\ \A d \in Calls \ {c} : cid'[d] = cid[d]
    BY <1>4, <1>0 DEF IpfsUploadFile
  <2> QED
    BY <1>4, <1>0, <2>1, <2>2, <2>3, RowsKept DEF IpfsUploadFile, CallHasRow, PastLookup
<1>5. CASE GetSourceFileByPayloadCid(c)
  <2>1. CASE Fail(c)
    BY <1>5, <1>0, <1>f, <2>1 DEF GetSourceFileByPayloadCid, store
  <2>2. CASE ~Fail(c)
    <3>1. /\ call' \in [Calls -> SaveCall]
          /\ \A d \in Calls \ {c} : call'[d] = call[d]
          /\ call'[c].row = sourceFile[cid[c]]
          /\ call'[c].pc = IF sourceFile[cid[c]] = Null THEN "create" ELSE "check"
      <4> DEFINE row == sourceFile[cid[c]]
                 pc == IF row = Null THEN "create" ELSE "check"
                 new == [call[c] EXCEPT !.pc = pc, !.row = row]
      <4>1. call' = [call EXCEPT ![c] = new]
        <5>1. call' = [call EXCEPT ![c].pc = pc, ![c].row = row]
          BY <1>5, <2>2 DEF GetSourceFileByPayloadCid
        <5> QED
          BY <1>0, <5>1
      <4>2. pc \in SavePc /\ row \in SourceRow \cup {Null}
        BY <1>0 DEF SavePc
      <4> HIDE DEF pc, row
      <4>3. new \in SaveCall /\ new.pc = pc /\ new.row = row
        BY <1>0, <4>2 DEF SaveCall
      <4> HIDE DEF new
      <4>4. call' \in [Calls -> SaveCall] /\ call'[c] = new /\ \A d \in Calls \ {c} : call'[d] = call[d]
        BY <1>0, <4>1, <4>3
      <4> QED
        BY <4>3, <4>4 DEF pc, row
    <3>2. CallHasRow(c)'
      BY <1>5, <3>1 DEF GetSourceFileByPayloadCid, store, CallHasRow, PastLookup
    <3> QED
      BY <1>5, <1>0, <3>1, <3>2, RowsKept DEF GetSourceFileByPayloadCid, store
  <2> QED
    BY <2>1, <2>2
<1>a. ASSUME RemoveAndAnswer(c), call[c].pc # "ok",
             UNCHANGED <<sourceFile, upload, cid, unpin, mutex, pins>>
      PROVE  RowInv'
  <2>1. CASE Fail(c) /\ UNCHANGED <<disk, vacated>>
    BY <1>0, <1>a, <1>f, <2>1
  <2>2. CASE RemoveOwnFile(c) /\ Answer(c, "ok")
    <3>1. /\ call' \in [Calls -> SaveCall] /\ call'[c].pc = "ok"
          /\ \A d \in Calls \ {c} : call'[d] = call[d]
      BY <1>0, <2>2, AnswerCall DEF SavePc
    <3>2. disk' \in DiskT /\ vacated' \subseteq Paths
      BY <2>2, RemoveTypes
    <3> QED
      BY <1>0, <1>a, <3>1, <3>2, RowsKept DEF CallHasRow, PastLookup
  <2> QED
    BY <1>a, <2>1, <2>2 DEF RemoveAndAnswer
\* A row of the payload is written, and c goes on.
<1>w. ASSUME NEW uri \in Paths, NEW pc \in {"usage", "drop"}, Goto(c, pc),
             call[c].pc # "ok", UNCHANGED <<disk, pins, upload, cid, vacated, mutex, unpin>>,
             sourceFile' = [sourceFile EXCEPT ![cid[c]] = [uri |-> uri, pin |-> "Pinned"]]
      PROVE  RowInv'
  <2>1. /\ call' \in [Calls -> SaveCall] /\ call'[c].pc = pc
        /\ \A d \in Calls \ {c} : call'[d] = call[d]
    BY <1>0, <1>w, GotoCall DEF SavePc
  <2>2. [uri |-> uri, pin |-> "Pinned"] \in SourceRow
    BY <1>w DEF SourceRow, PinStatus
  <2>3. /\ sourceFile' \in [Payloads -> SourceRow \cup {Null}]
        /\ [uri |-> uri, pin |-> "Pinned"] # Null
        /\ \A p \in Payloads : sourceFile[p] # Null => sourceFile'[p] # Null
        /\ sourceFile'[cid[c]] # Null
    BY <1>0, <1>w, <2>2, StorageAssumption
  <2>4. StorageTypeOK'
    BY <1>0, <1>w, <2>1, <2>3 DEF StorageTypeOK
  <2>5. ASSUME NEW d \in Calls PROVE CallHasRow(d)' /\ UploadHasRow(d)'
    BY <1>w, <2>1, <2>3, PayloadType DEF RowInv, CallHasRow, UploadHasRow, PastLookup
  <2>6. ASSUME NEW k \in Unpins PROVE UnpinHasRow(k)'
    BY <1>w DEF RowInv, UnpinHasRow
  <2> QED
    BY <2>4, <2>5, <2>6 DEF RowInv
<1>6. CASE CreateSourceFile(c)
  BY <1>0, <1>6, <1>a, <1>w DEF CreateSourceFile
<1>7. CASE IsFileExistsFullPath(c)
  <2>1. /\ call' \in [Calls -> SaveCall] /\ call'[c].pc \in {"repoint", "keep"}
        /\ call'[c].row = call[c].row
        /\ \A d \in Calls \ {c} : call'[d] = call[d]
    BY <1>7, <1>0, GotoCall DEF IsFileExistsFullPath, SavePc
  <2>2. CallHasRow(c)'
    BY <1>7, <2>1 DEF IsFileExistsFullPath, store, CallHasRow, PastLookup, RowInv
  <2> QED
    BY <1>7, <1>0, <2>1, <2>2, RowsKept DEF IsFileExistsFullPath, store
<1>8. CASE RepointSourceFile(c)
  BY <1>0, <1>8, <1>f, <1>w DEF RepointSourceFile, SaveSourceFile
<1>9. CASE KeepSourceFile(c)
  <2>1. call[c].row.uri \in Paths
    BY <1>0, <1>9 DEF KeepSourceFile, RowInv, CallHasRow, SourceRow
  <2> QED
    BY <1>0, <1>9, <2>1, <1>f, <1>w DEF KeepSourceFile, SaveSourceFile
<1>10. CASE RemoveCurrentCopy(c)
  <2>1. CASE Fail(c) /\ UNCHANGED <<disk, vacated>>
    BY <1>0, <1>10, <1>f, <2>1 DEF RemoveCurrentCopy
  <2>2. CASE RemoveOwnFile(c) /\ Goto(c, "usage")
    <3>1. /\ call' \in [Calls -> SaveCall] /\ call'[c].pc = "usage"
          /\ \A d \in Calls \ {c} : call'[d] = call[d]
      BY <1>0, <2>2, GotoCall DEF SavePc
    <3>2. disk' \in DiskT /\ vacated' \subseteq Paths
      BY <2>2, RemoveTypes
    <3>3. CallHasRow(c)'
      BY <1>10, <3>1 DEF RemoveCurrentCopy, RowInv, CallHasRow, PastLookup
    <3> QED
      BY <1>0, <1>10, <3>1, <3>2, <3>3, RowsKept DEF RemoveCurrentCopy
  <2> QED
    BY <1>10, <2>1, <2>2 DEF RemoveCurrentCopy
<1>11. CASE GetSourceFileUploadFreeUsage(c)
  <2>1. CASE Fail(c)
    BY <1>11, <1>0, <1>f, <2>1 DEF GetSourceFileUploadFreeUsage, store
  <2>2. CASE ~Fail(c)
    <3>1. /\ call' \in [Calls -> SaveCall] /\ call'[c].pc = "record"
          /\ \A d \in Calls \ {c} : call'[d] = call[d]
      BY <1>11, <1>0, <2>2 DEF GetSourceFileUploadFreeUsage, SaveCall, SavePc
    <3>2. CallHasRow(c)'
      BY <1>11, <3>1 DEF GetSourceFileUploadFreeUsage, store, RowInv, CallHasRow, PastLookup
    <3> QED
      BY <1>11, <1>0, <3>1, <3>2, RowsKept DEF GetSourceFileUploadFreeUsage, store
  <2> QED
    BY <2>1, <2>2
<1>12. CASE CreateSourceFileUpload(c)
  <2>1. CASE RemoveAndAnswer(c) /\ UNCHANGED upload
    BY <1>12, <2>1, <1>a DEF CreateSourceFileUpload
  <2>2. CASE ~(RemoveAndAnswer(c) /\ UNCHANGED upload)
    <3>1. /\ call' \in [Calls -> SaveCall] /\ call'[c].pc = "ok"
          /\ \A d \in Calls \ {c} : call'[d] = call[d]
      BY <1>12, <1>0, <2>2, AnswerCall DEF CreateSourceFileUpload, SavePc
    <3>6. UNCHANGED <<disk, cid, vacated, pins, sourceFile, mutex, unpin>>
      BY <1>12, <2>2 DEF CreateSourceFileUpload
    <3>7. /\ [pin |-> "Pinned", free |-> call[c].free] \in UploadRow
          /\ upload' = [upload EXCEPT ![c] = [pin |-> "Pinned", free |-> call[c].free]]
      BY <1>12, <1>0, <2>2 DEF CreateSourceFileUpload, UploadRow, PinStatus, SaveCall
    <3>2. /\ upload' \in [Calls -> UploadRow] /\ upload'[c].pin = "Pinned"
          /\ \A d \in Calls \ {c} : upload'[d] = upload[d]
          /\ UNCHANGED <<cid, sourceFile, unpin>>
      BY <1>0, <3>6, <3>7
    <3>3. StorageTypeOK'
      BY <1>0, <3>1, <3>2, <3>6 DEF StorageTypeOK
    <3>4. ASSUME NEW d \in Calls PROVE CallHasRow(d)' /\ UploadHasRow(d)'
      BY <1>12, <3>1, <3>2 DEF CreateSourceFileUpload, RowInv, CallHasRow, UploadHasRow, PastLookup
    <3>5. ASSUME NEW k \in Unpins PROVE UnpinHasRow(k)'
      BY <1>0, <3>2 DEF RowInv, UnpinHasRow, UnpinCall
    <3> QED
      BY <3>3, <3>4, <3>5 DEF RowInv
  <2> QED
    BY <2>1, <2>2
<1> QED
  BY <1>1, <1>2, <1>3, <1>4, <1>5, <1>6, <1>7, <1>8, <1>9, <1>10, <1>11, <1>12 DEF SaveFile

\* So does every other step.
LEMMA RowNext == RowInv /\ [StorageNext]_storageVars => RowInv'
<1> SUFFICES ASSUME RowInv, [StorageNext]_storageVars PROVE RowInv'
  OBVIOUS
<1>0. StorageTypeOK
  BY DEF RowInv
<1>1. ASSUME NEW c \in Calls, SaveFile(c) PROVE RowInv'
  BY <1>1, SaveFileKeepsRows
<1>2. ASSUME NEW k \in Unpins, UpdateSourceFileUploadPinStatus(k) PROVE RowInv'
  <2> USE <1>2 DEF UpdateSourceFileUploadPinStatus
  <2>1. PICK c \in Calls :
          /\ upload[c].pin # "None"
          /\ upload' = [upload EXCEPT ![c].pin = "Unpinned"]
          /\ unpin' = [unpin EXCEPT ![k] = [pc |-> "list", target |-> c,
                                            older |-> Recorded(cid[c])]]
    OBVIOUS
  <2>2. /\ upload' \in [Calls -> UploadRow] /\ upload'[c].pin = "Unpinned"
        /\ \A d \in Calls \ {c} : upload'[d] = upload[d]
    BY <1>0, <2>1 DEF StorageTypeOK, UploadRow, PinStatus
  <2>3. /\ unpin' \in [Unpins -> UnpinCall] /\ unpin'[k].target = c
        /\ \A j \in Unpins \ {k} : unpin'[j] = unpin[j]
    BY <1>0, <2>1 DEF StorageTypeOK, UnpinCall, UnpinPc, Recorded
  <2>4. StorageTypeOK'
    BY <1>0, <2>2, <2>3 DEF StorageTypeOK
  <2>5. ASSUME NEW d \in Calls PROVE CallHasRow(d)' /\ UploadHasRow(d)'
    BY <2>1, <2>2 DEF RowInv, CallHasRow, UploadHasRow
  <2>6. ASSUME NEW j \in Unpins PROVE UnpinHasRow(j)'
    BY <2>1, <2>2, <2>3 DEF RowInv, UnpinHasRow
  <2> QED
    BY <2>4, <2>5, <2>6 DEF RowInv
<1>3. ASSUME NEW k \in Unpins, GetSourceFileUploadsPinned(k) \/ IpfsPinRm(k) PROVE RowInv'
  <2>1. /\ unpin' \in [Unpins -> UnpinCall] /\ unpin'[k].target = unpin[k].target
        /\ unpin[k].pc \in {"list", "rm"}
        /\ \A j \in Unpins \ {k} : unpin'[j] = unpin[j]
    BY <1>0, <1>3, GotoUnpin DEF GetSourceFileUploadsPinned, IpfsPinRm, StorageTypeOK, UnpinPc
  <2>2. pins' \subseteq Payloads /\ UNCHANGED <<disk, sourceFile, upload, cid, vacated, mutex, call>>
    BY <1>0, <1>3 DEF GetSourceFileUploadsPinned, IpfsPinRm, StorageTypeOK, store
  <2>3. StorageTypeOK'
    BY <1>0, <2>1, <2>2 DEF StorageTypeOK
  <2> QED
    BY <2>1, <2>2, <2>3 DEF RowInv, CallHasRow, UploadHasRow, UnpinHasRow
<1>4. ASSUME NEW k \in Unpins, UpdateSourceFilePinStatus(k) PROVE RowInv'
  <2> DEFINE p == cid[unpin[k].target]
  <2>1. /\ unpin' \in [Unpins -> UnpinCall] /\ unpin'[k].target = unpin[k].target
        /\ unpin'[k].pc \in {"done", "error"}
        /\ \A j \in Unpins \ {k} : unpin'[j] = unpin[j]
    BY <1>0, <1>4, GotoUnpin DEF UpdateSourceFilePinStatus, StorageTypeOK, UnpinPc
  <2>2. unpin[k].target \in Calls /\ upload[unpin[k].target].pin # "None"
    BY <1>4, StorageAssumption DEF UpdateSourceFilePinStatus, RowInv, UnpinHasRow
  <2>3. p \in Payloads /\ sourceFile[p] # Null
    BY <2>2, PayloadType DEF RowInv, UploadHasRow
  <2>4. [sourceFile[p] EXCEPT !.pin = "Unpinned"] \in SourceRow
    BY <1>0, <2>3 DEF StorageTypeOK, SourceRow, PinStatus
  <2>5. [sourceFile[p] EXCEPT !.pin = "Unpinned"] # Null
    BY <2>4, StorageAssumption
  <2>6. /\ sourceFile' \in [Payloads -> SourceRow \cup {Null}]
        /\ \A q \in Payloads : sourceFile[q] # Null => sourceFile'[q] # Null
    BY <1>0, <1>4, <2>3, <2>4, <2>5 DEF UpdateSourceFilePinStatus, StorageTypeOK
  <2>7. UNCHANGED <<disk, pins, upload, cid, vacated, mutex, call>>
    BY <1>4 DEF UpdateSourceFilePinStatus
  <2>8. StorageTypeOK'
    BY <1>0, <2>1, <2>6, <2>7 DEF StorageTypeOK
  <2>9. ASSUME NEW d \in Calls PROVE CallHasRow(d)' /\ UploadHasRow(d)'
    BY <2>6, <2>7, PayloadType DEF RowInv, CallHasRow, UploadHasRow
  <2>10. ASSUME NEW j \in Unpins PROVE UnpinHasRow(j)'
    BY <2>1, <2>7 DEF RowInv, UnpinHasRow
  <2> QED
    BY <2>8, <2>9, <2>10 DEF RowInv
<1>5. CASE LoseCopy
  <2>1. StorageTypeOK'
    BY <1>0, <1>5 DEF LoseCopy, StorageTypeOK
  <2> QED
    BY <1>5, <2>1 DEF LoseCopy, RowInv, CallHasRow, UploadHasRow, UnpinHasRow
<1>6. CASE Restart
  <2>1. /\ call' \in [Calls -> SaveCall]
        /\ \A c \in Calls : call'[c].pc \in {"start", "ok", "error"}
                            /\ (call[c].pc = "ok" => call'[c].pc = "ok")
    <3>1. At("error") \in SaveCall /\ At("error").pc = "error"
      BY FirstPath DEF At, SaveCall, SavePc
    <3> QED
      BY <1>0, <1>6, <3>1 DEF Restart, StorageTypeOK
  <2>2. /\ unpin' \in [Unpins -> UnpinCall]
        /\ \A k \in Unpins : /\ unpin'[k].pc \in {"start", "done", "error"}
                               /\ unpin'[k].target = unpin[k].target
    BY <1>0, <1>6 DEF Restart, StorageTypeOK, UnpinCall, UnpinPc
  <2>3. StorageTypeOK'
    BY <1>0, <1>6, <2>1, <2>2 DEF Restart, StorageTypeOK, store
  <2> QED
    BY <1>6, <2>1, <2>2, <2>3
    DEF Restart, store, RowInv, CallHasRow, UploadHasRow, UnpinHasRow, PastLookup
<1>7. CASE UNCHANGED storageVars
  BY <1>7 DEF storageVars, store, RowInv, StorageTypeOK, CallHasRow, UploadHasRow, UnpinHasRow
<1> QED
  BY <1>1, <1>2, <1>3, <1>4, <1>5, <1>6, <1>7 DEF StorageNext, UnpinSourceFile

\* A request changes its payload only where IPFS gets the file, before its upload is
\* recorded.
LEMMA CidStays ==
  ASSUME RowInv, [StorageNext]_storageVars, NEW c \in Calls, cid'[c] # cid[c]
  PROVE  call[c].pc = "add" /\ UNCHANGED upload /\ upload[c].pin = "None"
<1>0. cid \in [Calls -> Payloads] /\ UploadHasRow(c)
  BY DEF RowInv, StorageTypeOK
<1>1. PICK d \in Calls : IpfsUploadFile(d)
  BY DEF StorageNext, storageVars, store, SaveFile, LockUpload, ChooseFilename,
         SaveUploadedFile, GetSourceFileByPayloadCid, CreateSourceFile, IsFileExistsFullPath,
         RepointSourceFile, KeepSourceFile, SaveSourceFile, RemoveCurrentCopy,
         GetSourceFileUploadFreeUsage, CreateSourceFileUpload, UnpinSourceFile,
         UpdateSourceFileUploadPinStatus, GetSourceFileUploadsPinned, IpfsPinRm,
         UpdateSourceFilePinStatus, LoseCopy, Restart
<1>2. d = c
  BY <1>0, <1>1 DEF IpfsUploadFile
<1> QED
  BY <1>0, <1>1, <1>2 DEF IpfsUploadFile, UploadHasRow

-----------------------------------------------------------------------------
\* Only the call that holds the lock chooses a name and saves, and the name it has
\* chosen stays free until then.
LockInv ==
  /\ RowInv
  /\ LockIsHeldToSave
  /\ \A c \in Calls :
       /\ call[c].pc \in {"choose", "save"} => mutex = c
       /\ call[c].pc = "save" => disk[call[c].path] = Null

\* A file goes only from a path that is noted as vacated.
DiskStep ==
  /\ vacated \subseteq vacated'
  /\ \A path \in Paths : disk[path] # Null =>
       disk'[path] = disk[path] \/ (disk'[path] = Null /\ path \in vacated')

\* A request's step leaves the other requests where they are.
LEMMA OthersStay ==
  ASSUME RowInv, NEW c \in Calls, SaveFile(c), NEW d \in Calls \ {c}
  PROVE  call'[d] = call[d] /\ cid'[d] = cid[d]
<1>1. call \in [Calls -> SaveCall] /\ cid \in [Calls -> Payloads]
  BY DEF RowInv, StorageTypeOK
<1> QED
  BY <1>1
  DEF SaveFile, store, Goto, Answer, Fail, LockUpload, ChooseFilename, SaveUploadedFile, IpfsUploadFile,
      GetSourceFileByPayloadCid, CreateSourceFile, RemoveAndAnswer, IsFileExistsFullPath,
      RepointSourceFile, KeepSourceFile, SaveSourceFile, RemoveCurrentCopy,
      GetSourceFileUploadFreeUsage, CreateSourceFileUpload

\* The steps of SaveFile after the unlock.
AfterSave(c) ==
  \/ IpfsUploadFile(c) \/ GetSourceFileByPayloadCid(c) \/ CreateSourceFile(c)
  \/ IsFileExistsFullPath(c) \/ RepointSourceFile(c) \/ KeepSourceFile(c)
  \/ RemoveCurrentCopy(c) \/ GetSourceFileUploadFreeUsage(c) \/ CreateSourceFileUpload(c)

\* They leave the lock alone and only ever remove files.
LEMMA AfterSaveSteps ==
  ASSUME RowInv, NEW c \in Calls, AfterSave(c)
  PROVE  /\ UNCHANGED mutex
         /\ call[c].pc \notin {"choose", "save"} /\ call'[c].pc \notin {"choose", "save"}
         /\ DiskStep
         /\ \A path \in Paths : disk'[path] \in {disk[path], Null}
<1>0. call \in [Calls -> SaveCall] /\ disk \in [Paths -> Payloads \cup {Torn, Null}]
  BY DEF RowInv, StorageTypeOK
<1>1. ASSUME Fail(c) \/ Answer(c, "ok") PROVE call'[c].pc \notin {"choose", "save"}
  BY <1>0, <1>1, AnswerCall DEF Fail, SavePc
<1>2. ASSUME NEW pc \in SavePc \ {"choose", "save"}, Goto(c, pc)
      PROVE  call'[c].pc \notin {"choose", "save"}
  BY <1>0, <1>2, GotoCall
<1>3. ASSUME RemoveOwnFile(c)
      PROVE  DiskStep /\ \A path \in Paths : disk'[path] \in {disk[path], Null}
  BY <1>0, <1>3 DEF RemoveOwnFile, DiskStep
<1>4. ASSUME UNCHANGED <<disk, vacated>>
      PROVE  DiskStep /\ \A path \in Paths : disk'[path] \in {disk[path], Null}
  BY <1>4 DEF DiskStep
<1>5. UNCHANGED mutex /\ call[c].pc \notin {"choose", "save"}
  BY DEF AfterSave, IpfsUploadFile, GetSourceFileByPayloadCid, CreateSourceFile,
         IsFileExistsFullPath, RepointSourceFile, KeepSourceFile, SaveSourceFile,
         RemoveCurrentCopy, GetSourceFileUploadFreeUsage, CreateSourceFileUpload
<1>6. DiskStep /\ \A path \in Paths : disk'[path] \in {disk[path], Null}
  BY <1>3, <1>4
  DEF AfterSave, IpfsUploadFile, GetSourceFileByPayloadCid, CreateSourceFile, RemoveAndAnswer,
      IsFileExistsFullPath, RepointSourceFile, KeepSourceFile, SaveSourceFile, store,
      RemoveCurrentCopy, GetSourceFileUploadFreeUsage, CreateSourceFileUpload
<1>7. call'[c].pc \notin {"choose", "save"}
  <2>1. CASE GetSourceFileByPayloadCid(c)
    BY <1>0, <1>1, <2>1 DEF GetSourceFileByPayloadCid, SaveCall
  <2>2. CASE GetSourceFileUploadFreeUsage(c)
    BY <1>0, <1>1, <2>2 DEF GetSourceFileUploadFreeUsage, SaveCall
  <2>3. CASE ~GetSourceFileByPayloadCid(c) /\ ~GetSourceFileUploadFreeUsage(c)
    BY <1>1, <1>2, <2>3
    DEF AfterSave, IpfsUploadFile, CreateSourceFile, RemoveAndAnswer, IsFileExistsFullPath,
        RepointSourceFile, KeepSourceFile, SaveSourceFile, RemoveCurrentCopy,
        CreateSourceFileUpload, SavePc
  <2> QED
    BY <2>1, <2>2, <2>3
<1> QED
  BY <1>5, <1>6, <1>7

\* The lock is free at the start.
LEMMA LockInit == StorageInit => LockInv
BY RowInit DEF StorageInit, At, LockInv, LockIsHeldToSave

\* Every step keeps the lock discipline, and with it the files.
LEMMA LockNext ==
  ASSUME LockInv, [StorageNext]_storageVars
  PROVE  LockInv' /\ DiskStep
<1>0. /\ RowInv' /\ RowInv
      /\ call \in [Calls -> SaveCall] /\ disk \in [Paths -> Payloads \cup {Torn, Null}]
  BY RowNext DEF LockInv, RowInv, StorageTypeOK
<1>1. ASSUME NEW c \in Calls, LockUpload(c) PROVE LockInv' /\ DiskStep
  <2>1. call'[c].pc = "choose" /\ mutex' = c /\ UNCHANGED <<disk, vacated>>
    BY <1>0, <1>1, GotoCall DEF LockUpload, SavePc, store
  <2>2. \A d \in Calls \ {c} : call'[d] = call[d] /\ call[d].pc \notin {"choose", "save"}
    BY <1>0, <1>1, OthersStay, StorageAssumption DEF SaveFile, LockUpload, LockInv
  <2> QED
    BY <1>0, <2>1, <2>2 DEF LockInv, LockIsHeldToSave, DiskStep
<1>2. ASSUME NEW c \in Calls, ChooseFilename(c) PROVE LockInv' /\ DiskStep
  <2>1. PICK path \in Paths :
          disk[path] = Null /\ call' = [call EXCEPT ![c].pc = "save", ![c].path = path]
    BY <1>2 DEF ChooseFilename
  <2>2. call' = [call EXCEPT ![c] = [call[c] EXCEPT !.pc = "save", !.path = path]]
    BY <1>0, <2>1
  <2>3. call'[c].pc = "save" /\ call'[c].path = path
    BY <1>0, <2>2 DEF SaveCall
  <2>6. UNCHANGED <<disk, mutex, vacated>>
    BY <1>2 DEF ChooseFilename, store
  <2>4. mutex = c
    BY <1>2 DEF ChooseFilename, LockInv
  <2>5. \A d \in Calls \ {c} : call'[d] = call[d]
    BY <1>0, <1>2, OthersStay DEF SaveFile
  <2> QED
    BY <1>0, <2>1, <2>3, <2>4, <2>5, <2>6 DEF LockInv, LockIsHeldToSave, DiskStep
<1>3. ASSUME NEW c \in Calls, SaveUploadedFile(c) PROVE LockInv' /\ DiskStep
  <2>1. call'[c].pc \in {"add", "error"} /\ mutex' = Null /\ UNCHANGED vacated
    BY <1>0, <1>3, GotoCall, AnswerCall DEF SaveUploadedFile, Fail, SavePc
  <2>2. mutex = c /\ disk[call[c].path] = Null
    BY <1>3 DEF SaveUploadedFile, LockInv
  <2>3. \A path \in Paths : disk[path] # Null => disk'[path] = disk[path]
    BY <1>0, <1>3, <2>2 DEF SaveUploadedFile
  <2>4. \A d \in Calls \ {c} : call'[d] = call[d] /\ call[d].pc \notin {"choose", "save"}
    BY <1>0, <1>3, <2>2, OthersStay DEF SaveFile, LockInv
  <2> QED
    BY <1>0, <2>1, <2>3, <2>4 DEF LockInv, LockIsHeldToSave, DiskStep
<1>4. ASSUME NEW c \in Calls, AfterSave(c) PROVE LockInv' /\ DiskStep
  <2>1. /\ UNCHANGED mutex
        /\ call[c].pc \notin {"choose", "save"} /\ call'[c].pc \notin {"choose", "save"}
        /\ DiskStep
        /\ \A path \in Paths : disk'[path] \in {disk[path], Null}
    BY <1>0, <1>4, AfterSaveSteps
  <2>2. \A d \in Calls \ {c} : call'[d] = call[d]
    BY <1>0, <1>4, OthersStay DEF SaveFile, AfterSave
  <2>3. \A d \in Calls : call[d].path \in Paths
    BY <1>0 DEF SaveCall
  <2>4. LockIsHeldToSave'
    BY <2>1, <2>2, <1>0 DEF LockInv, LockIsHeldToSave, RowInv, StorageTypeOK
  <2>5. ASSUME NEW d \in Calls
        PROVE  /\ call'[d].pc \in {"choose", "save"} => mutex' = d
               /\ call'[d].pc = "save" => disk'[call'[d].path] = Null
    BY <2>1, <2>2, <2>3 DEF LockInv
  <2> QED
    BY <1>0, <2>1, <2>4, <2>5 DEF LockInv
<1>5. ASSUME NEW k \in Unpins, UnpinSourceFile(k) PROVE LockInv' /\ DiskStep
  <2>1. UNCHANGED <<disk, vacated, mutex, call>>
    BY <1>5 DEF UnpinSourceFile, UpdateSourceFileUploadPinStatus, GetSourceFileUploadsPinned,
                IpfsPinRm, UpdateSourceFilePinStatus, store
  <2> QED
    BY <1>0, <2>1 DEF LockInv, LockIsHeldToSave, DiskStep
<1>6. CASE LoseCopy
  <2>1. DiskStep /\ \A path \in Paths : disk'[path] \in {disk[path], Null}
    BY <1>0, <1>6 DEF LoseCopy, DiskStep
  <2>2. UNCHANGED <<mutex, call>> /\ \A d \in Calls : call[d].path \in Paths
    BY <1>0, <1>6 DEF LoseCopy, SaveCall
  <2> QED
    BY <1>0, <2>1, <2>2 DEF LockInv, LockIsHeldToSave
<1>7. CASE Restart
  <2>1. \A c \in Calls : \/ call'[c] = call[c] /\ call[c].pc \in {"start", "ok"}
                         \/ call'[c] = At("error")
    BY <1>7 DEF Restart
  <2>2. \A c \in Calls : call'[c].pc \notin {"choose", "save"}
    BY <2>1 DEF At
  <2> QED
    BY <1>0, <1>7, <2>2 DEF Restart, store, LockInv, LockIsHeldToSave, DiskStep
<1>8. CASE UNCHANGED storageVars
  BY <1>0, <1>8 DEF storageVars, store, LockInv, LockIsHeldToSave, DiskStep
<1> QED
  BY <1>1, <1>2, <1>3, <1>4, <1>5, <1>6, <1>7, <1>8 DEF StorageNext, SaveFile, AfterSave

\* The tables, the files, the pins and the running requests keep their types in
\* every reachable state.
THEOREM StorageTypeCorrect == StorageSpec => []StorageTypeOK
<1>1. StorageInit => LockInv
  BY LockInit
<1>2. LockInv /\ [StorageNext]_storageVars => LockInv'
  BY LockNext
<1>3. LockInv => StorageTypeOK
  BY DEF LockInv, RowInv
<1> QED
  BY <1>1, <1>2, <1>3, PTL DEF StorageSpec

\* uploadMutext is held only by a call that is choosing a name or saving to it, so
\* every error path gives it back.
THEOREM LockIsGivenBack == StorageSpec => []LockIsHeldToSave
<1>1. StorageInit => LockInv
  BY LockInit
<1>2. LockInv /\ [StorageNext]_storageVars => LockInv'
  BY LockNext
<1>3. LockInv => LockIsHeldToSave
  BY DEF LockInv
<1> QED
  BY <1>1, <1>2, <1>3, PTL DEF StorageSpec

\* However many uploads of one name run at once, none overwrites the file of
\* another.
THEOREM NothingIsOverwritten == StorageSpec => NoOverwrite
<1>1. StorageInit => LockInv
  BY LockInit
<1>2. LockInv /\ [StorageNext]_storageVars => LockInv'
  BY LockNext
<1>3. LockInv /\ [StorageNext]_storageVars =>
        [\A path \in Paths : disk[path] # Null => disk'[path] \in {disk[path], Null}]_storageVars
  BY LockNext DEF DiskStep
<1> QED
  BY <1>1, <1>2, <1>3, PTL DEF StorageSpec, NoOverwrite

-----------------------------------------------------------------------------
\* A call still has its copy, and the row it looked up still refers to one, unless
\* the path was vacated.
Saved == {"lookup", "create", "check", "repoint", "keep", "drop", "usage", "record"}
IsCopy(path, p) == path \notin vacated => disk[path] = p
HoldsCopy(c) == call[c].pc \in Saved => IsCopy(call[c].path, cid[c])
SawCopy(c) ==
  call[c].pc \in {"check", "repoint", "keep"} => IsCopy(call[c].row.uri, cid[c])
RowHasCopy(p) == sourceFile[p] # Null => IsCopy(sourceFile[p].uri, p)

CopyInv ==
  /\ LockInv
  /\ \A p \in Payloads : RowHasCopy(p)
  /\ \A c \in Calls : HoldsCopy(c) /\ SawCopy(c)

\* A copy stays one until its path is vacated.
LEMMA CopiesStay ==
  ASSUME DiskStep, NEW p \in Payloads, NEW path \in Paths, IsCopy(path, p)
  PROVE  IsCopy(path, p)'
BY StorageAssumption DEF DiskStep, IsCopy

\* The paths that rows and calls name.
LEMMA PathTypes ==
  ASSUME RowInv
  PROVE  /\ \A p \in Payloads : sourceFile[p] # Null => sourceFile[p].uri \in Paths
         /\ \A c \in Calls : /\ call[c].path \in Paths
                             /\ call[c].row # Null => call[c].row.uri \in Paths
BY DEF RowInv, StorageTypeOK, SourceRow, SaveCall

\* A step that writes no row and moves no call but c keeps everything c keeps.
LEMMA CopiesKept ==
  ASSUME CopyInv, LockInv', DiskStep, NEW c \in Calls, UNCHANGED sourceFile,
         HoldsCopy(c)', SawCopy(c)',
         \A d \in Calls \ {c} : call'[d] = call[d] /\ cid'[d] = cid[d]
  PROVE  CopyInv'
<1>0. RowInv /\ \A d \in Calls : CallHasRow(d)
  BY DEF CopyInv, LockInv, RowInv
<1>1. ASSUME NEW p \in Payloads PROVE RowHasCopy(p)'
  BY <1>0, PathTypes, CopiesStay DEF CopyInv, RowHasCopy
<1>2. ASSUME NEW d \in Calls \ {c} PROVE HoldsCopy(d)' /\ SawCopy(d)'
  BY <1>0, PathTypes, CopiesStay, PayloadType DEF CopyInv, HoldsCopy, SawCopy, CallHasRow
<1> QED
  BY <1>1, <1>2 DEF CopyInv

\* A call that keeps its path and what it looked up keeps its copies.
LEMMA CallKeepsCopies ==
  ASSUME CopyInv, DiskStep, NEW c \in Calls, call'[c].path = call[c].path, cid'[c] = cid[c],
         call'[c].pc \in Saved => call[c].pc \in Saved,
         call'[c].pc \in {"check", "repoint", "keep"} =>
           call[c].pc \in {"check", "repoint", "keep"} /\ call'[c].row = call[c].row
  PROVE  HoldsCopy(c)' /\ SawCopy(c)'
<1>0. RowInv /\ CallHasRow(c)
  BY DEF CopyInv, LockInv, RowInv
<1> QED
  BY <1>0, PathTypes, CopiesStay, PayloadType DEF CopyInv, HoldsCopy, SawCopy, CallHasRow

\* A call that is over, or has not reached IPFS, holds nothing.
LEMMA OverHoldsNothing ==
  ASSUME NEW c \in Calls, call'[c].pc \in {"start", "choose", "save", "add", "ok", "error"}
  PROVE  HoldsCopy(c)' /\ SawCopy(c)'
BY DEF HoldsCopy, SawCopy, Saved

\* Nothing is held at the start.
LEMMA CopyInit == StorageInit => CopyInv
BY LockInit DEF StorageInit, At, CopyInv, RowHasCopy, HoldsCopy, SawCopy, Saved

\* The upload requests keep the copies.
LEMMA SaveFileKeepsCopies ==
  ASSUME CopyInv, NEW c \in Calls, SaveFile(c)
  PROVE  CopyInv'
<1>0. /\ RowInv /\ RowInv' /\ LockInv' /\ DiskStep
      /\ call \in [Calls -> SaveCall] /\ disk \in [Paths -> Payloads \cup {Torn, Null}]
      /\ sourceFile \in [Payloads -> SourceRow \cup {Null}]
      /\ call' \in [Calls -> SaveCall] /\ cid \in [Calls -> Payloads] /\ cid[c] \in Payloads
      /\ CallHasRow(c) /\ call[c].path \in Paths
  BY LockNext, RowNext, PayloadType
  DEF CopyInv, LockInv, RowInv, StorageTypeOK, SaveCall, StorageNext
<1>1. \A d \in Calls \ {c} : call'[d] = call[d] /\ cid'[d] = cid[d]
  BY <1>0, OthersStay
\* c is over or has not reached IPFS.
<1>2. ASSUME UNCHANGED sourceFile, call'[c].pc \in {"start", "choose", "save", "add", "ok", "error"}
      PROVE  CopyInv'
  BY <1>0, <1>1, <1>2, OverHoldsNothing, CopiesKept
\* c moves on with what it has.
<1>3. ASSUME UNCHANGED <<sourceFile, cid>>, NEW pc \in Saved, Goto(c, pc), call[c].pc \in Saved,
             pc \in {"check", "repoint", "keep"} => call[c].pc \in {"check", "repoint", "keep"}
      PROVE  CopyInv'
  <2>1. call'[c].pc = pc /\ call'[c].path = call[c].path /\ call'[c].row = call[c].row
    BY <1>0, <1>3, GotoCall DEF Saved, SavePc
  <2>2. HoldsCopy(c)' /\ SawCopy(c)'
    BY <1>0, <1>3, <2>1, CallKeepsCopies
  <2> QED
    BY <1>0, <1>1, <1>3, <2>2, CopiesKept
\* c fails.
<1>4. ASSUME UNCHANGED sourceFile, Fail(c) \/ Answer(c, "ok") PROVE CopyInv'
  BY <1>0, <1>2, <1>4, AnswerCall DEF Fail, SavePc
\* c writes a row with a uri at which its payload is.
<1>5. ASSUME NEW uri \in Paths, IsCopy(uri, cid[c]), NEW pc \in {"drop", "usage"},
             Goto(c, pc), call[c].pc \in Saved, UNCHANGED cid,
             sourceFile' = [sourceFile EXCEPT ![cid[c]] = [uri |-> uri, pin |-> "Pinned"]]
      PROVE  CopyInv'
  <2>1. call'[c].pc = pc /\ call'[c].path = call[c].path
    BY <1>0, <1>5, GotoCall DEF SavePc
  <2>2. HoldsCopy(c)' /\ SawCopy(c)'
    BY <1>0, <1>5, <2>1, CallKeepsCopies
  <2>3. ASSUME NEW d \in Calls \ {c} PROVE HoldsCopy(d)' /\ SawCopy(d)'
    BY <1>0, <1>1, PathTypes, CopiesStay, PayloadType
    DEF CopyInv, LockInv, RowInv, HoldsCopy, SawCopy, CallHasRow
  <2>4. ASSUME NEW p \in Payloads PROVE RowHasCopy(p)'
    <3>1. CASE p = cid[c]
      <4>1. sourceFile'[p].uri = uri
        BY <1>0, <1>5, <3>1
      <4>2. IsCopy(uri, p)'
        BY <1>0, <1>5, <3>1, CopiesStay
      <4> QED
        BY <4>1, <4>2 DEF RowHasCopy, IsCopy
    <3>2. CASE p # cid[c]
      BY <1>0, <1>5, <3>2, PathTypes, CopiesStay DEF CopyInv, RowHasCopy
    <3> QED
      BY <3>1, <3>2
  <2> QED
    BY <1>0, <2>2, <2>3, <2>4 DEF CopyInv
<1>6. CASE LockUpload(c)
  BY <1>0, <1>2, <1>6, GotoCall DEF LockUpload, store, SavePc
<1>7. CASE ChooseFilename(c)
  <2>1. PICK path \in Paths : call' = [call EXCEPT ![c].pc = "save", ![c].path = path]
    BY <1>7 DEF ChooseFilename
  <2>2. call' = [call EXCEPT ![c] = [call[c] EXCEPT !.pc = "save", !.path = path]]
    BY <1>0, <2>1
  <2>3. call'[c].pc = "save"
    BY <1>0, <2>2 DEF SaveCall
  <2>4. UNCHANGED sourceFile
    BY <1>7 DEF ChooseFilename, store
  <2> QED
    BY <1>2, <2>3, <2>4
<1>8. CASE SaveUploadedFile(c)
  <2>1. CASE Fail(c)
    BY <1>4, <1>8, <2>1 DEF SaveUploadedFile
  <2>2. CASE Goto(c, "add")
    BY <1>0, <1>2, <1>8, <2>2, GotoCall DEF SaveUploadedFile, SavePc
  <2> QED
    BY <1>8, <2>1, <2>2 DEF SaveUploadedFile
<1>9. CASE IpfsUploadFile(c)
  <2>1. CASE Fail(c)
    BY <1>4, <1>9, <2>1 DEF IpfsUploadFile
  <2>2. CASE ~Fail(c)
    <3>1. PICK p \in Payloads : /\ disk[call[c].path] = p
                                /\ cid' = [cid EXCEPT ![c] = p] /\ Goto(c, "lookup")
      BY <1>9, <2>2 DEF IpfsUploadFile
    <3>2. cid'[c] = p
      BY <1>0, <3>1
    <3>3. call'[c].pc = "lookup" /\ call'[c].path = call[c].path
      BY <1>0, <3>1, GotoCall DEF SavePc
    <3>4. UNCHANGED <<disk, sourceFile>>
      BY <1>9 DEF IpfsUploadFile
    <3>5. HoldsCopy(c)' /\ SawCopy(c)'
      BY <3>1, <3>2, <3>3, <3>4 DEF HoldsCopy, SawCopy, IsCopy
    <3> QED
      BY <1>0, <1>1, <3>4, <3>5, CopiesKept
  <2> QED
    BY <2>1, <2>2
<1>10. CASE GetSourceFileByPayloadCid(c)
  <2>1. CASE Fail(c)
    BY <1>4, <1>10, <2>1 DEF GetSourceFileByPayloadCid, store
  <2>2. CASE ~Fail(c)
    <3>1. /\ call'[c].row = sourceFile[cid[c]] /\ call'[c].path = call[c].path
          /\ call'[c].pc = IF sourceFile[cid[c]] = Null THEN "create" ELSE "check"
      BY <1>10, <1>0, <2>2 DEF GetSourceFileByPayloadCid, SaveCall
    <3>2. UNCHANGED <<disk, vacated, cid, sourceFile>> /\ call[c].pc = "lookup"
      BY <1>10 DEF GetSourceFileByPayloadCid, store
    <3>3. HoldsCopy(c)' /\ SawCopy(c)'
      BY <1>0, <3>1, <3>2 DEF CopyInv, HoldsCopy, SawCopy, RowHasCopy, IsCopy, Saved
    <3> QED
      BY <1>0, <1>1, <3>2, <3>3, CopiesKept
  <2> QED
    BY <2>1, <2>2
<1>11. CASE CreateSourceFile(c)
  <2>1. IsCopy(call[c].path, cid[c]) /\ call[c].pc \in Saved
    BY <1>11 DEF CreateSourceFile, CopyInv, HoldsCopy, Saved
  <2> QED
    BY <1>0, <1>4, <1>5, <1>11, <2>1 DEF CreateSourceFile, RemoveAndAnswer
<1>12. CASE IsFileExistsFullPath(c)
  BY <1>3, <1>12 DEF IsFileExistsFullPath, store, Saved
<1>13. CASE RepointSourceFile(c)
  <2>1. IsCopy(call[c].path, cid[c]) /\ call[c].pc \in Saved
    BY <1>13 DEF RepointSourceFile, CopyInv, HoldsCopy, Saved
  <2> QED
    BY <1>0, <1>4, <1>5, <1>13, <2>1 DEF RepointSourceFile, SaveSourceFile
<1>14. CASE KeepSourceFile(c)
  <2>1. /\ IsCopy(call[c].row.uri, cid[c]) /\ call[c].pc \in Saved
        /\ call[c].row.uri \in Paths
    BY <1>0, <1>14, PathTypes DEF KeepSourceFile, CopyInv, SawCopy, Saved, CallHasRow
  <2> QED
    BY <1>0, <1>4, <1>5, <1>14, <2>1 DEF KeepSourceFile, SaveSourceFile
<1>15. CASE RemoveCurrentCopy(c)
  BY <1>3, <1>4, <1>15 DEF RemoveCurrentCopy, Saved
<1>16. CASE GetSourceFileUploadFreeUsage(c)
  <2>1. CASE Fail(c)
    BY <1>4, <1>16, <2>1 DEF GetSourceFileUploadFreeUsage, store
  <2>2. CASE ~Fail(c)
    <3>1. call'[c].pc = "record" /\ call'[c].path = call[c].path /\ UNCHANGED cid
      BY <1>16, <1>0, <2>2 DEF GetSourceFileUploadFreeUsage, store, SaveCall
    <3>2. HoldsCopy(c)' /\ SawCopy(c)'
      BY <1>0, <1>16, <3>1, CallKeepsCopies DEF GetSourceFileUploadFreeUsage, Saved
    <3> QED
      BY <1>0, <1>1, <1>16, <3>2, CopiesKept DEF GetSourceFileUploadFreeUsage, store
  <2> QED
    BY <2>1, <2>2
<1>17. CASE CreateSourceFileUpload(c)
  BY <1>4, <1>17 DEF CreateSourceFileUpload, RemoveAndAnswer
<1> QED
  BY <1>6, <1>7, <1>8, <1>9, <1>10, <1>11, <1>12, <1>13, <1>14, <1>15, <1>16, <1>17 DEF SaveFile

\* Every step does.
LEMMA CopyNext == CopyInv /\ [StorageNext]_storageVars => CopyInv'
<1> SUFFICES ASSUME CopyInv, [StorageNext]_storageVars PROVE CopyInv'
  OBVIOUS
<1>0. /\ RowInv /\ LockInv' /\ DiskStep
      /\ sourceFile \in [Payloads -> SourceRow \cup {Null}]
      /\ \A d \in Calls : CallHasRow(d)
  BY LockNext DEF CopyInv, LockInv, RowInv, StorageTypeOK
<1>1. ASSUME NEW c \in Calls, SaveFile(c) PROVE CopyInv'
  BY <1>1, SaveFileKeepsCopies
\* Rows keep their uri, and calls end or stay where they are.
<1>2. ASSUME \A p \in Payloads : /\ sourceFile'[p] # Null => sourceFile[p] # Null
                                 /\ sourceFile[p] # Null => sourceFile'[p].uri = sourceFile[p].uri,
             \A c \in Calls : \/ call'[c] = call[c]
                              \/ call'[c].pc = "error",
             UNCHANGED cid
      PROVE  CopyInv'
  <2>1. ASSUME NEW p \in Payloads PROVE RowHasCopy(p)'
    BY <1>0, <1>2, PathTypes, CopiesStay DEF CopyInv, RowHasCopy, IsCopy
  <2>2. ASSUME NEW c \in Calls PROVE HoldsCopy(c)' /\ SawCopy(c)'
    <3>1. CASE call'[c].pc = "error"
      BY <3>1, OverHoldsNothing
    <3>2. CASE call'[c] = call[c]
      BY <1>0, <1>2, <3>2, CallKeepsCopies
    <3> QED
      BY <1>2, <3>1, <3>2
  <2> QED
    BY <1>0, <2>1, <2>2 DEF CopyInv
<1>3. ASSUME NEW k \in Unpins, UnpinSourceFile(k) PROVE CopyInv'
  <2>1. UNCHANGED <<call, cid>>
    BY <1>3 DEF UnpinSourceFile, UpdateSourceFileUploadPinStatus, GetSourceFileUploadsPinned,
                IpfsPinRm, UpdateSourceFilePinStatus, store
  <2>2. \A p \in Payloads : /\ sourceFile'[p] # Null => sourceFile[p] # Null
                            /\ sourceFile[p] # Null => sourceFile'[p].uri = sourceFile[p].uri
    <3>1. CASE UNCHANGED sourceFile
      BY <3>1
    <3>2. CASE /\ unpin[k].pc = "mark"
               /\ sourceFile' = [sourceFile EXCEPT ![cid[unpin[k].target]].pin = "Unpinned"]
      <4>1. /\ cid[unpin[k].target] \in Payloads
            /\ sourceFile[cid[unpin[k].target]] # Null
        BY <3>2, PayloadType, StorageAssumption
        DEF CopyInv, LockInv, RowInv, UnpinHasRow, UploadHasRow
      <4> QED
        BY <1>0, <3>2, <4>1 DEF SourceRow
    <3> QED
      BY <1>3, <3>1, <3>2
      DEF UnpinSourceFile, UpdateSourceFileUploadPinStatus, GetSourceFileUploadsPinned,
          IpfsPinRm, UpdateSourceFilePinStatus, store
  <2> QED
    BY <1>2, <2>1, <2>2
<1>4. CASE LoseCopy
  BY <1>2, <1>4 DEF LoseCopy
<1>5. CASE Restart
  <2>1. \A c \in Calls : call'[c] = call[c] \/ call'[c] = At("error")
    BY <1>5 DEF Restart
  <2>2. \A c \in Calls : call'[c] = call[c] \/ call'[c].pc = "error"
    BY <2>1 DEF At
  <2>3. UNCHANGED <<sourceFile, cid>>
    BY <1>5 DEF Restart, store
  <2> QED
    BY <1>2, <2>2, <2>3
<1>6. CASE UNCHANGED storageVars
  BY <1>2, <1>6 DEF storageVars, store
<1> QED
  BY <1>1, <1>3, <1>4, <1>5, <1>6 DEF StorageNext

\* A source_file row whose path was never vacated refers to a copy of its payload.
THEOREM RowsReferToTheirCopies == StorageSpec => []CopyIsItsPayload
<1>1. StorageInit => CopyInv
  BY CopyInit
<1>2. CopyInv /\ [StorageNext]_storageVars => CopyInv'
  BY CopyNext
<1>3. CopyInv => CopyIsItsPayload
  BY DEF CopyInv, CopyIsItsPayload, RowHasCopy, IsCopy
<1> QED
  BY <1>1, <1>2, <1>3, PTL DEF StorageSpec

-----------------------------------------------------------------------------
\* What a running unpin request knows of the uploads that were there before it:
\* they are of its file, and by the time it asks IPFS none of them is pinned.
OlderRecorded(k) ==
  unpin[k].pc \in {"list", "rm"} =>
    \A c \in unpin[k].older : cid[c] = cid[unpin[k].target] /\ upload[c].pin # "None"
OlderUnpinned(k) ==
  unpin[k].pc = "rm" => \A c \in unpin[k].older : upload[c].pin = "Unpinned"

UnpinInv == RowInv /\ \A k \in Unpins : OlderRecorded(k) /\ OlderUnpinned(k)

\* A recorded upload is never pinned again.
LEMMA NeverPinnedAgain ==
  ASSUME RowInv, [StorageNext]_storageVars, NEW c \in Calls, upload[c].pin # "None"
  PROVE  upload'[c].pin \in {upload[c].pin, "Unpinned"}
<1>0. upload \in [Calls -> UploadRow] /\ UploadHasRow(c)
  BY DEF RowInv, StorageTypeOK
<1>1. CASE UNCHANGED upload
  BY <1>1
<1>2. ASSUME NEW d \in Calls, CreateSourceFileUpload(d)
      PROVE  upload'[c].pin \in {upload[c].pin, "Unpinned"}
  <2>1. d # c
    BY <1>0, <1>2 DEF CreateSourceFileUpload, UploadHasRow
  <2> QED
    BY <1>0, <1>2, <2>1 DEF CreateSourceFileUpload
<1>3. ASSUME NEW k \in Unpins, UpdateSourceFileUploadPinStatus(k)
      PROVE  upload'[c].pin \in {upload[c].pin, "Unpinned"}
  BY <1>0, <1>3 DEF UpdateSourceFileUploadPinStatus, UploadRow
<1> QED
  BY <1>1, <1>2, <1>3
  DEF StorageNext, storageVars, store, SaveFile, LockUpload, ChooseFilename, SaveUploadedFile,
      IpfsUploadFile, GetSourceFileByPayloadCid, CreateSourceFile, IsFileExistsFullPath,
      RepointSourceFile, KeepSourceFile, SaveSourceFile, RemoveCurrentCopy,
      GetSourceFileUploadFreeUsage, UnpinSourceFile, GetSourceFileUploadsPinned, IpfsPinRm,
      UpdateSourceFilePinStatus, LoseCopy, Restart

\* No unpin request runs at the start.
LEMMA UnpinInit == StorageInit => UnpinInv
BY RowInit DEF StorageInit, UnpinInv, OlderRecorded, OlderUnpinned

\* Every step keeps what the unpin requests know.
LEMMA UnpinNext == UnpinInv /\ [StorageNext]_storageVars => UnpinInv'
<1> SUFFICES ASSUME UnpinInv, [StorageNext]_storageVars PROVE UnpinInv'
  OBVIOUS
<1>0. /\ RowInv /\ RowInv' /\ unpin \in [Unpins -> UnpinCall] /\ upload \in [Calls -> UploadRow]
  BY RowNext DEF UnpinInv, RowInv, StorageTypeOK
<1>1. \A c \in Calls : upload[c].pin # "None" => upload'[c].pin \in {upload[c].pin, "Unpinned"}
  BY <1>0, NeverPinnedAgain
<1>c. \A c \in Calls : upload[c].pin # "None" => cid'[c] = cid[c]
  BY <1>0, CidStays
<1>2. ASSUME NEW j \in Unpins,
             unpin'[j] = unpin[j] \/ unpin'[j].pc \notin {"list", "rm"}
      PROVE  OlderRecorded(j)' /\ OlderUnpinned(j)'
  <2>1. unpin[j].older \subseteq Calls
    BY <1>0 DEF UnpinCall
  <2> QED
    <3>1. unpin[j].pc \in {"list", "rm"} =>
            unpin[j].target \in Calls /\ cid'[unpin[j].target] = cid[unpin[j].target]
      BY <1>0, <1>c, StorageAssumption DEF RowInv, UnpinHasRow
    <3> QED
      BY <1>1, <1>c, <1>2, <2>1, <3>1 DEF UnpinInv, OlderRecorded, OlderUnpinned
<1>3. ASSUME NEW k \in Unpins, UpdateSourceFileUploadPinStatus(k) PROVE UnpinInv'
  <2>1. PICK c \in Calls :
          /\ upload[c].pin # "None"
          /\ upload' = [upload EXCEPT ![c].pin = "Unpinned"]
          /\ unpin' = [unpin EXCEPT ![k] = [pc |-> "list", target |-> c,
                                            older |-> Recorded(cid[c])]]
    BY <1>3 DEF UpdateSourceFileUploadPinStatus
  <2>2. \A j \in Unpins \ {k} : unpin'[j] = unpin[j]
    BY <1>0, <2>1
  <2>3. unpin'[k].pc = "list" /\ unpin'[k].target = c /\ unpin'[k].older = Recorded(cid[c])
    BY <1>0, <2>1
  <2>4. OlderRecorded(k)' /\ OlderUnpinned(k)'
    BY <1>1, <1>c, <2>1, <2>3 DEF OlderRecorded, OlderUnpinned, Recorded
  <2> QED
    BY <1>0, <1>2, <2>2, <2>4 DEF UnpinInv
<1>4. ASSUME NEW k \in Unpins, GetSourceFileUploadsPinned(k) PROVE UnpinInv'
  <2>1. /\ unpin'[k].target = unpin[k].target /\ unpin'[k].older = unpin[k].older
        /\ unpin'[k].pc = "rm" =>
             \A c \in SameFile(unpin[k].target) : upload[c].pin # "Pinned"
        /\ unpin[k].pc = "list" /\ unpin'[k].pc \in {"rm", "done", "error"}
        /\ \A j \in Unpins \ {k} : unpin'[j] = unpin[j]
    BY <1>0, <1>4, GotoUnpin DEF GetSourceFileUploadsPinned, UnpinPc
  <2>2. UNCHANGED <<upload, cid>> /\ unpin[k].older \subseteq Calls
    BY <1>0, <1>4 DEF GetSourceFileUploadsPinned, store, UnpinCall
  <2>3. \A c \in Calls : upload[c].pin \in {"Pinned", "Unpinned", "None"}
    BY <1>0 DEF UploadRow, PinStatus
  <2>4. OlderRecorded(k)' /\ OlderUnpinned(k)'
    BY <2>1, <2>2, <2>3 DEF UnpinInv, OlderRecorded, OlderUnpinned, SameFile
  <2> QED
    BY <1>0, <1>2, <2>1, <2>4 DEF UnpinInv
<1>5. ASSUME NEW k \in Unpins, IpfsPinRm(k) \/ UpdateSourceFilePinStatus(k) PROVE UnpinInv'
  <2>1. /\ unpin'[k].pc \in {"mark", "done", "error"}
        /\ \A j \in Unpins \ {k} : unpin'[j] = unpin[j]
    BY <1>0, <1>5, GotoUnpin DEF IpfsPinRm, UpdateSourceFilePinStatus, UnpinPc
  <2> QED
    BY <1>0, <1>2, <2>1 DEF UnpinInv
<1>6. CASE UNCHANGED unpin
  BY <1>0, <1>2, <1>6 DEF UnpinInv
<1>7. CASE Restart
  <2>1. \A j \in Unpins : unpin'[j] = unpin[j] \/ unpin'[j].pc \notin {"list", "rm"}
    <3>1. \A j \in Unpins : unpin'[j] = unpin[j] \/ unpin'[j] = [unpin[j] EXCEPT !.pc = "error"]
      BY <1>7 DEF Restart
    <3> QED
      BY <1>0, <3>1 DEF UnpinCall
  <2> QED
    BY <1>0, <1>2, <2>1 DEF UnpinInv
<1> QED
  BY <1>3, <1>4, <1>5, <1>6, <1>7
  DEF StorageNext, storageVars, UnpinSourceFile, SaveFile, LockUpload, ChooseFilename,
      SaveUploadedFile, IpfsUploadFile, GetSourceFileByPayloadCid, CreateSourceFile,
      IsFileExistsFullPath, RepointSourceFile, KeepSourceFile, SaveSourceFile,
      RemoveCurrentCopy, GetSourceFileUploadFreeUsage, CreateSourceFileUpload, LoseCopy

\* IPFS gives up a payload only for a request before which every upload of it that
\* was there has been unpinned.
THEOREM UnpinsSpareOlderUploads == StorageSpec => UnpinSparesOlder
<1>1. StorageInit => UnpinInv
  BY UnpinInit
<1>2. UnpinInv /\ [StorageNext]_storageVars => UnpinInv'
  BY UnpinNext
<1>3. UnpinInv /\ [StorageNext]_storageVars =>
        [\A p \in pins \ pins' :
           \E k \in Unpins :
             /\ unpin[k].pc = "rm" /\ cid[unpin[k].target] = p
             /\ \A c \in unpin[k].older : upload[c].pin = "Unpinned"]_storageVars
  <2> SUFFICES ASSUME UnpinInv, StorageNext, NEW p \in pins \ pins'
               PROVE  \E k \in Unpins :
                        /\ unpin[k].pc = "rm" /\ cid[unpin[k].target] = p
                        /\ \A c \in unpin[k].older : upload[c].pin = "Unpinned"
    OBVIOUS
  <2>1. PICK k \in Unpins : IpfsPinRm(k)
    BY DEF StorageNext, store, SaveFile, LockUpload, ChooseFilename, SaveUploadedFile,
           IpfsUploadFile, GetSourceFileByPayloadCid, CreateSourceFile, IsFileExistsFullPath,
           RepointSourceFile, KeepSourceFile, SaveSourceFile, RemoveCurrentCopy,
           GetSourceFileUploadFreeUsage, CreateSourceFileUpload, UnpinSourceFile,
           UpdateSourceFileUploadPinStatus, GetSourceFileUploadsPinned,
           UpdateSourceFilePinStatus, LoseCopy, Restart
  <2>2. unpin[k].pc = "rm" /\ p = cid[unpin[k].target]
    BY <2>1 DEF IpfsPinRm
  <2> QED
    BY <2>2 DEF UnpinInv, OlderUnpinned
<1> QED
  BY <1>1, <1>2, <1>3, PTL DEF StorageSpec, UnpinSparesOlder

-----------------------------------------------------------------------------
\* No request that has taken the payload to IPFS is half done or failed, an unpin
\* request about to mark the row apart: what is left to do for p, that one does.
UnpinOf(k, p) == unpin[k].target # Null /\ cid[unpin[k].target] = p
CallOver(c) == call[c].pc \in BeforeAdd \/ (call[c].pc = "ok" /\ upload[c].pin # "None")
Quiet(p) ==
  /\ \A c \in Calls : cid[c] = p => CallOver(c)
  /\ \A k \in Unpins : UnpinOf(k, p) => unpin[k].pc \notin {"list", "rm", "error"}
AtMark(p) == \E k \in Unpins : unpin[k].pc = "mark" /\ UnpinOf(k, p)
AllUnpinned(p) ==
  /\ \E c \in Calls : cid[c] = p /\ upload[c].pin # "None"
  /\ \A c \in Calls : cid[c] = p /\ upload[c].pin # "None" => upload[c].pin = "Unpinned"

\* The server has let p go before the row says so.
Released(p) ==
  Quiet(p) /\ AllUnpinned(p) =>
    p \notin pins /\ (sourceFile[p].pin = "Unpinned" \/ AtMark(p))

ReleaseInv == RowInv /\ \A p \in Payloads : Released(p)

UploadOf(c, p) == cid[c] = p /\ upload[c].pin # "None"

\* Nothing that the claim about p reads has changed.
LEMMA ReleasedKept ==
  ASSUME NEW p \in Payloads, Released(p),
         p \in pins' => p \in pins, sourceFile'[p] = sourceFile[p],
         \A c \in Calls :
           /\ cid[c] = p /\ ~CallOver(c) => cid'[c] = p /\ ~CallOver(c)'
           /\ (UploadOf(c, p) \/ UploadOf(c, p)') =>
                cid'[c] = cid[c] /\ upload'[c].pin = upload[c].pin,
         \A k \in Unpins :
           \/ unpin'[k].pc = unpin[k].pc /\ (UnpinOf(k, p)' <=> UnpinOf(k, p))
           \/ ~UnpinOf(k, p)' /\ (UnpinOf(k, p) => unpin[k].pc = "start")
  PROVE  Released(p)'
<1> SUFFICES ASSUME Quiet(p)', AllUnpinned(p)'
             PROVE  p \notin pins' /\ (sourceFile'[p].pin = "Unpinned" \/ AtMark(p)')
  BY DEF Released
<1>1. AllUnpinned(p)
  BY DEF AllUnpinned, UploadOf
<1>2. Quiet(p)
  <2>1. ASSUME NEW c \in Calls, cid[c] = p PROVE CallOver(c)
    BY <2>1 DEF Quiet
  <2>2. ASSUME NEW k \in Unpins, UnpinOf(k, p) PROVE unpin[k].pc \notin {"list", "rm", "error"}
    BY <2>2 DEF Quiet
  <2> QED
    BY <2>1, <2>2 DEF Quiet
<1>3. AtMark(p) => AtMark(p)'
  BY DEF AtMark
<1> QED
  BY <1>1, <1>2, <1>3 DEF Released

\* An upload request touches its own row, its payload's row and pin only, does not
\* end well without a pinned row of its own, and touches nothing before it turns to
\* IPFS.
LEMMA SaveFileFrame ==
  ASSUME RowInv, NEW c \in Calls, SaveFile(c)
  PROVE  /\ UNCHANGED unpin
         /\ call[c].pc # "ok" /\ upload[c].pin = "None"
         /\ call'[c].pc \in BeforeAdd =>
              call[c].pc \in BeforeAdd /\ UNCHANGED <<pins, sourceFile, upload, cid>>
         /\ upload'[c].pin # "None" => call'[c].pc = "ok" /\ upload'[c].pin = "Pinned"
         /\ cid'[c] # cid[c] => call[c].pc = "add"
         /\ \A d \in Calls \ {c} :
              call'[d] = call[d] /\ upload'[d] = upload[d] /\ cid'[d] = cid[d]
         /\ \A q \in Payloads \ {cid'[c]} :
              sourceFile'[q] = sourceFile[q] /\ (q \in pins' <=> q \in pins)
<1> USE DEF BeforeAdd
<1>0. /\ call \in [Calls -> SaveCall] /\ upload \in [Calls -> UploadRow]
      /\ sourceFile \in [Payloads -> SourceRow \cup {Null}] /\ cid \in [Calls -> Payloads]
      /\ UploadHasRow(c)
  BY DEF RowInv, StorageTypeOK
<1>f. ASSUME Fail(c) PROVE call'[c].pc = "error" /\ \A d \in Calls \ {c} : call'[d] = call[d]
  BY <1>0, <1>f, AnswerCall DEF Fail, SavePc
<1>a. ASSUME Answer(c, "ok")
      PROVE  call'[c].pc = "ok" /\ \A d \in Calls \ {c} : call'[d] = call[d]
  BY <1>0, <1>a, AnswerCall DEF SavePc
<1>g. ASSUME NEW pc \in SavePc, Goto(c, pc)
      PROVE  call'[c].pc = pc /\ \A d \in Calls \ {c} : call'[d] = call[d]
  BY <1>0, <1>g, GotoCall
<1>n. call[c].pc # "ok" /\ upload[c].pin = "None"
  <2>1. call[c].pc # "ok"
    BY DEF SaveFile, LockUpload, ChooseFilename, SaveUploadedFile, IpfsUploadFile,
           GetSourceFileByPayloadCid, CreateSourceFile, IsFileExistsFullPath,
           RepointSourceFile, KeepSourceFile, RemoveCurrentCopy,
           GetSourceFileUploadFreeUsage, CreateSourceFileUpload
  <2> QED
    BY <1>0, <2>1 DEF UploadHasRow
<1>1. CASE LockUpload(c)
  BY <1>1, <1>n, <1>g DEF LockUpload, store, SavePc
<1>2. CASE ChooseFilename(c)
  <2>1. PICK path \in Paths : call' = [call EXCEPT ![c].pc = "save", ![c].path = path]
    BY <1>2 DEF ChooseFilename
  <2>2. call' = [call EXCEPT ![c] = [call[c] EXCEPT !.pc = "save", !.path = path]]
    BY <1>0, <2>1
  <2>3. call'[c].pc = "save" /\ \A d \in Calls \ {c} : call'[d] = call[d]
    BY <1>0, <2>2 DEF SaveCall
  <2> QED
    BY <1>2, <1>n, <2>3 DEF ChooseFilename, store
<1>3. CASE SaveUploadedFile(c)
  BY <1>3, <1>n, <1>f, <1>g DEF SaveUploadedFile, SavePc
<1>4. CASE IpfsUploadFile(c)
  BY <1>0, <1>4, <1>n, <1>f, <1>g DEF IpfsUploadFile, SavePc
<1>5. CASE GetSourceFileByPayloadCid(c)
  <2>1. \/ call'[c].pc = "error" /\ \A d \in Calls \ {c} : call'[d] = call[d]
        \/ call'[c].pc \in {"create", "check"} /\ \A d \in Calls \ {c} : call'[d] = call[d]
    BY <1>0, <1>5, <1>f DEF GetSourceFileByPayloadCid, SaveCall
  <2> QED
    BY <1>5, <1>n, <2>1 DEF GetSourceFileByPayloadCid, store
<1>6. CASE CreateSourceFile(c)
  BY <1>0, <1>6, <1>n, <1>f, <1>a, <1>g DEF CreateSourceFile, RemoveAndAnswer, SavePc
<1>7. CASE IsFileExistsFullPath(c)
  BY <1>7, <1>n, <1>g DEF IsFileExistsFullPath, store, SavePc
<1>8. CASE RepointSourceFile(c)
  BY <1>0, <1>8, <1>n, <1>f, <1>g DEF RepointSourceFile, SaveSourceFile, SavePc
<1>9. CASE KeepSourceFile(c)
  BY <1>0, <1>9, <1>n, <1>f, <1>g DEF KeepSourceFile, SaveSourceFile, SavePc
<1>10. CASE RemoveCurrentCopy(c)
  BY <1>10, <1>n, <1>f, <1>g DEF RemoveCurrentCopy, SavePc
<1>11. CASE GetSourceFileUploadFreeUsage(c)
  <2>1. \/ call'[c].pc = "error" /\ \A d \in Calls \ {c} : call'[d] = call[d]
        \/ call'[c].pc = "record" /\ \A d \in Calls \ {c} : call'[d] = call[d]
    BY <1>0, <1>11, <1>f DEF GetSourceFileUploadFreeUsage, SaveCall
  <2> QED
    BY <1>11, <1>n, <2>1 DEF GetSourceFileUploadFreeUsage, store
<1>12. CASE CreateSourceFileUpload(c)
  BY <1>0, <1>12, <1>n, <1>f, <1>a DEF CreateSourceFileUpload, RemoveAndAnswer
<1> QED
  BY <1>1, <1>2, <1>3, <1>4, <1>5, <1>6, <1>7, <1>8, <1>9, <1>10, <1>11, <1>12 DEF SaveFile

\* Nothing is uploaded at the start.
LEMMA ReleaseInit == StorageInit => ReleaseInv
BY RowInit DEF StorageInit, ReleaseInv, Released, AllUnpinned

\* Every step keeps a payload released that nobody uses.
LEMMA ReleaseNext == ReleaseInv /\ [StorageNext]_storageVars => ReleaseInv'
<1> SUFFICES ASSUME ReleaseInv, [StorageNext]_storageVars, NEW p \in Payloads
             PROVE  Released(p)'
  BY RowNext DEF ReleaseInv
<1>0. /\ RowInv /\ Released(p)
      /\ unpin \in [Unpins -> UnpinCall] /\ upload \in [Calls -> UploadRow]
      /\ call \in [Calls -> SaveCall] /\ sourceFile \in [Payloads -> SourceRow \cup {Null}]
  BY DEF ReleaseInv, RowInv, StorageTypeOK
\* The request k alone has changed, and it is not p's.
<1>k. ASSUME NEW k \in Unpins, UNCHANGED <<call, cid>>, ~UnpinOf(k, p)', ~UnpinOf(k, p) \/ unpin[k].pc = "start",
             \A j \in Unpins \ {k} : unpin'[j] = unpin[j],
             p \in pins' => p \in pins, sourceFile'[p] = sourceFile[p],
             \A c \in Calls : cid[c] = p => upload'[c].pin = upload[c].pin
      PROVE  Released(p)'
  <2>1. \A c \in Calls :
          /\ cid[c] = p /\ ~CallOver(c) => cid'[c] = p /\ ~CallOver(c)'
          /\ (UploadOf(c, p) \/ UploadOf(c, p)') =>
               cid'[c] = cid[c] /\ upload'[c].pin = upload[c].pin
    BY <1>k DEF CallOver, UploadOf
  <2>2. \A j \in Unpins \ {k} : UnpinOf(j, p)' <=> UnpinOf(j, p)
    BY <1>k DEF UnpinOf
  <2> QED
    BY <1>0, <1>k, <2>1, <2>2, ReleasedKept
<1>1. ASSUME NEW c \in Calls, SaveFile(c) PROVE Released(p)'
  <2>0. /\ UNCHANGED unpin
        /\ call[c].pc # "ok" /\ upload[c].pin = "None"
        /\ call'[c].pc \in BeforeAdd =>
             call[c].pc \in BeforeAdd /\ UNCHANGED <<pins, sourceFile, upload, cid>>
        /\ upload'[c].pin # "None" => call'[c].pc = "ok" /\ upload'[c].pin = "Pinned"
        /\ cid'[c] # cid[c] => call[c].pc = "add"
        /\ \A d \in Calls \ {c} :
             call'[d] = call[d] /\ upload'[d] = upload[d] /\ cid'[d] = cid[d]
        /\ \A q \in Payloads \ {cid'[c]} :
             sourceFile'[q] = sourceFile[q] /\ (q \in pins' <=> q \in pins)
    BY <1>0, <1>1, SaveFileFrame
  <2>u. \A k \in Unpins : UnpinOf(k, p)' <=> UnpinOf(k, p)
    <3>1. \A k \in Unpins : unpin[k].target \in (Calls \ {c}) \cup {Null}
      BY <1>0, <2>0 DEF RowInv, UnpinHasRow, UnpinCall
    <3> QED
      BY <2>0, <3>1 DEF UnpinOf
  <2>o. \A d \in Calls \ {c} :
          /\ cid[d] = p /\ ~CallOver(d) => cid'[d] = p /\ ~CallOver(d)'
          /\ (UploadOf(d, p) \/ UploadOf(d, p)') =>
               cid'[d] = cid[d] /\ upload'[d].pin = upload[d].pin
    BY <2>0 DEF CallOver, UploadOf
  <2>1. CASE call'[c].pc \in BeforeAdd
    <3>1. CallOver(c) /\ ~UploadOf(c, p) /\ ~UploadOf(c, p)'
      BY <2>0, <2>1 DEF CallOver, UploadOf
    <3> QED
      BY <1>0, <2>0, <2>1, <2>u, <2>o, <3>1, ReleasedKept
  <2>2. CASE call'[c].pc \notin BeforeAdd /\ cid'[c] = p
    <3> SUFFICES ASSUME Quiet(p)', AllUnpinned(p)' PROVE FALSE
      BY DEF Released
    <3>1. CallOver(c)'
      BY <2>2 DEF Quiet
    <3>2. call'[c].pc = "ok" /\ upload'[c].pin = "Pinned"
      BY <2>0, <2>2, <3>1 DEF CallOver
    <3> QED
      BY <2>2, <3>2 DEF AllUnpinned
  <2>3. CASE cid'[c] # p
    <3>1. cid[c] = p => CallOver(c)
      BY <2>0, <2>3 DEF CallOver, BeforeAdd
    <3>2. ~UploadOf(c, p) /\ ~UploadOf(c, p)'
      BY <2>0, <2>3 DEF UploadOf
    <3> QED
      BY <1>0, <2>0, <2>3, <2>u, <2>o, <3>1, <3>2, ReleasedKept
  <2> QED
    BY <2>1, <2>2, <2>3
<1>2. ASSUME NEW k \in Unpins, UpdateSourceFileUploadPinStatus(k) PROVE Released(p)'
  <2>1. PICK c \in Calls :
          /\ upload[c].pin # "None"
          /\ upload' = [upload EXCEPT ![c].pin = "Unpinned"]
          /\ unpin' = [unpin EXCEPT ![k] = [pc |-> "list", target |-> c,
                                            older |-> Recorded(cid[c])]]
    BY <1>2 DEF UpdateSourceFileUploadPinStatus
  <2>2. /\ unpin'[k].pc = "list" /\ unpin'[k].target = c /\ c # Null
        /\ \A j \in Unpins \ {k} : unpin'[j] = unpin[j]
    BY <1>0, <2>1, StorageAssumption
  <2>3. CASE cid[c] = p
    <3>1. cid'[c] = p
      BY <1>2, <2>3 DEF UpdateSourceFileUploadPinStatus
    <3> QED
      BY <2>2, <3>1 DEF Released, Quiet, UnpinOf
  <2>4. CASE cid[c] # p
    <3>1. unpin[k].pc = "start" /\ UNCHANGED <<pins, sourceFile, call, cid>>
      BY <1>2 DEF UpdateSourceFileUploadPinStatus
    <3>2. \A d \in Calls : cid[d] = p => upload'[d].pin = upload[d].pin
      BY <1>0, <2>1, <2>4
    <3>3. ~UnpinOf(k, p)'
      BY <2>2, <2>4, <3>1 DEF UnpinOf
    <3> QED
      BY <2>2, <3>1, <3>2, <3>3, <1>k
  <2> QED
    BY <2>3, <2>4
<1>3. ASSUME NEW k \in Unpins,
             GetSourceFileUploadsPinned(k) \/ IpfsPinRm(k) \/ UpdateSourceFilePinStatus(k)
      PROVE  Released(p)'
  <2> DEFINE target == unpin[k].target
  <2>1. /\ unpin'[k].target = target
        /\ \A j \in Unpins \ {k} : unpin'[j] = unpin[j]
        /\ UNCHANGED <<call, upload, cid>>
    BY <1>0, <1>3, GotoUnpin
    DEF GetSourceFileUploadsPinned, IpfsPinRm, UpdateSourceFilePinStatus, UnpinPc, store
  <2>2. target \in Calls /\ target # Null /\ cid[target] \in Payloads
    BY <1>0, <1>3, PayloadType, StorageAssumption
    DEF GetSourceFileUploadsPinned, IpfsPinRm, UpdateSourceFilePinStatus, RowInv, UnpinHasRow
  <2>3. CASE cid[target] # p
    <3>1. (p \in pins' => p \in pins) /\ sourceFile'[p] = sourceFile[p]
      BY <1>0, <1>3, <2>2, <2>3
      DEF GetSourceFileUploadsPinned, IpfsPinRm, UpdateSourceFilePinStatus, store
    <3>2. ~UnpinOf(k, p) /\ ~UnpinOf(k, p)'
      BY <2>1, <2>3 DEF UnpinOf
    <3> QED
      BY <2>1, <3>1, <3>2, <1>k
  <2>4. CASE cid[target] = p
    <3> SUFFICES ASSUME Quiet(p)', AllUnpinned(p)'
                 PROVE  p \notin pins' /\ (sourceFile'[p].pin = "Unpinned" \/ AtMark(p)')
      BY DEF Released
    <3>1. UnpinOf(k, p)' /\ unpin'[k].pc \notin {"list", "rm", "error"}
      BY <2>1, <2>2, <2>4 DEF UnpinOf, Quiet
    <3>2. CASE GetSourceFileUploadsPinned(k)
      <4>1. PICK c \in SameFile(target) : upload[c].pin = "Pinned"
        BY <1>0, <3>1, <3>2, GotoUnpin DEF GetSourceFileUploadsPinned, UnpinPc
      <4> QED
        BY <2>1, <2>4, <4>1 DEF AllUnpinned, SameFile
    <3>3. CASE IpfsPinRm(k)
      <4>1. p \notin pins' /\ unpin'[k].pc = "mark"
        BY <1>0, <2>4, <3>1, <3>3, GotoUnpin DEF IpfsPinRm, UnpinPc
      <4> QED
        BY <3>1, <4>1 DEF AtMark
    <3>4. CASE UpdateSourceFilePinStatus(k)
      <4>1. sourceFile' = [sourceFile EXCEPT ![p].pin = "Unpinned"] /\ UNCHANGED pins
        BY <1>0, <2>4, <3>1, <3>4, GotoUnpin DEF UpdateSourceFilePinStatus, UnpinPc
      <4>2. unpin[k].pc = "mark"
        BY <3>4 DEF UpdateSourceFilePinStatus
      <4>3. sourceFile[p] \in SourceRow
        BY <1>0, <2>2, <2>4, <4>2 DEF RowInv, UnpinHasRow, UploadHasRow
      <4>4. sourceFile'[p].pin = "Unpinned"
        BY <1>0, <4>1, <4>3 DEF SourceRow
      <4>5. AllUnpinned(p)
        BY <2>1 DEF AllUnpinned
      <4>6. Quiet(p)
        <5>1. ASSUME NEW j \in Unpins, UnpinOf(j, p)
              PROVE  unpin[j].pc \notin {"list", "rm", "error"}
          BY <2>1, <4>2, <5>1 DEF Quiet, UnpinOf
        <5>2. ASSUME NEW c \in Calls, cid[c] = p PROVE CallOver(c)
          BY <2>1, <5>2 DEF Quiet, CallOver
        <5> QED
          BY <5>1, <5>2 DEF Quiet
      <4> QED
        BY <1>0, <4>1, <4>4, <4>5, <4>6 DEF Released
    <3> QED
      BY <1>3, <3>2, <3>3, <3>4
  <2> QED
    BY <2>3, <2>4
<1>4. CASE LoseCopy
  BY <1>0, <1>4, ReleasedKept DEF LoseCopy, CallOver, UploadOf, UnpinOf
<1>5. CASE Restart
  <2> SUFFICES ASSUME Quiet(p)', AllUnpinned(p)'
               PROVE  p \notin pins' /\ (sourceFile'[p].pin = "Unpinned" \/ AtMark(p)')
    BY DEF Released
  <2>1. UNCHANGED <<pins, sourceFile, upload, cid>>
    BY <1>5 DEF Restart, store
  <2>2. \A c \in Calls : call'[c] = call[c] \/ call'[c] = At("error")
    BY <1>5 DEF Restart
  <2>3. \A k \in Unpins :
          /\ unpin'[k].target = unpin[k].target
          /\ unpin[k].pc \in {"start", "done"} \/ unpin'[k].pc = "error"
    BY <1>0, <1>5 DEF Restart, UnpinCall
  <2>4. AllUnpinned(p)
    BY <2>1 DEF AllUnpinned
  <2>5. ASSUME NEW c \in Calls, cid[c] = p PROVE CallOver(c)
    <3>1. call'[c].pc # "error"
      BY <2>1, <2>5 DEF Quiet, CallOver, BeforeAdd
    <3> QED
      BY <2>1, <2>2, <2>5, <3>1 DEF Quiet, CallOver, At
  <2>6. ASSUME NEW k \in Unpins, UnpinOf(k, p) PROVE unpin[k].pc \in {"start", "done"}
    BY <2>1, <2>3, <2>6 DEF Quiet, UnpinOf
  <2>7. Quiet(p) /\ ~AtMark(p)
    BY <2>5, <2>6 DEF Quiet, AtMark
  <2> QED
    BY <1>0, <2>1, <2>4, <2>7 DEF Released
<1>6. CASE UNCHANGED storageVars
  BY <1>0, <1>6, ReleasedKept DEF storageVars, store, CallOver, UploadOf, UnpinOf
<1> QED
  BY <1>1, <1>2, <1>3, <1>4, <1>5, <1>6 DEF StorageNext, UnpinSourceFile

\* Of several unpin requests for the uploads of one file, the last releases it.
THEOREM TheLastUnpinReleases == StorageSpec => []LastUnpinReleases
<1>1. StorageInit => ReleaseInv
  BY ReleaseInit
<1>2. ReleaseInv /\ [StorageNext]_storageVars => ReleaseInv'
  BY ReleaseNext
<1>3. ReleaseInv => LastUnpinReleases
  <2> SUFFICES ASSUME ReleaseInv, NEW p \in Payloads, Settled(p), Recorded(p) # {},
                      \A c \in Recorded(p) : upload[c].pin = "Unpinned"
               PROVE  p \notin pins /\ sourceFile[p].pin = "Unpinned"
    BY DEF LastUnpinReleases
  <2>1. AllUnpinned(p)
    BY DEF AllUnpinned, Recorded
  <2>2. Quiet(p) /\ ~AtMark(p)
    BY DEF Settled, Quiet, AtMark, UnpinOf, CallOver
  <2> QED
    BY <2>1, <2>2 DEF ReleaseInv, Released
<1> QED
  BY <1>1, <1>2, <1>3, PTL DEF StorageSpec
=============================================================================
