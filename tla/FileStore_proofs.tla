--------------------------- MODULE FileStore_proofs ---------------------------
(***************************************************************************)
(* Proofs about FileStore for every number of files, records, payloads and *)
(* requests in flight.  What relates the two stores of one file holds      *)
(* while no two requests about that file overlap: there is no transaction  *)
(* that spans both stores, and the code takes no lock.                     *)
(* The second part is about the import that fills these stores from LabBox *)
(* (LabboxMigration), for every number of datasets, records, files,        *)
(* scripts and changes on both sides.                                      *)
(***************************************************************************)
EXTENDS FileStore, LabboxMigration, FiniteSetTheorems, TLAPS

(* At most one request about a file is in flight.                          *)
FilesSerial ==
  \A r, s \in Requests :
    req[r].file = req[s].file /\ req[r].file # None => r = s

Uploading == {"upload_existing", "upload_put", "upload_insert", "upload_undo"}

(* A request knows what it is about.                                       *)
RequestOf(r) ==
  /\ req[r].pc \in Uploading => req[r].file \in FileIds /\ req[r].content \in Contents
  /\ req[r].pc \in {"delete_object", "delete_row"} => req[r].file \in FileIds
  /\ req[r].pc = "archive" =>
       /\ req[r].record \in RecordIds
       /\ records[req[r].record].state # "absent"

RequestsOK == \A r \in Requests : RequestOf(r)

(* What the only request about f has seen or done of it.                   *)
PendingOf(r, f) ==
  /\ Pending(r, "upload_put", f) => files[f].content = None
  /\ Pending(r, "upload_insert", f) =>
       files[f].content = None /\ objects[f] = req[r].content
  /\ Pending(r, "upload_undo", f) => files[f].content = None
  /\ Pending(r, "delete_row", f) => objects[f] = None

PendingOK == \A r \in Requests, f \in FileIds : PendingOf(r, f)

(* The inductive invariant of the serial case; its first part is inductive *)
(* by itself, without the serial hypothesis.                               *)
TypesOK == TypeOK /\ RequestsOK

StoresAgree ==
  /\ PendingOK
  /\ RowHasBytes
  /\ OrphanHasCause

-----------------------------------------------------------------------------
LEMMA IdleIsRequest == Idle \in Request
BY DEF Idle, Request

LEMMA InitTypes == Init => TypesOK
BY IdleIsRequest
   DEF Init, TypesOK, TypeOK, RequestsOK, RequestOf, Idle, NoFile, RecordRow,
       FileRow, Uploading

(* A request's own steps leave the other requests alone.                   *)
LEMMA RecordStepTypes ==
  ASSUME TypesOK, RecordNext
  PROVE  TypesOK'
<1> USE DEF TypesOK, TypeOK, RequestsOK, RequestOf, RecordRow, Request, Uploading
<1>1. ASSUME NEW n \in RecordIds, NEW c \in Contents,
             CreateRecord(n, c) \/ PatchRecord(n, c)
      PROVE  TypesOK'
  <2>1. records' \in [RecordIds -> RecordRow]
    BY <1>1 DEF CreateRecord, PatchRecord
  <2>2. \A m \in RecordIds : records[m].state # "absent" => records'[m].state # "absent"
    BY <1>1 DEF CreateRecord, PatchRecord
  <2>3. UNCHANGED <<files, objects, abandoned, req>>
    BY <1>1 DEF CreateRecord, PatchRecord
  <2>4. QED
    BY <2>1, <2>2, <2>3
<1>2. ASSUME NEW r \in Requests, NEW n \in RecordIds, DeleteRecordRead(r, n)
      PROVE  TypesOK'
  BY <1>2 DEF DeleteRecordRead, Open, Idle
<1>3. ASSUME NEW r \in Requests, DeleteRecordWrite(r)
      PROVE  TypesOK'
  BY <1>3 DEF DeleteRecordWrite, End, Idle
<1>4. QED
  BY <1>1, <1>2, <1>3 DEF RecordNext

LEMMA UploadStepTypes ==
  ASSUME TypesOK, UploadNext
  PROVE  TypesOK'
<1> USE DEF TypesOK, TypeOK, RequestsOK, RequestOf, Request, Uploading, Pending
<1>1. ASSUME NEW r \in Requests, NEW f \in FileIds, NEW c \in Contents,
             NEW n \in RecordIds \cup {None}, UploadStart(r, f, c, n)
      PROVE  TypesOK'
  BY <1>1 DEF UploadStart, Open
<1>2. ASSUME NEW r \in Requests, NEW f \in FileIds, UploadNew(r, f)
      PROVE  TypesOK'
  BY <1>2 DEF UploadNew, Goto
<1>3. ASSUME NEW r \in Requests, NEW f \in FileIds, UploadRepeat(r, f)
      PROVE  TypesOK'
  BY <1>3 DEF UploadRepeat, End, Idle
<1>4. ASSUME NEW r \in Requests, NEW f \in FileIds, UploadPut(r, f)
      PROVE  TypesOK'
  BY <1>4 DEF UploadPut, Goto
<1>5. ASSUME NEW r \in Requests, NEW f \in FileIds, UploadInsert(r, f)
      PROVE  TypesOK'
  BY <1>5 DEF UploadInsert, End, Idle, FileRow, NoFile
<1>6. ASSUME NEW r \in Requests, NEW f \in FileIds, UploadInsertFails(r, f)
      PROVE  TypesOK'
  BY <1>6 DEF UploadInsertFails, Goto
<1>7. ASSUME NEW r \in Requests, NEW f \in FileIds, UploadUndo(r, f)
      PROVE  TypesOK'
  BY <1>7 DEF UploadUndo, End, Idle
<1>8. QED
  BY <1>1, <1>2, <1>3, <1>4, <1>5, <1>6, <1>7 DEF UploadNext

LEMMA DeleteStepTypes ==
  ASSUME TypesOK, DeleteNext
  PROVE  TypesOK'
<1> USE DEF TypesOK, TypeOK, RequestsOK, RequestOf, Request, Uploading, Pending
<1>1. ASSUME NEW r \in Requests, NEW f \in FileIds, DeleteFind(r, f)
      PROVE  TypesOK'
  BY <1>1 DEF DeleteFind, Open, Idle
<1>2. ASSUME NEW r \in Requests, NEW f \in FileIds, DeleteObject(r, f)
      PROVE  TypesOK'
  <2> DEFINE gone == files[f].content # None
  <2>1. PICK b \in BOOLEAN : files' = [files EXCEPT ![f].halfDeleted = b]
    <3>1. CASE gone
      BY <1>2, <3>1 DEF DeleteObject
    <3>2. CASE ~gone
      BY <1>2, <3>2 DEF DeleteObject
    <3>3. QED
      BY <3>1, <3>2
  <2>2. files' \in [FileIds -> FileRow]
    BY <2>1 DEF FileRow
  <2>3. QED
    BY <1>2, <2>2 DEF DeleteObject, Goto
<1>3. ASSUME NEW r \in Requests, NEW f \in FileIds, DeleteRow(r, f)
      PROVE  TypesOK'
  BY <1>3 DEF DeleteRow, End, Idle, FileRow, NoFile
<1>4. QED
  BY <1>1, <1>2, <1>3 DEF DeleteNext

LEMMA StopTypes ==
  ASSUME TypesOK, NEW r \in Requests, Stop(r)
  PROVE  TypesOK'
BY DEF TypesOK, TypeOK, RequestsOK, RequestOf, Request, Uploading, Stop, End, Idle

LEMMA StepTypes ==
  ASSUME TypesOK, [Next]_vars
  PROVE  TypesOK'
<1>1. CASE UNCHANGED vars
  BY <1>1 DEF vars, TypesOK, TypeOK, RequestsOK, RequestOf
<1>2. CASE Next
  BY <1>2, RecordStepTypes, UploadStepTypes, DeleteStepTypes, StopTypes DEF Next
<1>3. QED
  BY <1>1, <1>2

-----------------------------------------------------------------------------
(* The two stores of one file.                                             *)

(* Serial requests: who works on f is alone with it.                       *)
LEMMA Alone ==
  ASSUME FilesSerial, NEW r \in Requests, NEW f \in FileIds, req[r].file = f,
         NEW s \in Requests, s # r
  PROVE  req[s].file # f
BY NoneIsNothing DEF FilesSerial

LEMMA InitStores == Init => StoresAgree
BY DEF Init, StoresAgree, PendingOK, PendingOf, Pending, RowHasBytes,
       OrphanHasCause, Idle, NoFile

(* A step of r about f that leaves both stores and moves r to pc.          *)
LEMMA MoveStores ==
  ASSUME TypesOK, StoresAgree, NEW r \in Requests,
         UNCHANGED <<files, objects, abandoned>>,
         \A s \in Requests \ {r} : req'[s] = req[s],
         req[r].pc \notin {"upload_insert", "upload_undo"}
           \/ /\ req[r].pc = "upload_insert"
              /\ req'[r].pc = "upload_undo"
              /\ req'[r].file = req[r].file,
         req'[r].pc \in {"upload_put", "upload_insert", "delete_row"} =>
           /\ req[r].pc = "upload_existing"
           /\ req'[r].pc = "upload_put"
           /\ files[req'[r].file].content = None,
         req'[r].pc = "upload_undo" => req[r].pc = "upload_insert"
  PROVE  StoresAgree'
<1> USE DEF StoresAgree
<1>1. PendingOK'
  <2> SUFFICES ASSUME NEW s \in Requests, NEW f \in FileIds
               PROVE  PendingOf(s, f)'
    BY DEF PendingOK
  <2>1. CASE s = r
    BY <2>1 DEF PendingOK, PendingOf, Pending
  <2>2. CASE s # r
    BY <2>2 DEF PendingOK, PendingOf, Pending
  <2>3. QED
    BY <2>1, <2>2
<1>2. RowHasBytes'
  BY DEF RowHasBytes
<1>3. OrphanHasCause'
  <2> SUFFICES ASSUME NEW f \in FileIds, objects[f] # None,
                      files[f].content = None, f \notin abandoned
               PROVE  \E s \in Requests :
                        \/ Pending(s, "upload_insert", f)'
                        \/ Pending(s, "upload_undo", f)'
    BY DEF OrphanHasCause
  <2>1. PICK s \in Requests : Pending(s, "upload_insert", f) \/ Pending(s, "upload_undo", f)
    BY DEF OrphanHasCause
  <2>2. QED
    BY <2>1 DEF Pending
<1>4. QED
  BY <1>1, <1>2, <1>3

LEMMA RecordStepStores ==
  ASSUME TypesOK, StoresAgree, RecordNext
  PROVE  StoresAgree'
<1>1. ASSUME NEW n \in RecordIds, NEW c \in Contents,
             CreateRecord(n, c) \/ PatchRecord(n, c)
      PROVE  StoresAgree'
  BY <1>1 DEF CreateRecord, PatchRecord, StoresAgree, PendingOK, PendingOf,
              Pending, RowHasBytes, OrphanHasCause
<1>2. ASSUME NEW r \in Requests, NEW n \in RecordIds, DeleteRecordRead(r, n)
      PROVE  StoresAgree'
  BY <1>2, MoveStores DEF DeleteRecordRead, Open, Idle, TypesOK, TypeOK
<1>3. ASSUME NEW r \in Requests, DeleteRecordWrite(r)
      PROVE  StoresAgree'
  BY <1>3, MoveStores DEF DeleteRecordWrite, End, Idle, TypesOK, TypeOK
<1>4. QED
  BY <1>1, <1>2, <1>3 DEF RecordNext

LEMMA StopStores ==
  ASSUME TypesOK, StoresAgree, NEW r \in Requests, Stop(r)
  PROVE  StoresAgree'
<1> USE DEF StoresAgree, TypesOK, TypeOK, Stop, End, Idle
<1>1. PendingOK'
  BY DEF PendingOK, PendingOf, Pending
<1>2. RowHasBytes'
  BY DEF RowHasBytes
<1>3. OrphanHasCause'
  <2> SUFFICES ASSUME NEW f \in FileIds, objects[f] # None,
                      files[f].content = None, f \notin abandoned'
               PROVE  \E s \in Requests :
                        \/ Pending(s, "upload_insert", f)'
                        \/ Pending(s, "upload_undo", f)'
    BY DEF OrphanHasCause
  <2>1. PICK s \in Requests : Pending(s, "upload_insert", f) \/ Pending(s, "upload_undo", f)
    BY DEF OrphanHasCause
  <2>2. s # r
    BY <2>1 DEF Pending
  <2>3. QED
    BY <2>1, <2>2 DEF Pending
<1>4. QED
  BY <1>1, <1>2, <1>3

(* A step of r that changes a store, but only of the file f it is about.   *)
LEMMA ChangeStores ==
  ASSUME TypesOK, StoresAgree, FilesSerial,
         NEW r \in Requests, NEW f \in FileIds, req[r].file = f,
         \A g \in FileIds \ {f} : files'[g] = files[g] /\ objects'[g] = objects[g],
         \A s \in Requests \ {r} : req'[s] = req[s],
         UNCHANGED abandoned,
         req'[r].file \in {f, None},
         PendingOf(r, f)',
         files'[f].content # None /\ ~files'[f].halfDeleted
           => objects'[f] = files'[f].content,
         objects'[f] # None /\ files'[f].content = None
           => f \in abandoned \/ Pending(r, "upload_insert", f)'
                \/ Pending(r, "upload_undo", f)'
  PROVE  StoresAgree'
<1> USE DEF StoresAgree
<1>1. PendingOK'
  <2> SUFFICES ASSUME NEW s \in Requests, NEW g \in FileIds
               PROVE  PendingOf(s, g)'
    BY DEF PendingOK
  <2>1. CASE s = r /\ g = f
    BY <2>1
  <2>2. CASE s = r /\ g # f
    BY <2>2, NoneIsNothing DEF PendingOf, Pending
  <2>3. CASE s # r /\ g = f
    BY <2>3, Alone DEF PendingOf, Pending
  <2>4. CASE s # r /\ g # f
    BY <2>4 DEF PendingOK, PendingOf, Pending
  <2>5. QED
    BY <2>1, <2>2, <2>3, <2>4
<1>2. RowHasBytes'
  BY DEF RowHasBytes
<1>3. OrphanHasCause'
  <2> SUFFICES ASSUME NEW g \in FileIds, objects'[g] # None,
                      files'[g].content = None, g \notin abandoned
               PROVE  \E s \in Requests :
                        \/ Pending(s, "upload_insert", g)'
                        \/ Pending(s, "upload_undo", g)'
    BY DEF OrphanHasCause
  <2>1. CASE g = f
    BY <2>1
  <2>2. CASE g # f
    <3>1. PICK s \in Requests : Pending(s, "upload_insert", g) \/ Pending(s, "upload_undo", g)
      BY <2>2 DEF OrphanHasCause
    <3>2. s # r
      BY <3>1, <2>2 DEF Pending
    <3>3. QED
      BY <3>1, <3>2 DEF Pending
  <2>3. QED
    BY <2>1, <2>2
<1>4. QED
  BY <1>1, <1>2, <1>3

LEMMA UploadStepStores ==
  ASSUME TypesOK, StoresAgree, FilesSerial, UploadNext
  PROVE  StoresAgree'
<1> USE DEF TypesOK, TypeOK, Pending
<1>1. ASSUME NEW r \in Requests, NEW f \in FileIds, NEW c \in Contents,
             NEW n \in RecordIds \cup {None}, UploadStart(r, f, c, n)
      PROVE  StoresAgree'
  BY <1>1, MoveStores DEF UploadStart, Open
<1>2. ASSUME NEW r \in Requests, NEW f \in FileIds, UploadNew(r, f)
      PROVE  StoresAgree'
  BY <1>2, MoveStores DEF UploadNew, Goto, Request
<1>3. ASSUME NEW r \in Requests, NEW f \in FileIds, UploadRepeat(r, f)
      PROVE  StoresAgree'
  BY <1>3, MoveStores DEF UploadRepeat, End, Idle
<1>4. ASSUME NEW r \in Requests, NEW f \in FileIds, UploadPut(r, f)
      PROVE  StoresAgree'
  <2>1. files[f].content = None
    BY <1>4 DEF UploadPut, StoresAgree, PendingOK, PendingOf
  <2>2. /\ objects'[f] = req[r].content
        /\ req'[r].pc = "upload_insert"
        /\ req'[r].file = f
        /\ req'[r].content = req[r].content
    BY <1>4 DEF UploadPut, Goto, Request
  <2>3. PendingOf(r, f)'
    BY <1>4, <2>1, <2>2 DEF PendingOf, UploadPut
  <2>4. QED
    BY <1>4, <2>1, <2>2, <2>3, ChangeStores DEF UploadPut, Goto
<1>5. ASSUME NEW r \in Requests, NEW f \in FileIds, UploadInsert(r, f)
      PROVE  StoresAgree'
  <2>1. objects[f] = req[r].content
    BY <1>5 DEF UploadInsert, StoresAgree, PendingOK, PendingOf
  <2>2. files'[f].content = req[r].content /\ req'[r] = Idle
    BY <1>5 DEF UploadInsert, End, NoFile
  <2>3. req[r].content \in Contents
    BY <1>5 DEF UploadInsert, RequestsOK, RequestOf, Uploading
  <2>4. PendingOf(r, f)'
    BY <2>2 DEF PendingOf, Idle
  <2>5. QED
    BY <1>5, <2>1, <2>2, <2>3, <2>4, NoneIsNothing, ChangeStores
       DEF UploadInsert, End, Idle
<1>6. ASSUME NEW r \in Requests, NEW f \in FileIds, UploadInsertFails(r, f)
      PROVE  StoresAgree'
  BY <1>6, MoveStores DEF UploadInsertFails, Goto, Request
<1>7. ASSUME NEW r \in Requests, NEW f \in FileIds, UploadUndo(r, f)
      PROVE  StoresAgree'
  <2>1. files[f].content = None
    BY <1>7 DEF UploadUndo, StoresAgree, PendingOK, PendingOf
  <2>2. objects'[f] = None /\ req'[r] = Idle
    BY <1>7 DEF UploadUndo, End
  <2>3. PendingOf(r, f)'
    BY <2>2 DEF PendingOf, Idle
  <2>4. QED
    BY <1>7, <2>1, <2>2, <2>3, ChangeStores DEF UploadUndo, End, Idle
<1>8. QED
  BY <1>1, <1>2, <1>3, <1>4, <1>5, <1>6, <1>7 DEF UploadNext

LEMMA DeleteStepStores ==
  ASSUME TypesOK, StoresAgree, FilesSerial, DeleteNext
  PROVE  StoresAgree'
<1> USE DEF TypesOK, TypeOK, Pending
<1>1. ASSUME NEW r \in Requests, NEW f \in FileIds, DeleteFind(r, f)
      PROVE  StoresAgree'
  BY <1>1, MoveStores DEF DeleteFind, Open, Idle
<1>2. ASSUME NEW r \in Requests, NEW f \in FileIds, DeleteObject(r, f)
      PROVE  StoresAgree'
  <2>1. /\ objects'[f] = None
        /\ req'[r].pc = "delete_row"
        /\ req'[r].file = f
    BY <1>2 DEF DeleteObject, Goto, Request
  <2>2. files'[f].content # None => files'[f].halfDeleted
    BY <1>2, Zenon DEF DeleteObject, FileRow
  <2>3. PendingOf(r, f)'
    BY <2>1 DEF PendingOf
  <2>4. QED
    BY <1>2, <2>1, <2>2, <2>3, ChangeStores DEF DeleteObject, Goto
<1>3. ASSUME NEW r \in Requests, NEW f \in FileIds, DeleteRow(r, f)
      PROVE  StoresAgree'
  <2>1. objects[f] = None
    BY <1>3 DEF DeleteRow, StoresAgree, PendingOK, PendingOf
  <2>2. files'[f].content = None /\ req'[r] = Idle
    BY <1>3 DEF DeleteRow, End, NoFile
  <2>3. PendingOf(r, f)'
    BY <2>2 DEF PendingOf, Idle
  <2>4. QED
    BY <1>3, <2>1, <2>2, <2>3, ChangeStores DEF DeleteRow, End, Idle
<1>4. QED
  BY <1>1, <1>2, <1>3 DEF DeleteNext

LEMMA StepStores ==
  ASSUME TypesOK, StoresAgree, FilesSerial, [Next]_vars
  PROVE  StoresAgree'
<1>1. CASE UNCHANGED vars
  BY <1>1 DEF vars, StoresAgree, PendingOK, PendingOf, Pending, RowHasBytes,
              OrphanHasCause
<1>2. CASE Next
  BY <1>2, RecordStepStores, UploadStepStores, DeleteStepStores, StopStores
     DEF Next
<1>3. QED
  BY <1>1, <1>2

-----------------------------------------------------------------------------
(* Type correctness, for any number of overlapping requests.               *)
THEOREM FileStoreTypes == Spec => []TypeOK
<1>1. TypesOK /\ [Next]_vars => TypesOK'
  BY StepTypes
<1>2. TypesOK => TypeOK
  BY DEF TypesOK
<1>3. QED
  BY <1>1, <1>2, InitTypes, PTL DEF Spec

(* While no two requests about one file overlap, a row's bytes are the     *)
(* uploaded ones until a deletion removes them, however many requests are  *)
(* in flight about other files and wherever they die: the order put,       *)
(* insert, undo of an upload and object, row of a deletion is enough.      *)
THEOREM SerialRowsHaveBytes == Spec /\ []FilesSerial => []RowHasBytes
<1>1. TypesOK /\ [Next]_vars => TypesOK'
  BY StepTypes
<1>2. TypesOK /\ StoresAgree /\ FilesSerial /\ [Next]_vars => StoresAgree'
  BY StepStores
<1>3. StoresAgree => RowHasBytes
  BY DEF StoresAgree
<1>4. QED
  BY <1>1, <1>2, <1>3, InitTypes, InitStores, PTL DEF Spec

(* Under the same condition, bytes without a row are those of an upload    *)
(* still in flight or of one that stopped before its row or its undo.      *)
THEOREM SerialOrphansHaveCause == Spec /\ []FilesSerial => []OrphanHasCause
<1>1. TypesOK /\ [Next]_vars => TypesOK'
  BY StepTypes
<1>2. TypesOK /\ StoresAgree /\ FilesSerial /\ [Next]_vars => StoresAgree'
  BY StepStores
<1>3. StoresAgree => OrphanHasCause
  BY DEF StoresAgree
<1>4. QED
  BY <1>1, <1>2, <1>3, InitTypes, InitStores, PTL DEF Spec

(* No step changes an archived record, with any number of requests in      *)
(* flight: the UPDATE of a delayed one asks for a live row, the INSERT of  *)
(* a repeated creation conflicts, and a second archiving writes what is    *)
(* there.                                                                  *)
THEOREM ArchivedStay == Spec => ArchivedUnchanged
<1> DEFINE Kept ==
      \A n \in RecordIds : records[n].state = "archived" => records'[n] = records[n]
<1>1. TypesOK /\ [Next]_vars => TypesOK'
  BY StepTypes
<1>2. ASSUME TypesOK, [Next]_vars
      PROVE  [Kept]_vars
  <2> SUFFICES ASSUME NEW n \in RecordIds, records[n].state = "archived"
               PROVE  records'[n] = records[n]
    OBVIOUS
  <2> USE DEF TypesOK, TypeOK
  <2>1. CASE UNCHANGED vars
    BY <2>1 DEF vars
  <2>2. CASE RecordNext
    <3>1. ASSUME NEW m \in RecordIds, NEW c \in Contents,
                 CreateRecord(m, c) \/ PatchRecord(m, c)
          PROVE  records'[n] = records[n]
      BY <1>2, <3>1 DEF CreateRecord, PatchRecord
    <3>2. ASSUME NEW r \in Requests, NEW m \in RecordIds, DeleteRecordRead(r, m)
          PROVE  records'[n] = records[n]
      BY <3>2 DEF DeleteRecordRead
    <3>3. ASSUME NEW r \in Requests, DeleteRecordWrite(r)
          PROVE  records'[n] = records[n]
      BY <1>2, <3>3 DEF DeleteRecordWrite, RecordRow
    <3>4. QED
      BY <2>2, <3>1, <3>2, <3>3 DEF RecordNext
  <2>3. CASE UploadNext \/ DeleteNext \/ \E r \in Requests : Stop(r)
    BY <2>3 DEF UploadNext, DeleteNext, Stop, UploadStart, UploadNew,
                UploadRepeat, UploadPut, UploadInsert, UploadInsertFails,
                UploadUndo, DeleteFind, DeleteObject, DeleteRow
  <2>4. QED
    BY <1>2, <2>1, <2>2, <2>3 DEF Next
<1>3. Spec => [][Kept]_vars
  BY <1>1, <1>2, InitTypes, PTL DEF Spec
<1>4. QED
  BY <1>3 DEF ArchivedUnchanged

-----------------------------------------------------------------------------
(* The migration from LabBox.                                              *)
ExportState ==
  [phase : {"idle", "datasets", "manifest"}, left : SUBSET Datasets, records : [Records -> Nat],
   files : SUBSET Files, bytes : SUBSET Files, complete : BOOLEAN, fresh : BOOLEAN]

SnapshotState ==
  [written : BOOLEAN, records : [Records -> Nat], files : SUBSET Files, bytes : SUBSET Files,
   filesComplete : BOOLEAN, exitOk : BOOLEAN, fresh : BOOLEAN]

ImportState ==
  [phase : {"idle", "apps", "rows"}, records : SUBSET Records, files : SUBSET Files,
   uploads : SUBSET Files, failed : SUBSET Files]

MigrationTypes ==
  /\ live \in [Records -> Nat] /\ attached \subseteq Files
  /\ export \in ExportState /\ snap \in SnapshotState /\ import \in ImportState
  /\ row \in [Records -> [ver : Nat, linked : BOOLEAN]]
  /\ fileRow \subseteq Files /\ bucket \subseteq Files
  /\ touched \in BOOLEAN
  /\ past \subseteq [records : [Records -> Nat], files : SUBSET Files]

(* A snapshot, or one in the making, has record r and its file as LabBox   *)
(* has them now.                                                           *)
Has(s, r) == s.records[r] = live[r] /\ (Photo[r] \in attached => Photo[r] \in s.files)

ExportOK ==
  export.phase # "idle" =>
    /\ import.phase = "idle"
    /\ export.phase = "manifest" => export.left = {}
    /\ export.fresh /\ export.complete =>
         \A r \in Records : DatasetOf[r] \notin export.left /\ live[r] # 0 => Has(export, r)

SnapshotOK == snap.fresh /\ snap.exitOk => \A r \in Records : live[r] # 0 => Has(snap, r)

(* Record r of the snapshot was stored, and is as it was stored unless     *)
(* users wrote.                                                            *)
Landed(r) == row[r] # NoRow /\ (~touched => row[r] = Stored(r))

ImportOK ==
  import.phase # "idle" =>
    /\ import.records \subseteq SnapRecords /\ import.files \subseteq snap.files
    /\ [records |-> snap.records, files |-> snap.files] \in past
    /\ \A r \in SnapRecords \ import.records : Landed(r)
    /\ snap.files \ Malformed \subseteq fileRow \cup import.files

ImportedOK ==
  outcome = "ok" => (\A r \in SnapRecords : Landed(r)) /\ snap.files \ Malformed \subseteq fileRow

(* What CFLab has came from a snapshot whose import began.                 *)
PastOK ==
  /\ ~touched => \A r \in Records : row[r] # NoRow =>
       row[r].ver # 0 /\ \E p \in past : p.records[r] = row[r].ver
  /\ \A f \in fileRow : \E p \in past : f \in p.files

(* The inductive invariant.                                                *)
MigrationInv ==
  /\ MigrationTypes /\ ExportOK /\ SnapshotOK /\ ImportOK /\ ImportedOK /\ PastOK
  /\ synced => snap.files \subseteq bucket

LEMMA MigrationStarts == MigrationInit => MigrationInv
<1> SUFFICES ASSUME MigrationInit PROVE MigrationInv
  OBVIOUS
<1>1. MaxVersion \in Nat
  BY BoundsAreNumbers
<1>2. export \in ExportState /\ export.phase = "idle"
  BY DEF MigrationInit, NoExport, ExportState
<1>3. snap \in SnapshotState /\ ~snap.exitOk
  BY DEF MigrationInit, NoSnapshot, SnapshotState
<1>4. import \in ImportState /\ import.phase = "idle"
  BY DEF MigrationInit, NoImport, ImportState
<1>5. NoRow \in [ver : Nat, linked : BOOLEAN]
  BY DEF NoRow
<1>6. MigrationTypes
  <2>1. live \in [Records -> Nat] /\ attached \subseteq Files
    BY DEF MigrationInit
  <2>2. row \in [Records -> [ver : Nat, linked : BOOLEAN]]
    BY <1>5 DEF MigrationInit
  <2>3. /\ fileRow \subseteq Files /\ bucket \subseteq Files /\ touched \in BOOLEAN
        /\ past = {}
    BY DEF MigrationInit
  <2>4. QED
    BY <1>2, <1>3, <1>4, <2>1, <2>2, <2>3 DEF MigrationTypes
<1>7. QED
  BY <1>2, <1>3, <1>4, <1>6
  DEF MigrationInit, MigrationInv, ExportOK, SnapshotOK, ImportOK, ImportedOK, PastOK

(* A step that leaves CFLab and the scripts' view of it as they are.       *)
LEMMA SameTarget ==
  ASSUME MigrationInv, UNCHANGED <<row, fileRow, bucket, import, outcome, synced, past, touched>>,
         snap'.records = snap.records, snap'.files = snap.files
  PROVE  /\ ImportOK' /\ ImportedOK' /\ PastOK'
         /\ (synced => snap.files \subseteq bucket)'
BY DEF MigrationInv, ImportOK, ImportedOK, PastOK, Landed, SnapRecords, Stored,
       RewriteLegacyFileUrls

LEMMA LabboxStep ==
  ASSUME MigrationInv, NEW r \in Records, LabboxWrites(r)
  PROVE  MigrationInv'
<1>1. /\ export' = [export EXCEPT !.fresh = FALSE] /\ snap' = [snap EXCEPT !.fresh = FALSE]
      /\ UNCHANGED <<exports, target, importer, touched>>
  BY DEF LabboxWrites
<1>2. export' \in ExportState /\ export'.phase = export.phase /\ export'.left = export.left
      /\ ~export'.fresh
  BY <1>1 DEF MigrationInv, MigrationTypes, ExportState
<1>3. snap' \in SnapshotState /\ snap'.records = snap.records /\ snap'.files = snap.files
      /\ ~snap'.fresh
  BY <1>1 DEF MigrationInv, MigrationTypes, SnapshotState
<1>4. live' \in [Records -> Nat] /\ attached' \subseteq Files
  BY DEF LabboxWrites, MigrationInv, MigrationTypes
<1>5. MigrationTypes'
  BY <1>1, <1>2, <1>3, <1>4 DEF MigrationInv, MigrationTypes, target, importer
<1>6. ExportOK' /\ SnapshotOK'
  BY <1>1, <1>2, <1>3 DEF MigrationInv, ExportOK, SnapshotOK, importer
<1>7. QED
  BY <1>1, <1>3, <1>5, <1>6, SameTarget DEF MigrationInv, target, importer

(* Users of CFLab keep every row in place.                                 *)
LEMMA CflabStep ==
  ASSUME MigrationInv, NEW r \in Records, CflabWrites(r)
  PROVE  MigrationInv'
<1>1. PICK v \in {Edited, Archived} : row' = [row EXCEPT ![r].ver = v]
  BY DEF CflabWrites
<1>2. touched' /\ touched' \in BOOLEAN
      /\ UNCHANGED <<live, attached, export, snap, fileRow, bucket, importer>>
  BY DEF CflabWrites, exporter
<1>3. v \in Nat \ {0}
  BY BoundsAreNumbers DEF Edited, Archived
<1>4. row' \in [Records -> [ver : Nat, linked : BOOLEAN]]
  BY <1>1, <1>3 DEF MigrationInv, MigrationTypes
<1>5. row'[r].ver = v /\ \A s \in Records \ {r} : row'[s] = row[s]
  BY <1>1 DEF MigrationInv, MigrationTypes
<1>6. row'[r] # NoRow
  BY <1>3, <1>5 DEF NoRow
<1>7. \A s \in Records : row[s] # NoRow => row'[s] # NoRow
  BY <1>5, <1>6
<1>8. MigrationTypes'
  BY <1>2, <1>4 DEF MigrationInv, MigrationTypes, importer
<1>9. \A s \in Records : Landed(s) => Landed(s)'
  BY <1>2, <1>7 DEF Landed
<1>10. ImportOK' /\ ImportedOK'
  BY <1>2, <1>9 DEF MigrationInv, ImportOK, ImportedOK, SnapRecords, importer
<1>11. QED
  BY <1>2, <1>8, <1>10
  DEF MigrationInv, ExportOK, SnapshotOK, PastOK, importer, Has

\* export-labbox.ts

LEMMA StartExportStep ==
  ASSUME MigrationInv, StartExport
  PROVE  MigrationInv'
<1>1. PICK bytes \in {{}, snap.bytes} :
        export' = [NoExport EXCEPT !.phase = "datasets", !.left = Datasets, !.bytes = bytes]
  BY DEF StartExport
<1>2. UNCHANGED <<source, snap, target, importer, touched>> /\ import.phase = "idle"
  BY DEF StartExport, NoScriptRuns
<1>3. bytes \subseteq Files
  BY DEF MigrationInv, MigrationTypes, SnapshotState
<1>4. export' \in ExportState /\ export'.phase = "datasets" /\ export'.left = Datasets
  BY <1>1, <1>3 DEF NoExport, ExportState
<1>5. MigrationTypes'
  BY <1>2, <1>4 DEF MigrationInv, MigrationTypes, source, target, importer
<1>6. ExportOK' /\ SnapshotOK'
  BY <1>2, <1>4, DatasetsOfRecords DEF MigrationInv, ExportOK, SnapshotOK, Has, source, importer
<1>7. QED
  BY <1>2, <1>5, <1>6, SameTarget DEF MigrationInv, target, importer

(* A dataset that is read completely is as LabBox has it; one that is not  *)
(* makes the export incomplete.                                            *)
LEMMA CollectStep ==
  ASSUME MigrationInv, NEW d \in Datasets, CollectComplete(d)
  PROVE  MigrationInv'
<1> DEFINE good == {r \in ListedIn(d) : ValidateRecord(r)}
           recs == [r \in Records |-> IF r \in good THEN live[r] ELSE export.records[r]]
           fs == export.files \cup (ShownFiles(good) \cap attached)
           whole == export.complete /\ good = ListedIn(d)
<1>1. UNCHANGED <<source, snap, target, importer, touched>> /\ export.phase = "datasets"
  BY DEF CollectComplete
<1>2. export \in ExportState
  BY DEF MigrationInv, MigrationTypes
<1>3. CASE export' = [export EXCEPT !.left = @ \ {d}, !.records = recs, !.files = fs,
                                    !.complete = whole]
  <2>1. recs \in [Records -> Nat] /\ fs \subseteq Files /\ whole \in BOOLEAN
    BY <1>2 DEF MigrationInv, MigrationTypes, ExportState
  <2>2. good \subseteq Records /\ \A r \in good : Photo[r] \in attached => Photo[r] \in fs
    BY PhotosAreFiles DEF ListedIn, ShownFiles, MigrationInv, MigrationTypes
  <2>3. whole => export.complete
        /\ \A r \in Records : DatasetOf[r] = d /\ live[r] # 0 => r \in good
    BY DEF ListedIn
  <2>4. \A r \in Records : recs[r] = IF r \in good THEN live[r] ELSE export.records[r]
    OBVIOUS
  <2>5. export.files \subseteq fs
    OBVIOUS
  <2> HIDE DEF good, recs, fs, whole
  <2>6. export' \in ExportState
    BY <1>2, <1>3, <2>1 DEF ExportState
  <2>7. /\ export'.phase = "datasets" /\ export'.left = export.left \ {d}
        /\ export'.records = recs /\ export'.files = fs /\ export'.fresh = export.fresh
        /\ export'.complete = whole
    BY <1>1, <1>2, <1>3 DEF ExportState
  <2>8. ASSUME export.fresh, whole, NEW r \in Records, DatasetOf[r] \notin export.left \ {d},
               live[r] # 0
        PROVE  recs[r] = live[r] /\ (Photo[r] \in attached => Photo[r] \in fs)
    <3>1. CASE DatasetOf[r] = d
      BY <2>2, <2>3, <2>4, <2>8, <3>1
    <3>2. CASE DatasetOf[r] # d
      <4>1. Has(export, r)
        BY <1>1, <2>3, <2>8, <3>2 DEF MigrationInv, ExportOK
      <4>2. QED
        BY <2>4, <2>5, <4>1 DEF Has
    <3>3. QED
      BY <3>1, <3>2
  <2>9. ExportOK'
    BY <1>1, <2>7, <2>8 DEF MigrationInv, ExportOK, Has, source, importer
  <2>10. MigrationTypes' /\ SnapshotOK'
    BY <1>1, <2>6 DEF MigrationInv, MigrationTypes, SnapshotOK, Has, source, target, importer
  <2>11. QED
    BY <1>1, <2>9, <2>10, SameTarget DEF MigrationInv, target, importer
<1>4. CASE export' = [export EXCEPT !.left = @ \ {d}, !.complete = FALSE]
  <2>1. export' \in ExportState /\ ~export'.complete /\ export'.phase = "datasets"
    BY <1>1, <1>2, <1>4 DEF ExportState
  <2>2. MigrationTypes' /\ SnapshotOK' /\ ExportOK'
    BY <1>1, <2>1
    DEF MigrationInv, MigrationTypes, SnapshotOK, ExportOK, Has, source, target, importer
  <2>3. QED
    BY <1>1, <2>2, SameTarget DEF MigrationInv, target, importer
<1>5. QED
  BY <1>3, <1>4 DEF CollectComplete

LEMMA DownloadStep ==
  ASSUME MigrationInv, DownloadFiles
  PROVE  MigrationInv'
<1>1. PICK got \in SUBSET (export.files \cap attached) :
        export' = [export EXCEPT !.phase = "manifest", !.bytes = @ \cup got]
  BY DEF DownloadFiles
<1>2. UNCHANGED <<source, snap, target, importer, touched>>
      /\ export.phase = "datasets" /\ export.left = {}
  BY DEF DownloadFiles
<1>3. export \in ExportState
  BY DEF MigrationInv, MigrationTypes
<1>4. export' \in ExportState
  BY <1>1, <1>3 DEF ExportState
<1>5. /\ export'.left = {} /\ export'.records = export.records /\ export'.files = export.files
      /\ export'.fresh = export.fresh /\ export'.complete = export.complete
  BY <1>1, <1>2, <1>3 DEF ExportState
<1>6. MigrationTypes' /\ SnapshotOK'
  BY <1>2, <1>4 DEF MigrationInv, MigrationTypes, SnapshotOK, Has, source, target, importer
<1>7. ExportOK'
  BY <1>2, <1>5 DEF MigrationInv, ExportOK, Has, source, importer
<1>8. QED
  BY <1>2, <1>6, <1>7, SameTarget DEF MigrationInv, target, importer

(* An export that exits well has everything, and begins the import anew.   *)
LEMMA SnapshotStep ==
  ASSUME MigrationInv, WriteSnapshot
  PROVE  MigrationInv'
<1> DEFINE complete == export.files \subseteq export.bytes
           exits == ExitsWell(complete)
<1>1. /\ snap' = [written |-> TRUE, records |-> export.records, files |-> export.files,
                  bytes |-> export.bytes, filesComplete |-> complete, exitOk |-> exits,
                  fresh |-> export.fresh]
      /\ export' = NoExport /\ import' = NoImport
      /\ outcome' = "none" /\ synced' = FALSE /\ export.phase = "manifest"
      /\ UNCHANGED <<source, target, past, touched>>
  BY DEF WriteSnapshot
<1>2. export \in ExportState
  BY DEF MigrationInv, MigrationTypes
<1>3. complete \in BOOLEAN /\ exits \in BOOLEAN /\ (exits => export.complete)
  BY <1>2 DEF ExitsWell, ExportState
<1> HIDE DEF complete, exits
<1>4. snap' \in SnapshotState
  BY <1>1, <1>2, <1>3 DEF ExportState, SnapshotState
<1>5. /\ snap'.records = export.records /\ snap'.files = export.files
      /\ (snap'.exitOk => export.complete) /\ (snap'.fresh => export.fresh)
  BY <1>1, <1>3
<1>6. export' \in ExportState /\ export'.phase = "idle"
  BY <1>1 DEF NoExport, ExportState
<1>7. import' \in ImportState /\ import'.phase = "idle"
  BY <1>1 DEF NoImport, ImportState
<1>8. MigrationTypes'
  BY <1>1, <1>4, <1>6, <1>7 DEF MigrationInv, MigrationTypes, source, target
<1>9. SnapshotOK'
  BY <1>1, <1>5 DEF MigrationInv, ExportOK, SnapshotOK, Has, source
<1>10. ExportOK' /\ ImportOK' /\ ImportedOK' /\ PastOK'
  BY <1>1, <1>6, <1>7 DEF MigrationInv, ExportOK, ImportOK, ImportedOK, PastOK, target
<1>11. QED
  BY <1>1, <1>8, <1>9, <1>10 DEF MigrationInv

LEMMA ExportDiesStep ==
  ASSUME MigrationInv, ExportDies
  PROVE  MigrationInv'
<1>1. export' = NoExport /\ UNCHANGED <<source, snap, target, importer, touched>>
  BY DEF ExportDies
<1>2. export' \in ExportState /\ export'.phase = "idle"
  BY <1>1 DEF NoExport, ExportState
<1>3. MigrationTypes' /\ SnapshotOK' /\ ExportOK'
  BY <1>1, <1>2
  DEF MigrationInv, MigrationTypes, SnapshotOK, ExportOK, Has, source, target, importer
<1>4. QED
  BY <1>1, <1>3, SameTarget DEF MigrationInv, target, importer

\* import-cflab.ts

LEMMA StoredShape ==
  ASSUME MigrationTypes
  PROVE  \A r \in Records :
           /\ Stored(r) \in [ver : Nat, linked : BOOLEAN] /\ Stored(r).ver = snap.records[r]
           /\ (r \in SnapRecords <=> snap.records[r] # 0)
           /\ (r \in SnapRecords => Stored(r) # NoRow)
           /\ (Stored(r).linked => Photo[r] \in snap.files)
<1> TAKE r \in Records
<1> DEFINE linked == RewriteLegacyFileUrls(r)
<1>1. snap.records[r] \in Nat
  BY DEF MigrationTypes, SnapshotState
<1>2. linked \in BOOLEAN
  BY DEF RewriteLegacyFileUrls
<1>3. Stored(r) = [ver |-> snap.records[r], linked |-> linked]
  BY DEF Stored
<1> HIDE DEF linked
<1>4. Stored(r) \in [ver : Nat, linked : BOOLEAN] /\ Stored(r).ver = snap.records[r]
  BY <1>1, <1>2, <1>3
<1>5. r \in SnapRecords <=> snap.records[r] # 0
  BY DEF SnapRecords
<1>6. NoRow.ver = 0
  BY DEF NoRow
<1>7. Stored(r).linked = linked
  BY <1>3
<1>8. linked => Photo[r] \in snap.files
  BY DEF linked, RewriteLegacyFileUrls
<1>9. QED
  BY <1>4, <1>5, <1>6, <1>7, <1>8

(* What is not planned is there: it equals what the snapshot has, or the   *)
(* import is refused.                                                      *)
LEMMA PlanStep ==
  ASSUME MigrationInv, NEW update \in BOOLEAN, NEW allowMissing \in BOOLEAN,
         BuildImportPlan(update, allowMissing)
  PROVE  MigrationInv'
<1> DEFINE plan == NewRecords \cup (IF update THEN Differing ELSE {})
           files0 == {f \in snap.files \ fileRow : ValidateFile(f)}
           entry == [records |-> snap.records, files |-> snap.files]
<1>1. UNCHANGED <<source, exporter, target, synced, touched>> /\ export.phase = "idle"
  BY DEF BuildImportPlan, NoScriptRuns
<1>2. snap.files \subseteq Files /\ SnapRecords \subseteq Records
  BY DEF MigrationInv, MigrationTypes, SnapshotState, SnapRecords
<1>3. SnapshotOK' /\ ExportOK' /\ (synced => snap.files \subseteq bucket)'
  BY <1>1 DEF MigrationInv, SnapshotOK, ExportOK, Has, source, exporter, target
<1>4. CASE outcome' = "refused" /\ import' = NoImport /\ UNCHANGED past
  <2>1. import' \in ImportState /\ import'.phase = "idle"
    BY <1>4 DEF NoImport, ImportState
  <2>2. MigrationTypes'
    BY <1>1, <1>4, <2>1 DEF MigrationInv, MigrationTypes, source, exporter, target
  <2>3. ImportOK' /\ ImportedOK' /\ PastOK'
    BY <1>1, <1>4, <2>1 DEF MigrationInv, ImportOK, ImportedOK, PastOK, target
  <2>4. QED
    BY <1>3, <2>2, <2>3 DEF MigrationInv
<1>5. CASE /\ import' = [phase |-> "apps", records |-> plan, files |-> files0,
                         uploads |-> files0, failed |-> {}]
           /\ outcome' = "none" /\ past' = past \cup {entry}
           /\ update \/ Differing = {}
  <2>1. plan \subseteq SnapRecords /\ files0 \subseteq snap.files
    BY DEF NewRecords, Differing
  <2>2. \A r \in SnapRecords \ plan : row[r] = Stored(r)
    BY <1>5 DEF NewRecords, Differing
  <2>3. snap.files \ Malformed \subseteq fileRow \cup files0
    BY DEF ValidateFile
  <2> HIDE DEF plan, files0
  <2>4. import' \in ImportState
    BY <1>2, <1>5, <2>1 DEF ImportState
  <2>5. import'.records = plan /\ import'.files = files0
    BY <1>5
  <2>6. MigrationTypes'
    <3>1. entry \in [records : [Records -> Nat], files : SUBSET Files]
      BY DEF MigrationInv, MigrationTypes, SnapshotState
    <3> HIDE DEF entry
    <3>2. QED
      BY <1>1, <1>5, <2>4, <3>1 DEF MigrationInv, MigrationTypes, source, exporter, target
  <2>7. UNCHANGED <<snap, row, fileRow, touched>> /\ past \subseteq past' /\ entry \in past'
    BY <1>1, <1>5 DEF exporter, target
  <2>8. \A r \in SnapRecords \ plan : Landed(r)'
    BY <1>2, <2>2, <2>7, StoredShape
    DEF MigrationInv, Landed, Stored, RewriteLegacyFileUrls
  <2>9. ImportOK'
    BY <2>1, <2>3, <2>5, <2>7, <2>8 DEF ImportOK, SnapRecords
  <2>10. ImportedOK' /\ PastOK'
    BY <1>5, <2>7 DEF MigrationInv, ImportedOK, PastOK
  <2>11. QED
    BY <1>3, <2>6, <2>9, <2>10 DEF MigrationInv
<1>6. QED
  BY <1>4, <1>5 DEF BuildImportPlan

(* An import's step: it stores what it has yet to do, and calls itself     *)
(* done when nothing is left.                                              *)
ImportProgress ==
  /\ import.phase # "idle" /\ import' \in ImportState
  /\ UNCHANGED <<live, attached, export, snap, synced, past, touched>>
  /\ row' \in [Records -> [ver : Nat, linked : BOOLEAN]]
  /\ import'.records \subseteq import.records /\ import'.files \subseteq import.files
  /\ \A r \in Records : row'[r] = IF r \in import.records \ import'.records THEN Stored(r)
                                                                          ELSE row[r]
  /\ fileRow' = fileRow \cup (import.files \ import'.files)
  /\ bucket \subseteq bucket' /\ bucket' \subseteq Files
  /\ outcome' = "ok" => outcome = "ok" \/ (import'.records = {} /\ import'.files = {})

LEMMA ImportGoesOn ==
  ASSUME MigrationInv, ImportProgress
  PROVE  MigrationInv'
<1> USE DEF MigrationInv, ImportProgress
<1>1. MigrationTypes'
  BY DEF MigrationTypes, ImportState
<1>2. ExportOK' /\ SnapshotOK' /\ (synced => snap.files \subseteq bucket)'
  BY DEF ExportOK, SnapshotOK, Has
<1>3. SnapRecords' = SnapRecords /\ \A r : Stored(r)' = Stored(r)
  BY DEF SnapRecords, Stored, RewriteLegacyFileUrls
<1>4. import.records \subseteq SnapRecords /\ SnapRecords \subseteq Records
  BY DEF ImportOK, SnapRecords
<1>5. \A r \in SnapRecords : Landed(r) => Landed(r)'
  BY <1>3, <1>4, StoredShape DEF Landed
<1>6. \A r \in import.records \ import'.records : Landed(r)'
  BY <1>3, <1>4, StoredShape DEF Landed
<1>7. (\A r \in SnapRecords' \ import'.records : Landed(r)')
      /\ snap.files \ Malformed \subseteq fileRow' \cup import'.files
  BY <1>3, <1>5, <1>6 DEF ImportOK
<1>8. ImportOK'
  BY <1>3, <1>7 DEF ImportOK
<1>9. ImportedOK'
  BY <1>3, <1>5, <1>7 DEF ImportedOK
<1>10. PastOK'
  <2>1. [records |-> snap.records, files |-> snap.files] \in past /\ past' = past
        /\ import.files \subseteq snap.files
    BY DEF ImportOK
  <2>2. PICK p \in past : p.records = snap.records /\ p.files = snap.files
    BY <2>1
  <2>3. \A r \in Records : row'[r] # row[r] =>
          row'[r].ver # 0 /\ p.records[r] = row'[r].ver
    BY <1>4, <2>2, StoredShape
  <2>4. \A f \in fileRow' \ fileRow : f \in p.files
    BY <2>1, <2>2
  <2>5. QED
    BY <2>1, <2>3, <2>4 DEF PastOK
<1>11. QED
  BY <1>1, <1>2, <1>8, <1>9, <1>10

LEMMA ImportStep ==
  ASSUME MigrationInv,
         AppInserts \/ RecordInserts \/ FileInserts \/ (\E f \in Files : Upload(f))
           \/ FinishImport \/ ImportDies
  PROVE  MigrationInv'
<1> USE DEF MigrationInv
<1>1. /\ import \in ImportState /\ row \in [Records -> [ver : Nat, linked : BOOLEAN]]
      /\ fileRow \subseteq Files /\ bucket \subseteq Files
      /\ import.records \subseteq Records /\ import.files \subseteq Files
  BY DEF MigrationTypes, ImportState
<1>2. CASE AppInserts
  <2>1. import' = [import EXCEPT !.phase = "rows"] /\ import.phase = "apps"
        /\ UNCHANGED <<source, exporter, row, fileRow, bucket, outcome, synced, past, touched>>
    BY <1>2 DEF AppInserts, Importing
  <2>2. import' \in ImportState /\ import'.records = import.records
        /\ import'.files = import.files /\ import'.phase = "rows"
    BY <1>1, <2>1 DEF ImportState
  <2>3. QED
    BY <1>1, <2>1, <2>2, ImportGoesOn DEF ImportProgress, source, exporter
<1>3. CASE RecordInserts
  <2>1. PICK b \in SUBSET import.records :
          /\ row' = [r \in Records |-> IF r \in b THEN Stored(r) ELSE row[r]]
          /\ import' = [import EXCEPT !.records = @ \ b]
    BY <1>3 DEF RecordInserts
  <2>2. import.phase = "rows"
        /\ UNCHANGED <<source, exporter, fileRow, bucket, outcome, synced, past, touched>>
    BY <1>3 DEF RecordInserts, Importing
  <2>3. import' \in ImportState /\ import'.records = import.records \ b
        /\ import'.files = import.files /\ import'.phase = "rows"
    BY <1>1, <2>1, <2>2 DEF ImportState
  <2>4. row' \in [Records -> [ver : Nat, linked : BOOLEAN]]
        /\ \A r \in Records : row'[r] = IF r \in b THEN Stored(r) ELSE row[r]
    BY <1>1, <2>1, StoredShape
  <2>5. QED
    BY <1>1, <2>1, <2>2, <2>3, <2>4, ImportGoesOn DEF ImportProgress, source, exporter
<1>4. CASE FileInserts
  <2>1. PICK b \in SUBSET import.files :
          fileRow' = fileRow \cup b /\ import' = [import EXCEPT !.files = @ \ b]
    BY <1>4 DEF FileInserts
  <2>2. import.phase = "rows"
        /\ UNCHANGED <<source, exporter, row, bucket, outcome, synced, past, touched>>
    BY <1>4 DEF FileInserts, Importing
  <2>3. import' \in ImportState /\ import'.records = import.records
        /\ import'.files = import.files \ b /\ import'.phase = "rows"
    BY <1>1, <2>1, <2>2 DEF ImportState
  <2>4. QED
    BY <1>1, <2>1, <2>2, <2>3, ImportGoesOn DEF ImportProgress, source, exporter
<1>5. ASSUME NEW f \in Files, Upload(f) PROVE MigrationInv'
  <2>1. import.phase = "rows" /\ bucket' \in {bucket, bucket \cup {f}}
        /\ UNCHANGED <<source, exporter, row, fileRow, outcome, synced, past, touched>>
    BY <1>5 DEF Upload, Importing
  <2>2. \/ import' = [import EXCEPT !.uploads = @ \ {f}]
        \/ import' = [import EXCEPT !.uploads = @ \ {f}, !.failed = @ \cup {f}]
    BY <1>5 DEF Upload
  <2>3. import' \in ImportState /\ import'.records = import.records
        /\ import'.files = import.files /\ import'.phase = "rows"
    <3>1. CASE import' = [import EXCEPT !.uploads = @ \ {f}]
      BY <1>1, <1>5, <2>1, <3>1 DEF ImportState
    <3>2. CASE import' = [import EXCEPT !.uploads = @ \ {f}, !.failed = @ \cup {f}]
      BY <1>1, <1>5, <2>1, <3>2 DEF ImportState
    <3>3. QED
      BY <2>2, <3>1, <3>2
  <2>4. QED
    BY <1>1, <1>5, <2>1, <2>3, ImportGoesOn DEF ImportProgress, source, exporter
<1>6. CASE FinishImport \/ ImportDies
  <2>1. import' = [import EXCEPT !.phase = "idle"] /\ import.phase # "idle"
        /\ UNCHANGED <<source, exporter, target, synced, past, touched>>
        /\ (outcome' # "ok" \/ (import.records = {} /\ import.files = {}))
    BY <1>6 DEF FinishImport, ImportDies, Importing
  <2>2. import' \in ImportState /\ import'.records = import.records
        /\ import'.files = import.files
    BY <1>1, <2>1 DEF ImportState
  <2>3. QED
    BY <1>1, <2>1, <2>2, ImportGoesOn DEF ImportProgress, source, exporter, target
<1>7. QED
  BY <1>2, <1>3, <1>4, <1>5, <1>6

LEMMA SyncStep ==
  ASSUME MigrationInv, Sync
  PROVE  MigrationInv'
<1>1. PICK put \in SUBSET ((snap.files \ bucket) \cap snap.bytes) : bucket' = bucket \cup put
  BY DEF Sync
<1>2. synced' => snap.files \subseteq bucket'
  BY DEF Sync
<1>3. UNCHANGED <<source, exporter, apps, row, fileRow, import, outcome, past, touched>>
  BY DEF Sync
<1>4. bucket' \subseteq Files
  BY <1>1 DEF MigrationInv, MigrationTypes, SnapshotState
<1>5. MigrationTypes'
  BY <1>3, <1>4 DEF MigrationInv, MigrationTypes, source, exporter
<1>6. QED
  BY <1>2, <1>3, <1>5
  DEF MigrationInv, SnapshotOK, ExportOK, Has, ImportOK, ImportedOK, PastOK, Landed, SnapRecords,
      Stored, RewriteLegacyFileUrls, source, exporter

LEMMA MigrationStep ==
  ASSUME MigrationInv, [MigrationNext]_migrationVars
  PROVE  MigrationInv'
<1>1. CASE UNCHANGED migrationVars
  BY <1>1
  DEF migrationVars, source, exporter, target, importer, MigrationInv, MigrationTypes, SnapshotOK,
      ExportOK, Has, ImportOK, ImportedOK, PastOK, Landed, SnapRecords, Stored,
      RewriteLegacyFileUrls
<1>2. ASSUME NEW r \in Records, LabboxWrites(r) \/ CflabWrites(r) PROVE MigrationInv'
  BY <1>2, LabboxStep, CflabStep
<1>3. ASSUME NEW d \in Datasets, CollectComplete(d) PROVE MigrationInv'
  BY <1>3, CollectStep
<1>4. ASSUME NEW update \in BOOLEAN, NEW allowMissing \in BOOLEAN,
             BuildImportPlan(update, allowMissing)
      PROVE  MigrationInv'
  BY <1>4, PlanStep
<1>5. QED
  BY <1>1, <1>2, <1>3, <1>4, StartExportStep, DownloadStep, SnapshotStep, ExportDiesStep,
     ImportStep, SyncStep
  DEF MigrationNext

LEMMA MigrationAlways == MigrationSpec => []MigrationInv
BY MigrationStarts, MigrationStep, PTL DEF MigrationSpec

(* After a cutover with writes frozen since the export began, nothing that *)
(* LabBox shows is missing, for every number of datasets, records, files   *)
(* and scripts that stopped anywhere before: the exit codes of the export, *)
(* the import and the repair of R2 are each about the last snapshot.       *)
THEOREM CutoverIsComplete == MigrationSpec => []CutoverLosesNothing
<1>1. MigrationInv => CutoverLosesNothing
  <2> SUFFICES ASSUME MigrationInv, snap.fresh, snap.exitOk, outcome = "ok", synced,
                      NEW r \in Records, live[r] # 0
               PROVE  /\ row[r] # NoRow
                      /\ Photo[r] \in attached \ Malformed => Photo[r] \in fileRow \cap bucket
    BY DEF CutoverLosesNothing
  <2>1. Has(snap, r) /\ snap.files \subseteq bucket
    BY DEF MigrationInv, SnapshotOK
  <2>2. r \in SnapRecords
    BY <2>1 DEF Has, SnapRecords
  <2>3. Landed(r) /\ snap.files \ Malformed \subseteq fileRow
    BY <2>2 DEF MigrationInv, ImportedOK
  <2>4. QED
    BY <2>1, <2>3 DEF Has, Landed
<1>2. QED
  BY <1>1, MigrationAlways, PTL

(* No photo URL of CFLab's without the file's row, after any import that   *)
(* ended well: a link is rewritten for the files of the same snapshot.     *)
THEOREM LinksOfImportResolve == MigrationSpec => []LinksResolve
<1>1. MigrationInv => LinksResolve
  <2> SUFFICES ASSUME MigrationInv, outcome = "ok", ~touched, NEW r \in SnapRecords, row[r].linked
               PROVE  Photo[r] \in fileRow \cup Malformed
    BY DEF LinksResolve
  <2>1. row[r] = Stored(r) /\ snap.files \ Malformed \subseteq fileRow
    BY DEF MigrationInv, ImportedOK, Landed
  <2>2. Photo[r] \in snap.files
    BY <2>1, StoredShape DEF MigrationInv, SnapRecords
  <2>3. QED
    BY <2>1, <2>2
<1>2. QED
  BY <1>1, MigrationAlways, PTL

(* Equal counts mean equal contents when nothing disappeared or changed    *)
(* since any earlier import: what CFLab has is then part of the snapshot,  *)
(* and a part with as many members is the whole.                           *)
THEOREM ReconciledIsWhole == MigrationSpec => []ReconciledIsComplete
<1>1. MigrationInv => ReconciledIsComplete
  <2> SUFFICES ASSUME MigrationInv, Reconciles, ~touched,
                      \A p \in past :
                        LET delta == DiffSnapshots(p, snap)
                        IN  delta.disappeared + delta.changed + delta.filesDisappeared = 0
               PROVE  /\ \A r \in SnapRecords : row[r].ver = snap.records[r]
                      /\ snap.files = fileRow
    BY DEF ReconciledIsComplete
  <2>1. \A S : S \subseteq Records \/ S \subseteq Files =>
          IsFiniteSet(S) /\ Cardinality(S) \in Nat /\ (Cardinality(S) = 0 <=> S = {})
    BY DataIsFinite, FS_Subset, FS_EmptySet, FS_CardinalityType
  <2>2. ASSUME NEW p \in past
        PROVE  /\ \A r \in Records : p.records[r] # 0 => p.records[r] = snap.records[r]
               /\ \A f \in Files : f \in p.files => f \in snap.files
    <3> DEFINE gone == InSnapshot(p) \ InSnapshot(snap)
               differ == {r \in InSnapshot(p) \cap InSnapshot(snap) :
                            p.records[r] # snap.records[r]}
               lost == p.files \ snap.files
    <3>1. gone \subseteq Records /\ differ \subseteq Records /\ lost \subseteq Files
      BY DEF InSnapshot, MigrationInv, MigrationTypes
    <3>2. Cardinality(gone) + Cardinality(differ) + Cardinality(lost) = 0
      BY DEF DiffSnapshots, Disappeared, Changed
    <3>3. gone = {} /\ differ = {} /\ lost = {}
      <4> HIDE DEF gone, differ, lost
      <4>1. QED
        BY <2>1, <3>1, <3>2
    <3>4. QED
      BY <3>3 DEF InSnapshot
  <2>3. \A r \in Records : row[r] # NoRow => row[r].ver # 0 /\ row[r].ver = snap.records[r]
    BY <2>2 DEF MigrationInv, PastOK
  <2>4. fileRow \subseteq snap.files
    BY <2>2 DEF MigrationInv, MigrationTypes, PastOK
  <2>5. snap.files \subseteq Files
    BY DEF MigrationInv, MigrationTypes, SnapshotState
  <2>6. snap.files = fileRow
    <3>1. IsFiniteSet(snap.files) /\ Cardinality(snap.files) = Cardinality(fileRow)
      BY <2>1, <2>5 DEF Reconciles
    <3>2. QED
      BY <2>4, <3>1, FS_Subset
  <2>7. ASSUME NEW r \in SnapRecords PROVE row[r].ver = snap.records[r]
    <3>1. PICK d \in Datasets : d = DatasetOf[r]
      BY DatasetsOfRecords DEF SnapRecords
    <3>2. Counted(d) \subseteq Exported(d)
      <4>1. ASSUME NEW c \in Counted(d) PROVE c \in Exported(d)
        <5>1. c \in Records /\ DatasetOf[c] = d /\ row[c].ver # 0
          BY DEF Counted
        <5>2. row[c] # NoRow
          BY <5>1 DEF NoRow
        <5>3. QED
          BY <2>3, <5>1, <5>2 DEF Exported, SnapRecords
      <4>2. QED
        BY <4>1
    <3>3. IsFiniteSet(Exported(d)) /\ Cardinality(Exported(d)) = Cardinality(Counted(d))
      <4>1. Exported(d) \subseteq Records
        BY DEF Exported, SnapRecords
      <4>2. QED
        BY <2>1, <4>1 DEF Reconciles
    <3>4. Counted(d) = Exported(d)
      BY <3>2, <3>3, FS_Subset
    <3>5. r \in Counted(d)
      BY <3>1, <3>4 DEF Exported
    <3>6. r \in Records /\ row[r].ver # 0
      BY <3>5 DEF Counted
    <3>7. row[r] # NoRow
      BY <3>6 DEF NoRow
    <3>8. QED
      BY <2>3, <3>6, <3>7
  <2>8. QED
    BY <2>6, <2>7
<1>2. QED
  BY <1>1, MigrationAlways, PTL
=============================================================================
