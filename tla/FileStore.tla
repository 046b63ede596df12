------------------------------ MODULE FileStore ------------------------------
(***************************************************************************)
(* The files and records of one app: rows in D1, bytes in R2, and no       *)
(* transaction that spans both.  An upload writes the bytes before the row *)
(* and a deletion removes the bytes before the row; a request may fail or  *)
(* die between any two of its storage calls, and a client may repeat it.   *)
(*                                                                         *)
(* Every key and every statement carries the app id, so one app is enough; *)
(* a file is stored under a key its id determines.                         *)
(***************************************************************************)
CONSTANTS
  FileIds,    \* ids clients use for files
  RecordIds,  \* ids clients use for records
  Contents,   \* payloads, compared by size and checksum
  Requests,   \* slots for requests in flight
  None

ASSUME NoneIsNothing == None \notin FileIds \cup RecordIds \cup Contents

VARIABLES
  records,    \* table records
  files,      \* table files
  objects,    \* the R2 bucket
  abandoned,  \* history: file ids whose upload stopped after writing bytes
  req         \* the requests in flight

vars == <<records, files, objects, abandoned, req>>

RecordRow ==
  [state : {"absent", "live", "archived"}, data : Contents \cup {None}]

(* content is None when there is no row; halfDeleted remembers that a      *)
(* deletion has removed the object and not yet the row.                    *)
FileRow ==
  [content : Contents \cup {None}, record : RecordIds \cup {None},
   halfDeleted : BOOLEAN]

NoFile == [content |-> None, record |-> None, halfDeleted |-> FALSE]

Request ==
  [pc : {"idle", "upload_existing", "upload_put", "upload_insert",
         "upload_undo", "delete_object", "delete_row", "archive"},
   file : FileIds \cup {None}, record : RecordIds \cup {None},
   content : Contents \cup {None}]

Idle == [pc |-> "idle", file |-> None, record |-> None, content |-> None]

TypeOK ==
  /\ records \in [RecordIds -> RecordRow]
  /\ files \in [FileIds -> FileRow]
  /\ objects \in [FileIds -> Contents \cup {None}]
  /\ abandoned \in SUBSET FileIds
  /\ req \in [Requests -> Request]

Init ==
  /\ records = [n \in RecordIds |-> [state |-> "absent", data |-> None]]
  /\ files = [f \in FileIds |-> NoFile]
  /\ objects = [f \in FileIds |-> None]
  /\ abandoned = {}
  /\ req = [r \in Requests |-> Idle]

Open(r, request) ==
  /\ req[r].pc = "idle"
  /\ req' = [req EXCEPT ![r] = request]

Goto(r, pc) == req' = [req EXCEPT ![r].pc = pc]

End(r) == req' = [req EXCEPT ![r] = Idle]

-----------------------------------------------------------------------------
(* Records: a creation and an update are one statement each.               *)

(* A second creation under the same id conflicts, and only reads.          *)
CreateRecord(n, c) ==
  /\ records[n].state = "absent"
  /\ records' = [records EXCEPT ![n] = [state |-> "live", data |-> c]]
  /\ UNCHANGED <<files, objects, abandoned, req>>

(* Mutant of PatchRecord: the UPDATE does not ask for deleted_at IS NULL. *)
PatchRecordBlind(n, c) ==
  /\ records[n].state # "absent"
  /\ records' = [records EXCEPT ![n].data = c]
  /\ UNCHANGED <<files, objects, abandoned, req>>

PatchRecord(n, c) ==
  /\ records[n].state = "live"
  /\ records' = [records EXCEPT ![n].data = c]
  /\ UNCHANGED <<files, objects, abandoned, req>>

DeleteRecordRead(r, n) ==
  /\ records[n].state = "live"
  /\ Open(r, [Idle EXCEPT !.pc = "archive", !.record = n])
  /\ UNCHANGED <<records, files, objects, abandoned>>

DeleteRecordWrite(r) ==
  /\ req[r].pc = "archive"
  /\ records' = [records EXCEPT ![req[r].record].state = "archived"]
  /\ End(r)
  /\ UNCHANGED <<files, objects, abandoned>>

-----------------------------------------------------------------------------
(* POST /files: check the linked record, receive the bytes, look for a row *)
(* of that id, put the object, insert the row; undo the put when the       *)
(* insertion fails.                                                        *)

UploadStart(r, f, c, n) ==
  /\ n # None => records[n].state = "live"
  /\ Open(r, [pc |-> "upload_existing", file |-> f, record |-> n,
              content |-> c])
  /\ UNCHANGED <<records, files, objects, abandoned>>

Pending(r, pc, f) == req[r].pc = pc /\ req[r].file = f

(* Mutant of UploadNew: a row that is there does not stop the upload. *)
UploadNewAnyway(r, f) ==
  /\ Pending(r, "upload_existing", f)
  /\ Goto(r, "upload_put")
  /\ UNCHANGED <<records, files, objects, abandoned>>

UploadNew(r, f) ==
  /\ Pending(r, "upload_existing", f)
  /\ files[f].content = None
  /\ Goto(r, "upload_put")
  /\ UNCHANGED <<records, files, objects, abandoned>>

(* The same bytes under the same id are answered with the row that is      *)
(* there; other bytes are a conflict, which changes nothing (Stop).        *)
UploadRepeat(r, f) ==
  /\ Pending(r, "upload_existing", f)
  /\ files[f].content = req[r].content
  /\ End(r)
  /\ UNCHANGED <<records, files, objects, abandoned>>

UploadPut(r, f) ==
  /\ Pending(r, "upload_put", f)
  /\ objects' = [objects EXCEPT ![f] = req[r].content]
  /\ Goto(r, "upload_insert")
  /\ UNCHANGED <<records, files, abandoned>>

UploadInsert(r, f) ==
  /\ Pending(r, "upload_insert", f)
  /\ files[f].content = None
  /\ files' = [files EXCEPT ![f] =
       [NoFile EXCEPT !.content = req[r].content, !.record = req[r].record]]
  /\ End(r)
  /\ UNCHANGED <<records, objects, abandoned>>

(* Mutant of UploadInsertFails: the error is answered without undoing. *)
UploadInsertFailsQuietly(r, f) ==
  /\ Pending(r, "upload_insert", f)
  /\ End(r)
  /\ UNCHANGED <<records, files, objects, abandoned>>

(* The id is taken by now, or the statement fails for another reason, and  *)
(* nothing is stored: an INSERT that took effect and was reported as       *)
(* failed is left out.                                                     *)
UploadInsertFails(r, f) ==
  /\ Pending(r, "upload_insert", f)
  /\ Goto(r, "upload_undo")
  /\ UNCHANGED <<records, files, objects, abandoned>>

UploadUndo(r, f) ==
  /\ Pending(r, "upload_undo", f)
  /\ objects' = [objects EXCEPT ![f] = None]
  /\ End(r)
  /\ UNCHANGED <<records, files, abandoned>>

-----------------------------------------------------------------------------
(* DELETE /files/:id: find the row, remove the object, remove the row.     *)

DeleteFind(r, f) ==
  /\ files[f].content # None
  /\ Open(r, [Idle EXCEPT !.pc = "delete_object", !.file = f])
  /\ UNCHANGED <<records, files, objects, abandoned>>

DeleteObject(r, f) ==
  /\ Pending(r, "delete_object", f)
  /\ objects' = [objects EXCEPT ![f] = None]
  /\ files' = [files EXCEPT ![f].halfDeleted = files[f].content # None]
  /\ Goto(r, "delete_row")
  /\ UNCHANGED <<records, abandoned>>

DeleteRow(r, f) ==
  /\ Pending(r, "delete_row", f)
  /\ files' = [files EXCEPT ![f] = NoFile]
  /\ End(r)
  /\ UNCHANGED <<records, objects, abandoned>>

(* A rejected, failed or dying request leaves what it has done so far.     *)
Stop(r) ==
  /\ req[r].pc # "idle"
  /\ abandoned' = IF req[r].pc \in {"upload_insert", "upload_undo"}
                  THEN abandoned \cup {req[r].file} ELSE abandoned
  /\ End(r)
  /\ UNCHANGED <<records, files, objects>>

-----------------------------------------------------------------------------
RecordNext ==
  \/ \E n \in RecordIds, c \in Contents : CreateRecord(n, c) \/ PatchRecord(n, c)
  \/ \E r \in Requests, n \in RecordIds : DeleteRecordRead(r, n)
  \/ \E r \in Requests : DeleteRecordWrite(r)

UploadNext ==
  \/ \E r \in Requests, f \in FileIds, c \in Contents, n \in RecordIds \cup {None} :
       UploadStart(r, f, c, n)
  \/ \E r \in Requests, f \in FileIds :
       \/ UploadNew(r, f)
       \/ UploadRepeat(r, f)
       \/ UploadPut(r, f)
       \/ UploadInsert(r, f)
       \/ UploadInsertFails(r, f)
       \/ UploadUndo(r, f)

DeleteNext ==
  \E r \in Requests, f \in FileIds :
    DeleteFind(r, f) \/ DeleteObject(r, f) \/ DeleteRow(r, f)

Next ==
  \/ RecordNext
  \/ UploadNext
  \/ DeleteNext
  \/ \E r \in Requests : Stop(r)

Spec == Init /\ [][Next]_vars

-----------------------------------------------------------------------------
(* Files.                                                                  *)

(* A row's bytes are the ones that were uploaded with it, until a deletion *)
(* removes them: whatever uploads of that id were retried, with the same   *)
(* or other bytes, and wherever a request died; provided that an INSERT    *)
(* reported as failed stored nothing.                                      *)
RowHasBytes ==
  \A f \in FileIds :
    files[f].content # None /\ ~files[f].halfDeleted
      => objects[f] = files[f].content

(* Bytes without a row are what an upload in flight has yet to insert or   *)
(* undo, or what one that died has left (docs/ARCHITECTURE.md: "A process  *)
(* crash or failed compensation can leave an orphan R2 object").           *)
OrphanHasCause ==
  \A f \in FileIds :
    objects[f] # None /\ files[f].content = None =>
      \/ f \in abandoned
      \/ \E r \in Requests :
           Pending(r, "upload_insert", f) \/ Pending(r, "upload_undo", f)

(* An archived record stays as it was when it was deleted: neither a       *)
(* delayed update nor a repeated creation changes or revives it.           *)
ArchivedUnchanged ==
  [][\A n \in RecordIds :
       records[n].state = "archived" => records'[n] = records[n]]_vars
=============================================================================
