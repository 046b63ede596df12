---------------------------- MODULE LabboxMigration ----------------------------
(***************************************************************************)
(* The migration from LabBox: scripts/migrate exports a snapshot over the  *)
(* live read API, imports it into D1 and R2, repairs R2 and reconciles.    *)
(* LabBox is written to while it is exported, CFLab's users write to what  *)
(* was imported, and every script may stop anywhere.  The operator runs    *)
(* one script at a time.  The content of a file never changes and what     *)
(* the exporter keeps is verified, so a file either has its bytes or not.  *)
(***************************************************************************)
EXTENDS Naturals, FiniteSets

CONSTANTS
  Records, Files, Datasets, Apps,
  DatasetOf, AppOf,  \* of each record, of each dataset
  Photo,             \* Photo[r]: the file a record shows, or NoPhoto
  Malformed,         \* records and files that fail their validation
  NoPhoto,
  MaxVersion, MaxChanges, MaxExports, MaxImports,  \* bounds
  BatchSize          \* statements in one SQL file

ASSUME DatasetsOfRecords == DatasetOf \in [Records -> Datasets] /\ AppOf \in [Datasets -> Apps]
ASSUME PhotosAreFiles == Photo \in [Records -> Files \cup {NoPhoto}] /\ NoPhoto \notin Files
ASSUME BoundsAreNumbers == {MaxVersion, MaxChanges, MaxExports, MaxImports} \subseteq Nat
ASSUME DataIsFinite == IsFiniteSet(Records) /\ IsFiniteSet(Files)
ASSUME BatchesAreNotEmpty == BatchSize \in Nat \ {0}

VARIABLES
  live,      \* LabBox: version of each record, 0 when it has none or hides it
  attached,  \* LabBox: files that can be listed and downloaded
  export,    \* the exporter at work; "fresh": LabBox is as when it began
  snap,      \* the snapshot written last
  apps,      \* CFLab: "absent", "full", or "other": without a migrated origin
  row,       \* CFLab: version of each record, and whether its photo URL is CFLab's
  fileRow, bucket,  \* CFLab: files with metadata, files with bytes in R2
  import,    \* the importer at work
  outcome,   \* of the last import of this snapshot
  synced,    \* the last repair of R2 ended well, for this snapshot
  past,      \* history: snapshots whose import began
  touched,   \* history: CFLab's users wrote migrated data
  changes, exports, imports

source == <<live, attached, changes>>
exporter == <<export, snap, exports>>
target == <<apps, row, fileRow, bucket>>
importer == <<import, outcome, synced, past, imports>>
migrationVars == <<source, exporter, target, importer, touched>>

Edited == MaxVersion + 1
Archived == MaxVersion + 2
NoRow == [ver |-> 0, linked |-> FALSE]

ShownFiles(rs) == {Photo[r] : r \in rs} \ {NoPhoto}
NoExport == [phase |-> "idle", left |-> {}, records |-> [r \in Records |-> 0],
             files |-> {}, bytes |-> {}, complete |-> TRUE, fresh |-> TRUE]
NoSnapshot == [written |-> FALSE, records |-> [r \in Records |-> 0],
               files |-> {}, bytes |-> {}, filesComplete |-> TRUE, exitOk |-> FALSE, fresh |-> FALSE]
NoImport == [phase |-> "idle", records |-> {}, files |-> {}, uploads |-> {},
             failed |-> {}]

MigrationTypeOK ==
  /\ live \in [Records -> 0..MaxVersion] /\ attached \subseteq Files
  /\ snap.records \in [Records -> 0..MaxVersion] /\ snap.bytes \subseteq Files
  /\ apps \in [Apps -> {"absent", "full", "other"}]
  /\ row \in [Records -> [ver : 0..Archived, linked : BOOLEAN]]
  /\ fileRow \subseteq Files /\ bucket \subseteq Files
  /\ outcome \in {"none", "ok", "failed", "refused"}

(* The schema migrations may have registered an app with other origins.    *)
MigrationInit ==
  /\ live \in [Records -> {0, 1}] /\ attached = Files
  /\ export = NoExport /\ snap = NoSnapshot
  /\ apps \in [Apps -> {"absent", "full", "other"}]
  /\ row = [r \in Records |-> NoRow] /\ fileRow = {} /\ bucket = {}
  /\ import = NoImport /\ outcome = "none" /\ synced = FALSE
  /\ past = {} /\ touched = FALSE
  /\ changes = 0 /\ exports = 0 /\ imports = 0

\* LabBox and CFLab in use

(* A record is created, changed or deleted, or loses its file.             *)
LabboxWrites(r) ==
  /\ changes < MaxChanges /\ changes' = changes + 1
  /\ export' = [export EXCEPT !.fresh = FALSE] /\ snap' = [snap EXCEPT !.fresh = FALSE]
  /\ \/ /\ live[r] < MaxVersion
        /\ live' = [live EXCEPT ![r] = @ + 1] /\ UNCHANGED attached
     \/ live[r] > 0 /\ live' = [live EXCEPT ![r] = 0] /\ UNCHANGED attached
     \/ Photo[r] \in attached /\ attached' = attached \ {Photo[r]} /\ UNCHANGED live
  /\ UNCHANGED <<exports, target, importer, touched>>

(* A record is edited, archived, or created by a client that kept its id.  *)
CflabWrites(r) ==
  /\ changes < MaxChanges /\ changes' = changes + 1
  /\ apps[AppOf[DatasetOf[r]]] # "absent"
  /\ \E v \in {Edited, Archived} : row' = [row EXCEPT ![r].ver = v]
  /\ touched' = TRUE
  /\ UNCHANGED <<live, attached, exporter, apps, fileRow, bucket, importer>>

\* export-labbox.ts

NoScriptRuns == export.phase = "idle" /\ import.phase = "idle"

(* A new directory, or again the one of the last snapshot, whose verified  *)
(* files are not downloaded again.                                         *)
StartExport ==
  /\ NoScriptRuns /\ exports < MaxExports /\ exports' = exports + 1
  /\ \E bytes \in {{}, snap.bytes} :
       export' = [NoExport EXCEPT !.phase = "datasets", !.left = Datasets, !.bytes = bytes]
  /\ UNCHANGED <<source, snap, target, importer, touched>>

ValidateRecord(r) == r \notin Malformed
ListedIn(d) == {r \in Records : DatasetOf[r] = d /\ live[r] # 0}

(* One dataset is read at once; three attempts may fail, and the total may *)
(* disagree with what came.  A malformed record is rejected.               *)
CollectComplete(d) ==
  LET good == {r \in ListedIn(d) : ValidateRecord(r)} IN
  /\ export.phase = "datasets" /\ d \in export.left
  /\ \/ export' = [export EXCEPT
          !.left = @ \ {d},
          !.records = [r \in Records |-> IF r \in good THEN live[r] ELSE @[r]],
          !.files = @ \cup (ShownFiles(good) \cap attached),
          !.complete = @ /\ good = ListedIn(d)]
     \/ export' = [export EXCEPT !.left = @ \ {d}, !.complete = FALSE]
  /\ UNCHANGED <<source, snap, exports, target, importer, touched>>

(* The files the records list, downloaded in any order: those that are     *)
(* gone or fail are missing.                                               *)
DownloadFiles ==
  /\ export.phase = "datasets" /\ export.left = {}
  /\ \E got \in SUBSET (export.files \cap attached) :
       export' = [export EXCEPT !.phase = "manifest", !.bytes = @ \cup got]
  /\ UNCHANGED <<source, snap, exports, target, importer, touched>>

FilesOnly(filesComplete) == filesComplete
ExitsWell(filesComplete) == filesComplete /\ export.complete

WriteSnapshot ==
  LET complete == export.files \subseteq export.bytes IN
  /\ export.phase = "manifest"
  /\ snap' = [written |-> TRUE, records |-> export.records, files |-> export.files,
              bytes |-> export.bytes, filesComplete |-> complete, exitOk |-> ExitsWell(complete),
              fresh |-> export.fresh]
  /\ export' = NoExport
  /\ outcome' = "none" /\ synced' = FALSE /\ import' = NoImport
  /\ UNCHANGED <<source, exports, target, past, imports, touched>>

ExportDies ==
  /\ export.phase # "idle" /\ export' = NoExport
  /\ UNCHANGED <<source, snap, exports, target, importer, touched>>

\* import-cflab.ts

SnapRecords == {r \in Records : snap.records[r] # 0}

(* A photo URL becomes CFLab's when the snapshot has its file, also when   *)
(* that file's metadata is malformed and it will not be imported.          *)
RewriteEvery(r) == Photo[r] # NoPhoto
RewriteLegacyFileUrls(r) == Photo[r] \in snap.files
Stored(r) == [ver |-> snap.records[r], linked |-> RewriteLegacyFileUrls(r)]

ValidateFile(f) == f \notin Malformed
NewRecords == {r \in SnapRecords : row[r] = NoRow}
Differing == {r \in SnapRecords : row[r] \notin {NoRow, Stored(r)}}
UsedApps == {AppOf[DatasetOf[r]] : r \in SnapRecords}
AppConflicts == {a \in UsedApps : apps[a] = "other"}

(* The rows are read and the plan made.  A conflict stops the import;      *)
(* --update plans to insert what differs instead.  File rows are never     *)
(* different: their content is fixed.  A dry run ends here.                *)
BuildImportPlan(update, allowMissing) ==
  LET plan == NewRecords \cup (IF update THEN Differing ELSE {})
      files == {f \in snap.files \ fileRow : ValidateFile(f)}
  IN
  /\ NoScriptRuns /\ snap.written /\ imports < MaxImports /\ imports' = imports + 1
  /\ snap.filesComplete \/ allowMissing
  /\ IF AppConflicts # {} \/ (~update /\ Differing # {})
       THEN /\ outcome' = "refused" /\ import' = NoImport /\ UNCHANGED past
       ELSE /\ import' = [phase |-> "apps", records |-> plan, files |-> files,
                          uploads |-> files, failed |-> {}]
            /\ outcome' = "none"
            /\ past' = past \cup {[records |-> snap.records, files |-> snap.files]}
  /\ UNCHANGED <<source, exporter, target, synced, touched>>

Importing(phase) == import.phase = phase

AppInserts ==
  /\ Importing("apps")
  /\ apps' = [a \in Apps |-> IF a \in UsedApps /\ apps[a] = "absent" THEN "full" ELSE apps[a]]
  /\ import' = [import EXCEPT !.phase = "rows"]
  /\ UNCHANGED <<source, exporter, row, fileRow, bucket, outcome, synced, past, imports, touched>>

(* Whole SQL files are applied; an INSERT of a row that exists fails, so   *)
(* --update stops at the first row it was meant to change.                 *)
RecordInserts ==
  /\ Importing("rows") /\ import.records # {}
  /\ \E b \in SUBSET import.records :
       /\ b # {} /\ (Cardinality(b) = BatchSize \/ b = import.records)
       /\ Cardinality(b) <= BatchSize
       /\ \A r \in b : row[r] = NoRow
       /\ row' = [r \in Records |-> IF r \in b THEN Stored(r) ELSE row[r]]
       /\ import' = [import EXCEPT !.records = @ \ b]
  /\ UNCHANGED <<source, exporter, apps, fileRow, bucket, outcome, synced, past, imports, touched>>

FileInserts ==
  /\ Importing("rows") /\ import.records = {} /\ import.files # {}
  /\ \E b \in SUBSET import.files :
       /\ b # {} /\ (Cardinality(b) = BatchSize \/ b = import.files)
       /\ Cardinality(b) <= BatchSize
       /\ fileRow' = fileRow \cup b
       /\ import' = [import EXCEPT !.files = @ \ b]
  /\ UNCHANGED <<source, exporter, apps, row, bucket, outcome, synced, past, imports, touched>>

(* The bytes are put one file at a time, and the import goes on after a    *)
(* failure; a file the snapshot never got stops it.                        *)
Upload(f) ==
  /\ Importing("rows") /\ import.records = {} /\ import.files = {}
  /\ f \in import.uploads \cap snap.bytes
  /\ \/ bucket' = bucket \cup {f} /\ import' = [import EXCEPT !.uploads = @ \ {f}]
     \/ /\ import' = [import EXCEPT !.uploads = @ \ {f}, !.failed = @ \cup {f}]
        /\ bucket' \in {bucket, bucket \cup {f}}
  /\ UNCHANGED <<source, exporter, apps, row, fileRow, outcome, synced, past, imports, touched>>

(* A sample of the uploads is read back before the exit status.            *)
FinishImport ==
  /\ Importing("rows")
  /\ import.records = {} /\ import.files = {} /\ import.uploads = {}
  /\ outcome' \in {IF import.failed = {} THEN "ok" ELSE "failed", "failed"}
  /\ import' = [import EXCEPT !.phase = "idle"]
  /\ UNCHANGED <<source, exporter, target, synced, past, imports, touched>>

ImportDies ==
  /\ import.phase # "idle"
  /\ import' = [import EXCEPT !.phase = "idle"] /\ outcome' = "failed"
  /\ UNCHANGED <<source, exporter, target, synced, past, imports, touched>>

\* sync-r2.ts and reconcile.ts

(* What the listing lacks is uploaded, stopping at a file the snapshot     *)
(* never got; then everything is read back and compared with the           *)
(* snapshot's hashes, which such a file does not have.                     *)
Sync ==
  /\ NoScriptRuns /\ snap.written
  /\ \E put \in SUBSET ((snap.files \ bucket) \cap snap.bytes) : bucket' = bucket \cup put
  /\ synced' \in {snap.files \subseteq bucket' \cap snap.bytes, FALSE}
  /\ UNCHANGED <<source, exporter, apps, row, fileRow, import, outcome, past, imports, touched>>

Counted(d) == {r \in Records : DatasetOf[r] = d /\ row[r].ver \notin {0, Archived}}
Exported(d) == {r \in SnapRecords : DatasetOf[r] = d}

(* Counts for each dataset, and the number and bytes of the file rows      *)
(* whatever their records: what the script prints as a match.              *)
Reconciles ==
  /\ \A d \in Datasets : Cardinality(Exported(d)) = Cardinality(Counted(d))
  /\ Cardinality(snap.files) = Cardinality(fileRow)

InSnapshot(s) == {r \in Records : s.records[r] # 0}
Added(previous, next) == Cardinality(InSnapshot(next) \ InSnapshot(previous))
Disappeared(previous, next) == Cardinality(InSnapshot(previous) \ InSnapshot(next))
Same(previous, next) ==
  Cardinality({r \in InSnapshot(previous) \cap InSnapshot(next) :
                 previous.records[r] = next.records[r]})
Changed(previous, next) ==
  Cardinality({r \in InSnapshot(previous) \cap InSnapshot(next) :
                 previous.records[r] # next.records[r]})
DiffSnapshots(previous, next) ==
  [added |-> Added(previous, next), disappeared |-> Disappeared(previous, next),
   changed |-> Changed(previous, next),
   filesDisappeared |-> Cardinality(previous.files \ next.files)]

MigrationNext ==
  \/ \E r \in Records : LabboxWrites(r) \/ CflabWrites(r)
  \/ StartExport \/ (\E d \in Datasets : CollectComplete(d)) \/ DownloadFiles
  \/ WriteSnapshot \/ ExportDies
  \/ \E update, allowMissing \in BOOLEAN : BuildImportPlan(update, allowMissing)
  \/ AppInserts \/ RecordInserts \/ FileInserts
  \/ \E f \in Files : Upload(f)
  \/ FinishImport \/ ImportDies \/ Sync

MigrationSpec == MigrationInit /\ [][MigrationNext]_migrationVars

-----------------------------------------------------------------------------
(* Cut over with writes frozen since the export began: when the export,    *)
(* the import and the repair of R2 each ended well, every record LabBox    *)
(* shows is stored and every well-formed file it shows has its row and its *)
(* bytes, whatever failed or was cut short before.                         *)
CutoverLosesNothing ==
  snap.fresh /\ snap.exitOk /\ outcome = "ok" /\ synced =>
    \A r \in Records : live[r] # 0 =>
      /\ row[r] # NoRow
      /\ Photo[r] \in attached \ Malformed => Photo[r] \in fileRow \cap bucket

(* A reconciliation that matches compares counts only.  It does mean that  *)
(* CFLab has exactly the snapshot, unless users wrote there, or a snapshot *)
(* imported before had, by the delta report, a record or file that has     *)
(* since disappeared or changed.                                           *)
ReconciledIsComplete ==
  /\ snap.written /\ Reconciles /\ ~touched
  /\ \A p \in past :
       LET delta == DiffSnapshots(p, snap) IN
       delta.disappeared + delta.changed + delta.filesDisappeared = 0
  => /\ \A r \in SnapRecords : row[r].ver = snap.records[r]
     /\ snap.files = fileRow

(* After an import that ended well, no record of its snapshot has a photo  *)
(* URL of CFLab's without that file's row; files whose metadata is         *)
(* malformed are excepted.                                                 *)
LinksResolve ==
  outcome = "ok" /\ ~touched =>
    \A r \in SnapRecords : row[r].linked => Photo[r] \in fileRow \cup Malformed

=============================================================================
