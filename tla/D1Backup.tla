------------------------------- MODULE D1Backup -------------------------------
(***************************************************************************)
(* The daily logical backup of one D1 database: a read-only dump, a trial  *)
(* restore, the upload of the artifact, its checksum and its manifest, and *)
(* the reports and drills that read the backup bucket.  The application    *)
(* and the release pipeline change the database between any two requests   *)
(* of the dump; the job may die at any step, and the bucket loses what its *)
(* rules no longer protect.                                                *)
(*                                                                         *)
(* The exporter treats its databases one after another in the same way, so *)
(* one is enough.  A table is a number, standing for its place in the      *)
(* alphabet; ids are those an AUTOINCREMENT column hands out.              *)
(***************************************************************************)
EXTENDS Integers, Sequences, Functions, FiniteSets

CONSTANTS
  Tables,      \* numbers, in alphabetical order of the names
  Refs,        \* the tables a table REFERENCES
  Added,       \* tables a pending migration creates
  MaxId,       \* bound: rows ever inserted
  MaxStamp,    \* bound: runs of the job
  MaxNow,      \* bound: the clock
  MaxAge,      \* freshness limit of backup-status
  MinLock,     \* days a lock rule must cover (EXPECTED.locks)
  MaxExpire,   \* days after which a lifecycle rule must have expired
  Rules,       \* bucket rules an account may have
  None

ASSUME TablesAreNumbers == Tables \subseteq Nat /\ Added \subseteq Tables
ASSUME SchemaIsFinite == IsFiniteSet(Tables)
ASSUME RefsAreTables == Refs \in [Tables -> SUBSET Tables]
ASSUME ParentsComeFirst == \A t \in Tables \ Added : Refs[t] \cap Added = {}
ASSUME LimitsAreNumbers ==
  {MaxId, MaxStamp, MaxNow, MaxAge, MinLock, MaxExpire} \subseteq Nat
ASSUME LockOutlastsFreshness == MaxAge < MinLock
ASSUME RulesAreRules == Rules \subseteq [lock : Nat, expire : Nat, enabled : BOOLEAN]

Ids == 1..MaxId
Stamps == 1..MaxStamp
Parts == {"sql", "sha256", "manifest"}

VARIABLES
  db,       \* production: tables, rows, migration ledger, counter
  job,      \* the run of the backup job
  bucket,   \* objects under d1/: for each stamp the parts present
  rules,    \* lock and lifecycle rules of the bucket
  restored, \* databases that drills have written to
  now

vars == <<db, job, bucket, rules, restored, now>>

Database ==
  [tables : SUBSET Tables, rows : [Tables -> SUBSET Ids],
   ledger : SUBSET Added, seq : 0..MaxId]

EmptyRows == [t \in Tables |-> {}]
NoLive == [tables |-> {}, counts |-> [t \in Tables |-> 0]]
NoDump ==
  [order |-> <<>>, cycles |-> {}, rows |-> EmptyRows, ledger |-> {}, seq |-> None]
Ended(stamp) ==
  [pc |-> "idle", at |-> 0, stamp |-> stamp, live |-> NoLive, dump |-> NoDump]
Absent == [parts |-> {}, at |-> 0, dump |-> NoDump]

Stages ==
  {"idle", "live", "schema", "rows", "sequence", "verify", "restore",
   "sql", "sha256", "manifest", "status"}

TypeOK ==
  /\ db \in Database
  /\ job.pc \in Stages
  /\ job.stamp \in 0..MaxStamp
  /\ bucket \in [Stamps -> [parts : SUBSET Parts, at : 0..MaxNow,
                            dump : {bucket[s].dump : s \in Stamps}]]
  /\ rules \in Rules
  /\ now \in 0..MaxNow

-----------------------------------------------------------------------------
(* orderTablesByDependencies: pass over the sorted names, placing a table  *)
(* when all it references is placed, until nothing changes.                *)
Sorted(tables) ==
  CHOOSE s \in [1..Cardinality(tables) -> tables] :
    \A i, j \in DOMAIN s : i < j => s[i] < s[j]

Place(placed, t, tables) ==
  IF t \notin Range(placed) /\ (Refs[t] \cap tables) \ {t} \subseteq Range(placed)
  THEN Append(placed, t) ELSE placed

Pass(placed, tables) ==
  LET names == Sorted(tables)
      upTo[k \in 0..Cardinality(tables)] ==
        IF k = 0 THEN placed ELSE Place(upTo[k - 1], names[k], tables)
  IN upTo[Cardinality(tables)]

(* Mutant: the names are only sorted.                                      *)
OrderByName(tables) == [ordered |-> Sorted(tables), cycles |-> {}]

OrderTables(tables) ==
  LET passes[n \in 0..Cardinality(tables)] ==
        IF n = 0 THEN <<>> ELSE Pass(passes[n - 1], tables)
      placed == passes[Cardinality(tables)]
      rest == tables \ Range(placed)
  IN [ordered |-> placed \o Sorted(rest), cycles |-> rest]

(* verifyExport and the shortfall check of exportDatabase: the tables of   *)
(* the SQL are those listed first, and no table has fewer rows than it was *)
(* counted to have.                                                        *)
VerifyExport(live, dump) ==
  /\ Range(dump.order) = live.tables
  /\ dump.cycles = {}
  /\ \A t \in live.tables : Cardinality(dump.rows[t]) >= live.counts[t]

(* buildDumpSql replayed with foreign keys on and no transaction: a row    *)
(* needs the rows it references, written earlier in the file.              *)
Replays(dump) ==
  \A k \in DOMAIN dump.order :
    \A p \in (Refs[dump.order[k]] \cap Range(dump.order)) \ {dump.order[k]} :
      dump.rows[dump.order[k]] \subseteq
        UNION {dump.rows[dump.order[j]] : j \in {i \in 1..(k - 1) : dump.order[i] = p}}

(* verifyRestored: what the manifest records holds of the restored copy.   *)
VerifyRestored(manifest, copy) ==
  /\ Range(copy.order) = Range(manifest.order)
  /\ \A t \in Range(manifest.order) : copy.rows[t] = manifest.rows[t]
  /\ Replays(copy)

-----------------------------------------------------------------------------
(* Mutant: only the lifecycle rules are looked at.                         *)
SetupIgnoresLocks(r) == r.expire <= MaxExpire

(* evaluateSetup: the policy an operator verifies before activating the    *)
(* job; it does not look at whether a rule is enabled.                     *)
SetupOK(r) == r.lock >= MinLock /\ r.expire <= MaxExpire

Init ==
  /\ db = [tables |-> Tables \ Added, rows |-> EmptyRows, ledger |-> {}, seq |-> 0]
  /\ job = Ended(0)
  /\ bucket = [s \in Stamps |-> Absent]
  /\ rules \in {r \in Rules : SetupOK(r)}
  /\ restored = {}
  /\ now = 0

(* The Workers: one transaction writes, or deletes, related rows of every  *)
(* table.                                                                  *)
InsertRows ==
  /\ db.seq < MaxId
  /\ db' = [db EXCEPT !.seq = @ + 1,
              !.rows = [t \in Tables |->
                          IF t \in db.tables THEN @[t] \cup {db.seq + 1} ELSE @[t]]]
  /\ UNCHANGED <<job, bucket, rules, restored, now>>

DeleteRows ==
  \E i \in UNION {db.rows[t] : t \in db.tables} :
    /\ db' = [db EXCEPT !.rows = [t \in Tables |-> @[t] \ {i}]]
    /\ UNCHANGED <<job, bucket, rules, restored, now>>

(* A release applies a pending migration: its table, created after those   *)
(* it references, and its ledger row.                                      *)
Migrate ==
  \E t \in Added \ db.tables :
    /\ Refs[t] \subseteq db.tables \cup {t}
    /\ db' = [db EXCEPT !.tables = @ \cup {t}, !.ledger = @ \cup {t}]
    /\ UNCHANGED <<job, bucket, rules, restored, now>>

Tick ==
  /\ now < MaxNow
  /\ now' = now + 1
  /\ UNCHANGED <<db, job, bucket, rules, restored>>

-----------------------------------------------------------------------------
(* The backup job.                                                         *)
StartRun ==
  /\ job.pc = "idle" /\ job.stamp < MaxStamp
  /\ job' = [Ended(job.stamp + 1) EXCEPT !.pc = "live", !.at = now]
  /\ UNCHANGED <<db, bucket, rules, restored, now>>

LiveState ==
  /\ job.pc = "live"
  /\ job' = [job EXCEPT !.pc = "schema",
       !.live = [tables |-> db.tables,
                 counts |-> [t \in Tables |-> Cardinality(db.rows[t])]]]
  /\ db.tables # {}
  /\ UNCHANGED <<db, bucket, rules, restored, now>>

ReadSchema ==
  /\ job.pc = "schema"
  /\ job' = [job EXCEPT !.pc = "rows",
       !.dump.order = OrderTables(db.tables).ordered,
       !.dump.cycles = OrderTables(db.tables).cycles]
  /\ UNCHANGED <<db, bucket, rules, restored, now>>

(* Mutant: one request for each table; seq counts the tables read.         *)
ReadRowsByTable ==
  LET k == IF job.dump.seq = None THEN 1 ELSE job.dump.seq
  IN /\ job.pc = "rows"
     /\ job' = [job EXCEPT
          !.pc = IF k = Len(job.dump.order) THEN "sequence" ELSE "rows",
          !.dump.seq = k + 1,
          !.dump.rows[job.dump.order[k]] = db.rows[job.dump.order[k]],
          !.dump.ledger = db.ledger]
     /\ UNCHANGED <<db, bucket, rules, restored, now>>

(* One request, so one snapshot; the ledger is a table like the others.    *)
ReadRows ==
  /\ job.pc = "rows"
  /\ job' = [job EXCEPT !.pc = "sequence",
       !.dump.rows = [t \in Tables |->
          IF t \in Range(job.dump.order) THEN db.rows[t] ELSE {}],
       !.dump.ledger = db.ledger]
  /\ UNCHANGED <<db, bucket, rules, restored, now>>

(* Mutant: the counter is taken from the rows counted at the start.        *)
ReadSequenceFromCounts ==
  /\ job.pc = "sequence"
  /\ \E t \in job.live.tables :
       job' = [job EXCEPT !.pc = "verify", !.dump.seq = job.live.counts[t]]
  /\ UNCHANGED <<db, bucket, rules, restored, now>>

(* The counter is read by a request of its own, whose failure is taken to  *)
(* mean that there is none.                                                *)
ReadSequence ==
  /\ job.pc = "sequence"
  /\ \E s \in {db.seq, None} :
       job' = [job EXCEPT !.pc = "verify", !.dump.seq = s]
  /\ UNCHANGED <<db, bucket, rules, restored, now>>

VerifyDump ==
  /\ job.pc = "verify"
  /\ job' = IF VerifyExport(job.live, job.dump)
            THEN [job EXCEPT !.pc = "restore"] ELSE Ended(job.stamp)
  /\ UNCHANGED <<db, bucket, rules, restored, now>>

(* The trial restore into an isolated local database.                      *)
TrialRestore ==
  /\ job.pc = "restore"
  /\ job' = IF VerifyRestored(job.dump, job.dump)
            THEN [job EXCEPT !.pc = "sql"] ELSE Ended(job.stamp)
  /\ UNCHANGED <<db, bucket, rules, restored, now>>

NextPart(part) ==
  CASE part = "sql" -> "sha256" [] part = "sha256" -> "manifest"
    [] OTHER -> "status"

(* putObject: refused when the object exists, and never repeated, so its   *)
(* failure may leave the object behind or not.                             *)
Upload(part) ==
  /\ job.pc = part
  /\ part \notin bucket[job.stamp].parts
  /\ bucket' = [bucket EXCEPT ![job.stamp] =
                  [parts |-> @.parts \cup {part}, at |-> job.at, dump |-> job.dump]]
  /\ job' \in {[job EXCEPT !.pc = NextPart(part)], Ended(job.stamp)}
  /\ UNCHANGED <<db, rules, restored, now>>

-----------------------------------------------------------------------------
(* What the bucket answers.                                                *)
Manifests == {s \in Stamps : "manifest" \in bucket[s].parts}
Newest == CHOOSE s \in Manifests : \A u \in Manifests : u <= s

(* assessFreshness                                                         *)
Fresh ==
  /\ Manifests # {}
  /\ now - bucket[Newest].at <= MaxAge

(* downloadBackup: the newest manifest in key order, and the artifact it   *)
(* names.                                                                  *)
Downloadable(s) == s \in Manifests /\ "sql" \in bucket[s].parts

ReportFreshness ==
  /\ job.pc = "status"
  /\ job' = Ended(job.stamp)
  /\ UNCHANGED <<db, bucket, rules, restored, now>>

Abort ==
  /\ job.pc # "idle"
  /\ job' = Ended(job.stamp)
  /\ UNCHANGED <<db, bucket, rules, restored, now>>

-----------------------------------------------------------------------------
(* A lifecycle rule, or a person, removes an object; a lock rule in force  *)
(* outranks both.                                                          *)
RemoveObject ==
  \E s \in Stamps : \E part \in bucket[s].parts :
    /\ rules.enabled => now - bucket[s].at >= rules.lock
    /\ bucket' = [bucket EXCEPT ![s].parts = @ \ {part}]
    /\ UNCHANGED <<db, job, rules, restored, now>>

-----------------------------------------------------------------------------
(* Restoring into a remote database.  A config declares bindings; a target *)
(* names one of them by binding, by database name or by id.                *)
Production == [binding |-> "DB", name |-> "cflab", id |-> "prod"]
Scratch == [binding |-> "DRILL", name |-> "drill", id |-> "temp"]
Disguised == [binding |-> "DRILL", name |-> "drill", id |-> "prod"]
Configs == (SUBSET {Production, Scratch, Disguised}) \ {{}}
Targets == {"DB", "cflab", "prod", "DRILL", "drill", "temp"}

Named(config, target) == {b \in config : target \in {b.binding, b.name, b.id}}

AssertNotProduction(x) == x \notin {Production.name, Production.id}

AssertIsolated(config, target) ==
  /\ Cardinality(Named(config, target)) = 1
  /\ \A b \in Named(config, target) :
       AssertNotProduction(b.name) /\ AssertNotProduction(b.id)

RestoreDrill(s, config, target) ==
  /\ Downloadable(s)
  /\ AssertNotProduction(target)
  /\ AssertIsolated(config, target)
  /\ restored' = restored \cup {b.id : b \in Named(config, target)}
  /\ UNCHANGED <<db, job, bucket, rules, now>>

Next ==
  \/ InsertRows \/ DeleteRows \/ Migrate \/ Tick
  \/ StartRun \/ LiveState \/ ReadSchema \/ ReadRows \/ ReadSequence
  \/ VerifyDump \/ TrialRestore \/ ReportFreshness \/ Abort \/ RemoveObject
  \/ \E part \in Parts : Upload(part)
  \/ \E s \in Manifests, c \in Configs, t \in Targets : RestoreDrill(s, c, t)

Spec == Init /\ [][Next]_vars

-----------------------------------------------------------------------------
(* Rows that one transaction wrote are in a stored backup together or not  *)
(* at all.  The reads of dumpDatabase share one request for this; a dump   *)
(* torn by a deletion would pass every later check.                        *)
StoredIsSnapshot ==
  \A s \in Stamps : \A t, u \in Range(bucket[s].dump.order) \ Added :
    bucket[s].dump.rows[t] = bucket[s].dump.rows[u]

(* The counter restored with a backup, when there is one, is beyond every  *)
(* row of it: a restored database hands no row's id out again.             *)
SequenceCoversRows ==
  \A s \in Stamps : bucket[s].dump.seq # None =>
    \A t \in Tables : \A i \in bucket[s].dump.rows[t] : i <= bucket[s].dump.seq

(* With rules the setup check accepts and that are in force, a backup the  *)
(* report calls fresh can be downloaded and restores, whatever died or     *)
(* expired on the way.                                                     *)
FreshIsUsable ==
  rules.enabled /\ Fresh =>
    /\ Downloadable(Newest)
    /\ VerifyRestored(bucket[Newest].dump, bucket[Newest].dump)

(* The trial restore refuses nothing that verifyExport let through: "tables *)
(* must be inserted parent-before-child", and they are, with the rows of   *)
(* one state of the database, whatever it was migrated to meanwhile.       *)
VerifiedDumpLoads == job.pc = "restore" => VerifyRestored(job.dump, job.dump)

(* No drill writes to a production database, however its config names it.  *)
DrillsSpareProduction == Production.id \notin restored

(* A database restored from a stored backup has the table of every         *)
(* migration its ledger says is applied.                                   *)
LedgerMatchesSchema ==
  \A s \in Stamps : bucket[s].dump.ledger \subseteq Range(bucket[s].dump.order)
=============================================================================
