----------------------------- MODULE Backup_proofs -----------------------------
(***************************************************************************)
(* Proofs about D1Backup and FileMirror for every schema and number of     *)
(* tables, rows, runs of the job and bucket rules, and for every number of *)
(* objects, contents and parallel workers.                                 *)
(***************************************************************************)
EXTENDS D1Backup, FileMirror, FiniteSetTheorems, WellFoundedInduction, TLAPS

-----------------------------------------------------------------------------
(* The database: related rows come and go together, and the counter is     *)
(* beyond every row.                                                       *)
DbOK ==
  /\ db \in Database
  /\ Tables \ Added \subseteq db.tables
  /\ \A t, u \in Tables \ Added : db.rows[t] = db.rows[u]
  /\ \A t \in Tables : \A i \in db.rows[t] : i <= db.seq

JobOK ==
  /\ job \in [pc : Stages, at : 0..now, stamp : 0..MaxStamp,
              live : {job.live}, dump : {job.dump}]
  /\ job.dump \in [order : {job.dump.order}, cycles : {job.dump.cycles},
                   rows : [Tables -> SUBSET Ids], ledger : {job.dump.ledger},
                   seq : (0..MaxId) \cup {None}]
  /\ job.pc # "idle" => job.stamp \in Stamps
  /\ job.pc \notin {"idle", "live"} => job.live.tables \subseteq Tables

BucketOK ==
  bucket \in [Stamps -> [parts : SUBSET Parts, at : 0..now,
                         dump : {bucket[s].dump : s \in Stamps}]]

RulesOK == rules \in Rules /\ SetupOK(rules)

TypesOK == now \in Nat /\ DbOK /\ JobOK /\ BucketOK /\ RulesOK

Read == {"sequence", "verify", "restore", "sql", "sha256", "manifest", "status"}
Verified == {"restore", "sql", "sha256", "manifest", "status"}
Restored == {"sql", "sha256", "manifest", "status"}
Uploaded == {"sha256", "manifest", "status"}

Snapshot(dump) ==
  \A t, u \in (Range(dump.order) \cap Tables) \ Added : dump.rows[t] = dump.rows[u]
Counted(dump) ==
  dump.seq # None => \A t \in Tables : \A i \in dump.rows[t] : i <= dump.seq

(* What the dump in progress has been found to be.                         *)
DumpOK ==
  /\ job.pc \in Read => Snapshot(job.dump)
  /\ job.pc = "sequence" =>
       \A t \in Tables : \A i \in job.dump.rows[t] : i <= db.seq
  /\ job.pc \in Read \ {"sequence"} => Counted(job.dump)
  /\ job.pc \in Verified => Range(job.dump.order) \subseteq Tables
  /\ job.pc \in Restored => Replays(job.dump)

(* What every stored backup is.                                            *)
StoredOK ==
  \A s \in Stamps :
    /\ Range(bucket[s].dump.order) \subseteq Tables
    /\ Snapshot(bucket[s].dump)
    /\ Counted(bucket[s].dump)
    /\ Replays(bucket[s].dump)

(* While the lock covers it, a manifest has its artifact.                  *)
Covered(at) == rules.enabled /\ now - at < rules.lock

LockedOK ==
  /\ \A s \in Stamps :
       Covered(bucket[s].at) /\ "manifest" \in bucket[s].parts
         => "sql" \in bucket[s].parts
  /\ job.pc \in Uploaded =>
       /\ bucket[job.stamp].at = job.at
       /\ Covered(job.at) => "sql" \in bucket[job.stamp].parts

(* The inductive invariant of the backup.                                  *)
BackupInv ==
  /\ TypesOK
  /\ DumpOK
  /\ StoredOK
  /\ LockedOK
  /\ DrillsSpareProduction

-----------------------------------------------------------------------------
(* The mirror.                                                             *)
Rank(k) == Cardinality({j \in run.listed : j < k})

(* A worker has taken k and will put the content that is in production.    *)
Underway(k) ==
  \E w \in Copiers :
    /\ copier[w].key = k
    /\ copier[w].pc = "get" \/ (copier[w].pc = "put" /\ copier[w].body = source[k])

Exhausted == Untaken = {} \/ run.started >= Limit

(* An address the run knows to be mirrored still is, unless it holds what  *)
(* is not in production, or what did not sit still.                        *)
StillHeld(a) ==
  a \in mirrored \/ a[1] \in moved \/ a[1] \notin run.listed \/ source[a[1]] # a[2]

(* What a run that has not failed knows of the objects that sat still.     *)
MirrorSoFar ==
  /\ run.pc = "copy" => \A a \in run.existing : StillHeld(a)
  /\ run.pc \in {"plan", "copy"} =>
       \A k \in run.listed \ moved : source[k] # Nothing
  /\ run.pc # "copy" => \A w \in Copiers : copier[w].pc = "done"
  /\ run.pc # "copy" => run.started = 0
  /\ run.pc = "copy" /\ ~run.failed =>
       /\ \A k \in run.listed \ moved :
            Rank(k) < run.started => <<k, source[k]>> \in mirrored \/ Underway(k)
       /\ (\E w \in Copiers : copier[w].pc = "done") => Exhausted

(* A worker with work has a listed key, and what it puts are bytes.        *)
WorkersOK ==
  \A w \in Copiers :
    /\ copier[w].pc \in {"get", "put"} => copier[w].key \in run.listed
    /\ copier[w].pc = "put" => copier[w].body \in FileContents

(* A version that was covered is held until the rules remove it.           *)
HeldOrLapsed ==
  /\ covered \subseteq mirrored \cup lapsed
  /\ lapsed \cap mirrored = {}

(* The inductive invariant of the mirror.                                  *)
MirrorInv ==
  /\ MirrorTypeOK
  /\ WorkersOK
  /\ MirrorSoFar
  /\ HeldOrLapsed

-----------------------------------------------------------------------------
(* Choosing the smallest and the largest number of a set.                  *)
LEMMA Smallest ==
  ASSUME NEW S \in SUBSET Nat, S # {}
  PROVE  \E n \in S : \A m \in S : n <= m
<1> DEFINE Below == {0..n : n \in S}
<1>1. Below \subseteq FiniteSubsetsOf(Nat) /\ Below # {}
  <2>1. ASSUME NEW n \in S PROVE 0..n \in FiniteSubsetsOf(Nat)
    <3>1. IsFiniteSet(0..n)
      BY FS_Interval
    <3>2. 0..n \in SUBSET Nat
      OBVIOUS
    <3>3. QED
      BY <3>1, <3>2 DEF FiniteSubsetsOf
  <2>2. QED
    BY <2>1
<1>2. PICK B \in Below : \A C \in Below : <<C, B>> \notin StrictSubsetOrdering(Nat)
  <2> HIDE DEF Below
  <2>1. QED
    BY <1>1, FS_StrictSubsetOrderingWellFounded, WFMin, Zenon
<1>3. PICK n \in S : B = 0..n
  BY DEF Below
<1>4. ASSUME NEW m \in S, m < n
      PROVE  FALSE
  <2>1. 0..m \subseteq 0..n /\ 0..m # 0..n /\ 0..n \subseteq Nat /\ 0..m \subseteq Nat
    BY <1>4
  <2>2. <<0..m, 0..n>> \in StrictSubsetOrdering(Nat)
    BY <2>1 DEF StrictSubsetOrdering
  <2>3. QED
    BY <1>2, <1>3, <2>2
<1>5. QED
  BY <1>4

LEMMA Largest ==
  ASSUME NEW S \in SUBSET Nat, S # {}, NEW b \in Nat, \A m \in S : m <= b
  PROVE  \E n \in S : \A m \in S : m <= n
<1> DEFINE Bounds == {g \in Nat : \A m \in S : m <= g}
<1>1. PICK n \in Bounds : \A m \in Bounds : n <= m
  <2>1. b \in Bounds
    OBVIOUS
  <2> HIDE DEF Bounds
  <2>2. Bounds \in SUBSET Nat
    BY DEF Bounds
  <2>3. QED
    BY Smallest, <2>1, <2>2
<1>2. CASE n \in S
  BY <1>1, <1>2
<1>3. CASE n \notin S
  <2>1. \A m \in S : m <= n - 1
    BY <1>1, <1>3
  <2>2. PICK m \in S : TRUE
    OBVIOUS
  <2>3. n - 1 \in Bounds
    BY <2>1, <2>2
  <2>4. QED
    BY <2>3, <1>1
<1>4. QED
  BY <1>2, <1>3

-----------------------------------------------------------------------------
(* The steps of the backup.                                                *)
LEMMA EndedOK ==
  ASSUME NEW stamp \in 0..MaxStamp, job' = Ended(stamp), now' \in Nat
  PROVE  /\ JobOK' /\ job'.pc = "idle" /\ job'.stamp = stamp
<1> DEFINE dump == NoDump
<1>1. dump \in [order : {dump.order}, cycles : {dump.cycles},
               rows : [Tables -> SUBSET Ids], ledger : {dump.ledger},
               seq : (0..MaxId) \cup {None}]
  BY DEF NoDump, EmptyRows
<1>2. job' = [pc |-> "idle", at |-> 0, stamp |-> stamp, live |-> NoLive, dump |-> dump]
  BY DEF Ended
<1> HIDE DEF dump
<1>3. /\ job'.pc = "idle" /\ job'.at = 0 /\ job'.stamp = stamp
      /\ job'.live = NoLive /\ job'.dump = dump
  BY <1>2
<1>4. job' \in [pc : Stages, at : 0..now', stamp : 0..MaxStamp,
               live : {job'.live}, dump : {job'.dump}]
  BY <1>2, <1>3 DEF Stages
<1>5. QED
  BY <1>1, <1>3, <1>4 DEF JobOK

(* A step of the job that moves it on, and changes at most its dump.       *)
LEMMA MovedJobOK ==
  ASSUME JobOK, job.pc # "idle", UNCHANGED now, NEW pc \in Stages \ {"idle", "live"},
         pc # "schema", job.pc # "live",
         job' = [job EXCEPT !.pc = pc, !.dump = job'.dump],
         job'.dump \in [order : {job'.dump.order}, cycles : {job'.dump.cycles},
                       rows : [Tables -> SUBSET Ids], ledger : {job'.dump.ledger},
                       seq : (0..MaxId) \cup {None}]
  PROVE  JobOK' /\ job'.pc = pc /\ job'.stamp = job.stamp /\ job'.at = job.at
         /\ job'.live = job.live
<1> DEFINE dump == job'.dump
<1>1. job' = [job EXCEPT !.pc = pc, !.dump = dump]
  OBVIOUS
<1> HIDE DEF dump
<1>2. /\ job'.pc = pc /\ job'.stamp = job.stamp /\ job'.at = job.at
      /\ job'.live = job.live /\ job'.dump = dump
      /\ job' \in [pc : Stages, at : 0..now, stamp : 0..MaxStamp,
                  live : {job.live}, dump : {dump}]
  BY <1>1 DEF JobOK
<1>3. QED
  BY <1>2 DEF JobOK

(* Rows come and go in every table of the schema at once, and ids are      *)
(* handed out in order.                                                    *)
LEMMA DbStep ==
  ASSUME DbOK, InsertRows \/ DeleteRows \/ Migrate
  PROVE  /\ DbOK' /\ db.seq <= db'.seq
         /\ UNCHANGED <<job, bucket, rules, restored, now>>
<1> USE DEF DbOK
<1>0. MaxId \in Nat
  BY LimitsAreNumbers
<1>1. CASE InsertRows
  <2> DEFINE rows == [t \in Tables |->
                 IF t \in db.tables THEN db.rows[t] \cup {db.seq + 1} ELSE db.rows[t]]
             seq == db.seq + 1
  <2>1. db' = [db EXCEPT !.seq = seq, !.rows = rows]
    BY <1>1 DEF InsertRows, Database
  <2>2. seq \in 1..MaxId /\ db.seq < seq
    BY <1>0, <1>1 DEF InsertRows, Database
  <2>3. rows \in [Tables -> SUBSET Ids]
    BY <2>2 DEF Database, Ids
  <2>4. \A t, u \in Tables \ Added : rows[t] = rows[u]
    OBVIOUS
  <2>5. \A t \in Tables : \A i \in rows[t] : i <= seq
    BY <2>2, <1>0 DEF Database, Ids
  <2> HIDE DEF rows, seq
  <2>6. /\ db'.tables = db.tables /\ db'.rows = rows /\ db'.seq = seq
        /\ db' \in Database
    <3>1. seq \in 0..MaxId
      BY <2>2, <1>0
    <3>2. /\ db.tables \in SUBSET Tables /\ db.ledger \in SUBSET Added
          /\ db' = [tables |-> db.tables, rows |-> rows, ledger |-> db.ledger, seq |-> seq]
      BY <2>1 DEF Database
    <3>3. QED
      BY <2>3, <3>1, <3>2 DEF Database
  <2>7. db.seq <= db'.seq
    BY <2>2, <2>6, <1>0 DEF Database
  <2>8. QED
    BY <1>1, <2>4, <2>5, <2>6, <2>7 DEF InsertRows
<1>2. CASE DeleteRows
  <2>1. PICK i : db' = [db EXCEPT !.rows = [t \in Tables |-> db.rows[t] \ {i}]]
    BY <1>2 DEF DeleteRows, Database
  <2> DEFINE rows == [t \in Tables |-> db.rows[t] \ {i}]
  <2>2. /\ rows \in [Tables -> SUBSET Ids]
        /\ \A t, u \in Tables \ Added : rows[t] = rows[u]
        /\ \A t \in Tables : \A j \in rows[t] : j <= db.seq
    BY DEF Database
  <2>3. db' = [db EXCEPT !.rows = rows]
    BY <2>1
  <2> HIDE DEF rows
  <2>4. /\ db'.tables = db.tables /\ db'.rows = rows /\ db'.seq = db.seq
        /\ db' \in Database
    BY <2>2, <2>3 DEF Database
  <2>5. QED
    BY <1>0, <1>2, <2>2, <2>4 DEF DeleteRows, Database
<1>3. CASE Migrate
  <2>1. PICK t \in Added : db' = [db EXCEPT !.tables = db.tables \cup {t},
                                          !.ledger = db.ledger \cup {t}]
    BY <1>3 DEF Migrate, Database
  <2>2. /\ db'.tables = db.tables \cup {t} /\ db'.rows = db.rows /\ db'.seq = db.seq
        /\ db' \in Database
    <3> DEFINE tables == db.tables \cup {t}
               ledger == db.ledger \cup {t}
    <3>1. tables \in SUBSET Tables /\ ledger \in SUBSET Added
      BY TablesAreNumbers DEF Database
    <3>2. db' = [db EXCEPT !.tables = tables, !.ledger = ledger]
      BY <2>1
    <3>3. db'.tables = tables
      <4> HIDE DEF tables, ledger
      <4>1. QED
        BY <3>2 DEF Database
    <3>4. db'.rows = db.rows /\ db'.seq = db.seq /\ db' \in Database
      <4> HIDE DEF tables, ledger
      <4>1. QED
        BY <3>1, <3>2 DEF Database
    <3>5. QED
      BY <3>3, <3>4
  <2>3. UNCHANGED <<job, bucket, rules, restored, now>>
    BY <1>3 DEF Migrate
  <2>4. db.seq <= db'.seq
    BY <1>0, <2>2 DEF Database
  <2>5. DbOK'
    BY <2>2
  <2>6. QED
    BY <2>3, <2>4, <2>5
<1>4. QED
  BY <1>1, <1>2, <1>3

(* The reads of the dump and the checks on it.                             *)
Others == UNCHANGED <<db, bucket, rules, restored, now>>

LEMMA EndedDump ==
  ASSUME job'.pc \in {"idle", "live", "schema", "rows"}
  PROVE  DumpOK'
BY DEF DumpOK, Read, Verified, Restored

LEMMA StartRunStep ==
  ASSUME TypesOK, StartRun
  PROVE  JobOK' /\ DumpOK' /\ job'.pc = "live" /\ Others
<1> USE DEF TypesOK
<1> DEFINE dump == NoDump
           stamp == job.stamp + 1
<1>1. dump \in [order : {dump.order}, cycles : {dump.cycles},
               rows : [Tables -> SUBSET Ids], ledger : {dump.ledger},
               seq : (0..MaxId) \cup {None}]
  BY DEF NoDump, EmptyRows
<1>2. stamp \in Stamps /\ stamp \in 0..MaxStamp
  BY LimitsAreNumbers DEF StartRun, JobOK, Stamps
<1>3. job' = [pc |-> "live", at |-> now, stamp |-> stamp, live |-> NoLive, dump |-> dump]
  BY DEF StartRun, Ended
<1> HIDE DEF dump, stamp
<1>4. /\ job'.pc = "live" /\ job'.at = now /\ job'.stamp = stamp
      /\ job'.live = NoLive /\ job'.dump = dump
  BY <1>3
<1>5. now' = now /\ Others
  BY DEF StartRun, Others
<1>6. job' \in [pc : Stages, at : 0..now', stamp : 0..MaxStamp,
               live : {job'.live}, dump : {job'.dump}]
  BY <1>2, <1>3, <1>4, <1>5 DEF Stages
<1>7. QED
  BY <1>1, <1>2, <1>4, <1>5, <1>6, EndedDump DEF JobOK

LEMMA LiveStateStep ==
  ASSUME TypesOK, LiveState
  PROVE  JobOK' /\ DumpOK' /\ job'.pc = "schema" /\ Others
<1> USE DEF TypesOK
<1> DEFINE live == [tables |-> db.tables,
                    counts |-> [t \in Tables |-> Cardinality(db.rows[t])]]
<1>1. job' = [job EXCEPT !.pc = "schema", !.live = live] /\ job.pc = "live"
  BY DEF LiveState
<1>2. live.tables \subseteq Tables
  BY DEF DbOK, Database
<1> HIDE DEF live
<1>3. /\ job'.pc = "schema" /\ job'.at = job.at /\ job'.stamp = job.stamp
      /\ job'.live = live /\ job'.dump = job.dump
      /\ job' \in [pc : Stages, at : 0..now, stamp : 0..MaxStamp,
                  live : {live}, dump : {job.dump}]
  BY <1>1 DEF JobOK, Stages
<1>4. Others
  BY DEF LiveState, Others
<1>5. QED
  BY <1>1, <1>2, <1>3, <1>4, EndedDump DEF JobOK, Others

LEMMA ReadSchemaStep ==
  ASSUME TypesOK, ReadSchema
  PROVE  JobOK' /\ DumpOK' /\ job'.pc = "rows" /\ Others
<1> USE DEF TypesOK
<1> DEFINE order == OrderTables(db.tables).ordered
           cycles == OrderTables(db.tables).cycles
           dump == [job.dump EXCEPT !.order = order, !.cycles = cycles]
<1>1. job' = [job EXCEPT !.pc = "rows", !.dump = dump] /\ job.pc = "schema"
  BY DEF ReadSchema, JobOK
<1> HIDE DEF order, cycles
<1>2. dump \in [order : {dump.order}, cycles : {dump.cycles},
               rows : [Tables -> SUBSET Ids], ledger : {dump.ledger},
               seq : (0..MaxId) \cup {None}]
  BY DEF JobOK
<1> HIDE DEF dump
<1>3. job'.dump = dump
  BY <1>1 DEF JobOK
<1>4. Others
  BY DEF ReadSchema, Others
<1>5. JobOK' /\ job'.pc = "rows"
  BY <1>1, <1>2, <1>3, <1>4, MovedJobOK DEF Stages, Others
<1>6. QED
  BY <1>4, <1>5, EndedDump

LEMMA ReadRowsStep ==
  ASSUME TypesOK, ReadRows
  PROVE  JobOK' /\ DumpOK' /\ job'.pc = "sequence" /\ Others
<1> USE DEF TypesOK
<1> DEFINE rows == [t \in Tables |->
                      IF t \in Range(job.dump.order) THEN db.rows[t] ELSE {}]
           ledger == db.ledger
           dump == [job.dump EXCEPT !.rows = rows, !.ledger = ledger]
<1>1. job' = [job EXCEPT !.pc = "sequence", !.dump = dump] /\ job.pc = "rows"
  BY DEF ReadRows, JobOK
<1>2. /\ rows \in [Tables -> SUBSET Ids]
      /\ \A t \in Tables : \A i \in rows[t] : i <= db.seq
      /\ \A t, u \in (Range(job.dump.order) \cap Tables) \ Added : rows[t] = rows[u]
  BY DEF DbOK, Database
<1> HIDE DEF rows, ledger
<1>3. /\ dump \in [order : {dump.order}, cycles : {dump.cycles},
                  rows : [Tables -> SUBSET Ids], ledger : {dump.ledger},
                  seq : (0..MaxId) \cup {None}]
      /\ dump.order = job.dump.order /\ dump.rows = rows
  BY <1>2 DEF JobOK
<1> HIDE DEF dump
<1>4. job'.dump = dump
  BY <1>1 DEF JobOK
<1>5. Others
  BY DEF ReadRows, Others
<1>6. JobOK' /\ job'.pc = "sequence"
  BY <1>1, <1>3, <1>4, <1>5, MovedJobOK DEF Stages, Others
<1>7. Snapshot(job'.dump)
  BY <1>2, <1>3, <1>4 DEF Snapshot
<1>8. \A t \in Tables : \A i \in job'.dump.rows[t] : i <= db'.seq
  BY <1>2, <1>3, <1>4, <1>5 DEF Others
<1>9. DumpOK'
  BY <1>6, <1>7, <1>8 DEF DumpOK, Read, Verified, Restored
<1>10. QED
  BY <1>5, <1>6, <1>9

LEMMA ReadSequenceStep ==
  ASSUME TypesOK, DumpOK, ReadSequence
  PROVE  JobOK' /\ DumpOK' /\ job'.pc = "verify" /\ Others
<1> USE DEF TypesOK
<1>1. PICK s \in {db.seq, None} : job' = [job EXCEPT !.pc = "verify", !.dump.seq = s]
  BY DEF ReadSequence
<1> DEFINE dump == [job.dump EXCEPT !.seq = s]
<1>2. job' = [job EXCEPT !.pc = "verify", !.dump = dump] /\ job.pc = "sequence"
  BY <1>1 DEF ReadSequence, JobOK
<1>3. s \in (0..MaxId) \cup {None}
  BY DEF DbOK, Database
<1>4. /\ dump \in [order : {dump.order}, cycles : {dump.cycles},
                  rows : [Tables -> SUBSET Ids], ledger : {dump.ledger},
                  seq : (0..MaxId) \cup {None}]
      /\ dump.order = job.dump.order /\ dump.rows = job.dump.rows /\ dump.seq = s
  BY <1>3 DEF JobOK
<1> HIDE DEF dump
<1>5. job'.dump = dump
  BY <1>2 DEF JobOK
<1>6. Others
  BY DEF ReadSequence, Others
<1>7. JobOK' /\ job'.pc = "verify"
  BY <1>2, <1>4, <1>5, <1>6, MovedJobOK DEF Stages, Others
<1>8. Snapshot(job.dump) /\ \A t \in Tables : \A i \in job.dump.rows[t] : i <= db.seq
  BY <1>2 DEF DumpOK, Read
<1>9. Snapshot(job'.dump) /\ Counted(job'.dump)
  BY <1>4, <1>5, <1>8 DEF Snapshot, Counted
<1>10. DumpOK'
  BY <1>7, <1>9 DEF DumpOK, Read, Verified, Restored
<1>11. QED
  BY <1>6, <1>7, <1>10

(* The checks keep the dump as it is, or end the run.                      *)
LEMMA KeptJobOK ==
  ASSUME JobOK, job.pc \notin {"idle", "live"}, UNCHANGED now,
         NEW pc \in Stages \ {"idle", "live", "schema"},
         job' = [job EXCEPT !.pc = pc]
  PROVE  /\ JobOK' /\ job'.pc = pc /\ job'.stamp = job.stamp /\ job'.at = job.at
         /\ job'.dump = job.dump
<1>1. job' = [job EXCEPT !.pc = pc, !.dump = job.dump]
  BY DEF JobOK
<1>2. job'.dump = job.dump
  BY <1>1 DEF JobOK
<1>3. QED
  BY <1>1, <1>2, MovedJobOK DEF JobOK

LEMMA VerifyDumpStep ==
  ASSUME TypesOK, DumpOK, VerifyDump
  PROVE  JobOK' /\ DumpOK' /\ job'.pc \in {"restore", "idle"} /\ Others
<1> USE DEF TypesOK
<1>1. job.pc = "verify" /\ Others
  BY DEF VerifyDump, Others
<1>2. CASE VerifyExport(job.live, job.dump)
  <2>1. job' = [job EXCEPT !.pc = "restore"]
    BY <1>2 DEF VerifyDump
  <2>2. JobOK' /\ job'.pc = "restore" /\ job'.dump = job.dump
    BY <1>1, <2>1, KeptJobOK DEF Stages, Others
  <2>3. Range(job.dump.order) \subseteq Tables
    BY <1>1, <1>2 DEF VerifyExport, JobOK
  <2>4. DumpOK'
    BY <1>1, <2>2, <2>3 DEF DumpOK, Read, Verified, Restored
  <2>5. QED
    BY <1>1, <2>2, <2>4
<1>3. CASE ~VerifyExport(job.live, job.dump)
  <2>1. job' = Ended(job.stamp) /\ now' \in Nat
    BY <1>1, <1>3 DEF VerifyDump, Others
  <2>2. QED
    BY <1>1, <2>1, EndedOK, EndedDump DEF JobOK
<1>4. QED
  BY <1>2, <1>3

LEMMA TrialRestoreStep ==
  ASSUME TypesOK, DumpOK, TrialRestore
  PROVE  JobOK' /\ DumpOK' /\ job'.pc \in {"sql", "idle"} /\ Others
<1> USE DEF TypesOK
<1>1. job.pc = "restore" /\ Others
  BY DEF TrialRestore, Others
<1>2. CASE VerifyRestored(job.dump, job.dump)
  <2>1. job' = [job EXCEPT !.pc = "sql"]
    BY <1>2 DEF TrialRestore
  <2>2. JobOK' /\ job'.pc = "sql" /\ job'.dump = job.dump
    BY <1>1, <2>1, KeptJobOK DEF Stages, Others
  <2>3. Replays(job.dump)
    BY <1>2 DEF VerifyRestored
  <2>4. DumpOK'
    BY <1>1, <2>2, <2>3 DEF DumpOK, Read, Verified, Restored
  <2>5. QED
    BY <1>1, <2>2, <2>4
<1>3. CASE ~VerifyRestored(job.dump, job.dump)
  <2>1. job' = Ended(job.stamp) /\ now' \in Nat
    BY <1>1, <1>3 DEF TrialRestore, Others
  <2>2. QED
    BY <1>1, <2>1, EndedOK, EndedDump DEF JobOK
<1>4. QED
  BY <1>2, <1>3

LEMMA EndStep ==
  ASSUME TypesOK, ReportFreshness \/ Abort
  PROVE  JobOK' /\ DumpOK' /\ job'.pc = "idle" /\ Others
<1> USE DEF TypesOK
<1>1. job' = Ended(job.stamp) /\ Others
  BY DEF ReportFreshness, Abort, Others
<1>2. now' \in Nat /\ job.stamp \in 0..MaxStamp
  BY <1>1 DEF Others, JobOK
<1>3. QED
  BY <1>1, <1>2, EndedOK, EndedDump

(* A step of the job before its uploads leaves the bucket as it is.        *)
LEMMA ReadStep ==
  ASSUME BackupInv,
         StartRun \/ LiveState \/ ReadSchema \/ ReadRows \/ ReadSequence
           \/ VerifyDump \/ TrialRestore \/ ReportFreshness \/ Abort
  PROVE  BackupInv'
<1> USE DEF BackupInv
<1>1. JobOK' /\ DumpOK' /\ job'.pc \in Stages \ Uploaded /\ Others
  BY StartRunStep, LiveStateStep, ReadSchemaStep, ReadRowsStep, ReadSequenceStep,
     VerifyDumpStep, TrialRestoreStep, EndStep DEF Stages, Uploaded
<1>2. DbOK' /\ BucketOK' /\ RulesOK' /\ now' \in Nat
  BY <1>1 DEF Others, TypesOK, DbOK, BucketOK, RulesOK
<1>3. StoredOK'
  BY <1>1 DEF Others, StoredOK
<1>4. LockedOK'
  BY <1>1 DEF Others, LockedOK, Covered
<1>5. DrillsSpareProduction'
  BY <1>1 DEF Others, DrillsSpareProduction
<1>6. QED
  BY <1>1, <1>2, <1>3, <1>4, <1>5 DEF TypesOK

(* An upload puts the dump, checked, under the stamp of the run; the       *)
(* artifact goes first, and the lock keeps it for the manifest.            *)
LEMMA UploadBucket ==
  ASSUME BackupInv, NEW part \in Parts, Upload(part)
  PROVE  /\ BucketOK' /\ job.stamp \in Stamps
         /\ bucket'[job.stamp].parts = bucket[job.stamp].parts \cup {part}
         /\ bucket'[job.stamp].at = job.at
         /\ bucket'[job.stamp].dump = job.dump
         /\ \A s \in Stamps \ {job.stamp} : bucket'[s] = bucket[s]
         /\ UNCHANGED <<db, rules, restored, now>>
<1> USE DEF BackupInv, TypesOK
<1> DEFINE parts == bucket[job.stamp].parts \cup {part}
           at == job.at
           dump == job.dump
           new == [parts |-> parts, at |-> at, dump |-> dump]
<1>1. /\ job.stamp \in Stamps /\ at \in 0..now /\ parts \in SUBSET Parts
      /\ UNCHANGED <<db, rules, restored, now>>
  BY DEF Upload, Parts, JobOK, BucketOK
<1>2. bucket' = [bucket EXCEPT ![job.stamp] = new]
  BY DEF Upload
<1>3. /\ new.parts = parts /\ new.at = at /\ new.dump = dump
      /\ new \in [parts : SUBSET Parts, at : 0..now, dump : {dump}]
  BY <1>1
<1> HIDE DEF new
<1>4. bucket'[job.stamp] = new /\ \A s \in Stamps \ {job.stamp} : bucket'[s] = bucket[s]
  BY <1>1, <1>2 DEF BucketOK
<1>5. BucketOK'
  <2>1. ASSUME NEW s \in Stamps
        PROVE  bucket'[s] \in [parts : SUBSET Parts, at : 0..now,
                               dump : {bucket'[s].dump}]
    BY <1>3, <1>4 DEF BucketOK
  <2>2. \A s \in Stamps :
          bucket'[s] \in [parts : SUBSET Parts, at : 0..now',
                          dump : {bucket'[u].dump : u \in Stamps}]
    BY <1>1, <2>1
  <2>3. bucket' = [s \in Stamps |-> bucket'[s]]
    BY <1>2 DEF BucketOK
  <2>4. QED
    BY <2>2, <2>3 DEF BucketOK
<1>6. QED
  BY <1>1, <1>3, <1>4, <1>5

LEMMA UploadStep ==
  ASSUME BackupInv, NEW part \in Parts, Upload(part)
  PROVE  BackupInv'
<1> USE DEF BackupInv, TypesOK
<1>1. /\ job.pc = part /\ job.pc \in {"sql", "sha256", "manifest"}
      /\ job.pc = "sql" <=> part = "sql"
  BY DEF Upload, Parts
<1>2. /\ JobOK'
      /\ \/ job'.pc = "idle"
         \/ /\ job'.pc = NextPart(part) /\ job'.pc \in Uploaded
            /\ job'.dump = job.dump /\ job'.stamp = job.stamp /\ job'.at = job.at
  <2>1. CASE job' = Ended(job.stamp)
    <3>1. now' \in Nat /\ job.stamp \in 0..MaxStamp
      BY UploadBucket DEF JobOK
    <3>2. QED
      BY <2>1, <3>1, EndedOK
  <2>2. CASE job' = [job EXCEPT !.pc = NextPart(part)]
    <3>1. NextPart(part) \in Uploaded
      BY <1>1 DEF NextPart, Uploaded
    <3> DEFINE pc == NextPart(part)
    <3> HIDE DEF pc
    <3>2. pc \in Uploaded /\ job' = [job EXCEPT !.pc = pc]
      BY <2>2, <3>1 DEF pc
    <3>3. /\ JobOK' /\ job'.pc = pc /\ job'.stamp = job.stamp /\ job'.at = job.at
          /\ job'.dump = job.dump
      <4>1. UNCHANGED now
        BY UploadBucket
      <4>2. QED
        BY <1>1, <3>2, <4>1, KeptJobOK DEF Stages, Uploaded
    <3>4. QED
      BY <3>2, <3>3 DEF pc
  <2>3. QED
    BY <2>1, <2>2 DEF Upload
<1>3. DbOK' /\ RulesOK' /\ now' \in Nat /\ BucketOK' /\ DrillsSpareProduction'
  BY UploadBucket DEF DbOK, RulesOK, DrillsSpareProduction
<1>4. DumpOK'
  <2>1. /\ Snapshot(job.dump) /\ Counted(job.dump) /\ Replays(job.dump)
        /\ Range(job.dump.order) \subseteq Tables
    BY <1>1 DEF DumpOK, Read, Verified, Restored
  <2>2. CASE job'.pc = "idle"
    BY <2>2, EndedDump
  <2>3. CASE job'.pc \in Uploaded /\ job'.dump = job.dump
    BY <2>1, <2>3 DEF DumpOK, Read, Verified, Restored, Uploaded
  <2>4. QED
    BY <1>2, <2>2, <2>3
<1>5. StoredOK'
  <2>1. /\ Snapshot(job.dump) /\ Counted(job.dump) /\ Replays(job.dump)
        /\ Range(job.dump.order) \subseteq Tables
    BY <1>1 DEF DumpOK, Read, Verified, Restored
  <2>2. QED
    BY <2>1, UploadBucket DEF StoredOK
<1>6. LockedOK'
  <2>1. /\ bucket'[job.stamp].at = job.at
        /\ Covered(job.at) => "sql" \in bucket'[job.stamp].parts
    <3>1. CASE part = "sql"
      BY <3>1, UploadBucket
    <3>2. CASE part # "sql"
      <4>1. job.pc \in Uploaded
        BY <1>1, <3>2 DEF Uploaded
      <4>2. QED
        BY <4>1, UploadBucket DEF LockedOK
    <3>3. QED
      BY <3>1, <3>2
  <2>2. \A s \in Stamps : Covered(bucket'[s].at) /\ "manifest" \in bucket'[s].parts
                            => "sql" \in bucket'[s].parts
    <3>1. TAKE s \in Stamps
    <3>2. CASE s = job.stamp
      BY <2>1, <3>2
    <3>3. CASE s # job.stamp
      BY <3>3, UploadBucket DEF LockedOK
    <3>4. QED
      BY <3>2, <3>3
  <2>3. \A at : Covered(at)' <=> Covered(at)
    BY UploadBucket DEF Covered
  <2>4. job'.pc \in Uploaded => job'.stamp = job.stamp /\ job'.at = job.at
    BY <1>2 DEF Uploaded
  <2>5. QED
    BY <2>1, <2>2, <2>4, UploadBucket DEF LockedOK, Covered
<1>7. QED
  BY <1>2, <1>3, <1>4, <1>5, <1>6

(* The application and the releases change only the database.              *)
LEMMA ChangedDbStep ==
  ASSUME BackupInv, InsertRows \/ DeleteRows \/ Migrate
  PROVE  BackupInv'
<1> USE DEF BackupInv, TypesOK
<1>1. DbOK' /\ db.seq <= db'.seq /\ UNCHANGED <<job, bucket, rules, restored, now>>
  BY DbStep
<1>2. JobOK' /\ BucketOK' /\ RulesOK' /\ now' \in Nat
  BY <1>1 DEF JobOK, BucketOK, RulesOK
<1>3. DumpOK'
  <2>1. ASSUME job.pc = "sequence"
        PROVE  \A t \in Tables : \A i \in job.dump.rows[t] : i <= db'.seq
    <3>1. db.seq \in Nat /\ db'.seq \in Nat
      BY <1>1, LimitsAreNumbers DEF DbOK, Database
    <3>2. \A t \in Tables : \A i \in job.dump.rows[t] : i \in Nat /\ i <= db.seq
      BY <2>1 DEF DumpOK, JobOK, Ids
    <3>3. QED
      BY <1>1, <3>1, <3>2
  <2>2. QED
    BY <1>1, <2>1 DEF DumpOK
<1>4. StoredOK' /\ LockedOK' /\ DrillsSpareProduction'
  BY <1>1 DEF StoredOK, LockedOK, Covered, DrillsSpareProduction
<1>5. QED
  BY <1>1, <1>2, <1>3, <1>4

(* Time only takes objects out of the lock.                                *)
LEMMA TickStep ==
  ASSUME BackupInv, Tick
  PROVE  BackupInv'
<1> USE DEF BackupInv, TypesOK
<1>1. now \in Nat /\ now' = now + 1 /\ UNCHANGED <<db, job, bucket, rules, restored>>
  BY DEF Tick
<1>2. 0..now \subseteq 0..now'
  BY <1>1
<1>3. DbOK' /\ RulesOK' /\ now' \in Nat /\ DumpOK' /\ StoredOK' /\ DrillsSpareProduction'
  BY <1>1 DEF DbOK, RulesOK, DumpOK, StoredOK, DrillsSpareProduction
<1>4. JobOK'
  BY <1>1, <1>2 DEF JobOK
<1>5. BucketOK'
  BY <1>1, <1>2 DEF BucketOK
<1>6. LockedOK'
  <2>1. rules.lock \in Nat
    BY RulesAreRules DEF RulesOK
  <2>2. ASSUME NEW at \in 0..now, Covered(at)' PROVE Covered(at)
    BY <1>1, <2>1, <2>2 DEF Covered
  <2>3. job.at \in 0..now /\ \A s \in Stamps : bucket[s].at \in 0..now
    BY DEF JobOK, BucketOK
  <2>4. Covered(job.at)' => Covered(job.at)
    BY <1>1, <2>2, <2>3 DEF Covered
  <2>5. \A s \in Stamps : Covered(bucket[s].at)' => Covered(bucket[s].at)
    BY <1>1, <2>2, <2>3 DEF Covered
  <2>6. QED
    BY <1>1, <2>4, <2>5 DEF LockedOK, Covered
<1>7. QED
  BY <1>3, <1>4, <1>5, <1>6

(* Only what no lock covers is removed.                                    *)
LEMMA RemoveStep ==
  ASSUME BackupInv, RemoveObject
  PROVE  BackupInv'
<1> USE DEF BackupInv, TypesOK
<1>1. PICK s \in Stamps, part \in Parts :
        /\ rules.enabled => now - bucket[s].at >= rules.lock
        /\ bucket' = [bucket EXCEPT ![s].parts = bucket[s].parts \ {part}]
        /\ UNCHANGED <<db, job, rules, restored, now>>
  BY DEF RemoveObject, BucketOK
<1> DEFINE parts == bucket[s].parts \ {part}
           new == [bucket[s] EXCEPT !.parts = parts]
<1>2. bucket' = [bucket EXCEPT ![s] = new] /\ parts \in SUBSET Parts
  BY <1>1 DEF BucketOK
<1> HIDE DEF parts
<1>3. /\ new.parts = parts /\ new.at = bucket[s].at /\ new.dump = bucket[s].dump
      /\ new \in [parts : SUBSET Parts, at : 0..now, dump : {bucket[s].dump}]
  BY <1>2 DEF BucketOK
<1> HIDE DEF new
<1>4. bucket'[s] = new /\ \A u \in Stamps \ {s} : bucket'[u] = bucket[u]
  BY <1>2 DEF BucketOK
<1>5. \A u \in Stamps : bucket'[u].at = bucket[u].at /\ bucket'[u].dump = bucket[u].dump
  BY <1>3, <1>4
<1>6. BucketOK'
  <2>1. \A u \in Stamps :
          bucket'[u] \in [parts : SUBSET Parts, at : 0..now, dump : {bucket[u].dump}]
    BY <1>3, <1>4 DEF BucketOK
  <2>2. \A u \in Stamps :
          bucket'[u] \in [parts : SUBSET Parts, at : 0..now',
                          dump : {bucket'[v].dump : v \in Stamps}]
    BY <1>1, <1>5, <2>1
  <2>3. bucket' = [u \in Stamps |-> bucket'[u]]
    BY <1>2 DEF BucketOK
  <2>4. QED
    BY <2>2, <2>3 DEF BucketOK
<1>7. DbOK' /\ JobOK' /\ RulesOK' /\ now' \in Nat /\ DumpOK' /\ DrillsSpareProduction'
  BY <1>1 DEF DbOK, JobOK, RulesOK, DumpOK, DrillsSpareProduction
<1>8. StoredOK'
  BY <1>5 DEF StoredOK
<1>9. LockedOK'
  <2>1. ~Covered(bucket[s].at)
    <3>1. bucket[s].at \in Nat /\ rules.lock \in Nat
      BY RulesAreRules DEF BucketOK, RulesOK
    <3>2. QED
      BY <1>1, <3>1 DEF Covered
  <2>2. \A u \in Stamps :
          Covered(bucket'[u].at) /\ "manifest" \in bucket'[u].parts
            => "sql" \in bucket'[u].parts
    BY <1>3, <1>4, <2>1 DEF LockedOK
  <2>3. job.pc \in Uploaded =>
          /\ bucket'[job.stamp].at = job.at
          /\ Covered(job.at) => "sql" \in bucket'[job.stamp].parts
    <3>1. SUFFICES ASSUME job.pc \in Uploaded
                   PROVE  /\ bucket'[job.stamp].at = job.at
                          /\ Covered(job.at) => "sql" \in bucket'[job.stamp].parts
      OBVIOUS
    <3>2. /\ job.stamp \in Stamps /\ bucket[job.stamp].at = job.at
          /\ Covered(job.at) => "sql" \in bucket[job.stamp].parts
      BY <3>1 DEF LockedOK, JobOK, Uploaded
    <3>3. QED
      BY <1>4, <1>5, <2>1, <3>2
  <2>4. QED
    BY <1>1, <2>2, <2>3 DEF LockedOK, Covered
<1>10. QED
  BY <1>6, <1>7, <1>8, <1>9

(* A drill writes only to databases whose id is not production's.          *)
LEMMA DrillStep ==
  ASSUME BackupInv, NEW s, NEW c, NEW t, RestoreDrill(s, c, t)
  PROVE  BackupInv'
<1> USE DEF BackupInv, TypesOK
<1>1. /\ restored' = restored \cup {b.id : b \in Named(c, t)}
      /\ \A b \in Named(c, t) : AssertNotProduction(b.id)
      /\ UNCHANGED <<db, job, bucket, rules, now>>
  BY DEF RestoreDrill, AssertIsolated
<1>2. DrillsSpareProduction'
  BY <1>1 DEF DrillsSpareProduction, AssertNotProduction
<1>3. DbOK' /\ JobOK' /\ BucketOK' /\ RulesOK' /\ now' \in Nat
  BY <1>1 DEF DbOK, JobOK, BucketOK, RulesOK
<1>4. DumpOK' /\ StoredOK' /\ LockedOK'
  BY <1>1 DEF DumpOK, StoredOK, LockedOK, Covered
<1>5. QED
  BY <1>2, <1>3, <1>4

LEMMA BackupInit ==
  Init => BackupInv
<1> SUFFICES ASSUME Init PROVE BackupInv
  OBVIOUS
<1>1. now \in Nat /\ now = 0 /\ RulesOK /\ DrillsSpareProduction
  BY DEF Init, RulesOK, DrillsSpareProduction
<1>2. DbOK
  <2> DEFINE tables == Tables \ Added
             rows == EmptyRows
  <2>1. rows \in [Tables -> SUBSET Ids] /\ \A t \in Tables : rows[t] = {}
    BY DEF EmptyRows
  <2>2. tables \in SUBSET Tables /\ 0 \in 0..MaxId
    BY LimitsAreNumbers
  <2>3. db = [tables |-> tables, rows |-> rows, ledger |-> {}, seq |-> 0]
    BY DEF Init
  <2> HIDE DEF tables, rows
  <2>4. db.tables = tables /\ db.rows = rows /\ db \in Database
    BY <2>1, <2>2, <2>3 DEF Database
  <2>5. QED
    BY <2>1, <2>4 DEF DbOK, tables
<1>3. JobOK /\ job.pc = "idle"
  <2> DEFINE dump == NoDump
             live == NoLive
  <2>1. dump \in [order : {dump.order}, cycles : {dump.cycles},
                 rows : [Tables -> SUBSET Ids], ledger : {dump.ledger},
                 seq : (0..MaxId) \cup {None}]
    BY DEF NoDump, EmptyRows
  <2>2. job = [pc |-> "idle", at |-> 0, stamp |-> 0, live |-> live, dump |-> dump]
    BY DEF Init, Ended
  <2> HIDE DEF dump, live
  <2>3. 0 \in 0..MaxStamp /\ 0 \in 0..now
    BY <1>1, LimitsAreNumbers
  <2>4. /\ job.pc = "idle" /\ job.dump = dump /\ job.live = live
        /\ job \in [pc : Stages, at : 0..now, stamp : 0..MaxStamp,
                   live : {live}, dump : {dump}]
    BY <2>2, <2>3 DEF Stages
  <2>5. QED
    BY <2>1, <2>4 DEF JobOK
<1>4. \A s \in Stamps : bucket[s] = Absent
  BY DEF Init
<1>5. /\ \A s \in Stamps : bucket[s].dump = NoDump /\ bucket[s].parts = {}
      /\ BucketOK
  <2> DEFINE dump == NoDump
  <2>1. Absent = [parts |-> {}, at |-> 0, dump |-> dump]
    BY DEF Absent
  <2> HIDE DEF dump
  <2>2. /\ Absent.parts = {} /\ Absent.dump = dump
        /\ Absent \in [parts : SUBSET Parts, at : 0..now, dump : {dump}]
    BY <1>1, <2>1
  <2>3. bucket = [s \in Stamps |-> bucket[s]]
    BY DEF Init
  <2>4. \A s \in Stamps :
          bucket[s] \in [parts : SUBSET Parts, at : 0..now,
                         dump : {bucket[u].dump : u \in Stamps}]
    BY <1>4, <2>2
  <2>5. QED
    BY <1>4, <2>2, <2>3, <2>4 DEF BucketOK, dump
<1>6. DumpOK
  BY <1>3 DEF DumpOK, Read, Verified, Restored
<1>7. StoredOK
  <2>1. /\ NoDump.order = <<>> /\ NoDump.seq = None
        /\ Range(NoDump.order) = {} /\ DOMAIN NoDump.order = {}
    BY DEF NoDump, Range
  <2>2. Snapshot(NoDump) /\ Counted(NoDump) /\ Replays(NoDump)
    BY <2>1 DEF Snapshot, Counted, Replays
  <2>3. QED
    BY <1>5, <2>1, <2>2 DEF StoredOK
<1>8. LockedOK
  BY <1>3, <1>5 DEF LockedOK, Uploaded
<1>9. QED
  BY <1>1, <1>2, <1>3, <1>5, <1>6, <1>7, <1>8 DEF BackupInv, TypesOK

LEMMA BackupStep ==
  BackupInv /\ [Next]_vars => BackupInv'
<1> SUFFICES ASSUME BackupInv, [Next]_vars PROVE BackupInv'
  OBVIOUS
<1>1. CASE InsertRows \/ DeleteRows \/ Migrate
  BY <1>1, ChangedDbStep
<1>2. CASE Tick
  BY <1>2, TickStep
<1>3. CASE StartRun \/ LiveState \/ ReadSchema \/ ReadRows \/ ReadSequence
             \/ VerifyDump \/ TrialRestore \/ ReportFreshness \/ Abort
  BY <1>3, ReadStep
<1>4. CASE RemoveObject
  BY <1>4, RemoveStep
<1>5. CASE \E part \in Parts : Upload(part)
  BY <1>5, UploadStep
<1>6. CASE \E s \in Manifests, c \in Configs, t \in Targets : RestoreDrill(s, c, t)
  BY <1>6, DrillStep
<1>7. CASE UNCHANGED vars
  BY <1>7 DEF vars, BackupInv, TypesOK, DbOK, JobOK, BucketOK, RulesOK, DumpOK,
             StoredOK, LockedOK, Covered, DrillsSpareProduction
<1>8. QED
  BY <1>1, <1>2, <1>3, <1>4, <1>5, <1>6, <1>7 DEF Next

LEMMA BackupInvariant == Spec => []BackupInv
<1>1. QED
  BY BackupInit, BackupStep, PTL DEF Spec

-----------------------------------------------------------------------------
(* Every variable of the backup stays in its type.                         *)
THEOREM BackupTypes == Spec => []TypeOK
<1> DEFINE Clock == now \in 0..MaxNow
<1>1. Init => Clock
  BY LimitsAreNumbers DEF Init
<1>2. Clock /\ [Next]_vars => Clock'
  <2> SUFFICES ASSUME Clock, [Next]_vars PROVE Clock'
    OBVIOUS
  <2>1. CASE Tick
    BY <2>1, LimitsAreNumbers DEF Tick
  <2>2. CASE UNCHANGED now
    BY <2>2
  <2>3. Tick \/ UNCHANGED now
    BY DEF Next, vars, InsertRows, DeleteRows, Migrate, StartRun, LiveState, ReadSchema,
           ReadRows, ReadSequence, VerifyDump, TrialRestore, ReportFreshness, Abort,
           RemoveObject, Upload, RestoreDrill
  <2>4. QED
    BY <2>1, <2>2, <2>3
<1>3. BackupInv /\ Clock => TypeOK
  <2> SUFFICES ASSUME BackupInv, Clock PROVE TypeOK
    OBVIOUS
  <2>1. 0..now \subseteq 0..MaxNow
    BY LimitsAreNumbers
  <2>2. bucket \in [Stamps -> [parts : SUBSET Parts, at : 0..MaxNow,
                               dump : {bucket[s].dump : s \in Stamps}]]
    BY <2>1 DEF BackupInv, TypesOK, BucketOK
  <2>3. QED
    BY <2>2 DEF BackupInv, TypesOK, DbOK, JobOK, RulesOK, TypeOK
<1>4. QED
  BY <1>1, <1>2, <1>3, BackupInvariant, PTL DEF Spec

(* Rows written together are stored together or not at all: every table is *)
(* read by one request, so the dump is of one state of the database, and   *)
(* nothing after it changes what was read (d1-export.mjs).          *)
THEOREM BackupIsSnapshot == Spec => []StoredIsSnapshot
<1>1. BackupInv => StoredIsSnapshot
  BY DEF BackupInv, StoredOK, Snapshot, StoredIsSnapshot
<1>2. QED
  BY <1>1, BackupInvariant, PTL

(* The counter a restore puts back is beyond every restored row: it is     *)
(* read after the rows, and only grows.                                    *)
THEOREM BackupCoversRows == Spec => []SequenceCoversRows
<1>1. BackupInv => SequenceCoversRows
  BY DEF BackupInv, StoredOK, Counted, SequenceCoversRows
<1>2. QED
  BY <1>1, BackupInvariant, PTL

(* Under rules the setup check accepts, in force, a backup the report      *)
(* calls fresh is there to download and restores: its artifact went before *)
(* its manifest, the lock outlasts the freshness limit, and the trial      *)
(* restore came before any upload.                                         *)
THEOREM FreshBackupIsUsable == Spec => []FreshIsUsable
<1>1. ASSUME BackupInv, rules.enabled, Fresh
      PROVE  /\ Downloadable(Newest)
             /\ VerifyRestored(bucket[Newest].dump, bucket[Newest].dump)
  <2> USE <1>1 DEF BackupInv, TypesOK
  <2>1. Newest \in Manifests
    <3>1. Manifests \in SUBSET Nat /\ Manifests # {} /\ MaxStamp \in Nat
          /\ \A m \in Manifests : m <= MaxStamp
      BY LimitsAreNumbers DEF Manifests, Stamps, Fresh
    <3>2. \E s \in Manifests : \A u \in Manifests : u <= s
      BY <3>1, Largest
    <3>3. QED
      BY <3>2 DEF Newest
  <2> DEFINE newest == Newest
  <2> HIDE DEF newest
  <2>2. newest \in Stamps /\ "manifest" \in bucket[newest].parts /\ now - bucket[newest].at <= MaxAge
    BY <2>1 DEF newest, Manifests, Fresh
  <2>3. Covered(bucket[newest].at)
    <3>1. /\ rules.lock \in Nat /\ bucket[newest].at \in Nat /\ rules.lock >= MinLock
          /\ MaxAge \in Nat /\ MinLock \in Nat
      BY <2>2, RulesAreRules, LimitsAreNumbers DEF BucketOK, RulesOK, SetupOK
    <3>2. QED
      BY <2>2, <3>1, LockOutlastsFreshness DEF Covered
  <2>4. "sql" \in bucket[newest].parts
    BY <2>2, <2>3 DEF LockedOK
  <2>5. VerifyRestored(bucket[newest].dump, bucket[newest].dump)
    BY <2>2 DEF VerifyRestored, StoredOK
  <2>6. QED
    BY <2>1, <2>4, <2>5 DEF newest, Downloadable
<1>2. BackupInv => FreshIsUsable
  BY <1>1 DEF FreshIsUsable
<1>3. QED
  BY <1>2, BackupInvariant, PTL

(* No drill writes to a production database, however its config and its    *)
(* target name it: the id of every entry the target names is compared.     *)
THEOREM DrillsAreIsolated == Spec => []DrillsSpareProduction
<1>1. BackupInv => DrillsSpareProduction
  BY DEF BackupInv
<1>2. QED
  BY <1>1, BackupInvariant, PTL

-----------------------------------------------------------------------------
(* The order of the tables.  Induction along an interval is taken from its *)
(* smallest exception.                                                     *)
LEMMA Interval ==
  ASSUME NEW n \in Nat, NEW S, 0 \in S,
         \A k \in 1..n : k - 1 \in S => k \in S
  PROVE  \A k \in 0..n : k \in S
<1> DEFINE Exceptions == {k \in 0..n : k \notin S}
<1> SUFFICES ASSUME Exceptions # {} PROVE FALSE
  OBVIOUS
<1>1. PICK k \in Exceptions : \A m \in Exceptions : k <= m
  <2>1. Exceptions \in SUBSET Nat
    OBVIOUS
  <2> HIDE DEF Exceptions
  <2>2. QED
    BY <2>1, Smallest
<1>2. k \in 1..n /\ k \notin S /\ k - 1 \in 0..n /\ ~(k <= k - 1)
  OBVIOUS
<1>3. k - 1 \in S
  BY <1>1, <1>2
<1>4. QED
  BY <1>2, <1>3

(* Whatever a loop does to its state, its states exist.                    *)
Runs(A, a, n, G) ==
  \E f \in [0..n -> A] : f[0] = a /\ \A k \in 1..n : f[k] = G[f[k - 1]][k]

LEMMA LoopExists ==
  ASSUME NEW A, NEW a \in A, NEW n \in Nat, NEW G,
         \A p \in A : \A k \in 1..n : G[p][k] \in A
  PROVE  Runs(A, a, n, G)
<1> DEFINE Run(f, m) == /\ f \in [0..m -> A]
                        /\ f[0] = a
                        /\ \A k \in 1..m : f[k] = G[f[k - 1]][k]
           S == {m \in 0..n : \E f : Run(f, m)}
<1>1. 0 \in S
  <2> DEFINE f == [k \in 0..0 |-> a]
  <2>1. Run(f, 0)
    <3>1. f \in [0..0 -> A] /\ f[0] = a
      OBVIOUS
    <3> HIDE DEF f
    <3>2. QED
      BY <3>1
  <2> HIDE DEF f, Run
  <2>2. 0 \in 0..n
    OBVIOUS
  <2>3. QED
    BY <2>1, <2>2
<1>2. ASSUME NEW m \in 1..n, m - 1 \in S PROVE m \in S
  <2>1. PICK f : Run(f, m - 1)
    BY <1>2
  <2> DEFINE last == G[f[m - 1]][m]
             g == [k \in 0..m |-> IF k = m THEN last ELSE f[k]]
  <2>2. m - 1 \in 0..m - 1 /\ f[m - 1] \in A /\ last \in A
    BY <2>1
  <2>3. /\ g \in [0..m -> A] /\ g[m] = last
        /\ \A k \in 0..m - 1 : g[k] = f[k]
    <3>1. \A k \in 0..m : k # m => k \in 0..m - 1
      OBVIOUS
    <3> HIDE DEF last
    <3>2. QED
      BY <2>1, <2>2, <3>1
  <2> HIDE DEF g
  <2>4. ASSUME NEW k \in 1..m PROVE g[k] = G[g[k - 1]][k]
    <3>1. CASE k = m
      BY <2>2, <2>3, <3>1
    <3>2. CASE k # m
      <4>1. k \in 1..m - 1 /\ k \in 0..m - 1 /\ k - 1 \in 0..m - 1
        BY <3>2
      <4>2. QED
        BY <2>1, <2>3, <4>1
    <3>3. QED
      BY <3>1, <3>2
  <2>5. Run(g, m)
    <3>1. 0 \in 0..m - 1
      OBVIOUS
    <3>2. QED
      BY <2>1, <2>3, <2>4, <3>1
  <2> HIDE DEF Run
  <2>6. QED
    BY <2>5
<1>3. n \in S
  <2> HIDE DEF S
  <2>1. n \in 0..n
    OBVIOUS
  <2>2. QED
    BY <1>1, <1>2, <2>1, Interval
<1>4. QED
  BY <1>3 DEF Runs

LEMMA BoundOfFinite ==
  ASSUME NEW T \in SUBSET Nat, IsFiniteSet(T)
  PROVE  \E b \in Nat : \A x \in T : x <= b
<1> DEFINE Bounded == {U \in SUBSET T : \E b \in Nat : \A x \in U : x <= b}
           Rest == {T \ U : U \in Bounded}
<1>1. Bounded \subseteq FiniteSubsetsOf(T) /\ Rest \subseteq FiniteSubsetsOf(T) /\ {} \in Bounded
  <2>1. \A U \in SUBSET T : U \in FiniteSubsetsOf(T)
    BY FS_Subset DEF FiniteSubsetsOf
  <2>2. QED
    BY <2>1
<1>2. PICK R \in Rest : \A Q \in Rest : <<Q, R>> \notin StrictSubsetOrdering(T)
  <2>1. Rest # {}
    BY <1>1
  <2> HIDE DEF Rest
  <2>2. QED
    BY <1>1, <2>1, FS_StrictSubsetOrderingWellFounded, WFMin, Zenon
<1>3. PICK U \in Bounded : R = T \ U
  OBVIOUS
<1>4. PICK b \in Nat : \A x \in U : x <= b
  OBVIOUS
<1>5. ASSUME NEW x \in T \ U PROVE FALSE
  <2> DEFINE c == IF x <= b THEN b ELSE x
  <2>1. x \in Nat /\ U \cup {x} \in SUBSET T
    OBVIOUS
  <2>2. c \in Nat /\ b <= c /\ x <= c
    BY <2>1
  <2>3. \A y \in U \cup {x} : y <= c
    <3>1. \A y \in U : y \in Nat
      OBVIOUS
    <3> HIDE DEF c
    <3>2. QED
      BY <1>4, <2>2, <3>1
  <2>4. U \cup {x} \in Bounded
    BY <2>1, <2>2, <2>3
  <2>5. <<T \ (U \cup {x}), T \ U>> \in StrictSubsetOrdering(T)
    BY <2>1 DEF StrictSubsetOrdering
  <2>6. QED
    BY <1>2, <1>3, <2>4, <2>5
<1>6. QED
  BY <1>4, <1>5

(* A finite set of numbers has an ascending listing.                       *)
Ascends(s, T) ==
  /\ s \in [1..Cardinality(T) -> T]
  /\ \A i, j \in DOMAIN s : i < j => s[i] < s[j]

LEMMA SortedExists ==
  ASSUME NEW T \in SUBSET Nat, IsFiniteSet(T)
  PROVE  \E s : Ascends(s, T)
<1> DEFINE n == Cardinality(T)
           Listed(m) == \A U \in SUBSET T : Cardinality(U) = m => \E s : Ascends(s, U)
           S == {m \in 0..n : Listed(m)}
<1>1. n \in Nat /\ \A U \in SUBSET T : IsFiniteSet(U) /\ Cardinality(U) \in 0..n
  <2>1. ASSUME NEW U \in SUBSET T PROVE IsFiniteSet(U) /\ Cardinality(U) \in 0..n
    <3>1. IsFiniteSet(U) /\ Cardinality(U) <= n
      BY FS_Subset
    <3>2. n \in Nat /\ Cardinality(U) \in Nat
      BY <3>1, FS_CardinalityType
    <3> HIDE DEF n
    <3>3. QED
      BY <3>1, <3>2
  <2>2. QED
    BY <2>1, FS_CardinalityType
<1>2. 0 \in S
  <2>1. ASSUME NEW U \in SUBSET T, Cardinality(U) = 0 PROVE \E s : Ascends(s, U)
    <3> DEFINE e == [k \in 1..0 |-> k]
    <3>1. e \in [1..0 -> U] /\ DOMAIN e = {}
      OBVIOUS
    <3>2. Ascends(e, U)
      BY <2>1, <3>1 DEF Ascends
    <3>3. QED
      BY <3>2
  <2>2. QED
    BY <1>1, <2>1
<1>3. ASSUME NEW m \in 1..n, m - 1 \in S PROVE m \in S
  <2>1. ASSUME NEW U \in SUBSET T, Cardinality(U) = m PROVE \E s : Ascends(s, U)
    <3>1. IsFiniteSet(U) /\ U # {}
      BY <1>1, <2>1, FS_EmptySet
    <3>2. PICK b \in Nat : \A x \in T : x <= b
      BY <1>1, BoundOfFinite
    <3>3. PICK x \in U : \A y \in U : y <= x
      BY <3>1, <3>2, Largest
    <3>4. Cardinality(U \ {x}) = m - 1 /\ U \ {x} \in SUBSET T
      BY <2>1, <3>1, FS_RemoveElement
    <3>5. PICK s : Ascends(s, U \ {x})
      BY <1>3, <3>4
    <3> DEFINE t == [k \in 1..m |-> IF k = m THEN x ELSE s[k]]
    <3>6. s \in [1..m - 1 -> U \ {x}] /\ \A i, j \in 1..m - 1 : i < j => s[i] < s[j]
      BY <3>4, <3>5 DEF Ascends
    <3>7. \A k \in 1..m : k = m \/ k \in 1..m - 1
      OBVIOUS
    <3>8. t \in [1..m -> U] /\ t[m] = x /\ \A k \in 1..m - 1 : t[k] = s[k]
      BY <3>6, <3>7
    <3> HIDE DEF t
    <3>9. ASSUME NEW i \in 1..m, NEW j \in 1..m, i < j PROVE t[i] < t[j]
      <4>1. i \in 1..m - 1
        BY <3>9
      <4>2. CASE j = m
        <5>1. t[i] \in U /\ t[i] # x /\ t[i] <= x
          BY <3>3, <3>6, <3>8, <4>1
        <5>2. t[i] \in Nat /\ x \in Nat
          BY <5>1
        <5>3. QED
          BY <3>8, <4>2, <5>1, <5>2
      <4>3. CASE j # m
        BY <3>6, <3>7, <3>8, <3>9, <4>1, <4>3
      <4>4. QED
        BY <4>2, <4>3
    <3>10. Ascends(t, U)
      BY <2>1, <3>8, <3>9 DEF Ascends
    <3>11. QED
      BY <3>10
  <2>2. QED
    BY <2>1
<1>4. n \in S
  <2> HIDE DEF S
  <2>1. n \in 0..n
    BY <1>1
  <2>2. QED
    BY <1>1, <1>2, <1>3, <2>1, Interval
<1>5. QED
  BY <1>4

LEMMA SortedLists ==
  ASSUME NEW T \in SUBSET Nat, IsFiniteSet(T)
  PROVE  /\ Cardinality(T) \in Nat
         /\ Sorted(T) \in [1..Cardinality(T) -> T]
         /\ \A t \in T : \E k \in 1..Cardinality(T) : Sorted(T)[k] = t
<1> DEFINE n == Cardinality(T)
           s == Sorted(T)
<1>1. n \in Nat /\ IsFiniteSet(1..n) /\ Cardinality(1..n) = n
  <2>1. n \in Nat
    BY FS_CardinalityType
  <2> HIDE DEF n
  <2>2. QED
    BY <2>1, FS_Interval
<1>2. Ascends(s, T)
  <2>1. PICK u : Ascends(u, T)
    BY SortedExists
  <2>2. u \in [1..n -> T] /\ \A i, j \in DOMAIN u : i < j => u[i] < u[j]
    BY <2>1 DEF Ascends
  <2>3. /\ s \in [1..n -> T]
        /\ \A i, j \in DOMAIN s : i < j => s[i] < s[j]
    BY <2>2, Zenon DEF Sorted
  <2>4. QED
    BY <2>3 DEF Ascends
<1>3. s \in [1..n -> T] /\ \A i, j \in 1..n : i < j => s[i] < s[j]
  BY <1>2 DEF Ascends
<1> HIDE DEF s, n
<1>4. \A i, j \in 1..n : s[i] = s[j] => i = j
  <2> SUFFICES ASSUME NEW i \in 1..n, NEW j \in 1..n, s[i] = s[j], i # j PROVE FALSE
    OBVIOUS
  <2>1. s[i] \in T /\ s[j] \in T
    BY <1>3
  <2>2. s[i] \in Nat /\ s[j] \in Nat
    BY <2>1
  <2>3. i < j \/ j < i
    BY <1>1
  <2>4. QED
    BY <1>3, <2>2, <2>3
<1>5. s \in Injection(1..n, T)
  BY <1>3, <1>4 DEF Injection, IsInjective
<1>6. s \in Surjection(1..n, T)
  BY <1>1, <1>5, FS_Injection DEF n
<1>7. QED
  BY <1>1, <1>3, <1>6 DEF Surjection, s, n

(* What the order is for: a table comes after those it references.         *)
InOrder(q, tables) ==
  \A k \in 1..Len(q) : (Refs[q[k]] \cap tables) \ {q[k]} \subseteq {q[j] : j \in 1..k - 1}

Ready(t, q, tables) == (Refs[t] \cap tables) \ {t} \subseteq Range(q)

(* One look at a table.                                                    *)
LEMMA PlaceKeeps ==
  ASSUME NEW tables, NEW q \in Seq(tables), InOrder(q, tables), NEW t \in tables
  PROVE  /\ Place(q, t, tables) \in Seq(tables)
         /\ InOrder(Place(q, t, tables), tables)
         /\ Range(q) \subseteq Range(Place(q, t, tables))
         /\ Ready(t, q, tables) => t \in Range(Place(q, t, tables))
<1> DEFINE p == Append(q, t)
<1>1. /\ p \in Seq(tables) /\ Len(q) \in Nat /\ Len(p) = Len(q) + 1
      /\ p[Len(q) + 1] = t /\ \A j \in 1..Len(q) : p[j] = q[j]
      /\ DOMAIN p = 1..Len(p) /\ DOMAIN q = 1..Len(q)
  OBVIOUS
<1> HIDE DEF p
<1>2. CASE t \notin Range(q) /\ Ready(t, q, tables)
  <2>1. Place(q, t, tables) = p
    BY <1>2 DEF Place, Ready, p
  <2>2. Range(q) \subseteq Range(p) /\ t \in Range(p)
    BY <1>1 DEF Range
  <2>3. ASSUME NEW k \in 1..Len(p)
        PROVE  (Refs[p[k]] \cap tables) \ {p[k]} \subseteq {p[j] : j \in 1..k - 1}
    <3>1. CASE k = Len(q) + 1
      <4>1. (Refs[t] \cap tables) \ {t} \subseteq {q[j] : j \in 1..Len(q)}
        BY <1>1, <1>2 DEF Ready, Range
      <4>2. \A x \in {q[j] : j \in 1..Len(q)} : x \in {p[j] : j \in 1..k - 1}
        BY <1>1, <3>1
      <4>3. p[k] = t
        BY <1>1, <3>1
      <4>4. QED
        BY <4>1, <4>2, <4>3
    <3>2. CASE k # Len(q) + 1
      <4>1. k \in 1..Len(q) /\ p[k] = q[k]
        BY <1>1, <3>2
      <4>2. \A j \in 1..k - 1 : p[j] = q[j]
        BY <1>1, <4>1
      <4>3. {q[j] : j \in 1..k - 1} \subseteq {p[j] : j \in 1..k - 1}
        BY <4>2
      <4>4. QED
        BY <4>1, <4>3 DEF InOrder
    <3>3. QED
      BY <3>1, <3>2
  <2>4. InOrder(p, tables)
    BY <2>3 DEF InOrder
  <2>5. QED
    BY <1>1, <2>1, <2>2, <2>4
<1>3. CASE ~(t \notin Range(q) /\ Ready(t, q, tables))
  <2>1. Place(q, t, tables) = q
    BY <1>3 DEF Place, Ready
  <2>2. QED
    BY <1>3, <2>1
<1>4. QED
  BY <1>2, <1>3

(* One pass over the names: what was placed stays, and every table all of  *)
(* whose references were placed before is placed.                          *)
LEMMA PassKeeps ==
  ASSUME NEW tables \in SUBSET Tables, NEW q \in Seq(tables), InOrder(q, tables)
  PROVE  /\ Pass(q, tables) \in Seq(tables)
         /\ InOrder(Pass(q, tables), tables)
         /\ Range(q) \subseteq Range(Pass(q, tables))
         /\ \A t \in tables : Ready(t, q, tables) => t \in Range(Pass(q, tables))
<1> DEFINE n == Cardinality(tables)
           names == Sorted(tables)
<1>1. /\ n \in Nat /\ names \in [1..n -> tables]
      /\ \A t \in tables : \E k \in 1..n : names[k] = t
  <2>1. tables \in SUBSET Nat /\ IsFiniteSet(tables)
    BY TablesAreNumbers, SchemaIsFinite, FS_Subset
  <2>2. QED
    BY <2>1, SortedLists
<1> DEFINE A == {p \in Seq(tables) : InOrder(p, tables) /\ Range(q) \subseteq Range(p)}
           G == [p \in A |-> [k \in 1..n |-> Place(p, names[k], tables)]]
           Loop(f) == f = [k \in 0..n |->
                             IF k = 0 THEN q ELSE Place(f[k - 1], names[k], tables)]
<1> HIDE DEF n, names
<1>2. ASSUME NEW p \in A, NEW k \in 1..n
      PROVE  /\ Place(p, names[k], tables) \in A
             /\ Range(p) \subseteq Range(Place(p, names[k], tables))
             /\ Ready(names[k], p, tables) => names[k] \in Range(Place(p, names[k], tables))
  <2>1. names[k] \in tables
    BY <1>1
  <2>2. QED
    BY <2>1, PlaceKeeps
<1>3. q \in A
  OBVIOUS
<1>4. PICK g \in [0..n -> A] : g[0] = q /\ \A k \in 1..n : g[k] = G[g[k - 1]][k]
  <2>1. \A p \in A : \A k \in 1..n : G[p][k] \in A
    <3> HIDE DEF A
    <3>1. QED
      BY <1>2
  <2> HIDE DEF A, G
  <2>2. n \in Nat
    BY <1>1
  <2>3. Runs(A, q, n, G)
    BY <1>3, <2>1, <2>2, LoopExists
  <2>4. QED
    BY <2>3 DEF Runs
<1> HIDE DEF A
<1>5. ASSUME NEW k \in 1..n PROVE g[k - 1] \in A /\ g[k] = Place(g[k - 1], names[k], tables)
  <2>1. k - 1 \in 0..n
    BY <1>1
  <2>2. g[k - 1] \in A
    BY <1>4, <2>1
  <2>3. G[g[k - 1]][k] = Place(g[k - 1], names[k], tables)
    BY <2>2
  <2>4. QED
    BY <1>4, <2>2, <2>3
<1> HIDE DEF G
<1>6. Loop(g)
  <2> DEFINE h == [k \in 0..n |-> IF k = 0 THEN q ELSE Place(g[k - 1], names[k], tables)]
  <2>1. ASSUME NEW k \in 0..n PROVE g[k] = h[k]
    <3>1. CASE k = 0
      BY <1>4, <3>1
    <3>2. CASE k # 0
      <4>1. k \in 1..n
        BY <3>2
      <4>2. QED
        BY <1>5, <3>2, <4>1
    <3>3. QED
      BY <3>1, <3>2
  <2>2. g = [k \in 0..n |-> g[k]] /\ h = [k \in 0..n |-> h[k]]
    BY <1>4
  <2> HIDE DEF h
  <2>3. g = h
    BY <2>1, <2>2
  <2>4. QED
    BY <2>3 DEF h
<1> DEFINE up == CHOOSE f : Loop(f)
<1>7. Loop(up) /\ Pass(q, tables) = up[n]
  <2>1. Pass(q, tables) = up[n]
    BY DEF Pass, n, names
  <2> HIDE DEF Loop
  <2>2. Loop(up)
    BY <1>6
  <2>3. QED
    BY <2>1, <2>2
<1> HIDE DEF up
<1>8. /\ up[0] = q
      /\ \A k \in 1..n : up[k] = Place(up[k - 1], names[k], tables)
  <2>1. \A k \in 0..n : up[k] = IF k = 0 THEN q ELSE Place(up[k - 1], names[k], tables)
    BY <1>7
  <2>2. 0 \in 0..n /\ \A k \in 1..n : k \in 0..n /\ k # 0
    BY <1>1
  <2>3. QED
    BY <2>1, <2>2
<1>9. \A k \in 0..n : up[k] \in A
  <2> DEFINE S == {k \in 0..n : up[k] \in A}
  <2>1. 0 \in S
    BY <1>1, <1>3, <1>8
  <2>2. ASSUME NEW k \in 1..n, k - 1 \in S PROVE k \in S
    BY <1>2, <1>8, <2>2
  <2> HIDE DEF S
  <2>3. \A k \in 0..n : k \in S
    BY <1>1, <2>1, <2>2, Interval
  <2>4. QED
    BY <2>3 DEF S
<1>10. \A k \in 1..n : Range(up[k - 1]) \subseteq Range(up[k])
  <2> SUFFICES ASSUME NEW k \in 1..n PROVE Range(up[k - 1]) \subseteq Range(up[k])
    OBVIOUS
  <2>1. k - 1 \in 0..n
    BY <1>1
  <2>2. QED
    BY <1>2, <1>8, <1>9, <2>1
<1>11. ASSUME NEW j \in 0..n PROVE Range(up[j]) \subseteq Range(up[n])
  <2> DEFINE S == {k \in 0..n : j <= k => Range(up[j]) \subseteq Range(up[k])}
  <2>1. 0 \in S
    <3>1. j <= 0 => j = 0
      OBVIOUS
    <3>2. QED
      BY <1>1, <3>1
  <2>2. ASSUME NEW k \in 1..n, k - 1 \in S PROVE k \in S
    <3>1. j <= k => j = k \/ j <= k - 1
      OBVIOUS
    <3>2. QED
      BY <1>10, <2>2, <3>1
  <2> HIDE DEF S
  <2>3. n \in S
    <3>1. n \in 0..n
      BY <1>1
    <3>2. QED
      BY <1>1, <2>1, <2>2, <3>1, Interval
  <2>4. j <= n
    BY <1>1
  <2>5. QED
    BY <2>3, <2>4 DEF S
<1>12. ASSUME NEW t \in tables, Ready(t, q, tables) PROVE t \in Range(up[n])
  <2>1. PICK k \in 1..n : names[k] = t
    BY <1>1
  <2>2. k - 1 \in 0..n /\ k \in 0..n
    BY <1>1
  <2>3. up[k - 1] \in A
    BY <1>9, <2>2
  <2>4. Ready(t, up[k - 1], tables)
    BY <1>12, <2>3 DEF A, Ready
  <2>5. t \in Range(up[k])
    BY <1>2, <1>8, <2>1, <2>3, <2>4
  <2>6. QED
    BY <1>11, <2>2, <2>5
<1>13. up[n] \in A
  BY <1>1, <1>9
<1>14. QED
  BY <1>7, <1>12, <1>13 DEF A

(* The passes of orderTablesByDependencies, one after the other.           *)
Passes(f, tables) ==
  /\ f[0] = <<>>
  /\ \A k \in 1..Cardinality(tables) : f[k] = Pass(f[k - 1], tables)
  /\ \A k \in 0..Cardinality(tables) : f[k] \in Seq(tables) /\ InOrder(f[k], tables)

LEMMA OrderIs ==
  ASSUME NEW tables \in SUBSET Tables
  PROVE  \E f : /\ Passes(f, tables)
                /\ LET rest == tables \ Range(f[Cardinality(tables)])
                   IN OrderTables(tables) =
                        [ordered |-> f[Cardinality(tables)] \o Sorted(rest), cycles |-> rest]
<1> DEFINE n == Cardinality(tables)
           A == {p \in Seq(tables) : InOrder(p, tables)}
           G == [p \in A |-> [k \in 1..n |-> Pass(p, tables)]]
           Loop(f) == f = [k \in 0..n |-> IF k = 0 THEN <<>> ELSE Pass(f[k - 1], tables)]
<1>1. n \in Nat
  <2>1. tables \in SUBSET Nat /\ IsFiniteSet(tables)
    BY TablesAreNumbers, SchemaIsFinite, FS_Subset
  <2>2. QED
    BY <2>1, SortedLists
<1> HIDE DEF n
<1>2. <<>> \in A /\ \A p \in A : Pass(p, tables) \in A
  <2>1. <<>> \in Seq(tables) /\ Len(<<>>) = 0
    OBVIOUS
  <2>2. InOrder(<<>>, tables)
    BY <2>1 DEF InOrder
  <2>3. QED
    BY <2>1, <2>2, PassKeeps
<1> HIDE DEF A
<1>3. PICK g \in [0..n -> A] : g[0] = <<>> /\ \A k \in 1..n : g[k] = G[g[k - 1]][k]
  <2>1. \A p \in A : \A k \in 1..n : G[p][k] \in A
    BY <1>2
  <2> HIDE DEF G
  <2>2. Runs(A, <<>>, n, G)
    BY <1>1, <1>2, <2>1, LoopExists
  <2>3. QED
    BY <2>2 DEF Runs
<1>4. ASSUME NEW k \in 1..n PROVE g[k] = Pass(g[k - 1], tables)
  <2>1. k - 1 \in 0..n
    BY <1>1
  <2>2. QED
    BY <1>3, <2>1
<1> HIDE DEF G
<1>5. Loop(g)
  <2> DEFINE h == [k \in 0..n |-> IF k = 0 THEN <<>> ELSE Pass(g[k - 1], tables)]
  <2>1. ASSUME NEW k \in 0..n PROVE g[k] = h[k]
    <3>1. CASE k = 0
      BY <1>3, <3>1
    <3>2. CASE k # 0
      <4>1. k \in 1..n
        BY <3>2
      <4>2. QED
        BY <1>4, <3>2, <4>1
    <3>3. QED
      BY <3>1, <3>2
  <2>2. g = [k \in 0..n |-> g[k]] /\ h = [k \in 0..n |-> h[k]]
    BY <1>3
  <2> HIDE DEF h
  <2>3. g = h
    BY <2>1, <2>2
  <2>4. QED
    BY <2>3 DEF h
<1> DEFINE f == CHOOSE e : Loop(e)
           rest == tables \ Range(f[n])
<1>6. Loop(f) /\ OrderTables(tables) = [ordered |-> f[n] \o Sorted(rest), cycles |-> rest]
  <2>1. OrderTables(tables) = [ordered |-> f[n] \o Sorted(rest), cycles |-> rest]
    BY DEF OrderTables, n
  <2> HIDE DEF Loop
  <2>2. Loop(f)
    BY <1>5
  <2>3. QED
    BY <2>1, <2>2
<1> HIDE DEF f
<1>7. f[0] = <<>> /\ \A k \in 1..n : f[k] = Pass(f[k - 1], tables)
  <2>1. \A k \in 0..n : f[k] = IF k = 0 THEN <<>> ELSE Pass(f[k - 1], tables)
    BY <1>6
  <2>2. 0 \in 0..n /\ \A k \in 1..n : k \in 0..n /\ k # 0
    BY <1>1
  <2>3. QED
    BY <2>1, <2>2
<1>8. \A k \in 0..n : f[k] \in A
  <2> DEFINE S == {k \in 0..n : f[k] \in A}
  <2>1. 0 \in S
    BY <1>1, <1>2, <1>7
  <2>2. ASSUME NEW k \in 1..n, k - 1 \in S PROVE k \in S
    BY <1>2, <1>7, <2>2
  <2> HIDE DEF S
  <2>3. \A k \in 0..n : k \in S
    BY <1>1, <2>1, <2>2, Interval
  <2>4. QED
    BY <2>3 DEF S
<1>9. Passes(f, tables)
  BY <1>7, <1>8 DEF Passes, A, n
<1>10. QED
  BY <1>6, <1>9 DEF n

(* When nothing is left over, all tables are listed, each after those it   *)
(* references.                                                             *)
LEMMA OrderLists ==
  ASSUME NEW tables \in SUBSET Tables, OrderTables(tables).cycles = {}
  PROVE  /\ OrderTables(tables).ordered \in Seq(tables)
         /\ Range(OrderTables(tables).ordered) = tables
         /\ InOrder(OrderTables(tables).ordered, tables)
<1> DEFINE n == Cardinality(tables)
<1>1. PICK f : /\ Passes(f, tables)
               /\ LET rest == tables \ Range(f[n])
                  IN OrderTables(tables) =
                       [ordered |-> f[n] \o Sorted(rest), cycles |-> rest]
  BY OrderIs
<1>2. n \in Nat
  BY SchemaIsFinite, FS_Subset, FS_CardinalityType
<1>3. f[n] \in Seq(tables) /\ InOrder(f[n], tables)
  BY <1>1, <1>2 DEF Passes
<1> HIDE DEF n
<1>4. tables \ Range(f[n]) = {} /\ OrderTables(tables).ordered = f[n] \o Sorted({})
  <2> DEFINE rest == tables \ Range(f[n])
             listed == f[n] \o Sorted(rest)
  <2>1. OrderTables(tables) = [ordered |-> listed, cycles |-> rest]
    BY <1>1
  <2> HIDE DEF rest, listed
  <2>2. rest = {} /\ OrderTables(tables).ordered = listed
    BY <2>1
  <2>3. QED
    BY <2>2 DEF rest, listed
<1>5. Sorted({}) = <<>>
  <2>1. Cardinality({}) = 0 /\ IsFiniteSet({})
    BY FS_EmptySet
  <2>2. Sorted({}) \in [1..0 -> {}]
    BY <2>1, SortedLists
  <2>3. QED
    BY <2>2
<1>6. f[n] \o <<>> = f[n] /\ Range(f[n]) \subseteq tables
  BY <1>3 DEF Range
<1>7. QED
  BY <1>3, <1>4, <1>5, <1>6

(* Whatever tables one takes, one of them references no other of them.     *)
Acyclic(tables) ==
  \A U \in (SUBSET tables) \ {{}} : \E t \in U : (Refs[t] \cap U) \ {t} = {}

(* orderTablesByDependencies reports a cycle exactly when there is one: a  *)
(* table that references itself or one that does not exist is no cycle, and*)
(* as many passes as there are tables place them all (scripts/backup/      *)
(* lib.mjs, "a self-reference or an unknown reference does not break       *)
(* ordering").                                                             *)
THEOREM CyclesAreReported ==
  ASSUME NEW tables \in SUBSET Tables
  PROVE  OrderTables(tables).cycles = {} <=> Acyclic(tables)
<1> DEFINE n == Cardinality(tables)
<1>1. IsFiniteSet(tables) /\ n \in Nat
  BY SchemaIsFinite, FS_Subset, FS_CardinalityType
<1>2. ASSUME OrderTables(tables).cycles = {}, NEW U \in (SUBSET tables) \ {{}}
      PROVE  \E t \in U : (Refs[t] \cap U) \ {t} = {}
  <2> DEFINE q == OrderTables(tables).ordered
             Places == {k \in 1..Len(q) : q[k] \in U}
  <2>1. q \in Seq(tables) /\ Range(q) = tables /\ InOrder(q, tables)
    BY <1>2, OrderLists
  <2> HIDE DEF q
  <2>2. \A x \in tables : \E k \in 1..Len(q) : q[k] = x
    BY <2>1 DEF Range
  <2>3. Places \in SUBSET Nat /\ Places # {}
    BY <2>1, <2>2
  <2>4. PICK k \in Places : \A m \in Places : k <= m
    <3> HIDE DEF Places
    <3>1. QED
      BY <2>3, Smallest
  <2>5. (Refs[q[k]] \cap tables) \ {q[k]} \subseteq {q[j] : j \in 1..k - 1}
    BY <2>1 DEF InOrder
  <2>6. ASSUME NEW j \in 1..k - 1, q[j] \in U PROVE FALSE
    <3>1. j \in Places /\ ~(k <= j)
      BY <2>1, <2>6
    <3>2. QED
      BY <2>4, <3>1
  <2>7. q[k] \in U /\ (Refs[q[k]] \cap U) \ {q[k]} = {}
    BY <2>5, <2>6
  <2>8. QED
    BY <2>7
<1>3. ASSUME Acyclic(tables) PROVE OrderTables(tables).cycles = {}
  <2>1. PICK f : /\ Passes(f, tables)
                 /\ LET rest == tables \ Range(f[n])
                    IN OrderTables(tables) =
                         [ordered |-> f[n] \o Sorted(rest), cycles |-> rest]
    BY OrderIs
  <2> DEFINE Placed(k) == Range(f[k])
             S == {k \in 0..n : Placed(k) = tables \/ k <= Cardinality(Placed(k))}
  <2>2. /\ \A k \in 0..n : f[k] \in Seq(tables) /\ InOrder(f[k], tables)
        /\ \A k \in 1..n : f[k] = Pass(f[k - 1], tables)
    BY <2>1 DEF Passes
  <2>3. ASSUME NEW k \in 0..n
        PROVE  /\ Placed(k) \in SUBSET tables /\ IsFiniteSet(Placed(k))
               /\ Cardinality(Placed(k)) \in Nat
    <3>1. Placed(k) \in SUBSET tables
      BY <2>2 DEF Range
    <3> HIDE DEF Placed
    <3>2. IsFiniteSet(Placed(k))
      BY <1>1, <3>1, FS_Subset
    <3>3. QED
      BY <3>1, <3>2, FS_CardinalityType
  <2>4. 0 \in S
    BY <1>1, <2>3
  <2>5. ASSUME NEW k \in 1..n, k - 1 \in S PROVE k \in S
    <3>1. k - 1 \in 0..n /\ k \in 0..n
      BY <1>1
    <3>2. /\ Placed(k - 1) \subseteq Placed(k)
          /\ \A t \in tables : Ready(t, f[k - 1], tables) => t \in Placed(k)
      BY <2>2, <3>1, PassKeeps
    <3>3. CASE Placed(k - 1) = tables
      BY <2>3, <3>1, <3>2, <3>3
    <3>4. CASE Placed(k - 1) # tables
      <4> DEFINE U == tables \ Placed(k - 1)
      <4>1. U \in (SUBSET tables) \ {{}}
        BY <2>3, <3>1, <3>4
      <4>2. PICK t \in U : (Refs[t] \cap U) \ {t} = {}
        BY <1>3, <4>1 DEF Acyclic
      <4>3. Ready(t, f[k - 1], tables)
        BY <4>2 DEF Ready
      <4> DEFINE More == Placed(k - 1) \cup {t}
      <4>4. More \in SUBSET Placed(k) /\ t \notin Placed(k - 1)
        BY <3>2, <4>2, <4>3
      <4>5. k - 1 <= Cardinality(Placed(k - 1))
        BY <2>5, <3>4
      <4> HIDE DEF Placed
      <4>6. Cardinality(More) = Cardinality(Placed(k - 1)) + 1
        BY <2>3, <3>1, <4>4, FS_AddElement
      <4> HIDE DEF More
      <4>7. Cardinality(More) <= Cardinality(Placed(k))
        BY <2>3, <3>1, <4>4, FS_Subset
      <4>8. k <= Cardinality(Placed(k))
        BY <2>3, <3>1, <4>5, <4>6, <4>7
      <4>9. QED
        BY <3>1, <4>8
    <3>5. QED
      BY <3>3, <3>4
  <2>6. n \in S
    <3> HIDE DEF S, n
    <3>1. n \in 0..n
      BY <1>1
    <3>2. QED
      BY <1>1, <2>4, <2>5, <3>1, Interval
  <2>7. Placed(n) = tables
    <3>1. n \in 0..n
      BY <1>1
    <3> HIDE DEF Placed
    <3>2. Placed(n) \in SUBSET tables /\ Cardinality(Placed(n)) <= n
      BY <1>1, <2>3, <3>1, FS_Subset
    <3>3. Placed(n) = tables \/ Cardinality(Placed(n)) = n
      BY <1>1, <2>3, <2>6, <3>1, <3>2
    <3>4. QED
      BY <1>1, <3>2, <3>3, FS_Subset
  <2> DEFINE rest == tables \ Range(f[n])
             listed == f[n] \o Sorted(rest)
  <2>8. OrderTables(tables) = [ordered |-> listed, cycles |-> rest] /\ rest = {}
    BY <2>1, <2>7
  <2> HIDE DEF rest, listed
  <2>9. QED
    BY <2>8
<1>4. QED
  BY <1>2, <1>3 DEF Acyclic

(* Rows reference rows that exist, the schema read is listed in order, and *)
(* the rows read are of one state of the database.                         *)
SchemaOK ==
  /\ \A t \in db.tables : Refs[t] \subseteq db.tables
  /\ \A t \in Tables \ db.tables : db.rows[t] = {}
  /\ \A t \in db.tables : \A p \in Refs[t] : db.rows[t] \subseteq db.rows[p]

OrderOK(dump) ==
  dump.cycles = {} =>
    dump.order \in Seq(Tables) /\ InOrder(dump.order, Range(dump.order))

RowsOK(dump) ==
  dump.cycles = {} =>
    \A t, p \in Range(dump.order) : p \in Refs[t] => dump.rows[t] \subseteq dump.rows[p]

LoadsOK ==
  /\ job.pc \in {"rows", "sequence", "verify", "restore"} => OrderOK(job.dump)
  /\ job.pc = "rows" /\ job.dump.cycles = {} => Range(job.dump.order) \subseteq db.tables
  /\ job.pc \in {"sequence", "verify", "restore"} => RowsOK(job.dump)
  /\ job.pc = "restore" => VerifyExport(job.live, job.dump)

LoadInv == SchemaOK /\ LoadsOK

(* A listing in order with the rows of one state loads.                    *)
LEMMA OrderedLoads ==
  ASSUME NEW dump, dump.cycles = {}, OrderOK(dump), RowsOK(dump)
  PROVE  VerifyRestored(dump, dump)
<1> DEFINE q == dump.order
<1>1. q \in Seq(Tables) /\ InOrder(q, Range(q))
  BY DEF OrderOK
<1>2. \A t, p \in Range(q) : p \in Refs[t] => dump.rows[t] \subseteq dump.rows[p]
  BY DEF RowsOK
<1> HIDE DEF q
<1>3. DOMAIN q = 1..Len(q) /\ Len(q) \in Nat
  BY <1>1
<1>4. ASSUME NEW k \in DOMAIN q, NEW p \in (Refs[q[k]] \cap Range(q)) \ {q[k]}
      PROVE  dump.rows[q[k]] \subseteq
               UNION {dump.rows[q[j]] : j \in {i \in 1..(k - 1) : q[i] = p}}
  <2>1. PICK j \in 1..k - 1 : q[j] = p
    BY <1>1, <1>3, <1>4 DEF InOrder
  <2>2. q[k] \in Range(q) /\ p \in Range(q) /\ p \in Refs[q[k]]
    BY <1>4 DEF Range
  <2>3. dump.rows[q[k]] \subseteq dump.rows[q[j]]
    BY <1>2, <2>1, <2>2
  <2>4. j \in {i \in 1..(k - 1) : q[i] = p}
    BY <2>1
  <2>5. QED
    BY <2>3, <2>4
<1>5. Replays(dump)
  BY <1>4 DEF Replays, q
<1>6. QED
  BY <1>5 DEF VerifyRestored

(* A change of the database while the job waits.                           *)
LEMMA DbLoads ==
  ASSUME BackupInv, LoadInv, InsertRows \/ DeleteRows \/ Migrate
  PROVE  LoadInv'
<1> USE DEF LoadInv
<1>1. db \in Database /\ UNCHANGED job
  BY DbStep DEF BackupInv, TypesOK, DbOK
<1>2. \A t \in db.tables : t \in Tables /\ Refs[t] \subseteq Tables
  BY <1>1, RefsAreTables DEF Database
<1>3. CASE InsertRows
  <2> DEFINE rows == [t \in Tables |->
                 IF t \in db.tables THEN db.rows[t] \cup {db.seq + 1} ELSE db.rows[t]]
             seq == db.seq + 1
  <2>1. db' = [db EXCEPT !.seq = seq, !.rows = rows]
    BY <1>1, <1>3 DEF InsertRows, Database
  <2> HIDE DEF rows, seq
  <2>2. db'.tables = db.tables /\ db'.rows = rows
    BY <1>1, <2>1 DEF Database
  <2>3. SchemaOK'
    <3>1. \A t \in Tables \ db.tables : rows[t] = {}
      BY DEF SchemaOK, rows
    <3>2. \A t \in db.tables : \A p \in Refs[t] : rows[t] \subseteq rows[p]
      BY <1>2 DEF SchemaOK, rows
    <3>3. QED
      BY <2>2, <3>1, <3>2 DEF SchemaOK
  <2>4. LoadsOK'
    BY <1>1, <2>2 DEF LoadsOK
  <2>5. QED
    BY <2>3, <2>4
<1>4. CASE DeleteRows
  <2>1. PICK i : db' = [db EXCEPT !.rows = [t \in Tables |-> db.rows[t] \ {i}]]
    BY <1>1, <1>4 DEF DeleteRows, Database
  <2> DEFINE rows == [t \in Tables |-> db.rows[t] \ {i}]
  <2>2. db' = [db EXCEPT !.rows = rows]
    BY <2>1
  <2> HIDE DEF rows
  <2>3. db'.tables = db.tables /\ db'.rows = rows
    BY <1>1, <2>2 DEF Database
  <2>4. SchemaOK'
    <3>1. \A t \in Tables \ db.tables : rows[t] = {}
      BY DEF SchemaOK, rows
    <3>2. \A t \in db.tables : \A p \in Refs[t] : rows[t] \subseteq rows[p]
      BY <1>2 DEF SchemaOK, rows
    <3>3. QED
      BY <2>3, <3>1, <3>2 DEF SchemaOK
  <2>5. LoadsOK'
    BY <1>1, <2>3 DEF LoadsOK
  <2>6. QED
    BY <2>4, <2>5
<1>5. CASE Migrate
  <2>1. PICK t \in Added \ db.tables :
          /\ Refs[t] \subseteq db.tables \cup {t}
          /\ db' = [db EXCEPT !.tables = db.tables \cup {t}, !.ledger = db.ledger \cup {t}]
    BY <1>1, <1>5 DEF Migrate, Database
  <2> DEFINE tables == db.tables \cup {t}
             ledger == db.ledger \cup {t}
  <2>2. db' = [db EXCEPT !.tables = tables, !.ledger = ledger]
    BY <2>1
  <2>3. /\ \A u \in tables : Refs[u] \subseteq tables
        /\ \A u \in Tables \ tables : db.rows[u] = {}
        /\ \A u \in tables : \A p \in Refs[u] : db.rows[u] \subseteq db.rows[p]
        /\ db.tables \subseteq tables
    <3>1. t \in Tables /\ db.rows[t] = {}
      BY <2>1, TablesAreNumbers DEF SchemaOK
    <3>2. QED
      BY <2>1, <3>1 DEF SchemaOK
  <2> HIDE DEF tables, ledger
  <2>4. db'.tables = tables /\ db'.rows = db.rows
    BY <1>1, <2>2 DEF Database
  <2>5. SchemaOK'
    BY <2>3, <2>4 DEF SchemaOK
  <2>6. LoadsOK'
    BY <1>1, <2>3, <2>4 DEF LoadsOK
  <2>7. QED
    BY <2>5, <2>6
<1>6. QED
  BY <1>3, <1>4, <1>5

LEMMA ReadSchemaLoads ==
  ASSUME BackupInv, LoadInv, ReadSchema
  PROVE  LoadsOK'
<1> DEFINE order == OrderTables(db.tables).ordered
           cycles == OrderTables(db.tables).cycles
           dump == [job.dump EXCEPT !.order = order, !.cycles = cycles]
<1>1. /\ job' = [job EXCEPT !.pc = "rows", !.dump = dump] /\ UNCHANGED db
      /\ db.tables \in SUBSET Tables
  BY DEF ReadSchema, BackupInv, TypesOK, JobOK, DbOK, Database
<1>2. cycles = {} =>
        order \in Seq(db.tables) /\ Range(order) = db.tables /\ InOrder(order, db.tables)
  BY <1>1, OrderLists
<1> HIDE DEF order, cycles
<1>3. dump.order = order /\ dump.cycles = cycles
  BY DEF BackupInv, TypesOK, JobOK
<1> HIDE DEF dump
<1>4. job'.dump = dump /\ job'.pc = "rows"
  BY <1>1 DEF BackupInv, TypesOK, JobOK
<1>5. order \in Seq(db.tables) => order \in Seq(Tables)
  BY <1>1
<1>6. QED
  BY <1>1, <1>2, <1>3, <1>4, <1>5 DEF LoadsOK, OrderOK

LEMMA ReadRowsLoads ==
  ASSUME BackupInv, LoadInv, ReadRows
  PROVE  LoadsOK'
<1> DEFINE rows == [t \in Tables |->
                      IF t \in Range(job.dump.order) THEN db.rows[t] ELSE {}]
           ledger == db.ledger
           dump == [job.dump EXCEPT !.rows = rows, !.ledger = ledger]
<1>1. /\ job' = [job EXCEPT !.pc = "sequence", !.dump = dump] /\ job.pc = "rows"
      /\ db.tables \subseteq Tables
  BY DEF ReadRows, BackupInv, TypesOK, JobOK, DbOK, Database
<1>2. job.dump.cycles = {} =>
        \A t, p \in Range(job.dump.order) : p \in Refs[t] => rows[t] \subseteq rows[p]
  BY <1>1 DEF LoadInv, LoadsOK, SchemaOK
<1> HIDE DEF rows, ledger
<1>3. dump.order = job.dump.order /\ dump.cycles = job.dump.cycles /\ dump.rows = rows
  BY DEF BackupInv, TypesOK, JobOK
<1> HIDE DEF dump
<1>4. job'.dump = dump /\ job'.pc = "sequence"
  BY <1>1 DEF BackupInv, TypesOK, JobOK
<1>5. QED
  BY <1>1, <1>2, <1>3, <1>4 DEF LoadInv, LoadsOK, OrderOK, RowsOK

LEMMA ReadSequenceLoads ==
  ASSUME BackupInv, LoadInv, ReadSequence
  PROVE  LoadsOK'
<1>1. PICK s \in {db.seq, None} : job' = [job EXCEPT !.pc = "verify", !.dump.seq = s]
  BY DEF ReadSequence
<1> DEFINE dump == [job.dump EXCEPT !.seq = s]
<1>2. job' = [job EXCEPT !.pc = "verify", !.dump = dump] /\ job.pc = "sequence"
  BY <1>1 DEF ReadSequence, BackupInv, TypesOK, JobOK
<1>3. /\ dump.order = job.dump.order /\ dump.cycles = job.dump.cycles
      /\ dump.rows = job.dump.rows
  BY DEF BackupInv, TypesOK, JobOK
<1> HIDE DEF dump
<1>4. job'.dump = dump /\ job'.pc = "verify"
  BY <1>2 DEF BackupInv, TypesOK, JobOK
<1>5. QED
  BY <1>2, <1>3, <1>4 DEF LoadInv, LoadsOK, OrderOK, RowsOK

LEMMA VerifyDumpLoads ==
  ASSUME BackupInv, LoadInv, VerifyDump
  PROVE  LoadsOK'
<1>1. job.pc = "verify" /\ UNCHANGED db
  BY DEF VerifyDump
<1>2. CASE VerifyExport(job.live, job.dump)
  <2>1. job' = [job EXCEPT !.pc = "restore"]
    BY <1>2 DEF VerifyDump
  <2>2. job'.pc = "restore" /\ job'.live = job.live /\ job'.dump = job.dump
    BY <2>1 DEF BackupInv, TypesOK, JobOK
  <2>3. OrderOK(job.dump) /\ RowsOK(job.dump)
    BY <1>1 DEF LoadInv, LoadsOK
  <2>4. VerifyExport(job'.live, job'.dump) /\ OrderOK(job'.dump) /\ RowsOK(job'.dump)
    BY <1>2, <2>2, <2>3
  <2>5. QED
    BY <2>2, <2>4 DEF LoadsOK
<1>3. CASE ~VerifyExport(job.live, job.dump)
  <2>1. job'.pc = "idle"
    BY <1>3 DEF VerifyDump, Ended
  <2>2. QED
    BY <2>1 DEF LoadsOK
<1>4. QED
  BY <1>2, <1>3

LEMMA LoadStep ==
  BackupInv /\ LoadInv /\ [Next]_vars => LoadInv'
<1> SUFFICES ASSUME BackupInv, LoadInv, [Next]_vars PROVE LoadInv'
  OBVIOUS
<1>1. CASE InsertRows \/ DeleteRows \/ Migrate
  BY <1>1, DbLoads
<1>2. ASSUME UNCHANGED db, LoadsOK' PROVE LoadInv'
  BY <1>2 DEF LoadInv, SchemaOK
<1>3. ASSUME UNCHANGED db, job'.pc \notin {"rows", "sequence", "verify", "restore"}
      PROVE  LoadInv'
  BY <1>2, <1>3 DEF LoadsOK
<1>4. CASE UNCHANGED vars \/ Tick \/ RemoveObject
             \/ \E s \in Manifests, c \in Configs, t \in Targets : RestoreDrill(s, c, t)
  <2>1. UNCHANGED <<db, job>>
    BY <1>4 DEF vars, Tick, RemoveObject, RestoreDrill
  <2>2. QED
    BY <1>2, <2>1 DEF LoadInv, LoadsOK
<1>5. CASE StartRun \/ LiveState \/ TrialRestore \/ ReportFreshness \/ Abort
  <2>1. UNCHANGED db
    BY <1>5 DEF StartRun, LiveState, TrialRestore, ReportFreshness, Abort
  <2>2. job'.pc \in {"live", "schema", "sql", "idle"}
    BY <1>5, StartRunStep, LiveStateStep, TrialRestoreStep, EndStep DEF BackupInv
  <2>3. QED
    BY <1>3, <2>1, <2>2
<1>6. CASE \E part \in Parts : Upload(part)
  <2>1. PICK part \in Parts : Upload(part)
    BY <1>6
  <2>2. UNCHANGED db /\ job' \in {[job EXCEPT !.pc = NextPart(part)], Ended(job.stamp)}
    BY <2>1 DEF Upload
  <2>3. NextPart(part) \in {"sha256", "manifest", "status"}
    BY DEF NextPart
  <2>4. job'.pc \in {"sha256", "manifest", "status", "idle"}
    BY <2>2, <2>3 DEF Ended, BackupInv, TypesOK, JobOK
  <2>5. QED
    BY <1>3, <2>2, <2>4
<1>7. CASE ReadSchema \/ ReadRows \/ ReadSequence \/ VerifyDump
  <2>1. UNCHANGED db
    BY <1>7 DEF ReadSchema, ReadRows, ReadSequence, VerifyDump
  <2>2. LoadsOK'
    BY <1>7, ReadSchemaLoads, ReadRowsLoads, ReadSequenceLoads, VerifyDumpLoads
  <2>3. QED
    BY <1>2, <2>1, <2>2
<1>8. QED
  BY <1>1, <1>4, <1>5, <1>6, <1>7 DEF Next

(* A dump that passed verifyExport restores: the tables come after those   *)
(* they reference and the rows are of one state of the database, whatever  *)
(* the Workers and a release do between the requests of the dump           *)
(* (scripts/backup/lib.mjs, d1-export.mjs).                                *)
THEOREM VerifiedDumpsLoad == Spec => []VerifiedDumpLoads
<1>1. Init => LoadInv
  <2> SUFFICES ASSUME Init PROVE LoadInv
    OBVIOUS
  <2>1. db.tables = Tables \ Added /\ db.rows = [t \in Tables |-> {}] /\ job.pc = "idle"
    BY DEF Init, EmptyRows, Ended
  <2>2. \A t \in Tables : Refs[t] \subseteq Tables
    BY RefsAreTables
  <2>3. SchemaOK
    BY <2>1, <2>2, ParentsComeFirst DEF SchemaOK
  <2>4. LoadsOK
    BY <2>1 DEF LoadsOK
  <2>5. QED
    BY <2>3, <2>4 DEF LoadInv
<1>2. LoadInv => VerifiedDumpLoads
  BY OrderedLoads DEF LoadInv, LoadsOK, VerifyExport, VerifiedDumpLoads
<1>3. QED
  BY <1>1, <1>2, LoadStep, BackupInvariant, PTL DEF Spec

-----------------------------------------------------------------------------
(* The place of a key in a listing.                                        *)
LEMMA RankOfKeys ==
  ASSUME MirrorTypeOK
  PROVE  /\ \A k \in FileKeys : Rank(k) \in Nat
         /\ \A k, m \in run.listed : k < m => Rank(k) < Rank(m)
<1> DEFINE Before(k) == {j \in run.listed : j < k}
<1>1. /\ run.listed \subseteq FileKeys
      /\ \A j \in FileKeys : j \in Nat
      /\ \A j \in run.listed : j \in Nat
  <2>1. run.listed \in SUBSET FileKeys
    BY DEF MirrorTypeOK
  <2>2. QED
    BY <2>1, KeysAreNumbers
<1>2. ASSUME NEW k \in FileKeys
      PROVE  IsFiniteSet(Before(k)) /\ Cardinality(Before(k)) \in Nat
  <2>1. Before(k) \in SUBSET Nat /\ k \in Nat /\ \A j \in Before(k) : j <= k
    <3>1. k \in Nat
      BY <1>1
    <3>2. \A j \in Before(k) : j \in Nat /\ j < k
      BY <1>1
    <3> HIDE DEF Before
    <3>3. \A j \in Before(k) : j \in Nat /\ j <= k
      BY <3>1, <3>2
    <3>4. QED
      BY <3>1, <3>3
  <2> HIDE DEF Before
  <2>2. IsFiniteSet(Before(k))
    BY <2>1, FS_BoundedSetOfNaturals
  <2>3. QED
    BY <2>2, FS_CardinalityType
<1>3. ASSUME NEW k \in run.listed, NEW m \in run.listed, k < m
      PROVE  Cardinality(Before(k)) < Cardinality(Before(m))
  <2>1. Before(k) \in SUBSET Before(m) /\ Before(k) # Before(m)
    <3>0. k \in Nat /\ m \in Nat
      BY <1>1
    <3>1. k \in Before(m) /\ k \notin Before(k)
      BY <1>3, <3>0
    <3>2. ASSUME NEW j \in run.listed, j < k
          PROVE  j < m
      <4>1. j \in Nat
        BY <1>1
      <4>2. QED
        BY <1>3, <3>0, <3>2, <4>1
    <3>3. QED
      BY <3>1, <3>2
  <2>2. /\ IsFiniteSet(Before(m)) /\ Cardinality(Before(m)) \in Nat
        /\ Cardinality(Before(k)) \in Nat
    BY <1>1, <1>2
  <2> HIDE DEF Before
  <2>3. /\ Cardinality(Before(k)) <= Cardinality(Before(m))
        /\ Cardinality(Before(m)) # Cardinality(Before(k))
    BY <2>1, <2>2, FS_Subset
  <2>4. QED
    BY <2>2, <2>3
<1>4. QED
  BY <1>2, <1>3 DEF Rank

(* The key a worker takes is the one whose place is next.                  *)
LEMMA TakenIsNext ==
  ASSUME MirrorTypeOK, Untaken # {}, NEW k, 
         k = CHOOSE i \in Untaken : \A j \in Untaken : i <= j
  PROVE  /\ k \in run.listed
         /\ \A m \in run.listed : Rank(m) < run.started + 1 /\ m # k
                                    => Rank(m) < run.started
<1>1. Untaken = {i \in run.listed : Rank(i) >= run.started}
  BY DEF Untaken, Rank
<1>2. run.listed \subseteq FileKeys /\ run.listed \subseteq Nat /\ run.started \in Nat
  <2>1. run.listed \in SUBSET FileKeys /\ run.started \in 0..Limit
    BY DEF MirrorTypeOK
  <2>2. \A j \in FileKeys : j \in Nat
    BY KeysAreNumbers
  <2>3. run.started \in Nat
    BY <2>1, LimitIsNumber
  <2>4. QED
    BY <2>1, <2>2, <2>3
<1>3. k \in Untaken /\ \A j \in Untaken : k <= j
  <2>1. Untaken \in SUBSET Nat
    BY <1>1, <1>2
  <2>2. \E i \in Untaken : \A j \in Untaken : i <= j
    BY <2>1, Smallest
  <2>3. QED
    BY <2>2
<1>4. ASSUME NEW m \in run.listed, Rank(m) < run.started + 1, m # k,
             ~(Rank(m) < run.started)
      PROVE  FALSE
  <2>1. Rank(m) \in Nat /\ Rank(k) \in Nat /\ Rank(m) = run.started
    BY <1>1, <1>2, <1>3, <1>4, RankOfKeys
  <2>2. k < m
    BY <1>1, <1>2, <1>3, <1>4, <2>1
  <2>3. Rank(k) < Rank(m)
    BY <1>1, <1>3, <2>2, RankOfKeys
  <2>4. QED
    BY <1>1, <1>2, <1>3, <2>1, <2>3
<1>5. QED
  BY <1>1, <1>3, <1>4

RunType ==
  [pc : {"idle", "plan", "copy", "verify"}, listed : SUBSET FileKeys,
   existing : SUBSET Address, started : 0..Limit,
   entries : SUBSET Address, failed : BOOLEAN]
CopierType ==
  [pc : {"next", "get", "put", "done"}, key : FileKeys \cup {0},
   body : FileContents \cup {Nothing}]

LEMMA RestingType ==
  /\ Resting \in CopierType /\ Resting.pc = "done"
  /\ [Resting EXCEPT !.pc = "next"] \in CopierType
  /\ [Resting EXCEPT !.pc = "next"].pc = "next"
BY DEF Resting, CopierType

LEMMA NoRunType ==
  /\ NoRun \in RunType /\ NoRun.pc = "idle" /\ NoRun.existing = {}
  /\ NoRun.started = 0
BY LimitIsNumber DEF NoRun, RunType

(* The application changes an object.                                      *)
LEMMA WriteObjectStep ==
  ASSUME MirrorInv, WriteObject
  PROVE  MirrorInv'
<1> USE DEF MirrorInv
<1>1. PICK k \in FileKeys, c \in FileContents \cup {Nothing} :
        /\ source' = [source EXCEPT ![k] = c]
        /\ moved' = IF run.pc \in {"plan", "copy"}
                    THEN moved \cup ({k} \cap run.listed) ELSE {}
        /\ UNCHANGED <<mirrored, locked, lapsed, run, copier, covered>>
  BY DEF WriteObject, heldVars
<1>2. MirrorTypeOK'
  BY <1>1 DEF MirrorTypeOK
<1>3. WorkersOK' /\ HeldOrLapsed'
  BY <1>1 DEF WorkersOK, HeldOrLapsed
<1>4. MirrorSoFar'
  <2>0. ASSUME run.pc = "copy", NEW a \in run.existing
        PROVE  StillHeld(a)'
    <3>1. StillHeld(a) /\ a[1] \in FileKeys
      BY <2>0 DEF MirrorSoFar, MirrorTypeOK, Address
    <3>2. source'[a[1]] = source[a[1]] \/ a[1] = k
      BY <1>1, <3>1 DEF MirrorTypeOK
    <3>3. QED
      BY <1>1, <2>0, <3>1, <3>2 DEF StillHeld
  <2>1. \A m \in FileKeys : m # k => source'[m] = source[m]
    BY <1>1 DEF MirrorTypeOK
  <2>2. run.pc \in {"plan", "copy"} =>
          run.listed \ moved' \subseteq (run.listed \ moved) \ {k}
    BY <1>1
  <2>3. run.listed \subseteq FileKeys
    BY DEF MirrorTypeOK
  <2>4. run.pc \in {"plan", "copy"} => \A m \in run.listed \ moved' : source'[m] # Nothing
    BY <2>1, <2>2, <2>3 DEF MirrorSoFar
  <2>5. run.pc = "copy" /\ ~run.failed =>
          \A m \in run.listed \ moved' :
            Rank(m) < run.started => <<m, source'[m]>> \in mirrored \/ Underway(m)'
    BY <1>1, <2>1, <2>2, <2>3 DEF MirrorSoFar, Underway
  <2>6. \A m : Rank(m)' = Rank(m)
    BY <1>1 DEF Rank
  <2>7. Exhausted' <=> Exhausted
    BY <1>1 DEF Exhausted, Untaken
  <2>8. QED
    BY <1>1, <2>0, <2>4, <2>5, <2>6, <2>7 DEF MirrorSoFar
<1>5. QED
  BY <1>2, <1>3, <1>4

(* A run that ends, or dies, leaves no worker and keeps what it stored.    *)
LEMMA ListSourceStep ==
  ASSUME MirrorInv, ListSource
  PROVE  MirrorInv'
<1> USE DEF MirrorInv
<1> DEFINE listed == {k \in FileKeys : source[k] # Nothing}
<1>1. /\ run' = [NoRun EXCEPT !.pc = "plan", !.listed = listed] /\ moved' = {}
      /\ \A w \in Copiers : copier[w].pc = "done"
      /\ UNCHANGED <<source, mirrored, locked, lapsed, copier, covered>>
  BY DEF ListSource, heldVars
<1>2. listed \in SUBSET FileKeys
  OBVIOUS
<1>3. \A k \in listed : source[k] # Nothing
  OBVIOUS
<1> HIDE DEF listed
<1>4. /\ run'.pc = "plan" /\ run'.listed = listed /\ run'.existing = {}
      /\ run'.started = 0 /\ run' \in RunType
  <2> DEFINE failed == FALSE
  <2>1. run' = [pc |-> "plan", listed |-> listed, existing |-> {}, started |-> 0,
                entries |-> {}, failed |-> failed]
    BY <1>1 DEF NoRun
  <2>2. failed \in BOOLEAN /\ 0 \in 0..Limit
    BY LimitIsNumber
  <2> HIDE DEF failed
  <2>3. QED
    BY <1>2, <2>1, <2>2 DEF RunType
<1>5. MirrorTypeOK'
  BY <1>1, <1>4 DEF MirrorTypeOK, RunType, CopierType
<1>6. WorkersOK' /\ HeldOrLapsed'
  BY <1>1 DEF WorkersOK, HeldOrLapsed
<1>7. MirrorSoFar'
  BY <1>1, <1>3, <1>4 DEF MirrorSoFar
<1>8. QED
  BY <1>5, <1>6, <1>7

LEMMA PlanMirrorStep ==
  ASSUME MirrorInv, PlanMirror
  PROVE  MirrorInv'
<1> USE DEF MirrorInv
<1>1. /\ run.pc = "plan" /\ run' = [run EXCEPT !.pc = "copy", !.existing = mirrored]
      /\ copier' = [w \in Copiers |-> [Resting EXCEPT !.pc = "next"]]
      /\ UNCHANGED <<source, mirrored, locked, lapsed, moved, covered>>
  BY DEF PlanMirror, heldVars
<1>2. /\ run'.pc = "copy" /\ run'.existing = mirrored /\ run'.listed = run.listed
      /\ run'.started = run.started /\ run' \in RunType
  BY <1>1 DEF MirrorTypeOK, RunType
<1>3. \A w \in Copiers : copier'[w].pc = "next" /\ copier'[w] \in CopierType
  BY <1>1, RestingType
<1>4. MirrorTypeOK'
  <2>1. copier' \in [Copiers -> CopierType]
    BY <1>1, RestingType
  <2>2. QED
    BY <1>1, <1>2, <2>1 DEF MirrorTypeOK, RunType, CopierType
<1>5. WorkersOK' /\ HeldOrLapsed'
  BY <1>1, <1>3 DEF WorkersOK, HeldOrLapsed
<1>6. run.started = 0
  BY <1>1 DEF MirrorSoFar
<1>7. \A k \in run'.listed \ moved' : ~(Rank(k)' < run'.started)
  <2>1. run.listed \in SUBSET FileKeys
    BY DEF MirrorTypeOK
  <2>2. \A k \in run.listed : Rank(k) \in Nat
    BY <2>1, RankOfKeys
  <2>3. \A k : Rank(k)' = Rank(k)
    BY <1>2 DEF Rank
  <2>4. QED
    BY <1>2, <1>6, <2>2, <2>3
<1>8. MirrorSoFar'
  BY <1>1, <1>2, <1>3, <1>7 DEF MirrorSoFar, StillHeld
<1>9. QED
  BY <1>4, <1>5, <1>8

LEMMA TakeNextStep ==
  ASSUME MirrorInv, NEW w \in Copiers, TakeNext(w)
  PROVE  MirrorInv'
<1> USE DEF MirrorInv
<1>1. copier[w].pc = "next" /\ run.pc = "copy"
  BY DEF TakeNext, MirrorSoFar
<1>2. UNCHANGED <<source, mirrored, locked, lapsed, moved, covered>>
  BY DEF TakeNext, heldVars
<1>3. CASE Untaken # {} /\ run.started < Limit
  <2> DEFINE k == CHOOSE i \in Untaken : \A j \in Untaken : i <= j
             new == [pc |-> "get", body |-> Nothing, key |-> k]
             started == run.started + 1
  <2>1. copier' = [copier EXCEPT ![w] = new] /\ run' = [run EXCEPT !.started = started]
    BY <1>3 DEF TakeNext
  <2>2. /\ k \in run.listed
        /\ \A m \in run.listed : Rank(m) < started /\ m # k => Rank(m) < run.started
    BY <1>3, TakenIsNext
  <2> HIDE DEF k
  <2>3. new \in CopierType /\ new.pc = "get" /\ new.key = k
    BY <2>2 DEF CopierType, MirrorTypeOK
  <2> HIDE DEF new
  <2>4. started \in 0..Limit
    BY <1>3, LimitIsNumber DEF MirrorTypeOK
  <2> HIDE DEF started
  <2>5. /\ run'.pc = "copy" /\ run'.existing = run.existing /\ run'.listed = run.listed
        /\ run'.started = started /\ run'.failed = run.failed /\ run' \in RunType
    BY <1>1, <2>1, <2>4 DEF MirrorTypeOK, RunType
  <2>6. /\ copier' \in [Copiers -> CopierType] /\ copier'[w] = new
        /\ \A u \in Copiers : u # w => copier'[u] = copier[u]
    BY <2>1, <2>3 DEF MirrorTypeOK, CopierType
  <2>7. MirrorTypeOK'
    BY <1>2, <2>5, <2>6 DEF MirrorTypeOK, RunType, CopierType
  <2>8. WorkersOK' /\ HeldOrLapsed'
    BY <1>2, <2>2, <2>3, <2>5, <2>6 DEF WorkersOK, HeldOrLapsed
  <2>9. \A m : Rank(m)' = Rank(m)
    BY <2>5 DEF Rank
  <2>10. ASSUME ~run.failed
         PROVE  /\ \A m \in run.listed \ moved :
                     Rank(m) < started => <<m, source[m]>> \in mirrored \/ Underway(m)'
                /\ \A u \in Copiers : copier'[u].pc # "done"
    <3>1. ASSUME NEW m \in run.listed \ moved, Rank(m) < started,
                 <<m, source[m]>> \notin mirrored
          PROVE  Underway(m)'
      <4>1. CASE m = k
        BY <2>3, <2>6, <4>1 DEF Underway
      <4>2. CASE m # k
        <5>1. Underway(m)
          BY <1>1, <2>2, <2>10, <3>1, <4>2 DEF MirrorSoFar
        <5>2. PICK u \in Copiers :
                /\ copier[u].key = m
                /\ \/ copier[u].pc = "get"
                   \/ copier[u].pc = "put" /\ copier[u].body = source[m]
          BY <5>1 DEF Underway
        <5>3. copier'[u] = copier[u]
          BY <1>1, <2>6, <5>2
        <5>4. QED
          BY <1>2, <5>2, <5>3 DEF Underway
      <4>3. QED
        BY <4>1, <4>2
    <3>2. ~Exhausted
      BY <1>3, LimitIsNumber DEF Exhausted, MirrorTypeOK
    <3>3. \A u \in Copiers : copier[u].pc # "done"
      BY <1>1, <2>10, <3>2 DEF MirrorSoFar
    <3>4. QED
      BY <2>3, <2>6, <3>1, <3>3
  <2>11. MirrorSoFar'
    BY <1>1, <1>2, <2>5, <2>9, <2>10 DEF MirrorSoFar, StillHeld
  <2>12. QED
    BY <2>7, <2>8, <2>11
<1>4. CASE ~(Untaken # {} /\ run.started < Limit)
  <2>1. copier' = [copier EXCEPT ![w] = Resting] /\ run' = run
    BY <1>4 DEF TakeNext
  <2>2. /\ copier' \in [Copiers -> CopierType] /\ copier'[w].pc = "done"
        /\ \A u \in Copiers : u # w => copier'[u] = copier[u]
    BY <2>1, RestingType DEF MirrorTypeOK, CopierType
  <2>3. MirrorTypeOK'
    BY <1>2, <2>1, <2>2 DEF MirrorTypeOK, CopierType
  <2>4. WorkersOK' /\ HeldOrLapsed'
    BY <1>2, <2>1, <2>2 DEF WorkersOK, HeldOrLapsed
  <2>5. Exhausted'
    <3>1. Exhausted
      BY <1>4, LimitIsNumber DEF Exhausted, MirrorTypeOK
    <3>2. QED
      BY <2>1, <3>1 DEF Exhausted, Untaken
  <2>6. \A m : Rank(m)' = Rank(m) /\ (Underway(m) => Underway(m)')
    BY <1>1, <1>2, <2>1, <2>2 DEF Rank, Underway
  <2>7. MirrorSoFar'
    BY <1>1, <1>2, <2>1, <2>5, <2>6 DEF MirrorSoFar, StillHeld
  <2>8. QED
    BY <2>3, <2>4, <2>7
<1>5. QED
  BY <1>3, <1>4

LEMMA GetObjectStep ==
  ASSUME MirrorInv, NEW w \in Copiers, GetObject(w)
  PROVE  MirrorInv'
<1> USE DEF MirrorInv
<1> DEFINE k == copier[w].key
           c == source[k]
           found == c = Nothing \/ <<k, c>> \in run.existing
<1>1. /\ copier[w].pc = "get" /\ run.pc = "copy"
      /\ k \in run.listed /\ k \in FileKeys /\ c \in FileContents \cup {Nothing}
      /\ UNCHANGED <<source, mirrored, locked, lapsed, moved, covered>>
  BY DEF GetObject, MirrorSoFar, WorkersOK, MirrorTypeOK, heldVars
<1>2. /\ run' = run \/ run' = [run EXCEPT !.entries = run.entries \cup {<<k, c>>}]
      /\ run' = run \/ c # Nothing
      /\ found => copier' = [copier EXCEPT ![w] = [Resting EXCEPT !.pc = "next"]]
      /\ ~found => copier' = [copier EXCEPT ![w].pc = "put", ![w].body = c]
  BY DEF GetObject
<1>3. /\ run'.pc = "copy" /\ run'.listed = run.listed /\ run'.existing = run.existing
      /\ run'.started = run.started /\ run'.failed = run.failed /\ run' \in RunType
  <2>1. CASE run' = run
    BY <1>1, <2>1 DEF MirrorTypeOK, RunType
  <2>2. CASE run' = [run EXCEPT !.entries = run.entries \cup {<<k, c>>}] /\ c # Nothing
    <3> DEFINE entries == run.entries \cup {<<k, c>>}
    <3>1. <<k, c>> \in Address
      BY <1>1, <2>2 DEF Address
    <3> HIDE DEF k, c
    <3>2. entries \in SUBSET Address /\ run' = [run EXCEPT !.entries = entries]
      BY <2>2, <3>1 DEF MirrorTypeOK
    <3> HIDE DEF entries
    <3>3. QED
      BY <1>1, <3>2 DEF MirrorTypeOK, RunType
  <2>3. QED
    BY <1>2, <2>1, <2>2
<1>4. /\ copier' \in [Copiers -> CopierType]
      /\ \A u \in Copiers : u # w => copier'[u] = copier[u]
      /\ found => copier'[w].pc = "next"
      /\ ~found => copier'[w].pc = "put" /\ copier'[w].key = k /\ copier'[w].body = c
  <2>1. CASE found
    <3> DEFINE new == [Resting EXCEPT !.pc = "next"]
    <3>1. copier' = [copier EXCEPT ![w] = new]
      BY <1>2, <2>1
    <3>2. new \in CopierType /\ new.pc = "next"
      BY RestingType
    <3> HIDE DEF new
    <3>3. /\ copier' \in [Copiers -> CopierType] /\ copier'[w] = new
          /\ \A u \in Copiers : u # w => copier'[u] = copier[u]
      BY <3>1, <3>2 DEF MirrorTypeOK, CopierType
    <3>4. QED
      BY <2>1, <3>2, <3>3
  <2>2. CASE ~found
    <3>1. copier' = [copier EXCEPT ![w].pc = "put", ![w].body = c]
      BY <1>2, <2>2
    <3> DEFINE body == c
               new == [copier[w] EXCEPT !.pc = "put", !.body = body]
    <3>2. copier' = [copier EXCEPT ![w] = new]
      BY <3>1 DEF MirrorTypeOK
    <3>3. body \in FileContents \cup {Nothing}
      BY <1>1
    <3> HIDE DEF body
    <3>4. new \in CopierType /\ new.pc = "put" /\ new.key = k /\ new.body = body
      BY <3>3 DEF MirrorTypeOK, CopierType
    <3> HIDE DEF new
    <3>5. /\ copier' \in [Copiers -> CopierType] /\ copier'[w] = new
          /\ \A u \in Copiers : u # w => copier'[u] = copier[u]
      BY <3>2, <3>4 DEF MirrorTypeOK, CopierType
    <3>6. QED
      BY <2>2, <3>4, <3>5 DEF body
  <2>3. QED
    BY <2>1, <2>2
<1>5. MirrorTypeOK'
  BY <1>1, <1>3, <1>4 DEF MirrorTypeOK, RunType, CopierType
<1>6. WorkersOK' /\ HeldOrLapsed'
  <2>1. \A u \in Copiers : copier'[u].pc \in {"get", "put"} => copier'[u].key \in run.listed
    BY <1>1, <1>4 DEF WorkersOK
  <2>2. \A u \in Copiers : copier'[u].pc = "put" => copier'[u].body \in FileContents
    BY <1>1, <1>4 DEF WorkersOK
  <2>3. QED
    BY <1>1, <1>3, <2>1, <2>2 DEF WorkersOK, HeldOrLapsed
<1>7. ASSUME ~run.failed, NEW m \in run.listed \ moved, Underway(m)
      PROVE  Underway(m)' \/ <<m, source[m]>> \in mirrored
  <2>1. PICK u \in Copiers :
          /\ copier[u].key = m
          /\ \/ copier[u].pc = "get"
             \/ copier[u].pc = "put" /\ copier[u].body = source[m]
    BY <1>7 DEF Underway
  <2>2. CASE u # w
    BY <1>1, <1>4, <2>1, <2>2 DEF Underway
  <2>3. CASE u = w /\ found
    BY <1>1, <1>7, <2>1, <2>3 DEF MirrorSoFar, StillHeld
  <2>4. CASE u = w /\ ~found
    BY <1>1, <1>4, <2>1, <2>4 DEF Underway
  <2>5. QED
    BY <2>2, <2>3, <2>4
<1>8. \A u \in Copiers : copier'[u].pc = "done" => copier[u].pc = "done"
  BY <1>4
<1>9. Exhausted' <=> Exhausted
  BY <1>3 DEF Exhausted, Untaken
<1>10. \A m : Rank(m)' = Rank(m)
  BY <1>3 DEF Rank
<1>11. MirrorSoFar'
  <2>1. /\ \A a \in run.existing : StillHeld(a)' <=> StillHeld(a)
        /\ \A m \in run.listed \ moved : source[m] # Nothing
    BY <1>1, <1>3 DEF MirrorSoFar, StillHeld
  <2>2. ~run.failed =>
          /\ \A m \in run.listed \ moved :
               Rank(m) < run.started => <<m, source[m]>> \in mirrored \/ Underway(m)'
          /\ (\E u \in Copiers : copier'[u].pc = "done") => Exhausted
    BY <1>1, <1>7, <1>8 DEF MirrorSoFar
  <2>3. QED
    BY <1>1, <1>3, <1>9, <1>10, <2>1, <2>2 DEF MirrorSoFar
<1>12. QED
  BY <1>5, <1>6, <1>11

LEMMA PutMirrorStep ==
  ASSUME MirrorInv, NEW w \in Copiers, PutMirror(w)
  PROVE  MirrorInv'
<1> USE DEF MirrorInv
<1> DEFINE a == <<copier[w].key, copier[w].body>>
           existing == run.existing \cup {a}
           entries == run.entries \cup {a}
<1>1. /\ copier[w].pc = "put" /\ run.pc = "copy" /\ a \in Address
      /\ a \notin mirrored /\ UNCHANGED <<source, moved, covered>>
  BY DEF PutMirror, Stored, MirrorSoFar, WorkersOK, MirrorTypeOK, Address
<1>2. /\ mirrored' = mirrored \cup {a} /\ locked' = locked \cup {a}
      /\ lapsed' = lapsed \ {a}
      /\ run' = [run EXCEPT !.existing = existing, !.entries = entries]
      /\ copier' = [copier EXCEPT ![w] = [Resting EXCEPT !.pc = "next"]]
  BY DEF PutMirror, Stored
<1>3. /\ existing \in SUBSET Address /\ entries \in SUBSET Address
  BY <1>1 DEF MirrorTypeOK
<1>4. /\ run'.pc = "copy" /\ run'.listed = run.listed /\ run'.existing = existing
      /\ run'.started = run.started /\ run'.failed = run.failed /\ run' \in RunType
  <2> HIDE DEF existing, entries
  <2>1. QED
    BY <1>1, <1>2, <1>3 DEF MirrorTypeOK, RunType
<1>5. /\ copier' \in [Copiers -> CopierType] /\ copier'[w].pc = "next"
      /\ \A u \in Copiers : u # w => copier'[u] = copier[u]
  BY <1>2, RestingType DEF MirrorTypeOK, CopierType
<1>6. MirrorTypeOK'
  BY <1>1, <1>2, <1>4, <1>5 DEF MirrorTypeOK, RunType, CopierType
<1>7. WorkersOK' /\ HeldOrLapsed'
  <2>1. HeldOrLapsed'
    BY <1>1, <1>2 DEF HeldOrLapsed
  <2>2. WorkersOK'
    BY <1>1, <1>4, <1>5 DEF WorkersOK
  <2>3. QED
    BY <2>1, <2>2
<1>8. ASSUME NEW m, Underway(m)
      PROVE  Underway(m)' \/ <<m, source[m]>> \in mirrored'
  <2>1. PICK u \in Copiers :
          /\ copier[u].key = m
          /\ \/ copier[u].pc = "get"
             \/ copier[u].pc = "put" /\ copier[u].body = source[m]
    BY <1>8 DEF Underway
  <2>2. CASE u # w
    BY <1>1, <1>5, <2>1, <2>2 DEF Underway
  <2>3. CASE u = w
    BY <1>1, <1>2, <2>1, <2>3
  <2>4. QED
    BY <2>2, <2>3
<1>9. \A u \in Copiers : copier'[u].pc = "done" => copier[u].pc = "done"
  BY <1>5
<1>10. Exhausted' <=> Exhausted
  BY <1>4 DEF Exhausted, Untaken
<1>11. \A m : Rank(m)' = Rank(m)
  BY <1>4 DEF Rank
<1>12. MirrorSoFar'
  <2>1. /\ \A m \in run.listed \ moved : source[m] # Nothing
        /\ \A b \in existing : StillHeld(b)'
    BY <1>1, <1>2, <1>4 DEF MirrorSoFar, StillHeld
  <2>2. ~run.failed =>
          /\ \A m \in run.listed \ moved :
               Rank(m) < run.started => <<m, source[m]>> \in mirrored' \/ Underway(m)'
          /\ (\E u \in Copiers : copier'[u].pc = "done") => Exhausted
    BY <1>1, <1>2, <1>8, <1>9 DEF MirrorSoFar
  <2>3. QED
    BY <1>1, <1>3, <1>4, <1>10, <1>11, <2>1, <2>2 DEF MirrorSoFar
<1>13. QED
  BY <1>6, <1>7, <1>12

LEMMA RequestFailsStep ==
  ASSUME MirrorInv, NEW w \in Copiers, RequestFails(w)
  PROVE  MirrorInv'
<1> USE DEF MirrorInv
<1> DEFINE a == <<copier[w].key, copier[w].body>>
<1>1. /\ run.pc = "copy"
      /\ copier[w].pc = "put" => a \in Address
      /\ UNCHANGED <<source, moved, covered>>
  BY DEF RequestFails, MirrorSoFar, WorkersOK, MirrorTypeOK, Address
<1>2. /\ mirrored \subseteq mirrored' /\ mirrored' \subseteq Address
      /\ locked' \subseteq mirrored' /\ lapsed' \subseteq Address
      /\ HeldOrLapsed'
      /\ copier' = [copier EXCEPT ![w] = Resting]
  <2>1. CASE UNCHANGED heldVars
    BY <1>1, <2>1 DEF RequestFails, heldVars, HeldOrLapsed, MirrorTypeOK
  <2>2. CASE copier[w].pc = "put" /\ Stored(a)
    BY <1>1, <2>2 DEF RequestFails, Stored, HeldOrLapsed, MirrorTypeOK
  <2>3. QED
    BY <2>1, <2>2 DEF RequestFails
<1>3. /\ run'.pc = "copy" /\ run'.listed = run.listed /\ run'.existing = run.existing
      /\ run'.started = run.started /\ run'.failed /\ run' \in RunType
  <2> DEFINE failed == TRUE
  <2>1. run' = [run EXCEPT !.failed = failed]
    BY DEF RequestFails
  <2>2. failed \in BOOLEAN /\ failed
    OBVIOUS
  <2> HIDE DEF failed
  <2>3. /\ run'.pc = "copy" /\ run'.listed = run.listed /\ run'.existing = run.existing
        /\ run'.started = run.started /\ run'.failed = failed /\ run' \in RunType
    BY <1>1, <2>1, <2>2 DEF MirrorTypeOK, RunType
  <2>4. QED
    BY <2>2, <2>3
<1>4. /\ copier' \in [Copiers -> CopierType] /\ copier'[w].pc = "done"
      /\ \A u \in Copiers : u # w => copier'[u] = copier[u]
  BY <1>2, RestingType DEF MirrorTypeOK, CopierType
<1>5. MirrorTypeOK'
  BY <1>1, <1>2, <1>3, <1>4 DEF MirrorTypeOK, RunType, CopierType
<1>6. WorkersOK' /\ HeldOrLapsed'
  BY <1>1, <1>2, <1>3, <1>4 DEF WorkersOK
<1>7. MirrorSoFar'
  <2>1. \A b \in run.existing : StillHeld(b)'
    BY <1>1, <1>2, <1>3 DEF MirrorSoFar, StillHeld
  <2>2. QED
    BY <1>1, <1>3, <2>1 DEF MirrorSoFar
<1>8. QED
  BY <1>5, <1>6, <1>7

(* A run that did not fail has put, or found, the content of every object  *)
(* it was to start on and that sat still.                                  *)
LEMMA WriteManifestStep ==
  ASSUME MirrorInv, WriteManifest
  PROVE  MirrorInv'
<1> USE DEF MirrorInv
<1>1. /\ run.pc = "copy" /\ \A w \in Copiers : copier[w].pc = "done"
      /\ moved' = {} /\ UNCHANGED <<source, mirrored, locked, copier>>
  BY DEF WriteManifest
<1>2. CASE run.failed
  <2>1. run' = NoRun /\ covered' = covered /\ lapsed' = lapsed
    BY <1>2 DEF WriteManifest
  <2>2. MirrorTypeOK'
    BY <1>1, <2>1, NoRunType DEF MirrorTypeOK, RunType
  <2>3. WorkersOK' /\ HeldOrLapsed'
    BY <1>1, <2>1 DEF WorkersOK, HeldOrLapsed
  <2>4. MirrorSoFar'
    BY <1>1, <2>1, NoRunType DEF MirrorSoFar
  <2>5. QED
    BY <2>2, <2>3, <2>4
<1>3. CASE ~run.failed
  <2> DEFINE still == {k \in run.listed \ moved : Rank(k) < Limit}
             swept == {<<k, source[k]>> : k \in still}
  <2>1. /\ run' = [NoRun EXCEPT !.pc = "verify", !.entries = run.entries]
        /\ covered' = covered \cup swept /\ lapsed' = lapsed \ swept
    BY <1>3 DEF WriteManifest, SatStill, Rank
  <2>2. /\ run'.pc = "verify" /\ run'.started = 0 /\ run' \in RunType
    BY <2>1, NoRunType DEF MirrorTypeOK, RunType, NoRun
  <2>3. ASSUME NEW k \in still
        PROVE  <<k, source[k]>> \in mirrored
    <3>1. k \in run.listed \ moved /\ k \in FileKeys /\ Rank(k) < Limit
      BY DEF MirrorTypeOK
    <3>2. Rank(k) \in Nat /\ run.started \in Nat
      BY <3>1, RankOfKeys, LimitIsNumber DEF MirrorTypeOK
    <3>3. Exhausted
      BY <1>1, <1>3, CopiersExist DEF MirrorSoFar
    <3>4. Rank(k) < run.started
      <4>1. CASE Untaken = {}
        BY <3>1, <3>2, <4>1 DEF Untaken, Rank
      <4>2. CASE run.started >= Limit
        BY <3>1, <3>2, <4>2, LimitIsNumber
      <4>3. QED
        BY <3>3, <4>1, <4>2 DEF Exhausted
    <3>5. ~Underway(k)
      BY <1>1 DEF Underway
    <3>6. QED
      BY <1>1, <1>3, <3>1, <3>4, <3>5 DEF MirrorSoFar
  <2>4. swept \subseteq mirrored
    BY <2>3
  <2> HIDE DEF swept
  <2>5. MirrorTypeOK'
    <3>1. covered' \subseteq Address /\ lapsed' \subseteq Address
      BY <2>1, <2>4 DEF MirrorTypeOK
    <3>2. QED
      BY <1>1, <2>2, <3>1 DEF MirrorTypeOK, RunType
  <2>6. WorkersOK' /\ HeldOrLapsed'
    BY <1>1, <2>1, <2>4 DEF WorkersOK, HeldOrLapsed
  <2>7. MirrorSoFar'
    BY <1>1, <2>2 DEF MirrorSoFar
  <2>8. QED
    BY <2>5, <2>6, <2>7
<1>4. QED
  BY <1>2, <1>3

LEMMA EndMirrorStep ==
  ASSUME MirrorInv, VerifyMirror \/ RunnerDies
  PROVE  MirrorInv'
<1> USE DEF MirrorInv
<1>1. /\ run' = NoRun /\ UNCHANGED <<source, mirrored, locked, lapsed, covered>>
      /\ moved' \subseteq moved
      /\ copier' = copier \/ copier' = [w \in Copiers |-> Resting]
  BY DEF VerifyMirror, RunnerDies, heldVars
<1>2. \A w \in Copiers : copier'[w].pc = "done"
  BY <1>1, RestingType DEF VerifyMirror, RunnerDies, MirrorSoFar
<1>3. copier' \in [Copiers -> CopierType]
  BY <1>1, RestingType DEF MirrorTypeOK, CopierType
<1>4. MirrorTypeOK'
  BY <1>1, <1>3, NoRunType DEF MirrorTypeOK, RunType, CopierType
<1>5. WorkersOK' /\ HeldOrLapsed'
  BY <1>1, <1>2 DEF WorkersOK, HeldOrLapsed
<1>6. MirrorSoFar'
  BY <1>1, <1>2, NoRunType DEF MirrorSoFar
<1>7. QED
  BY <1>4, <1>5, <1>6

(* The rules of the backup bucket: what expires did not sit still.         *)
LEMMA LockEndsStep ==
  ASSUME MirrorInv, NEW a \in mirrored, LockEnds(a)
  PROVE  MirrorInv'
<1> USE DEF MirrorInv
<1>1. /\ locked' = locked \ {a}
      /\ UNCHANGED <<source, mirrored, run, copier, moved, covered, lapsed>>
  BY DEF LockEnds
<1>2. MirrorTypeOK'
  BY <1>1 DEF MirrorTypeOK
<1>3. WorkersOK' /\ HeldOrLapsed'
  BY <1>1 DEF WorkersOK, HeldOrLapsed
<1>4. MirrorSoFar'
  BY <1>1 DEF MirrorSoFar, StillHeld, Rank, Underway, Exhausted, Untaken
<1>5. QED
  BY <1>2, <1>3, <1>4

LEMMA ExpireMirroredStep ==
  ASSUME MirrorInv, NEW a \in mirrored, ExpireMirrored(a)
  PROVE  MirrorInv'
<1> USE DEF MirrorInv
<1>1. /\ a \notin locked /\ mirrored' = mirrored \ {a}
      /\ lapsed' = IF a \in covered THEN lapsed \cup {a} ELSE lapsed
      /\ moved' = IF run.pc = "copy" /\ source[a[1]] = a[2]
                  THEN moved \cup ({a[1]} \cap run.listed) ELSE moved
      /\ UNCHANGED <<source, locked, run, copier, covered>>
  BY DEF ExpireMirrored
<1>2. a \in Address /\ a = <<a[1], a[2]>>
  BY DEF MirrorTypeOK, Address
<1>3. MirrorTypeOK'
  BY <1>1, <1>2 DEF MirrorTypeOK
<1>4. WorkersOK' /\ HeldOrLapsed'
  BY <1>1 DEF WorkersOK, HeldOrLapsed
<1>5. moved \subseteq moved'
  BY <1>1
<1>6. ASSUME run.pc = "copy", NEW b \in run.existing
      PROVE  StillHeld(b)'
  <2>1. StillHeld(b)
    BY <1>6 DEF MirrorSoFar
  <2>2. b = a => StillHeld(b)'
    BY <1>1, <1>6 DEF StillHeld
  <2>3. QED
    BY <1>1, <1>5, <2>1, <2>2 DEF StillHeld
<1>7. ASSUME run.pc = "copy", NEW m \in run.listed \ moved', <<m, source[m]>> \in mirrored
      PROVE  <<m, source[m]>> \in mirrored'
  <2>1. CASE <<m, source[m]>> = a
    BY <1>1, <1>7, <2>1
  <2>2. CASE <<m, source[m]>> # a
    BY <1>1, <1>7, <2>2
  <2>3. QED
    BY <2>1, <2>2
<1>8. \A m : Rank(m)' = Rank(m) /\ (Underway(m)' <=> Underway(m))
  BY <1>1 DEF Rank, Underway
<1>9. Exhausted' <=> Exhausted
  BY <1>1 DEF Exhausted, Untaken
<1>10. MirrorSoFar'
  BY <1>1, <1>5, <1>6, <1>7, <1>8, <1>9 DEF MirrorSoFar
<1>11. QED
  BY <1>3, <1>4, <1>10

LEMMA MirrorStart ==
  MirrorInit => MirrorInv
<1> SUFFICES ASSUME MirrorInit PROVE MirrorInv
  OBVIOUS
<1>1. \A w \in Copiers : copier[w].pc = "done"
  BY RestingType DEF MirrorInit
<1>2. copier \in [Copiers -> CopierType]
  BY RestingType DEF MirrorInit
<1>3. MirrorTypeOK
  BY <1>2, NoRunType DEF MirrorInit, MirrorTypeOK, RunType, CopierType
<1>4. WorkersOK /\ HeldOrLapsed
  BY <1>1 DEF WorkersOK, HeldOrLapsed, MirrorInit
<1>5. MirrorSoFar
  BY <1>1, NoRunType DEF MirrorSoFar, MirrorInit
<1>6. QED
  BY <1>3, <1>4, <1>5 DEF MirrorInv

LEMMA MirrorStep ==
  MirrorInv /\ [MirrorNext]_mirrorVars => MirrorInv'
<1> SUFFICES ASSUME MirrorInv, [MirrorNext]_mirrorVars PROVE MirrorInv'
  OBVIOUS
<1>1. CASE WriteObject
  BY <1>1, WriteObjectStep
<1>2. CASE ListSource
  BY <1>2, ListSourceStep
<1>3. CASE PlanMirror
  BY <1>3, PlanMirrorStep
<1>4. ASSUME NEW w \in Copiers,
             TakeNext(w) \/ GetObject(w) \/ PutMirror(w) \/ RequestFails(w)
      PROVE  MirrorInv'
  BY <1>4, TakeNextStep, GetObjectStep, PutMirrorStep, RequestFailsStep
<1>5. CASE WriteManifest
  BY <1>5, WriteManifestStep
<1>6. CASE VerifyMirror \/ RunnerDies
  BY <1>6, EndMirrorStep
<1>7. ASSUME NEW a \in mirrored, LockEnds(a) \/ ExpireMirrored(a)
      PROVE  MirrorInv'
  BY <1>7, LockEndsStep, ExpireMirroredStep
<1>8. CASE UNCHANGED mirrorVars
  BY <1>8 DEF mirrorVars, MirrorInv, MirrorTypeOK, WorkersOK, MirrorSoFar, StillHeld,
             HeldOrLapsed, Rank, Underway, Exhausted, Untaken
<1>9. QED
  BY <1>1, <1>2, <1>3, <1>4, <1>5, <1>6, <1>7, <1>8 DEF MirrorNext

(* A version that was in production, untouched, from a run's listing to    *)
(* its manifest is in the mirror until the bucket's rules remove it, which *)
(* they do not while the lock of its PUT holds: with any number of workers *)
(* taking keys at once and of writes beside them, whichever requests fail, *)
(* wherever the runner dies and whatever expires (r2-mirror.mjs).          *)
THEOREM CoveredRecoverable ==
  MirrorInit /\ [][MirrorNext]_mirrorVars => []CoveredUntilExpiry
<1>1. MirrorInv => CoveredUntilExpiry
  <2> SUFFICES ASSUME MirrorInv, NEW a \in covered
               PROVE  a[2] \in Versions(a[1]) \/ (a \in lapsed /\ a \notin locked)
    BY DEF CoveredUntilExpiry
  <2>1. a \in Address /\ (a \in mirrored \/ a \in lapsed \ mirrored)
    BY DEF MirrorInv, MirrorTypeOK, HeldOrLapsed
  <2>2. a = <<a[1], a[2]>> /\ a[2] \in FileContents
    BY <2>1 DEF Address
  <2>3. CASE a \in mirrored
    BY <2>2, <2>3 DEF Versions
  <2>4. CASE a \in lapsed \ mirrored
    BY <2>4 DEF MirrorInv, MirrorTypeOK
  <2>5. QED
    BY <2>1, <2>3, <2>4
<1>2. QED
  BY <1>1, MirrorStart, MirrorStep, PTL
=============================================================================
