------------------------------- MODULE MCAppData -------------------------------
(* What fills the tables of an app and its bucket, each on its own: the    *)
(* service, and the migration from LabBox.  The migration has two datasets *)
(* of two apps; the first has two records, one with a photo, and the       *)
(* second one record whose photo has malformed metadata.  The second app   *)
(* is new to CFLab; the first may be known without the origin.             *)
EXTENDS FileStore, LabboxMigration

VARIABLE writer  \* "service" or "migration"

MCDatasetOf == [r1 |-> "d1", r2 |-> "d1", r3 |-> "d2"]
MCAppOf == [d1 |-> "a1", d2 |-> "a2"]
MCPhoto == [r1 |-> "f1", r2 |-> "none", r3 |-> "f2"]

(* Of the two, the one that does not write is in one state.                *)
AppDataInit ==
  /\ Init /\ MigrationInit
  /\ apps["a1"] # "full" /\ apps["a2"] = "absent"
  /\ writer \in {"service", "migration"}
  /\ writer = "service" => apps["a1"] = "absent" /\ live = [r \in Records |-> 0]

(* Writes and scripts of the migration run out, so it may stop.            *)
AppDataNext ==
  /\ UNCHANGED writer
  /\ \/ writer = "service" /\ Next /\ UNCHANGED migrationVars
     \/ writer = "migration" /\ MigrationNext /\ UNCHANGED vars
     \/ writer = "migration" /\ UNCHANGED <<vars, migrationVars>>

AppDataSpec == AppDataInit /\ [][AppDataNext]_<<vars, migrationVars, writer>>
=============================================================================
