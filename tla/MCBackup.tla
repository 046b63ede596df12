------------------------------- MODULE MCBackup -------------------------------
(* The two jobs of the backup workflow, the dump of a database and the     *)
(* mirror of the file bucket: a child table whose name sorts before its    *)
(* parent's, a migration that adds a third table, and bucket rules of      *)
(* which only one passes the setup check.                                  *)
EXTENDS D1Backup, FileMirror, TLC
MCTables == 1..3
MCRefs == <<{2}, {}, {1}>>
MCAdded == {3}
MCRules == [lock : {1, 2}, expire : {2}, enabled : {TRUE}]
MCKeys == 1..2

WorkflowInit == Init /\ MirrorInit

(* Bounds: versions the backup bucket holds at once, locks running at once *)
(* (the next PUT waits for one to end), and covered versions expired.      *)
MaxMirrored == 3
MaxLocked == 1
MaxLapsed == 1

BoundedMirror ==
  /\ MirrorNext
  /\ Cardinality(mirrored') <= MaxMirrored
  /\ Cardinality(locked') <= MaxLocked
  /\ Cardinality(lapsed') <= MaxLapsed

(* A bound: the jobs share no state, so one runs while the other has not   *)
(* begun.                                                                  *)
WorkflowNext ==
  \/ run = NoRun /\ source = [k \in FileKeys |-> Nothing]
       /\ mirrored = {} /\ covered = {}
       /\ Next /\ UNCHANGED mirrorVars
  \/ db.seq = 0 /\ db.ledger = {} /\ job.stamp = 0 /\ now = 0
       /\ BoundedMirror /\ UNCHANGED vars

WorkflowSpec == WorkflowInit /\ [][WorkflowNext]_<<vars, mirrorVars>>

Symmetry == Permutations(FileContents) \cup Permutations(Copiers)
=============================================================================
