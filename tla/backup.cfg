\* Two dumps of a database that changes between their requests, and mirror
\* runs over a bucket that changes under their workers and a backup bucket
\* whose rules expire what they stored.
\* Runs, rows and the clock run out, so the model may stop.
CHECK_DEADLOCK FALSE
SPECIFICATION WorkflowSpec
CONSTANTS
  Tables <- MCTables
  Refs <- MCRefs
  Added <- MCAdded
  Rules <- MCRules
  MaxId = 1
  MaxStamp = 2
  MaxNow = 2
  MaxAge = 1
  MinLock = 2
  MaxExpire = 2
  None = None
  FileKeys <- MCKeys
  FileContents = {v1, v2}
  Copiers = {w1, w2}
  Limit = 2
  Nothing = Nothing
SYMMETRY Symmetry
INVARIANTS
  StoredIsSnapshot
  SequenceCoversRows
  FreshIsUsable
  VerifiedDumpLoads
  CoveredUntilExpiry
