\* Requests to the service, one at a time, stopping anywhere, with clients that
\* retry; and exports, imports and repairs that stop anywhere, while LabBox and
\* CFLab are written to.
SPECIFICATION AppDataSpec
CONSTANTS
  FileIds = {f1, f2}
  RecordIds = {n1}
  Contents = {c1, c2}
  Requests = {r1}
  None = None
  Records = {"r1", "r2", "r3"}
  Files = {"f1", "f2"}
  Datasets = {"d1", "d2"}
  Apps = {"a1", "a2"}
  DatasetOf <- MCDatasetOf
  AppOf <- MCAppOf
  Photo <- MCPhoto
  Malformed = {"f2"}
  NoPhoto = "none"
  MaxVersion = 2
  MaxChanges = 1
  MaxExports = 2
  MaxImports = 2
  BatchSize = 1
INVARIANTS
  RowHasBytes
  OrphanHasCause
  CutoverLosesNothing
  ReconciledIsComplete
  LinksResolve
PROPERTIES
  ArchivedUnchanged
