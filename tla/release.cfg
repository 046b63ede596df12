\* Releases of four commits, failing at any step, run again, and checked for
\* drift while they go on.
SPECIFICATION Spec
CONSTANTS
  Tip = 4
  Files <- MCFiles
  DbOf <- MCDbOf
  Content <- MCContent
  Approvals <- MCApprovals
  Targets = {1, 2, 3}
  Healthy = {1, 3}
INVARIANTS
  SchemaCoversWorkers
  AppliedIsApproved
  SuccessIsReleased
  DriftOkWasTrue
