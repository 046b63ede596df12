\* Ingestion, maintenance and retention changes over a few days.
SPECIFICATION Spec
CONSTANTS
  Events = {e1, e2, e3}
  Names = {n1, n2, n3}
  Slots = {c1, c2}
  MaxNames = 1
  MaxDay = 3
  None = None
  Retentions = {1, 2}
  RollupDays = 3
  ExpiredDays = 1
  Chunk = 1
  MaxChunks = 2
SYMMETRY Symmetry
CONSTRAINT NamesOrDays
INVARIANTS
  EventNamesListed
  PurgedWasRolledUp
  SummaryCountsAll
