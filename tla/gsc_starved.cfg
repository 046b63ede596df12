\* Every cron is served, and Google does not list one of two properties.
\* The clock is bounded, so the model may stop.
CHECK_DEADLOCK FALSE
SPECIFICATION Spec
CONSTANTS
  PropertyCount = 2
  Slots = {r1}
  TicksPerDay = 3
  DailyInterval = 2
  ReportLag = 1
  ReconcileDays = 1
  ChunkDays = 3
  RetentionDays = 6
  MaxManual = 0
  MaxTick = 7
  Gone = Gone
  None = None
CONSTRAINT SecondUnlisted
INVARIANT DailyPassHappens
