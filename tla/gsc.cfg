\* A cron and a manual collection in each of two ticks, then undisturbed crons.
\* The clock is bounded, so the model may stop.
CHECK_DEADLOCK FALSE
SPECIFICATION Spec
CONSTANTS
  PropertyCount = 1
  Slots = {r1, r2}
  TicksPerDay = 3
  DailyInterval = 2
  ReportLag = 1
  ReconcileDays = 1
  ChunkDays = 3
  RetentionDays = 6
  MaxManual = 1
  MaxTick = 7
  Gone = Gone
  None = None
SYMMETRY Symmetry
CONSTRAINT TroubleAtFirst
INVARIANTS
  BackfillLeavesNoGap
  DailyPassWhenSmooth
PROPERTIES
  ImplementsLeases
