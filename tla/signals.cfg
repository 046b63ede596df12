\* Two runs over two jobs that share the manual budget, the observations and the alerts; a tick is longer than an hour.
CHECK_DEADLOCK FALSE
SPECIFICATION Spec
CONSTANTS
  Runs = {x1, x2}
  Jobs = {hourly, daily}
  Sources = {s1}
  Keys = {k1, k2}
  Alerts = {a1}
  TTL = 1
  Interval = 2
  Window = 0
  ManualLimit = 1
  MaxTime = 1
  None = None
SYMMETRY Symmetry
CONSTRAINT RowsOrAlerts
INVARIANTS
  ManualBudget
  AddedIsStored
  MailedOnce
PROPERTIES
  ImplementsLeases
