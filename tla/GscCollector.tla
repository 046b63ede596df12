---------------------------- MODULE GscCollector ----------------------------
(***************************************************************************)
(* The Search Console collection of the Analytics Worker: an hourly cron   *)
(* and administrators start collections under one lease; a collection      *)
(* walks the configured properties, re-collects their last days, advances  *)
(* their historical backfill by one chunk, and moves the daily clock.      *)
(*                                                                         *)
(* Days are counted from the first day of the model; days before it are    *)
(* negative.  A tick is the time between two crons.  The reports of a day  *)
(* are two facts: its totals are stored, its details are stored.           *)
(***************************************************************************)
EXTENDS Integers, Sequences

CONSTANTS
  PropertyCount,  \* GSC_PROPERTIES, in the order of the list
  Slots,          \* slots for collections in flight
  TicksPerDay,
  DailyInterval,  \* DAILY_MIN_INTERVAL_HOURS, in ticks
  ReportLag,      \* REPORT_LAG_DAYS
  ReconcileDays,  \* RECONCILE_DAYS
  ChunkDays,      \* BACKFILL_CHUNK_DAYS
  RetentionDays,  \* RETENTION_DAYS
  MaxManual,      \* MAX_MANUAL_RUNS_PER_HOUR
  MaxTick,        \* bound on the time
  Gone,           \* the owner of a lease whose collection is no more
  None

ASSUME GscAssumption ==
  /\ {PropertyCount, TicksPerDay, DailyInterval, ReconcileDays, ChunkDays}
       \subseteq Nat \ {0}
  /\ {ReportLag, RetentionDays, MaxManual, MaxTick} \subseteq Nat
  /\ ReportLag + ReconcileDays <= RetentionDays
  /\ Gone \notin Slots /\ None \notin Slots \cup {Gone} \cup Int

(* The crons of a day are more than the chunks of the longest backfill, and *)
(* the daily pass is due within a day (24 crons of 30 days each for the 472 *)
(* days behind the reconciled ones; 20 hours).                              *)
ASSUME PaceAssumption ==
  /\ RetentionDays - ReportLag - ReconcileDays < TicksPerDay * ChunkDays
  /\ DailyInterval <= TicksPerDay

Properties == 1 .. PropertyCount

VARIABLES
  now,      \* the tick
  started,  \* what has been started in this tick: the cron, manual runs
  lease,    \* the lease of gsc_sync_state
  success,  \* last_success_at of gsc_sync_state, a tick
  rows,     \* table gsc_properties
  totals,   \* the days a property has in gsc_daily_totals
  details,  \* the days it has in the query, page and breakdown tables
  run,      \* the collections in flight
  anchor,   \* history: the day the backfill of a property has begun at
  daily,    \* history: the tick of the last complete daily pass
  served,   \* history: a cron of this tick has gone through without a failure
  trouble   \* history: what has happened that may delay a pass or open a gap

history == <<anchor, daily, served, trouble>>
vars == <<now, started, lease, success, rows, totals, details, run, history>>

Days == -RetentionDays .. MaxTick \div TicksPerDay

Scopes == {"daily", "backfill", "full"}

Row == [known : BOOLEAN, cursor : Days \cup {-RetentionDays - 1, None},
        complete : BOOLEAN]

Window == [from : Days, to : Days]

Run ==
  [pc : {"idle", "decide", "acquire", "sync", "rows", "property", "window",
         "details", "mark", "finish", "release"},
   cron : BOOLEAN, due : BOOLEAN, scope : Scopes, prior : 0 .. MaxTick \cup {None},
   rows : [Properties -> Row], listed : SUBSET Properties,
   discovered : BOOLEAN, at : Properties, left : Seq(Window),
   collected : Nat, succeeded : BOOLEAN, failed : BOOLEAN,
   deferred : BOOLEAN, outlived : BOOLEAN]

TypeOK ==
  /\ now \in 0 .. MaxTick
  /\ started \in [cron : BOOLEAN, manual : 0 .. MaxManual]
  /\ lease \in [owner : Slots \cup {Gone, None}, expired : BOOLEAN]
  /\ success \in 0 .. MaxTick \cup {None}
  /\ rows \in [Properties -> Row]
  /\ totals \in [Properties -> SUBSET Days]
  /\ details \in [Properties -> SUBSET Days]
  /\ run \in [Slots -> Run]
  /\ anchor \in [Properties -> Days \cup {None}]
  /\ daily \in 0 .. MaxTick
  /\ served \in BOOLEAN
  /\ trouble \subseteq {"missed", "unlisted", "manual", "overlap"}

NoStart == [cron |-> FALSE, manual |-> 0]

NoLease == [owner |-> None, expired |-> FALSE]

NoRows == [p \in Properties |->
             [known |-> FALSE, cursor |-> None, complete |-> FALSE]]

Idle ==
  [pc |-> "idle", cron |-> FALSE, due |-> FALSE, scope |-> "full",
   prior |-> None, rows |-> NoRows, listed |-> {}, discovered |-> FALSE,
   at |-> 1, left |-> <<>>, collected |-> 0, succeeded |-> FALSE,
   failed |-> FALSE, deferred |-> FALSE, outlived |-> FALSE]

Init ==
  /\ now = 0
  /\ started = NoStart
  /\ lease = NoLease
  /\ success = None
  /\ rows = NoRows
  /\ totals = [p \in Properties |-> {}]
  /\ details = [p \in Properties |-> {}]
  /\ run = [r \in Slots |-> Idle]
  /\ anchor = [p \in Properties |-> None]
  /\ daily = 0
  /\ served = FALSE
  /\ trouble = {}

tables == <<rows, totals, details>>

End(r) == run' = [run EXCEPT ![r] = Idle]

Goto(r, pc) == run' = [run EXCEPT ![r].pc = pc]

-----------------------------------------------------------------------------
(* The windows a collection plans.                                         *)

Later(a, b) == IF a > b THEN a ELSE b

Today == now \div TicksPerDay
Newest == Today - ReportLag
Floor == Today - RetentionDays

ReconcileWindow ==
  [from |-> Later(Newest - ReconcileDays + 1, Floor), to |-> Newest]

BackfillStart(cursor) == IF cursor = None THEN Newest - ReconcileDays ELSE cursor

ChunkFrom(start) == Later(start - ChunkDays + 1, Floor)

(* At most one window, the cursor after it, and whether it is the last.    *)
BackfillWindow(cursor) ==
  LET start == BackfillStart(cursor)
      from == ChunkFrom(start)
  IN IF start < Floor
     THEN [windows |-> <<>>, next |-> None, complete |-> TRUE]
     ELSE [windows |-> <<[from |-> from, to |-> start]>>, next |-> from - 1,
           complete |-> from - 1 < Floor]

(* What a collection of this scope does about the backfill of a property.  *)
Backfill(scope, row) ==
  IF scope = "daily"
  THEN [windows |-> <<>>, next |-> None, complete |-> row.complete]
  ELSE BackfillWindow(row.cursor)

(* The windows in order, merged when they touch. *)
Planned(scope, row) ==
  LET chunk == Backfill(scope, row).windows IN
  IF scope = "backfill" THEN chunk
  ELSE IF chunk = <<>> THEN <<ReconcileWindow>>
  ELSE IF chunk[1].to + 1 >= ReconcileWindow.from
       THEN <<[from |-> chunk[1].from, to |-> Newest]>>
       ELSE <<chunk[1], ReconcileWindow>>

DaysOf(window) == window.from .. window.to

-----------------------------------------------------------------------------
(* How a collection starts: the cron reads the daily clock and then the    *)
(* properties, an administrator names the scope.                           *)

(* Mutant of DailyDue: hours are taken for days. *)
DailyDueInDays == success = None \/ now - success >= DailyInterval * TicksPerDay

DailyDue == success = None \/ now - success >= DailyInterval

CronRead(r) ==
  /\ run[r].pc = "idle"
  /\ ~started.cron
  /\ started' = [started EXCEPT !.cron = TRUE]
  /\ run' = [run EXCEPT ![r].pc = "decide", ![r].cron = TRUE, ![r].due = DailyDue]
  /\ UNCHANGED <<now, lease, success, tables, history>>

BackfillPending == \E p \in Properties : ~rows[p].known \/ ~rows[p].complete

NotDue(r) ==
  /\ run[r].pc = "decide"
  /\ ~run[r].due /\ ~BackfillPending
  /\ served' = TRUE
  /\ End(r)
  /\ UNCHANGED <<now, started, lease, success, tables, anchor, daily, trouble>>

CronDecide(r) ==
  /\ run[r].pc = "decide"
  /\ run[r].due \/ BackfillPending
  /\ run' = [run EXCEPT ![r].pc = "acquire", ![r].due = FALSE,
       ![r].scope = IF ~run[r].due THEN "backfill"
                    ELSE IF BackfillPending THEN "full" ELSE "daily"]
  /\ UNCHANGED <<now, started, lease, success, tables, history>>

(* POST /sync with what is left of the hourly budget. *)
ManualStart(r, scope) ==
  /\ run[r].pc = "idle"
  /\ started.manual < MaxManual
  /\ started' = [started EXCEPT !.manual = @ + 1]
  /\ run' = [run EXCEPT ![r].pc = "acquire", ![r].scope = scope]
  /\ trouble' = trouble \cup {"manual"}
  /\ UNCHANGED <<now, lease, success, tables, anchor, daily, served>>

Free == lease.owner = None \/ lease.expired

Inside(r) == run[r].pc \notin {"idle", "decide", "acquire"}

AcquireLease(r) ==
  /\ run[r].pc = "acquire"
  /\ Free
  /\ lease' = [owner |-> r, expired |-> FALSE]
  /\ trouble' = IF \E q \in Slots : Inside(q) THEN trouble \cup {"overlap"} ELSE trouble
  /\ Goto(r, "sync")
  /\ UNCHANGED <<now, started, success, tables, anchor, daily, served>>

LeaseHeld(r) ==
  /\ run[r].pc = "acquire"
  /\ ~Free
  /\ End(r)
  /\ UNCHANGED <<now, started, lease, success, tables, history>>

ReadSync(r) ==
  /\ run[r].pc = "sync"
  /\ run' = [run EXCEPT ![r].pc = "rows", ![r].prior = success]
  /\ UNCHANGED <<now, started, lease, success, tables, history>>

(* The rows, and then the properties Google lists, or an error. *)
ReadProperties(r) ==
  /\ run[r].pc = "rows"
  /\ \E listed \in SUBSET Properties, discovered \in BOOLEAN :
       /\ ~discovered => listed = {}
       /\ run' = [run EXCEPT ![r].pc = "property", ![r].rows = rows,
                    ![r].listed = listed, ![r].discovered = discovered]
       /\ trouble' = IF discovered /\ listed # Properties
                     THEN trouble \cup {"unlisted"} ELSE trouble
  /\ UNCHANGED <<now, started, lease, success, tables, anchor, daily, served>>

-----------------------------------------------------------------------------
(* One property after the other.                                           *)

(* The collection at its next property, or at its end. *)
Onward(r, state) ==
  IF state.at = PropertyCount
  THEN [state EXCEPT !.pc = "finish", !.left = <<>>, !.collected = 0]
  ELSE [state EXCEPT !.pc = "property", !.left = <<>>, !.collected = 0,
                     !.at = state.at + 1]

(* The row is written before anything is fetched; a property that cannot   *)
(* be read is passed over, and so is every one after a deferral.           *)
Register(r) ==
  LET p == run[r].at
      plan == Planned(run[r].scope, run[r].rows[p])
  IN
  /\ run[r].pc = "property"
  /\ rows' = [rows EXCEPT ![p].known = TRUE]
  /\ run' = [run EXCEPT ![r] =
       IF p \notin run[r].listed \/ run[r].deferred THEN Onward(r, run[r])
       ELSE IF plan = <<>> THEN Onward(r, [run[r] EXCEPT !.succeeded = TRUE])
       ELSE [run[r] EXCEPT !.pc = "window", !.left = plan]]
  /\ UNCHANGED <<now, started, lease, success, totals, details, history>>

RegisterFails(r) ==
  /\ run[r].pc = "property"
  /\ run' = [run EXCEPT ![r] = Onward(r, [run[r] EXCEPT !.failed = TRUE])]
  /\ UNCHANGED <<now, started, lease, success, tables, history>>

(* The requests or the time of the collection are used up. *)
Defer(r) ==
  /\ run[r].pc = "window"
  /\ run' = [run EXCEPT ![r].pc = "mark", ![r].deferred = TRUE]
  /\ UNCHANGED <<now, started, lease, success, tables, history>>

(* All reports of a window are fetched, then its totals are replaced. *)
WriteTotals(r) ==
  LET p == run[r].at IN
  /\ run[r].pc = "window"
  /\ totals' = [totals EXCEPT ![p] = @ \cup DaysOf(Head(run[r].left))]
  /\ Goto(r, "details")
  /\ UNCHANGED <<now, started, lease, success, rows, details, history>>

WriteDetails(r) ==
  LET p == run[r].at IN
  /\ run[r].pc = "details"
  /\ details' = [details EXCEPT ![p] = @ \cup DaysOf(Head(run[r].left))]
  /\ run' = [run EXCEPT ![r].left = Tail(@), ![r].collected = @ + 1,
                        ![r].pc = IF Len(run[r].left) = 1 THEN "mark" ELSE "window"]
  /\ UNCHANGED <<now, started, lease, success, rows, totals, history>>

(* Mutant of WindowFails: a window that cannot be fetched is skipped. *)
WindowSkipped(r) ==
  /\ run[r].pc \in {"window", "details"}
  /\ run' = [run EXCEPT ![r].left = Tail(@), ![r].collected = @ + 1,
                        ![r].pc = IF Len(run[r].left) = 1 THEN "mark" ELSE "window"]
  /\ UNCHANGED <<now, started, lease, success, tables, history>>

(* A request or a write fails: the cursor stays, later properties go on. *)
WindowFails(r) ==
  /\ run[r].pc \in {"window", "details"}
  /\ run' = [run EXCEPT ![r] = Onward(r, [run[r] EXCEPT !.failed = TRUE])]
  /\ UNCHANGED <<now, started, lease, success, tables, history>>

AllCollected(r) == run[r].left = <<>>

MarkSuccess(r) ==
  LET p == run[r].at
      read == run[r].rows[p]
      plan == Backfill(run[r].scope, read)
  IN
  /\ run[r].pc = "mark" /\ run[r].collected > 0
  /\ rows' = [rows EXCEPT
       ![p].cursor = IF AllCollected(r) THEN plan.next ELSE read.cursor,
       ![p].complete = IF AllCollected(r) THEN plan.complete ELSE read.complete]
  /\ anchor' = IF AllCollected(r) /\ read.cursor = None /\ plan.windows # <<>>
               THEN [anchor EXCEPT ![p] = BackfillStart(None)] ELSE anchor
  /\ run' = [run EXCEPT ![r] = Onward(r, [run[r] EXCEPT !.succeeded = TRUE])]
  /\ UNCHANGED <<now, started, lease, success, totals, details, daily, served, trouble>>

(* A failure to mark is swallowed, and the property still counts. *)
MarkLost(r) ==
  /\ run[r].pc = "mark" /\ run[r].collected > 0
  /\ run' = [run EXCEPT ![r] = Onward(r, [run[r] EXCEPT !.succeeded = TRUE])]
  /\ trouble' = trouble \cup {"missed"}
  /\ UNCHANGED <<now, started, lease, success, tables, anchor, daily, served>>

NothingCollected(r) ==
  /\ run[r].pc = "mark" /\ run[r].collected = 0
  /\ run' = [run EXCEPT ![r] = Onward(r, run[r])]
  /\ UNCHANGED <<now, started, lease, success, tables, history>>

-----------------------------------------------------------------------------
(* The end of a collection.                                                *)

DailyComplete(r) ==
  ~run[r].failed /\ ~run[r].deferred /\ run[r].discovered /\ run[r].succeeded

(* The clock moves, or is put back to what the collection has read.        *)
FinishSync(r) ==
  /\ run[r].pc = "finish"
  /\ success' = IF DailyComplete(r) THEN now ELSE run[r].prior
  /\ daily' = IF DailyComplete(r) /\ run[r].scope # "backfill" THEN now ELSE daily
  /\ served' = (served \/ (run[r].cron /\ DailyComplete(r)))
  /\ Goto(r, "release")
  /\ UNCHANGED <<now, started, lease, tables, anchor, trouble>>

FinishLost(r) ==
  /\ run[r].pc = "finish"
  /\ Goto(r, "release")
  /\ UNCHANGED <<now, started, lease, success, tables, history>>

(* A statement before the properties throws. *)
Throw(r) ==
  /\ run[r].pc \in {"sync", "rows"}
  /\ Goto(r, "release")
  /\ UNCHANGED <<now, started, lease, success, tables, history>>

(* Mutant of ReleaseLease: the lease of another owner is released. *)
ReleaseAnyLease(r) ==
  /\ run[r].pc = "release"
  /\ lease' = NoLease
  /\ End(r)
  /\ UNCHANGED <<now, started, success, tables, history>>

ReleaseLease(r) ==
  /\ run[r].pc = "release"
  /\ lease' = IF lease.owner = r THEN NoLease ELSE lease
  /\ End(r)
  /\ UNCHANGED <<now, started, success, tables, history>>

(* The isolate dies, or the release fails: the lease waits to expire. *)
Die(r) ==
  /\ run[r].pc # "idle"
  /\ lease' = IF lease.owner = r THEN [lease EXCEPT !.owner = Gone] ELSE lease
  /\ End(r)
  /\ UNCHANGED <<now, started, success, tables, history>>

LeaseExpires ==
  /\ lease.owner # None /\ ~lease.expired
  /\ lease' = [lease EXCEPT !.expired = TRUE]
  /\ run' = [r \in Slots |-> IF r = lease.owner
               THEN [run[r] EXCEPT !.outlived = TRUE] ELSE run[r]]
  /\ UNCHANGED <<now, started, success, tables, history>>

(* The next cron is due.  A collection may outlive its lease, but not the  *)
(* time between two crons, which is longer than the platform lets it run.  *)
Tick ==
  /\ now < MaxTick
  /\ \A r \in Slots : run[r].pc = "idle"
  /\ now' = now + 1
  /\ started' = NoStart
  /\ lease' = [lease EXCEPT !.expired = lease.owner # None]
  /\ served' = FALSE
  /\ trouble' = IF served THEN trouble ELSE trouble \cup {"missed"}
  /\ UNCHANGED <<success, tables, run, anchor, daily>>

StartNext(r) ==
  \/ CronRead(r)
  \/ NotDue(r)
  \/ CronDecide(r)
  \/ \E scope \in Scopes : ManualStart(r, scope)
  \/ AcquireLease(r)
  \/ LeaseHeld(r)
  \/ ReadSync(r)
  \/ ReadProperties(r)

PropertyNext(r) ==
  \/ Register(r)
  \/ RegisterFails(r)
  \/ Defer(r)
  \/ WriteTotals(r)
  \/ WriteDetails(r)
  \/ WindowFails(r)
  \/ MarkSuccess(r)
  \/ MarkLost(r)
  \/ NothingCollected(r)

EndNext(r) ==
  \/ FinishSync(r)
  \/ FinishLost(r)
  \/ Throw(r)
  \/ ReleaseLease(r)
  \/ Die(r)

Next ==
  \/ \E r \in Slots : StartNext(r) \/ PropertyNext(r) \/ EndNext(r)
  \/ LeaseExpires
  \/ Tick

Spec == Init /\ [][Next]_vars

-----------------------------------------------------------------------------
(* "one atomic lease per run, so an hourly cron and a manual trigger can   *)
(* never collect at the same time": a collection keeps the lease to its    *)
(* end, whoever else is late to release one, unless it outlives it; so two *)
(* collections overlap only while one of them has outlived its lease.      *)
LeaseExcludes ==
  \A r \in Slots : Inside(r) /\ ~run[r].outlived
    => lease = [owner |-> r, expired |-> FALSE]

Lease == INSTANCE Leases WITH
  Resources <- {"collection"},
  Users <- Slots,
  valid <- IF Free THEN {} ELSE {"collection"},
  work <- [x \in {"collection"} |-> {r \in Slots : Inside(r)}],
  late <- [x \in {"collection"} |-> {r \in Slots : Inside(r) /\ run[r].outlived}]

(* The row of gsc_sync_state is the lease of all collections, of crons and *)
(* administrators: it changes hands only when it is free or expired, and a *)
(* collection that dies or ends late changes nobody else's.                *)
ImplementsLeases == Lease!LeaseSpec

(* The historical backfill skips no day: what lies behind the cursor of a  *)
(* property, or everything down to Google's retention floor once it is     *)
(* complete, is stored in all tables, whatever collections failed, were    *)
(* deferred or died meanwhile, as long as no two have overlapped (after    *)
(* that a cursor read before the other's may be written after it).         *)
BackfillLeavesNoGap ==
  \A p \in Properties : \A d \in Days :
    /\ "overlap" \notin trouble
    /\ anchor[p] # None
    /\ Floor <= d /\ d <= anchor[p]
    /\ rows[p].complete \/ (rows[p].cursor # None /\ d > rows[p].cursor)
    => d \in totals[p] \cap details[p]

TwoDays == 2 * TicksPerDay

(* "a daily pass that reconciles the last RECONCILE_DAYS reportable days": *)
(* with every cron served, every property listed by Google and no manual   *)
(* collection, no two days go by without a daily pass, although the hourly *)
(* backfill moves the same clock.                                          *)
DailyPassWhenSmooth == trouble = {} => now - daily <= TwoDays

(* The same, when Google does not list a property: it "is recorded without *)
(* re-spending the whole property budget every hour", and the daily pass   *)
(* of the other properties goes on.                                        *)
DailyPassHappens == trouble \subseteq {"unlisted"} => now - daily <= TwoDays
=============================================================================
