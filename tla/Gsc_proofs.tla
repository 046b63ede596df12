------------------------------ MODULE Gsc_proofs ------------------------------
(***************************************************************************)
(* Proofs about GscCollector for every number of properties and of         *)
(* collections in flight, and for all windows, intervals and limits.       *)
(***************************************************************************)
EXTENDS GscCollector, SequenceTheorems, TLAPS

(* No two collections have been under way at once.                         *)
Apart == "overlap" \notin trouble

Covers(windows, d) == \E i \in 1 .. Len(windows) : d \in DaysOf(windows[i])

Stored(p, d) == d \in totals[p] /\ d \in details[p]

Plan(r) == Planned(run[r].scope, run[r].rows[run[r].at])

-----------------------------------------------------------------------------
(* What a collection has planned for a property and no longer has to do is *)
(* stored, the totals of the window at hand included.                      *)
WindowsOK(r) ==
  /\ run[r].pc \in {"window", "details"} => run[r].left # <<>>
  /\ run[r].pc = "details" =>
       \A d \in DaysOf(Head(run[r].left)) : d \in totals[run[r].at]
  /\ run[r].pc \in {"window", "details", "mark"} =>
       \A d \in Days : Covers(Plan(r), d) =>
         Covers(run[r].left, d) \/ Stored(run[r].at, d)

Reading == {"property", "window", "details", "mark"}

(* What it has read of the properties it has not finished is current.      *)
ReadOK(r) ==
  run[r].pc \in Reading =>
    /\ \A p \in Properties :
         run[r].rows[p].cursor # None => run[r].rows[p].cursor <= Newest
    /\ Apart => \A p \in Properties : p >= run[r].at =>
         /\ run[r].rows[p].cursor = rows[p].cursor
         /\ run[r].rows[p].complete = rows[p].complete

OneInside == Apart => \A r, q \in Slots : Inside(r) /\ Inside(q) => r = q

CursorsOK == \A p \in Properties : rows[p].cursor # None => rows[p].cursor <= Newest

(* The inductive invariant.                                                *)
Inv ==
  /\ TypeOK
  /\ \A r \in Slots : WindowsOK(r) /\ ReadOK(r)
  /\ OneInside
  /\ CursorsOK
  /\ BackfillLeavesNoGap
  /\ LeaseExcludes

-----------------------------------------------------------------------------
(* The days.                                                               *)
LEMMA DivMonotone ==
  ASSUME NEW a \in Nat, NEW b \in Nat, NEW n \in Nat \ {0}, a <= b
  PROVE  a \div n \in Nat /\ a \div n <= b \div n
<1> DEFINE q == a \div n
           s == b \div n
<1>1. q \in Nat /\ s \in Nat
  OBVIOUS
<1>2. n * q <= a /\ b < n * s + n
  OBVIOUS
<1> HIDE DEF q, s
<1>3. ~(s < q)
  <2>1. s < q => s + 1 <= q
    BY <1>1
  <2>2. s + 1 <= q => n * (s + 1) <= n * q
    BY <1>1
  <2>3. n * (s + 1) = n * s + n
    BY <1>1
  <2> DEFINE x == n * q
             y == n * s
             z == n * (s + 1)
  <2>4. x \in Nat /\ y \in Nat /\ z \in Nat
    BY <1>1
  <2>5. x <= a /\ b < y + n /\ z = y + n /\ (s < q => z <= x)
    BY <1>2, <2>1, <2>2, <2>3
  <2> HIDE DEF x, y, z
  <2>6. QED
    BY <1>1, <2>4, <2>5
<1>4. QED
  BY <1>1, <1>3 DEF q, s

Constants ==
  /\ PropertyCount \in Nat \ {0} /\ TicksPerDay \in Nat \ {0}
  /\ ReconcileDays \in Nat \ {0} /\ ChunkDays \in Nat \ {0}
  /\ ReportLag \in Nat /\ RetentionDays \in Nat /\ MaxTick \in Nat /\ MaxManual \in Nat
  /\ ReportLag + ReconcileDays <= RetentionDays

LEMMA ConstantTypes == Constants
BY GscAssumption DEF Constants

LEMMA DayTypes ==
  ASSUME now \in 0 .. MaxTick
  PROVE  /\ Today \in Nat /\ Newest \in Days /\ Floor \in Days /\ Days \subseteq Int
         /\ Floor <= Newest - ReconcileDays /\ Newest \in Int /\ Floor \in Int
<1> DEFINE last == MaxTick \div TicksPerDay
<1>1. Today \in Nat /\ Today <= last /\ last \in Nat
  BY DivMonotone, ConstantTypes DEF Today, Constants
<1>2. Days = -RetentionDays .. last
  BY DEF Days
<1> HIDE DEF last
<1>3. QED
  BY <1>1, <1>2, ConstantTypes DEF Newest, Floor, Constants

LEMMA ShortSequences ==
  ASSUME NEW S, NEW a \in S, NEW b \in S
  PROVE  <<>> \in Seq(S) /\ <<a>> \in Seq(S) /\ <<a, b>> \in Seq(S)
OBVIOUS

(* The windows planned for a property are windows, and with them is the    *)
(* whole chunk between the next cursor and this one.                       *)
LEMMA PlanTypes ==
  ASSUME now \in 0 .. MaxTick, NEW scope \in Scopes, NEW row \in Row,
         row.cursor # None => row.cursor <= Newest
  PROVE  /\ Planned(scope, row) \in Seq(Window)
         /\ Backfill(scope, row).next \in Days \cup {-RetentionDays - 1, None}
         /\ Backfill(scope, row).next # None => Backfill(scope, row).next <= Newest
         /\ Backfill(scope, row).complete \in BOOLEAN
         /\ BackfillStart(row.cursor) \in Int
         /\ BackfillStart(None) \in Days
         /\ Backfill(scope, row).windows # <<>> =>
              /\ scope # "daily" /\ BackfillStart(row.cursor) >= Floor
              /\ BackfillStart(row.cursor) \in Days
              /\ \A d \in Days :
                   Backfill(scope, row).next < d /\ d <= BackfillStart(row.cursor)
                     => Covers(Planned(scope, row), d)
<1> DEFINE start == BackfillStart(row.cursor)
           from == ChunkFrom(start)
           chunk == [from |-> from, to |-> start]
           recent == ReconcileWindow
           merged == [from |-> from, to |-> Newest]
<1>1. row.cursor \in Days \cup {-RetentionDays - 1, None} /\ row.complete \in BOOLEAN
      /\ None \notin Int
  BY GscAssumption DEF Row
<1>2. /\ start \in Int /\ start <= Newest
      /\ BackfillStart(None) \in Days /\ BackfillStart(None) >= Floor
      /\ Newest - ReconcileDays <= Newest
  BY <1>1, DayTypes, ConstantTypes DEF BackfillStart, Constants, Days
<1>3. start >= Floor => /\ start \in Days /\ from \in Days /\ from \in Int
                        /\ Floor <= from /\ from <= start
                        /\ from - 1 \in Days \cup {-RetentionDays - 1}
  BY <1>2, DayTypes, ConstantTypes DEF ChunkFrom, Later, Constants, Days
<1>4. recent \in Window /\ recent.to = Newest /\ recent.from \in Int
  BY DayTypes, ConstantTypes DEF ReconcileWindow, Later, Constants, Days, Window
<1>5. start >= Floor => chunk \in Window /\ merged \in Window
  BY <1>3, DayTypes DEF Window
<1> DEFINE none == [windows |-> <<>>, next |-> None, complete |-> row.complete]
           over == [windows |-> <<>>, next |-> None, complete |-> TRUE]
           last == from - 1 < Floor
           more == [windows |-> <<chunk>>, next |-> from - 1, complete |-> last]
<1>6. CASE scope = "daily" \/ start < Floor
  <2>1. Backfill(scope, row) = IF scope = "daily" THEN none ELSE over
    BY <1>6 DEF Backfill, BackfillWindow
  <2> DEFINE yes == TRUE
             done == row.complete
             all == IF scope = "daily" THEN done ELSE yes
  <2>2. done \in BOOLEAN /\ yes \in BOOLEAN
    BY <1>1
  <2>3. Backfill(scope, row) = [windows |-> <<>>, next |-> None, complete |-> all]
    BY <2>1
  <2> HIDE DEF yes, done
  <2>4. all \in BOOLEAN
    BY <2>2
  <2> HIDE DEF all
  <2>5. /\ Backfill(scope, row).windows = <<>> /\ Backfill(scope, row).next = None
        /\ Backfill(scope, row).complete \in BOOLEAN
    BY <2>3, <2>4
  <2>6. Planned(scope, row) = <<>> \/ Planned(scope, row) = <<recent>>
    BY <2>5 DEF Planned
  <2>7. Planned(scope, row) \in Seq(Window)
    BY <1>4, <2>6, ShortSequences
  <2>8. QED
    BY <1>2, <2>5, <2>7
<1>7. CASE scope # "daily" /\ start >= Floor
  <2>1. Backfill(scope, row) = more
    BY <1>2, <1>7, DayTypes DEF Backfill, BackfillWindow
  <2>2. last \in BOOLEAN
    OBVIOUS
  <2> HIDE DEF last
  <2>3. /\ Backfill(scope, row).windows = <<chunk>> /\ Backfill(scope, row).next = from - 1
        /\ Backfill(scope, row).complete \in BOOLEAN
    BY <2>1, <2>2
  <2>4. from - 1 <= Newest
    BY <1>2, <1>3, <1>7, DayTypes
  <2>5. chunk \in Window /\ merged \in Window /\ chunk.from = from /\ chunk.to = start
        /\ merged.from = from /\ merged.to = Newest
    BY <1>5, <1>7
  <2> DEFINE plan == Planned(scope, row)
  <2>6. plan = <<chunk>> \/ plan = <<merged>> \/ plan = <<chunk, recent>>
    <3>1. <<chunk>> # <<>> /\ <<chunk>>[1] = chunk
      OBVIOUS
    <3>2. QED
      BY <2>3, <3>1 DEF Planned
  <2> HIDE DEF chunk, merged, recent, plan
  <2>7. plan \in Seq(Window)
    BY <1>4, <2>5, <2>6, ShortSequences
  <2>8. Len(plan) >= 1 /\ (plan[1] = chunk \/ plan[1] = merged)
    BY <2>6
  <2>9. ASSUME NEW d \in Days, from - 1 < d, d <= start
        PROVE  Covers(plan, d)
    <3>1. d \in Int /\ d \in from .. start /\ d \in from .. Newest
      BY <1>2, <1>3, <1>7, <2>9, DayTypes
    <3>2. d \in DaysOf(plan[1])
      BY <2>5, <2>8, <3>1 DEF DaysOf
    <3>3. 1 \in 1 .. Len(plan)
      BY <2>7, <2>8
    <3>4. QED
      BY <3>2, <3>3 DEF Covers
  <2>10. QED
    BY <1>2, <1>3, <1>7, <2>3, <2>4, <2>7, <2>9 DEF plan
<1>8. QED
  BY <1>2, <1>6, <1>7, DayTypes

-----------------------------------------------------------------------------
(* A collection in flight.                                                 *)
Stages ==
  {"idle", "decide", "acquire", "sync", "rows", "property", "window",
   "details", "mark", "finish", "release"}

(* The stages at which a collection promises nothing about a property.     *)
Quiet == Stages \ Reading

LEMMA IdleType ==
  Idle \in Run /\ Idle.pc = "idle" /\ Idle.outlived = FALSE
<1>1. NoRows \in [Properties -> Row]
  BY DEF NoRows, Row
<1>2. 1 \in Properties /\ None \in 0 .. MaxTick \cup {None} /\ <<>> \in Seq(Window)
  BY ConstantTypes, ShortSequences DEF Properties, Constants
<1> DEFINE no == FALSE
<1>3. no \in BOOLEAN
  OBVIOUS
<1>4. Idle =
  [pc |-> "idle", cron |-> no, due |-> no, scope |-> "full",
   prior |-> None, rows |-> NoRows, listed |-> {}, discovered |-> no,
   at |-> 1, left |-> <<>>, collected |-> 0, succeeded |-> no,
   failed |-> no, deferred |-> no, outlived |-> no]
  BY DEF Idle
<1> HIDE DEF no
<1>5. Idle \in Run /\ Idle.pc = "idle" /\ Idle.outlived = no
  BY <1>1, <1>2, <1>3, <1>4 DEF Run, Scopes
<1>6. QED
  BY <1>5 DEF no

LEMMA Moved ==
  ASSUME TypeOK, NEW r \in Slots, NEW new \in Run, run' = [run EXCEPT ![r] = new]
  PROVE  /\ run' \in [Slots -> Run] /\ run'[r] = new
         /\ \A q \in Slots \ {r} : run'[q] = run[q]
BY DEF TypeOK

LEMMA OnwardType ==
  ASSUME NEW r, NEW s \in Run
  PROVE  /\ Onward(r, s) \in Run
         /\ Onward(r, s).pc = "finish" \/
              /\ Onward(r, s).pc = "property" /\ Onward(r, s).at = s.at + 1
         /\ Onward(r, s).rows = s.rows /\ Onward(r, s).outlived = s.outlived
<1> DEFINE none == <<>>
           zero == 0
           at == s.at + 1
           last == [s EXCEPT !.pc = "finish", !.left = none, !.collected = zero]
           next == [s EXCEPT !.pc = "property", !.left = none, !.collected = zero,
                             !.at = at]
<1>1. none \in Seq(Window) /\ zero \in Nat
  BY ShortSequences
<1>2. s.at # PropertyCount => at \in Properties
  BY ConstantTypes DEF Run, Properties, Constants
<1>3. Onward(r, s) = IF s.at = PropertyCount THEN last ELSE next
  BY DEF Onward
<1> HIDE DEF none, zero, at
<1>4. last \in Run
  BY <1>1 DEF Run
<1>5. last.pc = "finish" /\ last.rows = s.rows /\ last.outlived = s.outlived
  BY DEF Run
<1>6. s.at # PropertyCount => next \in Run
  BY <1>1, <1>2 DEF Run
<1>7. /\ next.pc = "property" /\ next.rows = s.rows /\ next.outlived = s.outlived
      /\ next.at = at
  BY DEF Run
<1> HIDE DEF last, next
<1>8. QED
  BY <1>3, <1>4, <1>5, <1>6, <1>7 DEF at

RowsKept ==
  /\ rows' \in [Properties -> Row]
  /\ \A p \in Properties : /\ rows'[p].cursor = rows[p].cursor
                           /\ rows'[p].complete = rows[p].complete

DaysGrow ==
  /\ totals' \in [Properties -> SUBSET Days] /\ details' \in [Properties -> SUBSET Days]
  /\ \A p \in Properties : totals[p] \subseteq totals'[p] /\ details[p] \subseteq details'[p]

LEMMA PlanKept ==
  ASSUME NEW r, UNCHANGED now, run'[r].scope = run[r].scope, run'[r].rows = run[r].rows,
         run'[r].at = run[r].at
  PROVE  Plan(r)' = Plan(r)
<1>1. Newest' = Newest /\ Floor' = Floor
  BY DEF Newest, Floor, Today
<1>2. QED
  BY <1>1 DEF Plan, Planned, Backfill, BackfillWindow, BackfillStart, ChunkFrom,
              ReconcileWindow

(* A step of a collection that moves no cursor and takes no lease.         *)
LEMMA GrowStep ==
  ASSUME Inv, NEW r \in Slots, NEW new \in Run, run' = [run EXCEPT ![r] = new],
         UNCHANGED <<now, anchor, lease>>, RowsKept, DaysGrow,
         Apart' => Apart, trouble' \subseteq {"missed", "unlisted", "manual", "overlap"},
         started' \in [cron : BOOLEAN, manual : 0 .. MaxManual],
         success' \in 0 .. MaxTick \cup {None}, daily' \in 0 .. MaxTick,
         served' \in BOOLEAN,
         new.pc \notin {"idle", "decide", "acquire"} =>
           Inside(r) /\ new.outlived = run[r].outlived,
         WindowsOK(r)', ReadOK(r)'
  PROVE  Inv'
<1> USE DEF Inv
<1>1. run' \in [Slots -> Run] /\ run'[r] = new /\ \A q \in Slots \ {r} : run'[q] = run[q]
  BY Moved
<1>2. TypeOK'
  BY <1>1 DEF TypeOK, RowsKept, DaysGrow
<1>3. Newest' = Newest /\ Floor' = Floor
  BY DEF Newest, Floor, Today
<1>4. ASSUME NEW q \in Slots \ {r} PROVE WindowsOK(q)' /\ ReadOK(q)'
  <2>1. run'[q] = run[q] /\ WindowsOK(q) /\ ReadOK(q)
    BY <1>1, <1>4
  <2>2. Plan(q)' = Plan(q)
    BY <2>1, PlanKept
  <2>3. WindowsOK(q)'
    <3>1. run[q].at \in Properties
      BY <1>4 DEF TypeOK, Run
    <3>2. \A d : d \in totals[run[q].at] => d \in totals'[run[q].at]
      BY <3>1 DEF DaysGrow
    <3>3. \A d : Stored(run[q].at, d) => d \in totals'[run[q].at] /\ d \in details'[run[q].at]
      BY <3>1 DEF DaysGrow, Stored
    <3>4. run'[q].at = run[q].at /\ run'[q].left = run[q].left /\ run'[q].pc = run[q].pc
      BY <2>1
    <3>5. QED
      BY <2>1, <2>2, <3>2, <3>3, <3>4 DEF WindowsOK, Stored
  <2>4. ReadOK(q)'
    BY <1>3, <2>1 DEF ReadOK, RowsKept
  <2>5. QED
    BY <2>3, <2>4
<1>5. \A q \in Slots : Inside(q)' => Inside(q) /\ run'[q].outlived = run[q].outlived
  BY <1>1 DEF Inside
<1>6. OneInside'
  BY <1>5 DEF OneInside
<1>7. LeaseExcludes'
  BY <1>5 DEF LeaseExcludes
<1>8. CursorsOK'
  BY <1>3 DEF CursorsOK, RowsKept
<1>9. BackfillLeavesNoGap'
  BY <1>3 DEF BackfillLeavesNoGap, Apart, RowsKept, DaysGrow
<1>10. QED
  BY <1>2, <1>4, <1>6, <1>7, <1>8, <1>9

LEMMA RunStep ==
  ASSUME Inv, NEW r \in Slots, NEW new \in Run, run' = [run EXCEPT ![r] = new],
         UNCHANGED <<now, tables, anchor, lease>>,
         Apart' => Apart, trouble' \subseteq {"missed", "unlisted", "manual", "overlap"},
         started' \in [cron : BOOLEAN, manual : 0 .. MaxManual],
         success' \in 0 .. MaxTick \cup {None}, daily' \in 0 .. MaxTick,
         served' \in BOOLEAN,
         new.pc \notin {"idle", "decide", "acquire"} =>
           Inside(r) /\ new.outlived = run[r].outlived,
         WindowsOK(r)', ReadOK(r)'
  PROVE  Inv'
<1>1. RowsKept /\ DaysGrow
  BY DEF Inv, TypeOK, tables, RowsKept, DaysGrow
<1>2. QED
  BY <1>1, GrowStep DEF tables

LEMMA QuietStep ==
  ASSUME Inv, NEW r \in Slots, NEW new \in Run, run' = [run EXCEPT ![r] = new],
         UNCHANGED <<now, tables, anchor, lease>>,
         Apart' => Apart, trouble' \subseteq {"missed", "unlisted", "manual", "overlap"},
         started' \in [cron : BOOLEAN, manual : 0 .. MaxManual],
         success' \in 0 .. MaxTick \cup {None}, daily' \in 0 .. MaxTick,
         served' \in BOOLEAN,
         new.pc \notin {"idle", "decide", "acquire"} =>
           Inside(r) /\ new.outlived = run[r].outlived,
         new.pc \in Quiet
  PROVE  Inv'
<1>1. run'[r] = new
  BY Moved DEF Inv
<1>2. WindowsOK(r)' /\ ReadOK(r)'
  BY <1>1 DEF WindowsOK, ReadOK, Quiet, Reading
<1>3. QED
  BY <1>2, RunStep

(* A collection goes on to its next property.                              *)
LEMMA OnwardReads ==
  ASSUME Inv, NEW r \in Slots, NEW s \in Run, s.rows = run[r].rows, s.at = run[r].at,
         run' = [run EXCEPT ![r] = Onward(r, s)], Apart' => Apart,
         run[r].pc \in Reading, UNCHANGED now,
         \A p \in Properties : p > run[r].at =>
           rows'[p].cursor = rows[p].cursor /\ rows'[p].complete = rows[p].complete
  PROVE  WindowsOK(r)' /\ ReadOK(r)'
<1>1. run'[r] = Onward(r, s) /\ Onward(r, s) \in Run
  BY Moved, OnwardType DEF Inv
<1>2. WindowsOK(r)'
  BY <1>1, OnwardType DEF WindowsOK
<1>3. run[r].at \in Nat /\ Properties \subseteq Nat
  BY ConstantTypes DEF Inv, TypeOK, Run, Properties, Constants
<1>4. ReadOK(r)'
  <2> DEFINE new == Onward(r, s)
  <2>1. /\ new.rows = run[r].rows
        /\ new.pc = "finish" \/ (new.pc = "property" /\ new.at = run[r].at + 1)
    BY OnwardType
  <2> HIDE DEF new
  <2>2. run'[r] = new /\ ReadOK(r) /\ Newest' = Newest
    BY <1>1 DEF new, Inv, Newest, Today
  <2>3. \A p \in Properties : p >= run[r].at + 1 => p > run[r].at /\ p >= run[r].at
    BY <1>3
  <2>4. QED
    BY <2>1, <2>2, <2>3 DEF ReadOK, Reading
<1>5. QED
  BY <1>2, <1>4

LEMMA OnwardStep ==
  ASSUME Inv, NEW r \in Slots, NEW s \in Run, s.rows = run[r].rows, s.at = run[r].at,
         s.outlived = run[r].outlived, run' = [run EXCEPT ![r] = Onward(r, s)],
         run[r].pc \in Reading,
         UNCHANGED <<now, tables, anchor, lease, started, success, daily, served>>,
         trouble' \in {trouble, trouble \cup {"missed"}}
  PROVE  Inv'
<1>1. Apart' => Apart
  BY DEF Apart
<1>2. /\ trouble' \subseteq {"missed", "unlisted", "manual", "overlap"}
      /\ started' \in [cron : BOOLEAN, manual : 0 .. MaxManual]
      /\ success' \in 0 .. MaxTick \cup {None} /\ daily' \in 0 .. MaxTick
      /\ served' \in BOOLEAN
  BY DEF Inv, TypeOK
<1>3. Inside(r)
  BY DEF Inside, Reading
<1>4. WindowsOK(r)' /\ ReadOK(r)'
  BY <1>1, OnwardReads DEF tables
<1> DEFINE new == Onward(r, s)
<1>5. new \in Run /\ new.outlived = run[r].outlived
  BY OnwardType
<1> HIDE DEF new
<1>6. QED
  BY <1>1, <1>2, <1>3, <1>4, <1>5, RunStep DEF new

-----------------------------------------------------------------------------
(* The steps at whose end a collection promises nothing.                   *)
LEMMA HistoryTypes ==
  ASSUME Inv
  PROVE  /\ trouble \subseteq {"missed", "unlisted", "manual", "overlap"}
         /\ started \in [cron : BOOLEAN, manual : 0 .. MaxManual]
         /\ success \in 0 .. MaxTick \cup {None} /\ daily \in 0 .. MaxTick
         /\ served \in BOOLEAN /\ now \in 0 .. MaxTick
         /\ \A r \in Slots : run[r] \in Run
BY DEF Inv, TypeOK

LEMMA CronReadStep ==
  ASSUME Inv, NEW r \in Slots, CronRead(r)
  PROVE  Inv'
<1> DEFINE p == run[r]
           due == DailyDue
           yes == TRUE
           new == [p EXCEPT !.pc = "decide", !.cron = yes, !.due = due]
           old == started
           start == [old EXCEPT !.cron = yes]
<1>1. run' = [run EXCEPT ![r] = new] /\ p \in Run /\ started' = start
      /\ old \in [cron : BOOLEAN, manual : 0 .. MaxManual]
  BY HistoryTypes DEF CronRead, Inv, TypeOK
<1>2. due \in BOOLEAN /\ yes \in BOOLEAN
  BY DEF DailyDue
<1> HIDE DEF p, due, yes, old
<1>3. new \in Run /\ new.pc = "decide"
  BY <1>1, <1>2 DEF Run
<1>4. start \in [cron : BOOLEAN, manual : 0 .. MaxManual]
  BY <1>1, <1>2
<1> HIDE DEF new, start
<1>5. QED
  BY <1>1, <1>3, <1>4, HistoryTypes, QuietStep DEF CronRead, history, Apart, Quiet, Stages, Reading

LEMMA CronDecideStep ==
  ASSUME Inv, NEW r \in Slots, CronDecide(r)
  PROVE  Inv'
<1> DEFINE p == run[r]
           no == FALSE
           scope == IF ~p.due THEN "backfill" ELSE IF BackfillPending THEN "full" ELSE "daily"
           new == [p EXCEPT !.pc = "acquire", !.due = no, !.scope = scope]
<1>1. run' = [run EXCEPT ![r] = new] /\ p \in Run
  BY HistoryTypes DEF CronDecide, Inv, TypeOK
<1>2. no \in BOOLEAN /\ scope \in Scopes
  BY DEF Scopes
<1> HIDE DEF p, no, scope
<1>3. new \in Run /\ new.pc = "acquire"
  BY <1>1, <1>2 DEF Run
<1> HIDE DEF new
<1>4. QED
  BY <1>1, <1>3, HistoryTypes, QuietStep DEF CronDecide, history, Apart, Quiet, Stages, Reading

LEMMA ManualStartStep ==
  ASSUME Inv, NEW r \in Slots, NEW scope \in Scopes, ManualStart(r, scope)
  PROVE  Inv'
<1> DEFINE p == run[r]
           new == [p EXCEPT !.pc = "acquire", !.scope = scope]
           old == started
           count == old.manual + 1
           start == [old EXCEPT !.manual = count]
<1>1. run' = [run EXCEPT ![r] = new] /\ p \in Run /\ started' = start
      /\ old \in [cron : BOOLEAN, manual : 0 .. MaxManual]
  BY HistoryTypes DEF ManualStart, Inv, TypeOK
<1>2. count \in 0 .. MaxManual
  BY <1>1, ConstantTypes DEF ManualStart, Constants
<1> HIDE DEF p, old, count
<1>3. new \in Run /\ new.pc = "acquire"
  BY <1>1 DEF Run
<1>4. start \in [cron : BOOLEAN, manual : 0 .. MaxManual]
  BY <1>1, <1>2
<1> HIDE DEF new, start
<1>5. trouble' = trouble \cup {"manual"}
  BY DEF ManualStart
<1>6. QED
  BY <1>1, <1>3, <1>4, <1>5, HistoryTypes, QuietStep
  DEF ManualStart, Apart, Quiet, Stages, Reading

(* A collection that is over or skipped. *)
LEMMA IdleStep ==
  ASSUME Inv, NEW r \in Slots, NotDue(r) \/ LeaseHeld(r)
  PROVE  Inv'
<1>1. run' = [run EXCEPT ![r] = Idle]
  BY DEF NotDue, LeaseHeld, End
<1>2. served' \in BOOLEAN
  BY HistoryTypes DEF NotDue, LeaseHeld, history
<1>3. UNCHANGED <<now, tables, anchor, lease, started, success, daily, trouble>>
  BY DEF NotDue, LeaseHeld, history
<1>4. QED
  BY <1>1, <1>2, <1>3, IdleType, HistoryTypes, QuietStep DEF Apart, Quiet, Stages, Reading

LEMMA ReadSyncStep ==
  ASSUME Inv, NEW r \in Slots, ReadSync(r)
  PROVE  Inv'
<1> DEFINE p == run[r]
           new == [p EXCEPT !.pc = "rows", !.prior = success]
<1>1. run' = [run EXCEPT ![r] = new] /\ p \in Run /\ success \in 0 .. MaxTick \cup {None}
  BY HistoryTypes DEF ReadSync, Inv, TypeOK
<1> HIDE DEF p
<1>2. new \in Run
  BY <1>1 DEF Run
<1>3. new.pc = "rows" /\ new.outlived = p.outlived
  BY <1>1 DEF Run
<1> HIDE DEF new
<1>4. Inside(r)
  BY DEF Inside, ReadSync
<1>5. QED
  BY <1>1, <1>2, <1>3, <1>4, HistoryTypes, QuietStep
  DEF ReadSync, history, Apart, Quiet, Stages, Reading, p

(* A jump inside a collection. *)
LEMMA GotoQuiet ==
  ASSUME Inv, NEW r \in Slots, NEW pc \in Quiet, Goto(r, pc), Inside(r),
         UNCHANGED <<now, tables, anchor, lease, started, trouble>>,
         success' \in 0 .. MaxTick \cup {None}, daily' \in 0 .. MaxTick, served' \in BOOLEAN
  PROVE  Inv'
<1> DEFINE p == run[r]
           new == [p EXCEPT !.pc = pc]
<1>1. run' = [run EXCEPT ![r] = new] /\ p \in Run
  BY HistoryTypes DEF Goto, Inv, TypeOK
<1> HIDE DEF p
<1>2. new \in Run
  BY <1>1 DEF Run, Quiet, Stages
<1>3. new.pc = pc /\ new.outlived = p.outlived
  BY <1>1 DEF Run
<1> HIDE DEF new
<1>4. QED
  BY <1>1, <1>2, <1>3, HistoryTypes, QuietStep DEF Apart, p

LEMMA FinishSteps ==
  ASSUME Inv, NEW r \in Slots, FinishSync(r) \/ FinishLost(r) \/ Throw(r)
  PROVE  Inv'
<1>1. Inside(r) /\ Goto(r, "release") /\ "release" \in Quiet
      /\ UNCHANGED <<now, tables, anchor, lease, started, trouble>>
  BY DEF FinishSync, FinishLost, Throw, Inside, Quiet, Stages, Reading, history
<1>2. run[r] \in Run /\ run[r].prior \in 0 .. MaxTick \cup {None}
  BY HistoryTypes DEF Run
<1>3. success' \in 0 .. MaxTick \cup {None} /\ daily' \in 0 .. MaxTick /\ served' \in BOOLEAN
  <2>1. CASE FinishSync(r)
    <3>1. success' \in {now, run[r].prior} /\ daily' \in {now, daily}
      BY <2>1 DEF FinishSync
    <3>2. served' \in BOOLEAN
      BY <2>1 DEF FinishSync
    <3>3. QED
      BY <1>2, <3>1, <3>2, HistoryTypes
  <2>2. CASE FinishLost(r) \/ Throw(r)
    BY <2>2, HistoryTypes DEF FinishLost, Throw, history
  <2>3. QED
    BY <2>1, <2>2
<1>4. QED
  BY <1>1, <1>3, GotoQuiet

-----------------------------------------------------------------------------
(* The properties of a collection, one after the other.                    *)
LEMMA ReadPropertiesStep ==
  ASSUME Inv, NEW r \in Slots, ReadProperties(r)
  PROVE  Inv'
<1>1. PICK listed \in SUBSET Properties, discovered \in BOOLEAN :
        /\ run' = [run EXCEPT ![r].pc = "property", ![r].rows = rows,
                     ![r].listed = listed, ![r].discovered = discovered]
        /\ trouble' = IF discovered /\ listed # Properties
                      THEN trouble \cup {"unlisted"} ELSE trouble
  BY DEF ReadProperties
<1> DEFINE p == run[r]
           new == [p EXCEPT !.pc = "property", !.rows = rows,
                            !.listed = listed, !.discovered = discovered]
<1>2. run' = [run EXCEPT ![r] = new] /\ p \in Run /\ rows \in [Properties -> Row]
  BY <1>1, HistoryTypes DEF Inv, TypeOK
<1> HIDE DEF p
<1>3. new \in Run
  BY <1>2 DEF Run
<1>4. new.pc = "property" /\ new.outlived = p.outlived /\ new.rows = rows
  BY <1>2 DEF Run
<1> HIDE DEF new
<1>5. run'[r] = new /\ rows' = rows
  BY <1>2, <1>3, Moved DEF Inv, ReadProperties, tables
<1>6. WindowsOK(r)' /\ ReadOK(r)'
  BY <1>4, <1>5 DEF WindowsOK, ReadOK, Inv, CursorsOK, Newest, Today, ReadProperties
<1>7. Inside(r) /\ (Apart' => Apart) /\ trouble' \subseteq {"missed", "unlisted", "manual", "overlap"}
  BY <1>1, HistoryTypes DEF Inside, ReadProperties, Apart
<1>8. QED
  BY <1>2, <1>3, <1>4, <1>6, <1>7, HistoryTypes, RunStep DEF ReadProperties, p

LEMMA FailSteps ==
  ASSUME Inv, NEW r \in Slots, RegisterFails(r) \/ WindowFails(r)
  PROVE  Inv'
<1> DEFINE p == run[r]
           yes == TRUE
           s == [p EXCEPT !.failed = yes]
<1>1. run' = [run EXCEPT ![r] = Onward(r, s)] /\ p \in Run
  BY HistoryTypes DEF RegisterFails, WindowFails
<1>2. yes \in BOOLEAN
  OBVIOUS
<1> HIDE DEF p, yes
<1>3. s \in Run
  BY <1>1, <1>2 DEF Run
<1>4. s.rows = p.rows /\ s.at = p.at /\ s.outlived = p.outlived
  BY <1>1 DEF Run
<1> HIDE DEF s
<1>5. QED
  BY <1>1, <1>3, <1>4, OnwardStep DEF RegisterFails, WindowFails, history, Reading, p

LEMMA MarkLostStep ==
  ASSUME Inv, NEW r \in Slots, MarkLost(r)
  PROVE  Inv'
<1> DEFINE p == run[r]
           yes == TRUE
           s == [p EXCEPT !.succeeded = yes]
<1>1. run' = [run EXCEPT ![r] = Onward(r, s)] /\ p \in Run
  BY HistoryTypes DEF MarkLost
<1>2. yes \in BOOLEAN
  OBVIOUS
<1> HIDE DEF p, yes
<1>3. s \in Run
  BY <1>1, <1>2 DEF Run
<1>4. s.rows = p.rows /\ s.at = p.at /\ s.outlived = p.outlived
  BY <1>1 DEF Run
<1> HIDE DEF s
<1>5. QED
  BY <1>1, <1>3, <1>4, OnwardStep DEF MarkLost, Reading, p

LEMMA NothingCollectedStep ==
  ASSUME Inv, NEW r \in Slots, NothingCollected(r)
  PROVE  Inv'
BY HistoryTypes, OnwardStep DEF NothingCollected, Reading, history

(* What a step that keeps the windows of a collection has to show.         *)
LEMMA DeferStep ==
  ASSUME Inv, NEW r \in Slots, Defer(r)
  PROVE  Inv'
<1> DEFINE p == run[r]
           yes == TRUE
           new == [p EXCEPT !.pc = "mark", !.deferred = yes]
<1>1. run' = [run EXCEPT ![r] = new] /\ p \in Run /\ p.pc = "window"
  BY HistoryTypes DEF Defer, Inv, TypeOK
<1>2. yes \in BOOLEAN
  OBVIOUS
<1> HIDE DEF p, yes
<1>3. new \in Run
  BY <1>1, <1>2 DEF Run
<1>4. /\ new.pc = "mark" /\ new.outlived = p.outlived /\ new.rows = p.rows
      /\ new.left = p.left /\ new.at = p.at /\ new.scope = p.scope
  BY <1>1 DEF Run
<1> HIDE DEF new
<1>5. run'[r] = new /\ UNCHANGED <<now, tables>>
  BY <1>1, <1>3, Moved DEF Inv, Defer
<1>6. Plan(r)' = Plan(r)
  BY <1>4, <1>5, PlanKept DEF p
<1>7. WindowsOK(r) /\ ReadOK(r)
  BY DEF Inv
<1>8. WindowsOK(r)'
  BY <1>1, <1>4, <1>5, <1>6, <1>7 DEF p, WindowsOK, Stored, tables
<1>9. Inside(r) /\ (Apart' => Apart)
  BY DEF Inside, Defer, Apart, history
<1>10. ReadOK(r)'
  BY <1>1, <1>4, <1>5, <1>7, <1>9 DEF p, ReadOK, tables, Reading, Newest, Today
<1>11. QED
  BY <1>1, <1>3, <1>4, <1>8, <1>9, <1>10, HistoryTypes, RunStep DEF Defer, history, p

(* The row is written, and the windows are planned.                        *)
LEMMA RegisterStep ==
  ASSUME Inv, NEW r \in Slots, Register(r)
  PROVE  Inv'
<1> DEFINE p == run[r]
           at == p.at
           plan == Planned(p.scope, p.rows[at])
           yes == TRUE
           s == [p EXCEPT !.succeeded = yes]
           ready == [p EXCEPT !.pc = "window", !.left = plan]
           row == rows[at]
           known == [row EXCEPT !.known = yes]
<1>1. /\ p \in Run /\ at \in Properties /\ p.pc = "property" /\ rows \in [Properties -> Row]
      /\ row \in Row /\ rows' = [rows EXCEPT ![at] = known] /\ p.scope \in Scopes
      /\ p.rows[at] \in Row
  BY HistoryTypes DEF Register, Inv, TypeOK, Run
<1>2. yes \in BOOLEAN
  OBVIOUS
<1>3. \/ run' = [run EXCEPT ![r] = Onward(r, p)]
      \/ run' = [run EXCEPT ![r] = Onward(r, s)]
      \/ plan # <<>> /\ run' = [run EXCEPT ![r] = ready]
  BY DEF Register
<1> HIDE DEF row, yes
<1>4. known \in Row /\ known.cursor = row.cursor /\ known.complete = row.complete
  BY <1>1, <1>2 DEF Row
<1> HIDE DEF known
<1>5. RowsKept /\ DaysGrow
  BY <1>1, <1>4 DEF Register, RowsKept, DaysGrow, Inv, TypeOK, row
<1>6. Inside(r) /\ (Apart' => Apart) /\ UNCHANGED <<now, totals, details>>
  BY DEF Register, Inside, Apart, history
<1>7. CASE \E t \in {p, s} : run' = [run EXCEPT ![r] = Onward(r, t)]
  <2>1. PICK t \in {p, s} : run' = [run EXCEPT ![r] = Onward(r, t)]
    BY <1>7
  <2> HIDE DEF p
  <2>2. s \in Run
    BY <1>1, <1>2 DEF Run
  <2>3. s.rows = p.rows /\ s.at = p.at /\ s.outlived = p.outlived
    BY <1>1 DEF Run
  <2> HIDE DEF s
  <2>4. t \in Run /\ t.rows = p.rows /\ t.at = p.at /\ t.outlived = p.outlived
    BY <1>1, <2>2, <2>3
  <2>5. WindowsOK(r)' /\ ReadOK(r)'
    BY <1>1, <1>5, <1>6, <2>1, <2>4, OnwardReads DEF p, RowsKept, Reading
  <2> DEFINE new == Onward(r, t)
  <2>6. new \in Run /\ new.outlived = run[r].outlived
    BY <2>4, OnwardType DEF p
  <2> HIDE DEF new
  <2>7. QED
    BY <1>5, <1>6, <2>1, <2>5, <2>6, HistoryTypes, GrowStep DEF new, Register, history
<1>8. CASE plan # <<>> /\ run' = [run EXCEPT ![r] = ready]
  <2>1. ReadOK(r) /\ now \in 0 .. MaxTick
    BY HistoryTypes DEF Inv
  <2>2. p.rows[at].cursor # None => p.rows[at].cursor <= Newest
    BY <1>1, <2>1 DEF ReadOK, Reading
  <2>3. plan \in Seq(Window)
    BY <1>1, <2>1, <2>2, PlanTypes
  <2> HIDE DEF p, at, plan
  <2>4. ready \in Run
    BY <1>1, <2>3 DEF Run
  <2>5. /\ ready.pc = "window" /\ ready.left = plan /\ ready.rows = p.rows /\ ready.at = at
        /\ ready.scope = p.scope /\ ready.outlived = p.outlived
    BY <1>1 DEF Run, at
  <2> HIDE DEF ready
  <2>6. run'[r] = ready /\ now' = now
    BY <1>6, <1>8, <2>4, Moved DEF Inv
  <2>7. Plan(r)' = plan
    BY <2>5, <2>6 DEF plan, at, p, Plan, Planned, Backfill, BackfillWindow, BackfillStart,
                      ChunkFrom, ReconcileWindow, Newest, Floor, Today
  <2>8. WindowsOK(r)'
    BY <1>8, <2>5, <2>6, <2>7 DEF WindowsOK
  <2>9. ReadOK(r)'
    BY <1>1, <1>5, <1>6, <2>1, <2>5, <2>6 DEF p, at, ReadOK, Reading, RowsKept, Newest, Today
  <2>10. QED
    BY <1>5, <1>6, <1>8, <2>4, <2>5, <2>8, <2>9, HistoryTypes, GrowStep
    DEF p, Register, history
<1>9. QED
  BY <1>3, <1>7, <1>8

LEMMA WindowDays ==
  ASSUME NEW w \in Window
  PROVE  DaysOf(w) \subseteq Days
BY ConstantTypes DEF DaysOf, Window, Days, Constants

LEMMA Heads ==
  ASSUME NEW S, NEW s \in Seq(S), s # <<>>
  PROVE  /\ Head(s) \in S /\ Head(s) = s[1] /\ Tail(s) \in Seq(S)
         /\ Len(s) = 1 <=> Tail(s) = <<>>
         /\ \A i \in 1 .. Len(s) : i = 1 \/ (i - 1 \in 1 .. Len(Tail(s)) /\ s[i] = Tail(s)[i - 1])
<1>1. Len(s) \in Nat /\ Len(s) >= 1 /\ 1 \in 1 .. Len(s)
  OBVIOUS
<1>2. Head(s) = s[1] /\ Head(s) \in S
  BY <1>1
<1>3. Tail(s) \in Seq(S) /\ Len(Tail(s)) = Len(s) - 1
  BY <1>1
<1>4. ASSUME NEW i \in 1 .. Len(s), i # 1
      PROVE  i - 1 \in 1 .. Len(Tail(s)) /\ s[i] = Tail(s)[i - 1]
  BY <1>1, <1>3, <1>4
<1>5. Len(s) = 1 <=> Tail(s) = <<>>
  <2> DEFINE t == Tail(s)
  <2>1. t \in Seq(S) /\ Len(t) = Len(s) - 1
    BY <1>3
  <2> HIDE DEF t
  <2>2. t = <<>> <=> Len(t) = 0
    BY <2>1, EmptySeq
  <2>3. QED
    BY <1>1, <2>1, <2>2 DEF t
<1>6. QED
  BY <1>2, <1>3, <1>4, <1>5

LEMMA WriteTotalsStep ==
  ASSUME Inv, NEW r \in Slots, WriteTotals(r)
  PROVE  Inv'
<1> DEFINE p == run[r]
           at == p.at
           days == DaysOf(Head(p.left))
           new == [p EXCEPT !.pc = "details"]
<1>1. /\ run' = [run EXCEPT ![r] = new] /\ p \in Run /\ at \in Properties
      /\ p.left \in Seq(Window) /\ p.pc = "window"
      /\ totals' = [totals EXCEPT ![at] = totals[at] \cup days]
      /\ totals \in [Properties -> SUBSET Days] /\ details \in [Properties -> SUBSET Days]
      /\ rows \in [Properties -> Row] /\ rows' = rows /\ details' = details /\ now' = now
  BY HistoryTypes DEF WriteTotals, Goto, Inv, TypeOK, Run
<1>2. WindowsOK(r) /\ ReadOK(r) /\ p.left # <<>>
  BY <1>1 DEF Inv, WindowsOK
<1>3. days \subseteq Days
  BY <1>1, <1>2, Heads, WindowDays
<1> HIDE DEF p, at
<1>4. new \in Run
  BY <1>1 DEF Run
<1>5. /\ new.pc = "details" /\ new.left = p.left /\ new.rows = p.rows /\ new.at = p.at
      /\ new.scope = p.scope /\ new.outlived = p.outlived
  BY <1>1 DEF Run
<1> HIDE DEF new
<1>6. run'[r] = new
  BY <1>1, <1>4, Moved DEF Inv
<1>7. RowsKept /\ DaysGrow
  BY <1>1, <1>3 DEF RowsKept, DaysGrow
<1>8. Plan(r)' = Plan(r)
  BY <1>1, <1>5, <1>6, PlanKept DEF p
<1>9. WindowsOK(r)'
  <2>1. \A d : d \in totals[at] => d \in totals'[at]
    BY <1>1
  <2>2. \A d \in days : d \in totals'[at]
    BY <1>1
  <2>3. \A d \in Days : Covers(Plan(r), d) =>
          Covers(p.left, d) \/ (d \in totals[at] /\ d \in details[at])
    BY <1>1, <1>2 DEF p, at, WindowsOK, Stored
  <2>4. run'[r].at = at /\ run'[r].left = p.left /\ run'[r].pc = "details"
    BY <1>5, <1>6 DEF at
  <2>5. QED
    BY <1>1, <1>2, <1>8, <2>1, <2>2, <2>3, <2>4 DEF WindowsOK, Stored
<1>10. Inside(r) /\ (Apart' => Apart)
  BY DEF Inside, WriteTotals, Apart, history
<1>11. ReadOK(r)'
  BY <1>1, <1>2, <1>5, <1>6, <1>10 DEF p, ReadOK, Reading, Newest, Today
<1>12. QED
  BY <1>1, <1>4, <1>5, <1>7, <1>9, <1>10, <1>11, HistoryTypes, GrowStep
  DEF WriteTotals, history, p

LEMMA WriteDetailsStep ==
  ASSUME Inv, NEW r \in Slots, WriteDetails(r)
  PROVE  Inv'
<1> DEFINE p == run[r]
           at == p.at
           left == p.left
           rest == Tail(left)
           days == DaysOf(Head(left))
           pc == IF Len(left) = 1 THEN "mark" ELSE "window"
           count == p.collected + 1
           new == [p EXCEPT !.left = rest, !.collected = count, !.pc = pc]
<1>1. /\ run' = [run EXCEPT ![r] = new] /\ p \in Run /\ at \in Properties
      /\ left \in Seq(Window) /\ p.pc = "details" /\ count \in Nat
      /\ details' = [details EXCEPT ![at] = details[at] \cup days]
      /\ totals \in [Properties -> SUBSET Days] /\ details \in [Properties -> SUBSET Days]
      /\ rows \in [Properties -> Row] /\ rows' = rows /\ totals' = totals /\ now' = now
  BY HistoryTypes DEF WriteDetails, Inv, TypeOK, Run
<1>2. WindowsOK(r) /\ ReadOK(r) /\ left # <<>>
  BY <1>1 DEF Inv, WindowsOK
<1>3. days \subseteq Days /\ rest \in Seq(Window) /\ pc \in {"mark", "window"}
      /\ (pc = "window" => rest # <<>>)
  BY <1>1, <1>2, Heads, WindowDays
<1>4. \A d : Covers(left, d) => d \in days \/ Covers(rest, d)
  BY <1>1, <1>2, Heads DEF Covers
<1> HIDE DEF p, at, left, rest, days, pc, count
<1>5. new \in Run
  BY <1>1, <1>3 DEF Run
<1>6. /\ new.pc = pc /\ new.left = rest /\ new.rows = p.rows /\ new.at = p.at
      /\ new.scope = p.scope /\ new.outlived = p.outlived
  BY <1>1 DEF Run
<1> HIDE DEF new
<1>7. run'[r] = new
  BY <1>1, <1>5, Moved DEF Inv
<1>8. RowsKept /\ DaysGrow
  BY <1>1, <1>3 DEF RowsKept, DaysGrow
<1>9. Plan(r)' = Plan(r)
  BY <1>1, <1>6, <1>7, PlanKept DEF p
<1>10. WindowsOK(r)'
  <2>1. \A d : d \in details[at] => d \in details'[at]
    BY <1>1
  <2>2. \A d \in days : d \in totals'[at] /\ d \in details'[at]
    BY <1>1, <1>2 DEF WindowsOK, p, at, days, left
  <2>3. \A d \in Days : Covers(Plan(r), d) =>
          Covers(left, d) \/ (d \in totals[at] /\ d \in details[at])
    BY <1>1, <1>2 DEF p, at, left, WindowsOK, Stored
  <2>4. run'[r].at = at /\ run'[r].left = rest /\ run'[r].pc = pc
    BY <1>6, <1>7 DEF at
  <2>5. QED
    BY <1>1, <1>3, <1>4, <1>9, <2>1, <2>2, <2>3, <2>4 DEF WindowsOK, Stored
<1>11. Inside(r) /\ (Apart' => Apart)
  BY DEF Inside, WriteDetails, Apart, history
<1>12. ReadOK(r)'
  BY <1>1, <1>2, <1>6, <1>7, <1>11 DEF p, ReadOK, Reading, Newest, Today
<1>13. QED
  BY <1>1, <1>5, <1>6, <1>8, <1>10, <1>11, <1>12, HistoryTypes, GrowStep
  DEF WriteDetails, history, p

-----------------------------------------------------------------------------
(* The cursor moves when everything planned has been stored.               *)

(* What lies behind the cursor of a property is stored. *)
NoGap(p) ==
  \A d \in Days :
    /\ Apart
    /\ anchor[p] # None
    /\ Floor <= d /\ d <= anchor[p]
    /\ rows[p].complete \/ (rows[p].cursor # None /\ d > rows[p].cursor)
    => Stored(p, d)

LEMMA NoGaps == BackfillLeavesNoGap <=> \A p \in Properties : NoGap(p)
BY DEF BackfillLeavesNoGap, NoGap, Stored, Apart

LEMMA NoGapsAfter == BackfillLeavesNoGap' <=> \A p \in Properties : NoGap(p)'
BY DEF BackfillLeavesNoGap, NoGap, Stored, Apart

(* The new cursor, or completeness, leaves no gap: with everything stored  *)
(* that was planned, all from the next cursor to this one is stored.       *)
LEMMA MarkLeavesNoGap ==
  ASSUME Inv, Apart, NEW r \in Slots, MarkSuccess(r), NEW row \in Row,
         NEW at, at = run[r].at, row = rows'[at]
  PROVE  NoGap(at)'
<1> DEFINE p == run[r]
           read == p.rows[at]
           plan == Backfill(p.scope, read)
           all == p.left = <<>>
           start == BackfillStart(read.cursor)
<1>1. /\ p \in Run /\ at = p.at /\ at \in Properties /\ read \in Row /\ p.scope \in Scopes
      /\ rows \in [Properties -> Row] /\ rows[at] \in Row
      /\ anchor \in [Properties -> Days \cup {None}]
      /\ now \in 0 .. MaxTick /\ now' = now /\ totals' = totals /\ details' = details
      /\ p.pc = "mark"
  BY HistoryTypes DEF MarkSuccess, Inv, TypeOK, Run
<1>2. /\ read.cursor = rows[at].cursor /\ read.complete = rows[at].complete
      /\ read.cursor # None => read.cursor <= Newest
  <2>1. ReadOK(r) /\ at >= at
    BY <1>1, ConstantTypes DEF Inv, Properties, Constants
  <2>2. QED
    BY <1>1, <2>1 DEF ReadOK, Reading
<1>3. NoGap(at) /\ WindowsOK(r)
  BY <1>1, NoGaps DEF Inv
<1>4. /\ row.cursor = IF all THEN plan.next ELSE read.cursor
      /\ row.complete = IF all THEN plan.complete ELSE read.complete
  <2> DEFINE old == rows[at]
             c == IF all THEN plan.next ELSE read.cursor
             f == IF all THEN plan.complete ELSE read.complete
             new == [old EXCEPT !.cursor = c, !.complete = f]
  <2>1. rows' = [rows EXCEPT ![at] = new]
    BY <1>1 DEF MarkSuccess, AllCollected
  <2>2. old \in Row /\ row = new
    BY <1>1, <2>1
  <2> HIDE DEF old, c, f
  <2>3. row.cursor = c /\ row.complete = f
    BY <2>2 DEF Row
  <2>4. QED
    BY <2>3 DEF c, f
<1>5. anchor'[at] = IF all /\ read.cursor = None /\ plan.windows # <<>>
                    THEN BackfillStart(None) ELSE anchor[at]
  BY <1>1 DEF MarkSuccess, AllCollected
<1>6. Floor' = Floor /\ rows'[at] = row
  BY <1>1 DEF Floor, Today
<1>7. SUFFICES ASSUME NEW d \in Days, anchor'[at] # None, Floor <= d, d <= anchor'[at],
                      row.complete \/ (row.cursor # None /\ d > row.cursor)
               PROVE  Stored(at, d)
  BY <1>1, <1>6 DEF NoGap, Stored
<1>8. CASE ~all
  BY <1>2, <1>3, <1>4, <1>5, <1>7, <1>8 DEF NoGap
<1>9. CASE all /\ plan.windows = <<>>
  <2>1. anchor'[at] = anchor[at]
    BY <1>5, <1>9
  <2>2. CASE p.scope = "daily"
    <3>1. plan = [windows |-> <<>>, next |-> None, complete |-> read.complete]
      BY <2>2 DEF Backfill
    <3>2. plan.next = None /\ (plan.complete => read.complete)
      BY <3>1
    <3>3. row.cursor = None /\ rows[at].complete
      BY <1>2, <1>4, <1>7, <1>9, <3>2
    <3>4. QED
      BY <1>3, <1>7, <2>1, <3>3 DEF NoGap
  <2>3. CASE p.scope # "daily"
    <3>1. start < Floor
      <4>1. CASE start < Floor
        BY <4>1
      <4>2. CASE ~(start < Floor)
        <5> DEFINE w == [from |-> ChunkFrom(start), to |-> start]
        <5>1. plan.windows = <<w>>
          BY <2>3, <4>2 DEF Backfill, BackfillWindow
        <5> HIDE DEF w, plan
        <5>2. <<w>> # <<>>
          OBVIOUS
        <5>3. QED
          BY <1>9, <5>1, <5>2
      <4>3. QED
        BY <4>1, <4>2
    <3>2. read.cursor # None /\ read.cursor < Floor /\ d > read.cursor
      BY <1>1, <1>7, <3>1, DayTypes, ConstantTypes, GscAssumption
      DEF BackfillStart, Constants, Row, Days
    <3>3. QED
      BY <1>2, <1>3, <1>7, <2>1, <3>2 DEF NoGap
  <2>4. QED
    BY <2>2, <2>3
<1>10. CASE all /\ plan.windows # <<>>
  <2>1. /\ p.scope # "daily" /\ start >= Floor /\ start \in Days
        /\ \A e \in Days : plan.next < e /\ e <= start => Covers(Planned(p.scope, read), e)
    BY <1>1, <1>2, <1>10, PlanTypes
  <2> DEFINE from == ChunkFrom(start)
             last == from - 1 < Floor
             windows == <<[from |-> from, to |-> start]>>
  <2>2. plan = [windows |-> windows, next |-> from - 1, complete |-> last]
    BY <1>1, <2>1, DayTypes DEF Backfill, BackfillWindow
  <2>3. from \in Int /\ from >= Floor
    BY <1>1, <2>1, DayTypes, ConstantTypes DEF ChunkFrom, Later, Constants
  <2>4. plan.next \in Int /\ plan.next < d
    <3>1. plan.next = from - 1 /\ plan.complete = last
      <4> HIDE DEF plan, windows, from, last
      <4>1. QED
        BY <2>2
    <3>2. CASE last
      BY <1>1, <1>7, <2>3, <3>1, <3>2, DayTypes
    <3>3. CASE ~last
      <4>1. ~row.complete /\ row.cursor = from - 1
        BY <1>4, <1>10, <3>1, <3>3
      <4>2. QED
        BY <1>7, <2>3, <3>1, <4>1
    <3>4. QED
      BY <3>2, <3>3
  <2>5. CASE d <= start
    <3>1. Covers(Plan(r), d)
      BY <2>1, <2>4, <2>5 DEF Plan
    <3>2. ~Covers(p.left, d)
      BY <1>10 DEF Covers
    <3>3. QED
      BY <1>1, <1>3, <3>1, <3>2 DEF WindowsOK
  <2>6. CASE ~(d <= start)
    <3>1. read.cursor # None
      BY <1>5, <1>7, <1>10, <2>6
    <3>2. start = read.cursor /\ anchor'[at] = anchor[at]
      BY <1>5, <3>1 DEF BackfillStart
    <3>3. d > read.cursor
      BY <2>1, <2>6, <3>2, DayTypes, <1>1
    <3>4. QED
      BY <1>2, <1>3, <1>7, <3>1, <3>2, <3>3 DEF NoGap
  <2>7. QED
    BY <2>5, <2>6
<1>11. QED
  BY <1>8, <1>9, <1>10

LEMMA MarkSuccessStep ==
  ASSUME Inv, NEW r \in Slots, MarkSuccess(r)
  PROVE  Inv'
<1>1. PICK at \in Properties : at = run[r].at
  BY HistoryTypes DEF Run
<1> DEFINE p == run[r]
           read == p.rows[at]
           plan == Backfill(p.scope, read)
           all == AllCollected(r)
           cursor == IF all THEN plan.next ELSE read.cursor
           complete == IF all THEN plan.complete ELSE read.complete
           old == rows[at]
           row == [old EXCEPT !.cursor = cursor, !.complete = complete]
           yes == TRUE
           s == [p EXCEPT !.succeeded = yes]
<1>2. /\ p \in Run /\ read \in Row /\ p.scope \in Scopes /\ p.at = at
      /\ rows \in [Properties -> Row] /\ old \in Row
      /\ now \in 0 .. MaxTick /\ p.pc = "mark"
      /\ UNCHANGED <<now, started, lease, success, totals, details, daily, served, trouble>>
      /\ run' = [run EXCEPT ![r] = Onward(r, s)]
  <2>1. p \in Run /\ rows \in [Properties -> Row] /\ now \in 0 .. MaxTick
    BY HistoryTypes DEF Inv, TypeOK
  <2>2. read \in Row /\ p.scope \in Scopes /\ p.at = at /\ old \in Row
    BY <1>1, <2>1 DEF Run
  <2>3. /\ p.pc = "mark" /\ run' = [run EXCEPT ![r] = Onward(r, s)]
        /\ UNCHANGED <<now, started, lease, success, totals, details, daily, served, trouble>>
    BY DEF MarkSuccess
  <2>4. QED
    BY <2>1, <2>2, <2>3
<1>3. rows' = [rows EXCEPT ![at] = row]
  BY <1>1 DEF MarkSuccess
<1>4. yes \in BOOLEAN
  OBVIOUS
<1>5. read.cursor # None => read.cursor <= Newest
  BY <1>2 DEF Inv, ReadOK, Reading
<1>6. /\ plan.next \in Days \cup {-RetentionDays - 1, None}
      /\ plan.next # None => plan.next <= Newest
      /\ plan.complete \in BOOLEAN /\ BackfillStart(None) \in Days
  BY <1>2, <1>5, PlanTypes
<1>7. /\ cursor \in Days \cup {-RetentionDays - 1, None} /\ complete \in BOOLEAN
      /\ cursor # None => cursor <= Newest
  BY <1>2, <1>5, <1>6 DEF Row
<1>8. anchor' \in [Properties -> Days \cup {None}]
      /\ \A q \in Properties : q # at => anchor'[q] = anchor[q]
  <2>1. anchor \in [Properties -> Days \cup {None}]
    BY DEF Inv, TypeOK
  <2>2. anchor' = anchor \/ anchor' = [anchor EXCEPT ![at] = BackfillStart(None)]
    BY <1>1 DEF MarkSuccess
  <2>3. QED
    BY <1>6, <2>1, <2>2
<1> HIDE DEF p, read, plan, all, cursor, complete, old, yes
<1>9. row \in Row /\ row.cursor = cursor
  BY <1>2, <1>7 DEF Row
<1>10. s \in Run
  BY <1>2, <1>4 DEF Run
<1>11. s.rows = p.rows /\ s.at = p.at /\ s.outlived = p.outlived
  BY <1>2 DEF Run
<1> HIDE DEF s, row
<1>12. /\ rows' \in [Properties -> Row] /\ rows'[at] = row
      /\ \A q \in Properties : q # at => rows'[q] = rows[q]
  BY <1>2, <1>9, <1>3
<1> DEFINE new == Onward(r, s)
<1>13. new \in Run /\ new.outlived = run[r].outlived
  BY <1>10, <1>11, OnwardType DEF p
<1>14. at \in Nat /\ Properties \subseteq Nat
  BY <1>2, ConstantTypes DEF Properties, Constants
<1>15. WindowsOK(r)' /\ ReadOK(r)'
  <2>1. s.rows = run[r].rows /\ s.at = run[r].at /\ run[r].pc \in Reading /\ (Apart' => Apart)
    BY <1>2, <1>11 DEF p, Apart, Reading
  <2>2. \A q \in Properties : q > run[r].at =>
          rows'[q].cursor = rows[q].cursor /\ rows'[q].complete = rows[q].complete
    BY <1>1, <1>12, <1>14
  <2>3. QED
    BY <1>2, <1>10, <2>1, <2>2, OnwardReads
<1> HIDE DEF new
<1>16. run' \in [Slots -> Run] /\ run'[r] = new /\ \A q \in Slots \ {r} : run'[q] = run[q]
  BY <1>2, <1>13, Moved DEF new, Inv
<1>17. Inside(r) /\ \A q \in Slots : Inside(q)' => Inside(q) /\ run'[q].outlived = run[q].outlived
  BY <1>2, <1>13, <1>16 DEF p, Inside
<1>18. TypeOK'
  BY <1>2, <1>8, <1>12, <1>16 DEF Inv, TypeOK
<1>19. ASSUME NEW q \in Slots \ {r} PROVE WindowsOK(q)' /\ ReadOK(q)'
  <2>1. run'[q] = run[q] /\ WindowsOK(q) /\ ReadOK(q)
    BY <1>16, <1>19 DEF Inv
  <2>2. Plan(q)' = Plan(q)
    BY <1>2, <2>1, PlanKept
  <2>3. WindowsOK(q)'
    BY <1>2, <2>1, <2>2 DEF WindowsOK, Stored
  <2>4. Apart => run[q].pc \notin Reading
    BY <1>17, <1>19 DEF Inv, OneInside, Inside, Reading
  <2>5. ReadOK(q)'
    BY <1>2, <2>1, <2>4 DEF ReadOK, Apart, Newest, Today
  <2>6. QED
    BY <2>3, <2>5
<1>20. OneInside' /\ LeaseExcludes'
  BY <1>2, <1>17 DEF Inv, OneInside, LeaseExcludes, Apart
<1>21. CursorsOK'
  BY <1>2, <1>7, <1>9, <1>12 DEF Inv, CursorsOK, Newest, Today
<1>22. BackfillLeavesNoGap'
  <2>1. CASE Apart
    <3>1. \A q \in Properties : NoGap(q)
      BY NoGaps DEF Inv
    <3>2. \A q \in Properties : q # at => NoGap(q)'
      BY <1>2, <1>8, <1>12, <3>1 DEF NoGap, Stored, Apart, Floor, Today
    <3>3. NoGap(at)'
      <4>1. PICK v \in Row : v = rows'[at]
        BY <1>9, <1>12
      <4>2. QED
        BY <1>1, <2>1, <4>1, MarkLeavesNoGap
    <3>4. QED
      BY <3>2, <3>3, NoGapsAfter
  <2>2. CASE ~Apart
    BY <1>2, <2>2 DEF Apart, BackfillLeavesNoGap
  <2>3. QED
    BY <2>1, <2>2
<1>23. QED
  BY <1>15, <1>18, <1>19, <1>20, <1>21, <1>22 DEF Inv

-----------------------------------------------------------------------------
(* The lease.                                                              *)
LEMMA LeaseStep ==
  ASSUME Inv, NEW r \in Slots, NEW new \in Run, run' = [run EXCEPT ![r] = new],
         new.pc \in Quiet,
         UNCHANGED <<now, tables, anchor, started, success, daily, served>>,
         lease' \in [owner : Slots \cup {Gone, None}, expired : BOOLEAN],
         trouble' \subseteq {"missed", "unlisted", "manual", "overlap"},
         Apart' => Apart, OneInside', LeaseExcludes'
  PROVE  Inv'
<1>1. run' \in [Slots -> Run] /\ run'[r] = new /\ \A q \in Slots \ {r} : run'[q] = run[q]
  BY Moved DEF Inv
<1>2. TypeOK'
  BY <1>1 DEF Inv, TypeOK, tables
<1>3. WindowsOK(r)' /\ ReadOK(r)'
  BY <1>1 DEF WindowsOK, ReadOK, Quiet, Reading
<1>4. ASSUME NEW q \in Slots \ {r} PROVE WindowsOK(q)' /\ ReadOK(q)'
  <2>1. run'[q] = run[q] /\ WindowsOK(q) /\ ReadOK(q)
    BY <1>1, <1>4 DEF Inv
  <2>2. Plan(q)' = Plan(q)
    BY <2>1, PlanKept
  <2>3. QED
    BY <2>1, <2>2 DEF WindowsOK, ReadOK, Stored, tables, Newest, Today
<1>5. CursorsOK'
  BY DEF Inv, CursorsOK, Newest, Today, tables
<1>6. BackfillLeavesNoGap'
  BY DEF Inv, BackfillLeavesNoGap, Apart, Floor, Today, tables
<1>7. QED
  BY <1>2, <1>3, <1>4, <1>5, <1>6 DEF Inv

(* While a collection keeps the lease it has, nobody else takes it; and    *)
(* one who takes it beside another has been noticed.                       *)
LEMMA AcquireStep ==
  ASSUME Inv, NEW r \in Slots, AcquireLease(r)
  PROVE  Inv'
<1> DEFINE p == run[r]
           new == [p EXCEPT !.pc = "sync"]
           no == FALSE
           mine == [owner |-> r, expired |-> no]
<1>1. run' = [run EXCEPT ![r] = new] /\ p \in Run /\ lease' = mine
  BY HistoryTypes DEF AcquireLease, Goto
<1>2. no \in BOOLEAN
  OBVIOUS
<1> HIDE DEF p
<1>3. new \in Run
  BY <1>1 DEF Run
<1>4. new.pc = "sync" /\ new.pc \in Quiet
  BY <1>1 DEF Run, Quiet, Stages, Reading
<1> HIDE DEF new
<1>5. run'[r] = new /\ \A q \in Slots \ {r} : run'[q] = run[q]
  BY <1>1, <1>3, Moved DEF Inv
<1>6. OneInside'
  <2>1. \A q \in Slots : Inside(q)' => q = r \/ Inside(q)
    BY <1>5 DEF Inside
  <2>2. Apart' => ~\E q \in Slots : Inside(q)
    BY DEF AcquireLease, Apart
  <2>3. QED
    BY <2>1, <2>2 DEF OneInside
<1>7. LeaseExcludes'
  <2>1. ASSUME NEW q \in Slots \ {r}, Inside(q)'
        PROVE  run'[q].outlived
    <3>1. Inside(q) /\ run'[q].outlived = run[q].outlived
      BY <1>5, <2>1 DEF Inside
    <3>2. lease # [owner |-> q, expired |-> FALSE]
      BY GscAssumption DEF AcquireLease, Free
    <3>3. QED
      BY <3>1, <3>2 DEF Inv, LeaseExcludes
  <2>2. QED
    BY <1>1, <2>1 DEF LeaseExcludes
<1> HIDE DEF no
<1>8. mine \in [owner : Slots \cup {Gone, None}, expired : BOOLEAN]
  BY <1>2
<1> HIDE DEF mine
<1>9. trouble' \subseteq {"missed", "unlisted", "manual", "overlap"} /\ (Apart' => Apart)
  BY HistoryTypes DEF AcquireLease, Apart
<1>10. UNCHANGED <<now, tables, anchor, started, success, daily, served>>
  BY DEF AcquireLease
<1>11. QED
  BY <1>1, <1>3, <1>4, <1>6, <1>7, <1>8, <1>9, <1>10, LeaseStep

(* The end of a collection touches no lease but its own.                   *)
LEMMA EndSteps ==
  ASSUME Inv, NEW r \in Slots, ReleaseLease(r) \/ Die(r)
  PROVE  Inv'
<1>1. run' = [run EXCEPT ![r] = Idle]
      /\ UNCHANGED <<now, tables, anchor, started, success, daily, served, trouble>>
  BY DEF ReleaseLease, Die, End, history
<1>2. lease \in [owner : Slots \cup {Gone, None}, expired : BOOLEAN]
  BY DEF Inv, TypeOK
<1>3. lease' \in [owner : Slots \cup {Gone, None}, expired : BOOLEAN]
  <2> DEFINE no == FALSE
             none == [owner |-> None, expired |-> no]
             gone == [lease EXCEPT !.owner = Gone]
  <2>1. lease' \in {lease, none, gone}
    BY DEF ReleaseLease, Die, NoLease
  <2>2. no \in BOOLEAN
    OBVIOUS
  <2> HIDE DEF no
  <2>3. none \in [owner : Slots \cup {Gone, None}, expired : BOOLEAN]
    BY <2>2
  <2>4. gone \in [owner : Slots \cup {Gone, None}, expired : BOOLEAN]
    BY <1>2
  <2> HIDE DEF none, gone
  <2>5. QED
    BY <1>2, <2>1, <2>3, <2>4
<1>4. lease.owner # r => lease' = lease
  BY DEF ReleaseLease, Die
<1>5. run'[r] = Idle /\ \A q \in Slots \ {r} : run'[q] = run[q]
  BY <1>1, IdleType, Moved DEF Inv
<1>6. \A q \in Slots : Inside(q)' =>
        q # r /\ Inside(q) /\ run'[q].outlived = run[q].outlived
  BY <1>5, IdleType DEF Inside
<1>7. OneInside' /\ LeaseExcludes'
  <2>1. OneInside'
    BY <1>1, <1>6 DEF Inv, OneInside, Apart
  <2>2. ASSUME NEW q \in Slots, Inside(q)', ~run'[q].outlived
        PROVE  lease' = [owner |-> q, expired |-> FALSE]
    <3>1. lease = [owner |-> q, expired |-> FALSE] /\ q # r
      BY <1>6, <2>2 DEF Inv, LeaseExcludes
    <3>2. lease.owner = q
      BY <3>1
    <3>3. QED
      BY <1>4, <3>1, <3>2
  <2>3. QED
    BY <2>1, <2>2 DEF LeaseExcludes
<1>8. QED
  BY <1>1, <1>3, <1>7, HistoryTypes, IdleType, LeaseStep DEF Apart, Quiet, Stages, Reading

LEMMA LeaseExpiresStep ==
  ASSUME Inv, LeaseExpires
  PROVE  Inv'
<1> DEFINE yes == TRUE
           expired == [lease EXCEPT !.expired = yes]
<1>1. /\ lease \in [owner : Slots \cup {Gone, None}, expired : BOOLEAN]
      /\ lease' = expired /\ run \in [Slots -> Run]
      /\ run' = [q \in Slots |-> IF q = lease.owner
                   THEN [run[q] EXCEPT !.outlived = yes] ELSE run[q]]
      /\ UNCHANGED <<now, started, success, tables, history>>
  BY DEF LeaseExpires, Inv, TypeOK
<1>2. yes \in BOOLEAN /\ yes
  OBVIOUS
<1>3. ASSUME NEW q \in Slots
      PROVE  /\ run'[q] \in Run /\ (q = lease.owner => run'[q].outlived)
             /\ (q # lease.owner => run'[q].outlived = run[q].outlived)
             /\ run'[q].pc = run[q].pc /\ run'[q].rows = run[q].rows
             /\ run'[q].at = run[q].at /\ run'[q].left = run[q].left
             /\ run'[q].scope = run[q].scope
  <2> DEFINE p == run[q]
             new == [p EXCEPT !.outlived = yes]
  <2>1. p \in Run /\ run'[q] = IF q = lease.owner THEN new ELSE p
    BY <1>1
  <2> HIDE DEF p, yes
  <2>2. new \in Run
    BY <1>2, <2>1 DEF Run
  <2>3. /\ new.pc = p.pc /\ new.rows = p.rows /\ new.at = p.at /\ new.left = p.left
        /\ new.scope = p.scope /\ new.outlived = yes
    BY <2>1 DEF Run
  <2> HIDE DEF new
  <2>4. QED
    BY <1>2, <2>1, <2>2, <2>3 DEF p
<1> HIDE DEF yes
<1>4. expired \in [owner : Slots \cup {Gone, None}, expired : BOOLEAN]
  BY <1>1, <1>2
<1> HIDE DEF expired
<1>5. TypeOK'
  <2>1. run' \in [Slots -> Run]
    BY <1>1, <1>3
  <2>2. QED
    BY <1>1, <1>4, <2>1 DEF Inv, TypeOK, tables, history
<1>6. ASSUME NEW q \in Slots PROVE WindowsOK(q)' /\ ReadOK(q)'
  <2>1. WindowsOK(q) /\ ReadOK(q)
    BY <1>6 DEF Inv
  <2>2. Plan(q)' = Plan(q)
    BY <1>1, <1>3, <1>6, PlanKept
  <2>3. QED
    BY <1>1, <1>3, <1>6, <2>1, <2>2
    DEF WindowsOK, ReadOK, Stored, tables, history, Newest, Today, Apart
<1>7. OneInside'
  BY <1>1, <1>3 DEF Inv, OneInside, Inside, Apart, history
<1>8. LeaseExcludes'
  <2>1. ASSUME NEW q \in Slots, Inside(q)'
        PROVE  run'[q].outlived
    <3>1. Inside(q)
      BY <1>3, <2>1 DEF Inside
    <3>2. lease = [owner |-> q, expired |-> FALSE] => lease.owner = q
      OBVIOUS
    <3>3. QED
      BY <1>3, <3>1, <3>2 DEF Inv, LeaseExcludes
  <2>2. QED
    BY <2>1 DEF LeaseExcludes
<1>9. CursorsOK' /\ BackfillLeavesNoGap'
  BY <1>1 DEF Inv, CursorsOK, BackfillLeavesNoGap, Newest, Floor, Today, tables, history
<1>10. QED
  BY <1>5, <1>6, <1>7, <1>8, <1>9 DEF Inv

(* As time goes on, the newest reportable day and Google's retention floor *)
(* move forwards only.                                                     *)
LEMMA TickStep ==
  ASSUME Inv, Tick
  PROVE  Inv'
<1> DEFINE old == lease
           dead == old.owner # None
           new == [old EXCEPT !.expired = dead]
<1>1. /\ old \in [owner : Slots \cup {Gone, None}, expired : BOOLEAN]
      /\ lease' = new /\ now \in 0 .. MaxTick /\ now < MaxTick /\ now' = now + 1
      /\ UNCHANGED <<success, tables, run, anchor, daily>>
  BY DEF Tick, Inv, TypeOK
<1>2. dead \in BOOLEAN
  OBVIOUS
<1>3. now' \in 0 .. MaxTick /\ now <= now'
  BY <1>1, ConstantTypes DEF Constants
<1>4. Newest <= Newest' /\ Floor <= Floor' /\ Newest \in Int /\ Newest' \in Int
      /\ Floor \in Int /\ Floor' \in Int
  BY <1>1, <1>3, DivMonotone, ConstantTypes DEF Constants, Newest, Floor, Today
<1> HIDE DEF old, dead
<1>5. new \in [owner : Slots \cup {Gone, None}, expired : BOOLEAN]
  BY <1>1, <1>2
<1> HIDE DEF new
<1>6. NoStart \in [cron : BOOLEAN, manual : 0 .. MaxManual]
  <2> DEFINE no == FALSE
  <2>1. no \in BOOLEAN /\ 0 \in 0 .. MaxManual
    BY ConstantTypes DEF Constants
  <2> HIDE DEF no
  <2>2. [cron |-> no, manual |-> 0] \in [cron : BOOLEAN, manual : 0 .. MaxManual]
    BY <2>1
  <2>3. QED
    BY <2>2 DEF no, NoStart
<1>7. TypeOK'
  <2>1. started' = NoStart /\ served' \in BOOLEAN
        /\ trouble' \subseteq {"missed", "unlisted", "manual", "overlap"}
    BY HistoryTypes DEF Tick
  <2>2. QED
    BY <1>1, <1>3, <1>5, <1>6, <2>1 DEF Inv, TypeOK, tables
<1>8. \A q \in Slots : run'[q].pc = "idle"
  BY DEF Tick
<1>9. \A q \in Slots : WindowsOK(q)' /\ ReadOK(q)'
  BY <1>8 DEF WindowsOK, ReadOK, Reading
<1>10. OneInside' /\ LeaseExcludes'
  BY <1>8 DEF OneInside, LeaseExcludes, Inside
<1>11. CursorsOK'
  <2>1. ASSUME NEW q \in Properties, rows[q].cursor # None
        PROVE  rows[q].cursor <= Newest'
    <3>1. rows[q].cursor <= Newest /\ rows[q].cursor \in Int
      BY <2>1, ConstantTypes DEF Inv, CursorsOK, TypeOK, Row, Days, Constants
    <3>2. QED
      BY <1>4, <3>1
  <2>2. QED
    BY <1>1, <2>1 DEF CursorsOK, tables
<1>12. BackfillLeavesNoGap'
  <2>1. \A d \in Days : Floor' <= d => Floor <= d
    BY <1>4, ConstantTypes DEF Days, Constants
  <2>2. Apart' => Apart
    BY DEF Tick, Apart
  <2>3. QED
    BY <1>1, <2>1, <2>2 DEF Inv, BackfillLeavesNoGap, Apart, tables
<1>13. QED
  BY <1>7, <1>9, <1>10, <1>11, <1>12 DEF Inv

-----------------------------------------------------------------------------
(* Every step preserves the invariant.                                     *)
LEMMA InitInv == Init => Inv
<1> SUFFICES ASSUME Init PROVE Inv
  OBVIOUS
<1> USE DEF Init
<1>1. NoStart \in [cron : BOOLEAN, manual : 0 .. MaxManual]
      /\ NoLease \in [owner : Slots \cup {Gone, None}, expired : BOOLEAN]
  <2> DEFINE no == FALSE
  <2>1. no \in BOOLEAN /\ 0 \in 0 .. MaxManual
    BY ConstantTypes DEF Constants
  <2> HIDE DEF no
  <2>2. /\ [cron |-> no, manual |-> 0] \in [cron : BOOLEAN, manual : 0 .. MaxManual]
        /\ [owner |-> None, expired |-> no] \in [owner : Slots \cup {Gone, None},
                                                 expired : BOOLEAN]
    BY <2>1
  <2>3. QED
    BY <2>2 DEF no, NoStart, NoLease
<1>2. rows \in [Properties -> Row] /\ 0 \in 0 .. MaxTick
      /\ \A q \in Properties : rows[q].cursor = None /\ rows[q].complete = FALSE
  BY ConstantTypes DEF NoRows, Row, Constants
<1>3. TypeOK
  BY <1>1, <1>2, IdleType DEF TypeOK
<1>4. \A q \in Slots : run[q].pc = "idle"
  BY IdleType
<1>5. /\ \A q \in Slots : WindowsOK(q) /\ ReadOK(q)
      /\ OneInside /\ LeaseExcludes
  BY <1>4 DEF WindowsOK, ReadOK, Reading, OneInside, LeaseExcludes, Inside
<1>6. CursorsOK /\ BackfillLeavesNoGap
  BY <1>2 DEF CursorsOK, BackfillLeavesNoGap
<1>7. QED
  BY <1>3, <1>5, <1>6 DEF Inv

LEMMA StepInv == Inv /\ [Next]_vars => Inv'
<1> SUFFICES ASSUME Inv, [Next]_vars PROVE Inv'
  OBVIOUS
<1>1. CASE UNCHANGED vars
  <2>1. UNCHANGED <<now, started, lease, success, rows, totals, details, run, anchor, daily,
                    served, trouble>>
    BY <1>1 DEF vars, history
  <2>2. /\ TypeOK' /\ OneInside' /\ LeaseExcludes' /\ CursorsOK' /\ BackfillLeavesNoGap'
    BY <2>1 DEF Inv, TypeOK, OneInside, LeaseExcludes, Inside, CursorsOK,
                BackfillLeavesNoGap, Apart, Newest, Floor, Today
  <2>3. ASSUME NEW q \in Slots PROVE WindowsOK(q)' /\ ReadOK(q)'
    <3>1. Plan(q)' = Plan(q)
      BY <2>1, PlanKept
    <3>2. QED
      BY <2>1, <3>1 DEF Inv, WindowsOK, ReadOK, Stored, Apart, Newest, Today
  <2>4. QED
    BY <2>2, <2>3 DEF Inv
<1>2. ASSUME NEW r \in Slots, StartNext(r) PROVE Inv'
  BY <1>2, CronReadStep, IdleStep, CronDecideStep, ManualStartStep, AcquireStep,
     ReadSyncStep, ReadPropertiesStep DEF StartNext
<1>3. ASSUME NEW r \in Slots, PropertyNext(r) PROVE Inv'
  BY <1>3, RegisterStep, FailSteps, DeferStep, WriteTotalsStep, WriteDetailsStep,
     MarkSuccessStep, MarkLostStep, NothingCollectedStep DEF PropertyNext
<1>4. ASSUME NEW r \in Slots, EndNext(r) PROVE Inv'
  BY <1>4, FinishSteps, EndSteps DEF EndNext
<1>5. QED
  BY <1>1, <1>2, <1>3, <1>4, LeaseExpiresStep, TickStep DEF Next

LEMMA Invariant == Spec => []Inv
BY InitInv, StepInv, PTL DEF Spec

(* Every variable of the collections has its type: the windows planned are *)
(* days between the retention floor and today, and the cursor stops one    *)
(* day below the floor, however the intervals and limits are chosen.       *)
THEOREM GscTypes == Spec => []TypeOK
<1>1. Inv => TypeOK
  BY DEF Inv
<1>2. QED
  BY <1>1, Invariant, PTL

(* A collection that has not outlived its lease holds it to the end, for   *)
(* any number of crons and manual collections in flight.                   *)
THEOREM LeaseIsHeld == Spec => []LeaseExcludes
<1>1. Inv => LeaseExcludes
  BY DEF Inv
<1>2. QED
  BY <1>1, Invariant, PTL

(* The historical backfill leaves no day out, whatever failed, was         *)
(* deferred or died, unless two collections have overlapped.               *)
THEOREM BackfillIsGapless == Spec => []BackfillLeavesNoGap
<1>1. Inv => BackfillLeavesNoGap
  BY DEF Inv
<1>2. QED
  BY <1>1, Invariant, PTL

-----------------------------------------------------------------------------
(* The lease of the collections.  Who owns it and is not late is at work.  *)
Owned ==
  /\ lease.owner \in Slots /\ ~lease.expired =>
       Inside(lease.owner) /\ ~run[lease.owner].outlived
  /\ \A r \in Slots : run[r].outlived => Inside(r)

(* A step that neither begins nor ends the work of a collection.           *)
Still(r) ==
  /\ UNCHANGED lease
  /\ \A q \in Slots \ {r} : run'[q] = run[q]
  /\ Inside(r)' <=> Inside(r)
  /\ run'[r].outlived = run[r].outlived

LEMMA StillMove ==
  ASSUME Inv, NEW r \in Slots, NEW new \in Run, run' = [run EXCEPT ![r] = new],
         UNCHANGED lease, new.outlived = run[r].outlived,
         new.pc \notin {"idle", "decide", "acquire"} <=> Inside(r)
  PROVE  Still(r)
<1>1. run'[r] = new /\ \A q \in Slots \ {r} : run'[q] = run[q]
  BY Moved DEF Inv
<1>2. QED
  BY <1>1 DEF Still, Inside

LEMMA StillGoto ==
  ASSUME Inv, NEW r \in Slots, NEW pc \in Stages, Goto(r, pc), UNCHANGED lease,
         pc \notin {"idle", "decide", "acquire"} <=> Inside(r)
  PROVE  Still(r)
<1> DEFINE p == run[r]
           new == [p EXCEPT !.pc = pc]
<1>1. run' = [run EXCEPT ![r] = new] /\ p \in Run
  BY DEF Goto, Inv, TypeOK
<1> HIDE DEF p
<1>2. new \in Run /\ new.pc = pc /\ new.outlived = p.outlived
  BY <1>1 DEF Run, Stages
<1> HIDE DEF new
<1>3. QED
  BY <1>1, <1>2, StillMove DEF p

LEMMA StillOnward ==
  ASSUME Inv, NEW r \in Slots, NEW s \in Run, s.outlived = run[r].outlived, Inside(r),
         run' = [run EXCEPT ![r] = Onward(r, s)], UNCHANGED lease
  PROVE  Still(r)
<1> DEFINE new == Onward(r, s)
<1>1. /\ new \in Run /\ new.outlived = run[r].outlived
      /\ new.pc \notin {"idle", "decide", "acquire"}
  BY OnwardType
<1> HIDE DEF new
<1>2. QED
  BY <1>1, StillMove DEF new

LEMMA StillEnd ==
  ASSUME Inv, Owned, NEW r \in Slots, End(r), UNCHANGED lease, ~Inside(r)
  PROVE  Still(r)
<1>1. run[r].outlived = FALSE
  BY DEF Owned, Inv, TypeOK, Run
<1>2. QED
  BY <1>1, IdleType, StillMove DEF End

LEMMA StartStill ==
  ASSUME Inv, Owned, NEW r \in Slots, StartNext(r), ~AcquireLease(r)
  PROVE  Still(r)
<1>1. CASE CronRead(r)
  <2> DEFINE p == run[r]
             yes == TRUE
             due == DailyDue
             new == [p EXCEPT !.pc = "decide", !.cron = yes, !.due = due]
  <2>1. run' = [run EXCEPT ![r] = new] /\ p \in Run /\ UNCHANGED lease /\ ~Inside(r)
    BY <1>1 DEF CronRead, Inside, Inv, TypeOK
  <2>2. yes \in BOOLEAN /\ due \in BOOLEAN
    BY DEF DailyDue
  <2> HIDE DEF p, yes, due
  <2>3. new \in Run /\ new.pc = "decide" /\ new.outlived = p.outlived
    BY <2>1, <2>2 DEF Run
  <2> HIDE DEF new
  <2>4. QED
    BY <2>1, <2>3, StillMove DEF p
<1>2. CASE NotDue(r)
  BY <1>2, StillEnd DEF NotDue, Inside
<1>3. CASE LeaseHeld(r)
  BY <1>3, StillEnd DEF LeaseHeld, Inside
<1>4. CASE CronDecide(r)
  <2> DEFINE p == run[r]
             no == FALSE
             scope == IF ~p.due THEN "backfill" ELSE IF BackfillPending THEN "full" ELSE "daily"
             new == [p EXCEPT !.pc = "acquire", !.due = no, !.scope = scope]
  <2>1. run' = [run EXCEPT ![r] = new] /\ p \in Run /\ UNCHANGED lease /\ ~Inside(r)
    BY <1>4 DEF CronDecide, Inside, Inv, TypeOK
  <2>2. no \in BOOLEAN /\ scope \in Scopes
    BY DEF Scopes
  <2> HIDE DEF p, no, scope
  <2>3. new \in Run /\ new.pc = "acquire" /\ new.outlived = p.outlived
    BY <2>1, <2>2 DEF Run
  <2> HIDE DEF new
  <2>4. QED
    BY <2>1, <2>3, StillMove DEF p
<1>5. ASSUME NEW scope \in Scopes, ManualStart(r, scope)
      PROVE  Still(r)
  <2> DEFINE p == run[r]
             new == [p EXCEPT !.pc = "acquire", !.scope = scope]
  <2>1. run' = [run EXCEPT ![r] = new] /\ p \in Run /\ UNCHANGED lease /\ ~Inside(r)
    BY <1>5 DEF ManualStart, Inside, Inv, TypeOK
  <2> HIDE DEF p
  <2>2. new \in Run /\ new.pc = "acquire" /\ new.outlived = p.outlived
    BY <2>1 DEF Run
  <2> HIDE DEF new
  <2>3. QED
    BY <2>1, <2>2, StillMove DEF p
<1>6. CASE ReadSync(r)
  <2> DEFINE p == run[r]
             new == [p EXCEPT !.pc = "rows", !.prior = success]
  <2>1. /\ run' = [run EXCEPT ![r] = new] /\ p \in Run /\ UNCHANGED lease /\ Inside(r)
        /\ success \in 0 .. MaxTick \cup {None}
    BY <1>6 DEF ReadSync, Inside, Inv, TypeOK
  <2> HIDE DEF p
  <2>2. new \in Run /\ new.pc = "rows" /\ new.outlived = p.outlived
    BY <2>1 DEF Run
  <2> HIDE DEF new
  <2>3. QED
    BY <2>1, <2>2, StillMove DEF p
<1>7. CASE ReadProperties(r)
  <2>1. PICK listed \in SUBSET Properties, discovered \in BOOLEAN :
          run' = [run EXCEPT ![r].pc = "property", ![r].rows = rows,
                    ![r].listed = listed, ![r].discovered = discovered]
    BY <1>7 DEF ReadProperties
  <2> DEFINE p == run[r]
             new == [p EXCEPT !.pc = "property", !.rows = rows,
                              !.listed = listed, !.discovered = discovered]
  <2>2. /\ run' = [run EXCEPT ![r] = new] /\ p \in Run /\ UNCHANGED lease /\ Inside(r)
        /\ rows \in [Properties -> Row]
    BY <1>7, <2>1 DEF ReadProperties, Inside, Inv, TypeOK
  <2> HIDE DEF p
  <2>3. new \in Run /\ new.pc = "property" /\ new.outlived = p.outlived
    BY <2>2 DEF Run
  <2> HIDE DEF new
  <2>4. QED
    BY <2>2, <2>3, StillMove DEF p
<1>8. QED
  BY <1>1, <1>2, <1>3, <1>4, <1>5, <1>6, <1>7 DEF StartNext

LEMMA PropertyStill ==
  ASSUME Inv, NEW r \in Slots, PropertyNext(r)
  PROVE  Still(r)
<1> DEFINE p == run[r]
           yes == TRUE
           failed == [p EXCEPT !.failed = yes]
           succeeded == [p EXCEPT !.succeeded = yes]
<1>1. p \in Run /\ yes \in BOOLEAN
  BY DEF Inv, TypeOK
<1>2. UNCHANGED lease /\ Inside(r)
  BY DEF PropertyNext, Register, RegisterFails, Defer, WriteTotals, WriteDetails, WindowFails,
         MarkSuccess, MarkLost, NothingCollected, Inside
<1>3. CASE \E s \in {p, failed, succeeded} : run' = [run EXCEPT ![r] = Onward(r, s)]
  <2>1. PICK s \in {p, failed, succeeded} : run' = [run EXCEPT ![r] = Onward(r, s)]
    BY <1>3
  <2> HIDE DEF p, yes
  <2>2. s \in Run /\ s.outlived = p.outlived
    BY <1>1 DEF Run
  <2>3. QED
    BY <1>2, <2>1, <2>2, StillOnward DEF p
<1>4. CASE RegisterFails(r) \/ WindowFails(r)
  BY <1>3, <1>4 DEF RegisterFails, WindowFails
<1>5. CASE MarkSuccess(r) \/ MarkLost(r)
  BY <1>3, <1>5 DEF MarkSuccess, MarkLost
<1>6. CASE NothingCollected(r)
  BY <1>3, <1>6 DEF NothingCollected
<1>7. CASE Register(r)
  <2> DEFINE plan == Planned(p.scope, p.rows[p.at])
             ready == [p EXCEPT !.pc = "window", !.left = plan]
  <2>1. \/ run' = [run EXCEPT ![r] = Onward(r, p)]
        \/ run' = [run EXCEPT ![r] = Onward(r, succeeded)]
        \/ run' = [run EXCEPT ![r] = ready]
    BY <1>7 DEF Register
  <2>2. CASE run' = [run EXCEPT ![r] = ready]
    <3>1. plan \in Seq(Window)
      <4>1. ReadOK(r) /\ now \in 0 .. MaxTick /\ p.pc = "property"
        BY <1>7 DEF Inv, TypeOK, Register
      <4>2. p.at \in Properties /\ p.rows[p.at] \in Row /\ p.scope \in Scopes
        BY <1>1 DEF Run
      <4>3. p.rows[p.at].cursor # None => p.rows[p.at].cursor <= Newest
        BY <4>1, <4>2 DEF ReadOK, Reading
      <4>4. QED
        BY <4>1, <4>2, <4>3, PlanTypes
    <3> HIDE DEF p, plan
    <3>2. ready \in Run /\ ready.pc = "window" /\ ready.outlived = p.outlived
      BY <1>1, <3>1 DEF Run
    <3> HIDE DEF ready
    <3>3. QED
      BY <1>2, <2>2, <3>2, StillMove DEF p
  <2>3. QED
    BY <1>3, <2>1, <2>2
<1>8. CASE Defer(r)
  <2> DEFINE new == [p EXCEPT !.pc = "mark", !.deferred = yes]
  <2>1. run' = [run EXCEPT ![r] = new]
    BY <1>8 DEF Defer
  <2> HIDE DEF p, yes
  <2>2. new \in Run /\ new.pc = "mark" /\ new.outlived = p.outlived
    BY <1>1 DEF Run
  <2> HIDE DEF new
  <2>3. QED
    BY <1>2, <2>1, <2>2, StillMove DEF p
<1>9. CASE WriteTotals(r)
  BY <1>2, <1>9, StillGoto DEF WriteTotals, Stages
<1>10. CASE WriteDetails(r)
  <2> DEFINE left == Tail(p.left)
             collected == p.collected + 1
             pc == IF Len(p.left) = 1 THEN "mark" ELSE "window"
             new == [p EXCEPT !.left = left, !.collected = collected, !.pc = pc]
  <2>1. run' = [run EXCEPT ![r] = new] /\ pc \in {"mark", "window"}
    BY <1>10 DEF WriteDetails
  <2>2. left \in Seq(Window) /\ collected \in Nat
    <3>1. WindowsOK(r) /\ p.pc = "details"
      BY <1>10 DEF Inv, WriteDetails
    <3>2. p.left # <<>> /\ p.left \in Seq(Window) /\ p.collected \in Nat
      BY <1>1, <3>1 DEF WindowsOK, Run
    <3>3. QED
      BY <3>2
  <2> HIDE DEF p, left, collected, pc
  <2>3. new \in Run /\ new.pc = pc /\ new.outlived = p.outlived
    BY <1>1, <2>1, <2>2 DEF Run
  <2> HIDE DEF new
  <2>4. QED
    BY <1>2, <2>1, <2>3, StillMove DEF p
<1>11. QED
  BY <1>4, <1>5, <1>6, <1>7, <1>8, <1>9, <1>10 DEF PropertyNext

LEMMA FinishStill ==
  ASSUME Inv, NEW r \in Slots, FinishSync(r) \/ FinishLost(r) \/ Throw(r)
  PROVE  Still(r)
BY StillGoto DEF FinishSync, FinishLost, Throw, Stages, Inside

-----------------------------------------------------------------------------
(* The state of Leases.                                                    *)
Valid == IF Free THEN {} ELSE {"collection"}
AtWork == [x \in {"collection"} |-> {r \in Slots : Inside(r)}]
Late == [x \in {"collection"} |-> {r \in Slots : Inside(r) /\ run[r].outlived}]

LEMMA LeaseType ==
  ASSUME Inv
  PROVE  /\ lease.owner \in Slots \cup {Gone, None} /\ lease.expired \in BOOLEAN
         /\ lease = [owner |-> lease.owner, expired |-> lease.expired]
BY DEF Inv, TypeOK

LEMMA HeldBy ==
  ASSUME Inv, NEW r \in Slots, Inside(r), ~run[r].outlived
  PROVE  lease.owner = r /\ ~lease.expired /\ ~Free
<1>1. lease = [owner |-> r, expired |-> FALSE]
  BY DEF Inv, LeaseExcludes
<1>2. lease.owner = r /\ lease.expired = FALSE
  BY <1>1
<1>3. QED
  BY <1>2, GscAssumption DEF Free

LEMMA StillMaps ==
  ASSUME Inv, Owned, NEW r \in Slots, Still(r)
  PROVE  Owned' /\ UNCHANGED <<Valid, AtWork, Late>>
<1>1. /\ \A q \in Slots : (Inside(q)' <=> Inside(q)) /\ run'[q].outlived = run[q].outlived
      /\ lease' = lease
  BY DEF Still, Inside
<1>2. Owned'
  BY <1>1 DEF Owned
<1>3. UNCHANGED <<Valid, AtWork, Late>>
  BY <1>1 DEF Valid, AtWork, Late, Free
<1>4. QED
  BY <1>2, <1>3

LEMMA AcquireMaps ==
  ASSUME Inv, Owned, NEW r \in Slots, AcquireLease(r)
  PROVE  Owned' /\ Lease!Take("collection", r)
<1> DEFINE p == run[r]
           new == [p EXCEPT !.pc = "sync"]
           no == FALSE
           mine == [owner |-> r, expired |-> no]
<1>1. /\ run' = [run EXCEPT ![r] = new] /\ p \in Run /\ lease' = mine /\ Free
      /\ ~Inside(r)
  BY DEF AcquireLease, Goto, Inside, Inv, TypeOK
<1>2. ~no /\ no \in BOOLEAN /\ mine.owner = r /\ mine.expired = no
  OBVIOUS
<1>3. ~p.outlived
  BY <1>1 DEF Owned
<1> HIDE DEF p, no, mine
<1>4. new \in Run /\ new.pc = "sync" /\ new.outlived = p.outlived
  BY <1>1 DEF Run
<1> HIDE DEF new
<1>5. run'[r] = new /\ \A q \in Slots \ {r} : run'[q] = run[q]
  BY <1>1, <1>4, Moved DEF Inv
<1>6. /\ Inside(r)' /\ ~run'[r].outlived
      /\ \A q \in Slots \ {r} : (Inside(q)' <=> Inside(q)) /\ run'[q] = run[q]
  BY <1>3, <1>4, <1>5 DEF Inside
<1>7. Owned'
  BY <1>1, <1>2, <1>6 DEF Owned
<1>8. Valid = {} /\ Valid' = {"collection"}
  BY <1>1, <1>2, GscAssumption DEF Valid, Free
<1>9. {q \in Slots : Inside(q)'} = {q \in Slots : Inside(q)} \cup {r}
  BY <1>6
<1>10. {q \in Slots : Inside(q)' /\ run'[q].outlived} = {q \in Slots : Inside(q) /\ run[q].outlived}
  BY <1>1, <1>6
<1>11. /\ AtWork' = [AtWork EXCEPT !["collection"] = @ \cup {r}] /\ Late' = Late
       /\ r \notin AtWork["collection"]
  BY <1>1, <1>9, <1>10 DEF AtWork, Late
<1>12. Lease!Take("collection", r)
  BY <1>8, <1>11 DEF Lease!Take, Lease!Enters, Valid, AtWork, Late
<1>13. QED
  BY <1>7, <1>12

LEMMA EndMaps ==
  ASSUME Inv, Owned, NEW r \in Slots, ReleaseLease(r) \/ Die(r)
  PROVE  /\ Owned'
         /\ \/ Lease!Finish("collection", r) \/ Lease!FinishLate("collection", r)
            \/ UNCHANGED <<Valid, AtWork, Late>>
<1>1. run' = [run EXCEPT ![r] = Idle]
  BY DEF ReleaseLease, Die, End
<1>2. run'[r] = Idle /\ \A q \in Slots \ {r} : run'[q] = run[q]
  BY <1>1, IdleType, Moved DEF Inv
<1>3. /\ ~Inside(r)' /\ ~run'[r].outlived
      /\ \A q \in Slots \ {r} : (Inside(q)' <=> Inside(q)) /\ run'[q] = run[q]
  BY <1>2, IdleType DEF Inside
<1>4. /\ lease.owner # r => lease' = lease
      /\ lease.owner = r => lease'.owner \in {Gone, None}
                            /\ (lease'.owner = Gone => lease'.expired = lease.expired)
  <2>1. lease.owner # r => lease' = lease
    BY DEF ReleaseLease, Die
  <2>2. lease.owner = r /\ ReleaseLease(r) => lease'.owner = None
    BY DEF ReleaseLease, NoLease
  <2>3. lease.owner = r /\ Die(r) => lease' = [lease EXCEPT !.owner = Gone]
    BY DEF Die
  <2>4. lease.owner = r /\ Die(r) => lease'.owner = Gone /\ lease'.expired = lease.expired
    BY <2>3, LeaseType
  <2>5. None # Gone
    BY GscAssumption
  <2>6. QED
    BY <2>1, <2>2, <2>4, <2>5
<1>5. Owned'
  BY <1>3, <1>4, GscAssumption DEF Owned
<1>6. AtWork' = [AtWork EXCEPT !["collection"] = @ \ {r}]
  <2>1. {q \in Slots : Inside(q)'} = {q \in Slots : Inside(q)} \ {r}
    BY <1>3
  <2>2. QED
    BY <2>1 DEF AtWork
<1>7. Late' = [Late EXCEPT !["collection"] = @ \ {r}]
  <2>1. {q \in Slots : Inside(q)' /\ run'[q].outlived}
          = {q \in Slots : Inside(q) /\ run[q].outlived} \ {r}
    BY <1>3
  <2>2. QED
    BY <2>1 DEF Late
<1>8. /\ r \in AtWork["collection"] <=> Inside(r)
      /\ r \in Late["collection"] <=> Inside(r) /\ run[r].outlived
  BY DEF AtWork, Late
<1>9. CASE Inside(r) /\ ~run[r].outlived
  <2>1. Valid = {"collection"}
    BY <1>9, HeldBy DEF Valid
  <2>2. Valid' \in {Valid, Valid \ {"collection"}}
    BY <2>1 DEF Valid
  <2>3. Late' = Late
    BY <1>7, <1>8, <1>9 DEF Late
  <2>4. QED
    BY <1>5, <1>6, <1>8, <1>9, <2>2, <2>3
    DEF Lease!Finish, Lease!Leaves, Valid, AtWork, Late
<1>10. CASE ~Inside(r) \/ run[r].outlived
  <2>1. lease.owner = r => lease.expired
    BY <1>10 DEF Owned
  <2>2. Free' <=> Free
    BY <1>4, <2>1, GscAssumption DEF Free
  <2>3. Valid' = Valid
    BY <2>2 DEF Valid
  <2>4. CASE Inside(r)
    BY <1>5, <1>6, <1>7, <1>8, <1>10, <2>3, <2>4
    DEF Lease!FinishLate, Lease!Leaves, Valid, AtWork, Late
  <2>5. CASE ~Inside(r)
    BY <1>5, <1>6, <1>7, <1>8, <2>3, <2>5 DEF AtWork, Late
  <2>6. QED
    BY <2>4, <2>5
<1>11. QED
  BY <1>9, <1>10

(* The lease is over: all who are at work are late then.                   *)
LEMMA OverMaps ==
  ASSUME Inv, Valid' = {}, \A q \in Slots : Inside(q)' <=> Inside(q),
         \A q \in Slots : Inside(q) =>
            IF "collection" \in Valid \/ run[q].outlived THEN run'[q].outlived
            ELSE ~run'[q].outlived
  PROVE  \E over \in SUBSET Valid : Lease!Expire(over)
<1>1. PICK over : over = Valid
  OBVIOUS
<1>2. AtWork' = AtWork
  BY DEF AtWork
<1>3. {q \in Slots : Inside(q)' /\ run'[q].outlived} =
        IF "collection" \in over THEN {q \in Slots : Inside(q)}
        ELSE {q \in Slots : Inside(q) /\ run[q].outlived}
  BY <1>1
<1>4. Late' = [x \in {"collection"} |-> IF x \in over THEN AtWork[x] ELSE Late[x]]
  BY <1>3 DEF Late, AtWork
<1>5. Valid' = Valid \ over
  BY <1>1
<1>6. Lease!Expire(over)
  BY <1>2, <1>4, <1>5 DEF Lease!Expire, Valid, AtWork, Late
<1>7. QED
  BY <1>1, <1>6

LEMMA ExpireMaps ==
  ASSUME Inv, Owned, LeaseExpires
  PROVE  Owned' /\ \E over \in SUBSET Valid : Lease!Expire(over)
<1> DEFINE yes == TRUE
<1>1. /\ lease.owner # None /\ ~lease.expired
      /\ lease' = [lease EXCEPT !.expired = yes] /\ run \in [Slots -> Run]
      /\ run' = [q \in Slots |-> IF q = lease.owner
                   THEN [run[q] EXCEPT !.outlived = yes] ELSE run[q]]
  BY DEF LeaseExpires, Inv, TypeOK
<1>2. yes \in BOOLEAN /\ yes
  OBVIOUS
<1> HIDE DEF yes
<1>3. lease'.owner = lease.owner /\ lease'.expired
  BY <1>1, <1>2, LeaseType
<1>4. ASSUME NEW q \in Slots
      PROVE  /\ run'[q].pc = run[q].pc
             /\ IF q = lease.owner THEN run'[q].outlived
                ELSE run'[q].outlived = run[q].outlived
  <2> DEFINE p == run[q]
             new == [p EXCEPT !.outlived = yes]
  <2>1. p \in Run /\ run'[q] = IF q = lease.owner THEN new ELSE p
    BY <1>1
  <2> HIDE DEF p
  <2>2. new.pc = p.pc /\ new.outlived = yes
    BY <2>1 DEF Run
  <2> HIDE DEF new
  <2>3. QED
    BY <1>2, <2>1, <2>2 DEF p
<1>5. \A q \in Slots : Inside(q)' <=> Inside(q)
  BY <1>4 DEF Inside
<1>6. Owned'
  BY <1>1, <1>3, <1>4, <1>5 DEF Owned
<1>7. Valid = {"collection"} /\ Valid' = {}
  BY <1>1, <1>3 DEF Valid, Free
<1>8. \A q \in Slots : Inside(q) => run'[q].outlived
  BY <1>4, HeldBy
<1>9. QED
  BY <1>5, <1>6, <1>7, <1>8, OverMaps

LEMMA TickMaps ==
  ASSUME Inv, Owned, Tick
  PROVE  Owned' /\ \E over \in SUBSET Valid : Lease!Expire(over)
<1>1. /\ \A q \in Slots : ~Inside(q) /\ ~Inside(q)' /\ run' = run
  BY DEF Tick, Inside
<1>2. lease'.owner = lease.owner /\ (lease.owner # None => lease'.expired)
  <2> DEFINE dead == lease.owner # None
  <2>1. lease' = [lease EXCEPT !.expired = dead]
    BY DEF Tick
  <2> HIDE DEF dead
  <2>2. lease'.owner = lease.owner /\ lease'.expired = dead
    BY <2>1, LeaseType
  <2>3. QED
    BY <2>2 DEF dead
<1>3. Owned'
  BY <1>1, <1>2, GscAssumption DEF Owned
<1>4. Valid' = {}
  BY <1>2 DEF Valid, Free
<1>5. QED
  BY <1>1, <1>3, <1>4, OverMaps

LEMMA OwnedStep ==
  ASSUME Inv, Owned, [Next]_vars
  PROVE  Owned' /\ [Lease!LeaseNext]_<<Valid, AtWork, Late>>
<1>1. CASE UNCHANGED vars
  <2>1. UNCHANGED <<lease, run>>
    BY <1>1 DEF vars
  <2>2. Owned'
    BY <2>1 DEF Owned, Inside
  <2>3. UNCHANGED <<Valid, AtWork, Late>>
    BY <2>1 DEF Valid, AtWork, Late, Free, Inside
  <2>4. QED
    BY <2>2, <2>3
<1>2. CASE LeaseExpires \/ Tick
  <2>1. Owned' /\ \E over \in SUBSET Valid : Lease!Expire(over)
    BY <1>2, ExpireMaps, TickMaps
  <2>2. Lease!LeaseNext
    BY <2>1 DEF Lease!LeaseNext, Valid
  <2>3. QED
    BY <2>1, <2>2
<1>3. ASSUME NEW r \in Slots, Still(r)
      PROVE  Owned' /\ [Lease!LeaseNext]_<<Valid, AtWork, Late>>
  BY <1>3, StillMaps
<1>4. ASSUME NEW r \in Slots, StartNext(r)
      PROVE  Owned' /\ [Lease!LeaseNext]_<<Valid, AtWork, Late>>
  <2>1. CASE AcquireLease(r)
    <3>1. Owned' /\ Lease!Take("collection", r)
      BY <2>1, AcquireMaps
    <3>2. Lease!LeaseNext
      BY <3>1 DEF Lease!LeaseNext
    <3>3. QED
      BY <3>1, <3>2
  <2>2. CASE ~AcquireLease(r)
    BY <1>3, <1>4, <2>2, StartStill
  <2>3. QED
    BY <2>1, <2>2
<1>5. ASSUME NEW r \in Slots, PropertyNext(r)
      PROVE  Owned' /\ [Lease!LeaseNext]_<<Valid, AtWork, Late>>
  BY <1>3, <1>5, PropertyStill
<1>6. ASSUME NEW r \in Slots, EndNext(r)
      PROVE  Owned' /\ [Lease!LeaseNext]_<<Valid, AtWork, Late>>
  <2>1. CASE ReleaseLease(r) \/ Die(r)
    <3>1. /\ Owned'
          /\ \/ Lease!Finish("collection", r) \/ Lease!FinishLate("collection", r)
             \/ UNCHANGED <<Valid, AtWork, Late>>
      BY <2>1, EndMaps
    <3>2. Lease!LeaseNext \/ UNCHANGED <<Valid, AtWork, Late>>
      BY <3>1 DEF Lease!LeaseNext
    <3>3. QED
      BY <3>1, <3>2
  <2>2. CASE FinishSync(r) \/ FinishLost(r) \/ Throw(r)
    BY <1>3, <2>2, FinishStill
  <2>3. QED
    BY <1>6, <2>1, <2>2 DEF EndNext
<1>7. QED
  BY <1>1, <1>2, <1>4, <1>5, <1>6 DEF Next

LEMMA OwnedInit ==
  ASSUME Init
  PROVE  Owned /\ Lease!LeaseInit
<1>1. \A r \in Slots : run[r].pc = "idle" /\ ~run[r].outlived
  BY IdleType DEF Init
<1>2. \A r \in Slots : ~Inside(r)
  BY <1>1 DEF Inside
<1>3. lease.owner = None
  BY DEF Init, NoLease
<1>4. Owned
  BY <1>1, <1>3, GscAssumption DEF Owned
<1>5. Valid = {}
  BY <1>3 DEF Valid, Free
<1>6. /\ AtWork = [x \in {"collection"} |-> {}]
      /\ Late = [x \in {"collection"} |-> {}]
  BY <1>2 DEF AtWork, Late
<1>7. QED
  BY <1>4, <1>5, <1>6 DEF Lease!LeaseInit, Lease!Nobody, Valid, AtWork, Late

(* The row of gsc_sync_state is a lease: crons and administrators take it  *)
(* when it is free or expired only, acquireLease answers nobody while it   *)
(* is in force, and releaseLease frees no lease but the caller's.          *)
THEOREM CollectionLeases == Spec => ImplementsLeases
<1>1. Init => Owned /\ Lease!LeaseInit
  BY OwnedInit
<1>2. Inv /\ Owned /\ [Next]_vars => Owned' /\ [Lease!LeaseNext]_Lease!leaseVars
  BY OwnedStep DEF Lease!leaseVars, Valid, AtWork, Late
<1>3. QED
  BY <1>1, <1>2, Invariant, PTL DEF Spec, ImplementsLeases, Lease!LeaseSpec
-----------------------------------------------------------------------------
(* The daily pass, while nothing is in its way.                            *)

Chunks(n) == n * ChunkDays

(* Where the first chunk of a backfill begins on the first day.            *)
FirstStart == -ReportLag - ReconcileDays

(* The row of a property n chunks after its backfill has begun.            *)
Reached(row, n) ==
  /\ row.known /\ row.cursor # None
  /\ row.complete <=> row.cursor < -RetentionDays
  /\ row.cursor >= -RetentionDays => row.cursor + Chunks(n) <= FirstStart

(* The row that the cron of tick n finds while the backfill goes on.       *)
Before(row, n) ==
  IF n = 0 THEN row.cursor = None /\ ~row.complete ELSE Reached(row, n)

AllDone == \A p \in Properties : rows[p].known /\ rows[p].complete

(* What the cron of tick n finds.                                          *)
Found(n) ==
  IF n = 0
  THEN success = None /\ daily = 0 /\ \A p \in Properties : Before(rows[p], 0)
  ELSE /\ success \in 0 .. n - 1 /\ n - success <= DailyInterval
       /\ \/ DailyInterval = 1 /\ daily = success
          \/ AllDone /\ (daily = success \/ (daily = 0 /\ success < TicksPerDay))
          \/ /\ DailyInterval > 1 /\ success = n - 1 /\ daily = 0 /\ ~AllDone
             /\ \A p \in Properties : Reached(rows[p], n)

(* What the collection of a cron has to do once it has been decided.       *)
Chosen(r) ==
  IF DailyInterval = 1 THEN run[r].scope # "backfill"
  ELSE IF run[r].scope = "daily" THEN AllDone
  ELSE /\ now < TicksPerDay /\ daily = 0
       /\ run[r].scope = "full" <=> now = 0
       /\ \A p \in Properties : Before(rows[p], now)

Fit(r) == ~run[r].failed /\ ~run[r].deferred /\ run[r].discovered

(* ... and how far it has come with it.                                    *)
Underway(r) ==
  IF DailyInterval = 1 THEN run[r].scope # "backfill"
  ELSE IF run[r].scope = "daily"
  THEN AllDone /\ \A p \in Properties : run[r].rows[p].complete
  ELSE /\ now < TicksPerDay /\ daily = 0 /\ run[r].listed = Properties
       /\ run[r].scope = "full" <=> now = 0
       /\ \A p \in Properties :
            IF run[r].pc = "finish" \/ p < run[r].at THEN Reached(rows[p], now + 1)
            ELSE Before(run[r].rows[p], now)
       /\ run[r].pc \in {"window", "details", "mark"} =>
            rows[run[r].at].known /\ Plan(r) # <<>>
       /\ run[r].pc = "mark" => run[r].left = <<>> /\ run[r].collected > 0

Early == {"idle", "decide", "acquire", "sync", "rows"}

RunOK(r) ==
  /\ run[r].pc \in Early => run[r].at = 1
  /\ run[r].pc # "idle" => started.cron /\ run[r].cron
  /\ run[r].pc \notin {"idle", "release"} => ~served
  /\ run[r].pc = "decide" => Found(now) /\ (run[r].due <=> DailyDue)
  /\ run[r].pc \in {"acquire", "sync", "rows"} => Chosen(r)
  /\ run[r].pc \in Reading \cup {"finish"} /\ Fit(r) => Underway(r)

Alone == \A r, q \in Slots : run[r].pc # "idle" /\ run[q].pc # "idle" => r = q

Smooth ==
  /\ now - daily <= TwoDays
  /\ Alone
  /\ ~started.cron => Found(now) /\ ~served /\ \A r \in Slots : run[r].pc = "idle"
  /\ served => Found(now + 1)
  /\ \A r \in Slots : RunOK(r)

SmoothInv == trouble = {} => Smooth

-----------------------------------------------------------------------------
(* Chunks, days and rows.                                                  *)
LEMMA Pace ==
  /\ DailyInterval \in Nat \ {0} /\ TicksPerDay \in Nat \ {0} /\ DailyInterval <= TicksPerDay
  /\ FirstStart \in Int /\ FirstStart >= -RetentionDays
  /\ RetentionDays \in Nat /\ ChunkDays \in Nat \ {0}
  /\ Chunks(TicksPerDay) \in Nat /\ FirstStart + RetentionDays < Chunks(TicksPerDay)
<1>1. TicksPerDay * ChunkDays \in Nat
  BY ConstantTypes DEF Constants
<1>2. QED
  BY <1>1, ConstantTypes, GscAssumption, PaceAssumption DEF Constants, FirstStart, Chunks

LEMMA ChunkCount ==
  ASSUME NEW n \in Nat
  PROVE  /\ Chunks(n) \in Nat /\ Chunks(n + 1) \in Nat
         /\ Chunks(n + 1) = Chunks(n) + ChunkDays /\ Chunks(0) = 0
         /\ n >= TicksPerDay => Chunks(n) >= Chunks(TicksPerDay)
<1>1. ChunkDays \in Nat /\ TicksPerDay \in Nat
  BY ConstantTypes DEF Constants
<1>2. n * ChunkDays \in Nat /\ (n + 1) * ChunkDays \in Nat
  BY <1>1
<1>3. (n + 1) * ChunkDays = n * ChunkDays + ChunkDays
  BY <1>1
<1>4. 0 * ChunkDays = 0
  BY <1>1
<1>5. n >= TicksPerDay => n * ChunkDays >= TicksPerDay * ChunkDays
  BY <1>1
<1>6. QED
  BY <1>2, <1>3, <1>4, <1>5 DEF Chunks

LEMMA FirstDay ==
  ASSUME now \in 0 .. MaxTick, now < TicksPerDay
  PROVE  /\ Floor = -RetentionDays /\ Newest - ReconcileDays = FirstStart
         /\ now \in Nat
<1>1. now \in Nat /\ TicksPerDay \in Nat \ {0}
  BY ConstantTypes DEF Constants
<1>2. Today = 0
  BY <1>1 DEF Today
<1>3. QED
  BY <1>1, <1>2, ConstantTypes DEF Constants, Floor, Newest, FirstStart

LEMMA RowTypes ==
  ASSUME NEW row \in Row
  PROVE  /\ row.known \in BOOLEAN /\ row.complete \in BOOLEAN
         /\ row.cursor \in Int \cup {None} /\ None \notin Int
BY GscAssumption, ConstantTypes DEF Row, Days, Constants

(* A backfill that goes on is on its first day.                            *)
LEMMA GoesOn ==
  ASSUME TypeOK, NEW n \in Nat, ~AllDone, \A p \in Properties : Reached(rows[p], n)
  PROVE  n < TicksPerDay
<1>1. PICK p \in Properties : ~(rows[p].known /\ rows[p].complete)
  BY DEF AllDone
<1>2. rows[p] \in Row
  BY DEF TypeOK
<1>3. ~rows[p].complete /\ rows[p].cursor \in Int
  BY <1>1, <1>2, RowTypes DEF Reached
<1>4. rows[p].cursor >= -RetentionDays
  BY <1>3, Pace DEF Reached
<1>5. rows[p].cursor + Chunks(n) <= FirstStart
  BY <1>4 DEF Reached
<1>6. QED
  BY <1>3, <1>4, <1>5, Pace, ChunkCount

(* The cron comes in time.                                                 *)
LEMMA FoundInTime ==
  ASSUME TypeOK, NEW n \in Nat, Found(n)
  PROVE  n - daily <= TwoDays
<1>1. TwoDays = TicksPerDay + TicksPerDay /\ daily \in Nat
  BY Pace, ConstantTypes DEF TwoDays, TypeOK, Constants
<1>2. CASE n = 0
  BY <1>1, <1>2, Pace DEF Found
<1>3. CASE n # 0
  <2>1. /\ success \in 0 .. n - 1 /\ n - success <= DailyInterval
        /\ \/ DailyInterval = 1 /\ daily = success
           \/ AllDone /\ (daily = success \/ (daily = 0 /\ success < TicksPerDay))
           \/ /\ daily = 0 /\ ~AllDone /\ \A p \in Properties : Reached(rows[p], n)
    BY <1>3 DEF Found
  <2>2. daily = 0 /\ ~AllDone /\ (\A p \in Properties : Reached(rows[p], n)) =>
          n < TicksPerDay
    BY GoesOn
  <2>3. QED
    BY <1>1, <2>1, <2>2, Pace
<1>4. QED
  BY <1>2, <1>3

(* One chunk further.                                                      *)
LEMMA ChunkReached ==
  ASSUME now \in 0 .. MaxTick, now < TicksPerDay, NEW scope \in {"full", "backfill"},
         scope = "full" <=> now = 0, NEW row \in Row, Before(row, now)
  PROVE  LET plan == Backfill(scope, row) IN
         /\ Planned(scope, row) = <<>> =>
              /\ row.cursor # None /\ row.cursor < -RetentionDays
              /\ row.known /\ row.complete
         /\ Planned(scope, row) # <<>> =>
              /\ plan.next # None
              /\ plan.complete <=> plan.next < -RetentionDays
              /\ plan.next >= -RetentionDays => plan.next + Chunks(now + 1) <= FirstStart
<1> DEFINE start == BackfillStart(row.cursor)
           from == ChunkFrom(start)
<1>1. /\ Floor = -RetentionDays /\ now \in Nat /\ Newest - ReconcileDays = FirstStart
      /\ Floor \in Int /\ FirstStart \in Int
  BY FirstDay, Pace, ConstantTypes DEF Constants
<1>2. row.cursor \in Int \cup {None} /\ None \notin Int /\ row.complete \in BOOLEAN
  BY RowTypes
<1>3. Backfill(scope, row) = BackfillWindow(row.cursor)
  BY DEF Backfill
<1>4. /\ start \in Int
      /\ start >= Floor => start + Chunks(now) <= FirstStart
      /\ start < Floor => /\ now # 0 /\ row.cursor # None /\ row.cursor < -RetentionDays
                         /\ row.known /\ row.complete
  <2>1. CASE now = 0
    <3>1. start = FirstStart /\ Chunks(now) = 0
      BY <1>1, <2>1, ChunkCount DEF Before, BackfillStart
    <3>2. QED
      BY <1>1, <3>1, Pace
  <2>2. CASE now # 0
    <3>1. Reached(row, now) /\ start = row.cursor
      BY <2>2 DEF Before, Reached, BackfillStart
    <3>2. QED
      BY <1>1, <1>2, <2>2, <3>1 DEF Reached
  <2>3. QED
    BY <2>1, <2>2
<1>5. CASE start < Floor
  <2>1. Backfill(scope, row).windows = <<>>
    BY <1>3, <1>5 DEF BackfillWindow
  <2>2. scope = "backfill"
    BY <1>4, <1>5
  <2>3. Planned(scope, row) = <<>>
    BY <2>1, <2>2 DEF Planned
  <2>4. QED
    BY <1>4, <1>5, <2>3
<1>6. CASE ~(start < Floor)
  <2> DEFINE last == from - 1 < Floor
             chunk == [from |-> from, to |-> start]
  <2>1. Backfill(scope, row) = [windows |-> <<chunk>>, next |-> from - 1, complete |-> last]
    BY <1>3, <1>6 DEF BackfillWindow
  <2> HIDE DEF last
  <2>2. /\ Backfill(scope, row).windows = <<chunk>> /\ Backfill(scope, row).next = from - 1
        /\ Backfill(scope, row).complete = last
    BY <2>1
  <2>3. /\ from \in Int /\ from >= Floor
        /\ from > Floor => from = start - ChunkDays + 1
    BY <1>1, <1>4, Pace DEF ChunkFrom, Later
  <2>4. Planned(scope, row) # <<>>
    <3>1. <<chunk>> # <<>> /\ <<chunk, ReconcileWindow>> # <<>>
          /\ <<[from |-> <<chunk>>[1].from, to |-> Newest]>> # <<>>
      OBVIOUS
    <3>2. QED
      BY <2>2, <3>1 DEF Planned
  <2>5. Chunks(now + 1) = Chunks(now) + ChunkDays /\ Chunks(now) \in Nat
    BY <1>1, ChunkCount
  <2>6. from - 1 >= -RetentionDays => from - 1 + Chunks(now + 1) <= FirstStart
    BY <1>1, <1>4, <1>6, <2>3, <2>5, Pace
  <2>7. last <=> from - 1 < -RetentionDays
    BY <1>1 DEF last
  <2>8. from - 1 # None
    BY <1>2, <2>3
  <2>9. QED
    BY <2>2, <2>4, <2>6, <2>7, <2>8
<1>7. QED
  BY <1>5, <1>6

(* What a row has reached does not depend on when that is said.            *)
LEMMA ReachedLater ==
  ASSUME UNCHANGED now, NEW r \in Slots
  PROVE  /\ \A p \in Properties : Reached(rows[p], now + 1)' <=> Reached(rows'[p], now + 1)
         /\ \A p \in Properties : Before(rows[p], now)' <=> Before(rows'[p], now)
         /\ \A p \in Properties : Before(run[r].rows[p], now)' <=> Before(run'[r].rows[p], now)
BY DEF Reached, Before, Chunks

LEMMA FoundLater ==
  ASSUME UNCHANGED <<now, success, daily, rows>>
  PROVE  /\ Found(now)' <=> Found(now)
         /\ Found(now + 1)' <=> Found(now + 1)
         /\ DailyDue' <=> DailyDue
         /\ AllDone' <=> AllDone
BY DEF Found, DailyDue, AllDone, Reached, Before, Chunks

(* A step of the only collection.                                          *)
LEMMA SmoothMove ==
  ASSUME Inv, Smooth, NEW r \in Slots, run[r].pc # "idle", NEW new \in Run,
         run' = [run EXCEPT ![r] = new],
         UNCHANGED <<now, started, daily, served>>, served => UNCHANGED <<success, rows>>,
         RunOK(r)'
  PROVE  Smooth'
<1>1. run'[r] = new /\ \A q \in Slots \ {r} : run'[q] = run[q]
  BY Moved DEF Inv
<1>2. \A q \in Slots \ {r} : run'[q].pc = "idle" /\ run'[q].at = 1
  BY <1>1 DEF Smooth, Alone, RunOK, Early
<1>3. \A q \in Slots \ {r} : RunOK(q)'
  BY <1>2 DEF RunOK, Early, Reading
<1>4. \A q \in Slots : RunOK(q)'
  BY <1>3
<1>5. Alone'
  BY <1>2 DEF Alone
<1>6. (now - daily <= TwoDays)' /\ started.cron'
  <2>1. started.cron
    BY DEF Smooth, RunOK
  <2>2. QED
    BY <2>1 DEF Smooth, TwoDays
<1>7. served' => Found(now + 1)'
  BY FoundLater DEF Smooth
<1>8. QED
  BY <1>4, <1>5, <1>6, <1>7 DEF Smooth

(* ... while it reads and writes the properties.                           *)
LEMMA SmoothWork ==
  ASSUME Inv, Smooth, NEW r \in Slots, run[r].pc \in Reading \cup {"rows"}, NEW new \in Run,
         run' = [run EXCEPT ![r] = new], new.pc \in Reading \cup {"finish"},
         new.cron = run[r].cron, UNCHANGED <<now, started, daily, served>>,
         Fit(r)' => Underway(r)'
  PROVE  Smooth'
<1>1. run'[r] = new
  BY Moved DEF Inv
<1>2. ~served /\ started.cron /\ run[r].cron
  BY DEF Smooth, RunOK, Reading
<1>3. RunOK(r)'
  <2>1. new.pc \notin Early /\ new.pc # "idle" /\ new.pc # "decide"
        /\ new.pc \notin {"acquire", "sync", "rows"}
    BY DEF Early, Reading
  <2>2. started.cron' /\ run[r].cron'
    BY <1>1, <1>2
  <2>3. (run[r].pc)' = new.pc
    BY <1>1
  <2>4. QED
    BY <1>2, <2>1, <2>2, <2>3 DEF RunOK
<1>4. run[r].pc # "idle"
  BY DEF Reading
<1>5. QED
  BY <1>2, <1>3, <1>4, SmoothMove

LEMMA OnwardKeeps ==
  ASSUME NEW r, NEW s \in Run
  PROVE  /\ Onward(r, s).cron = s.cron /\ Onward(r, s).scope = s.scope
         /\ Onward(r, s).rows = s.rows /\ Onward(r, s).listed = s.listed
         /\ Onward(r, s).discovered = s.discovered /\ Onward(r, s).failed = s.failed
         /\ Onward(r, s).deferred = s.deferred
         /\ s.at = PropertyCount => Onward(r, s).pc = "finish"
         /\ s.at # PropertyCount =>
              Onward(r, s).pc = "property" /\ Onward(r, s).at = s.at + 1
<1> DEFINE none == <<>>
           zero == 0
           at == s.at + 1
           last == [s EXCEPT !.pc = "finish", !.left = none, !.collected = zero]
           next == [s EXCEPT !.pc = "property", !.left = none, !.collected = zero,
                             !.at = at]
<1>1. Onward(r, s) = IF s.at = PropertyCount THEN last ELSE next
  BY DEF Onward
<1> HIDE DEF none, zero, at
<1>2. /\ last.cron = s.cron /\ last.scope = s.scope /\ last.rows = s.rows
      /\ last.listed = s.listed /\ last.discovered = s.discovered
      /\ last.failed = s.failed /\ last.deferred = s.deferred /\ last.pc = "finish"
  BY DEF Run
<1>3. /\ next.cron = s.cron /\ next.scope = s.scope /\ next.rows = s.rows
      /\ next.listed = s.listed /\ next.discovered = s.discovered
      /\ next.failed = s.failed /\ next.deferred = s.deferred /\ next.pc = "property"
      /\ next.at = at
  BY DEF Run
<1> HIDE DEF last, next
<1>4. QED
  BY <1>1, <1>2, <1>3 DEF at

(* A property done.                                                        *)
LEMMA SmoothOnward ==
  ASSUME Inv, Smooth, NEW r \in Slots, NEW s \in Run, run[r].pc \in Reading,
         s.cron = run[r].cron, s.scope = run[r].scope, s.rows = run[r].rows,
         s.listed = run[r].listed, s.discovered = run[r].discovered, s.at = run[r].at,
         s.failed = run[r].failed, s.deferred = run[r].deferred,
         run' = [run EXCEPT ![r] = Onward(r, s)],
         UNCHANGED <<now, started, daily, served>>,
         NEW at, at = run[r].at, \A p \in Properties \ {at} : rows'[p] = rows[p],
         Fit(r) /\ Underway(r) =>
           \/ DailyInterval = 1
           \/ run[r].scope = "daily" /\ rows'[at].known /\ rows'[at].complete
           \/ run[r].scope # "daily" /\ Reached(rows'[at], now + 1)
  PROVE  Smooth'
<1> DEFINE new == Onward(r, s)
<1>1. new \in Run /\ new.pc \in Reading \cup {"finish"} /\ run'[r] = new /\ at \in Properties
  BY OnwardType, Moved DEF Inv, Reading, Run
<1>2. /\ new.cron = run[r].cron /\ new.scope = run[r].scope
      /\ new.rows = run[r].rows /\ new.listed = run[r].listed
      /\ new.discovered = run[r].discovered /\ new.failed = run[r].failed
      /\ new.deferred = run[r].deferred
      /\ at = PropertyCount => new.pc = "finish"
      /\ at # PropertyCount => new.pc = "property" /\ new.at = at + 1
  BY OnwardKeeps
<1> HIDE DEF new
<1>3. ASSUME Fit(r)' PROVE Underway(r)'
  <2>1. Fit(r)
    BY <1>1, <1>2, <1>3 DEF Fit
  <2>2. Underway(r)
    BY <2>1 DEF Smooth, RunOK
  <2>3. CASE DailyInterval = 1
    BY <1>1, <1>2, <2>2, <2>3 DEF Underway
  <2>4. CASE DailyInterval # 1 /\ run[r].scope = "daily"
    <3>1. AllDone /\ \A p \in Properties : run[r].rows[p].complete
      BY <2>2, <2>4 DEF Underway
    <3>2. rows'[at].known /\ rows'[at].complete
      BY <2>1, <2>2, <2>4
    <3>3. AllDone'
      BY <3>1, <3>2 DEF AllDone
    <3>4. QED
      BY <1>1, <1>2, <2>4, <3>1, <3>3 DEF Underway
  <2>5. CASE DailyInterval # 1 /\ run[r].scope # "daily"
    <3>1. /\ now < TicksPerDay /\ daily = 0 /\ run[r].listed = Properties
          /\ run[r].scope = "full" <=> now = 0
          /\ \A p \in Properties :
               IF p < at THEN Reached(rows[p], now + 1)
               ELSE Before(run[r].rows[p], now)
      <4>1. run[r].pc # "finish"
        BY DEF Reading
      <4>2. QED
        BY <2>2, <2>5, <4>1 DEF Underway
    <3>2. Reached(rows'[at], now + 1)
      BY <2>1, <2>2, <2>5
    <3>3. ASSUME NEW p \in Properties
          PROVE  IF new.pc = "finish" \/ p < new.at THEN Reached(rows'[p], now + 1)
                 ELSE Before(new.rows[p], now)
      <4>1. p \in Nat /\ at \in Nat /\ p <= PropertyCount /\ PropertyCount \in Nat
        BY <1>1, ConstantTypes DEF Properties, Constants
      <4>2. CASE p < at
        <5>1. rows'[p] = rows[p] /\ Reached(rows[p], now + 1)
          BY <3>1, <4>1, <4>2
        <5>2. p < new.at \/ new.pc = "finish"
          BY <1>2, <4>1, <4>2
        <5>3. QED
          BY <5>1, <5>2
      <4>3. CASE p = at
        BY <1>2, <3>2, <4>1, <4>3
      <4>4. CASE p > at
        <5>1. new.pc = "property" /\ new.at = at + 1 /\ ~(p < new.at)
          BY <1>2, <4>1, <4>4
        <5>2. Before(new.rows[p], now)
          BY <1>2, <3>1, <4>1, <4>4
        <5>3. QED
          BY <5>1, <5>2
      <4>5. QED
        BY <4>1, <4>2, <4>3, <4>4
    <3>4. (\A p \in Properties :
             IF run[r].pc = "finish" \/ p < run[r].at THEN Reached(rows[p], now + 1)
             ELSE Before(run[r].rows[p], now))'
      BY <1>1, <3>3, ReachedLater
    <3>5. new.pc \notin {"window", "details", "mark"}
      BY <1>2
    <3>6. QED
      BY <1>1, <1>2, <2>5, <3>1, <3>4, <3>5 DEF Underway
  <2>6. QED
    BY <2>3, <2>4, <2>5
<1>4. QED
  BY <1>1, <1>2, <1>3, SmoothWork DEF new
-----------------------------------------------------------------------------
(* The start of a collection of the cron.                                  *)

LEMMA IdleRow == Idle.at = 1 /\ Idle.pc = "idle"
BY DEF Idle

LEMMA SmoothEnd ==
  ASSUME Inv, Smooth, NEW r \in Slots, run[r].pc # "idle", End(r),
         UNCHANGED <<now, started, daily, served>>, served => UNCHANGED <<success, rows>>
  PROVE  Smooth'
<1>1. Idle \in Run /\ Idle.pc = "idle" /\ Idle.at = 1
  BY IdleType, IdleRow
<1>2. run' = [run EXCEPT ![r] = Idle] /\ run'[r] = Idle
  BY <1>1, Moved DEF End, Inv
<1>3. RunOK(r)'
  BY <1>1, <1>2 DEF RunOK, Early, Reading
<1>4. QED
  BY <1>1, <1>2, <1>3, SmoothMove

LEMMA SmoothCronRead ==
  ASSUME Inv, Smooth, NEW r \in Slots, CronRead(r)
  PROVE  Smooth'
<1> DEFINE p == run[r]
           due == DailyDue
           yes == TRUE
           new == [p EXCEPT !.pc = "decide", !.cron = yes, !.due = due]
           old == started
<1>1. /\ run' = [run EXCEPT ![r] = new] /\ p \in Run /\ old \in [cron : BOOLEAN, manual : 0 .. MaxManual]
      /\ started' = [old EXCEPT !.cron = yes] /\ ~old.cron /\ p.pc = "idle"
      /\ UNCHANGED <<now, lease, success, tables, history>>
  BY HistoryTypes DEF CronRead
<1>2. due \in BOOLEAN /\ yes \in BOOLEAN
  BY DEF DailyDue
<1> HIDE DEF due, yes, p, old
<1>3. new \in Run /\ new.pc = "decide" /\ new.cron = yes /\ new.due = due /\ new.at = p.at
  BY <1>1, <1>2 DEF Run
<1>4. started'.cron = yes
  BY <1>1
<1> HIDE DEF new
<1>5. run'[r] = new /\ \A q \in Slots \ {r} : run'[q] = run[q]
  BY <1>1, <1>3, Moved DEF Inv
<1>6. Found(now) /\ ~served /\ (\A q \in Slots : run[q].pc = "idle")
  BY <1>1 DEF Smooth, old
<1>7. \A q \in Slots : run[q].at = 1
  BY <1>6 DEF Smooth, RunOK, Early
<1>8. UNCHANGED <<now, success, daily, rows, served>>
  BY <1>1 DEF tables, history
<1>9. /\ Found(now)' /\ ~served'
      /\ DailyDue' <=> DailyDue
  BY <1>6, <1>8, FoundLater
<1>10. RunOK(r)'
  <2>1. run'[r].pc = "decide" /\ run'[r].at = 1
    BY <1>3, <1>5, <1>7 DEF p
  <2>2. run'[r].cron /\ started'.cron
    BY <1>3, <1>4, <1>5 DEF yes
  <2>3. run'[r].due <=> DailyDue'
    BY <1>3, <1>5, <1>9 DEF due
  <2>4. QED
    BY <1>9, <2>1, <2>2, <2>3 DEF RunOK, Reading
<1>11. \A q \in Slots \ {r} : RunOK(q)'
  BY <1>5, <1>6, <1>7 DEF RunOK, Reading
<1>12. Alone'
  BY <1>5, <1>6 DEF Alone
<1>13. (now - daily <= TwoDays)'
  BY <1>8 DEF Smooth, TwoDays
<1>14. started'.cron
  BY <1>4 DEF yes
<1>15. QED
  BY <1>9, <1>10, <1>11, <1>12, <1>13, <1>14 DEF Smooth

(* What the cron reads of the daily clock is what it finds.                *)
LEMMA SmoothNotDue ==
  ASSUME Inv, Smooth, NEW r \in Slots, NotDue(r)
  PROVE  Smooth'
<1>1. /\ run[r].pc = "decide" /\ End(r) /\ served'
      /\ UNCHANGED <<now, started, success, rows, daily>>
  BY DEF NotDue, tables
<1>2. Found(now) /\ ~DailyDue /\ started.cron
  BY <1>1 DEF NotDue, Smooth, RunOK
<1>3. AllDone
  BY DEF NotDue, BackfillPending, AllDone
<1>4. /\ now \in Nat /\ success \in 0 .. MaxTick \cup {None} /\ daily \in Nat /\ MaxTick \in Nat
      /\ None \notin Int
  BY HistoryTypes, ConstantTypes, GscAssumption DEF Constants
<1>5. success # None /\ now - success < DailyInterval
  BY <1>2, <1>4, Pace DEF DailyDue
<1>6. Found(now + 1)
  <2>1. now # 0 /\ now + 1 # 0 /\ success \in 0 .. now - 1 /\ success \in 0 .. (now + 1) - 1
        /\ (now + 1) - success <= DailyInterval /\ success \in Int
    BY <1>2, <1>4, <1>5, Pace DEF Found
  <2>2. daily = success \/ (daily = 0 /\ success < TicksPerDay)
    BY <1>2, <1>3, <1>5, <2>1, Pace DEF Found
  <2>3. QED
    BY <1>3, <2>1, <2>2 DEF Found
<1>7. Found(now + 1)'
  BY <1>1, <1>6, FoundLater
<1>8. Idle.pc = "idle" /\ Idle.at = 1 /\ Idle \in Run
  BY IdleType, IdleRow
<1>9. run'[r] = Idle /\ \A q \in Slots \ {r} : run'[q] = run[q]
  BY <1>1, <1>8, Moved DEF Inv, End
<1>10. \A q \in Slots : run'[q].pc = "idle" /\ run'[q].at = 1
  <2>1. \A q \in Slots \ {r} : run[q].pc = "idle" /\ run[q].at = 1
    BY <1>1 DEF Smooth, Alone, RunOK, Early
  <2>2. QED
    BY <1>8, <1>9, <2>1
<1>11. \A q \in Slots : RunOK(q)'
  BY <1>10 DEF RunOK, Reading
<1>12. Alone'
  BY <1>10 DEF Alone
<1>13. (now - daily <= TwoDays)' /\ started'.cron
  <2>1. started'.cron
    BY <1>1, <1>2
  <2>2. QED
    BY <1>1, <2>1 DEF Smooth, TwoDays
<1>14. QED
  BY <1>7, <1>11, <1>12, <1>13 DEF Smooth

(* On its way to the properties.                                           *)
LEMMA SmoothOnTheWay ==
  ASSUME Inv, Smooth, NEW r \in Slots, run[r].pc \in {"decide", "acquire", "sync"},
         NEW new \in Run, run' = [run EXCEPT ![r] = new], new.at = run[r].at,
         new.pc \in {"acquire", "sync", "rows"}, new.cron = run[r].cron,
         UNCHANGED <<now, started, daily, served, success, rows>>, Chosen(r)'
  PROVE  Smooth'
<1>1. run'[r] = new
  BY Moved DEF Inv
<1>2. started.cron /\ run[r].cron /\ ~served /\ run[r].at = 1
  BY DEF Smooth, RunOK, Early
<1>3. run'[r].cron /\ started'.cron
  BY <1>1, <1>2
<1>4. run'[r].pc \in {"acquire", "sync", "rows"} /\ run'[r].at = 1 /\ ~served'
  BY <1>1, <1>2
<1>5. RunOK(r)'
  BY <1>3, <1>4 DEF RunOK, Reading
<1>6. QED
  BY <1>5, SmoothMove

(* ... and it decides on what is to be done.                               *)
LEMMA SmoothCronDecide ==
  ASSUME Inv, Smooth, NEW r \in Slots, CronDecide(r)
  PROVE  Smooth'
<1> DEFINE p == run[r]
           no == FALSE
           scope == IF ~p.due THEN "backfill" ELSE IF BackfillPending THEN "full" ELSE "daily"
           new == [p EXCEPT !.pc = "acquire", !.due = no, !.scope = scope]
<1>1. /\ run' = [run EXCEPT ![r] = new] /\ p \in Run /\ p.pc = "decide"
      /\ p.due \/ BackfillPending
      /\ UNCHANGED <<now, started, lease, success, tables, history>>
  BY HistoryTypes DEF CronDecide
<1>2. UNCHANGED <<now, started, success, rows, daily, served>>
  BY <1>1 DEF tables, history
<1>3. Found(now) /\ (p.due <=> DailyDue)
  BY <1>1 DEF Smooth, RunOK
<1>4. BackfillPending <=> ~AllDone
  BY DEF BackfillPending, AllDone
<1>5. /\ now \in Nat /\ success \in 0 .. MaxTick \cup {None} /\ daily \in Nat /\ MaxTick \in Nat
      /\ None \notin Int /\ now \in 0 .. MaxTick
  BY HistoryTypes, ConstantTypes, GscAssumption DEF Constants
<1>6. /\ scope = IF ~DailyDue THEN "backfill" ELSE IF ~AllDone THEN "full" ELSE "daily"
      /\ DailyDue \/ ~AllDone
  BY <1>1, <1>3, <1>4
<1>7. no \in BOOLEAN /\ scope \in Scopes
  BY DEF Scopes
<1> HIDE DEF scope, no
<1>8. new \in Run /\ new.pc = "acquire" /\ new.cron = p.cron /\ new.at = p.at
      /\ new.scope = scope
  BY <1>1, <1>7 DEF Run
<1> HIDE DEF new
<1>9. run'[r] = new
  BY <1>1, <1>8, Moved DEF Inv
<1>10. Chosen(r)'
  <2>1. CASE DailyInterval = 1
    <3>1. DailyDue
      BY <1>3, <1>5, <2>1 DEF Found, DailyDue
    <3>2. QED
      BY <1>6, <1>8, <1>9, <2>1, <3>1 DEF Chosen
  <2>2. CASE DailyInterval # 1 /\ AllDone
    <3>1. scope = "daily" /\ AllDone'
      BY <1>2, <1>6, <2>2, FoundLater
    <3>2. QED
      BY <1>8, <1>9, <2>2, <3>1 DEF Chosen
  <2>3. CASE DailyInterval # 1 /\ ~AllDone
    <3>1. /\ now < TicksPerDay /\ daily = 0
          /\ \A q \in Properties : Before(rows[q], now)
          /\ DailyDue <=> now = 0
      <4>1. CASE now = 0
        BY <1>3, <4>1, Pace DEF Found, DailyDue
      <4>2. CASE now # 0
        <5>1. /\ success = now - 1 /\ daily = 0
              /\ \A q \in Properties : Reached(rows[q], now)
          BY <1>3, <2>3, <4>2 DEF Found
        <5>2. now < TicksPerDay
          BY <1>5, <2>3, <5>1, GoesOn DEF Inv
        <5>3. ~DailyDue
          BY <1>5, <2>3, <4>2, <5>1, Pace DEF DailyDue
        <5>4. QED
          BY <4>2, <5>1, <5>2, <5>3 DEF Before
      <4>3. QED
        BY <4>1, <4>2
    <3>2. scope # "daily" /\ (scope = "full" <=> now = 0)
      BY <1>6, <2>3, <3>1
    <3>3. \A q \in Properties : Before(rows[q], now)'
      BY <1>2, <3>1, ReachedLater
    <3>4. QED
      BY <1>2, <1>8, <1>9, <2>3, <3>1, <3>2, <3>3 DEF Chosen
  <2>4. QED
    BY <2>1, <2>2, <2>3
<1>11. QED
  BY <1>1, <1>2, <1>8, <1>10, SmoothOnTheWay

LEMMA ChosenKept ==
  ASSUME NEW r \in Slots, Chosen(r), run'[r].scope = run[r].scope,
         UNCHANGED <<now, success, daily, rows>>
  PROVE  Chosen(r)'
<1>1. /\ AllDone' <=> AllDone
      /\ \A p \in Properties : Before(rows[p], now)' <=> Before(rows[p], now)
  BY FoundLater, ReachedLater
<1>2. QED
  BY <1>1 DEF Chosen

LEMMA SmoothAcquire ==
  ASSUME Inv, Smooth, NEW r \in Slots, AcquireLease(r) \/ ReadSync(r)
  PROVE  Smooth'
<1> DEFINE p == run[r]
           locked == [p EXCEPT !.pc = "sync"]
           read == [p EXCEPT !.pc = "rows", !.prior = success]
<1>1. /\ p \in Run /\ p.pc \in {"acquire", "sync"} /\ success \in 0 .. MaxTick \cup {None}
      /\ UNCHANGED <<now, started, success, rows, daily, served>>
  BY HistoryTypes DEF AcquireLease, ReadSync, tables, history
<1>2. run' = [run EXCEPT ![r] = locked] \/ run' = [run EXCEPT ![r] = read]
  BY <1>1 DEF AcquireLease, ReadSync, Goto, Inv, TypeOK
<1>3. /\ locked \in Run /\ locked.pc = "sync" /\ locked.cron = p.cron /\ locked.at = p.at
      /\ locked.scope = p.scope
      /\ read \in Run /\ read.pc = "rows" /\ read.cron = p.cron /\ read.at = p.at
      /\ read.scope = p.scope
  BY <1>1 DEF Run
<1> HIDE DEF locked, read
<1>4. PICK new \in {locked, read} : run' = [run EXCEPT ![r] = new]
  BY <1>2
<1>5. /\ new \in Run /\ new.pc \in {"sync", "rows"} /\ new.cron = p.cron /\ new.at = p.at
      /\ new.scope = p.scope
  BY <1>3, <1>4
<1>6. run'[r] = new
  BY <1>4, <1>5, Moved DEF Inv
<1>7. Chosen(r)'
  BY <1>1, <1>5, <1>6, ChosenKept DEF Smooth, RunOK
<1>8. QED
  BY <1>1, <1>4, <1>5, <1>7, SmoothOnTheWay

LEMMA SmoothEnds ==
  ASSUME Inv, Smooth, NEW r \in Slots, LeaseHeld(r) \/ ReleaseLease(r) \/ Die(r)
  PROVE  Smooth'
BY SmoothEnd DEF LeaseHeld, ReleaseLease, Die, tables, history

(* What is read before the first property is what the cron has found.      *)
LEMMA SmoothReadProperties ==
  ASSUME Inv, Smooth, NEW r \in Slots, ReadProperties(r), trouble' = {}
  PROVE  Smooth'
<1>1. PICK listed \in SUBSET Properties, discovered \in BOOLEAN :
        /\ run' = [run EXCEPT ![r].pc = "property", ![r].rows = rows,
                     ![r].listed = listed, ![r].discovered = discovered]
        /\ trouble' = IF discovered /\ listed # Properties
                      THEN trouble \cup {"unlisted"} ELSE trouble
  BY DEF ReadProperties
<1> DEFINE p == run[r]
           table == rows
           new == [p EXCEPT !.pc = "property", !.rows = table, !.listed = listed,
                            !.discovered = discovered]
<1>2. /\ p \in Run /\ p.pc = "rows" /\ table \in [Properties -> Row]
      /\ UNCHANGED <<now, started, success, rows, daily, served>>
  BY HistoryTypes DEF ReadProperties, Inv, TypeOK, tables
<1>3. run' = [run EXCEPT ![r] = new]
  BY <1>1, <1>2 DEF Inv, TypeOK
<1>4. new \in Run /\ new.pc = "property" /\ new.cron = p.cron /\ new.at = p.at
      /\ new.scope = p.scope /\ new.rows = rows /\ new.listed = listed
      /\ new.discovered = discovered
  BY <1>2 DEF Run
<1> HIDE DEF new
<1>5. run'[r] = new
  BY <1>3, <1>4, Moved DEF Inv
<1>6. Chosen(r) /\ p.at = 1
  BY <1>2 DEF Smooth, RunOK, Early
<1>7. ASSUME Fit(r)' PROVE Underway(r)'
  <2>1. listed = Properties
    BY <1>1, <1>4, <1>5, <1>7 DEF Fit
  <2>2. CASE DailyInterval = 1
    BY <1>4, <1>5, <1>6, <2>2 DEF Underway, Chosen
  <2>3. CASE DailyInterval # 1 /\ p.scope = "daily"
    <3>1. AllDone
      BY <1>6, <2>3 DEF Chosen
    <3>2. AllDone' /\ \A q \in Properties : run'[r].rows[q].complete
      BY <1>2, <1>4, <1>5, <3>1, FoundLater DEF AllDone
    <3>3. QED
      BY <1>4, <1>5, <2>3, <3>2 DEF Underway
  <2>4. CASE DailyInterval # 1 /\ p.scope # "daily"
    <3>1. /\ now < TicksPerDay /\ daily = 0
          /\ p.scope = "full" <=> now = 0
          /\ \A q \in Properties : Before(rows[q], now)
      BY <1>6, <2>4 DEF Chosen
    <3>2. \A q \in Properties : Before(run[r].rows[q], now)'
      BY <1>2, <1>4, <1>5, <3>1, ReachedLater
    <3>3. \A q \in Properties : ~(q < 1)
      BY DEF Properties
    <3>4. /\ run'[r].pc = "property" /\ run'[r].at = 1
          /\ \A q \in Properties : ~(q < run'[r].at)
      BY <1>4, <1>5, <1>6, <3>3
    <3>5. QED
      BY <1>2, <1>4, <1>5, <2>1, <2>4, <3>1, <3>2, <3>4 DEF Underway
  <2>5. QED
    BY <2>2, <2>3, <2>4
<1>8. QED
  BY <1>2, <1>3, <1>4, <1>7, SmoothWork DEF Reading
-----------------------------------------------------------------------------
(* A collection at a property.                                             *)

LEMMA SmoothStays ==
  ASSUME Inv, Smooth, NEW r \in Slots, NEW new \in Run, run[r].pc \in Reading,
         run' = [run EXCEPT ![r] = new], new.pc \in {"window", "details", "mark"},
         new.cron = run[r].cron, new.scope = run[r].scope, new.rows = run[r].rows,
         new.listed = run[r].listed, new.discovered = run[r].discovered,
         new.at = run[r].at, new.failed = run[r].failed, new.deferred = run[r].deferred,
         UNCHANGED <<now, started, daily, served>>,
         NEW at, at = run[r].at, \A p \in Properties \ {at} : rows'[p] = rows[p],
         rows[at].known /\ rows[at].complete => rows'[at].known /\ rows'[at].complete,
         Fit(r) /\ Underway(r) /\ DailyInterval # 1 /\ run[r].scope # "daily" =>
           /\ rows'[at].known /\ Plan(r) # <<>>
           /\ new.pc = "mark" => new.left = <<>> /\ new.collected > 0
  PROVE  Smooth'
<1>1. run'[r] = new
  BY Moved DEF Inv
<1>2. ASSUME Fit(r)' PROVE Underway(r)'
  <2>1. Fit(r)
    BY <1>1, <1>2 DEF Fit
  <2>2. Underway(r)
    BY <2>1 DEF Smooth, RunOK
  <2>3. CASE DailyInterval = 1
    BY <1>1, <2>2, <2>3 DEF Underway
  <2>4. CASE DailyInterval # 1 /\ run[r].scope = "daily"
    <3>1. AllDone /\ \A p \in Properties : run[r].rows[p].complete
      BY <2>2, <2>4 DEF Underway
    <3>2. AllDone'
      BY <3>1 DEF AllDone
    <3>3. QED
      BY <1>1, <2>4, <3>1, <3>2 DEF Underway
  <2>5. CASE DailyInterval # 1 /\ run[r].scope # "daily"
    <3>1. /\ now < TicksPerDay /\ daily = 0 /\ run[r].listed = Properties
          /\ run[r].scope = "full" <=> now = 0
          /\ \A p \in Properties :
               IF p < at THEN Reached(rows[p], now + 1)
               ELSE Before(run[r].rows[p], now)
      <4>1. run[r].pc # "finish"
        BY DEF Reading
      <4>2. QED
        BY <2>2, <2>5, <4>1 DEF Underway
    <3>2. /\ rows'[at].known /\ Plan(r) # <<>>
          /\ new.pc = "mark" => new.left = <<>> /\ new.collected > 0
      BY <2>1, <2>2, <2>5
    <3>3. \A p \in Properties :
            IF p < at THEN Reached(rows'[p], now + 1) ELSE Before(new.rows[p], now)
      <4>1. at \in Nat /\ \A p \in Properties : p \in Nat
        BY DEF Inv, TypeOK, Run, Properties
      <4>2. \A p \in Properties : p < at => rows'[p] = rows[p]
        BY <4>1
      <4>3. QED
        BY <3>1, <4>2
    <3>4. new.pc # "finish" /\ new.at = at
      OBVIOUS
    <3>5. (\A p \in Properties :
             IF run[r].pc = "finish" \/ p < run[r].at THEN Reached(rows[p], now + 1)
             ELSE Before(run[r].rows[p], now))'
      BY <1>1, <3>3, <3>4, ReachedLater
    <3>6. Plan(r)' # <<>>
      BY <1>1, <3>2, PlanKept
    <3>7. QED
      BY <1>1, <2>5, <3>1, <3>2, <3>5, <3>6 DEF Underway
  <2>6. QED
    BY <2>3, <2>4, <2>5
<1>3. new.pc \in Reading \cup {"finish"} /\ run[r].pc \in Reading \cup {"rows"}
  BY DEF Reading
<1>4. QED
  BY <1>1, <1>2, <1>3, SmoothWork

(* What the collection has read of a property is what the table has.       *)
LEMMA ReadIsCurrent ==
  ASSUME Inv, Smooth, trouble = {}, NEW r \in Slots, run[r].pc \in Reading,
         NEW at, at = run[r].at
  PROVE  /\ at \in Properties /\ rows[at] \in Row /\ run[r].rows[at] \in Row
         /\ run[r].rows[at].cursor = rows[at].cursor
         /\ run[r].rows[at].complete = rows[at].complete
         /\ run[r].scope \in Scopes
<1>1. at \in Properties /\ run[r] \in Run
  BY DEF Inv, TypeOK, Run
<1>2. Apart
  BY DEF Apart
<1>3. at >= at
  BY <1>1 DEF Properties
<1>4. ReadOK(r)
  BY DEF Inv
<1>5. QED
  BY <1>1, <1>2, <1>3, <1>4 DEF ReadOK, Run, Inv, TypeOK

(* What a fit collection of the backfill knows of the property at hand.    *)
LEMMA AtHand ==
  ASSUME Inv, Smooth, trouble = {}, NEW r \in Slots, run[r].pc \in Reading,
         NEW at, at = run[r].at, Underway(r), DailyInterval # 1, run[r].scope # "daily"
  PROVE  LET plan == Backfill(run[r].scope, run[r].rows[at]) IN
         /\ at \in run[r].listed
         /\ Plan(r) = <<>> =>
              /\ rows[at].cursor # None /\ rows[at].cursor < -RetentionDays
              /\ rows[at].complete
         /\ Plan(r) # <<>> =>
              /\ plan.next # None
              /\ plan.complete <=> plan.next < -RetentionDays
              /\ plan.next >= -RetentionDays => plan.next + Chunks(now + 1) <= FirstStart
<1> DEFINE row == run[r].rows[at]
           scope == run[r].scope
<1>1. /\ at \in Properties /\ row \in Row /\ row.cursor = rows[at].cursor
      /\ row.complete = rows[at].complete /\ scope \in Scopes
  BY ReadIsCurrent
<1>2. /\ now < TicksPerDay /\ run[r].listed = Properties
      /\ scope = "full" <=> now = 0
      /\ Before(row, now)
  <2>1. run[r].pc # "finish" /\ ~(at < at)
    BY <1>1 DEF Reading, Properties
  <2>2. QED
    BY <1>1, <2>1 DEF Underway
<1>3. scope \in {"full", "backfill"} /\ now \in 0 .. MaxTick
  BY <1>1, HistoryTypes DEF Scopes
<1>4. Plan(r) = Planned(scope, row)
  BY DEF Plan
<1> HIDE DEF row, scope
<1>5. LET plan == Backfill(scope, row) IN
      /\ Planned(scope, row) = <<>> =>
           /\ row.cursor # None /\ row.cursor < -RetentionDays
           /\ row.known /\ row.complete
      /\ Planned(scope, row) # <<>> =>
           /\ plan.next # None
           /\ plan.complete <=> plan.next < -RetentionDays
           /\ plan.next >= -RetentionDays => plan.next + Chunks(now + 1) <= FirstStart
  BY <1>1, <1>2, <1>3, ChunkReached
<1>6. QED
  BY <1>1, <1>2, <1>4, <1>5 DEF row, scope

LEMMA SmoothFails ==
  ASSUME Inv, Smooth, NEW r \in Slots, RegisterFails(r) \/ WindowFails(r) \/ Defer(r)
  PROVE  Smooth'
<1> DEFINE p == run[r]
           yes == TRUE
           failed == [p EXCEPT !.failed = yes]
           deferred == [p EXCEPT !.pc = "mark", !.deferred = yes]
           onward == Onward(r, failed)
<1>1. /\ p \in Run /\ p.pc \in Reading
      /\ UNCHANGED <<now, started, success, rows, daily, served>>
  BY HistoryTypes DEF RegisterFails, WindowFails, Defer, Reading, tables, history
<1>2. run' = [run EXCEPT ![r] = onward] \/ run' = [run EXCEPT ![r] = deferred]
  BY <1>1 DEF RegisterFails, WindowFails, Defer, Inv, TypeOK
<1>3. yes \in BOOLEAN
  OBVIOUS
<1> HIDE DEF yes
<1>4. /\ failed \in Run /\ failed.failed = yes /\ failed.cron = p.cron
      /\ deferred \in Run /\ deferred.deferred = yes /\ deferred.cron = p.cron
      /\ deferred.pc = "mark"
  BY <1>1, <1>3 DEF Run
<1> HIDE DEF failed, deferred
<1>5. /\ onward \in Run /\ onward.failed = yes /\ onward.cron = p.cron
      /\ onward.pc \in {"property", "finish"}
  BY <1>4, OnwardType, OnwardKeeps
<1> HIDE DEF onward
<1>6. PICK new \in {onward, deferred} : run' = [run EXCEPT ![r] = new]
  BY <1>2
<1>7. /\ new \in Run /\ new.cron = p.cron /\ new.pc \in {"property", "mark", "finish"}
      /\ new.failed = yes \/ new.deferred = yes
  BY <1>4, <1>5, <1>6
<1>8. run'[r] = new
  BY <1>6, <1>7, Moved DEF Inv
<1>9. ~Fit(r)'
  <2>1. run'[r].failed \/ run'[r].deferred
    BY <1>7, <1>8 DEF yes
  <2>2. QED
    BY <2>1 DEF Fit
<1>10. new.pc \in Reading \cup {"finish"}
  BY <1>7 DEF Reading
<1>11. QED
  BY <1>1, <1>6, <1>7, <1>9, <1>10, SmoothWork

LEMMA SmoothNothingCollected ==
  ASSUME Inv, Smooth, trouble = {}, NEW r \in Slots, NothingCollected(r)
  PROVE  Smooth'
<1> DEFINE p == run[r]
           at == p.at
<1>1. /\ p \in Run /\ p.pc = "mark" /\ p.collected = 0
      /\ run' = [run EXCEPT ![r] = Onward(r, p)]
      /\ UNCHANGED <<now, started, success, rows, daily, served>>
  BY HistoryTypes DEF NothingCollected, tables, history
<1>2. Fit(r) /\ Underway(r) =>
        \/ DailyInterval = 1
        \/ p.scope = "daily" /\ rows'[at].known /\ rows'[at].complete
  <2>1. at \in Properties
    BY <1>1 DEF Run
  <2>2. QED
    BY <1>1, <2>1 DEF Underway, AllDone
<1>3. p.pc \in Reading
  BY <1>1 DEF Reading
<1>4. QED
  BY <1>1, <1>2, <1>3, SmoothOnward

LEMMA SmoothWrites ==
  ASSUME Inv, Smooth, NEW r \in Slots, WriteTotals(r) \/ WriteDetails(r)
  PROVE  Smooth'
<1> DEFINE p == run[r]
           left == p.left
           rest == Tail(left)
           count == p.collected + 1
           pc == IF Len(left) = 1 THEN "mark" ELSE "window"
           half == [p EXCEPT !.pc = "details"]
           full == [p EXCEPT !.left = rest, !.collected = count, !.pc = pc]
<1>1. /\ p \in Run /\ p.pc \in {"window", "details"} /\ left \in Seq(Window)
      /\ count \in Nat /\ count > 0
      /\ run' = [run EXCEPT ![r] = half] \/ run' = [run EXCEPT ![r] = full]
      /\ UNCHANGED <<now, started, success, rows, daily, served>>
  BY HistoryTypes DEF WriteTotals, WriteDetails, Goto, Run, Inv, TypeOK, history
<1>2. left # <<>>
  BY <1>1 DEF Inv, WindowsOK
<1>3. rest \in Seq(Window) /\ pc \in {"mark", "window"} /\ (pc = "mark" => rest = <<>>)
  BY <1>1, <1>2, Heads
<1> HIDE DEF left, rest, count, pc
<1>4. /\ half \in Run /\ half.pc = "details" /\ half.cron = p.cron /\ half.scope = p.scope
      /\ half.rows = p.rows /\ half.listed = p.listed /\ half.discovered = p.discovered
      /\ half.at = p.at /\ half.failed = p.failed /\ half.deferred = p.deferred
  BY <1>1 DEF Run
<1>5. /\ full \in Run /\ full.pc = pc /\ full.cron = p.cron /\ full.scope = p.scope
      /\ full.rows = p.rows /\ full.listed = p.listed /\ full.discovered = p.discovered
      /\ full.at = p.at /\ full.failed = p.failed /\ full.deferred = p.deferred
      /\ full.left = rest /\ full.collected = count
  BY <1>1, <1>3 DEF Run
<1> HIDE DEF half, full
<1>6. PICK new \in {half, full} : run' = [run EXCEPT ![r] = new]
  BY <1>1
<1>7. /\ new \in Run /\ new.pc \in {"window", "details", "mark"}
      /\ new.cron = p.cron /\ new.scope = p.scope
      /\ new.rows = p.rows /\ new.listed = p.listed /\ new.discovered = p.discovered
      /\ new.at = p.at /\ new.failed = p.failed /\ new.deferred = p.deferred
      /\ new.pc = "mark" => new.left = <<>> /\ new.collected > 0
  BY <1>1, <1>3, <1>4, <1>5, <1>6
<1> DEFINE at == p.at
<1>8. Fit(r) /\ Underway(r) /\ DailyInterval # 1 /\ run[r].scope # "daily" =>
        rows'[at].known /\ Plan(r) # <<>>
  BY <1>1 DEF Underway
<1>9. p.pc \in Reading /\ rows' = rows
  BY <1>1 DEF Reading
<1>10. QED
  BY <1>1, <1>6, <1>7, <1>8, <1>9, SmoothStays

(* A property whose backfill has nothing left has been read as complete.   *)
LEMMA SmoothRegister ==
  ASSUME Inv, Smooth, trouble = {}, NEW r \in Slots, Register(r)
  PROVE  Smooth'
<1> DEFINE p == run[r]
           at == p.at
           plan == Planned(p.scope, p.rows[at])
           yes == TRUE
           s == [p EXCEPT !.succeeded = yes]
           ready == [p EXCEPT !.pc = "window", !.left = plan]
           row == rows[at]
           known == [row EXCEPT !.known = yes]
<1>1. /\ p \in Run /\ at \in Properties /\ p.pc = "property" /\ rows \in [Properties -> Row]
      /\ row \in Row /\ rows' = [rows EXCEPT ![at] = known] /\ p.scope \in Scopes
      /\ UNCHANGED <<now, started, success, daily, served>>
  BY HistoryTypes DEF Register, Inv, TypeOK, Run, history
<1>2. yes \in BOOLEAN /\ p.pc \in Reading
  BY <1>1 DEF Reading
<1>3. \/ /\ at \notin p.listed \/ p.deferred
         /\ run' = [run EXCEPT ![r] = Onward(r, p)]
      \/ plan = <<>> /\ run' = [run EXCEPT ![r] = Onward(r, s)]
      \/ plan # <<>> /\ run' = [run EXCEPT ![r] = ready]
  BY DEF Register
<1>4. plan = Plan(r)
  BY DEF Plan
<1> HIDE DEF row
<1>5. known.known = yes /\ known.cursor = row.cursor /\ known.complete = row.complete
  BY <1>1 DEF Row
<1> HIDE DEF known
<1>6. /\ rows'[at].known = yes /\ rows'[at].cursor = rows[at].cursor
      /\ rows'[at].complete = rows[at].complete
      /\ \A q \in Properties \ {at} : rows'[q] = rows[q]
  BY <1>1, <1>5 DEF row
<1>7. rows'[at].known
  BY <1>6
<1> HIDE DEF yes
<1>8. s \in Run /\ s.cron = p.cron /\ s.scope = p.scope /\ s.rows = p.rows
      /\ s.listed = p.listed /\ s.discovered = p.discovered
      /\ s.at = p.at /\ s.failed = p.failed /\ s.deferred = p.deferred
  BY <1>1, <1>2 DEF Run
<1> HIDE DEF s
<1>9. CASE plan # <<>> /\ run' = [run EXCEPT ![r] = ready]
  <2>1. plan \in Seq(Window)
    <3>1. ReadOK(r) /\ now \in 0 .. MaxTick /\ p.rows[at] \in Row
      BY <1>1, HistoryTypes DEF Inv, Run
    <3>2. p.rows[at].cursor # None => p.rows[at].cursor <= Newest
      BY <1>1, <3>1 DEF ReadOK, Reading
    <3>3. QED
      BY <1>1, <3>1, <3>2, PlanTypes
  <2> HIDE DEF plan
  <2>2. /\ ready \in Run /\ ready.pc = "window" /\ ready.cron = p.cron
        /\ ready.scope = p.scope /\ ready.rows = p.rows
        /\ ready.listed = p.listed /\ ready.discovered = p.discovered
        /\ ready.at = p.at /\ ready.failed = p.failed /\ ready.deferred = p.deferred
    BY <1>1, <2>1 DEF Run
  <2> HIDE DEF ready
  <2>3. rows[at].known /\ rows[at].complete => rows'[at].known /\ rows'[at].complete
    BY <1>6, <1>7
  <2>4. ready.pc \in {"window", "details", "mark"} /\ ready.pc # "mark"
    BY <2>2
  <2>5. Plan(r) # <<>>
    BY <1>4, <1>9
  <2>6. QED
    BY <1>1, <1>2, <1>6, <1>7, <1>9, <2>2, <2>3, <2>4, <2>5, SmoothStays
<1>10. CASE \E t \in {p, s} : run' = [run EXCEPT ![r] = Onward(r, t)]
  <2>1. ASSUME Fit(r), Underway(r), DailyInterval # 1, p.scope = "daily"
        PROVE  rows'[at].known /\ rows'[at].complete
    BY <1>1, <1>6, <1>7, <2>1 DEF Underway, AllDone
  <2>2. ASSUME Fit(r), Underway(r), DailyInterval # 1, p.scope # "daily", plan = <<>>
        PROVE  Reached(rows'[at], now + 1)
    <3>1. rows[at].cursor # None /\ rows[at].cursor < -RetentionDays /\ rows[at].complete
      BY <1>2, <1>4, <2>2, AtHand
    <3>2. ~(rows[at].cursor >= -RetentionDays)
      <4>1. rows[at].cursor \in Int
        BY <1>1, <3>1, RowTypes DEF row
      <4>2. QED
        BY <3>1, <4>1, Pace
    <3>3. QED
      BY <1>6, <1>7, <3>1, <3>2 DEF Reached
  <2>3. ASSUME Fit(r), Underway(r), DailyInterval # 1, p.scope # "daily"
        PROVE  at \in p.listed /\ ~p.deferred
    BY <1>2, <2>3, AtHand DEF Fit
  <2>4. PICK t \in {p, s} : run' = [run EXCEPT ![r] = Onward(r, t)]
    BY <1>10
  <2>5. t \in Run /\ t.cron = p.cron /\ t.scope = p.scope /\ t.rows = p.rows
        /\ t.listed = p.listed /\ t.discovered = p.discovered
        /\ t.at = p.at /\ t.failed = p.failed /\ t.deferred = p.deferred
    BY <1>1, <1>8, <2>4
  <2>6. ASSUME plan # <<>>, at \in p.listed, ~p.deferred
        PROVE  FALSE
    <3>1. run' = [run EXCEPT ![r] = ready]
      BY <1>3, <2>6
    <3>2. run'[r].pc = "window"
      BY <1>1, <3>1 DEF Inv, TypeOK
    <3> DEFINE new == Onward(r, t)
    <3>3. new \in Run /\ new.pc \in {"finish", "property"}
      BY <2>5, OnwardType
    <3>4. run' = [run EXCEPT ![r] = new]
      BY <2>4
    <3> HIDE DEF new
    <3>5. run'[r] = new
      BY <3>3, <3>4, Moved DEF Inv
    <3>6. QED
      BY <3>2, <3>3, <3>5
  <2>7. Fit(r) /\ Underway(r) =>
          \/ DailyInterval = 1
          \/ p.scope = "daily" /\ rows'[at].known /\ rows'[at].complete
          \/ p.scope # "daily" /\ Reached(rows'[at], now + 1)
    BY <2>1, <2>2, <2>3, <2>6
  <2> HIDE DEF plan
  <2>8. QED
    BY <1>1, <1>2, <1>6, <2>4, <2>5, <2>7, SmoothOnward
<1>11. QED
  BY <1>3, <1>9, <1>10

(* A collected chunk moves the cursor by itself.                           *)
LEMMA SmoothMarkSuccess ==
  ASSUME Inv, Smooth, trouble = {}, NEW r \in Slots, MarkSuccess(r)
  PROVE  Smooth'
<1>1. PICK at \in Properties : at = run[r].at
  BY HistoryTypes DEF Run
<1> DEFINE p == run[r]
           read == p.rows[at]
           plan == Backfill(p.scope, read)
           all == AllCollected(r)
           cursor == IF all THEN plan.next ELSE read.cursor
           complete == IF all THEN plan.complete ELSE read.complete
           old == rows[at]
           row == [old EXCEPT !.cursor = cursor, !.complete = complete]
           yes == TRUE
           s == [p EXCEPT !.succeeded = yes]
<1>2. /\ p \in Run /\ rows \in [Properties -> Row] /\ old \in Row /\ p.pc = "mark"
      /\ UNCHANGED <<now, started, success, daily, served>>
      /\ run' = [run EXCEPT ![r] = Onward(r, s)]
      /\ rows' = [rows EXCEPT ![at] = row]
  BY <1>1, HistoryTypes DEF MarkSuccess, Inv, TypeOK
<1>3. p.pc \in Reading /\ yes \in BOOLEAN
  BY <1>2 DEF Reading
<1> HIDE DEF yes
<1>4. s \in Run /\ s.cron = p.cron /\ s.scope = p.scope /\ s.rows = p.rows
      /\ s.listed = p.listed /\ s.discovered = p.discovered
      /\ s.at = p.at /\ s.failed = p.failed /\ s.deferred = p.deferred
  BY <1>2, <1>3 DEF Run
<1> HIDE DEF s
<1>5. \A q \in Properties \ {at} : rows'[q] = rows[q]
  BY <1>2
<1>6. rows'[at].known = old.known /\ rows'[at].cursor = cursor /\ rows'[at].complete = complete
  <2> HIDE DEF old, cursor, complete
  <2>1. row.known = old.known /\ row.cursor = cursor /\ row.complete = complete
    BY <1>2 DEF Row
  <2> HIDE DEF row
  <2>2. QED
    BY <1>2, <2>1
<1>7. ASSUME Fit(r), Underway(r), DailyInterval # 1, p.scope = "daily"
      PROVE  rows'[at].known /\ rows'[at].complete
  <2>1. rows[at].known /\ read.complete
    BY <1>7 DEF Underway, AllDone
  <2>2. Backfill("daily", read).complete = read.complete
    BY DEF Backfill
  <2>3. complete
    BY <1>7, <2>1, <2>2
  <2> HIDE DEF complete
  <2>4. QED
    BY <1>6, <2>1, <2>3
<1>8. ASSUME Fit(r), Underway(r), DailyInterval # 1, p.scope # "daily"
      PROVE  Reached(rows'[at], now + 1)
  <2>1. rows[at].known /\ Plan(r) # <<>> /\ p.left = <<>>
    BY <1>1, <1>2, <1>8 DEF Underway
  <2>2. /\ plan.next # None
        /\ plan.complete <=> plan.next < -RetentionDays
        /\ plan.next >= -RetentionDays => plan.next + Chunks(now + 1) <= FirstStart
    BY <1>1, <1>3, <1>8, <2>1, AtHand
  <2>3. cursor = plan.next /\ complete = plan.complete
    BY <2>1 DEF AllCollected
  <2> HIDE DEF plan, cursor, complete
  <2>4. QED
    BY <1>6, <2>1, <2>2, <2>3 DEF Reached
<1> HIDE DEF read, plan, all, cursor, complete, old, row
<1>9. QED
  BY <1>1, <1>2, <1>3, <1>4, <1>5, <1>7, <1>8, SmoothOnward

-----------------------------------------------------------------------------
(* The end of a collection.                                                *)

(* A collection without a failure leaves what the next cron should find.   *)
LEMMA SmoothFinishSync ==
  ASSUME Inv, Smooth, NEW r \in Slots, FinishSync(r)
  PROVE  Smooth'
<1> DEFINE p == run[r]
           new == [p EXCEPT !.pc = "release"]
<1>1. /\ p \in Run /\ p.pc = "finish" /\ run' = [run EXCEPT ![r] = new]
      /\ UNCHANGED <<now, started, rows>>
  BY HistoryTypes DEF FinishSync, Goto, tables, Inv, TypeOK
<1>2. new \in Run /\ new.pc = "release" /\ new.cron = p.cron
  BY <1>1 DEF Run
<1> HIDE DEF new
<1>3. run'[r] = new /\ \A q \in Slots \ {r} : run'[q] = run[q]
  BY <1>1, <1>2, Moved DEF Inv
<1>4. started.cron /\ p.cron /\ ~served
  BY <1>1 DEF Smooth, RunOK
<1>5. run'[r].cron /\ started'.cron
  BY <1>1, <1>2, <1>3, <1>4
<1>6. RunOK(r)'
  BY <1>2, <1>3, <1>5 DEF RunOK, Early, Reading
<1>7. \A q \in Slots \ {r} : run'[q].pc = "idle" /\ run'[q].at = 1
  BY <1>1, <1>3 DEF Smooth, Alone, RunOK, Early
<1>8. \A q \in Slots : RunOK(q)'
  <2>1. \A q \in Slots \ {r} : RunOK(q)'
    BY <1>7 DEF RunOK, Reading
  <2>2. QED
    BY <1>6, <2>1
<1>9. Alone'
  BY <1>7 DEF Alone
<1>10. now \in Nat /\ daily \in Nat
  BY HistoryTypes, ConstantTypes DEF Constants
<1>11. (now - daily <= TwoDays)'
  <2>1. TwoDays \in Nat /\ TwoDays' = TwoDays
    BY ConstantTypes DEF TwoDays, Constants
  <2>2. daily' = now \/ daily' = daily
    BY DEF FinishSync
  <2>3. now - daily <= TwoDays
    BY DEF Smooth
  <2>4. QED
    BY <1>1, <1>10, <2>1, <2>2, <2>3
<1>12. ASSUME served' PROVE Found(now + 1)'
  <2>1. DailyComplete(r)
    BY <1>4, <1>12 DEF FinishSync
  <2>2. Fit(r) /\ Underway(r)
    BY <1>1, <2>1 DEF DailyComplete, Fit, Smooth, RunOK, Reading
  <2>3. /\ success' = now
        /\ daily' = IF p.scope # "backfill" THEN now ELSE daily
    BY <2>1 DEF FinishSync
  <2>4. /\ AllDone' <=> AllDone
        /\ \A q \in Properties : Reached(rows[q], now + 1)' <=> Reached(rows[q], now + 1)
    BY <1>1, ReachedLater DEF AllDone
  <2>5. /\ DailyInterval \in Nat \ {0} /\ now + 1 # 0 /\ now \in 0 .. (now + 1) - 1
        /\ (now + 1) - now <= DailyInterval /\ now = (now + 1) - 1
    BY <1>10, Pace
  <2>6. \/ DailyInterval = 1 /\ daily' = now
        \/ AllDone /\ (daily' = now \/ (daily' = 0 /\ now < TicksPerDay))
        \/ /\ DailyInterval > 1 /\ daily' = 0 /\ ~AllDone
           /\ \A q \in Properties : Reached(rows[q], now + 1)
    <3>1. CASE DailyInterval = 1
      BY <2>2, <2>3, <3>1 DEF Underway
    <3>2. CASE DailyInterval # 1 /\ p.scope = "daily"
      BY <2>2, <2>3, <3>2 DEF Underway
    <3>3. CASE DailyInterval # 1 /\ p.scope # "daily"
      <4>1. /\ now < TicksPerDay /\ daily = 0
            /\ p.scope = "full" <=> now = 0
            /\ \A q \in Properties : Reached(rows[q], now + 1)
        BY <1>1, <2>2, <3>3 DEF Underway
      <4>2. daily' = 0
        <5>1. CASE p.scope = "backfill"
          BY <2>3, <4>1, <5>1
        <5>2. CASE p.scope # "backfill"
          <6>1. p.scope = "full"
            BY <1>1, <3>3, <5>2 DEF Run, Scopes
          <6>2. QED
            BY <2>3, <4>1, <6>1
        <5>3. QED
          BY <5>1, <5>2
      <4>3. DailyInterval > 1
        BY <2>5, <3>3
      <4>4. QED
        BY <4>1, <4>2, <4>3
    <3>4. QED
      BY <3>1, <3>2, <3>3
  <2>7. QED
    BY <1>1, <2>3, <2>4, <2>5, <2>6 DEF Found
<1>13. QED
  BY <1>5, <1>8, <1>9, <1>11, <1>12 DEF Smooth

LEMMA SmoothGivesUp ==
  ASSUME Inv, Smooth, NEW r \in Slots, FinishLost(r) \/ Throw(r)
  PROVE  Smooth'
<1> DEFINE p == run[r]
           new == [p EXCEPT !.pc = "release"]
<1>1. /\ p \in Run /\ p.pc \in {"finish", "sync", "rows"} /\ run' = [run EXCEPT ![r] = new]
      /\ UNCHANGED <<now, started, success, rows, daily, served>>
  BY HistoryTypes DEF FinishLost, Throw, Goto, tables, history, Inv, TypeOK
<1>2. new \in Run /\ new.pc = "release" /\ new.cron = p.cron
  BY <1>1 DEF Run
<1> HIDE DEF new
<1>3. run'[r] = new
  BY <1>1, <1>2, Moved DEF Inv
<1>4. started.cron /\ p.cron /\ ~served
  BY <1>1 DEF Smooth, RunOK
<1>5. run'[r].cron /\ started'.cron
  BY <1>1, <1>2, <1>3, <1>4
<1>6. RunOK(r)'
  BY <1>2, <1>3, <1>5 DEF RunOK, Early, Reading
<1>7. QED
  BY <1>1, <1>2, <1>6, SmoothMove

LEMMA SmoothLeaseExpires ==
  ASSUME Inv, Smooth, LeaseExpires
  PROVE  Smooth'
<1> DEFINE yes == TRUE
<1>1. /\ run \in [Slots -> Run]
      /\ run' = [q \in Slots |-> IF q = lease.owner
                   THEN [run[q] EXCEPT !.outlived = yes] ELSE run[q]]
      /\ UNCHANGED <<now, started, success, rows, daily, served>>
  BY DEF LeaseExpires, Inv, TypeOK, tables, history
<1>2. ASSUME NEW q \in Slots
      PROVE  /\ run'[q].pc = run[q].pc /\ run'[q].at = run[q].at
             /\ run'[q].cron = run[q].cron /\ run'[q].due = run[q].due
             /\ run'[q].scope = run[q].scope /\ run'[q].rows = run[q].rows
             /\ run'[q].listed = run[q].listed /\ run'[q].discovered = run[q].discovered
             /\ run'[q].left = run[q].left /\ run'[q].collected = run[q].collected
             /\ run'[q].failed = run[q].failed /\ run'[q].deferred = run[q].deferred
  <2> DEFINE p == run[q]
             new == [p EXCEPT !.outlived = yes]
  <2>1. p \in Run /\ run'[q] = IF q = lease.owner THEN new ELSE p
    BY <1>1
  <2> HIDE DEF p, yes
  <2>2. /\ new.pc = p.pc /\ new.at = p.at /\ new.cron = p.cron /\ new.due = p.due
        /\ new.scope = p.scope /\ new.rows = p.rows /\ new.listed = p.listed
        /\ new.discovered = p.discovered /\ new.left = p.left
        /\ new.collected = p.collected /\ new.failed = p.failed
        /\ new.deferred = p.deferred
    BY <2>1 DEF Run
  <2> HIDE DEF new
  <2>3. QED
    BY <2>1, <2>2 DEF p
<1>3. /\ Found(now)' <=> Found(now)
      /\ Found(now + 1)' <=> Found(now + 1)
      /\ DailyDue' <=> DailyDue
      /\ AllDone' <=> AllDone
  BY <1>1, FoundLater
<1>4. ASSUME NEW q \in Slots PROVE RunOK(q)'
  <2>1. RunOK(q)
    BY DEF Smooth
  <2>2. Chosen(q) => Chosen(q)'
    BY <1>1, <1>2, ChosenKept
  <2>3. Fit(q)' => Fit(q)
    BY <1>2 DEF Fit
  <2>4. Underway(q) => Underway(q)'
    <3>1. Plan(q)' = Plan(q)
      BY <1>1, <1>2, PlanKept
    <3>2. /\ \A p \in Properties : Reached(rows[p], now + 1)' <=> Reached(rows[p], now + 1)
          /\ \A p \in Properties : Before(run[q].rows[p], now)' <=> Before(run[q].rows[p], now)
      BY <1>1, <1>2, ReachedLater
    <3>3. QED
      BY <1>1, <1>2, <1>3, <3>1, <3>2 DEF Underway
  <2>5. (run[q].due)' <=> run[q].due
    BY <1>2
  <2>6. (run[q].cron)' <=> run[q].cron
    BY <1>2
  <2>7. QED
    BY <1>1, <1>2, <1>3, <2>1, <2>2, <2>3, <2>4, <2>5, <2>6 DEF RunOK
<1>5. Alone'
  BY <1>2 DEF Smooth, Alone
<1>6. (now - daily <= TwoDays)'
  BY <1>1 DEF Smooth, TwoDays
<1>7. \A q \in Slots : run[q].pc = "idle" => run'[q].pc = "idle"
  BY <1>2
<1>8. QED
  BY <1>1, <1>3, <1>4, <1>5, <1>6, <1>7 DEF Smooth

(* The next cron finds what the one before has left.                       *)
LEMMA SmoothTick ==
  ASSUME Inv, Smooth, Tick, trouble' = {}
  PROVE  Smooth'
<1>1. /\ \A r \in Slots : run'[r] = run[r] /\ run[r].pc = "idle"
      /\ now' = now + 1 /\ ~served' /\ UNCHANGED <<success, rows, daily>>
  BY DEF Tick, tables
<1>2. served
  BY DEF Tick
<1>3. Found(now + 1)
  BY <1>2 DEF Smooth
<1>4. now + 1 \in Nat
  BY HistoryTypes, ConstantTypes DEF Constants
<1>5. (now + 1) - daily <= TwoDays
  BY <1>3, <1>4, FoundInTime DEF Inv
<1>6. Found(now)'
  BY <1>1, <1>3 DEF Found, AllDone, Reached, Before, Chunks
<1>7. (now - daily <= TwoDays)'
  BY <1>1, <1>5 DEF TwoDays
<1>8. \A r \in Slots : run'[r].pc = "idle" /\ run'[r].at = 1
  BY <1>1 DEF Smooth, RunOK, Early
<1>9. \A r \in Slots : RunOK(r)'
  BY <1>8 DEF RunOK, Reading
<1>10. Alone'
  BY <1>1, <1>8 DEF Smooth, Alone
<1>11. QED
  BY <1>1, <1>6, <1>7, <1>8, <1>9, <1>10 DEF Smooth

LEMMA SmoothInit == Init => Smooth
<1> SUFFICES ASSUME Init PROVE Smooth
  OBVIOUS
<1>1. \A p \in Properties : rows[p].cursor = None /\ ~rows[p].complete
  BY DEF Init, NoRows
<1>2. Found(now)
  BY <1>1 DEF Init, Found, Before
<1>3. \A r \in Slots : run[r].pc = "idle" /\ run[r].at = 1
  BY IdleRow DEF Init
<1>4. now - daily <= TwoDays
  BY ConstantTypes DEF Init, TwoDays, Constants
<1>5. \A r \in Slots : RunOK(r)
  BY <1>3 DEF RunOK, Reading
<1>6. ~served
  BY DEF Init
<1>7. QED
  BY <1>2, <1>3, <1>4, <1>5, <1>6 DEF Smooth, Alone

(* What has gone wrong stays on record.                                    *)
LEMMA TroubleStays == [Next]_vars => trouble \subseteq trouble'
<1> SUFFICES ASSUME [Next]_vars PROVE trouble \subseteq trouble'
  OBVIOUS
<1>1. CASE UNCHANGED vars
  BY <1>1 DEF vars, history
<1>2. CASE LeaseExpires \/ Tick
  BY <1>2 DEF LeaseExpires, Tick, history
<1>3. ASSUME NEW r \in Slots, StartNext(r) \/ PropertyNext(r) \/ EndNext(r)
      PROVE  trouble \subseteq trouble'
  <2>1. CASE StartNext(r)
    BY <2>1 DEF StartNext, CronRead, NotDue, CronDecide, ManualStart, AcquireLease,
                LeaseHeld, ReadSync, ReadProperties, history
  <2>2. CASE PropertyNext(r)
    BY <2>2 DEF PropertyNext, Register, RegisterFails, Defer, WriteTotals, WriteDetails,
                WindowFails, MarkSuccess, MarkLost, NothingCollected, history
  <2>3. CASE EndNext(r)
    BY <2>3 DEF EndNext, FinishSync, FinishLost, Throw, ReleaseLease, Die, history
  <2>4. QED
    BY <1>3, <2>1, <2>2, <2>3
<1>4. QED
  BY <1>1, <1>2, <1>3 DEF Next

LEMMA SmoothStep == Inv /\ SmoothInv /\ [Next]_vars => SmoothInv'
<1> SUFFICES ASSUME Inv, SmoothInv, [Next]_vars, trouble' = {} PROVE Smooth'
  BY DEF SmoothInv
<1>1. trouble = {} /\ Smooth
  BY TroubleStays DEF SmoothInv
<1>2. CASE UNCHANGED vars
  <2>1. UNCHANGED <<now, started, success, rows, run, daily, served>>
    BY <1>2 DEF vars, history
  <2>2. /\ Found(now)' <=> Found(now)
        /\ Found(now + 1)' <=> Found(now + 1)
        /\ DailyDue' <=> DailyDue
        /\ AllDone' <=> AllDone
    BY <2>1, FoundLater
  <2>3. ASSUME NEW q \in Slots PROVE RunOK(q)'
    <3>1. RunOK(q) /\ run'[q] = run[q]
      BY <1>1, <2>1 DEF Smooth
    <3>2. Chosen(q) => Chosen(q)'
      BY <2>1, ChosenKept
    <3>3. Underway(q) => Underway(q)'
      <4>1. Plan(q)' = Plan(q)
        BY <2>1, PlanKept
      <4>2. /\ \A p \in Properties : Reached(rows[p], now + 1)' <=> Reached(rows[p], now + 1)
            /\ \A p \in Properties : Before(run[q].rows[p], now)' <=> Before(run[q].rows[p], now)
        BY <2>1, ReachedLater
      <4>3. QED
        BY <2>1, <2>2, <4>1, <4>2 DEF Underway
    <3>4. QED
      BY <2>1, <2>2, <3>1, <3>2, <3>3 DEF RunOK, Fit
  <2>4. Alone' /\ (now - daily <= TwoDays)'
    BY <1>1, <2>1 DEF Smooth, Alone, TwoDays
  <2>5. QED
    BY <1>1, <2>1, <2>2, <2>3, <2>4 DEF Smooth
<1>3. CASE LeaseExpires
  BY <1>1, <1>3, SmoothLeaseExpires
<1>4. CASE Tick
  BY <1>1, <1>4, SmoothTick
<1>5. ASSUME NEW r \in Slots, StartNext(r) PROVE Smooth'
  <2>1. ~ \E scope \in Scopes : ManualStart(r, scope)
    BY DEF ManualStart
  <2>2. QED
    BY <1>1, <1>5, <2>1, SmoothCronRead, SmoothNotDue, SmoothCronDecide, SmoothAcquire,
       SmoothEnds, SmoothReadProperties DEF StartNext
<1>6. ASSUME NEW r \in Slots, PropertyNext(r) PROVE Smooth'
  <2>1. ~MarkLost(r)
    BY DEF MarkLost
  <2>2. QED
    BY <1>1, <1>6, <2>1, SmoothRegister, SmoothFails, SmoothWrites, SmoothMarkSuccess,
       SmoothNothingCollected DEF PropertyNext
<1>7. ASSUME NEW r \in Slots, EndNext(r) PROVE Smooth'
  BY <1>1, <1>7, SmoothFinishSync, SmoothGivesUp, SmoothEnds DEF EndNext
<1>8. QED
  BY <1>2, <1>3, <1>4, <1>5, <1>6, <1>7 DEF Next

(* While every cron goes through without a failure, every property is      *)
(* listed and no administrator collects, two days never go by without a    *)
(* complete daily pass: the hourly backfill shares the clock of the daily  *)
(* pass, but it is done on the first day, and after it every cron that     *)
(* moves the clock is a daily pass.                                        *)
THEOREM DailyPassComesRound == Spec => []DailyPassWhenSmooth
<1>1. Init => SmoothInv
  BY SmoothInit DEF SmoothInv
<1>2. SmoothInv => DailyPassWhenSmooth
  BY DEF SmoothInv, Smooth, DailyPassWhenSmooth
<1>3. QED
  BY <1>1, <1>2, SmoothStep, Invariant, PTL DEF Spec
=============================================================================
