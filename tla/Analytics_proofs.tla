--------------------------- MODULE Analytics_proofs ---------------------------
(***************************************************************************)
(* Proofs about AnalyticsEvents and AnalyticsMaintenance for every number  *)
(* of events, names, requests at a time and days, and for all limits,      *)
(* chunk sizes and retentions.                                             *)
(***************************************************************************)
EXTENDS AnalyticsMaintenance, FiniteSetTheorems, WellFoundedInduction, TLAPS

-----------------------------------------------------------------------------
(* Types; daily is left out, since nothing below depends on its numbers.   *)
TypesOK ==
  /\ EventsTypeOK
  /\ retention \in Retentions
  /\ job \in Job
  /\ rolled \subseteq Events

(* A request has an event, and before it stores the event its name is in   *)
(* the registry.                                                           *)
CollectsOK ==
  \A c \in Slots :
    /\ collects[c].pc # "idle" => collects[c].event \in Events
    /\ collects[c].pc \in {"exists", "count", "add"} => collects[c].name # None
    /\ collects[c].pc \in {"insert", "legacy"} /\ collects[c].name # None
         => collects[c].name \in names

(* A run's cutoff is in the past, and what it has not rolled up yet it     *)
(* still has on its list.                                                  *)
JobOK ==
  /\ job.pc # "idle" => job.cutoff < today
  /\ job.pc = "expired" =>
       \A e \in Events :
         events[e].state = "raw" /\ events[e].day < job.cutoff
           => e \in rolled \/ events[e].day \in job.left
  /\ job.pc = "purge" =>
       \A e \in Events :
         events[e].state = "raw" /\ events[e].day < job.cutoff => e \in rolled

(* What becomes of the events of a day, and whether its total says so.     *)
StoredOn(d) == {e \in Events : events[e].state # "absent" /\ events[e].day = d}
Counted(d) == Total(d) = Cardinality(StoredOn(d))

(* As long as no purge has stopped half way and the retention has not been *)
(* raised, a day is purged as a whole, after it was counted, and for good. *)
TotalsSoFar ==
  /\ job.pc # "idle" => job.cutoff <= today - retention
  /\ \A d \in Days : Purged(d) # {} =>
       /\ d < today - retention
       /\ Counted(d)
       /\ Raw(d) = {} \/ (job.pc = "purge" /\ job.chunks > 0 /\ d < job.cutoff)
  /\ job.pc = "expired" =>
       \A d \in Days : d < job.cutoff => d \in job.left \/ Counted(d)
  /\ job.pc = "purge" => \A d \in Days : d < job.cutoff => Counted(d)
  /\ settled # None =>
       /\ settled <= today - retention
       /\ \A d \in Days : d < settled => Raw(d) = {} /\ Counted(d)

TotalsOK ==
  /\ daily \in [Days -> Nat \cup {None}]
  /\ settled \in Int \cup {None}
  /\ uneven \in BOOLEAN
  /\ \A d \in Days : StoredOn(d) = {} => daily[d] = None
  /\ ~uneven => TotalsSoFar

(* Day by day what SummaryCountsAll adds up: before the cutoff there is no *)
(* raw event and the total is the number of events the day ever stored;    *)
(* from the cutoff on every stored event is still there.                   *)
SettledTotals ==
  settled = today - retention /\ ~uneven =>
    \A d \in Days : IF d < settled THEN Raw(d) = {} /\ Counted(d)
                    ELSE Purged(d) = {} /\ Raw(d) = StoredOn(d)

(* The inductive invariant of ingestion and purge.                         *)
Inv ==
  /\ TypesOK
  /\ CollectsOK
  /\ EventNamesListed
  /\ JobOK
  /\ PurgedWasRolledUp

-----------------------------------------------------------------------------
LEMMA InitInv == Init => Inv
<1> SUFFICES ASSUME Init PROVE Inv
  OBVIOUS
<1>1. EventsTypeOK
  <2>1. NoCollect \in Collect
    BY DEF NoCollect, Collect
  <2>2. collects \in [Slots -> Collect]
    BY <2>1 DEF Init, EventsInit
  <2>3. 0 \in Days
    BY EventsAssumption DEF Days
  <2>4. events \in [Events -> EventRow]
    BY <2>3 DEF Init, EventsInit, EventRow
  <2>5. QED
    BY <2>2, <2>3, <2>4 DEF Init, EventsInit, EventsTypeOK
<1>2. job \in Job /\ job.pc = "idle"
  <2>1. 0 \in Days /\ 0 \in 0..(MaxChunks - 1)
    BY EventsAssumption, MaintenanceAssumption DEF Days
  <2>2. QED
    BY <2>1 DEF Init, NoJob, Job
<1>3. TypesOK
  BY <1>1, <1>2 DEF Init, TypesOK
<1>4. CollectsOK
  BY DEF Init, EventsInit, NoCollect, CollectsOK
<1>5. EventNamesListed /\ PurgedWasRolledUp
  BY DEF Init, EventsInit, EventNamesListed, PurgedWasRolledUp
<1>6. JobOK
  BY <1>2 DEF JobOK
<1>7. QED
  BY <1>3, <1>4, <1>5, <1>6 DEF Inv

-----------------------------------------------------------------------------
(* Ingestion.                                                              *)
LEMMA SlotTypes ==
  ASSUME EventsTypeOK, NEW c \in Slots
  PROVE  /\ NoCollect \in Collect /\ NoCollect.pc = "idle"
         /\ \A pc \in {"idle", "exists", "count", "add", "insert", "legacy"} :
              NextCollect(c, pc) =>
                /\ collects' \in [Slots -> Collect]
                /\ collects'[c].pc = pc /\ collects'[c].event = collects[c].event
                /\ collects'[c].name = collects[c].name
                /\ collects'[c].old = collects[c].old
                /\ \A d \in Slots : d # c => collects'[d] = collects[d]
         /\ EndCollect(c) =>
              /\ collects' \in [Slots -> Collect] /\ collects'[c].pc = "idle"
              /\ \A d \in Slots : d # c => collects'[d] = collects[d]
<1>1. NoCollect \in Collect /\ NoCollect.pc = "idle"
  BY DEF NoCollect, Collect
<1>2. ASSUME NEW pc \in {"idle", "exists", "count", "add", "insert", "legacy"},
             NextCollect(c, pc)
      PROVE  /\ collects' \in [Slots -> Collect]
             /\ collects'[c].pc = pc /\ collects'[c].event = collects[c].event
             /\ collects'[c].name = collects[c].name
             /\ collects'[c].old = collects[c].old
             /\ \A d \in Slots : d # c => collects'[d] = collects[d]
  <2> DEFINE new == [collects[c] EXCEPT !.pc = pc]
  <2>1. collects' = [collects EXCEPT ![c] = new]
    BY <1>2 DEF NextCollect
  <2>2. /\ new \in Collect /\ new.pc = pc /\ new.event = collects[c].event
        /\ new.name = collects[c].name /\ new.old = collects[c].old
    BY DEF EventsTypeOK, Collect
  <2> HIDE DEF new
  <2>3. QED
    BY <2>1, <2>2 DEF EventsTypeOK
<1>3. ASSUME EndCollect(c)
      PROVE  /\ collects' \in [Slots -> Collect] /\ collects'[c].pc = "idle"
             /\ \A d \in Slots : d # c => collects'[d] = collects[d]
  BY <1>1, <1>3 DEF EndCollect, EventsTypeOK
<1>4. QED
  BY <1>1, <1>2, <1>3

(* A step of a request that stores nothing.                                *)
LEMMA RequestStep ==
  ASSUME Inv, NEW c \in Slots, UNCHANGED <<today, events, maintenance>>,
         names \subseteq names', (names \subseteq Names)', (legacy \subseteq Events)',
         collects' \in [Slots -> Collect],
         \A d \in Slots : d # c => collects'[d] = collects[d],
         collects'[c].pc # "idle" => collects'[c].event \in Events,
         collects'[c].pc \in {"exists", "count", "add"} => collects'[c].name # None,
         collects'[c].pc \in {"insert", "legacy"} /\ collects'[c].name # None
           => collects'[c].name \in names'
  PROVE  Inv'
<1> USE DEF Inv, TypesOK
<1>1. TypesOK'
  BY DEF EventsTypeOK, maintenance
<1>2. CollectsOK'
  BY DEF CollectsOK
<1>3. EventNamesListed'
  BY DEF EventNamesListed
<1>4. JobOK' /\ PurgedWasRolledUp'
  BY DEF JobOK, PurgedWasRolledUp, maintenance
<1>5. QED
  BY <1>1, <1>2, <1>3, <1>4

LEMMA CollectStartStep ==
  ASSUME Inv, NEW c \in Slots, NEW e \in Events, NEW name \in Names \cup {None},
         NEW old \in BOOLEAN, CollectStart(c, e, name, old), UNCHANGED maintenance
  PROVE  Inv'
<1> USE DEF Inv, TypesOK
<1> DEFINE pc == IF name = None THEN "insert" ELSE "exists"
           new == [pc |-> pc, event |-> e, name |-> name, old |-> old]
<1>1. collects' = [collects EXCEPT ![c] = new] /\ UNCHANGED <<today, events, names, legacy>>
  BY DEF CollectStart
<1>2. /\ pc \in {"insert", "exists"}
      /\ pc = "insert" <=> name = None
  OBVIOUS
<1> HIDE DEF pc
<1>3. new \in Collect /\ new.pc = pc /\ new.event = e /\ new.name = name
  BY <1>2 DEF Collect
<1> HIDE DEF new
<1>4. /\ collects' \in [Slots -> Collect] /\ collects'[c] = new
      /\ \A d \in Slots : d # c => collects'[d] = collects[d]
  BY <1>1, <1>3 DEF EventsTypeOK
<1>5. names' = names /\ names \subseteq Names /\ legacy' \subseteq Events
  BY <1>1 DEF EventsTypeOK
<1>6. QED
  BY <1>1, <1>2, <1>3, <1>4, <1>5, RequestStep

LEMMA NameStep ==
  ASSUME Inv, NEW c \in Slots, UNCHANGED maintenance,
         NameExists(c) \/ NameCount(c) \/ NameAdd(c)
  PROVE  Inv'
<1> USE DEF Inv, TypesOK
<1>1. /\ UNCHANGED <<today, events, legacy>> /\ legacy \subseteq Events
      /\ names \subseteq Names /\ collects[c].pc # "idle"
      /\ collects[c].event \in Events
      /\ collects[c].name \in Names /\ collects[c].name # None
  BY DEF NameExists, NameCount, NameAdd, EventsTypeOK, CollectsOK, Collect
<1>2. CASE NameExists(c)
  <2>1. names' = names
    BY <1>2 DEF NameExists
  <2>2. CASE collects[c].name \in names
    <3>1. NextCollect(c, "insert")
      BY <1>2, <2>2 DEF NameExists
    <3>2. QED
      BY <1>1, <2>1, <2>2, <3>1, SlotTypes, RequestStep
  <2>3. CASE collects[c].name \notin names
    <3>1. NextCollect(c, "count")
      BY <1>2, <2>3 DEF NameExists
    <3>2. QED
      BY <1>1, <2>1, <3>1, SlotTypes, RequestStep
  <2>4. QED
    BY <2>2, <2>3
<1>3. CASE NameCount(c)
  <2>1. names' = names /\ (NextCollect(c, "add") \/ EndCollect(c))
    BY <1>3 DEF NameCount
  <2>2. QED
    BY <1>1, <2>1, SlotTypes, RequestStep
<1>4. CASE NameAdd(c)
  <2>1. names' = names \cup {collects[c].name} /\ NextCollect(c, "insert")
    BY <1>4 DEF NameAdd
  <2>2. collects[c].name # None
    BY <1>4 DEF NameAdd, CollectsOK
  <2>3. QED
    BY <1>1, <2>1, <2>2, SlotTypes, RequestStep
<1>5. QED
  BY <1>2, <1>3, <1>4

(* What is stored is stored under a listed name, and on the current day,   *)
(* which no run counts as expired.                                         *)
LEMMA InsertEventStep ==
  ASSUME Inv, NEW c \in Slots, InsertEvent(c), UNCHANGED maintenance
  PROVE  Inv'
<1> USE DEF Inv, TypesOK
<1> DEFINE e == collects[c].event
           name == collects[c].name
           row == [state |-> "raw", day |-> today, name |-> name]
<1>1. /\ collects[c].pc = "insert" /\ e \in Events
      /\ name \in Names \cup {None} /\ today \in Days
      /\ name # None => name \in names
      /\ UNCHANGED <<today, names, legacy>>
  BY DEF InsertEvent, CollectsOK, EventsTypeOK, Collect
<1>2. events' = [events EXCEPT ![e] = row]
  BY DEF InsertEvent
<1>3. row \in EventRow /\ row.state = "raw" /\ row.day = today /\ row.name = name
  BY <1>1 DEF EventRow
<1> HIDE DEF row
<1>4. /\ events' \in [Events -> EventRow] /\ events'[e] = row
      /\ \A f \in Events : f # e => events'[f] = events[f]
  BY <1>1, <1>2, <1>3 DEF EventsTypeOK
<1>5. /\ collects' \in [Slots -> Collect]
      /\ \A d \in Slots : d # c => collects'[d] = collects[d]
      /\ collects'[c].pc \notin {"exists", "count", "add"}
      /\ \/ collects'[c].pc = "idle"
         \/ collects'[c].event = e /\ collects'[c].name = name
  <2>1. NextCollect(c, "legacy") \/ EndCollect(c)
    BY DEF InsertEvent
  <2>2. CASE NextCollect(c, "legacy")
    BY <2>2, SlotTypes
  <2>3. CASE EndCollect(c)
    BY <2>3, SlotTypes
  <2>4. QED
    BY <2>1, <2>2, <2>3
<1>6. TypesOK'
  BY <1>1, <1>4, <1>5 DEF EventsTypeOK, maintenance
<1>7. CollectsOK'
  BY <1>1, <1>5 DEF CollectsOK
<1>8. EventNamesListed'
  BY <1>1, <1>3, <1>4 DEF EventNamesListed
<1>9. JobOK'
  <2>1. job.pc # "idle" => ~(today < job.cutoff)
    BY <1>1 DEF JobOK, Job, Days
  <2>2. job' = job /\ rolled' = rolled
    BY DEF maintenance
  <2>3. job.pc # "idle" => job.cutoff < today'
    BY <1>1 DEF JobOK
  <2>4. \A f \in Events : job.pc # "idle" /\ events'[f].day < job.cutoff => f # e
    BY <1>3, <1>4, <2>1
  <2>5. QED
    BY <1>4, <2>2, <2>3, <2>4 DEF JobOK
<1>10. PurgedWasRolledUp'
  BY <1>3, <1>4 DEF PurgedWasRolledUp, maintenance
<1>11. QED
  BY <1>6, <1>7, <1>8, <1>9, <1>10

LEMMA RequestEndStep ==
  ASSUME Inv, NEW c \in Slots, UNCHANGED maintenance,
         InsertIgnored(c) \/ WriteLegacy(c) \/ CollectStops(c)
  PROVE  Inv'
<1> USE DEF Inv, TypesOK
<1>1. /\ EndCollect(c) /\ collects[c].pc # "idle"
      /\ UNCHANGED <<today, events, names>>
      /\ legacy' = legacy \/ legacy' = legacy \cup {collects[c].event}
  BY DEF InsertIgnored, WriteLegacy, CollectStops
<1>2. names' = names /\ names \subseteq Names /\ legacy' \subseteq Events
  BY <1>1 DEF EventsTypeOK, CollectsOK
<1>3. QED
  BY <1>1, <1>2, SlotTypes, RequestStep

LEMMA DayStep ==
  ASSUME Inv, NextDay, UNCHANGED maintenance
  PROVE  Inv'
<1> USE DEF Inv, TypesOK
<1>1. today \in Days /\ today' \in Days /\ today' = today + 1
      /\ UNCHANGED <<events, names, legacy, collects>>
  BY EventsAssumption DEF NextDay, EventsTypeOK, Days
<1>2. TypesOK'
  BY <1>1 DEF EventsTypeOK, maintenance
<1>3. CollectsOK' /\ EventNamesListed' /\ PurgedWasRolledUp'
  BY <1>1 DEF CollectsOK, EventNamesListed, PurgedWasRolledUp, maintenance
<1>4. JobOK'
  <2>1. job' = job /\ rolled' = rolled
    BY DEF maintenance
  <2>2. job.pc # "idle" => job.cutoff < today'
    BY <1>1 DEF JobOK, Job, Days
  <2>3. QED
    BY <1>1, <2>1, <2>2 DEF JobOK
<1>5. QED
  BY <1>2, <1>3, <1>4

-----------------------------------------------------------------------------
(* Maintenance.                                                            *)
LEMMA JobStartStep ==
  ASSUME Inv, JobStart
  PROVE  Inv'
<1> USE DEF Inv, TypesOK
<1> DEFINE day == today
           cutoff == today - retention
<1>1. /\ job' = [NoJob EXCEPT !.pc = "recent", !.today = day, !.cutoff = cutoff]
      /\ UNCHANGED <<ingestion, retention, daily, rolled, settled, uneven>>
  BY DEF JobStart
<1>2. day \in Days /\ cutoff \in Int /\ cutoff < today /\ 0 \in 0..(MaxChunks - 1)
  BY MaintenanceAssumption DEF EventsTypeOK, Days
<1> HIDE DEF day, cutoff
<1>3. job' \in Job /\ job'.pc = "recent" /\ job'.cutoff = cutoff
  BY <1>1, <1>2 DEF NoJob, Job
<1>4. TypesOK' /\ CollectsOK' /\ EventNamesListed' /\ PurgedWasRolledUp'
  BY <1>1, <1>3 DEF ingestion, EventsTypeOK, CollectsOK, EventNamesListed,
                    PurgedWasRolledUp
<1>5. JobOK'
  BY <1>1, <1>2, <1>3 DEF ingestion, JobOK
<1>6. QED
  BY <1>4, <1>5

LEMMA RollUpRecentStep ==
  ASSUME Inv, RollUpRecent
  PROVE  Inv'
<1> USE DEF Inv, TypesOK
<1>1. /\ job.pc = "recent" /\ job' = [job EXCEPT !.pc = "list"]
      /\ rolled \subseteq rolled' /\ rolled' \subseteq Events
      /\ UNCHANGED <<ingestion, retention, settled, uneven>>
  BY DEF RollUpRecent, RollUp, Raw
<1>2. job' \in Job /\ job'.pc = "list" /\ job'.cutoff = job.cutoff
  BY <1>1 DEF Job
<1>3. TypesOK' /\ CollectsOK' /\ EventNamesListed' /\ PurgedWasRolledUp'
  BY <1>1, <1>2 DEF ingestion, EventsTypeOK, CollectsOK, EventNamesListed,
                    PurgedWasRolledUp
<1>4. JobOK'
  BY <1>1, <1>2 DEF ingestion, JobOK
<1>5. QED
  BY <1>3, <1>4

(* Every expired day is listed, or the run ends here.                      *)
LEMMA ListExpiredStep ==
  ASSUME Inv, ListExpired
  PROVE  Inv'
<1> USE DEF Inv, TypesOK
<1> DEFINE expired == Expired(job.cutoff)
<1>1. /\ job.pc = "list"
      /\ job' = NoJob \/ job' = [job EXCEPT !.pc = "expired", !.left = expired]
      /\ UNCHANGED <<ingestion, retention, daily, rolled, settled, uneven>>
  BY DEF ListExpired
<1>2. /\ expired \in SUBSET Days
      /\ \A e \in Events : events[e].state = "raw" /\ events[e].day < job.cutoff
                             => events[e].day \in expired
  BY DEF Expired, Raw, EventsTypeOK, EventRow
<1> HIDE DEF expired
<1>3. /\ job' \in Job
      /\ \/ job'.pc = "idle"
         \/ job'.pc = "expired" /\ job'.cutoff = job.cutoff /\ job'.left = expired
  <2>1. CASE job' = NoJob
    <3>1. 0 \in Days /\ 0 \in 0..(MaxChunks - 1)
      BY EventsAssumption, MaintenanceAssumption DEF Days
    <3>2. QED
      BY <2>1, <3>1 DEF NoJob, Job
  <2>2. CASE job' = [job EXCEPT !.pc = "expired", !.left = expired]
    BY <1>2, <2>2 DEF Job
  <2>3. QED
    BY <1>1, <2>1, <2>2
<1>4. TypesOK' /\ CollectsOK' /\ EventNamesListed' /\ PurgedWasRolledUp'
  BY <1>1, <1>3 DEF ingestion, EventsTypeOK, CollectsOK, EventNamesListed,
                    PurgedWasRolledUp
<1>5. JobOK'
  BY <1>1, <1>2, <1>3 DEF ingestion, JobOK
<1>6. QED
  BY <1>4, <1>5

LEMMA RollUpExpiredStep ==
  ASSUME Inv, RollUpExpired
  PROVE  Inv'
<1> USE DEF Inv, TypesOK
<1>1. PICK d : /\ rolled' = rolled \cup Raw(d)
               /\ job' = [job EXCEPT !.left = job.left \ {d}]
  BY DEF RollUpExpired, RollUp
<1>2. /\ job.pc = "expired" /\ UNCHANGED <<ingestion, retention, settled, uneven>>
  BY DEF RollUpExpired
<1> DEFINE left == job.left \ {d}
<1>3. left \in SUBSET Days /\ rolled \subseteq rolled' /\ rolled' \subseteq Events
  BY <1>1 DEF Job, Raw
<1>4. \A e \in Events : events[e].state = "raw" /\ events[e].day < job.cutoff
                          => e \in rolled' \/ events[e].day \in left
  BY <1>1, <1>2 DEF JobOK, Raw
<1>5. job' = [job EXCEPT !.left = left]
  BY <1>1
<1> HIDE DEF left
<1>6. job' \in Job /\ job'.pc = "expired" /\ job'.cutoff = job.cutoff /\ job'.left = left
  BY <1>2, <1>3, <1>5 DEF Job
<1>7. TypesOK' /\ CollectsOK' /\ EventNamesListed' /\ PurgedWasRolledUp'
  BY <1>2, <1>3, <1>6 DEF ingestion, EventsTypeOK, CollectsOK, EventNamesListed,
                          PurgedWasRolledUp
<1>8. JobOK'
  BY <1>2, <1>4, <1>6 DEF ingestion, JobOK
<1>9. QED
  BY <1>7, <1>8

LEMMA PurgeStartStep ==
  ASSUME Inv, PurgeStart
  PROVE  Inv'
<1> USE DEF Inv, TypesOK
<1>1. /\ job.pc = "expired" /\ job.left = {} /\ job' = [job EXCEPT !.pc = "purge"]
      /\ UNCHANGED <<ingestion, retention, daily, rolled, settled, uneven>>
  BY DEF PurgeStart
<1>2. job' \in Job /\ job'.pc = "purge" /\ job'.cutoff = job.cutoff
  BY <1>1 DEF Job
<1>3. TypesOK' /\ CollectsOK' /\ EventNamesListed' /\ PurgedWasRolledUp'
  BY <1>1, <1>2 DEF ingestion, EventsTypeOK, CollectsOK, EventNamesListed,
                    PurgedWasRolledUp
<1>4. JobOK'
  BY <1>1, <1>2 DEF ingestion, JobOK
<1>5. QED
  BY <1>3, <1>4

(* Only rows of rolled-up days are purged.                                 *)
LEMMA PurgeChunkStep ==
  ASSUME Inv, PurgeChunk
  PROVE  Inv'
<1> USE DEF Inv, TypesOK
<1>1. PICK rows \in SUBSET Purgeable :
        Delete(rows, Cardinality(rows) < Chunk, job.chunks + 1 = MaxChunks)
  BY DEF PurgeChunk
<1>2. /\ job.pc = "purge"
      /\ UNCHANGED <<today, names, legacy, collects, retention, daily, rolled>>
  BY DEF PurgeChunk
<1>3. \A e \in rows : e \in Events /\ events[e].state = "raw" /\ e \in rolled
  BY <1>2 DEF Purgeable, Expired, Raw, JobOK
<1>4. /\ \A e \in Events : events'[e] = IF e \in rows
                             THEN [events[e] EXCEPT !.state = "purged"] ELSE events[e]
      /\ events' = [e \in Events |-> events'[e]]
  BY <1>1 DEF Delete
<1>5. \A e \in Events :
        /\ events'[e] \in EventRow
        /\ events'[e].day = events[e].day /\ events'[e].name = events[e].name
        /\ IF e \in rows THEN events'[e].state = "purged"
           ELSE events'[e].state = events[e].state
  BY <1>4 DEF EventsTypeOK, EventRow
<1>6. /\ job' \in Job
      /\ \/ job'.pc = "idle"
         \/ job'.pc = "purge" /\ job'.cutoff = job.cutoff
  <2> DEFINE chunks == job.chunks + 1
  <2>1. job' = NoJob \/ (job' = [job EXCEPT !.chunks = chunks] /\ chunks # MaxChunks)
    BY <1>1 DEF Delete
  <2>2. CASE job' = NoJob
    <3>1. 0 \in Days /\ 0 \in 0..(MaxChunks - 1)
      BY EventsAssumption, MaintenanceAssumption DEF Days
    <3>2. QED
      BY <2>2, <3>1 DEF NoJob, Job
  <2>3. CASE job' = [job EXCEPT !.chunks = chunks] /\ chunks # MaxChunks
    <3>1. chunks \in 0..(MaxChunks - 1)
      BY <2>3, MaintenanceAssumption DEF Job
    <3> HIDE DEF chunks
    <3>2. QED
      BY <1>2, <2>3, <3>1 DEF Job
  <2>4. QED
    BY <2>1, <2>2, <2>3
<1>7. TypesOK'
  BY <1>2, <1>4, <1>5, <1>6 DEF EventsTypeOK
<1>8. CollectsOK'
  BY <1>2 DEF CollectsOK
<1>9. EventNamesListed'
  BY <1>2, <1>3, <1>5 DEF EventNamesListed
<1>10. PurgedWasRolledUp'
  BY <1>2, <1>3, <1>5 DEF PurgedWasRolledUp
<1>11. JobOK'
  BY <1>2, <1>5, <1>6 DEF JobOK
<1>12. QED
  BY <1>7, <1>8, <1>9, <1>10, <1>11

LEMMA OtherJobStep ==
  ASSUME Inv, JobStops \/ \E n \in Retentions : SetRetention(n)
  PROVE  Inv'
<1> USE DEF Inv, TypesOK
<1>1. /\ UNCHANGED <<ingestion, rolled>> /\ retention' \in Retentions
      /\ job' = job \/ job' = NoJob
  BY DEF JobStops, SetRetention
<1>2. NoJob \in Job /\ NoJob.pc = "idle"
  <2>1. 0 \in Days /\ 0 \in 0..(MaxChunks - 1)
    BY EventsAssumption, MaintenanceAssumption DEF Days
  <2>2. QED
    BY <2>1 DEF NoJob, Job
<1>3. TypesOK' /\ CollectsOK' /\ EventNamesListed' /\ PurgedWasRolledUp'
  BY <1>1, <1>2 DEF ingestion, EventsTypeOK, CollectsOK, EventNamesListed,
                    PurgedWasRolledUp
<1>4. JobOK'
  BY <1>1, <1>2 DEF ingestion, JobOK
<1>5. QED
  BY <1>3, <1>4

LEMMA StepInv == Inv /\ [Next]_vars => Inv'
<1> SUFFICES ASSUME Inv, [Next]_vars PROVE Inv'
  OBVIOUS
<1>1. CASE Ingest
  <2>1. ASSUME NEW c \in Slots, NEW e \in Events, NEW name \in Names \cup {None},
               NEW old \in BOOLEAN, CollectStart(c, e, name, old)
        PROVE  Inv'
    BY <1>1, <2>1, CollectStartStep DEF Ingest
  <2>2. ASSUME NEW c \in Slots,
               \/ NameExists(c) \/ NameCount(c) \/ NameAdd(c) \/ InsertEvent(c)
               \/ InsertIgnored(c) \/ WriteLegacy(c) \/ CollectStops(c)
        PROVE  Inv'
    BY <1>1, <2>2, NameStep, InsertEventStep, RequestEndStep DEF Ingest
  <2>3. QED
    BY <1>1, <2>1, <2>2 DEF Ingest, EventsNext
<1>2. CASE DayPasses
  BY <1>2, DayStep DEF DayPasses
<1>3. CASE JobNext
  BY <1>3, JobStartStep, RollUpRecentStep, ListExpiredStep, RollUpExpiredStep,
     PurgeStartStep, PurgeChunkStep DEF JobNext
<1>4. CASE JobStops \/ \E n \in Retentions : SetRetention(n)
  BY <1>4, OtherJobStep
<1>5. CASE UNCHANGED vars
  BY <1>5 DEF vars, maintenance, Inv, TypesOK, EventsTypeOK, CollectsOK, JobOK,
             EventNamesListed, PurgedWasRolledUp
<1>6. QED
  BY <1>1, <1>2, <1>3, <1>4, <1>5 DEF Next, Healthy

LEMMA Invariant == Spec => []Inv
<1>1. QED
  BY InitInv, StepInv, PTL DEF Spec

-----------------------------------------------------------------------------
(* The registry of event names lists the name of every stored custom       *)
(* event: a name is looked up or added before the event is inserted, and   *)
(* no request at the limit goes on (ensureEventName).                      *)
THEOREM NamesAreListed == Spec => []EventNamesListed
<1>1. QED
  BY Invariant, PTL DEF Inv

(* "Nothing is deleted before it is aggregated": the days a run deletes    *)
(* are days it has rolled up, all of them, and no event is stored on such  *)
(* a day any more (runMaintenance).                                        *)
THEOREM PurgedRolledUp == Spec => []PurgedWasRolledUp
<1>1. QED
  BY Invariant, PTL DEF Inv

-----------------------------------------------------------------------------
(* The totals.                                                             *)
LEMMA DayFacts ==
  ASSUME NEW d \in Days
  PROVE  /\ EventsTypeOK => StoredOn(d) = Raw(d) \cup Purged(d)
         /\ IsFiniteSet(Raw(d)) /\ Cardinality(Raw(d)) \in Nat
         /\ TotalsOK /\ StoredOn(d) = {} => Counted(d)
<1>1. EventsTypeOK => StoredOn(d) = Raw(d) \cup Purged(d)
  BY DEF EventsTypeOK, EventRow, StoredOn, Raw, Purged
<1>2. IsFiniteSet(Raw(d)) /\ Cardinality(Raw(d)) \in Nat
  <2>1. Raw(d) \in SUBSET Events
    BY DEF Raw
  <2>2. IsFiniteSet(Raw(d))
    BY <2>1, EventsAssumption, FS_Subset
  <2>3. QED
    BY <2>2, FS_CardinalityType
<1>3. ASSUME TotalsOK, StoredOn(d) = {}
      PROVE  Counted(d)
  BY <1>3, FS_EmptySet DEF TotalsOK, Counted, Total
<1>4. QED
  BY <1>1, <1>2, <1>3

LEMMA SameEvents ==
  ASSUME UNCHANGED events
  PROVE  \A d : Raw(d)' = Raw(d) /\ Purged(d)' = Purged(d) /\ StoredOn(d)' = StoredOn(d)
BY DEF Raw, Purged, StoredOn

LEMMA SameTotals ==
  ASSUME UNCHANGED <<events, daily>>
  PROVE  \A d : Counted(d)' <=> Counted(d)
BY DEF Counted, Total, StoredOn

(* Days pass, retentions change, requests come: the cutoff of the Site     *)
(* moves forward unless the retention is raised.                           *)
LEMMA CutoffMoves ==
  ASSUME Inv, Inv', TotalsOK, UNCHANGED <<events, daily, settled, job>>,
         uneven' \in BOOLEAN,
         ~uneven' => ~uneven /\ today - retention <= today' - retention'
  PROVE  TotalsOK'
<1> USE DEF Inv, TypesOK
<1>1. \A d \in Days : StoredOn(d)' = {} => daily'[d] = None
  BY SameEvents DEF TotalsOK
<1>2. ASSUME ~uneven'
      PROVE  TotalsSoFar'
  <2> DEFINE old == today - retention
             new == today' - retention'
  <2>1. old \in Int /\ new \in Int /\ old <= new
    BY <1>2, MaintenanceAssumption DEF EventsTypeOK, Days
  <2>2. \A d \in Days : d \in Int
    BY EventsAssumption DEF Days
  <2>3. TotalsSoFar
    BY <1>2 DEF TotalsOK
  <2>4. job.cutoff \in Int /\ settled \in Int \cup {None}
    BY DEF Job, TotalsOK
  <2>5. job.pc # "idle" => job.cutoff <= new
    BY <2>1, <2>3, <2>4 DEF TotalsSoFar
  <2>6. \A d \in Days : Purged(d) # {} => d < new
    BY <2>1, <2>2, <2>3 DEF TotalsSoFar
  <2>7. settled # None => settled <= new
    BY <2>1, <2>3, <2>4 DEF TotalsSoFar
  <2> HIDE DEF old
  <2>8. QED
    BY <2>3, <2>5, <2>6, <2>7, SameEvents, SameTotals DEF TotalsSoFar
<1>3. QED
  BY <1>1, <1>2 DEF TotalsOK

(* The steps of a run between its statements.                              *)
LEMMA JobMoves ==
  ASSUME Inv, Inv', TotalsOK,
         UNCHANGED <<today, events, retention, daily, settled>>,
         uneven' \in BOOLEAN, uneven => uneven',
         job.pc = "purge" /\ job.chunks > 0 => uneven',
         job'.pc \in {"idle", "recent", "list", "expired", "purge"},
         job'.pc = "recent" => job'.cutoff = today - retention,
         job'.pc # "idle" /\ job'.pc # "recent" => job.pc # "idle" /\ job'.cutoff = job.cutoff,
         job'.pc = "expired" =>
           job'.left = Expired(job.cutoff) /\ job.pc # "purge",
         job'.pc = "purge" => job.pc = "expired" /\ job.left = {}
  PROVE  TotalsOK'
<1> USE DEF Inv, TypesOK
<1>1. \A d \in Days : StoredOn(d)' = {} => daily'[d] = None
  BY SameEvents DEF TotalsOK
<1>2. ASSUME ~uneven'
      PROVE  TotalsSoFar'
  <2>1. TotalsSoFar /\ ~(job.pc = "purge" /\ job.chunks > 0)
    BY <1>2 DEF TotalsOK
  <2>2. job'.pc # "idle" => job'.cutoff <= today' - retention'
    <3>1. today - retention <= today - retention
      BY MaintenanceAssumption DEF EventsTypeOK, Days
    <3>2. QED
      BY <2>1, <3>1 DEF TotalsSoFar
  <2>3. \A d \in Days : Purged(d)' # {} =>
          d < today' - retention' /\ Counted(d)' /\ Raw(d)' = {}
    BY <2>1, SameEvents, SameTotals DEF TotalsSoFar
  <2>4. job'.pc = "expired" =>
          \A d \in Days : d < job'.cutoff => d \in job'.left \/ Counted(d)'
    <3>1. ASSUME job'.pc = "expired", NEW d \in Days, d < job.cutoff, d \notin job'.left
          PROVE  Counted(d)
      <4>1. Raw(d) = {}
        BY <3>1 DEF Expired
      <4>2. CASE Purged(d) = {}
        BY <4>1, <4>2, DayFacts
      <4>3. CASE Purged(d) # {}
        BY <2>1, <4>3 DEF TotalsSoFar
      <4>4. QED
        BY <4>2, <4>3
    <3>2. QED
      BY <3>1, SameTotals
  <2>5. job'.pc = "purge" => \A d \in Days : d < job'.cutoff => Counted(d)'
    BY <2>1, SameTotals DEF TotalsSoFar
  <2>6. settled' # None =>
          /\ settled' <= today' - retention'
          /\ \A d \in Days : d < settled' => Raw(d)' = {} /\ Counted(d)'
    BY <2>1, SameEvents, SameTotals DEF TotalsSoFar
  <2>7. QED
    BY <2>2, <2>3, <2>4, <2>5, <2>6 DEF TotalsSoFar
<1>3. QED
  BY <1>1, <1>2 DEF TotalsOK

(* A roll-up changes the total of no day that has lost an event.           *)
LEMMA RollUpDays ==
  ASSUME Inv, TotalsOK, NEW days, RollUp(days), UNCHANGED events, job.pc # "purge"
  PROVE  /\ daily' \in [Days -> Nat \cup {None}]
         /\ \A d \in Days : StoredOn(d)' = {} => daily'[d] = None
         /\ \A d \in Days \ days : Counted(d)' <=> Counted(d)
         /\ \A d \in Days : Raw(d) = {} => (Counted(d)' <=> Counted(d))
         /\ ~uneven => \A d \in days \cap Days : Counted(d)'
         /\ ~uneven => \A d \in Days : Counted(d) => Counted(d)'
<1> USE DEF Inv, TypesOK
<1>1. /\ daily' = RolledUp(days)
      /\ \A d \in Days : daily'[d] = IF d \in days /\ Raw(d) # {}
                                     THEN Cardinality(Raw(d)) ELSE daily[d]
  BY DEF RollUp, RolledUp
<1>2. daily' \in [Days -> Nat \cup {None}]
  <2>1. \A d \in Days : daily'[d] \in Nat \cup {None}
    BY <1>1, DayFacts DEF TotalsOK
  <2>2. daily' = [d \in Days |-> daily'[d]]
    BY <1>1 DEF RolledUp
  <2>3. QED
    BY <2>1, <2>2
<1>3. \A d \in Days : StoredOn(d) = {} => Raw(d) = {}
  BY DayFacts
<1>4. \A d \in Days : StoredOn(d)' = {} => daily'[d] = None
  BY <1>1, <1>3, SameEvents DEF TotalsOK
<1>5. \A d \in Days : daily'[d] = daily[d] => (Counted(d)' <=> Counted(d))
  BY SameEvents DEF Counted, Total
<1>6. ASSUME ~uneven, NEW d \in days \cap Days
      PROVE  Counted(d)'
  <2>1. TotalsSoFar
    BY <1>6 DEF TotalsOK
  <2>2. CASE Raw(d) = {} /\ Purged(d) = {}
    <3>1. Counted(d)
      BY <2>2, DayFacts
    <3>2. QED
      BY <1>1, <1>5, <2>2, <3>1
  <2>3. CASE Raw(d) = {} /\ Purged(d) # {}
    BY <1>1, <1>5, <2>1, <2>3 DEF TotalsSoFar
  <2>4. CASE Raw(d) # {}
    <3>1. Purged(d) = {}
      BY <2>1, <2>4 DEF TotalsSoFar
    <3>2. StoredOn(d) = Raw(d)
      BY <3>1, DayFacts
    <3>3. daily'[d] = Cardinality(StoredOn(d)) /\ daily'[d] \in Nat
      BY <1>1, <2>4, <3>2, DayFacts
    <3>4. daily'[d] # None
      BY <3>3, EventsAssumption
    <3>5. QED
      BY <3>3, <3>4, SameEvents DEF Counted, Total
  <2>5. QED
    BY <2>2, <2>3, <2>4
<1>7. \A d \in Days \ days : Counted(d)' <=> Counted(d)
  BY <1>1, <1>5
<1>8. \A d \in Days : Raw(d) = {} => (Counted(d)' <=> Counted(d))
  BY <1>1, <1>5
<1>9. ~uneven => \A d \in Days : Counted(d) => Counted(d)'
  BY <1>6, <1>7
<1>10. QED
  BY <1>2, <1>4, <1>6, <1>7, <1>8, <1>9

LEMMA RollUpTotals ==
  ASSUME Inv, Inv', TotalsOK, RollUpRecent \/ RollUpExpired
  PROVE  TotalsOK'
<1> USE DEF Inv, TypesOK
<1>1. /\ UNCHANGED <<today, events, retention, settled, uneven>>
      /\ job.pc \in {"recent", "expired"}
  BY DEF RollUpRecent, RollUpExpired, ingestion
<1>2. PICK days :
        /\ RollUp(days)
        /\ \/ job' = [job EXCEPT !.pc = "list"]
           \/ job.pc = "expired" /\ job' = [job EXCEPT !.left = job.left \ days]
  <2>1. CASE RollUpRecent
    BY <2>1 DEF RollUpRecent
  <2>2. CASE RollUpExpired
    <3>1. PICK d : RollUp({d}) /\ job' = [job EXCEPT !.left = job.left \ {d}]
      BY <2>2 DEF RollUpExpired
    <3>2. QED
      BY <2>2, <3>1 DEF RollUpExpired
  <2>3. QED
    BY <2>1, <2>2
<1>3. /\ job'.cutoff = job.cutoff
      /\ \/ job'.pc = "list"
         \/ job.pc = "expired" /\ job'.pc = "expired" /\ job'.left = job.left \ days
  BY <1>2 DEF Job
<1>4. /\ daily' \in [Days -> Nat \cup {None}]
      /\ \A d \in Days : StoredOn(d)' = {} => daily'[d] = None
      /\ \A d \in Days : Raw(d) = {} => (Counted(d)' <=> Counted(d))
      /\ ~uneven => \A d \in days \cap Days : Counted(d)'
      /\ ~uneven => \A d \in Days : Counted(d) => Counted(d)'
  BY <1>1, <1>2, RollUpDays
<1>5. ASSUME ~uneven
      PROVE  TotalsSoFar'
  <2>1. TotalsSoFar
    BY <1>5 DEF TotalsOK
  <2>2. job'.cutoff <= today' - retention'
    BY <1>1, <1>3, <2>1 DEF TotalsSoFar
  <2>3. \A d \in Days : Purged(d)' # {} =>
          d < today' - retention' /\ Counted(d)' /\ Raw(d)' = {}
    BY <1>1, <1>4, <2>1, SameEvents DEF TotalsSoFar
  <2>4. job'.pc = "expired" =>
          \A d \in Days : d < job'.cutoff => d \in job'.left \/ Counted(d)'
    BY <1>3, <1>4, <1>5, <2>1 DEF TotalsSoFar
  <2>5. settled' # None =>
          /\ settled' <= today' - retention'
          /\ \A d \in Days : d < settled' => Raw(d)' = {} /\ Counted(d)'
    BY <1>1, <1>4, <2>1, SameEvents DEF TotalsSoFar
  <2>6. QED
    BY <1>3, <2>2, <2>3, <2>4, <2>5 DEF TotalsSoFar
<1>6. QED
  BY <1>1, <1>4, <1>5 DEF TotalsOK

(* An event is stored on a day that no cutoff has reached.                 *)
LEMMA InsertTotals ==
  ASSUME Inv, Inv', TotalsOK, NEW c \in Slots, InsertEvent(c), UNCHANGED maintenance
  PROVE  TotalsOK'
<1> USE DEF Inv, TypesOK
<1> DEFINE e == collects[c].event
           name == collects[c].name
           row == [state |-> "raw", day |-> today, name |-> name]
<1>1. e \in Events /\ events[e].state = "absent" /\ today' = today /\ today \in Days
  BY DEF InsertEvent, CollectsOK, EventsTypeOK
<1>2. events' = [events EXCEPT ![e] = row]
  BY DEF InsertEvent
<1>3. row.state = "raw" /\ row.day = today
  OBVIOUS
<1> HIDE DEF row
<1>4. events'[e] = row /\ \A f \in Events : f # e => events'[f] = events[f]
  BY <1>1, <1>2 DEF EventsTypeOK
<1>5. \A d \in Days : d # today =>
        Raw(d)' = Raw(d) /\ Purged(d)' = Purged(d) /\ StoredOn(d)' = StoredOn(d)
  BY <1>1, <1>3, <1>4 DEF Raw, Purged, StoredOn
<1>6. \A d \in Days : Purged(d)' = Purged(d) /\ StoredOn(d) \subseteq StoredOn(d)'
  BY <1>1, <1>3, <1>4 DEF Purged, StoredOn
<1>7. UNCHANGED <<retention, daily, job, settled, uneven>>
  BY DEF maintenance
<1>8. \A d \in Days : d # today => (Counted(d)' <=> Counted(d))
  BY <1>5, <1>7 DEF Counted, Total
<1>9. \A d \in Days : StoredOn(d)' = {} => daily'[d] = None
  BY <1>6, <1>7 DEF TotalsOK
<1>10. ASSUME ~uneven
       PROVE  TotalsSoFar'
  <2>1. TotalsSoFar
    BY <1>10 DEF TotalsOK
  <2>2. today \in Int /\ today - retention \in Int /\ today - retention < today
        /\ \A d \in Days : d \in Int
    BY MaintenanceAssumption, EventsAssumption DEF EventsTypeOK, Days
  <2>3. \A d \in Days : Purged(d) # {} => d # today
    BY <2>1, <2>2 DEF TotalsSoFar
  <2>4. job.pc # "idle" => \A d \in Days : d < job.cutoff => d # today
    BY <2>1, <2>2 DEF TotalsSoFar, Job
  <2>5. settled # None => \A d \in Days : d < settled => d # today
    BY <2>1, <2>2 DEF TotalsSoFar, TotalsOK
  <2>6. \A d \in Days : Purged(d)' # {} =>
          /\ d < today - retention /\ Counted(d)'
          /\ Raw(d)' = {} \/ (job.pc = "purge" /\ job.chunks > 0 /\ d < job.cutoff)
    BY <1>5, <1>6, <1>8, <2>1, <2>3 DEF TotalsSoFar
  <2>7. job.pc = "expired" =>
          \A d \in Days : d < job.cutoff => d \in job.left \/ Counted(d)'
    BY <1>8, <2>1, <2>4 DEF TotalsSoFar
  <2>8. job.pc = "purge" => \A d \in Days : d < job.cutoff => Counted(d)'
    BY <1>8, <2>1, <2>4 DEF TotalsSoFar
  <2>9. settled # None => \A d \in Days : d < settled => Raw(d)' = {} /\ Counted(d)'
    BY <1>5, <1>8, <2>1, <2>5 DEF TotalsSoFar
  <2>10. QED
    BY <1>1, <1>7, <2>1, <2>6, <2>7, <2>8, <2>9 DEF TotalsSoFar
<1>11. QED
  BY <1>7, <1>9, <1>10 DEF TotalsOK

(* A chunk takes events of counted days; the run goes on until no expired  *)
(* event is left, or leaves a day half purged.                             *)
LEMMA PurgeTotals ==
  ASSUME Inv, Inv', TotalsOK, PurgeChunk
  PROVE  TotalsOK'
<1> USE DEF Inv, TypesOK
<1>1. PICK rows \in SUBSET Purgeable :
        Delete(rows, Cardinality(rows) < Chunk, job.chunks + 1 = MaxChunks)
  BY DEF PurgeChunk
<1>2. /\ job.pc = "purge"
      /\ UNCHANGED <<today, names, legacy, collects, retention, daily, rolled>>
  BY DEF PurgeChunk
<1>3. \A e \in rows : /\ e \in Events /\ events[e].state = "raw"
                      /\ events[e].day < job.cutoff
  BY DEF Purgeable, Expired, Raw
<1>4. \A e \in Events : events'[e] = IF e \in rows
        THEN [events[e] EXCEPT !.state = "purged"] ELSE events[e]
  BY <1>1 DEF Delete
<1>5. \A e \in Events :
        /\ events'[e].day = events[e].day
        /\ IF e \in rows THEN events'[e].state = "purged"
           ELSE events'[e].state = events[e].state
  BY <1>4 DEF EventsTypeOK, EventRow
<1>6. \A d \in Days :
        /\ StoredOn(d)' = StoredOn(d) /\ Raw(d)' \subseteq Raw(d)
        /\ Purged(d)' # {} => Purged(d) # {} \/ d < job.cutoff
        /\ rows = Purgeable /\ d < job.cutoff => Raw(d)' = {}
  <2>1. TAKE d \in Days
  <2>2. StoredOn(d)' = StoredOn(d)
    BY <1>3, <1>5 DEF StoredOn
  <2>3. Raw(d)' \subseteq Raw(d)
    BY <1>5 DEF Raw
  <2>4. Purged(d)' # {} => Purged(d) # {} \/ d < job.cutoff
    BY <1>3, <1>5 DEF Purged
  <2>5. ASSUME rows = Purgeable, d < job.cutoff
        PROVE  Raw(d)' = {}
    <3>1. Raw(d) \subseteq rows
      BY <2>5 DEF Purgeable, Expired
    <3>2. QED
      BY <1>5, <3>1 DEF Raw
  <2>6. QED
    BY <2>2, <2>3, <2>4, <2>5
<1>7. \A d \in Days : Counted(d)' <=> Counted(d)
  BY <1>2, <1>6 DEF Counted, Total
<1>8. /\ settled' = IF rows = Purgeable THEN job.cutoff ELSE settled
      /\ \/ job'.pc = "idle" /\ (rows = Purgeable \/ uneven')
         \/ job'.pc = "purge" /\ job'.cutoff = job.cutoff /\ job'.chunks > 0
      /\ uneven => uneven'
      /\ uneven' \in BOOLEAN
  <2> DEFINE short == Cardinality(rows) < Chunk
             lastChunk == job.chunks + 1 = MaxChunks
             chunks == job.chunks + 1
  <2>1. /\ Cardinality(rows) = Chunk \/ (short /\ rows = Purgeable)
        /\ job' = IF short \/ lastChunk THEN NoJob ELSE [job EXCEPT !.chunks = chunks]
        /\ settled' = IF rows = Purgeable THEN job.cutoff ELSE settled
        /\ uneven' = (uneven \/ (lastChunk /\ rows # Purgeable))
    BY <1>1 DEF Delete
  <2>2. short => rows = Purgeable
    BY <2>1, MaintenanceAssumption
  <2> HIDE DEF short, lastChunk
  <2>3. chunks > 0
    BY MaintenanceAssumption DEF Job
  <2> HIDE DEF chunks
  <2>4. CASE short \/ lastChunk
    BY <2>1, <2>2, <2>4 DEF NoJob
  <2>5. CASE ~(short \/ lastChunk)
    <3>1. job' = [job EXCEPT !.chunks = chunks]
      BY <2>1, <2>5
    <3>2. job'.pc = "purge" /\ job'.cutoff = job.cutoff /\ job'.chunks > 0
      BY <1>2, <2>3, <3>1 DEF Job
    <3>3. QED
      BY <2>1, <3>2
  <2>6. QED
    BY <2>4, <2>5
<1>9. ASSUME ~uneven'
      PROVE  TotalsSoFar'
  <2>1. TotalsSoFar /\ job.cutoff <= today - retention /\ job.cutoff \in Int
        /\ today - retention \in Int
    BY <1>2, <1>8, <1>9, MaintenanceAssumption DEF TotalsOK, TotalsSoFar, Job,
       EventsTypeOK, Days
  <2>2. \A d \in Days : d < job.cutoff => d < today - retention
    BY <2>1, EventsAssumption DEF Days
  <2>3. \A d \in Days : Purged(d)' # {} =>
          /\ d < today' - retention' /\ Counted(d)'
          /\ Raw(d)' = {} \/ (job'.pc = "purge" /\ job'.chunks > 0 /\ d < job'.cutoff)
    <3>1. SUFFICES ASSUME NEW d \in Days, Purged(d)' # {}
                   PROVE  /\ d < today' - retention' /\ Counted(d)'
                          /\ Raw(d)' = {} \/ (/\ job'.pc = "purge" /\ job'.chunks > 0
                                              /\ d < job'.cutoff)
      OBVIOUS
    <3>2. CASE d < job.cutoff
      <4>1. Counted(d)'
        BY <1>2, <1>7, <2>1, <3>2 DEF TotalsSoFar
      <4>2. Raw(d)' = {} \/ (job'.pc = "purge" /\ job'.chunks > 0 /\ d < job'.cutoff)
        BY <1>6, <1>8, <1>9, <3>2
      <4>3. QED
        BY <1>2, <2>2, <3>2, <4>1, <4>2
    <3>3. CASE ~(d < job.cutoff)
      <4>1. Purged(d) # {}
        BY <1>6, <3>1, <3>3
      <4>2. d < today - retention /\ Counted(d) /\ Raw(d) = {}
        BY <2>1, <3>3, <4>1 DEF TotalsSoFar
      <4>3. QED
        BY <1>2, <1>6, <1>7, <4>2
    <3>4. QED
      BY <3>2, <3>3
  <2>4. job'.pc = "purge" => \A d \in Days : d < job'.cutoff => Counted(d)'
    BY <1>2, <1>7, <1>8, <2>1 DEF TotalsSoFar
  <2>5. settled' # None =>
          /\ settled' <= today' - retention'
          /\ \A d \in Days : d < settled' => Raw(d)' = {} /\ Counted(d)'
    <3>1. CASE rows = Purgeable
      BY <1>2, <1>6, <1>7, <1>8, <2>1, <3>1 DEF TotalsSoFar
    <3>2. CASE rows # Purgeable
      BY <1>2, <1>6, <1>7, <1>8, <2>1, <3>2 DEF TotalsSoFar
    <3>3. QED
      BY <3>1, <3>2
  <2>6. job'.pc # "idle" => job'.cutoff <= today' - retention'
    BY <1>2, <1>8, <2>1
  <2>7. QED
    BY <1>8, <2>3, <2>4, <2>5, <2>6 DEF TotalsSoFar
<1>10. daily' = daily /\ \A d \in Days : StoredOn(d)' = {} => daily'[d] = None
  BY <1>2, <1>6 DEF TotalsOK
<1>11. settled' \in Int \cup {None}
  BY <1>8 DEF TotalsOK, Job
<1>12. QED
  BY <1>8, <1>9, <1>10, <1>11 DEF TotalsOK

LEMMA InitTotals == Init => TotalsOK
<1> SUFFICES ASSUME Init PROVE TotalsOK
  OBVIOUS
<1>1. job.pc = "idle" /\ settled = None /\ uneven = FALSE
  BY DEF Init, NoJob
<1>2. \A d \in Days : Purged(d) = {}
  BY DEF Init, EventsInit, Purged
<1>3. daily \in [Days -> Nat \cup {None}] /\ \A d \in Days : daily[d] = None
  BY DEF Init
<1>4. QED
  BY <1>1, <1>2, <1>3 DEF TotalsOK, TotalsSoFar

LEMMA StepTotals == Inv /\ Inv' /\ TotalsOK /\ [Next]_vars => TotalsOK'
<1> SUFFICES ASSUME Inv, Inv', TotalsOK, [Next]_vars PROVE TotalsOK'
  OBVIOUS
<1> USE DEF Inv, TypesOK
<1>1. uneven \in BOOLEAN
  BY DEF TotalsOK
<1>2. /\ today \in Int /\ retention \in Int
      /\ today - retention <= today - retention
  BY MaintenanceAssumption DEF EventsTypeOK, Days
<1>3. CASE Ingest
  <2>1. UNCHANGED maintenance
    BY <1>3 DEF Ingest
  <2>2. CASE \E c \in Slots : InsertEvent(c)
    BY <2>1, <2>2, InsertTotals
  <2>3. CASE ~\E c \in Slots : InsertEvent(c)
    <3>1. UNCHANGED <<today, events>>
      BY <1>3, <2>3 DEF Ingest, EventsNext, CollectStart, NameExists, NameCount, NameAdd,
                        InsertIgnored, WriteLegacy, CollectStops
    <3>2. QED
      BY <1>1, <1>2, <2>1, <3>1, CutoffMoves DEF maintenance
  <2>4. QED
    BY <2>2, <2>3
<1>4. CASE DayPasses
  <2>1. /\ UNCHANGED <<events, daily, settled, job, uneven, retention>>
        /\ today' = today + 1
    BY <1>4 DEF DayPasses, NextDay, maintenance
  <2>2. today - retention <= today' - retention'
    BY <1>2, <2>1
  <2>3. QED
    BY <1>1, <2>1, <2>2, CutoffMoves
<1>5. CASE JobStart
  <2>1. /\ UNCHANGED <<today, events, retention, daily, settled, uneven>>
        /\ job.pc = "idle" /\ job'.pc = "recent" /\ job'.cutoff = today - retention
    BY <1>5 DEF JobStart, ingestion, NoJob
  <2>2. QED
    BY <1>1, <2>1, JobMoves
<1>6. CASE RollUpRecent \/ RollUpExpired
  BY <1>6, RollUpTotals
<1>7. CASE ListExpired
  <2> DEFINE expired == Expired(job.cutoff)
  <2>1. /\ UNCHANGED <<today, events, retention, daily, settled, uneven>>
        /\ job.pc = "list"
        /\ job' = NoJob \/ job' = [job EXCEPT !.pc = "expired", !.left = expired]
    BY <1>7 DEF ListExpired, ingestion
  <2> HIDE DEF expired
  <2>2. \/ job'.pc = "idle"
        \/ job'.pc = "expired" /\ job'.cutoff = job.cutoff /\ job'.left = expired
    <3>1. CASE job' = NoJob
      BY <3>1 DEF NoJob
    <3>2. CASE job' = [job EXCEPT !.pc = "expired", !.left = expired]
      BY <3>2 DEF Job
    <3>3. QED
      BY <2>1, <3>1, <3>2
  <2>3. QED
    BY <1>1, <2>1, <2>2, JobMoves DEF expired
<1>8. CASE PurgeStart
  <2>1. /\ UNCHANGED <<today, events, retention, daily, settled, uneven>>
        /\ job.pc = "expired" /\ job.left = {}
        /\ job'.pc = "purge" /\ job'.cutoff = job.cutoff
    BY <1>8 DEF PurgeStart, ingestion, Job
  <2>2. QED
    BY <1>1, <2>1, JobMoves
<1>9. CASE PurgeChunk
  BY <1>9, PurgeTotals
<1>10. CASE JobStops
  <2>1. /\ UNCHANGED <<today, events, retention, daily, settled>>
        /\ job' = NoJob
        /\ uneven' = (uneven \/ (job.pc = "purge" /\ job.chunks > 0))
    BY <1>10 DEF JobStops, ingestion
  <2>2. job'.pc = "idle"
    BY <2>1 DEF NoJob
  <2>3. /\ uneven' \in BOOLEAN /\ uneven => uneven'
        /\ job.pc = "purge" /\ job.chunks > 0 => uneven'
    BY <1>1, <2>1, Zenon
  <2>4. QED
    BY <2>1, <2>2, <2>3, JobMoves
<1>11. ASSUME NEW n \in Retentions, SetRetention(n)
       PROVE  TotalsOK'
  <2>1. /\ UNCHANGED <<today, events, daily, settled, job>>
        /\ retention' = n /\ uneven' = (uneven \/ n > retention)
    BY <1>11 DEF SetRetention, ingestion
  <2>2. uneven' \in BOOLEAN /\ (~uneven' => ~uneven /\ ~(n > retention))
    BY <1>1, <2>1, Zenon
  <2>3. ~uneven' => today - retention <= today' - retention'
    BY <1>2, <2>1, <2>2, MaintenanceAssumption
  <2>4. QED
    BY <2>1, <2>2, <2>3, CutoffMoves
<1>12. CASE UNCHANGED vars
  BY <1>1, <1>2, <1>12, CutoffMoves DEF vars, maintenance
<1>13. QED
  BY <1>3, <1>4, <1>5, <1>6, <1>7, <1>8, <1>9, <1>10, <1>11, <1>12
     DEF Next, Healthy, JobNext

LEMMA TotalsInvariant == Spec => []TotalsOK
<1>1. QED
  BY InitInv, StepInv, InitTotals, StepTotals, PTL DEF Spec

(* Every variable of ingestion and maintenance stays in its type.          *)
THEOREM AnalyticsTypes == Spec => []TypeOK
<1>1. Inv /\ TotalsOK => TypeOK
  BY DEF Inv, TypesOK, TotalsOK, TypeOK
<1>2. QED
  BY <1>1, Invariant, TotalsInvariant, PTL

(* Once a run has dealt with the expired days, and as long as no purge has *)
(* stopped half way and the retention has not been raised, each day is     *)
(* counted by exactly one of its total and its raw events: what the        *)
(* dashboard's summary adds up (getSummary).                               *)
THEOREM TotalsSettle == Spec => []SettledTotals
<1>1. ASSUME Inv, TotalsOK, settled = today - retention, ~uneven, NEW d \in Days
      PROVE  IF d < settled THEN Raw(d) = {} /\ Counted(d)
             ELSE Purged(d) = {} /\ Raw(d) = StoredOn(d)
  <2>1. TotalsSoFar /\ EventsTypeOK
    BY <1>1 DEF Inv, TypesOK, TotalsOK
  <2>2. settled # None
    <3>1. today - retention \in Int
      BY <2>1, <1>1, MaintenanceAssumption DEF Inv, TypesOK, EventsTypeOK, Days
    <3>2. QED
      BY <1>1, <3>1, EventsAssumption
  <2>3. CASE d < settled
    BY <2>1, <2>2, <2>3 DEF TotalsSoFar
  <2>4. CASE ~(d < settled)
    BY <1>1, <2>1, <2>4, DayFacts DEF TotalsSoFar
  <2>5. QED
    BY <2>3, <2>4
<1>2. Inv /\ TotalsOK => SettledTotals
  BY <1>1 DEF SettledTotals
<1>3. QED
  BY <1>2, Invariant, TotalsInvariant, PTL

-----------------------------------------------------------------------------
(* Adding up the totals of several days.  Sums are defined by recursion;   *)
(* what holds of them is shown by the smallest case in which it would not. *)
LEMMA Smallest ==
  ASSUME NEW S \in SUBSET Nat, S # {}
  PROVE  \E n \in S : \A m \in S : n <= m
<1> DEFINE Below == {0..n : n \in S}
<1>1. Below \subseteq FiniteSubsetsOf(Nat) /\ Below # {}
  <2>1. ASSUME NEW n \in S PROVE 0..n \in FiniteSubsetsOf(Nat)
    <3>1. IsFiniteSet(0..n)
      BY FS_Interval
    <3>2. 0..n \in SUBSET Nat
      OBVIOUS
    <3>3. QED
      BY <3>1, <3>2 DEF FiniteSubsetsOf
  <2>2. QED
    BY <2>1
<1>2. PICK B \in Below : \A C \in Below : <<C, B>> \notin StrictSubsetOrdering(Nat)
  <2> HIDE DEF Below
  <2>1. QED
    BY <1>1, FS_StrictSubsetOrderingWellFounded, WFMin, Zenon
<1>3. PICK n \in S : B = 0..n
  BY DEF Below
<1>4. ASSUME NEW m \in S, m < n
      PROVE  FALSE
  <2>1. 0..m \subseteq 0..n /\ 0..m # 0..n /\ 0..n \subseteq Nat /\ 0..m \subseteq Nat
    BY <1>4
  <2>2. <<0..m, 0..n>> \in StrictSubsetOrdering(Nat)
    BY <2>1 DEF StrictSubsetOrdering
  <2>3. QED
    BY <1>2, <1>3, <2>2
<1>5. QED
  BY <1>4

Pick(s) == CHOOSE d \in s : TRUE

(* The function sum gives the sum over s from the sum over s without Pick(s). *)
SumStep(sum, s) == IF s = {} THEN 0 ELSE Total(Pick(s)) + sum[s \ {Pick(s)}]

LEMMA Smaller ==
  ASSUME NEW s, IsFiniteSet(s), s # {}
  PROVE  /\ Pick(s) \in s /\ IsFiniteSet(s \ {Pick(s)})
         /\ Cardinality(s \ {Pick(s)}) = Cardinality(s) - 1
         /\ Cardinality(s) \in Nat /\ Cardinality(s) # 0
<1>1. Pick(s) \in s
  BY DEF Pick
<1> DEFINE d == Pick(s)
<1>2. d \in s
  BY <1>1
<1> HIDE DEF d
<1>3. /\ IsFiniteSet(s \ {d}) /\ Cardinality(s \ {d}) = Cardinality(s) - 1
      /\ Cardinality(s) \in Nat /\ Cardinality(s) # 0
  BY <1>2, FS_RemoveElement, FS_CardinalityType, FS_EmptySet
<1>4. QED
  BY <1>1, <1>3 DEF d

LEMMA SumExists ==
  ASSUME NEW S, IsFiniteSet(S)
  PROVE  \E sum : sum = [s \in SUBSET S |-> SumStep(sum, s)]
<1> DEFINE Upto(n) == {s \in SUBSET S : Cardinality(s) <= n}
           Defined(n) == \E sum : sum = [s \in Upto(n) |-> SumStep(sum, s)]
           Undefined == {n \in Nat : ~Defined(n)}
<1>1. \A s \in SUBSET S : IsFiniteSet(s) /\ Cardinality(s) \in Nat
  BY FS_Subset, FS_CardinalityType
<1>2. ASSUME NEW n \in Undefined, \A m \in Undefined : n <= m
      PROVE  FALSE
  <2>1. CASE n = 0
    <3>1. \A s \in Upto(n) : s = {}
      BY <1>1, <2>1, FS_EmptySet
    <3> DEFINE sum == [s \in Upto(n) |-> 0]
    <3>2. sum = [s \in Upto(n) |-> SumStep(sum, s)]
      BY <3>1 DEF SumStep
    <3>3. QED
      BY <3>2
  <2>2. CASE n # 0
    <3>1. n - 1 \in Nat /\ n - 1 \notin Undefined /\ n \in Nat
      <4>1. n \in Nat
        OBVIOUS
      <4> HIDE DEF Undefined
      <4>2. n - 1 \in Nat /\ ~(n <= n - 1)
        BY <2>2, <4>1
      <4>3. QED
        BY <1>2, <4>1, <4>2
    <3>2. PICK prev : prev = [s \in Upto(n - 1) |-> SumStep(prev, s)]
      BY <3>1
    <3> DEFINE sum == [s \in Upto(n) |-> SumStep(prev, s)]
    <3>3. \A s \in Upto(n - 1) : s \in Upto(n) /\ sum[s] = prev[s]
      <4>1. \A s \in Upto(n - 1) : s \in Upto(n)
        BY <1>1, <3>1
      <4>2. \A s \in Upto(n - 1) : prev[s] = SumStep(prev, s)
        BY <3>2
      <4>3. \A s \in Upto(n) : sum[s] = SumStep(prev, s)
        OBVIOUS
      <4>4. QED
        BY <4>1, <4>2, <4>3
    <3>4. ASSUME NEW s \in Upto(n)
          PROVE  SumStep(prev, s) = SumStep(sum, s)
      <4>1. CASE s = {}
        BY <4>1 DEF SumStep
      <4>2. CASE s # {}
        <5>1. s \ {Pick(s)} \in Upto(n - 1)
          BY <1>1, <3>1, <4>2, Smaller
        <5>2. QED
          BY <3>3, <4>2, <5>1 DEF SumStep
      <4>3. QED
        BY <4>1, <4>2
    <3>5. sum = [s \in Upto(n) |-> SumStep(sum, s)]
      BY <3>4
    <3>6. QED
      BY <3>5
  <2>3. QED
    BY <2>1, <2>2
<1>3. Undefined = {}
  <2> HIDE DEF Undefined
  <2>1. Undefined \in SUBSET Nat
    BY DEF Undefined
  <2>2. QED
    BY <1>2, <2>1, Smallest
<1>4. Cardinality(S) \in Nat /\ SUBSET S = Upto(Cardinality(S))
  BY FS_Subset, FS_CardinalityType
<1>5. Defined(Cardinality(S))
  BY <1>3, <1>4
<1>6. QED
  BY <1>4, <1>5

LEMMA SumIs ==
  ASSUME NEW S, IsFiniteSet(S)
  PROVE  \E sum : /\ sum = [s \in SUBSET S |-> SumStep(sum, s)]
                  /\ MapThenSumSet(Total, S) = sum[S]
<1> DEFINE sum == CHOOSE it : it = [s \in SUBSET S |-> SumStep(it, s)]
<1>1. sum = [s \in SUBSET S |-> SumStep(sum, s)]
  BY SumExists
<1>2. MapThenSumSet(Total, S) = sum[S]
  BY DEF MapThenSumSet, MapThenFoldSet, SumStep, Pick
<1>3. QED
  BY <1>1, <1>2

(* Over days whose totals are right, the sum of the totals is the number   *)
(* of events stored on them.                                               *)
LEMMA SumOfCounted ==
  ASSUME NEW S \in SUBSET Days, IsFiniteSet(S), EventsTypeOK, \A d \in S : Counted(d)
  PROVE  MapThenSumSet(Total, S) = Cardinality(UNION {StoredOn(d) : d \in S})
<1> DEFINE On(s) == UNION {StoredOn(d) : d \in s}
<1>1. PICK sum : /\ sum = [s \in SUBSET S |-> SumStep(sum, s)]
                 /\ MapThenSumSet(Total, S) = sum[S]
  BY SumIs
<1>2. \A s : IsFiniteSet(On(s)) /\ Cardinality(On(s)) \in Nat
  <2>1. TAKE s
  <2>2. On(s) \in SUBSET Events
    BY DEF StoredOn
  <2> HIDE DEF On
  <2>3. IsFiniteSet(On(s))
    BY <2>2, EventsAssumption, FS_Subset
  <2>4. QED
    BY <2>3, FS_CardinalityType
<1>3. \A s \in SUBSET S : IsFiniteSet(s) /\ Cardinality(s) \in Nat
  BY FS_Subset, FS_CardinalityType
<1> DEFINE Wrong == {s \in SUBSET S : sum[s] # Cardinality(On(s))}
           Sizes == {Cardinality(s) : s \in Wrong}
<1>4. ASSUME NEW s \in Wrong, \A u \in Wrong : Cardinality(s) <= Cardinality(u)
      PROVE  FALSE
  <2>1. s \in SUBSET S /\ sum[s] # Cardinality(On(s)) /\ sum[s] = SumStep(sum, s)
    BY <1>1
  <2>2. CASE s = {}
    BY <2>1, <2>2, FS_EmptySet DEF SumStep
  <2>3. CASE s # {}
    <3> DEFINE d == Pick(s)
               u == s \ {d}
    <3>1. d \in s /\ u \in SUBSET S /\ d \in S /\ d \notin u
          /\ ~(Cardinality(s) <= Cardinality(u)) /\ s = u \cup {d}
      <4>1. IsFiniteSet(s) /\ Cardinality(s) \in Nat
        BY <1>3, <2>1
      <4>2. d \in s /\ Cardinality(u) = Cardinality(s) - 1
        BY <2>3, <4>1, Smaller
      <4> HIDE DEF d
      <4>3. d \in S /\ d \notin u /\ u \in SUBSET S /\ s = u \cup {d}
        BY <2>1, <4>2
      <4> HIDE DEF u
      <4>4. QED
        BY <4>1, <4>2, <4>3
    <3>2. sum[u] = Cardinality(On(u))
      BY <1>4, <3>1
    <3>3. sum[s] = Total(d) + sum[u]
      BY <2>1, <2>3 DEF SumStep
    <3>4. Total(d) = Cardinality(StoredOn(d))
      BY <3>1 DEF Counted
    <3>5. StoredOn(d) = On({d})
      OBVIOUS
    <3> HIDE DEF d, u
    <3>6. On(s) = On({d}) \cup On(u)
      BY <3>1
    <3>7. On({d}) \cap On(u) = {}
      BY <3>1 DEF StoredOn
    <3> HIDE DEF On
    <3>8. Cardinality(On(s)) = Cardinality(On({d})) + Cardinality(On(u))
      <4>1. Cardinality(On({d}) \cup On(u)) = Cardinality(On({d})) + Cardinality(On(u))
                                                - Cardinality(On({d}) \cap On(u))
        BY <1>2, FS_Union
      <4>2. Cardinality(On({d}) \cap On(u)) = 0
        BY <3>7, FS_EmptySet
      <4>3. QED
        BY <1>2, <3>6, <4>1, <4>2
    <3>9. QED
      BY <2>1, <3>2, <3>3, <3>4, <3>5, <3>8
  <2>4. QED
    BY <2>2, <2>3
<1>5. Wrong = {}
  <2>1. Sizes \in SUBSET Nat
    BY <1>3
  <2>2. ASSUME Wrong # {}
        PROVE  \E s \in Wrong : \A u \in Wrong : Cardinality(s) <= Cardinality(u)
    <3>1. Sizes # {}
      BY <2>2
    <3>2. PICK n \in Sizes : \A m \in Sizes : n <= m
      <4> HIDE DEF Sizes
      <4>1. QED
        BY <2>1, <3>1, Smallest
    <3> HIDE DEF Wrong
    <3>3. QED
      BY <3>2
  <2> HIDE DEF Wrong
  <2>3. QED
    BY <1>4, <2>2
<1>6. QED
  BY <1>1, <1>5

(* The summary counts every stored event exactly once, across the cutoff,  *)
(* once a run has dealt with the expired days, unless a purge has stopped  *)
(* half way or the retention has been raised (getSummary).                 *)
THEOREM SummaryIsComplete == Spec => []SummaryCountsAll
<1>1. ASSUME Inv, SettledTotals, settled = today - retention, ~uneven
      PROVE  Summary(today - retention) = Cardinality(Stored)
  <2> DEFINE cutoff == today - retention
             old == {d \in Days : d < cutoff}
             new == {d \in Days : d >= cutoff}
             before == UNION {StoredOn(d) : d \in old}
             after == UNION {Raw(d) : d \in new}
  <2>1. EventsTypeOK /\ cutoff \in Int /\ \A d \in Days : d \in Int
    BY <1>1, MaintenanceAssumption, EventsAssumption DEF Inv, TypesOK, EventsTypeOK, Days
  <2>2. \A d \in Days : IF d < cutoff THEN Raw(d) = {} /\ Counted(d)
                        ELSE Purged(d) = {} /\ Raw(d) = StoredOn(d)
    BY <1>1 DEF SettledTotals
  <2>3. old \in SUBSET Days /\ new \in SUBSET Days /\ old \cup new = Days
        /\ old \cap new = {}
    BY <2>1
  <2>4. IsFiniteSet(old)
    <3>1. IsFiniteSet(Days)
      BY EventsAssumption, FS_Interval DEF Days
    <3>2. QED
      BY <2>3, <3>1, FS_Subset
  <2>5. \A d \in old : Counted(d)
    BY <2>2
  <2>6. MapThenSumSet(Total, old) = Cardinality(before)
    <3> HIDE DEF old
    <3>1. QED
      BY <2>1, <2>3, <2>4, <2>5, SumOfCounted
  <2>7. Stored = before \cup after /\ before \cap after = {}
    <3>1. \A d \in new : Raw(d) = StoredOn(d)
      BY <2>1, <2>2
    <3>2. after = UNION {StoredOn(d) : d \in new}
      BY <3>1
    <3>3. Stored = UNION {StoredOn(d) : d \in Days}
      BY <2>1 DEF Stored, StoredOn, EventsTypeOK, EventRow
    <3> HIDE DEF old, new
    <3>4. QED
      BY <2>3, <3>2, <3>3 DEF StoredOn
  <2>8. before \in SUBSET Events /\ after \in SUBSET Events
    BY DEF StoredOn, Raw
  <2>9. Summary(cutoff) = Cardinality(after) + MapThenSumSet(Total, old)
    BY DEF Summary
  <2> HIDE DEF before, after, old, new
  <2>10. IsFiniteSet(before) /\ IsFiniteSet(after)
    BY <2>8, EventsAssumption, FS_Subset
  <2>11. Cardinality(before \cup after) = Cardinality(before) + Cardinality(after)
    <3>1. Cardinality(before \cup after) =
            Cardinality(before) + Cardinality(after) - Cardinality(before \cap after)
      BY <2>10, FS_Union
    <3>2. Cardinality(before \cap after) = 0
      BY <2>7, FS_EmptySet
    <3>3. Cardinality(before) \in Nat /\ Cardinality(after) \in Nat
      BY <2>10, FS_CardinalityType
    <3>4. QED
      BY <3>1, <3>2, <3>3
  <2>12. Cardinality(before) \in Nat /\ Cardinality(after) \in Nat
    BY <2>10, FS_CardinalityType
  <2>13. QED
    BY <2>6, <2>7, <2>9, <2>11, <2>12
<1>2. Inv /\ SettledTotals => SummaryCountsAll
  BY <1>1 DEF SummaryCountsAll
<1>3. QED
  BY <1>2, Invariant, TotalsSettle, PTL
=============================================================================
