------------------------ MODULE AnalyticsMaintenance ------------------------
(***************************************************************************)
(* The hourly maintenance of the Analytics Worker next to the ingestion it *)
(* shares the raw events with: roll up the last days, roll up the expired  *)
(* days, delete expired raw events in bounded chunks; and the summary the  *)
(* dashboard computes from raw events and daily totals.                    *)
(*                                                                         *)
(* One Site and one total per day: the five daily tables are replaced by   *)
(* one batch and differ only in how they group the same rows.              *)
(***************************************************************************)
EXTENDS AnalyticsEvents, FiniteSetsExt

CONSTANTS
  Retentions,   \* values owners give raw_retention_days
  RollupDays,   \* ROLLUP_DAYS
  ExpiredDays,  \* EXPIRED_DAYS_PER_RUN
  Chunk,        \* PURGE_CHUNK
  MaxChunks     \* PURGE_MAX_CHUNKS

ASSUME MaintenanceAssumption ==
  /\ Retentions \subseteq Nat \ {0}
  /\ {RollupDays, ExpiredDays, Chunk, MaxChunks} \subseteq Nat \ {0}

VARIABLES
  retention,  \* raw_retention_days of the Site
  daily,      \* table analytics_daily_site: a total per day, None for no row
  job,        \* the maintenance run in flight
  rolled,     \* history: the events some roll-up has counted
  settled,    \* history: the cutoff of the last run that dealt with every
              \* expired day, None before that
  uneven      \* history: a purge stopped half way, or the retention was raised

maintenance == <<retention, daily, job, rolled, settled, uneven>>
vars == <<today, events, names, legacy, collects, maintenance>>

Job ==
  [pc : {"idle", "recent", "list", "expired", "purge"},
   today : Days, cutoff : Int, left : SUBSET Days, chunks : 0 .. MaxChunks - 1]

NoJob == [pc |-> "idle", today |-> 0, cutoff |-> 0, left |-> {}, chunks |-> 0]

TypeOK ==
  /\ EventsTypeOK
  /\ retention \in Retentions
  /\ daily \in [Days -> Nat \cup {None}]
  /\ job \in Job
  /\ rolled \subseteq Events
  /\ settled \in Int \cup {None}
  /\ uneven \in BOOLEAN

Init ==
  /\ EventsInit
  /\ retention \in Retentions
  /\ daily = [d \in Days |-> None]
  /\ job = NoJob
  /\ rolled = {}
  /\ settled = None
  /\ uneven = FALSE

ingestion == <<today, events, names, legacy, collects>>

Total(d) == IF daily[d] = None THEN 0 ELSE daily[d]

(* The totals after a roll-up of days: GROUP BY yields no group, and so no *)
(* update, for a day without raw rows.                                     *)
RolledUp(days) ==
  [d \in Days |-> IF d \in days /\ Raw(d) # {}
                  THEN Cardinality(Raw(d)) ELSE daily[d]]

RollUp(days) ==
  /\ daily' = RolledUp(days)
  /\ rolled' = rolled \cup UNION {Raw(d) : d \in days}

Expired(cutoff) == {d \in Days : d < cutoff /\ Raw(d) # {}}

-----------------------------------------------------------------------------
(* runMaintenance; the crons are an hour apart and a run takes seconds, so *)
(* there is one at a time, but a day may begin and an owner may change the *)
(* retention while it runs.                                                *)

JobStart ==
  /\ job.pc = "idle"
  /\ job' = [NoJob EXCEPT !.pc = "recent", !.today = today,
                          !.cutoff = today - retention]
  /\ UNCHANGED <<ingestion, retention, daily, rolled, settled, uneven>>

RollUpRecent ==
  /\ job.pc = "recent"
  /\ RollUp({d \in Days : d \in job.today - RollupDays + 1 .. job.today})
  /\ job' = [job EXCEPT !.pc = "list"]
  /\ UNCHANGED <<ingestion, retention, settled, uneven>>

(* Mutant of ListExpired: the first days of a backlog are taken and the    *)
(* run goes on to the purge.                                               *)
ListSomeExpired ==
  /\ job.pc = "list"
  /\ \E some \in SUBSET Expired(job.cutoff) :
       /\ Cardinality(some) <= ExpiredDays
       /\ job' = [job EXCEPT !.pc = "expired", !.left = some]
  /\ UNCHANGED <<ingestion, retention, daily, rolled, settled, uneven>>

(* With too many expired days the run leaves the Site as it is. *)
ListExpired ==
  /\ job.pc = "list"
  /\ job' = IF Cardinality(Expired(job.cutoff)) > ExpiredDays THEN NoJob
            ELSE [job EXCEPT !.pc = "expired", !.left = Expired(job.cutoff)]
  /\ UNCHANGED <<ingestion, retention, daily, rolled, settled, uneven>>

RollUpExpired ==
  /\ job.pc = "expired" /\ job.left # {}
  /\ LET d == CHOOSE first \in job.left : \A e \in job.left : first <= e IN
     /\ RollUp({d})
     /\ job' = [job EXCEPT !.left = @ \ {d}]
  /\ UNCHANGED <<ingestion, retention, settled, uneven>>

PurgeStart ==
  /\ job.pc = "expired" /\ job.left = {}
  /\ job' = [job EXCEPT !.pc = "purge"]
  /\ UNCHANGED <<ingestion, retention, daily, rolled, settled, uneven>>

(* The raw rows before the cutoff, in the order the database likes. *)
Purgeable == UNION {Raw(d) : d \in Expired(job.cutoff)}

(* One DELETE; a short chunk is the last one, and so is chunk MaxChunks.   *)
Delete(rows, short, lastChunk) ==
  /\ Cardinality(rows) = Chunk \/ (short /\ rows = Purgeable)
  /\ events' = [e \in Events |-> IF e \in rows
                  THEN [events[e] EXCEPT !.state = "purged"] ELSE events[e]]
  /\ job' = IF short \/ lastChunk THEN NoJob ELSE [job EXCEPT !.chunks = @ + 1]
  /\ settled' = IF rows = Purgeable THEN job.cutoff ELSE settled
  /\ uneven' = (uneven \/ (lastChunk /\ rows # Purgeable))

PurgeChunk ==
  /\ job.pc = "purge"
  /\ \E rows \in SUBSET Purgeable :
       Delete(rows, Cardinality(rows) < Chunk, job.chunks + 1 = MaxChunks)
  /\ UNCHANGED <<today, names, legacy, collects, retention, daily, rolled>>

(* A statement fails or the isolate dies. *)
JobStops ==
  /\ job.pc # "idle"
  /\ uneven' = (uneven \/ (job.pc = "purge" /\ job.chunks > 0))
  /\ job' = NoJob
  /\ UNCHANGED <<ingestion, retention, daily, rolled, settled>>

(* PATCH /api/sites/:site by an owner. *)
SetRetention(n) ==
  /\ retention' = n
  /\ uneven' = (uneven \/ n > retention)
  /\ UNCHANGED <<ingestion, daily, job, rolled, settled>>

Ingest == EventsNext /\ UNCHANGED maintenance

DayPasses == NextDay /\ UNCHANGED maintenance

JobNext ==
  \/ JobStart
  \/ RollUpRecent
  \/ ListExpired
  \/ RollUpExpired
  \/ PurgeStart
  \/ PurgeChunk

(* What happens while no maintenance run fails.                            *)
Healthy ==
  \/ Ingest
  \/ DayPasses
  \/ JobNext
  \/ \E n \in Retentions : SetRetention(n)

Next == Healthy \/ JobStops

Spec == Init /\ [][Next]_vars

(* The cron goes on firing, and no run fails.                              *)
FairSpec == Init /\ [][Healthy]_vars /\ WF_vars(JobNext)

-----------------------------------------------------------------------------
(* GET /summary over all days: raw events from the cutoff on, daily totals *)
(* before it.                                                              *)
(* Mutant of Summary: the totals are added up to and including the cutoff. *)
SummaryTwice(cutoff) ==
  Cardinality(UNION {Raw(d) : d \in {x \in Days : x >= cutoff}})
    + MapThenSumSet(Total, {d \in Days : d <= cutoff})

Summary(cutoff) ==
  Cardinality(UNION {Raw(d) : d \in {x \in Days : x >= cutoff}})
    + MapThenSumSet(Total, {d \in Days : d < cutoff})

Stored == {e \in Events : events[e].state # "absent"}
Purged(d) == {e \in Events : events[e].state = "purged" /\ events[e].day = d}

(* "nothing is deleted before it is aggregated": a raw event is purged only*)
(* after a roll-up of its day has counted it, whatever backlog of days,    *)
(* interrupted runs and changes of the retention came before.              *)
PurgedWasRolledUp ==
  \A e \in Events : events[e].state = "purged" => e \in rolled

(* The summary counts every stored event exactly once, across the cutoff,  *)
(* once a run has dealt with the expired days, unless a purge has stopped  *)
(* half way or the retention has been raised before.                       *)
SummaryCountsAll ==
  settled = today - retention /\ ~uneven
    => Summary(today - retention) = Cardinality(Stored)

(* "so long-range trends survive while raw rows age out": the total of a   *)
(* day never falls below the number of its events that are gone.           *)
TrendsSurvive ==
  \A d \in Days : Total(d) >= Cardinality(Purged(d))

(* "purge is deferred until all of them are rolled up": raw rows past the  *)
(* retention do not stay for ever.                                         *)
RawRowsExpire ==
  \A e \in Events :
    []<>~(events[e].state = "raw" /\ events[e].day < today - retention)
=============================================================================
