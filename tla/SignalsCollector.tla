-------------------------- MODULE SignalsCollector --------------------------
(***************************************************************************)
(* The Bitcoin Signals collection jobs: scheduled and manual runs of the   *)
(* hourly and the daily job, the lease each job takes, the interval and    *)
(* rate checks, the chunked insertion of observations, and the alerts a    *)
(* run evaluates and mails at its end.                                     *)
(*                                                                         *)
(* Every run has a run id of its own, so the set of ids is also the set of *)
(* runs.  A run reads the clock once, before it asks for the lease, and    *)
(* works with that time throughout.  Any statement may fail, which the     *)
(* code catches, or the isolate may die, which it cannot.                  *)
(***************************************************************************)
EXTENDS Integers, FiniteSets

CONSTANTS
  Runs,         \* run ids, each used by one run
  Jobs,         \* hourly and daily
  Sources,      \* providers a job collects from
  Keys,         \* (source, series, venue, observed_at) of observations
  Alerts,       \* (rule, dedupe key) of alerts
  TTL,          \* LOCK_TTL_MINUTES
  Interval,     \* HOURLY_MIN_INTERVAL_MINUTES, DAILY_MIN_INTERVAL_HOURS
  Window,       \* the hour manual runs are counted over
  ManualLimit,  \* MANUAL_RUNS_PER_HOUR
  MaxTime,      \* bound on the clock
  None

ASSUME ConstantsAssumption ==
  /\ {TTL, Interval, Window, ManualLimit, MaxTime} \subseteq Nat
  /\ None \notin Runs \cup Alerts
  /\ Jobs # {} /\ IsFiniteSet(Keys)

VARIABLES
  now,      \* the clock
  lock,     \* table bs_collection_locks
  runs,     \* table bs_collection_runs
  obs,      \* table bs_observations: the run that inserted a key
  alerts,   \* table bs_alerts: the run that created an alert
  mail,     \* per alert: mails accepted, and its row in bs_alert_deliveries
  proc      \* the runs in flight

vars == <<now, lock, runs, obs, alerts, mail, proc>>
tables == <<lock, runs, obs, alerts, mail>>

Triggers == {"cron", "manual", "review"}

Lock == [run : Runs \cup {None}, expires : Nat]

RunRow ==
  [status : {"none", "running", "ok", "partial", "failed"},
   trigger : Triggers, job : Jobs, started : Nat, added : Nat]

(* left and rows are the sources and validated observations still to be    *)
(* processed; ok and bad say whether some source was ok, and some was not; *)
(* here counts the rows inserted for the source at hand, added those of    *)
(* the sources that are done;                                              *)
(* created are the alerts of this run that still have to be delivered,     *)
(* alert the one being mailed and sent what the provider has answered;     *)
(* late (history) says that the run has outlived its lease.                *)
Proc ==
  [pc : {"new", "acquire", "sources", "interval", "reserve", "collect",
         "insert", "abort", "alerts", "deliver", "mailed", "release", "end"},
   job : Jobs, trigger : Triggers, now : Nat,
   left : SUBSET Sources, rows : SUBSET Keys,
   ok : BOOLEAN, bad : BOOLEAN, here : Nat, added : Nat,
   created : SUBSET Alerts, alert : Alerts \cup {None}, sent : BOOLEAN,
   late : BOOLEAN]

TypeOK ==
  /\ now \in Nat
  /\ lock \in [Jobs -> Lock]
  /\ runs \in [Runs -> RunRow]
  /\ obs \in [Keys -> Runs \cup {None}]
  /\ alerts \in [Alerts -> Runs \cup {None}]
  /\ mail \in [Alerts -> [accepted : Nat, row : {"none", "sent", "failed"}]]
  /\ proc \in [Runs -> Proc]

NoLock == [run |-> None, expires |-> 0]

AnyJob == CHOOSE j \in Jobs : TRUE

New ==
  [pc |-> "new", job |-> AnyJob, trigger |-> "cron", now |-> 0,
   left |-> {}, rows |-> {}, ok |-> FALSE, bad |-> FALSE, here |-> 0, added |-> 0,
   created |-> {}, alert |-> None, sent |-> FALSE, late |-> FALSE]

Init ==
  /\ now = 0
  /\ lock = [j \in Jobs |-> NoLock]
  /\ runs = [x \in Runs |-> [status |-> "none", trigger |-> "cron",
                             job |-> AnyJob, started |-> 0, added |-> 0]]
  /\ obs = [k \in Keys |-> None]
  /\ alerts = [a \in Alerts |-> None]
  /\ mail = [a \in Alerts |-> [accepted |-> 0, row |-> "none"]]
  /\ proc = [x \in Runs |-> New]

Goto(x, pc) == proc' = [proc EXCEPT ![x].pc = pc]

(* The invocation is over: its locals are gone. *)
End(x) ==
  proc' = [proc EXCEPT ![x] = [New EXCEPT !.pc = "end", !.late = proc[x].late]]

Expired(x) == now >= proc[x].now + TTL

InTry == {"sources", "interval", "reserve", "collect", "insert", "abort",
          "alerts", "deliver", "mailed", "release"}

Tick ==
  /\ now < MaxTime
  /\ now' = now + 1
  /\ proc' = [x \in Runs |-> [proc[x] EXCEPT !.late =
       @ \/ (proc[x].pc \in InTry /\ now' >= proc[x].now + TTL)]]
  /\ UNCHANGED tables

-----------------------------------------------------------------------------
(* The lease, the checks before a run, and the reservation of its row.     *)

Begin(x, job, trigger) ==
  /\ proc[x].pc = "new"
  /\ proc' = [proc EXCEPT ![x].pc = "acquire", ![x].job = job,
                          ![x].trigger = trigger, ![x].now = now]
  /\ UNCHANGED <<now, tables>>

AcquireLease(x) ==
  LET j == proc[x].job IN
  /\ proc[x].pc = "acquire"
  /\ lock[j].run = None \/ lock[j].expires <= proc[x].now
  /\ lock' = [lock EXCEPT ![j] = [run |-> x, expires |-> proc[x].now + TTL]]
  /\ proc' = [proc EXCEPT ![x].pc = "sources", ![x].late = Expired(x)]
  /\ UNCHANGED <<now, runs, obs, alerts, mail>>

LeaseHeld(x) ==
  LET j == proc[x].job IN
  /\ proc[x].pc = "acquire"
  /\ lock[j].run # None /\ lock[j].expires > proc[x].now
  /\ End(x)
  /\ UNCHANGED <<now, tables>>

(* The sources an operator has left active decide what there is to do; with*)
(* none the run only evaluates the alerts.                                 *)
ReadSources(x, active) ==
  /\ proc[x].pc = "sources"
  /\ proc' = [proc EXCEPT ![x].left = active,
       ![x].pc = IF active = {} THEN "alerts"
                 ELSE IF proc[x].trigger = "cron" THEN "interval" ELSE "reserve"]
  /\ UNCHANGED <<now, tables>>

(* A manual run is recorded under the job 'manual', so it does not count.  *)
Recent(x, y) ==
  /\ runs[y].status \in {"ok", "partial"}
  /\ runs[y].trigger = "cron" /\ runs[y].job = proc[x].job
  /\ proc[x].now - runs[y].started < Interval

RecentRun(x) ==
  /\ proc[x].pc = "interval"
  /\ Goto(x, IF \E y \in Runs : Recent(x, y) THEN "release" ELSE "reserve")
  /\ UNCHANGED <<now, tables>>

(* Mutant of ManualRuns: the manual runs of the other job are not counted. *)
ManualRunsOfJob(x) ==
  {y \in Runs : /\ runs[y].status # "none" /\ runs[y].trigger = "manual"
                /\ runs[y].job = proc[x].job
                /\ runs[y].started >= proc[x].now - Window}

ManualRuns(x) ==
  {y \in Runs : /\ runs[y].status # "none" /\ runs[y].trigger = "manual"
                /\ runs[y].started >= proc[x].now - Window}

(* One statement counts and inserts. *)
Reserve(x) ==
  /\ proc[x].pc = "reserve"
  /\ proc[x].trigger = "manual" => Cardinality(ManualRuns(x)) < ManualLimit
  /\ runs' = [runs EXCEPT ![x] =
       [status |-> "running", trigger |-> proc[x].trigger,
        job |-> proc[x].job, started |-> proc[x].now, added |-> 0]]
  /\ Goto(x, "collect")
  /\ UNCHANGED <<now, lock, obs, alerts, mail>>

RateLimited(x) ==
  /\ proc[x].pc = "reserve"
  /\ proc[x].trigger = "manual" /\ Cardinality(ManualRuns(x)) >= ManualLimit
  /\ Goto(x, "release")
  /\ UNCHANGED <<now, tables>>

-----------------------------------------------------------------------------
(* The sources: all have been fetched, then each is processed in turn.     *)

SourceFailed(x, s) ==
  /\ proc[x].pc = "collect" /\ s \in proc[x].left
  /\ proc' = [proc EXCEPT ![x].left = @ \ {s}, ![x].bad = TRUE]
  /\ UNCHANGED <<now, tables>>

(* The source's validated observations; some may have been rejected. *)
SourceFetched(x, s, rows, rejected) ==
  /\ proc[x].pc = "collect" /\ s \in proc[x].left
  /\ proc' = [proc EXCEPT ![x].pc = "insert", ![x].left = @ \ {s},
       ![x].rows = rows,
       ![x].ok = @ \/ (~rejected /\ rows # {}),
       ![x].bad = @ \/ rejected \/ rows = {}]
  /\ UNCHANGED <<now, tables>>

(* Mutant of Inserted: every statement of the batch is counted. *)
InsertedAll(chunk) == chunk

(* The rows of a batch that change something: DO NOTHING keeps the others. *)
Inserted(chunk) == {k \in chunk : obs[k] = None}

(* One batch of INSERT_CHUNK rows.                                         *)
InsertChunk(x, chunk) ==
  /\ proc[x].pc = "insert" /\ chunk # {} /\ chunk \subseteq proc[x].rows
  /\ obs' = [k \in Keys |->
       IF k \in chunk /\ obs[k] = None THEN x ELSE obs[k]]
  /\ proc' = [proc EXCEPT ![x].rows = @ \ chunk,
                          ![x].here = @ + Cardinality(Inserted(chunk))]
  /\ UNCHANGED <<now, lock, runs, alerts, mail>>

SourceDone(x) ==
  /\ proc[x].pc = "insert" /\ proc[x].rows = {}
  /\ proc' = [proc EXCEPT ![x].pc = "collect", ![x].here = 0,
                          ![x].added = @ + proc[x].here]
  /\ UNCHANGED <<now, tables>>

Finished(x) ==
  IF proc[x].ok THEN IF proc[x].bad THEN "partial" ELSE "ok" ELSE "failed"

FinishRun(x) ==
  /\ proc[x].pc = "collect" /\ proc[x].left = {}
  /\ runs' = [runs EXCEPT ![x].status = Finished(x),
                          ![x].added = proc[x].added]
  /\ Goto(x, "alerts")
  /\ UNCHANGED <<now, lock, obs, alerts, mail>>
-----------------------------------------------------------------------------
(* evaluateAlerts: which conditions hold is up to the data; an alert whose *)
(* row is already there is not created again, and only created alerts are  *)
(* mailed, after all of them have been recorded.                           *)

(* Mutant of RecordAlert: the conflict is ignored. *)
RecordAlertAgain(x, a) ==
  /\ proc[x].pc = "alerts" /\ proc[x].trigger # "review"
  /\ alerts' = [alerts EXCEPT ![a] = x]
  /\ proc' = [proc EXCEPT ![x].created = @ \cup {a}]
  /\ UNCHANGED <<now, lock, runs, obs, mail>>

RecordAlert(x, a) ==
  /\ proc[x].pc = "alerts" /\ proc[x].trigger # "review"
  /\ alerts[a] = None
  /\ alerts' = [alerts EXCEPT ![a] = x]
  /\ proc' = [proc EXCEPT ![x].created = @ \cup {a}]
  /\ UNCHANGED <<now, lock, runs, obs, mail>>

(* An administrator verifies an important entry of the evidence: the only  *)
(* alert outside the jobs.  It is delivered like theirs; there is no lease *)
(* to release at its end.                                                  *)
VerifyDevelopment(x, a) ==
  /\ proc[x].pc = "new"
  /\ alerts[a] = None
  /\ alerts' = [alerts EXCEPT ![a] = x]
  /\ proc' = [proc EXCEPT ![x].pc = "alerts", ![x].trigger = "review",
                          ![x].now = now, ![x].created = {a}]
  /\ UNCHANGED <<now, lock, runs, obs, mail>>

(* Without the operator's opt-in nothing is mailed. *)
StartDelivery(x, enabled) ==
  /\ proc[x].pc = "alerts"
  /\ proc' = [proc EXCEPT ![x].pc = "deliver",
                          ![x].created = IF enabled THEN @ ELSE {}]
  /\ UNCHANGED <<now, tables>>

(* A failure reported by the provider may follow an accepted mail. *)
Deliver(x, a, accepted, reported) ==
  /\ proc[x].pc = "deliver" /\ a \in proc[x].created
  /\ reported => accepted
  /\ mail' = [mail EXCEPT ![a].accepted = IF accepted THEN @ + 1 ELSE @]
  /\ proc' = [proc EXCEPT ![x].pc = "mailed", ![x].created = @ \ {a},
                          ![x].alert = a, ![x].sent = reported]
  /\ UNCHANGED <<now, lock, runs, obs, alerts>>

(* A failed insertion of the 'sent' row is caught like a failed mail.      *)
RecordDelivery(x, status) ==
  /\ proc[x].pc = "mailed"
  /\ status = "sent" => proc[x].sent
  /\ mail' = [mail EXCEPT ![proc[x].alert].row = status]
  /\ Goto(x, "deliver")
  /\ UNCHANGED <<now, lock, runs, obs, alerts>>

Delivered(x) ==
  /\ proc[x].pc = "deliver" /\ proc[x].created = {}
  /\ Goto(x, "release")
  /\ UNCHANGED <<now, tables>>

-----------------------------------------------------------------------------
(* The catch and finally blocks, and the death of the isolate.             *)

(* A statement fails: with a row reserved the run is recorded as failed    *)
(* first; what evaluateAlerts throws is swallowed.                         *)
Fail(x) ==
  /\ proc[x].pc \in InTry \ {"release"}
  /\ Goto(x, IF proc[x].pc \in {"collect", "insert"} THEN "abort" ELSE "release")
  /\ UNCHANGED <<now, tables>>

Abort(x) ==
  /\ proc[x].pc = "abort"
  /\ runs' = [runs EXCEPT ![x].status = "failed", ![x].added = proc[x].added]
  /\ Goto(x, "release")
  /\ UNCHANGED <<now, lock, obs, alerts, mail>>

(* Mutant of ReleaseLease: whoever holds the lease loses it. *)
ReleaseLeaseOfJob(x) ==
  /\ proc[x].pc = "release"
  /\ lock' = [lock EXCEPT ![proc[x].job] = NoLock]
  /\ End(x)
  /\ UNCHANGED <<now, runs, obs, alerts, mail>>

ReleaseLease(x) ==
  LET j == proc[x].job IN
  /\ proc[x].pc = "release"
  /\ lock' = [lock EXCEPT ![j] = IF @.run = x THEN NoLock ELSE @]
  /\ End(x)
  /\ UNCHANGED <<now, runs, obs, alerts, mail>>

Die(x) ==
  /\ proc[x].pc \notin {"new", "end"}
  /\ End(x)
  /\ UNCHANGED <<now, tables>>

-----------------------------------------------------------------------------
StartNext(x) ==
  \/ \E job \in Jobs, trigger \in {"cron", "manual"} : Begin(x, job, trigger)
  \/ AcquireLease(x)
  \/ LeaseHeld(x)
  \/ \E active \in SUBSET Sources : ReadSources(x, active)
  \/ RecentRun(x)
  \/ Reserve(x)
  \/ RateLimited(x)

CollectNext(x) ==
  \/ \E s \in Sources : SourceFailed(x, s)
  \/ \E s \in Sources, rows \in SUBSET Keys, rejected \in BOOLEAN :
       SourceFetched(x, s, rows, rejected)
  \/ \E chunk \in SUBSET Keys : InsertChunk(x, chunk)
  \/ SourceDone(x)
  \/ FinishRun(x)

AlertNext(x) ==
  \/ \E a \in Alerts : RecordAlert(x, a) \/ VerifyDevelopment(x, a)
  \/ \E enabled \in BOOLEAN : StartDelivery(x, enabled)
  \/ \E a \in Alerts, accepted, reported \in BOOLEAN :
       Deliver(x, a, accepted, reported)
  \/ \E status \in {"sent", "failed"} : RecordDelivery(x, status)
  \/ Delivered(x)

EndNext(x) == Fail(x) \/ Abort(x) \/ ReleaseLease(x) \/ Die(x)

Next ==
  \/ Tick
  \/ \E x \in Runs : StartNext(x) \/ CollectNext(x) \/ AlertNext(x) \/ EndNext(x)

Spec == Init /\ [][Next]_vars

-----------------------------------------------------------------------------
(* A run that has taken the lease keeps it to its end, whoever else fails, *)
(* dies or finishes late, unless it outlives it: so two runs of one job    *)
(* overlap only when one has outlived its lease, and a run that finishes   *)
(* late does not take the lease away from its successor.                   *)
LeaseExcludes ==
  \A x \in Runs :
    /\ proc[x].pc \in InTry /\ proc[x].trigger # "review" /\ ~proc[x].late
    => lock[proc[x].job] = [run |-> x, expires |-> proc[x].now + TTL]

Working(j) ==
  {x \in Runs : proc[x].pc \in InTry /\ proc[x].trigger # "review" /\ proc[x].job = j}

Lease == INSTANCE Leases WITH
  Resources <- Jobs,
  Users <- Runs,
  valid <- {j \in Jobs : lock[j].run # None /\ lock[j].expires > now},
  work <- [j \in Jobs |-> Working(j)],
  late <- [j \in Jobs |-> {x \in Working(j) : proc[x].late}]

(* The rows of bs_collection_locks are the leases: a job's lease changes   *)
(* hands only when it is free or over, and a run that dies or ends late    *)
(* changes nobody else's (acquireLease, releaseLease).                     *)
ImplementsLeases == Lease!LeaseSpec

(* No hour ever sees more manual runs than the limit, both jobs together,  *)
(* however the requests race and however late one gets to its reservation. *)
ManualBudget ==
  \A t \in 0 .. MaxTime :
    Cardinality({x \in Runs : /\ runs[x].status # "none"
                              /\ runs[x].trigger = "manual"
                              /\ runs[x].started \in t .. t + Window})
      <= ManualLimit

(* What a finished run reports as added is what it has put into the table, *)
(* although other runs may insert the same observations between its        *)
(* batches; a run that was aborted may have added more than it reports.    *)
AddedIsStored ==
  \A x \in Runs :
    LET stored == Cardinality({k \in Keys : obs[k] = x}) IN
    /\ runs[x].status \in {"ok", "partial"} => runs[x].added = stored
    /\ runs[x].status = "failed" => runs[x].added <= stored

(* "A duplicate alert is never re-delivered": no alert is mailed twice,    *)
(* and one recorded as sent was mailed.                                    *)
MailedOnce ==
  \A a \in Alerts :
    /\ mail[a].accepted <= 1
    /\ mail[a].row = "sent" => mail[a].accepted = 1
=============================================================================
