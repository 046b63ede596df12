------------------------------- MODULE Release -------------------------------
(***************************************************************************)
(* The release pipeline: a workflow run for a commit of main gates and     *)
(* applies the pending migrations of three databases, publishes the        *)
(* primary Worker, verifies it, publishes the Analytics Worker, verifies   *)
(* it, and summarises what happened; a daily check compares the revisions  *)
(* the two Workers report.  Any step may fail, also after its effect; an   *)
(* upload takes time to be served; old runs can be run again; operators    *)
(* apply migrations by hand.                                               *)
(***************************************************************************)
EXTENDS Naturals, Sequences

CONSTANTS
  Tip,      \* bound: commits of main, 1..Tip
  Files,     \* migration files
  DbOf,      \* the database of a file, a place in DATABASES
  Content,   \* what a commit's files hold: sequences of statement forms
  Approvals, \* for each commit, its approvals as <<file, content>>
  Targets,   \* commits whose configuration names the production target
  Healthy    \* commits whose Workers answer the production checks

ASSUME TipIsNumber == Tip \in Nat \ {0}
Commits == 1..Tip
Databases == 1..3
ASSUME FilesHaveDatabases == DbOf \in [Files -> Databases]
ASSUME CommitsHoldFiles == \A c \in Commits : DOMAIN Content[c] \subseteq Files
ASSUME CommitsKeepFiles ==
  \A c, d \in Commits : c <= d => DOMAIN Content[c] \subseteq DOMAIN Content[d]

Workers == {"primary", "analytics"}
Stages ==
  <<"check", "apply", "primary", "verifyPrimary", "analytics", "verifyAnalytics">>

VARIABLES
  main,    \* the newest commit
  pending, \* the commit of the run that waits for the release group, or 0
  run,     \* the run in progress
  ledger,  \* applied migrations
  worker,  \* what is published and what is served
  drift,   \* the drift check
  applied, \* history: <<file, content>> the pipeline applied
  seen     \* history: revisions both Workers served since the check began

vars == <<main, pending, run, ledger, worker, drift, applied, seen>>

-----------------------------------------------------------------------------
(* The gate.  A statement is one of the forms the patterns tell apart.     *)
Forbidden == {"drop", "rename", "delete", "update", "replace", "pragma"}
Additive == {"table", "index", "view", "ignore", "column"}

ClassifyStatement(s) ==
  CASE s \in Forbidden -> "forbidden"
    [] s \in Additive  -> "additive-safe"
    [] OTHER           -> "requires-approval"

ClassifyMigration(sql) ==
  LET verdicts == {ClassifyStatement(sql[k]) : k \in DOMAIN sql}
  IN CASE "forbidden" \in verdicts       -> "forbidden"
       [] verdicts = {"additive-safe"}   -> "additive-safe"
       [] OTHER                          -> "requires-approval"

(* The list of wrangler: files of the checkout the ledger does not name.   *)
PendingOf(c, db) == {f \in DOMAIN Content[c] \ ledger : DbOf[f] = db}

(* Mutant: an approval counts for the file, whatever it holds.             *)
BlockedByName(c, db) ==
  {f \in PendingOf(c, db) :
     ClassifyMigration(Content[c][f]) # "additive-safe"
     /\ \A a \in Approvals[c] : a[1] # f}

(* evaluatePending: an approval counts for the exact content only.         *)
Blocked(c, db) ==
  {f \in PendingOf(c, db) :
     /\ ClassifyMigration(Content[c][f]) # "additive-safe"
     /\ <<f, Content[c][f]>> \notin Approvals[c]}

-----------------------------------------------------------------------------
Idle ==
  [pc |-> "idle", rev |-> 0, db |-> 1, at |-> [ledger |-> {}, worker |-> <<>>],
   outcome |-> [k \in DOMAIN Stages |-> "skipped"]]
Quiet == [pc |-> "idle", primary |-> 0, verdict |-> "none"]

TypeOK ==
  /\ main \in Commits /\ pending \in 0..Tip
  /\ run.pc \in {"idle", "target", "summary", "check", "apply", "migrate",
                 "confirm", "primary", "verifyPrimary", "analytics", "verifyAnalytics"}
  /\ run.rev \in 0..Tip /\ run.db \in Databases
  /\ run.outcome \in [DOMAIN Stages -> {"skipped", "success", "failure"}]
  /\ ledger \subseteq Files
  /\ worker \in [Workers -> [published : Commits, served : Commits]]
  /\ drift.pc \in {"idle", "analytics", "done"}
  /\ applied \subseteq {<<f, Content[c][f]>> : f \in ledger, c \in
                           {d \in Commits : ledger \subseteq DOMAIN Content[d]}}
  /\ seen \subseteq Commits

Init ==
  /\ main = 1 /\ pending = 0
  /\ run = Idle
  /\ ledger = DOMAIN Content[1]
  /\ worker = [w \in Workers |-> [published |-> 1, served |-> 1]]
  /\ drift = Quiet
  /\ applied = {}
  /\ seen = {}

(* A push to main; a run that waits for the group is replaced by it.       *)
Push ==
  /\ main < Tip
  /\ main' = main + 1
  /\ pending' = main'
  /\ UNCHANGED <<run, ledger, worker, drift, applied, seen>>

(* Someone dispatches the workflow, or runs the run of a commit again.     *)
RunAgain ==
  /\ pending = 0
  /\ \E c \in 1..main : pending' = c
  /\ UNCHANGED <<main, run, ledger, worker, drift, applied, seen>>

(* One release at a time; its validation job may fail.  Uploads are served *)
(* late only briefly: the validation of the next run outlasts that.        *)
StartRun ==
  /\ run.pc = "idle" /\ pending # 0
  /\ \A w \in Workers : worker[w].served = worker[w].published
  /\ pending' = 0
  /\ run' \in {Idle, [Idle EXCEPT !.pc = "target", !.rev = pending,
                         !.at = [ledger |-> ledger, worker |-> worker]]}
  /\ UNCHANGED <<main, ledger, worker, drift, applied, seen>>

(* The target checks are not a stage of the summary.                       *)
VerifyTarget ==
  /\ run.pc = "target"
  /\ run' = [run EXCEPT !.pc = IF run.rev \in Targets THEN "check" ELSE "summary"]
  /\ UNCHANGED <<main, pending, ledger, worker, drift, applied, seen>>

StageAt(k, result, next) ==
  [run EXCEPT !.outcome[k] = result, !.db = 1,
              !.pc = IF result = "success" THEN next ELSE "summary"]

(* The stage of a run, with the databases already treated.                 *)
GateCheck ==
  /\ run.pc = "check"
  /\ run' = IF Blocked(run.rev, run.db) # {} THEN StageAt(1, "failure", "summary")
            ELSE IF run.db < 3 THEN [run EXCEPT !.db = @ + 1]
            ELSE StageAt(1, "success", "apply")
  /\ UNCHANGED <<main, pending, ledger, worker, drift, applied, seen>>

NextDatabase ==
  IF run.db < 3 THEN [run EXCEPT !.db = @ + 1, !.pc = "apply"]
  ELSE StageAt(2, "success", "primary")

GateList ==
  /\ run.pc = "apply"
  /\ run' = IF Blocked(run.rev, run.db) # {} THEN StageAt(2, "failure", "summary")
            ELSE IF PendingOf(run.rev, run.db) = {} THEN NextDatabase
            ELSE [run EXCEPT !.pc = "migrate"]
  /\ UNCHANGED <<main, pending, ledger, worker, drift, applied, seen>>

(* wrangler applies what is pending by then; a failed migration is rolled  *)
(* back, the ones before it are not.                                       *)
GateApply ==
  /\ run.pc = "migrate"
  /\ \E done \in SUBSET PendingOf(run.rev, run.db) :
       /\ ledger' = ledger \cup done
       /\ applied' = applied \cup {<<f, Content[run.rev][f]>> : f \in done}
       /\ run' \in {[run EXCEPT !.pc = "confirm"] : x \in
                       IF done = PendingOf(run.rev, run.db) THEN {1} ELSE {}}
                   \cup {StageAt(2, "failure", "summary")}
  /\ UNCHANGED <<main, pending, worker, drift, seen>>

(* Mutant: one database confirmed is enough.                               *)
ConfirmOne ==
  /\ run.pc = "confirm"
  /\ run' = StageAt(2, "success", "primary")
  /\ UNCHANGED <<main, pending, ledger, worker, drift, applied, seen>>

GateConfirm ==
  /\ run.pc = "confirm"
  /\ run' = IF PendingOf(run.rev, run.db) = {} THEN NextDatabase
            ELSE StageAt(2, "failure", "summary")
  /\ UNCHANGED <<main, pending, ledger, worker, drift, applied, seen>>

StageOf(w) == IF w = "primary" THEN 3 ELSE 5

(* wrangler deploy; the step can fail before or after the upload.          *)
Publish(w) ==
  LET k == StageOf(w)
  IN /\ run.pc = w
     /\ \/ /\ worker' = [worker EXCEPT ![w].published = run.rev]
           /\ run' \in {StageAt(k, r, Stages[k + 1]) : r \in {"success", "failure"}}
        \/ /\ run' = StageAt(k, "failure", "summary")
           /\ UNCHANGED worker
     /\ UNCHANGED <<main, pending, ledger, drift, applied, seen>>

(* deploymentIdentity: the revision a Worker reports.                      *)
Reported(w) == worker[w].served

(* The production checks of a Worker, at one moment.                       *)
Passes(w) == Reported(w) = run.rev /\ run.rev \in Healthy

(* Mutant: the revision a Worker reports is not compared.                  *)
VerifyAny(w) ==
  LET k == StageOf(w) + 1
  IN /\ run.pc = Stages[k]
     /\ run' = StageAt(k, "success", IF w = "primary" THEN "analytics" ELSE "summary")
     /\ UNCHANGED <<main, pending, ledger, worker, drift, applied, seen>>

(* verifyUntilReady: attempts until one sees every check pass, or time is  *)
(* out.                                                                    *)
Verify(w) ==
  LET k == StageOf(w) + 1
  IN /\ run.pc = Stages[k]
     /\ run' \in {StageAt(k, r, IF w = "primary" THEN "analytics" ELSE "summary") :
                    r \in {"failure"} \cup (IF Passes(w) THEN {"success"} ELSE {})}
     /\ UNCHANGED <<main, pending, ledger, worker, drift, applied, seen>>

(* The upload reaches the edge.                                            *)
Propagate(w) ==
  LET p == worker[w].published
  IN /\ worker[w].served # p
     /\ worker' = [worker EXCEPT ![w].served = p]
     /\ seen' = IF drift.pc = "analytics" /\ \A v \in Workers : worker'[v].served = p
                THEN seen \cup {p} ELSE seen
     /\ UNCHANGED <<main, pending, run, ledger, drift, applied>>

(* buildReleaseSummary                                                     *)
Succeeded(k) == run.outcome[k] = "success"
(* Mutant: a stage that did not run is as good as one that succeeded.      *)
VerdictOfFailures ==
  IF \E k \in DOMAIN Stages : run.outcome[k] = "failure" THEN "FAILED" ELSE "SUCCESS"
Verdict ==
  IF \E k \in DOMAIN Stages : run.outcome[k] = "failure" THEN "FAILED"
  ELSE IF \E k \in DOMAIN Stages : run.outcome[k] = "skipped" THEN "INCOMPLETE"
  ELSE "SUCCESS"
ProductionState ==
  CASE ~Succeeded(3) /\ ~Succeeded(5) -> "unchanged"
    [] Succeeded(3) /\ Succeeded(4) /\ Succeeded(5) /\ Succeeded(6) -> "released"
    [] Succeeded(3) /\ ~Succeeded(5) -> "partially updated"
    [] OTHER -> "at risk"

Summarise ==
  /\ run.pc = "summary"
  /\ run' = Idle
  /\ UNCHANGED <<main, pending, ledger, worker, drift, applied, seen>>

(* An operator applies a blocked migration deliberately.                   *)
OperatorApplies ==
  /\ \E f \in DOMAIN Content[main] \ ledger : ledger' = ledger \cup {f}
  /\ UNCHANGED <<main, pending, run, worker, drift, applied, seen>>

-----------------------------------------------------------------------------
(* runDriftCheck asks the primary Worker first.                            *)
ReadPrimary ==
  /\ drift.pc # "analytics"
  /\ drift' = [Quiet EXCEPT !.pc = "analytics", !.primary = Reported("primary")]
  /\ seen' = {r \in Commits : \A w \in Workers : Reported(w) = r}
  /\ UNCHANGED <<main, pending, run, ledger, worker, applied>>

(* classifyDrift: every revision the pipeline publishes is in main.        *)
ReadAnalytics ==
  /\ drift.pc = "analytics"
  /\ drift' = [drift EXCEPT !.pc = "done",
       !.verdict = IF drift.primary # Reported("analytics") THEN "split"
                   ELSE IF drift.primary = main THEN "in-sync" ELSE "behind"]
  /\ UNCHANGED <<main, pending, run, ledger, worker, applied, seen>>

Next ==
  \/ Push \/ RunAgain \/ StartRun \/ VerifyTarget
  \/ GateCheck \/ GateList \/ GateApply \/ GateConfirm
  \/ \E w \in Workers : Publish(w) \/ Verify(w) \/ Propagate(w)
  \/ Summarise \/ OperatorApplies \/ ReadPrimary \/ ReadAnalytics

Spec == Init /\ [][Next]_vars

-----------------------------------------------------------------------------
(* A published Worker finds every migration of its commit applied, in each *)
(* of the three databases, also when a release stops half way through the  *)
(* databases, is run again, or an older commit is released after it.       *)
SchemaCoversWorkers ==
  \A w \in Workers : DOMAIN Content[worker[w].published] \subseteq ledger

(* The pipeline applies nothing but additive migrations and migrations     *)
(* approved with that very content, by some commit of main.                *)
AppliedIsApproved ==
  \A a \in applied : ClassifyMigration(a[2]) = "additive-safe"
                     \/ \E c \in 1..main : a \in Approvals[c]

(* A run summarised as SUCCESS leaves both Workers published and served at *)
(* its revision, whatever ran before it.                                   *)
SuccessIsReleased ==
  run.pc = "summary" /\ Verdict = "SUCCESS" =>
    /\ ProductionState = "released"
    /\ \A w \in Workers : worker[w] = [published |-> run.rev, served |-> run.rev]

(* A drift check that reports no split has reported a revision that both   *)
(* Workers served at one moment of the check, though it asks them one      *)
(* after the other while releases go on.  It relies on the release order.  *)
DriftOkWasTrue ==
  drift.pc = "done" /\ drift.verdict # "split" => drift.primary \in seen

(* A run whose summary says that production is unchanged has not changed   *)
(* it.                                                                     *)
UnchangedIsUnchanged ==
  run.pc = "summary" /\ ProductionState = "unchanged" =>
    /\ run.at.worker = worker
    /\ run.at.ledger = ledger
=============================================================================
