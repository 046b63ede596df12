---------------------------- MODULE Release_proofs ----------------------------
(***************************************************************************)
(* Proofs about Release for every number of commits, every set of migration *)
(* files with every content and approvals, and every target and health of  *)
(* the commits.                                                            *)
(***************************************************************************)
EXTENDS Release, TLAPS

Gating == {"apply", "migrate", "confirm"}
Publishing == {"primary", "verifyPrimary", "analytics", "verifyAnalytics"}
Results == {"skipped", "success", "failure"}

Run(at) ==
  [pc : {"idle", "target", "check", "summary"} \cup Gating \cup Publishing,
   rev : 0..Tip, db : Databases, at : {at}, outcome : [1..6 -> Results]]

(* The run in progress is one of a commit of main.                         *)
RunOK ==
  /\ run \in Run(run.at)
  /\ run.rev <= main
  /\ run.pc # "idle" => run.rev # 0

DriftOK ==
  drift \in [pc : {"idle", "analytics", "done"}, primary : Nat,
             verdict : {"none", "split", "in-sync", "behind"}]

TypesOK ==
  /\ main \in Commits
  /\ pending \in 0..main
  /\ RunOK
  /\ ledger \subseteq Files
  /\ worker \in [Workers -> [published : Commits, served : Commits]]
  /\ DriftOK

(* The databases before run.db are up to date with the run's commit; what  *)
(* is about to be applied was not blocked; what publishes has all of it.   *)
GateDone ==
  /\ run.pc \in Gating =>
       \A db \in Databases : db < run.db => PendingOf(run.rev, db) = {}
  /\ run.pc = "migrate" => Blocked(run.rev, run.db) = {}
  /\ run.pc \in Publishing => DOMAIN Content[run.rev] \subseteq ledger

(* What the stages that have succeeded have left.                          *)
StagesDone ==
  /\ run.outcome[3] = "success" =>
       /\ run.pc \in {"verifyPrimary", "analytics", "verifyAnalytics", "summary"}
       /\ worker["primary"].published = run.rev
  /\ run.outcome[4] = "success" =>
       /\ run.pc \in {"analytics", "verifyAnalytics", "summary"}
       /\ worker["primary"].published = run.rev
       /\ worker["primary"].served = run.rev
  /\ run.outcome[5] = "success" =>
       /\ run.pc \in {"verifyAnalytics", "summary"}
       /\ worker["analytics"].published = run.rev
  /\ run.outcome[6] = "success" =>
       /\ run.pc = "summary"
       /\ worker["analytics"].published = run.rev
       /\ worker["analytics"].served = run.rev
  /\ run.pc = "verifyPrimary" => run.outcome[3] = "success"
  /\ run.pc \in {"analytics", "verifyAnalytics"} => run.outcome[4] = "success"
  /\ run.pc = "verifyAnalytics" => run.outcome[5] = "success"

(* The Analytics Worker is behind its upload only while the primary Worker *)
(* serves that very revision.                                              *)
ReleaseOrder ==
  /\ run.pc \in {"target", "check", "primary", "verifyPrimary"} \cup Gating =>
       worker["analytics"].served = worker["analytics"].published
  /\ worker["analytics"].served # worker["analytics"].published =>
       /\ worker["primary"].published = worker["analytics"].published
       /\ worker["primary"].served = worker["analytics"].published

(* In the middle of a drift check.                                         *)
DriftSoFar ==
  drift.pc = "analytics" /\ worker["analytics"].served = drift.primary
    => drift.primary \in seen

(* The inductive invariant.                                                *)
Inv ==
  /\ TypesOK
  /\ GateDone /\ SchemaCoversWorkers /\ AppliedIsApproved
  /\ StagesDone
  /\ ReleaseOrder
  /\ DriftSoFar /\ DriftOkWasTrue

-----------------------------------------------------------------------------
LEMMA StagesSix == DOMAIN Stages = 1..6
BY DEF Stages

(* What the end of stage k does to the run.                                *)
Staged(k, result, next) ==
  /\ run' \in Run(run.at)
  /\ run'.rev = run.rev
  /\ run'.db = 1
  /\ run'.pc = IF result = "success" THEN next ELSE "summary"
  /\ run'.outcome[k] = result
  /\ \A j \in 1..6 \ {k} : run'.outcome[j] = run.outcome[j]

LEMMA StageEffect ==
  ASSUME RunOK, NEW k \in 1..6, NEW result \in {"success", "failure"}, NEW next,
         result = "success" =>
           next \in {"apply", "primary", "verifyPrimary", "analytics",
                    "verifyAnalytics", "summary"},
         run' = StageAt(k, result, next)
  PROVE  Staged(k, result, next)
<1> DEFINE pc == IF result = "success" THEN next ELSE "summary"
           outcome == [run.outcome EXCEPT ![k] = result]
<1>1. pc \in {"summary"} \cup Gating \cup Publishing
  BY DEF Gating, Publishing
<1>2. /\ outcome \in [1..6 -> Results]
      /\ outcome[k] = result
      /\ \A j \in 1..6 \ {k} : outcome[j] = run.outcome[j]
  BY DEF RunOK, Run, Results
<1>3. run' = [run EXCEPT !.outcome = outcome, !.db = 1, !.pc = pc]
  BY DEF StageAt, RunOK, Run
<1> HIDE DEF pc, outcome
<1>4. run' = [pc |-> pc, rev |-> run.rev, db |-> 1, at |-> run.at,
              outcome |-> outcome]
  BY <1>3 DEF RunOK, Run
<1>5. run.rev \in 0..Tip /\ 1 \in Databases
  BY DEF RunOK, Run, Databases
<1>6. run' \in Run(run.at)
  BY <1>1, <1>2, <1>4, <1>5 DEF Run
<1>7. QED
  BY <1>2, <1>4, <1>6 DEF Staged, pc

LEMMA StageFails ==
  ASSUME RunOK, NEW k \in 1..6, NEW next, run' = StageAt(k, "failure", next)
  PROVE  Staged(k, "failure", "summary")
<1>1. Staged(k, "failure", next)
  BY StageEffect
<1>2. QED
  BY <1>1 DEF Staged

LEMMA StageSucceeds ==
  ASSUME RunOK, NEW k \in 1..6,
         NEW next \in {"apply", "primary", "verifyPrimary", "analytics",
                      "verifyAnalytics", "summary"},
         run' = StageAt(k, "success", next)
  PROVE  Staged(k, "success", next)
BY StageEffect

(* The database after run.db, or the end of the stage.                     *)
NextDone ==
  \/ /\ run.db < 3
     /\ run' = [run EXCEPT !.db = run.db + 1, !.pc = "apply"]
  \/ run.db = 3 /\ Staged(2, "success", "primary")

LEMMA NextDatabaseEffect ==
  ASSUME RunOK, run' = NextDatabase
  PROVE  NextDone
<1>1. CASE run.db < 3
  BY <1>1 DEF NextDatabase, NextDone
<1>2. CASE ~(run.db < 3)
  <2>1. run.db = 3
    BY <1>2 DEF RunOK, Run, Databases
  <2>2. run' = StageAt(2, "success", "primary")
    BY <1>2 DEF NextDatabase
  <2>3. QED
    BY <2>1, <2>2, StageSucceeds DEF NextDone
<1>3. QED
  BY <1>1, <1>2

(* What the actions of the run do to it, its guards included.              *)
RunStays == UNCHANGED <<main, pending, ledger, worker, drift, applied, seen>>

LEMMA GateCheckEffect ==
  ASSUME RunOK, GateCheck
  PROVE  /\ RunStays /\ run.pc = "check"
         /\ \/ Staged(1, "failure", "summary")
            \/ run.db < 3 /\ run' = [run EXCEPT !.db = run.db + 1]
            \/ Staged(1, "success", "apply")
<1>1. \/ run' = StageAt(1, "failure", "summary")
      \/ run.db < 3 /\ run' = [run EXCEPT !.db = run.db + 1]
      \/ run' = StageAt(1, "success", "apply")
  BY DEF GateCheck
<1>2. QED
  <2>1. run' = StageAt(1, "failure", "summary") => Staged(1, "failure", "summary")
    BY StageFails
  <2>2. run' = StageAt(1, "success", "apply") => Staged(1, "success", "apply")
    BY StageSucceeds
  <2>3. RunStays /\ run.pc = "check"
    BY DEF GateCheck, RunStays
  <2>4. QED
    BY <1>1, <2>1, <2>2, <2>3

LEMMA GateListEffect ==
  ASSUME RunOK, GateList
  PROVE  /\ RunStays /\ run.pc = "apply"
         /\ \/ Staged(2, "failure", "summary")
            \/ PendingOf(run.rev, run.db) = {} /\ NextDone
            \/ /\ Blocked(run.rev, run.db) = {}
               /\ run' = [run EXCEPT !.pc = "migrate"]
<1>1. \/ run' = StageAt(2, "failure", "summary")
      \/ PendingOf(run.rev, run.db) = {} /\ run' = NextDatabase
      \/ Blocked(run.rev, run.db) = {} /\ run' = [run EXCEPT !.pc = "migrate"]
  BY DEF GateList
<1>2. QED
  BY <1>1, StageFails, NextDatabaseEffect DEF GateList, RunStays

LEMMA GateConfirmEffect ==
  ASSUME RunOK, GateConfirm
  PROVE  /\ RunStays /\ run.pc = "confirm"
         /\ \/ Staged(2, "failure", "summary")
            \/ PendingOf(run.rev, run.db) = {} /\ NextDone
<1>1. \/ run' = StageAt(2, "failure", "summary")
      \/ PendingOf(run.rev, run.db) = {} /\ run' = NextDatabase
  BY DEF GateConfirm
<1>2. QED
  BY <1>1, StageFails, NextDatabaseEffect DEF GateConfirm, RunStays

LEMMA GateApplyEffect ==
  ASSUME RunOK, GateApply
  PROVE  /\ run.pc = "migrate"
         /\ UNCHANGED <<main, pending, worker, drift, seen>>
         /\ \E done \in SUBSET PendingOf(run.rev, run.db) :
              /\ ledger' = ledger \cup done
              /\ applied' = applied \cup {<<f, Content[run.rev][f]>> : f \in done}
         /\ Staged(2, "failure", "summary") \/ run' = [run EXCEPT !.pc = "confirm"]
<1>1. run' = StageAt(2, "failure", "summary") \/ run' = [run EXCEPT !.pc = "confirm"]
  BY DEF GateApply
<1>2. QED
  BY <1>1, StageFails DEF GateApply

LEMMA StageOfWorker ==
  ASSUME NEW w \in Workers
  PROVE  /\ StageOf(w) \in 1..6 /\ StageOf(w) + 1 \in 1..6
         /\ Stages[StageOf(w) + 1] =
              IF w = "primary" THEN "verifyPrimary" ELSE "verifyAnalytics"
BY DEF Workers, StageOf, Stages

LEMMA PublishEffect ==
  ASSUME RunOK, NEW w \in Workers, Publish(w)
  PROVE  /\ run.pc = w
         /\ UNCHANGED <<main, pending, ledger, drift, applied, seen>>
         /\ \/ worker' = [worker EXCEPT ![w].published = run.rev]
            \/ UNCHANGED worker
         /\ \/ Staged(StageOf(w), "failure", "summary")
            \/ /\ worker' = [worker EXCEPT ![w].published = run.rev]
               /\ Staged(StageOf(w), "success", Stages[StageOf(w) + 1])
<1> DEFINE k == StageOf(w)
<1>1. \/ run' = StageAt(k, "failure", "summary")
      \/ /\ worker' = [worker EXCEPT ![w].published = run.rev]
         /\ run' = StageAt(k, "success", Stages[k + 1])
      \/ run' = StageAt(k, "failure", Stages[k + 1])
  BY DEF Publish
<1>2. QED
  BY <1>1, StageOfWorker, StageFails, StageSucceeds DEF Publish

LEMMA VerifyEffect ==
  ASSUME RunOK, NEW w \in Workers, Verify(w)
  PROVE  LET next == IF w = "primary" THEN "analytics" ELSE "summary"
         IN /\ RunStays
            /\ run.pc = IF w = "primary" THEN "verifyPrimary" ELSE "verifyAnalytics"
            /\ \/ Staged(StageOf(w) + 1, "failure", "summary")
               \/ Passes(w) /\ Staged(StageOf(w) + 1, "success", next)
<1> DEFINE k == StageOf(w) + 1
           next == IF w = "primary" THEN "analytics" ELSE "summary"
<1>1. \/ run' = StageAt(k, "failure", next)
      \/ Passes(w) /\ run' = StageAt(k, "success", next)
  BY DEF Verify
<1>2. k \in 1..6
  BY StageOfWorker
<1>3. Staged(k, "failure", "summary") \/ (Passes(w) /\ Staged(k, "success", next))
  BY <1>1, <1>2, StageFails, StageSucceeds
<1>4. QED
  BY <1>3, StageOfWorker DEF Verify, RunStays

LEMMA IdleFields ==
  /\ Idle.pc = "idle" /\ Idle.rev = 0 /\ Idle.db = 1
  /\ Idle.outcome = [k \in 1..6 |-> "skipped"]
  /\ Idle \in Run(Idle.at)
<1> DEFINE skipped == [k \in 1..6 |-> "skipped"]
           at == [ledger |-> {}, worker |-> <<>>]
<1>1. skipped \in [1..6 -> Results]
  BY DEF Results
<1>2. Idle = [pc |-> "idle", rev |-> 0, db |-> 1, at |-> at, outcome |-> skipped]
  BY StagesSix DEF Idle
<1> HIDE DEF skipped, at
<1>3. Idle \in Run(at) /\ Idle.at = at
  BY <1>1, <1>2, TipIsNumber DEF Run, Databases
<1>4. QED
  BY <1>2, <1>3 DEF skipped

LEMMA StartRunEffect ==
  ASSUME pending \in 0..Tip, StartRun
  PROVE  /\ run.pc = "idle" /\ pending # 0
         /\ \A w \in Workers : worker[w].served = worker[w].published
         /\ pending' = 0
         /\ UNCHANGED <<main, ledger, worker, drift, applied, seen>>
         /\ run' \in Run(run'.at)
         /\ run'.outcome = [k \in 1..6 |-> "skipped"]
         /\ \/ run'.pc = "idle" /\ run'.rev = 0
            \/ run'.pc = "target" /\ run'.rev = pending
<1> DEFINE at == [ledger |-> ledger, worker |-> worker]
           started == [Idle EXCEPT !.pc = "target", !.rev = pending, !.at = at]
<1> HIDE DEF at
<1>1. CASE run' = Idle
  BY <1>1, IdleFields DEF StartRun
<1>2. CASE run' = started
  <2> DEFINE i == Idle
  <2>1. i \in Run(i.at) /\ run' = [i EXCEPT !.pc = "target", !.rev = pending, !.at = at]
    BY <1>2, IdleFields
  <2> HIDE DEF i
  <2>2. /\ run'.pc = "target" /\ run'.rev = pending /\ run'.at = at
        /\ run'.outcome = i.outcome
        /\ run' \in Run(at)
    BY <2>1 DEF Run
  <2>3. QED
    BY <2>2, IdleFields DEF StartRun, i
<1>3. QED
  BY <1>1, <1>2 DEF StartRun, at

-----------------------------------------------------------------------------
LEMMA InitInv == Init => Inv
<1> SUFFICES ASSUME Init PROVE Inv
  OBVIOUS
<1>1. TypesOK
  BY IdleFields, TipIsNumber, CommitsHoldFiles
     DEF Init, TypesOK, RunOK, DriftOK, Quiet, Commits, Workers
<1>2. GateDone /\ StagesDone /\ ReleaseOrder
  BY IdleFields DEF Init, GateDone, StagesDone, ReleaseOrder, Gating, Publishing, Workers
<1>3. SchemaCoversWorkers /\ AppliedIsApproved
  BY DEF Init, SchemaCoversWorkers, AppliedIsApproved
<1>4. DriftSoFar /\ DriftOkWasTrue
  BY DEF Init, DriftSoFar, DriftOkWasTrue, Quiet
<1>5. QED
  BY <1>1, <1>2, <1>3, <1>4 DEF Inv

(* The run in progress keeps its commit.                                   *)
LEMMA StagedOK ==
  ASSUME RunOK, UNCHANGED main, run.pc # "idle",
         NEW k, NEW result, NEW next, Staged(k, result, next)
  PROVE  RunOK'
<1>1. run' \in Run(run'.at) /\ run'.rev = run.rev
  BY DEF Staged, Run
<1>2. QED
  BY <1>1 DEF RunOK

LEMMA MovedOK ==
  ASSUME RunOK, UNCHANGED main, run.pc # "idle",
         \/ run.db < 3 /\ run' = [run EXCEPT !.db = run.db + 1]
         \/ run.db < 3 /\ run' = [run EXCEPT !.db = run.db + 1, !.pc = "apply"]
         \/ \E pc \in {"migrate", "confirm", "check", "summary"} :
              run' = [run EXCEPT !.pc = pc]
  PROVE  RunOK'
<1>1. CASE run.db < 3 /\ run' = [run EXCEPT !.db = run.db + 1]
  BY <1>1 DEF RunOK, Run, Databases
<1>2. CASE run.db < 3 /\ run' = [run EXCEPT !.db = run.db + 1, !.pc = "apply"]
  <2>1. run.db + 1 \in Databases /\ "apply" \in Gating
    BY <1>2 DEF RunOK, Run, Databases, Gating
  <2> DEFINE next == run.db + 1
  <2>2. run' = [run EXCEPT !.db = next, !.pc = "apply"] /\ next \in Databases
    BY <1>2, <2>1
  <2> HIDE DEF next
  <2>3. run' \in Run(run'.at) /\ run'.rev = run.rev
    BY <2>1, <2>2 DEF RunOK, Run
  <2>4. QED
    BY <2>3 DEF RunOK
<1>3. CASE \E pc \in {"migrate", "confirm", "check", "summary"} :
             run' = [run EXCEPT !.pc = pc]
  BY <1>3 DEF RunOK, Run, Gating
<1>4. QED
  BY <1>1, <1>2, <1>3

LEMMA NextDoneOK ==
  ASSUME RunOK, UNCHANGED main, run.pc # "idle", NextDone
  PROVE  RunOK'
BY StagedOK, MovedOK DEF NextDone

LEMMA StepTypes ==
  ASSUME TypesOK, [Next]_vars
  PROVE  TypesOK'
<1> USE DEF TypesOK
<1>1. CASE UNCHANGED vars
  BY <1>1 DEF vars, RunOK, DriftOK
<1>2. CASE Push
  BY <1>2, TipIsNumber DEF Push, Commits, RunOK, Run, DriftOK
<1>3. CASE RunAgain
  BY <1>3, TipIsNumber DEF RunAgain, Commits, RunOK, DriftOK
<1>4. CASE StartRun
  <2>1. pending \in 0..Tip
    BY TipIsNumber DEF Commits
  <2>2. run' \in Run(run'.at) /\ run'.rev <= main /\ (run'.pc # "idle" => run'.rev # 0)
    BY <1>4, <2>1, StartRunEffect DEF Commits
  <2>3. QED
    BY <1>4, <2>1, <2>2, StartRunEffect DEF RunOK, DriftOK, Commits
<1>5. ASSUME RunStays, RunOK'
      PROVE  TypesOK'
  BY <1>5 DEF RunStays, DriftOK
<1>6. CASE VerifyTarget
  BY <1>5, <1>6, MovedOK DEF VerifyTarget, RunStays
<1>7. CASE GateCheck
  <2>1. RunOK'
    BY <1>7, GateCheckEffect, StagedOK, MovedOK DEF RunStays
  <2>2. QED
    BY <1>5, <1>7, <2>1, GateCheckEffect
<1>8. CASE GateList
  <2>1. RunOK'
    BY <1>8, GateListEffect, StagedOK, MovedOK, NextDoneOK DEF RunStays
  <2>2. QED
    BY <1>5, <1>8, <2>1, GateListEffect
<1>9. CASE GateApply
  <2>1. RunOK'
    BY <1>9, GateApplyEffect, StagedOK, MovedOK
  <2>2. PICK done \in SUBSET PendingOf(run.rev, run.db) : ledger' = ledger \cup done
    BY <1>9, GateApplyEffect
  <2>3. run.rev \in Commits
    BY <1>9, GateApplyEffect DEF RunOK, Run, Commits
  <2>4. done \subseteq Files
    BY <2>3, CommitsHoldFiles DEF PendingOf
  <2>5. QED
    BY <1>9, <2>1, <2>2, <2>4, GateApplyEffect DEF DriftOK
<1>10. CASE GateConfirm
  <2>1. RunOK'
    BY <1>10, GateConfirmEffect, StagedOK, NextDoneOK DEF RunStays
  <2>2. QED
    BY <1>5, <1>10, <2>1, GateConfirmEffect
<1>11. ASSUME NEW w \in Workers, Publish(w)
       PROVE  TypesOK'
  <2>1. run.pc # "idle"
    BY <1>11, PublishEffect DEF Workers
  <2>2. RunOK'
    BY <1>11, <2>1, PublishEffect, StagedOK
  <2>3. run.rev \in Commits
    BY <2>1 DEF RunOK, Run, Commits
  <2>4. worker' \in [Workers -> [published : Commits, served : Commits]]
    BY <1>11, <2>3, PublishEffect
  <2>5. QED
    BY <1>11, <2>2, <2>4, PublishEffect DEF DriftOK
<1>12. ASSUME NEW w \in Workers, Verify(w)
       PROVE  TypesOK'
  <2>1. run.pc # "idle" /\ RunStays
    BY <1>12, VerifyEffect
  <2>2. RunOK'
    BY <1>12, <2>1, VerifyEffect, StagedOK DEF RunStays
  <2>3. QED
    BY <1>5, <2>1, <2>2
<1>13. ASSUME NEW w \in Workers, Propagate(w)
       PROVE  TypesOK'
  BY <1>13 DEF Propagate, RunOK, DriftOK
<1>14. CASE Summarise
  <2>1. RunOK'
    BY <1>14, IdleFields DEF Summarise, RunOK, Commits
  <2>2. QED
    BY <1>5, <1>14, <2>1 DEF Summarise, RunStays
<1>15. CASE OperatorApplies
  BY <1>15, CommitsHoldFiles DEF OperatorApplies, RunOK, DriftOK
<1>16. CASE ReadPrimary
  <2>1. drift' = [pc |-> "analytics", primary |-> worker["primary"].served,
                  verdict |-> "none"]
    BY <1>16 DEF ReadPrimary, Quiet, Reported
  <2>2. worker["primary"].served \in Nat
    BY DEF Workers, Commits
  <2>3. DriftOK'
    BY <2>1, <2>2 DEF DriftOK
  <2>4. QED
    BY <1>16, <2>3 DEF ReadPrimary, RunOK
<1>17. CASE ReadAnalytics
  <2>1. PICK v \in {"split", "in-sync", "behind"} :
          drift' = [drift EXCEPT !.pc = "done", !.verdict = v]
    <3>1. CASE drift.primary # Reported("analytics")
      BY <1>17, <3>1 DEF ReadAnalytics
    <3>2. CASE drift.primary = Reported("analytics") /\ drift.primary = main
      BY <1>17, <3>2 DEF ReadAnalytics
    <3>3. CASE drift.primary = Reported("analytics") /\ drift.primary # main
      BY <1>17, <3>3 DEF ReadAnalytics
    <3>4. QED
      BY <3>1, <3>2, <3>3
  <2>2. QED
    BY <1>17, <2>1 DEF ReadAnalytics, RunOK, DriftOK
<1>18. QED
  BY <1>1, <1>2, <1>3, <1>4, <1>6, <1>7, <1>8, <1>9, <1>10, <1>11, <1>12, <1>13,
     <1>14, <1>15, <1>16, <1>17 DEF Next

-----------------------------------------------------------------------------
(* The gate: nothing ever leaves the ledger, so what is pending of a       *)
(* commit only shrinks.                                                    *)
LEMMA PendingShrinks ==
  ASSUME ledger \subseteq ledger', run'.rev = run.rev, NEW db
  PROVE  /\ PendingOf(run.rev, db)' \subseteq PendingOf(run.rev, db)
         /\ Blocked(run.rev, db)' \subseteq Blocked(run.rev, db)
BY DEF PendingOf, Blocked

LEMMA GateKept ==
  ASSUME GateDone, UNCHANGED run, ledger \subseteq ledger'
  PROVE  GateDone'
<1>1. run.pc \in Gating =>
        \A db \in Databases : db < run.db => PendingOf(run.rev, db)' = {}
  BY PendingShrinks DEF GateDone
<1>2. run.pc = "migrate" => Blocked(run.rev, run.db)' = {}
  BY PendingShrinks DEF GateDone
<1>3. QED
  BY <1>1, <1>2 DEF GateDone

LEMMA GateLeft ==
  ASSUME run'.pc \notin Gating \cup Publishing
  PROVE  GateDone'
BY DEF GateDone, Gating

LEMMA GatePublishing ==
  ASSUME GateDone, UNCHANGED ledger, run'.rev = run.rev,
         run.pc \in Publishing, run'.pc \in Publishing \cup {"summary"}
  PROVE  GateDone'
BY DEF GateDone, Gating, Publishing

(* With the last database up to date, all of the commit's files are        *)
(* applied.                                                                *)
LEMMA AllApplied ==
  ASSUME TypesOK, GateDone, run.pc \in Gating, run.db = 3,
         PendingOf(run.rev, run.db) = {}
  PROVE  DOMAIN Content[run.rev] \subseteq ledger
<1> SUFFICES ASSUME NEW f \in DOMAIN Content[run.rev], f \notin ledger
             PROVE  FALSE
  OBVIOUS
<1>1. run.rev \in Commits
  BY DEF TypesOK, RunOK, Run, Gating, Commits
<1>2. DbOf[f] \in 1..3
  BY <1>1, CommitsHoldFiles, FilesHaveDatabases DEF Databases
<1>3. f \in PendingOf(run.rev, DbOf[f])
  BY DEF PendingOf
<1>4. DbOf[f] < run.db \/ DbOf[f] = run.db
  BY <1>2
<1>5. QED
  BY <1>2, <1>3, <1>4 DEF GateDone, Databases

LEMMA NextDoneGate ==
  ASSUME TypesOK, GateDone, UNCHANGED ledger, run.pc \in Gating,
         PendingOf(run.rev, run.db) = {}, NextDone
  PROVE  GateDone'
<1>1. CASE run.db < 3 /\ run' = [run EXCEPT !.db = run.db + 1, !.pc = "apply"]
  <2>1. run'.pc = "apply" /\ run'.rev = run.rev /\ run'.db = run.db + 1
    BY <1>1 DEF TypesOK, RunOK, Run
  <2>2. ASSUME NEW db \in Databases, db < run'.db
        PROVE  PendingOf(run.rev, db) = {}
    <3>1. db < run.db \/ db = run.db
      BY <2>1, <2>2 DEF TypesOK, RunOK, Run, Databases
    <3>2. QED
      BY <3>1 DEF GateDone
  <2>3. \A db \in Databases : db < run'.db => PendingOf(run.rev, db)' = {}
    BY <2>1, <2>2, PendingShrinks
  <2>4. QED
    BY <2>1, <2>3 DEF GateDone, Publishing
<1>2. CASE run.db = 3 /\ Staged(2, "success", "primary")
  <2>1. run'.pc = "primary" /\ run'.rev = run.rev
    BY <1>2 DEF Staged
  <2>2. DOMAIN Content[run.rev] \subseteq ledger
    BY <1>2, AllApplied
  <2>3. QED
    BY <2>1, <2>2 DEF GateDone, Gating
<1>3. QED
  BY <1>1, <1>2 DEF NextDone

LEMMA GateStep ==
  ASSUME TypesOK, GateDone, [Next]_vars
  PROVE  GateDone'
<1>1. ASSUME UNCHANGED <<run, ledger>>
      PROVE  GateDone'
  BY <1>1, GateKept
<1>2. ASSUME NEW k, NEW next, Staged(k, "failure", next)
      PROVE  GateDone'
  BY <1>2, GateLeft DEF Staged, Gating, Publishing
<1>3. CASE StartRun
  BY <1>3, StartRunEffect, GateLeft, TipIsNumber
     DEF TypesOK, Commits, Gating, Publishing
<1>4. CASE VerifyTarget
  BY <1>4, GateLeft DEF VerifyTarget, TypesOK, RunOK, Run, Gating, Publishing
<1>5. CASE GateCheck
  <2>1. CASE run.db < 3 /\ run' = [run EXCEPT !.db = run.db + 1]
    BY <1>5, <2>1, GateLeft DEF GateCheck, TypesOK, RunOK, Run, Gating, Publishing
  <2>2. CASE Staged(1, "success", "apply")
    <3>1. run'.pc = "apply" /\ run'.db = 1
      BY <2>2 DEF Staged
    <3>2. QED
      BY <3>1 DEF GateDone, Publishing, Databases
  <2>3. QED
    BY <1>2, <1>5, <2>1, <2>2, GateCheckEffect DEF TypesOK
<1>6. CASE GateList
  <2>1. CASE Blocked(run.rev, run.db) = {} /\ run' = [run EXCEPT !.pc = "migrate"]
    <3>1. /\ run'.pc = "migrate" /\ run'.db = run.db /\ run'.rev = run.rev
          /\ run.pc = "apply" /\ ledger' = ledger
      BY <1>6, <2>1 DEF TypesOK, RunOK, Run, GateList
    <3>2. \A db \in Databases : db < run'.db => PendingOf(run.rev, db)' = {}
      BY <3>1, PendingShrinks DEF GateDone, Gating
    <3>3. Blocked(run.rev, run.db)' = {}
      BY <2>1, <3>1 DEF Blocked, PendingOf
    <3>4. QED
      BY <3>1, <3>2, <3>3 DEF GateDone, Publishing
  <2>2. run.pc \in Gating
    BY <1>6 DEF GateList, Gating
  <2>3. QED
    BY <1>2, <1>6, <2>1, <2>2, GateListEffect, NextDoneGate DEF TypesOK, RunStays
<1>7. CASE GateApply
  <2>1. CASE run' = [run EXCEPT !.pc = "confirm"]
    <3>1. /\ run'.pc = "confirm" /\ run'.db = run.db /\ run'.rev = run.rev
          /\ run.pc = "migrate" /\ ledger \subseteq ledger'
      BY <1>7, <2>1, GateApplyEffect DEF TypesOK, RunOK, Run
    <3>2. \A db \in Databases : db < run'.db => PendingOf(run.rev, db)' = {}
      BY <3>1, PendingShrinks DEF GateDone, Gating
    <3>3. QED
      BY <3>1, <3>2 DEF GateDone, Publishing
  <2>2. QED
    BY <1>2, <1>7, <2>1, GateApplyEffect DEF TypesOK
<1>8. CASE GateConfirm
  <2>1. run.pc \in Gating
    BY <1>8 DEF GateConfirm, Gating
  <2>2. QED
    BY <1>2, <1>8, <2>1, GateConfirmEffect, NextDoneGate DEF TypesOK, RunStays
<1>9. ASSUME NEW w \in Workers, Publish(w)
      PROVE  GateDone'
  <2>1. run.pc \in Publishing
    BY <1>9, PublishEffect DEF TypesOK, Workers, Publishing
  <2>2. Stages[StageOf(w) + 1] \in Publishing
    BY StageOfWorker DEF Publishing
  <2>3. CASE Staged(StageOf(w), "success", Stages[StageOf(w) + 1])
    <3>1. run'.pc \in Publishing /\ run'.rev = run.rev
      BY <2>2, <2>3 DEF Staged
    <3>2. QED
      BY <1>9, <2>1, <3>1, GatePublishing DEF Publish
  <2>4. QED
    BY <1>2, <1>9, <2>3, PublishEffect DEF TypesOK
<1>10. ASSUME NEW w \in Workers, Verify(w)
       PROVE  GateDone'
  <2> DEFINE next == IF w = "primary" THEN "analytics" ELSE "summary"
  <2>1. CASE Staged(StageOf(w) + 1, "success", next)
    <3>1. run'.pc \in Publishing \cup {"summary"} /\ run'.rev = run.rev
      BY <2>1 DEF Staged, Publishing
    <3>2. run.pc \in Publishing /\ ledger' = ledger
      BY <1>10, VerifyEffect DEF TypesOK, Publishing, RunStays
    <3>3. QED
      BY <3>1, <3>2, GatePublishing
  <2>2. QED
    BY <1>2, <1>10, <2>1, VerifyEffect DEF TypesOK
<1>11. CASE Summarise
  BY <1>11, IdleFields, GateLeft DEF Summarise, Gating, Publishing
<1>12. CASE OperatorApplies
  BY <1>12, GateKept DEF OperatorApplies
<1>13. CASE \/ UNCHANGED vars \/ Push \/ RunAgain \/ ReadPrimary \/ ReadAnalytics
            \/ \E w \in Workers : Propagate(w)
  BY <1>1, <1>13 DEF vars, Push, RunAgain, ReadPrimary, ReadAnalytics, Propagate
<1>14. QED
  BY <1>3, <1>4, <1>5, <1>6, <1>7, <1>8, <1>9, <1>10, <1>11, <1>12, <1>13 DEF Next

LEMMA LedgerGrows ==
  ASSUME TypesOK, [Next]_vars
  PROVE  ledger \subseteq ledger'
BY GateApplyEffect
   DEF TypesOK, Next, vars, Push, RunAgain, StartRun, VerifyTarget, GateCheck,
       GateList, GateConfirm, Publish, Verify, Propagate, Summarise,
       OperatorApplies, ReadPrimary, ReadAnalytics

(* Only a publication changes what is published, and it publishes a commit *)
(* whose files the gate has seen applied.                                  *)
LEMMA SchemaStep ==
  ASSUME TypesOK, GateDone, SchemaCoversWorkers, [Next]_vars
  PROVE  SchemaCoversWorkers'
<1> DEFINE Covered(v) ==
      \/ worker'[v].published = worker[v].published
      \/ worker'[v].published = run.rev /\ run.pc \in Publishing
<1>1. ASSUME NEW v \in Workers
      PROVE  Covered(v)
  <2>1. ASSUME NEW w \in Workers, Publish(w)
        PROVE  Covered(v)
    <3>1. run.pc \in Publishing
      BY <2>1, PublishEffect DEF TypesOK, Workers, Publishing
    <3>2. QED
      BY <2>1, <3>1, PublishEffect DEF TypesOK
  <2>2. ASSUME NEW w \in Workers, Propagate(w)
        PROVE  Covered(v)
    BY <2>2 DEF Propagate, TypesOK
  <2>3. CASE UNCHANGED worker
    BY <2>3
  <2>4. QED
    BY <2>1, <2>2, <2>3
       DEF Next, vars, Push, RunAgain, StartRun, VerifyTarget, GateCheck,
           GateList, GateApply, GateConfirm, Verify, Summarise,
           OperatorApplies, ReadPrimary, ReadAnalytics
<1>2. QED
  BY <1>1, LedgerGrows DEF SchemaCoversWorkers, GateDone

(* Only the gate applies for the pipeline, and what it applies was not     *)
(* blocked when it listed the pending migrations of the same commit.       *)
LEMMA ApprovedStep ==
  ASSUME TypesOK, GateDone, AppliedIsApproved, [Next]_vars
  PROVE  AppliedIsApproved'
<1>1. main <= main' /\ main \in Nat /\ main' \in Nat
  BY StepTypes
     DEF TypesOK, Commits, Next, vars, Push, RunAgain, StartRun, VerifyTarget,
         GateCheck, GateList, GateApply, GateConfirm, Publish, Verify, Propagate,
         Summarise, OperatorApplies, ReadPrimary, ReadAnalytics
<1>2. ASSUME NEW a \in applied' \ applied
      PROVE  ClassifyMigration(a[2]) = "additive-safe"
             \/ \E c \in 1..main : a \in Approvals[c]
  <2>1. GateApply
    BY <1>2
       DEF Next, vars, Push, RunAgain, StartRun, VerifyTarget, GateCheck,
           GateList, GateConfirm, Publish, Verify, Propagate, Summarise,
           OperatorApplies, ReadPrimary, ReadAnalytics
  <2>2. PICK f \in PendingOf(run.rev, run.db) : a = <<f, Content[run.rev][f]>>
    BY <1>2, <2>1, GateApplyEffect DEF TypesOK
  <2>3. f \notin Blocked(run.rev, run.db)
    BY <2>1 DEF GateDone, GateApply
  <2>4. run.rev \in 1..main
    BY <2>1 DEF GateApply, TypesOK, RunOK, Run, Commits
  <2>5. QED
    BY <2>2, <2>3, <2>4 DEF Blocked
<1>3. ASSUME NEW a \in applied'
      PROVE  ClassifyMigration(a[2]) = "additive-safe"
             \/ \E c \in 1..main' : a \in Approvals[c]
  <2>1. ClassifyMigration(a[2]) = "additive-safe"
        \/ \E c \in 1..main : a \in Approvals[c]
    BY <1>2 DEF AppliedIsApproved
  <2>2. 1..main \subseteq 1..main'
    BY <1>1
  <2>3. QED
    BY <2>1, <2>2
<1>4. QED
  BY <1>3 DEF AppliedIsApproved, ClassifyMigration, ClassifyStatement, Forbidden,
              Additive

-----------------------------------------------------------------------------
(* The stages.                                                             *)

(* A stage before the publications, or a step outside the run: no stage    *)
(* from the third on changes its result.                                   *)
LEMMA StagesKept ==
  ASSUME StagesDone, UNCHANGED worker, run'.rev = run.rev,
         \A k \in 3..6 : run'.outcome[k] = "success" => run.outcome[k] = "success",
         \/ run'.pc = "summary"
         \/ /\ run.pc \notin Publishing \cup {"summary"}
            /\ run'.pc \notin {"verifyPrimary", "analytics", "verifyAnalytics"}
  PROVE  StagesDone'
BY DEF StagesDone, Publishing

LEMMA StagesReset ==
  ASSUME run'.outcome = [k \in 1..6 |-> "skipped"], run'.pc \in {"idle", "target"}
  PROVE  StagesDone'
BY DEF StagesDone

LEMMA StagesPublish ==
  ASSUME TypesOK, StagesDone, NEW w \in Workers, Publish(w)
  PROVE  StagesDone'
<1> USE DEF TypesOK, StagesDone
<1>1. CASE w = "primary"
  <2>1. /\ run.pc = "primary" /\ StageOf(w) = 3
        /\ \A k \in 3..6 : run.outcome[k] # "success"
    BY <1>1, PublishEffect DEF StageOf
  <2>2. CASE Staged(3, "failure", "summary")
    <3>1. \A k \in 3..6 : run'.outcome[k] # "success"
      BY <2>1, <2>2 DEF Staged
    <3>2. run'.pc = "summary"
      BY <2>2 DEF Staged
    <3>3. QED
      BY <3>1, <3>2
  <2>3. CASE /\ worker' = [worker EXCEPT !["primary"].published = run.rev]
             /\ Staged(3, "success", "verifyPrimary")
    <3>1. \A k \in 4..6 : run'.outcome[k] # "success"
      BY <2>1, <2>3 DEF Staged
    <3>2. /\ run'.pc = "verifyPrimary" /\ run'.rev = run.rev
          /\ run'.outcome[3] = "success"
      BY <2>3 DEF Staged
    <3>3. worker'["primary"].published = run'.rev
      BY <2>3, <3>2 DEF Workers
    <3>4. QED
      BY <3>1, <3>2, <3>3
  <2>4. QED
    BY <1>1, <2>1, <2>2, <2>3, PublishEffect, StageOfWorker
<1>2. CASE w = "analytics"
  <2>1. /\ run.pc = "analytics" /\ StageOf(w) = 5
        /\ \A k \in 5..6 : run.outcome[k] # "success"
        /\ run.outcome[4] = "success"
    BY <1>2, PublishEffect DEF StageOf
  <2>2. worker'["primary"] = worker["primary"]
    BY <1>2, PublishEffect DEF Workers
  <2>3. CASE Staged(5, "failure", "summary")
    <3>1. /\ \A k \in 5..6 : run'.outcome[k] # "success"
          /\ \A k \in 3..4 : run'.outcome[k] = run.outcome[k]
      BY <2>1, <2>3 DEF Staged
    <3>2. run'.pc = "summary" /\ run'.rev = run.rev
      BY <2>3 DEF Staged
    <3>3. QED
      BY <2>2, <3>1, <3>2
  <2>4. CASE /\ worker' = [worker EXCEPT !["analytics"].published = run.rev]
             /\ Staged(5, "success", "verifyAnalytics")
    <3>1. /\ run'.outcome[6] # "success" /\ run'.outcome[5] = "success"
          /\ \A k \in 3..4 : run'.outcome[k] = run.outcome[k]
      BY <2>1, <2>4 DEF Staged
    <3>2. run'.pc = "verifyAnalytics" /\ run'.rev = run.rev
      BY <2>4 DEF Staged
    <3>3. worker'["analytics"].published = run'.rev
      BY <2>4, <3>2 DEF Workers
    <3>4. QED
      BY <2>1, <2>2, <3>1, <3>2, <3>3
  <2>5. QED
    BY <1>2, <2>1, <2>3, <2>4, PublishEffect, StageOfWorker
<1>3. QED
  BY <1>1, <1>2 DEF Workers

LEMMA StagesVerify ==
  ASSUME TypesOK, StagesDone, NEW w \in Workers, Verify(w)
  PROVE  StagesDone'
<1> USE DEF TypesOK, StagesDone
<1>1. worker' = worker
  BY VerifyEffect DEF RunStays
<1>2. CASE w = "primary"
  <2>1. /\ run.pc = "verifyPrimary" /\ StageOf(w) + 1 = 4
        /\ \A k \in 4..6 : run.outcome[k] # "success"
    BY <1>2, VerifyEffect DEF StageOf
  <2>2. CASE Staged(4, "failure", "summary")
    <3>1. /\ \A k \in 4..6 : run'.outcome[k] # "success"
          /\ run'.outcome[3] = run.outcome[3]
          /\ run'.pc = "summary" /\ run'.rev = run.rev
      BY <2>1, <2>2 DEF Staged
    <3>2. QED
      BY <1>1, <3>1
  <2>3. CASE Passes(w) /\ Staged(4, "success", "analytics")
    <3>1. /\ \A k \in 5..6 : run'.outcome[k] # "success"
          /\ run'.outcome[3] = run.outcome[3] /\ run'.outcome[4] = "success"
          /\ run'.pc = "analytics" /\ run'.rev = run.rev
      BY <2>1, <2>3 DEF Staged
    <3>2. worker["primary"].served = run.rev /\ worker["primary"].published = run.rev
      BY <1>2, <2>1, <2>3 DEF Passes, Reported
    <3>3. QED
      BY <1>1, <3>1, <3>2
  <2>4. QED
    BY <1>2, <2>1, <2>2, <2>3, VerifyEffect
<1>3. CASE w = "analytics"
  <2>1. /\ run.pc = "verifyAnalytics" /\ StageOf(w) + 1 = 6
        /\ run.outcome[6] # "success"
    BY <1>3, VerifyEffect DEF StageOf
  <2>2. CASE Staged(6, "failure", "summary")
    <3>1. /\ run'.outcome[6] # "success"
          /\ \A k \in 3..5 : run'.outcome[k] = run.outcome[k]
          /\ run'.pc = "summary" /\ run'.rev = run.rev
      BY <2>1, <2>2 DEF Staged
    <3>2. QED
      BY <1>1, <3>1
  <2>3. CASE Passes(w) /\ Staged(6, "success", "summary")
    <3>1. /\ \A k \in 3..5 : run'.outcome[k] = run.outcome[k]
          /\ run'.pc = "summary" /\ run'.rev = run.rev
      BY <2>1, <2>3 DEF Staged
    <3>2. worker["analytics"].served = run.rev /\ worker["analytics"].published = run.rev
      BY <1>3, <2>1, <2>3 DEF Passes, Reported
    <3>3. QED
      BY <1>1, <3>1, <3>2
  <2>4. QED
    BY <1>3, <2>1, <2>2, <2>3, VerifyEffect
<1>4. QED
  BY <1>2, <1>3 DEF Workers

LEMMA StagesStep ==
  ASSUME TypesOK, StagesDone, [Next]_vars
  PROVE  StagesDone'
<1> USE DEF TypesOK
<1>1. ASSUME UNCHANGED <<run, worker>>
      PROVE  StagesDone'
  BY <1>1 DEF StagesDone
<1>2. ASSUME NEW k \in 1..2, NEW r \in {"success", "failure"},
             NEW next \in {"apply", "primary", "summary"}, Staged(k, r, next),
             UNCHANGED worker, run.pc \in {"check"} \cup Gating
      PROVE  StagesDone'
  <2>1. /\ run'.rev = run.rev
        /\ \A j \in 3..6 : run'.outcome[j] = run.outcome[j]
        /\ run'.pc \in {"apply", "primary", "summary"}
    BY <1>2 DEF Staged
  <2>2. QED
    BY <1>2, <2>1, StagesKept DEF Gating, Publishing
<1>3. ASSUME RunOK, UNCHANGED worker, run.pc \in {"check"} \cup Gating,
             \/ run' = [run EXCEPT !.db = run.db + 1]
             \/ run' = [run EXCEPT !.db = run.db + 1, !.pc = "apply"]
             \/ \E pc \in {"migrate", "confirm"} : run' = [run EXCEPT !.pc = pc]
      PROVE  StagesDone'
  <2>1. /\ run'.rev = run.rev /\ run'.outcome = run.outcome
        /\ run'.pc \in {"check"} \cup Gating
    BY <1>3 DEF RunOK, Run, Gating
  <2>2. QED
    BY <1>3, <2>1, StagesKept DEF Gating, Publishing
<1>4. ASSUME UNCHANGED worker, run.pc \in Gating, NextDone
      PROVE  StagesDone'
  BY <1>2, <1>3, <1>4 DEF NextDone
<1>5. CASE StartRun
  <2>1. pending \in 0..Tip
    BY TipIsNumber DEF Commits
  <2>2. QED
    BY <1>5, <2>1, StartRunEffect, StagesReset
<1>6. CASE VerifyTarget
  <2>1. /\ run'.rev = run.rev /\ run'.outcome = run.outcome
        /\ run'.pc \in {"check", "summary"} /\ run.pc = "target"
    BY <1>6 DEF VerifyTarget, RunOK, Run
  <2>2. QED
    BY <1>6, <2>1, StagesKept DEF VerifyTarget, Publishing
<1>7. CASE GateCheck
  BY <1>2, <1>3, <1>7, GateCheckEffect DEF RunStays
<1>8. CASE GateList
  <2>1. run.pc \in Gating
    BY <1>8 DEF GateList, Gating
  <2>2. QED
    BY <1>2, <1>3, <1>4, <1>8, <2>1, GateListEffect DEF RunStays
<1>9. CASE GateApply
  <2>1. run.pc \in Gating
    BY <1>9 DEF GateApply, Gating
  <2>2. QED
    BY <1>2, <1>3, <1>9, <2>1, GateApplyEffect
<1>10. CASE GateConfirm
  <2>1. run.pc \in Gating
    BY <1>10 DEF GateConfirm, Gating
  <2>2. QED
    BY <1>2, <1>4, <1>10, <2>1, GateConfirmEffect DEF RunStays
<1>11. ASSUME NEW w \in Workers, Propagate(w)
       PROVE  StagesDone'
  BY <1>11 DEF Propagate, StagesDone, Workers
<1>12. CASE Summarise
  BY <1>12, IdleFields, StagesReset DEF Summarise
<1>13. CASE \/ UNCHANGED vars \/ Push \/ RunAgain \/ OperatorApplies
            \/ ReadPrimary \/ ReadAnalytics
  BY <1>1, <1>13 DEF vars, Push, RunAgain, OperatorApplies, ReadPrimary, ReadAnalytics
<1>14. QED
  BY <1>5, <1>6, <1>7, <1>8, <1>9, <1>10, <1>11, <1>12, <1>13, StagesPublish,
     StagesVerify DEF Next

-----------------------------------------------------------------------------
(* The release order.                                                      *)
Early == {"target", "check", "primary", "verifyPrimary"} \cup Gating

(* A step that leaves the Workers alone and does not bring the run back to *)
(* where the Analytics Worker must have settled.                           *)
LEMMA OrderKept ==
  ASSUME ReleaseOrder, UNCHANGED worker, run'.pc \in Early => run.pc \in Early
  PROVE  ReleaseOrder'
BY DEF ReleaseOrder, Early

LEMMA RunStepOrder ==
  ASSUME TypesOK, ReleaseOrder,
         \/ VerifyTarget \/ GateCheck \/ GateList \/ GateApply \/ GateConfirm
         \/ \E w \in Workers : Verify(w)
  PROVE  ReleaseOrder'
<1> USE DEF TypesOK
<1>1. CASE VerifyTarget \/ GateCheck \/ GateList \/ GateApply \/ GateConfirm
  <2>1. worker' = worker
    BY <1>1 DEF VerifyTarget, GateCheck, GateList, GateApply, GateConfirm
  <2>2. run.pc \in Early
    BY <1>1 DEF VerifyTarget, GateCheck, GateList, GateApply, GateConfirm, Early, Gating
  <2>3. QED
    BY <2>1, <2>2, OrderKept
<1>2. ASSUME NEW w \in Workers, Verify(w)
      PROVE  ReleaseOrder'
  <2>1. worker' = worker
    BY <1>2, VerifyEffect DEF RunStays
  <2>2. run'.pc \notin Early
    BY <1>2, VerifyEffect DEF Staged, Early, Gating
  <2>3. QED
    BY <2>1, <2>2, OrderKept
<1>3. QED
  BY <1>1, <1>2

LEMMA OrderStep ==
  ASSUME TypesOK, StagesDone, ReleaseOrder, [Next]_vars
  PROVE  ReleaseOrder'
<1> USE DEF TypesOK
<1>1. ASSUME UNCHANGED <<run, worker>>
      PROVE  ReleaseOrder'
  BY <1>1 DEF ReleaseOrder
<1>2. CASE StartRun
  BY <1>2 DEF StartRun, ReleaseOrder, Workers
<1>3. ASSUME NEW w \in Workers, Publish(w)
      PROVE  ReleaseOrder'
  <2>1. CASE w = "primary"
    <3>1. run.pc = "primary" /\ worker'["analytics"] = worker["analytics"]
      BY <1>3, <2>1, PublishEffect DEF Workers
    <3>2. worker["analytics"].served = worker["analytics"].published
      BY <3>1 DEF ReleaseOrder
    <3>3. QED
      BY <3>1, <3>2 DEF ReleaseOrder
  <2>2. CASE w = "analytics"
    <3>1. run.pc = "analytics" /\ worker'["primary"] = worker["primary"]
      BY <1>3, <2>2, PublishEffect DEF Workers
    <3>2. worker["primary"].served = run.rev /\ worker["primary"].published = run.rev
      BY <3>1 DEF StagesDone
    <3>3. run'.pc \in {"verifyAnalytics", "summary"}
      BY <1>3, <2>2, PublishEffect, StageOfWorker DEF Staged
    <3>4. CASE worker' = [worker EXCEPT !["analytics"].published = run.rev]
      <4>1. worker'["analytics"].published = run.rev
        BY <3>4 DEF Workers
      <4>2. QED
        BY <3>1, <3>2, <3>3, <4>1 DEF ReleaseOrder, Gating
    <3>5. CASE UNCHANGED worker
      BY <3>3, <3>5 DEF ReleaseOrder, Gating
    <3>6. QED
      BY <1>3, <2>2, <3>4, <3>5, PublishEffect
  <2>3. QED
    BY <2>1, <2>2 DEF Workers
<1>4. ASSUME NEW w \in Workers, Propagate(w)
      PROVE  ReleaseOrder'
  <2>1. CASE w = "primary"
    BY <1>4, <2>1 DEF Propagate, ReleaseOrder, Workers
  <2>2. CASE w = "analytics"
    BY <1>4, <2>2 DEF Propagate, ReleaseOrder, Workers
  <2>3. QED
    BY <2>1, <2>2 DEF Workers
<1>5. CASE Summarise
  BY <1>5, IdleFields, OrderKept DEF Summarise, Early, Gating
<1>6. CASE \/ UNCHANGED vars \/ Push \/ RunAgain \/ OperatorApplies
           \/ ReadPrimary \/ ReadAnalytics
  BY <1>1, <1>6 DEF vars, Push, RunAgain, OperatorApplies, ReadPrimary, ReadAnalytics
<1>7. QED
  BY <1>2, <1>3, <1>4, <1>5, <1>6, RunStepOrder DEF Next

-----------------------------------------------------------------------------
(* The drift check: what the Analytics Worker starts to serve meanwhile,   *)
(* the primary Worker serves at that moment.                               *)
LEMMA DriftStep ==
  ASSUME TypesOK, ReleaseOrder, DriftSoFar, DriftOkWasTrue, [Next]_vars
  PROVE  DriftSoFar' /\ DriftOkWasTrue'
<1> USE DEF TypesOK, DriftSoFar, DriftOkWasTrue
<1>1. ASSUME UNCHANGED <<drift, seen>>, worker'["analytics"].served = worker["analytics"].served
      PROVE  DriftSoFar' /\ DriftOkWasTrue'
  BY <1>1
<1>2. ASSUME NEW w \in Workers, Publish(w)
      PROVE  DriftSoFar' /\ DriftOkWasTrue'
  BY <1>1, <1>2, PublishEffect DEF Workers
<1>3. ASSUME NEW w \in Workers, Propagate(w)
      PROVE  DriftSoFar' /\ DriftOkWasTrue'
  <2>1. drift' = drift /\ seen \subseteq seen'
    BY <1>3 DEF Propagate
  <2>2. CASE w = "primary"
    BY <1>3, <2>1, <2>2 DEF Propagate, Workers
  <2>3. CASE w = "analytics" /\ drift.pc = "analytics"
    <3> DEFINE p == worker["analytics"].published
    <3>1. worker["primary"].served = p
      BY <1>3, <2>3 DEF Propagate, ReleaseOrder
    <3>2. worker' = [worker EXCEPT !["analytics"].served = p]
      BY <1>3, <2>3 DEF Propagate
    <3>3. \A v \in Workers : worker'[v].served = p
      BY <3>1, <3>2 DEF Workers
    <3>4. seen' = seen \cup {p}
      BY <1>3, <2>3, <3>3 DEF Propagate
    <3>5. worker'["analytics"].served = p
      BY <3>3 DEF Workers
    <3>6. QED
      BY <2>1, <2>3, <3>4, <3>5
  <2>4. CASE drift.pc # "analytics"
    BY <1>3, <2>1, <2>4
  <2>5. QED
    BY <2>2, <2>3, <2>4 DEF Workers
<1>4. CASE ReadPrimary
  <2>1. /\ drift'.pc = "analytics" /\ drift'.primary = worker["primary"].served
        /\ worker' = worker
    BY <1>4 DEF ReadPrimary, Quiet, Reported
  <2>2. worker["primary"].served \in Commits
    BY DEF Workers
  <2>3. CASE worker["analytics"].served = worker["primary"].served
    <3>1. \A w \in Workers : Reported(w) = worker["primary"].served
      BY <2>3 DEF Workers, Reported
    <3>2. worker["primary"].served \in seen'
      BY <1>4, <2>2, <3>1 DEF ReadPrimary
    <3>3. QED
      BY <2>1, <3>2
  <2>4. QED
    BY <2>1, <2>3
<1>5. CASE ReadAnalytics
  <2>1. /\ drift.pc = "analytics" /\ drift'.primary = drift.primary
        /\ drift'.pc = "done" /\ seen' = seen
    BY <1>5 DEF ReadAnalytics, DriftOK
  <2>2. drift.primary # worker["analytics"].served => drift'.verdict = "split"
    BY <1>5 DEF ReadAnalytics, DriftOK, Reported
  <2>3. QED
    BY <2>1, <2>2
<1>6. CASE \/ UNCHANGED vars \/ Push \/ RunAgain \/ StartRun \/ VerifyTarget
           \/ GateCheck \/ GateList \/ GateApply \/ GateConfirm \/ Summarise
           \/ OperatorApplies \/ \E w \in Workers : Verify(w)
  <2>1. UNCHANGED <<drift, seen, worker>>
    BY <1>6 DEF vars, Push, RunAgain, StartRun, VerifyTarget, GateCheck, GateList,
                GateApply, GateConfirm, Summarise, OperatorApplies, Verify
  <2>2. QED
    BY <1>1, <2>1
<1>7. QED
  BY <1>2, <1>3, <1>4, <1>5, <1>6 DEF Next

LEMMA StepInv ==
  ASSUME Inv, [Next]_vars
  PROVE  Inv'
BY StepTypes, GateStep, SchemaStep, ApprovedStep, StagesStep, OrderStep, DriftStep
   DEF Inv

(* A verdict SUCCESS asks for six stages that succeeded.                   *)
LEMMA SuccessSeen ==
  ASSUME TypesOK, StagesDone
  PROVE  SuccessIsReleased
<1> SUFFICES ASSUME run.pc = "summary", Verdict = "SUCCESS"
             PROVE  /\ ProductionState = "released"
                    /\ \A w \in Workers :
                         worker[w] = [published |-> run.rev, served |-> run.rev]
  BY DEF SuccessIsReleased
<1>1. \A k \in 1..6 : run.outcome[k] \in Results \ {"failure", "skipped"}
  BY StagesSix DEF Verdict, TypesOK, RunOK, Run
<1>2. \A k \in 1..6 : run.outcome[k] = "success"
  BY <1>1 DEF Results
<1>3. ProductionState = "released"
  BY <1>2 DEF ProductionState, Succeeded
<1>4. \A w \in Workers : worker[w].published = run.rev /\ worker[w].served = run.rev
  BY <1>2 DEF StagesDone, Workers
<1>5. QED
  BY <1>3, <1>4 DEF TypesOK

-----------------------------------------------------------------------------
LEMMA InvHolds == Spec => []Inv
BY InitInv, StepInv, PTL DEF Spec

(* A published Worker finds every migration of its commit applied, for     *)
(* whatever commits, migrations, failures, repeated runs and migrations    *)
(* applied by hand.                                                        *)
THEOREM SchemaCovers == Spec => []SchemaCoversWorkers
<1>1. Inv => SchemaCoversWorkers
  BY DEF Inv
<1>2. QED
  BY <1>1, InvHolds, PTL

(* The pipeline applies only migrations that are additive, or approved     *)
(* with the content that is applied: the gate does not look again between  *)
(* the listing and the application, and need not.                          *)
THEOREM AppliedApproved == Spec => []AppliedIsApproved
<1>1. Inv => AppliedIsApproved
  BY DEF Inv
<1>2. QED
  BY <1>1, InvHolds, PTL

(* SUCCESS means that both Workers are published and served at the run's   *)
(* commit.                                                                 *)
THEOREM SuccessReleased == Spec => []SuccessIsReleased
<1>1. Inv => SuccessIsReleased
  BY SuccessSeen DEF Inv
<1>2. QED
  BY <1>1, InvHolds, PTL

(* A drift check without a split has reported a revision that both Workers *)
(* served at one moment of it, because the Analytics Worker is published   *)
(* only when the primary Worker serves the same commit.                    *)
THEOREM DriftTrue == Spec => []DriftOkWasTrue
<1>1. Inv => DriftOkWasTrue
  BY DEF Inv
<1>2. QED
  BY <1>1, InvHolds, PTL
=============================================================================
