---------------------------- MODULE Signals_proofs ----------------------------
(***************************************************************************)
(* Proofs about SignalsCollector for every number of runs, jobs, sources,  *)
(* alerts and observations, and for all limits and times.                  *)
(***************************************************************************)
EXTENDS SignalsCollector, FiniteSetTheorems, TLAPS

StoredBy(x) == {k \in Keys : obs[k] = x}

-----------------------------------------------------------------------------
(* A run that has not outlived its lease has it.                           *)
LeaseOf(x) ==
  /\ proc[x].now <= now
  /\ proc[x].pc \in InTry /\ proc[x].trigger # "review" /\ ~proc[x].late =>
       /\ now < proc[x].now + TTL
       /\ lock[proc[x].job] = [run |-> x, expires |-> proc[x].now + TTL]

(* The alerts a run still has to mail are its own, and nobody has.         *)
MailOf(x) ==
  /\ \A a \in proc[x].created : alerts[a] = x /\ mail[a].accepted = 0
  /\ proc[x].pc = "mailed" =>
       LET a == proc[x].alert IN
       /\ a \in Alerts \ proc[x].created /\ alerts[a] = x
       /\ proc[x].sent => mail[a].accepted = 1

(* What a run has counted is what it has stored, except for the source at  *)
(* hand when it is aborted.                                                *)
AddedOf(x) ==
  /\ proc[x].pc \in {"new", "acquire", "sources", "interval", "reserve"} =>
       /\ runs[x].status = "none" /\ StoredBy(x) = {}
       /\ proc[x].added = 0 /\ proc[x].here = 0
  /\ proc[x].pc \in {"collect", "insert"} =>
       /\ runs[x].status = "running"
       /\ proc[x].added + proc[x].here = Cardinality(StoredBy(x))
       /\ proc[x].pc = "collect" => proc[x].here = 0
  /\ proc[x].pc = "abort" =>
       /\ runs[x].status = "running"
       /\ proc[x].added <= Cardinality(StoredBy(x))
  /\ runs[x].status \in {"ok", "partial"} => runs[x].added = Cardinality(StoredBy(x))
  /\ runs[x].status = "failed" => runs[x].added <= Cardinality(StoredBy(x))

ProcOK(x) == LeaseOf(x) /\ MailOf(x) /\ AddedOf(x)

MailOK ==
  /\ MailedOnce
  /\ \A a \in Alerts : alerts[a] = None => mail[a].accepted = 0

Reserved == {x \in Runs : runs[x].status # "none"}

RunsOK == IsFiniteSet(Reserved) /\ ManualBudget

(* The inductive invariant.                                                *)
Inv ==
  /\ TypeOK
  /\ \A x \in Runs : ProcOK(x)
  /\ MailOK
  /\ RunsOK

-----------------------------------------------------------------------------
Stages ==
  {"new", "acquire", "sources", "interval", "reserve", "collect", "insert", "abort",
   "alerts", "deliver", "mailed", "release", "end"}

LEMMA NewType ==
  /\ New \in Proc /\ New.pc = "new" /\ New.now = 0 /\ New.created = {}
  /\ New.added = 0 /\ New.here = 0 /\ AnyJob \in Jobs
<1>1. AnyJob \in Jobs
  BY ConstantsAssumption DEF AnyJob
<1> DEFINE no == FALSE
<1>2. no \in BOOLEAN
  OBVIOUS
<1>3. New = [pc |-> "new", job |-> AnyJob, trigger |-> "cron", now |-> 0,
             left |-> {}, rows |-> {}, ok |-> no, bad |-> no, here |-> 0, added |-> 0,
             created |-> {}, alert |-> None, sent |-> no, late |-> no]
  BY DEF New
<1> HIDE DEF no
<1>4. QED
  BY <1>1, <1>2, <1>3 DEF Proc, Triggers

LEMMA Moved ==
  ASSUME TypeOK, NEW x \in Runs, NEW new \in Proc, proc' = [proc EXCEPT ![x] = new]
  PROVE  /\ proc' \in [Runs -> Proc] /\ proc'[x] = new
         /\ \A y \in Runs \ {x} : proc'[y] = proc[y]
BY DEF TypeOK

LEMMA EndMoves ==
  ASSUME TypeOK, NEW x \in Runs, End(x)
  PROVE  /\ proc' \in [Runs -> Proc]
         /\ proc'[x].pc = "end" /\ proc'[x].created = {} /\ proc'[x].now = 0
         /\ \A y \in Runs \ {x} : proc'[y] = proc[y]
<1> DEFINE late == proc[x].late
           new == [New EXCEPT !.pc = "end", !.late = late]
<1>1. late \in BOOLEAN
  BY DEF TypeOK, Proc
<1>2. proc' = [proc EXCEPT ![x] = new]
  BY DEF End
<1> HIDE DEF late
<1>3. new \in Proc /\ new.pc = "end" /\ new.created = {} /\ new.now = 0
  BY <1>1, NewType DEF Proc
<1> HIDE DEF new
<1>4. QED
  BY <1>2, <1>3, Moved

LEMMA GotoMoves ==
  ASSUME TypeOK, NEW x \in Runs, NEW pc \in Stages, Goto(x, pc)
  PROVE  /\ proc' \in [Runs -> Proc]
         /\ proc'[x].pc = pc /\ proc'[x].job = proc[x].job
         /\ proc'[x].trigger = proc[x].trigger /\ proc'[x].now = proc[x].now
         /\ proc'[x].late = proc[x].late /\ proc'[x].created = proc[x].created
         /\ proc'[x].added = proc[x].added /\ proc'[x].here = proc[x].here
         /\ \A y \in Runs \ {x} : proc'[y] = proc[y]
<1> DEFINE p == proc[x]
           new == [p EXCEPT !.pc = pc]
<1>1. proc' = [proc EXCEPT ![x] = new] /\ p \in Proc
  BY DEF Goto, TypeOK
<1> HIDE DEF p
<1>2. new \in Proc
  BY <1>1 DEF Proc, Stages
<1>3. /\ new.pc = pc /\ new.job = p.job /\ new.trigger = p.trigger
      /\ new.now = p.now /\ new.late = p.late /\ new.created = p.created
      /\ new.added = p.added /\ new.here = p.here
  BY <1>1 DEF Proc
<1> HIDE DEF new
<1>4. QED
  BY <1>1, <1>2, <1>3, Moved DEF p

(* What a promise depends on.                                              *)
LEMMA StoredKept ==
  ASSUME NEW y, UNCHANGED obs
  PROVE  StoredBy(y)' = StoredBy(y)
BY DEF StoredBy

LEMMA LeaseKept ==
  ASSUME NEW y, LeaseOf(y), UNCHANGED <<now, lock>>, proc'[y] = proc[y]
  PROVE  LeaseOf(y)'
BY DEF LeaseOf

LEMMA MailKept ==
  ASSUME NEW y, MailOf(y), UNCHANGED <<alerts, mail>>,
         proc'[y].created = proc[y].created, proc'[y].alert = proc[y].alert,
         proc'[y].sent = proc[y].sent, proc'[y].pc = proc[y].pc
  PROVE  MailOf(y)'
BY DEF MailOf

LEMMA AddedKept ==
  ASSUME NEW y, AddedOf(y), runs'[y] = runs[y], StoredBy(y)' = StoredBy(y),
         proc'[y].added = proc[y].added, proc'[y].here = proc[y].here,
         proc'[y].pc = proc[y].pc
  PROVE  AddedOf(y)'
BY DEF AddedOf

(* A step of a run that leaves every table alone.                          *)
LEMMA LocalStep ==
  ASSUME Inv, NEW x \in Runs, UNCHANGED <<now, tables>>, proc' \in [Runs -> Proc],
         \A y \in Runs \ {x} : proc'[y] = proc[y], ProcOK(x)'
  PROVE  Inv'
<1> USE DEF Inv, tables
<1>1. TypeOK'
  BY DEF TypeOK
<1>2. \A y \in Runs \ {x} : ProcOK(y)'
  BY DEF ProcOK, LeaseOf, MailOf, AddedOf, StoredBy
<1>3. MailOK' /\ RunsOK'
  BY DEF MailOK, MailedOnce, RunsOK, Reserved, ManualBudget
<1>4. QED
  BY <1>1, <1>2, <1>3

Before == {"new", "acquire", "sources", "interval", "reserve"}

(* ... and goes on, or back, as far as its promises allow.                 *)
LEMMA LocalProcOK ==
  ASSUME Inv, NEW x \in Runs, UNCHANGED <<now, tables>>, proc'[x].now <= now,
         proc'[x].pc \in InTry =>
           /\ proc[x].pc \in InTry /\ proc'[x].trigger = proc[x].trigger
           /\ proc'[x].late = proc[x].late /\ proc'[x].now = proc[x].now
           /\ proc'[x].job = proc[x].job,
         proc'[x].created \subseteq proc[x].created, proc'[x].pc # "mailed",
         proc'[x].pc \in Before =>
           proc[x].pc \in Before /\ proc'[x].added = 0 /\ proc'[x].here = 0,
         proc'[x].pc \in {"collect", "insert"} =>
           /\ proc[x].pc \in {"collect", "insert"}
           /\ proc'[x].added + proc'[x].here = proc[x].added + proc[x].here
           /\ proc'[x].pc = "collect" => proc'[x].here = 0,
         proc'[x].pc = "abort" =>
           proc[x].pc \in {"collect", "insert"} /\ proc'[x].added = proc[x].added
  PROVE  ProcOK(x)'
<1> USE DEF Inv, tables
<1>1. LeaseOf(x)'
  BY DEF ProcOK, LeaseOf
<1>2. MailOf(x)'
  BY DEF ProcOK, MailOf
<1>3. AddedOf(x)'
  <2>1. proc[x].added \in Nat /\ proc[x].here \in Nat
    BY DEF TypeOK, Proc
  <2>2. proc'[x].pc = "abort" =>
          runs[x].status = "running" /\ proc'[x].added <= Cardinality(StoredBy(x))
    BY <2>1 DEF ProcOK, AddedOf
  <2>3. proc'[x].pc \in {"collect", "insert"} =>
          /\ runs[x].status = "running"
          /\ proc'[x].added + proc'[x].here = Cardinality(StoredBy(x))
    BY DEF ProcOK, AddedOf
  <2>4. proc'[x].pc \in Before => runs[x].status = "none" /\ StoredBy(x) = {}
    BY DEF ProcOK, AddedOf, Before
  <2>5. AddedOf(x)
    BY DEF ProcOK
  <2>6. StoredBy(x)' = StoredBy(x)
    BY DEF StoredBy
  <2>7. QED
    BY <2>2, <2>3, <2>4, <2>5, <2>6 DEF AddedOf, Before
<1>4. QED
  BY <1>1, <1>2, <1>3 DEF ProcOK

LEMMA GotoStep ==
  ASSUME Inv, NEW x \in Runs, NEW pc \in Stages, Goto(x, pc), UNCHANGED <<now, tables>>,
         pc \in InTry => proc[x].pc \in InTry, pc # "mailed",
         pc \in Before => proc[x].pc \in Before,
         pc \notin {"collect", "insert"},
         pc = "abort" => proc[x].pc \in {"collect", "insert"}
  PROVE  Inv'
<1> USE DEF Inv
<1>1. proc[x].now <= now /\ (proc[x].pc \in Before => proc[x].added = 0 /\ proc[x].here = 0)
  BY DEF ProcOK, LeaseOf, AddedOf, Before
<1>2. ProcOK(x)'
  BY <1>1, GotoMoves, LocalProcOK
<1>3. QED
  BY <1>2, GotoMoves, LocalStep

LEMMA EndStep ==
  ASSUME Inv, NEW x \in Runs, End(x), UNCHANGED <<now, tables>>
  PROVE  Inv'
<1> USE DEF Inv
<1>1. 0 <= now
  BY DEF TypeOK
<1>2. ProcOK(x)'
  BY <1>1, EndMoves, LocalProcOK DEF InTry, Before
<1>3. QED
  BY <1>2, EndMoves, LocalStep

-----------------------------------------------------------------------------
(* The steps that touch no table.                                          *)
LEMMA BeginStep ==
  ASSUME Inv, NEW x \in Runs, NEW job \in Jobs, NEW trigger \in {"cron", "manual"},
         Begin(x, job, trigger)
  PROVE  Inv'
<1> USE DEF Inv
<1> DEFINE p == proc[x]
           new == [p EXCEPT !.pc = "acquire", !.job = job, !.trigger = trigger, !.now = now]
<1>1. proc' = [proc EXCEPT ![x] = new] /\ p \in Proc /\ now \in Nat
  BY DEF Begin, TypeOK
<1> HIDE DEF p
<1>2. new \in Proc
  BY <1>1 DEF Proc, Triggers
<1>3. /\ new.pc = "acquire" /\ new.now = now /\ new.created = p.created
      /\ new.added = p.added /\ new.here = p.here
  BY <1>1 DEF Proc
<1> HIDE DEF new
<1>4. p.pc = "new" /\ p.added = 0 /\ p.here = 0 /\ now <= now
  BY <1>1 DEF p, Begin, ProcOK, AddedOf
<1>5. ProcOK(x)'
  BY <1>1, <1>2, <1>3, <1>4, Moved, LocalProcOK DEF p, Begin, InTry, Before
<1>6. QED
  BY <1>1, <1>2, <1>5, Moved, LocalStep DEF Begin

LEMMA ReadSourcesStep ==
  ASSUME Inv, NEW x \in Runs, NEW active \in SUBSET Sources, ReadSources(x, active)
  PROVE  Inv'
<1> USE DEF Inv
<1> DEFINE p == proc[x]
           pc == IF active = {} THEN "alerts"
                 ELSE IF p.trigger = "cron" THEN "interval" ELSE "reserve"
           new == [p EXCEPT !.left = active, !.pc = pc]
<1>1. proc' = [proc EXCEPT ![x] = new] /\ p \in Proc
  BY DEF ReadSources, TypeOK
<1> HIDE DEF p
<1>2. pc \in {"alerts", "interval", "reserve"}
  OBVIOUS
<1> HIDE DEF pc
<1>3. new \in Proc
  BY <1>1, <1>2 DEF Proc
<1>4. /\ new.pc = pc /\ new.now = p.now /\ new.created = p.created /\ new.job = p.job
      /\ new.trigger = p.trigger /\ new.late = p.late
      /\ new.added = p.added /\ new.here = p.here
  BY <1>1 DEF Proc
<1> HIDE DEF new
<1>5. p.pc = "sources" /\ p.added = 0 /\ p.here = 0 /\ p.now <= now
  BY DEF p, ReadSources, ProcOK, AddedOf, LeaseOf
<1>6. ProcOK(x)'
  BY <1>1, <1>2, <1>3, <1>4, <1>5, Moved, LocalProcOK DEF p, ReadSources, InTry, Before
<1>7. QED
  BY <1>1, <1>3, <1>6, Moved, LocalStep DEF ReadSources

LEMMA SourceFailedStep ==
  ASSUME Inv, NEW x \in Runs, NEW s \in Sources, SourceFailed(x, s)
  PROVE  Inv'
<1> USE DEF Inv
<1> DEFINE p == proc[x]
           new == [p EXCEPT !.left = p.left \ {s}, !.bad = TRUE]
<1>1. proc' = [proc EXCEPT ![x] = new] /\ p \in Proc
  BY DEF SourceFailed, TypeOK
<1> HIDE DEF p
<1>2. new \in Proc
  BY <1>1 DEF Proc
<1>3. /\ new.pc = p.pc /\ new.now = p.now /\ new.created = p.created /\ new.job = p.job
      /\ new.trigger = p.trigger /\ new.late = p.late
      /\ new.added = p.added /\ new.here = p.here
  BY <1>1 DEF Proc
<1> HIDE DEF new
<1>4. p.pc = "collect" /\ p.here = 0 /\ p.now <= now
  BY DEF p, SourceFailed, ProcOK, AddedOf, LeaseOf
<1>5. ProcOK(x)'
  BY <1>1, <1>2, <1>3, <1>4, Moved, LocalProcOK DEF p, SourceFailed, InTry, Before
<1>6. QED
  BY <1>1, <1>2, <1>5, Moved, LocalStep DEF SourceFailed

LEMMA SourceFetchedStep ==
  ASSUME Inv, NEW x \in Runs, NEW s \in Sources, NEW rows \in SUBSET Keys,
         NEW rejected \in BOOLEAN, SourceFetched(x, s, rows, rejected)
  PROVE  Inv'
<1> USE DEF Inv
<1> DEFINE p == proc[x]
           ok == p.ok \/ (~rejected /\ rows # {})
           bad == p.bad \/ rejected \/ rows = {}
           new == [p EXCEPT !.pc = "insert", !.left = p.left \ {s}, !.rows = rows,
                            !.ok = ok, !.bad = bad]
<1>1. proc' = [proc EXCEPT ![x] = new] /\ p \in Proc
  BY DEF SourceFetched, TypeOK
<1>2. ok \in BOOLEAN /\ bad \in BOOLEAN
  OBVIOUS
<1> HIDE DEF p, ok, bad
<1>3. new \in Proc
  BY <1>1, <1>2 DEF Proc
<1>4. /\ new.pc = "insert" /\ new.now = p.now /\ new.created = p.created
      /\ new.job = p.job /\ new.trigger = p.trigger /\ new.late = p.late
      /\ new.added = p.added /\ new.here = p.here
  BY <1>1 DEF Proc
<1> HIDE DEF new
<1>5. p.pc = "collect" /\ p.now <= now
  BY DEF p, SourceFetched, ProcOK, LeaseOf
<1>6. ProcOK(x)'
  BY <1>1, <1>3, <1>4, <1>5, Moved, LocalProcOK DEF p, SourceFetched, InTry, Before
<1>7. QED
  BY <1>1, <1>3, <1>6, Moved, LocalStep DEF SourceFetched

LEMMA SourceDoneStep ==
  ASSUME Inv, NEW x \in Runs, SourceDone(x)
  PROVE  Inv'
<1> USE DEF Inv
<1> DEFINE p == proc[x]
           added == p.added + p.here
           new == [p EXCEPT !.pc = "collect", !.here = 0, !.added = added]
<1>1. proc' = [proc EXCEPT ![x] = new] /\ p \in Proc
  BY DEF SourceDone, TypeOK
<1> HIDE DEF p
<1>2. added \in Nat /\ added + 0 = p.added + p.here
  BY <1>1 DEF Proc
<1> HIDE DEF added
<1>3. new \in Proc
  BY <1>1, <1>2 DEF Proc
<1>4. /\ new.pc = "collect" /\ new.now = p.now /\ new.created = p.created
      /\ new.job = p.job /\ new.trigger = p.trigger /\ new.late = p.late
      /\ new.added = added /\ new.here = 0
  BY <1>1 DEF Proc
<1> HIDE DEF new
<1>5. p.pc = "insert" /\ p.now <= now
  BY DEF p, SourceDone, ProcOK, LeaseOf
<1>6. ProcOK(x)'
  BY <1>1, <1>2, <1>3, <1>4, <1>5, Moved, LocalProcOK DEF p, SourceDone, InTry, Before
<1>7. QED
  BY <1>1, <1>3, <1>6, Moved, LocalStep DEF SourceDone

LEMMA StartDeliveryStep ==
  ASSUME Inv, NEW x \in Runs, NEW enabled \in BOOLEAN, StartDelivery(x, enabled)
  PROVE  Inv'
<1> USE DEF Inv
<1> DEFINE p == proc[x]
           created == IF enabled THEN p.created ELSE {}
           new == [p EXCEPT !.pc = "deliver", !.created = created]
<1>1. proc' = [proc EXCEPT ![x] = new] /\ p \in Proc
  BY DEF StartDelivery, TypeOK
<1> HIDE DEF p
<1>2. created \subseteq p.created
  OBVIOUS
<1> HIDE DEF created
<1>3. new \in Proc
  BY <1>1, <1>2 DEF Proc
<1>4. /\ new.pc = "deliver" /\ new.now = p.now /\ new.created = created
      /\ new.job = p.job /\ new.trigger = p.trigger /\ new.late = p.late
      /\ new.added = p.added /\ new.here = p.here
  BY <1>1, <1>2 DEF Proc
<1> HIDE DEF new
<1>5. p.pc = "alerts" /\ p.now <= now
  BY DEF p, StartDelivery, ProcOK, LeaseOf
<1>6. ProcOK(x)'
  BY <1>1, <1>2, <1>3, <1>4, <1>5, Moved, LocalProcOK DEF p, StartDelivery, InTry, Before
<1>7. QED
  BY <1>1, <1>3, <1>6, Moved, LocalStep DEF StartDelivery

LEMMA JumpSteps ==
  ASSUME Inv, NEW x \in Runs,
         RecentRun(x) \/ RateLimited(x) \/ Delivered(x) \/ Fail(x)
  PROVE  Inv'
<1>1. CASE RecentRun(x)
  <2>1. PICK pc \in {"release", "reserve"} : Goto(x, pc)
    BY <1>1 DEF RecentRun
  <2>2. QED
    BY <1>1, <2>1, GotoStep DEF RecentRun, Stages, InTry, Before
<1>2. CASE RateLimited(x)
  BY <1>2, GotoStep DEF RateLimited, Stages, InTry, Before
<1>3. CASE Delivered(x)
  BY <1>3, GotoStep DEF Delivered, Stages, InTry, Before
<1>4. CASE Fail(x)
  <2>1. PICK pc \in {"abort", "release"} :
          Goto(x, pc) /\ (pc = "abort" => proc[x].pc \in {"collect", "insert"})
    BY <1>4 DEF Fail
  <2>2. QED
    BY <1>4, <2>1, GotoStep DEF Fail, Stages, InTry, Before
<1>5. QED
  BY <1>1, <1>2, <1>3, <1>4

LEMMA EndSteps ==
  ASSUME Inv, NEW x \in Runs, LeaseHeld(x) \/ Die(x)
  PROVE  Inv'
BY EndStep DEF LeaseHeld, Die

-----------------------------------------------------------------------------
(* The clock and the lease.                                                *)
LEMMA TickStep ==
  ASSUME Inv, Tick
  PROVE  Inv'
<1> USE DEF Inv, tables
<1> DEFINE late(y) == proc[y].late \/ (proc[y].pc \in InTry /\ now' >= proc[y].now + TTL)
<1>1. now' = now + 1 /\ now \in Nat /\ TTL \in Nat
  BY ConstantsAssumption DEF Tick, TypeOK
<1>2. \A y \in Runs : late(y) \in BOOLEAN
  OBVIOUS
<1>3. proc' = [y \in Runs |-> [proc[y] EXCEPT !.late = late(y)]]
  BY DEF Tick
<1>4. ASSUME NEW y \in Runs
      PROVE  proc'[y] \in Proc /\ ProcOK(y)'
  <2> DEFINE p == proc[y]
             l == late(y)
             new == [p EXCEPT !.late = l]
  <2>1. p \in Proc /\ l \in BOOLEAN /\ proc'[y] = new
    BY <1>2, <1>3, <1>4 DEF TypeOK
  <2> HIDE DEF p, l, late
  <2>2. new \in Proc
    BY <2>1 DEF Proc
  <2>3. /\ new.pc = p.pc /\ new.job = p.job /\ new.trigger = p.trigger
        /\ new.now = p.now /\ new.created = p.created /\ new.alert = p.alert
        /\ new.sent = p.sent /\ new.added = p.added /\ new.here = p.here
    BY <2>1 DEF Proc
  <2>4. new.late = l /\ p.now \in Nat
    BY <2>1 DEF Proc
  <2> HIDE DEF new
  <2>5. ~l => ~proc[y].late /\ (p.pc \in InTry => ~(now' >= p.now + TTL))
    BY DEF l, late, p
  <2>6. LeaseOf(y)'
    BY <1>1, <1>4, <2>1, <2>3, <2>4, <2>5 DEF p, ProcOK, LeaseOf, Tick
  <2>7. MailOf(y)' /\ AddedOf(y)'
    BY <1>4, <2>1, <2>3, StoredKept, MailKept, AddedKept DEF p, ProcOK, Tick
  <2>8. QED
    BY <2>1, <2>2, <2>6, <2>7 DEF ProcOK
<1> HIDE DEF late
<1>5. TypeOK'
  <2> DEFINE new(y) == [proc[y] EXCEPT !.late = late(y)]
  <2>1. proc' = [y \in Runs |-> new(y)]
    BY <1>3
  <2> HIDE DEF new
  <2>2. proc' \in [Runs -> Proc]
    BY <1>4, <2>1
  <2>3. QED
    BY <1>1, <2>2 DEF TypeOK, Tick
<1>6. MailOK' /\ RunsOK'
  BY DEF Tick, MailOK, MailedOnce, RunsOK, Reserved, ManualBudget
<1>7. QED
  BY <1>4, <1>5, <1>6

LEMMA AcquireStep ==
  ASSUME Inv, NEW x \in Runs, AcquireLease(x)
  PROVE  Inv'
<1> USE DEF Inv
<1> DEFINE p == proc[x]
           late == Expired(x)
           new == [p EXCEPT !.pc = "sources", !.late = late]
           held == [run |-> x, expires |-> p.now + TTL]
<1>1. /\ proc' = [proc EXCEPT ![x] = new] /\ p \in Proc /\ p.job \in Jobs
      /\ lock' = [lock EXCEPT ![p.job] = held] /\ lock \in [Jobs -> Lock]
      /\ p.now \in Nat /\ TTL \in Nat /\ now \in Nat
  BY ConstantsAssumption DEF AcquireLease, TypeOK, Proc
<1>2. late \in BOOLEAN /\ (~late => now < p.now + TTL)
  BY <1>1 DEF Expired
<1>3. held \in Lock
  BY <1>1 DEF Lock
<1>4. lock' \in [Jobs -> Lock] /\ lock'[p.job] = held
      /\ \A j \in Jobs \ {p.job} : lock'[j] = lock[j]
  BY <1>1, <1>3
<1>5. p.pc = "acquire" /\ (lock[p.job].run = None \/ lock[p.job].expires <= p.now)
  BY DEF AcquireLease
<1> HIDE DEF p, late, held
<1>6. new \in Proc
  BY <1>1, <1>2 DEF Proc
<1>7. /\ new.pc = "sources" /\ new.now = p.now /\ new.created = p.created
      /\ new.job = p.job /\ new.trigger = p.trigger /\ new.late = late
      /\ new.added = p.added /\ new.here = p.here
  BY <1>1, <1>2 DEF Proc
<1> HIDE DEF new
<1>8. proc' \in [Runs -> Proc] /\ proc'[x] = new /\ \A y \in Runs \ {x} : proc'[y] = proc[y]
  BY <1>1, <1>6, Moved
<1>9. TypeOK'
  BY <1>4, <1>8 DEF TypeOK, AcquireLease
<1>10. ProcOK(x)'
  <2>1. LeaseOf(x)'
    BY <1>2, <1>4, <1>7, <1>8 DEF p, held, ProcOK, LeaseOf, AcquireLease
  <2>2. MailOf(x)' /\ AddedOf(x)'
    BY <1>5, <1>7, <1>8, StoredKept DEF p, ProcOK, MailOf, AddedOf, AcquireLease
  <2>3. QED
    BY <2>1, <2>2 DEF ProcOK
<1>11. ASSUME NEW y \in Runs \ {x} PROVE ProcOK(y)'
  <2>1. proc[y].job \in Jobs /\ proc[y].now \in Nat
    BY <1>11 DEF TypeOK, Proc
  <2>2. p.now <= now /\ None \notin Runs
    BY ConstantsAssumption DEF p, ProcOK, LeaseOf
  <2>3. lock[proc[y].job] = [run |-> y, expires |-> proc[y].now + TTL]
          /\ now < proc[y].now + TTL => proc[y].job # p.job
    BY <1>1, <1>5, <1>11, <2>1, <2>2
  <2>4. LeaseOf(y)'
    BY <1>4, <1>8, <1>11, <2>1, <2>3 DEF ProcOK, LeaseOf, AcquireLease
  <2>5. MailOf(y)' /\ AddedOf(y)'
    BY <1>8, <1>11, StoredKept, MailKept, AddedKept DEF ProcOK, AcquireLease
  <2>6. QED
    BY <2>4, <2>5 DEF ProcOK
<1>12. MailOK' /\ RunsOK'
  BY DEF AcquireLease, MailOK, MailedOnce, RunsOK, Reserved, ManualBudget
<1>13. QED
  BY <1>9, <1>10, <1>11, <1>12

LEMMA ReleaseStep ==
  ASSUME Inv, NEW x \in Runs, ReleaseLease(x)
  PROVE  Inv'
<1> USE DEF Inv
<1> DEFINE j == proc[x].job
           left == IF lock[j].run = x THEN NoLock ELSE lock[j]
<1>1. /\ j \in Jobs /\ lock' = [lock EXCEPT ![j] = left] /\ lock \in [Jobs -> Lock]
      /\ now \in Nat
  BY DEF ReleaseLease, TypeOK, Proc
<1>2. left \in Lock
  BY <1>1 DEF Lock, NoLock
<1>3. lock' \in [Jobs -> Lock] /\ \A y \in Runs \ {x}, k \in Jobs :
        lock[k].run = y => lock'[k] = lock[k]
  BY <1>1, <1>2
<1> HIDE DEF j, left
<1>4. /\ proc' \in [Runs -> Proc]
      /\ proc'[x].pc = "end" /\ proc'[x].created = {} /\ proc'[x].now = 0
      /\ \A y \in Runs \ {x} : proc'[y] = proc[y]
  BY EndMoves DEF ReleaseLease
<1>5. TypeOK'
  BY <1>3, <1>4 DEF TypeOK, ReleaseLease
<1>6. ProcOK(x)'
  <2>1. LeaseOf(x)'
    BY <1>1, <1>4 DEF LeaseOf, InTry, ReleaseLease
  <2>2. MailOf(x)' /\ AddedOf(x)'
    BY <1>4, StoredKept DEF ProcOK, MailOf, AddedOf, ReleaseLease
  <2>3. QED
    BY <2>1, <2>2 DEF ProcOK
<1>7. ASSUME NEW y \in Runs \ {x} PROVE ProcOK(y)'
  <2>1. proc[y].job \in Jobs
    BY <1>7 DEF TypeOK, Proc
  <2>2. LeaseOf(y)'
    BY <1>3, <1>4, <1>7, <2>1 DEF ProcOK, LeaseOf, ReleaseLease
  <2>3. MailOf(y)' /\ AddedOf(y)'
    BY <1>4, <1>7, StoredKept, MailKept, AddedKept DEF ProcOK, ReleaseLease
  <2>4. QED
    BY <2>2, <2>3 DEF ProcOK
<1>8. MailOK' /\ RunsOK'
  BY DEF ReleaseLease, MailOK, MailedOnce, RunsOK, Reserved, ManualBudget
<1>9. QED
  BY <1>5, <1>6, <1>7, <1>8

-----------------------------------------------------------------------------
(* The rows of the runs.                                                   *)
ManualFrom(t) ==
  {x \in Runs : /\ runs[x].status # "none" /\ runs[x].trigger = "manual"
                /\ runs[x].started \in t .. t + Window}

(* A step that reserves no run leaves the budget as it is.                 *)
LEMMA BudgetKept ==
  ASSUME RunsOK,
         \A y \in Runs : /\ runs'[y].status = "none" <=> runs[y].status = "none"
                         /\ runs'[y].trigger = runs[y].trigger
                         /\ runs'[y].started = runs[y].started
  PROVE  RunsOK'
<1>1. Reserved' = Reserved
  BY DEF Reserved
<1>2. \A t \in 0 .. MaxTime : ManualFrom(t)' = ManualFrom(t)
  BY DEF ManualFrom
<1>3. ManualBudget = \A t \in 0 .. MaxTime : Cardinality(ManualFrom(t)) <= ManualLimit
  BY DEF ManualBudget, ManualFrom
<1>4. ManualBudget' = \A t \in 0 .. MaxTime : Cardinality(ManualFrom(t)') <= ManualLimit
  BY DEF ManualBudget, ManualFrom
<1>5. QED
  BY <1>1, <1>2, <1>3, <1>4 DEF RunsOK

LEMMA BudgetReserved ==
  ASSUME TypeOK, RunsOK, NEW x \in Runs, Reserve(x), runs[x].status = "none"
  PROVE  RunsOK'
<1> DEFINE p == proc[x]
           row == [status |-> "running", trigger |-> p.trigger,
                   job |-> p.job, started |-> p.now, added |-> 0]
<1>1. /\ runs'[x] = row /\ \A y \in Runs \ {x} : runs'[y] = runs[y]
      /\ p.now \in Nat /\ Window \in Nat /\ ManualLimit \in Nat
  BY ConstantsAssumption DEF Reserve, TypeOK, Proc
<1>2. row.status = "running" /\ row.trigger = p.trigger /\ row.started = p.now
  OBVIOUS
<1>3. p.trigger = "manual" => Cardinality(ManualRuns(x)) < ManualLimit
  BY DEF Reserve
<1> HIDE DEF row
<1>4. IsFiniteSet(Reserved')
  <2>1. Reserved' = Reserved \cup {x}
    BY <1>1, <1>2 DEF Reserved
  <2>2. QED
    BY <2>1, FS_AddElement DEF RunsOK
<1>5. ASSUME NEW t \in 0 .. MaxTime
      PROVE  Cardinality(ManualFrom(t)') <= ManualLimit
  <2>1. Cardinality(ManualFrom(t)) <= ManualLimit
    BY <1>5 DEF RunsOK, ManualBudget, ManualFrom
  <2>2. CASE p.trigger = "manual" /\ p.now \in t .. t + Window
    <3>1. \A y \in Runs : runs[y].started \in Nat
      BY DEF TypeOK, RunRow
    <3>2. ManualFrom(t) \subseteq ManualRuns(x)
      BY <1>1, <1>5, <2>2, <3>1, ConstantsAssumption DEF ManualFrom, ManualRuns, p
    <3>3. ManualRuns(x) \subseteq Reserved
      BY DEF ManualRuns, Reserved
    <3>4. IsFiniteSet(ManualRuns(x))
      BY <3>3, FS_Subset DEF RunsOK
    <3>5. IsFiniteSet(ManualFrom(t)) /\ Cardinality(ManualFrom(t)) <= Cardinality(ManualRuns(x))
      BY <3>2, <3>4, FS_Subset
    <3>6. ManualFrom(t)' = ManualFrom(t) \cup {x}
      BY <1>1, <1>2, <2>2 DEF ManualFrom
    <3> DEFINE S == ManualFrom(t)
    <3>7. /\ Cardinality(S) \in Nat /\ Cardinality(ManualRuns(x)) \in Nat
          /\ Cardinality(S) <= Cardinality(ManualRuns(x))
      BY <3>4, <3>5, FS_CardinalityType
    <3>8. Cardinality(S \cup {x}) = IF x \in S THEN Cardinality(S) ELSE Cardinality(S) + 1
      BY <3>5, FS_AddElement
    <3> HIDE DEF S
    <3>9. Cardinality(S \cup {x}) <= ManualLimit
      BY <1>1, <1>3, <2>2, <3>7, <3>8
    <3>10. QED
      BY <3>6, <3>9 DEF S
  <2>3. CASE ~(p.trigger = "manual" /\ p.now \in t .. t + Window)
    <3>1. ManualFrom(t)' = ManualFrom(t)
      BY <1>1, <1>2, <2>3 DEF ManualFrom
    <3>2. QED
      BY <2>1, <3>1
  <2>4. QED
    BY <2>2, <2>3
<1>6. ManualBudget' = \A t \in 0 .. MaxTime : Cardinality(ManualFrom(t)') <= ManualLimit
  BY DEF ManualBudget, ManualFrom
<1>7. QED
  BY <1>4, <1>5, <1>6 DEF RunsOK

LEMMA ReserveStep ==
  ASSUME Inv, NEW x \in Runs, Reserve(x)
  PROVE  Inv'
<1> USE DEF Inv
<1> DEFINE p == proc[x]
           row == [status |-> "running", trigger |-> p.trigger,
                   job |-> p.job, started |-> p.now, added |-> 0]
<1>1. /\ runs' = [runs EXCEPT ![x] = row] /\ runs \in [Runs -> RunRow]
      /\ p \in Proc /\ p.pc = "reserve"
  BY DEF Reserve, TypeOK
<1>2. row \in RunRow /\ row.status = "running"
  BY <1>1 DEF RunRow, Proc
<1> HIDE DEF row
<1>3. runs' \in [Runs -> RunRow] /\ runs'[x] = row /\ \A y \in Runs \ {x} : runs'[y] = runs[y]
  BY <1>1, <1>2
<1>4. /\ runs[x].status = "none" /\ StoredBy(x) = {}
      /\ p.added = 0 /\ p.here = 0
  BY <1>1 DEF p, ProcOK, AddedOf
<1>5. /\ proc' \in [Runs -> Proc]
      /\ proc'[x].pc = "collect" /\ proc'[x].job = p.job
      /\ proc'[x].trigger = p.trigger /\ proc'[x].now = p.now
      /\ proc'[x].late = p.late /\ proc'[x].created = p.created
      /\ proc'[x].added = p.added /\ proc'[x].here = p.here
      /\ \A y \in Runs \ {x} : proc'[y] = proc[y]
  BY GotoMoves DEF p, Reserve, Stages
<1>6. TypeOK'
  BY <1>3, <1>5 DEF TypeOK, Reserve
<1>7. ProcOK(x)'
  <2>1. LeaseOf(x)'
    BY <1>1, <1>5 DEF p, ProcOK, LeaseOf, InTry, Reserve
  <2>2. MailOf(x)'
    BY <1>5 DEF p, ProcOK, MailOf, Reserve
  <2>3. StoredBy(x)' = {} /\ Cardinality({}) = 0
    BY <1>4, StoredKept, FS_EmptySet DEF Reserve
  <2>4. AddedOf(x)'
    BY <1>2, <1>3, <1>4, <1>5, <2>3 DEF AddedOf
  <2>5. QED
    BY <2>1, <2>2, <2>4 DEF ProcOK
<1>8. ASSUME NEW y \in Runs \ {x} PROVE ProcOK(y)'
  BY <1>3, <1>5, <1>8, StoredKept, LeaseKept, MailKept, AddedKept DEF ProcOK, Reserve
<1>9. MailOK' /\ RunsOK'
  BY <1>4, BudgetReserved DEF Reserve, MailOK, MailedOnce
<1>10. QED
  BY <1>6, <1>7, <1>8, <1>9

(* A run ends with a status and with what it has added.                    *)
LEMMA CloseStep ==
  ASSUME Inv, NEW x \in Runs, NEW status \in {"ok", "partial", "failed"},
         NEW pc \in {"alerts", "release"}, Goto(x, pc),
         proc[x].pc \in {"collect", "abort"},
         status \in {"ok", "partial"} => proc[x].pc = "collect",
         runs' = [runs EXCEPT ![x].status = status, ![x].added = proc[x].added],
         UNCHANGED <<now, lock, obs, alerts, mail>>
  PROVE  Inv'
<1> USE DEF Inv
<1> DEFINE p == proc[x]
           old == runs[x]
           row == [old EXCEPT !.status = status, !.added = p.added]
<1>1. /\ runs' = [runs EXCEPT ![x] = row] /\ runs \in [Runs -> RunRow]
      /\ p \in Proc /\ p.added \in Nat /\ p.here \in Nat /\ old \in RunRow
  BY DEF TypeOK, Proc
<1>2. /\ old.status = "running" /\ p.added <= Cardinality(StoredBy(x))
      /\ p.pc = "collect" => p.added = Cardinality(StoredBy(x))
  BY <1>1 DEF p, ProcOK, AddedOf
<1> HIDE DEF old
<1>3. /\ row \in RunRow /\ row.status = status /\ row.added = p.added
      /\ row.trigger = old.trigger /\ row.started = old.started
  BY <1>1 DEF RunRow
<1> HIDE DEF row
<1>4. runs' \in [Runs -> RunRow] /\ runs'[x] = row /\ \A y \in Runs \ {x} : runs'[y] = runs[y]
  BY <1>1, <1>3
<1>5. /\ proc' \in [Runs -> Proc]
      /\ proc'[x].pc = pc /\ proc'[x].job = p.job
      /\ proc'[x].trigger = p.trigger /\ proc'[x].now = p.now
      /\ proc'[x].late = p.late /\ proc'[x].created = p.created
      /\ \A y \in Runs \ {x} : proc'[y] = proc[y]
  BY GotoMoves DEF p, Stages
<1>6. TypeOK'
  BY <1>4, <1>5 DEF TypeOK
<1>7. ProcOK(x)'
  <2>1. LeaseOf(x)'
    BY <1>5 DEF p, ProcOK, LeaseOf, InTry
  <2>2. MailOf(x)'
    BY <1>5 DEF p, ProcOK, MailOf
  <2>3. StoredBy(x)' = StoredBy(x)
    BY StoredKept
  <2>4. AddedOf(x)'
    BY <1>2, <1>3, <1>4, <1>5, <2>3 DEF p, AddedOf
  <2>5. QED
    BY <2>1, <2>2, <2>4 DEF ProcOK
<1>8. ASSUME NEW y \in Runs \ {x} PROVE ProcOK(y)'
  BY <1>4, <1>5, <1>8, StoredKept, LeaseKept, MailKept, AddedKept DEF ProcOK
<1>9. MailOK'
  BY DEF MailOK, MailedOnce
<1>10. RunsOK'
  BY <1>2, <1>3, <1>4, BudgetKept DEF old
<1>11. QED
  BY <1>6, <1>7, <1>8, <1>9, <1>10

LEMMA CloseSteps ==
  ASSUME Inv, NEW x \in Runs, FinishRun(x) \/ Abort(x)
  PROVE  Inv'
<1>1. CASE FinishRun(x)
  <2>1. Finished(x) \in {"ok", "partial", "failed"}
    BY DEF Finished
  <2>2. QED
    BY <1>1, <2>1, CloseStep DEF FinishRun
<1>2. CASE Abort(x)
  BY <1>2, CloseStep DEF Abort
<1>3. QED
  BY <1>1, <1>2

-----------------------------------------------------------------------------
(* The observations.                                                       *)
LEMMA InsertStep ==
  ASSUME Inv, NEW x \in Runs, NEW chunk \in SUBSET Keys, InsertChunk(x, chunk)
  PROVE  Inv'
<1> USE DEF Inv
<1> DEFINE p == proc[x]
           rows == p.rows \ chunk
           fresh == Inserted(chunk)
           here == p.here + Cardinality(fresh)
           new == [p EXCEPT !.rows = rows, !.here = here]
<1>1. /\ proc' = [proc EXCEPT ![x] = new] /\ p \in Proc /\ p.pc = "insert"
      /\ p.here \in Nat /\ p.added \in Nat /\ None \notin Runs
  BY ConstantsAssumption DEF InsertChunk, TypeOK, Proc
<1>2. /\ IsFiniteSet(fresh) /\ IsFiniteSet(StoredBy(x)) /\ fresh \cap StoredBy(x) = {}
  BY <1>1, ConstantsAssumption, FS_Subset DEF Inserted, StoredBy
<1>3. /\ Cardinality(fresh) \in Nat /\ Cardinality(StoredBy(x)) \in Nat
      /\ Cardinality(StoredBy(x) \cup fresh) = Cardinality(StoredBy(x)) + Cardinality(fresh)
  <2> DEFINE S == StoredBy(x)
  <2>1. Cardinality(S \cup fresh) = Cardinality(S) + Cardinality(fresh) - Cardinality(S \cap fresh)
    BY <1>2, FS_Union
  <2>2. Cardinality(S \cap fresh) = 0
    BY <1>2, FS_EmptySet
  <2>3. Cardinality(fresh) \in Nat /\ Cardinality(S) \in Nat
    BY <1>2, FS_CardinalityType
  <2> HIDE DEF S, fresh
  <2>4. QED
    BY <2>1, <2>2, <2>3 DEF S
<1>4. obs' \in [Keys -> Runs \cup {None}] /\ StoredBy(x)' = StoredBy(x) \cup fresh
      /\ \A y \in Runs \ {x} : StoredBy(y)' = StoredBy(y)
  BY <1>1 DEF InsertChunk, TypeOK, StoredBy, Inserted
<1>5. rows \in SUBSET Keys
  BY <1>1 DEF Proc
<1> HIDE DEF p, rows, fresh
<1>6. here \in Nat
  BY <1>1, <1>3
<1> HIDE DEF here
<1>7. /\ new \in Proc /\ new.pc = "insert" /\ new.job = p.job /\ new.trigger = p.trigger
      /\ new.now = p.now /\ new.late = p.late /\ new.created = p.created
      /\ new.added = p.added /\ new.here = here
  BY <1>1, <1>5, <1>6 DEF Proc
<1> HIDE DEF new
<1>8. proc' \in [Runs -> Proc] /\ proc'[x] = new /\ \A y \in Runs \ {x} : proc'[y] = proc[y]
  BY <1>1, <1>7, Moved
<1>9. TypeOK'
  BY <1>4, <1>8 DEF TypeOK, InsertChunk
<1>10. ProcOK(x)'
  <2>1. LeaseOf(x)' /\ MailOf(x)'
    BY <1>1, <1>7, <1>8 DEF p, ProcOK, LeaseOf, MailOf, InsertChunk
  <2>2. runs[x].status = "running" /\ p.added + p.here = Cardinality(StoredBy(x))
    BY <1>1 DEF p, ProcOK, AddedOf
  <2>3. p.added + here = Cardinality(StoredBy(x)')
    BY <1>1, <1>3, <1>4, <2>2 DEF here
  <2>4. AddedOf(x)'
    BY <1>7, <1>8, <2>2, <2>3 DEF AddedOf, InsertChunk
  <2>5. QED
    BY <2>1, <2>4 DEF ProcOK
<1>11. ASSUME NEW y \in Runs \ {x} PROVE ProcOK(y)'
  BY <1>4, <1>8, <1>11, LeaseKept, MailKept, AddedKept DEF ProcOK, InsertChunk
<1>12. MailOK' /\ RunsOK'
  BY BudgetKept DEF MailOK, MailedOnce, InsertChunk
<1>13. QED
  BY <1>9, <1>10, <1>11, <1>12

-----------------------------------------------------------------------------
(* The alerts.                                                             *)
LEMMA RecordAlertStep ==
  ASSUME Inv, NEW x \in Runs, NEW a \in Alerts, RecordAlert(x, a)
  PROVE  Inv'
<1> USE DEF Inv
<1> DEFINE p == proc[x]
           created == p.created \cup {a}
           new == [p EXCEPT !.created = created]
<1>1. /\ proc' = [proc EXCEPT ![x] = new] /\ p \in Proc /\ p.pc = "alerts"
      /\ alerts' = [alerts EXCEPT ![a] = x] /\ alerts \in [Alerts -> Runs \cup {None}]
      /\ alerts[a] = None /\ None \notin Runs
  BY ConstantsAssumption DEF RecordAlert, TypeOK
<1>2. created \in SUBSET Alerts
  BY <1>1 DEF Proc
<1> HIDE DEF p, created
<1>3. /\ new \in Proc /\ new.pc = "alerts" /\ new.job = p.job /\ new.trigger = p.trigger
      /\ new.now = p.now /\ new.late = p.late /\ new.created = created
      /\ new.added = p.added /\ new.here = p.here
  BY <1>1, <1>2 DEF Proc
<1> HIDE DEF new
<1>4. proc' \in [Runs -> Proc] /\ proc'[x] = new /\ \A y \in Runs \ {x} : proc'[y] = proc[y]
  BY <1>1, <1>3, Moved
<1>5. alerts' \in [Alerts -> Runs \cup {None}] /\ alerts'[a] = x
      /\ \A b \in Alerts \ {a} : alerts'[b] = alerts[b]
  BY <1>1
<1>6. TypeOK'
  BY <1>4, <1>5 DEF TypeOK, RecordAlert
<1>7. mail[a].accepted = 0
  BY <1>1 DEF MailOK
<1>8. ProcOK(x)'
  <2>1. LeaseOf(x)'
    BY <1>1, <1>3, <1>4 DEF p, ProcOK, LeaseOf, RecordAlert
  <2>2. MailOf(x)'
    <3>1. \A b \in created : b \in Alerts /\ (b = a \/ (alerts[b] = x /\ mail[b].accepted = 0))
      BY <1>2 DEF p, created, ProcOK, MailOf
    <3>2. QED
      BY <1>3, <1>4, <1>5, <1>7, <3>1 DEF MailOf, RecordAlert
  <2>3. AddedOf(x)'
    BY <1>3, <1>4, StoredKept, AddedKept DEF p, ProcOK, RecordAlert
  <2>4. QED
    BY <2>1, <2>2, <2>3 DEF ProcOK
<1>9. ASSUME NEW y \in Runs \ {x} PROVE ProcOK(y)'
  <2>1. MailOf(y)'
    <3>1. \A b \in proc[y].created : b \in Alerts \ {a}
      BY <1>1, <1>9 DEF TypeOK, Proc, ProcOK, MailOf
    <3>2. QED
      BY <1>1, <1>4, <1>5, <1>9, <3>1 DEF ProcOK, MailOf, RecordAlert
  <2>2. QED
    BY <1>4, <1>9, <2>1, StoredKept, LeaseKept, AddedKept DEF ProcOK, RecordAlert
<1>10. MailOK' /\ RunsOK'
  BY <1>5, <1>7, BudgetKept DEF MailOK, MailedOnce, RecordAlert
<1>11. QED
  BY <1>6, <1>8, <1>9, <1>10

LEMMA VerifyStep ==
  ASSUME Inv, NEW x \in Runs, NEW a \in Alerts, VerifyDevelopment(x, a)
  PROVE  Inv'
<1> USE DEF Inv
<1> DEFINE p == proc[x]
           new == [p EXCEPT !.pc = "alerts", !.trigger = "review", !.now = now,
                            !.created = {a}]
<1>1. /\ proc' = [proc EXCEPT ![x] = new] /\ p \in Proc /\ p.pc = "new" /\ now \in Nat
      /\ alerts' = [alerts EXCEPT ![a] = x] /\ alerts \in [Alerts -> Runs \cup {None}]
      /\ alerts[a] = None /\ None \notin Runs
  BY ConstantsAssumption DEF VerifyDevelopment, TypeOK
<1> HIDE DEF p
<1>2. new \in Proc
  BY <1>1 DEF Proc, Triggers
<1>3. /\ new.pc = "alerts" /\ new.trigger = "review" /\ new.now = now /\ new.created = {a}
  BY <1>1 DEF Proc
<1> HIDE DEF new
<1>4. proc' \in [Runs -> Proc] /\ proc'[x] = new /\ \A y \in Runs \ {x} : proc'[y] = proc[y]
  BY <1>1, <1>2, Moved
<1>5. alerts' \in [Alerts -> Runs \cup {None}] /\ alerts'[a] = x
      /\ \A b \in Alerts \ {a} : alerts'[b] = alerts[b]
  BY <1>1
<1>6. TypeOK'
  BY <1>4, <1>5 DEF TypeOK, VerifyDevelopment
<1>7. mail[a].accepted = 0 /\ runs[x].status = "none"
  BY <1>1 DEF p, MailOK, ProcOK, AddedOf
<1>8. ProcOK(x)'
  <2>1. LeaseOf(x)'
    BY <1>1, <1>3, <1>4 DEF LeaseOf, VerifyDevelopment
  <2>2. MailOf(x)'
    BY <1>3, <1>4, <1>5, <1>7 DEF MailOf, VerifyDevelopment
  <2>3. AddedOf(x)'
    BY <1>3, <1>4, <1>7 DEF AddedOf, VerifyDevelopment
  <2>4. QED
    BY <2>1, <2>2, <2>3 DEF ProcOK
<1>9. ASSUME NEW y \in Runs \ {x} PROVE ProcOK(y)'
  <2>1. MailOf(y)'
    <3>1. \A b \in proc[y].created : b \in Alerts \ {a}
      BY <1>1, <1>9 DEF TypeOK, Proc, ProcOK, MailOf
    <3>2. QED
      BY <1>1, <1>4, <1>5, <1>9, <3>1 DEF ProcOK, MailOf, VerifyDevelopment
  <2>2. QED
    BY <1>4, <1>9, <2>1, StoredKept, LeaseKept, AddedKept DEF ProcOK, VerifyDevelopment
<1>10. MailOK' /\ RunsOK'
  BY <1>5, <1>7, BudgetKept DEF MailOK, MailedOnce, VerifyDevelopment
<1>11. QED
  BY <1>6, <1>8, <1>9, <1>10

LEMMA DeliverStep ==
  ASSUME Inv, NEW x \in Runs, NEW a \in Alerts, NEW accepted \in BOOLEAN,
         NEW reported \in BOOLEAN, Deliver(x, a, accepted, reported)
  PROVE  Inv'
<1> USE DEF Inv
<1> DEFINE p == proc[x]
           created == p.created \ {a}
           old == mail[a]
           count == IF accepted THEN old.accepted + 1 ELSE old.accepted
           letter == [old EXCEPT !.accepted = count]
           new == [p EXCEPT !.pc = "mailed", !.created = created, !.alert = a,
                            !.sent = reported]
           Letters == [accepted : Nat, row : {"none", "sent", "failed"}]
<1>1. /\ proc' = [proc EXCEPT ![x] = new] /\ p \in Proc /\ p.pc = "deliver"
      /\ mail' = [mail EXCEPT ![a] = letter] /\ mail \in [Alerts -> Letters]
      /\ old \in Letters /\ a \in p.created /\ (reported => accepted)
      /\ None \notin Runs
  BY ConstantsAssumption DEF Deliver, TypeOK
<1>2. created \in SUBSET Alerts
  BY <1>1 DEF Proc
<1>3. old.accepted = 0 /\ alerts[a] = x /\ old.row # "sent"
  <2>1. mail[a].accepted = 0 /\ alerts[a] = x
    BY <1>1 DEF ProcOK, MailOf
  <2>2. mail[a].row = "sent" => mail[a].accepted = 1
    BY DEF MailOK, MailedOnce
  <2>3. QED
    BY <2>1, <2>2
<1>4. count \in Nat /\ count <= 1 /\ (reported => count = 1)
  BY <1>1, <1>3
<1> HIDE DEF p, created, old, count
<1>5. letter \in Letters /\ letter.accepted = count /\ letter.row = old.row
  BY <1>1, <1>4
<1> HIDE DEF letter
<1>6. mail' \in [Alerts -> Letters] /\ mail'[a] = letter
      /\ \A b \in Alerts \ {a} : mail'[b] = mail[b]
  BY <1>1, <1>5
<1>7. new \in Proc
  BY <1>1, <1>2 DEF Proc
<1>8. /\ new.pc = "mailed" /\ new.job = p.job /\ new.trigger = p.trigger
      /\ new.now = p.now /\ new.late = p.late /\ new.created = created
      /\ new.alert = a
      /\ new.added = p.added /\ new.here = p.here
  BY <1>1, <1>2 DEF Proc
<1>9. new.sent = reported
  BY <1>1 DEF Proc
<1> HIDE DEF new
<1>10. proc' \in [Runs -> Proc] /\ proc'[x] = new /\ \A y \in Runs \ {x} : proc'[y] = proc[y]
  BY <1>1, <1>7, Moved
<1>11. TypeOK'
  BY <1>6, <1>10 DEF TypeOK, Deliver
<1>12. ProcOK(x)'
  <2>1. LeaseOf(x)'
    BY <1>1, <1>8, <1>10 DEF p, ProcOK, LeaseOf, InTry, Deliver
  <2>2. MailOf(x)'
    <3>1. \A b \in created : b \in Alerts \ {a} /\ alerts[b] = x /\ mail[b].accepted = 0
      BY <1>2 DEF p, created, ProcOK, MailOf
    <3>2. \A b \in proc'[x].created : alerts'[b] = x /\ mail'[b].accepted = 0
      BY <1>6, <1>8, <1>10, <3>1 DEF Deliver
    <3>3. a \in Alerts \ created /\ alerts'[a] = x /\ (reported => mail'[a].accepted = 1)
      BY <1>3, <1>4, <1>5, <1>6, <3>1 DEF Deliver
    <3>4. proc'[x].alert = a /\ proc'[x].created = created
      BY <1>8, <1>10
    <3>5. proc'[x].sent => mail'[a].accepted = 1
      BY <1>9, <1>10, <3>3
    <3>6. QED
      BY <3>2, <3>3, <3>4, <3>5 DEF MailOf
  <2>3. StoredBy(x)' = StoredBy(x)
    BY StoredKept DEF Deliver
  <2>4. AddedOf(x)'
    BY <1>1, <1>8, <1>10, <2>3 DEF p, ProcOK, AddedOf, Deliver
  <2>5. QED
    BY <2>1, <2>2, <2>4 DEF ProcOK
<1>13. ASSUME NEW y \in Runs \ {x} PROVE ProcOK(y)'
  <2>1. MailOf(y)'
    <3>1. \A b \in proc[y].created : b \in Alerts \ {a} /\ mail[b].accepted = 0 /\ alerts[b] = y
      BY <1>1, <1>3, <1>13 DEF TypeOK, Proc, ProcOK, MailOf
    <3>2. proc[y].pc = "mailed" =>
            /\ proc[y].alert \in Alerts \ proc[y].created /\ proc[y].alert # a
            /\ alerts[proc[y].alert] = y
            /\ proc[y].sent => mail[proc[y].alert].accepted = 1
      BY <1>1, <1>3, <1>13 DEF ProcOK, MailOf
    <3>3. proc'[y] = proc[y] /\ alerts' = alerts
      BY <1>10, <1>13 DEF Deliver
    <3>4. QED
      BY <1>6, <3>1, <3>2, <3>3 DEF MailOf
  <2>2. QED
    BY <1>10, <1>13, <2>1, StoredKept, LeaseKept, AddedKept DEF ProcOK, Deliver
<1>14. MailOK'
  BY <1>1, <1>3, <1>4, <1>5, <1>6 DEF MailOK, MailedOnce, Deliver, old
<1>15. RunsOK'
  BY BudgetKept DEF Deliver
<1>16. QED
  BY <1>11, <1>12, <1>13, <1>14, <1>15

LEMMA RecordDeliveryStep ==
  ASSUME Inv, NEW x \in Runs, NEW status \in {"sent", "failed"}, RecordDelivery(x, status)
  PROVE  Inv'
<1> USE DEF Inv
<1> DEFINE p == proc[x]
           a == p.alert
           old == mail[a]
           letter == [old EXCEPT !.row = status]
           Letters == [accepted : Nat, row : {"none", "sent", "failed"}]
<1>1. /\ p \in Proc /\ p.pc = "mailed" /\ a \in Alerts
      /\ mail' = [mail EXCEPT ![a] = letter] /\ mail \in [Alerts -> Letters]
      /\ old \in Letters
  BY DEF RecordDelivery, TypeOK, ProcOK, MailOf
<1>2. /\ status = "sent" => old.accepted = 1
      /\ p.now <= now /\ p.trigger \in Triggers
  BY <1>1 DEF RecordDelivery, ProcOK, MailOf, LeaseOf, Proc
<1>3. letter \in Letters /\ letter.accepted = old.accepted /\ letter.row = status
  BY <1>1
<1> HIDE DEF p, a, old, letter
<1>4. mail' \in [Alerts -> Letters] /\ mail'[a] = letter
      /\ \A b \in Alerts \ {a} : mail'[b] = mail[b]
  BY <1>1, <1>3
<1>5. \A b \in Alerts : mail'[b].accepted = mail[b].accepted
  BY <1>3, <1>4 DEF old
<1>6. /\ proc' \in [Runs -> Proc]
      /\ proc'[x].pc = "deliver" /\ proc'[x].job = p.job
      /\ proc'[x].trigger = p.trigger /\ proc'[x].now = p.now
      /\ proc'[x].late = p.late /\ proc'[x].created = p.created
      /\ \A y \in Runs \ {x} : proc'[y] = proc[y]
  BY GotoMoves DEF p, RecordDelivery, Stages
<1>7. TypeOK'
  BY <1>4, <1>6 DEF TypeOK, RecordDelivery
<1>8. ProcOK(x)'
  <2>1. LeaseOf(x)'
    BY <1>1, <1>6 DEF p, ProcOK, LeaseOf, InTry, RecordDelivery
  <2>2. \A b \in p.created : b \in Alerts
    BY <1>1 DEF Proc
  <2>3. MailOf(x)'
    BY <1>5, <1>6, <2>2 DEF p, ProcOK, MailOf, RecordDelivery
  <2>4. StoredBy(x)' = StoredBy(x)
    BY StoredKept DEF RecordDelivery
  <2>5. AddedOf(x)'
    BY <1>1, <1>6, <2>4 DEF p, ProcOK, AddedOf, RecordDelivery
  <2>6. QED
    BY <2>1, <2>3, <2>5 DEF ProcOK
<1>9. ASSUME NEW y \in Runs \ {x} PROVE ProcOK(y)'
  <2>1. MailOf(y)'
    <3>1. \A b \in proc[y].created : b \in Alerts
      BY <1>9 DEF TypeOK, Proc
    <3>2. QED
      BY <1>5, <1>6, <1>9, <3>1 DEF ProcOK, MailOf, RecordDelivery
  <2>2. QED
    BY <1>6, <1>9, <2>1, StoredKept, LeaseKept, AddedKept DEF ProcOK, RecordDelivery
<1>10. MailOK'
  BY <1>2, <1>3, <1>4, <1>5 DEF MailOK, MailedOnce, RecordDelivery
<1>11. RunsOK'
  BY BudgetKept DEF RecordDelivery
<1>12. QED
  BY <1>7, <1>8, <1>9, <1>10, <1>11

-----------------------------------------------------------------------------
(* The invariant.                                                          *)
LEMMA Initial ==
  ASSUME Init
  PROVE  Inv
<1>1. TypeOK
  <2>1. proc \in [Runs -> Proc]
    BY NewType DEF Init
  <2>2. lock \in [Jobs -> Lock]
    BY DEF Init, NoLock, Lock
  <2>3. runs \in [Runs -> RunRow]
    BY NewType DEF Init, RunRow, Triggers
  <2>4. QED
    BY <2>1, <2>2, <2>3 DEF Init, TypeOK
<1>2. ASSUME NEW x \in Runs PROVE ProcOK(x)
  <2>1. proc[x] = New /\ runs[x].status = "none" /\ now = 0
    BY DEF Init
  <2>2. StoredBy(x) = {}
    BY ConstantsAssumption DEF Init, StoredBy
  <2>3. QED
    BY <2>1, <2>2, NewType DEF ProcOK, LeaseOf, MailOf, AddedOf, InTry
<1>3. MailOK
  BY DEF Init, MailOK, MailedOnce
<1>4. RunsOK
  <2>1. Reserved = {}
    BY DEF Init, Reserved
  <2>2. \A t \in 0 .. MaxTime : ManualFrom(t) = {}
    BY DEF Init, ManualFrom
  <2>3. ManualBudget = \A t \in 0 .. MaxTime : Cardinality(ManualFrom(t)) <= ManualLimit
    BY DEF ManualBudget, ManualFrom
  <2>4. QED
    BY <2>1, <2>2, <2>3, FS_EmptySet, ConstantsAssumption DEF RunsOK
<1>5. QED
  BY <1>1, <1>2, <1>3, <1>4 DEF Inv

LEMMA Stutter ==
  ASSUME Inv, UNCHANGED vars
  PROVE  Inv'
<1>1. TypeOK' /\ MailOK'
  BY DEF Inv, TypeOK, MailOK, MailedOnce, vars
<1>2. \A x \in Runs : ProcOK(x)'
  BY StoredKept, LeaseKept, MailKept, AddedKept DEF Inv, ProcOK, vars
<1>3. RunsOK'
  BY BudgetKept DEF Inv, vars
<1>4. QED
  BY <1>1, <1>2, <1>3 DEF Inv

LEMMA Step ==
  ASSUME Inv, [Next]_vars
  PROVE  Inv'
<1>1. CASE UNCHANGED vars
  BY <1>1, Stutter
<1>2. CASE Tick
  BY <1>2, TickStep
<1>3. ASSUME NEW x \in Runs, StartNext(x)
      PROVE  Inv'
  BY <1>3, BeginStep, AcquireStep, EndSteps, ReadSourcesStep, JumpSteps, ReserveStep
  DEF StartNext
<1>4. ASSUME NEW x \in Runs, CollectNext(x)
      PROVE  Inv'
  BY <1>4, SourceFailedStep, SourceFetchedStep, InsertStep, SourceDoneStep, CloseSteps
  DEF CollectNext
<1>5. ASSUME NEW x \in Runs, AlertNext(x)
      PROVE  Inv'
  BY <1>5, RecordAlertStep, VerifyStep, StartDeliveryStep, DeliverStep,
     RecordDeliveryStep, JumpSteps
  DEF AlertNext
<1>6. ASSUME NEW x \in Runs, EndNext(x)
      PROVE  Inv'
  BY <1>6, JumpSteps, CloseSteps, ReleaseStep, EndSteps DEF EndNext
<1>7. QED
  BY <1>1, <1>2, <1>3, <1>4, <1>5, <1>6 DEF Next

LEMMA Invariant == Spec => []Inv
BY Initial, Step, PTL DEF Spec

-----------------------------------------------------------------------------
(* Every state has its type.                                               *)
THEOREM SignalsTypes == Spec => []TypeOK
<1>1. Inv => TypeOK
  BY DEF Inv
<1>2. QED
  BY <1>1, Invariant, PTL

(* A run has the lease it took until it outlives it, whatever the other    *)
(* runs of its job do: acquireLease takes a lease over only when it has     *)
(* expired, and releaseLease leaves a successor's alone.                    *)
THEOREM LeaseIsKept == Spec => []LeaseExcludes
<1>1. Inv => LeaseExcludes
  BY DEF Inv, ProcOK, LeaseOf, LeaseExcludes
<1>2. QED
  BY <1>1, Invariant, PTL

(* No window of an hour has more manual runs than the limit: the statement *)
(* that reserves a run counts every run a later window could count.        *)
THEOREM ManualRunsAreLimited == Spec => []ManualBudget
<1>1. Inv => ManualBudget
  BY DEF Inv, RunsOK
<1>2. QED
  BY <1>1, Invariant, PTL

(* A run reports as added exactly what is in the table under its id, or    *)
(* less when it was aborted in the middle of a source.                     *)
THEOREM ReportedIsStored == Spec => []AddedIsStored
<1>1. Inv => AddedIsStored
  BY DEF Inv, ProcOK, AddedOf, AddedIsStored, StoredBy
<1>2. QED
  BY <1>1, Invariant, PTL

(* No alert is mailed twice: whoever inserted its row is the only one with *)
(* the alert in its list, and takes it off with the mail.                  *)
THEOREM AlertsAreMailedOnce == Spec => []MailedOnce
<1>1. Inv => MailedOnce
  BY DEF Inv, MailOK
<1>2. QED
  BY <1>1, Invariant, PTL

-----------------------------------------------------------------------------
(* The leases of the jobs.  Besides the runs in time, which have theirs,   *)
(* the refinement has to know whose the rows of the table can be: a run's  *)
(* that is at work, or one's that has died and will not come back.         *)
Holds(x) == proc[x].pc \in InTry /\ proc[x].trigger # "review"

Owner(j, x) ==
  \/ proc[x].pc = "end"
  \/ /\ Holds(x) /\ proc[x].job = j
     /\ lock[j].expires = proc[x].now + TTL

Owned ==
  /\ \A j \in Jobs : lock[j].run # None => Owner(j, lock[j].run)
  /\ \A x \in Runs : Holds(x) /\ proc[x].late => now >= proc[x].now + TTL
  /\ \A x \in Runs : proc[x].pc = "acquire" => proc[x].trigger # "review"

Quiet(x) ==
  /\ UNCHANGED <<now, lock>>
  /\ \A y \in Runs \ {x} : proc'[y] = proc[y]
  /\ proc[x].pc # "end"
  /\ Holds(x)' <=> Holds(x)
  /\ Holds(x) => /\ proc'[x].job = proc[x].job /\ proc'[x].now = proc[x].now
                 /\ proc'[x].late = proc[x].late
  /\ proc'[x].pc = "acquire" => proc'[x].trigger # "review"

LEMMA GotoQuiet ==
  ASSUME TypeOK, NEW x \in Runs, NEW pc \in InTry, proc[x].pc \in InTry,
         Goto(x, pc), UNCHANGED <<now, lock>>
  PROVE  Quiet(x)
<1>1. pc \in Stages /\ pc # "end"
  BY DEF InTry, Stages
<1>2. QED
  BY <1>1, GotoMoves DEF Quiet, Holds, InTry

LEMMA StartQuiet ==
  ASSUME Inv, NEW x \in Runs, StartNext(x), ~AcquireLease(x)
  PROVE  Quiet(x)
<1> USE DEF Inv
<1>1. ASSUME NEW job \in Jobs, NEW trigger \in {"cron", "manual"}, Begin(x, job, trigger)
      PROVE  Quiet(x)
  BY <1>1 DEF Begin, Quiet, Holds, InTry, TypeOK, Proc, tables
<1>2. CASE LeaseHeld(x)
  BY <1>2, EndMoves DEF LeaseHeld, Quiet, Holds, InTry, tables
<1>3. ASSUME NEW active \in SUBSET Sources, ReadSources(x, active)
      PROVE  Quiet(x)
  <2> DEFINE pc == IF active = {} THEN "alerts"
                   ELSE IF proc[x].trigger = "cron" THEN "interval" ELSE "reserve"
  <2>1. pc \in {"alerts", "interval", "reserve"}
    OBVIOUS
  <2>2. proc' = [proc EXCEPT ![x].left = active, ![x].pc = pc]
    BY <1>3 DEF ReadSources
  <2> HIDE DEF pc
  <2>3. QED
    BY <1>3, <2>1, <2>2 DEF ReadSources, Quiet, Holds, InTry, TypeOK, Proc, tables
<1>4. CASE RecentRun(x)
  BY <1>4, GotoQuiet DEF RecentRun, InTry, tables
<1>5. CASE Reserve(x)
  BY <1>5, GotoQuiet DEF Reserve, InTry
<1>6. CASE RateLimited(x)
  BY <1>6, GotoQuiet DEF RateLimited, InTry, tables
<1>7. QED
  BY <1>1, <1>2, <1>3, <1>4, <1>5, <1>6 DEF StartNext

LEMMA CollectQuiet ==
  ASSUME Inv, NEW x \in Runs, CollectNext(x)
  PROVE  Quiet(x)
<1> USE DEF Inv
<1>1. ASSUME NEW s \in Sources, SourceFailed(x, s)
      PROVE  Quiet(x)
  BY <1>1 DEF SourceFailed, Quiet, Holds, InTry, TypeOK, Proc, tables
<1>2. ASSUME NEW s \in Sources, NEW rows \in SUBSET Keys, NEW rejected \in BOOLEAN,
             SourceFetched(x, s, rows, rejected)
      PROVE  Quiet(x)
  <2> DEFINE ok == proc[x].ok \/ (~rejected /\ rows # {})
             bad == proc[x].bad \/ rejected \/ rows = {}
  <2>1. /\ proc[x].pc = "collect" /\ UNCHANGED <<now, lock>>
        /\ proc' = [proc EXCEPT ![x].pc = "insert", ![x].left = proc[x].left \ {s},
                                ![x].rows = rows, ![x].ok = ok, ![x].bad = bad]
    BY <1>2 DEF SourceFetched, tables
  <2> HIDE DEF ok, bad
  <2>2. QED
    BY <2>1 DEF Quiet, Holds, InTry, TypeOK, Proc
<1>3. ASSUME NEW chunk \in SUBSET Keys, InsertChunk(x, chunk)
      PROVE  Quiet(x)
  BY <1>3 DEF InsertChunk, Quiet, Holds, InTry, TypeOK, Proc
<1>4. CASE SourceDone(x)
  BY <1>4 DEF SourceDone, Quiet, Holds, InTry, TypeOK, Proc, tables
<1>5. CASE FinishRun(x)
  BY <1>5, GotoQuiet DEF FinishRun, InTry
<1>6. QED
  BY <1>1, <1>2, <1>3, <1>4, <1>5 DEF CollectNext

LEMMA AlertQuiet ==
  ASSUME Inv, NEW x \in Runs, AlertNext(x)
  PROVE  Quiet(x)
<1> USE DEF Inv
<1>1. ASSUME NEW a \in Alerts, RecordAlert(x, a)
      PROVE  Quiet(x)
  BY <1>1 DEF RecordAlert, Quiet, Holds, InTry, TypeOK, Proc
<1>2. ASSUME NEW a \in Alerts, VerifyDevelopment(x, a)
      PROVE  Quiet(x)
  BY <1>2 DEF VerifyDevelopment, Quiet, Holds, InTry, TypeOK, Proc
<1>3. ASSUME NEW enabled \in BOOLEAN, StartDelivery(x, enabled)
      PROVE  Quiet(x)
  BY <1>3 DEF StartDelivery, Quiet, Holds, InTry, TypeOK, Proc, tables
<1>4. ASSUME NEW a \in Alerts, NEW accepted \in BOOLEAN, NEW reported \in BOOLEAN,
             Deliver(x, a, accepted, reported)
      PROVE  Quiet(x)
  BY <1>4 DEF Deliver, Quiet, Holds, InTry, TypeOK, Proc
<1>5. ASSUME NEW status \in {"sent", "failed"}, RecordDelivery(x, status)
      PROVE  Quiet(x)
  BY <1>5, GotoQuiet DEF RecordDelivery, InTry
<1>6. CASE Delivered(x)
  BY <1>6, GotoQuiet DEF Delivered, InTry, tables
<1>7. QED
  BY <1>1, <1>2, <1>3, <1>4, <1>5, <1>6 DEF AlertNext

LEMMA FailQuiet ==
  ASSUME Inv, NEW x \in Runs, Fail(x) \/ Abort(x)
  PROVE  Quiet(x)
<1> USE DEF Inv
<1>1. CASE Fail(x)
  BY <1>1, GotoQuiet DEF Fail, InTry, tables
<1>2. CASE Abort(x)
  BY <1>2, GotoQuiet DEF Abort, InTry
<1>3. QED
  BY <1>1, <1>2

-----------------------------------------------------------------------------
(* What the steps do to the owners.                                        *)
LEMMA LockType ==
  ASSUME Inv, NEW j \in Jobs
  PROVE  /\ lock[j].run \in Runs \cup {None} /\ lock[j].expires \in Nat
         /\ \A x \in Runs : proc[x].now \in Nat /\ proc[x].job \in Jobs
         /\ now \in Nat /\ TTL \in Nat /\ MaxTime \in Nat
BY ConstantsAssumption DEF Inv, TypeOK, Lock, Proc

LEMMA JobOf ==
  ASSUME Inv, NEW x \in Runs
  PROVE  proc[x].job \in Jobs
BY DEF Inv, TypeOK, Proc

LEMMA QuietOwned ==
  ASSUME Inv, Owned, NEW x \in Runs, Quiet(x)
  PROVE  Owned'
<1>1. \A j \in Jobs : lock'[j].run # None => Owner(j, lock[j].run)'
  BY LockType DEF Quiet, Owned, Owner, Holds
<1>2. \A y \in Runs : Holds(y)' /\ proc'[y].late => now' >= proc'[y].now + TTL
  BY LockType DEF Quiet, Owned, Holds
<1>3. \A y \in Runs : proc'[y].pc = "acquire" => proc'[y].trigger # "review"
  BY DEF Quiet, Owned
<1>4. QED
  BY <1>1, <1>2, <1>3 DEF Owned

LEMMA TickOwned ==
  ASSUME Inv, Owned, Tick
  PROVE  Owned'
<1>1. \A x \in Runs : /\ proc'[x].pc = proc[x].pc /\ proc'[x].trigger = proc[x].trigger
                      /\ proc'[x].job = proc[x].job /\ proc'[x].now = proc[x].now
                      /\ proc'[x].late => \/ proc[x].late
                                          \/ now' >= proc[x].now + TTL
  BY DEF Tick, Inv, TypeOK, Proc
<1>2. UNCHANGED lock /\ now' = now + 1
  BY DEF Tick, tables
<1>3. \A j \in Jobs : lock'[j].run # None => Owner(j, lock[j].run)'
  BY <1>1, <1>2, LockType DEF Owned, Owner, Holds
<1>4. \A y \in Runs : Holds(y)' /\ proc'[y].late => now' >= proc'[y].now + TTL
  <2>1. now \in Nat /\ TTL \in Nat /\ \A y \in Runs : proc[y].now \in Nat
    BY ConstantsAssumption DEF Inv, TypeOK, Proc
  <2>2. QED
    BY <1>1, <1>2, <2>1 DEF Owned, Holds
<1>5. \A y \in Runs : proc'[y].pc = "acquire" => proc'[y].trigger # "review"
  BY <1>1 DEF Owned
<1>6. QED
  BY <1>3, <1>4, <1>5 DEF Owned

LEMMA AcquireMoves ==
  ASSUME Inv, NEW x \in Runs, AcquireLease(x)
  PROVE  /\ proc'[x].pc = "sources" /\ proc'[x].job = proc[x].job
         /\ proc'[x].trigger = proc[x].trigger /\ proc'[x].now = proc[x].now
         /\ IF now >= proc[x].now + TTL THEN proc'[x].late ELSE ~proc'[x].late
         /\ proc[x].pc = "acquire"
         /\ \A y \in Runs \ {x} : proc'[y] = proc[y]
         /\ lock'[proc[x].job] = [run |-> x, expires |-> proc[x].now + TTL]
         /\ \A j \in Jobs \ {proc[x].job} : lock'[j] = lock[j]
         /\ now' = now
<1>1. PICK late \in BOOLEAN : late <=> Expired(x)
  BY Zenon
<1>2. proc' = [proc EXCEPT ![x].pc = "sources", ![x].late = late]
  <2>1. Expired(x) \in BOOLEAN
    BY DEF Expired
  <2>2. late = Expired(x)
    BY <1>1, <2>1
  <2>3. QED
    BY <2>2 DEF AcquireLease
<1>3. QED
  BY <1>1, <1>2 DEF AcquireLease, Expired, Inv, TypeOK, Proc

LEMMA AcquireOwned ==
  ASSUME Inv, Owned, NEW x \in Runs, AcquireLease(x)
  PROVE  Owned'
<1>1. /\ proc[x].pc = "acquire" /\ proc'[x].pc = "sources" /\ now' = now
      /\ proc'[x].job = proc[x].job /\ proc'[x].now = proc[x].now
      /\ proc'[x].trigger = proc[x].trigger /\ proc[x].trigger # "review"
      /\ proc'[x].late => now >= proc[x].now + TTL
  BY AcquireMoves, Zenon DEF Owned
<1>2. \A y \in Runs \ {x} : proc'[y] = proc[y]
  BY AcquireMoves, Zenon
<1>3. \A j \in Jobs : lock'[j] = IF j = proc[x].job
                                THEN [run |-> x, expires |-> proc[x].now + TTL]
                                ELSE lock[j]
  BY AcquireMoves, Zenon
<1>4. ASSUME NEW j \in Jobs, lock'[j].run # None
      PROVE  Owner(j, lock[j].run)'
  <2>1. CASE j = proc[x].job
    BY <1>1, <1>3, <2>1 DEF Owner, Holds, InTry
  <2>2. CASE j # proc[x].job
    <3>1. lock'[j] = lock[j] /\ lock[j].run \in Runs /\ Owner(j, lock[j].run)
      BY <1>3, <1>4, <2>2, LockType DEF Owned
    <3>2. lock[j].run # x
      BY <1>1, <3>1 DEF Owner, Holds, InTry
    <3>3. QED
      BY <1>2, <3>1, <3>2 DEF Owner, Holds
  <2>3. QED
    BY <2>1, <2>2
<1>5. \A y \in Runs : Holds(y)' /\ proc'[y].late => now' >= proc'[y].now + TTL
  BY <1>1, <1>2 DEF Owned, Holds
<1>6. \A y \in Runs : proc'[y].pc = "acquire" => proc'[y].trigger # "review"
  BY <1>1, <1>2 DEF Owned
<1>7. QED
  BY <1>4, <1>5, <1>6 DEF Owned

LEMMA ReleaseMoves ==
  ASSUME Inv, NEW x \in Runs, ReleaseLease(x)
  PROVE  /\ proc'[x].pc = "end" /\ proc[x].pc = "release" /\ now' = now
         /\ \A y \in Runs \ {x} : proc'[y] = proc[y]
         /\ lock'[proc[x].job] = IF lock[proc[x].job].run = x THEN NoLock
                                 ELSE lock[proc[x].job]
         /\ \A j \in Jobs \ {proc[x].job} : lock'[j] = lock[j]
<1>1. End(x) /\ TypeOK
  BY DEF ReleaseLease, Inv
<1>2. lock \in [Jobs -> Lock] /\ proc[x].job \in Jobs
  BY <1>1 DEF TypeOK, Proc
<1>3. QED
  BY <1>1, <1>2, EndMoves DEF ReleaseLease

LEMMA ReleaseOwned ==
  ASSUME Inv, Owned, NEW x \in Runs, ReleaseLease(x)
  PROVE  Owned'
<1> DEFINE j == proc[x].job
<1>1. \A i \in Jobs : lock'[i].run # None => lock'[i] = lock[i]
  BY ReleaseMoves, LockType DEF NoLock
<1>2. \A i \in Jobs : lock'[i].run # None => Owner(i, lock[i].run)'
  BY <1>1, ReleaseMoves, LockType DEF Owned, Owner, Holds
<1>3. \A y \in Runs : Holds(y)' /\ proc'[y].late => now' >= proc'[y].now + TTL
  BY ReleaseMoves DEF Owned, Holds, InTry
<1>4. \A y \in Runs : proc'[y].pc = "acquire" => proc'[y].trigger # "review"
  BY ReleaseMoves DEF Owned
<1>5. QED
  BY <1>2, <1>3, <1>4 DEF Owned

LEMMA DieMoves ==
  ASSUME Inv, NEW x \in Runs, Die(x)
  PROVE  /\ proc'[x].pc = "end" /\ UNCHANGED <<now, lock>>
         /\ \A y \in Runs \ {x} : proc'[y] = proc[y]
BY EndMoves DEF Die, Inv, tables

LEMMA DieOwned ==
  ASSUME Inv, Owned, NEW x \in Runs, Die(x)
  PROVE  Owned'
<1>1. \A i \in Jobs : lock'[i].run # None => Owner(i, lock[i].run)'
  BY DieMoves, LockType DEF Owned, Owner, Holds
<1>2. \A y \in Runs : Holds(y)' /\ proc'[y].late => now' >= proc'[y].now + TTL
  BY DieMoves DEF Owned, Holds, InTry
<1>3. \A y \in Runs : proc'[y].pc = "acquire" => proc'[y].trigger # "review"
  BY DieMoves DEF Owned
<1>4. QED
  BY <1>1, <1>2, <1>3, DieMoves DEF Owned

-----------------------------------------------------------------------------
(* The state of Leases, and its steps.                                     *)
Valid == {j \in Jobs : lock[j].run # None /\ lock[j].expires > now}
AtWork == [j \in Jobs |-> Working(j)]
Late == [j \in Jobs |-> {x \in Working(j) : proc[x].late}]

LEMMA WorkSet ==
  ASSUME NEW j \in Jobs, NEW x \in Runs
  PROVE  /\ x \in AtWork[j] <=> Holds(x) /\ proc[x].job = j
         /\ x \in Late[j] <=> Holds(x) /\ proc[x].job = j /\ proc[x].late
BY DEF AtWork, Late, Working, Holds

(* A step shows in the sets only where somebody comes or goes.             *)
LEMMA WorkFrame ==
  ASSUME NEW x \in Runs, NEW j \in Jobs, \A y \in Runs \ {x} : proc'[y] = proc[y],
         \A i \in Jobs \ {j} : (x \in Working(i))' <=> x \in Working(i),
         \A i \in Jobs : x \in Working(i) /\ x \in Working(i)' =>
            proc'[x].late = proc[x].late
  PROVE  /\ (x \in Working(j) <=> (x \in Working(j))') => UNCHANGED <<AtWork, Late>>
         /\ x \notin Working(j)' =>
              /\ AtWork' = [AtWork EXCEPT ![j] = @ \ {x}]
              /\ Late' = [Late EXCEPT ![j] = @ \ {x}]
         /\ x \notin Working(j) /\ x \in Working(j)' =>
              /\ AtWork' = [AtWork EXCEPT ![j] = @ \cup {x}]
              /\ Late' = IF proc'[x].late THEN [Late EXCEPT ![j] = @ \cup {x}] ELSE Late
<1> DEFINE w(i) == Working(i)
           l(i) == {y \in Working(i) : proc[y].late}
<1>1. \A i \in Jobs : w(i)' \ {x} = w(i) \ {x} /\ l(i)' \ {x} = l(i) \ {x}
  BY DEF Working
<1>2. \A i \in Jobs : (x \in Working(i) <=> (x \in Working(i))') =>
        w(i)' = w(i) /\ l(i)' = l(i)
  BY DEF Working
<1>3. AtWork = [i \in Jobs |-> w(i)] /\ Late = [i \in Jobs |-> l(i)]
  BY DEF AtWork, Late
<1>4. AtWork' = [i \in Jobs |-> w(i)'] /\ Late' = [i \in Jobs |-> l(i)']
  BY DEF AtWork, Late
<1>5. Working(j) = w(j) /\ Working(j)' = w(j)'
  OBVIOUS
<1>6. l(j) \subseteq w(j) /\ l(j)' \subseteq w(j)'
  OBVIOUS
<1>7. x \in w(j)' => (x \in l(j)' <=> proc'[x].late)
  OBVIOUS
<1>8. w(j)' \ {x} = w(j) \ {x} /\ l(j)' \ {x} = l(j) \ {x}
  BY <1>1
<1>9. \A i \in Jobs \ {j} : w(i)' = w(i) /\ l(i)' = l(i)
  BY <1>2
<1>10. ASSUME x \in w(j) <=> x \in w(j)'
      PROVE  UNCHANGED <<AtWork, Late>>
  <2>1. w(j)' = w(j) /\ l(j)' = l(j)
    BY <1>2, <1>10
  <2> HIDE DEF w, l
  <2>2. QED
    BY <1>3, <1>4, <1>9, <2>1
<1> HIDE DEF w, l
<1>11. ASSUME x \notin w(j)'
       PROVE  /\ AtWork' = [AtWork EXCEPT ![j] = @ \ {x}]
              /\ Late' = [Late EXCEPT ![j] = @ \ {x}]
  <2>1. w(j)' = w(j) \ {x} /\ l(j)' = l(j) \ {x}
    BY <1>6, <1>8, <1>11
  <2>2. QED
    BY <1>3, <1>4, <1>9, <2>1
<1>12. ASSUME x \notin w(j), x \in w(j)'
       PROVE  /\ AtWork' = [AtWork EXCEPT ![j] = @ \cup {x}]
              /\ Late' = IF proc'[x].late THEN [Late EXCEPT ![j] = @ \cup {x}] ELSE Late
  <2>1. w(j)' = w(j) \cup {x}
    BY <1>8, <1>12
  <2>2. AtWork' = [AtWork EXCEPT ![j] = @ \cup {x}]
    BY <1>3, <1>4, <1>9, <2>1
  <2>3. CASE proc'[x].late
    <3>1. l(j)' = l(j) \cup {x}
      BY <1>6, <1>7, <1>8, <1>12, <2>3
    <3>2. QED
      BY <1>3, <1>4, <1>9, <2>2, <2>3, <3>1
  <2>4. CASE ~proc'[x].late
    <3>1. l(j)' = l(j)
      BY <1>6, <1>7, <1>8, <1>12, <2>4
    <3>2. QED
      BY <1>3, <1>4, <1>9, <2>2, <2>4, <3>1
  <2>5. QED
    BY <2>3, <2>4
<1>13. QED
  BY <1>5, <1>10, <1>11, <1>12

LEMMA QuietMaps ==
  ASSUME Inv, Owned, NEW x \in Runs, Quiet(x)
  PROVE  UNCHANGED <<Valid, AtWork, Late>>
<1>1. proc[x].job \in Jobs
  BY JobOf
<1>2. \A i \in Jobs : /\ (x \in Working(i))' <=> x \in Working(i)
                      /\ x \in Working(i) => proc'[x].late = proc[x].late
  BY DEF Quiet, Working, Holds
<1>3. \A y \in Runs \ {x} : proc'[y] = proc[y]
  BY DEF Quiet
<1>4. UNCHANGED <<AtWork, Late>>
  BY <1>1, <1>2, <1>3, WorkFrame
<1>5. Valid' = Valid
  BY DEF Quiet, Valid
<1>6. QED
  BY <1>4, <1>5

LEMMA TickMaps ==
  ASSUME Inv, Owned, Tick
  PROVE  \E over \in SUBSET Valid : Lease!Expire(over)
<1>0. PICK over : over = Valid \ Valid'
  OBVIOUS
<1>1. \A x \in Runs : /\ proc'[x].pc = proc[x].pc /\ proc'[x].trigger = proc[x].trigger
                      /\ proc'[x].job = proc[x].job
                      /\ proc[x].late => proc'[x].late
                      /\ proc[x].pc \in InTry /\ ~proc[x].late =>
                           IF now' >= proc[x].now + TTL THEN proc'[x].late ELSE ~proc'[x].late
  BY DEF Tick, Inv, TypeOK, Proc
<1>2. UNCHANGED lock /\ now' = now + 1 /\ now \in Nat
  BY DEF Tick, tables, Inv, TypeOK
<1>3. \A j \in Jobs : Working(j)' = Working(j)
  BY <1>1 DEF Working
<1>4. AtWork' = AtWork
  BY <1>3 DEF AtWork
<1>5. Valid' = Valid \ over
  BY <1>0, <1>2, LockType DEF Valid
<1>6. ASSUME NEW j \in Jobs, NEW x \in Working(j)
      PROVE  IF j \in over \/ proc[x].late THEN proc'[x].late ELSE ~proc'[x].late
  <2>1. x \in Runs /\ proc[x].pc \in InTry /\ proc[x].trigger # "review" /\ proc[x].job = j
    BY <1>6 DEF Working
  <2>2. ~proc[x].late => /\ lock[j].run # None /\ lock[j].expires = proc[x].now + TTL
                         /\ lock[j].expires > now
    <3>1. LeaseOf(x) /\ x # None
      BY <2>1, ConstantsAssumption DEF Inv, ProcOK
    <3>2. QED
      BY <2>1, <3>1, LockType DEF LeaseOf
  <2>3. ~proc[x].late => (j \in over <=> now' >= proc[x].now + TTL)
    BY <1>0, <1>2, <2>1, <2>2, LockType DEF Valid
  <2>4. QED
    BY <1>1, <2>1, <2>3
<1>7. Late' = [j \in Jobs |-> IF j \in over THEN AtWork[j] ELSE Late[j]]
  <2>1. \A j \in Jobs : {x \in Working(j)' : proc'[x].late}
          = IF j \in over THEN Working(j) ELSE {x \in Working(j) : proc[x].late}
    BY <1>3, <1>6
  <2>2. \A j \in Jobs : AtWork[j] = Working(j) /\ Late[j] = {x \in Working(j) : proc[x].late}
    BY DEF AtWork, Late
  <2>3. Late' = [j \in Jobs |-> {x \in Working(j)' : proc'[x].late}]
    BY DEF Late
  <2>4. QED
    BY <2>1, <2>2, <2>3
<1>8. Lease!Expire(over)
  BY <1>4, <1>5, <1>7 DEF Lease!Expire, Valid, AtWork, Late
<1>9. QED
  BY <1>0, <1>8

LEMMA AcquireMaps ==
  ASSUME Inv, Owned, NEW x \in Runs, AcquireLease(x)
  PROVE  Lease!Take(proc[x].job, x) \/ Lease!TakeTooLate(proc[x].job, x)
<1>1. PICK j \in Jobs : j = proc[x].job
  BY JobOf
<1>2. /\ proc[x].pc = "acquire" /\ proc'[x].pc = "sources" /\ now' = now
      /\ proc'[x].job = j /\ proc'[x].now = proc[x].now /\ proc[x].trigger # "review"
      /\ proc'[x].trigger # "review"
      /\ IF now >= proc[x].now + TTL THEN proc'[x].late ELSE ~proc'[x].late
  BY <1>1, AcquireMoves, Zenon DEF Owned
<1>3. \A y \in Runs \ {x} : proc'[y] = proc[y]
  BY AcquireMoves, Zenon
<1>4. \A i \in Jobs : lock'[i] = IF i = j THEN [run |-> x, expires |-> proc[x].now + TTL]
                                ELSE lock[i]
  BY <1>1, AcquireMoves, Zenon
<1>5. j \notin Valid
  <2>1. proc[x].now <= now /\ (lock[j].run = None \/ lock[j].expires <= proc[x].now)
    BY <1>1 DEF Inv, ProcOK, LeaseOf, AcquireLease
  <2>2. QED
    BY <2>1, LockType DEF Valid
<1>6. Valid' = IF proc'[x].late THEN Valid ELSE Valid \cup {j}
  <2>1. j \in Valid' <=> proc[x].now + TTL > now
    BY <1>2, <1>4, ConstantsAssumption DEF Valid
  <2>2. \A i \in Jobs \ {j} : i \in Valid' <=> i \in Valid
    BY <1>2, <1>4 DEF Valid
  <2>3. IF proc'[x].late THEN j \notin Valid' ELSE j \in Valid'
    BY <1>2, <2>1, LockType
  <2>4. Valid \subseteq Jobs /\ Valid' \subseteq Jobs
    BY DEF Valid
  <2>5. QED
    BY <1>5, <2>2, <2>3, <2>4
<1>7. /\ x \notin Working(j) /\ x \in Working(j)'
      /\ \A i \in Jobs : x \notin Working(i)
      /\ \A i \in Jobs \ {j} : (x \in Working(i))' <=> x \in Working(i)
  BY <1>2 DEF Working, InTry
<1>8. /\ AtWork' = [AtWork EXCEPT ![j] = @ \cup {x}]
      /\ Late' = IF proc'[x].late THEN [Late EXCEPT ![j] = @ \cup {x}] ELSE Late
  BY <1>3, <1>7, WorkFrame
<1>9. x \notin AtWork[j]
  BY <1>7 DEF AtWork
<1>10. CASE proc'[x].late
  <2>1. Valid' = Valid /\ Late' = [Late EXCEPT ![j] = @ \cup {x}]
    BY <1>6, <1>8, <1>10
  <2>2. Lease!TakeTooLate(j, x)
    BY <1>5, <1>8, <1>9, <2>1 DEF Lease!TakeTooLate, Lease!Enters, Valid, AtWork, Late
  <2>3. QED
    BY <1>1, <2>2
<1>11. CASE ~proc'[x].late
  <2>1. Valid' = Valid \cup {j} /\ Late' = Late
    BY <1>6, <1>8, <1>11
  <2>2. Lease!Take(j, x)
    BY <1>5, <1>8, <1>9, <2>1 DEF Lease!Take, Lease!Enters, Valid, AtWork, Late
  <2>3. QED
    BY <1>1, <2>2
<1>12. QED
  BY <1>10, <1>11

(* A run ends and frees at most its own lease.                             *)
LEMMA LeaveMaps ==
  ASSUME Inv, Owned, NEW x \in Runs, NEW j \in Jobs, j = proc[x].job,
         proc'[x].pc = "end", \A y \in Runs \ {x} : proc'[y] = proc[y],
         IF x \in Working(j) /\ ~proc[x].late THEN Valid' \in {Valid, Valid \ {j}}
         ELSE Valid' = Valid
  PROVE  \/ Lease!Finish(j, x) \/ Lease!FinishLate(j, x)
         \/ UNCHANGED <<Valid, AtWork, Late>>
<1>1. /\ \A i \in Jobs : x \notin Working(i)'
      /\ \A i \in Jobs \ {j} : (x \in Working(i))' <=> x \in Working(i)
  BY DEF Working, InTry
<1>2. /\ AtWork' = [AtWork EXCEPT ![j] = @ \ {x}]
      /\ Late' = [Late EXCEPT ![j] = @ \ {x}]
      /\ x \notin Working(j) => UNCHANGED <<AtWork, Late>>
  BY <1>1, WorkFrame
<1>3. /\ x \in AtWork[j] <=> x \in Working(j)
      /\ x \in Late[j] <=> x \in Working(j) /\ proc[x].late
  BY DEF AtWork, Late
<1>4. CASE x \notin Working(j)
  BY <1>2, <1>4
<1>5. CASE x \in Working(j) /\ ~proc[x].late
  <2>1. x \in AtWork[j] \ Late[j] /\ Valid' \in {Valid, Valid \ {j}}
    BY <1>3, <1>5
  <2>2. Late' = Late
    <3>1. Late = [i \in Jobs |-> Late[i]]
      BY DEF Late
    <3>2. QED
      BY <1>2, <2>1, <3>1
  <2>3. QED
    BY <1>2, <2>1, <2>2 DEF Lease!Finish, Lease!Leaves, Valid, AtWork, Late
<1>6. CASE x \in Working(j) /\ proc[x].late
  <2>1. x \in Late[j] /\ Valid' = Valid
    BY <1>3, <1>6
  <2>2. QED
    BY <1>2, <2>1 DEF Lease!FinishLate, Lease!Leaves, Valid, AtWork, Late
<1>7. QED
  BY <1>4, <1>5, <1>6

LEMMA ReleaseMaps ==
  ASSUME Inv, Owned, NEW x \in Runs, ReleaseLease(x)
  PROVE  \E j \in Jobs : \/ Lease!Finish(j, x) \/ Lease!FinishLate(j, x)
                        \/ UNCHANGED <<Valid, AtWork, Late>>
<1>1. PICK j \in Jobs : j = proc[x].job
  BY JobOf
<1>2. /\ proc'[x].pc = "end" /\ proc[x].pc = "release" /\ now' = now
      /\ \A y \in Runs \ {x} : proc'[y] = proc[y]
      /\ lock'[j] = IF lock[j].run = x THEN NoLock ELSE lock[j]
      /\ \A i \in Jobs \ {j} : lock'[i] = lock[i]
  BY <1>1, ReleaseMoves, Zenon
<1>3. \A i \in Jobs \ {j} : i \in Valid' <=> i \in Valid
  BY <1>2 DEF Valid
<1>4. Valid \subseteq Jobs /\ Valid' \subseteq Jobs
  BY DEF Valid
<1>5. CASE lock[j].run = x
  <2>1. Holds(x) /\ lock[j].expires = proc[x].now + TTL
    BY <1>2, <1>5, ConstantsAssumption DEF Owned, Owner
  <2>2. j \notin Valid'
    BY <1>2, <1>5 DEF Valid, NoLock
  <2>3. proc[x].late => j \notin Valid
    BY <2>1, LockType DEF Owned, Valid
  <2>4. x \in Working(j)
    BY <1>1, <2>1 DEF Holds, Working
  <2>5. Valid' = Valid \ {j}
    BY <1>3, <1>4, <2>2
  <2>6. proc[x].late => Valid' = Valid
    BY <2>3, <2>5
  <2>7. QED
    BY <1>1, <1>2, <2>4, <2>5, <2>6, LeaveMaps
<1>6. CASE lock[j].run # x
  <2>1. lock'[j] = lock[j]
    BY <1>2, <1>6
  <2>2. Valid' = Valid
    BY <1>2, <2>1 DEF Valid
  <2>3. QED
    BY <1>1, <1>2, <2>2, LeaveMaps
<1>7. QED
  BY <1>5, <1>6

LEMMA DieMaps ==
  ASSUME Inv, Owned, NEW x \in Runs, Die(x)
  PROVE  \E j \in Jobs : \/ Lease!Finish(j, x) \/ Lease!FinishLate(j, x)
                        \/ UNCHANGED <<Valid, AtWork, Late>>
<1>1. PICK j \in Jobs : j = proc[x].job
  BY JobOf
<1>2. Valid' = Valid
  BY DieMoves DEF Valid
<1>3. QED
  BY <1>1, <1>2, DieMoves, LeaveMaps

LEMMA OwnedStep ==
  ASSUME Inv, Owned, [Next]_vars
  PROVE  Owned' /\ [Lease!LeaseNext]_<<Valid, AtWork, Late>>
<1>1. CASE UNCHANGED vars
  <2>1. Owned'
    BY <1>1 DEF vars, Owned, Owner, Holds
  <2>2. UNCHANGED <<Valid, AtWork, Late>>
    BY <1>1 DEF vars, Valid, AtWork, Late, Working
  <2>3. QED
    BY <2>1, <2>2
<1>2. CASE Tick
  <2>1. PICK over \in SUBSET Valid : Lease!Expire(over)
    BY <1>2, TickMaps
  <2>2. Lease!LeaseNext
    BY <2>1 DEF Lease!LeaseNext, Valid
  <2>3. QED
    BY <1>2, <2>2, TickOwned
<1>3. ASSUME NEW x \in Runs, Quiet(x)
      PROVE  Owned' /\ [Lease!LeaseNext]_<<Valid, AtWork, Late>>
  BY <1>3, QuietOwned, QuietMaps
<1>4. ASSUME NEW x \in Runs, StartNext(x)
      PROVE  Owned' /\ [Lease!LeaseNext]_<<Valid, AtWork, Late>>
  <2>1. CASE AcquireLease(x)
    <3>1. proc[x].job \in Jobs
      BY JobOf
    <3>2. Lease!LeaseNext
      BY <2>1, <3>1, AcquireMaps DEF Lease!LeaseNext
    <3>3. QED
      BY <2>1, <3>2, AcquireOwned
  <2>2. CASE ~AcquireLease(x)
    BY <1>3, <1>4, <2>2, StartQuiet
  <2>3. QED
    BY <2>1, <2>2
<1>5. ASSUME NEW x \in Runs, EndNext(x)
      PROVE  Owned' /\ [Lease!LeaseNext]_<<Valid, AtWork, Late>>
  <2>1. CASE Fail(x) \/ Abort(x)
    BY <1>3, <2>1, FailQuiet
  <2>2. CASE ReleaseLease(x)
    <3>1. Lease!LeaseNext \/ UNCHANGED <<Valid, AtWork, Late>>
      BY <2>2, ReleaseMaps DEF Lease!LeaseNext
    <3>2. QED
      BY <2>2, <3>1, ReleaseOwned
  <2>3. CASE Die(x)
    <3>1. Lease!LeaseNext \/ UNCHANGED <<Valid, AtWork, Late>>
      BY <2>3, DieMaps DEF Lease!LeaseNext
    <3>2. QED
      BY <2>3, <3>1, DieOwned
  <2>4. QED
    BY <1>5, <2>1, <2>2, <2>3 DEF EndNext
<1>6. ASSUME NEW x \in Runs, CollectNext(x) \/ AlertNext(x)
      PROVE  Owned' /\ [Lease!LeaseNext]_<<Valid, AtWork, Late>>
  BY <1>3, <1>6, CollectQuiet, AlertQuiet
<1>7. QED
  BY <1>1, <1>2, <1>4, <1>5, <1>6 DEF Next

LEMMA OwnedInit ==
  ASSUME Init
  PROVE  Owned /\ Lease!LeaseInit
<1>1. \A x \in Runs : proc[x].pc = "new"
  BY NewType DEF Init
<1>2. \A j \in Jobs : lock[j].run = None
  BY DEF Init, NoLock
<1>3. Owned
  BY <1>1, <1>2 DEF Owned, Holds, InTry
<1>4. Valid = {} /\ \A j \in Jobs : Working(j) = {}
  BY <1>1, <1>2 DEF Valid, Working, InTry
<1>5. AtWork = [j \in Jobs |-> {}] /\ Late = [j \in Jobs |-> {}]
  BY <1>4 DEF AtWork, Late
<1>6. QED
  BY <1>3, <1>4, <1>5 DEF Lease!LeaseInit, Lease!Nobody, Valid, AtWork, Late

(* The locks of the jobs are leases: the specification Leases, in which a  *)
(* lease is taken when it is free or over, is given back by its owner      *)
(* only, and expires, is implemented by acquireLease, releaseLease and all *)
(* that runs, fails or dies between them.                                  *)
THEOREM SignalsLeases == Spec => ImplementsLeases
<1>1. Init => Owned /\ Lease!LeaseInit
  BY OwnedInit
<1>2. Inv /\ Owned /\ [Next]_vars => Owned' /\ [Lease!LeaseNext]_Lease!leaseVars
  BY OwnedStep DEF Lease!leaseVars, Valid, AtWork, Late
<1>3. QED
  BY <1>1, <1>2, Invariant, PTL DEF Spec, ImplementsLeases, Lease!LeaseSpec

(* What the leases are for: of all the runs at work on a job at most one   *)
(* is in time, and it has the lease.                                       *)
LEMMA OneInTimeStep ==
  ASSUME Lease!OneInTime, [Lease!LeaseNext]_Lease!leaseVars
  PROVE  Lease!OneInTime'
<1> DEFINE In(j) == AtWork[j] \ Late[j]
<1>1. \A j \in Jobs : \A x, y \in In(j) : x = y /\ j \in Valid
  BY DEF Lease!OneInTime, Valid, AtWork, Late
<1>2. SUFFICES ASSUME NEW j \in Jobs
               PROVE  \A x, y \in In(j)' : x = y /\ j \in Valid'
  BY DEF Lease!OneInTime, Valid, AtWork, Late
<1>3. DOMAIN AtWork = Jobs /\ DOMAIN Late = Jobs
  BY DEF AtWork, Late
<1>4. CASE UNCHANGED Lease!leaseVars
  BY <1>1, <1>4 DEF Lease!leaseVars, Valid, AtWork, Late
<1>5. ASSUME NEW i \in Jobs, NEW u \in Runs, Lease!Take(i, u)
      PROVE  \A x, y \in In(j)' : x = y /\ j \in Valid'
  <2>1. /\ i \notin Valid /\ Valid' = Valid \cup {i} /\ Late' = Late
        /\ AtWork' = [AtWork EXCEPT ![i] = @ \cup {u}]
    BY <1>5 DEF Lease!Take, Lease!Enters, Valid, AtWork, Late
  <2>2. QED
    BY <1>1, <1>3, <2>1
<1>6. ASSUME NEW i \in Jobs, NEW u \in Runs, Lease!TakeTooLate(i, u)
      PROVE  \A x, y \in In(j)' : x = y /\ j \in Valid'
  <2>1. /\ Valid' = Valid /\ Late' = [Late EXCEPT ![i] = @ \cup {u}]
        /\ AtWork' = [AtWork EXCEPT ![i] = @ \cup {u}]
    BY <1>6 DEF Lease!TakeTooLate, Lease!Enters, Valid, AtWork, Late
  <2>2. In(j)' \subseteq In(j)
    BY <1>3, <2>1
  <2>3. QED
    BY <1>1, <2>1, <2>2
<1>7. ASSUME NEW i \in Jobs, NEW u \in Runs, Lease!Finish(i, u)
      PROVE  \A x, y \in In(j)' : x = y /\ j \in Valid'
  <2>1. /\ u \in AtWork[i] \ Late[i] /\ Valid' \in {Valid, Valid \ {i}} /\ Late' = Late
        /\ AtWork' = [AtWork EXCEPT ![i] = @ \ {u}]
    BY <1>7 DEF Lease!Finish, Lease!Leaves, Valid, AtWork, Late
  <2>2. In(j)' \subseteq In(j) /\ (j = i => u \notin In(j)' /\ u \in In(j))
    BY <1>3, <2>1
  <2>3. QED
    BY <1>1, <2>1, <2>2
<1>8. ASSUME NEW i \in Jobs, NEW u \in Runs, Lease!FinishLate(i, u)
      PROVE  \A x, y \in In(j)' : x = y /\ j \in Valid'
  <2>1. /\ Valid' = Valid /\ Late' = [Late EXCEPT ![i] = @ \ {u}]
        /\ AtWork' = [AtWork EXCEPT ![i] = @ \ {u}]
    BY <1>8 DEF Lease!FinishLate, Lease!Leaves, Valid, AtWork, Late
  <2>2. In(j)' \subseteq In(j)
    BY <1>3, <2>1
  <2>3. QED
    BY <1>1, <2>1, <2>2
<1>9. ASSUME NEW over \in SUBSET Valid, Lease!Expire(over)
      PROVE  \A x, y \in In(j)' : x = y /\ j \in Valid'
  <2>1. /\ Valid' = Valid \ over /\ AtWork' = AtWork
        /\ Late' = [i \in Jobs |-> IF i \in over THEN AtWork[i] ELSE Late[i]]
    BY <1>9 DEF Lease!Expire, Valid, AtWork, Late
  <2>2. QED
    BY <1>1, <1>3, <2>1
<1>10. QED
  BY <1>4, <1>5, <1>6, <1>7, <1>8, <1>9 DEF Lease!LeaseNext, Lease!leaseVars, Valid, AtWork, Late

(* So of all the runs of a job that are at work only one has not outlived  *)
(* its lease, and the row of bs_collection_locks is its own.               *)
THEOREM OneRunInTime == Spec => []Lease!OneInTime
<1>1. Lease!LeaseInit => Lease!OneInTime
  BY DEF Lease!LeaseInit, Lease!OneInTime, Lease!Nobody
<1>2. QED
  BY <1>1, OneInTimeStep, SignalsLeases, PTL DEF ImplementsLeases, Lease!LeaseSpec
=============================================================================
