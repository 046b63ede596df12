------------------------------ MODULE Pages_proofs ------------------------------
(***************************************************************************)
(* Proofs about the browser pages: the operations console, the Bitcoin     *)
(* Signals page and the analytics dashboard, for every number of           *)
(* databases, sites and requests in flight, and for unbounded visits; and  *)
(* about the check of the statements entered in the console, for every     *)
(* text.                                                                   *)
(***************************************************************************)
EXTENDS AnalyticsUi, ConsoleUi, SignalsUi, SqlStatement, SequenceTheorems, WellFoundedInduction,
        TLAPS

-----------------------------------------------------------------------------
(* The operations console.                                                 *)

(* The inductive invariant: unless a choice overtook an answer, what the   *)
(* workbench waits for is about the chosen database, like what it shows.   *)
WorkbenchInv ==
  ~raced =>
    /\ tree \in {database, NoDatabase}
    /\ hasMore /\ nextOn => result = Rows(database, page)
    /\ \A r \in asked : r.kind \in {"schema", "query"} => r.db = database

LEMMA AskFields ==
  ASSUME NEW k, NEW d, NEW p
  PROVE  Ask(k, d, p).kind = k /\ Ask(k, d, p).db = d /\ Ask(k, d, p).page = p
BY DEF Ask

(* Choosing a database forgets the page and what follows it.               *)
LEMMA LoadSchemaStep ==
  ASSUME WorkbenchInv, NEW d, NEW others \in SUBSET asked, LoadSchema(d, others)
  PROVE  WorkbenchInv'
<1>1. raced' = (raced \/ {r \in others : r.kind \in {"schema", "query"}} # {})
      /\ database' = d /\ hasMore' = FALSE /\ tree' = NoDatabase
      /\ asked' = others \cup {Ask("schema", d, 0)}
  BY DEF LoadSchema, MoreAfterChoice
<1>2. ~raced' => \A r \in others : r.kind \notin {"schema", "query"}
  BY <1>1
<1>3. QED
  BY <1>1, <1>2, AskFields DEF WorkbenchInv

LEMMA ConsoleStep ==
  ASSUME WorkbenchInv, [ConsoleNext]_consoleVars
  PROVE  WorkbenchInv'
<1> USE DEF WorkbenchInv
<1>1. CASE UNCHANGED consoleVars
  BY <1>1 DEF consoleVars
<1>2. CASE Identified \/ Leave
  BY <1>2, AskFields DEF Identified, Leave, Sections
<1>3. ASSUME NEW s \in Sections, OpenSection(s) PROVE WorkbenchInv'
  BY <1>3, AskFields DEF OpenSection, Sections
<1>4. ASSUME NEW d \in Databases, ChooseDatabase(d) PROVE WorkbenchInv'
  BY <1>4, LoadSchemaStep DEF ChooseDatabase
<1>5. ASSUME NEW d \in Databases, LoadStatement(d) PROVE WorkbenchInv'
  BY <1>5, AskFields DEF LoadStatement
<1>6. ASSUME NEW p \in 1 .. LastPage, RunQuery(p) PROVE WorkbenchInv'
  <2>1. asked' = asked \cup {Ask("query", database, p)} /\ (raced => raced')
        /\ UNCHANGED <<database, tree, hasMore, nextOn, page, result>>
    BY <1>6 DEF RunQuery
  <2>2. QED
    BY <2>1, AskFields
<1>7. ASSUME NEW r \in asked, SectionAnswer(r) PROVE WorkbenchInv'
  BY <1>7 DEF SectionAnswer
<1>8. ASSUME NEW r \in asked, InventoryAnswer(r) PROVE WorkbenchInv'
  <2>1. CASE \E d \in Databases : LoadSchema(d, asked \ {r})
    BY <2>1, LoadSchemaStep
  <2>2. QED
    BY <1>8, <2>1 DEF InventoryAnswer
<1>9. ASSUME NEW r \in asked, StatementAnswer(r) PROVE WorkbenchInv'
  <2>1. CASE LoadSchema(r.db, asked \ {r})
    BY <2>1, LoadSchemaStep
  <2>2. QED
    BY <1>9, <2>1 DEF StatementAnswer
<1>10. ASSUME NEW r \in asked, SchemaAnswer(r) PROVE WorkbenchInv'
  BY <1>10 DEF SchemaAnswer
<1>11. ASSUME NEW r \in asked, QueryAnswer(r) PROVE WorkbenchInv'
  <2>1. ~raced => r.db = database
    BY <1>11 DEF QueryAnswer
  <2>2. UNCHANGED <<database, tree, raced>> /\ asked' \subseteq asked
    BY <1>11 DEF QueryAnswer
  <2>3. (page' = r.page /\ result' = Rows(r.db, r.page)) \/ nextOn' = FALSE
    BY <1>11 DEF QueryAnswer
  <2>4. QED
    BY <2>1, <2>2, <2>3
<1>12. QED
  BY <1>1, <1>2, <1>3, <1>4, <1>5, <1>6, <1>7, <1>8, <1>9, <1>10, <1>11 DEF ConsoleNext

(* The tables listed are those of the chosen database, and the next page   *)
(* continues the rows shown, unless a choice overtook an answer: loadSchema*)
(* forgets the page, and runQuery takes the database of its moment.        *)
THEOREM WorkbenchAgrees == ConsoleSpec => []WorkbenchIsConsistent
<1>1. ConsoleInit => WorkbenchInv
  BY DEF ConsoleInit, WorkbenchInv
<1>2. WorkbenchInv /\ [ConsoleNext]_consoleVars => WorkbenchInv'
  BY ConsoleStep
<1>3. WorkbenchInv => WorkbenchIsConsistent
  BY DEF WorkbenchInv, WorkbenchIsConsistent
<1>4. QED
  BY <1>1, <1>2, <1>3, PTL DEF ConsoleSpec

-----------------------------------------------------------------------------
(* The Bitcoin Signals page.                                               *)
AdminForms == {"rules", "backup", "collect"}

LEMMA FormFacts ==
  /\ Forms = {"review", "entry"} \cup AdminForms /\ Forms \cap Parts = {}
  /\ \A f \in Forms : \A p \in Affects[f] : p # "arbitrage" => p \in Reloads[f]
  /\ \A f \in Forms : "settings" \in Affects[f] => f \in AdminForms
  /\ \A f \in Forms : Reloads[f] \subseteq Parts
BY DEF Forms, Affects, Reloads, Parts, AdminForms

SignalsUiTypes ==
  /\ store \in [Parts -> 0 .. MaxVersion]
  /\ seen \in [Parts -> 0 .. MaxVersion \cup {Unserved}]
  /\ waiting \subseteq [kind : Parts \cup Forms, got : 0 .. MaxVersion \cup {Unserved}]
  /\ tabShown \in Parts

(* A form the server has stored, whose answer will load p again.           *)
Reloading(p) ==
  \E r \in waiting :
    r.kind \in Forms /\ r.got # Unserved /\ p \in Loads(Reloads[r.kind], access)

(* What p shows, or will show when the load in flight is answered, is what *)
(* the server has, unless a later load is certain.                         *)
PartOK(p) ==
  \/ Reloading(p)
  \/ IF Overlap({p})
     THEN \A r \in waiting : r.kind = p => r.got \in {Unserved, store[p]}
     ELSE seen[p] \in {Unserved, store[p]}

(* The inductive invariant.                                                *)
SignalsUiInv ==
  /\ SignalsUiTypes
  /\ \A r \in waiting : r.kind \in AdminForms => access = "admin"
  /\ signedIn /\ ~excused =>
       /\ \A r, q \in waiting : r.kind = q.kind /\ r.kind \in Parts => r = q
       /\ \A p \in Parts \ {"arbitrage"} : PartOK(p)

LEMMA SentFields ==
  ASSUME NEW kinds
  PROVE  /\ \A r \in Sent(kinds) : r.kind \in kinds /\ r.got = Unserved
         /\ \A k \in kinds : \E r \in Sent(kinds) : r.kind = k /\ r.got = Unserved
         /\ \A r, q \in Sent(kinds) : r.kind = q.kind => r = q
         /\ kinds \subseteq Parts \cup Forms =>
              Sent(kinds) \subseteq [kind : Parts \cup Forms,
                                    got : 0 .. MaxVersion \cup {Unserved}]
<1>1. \A r \in Sent(kinds) : \E k \in kinds : r = Waiting(k, Unserved)
  BY DEF Sent
<1>2. \A k \in kinds : Waiting(k, Unserved) \in Sent(kinds)
  BY DEF Sent
<1>3. \A k : Waiting(k, Unserved).kind = k /\ Waiting(k, Unserved).got = Unserved
  BY DEF Waiting
<1>4. \A k \in Parts \cup Forms : Waiting(k, Unserved) \in [kind : Parts \cup Forms,
                                              got : 0 .. MaxVersion \cup {Unserved}]
  BY DEF Waiting
<1>5. QED
  BY <1>1, <1>2, <1>3, <1>4

(* New loads of sections none of which is being loaded.                    *)
LEMMA LoadsSent ==
  ASSUME SignalsUiInv, NEW loads \in SUBSET Parts,
         waiting' = waiting \cup Sent(loads), excused' = (excused \/ Overlap(loads)),
         tabShown' \in Parts, UNCHANGED <<signedIn, access, store, seen>>
  PROVE  SignalsUiInv'
<1> USE DEF SignalsUiInv
<1>1. SignalsUiTypes'
  BY SentFields DEF SignalsUiTypes
<1>2. \A r \in waiting' : r.kind \in AdminForms => access' = "admin"
  <2>1. \A r \in Sent(loads) : r.kind \notin AdminForms
    BY SentFields, FormFacts
  <2>2. QED
    BY <2>1
<1>3. ASSUME signedIn', ~excused'
      PROVE  /\ \A r, q \in waiting' : r.kind = q.kind /\ r.kind \in Parts => r = q
             /\ \A p \in Parts \ {"arbitrage"} : PartOK(p)'
  <2>1. signedIn /\ ~excused /\ \A r \in waiting : r.kind \notin loads
    BY <1>3 DEF Overlap
  <2>2. \A r, q \in waiting' : r.kind = q.kind /\ r.kind \in Parts => r = q
    BY <2>1, SentFields
  <2>3. ASSUME NEW p \in Parts \ {"arbitrage"} PROVE PartOK(p)'
    <3>1. PartOK(p)
      BY <2>1
    <3>2. Reloading(p) => Reloading(p)'
      BY DEF Reloading
    <3>3. CASE p \in loads
      BY <2>1, <3>3, SentFields DEF PartOK, Overlap
    <3>4. CASE p \notin loads
      <4>1. \A r : r.kind = p => (r \in waiting' <=> r \in waiting)
        BY <3>4, SentFields
      <4>2. QED
        BY <3>1, <3>2, <4>1 DEF PartOK, Overlap
    <3>5. QED
      BY <3>3, <3>4
  <2>4. QED
    BY <2>2, <2>3
<1>4. QED
  BY <1>1, <1>2, <1>3

LEMMA WantedParts ==
  ASSUME NEW t \in Parts, NEW shown, NEW who
  PROVE  Wanted(t, shown, who) \subseteq Parts
BY DEF Wanted, Loads

(* An answer of a section, whose request is gone afterwards; loads is what *)
(* the first radar opens.                                                  *)
LEMMA PartShown ==
  ASSUME SignalsUiInv, NEW p \in Parts, NEW r \in waiting, Shows(r, p),
         NEW loads \in SUBSET Parts, loads = {} \/ (p = "radar" /\ ~started),
         waiting' = (waiting \ {r}) \cup Sent(loads),
         tabShown' \in Parts, access' = access \/ access = "unknown"
  PROVE  SignalsUiInv'
<1> USE DEF SignalsUiInv
<1>1. /\ r.kind = p /\ r.got \in 0 .. MaxVersion /\ r.got # Unserved
      /\ seen' = [seen EXCEPT ![p] = r.got] /\ UNCHANGED <<signedIn, store>>
      /\ excused' = (excused \/ (p = "radar" /\ ~started /\ waiting # {r}))
  BY DEF Shows, SignalsUiTypes
<1>2. SignalsUiTypes'
  BY <1>1, SentFields DEF SignalsUiTypes
<1>3. \A q \in waiting' : q.kind \in AdminForms => access' = "admin"
  <2>1. \A q \in Sent(loads) : q.kind \notin AdminForms
    BY SentFields, FormFacts
  <2>2. QED
    BY <2>1
<1>4. ASSUME signedIn', ~excused'
      PROVE  /\ \A q1, q2 \in waiting' : q1.kind = q2.kind /\ q1.kind \in Parts => q1 = q2
             /\ \A t \in Parts \ {"arbitrage"} : PartOK(t)'
  <2>1. signedIn /\ ~excused /\ (loads # {} => waiting = {r})
    BY <1>1, <1>4
  <2>2. CASE loads = {}
    <3>1. waiting' = waiting \ {r}
      BY <2>2 DEF Sent
    <3>2. ASSUME NEW t \in Parts \ {"arbitrage"} PROVE PartOK(t)'
      <4>1. PartOK(t)
        BY <2>1
      <4>2. Reloading(t) => Reloading(t)'
        <5>1. ASSUME NEW q \in waiting, q.kind \in Forms, q.got # Unserved,
                     t \in Loads(Reloads[q.kind], access)
              PROVE  q \in waiting' /\ t \in Loads(Reloads[q.kind], access')
          BY <1>1, <3>1, <5>1, FormFacts DEF Loads
        <5>2. QED
          BY <5>1 DEF Reloading
      <4>3. CASE t = p
        <5>1. \A q \in waiting' : q.kind # p
          BY <1>1, <2>1, <3>1
        <5>2. seen'[p] = r.got
          BY <1>1 DEF SignalsUiTypes
        <5>3. r.got = store[p] \/ Reloading(p)
          BY <1>1, <4>1, <4>3 DEF PartOK, Overlap
        <5>4. QED
          BY <1>1, <4>2, <4>3, <5>1, <5>2, <5>3 DEF PartOK, Overlap
      <4>4. CASE t # p
        <5>1. \A q : q.kind = t => (q \in waiting' <=> q \in waiting)
          BY <1>1, <3>1, <4>4
        <5>2. seen'[t] = seen[t]
          BY <1>1, <4>4 DEF SignalsUiTypes
        <5>3. QED
          BY <1>1, <4>1, <4>2, <5>1, <5>2 DEF PartOK, Overlap
      <4>5. QED
        BY <4>3, <4>4
    <3>3. QED
      BY <2>1, <3>1, <3>2
  <2>3. CASE loads # {}
    <3>1. waiting' = Sent(loads) /\ waiting = {r}
      BY <2>1, <2>3
    <3>2. ASSUME NEW t \in Parts \ {"arbitrage"} PROVE PartOK(t)'
      <4>1. CASE t \in loads
        BY <3>1, <4>1, SentFields DEF PartOK, Overlap
      <4>2. CASE t \notin loads
        <5>1. ~Overlap({t})' /\ ~Reloading(t)
          BY <1>1, <3>1, <4>2, SentFields, FormFacts DEF Overlap, Reloading
        <5>2. PartOK(t) /\ seen'[t] = IF t = p THEN r.got ELSE seen[t]
          BY <1>1, <2>1 DEF SignalsUiTypes
        <5>3. seen'[t] \in {Unserved, store[t]}
          BY <1>1, <3>1, <5>1, <5>2 DEF PartOK, Overlap
        <5>4. QED
          BY <1>1, <5>1, <5>3 DEF PartOK
      <4>3. QED
        BY <4>1, <4>2
    <3>3. QED
      BY <3>1, <3>2, SentFields
  <2>4. QED
    BY <2>2, <2>3
<1>5. QED
  BY <1>2, <1>3, <1>4

LEMMA AnswerStep ==
  ASSUME SignalsUiInv, NEW r \in waiting,
         RadarAnswer(r) \/ ArbitrageAnswer(r) \/ EvidenceAnswer(r) \/ StatusAnswered(r)
  PROVE  SignalsUiInv'
<1>1. PICK p \in Parts : Shows(r, p) /\ Ends(r) /\ (p # "radar" => access' = access)
      /\ (access' = access \/ access = "unknown")
  BY DEF RadarAnswer, ArbitrageAnswer, EvidenceAnswer, StatusAnswered, Parts
<1>2. r.kind = p /\ tabShown \in Parts
  BY <1>1 DEF Shows, SignalsUiInv, SignalsUiTypes
<1>3. CASE p = "radar" /\ ~started
  <2>1. PICK loads \in SUBSET Parts : waiting' = (waiting \ {r}) \cup Sent(loads)
    <3>1. tabShown' \in Parts
          /\ waiting' = (waiting \ {r}) \cup Sent(Wanted(tabShown', seen', access'))
      BY <1>1, <1>2, <1>3 DEF Ends
    <3>2. Wanted(tabShown', seen', access') \in SUBSET Parts
      BY <3>1, WantedParts
    <3>3. QED
      BY <3>1, <3>2
  <2>2. tabShown' \in Parts
    BY <1>1, <1>2, <1>3 DEF Ends
  <2>3. QED
    BY <1>1, <1>3, <2>1, <2>2, PartShown
<1>4. CASE ~(p = "radar" /\ ~started)
  <2>1. waiting' = waiting \ {r} /\ tabShown' \in Parts
    BY <1>1, <1>2, <1>4 DEF Ends
  <2>2. Sent({}) = {}
    BY DEF Sent
  <2>3. waiting' = (waiting \ {r}) \cup Sent({}) /\ {} \in SUBSET Parts
    BY <2>1, <2>2
  <2>4. QED
    BY <1>1, <2>1, <2>3, PartShown
<1>5. QED
  BY <1>3, <1>4

(* After a form's answer the sections it shows in are loaded again.        *)
LEMMA FormAnswerStep ==
  ASSUME SignalsUiInv, NEW r \in waiting, FormAnswer(r)
  PROVE  SignalsUiInv'
<1> USE DEF SignalsUiInv
<1> DEFINE loads == Loads(Reloads[r.kind], access)
<1>1. /\ r.kind \in Forms /\ waiting' = (waiting \ {r}) \cup Sent(loads)
      /\ excused' = (excused \/ Overlap(loads))
      /\ UNCHANGED <<signedIn, tabShown, started, access, store, seen>>
  BY DEF FormAnswer
<1>2. loads \subseteq Parts
  BY <1>1, FormFacts DEF Loads
<1> HIDE DEF loads
<1>3. SignalsUiTypes'
  BY <1>1, <1>2, SentFields DEF SignalsUiTypes
<1>4. \A q \in waiting' : q.kind \in AdminForms => access' = "admin"
  <2>1. \A q \in Sent(loads) : q.kind \notin AdminForms
    BY <1>2, SentFields, FormFacts
  <2>2. QED
    BY <1>1, <2>1
<1>5. ASSUME signedIn', ~excused'
      PROVE  /\ \A q1, q2 \in waiting' : q1.kind = q2.kind /\ q1.kind \in Parts => q1 = q2
             /\ \A t \in Parts \ {"arbitrage"} : PartOK(t)'
  <2>1. signedIn /\ ~excused /\ \A q \in waiting : q.kind \notin loads
    BY <1>1, <1>5 DEF Overlap
  <2>2. ASSUME NEW t \in Parts \ {"arbitrage"} PROVE PartOK(t)'
    <3>1. PartOK(t)
      BY <2>1
    <3>2. CASE t \in loads
      BY <1>1, <2>1, <3>2, SentFields DEF PartOK, Overlap
    <3>3. CASE t \notin loads
      <4>1. \A q : q.kind = t => (q \in waiting' <=> q \in waiting)
        BY <1>1, <3>3, SentFields, FormFacts
      <4>2. Reloading(t) => Reloading(t)'
        BY <1>1, <3>3 DEF Reloading, loads
      <4>3. QED
        BY <1>1, <3>1, <4>1, <4>2 DEF PartOK, Overlap
    <3>4. QED
      BY <3>2, <3>3
  <2>3. QED
    BY <1>1, <2>1, <2>2, SentFields
<1>6. QED
  BY <1>3, <1>4, <1>5

(* What a form changes is loaded again after its answer.                   *)
LEMMA ServeStep ==
  ASSUME SignalsUiInv, NEW r \in waiting, Serve(r)
  PROVE  SignalsUiInv'
<1> USE DEF SignalsUiInv
<1>1. /\ r.got = Unserved /\ UNCHANGED <<signedIn, tabShown, access, seen, excused>>
      /\ r.kind \in Parts \cup Forms /\ MaxVersion \in Nat /\ Unserved \notin 0 .. MaxVersion
  BY VersionsAreNumbers DEF Serve, SignalsUiTypes
<1>2. CASE r.kind \in Parts
  <2> DEFINE p == r.kind
             v == store[p]
             new == [kind |-> p, got |-> v]
  <2>1. waiting' = (waiting \ {r}) \cup {new} /\ store' = store /\ v \in 0 .. MaxVersion
    BY <1>2 DEF Serve, Waiting, SignalsUiTypes
  <2>2. new.kind = p /\ new.got = v
    OBVIOUS
  <2>3. new \in [kind : Parts \cup Forms, got : 0 .. MaxVersion \cup {Unserved}]
    BY <1>2, <2>1
  <2> HIDE DEF new, v
  <2>4. SignalsUiTypes'
    BY <1>1, <2>1, <2>3 DEF SignalsUiTypes
  <2>5. \A q \in waiting' : q.kind \in AdminForms => access' = "admin"
    BY <1>1, <2>1, <2>2
  <2>6. ASSUME signedIn', ~excused'
        PROVE  /\ \A q1, q2 \in waiting' : q1.kind = q2.kind /\ q1.kind \in Parts => q1 = q2
               /\ \A t \in Parts \ {"arbitrage"} : PartOK(t)'
    <3>1. \A q \in waiting : q.kind = p => q = r
      BY <1>1, <1>2, <2>6
    <3>2. ASSUME NEW t \in Parts \ {"arbitrage"} PROVE PartOK(t)'
      <4>1. PartOK(t)
        BY <1>1, <2>6
      <4>2. Reloading(t) => Reloading(t)'
        BY <1>1, <2>1 DEF Reloading
      <4>3. CASE t = p
        BY <2>1, <2>2, <3>1, <4>3 DEF PartOK, Overlap, v
      <4>4. CASE t # p
        <5>1. \A q : q.kind = t => (q \in waiting' <=> q \in waiting)
          BY <2>1, <2>2, <4>4
        <5>2. QED
          BY <1>1, <2>1, <4>1, <4>2, <5>1 DEF PartOK, Overlap
      <4>5. QED
        BY <4>3, <4>4
    <3>3. QED
      BY <1>1, <2>1, <2>2, <2>6, <3>1, <3>2
  <2>7. QED
    BY <2>4, <2>5, <2>6
<1>3. CASE r.kind \in Forms
  <2> DEFINE f == r.kind
             new == [kind |-> f, got |-> 0]
  <2>1. /\ waiting' = (waiting \ {r}) \cup {new} /\ r.kind \notin Parts
        /\ \A p \in Affects[f] : store[p] < MaxVersion
        /\ store' = [p \in Parts |-> IF p \in Affects[f] THEN store[p] + 1 ELSE store[p]]
    BY <1>3, FormFacts DEF Serve, Waiting
  <2>2. new.kind = f /\ new.got = 0 /\ 0 # Unserved
    BY <1>1
  <2>3. new \in [kind : Parts \cup Forms, got : 0 .. MaxVersion \cup {Unserved}]
    BY <1>1, <1>3
  <2> HIDE DEF new
  <2>4. store' \in [Parts -> 0 .. MaxVersion]
    <3>1. ASSUME NEW p \in Parts PROVE store'[p] \in 0 .. MaxVersion
      BY <1>1, <2>1 DEF SignalsUiTypes
    <3>2. QED
      BY <2>1, <3>1
  <2>5. SignalsUiTypes'
    BY <1>1, <2>1, <2>3, <2>4 DEF SignalsUiTypes
  <2>6. \A q \in waiting' : q.kind \in AdminForms => access' = "admin"
    BY <1>1, <2>1, <2>2
  <2>7. ASSUME signedIn', ~excused'
        PROVE  /\ \A q1, q2 \in waiting' : q1.kind = q2.kind /\ q1.kind \in Parts => q1 = q2
               /\ \A t \in Parts \ {"arbitrage"} : PartOK(t)'
    <3>1. ASSUME NEW t \in Parts \ {"arbitrage"} PROVE PartOK(t)'
      <4>1. PartOK(t)
        BY <1>1, <2>7
      <4>2. Reloading(t) => Reloading(t)'
        BY <1>1, <2>1 DEF Reloading
      <4>3. CASE t \in Affects[f]
        <5>1. t \in Loads(Reloads[f], access)
          BY <1>3, <4>3, FormFacts DEF Loads
        <5>2. QED
          BY <1>1, <1>3, <2>1, <2>2, <5>1 DEF PartOK, Reloading
      <4>4. CASE t \notin Affects[f]
        <5>1. \A q : q.kind = t => (q \in waiting' <=> q \in waiting)
          BY <2>1, <2>2
        <5>2. store'[t] = store[t]
          BY <2>1, <4>4
        <5>3. QED
          BY <1>1, <4>1, <4>2, <5>1, <5>2 DEF PartOK, Overlap
      <4>5. QED
        BY <4>3, <4>4
    <3>2. QED
      BY <1>1, <2>1, <2>2, <2>7, <3>1
  <2>8. QED
    BY <2>5, <2>6, <2>7
<1>4. QED
  BY <1>1, <1>2, <1>3

LEMMA SubmitStep ==
  ASSUME SignalsUiInv, NEW f \in Forms, Submit(f)
  PROVE  SignalsUiInv'
<1> USE DEF SignalsUiInv
<1>1. /\ waiting' = waiting \cup Sent({f}) /\ (f \in AdminForms => access = "admin")
      /\ UNCHANGED <<signedIn, tabShown, started, access, store, seen, excused>>
  BY DEF Submit, MayUse, AdminForms
<1>2. \A r \in Sent({f}) : r.kind = f /\ r.got = Unserved /\ r.kind \notin Parts
  BY SentFields, FormFacts
<1>3. SignalsUiTypes'
  BY <1>1, SentFields DEF SignalsUiTypes
<1>4. \A q \in waiting' : q.kind \in AdminForms => access' = "admin"
  BY <1>1, <1>2
<1>5. ASSUME NEW t \in Parts, PartOK(t) PROVE PartOK(t)'
  <2>1. \A q : q.kind = t => (q \in waiting' <=> q \in waiting)
    BY <1>1, <1>2
  <2>2. Reloading(t) => Reloading(t)'
    BY <1>1 DEF Reloading
  <2>3. QED
    BY <1>1, <1>5, <2>1, <2>2 DEF PartOK, Overlap
<1>6. QED
  BY <1>1, <1>2, <1>3, <1>4, <1>5

LEMMA SignalsUiStep ==
  ASSUME SignalsUiInv, [SignalsUiNext]_signalsUiVars
  PROVE  SignalsUiInv'
<1>1. CASE UNCHANGED signalsUiVars
  BY <1>1 DEF signalsUiVars, SignalsUiInv, SignalsUiTypes, PartOK, Reloading, Overlap
<1>2. ASSUME NEW p \in Parts, SelectTab(p) PROVE SignalsUiInv'
  <2>1. Wanted(p, seen, access) \in SUBSET Parts
    BY WantedParts
  <2>2. QED
    BY <1>2, <2>1, LoadsSent DEF SelectTab
<1>3. ASSUME NEW p \in Parts, LoadAgain(p) PROVE SignalsUiInv'
  <2>1. {p} \in SUBSET Parts /\ tabShown' \in Parts
    BY <1>3 DEF LoadAgain
  <2>2. QED
    BY <1>3, <2>1, LoadsSent DEF LoadAgain
<1>4. ASSUME NEW r \in waiting, Fails(r) PROVE SignalsUiInv'
  <2> USE DEF SignalsUiInv
  <2>1. excused' = TRUE /\ UNCHANGED <<signedIn, access, store, seen>> /\ tabShown' \in Parts
    BY <1>4 DEF Fails, Ends, SignalsUiTypes
  <2>2. PICK loads \in SUBSET Parts : waiting' = (waiting \ {r}) \cup Sent(loads)
    <3>1. CASE r.kind = "radar" /\ ~started
      <4>1. Wanted(tabShown', seen', access') \in SUBSET Parts
        BY <2>1, WantedParts
      <4>2. QED
        BY <1>4, <3>1, <4>1 DEF Fails, Ends
    <3>2. CASE ~(r.kind = "radar" /\ ~started)
      <4>1. waiting' = (waiting \ {r}) \cup Sent({})
        BY <1>4, <3>2 DEF Fails, Ends, Sent
      <4>2. QED
        BY <4>1
    <3>3. QED
      BY <3>1, <3>2
  <2>3. SignalsUiTypes'
    BY <2>1, <2>2, SentFields DEF SignalsUiTypes
  <2>4. \A q \in Sent(loads) : q.kind \notin AdminForms
    BY SentFields, FormFacts
  <2>5. QED
    BY <2>1, <2>2, <2>3, <2>4
<1>5. CASE LeavePage
  BY <1>5 DEF LeavePage, SignalsUiInv, SignalsUiTypes
<1>6. QED
  BY <1>1, <1>2, <1>3, <1>4, <1>5, SubmitStep, ServeStep, FormAnswerStep, AnswerStep
  DEF SignalsUiNext

LEMMA SignalsUiStarts == SignalsUiInit => SignalsUiInv
<1> SUFFICES ASSUME SignalsUiInit PROVE SignalsUiInv
  OBVIOUS
<1>1. SignalsUiTypes
  <2>1. {"radar"} \subseteq Parts
    BY DEF Parts
  <2>2. QED
    BY <2>1, SentFields, VersionsAreNumbers DEF SignalsUiInit, SignalsUiTypes
<1>2. waiting = Sent({"radar"}) /\ seen = [p \in Parts |-> Unserved]
  BY DEF SignalsUiInit
<1>3. \A r, q \in waiting : r.kind = q.kind /\ r.kind \in Parts => r = q
  BY <1>2, SentFields
<1>4. \A r \in waiting : r.kind \notin AdminForms /\ r.got = Unserved
  BY <1>2, SentFields DEF AdminForms
<1>5. \A p \in Parts : PartOK(p)
  BY <1>2, <1>4 DEF PartOK
<1>6. QED
  BY <1>1, <1>3, <1>4, <1>5 DEF SignalsUiInv

(* Once everything is answered the section on screen shows every change    *)
(* the page made: each form loads again, after the server stored it, all   *)
(* it shows in but the arbitrage section, which is excepted.               *)
THEOREM ChangesBecomeVisible == SignalsUiSpec => []ChangesAreShown
<1>1. SignalsUiInv => ChangesAreShown
  <2> SUFFICES ASSUME SignalsUiInv, signedIn, waiting = {}, ~excused, tabShown # "arbitrage"
               PROVE  seen[tabShown] \in {Unserved, store[tabShown]}
    BY DEF ChangesAreShown
  <2>1. PartOK(tabShown)
    BY DEF SignalsUiInv, SignalsUiTypes
  <2>2. ~Reloading(tabShown) /\ ~Overlap({tabShown})
    BY DEF Reloading, Overlap
  <2>3. QED
    BY <2>1, <2>2 DEF PartOK
<1>2. QED
  BY <1>1, SignalsUiStarts, SignalsUiStep, PTL DEF SignalsUiSpec

-----------------------------------------------------------------------------
(* The analytics dashboard.                                                *)
Kinds ==
  {"idle", "login", "sites", "select", "create", "created", "load", "status", "save",
   "domain", "detail", "member", "members"}

Askers == {"page", "login", "create"}

Flight ==
  [kind : Kinds, site : Sites \cup {NoSite}, tab : Tabs, range : Ranges, domain : Domains,
   cur : BOOLEAN, frees : BOOLEAN, by : Askers]

(* A request about a site names one; a status is asked by the search tab.  *)
FlightOK(f) ==
  /\ f \in Flight
  /\ f.kind = "status" => f.tab = "search"
  /\ f.kind \notin {"idle", "login", "sites"} => f.site \in Sites

FlightTypes == flight \in [Slots -> Flight] /\ \A q \in Slots : FlightOK(flight[q])

PageTypes ==
  /\ view \in {"login", "app"}
  /\ site \in Sites \cup {NoSite} /\ range \in Ranges /\ domain \in Domains /\ tab \in Tabs
  /\ loaded \subseteq Tabs
  /\ panel \in [Tabs -> Answers \cup {Blank, Failed}]
  /\ form \in Sites \cup {NoSite}
  /\ {busy, crossed, drifted} \subseteq BOOLEAN
  /\ url \in [site : Sites \cup {NoSite}, range : Ranges, domain : Domains, tab : Tabs]

(* A load whose answer will be shown.                                      *)
LoadOf(q) == flight[q].kind \in {"load", "status"} /\ flight[q].cur

SiteOK ==
  ~crossed /\ site # NoSite =>
    /\ \A t \in loaded : panel[t] \in Answers => panel[t].site = site
    /\ "settings" \in loaded => form = site
    /\ \A q \in Slots : LoadOf(q) => flight[q].site = site

FilterOK ==
  ~crossed /\ ~drifted /\ site # NoSite =>
    /\ \A t \in loaded : panel[t] \in Answers =>
         panel[t].range = range /\ (t # "search" => panel[t].domain = domain)
    /\ \A q \in Slots : LoadOf(q) /\ flight[q].tab \in loaded =>
         /\ flight[q].range = range
         /\ flight[q].tab # "search" => flight[q].domain = domain

(* The inductive invariant: what is to arrive agrees with the header too.  *)
DashboardInv == PageTypes /\ FlightTypes /\ SiteOK /\ FilterOK

LEMMA Vocabulary ==
  /\ {"overview", "search", "settings"} \cup Reports = Tabs
  /\ AllHosts \in Domains /\ DefaultRange \in Ranges /\ NoSite \notin Sites
  /\ \A s \in Sites : Hosts[s] \subseteq Domains
BY OwnedAreSites, DefaultIsRange DEF Tabs, Domains

LEMMA AnswerFields ==
  /\ \A s, r, d : /\ Answer(s, r, d).error = FALSE /\ Answer(s, r, d).site = s
                  /\ Answer(s, r, d).range = r /\ Answer(s, r, d).domain = d
  /\ \A s \in Sites, r \in Ranges, d \in Domains : Answer(s, r, d) \in Answers
  /\ \A a \in Answers : \E s \in Sites, r \in Ranges, d \in Domains : a = Answer(s, r, d)
  /\ Blank \notin Answers /\ Failed \notin Answers /\ Blank # Failed
<1>1. \A s, r, d : /\ Answer(s, r, d).error = FALSE /\ Answer(s, r, d).site = s
                  /\ Answer(s, r, d).range = r /\ Answer(s, r, d).domain = d
  BY DEF Answer
<1>2. \A s \in Sites, r \in Ranges, d \in Domains : Answer(s, r, d) \in Answers
  BY DEF Answers
<1>3. \A a \in Answers : \E s \in Sites, r \in Ranges, d \in Domains : a = Answer(s, r, d)
  BY DEF Answers
<1>4. \A a \in Answers : a.error = FALSE /\ a.site # NoSite
  BY <1>1, <1>3, Vocabulary
<1>5. Blank.site = NoSite /\ Blank.error = FALSE
  BY <1>1 DEF Blank
<1>6. Failed.error = TRUE
  BY DEF Failed, Blank, Answer
<1>7. QED
  BY <1>1, <1>2, <1>3, <1>4, <1>5, <1>6

LEMMA AnswerOfAnother ==
  ASSUME NEW a \in Answers, NEW z \in Sites, NEW b, b = [a EXCEPT !.site = z]
  PROVE  b \in Answers /\ b.site = z /\ b.range = a.range /\ b.domain = a.domain
<1>1. PICK s \in Sites, r \in Ranges, d \in Domains : a = Answer(s, r, d)
  BY AnswerFields
<1>2. PICK e : e = FALSE
  OBVIOUS
<1>3. a = [error |-> e, site |-> s, range |-> r, domain |-> d]
  BY <1>1, <1>2, Zenon DEF Answer
<1>4. b = [error |-> e, site |-> z, range |-> r, domain |-> d]
  BY <1>3
<1>5. b = Answer(z, r, d)
  BY <1>2, <1>4, Zenon DEF Answer
<1>6. b \in Answers
  BY <1>5, AnswerFields, Zenon
<1>7. b.site = z /\ b.range = a.range /\ b.domain = a.domain
  BY <1>3, <1>4
<1>8. QED
  BY <1>6, <1>7

LEMMA RequestShape ==
  ASSUME NEW k \in Kinds
  PROVE  /\ Request(k) \in Flight
         /\ Request(k).kind = k /\ Request(k).tab = "overview" /\ Request(k).cur
<1>1. "overview" \in Tabs /\ DefaultRange \in Ranges /\ AllHosts \in Domains
      /\ "page" \in Askers
  BY Vocabulary DEF Tabs, Askers
<1>2. QED
  BY <1>1 DEF Request, Flight

(* Requests that bring no answer for a panel.                              *)
LEMMA AskedShape ==
  ASSUME NEW k \in {"select", "create", "save", "domain", "member"}, NEW s \in Sites,
         NEW by \in Askers
  PROVE  LET f == [Request(k) EXCEPT !.site = s, !.by = by]
         IN  FlightOK(f) /\ f.kind = k
<1> DEFINE f == [Request(k) EXCEPT !.site = s, !.by = by]
<1>1. Request(k) \in Flight /\ Request(k).kind = k
  BY RequestShape DEF Kinds
<1>2. f \in Flight /\ f.kind = k /\ f.site = s
  BY <1>1 DEF Flight
<1>3. QED
  BY <1>2 DEF FlightOK

LEMMA IdleShape == FlightOK(Idle) /\ Idle.kind = "idle"
BY RequestShape DEF Idle, Kinds, FlightOK

(* A load of tab t for site s and the filters r and d.                     *)
IsLoad(f, t, s, r, d) ==
  /\ FlightOK(f) /\ f.kind \in {"load", "status"} /\ f.cur
  /\ f.tab = t /\ f.site = s /\ f.range = r /\ f.domain = d

LEMMA LoadingShape ==
  ASSUME NEW t \in Tabs, NEW s \in Sites, NEW r \in Ranges, NEW d \in Domains,
         NEW by \in Askers
  PROVE  \A frees \in BOOLEAN : IsLoad(Loading(t, s, r, d, frees, by), t, s, r, d)
<1> TAKE frees \in BOOLEAN
<1>1. PICK k : k = IF t = "search" THEN "status" ELSE "load"
  OBVIOUS
<1>2. k \in Kinds /\ k \in {"load", "status"} /\ (k = "status" => t = "search")
  BY <1>1 DEF Kinds
<1>3. PICK f : f = [Request(k) EXCEPT !.tab = t, !.site = s, !.range = r, !.domain = d,
                                      !.frees = frees, !.by = by]
  OBVIOUS
<1>4. Request(k) \in Flight /\ Request(k).kind = k /\ Request(k).cur
  BY <1>2, RequestShape
<1>5. f \in Flight
  BY <1>3, <1>4 DEF Flight
<1>6. f.kind = k /\ f.cur /\ f.tab = t /\ f.site = s /\ f.range = r /\ f.domain = d
  BY <1>3, <1>4 DEF Flight
<1>7. IsLoad(f, t, s, r, d)
  BY <1>2, <1>5, <1>6 DEF FlightOK, IsLoad
<1>8. f = Loading(t, s, r, d, frees, by)
  BY <1>1, <1>3, Zenon DEF Loading
<1>9. QED
  BY <1>7, <1>8, Zenon

LEMMA SetFlight ==
  ASSUME FlightTypes, NEW q \in Slots, NEW f, FlightOK(f), flight' = [flight EXCEPT ![q] = f]
  PROVE  /\ FlightTypes'
         /\ flight'[q] = f /\ \A r \in Slots \ {q} : flight'[r] = flight[r]
<1>1. flight'[q] = f /\ \A r \in Slots \ {q} : flight'[r] = flight[r]
  BY DEF FlightTypes
<1>2. flight' \in [Slots -> Flight]
  BY DEF FlightTypes, FlightOK
<1>3. \A r \in Slots : FlightOK(flight'[r])
  BY <1>1 DEF FlightTypes
<1>4. QED
  BY <1>1, <1>2, <1>3 DEF FlightTypes

(* After a switch of site no load in flight will be shown.                 *)
LEMMA SelectStep ==
  ASSUME FlightTypes, NEW q \in Slots, NEW s \in Sites, NEW by \in Askers, Select(q, s, by)
  PROVE  FlightTypes' /\ busy' = TRUE /\ \A r \in Slots : ~LoadOf(r)'
<1> DEFINE new == [Request("select") EXCEPT !.site = s, !.by = by]
           still(r) == flight[r].cur /\ flight[r].kind \notin {"select", "load", "status"}
           old(r) == [flight[r] EXCEPT !.cur = still(r)]
<1>1. FlightOK(new) /\ new.kind = "select"
  <2>1. "select" \in {"select", "create", "save", "domain", "member"}
    OBVIOUS
  <2>2. QED
    BY <2>1, AskedShape
<1>2. \A r \in Slots : old(r) \in Flight /\ old(r).kind = flight[r].kind
                       /\ old(r).tab = flight[r].tab /\ old(r).site = flight[r].site
                       /\ (old(r).cur => flight[r].kind \notin {"select", "load", "status"})
  BY DEF FlightTypes, FlightOK, Flight
<1>3. flight' = [[r \in Slots |-> old(r)] EXCEPT ![q] = new] /\ busy' = TRUE
  BY DEF Select, Outdated
<1> HIDE DEF new, old
<1>4. flight'[q] = new /\ \A r \in Slots \ {q} : flight'[r] = old(r)
  BY <1>3
<1>5. \A r \in Slots : FlightOK(flight'[r])
  BY <1>1, <1>2, <1>4 DEF FlightTypes, FlightOK
<1>6. flight' \in [Slots -> Flight]
  BY <1>3, <1>5 DEF FlightOK
<1>7. \A r \in Slots : ~LoadOf(r)'
  BY <1>1, <1>2, <1>4 DEF LoadOf
<1>8. QED
  BY <1>3, <1>5, <1>6, <1>7 DEF FlightTypes

(* A step after which nothing new is shown or will be.                     *)
LEMMA NothingShown ==
  ASSUME DashboardInv, PageTypes', FlightTypes', UNCHANGED <<panel, loaded, form, crossed>>,
         site' \in {site, NoSite},
         ~drifted' => ~drifted /\ range' = range /\ domain' = domain,
         \A r \in Slots : LoadOf(r)' => LoadOf(r) /\ flight'[r] = flight[r]
  PROVE  DashboardInv'
<1> USE DEF DashboardInv
<1>1. SiteOK'
  BY DEF SiteOK
<1>2. FilterOK'
  BY DEF FilterOK
<1>3. QED
  BY <1>1, <1>2

(* A request that ends, or goes on as one that fills no panel.             *)
LEMMA OtherRequest ==
  ASSUME DashboardInv, NEW q \in Slots, NEW f, FlightOK(f), flight' = [flight EXCEPT ![q] = f],
         f.kind \notin {"load", "status"}, PageTypes',
         UNCHANGED <<panel, loaded, form, crossed, drifted, range, domain>>,
         site' \in {site, NoSite}
  PROVE  DashboardInv'
<1>1. FlightTypes' /\ flight'[q] = f /\ \A r \in Slots \ {q} : flight'[r] = flight[r]
  BY SetFlight DEF DashboardInv
<1>2. \A r \in Slots : LoadOf(r)' => LoadOf(r) /\ flight'[r] = flight[r]
  BY <1>1 DEF LoadOf
<1>3. QED
  BY <1>1, <1>2, NothingShown

LEMMA SettledStep ==
  ASSUME FlightTypes, NEW q \in Slots, Settled(q), busy \in BOOLEAN
  PROVE  /\ FlightTypes' /\ flight' = [flight EXCEPT ![q] = Idle] /\ busy' \in BOOLEAN
         /\ \A r \in Slots : LoadOf(r)' => LoadOf(r) /\ flight'[r] = flight[r]
<1>1. flight' = [flight EXCEPT ![q] = Idle] /\ busy' \in BOOLEAN
  BY DEF Settled, Releases
<1>2. FlightTypes' /\ flight'[q] = Idle /\ \A r \in Slots \ {q} : flight'[r] = flight[r]
  BY <1>1, SetFlight, IdleShape
<1>3. QED
  BY <1>1, <1>2, IdleShape DEF LoadOf

LEMMA SelectOnly ==
  ASSUME DashboardInv, NEW q \in Slots, NEW s \in Sites, NEW by \in Askers, Select(q, s, by),
         UNCHANGED <<view, site, range, domain, tab, loaded, panel, form, url, crossed, drifted>>
  PROVE  DashboardInv'
<1>1. FlightTypes' /\ busy' = TRUE /\ \A r \in Slots : ~LoadOf(r)'
  BY SelectStep DEF DashboardInv
<1>2. PageTypes'
  BY <1>1 DEF DashboardInv, PageTypes
<1>3. QED
  BY <1>1, <1>2, NothingShown

LEMMA SignInStep ==
  ASSUME DashboardInv, NEW q \in Slots, SignIn(q) \/ SignInAnswer(q) \/ SelectDropped(q)
                                        \/ SettingsFail(q)
  PROVE  DashboardInv'
<1>1. PICK f : /\ flight' = [flight EXCEPT ![q] = f]
               /\ f \in {[Request("login") EXCEPT !.by = "login"],
                         [Request("sites") EXCEPT !.by = "login"], Idle}
  BY DEF SignIn, SignInAnswer, SelectDropped, SettingsFail
<1>2. FlightOK(f) /\ f.kind \in {"login", "sites", "idle"}
  <2>1. FlightOK([Request("login") EXCEPT !.by = "login"])
        /\ [Request("login") EXCEPT !.by = "login"].kind = "login"
    BY RequestShape DEF Kinds, FlightOK, Flight, Askers
  <2>2. FlightOK([Request("sites") EXCEPT !.by = "login"])
        /\ [Request("sites") EXCEPT !.by = "login"].kind = "sites"
    BY RequestShape DEF Kinds, FlightOK, Flight, Askers
  <2>3. QED
    BY <1>1, <2>1, <2>2, IdleShape
<1>3. PageTypes' /\ UNCHANGED <<site, panel, loaded, form, crossed, drifted, range, domain>>
  BY DEF SignIn, SignInAnswer, SelectDropped, SettingsFail, DashboardInv, PageTypes
<1>4. QED
  BY <1>1, <1>2, <1>3, OtherRequest

LEMMA SitesAnswerStep ==
  ASSUME DashboardInv, NEW q \in Slots, SitesAnswer(q)
  PROVE  DashboardInv'
<1>1. CASE \E s \in Sites : Select(q, s, flight[q].by) /\ view' = view
  <2>1. PICK s \in Sites, by \in Askers : Select(q, s, by) /\ view' = view
    BY <1>1 DEF DashboardInv, FlightTypes, FlightOK, Flight
  <2>2. QED
    BY <2>1, SelectOnly DEF SitesAnswer
<1>2. CASE flight' = [flight EXCEPT ![q] = Idle] /\ UNCHANGED busy
  <2>1. PageTypes' /\ UNCHANGED <<site, panel, loaded, form, crossed, drifted, range, domain>>
    BY <1>2 DEF SitesAnswer, ShowLogin, DashboardInv, PageTypes
  <2>2. QED
    BY <1>2, <2>1, IdleShape, OtherRequest
<1>3. QED
  BY <1>1, <1>2 DEF SitesAnswer

LEMMA SignOutStep ==
  ASSUME DashboardInv, SignOut \/ \E q \in Slots : Unauthorized(q)
  PROVE  DashboardInv'
<1>1. CASE SignOut
  <2>1. PageTypes' /\ FlightTypes'
        /\ UNCHANGED <<panel, loaded, form, crossed, drifted, range, domain, flight>>
        /\ site' = NoSite
    BY <1>1 DEF SignOut, SignOutLocal, ShowLogin, DashboardInv, PageTypes, FlightTypes
  <2>2. QED
    BY <2>1, NothingShown DEF LoadOf
<1>2. ASSUME NEW q \in Slots, Unauthorized(q) PROVE DashboardInv'
  <2>1. /\ Settled(q) /\ site' = NoSite /\ view' = "login"
        /\ UNCHANGED <<range, domain, tab, loaded, panel, form, url, crossed, drifted>>
    BY <1>2 DEF Unauthorized, SignOutLocal, ShowLogin
  <2>2. /\ FlightTypes' /\ busy' \in BOOLEAN
        /\ \A r \in Slots : LoadOf(r)' => LoadOf(r) /\ flight'[r] = flight[r]
    BY <2>1, SettledStep DEF DashboardInv, PageTypes
  <2>3. PageTypes'
    BY <2>1, <2>2 DEF DashboardInv, PageTypes
  <2>4. QED
    BY <2>1, <2>2, <2>3, NothingShown
<1>3. QED
  BY <1>1, <1>2

LEMMA ChooseSiteStep ==
  ASSUME DashboardInv, NEW q \in Slots, NEW s \in Sites, ChooseSite(q, s)
  PROVE  DashboardInv'
<1>1. /\ Select(q, s, "page") /\ domain' = AllHosts
      /\ drifted' = (drifted \/ domain # AllHosts)
      /\ UNCHANGED <<view, site, range, tab, loaded, panel, form, url, crossed>>
  BY DEF ChooseSite
<1>2. FlightTypes' /\ busy' = TRUE /\ \A r \in Slots : ~LoadOf(r)'
  BY <1>1, SelectStep DEF DashboardInv, Askers
<1>3. PageTypes'
  BY <1>1, <1>2, Vocabulary DEF DashboardInv, PageTypes
<1>4. QED
  BY <1>1, <1>2, <1>3, NothingShown

LEMMA ChooseCustomStep ==
  ASSUME DashboardInv, ChooseCustom
  PROVE  DashboardInv'
<1>1. PageTypes' /\ FlightTypes' /\ drifted'
      /\ UNCHANGED <<site, panel, loaded, form, crossed, flight>>
  BY Vocabulary DEF ChooseCustom, DashboardInv, PageTypes, FlightTypes
<1>2. QED
  BY <1>1, NothingShown DEF LoadOf

LEMMA CreateStep ==
  ASSUME DashboardInv, NEW q \in Slots, CreateAnswer(q) \/ \E s \in Sites : CreateSite(q, s)
  PROVE  DashboardInv'
<1>1. CASE InFlight(q, "created") /\ Select(q, flight[q].site, "create") /\ CreateAnswer(q)
  <2>1. PICK s \in Sites : Select(q, s, "create")
    BY <1>1 DEF InFlight, DashboardInv, FlightTypes, FlightOK
  <2>2. QED
    BY <1>1, <2>1, SelectOnly DEF CreateAnswer, Askers
<1>2. ASSUME UNCHANGED busy, NEW f, FlightOK(f), f.kind \in {"create", "created", "idle"},
             flight' = [flight EXCEPT ![q] = f],
             CreateAnswer(q) \/ \E s \in Sites : CreateSite(q, s)
      PROVE  DashboardInv'
  <2>1. PageTypes' /\ UNCHANGED <<site, panel, loaded, form, crossed, drifted, range, domain>>
    BY <1>2 DEF CreateAnswer, CreateSite, DashboardInv, PageTypes
  <2>2. QED
    BY <1>2, <2>1, OtherRequest
<1>3. ASSUME NEW s \in Sites, CreateSite(q, s) PROVE DashboardInv'
  <2>1. PICK f : /\ flight' = [flight EXCEPT ![q] = f] /\ UNCHANGED busy
                 /\ f = [Request("create") EXCEPT !.site = s, !.by = "create"]
    BY <1>3 DEF CreateSite
  <2>2. FlightOK(f) /\ f.kind = "create"
    <3>1. "create" \in {"select", "create", "save", "domain", "member"} /\ "create" \in Askers
      BY DEF Askers
    <3>2. QED
      BY <2>1, <3>1, AskedShape
  <2>3. QED
    BY <1>2, <1>3, <2>1, <2>2
<1>4. CASE CreateAnswer(q) /\ InFlight(q, "create")
           /\ flight' = [flight EXCEPT ![q].kind = "created"] /\ UNCHANGED busy
  <2>1. PICK f : f = [flight[q] EXCEPT !.kind = "created"]
    OBVIOUS
  <2>2. flight' = [flight EXCEPT ![q] = f]
    BY <1>4, <2>1
  <2>3. FlightOK(flight[q]) /\ flight[q].kind = "create"
    BY <1>4 DEF InFlight, DashboardInv, FlightTypes
  <2>4. f \in Flight /\ f.kind = "created" /\ f.site = flight[q].site
    BY <2>1, <2>3 DEF FlightOK, Flight, Kinds
  <2>5. FlightOK(f)
    BY <2>3, <2>4 DEF FlightOK
  <2>6. QED
    BY <1>2, <1>4, <2>2, <2>4, <2>5
<1>5. CASE CreateAnswer(q) /\ flight' = [flight EXCEPT ![q] = Idle] /\ UNCHANGED busy
  BY <1>2, <1>5, IdleShape
<1>6. QED
  BY <1>1, <1>3, <1>4, <1>5 DEF CreateAnswer

LEMMA UrlStays ==
  ASSUME PageTypes, NEW s \in Sites \cup {NoSite}, NEW r \in Ranges, NEW d \in Domains,
         NEW t \in Tabs, UpdateUrl(s, r, d, t)
  PROVE  url' \in [site : Sites \cup {NoSite}, range : Ranges, domain : Domains, tab : Tabs]
BY DEF UpdateUrl, PageTypes

(* A tab loaded again: what it shows, and what any tab still loaded shows, *)
(* is for the parameters now chosen.                                       *)
LEMMA ReloadStep ==
  ASSUME DashboardInv, NEW q \in Slots, NEW t \in Tabs, NEW r \in Ranges, NEW d \in Domains,
         NEW keep \in {loaded, {}}, ReloadTab(q, t, site, r, d, keep),
         keep # {} => r = range /\ d = domain,
         range' = r, domain' = d, tab' \in Tabs, UNCHANGED <<view, site, busy, crossed>>,
         url' \in [site : Sites \cup {NoSite}, range : Ranges, domain : Domains, tab : Tabs]
  PROVE  DashboardInv'
<1> USE DEF DashboardInv
<1>1. CASE site = NoSite
  <2>1. loaded' = keep /\ UNCHANGED <<flight, panel, form, drifted>>
    BY <1>1 DEF ReloadTab
  <2>2. PageTypes' /\ FlightTypes'
    BY <2>1 DEF PageTypes, FlightTypes
  <2>3. QED
    BY <1>1, <2>2 DEF SiteOK, FilterOK
<1>2. CASE site # NoSite
  <2>1. site \in Sites /\ crossed' = crossed /\ site' = site
    BY <1>2 DEF PageTypes
  <2>2. PICK f : f = Loading(t, site, r, d, FALSE, "page")
    OBVIOUS
  <2>3. /\ FlightOK(f) /\ f.kind \in {"load", "status"} /\ f.cur
        /\ f.tab = t /\ f.site = site /\ f.range = r /\ f.domain = d
    <3>1. "page" \in Askers
      BY DEF Askers
    <3>2. IsLoad(f, t, site, r, d)
      BY <2>1, <2>2, <3>1, LoadingShape, Zenon
    <3>3. QED
      BY <3>2 DEF IsLoad
  <2>4. /\ loaded' = keep \cup {t} /\ flight' = [flight EXCEPT ![q] = f]
        /\ panel' = [u \in Tabs |-> IF u \in keep \ {t} THEN panel[u] ELSE Blank]
        /\ form' = FillForms(t, site)
        /\ drifted' = (\/ LoadsInFlight(t) # {}
                       \/ drifted /\ (keep # {} \/ \E u \in Tabs : LoadsInFlight(u) # {}))
    BY <1>2, <2>2 DEF ReloadTab
  <2>5. FlightTypes' /\ flight'[q] = f /\ \A p \in Slots \ {q} : flight'[p] = flight[p]
    BY <2>3, <2>4, SetFlight
  <2>6. PageTypes'
    <3>1. form' \in Sites \cup {NoSite}
      BY <2>1, <2>4 DEF FillForms, PageTypes
    <3>2. panel' \in [Tabs -> Answers \cup {Blank, Failed}] /\ loaded' \subseteq Tabs
      BY <2>4 DEF PageTypes
    <3>3. drifted' \in BOOLEAN
      BY <2>4
    <3>4. QED
      BY <3>1, <3>2, <3>3 DEF PageTypes
  <2>7. \A u \in loaded' : panel'[u] \in Answers => u \in keep \ {t} /\ panel'[u] = panel[u]
    BY <2>4, AnswerFields DEF PageTypes
  <2>8. SiteOK'
    <3> SUFFICES ASSUME ~crossed
                 PROVE  /\ \A u \in loaded' : panel'[u] \in Answers => panel'[u].site = site
                        /\ "settings" \in loaded' => form' = site
                        /\ \A p \in Slots : LoadOf(p)' => flight'[p].site = site
      BY <2>1 DEF SiteOK
    <3>1. \A u \in loaded' : panel'[u] \in Answers => panel'[u].site = site
      BY <1>2, <2>7 DEF SiteOK
    <3>2. "settings" \in loaded' => form' = site
      BY <1>2, <2>4 DEF SiteOK, FillForms
    <3>3. \A p \in Slots : LoadOf(p)' => flight'[p].site = site
      BY <1>2, <2>3, <2>5 DEF SiteOK, LoadOf
    <3>4. QED
      BY <3>1, <3>2, <3>3
  <2>9. FilterOK'
    <3> SUFFICES ASSUME ~crossed, ~drifted'
                 PROVE  /\ \A u \in loaded' : panel'[u] \in Answers =>
                             panel'[u].range = r /\ (u # "search" => panel'[u].domain = d)
                        /\ \A p \in Slots : LoadOf(p)' /\ flight'[p].tab \in loaded' =>
                             /\ flight'[p].range = r
                             /\ flight'[p].tab # "search" => flight'[p].domain = d
      BY <2>1 DEF FilterOK
    <3>1. LoadsInFlight(t) = {} /\ (keep # {} => ~drifted)
      BY <2>4
    <3>2. \A p \in Slots : LoadOf(p) => flight[p].tab # t
      BY <3>1 DEF LoadOf, LoadsInFlight
    <3>3. keep # {} =>
            /\ \A u \in loaded : panel[u] \in Answers =>
                 panel[u].range = r /\ (u # "search" => panel[u].domain = d)
            /\ \A p \in Slots : LoadOf(p) /\ flight[p].tab \in loaded =>
                 flight[p].range = r /\ (flight[p].tab # "search" => flight[p].domain = d)
      BY <1>2, <3>1 DEF FilterOK
    <3>4. \A p \in Slots \ {q} : LoadOf(p)' /\ flight'[p].tab \in loaded' =>
            LoadOf(p) /\ flight[p].tab \in keep
      BY <2>4, <2>5, <3>2 DEF LoadOf
    <3>5. \A u \in loaded' : panel'[u] \in Answers =>
            panel'[u].range = r /\ (u # "search" => panel'[u].domain = d)
      BY <2>7, <3>3
    <3>6. \A p \in Slots : LoadOf(p)' /\ flight'[p].tab \in loaded' =>
            flight'[p].range = r /\ (flight'[p].tab # "search" => flight'[p].domain = d)
      BY <2>3, <2>5, <3>3, <3>4
    <3>7. QED
      BY <3>5, <3>6
  <2>10. QED
    BY <2>5, <2>6, <2>8, <2>9
<1>3. QED
  BY <1>1, <1>2

LEMMA SetTabStep ==
  ASSUME DashboardInv, NEW q \in Slots, NEW t \in Tabs, SetTab(q, t)
  PROVE  DashboardInv'
<1>1. url' \in [site : Sites \cup {NoSite}, range : Ranges, domain : Domains, tab : Tabs]
  BY UrlStays DEF SetTab, DashboardInv, PageTypes
<1>2. CASE t \in loaded
  <2>1. PageTypes' /\ FlightTypes'
        /\ UNCHANGED <<site, panel, loaded, form, crossed, drifted, range, domain, flight>>
    BY <1>1, <1>2 DEF SetTab, DashboardInv, PageTypes, FlightTypes
  <2>2. QED
    BY <2>1, NothingShown DEF LoadOf
<1>3. CASE t \notin loaded
  <2>1. /\ ReloadTab(q, t, site, range, domain, loaded)
        /\ UNCHANGED <<view, site, range, domain, busy, crossed>> /\ tab' \in Tabs
    BY <1>3 DEF SetTab
  <2>2. PICK r \in Ranges, d \in Domains, keep \in {loaded, {}} :
          r = range /\ d = domain /\ keep = loaded
    BY DEF DashboardInv, PageTypes
  <2>3. ReloadTab(q, t, site, r, d, keep) /\ range' = r /\ domain' = d
    BY <2>1, <2>2
  <2>4. QED
    BY <1>1, <2>1, <2>2, <2>3, ReloadStep
<1>4. QED
  BY <1>2, <1>3

LEMMA ChangeFiltersStep ==
  ASSUME DashboardInv, NEW q \in Slots, NEW r \in Ranges, NEW d \in Domains,
         ChangeFilters(q, r, d)
  PROVE  DashboardInv'
<1>1. url' \in [site : Sites \cup {NoSite}, range : Ranges, domain : Domains, tab : Tabs]
  BY UrlStays DEF ChangeFilters, DashboardInv, PageTypes
<1>2. tab \in Tabs
  BY DEF DashboardInv, PageTypes
<1>3. PICK t \in Tabs, keep \in {loaded, {}} : t = tab /\ keep = {}
  BY <1>2
<1>4. ReloadTab(q, t, site, r, d, keep) /\ range' = r /\ domain' = d
      /\ tab' \in Tabs /\ UNCHANGED <<view, site, busy, crossed>>
  BY <1>2, <1>3 DEF ChangeFilters, KeptLoads
<1>5. QED
  BY <1>1, <1>3, <1>4, ReloadStep

LEMMA RetryStep ==
  ASSUME DashboardInv, NEW q \in Slots, Retry(q)
  PROVE  DashboardInv'
<1>1. /\ ReloadTab(q, tab, site, range, domain, loaded)
      /\ UNCHANGED <<view, site, range, domain, tab, busy, url, crossed>>
  BY DEF Retry
<1>2. PICK t \in Tabs, r \in Ranges, d \in Domains, keep \in {loaded, {}} :
        t = tab /\ r = range /\ d = domain /\ keep = loaded
  BY DEF DashboardInv, PageTypes
<1>3. ReloadTab(q, t, site, r, d, keep) /\ range' = r /\ domain' = d /\ tab' \in Tabs
  BY <1>1, <1>2
<1>4. url' \in [site : Sites \cup {NoSite}, range : Ranges, domain : Domains, tab : Tabs]
  BY <1>1 DEF DashboardInv, PageTypes
<1>5. QED
  BY <1>1, <1>2, <1>3, <1>4, ReloadStep

LEMMA PopStateStep ==
  ASSUME DashboardInv, NEW q \in Slots, PopState(q)
  PROVE  DashboardInv'
<1>1. /\ url.site \in Sites \cup {NoSite} /\ url.tab \in Tabs
      /\ url.range \in Ranges /\ url.domain \in Domains
  BY DEF DashboardInv, PageTypes
<1>2. tab' = url.tab /\ range' = url.range /\ domain' = url.domain
      /\ UNCHANGED <<view, site, url, crossed>>
  BY DEF PopState
<1>3. CASE url.site # NoSite /\ site # NoSite /\ url.site # site
  <2>1. Select(q, url.site, "page") /\ loaded' = {} /\ UNCHANGED <<panel, form, drifted>>
    BY <1>3 DEF PopState
  <2>2. PICK s \in Sites : s = url.site
    BY <1>1, <1>3
  <2>3. FlightTypes' /\ busy' = TRUE /\ \A r \in Slots : ~LoadOf(r)'
    BY <2>1, <2>2, SelectStep DEF DashboardInv, Askers
  <2>4. PageTypes'
    BY <1>1, <1>2, <2>1, <2>3 DEF DashboardInv, PageTypes
  <2>5. SiteOK' /\ FilterOK'
    BY <2>1, <2>3 DEF SiteOK, FilterOK
  <2>6. QED
    BY <2>3, <2>4, <2>5 DEF DashboardInv
<1>4. CASE ~(url.site # NoSite /\ site # NoSite /\ url.site # site)
  <2>1. ReloadTab(q, url.tab, site, url.range, url.domain, {}) /\ UNCHANGED busy
    BY <1>4 DEF PopState
  <2>2. PICK t \in Tabs, r \in Ranges, d \in Domains, keep \in {loaded, {}} :
          t = url.tab /\ r = url.range /\ d = url.domain /\ keep = {}
    BY <1>1
  <2>3. ReloadTab(q, t, site, r, d, keep) /\ range' = r /\ domain' = d /\ tab' \in Tabs
    BY <1>1, <1>2, <2>1, <2>2
  <2>4. url' \in [site : Sites \cup {NoSite}, range : Ranges, domain : Domains, tab : Tabs]
    BY <1>2 DEF DashboardInv, PageTypes
  <2>5. QED
    BY <1>2, <2>1, <2>2, <2>3, <2>4, ReloadStep
<1>5. QED
  BY <1>3, <1>4

(* A switch of site takes over: every tab is empty, its own load is the    *)
(* only one unless another was begun meanwhile.                            *)
LEMMA SelectAnswerStep ==
  ASSUME DashboardInv, NEW q \in Slots, SelectAnswer(q)
  PROVE  DashboardInv'
<1> USE DEF DashboardInv
<1> DEFINE was == IF domain \in Hosts[flight[q].site] THEN domain ELSE AllHosts
<1>1. PICK s \in Sites, d \in Domains, by \in Askers, r \in Ranges, t \in Tabs :
        s = flight[q].site /\ d = was /\ by = flight[q].by /\ r = range /\ t = tab
  <2>1. flight[q].site \in Sites /\ flight[q].by \in Askers
    BY DEF SelectAnswer, InFlight, FlightTypes, FlightOK, Flight
  <2>2. was \in Domains /\ range \in Ranges /\ tab \in Tabs
    BY Vocabulary DEF PageTypes
  <2>3. QED
    BY <2>1, <2>2
<1>2. PICK f : f = Loading(t, s, r, d, TRUE, by)
  OBVIOUS
<1>3. /\ FlightOK(f) /\ f.kind \in {"load", "status"} /\ f.cur
      /\ f.tab = t /\ f.site = s /\ f.range = r /\ f.domain = d
  <2>1. IsLoad(f, t, s, r, d)
    BY <1>2, LoadingShape, Zenon
  <2>2. QED
    BY <2>1 DEF IsLoad
<1>4. /\ site' = s /\ domain' = d /\ UpdateUrl(s, r, d, t)
      /\ loaded' = {t} /\ panel' = [u \in Tabs |-> Blank]
      /\ form' = FillForms(t, s) /\ flight' = [flight EXCEPT ![q] = f]
      /\ crossed' = (\E u \in Tabs : LoadsInFlight(u) # {})
      /\ drifted' = (\E u \in Tabs : LoadsInFlight(u) # {})
      /\ UNCHANGED <<view, range, tab, busy>>
  BY <1>1, <1>2 DEF SelectAnswer
<1>5. FlightTypes' /\ flight'[q] = f /\ \A p \in Slots \ {q} : flight'[p] = flight[p]
  BY <1>3, <1>4, SetFlight
<1>6. PageTypes'
  <2>1. form' \in Sites \cup {NoSite} /\ panel' \in [Tabs -> Answers \cup {Blank, Failed}]
    BY <1>4 DEF FillForms, PageTypes
  <2>2. url' \in [site : Sites \cup {NoSite}, range : Ranges, domain : Domains, tab : Tabs]
    BY <1>4, UrlStays
  <2>3. QED
    BY <1>4, <2>1, <2>2 DEF PageTypes
<1>7. ~crossed' => \A p \in Slots : LoadOf(p)' => p = q
  <2>1. ~crossed' => \A p \in Slots : ~LoadOf(p)
    BY <1>4 DEF LoadsInFlight, LoadOf, FlightTypes, FlightOK, Flight
  <2>2. QED
    BY <1>5, <2>1 DEF LoadOf
<1>8. \A u \in Tabs : panel'[u] \notin Answers
  BY <1>4, AnswerFields
<1>9. "settings" \in loaded' => form' = s
  BY <1>4 DEF FillForms
<1>10. SiteOK'
  BY <1>3, <1>4, <1>5, <1>7, <1>8, <1>9 DEF SiteOK
<1>11. FilterOK'
  BY <1>1, <1>3, <1>4, <1>5, <1>7, <1>8 DEF FilterOK
<1>12. QED
  BY <1>5, <1>6, <1>10, <1>11

(* What a panel may come to show: a failure, or an answer to a request of  *)
(* the page's epoch.                                                       *)
LEMMA ShownStep ==
  ASSUME DashboardInv, NEW q \in Slots, flight[q].kind \in {"load", "status"},
         NEW t \in Tabs, t = flight[q].tab, NEW body \in {Shown(q), Failed},
         panel' = IF flight[q].cur THEN [panel EXCEPT ![t] = body] ELSE panel,
         Settled(q),
         UNCHANGED <<view, site, range, domain, tab, loaded, form, url, crossed, drifted>>
  PROVE  DashboardInv'
<1> USE DEF DashboardInv
<1>1. /\ FlightTypes' /\ busy' \in BOOLEAN
      /\ \A r \in Slots : LoadOf(r)' => LoadOf(r) /\ flight'[r] = flight[r]
  BY SettledStep DEF PageTypes
<1>2. FlightOK(flight[q]) /\ flight[q].site \in Sites
      /\ flight[q].range \in Ranges /\ flight[q].domain \in Domains
  BY DEF FlightTypes, FlightOK, Flight
<1>3. /\ Shown(q) \in Answers /\ Shown(q).site = flight[q].site
      /\ Shown(q).range = flight[q].range /\ Shown(q).domain = flight[q].domain
  BY <1>2, AnswerFields DEF Shown
<1>4. body \in Answers => body = Shown(q)
  BY AnswerFields
<1>5. PageTypes'
  BY <1>1, <1>3 DEF PageTypes
<1>6. \A u \in Tabs : panel'[u] # panel[u] => u = t /\ panel'[u] = body /\ LoadOf(q)
  BY DEF PageTypes, LoadOf
<1>7. SiteOK'
  BY <1>1, <1>3, <1>4, <1>6 DEF SiteOK, PageTypes
<1>8. FilterOK'
  <2> SUFFICES ASSUME ~crossed, ~drifted, site # NoSite
               PROVE  /\ \A u \in loaded : panel'[u] \in Answers =>
                           panel'[u].range = range /\ (u # "search" => panel'[u].domain = domain)
                      /\ \A p \in Slots : LoadOf(p)' /\ flight'[p].tab \in loaded =>
                           /\ flight'[p].range = range
                           /\ flight'[p].tab # "search" => flight'[p].domain = domain
    BY DEF FilterOK
  <2>1. ASSUME NEW u \in loaded, panel'[u] \in Answers
        PROVE  panel'[u].range = range /\ (u # "search" => panel'[u].domain = domain)
    <3>1. CASE panel'[u] = panel[u]
      BY <2>1, <3>1 DEF FilterOK
    <3>2. CASE panel'[u] # panel[u]
      <4>1. u = t /\ panel'[u] = Shown(q) /\ LoadOf(q)
        BY <1>4, <1>6, <2>1, <3>2 DEF PageTypes
      <4>2. flight[q].range = range /\ (t # "search" => flight[q].domain = domain)
        BY <2>1, <4>1 DEF FilterOK
      <4>3. QED
        BY <1>3, <4>1, <4>2
    <3>3. QED
      BY <3>1, <3>2
  <2>2. \A p \in Slots : LoadOf(p)' /\ flight'[p].tab \in loaded =>
          /\ flight'[p].range = range
          /\ flight'[p].tab # "search" => flight'[p].domain = domain
    BY <1>1 DEF FilterOK
  <2>3. QED
    BY <2>1, <2>2
<1>9. QED
  BY <1>1, <1>5, <1>7, <1>8

LEMMA ArrivesStep ==
  ASSUME DashboardInv, NEW q \in Slots, NEW tabs, Arrives(q, tabs)
  PROVE  DashboardInv'
<1>1. flight[q].kind = "load" /\ flight[q].tab \in Tabs
  BY DEF Arrives, InFlight, DashboardInv, FlightTypes, FlightOK, Flight
<1>2. PICK t \in Tabs, body \in {Shown(q), Failed} :
        /\ t = flight[q].tab
        /\ panel' = IF flight[q].cur THEN [panel EXCEPT ![t] = body] ELSE panel
  BY <1>1 DEF Arrives, Current
<1>3. QED
  BY <1>1, <1>2, ShownStep DEF Arrives

LEMMA StatusAnswerStep ==
  ASSUME DashboardInv, NEW q \in Slots, StatusAnswer(q)
  PROVE  DashboardInv'
<1> USE DEF DashboardInv
<1>1. flight[q].kind = "status" /\ flight[q].tab = "search" /\ FlightOK(flight[q])
      /\ "search" \in Tabs
  BY Vocabulary DEF StatusAnswer, InFlight, FlightTypes, FlightOK
<1>2. CASE /\ \E body \in {Shown(q), Failed} :
                panel' = IF Current(q) THEN [panel EXCEPT !["search"] = body] ELSE panel
           /\ Settled(q)
  <2>1. PICK t \in Tabs, body \in {Shown(q), Failed} :
          /\ t = flight[q].tab
          /\ panel' = IF flight[q].cur THEN [panel EXCEPT ![t] = body] ELSE panel
    BY <1>1, <1>2 DEF Current
  <2>2. QED
    BY <1>1, <1>2, <2>1, ShownStep DEF StatusAnswer
<1>3. CASE /\ flight[q].cur /\ site # NoSite /\ UNCHANGED <<panel, busy>>
           /\ flight' = [flight EXCEPT ![q] = [@ EXCEPT !.kind = "load", !.site = site,
                                                        !.range = range, !.domain = domain]]
  <2>1. PICK f : f = [flight[q] EXCEPT !.kind = "load", !.site = site, !.range = range,
                                       !.domain = domain]
    OBVIOUS
  <2>2. flight' = [flight EXCEPT ![q] = f]
    BY <1>3, <2>1
  <2>3. site \in Sites /\ range \in Ranges /\ domain \in Domains
    BY <1>3 DEF PageTypes
  <2>4. f \in Flight
    BY <1>1, <2>1, <2>3 DEF FlightOK, Flight, Kinds
  <2>5. /\ f.kind = "load" /\ f.site = site /\ f.tab = "search"
        /\ f.range = range /\ f.domain = domain
    BY <1>1, <2>1, <2>3 DEF FlightOK, Flight
  <2>6. FlightOK(f)
    BY <2>3, <2>4, <2>5 DEF FlightOK
  <2>7. FlightTypes' /\ flight'[q] = f /\ \A p \in Slots \ {q} : flight'[p] = flight[p]
    BY <2>2, <2>6, SetFlight
  <2>8. PageTypes'
        /\ UNCHANGED <<site, range, domain, loaded, panel, form, crossed, drifted>>
    BY <1>3 DEF StatusAnswer, PageTypes
  <2>9. SiteOK'
    BY <2>5, <2>7, <2>8 DEF SiteOK, LoadOf
  <2>10. FilterOK'
    BY <2>5, <2>7, <2>8 DEF FilterOK, LoadOf
  <2>11. QED
    BY <2>7, <2>8, <2>9, <2>10
<1>4. QED
  BY <1>2, <1>3 DEF StatusAnswer

LEMMA SelectFailsStep ==
  ASSUME DashboardInv, NEW q \in Slots, SelectFails(q)
  PROVE  DashboardInv'
<1> USE DEF DashboardInv
<1>1. /\ panel' = [panel EXCEPT !["overview"] = Failed] /\ Settled(q)
      /\ UNCHANGED <<view, site, range, domain, tab, loaded, form, url, crossed, drifted>>
  BY DEF SelectFails
<1>2. /\ FlightTypes' /\ busy' \in BOOLEAN
      /\ \A r \in Slots : LoadOf(r)' => LoadOf(r) /\ flight'[r] = flight[r]
  BY <1>1, SettledStep DEF PageTypes
<1>3. PageTypes'
  BY <1>1, <1>2 DEF PageTypes
<1>4. \A u \in Tabs : panel'[u] \in Answers => panel'[u] = panel[u]
  BY <1>1, AnswerFields DEF PageTypes
<1>5. SiteOK'
  BY <1>1, <1>2, <1>4 DEF SiteOK, PageTypes
<1>6. FilterOK'
  BY <1>1, <1>2, <1>4 DEF FilterOK, PageTypes
<1>7. QED
  BY <1>2, <1>3, <1>5, <1>6

\* Settings
LEMMA SendSettingsStep ==
  ASSUME DashboardInv, NEW q \in Slots, NEW k \in {"save", "domain", "member"},
         SendSettings(q, k)
  PROVE  DashboardInv'
<1>1. PICK s \in Sites : s = site
  BY OwnedAreSites DEF SendSettings
<1>2. PICK f : f = [Request(k) EXCEPT !.site = s]
  OBVIOUS
<1>3. Request(k) \in Flight /\ Request(k).kind = k
  BY RequestShape DEF Kinds
<1>4. f \in Flight /\ f.kind = k /\ f.site = s
  BY <1>2, <1>3 DEF Flight
<1>5. FlightOK(f) /\ f.kind \notin {"load", "status"}
  BY <1>4 DEF FlightOK
<1>6. flight' = [flight EXCEPT ![q] = f]
  BY <1>1, <1>2 DEF SendSettings
<1>7. PageTypes' /\ UNCHANGED <<site, panel, loaded, form, crossed, drifted, range, domain>>
  BY DEF SendSettings, DashboardInv, PageTypes
<1>8. QED
  BY <1>5, <1>6, <1>7, OtherRequest

(* The answer's site replaces the page's: the same one unless the answer   *)
(* came after a switch.                                                    *)
LEMMA SettingsAnswerStep ==
  ASSUME DashboardInv, NEW q \in Slots, SettingsAnswer(q)
  PROVE  DashboardInv'
<1> USE DEF DashboardInv
<1>1. /\ flight' = [flight EXCEPT ![q] = Idle] /\ site' = flight[q].site
      /\ crossed' = (crossed \/ site # flight[q].site)
      /\ UNCHANGED <<view, range, domain, tab, loaded, panel, form, busy, url, drifted>>
  BY DEF SettingsAnswer
<1>2. flight[q].site \in Sites
  BY DEF SettingsAnswer, FlightTypes, FlightOK
<1>3. FlightTypes' /\ flight'[q] = Idle /\ \A r \in Slots \ {q} : flight'[r] = flight[r]
  BY <1>1, SetFlight, IdleShape
<1>4. PageTypes'
  BY <1>1, <1>2 DEF PageTypes
<1>5. ~crossed' => ~crossed /\ site' = site
  BY <1>1
<1>6. \A r \in Slots : LoadOf(r)' => LoadOf(r) /\ flight'[r] = flight[r]
  BY <1>3, IdleShape DEF LoadOf
<1>7. SiteOK'
  BY <1>1, <1>5, <1>6 DEF SiteOK
<1>8. FilterOK'
  BY <1>1, <1>5, <1>6 DEF FilterOK
<1>9. QED
  BY <1>3, <1>4, <1>7, <1>8

LEMMA ReadBackStep ==
  ASSUME DashboardInv, NEW q \in Slots, ReadBack(q)
  PROVE  DashboardInv'
<1>1. PICK k \in {"detail", "members"} :
        k = IF flight[q].kind = "domain" THEN "detail" ELSE "members"
  OBVIOUS
<1>2. PICK s \in Sites : s = site
  BY DEF ReadBack, DashboardInv, PageTypes
<1>3. PICK f : f = [flight[q] EXCEPT !.kind = k, !.site = s]
  OBVIOUS
<1>4. FlightOK(flight[q])
  BY DEF DashboardInv, FlightTypes
<1>5. flight' = [flight EXCEPT ![q] = f]
  BY <1>1, <1>2, <1>3, <1>4 DEF ReadBack, FlightOK, Flight
<1>6. f \in Flight /\ f.kind = k /\ f.site = s
  BY <1>3, <1>4 DEF FlightOK, Flight, Kinds
<1>7. FlightOK(f) /\ f.kind \notin {"load", "status"}
  BY <1>6 DEF FlightOK
<1>8. PageTypes' /\ UNCHANGED <<site, panel, loaded, form, crossed, drifted, range, domain>>
  BY DEF ReadBack, DashboardInv, PageTypes
<1>9. QED
  BY <1>5, <1>7, <1>8, OtherRequest

(* A member list is shown for whichever site it was asked for.             *)
LEMMA MembersAnswerStep ==
  ASSUME DashboardInv, NEW q \in Slots, MembersAnswer(q)
  PROVE  DashboardInv'
<1> USE DEF DashboardInv
<1> DEFINE was == panel["settings"]
           now == [was EXCEPT !.site = flight[q].site]
<1>1. /\ flight' = [flight EXCEPT ![q] = Idle]
      /\ panel' = IF was \in {Blank, Failed} THEN panel ELSE [panel EXCEPT !["settings"] = now]
      /\ crossed' = (crossed \/ site # flight[q].site)
      /\ UNCHANGED <<view, site, range, domain, tab, loaded, form, busy, url, drifted>>
  BY DEF MembersAnswer
<1>2. flight[q].site \in Sites /\ "settings" \in Tabs
  BY Vocabulary DEF MembersAnswer, InFlight, FlightTypes, FlightOK
<1>3. was \in Answers \cup {Blank, Failed}
  BY <1>2 DEF PageTypes
<1> HIDE DEF was
<1>4. was \in Answers =>
        now \in Answers /\ now.site = flight[q].site /\ now.range = was.range
        /\ now.domain = was.domain
  <2>1. PICK z, b : z \in Sites /\ z = flight[q].site /\ b = now
    BY <1>2
  <2>2. b = [was EXCEPT !.site = z]
    BY <2>1
  <2> HIDE DEF now
  <2>3. QED
    BY <2>1, <2>2, AnswerOfAnother
<1> HIDE DEF now
<1>5. FlightTypes' /\ flight'[q] = Idle /\ \A r \in Slots \ {q} : flight'[r] = flight[r]
  BY <1>1, SetFlight, IdleShape
<1>6. \A r \in Slots : LoadOf(r)' => LoadOf(r) /\ flight'[r] = flight[r]
  BY <1>5, IdleShape DEF LoadOf
<1>7. PageTypes'
  BY <1>1, <1>3, <1>4 DEF PageTypes
<1>8. ~crossed' => ~crossed /\ site = flight[q].site
  BY <1>1
<1>9. \A u \in Tabs : panel'[u] # panel[u] =>
        u = "settings" /\ panel'[u] = now /\ was \in Answers /\ was = panel["settings"]
  BY <1>1, <1>3 DEF PageTypes, was
<1>10. SiteOK'
  BY <1>1, <1>4, <1>6, <1>8, <1>9 DEF SiteOK, PageTypes
<1>11. FilterOK'
  <2>1. \A u \in Tabs : panel'[u] \in Answers =>
          panel[u] \in Answers /\ panel'[u].range = panel[u].range
          /\ panel'[u].domain = panel[u].domain
    BY <1>4, <1>9
  <2>2. QED
    BY <1>1, <1>6, <1>8, <2>1 DEF FilterOK, PageTypes
<1>12. QED
  BY <1>5, <1>7, <1>10, <1>11

LEMMA DashboardStep ==
  ASSUME DashboardInv, [UiNext]_uiVars
  PROVE  DashboardInv'
<1>1. CASE UNCHANGED uiVars
  BY <1>1 DEF uiVars, DashboardInv, PageTypes, FlightTypes, SiteOK, FilterOK, LoadOf
<1>2. CASE UserActs
  <2>1. CASE SignOut \/ ChooseCustom
    BY <2>1, SignOutStep, ChooseCustomStep
  <2>2. ASSUME NEW q \in Slots, SignIn(q) \/ Retry(q) \/ PopState(q) PROVE DashboardInv'
    BY <2>2, SignInStep, RetryStep, PopStateStep
  <2>3. ASSUME NEW q \in Slots, NEW s \in Sites, ChooseSite(q, s) \/ CreateSite(q, s)
        PROVE  DashboardInv'
    BY <2>3, ChooseSiteStep, CreateStep
  <2>4. ASSUME NEW q \in Slots, NEW t \in Tabs, SetTab(q, t) PROVE DashboardInv'
    BY <2>4, SetTabStep
  <2>5. ASSUME NEW q \in Slots, NEW r \in Ranges, NEW d \in Domains, ChangeFilters(q, r, d)
        PROVE  DashboardInv'
    BY <2>5, ChangeFiltersStep
  <2>6. ASSUME NEW q \in Slots, NEW k \in {"save", "domain", "member"}, SendSettings(q, k)
        PROVE  DashboardInv'
    BY <2>6, SendSettingsStep
  <2>7. QED
    BY <1>2, <2>1, <2>2, <2>3, <2>4, <2>5, <2>6 DEF UserActs
<1>3. ASSUME NEW q \in Slots, Answered(q) PROVE DashboardInv'
  <2>1. CASE SignInAnswer(q) \/ SelectDropped(q) \/ SettingsFail(q)
    BY <2>1, SignInStep
  <2>2. CASE SitesAnswer(q) \/ SelectAnswer(q) \/ SelectFails(q) \/ CreateAnswer(q)
    BY <2>2, SitesAnswerStep, SelectAnswerStep, SelectFailsStep, CreateStep
  <2>3. CASE StatusAnswer(q)
    BY <2>3, StatusAnswerStep
  <2>4. CASE OverviewAnswer(q) \/ ReportAnswer(q) \/ SearchAnswer(q) \/ SettingsLoaded(q)
    BY <2>4, ArrivesStep DEF OverviewAnswer, ReportAnswer, SearchAnswer, SettingsLoaded
  <2>5. CASE SettingsAnswer(q) \/ ReadBack(q) \/ MembersAnswer(q) \/ Unauthorized(q)
    BY <2>5, SettingsAnswerStep, ReadBackStep, MembersAnswerStep, SignOutStep
  <2>6. QED
    BY <1>3, <2>1, <2>2, <2>3, <2>4, <2>5 DEF Answered
<1>4. QED
  BY <1>1, <1>2, <1>3 DEF UiNext, AnswerArrives

LEMMA DashboardStarts == UiInit => DashboardInv
<1> SUFFICES ASSUME UiInit PROVE DashboardInv
  OBVIOUS
<1>1. PICK f : f = Request("sites")
  OBVIOUS
<1>2. FlightOK(f) /\ f.kind = "sites" /\ FlightOK(Idle) /\ Idle.kind = "idle"
  BY <1>1, RequestShape, IdleShape DEF Kinds, FlightOK
<1>3. flight = [r \in Slots |-> IF r = 1 /\ view = "app" THEN f ELSE Idle]
  BY <1>1 DEF UiInit
<1>4. \A r \in Slots : FlightOK(flight[r]) /\ flight[r].kind \in {"sites", "idle"}
  BY <1>2, <1>3
<1>5. FlightTypes
  BY <1>3, <1>4 DEF FlightTypes, FlightOK
<1>6. PageTypes
  BY Vocabulary DEF UiInit, PageTypes
<1>7. SiteOK /\ FilterOK
  BY DEF UiInit, SiteOK, FilterOK
<1>8. QED
  BY <1>5, <1>6, <1>7 DEF DashboardInv

LEMMA DashboardAlways == UiSpec => []DashboardInv
BY DashboardStarts, DashboardStep, PTL DEF UiSpec

(* No panel and no form shows another site than the page's, for every      *)
(* number of sites, tabs and requests in flight: the epoch of a request,   *)
(* or a switch that found one in flight, is all that can part them.        *)
THEOREM PanelsAreOfSite == UiSpec => []PanelsFollowSite
<1>1. DashboardInv => PanelsFollowSite
  BY DEF DashboardInv, SiteOK, PanelsFollowSite
<1>2. QED
  BY <1>1, DashboardAlways, PTL

(* What a loaded tab shows is for the range and the domain of the header,  *)
(* unless loads of a tab overlap or a custom range is half chosen.         *)
THEOREM PanelsAreOfFilters == UiSpec => []PanelsFollowFilters
<1>1. DashboardInv => PanelsFollowFilters
  BY DEF DashboardInv, FilterOK, PanelsFollowFilters
<1>2. QED
  BY <1>1, DashboardAlways, PTL

-----------------------------------------------------------------------------
(* The check of a statement of the workbench.                              *)
(*                                                                         *)
(* Induction over the symbols of a text is taken from the well-founded     *)
(* order of the naturals, over sets rather than predicates.                *)

LEMMA LeastNatural ==
  ASSUME NEW T, T \subseteq Nat, T # {}
  PROVE  \E x \in T : \A y \in T : x <= y
<1> DEFINE R == OpToRel(<, Nat)
<1>1. IsWellFoundedOn(R, Nat)
  BY NatLessThanWellFounded
<1>2. R = {ss \in Nat \X Nat : ss[1] < ss[2]}
  BY DEF OpToRel
<1> HIDE DEF R
<1>3. \E x \in T : \A y \in T : ~(<<y, x>> \in R)
  BY <1>1, WFMin
<1>4. \A x, y \in T : ~(<<y, x>> \in R) => x <= y
  <2> SUFFICES ASSUME NEW x \in T, NEW y \in T, ~(x <= y) PROVE <<y, x>> \in R
    OBVIOUS
  <2>1. <<y, x>> \in Nat \X Nat /\ <<y, x>>[1] < <<y, x>>[2]
    OBVIOUS
  <2>2. QED
    BY <1>2, <2>1
<1>5. QED
  BY <1>3, <1>4

LEMMA SetInduction ==
  ASSUME NEW S, 0 \in S, \A n \in Nat : n \in S => n + 1 \in S
  PROVE  Nat \subseteq S
<1> DEFINE T == Nat \ S
<1> SUFFICES ASSUME T # {} PROVE FALSE
  OBVIOUS
<1>1. PICK x \in T : \A y \in T : x <= y
  BY LeastNatural
<1>2. x # 0 /\ x \in Nat
  OBVIOUS
<1>3. x - 1 \in Nat /\ ~(x <= x - 1) /\ (x - 1) + 1 = x
  BY <1>2
<1>4. x - 1 \in S
  BY <1>1, <1>3
<1>5. QED
  BY <1>3, <1>4

LEMMA UpwardInduction ==
  ASSUME NEW a \in Int, NEW b \in Int, NEW S, a \in S,
         \A i \in a .. b - 1 : i \in S => i + 1 \in S
  PROVE  a .. b \subseteq S
<1> DEFINE T == {m \in Nat : a + m <= b => a + m \in S}
<1>1. 0 \in T
  OBVIOUS
<1>2. ASSUME NEW m \in Nat, m \in T PROVE m + 1 \in T
  <2> SUFFICES ASSUME a + (m + 1) <= b PROVE a + (m + 1) \in S
    OBVIOUS
  <2>1. a + m \in a .. b - 1 /\ a + m \in S /\ (a + m) + 1 = a + (m + 1)
    BY <1>2
  <2>2. QED
    BY <2>1
<1>3. Nat \subseteq T
  <2> HIDE DEF T
  <2>1. QED
    BY <1>1, <1>2, SetInduction
<1>4. ASSUME NEW i \in a .. b PROVE i \in S
  <2>1. i - a \in Nat /\ a + (i - a) = i /\ i <= b
    OBVIOUS
  <2>2. QED
    BY <1>3, <2>1
<1>5. QED
  BY <1>4

LEMMA DownwardInduction ==
  ASSUME NEW a \in Int, NEW b \in Int, NEW S, b \in S,
         \A i \in a .. b - 1 : i + 1 \in S => i \in S
  PROVE  a .. b \subseteq S
<1> DEFINE T == {m \in Nat : b - m >= a => b - m \in S}
<1>1. 0 \in T
  OBVIOUS
<1>2. ASSUME NEW m \in Nat, m \in T PROVE m + 1 \in T
  <2> SUFFICES ASSUME b - (m + 1) >= a PROVE b - (m + 1) \in S
    OBVIOUS
  <2>1. b - (m + 1) \in a .. b - 1 /\ b - m \in S /\ (b - (m + 1)) + 1 = b - m
    BY <1>2
  <2>2. QED
    BY <2>1
<1>3. Nat \subseteq T
  <2> HIDE DEF T
  <2>1. QED
    BY <1>1, <1>2, SetInduction
<1>4. ASSUME NEW i \in a .. b PROVE i \in S
  <2>1. b - i \in Nat /\ b - (b - i) = i /\ i >= a
    OBVIOUS
  <2>2. QED
    BY <1>3, <2>1
<1>5. QED
  BY <1>4


(* A text can be read.                                                     *)
LEMMA ReadingExists ==
  ASSUME NEW t, NEW n \in Nat
  PROVE  \E f : /\ f = [i \in 0 .. n |-> IF i = 0 THEN "plain" ELSE NextMode(f[i - 1], t[i])]
<1> DEFINE S == {m \in Nat : \E f : /\ f[0] = "plain"
                                    /\ \A i \in 1 .. m : f[i] = NextMode(f[i - 1], t[i])}
<1>1. 0 \in S
  <2>1. [i \in {0} |-> "plain"][0] = "plain" /\ \A i \in 1 .. 0 : FALSE
    OBVIOUS
  <2>2. QED
    BY <2>1
<1>2. ASSUME NEW m \in Nat, m \in S PROVE m + 1 \in S
  <2>1. PICK f : /\ f[0] = "plain"
                 /\ \A i \in 1 .. m : f[i] = NextMode(f[i - 1], t[i])
    BY <1>2
  <2> DEFINE last == NextMode(f[m], t[m + 1])
             g == [i \in 0 .. m + 1 |-> IF i = m + 1 THEN last ELSE f[i]]
  <2>2. \A i \in 0 .. m : g[i] = f[i]
    OBVIOUS
  <2>3. g[m + 1] = last
    OBVIOUS
  <2> HIDE DEF g
  <2>4. g[0] = "plain"
    BY <2>1, <2>2
  <2>5. ASSUME NEW i \in 1 .. m + 1 PROVE g[i] = NextMode(g[i - 1], t[i])
    <3>1. CASE i = m + 1
      <4>1. i - 1 = m /\ g[i - 1] = f[m]
        BY <2>2, <3>1
      <4>2. QED
        BY <2>3, <3>1, <4>1
    <3>2. CASE i # m + 1
      <4>1. i \in 1 .. m /\ i \in 0 .. m /\ i - 1 \in 0 .. m
        BY <3>2
      <4>2. QED
        BY <2>1, <2>2, <4>1
    <3>3. QED
      BY <3>1, <3>2
  <2>6. QED
    BY <2>4, <2>5
<1>3. n \in S
  <2> HIDE DEF S
  <2>1. QED
    BY <1>1, <1>2, SetInduction
<1>4. PICK f : /\ f[0] = "plain"
               /\ \A i \in 1 .. n : f[i] = NextMode(f[i - 1], t[i])
  BY <1>3
<1> DEFINE h == [i \in 0 .. n |-> f[i]]
<1>5. ASSUME NEW i \in 0 .. n
      PROVE  h[i] = IF i = 0 THEN "plain" ELSE NextMode(h[i - 1], t[i])
  <2>1. CASE i = 0
    BY <1>4, <2>1
  <2>2. CASE i # 0
    <3>1. i - 1 \in 0 .. n /\ i \in 1 .. n
      BY <2>2
    <3>2. h[i] = f[i] /\ h[i - 1] = f[i - 1]
      BY <3>1
    <3>3. QED
      BY <1>4, <2>2, <3>1, <3>2
  <2>3. QED
    BY <2>1, <2>2
<1>6. h = [i \in 0 .. n |-> IF i = 0 THEN "plain" ELSE NextMode(h[i - 1], t[i])]
  <2> HIDE DEF h
  <2> DEFINE k == [i \in 0 .. n |-> IF i = 0 THEN "plain" ELSE NextMode(h[i - 1], t[i])]
  <2>1. h = [i \in 0 .. n |-> h[i]]
    BY DEF h
  <2>2. \A i \in 0 .. n : h[i] = k[i]
    BY <1>5
  <2>3. k = [i \in 0 .. n |-> k[i]]
    OBVIOUS
  <2> HIDE DEF k
  <2>4. h = k
    BY <2>1, <2>2, <2>3
  <2>5. QED
    BY <2>4 DEF k
<1>7. QED
  BY <1>6

LEMMA ModesAre ==
  ASSUME NEW t, Len(t) \in Nat
  PROVE  Modes(t) = [i \in 0 .. Len(t) |->
                       IF i = 0 THEN "plain" ELSE NextMode(Modes(t)[i - 1], t[i])]
<1> DEFINE n == Len(t)
<1>1. \E f : f = [i \in 0 .. n |-> IF i = 0 THEN "plain" ELSE NextMode(f[i - 1], t[i])]
  BY ReadingExists
<1>2. Modes(t) = CHOOSE f : f = [i \in 0 .. n |-> IF i = 0 THEN "plain" ELSE NextMode(f[i - 1], t[i])]
  BY DEF Modes
<1>3. QED
  BY <1>1, <1>2, Zenon

(* What the next symbol begins when it does not end a pair.                *)
Opens(c) ==
  IF c = "/" THEN "slash" ELSE IF c = "-" THEN "dash" ELSE IF c = "'" THEN "string"
  ELSE IF c = DoubleQuote THEN "name" ELSE IF c = "[" THEN "bracket" ELSE "plain"

AllModes == Outside \cup Comments \cup {"string", "name", "bracket"}

LEMMA NextModes ==
  ASSUME NEW c
  PROVE  /\ NextMode("plain", c) = Opens(c)
         /\ NextMode("slash", c) = IF c = "*" THEN "block" ELSE Opens(c)
         /\ NextMode("dash", c) = IF c = "-" THEN "line" ELSE Opens(c)
         /\ NextMode("line", c) = IF c = Newline THEN "plain" ELSE "line"
         /\ NextMode("block", c) = IF c = "*" THEN "star" ELSE "block"
         /\ NextMode("star", c) = IF c = "/" THEN "plain" ELSE IF c = "*" THEN "star" ELSE "block"
         /\ NextMode("string", c) = IF c = "'" THEN "plain" ELSE "string"
         /\ NextMode("name", c) = IF c = DoubleQuote THEN "plain" ELSE "name"
         /\ NextMode("bracket", c) = IF c = "]" THEN "plain" ELSE "bracket"
<1> DEFINE begun == CASE c = "/" -> "slash" [] c = "-" -> "dash" [] c = "'" -> "string"
                      [] c = DoubleQuote -> "name" [] c = "[" -> "bracket" [] OTHER -> "plain"
<1>1. begun = Opens(c)
  BY DEF Opens, DoubleQuote
<1>2. ASSUME NEW mode \in Outside, ~(mode = "slash" /\ c = "*"), ~(mode = "dash" /\ c = "-")
      PROVE  NextMode(mode, c) = Opens(c)
  BY <1>1, <1>2 DEF NextMode, Outside, Comments
<1>3. NextMode("slash", "*") = "block" /\ NextMode("dash", "-") = "line"
  BY DEF NextMode, Outside
<1>4. /\ NextMode("line", c) = IF c = Newline THEN "plain" ELSE "line"
      /\ NextMode("block", c) = IF c = "*" THEN "star" ELSE "block"
      /\ NextMode("star", c) = IF c = "/" THEN "plain" ELSE IF c = "*" THEN "star" ELSE "block"
      /\ NextMode("string", c) = IF c = "'" THEN "plain" ELSE "string"
      /\ NextMode("name", c) = IF c = DoubleQuote THEN "plain" ELSE "name"
      /\ NextMode("bracket", c) = IF c = "]" THEN "plain" ELSE "bracket"
  BY DEF NextMode, Outside
<1>5. QED
  BY <1>2, <1>3, <1>4 DEF Outside

LEMMA ModeTypes ==
  ASSUME NEW c, NEW mode \in AllModes
  PROVE  NextMode(mode, c) \in AllModes
<1>1. Opens(c) \in AllModes
  BY DEF Opens, AllModes, Outside
<1> DEFINE next == NextMode(mode, c)
<1>2. next \in {Opens(c), "block", "line", "plain", "star", "string", "name", "bracket"}
  <2>1. /\ NextMode("plain", c) = Opens(c)
        /\ NextMode("slash", c) \in {"block", Opens(c)}
        /\ NextMode("dash", c) \in {"line", Opens(c)}
        /\ NextMode("line", c) \in {"plain", "line"}
        /\ NextMode("block", c) \in {"star", "block"}
        /\ NextMode("star", c) \in {"plain", "star", "block"}
        /\ NextMode("string", c) \in {"plain", "string"}
        /\ NextMode("name", c) \in {"plain", "name"}
        /\ NextMode("bracket", c) \in {"plain", "bracket"}
    BY NextModes
  <2>2. mode \in {"plain", "slash", "dash", "line", "block", "star", "string", "name", "bracket"}
    BY DEF AllModes, Outside, Comments
  <2>3. QED
    BY <2>1, <2>2
<1> HIDE DEF next
<1>3. next \in AllModes
  BY <1>1, <1>2 DEF AllModes, Outside, Comments
<1>4. QED
  BY <1>3 DEF next

LEMMA ModeSteps ==
  ASSUME NEW t, Len(t) \in Nat
  PROVE  /\ Modes(t)[0] = "plain"
         /\ \A i \in 1 .. Len(t) : Modes(t)[i] = NextMode(Modes(t)[i - 1], t[i])
         /\ \A i \in 0 .. Len(t) : Modes(t)[i] \in AllModes
<1> DEFINE m == Modes(t)
           n == Len(t)
<1>1. m = [i \in 0 .. n |-> IF i = 0 THEN "plain" ELSE NextMode(m[i - 1], t[i])]
  BY ModesAre
<1> HIDE DEF m, n
<1>2. n \in Nat
  BY DEF n
<1>3. m[0] = "plain"
  BY <1>1, <1>2
<1>4. \A i \in 1 .. n : m[i] = NextMode(m[i - 1], t[i])
  <2> TAKE i \in 1 .. n
  <2>1. i \in 0 .. n /\ i # 0
    BY <1>2
  <2>2. QED
    BY <1>1, <2>1
<1> DEFINE S == {i \in Int : m[i] \in AllModes}
<1>5. 0 \in S
  BY <1>3 DEF AllModes, Outside
<1>6. ASSUME NEW i \in 0 .. n - 1, i \in S PROVE i + 1 \in S
  <2>1. m[i + 1] = NextMode(m[i], t[i + 1])
    <3>1. i + 1 \in 1 .. n /\ (i + 1) - 1 = i
      BY <1>2
    <3>2. QED
      BY <1>4, <3>1
  <2>2. m[i] \in AllModes
    BY <1>6
  <2>3. NextMode(m[i], t[i + 1]) \in AllModes
    BY <2>2, ModeTypes
  <2>4. QED
    BY <1>2, <2>1, <2>3
<1>7. 0 .. n \subseteq S
  <2> HIDE DEF S
  <2>1. QED
    BY <1>2, <1>5, <1>6, UpwardInduction
<1>8. QED
  BY <1>3, <1>4, <1>7 DEF m, n

-----------------------------------------------------------------------------
(* The symbols of a text, as the reference sees them.                      *)
LEMMA PartStep ==
  ASSUME NEW t, Len(t) \in Nat, NEW i \in Int
  PROVE  Part(t, i) <=> Live(t, i) /\ (t[i] \in Words \/ (t[i] \in Numbers /\ Part(t, i - 1)))
<1>1. Live(t, i) => i \in 1 .. Len(t)
  BY DEF Live
<1>2. ASSUME Live(t, i), t[i] \in Words PROVE Part(t, i)
  <2>1. i \in 1 .. i /\ \A k \in i .. i : k = i
    BY <1>1, <1>2
  <2>2. QED
    BY <1>2, <2>1 DEF Part
<1>3. ASSUME Live(t, i), t[i] \in Numbers, Part(t, i - 1) PROVE Part(t, i)
  <2>1. PICK j \in 1 .. i - 1 : /\ t[j] \in Words
                               /\ \A k \in j .. i - 1 : Live(t, k) /\ t[k] \in Words \cup Numbers
    BY <1>3 DEF Part
  <2>2. j \in 1 .. i /\ \A k \in j .. i : k = i \/ k \in j .. i - 1
    OBVIOUS
  <2>3. QED
    BY <1>3, <2>1, <2>2 DEF Part
<1>4. ASSUME Part(t, i)
      PROVE  Live(t, i) /\ (t[i] \in Words \/ (t[i] \in Numbers /\ Part(t, i - 1)))
  <2>1. PICK j \in 1 .. i : /\ t[j] \in Words
                           /\ \A k \in j .. i : Live(t, k) /\ t[k] \in Words \cup Numbers
    BY <1>4 DEF Part
  <2>2. Live(t, i) /\ t[i] \in Words \cup Numbers
    BY <1>4, <2>1 DEF Part
  <2>3. ASSUME t[i] \notin Words PROVE Part(t, i - 1)
    <3>1. j \in 1 .. i - 1 /\ i - 1 \in j .. i /\ \A k \in j .. i - 1 : k \in j .. i
      BY <2>1, <2>3
    <3>2. QED
      BY <2>1, <3>1 DEF Part
  <2>4. QED
    BY <2>2, <2>3
<1>5. QED
  BY <1>2, <1>3, <1>4

LEMMA PartIs ==
  ASSUME NEW t, NEW i, Part(t, i)
  PROVE  Live(t, i) /\ i \in 1 .. Len(t) /\ t[i] \in Words \cup Numbers
<1>1. Live(t, i) /\ i \in 1 .. Len(t)
  BY DEF Part, Live
<1>2. PICK j \in 1 .. i : \A k \in j .. i : t[k] \in Words \cup Numbers
  BY DEF Part
<1>3. i \in j .. i
  BY <1>1
<1>4. QED
  BY <1>1, <1>2, <1>3

LEMMA WholeIsPart ==
  ASSUME NEW t, Len(t) \in Nat, NEW i, NEW w \in Words, Whole(t, i, w)
  PROVE  Part(t, i) /\ ~Part(t, i - 1) /\ ~Part(t, i + 1) /\ t[i] = w
<1>1. Live(t, i) /\ t[i] = w /\ ~Part(t, i - 1) /\ ~Part(t, i + 1)
  BY DEF Whole
<1>2. i \in Int
  BY <1>1 DEF Live
<1>3. QED
  BY <1>1, <1>2, PartStep

(* Where no pair of symbols is open, and where the last comment may end.   *)
Ready(t, i) ==
  /\ i \in 1 .. Len(t) + 1
  /\ Modes(t)[i - 1] \in Outside
  /\ i <= Len(t) => /\ Modes(t)[i - 1] = "slash" => t[i] # "*"
                    /\ Modes(t)[i - 1] = "dash" => t[i] # "-"

Reached(t, i) == Ready(t, i) \/ (i = Len(t) + 1 /\ Modes(t)[Len(t)] = "line")

(* A token of a text covers symbols that are shown, and a word all of it.  *)
TokenOK(t, s) ==
  /\ s.from \in 1 .. Len(t) /\ s.to \in s.from .. Len(t)
  /\ \A i \in s.from .. s.to : ~BlankAt(t, i)
  /\ Modes(t)[s.from - 1] \in Outside /\ Modes(t)[s.to] \in Outside
  /\ Modes(t)[s.from] = Opens(t[s.from])
  /\ CASE s.type = "word" ->
            /\ \A i \in s.from .. s.to : Part(t, i)
            /\ ~Part(t, s.to + 1)
       [] s.type = "punct" ->
            /\ s.from = s.to /\ t[s.from] \notin Words \cup Numbers
            /\ Live(t, s.from) <=> Opens(t[s.from]) = "plain"
       [] s.type = "number" ->
            \A i \in s.from .. s.to : t[i] \in Numbers \cup {"-"} /\ ~Part(t, i)
       [] OTHER -> \A i \in s.from .. s.to : ~Live(t, i)

Types == {"word", "punct", "number", "string", "quoted"}
Tokens(t) == [type : Types, from : 1 .. Len(t), to : 1 .. Len(t)]

(* The tokens before i are those of the text, and the rest is blank.       *)
Read(t, s, i) ==
  /\ s \in Seq(Tokens(t))
  /\ \A k \in 1 .. Len(s) : TokenOK(t, s[k]) /\ s[k].to < i
  /\ \A k, l \in 1 .. Len(s) : k < l => s[k].to < s[l].from
  /\ \A j \in 1 .. i - 1 : BlankAt(t, j) \/ \E k \in 1 .. Len(s) : j \in s[k].from .. s[k].to

LEMMA TokenTypes ==
  ASSUME NEW t, Len(t) \in Nat, NEW s, NEW i, Read(t, s, i), NEW k \in 1 .. Len(s)
  PROVE  /\ s[k].type \in Types /\ s[k].from \in Int /\ s[k].to \in Int
         /\ s[k].from \in 1 .. Len(t) /\ s[k].to \in s[k].from .. Len(t)
         /\ TokenOK(t, s[k]) /\ s[k].to < i
<1>1. s \in Seq(Tokens(t)) /\ TokenOK(t, s[k]) /\ s[k].to < i
  BY DEF Read
<1>2. s[k] \in Tokens(t)
  BY <1>1
<1>3. QED
  BY <1>1, <1>2 DEF Tokens, TokenOK

LEMMA ReadBlank ==
  ASSUME NEW t, Len(t) \in Nat, NEW s, NEW i \in 1 .. Len(t) + 1, NEW e \in i .. Len(t) + 1,
         Read(t, s, i), \A j \in i .. e - 1 : BlankAt(t, j)
  PROVE  Read(t, s, e)
<1>1. \A k \in 1 .. Len(s) : s[k].to \in Int /\ s[k].to < e
  BY TokenTypes
<1>2. \A j \in 1 .. e - 1 : j \in 1 .. i - 1 \/ j \in i .. e - 1
  OBVIOUS
<1>3. QED
  BY <1>1, <1>2 DEF Read

LEMMA ReadToken ==
  ASSUME NEW t, Len(t) \in Nat, NEW s, NEW i \in 1 .. Len(t), NEW e \in i .. Len(t),
         NEW type \in Types, Read(t, s, i), TokenOK(t, Token(type, i, e))
  PROVE  Read(t, Append(s, Token(type, i, e)), e + 1)
<1> DEFINE new == Token(type, i, e)
           all == Append(s, new)
<1>1. new \in Tokens(t) /\ new.from = i /\ new.to = e
  BY DEF Tokens, Token
<1>2. s \in Seq(Tokens(t)) /\ Len(s) \in Nat
  BY DEF Read
<1> HIDE DEF new
<1>3. /\ all \in Seq(Tokens(t)) /\ Len(all) = Len(s) + 1 /\ all[Len(s) + 1] = new
      /\ \A k \in 1 .. Len(s) : all[k] = s[k]
  BY <1>1, <1>2
<1> HIDE DEF all
<1>4. \A k \in 1 .. Len(s) : TokenOK(t, s[k]) /\ s[k].to < i /\ s[k].to \in Int
  BY TokenTypes
<1>5. \A k \in 1 .. Len(all) : k \in 1 .. Len(s) \/ k = Len(s) + 1
  BY <1>2, <1>3
<1>6. \A k \in 1 .. Len(all) : TokenOK(t, all[k]) /\ all[k].to < e + 1
  <2> TAKE k \in 1 .. Len(all)
  <2>1. CASE k \in 1 .. Len(s)
    BY <1>3, <1>4, <2>1
  <2>2. CASE k = Len(s) + 1
    BY <1>1, <1>3, <2>2 DEF new
  <2>3. QED
    BY <1>5, <2>1, <2>2
<1>7. \A k, l \in 1 .. Len(all) : k < l => all[k].to < all[l].from
  <2> SUFFICES ASSUME NEW k \in 1 .. Len(all), NEW l \in 1 .. Len(all), k < l
               PROVE  all[k].to < all[l].from
    OBVIOUS
  <2>1. k \in 1 .. Len(s) /\ all[k] = s[k] /\ s[k].to < i
    BY <1>2, <1>3, <1>4
  <2>2. CASE l \in 1 .. Len(s)
    BY <1>3, <2>1, <2>2 DEF Read
  <2>3. CASE l = Len(s) + 1
    BY <1>1, <1>3, <2>1, <2>3
  <2>4. QED
    BY <1>5, <2>2, <2>3
<1>8. \A j \in 1 .. (e + 1) - 1 :
        BlankAt(t, j) \/ \E k \in 1 .. Len(all) : j \in all[k].from .. all[k].to
  <2> TAKE j \in 1 .. (e + 1) - 1
  <2>1. CASE j \in 1 .. i - 1
    <3>1. BlankAt(t, j) \/ \E k \in 1 .. Len(s) : j \in s[k].from .. s[k].to
      BY <2>1 DEF Read
    <3>2. \A k \in 1 .. Len(s) : k \in 1 .. Len(all)
      BY <1>2, <1>3
    <3>3. QED
      BY <1>3, <3>1, <3>2
  <2>2. CASE j \in i .. e
    <3> DEFINE last == Len(s) + 1
    <3>1. last \in 1 .. Len(all) /\ all[last] = new
      BY <1>2, <1>3
    <3> HIDE DEF last
    <3>2. j \in all[last].from .. all[last].to
      BY <1>1, <2>2, <3>1
    <3>3. QED
      BY <3>1, <3>2
  <2>3. QED
    BY <2>1, <2>2
<1>9. QED
  BY <1>3, <1>6, <1>7, <1>8 DEF Read, all, new

-----------------------------------------------------------------------------
(* A text that has been read to its end.                                   *)

LEMMA LiveShown ==
  ASSUME NEW t, Len(t) \in Nat, NEW i, Live(t, i), t[i] # Newline
  PROVE  i \in ShownIn(t)
<1>1. i \in 1 .. Len(t) /\ Modes(t)[i - 1] \in Outside /\ Modes(t)[i] = "plain"
  BY DEF Live
<1>2. {Modes(t)[i - 1], Modes(t)[i]} \cap Comments = {}
  BY <1>1 DEF Outside, Comments
<1>3. ~BlankAt(t, i)
  BY <1>1, <1>2 DEF BlankAt
<1>4. QED
  BY <1>1, <1>3 DEF ShownIn

LEMMA PartIsShown ==
  ASSUME NEW t, Len(t) \in Nat, NEW i, Part(t, i)
  PROVE  i \in ShownIn(t)
<1>1. Live(t, i) /\ t[i] \in Words \cup Numbers
  BY PartIs
<1>2. t[i] # Newline
  BY <1>1 DEF Words, Numbers, Newline
<1>3. QED
  BY <1>1, <1>2, LiveShown

LEMMA TokenShown ==
  ASSUME NEW t, Len(t) \in Nat, NEW s, NEW e, Read(t, s, e), NEW k \in 1 .. Len(s),
         NEW i \in s[k].from .. s[k].to
  PROVE  i \in ShownIn(t) /\ i \in 1 .. Len(t)
<1>1. /\ s[k].from \in 1 .. Len(t) /\ s[k].to \in s[k].from .. Len(t) /\ TokenOK(t, s[k])
      /\ s[k].from \in Int /\ s[k].to \in Int
  BY TokenTypes
<1>2. i \in 1 .. Len(t)
  BY <1>1
<1>3. ~BlankAt(t, i)
  BY <1>1 DEF TokenOK
<1>4. QED
  BY <1>2, <1>3 DEF ShownIn

LEMMA ShownInToken ==
  ASSUME NEW t, Len(t) \in Nat, NEW s, Read(t, s, Len(t) + 1), NEW i \in ShownIn(t)
  PROVE  \E k \in 1 .. Len(s) : i \in s[k].from .. s[k].to
<1>1. i \in 1 .. (Len(t) + 1) - 1 /\ ~BlankAt(t, i)
  BY DEF ShownIn
<1>2. QED
  BY <1>1 DEF Read

LEMMA TokenKinds ==
  ASSUME NEW t, NEW s, TokenOK(t, s)
  PROVE  /\ s.type = "word" =>
              (\A i \in s.from .. s.to : Part(t, i)) /\ ~Part(t, s.to + 1)
         /\ s.type = "punct" =>
              /\ s.from = s.to /\ t[s.from] \notin Words \cup Numbers
              /\ Live(t, s.from) => Opens(t[s.from]) = "plain"
              /\ Opens(t[s.from]) = "plain" => Live(t, s.from)
         /\ s.type = "number" =>
              \A i \in s.from .. s.to : t[i] \in Numbers \cup {"-"} /\ ~Part(t, i)
         /\ s.type \notin {"word", "punct", "number"} => \A i \in s.from .. s.to : ~Live(t, i)
BY DEF TokenOK

(* A word that is part of a token is part of a word, and is one by itself  *)
(* when the token is.                                                      *)
LEMMA PartToken ==
  ASSUME NEW t, Len(t) \in Nat, NEW s, NEW e \in 1 .. Len(t) + 1, Read(t, s, e),
         NEW i, Part(t, i), i < e
  PROVE  \E k \in 1 .. Len(s) : s[k].type = "word" /\ i \in s[k].from .. s[k].to
<1>1. PICK k \in 1 .. Len(s) : i \in s[k].from .. s[k].to
  <2>1. i \in ShownIn(t) /\ i \in 1 .. Len(t)
    BY PartIsShown, PartIs
  <2>2. i \in 1 .. e - 1 /\ ~BlankAt(t, i)
    BY <2>1 DEF ShownIn
  <2>3. QED
    BY <2>2 DEF Read
<1>2. TokenOK(t, s[k]) /\ s[k].from \in Int /\ s[k].to \in Int
  BY TokenTypes
<1>3. Live(t, i) /\ t[i] \in Words \cup Numbers
  BY PartIs
<1>4. s[k].type = "word"
  <2>1. CASE s[k].type = "punct"
    <3>1. i = s[k].from /\ t[s[k].from] \notin Words \cup Numbers
      BY <1>1, <1>2, <2>1, TokenKinds
    <3>2. QED
      BY <1>3, <3>1
  <2>2. CASE s[k].type = "number"
    BY <1>1, <1>2, <2>2, TokenKinds
  <2>3. CASE s[k].type \notin {"word", "punct", "number"}
    BY <1>1, <1>2, <1>3, <2>3, TokenKinds
  <2>4. QED
    BY <2>1, <2>2, <2>3
<1>5. QED
  BY <1>1, <1>4

LEMMA PartInToken ==
  ASSUME NEW t, Len(t) \in Nat, NEW s, Read(t, s, Len(t) + 1), NEW i, Part(t, i)
  PROVE  \E k \in 1 .. Len(s) : s[k].type = "word" /\ i \in s[k].from .. s[k].to
<1>1. Len(t) + 1 \in 1 .. Len(t) + 1 /\ i \in 1 .. Len(t)
  BY PartIs
<1>2. i < Len(t) + 1
  BY <1>1
<1>3. QED
  BY <1>1, <1>2, PartToken

LEMMA WholeToken ==
  ASSUME NEW t, Len(t) \in Nat, NEW s, Read(t, s, Len(t) + 1), NEW i, NEW w \in Words
  PROVE  /\ Whole(t, i, w) => \E k \in 1 .. Len(s) :
              s[k].type = "word" /\ s[k].from = i /\ s[k].to = i /\ t[i] = w
         /\ \A k \in 1 .. Len(s) :
              s[k].type = "word" /\ s[k].from = i /\ s[k].to = i /\ t[i] = w =>
                Whole(t, i, w)
<1>1. ASSUME Whole(t, i, w)
      PROVE  \E k \in 1 .. Len(s) :
               s[k].type = "word" /\ s[k].from = i /\ s[k].to = i /\ t[i] = w
  <2>1. Part(t, i) /\ ~Part(t, i - 1) /\ ~Part(t, i + 1) /\ t[i] = w
    BY <1>1, WholeIsPart
  <2>2. PICK k \in 1 .. Len(s) : s[k].type = "word" /\ i \in s[k].from .. s[k].to
    BY <2>1, PartInToken
  <2>3. TokenOK(t, s[k]) /\ s[k].from \in Int /\ s[k].to \in Int
    BY TokenTypes
  <2>4. \A j \in s[k].from .. s[k].to : Part(t, j)
    BY <2>2, <2>3, TokenKinds
  <2>5. i - 1 \notin s[k].from .. s[k].to /\ i + 1 \notin s[k].from .. s[k].to
    BY <2>1, <2>4
  <2>6. s[k].from = i /\ s[k].to = i
    BY <2>2, <2>3, <2>5
  <2>7. QED
    BY <2>1, <2>2, <2>6
<1>2. ASSUME NEW k \in 1 .. Len(s), s[k].type = "word", s[k].from = i, s[k].to = i, t[i] = w
      PROVE  Whole(t, i, w)
  <2>1. TokenOK(t, s[k]) /\ i \in Int
    BY <1>2, TokenTypes
  <2>2. (\A j \in s[k].from .. s[k].to : Part(t, j)) /\ ~Part(t, i + 1)
    BY <1>2, <2>1, TokenKinds
  <2>3. i \in s[k].from .. s[k].to
    BY <1>2, <2>1
  <2>4. Part(t, i)
    BY <2>2, <2>3
  <2>5. ~Part(t, i - 1)
    <3>1. SUFFICES ASSUME Part(t, i - 1) PROVE FALSE
      OBVIOUS
    <3>2. PICK l \in 1 .. Len(s) : s[l].type = "word" /\ i - 1 \in s[l].from .. s[l].to
      BY <3>1, PartInToken
    <3>3. TokenOK(t, s[l]) /\ s[l].from \in Int /\ s[l].to \in Int
      BY TokenTypes
    <3>4. l # k
      BY <1>2, <2>1, <3>2
    <3>5. l < k
      <4>1. k < l => s[k].to < s[l].from
        BY DEF Read
      <4>2. QED
        BY <1>2, <2>1, <3>2, <3>3, <3>4, <4>1
    <3>6. s[l].to < s[k].from
      BY <3>5 DEF Read
    <3>7. s[l].to + 1 = i
      BY <1>2, <2>1, <3>2, <3>3, <3>6
    <3>8. ~Part(t, s[l].to + 1)
      BY <3>2, <3>3, TokenKinds
    <3>9. QED
      BY <2>4, <3>7, <3>8
  <2>6. QED
    BY <1>2, <2>2, <2>4, <2>5, PartIs DEF Whole
<1>3. QED
  BY <1>1, <1>2

LEMMA MarkToken ==
  ASSUME NEW t, Len(t) \in Nat, NEW s, Read(t, s, Len(t) + 1), NEW i,
         NEW c \in {"?", Semicolon, ":"}
  PROVE  /\ Live(t, i) /\ t[i] = c => \E k \in 1 .. Len(s) :
              s[k].type = "punct" /\ s[k].from = i /\ s[k].to = i /\ t[i] = c
         /\ \A k \in 1 .. Len(s) :
              s[k].type = "punct" /\ t[s[k].from] = c =>
                Live(t, s[k].from) /\ s[k].to = s[k].from
<1>1. c \notin Words \cup Numbers \cup {"-"} /\ c # Newline /\ Opens(c) = "plain"
  BY DEF Words, Numbers, Newline, Opens, Semicolon, DoubleQuote
<1>2. ASSUME Live(t, i), t[i] = c
      PROVE  \E k \in 1 .. Len(s) :
               s[k].type = "punct" /\ s[k].from = i /\ s[k].to = i /\ t[i] = c
  <2>1. PICK k \in 1 .. Len(s) : i \in s[k].from .. s[k].to
    BY <1>1, <1>2, LiveShown, ShownInToken
  <2>2. TokenOK(t, s[k]) /\ s[k].from \in Int /\ s[k].to \in Int /\ s[k].type \in Types
    BY TokenTypes
  <2>3. s[k].type # "word"
    <3>1. s[k].type = "word" => Part(t, i)
      BY <2>1, <2>2, TokenKinds
    <3>2. QED
      BY <1>1, <1>2, <3>1, PartIs
  <2>4. s[k].type = "punct"
    <3>1. s[k].type # "number"
      BY <1>1, <1>2, <2>1, <2>2, TokenKinds
    <3>2. QED
      BY <1>2, <2>1, <2>2, <2>3, <3>1, TokenKinds
  <2>5. s[k].from = s[k].to
    BY <2>2, <2>4, TokenKinds
  <2>6. s[k].from = i /\ s[k].to = i
    BY <2>1, <2>2, <2>5
  <2>7. QED
    BY <1>2, <2>4, <2>6
<1>3. ASSUME NEW k \in 1 .. Len(s), s[k].type = "punct", t[s[k].from] = c
      PROVE  Live(t, s[k].from) /\ s[k].to = s[k].from
  <2>1. TokenOK(t, s[k])
    BY TokenTypes
  <2>2. QED
    BY <1>1, <1>3, <2>1, TokenKinds
<1>4. QED
  BY <1>2, <1>3

-----------------------------------------------------------------------------
(* The rules over the tokens are the rules over the symbols.               *)

LEMMA BodyIs ==
  ASSUME NEW X, tokens \in Seq(X), tokens # <<>>
  PROVE  /\ Body \in Seq(X) /\ Len(Body) \in Nat /\ Len(tokens) \in Nat \ {0}
         /\ Len(Body) = IF Semicolons = {} THEN Len(tokens) ELSE Len(tokens) - 1
         /\ \A k \in 1 .. Len(Body) : Body[k] = tokens[k] /\ k \in 1 .. Len(tokens)
<1>1. Len(tokens) \in Nat \ {0}
  BY EmptySeq
<1> DEFINE n == Len(tokens) - 1
           s == SubSeq(tokens, 1, n)
<1>2. n \in Nat /\ n <= Len(tokens)
  BY <1>1
<1>3. s \in Seq(X) /\ Len(s) = n /\ \A k \in 1 .. n : s[k] = tokens[k]
  BY <1>1, <1>2, SubSeqProperties
<1>4. Body = IF Semicolons = {} THEN tokens ELSE s
  BY DEF Body
<1>5. QED
  BY <1>1, <1>2, <1>3, <1>4

LEMMA JudgedOk ==
  (Judgement = "ok") <=>
    /\ tokens # <<>> /\ Semicolons \subseteq {Len(tokens)} /\ Body # <<>>
    /\ \A k \in 1 .. Len(Body) : ~Parameter(k)
    /\ \/ IsWord(Body[1], "SELECT")
       \/ /\ IsWord(Body[1], "WITH")
          /\ \E k \in 1 .. Len(Body) : IsWord(Body[k], "SELECT")
    /\ \A k \in 1 .. Len(Body) : \A w \in Forbidden : ~IsWord(Body[k], w)
<1> DEFINE forbidden == \E k \in 1 .. Len(Body) : \E w \in Forbidden : IsWord(Body[k], w)
           has == \E k \in 1 .. Len(Body) : IsWord(Body[k], "SELECT")
           parameter == \E k \in 1 .. Len(Body) : Parameter(k)
<1>1. Judgement =
        IF tokens = <<>> THEN "sql_empty"
        ELSE IF ~(Semicolons \subseteq {Len(tokens)}) THEN "sql_multiple_statements"
        ELSE IF Body = <<>> THEN "sql_empty"
        ELSE IF parameter THEN "sql_parameters_unsupported"
        ELSE IF NotSelect THEN "sql_not_select"
        ELSE IF forbidden THEN "sql_forbidden_keyword"
        ELSE "ok"
  BY DEF Judgement, BodyHas
<1>2. NotSelect <=> \/ ~IsWord(Body[1], "SELECT") /\ ~IsWord(Body[1], "WITH")
                    \/ IsWord(Body[1], "WITH") /\ ~has
  BY DEF NotSelect, BodyHas
<1>3. ~(IsWord(Body[1], "SELECT") /\ IsWord(Body[1], "WITH"))
  BY DEF IsWord
<1> HIDE DEF has, forbidden, parameter
<1>4. (Judgement = "ok") <=>
        /\ tokens # <<>> /\ Semicolons \subseteq {Len(tokens)} /\ Body # <<>>
        /\ ~parameter /\ ~NotSelect /\ ~forbidden
  BY <1>1
<1>5. QED
  BY <1>2, <1>3, <1>4 DEF has, forbidden, parameter

(* What the tokens of a text that is read to its end say of each other.    *)
LEMMA TokenOrder ==
  ASSUME NEW t, Len(t) \in Nat, NEW s, NEW e, Read(t, s, e),
         NEW k \in 1 .. Len(s), NEW l \in 1 .. Len(s),
         NEW i \in s[k].from .. s[k].to, NEW j \in s[l].from .. s[l].to
  PROVE  /\ i \in Int /\ j \in Int
         /\ k < l => i < j
         /\ i < j => k <= l
<1>1. /\ s[k].from \in Int /\ s[k].to \in Int /\ s[l].from \in Int /\ s[l].to \in Int
      /\ k \in Int /\ l \in Int
  <2>1. Len(s) \in Nat
    BY DEF Read
  <2>2. QED
    BY <2>1, TokenTypes
<1>2. /\ k < l => s[k].to < s[l].from
      /\ l < k => s[l].to < s[k].from
  BY DEF Read
<1>3. QED
  BY <1>1, <1>2

LEMMA TokenEnds ==
  ASSUME NEW t, Len(t) \in Nat, NEW s, NEW e, Read(t, s, e), NEW k \in 1 .. Len(s)
  PROVE  s[k].from \in s[k].from .. s[k].to /\ s[k].to \in s[k].from .. s[k].to
BY TokenTypes

(* The first symbol shown begins the first token.                          *)
LEMMA FirstShown ==
  ASSUME NEW t, Len(t) \in Nat, NEW s, Read(t, s, Len(t) + 1)
  PROVE  /\ Len(s) >= 1 => /\ s[1].from \in ShownIn(t)
                           /\ \A j \in ShownIn(t) : s[1].from <= j
         /\ s \in Seq(Tokens(t)) /\ Len(s) \in Nat
<1>1. s \in Seq(Tokens(t)) /\ Len(s) \in Nat
  BY DEF Read
<1>2. ASSUME Len(s) >= 1
      PROVE  s[1].from \in ShownIn(t) /\ \A j \in ShownIn(t) : s[1].from <= j
  <2>1. 1 \in 1 .. Len(s)
    BY <1>1, <1>2
  <2>2. s[1].from \in s[1].from .. s[1].to
    BY <2>1, TokenEnds
  <2>3. s[1].from \in ShownIn(t)
    BY <2>1, <2>2, TokenShown
  <2>4. ASSUME NEW j \in ShownIn(t) PROVE s[1].from <= j
    <3>1. PICK k \in 1 .. Len(s) : j \in s[k].from .. s[k].to
      BY ShownInToken
    <3>2. /\ 1 < k => s[1].from < j
          /\ s[1].from \in Int /\ j \in Int
      BY <2>1, <2>2, <3>1, TokenOrder
    <3>3. k = 1 => s[1].from <= j
      BY <3>1, <3>2
    <3>4. k = 1 \/ 1 < k
      BY <1>1
    <3>5. QED
      BY <3>2, <3>3, <3>4
  <2>5. QED
    BY <2>3, <2>4
<1>3. QED
  BY <1>1, <1>2

-----------------------------------------------------------------------------
LEMMA InBody ==
  ASSUME NEW X, tokens \in Seq(X), Semicolons \subseteq {Len(tokens)},
         NEW k \in 1 .. Len(tokens), ~IsPunct(tokens[k], Semicolon)
  PROVE  k \in 1 .. Len(Body) /\ Body[k] = tokens[k]
<1>1. tokens # <<>> /\ Len(tokens) \in Nat
  <2>1. tokens = <<>> => Len(tokens) = 0
    OBVIOUS
  <2>2. QED
    BY <2>1
<1>2. k \notin Semicolons
  BY DEF Semicolons
<1>3. Semicolons # {} => k # Len(tokens)
  BY <1>2
<1>4. k \in 1 .. Len(Body)
  BY <1>1, <1>3, BodyIs
<1>5. QED
  BY <1>1, <1>4, BodyIs

(* A text that is judged ok holds one statement that only reads.           *)
LEMMA JudgedReads ==
  ASSUME Len(text) \in Nat, Read(text, tokens, Len(text) + 1),
         Modes(text)[Len(text)] \in Outside \cup {"line"}, Judgement = "ok",
         ~NumberedParameter(text)
  PROVE  ReadsOnly(text)
<1> DEFINE n == Len(text)
<1>1. /\ tokens # <<>> /\ Semicolons \subseteq {Len(tokens)} /\ Body # <<>>
      /\ \A k \in 1 .. Len(Body) : ~Parameter(k)
      /\ \/ IsWord(Body[1], "SELECT")
         \/ /\ IsWord(Body[1], "WITH")
            /\ \E k \in 1 .. Len(Body) : IsWord(Body[k], "SELECT")
      /\ \A k \in 1 .. Len(Body) : \A w \in Forbidden : ~IsWord(Body[k], w)
  BY JudgedOk
<1>2. /\ tokens \in Seq(Tokens(text)) /\ Len(tokens) \in Nat \ {0}
      /\ Body \in Seq(Tokens(text)) /\ Len(Body) \in Nat \ {0}
      /\ \A k \in 1 .. Len(Body) : Body[k] = tokens[k] /\ k \in 1 .. Len(tokens)
  <2>1. tokens \in Seq(Tokens(text))
    BY DEF Read
  <2>2. QED
    BY <1>1, <2>1, BodyIs, EmptySeq
<1>3. ASSUME NEW k \in 1 .. Len(Body), NEW w \in Words, IsWord(Body[k], w)
      PROVE  Whole(text, tokens[k].from, w) /\ tokens[k].from \in ShownIn(text)
  <2>1. /\ tokens[k].type = "word" /\ tokens[k].to = tokens[k].from
        /\ text[tokens[k].from] = w /\ k \in 1 .. Len(tokens)
    BY <1>2, <1>3 DEF IsWord
  <2>2. Whole(text, tokens[k].from, w)
    BY <2>1, WholeToken
  <2>3. QED
    BY <2>1, <2>2, TokenEnds, TokenShown
<1>4. \E i \in ShownIn(text) :
        /\ \A j \in ShownIn(text) : i <= j
        /\ \/ Whole(text, i, "SELECT")
           \/ Whole(text, i, "WITH") /\ \E j \in ShownIn(text) : Whole(text, j, "SELECT")
  <2>1. 1 \in 1 .. Len(Body) /\ "SELECT" \in Words /\ "WITH" \in Words
    BY <1>2 DEF Words
  <2>2. tokens[1].from \in ShownIn(text) /\ \A j \in ShownIn(text) : tokens[1].from <= j
    BY <1>2, FirstShown
  <2>3. \/ Whole(text, tokens[1].from, "SELECT")
        \/ /\ Whole(text, tokens[1].from, "WITH")
           /\ \E j \in ShownIn(text) : Whole(text, j, "SELECT")
    BY <1>1, <1>3, <2>1
  <2>4. QED
    BY <2>2, <2>3
<1>5. ASSUME NEW i \in ShownIn(text)
      PROVE  /\ \A w \in Forbidden : ~Whole(text, i, w)
             /\ Live(text, i) => text[i] # "?"
             /\ Live(text, i) /\ text[i] = Semicolon => \A j \in ShownIn(text) : j <= i
             /\ Live(text, i) /\ text[i] = ":" =>
                  ~\E j \in ShownIn(text) : Part(text, j) /\ i < j
                                       /\ \A k \in ShownIn(text) : ~(i < k /\ k < j)
  <2>1. ASSUME NEW w \in Forbidden, Whole(text, i, w) PROVE FALSE
    <3>1. w \in Words
      BY DEF Forbidden, Words
    <3>2. PICK k \in 1 .. Len(tokens) : /\ tokens[k].type = "word" /\ tokens[k].from = i
                                        /\ tokens[k].to = i /\ text[i] = w
      BY <2>1, <3>1, WholeToken
    <3>3. IsWord(tokens[k], w) /\ ~IsPunct(tokens[k], Semicolon)
      BY <3>2 DEF IsWord, IsPunct
    <3>4. k \in 1 .. Len(Body) /\ Body[k] = tokens[k]
      BY <1>1, <1>2, <3>3, InBody
    <3>5. QED
      BY <1>1, <3>3, <3>4
  <2>2. ASSUME Live(text, i), text[i] = "?" PROVE FALSE
    <3>1. PICK k \in 1 .. Len(tokens) : tokens[k].type = "punct" /\ tokens[k].from = i
      BY <2>2, MarkToken
    <3>2. IsPunct(tokens[k], "?") /\ ~IsPunct(tokens[k], Semicolon)
      BY <2>2, <3>1 DEF IsPunct, Semicolon
    <3>3. k \in 1 .. Len(Body) /\ Body[k] = tokens[k]
      BY <1>1, <1>2, <3>2, InBody
    <3>4. QED
      BY <1>1, <3>2, <3>3 DEF Parameter
  <2>3. ASSUME Live(text, i), text[i] = Semicolon, NEW j \in ShownIn(text) PROVE j <= i
    <3>1. PICK k \in 1 .. Len(tokens) : /\ tokens[k].type = "punct" /\ tokens[k].from = i
                                        /\ tokens[k].to = i
      BY <2>3, MarkToken
    <3>2. k \in Semicolons
      BY <2>3, <3>1 DEF IsPunct, Semicolons
    <3>3. k = Len(tokens)
      BY <1>1, <3>2
    <3>4. PICK l \in 1 .. Len(tokens) : j \in tokens[l].from .. tokens[l].to
      BY ShownInToken
    <3>5. i \in tokens[k].from .. tokens[k].to
      BY <3>1, TokenEnds
    <3>6. /\ i \in Int /\ j \in Int
          /\ i < j => k <= l
      BY <3>4, <3>5, TokenOrder
    <3>7. k = l => j = i
      BY <3>1, <3>4, <3>6
    <3>8. QED
      BY <1>2, <3>3, <3>6, <3>7
  <2>4. ASSUME Live(text, i), text[i] = ":", NEW j \in ShownIn(text), Part(text, j), i < j,
               \A k \in ShownIn(text) : ~(i < k /\ k < j)
        PROVE  FALSE
    <3>1. PICK k \in 1 .. Len(tokens) : /\ tokens[k].type = "punct" /\ tokens[k].from = i
                                        /\ tokens[k].to = i
      BY <2>4, MarkToken
    <3>2. PICK l \in 1 .. Len(tokens) : /\ tokens[l].type = "word"
                                        /\ j \in tokens[l].from .. tokens[l].to
      BY <2>4, PartInToken
    <3>3. i \in tokens[k].from .. tokens[k].to
      BY <3>1, TokenEnds
    <3>4. /\ i \in Int /\ j \in Int /\ k \in Int /\ l \in Int
          /\ i < j => k <= l
      BY <1>2, <3>2, <3>3, TokenOrder
    <3>5. k < l
      BY <2>4, <3>1, <3>2, <3>4
    <3>6. l = k + 1
      <4>1. SUFFICES ASSUME k + 1 < l PROVE FALSE
        BY <3>4, <3>5
      <4> DEFINE m == k + 1
      <4>2. m \in 1 .. Len(tokens) /\ k < m /\ m < l
        BY <1>2, <3>4, <4>1
      <4> HIDE DEF m
      <4>3. tokens[m].from \in tokens[m].from .. tokens[m].to
        BY <4>2, TokenEnds
      <4>4. tokens[m].from \in ShownIn(text)
        BY <4>2, <4>3, TokenShown
      <4>5. i < tokens[m].from
        BY <3>3, <4>2, <4>3, TokenOrder
      <4>6. tokens[m].from < j
        BY <3>2, <4>2, <4>3, TokenOrder
      <4>7. QED
        BY <2>4, <4>4, <4>5, <4>6
    <3>7. ~IsPunct(tokens[l], Semicolon)
      BY <3>2 DEF IsPunct
    <3>8. l \in 1 .. Len(Body) /\ Body[l] = tokens[l]
      BY <1>1, <1>2, <3>7, InBody
    <3>9. k \in 1 .. Len(Body) /\ k < Len(Body) /\ Body[k] = tokens[k]
      BY <1>2, <3>4, <3>6, <3>8
    <3>10. Parameter(k)
      BY <2>4, <3>1, <3>2, <3>6, <3>8, <3>9 DEF Parameter, IsPunct
    <3>11. QED
      BY <1>1, <3>9, <3>10
  <2>5. QED
    BY <2>1, <2>2, <2>3, <2>4
<1>6. QED
  BY <1>4, <1>5, Zenon DEF ReadsOnly

-----------------------------------------------------------------------------
(* A text with one statement that only reads is judged ok.                 *)
LEMMA ReadsJudged ==
  ASSUME Len(text) \in Nat, Read(text, tokens, Len(text) + 1), ReadsOnly(text)
  PROVE  Judgement = "ok"
<1>1. PICK i \in ShownIn(text) :
        /\ \A j \in ShownIn(text) : i <= j
        /\ \/ Whole(text, i, "SELECT")
           \/ Whole(text, i, "WITH") /\ \E j \in ShownIn(text) : Whole(text, j, "SELECT")
  BY Zenon DEF ReadsOnly
<1>2. \A j \in ShownIn(text) :
        /\ \A w \in Forbidden : ~Whole(text, j, w)
        /\ Live(text, j) => text[j] # "?"
        /\ Live(text, j) /\ text[j] = Semicolon => \A k \in ShownIn(text) : k <= j
        /\ Live(text, j) /\ text[j] = ":" =>
             ~\E l \in ShownIn(text) : Part(text, l) /\ j < l
                                  /\ \A k \in ShownIn(text) : ~(j < k /\ k < l)
  BY Zenon DEF ReadsOnly
<1>3. tokens \in Seq(Tokens(text)) /\ Len(tokens) \in Nat
  BY FirstShown
<1>4. Len(tokens) \in Nat \ {0} /\ tokens # <<>>
  <2>1. \E k \in 1 .. Len(tokens) : i \in tokens[k].from .. tokens[k].to
    BY <1>1, ShownInToken
  <2>2. tokens = <<>> => Len(tokens) = 0
    OBVIOUS
  <2>3. QED
    BY <1>3, <2>1, <2>2
<1>5. \A k \in 1 .. Len(tokens) :
        /\ tokens[k].from \in tokens[k].from .. tokens[k].to
        /\ tokens[k].from \in ShownIn(text)
  BY TokenEnds, TokenShown
<1>6. Semicolons \subseteq {Len(tokens)}
  <2>1. SUFFICES ASSUME NEW k \in Semicolons, k # Len(tokens) PROVE FALSE
    OBVIOUS
  <2>2. /\ k \in 1 .. Len(tokens) /\ tokens[k].type = "punct"
        /\ text[tokens[k].from] = Semicolon
    BY DEF Semicolons, IsPunct
  <2>3. Live(text, tokens[k].from)
    BY <2>2, MarkToken
  <2> DEFINE m == Len(tokens)
  <2>4. m \in 1 .. Len(tokens) /\ k < m
    BY <1>4, <2>1, <2>2
  <2> HIDE DEF m
  <2>5. tokens[m].from <= tokens[k].from
    BY <1>2, <1>5, <2>2, <2>3, <2>4
  <2>6. /\ tokens[k].from \in Int /\ tokens[m].from \in Int
        /\ tokens[k].from < tokens[m].from
    BY <1>5, <2>2, <2>4, TokenOrder
  <2>7. QED
    BY <2>5, <2>6
<1>7. ASSUME NEW j, NEW w \in Words, Whole(text, j, w)
      PROVE  \E k \in 1 .. Len(Body) : IsWord(Body[k], w) /\ Body[k] = tokens[k]
                                       /\ tokens[k].from = j
  <2>1. PICK k \in 1 .. Len(tokens) : /\ tokens[k].type = "word" /\ tokens[k].from = j
                                      /\ tokens[k].to = j /\ text[j] = w
    BY <1>7, WholeToken
  <2>2. IsWord(tokens[k], w) /\ ~IsPunct(tokens[k], Semicolon)
    BY <2>1 DEF IsWord, IsPunct
  <2>3. k \in 1 .. Len(Body) /\ Body[k] = tokens[k]
    BY <1>3, <1>6, <2>2, InBody
  <2>4. QED
    BY <2>1, <2>2, <2>3
<1>8. "SELECT" \in Words /\ "WITH" \in Words /\ \A w \in Forbidden : w \in Words
  BY DEF Words, Forbidden
<1>9. ASSUME NEW w \in Words, Whole(text, i, w) PROVE IsWord(Body[1], w) /\ Body # <<>>
  <2>1. PICK k \in 1 .. Len(Body) : IsWord(Body[k], w) /\ Body[k] = tokens[k]
                                    /\ tokens[k].from = i
    BY <1>7, <1>9
  <2>2. k \in 1 .. Len(tokens) /\ k \in Int /\ Len(Body) \in Nat
    BY <1>3, <1>4, BodyIs
  <2>3. 1 \in 1 .. Len(tokens)
    BY <1>4
  <2>4. i <= tokens[1].from
    BY <1>1, <1>5, <2>3
  <2>5. /\ tokens[1].from \in Int /\ i \in Int
        /\ 1 < k => tokens[1].from < i
    BY <1>5, <2>1, <2>2, <2>3, TokenOrder
  <2>6. k = 1
    BY <2>2, <2>4, <2>5
  <2>7. Body = <<>> => Len(Body) = 0
    OBVIOUS
  <2>8. QED
    BY <2>1, <2>2, <2>6, <2>7
<1>10. Body # <<>> /\ Len(Body) \in Nat
       /\ \A k \in 1 .. Len(Body) : Body[k] = tokens[k] /\ k \in 1 .. Len(tokens)
  BY <1>1, <1>3, <1>4, <1>8, <1>9, BodyIs
<1>11. \/ IsWord(Body[1], "SELECT")
       \/ /\ IsWord(Body[1], "WITH")
          /\ \E k \in 1 .. Len(Body) : IsWord(Body[k], "SELECT")
  <2>1. CASE Whole(text, i, "SELECT")
    BY <1>8, <1>9, <2>1
  <2>2. CASE Whole(text, i, "WITH") /\ \E j \in ShownIn(text) : Whole(text, j, "SELECT")
    <3>1. IsWord(Body[1], "WITH")
      BY <1>8, <1>9, <2>2
    <3>2. \E k \in 1 .. Len(Body) : IsWord(Body[k], "SELECT")
      BY <1>7, <1>8, <2>2
    <3>3. QED
      BY <3>1, <3>2
  <2>3. QED
    BY <1>1, <2>1, <2>2
<1>12. ASSUME NEW k \in 1 .. Len(Body), NEW w \in Forbidden, IsWord(Body[k], w) PROVE FALSE
  <2>1. /\ tokens[k].type = "word" /\ tokens[k].to = tokens[k].from
        /\ text[tokens[k].from] = w /\ k \in 1 .. Len(tokens)
    BY <1>10, <1>12 DEF IsWord
  <2>2. Whole(text, tokens[k].from, w)
    BY <1>8, <2>1, WholeToken
  <2>3. QED
    BY <1>2, <1>5, <2>1, <2>2
<1>13. ASSUME NEW k \in 1 .. Len(Body), Parameter(k) PROVE FALSE
  <2>1. Body[k] = tokens[k] /\ k \in 1 .. Len(tokens) /\ k \in Int
    BY <1>3, <1>10
  <2>2. CASE IsPunct(Body[k], "?")
    <3>1. Live(text, tokens[k].from) /\ text[tokens[k].from] = "?"
      BY <2>1, <2>2, MarkToken DEF IsPunct
    <3>2. QED
      BY <1>2, <1>5, <2>1, <3>1
  <2>3. CASE IsPunct(Body[k], ":") /\ k < Len(Body) /\ Body[k + 1].type = "word"
    <3> DEFINE m == k + 1
    <3>1. m \in 1 .. Len(Body) /\ k < m
      BY <1>10, <2>1, <2>3
    <3>2. m \in 1 .. Len(tokens) /\ tokens[m].type = "word"
      BY <1>10, <2>3, <3>1
    <3>3. Live(text, tokens[k].from) /\ text[tokens[k].from] = ":"
          /\ tokens[k].to = tokens[k].from
      BY <2>1, <2>3, MarkToken DEF IsPunct
    <3> DEFINE j == tokens[m].from
    <3>4. \A l \in Int : l <= k \/ m <= l
      BY <2>1
    <3> HIDE DEF m
    <3>5. Part(text, j)
      BY <1>5, <3>2, TokenTypes, TokenKinds
    <3>6. /\ tokens[k].from < j /\ tokens[k].from \in Int /\ j \in Int
      BY <1>5, <2>1, <3>1, <3>2, TokenOrder
    <3>7. ASSUME NEW x \in ShownIn(text), tokens[k].from < x, x < j PROVE FALSE
      <4>1. PICK l \in 1 .. Len(tokens) : x \in tokens[l].from .. tokens[l].to
        BY ShownInToken
      <4>2. /\ k <= l /\ x \in Int
        <5>1. tokens[k].from \in tokens[k].from .. tokens[k].to
          BY <1>5, <2>1
        <5>2. x \in Int /\ (tokens[k].from < x => k <= l)
          BY <2>1, <4>1, <5>1, TokenOrder
        <5>3. QED
          BY <3>7, <5>2
      <4>3. l <= m
        <5>1. j \in tokens[m].from .. tokens[m].to
          BY <1>5, <3>2
        <5>2. x < j => l <= m
          BY <3>2, <4>1, <5>1, TokenOrder
        <5>3. QED
          BY <3>7, <5>2
      <4>4. l # k
        BY <3>3, <3>6, <3>7, <4>1, <4>2
      <4>5. l # m
        BY <3>6, <3>7, <4>1, <4>2
      <4>6. l \in Int /\ m \in Int
        BY <1>3, <3>2
      <4>7. QED
        BY <2>1, <3>4, <4>2, <4>3, <4>4, <4>5, <4>6
    <3>8. j \in ShownIn(text)
      BY <1>5, <3>2
    <3>9. QED
      BY <1>2, <1>5, <2>1, <3>3, <3>5, <3>6, <3>7, <3>8
  <2>4. QED
    BY <1>13, <2>2, <2>3 DEF Parameter
<1>14. QED
  BY <1>4, <1>6, <1>10, <1>11, <1>12, <1>13, JudgedOk

-----------------------------------------------------------------------------
(* A part of a text that begins with a token is read like that part of it. *)
LEMMA OutsideNext ==
  ASSUME NEW c, NEW mode \in Outside, mode = "slash" => c # "*", mode = "dash" => c # "-"
  PROVE  NextMode(mode, c) = Opens(c)
<1>1. mode \in {"plain", "slash", "dash"}
  BY DEF Outside
<1>2. QED
  BY <1>1, NextModes

LEMMA CutModes ==
  ASSUME NEW t \in Seq(STRING), NEW a \in 1 .. Len(t), NEW b \in a .. Len(t),
         Modes(t)[a] = Opens(t[a])
  PROVE  /\ SubSeq(t, a, b) \in Seq(STRING) /\ Len(SubSeq(t, a, b)) = (b - a) + 1
         /\ \A i \in 1 .. (b - a) + 1 :
              /\ SubSeq(t, a, b)[i] = t[(a - 1) + i]
              /\ Modes(SubSeq(t, a, b))[i] = Modes(t)[(a - 1) + i]
<1> DEFINE e == SubSeq(t, a, b)
           m == (b - a) + 1
<1>1. /\ e \in Seq(STRING) /\ Len(e) = m
      /\ \A i \in 1 .. m : e[i] = t[(a - 1) + i]
  <2>1. a <= b + 1 /\ a \in 1 .. Len(t) + 1 /\ b \in a - 1 .. Len(t)
    OBVIOUS
  <2>2. /\ e \in Seq(STRING)
        /\ Len(e) = IF a <= b THEN b - a + 1 ELSE 0
        /\ \A i \in 1 .. b - a + 1 : e[i] = t[a + i - 1]
    BY <2>1, SubSeqProperties
  <2> HIDE DEF e
  <2>3. \A i \in 1 .. m : a + i - 1 = (a - 1) + i /\ i \in 1 .. b - a + 1
    OBVIOUS
  <2>4. QED
    BY <2>2, <2>3
<1>2. Len(t) \in Nat /\ m \in Nat
  OBVIOUS
<1> HIDE DEF e, m
<1>3. /\ Modes(e)[0] = "plain"
      /\ \A i \in 1 .. m : Modes(e)[i] = NextMode(Modes(e)[i - 1], e[i])
  BY <1>1, <1>2, ModeSteps
<1>4. \A i \in 1 .. Len(t) : Modes(t)[i] = NextMode(Modes(t)[i - 1], t[i])
  BY <1>2, ModeSteps
<1> DEFINE S == {i \in Int : Modes(e)[i] = Modes(t)[(a - 1) + i]}
<1>5. 1 \in S
  <2>1. 1 \in 1 .. m /\ (a - 1) + 1 = a /\ 1 - 1 = 0
    BY DEF m
  <2>2. e[1] = t[a] /\ Modes(e)[1] = NextMode("plain", e[1])
    BY <1>1, <1>3, <2>1
  <2>3. Modes(e)[1] = Modes(t)[a]
    BY <2>2, NextModes
  <2>4. QED
    BY <2>1, <2>3
<1>6. ASSUME NEW i \in 1 .. m - 1, i \in S PROVE i + 1 \in S
  <2>1. /\ i + 1 \in 1 .. m /\ (i + 1) - 1 = i
        /\ (a - 1) + (i + 1) \in 1 .. Len(t)
        /\ ((a - 1) + (i + 1)) - 1 = (a - 1) + i
    BY <1>2 DEF m
  <2>2. Modes(e)[i + 1] = NextMode(Modes(e)[i], t[(a - 1) + (i + 1)])
    BY <1>1, <1>3, <2>1
  <2>3. Modes(t)[(a - 1) + (i + 1)] = NextMode(Modes(t)[(a - 1) + i], t[(a - 1) + (i + 1)])
    BY <1>4, <2>1
  <2>4. QED
    BY <1>6, <2>1, <2>2, <2>3
<1>7. 1 .. m \subseteq S
  <2> HIDE DEF S
  <2>1. QED
    BY <1>2, <1>5, <1>6, UpwardInduction
<1>8. QED
  BY <1>1, <1>7 DEF e, m

SameSymbol(t, j, e, i) ==
  /\ i \in 1 .. Len(e) /\ j \in 1 .. Len(t)
  /\ e[i] = t[j] /\ Modes(e)[i] = Modes(t)[j]
  /\ Live(e, i) <=> Live(t, j)
  /\ Part(e, i) <=> Part(t, j)
  /\ \A w : Whole(e, i, w) <=> Whole(t, j, w)
  /\ i \in ShownIn(e) <=> j \in ShownIn(t)

LEMMA CutSymbols ==
  ASSUME NEW t \in Seq(STRING), NEW a \in 1 .. Len(t), NEW b \in a .. Len(t),
         Modes(t)[a] = Opens(t[a]), Modes(t)[a - 1] \in Outside,
         ~Part(t, a - 1), ~Part(t, b + 1), ~BlankAt(t, b),
         NEW e, e = SubSeq(t, a, b), NEW i \in 1 .. (b - a) + 1
  PROVE  SameSymbol(t, (a - 1) + i, e, i)
<1> DEFINE m == (b - a) + 1
           I(k) == (a - 1) + k
<1>1. /\ Len(e) = m
      /\ \A k \in 1 .. m : e[k] = t[I(k)] /\ Modes(e)[k] = Modes(t)[I(k)]
  <2> DEFINE cut == SubSeq(t, a, b)
  <2>1. /\ Len(cut) = (b - a) + 1
        /\ \A k \in 1 .. (b - a) + 1 :
             cut[k] = t[(a - 1) + k] /\ Modes(cut)[k] = Modes(t)[(a - 1) + k]
    BY CutModes
  <2> HIDE DEF cut
  <2>2. e = cut
    BY DEF cut
  <2>3. QED
    BY <2>1, <2>2
<1>2. Len(t) \in Nat /\ m \in Nat
  OBVIOUS
<1>3. Modes(e)[0] = "plain" /\ "plain" \in Outside
  BY <1>1, <1>2, ModeSteps DEF Outside
<1>4. ASSUME NEW k \in 1 .. m
      PROVE  /\ I(k) \in 1 .. Len(t) /\ I(k) - 1 = I(k - 1) /\ I(k) + 1 = I(k + 1)
             /\ (k = 1 /\ k - 1 = 0 /\ I(k) - 1 = a - 1) \/ k - 1 \in 1 .. m
             /\ (k = m /\ I(k) = b /\ I(k) + 1 = b + 1) \/ k + 1 \in 1 .. m
  OBVIOUS
<1> HIDE DEF m, I
<1>5. ASSUME NEW k \in 1 .. m
      PROVE  /\ Modes(e)[k - 1] \in Outside <=> Modes(t)[I(k) - 1] \in Outside
             /\ Modes(e)[k - 1] \in Comments <=> Modes(t)[I(k) - 1] \in Comments
  <2>1. CASE k = 1 /\ k - 1 = 0 /\ I(k) - 1 = a - 1
    <3>1. \A x \in Outside : x \notin Comments
      BY DEF Outside, Comments
    <3>2. Modes(e)[k - 1] \in Outside /\ Modes(t)[I(k) - 1] \in Outside
      BY <1>3, <2>1
    <3>3. QED
      BY <3>1, <3>2
  <2>2. CASE k - 1 \in 1 .. m
    BY <1>1, <1>4, <2>2
  <2>3. QED
    BY <1>4, <2>1, <2>2
<1>6. ASSUME NEW k \in 1 .. m PROVE Live(e, k) <=> Live(t, I(k))
  BY <1>1, <1>4, <1>5 DEF Live
<1>7. ASSUME NEW x \in 1 .. m PROVE Part(e, x) <=> Part(t, I(x))
  <2> DEFINE S == {k \in Int : Part(e, k) <=> Part(t, I(k))}
  <2>1. ASSUME NEW k \in 1 .. m, Part(e, k - 1) <=> Part(t, I(k) - 1) PROVE k \in S
    <3>1. k \in Int /\ I(k) \in Int
      BY <1>4
    <3>2. Part(e, k) <=> Live(e, k) /\ (e[k] \in Words \/ (e[k] \in Numbers /\ Part(e, k - 1)))
      BY <1>1, <1>2, <3>1, PartStep
    <3>3. Part(t, I(k))
            <=> Live(t, I(k)) /\ (t[I(k)] \in Words \/ (t[I(k)] \in Numbers /\ Part(t, I(k) - 1)))
      BY <1>2, <3>1, PartStep
    <3>4. QED
      BY <1>1, <1>6, <2>1, <3>1, <3>2, <3>3
  <2>2. 1 \in S
    <3>1. 1 \in 1 .. m /\ I(1) - 1 = a - 1 /\ 1 - 1 = 0
      BY DEF m, I
    <3>2. ~Part(e, 0)
      BY DEF Part, Live
    <3>3. QED
      BY <2>1, <3>1, <3>2
  <2>3. ASSUME NEW k \in 1 .. m - 1, k \in S PROVE k + 1 \in S
    <3>1. k \in 1 .. m /\ k + 1 \in 1 .. m /\ (k + 1) - 1 = k
      BY <1>2
    <3>2. I(k + 1) - 1 = I(k)
      BY <3>1 DEF I
    <3>3. QED
      BY <2>1, <2>3, <3>1, <3>2
  <2>4. 1 .. m \subseteq S
    <3> HIDE DEF S
    <3>1. 1 \in Int /\ m \in Int
      BY <1>2
    <3>2. QED
      BY <2>2, <2>3, <3>1, UpwardInduction
  <2>5. QED
    BY <2>4
<1>8. ASSUME NEW k \in 1 .. m
      PROVE  /\ Part(e, k - 1) <=> Part(t, I(k) - 1)
             /\ Part(e, k + 1) <=> Part(t, I(k) + 1)
  <2>1. Part(e, k - 1) <=> Part(t, I(k) - 1)
    <3>1. CASE k = 1 /\ k - 1 = 0 /\ I(k) - 1 = a - 1
      <4>1. ~Part(e, 0)
        BY DEF Part, Live
      <4>2. QED
        BY <3>1, <4>1
    <3>2. CASE k - 1 \in 1 .. m
      BY <1>4, <1>7, <3>2
    <3>3. QED
      BY <1>4, <3>1, <3>2
  <2>2. Part(e, k + 1) <=> Part(t, I(k) + 1)
    <3>1. CASE k = m /\ I(k) = b /\ I(k) + 1 = b + 1
      <4>1. ~Part(e, k + 1)
        BY <1>1, <1>2, <3>1 DEF Part, Live
      <4>2. QED
        BY <3>1, <4>1
    <3>2. CASE k + 1 \in 1 .. m
      BY <1>4, <1>7, <3>2
    <3>3. QED
      BY <1>4, <3>1, <3>2
  <2>3. QED
    BY <2>1, <2>2
<1>9. ASSUME NEW k \in 1 .. m, NEW w PROVE Whole(e, k, w) <=> Whole(t, I(k), w)
  BY <1>1, <1>6, <1>8 DEF Whole
<1>10. ASSUME NEW k \in 1 .. m PROVE BlankAt(e, k) <=> BlankAt(t, I(k))
  <2>1. ({Modes(e)[k - 1], Modes(e)[k]} \cap Comments # {})
          <=> ({Modes(t)[I(k) - 1], Modes(t)[I(k)]} \cap Comments # {})
    BY <1>1, <1>5
  <2>2. CASE k = m /\ I(k) = b /\ I(k) + 1 = b + 1
    <3>1. ~(k < Len(e)) /\ ~BlankAt(t, I(k))
      BY <1>1, <1>2, <2>2
    <3>2. QED
      BY <1>1, <1>6, <2>1, <3>1 DEF BlankAt
  <2>3. CASE k + 1 \in 1 .. m
    <3>1. k < Len(e) /\ I(k) < Len(t) /\ Modes(e)[k + 1] = Modes(t)[I(k) + 1]
      <4>1. I(k + 1) \in 1 .. Len(t) /\ I(k) \in 1 .. Len(t) /\ I(k) + 1 = I(k + 1)
        BY <1>4, <2>3
      <4>2. Modes(e)[k + 1] = Modes(t)[I(k + 1)]
        BY <1>1, <2>3
      <4>3. k < Len(e)
        BY <1>1, <1>2, <2>3
      <4>4. QED
        BY <1>2, <4>1, <4>2, <4>3
    <3>2. QED
      BY <1>1, <1>6, <2>1, <3>1 DEF BlankAt
  <2>4. QED
    BY <1>4, <2>2, <2>3
<1>11. i \in 1 .. m
  BY DEF m
<1>12. i \in ShownIn(e) <=> I(i) \in ShownIn(t)
  BY <1>1, <1>4, <1>10, <1>11 DEF ShownIn
<1>13. QED
  BY <1>1, <1>4, <1>6, <1>7, <1>9, <1>11, <1>12 DEF SameSymbol, I

-----------------------------------------------------------------------------
(* Where the part that is run begins and ends.                             *)
CutOK(t, a, b) ==
  /\ a \in 1 .. Len(t) /\ b \in a .. Len(t)
  /\ Modes(t)[a] = Opens(t[a]) /\ Modes(t)[a - 1] \in Outside
  /\ Modes(t)[b] \in Outside /\ ~BlankAt(t, b)
  /\ a \in ShownIn(t) /\ \A j \in ShownIn(t) : a <= j
  /\ ~Part(t, a - 1) /\ ~Part(t, b + 1)
  /\ \A j : Part(t, j) => j \in a .. b
  /\ \A j \in a .. b : ~(Live(t, j) /\ t[j] = Semicolon)

LEMMA BodyEnds ==
  ASSUME text \in Seq(STRING), Read(text, tokens, Len(text) + 1),
         Modes(text)[Len(text)] \in Outside \cup {"line"}, Judgement = "ok"
  PROVE  CutOK(text, Body[1].from, Body[Len(Body)].to)
<1>0. PICK a, b : a = Body[1].from /\ b = Body[Len(Body)].to
  OBVIOUS
<1>1. Len(text) \in Nat
  OBVIOUS
<1>2. /\ tokens # <<>> /\ Semicolons \subseteq {Len(tokens)} /\ Body # <<>>
  BY JudgedOk
<1>3. /\ tokens \in Seq(Tokens(text)) /\ Len(tokens) \in Nat \ {0}
      /\ Body \in Seq(Tokens(text)) /\ Len(Body) \in Nat \ {0}
      /\ Len(Body) = IF Semicolons = {} THEN Len(tokens) ELSE Len(tokens) - 1
      /\ \A k \in 1 .. Len(Body) : Body[k] = tokens[k] /\ k \in 1 .. Len(tokens)
  <2>1. tokens \in Seq(Tokens(text))
    BY DEF Read
  <2>2. QED
    BY <1>2, <2>1, BodyIs, EmptySeq
<1> DEFINE m == Len(Body)
<1>4. 1 \in 1 .. Len(Body) /\ m \in 1 .. Len(Body) /\ m \in Nat /\ 1 <= m
  <2>1. m \in Nat \ {0} /\ m = Len(Body)
    BY <1>3
  <2> HIDE DEF m
  <2>2. QED
    BY <2>1
<1> HIDE DEF m
<1>5. /\ a = tokens[1].from /\ b = tokens[m].to
      /\ 1 \in 1 .. Len(tokens) /\ m \in 1 .. Len(tokens)
  BY <1>0, <1>3, <1>4 DEF m
<1>6. a \in tokens[1].from .. tokens[1].to /\ b \in tokens[m].from .. tokens[m].to
  BY <1>1, <1>5, TokenEnds
<1>7. a \in 1 .. Len(text) /\ b \in 1 .. Len(text)
  BY <1>1, <1>5, <1>6, TokenShown
<1>8. a <= b
  <2>1. /\ 1 < m => a < b
        /\ b < a => m <= 1
    BY <1>1, <1>5, <1>6, TokenOrder
  <2>2. CASE 1 = m
    <3>1. b \in tokens[1].from .. tokens[1].to
      BY <1>6, <2>2
    <3>2. QED
      BY <1>5, <3>1
  <2>3. QED
    BY <1>4, <1>7, <2>1, <2>2
<1>9. Modes(text)[a] = Opens(text[a]) /\ Modes(text)[a - 1] \in Outside
  <2>1. TokenOK(text, tokens[1])
    BY <1>1, <1>5, TokenTypes
  <2>2. QED
    BY <1>5, <2>1 DEF TokenOK
<1>10. Modes(text)[b] \in Outside /\ ~BlankAt(text, b)
  <2>1. TokenOK(text, tokens[m])
    BY <1>1, <1>5, TokenTypes
  <2>2. QED
    BY <1>5, <1>6, <2>1 DEF TokenOK
<1>11. a \in ShownIn(text) /\ \A j \in ShownIn(text) : a <= j
  BY <1>1, <1>3, <1>5, FirstShown
<1>12. ASSUME NEW j, Part(text, j) PROVE j \in a .. b
  <2>1. PICK k \in 1 .. Len(tokens) : /\ tokens[k].type = "word"
                                      /\ j \in tokens[k].from .. tokens[k].to
    BY <1>1, <1>12, PartInToken
  <2>2. ~IsPunct(tokens[k], Semicolon)
    BY <2>1 DEF IsPunct
  <2>3. k \in 1 .. Len(Body)
    BY <1>2, <1>3, <2>2, InBody
  <2>4. a <= j
    BY <1>1, <1>11, <1>12, PartIsShown
  <2>5. j \in Int /\ (b < j => m <= k)
    BY <1>1, <1>5, <1>6, <2>1, TokenOrder
  <2>6. b < j => k = m
    BY <1>3, <2>3, <2>5 DEF m
  <2>7. k = m => j <= b
    BY <1>5, <2>1
  <2>8. QED
    BY <1>7, <2>4, <2>5, <2>6, <2>7
<1>13. ASSUME NEW j \in a .. b, Live(text, j), text[j] = Semicolon PROVE FALSE
  <2>1. PICK k \in 1 .. Len(tokens) : /\ tokens[k].type = "punct" /\ tokens[k].from = j
                                      /\ tokens[k].to = j
    BY <1>1, <1>13, MarkToken
  <2>2. k \in Semicolons
    BY <1>13, <2>1 DEF Semicolons, IsPunct
  <2>3. k = Len(tokens) /\ m < k
    BY <1>2, <1>3, <2>2 DEF m
  <2>4. j \in tokens[k].from .. tokens[k].to
    BY <1>1, <2>1, TokenEnds
  <2>5. b < j
    BY <1>1, <1>5, <1>6, <2>3, <2>4, TokenOrder
  <2>6. QED
    BY <1>7, <2>5
<1>14. ~Part(text, a - 1) /\ ~Part(text, b + 1)
  <2>1. a - 1 \notin a .. b /\ b + 1 \notin a .. b
    BY <1>7
  <2>2. QED
    BY <1>12, <2>1
<1>15. b \in a .. Len(text)
  BY <1>7, <1>8
<1>16. CutOK(text, a, b)
  BY <1>7, <1>9, <1>10, <1>11, <1>12, <1>13, <1>14, <1>15 DEF CutOK
<1>17. QED
  BY <1>0, <1>16

(* What is cut out of a text that is judged ok is one such statement, with *)
(* no semicolon in it that would end it and nothing left open.             *)
LEMMA ExecutedReads ==
  ASSUME text \in Seq(STRING), Read(text, tokens, Len(text) + 1),
         Modes(text)[Len(text)] \in Outside \cup {"line"}, Judgement = "ok",
         ~NumberedParameter(text)
  PROVE  /\ ReadsOnly(Executed) /\ Modes(Executed)[Len(Executed)] \in Outside
         /\ \A i \in 1 .. Len(Executed) : Executed[i] = Semicolon =>
              ~(Modes(Executed)[i - 1] \in Outside)
<1>1. Len(text) \in Nat
  OBVIOUS
<1>0. PICK e, a, b : e = Executed /\ a = Body[1].from /\ b = Body[Len(Body)].to
  OBVIOUS
<1> DEFINE m == (b - a) + 1
           I(k) == (a - 1) + k
<1>2. /\ a \in 1 .. Len(text) /\ b \in a .. Len(text) /\ e = SubSeq(text, a, b)
      /\ Modes(text)[a] = Opens(text[a]) /\ Modes(text)[a - 1] \in Outside
      /\ Modes(text)[b] \in Outside /\ ~BlankAt(text, b)
      /\ a \in ShownIn(text) /\ \A j \in ShownIn(text) : a <= j
      /\ ~Part(text, a - 1) /\ ~Part(text, b + 1)
      /\ \A j : Part(text, j) => j \in a .. b
      /\ \A j \in a .. b : ~(Live(text, j) /\ text[j] = Semicolon)
  <2>1. CutOK(text, a, b)
    BY <1>0, BodyEnds
  <2>2. QED
    BY <1>0, <2>1 DEF CutOK, Executed
<1>3. ASSUME NEW i \in 1 .. m
      PROVE  /\ i \in 1 .. Len(e) /\ e[i] = text[I(i)] /\ Modes(e)[i] = Modes(text)[I(i)]
             /\ Live(e, i) <=> Live(text, I(i))
             /\ Part(e, i) <=> Part(text, I(i))
             /\ \A w : Whole(e, i, w) <=> Whole(text, I(i), w)
             /\ i \in ShownIn(e) <=> I(i) \in ShownIn(text)
  <2>1. SameSymbol(text, (a - 1) + i, e, i)
    BY <1>2, CutSymbols
  <2>2. QED
    BY <2>1 DEF SameSymbol
<1>4. Len(e) = m /\ e \in Seq(STRING)
  <2> DEFINE cut == SubSeq(text, a, b)
  <2>1. cut \in Seq(STRING) /\ Len(cut) = (b - a) + 1
    BY <1>2, CutModes
  <2> HIDE DEF cut
  <2>2. e = cut
    BY <1>2 DEF cut
  <2>3. QED
    BY <2>1, <2>2
<1>5. /\ m \in Nat \ {0} /\ a \in Int /\ b \in Int /\ I(1) = a /\ I(m) = b
      /\ \A i \in 1 .. m : I(i) \in a .. b
      /\ \A j \in a .. b : j - (a - 1) \in 1 .. m /\ I(j - (a - 1)) = j
      /\ \A i, j \in 1 .. m : /\ i <= j <=> I(i) <= I(j)
                              /\ i < j <=> I(i) < I(j)
  <2>1. a \in Int /\ b \in Int /\ a <= b
    BY <1>2
  <2>2. QED
    BY <2>1
<1>6. \A i \in ShownIn(e) : i \in 1 .. m
  BY <1>4 DEF ShownIn
<1>7. \A i : Part(e, i) => i \in 1 .. m
  BY <1>4 DEF Part, Live
<1> HIDE DEF m, I
<1>8. ReadsOnly(text)
  BY <1>1, JudgedReads
<1>9. \A i \in ShownIn(text) :
        /\ \A w \in Forbidden : ~Whole(text, i, w)
        /\ Live(text, i) => text[i] # "?"
        /\ Live(text, i) /\ text[i] = ":" =>
             ~\E j \in ShownIn(text) : Part(text, j) /\ i < j
                                  /\ \A k \in ShownIn(text) : ~(i < k /\ k < j)
  BY <1>8, Zenon DEF ReadsOnly
<1>10. 1 \in 1 .. m /\ 1 \in ShownIn(e) /\ \A j \in ShownIn(e) : 1 <= j
  <2>1. 1 \in 1 .. m /\ \A j \in 1 .. m : 1 <= j
    BY <1>5
  <2>2. 1 \in ShownIn(e)
    BY <1>2, <1>3, <1>5, <2>1
  <2>3. QED
    BY <1>6, <2>1, <2>2
<1>11. \/ Whole(e, 1, "SELECT")
       \/ Whole(e, 1, "WITH") /\ \E j \in ShownIn(e) : Whole(e, j, "SELECT")
  <2>1. PICK i \in ShownIn(text) :
          /\ \A j \in ShownIn(text) : i <= j
          /\ \/ Whole(text, i, "SELECT")
             \/ Whole(text, i, "WITH") /\ \E j \in ShownIn(text) : Whole(text, j, "SELECT")
    BY <1>8, Zenon DEF ReadsOnly
  <2>2. i = I(1)
    <3>1. i \in Int /\ i <= a /\ a <= i
      BY <1>2, <2>1 DEF ShownIn
    <3>2. QED
      BY <1>5, <3>1
  <2>3. CASE Whole(text, i, "SELECT")
    BY <1>3, <1>10, <2>2, <2>3
  <2>4. CASE Whole(text, i, "WITH") /\ \E j \in ShownIn(text) : Whole(text, j, "SELECT")
    <3>1. Whole(e, 1, "WITH")
      BY <1>3, <1>10, <2>2, <2>4
    <3>2. PICK j \in ShownIn(text) : Whole(text, j, "SELECT")
      BY <2>4
    <3>3. Part(text, j)
      <4>1. "SELECT" \in Words
        BY DEF Words
      <4>2. QED
        BY <1>1, <3>2, <4>1, WholeIsPart
    <3> DEFINE x == j - (a - 1)
    <3>4. x \in 1 .. m /\ I(x) = j
      BY <1>2, <1>5, <3>3
    <3> HIDE DEF x
    <3>5. x \in ShownIn(e) /\ Whole(e, x, "SELECT")
      BY <1>3, <3>2, <3>4
    <3>6. QED
      BY <3>1, <3>5
  <2>5. QED
    BY <2>1, <2>3, <2>4
<1>12. ASSUME NEW i \in ShownIn(e)
       PROVE  /\ \A w \in Forbidden : ~Whole(e, i, w)
              /\ Live(e, i) => e[i] # "?"
              /\ ~(Live(e, i) /\ e[i] = Semicolon)
  <2>1. i \in 1 .. m /\ I(i) \in a .. b
    BY <1>5, <1>6
  <2>2. I(i) \in ShownIn(text)
    BY <1>3, <2>1
  <2>3. e[i] = text[I(i)]
    BY <1>3, <2>1
  <2>4. Live(e, i) <=> Live(text, I(i))
    BY <1>3, <2>1
  <2>5. \A w : Whole(e, i, w) <=> Whole(text, I(i), w)
    BY <1>3, <2>1
  <2>6. QED
    BY <1>2, <1>9, <2>1, <2>2, <2>3, <2>4, <2>5
<1>13. ASSUME NEW i \in ShownIn(e), Live(e, i), e[i] = ":",
              NEW j \in ShownIn(e), Part(e, j), i < j,
              \A k \in ShownIn(e) : ~(i < k /\ k < j)
       PROVE  FALSE
  <2>1. i \in 1 .. m /\ j \in 1 .. m /\ I(i) \in a .. b /\ I(j) \in a .. b
    BY <1>5, <1>6
  <2>2. I(i) \in ShownIn(text) /\ I(j) \in ShownIn(text) /\ Part(text, I(j)) /\ Live(text, I(i))
    BY <1>3, <1>13, <2>1
  <2>3. text[I(i)] = ":"
    BY <1>3, <1>13, <2>1
  <2>4. I(i) < I(j)
    BY <1>5, <1>13, <2>1
  <2>5. ASSUME NEW k \in ShownIn(text), I(i) < k, k < I(j) PROVE FALSE
    <3>1. k \in Int
      BY DEF ShownIn
    <3>2. k \in a .. b
      BY <1>5, <2>1, <2>5, <3>1
    <3> DEFINE x == k - (a - 1)
    <3>3. x \in 1 .. m /\ I(x) = k
      BY <1>5, <3>2
    <3> HIDE DEF x
    <3>4. x \in ShownIn(e)
      BY <1>3, <3>3
    <3>5. i < x /\ x < j
      BY <1>5, <2>1, <2>5, <3>3
    <3>6. QED
      BY <1>13, <3>4, <3>5
  <2>6. QED
    BY <1>9, <2>2, <2>3, <2>4, <2>5
<1>14. Modes(e)[Len(e)] \in Outside
  <2>1. m \in 1 .. m
    BY <1>5
  <2>2. QED
    BY <1>2, <1>3, <1>4, <1>5, <2>1
<1>15. ReadsOnly(e)
  <2>1. \E i \in ShownIn(e) :
          /\ \A j \in ShownIn(e) : i <= j
          /\ \/ Whole(e, i, "SELECT")
             \/ Whole(e, i, "WITH") /\ \E j \in ShownIn(e) : Whole(e, j, "SELECT")
    BY <1>10, <1>11
  <2>2. \A i \in ShownIn(e) :
          /\ \A w \in Forbidden : ~Whole(e, i, w)
          /\ Live(e, i) => e[i] # "?"
          /\ Live(e, i) /\ e[i] = Semicolon => \A j \in ShownIn(e) : j <= i
          /\ Live(e, i) /\ e[i] = ":" =>
               ~\E j \in ShownIn(e) : Part(e, j) /\ i < j
                                    /\ \A k \in ShownIn(e) : ~(i < k /\ k < j)
    BY <1>12, <1>13
  <2>3. ~NumberedParameter(e)
    <3>1. SUFFICES ASSUME NEW i \in 1 .. Len(e) - 1, Live(e, i), e[i] = ":", e[i + 1] \in Numbers
                   PROVE  FALSE
      BY DEF NumberedParameter
    <3>2. i \in 1 .. m /\ i + 1 \in 1 .. m
      BY <1>4, <1>5
    <3>3. /\ e[i] = text[I(i)] /\ e[i + 1] = text[I(i + 1)] /\ Live(text, I(i))
          /\ I(i) \in a .. b /\ I(i + 1) \in a .. b
      BY <1>3, <1>5, <3>1, <3>2
    <3>4. I(i + 1) = I(i) + 1
      BY <1>2, <3>2 DEF I
    <3>5. I(i) \in 1 .. Len(text) - 1
      <4>1. PICK x, y, n : x = I(i) /\ y = I(i + 1) /\ n = Len(text)
        OBVIOUS
      <4>2. x \in a .. b /\ y \in a .. b /\ y = x + 1 /\ a \in 1 .. n /\ b \in a .. n /\ n \in Nat
        BY <1>1, <1>2, <3>3, <3>4, <4>1
      <4>3. x \in 1 .. n - 1
        BY <4>2
      <4>4. QED
        BY <4>1, <4>3
    <3>6. QED
      BY <3>1, <3>3, <3>4, <3>5 DEF NumberedParameter
  <2>4. QED
    BY <1>14, <2>1, <2>2, <2>3, Zenon DEF ReadsOnly
<1>16. ASSUME NEW i \in 1 .. Len(e), e[i] = Semicolon, Modes(e)[i - 1] \in Outside
       PROVE  FALSE
  <2>1. Len(e) \in Nat
    BY <1>4, <1>5
  <2>2. Modes(e)[i] = NextMode(Modes(e)[i - 1], e[i])
    BY <2>1, ModeSteps
  <2>3. e[i] # "*" /\ e[i] # "-" /\ Opens(e[i]) = "plain" /\ e[i] # Newline
    BY <1>16 DEF Semicolon, Opens, DoubleQuote, Newline
  <2>4. Modes(e)[i] = "plain"
    BY <1>16, <2>2, <2>3, OutsideNext
  <2>5. Live(e, i)
    BY <1>16, <2>4 DEF Live
  <2>6. i \in ShownIn(e)
    BY <2>1, <2>3, <2>5, LiveShown
  <2>7. QED
    BY <1>12, <1>16, <2>5, <2>6
<1>17. QED
  BY <1>0, <1>14, <1>15, <1>16

-----------------------------------------------------------------------------
(* What the tokenizer reads.                                               *)
LEMMA LeastOf ==
  ASSUME NEW F, F \subseteq Nat, F # {}, NEW m, m = CHOOSE j \in F : \A k \in F : j <= k
  PROVE  m \in F /\ \A k \in F : m <= k
<1>1. \E j \in F : \A k \in F : j <= k
  BY LeastNatural
<1>2. QED
  BY <1>1

(* A place where a token may begin, and what it says of the symbol there.  *)
LEMMA ReadyOpens ==
  ASSUME NEW t, Len(t) \in Nat, NEW i \in 1 .. Len(t), Ready(t, i)
  PROVE  /\ Modes(t)[i - 1] \in Outside /\ Modes(t)[i] = Opens(t[i])
         /\ Modes(t)[i - 1] \notin Comments
<1>1. /\ Modes(t)[i - 1] \in Outside
      /\ Modes(t)[i - 1] = "slash" => t[i] # "*"
      /\ Modes(t)[i - 1] = "dash" => t[i] # "-"
  BY DEF Ready
<1>2. Modes(t)[i] = NextMode(Modes(t)[i - 1], t[i])
  BY ModeSteps
<1>3. NextMode(Modes(t)[i - 1], t[i]) = Opens(t[i])
  BY <1>1, OutsideNext
<1>4. QED
  BY <1>1, <1>2, <1>3 DEF Outside, Comments

LEMMA ReadyPlain ==
  ASSUME NEW t, NEW i \in 1 .. Len(t) + 1, Modes(t)[i - 1] = "plain"
  PROVE  Ready(t, i)
BY DEF Ready, Outside

LEMMA SpaceReads ==
  ASSUME NEW t, Len(t) \in Nat, NEW s, NEW i \in 1 .. Len(t), Ready(t, i), Read(t, s, i),
         t[i] = Newline
  PROVE  Ready(t, i + 1) /\ Read(t, s, i + 1)
<1>1. Modes(t)[i - 1] \in Outside /\ Modes(t)[i] = Opens(t[i])
  BY ReadyOpens
<1>2. Modes(t)[i] = "plain"
  BY <1>1 DEF Opens, Newline, DoubleQuote
<1>3. BlankAt(t, i)
  BY <1>1, <1>2 DEF BlankAt, Live
<1>4. i + 1 \in i .. Len(t) + 1 /\ i + 1 \in 1 .. Len(t) + 1 /\ (i + 1) - 1 = i
      /\ i \in 1 .. Len(t) + 1 /\ \A j \in i .. (i + 1) - 1 : j = i
  OBVIOUS
<1>5. QED
  BY <1>2, <1>3, <1>4, ReadBlank, ReadyPlain

LEMMA LineReads ==
  ASSUME NEW t, Len(t) \in Nat, NEW s, NEW i \in 1 .. Len(t) - 1, Ready(t, i), Read(t, s, i),
         t[i] = "-", t[i + 1] = "-", NEW w \in i + 2 .. Len(t) + 1,
         \A j \in i + 2 .. w - 1 : t[j] # Newline,
         w <= Len(t) => t[w] = Newline,
         NEW e, e = IF w <= Len(t) THEN w + 1 ELSE w
  PROVE  e \in 1 .. Len(t) + 1 /\ Reached(t, e) /\ Read(t, s, e)
<1> DEFINE n == Len(t)
           m == Modes(t)
<1>1. i \in 1 .. n /\ i + 1 \in 1 .. n /\ (i + 1) - 1 = i
  OBVIOUS
<1>2. m[i] = "dash"
  <2>1. m[i] = Opens(t[i])
    BY <1>1, ReadyOpens
  <2>2. QED
    BY <2>1 DEF Opens
<1>3. \A j \in 1 .. n : m[j] = NextMode(m[j - 1], t[j])
  BY ModeSteps
<1>4. m[i + 1] = "line"
  <2>1. m[i + 1] = NextMode("dash", "-")
    BY <1>1, <1>2, <1>3
  <2>2. QED
    BY <2>1, NextModes
<1> HIDE DEF m
<1> DEFINE S == {j \in Int : m[j] = "line"}
<1>5. ASSUME NEW j \in i + 1 .. (w - 1) - 1, j \in S PROVE j + 1 \in S
  <2>1. j + 1 \in 1 .. n /\ (j + 1) - 1 = j /\ j + 1 \in i + 2 .. w - 1
    OBVIOUS
  <2>2. m[j + 1] = NextMode("line", t[j + 1]) /\ t[j + 1] # Newline
    BY <1>3, <1>5, <2>1
  <2>3. QED
    BY <2>1, <2>2, NextModes
<1>6. i + 1 .. w - 1 \subseteq S
  <2>1. i + 1 \in S /\ i + 1 \in Int /\ w - 1 \in Int
    BY <1>4
  <2> HIDE DEF S
  <2>2. QED
    BY <1>5, <2>1, UpwardInduction
<1>7. /\ e \in i .. n + 1 /\ i \in 1 .. n + 1
      /\ \A j \in i .. e - 1 : j = i \/ j \in i + 1 .. w - 1 \/ (j = w /\ w <= n)
      /\ w - 1 \in i + 1 .. w - 1
  OBVIOUS
<1>8. ASSUME NEW j \in i .. e - 1 PROVE BlankAt(t, j)
  <2>1. CASE j = i
    BY <1>1, <1>2, <1>4, <2>1 DEF BlankAt, m
  <2>2. CASE j \in i + 1 .. w - 1
    <3>1. m[j] = "line"
      BY <1>6, <2>2
    <3>2. QED
      BY <3>1 DEF BlankAt, m, Comments
  <2>3. CASE j = w
    <3>1. m[j - 1] = "line"
      BY <1>6, <1>7, <2>3
    <3>2. QED
      BY <3>1 DEF BlankAt, m, Comments
  <2>4. QED
    BY <1>7, <2>1, <2>2, <2>3
<1>9. Read(t, s, e)
  BY <1>7, <1>8, ReadBlank
<1>10. Reached(t, e)
  <2>1. m[w - 1] = "line"
    BY <1>6, <1>7
  <2>2. CASE w <= n
    <3>1. m[w] = NextMode("line", Newline)
      <4>1. w \in 1 .. n
        BY <2>2
      <4>2. QED
        BY <1>3, <2>1, <2>2, <4>1
    <3>2. m[w] = "plain" /\ e = w + 1 /\ e \in 1 .. n + 1 /\ e - 1 = w
      BY <2>2, <3>1, NextModes
    <3>3. Ready(t, e)
      BY <3>2, ReadyPlain DEF m
    <3>4. QED
      BY <3>3 DEF Reached
  <2>3. CASE ~(w <= n)
    <3>1. e = n + 1 /\ w - 1 = n
      BY <2>3
    <3>2. QED
      BY <2>1, <3>1 DEF Reached, m
  <2>4. QED
    BY <2>2, <2>3
<1>11. QED
  BY <1>7, <1>9, <1>10

-----------------------------------------------------------------------------
(* Within a block comment: until its end, the mode tells the star apart.   *)
LEMMA BlockRuns ==
  ASSUME NEW t, Len(t) \in Nat, NEW i \in 1 .. Len(t) - 1, Ready(t, i),
         t[i] = "/", t[i + 1] = "*", NEW w \in i + 1 .. Len(t),
         \A j \in i + 2 .. w - 1 : ~(t[j] = "*" /\ t[j + 1] = "/")
  PROVE  /\ Modes(t)[i] = "slash" /\ Modes(t)[i + 1] = "block"
         /\ \A j \in i + 1 .. w : Modes(t)[j] \in {"block", "star"}
         /\ w >= i + 2 /\ t[w] = "*" => Modes(t)[w] = "star"
<1> DEFINE n == Len(t)
           m == Modes(t)
<1>1. i \in 1 .. n /\ i + 1 \in 1 .. n /\ (i + 1) - 1 = i
  OBVIOUS
<1>2. m[i] = "slash"
  <2>1. m[i] = Opens(t[i])
    BY <1>1, ReadyOpens
  <2>2. QED
    BY <2>1 DEF Opens
<1>3. \A j \in 1 .. n : m[j] = NextMode(m[j - 1], t[j])
  BY ModeSteps
<1>4. m[i + 1] = "block"
  <2>1. m[i + 1] = NextMode("slash", "*")
    BY <1>1, <1>2, <1>3
  <2>2. QED
    BY <2>1, NextModes
<1> HIDE DEF m
<1> DEFINE S == {j \in Int : /\ m[j] \in {"block", "star"}
                             /\ m[j] = "star" => j >= i + 2 /\ t[j] = "*"
                             /\ j >= i + 2 /\ t[j] = "*" => m[j] = "star"}
<1>5. ASSUME NEW j \in i + 1 .. w - 1, j \in S PROVE j + 1 \in S
  <2>1. /\ j + 1 \in 1 .. n /\ (j + 1) - 1 = j /\ j + 1 >= i + 2 /\ j + 1 \in Int
        /\ j \in Int
    OBVIOUS
  <2>2. m[j + 1] = NextMode(m[j], t[j + 1])
    BY <1>3, <2>1
  <2>3. CASE m[j] = "block"
    <3>1. m[j + 1] = IF t[j + 1] = "*" THEN "star" ELSE "block"
      BY <2>2, <2>3, NextModes
    <3>2. QED
      BY <2>1, <3>1
  <2>4. CASE m[j] = "star"
    <3>1. j >= i + 2 /\ t[j] = "*"
      BY <1>5, <2>4
    <3>2. j \in i + 2 .. w - 1
      BY <3>1
    <3>3. t[j + 1] # "/"
      BY <3>1, <3>2
    <3>4. m[j + 1] = IF t[j + 1] = "*" THEN "star" ELSE "block"
      BY <2>2, <2>4, <3>3, NextModes
    <3>5. QED
      BY <2>1, <3>4
  <2>5. QED
    BY <1>5, <2>3, <2>4
<1>6. i + 1 .. w \subseteq S
  <2>1. i + 1 \in S /\ i + 1 \in Int /\ w \in Int
    BY <1>4
  <2> HIDE DEF S
  <2>2. QED
    BY <1>5, <2>1, UpwardInduction
<1>7. w \in i + 1 .. w
  OBVIOUS
<1>8. QED
  BY <1>2, <1>4, <1>6, <1>7 DEF m

LEMMA BlockReads ==
  ASSUME NEW t, Len(t) \in Nat, NEW s, NEW i \in 1 .. Len(t) - 1, Ready(t, i), Read(t, s, i),
         t[i] = "/", t[i + 1] = "*", NEW w \in i + 2 .. Len(t) - 1,
         \A j \in i + 2 .. w - 1 : ~(t[j] = "*" /\ t[j + 1] = "/"),
         t[w] = "*", t[w + 1] = "/"
  PROVE  w + 2 \in 1 .. Len(t) + 1 /\ Ready(t, w + 2) /\ Read(t, s, w + 2)
<1> DEFINE n == Len(t)
           m == Modes(t)
<1>1. /\ m[i] = "slash" /\ m[i + 1] = "block" /\ m[w] = "star"
      /\ \A j \in i + 1 .. w : m[j] \in {"block", "star"}
  <2>1. w \in i + 1 .. n /\ w >= i + 2
    OBVIOUS
  <2>2. QED
    BY <2>1, BlockRuns
<1>2. m[w + 1] = "plain"
  <2>1. w + 1 \in 1 .. n /\ (w + 1) - 1 = w
    OBVIOUS
  <2>2. m[w + 1] = NextMode("star", "/")
    BY <1>1, <2>1, ModeSteps
  <2>3. QED
    BY <2>2, NextModes
<1> HIDE DEF m
<1>3. /\ w + 2 \in i .. n + 1 /\ i \in 1 .. n + 1 /\ w + 2 \in 1 .. n + 1
      /\ (w + 2) - 1 = w + 1 /\ (w + 1) - 1 = w /\ i < n
      /\ \A j \in i .. (w + 2) - 1 : j = i \/ j \in i + 1 .. w \/ j = w + 1
  OBVIOUS
<1>4. ASSUME NEW j \in i .. (w + 2) - 1 PROVE BlankAt(t, j)
  <2>1. CASE j = i
    BY <1>1, <1>3, <2>1 DEF BlankAt, m
  <2>2. CASE j \in i + 1 .. w
    <3>1. m[j] \in {"block", "star"}
      BY <1>1, <2>2
    <3>2. QED
      BY <3>1 DEF BlankAt, m, Comments
  <2>3. CASE j = w + 1
    <3>1. m[j - 1] = "star"
      BY <1>1, <1>3, <2>3
    <3>2. QED
      BY <3>1 DEF BlankAt, m, Comments
  <2>4. QED
    BY <1>3, <2>1, <2>2, <2>3
<1>5. Read(t, s, w + 2)
  BY <1>3, <1>4, ReadBlank
<1>6. Ready(t, w + 2)
  BY <1>2, <1>3, ReadyPlain DEF m
<1>7. QED
  BY <1>3, <1>5, <1>6

LEMMA WordReads ==
  ASSUME NEW t, Len(t) \in Nat, NEW s, NEW i \in 1 .. Len(t), Ready(t, i), Read(t, s, i),
         NEW e \in i .. Len(t), t[i] \in Words, \A j \in i .. e : t[j] \in Words \cup Numbers,
         e < Len(t) => t[e + 1] \notin Words \cup Numbers
  PROVE  Ready(t, e + 1) /\ Read(t, Append(s, Token("word", i, e)), e + 1)
<1> DEFINE n == Len(t)
           m == Modes(t)
<1>1. m[i - 1] \in Outside /\ m[i] = Opens(t[i])
  BY ReadyOpens
<1>2. \A w \in Words \cup Numbers : Opens(w) = "plain" /\ w # Newline
  BY DEF Words, Numbers, Opens, DoubleQuote, Newline
<1>3. \A j \in 1 .. n : m[j] = NextMode(m[j - 1], t[j])
  BY ModeSteps
<1> HIDE DEF m
<1> DEFINE S == {j \in Int : m[j] = "plain"}
<1>4. i \in S /\ i \in i .. e
  BY <1>1, <1>2
<1>5. ASSUME NEW j \in i .. e - 1, j \in S PROVE j + 1 \in S
  <2>1. j + 1 \in 1 .. n /\ (j + 1) - 1 = j /\ j + 1 \in i .. e
    OBVIOUS
  <2>2. m[j + 1] = NextMode("plain", t[j + 1]) /\ t[j + 1] \in Words \cup Numbers
    BY <1>3, <1>5, <2>1
  <2>3. QED
    BY <1>2, <2>1, <2>2, NextModes
<1>6. i .. e \subseteq S
  <2>1. i \in Int /\ e \in Int
    OBVIOUS
  <2> HIDE DEF S
  <2>2. QED
    BY <1>4, <1>5, <2>1, UpwardInduction
<1>7. ASSUME NEW j \in i .. e PROVE Part(t, j) /\ ~BlankAt(t, j)
  <2>1. \A k \in i .. j : Live(t, k) /\ t[k] \in Words \cup Numbers
    <3> TAKE k \in i .. j
    <3>1. k \in i .. e /\ k \in 1 .. n /\ (k = i \/ k - 1 \in i .. e)
      OBVIOUS
    <3>2. m[k] = "plain" /\ t[k] \in Words \cup Numbers
      BY <1>6, <3>1
    <3>3. k - 1 \in i .. e => m[k - 1] = "plain"
      BY <1>6
    <3>4. m[k - 1] \in Outside
      BY <1>1, <3>1, <3>3 DEF Outside
    <3>5. QED
      BY <3>1, <3>2, <3>4 DEF Live, m
  <2>2. i \in 1 .. j /\ j \in i .. j
    OBVIOUS
  <2>3. Part(t, j)
    BY <2>1, <2>2 DEF Part
  <2>4. j \in ShownIn(t)
    BY <2>3, PartIsShown
  <2>5. QED
    BY <2>3, <2>4 DEF ShownIn
<1>8. ~Part(t, e + 1)
  <2>1. e < n \/ e + 1 \notin 1 .. n
    OBVIOUS
  <2>2. QED
    BY <2>1, PartIs
<1>9. m[e] = "plain"
  <2>1. e \in i .. e
    OBVIOUS
  <2>2. QED
    BY <1>6, <2>1
<1> DEFINE new == Token("word", i, e)
<1>10. new.from = i /\ new.to = e /\ new.type = "word"
  BY DEF Token
<1> HIDE DEF new
<1>11. TokenOK(t, new)
  BY <1>1, <1>7, <1>8, <1>9, <1>10 DEF TokenOK, m, Outside
<1>12. Read(t, Append(s, Token("word", i, e)), e + 1)
  BY <1>11, ReadToken DEF new, Types
<1>13. Ready(t, e + 1)
  <2>1. e + 1 \in 1 .. n + 1 /\ (e + 1) - 1 = e
    OBVIOUS
  <2>2. QED
    BY <1>9, <2>1, ReadyPlain DEF m
<1>14. QED
  BY <1>12, <1>13

(* A number that is not part of a word, and the one the tokenizer reads.   *)
LEMMA NumberStarts ==
  ASSUME NEW t, Len(t) \in Nat, NEW s, NEW i \in 1 .. Len(t), Read(t, s, i),
         t[i] \in Numbers
  PROVE  ~Part(t, i)
<1> SUFFICES ASSUME Part(t, i) PROVE FALSE
  OBVIOUS
<1>1. t[i] \notin Words
  BY DEF Words, Numbers
<1>2. Part(t, i - 1)
  BY <1>1, PartStep
<1>3. i - 1 < i /\ i \in 1 .. Len(t) + 1
  OBVIOUS
<1>4. PICK k \in 1 .. Len(s) : s[k].type = "word" /\ i - 1 \in s[k].from .. s[k].to
  BY <1>2, <1>3, PartToken
<1>5. TokenOK(t, s[k]) /\ s[k].to < i /\ s[k].from \in Int /\ s[k].to \in Int
  BY TokenTypes
<1>6. s[k].to + 1 = i
  BY <1>4, <1>5
<1>7. ~Part(t, s[k].to + 1)
  BY <1>4, <1>5, TokenKinds
<1>8. QED
  BY <1>6, <1>7

LEMMA NumberReads ==
  ASSUME NEW t, Len(t) \in Nat, NEW s, NEW i \in 1 .. Len(t), Ready(t, i), Read(t, s, i),
         ~SignTakesComment(t), NEW e \in i .. Len(t), t[i] \in Numbers,
         \A j \in i + 1 .. e : t[j] \in Numbers \/ (t[j] = "-" /\ t[j - 1] \in EndsInE)
  PROVE  Ready(t, e + 1) /\ Read(t, Append(s, Token("number", i, e)), e + 1)
<1> DEFINE n == Len(t)
           m == Modes(t)
           Reads(j) == Ready(t, j) /\ j \in 1 .. n /\ t[j] \in Numbers \cup {"-"} /\ ~Part(t, j)
           S == {j \in Int : Reads(j)}
<1>1. \A c \in Numbers : c \notin Words /\ c # "-" /\ c # Newline /\ Opens(c) = "plain"
  BY DEF Words, Numbers, Opens, DoubleQuote, Newline
<1>2. "-" \notin Words /\ "-" \notin Numbers /\ "-" \notin EndsInE /\ "-" # Newline
      /\ Opens("-") = "dash" /\ EndsInE \subseteq Numbers
  BY DEF Words, Numbers, EndsInE, Opens, Newline
<1>3. i \in S
  BY NumberStarts
<1>4. ASSUME NEW j \in i .. e, Reads(j), t[j] \in Numbers PROVE Ready(t, j + 1)
  <2>1. m[j] = "plain"
    BY <1>1, <1>4, ReadyOpens
  <2>2. j + 1 \in 1 .. n + 1 /\ (j + 1) - 1 = j
    OBVIOUS
  <2>3. QED
    BY <2>1, <2>2, ReadyPlain
<1>5. ASSUME NEW j \in i .. e, Reads(j), t[j] \notin Numbers, j < n => t[j + 1] # "-"
      PROVE  Ready(t, j + 1)
  <2>1. t[j] = "-" /\ m[j] = "dash"
    BY <1>2, <1>5, ReadyOpens
  <2>2. j + 1 \in 1 .. n + 1 /\ (j + 1) - 1 = j /\ (j + 1 <= n => j < n)
    OBVIOUS
  <2>3. QED
    BY <1>5, <2>1, <2>2 DEF Ready, Outside
<1>6. ASSUME NEW j \in i .. e - 1, j \in S PROVE j + 1 \in S
  <2>1. /\ j \in i .. e /\ j + 1 \in i + 1 .. e /\ (j + 1) - 1 = j /\ j + 1 \in 1 .. n
        /\ j + 1 \in Int /\ j < n
    OBVIOUS
  <2>2. t[j + 1] \in Numbers \/ (t[j + 1] = "-" /\ t[j] \in EndsInE)
    BY <2>1
  <2>3. Reads(j)
    BY <1>6
  <2>4. t[j] \notin Numbers => t[j + 1] # "-"
    BY <1>2, <2>2
  <2>5. Ready(t, j + 1)
    BY <1>4, <1>5, <2>1, <2>3, <2>4
  <2>6. ~Part(t, j + 1)
    <3>1. t[j + 1] \notin Words
      BY <1>1, <1>2, <2>2
    <3>2. QED
      BY <2>1, <2>3, <3>1, PartStep
  <2>7. QED
    BY <2>1, <2>2, <2>5, <2>6
<1>7. \A j \in i .. e : Reads(j)
  <2>1. i .. e \subseteq S
    <3>1. i \in Int /\ e \in Int
      OBVIOUS
    <3> HIDE DEF S
    <3>2. QED
      BY <1>3, <1>6, <3>1, UpwardInduction
  <2>2. QED
    BY <2>1
<1> HIDE DEF m
<1>8. Ready(t, e + 1)
  <2>1. e \in i .. e /\ Reads(e)
    BY <1>7
  <2>2. CASE t[e] \in Numbers
    BY <1>4, <2>1, <2>2
  <2>3. CASE t[e] \notin Numbers
    <3>1. e - 1 \in i .. e /\ t[e] = "-" /\ t[e - 1] \in EndsInE
      <4>1. e # i
        BY <2>3
      <4>2. e \in i + 1 .. e /\ e - 1 \in i .. e
        BY <4>1
      <4>3. QED
        BY <2>3, <4>2
    <3>2. Reads(e - 1)
      BY <1>7, <3>1
    <3>3. Live(t, e - 1)
      <4>1. m[e - 1] = "plain" /\ m[(e - 1) - 1] \in Outside
        BY <1>1, <1>2, <3>1, <3>2, ReadyOpens DEF m
      <4>2. QED
        BY <3>2, <4>1 DEF Live, m
    <3>4. ASSUME e < n, t[e + 1] = "-" PROVE FALSE
      <4>1. e - 1 \in 1 .. n - 2 /\ (e - 1) + 1 = e /\ (e - 1) + 2 = e + 1
        BY <3>2, <3>4
      <4>2. QED
        BY <3>1, <3>2, <3>3, <3>4, <4>1 DEF SignTakesComment
    <3>5. QED
      BY <1>5, <2>1, <2>3, <3>4
  <2>4. QED
    BY <2>2, <2>3
<1>9. ASSUME NEW j \in i .. e PROVE ~BlankAt(t, j) /\ m[j] \in Outside
  <2>1. Reads(j) /\ j \in 1 .. n
    BY <1>7
  <2>2. m[j - 1] \in Outside /\ m[j] = Opens(t[j]) /\ m[j - 1] \notin Comments
    BY <2>1, ReadyOpens DEF m
  <2>3. m[j] \in {"plain", "dash"} /\ t[j] # Newline
    BY <1>1, <1>2, <2>1, <2>2
  <2>4. {m[j - 1], m[j]} \cap Comments = {}
    BY <2>2, <2>3 DEF Comments
  <2>5. ASSUME j < n PROVE m[j + 1] # "line"
    <3>1. j + 1 \in 1 .. n /\ (j = e \/ j + 1 \in i .. e)
      BY <2>5
    <3>2. Ready(t, j + 1)
      BY <1>7, <1>8, <3>1
    <3>3. m[j + 1] = Opens(t[j + 1])
      BY <3>1, <3>2, ReadyOpens DEF m
    <3>4. QED
      BY <3>3 DEF Opens
  <2>6. QED
    BY <2>3, <2>4, <2>5 DEF BlankAt, Outside, m
<1> DEFINE new == Token("number", i, e)
<1>10. new.from = i /\ new.to = e /\ new.type = "number"
  BY DEF Token
<1> HIDE DEF new
<1>11. TokenOK(t, new)
  <2>1. m[i - 1] \in Outside /\ m[i] = Opens(t[i]) /\ e \in i .. e
    BY ReadyOpens DEF m
  <2>2. \A j \in i .. e : t[j] \in Numbers \cup {"-"} /\ ~Part(t, j)
    BY <1>7
  <2>3. QED
    BY <1>9, <1>10, <2>1, <2>2 DEF TokenOK, m
<1>12. Read(t, Append(s, Token("number", i, e)), e + 1)
  BY <1>11, ReadToken DEF new, Types
<1>13. QED
  BY <1>8, <1>12

LEMMA PunctReads ==
  ASSUME NEW t, Len(t) \in Nat, NEW s, NEW i \in 1 .. Len(t), Ready(t, i), Read(t, s, i),
         t[i] \notin Words \cup Numbers \cup {Newline, "'", DoubleQuote, "["},
         i < Len(t) => ~(t[i] = "-" /\ t[i + 1] = "-") /\ ~(t[i] = "/" /\ t[i + 1] = "*")
  PROVE  Ready(t, i + 1) /\ Read(t, Append(s, Token("punct", i, i)), i + 1)
<1> DEFINE n == Len(t)
           m == Modes(t)
<1>1. m[i - 1] \in Outside /\ m[i] = Opens(t[i]) /\ m[i - 1] \notin Comments
  BY ReadyOpens
<1>2. m[i] = IF t[i] = "/" THEN "slash" ELSE IF t[i] = "-" THEN "dash" ELSE "plain"
  BY <1>1 DEF Opens
<1>3. m[i] \in Outside /\ m[i] \notin Comments
  BY <1>2 DEF Outside, Comments
<1>4. Ready(t, i + 1)
  <2>1. i + 1 \in 1 .. n + 1 /\ (i + 1) - 1 = i /\ (i + 1 <= n => i < n)
    OBVIOUS
  <2>2. m[i] = "slash" => t[i] = "/"
    BY <1>2
  <2>3. m[i] = "dash" => t[i] = "-"
    BY <1>2
  <2>4. QED
    BY <1>3, <2>1, <2>2, <2>3 DEF Ready
<1>5. ~BlankAt(t, i)
  <2>1. {m[i - 1], m[i]} \cap Comments = {}
    BY <1>1, <1>3
  <2>2. t[i] # Newline
    OBVIOUS
  <2>3. ASSUME i < n, m[i] \in {"slash", "dash"}
        PROVE  m[i + 1] = Opens(t[i + 1])
    <3>1. i + 1 \in 1 .. Len(t) /\ (i + 1) - 1 = i
      BY <2>3
    <3>2. QED
      BY <1>4, <3>1, ReadyOpens
  <2>4. \A c : Opens(c) \notin {"block", "line"}
    BY DEF Opens
  <2>5. QED
    BY <2>1, <2>2, <2>3, <2>4 DEF BlankAt
<1> DEFINE new == Token("punct", i, i)
<1>6. new.from = i /\ new.to = i /\ new.type = "punct"
  BY DEF Token
<1> HIDE DEF new
<1>7. Live(t, i) <=> Opens(t[i]) = "plain"
  BY <1>1 DEF Live
<1>8. TokenOK(t, new)
  <2>1. \A j \in i .. i : j = i
    OBVIOUS
  <2>2. QED
    BY <1>1, <1>3, <1>5, <1>6, <1>7, <2>1 DEF TokenOK
<1>9. Read(t, Append(s, Token("punct", i, i)), i + 1)
  <2>1. i \in i .. Len(t)
    OBVIOUS
  <2>2. QED
    BY <1>8, <2>1, ReadToken DEF new, Types
<1>10. QED
  BY <1>4, <1>9

-----------------------------------------------------------------------------
(* Where a literal ends: the recursion runs from the end of the text down. *)
Ending(f, j, close) ==
  IF j > Len(text) THEN 0
  ELSE IF text[j] # close THEN f[j + 1]
  ELSE IF close # "]" /\ Character(j + 1) = close THEN f[j + 2] ELSE j

LEMMA EndingSame ==
  ASSUME Len(text) \in Nat, NEW f, NEW g, NEW j \in Int, NEW close,
         j <= Len(text) => f[j + 1] = g[j + 1] /\ f[j + 2] = g[j + 2]
  PROVE  Ending(f, j, close) = Ending(g, j, close)
<1>1. j > Len(text) \/ j <= Len(text)
  OBVIOUS
<1>2. QED
  BY <1>1 DEF Ending

LEMMA EndingExists ==
  ASSUME Len(text) \in Nat, NEW i \in 1 .. Len(text) + 2, NEW close
  PROVE  \E f : f = [j \in i .. Len(text) + 2 |-> Ending(f, j, close)]
<1> DEFINE n == Len(text) + 2
           S == {a \in Int : \E f : \A j \in a .. n : f[j] = Ending(f, j, close)}
<1>1. n \in Int /\ Len(text) < n
  OBVIOUS
<1>2. n + 1 \in S
  <2>1. \A j \in n + 1 .. n : FALSE
    OBVIOUS
  <2>2. QED
    BY <1>1, <2>1
<1>3. ASSUME NEW a \in i .. (n + 1) - 1, a + 1 \in S PROVE a \in S
  <2>1. PICK f : \A j \in a + 1 .. n : f[j] = Ending(f, j, close)
    BY <1>3
  <2> DEFINE first == Ending(f, a, close)
             g == [j \in a .. n |-> IF j = a THEN first ELSE f[j]]
  <2>2. g[a] = first /\ \A j \in a + 1 .. n : g[j] = f[j]
    OBVIOUS
  <2> HIDE DEF g, first
  <2>3. ASSUME NEW j \in a .. n PROVE Ending(f, j, close) = Ending(g, j, close)
    <3>1. j <= Len(text) => j + 1 \in a + 1 .. n /\ j + 2 \in a + 1 .. n
      OBVIOUS
    <3>2. j <= Len(text) => f[j + 1] = g[j + 1] /\ f[j + 2] = g[j + 2]
      BY <2>2, <3>1
    <3>3. QED
      BY <3>2, EndingSame
  <2>4. ASSUME NEW j \in a .. n PROVE g[j] = Ending(g, j, close)
    <3>1. CASE j = a
      BY <2>2, <2>3, <3>1 DEF first
    <3>2. CASE j # a
      <4>1. j \in a + 1 .. n
        BY <3>2
      <4>2. QED
        BY <2>1, <2>2, <2>3, <4>1
    <3>3. QED
      BY <3>1, <3>2
  <2>5. QED
    BY <2>4
<1>4. i \in S
  <2>1. i .. n + 1 \subseteq S
    <3>1. i \in Int /\ n + 1 \in Int
      OBVIOUS
    <3> HIDE DEF S, n
    <3>2. QED
      BY <1>2, <1>3, <3>1, DownwardInduction
  <2>2. i \in i .. n + 1
    OBVIOUS
  <2> HIDE DEF S
  <2>3. QED
    BY <2>1, <2>2
<1>5. PICK f : \A j \in i .. n : f[j] = Ending(f, j, close)
  BY <1>4
<1> DEFINE h == [j \in i .. n |-> f[j]]
           k == [j \in i .. n |-> Ending(h, j, close)]
<1>6. \A j \in i .. n : h[j] = f[j]
  OBVIOUS
<1> HIDE DEF h
<1>7. ASSUME NEW j \in i .. n PROVE h[j] = k[j]
  <2>1. j <= Len(text) => j + 1 \in i .. n /\ j + 2 \in i .. n
    OBVIOUS
  <2>2. j <= Len(text) => f[j + 1] = h[j + 1] /\ f[j + 2] = h[j + 2]
    BY <1>6, <2>1
  <2>3. Ending(f, j, close) = Ending(h, j, close)
    BY <2>2, EndingSame
  <2>4. QED
    BY <1>5, <1>6, <2>3
<1>8. h = k
  <2>1. h = [j \in i .. n |-> h[j]]
    BY <1>6 DEF h
  <2>2. k = [j \in i .. n |-> k[j]]
    OBVIOUS
  <2> HIDE DEF k
  <2>3. QED
    BY <1>7, <2>1, <2>2
<1>9. QED
  BY <1>8

LEMMA QuoteEndIs ==
  ASSUME Len(text) \in Nat, NEW i \in 1 .. Len(text) + 2, NEW close
  PROVE  \E end : /\ QuoteEnd(i, close) = end[i]
                  /\ \A j \in i .. Len(text) + 2 : end[j] = Ending(end, j, close)
<1> DEFINE end == CHOOSE f : f = [j \in i .. Len(text) + 2 |-> Ending(f, j, close)]
<1>1. end = [j \in i .. Len(text) + 2 |-> Ending(end, j, close)]
  BY EndingExists, Zenon
<1>2. QuoteEnd(i, close) = end[i]
  BY DEF QuoteEnd, Ending
<1> HIDE DEF end
<1>3. QED
  BY <1>1, <1>2

-----------------------------------------------------------------------------
(* A literal or quoted name, by the quote that opens it.                   *)
Inside(close) == IF close = "'" THEN "string" ELSE IF close = DoubleQuote THEN "name" ELSE "bracket"
Closes == {"'", DoubleQuote, "]"}

LEMMA InsideModes ==
  ASSUME NEW close \in Closes
  PROVE  /\ Inside(close) \in {"string", "name", "bracket"}
         /\ \A c : NextMode(Inside(close), c) = IF c = close THEN "plain" ELSE Inside(close)
         /\ close # "]" => Opens(close) = Inside(close)
         /\ close # "end"
<1>1. \A c : /\ NextMode("string", c) = IF c = "'" THEN "plain" ELSE "string"
             /\ NextMode("name", c) = IF c = DoubleQuote THEN "plain" ELSE "name"
             /\ NextMode("bracket", c) = IF c = "]" THEN "plain" ELSE "bracket"
  BY NextModes
<1>2. CASE close = "'"
  BY <1>1, <1>2 DEF Inside, Opens
<1>3. CASE close = DoubleQuote
  <2>1. Inside(close) = "name" /\ close \notin {"'", "]", "end"}
    BY <1>3 DEF Inside, DoubleQuote
  <2>2. Opens(close) = "name"
    BY <1>3 DEF Opens, DoubleQuote
  <2>3. QED
    BY <1>1, <1>3, <2>1, <2>2
<1>4. CASE close = "]"
  <2>1. Inside(close) = "bracket"
    BY <1>4 DEF Inside, DoubleQuote
  <2>2. QED
    BY <1>1, <1>4, <2>1
<1>5. QED
  BY <1>2, <1>3, <1>4 DEF Closes

(* A symbol within a literal, or one that ends it, is neither blank nor    *)
(* read as SQL.                                                            *)
LEMMA InsideSymbol ==
  ASSUME NEW t, NEW j \in 1 .. Len(t), NEW inside \in {"string", "name", "bracket"},
         \/ Modes(t)[j - 1] = inside /\ Modes(t)[j] \in {inside, "plain"}
         \/ Modes(t)[j - 1] \in Outside /\ Modes(t)[j] = inside
  PROVE  ~Live(t, j) /\ ~BlankAt(t, j)
<1>1. ~Live(t, j)
  BY DEF Live, Outside
<1>2. /\ {Modes(t)[j - 1], Modes(t)[j]} \cap Comments = {}
      /\ Modes(t)[j] \notin {"slash", "dash"}
  BY DEF Outside, Comments
<1>3. QED
  BY <1>1, <1>2 DEF BlankAt

(* What the end found for a place within a literal says of the text.       *)
EndOK(e, j, inside) ==
  /\ e = 0 => Modes(text)[Len(text)] = inside
  /\ e # 0 => /\ e \in j .. Len(text) /\ Modes(text)[e] = "plain"
              /\ \A k \in j .. e : ~Live(text, k) /\ ~BlankAt(text, k)

LEMMA QuoteRuns ==
  ASSUME Len(text) \in Nat, NEW i \in 1 .. Len(text) + 1, NEW close \in Closes,
         Modes(text)[i - 1] = Inside(close)
  PROVE  EndOK(QuoteEnd(i, close), i, Inside(close))
<1> DEFINE n == Len(text)
           inside == Inside(close)
<1>1. PICK end : /\ QuoteEnd(i, close) = end[i]
                 /\ \A j \in i .. n + 2 : end[j] = Ending(end, j, close)
  <2>1. i \in 1 .. Len(text) + 2
    OBVIOUS
  <2>2. QED
    BY <2>1, QuoteEndIs
<1>2. /\ inside \in {"string", "name", "bracket"}
      /\ \A c : NextMode(inside, c) = IF c = close THEN "plain" ELSE inside
      /\ close # "]" => Opens(close) = inside
      /\ close # "end"
  BY InsideModes
<1>3. \A j \in 1 .. n : Modes(text)[j] = NextMode(Modes(text)[j - 1], text[j])
  BY ModeSteps
<1> HIDE DEF inside
<1> DEFINE Q(j) == j <= n + 1 /\ Modes(text)[j - 1] = inside => EndOK(end[j], j, inside)
           S == {j \in Int : Q(j) /\ Q(j + 1)}
<1>4. n + 1 \in S
  <2>1. Q(n + 1)
    <3>1. n + 1 \in i .. n + 2 /\ n + 1 > n /\ (n + 1) - 1 = n
      OBVIOUS
    <3>2. end[n + 1] = 0
      BY <1>1, <3>1 DEF Ending
    <3>3. QED
      BY <3>1, <3>2 DEF EndOK
  <2>2. ~((n + 1) + 1 <= n + 1)
    OBVIOUS
  <2>3. n + 1 \in Int
    OBVIOUS
  <2>4. QED
    BY <2>1, <2>2, <2>3
<1>5. ASSUME NEW j \in i .. (n + 1) - 1, j + 1 \in S PROVE j \in S
  <2>1. Q(j + 1) /\ Q(j + 2) /\ (j + 1) - 1 = j /\ (j + 2) - 1 = j + 1 /\ (j + 1) + 1 = j + 2
    <3>1. (j + 1) - 1 = j /\ (j + 2) - 1 = j + 1 /\ (j + 1) + 1 = j + 2
      OBVIOUS
    <3>2. QED
      BY <1>5, <3>1
  <2>2. j \in 1 .. n /\ j \in i .. n + 2 /\ ~(j > n) /\ j \in Int /\ n \in Int
    OBVIOUS
  <2>3. ASSUME Modes(text)[j - 1] = inside PROVE EndOK(end[j], j, inside)
    <3>1. Modes(text)[j] = IF text[j] = close THEN "plain" ELSE inside
      BY <1>2, <1>3, <2>2, <2>3
    <3>2. end[j] = IF text[j] # close THEN end[j + 1]
                   ELSE IF close # "]" /\ Character(j + 1) = close THEN end[j + 2] ELSE j
      BY <1>1, <2>2 DEF Ending
    <3>3. ~Live(text, j) /\ ~BlankAt(text, j)
      BY <1>2, <2>2, <2>3, <3>1, InsideSymbol
    <3>4. CASE text[j] # close
      <4>1. Modes(text)[j] = inside /\ end[j] = end[j + 1] /\ j + 1 <= n + 1
        BY <2>2, <3>1, <3>2, <3>4
      <4>2. EndOK(end[j + 1], j + 1, inside)
        BY <2>1, <4>1
      <4>3. end[j] = 0 => Modes(text)[n] = inside
        BY <4>1, <4>2 DEF EndOK
      <4>4. ASSUME end[j] # 0
            PROVE  /\ end[j] \in j .. n /\ Modes(text)[end[j]] = "plain"
                   /\ \A k \in j .. end[j] : ~Live(text, k) /\ ~BlankAt(text, k)
        <5>1. /\ end[j] \in j + 1 .. n /\ Modes(text)[end[j]] = "plain"
              /\ \A k \in j + 1 .. end[j] : ~Live(text, k) /\ ~BlankAt(text, k)
          BY <4>1, <4>2, <4>4 DEF EndOK
        <5>2. \A k \in j .. end[j] : k = j \/ k \in j + 1 .. end[j]
          BY <2>2, <5>1
        <5>3. end[j] \in j .. n
          BY <2>2, <5>1
        <5>4. QED
          BY <3>3, <5>1, <5>2, <5>3
      <4>5. QED
        BY <4>3, <4>4 DEF EndOK
    <3>5. CASE text[j] = close /\ close # "]" /\ Character(j + 1) = close
      <4>1. Modes(text)[j] = "plain" /\ end[j] = end[j + 2]
        BY <3>1, <3>2, <3>5
      <4>2. j + 1 \in 1 .. n /\ text[j + 1] = close
        BY <1>2, <3>5 DEF Character
      <4>3. Modes(text)[j + 1] = inside
        <5>1. Modes(text)[j + 1] = NextMode("plain", close)
          BY <1>3, <2>1, <4>1, <4>2
        <5>2. QED
          BY <1>2, <3>5, <5>1, NextModes
      <4>4. j + 2 <= n + 1
        BY <2>2, <4>2
      <4>5. EndOK(end[j + 2], j + 2, inside)
        BY <2>1, <4>3, <4>4
      <4>6. ~Live(text, j + 1) /\ ~BlankAt(text, j + 1)
        <5>1. Modes(text)[(j + 1) - 1] \in Outside
          BY <2>1, <4>1 DEF Outside
        <5>2. QED
          BY <1>2, <4>2, <4>3, <5>1, InsideSymbol
      <4>7. end[j] = 0 => Modes(text)[n] = inside
        BY <4>1, <4>5 DEF EndOK
      <4>8. ASSUME end[j] # 0
            PROVE  /\ end[j] \in j .. n /\ Modes(text)[end[j]] = "plain"
                   /\ \A k \in j .. end[j] : ~Live(text, k) /\ ~BlankAt(text, k)
        <5>1. /\ end[j] \in j + 2 .. n /\ Modes(text)[end[j]] = "plain"
              /\ \A k \in j + 2 .. end[j] : ~Live(text, k) /\ ~BlankAt(text, k)
          BY <4>1, <4>5, <4>8 DEF EndOK
        <5>2. \A k \in j .. end[j] : k = j \/ k = j + 1 \/ k \in j + 2 .. end[j]
          BY <2>2, <5>1
        <5>3. end[j] \in j .. n
          BY <2>2, <5>1
        <5>4. QED
          BY <3>3, <4>6, <5>1, <5>2, <5>3
      <4>9. QED
        BY <4>7, <4>8 DEF EndOK
    <3>6. CASE text[j] = close /\ ~(close # "]" /\ Character(j + 1) = close)
      <4>1. Modes(text)[j] = "plain" /\ end[j] = j
        BY <3>1, <3>2, <3>6
      <4>2. j \in j .. n /\ j # 0 /\ \A k \in j .. j : k = j
        BY <2>2
      <4>3. QED
        BY <3>3, <4>1, <4>2 DEF EndOK
    <3>7. QED
      BY <3>4, <3>5, <3>6
  <2>4. QED
    BY <2>1, <2>2, <2>3
<1>6. i \in S
  <2>1. i .. n + 1 \subseteq S
    <3>1. i \in Int /\ n + 1 \in Int
      OBVIOUS
    <3> HIDE DEF S, n
    <3>2. QED
      BY <1>4, <1>5, <3>1, DownwardInduction
  <2>2. i \in i .. n + 1
    OBVIOUS
  <2> HIDE DEF S
  <2>3. QED
    BY <2>1, <2>2
<1>7. QED
  BY <1>1, <1>6 DEF inside

-----------------------------------------------------------------------------
(* Where a quote ends what it opens is where the reference leaves it.      *)
LEMMA QuoteReads ==
  ASSUME Len(text) \in Nat, NEW s, NEW i \in 1 .. Len(text), Ready(text, i), Read(text, s, i),
         text[i] \in {"'", DoubleQuote, "["}, NEW type \in {"string", "quoted"},
         NEW close, close = IF text[i] = "[" THEN "]" ELSE text[i],
         NEW e, e = QuoteEnd(i + 1, close)
  PROVE  /\ e = 0 => Modes(text)[Len(text)] \notin Outside \cup {"line"}
         /\ e # 0 => /\ e \in i .. Len(text) /\ Ready(text, e + 1)
                     /\ Read(text, Append(s, Token(type, i, e)), e + 1)
<1>1. /\ Modes(text)[i - 1] \in Outside /\ Modes(text)[i] = Opens(text[i])
  BY ReadyOpens
<1>2. close \in Closes /\ Opens(text[i]) = Inside(close)
  BY DEF Closes, Opens, Inside, DoubleQuote
<1>3. Inside(close) \in {"string", "name", "bracket"}
  BY <1>2, InsideModes
<1>4. i + 1 \in 1 .. Len(text) + 1 /\ (i + 1) - 1 = i
  OBVIOUS
<1>5. EndOK(e, i + 1, Inside(close))
  BY <1>1, <1>2, <1>4, QuoteRuns
<1>6. ASSUME e = 0 PROVE Modes(text)[Len(text)] \notin Outside \cup {"line"}
  BY <1>3, <1>5, <1>6 DEF EndOK, Outside
<1>7. ASSUME e # 0
      PROVE  /\ e \in i .. Len(text) /\ Ready(text, e + 1)
             /\ Read(text, Append(s, Token(type, i, e)), e + 1)
  <2>1. /\ e \in i + 1 .. Len(text) /\ Modes(text)[e] = "plain"
        /\ \A k \in i + 1 .. e : ~Live(text, k) /\ ~BlankAt(text, k)
    BY <1>5, <1>7 DEF EndOK
  <2>2. e \in i .. Len(text) /\ e + 1 \in 1 .. Len(text) + 1 /\ (e + 1) - 1 = e
    BY <2>1
  <2>3. Ready(text, e + 1)
    BY <2>1, <2>2, ReadyPlain
  <2>4. ~Live(text, i) /\ ~BlankAt(text, i)
    BY <1>1, <1>2, <1>3, InsideSymbol
  <2>5. \A k \in i .. e : ~Live(text, k) /\ ~BlankAt(text, k)
    <3>1. \A k \in i .. e : k = i \/ k \in i + 1 .. e
      BY <2>1
    <3>2. QED
      BY <2>1, <2>4, <3>1
  <2> DEFINE new == Token(type, i, e)
  <2>6. new.from = i /\ new.to = e /\ new.type \notin {"word", "punct", "number"}
    BY DEF Token
  <2> HIDE DEF new
  <2>7. TokenOK(text, new)
    BY <1>1, <2>1, <2>2, <2>5, <2>6 DEF TokenOK, Outside
  <2>8. Read(text, Append(s, new), e + 1)
    BY <2>2, <2>7, ReadToken DEF new, Types
  <2>9. QED
    BY <2>2, <2>3, <2>8 DEF new
<1>8. QED
  BY <1>6, <1>7

-----------------------------------------------------------------------------
(* While it reads, the tokenizer is where the reference has left every pair *)
(* of symbols, its tokens are those of the text so far, and what is not in  *)
(* a token is blank.                                                        *)
SqlInv ==
  /\ ~SignTakesComment(text) /\ ~NumberedParameter(text)
  /\ text \in Texts /\ at \in 1 .. Len(text) + 1
  /\ verdict = "reading" => Reached(text, at) /\ Read(text, tokens, at)
  /\ AcceptsOneSelect

LEMMA SqlTexts ==
  ASSUME text \in Texts
  PROVE  text \in Seq(STRING) /\ Len(text) \in Nat
<1>1. text \in Seq(STRING)
  BY TextsAssumption
<1>2. QED
  BY <1>1

LEMMA SqlStarts ==
  ASSUME SqlInit, ~SignTakesComment(text), ~NumberedParameter(text)
  PROVE  SqlInv
<1>1. text \in Texts /\ at = 1 /\ tokens = <<>> /\ verdict = "reading"
  BY DEF SqlInit
<1>2. Len(text) \in Nat /\ 1 \in 1 .. Len(text) + 1
  BY <1>1, SqlTexts
<1>3. Reached(text, 1)
  <2>1. Modes(text)[0] = "plain" /\ 1 - 1 = 0
    BY <1>2, ModeSteps
  <2>2. QED
    BY <1>2, <2>1, ReadyPlain DEF Reached
<1>4. Read(text, <<>>, 1)
  <2>1. <<>> \in Seq(Tokens(text)) /\ Len(<<>>) = 0
    OBVIOUS
  <2>2. (\A k \in 1 .. 0 : FALSE) /\ (\A j \in 1 .. 1 - 1 : FALSE)
    OBVIOUS
  <2>3. QED
    BY <2>1, <2>2 DEF Read
<1>5. AcceptsOneSelect
  BY <1>1 DEF AcceptsOneSelect
<1>6. QED
  BY <1>1, <1>2, <1>3, <1>4, <1>5 DEF SqlInv

(* A step that reads on.                                                   *)
LEMMA SqlReadsOn ==
  ASSUME SqlInv, verdict = "reading", NEW e, NEW s, e \in 1 .. Len(text) + 1,
         Reached(text, e), Read(text, s, e),
         text' = text, at' = e, tokens' = s, verdict' = verdict
  PROVE  SqlInv'
<1>1. AcceptsOneSelect'
  BY DEF AcceptsOneSelect
<1>2. Reached(text', at') /\ Read(text', tokens', at')
  OBVIOUS
<1>3. text' \in Texts /\ at' \in 1 .. Len(text') + 1
      /\ ~SignTakesComment(text') /\ ~NumberedParameter(text')
  BY DEF SqlInv
<1>4. QED
  BY <1>1, <1>2, <1>3 DEF SqlInv, SignTakesComment, NumberedParameter, Reached, Ready, Read, TokenOK, Tokens, BlankAt, Live, Part

(* A step that rejects a text nothing more of which can be read.           *)
LEMMA SqlUnterminated ==
  ASSUME SqlInv, NEW code, code \notin {"reading", "ok"},
         Modes(text)[Len(text)] \notin Outside \cup {"line"}, Reject(code)
  PROVE  SqlInv'
<1>1. text' = text /\ at' = at /\ tokens' = tokens /\ verdict' = code
  BY DEF Reject
<1>2. ~ReadsOnly(text)
  BY Zenon DEF ReadsOnly
<1>3. ~ReadsOnly(text')
  BY <1>1, <1>2
<1>4. AcceptsOneSelect'
  BY <1>1, <1>3 DEF AcceptsOneSelect
<1>5. text' \in Texts /\ at' \in 1 .. Len(text') + 1 /\ verdict' # "reading"
      /\ ~SignTakesComment(text') /\ ~NumberedParameter(text')
  BY <1>1 DEF SqlInv
<1>6. QED
  BY <1>4, <1>5 DEF SqlInv, SignTakesComment, NumberedParameter, Live, Part

-----------------------------------------------------------------------------
LEMMA SqlStands ==
  ASSUME SqlInv, verdict = "reading", Character(at) # "end"
  PROVE  /\ text \in Seq(STRING) /\ Len(text) \in Nat /\ at \in 1 .. Len(text)
         /\ Character(at) = text[at] /\ Ready(text, at) /\ Read(text, tokens, at)
         /\ \A j \in Int : Character(j) = IF 1 <= j /\ j <= Len(text) THEN text[j] ELSE "end"
<1>1. text \in Seq(STRING) /\ Len(text) \in Nat
  BY SqlTexts DEF SqlInv
<1>2. at \in 1 .. Len(text) + 1 /\ Reached(text, at) /\ Read(text, tokens, at)
  BY DEF SqlInv
<1>3. at \in 1 .. Len(text) /\ Character(at) = text[at]
  BY DEF Character
<1>4. Ready(text, at)
  BY <1>1, <1>2, <1>3 DEF Reached
<1>5. \A j \in Int : Character(j) = IF 1 <= j /\ j <= Len(text) THEN text[j] ELSE "end"
  BY <1>1 DEF Character
<1>6. QED
  BY <1>1, <1>2, <1>3, <1>4, <1>5

LEMMA SqlSpace ==
  ASSUME SqlInv, verdict = "reading", Space
  PROVE  SqlInv'
<1>1. /\ Character(at) = Newline /\ at' = at + 1 /\ text' = text /\ tokens' = tokens
      /\ verdict' = verdict
  BY DEF Space, Advance
<1>2. /\ Len(text) \in Nat /\ at \in 1 .. Len(text) /\ text[at] = Newline
      /\ Ready(text, at) /\ Read(text, tokens, at)
  BY <1>1, SqlStands DEF Newline
<1>3. Ready(text, at + 1) /\ Read(text, tokens, at + 1)
  BY <1>2, SpaceReads
<1>4. at + 1 \in 1 .. Len(text) + 1
  BY <1>2
<1>5. QED
  BY <1>1, <1>3, <1>4, SqlReadsOn DEF Reached

LEMMA SqlLineComment ==
  ASSUME SqlInv, verdict = "reading", LineComment
  PROVE  SqlInv'
<1> DEFINE n == Len(text)
           found == {j \in at + 2 .. n : text[j] = Newline}
           newline == IF found = {} THEN 0 ELSE CHOOSE j \in found : \A k \in found : j <= k
           e == IF newline = 0 THEN n + 1 ELSE newline + 1
           w == IF newline = 0 THEN n + 1 ELSE newline
<1>1. /\ Character(at) = "-" /\ Character(at + 1) = "-" /\ at' = e
      /\ text' = text /\ tokens' = tokens /\ verdict' = verdict
  BY DEF LineComment, Advance, FirstFrom
<1>2. /\ n \in Nat /\ at \in 1 .. n /\ text[at] = "-"
      /\ Ready(text, at) /\ Read(text, tokens, at)
      /\ \A j \in Int : Character(j) = IF 1 <= j /\ j <= n THEN text[j] ELSE "end"
  BY <1>1, SqlStands
<1>3. at \in 1 .. n - 1 /\ text[at + 1] = "-"
  BY <1>1, <1>2
<1>4. /\ w \in at + 2 .. n + 1 /\ \A j \in at + 2 .. w - 1 : text[j] # Newline
      /\ w <= n => text[w] = Newline
      /\ e = IF w <= n THEN w + 1 ELSE w
  <2>1. CASE found = {}
    <3>1. newline = 0 /\ w = n + 1 /\ e = n + 1
      BY <2>1
    <3> HIDE DEF newline, w, e
    <3>2. ~(w <= n) /\ w - 1 = n /\ w \in at + 2 .. n + 1
      BY <1>2, <1>3, <3>1
    <3>3. QED
      BY <2>1, <3>1, <3>2
  <2>2. CASE found # {}
    <3>1. newline = CHOOSE j \in found : \A k \in found : j <= k
      BY <2>2
    <3> HIDE DEF newline
    <3>2. found \subseteq Nat
      BY <1>2
    <3>3. newline \in found /\ \A k \in found : newline <= k
      BY <2>2, <3>1, <3>2, LeastOf
    <3>4. newline # 0 /\ w = newline /\ e = newline + 1
      BY <1>2, <3>3
    <3>5. \A j \in at + 2 .. newline - 1 : j \notin found
      BY <1>2, <3>3
    <3>6. QED
      BY <1>2, <3>3, <3>4, <3>5
  <2>3. QED
    BY <2>1, <2>2
<1> HIDE DEF w, e, newline, found
<1>5. e \in 1 .. n + 1 /\ Reached(text, e) /\ Read(text, tokens, e)
  BY <1>2, <1>3, <1>4, LineReads
<1>6. QED
  BY <1>1, <1>5, SqlReadsOn

LEMMA SqlBlockComment ==
  ASSUME SqlInv, verdict = "reading", BlockComment
  PROVE  SqlInv'
<1> DEFINE n == Len(text)
           found == {j \in at + 2 .. n : text[j] = "*" /\ Character(j + 1) = "/"}
           w == CHOOSE j \in found : \A k \in found : j <= k
<1>1. /\ Character(at) = "/" /\ Character(at + 1) = "*"
      /\ BlockEnd = IF found = {} THEN 0 ELSE w
      /\ IF BlockEnd = 0 THEN Reject("sql_unterminated_comment") ELSE Advance(BlockEnd + 2)
  BY DEF BlockComment, BlockEnd, FirstFrom
<1>2. /\ n \in Nat /\ at \in 1 .. n /\ text[at] = "/"
      /\ Ready(text, at) /\ Read(text, tokens, at)
      /\ \A j \in Int : Character(j) = IF 1 <= j /\ j <= n THEN text[j] ELSE "end"
  BY <1>1, SqlStands
<1>3. at \in 1 .. n - 1 /\ text[at + 1] = "*"
  <2>1. Character(at + 1) = "*"
    BY <1>1
  <2>2. at + 1 \in Int /\ Character(at + 1) = IF 1 <= at + 1 /\ at + 1 <= n THEN text[at + 1] ELSE "end"
    BY <1>2
  <2>3. QED
    BY <1>2, <2>1, <2>2
<1>4. CASE found = {}
  <2>1. Reject("sql_unterminated_comment")
    BY <1>1, <1>4
  <2>2. \A j \in at + 2 .. n - 1 : ~(text[j] = "*" /\ text[j + 1] = "/")
    <3>1. \A j \in at + 2 .. n - 1 : Character(j + 1) = text[j + 1] /\ j \in at + 2 .. n
      BY <1>2
    <3>2. QED
      BY <1>4, <3>1
  <2>3. n \in at + 1 .. n /\ n \in at + 1 .. Len(text)
    BY <1>2, <1>3
  <2>4. Modes(text)[n] \in {"block", "star"}
    BY <1>2, <1>3, <2>2, <2>3, BlockRuns
  <2>5. Modes(text)[n] \notin Outside \cup {"line"}
    BY <2>4 DEF Outside
  <2>6. QED
    BY <2>1, <2>5, SqlUnterminated
<1>5. CASE found # {}
  <2>1. found \subseteq Nat
    BY <1>2
  <2>2. w \in found /\ \A k \in found : w <= k
    BY <1>5, <2>1, LeastOf
  <2> HIDE DEF w
  <2>3. w \in at + 2 .. n /\ text[w] = "*" /\ Character(w + 1) = "/" /\ w # 0
    BY <1>2, <2>2
  <2>4. w \in at + 2 .. n - 1 /\ text[w + 1] = "/"
    BY <1>2, <2>3
  <2>5. \A j \in at + 2 .. w - 1 : ~(text[j] = "*" /\ text[j + 1] = "/")
    <3>1. \A j \in at + 2 .. w - 1 :
            Character(j + 1) = text[j + 1] /\ j \in at + 2 .. n /\ ~(w <= j)
      BY <1>2, <2>4
    <3>2. QED
      BY <2>2, <3>1
  <2>6. w + 2 \in 1 .. n + 1 /\ Ready(text, w + 2) /\ Read(text, tokens, w + 2)
    BY <1>2, <1>3, <2>3, <2>4, <2>5, BlockReads
  <2>7. Advance(w + 2)
    BY <1>1, <1>5, <2>3
  <2>8. at' = w + 2 /\ text' = text /\ tokens' = tokens /\ verdict' = verdict
    BY <2>7 DEF Advance
  <2>9. QED
    BY <2>6, <2>8, SqlReadsOn DEF Reached
<1>6. QED
  BY <1>4, <1>5

LEMMA SqlQuoted ==
  ASSUME SqlInv, verdict = "reading", Quoted
  PROVE  SqlInv'
<1>1. PICK close, e, type :
        /\ close = IF text[at] = "[" THEN "]" ELSE text[at]
        /\ e = QuoteEnd(at + 1, close)
        /\ type = IF text[at] = "'" THEN "string" ELSE "quoted"
  OBVIOUS
<1>2. /\ Character(at) \in {"'", DoubleQuote, "["}
      /\ IF e = 0 THEN Reject("sql_unterminated_literal") ELSE Take(type, e)
  BY <1>1 DEF Quoted
<1>3. Character(at) # "end"
  BY <1>2 DEF DoubleQuote
<1>4. /\ Len(text) \in Nat /\ at \in 1 .. Len(text) /\ Character(at) = text[at]
      /\ Ready(text, at) /\ Read(text, tokens, at)
  BY <1>3, SqlStands
<1>5. /\ e = 0 => Modes(text)[Len(text)] \notin Outside \cup {"line"}
      /\ e # 0 => /\ e \in at .. Len(text) /\ Ready(text, e + 1)
                  /\ Read(text, Append(tokens, Token(type, at, e)), e + 1)
  <2>1. type \in {"string", "quoted"} /\ text[at] \in {"'", DoubleQuote, "["}
    BY <1>1, <1>2, <1>4
  <2>2. QED
    BY <1>1, <1>4, <2>1, QuoteReads
<1>6. CASE e = 0
  BY <1>2, <1>5, <1>6, SqlUnterminated
<1>7. CASE e # 0
  <2>1. /\ tokens' = Append(tokens, Token(type, at, e)) /\ at' = e + 1 /\ text' = text
        /\ verdict' = verdict
    BY <1>2, <1>7 DEF Take
  <2>2. e + 1 \in 1 .. Len(text) + 1
    BY <1>4, <1>5, <1>7
  <2>3. QED
    BY <1>5, <1>7, <2>1, <2>2, SqlReadsOn DEF Reached
<1>8. QED
  BY <1>6, <1>7

(* Where the run from i on within G ends: before the first place outside.  *)
RunTo(n, i, G, e) ==
  \/ e = n /\ \A j \in i .. n : j \in G
  \/ \E w \in i .. n : /\ w \notin G /\ e = w - 1
                       /\ \A k \in i .. n : k \in G \/ w <= k

LEMMA RunEnds ==
  ASSUME NEW n \in Nat, NEW i \in 1 .. n, NEW G, i \in G, NEW e, RunTo(n, i, G, e)
  PROVE  /\ e \in i .. n /\ \A j \in i .. e : j \in G
         /\ e < n => e + 1 \notin G
<1>1. CASE e = n /\ \A j \in i .. n : j \in G
  BY <1>1
<1>2. CASE \E w \in i .. n : /\ w \notin G /\ e = w - 1
                             /\ \A k \in i .. n : k \in G \/ w <= k
  <2>1. PICK w \in i .. n : /\ w \notin G /\ e = w - 1
                           /\ \A k \in i .. n : k \in G \/ w <= k
    BY <1>2
  <2>2. w # i /\ \A j \in i .. w - 1 : j \in G
    BY <2>1
  <2>3. QED
    BY <2>1, <2>2
<1>3. QED
  BY <1>1, <1>2 DEF RunTo

LEMMA SqlNumber ==
  ASSUME SqlInv, verdict = "reading", Number
  PROVE  SqlInv'
<1> DEFINE n == Len(text)
           Goes(j) == text[j] \in Numbers \/ (text[j] = "-" /\ text[j - 1] \in EndsInE)
           G == {j \in 1 .. n : Goes(j)}
           e == NumberEnd
<1>1. /\ Character(at) \in Numbers /\ tokens' = Append(tokens, Token("number", at, e))
      /\ at' = e + 1 /\ text' = text /\ verdict' = verdict
  BY DEF Number, Take
<1>2. Character(at) # "end"
  BY <1>1 DEF Numbers
<1>3. /\ n \in Nat /\ at \in 1 .. n /\ text[at] \in Numbers
      /\ Ready(text, at) /\ Read(text, tokens, at)
  BY <1>1, <1>2, SqlStands
<1>4. e \in at .. n /\ \A j \in at .. e : j \in G
  <2> DEFINE found == {j \in at .. n : ~Goes(j)}
             w == CHOOSE j \in found : \A k \in found : j <= k
  <2>1. found = {j \in at .. n : j \notin G} /\ found \subseteq Nat
    BY <1>3
  <2>2. e = IF (IF found = {} THEN 0 ELSE w) = 0 THEN n ELSE (IF found = {} THEN 0 ELSE w) - 1
    BY DEF NumberEnd, RunEnd, FirstFrom
  <2>3. at \in G
    BY <1>3
  <2>4. found # {} => w \in found /\ \A k \in found : w <= k
    BY <2>1, LeastOf
  <2> HIDE DEF e, G, w, found
  <2>5. found # {} => w # 0
    BY <1>3, <2>1, <2>4
  <2>6. e = IF found = {} THEN n ELSE w - 1
    BY <2>2, <2>5
  <2>7. RunTo(n, at, G, e)
    BY <2>1, <2>4, <2>6 DEF RunTo
  <2>8. QED
    BY <1>3, <2>3, <2>7, RunEnds
<1>5. \A j \in at + 1 .. e : Goes(j)
  <2>1. \A j \in at + 1 .. e : j \in at .. e
    BY <1>3
  <2>2. QED
    BY <1>4, <2>1
<1> HIDE DEF e
<1>6. Ready(text, e + 1) /\ Read(text, Append(tokens, Token("number", at, e)), e + 1)
  BY <1>3, <1>4, <1>5, NumberReads DEF SqlInv
<1>7. e + 1 \in 1 .. n + 1
  BY <1>3, <1>4
<1>8. QED
  BY <1>1, <1>6, <1>7, SqlReadsOn DEF Reached

LEMMA SqlWord ==
  ASSUME SqlInv, verdict = "reading", Word
  PROVE  SqlInv'
<1> DEFINE n == Len(text)
           G == {j \in 1 .. n : text[j] \in Words \cup Numbers}
           e == WordEnd
<1>1. /\ Character(at) \in Words /\ tokens' = Append(tokens, Token("word", at, e))
      /\ at' = e + 1 /\ text' = text /\ verdict' = verdict
  BY DEF Word, Take
<1>2. Character(at) # "end"
  BY <1>1 DEF Words
<1>3. /\ n \in Nat /\ at \in 1 .. n /\ text[at] \in Words
      /\ Ready(text, at) /\ Read(text, tokens, at)
  BY <1>1, <1>2, SqlStands
<1>4. e \in at .. n /\ (\A j \in at .. e : j \in G) /\ (e < n => e + 1 \notin G)
  <2> DEFINE found == {j \in at .. n : ~(text[j] \in Words \cup Numbers)}
             w == CHOOSE j \in found : \A k \in found : j <= k
  <2>1. found = {j \in at .. n : j \notin G} /\ found \subseteq Nat
    BY <1>3
  <2>2. e = IF (IF found = {} THEN 0 ELSE w) = 0 THEN n ELSE (IF found = {} THEN 0 ELSE w) - 1
    BY DEF WordEnd, RunEnd, FirstFrom
  <2>3. at \in G
    BY <1>3
  <2>4. found # {} => w \in found /\ \A k \in found : w <= k
    BY <2>1, LeastOf
  <2> HIDE DEF e, G, w, found
  <2>5. found # {} => w # 0
    BY <1>3, <2>1, <2>4
  <2>6. e = IF found = {} THEN n ELSE w - 1
    BY <2>2, <2>5
  <2>7. RunTo(n, at, G, e)
    BY <2>1, <2>4, <2>6 DEF RunTo
  <2>8. QED
    BY <1>3, <2>3, <2>7, RunEnds
<1>5. /\ \A j \in at .. e : text[j] \in Words \cup Numbers
      /\ e < n => text[e + 1] \notin Words \cup Numbers
  <2>1. e < n => e + 1 \in 1 .. n
    BY <1>3, <1>4
  <2>2. QED
    BY <1>4, <2>1
<1> HIDE DEF e
<1>6. Ready(text, e + 1) /\ Read(text, Append(tokens, Token("word", at, e)), e + 1)
  BY <1>3, <1>4, <1>5, WordReads
<1>7. e + 1 \in 1 .. n + 1
  BY <1>3, <1>4
<1>8. QED
  BY <1>1, <1>6, <1>7, SqlReadsOn DEF Reached

LEMMA SqlPunctuation ==
  ASSUME SqlInv, verdict = "reading", Punctuation
  PROVE  SqlInv'
<1>1. /\ Character(at) \notin Words \cup Numbers \cup {Newline, "'", DoubleQuote, "[", "end"}
      /\ ~(Character(at) = "-" /\ Character(at + 1) = "-")
      /\ ~(Character(at) = "/" /\ Character(at + 1) = "*")
      /\ tokens' = Append(tokens, Token("punct", at, at)) /\ at' = at + 1
      /\ text' = text /\ verdict' = verdict
  BY DEF Punctuation, Take
<1>2. /\ Len(text) \in Nat /\ at \in 1 .. Len(text) /\ Character(at) = text[at]
      /\ Ready(text, at) /\ Read(text, tokens, at)
      /\ \A j \in Int : Character(j) = IF 1 <= j /\ j <= Len(text) THEN text[j] ELSE "end"
  BY <1>1, SqlStands
<1>3. at < Len(text) => Character(at + 1) = text[at + 1]
  BY <1>2
<1>4. Ready(text, at + 1) /\ Read(text, Append(tokens, Token("punct", at, at)), at + 1)
  BY <1>1, <1>2, <1>3, PunctReads
<1>5. at + 1 \in 1 .. Len(text) + 1
  BY <1>2
<1>6. QED
  BY <1>1, <1>4, <1>5, SqlReadsOn DEF Reached

LEMMA SqlJudge ==
  ASSUME SqlInv, verdict = "reading", Judge
  PROVE  SqlInv'
<1>1. /\ at > Len(text) /\ text' = text /\ at' = at /\ tokens' = tokens
      /\ verdict' = Judgement
  BY DEF Judge, Reject
<1>2. text \in Seq(STRING) /\ Len(text) \in Nat
  BY SqlTexts DEF SqlInv
<1>3. /\ at = Len(text) + 1 /\ Reached(text, at) /\ Read(text, tokens, at)
  BY <1>1, <1>2 DEF SqlInv
<1>4. Modes(text)[Len(text)] \in Outside \cup {"line"}
  <2>1. (Len(text) + 1) - 1 = Len(text)
    BY <1>2
  <2>2. QED
    BY <1>3, <2>1 DEF Reached, Ready
<1>5. (Judgement = "ok") <=> ReadsOnly(text)
  BY <1>2, <1>3, <1>4, JudgedReads, ReadsJudged DEF SqlInv
<1>6. Judgement = "ok" =>
        /\ ReadsOnly(Executed) /\ Modes(Executed)[Len(Executed)] \in Outside
        /\ \A i \in 1 .. Len(Executed) : Executed[i] = Semicolon =>
             ~(Modes(Executed)[i - 1] \in Outside)
  BY <1>2, <1>3, <1>4, ExecutedReads DEF SqlInv
<1>7. Executed' = Executed
  BY <1>1 DEF Executed, Body, Semicolons, IsPunct
<1>8. AcceptsOneSelect'
  BY <1>1, <1>5, <1>6, <1>7 DEF AcceptsOneSelect
<1>9. Judgement # "reading"
  BY DEF Judgement
<1>10. text' \in Texts /\ at' \in 1 .. Len(text') + 1
       /\ ~SignTakesComment(text') /\ ~NumberedParameter(text')
  BY <1>1 DEF SqlInv
<1>11. QED
  BY <1>1, <1>8, <1>9, <1>10 DEF SqlInv, SignTakesComment, NumberedParameter, Live, Part

LEMMA SqlSteps ==
  ASSUME SqlInv, [SqlNext]_sqlVars
  PROVE  SqlInv'
<1>1. CASE UNCHANGED sqlVars
  <2>1. text' = text /\ at' = at /\ tokens' = tokens /\ verdict' = verdict
    BY <1>1 DEF sqlVars
  <2>2. Executed' = Executed
    BY <2>1 DEF Executed, Body, Semicolons, IsPunct
  <2>3. AcceptsOneSelect'
    BY <2>1, <2>2 DEF SqlInv, AcceptsOneSelect
  <2>4. QED
    BY <2>1, <2>3 DEF SqlInv
<1>2. CASE SqlNext
  BY <1>2, SqlSpace, SqlLineComment, SqlBlockComment, SqlQuoted, SqlNumber, SqlWord,
     SqlPunctuation, SqlJudge DEF SqlNext
<1>3. QED
  BY <1>1, <1>2

LEMMA SqlTextStays ==
  ASSUME [SqlNext]_sqlVars
  PROVE  text' = text
<1>1. CASE UNCHANGED sqlVars
  BY <1>1 DEF sqlVars
<1>2. CASE SqlNext
  <2>1. \A i : Advance(i) => text' = text
    BY DEF Advance
  <2>2. \A type, to : Take(type, to) => text' = text
    BY DEF Take
  <2>3. \A code : Reject(code) => text' = text
    BY DEF Reject
  <2>4. Space \/ LineComment \/ BlockComment => text' = text
    BY <2>1, <2>3, Zenon DEF Space, LineComment, BlockComment
  <2>5. Quoted \/ Number \/ Word \/ Punctuation \/ Judge => text' = text
    BY <2>2, <2>3, Zenon DEF Quoted, Number, Word, Punctuation, Judge
  <2>6. QED
    BY <1>2, <2>4, <2>5, Zenon DEF SqlNext
<1>3. QED
  BY <1>1, <1>2

(* Whatever text is entered, the tokenizer with its lookahead accepts it   *)
(* exactly when reading it symbol by symbol finds one statement that only  *)
(* reads, and the part it cuts out and wraps is one, with no semicolon     *)
(* left and nothing still open that would swallow the wrapper; unless a    *)
(* comment follows a number that ends in "e", or a parameter is numbered.  *)
THEOREM OneSelectIsRun == SqlSpec => []AcceptsOneSelect
<1> DEFINE Excepted == SignTakesComment(text) \/ NumberedParameter(text)
<1>1. SqlInit => SqlInv \/ Excepted
  BY SqlStarts
<1>2. (SqlInv \/ Excepted) /\ [SqlNext]_sqlVars => (SqlInv \/ Excepted)'
  <2>1. SqlInv /\ [SqlNext]_sqlVars => SqlInv'
    BY SqlSteps
  <2>2. Excepted /\ [SqlNext]_sqlVars => Excepted'
    BY SqlTextStays DEF SignTakesComment, NumberedParameter, Live, Part
  <2>3. QED
    BY <2>1, <2>2
<1>3. SqlInv \/ Excepted => AcceptsOneSelect
  BY DEF SqlInv, AcceptsOneSelect
<1> HIDE DEF Excepted
<1>4. QED
  BY <1>1, <1>2, <1>3, PTL DEF SqlSpec
=============================================================================
