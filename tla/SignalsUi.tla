------------------------------- MODULE SignalsUi -------------------------------
(***************************************************************************)
(* The Bitcoin Signals page in a browser: four sections, each shown from   *)
(* its last answer, and forms whose change is followed by new loads of the *)
(* sections it shows in.  The server handles a request at some moment      *)
(* between its sending and its answer; a section's version counts the      *)
(* changes the server made to what it shows.                               *)
(***************************************************************************)
EXTENDS Naturals, FiniteSets

CONSTANTS
  MaxVersion,  \* a bound on the changes made
  MaxWaiting,  \* a bound on the requests in flight
  Unserved

ASSUME VersionsAreNumbers == MaxVersion \in Nat /\ Unserved \notin 0..MaxVersion

VARIABLES
  signedIn, tabShown,
  started,  \* the first radar was answered, or failed
  access,   \* the caller, once the radar said: "unknown", "read", "write", "admin"
  store,    \* versions on the server
  seen,     \* version each section shows; Unserved before its first answer
  waiting,  \* requests in flight
  excused   \* history: loads of a section overlapped, or a load failed

signalsUiVars == <<signedIn, tabShown, started, access, store, seen, waiting, excused>>

Parts == {"radar", "arbitrage", "evidence", "settings"}

(* What each form changes on the server, and the loads its answer starts.  *)
(* The settings' count of evidence entries is left out.                    *)
Affects ==
  [review  |-> {"radar", "evidence"},
   entry   |-> {"radar", "evidence"},
   rules   |-> {"settings"},
   backup  |-> {"settings"},
   collect |-> {"radar", "arbitrage", "settings"}]
ReloadsRadar == [f \in DOMAIN Affects |-> {"radar"}]
Reloads ==
  [review  |-> {"evidence", "radar"},
   entry   |-> {"evidence", "radar"},
   rules   |-> {"settings"},
   backup  |-> {"settings"},
   collect |-> {"radar", "settings"}]
Forms == DOMAIN Affects
MayUse(f) ==
  IF f \in {"review", "entry"} THEN access \in {"write", "admin"} ELSE access = "admin"
FormTab(f) == IF f \in {"review", "entry"} THEN "evidence" ELSE "settings"

Waiting(k, v) == [kind |-> k, got |-> v]
Sent(kinds) == {Waiting(k, Unserved) : k \in kinds}
Overlap(kinds) == \E r \in waiting : r.kind \in kinds

(* The settings are asked for by an administrator only.                    *)
Loads(kinds, who) == IF who = "admin" THEN kinds ELSE kinds \ {"settings"}

SignalsUiInit ==
  /\ signedIn = TRUE /\ access = "unknown"
  /\ tabShown = "radar" /\ started = FALSE
  /\ store = [p \in Parts |-> 0] /\ seen = [p \in Parts |-> Unserved]
  /\ waiting = Sent({"radar"}) /\ excused = FALSE

(* Arbitrage and evidence load when first opened, settings at every visit. *)
Wanted(t, shown, who) ==
  IF t = "settings" \/ (t # "radar" /\ shown[t] = Unserved) THEN Loads({t}, who) ELSE {}

SelectTab(t) ==
  /\ signedIn /\ Cardinality(waiting) < MaxWaiting
  /\ tabShown' = t
  /\ waiting' = waiting \cup Sent(Wanted(t, seen, access))
  /\ excused' = (excused \/ Overlap(Wanted(t, seen, access)))
  /\ UNCHANGED <<signedIn, started, access, store, seen>>

(* The assumptions and search forms and the refresh button load again.     *)
LoadAgain(p) ==
  /\ signedIn /\ Cardinality(waiting) < MaxWaiting
  /\ tabShown = p /\ p # "settings"
  /\ waiting' = waiting \cup Sent({p})
  /\ excused' = (excused \/ Overlap({p}))
  /\ UNCHANGED <<signedIn, tabShown, started, access, store, seen>>

Submit(f) ==
  /\ signedIn /\ Cardinality(waiting) < MaxWaiting
  /\ tabShown = FormTab(f) /\ MayUse(f) /\ seen[tabShown] # Unserved
  /\ ~Overlap({f})
  /\ waiting' = waiting \cup Sent({f})
  /\ UNCHANGED <<signedIn, tabShown, started, access, store, seen, excused>>

(* The server reads what a section shows, or stores what a form sent.      *)
Serve(r) ==
  /\ r.got = Unserved
  /\ IF r.kind \in Parts
       THEN /\ waiting' = (waiting \ {r}) \cup {Waiting(r.kind, store[r.kind])}
            /\ UNCHANGED store
       ELSE /\ \A p \in Affects[r.kind] : store[p] < MaxVersion
            /\ store' = [p \in Parts |-> IF p \in Affects[r.kind] THEN store[p] + 1 ELSE store[p]]
            /\ waiting' = (waiting \ {r}) \cup {Waiting(r.kind, 0)}
  /\ UNCHANGED <<signedIn, tabShown, started, access, seen, excused>>

(* The first answer or failure of a radar opens the section of the address. *)
Ends(r) ==
  IF r.kind = "radar" /\ ~started
    THEN /\ started' = TRUE
         /\ tabShown' \in Parts
         /\ waiting' = (waiting \ {r}) \cup Sent(Wanted(tabShown', seen', access'))
    ELSE /\ waiting' = waiting \ {r} /\ UNCHANGED <<started, tabShown>>

Shows(r, p) ==
  /\ r.kind = p /\ r.got # Unserved
  /\ seen' = [seen EXCEPT ![p] = r.got]
  /\ excused' = (excused \/ (p = "radar" /\ ~started /\ waiting # {r}))
  /\ UNCHANGED <<signedIn, store>>

(* The first radar tells what the caller may do.                           *)
RadarAnswer(r) ==
  /\ Shows(r, "radar")
  /\ IF access = "unknown" THEN access' \in {"read", "write", "admin"} ELSE UNCHANGED access
  /\ Ends(r)

ArbitrageAnswer(r) == Shows(r, "arbitrage") /\ UNCHANGED access /\ Ends(r)
EvidenceAnswer(r) == Shows(r, "evidence") /\ UNCHANGED access /\ Ends(r)
StatusAnswered(r) == Shows(r, "settings") /\ UNCHANGED access /\ Ends(r)

FormAnswer(r) ==
  /\ r.kind \in Forms /\ r.got # Unserved
  /\ waiting' = (waiting \ {r}) \cup Sent(Loads(Reloads[r.kind], access))
  /\ excused' = (excused \/ Overlap(Loads(Reloads[r.kind], access)))
  /\ UNCHANGED <<signedIn, tabShown, started, access, store, seen>>

(* A request that fails leaves its section as it was, with a message; the  *)
(* server may have stored what a failed form sent.                         *)
Fails(r) ==
  /\ UNCHANGED <<signedIn, access, store, seen>>
  /\ Ends(r) /\ excused' = TRUE

(* An expired session or the sign-out button leaves the page.              *)
LeavePage ==
  /\ signedIn /\ signedIn' = FALSE /\ waiting' = {}
  /\ UNCHANGED <<tabShown, started, access, store, seen, excused>>

SignalsUiNext ==
  \/ \E p \in Parts : SelectTab(p) \/ LoadAgain(p)
  \/ \E f \in Forms : Submit(f)
  \/ \E r \in waiting : 
       \/ Serve(r) \/ FormAnswer(r) \/ Fails(r)
       \/ RadarAnswer(r) \/ ArbitrageAnswer(r) \/ EvidenceAnswer(r) \/ StatusAnswered(r)
  \/ LeavePage

SignalsUiSpec == SignalsUiInit /\ [][SignalsUiNext]_signalsUiVars

-----------------------------------------------------------------------------
(* Once everything is answered, unless two loads of a section overlapped   *)
(* or a request failed, the section on screen shows every change the page  *)
(* made: each form reloads, after the server's answer, what it shows in.   *)
(* The arbitrage section is excepted as a whole: a collection changes its  *)
(* measured venues, basis and persistence and does not load it again.      *)
ChangesAreShown ==
  signedIn /\ waiting = {} /\ ~excused /\ tabShown # "arbitrage" =>
    seen[tabShown] \in {Unserved, store[tabShown]}
=============================================================================
