--------------------------- MODULE AnalyticsEvents ---------------------------
(***************************************************************************)
(* Ingestion of one Site of the Analytics Worker: browsers post page views *)
(* and custom events, the collector registers the names of custom events   *)
(* up to a limit and stores each event once.  The legacy collector gives   *)
(* every request an event uid of its own and copies what it has stored     *)
(* into the tables of the old dashboard.                                   *)
(***************************************************************************)
EXTENDS Integers, FiniteSets

CONSTANTS
  Events,    \* event uids
  Names,     \* names of custom events
  Slots,     \* slots for requests in flight
  MaxNames,  \* MAX_EVENT_NAMES_PER_SITE
  MaxDay,    \* bound on the calendar
  None       \* no name: a page view

ASSUME EventsAssumption ==
  /\ MaxNames \in Nat /\ MaxDay \in Nat
  /\ None \notin Names \cup Events \cup Int
  /\ IsFiniteSet(Events)

VARIABLES
  today,     \* the day at the Site
  events,    \* table analytics_events; "purged" rows are gone from it
  names,     \* table analytics_event_names
  legacy,    \* the events copied into the legacy tables
  collects   \* the requests in flight

Days == 0 .. MaxDay

EventRow ==
  [state : {"absent", "raw", "purged"}, day : Days, name : Names \cup {None}]

Collect ==
  [pc : {"idle", "exists", "count", "add", "insert", "legacy"},
   event : Events \cup {None}, name : Names \cup {None}, old : BOOLEAN]

EventsTypeOK ==
  /\ today \in Days
  /\ events \in [Events -> EventRow]
  /\ names \subseteq Names
  /\ legacy \subseteq Events
  /\ collects \in [Slots -> Collect]

NoCollect == [pc |-> "idle", event |-> None, name |-> None, old |-> FALSE]

EventsInit ==
  /\ today = 0
  /\ events = [e \in Events |-> [state |-> "absent", day |-> 0, name |-> None]]
  /\ names = {}
  /\ legacy = {}
  /\ collects = [c \in Slots |-> NoCollect]

NextCollect(c, pc) == collects' = [collects EXCEPT ![c].pc = pc]

EndCollect(c) == collects' = [collects EXCEPT ![c] = NoCollect]

Raw(d) == {e \in Events : events[e].state = "raw" /\ events[e].day = d}

-----------------------------------------------------------------------------
(* A browser repeats a request whose answer it has missed on the same day. *)
(* The legacy collector never sees the same event uid twice.               *)
CollectStart(c, e, name, old) ==
  /\ collects[c].pc = "idle"
  /\ events[e].state = "absent" \/ (events[e].state = "raw" /\ events[e].day = today)
  /\ old => /\ events[e].state = "absent"
            /\ \A other \in Slots : collects[other].event # e
  /\ collects' = [collects EXCEPT ![c] =
       [pc |-> IF name = None THEN "insert" ELSE "exists",
        event |-> e, name |-> name, old |-> old]]
  /\ UNCHANGED <<today, events, names, legacy>>

(* ensureEventName: look for the name, count the names, add it. *)
NameExists(c) ==
  /\ collects[c].pc = "exists"
  /\ NextCollect(c, IF collects[c].name \in names THEN "insert" ELSE "count")
  /\ UNCHANGED <<today, events, names, legacy>>

(* Mutant of NameCount: at the limit the event is stored under its name. *)
NameCountLenient(c) ==
  /\ collects[c].pc = "count"
  /\ NextCollect(c, IF Cardinality(names) < MaxNames THEN "add" ELSE "insert")
  /\ UNCHANGED <<today, events, names, legacy>>

NameCount(c) ==
  /\ collects[c].pc = "count"
  /\ IF Cardinality(names) < MaxNames THEN NextCollect(c, "add") ELSE EndCollect(c)
  /\ UNCHANGED <<today, events, names, legacy>>

NameAdd(c) ==
  /\ collects[c].pc = "add"
  /\ names' = names \cup {collects[c].name}
  /\ NextCollect(c, "insert")
  /\ UNCHANGED <<today, events, legacy>>

(* INSERT OR IGNORE; the day is the one of the insertion. *)
InsertEvent(c) ==
  LET e == collects[c].event IN
  /\ collects[c].pc = "insert"
  /\ events[e].state = "absent"
  /\ events' = [events EXCEPT ![e] =
       [state |-> "raw", day |-> today, name |-> collects[c].name]]
  /\ IF collects[c].old THEN NextCollect(c, "legacy") ELSE EndCollect(c)
  /\ UNCHANGED <<today, names, legacy>>

(* The row is there: nothing is stored, in neither of the models. *)
InsertIgnored(c) ==
  /\ collects[c].pc = "insert"
  /\ events[collects[c].event].state = "raw"
  /\ EndCollect(c)
  /\ UNCHANGED <<today, events, names, legacy>>

(* writeLegacy: visitor, session and page view or event in one batch. *)
WriteLegacy(c) ==
  /\ collects[c].pc = "legacy"
  /\ legacy' = legacy \cup {collects[c].event}
  /\ EndCollect(c)
  /\ UNCHANGED <<today, events, names>>

(* The request fails or dies between two statements. *)
CollectStops(c) ==
  /\ collects[c].pc # "idle"
  /\ EndCollect(c)
  /\ UNCHANGED <<today, events, names, legacy>>

(* A new day begins; no request is in flight for a whole day. *)
NextDay ==
  /\ today < MaxDay
  /\ \A c \in Slots : collects[c].pc = "idle"
  /\ today' = today + 1
  /\ UNCHANGED <<events, names, legacy, collects>>

EventsNext ==
  \/ \E c \in Slots, e \in Events, name \in Names \cup {None}, old \in BOOLEAN :
       CollectStart(c, e, name, old)
  \/ \E c \in Slots :
       \/ NameExists(c)
       \/ NameCount(c)
       \/ NameAdd(c)
       \/ InsertEvent(c)
       \/ InsertIgnored(c)
       \/ WriteLegacy(c)
       \/ CollectStops(c)

-----------------------------------------------------------------------------
(* Whatever is stored under a name can be found under it: the registry     *)
(* lists the name of every stored custom event, at the limit as well.      *)
EventNamesListed ==
  \A e \in Events :
    events[e].state # "absent" /\ events[e].name # None
      => events[e].name \in names
=============================================================================
