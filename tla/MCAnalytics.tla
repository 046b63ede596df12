---------------------------- MODULE MCAnalytics ----------------------------
(* Analytics ingestion and maintenance on small sets; see the cfg files.   *)
EXTENDS AnalyticsMaintenance, TLC

Symmetry ==
  Permutations(Events) \cup Permutations(Names)

(* A bound that keeps apart what does not interact: custom events, legacy  *)
(* requests and two requests at a time on the first day, with two events;  *)
(* page views one by one and the maintenance over several days.            *)
NamesOrDays ==
  \/ today = 0 /\ job = NoJob /\ settled = None /\ Cardinality(Stored) <= 2
  \/ /\ names = {} /\ legacy = {}
     /\ \A c \in Slots : collects[c].name = None /\ ~collects[c].old
     /\ Cardinality({c \in Slots : collects[c].pc # "idle"}) <= 1
=============================================================================
