------------------------- MODULE MCSignalsCollector -------------------------
(* SignalsCollector on small sets; see the cfg files for the sizes.        *)
EXTENDS SignalsCollector, TLC

(* Jobs stay fixed: AnyJob names one of them.                              *)
Symmetry ==
  Permutations(Runs) \cup Permutations(Sources) \cup Permutations(Keys)
    \cup Permutations(Alerts)

(* A bound that keeps apart what does not interact: the second observation *)
(* of a source, and the alerts and their mails.                            *)
RowsOrAlerts ==
  \/ \A a \in Alerts : alerts[a] = None
  \/ Cardinality({k \in Keys : obs[k] # None}) <= 1

=============================================================================
