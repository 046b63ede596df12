--------------------------- MODULE MCGscCollector ---------------------------
(* GscCollector on small windows; see the cfg files for the sizes.         *)
EXTENDS GscCollector, TLC

Symmetry == Permutations(Slots)

(* A bound: overlaps, failures and manual collections in the first two     *)
(* ticks, and after them behaviours without trouble.                       *)
TroubleAtFirst == now <= 1 \/ trouble = {}

(* A bound: every cron is served, and Google lists the first property only. *)
SecondUnlisted ==
  /\ trouble \subseteq {"unlisted"}
  /\ \A r \in Slots : run[r].discovered => run[r].listed = {1}
=============================================================================
