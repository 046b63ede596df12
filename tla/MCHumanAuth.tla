---------------------------- MODULE MCHumanAuth ----------------------------
(* HumanAuth on small sets; see the cfg files for the sizes.               *)
EXTENDS HumanAuth, TLC

(* Sessions, links and request slots are interchangeable; accounts and     *)
(* passwords are not, because Root and RootPassword name one of each.      *)
Symmetry ==
  Permutations(Tokens) \cup Permutations(Sessions) \cup Permutations(Requests)

(* A bound for the run about links: Root only administers the other        *)
(* accounts, with one session that stays usable, and promotes nobody.      *)
RootOnlyAdministers ==
  /\ users[Root] = RootAccount
  /\ \A u \in Users \ {Root} : ~users[u].admin
  /\ \A t \in Tokens : tokens[t].owner # Root
  /\ \A s \in Sessions : /\ sessions[s].user \in {Root, None}
                         /\ sessions[s].state \in {"free", "live"}
=============================================================================
