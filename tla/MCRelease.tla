------------------------------- MODULE MCRelease -------------------------------
(* Four commits: the second adds a migration of another database that is   *)
(* forbidden and carries an approval for a different content; the third    *)
(* edits the migration to that content and adds an additive one; the       *)
(* fourth breaks the configuration.                                        *)
EXTENDS Release
MCFiles == {"m1", "m2", "m3"}
MCDbOf == [m1 |-> 1, m2 |-> 2, m3 |-> 3]
Unique == <<"table", "unique">>
Third == [m1 |-> <<"table">>, m2 |-> Unique, m3 |-> <<"column">>]
MCContent ==
  <<[m1 |-> <<"table">>], [m1 |-> <<"table">>, m2 |-> <<"table", "drop">>], Third, Third>>
MCApprovals == [c \in 1..4 |-> IF c = 1 THEN {} ELSE {<<"m2", Unique>>}]
=============================================================================
