------------------------------- MODULE MCMigrations -------------------------------
(* The files of the repository for TLC. *)
EXTENDS Migrations

CONSTANTS m1, m2

TwoRuns == {m1, m2}

ReferencesOfFiles ==
  [f \in 1..Files |-> CASE f \in {2, 3, 5, 7} -> {1} [] f = 8 -> {7} [] OTHER -> {}]

=============================================================================
