----------------------------- MODULE MCMigrations -----------------------------
(***************************************************************************)
(* Instances of Migrations for TLC.                                        *)
(***************************************************************************)
EXTENDS Migrations, TLC

\* Commands are interchangeable.
Symmetry == Permutations(Runs)

===============================================================================
