------------------------------- MODULE MCCouple -------------------------------
(***************************************************************************)
(* Instances of Couple for TLC.                                            *)
(***************************************************************************)
EXTENDS Couple, TLC

\* Users, processes and request slots are interchangeable.
Symmetry == Permutations(Users) \union Permutations(Workers) \union Permutations(Reqs)

===============================================================================
