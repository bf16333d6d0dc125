------------------------------ MODULE MCPresence ------------------------------
(***************************************************************************)
(* Instances of Presence for TLC.                                          *)
(***************************************************************************)
EXTENDS Presence, TLC

\* Users and tabs are interchangeable.
Symmetry == Permutations(Users) \union Permutations(Tabs)

===============================================================================
