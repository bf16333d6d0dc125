------------------------------ MODULE MCRituals ------------------------------
(***************************************************************************)
(* Instances of Rituals for TLC.                                           *)
(***************************************************************************)
EXTENDS Rituals, TLC

\* Users, couples, entry ids and request slots are interchangeable.
Symmetry == Permutations(Users) \union Permutations(Couples) \union
            Permutations(EntryIds) \union Permutations(Reqs)

===============================================================================
