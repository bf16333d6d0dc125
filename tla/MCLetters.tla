------------------------------- MODULE MCLetters -------------------------------
(***************************************************************************)
(* Instances of Letters for TLC.                                           *)
(***************************************************************************)
EXTENDS Letters, TLC

\* Users, couples, processes and request slots are interchangeable.
Symmetry ==
    UNION {Permutations(S) : S \in {Users, Couples, Workers, Reqs}}

================================================================================
