------------------------------- MODULE MCBilling -------------------------------
(***************************************************************************)
(* Instances of Billing for TLC.                                           *)
(***************************************************************************)
EXTENDS Billing, TLC

\* Everything but time and the order of events is interchangeable.
Symmetry ==
    UNION {Permutations(S) : S \in {Users, Intervals, Customers, Sessions, Workers, Reqs, Jobs}}

================================================================================
