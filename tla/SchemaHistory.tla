---------------------------- MODULE SchemaHistory ----------------------------
(***************************************************************************)
(* The history of the database as its operators see it: a series of whole  *)
(* upgrades and downgrades, one after the other, with no statement, no     *)
(* transaction and no overlapping command in it.                           *)
(*                                                                         *)
(* The downgrade of 0001 (alembic/versions/0001_initial_schema.py) drops   *)
(* three of the six enum types its upgrade creates.  They are stray in the *)
(* empty schema, and its upgrade, which creates them without looking, is   *)
(* not possible any more.                                                  *)
(***************************************************************************)
EXTENDS Naturals

VARIABLES
    revision,   \* the committed revision, 0 for the empty schema
    stray       \* the empty schema holds types of an earlier one

Init == revision = 0 /\ stray = FALSE

Upgrade(to) ==
    /\ to > revision
    /\ ~stray
    /\ revision' = to
    /\ UNCHANGED stray

Downgrade(to) ==
    /\ to < revision
    /\ revision' = to
    /\ stray' = (to = 0)

Next == \E to \in 0..2 : Upgrade(to) \/ Downgrade(to)

Spec == Init /\ [][Next]_<<revision, stray>>

==============================================================================
