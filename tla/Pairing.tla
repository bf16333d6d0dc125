------------------------------- MODULE Pairing -------------------------------
(***************************************************************************)
(* What the couple endpoints promise to their users, with no request, no   *)
(* session and no interleaving in it: a user is single or belongs to one   *)
(* couple for good, a couple is opened by one user and completed by at     *)
(* most one other.  The rules are those of the guards and of the messages  *)
(* of CoupleService (app/application/services/couple_service.py).          *)
(***************************************************************************)
EXTENDS FiniteSets

CONSTANTS
    Users,      \* the registered users
    CoupleIds,  \* the identifiers a couple can get
    None        \* "no couple": users.couple_id IS NULL

VARIABLES
    couples,    \* the couples that exist
    coupleOf    \* the couple of each user

vars == <<couples, coupleOf>>

Members(c) == {u \in Users : coupleOf[u] = c}

Init ==
    /\ couples = {}
    /\ coupleOf = [u \in Users |-> None]

\* A single user opens a couple and is its first member.
Open(u, c) ==
    /\ coupleOf[u] = None
    /\ c \notin couples
    /\ couples' = couples \union {c}
    /\ coupleOf' = [coupleOf EXCEPT ![u] = c]

\* A single user completes a couple that still has a free seat.
Complete(u, c) ==
    /\ coupleOf[u] = None
    /\ c \in couples
    /\ \A v, w \in Members(c) : v = w
    /\ coupleOf' = [coupleOf EXCEPT ![u] = c]
    /\ UNCHANGED couples

Next == \E u \in Users, c \in CoupleIds : Open(u, c) \/ Complete(u, c)

Spec == Init /\ [][Next]_vars

==============================================================================
