-------------------------------- MODULE Couple --------------------------------
(***************************************************************************)
(* The couple endpoints: POST /couple/invite and POST /couple/join         *)
(* (routers/auth.py), served by CoupleService over the tables users and    *)
(* couples.                                                                *)
(*                                                                         *)
(* A request runs in one database session and one READ COMMITTED           *)
(* transaction: get_current_user reads the user's row, the handler may     *)
(* read again, and what it wrote becomes visible when get_db_session       *)
(* commits.  The guards look at the values the session read, the UPDATE    *)
(* sets users.couple_id by primary key and repeats none of the guards.  So *)
(* a request is three steps, Load, FindCouple (a join only) and a commit,  *)
(* and the requests in flight (Reqs) interleave between them.              *)
(*                                                                         *)
(* A couple is identified by the worker process that inserted it:          *)
(* UUIDMixin's default=uuid.uuid4() is evaluated once, when the process    *)
(* imports the models, so a process offers the same primary key for every  *)
(* couple it inserts.  A restarted process is another member of Workers.   *)
(* The invite code is random and unique (a collision is one of the causes  *)
(* of Abort): it stands for the couple.  couples.is_active is never        *)
(* assigned FALSE and no operation deletes a couple or a user.             *)
(***************************************************************************)
EXTENDS Naturals, FiniteSets

CONSTANTS
    Users,      \* registered, active users (registration is not modelled)
    Workers,    \* server process incarnations, each with its own row id
    Reqs,       \* request slots: how many requests are in flight at most
    None        \* SQL NULL, and the empty fields of a request

ASSUME NoneIsNotAValue == None \notin Users \union Workers

ASSUME FiniteSystem == IsFiniteSet(Users) /\ IsFiniteSet(Reqs)

VARIABLES
    couples,    \* the rows of table couples, by primary key
    coupleOf,   \* users.couple_id
    req         \* what each request holds between two of its steps

vars == <<couples, coupleOf, req>>

Idle == [pc |-> "idle", op |-> None, user |-> None, seen |-> None, couple |-> None]

Request ==
    {Idle} \union
    [pc : {"loaded", "checked"}, op : {"invite", "join"}, user : Users,
     seen : Workers \union {None}, couple : Workers]

Members(c) == {u \in Users : coupleOf[u] = c}

\* The type invariant.
TypeOK ==
    /\ couples \subseteq Workers
    /\ coupleOf \in [Users -> Workers \union {None}]
    /\ req \in [Reqs -> Request]

Init ==
    /\ couples = {}
    /\ coupleOf = [u \in Users |-> None]
    /\ req = [r \in Reqs |-> Idle]

(***************************************************************************)
(* The steps of a request.  Load is get_current_user: the session now      *)
(* holds the user's row, couple_id included, and the handler works on      *)
(* that copy.  For an invite, "couple" is the row id of the worker that    *)
(* serves it; for a join it is the couple the invite code names, which is  *)
(* unknown when no such couple was inserted yet.                           *)
(***************************************************************************)
Load_Anonymous(r, op, u, c) ==
    /\ req[r] = Idle
    /\ req' = [req EXCEPT ![r] = [pc |-> "loaded", op |-> op, user |-> None,
                                  seen |-> None, couple |-> c]]
    /\ UNCHANGED <<couples, coupleOf>>

Load(r, op, u, c) ==
    /\ req[r] = Idle
    /\ req' = [req EXCEPT ![r] = [pc |-> "loaded", op |-> op, user |-> u,
                                  seen |-> coupleOf[u], couple |-> c]]
    /\ UNCHANGED <<couples, coupleOf>>

Finish(r) == req' = [req EXCEPT ![r] = Idle]

CreateInvite_IgnoresCouple(r) ==
    /\ req[r].pc = "loaded"
    /\ req[r].op = "invite"
    /\ req[r].couple \notin couples
    /\ couples' = couples \union {req[r].couple}
    /\ coupleOf' = [coupleOf EXCEPT ![req[r].user] = req[r].couple]
    /\ Finish(r)

\* create_invite by a user whose loaded row has no couple: the INSERT of the
\* couple and the UPDATE of the user commit together.
CreateInvite(r) ==
    /\ req[r].pc = "loaded"
    /\ req[r].op = "invite"
    /\ req[r].seen = None
    /\ req[r].couple \notin couples
    /\ couples' = couples \union {req[r].couple}
    /\ coupleOf' = [coupleOf EXCEPT ![req[r].user] = req[r].couple]
    /\ Finish(r)

SeatFree_OffByOne(r) ==
    Cardinality(Members(req[r].couple) \ {req[r].user}) <= 2

\* "members" of join_couple: the rows that point to the couple, less the caller's.
SeatFree(r) == Cardinality(Members(req[r].couple) \ {req[r].user}) < 2

FindCouple_UnknownCode(r) ==
    /\ req[r].pc = "loaded"
    /\ req[r].op = "join"
    /\ req[r].seen = None
    /\ SeatFree(r)
    /\ req' = [req EXCEPT ![r].pc = "checked"]
    /\ UNCHANGED <<couples, coupleOf>>

\* join_couple up to its last guard: the couple of the code and its members
\* are read from the database, in which other requests commit meanwhile.
FindCouple(r) ==
    /\ req[r].pc = "loaded"
    /\ req[r].op = "join"
    /\ req[r].seen = None
    /\ req[r].couple \in couples
    /\ SeatFree(r)
    /\ req' = [req EXCEPT ![r].pc = "checked"]
    /\ UNCHANGED <<couples, coupleOf>>

\* The UPDATE of join_couple commits.
JoinCouple(r) ==
    /\ req[r].pc = "checked"
    /\ coupleOf' = [coupleOf EXCEPT ![req[r].user] = req[r].couple]
    /\ Finish(r)
    /\ UNCHANGED couples

\* The early returns: AlreadyInCoupleError, an unknown code (NotFoundError), a
\* couple with two members (ConflictError), and the primary-key violation of a
\* second couple inserted by the same process.
Refuse(r) ==
    /\ req[r].pc = "loaded"
    /\ \/ req[r].seen # None
       \/ req[r].op = "invite" /\ req[r].couple \in couples
       \/ req[r].op = "join" /\ req[r].couple \notin couples
       \/ req[r].op = "join" /\ ~SeatFree(r)
    /\ Finish(r)
    /\ UNCHANGED <<couples, coupleOf>>

\* A cancelled request, a lost connection, a killed process or a failed
\* statement: get_db_session rolls back and nothing was written.
Abort(r) ==
    /\ req[r] # Idle
    /\ Finish(r)
    /\ UNCHANGED <<couples, coupleOf>>

Next ==
    \E r \in Reqs :
        \/ \E op \in {"invite", "join"}, u \in Users, c \in Workers : Load(r, op, u, c)
        \/ CreateInvite(r)
        \/ FindCouple(r)
        \/ JoinCouple(r)
        \/ Refuse(r)
        \/ Abort(r)

Spec == Init /\ [][Next]_vars

-------------------------------------------------------------------------------
(***************************************************************************)
(* Properties of every interleaving.                                       *)
(***************************************************************************)

\* The users whose join has passed its last guard and has not committed.
Joining(c) == {u \in Users : \E r \in Reqs : /\ req[r].pc = "checked"
                                            /\ req[r].user = u
                                            /\ req[r].couple = c}

\* A couple never has more members, joins in flight included, than its first
\* member and one per request in flight: what the unrepeated guard of
\* join_couple really bounds.
SeatsBounded ==
    \A c \in Workers : Cardinality(Members(c) \union Joining(c)) <= 1 + Cardinality(Reqs)

\* users.couple_id always names an existing couple, and so does every join that
\* passed its guards: the foreign key never fails a commit.
NoDanglingCouple ==
    /\ \A u \in Users : coupleOf[u] # None => coupleOf[u] \in couples
    /\ \A r \in Reqs : req[r].pc = "checked" => req[r].couple \in couples

Promise == INSTANCE Pairing WITH CoupleIds <- Workers

\* What the guards of a request established when it read still holds.
Fresh(r) ==
    /\ coupleOf[req[r].user] = None
    /\ req[r].op = "join" => SeatFree(r)

\* Every step of every interleaving is a step of module Pairing, or changes no
\* table, except the commit of a request whose caller got a couple, or whose
\* couple filled up, after the request looked: nothing but the unrepeated guards
\* lets a user change couple or a third member in.
PairingUnlessStale ==
    [][(\A r \in Reqs : req[r] # Idle /\ req'[r] # req[r] => Fresh(r))
       => [Promise!Next]_<<couples, coupleOf>>]_vars

\* A user who has a couple leaves it only by the commit of an own request that was
\* loaded before there was one: whatever a user sends after that is refused
\* (AlreadyInCoupleError), so an invite and a join that overlap are the only way to
\* strand a couple that no endpoint can delete.
LeavesOnlyIfStale ==
    [][\A u \in Users : coupleOf[u] # None /\ coupleOf'[u] # coupleOf[u] =>
        \E r \in Reqs : /\ req[r].user = u
                        /\ req[r].seen = None
                        /\ req'[r] # req[r]]_coupleOf

(***************************************************************************)
(* What the code says of itself and does not keep.                         *)
(***************************************************************************)

\* A couple has at most two members, so that get_couple_partner, which uses
\* scalar_one_or_none, finds at most one partner for each of them.
AtMostTwoMembers == \A c \in Workers : Cardinality(Members(c)) <= 2

===============================================================================
