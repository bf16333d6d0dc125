---------------------------- MODULE CoupleProofs ----------------------------
(***************************************************************************)
(* What module Couple guarantees for every number of users, processes and  *)
(* overlapping requests.                                                   *)
(***************************************************************************)
EXTENDS Couple, FiniteSetTheorems, TLAPS

LEMMA IdleRequest == Idle \in Request
  BY DEF Request

\* The steps of a request read fields that exist: a request in progress is a
\* record of a caller, an operation and a couple.
LEMMA ActiveRequest ==
  ASSUME TypeOK, NEW r \in Reqs, req[r] # Idle
  PROVE  /\ req[r].pc \in {"loaded", "checked"}
         /\ req[r].op \in {"invite", "join"}
         /\ req[r].user \in Users
         /\ req[r].seen \in Workers \union {None}
         /\ req[r].couple \in Workers
         /\ [req[r] EXCEPT !.pc = "checked"] \in Request
  <1>1. req[r] \in Request
    BY DEF TypeOK
  <1>2. req[r] \in [pc : {"loaded", "checked"}, op : {"invite", "join"}, user : Users,
                    seen : Workers \union {None}, couple : Workers]
    BY <1>1 DEF Request
  <1>3. QED
    BY <1>2 DEF Request

LEMMA IdlePc == Idle.pc = "idle"
  BY DEF Idle

LEMMA TypeStep ==
  ASSUME TypeOK, [Next]_vars
  PROVE  TypeOK'
  <1> USE IdleRequest DEF TypeOK
  <1>1. ASSUME NEW r \in Reqs, NEW op \in {"invite", "join"}, NEW u \in Users,
               NEW c \in Workers, Load(r, op, u, c)
        PROVE  TypeOK'
    <2>1. [pc |-> "loaded", op |-> op, user |-> u, seen |-> coupleOf[u], couple |-> c]
            \in Request
      BY DEF Request
    <2>2. QED
      BY <1>1, <2>1 DEF Load
  <1>2. ASSUME NEW r \in Reqs, CreateInvite(r)
        PROVE  TypeOK'
    BY <1>2, ActiveRequest, IdlePc DEF CreateInvite, Finish
  <1>3. ASSUME NEW r \in Reqs, FindCouple(r)
        PROVE  TypeOK'
    BY <1>3, ActiveRequest, IdlePc DEF FindCouple
  <1>4. ASSUME NEW r \in Reqs, JoinCouple(r)
        PROVE  TypeOK'
    BY <1>4, ActiveRequest, IdlePc DEF JoinCouple, Finish
  <1>5. ASSUME NEW r \in Reqs, Refuse(r) \/ Abort(r)
        PROVE  TypeOK'
    BY <1>5 DEF Refuse, Abort, Finish
  <1>6. CASE UNCHANGED vars
    BY <1>6 DEF vars
  <1>7. QED
    BY <1>1, <1>2, <1>3, <1>4, <1>5, <1>6 DEF Next

LEMMA TypeInit == Init => TypeOK
  BY IdleRequest DEF Init, TypeOK

\* Every request reads and writes values of the declared types.
THEOREM TypeCorrect == Spec => []TypeOK
  BY TypeInit, TypeStep, PTL DEF Spec

-----------------------------------------------------------------------------
(***************************************************************************)
(* References: a couple named by a user, or by a join that passed its      *)
(* guards, is a row.                                                       *)
(***************************************************************************)

LEMMA DanglingStep ==
  ASSUME TypeOK, NoDanglingCouple, [Next]_vars
  PROVE  NoDanglingCouple'
  <1> USE DEF TypeOK, NoDanglingCouple
  <1>1. ASSUME NEW r \in Reqs, NEW op \in {"invite", "join"}, NEW u \in Users,
               NEW c \in Workers, Load(r, op, u, c)
        PROVE  NoDanglingCouple'
    BY <1>1 DEF Load
  <1>2. ASSUME NEW r \in Reqs, CreateInvite(r)
        PROVE  NoDanglingCouple'
    BY <1>2, ActiveRequest, IdlePc DEF CreateInvite, Finish
  <1>3. ASSUME NEW r \in Reqs, FindCouple(r)
        PROVE  NoDanglingCouple'
    <2>1. req[r].couple \in couples /\ req[r] # Idle
      BY <1>3, IdlePc DEF FindCouple
    <2>2. \A s \in Reqs : s # r => req'[s] = req[s]
      BY <1>3 DEF FindCouple
    <2>3. req'[r].couple = req[r].couple
      BY <1>3, <2>1, ActiveRequest DEF FindCouple
    <2>4. QED
      BY <1>3, <2>1, <2>2, <2>3 DEF FindCouple
  <1>4. ASSUME NEW r \in Reqs, JoinCouple(r)
        PROVE  NoDanglingCouple'
    BY <1>4, ActiveRequest, IdlePc DEF JoinCouple, Finish
  <1>5. ASSUME NEW r \in Reqs, Refuse(r) \/ Abort(r)
        PROVE  NoDanglingCouple'
    BY <1>5, IdlePc DEF Refuse, Abort, Finish
  <1>6. CASE UNCHANGED vars
    BY <1>6 DEF vars
  <1>7. QED
    BY <1>1, <1>2, <1>3, <1>4, <1>5, <1>6 DEF Next

\* No interleaving commits a users.couple_id, or leads a join to commit one,
\* that names no couple.
THEOREM NeverDangling == Spec => []NoDanglingCouple
  <1>1. Init => NoDanglingCouple
    BY IdlePc DEF Init, NoDanglingCouple
  <1>2. TypeOK /\ NoDanglingCouple /\ [Next]_vars => NoDanglingCouple'
    BY DanglingStep
  <1>3. QED
    BY <1>1, <1>2, TypeCorrect, PTL DEF Spec

-----------------------------------------------------------------------------
(***************************************************************************)
(* The number of members.  The guard of join_couple leaves at most one     *)
(* other member at the moment it is evaluated; what commits later has      *)
(* passed the guard before, so it is counted among the joins in flight.    *)
(***************************************************************************)

\* Joining(c), of the requests in any state f of the slots.
Callers(f, c) == {u \in Users : \E r \in Reqs : /\ f[r].pc = "checked"
                                              /\ f[r].user = u
                                              /\ f[r].couple = c}

\* No more joins are in flight than there are request slots.
LEMMA FewCallers ==
  ASSUME NEW f, NEW c
  PROVE  /\ IsFiniteSet(Callers(f, c))
         /\ Cardinality(Callers(f, c)) \in Nat
         /\ Cardinality(Callers(f, c)) <= Cardinality(Reqs)
  <1> DEFINE slots == {r \in Reqs : f[r].pc = "checked" /\ f[r].couple = c
                                     /\ f[r].user \in Users}
             callers == [r \in slots |-> f[r].user]
  <1>1. IsFiniteSet(slots) /\ Cardinality(slots) <= Cardinality(Reqs)
        /\ Cardinality(slots) \in Nat /\ Cardinality(Reqs) \in Nat
    BY FiniteSystem, FS_Subset, FS_CardinalityType
  <1>2. callers \in Surjection(slots, Callers(f, c))
    BY DEF Surjection, Callers
  <1>3. IsFiniteSet(Callers(f, c)) /\ Cardinality(Callers(f, c)) <= Cardinality(slots)
    BY <1>1, <1>2, FS_Surjection
  <1>4. Cardinality(Callers(f, c)) \in Nat
    BY <1>3, FS_CardinalityType
  <1>5. QED
    BY <1>1, <1>3, <1>4

\* Every set of users is finite, and a part of it is no larger.
LEMMA FiniteUsers ==
  ASSUME NEW S \in SUBSET Users
  PROVE  IsFiniteSet(S) /\ Cardinality(S) \in Nat
  BY FiniteSystem, FS_Subset, FS_CardinalityType

LEMMA SmallerSet ==
  ASSUME NEW S \in SUBSET Users, NEW T \in SUBSET S
  PROVE  Cardinality(T) <= Cardinality(S)
  BY FiniteUsers, FS_Subset

LEMMA SeatsStep ==
  ASSUME TypeOK, NoDanglingCouple, SeatsBounded, [Next]_vars
  PROVE  SeatsBounded'
  <1> DEFINE taken(c) == Members(c) \union Joining(c)
  <1> SUFFICES ASSUME NEW c \in Workers
               PROVE  Cardinality(taken(c)') <= 1 + Cardinality(Reqs)
    BY DEF SeatsBounded
  <1>n. /\ Cardinality(Reqs) \in Nat
        /\ taken(c) \in SUBSET Users
        /\ Cardinality(taken(c)) \in Nat
        /\ Cardinality(taken(c)) <= 1 + Cardinality(Reqs)
    BY FiniteSystem, FS_CardinalityType, FiniteUsers DEF SeatsBounded, Members, Joining
  <1>s. ASSUME taken(c)' \subseteq taken(c)
        PROVE  Cardinality(taken(c)') <= 1 + Cardinality(Reqs)
    <2>1. Cardinality(taken(c)') <= Cardinality(taken(c)) /\ taken(c)' \in SUBSET Users
      BY <1>s, <1>n, SmallerSet
    <2>2. Cardinality(taken(c)') \in Nat
      BY <2>1, FiniteUsers
    <2>3. QED
      BY <1>n, <2>1, <2>2
  <1>1. ASSUME NEW r \in Reqs, NEW op \in {"invite", "join"}, NEW u \in Users,
               NEW d \in Workers, Load(r, op, u, d)
        PROVE  Cardinality(taken(c)') <= 1 + Cardinality(Reqs)
    <2>1. taken(c)' \subseteq taken(c)
      BY <1>1 DEF Load, Members, Joining, TypeOK
    <2>2. QED
      BY <1>s, <2>1
  <1>2. ASSUME NEW r \in Reqs, CreateInvite(r)
        PROVE  Cardinality(taken(c)') <= 1 + Cardinality(Reqs)
    <2>0. req[r] # Idle /\ req[r].user \in Users
      BY <1>2, IdlePc, ActiveRequest DEF CreateInvite
    <2>1. Joining(c)' \subseteq Joining(c)
      BY <1>2, IdlePc DEF CreateInvite, Finish, Joining, TypeOK
    <2>2. CASE c = req[r].couple
      <3>1. Members(c) = {} /\ Joining(c) = {}
        BY <1>2, <2>2, NoneIsNotAValue DEF NoDanglingCouple, CreateInvite, Members, Joining
      <3>2. taken(c)' \subseteq {req[r].user}
        BY <1>2, <2>0, <2>1, <3>1 DEF CreateInvite, Members, TypeOK
      <3>3. Cardinality(taken(c)') <= 1
        <4>1. {req[r].user} \in SUBSET Users /\ taken(c)' \in SUBSET {req[r].user}
          BY <2>0, <3>2
        <4>2. Cardinality({req[r].user}) = 1
          BY FS_Singleton
        <4> HIDE DEF taken
        <4>3. QED
          BY <4>1, <4>2, SmallerSet
      <3>4. Cardinality(taken(c)') \in Nat
        BY <2>0, <3>2, FiniteUsers
      <3>5. QED
        BY <3>3, <3>4, <1>n
    <2>3. CASE c # req[r].couple
      <3>1. taken(c)' \subseteq taken(c)
        BY <1>2, <2>0, <2>1, <2>3 DEF CreateInvite, Members, TypeOK
      <3>2. QED
        BY <1>s, <3>1
    <2>4. QED
      BY <2>2, <2>3
  <1>3. ASSUME NEW r \in Reqs, FindCouple(r)
        PROVE  Cardinality(taken(c)') <= 1 + Cardinality(Reqs)
    <2>0. /\ req[r] # Idle
          /\ req[r].user \in Users
          /\ req'[r].pc = "checked"
          /\ req'[r].user = req[r].user
          /\ req'[r].couple = req[r].couple
          /\ \A s \in Reqs : s # r => req'[s] = req[s]
      BY <1>3, IdlePc, ActiveRequest DEF FindCouple, TypeOK
    <2>1. CASE c = req[r].couple
      <3> DEFINE others == Members(c) \ {req[r].user}
      <3>1. others \in SUBSET Users /\ Cardinality(others) \in Nat
            /\ IsFiniteSet(others) /\ Cardinality(others) < 2
        BY <1>3, <2>1, FiniteUsers DEF FindCouple, SeatFree, Members
      <3>2. IsFiniteSet(Joining(c)') /\ Cardinality(Joining(c)') <= Cardinality(Reqs)
            /\ Cardinality(Joining(c)') \in Nat
        <4>1. Joining(c)' = Callers(req', c)
          BY DEF Joining, Callers
        <4>2. QED
          BY <4>1, FewCallers
      <3>3. req[r].user \in Joining(c)'
        BY <2>0, <2>1 DEF Joining
      <3>4. taken(c)' = others \union Joining(c)'
        BY <1>3, <3>3 DEF FindCouple, Members
      <3>5. Cardinality(taken(c)') = Cardinality(others) + Cardinality(Joining(c)')
                                     - Cardinality(others \cap Joining(c)')
        BY <3>1, <3>2, <3>4, FS_Union
      <3>6. Cardinality(others \cap Joining(c)') \in Nat
        BY <3>1, FiniteUsers
      <3>7. QED
        BY <1>n, <3>1, <3>2, <3>5, <3>6
    <2>2. CASE c # req[r].couple
      <3>1. taken(c)' \subseteq taken(c)
        BY <1>3, <2>0, <2>2 DEF FindCouple, Members, Joining
      <3>2. QED
        BY <1>s, <3>1
    <2>3. QED
      BY <2>1, <2>2
  <1>4. ASSUME NEW r \in Reqs, JoinCouple(r)
        PROVE  Cardinality(taken(c)') <= 1 + Cardinality(Reqs)
    <2>1. taken(c)' \subseteq taken(c)
      BY <1>4, IdlePc, ActiveRequest DEF JoinCouple, Finish, Members, Joining, TypeOK
    <2>2. QED
      BY <1>s, <2>1
  <1>5. ASSUME NEW r \in Reqs, Refuse(r) \/ Abort(r)
        PROVE  Cardinality(taken(c)') <= 1 + Cardinality(Reqs)
    <2>1. taken(c)' \subseteq taken(c)
      BY <1>5, IdlePc DEF Refuse, Abort, Finish, Members, Joining, TypeOK
    <2>2. QED
      BY <1>s, <2>1
  <1>6. CASE UNCHANGED vars
    BY <1>6, <1>n DEF vars, Members, Joining
  <1>7. QED
    BY <1>1, <1>2, <1>3, <1>4, <1>5, <1>6 DEF Next

\* However requests overlap, a couple never gets more members, joins in flight
\* included, than one more than the requests in flight.
THEOREM SeatsAreBounded == Spec => []SeatsBounded
  <1>1. Init => SeatsBounded
    <2> SUFFICES ASSUME Init, NEW c \in Workers
                 PROVE  Cardinality(Members(c) \union Joining(c)) <= 1 + Cardinality(Reqs)
      BY DEF SeatsBounded
    <2>1. Members(c) \union Joining(c) = {}
      BY IdlePc, NoneIsNotAValue DEF Init, Members, Joining
    <2>2. Cardinality(Reqs) \in Nat
      BY FiniteSystem, FS_CardinalityType
    <2>3. QED
      BY <2>1, <2>2, FS_EmptySet
  <1>2. TypeOK /\ NoDanglingCouple /\ SeatsBounded /\ [Next]_vars => SeatsBounded'
    BY SeatsStep
  <1>3. QED
    BY <1>1, <1>2, TypeCorrect, NeverDangling, PTL DEF Spec

-----------------------------------------------------------------------------
(***************************************************************************)
(* Fresh requests.  A request that commits while its guards still hold     *)
(* takes a step of module Pairing.                                         *)
(***************************************************************************)

LEMMA AtMostOneLeft ==
  ASSUME NEW S \in SUBSET Users, Cardinality(S) < 2, NEW v \in S, NEW w \in S
  PROVE  v = w
  <1>1. SUFFICES ASSUME v # w PROVE FALSE
    OBVIOUS
  <1>2. Cardinality({v, w}) = 2
    <2>1. IsFiniteSet({v}) /\ Cardinality({v}) = 1
      BY FS_Singleton
    <2>2. {v, w} = {v} \union {w} /\ w \notin {v}
      BY <1>1
    <2>3. Cardinality({v} \union {w}) = Cardinality({v}) + 1
      BY <2>1, <2>2, FS_AddElement
    <2>4. QED
      BY <2>1, <2>2, <2>3
  <1>3. Cardinality({v, w}) <= Cardinality(S)
    BY SmallerSet
  <1>4. QED
    BY <1>2, <1>3, FiniteUsers

\* The commit of a request: what it changes, and who asked for it.
LEMMA CommitFinishes ==
  ASSUME TypeOK, NEW r \in Reqs, CreateInvite(r) \/ JoinCouple(r)
  PROVE  /\ req[r] # Idle
         /\ req' = [req EXCEPT ![r] = Idle]
         /\ req[r].user \in Users
         /\ req[r].couple \in Workers
         /\ req'[r] # req[r]
         /\ \A s \in Reqs : s # r => req'[s] = req[s]
  <1>1. req[r] # Idle
    BY IdlePc DEF CreateInvite, JoinCouple
  <1>2. req' = [req EXCEPT ![r] = Idle]
    BY DEF CreateInvite, JoinCouple, Finish
  <1>3. QED
    BY <1>1, <1>2, ActiveRequest DEF TypeOK

LEMMA FreshRefines ==
  ASSUME TypeOK, NoDanglingCouple, [Next]_vars,
         \A r \in Reqs : req[r] # Idle /\ req'[r] # req[r] => Fresh(r),
         \A r \in Reqs : JoinCouple(r) => req[r].op = "join"
  PROVE  [Promise!Next]_<<couples, coupleOf>>
  <1>1. ASSUME NEW r \in Reqs, CreateInvite(r)
        PROVE  Promise!Next
    <2>1. req[r].user \in Users /\ req[r].couple \in Workers /\ coupleOf[req[r].user] = None
      BY <1>1, CommitFinishes DEF Fresh
    <2>2. Promise!Open(req[r].user, req[r].couple)
      BY <1>1, <2>1 DEF CreateInvite, Promise!Open
    <2>3. QED
      BY <2>1, <2>2 DEF Promise!Next
  <1>2. ASSUME NEW r \in Reqs, JoinCouple(r)
        PROVE  Promise!Next
    <2>1. /\ req[r].user \in Users
          /\ req[r].couple \in Workers
          /\ coupleOf[req[r].user] = None
          /\ SeatFree(r)
      BY <1>2, CommitFinishes DEF Fresh
    <2>2. Members(req[r].couple) \ {req[r].user} = Members(req[r].couple)
      BY <2>1, NoneIsNotAValue DEF Members
    <2>3. Cardinality(Members(req[r].couple)) < 2 /\ Members(req[r].couple) \in SUBSET Users
      BY <2>1, <2>2 DEF SeatFree, Members
    <2>4. \A v, w \in Members(req[r].couple) : v = w
      BY <2>3, AtMostOneLeft
    <2>5. req[r].couple \in couples
      BY <1>2 DEF JoinCouple, NoDanglingCouple
    <2>6. Promise!Complete(req[r].user, req[r].couple)
      BY <1>2, <2>1, <2>4, <2>5 DEF JoinCouple, Promise!Complete, Promise!Members, Members
    <2>7. QED
      BY <2>1, <2>6 DEF Promise!Next
  <1>3. QED
    BY <1>1, <1>2 DEF Next, vars, Load, FindCouple, Refuse, Abort

\* Only a join is ever between its guards and its commit.
CheckedIsJoin == \A r \in Reqs : req[r].pc = "checked" => req[r].op = "join"

LEMMA CheckedJoins == Spec => []CheckedIsJoin
  <1>1. Init => CheckedIsJoin
    BY IdlePc DEF Init, CheckedIsJoin
  <1>2. TypeOK /\ CheckedIsJoin /\ [Next]_vars => CheckedIsJoin'
    <2> SUFFICES ASSUME TypeOK, CheckedIsJoin, [Next]_vars, NEW s \in Reqs,
                        req'[s].pc = "checked"
                 PROVE  req'[s].op = "join"
      BY DEF CheckedIsJoin
    <2> USE DEF TypeOK, CheckedIsJoin
    <2>1. ASSUME NEW r \in Reqs, FindCouple(r)
          PROVE  req'[s].op = "join"
      <3>1. req[r] # Idle
        BY <2>1, IdlePc DEF FindCouple
      <3>2. req'[r].op = req[r].op
        BY <2>1, <3>1, ActiveRequest DEF FindCouple
      <3>3. QED
        BY <2>1, <3>2 DEF FindCouple
    <2>2. ASSUME NEW r \in Reqs,
                 \/ \E op \in {"invite", "join"}, u \in Users, c \in Workers : Load(r, op, u, c)
                 \/ CreateInvite(r)
                 \/ JoinCouple(r)
                 \/ Refuse(r)
                 \/ Abort(r)
          PROVE  req'[s].op = "join"
      BY <2>2, IdlePc DEF Load, CreateInvite, JoinCouple, Refuse, Abort, Finish
    <2>3. CASE UNCHANGED vars
      BY <2>3 DEF vars
    <2>4. QED
      BY <2>1, <2>2, <2>3 DEF Next
  <1>3. QED
    BY <1>1, <1>2, TypeCorrect, PTL DEF Spec

\* However requests overlap, a request that commits what it read unchanged takes
\* a step of module Pairing, and no other step changes a couple.
THEOREM PairingKeptUnlessStale == Spec => PairingUnlessStale
  <1>1. TypeOK /\ NoDanglingCouple /\ CheckedIsJoin /\ [Next]_vars =>
          [(\A r \in Reqs : req[r] # Idle /\ req'[r] # req[r] => Fresh(r))
            => [Promise!Next]_<<couples, coupleOf>>]_vars
    BY FreshRefines DEF CheckedIsJoin, JoinCouple
  <1>2. QED
    BY <1>1, TypeCorrect, NeverDangling, CheckedJoins, PTL DEF Spec, PairingUnlessStale

-----------------------------------------------------------------------------
(***************************************************************************)
(* Leaving a couple.  Both commits need a request that was loaded without  *)
(* a couple: the one of an invite looks at its copy itself, a join that is *)
(* checked has looked.                                                     *)
(***************************************************************************)

CheckedWasSingle == \A r \in Reqs : req[r].pc = "checked" => req[r].seen = None

LEMMA SingleStep ==
  ASSUME TypeOK, CheckedWasSingle, [Next]_vars
  PROVE  CheckedWasSingle'
  <1> SUFFICES ASSUME NEW s \in Reqs, req'[s].pc = "checked"
               PROVE  req'[s].seen = None
    BY DEF CheckedWasSingle
  <1>1. ASSUME NEW r \in Reqs, FindCouple(r), s = r
        PROVE  req'[s].seen = None
    <2>1. req[r] # Idle /\ req[r].seen = None
      BY <1>1, IdlePc DEF FindCouple
    <2>2. req'[r].seen = req[r].seen
      BY <1>1, <2>1, ActiveRequest DEF FindCouple, TypeOK
    <2>3. QED
      BY <1>1, <2>1, <2>2
  <1>2. ASSUME NEW r \in Reqs, FindCouple(r), s # r
        PROVE  req'[s] = req[s]
    BY <1>2 DEF FindCouple
  <1>3. ASSUME NEW r \in Reqs,
               \/ \E op \in {"invite", "join"}, u \in Users, c \in Workers : Load(r, op, u, c)
               \/ CreateInvite(r)
               \/ JoinCouple(r)
               \/ Refuse(r)
               \/ Abort(r)
        PROVE  req'[s] = req[s]
    BY <1>3, IdlePc
       DEF TypeOK, Load, CreateInvite, JoinCouple, Refuse, Abort, Finish
  <1>4. req'[s] = req[s] => req'[s].seen = None
    BY DEF CheckedWasSingle
  <1>5. QED
    BY <1>1, <1>2, <1>3, <1>4 DEF Next, vars

\* Nobody leaves a couple but by a request that was loaded before there was one.
THEOREM NobodyLeavesUnlessStale == Spec => LeavesOnlyIfStale
  <1> DEFINE Overtaken(u) ==
        \E r \in Reqs : /\ req[r].user = u
                        /\ req[r].seen = None
                        /\ req'[r] # req[r]
  <1>1. Init => CheckedWasSingle
    BY IdlePc DEF Init, CheckedWasSingle
  <1>2. ASSUME TypeOK, CheckedWasSingle, [Next]_vars, NEW u \in Users,
               coupleOf'[u] # coupleOf[u]
        PROVE  Overtaken(u)
    <2>1. PICK r \in Reqs : CreateInvite(r) \/ JoinCouple(r)
      BY <1>2 DEF Next, vars, Load, FindCouple, Refuse, Abort
    <2>2. req[r].user = u
      BY <1>2, <2>1 DEF CreateInvite, JoinCouple, TypeOK
    <2>3. req[r].seen = None
      BY <1>2, <2>1 DEF CreateInvite, JoinCouple, CheckedWasSingle
    <2>4. req'[r] # req[r]
      BY <1>2, <2>1, CommitFinishes
    <2>5. QED
      BY <2>2, <2>3, <2>4
  <1>3. TypeOK /\ CheckedWasSingle /\ [Next]_vars =>
          [\A u \in Users : coupleOf[u] # None /\ coupleOf'[u] # coupleOf[u]
              => Overtaken(u)]_coupleOf
    BY <1>2
  <1>4. TypeOK /\ CheckedWasSingle /\ [Next]_vars => CheckedWasSingle'
    BY SingleStep
  <1>5. QED
    BY <1>1, <1>3, <1>4, TypeCorrect, PTL DEF Spec, LeavesOnlyIfStale

=============================================================================
