---------------------------- MODULE SurpriseProofs ----------------------------
(***************************************************************************)
(* What module Surprise guarantees for every number of users, couples,     *)
(* processes, texts, overlapping requests and overlapping runs of the job. *)
(***************************************************************************)
EXTENDS Surprise, TLAPS

LEMMA IdleRequest == Idle \in Request /\ Idle.pc = "idle"
  BY DEF Request, Idle

\* The fields of a request in progress.
LEMMA ActiveRequest ==
  ASSUME TypeOK, NEW r \in Reqs, req[r] # Idle
  PROVE  /\ req[r] \in [pc : {"loaded", "checked"}, op : Ops, user : Users,
                        couple : Couples, id : Workers, partner : Users \union {None},
                        text : Texts \union {None}]
         /\ req[r].pc \in {"loaded", "checked"}
         /\ req[r].op \in Ops
         /\ req[r].user \in Users
         /\ req[r].couple \in Couples
         /\ req[r].id \in Workers
  BY DEF TypeOK, Request

(***************************************************************************)
(* Types and rows.  As in LettersProofs, the recipient that a create       *)
(* carries to its INSERT is part of the invariant.                         *)
(***************************************************************************)

RecipientIsPartner ==
    \A r \in Reqs : req[r].pc = "checked" /\ req[r].op = "create" =>
        req[r].partner \in Users \ {req[r].user}

RowInv == TypeOK /\ RecipientIsPartner /\ RowsAgree

LEMMA RowInit == Init => RowInv
  <1> SUFFICES ASSUME Init PROVE RowInv
    OBVIOUS
  <1>1. TypeOK
    BY IdleRequest DEF Init, TypeOK
  <1>2. RecipientIsPartner /\ RowsAgree
    BY IdleRequest DEF Init, RecipientIsPartner, RowsAgree
  <1>3. QED
    BY <1>1, <1>2 DEF RowInv

\* The updates of a row: what each leaves alone.
LEMMA RowUpdate ==
  ASSUME NEW s \in Row, NEW t \in Texts
  PROVE  /\ [s EXCEPT !.status = "opened", !.openedAt = TRUE] \in Row
         /\ [s EXCEPT !.status = "delivered"] \in Row
         /\ [s EXCEPT !.text = t] \in Row
         /\ [s EXCEPT !.due = TRUE] \in Row
  BY DEF Row

LEMMA RowIsNotNone == \A s \in Row : s # None
  BY NoneIsNotAValue

\* What RowsAgree says of one row.
Agrees(s) ==
    /\ s.sender # s.recipient
    /\ s.status = "opened" => s.openedAt
    /\ s.status = "locked" => ~s.openedAt

LEMMA RowsAgreeIs == RowsAgree <=> \A i \in Workers : surprise[i] # None => Agrees(surprise[i])
  BY DEF RowsAgree, Agrees

LEMMA AgreesUpdate ==
  ASSUME NEW s \in Row, Agrees(s), NEW t \in Texts
  PROVE  /\ Agrees([s EXCEPT !.status = "opened", !.openedAt = TRUE])
         /\ Agrees([s EXCEPT !.status = "delivered"])
         /\ Agrees([s EXCEPT !.text = t])
         /\ Agrees([s EXCEPT !.due = TRUE])
  BY DEF Row, Agrees

\* A step that rewrites one row with an agreeing one keeps the rows right.
LEMMA OneRow ==
  ASSUME TypeOK, RowsAgree, NEW i \in Workers, NEW s \in Row, Agrees(s),
         surprise' = [surprise EXCEPT ![i] = s]
  PROVE  surprise' \in [Workers -> Row \union {None}] /\ RowsAgree'
  BY DEF TypeOK, RowsAgree, Agrees

LEMMA RowStep ==
  ASSUME RowInv, [Next]_vars
  PROVE  RowInv'
  <1> USE IdleRequest DEF RowInv
  <1>1. ASSUME NEW r \in Reqs, NEW op \in Ops, NEW u \in Users, NEW i \in Workers,
               Load(r, op, u, i)
        PROVE  RowInv'
    <2>1. coupleOf[u] \in Couples
      BY <1>1 DEF Load, TypeOK
    <2>2. [pc |-> "loaded", op |-> op, user |-> u, couple |-> coupleOf[u],
           id |-> i, partner |-> None, text |-> None] \in Request
      BY <2>1 DEF Request
    <2>3. TypeOK'
      BY <1>1, <2>2 DEF Load, TypeOK
    <2>4. RecipientIsPartner' /\ RowsAgree'
      BY <1>1 DEF Load, TypeOK, RecipientIsPartner, RowsAgree
    <2>5. QED
      BY <2>3, <2>4
  <1>2. ASSUME NEW r \in Reqs, FindPartner(r)
        PROVE  RowInv'
    <2>1. req[r] # Idle
      BY <1>2 DEF FindPartner
    <2>2. PICK v \in Partners(req[r]) :
            req' = [req EXCEPT ![r] = [req[r] EXCEPT !.pc = "checked", !.partner = v]]
      BY <1>2 DEF FindPartner
    <2>3. v \in Users \ {req[r].user}
      BY DEF Partners
    <2>4. /\ [req[r] EXCEPT !.pc = "checked", !.partner = v] \in Request
          /\ [req[r] EXCEPT !.pc = "checked", !.partner = v].partner = v
          /\ [req[r] EXCEPT !.pc = "checked", !.partner = v].user = req[r].user
      BY <2>1, <2>3, ActiveRequest DEF Request
    <2>5. TypeOK'
      BY <1>2, <2>2, <2>4 DEF FindPartner, TypeOK
    <2>6. RecipientIsPartner' /\ RowsAgree'
      BY <1>2, <2>2, <2>3, <2>4 DEF FindPartner, TypeOK, RecipientIsPartner, RowsAgree
    <2>7. QED
      BY <2>5, <2>6
  <1>3. ASSUME NEW r \in Reqs, FindSurprise(r)
        PROVE  RowInv'
    <2> DEFINE t == surprise[req[r].id].text
    <2>1. req[r] # Idle /\ req[r].op # "create"
      BY <1>3 DEF FindSurprise, May
    <2>2. t \in Texts
      BY <1>3, <2>1, ActiveRequest DEF FindSurprise, May, TypeOK, Row
    <2>3. req' = [req EXCEPT ![r] = [req[r] EXCEPT !.pc = "checked", !.text = t]]
      BY <1>3 DEF FindSurprise
    <2> HIDE DEF t
    <2>4. /\ [req[r] EXCEPT !.pc = "checked", !.text = t] \in Request
          /\ [req[r] EXCEPT !.pc = "checked", !.text = t].op = req[r].op
      BY <2>1, <2>2, ActiveRequest DEF Request
    <2>5. TypeOK'
      BY <1>3, <2>3, <2>4 DEF FindSurprise, TypeOK
    <2>6. RecipientIsPartner' /\ RowsAgree'
      BY <1>3, <2>1, <2>3, <2>4 DEF FindSurprise, TypeOK, RecipientIsPartner, RowsAgree
    <2>7. QED
      BY <2>5, <2>6
  <1>4. ASSUME NEW r \in Reqs, CommitCreate(r)
        PROVE  RowInv'
    <2>1. PICK t \in Texts, later \in BOOLEAN :
            surprise' = [surprise EXCEPT ![req[r].id] =
              [status |-> IF later THEN "locked" ELSE "delivered",
               sender |-> req[r].user, recipient |-> req[r].partner,
               couple |-> req[r].couple, text |-> t, due |-> ~later, openedAt |-> FALSE]]
      BY <1>4 DEF CommitCreate
    <2> DEFINE row == [status |-> IF later THEN "locked" ELSE "delivered",
               sender |-> req[r].user, recipient |-> req[r].partner,
               couple |-> req[r].couple, text |-> t, due |-> ~later, openedAt |-> FALSE]
    <2>2. req[r] # Idle /\ req[r].partner \in Users \ {req[r].user}
      BY <1>4 DEF CommitCreate, Checked, RecipientIsPartner
    <2>3. row \in Row /\ Agrees(row)
      BY <2>2, ActiveRequest DEF Row, Agrees
    <2>4. surprise' = [surprise EXCEPT ![req[r].id] = row]
      BY <2>1
    <2> HIDE DEF row
    <2>5. surprise' \in [Workers -> Row \union {None}] /\ RowsAgree'
      BY <2>2, <2>3, <2>4, ActiveRequest, OneRow
    <2>6. TypeOK' /\ RecipientIsPartner'
      BY <1>4, <2>5 DEF CommitCreate, Finish, TypeOK, RecipientIsPartner
    <2>7. QED
      BY <2>5, <2>6
  <1>5. ASSUME NEW r \in Reqs, CommitOpen(r) \/ CommitUpdate(r)
        PROVE  RowInv'
    <2> DEFINE old == surprise[req[r].id]
    <2>1. req[r] # Idle /\ req[r].id \in Workers
      BY <1>5, ActiveRequest DEF CommitOpen, CommitUpdate, Checked
    <2>2. old \in Row /\ Agrees(old)
      BY <1>5, <2>1, RowsAgreeIs DEF CommitOpen, CommitUpdate, TypeOK
    <2>3. PICK s \in Row : Agrees(s) /\ surprise' = [surprise EXCEPT ![req[r].id] = s]
      <3>1. CASE CommitOpen(r)
        <4> DEFINE row == [old EXCEPT !.status = "opened", !.openedAt = TRUE]
        <4>1. surprise' = [surprise EXCEPT ![req[r].id] = row]
          BY <3>1 DEF CommitOpen
        <4>2. row \in Row /\ Agrees(row)
          <5>1. Texts # {}
            BY <2>2 DEF Row
          <5>2. QED
            BY <2>2, <5>1, RowUpdate, AgreesUpdate
        <4> HIDE DEF row
        <4>3. QED
          BY <4>1, <4>2
      <3>2. CASE CommitUpdate(r)
        <4>1. PICK t \in Texts : surprise' = [surprise EXCEPT ![req[r].id].text = t]
          BY <3>2 DEF CommitUpdate
        <4> DEFINE row == [old EXCEPT !.text = t]
        <4>2. surprise' = [surprise EXCEPT ![req[r].id] = row]
          BY <4>1
        <4>3. row \in Row /\ Agrees(row)
          BY <2>2, RowUpdate, AgreesUpdate
        <4> HIDE DEF row
        <4>4. QED
          BY <4>2, <4>3
      <3>3. QED
        BY <1>5, <3>1, <3>2
    <2>4. surprise' \in [Workers -> Row \union {None}] /\ RowsAgree'
      BY <2>1, <2>3, OneRow
    <2>5. TypeOK' /\ RecipientIsPartner'
      BY <1>5, <2>4 DEF CommitOpen, CommitUpdate, Finish, TypeOK, RecipientIsPartner
    <2>6. QED
      BY <2>4, <2>5
  <1>6. ASSUME NEW r \in Reqs, CommitDelete(r)
        PROVE  RowInv'
    <2>1. req[r] # Idle /\ req[r].id \in Workers
      BY <1>6, ActiveRequest DEF CommitDelete, Checked
    <2>2. QED
      BY <1>6, <2>1 DEF CommitDelete, Finish, TypeOK, RecipientIsPartner, RowsAgree
  <1>7. ASSUME NEW r \in Reqs, Refuse(r) \/ Abort(r)
        PROVE  RowInv'
    <2>1. Finish(r) /\ UNCHANGED <<coupleOf, surprise, job>>
      BY <1>7 DEF Refuse, Abort
    <2>2. QED
      BY <2>1 DEF Finish, TypeOK, RecipientIsPartner, RowsAgree
  <1>8. ASSUME NEW j \in Jobs, JobRead(j) \/ JobAbort(j)
        PROVE  RowInv'
    <2>1. job' \in [Jobs -> SUBSET Workers]
      BY <1>8 DEF JobRead, JobAbort, DueLocked, TypeOK
    <2>2. QED
      BY <1>8, <2>1 DEF JobRead, JobAbort, TypeOK, RecipientIsPartner, RowsAgree
  <1>9. ASSUME NEW j \in Jobs, JobCommit(j)
        PROVE  RowInv'
    <2>1. job' \in [Jobs -> SUBSET Workers]
      BY <1>9 DEF JobCommit, TypeOK
    <2>2. ASSUME NEW i \in Workers
          PROVE  /\ surprise'[i] \in Row \union {None}
                 /\ surprise'[i] # None => Agrees(surprise'[i])
      <3> DEFINE s == surprise[i]
                 row == [s EXCEPT !.status = "delivered"]
      <3>1. surprise'[i] = IF i \in job[j] /\ s # None THEN row ELSE s
        BY <1>9 DEF JobCommit
      <3>2. s \in Row \union {None} /\ (s # None => Agrees(s))
        BY RowsAgreeIs DEF TypeOK
      <3>3. s \in Row /\ Agrees(s) => row \in Row /\ Agrees(row)
        <4>1. s \in Row => Texts # {}
          BY DEF Row
        <4>2. QED
          BY <4>1, RowUpdate, AgreesUpdate
      <3> HIDE DEF row, s
      <3>4. QED
        BY <3>1, <3>2, <3>3
    <2>3. surprise' = [i \in Workers |-> surprise'[i]]
      BY <1>9 DEF JobCommit
    <2>4. surprise' \in [Workers -> Row \union {None}]
      BY <2>2, <2>3
    <2>5. RowsAgree'
      BY <2>2 DEF RowsAgree, Agrees
    <2>6. TypeOK' /\ RecipientIsPartner'
      BY <1>9, <2>1, <2>4 DEF JobCommit, TypeOK, RecipientIsPartner
    <2>7. QED
      BY <2>5, <2>6
  <1>10. ASSUME NEW i \in Workers, Elapse(i)
         PROVE  RowInv'
    <2> DEFINE row == [surprise[i] EXCEPT !.due = TRUE]
    <2>1. surprise[i] \in Row /\ Agrees(surprise[i])
      BY <1>10, RowsAgreeIs DEF Elapse, Locked, Status, TypeOK
    <2>2. row \in Row /\ Agrees(row)
      <3>1. Texts # {}
        BY <2>1 DEF Row
      <3>2. QED
        BY <2>1, <3>1, RowUpdate, AgreesUpdate
    <2>3. surprise' = [surprise EXCEPT ![i] = row]
      BY <1>10 DEF Elapse
    <2> HIDE DEF row
    <2>4. surprise' \in [Workers -> Row \union {None}] /\ RowsAgree'
      BY <2>2, <2>3, OneRow
    <2>5. TypeOK' /\ RecipientIsPartner'
      BY <1>10, <2>4 DEF Elapse, TypeOK, RecipientIsPartner
    <2>6. QED
      BY <2>4, <2>5
  <1>11. CASE UNCHANGED vars
    BY <1>11 DEF vars, TypeOK, RecipientIsPartner, RowsAgree
  <1>12. QED
    BY <1>1, <1>2, <1>3, <1>4, <1>5, <1>6, <1>7, <1>8, <1>9, <1>10, <1>11 DEF Next

LEMMA RowInvariant == Spec => []RowInv
  BY RowInit, RowStep, PTL DEF Spec

\* Every request and every run of the job reads and writes values of the
\* declared types.
THEOREM TypeCorrect == Spec => []TypeOK
  <1>1. RowInv => TypeOK
    BY DEF RowInv
  <1>2. QED
    BY <1>1, RowInvariant, PTL

\* However requests and runs of the job overlap, an opened surprise has its
\* opened_at, a locked one has none, and nobody is surprised by oneself.
THEOREM RowsAlwaysAgree == Spec => []RowsAgree
  <1>1. RowInv => RowsAgree
    BY DEF RowInv
  <1>2. QED
    BY <1>1, RowInvariant, PTL

-----------------------------------------------------------------------------
(***************************************************************************)
(* Commits.  Whoever commits what it read unchanged takes a step of        *)
(* SurpriseLifecycle, and so does the clock, which only makes a locked     *)
(* surprise due.                                                           *)
(***************************************************************************)

\* A commit of a request writes the row of that request only.
LEMMA CommitsOwnRow ==
  ASSUME TypeOK, NEW r \in Reqs,
         CommitCreate(r) \/ CommitOpen(r) \/ CommitUpdate(r) \/ CommitDelete(r)
  PROVE  /\ req[r] # Idle
         /\ req[r].id \in Workers
         /\ \A i \in Workers \ {req[r].id} : surprise'[i] = surprise[i]
         /\ req' = [req EXCEPT ![r] = Idle]
         /\ job' = job
  <1>1. req[r] # Idle
    BY IdleRequest DEF CommitCreate, CommitOpen, CommitUpdate, CommitDelete, Checked
  <1>2. req[r].id \in Workers
    BY <1>1, ActiveRequest
  <1>3. CASE CommitCreate(r)
    BY <1>1, <1>2, <1>3 DEF TypeOK, Finish, CommitCreate
  <1>4. CASE CommitOpen(r) \/ CommitUpdate(r) \/ CommitDelete(r)
    BY <1>1, <1>2, <1>4 DEF TypeOK, Finish, CommitOpen, CommitUpdate, CommitDelete
  <1>5. QED
    BY <1>3, <1>4

\* The clock does not undo a guard, nor what the job selected.
LEMMA ElapseKeeps ==
  ASSUME TypeOK, NEW i \in Workers, Elapse(i)
  PROVE  /\ surprise[i] \in Row
         /\ surprise'[i] # None
         /\ surprise'[i].status = "locked"
         /\ surprise'[i].due
         /\ surprise'[i].sender = surprise[i].sender
         /\ surprise'[i].recipient = surprise[i].recipient
         /\ surprise'[i].couple = surprise[i].couple
         /\ surprise[i].status = "locked"
  <1>1. surprise[i] \in Row /\ surprise[i].status = "locked"
    BY DEF Elapse, Locked, Status, TypeOK
  <1> DEFINE row == [surprise[i] EXCEPT !.due = TRUE]
  <1>2. surprise'[i] = row
    BY <1>1 DEF Elapse, TypeOK
  <1>3. /\ row \in Row
        /\ row.status = "locked"
        /\ row.due
        /\ row.sender = surprise[i].sender
        /\ row.recipient = surprise[i].recipient
        /\ row.couple = surprise[i].couple
    BY <1>1 DEF Row
  <1> HIDE DEF row
  <1>4. QED
    BY <1>1, <1>2, <1>3, RowIsNotNone

\* A change of one row is a change of the surprise it shows.
LEMMA ShownStep ==
  ASSUME TypeOK, NEW i \in Workers, NEW s, surprise' = [surprise EXCEPT ![i] = s]
  PROVE  Shown' = [Shown EXCEPT ![i] = Seen(s)]
  BY DEF TypeOK, Shown

LEMMA ShownIs ==
  ASSUME NEW i \in Workers
  PROVE  Shown[i] = Seen(surprise[i])
  BY DEF Shown

LEMMA SeenIs ==
  ASSUME NEW s \in Row
  PROVE  /\ Seen(s) = [status |-> s.status, text |-> s.text, due |-> s.due]
         /\ Seen(s) # None
         /\ Seen(s).status = s.status
         /\ Seen(s).due = s.due
  <1>1. Seen(s) = [status |-> s.status, text |-> s.text, due |-> s.due]
    BY RowIsNotNone DEF Seen
  <1>2. [status |-> s.status, text |-> s.text, due |-> s.due] \in View
    BY DEF Row, View
  <1>3. QED
    BY <1>1, <1>2, NoneIsNotAValue

\* What the updates of a row show.
LEMMA SeenUpdate ==
  ASSUME NEW s \in Row, NEW t \in Texts
  PROVE  /\ Seen([s EXCEPT !.status = "opened", !.openedAt = TRUE])
              = [Seen(s) EXCEPT !.status = "opened"]
         /\ Seen([s EXCEPT !.status = "delivered"]) = [Seen(s) EXCEPT !.status = "delivered"]
         /\ Seen([s EXCEPT !.text = t]) = [Seen(s) EXCEPT !.text = t]
         /\ Seen([s EXCEPT !.due = TRUE])
              = [status |-> s.status, text |-> s.text, due |-> TRUE]
  <1> DEFINE part(m) == [status |-> m.status, text |-> m.text, due |-> m.due]
  <1>1. Seen(s) = part(s)
    BY SeenIs
  <1>2. Seen([s EXCEPT !.status = "opened", !.openedAt = TRUE])
          = [part(s) EXCEPT !.status = "opened"]
    <2> DEFINE new == [s EXCEPT !.status = "opened", !.openedAt = TRUE]
    <2>1. new \in Row /\ new.status = "opened" /\ new.text = s.text /\ new.due = s.due
      BY RowUpdate DEF Row
    <2> HIDE DEF new
    <2>2. Seen(new) = [status |-> "opened", text |-> s.text, due |-> s.due]
      BY <2>1, SeenIs
    <2>3. QED
      BY <2>2 DEF new
  <1>3. Seen([s EXCEPT !.status = "delivered"]) = [part(s) EXCEPT !.status = "delivered"]
    <2> DEFINE new == [s EXCEPT !.status = "delivered"]
    <2>1. new \in Row /\ new.status = "delivered" /\ new.text = s.text /\ new.due = s.due
      BY RowUpdate DEF Row
    <2> HIDE DEF new
    <2>2. Seen(new) = [status |-> "delivered", text |-> s.text, due |-> s.due]
      BY <2>1, SeenIs
    <2>3. QED
      BY <2>2 DEF new
  <1>4. Seen([s EXCEPT !.text = t]) = [part(s) EXCEPT !.text = t]
    <2> DEFINE new == [s EXCEPT !.text = t]
    <2>1. new \in Row /\ new.status = s.status /\ new.text = t /\ new.due = s.due
      BY RowUpdate DEF Row
    <2> HIDE DEF new
    <2>2. Seen(new) = [status |-> s.status, text |-> t, due |-> s.due]
      BY <2>1, SeenIs
    <2>3. QED
      BY <2>2 DEF new
  <1>5. Seen([s EXCEPT !.due = TRUE]) = [status |-> s.status, text |-> s.text, due |-> TRUE]
    <2> DEFINE new == [s EXCEPT !.due = TRUE]
    <2>1. new \in Row /\ new.status = s.status /\ new.text = s.text /\ new.due = TRUE
      BY RowUpdate DEF Row
    <2> HIDE DEF new
    <2>2. Seen(new) = [status |-> s.status, text |-> s.text, due |-> TRUE]
      BY <2>1, SeenIs
    <2>3. QED
      BY <2>2 DEF new
  <1> HIDE DEF part
  <1>6. QED
    BY <1>1, <1>2, <1>3, <1>4, <1>5

LEMMA CreateRefines ==
  ASSUME RowInv, NEW r \in Reqs, CommitCreate(r)
  PROVE  Lifecycle!Next
  <1>t. TypeOK
    BY DEF RowInv
  <1> DEFINE i == req[r].id
  <1>1. i \in Workers /\ req[r] # Idle /\ surprise[i] = None
    BY <1>t, CommitsOwnRow DEF CommitCreate
  <1>2. req[r].user \in Users /\ req[r].couple \in Couples /\ req[r].partner \in Users
    BY <1>t, <1>1, ActiveRequest
       DEF CommitCreate, Checked, RowInv, RecipientIsPartner
  <1>3. PICK t \in Texts, later \in BOOLEAN :
          surprise' = [surprise EXCEPT ![i] =
            [status |-> IF later THEN "locked" ELSE "delivered",
             sender |-> req[r].user, recipient |-> req[r].partner,
             couple |-> req[r].couple, text |-> t, due |-> ~later, openedAt |-> FALSE]]
    BY DEF CommitCreate
  <1> DEFINE new == [status |-> IF later THEN "locked" ELSE "delivered",
             sender |-> req[r].user, recipient |-> req[r].partner,
             couple |-> req[r].couple, text |-> t, due |-> ~later, openedAt |-> FALSE]
  <1>4. new \in Row
    BY <1>2 DEF Row
  <1>5. Seen(new) = [status |-> IF later THEN "locked" ELSE "delivered",
                     text |-> t, due |-> ~later]
    BY <1>4, SeenIs
  <1>6. surprise' = [surprise EXCEPT ![i] = new]
    BY <1>3
  <1> HIDE DEF new
  <1>7. Shown' = [Shown EXCEPT ![i] = Seen(new)] /\ Shown[i] = None
    BY <1>t, <1>1, <1>6, ShownStep, ShownIs DEF Seen
  <1>8. Lifecycle!Prepare(i, t)
    <2>1. CASE later
      <3>1. Seen(new) = Lifecycle!Prepared("locked", t, FALSE)
        BY <1>5, <2>1 DEF Lifecycle!Prepared
      <3>2. QED
        BY <1>7, <3>1 DEF Lifecycle!Prepare
    <2>2. CASE ~later
      <3>1. Seen(new) = Lifecycle!Prepared("delivered", t, TRUE)
        BY <1>5, <2>2 DEF Lifecycle!Prepared
      <3>2. QED
        BY <1>7, <3>1 DEF Lifecycle!Prepare
    <2>3. QED
      BY <2>1, <2>2
  <1>9. QED
    BY <1>1, <1>8 DEF Lifecycle!Next

LEMMA CommitRefines ==
  ASSUME TypeOK, NEW r \in Reqs, CommitOpen(r) \/ CommitUpdate(r) \/ CommitDelete(r),
         Fresh(r)
  PROVE  Lifecycle!Next
  <1>t. TypeOK
    OBVIOUS
  <1> DEFINE i == req[r].id
             old == surprise[i]
  <1>1. i \in Workers /\ May(req[r], old)
    BY <1>t, CommitsOwnRow
       DEF CommitOpen, CommitUpdate, CommitDelete, Checked, Fresh
  <1>2. old \in Row /\ Shown[i] = Seen(old)
    BY <1>t, <1>1, ShownIs DEF TypeOK, May
  <1>3. Shown[i] # None /\ Shown[i].status = old.status /\ Shown[i].due = old.due
    BY <1>2, SeenIs
  <1>4. PICK someText \in Texts : TRUE
    BY <1>2 DEF Row
  <1>5. CASE CommitOpen(r)
    <2> DEFINE new == [old EXCEPT !.status = "opened", !.openedAt = TRUE]
    <2>1. surprise' = [surprise EXCEPT ![i] = new]
      BY <1>5 DEF CommitOpen
    <2>2. Seen(new) = [Shown[i] EXCEPT !.status = "opened"]
      BY <1>2, <1>4, SeenUpdate
    <2> HIDE DEF new
    <2>3. Shown' = [Shown EXCEPT ![i] = [Shown[i] EXCEPT !.status = "opened"]]
      BY <1>t, <1>1, <2>1, <2>2, ShownStep
    <2>4. old.status = "delivered" \/ (old.status = "locked" /\ old.due)
      BY <1>1, <1>5 DEF CommitOpen, Checked, May, MayOpen
    <2>5. Lifecycle!Open(i)
      BY <1>3, <2>3, <2>4 DEF Lifecycle!Open, Lifecycle!Holds
    <2>6. QED
      BY <1>1, <2>5 DEF Lifecycle!Next
  <1>6. CASE CommitUpdate(r)
    <2>1. PICK t \in Texts : surprise' = [surprise EXCEPT ![i].text = t]
      BY <1>6 DEF CommitUpdate
    <2> DEFINE new == [old EXCEPT !.text = t]
    <2>2. surprise' = [surprise EXCEPT ![i] = new]
      BY <2>1
    <2>3. Seen(new) = [Shown[i] EXCEPT !.text = t]
      <3>1. old \in Row /\ Shown[i] = Seen(old)
        BY <1>2
      <3> HIDE DEF old
      <3>2. Seen([old EXCEPT !.text = t]) = [Seen(old) EXCEPT !.text = t]
        BY <3>1, SeenUpdate, Zenon
      <3>3. QED
        BY <3>1, <3>2
    <2> HIDE DEF new
    <2>4. Shown' = [Shown EXCEPT ![i] = [Shown[i] EXCEPT !.text = t]]
      BY <1>t, <1>1, <2>2, <2>3, ShownStep
    <2>5. old.status \in {"locked", "delivered"}
      BY <1>1, <1>2, <1>6 DEF CommitUpdate, Checked, May, MayEdit, Row
    <2>6. Lifecycle!Edit(i, t)
      BY <1>3, <2>4, <2>5 DEF Lifecycle!Edit, Lifecycle!Holds
    <2>7. QED
      BY <1>1, <2>6 DEF Lifecycle!Next
  <1>7. CASE CommitDelete(r)
    <2>1. surprise' = [surprise EXCEPT ![i] = None]
      BY <1>7 DEF CommitDelete
    <2>2. Shown' = [Shown EXCEPT ![i] = None]
      BY <1>t, <1>1, <2>1, ShownStep DEF Seen
    <2>3. old.status \in {"locked", "delivered"}
      BY <1>1, <1>2, <1>7 DEF CommitDelete, Checked, May, MayEdit, Row
    <2>4. Lifecycle!TakeBack(i)
      BY <1>3, <2>2, <2>3 DEF Lifecycle!TakeBack, Lifecycle!Holds
    <2>5. QED
      BY <1>1, <2>4 DEF Lifecycle!Next
  <1>8. QED
    BY <1>5, <1>6, <1>7

LEMMA JobRefines ==
  ASSUME TypeOK, NEW j \in Jobs, JobCommit(j), FreshBatch(j)
  PROVE  Lifecycle!Next
  <1>t. TypeOK
    OBVIOUS
  <1>1. job[j] \in SUBSET Workers
    BY <1>t DEF TypeOK
  <1>2. ASSUME NEW i \in job[j]
        PROVE  /\ surprise[i] \in Row
               /\ Lifecycle!Holds(i, {"locked"})
               /\ Shown[i].due
    <2>1. i \in Workers /\ surprise[i] # None /\ surprise[i].status = "locked" /\ surprise[i].due
      BY <1>1 DEF FreshBatch, DueLocked, Locked, Status
    <2>2. surprise[i] \in Row /\ Shown[i] = Seen(surprise[i])
      BY <1>t, <2>1, ShownIs DEF TypeOK
    <2>3. QED
      BY <2>1, <2>2, SeenIs DEF Lifecycle!Holds
  <1>3. ASSUME NEW i \in Workers
        PROVE  Seen(surprise'[i]) = IF i \in job[j]
                                    THEN [Shown[i] EXCEPT !.status = "delivered"]
                                    ELSE Shown[i]
    <2> DEFINE s == surprise[i]
               new == [s EXCEPT !.status = "delivered"]
    <2>1. surprise'[i] = IF i \in job[j] /\ s # None THEN new ELSE s
      BY DEF JobCommit
    <2>2. Shown[i] = Seen(s)
      BY ShownIs
    <2>3. CASE i \in job[j]
      <3>1. s \in Row
        BY <1>2, <2>3
      <3>2. PICK t \in Texts : TRUE
        BY <3>1 DEF Row
      <3>3. Seen(new) = [Seen(s) EXCEPT !.status = "delivered"]
        BY <3>1, <3>2, SeenUpdate
      <3>4. surprise'[i] = new
        BY <2>1, <2>3, <3>1, RowIsNotNone
      <3> HIDE DEF new, s
      <3>5. QED
        BY <2>2, <2>3, <3>3, <3>4
    <2>4. CASE i \notin job[j]
      BY <2>1, <2>2, <2>4
    <2>5. QED
      BY <2>3, <2>4
  <1>4. Shown' = [i \in Workers |-> Seen(surprise'[i])]
    BY DEF Shown
  <1>5. Lifecycle!Deliver(job[j])
    BY <1>2, <1>3, <1>4 DEF Lifecycle!Deliver
  <1>6. QED
    BY <1>1, <1>5 DEF Lifecycle!Next

LEMMA ElapseRefines ==
  ASSUME TypeOK, NEW i \in Workers, Elapse(i)
  PROVE  Lifecycle!Next
  <1> DEFINE old == surprise[i]
             new == [old EXCEPT !.due = TRUE]
  <1>1. old \in Row /\ old.status = "locked"
    BY ElapseKeeps
  <1>2. /\ Shown[i] = Seen(old)
        /\ Shown[i] # None
        /\ Shown[i].status = "locked"
        /\ Shown[i].text = old.text
    BY <1>1, ShownIs, SeenIs
  <1>3. PICK t \in Texts : TRUE
    BY <1>1 DEF Row
  <1>4. Seen(new) = Lifecycle!Prepared("locked", Shown[i].text, TRUE)
    BY <1>1, <1>2, <1>3, SeenUpdate DEF Lifecycle!Prepared
  <1>5. surprise' = [surprise EXCEPT ![i] = new]
    BY DEF Elapse
  <1> HIDE DEF new
  <1>6. Shown' = [Shown EXCEPT ![i] = Lifecycle!Prepared("locked", Shown[i].text, TRUE)]
    BY <1>4, <1>5, ShownStep
  <1>7. Lifecycle!Elapse(i)
    BY <1>2, <1>6 DEF Lifecycle!Elapse, Lifecycle!Holds
  <1>8. QED
    BY <1>7 DEF Lifecycle!Next

\* A step that commits nothing stale is a step of SurpriseLifecycle.
LEMMA FreshRefines ==
  ASSUME RowInv, [Next]_vars,
         \A r \in Reqs : req[r].pc = "checked" /\ req'[r] # req[r] => Fresh(r),
         \A j \in Jobs : job[j] # {} /\ job'[j] # job[j] => FreshBatch(j)
  PROVE  [Lifecycle!Next]_Shown
  <1>t. TypeOK
    BY DEF RowInv
  <1> SUFFICES ASSUME surprise' # surprise
               PROVE  Lifecycle!Next
    BY DEF Shown
  <1>1. ASSUME NEW r \in Reqs, CommitOpen(r) \/ CommitUpdate(r) \/ CommitDelete(r)
        PROVE  Lifecycle!Next
    <2>1. req[r] # Idle /\ req' = [req EXCEPT ![r] = Idle]
      BY <1>1, <1>t, CommitsOwnRow
    <2>2. req'[r] # req[r] /\ req[r].pc = "checked"
      BY <1>1, <1>t, <2>1 DEF TypeOK, CommitOpen, CommitUpdate, CommitDelete, Checked
    <2>3. QED
      BY <1>1, <1>t, <2>2, CommitRefines
  <1>2. ASSUME NEW j \in Jobs, JobCommit(j)
        PROVE  Lifecycle!Next
    <2>1. job[j] # {} /\ job'[j] # job[j]
      BY <1>2, <1>t DEF JobCommit, TypeOK
    <2>2. QED
      BY <1>2, <1>t, <2>1, JobRefines
  <1>3. QED
    BY <1>t, <1>1, <1>2, CreateRefines, ElapseRefines
       DEF Next, vars, Load, FindPartner, FindSurprise, Refuse, Abort, JobRead, JobAbort

\* In every interleaving of requests, runs of the job and the clock, whoever
\* commits what it read unchanged takes a step of module SurpriseLifecycle.
THEOREM LifecycleKeptUnlessStale == Spec => LifecycleUnlessStale
  <1>1. RowInv /\ [Next]_vars =>
          [/\ \A r \in Reqs : req[r].pc = "checked" /\ req'[r] # req[r] => Fresh(r)
           /\ \A j \in Jobs : job[j] # {} /\ job'[j] # job[j] => FreshBatch(j)
           => [Lifecycle!Next]_Shown]_vars
    BY FreshRefines
  <1>2. QED
    BY <1>1, RowInvariant, PTL DEF Spec, LifecycleUnlessStale

-----------------------------------------------------------------------------
(***************************************************************************)
(* Early surprises.  What is due stays due as long as the row is the same, *)
(* and both guards ask for a surprise that is due or delivered already.    *)
(***************************************************************************)

\* A row that was not early has a reason to be: it does not exist, is due or locked.
LEMMA NotEarlyIs ==
  ASSUME TypeOK, NEW i \in Workers, ~Early(i), surprise[i] # None
  PROVE  /\ surprise[i] \in Row
         /\ surprise[i].due \in BOOLEAN
         /\ surprise[i].due \/ Locked(i)
  <1>1. surprise[i] \in Row
    BY DEF TypeOK
  <1>2. QED
    BY <1>1 DEF Early, Locked, Status, Row

LEMMA EarlyStep ==
  ASSUME RowInv, [Next]_vars, NEW i \in Workers, Early(i)', ~Early(i)
  PROVE  /\ Locked(i)
         /\ \/ \E r \in Reqs : Checked(r, "open") /\ req[r].id = i /\ ~Fresh(r)
            \/ \E j \in Jobs : i \in job[j] /\ job'[j] = {} /\ ~FreshBatch(j)
  <1>t. TypeOK
    BY DEF RowInv
  <1>e. /\ surprise'[i] # None
        /\ surprise'[i].status \in {"delivered", "opened"}
        /\ ~surprise'[i].due
        /\ surprise'[i] # surprise[i]
    BY DEF Early, Status
  <1>1. ASSUME NEW r \in Reqs, CommitCreate(r)
        PROVE  FALSE
    <2>1. PICK t \in Texts, later \in BOOLEAN :
            surprise' = [surprise EXCEPT ![req[r].id] =
              [status |-> IF later THEN "locked" ELSE "delivered",
               sender |-> req[r].user, recipient |-> req[r].partner,
               couple |-> req[r].couple, text |-> t, due |-> ~later, openedAt |-> FALSE]]
      BY <1>1 DEF CommitCreate
    <2>2. i = req[r].id
      BY <1>1, <1>e, <1>t, CommitsOwnRow
    <2>3. /\ surprise'[i].status = IF later THEN "locked" ELSE "delivered"
          /\ surprise'[i].due = ~later
      BY <2>1, <2>2, <1>t DEF TypeOK
    <2>4. QED
      BY <1>e, <2>3
  <1>2. ASSUME NEW r \in Reqs, CommitUpdate(r)
        PROVE  FALSE
    <2>1. i = req[r].id /\ surprise[i] # None
      BY <1>2, <1>e, <1>t, CommitsOwnRow DEF CommitUpdate
    <2>2. PICK t \in Texts : surprise' = [surprise EXCEPT ![i].text = t]
      BY <1>2, <2>1 DEF CommitUpdate
    <2> DEFINE row == [surprise[i] EXCEPT !.text = t]
    <2>3. row.due = surprise[i].due /\ row.status = surprise[i].status
      BY <2>1, <1>t, NotEarlyIs DEF Row
    <2>4. surprise'[i] = row
      BY <2>2, <1>t DEF TypeOK
    <2> HIDE DEF row
    <2>5. QED
      BY <1>e, <2>1, <2>3, <2>4 DEF Early, Status
  <1>3. ASSUME NEW r \in Reqs, CommitOpen(r)
        PROVE  Locked(i) /\ Checked(r, "open") /\ req[r].id = i /\ ~Fresh(r)
    <2>1. i = req[r].id /\ surprise[i] # None /\ Checked(r, "open")
      BY <1>3, <1>e, <1>t, CommitsOwnRow DEF CommitOpen
    <2> DEFINE row == [surprise[i] EXCEPT !.status = "opened", !.openedAt = TRUE]
    <2>2. row.due = surprise[i].due
      BY <2>1, <1>t, NotEarlyIs DEF Row
    <2>3. surprise'[i] = row
      BY <1>3, <2>1, <1>t DEF CommitOpen, TypeOK
    <2> HIDE DEF row
    <2>4. ~surprise[i].due /\ Locked(i)
      BY <1>e, <2>1, <2>2, <2>3, <1>t, NotEarlyIs
    <2>5. ~Fresh(r)
      BY <2>1, <2>4 DEF Fresh, Checked, May, MayOpen, Locked, Status
    <2>6. QED
      BY <2>1, <2>4, <2>5
  <1>4. ASSUME NEW j \in Jobs, JobCommit(j)
        PROVE  Locked(i) /\ i \in job[j] /\ job'[j] = {} /\ ~FreshBatch(j)
    <2> DEFINE row == [surprise[i] EXCEPT !.status = "delivered"]
    <2>1. i \in job[j] /\ surprise[i] # None /\ surprise'[i] = row
      BY <1>4, <1>e DEF JobCommit
    <2>2. row.due = surprise[i].due
      BY <2>1, <1>t, NotEarlyIs DEF Row
    <2> HIDE DEF row
    <2>3. ~surprise[i].due /\ Locked(i)
      BY <1>e, <2>1, <2>2, <1>t, NotEarlyIs
    <2>4. ~FreshBatch(j)
      BY <2>1, <2>3 DEF FreshBatch, DueLocked
    <2>5. job'[j] = {}
      BY <1>4, <1>t DEF JobCommit, TypeOK
    <2>6. QED
      BY <2>1, <2>3, <2>4, <2>5
  <1>5. ASSUME NEW r \in Reqs, CommitDelete(r)
        PROVE  FALSE
    BY <1>5, <1>e, <1>t, CommitsOwnRow DEF CommitDelete, TypeOK
  <1>6. ASSUME NEW k \in Workers, Elapse(k)
        PROVE  FALSE
    <2>1. i = k
      BY <1>6, <1>e DEF Elapse, TypeOK
    <2>2. QED
      BY <1>6, <1>e, <2>1, <1>t, ElapseKeeps
  <1>7. surprise' # surprise
    BY <1>e
  <1>8. QED
    BY <1>1, <1>2, <1>3, <1>4, <1>5, <1>6, <1>7
       DEF Next, vars, Load, FindPartner, FindSurprise, Refuse, Abort, JobRead, JobAbort

\* In every interleaving of requests, runs of the job and the clock, a surprise is
\* delivered or opened early only by whoever had read another one under the same id.
THEOREM IsEarlyOnlyIfReplaced == Spec => EarlyOnlyIfReplaced
  <1> DEFINE Replaced(i) ==
        /\ Locked(i)
        /\ \/ \E r \in Reqs : Checked(r, "open") /\ req[r].id = i /\ ~Fresh(r)
           \/ \E j \in Jobs : i \in job[j] /\ job'[j] = {} /\ ~FreshBatch(j)
  <1>1. RowInv /\ [Next]_vars =>
          [\A i \in Workers : Early(i)' /\ ~Early(i) => Replaced(i)]_surprise
    BY EarlyStep
  <1>2. QED
    BY <1>1, RowInvariant, PTL DEF Spec, EarlyOnlyIfReplaced

===============================================================================
