---------------------------- MODULE LettersProofs ----------------------------
(***************************************************************************)
(* What module Letters guarantees for every number of users, couples,      *)
(* processes and overlapping requests.                                     *)
(***************************************************************************)
EXTENDS Letters, TLAPS

LEMMA IdleRequest == Idle \in Request /\ Idle.pc = "idle"
  BY DEF Request, Idle

\* The fields of a request in progress.
LEMMA ActiveRequest ==
  ASSUME TypeOK, NEW r \in Reqs, req[r] # Idle
  PROVE  /\ req[r] \in [pc : {"loaded", "checked"}, op : Ops, user : Users,
                        couple : Couples, id : Workers, partner : Users \union {None}]
         /\ req[r].pc \in {"loaded", "checked"}
         /\ req[r].op \in Ops
         /\ req[r].user \in Users
         /\ req[r].couple \in Couples
         /\ req[r].id \in Workers
  BY DEF TypeOK, Request

(***************************************************************************)
(* Types and rows.  The row of a new draft takes its recipient from the    *)
(* request, so the recipient a request carries is part of the invariant.   *)
(***************************************************************************)

RecipientIsPartner ==
    \A r \in Reqs : req[r].pc = "checked" /\ req[r].op = "create" =>
        req[r].partner \in Users \ {req[r].user}

RowInv == TypeOK /\ RecipientIsPartner /\ RowsAgree

LEMMA RowInit == Init => RowInv
  <1> SUFFICES ASSUME Init PROVE RowInv
    OBVIOUS
  <1>1. TypeOK
    BY IdleRequest DEF Init, TypeOK
  <1>2. RecipientIsPartner /\ RowsAgree
    BY IdleRequest DEF Init, RecipientIsPartner, RowsAgree
  <1>3. QED
    BY <1>1, <1>2 DEF RowInv

\* A row is rewritten in its status and one timestamp only.
LEMMA RowUpdate ==
  ASSUME NEW l \in Row
  PROVE  /\ [l EXCEPT !.status = "sent", !.sentAt = TRUE] \in Row
         /\ [l EXCEPT !.status = "read", !.readAt = TRUE] \in Row
  BY DEF Row

LEMMA RowStep ==
  ASSUME RowInv, [Next]_vars
  PROVE  RowInv'
  <1> USE IdleRequest DEF RowInv
  <1>1. ASSUME NEW r \in Reqs, NEW op \in Ops, NEW u \in Users, NEW i \in Workers,
               Load(r, op, u, i)
        PROVE  RowInv'
    <2>1. coupleOf[u] \in Couples
      BY <1>1 DEF Load, TypeOK
    <2>2. [pc |-> "loaded", op |-> op, user |-> u, couple |-> coupleOf[u],
           id |-> i, partner |-> None] \in Request
      BY <2>1 DEF Request
    <2>3. TypeOK'
      BY <1>1, <2>2 DEF Load, TypeOK
    <2>4. RecipientIsPartner' /\ RowsAgree'
      BY <1>1 DEF Load, TypeOK, RecipientIsPartner, RowsAgree
    <2>5. QED
      BY <2>3, <2>4
  <1>2. ASSUME NEW r \in Reqs, FindPartner(r)
        PROVE  RowInv'
    <2>1. req[r] # Idle
      BY <1>2 DEF FindPartner
    <2>2. PICK v \in Partners(req[r]) :
            req' = [req EXCEPT ![r] = [req[r] EXCEPT !.pc = "checked", !.partner = v]]
      BY <1>2 DEF FindPartner
    <2>3. v \in Users \ {req[r].user}
      BY DEF Partners
    <2>4. /\ [req[r] EXCEPT !.pc = "checked", !.partner = v] \in Request
          /\ [req[r] EXCEPT !.pc = "checked", !.partner = v].partner = v
          /\ [req[r] EXCEPT !.pc = "checked", !.partner = v].user = req[r].user
      BY <2>1, <2>3, ActiveRequest DEF Request
    <2>5. TypeOK'
      BY <1>2, <2>2, <2>4 DEF FindPartner, TypeOK
    <2>6. RecipientIsPartner' /\ RowsAgree'
      BY <1>2, <2>2, <2>3, <2>4 DEF FindPartner, TypeOK, RecipientIsPartner, RowsAgree
    <2>7. QED
      BY <2>5, <2>6
  <1>3. ASSUME NEW r \in Reqs, FindLetter(r)
        PROVE  RowInv'
    <2>1. req[r] # Idle
      BY <1>3 DEF FindLetter
    <2>2. /\ [req[r] EXCEPT !.pc = "checked"] \in Request
          /\ [req[r] EXCEPT !.pc = "checked"].op = req[r].op
      BY <2>1, ActiveRequest DEF Request
    <2>3. TypeOK'
      BY <1>3, <2>2 DEF FindLetter, TypeOK
    <2>4. RecipientIsPartner' /\ RowsAgree'
      BY <1>3, <2>2 DEF FindLetter, TypeOK, RecipientIsPartner, RowsAgree
    <2>5. QED
      BY <2>3, <2>4
  <1>4. ASSUME NEW r \in Reqs, CommitDraft(r)
        PROVE  RowInv'
    <2> DEFINE row == [status |-> "draft", author |-> req[r].user,
                       recipient |-> req[r].partner, couple |-> req[r].couple,
                       sentAt |-> FALSE, readAt |-> FALSE]
    <2>1. req[r] # Idle
      BY <1>4 DEF CommitDraft, Checked
    <2>2. req[r].partner \in Users \ {req[r].user}
      BY <1>4 DEF CommitDraft, Checked, RecipientIsPartner
    <2>3. row \in Row
      BY <2>1, <2>2, ActiveRequest DEF Row
    <2>4. letter' = [letter EXCEPT ![req[r].id] = row] /\ Finish(r) /\ coupleOf' = coupleOf
      BY <1>4 DEF CommitDraft
    <2>5. row.author # row.recipient /\ row.status = "draft" /\ ~row.sentAt /\ ~row.readAt
      BY <2>2
    <2> HIDE DEF row
    <2>6. TypeOK'
      BY <2>1, <2>3, <2>4, ActiveRequest DEF Finish, TypeOK
    <2>7. RecipientIsPartner'
      BY <2>4 DEF Finish, TypeOK, RecipientIsPartner
    <2>8. RowsAgree'
      BY <2>1, <2>4, <2>5, ActiveRequest DEF RowsAgree, TypeOK
    <2>9. QED
      BY <2>6, <2>7, <2>8
  <1>5. ASSUME NEW r \in Reqs, CommitSend(r)
        PROVE  RowInv'
    <2> DEFINE old == letter[req[r].id]
               row == [old EXCEPT !.status = "sent", !.sentAt = TRUE]
    <2>1. req[r] # Idle /\ req[r].id \in Workers
      BY <1>5, ActiveRequest DEF CommitSend, Checked
    <2>2. old \in Row /\ old.author # old.recipient
      BY <1>5, <2>1 DEF CommitSend, TypeOK, RowsAgree
    <2>3. letter' = [letter EXCEPT ![req[r].id] = row] /\ Finish(r) /\ coupleOf' = coupleOf
      BY <1>5 DEF CommitSend
    <2>4. row \in Row /\ row.author # row.recipient /\ row.status = "sent" /\ row.sentAt
      BY <2>2 DEF Row
    <2> HIDE DEF row, old
    <2>5. TypeOK'
      BY <2>1, <2>3, <2>4 DEF Finish, TypeOK
    <2>6. RecipientIsPartner'
      BY <2>3 DEF Finish, TypeOK, RecipientIsPartner
    <2>7. RowsAgree'
      BY <2>1, <2>3, <2>4 DEF RowsAgree, TypeOK
    <2>8. QED
      BY <2>5, <2>6, <2>7
  <1>6. ASSUME NEW r \in Reqs, CommitRead(r)
        PROVE  RowInv'
    <2> DEFINE old == letter[req[r].id]
               row == [old EXCEPT !.status = "read", !.readAt = TRUE]
    <2>1. req[r] # Idle /\ req[r].id \in Workers
      BY <1>6, ActiveRequest DEF CommitRead, Checked
    <2>2. old \in Row /\ old.author # old.recipient
      BY <1>6, <2>1 DEF CommitRead, TypeOK, RowsAgree
    <2>3. letter' = [letter EXCEPT ![req[r].id] = row] /\ Finish(r) /\ coupleOf' = coupleOf
      BY <1>6 DEF CommitRead
    <2>4. row \in Row /\ row.author # row.recipient /\ row.status = "read" /\ row.readAt
      BY <2>2 DEF Row
    <2> HIDE DEF row, old
    <2>5. TypeOK'
      BY <2>1, <2>3, <2>4 DEF Finish, TypeOK
    <2>6. RecipientIsPartner'
      BY <2>3 DEF Finish, TypeOK, RecipientIsPartner
    <2>7. RowsAgree'
      BY <2>1, <2>3, <2>4 DEF RowsAgree, TypeOK
    <2>8. QED
      BY <2>5, <2>6, <2>7
  <1>7. ASSUME NEW r \in Reqs, CommitDelete(r)
        PROVE  RowInv'
    <2>1. req[r] # Idle /\ req[r].id \in Workers
      BY <1>7, ActiveRequest DEF CommitDelete, Checked
    <2>2. QED
      BY <1>7, <2>1 DEF CommitDelete, Finish, TypeOK, RecipientIsPartner, RowsAgree
  <1>8. ASSUME NEW r \in Reqs, Refuse(r) \/ Abort(r)
        PROVE  RowInv'
    <2>1. Finish(r) /\ UNCHANGED <<coupleOf, letter>>
      BY <1>8 DEF Refuse, Abort
    <2>2. QED
      BY <2>1 DEF Finish, TypeOK, RecipientIsPartner, RowsAgree
  <1>9. CASE UNCHANGED vars
    BY <1>9 DEF vars, TypeOK, RecipientIsPartner, RowsAgree
  <1>10. QED
    BY <1>1, <1>2, <1>3, <1>4, <1>5, <1>6, <1>7, <1>8, <1>9 DEF Next

LEMMA RowInvariant == Spec => []RowInv
  BY RowInit, RowStep, PTL DEF Spec

\* Every request reads and writes values of the declared types.
THEOREM TypeCorrect == Spec => []TypeOK
  <1>1. RowInv => TypeOK
    BY DEF RowInv
  <1>2. QED
    BY <1>1, RowInvariant, PTL

\* However requests overlap, a draft carries no timestamp, a sent letter has its
\* sent_at, a read one its read_at, and no letter is addressed to its author.
THEOREM RowsAlwaysAgree == Spec => []RowsAgree
  <1>1. RowInv => RowsAgree
    BY DEF RowInv
  <1>2. QED
    BY <1>1, RowInvariant, PTL

-----------------------------------------------------------------------------
(***************************************************************************)
(* Commits.  Whoever commits while its guard still holds takes a step of   *)
(* LetterLifecycle.                                                        *)
(***************************************************************************)

\* A commit writes the row of its own request only.
LEMMA CommitsOwnRow ==
  ASSUME TypeOK, NEW r \in Reqs,
         CommitDraft(r) \/ CommitSend(r) \/ CommitRead(r) \/ CommitDelete(r)
  PROVE  /\ req[r] # Idle
         /\ req[r].id \in Workers
         /\ \A i \in Workers \ {req[r].id} : letter'[i] = letter[i]
         /\ req' = [req EXCEPT ![r] = Idle]
  <1>1. req[r] # Idle
    BY IdleRequest DEF CommitDraft, CommitSend, CommitRead, CommitDelete, Checked
  <1>2. req[r].id \in Workers
    BY <1>1, ActiveRequest
  <1>3. QED
    BY <1>1, <1>2 DEF TypeOK, Finish, CommitDraft, CommitSend, CommitRead, CommitDelete

\* A change of one row is a change of the letter it shows.
LEMMA ShownStep ==
  ASSUME TypeOK, NEW i \in Workers, NEW l, letter' = [letter EXCEPT ![i] = l]
  PROVE  Shown' = [Shown EXCEPT ![i] = Seen(l)]
  BY DEF TypeOK, Shown

LEMMA ShownIs ==
  ASSUME NEW i \in Workers
  PROVE  Shown[i] = Seen(letter[i])
  BY DEF Shown

\* What two updates of a row show.
LEMMA SeenUpdate ==
  ASSUME NEW l \in Row
  PROVE  /\ Seen(l) # None
         /\ Seen(l).status = l.status
         /\ Seen([l EXCEPT !.status = "sent", !.sentAt = TRUE])
              = [Seen(l) EXCEPT !.status = "sent"]
         /\ Seen([l EXCEPT !.status = "read", !.readAt = TRUE])
              = [Seen(l) EXCEPT !.status = "read"]
  <1> DEFINE sent == [l EXCEPT !.status = "sent", !.sentAt = TRUE]
             read == [l EXCEPT !.status = "read", !.readAt = TRUE]
             part(m) == [status |-> m.status, author |-> m.author, recipient |-> m.recipient]
  <1>1. l # None /\ sent # None /\ read # None
    BY RowUpdate, NoneIsNotAValue
  <1>2. Seen(l) = part(l) /\ Seen(sent) = part(sent) /\ Seen(read) = part(read)
    BY <1>1 DEF Seen
  <1>3. /\ sent.status = "sent" /\ sent.author = l.author /\ sent.recipient = l.recipient
        /\ read.status = "read" /\ read.author = l.author /\ read.recipient = l.recipient
    BY DEF Row
  <1>4. part(l) # None
    <2>1. part(l) \in Letter
      BY DEF Row, Letter
    <2>2. QED
      BY <2>1, NoneIsNotAValue
  <1>5. QED
    BY <1>2, <1>3, <1>4

\* A step that commits no stale request is a step of LetterLifecycle.
LEMMA FreshRefines ==
  ASSUME RowInv, [Next]_vars,
         \A r \in Reqs : req[r].pc = "checked" /\ req'[r] # req[r] => Fresh(r)
  PROVE  [Lifecycle!Next]_Shown
  <1>t. TypeOK
    BY DEF RowInv
  <1>1. ASSUME NEW r \in Reqs, CommitDraft(r)
        PROVE  Lifecycle!Next
    <2> DEFINE i == req[r].id
               new == [status |-> "draft", author |-> req[r].user,
                       recipient |-> req[r].partner, couple |-> req[r].couple,
                       sentAt |-> FALSE, readAt |-> FALSE]
    <2>1. i \in Workers /\ req[r] # Idle /\ letter[i] = None
      BY <1>1, <1>t, CommitsOwnRow DEF CommitDraft
    <2>2. req[r].user \in Users /\ req[r].couple \in Couples
          /\ req[r].partner \in Users \ {req[r].user}
      BY <1>1, <1>t, <2>1, ActiveRequest
         DEF CommitDraft, Checked, RowInv, RecipientIsPartner
    <2>3. new \in Row
      BY <2>2 DEF Row
    <2>4. Seen(new) = [status |-> "draft", author |-> req[r].user,
                       recipient |-> req[r].partner]
      BY <2>3, NoneIsNotAValue DEF Seen
    <2>5. letter' = [letter EXCEPT ![i] = new]
      BY <1>1 DEF CommitDraft
    <2> HIDE DEF new
    <2>6. Shown' = [Shown EXCEPT ![i] = Seen(new)]
      BY <1>t, <2>1, <2>5, ShownStep
    <2>7. Shown[i] = None
      BY <2>1, ShownIs DEF Seen
    <2>8. Lifecycle!Write(i, req[r].user, req[r].partner)
      BY <2>2, <2>4, <2>6, <2>7 DEF Lifecycle!Write
    <2>9. QED
      BY <2>1, <2>2, <2>8 DEF Lifecycle!Next
  <1>2. ASSUME NEW r \in Reqs, CommitSend(r) \/ CommitRead(r) \/ CommitDelete(r)
        PROVE  Lifecycle!Next
    <2> DEFINE i == req[r].id
               old == letter[i]
    <2>1. i \in Workers /\ May(req[r], old)
      <3>1. /\ i \in Workers
            /\ req[r] # Idle
            /\ req' = [req EXCEPT ![r] = Idle]
        BY <1>2, <1>t, CommitsOwnRow
      <3>2. req'[r] # req[r]
        BY <3>1, <1>t DEF TypeOK
      <3>3. QED
        BY <1>2, <3>1, <3>2 DEF CommitSend, CommitRead, CommitDelete, Checked, Fresh
    <2>2. old \in Row /\ Shown[i] = Seen(old)
      BY <1>t, <2>1, ShownIs DEF TypeOK, May
    <2>3. Shown[i] # None /\ Shown[i].status = old.status
      BY <2>2, SeenUpdate
    <2>4. CASE CommitSend(r)
      <3>1. letter' = [letter EXCEPT ![i] = [old EXCEPT !.status = "sent", !.sentAt = TRUE]]
        BY <2>4 DEF CommitSend
      <3>2. Shown' = [Shown EXCEPT ![i] = [Shown[i] EXCEPT !.status = "sent"]]
        <4> DEFINE new == [old EXCEPT !.status = "sent", !.sentAt = TRUE]
        <4>1. Seen(new) = [Shown[i] EXCEPT !.status = "sent"]
          BY <2>2, SeenUpdate
        <4>2. letter' = [letter EXCEPT ![i] = new]
          BY <3>1
        <4> HIDE DEF new
        <4>3. Shown' = [Shown EXCEPT ![i] = Seen(new)]
          BY <1>t, <2>1, <4>2, ShownStep
        <4>4. QED
          BY <4>1, <4>3
      <3>3. old.status = "draft"
        BY <2>1, <2>4 DEF CommitSend, Checked, May, MaySend
      <3>4. Lifecycle!Send(i)
        BY <2>3, <3>2, <3>3 DEF Lifecycle!Send, Lifecycle!Holds
      <3>5. QED
        BY <2>1, <3>4 DEF Lifecycle!Next
    <2>5. CASE CommitRead(r)
      <3>1. letter' = [letter EXCEPT ![i] = [old EXCEPT !.status = "read", !.readAt = TRUE]]
        BY <2>5 DEF CommitRead
      <3>2. Shown' = [Shown EXCEPT ![i] = [Shown[i] EXCEPT !.status = "read"]]
        <4> DEFINE new == [old EXCEPT !.status = "read", !.readAt = TRUE]
        <4>1. Seen(new) = [Shown[i] EXCEPT !.status = "read"]
          BY <2>2, SeenUpdate
        <4>2. letter' = [letter EXCEPT ![i] = new]
          BY <3>1
        <4> HIDE DEF new
        <4>3. Shown' = [Shown EXCEPT ![i] = Seen(new)]
          BY <1>t, <2>1, <4>2, ShownStep
        <4>4. QED
          BY <4>1, <4>3
      <3>3. old.status = "sent"
        BY <2>1, <2>5 DEF CommitRead, Checked, May, MayRead
      <3>4. Lifecycle!Read(i)
        BY <2>3, <3>2, <3>3 DEF Lifecycle!Read, Lifecycle!Holds
      <3>5. QED
        BY <2>1, <3>4 DEF Lifecycle!Next
    <2>6. CASE CommitDelete(r)
      <3>1. letter' = [letter EXCEPT ![i] = None]
        BY <2>6 DEF CommitDelete
      <3>2. Shown' = [Shown EXCEPT ![i] = None]
        BY <1>t, <2>1, <3>1, ShownStep DEF Seen
      <3>3. old.status = "draft"
        BY <2>1, <2>6 DEF CommitDelete, Checked, May, MayDelete
      <3>4. Lifecycle!Discard(i)
        BY <2>3, <3>2, <3>3 DEF Lifecycle!Discard, Lifecycle!Holds
      <3>5. QED
        BY <2>1, <3>4 DEF Lifecycle!Next
    <2>7. QED
      BY <1>2, <2>4, <2>5, <2>6
  <1>3. ASSUME letter' = letter
        PROVE  Shown' = Shown
    BY <1>3 DEF Shown
  <1>4. QED
    BY <1>1, <1>2, <1>3
       DEF Next, vars, Load, FindPartner, FindLetter, Refuse, Abort

\* In every interleaving, whoever commits on a letter that still passes the guard
\* takes a step of module LetterLifecycle.
THEOREM LifecycleKeptUnlessStale == Spec => LifecycleUnlessStale
  <1>1. RowInv /\ [Next]_vars =>
          [(\A r \in Reqs : req[r].pc = "checked" /\ req'[r] # req[r] => Fresh(r))
            => [Lifecycle!Next]_Shown]_vars
    BY FreshRefines
  <1>2. QED
    BY <1>1, RowInvariant, PTL DEF Spec, LifecycleUnlessStale

-----------------------------------------------------------------------------
(***************************************************************************)
(* Letters read before they were sent.  A send always leaves sent_at, and  *)
(* a letter that is sent has it (RowsAgree), so only a mark_read that      *)
(* meets a draft can do it; and its guard has never admitted a draft.      *)
(***************************************************************************)

LEMMA ReadStep ==
  ASSUME RowInv, [Next]_vars, NEW i \in Workers, letter'[i] # None, letter'[i] # letter[i],
         letter'[i].status = "read", ~letter'[i].sentAt
  PROVE  /\ letter[i] # None
         /\ letter[i].status = "draft"
         /\ \E r \in Reqs : Checked(r, "read") /\ req[r].id = i /\ ~Fresh(r)
  <1>t. TypeOK /\ RowsAgree
    BY DEF RowInv
  <1>1. ASSUME NEW r \in Reqs, req[r].id = i, CommitDraft(r) \/ CommitSend(r) \/ CommitDelete(r)
        PROVE  FALSE
    <2>1. letter[i] \in Row \union {None}
      BY <1>t DEF TypeOK
    <2>2. CASE CommitDraft(r)
      BY <2>2, <1>1, <1>t DEF CommitDraft, TypeOK
    <2>3. CASE CommitSend(r)
      <3>1. letter'[i] = [letter[i] EXCEPT !.status = "sent", !.sentAt = TRUE]
        BY <2>3, <1>1, <1>t DEF CommitSend, TypeOK
      <3>2. letter[i] \in Row
        BY <2>1, <2>3, <1>1 DEF CommitSend
      <3>3. QED
        BY <3>1, <3>2 DEF Row
    <2>4. CASE CommitDelete(r)
      BY <2>4, <1>1, <1>t DEF CommitDelete, TypeOK
    <2>5. QED
      BY <1>1, <2>2, <2>3, <2>4
  <1>2. ASSUME NEW r \in Reqs, req[r].id = i, CommitRead(r)
        PROVE  /\ letter[i] # None
               /\ letter[i].status = "draft"
               /\ Checked(r, "read") /\ ~Fresh(r)
    <2>1. letter'[i] = [letter[i] EXCEPT !.status = "read", !.readAt = TRUE]
      BY <1>2, <1>t DEF CommitRead, TypeOK
    <2>2. letter[i] \in Row /\ letter[i] # None
      BY <1>2, <1>t DEF CommitRead, TypeOK
    <2>3. letter'[i].sentAt = letter[i].sentAt
      BY <2>1, <2>2 DEF Row
    <2>4. letter[i].status # "sent"
      BY <2>2, <2>3, <1>t DEF RowsAgree
    <2>5. letter[i].status # "read"
      <3> SUFFICES ASSUME letter[i].status = "read" PROVE FALSE
        OBVIOUS
      <3>1. letter[i].readAt = TRUE
        BY <2>2, <1>t DEF RowsAgree, Row
      <3>2. letter'[i] = letter[i]
        BY <2>1, <2>2, <3>1 DEF Row
      <3>3. QED
        BY <3>2
    <2>6. letter[i].status = "draft"
      BY <2>2, <2>4, <2>5 DEF Row
    <2>7. Checked(r, "read")
      BY <1>2 DEF CommitRead
    <2>8. ~Fresh(r)
      BY <1>2, <2>4, <2>7 DEF Fresh, May, MayRead, Checked
    <2>9. QED
      BY <2>2, <2>6, <2>7, <2>8
  <1>3. PICK r \in Reqs :
          CommitDraft(r) \/ CommitSend(r) \/ CommitRead(r) \/ CommitDelete(r)
    BY DEF Next, vars, Load, FindPartner, FindLetter, Refuse, Abort
  <1>4. req[r].id = i
    BY <1>3, <1>t, CommitsOwnRow
  <1>5. QED
    BY <1>1, <1>2, <1>3, <1>4

\* In every interleaving a letter is read without having been sent only by a
\* mark_read whose letter was replaced by a draft after its guard.
THEOREM UnsentIsReadOnlyIfReplaced == Spec => UnsentReadOnlyIfReplaced
  <1> DEFINE Replaced(i) ==
        /\ letter[i] # None
        /\ letter[i].status = "draft"
        /\ \E r \in Reqs : Checked(r, "read") /\ req[r].id = i /\ ~Fresh(r)
  <1>1. RowInv /\ [Next]_vars =>
          [\A i \in Workers :
              /\ letter'[i] # None
              /\ letter'[i] # letter[i]
              /\ letter'[i].status = "read"
              /\ ~letter'[i].sentAt
              => Replaced(i)]_letter
    BY ReadStep
  <1>2. QED
    BY <1>1, RowInvariant, PTL DEF Spec, UnsentReadOnlyIfReplaced

=============================================================================
