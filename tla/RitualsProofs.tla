---------------------------- MODULE RitualsProofs ----------------------------
(***************************************************************************)
(* What module Rituals guarantees for every number of users, couples,      *)
(* rituals, entries, days and overlapping requests.                        *)
(***************************************************************************)
EXTENDS StreakProofs, FiniteSetTheorems

(***************************************************************************)
(* The invariant.  A request that has sent an entry still has what the     *)
(* entry needs: its ritual (an INSERT holds it against deletion), or the   *)
(* row that the UPDATE changes.                                            *)
(***************************************************************************)
RowFields == {"couple", "active", "current", "longest"}

RowShape(s) == s = [f \in RowFields |-> s[f]]

Fields == {"pc", "op", "user", "id", "sets", "copy", "date", "old", "new", "days", "now"}

HasFields(q) == q = [f \in Fields |-> q[f]]

RequestShape(q) ==
    /\ HasFields(q)
    /\ q.pc \in {"idle", "loaded", "looked", "counted", "checked"}
    /\ q.pc \in {"idle", "loaded"} => q.old = None
    /\ q.pc # "idle" => q.id \in RitualIds
    /\ q.pc # "idle" /\ q.op \in {"create"} \union DOMAIN Status => q.user \in Users
    /\ q.pc # "idle" /\ q.op = "create" => coupleOf[q.user] # None
    /\ q.pc \in {"looked", "counted", "checked"} =>
        /\ q.op \in DOMAIN Status
        /\ q.date \in Days
        /\ q.old \in [id : EntryIds, status : Statuses] \union {None}
    /\ q.pc \in {"counted", "checked"} /\ q.old = None => q.new \in EntryIds

Shape ==
    /\ today \in Days
    /\ entry \in [EntryIds -> Entry \union {None}]
    /\ ritual = [i \in RitualIds |-> ritual[i]]
    /\ \A i \in RitualIds : RowShape(ritual[i])
    /\ req = [r \in Reqs |-> req[r]]
    /\ \A r \in Reqs : RequestShape(req[r])

\* What q has sent can be committed.
Keeps(q) ==
    Sent(q) => /\ Inserts(q) => Exists(q.id)
               /\ Updates(q) => entry[q.old.id] # None

EntryInv ==
    /\ Shape
    /\ \A r \in Reqs : Keeps(req[r])
    /\ EntriesHaveTheirRitual

LEMMA StatusIs ==
    /\ DOMAIN Status = {"complete", "skip"}
    /\ \A op \in DOMAIN Status : Status[op] \in Statuses
  BY DEF Status, Statuses

LEMMA IdleIs ==
    /\ RequestShape(Idle)
    /\ ~Sent(Idle)
    /\ Idle.pc = "idle"
    /\ Idle' = Idle
  <1>1. HasFields(Idle)
    BY Zenon DEF HasFields, Fields, Idle
  <1>2. Idle.pc = "idle" /\ Idle.op = None /\ Idle.old = None
    BY DEF Idle
  <1>3. Idle' = Idle
    BY DEF Idle
  <1>4. QED
    BY <1>1, <1>2, <1>3 DEF RequestShape, Sent

LEMMA EntryIsNotNone == \A k \in Entry : k # None
  BY NoneIsNotAValue

LEMMA EntryInit == Init => EntryInv
  <1> SUFFICES ASSUME Init PROVE EntryInv
    OBVIOUS
  <1>1. today \in Days
    BY Bounds DEF Init, Days
  <1>2. RowShape(NoRow)
    BY Zenon DEF RowShape, RowFields, NoRow
  <1>3. Shape
    BY <1>1, <1>2, IdleIs DEF Init, Shape
  <1>4. QED
    BY <1>3, IdleIs DEF Init, EntryInv, Keeps, EntriesHaveTheirRitual

(***************************************************************************)
(* Requests: replacing what one request holds.                             *)
(***************************************************************************)

\* A step that changes one request and no row.
LEMMA RequestStep ==
  ASSUME EntryInv, NEW r \in Reqs, NEW q,
         req' = [req EXCEPT ![r] = q],
         UNCHANGED <<coupleOf, ritual, entry, today>>,
         RequestShape(q), Keeps(q)
  PROVE  EntryInv'
  <1>1. \A s \in Reqs : req'[s] = IF s = r THEN q ELSE req[s]
    BY DEF EntryInv, Shape
  <1>2. ASSUME NEW s \in Reqs PROVE RequestShape(req[s])'
    <2>1. RequestShape(req'[s])
      BY <1>1 DEF EntryInv, Shape
    <2>2. QED
      BY <2>1 DEF RequestShape
  <1>3. Shape'
    BY <1>2 DEF EntryInv, Shape, RowShape
  <1>4. ASSUME NEW s \in Reqs PROVE Keeps(req[s])'
    <2>1. Keeps(req'[s])
      BY <1>1 DEF EntryInv
    <2>2. QED
      BY <2>1 DEF Keeps, Sent, Inserts, Updates, Exists
  <1>5. EntriesHaveTheirRitual'
    BY DEF EntryInv, EntriesHaveTheirRitual, Exists
  <1>6. QED
    BY <1>3, <1>4, <1>5 DEF EntryInv

\* A step that ends a request: the others keep their shape.
LEMMA FinishStep ==
  ASSUME EntryInv, NEW r \in Reqs, Finish(r), UNCHANGED <<coupleOf, today>>
  PROVE  /\ \A s \in Reqs : req'[s] = IF s = r THEN Idle ELSE req[s]
         /\ req' = [s \in Reqs |-> req'[s]]
         /\ \A s \in Reqs : RequestShape(req[s])'
  <1>1. \A s \in Reqs : req'[s] = IF s = r THEN Idle ELSE req[s]
    BY DEF EntryInv, Shape, Finish
  <1>2. req' = [s \in Reqs |-> req'[s]]
    BY DEF EntryInv, Shape, Finish
  <1>3. ASSUME NEW s \in Reqs PROVE RequestShape(req[s])'
    <2>1. RequestShape(req'[s])
      BY <1>1, IdleIs DEF EntryInv, Shape
    <2>2. QED
      BY <2>1 DEF RequestShape
  <1>4. QED
    BY <1>1, <1>2, <1>3

\* A step that ends a request and leaves the rows where they are.
LEMMA EndStep ==
  ASSUME EntryInv, NEW r \in Reqs, Finish(r), UNCHANGED <<coupleOf, ritual, entry, today>>
  PROVE  EntryInv'
  BY RequestStep, IdleIs DEF Finish, Keeps

\* A step that ends a request, keeps the existing rituals and the existing
\* entries, and adds no entry without a ritual.
LEMMA GrowStep ==
  ASSUME EntryInv, NEW r \in Reqs, Finish(r), UNCHANGED <<coupleOf, today>>,
         ritual' = [i \in RitualIds |-> ritual'[i]],
         \A i \in RitualIds : RowShape(ritual'[i]),
         \A i \in RitualIds : Exists(i) => ritual'[i].couple # None,
         entry' \in [EntryIds -> Entry \union {None}],
         \A e \in EntryIds : entry[e] # None => entry'[e] # None,
         \A e \in EntryIds : entry'[e] # None => Exists(entry'[e].ritual)
  PROVE  EntryInv'
  <1>1. /\ \A s \in Reqs : req'[s] = IF s = r THEN Idle ELSE req[s]
        /\ req' = [s \in Reqs |-> req'[s]]
        /\ \A s \in Reqs : RequestShape(req[s])'
    BY FinishStep
  <1>2. Shape'
    BY <1>1 DEF EntryInv, Shape, RowShape
  <1>3. ASSUME NEW s \in Reqs PROVE Keeps(req[s])'
    <2>1. CASE s = r
      BY <2>1, <1>1, IdleIs DEF Keeps, Sent
    <2>2. CASE s # r
      <3>1. req'[s] = req[s] /\ Keeps(req[s]) /\ RequestShape(req[s])
        BY <2>2, <1>1 DEF EntryInv, Shape
      <3>2. Sent(req[s]) => req[s].id \in RitualIds
        BY <3>1 DEF Sent, RequestShape
      <3>3. Sent(req[s]) /\ Updates(req[s]) => req[s].old.id \in EntryIds
        BY <3>1 DEF Sent, Updates, RequestShape
      <3>4. QED
        BY <3>1, <3>2, <3>3 DEF Keeps, Sent, Inserts, Updates, Exists
    <2>3. QED
      BY <2>1, <2>2
  <1>4. EntriesHaveTheirRitual'
    BY DEF EntriesHaveTheirRitual, Exists, Entry
  <1>5. QED
    BY <1>2, <1>3, <1>4 DEF EntryInv

(***************************************************************************)
(* One lemma per action that needs more than EndStep.                      *)
(***************************************************************************)
LEMMA LoadStep ==
  ASSUME EntryInv, NEW r \in Reqs, NEW q, Start(r, q), HasFields(q),
         q.pc = "loaded", q.id \in RitualIds, q.old = None,
         q.op \in {"create"} \union DOMAIN Status => q.user \in Users,
         q.op = "create" => coupleOf[q.user] # None
  PROVE  EntryInv'
  <1>1. RequestShape(q) /\ Keeps(q)
    BY DEF RequestShape, Keeps, Sent
  <1>2. QED
    BY <1>1, RequestStep DEF Start

LEMMA LoadSteps ==
  ASSUME EntryInv, NEW r \in Reqs, NEW u \in Users, NEW i \in RitualIds
  PROVE  /\ LoadCreate(r, u, i) => EntryInv'
         /\ LoadDelete(r, u, i) => EntryInv'
         /\ \A op \in {"activate", "deactivate"} : LoadUpdate(r, op, u, i) => EntryInv'
         /\ \A op \in DOMAIN Status : LoadRecord(r, op, u, i) => EntryInv'
  <1>1. ASSUME LoadCreate(r, u, i) PROVE EntryInv'
    <2> DEFINE q == [Idle EXCEPT !.pc = "loaded", !.op = "create", !.user = u, !.id = i]
    <2>1. HasFields(q)
      BY IdleIs, Zenon DEF HasFields, RequestShape
    <2>2. q.pc = "loaded" /\ q.op = "create" /\ q.user = u /\ q.id = i /\ q.old = None
      BY DEF Idle
    <2>3. Start(r, q) /\ coupleOf[u] # None
      BY <1>1 DEF LoadCreate
    <2> HIDE DEF q
    <2>4. QED
      BY <2>1, <2>2, <2>3, LoadStep
  <1>2. ASSUME LoadDelete(r, u, i) PROVE EntryInv'
    <2> DEFINE q == [Idle EXCEPT !.pc = "loaded", !.op = "delete", !.id = i]
    <2>1. HasFields(q)
      BY IdleIs, Zenon DEF HasFields, RequestShape
    <2>2. q.pc = "loaded" /\ q.op = "delete" /\ q.id = i /\ q.old = None
      BY DEF Idle
    <2>3. Start(r, q)
      BY <1>2 DEF LoadDelete
    <2> HIDE DEF q
    <2>4. QED
      BY <2>1, <2>2, <2>3, StatusIs, LoadStep
  <1>3. ASSUME NEW op \in {"activate", "deactivate"}, LoadUpdate(r, op, u, i) PROVE EntryInv'
    <2> DEFINE b == (ritual[i].active # (op = "activate"))
               q == [Idle EXCEPT !.pc = "loaded", !.op = op, !.id = i, !.sets = b]
    <2>1. Start(r, q)
      BY <1>3 DEF LoadUpdate
    <2> HIDE DEF b
    <2>2. HasFields(q)
      BY IdleIs, Zenon DEF HasFields, RequestShape
    <2>3. q.pc = "loaded" /\ q.op = op /\ q.id = i /\ q.old = None
      BY DEF Idle
    <2> HIDE DEF q
    <2>4. QED
      BY <2>1, <2>2, <2>3, StatusIs, LoadStep
  <1>4. ASSUME NEW op \in DOMAIN Status, LoadRecord(r, op, u, i) PROVE EntryInv'
    <2> DEFINE k == [current |-> ritual[i].current, longest |-> ritual[i].longest]
               q == [Idle EXCEPT !.pc = "loaded", !.op = op, !.user = u, !.id = i, !.copy = k]
    <2>1. Start(r, q)
      BY <1>4 DEF LoadRecord
    <2> HIDE DEF k
    <2>2. HasFields(q)
      BY IdleIs, Zenon DEF HasFields, RequestShape
    <2>3. q.pc = "loaded" /\ q.op = op /\ q.user = u /\ q.id = i /\ q.old = None
      BY DEF Idle
    <2> HIDE DEF q
    <2>4. QED
      BY <2>1, <2>2, <2>3, StatusIs, LoadStep
  <1>5. QED
    BY <1>1, <1>2, <1>3, <1>4

LEMMA LookStep ==
  ASSUME EntryInv, NEW r \in Reqs, Look(r)
  PROVE  EntryInv'
  <1> DEFINE mine == Marks(entry, req[r].id, req[r].user, today)
             found(e) == [id |-> e, status |-> entry[e].status]
  <1>1. RequestShape(req[r]) /\ today \in Days /\ req[r].pc = "loaded"
    BY DEF EntryInv, Shape, Look
  <1>2. CASE req' = [req EXCEPT ![r].pc = "looked", ![r].date = today]
    <2> DEFINE p == [req[r] EXCEPT !.pc = "looked", !.date = today]
    <2>1. HasFields(p)
      BY <1>1, Zenon DEF RequestShape, HasFields
    <2>2. /\ p.pc = "looked" /\ p.op = req[r].op /\ p.user = req[r].user /\ p.id = req[r].id
          /\ p.date = today /\ p.old = None
      BY <1>1 DEF RequestShape, HasFields, Fields
    <2>3. req' = [req EXCEPT ![r] = p]
      BY <1>2
    <2> HIDE DEF p
    <2>4. RequestShape(p) /\ Keeps(p)
      BY <1>1, <2>1, <2>2 DEF Look, RequestShape, Keeps, Sent
    <2>5. QED
      BY <2>3, <2>4, RequestStep DEF Look
  <1>3. ASSUME NEW e \in mine,
               req' = [req EXCEPT ![r].pc = "looked", ![r].date = today, ![r].old = found(e)]
        PROVE  EntryInv'
    <2> DEFINE o == found(e)
               p == [req[r] EXCEPT !.pc = "looked", !.date = today, !.old = o]
    <2>1. e \in EntryIds /\ entry[e] \in Entry
      BY DEF Marks, EntryInv, Shape
    <2>2. o \in [id : EntryIds, status : Statuses]
      BY <2>1 DEF Entry
    <2>3. req' = [req EXCEPT ![r] = p]
      BY <1>3
    <2> HIDE DEF o
    <2>4. HasFields(p)
      BY <1>1, Zenon DEF RequestShape, HasFields
    <2>5. /\ p.pc = "looked" /\ p.op = req[r].op /\ p.user = req[r].user /\ p.id = req[r].id
          /\ p.date = today /\ p.old = o
      BY <1>1 DEF RequestShape, HasFields, Fields
    <2> HIDE DEF p
    <2>6. RequestShape(p) /\ Keeps(p)
      BY <1>1, <2>2, <2>4, <2>5 DEF Look, RequestShape, Keeps, Sent
    <2>7. QED
      BY <2>3, <2>6, RequestStep DEF Look
  <1>4. QED
    BY <1>2, <1>3 DEF Look

LEMMA CountStep ==
  ASSUME EntryInv, NEW r \in Reqs, Count(r)
  PROVE  EntryInv'
  <1>1. PICK q \in Keyed(req[r]) :
            /\ CanSend(q)
            /\ req' = [req EXCEPT ![r] = [q EXCEPT !.pc = "counted", !.now = today,
                                            !.days = CompletedDays(Entries(q), q.id)]]
    BY DEF Count
  <1> DEFINE D == CompletedDays(Entries(q), q.id)
             p == [q EXCEPT !.pc = "counted", !.now = today, !.days = D]
  <1>2. RequestShape(req[r]) /\ req[r].pc = "looked"
    BY DEF EntryInv, Shape, Count
  <1>3. RequestShape(q) /\ q.pc = "looked" /\ (q.old = None => q.new \in EntryIds)
    <2>1. CASE Inserts(req[r])
      <3>1. PICK e \in EntryIds : q = [req[r] EXCEPT !.new = e]
        BY <2>1 DEF Keyed
      <3>2. HasFields(q)
        BY <1>2, <3>1, Zenon DEF RequestShape, HasFields
      <3>3. /\ q.pc = "looked" /\ q.op = req[r].op /\ q.user = req[r].user /\ q.id = req[r].id
            /\ q.date = req[r].date /\ q.old = req[r].old /\ q.new = e
        BY <1>2, <3>1 DEF RequestShape, HasFields, Fields
      <3>4. QED
        BY <1>2, <3>2, <3>3 DEF RequestShape
    <2>2. CASE ~Inserts(req[r])
      BY <1>2, <2>2 DEF Keyed, Inserts
    <2>3. QED
      BY <2>1, <2>2
  <1>4. req' = [req EXCEPT ![r] = p]
    BY <1>1
  <1> HIDE DEF D
  <1>5. HasFields(p)
    BY <1>3, Zenon DEF RequestShape, HasFields
  <1>6. /\ p.pc = "counted" /\ p.op = q.op /\ p.user = q.user /\ p.id = q.id
        /\ p.date = q.date /\ p.old = q.old /\ p.new = q.new
    BY <1>3 DEF RequestShape, HasFields, Fields
  <1> HIDE DEF p
  <1>7. RequestShape(p)
    BY <1>3, <1>5, <1>6 DEF RequestShape
  <1>8. Keeps(p)
    BY <1>1, <1>6 DEF Keeps, CanSend, Inserts, Updates
  <1>9. QED
    BY <1>4, <1>7, <1>8, RequestStep DEF Count

LEMMA CheckStep ==
  ASSUME EntryInv, NEW r \in Reqs, Check(r)
  PROVE  EntryInv'
  <1> DEFINE p == [req[r] EXCEPT !.pc = "checked"]
  <1>1. RequestShape(req[r]) /\ Keeps(req[r]) /\ req[r].pc = "counted"
    BY DEF EntryInv, Shape, Check
  <1>2. HasFields(p)
    BY <1>1, Zenon DEF RequestShape, HasFields
  <1>3. /\ p.pc = "checked" /\ p.op = req[r].op /\ p.user = req[r].user /\ p.id = req[r].id
        /\ p.date = req[r].date /\ p.old = req[r].old /\ p.new = req[r].new
    BY <1>1 DEF RequestShape, HasFields, Fields
  <1>4. req' = [req EXCEPT ![r] = p]
    BY DEF Check
  <1> HIDE DEF p
  <1>5. RequestShape(p) /\ Keeps(p)
    BY <1>1, <1>2, <1>3 DEF RequestShape, Keeps, Sent, Inserts, Updates
  <1>6. QED
    BY <1>4, <1>5, RequestStep DEF Check

LEMMA CommitCreateStep ==
  ASSUME EntryInv, NEW r \in Reqs, CommitCreate(r)
  PROVE  EntryInv'
  <1> DEFINE c == coupleOf[req[r].user]
             row == [couple |-> c, active |-> TRUE, current |-> 0, longest |-> 0]
  <1>1. req[r].id \in RitualIds /\ c # None
    BY DEF EntryInv, Shape, RequestShape, CommitCreate
  <1>2. RowShape(row)
    BY Zenon DEF RowShape, RowFields
  <1>3. row.couple = c
    OBVIOUS
  <1>4. ritual' = [ritual EXCEPT ![req[r].id] = row]
    BY DEF CommitCreate
  <1> HIDE DEF row, c
  <1>5. \A i \in RitualIds : ritual'[i] = IF i = req[r].id THEN row ELSE ritual[i]
    BY <1>4 DEF EntryInv, Shape
  <1>6. /\ ritual' = [i \in RitualIds |-> ritual'[i]]
        /\ \A i \in RitualIds : RowShape(ritual'[i])
        /\ \A i \in RitualIds : Exists(i) => ritual'[i].couple # None
    BY <1>1, <1>2, <1>3, <1>4, <1>5 DEF EntryInv, Shape, Exists
  <1>7. \A e \in EntryIds : entry[e] # None => Exists(entry[e].ritual) /\ entry[e].ritual \in RitualIds
    BY DEF EntryInv, EntriesHaveTheirRitual, Shape, Entry
  <1>8. ASSUME NEW e \in EntryIds, entry'[e] # None
        PROVE  Exists(entry'[e].ritual)
    BY <1>7, <1>8 DEF CommitCreate
  <1>9. entry' = entry /\ entry \in [EntryIds -> Entry \union {None}]
    BY DEF EntryInv, Shape, CommitCreate
  <1>10. Finish(r) /\ UNCHANGED <<coupleOf, today>>
    BY DEF CommitCreate
  <1>11. QED
    BY <1>6, <1>8, <1>9, <1>10, GrowStep

LEMMA CommitUpdateStep ==
  ASSUME EntryInv, NEW r \in Reqs, CommitUpdate(r)
  PROVE  EntryInv'
  <1>1. CASE ~req[r].sets
    BY <1>1, EndStep DEF CommitUpdate
  <1>2. CASE req[r].sets
    <2> DEFINE j == req[r].id
               a == (req[r].op = "activate")
               row == [ritual[j] EXCEPT !.active = a]
    <2>1. j \in RitualIds
      BY DEF EntryInv, Shape, RequestShape, CommitUpdate
    <2>2. ritual' = [ritual EXCEPT ![j] = row]
      BY <1>2 DEF CommitUpdate
    <2> HIDE DEF a
    <2>3. RowShape(ritual[j])
      BY <2>1 DEF EntryInv, Shape
    <2>4. RowShape(row)
      BY <2>3, Zenon DEF RowShape
    <2>5. row.couple = ritual[j].couple
      BY <2>3 DEF RowShape, RowFields
    <2> HIDE DEF row, j
    <2>6. \A i \in RitualIds : ritual'[i] = IF i = j THEN row ELSE ritual[i]
      BY <2>2 DEF EntryInv, Shape
    <2>7. /\ ritual' = [i \in RitualIds |-> ritual'[i]]
          /\ \A i \in RitualIds : RowShape(ritual'[i])
          /\ \A i \in RitualIds : Exists(i) => ritual'[i].couple # None
      BY <2>2, <2>4, <2>5, <2>6 DEF EntryInv, Shape, Exists
    <2>8. entry' = entry /\ entry \in [EntryIds -> Entry \union {None}]
      BY DEF EntryInv, Shape, CommitUpdate
    <2>9. \A e \in EntryIds : entry'[e] # None => Exists(entry'[e].ritual)
      BY <2>8 DEF EntryInv, EntriesHaveTheirRitual
    <2>10. Finish(r) /\ UNCHANGED <<coupleOf, today>>
      BY DEF CommitUpdate
    <2>11. QED
      BY <2>7, <2>8, <2>9, <2>10, GrowStep
  <1>3. QED
    BY <1>1, <1>2

LEMMA MovedKeeps ==
  ASSUME NEW row, RowShape(row), NEW q
  PROVE  RowShape(Moved(row, q)) /\ Moved(row, q).couple = row.couple
  <1> DEFINE c == IF Current(q.days, q.now) # q.copy.current
                  THEN Current(q.days, q.now) ELSE row.current
             l == IF Longest(q.days, q.copy.longest) # q.copy.longest
                  THEN Longest(q.days, q.copy.longest) ELSE row.longest
             new == [row EXCEPT !.current = c, !.longest = l]
  <1>1. Moved(row, q) = new
    BY DEF Moved
  <1> HIDE DEF c, l
  <1>2. RowShape(new)
    BY Zenon DEF RowShape
  <1>3. new.couple = row.couple
    BY DEF RowShape, RowFields
  <1>4. QED
    BY <1>1, <1>2, <1>3

\* The entries as a request sees them that has sent one.
LEMMA EntriesKeep ==
  ASSUME EntryInv, NEW r \in Reqs, Sent(req[r])
  PROVE  /\ Entries(req[r]) \in [EntryIds -> Entry \union {None}]
         /\ \A e \in EntryIds : entry[e] # None => Entries(req[r])[e] # None
         /\ \A e \in EntryIds : Entries(req[r])[e] # None =>
                Exists(Entries(req[r])[e].ritual)
  <1> DEFINE q == req[r]
             new == [ritual |-> q.id, user |-> q.user, date |-> q.date, status |-> Status[q.op]]
  <1>1. RequestShape(q) /\ Keeps(q)
    BY DEF EntryInv, Shape
  <1>2. q.id \in RitualIds /\ q.user \in Users /\ q.date \in Days /\ Status[q.op] \in Statuses
    BY <1>1, StatusIs DEF Sent, RequestShape
  <1>3. entry \in [EntryIds -> Entry \union {None}]
    BY DEF EntryInv, Shape
  <1>4. CASE Inserts(q)
    <2>1. Entries(q) = [entry EXCEPT ![q.new] = new]
      BY <1>4 DEF Entries
    <2>2. new \in Entry /\ new.ritual = q.id /\ Exists(q.id)
      BY <1>1, <1>2, <1>4 DEF Entry, Keeps
    <2>3. new # None
      BY <2>2, EntryIsNotNone
    <2> HIDE DEF new
    <2>4. QED
      BY <1>3, <2>1, <2>2, <2>3 DEF EntryInv, EntriesHaveTheirRitual
  <1>5. CASE ~Inserts(q) /\ Updates(q)
    <2> DEFINE k == q.old.id
               st == Status[q.op]
               upd == [entry[k] EXCEPT !.status = st]
    <2>1. q.old \in [id : EntryIds, status : Statuses]
      BY <1>1, <1>5 DEF Sent, RequestShape, Inserts
    <2>2. k \in EntryIds /\ entry[k] # None
      BY <1>1, <1>5, <2>1 DEF Keeps
    <2>3. entry[k] \in Entry
      BY <1>3, <2>2
    <2>4. Entries(q) = [entry EXCEPT ![k] = upd]
      BY <1>5 DEF Entries
    <2>5. st \in Statuses
      BY <1>2
    <2> HIDE DEF st
    <2>6. upd \in Entry /\ upd.ritual = entry[k].ritual
      BY <2>3, <2>5 DEF Entry
    <2>7. upd # None
      BY <2>6, EntryIsNotNone
    <2> HIDE DEF upd, k
    <2>8. QED
      BY <1>3, <2>2, <2>4, <2>6, <2>7 DEF EntryInv, EntriesHaveTheirRitual
  <1>6. CASE ~Inserts(q) /\ ~Updates(q)
    BY <1>3, <1>6 DEF Entries, EntryInv, EntriesHaveTheirRitual
  <1>7. QED
    BY <1>4, <1>5, <1>6

LEMMA CommitRecordStep ==
  ASSUME EntryInv, NEW r \in Reqs, CommitRecord(r)
  PROVE  EntryInv'
  <1> DEFINE j == req[r].id
             row == Moved(ritual[j], req[r])
  <1>1. Sent(req[r]) /\ j \in RitualIds
    BY StatusIs DEF EntryInv, Shape, RequestShape, CommitRecord, Sent
  <1>2. RowShape(row) /\ row.couple = ritual[j].couple
    BY <1>1, MovedKeeps DEF EntryInv, Shape
  <1>3. ritual' = [ritual EXCEPT ![j] = row] \/ ritual' = ritual
    BY DEF CommitRecord
  <1> HIDE DEF row, j
  <1>4. /\ ritual' = [i \in RitualIds |-> ritual'[i]]
        /\ \A i \in RitualIds : RowShape(ritual'[i])
        /\ \A i \in RitualIds : ritual'[i].couple = ritual[i].couple
    BY <1>2, <1>3 DEF EntryInv, Shape
  <1>5. entry' = Entries(req[r]) /\ Finish(r) /\ UNCHANGED <<coupleOf, today>>
    BY DEF CommitRecord
  <1>6. QED
    BY <1>1, <1>4, <1>5, EntriesKeep, GrowStep DEF Exists

\* A delete waits for whoever has sent an entry of the ritual.
LEMMA CommitDeleteStep ==
  ASSUME EntryInv, NEW r \in Reqs, CommitDelete(r)
  PROVE  EntryInv'
  <1> DEFINE j == req[r].id
  <1>1. j \in RitualIds /\ ~Sent(req[r])
    BY DEF EntryInv, Shape, RequestShape, CommitDelete, Sent
  <1>2. /\ ritual' = [ritual EXCEPT ![j] = NoRow]
        /\ entry' = [e \in EntryIds |->
                IF entry[e] # None /\ entry[e].ritual = j THEN None ELSE entry[e]]
        /\ ~HeldAgainstDelete(r, j)
        /\ Finish(r) /\ UNCHANGED <<coupleOf, today>>
    BY DEF CommitDelete
  <1>3. RowShape(NoRow)
    BY Zenon DEF RowShape, RowFields, NoRow
  <1> HIDE DEF j
  <1>4. \A i \in RitualIds : ritual'[i] = IF i = j THEN NoRow ELSE ritual[i]
    BY <1>2 DEF EntryInv, Shape
  <1>5. /\ \A s \in Reqs : req'[s] = IF s = r THEN Idle ELSE req[s]
        /\ req' = [s \in Reqs |-> req'[s]]
        /\ \A s \in Reqs : RequestShape(req[s])'
    BY <1>2, FinishStep
  <1>6. Shape'
    <2>1. entry' \in [EntryIds -> Entry \union {None}]
      BY <1>2 DEF EntryInv, Shape
    <2>2. ritual' = [i \in RitualIds |-> ritual'[i]]
      BY <1>2 DEF EntryInv, Shape
    <2>3. \A i \in RitualIds : RowShape(ritual'[i])
      BY <1>3, <1>4 DEF EntryInv, Shape
    <2>4. today' \in Days
      BY <1>2 DEF EntryInv, Shape
    <2>5. \A i \in RitualIds : RowShape(ritual[i])'
      BY <2>3 DEF RowShape
    <2>6. QED
      BY <1>5, <2>1, <2>2, <2>4, <2>5 DEF Shape
  <1>7. ASSUME NEW s \in Reqs PROVE Keeps(req[s])'
    <2>1. CASE s = r
      BY <2>1, <1>5, IdleIs DEF Keeps, Sent
    <2>2. CASE s # r
      <3> DEFINE q == req[s]
      <3>1. req'[s] = q /\ Keeps(q) /\ RequestShape(q) /\ q \in Others(r)
        BY <2>2, <1>5 DEF EntryInv, Shape, Others
      <3>2. Sent(q) /\ Inserts(q) => q.id # j
        BY <1>2, <3>1 DEF HeldAgainstDelete
      <3>3. Sent(q) => q.id \in RitualIds
        BY <3>1 DEF Sent, RequestShape
      <3>4. Sent(q) /\ Inserts(q) => ritual'[q.id].couple # None
        BY <1>4, <3>1, <3>2, <3>3 DEF Keeps, Exists
      <3>5. Sent(q) /\ Updates(q) => q.old.id \in EntryIds /\ entry[q.old.id] # None
        BY <3>1 DEF Sent, Updates, RequestShape, Keeps
      <3>6. Sent(q) /\ Updates(q) => EntryHeld(r, q.old.id)
        BY <3>1 DEF EntryHeld
      <3>7. Sent(q) /\ Updates(q) => entry[q.old.id].ritual # j
        BY <1>2, <3>5, <3>6 DEF HeldAgainstDelete
      <3>8. Sent(q) /\ Updates(q) => entry'[q.old.id] # None
        BY <1>2, <3>5, <3>7
      <3>9. QED
        BY <3>1, <3>4, <3>8 DEF Keeps, Sent, Inserts, Updates, Exists
    <2>3. QED
      BY <2>1, <2>2
  <1>8. ASSUME NEW e \in EntryIds, entry'[e] # None
        PROVE  ritual'[entry'[e].ritual].couple # None
    <2>1. entry'[e] = entry[e] /\ entry[e] # None /\ entry[e].ritual # j
      BY <1>2, <1>8
    <2>2. entry[e].ritual \in RitualIds /\ ritual[entry[e].ritual].couple # None
      BY <2>1 DEF EntryInv, Shape, Entry, EntriesHaveTheirRitual, Exists
    <2>3. QED
      BY <1>4, <2>1, <2>2
  <1>9. EntriesHaveTheirRitual'
    BY <1>8 DEF EntriesHaveTheirRitual, Exists
  <1>10. QED
    BY <1>6, <1>7, <1>9 DEF EntryInv

LEMMA NextDayStep ==
  ASSUME EntryInv, NextDay
  PROVE  EntryInv'
  <1>1. today' \in Days
    BY Bounds DEF NextDay, EntryInv, Shape, Days
  <1>2. Shape'
    BY <1>1 DEF NextDay, EntryInv, Shape, RowShape, RequestShape, HasFields
  <1>3. QED
    BY <1>2 DEF NextDay, EntryInv, EntriesHaveTheirRitual, Exists, Keeps, Sent, Inserts, Updates

LEMMA EntryStep ==
  ASSUME EntryInv, [Next]_vars
  PROVE  EntryInv'
  <1>1. ASSUME NEW r \in Reqs, Refuse(r) \/ Abort(r) PROVE EntryInv'
    BY <1>1, EndStep DEF Refuse, Abort
  <1>2. CASE UNCHANGED vars
    <2>1. Shape'
      BY <1>2 DEF vars, EntryInv, Shape, RowShape, RequestShape, HasFields
    <2>2. QED
      BY <1>2, <2>1 DEF vars, EntryInv, EntriesHaveTheirRitual, Exists, Keeps, Sent,
                        Inserts, Updates
  <1>3. QED
    BY <1>1, <1>2, LoadSteps, CommitCreateStep, CommitUpdateStep, CommitDeleteStep, LookStep,
       CountStep, CheckStep, CommitRecordStep, NextDayStep DEF Next

\* "Deleting a ritual removes all its entries" (router README) against every
\* interleaving: no entry is ever without its ritual, however many requests
\* insert, change and delete at once.
THEOREM EntriesAlwaysHaveTheirRitual == Spec => []EntriesHaveTheirRitual
  <1>1. EntryInv => EntriesHaveTheirRitual
    BY DEF EntryInv
  <1>2. QED
    BY EntryInit, EntryStep, <1>1, PTL DEF Spec

-------------------------------------------------------------------------------
(***************************************************************************)
(* Types.  Nothing is written but what was read or counted: the streaks of *)
(* any set of days are days' numbers, and the columns of a streak are      *)
(* written to a ritual that is there, because the UPDATE that was sent     *)
(* holds it.                                                               *)
(***************************************************************************)
Live == [pc : {"loaded", "looked", "counted", "checked"},
         op : {"create", "activate", "deactivate", "delete", "complete", "skip"},
         user : Users \union {None}, id : RitualIds, sets : BOOLEAN,
         copy : Streaks \union {None}, date : 0..MaxDay,
         old : [id : EntryIds, status : Statuses] \union {None},
         new : EntryIds \union {None}, days : SUBSET Days, now : 0..MaxDay]

\* What a record loaded is a pair of streaks, and what it moves is there.
Moves(q) ==
    q.op \in DOMAIN Status =>
        /\ q.pc # "idle" => q.copy \in Streaks
        /\ q.pc = "checked" /\ MovesStreak(q) => Exists(q.id)

TypeInv == EntryInv /\ TypeOK /\ \A r \in Reqs : Moves(req[r])

LEMMA RequestIs ==
    /\ Request = {Idle} \union Live
    /\ \A q \in Request : q.pc # "idle" => q \in Live
    /\ \A q \in Live : q.pc # "idle"
  <1>1. Idle.pc = "idle"
    BY DEF Idle
  <1>2. Request = {Idle} \union Live
    BY DEF Request, Live
  <1>3. \A q \in Live : q.pc # "idle"
    BY DEF Live
  <1>4. QED
    BY <1>1, <1>2, <1>3

LEMMA IdleMoves == ASSUME NEW q, q = Idle PROVE Moves(q)
  <1>1. DOMAIN Status = {"complete", "skip"}
    BY DEF Status
  <1>2. q.op = None /\ q.pc = "idle"
    BY DEF Idle
  <1>3. QED
    BY <1>1, <1>2 DEF Moves

LEMMA RowIs == ASSUME TypeOK, NEW i \in RitualIds, Exists(i) PROVE ritual[i] \in Row
  BY DEF TypeOK, Exists, NoRow

LEMMA CurrentType ==
  ASSUME NEW D \in SUBSET Days, NEW now
  PROVE  Current(D, now) \in 0..MaxDay
  <1>1. MaxDay \in Nat
    BY Bounds
  <1>2. CASE D = {}
    BY <1>1, <1>2 DEF Current
  <1>3. CASE D # {}
    <2>1. PICK top \in D : \A e \in D : e <= top
      <3>1. D \subseteq 0..MaxDay
        BY DEF Days
      <3>2. QED
        BY <1>1, <1>3, <3>1, HasLargest
    <2>2. DaySet(D) /\ top \in Nat /\ top <= MaxDay
      BY <1>1 DEF DaySet, Days
    <2>3. Descend(D) = Run(D, top)
      BY <2>1, <2>2, DescendIsRun
    <2>4. Run(D, top) \in 0..top
      BY <2>2, RunIs
    <2>5. QED
      BY <1>1, <2>2, <2>3, <2>4 DEF Current
  <1>4. QED
    BY <1>2, <1>3

LEMMA LongestType ==
  ASSUME NEW D \in SUBSET Days, NEW loaded \in 0..MaxDay
  PROVE  Longest(D, loaded) \in 0..MaxDay
  <1>1. MaxDay \in Nat /\ D \subseteq 1..MaxDay
    BY Bounds DEF Days
  <1>2. Ascend(D) = LongestAt(D, MaxDay)
    <2>1. Until(D, MaxDay) = D
      BY <1>1 DEF Until
    <2>2. QED
      BY <1>1, <2>1, AscendIsLongest DEF LongestAt, Book!LongestOf, Run
  <1>3. Ascend(D) \in 0..MaxDay
    BY <1>1, <1>2, LongestIs
  <1>4. QED
    BY <1>3 DEF Longest

LEMMA MovedType ==
  ASSUME NEW row \in Row, NEW q \in Live, q.copy \in Streaks
  PROVE  Moved(row, q) \in Row
  <1> DEFINE c == IF Current(q.days, q.now) # q.copy.current
                  THEN Current(q.days, q.now) ELSE row.current
             l == IF Longest(q.days, q.copy.longest) # q.copy.longest
                  THEN Longest(q.days, q.copy.longest) ELSE row.longest
  <1>1. q.days \in SUBSET Days /\ q.copy.longest \in 0..MaxDay
    BY DEF Live, Streaks
  <1>2. c \in 0..MaxDay /\ l \in 0..MaxDay
    BY <1>1, CurrentType, LongestType DEF Row
  <1>3. Moved(row, q) = [row EXCEPT !.current = c, !.longest = l]
    BY DEF Moved
  <1> HIDE DEF c, l
  <1>4. QED
    BY <1>2, <1>3 DEF Row

\* A step that changes one request and no row.
LEMMA TypeRequest ==
  ASSUME TypeInv, EntryInv', NEW r \in Reqs, NEW q \in Request,
         req' = [req EXCEPT ![r] = q],
         UNCHANGED <<coupleOf, ritual, entry, today>>, Moves(q)
  PROVE  TypeInv'
  <1>1. req' \in [Reqs -> Request] /\ \A s \in Reqs : req'[s] = IF s = r THEN q ELSE req[s]
    BY DEF TypeInv, TypeOK
  <1>2. TypeOK'
    BY <1>1 DEF TypeInv, TypeOK
  <1>3. ASSUME NEW s \in Reqs PROVE Moves(req[s])'
    <2>1. Moves(req'[s])
      BY <1>1 DEF TypeInv
    <2>2. MovesStreak(req[s])' <=> MovesStreak(req'[s])
      BY DEF MovesStreak, Current, Longest, Ascend, Descend, LastOf
    <2>3. QED
      BY <2>1, <2>2 DEF Moves, Exists
  <1>4. QED
    BY <1>2, <1>3 DEF TypeInv

\* A step that ends a request and keeps what the others move.
LEMMA TypeFinish ==
  ASSUME TypeInv, EntryInv', NEW r \in Reqs, Finish(r), UNCHANGED <<coupleOf, today>>,
         ritual' \in [RitualIds -> Row \union {NoRow}],
         entry' \in [EntryIds -> Entry \union {None}],
         \A s \in Reqs \ {r} :
            /\ req[s].op \in DOMAIN Status
            /\ req[s].pc = "checked"
            /\ MovesStreak(req[s])
            /\ Exists(req[s].id)
            => ritual'[req[s].id].couple # None
  PROVE  TypeInv'
  <1>1. req' \in [Reqs -> Request] /\ \A s \in Reqs : req'[s] = IF s = r THEN Idle ELSE req[s]
    BY RequestIs DEF TypeInv, TypeOK, Finish
  <1>2. TypeOK'
    BY <1>1 DEF TypeInv, TypeOK
  <1>3. ASSUME NEW s \in Reqs PROVE Moves(req[s])'
    <2>1. Moves(req[s])
      BY DEF TypeInv
    <2>2. MovesStreak(req[s])' <=> MovesStreak(req'[s])
      BY DEF MovesStreak, Current, Longest, Ascend, Descend, LastOf
    <2>3. CASE s = r
      <3>1. req'[s].pc = "idle"
        BY <1>1, <2>3 DEF Idle
      <3>2. QED
        BY <3>1 DEF Moves
    <2>4. CASE s # r
      <3>1. req'[s] = req[s]
        BY <1>1, <2>4
      <3>2. QED
        BY <2>1, <2>2, <2>4, <3>1 DEF Moves, Exists
    <2>5. QED
      BY <2>3, <2>4
  <1>4. QED
    BY <1>2, <1>3 DEF TypeInv

LEMMA LoadTypes ==
  ASSUME TypeInv, EntryInv', NEW r \in Reqs, NEW u \in Users, NEW i \in RitualIds
  PROVE  /\ LoadCreate(r, u, i) => TypeInv'
         /\ LoadDelete(r, u, i) => TypeInv'
         /\ \A op \in {"activate", "deactivate"} : LoadUpdate(r, op, u, i) => TypeInv'
         /\ \A op \in DOMAIN Status : LoadRecord(r, op, u, i) => TypeInv'
  <1>s. DOMAIN Status = {"complete", "skip"}
    BY DEF Status
  <1>m. 0 \in 0..MaxDay
    BY Bounds
  <1>1. ASSUME LoadCreate(r, u, i) PROVE TypeInv'
    <2> DEFINE q == [Idle EXCEPT !.pc = "loaded", !.op = "create", !.user = u, !.id = i]
    <2>1. q \in Live /\ q.op = "create"
      BY <1>m DEF Idle, Live
    <2>2. Start(r, q)
      BY <1>1 DEF LoadCreate
    <2> HIDE DEF q
    <2>3. q \in Request /\ Moves(q)
      BY <1>s, <2>1, RequestIs DEF Moves
    <2>4. QED
      BY <2>2, <2>3, TypeRequest DEF Start
  <1>2. ASSUME LoadDelete(r, u, i) PROVE TypeInv'
    <2> DEFINE q == [Idle EXCEPT !.pc = "loaded", !.op = "delete", !.id = i]
    <2>1. q \in Live /\ q.op = "delete"
      BY <1>m DEF Idle, Live
    <2>2. Start(r, q)
      BY <1>2 DEF LoadDelete
    <2> HIDE DEF q
    <2>3. q \in Request /\ Moves(q)
      BY <1>s, <2>1, RequestIs DEF Moves
    <2>4. QED
      BY <2>2, <2>3, TypeRequest DEF Start
  <1>3. ASSUME NEW op \in {"activate", "deactivate"}, LoadUpdate(r, op, u, i) PROVE TypeInv'
    <2> DEFINE b == (ritual[i].active # (op = "activate"))
               q == [Idle EXCEPT !.pc = "loaded", !.op = op, !.id = i, !.sets = b]
    <2>1. Start(r, q)
      BY <1>3 DEF LoadUpdate
    <2>2. b \in BOOLEAN
      OBVIOUS
    <2> HIDE DEF b
    <2>3. q \in Live /\ q.op = op
      BY <1>m, <2>2 DEF Idle, Live
    <2> HIDE DEF q
    <2>4. q \in Request /\ Moves(q)
      BY <1>s, <2>3, RequestIs DEF Moves
    <2>5. QED
      BY <2>1, <2>4, TypeRequest DEF Start
  <1>4. ASSUME NEW op \in DOMAIN Status, LoadRecord(r, op, u, i) PROVE TypeInv'
    <2> DEFINE k == [current |-> ritual[i].current, longest |-> ritual[i].longest]
               q == [Idle EXCEPT !.pc = "loaded", !.op = op, !.user = u, !.id = i, !.copy = k]
    <2>1. Start(r, q) /\ Exists(i)
      BY <1>4 DEF LoadRecord, Owned
    <2>2. ritual[i] \in Row
      BY <2>1, RowIs DEF TypeInv
    <2>3. k \in Streaks
      BY <2>2 DEF Row, Streaks
    <2> HIDE DEF k
    <2>4. q \in Live /\ q.copy = k /\ q.pc = "loaded"
      BY <1>m, <1>s, <2>3 DEF Idle, Live
    <2> HIDE DEF q
    <2>5. q \in Request /\ Moves(q)
      BY <2>3, <2>4, RequestIs DEF Moves
    <2>6. QED
      BY <2>1, <2>5, TypeRequest DEF Start
  <1>5. QED
    BY <1>1, <1>2, <1>3, <1>4

LEMMA LookType ==
  ASSUME TypeInv, EntryInv', NEW r \in Reqs, Look(r)
  PROVE  TypeInv'
  <1> DEFINE mine == Marks(entry, req[r].id, req[r].user, today)
             found(e) == [id |-> e, status |-> entry[e].status]
  <1>1. /\ req[r] \in Live /\ req[r].copy \in Streaks
        /\ today \in 0..MaxDay /\ entry \in [EntryIds -> Entry \union {None}]
    <2>1. req[r] \in Live
      BY RequestIs DEF TypeInv, TypeOK, Look
    <2>2. QED
      BY <2>1 DEF TypeInv, TypeOK, Look, Moves, Days
  <1>2. CASE req' = [req EXCEPT ![r].pc = "looked", ![r].date = today]
    <2> DEFINE p == [req[r] EXCEPT !.pc = "looked", !.date = today]
    <2>1. p \in Live /\ p.copy = req[r].copy /\ p.pc = "looked"
      BY <1>1 DEF Live
    <2>2. req' = [req EXCEPT ![r] = p]
      BY <1>2
    <2> HIDE DEF p
    <2>3. p \in Request /\ Moves(p)
      BY <1>1, <2>1, RequestIs DEF Moves
    <2>4. QED
      BY <2>2, <2>3, TypeRequest DEF Look
  <1>3. ASSUME NEW e \in mine,
               req' = [req EXCEPT ![r].pc = "looked", ![r].date = today, ![r].old = found(e)]
        PROVE  TypeInv'
    <2> DEFINE o == found(e)
               p == [req[r] EXCEPT !.pc = "looked", !.date = today, !.old = o]
    <2>1. e \in EntryIds /\ entry[e] \in Entry
      BY <1>1 DEF Marks
    <2>2. o \in [id : EntryIds, status : Statuses]
      BY <2>1 DEF Entry
    <2>3. req' = [req EXCEPT ![r] = p]
      BY <1>3
    <2> HIDE DEF o
    <2>4. p \in Live /\ p.copy = req[r].copy /\ p.pc = "looked"
      BY <1>1, <2>2 DEF Live
    <2> HIDE DEF p
    <2>5. p \in Request /\ Moves(p)
      BY <1>1, <2>4, RequestIs DEF Moves
    <2>6. QED
      BY <2>3, <2>5, TypeRequest DEF Look
  <1>4. QED
    BY <1>2, <1>3 DEF Look

LEMMA CountType ==
  ASSUME TypeInv, EntryInv', NEW r \in Reqs, Count(r)
  PROVE  TypeInv'
  <1>1. PICK q \in Keyed(req[r]) :
            req' = [req EXCEPT ![r] = [q EXCEPT !.pc = "counted", !.now = today,
                                            !.days = CompletedDays(Entries(q), q.id)]]
    BY DEF Count
  <1> DEFINE D == CompletedDays(Entries(q), q.id)
             p == [q EXCEPT !.pc = "counted", !.now = today, !.days = D]
  <1>2. req[r] \in Live /\ req[r].copy \in Streaks /\ today \in 0..MaxDay
    <2>1. req[r] \in Live /\ req[r].pc = "looked"
      BY RequestIs DEF TypeInv, TypeOK, Count
    <2>2. req[r].op \in DOMAIN Status
      BY <2>1 DEF TypeInv, EntryInv, Shape, RequestShape
    <2>3. QED
      BY <2>1, <2>2 DEF TypeInv, TypeOK, Moves, Days
  <1>3. q \in Live /\ q.copy = req[r].copy
    BY <1>2 DEF Keyed, Live
  <1>4. D \in SUBSET Days
    BY DEF CompletedDays
  <1>5. req' = [req EXCEPT ![r] = p]
    BY <1>1
  <1> HIDE DEF D
  <1>6. p \in Live /\ p.copy = req[r].copy /\ p.pc = "counted"
    BY <1>2, <1>3, <1>4 DEF Live
  <1> HIDE DEF p
  <1>7. p \in Request /\ Moves(p)
    BY <1>2, <1>6, RequestIs DEF Moves
  <1>8. QED
    BY <1>5, <1>7, TypeRequest DEF Count

LEMMA CheckType ==
  ASSUME TypeInv, EntryInv', NEW r \in Reqs, Check(r)
  PROVE  TypeInv'
  <1> DEFINE p == [req[r] EXCEPT !.pc = "checked"]
  <1>1. req[r] \in Live /\ req[r].pc = "counted"
    BY RequestIs DEF TypeInv, TypeOK, Check
  <1>2. req[r].copy \in Streaks
    BY <1>1 DEF TypeInv, Moves, EntryInv, Shape, RequestShape
  <1>3. /\ p \in Live /\ p.copy = req[r].copy /\ p.pc = "checked" /\ p.id = req[r].id
        /\ p.days = req[r].days /\ p.now = req[r].now
    BY <1>1 DEF Live
  <1>4. req' = [req EXCEPT ![r] = p] /\ (MovesStreak(req[r]) => Exists(req[r].id))
    BY DEF Check
  <1> HIDE DEF p
  <1>5. MovesStreak(p) <=> MovesStreak(req[r])
    BY <1>3 DEF MovesStreak
  <1>6. p \in Request /\ Moves(p)
    BY <1>2, <1>3, <1>4, <1>5, RequestIs DEF Moves
  <1>7. QED
    BY <1>4, <1>6, TypeRequest DEF Check

LEMMA CommitTypes ==
  ASSUME TypeInv, EntryInv', NEW r \in Reqs
  PROVE  /\ CommitCreate(r) => TypeInv'
         /\ CommitUpdate(r) => TypeInv'
         /\ CommitDelete(r) => TypeInv'
         /\ CommitRecord(r) => TypeInv'
  <1>t. /\ ritual \in [RitualIds -> Row \union {NoRow}]
        /\ entry \in [EntryIds -> Entry \union {None}]
        /\ coupleOf \in [Users -> Couples \union {None}]
        /\ \A s \in Reqs : req[s] \in Request
        /\ \A s \in Reqs : req[s].pc # "idle" => req[s].id \in RitualIds
    BY RequestIs DEF TypeInv, TypeOK, Live
  <1>1. ASSUME CommitCreate(r) PROVE TypeInv'
    <2> DEFINE c == coupleOf[req[r].user]
               row == [couple |-> c, active |-> TRUE, current |-> 0, longest |-> 0]
    <2>1. req[r].id \in RitualIds /\ req[r].user \in Users /\ c # None
      BY <1>1 DEF CommitCreate, TypeInv, EntryInv, Shape, RequestShape
    <2>2. c \in Couples
      BY <1>t, <2>1
    <2>3. ritual' = [ritual EXCEPT ![req[r].id] = row]
      BY <1>1 DEF CommitCreate
    <2> HIDE DEF c
    <2>4. row \in Row /\ row.couple # None
      BY <2>1, <2>2, Bounds DEF Row
    <2> HIDE DEF row
    <2>5. ritual' \in [RitualIds -> Row \union {NoRow}]
      BY <1>t, <2>3, <2>4
    <2>6. \A i \in RitualIds : Exists(i) => ritual'[i].couple # None
      BY <1>t, <2>3, <2>4 DEF Exists
    <2>7. Finish(r) /\ UNCHANGED <<coupleOf, today>> /\ entry' = entry
      BY <1>1 DEF CommitCreate
    <2>8. QED
      BY <1>t, <2>5, <2>6, <2>7, TypeFinish
  <1>2. ASSUME CommitUpdate(r) PROVE TypeInv'
    <2> DEFINE j == req[r].id
               a == (req[r].op = "activate")
               row == [ritual[j] EXCEPT !.active = a]
    <2>1. Finish(r) /\ UNCHANGED <<coupleOf, today>> /\ entry' = entry /\ j \in RitualIds
      BY <1>2, <1>t DEF CommitUpdate
    <2>2. CASE ~req[r].sets
      BY <1>2, <1>t, <2>1, <2>2, TypeFinish DEF CommitUpdate, Exists
    <2>3. CASE req[r].sets
      <3>1. Exists(j) /\ ritual' = [ritual EXCEPT ![j] = row]
        BY <1>2, <2>3 DEF CommitUpdate
      <3>2. ritual[j] \in Row
        BY <2>1, <3>1, RowIs DEF TypeInv
      <3>3. a \in BOOLEAN
        OBVIOUS
      <3> HIDE DEF a, j
      <3>4. row \in Row /\ row.couple = ritual[j].couple
        BY <3>2, <3>3 DEF Row
      <3> HIDE DEF row
      <3>5. ritual' \in [RitualIds -> Row \union {NoRow}]
        BY <1>t, <3>1, <3>4
      <3>6. \A i \in RitualIds : Exists(i) => ritual'[i].couple # None
        BY <1>t, <3>1, <3>4 DEF Exists
      <3>7. QED
        BY <1>t, <2>1, <3>5, <3>6, TypeFinish
    <2>4. QED
      BY <2>2, <2>3
  <1>3. ASSUME CommitDelete(r) PROVE TypeInv'
    <2> DEFINE j == req[r].id
    <2>1. /\ Finish(r) /\ UNCHANGED <<coupleOf, today>>
          /\ j \in RitualIds
          /\ ritual' = [ritual EXCEPT ![j] = NoRow]
          /\ entry' = [e \in EntryIds |->
                IF entry[e] # None /\ entry[e].ritual = j THEN None ELSE entry[e]]
          /\ ~RitualHeld(r, j)
      BY <1>3, <1>t DEF CommitDelete, HeldAgainstDelete
    <2> HIDE DEF j
    <2>2. /\ ritual' \in [RitualIds -> Row \union {NoRow}]
          /\ entry' \in [EntryIds -> Entry \union {None}]
      BY <1>t, <2>1
    <2>3. ASSUME NEW s \in Reqs \ {r}, req[s].op \in DOMAIN Status, req[s].pc = "checked",
                 MovesStreak(req[s]), Exists(req[s].id)
          PROVE  ritual'[req[s].id].couple # None
      <3>1. req[s] \in Others(r) /\ Sent(req[s])
        BY <2>3 DEF Others, Sent
      <3>2. req[s].id # j
        BY <2>1, <2>3, <3>1 DEF RitualHeld
      <3>3. req[s].id \in RitualIds
        BY <1>t, <2>3
      <3>4. QED
        BY <1>t, <2>1, <2>3, <3>2, <3>3 DEF Exists
    <2>4. QED
      BY <2>1, <2>2, <2>3, TypeFinish
  <1>4. ASSUME CommitRecord(r) PROVE TypeInv'
    <2> DEFINE j == req[r].id
               row == Moved(ritual[j], req[r])
    <2>1. /\ Finish(r) /\ UNCHANGED <<coupleOf, today>>
          /\ entry' = Entries(req[r])
          /\ req[r].pc = "checked"
      BY <1>4 DEF CommitRecord
    <2>2. Sent(req[r]) /\ req[r] \in Live /\ req[r].copy \in Streaks /\ j \in RitualIds
      <3>1. req[r].op \in DOMAIN Status
        BY <2>1 DEF TypeInv, EntryInv, Shape, RequestShape
      <3>2. QED
        BY <1>t, <2>1, <3>1, RequestIs DEF Sent, TypeInv, Moves
    <2>3. entry' \in [EntryIds -> Entry \union {None}]
      BY <2>1, <2>2, EntriesKeep DEF TypeInv
    <2>4. CASE ~MovesStreak(req[r])
      <3>1. ritual' = ritual
        BY <1>4, <2>4 DEF CommitRecord
      <3>2. QED
        BY <1>t, <2>1, <2>3, <3>1, TypeFinish DEF Exists
    <2>5. CASE MovesStreak(req[r])
      <3>1. Exists(j)
        BY <2>1, <2>2, <2>5 DEF TypeInv, Moves, Sent
      <3>2. ritual[j] \in Row
        BY <2>2, <3>1, RowIs DEF TypeInv
      <3>3. row \in Row
        BY <2>2, <3>2, MovedType
      <3>4. row.couple = ritual[j].couple
        BY <2>2, MovedKeeps DEF TypeInv, EntryInv, Shape
      <3>5. ritual' = [ritual EXCEPT ![j] = row]
        BY <1>4, <2>5 DEF CommitRecord
      <3> HIDE DEF row, j
      <3>6. ritual' \in [RitualIds -> Row \union {NoRow}]
        BY <1>t, <3>3, <3>5
      <3>7. \A i \in RitualIds : Exists(i) => ritual'[i].couple # None
        BY <1>t, <3>4, <3>5 DEF Exists
      <3>8. QED
        BY <1>t, <2>1, <2>3, <3>6, <3>7, TypeFinish
    <2>6. QED
      BY <2>4, <2>5
  <1>5. QED
    BY <1>1, <1>2, <1>3, <1>4

LEMMA TypeInit == Init => TypeInv
  <1> SUFFICES ASSUME Init PROVE TypeInv
    OBVIOUS
  <1>1. TypeOK
    BY RequestIs, Bounds DEF Init, TypeOK, Days
  <1>2. \A r \in Reqs : Moves(req[r])
    BY IdleMoves DEF Init
  <1>3. QED
    BY <1>1, <1>2, EntryInit DEF TypeInv

LEMMA TypeStep ==
  ASSUME TypeInv, [Next]_vars
  PROVE  TypeInv'
  <1>0. EntryInv'
    BY EntryStep DEF TypeInv
  <1>1. ASSUME NEW r \in Reqs, Refuse(r) \/ Abort(r) PROVE TypeInv'
    <2>1. Finish(r) /\ UNCHANGED <<coupleOf, ritual, entry, today>>
      BY <1>1 DEF Refuse, Abort
    <2>2. QED
      BY <1>0, <2>1, TypeFinish DEF TypeInv, TypeOK, Exists
  <1>2. CASE UNCHANGED vars \/ NextDay
    <2>1. UNCHANGED <<coupleOf, ritual, entry, req>> /\ today' \in Days
      BY <1>2, Bounds DEF vars, NextDay, TypeInv, TypeOK, Days
    <2>2. TypeOK'
      BY <2>1 DEF TypeInv, TypeOK
    <2>3. ASSUME NEW r \in Reqs PROVE Moves(req[r])'
      <3>1. Moves(req[r]) /\ req'[r] = req[r]
        BY <2>1 DEF TypeInv
      <3>2. MovesStreak(req[r])' <=> MovesStreak(req'[r])
        BY DEF MovesStreak, Current, Longest, Ascend, Descend, LastOf
      <3>3. QED
        BY <2>1, <3>1, <3>2 DEF Moves, Exists
    <2>4. QED
      BY <1>0, <2>2, <2>3 DEF TypeInv
  <1>3. QED
    BY <1>0, <1>1, <1>2, LoadTypes, LookType, CountType, CheckType, CommitTypes DEF Next

LEMMA TypeAlways == Spec => []TypeInv
  BY TypeInit, TypeStep, PTL DEF Spec

\* Every row and every request keeps its type: the streaks that a record counts over
\* any set of completed days are numbers of days, and are never written to a ritual
\* that was deleted meanwhile.
THEOREM TypesHold == Spec => []TypeOK
  <1>1. TypeInv => TypeOK
    BY DEF TypeInv
  <1>2. QED
    BY TypeAlways, <1>1, PTL

-------------------------------------------------------------------------------
(***************************************************************************)
(* Module RitualBook.  A commit that read nothing stale is a step of it    *)
(* because, beside the types, no entry and no date is ahead of today and   *)
(* the key of an entry that was sent is free, and nobody else's, until the *)
(* commit.                                                                 *)
(***************************************************************************)
Dated ==
    /\ \A e \in EntryIds : entry[e] # None => entry[e].date <= today
    /\ \A r \in Reqs : req[r].date <= today

Puts(q) == Sent(q) /\ Inserts(q)

KeysFree ==
    /\ \A r \in Reqs : Puts(req[r]) => entry[req[r].new] = None
    /\ \A r, s \in Reqs : r # s /\ Puts(req[r]) /\ Puts(req[s]) => req[r].new # req[s].new

BookInv == TypeInv /\ Dated /\ KeysFree

\* What Count turns a request into.
LEMMA CountedIs ==
  ASSUME TypeInv, NEW r \in Reqs, Count(r)
  PROVE  \E p \in Live :
            /\ req' = [req EXCEPT ![r] = p]
            /\ p.date = req[r].date
            /\ Puts(p) => entry[p.new] = None /\ ~EntryHeld(r, p.new)
  <1>1. PICK q \in Keyed(req[r]) :
            /\ CanSend(q)
            /\ Inserts(q) => ~EntryHeld(r, q.new)
            /\ req' = [req EXCEPT ![r] = [q EXCEPT !.pc = "counted", !.now = today,
                                            !.days = CompletedDays(Entries(q), q.id)]]
    BY DEF Count
  <1> DEFINE D == CompletedDays(Entries(q), q.id)
             p == [q EXCEPT !.pc = "counted", !.now = today, !.days = D]
  <1>2. req[r] \in Live /\ today \in 0..MaxDay
    BY RequestIs DEF TypeInv, TypeOK, Count, Days
  <1>3. q \in Live /\ q.date = req[r].date
    BY <1>2 DEF Keyed, Live
  <1>4. D \in SUBSET Days
    BY DEF CompletedDays
  <1>5. req' = [req EXCEPT ![r] = p]
    BY <1>1
  <1> HIDE DEF D
  <1>6. p \in Live /\ p.date = q.date /\ p.old = q.old /\ p.new = q.new
    BY <1>2, <1>3, <1>4 DEF Live
  <1> HIDE DEF p
  <1>7. QED
    BY <1>1, <1>3, <1>5, <1>6 DEF Puts, Inserts, CanSend

\* What the steps do to requests and entries.
LEMMA RequestChange ==
  ASSUME TypeInv, [Next]_vars, NEW s \in Reqs
  PROVE  \/ req'[s] = req[s]
         \/ req'[s].pc \in {"idle", "loaded"} /\ req'[s].date = 0
         \/ req'[s].pc = "looked" /\ req'[s].date = today
         \/ /\ req[s].pc = "counted" /\ req'[s].pc = "checked"
            /\ req'[s].date = req[s].date /\ req'[s].new = req[s].new
            /\ req'[s].old = req[s].old /\ req'[s].op = req[s].op
         \/ Count(s)
  <1>i. Idle.pc = "idle" /\ Idle.date = 0
    BY DEF Idle
  <1>r. req \in [Reqs -> Request]
    BY DEF TypeInv, TypeOK
  <1>1. ASSUME NEW r \in Reqs, NEW q, req' = [req EXCEPT ![r] = q],
               q.pc \in {"idle", "loaded"}, q.date = 0
        PROVE  req'[s] = req[s] \/ (req'[s].pc \in {"idle", "loaded"} /\ req'[s].date = 0)
    BY <1>r, <1>1
  <1>2. ASSUME NEW r \in Reqs, Finish(r)
        PROVE  req'[s] = req[s] \/ (req'[s].pc \in {"idle", "loaded"} /\ req'[s].date = 0)
    BY <1>i, <1>1, <1>2 DEF Finish
  <1>3. ASSUME NEW r \in Reqs, NEW u \in Users, NEW i \in RitualIds,
               \/ LoadCreate(r, u, i)
               \/ LoadDelete(r, u, i)
               \/ \E op \in {"activate", "deactivate"} : LoadUpdate(r, op, u, i)
               \/ \E op \in DOMAIN Status : LoadRecord(r, op, u, i)
        PROVE  req'[s] = req[s] \/ (req'[s].pc \in {"idle", "loaded"} /\ req'[s].date = 0)
    <2>1. \A q : Start(r, q) /\ q.pc = "loaded" /\ q.date = 0 =>
                req'[s] = req[s] \/ (req'[s].pc \in {"idle", "loaded"} /\ req'[s].date = 0)
      BY <1>1 DEF Start
    <2>2. QED
      BY <1>3, <2>1 DEF LoadCreate, LoadDelete, LoadUpdate, LoadRecord, Idle
  <1>4. ASSUME NEW r \in Reqs, Look(r)
        PROVE  req'[s] = req[s] \/ (req'[s].pc = "looked" /\ req'[s].date = today)
    <2>1. req[r] \in Live
      BY <1>r, <1>4, RequestIs DEF Look
    <2>2. QED
      BY <1>4, <1>r, <2>1 DEF Look, Live
  <1>5. ASSUME NEW r \in Reqs, Check(r)
        PROVE  \/ req'[s] = req[s]
               \/ /\ req[s].pc = "counted" /\ req'[s].pc = "checked"
                  /\ req'[s].date = req[s].date /\ req'[s].new = req[s].new
                  /\ req'[s].old = req[s].old /\ req'[s].op = req[s].op
    <2>1. req[r] \in Live
      BY <1>r, <1>5, RequestIs DEF Check
    <2>2. QED
      BY <1>5, <1>r, <2>1 DEF Check, Live
  <1>6. ASSUME NEW r \in Reqs, Count(r)
        PROVE  req'[s] = req[s] \/ Count(s)
    BY <1>6, <1>r DEF Count
  <1>7. CASE UNCHANGED vars \/ NextDay
    BY <1>7 DEF vars, NextDay
  <1>8. QED
    BY <1>2, <1>3, <1>4, <1>5, <1>6, <1>7
    DEF Next, CommitCreate, CommitUpdate, CommitDelete, CommitRecord, Refuse, Abort

LEMMA EntryChange ==
  ASSUME TypeInv, [Next]_vars
  PROVE  \/ \A e \in EntryIds : entry'[e] = entry[e] \/ entry'[e] = None
         \/ \E r \in Reqs : /\ req[r].pc = "checked"
                            /\ req' = [req EXCEPT ![r] = Idle]
                            /\ today' = today
                            /\ entry' = Entries(req[r])
  BY Zenon DEF Next, vars, LoadCreate, LoadDelete, LoadUpdate, LoadRecord, Start, Look, Count,
               Check, CommitCreate, CommitUpdate, CommitDelete, CommitRecord, Refuse, Abort,
               NextDay, Finish

\* What a request has sent: a new row, a new status, or nothing.
LEMMA SentIs ==
  ASSUME TypeInv, NEW r \in Reqs, Sent(req[r])
  PROVE  /\ req[r] \in Live /\ req[r].user \in Users /\ req[r].date \in Days
         /\ Status[req[r].op] \in Statuses
         /\ entry \in [EntryIds -> Entry \union {None}]
  BY StatusIs, RequestIs DEF TypeInv, TypeOK, EntryInv, Shape, RequestShape, Sent

LEMMA PutIs ==
  ASSUME TypeInv, NEW r \in Reqs, Sent(req[r]), Inserts(req[r])
  PROVE  /\ req[r].new \in EntryIds
         /\ \A e \in EntryIds : Entries(req[r])[e] =
               IF e = req[r].new
               THEN [ritual |-> req[r].id, user |-> req[r].user, date |-> req[r].date,
                     status |-> Status[req[r].op]]
               ELSE entry[e]
  <1> DEFINE q == req[r]
             new == [ritual |-> q.id, user |-> q.user, date |-> q.date, status |-> Status[q.op]]
  <1>1. q.new \in EntryIds
    BY DEF TypeInv, EntryInv, Shape, Sent, Inserts, RequestShape
  <1>2. Entries(q) = [entry EXCEPT ![q.new] = new]
    BY DEF Entries
  <1>3. entry \in [EntryIds -> Entry \union {None}]
    BY SentIs
  <1> HIDE DEF new
  <1>4. \A e \in EntryIds : Entries(q)[e] = IF e = q.new THEN new ELSE entry[e]
    BY <1>1, <1>2, <1>3
  <1>5. QED
    BY <1>1, <1>4 DEF new

LEMMA ChangeIs ==
  ASSUME TypeInv, NEW r \in Reqs, Sent(req[r]), ~Inserts(req[r])
  PROVE  /\ req[r].old \in [id : EntryIds, status : Statuses]
         /\ ~Updates(req[r]) => Entries(req[r]) = entry
         /\ Updates(req[r]) =>
              /\ entry[req[r].old.id] \in Entry
              /\ \A e \in EntryIds : Entries(req[r])[e] =
                    IF e = req[r].old.id
                    THEN [ritual |-> entry[e].ritual, user |-> entry[e].user,
                          date |-> entry[e].date, status |-> Status[req[r].op]]
                    ELSE entry[e]
  <1> DEFINE q == req[r]
             k == q.old.id
             st == Status[q.op]
             upd == [ritual |-> entry[k].ritual, user |-> entry[k].user,
                     date |-> entry[k].date, status |-> st]
  <1>1. RequestShape(q) /\ Keeps(q)
    BY DEF TypeInv, EntryInv, Shape
  <1>2. entry \in [EntryIds -> Entry \union {None}]
    BY SentIs
  <1>3. q.old \in [id : EntryIds, status : Statuses]
    BY <1>1 DEF Sent, Inserts, RequestShape
  <1>4. ~Updates(q) => Entries(q) = entry
    BY DEF Entries
  <1>5. ASSUME Updates(q)
        PROVE  /\ entry[k] \in Entry
               /\ \A e \in EntryIds : Entries(q)[e] = IF e = k THEN upd ELSE entry[e]
    <2>1. k \in EntryIds /\ entry[k] \in Entry
      BY <1>1, <1>2, <1>3, <1>5 DEF Keeps
    <2>2. Entries(q) = [entry EXCEPT ![k] = [entry[k] EXCEPT !.status = st]]
      BY <1>5 DEF Entries
    <2>3. [entry[k] EXCEPT !.status = st] = upd
      <3> HIDE DEF k, st
      <3>1. QED
        BY <2>1 DEF Entry
    <2> HIDE DEF upd, k
    <2>4. QED
      BY <1>2, <2>1, <2>2, <2>3
  <1>6. QED
    BY <1>3, <1>4, <1>5

LEMMA BookInit == Init => BookInv
  <1> SUFFICES ASSUME Init PROVE BookInv
    OBVIOUS
  <1>1. Idle.date = 0 /\ ~Puts(Idle)
    BY IdleIs DEF Puts, Idle
  <1>2. QED
    BY <1>1, TypeInit DEF Init, BookInv, Dated, KeysFree

LEMMA DatedStep ==
  ASSUME BookInv, [Next]_vars
  PROVE  Dated'
  <1>1. today' \in Nat /\ today \in Nat /\ today <= today'
    <2>1. today \in Nat
      BY DEF BookInv, TypeInv, TypeOK, Days
    <2>2. today' = today \/ NextDay
      BY Zenon DEF Next, vars, LoadCreate, LoadDelete, LoadUpdate, LoadRecord, Start, Look, Count,
                   Check, CommitCreate, CommitUpdate, CommitDelete, CommitRecord, Refuse, Abort
    <2>3. QED
      BY <2>1, <2>2 DEF NextDay
  <1>2. ASSUME NEW e \in EntryIds, entry'[e] # None
        PROVE  entry'[e].date <= today'
    <2>1. CASE entry'[e] = entry[e]
      <3>1. entry[e] \in Entry /\ entry[e].date <= today
        BY <1>2, <2>1 DEF BookInv, Dated, TypeInv, TypeOK
      <3>2. entry[e].date \in Int
        BY <3>1 DEF Entry, Days
      <3>3. QED
        BY <1>1, <2>1, <3>1, <3>2
    <2>2. CASE entry'[e] # entry[e]
      <3>1. PICK r \in Reqs : req[r].pc = "checked" /\ entry' = Entries(req[r])
        BY <1>2, <2>2, EntryChange DEF BookInv
      <3>2. Sent(req[r])
        BY <3>1 DEF BookInv, TypeInv, EntryInv, Shape, RequestShape, Sent
      <3>3. req[r].date <= today /\ req[r].date \in Int
        BY <3>2, SentIs DEF BookInv, Dated, Days
      <3>4. CASE Inserts(req[r])
        <4> DEFINE new == [ritual |-> req[r].id, user |-> req[r].user, date |-> req[r].date,
                           status |-> Status[req[r].op]]
        <4>0. Entries(req[r])[e] = IF e = req[r].new THEN new ELSE entry[e]
          BY <3>2, <3>4, PutIs DEF BookInv
        <4>1. entry'[e].date = req[r].date
          BY <2>2, <3>1, <4>0
        <4>2. QED
          BY <1>1, <3>3, <4>1
      <3>5. CASE Updates(req[r])
        <4> DEFINE upd == [ritual |-> entry[e].ritual, user |-> entry[e].user,
                           date |-> entry[e].date, status |-> Status[req[r].op]]
        <4>0. /\ Entries(req[r])[e] = IF e = req[r].old.id THEN upd ELSE entry[e]
              /\ entry[req[r].old.id] \in Entry
          BY <3>2, <3>5, ChangeIs DEF BookInv, Updates, Inserts
        <4>1. entry'[e].date = entry[e].date /\ entry[e] \in Entry
          BY <2>2, <3>1, <4>0
        <4>2. entry[e].date <= today /\ entry[e].date \in Int
          BY <4>1, EntryIsNotNone DEF BookInv, Dated, Entry, Days
        <4>3. QED
          BY <1>1, <4>1, <4>2
      <3>6. CASE ~Inserts(req[r]) /\ ~Updates(req[r])
        BY <2>2, <3>1, <3>2, <3>6, ChangeIs DEF BookInv
      <3>7. QED
        BY <3>4, <3>5, <3>6
    <2>3. QED
      BY <2>1, <2>2
  <1>3. ASSUME NEW s \in Reqs
        PROVE  req'[s].date <= today'
    <2>1. req[s].date <= today /\ req[s].date \in Int
      <3>1. req[s] \in Request
        BY DEF BookInv, TypeInv, TypeOK
      <3>2. req[s].date \in Int
        BY <3>1, RequestIs DEF Idle, Live
      <3>3. QED
        BY <3>2 DEF BookInv, Dated
    <2>2. CASE Count(s)
      <3>1. req'[s].date = req[s].date
        <4>1. PICK p \in Live : req' = [req EXCEPT ![s] = p] /\ p.date = req[s].date
          BY <2>2, CountedIs DEF BookInv
        <4>2. QED
          BY <4>1 DEF BookInv, TypeInv, TypeOK
      <3>2. QED
        BY <1>1, <2>1, <3>1
    <2>3. CASE ~Count(s)
      <3>1. req'[s].date = req[s].date \/ req'[s].date = 0 \/ req'[s].date = today
        BY <2>3, RequestChange DEF BookInv
      <3>2. QED
        BY <1>1, <2>1, <3>1
    <2>4. QED
      BY <2>2, <2>3
  <1>4. QED
    BY <1>2, <1>3 DEF Dated

LEMMA KeysStep ==
  ASSUME BookInv, [Next]_vars
  PROVE  KeysFree'
  <1>t. req \in [Reqs -> Request]
    BY DEF BookInv, TypeInv, TypeOK
  <1>1. ASSUME NEW s \in Reqs, Puts(req'[s]), ~Count(s)
        PROVE  Puts(req[s]) /\ req'[s].new = req[s].new
    BY <1>1, RequestChange DEF BookInv, Puts, Sent, Inserts
  <1>2. ASSUME NEW s \in Reqs, Count(s)
        PROVE  /\ entry' = entry
               /\ Puts(req'[s]) => entry[req'[s].new] = None /\ ~EntryHeld(s, req'[s].new)
               /\ \A o \in Reqs \ {s} : req'[o] = req[o]
    <2>1. PICK p \in Live : /\ req' = [req EXCEPT ![s] = p]
                            /\ Puts(p) => entry[p.new] = None /\ ~EntryHeld(s, p.new)
      BY <1>2, CountedIs DEF BookInv
    <2>2. entry' = entry
      BY <1>2 DEF Count
    <2>3. QED
      BY <1>t, <2>1, <2>2
  <1>3. ASSUME NEW s \in Reqs, Puts(req'[s])
        PROVE  entry'[req'[s].new] = None
    <2>1. CASE Count(s)
      BY <1>2, <1>3, <2>1
    <2>2. CASE ~Count(s)
      <3>1. /\ Puts(req[s]) /\ req'[s].new = req[s].new /\ entry[req[s].new] = None
            /\ req[s].new \in EntryIds
        <4>1. Puts(req[s]) /\ req'[s].new = req[s].new
          BY <1>1, <1>3, <2>2
        <4>2. QED
          BY <4>1, PutIs DEF BookInv, KeysFree, Puts
      <3>2. CASE \E r \in Reqs : /\ req[r].pc = "checked"
                                 /\ req' = [req EXCEPT ![r] = Idle]
                                 /\ entry' = Entries(req[r])
        <4>1. PICK r \in Reqs : /\ req[r].pc = "checked"
                                /\ req' = [req EXCEPT ![r] = Idle]
                                /\ entry' = Entries(req[r])
          BY <3>2
        <4>2. r # s
          BY <1>3, <1>t, <4>1, IdleIs DEF Puts
        <4>3. Sent(req[r])
          BY <4>1 DEF BookInv, TypeInv, EntryInv, Shape, RequestShape, Sent
        <4>4. CASE Inserts(req[r])
          <5>1. req[r].new # req[s].new
            BY <3>1, <4>2, <4>3, <4>4 DEF BookInv, KeysFree, Puts
          <5>2. QED
            BY <3>1, <4>1, <4>3, <4>4, <5>1, PutIs DEF BookInv
        <4>5. CASE Updates(req[r])
          <5>1. /\ entry[req[r].old.id] \in Entry
                /\ \A e \in EntryIds : e # req[r].old.id => Entries(req[r])[e] = entry[e]
            <6>1. ~Inserts(req[r])
              BY <4>5 DEF Updates, Inserts
            <6>2. QED
              BY <4>3, <4>5, <6>1, ChangeIs DEF BookInv
          <5>2. req[r].old.id # req[s].new
            BY <3>1, <5>1, EntryIsNotNone
          <5>3. QED
            BY <3>1, <4>1, <5>1, <5>2
        <4>6. CASE ~Inserts(req[r]) /\ ~Updates(req[r])
          <5>1. Entries(req[r]) = entry
            BY <4>3, <4>6, ChangeIs DEF BookInv
          <5>2. QED
            BY <3>1, <4>1, <5>1
        <4>7. QED
          BY <4>4, <4>5, <4>6
      <3>3. CASE \A e \in EntryIds : entry'[e] = entry[e] \/ entry'[e] = None
        BY <3>1, <3>3
      <3>4. QED
        BY <3>2, <3>3, EntryChange DEF BookInv
    <2>3. QED
      BY <2>1, <2>2
  <1>4. ASSUME NEW r \in Reqs, NEW s \in Reqs, r # s, Puts(req'[r]), Puts(req'[s])
        PROVE  req'[r].new # req'[s].new
    <2>1. ASSUME NEW a \in Reqs, NEW b \in Reqs, a # b, Puts(req'[a]), Puts(req'[b]), Count(a)
          PROVE  req'[a].new # req'[b].new
      <3>1. req'[b] = req[b] /\ ~EntryHeld(a, req'[a].new)
        BY <1>2, <2>1
      <3>2. req[b] \in Others(a)
        BY <2>1 DEF Others
      <3>3. QED
        BY <2>1, <3>1, <3>2 DEF EntryHeld, Puts
    <2>2. CASE Count(r) \/ Count(s)
      BY <1>4, <2>1, <2>2
    <2>3. CASE ~Count(r) /\ ~Count(s)
      BY <1>1, <1>4, <2>3 DEF BookInv, KeysFree
    <2>4. QED
      BY <2>2, <2>3
  <1>5. QED
    BY <1>3, <1>4 DEF KeysFree, Puts, Sent, Inserts

LEMMA BookAlways == Spec => []BookInv
  <1>1. BookInv /\ [Next]_vars => BookInv'
    BY TypeStep, DatedStep, KeysStep DEF BookInv
  <1>2. QED
    BY BookInit, <1>1, PTL DEF Spec

\* What module RitualBook sees, from the tables.
MarksIn(table, i) ==
    {[user |-> table[e].user, date |-> table[e].date, status |-> table[e].status] :
        e \in {k \in EntryIds : table[k] # None /\ table[k].ritual = i}}

ShownOf(row, marks) ==
    IF row.couple = None THEN None
    ELSE [couple |-> row.couple, active |-> row.active, current |-> row.current,
          longest |-> row.longest, marks |-> marks]

LEMMA ShownIs ==
  /\ Shown = [i \in RitualIds |-> ShownOf(ritual[i], MarksIn(entry, i))]
  /\ Shown' = [i \in RitualIds |-> ShownOf(ritual'[i], MarksIn(entry', i))]
  <1>1. \A i : MarksOf(i) = MarksIn(entry, i)
    BY DEF MarksOf, MarksIn
  <1>2. Shown = [i \in RitualIds |-> ShownOf(ritual[i], MarksIn(entry, i))]
    BY <1>1 DEF Shown, Exists, ShownOf
  <1>3. Shown' = [i \in RitualIds |-> ShownOf(ritual'[i], MarksIn(entry', i))]
    BY DEF MarksOf, MarksIn, Shown, Exists, ShownOf
  <1>4. QED
    BY <1>2, <1>3

LEMMA ShownListed ==
  ASSUME TypeInv, NEW i \in RitualIds, Exists(i)
  PROVE  /\ ShownOf(ritual[i], MarksIn(entry, i)) # None
         /\ ShownOf(ritual[i], MarksIn(entry, i)) =
              [couple |-> ritual[i].couple, active |-> ritual[i].active,
               current |-> ritual[i].current, longest |-> ritual[i].longest,
               marks |-> MarksIn(entry, i)]
  <1> DEFINE M == MarksIn(entry, i)
  <1>1. ritual[i] \in Row
    BY RowIs DEF TypeInv
  <1>2. M \in SUBSET [user : Users, date : Days, status : Statuses]
    <2>1. entry \in [EntryIds -> Entry \union {None}]
      BY DEF TypeInv, TypeOK
    <2>2. QED
      BY <2>1 DEF MarksIn, Entry
  <1> HIDE DEF M
  <1>3. [couple |-> ritual[i].couple, active |-> ritual[i].active,
         current |-> ritual[i].current, longest |-> ritual[i].longest, marks |-> M] \in Listed
    BY <1>1, <1>2 DEF Row, Listed
  <1>4. QED
    BY <1>3, NoneIsNotListed DEF ShownOf, Exists, M

LEMMA Stutters ==
  ASSUME UNCHANGED <<coupleOf, ritual, entry, today>>
  PROVE  UNCHANGED <<coupleOf, Shown, today>>
  BY ShownIs

LEMMA CreateRefines ==
  ASSUME TypeInv, NEW r \in Reqs, CommitCreate(r)
  PROVE  Book!Next
  <1> DEFINE j == req[r].id
             c == coupleOf[req[r].user]
             row == [couple |-> c, active |-> TRUE, current |-> 0, longest |-> 0]
             new == Book!Ritual(c, TRUE, 0, 0, {})
  <1>1. /\ j \in RitualIds /\ c \in Couples /\ c # None /\ ~Exists(j)
        /\ ritual' = [ritual EXCEPT ![j] = row]
        /\ UNCHANGED <<coupleOf, entry, today>>
    <2>1. req[r].id \in RitualIds /\ req[r].user \in Users /\ c # None
      BY DEF CommitCreate, TypeInv, EntryInv, Shape, RequestShape
    <2>2. c \in Couples
      BY <2>1 DEF TypeInv, TypeOK
    <2>3. QED
      BY <2>1, <2>2 DEF CommitCreate
  <1>2. MarksIn(entry, j) = {}
    BY <1>1 DEF MarksIn, TypeInv, EntryInv, EntriesHaveTheirRitual
  <1>3. ShownOf(row, {}) = new
    BY <1>1 DEF ShownOf, Book!Ritual
  <1>4. ShownOf(ritual[j], MarksIn(entry, j)) = None
    BY <1>1 DEF ShownOf, Exists
  <1> HIDE DEF j, c, row, new
  <1>5. Shown[j] = None
    BY <1>1, <1>4, ShownIs
  <1>6. \A i \in RitualIds : ritual'[i] = IF i = j THEN row ELSE ritual[i]
    BY <1>1 DEF TypeInv, TypeOK
  <1>7. Shown' = [Shown EXCEPT ![j] = new]
    BY <1>1, <1>2, <1>3, <1>6, ShownIs
  <1>8. Book!Create(j, c)
    BY <1>1, <1>5, <1>7 DEF Book!Create, new
  <1>9. QED
    BY <1>1, <1>8 DEF Book!Next

LEMMA UpdateRefines ==
  ASSUME TypeInv, NEW r \in Reqs, CommitUpdate(r)
  PROVE  Book!Next \/ UNCHANGED <<coupleOf, Shown, today>>
  <1>1. CASE ~req[r].sets
    BY <1>1, Stutters DEF CommitUpdate
  <1>2. CASE req[r].sets
    <2> DEFINE j == req[r].id
               a == (req[r].op = "activate")
               row == [ritual[j] EXCEPT !.active = a]
               M == MarksIn(entry, j)
    <2>1. /\ j \in RitualIds /\ Exists(j)
          /\ ritual' = [ritual EXCEPT ![j] = row]
          /\ UNCHANGED <<coupleOf, entry, today>>
      BY <1>2 DEF CommitUpdate, TypeInv, EntryInv, Shape, RequestShape
    <2>2. ritual[j] \in Row
      BY <2>1, RowIs DEF TypeInv
    <2>3. a \in BOOLEAN
      OBVIOUS
    <2>4. /\ ShownOf(ritual[j], M) # None
          /\ ShownOf(ritual[j], M) = [couple |-> ritual[j].couple, active |-> ritual[j].active,
                                      current |-> ritual[j].current,
                                      longest |-> ritual[j].longest, marks |-> M]
      BY <2>1, ShownListed
    <2>5. ritual[j].couple # None
      BY <2>1 DEF Exists
    <2> HIDE DEF a, j, M
    <2>6. /\ row.couple = ritual[j].couple /\ row.active = a
          /\ row.current = ritual[j].current /\ row.longest = ritual[j].longest
      BY <2>2 DEF Row
    <2>7. ShownOf(row, M) = [ShownOf(ritual[j], M) EXCEPT !.active = a]
      <3>1. ShownOf(row, M) = [couple |-> ritual[j].couple, active |-> a,
                               current |-> ritual[j].current,
                               longest |-> ritual[j].longest, marks |-> M]
        BY <2>5, <2>6 DEF ShownOf
      <3>2. QED
        BY <2>4, <3>1
    <2> HIDE DEF row
    <2>8. \A i \in RitualIds : ritual'[i] = IF i = j THEN row ELSE ritual[i]
      BY <2>1 DEF TypeInv, TypeOK
    <2>9. Shown[j] = ShownOf(ritual[j], M)
      BY <2>1, ShownIs DEF M
    <2>10. Shown' = [Shown EXCEPT ![j] = [Shown[j] EXCEPT !.active = a]]
      <3> DEFINE new == ShownOf(row, M)
      <3>1. \A i \in RitualIds : Shown'[i] = IF i = j THEN new ELSE Shown[i]
        BY <2>1, <2>8, ShownIs DEF M
      <3>2. new = [Shown[j] EXCEPT !.active = a]
        BY <2>7, <2>9
      <3> HIDE DEF new
      <3>3. Shown' = [Shown EXCEPT ![j] = new]
        BY <3>1, ShownIs
      <3>4. QED
        BY <3>2, <3>3
    <2>11. Book!SetActive(j, a)
      BY <2>1, <2>4, <2>9, <2>10 DEF Book!SetActive
    <2>12. QED
      BY <2>1, <2>3, <2>11 DEF Book!Next
  <1>3. QED
    BY <1>1, <1>2

LEMMA DeleteRefines ==
  ASSUME TypeInv, NEW r \in Reqs, CommitDelete(r)
  PROVE  Book!Next
  <1> DEFINE j == req[r].id
  <1>1. /\ j \in RitualIds
        /\ ritual' = [ritual EXCEPT ![j] = NoRow]
        /\ entry' = [e \in EntryIds |->
              IF entry[e] # None /\ entry[e].ritual = j THEN None ELSE entry[e]]
        /\ UNCHANGED <<coupleOf, today>>
    BY DEF CommitDelete, TypeInv, EntryInv, Shape, RequestShape
  <1> HIDE DEF j
  <1>2. \A i \in RitualIds : ritual'[i] = IF i = j THEN NoRow ELSE ritual[i]
    BY <1>1 DEF TypeInv, TypeOK
  <1>3. \A m : ShownOf(NoRow, m) = None
    BY DEF ShownOf, NoRow
  <1>4. ASSUME NEW i \in RitualIds, i # j
        PROVE  MarksIn(entry', i) = MarksIn(entry, i)
    <2>1. \A e \in EntryIds :
            /\ entry'[e] # None /\ entry'[e].ritual = i <=> entry[e] # None /\ entry[e].ritual = i
            /\ entry'[e] # None => entry'[e] = entry[e]
      BY <1>1, <1>4
    <2>2. QED
      BY <2>1 DEF MarksIn
  <1>5. \A i \in RitualIds : Shown'[i] = IF i = j THEN None ELSE Shown[i]
    BY <1>2, <1>3, <1>4, ShownIs
  <1>6. Shown' = [Shown EXCEPT ![j] = None]
    BY <1>5, ShownIs
  <1>7. Book!Delete(j)
    BY <1>1, <1>6 DEF Book!Delete
  <1>8. QED
    BY <1>1, <1>7 DEF Book!Next

\* The one row that a fresh record leaves different.
LEMMA RecordedIs ==
  ASSUME BookInv, NEW r \in Reqs, CommitRecord(r), Fresh(req[r])
  PROVE  \E k \in EntryIds :
            /\ entry'[k] = [ritual |-> req[r].id, user |-> req[r].user, date |-> today,
                            status |-> Status[req[r].op]]
            /\ \A e \in EntryIds \ {k} : entry'[e] = entry[e]
            /\ entry[k] = None \/ k \in Marks(entry, req[r].id, req[r].user, today)
            /\ Marks(entry, req[r].id, req[r].user, today) \subseteq {k}
  <1> DEFINE q == req[r]
             new == [ritual |-> q.id, user |-> q.user, date |-> today, status |-> Status[q.op]]
  <1>1. entry' = Entries(q) /\ Sent(q)
    BY DEF CommitRecord, BookInv, TypeInv, EntryInv, Shape, RequestShape, Sent
  <1>2. /\ q.date = today
        /\ Marks(entry, q.id, q.user, today) = IF q.old = None THEN {} ELSE {q.old.id}
        /\ q.old # None => entry[q.old.id].status = q.old.status
    BY DEF Fresh
  <1>3. TypeInv /\ KeysFree
    BY DEF BookInv
  <1>4. CASE Inserts(q)
    <2>1. /\ q.new \in EntryIds
          /\ \A e \in EntryIds : entry'[e] = IF e = q.new THEN new ELSE entry[e]
      BY <1>1, <1>2, <1>3, <1>4, PutIs
    <2>2. entry[q.new] = None
      BY <1>1, <1>3, <1>4 DEF KeysFree, Puts
    <2>3. q.old = None
      BY <1>4 DEF Inserts
    <2> HIDE DEF new
    <2>4. QED
      BY <1>2, <2>1, <2>2, <2>3 DEF new
  <1>5. CASE ~Inserts(q)
    <2>1. q.old # None
      BY <1>5 DEF Inserts
    <2> DEFINE k == q.old.id
    <2>2. k \in Marks(entry, q.id, q.user, today)
      BY <1>2, <2>1
    <2>3. /\ k \in EntryIds /\ entry[k] # None /\ entry[k].ritual = q.id
          /\ entry[k].user = q.user /\ entry[k].date = today
      BY <2>2 DEF Marks
    <2>4. entry[k] \in Entry
      BY <2>3 DEF BookInv, TypeInv, TypeOK
    <2>5. CASE Updates(q)
      <3>1. \A e \in EntryIds : entry'[e] =
                IF e = k THEN [ritual |-> entry[e].ritual, user |-> entry[e].user,
                               date |-> entry[e].date, status |-> Status[q.op]]
                ELSE entry[e]
        BY <1>1, <1>3, <1>5, <2>5, ChangeIs
      <3>2. entry'[k] = new
        BY <2>3, <3>1
      <3> HIDE DEF new
      <3>3. QED
        BY <1>2, <2>1, <2>2, <2>3, <3>1, <3>2 DEF new
    <2>6. CASE ~Updates(q)
      <3>1. entry' = entry
        BY <1>1, <1>3, <1>5, <2>6, ChangeIs
      <3>2. entry[k].status = Status[q.op]
        BY <1>2, <2>1, <2>6 DEF Updates
      <3>3. entry[k] = new
        BY <2>3, <2>4, <3>2 DEF Entry
      <3> HIDE DEF new
      <3>4. QED
        BY <1>2, <2>1, <2>2, <2>3, <3>1, <3>3 DEF new
    <2>7. QED
      BY <2>5, <2>6
  <1>6. QED
    BY <1>4, <1>5

\* The marks of a ritual after a fresh record: what module RitualBook says.
LEMMA RecordedMarks ==
  ASSUME BookInv, NEW r \in Reqs, CommitRecord(r), Fresh(req[r])
  PROVE  /\ MarksIn(entry', req[r].id) =
              {m \in MarksIn(entry, req[r].id) : m.user # req[r].user \/ m.date # today}
                \union {Book!Mark(req[r].user, today, Status[req[r].op])}
         /\ \A i \in RitualIds : i # req[r].id => MarksIn(entry', i) = MarksIn(entry, i)
  <1> DEFINE j == req[r].id
             u == req[r].user
             s == Status[req[r].op]
             M == {m \in MarksIn(entry, j) : m.user # u \/ m.date # today}
  <1>1. PICK k \in EntryIds :
            /\ entry'[k] = [ritual |-> j, user |-> u, date |-> today, status |-> s]
            /\ \A e \in EntryIds \ {k} : entry'[e] = entry[e]
            /\ entry[k] = None \/ k \in Marks(entry, j, u, today)
            /\ Marks(entry, j, u, today) \subseteq {k}
    BY RecordedIs
  <1>2. entry'[k] # None
    <2>1. Sent(req[r])
      BY DEF CommitRecord, BookInv, TypeInv, EntryInv, Shape, RequestShape, Sent
    <2>2. j \in RitualIds /\ u \in Users /\ today \in Days /\ s \in Statuses
      BY <2>1, SentIs DEF BookInv, TypeInv, TypeOK, Live
    <2>3. entry'[k] \in Entry
      BY <1>1, <2>2 DEF Entry
    <2>4. QED
      BY <2>3, EntryIsNotNone
  <1>3. entry'[k].ritual = j /\ entry'[k].user = u /\ entry'[k].date = today /\ entry'[k].status = s
    BY <1>1
  <1> HIDE DEF j, u, s
  <1>4. ASSUME NEW i \in RitualIds, i # j
        PROVE  MarksIn(entry', i) = MarksIn(entry, i)
    <2>1. \A e \in EntryIds :
            /\ (entry'[e] # None /\ entry'[e].ritual = i)
                 <=> (entry[e] # None /\ entry[e].ritual = i)
            /\ entry'[e] # None /\ entry'[e].ritual = i => entry'[e] = entry[e]
      BY <1>1, <1>3, <1>4 DEF Marks
    <2>2. QED
      BY <2>1 DEF MarksIn
  <1> DEFINE Of(table, e) == [user |-> table[e].user, date |-> table[e].date,
                              status |-> table[e].status]
             In(table, e) == table[e] # None /\ table[e].ritual = j
             new == Book!Mark(u, today, s)
  <1>5. \A table, m : m \in MarksIn(table, j) <=>
            \E e \in EntryIds : In(table, e) /\ m = Of(table, e)
    BY DEF MarksIn
  <1>6. Of(entry', k) = new /\ In(entry', k)
    BY <1>2, <1>3 DEF Book!Mark
  <1>7. \A e \in EntryIds \ {k} :
            /\ In(entry', e) <=> In(entry, e)
            /\ Of(entry', e) = Of(entry, e)
            /\ In(entry, e) => entry[e].user # u \/ entry[e].date # today
    BY <1>1 DEF Marks
  <1>8. \A e : Of(entry, e).user = entry[e].user /\ Of(entry, e).date = entry[e].date
    OBVIOUS
  <1>9. In(entry, k) => entry[k].user = u /\ entry[k].date = today
    BY <1>1 DEF Marks
  <1> HIDE DEF Of, In, new
  <1>10. ASSUME NEW m \in MarksIn(entry', j)
         PROVE  m \in M \union {new}
    <2>1. PICK e \in EntryIds : In(entry', e) /\ m = Of(entry', e)
      BY <1>5
    <2>2. CASE e = k
      BY <1>6, <2>1, <2>2
    <2>3. CASE e # k
      BY <1>5, <1>7, <1>8, <2>1, <2>3
    <2>4. QED
      BY <2>2, <2>3
  <1>11. ASSUME NEW m \in M
         PROVE  m \in MarksIn(entry', j)
    <2>1. PICK e \in EntryIds : In(entry, e) /\ m = Of(entry, e)
      BY <1>5
    <2>2. e # k
      BY <1>8, <1>9, <2>1
    <2>3. QED
      BY <1>5, <1>7, <2>1, <2>2
  <1>12. new \in MarksIn(entry', j)
    BY <1>5, <1>6
  <1>13. MarksIn(entry', j) = M \union {new}
    BY <1>10, <1>11, <1>12
  <1>14. QED
    BY <1>4, <1>13 DEF j, u, s, new

LEMMA RecordRefines ==
  ASSUME BookInv, Dated', TypeInv', NEW r \in Reqs, CommitRecord(r), Fresh(req[r])
  PROVE  Book!Next
  <1> DEFINE q == req[r]
             j == q.id
             u == q.user
             s == Status[q.op]
             C == Current(q.days, q.now)
             L == Longest(q.days, q.copy.longest)
             M == MarksIn(entry, j)
             N == MarksIn(entry', j)
             D == Book!Completed(N)
  <1>1. /\ Sent(q) /\ TypeInv /\ entry' = Entries(q) /\ UNCHANGED <<coupleOf, today>>
        /\ ritual' = IF MovesStreak(q) THEN [ritual EXCEPT ![j] = Moved(@, q)] ELSE ritual
    BY DEF CommitRecord, BookInv, TypeInv, EntryInv, Shape, RequestShape, Sent
  <1>2. /\ q \in Live /\ j \in RitualIds /\ u \in Users /\ s \in {"COMPLETED", "SKIPPED"}
        /\ q.days \in SUBSET Days
    BY <1>1, SentIs DEF Live, Statuses
  <1>3. /\ q.now = today /\ Exists(j) /\ ritual[j].couple = coupleOf[u]
        /\ ritual[j].current = q.copy.current /\ ritual[j].longest = q.copy.longest
        /\ q.days = CompletedDays(entry', j)
    BY <1>1 DEF Fresh
  <1>4. N = {m \in M : m.user # u \/ m.date # today} \union {Book!Mark(u, today, s)}
    BY RecordedMarks
  <1>5. \A i \in RitualIds : i # j => MarksIn(entry', i) = MarksIn(entry, i)
    BY RecordedMarks
  <1>6. today \in Nat \ {0} /\ entry' \in [EntryIds -> Entry \union {None}]
    BY <1>1 DEF TypeInv, TypeOK, Days
  <1>7. q.days = D /\ D \in SUBSET (1..today)
    <2>1. CompletedDays(entry', j) = D
      <3>1. \A d : d \in D <=> \E e \in EntryIds : /\ entry'[e] # None
                                                 /\ entry'[e].ritual = j
                                                 /\ entry'[e].status = "COMPLETED"
                                                 /\ entry'[e].date = d
        <4> DEFINE Of(e) == [user |-> entry'[e].user, date |-> entry'[e].date,
                             status |-> entry'[e].status]
        <4>1. \A m : m \in N <=> \E e \in EntryIds : /\ entry'[e] # None
                                                    /\ entry'[e].ritual = j
                                                    /\ m = Of(e)
          BY DEF MarksIn
        <4>2. \A e : Of(e).date = entry'[e].date /\ Of(e).status = entry'[e].status
          OBVIOUS
        <4>3. \A d : d \in D <=> \E m \in N : m.status = "COMPLETED" /\ m.date = d
          BY DEF Book!Completed
        <4> HIDE DEF Of, N, D
        <4>4. QED
          BY <4>1, <4>2, <4>3
      <3>2. \A e \in EntryIds : entry'[e] # None => entry'[e].date \in Days
        BY <1>6 DEF Entry
      <3>3. \A d : d \in CompletedDays(entry', j) <=> d \in D
        BY <3>1, <3>2 DEF CompletedDays
      <3>4. QED
        BY <3>3
    <2>2. \A d \in CompletedDays(entry', j) : d \in Days /\ d <= today
      BY <1>1 DEF CompletedDays, Dated
    <2>3. QED
      BY <1>3, <1>6, <2>1, <2>2 DEF Days
  <1>8. C = Book!CurrentOf(D, today) /\ Ascend(q.days) = Book!LongestOf(D)
    BY <1>3, <1>6, <1>7, CurrentIsRun, AscendIsLongest
  <1>9. L = IF Book!LongestOf(D) > ritual[j].longest THEN Book!LongestOf(D) ELSE ritual[j].longest
    BY <1>3, <1>8 DEF Longest
  <1>10. ritual[j] \in Row
    BY <1>2, <1>3, RowIs, <1>1 DEF TypeInv
  <1>11. /\ ritual'[j].couple = ritual[j].couple /\ ritual'[j].active = ritual[j].active
         /\ ritual'[j].current = C /\ ritual'[j].longest = L
         /\ \A i \in RitualIds : i # j => ritual'[i] = ritual[i]
         /\ ritual'[j].couple # None
    <2>1. ritual \in [RitualIds -> Row \union {NoRow}]
      BY <1>1 DEF TypeInv, TypeOK
    <2>2. CASE MovesStreak(q)
      <3> DEFINE c == IF C # q.copy.current THEN C ELSE ritual[j].current
                 l == IF L # q.copy.longest THEN L ELSE ritual[j].longest
      <3>1. Moved(ritual[j], q) = [ritual[j] EXCEPT !.current = c, !.longest = l]
        BY DEF Moved
      <3>2. c = C /\ l = L
        BY <1>3
      <3> HIDE DEF c, l, C, L
      <3>3. /\ Moved(ritual[j], q).couple = ritual[j].couple
            /\ Moved(ritual[j], q).active = ritual[j].active
            /\ Moved(ritual[j], q).current = C
            /\ Moved(ritual[j], q).longest = L
        BY <1>10, <3>1, <3>2 DEF Row
      <3>4. ritual'[j] = Moved(ritual[j], q) /\ \A i \in RitualIds : i # j => ritual'[i] = ritual[i]
        BY <1>1, <1>2, <2>1, <2>2
      <3>5. QED
        BY <1>3, <3>3, <3>4 DEF Exists
    <2>3. CASE ~MovesStreak(q)
      <3>1. ritual' = ritual
        BY <1>1, <2>3
      <3>2. C = q.copy.current /\ L = q.copy.longest
        BY <2>3 DEF MovesStreak
      <3> HIDE DEF C, L
      <3>3. QED
        BY <1>3, <3>1, <3>2 DEF Exists
    <2>4. QED
      BY <2>2, <2>3
  <1>12. /\ Shown[j] # None
         /\ Shown[j] = [couple |-> ritual[j].couple, active |-> ritual[j].active,
                        current |-> ritual[j].current, longest |-> ritual[j].longest,
                        marks |-> M]
    BY <1>1, <1>2, <1>3, ShownListed, ShownIs
  <1> DEFINE new == Book!Ritual(ritual[j].couple, ritual[j].active, C, L, N)
  <1>13. ShownOf(ritual'[j], N) = new
    BY <1>11 DEF ShownOf, Book!Ritual
  <1>14. Shown' = [Shown EXCEPT ![j] = new]
    <2> HIDE DEF new, N
    <2>1. \A i \in RitualIds : Shown'[i] = IF i = j THEN new ELSE Shown[i]
      BY <1>5, <1>11, <1>13, ShownIs DEF N
    <2>2. QED
      BY <2>1, ShownIs
  <1>15. Book!Record(j, u, s)
    <2>1. /\ Shown[j].couple = ritual[j].couple /\ Shown[j].active = ritual[j].active
          /\ Shown[j].longest = ritual[j].longest /\ Shown[j].marks = M
      BY <1>12
    <2>2. UNCHANGED <<coupleOf, today>>
      BY <1>1
    <2> HIDE DEF C, L, N, M, D, j, u, s
    <2>3. N = {m \in Shown[j].marks : m.user # u \/ m.date # today} \union {Book!Mark(u, today, s)}
      BY <1>4, <2>1
    <2>4. new = Book!Ritual(Shown[j].couple, Shown[j].active, Book!CurrentOf(Book!Completed(N), today),
                            IF Book!LongestOf(Book!Completed(N)) > Shown[j].longest
                            THEN Book!LongestOf(Book!Completed(N)) ELSE Shown[j].longest, N)
      BY <1>8, <1>9, <2>1 DEF D
    <2> HIDE DEF new
    <2>5. Shown[j].couple = coupleOf[u] /\ Shown[j] # None
      BY <1>3, <1>12, <2>1
    <2>6. QED
      BY Zenon, <1>14, <2>2, <2>3, <2>4, <2>5 DEF Book!Record
  <1>16. QED
    BY <1>2, <1>15 DEF Book!Next

LEMMA BookRefines ==
  ASSUME BookInv, BookInv', [Next]_vars,
         \A r \in Reqs : req[r].pc = "checked" /\ req'[r] # req[r] => Fresh(req[r])
  PROVE  [Book!Next]_<<coupleOf, Shown, today>>
  <1>1. ASSUME NEW r \in Reqs, CommitRecord(r)
        PROVE  Book!Next
    <2>1. req[r].pc = "checked" /\ req'[r].pc = "idle"
      BY <1>1, IdleIs DEF CommitRecord, Finish, BookInv, TypeInv, TypeOK
    <2>2. Fresh(req[r])
      BY <2>1
    <2>3. QED
      BY <1>1, <2>2, RecordRefines DEF BookInv
  <1>2. ASSUME NEW r \in Reqs, CommitCreate(r) \/ CommitUpdate(r) \/ CommitDelete(r)
        PROVE  Book!Next \/ UNCHANGED <<coupleOf, Shown, today>>
    BY <1>2, CreateRefines, UpdateRefines, DeleteRefines DEF BookInv
  <1>3. ASSUME NextDay
        PROVE  Book!Next
    <2>1. Shown' = Shown
      BY <1>3, ShownIs DEF NextDay
    <2>2. QED
      BY <1>3, <2>1 DEF NextDay, Book!Next, Book!NextDay
  <1>4. CASE UNCHANGED <<coupleOf, ritual, entry, today>>
    BY <1>4, Stutters
  <1>5. \/ \E r \in Reqs : CommitRecord(r) \/ CommitCreate(r) \/ CommitUpdate(r) \/ CommitDelete(r)
        \/ NextDay
        \/ UNCHANGED <<coupleOf, ritual, entry, today>>
    <2>1. ASSUME NEW r \in Reqs, NEW q, Start(r, q)
          PROVE  UNCHANGED <<coupleOf, ritual, entry, today>>
      BY <2>1 DEF Start
    <2>2. ASSUME NEW r \in Reqs, NEW u \in Users, NEW i \in RitualIds,
                 \/ LoadCreate(r, u, i) \/ LoadDelete(r, u, i)
                 \/ \E op \in {"activate", "deactivate"} : LoadUpdate(r, op, u, i)
                 \/ \E op \in DOMAIN Status : LoadRecord(r, op, u, i)
          PROVE  UNCHANGED <<coupleOf, ritual, entry, today>>
      BY <2>1, <2>2, Zenon DEF LoadCreate, LoadDelete, LoadUpdate, LoadRecord
    <2>3. ASSUME NEW r \in Reqs, Look(r) \/ Count(r) \/ Check(r) \/ Refuse(r) \/ Abort(r)
          PROVE  UNCHANGED <<coupleOf, ritual, entry, today>>
      BY <2>3 DEF Look, Count, Check, Refuse, Abort
    <2>4. CASE UNCHANGED vars
      BY <2>4 DEF vars
    <2>5. QED
      BY <2>2, <2>3, <2>4, Zenon DEF Next
  <1>6. QED
    BY <1>1, <1>2, <1>3, <1>4, <1>5

\* Every step of every interleaving, of any number of requests over any number of
\* days, is a step of module RitualBook (one mark per user and day, streaks that
\* count every mark) unless it commits a record that read something stale.
THEOREM BookKeptUnlessStale == Spec => BookUnlessStale
  <1>1. BookInv /\ BookInv' /\ [Next]_vars =>
          [(\A r \in Reqs : req[r].pc = "checked" /\ req'[r] # req[r] => Fresh(req[r]))
             => [Book!Next]_<<coupleOf, Shown, today>>]_vars
    BY BookRefines
  <1>2. QED
    BY <1>1, BookAlways, PTL DEF Spec, BookUnlessStale

-------------------------------------------------------------------------------
(***************************************************************************)
(* One entry per user, ritual and day, and what can break it.              *)
(***************************************************************************)
SameMark(k, l) == k.ritual = l.ritual /\ k.user = l.user /\ k.date = l.date

\* A record's commit writes its own row, or only the status of a row.
LEMMA RecordWrites ==
  ASSUME TypeInv, NEW r \in Reqs, req[r].pc = "checked", entry' = Entries(req[r])
  PROVE  \/ /\ req[r].old = None
            /\ req[r].new \in EntryIds
            /\ entry'[req[r].new].ritual = req[r].id
            /\ entry'[req[r].new].user = req[r].user
            /\ entry'[req[r].new].date = req[r].date
            /\ \A e \in EntryIds \ {req[r].new} : entry'[e] = entry[e]
         \/ /\ req[r].old # None
            /\ \A e \in EntryIds : entry'[e] = entry[e] \/ (/\ entry[e] # None
                                                           /\ SameMark(entry'[e], entry[e]))
  <1> DEFINE q == req[r]
  <1>1. Sent(q)
    BY DEF TypeInv, EntryInv, Shape, RequestShape, Sent
  <1>2. CASE Inserts(q)
    <2> DEFINE new == [ritual |-> q.id, user |-> q.user, date |-> q.date,
                       status |-> Status[q.op]]
    <2>1. q.new \in EntryIds /\ \A e \in EntryIds : entry'[e] = IF e = q.new THEN new ELSE entry[e]
      BY <1>1, <1>2, PutIs
    <2>2. new.ritual = q.id /\ new.user = q.user /\ new.date = q.date
      OBVIOUS
    <2> HIDE DEF new
    <2>3. QED
      BY <1>2, <2>1, <2>2 DEF Inserts
  <1>3. CASE ~Inserts(q)
    <2>1. CASE Updates(q)
      <3>1. entry[q.old.id] # None
        BY <1>1, <1>3, <2>1, ChangeIs, EntryIsNotNone
      <3>2. ASSUME NEW e \in EntryIds
            PROVE  entry'[e] = entry[e] \/ (entry[e] # None /\ SameMark(entry'[e], entry[e]))
        <4> DEFINE upd == [ritual |-> entry[e].ritual, user |-> entry[e].user,
                           date |-> entry[e].date, status |-> Status[q.op]]
        <4>1. entry'[e] = IF e = q.old.id THEN upd ELSE entry[e]
          BY <1>1, <1>3, <2>1, ChangeIs
        <4>2. SameMark(upd, entry[e])
          BY DEF SameMark
        <4> HIDE DEF upd
        <4>3. QED
          BY <3>1, <4>1, <4>2
      <3>3. QED
        BY <1>3, <3>2 DEF Inserts
    <2>2. CASE ~Updates(q)
      BY <1>1, <1>3, <2>2, ChangeIs DEF Inserts
    <2>3. QED
      BY <2>1, <2>2
  <1>4. QED
    BY <1>2, <1>3

\* Entries only come by the commit of a record that found none.
LEMMA MarksChange ==
  ASSUME TypeInv, [Next]_vars
  PROVE  \/ \A i, u, d : Marks(entry', i, u, d) \subseteq Marks(entry, i, u, d)
         \/ \E r \in Reqs :
              /\ req[r].pc = "checked" /\ req[r].old = None
              /\ req' = [req EXCEPT ![r] = Idle]
              /\ \A i, u, d : Marks(entry', i, u, d) \subseteq
                    Marks(entry, i, u, d) \union
                      IF <<i, u, d>> = <<req[r].id, req[r].user, req[r].date>>
                      THEN {req[r].new} ELSE {}
  <1>1. CASE \A e \in EntryIds : entry'[e] = entry[e] \/ entry'[e] = None
    BY <1>1 DEF Marks
  <1>2. ASSUME NEW r \in Reqs, req[r].pc = "checked", req' = [req EXCEPT ![r] = Idle],
               entry' = Entries(req[r])
        PROVE  \/ \A i, u, d : Marks(entry', i, u, d) \subseteq Marks(entry, i, u, d)
               \/ /\ req[r].old = None
                  /\ \A i, u, d : Marks(entry', i, u, d) \subseteq
                        Marks(entry, i, u, d) \union
                          IF <<i, u, d>> = <<req[r].id, req[r].user, req[r].date>>
                          THEN {req[r].new} ELSE {}
    <2>1. CASE req[r].old = None
      <3>1. /\ entry'[req[r].new].ritual = req[r].id
            /\ entry'[req[r].new].user = req[r].user
            /\ entry'[req[r].new].date = req[r].date
            /\ \A e \in EntryIds \ {req[r].new} : entry'[e] = entry[e]
        BY <1>2, <2>1, RecordWrites
      <3>2. ASSUME NEW i, NEW u, NEW d, NEW e \in Marks(entry', i, u, d), e # req[r].new
            PROVE  e \in Marks(entry, i, u, d)
        BY <3>1, <3>2 DEF Marks
      <3>3. ASSUME NEW i, NEW u, NEW d, req[r].new \in Marks(entry', i, u, d)
            PROVE  <<i, u, d>> = <<req[r].id, req[r].user, req[r].date>>
        BY <3>1, <3>3 DEF Marks
      <3>4. QED
        BY <2>1, <3>2, <3>3
    <2>2. CASE req[r].old # None
      <3>1. \A e \in EntryIds : entry'[e] = entry[e] \/ (/\ entry[e] # None
                                                        /\ SameMark(entry'[e], entry[e]))
        BY <1>2, <2>2, RecordWrites
      <3>2. ASSUME NEW i, NEW u, NEW d, NEW e \in Marks(entry', i, u, d)
            PROVE  e \in Marks(entry, i, u, d)
        BY <3>1, <3>2 DEF Marks, SameMark
      <3>3. QED
        BY <3>2
    <2>3. QED
      BY <2>1, <2>2
  <1>3. QED
    BY <1>1, <1>2, EntryChange

LEMMA AtMostOneIs ==
  ASSUME NEW S, \A x, y \in S : x = y
  PROVE  Cardinality(S) <= 1
  <1>1. CASE S = {}
    BY <1>1, FS_EmptySet
  <1>2. CASE S # {}
    <2>1. PICK x \in S : S = {x}
      BY <1>2
    <2>2. QED
      BY <2>1, FS_Singleton
  <1>3. QED
    BY <1>1, <1>2

\* In every interleaving, a second entry of one user, ritual and day (record_entry)
\* needs a commit between a record's lookup and its own commit.
THEOREM NoSecondUnlessStale == Spec => SecondOnlyIfStale
  <1>1. BookInv /\ [Next]_vars =>
          [(\A r \in Reqs : req[r].pc = "checked" /\ req'[r] # req[r] => StillFirst(req[r]))
             => \A i \in RitualIds, u \in Users, d \in Days :
                  \/ Cardinality(Marks(entry', i, u, d)) <= 1
                  \/ Marks(entry', i, u, d) \subseteq Marks(entry, i, u, d)]_vars
    <2> SUFFICES ASSUME BookInv, [Next]_vars,
                        \A r \in Reqs : req[r].pc = "checked" /\ req'[r] # req[r]
                                          => StillFirst(req[r]),
                        NEW i \in RitualIds, NEW u \in Users, NEW d \in Days
                 PROVE  \/ Cardinality(Marks(entry', i, u, d)) <= 1
                        \/ Marks(entry', i, u, d) \subseteq Marks(entry, i, u, d)
      OBVIOUS
    <2>1. CASE Marks(entry', i, u, d) \subseteq Marks(entry, i, u, d)
      BY <2>1
    <2>2. CASE ~(Marks(entry', i, u, d) \subseteq Marks(entry, i, u, d))
      <3>1. PICK r \in Reqs :
              /\ req[r].pc = "checked" /\ req[r].old = None
              /\ req' = [req EXCEPT ![r] = Idle]
              /\ Marks(entry', i, u, d) \subseteq
                    Marks(entry, i, u, d) \union
                      IF <<i, u, d>> = <<req[r].id, req[r].user, req[r].date>>
                      THEN {req[r].new} ELSE {}
        BY <2>2, MarksChange DEF BookInv
      <3>2. i = req[r].id /\ u = req[r].user /\ d = req[r].date
        BY <2>2, <3>1
      <3>3. req'[r] # req[r]
        BY <3>1, IdleIs DEF BookInv, TypeInv, TypeOK
      <3>4. Marks(entry, i, u, d) = {}
        BY <3>1, <3>2, <3>3 DEF StillFirst
      <3>5. \A x, y \in Marks(entry', i, u, d) : x = y
        BY <3>1, <3>4
      <3>6. QED
        BY <3>5, AtMostOneIs
    <2>3. QED
      BY <2>1, <2>2
  <1>2. QED
    BY <1>1, BookAlways, PTL DEF Spec, SecondOnlyIfStale

===============================================================================
