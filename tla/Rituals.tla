------------------------------- MODULE Rituals -------------------------------
(***************************************************************************)
(* The rituals of a couple: create, update, delete and record (complete    *)
(* or skip today) of RitualService over the tables rituals and             *)
(* ritual_entries.                                                         *)
(*                                                                         *)
(* A record is five steps in one READ COMMITTED transaction: Load (the     *)
(* caller, the ritual), Look (the date, the caller's entry of that date),  *)
(* Count (the INSERT or UPDATE of the entry is sent, then the completed    *)
(* dates are read, then the date again), Check (the UPDATE of the streaks  *)
(* is sent, then the entries of the day are read for the answer) and the   *)
(* commit.  Nothing but the primary keys and the foreign key guards the    *)
(* tables: no constraint says that a user has one entry per ritual and     *)
(* day.  A statement that was sent and not committed holds its row: a      *)
(* second one on the row waits.  An INSERT of an entry holds its ritual    *)
(* against deletion only.  The ORM writes the columns that differ from     *)
(* what it loaded, by primary key.                                         *)
(*                                                                         *)
(* A process offers one primary key for all the rituals it inserts, and    *)
(* one for all the entries (module Couple): RitualIds and EntryIds are     *)
(* those keys, and the key of a deleted row comes back.  coupleOf is       *)
(* users.couple_id, read only.  Titles, icons and notes are left out;      *)
(* listing and reading change nothing.                                     *)
(***************************************************************************)
EXTENDS Integers, FiniteSets

CONSTANTS
    Users,      \* registered, active users
    Couples,    \* the couples that exist
    RitualIds,  \* the primary keys the processes offer for rituals
    EntryIds,   \* and for entries
    Reqs,       \* request slots: how many requests are in flight at most
    Limits,     \* plan.max_rituals of a caller's plan; None is "no limit"
    MaxDay,     \* bound: the last day
    Horizon,    \* bound: the days StreaksAreRuns looks at
    None        \* SQL NULL, a row that does not exist, an empty field

VARIABLES
    coupleOf,   \* users.couple_id, read only
    ritual,     \* table rituals: the row of each primary key, or NoRow
    entry,      \* table ritual_entries: the row of each primary key, or None
    today,      \* date.today()
    req         \* what each request holds between two of its steps

vars == <<coupleOf, ritual, entry, today, req>>

Days == 1..MaxDay

Status == [op \in {"complete", "skip"} |-> IF op = "complete" THEN "COMPLETED" ELSE "SKIPPED"]

Statuses == {"COMPLETED", "SKIPPED"}

Streaks == [current : 0..MaxDay, longest : 0..MaxDay]

Row == [couple : Couples, active : BOOLEAN, current : 0..MaxDay, longest : 0..MaxDay]

\* What is at the key of a ritual that does not exist.
NoRow == [couple |-> None, active |-> FALSE, current |-> 0, longest |-> 0]

Entry == [ritual : RitualIds, user : Users, date : Days, status : Statuses]

ASSUME NoneIsNotAValue ==
    None \notin Users \union Couples \union RitualIds \union EntryIds \union Streaks \union Entry
                   \union [id : EntryIds, status : Statuses]

ASSUME Bounds == MaxDay \in Nat \ {0} /\ Horizon \in Nat /\ Limits \subseteq Nat \union {None}

Idle == [pc |-> "idle", op |-> None, user |-> None, id |-> None, sets |-> FALSE,
         copy |-> None, date |-> 0, old |-> None, new |-> None, days |-> {}, now |-> 0]

Request ==
    {Idle} \union
    [pc : {"loaded", "looked", "counted", "checked"},
     op : {"create", "activate", "deactivate", "delete", "complete", "skip"},
     user : Users \union {None},        \* of a create or a record
     id : RitualIds,
     sets : BOOLEAN,                    \* an update changes what it loaded
     copy : Streaks \union {None},      \* the streaks as a record loaded them
     date : 0..MaxDay,
     old : [id : EntryIds, status : Statuses] \union {None},  \* today's entry as found
     new : EntryIds \union {None},      \* the key of the entry it inserts
     days : SUBSET Days,                \* the completed dates as counted
     now : 0..MaxDay]

\* What module RitualBook keeps of a ritual.
Listed ==
    [couple : Couples, active : BOOLEAN, current : 0..MaxDay, longest : 0..MaxDay,
     marks : SUBSET [user : Users, date : Days, status : Statuses]]

ASSUME NoneIsNotListed == None \notin Listed

\* The type invariant.
TypeOK ==
    /\ coupleOf \in [Users -> Couples \union {None}]
    /\ ritual \in [RitualIds -> Row \union {NoRow}]
    /\ entry \in [EntryIds -> Entry \union {None}]
    /\ today \in Days
    /\ req \in [Reqs -> Request]

Init ==
    /\ coupleOf \in [Users -> Couples \union {None}]
    /\ \E u \in Users : coupleOf[u] # None
    /\ ritual = [i \in RitualIds |-> NoRow]
    /\ entry = [e \in EntryIds |-> None]
    /\ today = 1
    /\ req = [r \in Reqs |-> Idle]

Exists(i) == ritual[i].couple # None

-------------------------------------------------------------------------------
(***************************************************************************)
(* The streaks: the two loops of _recalculate_streaks over the distinct    *)
(* completed dates, with the date of the second date.today().              *)
(***************************************************************************)

LastOf(D) == CHOOSE d \in D : \A e \in D : e <= d

\* for i, d in enumerate(dates): count while d is dates[0] less i days.
Descend(D) ==
    LET streak[d \in 0..LastOf(D)] == IF d \in D THEN 1 + streak[d - 1] ELSE 0
    IN  streak[LastOf(D)]

Current_TodayOnly(D, now) ==
    IF D = {} \/ LastOf(D) # now THEN 0 ELSE Descend(D)

Current(D, now) ==
    IF D = {} \/ LastOf(D) \notin {now, now - 1} THEN 0 ELSE Descend(D)

\* for i, d in enumerate(sorted_asc): the run that ends at d, the longest so far.
Ascend(D) ==
    LET top == IF D = {} THEN 0 ELSE LastOf(D)
        step[d \in 0..top] ==
            IF d = 0 THEN [run |-> 0, longest |-> 0]
            ELSE IF d \notin D THEN step[d - 1]
            ELSE IF d - 1 \in D \/ \A e \in D : d <= e
                 THEN LET run == step[d - 1].run + 1
                      IN  [run |-> run,
                           longest |-> IF run > step[d - 1].longest THEN run
                                       ELSE step[d - 1].longest]
            ELSE [run |-> 1, longest |-> step[d - 1].longest]
    IN  step[top].longest

Longest_Added(D, loaded) == Ascend(D) + loaded

Longest(D, loaded) == IF Ascend(D) > loaded THEN Ascend(D) ELSE loaded

-------------------------------------------------------------------------------
(***************************************************************************)
(* What a record has sent and not committed.                               *)
(***************************************************************************)
Sent(q) == q.op \in DOMAIN Status /\ q.pc \in {"counted", "checked"}

Inserts(q) == q.old = None

Updates(q) == q.old # None /\ q.old.status # Status[q.op]

\* The columns of the ritual that differ from the loaded ones are written.
MovesStreak(q) ==
    \/ Current(q.days, q.now) # q.copy.current
    \/ Longest(q.days, q.copy.longest) # q.copy.longest

Entries_DatedLater(q) ==
    IF Inserts(q)
    THEN [entry EXCEPT ![q.new] = [ritual |-> q.id, user |-> q.user, date |-> q.now,
                                    status |-> Status[q.op]]]
    ELSE IF Updates(q) THEN [entry EXCEPT ![q.old.id].status = Status[q.op]]
    ELSE entry

\* Table ritual_entries as the transaction of q sees it.
Entries(q) ==
    IF Inserts(q)
    THEN [entry EXCEPT ![q.new] = [ritual |-> q.id, user |-> q.user, date |-> q.date,
                                    status |-> Status[q.op]]]
    ELSE IF Updates(q) THEN [entry EXCEPT ![q.old.id].status = Status[q.op]]
    ELSE entry

CompletedDays_AnyStatus(table, i) ==
    {d \in Days : \E e \in EntryIds : /\ table[e] # None
                                     /\ table[e].ritual = i
                                     /\ table[e].date = d}

CompletedDays(table, i) ==
    {d \in Days : \E e \in EntryIds : /\ table[e] # None
                                     /\ table[e].ritual = i
                                     /\ table[e].date = d
                                     /\ table[e].status = "COMPLETED"}

\* _get_entry: the rows scalar_one_or_none chooses from.
Marks(table, i, u, d) ==
    {e \in EntryIds : /\ table[e] # None
                     /\ table[e].ritual = i
                     /\ table[e].user = u
                     /\ table[e].date = d}

\* _get_partner: the other users of the caller's couple.
Partners(q) == {v \in Users \ {q.user} : coupleOf[v] = coupleOf[q.user]}

Others(r) == {req[s] : s \in Reqs \ {r}}

\* Rows held by the requests in flight.
EntryHeld(r, e) ==
    \E q \in Others(r) : Sent(q) /\ \/ Inserts(q) /\ q.new = e
                                    \/ Updates(q) /\ q.old.id = e

RitualHeld(r, i) ==
    \E q \in Others(r) : Sent(q) /\ q.pc = "checked" /\ q.id = i /\ MovesStreak(q)

HeldAgainstDelete(r, i) ==
    \/ RitualHeld(r, i)
    \/ \E q \in Others(r) : Sent(q) /\ Inserts(q) /\ q.id = i
    \/ \E e \in EntryIds : entry[e] # None /\ entry[e].ritual = i /\ EntryHeld(r, e)

-------------------------------------------------------------------------------
(***************************************************************************)
(* The steps of a request.                                                 *)
(***************************************************************************)
Active(c) == {i \in RitualIds : Exists(i) /\ ritual[i].couple = c /\ ritual[i].active}

Start(r, q) ==
    /\ req[r] = Idle
    /\ req' = [req EXCEPT ![r] = q]
    /\ UNCHANGED <<coupleOf, ritual, entry, today>>

\* create_ritual up to its guard: the caller's plan and the number of active
\* rituals.
LoadCreate(r, u, i) ==
    /\ coupleOf[u] # None
    /\ \E l \in Limits : l # None => Cardinality(Active(coupleOf[u])) < l
    /\ Start(r, [Idle EXCEPT !.pc = "loaded", !.op = "create", !.user = u, !.id = i])

\* require_couple and _get_owned: a ritual of the caller's couple.
Owned(u, i) == coupleOf[u] # None /\ Exists(i) /\ ritual[i].couple = coupleOf[u]

LoadDelete(r, u, i) ==
    /\ Owned(u, i)
    /\ Start(r, [Idle EXCEPT !.pc = "loaded", !.op = "delete", !.id = i])

\* update_ritual: is_active is written if it differs from what was loaded.
LoadUpdate(r, op, u, i) ==
    /\ Owned(u, i)
    /\ Start(r, [Idle EXCEPT !.pc = "loaded", !.op = op, !.id = i,
                             !.sets = (ritual[i].active # (op = "activate"))])

LoadRecord(r, op, u, i) ==
    /\ Owned(u, i)
    /\ Start(r, [Idle EXCEPT !.pc = "loaded", !.op = op, !.user = u, !.id = i,
                             !.copy = [current |-> ritual[i].current,
                                       longest |-> ritual[i].longest]])

Finish(r) == req' = [req EXCEPT ![r] = Idle]

CommitCreate(r) ==
    /\ req[r].pc = "loaded"
    /\ req[r].op = "create"
    /\ ~Exists(req[r].id)
    /\ ritual' = [ritual EXCEPT ![req[r].id] =
            [couple |-> coupleOf[req[r].user], active |-> TRUE, current |-> 0, longest |-> 0]]
    /\ Finish(r)
    /\ UNCHANGED <<coupleOf, entry, today>>

CommitUpdate(r) ==
    /\ req[r].pc = "loaded"
    /\ req[r].op \in {"activate", "deactivate"}
    /\ IF req[r].sets
       THEN /\ Exists(req[r].id)
            /\ ~RitualHeld(r, req[r].id)
            /\ ritual' = [ritual EXCEPT ![req[r].id].active = (req[r].op = "activate")]
       ELSE UNCHANGED ritual
    /\ Finish(r)
    /\ UNCHANGED <<coupleOf, entry, today>>

CommitDelete_KeepsEntries(r) ==
    /\ req[r].pc = "loaded"
    /\ req[r].op = "delete"
    /\ ~HeldAgainstDelete(r, req[r].id)
    /\ ritual' = [ritual EXCEPT ![req[r].id] = NoRow]
    /\ Finish(r)
    /\ UNCHANGED <<coupleOf, entry, today>>

\* delete_ritual: the entries that are there (cascade of the relationship and
\* of the foreign key), and the row.
CommitDelete(r) ==
    /\ req[r].pc = "loaded"
    /\ req[r].op = "delete"
    /\ ~HeldAgainstDelete(r, req[r].id)
    /\ ritual' = [ritual EXCEPT ![req[r].id] = NoRow]
    /\ entry' = [e \in EntryIds |->
            IF entry[e] # None /\ entry[e].ritual = req[r].id THEN None ELSE entry[e]]
    /\ Finish(r)
    /\ UNCHANGED <<coupleOf, today>>

\* record_entry: date.today() and the caller's entry of that date.
Look(r) ==
    /\ req[r].pc = "loaded"
    /\ req[r].op \in DOMAIN Status
    /\ LET mine == Marks(entry, req[r].id, req[r].user, today)
           found(e) == [id |-> e, status |-> entry[e].status]
       IN  \/ /\ mine = {}
              /\ req' = [req EXCEPT ![r].pc = "looked", ![r].date = today]
           \/ \E e \in mine :
              /\ mine = {e}
              /\ req' = [req EXCEPT ![r].pc = "looked", ![r].date = today, ![r].old = found(e)]
    /\ UNCHANGED <<coupleOf, ritual, entry, today>>

\* The row the statement needs is there; the key it inserts is free.
CanSend(q) ==
    IF Inserts(q) THEN entry[q.new] = None /\ Exists(q.id)
    ELSE Updates(q) => entry[q.old.id] # None

\* The request with the key the process has for an entry, if it inserts one.
Keyed(q) == IF Inserts(q) THEN {[q EXCEPT !.new = e] : e \in EntryIds} ELSE {q}

\* The flush of the entry, then the SELECT of _recalculate_streaks, which sees
\* what is committed and the entry just sent, then its date.today().
Count(r) ==
    /\ req[r].pc = "looked"
    /\ \E q \in Keyed(req[r]) :
        /\ CanSend(q)
        /\ Inserts(q) => ~EntryHeld(r, q.new)
        /\ Updates(q) => ~EntryHeld(r, q.old.id)
        /\ req' = [req EXCEPT ![r] =
                [q EXCEPT !.pc = "counted", !.now = today,
                          !.days = CompletedDays(Entries(q), q.id)]]
    /\ UNCHANGED <<coupleOf, ritual, entry, today>>

\* The three scalar_one_or_none after the flush of the ritual.
Unambiguous(q) ==
    /\ Cardinality(Partners(q)) <= 1
    /\ \A u \in Partners(q) \union {q.user} :
        Cardinality(Marks(Entries(q), q.id, u, q.date)) <= 1

Check(r) ==
    /\ req[r].pc = "counted"
    /\ MovesStreak(req[r]) => Exists(req[r].id) /\ ~RitualHeld(r, req[r].id)
    /\ Unambiguous(req[r])
    /\ req' = [req EXCEPT ![r].pc = "checked"]
    /\ UNCHANGED <<coupleOf, ritual, entry, today>>

\* The columns that were not changed keep what is committed.
Moved(row, q) ==
    [row EXCEPT
        !.current = IF Current(q.days, q.now) # q.copy.current THEN Current(q.days, q.now) ELSE @,
        !.longest = IF Longest(q.days, q.copy.longest) # q.copy.longest
                    THEN Longest(q.days, q.copy.longest) ELSE @]

CommitRecord(r) ==
    /\ req[r].pc = "checked"
    /\ entry' = Entries(req[r])
    /\ ritual' = IF MovesStreak(req[r])
                 THEN [ritual EXCEPT ![req[r].id] = Moved(@, req[r])]
                 ELSE ritual
    /\ Finish(r)
    /\ UNCHANGED <<coupleOf, today>>

\* The errors: a key that is taken, a row that is gone (StaleDataError, foreign
\* key), more than one row where scalar_one_or_none expects one.
Refuse(r) ==
    /\ LET q == req[r]
       IN  \/ q.pc = "loaded" /\ q.op = "create" /\ Exists(q.id)
           \/ q.pc = "loaded" /\ q.op \in {"activate", "deactivate"}
                /\ q.sets /\ ~Exists(q.id)
           \/ q.pc = "loaded" /\ q.op \in DOMAIN Status
                /\ Cardinality(Marks(entry, q.id, q.user, today)) > 1
           \/ q.pc = "looked" /\ \E k \in Keyed(q) : ~CanSend(k)
           \/ q.pc = "counted" /\ MovesStreak(q) /\ ~Exists(q.id)
           \/ q.pc = "counted" /\ ~Unambiguous(q)
    /\ Finish(r)
    /\ UNCHANGED <<coupleOf, ritual, entry, today>>

\* A cancelled request, a lost connection, a killed process: rolled back.
Abort(r) ==
    /\ req[r] # Idle
    /\ Finish(r)
    /\ UNCHANGED <<coupleOf, ritual, entry, today>>

\* Midnight, between any two steps of a request.
NextDay ==
    /\ today < MaxDay
    /\ today' = today + 1
    /\ UNCHANGED <<coupleOf, ritual, entry, req>>

Next ==
    \/ \E r \in Reqs :
        \/ \E u \in Users, i \in RitualIds : LoadCreate(r, u, i)
        \/ \E u \in Users, i \in RitualIds : LoadDelete(r, u, i)
        \/ \E op \in {"activate", "deactivate"}, u \in Users, i \in RitualIds :
            LoadUpdate(r, op, u, i)
        \/ \E op \in DOMAIN Status, u \in Users, i \in RitualIds : LoadRecord(r, op, u, i)
        \/ CommitCreate(r)
        \/ CommitUpdate(r)
        \/ CommitDelete(r)
        \/ Look(r)
        \/ Count(r)
        \/ Check(r)
        \/ CommitRecord(r)
        \/ Refuse(r)
        \/ Abort(r)
    \/ NextDay

Spec == Init /\ [][Next]_vars

-------------------------------------------------------------------------------
(***************************************************************************)
(* Properties of every interleaving.                                       *)
(***************************************************************************)

\* "Deleting a ritual removes all its entries", the ones that other requests are
\* inserting meanwhile included: no entry is ever left without its ritual, and
\* none turns up among the entries of a later ritual with the same row id.
EntriesHaveTheirRitual ==
    \A e \in EntryIds : entry[e] # None => Exists(entry[e].ritual)

\* The rituals as module RitualBook sees them: the ids of the entries hidden.
MarksOf(i) ==
    {[user |-> entry[e].user, date |-> entry[e].date, status |-> entry[e].status] :
        e \in {k \in EntryIds : entry[k] # None /\ entry[k].ritual = i}}

Shown ==
    [i \in RitualIds |->
        IF ~Exists(i) THEN None
        ELSE [couple |-> ritual[i].couple, active |-> ritual[i].active,
              current |-> ritual[i].current, longest |-> ritual[i].longest,
              marks |-> MarksOf(i)]]

Book == INSTANCE RitualBook WITH book <- Shown

\* What a record read before its commit still holds: the day, whose the ritual
\* is, its streaks, the caller's entry, the completed dates.
Fresh(q) ==
    /\ q.date = today
    /\ q.now = today
    /\ Exists(q.id)
    /\ ritual[q.id].couple = coupleOf[q.user]
    /\ ritual[q.id].current = q.copy.current
    /\ ritual[q.id].longest = q.copy.longest
    /\ Marks(entry, q.id, q.user, today) = IF q.old = None THEN {} ELSE {q.old.id}
    /\ q.old # None => entry[q.old.id].status = q.old.status
    /\ q.days = CompletedDays(Entries(q), q.id)

\* Every step of every interleaving is a step of module RitualBook (one mark per
\* user and day, streaks that count the marks) unless it is the commit of a
\* record that read something which changed before the commit.
BookUnlessStale ==
    [][(\A r \in Reqs : req[r].pc = "checked" /\ req'[r] # req[r] => Fresh(req[r]))
       => [Book!Next]_<<coupleOf, Shown, today>>]_vars

\* The row the record is about to insert is the first one of its user, ritual and
\* day still, if _get_entry found none.
StillFirst(q) == q.old = None => Marks(entry, q.id, q.user, q.date) = {}

\* No user gets a second entry of one ritual and day, on whichever side of midnight
\* and over however many deletions and other people's records, but by the commit of
\* a record that found no entry while one has been committed since.
SecondOnlyIfStale ==
    [][(\A r \in Reqs : req[r].pc = "checked" /\ req'[r] # req[r] => StillFirst(req[r]))
       => \A i \in RitualIds, u \in Users, d \in Days :
            \/ Cardinality(Marks(entry', i, u, d)) <= 1
            \/ Marks(entry', i, u, d) \subseteq Marks(entry, i, u, d)]_vars

\* Whenever no request is under way, for the days ahead up to Horizon, whichever of
\* them will have been completed: the loops over the dates will find what the two
\* definitions of module RitualBook say, the days in a row up to today or
\* yesterday, and the most in a row.
StreaksAreRuns ==
    (\A r \in Reqs : req[r] = Idle) =>
        \A now \in today..Horizon : \A D \in SUBSET (1..now) :
            /\ Current(D, now) = Book!CurrentOf(D, now)
            /\ Ascend(D) = Book!LongestOf(D)

(***************************************************************************)
(* What the documentation states of every behaviour.                       *)
(***************************************************************************)

\* "A user can only mark one entry per day per ritual."
OneEntryPerDay ==
    \A i \in RitualIds, u \in Users, d \in Days : Cardinality(Marks(entry, i, u, d)) <= 1

===============================================================================
