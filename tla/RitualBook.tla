------------------------------ MODULE RitualBook ------------------------------
(***************************************************************************)
(* What the ritual endpoints promise: a couple keeps rituals, each partner *)
(* marks a ritual once a day as completed or skipped, and the ritual       *)
(* counts the days in a row on which somebody completed it (router README, *)
(* section Ritual; RitualService._recalculate_streaks).  A step is a whole *)
(* operation.                                                              *)
(***************************************************************************)
EXTENDS Integers

CONSTANTS
    Users,      \* who marks
    Couples,    \* whose rituals
    RitualIds,  \* the identifiers a ritual can get
    MaxDay,     \* bound: the last day
    None        \* "no such ritual"

VARIABLES
    coupleOf,   \* which couple a user belongs to, fixed
    book,       \* the rituals, each with its marks and its streaks
    today

vars == <<coupleOf, book, today>>

Ritual(c, active, current, longest, marks) ==
    [couple |-> c, active |-> active, current |-> current, longest |-> longest, marks |-> marks]

Mark(u, d, s) == [user |-> u, date |-> d, status |-> s]

Init ==
    /\ coupleOf \in [Users -> Couples \union {None}]
    /\ book = [i \in RitualIds |-> None]
    /\ today = 1

LargestOf(S) == CHOOSE n \in S : \A k \in S : k <= n

\* How many days in a row, up to day d, are in D.
DaysUpTo(D, d) == LargestOf({n \in 0..d : (d - n + 1)..d \subseteq D})

\* The streak on day t: today need not be marked yet.
CurrentOf(D, t) == IF t \in D THEN DaysUpTo(D, t) ELSE DaysUpTo(D, t - 1)

LongestOf(D) == LargestOf({0} \union {DaysUpTo(D, d) : d \in D})

Completed(marks) == {m.date : m \in {k \in marks : k.status = "COMPLETED"}}

Create(i, c) ==
    /\ book[i] = None
    /\ book' = [book EXCEPT ![i] = Ritual(c, TRUE, 0, 0, {})]
    /\ UNCHANGED <<coupleOf, today>>

SetActive(i, a) ==
    /\ book[i] # None
    /\ book' = [book EXCEPT ![i].active = a]
    /\ UNCHANGED <<coupleOf, today>>

Delete(i) ==
    /\ book' = [book EXCEPT ![i] = None]
    /\ UNCHANGED <<coupleOf, today>>

\* A partner of the ritual's couple marks today, in place of an earlier mark of the same day, and both
\* streaks count every mark there is then.
Record(i, u, s) ==
    /\ book[i] # None
    /\ book[i].couple = coupleOf[u]
    /\ LET old == book[i]
           marks == {m \in old.marks : m.user # u \/ m.date # today}
                      \union {Mark(u, today, s)}
           longest == LongestOf(Completed(marks))
       IN  book' = [book EXCEPT ![i] =
                        Ritual(old.couple, old.active, CurrentOf(Completed(marks), today),
                               IF longest > old.longest THEN longest ELSE old.longest, marks)]
    /\ UNCHANGED <<coupleOf, today>>

NextDay ==
    /\ today < MaxDay
    /\ today' = today + 1
    /\ UNCHANGED <<coupleOf, book>>

Next ==
    \/ \E i \in RitualIds :
        \/ \E c \in Couples : Create(i, c)
        \/ \E a \in BOOLEAN : SetActive(i, a)
        \/ Delete(i)
        \/ \E u \in Users, s \in {"COMPLETED", "SKIPPED"} : Record(i, u, s)
    \/ NextDay

Spec == Init /\ [][Next]_vars

===============================================================================
