-------------------------- MODULE SurpriseLifecycle --------------------------
(***************************************************************************)
(* What the surprise endpoints promise (routers/README.md, "Surprise"): a  *)
(* surprise is hidden until its time, then delivered, then opened, once;   *)
(* its sender may edit it or take it back until it is opened; opened, it   *)
(* is immutable.                                                           *)
(***************************************************************************)
CONSTANTS
    SurpriseIds,    \* the identifiers a surprise can get
    Texts,          \* what a surprise can say
    None            \* "no such surprise"

VARIABLE surprise   \* the surprise each identifier names

Prepared(status, t, due) == [status |-> status, text |-> t, due |-> due]

Init == surprise = [i \in SurpriseIds |-> None]

Prepare(i, t) ==
    /\ surprise[i] = None
    /\ \/ surprise' = [surprise EXCEPT ![i] = Prepared("locked", t, FALSE)]
       \/ surprise' = [surprise EXCEPT ![i] = Prepared("delivered", t, TRUE)]

Holds(i, S) == surprise[i] # None /\ surprise[i].status \in S

\* The time of a hidden surprise comes.
Elapse(i) ==
    /\ Holds(i, {"locked"})
    /\ surprise' = [surprise EXCEPT ![i] = Prepared("locked", surprise[i].text, TRUE)]

\* Every hidden surprise of a set whose time has come is delivered.
Deliver(S) ==
    /\ \A i \in S : Holds(i, {"locked"}) /\ surprise[i].due
    /\ surprise' = [i \in SurpriseIds |->
            IF i \in S THEN [surprise[i] EXCEPT !.status = "delivered"] ELSE surprise[i]]

Edit(i, t) ==
    /\ Holds(i, {"locked", "delivered"})
    /\ surprise' = [surprise EXCEPT ![i].text = t]

TakeBack(i) ==
    /\ Holds(i, {"locked", "delivered"})
    /\ surprise' = [surprise EXCEPT ![i] = None]

\* Opening delivers on the way a surprise whose time has come.
Open(i) ==
    /\ Holds(i, {"delivered"}) \/ (Holds(i, {"locked"}) /\ surprise[i].due)
    /\ surprise' = [surprise EXCEPT ![i].status = "opened"]

Next ==
    \/ \E i \in SurpriseIds :
        \/ \E t \in Texts : Prepare(i, t) \/ Edit(i, t)
        \/ Elapse(i)
        \/ TakeBack(i)
        \/ Open(i)
    \/ \E S \in SUBSET SurpriseIds : Deliver(S)

Spec == Init /\ [][Next]_surprise

==============================================================================
