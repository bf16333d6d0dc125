------------------------------- MODULE Presence -------------------------------
(***************************************************************************)
(* The websocket room of one couple in one server process, and the         *)
(* presence keys of its users: ConectionManager (a list of clients per     *)
(* couple), handle_couple_ws with _dispatch, PresenceService (a Redis key  *)
(* per user with a time to live).                                          *)
(*                                                                         *)
(* The handlers are coroutines of one event loop: they switch where they   *)
(* await Redis or a send.  broadcast_to_couple iterates over the list      *)
(* itself, so the list changes under it: Python's list iterator is an      *)
(* index, an element removed before it moves the others under it, and a    *)
(* list that was emptied and dropped from the rooms is not the list of the *)
(* next connection.  A client whose send raised is collected, and          *)
(* disconnected after the loop.  Only connect and disconnect touch the     *)
(* room; neither switches between its reads and its writes.                *)
(*                                                                         *)
(* A tab is a slot for one connection at a time.  Messages are what        *)
(* matters of them: a presence event (on, off) or another one.  due and    *)
(* missed are history: whom a broadcast still owes its event, and which    *)
(* tabs an "off" never reached.                                            *)
(***************************************************************************)
EXTENDS Integers, Sequences, SequencesExt, FiniteSets

CONSTANTS
    Users,      \* the members of the couple
    Tabs,       \* slots for websocket connections
    MaxTabs,    \* bound: how many of them one user has at once
    MaxCasts,   \* bound: how many broadcasts are under way at once
    None        \* nobody, no broadcast

VARIABLES
    room,       \* _rooms[couple_id]: the clients; <<>> is "no room"
    conn,       \* the connection of each tab
    cast,       \* the broadcast that each handler is in, or None
    online      \* the users whose key online:{user_id} exists

vars == <<room, conn, cast, online>>

ASSUME NoneIsNobody == None \notin Users

ASSUME Bounds == MaxTabs \in Nat \ {0} /\ MaxCasts \in Nat \ {0}

Closed == [pc |-> "closed", user |-> None, alive |-> FALSE, seen |-> {}, missed |-> FALSE]

\* "zombie": the handler raised before its try block, the client stays listed.
Connection ==
    {Closed} \union
    [pc : {"joined", "greeting", "open", "sharing", "leaving", "parting", "zombie"},
     user : Users,
     alive : BOOLEAN,           \* the browser is there
     seen : SUBSET Users,       \* whom it shows as online
     missed : BOOLEAN]          \* an "off" did not reach it

Broadcast ==
    [about : Users \union {None},
     kind : {"on", "off", "other"},
     exclude : Users \union {None},
     at : Nat,                  \* the index of the iterator: how many it passed
     over : BOOLEAN,            \* the list it iterates over was emptied
     dead : SUBSET Tabs,        \* whose send raised and who are still listed
     due : SUBSET Tabs]         \* listed from the start and not reached yet

ASSUME NoneIsNoBroadcast == None \notin Broadcast

\* The type invariant: no connection is listed twice, the iterators stay in
\* their list or behind its end by what was removed.
TypeOK ==
    /\ room \in Seq(Tabs)
    /\ \A i, j \in DOMAIN room : room[i] = room[j] => i = j
    /\ conn \in [Tabs -> Connection]
    /\ cast \in [Tabs -> Broadcast \union {None}]
    /\ online \subseteq Users

Init ==
    /\ room = <<>>
    /\ conn = [t \in Tabs |-> Closed]
    /\ cast = [k \in Tabs |-> None]
    /\ online = {}

-------------------------------------------------------------------------------
(***************************************************************************)
(* The room and the iterators over it.                                     *)
(***************************************************************************)
InRoom == ToSet(room)

\* for client in self._rooms.get(couple_id, []): a broadcast that begins now.
NewCast(u, kind, exclude, r) ==
    [about |-> u, kind |-> kind, exclude |-> exclude, at |-> 0, over |-> r = <<>>,
     dead |-> {}, due |-> {w \in ToSet(r) : conn[w].user # exclude}]

\* Bound: a handler begins a broadcast when fewer than MaxCasts are under way.
MayBegin == Cardinality({k \in DOMAIN cast : cast[k] # None}) < MaxCasts

\* The broadcasts of the other handlers when the list becomes r.
Adjusted(r) ==
    [k \in DOMAIN cast |->
        IF cast[k] = None THEN None
        ELSE IF r = <<>> THEN [cast[k] EXCEPT !.over = TRUE, !.at = 0, !.dead = {}, !.due = {}]
        ELSE [cast[k] EXCEPT !.dead = @ \intersect ToSet(r), !.due = @ \intersect ToSet(r)]]

\* The next position the iterator of c stops at; 0 at the end.  Clients of the
\* excluded user are passed without a switch.
NextAt(c) ==
    IF c.over THEN 0
    ELSE SelectInSubSeq(room, c.at + 1, Len(room), LAMBDA w : conn[w].user # c.exclude)

\* The list r less the clients in D.
Without(r, D) ==
    LET kept[n \in 0..Len(r)] ==
            IF n = 0 THEN <<>>
            ELSE IF r[n] \in D THEN kept[n - 1]
            ELSE Append(kept[n - 1], r[n])
    IN  kept[Len(r)]

RemoveClient_AllOfUser(r, t) == Without(r, {w \in Tabs : conn[w].user = conn[t].user})

\* disconnect: room.remove(client), if it is listed.
RemoveClient(r, t) == RemoveFirst(r, t)

-------------------------------------------------------------------------------
(***************************************************************************)
(* A connection.                                                           *)
(***************************************************************************)
Accept_Twice(t, u) ==
    /\ conn[t] = Closed
    /\ Cardinality({w \in Tabs : conn[w].user = u}) < MaxTabs
    /\ conn' = [conn EXCEPT ![t] = [Closed EXCEPT !.pc = "joined", !.user = u, !.alive = TRUE]]
    /\ room' = room \o <<t, t>>
    /\ UNCHANGED <<cast, online>>

\* connect: accept, append, start the pings.
Accept(t, u) ==
    /\ conn[t] = Closed
    /\ Cardinality({w \in Tabs : conn[w].user = u}) < MaxTabs
    /\ conn' = [conn EXCEPT ![t] = [Closed EXCEPT !.pc = "joined", !.user = u, !.alive = TRUE]]
    /\ room' = Append(room, t)
    /\ UNCHANGED <<cast, online>>

\* set_online (SETEX), and the broadcast of "online" begins.
Greet(t) ==
    /\ conn[t].pc = "joined"
    /\ MayBegin
    /\ online' = online \union {conn[t].user}
    /\ conn' = [conn EXCEPT ![t].pc = "greeting"]
    /\ cast' = [cast EXCEPT ![t] = NewCast(conn[t].user, "on", conn[t].user, room)]
    /\ UNCHANGED room

\* Redis refuses before the try block: the handler ends, its client stays.
GreetFails(t) ==
    /\ conn[t].pc = "joined"
    /\ conn' = [conn EXCEPT ![t] = [Closed EXCEPT !.pc = "zombie", !.user = conn[t].user]]
    /\ UNCHANGED <<room, cast, online>>

\* The browser answered a ping.
Pong(t) ==
    /\ conn[t].pc = "open"
    /\ online' = online \union {conn[t].user}
    /\ UNCHANGED <<room, conn, cast>>

\* mood_update goes to everybody, watch_sync, night_ambient and typing to the
\* others.
Share(t) ==
    /\ conn[t].pc = "open"
    /\ MayBegin
    /\ conn' = [conn EXCEPT ![t].pc = "sharing"]
    /\ \E x \in {None, conn[t].user} :
        cast' = [cast EXCEPT ![t] = NewCast(None, "other", x, room)]
    /\ UNCHANGED <<room, online>>

\* The browser goes away; the server does not know yet.
Drop(t) ==
    /\ conn[t].alive
    /\ conn' = [conn EXCEPT ![t].alive = FALSE, ![t].seen = {}, ![t].missed = FALSE]
    /\ UNCHANGED <<room, cast, online>>

\* The receive loop ends, because the connection is gone or a message or Redis
\* raised: disconnect.
Leave(t) ==
    /\ conn[t].pc = "open"
    /\ room' = RemoveClient(room, t)
    /\ conn' = [conn EXCEPT ![t] = [Closed EXCEPT !.pc = "leaving", !.user = conn[t].user]]
    /\ cast' = Adjusted(room')
    /\ UNCHANGED online

Part_IfLast(t) ==
    /\ conn[t].pc = "leaving"
    /\ MayBegin
    /\ IF \E w \in InRoom : conn[w].user = conn[t].user
       THEN conn' = [conn EXCEPT ![t] = Closed] /\ UNCHANGED <<cast, online>>
       ELSE /\ online' = online \ {conn[t].user}
            /\ conn' = [conn EXCEPT ![t].pc = "parting"]
            /\ cast' = [cast EXCEPT ![t] = NewCast(conn[t].user, "off", None, room)]
    /\ UNCHANGED room

\* set_offline (DEL), and the broadcast of "offline" begins.
Part(t) ==
    /\ conn[t].pc = "leaving"
    /\ MayBegin
    /\ online' = online \ {conn[t].user}
    /\ conn' = [conn EXCEPT ![t].pc = "parting"]
    /\ cast' = [cast EXCEPT ![t] = NewCast(conn[t].user, "off", None, room)]
    /\ UNCHANGED room

\* Redis refuses in the finally block: nobody is told.
PartFails(t) ==
    /\ conn[t].pc = "leaving"
    /\ conn' = [w \in Tabs |->
            IF w = t THEN Closed
            ELSE IF conn[w].alive THEN [conn[w] EXCEPT !.missed = TRUE] ELSE conn[w]]
    /\ UNCHANGED <<room, cast, online>>

-------------------------------------------------------------------------------
(***************************************************************************)
(* A broadcast.                                                            *)
(***************************************************************************)
Shows(seen, c) ==
    CASE c.kind = "on" -> seen \union {c.about}
      [] c.kind = "off" -> seen \ {c.about}
      [] OTHER -> seen

\* One send.  To a browser that has gone it raises, or is lost while the server
\* does not know.
Send(k) ==
    /\ cast[k] # None
    /\ NextAt(cast[k]) # 0
    /\ LET w == room[NextAt(cast[k])]
           passed == [cast[k] EXCEPT !.at = NextAt(cast[k]), !.due = @ \ {w}]
       IN  \/ /\ conn[w].alive
              /\ conn' = [conn EXCEPT ![w].seen = Shows(@, cast[k])]
              /\ cast' = [cast EXCEPT ![k] = passed]
           \/ /\ ~conn[w].alive
              /\ cast' = [cast EXCEPT ![k] = [passed EXCEPT !.dead = @ \union {w}]]
              /\ UNCHANGED conn
           \/ /\ ~conn[w].alive
              /\ conn[w].pc # "zombie"
              /\ cast' = [cast EXCEPT ![k] = passed]
              /\ UNCHANGED conn
    /\ UNCHANGED <<room, online>>

\* Where a handler goes on after its broadcast.
After(c) ==
    CASE c.pc = "parting" -> Closed
      [] c.pc \in {"greeting", "sharing"} -> [c EXCEPT !.pc = "open"]
      [] OTHER -> c

\* After the loop: the dead clients are disconnected, the handler goes on.
Settle(k) ==
    LET dead == cast[k].dead
    IN  /\ room' = Without(room, dead)
        /\ cast' = [Adjusted(room') EXCEPT ![k] = None]
        /\ conn' = [w \in Tabs |->
             IF w = k THEN After(conn[w])
             ELSE IF w \in dead /\ conn[w].pc = "zombie" THEN Closed
             ELSE IF w \in cast[k].due /\ cast[k].kind = "off" /\ conn[w].alive
                  THEN [conn[w] EXCEPT !.missed = TRUE]
             ELSE conn[w]]
        /\ UNCHANGED online

End_AtFirstDead(k) ==
    /\ cast[k] # None
    /\ NextAt(cast[k]) = 0 \/ cast[k].dead # {}
    /\ Settle(k)

End(k) ==
    /\ cast[k] # None
    /\ NextAt(cast[k]) = 0
    /\ Settle(k)

-------------------------------------------------------------------------------
\* ONLINE_TTL has passed since the last SETEX.
Expire(u) ==
    /\ u \in online
    /\ online' = online \ {u}
    /\ UNCHANGED <<room, conn, cast>>

\* The process dies and starts again: no finally block runs, Redis stays.
Crash ==
    /\ room' = <<>>
    /\ conn' = [t \in Tabs |-> Closed]
    /\ cast' = [k \in DOMAIN cast |-> None]
    /\ UNCHANGED online

Next ==
    \/ \E t \in Tabs :
        \/ \E u \in Users : Accept(t, u)
        \/ Greet(t)
        \/ GreetFails(t)
        \/ Pong(t)
        \/ Share(t)
        \/ Drop(t)
        \/ Leave(t)
        \/ Part(t)
        \/ PartFails(t)
        \/ Send(t)
        \/ End(t)
    \/ \E u \in Users : Expire(u)
    \/ Crash

Spec == Init /\ [][Next]_vars

-------------------------------------------------------------------------------
(***************************************************************************)
(* Properties of every interleaving.                                       *)
(***************************************************************************)

\* A handler of u runs.
Served(u) == \E t \in Tabs : conn[t].user = u /\ conn[t].pc \notin {"closed", "zombie"}

\* A browser that is there and whose handler runs is listed from the moment it was
\* accepted: no broadcast, and no disconnect of another tab of the same user,
\* takes it out.
PresentIsListed ==
    \A t \in Tabs :
        conn[t].alive /\ conn[t].pc \in {"joined", "greeting", "open", "sharing"} => t \in InRoom

\* A browser that shows a user as online is right, or will be told, or an "off"
\* passed it by: when the last handler of a user has ended, whatever the other
\* tabs of the user did meanwhile and in whatever order the sends came through.
GoneIsSeenGone ==
    \A w \in Tabs, u \in Users :
        conn[w].alive /\ u \in conn[w].seen /\ ~conn[w].missed => Served(u)

\* The client w is behind the iterator of k, which has not reached it.
PassedOver(k, w) ==
    /\ cast[k] # None
    /\ w \in cast[k].due
    /\ \E i \in 1..cast[k].at : i \in DOMAIN room /\ room[i] = w

\* A broadcast passes over a client that is listed from its begin to its end only
\* if another client was taken off the list meanwhile.
MissesOnlyBesideALeave ==
    [][\A k \in Tabs : cast[k] # None =>
        /\ \A w \in Tabs : PassedOver(k, w)' /\ ~PassedOver(k, w) =>
            \E v \in InRoom : v \notin ToSet(room')
        /\ cast'[k] = None =>
            \A w \in cast[k].due \intersect ToSet(room') : PassedOver(k, w)]_vars

\* A key that says online, and no handler that will delete it.
Stray(u) ==
    /\ u \in online
    /\ \A t \in Tabs : conn[t].user = u => conn[t].pc \in {"closed", "zombie", "parting"}

\* The key of a user outlives the user's last handler only if Redis refused or the
\* process died: no order of pings, answers and closing tabs leaves one behind.
KeyOutlivesOnlyFailures ==
    [][\A u \in Users : Stray(u)' /\ ~Stray(u) =>
        Crash \/ \E t \in Tabs : GreetFails(t) \/ PartFails(t)]_vars

===============================================================================
