------------------------------- MODULE Letters -------------------------------
(***************************************************************************)
(* The love letters: create_draft, send, mark_read and delete of           *)
(* LetterService (services/domain_services/letter_service.py) over the     *)
(* tables letters and users.                                               *)
(*                                                                         *)
(* A request is three steps in one READ COMMITTED transaction: Load reads  *)
(* the caller's row (get_current_user, require_couple), a second SELECT    *)
(* reads what the handler's guards are about (the partner for a new draft, *)
(* the letter otherwise), and the commit makes its one INSERT, UPDATE or   *)
(* DELETE visible.  The UPDATE sets the columns that changed, by primary   *)
(* key, without repeating the guard on the status: it overwrites what      *)
(* others committed in between, and fails (StaleDataError, rolled back)    *)
(* only when the row is gone.  A DELETE of a row that is gone only warns.  *)
(*                                                                         *)
(* A letter is identified by the process that inserted it, as a couple is  *)
(* in module Couple: a process offers the same primary key for all the     *)
(* letters it inserts, so the key of a deleted letter comes back.          *)
(*                                                                         *)
(* coupleOf is the column users.couple_id, which this component only       *)
(* reads.  Listing letters changes nothing; the routes that call a method  *)
(* LetterService does not have (PATCH /{id}, GET /{id}, /unread/count)     *)
(* raise before they touch a letter.  Neither is an action.                *)
(***************************************************************************)
EXTENDS Naturals, FiniteSets

CONSTANTS
    Users,      \* registered, active users
    Couples,    \* the couples that exist
    Workers,    \* server process incarnations, each with its own row id
    Reqs,       \* request slots: how many requests are in flight at most
    None        \* SQL NULL, a row that does not exist, an empty field

VARIABLES
    coupleOf,   \* users.couple_id, read only
    letter,     \* table letters: the row of each primary key, or None
    req         \* what each request holds between two of its steps

vars == <<coupleOf, letter, req>>

Row == [status : {"draft", "sent", "read"}, author : Users, recipient : Users,
        couple : Couples, sentAt : BOOLEAN, readAt : BOOLEAN]

\* What of a row a user is promised something about (module LetterLifecycle).
Letter == [status : {"draft", "sent", "read"}, author : Users, recipient : Users]

ASSUME NoneIsNotAValue ==
    None \notin Users \union Couples \union Workers \union Row \union Letter

Ops == {"create", "send", "read", "delete"}

Idle == [pc |-> "idle", op |-> None, user |-> None, couple |-> None,
         id |-> None, partner |-> None]

Request ==
    {Idle} \union
    [pc : {"loaded", "checked"}, op : Ops, user : Users, couple : Couples,
     id : Workers, partner : Users \union {None}]

\* The type invariant.
TypeOK ==
    /\ coupleOf \in [Users -> Couples \union {None}]
    /\ letter \in [Workers -> Row \union {None}]
    /\ req \in [Reqs -> Request]

\* No letter yet, and the users coupled in any way: module Couple shows that a
\* couple can also have one member only, or more than two.  Somebody is in a
\* couple: nobody passes require_couple otherwise.
Init ==
    /\ coupleOf \in [Users -> Couples \union {None}]
    /\ \E u \in Users : coupleOf[u] # None
    /\ letter = [i \in Workers |-> None]
    /\ req = [r \in Reqs |-> Idle]

(***************************************************************************)
(* The steps of a request.  "id" is the letter of the path or, for a new   *)
(* draft, the row id of the process that serves the request.               *)
(***************************************************************************)

\* get_current_user and require_couple: a caller without a couple is refused.
Load(r, op, u, i) ==
    /\ req[r] = Idle
    /\ coupleOf[u] # None
    /\ req' = [req EXCEPT ![r] = [pc |-> "loaded", op |-> op, user |-> u,
                                  couple |-> coupleOf[u], id |-> i, partner |-> None]]
    /\ UNCHANGED <<coupleOf, letter>>

Finish(r) == req' = [req EXCEPT ![r] = Idle]

\* get_couple_partner: the other users with the couple_id the caller was loaded with.
Partners(q) == {v \in Users \ {q.user} : coupleOf[v] = q.couple}

FindPartner_NoneAllowed(r) ==
    /\ req[r].pc = "loaded"
    /\ req[r].op = "create"
    /\ \E v \in Users \union {None} :
        /\ Partners(req[r]) = {v} \ {None}
        /\ req' = [req EXCEPT ![r] = [@ EXCEPT !.pc = "checked", !.partner = v]]
    /\ UNCHANGED <<coupleOf, letter>>

\* create_draft looks the recipient up.  No partner is CoupleRequiredError, two
\* or more make scalar_one_or_none raise.
FindPartner(r) ==
    /\ req[r].pc = "loaded"
    /\ req[r].op = "create"
    /\ \E v \in Partners(req[r]) :
        /\ Partners(req[r]) = {v}
        /\ req' = [req EXCEPT ![r] = [@ EXCEPT !.pc = "checked", !.partner = v]]
    /\ UNCHANGED <<coupleOf, letter>>

\* The guards of send, mark_read and delete on the letter they read.
MaySend(q, l) == l.author = q.user /\ l.status = "draft"

MayRead_AnyStatus(q, l) == l.couple = q.couple /\ l.recipient = q.user
MayRead(q, l) == l.couple = q.couple /\ l.recipient = q.user /\ l.status = "sent"

MayDelete_AnyStatus(q, l) == l.author = q.user
MayDelete(q, l) == l.author = q.user /\ l.status = "draft"

May(q, l) ==
    /\ l # None
    /\ \/ q.op = "send" /\ MaySend(q, l)
       \/ q.op = "read" /\ MayRead(q, l)
       \/ q.op = "delete" /\ MayDelete(q, l)

FindLetter(r) ==
    /\ req[r].pc = "loaded"
    /\ req[r].op # "create"
    /\ May(req[r], letter[req[r].id])
    /\ req' = [req EXCEPT ![r].pc = "checked"]
    /\ UNCHANGED <<coupleOf, letter>>

Checked(r, op) == req[r].pc = "checked" /\ req[r].op = op

\* The INSERT of create_draft commits.
CommitDraft(r) ==
    /\ Checked(r, "create")
    /\ letter[req[r].id] = None
    /\ letter' = [letter EXCEPT ![req[r].id] =
            [status |-> "draft", author |-> req[r].user, recipient |-> req[r].partner,
             couple |-> req[r].couple, sentAt |-> FALSE, readAt |-> FALSE]]
    /\ Finish(r)
    /\ UNCHANGED coupleOf

CommitSend_NoTimestamp(r) ==
    /\ Checked(r, "send")
    /\ letter[req[r].id] # None
    /\ letter' = [letter EXCEPT ![req[r].id].status = "sent"]
    /\ Finish(r)
    /\ UNCHANGED coupleOf

\* The UPDATE of send commits: status and sent_at, whatever the row holds by now.
CommitSend(r) ==
    /\ Checked(r, "send")
    /\ letter[req[r].id] # None
    /\ letter' = [letter EXCEPT ![req[r].id].status = "sent", ![req[r].id].sentAt = TRUE]
    /\ Finish(r)
    /\ UNCHANGED coupleOf

\* The UPDATE of mark_read commits: status and read_at.
CommitRead(r) ==
    /\ Checked(r, "read")
    /\ letter[req[r].id] # None
    /\ letter' = [letter EXCEPT ![req[r].id].status = "read", ![req[r].id].readAt = TRUE]
    /\ Finish(r)
    /\ UNCHANGED coupleOf

\* The DELETE commits; it matches no row when another delete came first.
CommitDelete(r) ==
    /\ Checked(r, "delete")
    /\ letter' = [letter EXCEPT ![req[r].id] = None]
    /\ Finish(r)
    /\ UNCHANGED coupleOf

\* The errors: no partner or several, no such letter, a guard that fails, the
\* primary key of a letter that exists, an UPDATE of a row that is gone.
Refuse(r) ==
    /\ \/ /\ req[r].pc = "loaded"
          /\ req[r].op = "create"
          /\ \A v \in Users : Partners(req[r]) # {v}
       \/ /\ req[r].pc = "loaded"
          /\ req[r].op # "create"
          /\ ~May(req[r], letter[req[r].id])
       \/ /\ Checked(r, "create")
          /\ letter[req[r].id] # None
       \/ /\ Checked(r, "send") \/ Checked(r, "read")
          /\ letter[req[r].id] = None
    /\ Finish(r)
    /\ UNCHANGED <<coupleOf, letter>>

\* A cancelled request, a lost connection, a killed process: rolled back.
Abort(r) ==
    /\ req[r] # Idle
    /\ Finish(r)
    /\ UNCHANGED <<coupleOf, letter>>

Next ==
    \E r \in Reqs :
        \/ \E op \in Ops, u \in Users, i \in Workers : Load(r, op, u, i)
        \/ FindPartner(r)
        \/ FindLetter(r)
        \/ CommitDraft(r)
        \/ CommitSend(r)
        \/ CommitRead(r)
        \/ CommitDelete(r)
        \/ Refuse(r)
        \/ Abort(r)

Spec == Init /\ [][Next]_vars

-------------------------------------------------------------------------------
(***************************************************************************)
(* Properties of every interleaving.                                       *)
(***************************************************************************)

\* The timestamps agree with the status as far as no interleaving can undo it:
\* a draft was never sent or read, a sent letter has its sent_at, a read one its
\* read_at, and nobody writes to oneself.
RowsAgree ==
    \A i \in Workers : letter[i] # None =>
        /\ letter[i].author # letter[i].recipient
        /\ letter[i].status = "draft" => ~letter[i].sentAt /\ ~letter[i].readAt
        /\ letter[i].status = "sent" => letter[i].sentAt
        /\ letter[i].status = "read" => letter[i].readAt

\* A row as LetterLifecycle sees it: without its couple and its timestamps.
Seen(l) == IF l = None THEN None
           ELSE [status |-> l.status, author |-> l.author, recipient |-> l.recipient]

Shown == [i \in Workers |-> Seen(letter[i])]

Lifecycle == INSTANCE LetterLifecycle WITH LetterIds <- Workers, letter <- Shown

\* What the guard of a send, a read or a delete established still holds.
Fresh(r) == req[r].op # "create" => May(req[r], letter[req[r].id])

\* Every step of every interleaving is a step of module LetterLifecycle, or shows
\* nothing, except the commit of a request whose letter another request changed
\* after the guard: the missing lock is the only way to break the promise.
LifecycleUnlessStale ==
    [][(\A r \in Reqs : req[r].pc = "checked" /\ req'[r] # req[r] => Fresh(r))
       => [Lifecycle!Next]_Shown]_vars

\* A letter is read without having been sent only by the commit of a mark_read
\* whose letter was deleted and whose id now names a draft: the recipient had
\* opened another letter.
UnsentReadOnlyIfReplaced ==
    [][\A i \in Workers :
        /\ letter'[i] # None
        /\ letter'[i] # letter[i]
        /\ letter'[i].status = "read"
        /\ ~letter'[i].sentAt
        => /\ letter[i] # None
           /\ letter[i].status = "draft"
           /\ \E r \in Reqs : Checked(r, "read") /\ req[r].id = i /\ ~Fresh(r)]_letter

===============================================================================
