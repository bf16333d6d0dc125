------------------------------- MODULE Surprise -------------------------------
(***************************************************************************)
(* The surprises: create, open_surprise, update and delete_surprise of     *)
(* SurpriseService (services/domain_services/surprise_service.py), and the *)
(* Celery job unlock_due_surprises (worker/tasks.py) that beat starts      *)
(* every minute, over the tables surprises and users.                      *)
(*                                                                         *)
(* Requests run as in module Letters: Load reads the caller's row, a       *)
(* second SELECT reads what the guards are about, the commit writes the    *)
(* changed columns by primary key without repeating the guards.  The job   *)
(* reads all the locked surprises that are due, then sets the status of    *)
(* each row it read.  A run can overlap requests, and another run that is  *)
(* late or was redelivered (task_acks_late).                               *)
(*                                                                         *)
(* Time appears only as whether the moment unlocks_at of a row has passed. *)
(* A surprise is identified by the process that inserted it, as a couple   *)
(* is in module Couple.  Whether the caller has a premium subscription     *)
(* (require_premium, can_send_surprises) is not this module's business: a  *)
(* caller without one is refused, which Abort covers, as it does a create  *)
(* with a media file: upload_file passes a UUID as S3 metadata, which      *)
(* boto3 rejects before any object is stored.  Reading a surprise or the   *)
(* list of them changes nothing.                                           *)
(***************************************************************************)
EXTENDS Naturals, FiniteSets

CONSTANTS
    Users,      \* registered, active users
    Couples,    \* the couples that exist
    Workers,    \* server process incarnations, each with its own row id
    Texts,      \* what the title and message of a surprise can say
    Reqs,       \* request slots: how many requests are in flight at most
    Jobs,       \* job slots: how many runs of the job overlap at most
    None        \* SQL NULL, a row that does not exist, an empty field

VARIABLES
    coupleOf,   \* users.couple_id, read only
    surprise,   \* table surprises: the row of each primary key, or None
    req,        \* what each request holds between two of its steps
    job         \* the rows each run of the job has read and not written yet

vars == <<coupleOf, surprise, req, job>>

\* "due" is unlocks_at <= now; it is TRUE of a row without unlocks_at.
Row == [status : {"locked", "delivered", "opened"}, sender : Users, recipient : Users,
        couple : Couples, text : Texts, due : BOOLEAN, openedAt : BOOLEAN]

\* What of a row a user is promised something about (module SurpriseLifecycle).
View == [status : {"locked", "delivered", "opened"}, text : Texts, due : BOOLEAN]

ASSUME NoneIsNotAValue ==
    None \notin Users \union Couples \union Workers \union Texts \union Row \union View

Ops == {"create", "open", "update", "delete"}

Idle == [pc |-> "idle", op |-> None, user |-> None, couple |-> None,
         id |-> None, partner |-> None, text |-> None]

Request ==
    {Idle} \union
    [pc : {"loaded", "checked"}, op : Ops, user : Users, couple : Couples,
     id : Workers, partner : Users \union {None}, text : Texts \union {None}]

\* The type invariant.
TypeOK ==
    /\ coupleOf \in [Users -> Couples \union {None}]
    /\ surprise \in [Workers -> Row \union {None}]
    /\ req \in [Reqs -> Request]
    /\ job \in [Jobs -> SUBSET Workers]

\* No surprise yet, no job running, and the users coupled in any way in which
\* somebody is in a couple: nobody passes the guards otherwise.
Init ==
    /\ coupleOf \in [Users -> Couples \union {None}]
    /\ \E u \in Users : coupleOf[u] # None
    /\ surprise = [i \in Workers |-> None]
    /\ req = [r \in Reqs |-> Idle]
    /\ job = [j \in Jobs |-> {}]

(***************************************************************************)
(* The steps of a request.                                                 *)
(***************************************************************************)

\* get_current_user.  A caller without a couple is not modelled: create refuses
\* it, and the rows it could reach otherwise belong to a couple it left.
Load(r, op, u, i) ==
    /\ req[r] = Idle
    /\ coupleOf[u] # None
    /\ req' = [req EXCEPT ![r] = [pc |-> "loaded", op |-> op, user |-> u,
                                  couple |-> coupleOf[u], id |-> i, partner |-> None,
                                  text |-> None]]
    /\ UNCHANGED <<coupleOf, surprise, job>>

Finish(r) == req' = [req EXCEPT ![r] = Idle]

\* get_couple_partner: the other users with the couple_id the caller was loaded with.
Partners(q) == {v \in Users \ {q.user} : coupleOf[v] = q.couple}

FindPartner_NoneAllowed(r) ==
    /\ req[r].pc = "loaded"
    /\ req[r].op = "create"
    /\ \E v \in Users \union {None} :
        /\ Partners(req[r]) = {v} \ {None}
        /\ req' = [req EXCEPT ![r] = [@ EXCEPT !.pc = "checked", !.partner = v]]
    /\ UNCHANGED <<coupleOf, surprise, job>>

\* create looks the recipient up: no partner is an error, and so are several.
FindPartner(r) ==
    /\ req[r].pc = "loaded"
    /\ req[r].op = "create"
    /\ \E v \in Partners(req[r]) :
        /\ Partners(req[r]) = {v}
        /\ req' = [req EXCEPT ![r] = [@ EXCEPT !.pc = "checked", !.partner = v]]
    /\ UNCHANGED <<coupleOf, surprise, job>>

\* The guards of open_surprise, update and delete_surprise on the row they read.
\* A surprise that is already open is not opened again; that answer is built
\* with a missing argument and raises, so nothing is written either way.
MayOpen_Locked(q, s) ==
    s.couple = q.couple /\ s.recipient = q.user /\ s.status # "opened"

MayOpen(q, s) ==
    /\ s.couple = q.couple
    /\ s.recipient = q.user
    /\ s.status = "delivered" \/ (s.status = "locked" /\ s.due)

MayEdit_Opened(q, s) == s.sender = q.user
MayEdit(q, s) == s.sender = q.user /\ s.status # "opened"

May(q, s) ==
    /\ s # None
    /\ \/ q.op = "open" /\ MayOpen(q, s)
       \/ q.op \in {"update", "delete"} /\ MayEdit(q, s)

FindSurprise(r) ==
    /\ req[r].pc = "loaded"
    /\ May(req[r], surprise[req[r].id])
    /\ req' = [req EXCEPT ![r] = [@ EXCEPT !.pc = "checked",
                                           !.text = surprise[req[r].id].text]]
    /\ UNCHANGED <<coupleOf, surprise, job>>

Checked(r, op) == req[r].pc = "checked" /\ req[r].op = op

\* The INSERT of create commits: locked when unlocks_at is still to come,
\* delivered when it has passed or there is none.
CommitCreate(r) ==
    /\ Checked(r, "create")
    /\ surprise[req[r].id] = None
    /\ \E t \in Texts, later \in BOOLEAN :
        surprise' = [surprise EXCEPT ![req[r].id] =
            [status |-> IF later THEN "locked" ELSE "delivered",
             sender |-> req[r].user, recipient |-> req[r].partner,
             couple |-> req[r].couple, text |-> t, due |-> ~later, openedAt |-> FALSE]]
    /\ Finish(r)
    /\ UNCHANGED <<coupleOf, job>>

CommitOpen_NoTimestamp(r) ==
    /\ Checked(r, "open")
    /\ surprise[req[r].id] # None
    /\ surprise' = [surprise EXCEPT ![req[r].id].status = "opened"]
    /\ Finish(r)
    /\ UNCHANGED <<coupleOf, job>>

\* The UPDATE of open_surprise commits: status and opened_at.
CommitOpen(r) ==
    /\ Checked(r, "open")
    /\ surprise[req[r].id] # None
    /\ surprise' = [surprise EXCEPT ![req[r].id].status = "opened",
                                    ![req[r].id].openedAt = TRUE]
    /\ Finish(r)
    /\ UNCHANGED <<coupleOf, job>>

\* The UPDATE of update commits: the text, if it differs from the one read.
CommitUpdate(r) ==
    /\ Checked(r, "update")
    /\ surprise[req[r].id] # None
    /\ \E t \in Texts \ {req[r].text} :
        surprise' = [surprise EXCEPT ![req[r].id].text = t]
    /\ Finish(r)
    /\ UNCHANGED <<coupleOf, job>>

\* The DELETE commits; it matches no row when another delete came first.
CommitDelete(r) ==
    /\ Checked(r, "delete")
    /\ surprise' = [surprise EXCEPT ![req[r].id] = None]
    /\ Finish(r)
    /\ UNCHANGED <<coupleOf, job>>

\* The errors and the early returns: no partner or several, no such surprise, a
\* guard that fails, a primary key that exists, an UPDATE of a row that is gone.
Refuse(r) ==
    /\ \/ /\ req[r].pc = "loaded"
          /\ req[r].op = "create"
          /\ \A v \in Users : Partners(req[r]) # {v}
       \/ /\ req[r].pc = "loaded"
          /\ req[r].op # "create"
          /\ ~May(req[r], surprise[req[r].id])
       \/ /\ Checked(r, "create")
          /\ surprise[req[r].id] # None
       \/ /\ Checked(r, "open") \/ Checked(r, "update")
          /\ surprise[req[r].id] = None
    /\ Finish(r)
    /\ UNCHANGED <<coupleOf, surprise, job>>

\* A refused subscription, an update that changes nothing, a cancelled request, a
\* lost connection, a killed process: nothing was written.
Abort(r) ==
    /\ req[r] # Idle
    /\ Finish(r)
    /\ UNCHANGED <<coupleOf, surprise, job>>

(***************************************************************************)
(* The job, and the clock it watches.                                      *)
(***************************************************************************)

Status(i) == IF surprise[i] = None THEN "none" ELSE surprise[i].status

Locked(i) == Status(i) = "locked"

DueLocked_Reversed == {i \in Workers : Locked(i) /\ ~surprise[i].due}

\* WHERE status = LOCKED AND unlocks_at <= now; a run that finds nothing is over.
DueLocked == {i \in Workers : Locked(i) /\ surprise[i].due}

JobRead(j) ==
    /\ job[j] = {}
    /\ DueLocked # {}
    /\ job' = [job EXCEPT ![j] = DueLocked]
    /\ UNCHANGED <<coupleOf, surprise, req>>

\* The UPDATEs of the batch commit together; a row that is gone is not matched.
JobCommit(j) ==
    /\ job[j] # {}
    /\ surprise' = [i \in Workers |->
            IF i \in job[j] /\ surprise[i] # None
            THEN [surprise[i] EXCEPT !.status = "delivered"]
            ELSE surprise[i]]
    /\ job' = [job EXCEPT ![j] = {}]
    /\ UNCHANGED <<coupleOf, req>>

\* The job fails or its process dies before the commit: the run has no effect.
\* A batch of one row that is gone ends here too (StaleDataError).
JobAbort(j) ==
    /\ job[j] # {}
    /\ job' = [job EXCEPT ![j] = {}]
    /\ UNCHANGED <<coupleOf, surprise, req>>

\* The moment unlocks_at of a locked surprise passes.
Elapse(i) ==
    /\ Locked(i)
    /\ ~surprise[i].due
    /\ surprise' = [surprise EXCEPT ![i].due = TRUE]
    /\ UNCHANGED <<coupleOf, req, job>>

Next ==
    \/ \E r \in Reqs :
        \/ \E op \in Ops, u \in Users, i \in Workers : Load(r, op, u, i)
        \/ FindPartner(r)
        \/ FindSurprise(r)
        \/ CommitCreate(r)
        \/ CommitOpen(r)
        \/ CommitUpdate(r)
        \/ CommitDelete(r)
        \/ Refuse(r)
        \/ Abort(r)
    \/ \E j \in Jobs : JobRead(j) \/ JobCommit(j) \/ JobAbort(j)
    \/ \E i \in Workers : Elapse(i)

Spec == Init /\ [][Next]_vars

(***************************************************************************)
(* Beat starts the job every minute for ever, and not every run of it      *)
(* fails: strong fairness of JobCommit, since JobAbort disables it.  Users *)
(* owe nothing.                                                            *)
(***************************************************************************)
Fairness == \A j \in Jobs : WF_vars(JobRead(j)) /\ SF_vars(JobCommit(j))

FairSpec == Spec /\ Fairness

-------------------------------------------------------------------------------
(***************************************************************************)
(* Properties of every interleaving.                                       *)
(***************************************************************************)

\* As far as no interleaving can undo it, opened_at agrees with the status, and
\* nobody prepares a surprise for oneself.
RowsAgree ==
    \A i \in Workers : surprise[i] # None =>
        /\ surprise[i].sender # surprise[i].recipient
        /\ surprise[i].status = "opened" => surprise[i].openedAt
        /\ surprise[i].status = "locked" => ~surprise[i].openedAt

\* A locked surprise whose time has come does not stay locked: the job delivers
\* it, unless its recipient opens it or its sender takes it back first.
EventuallyUnlocked ==
    \A i \in Workers :
        (Locked(i) /\ surprise[i].due) ~> ~(Locked(i) /\ surprise[i].due)

\* A row as SurpriseLifecycle sees it: without its people and its timestamp.
Seen(s) == IF s = None THEN None ELSE [status |-> s.status, text |-> s.text, due |-> s.due]

Shown == [i \in Workers |-> Seen(surprise[i])]

Lifecycle == INSTANCE SurpriseLifecycle WITH SurpriseIds <- Workers, surprise <- Shown

\* What the guard of a request, or the SELECT of the job, established still holds.
Fresh(r) == req[r].op # "create" => May(req[r], surprise[req[r].id])

FreshBatch(j) == job[j] \subseteq DueLocked

\* Every step of every interleaving is a step of module SurpriseLifecycle, or
\* shows nothing, except the commit of a request, or of a run of the job, whose
\* surprise was changed after it was read: the missing lock is the only way to
\* open early, to deliver twice or to edit what is open.
LifecycleUnlessStale ==
    [][/\ \A r \in Reqs : req[r].pc = "checked" /\ req'[r] # req[r] => Fresh(r)
       /\ \A j \in Jobs : job[j] # {} /\ job'[j] # job[j] => FreshBatch(j)
       => [Lifecycle!Next]_Shown]_vars

\* Delivered or opened before its time.
Early(i) == Status(i) \in {"delivered", "opened"} /\ ~surprise[i].due

\* A surprise gets early only by the commit of an open, or of a run of the job, whose
\* surprise was deleted and whose id now names one that is still locked: time does
\* not go back for the one that was read.
EarlyOnlyIfReplaced ==
    [][\A i \in Workers : Early(i)' /\ ~Early(i) =>
        /\ Locked(i)
        /\ \/ \E r \in Reqs : Checked(r, "open") /\ req[r].id = i /\ ~Fresh(r)
           \/ \E j \in Jobs : i \in job[j] /\ job'[j] = {} /\ ~FreshBatch(j)]_surprise

(***************************************************************************)
(* What the documentation says and the code does not keep.                 *)
(***************************************************************************)

\* An opened surprise is immutable: "Once a surprise is opened, it becomes
\* immutable".
OpenedIsFinal ==
    [][\A i \in Workers : Status(i) = "opened" => surprise'[i] = surprise[i]]_surprise

===============================================================================
