-------------------------------- MODULE Billing --------------------------------
(***************************************************************************)
(* Subscriptions: the checkout endpoint and the Stripe webhooks of         *)
(* SubscriptionService (services/subscription_service), the premium gate   *)
(* (core/dependencies/premium.py) with its copy in Redis, and the Celery   *)
(* job check_expired_subscriptions.  Stripe itself is external: it is what *)
(* the service takes it to be, a store of customers, checkout sessions and *)
(* subscriptions that answers a repeated idempotency key with its first    *)
(* answer and sends events late, in any order and more than once.          *)
(*                                                                         *)
(* A checkout is one transaction in four steps: AskCheckout loads the user *)
(* and passes the guard, EnsureCustomer creates and flushes the customer   *)
(* of a user who has none, CreateSession calls Stripe for that customer,   *)
(* and the commit lets the answer out (FastAPI 0.112 closes the database   *)
(* session before it sends the response).  A webhook is one in three:      *)
(* Receive looks the event up and loads the user's row, Flush sends the    *)
(* changed columns and writes the Redis copy, and the commit makes them    *)
(* visible together with the record of the event.  Neither Stripe nor      *)
(* Redis takes part in a rollback.  A row of a table is identified by the  *)
(* process that inserted it, as in module Couple, so a process records one *)
(* event and inserts one subscription.                                     *)
(*                                                                         *)
(* Left out, since they write nothing: customer.subscription.deleted and   *)
(* the invoice events, whose lookup of the subscription returns a method   *)
(* and not a row, so that the handler raises and the record of the error   *)
(* is rolled back too; events of other types; the portal; the plans.  Both *)
(* prices are of the one paid plan, which is known, and sub_cache, which   *)
(* only the page that shows the subscription reads, is not modelled.       *)
(***************************************************************************)
EXTENDS Naturals, FiniteSets

CONSTANTS
    Users,      \* registered, active users
    Intervals,  \* billing intervals a user can choose (BillingInterval)
    TrialDays,  \* STRIPE_TRIAL_DAYS, 7 unless configured otherwise
    Customers,  \* bound: the ids Stripe gives to customers
    Sessions,   \* bound: the ids of checkout sessions, each with its subscription
    Workers,    \* server process incarnations, each with its own row ids
    Reqs,       \* request slots: how many requests are in flight at most
    Jobs,       \* job slots: how many runs of the job overlap at most
    MaxEvents,  \* bound: the events Stripe sends
    MaxPeriods, \* bound: the billing periods that pass
    Outcomes,   \* bound: what a charge or a cancellation leads to
    None        \* SQL NULL, a row or key that does not exist, an empty field

Periods == 1 .. MaxPeriods
EventIds == 1 .. MaxEvents

\* The statuses of Stripe's subscriptions that the service tells apart; others,
\* as incomplete_expired, it reads as "incomplete".
Status == {"trialing", "incomplete", "active", "past_due", "unpaid", "canceled"}

\* What Stripe knows of a checkout session, and of the subscription that comes of
\* it.  "keyed": the idempotency key the session was created with still returns it.
\* A "created" session becomes "open" when the answer with its URL goes out.
Session ==
    [user : Users, interval : Intervals, customer : Customers, keyed : BOOLEAN,
     status : Status \union {"created", "open"}, period : Periods]

\* An event carries the state of the subscription when it was sent.
Event == [n : EventIds, type : {"checkout", "updated"}, sub : Sessions,
          status : Status, period : Periods]

\* A row of table subscriptions.
Row == [user : Users, sub : Sessions, customer : Customers, status : Status, period : Periods]

ASSUME NoneIsNotAValue ==
    None \notin Users \union Customers \union Sessions \union Workers \union Session
                \union Row \union EventIds \union BOOLEAN

ASSUME BoundsAreNumbers ==
    MaxEvents \in Nat /\ MaxPeriods \in Nat \ {0} /\ TrialDays \in Nat

ASSUME OutcomesAreStatuses == Outcomes \subseteq {"active", "past_due", "unpaid", "canceled"}

VARIABLES
    now,            \* the billing period the calendar is in
    holder,         \* Stripe: the user each customer was created for, or None
    stripe,         \* Stripe: each session with its subscription, or None
    events,         \* Stripe: the events sent so far
    customerOf,     \* users.stripe_customer_id
    subscriptions,  \* table subscriptions: the row of each primary key, or None
    recorded,       \* table subscription_events: the event of each primary key, or None
    premium,        \* Redis: the copy of whether a user is premium, or None
    req,            \* what each request holds between two of its steps
    job             \* the rows each run of the job has read and not written yet

vars == <<now, holder, stripe, events, customerOf, subscriptions, recorded, premium, req, job>>

Idle == [pc |-> "idle"]

\* "created": the transaction has set the user's customer.  "seen" is the row that
\* was loaded, "new" what it becomes, "id" its key or the one it will be inserted with.
Request ==
    {Idle}
    \union [pc : {"asking", "asked"}, user : Users, interval : Intervals,
            customer : Customers \union {None}, created : BOOLEAN,
            session : Sessions \union {None}]
    \union [pc : {"received", "flushed"}, worker : Workers, event : EventIds,
            user : Users, customer : Customers \union {None},
            id : Workers, seen : Row \union {None}, new : Row]
    \union [pc : {"skipped"}, worker : Workers, event : EventIds]
    \union [pc : {"resolved"}, user : Users, result : BOOLEAN]

\* The type invariant.
TypeOK ==
    /\ now \in Periods
    /\ holder \in [Customers -> Users \union {None}]
    /\ stripe \in [Sessions -> Session \union {None}]
    /\ events \subseteq Event
    /\ customerOf \in [Users -> Customers \union {None}]
    /\ subscriptions \in [Workers -> Row \union {None}]
    /\ recorded \in [Workers -> EventIds \union {None}]
    /\ premium \in [Users -> BOOLEAN \union {None}]
    /\ req \in [Reqs -> Request]
    /\ job \in [Jobs -> SUBSET Workers]

Init ==
    /\ now = 1
    /\ holder = [c \in Customers |-> None]
    /\ stripe = [s \in Sessions |-> None]
    /\ events = {}
    /\ customerOf = [u \in Users |-> None]
    /\ subscriptions = [w \in Workers |-> None]
    /\ recorded = [w \in Workers |-> None]
    /\ premium = [u \in Users |-> None]
    /\ req = [r \in Reqs |-> Idle]
    /\ job = [j \in Jobs |-> {}]

Finish(r) == req' = [req EXCEPT ![r] = Idle]

\* The keys of a user's rows.  user_id is not unique: with more than one,
\* scalar_one_or_none raises.
RowsOf(u) == {w \in Workers : subscriptions[w] # None /\ subscriptions[w].user = u}

Grants_Incomplete(status) == status \notin {"unpaid", "canceled"}

\* Subscription.is_premium_active, of a row of the paid plan.
Grants(status) == status \in {"trialing", "active", "past_due"}

IsPremium(u) == \E w \in RowsOf(u) : Grants(subscriptions[w].status)

(***************************************************************************)
(* Stripe (external).                                                      *)
(***************************************************************************)

Started(s) == stripe[s] # None /\ stripe[s].status \in Status

\* The user fills in the checkout form: a subscription begins, with a trial if the
\* session offers one (trial_period_days).
Subscribe(s) ==
    /\ stripe[s] # None
    /\ stripe[s].status = "open"
    /\ stripe' = [stripe EXCEPT ![s] =
            [@ EXCEPT !.status = IF TrialDays > 0 THEN "trialing" ELSE "incomplete",
                      !.period = now]]
    /\ UNCHANGED <<now, holder, events, customerOf, subscriptions, recorded, premium, req, job>>

\* Stripe charges the first period, the one after the trial or a new one, fails to,
\* gives up, or the subscription is canceled.
Charge(s) ==
    /\ Started(s)
    /\ \E to \in Outcomes :
        /\ to # stripe[s].status \/ stripe[s].period < now
        /\ stripe[s].status # "canceled"
        /\ stripe[s].status = "incomplete" => to = "active"
        /\ stripe' = [stripe EXCEPT ![s] =
                [stripe[s] EXCEPT !.status = to,
                                  !.period = IF to = "canceled" THEN @ ELSE now]]
    /\ UNCHANGED <<now, holder, events, customerOf, subscriptions, recorded, premium, req, job>>

\* A day after the session was created its idempotency key is forgotten; by then
\* the session has expired if nobody filled it in.  No request lasts that long.
ForgetKey(s) ==
    /\ stripe[s] # None
    /\ stripe[s].keyed
    /\ \A r \in Reqs : req[r].pc = "asked" => req[r].session # s
    /\ stripe' = [stripe EXCEPT ![s] = IF Started(s) THEN [@ EXCEPT !.keyed = FALSE] ELSE None]
    /\ UNCHANGED <<now, holder, events, customerOf, subscriptions, recorded, premium, req, job>>

\* Stripe sends an event about a subscription; once sent it may be delivered at
\* any time, any number of times.
Send(s, type) ==
    /\ Started(s)
    /\ type = "checkout" => stripe[s].status # "incomplete"
    /\ Cardinality(events) < MaxEvents
    /\ events' = events \union
            {[n |-> Cardinality(events) + 1, type |-> type, sub |-> s,
              status |-> stripe[s].status, period |-> stripe[s].period]}
    /\ UNCHANGED <<now, holder, stripe, customerOf, subscriptions, recorded, premium, req, job>>

\* A billing period ends.
Tick ==
    /\ now < MaxPeriods
    /\ now' = now + 1
    /\ UNCHANGED <<holder, stripe, events, customerOf, subscriptions, recorded, premium, req, job>>

(***************************************************************************)
(* Row locks, held from a statement to the end of its transaction.  The    *)
(* customer of a user is a unique column: whoever writes it excludes every *)
(* other writer, and the inserts that refer to the user.                   *)
(***************************************************************************)

Writes(q) == q.new # q.seen

SetsSub(q) == q.seen = None \/ q.seen.sub # q.new.sub

UserWritten(u) == \E o \in Reqs :
    \/ req[o].pc \in {"asking", "asked"} /\ req[o].user = u /\ req[o].created
    \/ req[o].pc = "flushed" /\ req[o].user = u /\ req[o].customer # None

UserReferred(u) == \E o \in Reqs :
    req[o].pc = "flushed" /\ req[o].user = u /\ req[o].seen = None

RowWritten(w) == \E o \in Reqs : req[o].pc = "flushed" /\ req[o].id = w /\ Writes(req[o])

SubWritten(s) == \E o \in Reqs : req[o].pc = "flushed" /\ req[o].new.sub = s /\ SetsSub(req[o])

(***************************************************************************)
(* POST /billing/checkout.                                                 *)
(***************************************************************************)

\* The user's row is loaded, and a premium user is refused (ActiveSubscriptionError).
AskCheckout(r, u, i) ==
    /\ req[r] = Idle
    /\ RowsOf(u) = {} \/ \E w \in Workers : RowsOf(u) = {w}
    /\ ~IsPremium(u)
    /\ req' = [req EXCEPT ![r] = [pc |-> "asking", user |-> u, interval |-> i,
                                  customer |-> customerOf[u], created |-> FALSE,
                                  session |-> None]]
    /\ UNCHANGED <<now, holder, stripe, events, customerOf, subscriptions, recorded, premium, job>>

\* _ensure_stripe_customer for a user loaded without a customer: stripe.Customer.create,
\* then the flush of the user's row, by primary key.
EnsureCustomer(r) ==
    /\ req[r].pc = "asking"
    /\ req[r].customer = None
    /\ ~UserWritten(req[r].user)
    /\ ~UserReferred(req[r].user)
    /\ \E c \in Customers :
        /\ holder[c] = None
        /\ holder' = [holder EXCEPT ![c] = req[r].user]
        /\ req' = [req EXCEPT ![r] = [@ EXCEPT !.customer = c, !.created = TRUE]]
    /\ UNCHANGED <<now, stripe, events, customerOf, subscriptions, recorded, premium, job>>

Kept_PerCustomer(q) ==
    {s \in Sessions : /\ stripe[s] # None
                      /\ stripe[s].user = q.user
                      /\ stripe[s].interval = q.interval
                      /\ stripe[s].customer = q.customer
                      /\ stripe[s].keyed}

\* The session Stripe keeps for the idempotency key, made of the user and the interval.
Kept(q) ==
    {s \in Sessions : /\ stripe[s] # None
                      /\ stripe[s].user = q.user
                      /\ stripe[s].interval = q.interval
                      /\ stripe[s].keyed}

\* stripe.checkout.Session.create for the customer that _ensure_stripe_customer
\* returned.  A repeated key returns the session of the first call; with another
\* customer than the first, as after a rollback of it, Stripe refuses (Abort).
CreateSession(r) ==
    /\ req[r].pc = "asking"
    /\ req[r].customer # None
    /\ \E s \in Sessions :
        /\ \/ /\ Kept(req[r]) = {}
              /\ stripe[s] = None
              /\ stripe' = [stripe EXCEPT ![s] =
                    [user |-> req[r].user, interval |-> req[r].interval,
                     customer |-> req[r].customer, keyed |-> TRUE,
                     status |-> "created", period |-> now]]
           \/ /\ s \in Kept(req[r])
              /\ stripe[s].customer = req[r].customer
              /\ UNCHANGED stripe
        /\ req' = [req EXCEPT ![r] = [@ EXCEPT !.pc = "asked", !.session = s]]
    /\ UNCHANGED <<now, holder, events, customerOf, subscriptions, recorded, premium, job>>

CommitCheckout_Optimistic(r) ==
    /\ req[r].pc = "asked"
    /\ premium' = [premium EXCEPT ![req[r].user] = TRUE]
    /\ Finish(r)
    /\ UNCHANGED <<now, holder, stripe, events, customerOf, subscriptions, recorded, job>>

\* The commit stores the customer, if one was created, and the user gets the URL.
CommitCheckout(r) ==
    /\ req[r].pc = "asked"
    /\ customerOf' = [customerOf EXCEPT ![req[r].user] =
            IF req[r].created THEN req[r].customer ELSE @]
    /\ stripe' = [stripe EXCEPT ![req[r].session] =
            IF @.status = "created" THEN [@ EXCEPT !.status = "open"] ELSE @]
    /\ Finish(r)
    /\ UNCHANGED <<now, holder, events, subscriptions, recorded, premium, job>>

(***************************************************************************)
(* POST /webhooks/stripe.                                                  *)
(***************************************************************************)

Known(n) == \E w \in Workers : recorded[w] = n

\* The user an event is about: named in the metadata of a checkout, found by the
\* customer otherwise.
IsAbout(e, u) ==
    \/ e.type = "checkout" /\ u = stripe[e.sub].user
    \/ e.type = "updated" /\ customerOf[u] = stripe[e.sub].customer

\* What the upsert makes of the row: of the subscription as it is now for a
\* checkout, which asks Stripe, and of the event's own copy for an update.
Upsert(e, u) ==
    [user |-> u, sub |-> e.sub, customer |-> stripe[e.sub].customer,
     status |-> IF e.type = "checkout" THEN stripe[e.sub].status ELSE e.status,
     period |-> IF e.type = "checkout" THEN stripe[e.sub].period ELSE e.period]

\* handle_webhook for an event that is not recorded: the user and the user's row,
\* if there is one, are loaded.
Receive(r, e, w) ==
    /\ req[r] = Idle
    /\ e \in events
    /\ ~Known(e.n)
    /\ \E u \in Users, v \in Workers :
        /\ IsAbout(e, u)
        /\ RowsOf(u) = {v} \/ (RowsOf(u) = {} /\ v = w)
        /\ req' = [req EXCEPT ![r] =
                [pc |-> "received", worker |-> w, event |-> e.n, user |-> u,
                 customer |-> IF e.type = "checkout" /\ customerOf[u] = None
                              THEN stripe[e.sub].customer ELSE None,
                 id |-> v,
                 seen |-> IF RowsOf(u) = {} THEN None ELSE subscriptions[v],
                 new |-> Upsert(e, u)]]
    /\ UNCHANGED <<now, holder, stripe, events, customerOf, subscriptions, recorded, premium, job>>

\* An update about a customer no user has: nothing to do, and a success.
ReceiveStray(r, e, w) ==
    /\ req[r] = Idle
    /\ e \in events
    /\ ~Known(e.n)
    /\ \A u \in Users : ~IsAbout(e, u)
    /\ req' = [req EXCEPT ![r] = [pc |-> "skipped", worker |-> w, event |-> e.n]]
    /\ UNCHANGED <<now, holder, stripe, events, customerOf, subscriptions, recorded, premium, job>>

\* The UPDATE names the columns that differ from the row that was loaded.
Column(old, new, current) == IF new # old THEN new ELSE current

Written_NoCustomer(q) == [q.new EXCEPT !.customer = None]

Written(q) ==
    IF q.seen = None THEN q.new
    ELSE LET row == subscriptions[q.id] IN
         [user |-> row.user,
          sub |-> Column(q.seen.sub, q.new.sub, row.sub),
          customer |-> Column(q.seen.customer, q.new.customer, row.customer),
          status |-> Column(q.seen.status, q.new.status, row.status),
          period |-> Column(q.seen.period, q.new.period, row.period)]

Unique_AnySub(q) == q.seen = None => subscriptions[q.id] = None

\* The primary key and the unique stripe_subscription_id.
Unique(q) ==
    /\ q.seen = None => subscriptions[q.id] = None
    /\ SetsSub(q) => \A v \in Workers \ {q.id} :
            subscriptions[v] # None => subscriptions[v].sub # q.new.sub

\* Another transaction has written the row, the user or the keys, and not ended yet.
Locked(q) ==
    \/ Writes(q) /\ RowWritten(q.id)
    \/ SetsSub(q) /\ SubWritten(q.new.sub)
    \/ (q.seen = None \/ q.customer # None) /\ UserWritten(q.user)
    \/ q.customer # None /\ UserReferred(q.user)

\* _upsert_subscription: the row is flushed, then the copy in Redis is written.
Flush(r) ==
    /\ req[r].pc = "received"
    /\ ~Locked(req[r])
    /\ Unique(req[r])
    /\ premium' = [premium EXCEPT ![req[r].user] = Grants(req[r].new.status)]
    /\ req' = [req EXCEPT ![r] = [@ EXCEPT !.pc = "flushed"]]
    /\ UNCHANGED <<now, holder, stripe, events, customerOf, subscriptions, recorded, job>>

Recordable_Twice(q) == recorded[q.worker] = None

\* The primary key of the event's record and its unique stripe_event_id.
Recordable(q) == recorded[q.worker] = None /\ ~Known(q.event)

CommitWebhook_Unrecorded(r) ==
    /\ req[r].pc = "flushed"
    /\ subscriptions' = [subscriptions EXCEPT ![req[r].id] = Written(req[r])]
    /\ customerOf' = [customerOf EXCEPT ![req[r].user] =
            IF req[r].customer = None THEN @ ELSE req[r].customer]
    /\ Finish(r)
    /\ UNCHANGED <<now, holder, stripe, events, recorded, premium, job>>

\* The record of the event commits together with what its handler wrote.
CommitWebhook(r) ==
    /\ req[r].pc = "flushed"
    /\ Recordable(req[r])
    /\ subscriptions' = [subscriptions EXCEPT ![req[r].id] = Written(req[r])]
    /\ customerOf' = [customerOf EXCEPT ![req[r].user] =
            IF req[r].customer = None THEN @ ELSE req[r].customer]
    /\ recorded' = [recorded EXCEPT ![req[r].worker] = req[r].event]
    /\ Finish(r)
    /\ UNCHANGED <<now, holder, stripe, events, premium, job>>

CommitStray(r) ==
    /\ req[r].pc = "skipped"
    /\ Recordable(req[r])
    /\ recorded' = [recorded EXCEPT ![req[r].worker] = req[r].event]
    /\ Finish(r)
    /\ UNCHANGED <<now, holder, stripe, events, customerOf, subscriptions, premium, job>>

(***************************************************************************)
(* The premium gate and its copy in Redis.                                 *)
(***************************************************************************)

\* A miss: the answer is computed from the row.
Resolve(r, u) ==
    /\ req[r] = Idle
    /\ premium[u] = None
    /\ RowsOf(u) = {} \/ \E w \in Workers : RowsOf(u) = {w}
    /\ req' = [req EXCEPT ![r] = [pc |-> "resolved", user |-> u, result |-> IsPremium(u)]]
    /\ UNCHANGED <<now, holder, stripe, events, customerOf, subscriptions, recorded, premium, job>>

\* The answer is stored for the next 300 seconds.
Remember(r) ==
    /\ req[r].pc = "resolved"
    /\ premium' = [premium EXCEPT ![req[r].user] = req[r].result]
    /\ Finish(r)
    /\ UNCHANGED <<now, holder, stripe, events, customerOf, subscriptions, recorded, job>>

Expire(u) ==
    /\ premium[u] # None
    /\ premium' = [premium EXCEPT ![u] = None]
    /\ UNCHANGED <<now, holder, stripe, events, customerOf, subscriptions, recorded, req, job>>

\* A request that fails, at a guard, at a constraint or for a reason of its own, is
\* rolled back; what it wrote to Stripe or Redis stays.
Abort(r) ==
    /\ req[r] # Idle
    /\ Finish(r)
    /\ UNCHANGED <<now, holder, stripe, events, customerOf, subscriptions, recorded, premium, job>>

(***************************************************************************)
(* The job check_expired_subscriptions.                                    *)
(***************************************************************************)

\* The rows of get_expiring_soon, with a period that ended a day ago.
Expired == {w \in Workers : /\ subscriptions[w] # None
                            /\ subscriptions[w].status \in {"active", "trialing"}
                            /\ subscriptions[w].period < now}

ReadExpired(j) ==
    /\ job[j] = {}
    /\ Expired # {}
    /\ job' = [job EXCEPT ![j] = Expired]
    /\ UNCHANGED <<now, holder, stripe, events, customerOf, subscriptions, recorded, premium, req>>

CommitExpired(j) ==
    /\ job[j] # {}
    /\ \A w \in job[j] : ~RowWritten(w)
    /\ subscriptions' = [w \in Workers |->
            IF w \in job[j] THEN [subscriptions[w] EXCEPT !.status = "unpaid"]
                            ELSE subscriptions[w]]
    /\ job' = [job EXCEPT ![j] = {}]
    /\ UNCHANGED <<now, holder, stripe, events, customerOf, recorded, premium, req>>

AbortExpired(j) ==
    /\ job[j] # {}
    /\ job' = [job EXCEPT ![j] = {}]
    /\ UNCHANGED <<now, holder, stripe, events, customerOf, subscriptions, recorded, premium, req>>

Next ==
    \/ Tick
    \/ \E s \in Sessions : \/ Subscribe(s) \/ Charge(s) \/ ForgetKey(s)
                           \/ Send(s, "checkout") \/ Send(s, "updated")
    \/ \E r \in Reqs :
        \/ \E u \in Users, i \in Intervals : AskCheckout(r, u, i)
        \/ EnsureCustomer(r)
        \/ CreateSession(r)
        \/ CommitCheckout(r)
        \/ \E e \in events, w \in Workers : Receive(r, e, w) \/ ReceiveStray(r, e, w)
        \/ Flush(r)
        \/ CommitWebhook(r)
        \/ CommitStray(r)
        \/ \E u \in Users : Resolve(r, u)
        \/ Remember(r)
        \/ Abort(r)
    \/ \E u \in Users : Expire(u)
    \/ \E j \in Jobs : ReadExpired(j) \/ CommitExpired(j) \/ AbortExpired(j)

Spec == Init /\ [][Next]_vars

-------------------------------------------------------------------------------
(***************************************************************************)
(* Properties of every interleaving.                                       *)
(***************************************************************************)

\* An event takes effect at most once, however often and however concurrently
\* it is delivered, and on its own user: a row changes only in the step that
\* records, for the first time, an event about a subscription of the row's user,
\* or when the job marks it unpaid.
AppliedOnce ==
    [][\A w \in Workers : subscriptions'[w] # subscriptions[w] =>
        \/ \E e \in events, v \in Workers :
            /\ ~Known(e.n)
            /\ recorded'[v] = e.n
            /\ stripe[e.sub].user = subscriptions'[w].user
        \/ /\ subscriptions[w] # None
           /\ subscriptions'[w] = [subscriptions[w] EXCEPT !.status = "unpaid"]]_subscriptions

\* The user holds a subscription that has been in trial or paid.
HasSubscribed(u) == \E s \in Sessions : /\ stripe[s] # None
                                        /\ stripe[s].user = u
                                        /\ stripe[s].status \in Status \ {"incomplete"}

\* Premium is only for who has subscribed, in the table and in the copy that the
\* gate believes, whatever was delivered twice, late or rolled back.  Who has
\* subscribed may be in the trial of STRIPE_TRIAL_DAYS and have paid nothing yet;
\* with no trial days, it is who has paid at least once.
PremiumIsSubscribed == \A u \in Users : IsPremium(u) \/ premium[u] = TRUE => HasSubscribed(u)

\* Repeating a checkout never charges twice: whatever fails, overlaps or is rolled
\* back, Stripe never keeps two sessions of one user and interval at a time.
OneSessionPerKey ==
    \A s, t \in Sessions :
        /\ stripe[s] # None /\ stripe[t] # None
        /\ stripe[s].keyed /\ stripe[t].keyed
        /\ stripe[s].user = stripe[t].user /\ stripe[s].interval = stripe[t].interval
        => s = t

\* A user gets a second row only by the commit of a webhook that had found none and
\* was overtaken, and the rows are of different subscriptions.
SecondRowOnlyIfStale ==
    [][\A u \in Users : Cardinality(RowsOf(u)') > 1 =>
        \/ RowsOf(u)' = RowsOf(u)
        \/ \E r \in Reqs :
            /\ req[r].pc = "flushed"
            /\ req'[r] = Idle
            /\ req[r].user = u
            /\ req[r].seen = None
            /\ RowsOf(u) # {}
            /\ \A w \in RowsOf(u) : subscriptions[w].sub # req[r].new.sub]_subscriptions

(***************************************************************************)
(* What the code says of itself and does not keep.                         *)
(***************************************************************************)

\* A user has at most one row: get_by_user raises otherwise (scalar_one_or_none), and
\* User.subscription is declared with uselist=False.
OneRowPerUser == \A u \in Users : Cardinality(RowsOf(u)) <= 1

================================================================================
