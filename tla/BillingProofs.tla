----------------------------- MODULE BillingProofs -----------------------------
(***************************************************************************)
(* Theorems about Billing, for any number of users, intervals, trial days, *)
(* processes, requests, runs of the job, events and periods.               *)
(***************************************************************************)
EXTENDS Billing, TLAPS, FiniteSetTheorems

(***************************************************************************)
(* The type invariant needs two more facts: events are about subscriptions *)
(* that have started, and what a request or a run of the job has read, or  *)
(* asked for, exists.                                                      *)
(***************************************************************************)

StripeInv ==
    /\ \A e \in events : Started(e.sub)
    /\ IsFiniteSet(events)

\* A checkout that has its answer has a session.
Answered(q) == q.pc = "asked" => q.session \in Sessions /\ stripe[q.session] # None

\* A row belongs to the user it was inserted for, and a request that loaded it is
\* about that user.  The key of a row about to be inserted is free.
Loaded(q) ==
    q.pc \in {"received", "flushed"} =>
        /\ q.new.user = q.user
        /\ q.seen # None => subscriptions[q.id] # None /\ subscriptions[q.id].user = q.user
        /\ q.pc = "flushed" /\ q.seen = None => subscriptions[q.id] = None

Inserts(q) == q.pc = "flushed" /\ q.seen = None

\* Two requests about to insert a row have different keys.
OwnKeys == \A r, o \in Reqs : r # o /\ Inserts(req[r]) /\ Inserts(req[o]) => req[r].id # req[o].id

ReadInv ==
    /\ \A r \in Reqs : Loaded(req[r]) /\ Answered(req[r])
    /\ OwnKeys
    /\ \A j \in Jobs : \A w \in job[j] : subscriptions[w] # None

TypeInv == TypeOK /\ StripeInv /\ ReadInv

\* Wherever a customer is written down, it is one that was created for that user.
HolderInv ==
    /\ \A s \in Sessions : stripe[s] # None => holder[stripe[s].customer] = stripe[s].user
    /\ \A u \in Users : customerOf[u] # None => holder[customerOf[u]] = u
    /\ \A r \in Reqs : /\ req[r].pc \in {"asking", "asked", "received", "flushed"}
                       /\ req[r].customer # None
                       => holder[req[r].customer] = req[r].user

\* A webhook is about an event that was sent, for the user of its subscription.
EventInv ==
    \A r \in Reqs : req[r].pc \in {"received", "flushed"} =>
        /\ stripe[req[r].new.sub] # None
        /\ stripe[req[r].new.sub].user = req[r].user
        /\ \E e \in events : e.n = req[r].event /\ e.sub = req[r].new.sub

OwnerInv == TypeInv /\ HolderInv /\ EventInv

\* Wherever "premium" is written down, the user has subscribed.
PremiumInv ==
    /\ \A e \in events : e.status # "incomplete" => HasSubscribed(stripe[e.sub].user)
    /\ \A w \in Workers : subscriptions[w] # None /\ Grants(subscriptions[w].status)
                            => HasSubscribed(subscriptions[w].user)
    /\ \A u \in Users : premium[u] = TRUE => HasSubscribed(u)
    /\ \A r \in Reqs :
        /\ req[r].pc \in {"received", "flushed"} /\ Grants(req[r].new.status)
            => HasSubscribed(req[r].user)
        /\ req[r].pc = "resolved" /\ req[r].result = TRUE => HasSubscribed(req[r].user)

-----------------------------------------------------------------------------
(***************************************************************************)
(* The kinds of request.                                                   *)
(***************************************************************************)

Checkout == [pc : {"asking", "asked"}, user : Users, interval : Intervals,
             customer : Customers \union {None}, created : BOOLEAN,
             session : Sessions \union {None}]

Webhook == [pc : {"received", "flushed"}, worker : Workers, event : EventIds,
            user : Users, customer : Customers \union {None},
            id : Workers, seen : Row \union {None}, new : Row]

Stray == [pc : {"skipped"}, worker : Workers, event : EventIds]

Answer == [pc : {"resolved"}, user : Users, result : BOOLEAN]

LEMMA RequestIs == Request = {Idle} \union Checkout \union Webhook \union Stray \union Answer
  BY DEF Request, Checkout, Webhook, Stray, Answer

LEMMA IdlePc == Idle \in Request /\ Idle.pc = "idle"
  BY DEF Request, Idle

\* The program counter tells the kind.
LEMMA Kinds ==
  ASSUME TypeOK, NEW r \in Reqs
  PROVE  /\ req[r].pc \in {"asking", "asked"} => req[r] \in Checkout
         /\ req[r].pc \in {"received", "flushed"} => req[r] \in Webhook
         /\ req[r].pc = "skipped" => req[r] \in Stray
         /\ req[r].pc = "resolved" => req[r] \in Answer
  <1>1. req[r] \in Request
    BY DEF TypeOK
  <1>2. QED
    BY <1>1, RequestIs, IdlePc DEF Checkout, Webhook, Stray, Answer

\* What a request turns into.
LEMMA Advance ==
  ASSUME NEW q \in Webhook
  PROVE  LET f == [q EXCEPT !.pc = "flushed"] IN
         /\ f \in Webhook /\ f.pc = "flushed"
         /\ f.new = q.new /\ f.user = q.user /\ f.customer = q.customer
         /\ f.seen = q.seen /\ f.id = q.id /\ f.event = q.event
  BY DEF Webhook

LEMMA Ensured ==
  ASSUME NEW q \in Checkout, NEW c \in Customers
  PROVE  LET e == [q EXCEPT !.customer = c, !.created = TRUE] IN
         /\ e \in Checkout /\ e.pc = q.pc /\ e.user = q.user /\ e.customer = c
  BY DEF Checkout

LEMMA Asked ==
  ASSUME NEW q \in Checkout, NEW s \in Sessions
  PROVE  LET a == [q EXCEPT !.pc = "asked", !.session = s] IN
         /\ a \in Checkout /\ a.pc = "asked" /\ a.session = s
         /\ a.user = q.user /\ a.customer = q.customer
  BY DEF Checkout

LEMMA Nothing == /\ None \notin Row /\ None \notin Session /\ None \notin Customers
                 /\ None \notin EventIds /\ None \notin Workers /\ None \notin Users
                 /\ None \notin Sessions
  BY NoneIsNotAValue

\* What a webhook writes is a row of its user.  It is a row of another subscription
\* only if the webhook sets that column.
LEMMA WrittenRow ==
  ASSUME TypeInv, NEW r \in Reqs, req[r].pc = "flushed"
  PROVE  /\ Written(req[r]) \in Row /\ Written(req[r]).user = req[r].user
         /\ IF SetsSub(req[r])
            THEN Written(req[r]).sub = req[r].new.sub
            ELSE /\ subscriptions[req[r].id] # None
                 /\ Written(req[r]).sub = subscriptions[req[r].id].sub
         /\ \/ Written(req[r]).status = req[r].new.status
            \/ /\ subscriptions[req[r].id] # None
               /\ subscriptions[req[r].id].user = req[r].user
               /\ Written(req[r]).status = subscriptions[req[r].id].status
  <1>1. req[r] \in Webhook
    BY Kinds DEF TypeInv
  <1> DEFINE q == req[r]
             row == subscriptions[q.id]
  <1>2. q.new \in Row /\ q.seen \in Row \union {None} /\ q.id \in Workers /\ q.new.user = q.user
    BY <1>1 DEF Webhook, TypeInv, ReadInv, Loaded
  <1>3. CASE q.seen = None
    BY <1>2, <1>3 DEF Written, SetsSub
  <1>4. CASE q.seen # None
    <2>1. row # None /\ row \in Row /\ row.user = q.user
      BY <1>2, <1>4 DEF TypeInv, ReadInv, Loaded, TypeOK
    <2>2. Written(q) =
         [user |-> row.user,
          sub |-> Column(q.seen.sub, q.new.sub, row.sub),
          customer |-> Column(q.seen.customer, q.new.customer, row.customer),
          status |-> Column(q.seen.status, q.new.status, row.status),
          period |-> Column(q.seen.period, q.new.period, row.period)]
      BY <1>4 DEF Written
    <2>3. Written(q) \in Row /\ Written(q).user = q.user
      BY <1>2, <2>1, <2>2 DEF Row, Column
    <2>4. Written(q).sub = (IF q.new.sub # q.seen.sub THEN q.new.sub ELSE row.sub)
      BY <2>2 DEF Column
    <2>5. Written(q).status = (IF q.new.status # q.seen.status THEN q.new.status ELSE row.status)
      BY <2>2 DEF Column
    <2>6. QED
      BY <1>4, <2>1, <2>3, <2>4, <2>5 DEF SetsSub
  <1>5. QED
    BY <1>3, <1>4

-----------------------------------------------------------------------------
(***************************************************************************)
(* Types.                                                                  *)
(***************************************************************************)

LEMMA TypeInit == Init => TypeInv
  <1> SUFFICES ASSUME Init PROVE TypeInv
    OBVIOUS
  <1>1. TypeOK
    BY IdlePc, BoundsAreNumbers DEF Init, TypeOK, Periods
  <1>2. StripeInv
    BY FS_EmptySet DEF Init, StripeInv
  <1>3. ReadInv
    BY IdlePc DEF Init, ReadInv, Loaded, Answered, Inserts, OwnKeys
  <1>4. QED
    BY <1>1, <1>2, <1>3 DEF TypeInv

\* A step of one request that leaves the table alone.
LEMMA RequestStep ==
  ASSUME TypeInv, NEW r \in Reqs, NEW q \in Request, req' = [req EXCEPT ![r] = q],
         subscriptions' = subscriptions, job' = job,
         \A s \in Sessions : stripe[s] # None => stripe'[s] # None,
         Loaded(q),
         q.pc = "asked" => q.session \in Sessions /\ stripe'[q.session] # None,
         Inserts(q) => \A o \in Reqs \ {r} : Inserts(req[o]) => req[o].id # q.id
  PROVE  req' \in [Reqs -> Request] /\ ReadInv'
  <1>1. /\ req' \in [Reqs -> Request]
        /\ req'[r] = q
        /\ \A o \in Reqs \ {r} : req'[o] = req[o]
    BY DEF TypeInv, TypeOK
  <1>2. \A o \in Reqs : Loaded(req[o])'
    BY <1>1 DEF TypeInv, ReadInv, Loaded
  <1>3. \A o \in Reqs : Answered(req[o])'
    BY <1>1 DEF TypeInv, ReadInv, Answered
  <1>4. OwnKeys'
    <2> SUFFICES ASSUME NEW x \in Reqs, NEW y \in Reqs, x # y,
                        Inserts(req'[x]), Inserts(req'[y])
                 PROVE  req'[x].id # req'[y].id
      BY DEF OwnKeys, Inserts
    <2>1. CASE x = r
      BY <1>1, <2>1
    <2>2. CASE y = r
      BY <1>1, <2>2
    <2>3. CASE x # r /\ y # r
      BY <1>1, <2>3 DEF TypeInv, ReadInv, OwnKeys
    <2>4. QED
      BY <2>1, <2>2, <2>3
  <1>5. QED
    BY <1>1, <1>2, <1>3, <1>4 DEF TypeInv, ReadInv

LEMMA FinishStep ==
  ASSUME TypeInv, NEW r \in Reqs, Finish(r), subscriptions' = subscriptions, job' = job,
         \A s \in Sessions : stripe[s] # None => stripe'[s] # None
  PROVE  req' \in [Reqs -> Request] /\ ReadInv'
  <1>1. Loaded(Idle) /\ ~Inserts(Idle) /\ Idle.pc # "asked"
    BY IdlePc DEF Loaded, Inserts
  <1>2. QED
    BY <1>1, IdlePc, RequestStep DEF Finish

\* How Stripe's record of one subscription changes, at Stripe.
LEMMA SubscriptionStep ==
  ASSUME TypeInv, NEW s \in Sessions, Subscribe(s) \/ Charge(s)
  PROVE  /\ stripe[s] # None /\ stripe'[s] # None
         /\ stripe' \in [Sessions -> Session \union {None}]
         /\ stripe'[s].user = stripe[s].user
         /\ stripe'[s].interval = stripe[s].interval
         /\ stripe'[s].customer = stripe[s].customer
         /\ stripe'[s].keyed = stripe[s].keyed
         /\ stripe'[s].status \in Status
         /\ Charge(s) => stripe'[s].status # "incomplete"
         /\ \A t \in Sessions : t # s => stripe'[t] = stripe[t]
  <1>1. stripe[s] \in Session /\ stripe[s] # None
    BY DEF Subscribe, Charge, Started, TypeInv, TypeOK
  <1>2. PICK to \in Status, p \in Periods :
            /\ stripe' = [stripe EXCEPT ![s] = [stripe[s] EXCEPT !.status = to, !.period = p]]
            /\ Charge(s) => to # "incomplete"
    <2>1. CASE Charge(s)
      <3>1. PICK to \in Outcomes : stripe' = [stripe EXCEPT ![s] =
                [stripe[s] EXCEPT !.status = to,
                                  !.period = IF to = "canceled" THEN @ ELSE now]]
        BY <2>1 DEF Charge
      <3>2. to \in Status /\ to # "incomplete"
        BY OutcomesAreStatuses DEF Status
      <3>3. stripe[s].period \in Periods /\ now \in Periods
        BY <1>1 DEF Session, TypeInv, TypeOK
      <3>4. QED
        BY <3>1, <3>2, <3>3
    <2>2. CASE Subscribe(s) /\ ~Charge(s)
      <3>1. (IF TrialDays > 0 THEN "trialing" ELSE "incomplete") \in Status
        BY DEF Status
      <3>2. QED
        BY <2>2, <3>1 DEF Subscribe, TypeInv, TypeOK
    <2>3. QED
      BY <2>1, <2>2
  <1> DEFINE x == [stripe[s] EXCEPT !.status = to, !.period = p]
  <1>3. /\ x \in Session /\ x.user = stripe[s].user /\ x.interval = stripe[s].interval
        /\ x.customer = stripe[s].customer /\ x.keyed = stripe[s].keyed /\ x.status = to
    BY <1>1 DEF Session
  <1>4. stripe' = [stripe EXCEPT ![s] = x]
    BY <1>2
  <1> HIDE DEF x
  <1>5. stripe'[s] = x /\ \A t \in Sessions : t # s => stripe'[t] = stripe[t]
    BY <1>4 DEF TypeInv, TypeOK
  <1>6. stripe' \in [Sessions -> Session \union {None}]
    BY <1>3, <1>4 DEF TypeInv, TypeOK
  <1>7. QED
    BY <1>1, <1>2, <1>3, <1>5, <1>6, Nothing

\* A key is forgotten: the session is gone if it was never filled in.
LEMMA ForgetStep ==
  ASSUME TypeInv, NEW s \in Sessions, ForgetKey(s)
  PROVE  /\ stripe' \in [Sessions -> Session \union {None}]
         /\ \A t \in Sessions : t # s => stripe'[t] = stripe[t]
         /\ IF Started(s)
            THEN /\ stripe'[s] # None
                 /\ stripe'[s].user = stripe[s].user
                 /\ stripe'[s].interval = stripe[s].interval
                 /\ stripe'[s].customer = stripe[s].customer
                 /\ stripe'[s].status = stripe[s].status
                 /\ stripe'[s].keyed = FALSE
            ELSE stripe'[s] = None
         /\ \A r \in Reqs : req[r].pc = "asked" => req[r].session # s
  <1> DEFINE x == IF Started(s) THEN [stripe[s] EXCEPT !.keyed = FALSE] ELSE None
  <1>1. stripe[s] \in Session
    BY DEF ForgetKey, TypeInv, TypeOK
  <1>2. /\ x \in Session \union {None}
        /\ Started(s) => /\ x \in Session
                         /\ x.user = stripe[s].user /\ x.interval = stripe[s].interval
                         /\ x.customer = stripe[s].customer
                         /\ x.status = stripe[s].status /\ x.keyed = FALSE
        /\ ~Started(s) => x = None
    BY <1>1 DEF Session
  <1>3. stripe' = [stripe EXCEPT ![s] = x]
    BY DEF ForgetKey
  <1> HIDE DEF x
  <1>4. stripe'[s] = x /\ \A t \in Sessions : t # s => stripe'[t] = stripe[t]
    BY <1>3 DEF TypeInv, TypeOK
  <1>5. stripe' \in [Sessions -> Session \union {None}]
    BY <1>2, <1>3 DEF TypeInv, TypeOK
  <1>6. QED
    BY <1>2, <1>4, <1>5, Nothing DEF ForgetKey

\* The steps of Stripe and of the calendar.
LEMMA StripeStep ==
  ASSUME TypeInv,
         \/ Tick
         \/ \E s \in Sessions : \/ Subscribe(s) \/ Charge(s) \/ ForgetKey(s)
                                \/ Send(s, "checkout") \/ Send(s, "updated")
  PROVE  TypeInv'
  <1>0. /\ req' = req /\ subscriptions' = subscriptions /\ job' = job /\ customerOf' = customerOf
        /\ recorded' = recorded /\ premium' = premium /\ holder' = holder
    BY DEF Tick, Subscribe, Charge, ForgetKey, Send
  <1>1. SUFFICES /\ now' \in Periods
                 /\ stripe' \in [Sessions -> Session \union {None}]
                 /\ events' \subseteq Event
                 /\ StripeInv'
                 /\ \A r \in Reqs : req[r].pc = "asked" => stripe'[req[r].session] # None
    <2>1. ReadInv'
      BY <1>0, <1>1 DEF TypeInv, ReadInv, Loaded, Answered, Inserts, OwnKeys
    <2>2. QED
      BY <1>0, <1>1, <2>1 DEF TypeInv, TypeOK
  <1>2. \A r \in Reqs : req[r].pc = "asked" => /\ req[r].session \in Sessions
                                               /\ stripe[req[r].session] # None
    BY DEF TypeInv, ReadInv, Answered
  <1>3. CASE Tick
    <2>1. now' \in Periods
      BY <1>3, BoundsAreNumbers DEF Tick, TypeInv, TypeOK, Periods
    <2>2. QED
      BY <1>2, <1>3, <2>1 DEF Tick, TypeInv, TypeOK, StripeInv, Started
  <1>4. \A e \in events : e.sub \in Sessions
    BY DEF TypeInv, TypeOK, Event
  <1>5. ASSUME NEW s \in Sessions, Subscribe(s) \/ Charge(s)
        PROVE  /\ now' \in Periods
               /\ stripe' \in [Sessions -> Session \union {None}]
               /\ events' \subseteq Event
               /\ StripeInv'
               /\ \A r \in Reqs : req[r].pc = "asked" => stripe'[req[r].session] # None
    <2>1. now' = now /\ events' = events
      BY <1>5 DEF Subscribe, Charge
    <2>2. \A t \in Sessions : Started(t) => Started(t)'
      BY <1>5, SubscriptionStep DEF Started
    <2>3. StripeInv'
      BY <1>4, <2>1, <2>2 DEF TypeInv, StripeInv
    <2>4. QED
      BY <1>2, <1>5, <2>1, <2>3, SubscriptionStep DEF TypeInv, TypeOK
  <1>6. ASSUME NEW s \in Sessions, ForgetKey(s)
        PROVE  /\ now' \in Periods
               /\ stripe' \in [Sessions -> Session \union {None}]
               /\ events' \subseteq Event
               /\ StripeInv'
               /\ \A r \in Reqs : req[r].pc = "asked" => stripe'[req[r].session] # None
    <2>1. now' = now /\ events' = events
      BY <1>6 DEF ForgetKey
    <2>2. \A t \in Sessions : Started(t) => Started(t)'
      BY <1>6, ForgetStep DEF Started
    <2>3. StripeInv'
      BY <1>4, <2>1, <2>2 DEF TypeInv, StripeInv
    <2>4. \A r \in Reqs : req[r].pc = "asked" => stripe'[req[r].session] # None
      BY <1>2, <1>6, ForgetStep
    <2>5. QED
      BY <1>6, <2>1, <2>3, <2>4, ForgetStep DEF TypeInv, TypeOK
  <1>7. ASSUME NEW s \in Sessions, NEW type \in {"checkout", "updated"}, Send(s, type)
        PROVE  /\ now' \in Periods
               /\ stripe' \in [Sessions -> Session \union {None}]
               /\ events' \subseteq Event
               /\ StripeInv'
               /\ \A r \in Reqs : req[r].pc = "asked" => stripe'[req[r].session] # None
    <2> DEFINE e == [n |-> Cardinality(events) + 1, type |-> type, sub |-> s,
                     status |-> stripe[s].status, period |-> stripe[s].period]
    <2>1. events' = events \union {e} /\ now' = now /\ stripe' = stripe /\ Started(s)
      BY <1>7 DEF Send
    <2>2. stripe[s] \in Session /\ stripe[s].status \in Status
      BY <2>1 DEF TypeInv, TypeOK, Started
    <2>3. Cardinality(events) + 1 \in EventIds
      <3>1. Cardinality(events) \in Nat
        BY FS_CardinalityType DEF TypeInv, StripeInv
      <3>2. Cardinality(events) < MaxEvents
        BY <1>7 DEF Send
      <3>3. QED
        BY <3>1, <3>2, BoundsAreNumbers DEF EventIds
    <2>4. e \in Event /\ e.sub = s
      BY <2>2, <2>3 DEF Session, Event
    <2> HIDE DEF e
    <2>5. IsFiniteSet(events')
      BY <2>1, FS_AddElement DEF TypeInv, StripeInv
    <2>6. StripeInv'
      BY <2>1, <2>4, <2>5 DEF TypeInv, StripeInv, Started
    <2>7. QED
      BY <1>2, <2>1, <2>4, <2>6 DEF TypeInv, TypeOK
  <1>8. QED
    BY <1>3, <1>5, <1>6, <1>7

\* The steps of the checkout.
LEMMA CheckoutStep ==
  ASSUME TypeInv, NEW r \in Reqs,
         \/ \E u \in Users, i \in Intervals : AskCheckout(r, u, i)
         \/ EnsureCustomer(r) \/ CreateSession(r) \/ CommitCheckout(r)
  PROVE  TypeInv'
  <1>0. /\ now' = now /\ events' = events /\ subscriptions' = subscriptions
        /\ recorded' = recorded /\ premium' = premium /\ job' = job
    BY DEF AskCheckout, EnsureCustomer, CreateSession, CommitCheckout
  <1>1. ASSUME NEW u \in Users, NEW i \in Intervals, AskCheckout(r, u, i)
        PROVE  TypeInv'
    <2> DEFINE q == [pc |-> "asking", user |-> u, interval |-> i, customer |-> customerOf[u],
                     created |-> FALSE, session |-> None]
    <2>1. q \in Request /\ Loaded(q) /\ q.pc = "asking"
      BY RequestIs DEF Checkout, Loaded, TypeInv, TypeOK
    <2>2. /\ req' = [req EXCEPT ![r] = q]
          /\ stripe' = stripe /\ customerOf' = customerOf /\ holder' = holder
      BY <1>1 DEF AskCheckout
    <2> HIDE DEF q
    <2>3. req' \in [Reqs -> Request] /\ ReadInv'
      BY <1>0, <2>1, <2>2, RequestStep DEF Inserts
    <2>4. QED
      BY <1>0, <2>2, <2>3 DEF TypeInv, TypeOK, StripeInv, Started
  <1>2. CASE EnsureCustomer(r)
    <2>1. req[r] \in Checkout /\ req[r].pc = "asking" /\ req[r].user \in Users
      BY <1>2, Kinds DEF EnsureCustomer, TypeInv, Checkout
    <2>2. PICK c \in Customers :
            /\ holder' = [holder EXCEPT ![c] = req[r].user]
            /\ req' = [req EXCEPT ![r] = [req[r] EXCEPT !.customer = c, !.created = TRUE]]
      BY <1>2 DEF EnsureCustomer
    <2> DEFINE q == [req[r] EXCEPT !.customer = c, !.created = TRUE]
    <2>3. q \in Checkout /\ q.pc = "asking"
      BY <2>1, Ensured
    <2>4. req' = [req EXCEPT ![r] = q]
      BY <2>2
    <2> HIDE DEF q
    <2>5. stripe' = stripe /\ customerOf' = customerOf
      BY <1>2 DEF EnsureCustomer
    <2>6. req' \in [Reqs -> Request] /\ ReadInv'
      BY <1>0, <2>3, <2>4, <2>5, RequestIs, RequestStep DEF Inserts, Loaded
    <2>7. QED
      BY <1>0, <2>1, <2>2, <2>5, <2>6 DEF TypeInv, TypeOK, StripeInv, Started
  <1>3. CASE CreateSession(r)
    <2>1. req[r] \in Checkout /\ req[r].pc = "asking"
      BY <1>3, Kinds DEF CreateSession, TypeInv
    <2> DEFINE x == [user |-> req[r].user, interval |-> req[r].interval,
                     customer |-> req[r].customer, keyed |-> TRUE,
                     status |-> "created", period |-> now]
    <2>2. PICK s \in Sessions :
            /\ \/ stripe[s] = None /\ stripe' = [stripe EXCEPT ![s] = x]
               \/ stripe[s] # None /\ stripe' = stripe
            /\ req' = [req EXCEPT ![r] = [req[r] EXCEPT !.pc = "asked", !.session = s]]
      BY <1>3 DEF CreateSession, Kept
    <2> DEFINE q == [req[r] EXCEPT !.pc = "asked", !.session = s]
    <2>3. q \in Checkout /\ q.pc = "asked" /\ q.session = s
      BY <2>1, Asked
    <2>4. req' = [req EXCEPT ![r] = q]
      BY <2>2
    <2>5. x \in Session
      BY <1>3, <2>1 DEF CreateSession, Checkout, Session, TypeInv, TypeOK
    <2> HIDE DEF q, x
    <2>6. /\ stripe' \in [Sessions -> Session \union {None}]
          /\ stripe'[s] # None
          /\ \A t \in Sessions : stripe[t] # None => stripe'[t] = stripe[t]
      BY <2>2, <2>5, Nothing DEF TypeInv, TypeOK
    <2>7. req' \in [Reqs -> Request] /\ ReadInv'
      BY <1>0, <2>3, <2>4, <2>6, RequestIs, RequestStep DEF Inserts, Loaded
    <2>8. \A t \in Sessions : Started(t) => Started(t)'
      BY <2>6 DEF Started
    <2>9. StripeInv'
      BY <1>0, <2>8 DEF TypeInv, TypeOK, StripeInv, Event
    <2>10. customerOf' = customerOf /\ holder' = holder
      BY <1>3 DEF CreateSession
    <2>11. QED
      BY <1>0, <2>6, <2>7, <2>9, <2>10 DEF TypeInv, TypeOK
  <1>4. CASE CommitCheckout(r)
    <2> DEFINE s == req[r].session
    <2>1. /\ req[r] \in Checkout /\ s \in Sessions /\ stripe[s] \in Session
          /\ req[r].customer \in Customers \union {None}
      BY <1>4, Kinds DEF CommitCheckout, TypeInv, TypeOK, ReadInv, Answered, Checkout
    <2>2. [stripe[s] EXCEPT !.status = "open"] \in Session
      BY <2>1 DEF Session
    <2>3. stripe' = [stripe EXCEPT ![s] =
            IF stripe[s].status = "created" THEN [stripe[s] EXCEPT !.status = "open"]
                                            ELSE stripe[s]]
      BY <1>4 DEF CommitCheckout
    <2> HIDE DEF s
    <2>4. /\ stripe' \in [Sessions -> Session \union {None}]
          /\ \A t \in Sessions : stripe[t] # None => stripe'[t] # None
          /\ \A t \in Sessions : stripe[t] # None /\ stripe[t].status # "created"
                                    => stripe'[t] = stripe[t]
      BY <2>1, <2>2, <2>3, Nothing DEF TypeInv, TypeOK
    <2>5. req' \in [Reqs -> Request] /\ ReadInv'
      BY <1>0, <1>4, <2>4, FinishStep DEF CommitCheckout
    <2>6. \A t \in Sessions : Started(t) => Started(t)'
      BY <2>4 DEF Started, Status
    <2>7. StripeInv'
      BY <1>0, <2>6 DEF TypeInv, TypeOK, StripeInv, Event
    <2>8. customerOf' \in [Users -> Customers \union {None}] /\ holder' = holder
      BY <1>4, <2>1 DEF CommitCheckout, TypeInv, TypeOK
    <2>9. QED
      BY <1>0, <2>4, <2>5, <2>7, <2>8 DEF TypeInv, TypeOK
  <1>5. QED
    BY <1>1, <1>2, <1>3, <1>4

\* The first half of a webhook.
LEMMA ReceiveStep ==
  ASSUME TypeInv, NEW r \in Reqs,
         \/ \E e \in events, w \in Workers : Receive(r, e, w) \/ ReceiveStray(r, e, w)
         \/ Flush(r)
  PROVE  TypeInv'
  <1>0. /\ now' = now /\ stripe' = stripe /\ events' = events /\ customerOf' = customerOf
        /\ subscriptions' = subscriptions /\ recorded' = recorded /\ job' = job
        /\ holder' = holder
    BY DEF Receive, ReceiveStray, Flush
  <1>1. SUFFICES ASSUME req' \in [Reqs -> Request], ReadInv',
                        premium' \in [Users -> BOOLEAN \union {None}]
                 PROVE  TypeInv'
    <2>1. ASSUME NEW e \in events, NEW w \in Workers, Receive(r, e, w)
          PROVE  req' \in [Reqs -> Request] /\ ReadInv' /\ premium' = premium
      <3>1. PICK u \in Users, v \in Workers :
                /\ RowsOf(u) = {v} \/ (RowsOf(u) = {} /\ v = w)
                /\ req' = [req EXCEPT ![r] =
                    [pc |-> "received", worker |-> w, event |-> e.n, user |-> u,
                     customer |-> IF e.type = "checkout" /\ customerOf[u] = None
                                  THEN stripe[e.sub].customer ELSE None,
                     id |-> v,
                     seen |-> IF RowsOf(u) = {} THEN None ELSE subscriptions[v],
                     new |-> Upsert(e, u)]]
        BY <2>1 DEF Receive
      <3> DEFINE c == IF e.type = "checkout" /\ customerOf[u] = None
                      THEN stripe[e.sub].customer ELSE None
                 seen == IF RowsOf(u) = {} THEN None ELSE subscriptions[v]
                 new == Upsert(e, u)
                 q == [pc |-> "received", worker |-> w, event |-> e.n, user |-> u,
                       customer |-> c, id |-> v, seen |-> seen, new |-> new]
      <3>2. e \in Event /\ Started(e.sub)
        BY DEF TypeInv, TypeOK, StripeInv
      <3>3. /\ e.sub \in Sessions /\ stripe[e.sub] \in Session
            /\ stripe[e.sub].customer \in Customers
            /\ stripe[e.sub].status \in Status
        BY <3>2 DEF Event, TypeInv, TypeOK, Started, Session
      <3>4. new \in Row /\ new.user = u
        BY <3>2, <3>3 DEF Upsert, Row, Event, Session
      <3>5. c \in Customers \union {None}
        BY <3>3
      <3>6. /\ seen \in Row \union {None}
            /\ seen # None => subscriptions[v] # None /\ subscriptions[v].user = u
        BY <3>1 DEF TypeInv, TypeOK, RowsOf
      <3>7. e.n \in EventIds
        BY <3>2 DEF Event
      <3> HIDE DEF c, seen, new
      <3>8. q \in Request
        BY <3>4, <3>5, <3>6, <3>7, RequestIs DEF Webhook
      <3>9. Loaded(q) /\ q.pc = "received"
        BY <3>4, <3>6 DEF Loaded
      <3>10. req' = [req EXCEPT ![r] = q] /\ premium' = premium
        BY <2>1, <3>1 DEF Receive, c, seen, new
      <3> HIDE DEF q
      <3>11. QED
        BY <1>0, <3>8, <3>9, <3>10, RequestStep DEF Inserts
    <2>2. ASSUME NEW e \in events, NEW w \in Workers, ReceiveStray(r, e, w)
          PROVE  req' \in [Reqs -> Request] /\ ReadInv' /\ premium' = premium
      <3> DEFINE q == [pc |-> "skipped", worker |-> w, event |-> e.n]
      <3>1. e.n \in EventIds
        BY DEF TypeInv, TypeOK, Event
      <3>2. q \in Request /\ Loaded(q) /\ q.pc = "skipped"
        BY <3>1, RequestIs DEF Stray, Loaded
      <3>3. req' = [req EXCEPT ![r] = q] /\ premium' = premium
        BY <2>2 DEF ReceiveStray
      <3> HIDE DEF q
      <3>4. QED
        BY <1>0, <3>2, <3>3, RequestStep DEF Inserts
    <2>3. ASSUME Flush(r)
          PROVE  /\ req' \in [Reqs -> Request] /\ ReadInv'
                 /\ premium' \in [Users -> BOOLEAN \union {None}]
      <3> DEFINE q == [req[r] EXCEPT !.pc = "flushed"]
      <3>1. req[r] \in Webhook /\ req[r].pc = "received"
        BY <2>3, Kinds DEF Flush, TypeInv
      <3>2. /\ q \in Request /\ q.pc = "flushed" /\ q.new = req[r].new /\ q.user = req[r].user
            /\ q.seen = req[r].seen /\ q.id = req[r].id
        BY <3>1, Advance, RequestIs
      <3>3. Loaded(req[r])
        BY DEF TypeInv, ReadInv
      <3>4. req' = [req EXCEPT ![r] = q] /\ Unique(req[r]) /\ ~Locked(req[r])
        BY <2>3 DEF Flush
      <3> HIDE DEF q
      <3>5. Loaded(q)
        BY <3>1, <3>2, <3>3, <3>4 DEF Loaded, Unique
      <3>6. ASSUME Inserts(q), NEW o \in Reqs \ {r}, Inserts(req[o])
            PROVE  req[o].id # q.id
        <4>1. req[o] \in Webhook
          BY <3>6, Kinds DEF Inserts, TypeInv
        <4>2. Writes(req[r]) /\ Writes(req[o])
          BY <3>1, <3>2, <3>6, <4>1, Nothing DEF Writes, Webhook, Inserts
        <4>3. QED
          BY <3>2, <3>4, <3>6, <4>2 DEF Locked, RowWritten, Inserts
      <3>7. req' \in [Reqs -> Request] /\ ReadInv'
        BY <1>0, <3>2, <3>4, <3>5, <3>6, RequestStep
      <3>8. Grants(req[r].new.status) \in BOOLEAN
        BY DEF Grants
      <3>9. premium' \in [Users -> BOOLEAN \union {None}]
        BY <2>3, <3>8 DEF Flush, TypeInv, TypeOK
      <3>10. QED
        BY <3>7, <3>9
    <2>4. premium' = premium => premium' \in [Users -> BOOLEAN \union {None}]
      BY DEF TypeInv, TypeOK
    <2>5. QED
      BY <2>1, <2>2, <2>3, <2>4
  <1>2. QED
    BY <1>0, <1>1 DEF TypeInv, TypeOK, StripeInv, Started

\* The commit of a webhook.
LEMMA CommitStep ==
  ASSUME TypeInv, NEW r \in Reqs, CommitWebhook(r)
  PROVE  TypeInv'
  <1> DEFINE q == req[r]
             new == Written(q)
  <1>1. q \in Webhook /\ q.pc = "flushed"
    BY Kinds DEF CommitWebhook, TypeInv
  <1>2. /\ q.id \in Workers /\ q.worker \in Workers /\ q.event \in EventIds /\ q.user \in Users
        /\ q.customer \in Customers \union {None}
    BY <1>1 DEF Webhook
  <1>3. new \in Row /\ new.user = q.user /\ new # None
    BY <1>1, WrittenRow, Nothing
  <1>4. /\ subscriptions' = [subscriptions EXCEPT ![q.id] = new]
        /\ customerOf' = [customerOf EXCEPT ![q.user] = IF q.customer = None THEN @ ELSE q.customer]
        /\ recorded' = [recorded EXCEPT ![q.worker] = q.event]
        /\ req' = [req EXCEPT ![r] = Idle]
        /\ UNCHANGED <<now, holder, stripe, events, premium, job>>
    BY DEF CommitWebhook, Finish
  <1>5. Loaded(q)
    BY DEF TypeInv, ReadInv
  <1>6. \A w \in Workers : /\ subscriptions[w] # None => subscriptions'[w] # None
                           /\ w # q.id => subscriptions'[w] = subscriptions[w]
    BY <1>2, <1>3, <1>4 DEF TypeInv, TypeOK
  <1>7. subscriptions'[q.id] = new
    BY <1>2, <1>4 DEF TypeInv, TypeOK
  <1> HIDE DEF new
  <1>8. TypeOK'
    BY <1>2, <1>3, <1>4, IdlePc DEF TypeInv, TypeOK
  <1>9. StripeInv'
    BY <1>4 DEF TypeInv, StripeInv, Started
  <1>10. /\ req'[r] = Idle
         /\ \A o \in Reqs \ {r} : req'[o] = req[o]
    BY <1>4 DEF TypeInv, TypeOK
  <1>11. ASSUME NEW o \in Reqs PROVE Loaded(req[o])'
    <2>1. CASE o = r
      BY <2>1, <1>10, IdlePc DEF Loaded
    <2>2. CASE o # r /\ req[o].pc \in {"received", "flushed"}
      <3>1. req[o] \in Webhook
        BY <2>2, Kinds DEF TypeInv
      <3>2. req[o].id \in Workers /\ req'[o] = req[o]
        BY <2>2, <3>1, <1>10 DEF Webhook
      <3>3. Loaded(req[o])
        BY DEF TypeInv, ReadInv
      <3>4. ASSUME req[o].seen # None
            PROVE  subscriptions'[req[o].id] # None /\ subscriptions'[req[o].id].user = req[o].user
        <4>1. subscriptions[req[o].id] # None /\ subscriptions[req[o].id].user = req[o].user
          BY <2>2, <3>3, <3>4 DEF Loaded
        <4>2. CASE req[o].id = q.id
          <5>1. q.seen # None
            BY <1>1, <1>5, <4>1, <4>2 DEF Loaded
          <5>2. subscriptions[q.id].user = q.user
            BY <1>1, <1>5, <5>1 DEF Loaded
          <5>3. QED
            BY <1>3, <1>7, <4>1, <4>2, <5>2
        <4>3. CASE req[o].id # q.id
          BY <1>6, <3>2, <4>1, <4>3
        <4>4. QED
          BY <4>2, <4>3
      <3>5. ASSUME req[o].pc = "flushed", req[o].seen = None
            PROVE  subscriptions'[req[o].id] = None
        <4>1. subscriptions[req[o].id] = None
          BY <3>3, <3>5 DEF Loaded
        <4>2. CASE q.seen = None
          <5>1. req[o].id # q.id
            BY <1>1, <2>2, <3>5, <4>2 DEF TypeInv, ReadInv, OwnKeys, Inserts
          <5>2. QED
            BY <1>6, <3>2, <4>1, <5>1
        <4>3. CASE q.seen # None
          <5>1. subscriptions[q.id] # None
            BY <1>1, <1>5, <4>3 DEF Loaded
          <5>2. QED
            BY <1>6, <3>2, <4>1, <5>1
        <4>4. QED
          BY <4>2, <4>3
      <3>6. QED
        BY <2>2, <3>2, <3>3, <3>4, <3>5 DEF Loaded
    <2>3. CASE o # r /\ req[o].pc \notin {"received", "flushed"}
      BY <1>10, <2>3 DEF Loaded
    <2>4. QED
      BY <2>1, <2>2, <2>3
  <1>12. ASSUME NEW o \in Reqs PROVE Answered(req[o])'
    BY <1>4, <1>10, IdlePc DEF TypeInv, ReadInv, Answered
  <1>13. OwnKeys'
    BY <1>10, IdlePc DEF TypeInv, ReadInv, OwnKeys, Inserts
  <1>14. \A j \in Jobs : \A w \in job'[j] : subscriptions'[w] # None
    BY <1>4, <1>6 DEF TypeInv, TypeOK, ReadInv
  <1>15. QED
    BY <1>8, <1>9, <1>11, <1>12, <1>13, <1>14 DEF TypeInv, ReadInv

\* The premium gate, the stray events and the requests that fail.
LEMMA GateStep ==
  ASSUME TypeInv,
         \/ \E r \in Reqs : \/ CommitStray(r) \/ Remember(r) \/ Abort(r)
                            \/ \E u \in Users : Resolve(r, u)
         \/ \E u \in Users : Expire(u)
  PROVE  TypeInv'
  <1>0. /\ now' = now /\ stripe' = stripe /\ events' = events /\ customerOf' = customerOf
        /\ subscriptions' = subscriptions /\ job' = job /\ holder' = holder
    BY DEF CommitStray, Remember, Abort, Resolve, Expire
  <1>1. SUFFICES /\ req' \in [Reqs -> Request] /\ ReadInv'
                 /\ premium' \in [Users -> BOOLEAN \union {None}]
                 /\ recorded' \in [Workers -> EventIds \union {None}]
    BY <1>0 DEF TypeInv, TypeOK, StripeInv, Started
  <1>2. ASSUME NEW r \in Reqs, CommitStray(r) \/ Remember(r) \/ Abort(r)
        PROVE  /\ req' \in [Reqs -> Request] /\ ReadInv'
               /\ premium' \in [Users -> BOOLEAN \union {None}]
               /\ recorded' \in [Workers -> EventIds \union {None}]
    <2>1. req' \in [Reqs -> Request] /\ ReadInv'
      BY <1>0, <1>2, FinishStep DEF CommitStray, Remember, Abort
    <2>2. premium' \in [Users -> BOOLEAN \union {None}]
      <3>1. CASE Remember(r)
        <4>1. req[r].result \in BOOLEAN
          BY <3>1, Kinds DEF Remember, Answer, TypeInv
        <4>2. QED
          BY <3>1, <4>1 DEF Remember, TypeInv, TypeOK
      <3>2. CASE CommitStray(r) \/ Abort(r)
        BY <3>2 DEF CommitStray, Abort, TypeInv, TypeOK
      <3>3. QED
        BY <1>2, <3>1, <3>2
    <2>3. recorded' \in [Workers -> EventIds \union {None}]
      <3>1. CASE CommitStray(r)
        <4>1. req[r].event \in EventIds
          BY <3>1, Kinds DEF CommitStray, Stray, TypeInv
        <4>2. QED
          BY <3>1, <4>1 DEF CommitStray, TypeInv, TypeOK
      <3>2. CASE Remember(r) \/ Abort(r)
        BY <3>2 DEF Remember, Abort, TypeInv, TypeOK
      <3>3. QED
        BY <1>2, <3>1, <3>2
    <2>4. QED
      BY <2>1, <2>2, <2>3
  <1>3. ASSUME NEW r \in Reqs, NEW u \in Users, Resolve(r, u)
        PROVE  /\ req' \in [Reqs -> Request] /\ ReadInv'
               /\ premium' \in [Users -> BOOLEAN \union {None}]
               /\ recorded' \in [Workers -> EventIds \union {None}]
    <2> DEFINE result == IsPremium(u)
               q == [pc |-> "resolved", user |-> u, result |-> result]
    <2>1. result \in BOOLEAN
      BY DEF IsPremium
    <2>2. /\ req' = [req EXCEPT ![r] = q]
          /\ premium' = premium /\ recorded' = recorded
      BY <1>3 DEF Resolve
    <2> HIDE DEF result
    <2>3. q \in Request /\ Loaded(q) /\ q.pc = "resolved"
      BY <2>1, RequestIs DEF Answer, Loaded
    <2> HIDE DEF q
    <2>4. req' \in [Reqs -> Request] /\ ReadInv'
      BY <1>0, <2>2, <2>3, RequestStep DEF Inserts
    <2>5. QED
      BY <2>2, <2>4 DEF TypeInv, TypeOK
  <1>4. ASSUME NEW u \in Users, Expire(u)
        PROVE  /\ req' \in [Reqs -> Request] /\ ReadInv'
               /\ premium' \in [Users -> BOOLEAN \union {None}]
               /\ recorded' \in [Workers -> EventIds \union {None}]
    BY <1>0, <1>4 DEF Expire, TypeInv, TypeOK, ReadInv, OwnKeys, Loaded, Answered, Inserts
  <1>5. QED
    BY <1>2, <1>3, <1>4

\* The job.
LEMMA JobStep ==
  ASSUME TypeInv, NEW j \in Jobs, ReadExpired(j) \/ CommitExpired(j) \/ AbortExpired(j)
  PROVE  TypeInv'
  <1>0. /\ now' = now /\ stripe' = stripe /\ events' = events /\ customerOf' = customerOf
        /\ recorded' = recorded /\ premium' = premium /\ req' = req /\ holder' = holder
    BY DEF ReadExpired, CommitExpired, AbortExpired
  <1>1. CASE ReadExpired(j) \/ AbortExpired(j)
    <2>1. subscriptions' = subscriptions
      BY <1>1 DEF ReadExpired, AbortExpired
    <2>2. PICK rows \in {{}, Expired} : job' = [job EXCEPT ![j] = rows]
      BY <1>1 DEF ReadExpired, AbortExpired
    <2>3. rows \subseteq Workers /\ \A w \in rows : subscriptions[w] # None
      BY <2>2 DEF Expired
    <2>4. TypeOK' /\ StripeInv'
      BY <1>0, <2>1, <2>2, <2>3 DEF TypeInv, TypeOK, StripeInv, Started
    <2>5. \A i \in Jobs : \A w \in job'[i] : subscriptions'[w] # None
      BY <2>1, <2>2, <2>3 DEF TypeInv, TypeOK, ReadInv
    <2>6. ReadInv'
      BY <1>0, <2>1, <2>5 DEF TypeInv, ReadInv, Loaded, Answered, Inserts, OwnKeys
    <2>7. QED
      BY <2>4, <2>6 DEF TypeInv
  <1>2. CASE CommitExpired(j)
    <2> DEFINE unpaid(w) == [subscriptions[w] EXCEPT !.status = "unpaid"]
    <2>1. /\ subscriptions' = [w \in Workers |-> IF w \in job[j] THEN unpaid(w)
                                                 ELSE subscriptions[w]]
          /\ job' = [job EXCEPT ![j] = {}]
      BY <1>2 DEF CommitExpired
    <2>2. \A w \in job[j] : subscriptions[w] \in Row
      BY DEF TypeInv, TypeOK, ReadInv
    <2>3. \A w \in job[j] : unpaid(w) \in Row /\ unpaid(w).user = subscriptions[w].user
      BY <2>2 DEF Row, Status
    <2> HIDE DEF unpaid
    <2>4. subscriptions' \in [Workers -> Row \union {None}]
      BY <2>1, <2>3 DEF TypeInv, TypeOK
    <2>5. \A w \in Workers : /\ subscriptions'[w] = None <=> subscriptions[w] = None
                             /\ subscriptions[w] # None =>
                                    subscriptions'[w].user = subscriptions[w].user
      BY <2>1, <2>2, <2>3, Nothing
    <2>6. TypeOK' /\ StripeInv'
      BY <1>0, <2>1, <2>4 DEF TypeInv, TypeOK, StripeInv, Started
    <2>7. ASSUME NEW o \in Reqs PROVE Loaded(req[o])'
      <3>1. CASE req[o].pc \in {"received", "flushed"}
        <4>1. req[o].id \in Workers
          BY <3>1, Kinds DEF Webhook, TypeInv
        <4>2. Loaded(req[o])
          BY DEF TypeInv, ReadInv
        <4>3. QED
          BY <1>0, <2>5, <4>1, <4>2 DEF Loaded
      <3>2. CASE req[o].pc \notin {"received", "flushed"}
        BY <1>0, <3>2 DEF Loaded
      <3>3. QED
        BY <3>1, <3>2
    <2>8. \A i \in Jobs : \A w \in job'[i] : subscriptions'[w] # None
      BY <2>1, <2>5 DEF TypeInv, TypeOK, ReadInv
    <2>9. OwnKeys' /\ \A o \in Reqs : Answered(req[o])'
      BY <1>0 DEF TypeInv, ReadInv, OwnKeys, Inserts, Answered
    <2>10. QED
      BY <2>6, <2>7, <2>8, <2>9 DEF TypeInv, ReadInv
  <1>3. QED
    BY <1>1, <1>2

LEMMA TypeStep ==
  ASSUME TypeInv, [Next]_vars
  PROVE  TypeInv'
  <1>1. CASE UNCHANGED vars
    BY <1>1 DEF vars, TypeInv, TypeOK, StripeInv, Started, ReadInv, Loaded, Answered, Inserts,
                OwnKeys
  <1>2. CASE Next
    BY <1>2, StripeStep, CheckoutStep, ReceiveStep, CommitStep, GateStep, JobStep DEF Next
  <1>3. QED
    BY <1>1, <1>2

\* Types: every row, event, session and request has its form, whatever interleaves;
\* in particular a checkout has its session, and an event its subscription, when they
\* are used, and no row is written half.
THEOREM TypeCorrect == Spec => []TypeOK
  <1>1. TypeInv => TypeOK
    BY DEF TypeInv
  <1>2. QED
    BY <1>1, TypeInit, TypeStep, PTL DEF Spec

-----------------------------------------------------------------------------
(***************************************************************************)
(* What a step can change.                                                 *)
(***************************************************************************)

\* What a request can do.
Moves(r) ==
    \/ \E u \in Users, i \in Intervals : AskCheckout(r, u, i)
    \/ EnsureCustomer(r) \/ CreateSession(r) \/ CommitCheckout(r)
    \/ \E e \in events, w \in Workers : Receive(r, e, w) \/ ReceiveStray(r, e, w)
    \/ Flush(r) \/ CommitWebhook(r) \/ CommitStray(r)
    \/ \E u \in Users : Resolve(r, u)
    \/ Remember(r) \/ Abort(r)

\* A request changes by its own steps only.
LEMMA RequestMoves ==
  ASSUME TypeInv, [Next]_vars, NEW o \in Reqs
  PROVE  req'[o] = req[o] \/ Moves(o)
  <1>1. ASSUME NEW r \in Reqs, r # o, Moves(r)
        PROVE  req'[o] = req[o]
    BY <1>1 DEF Moves, AskCheckout, EnsureCustomer, CreateSession, CommitCheckout, Receive,
                ReceiveStray, Flush, CommitWebhook, CommitStray, Resolve, Remember, Abort,
                Finish, TypeInv, TypeOK
  <1>2. CASE req' = req
    BY <1>2
  <1>3. CASE \E r \in Reqs : Moves(r)
    BY <1>1, <1>3
  <1>4. QED
    BY <1>2, <1>3 DEF Next, Moves, vars, Tick, Subscribe, Charge, ForgetKey, Send, Expire,
                      ReadExpired, CommitExpired, AbortExpired

\* Where a request ends up after a step of its own that is not a webhook's.
LEMMA MovesTo ==
  ASSUME TypeInv, NEW o \in Reqs
  PROVE  /\ \A u \in Users, i \in Intervals : AskCheckout(o, u, i) =>
                /\ req'[o].pc = "asking" /\ req'[o].user = u /\ req'[o].customer = customerOf[u]
         /\ EnsureCustomer(o) => /\ req'[o].pc = "asking"
                                 /\ req'[o].customer \in Customers
                                 /\ req'[o].user \in Users
                                 /\ holder'[req'[o].customer] = req'[o].user
         /\ CreateSession(o) => /\ req[o].pc = "asking" /\ req'[o].pc = "asked"
                                /\ req'[o].user = req[o].user
                                /\ req'[o].customer = req[o].customer
         /\ \A e \in events, w \in Workers : ReceiveStray(o, e, w) => req'[o].pc = "skipped"
         /\ \A u \in Users : Resolve(o, u) => /\ req'[o].pc = "resolved" /\ req'[o].user = u
                                              /\ req'[o].result = IsPremium(u)
         /\ CommitCheckout(o) \/ CommitWebhook(o) \/ CommitStray(o) \/ Remember(o) \/ Abort(o)
                => req'[o].pc = "idle"
  <1>1. ASSUME EnsureCustomer(o)
        PROVE  /\ req'[o].pc = "asking" /\ req'[o].customer \in Customers
               /\ req'[o].user \in Users /\ holder'[req'[o].customer] = req'[o].user
    <2>1. req[o] \in Checkout /\ req[o].pc = "asking" /\ req[o].user \in Users
      BY <1>1, Kinds DEF EnsureCustomer, TypeInv, Checkout
    <2>2. PICK c \in Customers :
            /\ holder' = [holder EXCEPT ![c] = req[o].user]
            /\ req' = [req EXCEPT ![o] = [req[o] EXCEPT !.customer = c, !.created = TRUE]]
      BY <1>1 DEF EnsureCustomer
    <2>3. holder'[c] = req[o].user
      BY <2>2 DEF TypeInv, TypeOK
    <2> DEFINE e == [req[o] EXCEPT !.customer = c, !.created = TRUE]
    <2>4. e.pc = "asking" /\ e.user = req[o].user /\ e.customer = c
      BY <2>1, Ensured
    <2>5. req' = [req EXCEPT ![o] = e]
      BY <2>2
    <2> HIDE DEF e
    <2>6. req'[o] = e
      BY <2>5 DEF TypeInv, TypeOK
    <2>7. QED
      BY <2>1, <2>3, <2>4, <2>6
  <1>2. ASSUME CreateSession(o)
        PROVE  /\ req[o].pc = "asking" /\ req'[o].pc = "asked"
               /\ req'[o].user = req[o].user /\ req'[o].customer = req[o].customer
    <2>1. req[o] \in Checkout /\ req[o].pc = "asking"
      BY <1>2, Kinds DEF CreateSession, TypeInv
    <2>2. PICK s \in Sessions :
            req' = [req EXCEPT ![o] = [req[o] EXCEPT !.pc = "asked", !.session = s]]
      BY <1>2 DEF CreateSession
    <2> DEFINE a == [req[o] EXCEPT !.pc = "asked", !.session = s]
    <2>3. a.pc = "asked" /\ a.user = req[o].user /\ a.customer = req[o].customer
      BY <2>1, Asked
    <2>4. req' = [req EXCEPT ![o] = a]
      BY <2>2
    <2> HIDE DEF a
    <2>5. req'[o] = a
      BY <2>4 DEF TypeInv, TypeOK
    <2>6. QED
      BY <2>1, <2>3, <2>5
  <1>3. CommitCheckout(o) \/ CommitWebhook(o) \/ CommitStray(o) \/ Remember(o) \/ Abort(o)
            => req'[o].pc = "idle"
    BY IdlePc DEF CommitCheckout, CommitWebhook, CommitStray, Remember, Abort, Finish,
                  TypeInv, TypeOK
  <1>4. QED
    BY <1>1, <1>2, <1>3 DEF AskCheckout, ReceiveStray, Resolve, TypeInv, TypeOK

\* A webhook is flushed as it was received.
LEMMA FlushKeeps ==
  ASSUME TypeInv, NEW o \in Reqs, Flush(o)
  PROVE  /\ req[o].pc = "received" /\ req'[o].pc = "flushed"
         /\ req'[o].event = req[o].event /\ req'[o].user = req[o].user
         /\ req'[o].customer = req[o].customer /\ req'[o].new = req[o].new
         /\ req'[o].seen = req[o].seen /\ req'[o].id = req[o].id
         /\ \A r \in Reqs \ {o} : req'[r] = req[r]
  <1>1. req[o] \in Webhook /\ req[o].pc = "received"
    BY Kinds DEF Flush, TypeInv
  <1>2. /\ req'[o] = [req[o] EXCEPT !.pc = "flushed"]
        /\ \A r \in Reqs \ {o} : req'[r] = req[r]
    BY DEF Flush, TypeInv, TypeOK
  <1>3. QED
    BY <1>1, <1>2, Advance

\* Webhooks in progress change by three steps: one is received, flushed or ends.
LEMMA WebhookChange ==
  ASSUME TypeInv, [Next]_vars, NEW o \in Reqs, req'[o].pc \in {"received", "flushed"}
  PROVE  \/ /\ req[o].pc \in {"received", "flushed"}
            /\ req'[o].event = req[o].event
            /\ req'[o].user = req[o].user
            /\ req'[o].customer = req[o].customer
            /\ req'[o].new = req[o].new
         \/ \E e \in events, w \in Workers : Receive(o, e, w)
  BY RequestMoves, MovesTo, FlushKeeps DEF Moves

\* So do checkouts: one begins with the user's customer, gets one created for the
\* user, or goes on with the one it has.
LEMMA CheckoutChange ==
  ASSUME TypeInv, [Next]_vars, NEW o \in Reqs, req'[o].pc \in {"asking", "asked"}
  PROVE  \/ /\ req[o].pc \in {"asking", "asked"}
            /\ req'[o].user = req[o].user
            /\ req'[o].customer = req[o].customer
         \/ req'[o].user \in Users /\ req'[o].customer = customerOf[req'[o].user]
         \/ holder'[req'[o].customer] = req'[o].user
  <1>1. ASSUME NEW e \in events, NEW w \in Workers, Receive(o, e, w)
        PROVE  req'[o].pc = "received"
    BY <1>1 DEF Receive, TypeInv, TypeOK
  <1>2. QED
    BY <1>1, RequestMoves, MovesTo, FlushKeeps DEF Moves

\* A customer keeps the user it was created for.
LEMMA HolderStays ==
  ASSUME TypeInv, [Next]_vars, NEW c \in Customers, holder[c] # None
  PROVE  holder'[c] = holder[c]
  <1>1. ASSUME NEW r \in Reqs, EnsureCustomer(r)
        PROVE  holder'[c] = holder[c]
    BY <1>1 DEF EnsureCustomer, TypeInv, TypeOK
  <1>2. holder' = holder \/ \E r \in Reqs : EnsureCustomer(r)
    BY DEF Next, vars, Tick, Subscribe, Charge, ForgetKey, Send, AskCheckout, CreateSession,
           CommitCheckout, Receive, ReceiveStray, Flush, CommitWebhook, CommitStray, Resolve,
           Remember, Abort, Expire, ReadExpired, CommitExpired, AbortExpired
  <1>3. QED
    BY <1>1, <1>2

\* The answer to a checkout that Stripe keeps no session for.
Creates(r, s) ==
    /\ req[r].pc = "asking"
    /\ req[r].customer # None
    /\ Kept(req[r]) = {}
    /\ stripe'[s].user = req[r].user
    /\ stripe'[s].interval = req[r].interval
    /\ stripe'[s].customer = req[r].customer
    /\ \A t \in Sessions : t # s => stripe'[t] = stripe[t]

\* A session is new or keeps its user, interval and customer.  A forgotten key stays
\* forgotten, and a subscription that has begun stays so.
LEMMA SessionChange ==
  ASSUME TypeInv, [Next]_vars, NEW s \in Sessions
  PROVE  /\ Started(s) => Started(s)'
         /\ stripe'[s] # None =>
             \/ /\ stripe[s] # None
                /\ stripe'[s].user = stripe[s].user
                /\ stripe'[s].interval = stripe[s].interval
                /\ stripe'[s].customer = stripe[s].customer
                /\ stripe'[s].keyed => stripe[s].keyed
                /\ Started(s) /\ stripe[s].status # "incomplete"
                        => stripe'[s].status # "incomplete"
             \/ stripe[s] = None /\ \E r \in Reqs : Creates(r, s)
  <1> DEFINE Goal ==
         /\ Started(s) => Started(s)'
         /\ stripe'[s] # None =>
             \/ /\ stripe[s] # None
                /\ stripe'[s].user = stripe[s].user
                /\ stripe'[s].interval = stripe[s].interval
                /\ stripe'[s].customer = stripe[s].customer
                /\ stripe'[s].keyed => stripe[s].keyed
                /\ Started(s) /\ stripe[s].status # "incomplete"
                        => stripe'[s].status # "incomplete"
             \/ stripe[s] = None /\ \E r \in Reqs : Creates(r, s)
  <1>1. stripe'[s] = stripe[s] => Goal
    BY DEF Started
  <1>2. ASSUME NEW t \in Sessions, Subscribe(t)
        PROVE  Goal
    <2>1. ~Started(t)
      BY <1>2 DEF Subscribe, Started, Status
    <2>2. QED
      BY <1>1, <1>2, <2>1, SubscriptionStep DEF Started
  <1>3. ASSUME NEW t \in Sessions, Charge(t)
        PROVE  Goal
    BY <1>1, <1>3, SubscriptionStep DEF Started
  <1>4. ASSUME NEW t \in Sessions, ForgetKey(t)
        PROVE  Goal
    <2>1. CASE t # s
      BY <1>1, <1>4, <2>1, ForgetStep
    <2>2. CASE t = s /\ Started(s)
      <3>1. stripe[s].keyed
        BY <1>4, <2>2 DEF ForgetKey
      <3>2. QED
        BY <1>4, <2>2, <3>1, ForgetStep DEF Started
    <2>3. CASE t = s /\ ~Started(s)
      BY <1>4, <2>3, ForgetStep
    <2>4. QED
      BY <2>1, <2>2, <2>3
  <1>5. ASSUME NEW r \in Reqs, CreateSession(r)
        PROVE  Goal
    <2> DEFINE x == [user |-> req[r].user, interval |-> req[r].interval,
                     customer |-> req[r].customer, keyed |-> TRUE,
                     status |-> "created", period |-> now]
    <2>1. PICK t \in Sessions :
            \/ Kept(req[r]) = {} /\ stripe[t] = None /\ stripe' = [stripe EXCEPT ![t] = x]
            \/ stripe' = stripe
      BY <1>5 DEF CreateSession
    <2>2. CASE stripe' = stripe \/ s # t
      BY <1>1, <2>1, <2>2 DEF TypeInv, TypeOK
    <2>3. CASE stripe' # stripe /\ s = t
      <3>1. stripe'[s] = x /\ \A o \in Sessions : o # s => stripe'[o] = stripe[o]
        BY <2>1, <2>3 DEF TypeInv, TypeOK
      <3>2. Creates(r, s)
        BY <1>5, <2>1, <2>3, <3>1 DEF Creates, CreateSession
      <3>3. stripe[s] = None
        BY <2>1, <2>3
      <3>4. QED
        BY <3>2, <3>3 DEF Started
    <2>4. QED
      BY <2>2, <2>3
  <1>6. ASSUME NEW r \in Reqs, CommitCheckout(r)
        PROVE  Goal
    <2> DEFINE t == req[r].session
               x == IF stripe[t].status = "created" THEN [stripe[t] EXCEPT !.status = "open"]
                                                    ELSE stripe[t]
    <2>1. t \in Sessions /\ stripe[t] \in Session
      BY <1>6 DEF CommitCheckout, TypeInv, TypeOK, ReadInv, Answered
    <2>2. stripe' = [stripe EXCEPT ![t] = x]
      BY <1>6 DEF CommitCheckout
    <2>3. /\ x.user = stripe[t].user /\ x.interval = stripe[t].interval
          /\ x.customer = stripe[t].customer /\ x.keyed = stripe[t].keyed
          /\ stripe[t].status # "created" => x = stripe[t]
      BY <2>1 DEF Session
    <2> HIDE DEF x, t
    <2>4. stripe'[t] = x /\ \A o \in Sessions : o # t => stripe'[o] = stripe[o]
      BY <2>1, <2>2 DEF TypeInv, TypeOK
    <2>5. CASE s # t
      BY <1>1, <2>4, <2>5
    <2>6. CASE s = t /\ stripe[t].status # "created"
      BY <1>1, <2>3, <2>4, <2>6
    <2>7. CASE s = t /\ stripe[t].status = "created"
      <3>1. stripe[s] # None /\ ~Started(s)
        BY <2>1, <2>7, Nothing DEF Started, Status
      <3>2. QED
        BY <2>3, <2>4, <2>7, <3>1
    <2>8. QED
      BY <2>5, <2>6, <2>7
  <1>7. \/ stripe' = stripe
        \/ \E t \in Sessions : Subscribe(t) \/ Charge(t) \/ ForgetKey(t)
        \/ \E r \in Reqs : CreateSession(r) \/ CommitCheckout(r)
    BY DEF Next, vars, Tick, Send, AskCheckout, EnsureCustomer, Receive, ReceiveStray, Flush,
           CommitWebhook, CommitStray, Resolve, Remember, Abort, Expire, ReadExpired,
           CommitExpired, AbortExpired
  <1>8. QED
    BY <1>1, <1>2, <1>3, <1>4, <1>5, <1>6, <1>7

\* What was sent stays sent.
LEMMA EventsStay ==
  ASSUME [Next]_vars, NEW e \in events
  PROVE  e \in events'
  BY DEF Next, vars, Tick, Subscribe, Charge, ForgetKey, Send, AskCheckout, EnsureCustomer,
         CreateSession, CommitCheckout, Receive, ReceiveStray, Flush, CommitWebhook, CommitStray,
         Resolve, Remember, Abort, Expire, ReadExpired, CommitExpired, AbortExpired

\* The table changes by two steps.
LEMMA TableChange ==
  ASSUME [Next]_vars
  PROVE  \/ subscriptions' = subscriptions
         \/ \E r \in Reqs : CommitWebhook(r)
         \/ \E j \in Jobs : CommitExpired(j)
  BY DEF Next, vars, Tick, Subscribe, Charge, ForgetKey, Send, AskCheckout, EnsureCustomer,
         CreateSession, CommitCheckout, Receive, ReceiveStray, Flush, CommitStray, Resolve,
         Remember, Abort, Expire, ReadExpired, AbortExpired

\* The commit of a webhook writes one row.
LEMMA CommitWrites ==
  ASSUME TypeInv, NEW r \in Reqs, CommitWebhook(r)
  PROVE  /\ req[r].pc = "flushed" /\ req[r] \in Webhook /\ req[r].id \in Workers
         /\ subscriptions'[req[r].id] = Written(req[r])
         /\ \A w \in Workers \ {req[r].id} : subscriptions'[w] = subscriptions[w]
  <1>1. req[r] \in Webhook /\ req[r].pc = "flushed"
    BY Kinds DEF CommitWebhook, TypeInv
  <1>2. req[r].id \in Workers
    BY <1>1 DEF Webhook
  <1>3. subscriptions' = [subscriptions EXCEPT ![req[r].id] = Written(req[r])]
    BY DEF CommitWebhook
  <1>4. QED
    BY <1>1, <1>2, <1>3 DEF TypeInv, TypeOK

\* The job changes nothing of a row but its status.
LEMMA ExpiredWrites ==
  ASSUME TypeInv, NEW j \in Jobs, CommitExpired(j), NEW w \in Workers
  PROVE  \/ subscriptions'[w] = subscriptions[w]
         \/ /\ subscriptions[w] # None /\ subscriptions'[w] # None
            /\ subscriptions'[w] = [subscriptions[w] EXCEPT !.status = "unpaid"]
            /\ subscriptions'[w].user = subscriptions[w].user
            /\ subscriptions'[w].sub = subscriptions[w].sub
            /\ subscriptions'[w].status = "unpaid"
  <1>1. CASE w \in job[j]
    <2>1. subscriptions[w] \in Row /\ subscriptions[w] # None
      BY <1>1 DEF TypeInv, TypeOK, ReadInv
    <2>2. subscriptions'[w] = [subscriptions[w] EXCEPT !.status = "unpaid"]
      BY <1>1 DEF CommitExpired
    <2>3. subscriptions'[w] \in Row
      BY <2>1, <2>2 DEF Row, Status
    <2>4. QED
      BY <2>1, <2>2, <2>3, Nothing DEF Row
  <1>2. CASE w \notin job[j]
    BY <1>2 DEF CommitExpired
  <1>3. QED
    BY <1>1, <1>2

-----------------------------------------------------------------------------
(***************************************************************************)
(* Owners: every customer id belongs to the user it was created for, so an *)
(* event found by its customer reaches the user who subscribed.            *)
(***************************************************************************)

\* A webhook that is received is about the user of the subscription.
LEMMA ReceivedOwner ==
  ASSUME TypeInv, HolderInv, NEW r \in Reqs, NEW e \in events, NEW w \in Workers,
         Receive(r, e, w)
  PROVE  /\ e.sub \in Sessions /\ Started(e.sub)
         /\ stripe[e.sub].user \in Users
         /\ req'[r].event = e.n
         /\ req'[r].user = stripe[e.sub].user
         /\ req'[r].customer # None => req'[r].customer = stripe[e.sub].customer
         /\ req'[r].new = Upsert(e, stripe[e.sub].user)
         /\ req'[r].new.sub = e.sub
         /\ stripe' = stripe /\ events' = events
  <1>1. PICK u \in Users : /\ IsAbout(e, u)
                           /\ req'[r].event = e.n
                           /\ req'[r].user = u
                           /\ req'[r].customer # None => req'[r].customer = stripe[e.sub].customer
                           /\ req'[r].new = Upsert(e, u)
    BY DEF Receive, TypeInv, TypeOK
  <1>2. e.sub \in Sessions /\ Started(e.sub)
    BY DEF TypeInv, TypeOK, StripeInv, Event
  <1>3. /\ stripe[e.sub] # None
        /\ stripe[e.sub].user \in Users /\ stripe[e.sub].customer \in Customers
    BY <1>2 DEF Started, TypeInv, TypeOK, Session
  <1>4. u = stripe[e.sub].user
    <2>1. CASE customerOf[u] = stripe[e.sub].customer
      <3>1. holder[customerOf[u]] = u
        BY <1>3, <2>1, Nothing DEF HolderInv
      <3>2. holder[stripe[e.sub].customer] = stripe[e.sub].user
        BY <1>2, <1>3 DEF HolderInv
      <3>3. QED
        BY <2>1, <3>1, <3>2
    <2>2. QED
      BY <1>1, <2>1 DEF IsAbout
  <1>5. stripe' = stripe /\ events' = events
    BY DEF Receive
  <1>6. Upsert(e, u).sub = e.sub
    BY DEF Upsert
  <1>7. QED
    BY <1>1, <1>2, <1>3, <1>4, <1>5, <1>6

LEMMA OwnerInit == Init => OwnerInv
  <1> SUFFICES ASSUME Init PROVE OwnerInv
    OBVIOUS
  <1>1. HolderInv /\ EventInv
    BY IdlePc, Nothing DEF Init, HolderInv, EventInv
  <1>2. QED
    BY <1>1, TypeInit DEF OwnerInv

\* A customer that a checkout or a webhook stores is the user's own.
LEMMA StoredCustomer ==
  ASSUME OwnerInv, [Next]_vars, NEW u \in Users, customerOf'[u] # customerOf[u]
  PROVE  customerOf'[u] # None => holder[customerOf'[u]] = u
  <1> USE DEF OwnerInv
  <1>1. ASSUME NEW r \in Reqs, CommitCheckout(r)
        PROVE  customerOf'[u] # None => holder[customerOf'[u]] = u
    <2>1. req[r].pc = "asked" /\ req[r].user \in Users
      BY <1>1, Kinds DEF CommitCheckout, TypeInv, Checkout
    <2>2. u = req[r].user /\ customerOf'[u] = req[r].customer
      BY <1>1, <2>1 DEF CommitCheckout, TypeInv, TypeOK
    <2>3. QED
      BY <2>1, <2>2 DEF HolderInv
  <1>2. ASSUME NEW r \in Reqs, CommitWebhook(r)
        PROVE  customerOf'[u] # None => holder[customerOf'[u]] = u
    <2>1. req[r].pc = "flushed" /\ req[r].user \in Users
      BY <1>2, Kinds DEF CommitWebhook, TypeInv, Webhook
    <2>2. u = req[r].user /\ customerOf'[u] = req[r].customer
      BY <1>2, <2>1 DEF CommitWebhook, TypeInv, TypeOK
    <2>3. QED
      BY <2>1, <2>2 DEF HolderInv
  <1>3. \/ customerOf' = customerOf
        \/ \E r \in Reqs : CommitCheckout(r) \/ CommitWebhook(r)
    BY DEF Next, vars, Tick, Subscribe, Charge, ForgetKey, Send, AskCheckout, EnsureCustomer,
           CreateSession, Receive, ReceiveStray, Flush, CommitStray, Resolve, Remember, Abort,
           Expire, ReadExpired, CommitExpired, AbortExpired
  <1>4. QED
    BY <1>1, <1>2, <1>3

LEMMA HolderStep ==
  ASSUME OwnerInv, [Next]_vars
  PROVE  HolderInv'
  <1> USE DEF OwnerInv
  <1>1. ASSUME NEW c \in Customers, NEW u \in Users, holder[c] = u
        PROVE  holder'[c] = u
    BY <1>1, HolderStays, Nothing
  <1>2. ASSUME NEW s \in Sessions, stripe'[s] # None
        PROVE  holder'[stripe'[s].customer] = stripe'[s].user
    <2>1. CASE /\ stripe[s] # None
               /\ stripe'[s].user = stripe[s].user
               /\ stripe'[s].customer = stripe[s].customer
      <3>1. stripe[s].user \in Users /\ stripe[s].customer \in Customers
        BY <2>1 DEF TypeInv, TypeOK, Session
      <3>2. QED
        BY <1>1, <2>1, <3>1 DEF HolderInv
    <2>2. ASSUME NEW r \in Reqs, Creates(r, s)
          PROVE  holder'[stripe'[s].customer] = stripe'[s].user
      <3>1. /\ req[r].user \in Users /\ req[r].customer \in Customers
            /\ holder[req[r].customer] = req[r].user
        BY <2>2, Kinds DEF Creates, Checkout, TypeInv, HolderInv
      <3>2. QED
        BY <1>1, <2>2, <3>1 DEF Creates
    <2>3. QED
      BY <1>2, <2>1, <2>2, SessionChange
  <1>3. ASSUME NEW u \in Users, customerOf'[u] # None
        PROVE  holder'[customerOf'[u]] = u
    <2>1. customerOf'[u] \in Customers
      BY <1>3, TypeStep DEF TypeInv, TypeOK
    <2>2. holder[customerOf'[u]] = u
      BY <1>3, StoredCustomer DEF HolderInv
    <2>3. QED
      BY <1>1, <2>1, <2>2
  <1>4. ASSUME NEW r \in Reqs, req'[r].pc \in {"asking", "asked"}, req'[r].customer # None
        PROVE  holder'[req'[r].customer] = req'[r].user
    <2>1. req'[r].customer \in Customers /\ req'[r].user \in Users
      <3>1. TypeOK'
        BY TypeStep DEF TypeInv
      <3>2. req'[r] \in Checkout
        <4>1. req'[r] \in Request
          BY <3>1 DEF TypeOK
        <4>2. QED
          BY <1>4, <4>1, RequestIs, IdlePc DEF Webhook, Stray, Answer
      <3>3. QED
        BY <1>4, <3>2 DEF Checkout
    <2>2. CASE req'[r].customer = customerOf[req'[r].user]
      BY <1>1, <1>4, <2>1, <2>2 DEF HolderInv
    <2>3. CASE /\ req[r].pc \in {"asking", "asked"}
               /\ req'[r].user = req[r].user
               /\ req'[r].customer = req[r].customer
      BY <1>1, <1>4, <2>1, <2>3 DEF HolderInv
    <2>4. QED
      BY <1>4, <2>2, <2>3, CheckoutChange
  <1>5. ASSUME NEW r \in Reqs, req'[r].pc \in {"received", "flushed"}, req'[r].customer # None
        PROVE  holder'[req'[r].customer] = req'[r].user
    <2>1. ASSUME NEW e \in events, NEW w \in Workers, Receive(r, e, w)
          PROVE  holder'[req'[r].customer] = req'[r].user
      <3>1. /\ e.sub \in Sessions /\ stripe[e.sub] # None
            /\ req'[r].customer = stripe[e.sub].customer
            /\ req'[r].user = stripe[e.sub].user
        BY <1>5, <2>1, ReceivedOwner DEF Started
      <3>2. holder' = holder
        BY <2>1 DEF Receive
      <3>3. QED
        BY <3>1, <3>2 DEF HolderInv
    <2>2. CASE /\ req[r].pc \in {"received", "flushed"}
               /\ req'[r].user = req[r].user
               /\ req'[r].customer = req[r].customer
      <3>1. req[r].user \in Users /\ req[r].customer \in Customers
        BY <1>5, <2>2, Kinds DEF Webhook, TypeInv
      <3>2. QED
        BY <1>1, <1>5, <2>2, <3>1 DEF HolderInv
    <2>3. QED
      BY <1>5, <2>1, <2>2, WebhookChange
  <1>6. QED
    BY <1>2, <1>3, <1>4, <1>5 DEF HolderInv

LEMMA EventStep ==
  ASSUME OwnerInv, [Next]_vars
  PROVE  EventInv'
  <1> USE DEF OwnerInv
  <1> SUFFICES ASSUME NEW r \in Reqs, req'[r].pc \in {"received", "flushed"}
               PROVE  /\ stripe'[req'[r].new.sub] # None
                      /\ stripe'[req'[r].new.sub].user = req'[r].user
                      /\ \E e \in events' : e.n = req'[r].event /\ e.sub = req'[r].new.sub
    BY DEF EventInv
  <1>1. PICK e \in events : /\ e.n = req'[r].event /\ e.sub = req'[r].new.sub
                            /\ stripe[e.sub].user = req'[r].user
    <2>1. CASE \E e \in events, w \in Workers : Receive(r, e, w)
      BY <2>1, ReceivedOwner
    <2>2. CASE /\ req[r].pc \in {"received", "flushed"}
               /\ req'[r].user = req[r].user
               /\ req'[r].event = req[r].event
               /\ req'[r].new = req[r].new
      BY <2>2 DEF EventInv
    <2>3. QED
      BY <2>1, <2>2, WebhookChange
  <1>2. e.sub \in Sessions /\ Started(e.sub)
    BY DEF TypeInv, TypeOK, StripeInv, Event
  <1>3. stripe'[e.sub] # None /\ stripe'[e.sub].user = stripe[e.sub].user
    BY <1>2, SessionChange DEF Started
  <1>4. QED
    BY <1>1, <1>3, EventsStay

LEMMA OwnerStep ==
  ASSUME OwnerInv, [Next]_vars
  PROVE  OwnerInv'
  BY TypeStep, HolderStep, EventStep DEF OwnerInv

LEMMA OwnerAlways == Spec => []OwnerInv
  BY OwnerInit, OwnerStep, PTL DEF Spec

-----------------------------------------------------------------------------
(***************************************************************************)
(* Events take effect once.                                                *)
(***************************************************************************)

\* Webhook idempotency: a subscription row changes only by an event about a
\* subscription of its user that no transaction has recorded before, together with
\* the record, or when the job finds it expired.
THEOREM AppliedAtMostOnce == Spec => AppliedOnce
  <1> DEFINE Change(w) ==
        \/ \E e \in events, v \in Workers : /\ ~Known(e.n)
                                            /\ recorded'[v] = e.n
                                            /\ stripe[e.sub].user = subscriptions'[w].user
        \/ /\ subscriptions[w] # None
           /\ subscriptions'[w] = [subscriptions[w] EXCEPT !.status = "unpaid"]
  <1>1. ASSUME OwnerInv, [Next]_vars, NEW w \in Workers, subscriptions'[w] # subscriptions[w]
        PROVE  Change(w)
    <2> USE <1>1 DEF OwnerInv
    <2>1. ASSUME NEW r \in Reqs, CommitWebhook(r)
          PROVE  Change(w)
      <3>1. /\ req[r].pc = "flushed" /\ req[r].worker \in Workers
            /\ subscriptions'[w] = Written(req[r])
        BY <2>1, CommitWrites DEF Webhook
      <3>2. subscriptions'[w].user = req[r].user
        BY <3>1, WrittenRow
      <3>3. PICK e \in events : e.n = req[r].event /\ stripe[e.sub].user = req[r].user
        BY <3>1 DEF EventInv
      <3>4. ~Known(e.n) /\ recorded'[req[r].worker] = e.n
        BY <2>1, <3>1, <3>3 DEF CommitWebhook, Recordable, TypeInv, TypeOK
      <3>5. QED
        BY <3>1, <3>2, <3>3, <3>4
    <2>2. ASSUME NEW j \in Jobs, CommitExpired(j)
          PROVE  Change(w)
      BY <2>2, ExpiredWrites
    <2>3. QED
      BY <2>1, <2>2, TableChange
  <1>2. OwnerInv /\ [Next]_vars =>
            [\A w \in Workers : subscriptions'[w] # subscriptions[w] => Change(w)]_subscriptions
    BY <1>1
  <1>3. QED
    BY <1>2, OwnerAlways, PTL DEF Spec, AppliedOnce

-----------------------------------------------------------------------------
(***************************************************************************)
(* One session for a key.                                                  *)
(***************************************************************************)

\* Repeating a checkout never charges twice: two sessions of one user and interval are
\* never kept at a time, whatever fails, overlaps or is rolled back.
THEOREM RetriesShareASession == Spec => []OneSessionPerKey
  <1>1. Init => TypeInv /\ OneSessionPerKey
    BY TypeInit DEF Init, OneSessionPerKey
  <1>2. ASSUME TypeInv, OneSessionPerKey, [Next]_vars
        PROVE  OneSessionPerKey'
    <2> SUFFICES ASSUME NEW s \in Sessions, NEW t \in Sessions,
                        stripe'[s] # None, stripe'[t] # None,
                        stripe'[s].keyed, stripe'[t].keyed,
                        stripe'[s].user = stripe'[t].user,
                        stripe'[s].interval = stripe'[t].interval,
                        s # t
                 PROVE  FALSE
      BY DEF OneSessionPerKey
    <2> DEFINE Old(x) == /\ stripe[x] # None /\ stripe[x].keyed
                         /\ stripe'[x].user = stripe[x].user
                         /\ stripe'[x].interval = stripe[x].interval
    <2>1. Old(s) \/ \E r \in Reqs : Creates(r, s)
      BY <1>2, SessionChange
    <2>2. Old(t) \/ \E r \in Reqs : Creates(r, t)
      BY <1>2, SessionChange
    <2>3. ~(Old(s) /\ Old(t))
      BY <1>2 DEF OneSessionPerKey
    <2>4. ASSUME NEW x \in Sessions, NEW y \in Sessions, x # y, NEW r \in Reqs, Creates(r, x),
                 stripe'[y] # None, stripe'[y].keyed,
                 stripe'[x].user = stripe'[y].user, stripe'[x].interval = stripe'[y].interval
          PROVE  FALSE
      <3>1. stripe'[y] = stripe[y]
        BY <2>4 DEF Creates
      <3>2. y \in Kept(req[r])
        BY <2>4, <3>1 DEF Creates, Kept
      <3>3. QED
        BY <2>4, <3>2 DEF Creates
    <2>5. QED
      BY <2>1, <2>2, <2>3, <2>4
  <1>3. QED
    BY <1>1, <1>2, TypeStep, PTL DEF Spec

-----------------------------------------------------------------------------
(***************************************************************************)
(* Nobody is premium without having subscribed.                            *)
(***************************************************************************)

LEMMA PremiumInit == Init => PremiumInv
  BY IdlePc, NoneIsNotAValue DEF Init, PremiumInv

\* Having subscribed is never undone.
LEMMA SubscribedStays ==
  ASSUME TypeInv, [Next]_vars, NEW u \in Users, HasSubscribed(u)
  PROVE  HasSubscribed(u)'
  <1>1. PICK s \in Sessions : /\ stripe[s] # None
                              /\ stripe[s].user = u
                              /\ Started(s) /\ stripe[s].status # "incomplete"
    BY DEF HasSubscribed, Started
  <1>2. /\ Started(s)' /\ stripe'[s] # None
        /\ stripe'[s].user = u /\ stripe'[s].status # "incomplete"
    BY <1>1, SessionChange DEF Started
  <1>3. QED
    BY <1>2 DEF HasSubscribed, Started

\* Only a status that a subscription has once it has begun is premium.
LEMMA GrantsStarted ==
  ASSUME NEW s \in Sessions, stripe[s] # None, Grants(stripe[s].status)
  PROVE  HasSubscribed(stripe[s].user)
  BY DEF Grants, HasSubscribed, Status

LEMMA EventsPremium ==
  ASSUME OwnerInv, PremiumInv, [Next]_vars, NEW e \in events', e.status # "incomplete"
  PROVE  HasSubscribed(stripe[e.sub].user)' /\ stripe'[e.sub].user \in Users
  <1> USE DEF OwnerInv
  <1>1. CASE e \in events
    <2>1. e.sub \in Sessions /\ Started(e.sub) /\ stripe[e.sub].user \in Users
      BY <1>1 DEF TypeInv, TypeOK, StripeInv, Event, Started, Session
    <2>2. HasSubscribed(stripe[e.sub].user)'
      <3>1. stripe'[e.sub].user = stripe[e.sub].user
        BY <2>1, SessionChange DEF Started
      <3>2. \A u \in Users : u = stripe[e.sub].user => HasSubscribed(u)'
        BY <1>1, SubscribedStays DEF PremiumInv
      <3>3. QED
        BY <2>1, <3>1, <3>2
    <2>3. QED
      BY <2>1, <2>2, SessionChange DEF Started
  <1>2. ASSUME NEW s \in Sessions, NEW type \in {"checkout", "updated"}, Send(s, type),
               e \notin events
        PROVE  HasSubscribed(stripe[e.sub].user)' /\ stripe'[e.sub].user \in Users
    <2>1. e.sub = s /\ e.status = stripe[s].status /\ Started(s) /\ stripe' = stripe
      BY <1>2 DEF Send
    <2>2. stripe[s].user \in Users
      BY <2>1 DEF Started, TypeInv, TypeOK, Session
    <2>3. QED
      BY <2>1, <2>2 DEF HasSubscribed, Started
  <1>3. events' = events
        \/ \E s \in Sessions : \E type \in {"checkout", "updated"} : Send(s, type)
    BY DEF Next, vars, Tick, Subscribe, Charge, ForgetKey, AskCheckout, EnsureCustomer,
           CreateSession, CommitCheckout, Receive, ReceiveStray, Flush, CommitWebhook,
           CommitStray, Resolve, Remember, Abort, Expire, ReadExpired, CommitExpired,
           AbortExpired
  <1>4. QED
    BY <1>1, <1>2, <1>3

LEMMA RowsPremium ==
  ASSUME OwnerInv, PremiumInv, [Next]_vars, NEW w \in Workers, NEW u \in Users,
         subscriptions'[w] # None, Grants(subscriptions'[w].status), u = subscriptions'[w].user
  PROVE  HasSubscribed(u)'
  <1> USE DEF OwnerInv
  <1>1. SUFFICES HasSubscribed(u)
    BY SubscribedStays
  <1>2. CASE subscriptions'[w] = subscriptions[w]
    BY <1>2 DEF PremiumInv
  <1>3. ASSUME NEW r \in Reqs, CommitWebhook(r), subscriptions'[w] # subscriptions[w]
        PROVE  HasSubscribed(u)
    <2>1. /\ req[r].pc = "flushed" /\ w = req[r].id
          /\ subscriptions'[w] = Written(req[r])
      BY <1>3, CommitWrites
    <2>2. u = req[r].user
      BY <2>1, WrittenRow
    <2>3. QED
      BY <2>1, <2>2, WrittenRow DEF PremiumInv
  <1>4. ASSUME NEW j \in Jobs, CommitExpired(j), subscriptions'[w] # subscriptions[w]
        PROVE  FALSE
    BY <1>4, ExpiredWrites DEF Grants
  <1>5. QED
    BY <1>2, <1>3, <1>4, TableChange

LEMMA CachePremium ==
  ASSUME OwnerInv, PremiumInv, [Next]_vars, NEW u \in Users, premium'[u] = TRUE
  PROVE  HasSubscribed(u)'
  <1> USE DEF OwnerInv
  <1>1. SUFFICES HasSubscribed(u)
    BY SubscribedStays
  <1>2. CASE premium[u] = TRUE
    BY <1>2 DEF PremiumInv
  <1>3. ASSUME NEW r \in Reqs, Flush(r) \/ Remember(r), premium[u] # TRUE
        PROVE  HasSubscribed(u)
    <2>1. CASE Flush(r)
      BY <1>3, <2>1 DEF Flush, PremiumInv, TypeInv, TypeOK
    <2>2. CASE Remember(r)
      BY <1>3, <2>2 DEF Remember, PremiumInv, TypeInv, TypeOK
    <2>3. QED
      BY <1>3, <2>1, <2>2
  <1>4. ASSUME NEW v \in Users, Expire(v)
        PROVE  premium[u] = TRUE
    BY <1>4, NoneIsNotAValue DEF Expire, TypeInv, TypeOK
  <1>5. \/ premium' = premium
        \/ \E r \in Reqs : Flush(r) \/ Remember(r)
        \/ \E v \in Users : Expire(v)
    BY DEF Next, vars, Tick, Subscribe, Charge, ForgetKey, Send, AskCheckout, EnsureCustomer,
           CreateSession, CommitCheckout, Receive, ReceiveStray, CommitWebhook, CommitStray,
           Resolve, Abort, ReadExpired, CommitExpired, AbortExpired
  <1>6. QED
    BY <1>2, <1>3, <1>4, <1>5

LEMMA WebhooksPremium ==
  ASSUME OwnerInv, PremiumInv, [Next]_vars, NEW r \in Reqs, NEW u \in Users,
         req'[r].pc \in {"received", "flushed"}, Grants(req'[r].new.status), u = req'[r].user
  PROVE  HasSubscribed(u)'
  <1> USE DEF OwnerInv
  <1>1. SUFFICES HasSubscribed(u)
    BY SubscribedStays
  <1>2. ASSUME NEW e \in events, NEW w \in Workers, Receive(r, e, w)
        PROVE  HasSubscribed(u)
    <2>1. /\ e.sub \in Sessions /\ Started(e.sub)
          /\ u = stripe[e.sub].user
          /\ req'[r].new = Upsert(e, u)
      BY <1>2, ReceivedOwner
    <2>2. CASE e.type = "checkout"
      <3>1. req'[r].new.status = stripe[e.sub].status
        BY <2>1, <2>2 DEF Upsert
      <3>2. QED
        BY <2>1, <3>1, GrantsStarted DEF Started
    <2>3. CASE e.type # "checkout"
      <3>1. req'[r].new.status = e.status
        BY <2>1, <2>3 DEF Upsert
      <3>2. QED
        BY <2>1, <3>1 DEF PremiumInv, Grants
    <2>4. QED
      BY <2>2, <2>3
  <1>3. CASE /\ req[r].pc \in {"received", "flushed"}
             /\ req'[r].user = req[r].user
             /\ req'[r].new = req[r].new
    BY <1>3 DEF PremiumInv
  <1>4. QED
    BY <1>2, <1>3, WebhookChange

LEMMA AnswersPremium ==
  ASSUME OwnerInv, PremiumInv, [Next]_vars, NEW r \in Reqs, NEW u \in Users,
         req'[r].pc = "resolved", req'[r].result = TRUE, u = req'[r].user
  PROVE  HasSubscribed(u)'
  <1> USE DEF OwnerInv
  <1>1. SUFFICES HasSubscribed(u)
    BY SubscribedStays
  <1>2. CASE req'[r] = req[r]
    BY <1>2 DEF PremiumInv
  <1>3. CASE \E v \in Users : Resolve(r, v)
    <2>1. IsPremium(u)
      BY <1>3 DEF Resolve, TypeInv, TypeOK
    <2>2. QED
      BY <2>1 DEF IsPremium, RowsOf, PremiumInv
  <1>4. CASE \E e \in events, w \in Workers : Receive(r, e, w)
    BY <1>4 DEF Receive, TypeInv, TypeOK
  <1>5. QED
    BY <1>2, <1>3, <1>4, RequestMoves, MovesTo, FlushKeeps DEF Moves

LEMMA PremiumStep ==
  ASSUME OwnerInv, PremiumInv, [Next]_vars
  PROVE  PremiumInv'
  <1>1. TypeOK'
    BY TypeStep DEF OwnerInv, TypeInv
  <1>2. \A w \in Workers : subscriptions'[w] # None => subscriptions'[w].user \in Users
    BY <1>1 DEF TypeOK, Row
  <1>3. \A r \in Reqs : req'[r].pc \in {"received", "flushed", "resolved"} => req'[r].user \in Users
    BY <1>1, RequestIs, IdlePc DEF TypeOK, Webhook, Answer, Checkout, Stray
  <1>4. \A e \in events' : e.status # "incomplete" => HasSubscribed(stripe[e.sub].user)'
    BY EventsPremium
  <1>5. QED
    BY <1>2, <1>3, <1>4, RowsPremium, CachePremium, WebhooksPremium, AnswersPremium DEF PremiumInv

\* No premium for nothing: whoever the premium gate lets in, by the table or by the
\* copy in Redis, has begun a subscription, in trial or paid.
THEOREM PremiumIsForSubscribers == Spec => []PremiumIsSubscribed
  <1>1. OwnerInv /\ PremiumInv => PremiumIsSubscribed
    BY DEF PremiumIsSubscribed, IsPremium, RowsOf, PremiumInv
  <1>2. Init => OwnerInv /\ PremiumInv
    BY OwnerInit, PremiumInit
  <1>3. OwnerInv /\ PremiumInv /\ [Next]_vars => (OwnerInv /\ PremiumInv)'
    BY OwnerStep, PremiumStep
  <1>4. QED
    BY <1>1, <1>2, <1>3, PTL DEF Spec

-----------------------------------------------------------------------------
(***************************************************************************)
(* Rows, and how a user gets a second one.                                 *)
(***************************************************************************)

RowsApart ==
    \A v, w \in Workers : /\ subscriptions[v] # None /\ subscriptions[w] # None
                          /\ subscriptions[v].sub = subscriptions[w].sub
                          => v = w

\* The unique key is checked when a row is flushed and the row is there when it
\* commits.  In between nobody else can take the key: that needs a flush, which waits.
RowInv ==
    /\ RowsApart
    /\ \A r, o \in Reqs : /\ r # o /\ req[r].pc = "flushed" /\ req[o].pc = "flushed"
                          /\ SetsSub(req[r]) /\ SetsSub(req[o])
                          => req[r].new.sub # req[o].new.sub
    /\ \A r \in Reqs : req[r].pc = "flushed" /\ SetsSub(req[r]) =>
            \A v \in Workers \ {req[r].id} :
                subscriptions[v] # None => subscriptions[v].sub # req[r].new.sub

\* A flushed webhook was flushed before or is flushed now.
LEMMA FlushedChange ==
  ASSUME TypeInv, [Next]_vars, NEW r \in Reqs, req'[r].pc = "flushed"
  PROVE  \/ req'[r] = req[r]
         \/ /\ Flush(r)
            /\ req'[r].seen = req[r].seen /\ req'[r].id = req[r].id
            /\ req'[r].new = req[r].new
            /\ \A o \in Reqs \ {r} : req'[o] = req[o]
  <1>1. ASSUME NEW e \in events, NEW w \in Workers, Receive(r, e, w)
        PROVE  req'[r].pc = "received"
    BY <1>1 DEF Receive, TypeInv, TypeOK
  <1>2. QED
    BY <1>1, RequestMoves, MovesTo, FlushKeeps DEF Moves

LEMMA RowInit == Init => RowInv
  BY IdlePc, NoneIsNotAValue DEF Init, RowInv, RowsApart

LEMMA RowStep ==
  ASSUME TypeInv, RowInv, [Next]_vars
  PROVE  RowInv'
  <1>1. ASSUME NEW r \in Reqs, NEW o \in Reqs, r # o,
               req'[r].pc = "flushed", req'[o].pc = "flushed",
               SetsSub(req'[r]), SetsSub(req'[o])
        PROVE  req'[r].new.sub # req'[o].new.sub
    <2>1. CASE req'[r] = req[r] /\ req'[o] = req[o]
      BY <1>1, <2>1 DEF RowInv
    <2>2. ASSUME NEW x \in Reqs, NEW y \in Reqs, x # y, Flush(x),
                 req'[x].seen = req[x].seen, req'[x].new = req[x].new, req'[y] = req[y],
                 req'[y].pc = "flushed", SetsSub(req'[x]), SetsSub(req'[y])
          PROVE  req'[x].new.sub # req'[y].new.sub
      <3>1. SetsSub(req[x]) /\ ~SubWritten(req[x].new.sub)
        BY <2>2 DEF SetsSub, Flush, Locked
      <3>2. QED
        BY <2>2, <3>1 DEF SubWritten
    <2>3. QED
      BY <1>1, <2>1, <2>2, FlushedChange
  <1>2. CASE subscriptions' = subscriptions
    <2>1. ASSUME NEW r \in Reqs, req'[r].pc = "flushed", SetsSub(req'[r]),
                 NEW v \in Workers, v # req'[r].id, subscriptions'[v] # None
          PROVE  subscriptions'[v].sub # req'[r].new.sub
      <3>1. CASE req'[r] = req[r]
        BY <1>2, <2>1, <3>1 DEF RowInv
      <3>2. CASE /\ Flush(r) /\ req'[r].seen = req[r].seen /\ req'[r].id = req[r].id
                 /\ req'[r].new = req[r].new
        BY <1>2, <2>1, <3>2 DEF Flush, Unique, SetsSub
      <3>3. QED
        BY <2>1, <3>1, <3>2, FlushedChange
    <2>2. QED
      BY <1>1, <1>2, <2>1 DEF RowInv, RowsApart
  <1>3. ASSUME NEW r \in Reqs, CommitWebhook(r)
        PROVE  RowInv'
    <2> DEFINE k == req[r].id
               row == Written(req[r])
    <2>1. /\ req[r].pc = "flushed" /\ k \in Workers
          /\ subscriptions'[k] = row
          /\ \A v \in Workers \ {k} : subscriptions'[v] = subscriptions[v]
      BY <1>3, CommitWrites
    <2>2. \/ SetsSub(req[r]) /\ row.sub = req[r].new.sub
          \/ subscriptions[k] # None /\ row.sub = subscriptions[k].sub
      BY <2>1, WrittenRow
    <2> HIDE DEF row, k
    <2>3. \A v \in Workers \ {k} : subscriptions[v] # None => subscriptions[v].sub # row.sub
      BY <2>1, <2>2 DEF RowInv, RowsApart, k
    <2>4. RowsApart'
      BY <2>1, <2>3 DEF RowInv, RowsApart
    <2>5. ASSUME NEW o \in Reqs, req'[o].pc = "flushed", SetsSub(req'[o]),
                 NEW v \in Workers, v # req'[o].id, subscriptions'[v] # None
          PROVE  subscriptions'[v].sub # req'[o].new.sub
      <3>1. o # r /\ req'[o] = req[o]
        BY <1>3, <2>5, IdlePc DEF CommitWebhook, Finish, TypeInv, TypeOK
      <3>2. CASE v # k
        BY <2>1, <2>5, <3>1, <3>2 DEF RowInv
      <3>3. CASE v = k
        BY <2>1, <2>2, <2>5, <3>1, <3>3 DEF RowInv
      <3>4. QED
        BY <3>2, <3>3
    <2>6. QED
      BY <1>1, <2>4, <2>5 DEF RowInv
  <1>4. ASSUME NEW j \in Jobs, CommitExpired(j)
        PROVE  RowInv'
    <2>1. req' = req
      BY <1>4 DEF CommitExpired
    <2>2. \A w \in Workers : subscriptions'[w] # None =>
                subscriptions[w] # None /\ subscriptions'[w].sub = subscriptions[w].sub
      BY <1>4, ExpiredWrites
    <2>3. QED
      BY <2>1, <2>2 DEF RowInv, RowsApart
  <1>5. QED
    BY <1>2, <1>3, <1>4, TableChange

LEMMA RowAlways == Spec => [](TypeInv /\ RowInv)
  <1>1. Init => TypeInv /\ RowInv
    BY TypeInit, RowInit
  <1>2. TypeInv /\ RowInv /\ [Next]_vars => (TypeInv /\ RowInv)'
    BY TypeStep, RowStep
  <1>3. QED
    BY <1>1, <1>2, PTL DEF Spec

\* stripe_subscription_id is unique, though a row is updated and inserted by
\* transactions that overlap: two rows are never of one subscription.
THEOREM RowsAreApart == Spec => []RowsApart
  BY RowAlways, PTL DEF RowInv

\* The user of a row never changes.
LEMMA UsersStay ==
  ASSUME TypeInv, [Next]_vars, NEW w \in Workers, subscriptions[w] # None
  PROVE  subscriptions'[w] # None /\ subscriptions'[w].user = subscriptions[w].user
  <1>1. ASSUME NEW r \in Reqs, CommitWebhook(r), w = req[r].id
        PROVE  subscriptions'[w] # None /\ subscriptions'[w].user = subscriptions[w].user
    <2>1. req[r].pc = "flushed" /\ subscriptions'[w] = Written(req[r])
      BY <1>1, CommitWrites
    <2>2. req[r].seen # None /\ subscriptions[w].user = req[r].user
      BY <1>1, <2>1 DEF TypeInv, ReadInv, Loaded
    <2>3. QED
      BY <2>1, <2>2, WrittenRow, Nothing
  <1>2. ASSUME NEW r \in Reqs, CommitWebhook(r), w # req[r].id
        PROVE  subscriptions'[w] = subscriptions[w]
    BY <1>2, CommitWrites
  <1>3. QED
    BY <1>1, <1>2, ExpiredWrites, TableChange

\* user_id is not unique, so two webhooks can give a user two rows; but only the commit
\* of one that found none and was overtaken does, and the rows are of different
\* subscriptions.
THEOREM SecondRowOnlyByRace == Spec => SecondRowOnlyIfStale
  <1> DEFINE Race(u) ==
        \/ RowsOf(u)' = RowsOf(u)
        \/ \E r \in Reqs : /\ req[r].pc = "flushed"
                           /\ req'[r] = Idle
                           /\ req[r].user = u
                           /\ req[r].seen = None
                           /\ RowsOf(u) # {}
                           /\ \A w \in RowsOf(u) : subscriptions[w].sub # req[r].new.sub
  <1>1. ASSUME TypeInv, RowInv, [Next]_vars, NEW u \in Users,
               Cardinality(RowsOf(u)') > 1, RowsOf(u)' # RowsOf(u)
        PROVE  Race(u)
    <2> USE <1>1
    <2>1. PICK w \in Workers : /\ subscriptions[w] = None
                               /\ subscriptions'[w] # None
                               /\ subscriptions'[w].user = u
      BY UsersStay DEF RowsOf
    <2>2. PICK r \in Reqs : CommitWebhook(r) /\ w = req[r].id
      BY <2>1, CommitWrites, ExpiredWrites, TableChange
    <2>3. /\ req[r].pc = "flushed"
          /\ subscriptions'[w] = Written(req[r])
          /\ \A v \in Workers \ {w} : subscriptions'[v] = subscriptions[v]
      BY <2>2, CommitWrites
    <2>4. req[r].user = u
      BY <2>1, <2>3, WrittenRow
    <2>5. req[r].seen = None
      BY <2>1, <2>2, <2>3 DEF TypeInv, ReadInv, Loaded
    <2>6. req'[r] = Idle
      BY <2>2 DEF CommitWebhook, Finish, TypeInv, TypeOK
    <2>7. RowsOf(u)' = RowsOf(u) \union {w}
      BY <2>1, <2>3 DEF RowsOf
    <2>8. RowsOf(u) # {}
      <3> SUFFICES ASSUME RowsOf(u) = {} PROVE FALSE
        OBVIOUS
      <3>1. Cardinality(RowsOf(u)') = 1
        BY <2>7, FS_Singleton
      <3>2. QED
        BY <3>1
    <2>9. \A v \in RowsOf(u) : subscriptions[v].sub # req[r].new.sub
      BY <2>1, <2>2, <2>3, <2>5 DEF RowInv, RowsOf, SetsSub
    <2>10. QED
      BY <2>3, <2>4, <2>5, <2>6, <2>8, <2>9
  <1>2. TypeInv /\ RowInv /\ [Next]_vars =>
            [\A u \in Users : Cardinality(RowsOf(u)') > 1 => Race(u)]_subscriptions
    BY <1>1
  <1>3. QED
    BY <1>2, RowAlways, PTL DEF Spec, SecondRowOnlyIfStale
================================================================================
