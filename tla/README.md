# together-api: TLA+ models

`together-api` is the server of an app for couples: FastAPI on SQLAlchemy 2.0
(async) and PostgreSQL, Redis for caches and presence, Stripe for payments,
Celery for periodic jobs, S3 for media, websockets for what is live. It has no
tests; what it promises is in `README.md` and in
`app/presentation/api/v1/routers/README.md` (below "the router README"), in the
messages of its exceptions and in its comments.

This directory models what can go wrong between two steps of it: requests that
overlap, jobs that overlap requests, retries, rollbacks and restarts. Contents:

1. [The system](#1-the-system)
2. [The baseline](#2-the-baseline): what the models assume of a running server
3. [Modules](#3-modules): which models which part, and how
4. [Runs](#4-runs), bounds and fairness
5. [Proofs](#5-proofs)
6. [What the code does not keep](#6-what-the-code-does-not-keep)
7. [Not modelled](#7-not-modelled)
8. [Plan](#8-plan)

## 1. The system

| Component | State | Operations | What is hard |
|---|---|---|---|
| Couple pairing | `users.couple_id`, `couples` | invite, join, me | two requests between guard and commit |
| Love letters | `letters` | create draft, send, read, delete | the same; retries of send; reused row ids |
| Surprises | `surprises` | create, open, update, delete; job that unlocks | a job beside requests and beside itself; time |
| Billing | `subscriptions`, `subscription_events`, `users.stripe_customer_id` | checkout, portal, webhooks, expiry job | retried and rolled back checkouts; duplicated, reordered and retried webhooks; caches |
| Premium gate | Redis `premium:*`, `sub_cache:*` | resolve, set, invalidate | what the cache says after the row changed |
| Rituals | `rituals`, `ritual_entries` | create, update, delete, record entry | plan limit, one entry per day, streaks |
| Websockets, presence | rooms in memory, Redis presence keys | connect, receive, broadcast, disconnect | lists changed across awaits, two tabs, expiry |
| Night, watch together | `night_sessions`, `watch_sessions` | start, join, sync, end | two sessions at once |
| Albums, memories | `albums`, `memories`, S3 | create, upload, move, delete | database and object store; plan limits |
| Special dates | `special_dates` | create, update, delete | unique title by check |
| Moods, dashboard | `users.current_mood`, Redis | set, read | 30 s copies |
| Login, tokens | `refresh_tokens` | register, login, refresh, logout, cleanup job | refresh-token reuse |
| Rate limits | Redis counters | count | two calls per count |
| Schema migrations | the PostgreSQL catalog, `alembic_version` | upgrade, downgrade | what a downgrade leaves, two commands at once |

How they interact. Every HTTP request that needs the database gets one session
and one transaction from `get_db_session` (`infra/db/session.py:41-48`): it
commits when the handler returns and rolls back when it raises. PostgreSQL runs
it READ COMMITTED and no statement locks rows, so what a handler read may have
changed when it commits. The ORM writes the columns it changed, by primary key,
and no guard of a handler is repeated in the statement. An UPDATE of a row that
is gone raises `StaleDataError`; a DELETE of one only warns. The Celery jobs use
the same session factory in other processes. The components share the `users`
table (everybody reads `couple_id`, only pairing writes it) and the premium
caches.

One detail matters in every table: `UUIDMixin` declares `default=uuid.uuid4()`
(`infra/db/base.py:26-32`), which Python evaluates once, when the class is
imported. A process therefore offers the **same** primary key for every row it
inserts into a table. The second insert fails with a unique violation as long as
the first row exists; after a delete the id is used again. The models keep this:
a row is named by the process that inserted it (`Workers`), and a restart is
another member of `Workers`.

## 2. The baseline

At this commit the server does not start, and some routes always raise. The
models describe the services behind those defects, with the smallest repair that
lets the code be reached, and say nothing about the repair itself:

* `presentation/websockets/__init__.py:17` ends in an unfinished import; ORM
  relationships name attributes that the other side does not have
  (`Couple.members`/`User.couples`, `User.albums`, `Album.memories`).
* No token can be issued or read: `core/security.py:46` assigns to
  `dict[str, Any]`, `verify_token` returns a string where callers index it,
  `auth_service` awaits a function that is not a coroutine and builds `User` with
  a column it lacks. So authenticated, active users are a constant (`Users`).
* Several exceptions are raised with arguments their constructors refuse. The
  client gets a 500 in place of a 4xx; the rollback is the same, and both are the
  same `Refuse` or `Abort` step here.
* `LetterService` lacks the methods that four letter routes call (read one,
  edit a draft, count unread, list with filters); these routes raise and write
  nothing.
* `handle_couple_ws` is mounted by no route; module `Presence` describes it as if
  one passed it the couple's websockets and the one `ws_manager` of the process.
* The models and the migrations disagree: `Ritual.created_by` refers to couples in
  the model and to users in `0001`; letters, surprises and night sessions have
  native enums with upper-case labels in `0001` and lower-case strings in the
  model. The service modules take a schema that their own inserts fit; module
  `Migrations` takes the schema as the migrations make it.
* A surprise with a media file always fails in `upload_file`, which passes a
  UUID as S3 metadata.

## 3. Modules

| Module | What it is | Code |
|---|---|---|
| `Pairing` | the promise of the couple endpoints, no requests in it | `couple_service.py` |
| `Couple` | requests of those endpoints, step by step | `couple_service.py`, `core/dependencies/auth.py`, `infra/db/session.py` |
| `LetterLifecycle` | draft, sent, read: the promise | router README, letter model |
| `Letters` | the letter requests step by step | `letter_service.py`, `letter_repo.py` |
| `SurpriseLifecycle` | locked, delivered, opened: the promise | router README, surprise model |
| `Surprise` | the surprise requests, the job, the clock | `surprise_service.py`, `worker/tasks.py` |
| `Billing` | checkout, Stripe's webhooks, the premium gate and its copy, the expiry job | `subscription_service.py`, `subscription_repo.py`, `core/dependencies/premium.py`, `worker/tasks.py` |
| `RitualBook` | a couple's rituals, one mark per user and day, the streaks: the promise | router README, `ritual_service.py` |
| `Rituals` | the ritual requests step by step, over midnight | `ritual_service.py`, `ritual.py` (model and router) |
| `Presence` | the websocket room of a couple and the presence keys | `websockets/manager.py`, `websockets/handlers.py`, `infra/cache/presence.py` |
| `SchemaHistory` | whole upgrades and downgrades, one after the other: the promise | `alembic/versions/*.py`, `alembic/env.py` |
| `Migrations` | `alembic upgrade` and `downgrade`, statement by statement | `alembic/versions/*.py`, `alembic/env.py` |
| `MCCouple`, `MCLetters`, `MCBilling`, `MCRituals`, `MCPresence`, `MCMigrations` | symmetry sets for TLC | |
| `CoupleProofs`, `LettersProofs`, `SurpriseProofs`, `BillingProofs`, `PresenceProofs`, `MigrationsProofs` | theorems about one module each | |
| `StreakProofs`, `RitualsProofs` | theorems about `Rituals`: the loops over the dates, and the requests | |

**A request** is at most three steps. `Load` is `get_current_user`: from here on
the handler works with the user's row as it was then. `Find...` is the SELECT the
guards are about, with the guards: the request is now `checked`. `Commit...`
writes what the handler assigned, by primary key. `Refuse` is every early return
and error of the code; `Abort` every end that no guard explains (cancelled
request, lost connection, killed process). Both write nothing, as
`get_db_session` rolls back. `Reqs` is the number of requests in flight.

*Couple.* `couples` and `coupleOf` are the rows and `users.couple_id`. `invite`
reads the user and inserts, `join` reads the user, the couple of the code and its
members. The random invite code stands for the couple. `SeatFree` counts the
members less the caller, as `couple_service.py:50-52` does.

*Letters.* A row keeps status, author, recipient, couple and whether `sent_at`
and `read_at` are set; the body is left out. The guards of `send`, `mark_read`
and `delete` are `MaySend`, `MayRead`, `MayDelete`, evaluated on the row the
request read.

*Surprise.* Like a letter, plus `due`, which says whether `unlocks_at` has
passed; `Elapse` is that moment. A run of the job (`Jobs`) is `JobRead` (the
SELECT), then `JobCommit` (all the UPDATEs together) or `JobAbort`. Two runs may
overlap: `task_acks_late` redelivers a run whose worker died, and beat does not
wait for the last one.

*Billing.* `subscriptions` and `recorded` are the tables of subscriptions and of
events, `customerOf` the users' Stripe customers, `premium` the copy in Redis.
Stripe is external: `holder` is the user each customer was created for, `stripe`
what it knows of a checkout session and of the subscription that comes of it,
`events` what it has sent, each with the state of that moment. Nothing is ever
taken out of `events`, so an event can arrive late, after a younger one, twice, or
in two transactions at once.

A checkout is four steps of one transaction. `AskCheckout` loads the user and
passes the guard. `EnsureCustomer` creates a customer for a user loaded without
one and flushes the user's row, which holds it; that customer is what
`_ensure_stripe_customer` returns and what the session is created for.
`CreateSession` calls Stripe with the idempotency key made of user and interval: a
repeated key returns the first session, if it was for the same customer, and is
refused otherwise. `CommitCheckout` stores the customer, and only then is the
session `open`: the pinned FastAPI commits before it sends the response, so nobody
has the URL of a checkout that was rolled back. `ForgetKey` is Stripe dropping the
key after a day. `Subscribe` starts a subscription: `trialing` with
`STRIPE_TRIAL_DAYS` (`TrialDays`), in which the user is premium and has paid
nothing, and `incomplete` without; `Charge` is every later payment, failure or
cancellation.

A webhook is `Receive` (no record of the event; its user and the user's row are
loaded), `Flush` (the statements, which take the locks, and the copy in Redis) and
`CommitWebhook` (row, customer and record together), or `ReceiveStray` and
`CommitStray` for an update whose customer no user has. `Abort` between the last
two leaves the copy in Redis behind. `Written` is the UPDATE of the ORM: only the
columns that differ from the row that was loaded. A flushed statement makes others
wait: for the row (`RowWritten`), the unique subscription id (`SubWritten`), the
user's unique customer column (`UserWritten`) and, since an inserted row refers to
its user, that user's key (`UserReferred`).

*Rituals.* The tables are `ritual` and `entry`. A create, update or delete is a
load and a commit. A record (complete or skip) has five steps, because it sends
statements and reads the tables again before it commits: `Look` finds today's
entry of the caller, `Count` sends the INSERT or UPDATE and reads the completed
dates (its own entry and what is committed), `Check` sends the streaks and reads
the answer, `CommitRecord` makes both visible. A sent statement holds its row, an
inserted entry holds its ritual against deletion (`EntryHeld`, `RitualHeld`,
`HeldAgainstDelete`). `Descend` and `Ascend` are the two loops of
`_recalculate_streaks`, as recursive functions over the days; `Longest` takes the
maximum with the loaded value. `NextDay` may fall between any two steps.

*Presence.* The handlers are coroutines of one event loop, so a step runs from one
`await` to the next. `room` is the list of `ConectionManager`; a broadcast (`cast`)
is Python's iterator over that list, which is an index (`at`), so an element
removed before it moves the next one under it. A connection goes `Accept`, `Greet`
(SETEX, "online"), then `Pong` and `Share` until `Leave` (disconnect) and `Part`
(DEL, "offline"); `GreetFails` and `PartFails` are Redis refusing, `Drop` a browser
that goes, `Crash` the process, `Expire` the time to live. What a browser shows is
its set `seen`.

*Migrations.* The catalog is a set of named objects that use each other; a revision
is the sequence of its statements. A command (`Runs`) is one transaction:
`Start` reads the revision, `Execute` runs a statement, `Commit` ends it, `Fail` is
a statement that PostgreSQL refuses, `Abort` an interruption. A statement waits for
a transaction that holds a name it touches. With a table, `op.create_table`
creates the native types of its columns without looking whether they exist.
`SchemaHistory` keeps of all this the committed revision and whether the empty
schema holds types of an earlier one (`stray`).

**The abstract specifications** (`Pairing`, `LetterLifecycle`, `SurpriseLifecycle`,
`RitualBook`, `SchemaHistory`) have no requests, sessions or statements: a step is a
whole operation with its guard true when it happens. A detailed module is shown to
implement its promise by a refinement mapping (`Shown`, which drops people, timestamps and entry ids). No
condition on the overlap of requests is needed to state what the server keeps of
it: `PairingUnlessStale`, `LifecycleUnlessStale` and `BookUnlessStale` say of every
interleaving that **each step is a step of the promise or a stutter, unless it is
the commit of a request whose reads another commit has overtaken**. "What it read"
is spelled out for each module (`Fresh`, or the guard evaluated again at the
commit), so the property says exactly how far the missing locks reach. It says
nothing about the exempted commits, which the server does make. What these can do
is bounded by properties without an exemption that name the harm: a
user leaves a couple only by an own request loaded before there was one
(`LeavesOnlyIfStale`), an unsent letter is read and a surprise is early only where
a row id was given away under a reader (`UnsentReadOnlyIfReplaced`,
`EarlyOnlyIfReplaced`), a second entry or subscription row comes only of an overtaken
lookup (`SecondOnlyIfStale`, `SecondRowOnlyIfStale`). Section 6 lists what is left.
No theorem here assumes rows locked by a request, one request per user or one at
a time: the server provides none of these. `Migrations` needs no exemption:
PostgreSQL's locks and transactional DDL provide what the service code leaves out, and
`HistoryIsSerial` holds of every interleaving.

## 4. Runs

| Run | Question | Instance | Result |
|---|---|---|---|
| `couple_concurrent` | how full can a couple get; does a user ever point nowhere; is every commit a step of the promise unless its request was overtaken; what makes a user leave a couple | 5 users, 2 processes, 3 requests | holds |
| `couple_overfull` | at most two members | 3 users, 1 process, 2 requests | violated |
| `letters_concurrent` | which timestamps mean something in every interleaving; is every commit a step of the promise unless overtaken; what makes an unsent letter read | 3 users, 2 processes, 2 requests | holds |
| `surprise_concurrent` | the same for surprises, the job and the clock; what makes a surprise early; is a due surprise ever delivered | 3 users, 1 process, 2 texts, 2 requests, 2 runs of the job | holds |
| `surprise_reopens` | is an opened surprise immutable | 2 users, 1 process, 1 request, 1 job | violated |
| `billing_concurrent` | does a checkout repeated or rolled back keep one session; is an event applied once and on its own user; who can be premium during a trial; what makes a second row | 1 user, 2 intervals, 7 trial days, 2 customers, 2 sessions, 2 processes, 2 requests, 2 events, 1 period | holds |
| `billing_expiry` | without a trial, is anybody premium who never paid; what may change a row when charges fail, renewals are late and the job overlaps webhooks | 1 user, 1 interval, 1 customer, 1 session, 2 processes, 2 requests, 1 job, 2 events, 2 periods | holds |
| `billing_two_rows` | has a user one row | 1 user, 2 intervals, 1 customer, 2 sessions, 2 processes, 2 requests, 2 events | violated |
| `rituals_concurrent` | does an entry outlive its ritual; do the loops find the runs of days; is every step one of the book unless a record was overtaken; what can make a second entry | 2 users, 2 couples, 1 ritual key, 2 entry keys, 2 requests, 2 days | holds |
| `rituals_two_entries` | one entry per user, ritual and day | 2 users, 1 couple, 1 day, 2 requests | violated |
| `presence_concurrent` | who stays listed, what browsers show, what a broadcast can skip, which keys are left | 2 users, 3 tabs (2 of one user), 2 broadcasts | holds |
| `migrations_concurrent` | does the revision say what the schema is; when is a command refused; are the commits a series of whole upgrades and downgrades | 3 commands, all revisions | holds |

*Bounds.* `Billing` counts: `MaxEvents` bounds the events Stripe sends, not their
deliveries, `MaxPeriods` the billing periods, `Customers` and `Sessions` what Stripe
is asked to make, and `Outcomes` what becomes of a charge. Its two
passing runs divide the question. `billing_concurrent` has both intervals, two
customers (those of two first checkouts that overlap, or of one and of
the retry after its rollback), two sessions and cancellations; `billing_expiry` has
one subscription with failed and successful charges, a second period and the
job. Two events are an old and a new one, or one of each subscription; they may
arrive in either order and each twice. Two processes record both events, or one of
them twice, if nothing stopped that. Several users are left to the proofs.
In `Rituals`, `MaxDay` bounds
the days: with two, midnight falls between any two steps of a record, and a streak
can go on, end or be counted with yesterday. What the loops compute is checked apart
from the interleavings, in every state with no request under way, for all sets of dates within `Horizon` = 7 days. Two entry
keys are two entries of one day by one user, or one by each partner, or one of each
day. One ritual key is one ritual at a time, deleted and made again by either couple;
the plan's limit is then reached by the first. In `Presence`, `MaxTabs` = 2 is two
tabs of one user beside the partner's; `MaxCasts` = 2 lets one broadcast disconnect
clients that another is about to reach. `Migrations` has no bound besides its three
commands: two that overlap and one that has committed between them. Everything else is finite
without a bound, so the runs are exhaustive for their instance. Two requests are
enough for every race of a guard against a commit; three are given to pairing,
where the third join makes the bound `1 + |Reqs|` of `SeatsBounded` one that is
reached. Three users allow a couple and an outsider, and five a couple with
three joins in flight. One process already reuses its row id; two give two rows
at a time. Two runs of the job are one late run and its successor. Where the
bound is a concern, section 5 proves the safety property for every size.

*Fairness.* Only `surprise_concurrent` needs it. `celery_app.py:25-28` starts
`unlock_due_surprises` every 60 seconds for ever, so a due surprise is read by
some run (weak fairness of `JobRead`), and a run that keeps being made commits
in the end (strong fairness of `JobCommit`: `JobAbort` disables it each time it
fails). The second is an assumption about the operation of the workers, not
about the code. Users and requests get no fairness at all. `presence_concurrent`, `rituals_concurrent` and `migrations_concurrent` check safety
only and assume no fairness: that a browser is told in the end depends on Redis and
on the network, which the code does not retry. The billing runs assume none either:
Stripe's deliveries are its own. Deadlock is checked in every run but
`billing_concurrent`: a request, a connection or a command can always begin. There,
a user with two rows and both events recorded has nothing left to do, as every
request that loads the rows raises.

## 5. Proofs

Everything below is proved for every value of the constants under their
assumptions: `None` is not a value of the other sets, and neither a ritual that a
client may list (`NoneIsNotListed`) nor a broadcast (`NoneIsNoBroadcast`); for
pairing, users and request slots are finite sets; for billing, the bounds are
numbers.

* `CoupleProofs`. Every interleaving: `TypeCorrect`, `NeverDangling` and
  `SeatsAreBounded`. The members of a
  couple alone are not bounded inductively: a join that passed its guard can
  commit at any time. `SeatsBounded` counts such joins as if they were members
  already; then a commit changes nothing, and the guard, which leaves at most one
  other member, is followed by at most one join per request slot.
  `NobodyLeavesUnlessStale`: a request that passed its guard was loaded with no
  couple, whatever else has been committed since (`CheckedWasSingle`).
  `PairingKeptUnlessStale`: in every interleaving, with no condition but that the
  request's reads still hold.
* `LettersProofs`. `TypeCorrect`; `RowsAlwaysAgree` (every commit either writes
  the timestamp that goes with the status or keeps both); `LifecycleKeptUnlessStale`
  for every interleaving; `UnsentIsReadOnlyIfReplaced`, from `RowsAgree`: only a
  `mark_read` can leave a row read and unsent, its row was a draft then, and the guard
  of `mark_read` passes no draft.
* `SurpriseProofs`. `TypeCorrect`, `RowsAlwaysAgree`. `LifecycleKeptUnlessStale`
  covers requests, runs of the job and the clock. `IsEarlyOnlyIfReplaced` takes each
  commit apart: a row that becomes early was locked and not due, the guard of an open
  passes no locked row, and the job reads only rows that are due.
* `BillingProofs`. `TypeCorrect`, from `TypeInv`: an event is of a subscription that
  has begun, what a request or a run of the job has read exists, and no two flushed
  webhooks insert one key.
  `AppliedAtMostOnce` needs to know whose event an event is: an update is assigned by
  customer id. `HolderInv` says that wherever a customer is written down, with a
  user, in a session or in a checkout, it is one that Stripe created for that
  user; whatever a webhook is about to write then belongs to the owner of the
  subscription (`EventInv`).
  `PremiumIsForSubscribers`: wherever "premium" is written down, in a row, an event, a
  request or Redis, that user has subscribed (`PremiumInv`).
  `RetriesShareASession`: a session is made only when its key returns none, and a key,
  user or interval never changes afterwards (`SessionChange`).
  `SecondRowOnlyByRace`, from `RowInv`: no two rows, no two flushed webhooks that set the
  column, and no row and such a webhook for another row are of one subscription. The
  unique `stripe_subscription_id` is checked when a row is flushed, long before it
  commits, and the locks hold it in between. So rows that meet at one user are of
  different subscriptions (`RowsAreApart`, too). All of these hold for any number of users,
  intervals, customers and sessions, with a trial or without.
* `StreakProofs`. `StreaksAreAlwaysRuns`: for every set of days up to any horizon, the
  two loops compute what `RitualBook` defines without loops, the run that ends today
  or yesterday and the longest run. The loops are recursive functions, and each is
  proved by induction on the days, in the form "the set of days at which it holds is
  all of them" (`SetInduction`): `CurrentIsRun` says what `Descend` returns for the days down
  to one, `AscendIsLongest` what `Ascend` has found up to one.
* `RitualsProofs`. `EntriesAlwaysHaveTheirRitual`. That a ritual exists when an entry
  is sent is not enough: it could be deleted before the entry commits. The invariant
  adds `Keeps`: whatever a request has sent can still be committed. The ritual of an
  INSERT exists, because its foreign key holds it against deletion, and the entry of
  an UPDATE exists, because the row is held.
  `TypesHold` adds what the loops return (a pair of numbers, from `StreakProofs`) and
  that the ritual of a streak about to be written exists. `BookKeptUnlessStale` is
  the refinement: a commit whose reads still hold is the step of `RitualBook`
  that its operation promises. It needs `BookInv`: an inserted entry's id is free, and two
  requests insert two ids (`KeysFree`), no request works on a day to come (`Dated`),
  and with what it read still true the dates it counted are those of the table with
  its own entry.
  `NoSecondUnlessStale` says how far the broken promise of one entry per day
  (section 6) still holds, in every interleaving: entries only come by the commit of a
  record of the same user and ritual (`MarksChange`), so what a record looked up it
  still finds, unless another one of that user was committed in between.
* `PresenceProofs`. `PresenceInv` is the type invariant with three parts.
  `ListInv`: whoever is listed is served or a zombie, and a browser that is there is
  served and listed. Alone it is not inductive, because a broadcast removes at its end the
  clients to which a send failed, long after the send: `CastInv` adds that those are
  still gone and that what a broadcast owes, it owes to listed clients. From these,
  `PresentStaysListed`. `SeenInv`: if a browser shows a user as online, some handler of
  the user runs, or is sending the "offline" that this browser has still to get; hence
  `GoneStaysGone`. What `list.remove` and the iterator's index do to the list is
  proved by induction on its length (`AppendIs`, `RemoveFirstIs`, `WithoutIs`), and gives
  `MissesBesideALeave`: a step that takes nobody off the list moves the iterator past
  nobody it has not served.
  `KeysOutliveOnlyFailures`: a step other than a failure leaves no
  presence key behind. The argument is `Cares`: whoever is online after the step was
  online before or has a handler that will delete the key, and the handlers of whoever
  stays online go on.
* `MigrationsProofs`. `SchemaMatchesVersion`, for any number of commands. That the
  catalog is one of three (`CatalogOk`) is kept only if every
  running command will commit one of the three, whatever has been committed since it
  began. `Did` describes a transaction by the set D of statements it has executed, in
  any order it likes: what it has made is made by D, what it has removed is dropped by D, no
  dropped name is left in what it sees, and what a statement of D made is there, or was
  removed since, with all that it uses. `Executes` keeps it (`NextDid`); the one delicate
  statement is `DROP TYPE IF EXISTS`, which succeeds without the type: there
  the first statement of the downgrade has shown that the schema was there, and with it the type
  (`TypesAreThere`). The commit of another keeps it (`OtherCommits`), since
  whatever D relies on is locked and locks are disjoint. When D is the whole script,
  `Did` leaves one catalog (`Finished01` to `Finished20`, one for each command),
  computed from the sets of statements, of names made and of names dropped of the four
  scripts. `MigrationsTypesHold` comes from the same invariant.
  `RefusedOnlyByLeft` needs the order of the statements, where `Did` needs only
  their set. `Ready(V, q, E)` says of the statements q still to come, in a transaction
  that sees V, that no name is made or dropped twice, that what a statement drops or
  uses is there by then, that what it drops nobody uses any more, and that the only
  names taken are those of the types E left behind. `ReadyStep` carries it over one statement;
  `ReadyJoined` builds it for a sequence from those of its parts. That the scripts
  have it comes from the turn of each name (`Turn1`, `Back1`, `Turn2`, `Back2`: the
  position at which it is made, or dropped), and from every object being made after what it
  uses and dropped before it (`UpgradeTurns1`, `UsesAre`). `OrderInv` adds to
  `MigrationsInv` that every running command that no commit has overtaken is `Ready`.
  `CommittedInTurn`: `Did` of a whole script determines the catalog it started from as
  well (`FoundItsRevision`), since it has removed the row of its revision, or made
  tables that only the empty schema lacks.
  `HistoryHolds` puts the two ends together: a commit takes the catalog of the
  revision found to that of the revision aimed at (`CommitsItsRevision`), and every
  other step leaves it alone. A downgrade to the empty schema keeps the three types,
  and an upgrade that commits from there has created them itself, so it found none
  of them; hence `StrayTypesAreFinal`.

*Only model-checked:* `EventuallyUnlocked` (liveness under fairness is out of the
prover's reach). Every invariant and every action property of the passing runs, and
every refinement, is stated by a theorem. The violations are counterexamples of TLC.

## 6. What the code does not keep

Four of the runs are expected to fail, each against a sentence or a declaration of the
repository:

* `couple_overfull`: two joins with one code both read one member and both
  commit; the couple has three, which `couple_service.py:52` refuses, and from
  then on `get_couple_partner` (`scalar_one_or_none`, `user_repo.py:37`) raises
  for each of them.
* `surprise_reopens`: a run of `unlock_due_surprises` that read a locked surprise
  writes `DELIVERED` after its recipient opened it. The router README, line 99:
  "Once a surprise is opened, it becomes immutable."

* `billing_two_rows`: a user who has both a monthly and a yearly checkout completes
  both; the first webhooks of the two subscriptions overlap in two processes, find no
  row and insert one each (`subscription_service.py:314`), and nothing in the table says
  that a user has one. `User.subscription` has `uselist=False` (`user.py:64`), and
  from then on `get_by_user` (`scalar_one_or_none`, `subscription_repo.py:16`) raises for the
  user: in every webhook, in every checkout and in the premium gate.

* `rituals_two_entries`: a complete and a skip of one user that overlap both find no
  entry of the day and both insert one. The router README, line 72: "A user can only
  mark one entry per day per ritual." From then on `_get_entry`
  (`scalar_one_or_none`) raises for that user, ritual and day. Two requests of the same
  user on the same ritual are the only cause (`SecondOnlyIfStale`).

The same shape, a guard that is not repeated at the commit, gives more behaviours:
they are the commits that the "unless stale" properties exempt.

* an invite and a join of one user that overlap move the user out of a committed
  couple, which may then have no member (`LeavesOnlyIfStale`: nothing else does);
* a delete that checked a draft removes the letter after it was sent, and a
  repeated send turns a letter already read back to sent;
* a `mark_read`, or a run of the job, that checked one row commits on the next row
  with the same id: a draft nobody sent is read (`UnsentReadOnlyIfReplaced`), a
  surprise is delivered before its time (`EarlyOnlyIfReplaced`);
* two partners who complete a ritual at the same time each count the dates without
  the other's entry; on the first day of both that changes nothing, but a streak
  loaded before another record committed overwrites the later one;
* a record that began before midnight and counts after it may write a streak of the
  wrong day; one whose ritual was deleted and whose row id was given to another
  couple's ritual marks that one, if it loaded no entry.

Behaviours of `Presence` and `Migrations` that no sentence excludes:

* A broadcast skips a client when another one before it in the list is removed while
  it waits for a send (`MissesOnlyBesideALeave` says that nothing else makes it skip).
* Closing one of two tabs deletes the user's key and tells the partner "offline"; the
  key comes back with the next answered ping, the partner is not told.
* When Redis refuses `set_online` after the connection was accepted, the client stays
  in the room without a handler until a send to it fails; when it refuses
  `set_offline`, nobody is told; when a process dies, its keys stay for 90 seconds.
* A database downgraded to the empty schema cannot be upgraded again (`StrayTypesAreFinal`): `0001` drops
  three of the six types its upgrade made (`0001_initial_schema.py:476-478`), and the
  next `create_table` is refused, until somebody drops `letterstatus`,
  `surprisestatus` and `nightsessionstatus` by hand.

Behaviours of `Billing` that no sentence of the repository excludes:

* An older `customer.subscription.updated` that arrives after a younger one puts
  the older state back; two that overlap mix their columns in one row.
* The job marks a row unpaid that a webhook renewed after the job read it.
* The copy in Redis says premium, for up to 300 seconds, for a webhook that was
  rolled back, or for a row that the job has marked unpaid.
* Two first checkouts of a user with different intervals can overlap. Both loaded no
  customer, so each creates one and a session for it; the second UPDATE waits for the
  first commit and then replaces its customer. The session of the first can still be
  completed: its updates find no user by customer, and the portal opens for the other
  customer.
* After a first checkout that was rolled back, the retry creates another customer but
  sends the same idempotency key (`subscription_service.py:91`). Stripe refuses the
  key with other parameters, so that user cannot check out with that
  interval until the key is forgotten, a day later.
* A user whose subscription was cancelled is offered the trial again
  (`subscription_service.py:98`): nothing records that there was one.

## 7. Not modelled

Of rituals: lists and reads, those of the dashboard included. Of the
websockets: the state that `watch_sync` stores, what the messages say, other
couples' rooms (they share nothing) and `PUT /mood`, whose broadcast is that of a
`mood_update`. Of the migrations: rows, offline mode, columns and indexes as objects
of their own.

Of billing: the cached subscription (`sub_cache`), which only the page that shows
it reads; the portal; `customer.subscription.deleted` and the invoice events, whose
handlers always raise (`subscription_repo.py:23` returns a method in place of a
row) and so write nothing. Besides the components that `PROJECT.json` lists as `not_modelled` with their
reason: texts and limits of fields, pagination, list and read routes (they change
nothing), the audit log, logging, the pool of connections, isolation levels other
than the default. `Abort` can follow any step, so failures of Redis, S3, Stripe
or the network during a request are included wherever they roll back.

## 8. Plan

1. (done) pairing, letters, surprises, billing with the premium gate, rituals,
   presence, migrations, with the promises and proofs of sections 3 and 5.
2. `Albums`: albums and memories with the object store: which rows may point to an
   object that is gone and which objects are left behind.
3. Special dates, refresh tokens and the shared sessions, as far as they change
   state in ways the modules above do not cover.
4. More proofs: the composition of pairing with letters (a letter's recipient is the
   partner at the time it was written).
