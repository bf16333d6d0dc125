------------------------------ MODULE Migrations ------------------------------
(***************************************************************************)
(* The schema migrations (alembic/versions) and how they are run           *)
(* (alembic/env.py): "alembic upgrade" and "alembic downgrade" by several  *)
(* operators or deployments at once.                                       *)
(*                                                                         *)
(* env.py opens one connection and one transaction per command: the        *)
(* command reads the revision in table alembic_version, then executes the  *)
(* statements of every revision on its way, each revision ending with the  *)
(* change of its row in alembic_version.  DDL is transactional in          *)
(* PostgreSQL: a statement sees what was committed and what its own        *)
(* transaction did, it waits for a transaction that holds a name it needs, *)
(* and when it is refused the whole command is rolled back.                *)
(*                                                                         *)
(* The catalog is a set of objects: tables (with the columns, indexes and  *)
(* foreign keys they are created with), native enum types, columns and     *)
(* constraints that are added later, and the rows of alembic_version.  An  *)
(* object "uses" the names it refers to: the tables of its foreign keys,   *)
(* the types of its columns.  Revision n is "000n", 0 the empty schema.    *)
(***************************************************************************)
EXTENDS Naturals, Sequences

CONSTANT Runs       \* commands that may be running at the same time

VARIABLES
    catalog,    \* what is committed
    run         \* each running command: its transaction and what it has still to do

vars == <<catalog, run>>

-------------------------------------------------------------------------------
(***************************************************************************)
(* Objects and statements.                                                 *)
(***************************************************************************)
\* The names of revision 0001, of revision 0002, and of the version table.
Tables_1 ==
    {"couples", "users", "albums", "memories", "fk_albums_cover_memory_id_memories",
     "rituals", "ritual_entries", "letters", "special_dates", "surprises",
     "watch_sessions", "refresh_tokens", "night_sessions", "audit_logs"}

Types_1 == {"relationshipstatus", "memorycategory", "ritualstatus", "letterstatus",
            "surprisestatus", "nightsessionstatus"}

Names_2 ==
    {"couples.subscription_status", "couples.subscription_expires_at",
     "users.stripe_customer_id", "uq_users_stripe_customer_id",
     "plans", "subscriptions", "subscription_events",
     "plantier", "billinginterval", "subscriptionstatus"}

Name == Tables_1 \union Types_1 \union Names_2 \union {"alembic_version", "0001", "0002"}

Object == [name : Name, owner : Name, uses : SUBSET Name]

Statement == [make : SUBSET Object, drop : SUBSET Name, lax : BOOLEAN]

Obj(name, owner, uses) == [name |-> name, owner |-> owner, uses |-> uses]

Type(name) == Obj(name, name, {})

\* op.create_table: with a table, SQLAlchemy creates the native types of its
\* sa.Enum columns, without looking whether they exist.
CreateTable(table, types, parents) ==
    [make |-> {Obj(table, table, types \union parents)} \union {Type(t) : t \in types},
     drop |-> {}, lax |-> FALSE]

\* op.create_table whose columns use types created before (create_type=False).
CreateTableOnly(table, uses) ==
    [make |-> {Obj(table, table, uses)}, drop |-> {}, lax |-> FALSE]

\* op.add_column, op.create_foreign_key, op.create_unique_constraint.
Add(name, table, uses) ==
    [make |-> {Obj(name, table, {table} \union uses)}, drop |-> {}, lax |-> FALSE]

\* op.drop_table, op.drop_column, op.drop_constraint.
Drop(name) == [make |-> {}, drop |-> {name}, lax |-> FALSE]

\* Enum.create and Enum.drop with checkfirst=True, DROP TYPE IF EXISTS.
CreateType(name) == [make |-> {Type(name)}, drop |-> {}, lax |-> TRUE]

DropType(name) == [make |-> {}, drop |-> {name}, lax |-> TRUE]

-------------------------------------------------------------------------------
(***************************************************************************)
(* Revision 0001.                                                          *)
(***************************************************************************)
couples == CreateTable("couples", {"relationshipstatus"}, {})
users == CreateTable("users", {}, {"couples"})
albums == CreateTable("albums", {}, {"couples", "users"})
memories == CreateTable("memories", {"memorycategory"}, {"albums", "users", "couples"})
albums_cover == Add("fk_albums_cover_memory_id_memories", "albums", {"memories"})
rituals == CreateTable("rituals", {}, {"couples", "users"})
ritual_entries == CreateTable("ritual_entries", {"ritualstatus"}, {"rituals", "users"})
letters == CreateTable("letters", {"letterstatus"}, {"couples", "users"})
special_dates == CreateTable("special_dates", {}, {"couples", "users"})
surprises == CreateTable("surprises", {"surprisestatus"}, {"couples", "users"})
watch_sessions == CreateTable("watch_sessions", {}, {"couples", "users"})
refresh_tokens == CreateTable("refresh_tokens", {}, {"users"})
night_sessions == CreateTable("night_sessions", {"nightsessionstatus"}, {"couples", "users"})
audit_logs == CreateTable("audit_logs", {}, {})

Upgrade_1 ==
    <<couples, users, albums, memories, albums_cover, rituals, ritual_entries, letters,
      special_dates, surprises, watch_sessions, refresh_tokens, night_sessions, audit_logs>>

Downgrade_1_KeepsCover ==
    <<Drop("audit_logs"), Drop("night_sessions"), Drop("refresh_tokens"),
      Drop("watch_sessions"), Drop("surprises"), Drop("special_dates"), Drop("letters"),
      Drop("ritual_entries"), Drop("rituals"), Drop("memories"), Drop("albums"),
      Drop("users"), Drop("couples"),
      DropType("relationshipstatus"), DropType("memorycategory"), DropType("ritualstatus")>>

Downgrade_1 ==
    <<Drop("audit_logs"), Drop("night_sessions"), Drop("refresh_tokens"),
      Drop("watch_sessions"), Drop("surprises"), Drop("special_dates"), Drop("letters"),
      Drop("ritual_entries"), Drop("rituals"),
      Drop("fk_albums_cover_memory_id_memories"), Drop("memories"), Drop("albums"),
      Drop("users"), Drop("couples"),
      DropType("relationshipstatus"), DropType("memorycategory"), DropType("ritualstatus")>>

(***************************************************************************)
(* Revision 0002.                                                          *)
(***************************************************************************)
enum_types == <<CreateType("plantier"), CreateType("billinginterval"),
                CreateType("subscriptionstatus")>>
couples_columns ==
    <<Add("couples.subscription_status", "couples", {"subscriptionstatus"}),
      Add("couples.subscription_expires_at", "couples", {})>>
users_columns == <<Add("users.stripe_customer_id", "users", {}),
                   Add("uq_users_stripe_customer_id", "users", {"users.stripe_customer_id"})>>
plans == CreateTableOnly("plans", {"plantier", "billinginterval"})
subscriptions == CreateTableOnly("subscriptions", {"subscriptionstatus", "users", "plans"})
subscription_events == CreateTableOnly("subscription_events", {"users"})

Upgrade_2 ==
    enum_types \o couples_columns \o users_columns
      \o <<plans, subscriptions, subscription_events>>

Downgrade_2_OneColumn ==
    <<Drop("subscription_events"), Drop("subscriptions"), Drop("plans"),
      Drop("uq_users_stripe_customer_id"), Drop("users.stripe_customer_id"),
      Drop("couples.subscription_status"),
      DropType("plantier"), DropType("billinginterval"), DropType("subscriptionstatus")>>

Downgrade_2 ==
    <<Drop("subscription_events"), Drop("subscriptions"), Drop("plans"),
      Drop("uq_users_stripe_customer_id"), Drop("users.stripe_customer_id"),
      Drop("couples.subscription_expires_at"), Drop("couples.subscription_status"),
      DropType("plantier"), DropType("billinginterval"), DropType("subscriptionstatus")>>

-------------------------------------------------------------------------------
(***************************************************************************)
(* The command: the revisions it passes, and their rows in                 *)
(* alembic_version.                                                        *)
(***************************************************************************)
Revision(n) == IF n = 1 THEN "0001" ELSE "0002"

Row(n) == Obj(Revision(n), "alembic_version", {"alembic_version"})

\* HeadMaintainer: INSERT, UPDATE ... WHERE version_num = the old one, or DELETE;
\* Alembic raises when the statement matches no row.
Stamp(from, to) == [make |-> IF to = 0 THEN {} ELSE {Row(to)},
                    drop |-> IF from = 0 THEN {} ELSE {Revision(from)},
                    lax |-> FALSE]

VersionTable == [make |-> {Obj("alembic_version", "alembic_version", {})},
                 drop |-> {}, lax |-> TRUE]

Script(from, to) ==
    CASE from = 0 /\ to = 1 -> <<VersionTable>> \o Upgrade_1 \o <<Stamp(0, 1)>>
      [] from = 0 /\ to = 2 -> <<VersionTable>> \o Upgrade_1 \o <<Stamp(0, 1)>>
                                 \o Upgrade_2 \o <<Stamp(1, 2)>>
      [] from = 1 /\ to = 2 -> Upgrade_2 \o <<Stamp(1, 2)>>
      [] from = 2 /\ to = 1 -> Downgrade_2 \o <<Stamp(2, 1)>>
      [] from = 2 /\ to = 0 -> Downgrade_2 \o <<Stamp(2, 1)>> \o Downgrade_1 \o <<Stamp(1, 0)>>
      [] from = 1 /\ to = 0 -> Downgrade_1 \o <<Stamp(1, 0)>>

-------------------------------------------------------------------------------
(***************************************************************************)
(* Transactions.                                                           *)
(***************************************************************************)
Names(objects) == {o.name : o \in objects}

Idle == [busy |-> FALSE, from |-> 0, passed |-> FALSE, todo |-> <<>>,
         made |-> {}, gone |-> {}, locks |-> {}]

\* The type invariant; a command that is not running holds nothing.
TypeOK ==
    /\ catalog \subseteq Object
    /\ run \in [Runs -> [busy : BOOLEAN, from : 0..2, passed : BOOLEAN, todo : Seq(Statement),
                         made : SUBSET Object, gone : SUBSET Object,
                         locks : SUBSET Name]]
    /\ \A p \in Runs : run[p].busy \/ run[p] = Idle

Init ==
    /\ catalog = {}
    /\ run = [p \in Runs |-> Idle]

\* get_current_heads: the committed revision.
Version == IF "0002" \in Names(catalog) THEN 2
           ELSE IF "0001" \in Names(catalog) THEN 1
           ELSE 0

\* What the transaction of p sees.
View(p) == (catalog \ run[p].gone) \union run[p].made

\* What a statement takes away and adds, in a transaction that sees V.
Removed(s, V) == {o \in V : o.name \in s.drop \/ o.owner \in s.drop}

Added(s, V) == {o \in s.make : o.name \notin Names(V)}

\* PostgreSQL refuses a name that is taken, or missing, a reference to nothing,
\* and the removal of what others refer to.
Refused(s, V) ==
    \/ ~s.lax /\ Names(s.make) \intersect Names(V) # {}
    \/ ~s.lax /\ ~(s.drop \subseteq Names(V))
    \/ \E o \in Added(s, V) : ~(o.uses \subseteq Names(V) \union Names(s.make))
    \/ \E o \in V \ Removed(s, V) : o.uses \intersect Names(Removed(s, V)) # {}

\* The names a statement locks until its transaction ends: what it changes, and
\* the tables and types that refer to it or that it refers to.
Touched(s, V) ==
    LET changed == Removed(s, V) \union Added(s, V)
    IN  Names(changed) \union UNION {o.uses \union {o.owner} : o \in changed}

Blocked(p, s) ==
    \E q \in Runs \ {p} : run[q].locks \intersect Touched(s, View(p)) # {}

(***************************************************************************)
(* The steps of a command.                                                 *)
(***************************************************************************)

\* "alembic upgrade" or "alembic downgrade" to revision "to": the transaction
\* begins and reads the revision; there is nothing to do when it is "to" already.
Start(p, to) ==
    /\ ~run[p].busy
    /\ to # Version
    /\ run' = [run EXCEPT ![p] = [busy |-> TRUE, from |-> Version, passed |-> FALSE,
                                  todo |-> Script(Version, to),
                                  made |-> {}, gone |-> {}, locks |-> {}]]
    /\ UNCHANGED catalog

Execute_ForgetsLocks(p) ==
    /\ run[p].todo # <<>>
    /\ LET s == Head(run[p].todo)
           removed == Removed(s, View(p))
           added == Added(s, View(p))
       IN  /\ ~Blocked(p, s)
           /\ ~Refused(s, View(p))
           /\ run' = [run EXCEPT ![p] =
                [@ EXCEPT !.todo = Tail(@), !.made = (@ \ removed) \union added,
                          !.gone = @ \union removed, !.locks = Touched(s, View(p))]]
    /\ UNCHANGED catalog

\* The next statement is executed.
Execute(p) ==
    /\ run[p].todo # <<>>
    /\ LET s == Head(run[p].todo)
           removed == Removed(s, View(p))
           added == Added(s, View(p))
       IN  /\ ~Blocked(p, s)
           /\ ~Refused(s, View(p))
           /\ run' = [run EXCEPT ![p] =
                [busy |-> TRUE, from |-> @.from, passed |-> @.passed, todo |-> Tail(@.todo),
                 made |-> (@.made \ removed) \union added,
                 gone |-> @.gone \union removed,
                 locks |-> @.locks \union Touched(s, View(p))]]
    /\ UNCHANGED catalog

\* The end of begin_transaction: all revisions of the command commit at once.
\* "passed" only remembers, for the properties, which commands began before.
Commit(p) ==
    /\ run[p].busy
    /\ run[p].todo = <<>>
    /\ catalog' = View(p)
    /\ run' = [q \in Runs |-> IF q = p THEN Idle
                              ELSE [run[q] EXCEPT !.passed = run[q].busy]]

\* The next statement is refused, and the command ends without effect.
Fail(p) ==
    /\ run[p].todo # <<>>
    /\ ~Blocked(p, Head(run[p].todo))
    /\ Refused(Head(run[p].todo), View(p))
    /\ run' = [run EXCEPT ![p] = Idle]
    /\ UNCHANGED catalog

Abort_KeepsOpen(p) ==
    /\ run[p].busy
    /\ run' = [run EXCEPT ![p].busy = FALSE]
    /\ UNCHANGED catalog

\* The command is interrupted, loses its connection, or is the victim of a
\* deadlock; or a type appeared between the check and the CREATE of checkfirst.
Abort(p) ==
    /\ run[p].busy
    /\ run' = [run EXCEPT ![p] = Idle]
    /\ UNCHANGED catalog

Next ==
    \E p \in Runs :
        \/ \E to \in 0..2 : Start(p, to)
        \/ Execute(p)
        \/ Commit(p)
        \/ Fail(p)
        \/ Abort(p)

Spec == Init /\ [][Next]_vars

-------------------------------------------------------------------------------
(***************************************************************************)
(* Properties.                                                             *)
(***************************************************************************)

Made(script) == UNION {script[i].make : i \in DOMAIN script}

\* What the upgrades up to revision n create.
Schema(n) ==
    IF n = 1 THEN Made(Script(0, 1))
    ELSE (Made(Script(0, 2)) \ {Row(1)})

\* The types that downgrade of 0001 does not drop.
Left == {Type("letterstatus"), Type("surprisestatus"), Type("nightsessionstatus")}

\* The committed revision tells what is in the database, whatever path of
\* upgrades and downgrades led to it and however many commands overlapped: each
\* downgrade removes exactly what its upgrade made, but for three types that the
\* empty schema may keep.
SchemaIsOfVersion ==
    IF Version = 0
    THEN catalog \subseteq Made(<<VersionTable>>) \union Left
    ELSE catalog = Schema(Version)

\* A command is refused a statement only when another one has committed since it
\* began, or when it creates again a type that an earlier downgrade to the empty
\* schema has left behind.
RefusedOnlyByLeftTypes ==
    \A p \in Runs :
        (/\ run[p].todo # <<>>
         /\ ~run[p].passed
         /\ Refused(Head(run[p].todo), View(p)))
        => /\ run[p].from = 0
           /\ Head(run[p].todo).make \intersect Left \intersect catalog # {}

\* However many commands overlap, one that commits has begun at the revision that
\* is still the committed one: no revision is applied twice, or on top of a schema
\* that its command has not read.
CommandsAreSerial ==
    [][\A p \in Runs : Commit(p) => run[p].from = Version]_vars

Stray == Version = 0 /\ Left \intersect catalog # {}

History == INSTANCE SchemaHistory WITH revision <- Version, stray <- Stray

\* What overlapping, refused and interrupted commands do to the database is what a
\* series of whole commands does, of which none upgrades a schema that has been
\* downgraded to the empty one.
HistoryIsSerial == History!Spec

===============================================================================
