--------------------------- MODULE MigrationsProofs ---------------------------
(***************************************************************************)
(* What module Migrations guarantees however many commands overlap.        *)
(*                                                                         *)
(* The argument has three parts.  What each of the six commands executes   *)
(* is computed once, as the set of its statements and of what they make    *)
(* and drop (ScriptsUp, ScriptsDown).  A running command has executed some *)
(* set of statements of its script, and Did says what its transaction has  *)
(* then made and removed; it holds those names, so that the commit of      *)
(* another command changes nothing it relies on (OtherCommits).  When all  *)
(* statements have been executed, Did determines the catalog that the      *)
(* command commits (Finished), and the one it found (FoundItsRevision):    *)
(* every commit is one whole upgrade or downgrade of SchemaHistory.        *)
(*                                                                         *)
(* That no statement is refused needs the order of the statements as well: *)
(* Ready says of the statements still to come that each finds what it      *)
(* needs.  It holds of the six scripts on the catalogs of their revisions  *)
(* (ScriptReady), where the turn of a name is the statement that makes or  *)
(* drops it, and every statement leaves the rest Ready (ReadyStep).        *)
(***************************************************************************)
EXTENDS Migrations, TLAPS, SequenceTheorems

-------------------------------------------------------------------------------
(***************************************************************************)
(* Sets of statements.                                                     *)
(***************************************************************************)
Statements(q) == {q[i] : i \in DOMAIN q}

Makes(D) == UNION {s.make : s \in D}

Drops(D) == UNION {s.drop : s \in D}

\* No statement of a script makes a name that it, or an earlier one, drops.
OrderOk(q) ==
    \A i, j \in DOMAIN q : i <= j => q[i].drop \intersect Names(q[j].make) = {}

LEMMA JoinedIs ==
  ASSUME NEW S, NEW a \in Seq(S), NEW b \in Seq(S)
  PROVE  /\ a \o b \in Seq(S)
         /\ Statements(a \o b) = Statements(a) \union Statements(b)
         /\ /\ OrderOk(a) /\ OrderOk(b)
            /\ Drops(Statements(a)) \intersect Names(Makes(Statements(b))) = {}
            => OrderOk(a \o b)
  <1> DEFINE c == a \o b
             m == Len(a)
             n == Len(b)
  <1>1. /\ m \in Nat /\ n \in Nat /\ DOMAIN a = 1..m /\ DOMAIN b = 1..n
        /\ c \in Seq(S) /\ DOMAIN c = 1..(m + n)
    BY ConcatProperties
  <1>2. /\ \A i \in 1..m : c[i] = a[i]
        /\ \A i \in 1..n : c[m + i] = b[i]
    <2>1. \A i \in 1..(m + n) : c[i] = IF i <= m THEN a[i] ELSE b[i - m]
      BY ConcatProperties
    <2> HIDE DEF c, m, n
    <2>2. ASSUME NEW i \in 1..n
          PROVE  c[m + i] = b[i]
      <3>1. m + i \in 1..(m + n) /\ ~(m + i <= m) /\ (m + i) - m = i
        BY <1>1
      <3>2. QED
        BY <2>1, <3>1
    <2>3. QED
      BY <1>1, <2>1, <2>2
  <1> HIDE DEF c, m, n
  <1>3. \A i \in 1..(m + n) : i \in 1..m \/ \E k \in 1..n : i = m + k
    <2> SUFFICES ASSUME NEW i \in 1..(m + n), i \notin 1..m
                 PROVE  i - m \in 1..n /\ i = m + (i - m)
      OBVIOUS
    <2>1. QED
      BY <1>1
  <1>4. Statements(c) = Statements(a) \union Statements(b)
    <2>1. ASSUME NEW i \in 1..(m + n)
          PROVE  c[i] \in Statements(a) \union Statements(b)
      BY <1>1, <1>2, <1>3 DEF Statements
    <2>2. ASSUME NEW i \in 1..m
          PROVE  a[i] \in Statements(c)
      <3>1. i \in 1..(m + n)
        BY <1>1
      <3>2. QED
        BY <1>1, <1>2, <3>1 DEF Statements
    <2>3. ASSUME NEW i \in 1..n
          PROVE  b[i] \in Statements(c)
      <3>1. m + i \in 1..(m + n)
        BY <1>1
      <3>2. QED
        BY <1>1, <1>2, <3>1 DEF Statements
    <2>4. QED
      BY <1>1, <2>1, <2>2, <2>3 DEF Statements
  <1>5. ASSUME OrderOk(a), OrderOk(b),
               Drops(Statements(a)) \intersect Names(Makes(Statements(b))) = {}
        PROVE  OrderOk(c)
    <2> SUFFICES ASSUME NEW i \in 1..(m + n), NEW j \in 1..(m + n), i <= j
                 PROVE  c[i].drop \intersect Names(c[j].make) = {}
      BY <1>1 DEF OrderOk
    <2>1. CASE j \in 1..m
      <3>1. i \in 1..m
        BY <1>1, <2>1
      <3>2. QED
        BY <1>1, <1>2, <1>5, <2>1, <3>1 DEF OrderOk
    <2>2. CASE j \notin 1..m
      <3>1. PICK k \in 1..n : j = m + k
        BY <1>3, <2>2
      <3>2. CASE i \in 1..m
        <4>1. c[i] \in Statements(a) /\ c[j] \in Statements(b)
          BY <1>1, <1>2, <3>1, <3>2 DEF Statements
        <4>2. /\ c[i].drop \subseteq Drops(Statements(a))
              /\ c[j].make \subseteq Makes(Statements(b))
          BY <4>1 DEF Drops, Makes
        <4>3. QED
          BY <1>5, <4>2 DEF Names
      <3>3. CASE i \notin 1..m
        <4>1. PICK l \in 1..n : i = m + l
          BY <1>3, <3>3
        <4>2. l <= k
          BY <1>1, <3>1, <4>1
        <4>3. QED
          BY <1>1, <1>2, <1>5, <3>1, <4>1, <4>2 DEF OrderOk
      <3>4. QED
        BY <3>2, <3>3
    <2>3. QED
      BY <1>3, <2>1, <2>2
  <1>6. QED
    BY <1>1, <1>4, <1>5 DEF c

LEMMA SingleIs ==
  ASSUME NEW s \in Statement, s.drop \intersect Names(s.make) = {}
  PROVE  /\ <<s>> \in Seq(Statement) /\ Statements(<<s>>) = {s} /\ OrderOk(<<s>>)
  <1>1. <<s>> \in Seq(Statement) /\ DOMAIN <<s>> = {1} /\ <<s>>[1] = s
    OBVIOUS
  <1>2. QED
    BY <1>1 DEF Statements, OrderOk

LEMMA MakesOfTwo ==
  ASSUME NEW A, NEW B
  PROVE  Makes(A \union B) = Makes(A) \union Makes(B)
  BY DEF Makes

LEMMA DropsOfTwo ==
  ASSUME NEW A, NEW B
  PROVE  Drops(A \union B) = Drops(A) \union Drops(B)
  BY DEF Drops

LEMMA OfOne ==
  ASSUME NEW s
  PROVE  Makes({s}) = s.make /\ Drops({s}) = s.drop
  BY DEF Makes, Drops

-------------------------------------------------------------------------------
(***************************************************************************)
(* What the statements of the four scripts make and drop.                  *)
(***************************************************************************)
LEMMA ObjIs ==
  ASSUME NEW n \in Name, NEW w \in Name, NEW u \in SUBSET Name
  PROVE  /\ Obj(n, w, u) \in Object
         /\ Obj(n, w, u).name = n /\ Obj(n, w, u).owner = w /\ Obj(n, w, u).uses = u
  BY DEF Obj, Object

LEMMA TypeIs ==
  ASSUME NEW n \in Name
  PROVE  /\ Type(n) \in Object
         /\ Type(n).name = n /\ Type(n).owner = n /\ Type(n).uses = {}
  BY ObjIs DEF Type

LEMMA CreateTableIs ==
  ASSUME NEW t \in Name, NEW types \in SUBSET Name, NEW parents \in SUBSET Name
  PROVE  LET s == CreateTable(t, types, parents)
         IN  /\ s \in Statement /\ s.lax = FALSE /\ s.drop = {}
             /\ s.make = {Obj(t, t, types \union parents)} \union {Type(n) : n \in types}
  <1> DEFINE m == {Obj(t, t, types \union parents)} \union {Type(n) : n \in types}
  <1>1. m \in SUBSET Object
    BY ObjIs, TypeIs
  <1>2. CreateTable(t, types, parents) = [make |-> m, drop |-> {}, lax |-> FALSE]
    BY DEF CreateTable
  <1> HIDE DEF m
  <1>3. QED
    BY <1>1, <1>2 DEF Statement, m

LEMMA CreateTypeIs ==
  ASSUME NEW n \in Name
  PROVE  LET s == CreateType(n)
         IN  s \in Statement /\ s.lax = TRUE /\ s.drop = {} /\ s.make = {Type(n)}
  <1> DEFINE m == {Type(n)}
  <1>1. m \in SUBSET Object
    BY TypeIs
  <1>2. CreateType(n) = [make |-> m, drop |-> {}, lax |-> TRUE]
    BY DEF CreateType
  <1> HIDE DEF m
  <1>3. QED
    BY <1>1, <1>2 DEF Statement, m

LEMMA DropIs ==
  ASSUME NEW n \in Name
  PROVE  /\ Drop(n) \in Statement /\ Drop(n).lax = FALSE
         /\ Drop(n).drop = {n} /\ Drop(n).make = {}
         /\ DropType(n) \in Statement /\ DropType(n).lax = TRUE
         /\ DropType(n).drop = {n} /\ DropType(n).make = {}
  BY DEF Drop, DropType, Statement

\* The types that the downgrade of 0001 drops, and what else it drops; the types
\* that it leaves.
Types1 == {"relationshipstatus", "memorycategory", "ritualstatus"}

Dropped1 == Tables_1 \union Types1

LeftNames == {"letterstatus", "surprisestatus", "nightsessionstatus"}

Names1 == Tables_1 \union Types_1

Types2 == {"plantier", "billinginterval", "subscriptionstatus"}

Rows == {"0001", "0002"}

LEMMA NamesApart ==
  /\ Names1 \subseteq Name /\ Names_2 \subseteq Name /\ Rows \subseteq Name
  /\ "alembic_version" \in Name
  /\ Names1 = Dropped1 \union LeftNames
  /\ Types1 \subseteq Dropped1 /\ Types2 \subseteq Names_2
  /\ Dropped1 \intersect LeftNames = {} /\ Names1 \intersect Names_2 = {}
  /\ Names1 \intersect Rows = {} /\ Names_2 \intersect Rows = {}
  /\ "alembic_version" \notin Names1 \union Names_2 \union Rows
  <1>1. /\ Names1 \subseteq Name /\ Names_2 \subseteq Name /\ Rows \subseteq Name
        /\ "alembic_version" \in Name
    BY DEF Name, Names1, Rows
  <1>2. Types_1 = Types1 \union LeftNames
    BY DEF Types_1, Types1, LeftNames
  <1>3. Names1 = Dropped1 \union LeftNames
    BY <1>2 DEF Names1, Dropped1
  <1>4. Types1 \subseteq Dropped1 /\ Types2 \subseteq Names_2
    BY DEF Dropped1, Names_2, Types2
  <1>5. Dropped1 \intersect LeftNames = {}
    BY DEF Dropped1, Tables_1, Types1, LeftNames
  <1>6. Names1 \intersect Names_2 = {}
    BY DEF Names1, Tables_1, Types_1, Names_2
  <1>7. Names1 \intersect Rows = {}
    BY DEF Names1, Tables_1, Types_1, Rows
  <1>8. Names_2 \intersect Rows = {}
    BY DEF Names_2, Rows
  <1>9. "alembic_version" \notin Names1 \union Names_2 \union Rows
    BY DEF Names1, Tables_1, Types_1, Names_2, Rows
  <1>10. QED
    BY <1>1, <1>3, <1>4, <1>5, <1>6, <1>7, <1>8, <1>9

MadeBy1(s) ==
    /\ s \in Statement /\ s.lax = FALSE /\ s.drop = {}
    /\ \A o \in s.make : /\ o.name \in Names1 /\ o.owner \in Names1
                         /\ o.name \in Dropped1 \/ o \in Left

LEMMA TableOf1 ==
  ASSUME NEW t \in Dropped1, NEW types \in SUBSET (Types1 \union LeftNames),
         NEW parents \in SUBSET Dropped1
  PROVE  MadeBy1(CreateTable(t, types, parents))
  <1> DEFINE s == CreateTable(t, types, parents)
  <1>1. t \in Name /\ types \in SUBSET Name /\ parents \in SUBSET Name
    BY NamesApart DEF Dropped1
  <1>2. /\ s \in Statement /\ s.lax = FALSE /\ s.drop = {}
        /\ s.make = {Obj(t, t, types \union parents)} \union {Type(n) : n \in types}
    BY <1>1, CreateTableIs
  <1> HIDE DEF s
  <1>3. ASSUME NEW o \in s.make
        PROVE  /\ o.name \in Names1 /\ o.owner \in Names1
               /\ o.name \in Dropped1 \/ o \in Left
    <2>1. CASE o = Obj(t, t, types \union parents)
      <3>1. o.name = t /\ o.owner = t
        BY <1>1, <2>1, ObjIs
      <3>2. QED
        BY <3>1, NamesApart
    <2>2. ASSUME NEW n \in types, o = Type(n)
          PROVE  /\ o.name \in Names1 /\ o.owner \in Names1
                 /\ o.name \in Dropped1 \/ o \in Left
      <3>1. o.name = n /\ o.owner = n
        BY <1>1, <2>2, TypeIs
      <3>2. n \in Types1 => n \in Dropped1
        BY NamesApart
      <3>3. n \in LeftNames => o \in Left
        BY <2>2 DEF LeftNames, Left
      <3>4. QED
        BY <3>1, <3>2, <3>3, NamesApart
    <2>3. QED
      BY <1>2, <2>1, <2>2
  <1>4. QED
    BY <1>2, <1>3 DEF MadeBy1, s

LEMMA Upgrade1Is ==
  /\ Upgrade_1 \in Seq(Statement)
  /\ \A s \in Statements(Upgrade_1) : MadeBy1(s)
  /\ Statements(Upgrade_1) =
       {couples, users, albums, memories, albums_cover, rituals, ritual_entries, letters,
        special_dates, surprises, watch_sessions, refresh_tokens, night_sessions, audit_logs}
  <1> DEFINE U == {couples, users, albums, memories, albums_cover, rituals, ritual_entries,
                   letters, special_dates, surprises, watch_sessions, refresh_tokens,
                   night_sessions, audit_logs}
  <1>1. \A s \in U : MadeBy1(s)
    <2>1. MadeBy1(couples)
      BY TableOf1 DEF couples, Dropped1, Tables_1, Types1
    <2>2. MadeBy1(users)
      BY TableOf1 DEF users, Dropped1, Tables_1
    <2>3. MadeBy1(albums)
      BY TableOf1 DEF albums, Dropped1, Tables_1
    <2>4. MadeBy1(memories)
      BY TableOf1 DEF memories, Dropped1, Tables_1, Types1
    <2>5. MadeBy1(albums_cover)
      <3>1. PICK n : n = "fk_albums_cover_memory_id_memories"
        OBVIOUS
      <3>2. PICK u : u = {"memories"}
        OBVIOUS
      <3>3. PICK t : t = "albums"
        OBVIOUS
      <3>4. n \in Name /\ t \in Name /\ u \in SUBSET Name /\ {t} \union u \in SUBSET Name
        BY <3>1, <3>2, <3>3 DEF Name, Tables_1
      <3>5. n \in Dropped1 /\ t \in Names1 /\ n \in Names1
        BY <3>1, <3>3 DEF Names1, Dropped1, Tables_1
      <3>6. PICK o : o = Obj(n, t, {t} \union u)
        OBVIOUS
      <3>7. o.name = n /\ o.owner = t /\ o \in Object
        BY <3>4, <3>6, ObjIs
      <3>8. Add(n, t, u) = [make |-> {o}, drop |-> {}, lax |-> FALSE]
        BY <3>6 DEF Add
      <3>9. MadeBy1(Add(n, t, u))
        BY <3>5, <3>7, <3>8 DEF MadeBy1, Statement
      <3>10. QED
        BY <3>1, <3>2, <3>3, <3>9 DEF albums_cover
    <2>6. MadeBy1(rituals)
      BY TableOf1 DEF rituals, Dropped1, Tables_1
    <2>7. MadeBy1(ritual_entries)
      BY TableOf1 DEF ritual_entries, Dropped1, Tables_1, Types1
    <2>8. MadeBy1(letters)
      BY TableOf1 DEF letters, Dropped1, Tables_1, LeftNames
    <2>9. MadeBy1(special_dates)
      BY TableOf1 DEF special_dates, Dropped1, Tables_1
    <2>10. MadeBy1(surprises)
      BY TableOf1 DEF surprises, Dropped1, Tables_1, LeftNames
    <2>11. MadeBy1(watch_sessions)
      BY TableOf1 DEF watch_sessions, Dropped1, Tables_1
    <2>12. MadeBy1(refresh_tokens)
      BY TableOf1 DEF refresh_tokens, Dropped1, Tables_1
    <2>13. MadeBy1(night_sessions)
      BY TableOf1 DEF night_sessions, Dropped1, Tables_1, LeftNames
    <2>14. MadeBy1(audit_logs)
      BY TableOf1 DEF audit_logs, Dropped1, Tables_1
    <2>15. QED
      BY <2>1, <2>2, <2>3, <2>4, <2>5, <2>6, <2>7, <2>8, <2>9, <2>10, <2>11, <2>12,
         <2>13, <2>14
  <1>2. Statements(Upgrade_1) = U
    BY DEF Statements, Upgrade_1
  <1>3. U \subseteq Statement
    BY <1>1 DEF MadeBy1
  <1>4. Upgrade_1 \in Seq(U)
    BY DEF Upgrade_1
  <1>5. Upgrade_1 \in Seq(Statement)
    <2> HIDE DEF U
    <2>1. QED
      BY <1>3, <1>4
  <1>6. QED
    BY <1>1, <1>2, <1>5

MadeBy2(s) ==
    /\ s \in Statement /\ s.drop = {}
    /\ \A o \in s.make : /\ o.name \in Names_2 /\ o.owner \in Names_2 \union {"couples", "users"}
                         /\ o.name \in Types2 => o = Type(o.name)
    /\ s.lax => \E n \in Types2 : s.make = {Type(n)}

LEMMA TypeOf2 ==
  ASSUME NEW n \in Types2
  PROVE  MadeBy2(CreateType(n)) /\ Type(n) \in CreateType(n).make
  <1> DEFINE s == CreateType(n)
  <1>1. n \in Name /\ n \in Names_2
    BY NamesApart
  <1>2. s \in Statement /\ s.drop = {} /\ s.make = {Type(n)}
    BY <1>1, CreateTypeIs
  <1>3. Type(n).name = n /\ Type(n).owner = n
    BY <1>1, TypeIs
  <1> HIDE DEF s
  <1>4. MadeBy2(s) /\ Type(n) \in s.make
    <2>1. \A o \in s.make : o = Type(n)
      BY <1>2
    <2>2. QED
      BY <1>1, <1>2, <1>3, <2>1 DEF MadeBy2
  <1>5. QED
    BY <1>4 DEF s

LEMMA OwnersOf2 == "couples" \in Name /\ "users" \in Name
  BY DEF Name, Tables_1

LEMMA ColumnOf2 ==
  ASSUME NEW n \in Names_2 \ Types2, NEW t \in {"couples", "users"}, NEW u \in SUBSET Name
  PROVE  MadeBy2(Add(n, t, u))
  <1>0. PICK v : v = {t} \union u
    OBVIOUS
  <1>1. n \in Name /\ t \in Name /\ v \in SUBSET Name
    BY <1>0, NamesApart, OwnersOf2
  <1>2. PICK o : o = Obj(n, t, v)
    OBVIOUS
  <1>3. o.name = n /\ o.owner = t /\ o \in Object
    BY <1>1, <1>2, ObjIs
  <1>4. Add(n, t, u) = [make |-> {o}, drop |-> {}, lax |-> FALSE]
    BY <1>0, <1>2 DEF Add
  <1>5. QED
    BY <1>3, <1>4 DEF MadeBy2, Statement

LEMMA TableOf2 ==
  ASSUME NEW n \in Names_2 \ Types2, NEW u \in SUBSET Name
  PROVE  /\ MadeBy2(CreateTableOnly(n, u)) /\ CreateTableOnly(n, u).lax = FALSE
         /\ \E o \in CreateTableOnly(n, u).make : o.name = n /\ o.uses = u
  <1>1. n \in Name
    BY NamesApart
  <1>2. PICK o : o = Obj(n, n, u)
    OBVIOUS
  <1>3. o.name = n /\ o.owner = n /\ o.uses = u /\ o \in Object
    BY <1>1, <1>2, ObjIs
  <1>4. CreateTableOnly(n, u) = [make |-> {o}, drop |-> {}, lax |-> FALSE]
    BY <1>2 DEF CreateTableOnly
  <1>5. QED
    BY <1>3, <1>4 DEF MadeBy2, Statement

LEMMA Upgrade2Is ==
  /\ Upgrade_2 \in Seq(Statement)
  /\ \A s \in Statements(Upgrade_2) : MadeBy2(s)
  /\ \A n \in Types2 : CreateType(n) \in Statements(Upgrade_2)
  /\ \A n \in Types2 : \E s \in Statements(Upgrade_2) :
        s.lax = FALSE /\ \E o \in s.make : n \in o.uses
  /\ \E s \in Statements(Upgrade_2) :
        s.lax = FALSE /\ \E o \in s.make : o.name = "subscription_events"
  <1> DEFINE U == {CreateType("plantier"), CreateType("billinginterval"),
                   CreateType("subscriptionstatus"),
                   Add("couples.subscription_status", "couples", {"subscriptionstatus"}),
                   Add("couples.subscription_expires_at", "couples", {}),
                   Add("users.stripe_customer_id", "users", {}),
                   Add("uq_users_stripe_customer_id", "users", {"users.stripe_customer_id"}),
                   plans, subscriptions, subscription_events}
  <1>1. Types2 \subseteq Name /\ {"users.stripe_customer_id"} \subseteq Name
        /\ {"users"} \subseteq Name /\ {"subscriptionstatus", "users", "plans"} \subseteq Name
    <2>1. {"users.stripe_customer_id"} \subseteq Name /\ {"users"} \subseteq Name
          /\ {"subscriptionstatus", "users", "plans"} \subseteq Name
      BY OwnersOf2 DEF Name, Names_2
    <2>2. QED
      BY <2>1, NamesApart
  <1>2. {"couples.subscription_status", "couples.subscription_expires_at",
         "users.stripe_customer_id", "uq_users_stripe_customer_id",
         "plans", "subscriptions", "subscription_events"} \subseteq Names_2 \ Types2
    BY DEF Names_2, Types2
  <1>3. /\ MadeBy2(CreateType("plantier")) /\ MadeBy2(CreateType("billinginterval"))
        /\ MadeBy2(CreateType("subscriptionstatus"))
    BY TypeOf2 DEF Types2
  <1>4. MadeBy2(Add("couples.subscription_status", "couples", {"subscriptionstatus"}))
    BY <1>1, <1>2, ColumnOf2
  <1>5. MadeBy2(Add("couples.subscription_expires_at", "couples", {}))
    BY <1>2, ColumnOf2
  <1>6. MadeBy2(Add("users.stripe_customer_id", "users", {}))
    BY <1>2, ColumnOf2
  <1>7. MadeBy2(Add("uq_users_stripe_customer_id", "users", {"users.stripe_customer_id"}))
    BY <1>1, <1>2, ColumnOf2
  <1>8. /\ MadeBy2(plans) /\ plans.lax = FALSE
        /\ \E o \in plans.make : o.uses = {"plantier", "billinginterval"}
    <2>1. {"plantier", "billinginterval"} \in SUBSET Name /\ "plans" \in Names_2 \ Types2
      BY <1>1, <1>2 DEF Types2
    <2>2. PICK n, u : n = "plans" /\ u = {"plantier", "billinginterval"}
      OBVIOUS
    <2>3. /\ MadeBy2(CreateTableOnly(n, u)) /\ CreateTableOnly(n, u).lax = FALSE
          /\ \E o \in CreateTableOnly(n, u).make : o.name = n /\ o.uses = u
      <3>1. n \in Names_2 \ Types2 /\ u \in SUBSET Name
        BY <2>1, <2>2
      <3>2. QED
        BY <3>1, TableOf2, Zenon
    <2>4. plans = CreateTableOnly(n, u)
      BY <2>2 DEF plans
    <2>5. QED
      BY <2>2, <2>3, <2>4
  <1>9. /\ MadeBy2(subscriptions) /\ subscriptions.lax = FALSE
        /\ \E o \in subscriptions.make : o.uses = {"subscriptionstatus", "users", "plans"}
    <2>1. /\ {"subscriptionstatus", "users", "plans"} \in SUBSET Name
          /\ "subscriptions" \in Names_2 \ Types2
      BY <1>1, <1>2
    <2>2. PICK n, u : n = "subscriptions" /\ u = {"subscriptionstatus", "users", "plans"}
      OBVIOUS
    <2>3. /\ MadeBy2(CreateTableOnly(n, u)) /\ CreateTableOnly(n, u).lax = FALSE
          /\ \E o \in CreateTableOnly(n, u).make : o.name = n /\ o.uses = u
      <3>1. n \in Names_2 \ Types2 /\ u \in SUBSET Name
        BY <2>1, <2>2
      <3>2. QED
        BY <3>1, TableOf2, Zenon
    <2>4. subscriptions = CreateTableOnly(n, u)
      BY <2>2 DEF subscriptions
    <2>5. QED
      BY <2>2, <2>3, <2>4
  <1>10. /\ MadeBy2(subscription_events) /\ subscription_events.lax = FALSE
         /\ \E o \in subscription_events.make : o.name = "subscription_events"
    <2>1. {"users"} \in SUBSET Name /\ "subscription_events" \in Names_2 \ Types2
      BY <1>1, <1>2
    <2>2. PICK n, u : n = "subscription_events" /\ u = {"users"}
      OBVIOUS
    <2>3. /\ MadeBy2(CreateTableOnly(n, u)) /\ CreateTableOnly(n, u).lax = FALSE
          /\ \E o \in CreateTableOnly(n, u).make : o.name = n /\ o.uses = u
      <3>1. n \in Names_2 \ Types2 /\ u \in SUBSET Name
        BY <2>1, <2>2
      <3>2. QED
        BY <3>1, TableOf2, Zenon
    <2>4. subscription_events = CreateTableOnly(n, u)
      BY <2>2 DEF subscription_events
    <2>5. QED
      BY <2>2, <2>3, <2>4
  <1>11. \A s \in U : MadeBy2(s)
    BY <1>3, <1>4, <1>5, <1>6, <1>7, <1>8, <1>9, <1>10
  <1>12. \A s \in U : s \in Statement
    BY <1>11 DEF MadeBy2
  <1>13. /\ enum_types \in Seq(Statement)
         /\ Statements(enum_types) = {CreateType("plantier"), CreateType("billinginterval"),
                                      CreateType("subscriptionstatus")}
    <2>1. DOMAIN enum_types = 1..3
      BY DEF enum_types
    <2>2. QED
      BY <1>12, <2>1 DEF enum_types, Statements
  <1>14. /\ couples_columns \in Seq(Statement)
         /\ Statements(couples_columns) =
              {Add("couples.subscription_status", "couples", {"subscriptionstatus"}),
               Add("couples.subscription_expires_at", "couples", {})}
    BY <1>12 DEF couples_columns, Statements
  <1>15. /\ users_columns \in Seq(Statement)
         /\ Statements(users_columns) =
              {Add("users.stripe_customer_id", "users", {}),
               Add("uq_users_stripe_customer_id", "users", {"users.stripe_customer_id"})}
    BY <1>12 DEF users_columns, Statements
  <1>16. /\ <<plans, subscriptions, subscription_events>> \in Seq(Statement)
         /\ Statements(<<plans, subscriptions, subscription_events>>) =
              {plans, subscriptions, subscription_events}
    BY <1>12 DEF Statements
  <1>17. PICK e : e = enum_types \o couples_columns
    OBVIOUS
  <1>18. e \in Seq(Statement)
         /\ Statements(e) = Statements(enum_types) \union Statements(couples_columns)
    BY <1>13, <1>14, <1>17, JoinedIs
  <1>19. PICK f : f = e \o users_columns
    OBVIOUS
  <1>20. f \in Seq(Statement) /\ Statements(f) = Statements(e) \union Statements(users_columns)
    BY <1>15, <1>18, <1>19, JoinedIs
  <1>21. PICK g : g = <<plans, subscriptions, subscription_events>>
    OBVIOUS
  <1>22. g \in Seq(Statement) /\ Statements(g) = {plans, subscriptions, subscription_events}
    BY <1>16, <1>21
  <1>23. f \o g \in Seq(Statement) /\ Statements(f \o g) = Statements(f) \union Statements(g)
    BY <1>20, <1>22, JoinedIs
  <1>24. Upgrade_2 = f \o g
    BY <1>17, <1>19, <1>21 DEF Upgrade_2
  <1>25. Statements(Upgrade_2) = U
    BY <1>13, <1>14, <1>15, <1>18, <1>20, <1>22, <1>23, <1>24
  <1>26. \A n \in Types2 : \E s \in U : s.lax = FALSE /\ \E o \in s.make : n \in o.uses
    BY <1>8, <1>9 DEF Types2
  <1>27. \A n \in Types2 : CreateType(n) \in U
    BY DEF Types2
  <1>28. QED
    BY <1>10, <1>11, <1>23, <1>24, <1>25, <1>26, <1>27

LEMMA MadeWithTable ==
  ASSUME NEW t \in Name, NEW types \in SUBSET Name, NEW parents \in SUBSET Name
  PROVE  /\ \A n \in types : Type(n) \in CreateTable(t, types, parents).make
         /\ \E o \in CreateTable(t, types, parents).make : o.name = t
  <1>1. PICK u : u = types \union parents
    OBVIOUS
  <1>2. u \in SUBSET Name
    BY <1>1
  <1>3. PICK o : o = Obj(t, t, u)
    OBVIOUS
  <1>4. o.name = t
    BY <1>2, <1>3, ObjIs
  <1>5. CreateTable(t, types, parents).make = {o} \union {Type(n) : n \in types}
    BY <1>1, <1>3 DEF CreateTable
  <1>6. QED
    BY <1>4, <1>5

LEMMA Upgrade1Makes ==
  /\ \A n \in Types_1 : \E s \in Statements(Upgrade_1) : Type(n) \in s.make
  /\ \E s \in Statements(Upgrade_1) : \E o \in s.make : o.name = "couples"
  /\ \E s \in Statements(Upgrade_1) : \E o \in s.make : o.name = "audit_logs"
  <1>1. Tables_1 \subseteq Name /\ Types_1 \subseteq Name
    BY DEF Name
  <1>2. /\ Type("relationshipstatus") \in couples.make
        /\ \E o \in couples.make : o.name = "couples"
    <2>1. "couples" \in Name /\ {"relationshipstatus"} \in SUBSET Name
      BY <1>1 DEF Tables_1, Types_1
    <2>2. QED
      BY <2>1, MadeWithTable DEF couples
  <1>3. Type("memorycategory") \in memories.make
    <2>1. /\ "memories" \in Name /\ {"memorycategory"} \in SUBSET Name
          /\ {"albums", "users", "couples"} \in SUBSET Name
      BY <1>1 DEF Tables_1, Types_1
    <2>2. QED
      BY <2>1, MadeWithTable DEF memories
  <1>4. Type("ritualstatus") \in ritual_entries.make
    <2>1. /\ "ritual_entries" \in Name /\ {"ritualstatus"} \in SUBSET Name
          /\ {"rituals", "users"} \in SUBSET Name
      BY <1>1 DEF Tables_1, Types_1
    <2>2. QED
      BY <2>1, MadeWithTable DEF ritual_entries
  <1>5. {"couples", "users"} \in SUBSET Name
    BY <1>1 DEF Tables_1
  <1>6. Type("letterstatus") \in letters.make
    <2>1. "letters" \in Name /\ {"letterstatus"} \in SUBSET Name
      BY <1>1 DEF Tables_1, Types_1
    <2>2. QED
      BY <1>5, <2>1, MadeWithTable DEF letters
  <1>7. Type("surprisestatus") \in surprises.make
    <2>1. "surprises" \in Name /\ {"surprisestatus"} \in SUBSET Name
      BY <1>1 DEF Tables_1, Types_1
    <2>2. QED
      BY <1>5, <2>1, MadeWithTable DEF surprises
  <1>8. Type("nightsessionstatus") \in night_sessions.make
    <2>1. "night_sessions" \in Name /\ {"nightsessionstatus"} \in SUBSET Name
      BY <1>1 DEF Tables_1, Types_1
    <2>2. QED
      BY <1>5, <2>1, MadeWithTable DEF night_sessions
  <1>9. \E o \in audit_logs.make : o.name = "audit_logs"
    <2>1. "audit_logs" \in Name
      BY <1>1 DEF Tables_1
    <2>2. QED
      BY <2>1, MadeWithTable DEF audit_logs
  <1>10. {couples, memories, ritual_entries, letters, surprises, night_sessions, audit_logs}
           \subseteq Statements(Upgrade_1)
    BY Upgrade1Is
  <1>11. \A n \in Types_1 : \E s \in Statements(Upgrade_1) : Type(n) \in s.make
    BY <1>2, <1>3, <1>4, <1>6, <1>7, <1>8, <1>10 DEF Types_1
  <1>12. QED
    BY <1>2, <1>9, <1>10, <1>11

Removes(s) == s \in Statement /\ s.make = {}

LEMMA RemovedNames ==
  ASSUME NEW N \in SUBSET Name, NEW T \in SUBSET Name, NEW D,
         D = {Drop(n) : n \in N} \union {DropType(n) : n \in T}
  PROVE  /\ \A s \in D : Removes(s) /\ (s.lax => s.drop \subseteq T)
         /\ Drops(D) = N \union T
         /\ Makes(D) = {}
  <1>1. /\ \A n \in N : /\ Removes(Drop(n)) /\ Drop(n).lax = FALSE
                        /\ Drop(n).drop = {n} /\ Drop(n).make = {}
        /\ \A n \in T : /\ Removes(DropType(n)) /\ DropType(n).drop = {n}
                        /\ DropType(n).make = {}
    BY DropIs DEF Removes
  <1>2. \A s \in D : Removes(s) /\ (s.lax => s.drop \subseteq T)
    BY <1>1
  <1>3. Drops(D) = N \union T
    BY <1>1 DEF Drops
  <1>4. Makes(D) = {}
    BY <1>1 DEF Makes
  <1>5. QED
    BY <1>2, <1>3, <1>4

LEMMA Downgrade1Is ==
  /\ Downgrade_1 \in Seq(Statement) /\ Downgrade_1 # <<>>
  /\ Head(Downgrade_1) = Drop("audit_logs")
  /\ \A s \in Statements(Downgrade_1) : Removes(s) /\ (s.lax => s.drop \subseteq Types1)
  /\ Drops(Statements(Downgrade_1)) = Dropped1
  /\ Makes(Statements(Downgrade_1)) = {}
  <1>1. Statements(Downgrade_1) =
          {Drop(n) : n \in Tables_1} \union {DropType(n) : n \in Types1}
    BY DEF Statements, Downgrade_1, Tables_1, Types1
  <1>2. Tables_1 \in SUBSET Name /\ Types1 \in SUBSET Name
    BY NamesApart DEF Dropped1
  <1>3. PICK U : U = Statements(Downgrade_1)
    OBVIOUS
  <1>4. /\ \A s \in U : Removes(s) /\ (s.lax => s.drop \subseteq Types1)
        /\ Drops(U) = Dropped1 /\ Makes(U) = {}
    BY <1>1, <1>2, <1>3, RemovedNames DEF Dropped1
  <1>5. U \subseteq Statement
    BY <1>4 DEF Removes
  <1>6. Downgrade_1 \in Seq(U)
    BY <1>3 DEF Downgrade_1, Statements
  <1>7. Downgrade_1 \in Seq(Statement)
    BY <1>5, <1>6
  <1>8. Downgrade_1 # <<>> /\ Head(Downgrade_1) = Drop("audit_logs")
    BY DEF Downgrade_1
  <1>9. QED
    BY <1>3, <1>4, <1>7, <1>8

LEMMA Downgrade2Is ==
  /\ Downgrade_2 \in Seq(Statement) /\ Downgrade_2 # <<>>
  /\ Head(Downgrade_2) = Drop("subscription_events")
  /\ \A s \in Statements(Downgrade_2) : Removes(s) /\ (s.lax => s.drop \subseteq Types2)
  /\ Drops(Statements(Downgrade_2)) = Names_2
  /\ Makes(Statements(Downgrade_2)) = {}
  <1> DEFINE N == Names_2 \ Types2
  <1>1. N = {"couples.subscription_status", "couples.subscription_expires_at",
             "users.stripe_customer_id", "uq_users_stripe_customer_id",
             "plans", "subscriptions", "subscription_events"}
    BY DEF Names_2, Types2
  <1>2. N \union Types2 = Names_2 /\ N \in SUBSET Name /\ Types2 \in SUBSET Name
    BY NamesApart
  <1> HIDE DEF N
  <1>3. Statements(Downgrade_2) = {Drop(n) : n \in N} \union {DropType(n) : n \in Types2}
    BY <1>1 DEF Statements, Downgrade_2, Types2
  <1>4. PICK U : U = Statements(Downgrade_2)
    OBVIOUS
  <1>5. /\ \A s \in U : Removes(s) /\ (s.lax => s.drop \subseteq Types2)
        /\ Drops(U) = Names_2 /\ Makes(U) = {}
    BY <1>2, <1>3, <1>4, RemovedNames
  <1>6. U \subseteq Statement
    BY <1>5 DEF Removes
  <1>7. Downgrade_2 \in Seq(U)
    BY <1>4 DEF Downgrade_2, Statements
  <1>8. Downgrade_2 \in Seq(Statement)
    BY <1>6, <1>7
  <1>9. Downgrade_2 # <<>> /\ Head(Downgrade_2) = Drop("subscription_events")
    BY DEF Downgrade_2
  <1>10. QED
    BY <1>4, <1>5, <1>8, <1>9
-------------------------------------------------------------------------------
(***************************************************************************)
(* What the six commands execute.                                          *)
(***************************************************************************)
VersionObject == Obj("alembic_version", "alembic_version", {})

LEMMA VersionTableIs ==
  /\ VersionTable \in Statement /\ VersionTable.lax = TRUE /\ VersionTable.drop = {}
  /\ VersionTable.make = {VersionObject}
  /\ VersionObject \in Object /\ VersionObject.name = "alembic_version"
  /\ VersionObject.owner = "alembic_version" /\ VersionObject.uses = {}
  <1>1. PICK n : n = "alembic_version"
    OBVIOUS
  <1>2. n \in Name
    BY <1>1, NamesApart
  <1>3. PICK o : o = Obj(n, n, {})
    OBVIOUS
  <1>4. o \in Object /\ o.name = n /\ o.owner = n /\ o.uses = {}
    BY <1>2, <1>3, ObjIs
  <1>5. VersionTable = [make |-> {o}, drop |-> {}, lax |-> TRUE] /\ VersionObject = o
    BY <1>1, <1>3 DEF VersionTable, VersionObject
  <1>6. QED
    BY <1>1, <1>4, <1>5 DEF Statement

LEMMA RowIs ==
  ASSUME NEW n \in {1, 2}
  PROVE  /\ Row(n) \in Object /\ Row(n).name = Revision(n)
         /\ Row(n).owner = "alembic_version" /\ Row(n).uses = {"alembic_version"}
         /\ Revision(n) \in Rows /\ Revision(1) = "0001" /\ Revision(2) = "0002"
  <1>1. Revision(n) \in Rows /\ Revision(1) = "0001" /\ Revision(2) = "0002"
    BY DEF Revision, Rows
  <1>2. PICK r, w, u : r = Revision(n) /\ w = "alembic_version" /\ u = {w}
    OBVIOUS
  <1>3. r \in Name /\ w \in Name /\ u \in SUBSET Name
    BY <1>1, <1>2, NamesApart
  <1>4. Row(n) = Obj(r, w, u)
    BY <1>2 DEF Row
  <1>5. QED
    BY <1>1, <1>2, <1>3, <1>4, ObjIs

LEMMA StampIs ==
  ASSUME NEW from \in 0..2, NEW to \in 0..2, from # to
  PROVE  LET s == Stamp(from, to)
         IN  /\ s \in Statement /\ s.lax = FALSE
             /\ s.make = IF to = 0 THEN {} ELSE {Row(to)}
             /\ s.drop = IF from = 0 THEN {} ELSE {Revision(from)}
             /\ s.drop \intersect Names(s.make) = {}
  <1>1. PICK m, d : /\ m = IF to = 0 THEN {} ELSE {Row(to)}
                    /\ d = IF from = 0 THEN {} ELSE {Revision(from)}
    OBVIOUS
  <1>2. m \in SUBSET Object /\ d \in SUBSET Name
    BY <1>1, RowIs, NamesApart
  <1>3. d \intersect Names(m) = {}
    <2>1. SUFFICES ASSUME from # 0, to # 0
                   PROVE  Revision(from) # Row(to).name
      BY <1>1 DEF Names
    <2>2. Row(to).name = Revision(to)
      BY <2>1, RowIs
    <2>3. Revision(from) # Revision(to)
      BY <2>1 DEF Revision
    <2>4. QED
      BY <2>2, <2>3
  <1>4. Stamp(from, to) = [make |-> m, drop |-> d, lax |-> FALSE]
    BY <1>1 DEF Stamp
  <1>5. QED
    BY <1>1, <1>2, <1>3, <1>4 DEF Statement

LEMMA UpOrder ==
  ASSUME NEW q \in Seq(Statement), \A s \in Statements(q) : s.drop = {}
  PROVE  OrderOk(q) /\ Drops(Statements(q)) = {}
  BY DEF OrderOk, Statements, Drops

LEMMA DownOrder ==
  ASSUME NEW q \in Seq(Statement), \A s \in Statements(q) : s.make = {}
  PROVE  OrderOk(q)
  BY DEF OrderOk, Statements, Names

LEMMA HeadOfJoined ==
  ASSUME NEW a \in Seq(Statement), NEW b \in Seq(Statement), a # <<>>
  PROVE  a \o b # <<>> /\ Head(a \o b) = Head(a)
  <1>1. /\ Len(a) \in Nat /\ Len(b) \in Nat /\ Len(a) # 0
        /\ a \o b \in Seq(Statement) /\ Len(a \o b) = Len(a) + Len(b)
        /\ \A i \in 1..(Len(a) + Len(b)) : (a \o b)[i] = IF i <= Len(a) THEN a[i] ELSE b[i - Len(a)]
    BY ConcatProperties, EmptySeq
  <1>2. PICK c : c = a \o b
    OBVIOUS
  <1>3. 1 \in 1..(Len(a) + Len(b)) /\ 1 <= Len(a)
    BY <1>1
  <1>4. c[1] = a[1] /\ c \in Seq(Statement) /\ Len(c) # 0
    BY <1>1, <1>2, <1>3
  <1>5. c # <<>> /\ Head(c) = c[1] /\ Head(a) = a[1]
    BY <1>4
  <1>6. QED
    BY <1>2, <1>4, <1>5

\* The statements of a script that makes nothing it has dropped, and what they
\* make and drop.
Does(q, S, M, R) ==
    /\ q \in Seq(Statement) /\ OrderOk(q)
    /\ Statements(q) = S /\ Makes(S) = M /\ Drops(S) = R

LEMMA DoesJoined ==
  ASSUME NEW a, NEW S, NEW M, NEW R, Does(a, S, M, R),
         NEW b, NEW T, NEW N, NEW Q, Does(b, T, N, Q),
         R \intersect Names(N) = {}
  PROVE  Does(a \o b, S \union T, M \union N, R \union Q)
  <1>1. /\ a \in Seq(Statement) /\ OrderOk(a) /\ b \in Seq(Statement) /\ OrderOk(b)
        /\ Drops(Statements(a)) \intersect Names(Makes(Statements(b))) = {}
        /\ Statements(a) = S /\ Statements(b) = T
    BY DEF Does
  <1>2. /\ a \o b \in Seq(Statement) /\ OrderOk(a \o b)
        /\ Statements(a \o b) = S \union T
    BY <1>1, JoinedIs
  <1>3. Makes(S) = M /\ Makes(T) = N /\ Drops(S) = R /\ Drops(T) = Q
    BY DEF Does
  <1>4. Makes(S \union T) = M \union N /\ Drops(S \union T) = R \union Q
    BY <1>3, MakesOfTwo, DropsOfTwo
  <1>5. QED
    BY <1>2, <1>4 DEF Does

LEMMA DoesOne ==
  ASSUME NEW s \in Statement, s.drop \intersect Names(s.make) = {}
  PROVE  Does(<<s>>, {s}, s.make, s.drop)
  BY SingleIs, OfOne DEF Does

LEMMA NamesOfNone == Names({}) = {}
  BY DEF Names

Up1 == Statements(Upgrade_1)
Up2 == Statements(Upgrade_2)
Down1 == Statements(Downgrade_1)
Down2 == Statements(Downgrade_2)

LEMMA PartsAre ==
  /\ Does(Upgrade_1, Up1, Makes(Up1), {})
  /\ Does(Upgrade_2, Up2, Makes(Up2), {})
  /\ Does(Downgrade_1, Down1, {}, Dropped1)
  /\ Does(Downgrade_2, Down2, {}, Names_2)
  <1>1. \A s \in Up1 : s.drop = {}
    BY Upgrade1Is DEF MadeBy1, Up1
  <1>2. \A s \in Up2 : s.drop = {}
    BY Upgrade2Is DEF MadeBy2, Up2
  <1>3. Does(Upgrade_1, Up1, Makes(Up1), {})
    BY <1>1, Upgrade1Is, UpOrder DEF Does, Up1
  <1>4. Does(Upgrade_2, Up2, Makes(Up2), {})
    BY <1>2, Upgrade2Is, UpOrder DEF Does, Up2
  <1>5. \A s \in Down1 : s.make = {}
    BY Downgrade1Is DEF Removes, Down1
  <1>6. \A s \in Down2 : s.make = {}
    BY Downgrade2Is DEF Removes, Down2
  <1>7. Does(Downgrade_1, Down1, {}, Dropped1)
    BY <1>5, Downgrade1Is, DownOrder DEF Does, Down1
  <1>8. Does(Downgrade_2, Down2, {}, Names_2)
    BY <1>6, Downgrade2Is, DownOrder DEF Does, Down2
  <1>9. QED
    BY <1>3, <1>4, <1>7, <1>8

LEMMA StampsAre ==
  /\ Does(<<Stamp(0, 1)>>, {Stamp(0, 1)}, {Row(1)}, {})
  /\ Does(<<Stamp(1, 2)>>, {Stamp(1, 2)}, {Row(2)}, {"0001"})
  /\ Does(<<Stamp(2, 1)>>, {Stamp(2, 1)}, {Row(1)}, {"0002"})
  /\ Does(<<Stamp(1, 0)>>, {Stamp(1, 0)}, {}, {"0001"})
  /\ Does(<<VersionTable>>, {VersionTable}, {VersionObject}, {})
  <1>1. Revision(1) = "0001" /\ Revision(2) = "0002"
    BY DEF Revision
  <1>2. ASSUME NEW from \in 0..2, NEW to \in 0..2, from # to
        PROVE  Does(<<Stamp(from, to)>>, {Stamp(from, to)},
                    IF to = 0 THEN {} ELSE {Row(to)}, IF from = 0 THEN {} ELSE {Revision(from)})
    <2>1. PICK s, m, d : /\ s = Stamp(from, to)
                         /\ m = IF to = 0 THEN {} ELSE {Row(to)}
                         /\ d = IF from = 0 THEN {} ELSE {Revision(from)}
      OBVIOUS
    <2>2. s \in Statement /\ s.drop \intersect Names(s.make) = {} /\ s.make = m /\ s.drop = d
      BY <1>2, <2>1, StampIs
    <2>3. Does(<<s>>, {s}, m, d)
      BY <2>2, DoesOne
    <2>4. QED
      BY <2>1, <2>3
  <1>3. Does(<<VersionTable>>, {VersionTable}, {VersionObject}, {})
    <2>1. PICK s : s = VersionTable
      OBVIOUS
    <2>2. s \in Statement /\ s.drop \intersect Names(s.make) = {}
          /\ s.make = {VersionObject} /\ s.drop = {}
      BY <2>1, VersionTableIs
    <2>3. Does(<<s>>, {s}, s.make, s.drop)
      BY <2>2, DoesOne
    <2>4. QED
      BY <2>1, <2>2, <2>3
  <1>4. Does(<<Stamp(0, 1)>>, {Stamp(0, 1)}, {Row(1)}, {})
    BY <1>2
  <1>5. Does(<<Stamp(1, 2)>>, {Stamp(1, 2)}, {Row(2)}, {"0001"})
    BY <1>1, <1>2
  <1>6. Does(<<Stamp(2, 1)>>, {Stamp(2, 1)}, {Row(1)}, {"0002"})
    BY <1>1, <1>2
  <1>7. Does(<<Stamp(1, 0)>>, {Stamp(1, 0)}, {}, {"0001"})
    BY <1>1, <1>2
  <1>8. QED
    BY <1>3, <1>4, <1>5, <1>6, <1>7

LEMMA ScriptsUp ==
  /\ Does(Script(0, 1), {VersionTable} \union Up1 \union {Stamp(0, 1)},
          {VersionObject} \union Makes(Up1) \union {Row(1)}, {})
  /\ Does(Script(0, 2), {VersionTable} \union Up1 \union {Stamp(0, 1)} \union Up2
                          \union {Stamp(1, 2)},
          {VersionObject} \union Makes(Up1) \union {Row(1)} \union Makes(Up2) \union {Row(2)},
          {"0001"})
  /\ Does(Script(1, 2), Up2 \union {Stamp(1, 2)}, Makes(Up2) \union {Row(2)}, {"0001"})
  <1>1. PICK v, x, y : v = <<VersionTable>> /\ x = <<Stamp(0, 1)>> /\ y = <<Stamp(1, 2)>>
    OBVIOUS
  <1>2. PICK V, S, T, o, r, q, z, m, n : /\ V = {VersionTable} /\ S = {Stamp(0, 1)}
                                      /\ T = {Stamp(1, 2)} /\ o = {VersionObject}
                                      /\ r = {Row(1)} /\ q = {Row(2)} /\ z = {"0001"}
                                      /\ m = Makes(Up1) /\ n = Makes(Up2)
    OBVIOUS
  <1>3. /\ Does(v, V, o, {}) /\ Does(x, S, r, {}) /\ Does(y, T, q, z)
        /\ Does(Upgrade_1, Up1, m, {}) /\ Does(Upgrade_2, Up2, n, {})
    BY <1>1, <1>2, StampsAre, PartsAre
  <1>4. ASSUME NEW a, NEW A, NEW B, Does(a, A, B, {}),
               NEW b, NEW C, NEW D, NEW E, Does(b, C, D, E)
        PROVE  Does(a \o b, A \union C, B \union D, E)
    <2>1. {} \intersect Names(D) = {} /\ {} \union E = E
      OBVIOUS
    <2>2. Does(a \o b, A \union C, B \union D, {} \union E)
      BY <1>4, <2>1, DoesJoined
    <2>3. QED
      BY <2>1, <2>2
  <1>5. Does(v \o Upgrade_1, V \union Up1, o \union m, {})
    BY <1>3, <1>4
  <1>6. Does(v \o Upgrade_1 \o x, V \union Up1 \union S, o \union m \union r, {})
    BY <1>3, <1>4, <1>5
  <1>7. Does(v \o Upgrade_1 \o x \o Upgrade_2, V \union Up1 \union S \union Up2,
             o \union m \union r \union n, {})
    BY <1>3, <1>4, <1>6
  <1>8. Does(v \o Upgrade_1 \o x \o Upgrade_2 \o y, V \union Up1 \union S \union Up2 \union T,
             o \union m \union r \union n \union q, z)
    BY <1>3, <1>4, <1>7
  <1>9. Does(Upgrade_2 \o y, Up2 \union T, n \union q, z)
    BY <1>3, <1>4
  <1>10. /\ Script(0, 1) = v \o Upgrade_1 \o x
         /\ Script(0, 2) = v \o Upgrade_1 \o x \o Upgrade_2 \o y
         /\ Script(1, 2) = Upgrade_2 \o y
    BY <1>1 DEF Script
  <1>11. QED
    BY <1>2, <1>6, <1>8, <1>9, <1>10

LEMMA ScriptsDown ==
  /\ Does(Script(2, 1), Down2 \union {Stamp(2, 1)}, {Row(1)}, Names_2 \union {"0002"})
  /\ Does(Script(2, 0), Down2 \union {Stamp(2, 1)} \union Down1 \union {Stamp(1, 0)},
          {Row(1)}, Names_2 \union {"0002"} \union Dropped1 \union {"0001"})
  /\ Does(Script(1, 0), Down1 \union {Stamp(1, 0)}, {}, Dropped1 \union {"0001"})
  <1>1. PICK x, y : x = <<Stamp(2, 1)>> /\ y = <<Stamp(1, 0)>>
    OBVIOUS
  <1>2. PICK S, T, r, z, w : /\ S = {Stamp(2, 1)} /\ T = {Stamp(1, 0)} /\ r = {Row(1)}
                             /\ z = {"0001"} /\ w = {"0002"}
    OBVIOUS
  <1>3. /\ Does(x, S, r, w) /\ Does(y, T, {}, z)
        /\ Does(Downgrade_1, Down1, {}, Dropped1) /\ Does(Downgrade_2, Down2, {}, Names_2)
    BY <1>1, <1>2, StampsAre, PartsAre
  <1>4. Names_2 \intersect Names(r) = {}
    BY <1>2, RowIs, NamesApart DEF Names
  <1>5. ASSUME NEW a, NEW A, NEW B, NEW F, Does(a, A, B, F),
               NEW b, NEW C, NEW E, Does(b, C, {}, E)
        PROVE  Does(a \o b, A \union C, B, F \union E)
    <2>1. F \intersect Names({}) = {} /\ B \union {} = B
      BY NamesOfNone
    <2>2. Does(a \o b, A \union C, B \union {}, F \union E)
      BY <1>5, <2>1, DoesJoined
    <2>3. QED
      BY <2>1, <2>2
  <1>6. Does(Downgrade_2 \o x, Down2 \union S, r, Names_2 \union w)
    <2>1. Does(Downgrade_2 \o x, Down2 \union S, {} \union r, Names_2 \union w)
      BY <1>3, <1>4, DoesJoined
    <2>2. {} \union r = r
      OBVIOUS
    <2>3. QED
      BY <2>1, <2>2
  <1>7. Does(Downgrade_2 \o x \o Downgrade_1, Down2 \union S \union Down1, r,
             Names_2 \union w \union Dropped1)
    BY <1>3, <1>5, <1>6
  <1>8. Does(Downgrade_2 \o x \o Downgrade_1 \o y, Down2 \union S \union Down1 \union T, r,
             Names_2 \union w \union Dropped1 \union z)
    BY <1>3, <1>5, <1>7
  <1>9. Does(Downgrade_1 \o y, Down1 \union T, {}, Dropped1 \union z)
    BY <1>3, <1>5
  <1>10. /\ Script(2, 1) = Downgrade_2 \o x
         /\ Script(2, 0) = Downgrade_2 \o x \o Downgrade_1 \o y
         /\ Script(1, 0) = Downgrade_1 \o y
    BY <1>1 DEF Script
  <1>11. QED
    BY <1>2, <1>6, <1>8, <1>9, <1>10

\* A downgrade begins with the table that its newest revision created last.
LEMMA DowngradesBegin ==
  /\ Script(2, 1) # <<>> /\ Head(Script(2, 1)) = Drop("subscription_events")
  /\ Script(2, 0) # <<>> /\ Head(Script(2, 0)) = Drop("subscription_events")
  /\ Script(1, 0) # <<>> /\ Head(Script(1, 0)) = Drop("audit_logs")
  <1>1. PICK x, y, a, b : /\ x = <<Stamp(2, 1)>> /\ y = <<Stamp(1, 0)>>
                          /\ a = Downgrade_2 \o x /\ b = Downgrade_2 \o x \o Downgrade_1
    OBVIOUS
  <1>2. b = a \o Downgrade_1
    BY <1>1
  <1>3. /\ x \in Seq(Statement) /\ y \in Seq(Statement)
        /\ Downgrade_1 \in Seq(Statement) /\ Downgrade_2 \in Seq(Statement)
    BY <1>1, StampsAre, PartsAre DEF Does
  <1>4. a \in Seq(Statement) /\ b \in Seq(Statement)
    <2>1. a \in Seq(Statement)
      BY <1>1, <1>3, JoinedIs
    <2>2. QED
      BY <1>2, <1>3, <2>1, JoinedIs
  <1>5. a # <<>> /\ Head(a) = Drop("subscription_events")
    BY <1>1, <1>3, HeadOfJoined, Downgrade2Is
  <1>6. b # <<>> /\ Head(b) = Drop("subscription_events")
    BY <1>2, <1>3, <1>4, <1>5, HeadOfJoined
  <1>7. b \o y # <<>> /\ Head(b \o y) = Drop("subscription_events")
    BY <1>3, <1>4, <1>6, HeadOfJoined
  <1>8. Downgrade_1 \o y # <<>> /\ Head(Downgrade_1 \o y) = Drop("audit_logs")
    BY <1>3, HeadOfJoined, Downgrade1Is
  <1>9. Script(2, 1) = a /\ Script(2, 0) = b \o y /\ Script(1, 0) = Downgrade_1 \o y
    BY <1>1 DEF Script
  <1>10. QED
    BY <1>5, <1>6, <1>7, <1>8, <1>9
-------------------------------------------------------------------------------
(***************************************************************************)
(* The catalogs that may be committed.                                     *)
(***************************************************************************)
\* What the statements of D that do not look first make.
Firm(D) == UNION {s.make : s \in {x \in D : ~x.lax}}

LEMMA MakesUp1 ==
  /\ \A o \in Makes(Up1) : /\ o \in Object /\ o.name \in Names1 /\ o.owner \in Names1
                           /\ o.name \in Dropped1 \/ o \in Left
  /\ Left \subseteq Makes(Up1)
  /\ \A n \in Types1 : \E o \in Makes(Up1) : o.name = n
  /\ \E o \in Makes(Up1) : o.name = "couples"
  /\ \E o \in Makes(Up1) : o.name = "audit_logs"
  /\ \A D : Up1 \subseteq D => Makes(Up1) \subseteq Firm(D)
  <1>1. \A s \in Up1 : MadeBy1(s)
    BY Upgrade1Is DEF Up1
  <1>2. \A s \in Up1 : s.make \subseteq Object /\ s.lax = FALSE
    BY <1>1 DEF MadeBy1, Statement
  <1>3. \A o \in Makes(Up1) : /\ o \in Object /\ o.name \in Names1 /\ o.owner \in Names1
                              /\ o.name \in Dropped1 \/ o \in Left
    BY <1>1, <1>2 DEF Makes, MadeBy1
  <1>4. \A n \in Types_1 : Type(n) \in Makes(Up1)
    BY Upgrade1Makes DEF Makes, Up1
  <1>5. Left \subseteq Makes(Up1)
    BY <1>4 DEF Left, Types_1
  <1>6. \A n \in Types1 : \E o \in Makes(Up1) : o.name = n
    <2>1. \A n \in Types1 : n \in Types_1 /\ n \in Name
      BY NamesApart DEF Types1, Types_1
    <2>2. QED
      BY <1>4, <2>1, TypeIs
  <1>7. /\ \E o \in Makes(Up1) : o.name = "couples"
        /\ \E o \in Makes(Up1) : o.name = "audit_logs"
    BY Upgrade1Makes DEF Makes, Up1
  <1>8. \A D : Up1 \subseteq D => Makes(Up1) \subseteq Firm(D)
    BY <1>2 DEF Makes, Firm
  <1>9. QED
    BY <1>3, <1>5, <1>6, <1>7, <1>8

LEMMA MakesUp2 ==
  /\ \A o \in Makes(Up2) : /\ o \in Object /\ o.name \in Names_2
                           /\ o.owner \in Names_2 \union {"couples", "users"}
                           /\ o.name \in Types2 => o = Type(o.name)
  /\ \A n \in Types2 : Type(n) \in Makes(Up2) /\ Type(n).name = n
  /\ \E o \in Makes(Up2) : o.name = "subscription_events"
  /\ \A D : Up2 \subseteq D => /\ \A o \in Makes(Up2) : o \in Firm(D) \/ o.name \in Types2
                               /\ \A n \in Types2 : \E o \in Firm(D) : n \in o.uses
  <1>1. \A s \in Up2 : MadeBy2(s)
    BY Upgrade2Is DEF Up2
  <1>2. \A s \in Up2 : s.make \subseteq Object /\ s.lax \in BOOLEAN
    BY <1>1 DEF MadeBy2, Statement
  <1>3. \A o \in Makes(Up2) : /\ o \in Object /\ o.name \in Names_2
                              /\ o.owner \in Names_2 \union {"couples", "users"}
                              /\ o.name \in Types2 => o = Type(o.name)
    BY <1>1, <1>2 DEF Makes, MadeBy2
  <1>4. \A n \in Types2 : Type(n) \in Makes(Up2) /\ Type(n).name = n
    <2>1. \A n \in Types2 : CreateType(n) \in Up2 /\ n \in Name
      BY Upgrade2Is, NamesApart DEF Up2
    <2>2. \A n \in Types2 : Type(n) \in CreateType(n).make
      BY TypeOf2
    <2>3. QED
      BY <2>1, <2>2, TypeIs DEF Makes
  <1>5. \E o \in Makes(Up2) : o.name = "subscription_events"
    BY Upgrade2Is DEF Makes, Up2
  <1>6. ASSUME NEW D, Up2 \subseteq D
        PROVE  /\ \A o \in Makes(Up2) : o \in Firm(D) \/ o.name \in Types2
               /\ \A n \in Types2 : \E o \in Firm(D) : n \in o.uses
    <2>1. \A n \in Types2 : \E s \in Up2 : s.lax = FALSE /\ \E o \in s.make : n \in o.uses
      BY Upgrade2Is DEF Up2
    <2>2. \A n \in Types2 : \E o \in Firm(D) : n \in o.uses
      BY <1>6, <2>1 DEF Firm
    <2>3. ASSUME NEW s \in Up2, NEW o \in s.make
          PROVE  o \in Firm(D) \/ o.name \in Types2
      <3>1. CASE s.lax
        <4>1. PICK n \in Types2 : s.make = {Type(n)}
          BY <1>1, <3>1 DEF MadeBy2
        <4>2. o.name = n
          BY <1>4, <4>1
        <4>3. QED
          BY <4>2
      <3>2. CASE ~s.lax
        BY <1>6, <3>2 DEF Firm
      <3>3. QED
        BY <3>1, <3>2
    <2>4. QED
      BY <2>2, <2>3 DEF Makes
  <1>7. QED
    BY <1>3, <1>4, <1>5, <1>6

LEMMA LeftIs == \A o \in Left : o \in Object /\ o.name \in LeftNames
  <1>1. LeftNames \subseteq Name
    BY NamesApart
  <1>2. \A n \in LeftNames : Type(n) \in Object /\ Type(n).name = n
    BY <1>1, TypeIs
  <1>3. Left = {Type(n) : n \in LeftNames}
    BY DEF Left, LeftNames
  <1>4. QED
    BY <1>2, <1>3

LEMMA RowsAre ==
  /\ Row(1) \in Object /\ Row(1).name = "0001" /\ Row(1).owner = "alembic_version"
  /\ Row(2) \in Object /\ Row(2).name = "0002" /\ Row(2).owner = "alembic_version"
  /\ Row(1).uses = {"alembic_version"} /\ Row(2).uses = {"alembic_version"}
  BY RowIs

LEMMA SchemaIs ==
  /\ Made(<<VersionTable>>) = {VersionObject}
  /\ Schema(1) = {VersionObject} \union Makes(Up1) \union {Row(1)}
  /\ Schema(2) = {VersionObject} \union Makes(Up1) \union Makes(Up2) \union {Row(2)}
  <1>1. \A q : Made(q) = Makes(Statements(q))
    BY DEF Made, Makes, Statements
  <1>2. Made(<<VersionTable>>) = {VersionObject}
    BY <1>1, StampsAre DEF Does
  <1>3. Made(Script(0, 1)) = {VersionObject} \union Makes(Up1) \union {Row(1)}
    BY <1>1, ScriptsUp DEF Does
  <1>4. Made(Script(0, 2)) = {VersionObject} \union Makes(Up1) \union {Row(1)} \union Makes(Up2)
                               \union {Row(2)}
    BY <1>1, ScriptsUp DEF Does
  <1>5. VersionObject # Row(1) /\ Row(2) # Row(1)
    BY VersionTableIs, RowsAre
  <1>6. Row(1) \notin Makes(Up1) /\ Row(1) \notin Makes(Up2)
    <2>1. "0001" \notin Names1 /\ "0001" \notin Names_2
      BY NamesApart DEF Rows
    <2>2. QED
      BY <2>1, MakesUp1, MakesUp2, RowsAre
  <1>7. QED
    BY <1>2, <1>3, <1>4, <1>5, <1>6 DEF Schema

\* The empty schema, which may keep three types.
Empty(cat) == cat \subseteq {VersionObject} \union Left

CatalogOk(cat) == Empty(cat) \/ cat = Schema(1) \/ cat = Schema(2)

\* Which names tell the catalogs apart.
LEMMA CatalogNames ==
  ASSUME NEW cat, CatalogOk(cat)
  PROVE  /\ cat \subseteq Object
         /\ "0001" \in Names(cat) <=> cat = Schema(1)
         /\ "0002" \in Names(cat) <=> cat = Schema(2)
         /\ "subscription_events" \in Names(cat) <=> cat = Schema(2)
         /\ "couples" \in Names(cat) <=> ~Empty(cat)
         /\ "audit_logs" \in Names(cat) <=> ~Empty(cat)
         /\ Empty(cat) => cat # Schema(1) /\ cat # Schema(2)
         /\ ~Empty(cat) => Types1 \subseteq Names(cat)
         /\ cat = Schema(2) => Types2 \subseteq Names(cat)
  <1> DEFINE V == VersionObject
  <1>1. V.name = "alembic_version" /\ V \in Object
    BY VersionTableIs
  <1>2. PICK m1, m2 : m1 = Makes(Up1) /\ m2 = Makes(Up2)
    OBVIOUS
  <1>3. /\ \A o \in m1 : o \in Object /\ o.name \in Names1
        /\ \A o \in m2 : o \in Object /\ o.name \in Names_2
        /\ \A o \in Left : o \in Object /\ o.name \in LeftNames
        /\ \E o \in m1 : o.name = "couples"
        /\ \E o \in m1 : o.name = "audit_logs"
        /\ \E o \in m2 : o.name = "subscription_events"
        /\ \A n \in Types1 : \E o \in m1 : o.name = n
        /\ \A n \in Types2 : \E o \in m2 : o.name = n
    BY <1>2, MakesUp1, MakesUp2, LeftIs
  <1>4. PICK r1, r2 : r1 = Row(1) /\ r2 = Row(2)
    OBVIOUS
  <1>5. r1 \in Object /\ r1.name = "0001" /\ r2 \in Object /\ r2.name = "0002"
    BY <1>4, RowsAre
  <1>6. Schema(1) = {V} \union m1 \union {r1} /\ Schema(2) = {V} \union m1 \union m2 \union {r2}
    BY <1>2, <1>4, SchemaIs
  <1>7. /\ "0001" \notin Names1 /\ "0001" \notin Names_2 /\ "0001" \notin LeftNames
        /\ "0002" \notin Names1 /\ "0002" \notin Names_2 /\ "0002" \notin LeftNames
        /\ "subscription_events" \notin Names1 /\ "subscription_events" \notin LeftNames
        /\ "couples" \notin LeftNames /\ "audit_logs" \notin LeftNames
    <2>1. "subscription_events" \in Names_2 /\ "0001" \in Rows /\ "0002" \in Rows
      BY DEF Names_2, Rows
    <2>2. "couples" \notin LeftNames /\ "audit_logs" \notin LeftNames
      BY DEF LeftNames
    <2>3. QED
      BY <2>1, <2>2, NamesApart
  <1> HIDE DEF V
  <1>8. CASE Empty(cat)
    <2>1. \A o \in cat : o \in Object /\ (o.name = "alembic_version" \/ o.name \in LeftNames)
      BY <1>1, <1>3, <1>8 DEF Empty, V
    <2>2. /\ "0001" \notin Names(cat) /\ "0002" \notin Names(cat) /\ "couples" \notin Names(cat)
          /\ "audit_logs" \notin Names(cat) /\ "subscription_events" \notin Names(cat)
      BY <1>7, <2>1 DEF Names
    <2>3. "0001" \in Names(Schema(1)) /\ "0002" \in Names(Schema(2))
      BY <1>5, <1>6 DEF Names
    <2>4. QED
      BY <1>8, <2>1, <2>2, <2>3
  <1>9. CASE cat = Schema(1)
    <2>1. \A o \in cat : o \in Object /\ (\/ o.name = "alembic_version" \/ o.name \in Names1
                                          \/ o.name = "0001")
      BY <1>1, <1>3, <1>5, <1>6, <1>9
    <2>2. "0002" \notin Names(cat) /\ "subscription_events" \notin Names(cat)
      BY <1>7, <2>1 DEF Names
    <2>3. /\ "0001" \in Names(cat) /\ "couples" \in Names(cat) /\ "audit_logs" \in Names(cat)
          /\ Types1 \subseteq Names(cat)
      BY <1>3, <1>5, <1>6, <1>9 DEF Names
    <2>4. "0002" \in Names(Schema(2))
      BY <1>5, <1>6 DEF Names
    <2>5. ~Empty(cat)
      <3>1. r1 \in cat /\ r1 # V /\ r1 \notin Left
        BY <1>1, <1>3, <1>5, <1>6, <1>7, <1>9
      <3>2. QED
        BY <3>1 DEF Empty, V
    <2>6. QED
      BY <1>9, <2>1, <2>2, <2>3, <2>4, <2>5
  <1>10. CASE cat = Schema(2)
    <2>1. \A o \in cat : o \in Object /\ (\/ o.name = "alembic_version" \/ o.name \in Names1
                                          \/ o.name \in Names_2 \/ o.name = "0002")
      BY <1>1, <1>3, <1>5, <1>6, <1>10
    <2>2. "0001" \notin Names(cat)
      BY <1>7, <2>1 DEF Names
    <2>3. /\ "0002" \in Names(cat) /\ "couples" \in Names(cat) /\ "audit_logs" \in Names(cat)
          /\ "subscription_events" \in Names(cat)
          /\ Types1 \subseteq Names(cat) /\ Types2 \subseteq Names(cat)
      BY <1>3, <1>5, <1>6, <1>10 DEF Names
    <2>4. "0001" \in Names(Schema(1))
      BY <1>5, <1>6 DEF Names
    <2>5. ~Empty(cat)
      <3>1. r2 \in cat /\ r2 # V /\ r2 \notin Left
        BY <1>1, <1>3, <1>5, <1>6, <1>7, <1>10
      <3>2. QED
        BY <3>1 DEF Empty, V
    <2>6. QED
      BY <1>10, <2>1, <2>2, <2>3, <2>4, <2>5
  <1>11. QED
    BY <1>8, <1>9, <1>10 DEF CatalogOk
-------------------------------------------------------------------------------
(***************************************************************************)
(* A command that has executed its whole script commits the catalog of its *)
(* revision.                                                               *)
(***************************************************************************)
\* What a command sees, its transaction being r.
Sees(cat, r) == (cat \ r.gone) \union r.made

\* What the transaction r has done when it has executed the statements of D.
Did(cat, r, D) ==
    /\ r.made \subseteq Makes(D)
    /\ \A o \in r.gone : o.name \in Drops(D) \/ o.owner \in Drops(D)
    /\ r.gone \subseteq cat \union Makes(D)
    /\ Drops(D) \subseteq Names(r.gone)
    /\ Drops(D) \intersect Names(Sees(cat, r)) = {}
    /\ \A o \in Firm(D) : /\ o \in r.made \union r.gone
                          /\ o.uses \subseteq r.locks
                          /\ o.uses \subseteq Names(Sees(cat, r)) \union Names(r.gone)

\* What it made has the name of no committed object, unless it has removed that one.
Shadows(cat, r) == \A o \in r.made, c \in cat : c.name = o.name => c \in r.gone

\* The same for a whole script, by the sets of objects.
Whole(cat, V, G, M, S, Mk, Dr) ==
    /\ V = (cat \ G) \union M /\ M \subseteq Mk /\ G \subseteq cat \union Mk
    /\ \A o \in G : o.name \in Dr \/ o.owner \in Dr
    /\ \A n \in Dr : \E o \in G : o.name = n
    /\ \A o \in V : o.name \notin Dr
    /\ \A o \in Firm(S) : /\ o \in M \union G
                          /\ \A u \in o.uses : \E x \in V \union G : x.name = u
    /\ \A o \in M, c \in cat : c.name = o.name => c \in G

LEMMA WholeIs ==
  ASSUME NEW cat, NEW r, NEW q, NEW S, NEW Mk, NEW Dr,
         Does(q, S, Mk, Dr), Did(cat, r, Statements(q)), Shadows(cat, r)
  PROVE  Whole(cat, Sees(cat, r), r.gone, r.made, S, Mk, Dr)
  <1>1. Statements(q) = S /\ Makes(S) = Mk /\ Drops(S) = Dr
    BY DEF Does
  <1>2. PICK V : V = Sees(cat, r)
    OBVIOUS
  <1>3. /\ r.made \subseteq Mk /\ r.gone \subseteq cat \union Mk
        /\ \A o \in r.gone : o.name \in Dr \/ o.owner \in Dr
        /\ Dr \subseteq Names(r.gone) /\ Dr \intersect Names(V) = {}
        /\ \A o \in Firm(S) : /\ o \in r.made \union r.gone
                              /\ o.uses \subseteq Names(V) \union Names(r.gone)
    BY <1>1, <1>2 DEF Did
  <1>4. \A n \in Dr : \E o \in r.gone : o.name = n
    BY <1>3 DEF Names
  <1>5. \A o \in V : o.name \notin Dr
    BY <1>3 DEF Names
  <1>6. \A o \in Firm(S) : \A u \in o.uses : \E x \in V \union r.gone : x.name = u
    BY <1>3 DEF Names
  <1>7. V = (cat \ r.gone) \union r.made
    BY <1>2 DEF Sees
  <1>8. QED
    BY <1>2, <1>3, <1>4, <1>5, <1>6, <1>7 DEF Whole, Shadows

\* Nothing is part of a row of the version table.
LEMMA OwnersAre ==
  ASSUME NEW cat, CatalogOk(cat),
         NEW o \in cat \union {VersionObject} \union Makes(Up1) \union Makes(Up2)
                       \union {Row(1), Row(2)}
  PROVE  o.owner \notin Rows
  <1>1. PICK m1, m2, v, r1, r2 : /\ m1 = Makes(Up1) /\ m2 = Makes(Up2) /\ v = VersionObject
                                 /\ r1 = Row(1) /\ r2 = Row(2)
    OBVIOUS
  <1>2. Left \subseteq m1 /\ \A x \in m1 : x.owner \in Names1
    BY <1>1, MakesUp1
  <1>3. \A x \in m2 : x.owner \in Names_2 \union {"couples", "users"}
    BY <1>1, MakesUp2
  <1>4. {"couples", "users"} \subseteq Names1
    BY DEF Names1, Tables_1
  <1>5. cat \subseteq {v} \union m1 \union m2 \union {r1, r2}
    BY <1>1, <1>2, SchemaIs DEF CatalogOk, Empty
  <1>6. v.owner = "alembic_version" /\ r1.owner = "alembic_version" /\ r2.owner = "alembic_version"
    BY <1>1, VersionTableIs, RowsAre
  <1>7. o \in {v} \union m1 \union m2 \union {r1, r2}
    BY <1>1, <1>5
  <1>8. o.owner \in Names1 \union Names_2 \union {"alembic_version"}
    BY <1>2, <1>3, <1>4, <1>6, <1>7
  <1>9. QED
    BY <1>8, NamesApart

\* An upgrade from the empty schema has found it empty.
LEMMA FoundEmpty ==
  ASSUME NEW cat, CatalogOk(cat), NEW V, NEW G, NEW M, NEW S, NEW Mk, NEW Dr,
         Whole(cat, V, G, M, S, Mk, Dr), Up1 \subseteq S, Dr \subseteq Rows,
         Mk \subseteq {VersionObject} \union Makes(Up1) \union Makes(Up2) \union {Row(1), Row(2)}
  PROVE  Empty(cat) /\ (\A o \in G : o.name \in Dr) /\ Makes(Up1) \subseteq M
  <1>1. \A o \in G : o.name \in Dr
    <2>1. \A o \in G : o.owner \notin Rows
      BY OwnersAre DEF Whole
    <2>2. QED
      BY <2>1 DEF Whole
  <1>2. Makes(Up1) \subseteq M
    <2>1. Makes(Up1) \subseteq M \union G
      BY MakesUp1 DEF Whole
    <2>2. \A o \in Makes(Up1) : o.name \notin Rows
      BY MakesUp1, NamesApart
    <2>3. QED
      BY <1>1, <2>1, <2>2
  <1>3. ASSUME ~Empty(cat)
        PROVE  FALSE
    <2>1. PICK o \in Makes(Up1) : o.name = "couples"
      BY MakesUp1
    <2>2. "couples" \in Names(cat)
      BY <1>3, CatalogNames
    <2>3. PICK c \in cat : c.name = "couples"
      BY <2>2 DEF Names
    <2>4. o \in M
      BY <1>2, <2>1
    <2>5. c \in G
      BY <2>1, <2>3, <2>4 DEF Whole
    <2>6. "couples" \notin Rows
      BY DEF Rows
    <2>7. QED
      BY <1>1, <2>3, <2>5, <2>6
  <1>4. QED
    BY <1>1, <1>2, <1>3

LEMMA RowIsFirm ==
  ASSUME NEW D
  PROVE  /\ Stamp(0, 1) \in D => Row(1) \in Firm(D)
         /\ Stamp(1, 2) \in D => Row(2) \in Firm(D)
         /\ Stamp(2, 1) \in D => Row(1) \in Firm(D)
  <1>1. ASSUME NEW from \in 0..2, NEW to \in 1..2, from # to, Stamp(from, to) \in D
        PROVE  Row(to) \in Firm(D)
    <2>1. PICK s : s = Stamp(from, to)
      OBVIOUS
    <2>2. s.lax = FALSE /\ s.make = {Row(to)} /\ s \in D
      <3>1. s.lax = FALSE /\ s.make = IF to = 0 THEN {} ELSE {Row(to)}
        BY <1>1, <2>1 DEF Stamp
      <3>2. QED
        BY <1>1, <2>1, <3>1
    <2>3. QED
      BY <2>2 DEF Firm
  <1>2. QED
    BY <1>1

LEMMA Finished01 ==
  ASSUME NEW cat, CatalogOk(cat), NEW V, NEW G, NEW M,
         Whole(cat, V, G, M, {VersionTable} \union Up1 \union {Stamp(0, 1)},
               {VersionObject} \union Makes(Up1) \union {Row(1)}, {})
  PROVE  V = Schema(1)
  <1>1. PICK S, Mk, r, v, m : /\ S = {VersionTable} \union Up1 \union {Stamp(0, 1)}
                              /\ Mk = {VersionObject} \union Makes(Up1) \union {Row(1)}
                              /\ r = Row(1) /\ v = VersionObject /\ m = Makes(Up1)
    OBVIOUS
  <1>2. Whole(cat, V, G, M, S, Mk, {})
    BY <1>1
  <1>3. Empty(cat) /\ (\A o \in G : o.name \in {}) /\ m \subseteq M
    <2>1. /\ Up1 \subseteq S /\ {} \subseteq Rows
          /\ Mk \subseteq {VersionObject} \union Makes(Up1) \union Makes(Up2) \union {Row(1), Row(2)}
      BY <1>1
    <2>2. QED
      BY <1>1, <1>2, <2>1, FoundEmpty
  <1>4. G = {}
    BY <1>3
  <1>5. r \in M /\ r.name = "0001" /\ r.uses = {"alembic_version"}
    <2>1. r \in Firm(S)
      BY <1>1, RowIsFirm
    <2>2. QED
      BY <1>1, <1>2, <1>4, <2>1, RowsAre DEF Whole
  <1>6. cat \subseteq {v} \union m
    BY <1>1, <1>3, MakesUp1 DEF Empty
  <1>7. V \subseteq {v} \union m \union {r}
    BY <1>1, <1>2, <1>6 DEF Whole
  <1>8. v \in V
    <2>1. r \in Firm(S)
      BY <1>1, RowIsFirm
    <2>2. PICK x \in V : x.name = "alembic_version"
      BY <1>2, <1>4, <1>5, <2>1 DEF Whole
    <2>3. "alembic_version" \notin Names1 /\ "alembic_version" # "0001"
      BY NamesApart
    <2>4. x \notin m /\ x # r
      BY <1>1, <1>5, <2>2, <2>3, MakesUp1
    <2>5. QED
      BY <1>7, <2>2, <2>4
  <1>9. m \subseteq V /\ r \in V
    BY <1>2, <1>3, <1>5 DEF Whole
  <1>10. V = {v} \union m \union {r}
    BY <1>7, <1>8, <1>9
  <1>11. QED
    BY <1>1, <1>10, SchemaIs

LEMMA Finished02 ==
  ASSUME NEW cat, CatalogOk(cat), NEW V, NEW G, NEW M,
         Whole(cat, V, G, M,
               {VersionTable} \union Up1 \union {Stamp(0, 1)} \union Up2 \union {Stamp(1, 2)},
               {VersionObject} \union Makes(Up1) \union {Row(1)} \union Makes(Up2)
                 \union {Row(2)}, {"0001"})
  PROVE  V = Schema(2)
  <1>1. PICK S, Mk, r, t, v, m, n :
               /\ S = {VersionTable} \union Up1 \union {Stamp(0, 1)} \union Up2 \union {Stamp(1, 2)}
               /\ Mk = {VersionObject} \union Makes(Up1) \union {Row(1)} \union Makes(Up2)
                         \union {Row(2)}
               /\ r = Row(1) /\ t = Row(2) /\ v = VersionObject
               /\ m = Makes(Up1) /\ n = Makes(Up2)
    OBVIOUS
  <1>2. Whole(cat, V, G, M, S, Mk, {"0001"})
    BY <1>1
  <1>3. Empty(cat) /\ (\A o \in G : o.name \in {"0001"}) /\ m \subseteq M
    <2>1. /\ Up1 \subseteq S /\ {"0001"} \subseteq Rows
          /\ Mk \subseteq {VersionObject} \union Makes(Up1) \union Makes(Up2) \union {Row(1), Row(2)}
      BY <1>1 DEF Rows
    <2>2. QED
      BY <1>1, <1>2, <2>1, FoundEmpty
  <1>4. /\ r.name = "0001" /\ t.name = "0002" /\ t.uses = {"alembic_version"}
        /\ v.name = "alembic_version"
        /\ \A o \in m : o.name \in Names1
        /\ \A o \in n : o.name \in Names_2
    BY <1>1, RowsAre, VersionTableIs, MakesUp1, MakesUp2
  <1>5. /\ "alembic_version" \notin Names1 /\ "alembic_version" \notin Names_2
        /\ "0001" \notin Names_2 /\ "0001" \notin Names1
        /\ "0002" \notin Names_2 /\ "0002" \notin Names1
    BY NamesApart DEF Rows
  <1>6. t \in Firm(S)
    BY <1>1, RowIsFirm
  <1>7. t \in M
    BY <1>2, <1>3, <1>4, <1>6 DEF Whole
  <1>8. cat \subseteq {v} \union m
    BY <1>1, <1>3, MakesUp1 DEF Empty
  <1>9. V \subseteq {v} \union m \union n \union {t}
    <2>1. V \subseteq {v} \union m \union n \union {r, t}
      BY <1>1, <1>2, <1>8 DEF Whole
    <2>2. r \notin V
      BY <1>2, <1>4 DEF Whole
    <2>3. QED
      BY <2>1, <2>2
  <1>10. v \in V
    <2>1. PICK x \in V \union G : x.name = "alembic_version"
      BY <1>2, <1>4, <1>6 DEF Whole
    <2>2. x \in V
      BY <1>3, <2>1
    <2>3. x \notin m /\ x \notin n /\ x # t
      BY <1>4, <1>5, <2>1
    <2>4. QED
      BY <1>9, <2>2, <2>3
  <1>11. n \subseteq V
    <2>1. Up2 \subseteq S
      BY <1>1
    <2>2. /\ \A o \in n : o \in Firm(S) \/ o.name \in Types2
          /\ \A a \in Types2 : \E o \in Firm(S) : a \in o.uses
          /\ \A o \in n : o.name \in Types2 => o = Type(o.name)
      BY <1>1, <2>1, MakesUp2
    <2>3. ASSUME NEW o \in n, o \in Firm(S)
          PROVE  o \in V
      BY <1>2, <1>3, <1>4, <1>5, <2>3 DEF Whole
    <2>4. ASSUME NEW o \in n, o.name \in Types2
          PROVE  o \in V
      <3>1. PICK f \in Firm(S) : o.name \in f.uses
        BY <2>2, <2>4
      <3>2. PICK x \in V \union G : x.name = o.name
        BY <1>2, <3>1 DEF Whole
      <3>3. o.name \in Names_2
        BY <1>4
      <3>4. x \in V
        BY <1>3, <1>5, <3>2, <3>3
      <3>5. x \in n
        BY <1>4, <1>5, <1>9, <3>2, <3>3, <3>4, NamesApart
      <3>6. x = Type(x.name) /\ o = Type(o.name)
        BY <2>2, <2>4, <3>2, <3>5
      <3>7. QED
        BY <3>2, <3>4, <3>6
    <2>5. QED
      BY <2>2, <2>3, <2>4
  <1>12. m \subseteq V /\ t \in V
    BY <1>2, <1>3, <1>7 DEF Whole
  <1>13. V = {v} \union m \union n \union {t}
    BY <1>9, <1>10, <1>11, <1>12
  <1>14. QED
    BY <1>1, <1>13, SchemaIs

\* A command that removes the row of a revision has found its schema.
LEMMA FoundSchema ==
  ASSUME NEW cat, CatalogOk(cat), NEW V, NEW G, NEW M, NEW S, NEW Mk, NEW Dr,
         Whole(cat, V, G, M, S, Mk, Dr), NEW k \in {1, 2}, Revision(k) \in Dr,
         \A o \in Mk : o.name # Revision(k)
  PROVE  cat = Schema(k)
  <1>1. PICK o \in G : o.name = Revision(k)
    BY DEF Whole
  <1>2. o \in cat
    BY <1>1 DEF Whole
  <1>3. Revision(k) \in Names(cat)
    BY <1>1, <1>2 DEF Names
  <1>4. Revision(1) = "0001" /\ Revision(2) = "0002"
    BY DEF Revision
  <1>5. QED
    BY <1>3, <1>4, CatalogNames

\* The parts of the schemas, for the cases that follow.
LEMMA PartNames ==
  /\ \A o \in Makes(Up1) : o.name \in Names1 /\ o.owner \in Names1
  /\ \A o \in Makes(Up2) : o.name \in Names_2 /\ o.owner \in Names_2 \union Names1
  /\ VersionObject.name = "alembic_version" /\ VersionObject.owner = "alembic_version"
  /\ Row(1).name = "0001" /\ Row(1).owner = "alembic_version"
  /\ Row(2).name = "0002" /\ Row(2).owner = "alembic_version"
  /\ Names1 \intersect Names_2 = {}
  /\ "0001" \notin Names1 \union Names_2 /\ "0002" \notin Names1 \union Names_2
  /\ "alembic_version" \notin Names1 \union Names_2
  <1>1. {"couples", "users"} \subseteq Names1
    BY DEF Names1, Tables_1
  <1>2. "0001" \in Rows /\ "0002" \in Rows
    BY DEF Rows
  <1>3. \A o \in Makes(Up1) : o.name \in Names1 /\ o.owner \in Names1
    BY MakesUp1
  <1>4. \A o \in Makes(Up2) : o.name \in Names_2 /\ o.owner \in Names_2 \union Names1
    BY <1>1, MakesUp2
  <1>5. QED
    BY <1>2, <1>3, <1>4, VersionTableIs, RowsAre, NamesApart

LEMMA Finished12 ==
  ASSUME NEW cat, CatalogOk(cat), NEW V, NEW G, NEW M,
         Whole(cat, V, G, M, Up2 \union {Stamp(1, 2)}, Makes(Up2) \union {Row(2)}, {"0001"})
  PROVE  V = Schema(2)
  <1>1. PICK S, Mk, r, t, v, m, n : /\ S = Up2 \union {Stamp(1, 2)}
                                    /\ Mk = Makes(Up2) \union {Row(2)}
                                    /\ r = Row(1) /\ t = Row(2) /\ v = VersionObject
                                    /\ m = Makes(Up1) /\ n = Makes(Up2)
    OBVIOUS
  <1>2. Whole(cat, V, G, M, S, Mk, {"0001"})
    BY <1>1
  <1>3. /\ \A o \in m : o.name \in Names1 /\ o.owner \in Names1
        /\ \A o \in n : o.name \in Names_2 /\ o.owner \in Names_2 \union Names1
        /\ v.name = "alembic_version" /\ v.owner = "alembic_version"
        /\ r.name = "0001" /\ r.owner = "alembic_version"
        /\ t.name = "0002" /\ t.owner = "alembic_version"
    BY <1>1, PartNames
  <1>4. cat = {v} \union m \union {r}
    <2>1. \A o \in Mk : o.name # "0001"
      BY <1>1, <1>3, PartNames
    <2>2. Revision(1) = "0001"
      BY DEF Revision
    <2>3. cat = Schema(1)
      BY <1>2, <2>1, <2>2, FoundSchema
    <2>4. QED
      BY <1>1, <2>3, SchemaIs
  <1>5. \A o \in G : o.name = "0001"
    <2>1. \A o \in G : o \in cat \union n \union {t}
      BY <1>1, <1>2 DEF Whole
    <2>2. \A o \in cat \union n \union {t} : o.owner # "0001"
      BY <1>3, <1>4, PartNames
    <2>3. QED
      BY <1>2, <2>1, <2>2 DEF Whole
  <1>6. r \notin V
    BY <1>2, <1>3 DEF Whole
  <1>7. {v} \union m \subseteq V
    BY <1>2, <1>3, <1>4, <1>5, PartNames DEF Whole
  <1>8. V \subseteq {v} \union m \union n \union {t}
    BY <1>1, <1>2, <1>4, <1>6 DEF Whole
  <1>9. t \in V
    <2>1. t \in Firm(S)
      BY <1>1, RowIsFirm
    <2>2. QED
      BY <1>2, <1>3, <1>5, <2>1 DEF Whole
  <1>10. n \subseteq V
    <2>1. Up2 \subseteq S
      BY <1>1
    <2>2. /\ \A o \in n : o \in Firm(S) \/ o.name \in Types2
          /\ \A a \in Types2 : \E o \in Firm(S) : a \in o.uses
          /\ \A o \in n : o.name \in Types2 => o = Type(o.name)
      BY <1>1, <2>1, MakesUp2
    <2>3. ASSUME NEW o \in n, o \in Firm(S)
          PROVE  o \in V
      <3>1. o \notin G
        BY <1>3, <1>5, PartNames
      <3>2. QED
        BY <1>2, <2>3, <3>1 DEF Whole
    <2>4. ASSUME NEW o \in n, o.name \in Types2
          PROVE  o \in V
      <3>1. PICK f \in Firm(S) : o.name \in f.uses
        BY <2>2, <2>4
      <3>2. PICK x \in V \union G : x.name = o.name
        BY <1>2, <3>1 DEF Whole
      <3>3. o.name \in Names_2
        BY <1>3
      <3>4. x \in V
        BY <1>5, <3>2, <3>3, PartNames
      <3>5. x \in n
        BY <1>3, <1>8, <3>2, <3>3, <3>4, PartNames
      <3>6. x = Type(x.name) /\ o = Type(o.name)
        BY <2>2, <2>4, <3>2, <3>5
      <3>7. QED
        BY <3>2, <3>4, <3>6
    <2>5. QED
      BY <2>2, <2>3, <2>4
  <1>11. V = {v} \union m \union n \union {t}
    BY <1>7, <1>8, <1>9, <1>10
  <1>12. QED
    BY <1>1, <1>11, SchemaIs

LEMMA Finished21 ==
  ASSUME NEW cat, CatalogOk(cat), NEW V, NEW G, NEW M,
         Whole(cat, V, G, M, Down2 \union {Stamp(2, 1)}, {Row(1)}, Names_2 \union {"0002"})
  PROVE  V = Schema(1)
  <1>1. PICK S, Dr, r, t, v, m, n : /\ S = Down2 \union {Stamp(2, 1)}
                                    /\ Dr = Names_2 \union {"0002"}
                                    /\ r = Row(1) /\ t = Row(2) /\ v = VersionObject
                                    /\ m = Makes(Up1) /\ n = Makes(Up2)
    OBVIOUS
  <1>2. Whole(cat, V, G, M, S, {r}, Dr)
    BY <1>1
  <1>3. /\ \A o \in m : o.name \in Names1 /\ o.owner \in Names1
        /\ \A o \in n : o.name \in Names_2
        /\ v.name = "alembic_version" /\ v.owner = "alembic_version"
        /\ r.name = "0001" /\ r.owner = "alembic_version"
        /\ t.name = "0002" /\ t.owner = "alembic_version"
    BY <1>1, PartNames
  <1>4. cat = {v} \union m \union n \union {t}
    <2>1. \A o \in {r} : o.name # "0002"
      BY <1>3
    <2>2. Revision(2) = "0002" /\ Revision(2) \in Dr
      BY <1>1 DEF Revision
    <2>3. cat = Schema(2)
      BY <1>2, <2>1, <2>2, FoundSchema
    <2>4. QED
      BY <1>1, <2>3, SchemaIs
  <1>5. \A o \in {v} \union m \union {r} : o.name \notin Dr /\ o.owner \notin Dr
    BY <1>1, <1>3, PartNames
  <1>6. {v} \union m \subseteq V
    BY <1>2, <1>4, <1>5 DEF Whole
  <1>7. r \in V
    <2>1. r \in Firm(S)
      BY <1>1, RowIsFirm
    <2>2. QED
      BY <1>2, <1>5, <2>1 DEF Whole
  <1>8. V \subseteq {v} \union m \union {r}
    <2>1. V \subseteq {v} \union m \union n \union {t} \union {r}
      BY <1>2, <1>4 DEF Whole
    <2>2. t \notin V /\ \A o \in n : o \notin V
      BY <1>1, <1>2, <1>3 DEF Whole
    <2>3. QED
      BY <2>1, <2>2
  <1>9. V = {v} \union m \union {r}
    BY <1>6, <1>7, <1>8
  <1>10. QED
    BY <1>1, <1>9, SchemaIs

\* What a downgrade to the empty schema leaves of the objects of the schemas.
LEMMA LeavesEmpty ==
  ASSUME NEW V, NEW Dr, \A o \in V : o.name \notin Dr,
         Dropped1 \union {"0001"} \subseteq Dr,
         V \subseteq {VersionObject} \union Makes(Up1) \union {Row(1)}
  PROVE  Empty(V)
  <1>1. PICK m, r, v : m = Makes(Up1) /\ r = Row(1) /\ v = VersionObject
    OBVIOUS
  <1>2. r.name = "0001" /\ \A o \in m : o.name \in Dropped1 \/ o \in Left
    BY <1>1, RowsAre, MakesUp1
  <1>3. \A o \in V : o = v \/ o \in m \/ o = r
    BY <1>1
  <1>4. \A o \in V : o = v \/ o \in Left
    BY <1>2, <1>3
  <1>5. QED
    BY <1>1, <1>4 DEF Empty

LEMMA Finished10 ==
  ASSUME NEW cat, CatalogOk(cat), NEW V, NEW G, NEW M, NEW S,
         Whole(cat, V, G, M, S, {}, Dropped1 \union {"0001"})
  PROVE  Empty(V)
  <1>1. cat = Schema(1)
    <2>1. Revision(1) = "0001" /\ \A o \in {} : o.name # Revision(1)
      BY DEF Revision
    <2>2. QED
      BY <2>1, FoundSchema
  <1>2. PICK Dr : Dr = Dropped1 \union {"0001"}
    OBVIOUS
  <1>3. V \subseteq cat /\ \A o \in V : o.name \notin Dr
    BY <1>2 DEF Whole
  <1>4. V \subseteq {VersionObject} \union Makes(Up1) \union {Row(1)}
    BY <1>1, <1>3, SchemaIs
  <1>5. QED
    BY <1>2, <1>3, <1>4, LeavesEmpty

LEMMA Finished20 ==
  ASSUME NEW cat, CatalogOk(cat), NEW V, NEW G, NEW M, NEW S,
         Whole(cat, V, G, M, S, {Row(1)},
               Names_2 \union {"0002"} \union Dropped1 \union {"0001"})
  PROVE  Empty(V)
  <1>1. PICK Dr, r, t, v, m, n : /\ Dr = Names_2 \union {"0002"} \union Dropped1 \union {"0001"}
                                 /\ r = Row(1) /\ t = Row(2) /\ v = VersionObject
                                 /\ m = Makes(Up1) /\ n = Makes(Up2)
    OBVIOUS
  <1>2. Whole(cat, V, G, M, S, {r}, Dr)
    BY <1>1
  <1>3. cat = {v} \union m \union n \union {t}
    <2>1. Revision(2) = "0002" /\ Revision(2) \in Dr
      BY <1>1 DEF Revision
    <2>2. \A o \in {r} : o.name # "0002"
      BY <1>1, RowsAre
    <2>3. cat = Schema(2)
      BY <1>2, <2>1, <2>2, FoundSchema
    <2>4. QED
      BY <1>1, <2>3, SchemaIs
  <1>4. \A o \in V : o.name \notin Dr
    BY <1>2 DEF Whole
  <1>5. V \subseteq {v} \union m \union {r}
    <2>1. V \subseteq {v} \union m \union n \union {t} \union {r}
      BY <1>2, <1>3 DEF Whole
    <2>2. t.name = "0002" /\ \A o \in n : o.name \in Names_2
      BY <1>1, PartNames
    <2>3. QED
      BY <1>1, <1>4, <2>1, <2>2
  <1>6. Dropped1 \union {"0001"} \subseteq Dr
    BY <1>1
  <1>7. V \subseteq {VersionObject} \union Makes(Up1) \union {Row(1)}
    BY <1>1, <1>5
  <1>8. QED
    BY <1>4, <1>6, <1>7, LeavesEmpty

LEMMA Finished ==
  ASSUME NEW cat, CatalogOk(cat), NEW r, NEW from \in 0..2, NEW to \in 0..2, from # to,
         Did(cat, r, Statements(Script(from, to))), Shadows(cat, r)
  PROVE  CatalogOk(Sees(cat, r))
  <1>1. CASE from = 0 /\ to = 1
    <2>1. Sees(cat, r) = Schema(1)
      BY <1>1, ScriptsUp, WholeIs, Finished01
    <2>2. QED
      BY <2>1 DEF CatalogOk
  <1>2. CASE from = 0 /\ to = 2
    <2>1. Sees(cat, r) = Schema(2)
      BY <1>2, ScriptsUp, WholeIs, Finished02
    <2>2. QED
      BY <2>1 DEF CatalogOk
  <1>3. CASE from = 1 /\ to = 2
    <2>1. Sees(cat, r) = Schema(2)
      BY <1>3, ScriptsUp, WholeIs, Finished12
    <2>2. QED
      BY <2>1 DEF CatalogOk
  <1>4. CASE from = 2 /\ to = 1
    <2>1. Sees(cat, r) = Schema(1)
      BY <1>4, ScriptsDown, WholeIs, Finished21
    <2>2. QED
      BY <2>1 DEF CatalogOk
  <1>5. CASE from = 2 /\ to = 0
    <2>1. Empty(Sees(cat, r))
      BY <1>5, ScriptsDown, WholeIs, Finished20
    <2>2. QED
      BY <2>1 DEF CatalogOk
  <1>6. CASE from = 1 /\ to = 0
    <2>1. Empty(Sees(cat, r))
      BY <1>6, ScriptsDown, WholeIs, Finished10
    <2>2. QED
      BY <2>1 DEF CatalogOk
  <1>7. QED
    BY <1>1, <1>2, <1>3, <1>4, <1>5, <1>6
-------------------------------------------------------------------------------
(***************************************************************************)
(* One statement.                                                          *)
(***************************************************************************)
\* The first statement of a downgrade from revision n.
First(n) == Drop(IF n = 2 THEN "subscription_events" ELSE "audit_logs")

\* The transaction r, on its way to revision "to", has executed the statements of D.
Follows(r, to, D) ==
    /\ r.from \in 0..2 /\ to \in 0..2 /\ to # r.from
    /\ r.todo \in Seq(Statement) /\ OrderOk(r.todo)
    /\ D \union Statements(r.todo) = Statements(Script(r.from, to))
    /\ Drops(D) \intersect Names(Makes(Statements(r.todo))) = {}
    /\ D = {} => r.todo = Script(r.from, to)
    /\ to < r.from /\ D # {} => First(r.from) \in D

\* It holds the names of all it has made and removed.
Holds(cat, r) == Names(r.made \union r.gone) \subseteq r.locks /\ Shadows(cat, r)

LEMMA TodoSplits ==
  ASSUME NEW q \in Seq(Statement), q # <<>>, OrderOk(q)
  PROVE  /\ Head(q) \in Statement /\ Tail(q) \in Seq(Statement)
         /\ Statements(q) = {Head(q)} \union Statements(Tail(q))
         /\ OrderOk(Tail(q))
         /\ Head(q).drop \intersect Names(Head(q).make) = {}
         /\ Head(q).drop \intersect Names(Makes(Statements(Tail(q)))) = {}
  <1>1. PICK n, t : n = Len(q) /\ t = Tail(q)
    OBVIOUS
  <1>2. /\ n \in Nat /\ n # 0 /\ Head(q) = q[1] /\ Head(q) \in Statement
        /\ t \in Seq(Statement) /\ DOMAIN t = 1..(n - 1) /\ DOMAIN q = 1..n
        /\ \A i \in 1..(n - 1) : t[i] = q[i + 1]
    BY <1>1, HeadTailProperties, EmptySeq
  <1>3. /\ 1 \in 1..n /\ \A i \in 1..(n - 1) : i + 1 \in 1..n /\ 1 <= i + 1
        /\ \A i \in 1..n : i = 1 \/ (i - 1 \in 1..(n - 1) /\ i = (i - 1) + 1)
        /\ \A i, j \in 1..(n - 1) : i <= j => i + 1 <= j + 1
    BY <1>2
  <1>4. Statements(q) = {Head(q)} \union Statements(t)
    <2>1. ASSUME NEW i \in 1..n, i # 1
          PROVE  q[i] \in Statements(t)
      <3>1. i - 1 \in 1..(n - 1) /\ (i - 1) + 1 = i
        BY <1>2, <1>3, <2>1
      <3>2. t[i - 1] = q[i]
        BY <1>2, <3>1
      <3>3. QED
        BY <1>2, <3>1, <3>2 DEF Statements
    <2>2. \A i \in 1..(n - 1) : t[i] \in Statements(q)
      BY <1>2, <1>3 DEF Statements
    <2>3. Head(q) \in Statements(q)
      BY <1>2, <1>3 DEF Statements
    <2>4. QED
      <3>1. \A x \in Statements(q) : x \in {Head(q)} \union Statements(t)
        <4>1. SUFFICES ASSUME NEW i \in 1..n
                       PROVE  q[i] \in {Head(q)} \union Statements(t)
          BY <1>2 DEF Statements
        <4>2. QED
          BY <1>2, <2>1
      <3>2. \A x \in Statements(t) : x \in Statements(q)
        BY <1>2, <2>2 DEF Statements
      <3>3. QED
        BY <2>3, <3>1, <3>2
  <1>5. OrderOk(t)
    <2>1. SUFFICES ASSUME NEW i \in 1..(n - 1), NEW j \in 1..(n - 1), i <= j
                   PROVE  t[i].drop \intersect Names(t[j].make) = {}
      BY <1>2 DEF OrderOk
    <2>2. i + 1 \in 1..n /\ j + 1 \in 1..n /\ i + 1 <= j + 1
      BY <1>3, <2>1
    <2>3. QED
      BY <1>2, <2>1, <2>2 DEF OrderOk
  <1>6. Head(q).drop \intersect Names(Head(q).make) = {}
    <2>1. 1 <= 1
      OBVIOUS
    <2>2. QED
      BY <1>2, <1>3, <2>1 DEF OrderOk
  <1>7. Head(q).drop \intersect Names(Makes(Statements(t))) = {}
    <2>1. \A j \in 1..(n - 1) : Head(q).drop \intersect Names(t[j].make) = {}
      <3>1. SUFFICES ASSUME NEW j \in 1..(n - 1)
                     PROVE  Head(q).drop \intersect Names(q[j + 1].make) = {}
        BY <1>2
      <3>2. j + 1 \in 1..n /\ 1 <= j + 1
        BY <1>3
      <3>3. QED
        BY <1>2, <1>3, <3>2 DEF OrderOk
    <2>2. \A x \in Statements(t) : Head(q).drop \intersect Names(x.make) = {}
      BY <1>2, <2>1 DEF Statements
    <2>3. QED
      BY <2>2 DEF Names, Makes
  <1>8. QED
    BY <1>1, <1>2, <1>4, <1>5, <1>6, <1>7

\* Only the downgrades drop types, those that the schema they come from has.
LEMMA LaxDrops ==
  ASSUME NEW from \in 0..2, NEW to \in 0..2, from # to,
         NEW s \in Statements(Script(from, to)), s.lax, s.drop # {}
  PROVE  to < from /\ s.drop \subseteq IF from = 2 THEN Types1 \union Types2 ELSE Types1
  <1>1. \A x \in Up1 \union Up2 \union {VersionTable} : x.drop = {}
    <2>1. \A x \in Up1 : x.drop = {}
      BY Upgrade1Is DEF MadeBy1, Up1
    <2>2. \A x \in Up2 : x.drop = {}
      BY Upgrade2Is DEF MadeBy2, Up2
    <2>3. QED
      BY <2>1, <2>2, VersionTableIs
  <1>2. \A x \in {Stamp(0, 1), Stamp(1, 2), Stamp(2, 1), Stamp(1, 0)} : x.lax = FALSE
    BY DEF Stamp
  <1>3. /\ \A x \in Down1 : x.lax => x.drop \subseteq Types1
        /\ \A x \in Down2 : x.lax => x.drop \subseteq Types2
    BY Downgrade1Is, Downgrade2Is DEF Down1, Down2
  <1>4. CASE from < to
    <2>1. /\ Statements(Script(0, 1)) \subseteq Up1 \union Up2 \union {VersionTable}
               \union {Stamp(0, 1), Stamp(1, 2), Stamp(2, 1), Stamp(1, 0)}
          /\ Statements(Script(0, 2)) \subseteq Up1 \union Up2 \union {VersionTable}
               \union {Stamp(0, 1), Stamp(1, 2), Stamp(2, 1), Stamp(1, 0)}
          /\ Statements(Script(1, 2)) \subseteq Up1 \union Up2 \union {VersionTable}
               \union {Stamp(0, 1), Stamp(1, 2), Stamp(2, 1), Stamp(1, 0)}
      BY ScriptsUp DEF Does
    <2>2. \/ from = 0 /\ to = 1
          \/ from = 0 /\ to = 2
          \/ from = 1 /\ to = 2
      BY <1>4
    <2>3. s \in Up1 \union Up2 \union {VersionTable}
               \union {Stamp(0, 1), Stamp(1, 2), Stamp(2, 1), Stamp(1, 0)}
      BY <2>1, <2>2
    <2>4. QED
      BY <1>1, <1>2, <2>3
  <1>5. CASE to < from /\ from = 2
    <2>1. /\ Statements(Script(2, 1)) \subseteq Down1 \union Down2
               \union {Stamp(0, 1), Stamp(1, 2), Stamp(2, 1), Stamp(1, 0)}
          /\ Statements(Script(2, 0)) \subseteq Down1 \union Down2
               \union {Stamp(0, 1), Stamp(1, 2), Stamp(2, 1), Stamp(1, 0)}
      BY ScriptsDown DEF Does
    <2>2. to = 0 \/ to = 1
      BY <1>5
    <2>3. s \in Down1 \union Down2 \union {Stamp(0, 1), Stamp(1, 2), Stamp(2, 1), Stamp(1, 0)}
      BY <1>5, <2>1, <2>2
    <2>4. QED
      BY <1>2, <1>3, <1>5, <2>3
  <1>6. CASE to < from /\ from # 2
    <2>1. Statements(Script(1, 0)) \subseteq Down1 \union {Stamp(1, 0)}
      BY ScriptsDown DEF Does
    <2>2. from = 1 /\ to = 0
      BY <1>6
    <2>3. s \in Down1 \union {Stamp(1, 0)}
      BY <2>1, <2>2
    <2>4. QED
      BY <1>2, <1>3, <1>6, <2>3
  <1>7. QED
    BY <1>4, <1>5, <1>6

\* A downgrade that has begun has the types it is going to drop.
LEMMA TypesAreThere ==
  ASSUME NEW cat, CatalogOk(cat), NEW r, NEW to, NEW D, Follows(r, to, D), Did(cat, r, D),
         to < r.from, D # {}
  PROVE  (IF r.from = 2 THEN Types1 \union Types2 ELSE Types1) \subseteq Names(cat)
  <1>1. PICK n : n = IF r.from = 2 THEN "subscription_events" ELSE "audit_logs"
    OBVIOUS
  <1>2. n \in Names_2 \union Names1 /\ n \in Name
    <2>1. n \in Names_2 \union Names1
      BY <1>1 DEF Names_2, Names1, Tables_1
    <2>2. QED
      BY <2>1, NamesApart
  <1>3. First(r.from) \in D /\ First(r.from).drop = {n}
    <2>1. First(r.from) = Drop(n)
      BY <1>1 DEF First
    <2>2. QED
      BY <1>2, <2>1, DropIs DEF Follows
  <1>4. n \in Drops(D)
    BY <1>3 DEF Drops
  <1>5. PICK o \in r.gone : o.name = n
    BY <1>4 DEF Did, Names
  <1>6. D \subseteq Statements(Script(r.from, to))
    BY DEF Follows
  <1>7. Makes(D) \subseteq {Row(1)}
    <2>1. r.from \in 0..2 /\ to \in 0..2
      BY DEF Follows
    <2>2. \/ r.from = 2 /\ to = 1
          \/ r.from = 2 /\ to = 0
          \/ r.from = 1 /\ to = 0
      BY <2>1
    <2>3. Makes(D) \subseteq Makes(Statements(Script(r.from, to)))
      BY <1>6 DEF Makes
    <2>4. /\ Makes(Statements(Script(2, 1))) = {Row(1)}
          /\ Makes(Statements(Script(2, 0))) = {Row(1)}
          /\ Makes(Statements(Script(1, 0))) = {}
      BY ScriptsDown DEF Does
    <2>5. QED
      BY <2>2, <2>3, <2>4
  <1>8. o \in cat
    <2>1. o \in cat \union Makes(D)
      BY DEF Did
    <2>2. o # Row(1)
      BY <1>2, <1>5, PartNames
    <2>3. QED
      BY <1>7, <2>1, <2>2
  <1>9. n \in Names(cat)
    BY <1>5, <1>8 DEF Names
  <1>10. r.from = 2 => cat = Schema(2)
    BY <1>1, <1>9, CatalogNames
  <1>11. ~Empty(cat)
    <2>1. CASE r.from = 2
      BY <1>10, <2>1, CatalogNames
    <2>2. CASE r.from # 2
      BY <1>1, <1>9, <2>2, CatalogNames
    <2>3. QED
      BY <2>1, <2>2
  <1>12. Types1 \subseteq Names(cat) /\ (r.from = 2 => Types2 \subseteq Names(cat))
    BY <1>10, <1>11, CatalogNames
  <1>13. QED
    BY <1>12

\* The transaction r2 is r after the statement s, which it saw nothing against.
Executes(cat, r, r2, s) ==
    LET V == Sees(cat, r)
    IN  /\ ~Refused(s, V)
        /\ r2.from = r.from /\ r2.todo = Tail(r.todo)
        /\ r2.made = (r.made \ Removed(s, V)) \union Added(s, V)
        /\ r2.gone = r.gone \union Removed(s, V)
        /\ r2.locks = r.locks \union Touched(s, V)

LEMMA WithOne ==
  ASSUME NEW D, NEW s
  PROVE  Makes(D \union {s}) = Makes(D) \union s.make /\ Drops(D \union {s}) = Drops(D) \union s.drop
  <1>1. PICK S : S = {s}
    OBVIOUS
  <1>2. Makes(S) = s.make /\ Drops(S) = s.drop
    BY <1>1, OfOne
  <1>3. /\ Makes(D \union S) = Makes(D) \union Makes(S)
        /\ Drops(D \union S) = Drops(D) \union Drops(S)
    BY MakesOfTwo, DropsOfTwo
  <1>4. QED
    BY <1>1, <1>2, <1>3

LEMMA NextFollows ==
  ASSUME NEW r, NEW r2, NEW to, NEW D, Follows(r, to, D), r.todo # <<>>,
         r2.from = r.from, r2.todo = Tail(r.todo)
  PROVE  Follows(r2, to, D \union {Head(r.todo)})
  <1>1. PICK s, q, t, E : s = Head(r.todo) /\ q = r.todo /\ t = Tail(q) /\ E = D \union {s}
    OBVIOUS
  <1>2. /\ q \in Seq(Statement) /\ OrderOk(q) /\ q # <<>>
        /\ r.from \in 0..2 /\ to \in 0..2 /\ to # r.from
        /\ D \union Statements(q) = Statements(Script(r.from, to))
        /\ Drops(D) \intersect Names(Makes(Statements(q))) = {}
        /\ D = {} => q = Script(r.from, to)
        /\ to < r.from /\ D # {} => First(r.from) \in D
    BY <1>1 DEF Follows
  <1>3. /\ t \in Seq(Statement) /\ Statements(q) = {s} \union Statements(t) /\ OrderOk(t)
        /\ s.drop \intersect Names(Makes(Statements(t))) = {}
    BY <1>1, <1>2, TodoSplits
  <1>4. E \union Statements(t) = Statements(Script(r.from, to))
    BY <1>1, <1>2, <1>3
  <1>5. Drops(E) \intersect Names(Makes(Statements(t))) = {}
    <2>1. Drops(E) = Drops(D) \union s.drop
      BY <1>1, WithOne
    <2>2. Makes(Statements(t)) \subseteq Makes(Statements(q))
      BY <1>3 DEF Makes
    <2>3. Names(Makes(Statements(t))) \subseteq Names(Makes(Statements(q)))
      BY <2>2 DEF Names
    <2>4. QED
      BY <1>2, <1>3, <2>1, <2>3
  <1>6. to < r.from => First(r.from) \in E
    <2>1. CASE D = {}
      <3>1. SUFFICES ASSUME to < r.from
                     PROVE  s = First(r.from)
        BY <1>1
      <3>2. s = Head(Script(r.from, to))
        BY <1>1, <1>2, <2>1
      <3>3. \/ r.from = 2 /\ to = 1
            \/ r.from = 2 /\ to = 0
            \/ r.from = 1 /\ to = 0
        BY <1>2, <3>1
      <3>4. QED
        BY <3>2, <3>3, DowngradesBegin DEF First
    <2>2. CASE D # {}
      BY <1>1, <1>2, <2>2
    <2>3. QED
      BY <2>1, <2>2
  <1>7. E # {}
    BY <1>1
  <1>8. Follows(r2, to, E)
    BY <1>1, <1>2, <1>3, <1>4, <1>5, <1>6, <1>7 DEF Follows
  <1>9. QED
    BY <1>1, <1>8

LEMMA NextDid ==
  ASSUME NEW cat, CatalogOk(cat), NEW r, NEW r2, NEW to, NEW D, NEW s,
         Follows(r, to, D), Did(cat, r, D), Holds(cat, r),
         r.todo # <<>>, s = Head(r.todo), Executes(cat, r, r2, s)
  PROVE  Did(cat, r2, D \union {s}) /\ Holds(cat, r2)
  <1>1. PICK V, W, G, H, M, N, L, K, X, A, E :
               /\ V = Sees(cat, r) /\ W = Sees(cat, r2)
               /\ G = r.gone /\ H = r2.gone /\ M = r.made /\ N = r2.made
               /\ L = r.locks /\ K = r2.locks
               /\ X = Removed(s, V) /\ A = Added(s, V) /\ E = D \union {s}
    <2>1. PICK V, W, G, H, M, N, L, K, E :
               /\ V = Sees(cat, r) /\ W = Sees(cat, r2)
               /\ G = r.gone /\ H = r2.gone /\ M = r.made /\ N = r2.made
               /\ L = r.locks /\ K = r2.locks /\ E = D \union {s}
      OBVIOUS
    <2>2. PICK X, A : X = Removed(s, V) /\ A = Added(s, V)
      OBVIOUS
    <2>3. QED
      BY <2>1, <2>2
  <1>2. /\ s \in Statement /\ s.drop \intersect Names(s.make) = {}
        /\ s \in Statements(r.todo)
    BY TodoSplits DEF Follows
  <1>3. s.lax \in BOOLEAN
    BY <1>2 DEF Statement
  <1>4. /\ V = (cat \ G) \union M /\ W = (cat \ H) \union N
        /\ N = (M \ X) \union A /\ H = G \union X /\ K = L \union Touched(s, V)
        /\ ~Refused(s, V)
    BY <1>1 DEF Executes, Sees
  <1>5. /\ X = {o \in V : o.name \in s.drop \/ o.owner \in s.drop}
        /\ A = {o \in s.make : o.name \notin Names(V)}
    BY <1>1 DEF Removed, Added
  <1>6. W = (V \ X) \union A
    BY <1>4
  <1>7. /\ M \subseteq Makes(D) /\ G \subseteq cat \union Makes(D)
        /\ \A o \in G : o.name \in Drops(D) \/ o.owner \in Drops(D)
        /\ Drops(D) \subseteq Names(G) /\ Drops(D) \intersect Names(V) = {}
        /\ \A o \in Firm(D) : /\ o \in M \union G /\ o.uses \subseteq L
                              /\ o.uses \subseteq Names(V) \union Names(G)
    BY <1>1 DEF Did
  <1>8. Makes(E) = Makes(D) \union s.make /\ Drops(E) = Drops(D) \union s.drop
    BY <1>1, WithOne
  <1>9. N \subseteq Makes(E) /\ H \subseteq cat \union Makes(E)
    BY <1>4, <1>5, <1>7, <1>8
  <1>10. \A o \in H : o.name \in Drops(E) \/ o.owner \in Drops(E)
    BY <1>4, <1>5, <1>7, <1>8
  <1>11. Names(V) \subseteq Names(W) \union Names(H) /\ Names(G) \subseteq Names(H)
    BY <1>4, <1>6 DEF Names
  <1>12. Drops(E) \subseteq Names(H)
    <2>1. CASE ~s.lax
      <3>1. s.drop \subseteq Names(V)
        BY <1>4, <2>1 DEF Refused
      <3>2. \A n \in s.drop : \E o \in X : o.name = n
        BY <1>5, <3>1 DEF Names
      <3>3. s.drop \subseteq Names(H)
        BY <1>4, <3>2 DEF Names
      <3>4. QED
        BY <1>7, <1>8, <1>11, <3>3
    <2>2. CASE s.lax /\ s.drop # {}
      <3>1. s \in Statements(Script(r.from, to)) /\ r.from \in 0..2 /\ to \in 0..2 /\ r.from # to
        BY <1>2 DEF Follows
      <3>2. /\ to < r.from
            /\ s.drop \subseteq IF r.from = 2 THEN Types1 \union Types2 ELSE Types1
        BY <2>2, <3>1, LaxDrops
      <3>3. D # {}
        <4>1. SUFFICES ASSUME D = {}
                       PROVE  FALSE
          OBVIOUS
        <4>2. s = Head(Script(r.from, to))
          BY <4>1 DEF Follows
        <4>3. \/ r.from = 2 /\ to = 1
              \/ r.from = 2 /\ to = 0
              \/ r.from = 1 /\ to = 0
          BY <3>1, <3>2
        <4>4. s = Drop("subscription_events") \/ s = Drop("audit_logs")
          BY <4>2, <4>3, DowngradesBegin
        <4>5. s.lax = FALSE
          BY <4>4 DEF Drop
        <4>6. QED
          BY <2>2, <4>5
      <3>4. s.drop \subseteq Names(cat)
        BY <3>2, <3>3, TypesAreThere
      <3>5. ASSUME NEW n \in s.drop
            PROVE  n \in Names(H)
        <4>1. PICK o \in cat : o.name = n
          BY <3>4 DEF Names
        <4>2. o \in H
          BY <1>4, <1>5, <4>1
        <4>3. QED
          BY <4>1, <4>2 DEF Names
      <3>6. QED
        BY <1>7, <1>8, <1>11, <3>5
    <2>3. CASE s.drop = {}
      BY <1>7, <1>8, <1>11, <2>3
    <2>4. QED
      BY <1>3, <2>1, <2>2, <2>3
  <1>13. Drops(E) \intersect Names(W) = {}
    <2>1. ASSUME NEW o \in V \ X
          PROVE  o.name \notin Drops(E)
      BY <1>5, <1>7, <1>8 DEF Names
    <2>2. ASSUME NEW o \in A
          PROVE  o.name \notin Drops(E)
      <3>1. o \in s.make
        BY <1>5
      <3>2. o.name \notin s.drop
        BY <1>2, <3>1 DEF Names
      <3>3. o \in Makes(Statements(r.todo))
        BY <1>2, <3>1 DEF Makes
      <3>4. Drops(D) \intersect Names(Makes(Statements(r.todo))) = {}
        BY DEF Follows
      <3>5. o.name \notin Drops(D)
        BY <3>3, <3>4 DEF Names
      <3>6. QED
        BY <1>8, <3>2, <3>5
    <2>3. QED
      BY <1>6, <2>1, <2>2 DEF Names
  <1>14. /\ Names(X) \subseteq K /\ Names(A) \subseteq K
         /\ \A o \in X \union A : o.uses \subseteq K
    <2>1. /\ Names(X \union A) \subseteq Touched(s, V)
          /\ \A o \in X \union A : o.uses \subseteq Touched(s, V)
      BY <1>1 DEF Touched
    <2>2. QED
      BY <1>4, <2>1 DEF Names
  <1>15. ASSUME NEW o \in Firm(E)
         PROVE  o \in N \union H /\ o.uses \subseteq K /\ o.uses \subseteq Names(W) \union Names(H)
    <2>1. CASE o \in Firm(D)
      BY <1>4, <1>7, <1>11, <2>1
    <2>2. CASE o \in s.make /\ ~s.lax
      <3>1. Names(s.make) \intersect Names(V) = {}
        BY <1>4, <2>2 DEF Refused
      <3>2. A = s.make
        BY <1>5, <3>1 DEF Names
      <3>3. o.uses \subseteq Names(V) \union Names(A)
        BY <1>1, <1>4, <2>2, <3>2 DEF Refused
      <3>4. Names(A) \subseteq Names(W)
        BY <1>6 DEF Names
      <3>5. QED
        BY <1>4, <1>11, <1>14, <2>2, <3>2, <3>3, <3>4
    <2>3. QED
      BY <1>1, <2>1, <2>2 DEF Firm
  <1>16. Did(cat, r2, E)
    BY <1>1, <1>9, <1>10, <1>12, <1>13, <1>15 DEF Did
  <1>17. Holds(cat, r2)
    <2>1. Names(M \union G) \subseteq L /\ \A o \in M, c \in cat : c.name = o.name => c \in G
      BY <1>1 DEF Holds, Shadows
    <2>2. Names(N \union H) \subseteq K
      BY <1>4, <1>14, <2>1 DEF Names
    <2>3. ASSUME NEW o \in N, NEW c \in cat, c.name = o.name
          PROVE  c \in H
      <3>1. CASE o \in M
        BY <1>4, <2>1, <2>3, <3>1
      <3>2. CASE o \in A
        <4>1. c.name \notin Names(V)
          BY <1>5, <2>3, <3>2
        <4>2. c \notin V
          BY <4>1 DEF Names
        <4>3. QED
          BY <1>4, <4>2
      <3>3. QED
        BY <1>4, <3>1, <3>2
    <2>4. QED
      BY <1>1, <2>2, <2>3 DEF Holds, Shadows
  <1>18. QED
    BY <1>1, <1>16, <1>17
-------------------------------------------------------------------------------
(***************************************************************************)
(* The inductive invariant.                                                *)
(***************************************************************************)
RunType == [busy : BOOLEAN, from : 0..2, passed : BOOLEAN, todo : Seq(Statement),
            made : SUBSET Object, gone : SUBSET Object, locks : SUBSET Name]

\* A running command has executed some of the statements of its script, and the
\* others are to come.
RunOk(cat, r) ==
    /\ r.busy => \E to, D : Follows(r, to, D) /\ Did(cat, r, D)
    /\ Holds(cat, r)

MigrationsInv ==
    /\ TypeOK
    /\ CatalogOk(catalog)
    /\ \A p \in Runs : RunOk(catalog, run[p])
    /\ \A p, q \in Runs : p # q => run[p].locks \intersect run[q].locks = {}

LEMMA IdleIs ==
  /\ Idle \in RunType /\ Idle.busy = FALSE /\ Idle.todo = <<>>
  /\ Idle.made = {} /\ Idle.gone = {} /\ Idle.locks = {}
  /\ \A cat : RunOk(cat, Idle)
  <1>1. /\ Idle.busy = FALSE /\ Idle.todo = <<>> /\ Idle.made = {} /\ Idle.gone = {}
        /\ Idle.locks = {}
    BY DEF Idle
  <1>2. Idle \in RunType
    <2>1. <<>> \in Seq(Statement)
      OBVIOUS
    <2>2. QED
      BY <2>1 DEF Idle, RunType
  <1>3. \A cat : RunOk(cat, Idle)
    BY <1>1 DEF RunOk, Holds, Shadows, Names
  <1>4. QED
    BY <1>1, <1>2, <1>3

\* The catalog changes under a transaction by the commit of another: nothing that
\* it has used, made or removed changes, since it holds those names.
LEMMA OtherCommits ==
  ASSUME NEW cat, NEW r, NEW q, NEW r2, RunOk(cat, r), Holds(cat, q),
         r.locks \intersect q.locks = {},
         r2.busy = r.busy, r2.from = r.from, r2.todo = r.todo,
         r2.made = r.made, r2.gone = r.gone, r2.locks = r.locks
  PROVE  RunOk(Sees(cat, q), r2)
  <1>1. PICK G, M, L, H, N, K, C : /\ G = r.gone /\ M = r.made /\ L = r.locks
                                   /\ H = q.gone /\ N = q.made /\ K = q.locks
                                   /\ C = Sees(cat, q)
    OBVIOUS
  <1>2. /\ Names(M \union G) \subseteq L /\ Names(N \union H) \subseteq K
        /\ \A o \in M, c \in cat : c.name = o.name => c \in G
        /\ L \intersect K = {} /\ C = (cat \ H) \union N
    BY <1>1 DEF RunOk, Holds, Shadows, Sees
  <1>3. /\ \A o \in M \union G : o.name \in L
        /\ \A o \in N \union H : o.name \in K
    BY <1>2 DEF Names
  <1>4. Holds(C, r2)
    <2>1. ASSUME NEW o \in M, NEW c \in C, c.name = o.name
          PROVE  c \in G
      <3>1. c \notin N
        BY <1>2, <1>3, <2>1
      <3>2. QED
        BY <1>2, <2>1, <3>1
    <2>2. QED
      BY <1>1, <1>2, <2>1 DEF Holds, Shadows
  <1>5. ASSUME NEW to, NEW D, Follows(r, to, D), Did(cat, r, D)
        PROVE  Follows(r2, to, D) /\ Did(C, r2, D)
    <2>1. Follows(r2, to, D)
      BY <1>5 DEF Follows
    <2>2. PICK V, W : V = (cat \ G) \union M /\ W = (C \ G) \union M
      OBVIOUS
    <2>3. /\ M \subseteq Makes(D) /\ G \subseteq cat \union Makes(D)
          /\ \A o \in G : o.name \in Drops(D) \/ o.owner \in Drops(D)
          /\ Drops(D) \subseteq Names(G) /\ Drops(D) \intersect Names(V) = {}
          /\ \A o \in Firm(D) : /\ o \in M \union G /\ o.uses \subseteq L
                                /\ o.uses \subseteq Names(V) \union Names(G)
      BY <1>1, <1>5, <2>2 DEF Did, Sees
    <2>4. G \subseteq C \union Makes(D)
      <3>1. \A o \in G : o \notin H
        BY <1>2, <1>3
      <3>2. QED
        BY <1>2, <2>3, <3>1
    <2>5. Drops(D) \subseteq L
      BY <1>3, <2>3 DEF Names
    <2>6. Drops(D) \intersect Names(W) = {}
      <3>1. ASSUME NEW o \in W
            PROVE  o.name \notin Drops(D)
        <4>1. CASE o \in V
          BY <2>3, <4>1 DEF Names
        <4>2. CASE o \in N
          BY <1>2, <1>3, <2>5, <4>2
        <4>3. QED
          BY <1>2, <2>2, <4>1, <4>2
      <3>2. QED
        BY <3>1 DEF Names
    <2>7. ASSUME NEW o \in Firm(D), NEW u \in o.uses
          PROVE  u \in Names(W) \union Names(G)
      <3>1. u \in L /\ u \in Names(V) \union Names(G)
        BY <2>3
      <3>2. CASE u \in Names(V)
        <4>1. PICK x \in V : x.name = u
          BY <3>2 DEF Names
        <4>2. x \notin H
          BY <1>2, <1>3, <3>1, <4>1
        <4>3. x \in W
          BY <1>2, <2>2, <4>1, <4>2
        <4>4. QED
          BY <4>1, <4>3 DEF Names
      <3>3. QED
        BY <3>1, <3>2
    <2>8. Sees(C, r2) = W
      BY <1>1, <2>2 DEF Sees
    <2>9. Did(C, r2, D)
      BY <1>1, <2>3, <2>4, <2>6, <2>7, <2>8 DEF Did
    <2>10. QED
      BY <2>1, <2>9
  <1>6. QED
    BY <1>1, <1>4, <1>5 DEF RunOk

LEMMA ScriptIs ==
  ASSUME NEW from \in 0..2, NEW to \in 0..2, from # to
  PROVE  Script(from, to) \in Seq(Statement) /\ OrderOk(Script(from, to))
  <1>1. \/ from = 0 /\ to = 1
        \/ from = 0 /\ to = 2
        \/ from = 1 /\ to = 2
        \/ from = 2 /\ to = 1
        \/ from = 2 /\ to = 0
        \/ from = 1 /\ to = 0
    OBVIOUS
  <1>2. /\ Script(0, 1) \in Seq(Statement) /\ OrderOk(Script(0, 1))
        /\ Script(0, 2) \in Seq(Statement) /\ OrderOk(Script(0, 2))
        /\ Script(1, 2) \in Seq(Statement) /\ OrderOk(Script(1, 2))
        /\ Script(2, 1) \in Seq(Statement) /\ OrderOk(Script(2, 1))
        /\ Script(2, 0) \in Seq(Statement) /\ OrderOk(Script(2, 0))
        /\ Script(1, 0) \in Seq(Statement) /\ OrderOk(Script(1, 0))
    BY ScriptsUp, ScriptsDown DEF Does
  <1>3. QED
    BY <1>1, <1>2

LEMMA Started ==
  ASSUME NEW cat, NEW r, NEW to \in 0..2, r.from \in 0..2, to # r.from,
         r.todo = Script(r.from, to), r.made = {}, r.gone = {}, r.locks = {}
  PROVE  RunOk(cat, r)
  <1>1. r.todo \in Seq(Statement) /\ OrderOk(r.todo)
    BY ScriptIs
  <1>2. Makes({}) = {} /\ Drops({}) = {} /\ Firm({}) = {} /\ Names({}) = {}
    BY DEF Makes, Drops, Firm, Names
  <1>3. Follows(r, to, {})
    BY <1>1, <1>2 DEF Follows
  <1>4. Did(cat, r, {})
    BY <1>2 DEF Did
  <1>5. Holds(cat, r)
    BY <1>2 DEF Holds, Shadows
  <1>6. QED
    BY <1>3, <1>4, <1>5 DEF RunOk

LEMMA OneRunChanges ==
  ASSUME MigrationsInv, NEW p \in Runs, NEW x \in RunType, x.busy \/ x = Idle,
         catalog' = catalog, run' = [run EXCEPT ![p] = x], RunOk(catalog, x),
         \A q \in Runs \ {p} : run[q].locks \intersect x.locks = {}
  PROVE  MigrationsInv'
  <1>1. /\ catalog \subseteq Object /\ run \in [Runs -> RunType]
        /\ \A q \in Runs : run[q].busy \/ run[q] = Idle
    BY DEF MigrationsInv, TypeOK, RunType
  <1>2. /\ run' \in [Runs -> RunType]
        /\ \A q \in Runs : run'[q] = IF q = p THEN x ELSE run[q]
    BY <1>1
  <1>3. TypeOK'
    <2>1. \A q \in Runs : run'[q].busy \/ run'[q] = Idle
      BY <1>1, <1>2
    <2>2. QED
      BY <1>1, <1>2, <2>1 DEF TypeOK, RunType
  <1>4. \A q \in Runs : RunOk(catalog, run'[q])
    BY <1>2 DEF MigrationsInv
  <1>5. \A a, b \in Runs : a # b => run'[a].locks \intersect run'[b].locks = {}
    <2>1. \A a, b \in Runs : a # b => run[a].locks \intersect run[b].locks = {}
      BY DEF MigrationsInv
    <2>2. QED
      BY <1>2, <2>1
  <1>6. QED
    BY <1>3, <1>4, <1>5 DEF MigrationsInv

LEMMA StartKeeps ==
  ASSUME MigrationsInv, NEW p \in Runs, NEW to \in 0..2, Start(p, to)
  PROVE  MigrationsInv'
  <1>1. PICK v : v = Version
    OBVIOUS
  <1>2. v \in 0..2 /\ to # v
    BY <1>1 DEF Version, Start
  <1>3. PICK s : s = Script(v, to)
    OBVIOUS
  <1>4. s \in Seq(Statement)
    BY <1>2, <1>3, ScriptIs
  <1>5. PICK x : x = [busy |-> TRUE, from |-> v, passed |-> FALSE, todo |-> s,
                      made |-> {}, gone |-> {}, locks |-> {}]
    OBVIOUS
  <1>6. /\ x \in RunType /\ x.busy /\ x.from = v /\ x.todo = s
        /\ x.made = {} /\ x.gone = {} /\ x.locks = {}
    BY <1>2, <1>4, <1>5 DEF RunType
  <1>7. RunOk(catalog, x)
    BY <1>2, <1>3, <1>6, Started
  <1>8. run' = [run EXCEPT ![p] = x] /\ catalog' = catalog
    BY <1>1, <1>3, <1>5 DEF Start
  <1>9. QED
    BY <1>6, <1>7, <1>8, OneRunChanges

LEMMA ExecuteKeeps ==
  ASSUME MigrationsInv, NEW p \in Runs, Execute(p)
  PROVE  MigrationsInv'
  <1>1. PICK r, s, V, X, A : /\ r = run[p] /\ s = Head(r.todo) /\ V = View(p)
                             /\ X = Removed(s, V) /\ A = Added(s, V)
    <2>1. PICK r, V : r = run[p] /\ V = View(p)
      OBVIOUS
    <2>2. PICK s : s = Head(r.todo)
      OBVIOUS
    <2>3. PICK X, A : X = Removed(s, V) /\ A = Added(s, V)
      OBVIOUS
    <2>4. QED
      BY <2>1, <2>2, <2>3
  <1>2. /\ r \in RunType /\ catalog \subseteq Object /\ r.todo # <<>>
        /\ r.busy \/ r = Idle
    BY <1>1 DEF MigrationsInv, TypeOK, RunType, Execute
  <1>3. r.busy
    BY <1>2, IdleIs
  <1>4. /\ r.from \in 0..2 /\ r.passed \in BOOLEAN /\ r.todo \in Seq(Statement)
        /\ r.made \subseteq Object /\ r.gone \subseteq Object /\ r.locks \subseteq Name
    BY <1>2 DEF RunType
  <1>5. s \in Statement /\ Tail(r.todo) \in Seq(Statement)
    BY <1>1, <1>2, <1>4, HeadTailProperties
  <1>6. V = Sees(catalog, r) /\ V \subseteq Object
    BY <1>1, <1>2, <1>4 DEF View, Sees
  <1>7. X \subseteq Object /\ A \subseteq Object
    <2>1. s.make \subseteq Object
      BY <1>5 DEF Statement
    <2>2. QED
      BY <1>1, <1>6, <2>1 DEF Removed, Added
  <1>8. PICK T : T = Touched(s, V)
    OBVIOUS
  <1>9. T \subseteq Name
    <2>1. \A o \in X \union A : o.name \in Name /\ o.owner \in Name /\ o.uses \subseteq Name
      BY <1>7 DEF Object
    <2>2. T = Names(X \union A) \union UNION {o.uses \union {o.owner} : o \in X \union A}
      BY <1>1, <1>8 DEF Touched
    <2>3. QED
      BY <2>1, <2>2 DEF Names
  <1>10. PICK x : x = [busy |-> TRUE, from |-> r.from, passed |-> r.passed, todo |-> Tail(r.todo),
                       made |-> (r.made \ X) \union A, gone |-> r.gone \union X,
                       locks |-> r.locks \union T]
    OBVIOUS
  <1>11. /\ x.busy /\ x.from = r.from /\ x.todo = Tail(r.todo)
         /\ x.made = (r.made \ X) \union A /\ x.gone = r.gone \union X
         /\ x.locks = r.locks \union T
    BY <1>10
  <1>12. x \in RunType
    <2>1. PICK t, m, g, l : /\ t = Tail(r.todo) /\ m = (r.made \ X) \union A
                            /\ g = r.gone \union X /\ l = r.locks \union T
      OBVIOUS
    <2>2. t \in Seq(Statement) /\ m \in SUBSET Object /\ g \in SUBSET Object /\ l \in SUBSET Name
      BY <1>4, <1>5, <1>7, <1>9, <2>1
    <2>3. x = [busy |-> TRUE, from |-> r.from, passed |-> r.passed, todo |-> t,
               made |-> m, gone |-> g, locks |-> l]
      BY <1>10, <2>1
    <2>4. QED
      BY <1>4, <2>2, <2>3 DEF RunType
  <1>13. run' = [run EXCEPT ![p] = x] /\ catalog' = catalog
    BY <1>1, <1>8, <1>10 DEF Execute
  <1>14. ~Refused(s, V) /\ \A q \in Runs \ {p} : run[q].locks \intersect T = {}
    BY <1>1, <1>8 DEF Execute, Blocked
  <1>15. Executes(catalog, r, x, s)
    BY <1>1, <1>6, <1>8, <1>11, <1>14 DEF Executes
  <1>16. RunOk(catalog, x)
    <2>1. CatalogOk(catalog) /\ RunOk(catalog, r)
      BY <1>1 DEF MigrationsInv
    <2>2. PICK to, D : Follows(r, to, D) /\ Did(catalog, r, D)
      BY <1>3, <2>1 DEF RunOk
    <2>3. Holds(catalog, r)
      BY <2>1 DEF RunOk
    <2>4. Follows(x, to, D \union {s})
      BY <1>1, <1>2, <1>11, <2>2, NextFollows
    <2>5. Did(catalog, x, D \union {s}) /\ Holds(catalog, x)
      BY <1>1, <1>2, <1>15, <2>1, <2>2, <2>3, NextDid
    <2>6. QED
      BY <2>4, <2>5 DEF RunOk
  <1>17. \A q \in Runs \ {p} : run[q].locks \intersect x.locks = {}
    <2>1. \A q \in Runs \ {p} : run[q].locks \intersect r.locks = {}
      BY <1>1 DEF MigrationsInv
    <2>2. QED
      BY <1>11, <1>14, <2>1
  <1>18. QED
    BY <1>11, <1>12, <1>13, <1>16, <1>17, OneRunChanges

LEMMA EndKeeps ==
  ASSUME MigrationsInv, NEW p \in Runs, Fail(p) \/ Abort(p)
  PROVE  MigrationsInv'
  <1>1. PICK x : x = Idle
    OBVIOUS
  <1>2. run' = [run EXCEPT ![p] = x] /\ catalog' = catalog
    BY <1>1 DEF Fail, Abort
  <1>3. x \in RunType /\ RunOk(catalog, x) /\ x.locks = {}
    BY <1>1, IdleIs
  <1>4. QED
    BY <1>1, <1>2, <1>3, OneRunChanges

LEMMA CommitKeeps ==
  ASSUME MigrationsInv, NEW p \in Runs, Commit(p)
  PROVE  MigrationsInv'
  <1>1. PICK r, c : r = run[p] /\ c = catalog
    OBVIOUS
  <1>2. /\ c \subseteq Object /\ run \in [Runs -> RunType]
        /\ \A q \in Runs : run[q].busy \/ run[q] = Idle
        /\ CatalogOk(c) /\ \A q \in Runs : RunOk(c, run[q])
        /\ \A a, b \in Runs : a # b => run[a].locks \intersect run[b].locks = {}
    BY <1>1 DEF MigrationsInv, TypeOK, RunType
  <1>3. r.busy /\ r.todo = <<>> /\ catalog' = Sees(c, r)
    BY <1>1 DEF Commit, View, Sees
  <1>4. run' = [q \in Runs |-> IF q = p THEN Idle ELSE [run[q] EXCEPT !.passed = run[q].busy]]
    BY DEF Commit
  <1>5. CatalogOk(catalog')
    <2>1. RunOk(c, r)
      BY <1>1, <1>2
    <2>2. PICK to, D : Follows(r, to, D) /\ Did(c, r, D)
      BY <1>3, <2>1 DEF RunOk
    <2>3. Statements(r.todo) = {}
      BY <1>3 DEF Statements
    <2>4. /\ r.from \in 0..2 /\ to \in 0..2 /\ r.from # to
          /\ Did(c, r, Statements(Script(r.from, to)))
      BY <2>2, <2>3 DEF Follows
    <2>5. Shadows(c, r)
      BY <2>1 DEF RunOk, Holds
    <2>6. QED
      BY <1>2, <1>3, <2>4, <2>5, Finished
  <1>6. ASSUME NEW q \in Runs, q # p
        PROVE  /\ run'[q] \in RunType /\ (run'[q].busy \/ run'[q] = Idle)
               /\ run'[q].locks = run[q].locks /\ RunOk(catalog', run'[q])
    <2>1. PICK x, y : x = run[q] /\ y = [x EXCEPT !.passed = x.busy]
      <3>1. PICK x : x = run[q]
        OBVIOUS
      <3>2. QED
        BY <3>1
    <2>2. x \in RunType /\ (x.busy \/ x = Idle) /\ RunOk(c, x)
      BY <1>2, <2>1
    <2>3. run'[q] = y
      BY <1>4, <1>6, <2>1
    <2>4. x.busy \in BOOLEAN
      BY <2>2 DEF RunType
    <2>5. /\ y \in RunType /\ y.busy = x.busy /\ y.from = x.from /\ y.todo = x.todo
          /\ y.made = x.made /\ y.gone = x.gone /\ y.locks = x.locks
      BY <2>1, <2>2, <2>4 DEF RunType
    <2>6. y.busy \/ y = Idle
      <3>1. CASE x.busy
        BY <2>5, <3>1
      <3>2. CASE x = Idle
        <4>1. x.busy = x.passed
          BY <3>2 DEF Idle
        <4>2. [x EXCEPT !.passed = x.passed] = x
          BY <2>2 DEF RunType
        <4>3. QED
          BY <2>1, <3>2, <4>1, <4>2
      <3>3. QED
        BY <2>2, <3>1, <3>2
    <2>7. RunOk(catalog', y)
      <3>1. Holds(c, r) /\ x.locks \intersect r.locks = {}
        BY <1>1, <1>2, <1>6, <2>1 DEF RunOk
      <3>2. RunOk(Sees(c, r), y)
        BY <2>2, <2>5, <3>1, OtherCommits
      <3>3. QED
        BY <1>3, <3>2
    <2>8. QED
      BY <2>1, <2>3, <2>5, <2>6, <2>7
  <1>7. run'[p] = Idle
    BY <1>4
  <1>8. TypeOK'
    <2>1. catalog' \subseteq Object
      BY <1>5, CatalogNames
    <2>2. \A q \in Runs : run'[q] \in RunType /\ (run'[q].busy \/ run'[q] = Idle)
      BY <1>6, <1>7, IdleIs
    <2>3. run' \in [Runs -> RunType]
      BY <1>4, <2>2
    <2>4. QED
      BY <2>1, <2>2, <2>3 DEF TypeOK, RunType
  <1>9. \A q \in Runs : RunOk(catalog', run'[q])
    BY <1>6, <1>7, IdleIs
  <1>10. \A a, b \in Runs : a # b => run'[a].locks \intersect run'[b].locks = {}
    BY <1>2, <1>6, <1>7, IdleIs
  <1>11. QED
    BY <1>5, <1>8, <1>9, <1>10 DEF MigrationsInv

LEMMA MigrationsBegin ==
  ASSUME Init
  PROVE  MigrationsInv
  <1>1. catalog = {} /\ run = [p \in Runs |-> Idle]
    BY DEF Init
  <1>2. \A p \in Runs : run[p] = Idle
    BY <1>1
  <1>3. run \in [Runs -> RunType]
    BY <1>1, IdleIs
  <1>4. TypeOK
    BY <1>1, <1>2, <1>3 DEF TypeOK, RunType
  <1>5. CatalogOk(catalog)
    BY <1>1 DEF CatalogOk, Empty
  <1>6. QED
    BY <1>2, <1>4, <1>5, IdleIs DEF MigrationsInv

\* Every statement, commit and failure keeps the invariant.
LEMMA MigrationsHold == Spec => []MigrationsInv
  <1>1. Init => MigrationsInv
    BY MigrationsBegin
  <1>2. MigrationsInv /\ [Next]_vars => MigrationsInv'
    <2> SUFFICES ASSUME MigrationsInv, [Next]_vars
                 PROVE  MigrationsInv'
      OBVIOUS
    <2>1. ASSUME NEW p \in Runs, NEW to \in 0..2, Start(p, to)
          PROVE  MigrationsInv'
      BY <2>1, StartKeeps
    <2>2. ASSUME NEW p \in Runs, Execute(p)
          PROVE  MigrationsInv'
      BY <2>2, ExecuteKeeps
    <2>3. ASSUME NEW p \in Runs, Commit(p)
          PROVE  MigrationsInv'
      BY <2>3, CommitKeeps
    <2>4. ASSUME NEW p \in Runs, Fail(p) \/ Abort(p)
          PROVE  MigrationsInv'
      BY <2>4, EndKeeps
    <2>5. CASE UNCHANGED vars
      BY <2>5 DEF vars, MigrationsInv, TypeOK, RunOk
    <2>6. QED
      BY <2>1, <2>2, <2>3, <2>4, <2>5 DEF Next
  <1>3. QED
    BY <1>1, <1>2, PTL DEF Spec

\* The catalog and the transactions keep their types, and a command that is not
\* running holds nothing, for any number of commands.
THEOREM MigrationsTypesHold == Spec => []TypeOK
  <1>1. MigrationsInv => TypeOK
    BY DEF MigrationsInv
  <1>2. QED
    BY <1>1, MigrationsHold, PTL

\* However many "alembic upgrade" and "alembic downgrade" commands overlap, are
\* refused or are interrupted, the committed revision tells what is in the
\* database: exactly the objects of its schema, or at revision 0 nothing but the
\* version table and the three types that the downgrade of 0001 leaves.
THEOREM SchemaMatchesVersion == Spec => []SchemaIsOfVersion
  <1>1. MigrationsInv => SchemaIsOfVersion
    <2> SUFFICES ASSUME MigrationsInv
                 PROVE  SchemaIsOfVersion
      OBVIOUS
    <2>1. CatalogOk(catalog)
      BY DEF MigrationsInv
    <2>2. /\ "0001" \in Names(catalog) <=> catalog = Schema(1)
          /\ "0002" \in Names(catalog) <=> catalog = Schema(2)
      BY <2>1, CatalogNames
    <2>3. CASE catalog = Schema(2)
      BY <2>2, <2>3 DEF SchemaIsOfVersion, Version
    <2>4. CASE catalog # Schema(2) /\ catalog = Schema(1)
      BY <2>2, <2>4 DEF SchemaIsOfVersion, Version
    <2>5. CASE catalog # Schema(2) /\ catalog # Schema(1)
      <3>1. Empty(catalog) /\ Version = 0
        BY <2>1, <2>2, <2>5 DEF CatalogOk, Version
      <3>2. QED
        BY <3>1, SchemaIs DEF SchemaIsOfVersion, Empty
    <2>6. QED
      BY <2>3, <2>4, <2>5
  <1>2. QED
    BY <1>1, MigrationsHold, PTL


-------------------------------------------------------------------------------
(***************************************************************************)
(* Statements that will not be refused.  Ready(V, q, E) says of the         *)
(* statements q still to come, and of the objects V their transaction sees, *)
(* that each of them will find what it needs, unless another command        *)
(* commits in between; E are the objects that may be in its way.            *)
(***************************************************************************)

\* What is made is new.
NewNames(V, q, E) ==
    \A i \in DOMAIN q : \A o \in q[i].make : o.name \notin Names(V) \/ q[i].lax \/ o \in E

\* No two statements make the same name, or drop the same name.
MadeOnce(q) ==
    \A i, j \in DOMAIN q : i < j => Names(q[i].make) \intersect Names(q[j].make) = {}

DroppedOnce(q) ==
    \A i, j \in DOMAIN q : i < j => q[i].drop \intersect q[j].drop = {}

\* What is dropped is there already or made before.
DropsThere(V, q) ==
    \A i \in DOMAIN q : \A n \in q[i].drop :
        n \in Names(V) \/ \E j \in DOMAIN q : j < i /\ n \in Names(q[j].make)

\* What is used is there already or made before, and not dropped before.
UsesThere(V, q) ==
    \A i \in DOMAIN q : \A o \in q[i].make : \A u \in o.uses :
        /\ u \in Names(V) \/ \E j \in DOMAIN q : j <= i /\ u \in Names(q[j].make)
        /\ \A j \in DOMAIN q : j < i => u \notin q[j].drop

\* Whoever uses, or is part of, what is dropped is dropped before or with it.
Unneeded(V, q) ==
    \A i \in DOMAIN q : \A o \in V \union Makes(Statements(q)) : \A u \in o.uses \union {o.owner} :
        u \in q[i].drop => u = o.name \/ \E j \in DOMAIN q : j <= i /\ o.name \in q[j].drop

Ready(V, q, E) ==
    /\ NewNames(V, q, E) /\ MadeOnce(q) /\ UsesThere(V, q)
    /\ DropsThere(V, q) /\ DroppedOnce(q) /\ Unneeded(V, q)

LEMMA TailIs ==
  ASSUME NEW q \in Seq(Statement), q # <<>>
  PROVE  /\ 1 \in DOMAIN q /\ q[1] = Head(q)
         /\ DOMAIN q \subseteq Nat /\ DOMAIN Tail(q) \subseteq Nat \ {0}
         /\ \A i \in DOMAIN Tail(q) : i + 1 \in DOMAIN q /\ Tail(q)[i] = q[i + 1]
         /\ \A i \in DOMAIN q : i = 1 \/ i - 1 \in DOMAIN Tail(q)
  <1>1. PICK n : n = Len(q)
    OBVIOUS
  <1>2. n \in Nat \ {0} /\ DOMAIN q = 1..n
    BY <1>1
  <1>3. /\ DOMAIN Tail(q) = 1..(n - 1) /\ Head(q) = q[1]
        /\ \A i \in 1..(n - 1) : Tail(q)[i] = q[i + 1]
    BY <1>1, HeadTailProperties
  <1>4. QED
    BY <1>2, <1>3

\* What a statement that is Ready leaves to be seen; nothing is removed with its owner.
LEMMA ReadyRemoves ==
  ASSUME NEW V, NEW E, NEW q \in Seq(Statement), q # <<>>, Ready(V, q, E)
  PROVE  /\ Removed(Head(q), V) = {o \in V : o.name \in Head(q).drop}
         /\ \A n \in Names(V) : n \notin Head(q).drop => n \in Names(V \ Removed(Head(q), V))
  <1>1. PICK s : s = Head(q)
    OBVIOUS
  <1>2. 1 \in DOMAIN q /\ q[1] = s /\ DOMAIN q \subseteq Nat /\ \A j \in DOMAIN q : j <= 1 => j = 1
    <2>1. \A j \in DOMAIN q : j >= 1
      OBVIOUS
    <2>2. QED
      BY <1>1, <2>1, TailIs
  <1>3. ASSUME NEW o \in V, o.owner \in s.drop
        PROVE  o.name \in s.drop
    BY <1>2, <1>3 DEF Ready, Unneeded
  <1>4. Removed(s, V) = {o \in V : o.name \in s.drop}
    BY <1>3 DEF Removed
  <1>5. QED
    BY <1>1, <1>4 DEF Names

\* Such a statement is refused for an object of E only.
LEMMA ReadyIsNotRefused ==
  ASSUME NEW V, NEW E, NEW q \in Seq(Statement), q # <<>>, Ready(V, q, E),
         Refused(Head(q), V)
  PROVE  Head(q).make \intersect E # {}
  <1>1. PICK s : s = Head(q)
    OBVIOUS
  <1>2. 1 \in DOMAIN q /\ q[1] = s /\ DOMAIN q \subseteq Nat
        /\ \A j \in DOMAIN q : (j <= 1 => j = 1) /\ ~(j < 1)
    <2>1. \A j \in DOMAIN q : j >= 1
      OBVIOUS
    <2>2. QED
      BY <1>1, <2>1, TailIs
  <1>3. s.drop \subseteq Names(V)
    BY <1>2 DEF Ready, DropsThere
  <1>4. ASSUME NEW o \in Added(s, V)
        PROVE  o.uses \subseteq Names(V) \union Names(s.make)
    BY <1>2, <1>4 DEF Ready, UsesThere, Added
  <1>5. ASSUME NEW o \in V \ Removed(s, V)
        PROVE  o.uses \intersect Names(Removed(s, V)) = {}
    <2>1. o.name \notin s.drop
      BY <1>5 DEF Removed
    <2>2. \A u \in o.uses : u \notin s.drop
      BY <1>2, <1>5, <2>1 DEF Ready, Unneeded
    <2>3. \A n \in Names(Removed(s, V)) : n \in s.drop
      BY <1>1, ReadyRemoves DEF Names
    <2>4. QED
      BY <2>2, <2>3
  <1>6. PICK o \in s.make : o.name \in Names(V) /\ ~s.lax
    BY <1>1, <1>3, <1>4, <1>5 DEF Refused, Names
  <1>7. o \in E
    BY <1>2, <1>6 DEF Ready, NewNames
  <1>8. QED
    BY <1>1, <1>6, <1>7

\* After it, the others are still Ready.
LEMMA ReadyStep ==
  ASSUME NEW V, NEW E, NEW q \in Seq(Statement), q # <<>>, OrderOk(q), Ready(V, q, E)
  PROVE  Ready((V \ Removed(Head(q), V)) \union Added(Head(q), V), Tail(q), E)
  <1>1. PICK s, t : s = Head(q) /\ t = Tail(q)
    <2>1. PICK s : s = Head(q)
      OBVIOUS
    <2>2. QED
      BY <2>1
  <1>2. PICK W : W = (V \ Removed(s, V)) \union Added(s, V)
    OBVIOUS
  <1>3. /\ 1 \in DOMAIN q /\ q[1] = s /\ DOMAIN q \subseteq Nat /\ DOMAIN t \subseteq Nat \ {0}
        /\ \A i \in DOMAIN t : i + 1 \in DOMAIN q /\ t[i] = q[i + 1] /\ 1 < i + 1
        /\ \A i \in DOMAIN q : i = 1 \/ i - 1 \in DOMAIN t
    <2>1. \A i \in Nat \ {0} : 1 < i + 1
      OBVIOUS
    <2>2. QED
      BY <1>1, <2>1, TailIs
  <1>4. /\ \A i, j \in DOMAIN t : (i < j <=> i + 1 < j + 1) /\ (i <= j <=> i + 1 <= j + 1)
        /\ \A j \in DOMAIN q : j # 1 => t[j - 1] = q[j] /\ (j - 1) + 1 = j
        /\ \A i \in DOMAIN t, j \in DOMAIN q :
              (j <= i + 1 /\ j # 1 => j - 1 <= i) /\ (j < i + 1 /\ j # 1 => j - 1 < i)
    <2>1. \A i, j \in Nat : (i < j <=> i + 1 < j + 1) /\ (i <= j <=> i + 1 <= j + 1)
                            /\ (j - 1) + 1 = j
                            /\ (j <= i + 1 => j - 1 <= i) /\ (j < i + 1 => j - 1 < i)
      OBVIOUS
    <2>2. QED
      BY <1>3, <2>1
  <1>5. /\ Removed(s, V) = {o \in V : o.name \in s.drop}
        /\ \A n \in Names(V) : n \notin s.drop => n \in Names(W)
        /\ \A n \in Names(s.make) : n \in Names(W) \/ n \in Names(V)
        /\ Names(W) \subseteq Names(V) \union Names(s.make)
        /\ \A o \in W : o \in s.make \/ (o \in V /\ o.name \notin s.drop)
    BY <1>1, <1>2, ReadyRemoves DEF Names, Added
  <1>6. \A i \in DOMAIN t : /\ Names(s.make) \intersect Names(t[i].make) = {}
                            /\ s.drop \intersect t[i].drop = {}
                            /\ s.drop \intersect Names(t[i].make) = {}
    <2> SUFFICES ASSUME NEW i \in DOMAIN t
                 PROVE  /\ Names(s.make) \intersect Names(t[i].make) = {}
                        /\ s.drop \intersect t[i].drop = {}
                        /\ s.drop \intersect Names(t[i].make) = {}
      OBVIOUS
    <2>1. i + 1 \in DOMAIN q /\ 1 \in DOMAIN q /\ 1 < i + 1 /\ 1 <= i + 1
      BY <1>3
    <2>2. QED
      BY <1>3, <2>1 DEF Ready, MadeOnce, DroppedOnce, OrderOk
  <1>7. s.drop \intersect Names(s.make) = {}
    <2>1. 1 <= 1
      OBVIOUS
    <2>2. QED
      BY <1>3, <2>1 DEF OrderOk
  <1>8. NewNames(W, t, E)
    <2> SUFFICES ASSUME NEW i \in DOMAIN t, NEW o \in t[i].make
                 PROVE  o.name \notin Names(W) \/ t[i].lax \/ o \in E
      BY DEF NewNames
    <2>1. o.name \notin Names(V) \/ t[i].lax \/ o \in E
      BY <1>3 DEF Ready, NewNames
    <2>2. o.name \notin Names(s.make)
      BY <1>6 DEF Names
    <2>3. QED
      BY <1>5, <2>1, <2>2
  <1>9. MadeOnce(t) /\ DroppedOnce(t)
    <2> SUFFICES ASSUME NEW i \in DOMAIN t, NEW j \in DOMAIN t, i < j
                 PROVE  /\ Names(t[i].make) \intersect Names(t[j].make) = {}
                        /\ t[i].drop \intersect t[j].drop = {}
      BY DEF MadeOnce, DroppedOnce
    <2>1. i + 1 \in DOMAIN q /\ j + 1 \in DOMAIN q /\ i + 1 < j + 1
      BY <1>3, <1>4
    <2>2. /\ Names(q[i + 1].make) \intersect Names(q[j + 1].make) = {}
          /\ q[i + 1].drop \intersect q[j + 1].drop = {}
      BY <2>1 DEF Ready, MadeOnce, DroppedOnce
    <2>3. QED
      BY <1>3, <2>2
  <1>10. UsesThere(W, t)
    <2> SUFFICES ASSUME NEW i \in DOMAIN t, NEW o \in t[i].make, NEW u \in o.uses
                 PROVE  /\ u \in Names(W) \/ \E j \in DOMAIN t : j <= i /\ u \in Names(t[j].make)
                        /\ \A j \in DOMAIN t : j < i => u \notin t[j].drop
      BY DEF UsesThere
    <2>1. /\ u \in Names(V) \/ \E j \in DOMAIN q : j <= i + 1 /\ u \in Names(q[j].make)
          /\ \A j \in DOMAIN q : j < i + 1 => u \notin q[j].drop
      BY <1>3 DEF Ready, UsesThere
    <2>2. u \notin s.drop
      BY <1>3, <2>1
    <2>3. \A j \in DOMAIN t : j < i => u \notin t[j].drop
      BY <1>3, <1>4, <2>1
    <2>4. CASE u \in Names(V) \union Names(s.make)
      BY <1>5, <2>2, <2>3, <2>4
    <2>5. CASE \E j \in DOMAIN q : j # 1 /\ j <= i + 1 /\ u \in Names(q[j].make)
      BY <1>3, <1>4, <2>3, <2>5
    <2>6. QED
      BY <1>3, <2>1, <2>4, <2>5
  <1>11. DropsThere(W, t)
    <2> SUFFICES ASSUME NEW i \in DOMAIN t, NEW n \in t[i].drop
                 PROVE  n \in Names(W) \/ \E j \in DOMAIN t : j < i /\ n \in Names(t[j].make)
      BY DEF DropsThere
    <2>1. n \in Names(V) \/ \E j \in DOMAIN q : j < i + 1 /\ n \in Names(q[j].make)
      BY <1>3 DEF Ready, DropsThere
    <2>2. n \notin s.drop
      BY <1>6
    <2>3. CASE n \in Names(V) \union Names(s.make)
      BY <1>5, <2>2, <2>3
    <2>4. CASE \E j \in DOMAIN q : j # 1 /\ j < i + 1 /\ n \in Names(q[j].make)
      BY <1>3, <1>4, <2>4
    <2>5. QED
      BY <1>3, <2>1, <2>3, <2>4
  <1>12. Unneeded(W, t)
    <2>1. /\ Makes(Statements(t)) \subseteq Makes(Statements(q))
          /\ s.make \subseteq Makes(Statements(q))
      BY <1>3 DEF Makes, Statements
    <2>2. \A o \in W \union Makes(Statements(t)) : /\ o.name \notin s.drop
                                                  /\ o \in V \union Makes(Statements(q))
      <3>1. \A o \in s.make : o.name \notin s.drop
        BY <1>7 DEF Names
      <3>2. \A o \in Makes(Statements(t)) : o.name \notin s.drop
        BY <1>6 DEF Names, Makes, Statements
      <3>3. QED
        BY <1>5, <2>1, <3>1, <3>2
    <2> SUFFICES ASSUME NEW i \in DOMAIN t, NEW o \in W \union Makes(Statements(t)),
                        NEW u \in o.uses \union {o.owner}, u \in t[i].drop, u # o.name
                 PROVE  \E j \in DOMAIN t : j <= i /\ o.name \in t[j].drop
      BY DEF Unneeded
    <2>3. PICK j \in DOMAIN q : j <= i + 1 /\ o.name \in q[j].drop
      BY <1>3, <2>2 DEF Ready, Unneeded
    <2>4. j # 1
      BY <1>3, <2>2, <2>3
    <2>5. QED
      BY <1>3, <1>4, <2>3, <2>4
  <1>13. QED
    BY <1>1, <1>2, <1>8, <1>9, <1>10, <1>11, <1>12 DEF Ready

\* What is seen after the statements of S, when none of them is refused.
After(V, S) == {o \in V \union Makes(S) : o.name \notin Drops(S)}

\* One script after another.
LEMMA ReadyJoined ==
  ASSUME NEW V, NEW E, NEW a \in Seq(Statement), NEW b \in Seq(Statement),
         NEW S, S = Statements(a), NEW T, T = Statements(b),
         Ready(V, a, E), Ready(After(V, S), b, E),
         Names(Makes(S)) \intersect Names(Makes(T)) = {},
         Drops(S) \intersect Names(Makes(T)) = {},
         \A o \in Makes(T) : o.owner \notin Drops(S) /\ o.uses \intersect Drops(S) = {}
  PROVE  Ready(V, a \o b, E)
  <1>1. PICK W, c : W = After(V, S) /\ c = a \o b
    <2>1. PICK W : W = After(V, S)
      OBVIOUS
    <2>2. QED
      BY <2>1
  <1>2. PICK m, n : m = Len(a) /\ n = Len(b)
    <2>1. PICK m : m = Len(a)
      OBVIOUS
    <2>2. QED
      BY <2>1
  <1>3. /\ m \in Nat /\ n \in Nat /\ DOMAIN a = 1..m /\ DOMAIN b = 1..n /\ DOMAIN c = 1..(m + n)
        /\ \A i \in 1..(m + n) : c[i] = IF i <= m THEN a[i] ELSE b[i - m]
    BY <1>1, <1>2, ConcatProperties
  <1>4. /\ \A i \in 1..m : i \in 1..(m + n) /\ c[i] = a[i]
        /\ \A i \in 1..n : m + i \in 1..(m + n) /\ c[m + i] = b[i]
    <2>1. \A i \in 1..m : i \in 1..(m + n) /\ i <= m
      BY <1>3
    <2>2. \A i \in 1..n : m + i \in 1..(m + n) /\ ~(m + i <= m) /\ (m + i) - m = i
      BY <1>3
    <2>3. QED
      BY <1>3, <2>1, <2>2
  <1>5. \A i \in 1..(m + n) : i \in 1..m \/ \E k \in 1..n : i = m + k
    <2> SUFFICES ASSUME NEW i \in 1..(m + n), i \notin 1..m
                 PROVE  i - m \in 1..n /\ i = m + (i - m)
      OBVIOUS
    <2>1. QED
      BY <1>3
  <1>6. /\ \A i \in 1..n, j \in 1..n : (m + i < m + j <=> i < j) /\ (m + i <= m + j <=> i <= j)
        /\ \A i \in 1..m, j \in 1..n : i < m + j /\ i <= m + j /\ ~(m + j <= i) /\ ~(m + j < i)
    BY <1>3
  <1>7. /\ \A i \in 1..m : a[i] \in S /\ a[i].drop \subseteq Drops(S) /\ a[i].make \subseteq Makes(S)
        /\ \A i \in 1..n : b[i] \in T /\ b[i].drop \subseteq Drops(T) /\ b[i].make \subseteq Makes(T)
        /\ \A o \in Makes(S) : \E i \in 1..m : o \in a[i].make
        /\ \A d \in Drops(S) : \E i \in 1..m : d \in a[i].drop
    BY <1>3 DEF Statements, Makes, Drops
  <1>8. /\ \A o \in V : o.name \in Drops(S) \/ o \in W
        /\ \A x \in Names(V) \union Names(Makes(S)) : x \in Drops(S) \/ x \in Names(W)
        /\ \A x \in Names(W) : x \notin Drops(S) /\ x \in Names(V) \union Names(Makes(S))
        /\ \A x \in Names(Makes(S)) : \E i \in 1..m : x \in Names(a[i].make)
    BY <1>1, <1>7 DEF After, Names
  <1>9. Ready(W, b, E)
    BY <1>1
  <1>10. NewNames(V, c, E)
    <2>1. ASSUME NEW i \in 1..n, NEW o \in b[i].make
          PROVE  o.name \notin Names(V) \/ b[i].lax \/ o \in E
      <3>1. o.name \notin Names(W) \/ b[i].lax \/ o \in E
        BY <1>3, <1>9 DEF Ready, NewNames
      <3>2. o.name \notin Drops(S)
        BY <1>7 DEF Names
      <3>3. QED
        BY <1>8, <3>1, <3>2
    <2>2. \A i \in 1..m : \A o \in a[i].make : o.name \notin Names(V) \/ a[i].lax \/ o \in E
      BY <1>3 DEF Ready, NewNames
    <2>3. QED
      BY <1>3, <1>4, <1>5, <2>1, <2>2 DEF NewNames
  <1>11. ASSUME NEW i \in 1..(m + n), NEW j \in 1..(m + n), i < j
         PROVE  /\ Names(c[i].make) \intersect Names(c[j].make) = {}
                /\ c[i].drop \intersect c[j].drop = {}
    <2>1. CASE i \in 1..m /\ j \in 1..m
      BY <1>3, <1>4, <1>11, <2>1 DEF Ready, MadeOnce, DroppedOnce
    <2>2. CASE i \notin 1..m /\ j \notin 1..m
      <3>1. PICK k \in 1..n, l \in 1..n : i = m + k /\ j = m + l
        BY <1>5, <2>2
      <3>2. k < l /\ c[i] = b[k] /\ c[j] = b[l]
        BY <1>4, <1>6, <1>11, <3>1
      <3>3. MadeOnce(b) /\ DroppedOnce(b)
        BY <1>9 DEF Ready
      <3>4. k \in DOMAIN b /\ l \in DOMAIN b
        BY <1>3, <3>1
      <3>5. /\ Names(b[k].make) \intersect Names(b[l].make) = {}
            /\ b[k].drop \intersect b[l].drop = {}
        BY <3>2, <3>3, <3>4 DEF MadeOnce, DroppedOnce
      <3>6. QED
        BY <3>2, <3>5
    <2>3. CASE i \in 1..m /\ j \notin 1..m
      <3>1. PICK l \in 1..n : j = m + l
        BY <1>5, <2>3
      <3>2. c[i] = a[i] /\ c[j] = b[l]
        BY <1>4, <2>3, <3>1
      <3>3. \A d \in b[l].drop : d \notin a[i].drop
        <4> SUFFICES ASSUME NEW d \in b[l].drop
                     PROVE  d \notin Drops(S)
          BY <1>7, <2>3
        <4>1. d \in Names(W) \/ \E k \in 1..n : d \in Names(b[k].make)
          BY <1>3, <1>9 DEF Ready, DropsThere
        <4>2. CASE d \in Names(W)
          BY <1>8, <4>2
        <4>3. CASE \E k \in 1..n : d \in Names(b[k].make)
          <5>1. d \in Names(Makes(T))
            BY <1>7, <4>3 DEF Names
          <5>2. QED
            BY <5>1
        <4>4. QED
          BY <4>1, <4>2, <4>3
      <3>4. /\ Names(a[i].make) \subseteq Names(Makes(S))
            /\ Names(b[l].make) \subseteq Names(Makes(T))
        BY <1>7, <2>3 DEF Names
      <3>5. QED
        BY <3>2, <3>3, <3>4
    <2>4. CASE i \notin 1..m /\ j \in 1..m
      BY <1>5, <1>6, <1>11, <2>4
    <2>5. QED
      BY <2>1, <2>2, <2>3, <2>4
  <1>12. UsesThere(V, c)
    <2>1. ASSUME NEW i \in 1..m, NEW o \in a[i].make, NEW u \in o.uses
          PROVE  /\ u \in Names(V) \/ \E j \in 1..(m + n) : j <= i /\ u \in Names(c[j].make)
                 /\ \A j \in 1..(m + n) : j < i => u \notin c[j].drop
      <3>1. /\ u \in Names(V) \/ \E j \in 1..m : j <= i /\ u \in Names(a[j].make)
            /\ \A j \in 1..m : j < i => u \notin a[j].drop
        BY <1>3 DEF Ready, UsesThere
      <3>2. u \in Names(V) \/ \E j \in 1..(m + n) : j <= i /\ u \in Names(c[j].make)
        BY <1>4, <3>1
      <3>3. \A j \in 1..(m + n) : j < i => u \notin c[j].drop
        BY <1>4, <1>5, <1>6, <3>1
      <3>4. QED
        BY <3>2, <3>3
    <2>2. ASSUME NEW i \in 1..n, NEW o \in b[i].make, NEW u \in o.uses
          PROVE  /\ u \in Names(V) \/ \E j \in 1..(m + n) : j <= m + i /\ u \in Names(c[j].make)
                 /\ \A j \in 1..(m + n) : j < m + i => u \notin c[j].drop
      <3>1. /\ u \in Names(W) \/ \E j \in 1..n : j <= i /\ u \in Names(b[j].make)
            /\ \A j \in 1..n : j < i => u \notin b[j].drop
        BY <1>3, <1>9 DEF Ready, UsesThere
      <3>2. u \notin Drops(S)
        BY <1>7
      <3>3. ASSUME NEW j \in 1..(m + n), j < m + i
            PROVE  u \notin c[j].drop
        <4>1. CASE j \in 1..m
          BY <1>4, <1>7, <3>2, <4>1
        <4>2. CASE j \notin 1..m
          <5>1. PICK k \in 1..n : j = m + k
            BY <1>5, <4>2
          <5>2. k < i /\ c[j] = b[k]
            BY <1>4, <1>6, <3>3, <5>1
          <5>3. QED
            BY <3>1, <5>2
        <4>3. QED
          BY <4>1, <4>2
      <3>4. CASE u \in Names(V)
        BY <3>3, <3>4
      <3>5. CASE u \in Names(Makes(S))
        <4>1. PICK k \in 1..m : u \in Names(a[k].make)
          BY <1>8, <3>5
        <4>2. k \in 1..(m + n) /\ k <= m + i /\ u \in Names(c[k].make)
          BY <1>4, <1>6, <4>1
        <4>3. QED
          BY <3>3, <4>2
      <3>6. CASE \E j \in 1..n : j <= i /\ u \in Names(b[j].make)
        <4>1. PICK k \in 1..n : k <= i /\ u \in Names(b[k].make)
          BY <3>6
        <4>2. m + k \in 1..(m + n) /\ m + k <= m + i /\ u \in Names(c[m + k].make)
          BY <1>4, <1>6, <4>1
        <4>3. QED
          BY <3>3, <4>2
      <3>7. QED
        BY <1>8, <3>1, <3>4, <3>5, <3>6
    <2>3. ASSUME NEW i \in 1..(m + n), NEW o \in c[i].make, NEW u \in o.uses
          PROVE  /\ u \in Names(V) \/ \E j \in 1..(m + n) : j <= i /\ u \in Names(c[j].make)
                 /\ \A j \in 1..(m + n) : j < i => u \notin c[j].drop
      <3>1. CASE i \in 1..m
        BY <1>4, <2>1, <2>3, <3>1
      <3>2. CASE i \notin 1..m
        <4>1. PICK k \in 1..n : i = m + k
          BY <1>5, <3>2
        <4>2. o \in b[k].make
          BY <1>4, <2>3, <4>1
        <4>3. QED
          BY <2>2, <4>1, <4>2
      <3>3. QED
        BY <3>1, <3>2
    <2>4. QED
      BY <1>3, <2>3 DEF UsesThere
  <1>13. DropsThere(V, c)
    <2>1. ASSUME NEW i \in 1..m, NEW d \in a[i].drop
          PROVE  d \in Names(V) \/ \E j \in 1..(m + n) : j < i /\ d \in Names(c[j].make)
      <3>1. d \in Names(V) \/ \E j \in 1..m : j < i /\ d \in Names(a[j].make)
        BY <1>3 DEF Ready, DropsThere
      <3>2. QED
        BY <1>4, <3>1
    <2>2. ASSUME NEW i \in 1..n, NEW d \in b[i].drop
          PROVE  d \in Names(V) \/ \E j \in 1..(m + n) : j < m + i /\ d \in Names(c[j].make)
      <3>1. d \in Names(W) \/ \E j \in 1..n : j < i /\ d \in Names(b[j].make)
        BY <1>3, <1>9 DEF Ready, DropsThere
      <3>2. CASE d \in Names(W)
        <4>1. d \in Names(V) \/ \E k \in 1..m : d \in Names(a[k].make)
          BY <1>8, <3>2
        <4>2. QED
          BY <1>4, <1>6, <4>1
      <3>3. CASE \E j \in 1..n : j < i /\ d \in Names(b[j].make)
        <4>1. PICK k \in 1..n : k < i /\ d \in Names(b[k].make)
          BY <3>3
        <4>2. m + k \in 1..(m + n) /\ m + k < m + i /\ d \in Names(c[m + k].make)
          BY <1>4, <1>6, <4>1
        <4>3. QED
          BY <4>2
      <3>4. QED
        BY <3>1, <3>2, <3>3
    <2>3. ASSUME NEW i \in 1..(m + n), NEW d \in c[i].drop
          PROVE  d \in Names(V) \/ \E j \in 1..(m + n) : j < i /\ d \in Names(c[j].make)
      <3>1. CASE i \in 1..m
        BY <1>4, <2>1, <2>3, <3>1
      <3>2. CASE i \notin 1..m
        <4>1. PICK k \in 1..n : i = m + k
          BY <1>5, <3>2
        <4>2. d \in b[k].drop
          BY <1>4, <2>3, <4>1
        <4>3. QED
          BY <2>2, <4>1, <4>2
      <3>3. QED
        BY <3>1, <3>2
    <2>4. QED
      BY <1>3, <2>3 DEF DropsThere
  <1>14. Unneeded(V, c)
    <2>1. Makes(Statements(c)) = Makes(S) \union Makes(T)
      BY <1>1, JoinedIs, MakesOfTwo
    <2>2. ASSUME NEW i \in 1..m, NEW o \in V \union Makes(S) \union Makes(T),
                 NEW u \in o.uses \union {o.owner}, u \in a[i].drop, u # o.name
          PROVE  \E j \in 1..(m + n) : j <= i /\ o.name \in c[j].drop
      <3>1. o \notin Makes(T)
        BY <1>7, <2>2
      <3>2. PICK j \in 1..m : j <= i /\ o.name \in a[j].drop
        BY <1>3, <2>2, <3>1 DEF Ready, Unneeded
      <3>3. QED
        BY <1>4, <3>2
    <2>3. ASSUME NEW i \in 1..n, NEW o \in V \union Makes(S) \union Makes(T),
                 NEW u \in o.uses \union {o.owner}, u \in b[i].drop, u # o.name
          PROVE  \E j \in 1..(m + n) : j <= m + i /\ o.name \in c[j].drop
      <3>1. CASE o.name \in Drops(S)
        BY <1>4, <1>6, <1>7, <3>1
      <3>2. CASE o.name \notin Drops(S)
        <4>1. o \in W \union Makes(T)
          BY <1>1, <3>2 DEF After
        <4>2. PICK j \in 1..n : j <= i /\ o.name \in b[j].drop
          BY <1>3, <1>9, <2>3, <4>1 DEF Ready, Unneeded
        <4>3. m + j \in 1..(m + n) /\ m + j <= m + i /\ o.name \in c[m + j].drop
          BY <1>4, <1>6, <4>2
        <4>4. QED
          BY <4>3
      <3>3. QED
        BY <3>1, <3>2
    <2>4. ASSUME NEW i \in 1..(m + n), NEW o \in V \union Makes(S) \union Makes(T),
                 NEW u \in o.uses \union {o.owner}, u \in c[i].drop, u # o.name
          PROVE  \E j \in 1..(m + n) : j <= i /\ o.name \in c[j].drop
      <3>1. CASE i \in 1..m
        BY <1>4, <2>2, <2>4, <3>1
      <3>2. CASE i \notin 1..m
        <4>1. PICK k \in 1..n : i = m + k
          BY <1>5, <3>2
        <4>2. QED
          BY <1>4, <2>3, <2>4, <4>1
      <3>3. QED
        BY <3>1, <3>2
    <2>5. QED
      BY <1>3, <2>1, <2>4 DEF Unneeded
  <1>15. QED
    BY <1>1, <1>3, <1>10, <1>11, <1>12, <1>13, <1>14 DEF Ready, MadeOnce, DroppedOnce

\* A script that only makes, by the turn at which it makes each name.
LEMMA ReadyUp ==
  ASSUME NEW V, NEW E, NEW q \in Seq(Statement), NEW Turn,
         \A i \in DOMAIN q :
            /\ q[i].drop = {}
            /\ \A o \in q[i].make :
                  /\ o.name \notin Names(V) \/ q[i].lax \/ o \in E
                  /\ Turn[o.name] = i
                  /\ \A u \in o.uses : \/ u \in Names(V)
                                       \/ u \in Names(Makes(Statements(q))) /\ Turn[u] <= i
  PROVE  Ready(V, q, E)
  <1>1. DOMAIN q \subseteq Nat
    OBVIOUS
  <1>2. \A i \in DOMAIN q : \A n \in Names(q[i].make) : Turn[n] = i
    BY DEF Names
  <1>3. \A n \in Names(Makes(Statements(q))) : \E i \in DOMAIN q : n \in Names(q[i].make)
    BY DEF Names, Makes, Statements
  <1>4. MadeOnce(q)
    <2> SUFFICES ASSUME NEW i \in DOMAIN q, NEW j \in DOMAIN q, i < j,
                        NEW n \in Names(q[i].make), n \in Names(q[j].make)
                 PROVE  FALSE
      BY DEF MadeOnce
    <2>1. i = j
      BY <1>2
    <2>2. QED
      BY <1>1, <2>1
  <1>5. UsesThere(V, q)
    <2> SUFFICES ASSUME NEW i \in DOMAIN q, NEW o \in q[i].make, NEW u \in o.uses, u \notin Names(V)
                 PROVE  \E j \in DOMAIN q : j <= i /\ u \in Names(q[j].make)
      BY DEF UsesThere
    <2>1. u \in Names(Makes(Statements(q))) /\ Turn[u] <= i
      OBVIOUS
    <2>2. PICK j \in DOMAIN q : u \in Names(q[j].make)
      BY <1>3, <2>1
    <2>3. Turn[u] = j
      BY <1>2, <2>2
    <2>4. QED
      BY <2>1, <2>2, <2>3
  <1>6. NewNames(V, q, E) /\ DropsThere(V, q) /\ DroppedOnce(q) /\ Unneeded(V, q)
    BY DEF NewNames, DropsThere, DroppedOnce, Unneeded
  <1>7. QED
    BY <1>4, <1>5, <1>6 DEF Ready

\* A script that only drops, by the turn at which it drops each name.
LEMMA ReadyDown ==
  ASSUME NEW V, NEW E, NEW q \in Seq(Statement), NEW Turn,
         \A i \in DOMAIN q : q[i].make = {} /\ \A n \in q[i].drop : Turn[n] = i,
         Drops(Statements(q)) \subseteq Names(V),
         \A o \in V : \A u \in o.uses \union {o.owner} :
            u \in Drops(Statements(q)) /\ u # o.name
            => o.name \in Drops(Statements(q)) /\ Turn[o.name] <= Turn[u]
  PROVE  Ready(V, q, E)
  <1>1. /\ DOMAIN q \subseteq Nat
        /\ \A i \in DOMAIN q : q[i].drop \subseteq Drops(Statements(q))
        /\ \A n \in Drops(Statements(q)) : \E i \in DOMAIN q : n \in q[i].drop
        /\ Makes(Statements(q)) = {}
    BY DEF Drops, Makes, Statements
  <1>2. DroppedOnce(q)
    <2> SUFFICES ASSUME NEW i \in DOMAIN q, NEW j \in DOMAIN q, i < j,
                        NEW n \in q[i].drop, n \in q[j].drop
                 PROVE  FALSE
      BY DEF DroppedOnce
    <2>1. i = j
      OBVIOUS
    <2>2. QED
      BY <1>1, <2>1
  <1>3. Unneeded(V, q)
    <2> SUFFICES ASSUME NEW i \in DOMAIN q, NEW o \in V, NEW u \in o.uses \union {o.owner},
                        u \in q[i].drop, u # o.name
                 PROVE  \E j \in DOMAIN q : j <= i /\ o.name \in q[j].drop
      BY <1>1 DEF Unneeded
    <2>1. o.name \in Drops(Statements(q)) /\ Turn[o.name] <= Turn[u] /\ Turn[u] = i
      BY <1>1
    <2>2. PICK j \in DOMAIN q : o.name \in q[j].drop
      BY <1>1, <2>1
    <2>3. Turn[o.name] = j
      BY <2>2
    <2>4. QED
      BY <2>1, <2>2, <2>3
  <1>4. NewNames(V, q, E) /\ MadeOnce(q) /\ UsesThere(V, q)
    BY DEF NewNames, MadeOnce, UsesThere, Names
  <1>5. DropsThere(V, q)
    BY <1>1 DEF DropsThere
  <1>6. QED
    BY <1>2, <1>3, <1>4, <1>5 DEF Ready

\* One statement.
LEMMA ReadyOne ==
  ASSUME NEW V, NEW E, NEW s \in Statement,
         \A o \in s.make : o.name \notin Names(V) \/ s.lax,
         \A o \in s.make : \A u \in o.uses : u \in Names(V) \union Names(s.make),
         s.drop \subseteq Names(V),
         \A o \in V \union s.make : \A u \in o.uses \union {o.owner} :
            u \in s.drop => u = o.name \/ o.name \in s.drop
  PROVE  <<s>> \in Seq(Statement) /\ Ready(V, <<s>>, E)
  <1>1. PICK q : q = <<s>>
    OBVIOUS
  <1>2. q \in Seq(Statement) /\ DOMAIN q = {1} /\ q[1] = s /\ ~(1 < 1) /\ 1 <= 1
    BY <1>1
  <1>3. Makes(Statements(q)) = s.make
    BY <1>2 DEF Makes, Statements
  <1>4. NewNames(V, q, E) /\ MadeOnce(q) /\ UsesThere(V, q)
    BY <1>2 DEF NewNames, MadeOnce, UsesThere
  <1>5. DropsThere(V, q) /\ DroppedOnce(q)
    BY <1>2 DEF DropsThere, DroppedOnce
  <1>6. Unneeded(V, q)
    BY <1>2, <1>3 DEF Unneeded
  <1>7. QED
    BY <1>1, <1>2, <1>4, <1>5, <1>6 DEF Ready

-------------------------------------------------------------------------------
(***************************************************************************)
(* The turns of the names in the scripts.                                  *)
(***************************************************************************)

\* At which statement of the upgrade of revision 0001 each name is made.
Turn1 ==
    [n \in Names1 |->
        CASE n \in {"couples", "relationshipstatus"} -> 1
          [] n = "users" -> 2
          [] n = "albums" -> 3
          [] n \in {"memories", "memorycategory"} -> 4
          [] n = "fk_albums_cover_memory_id_memories" -> 5
          [] n = "rituals" -> 6
          [] n \in {"ritual_entries", "ritualstatus"} -> 7
          [] n \in {"letters", "letterstatus"} -> 8
          [] n = "special_dates" -> 9
          [] n \in {"surprises", "surprisestatus"} -> 10
          [] n = "watch_sessions" -> 11
          [] n = "refresh_tokens" -> 12
          [] n \in {"night_sessions", "nightsessionstatus"} -> 13
          [] n = "audit_logs" -> 14]

\* At which statement of its downgrade each name is dropped: the tables in the
\* opposite order, then the types.
Back1 ==
    [n \in Names1 |->
        IF n \in Tables_1 THEN 15 - Turn1[n]
        ELSE CASE n = "relationshipstatus" -> 15
               [] n = "memorycategory" -> 16
               [] n = "ritualstatus" -> 17
               [] OTHER -> 18]

\* The same for revision 0002.
Turn2 ==
    [n \in Names_2 |->
        CASE n = "plantier" -> 1
          [] n = "billinginterval" -> 2
          [] n = "subscriptionstatus" -> 3
          [] n = "couples.subscription_status" -> 4
          [] n = "couples.subscription_expires_at" -> 5
          [] n = "users.stripe_customer_id" -> 6
          [] n = "uq_users_stripe_customer_id" -> 7
          [] n = "plans" -> 8
          [] n = "subscriptions" -> 9
          [] n = "subscription_events" -> 10]

Back2 ==
    [n \in Names_2 |->
        IF n \in Types2 THEN 7 + Turn2[n] ELSE 11 - Turn2[n]]

\* What an object made at turn i of the upgrade of 0001 is.
OfTurn1(o, i) ==
    /\ o.name \in Names1 /\ Turn1[o.name] = i
    /\ \A u \in o.uses : u \in Names1 /\ Turn1[u] <= i
    /\ \A u \in o.uses \union {o.owner} :
          u # o.name => o.name \in Tables_1 /\ Back1[o.name] < Back1[u]

LEMMA TurnsAre1 ==
  /\ \A n \in Names1 : Turn1[n] \in 1..14
  /\ \A n \in Types_1 : Back1[n] \in 15..18
  /\ \A n \in Tables_1 : Back1[n] = 15 - Turn1[n]
  <1>1. \A n \in Names1 : Turn1[n] \in 1..14
    BY DEF Names1, Tables_1, Types_1, Turn1
  <1>2. \A n \in Types_1 : Back1[n] \in 15..18
    <2> SUFFICES ASSUME NEW n \in Types_1
                 PROVE  Back1[n] \in 15..18
      OBVIOUS
    <2>1. n \in Names1
      BY DEF Names1
    <2>2. n \notin Tables_1
      BY DEF Tables_1, Types_1
    <2>3. Back1[n] = CASE n = "relationshipstatus" -> 15
                       [] n = "memorycategory" -> 16
                       [] n = "ritualstatus" -> 17
                       [] OTHER -> 18
      BY <2>1, <2>2 DEF Back1
    <2>4. QED
      BY <2>3
  <1>3. \A n \in Tables_1 : Back1[n] = 15 - Turn1[n]
    BY DEF Names1, Back1
  <1>4. QED
    BY <1>1, <1>2, <1>3

LEMMA TableTurn ==
  ASSUME NEW t \in Tables_1, NEW types \in SUBSET Types_1, NEW parents \in SUBSET Tables_1,
         \A n \in types : Turn1[n] = Turn1[t],
         \A n \in parents : Turn1[n] < Turn1[t]
  PROVE  \A o \in CreateTable(t, types, parents).make : OfTurn1(o, Turn1[t])
  <1>1. Names1 \subseteq Name /\ Tables_1 \subseteq Names1 /\ Types_1 \subseteq Names1
    BY NamesApart DEF Names1
  <1>2. CreateTable(t, types, parents).make
          = {Obj(t, t, types \union parents)} \union {Type(n) : n \in types}
    <2>1. t \in Name /\ types \in SUBSET Name /\ parents \in SUBSET Name
      BY <1>1
    <2>2. QED
      BY <2>1, CreateTableIs, Zenon
  <1>3. OfTurn1(Obj(t, t, types \union parents), Turn1[t])
    <2>1. PICK o, u : u = types \union parents /\ o = Obj(t, t, u)
      OBVIOUS
    <2>2. o.name = t /\ o.owner = t /\ o.uses = u
      BY <1>1, <2>1, ObjIs
    <2>3. \A n \in u : n \in Names1 /\ Turn1[n] <= Turn1[t] /\ Back1[t] < Back1[n]
      <3>1. ASSUME NEW n \in types
            PROVE  n \in Names1 /\ Turn1[n] <= Turn1[t] /\ Back1[t] < Back1[n]
        BY <1>1, TurnsAre1
      <3>2. ASSUME NEW n \in parents
            PROVE  n \in Names1 /\ Turn1[n] <= Turn1[t] /\ Back1[t] < Back1[n]
        BY <1>1, TurnsAre1
      <3>3. QED
        BY <2>1, <3>1, <3>2
    <2>4. QED
      BY <1>1, <2>1, <2>2, <2>3 DEF OfTurn1
  <1>4. ASSUME NEW n \in types
        PROVE  OfTurn1(Type(n), Turn1[t])
    BY <1>1, TypeIs DEF OfTurn1
  <1>5. QED
    BY <1>2, <1>3, <1>4

LEMMA TurnValues1 ==
  /\ Turn1["couples"] = 1 /\ Turn1["users"] = 2 /\ Turn1["albums"] = 3
  /\ Turn1["memories"] = 4 /\ Turn1["fk_albums_cover_memory_id_memories"] = 5
  /\ Turn1["rituals"] = 6 /\ Turn1["ritual_entries"] = 7 /\ Turn1["letters"] = 8
  /\ Turn1["special_dates"] = 9 /\ Turn1["surprises"] = 10 /\ Turn1["watch_sessions"] = 11
  /\ Turn1["refresh_tokens"] = 12 /\ Turn1["night_sessions"] = 13 /\ Turn1["audit_logs"] = 14
  /\ Turn1["relationshipstatus"] = 1 /\ Turn1["memorycategory"] = 4
  /\ Turn1["ritualstatus"] = 7 /\ Turn1["letterstatus"] = 8
  /\ Turn1["surprisestatus"] = 10 /\ Turn1["nightsessionstatus"] = 13
  BY DEF Turn1, Names1, Tables_1, Types_1

LEMMA UpgradeTurns1 ==
  /\ DOMAIN Upgrade_1 = 1..14
  /\ \A i \in 1..14 : \A o \in Upgrade_1[i].make : OfTurn1(o, i)
  <1>1. \A o \in couples.make : OfTurn1(o, 1)
    BY TableTurn, TurnValues1 DEF couples, Tables_1, Types_1
  <1>2. \A o \in users.make : OfTurn1(o, 2)
    BY TableTurn, TurnValues1 DEF users, Tables_1, Types_1
  <1>3. \A o \in albums.make : OfTurn1(o, 3)
    BY TableTurn, TurnValues1 DEF albums, Tables_1, Types_1
  <1>4. \A o \in memories.make : OfTurn1(o, 4)
    BY TableTurn, TurnValues1 DEF memories, Tables_1, Types_1
  <1>5. \A o \in albums_cover.make : OfTurn1(o, 5)
    <2>1. PICK n, t, m, o : /\ n = "fk_albums_cover_memory_id_memories" /\ t = "albums"
                            /\ m = "memories" /\ o = Obj(n, t, {t} \union {m})
      <3>1. PICK n, t, m : /\ n = "fk_albums_cover_memory_id_memories" /\ t = "albums"
                           /\ m = "memories"
        OBVIOUS
      <3>2. QED
        BY <3>1
    <2>2. n \in Tables_1 /\ t \in Tables_1 /\ m \in Tables_1 /\ Tables_1 \subseteq Names1
          /\ Names1 \subseteq Name
      BY <2>1, NamesApart DEF Tables_1, Names1
    <2>3. n \in Name /\ t \in Name /\ {t} \union {m} \in SUBSET Name
      BY <2>2
    <2>4. o.name = n /\ o.owner = t /\ o.uses = {t} \union {m}
      BY <2>1, <2>3, ObjIs
    <2>5. Turn1[n] = 5 /\ Turn1[t] = 3 /\ Turn1[m] = 4
      BY <2>1, TurnValues1
    <2>6. Back1[n] = 10 /\ Back1[t] = 12 /\ Back1[m] = 11
      BY <2>2, <2>5, TurnsAre1
    <2>7. OfTurn1(o, 5)
      BY <2>2, <2>4, <2>5, <2>6 DEF OfTurn1
    <2>8. albums_cover.make = {o}
      BY <2>1 DEF albums_cover, Add
    <2>9. QED
      BY <2>7, <2>8
  <1>6. \A o \in rituals.make : OfTurn1(o, 6)
    BY TableTurn, TurnValues1 DEF rituals, Tables_1, Types_1
  <1>7. \A o \in ritual_entries.make : OfTurn1(o, 7)
    BY TableTurn, TurnValues1 DEF ritual_entries, Tables_1, Types_1
  <1>8. \A o \in letters.make : OfTurn1(o, 8)
    BY TableTurn, TurnValues1 DEF letters, Tables_1, Types_1
  <1>9. \A o \in special_dates.make : OfTurn1(o, 9)
    BY TableTurn, TurnValues1 DEF special_dates, Tables_1, Types_1
  <1>10. \A o \in surprises.make : OfTurn1(o, 10)
    BY TableTurn, TurnValues1 DEF surprises, Tables_1, Types_1
  <1>11. \A o \in watch_sessions.make : OfTurn1(o, 11)
    BY TableTurn, TurnValues1 DEF watch_sessions, Tables_1, Types_1
  <1>12. \A o \in refresh_tokens.make : OfTurn1(o, 12)
    BY TableTurn, TurnValues1 DEF refresh_tokens, Tables_1, Types_1
  <1>13. \A o \in night_sessions.make : OfTurn1(o, 13)
    BY TableTurn, TurnValues1 DEF night_sessions, Tables_1, Types_1
  <1>14. \A o \in audit_logs.make : OfTurn1(o, 14)
    BY TableTurn, TurnValues1 DEF audit_logs, Tables_1, Types_1
  <1>15. DOMAIN Upgrade_1 = 1..14
    BY DEF Upgrade_1
  <1>16. ASSUME NEW i \in 1..14
         PROVE  \A o \in Upgrade_1[i].make : OfTurn1(o, i)
    <2>1. CASE i <= 5
      BY <1>1, <1>2, <1>3, <1>4, <1>5, <2>1 DEF Upgrade_1
    <2>2. CASE i > 5 /\ i <= 10
      BY <1>6, <1>7, <1>8, <1>9, <1>10, <2>2 DEF Upgrade_1
    <2>3. CASE i > 10
      BY <1>11, <1>12, <1>13, <1>14, <2>3 DEF Upgrade_1
    <2>4. QED
      BY <2>1, <2>2, <2>3
  <1>17. QED
    BY <1>15, <1>16

LEMMA DowngradeTurns1 ==
  /\ DOMAIN Downgrade_1 = 1..17
  /\ \A i \in 1..17 : /\ Downgrade_1[i].make = {}
                      /\ \A n \in Downgrade_1[i].drop : n \in Dropped1 /\ Back1[n] = i
  <1>1. DOMAIN Downgrade_1 = 1..17
    BY DEF Downgrade_1
  <1>2. ASSUME NEW i \in 1..17
        PROVE  Downgrade_1[i].make = {} /\ Downgrade_1[i].drop \subseteq Dropped1
    <2>1. Downgrade_1[i] \in Statements(Downgrade_1)
      BY <1>1 DEF Statements
    <2>2. QED
      BY <2>1, Downgrade1Is DEF Removes, Drops
  <1>3. \A n \in Tables_1 : n \in Names1 /\ Back1[n] = 15 - Turn1[n]
    BY TurnsAre1 DEF Names1
  <1>4. ASSUME NEW i \in 1..14, NEW n \in Downgrade_1[i].drop
        PROVE  n \in Tables_1 /\ Turn1[n] = 15 - i
    <2>1. CASE i <= 5
      BY <1>4, <2>1, TurnValues1 DEF Downgrade_1, Drop, Tables_1
    <2>2. CASE i > 5 /\ i <= 10
      BY <1>4, <2>2, TurnValues1 DEF Downgrade_1, Drop, Tables_1
    <2>3. CASE i > 10
      BY <1>4, <2>3, TurnValues1 DEF Downgrade_1, Drop, Tables_1
    <2>4. QED
      BY <2>1, <2>2, <2>3
  <1>5. /\ Back1["relationshipstatus"] = 15 /\ Back1["memorycategory"] = 16
        /\ Back1["ritualstatus"] = 17
    <2>1. {"relationshipstatus", "memorycategory", "ritualstatus"} \subseteq Names1
      BY DEF Names1, Types_1
    <2>2. {"relationshipstatus", "memorycategory", "ritualstatus"} \intersect Tables_1 = {}
      BY DEF Tables_1
    <2>3. QED
      BY <2>1, <2>2 DEF Back1
  <1>6. ASSUME NEW i \in 15..17, NEW n \in Downgrade_1[i].drop
        PROVE  Back1[n] = i
    BY <1>5, <1>6 DEF Downgrade_1, DropType
  <1>7. ASSUME NEW i \in 1..17, NEW n \in Downgrade_1[i].drop
        PROVE  Back1[n] = i
    <2>1. CASE i \in 1..14
      BY <1>3, <1>4, <1>7, <2>1
    <2>2. CASE i \in 15..17
      BY <1>6, <1>7, <2>2
    <2>3. QED
      BY <2>1, <2>2
  <1>8. QED
    BY <1>1, <1>2, <1>7

LEMMA TurnValues2 ==
  /\ Turn2["plantier"] = 1 /\ Turn2["billinginterval"] = 2 /\ Turn2["subscriptionstatus"] = 3
  /\ Turn2["couples.subscription_status"] = 4 /\ Turn2["couples.subscription_expires_at"] = 5
  /\ Turn2["users.stripe_customer_id"] = 6 /\ Turn2["uq_users_stripe_customer_id"] = 7
  /\ Turn2["plans"] = 8 /\ Turn2["subscriptions"] = 9 /\ Turn2["subscription_events"] = 10
  BY DEF Turn2, Names_2

LEMMA BackValues2 ==
  /\ \A n \in Types2 : n \in Names_2 /\ Back2[n] = 7 + Turn2[n]
  /\ \A n \in Names_2 \ Types2 : Back2[n] = 11 - Turn2[n]
  <1>1. Types2 \subseteq Names_2
    BY NamesApart
  <1>2. QED
    BY <1>1 DEF Back2

\* What an object made at turn i of the upgrade of 0002 is.
OfTurn2(o, i) ==
    /\ o.name \in Names_2 /\ Turn2[o.name] = i
    /\ \A u \in o.uses : u \in {"couples", "users"} \/ (u \in Names_2 /\ Turn2[u] <= i)
    /\ \A u \in o.uses \union {o.owner} :
          u # o.name => u \in {"couples", "users"} \/ (u \in Names_2 /\ Back2[o.name] < Back2[u])

\* An object that uses tables of 0001, types, or what was made before it.
LEMMA ObjectTurn2 ==
  ASSUME NEW n \in Names_2 \ Types2, NEW w \in {n, "couples", "users"},
         NEW u \in SUBSET ({"couples", "users"} \union Names_2),
         \A x \in u : \/ x \in {"couples", "users"} \/ x \in Types2
                      \/ x \in Names_2 /\ Turn2[x] < Turn2[n]
  PROVE  OfTurn2(Obj(n, w, u), Turn2[n])
  <1>1. \A x \in Names_2 : Turn2[x] \in 1..10
    BY DEF Names_2, Turn2
  <1>2. \A x \in Types2 : x \in Names_2 /\ Turn2[x] \in 1..3
    BY TurnValues2 DEF Types2, Names_2
  <1>3. Turn2[n] \in 4..10
    BY TurnValues2 DEF Types2, Names_2
  <1>4. {"couples", "users"} \union Names_2 \subseteq Name
    BY NamesApart, OwnersOf2
  <1>5. PICK o : o = Obj(n, w, u)
    OBVIOUS
  <1>6. o.name = n /\ o.owner = w /\ o.uses = u
    <2>1. n \in Name /\ w \in Name /\ u \in SUBSET Name
      BY <1>4
    <2>2. QED
      BY <1>5, <2>1, ObjIs
  <1>7. Back2[n] = 11 - Turn2[n] /\ \A x \in Types2 : Back2[x] = 7 + Turn2[x]
    BY BackValues2
  <1>8. ASSUME NEW x \in u, x \notin {"couples", "users"}
        PROVE  x \in Names_2 /\ Turn2[x] <= Turn2[n] /\ Back2[n] < Back2[x]
    <2>1. CASE x \in Types2
      BY <1>2, <1>3, <1>7, <2>1
    <2>2. CASE x \notin Types2
      <3>1. x \in Names_2 /\ Turn2[x] < Turn2[n]
        BY <1>8, <2>2
      <3>2. Back2[x] = 11 - Turn2[x]
        BY <2>2, <3>1, BackValues2
      <3>3. QED
        BY <1>1, <1>7, <3>1, <3>2
    <2>3. QED
      BY <2>1, <2>2
  <1>9. QED
    BY <1>5, <1>6, <1>8 DEF OfTurn2

\* One sequence after another, as the proofs below need it.
LEMMA ConcatIs ==
  ASSUME NEW S, NEW a \in Seq(S), NEW b \in Seq(S), NEW c, c = a \o b
  PROVE  /\ c \in Seq(S) /\ Len(c) = Len(a) + Len(b)
         /\ \A i \in 1..(Len(a) + Len(b)) : c[i] = IF i <= Len(a) THEN a[i] ELSE b[i - Len(a)]
  BY ConcatProperties

\* The statements of the upgrade of 0002, as it joins them.
LEMMA TenJoined ==
  ASSUME NEW a, NEW b, NEW c, NEW d, NEW e, NEW f, NEW g, NEW h, NEW i, NEW j,
         NEW q
  PROVE  q = <<a, b, c>> \o <<d, e>> \o <<f, g>> \o <<h, i, j>> =>
         /\ DOMAIN q = 1..10
         /\ q[1] = a /\ q[2] = b /\ q[3] = c /\ q[4] = d /\ q[5] = e
         /\ q[6] = f /\ q[7] = g /\ q[8] = h /\ q[9] = i /\ q[10] = j
  <1>0. SUFFICES ASSUME q = <<a, b, c>> \o <<d, e>> \o <<f, g>> \o <<h, i, j>>
                 PROVE  /\ DOMAIN q = 1..10
                        /\ q[1] = a /\ q[2] = b /\ q[3] = c /\ q[4] = d /\ q[5] = e
                        /\ q[6] = f /\ q[7] = g /\ q[8] = h /\ q[9] = i /\ q[10] = j
    OBVIOUS
  <1>1. PICK S : S = {a, b, c, d, e, f, g, h, i, j}
    OBVIOUS
  <1>2. PICK k, l, m, n : k = <<a, b, c>> /\ l = <<d, e>> /\ m = <<f, g>> /\ n = <<h, i, j>>
    <2>1. PICK k : k = <<a, b, c>>
      OBVIOUS
    <2>2. PICK l : l = <<d, e>>
      OBVIOUS
    <2>3. PICK m : m = <<f, g>>
      OBVIOUS
    <2>4. PICK n : n = <<h, i, j>>
      OBVIOUS
    <2>5. QED
      BY <2>1, <2>2, <2>3, <2>4
  <1>3. /\ k \in Seq(S) /\ Len(k) = 3 /\ k[1] = a /\ k[2] = b /\ k[3] = c
        /\ l \in Seq(S) /\ Len(l) = 2 /\ l[1] = d /\ l[2] = e
        /\ m \in Seq(S) /\ Len(m) = 2 /\ m[1] = f /\ m[2] = g
        /\ n \in Seq(S) /\ Len(n) = 3 /\ n[1] = h /\ n[2] = i /\ n[3] = j
    BY <1>1, <1>2
  <1>4. PICK x : x = k \o l
    OBVIOUS
  <1>5. x \in Seq(S) /\ Len(x) = 5 /\ \A y \in 1..5 : x[y] = IF y <= 3 THEN k[y] ELSE l[y - 3]
    <2>1. /\ x \in Seq(S) /\ Len(x) = Len(k) + Len(l)
          /\ \A y \in 1..(Len(k) + Len(l)) :
                x[y] = IF y <= Len(k) THEN k[y] ELSE l[y - Len(k)]
      <3>1. k \in Seq(S) /\ l \in Seq(S)
        BY <1>3
      <3>2. x = k \o l
        BY <1>4
      <3>3. QED
        BY <3>1, <3>2, ConcatIs
    <2>2. QED
      BY <1>3, <2>1
  <1>6. PICK z : z = x \o m
    OBVIOUS
  <1>7. z \in Seq(S) /\ Len(z) = 7 /\ \A y \in 1..7 : z[y] = IF y <= 5 THEN x[y] ELSE m[y - 5]
    <2>1. /\ z \in Seq(S) /\ Len(z) = Len(x) + Len(m)
          /\ \A y \in 1..(Len(x) + Len(m)) :
                z[y] = IF y <= Len(x) THEN x[y] ELSE m[y - Len(x)]
      <3>1. x \in Seq(S) /\ m \in Seq(S)
        BY <1>3, <1>5
      <3>2. z = x \o m
        BY <1>6
      <3>3. QED
        BY <3>1, <3>2, ConcatIs
    <2>2. QED
      BY <1>3, <1>5, <2>1
  <1>8. q = z \o n
    BY <1>0, <1>2, <1>4, <1>6
  <1>9. q \in Seq(S) /\ Len(q) = 10 /\ \A y \in 1..10 : q[y] = IF y <= 7 THEN z[y] ELSE n[y - 7]
    <2>1. /\ q \in Seq(S) /\ Len(q) = Len(z) + Len(n)
          /\ \A y \in 1..(Len(z) + Len(n)) :
                q[y] = IF y <= Len(z) THEN z[y] ELSE n[y - Len(z)]
      <3>1. z \in Seq(S) /\ n \in Seq(S)
        BY <1>3, <1>7
      <3>2. q = z \o n
        BY <1>8
      <3>3. QED
        BY <3>1, <3>2, ConcatIs
    <2>2. QED
      BY <1>3, <1>7, <2>1
  <1>10. DOMAIN q = 1..10
    BY <1>9
  <1>11. /\ q[1] = x[1] /\ q[2] = x[2] /\ q[3] = x[3] /\ q[4] = x[4] /\ q[5] = x[5]
         /\ q[6] = m[1] /\ q[7] = m[2] /\ q[8] = n[1] /\ q[9] = n[2] /\ q[10] = n[3]
    BY <1>7, <1>9
  <1>12. x[1] = k[1] /\ x[2] = k[2] /\ x[3] = k[3] /\ x[4] = l[1] /\ x[5] = l[2]
    BY <1>5
  <1>13. QED
    BY <1>3, <1>10, <1>11, <1>12

\* A statement that makes one object of revision 0002, at its turn.
MakesAtTurn2(s, n) == \E o : s.make = {o} /\ o.name = n /\ OfTurn2(o, Turn2[n])

LEMMA TypeAtTurn2 ==
  ASSUME NEW n \in Types2
  PROVE  MakesAtTurn2(CreateType(n), n)
  <1>1. n \in Name /\ n \in Names_2 /\ Turn2[n] \in Nat
    BY NamesApart, TurnValues2 DEF Types2
  <1>2. CreateType(n).make = {Type(n)}
    BY DEF CreateType
  <1>3. Type(n).name = n /\ OfTurn2(Type(n), Turn2[n])
    BY <1>1, TypeIs DEF OfTurn2
  <1>4. QED
    BY <1>2, <1>3 DEF MakesAtTurn2

LEMMA ColumnAtTurn2 ==
  ASSUME NEW n \in Names_2 \ Types2, NEW t \in {"couples", "users"},
         NEW u \in SUBSET ({"couples", "users"} \union Names_2),
         \A x \in u : \/ x \in {"couples", "users"} \/ x \in Types2
                      \/ x \in Names_2 /\ Turn2[x] < Turn2[n]
  PROVE  MakesAtTurn2(Add(n, t, u), n)
  <1>1. PICK v : v = {t} \union u
    OBVIOUS
  <1>2. /\ v \in SUBSET ({"couples", "users"} \union Names_2)
        /\ \A x \in v : \/ x \in {"couples", "users"} \/ x \in Types2
                        \/ x \in Names_2 /\ Turn2[x] < Turn2[n]
    BY <1>1
  <1>3. PICK o : o = Obj(n, t, v)
    OBVIOUS
  <1>4. OfTurn2(o, Turn2[n])
    BY <1>2, <1>3, ObjectTurn2
  <1>5. o.name = n
    <2>1. n \in Name /\ t \in Name /\ v \in SUBSET Name
      BY <1>2, NamesApart, OwnersOf2
    <2>2. QED
      BY <1>3, <2>1, ObjIs
  <1>6. Add(n, t, u).make = {o}
    BY <1>1, <1>3 DEF Add
  <1>7. QED
    BY <1>4, <1>5, <1>6 DEF MakesAtTurn2

LEMMA TableAtTurn2 ==
  ASSUME NEW n \in Names_2 \ Types2,
         NEW u \in SUBSET ({"couples", "users"} \union Names_2),
         \A x \in u : \/ x \in {"couples", "users"} \/ x \in Types2
                      \/ x \in Names_2 /\ Turn2[x] < Turn2[n]
  PROVE  MakesAtTurn2(CreateTableOnly(n, u), n)
  <1>1. PICK o : o = Obj(n, n, u)
    OBVIOUS
  <1>2. OfTurn2(o, Turn2[n])
    BY <1>1, ObjectTurn2
  <1>3. o.name = n
    <2>1. n \in Name /\ u \in SUBSET Name
      BY NamesApart, OwnersOf2
    <2>2. QED
      BY <1>1, <2>1, ObjIs
  <1>4. CreateTableOnly(n, u).make = {o}
    BY <1>1 DEF CreateTableOnly
  <1>5. QED
    BY <1>2, <1>3, <1>4 DEF MakesAtTurn2

LEMMA Upgrade2Turns ==
  /\ DOMAIN Upgrade_2 = 1..10
  /\ \A n \in Names_2 : Turn2[n] \in 1..10 /\ MakesAtTurn2(Upgrade_2[Turn2[n]], n)
  /\ \A i \in 1..10 : \E n \in Names_2 : Turn2[n] = i
  <1>1. /\ DOMAIN Upgrade_2 = 1..10
        /\ Upgrade_2[1] = CreateType("plantier")
        /\ Upgrade_2[2] = CreateType("billinginterval")
        /\ Upgrade_2[3] = CreateType("subscriptionstatus")
        /\ Upgrade_2[4] = Add("couples.subscription_status", "couples", {"subscriptionstatus"})
        /\ Upgrade_2[5] = Add("couples.subscription_expires_at", "couples", {})
        /\ Upgrade_2[6] = Add("users.stripe_customer_id", "users", {})
        /\ Upgrade_2[7] = Add("uq_users_stripe_customer_id", "users",
                              {"users.stripe_customer_id"})
        /\ Upgrade_2[8] = plans /\ Upgrade_2[9] = subscriptions
        /\ Upgrade_2[10] = subscription_events
    BY TenJoined DEF Upgrade_2, enum_types, couples_columns, users_columns
  <1>2. /\ MakesAtTurn2(Upgrade_2[1], "plantier")
        /\ MakesAtTurn2(Upgrade_2[2], "billinginterval")
        /\ MakesAtTurn2(Upgrade_2[3], "subscriptionstatus")
    BY <1>1, TypeAtTurn2 DEF Types2
  <1>3. MakesAtTurn2(Upgrade_2[4], "couples.subscription_status")
    BY <1>1, ColumnAtTurn2 DEF Names_2, Types2
  <1>4. MakesAtTurn2(Upgrade_2[5], "couples.subscription_expires_at")
    BY <1>1, ColumnAtTurn2 DEF Names_2, Types2
  <1>5. MakesAtTurn2(Upgrade_2[6], "users.stripe_customer_id")
    BY <1>1, ColumnAtTurn2 DEF Names_2, Types2
  <1>6. MakesAtTurn2(Upgrade_2[7], "uq_users_stripe_customer_id")
    BY <1>1, ColumnAtTurn2, TurnValues2 DEF Names_2, Types2
  <1>7. MakesAtTurn2(Upgrade_2[8], "plans")
    BY <1>1, TableAtTurn2 DEF plans, Names_2, Types2
  <1>8. MakesAtTurn2(Upgrade_2[9], "subscriptions")
    BY <1>1, TableAtTurn2, TurnValues2 DEF subscriptions, Names_2, Types2
  <1>9. MakesAtTurn2(Upgrade_2[10], "subscription_events")
    BY <1>1, TableAtTurn2 DEF subscription_events, Names_2, Types2
  <1>10. \A n \in Names_2 : Turn2[n] \in 1..10 /\ MakesAtTurn2(Upgrade_2[Turn2[n]], n)
    BY <1>2, <1>3, <1>4, <1>5, <1>6, <1>7, <1>8, <1>9, TurnValues2 DEF Names_2
  <1>11. \A i \in 1..10 : \E n \in Names_2 : Turn2[n] = i
    BY TurnValues2 DEF Names_2
  <1>12. QED
    BY <1>1, <1>10, <1>11

LEMMA UpgradeTurns2 ==
  /\ DOMAIN Upgrade_2 = 1..10
  /\ \A i \in 1..10 : \A o \in Upgrade_2[i].make : OfTurn2(o, i)
  /\ Names_2 \subseteq Names(Makes(Up2))
  <1>1. DOMAIN Upgrade_2 = 1..10
    BY Upgrade2Turns
  <1>2. ASSUME NEW i \in 1..10, NEW o \in Upgrade_2[i].make
        PROVE  OfTurn2(o, i)
    <2>1. PICK n \in Names_2 : Turn2[n] = i
      BY Upgrade2Turns
    <2>2. MakesAtTurn2(Upgrade_2[i], n)
      BY <2>1, Upgrade2Turns
    <2>3. QED
      BY <1>2, <2>1, <2>2 DEF MakesAtTurn2
  <1>3. ASSUME NEW n \in Names_2
        PROVE  n \in Names(Makes(Up2))
    <2>1. PICK i \in 1..10 : MakesAtTurn2(Upgrade_2[i], n)
      BY Upgrade2Turns
    <2>2. Upgrade_2[i] \in Up2
      BY <1>1 DEF Up2, Statements
    <2>3. QED
      BY <2>1, <2>2 DEF MakesAtTurn2, Names, Makes
  <1>4. QED
    BY <1>1, <1>2, <1>3

LEMMA DowngradeTurns2 ==
  /\ DOMAIN Downgrade_2 = 1..10
  /\ \A i \in 1..10 : /\ Downgrade_2[i].make = {}
                      /\ \A n \in Downgrade_2[i].drop : n \in Names_2 /\ Back2[n] = i
  <1>1. DOMAIN Downgrade_2 = 1..10
    BY DEF Downgrade_2
  <1>2. ASSUME NEW i \in 1..10
        PROVE  Downgrade_2[i].make = {} /\ Downgrade_2[i].drop \subseteq Names_2
    <2>1. Downgrade_2[i] \in Statements(Downgrade_2)
      BY <1>1 DEF Statements
    <2>2. QED
      BY <2>1, Downgrade2Is DEF Removes, Drops
  <1>3. ASSUME NEW i \in 1..7, NEW n \in Downgrade_2[i].drop
        PROVE  n \in Names_2 \ Types2 /\ Turn2[n] = 11 - i
    <2>1. CASE i <= 4
      BY <1>3, <2>1, TurnValues2 DEF Downgrade_2, Drop, Names_2, Types2
    <2>2. CASE i > 4
      BY <1>3, <2>2, TurnValues2 DEF Downgrade_2, Drop, Names_2, Types2
    <2>3. QED
      BY <2>1, <2>2
  <1>4. ASSUME NEW i \in 8..10, NEW n \in Downgrade_2[i].drop
        PROVE  n \in Types2 /\ Turn2[n] = i - 7
    BY <1>4, TurnValues2 DEF Downgrade_2, DropType, Types2
  <1>5. ASSUME NEW i \in 1..10, NEW n \in Downgrade_2[i].drop
        PROVE  Back2[n] = i
    <2>1. CASE i \in 1..7
      BY <1>3, <1>5, <2>1, BackValues2
    <2>2. CASE i \in 8..10
      BY <1>4, <1>5, <2>2, BackValues2
    <2>3. QED
      BY <2>1, <2>2
  <1>6. QED
    BY <1>1, <1>2, <1>5

LEMMA TableIsMade ==
  ASSUME NEW t \in Tables_1, NEW types \in SUBSET Types_1, NEW parents \in SUBSET Tables_1,
         CreateTable(t, types, parents) \in Up1
  PROVE  t \in Names(Makes(Up1))
  <1>1. t \in Name /\ types \in SUBSET Name /\ parents \in SUBSET Name
    BY NamesApart DEF Names1
  <1>2. PICK s : s = CreateTable(t, types, parents)
    OBVIOUS
  <1>3. \E o \in s.make : o.name = t
    BY <1>1, <1>2, MadeWithTable
  <1>4. QED
    BY <1>2, <1>3 DEF Names, Makes

\* The upgrades make all their names.
LEMMA NamesMade ==
  /\ Names(Makes(Up1)) = Names1 /\ Names(Makes(Up2)) = Names_2
  /\ {"couples", "users"} \subseteq Names1
  <1>1. \A n \in Types_1 : n \in Names(Makes(Up1))
    <2> SUFFICES ASSUME NEW n \in Types_1
                 PROVE  n \in Names(Makes(Up1))
      OBVIOUS
    <2>1. n \in Name
      BY NamesApart DEF Names1
    <2>2. Type(n).name = n /\ \E s \in Up1 : Type(n) \in s.make
      BY <2>1, TypeIs, Upgrade1Makes DEF Up1
    <2>3. QED
      BY <2>2 DEF Names, Makes
  <1>2. PICK U : U = Up1
    OBVIOUS
  <1>3. U = {couples, users, albums, memories, albums_cover, rituals, ritual_entries, letters,
             special_dates, surprises, watch_sessions, refresh_tokens, night_sessions, audit_logs}
    BY <1>2, Upgrade1Is DEF Up1
  <1>4. {"couples", "users", "albums", "memories"} \subseteq Names(Makes(Up1))
    BY <1>2, <1>3, TableIsMade DEF couples, users, albums, memories, Tables_1, Types_1
  <1>5. {"rituals", "ritual_entries", "letters", "special_dates"} \subseteq Names(Makes(Up1))
    BY <1>2, <1>3, TableIsMade DEF rituals, ritual_entries, letters, special_dates, Tables_1, Types_1
  <1>6. {"surprises", "watch_sessions", "refresh_tokens"} \subseteq Names(Makes(Up1))
    BY <1>2, <1>3, TableIsMade DEF surprises, watch_sessions, refresh_tokens, Tables_1, Types_1
  <1>7. {"night_sessions", "audit_logs"} \subseteq Names(Makes(Up1))
    BY <1>2, <1>3, TableIsMade DEF night_sessions, audit_logs, Tables_1, Types_1
  <1>8. "fk_albums_cover_memory_id_memories" \in Names(Makes(Up1))
    <2>1. PICK n, t, v, o : /\ n = "fk_albums_cover_memory_id_memories" /\ t = "albums"
                            /\ v = {t} \union {"memories"} /\ o = Obj(n, t, v)
      <3>1. PICK n, t : n = "fk_albums_cover_memory_id_memories" /\ t = "albums"
        OBVIOUS
      <3>2. PICK v : v = {t} \union {"memories"}
        OBVIOUS
      <3>3. QED
        BY <3>1, <3>2
    <2>2. n \in Name /\ t \in Name /\ v \in SUBSET Name
      BY <2>1 DEF Name, Tables_1
    <2>3. o.name = n
      BY <2>1, <2>2, ObjIs
    <2>4. albums_cover.make = {o} /\ albums_cover \in U
      BY <1>3, <2>1 DEF albums_cover, Add
    <2>5. QED
      BY <1>2, <2>1, <2>3, <2>4 DEF Names, Makes
  <1>9. \A n \in Tables_1 : n \in Names(Makes(Up1))
    BY <1>4, <1>5, <1>6, <1>7, <1>8 DEF Tables_1
  <1>10. Names(Makes(Up1)) = Names1
    BY <1>1, <1>9, PartNames DEF Names, Names1
  <1>11. Names(Makes(Up2)) = Names_2
    BY UpgradeTurns2, PartNames DEF Names
  <1>12. {"couples", "users"} \subseteq Names1
    BY DEF Names1, Tables_1
  <1>13. QED
    BY <1>10, <1>11, <1>12

\* What the objects of the upgrades use, and when they go with it.
LEMMA UsesAre ==
  /\ \A o \in Makes(Up1) : /\ o.name \in Names1 /\ o.owner \in Names1 /\ o.uses \subseteq Names1
                           /\ \A u \in o.uses \union {o.owner} :
                                 u # o.name => o.name \in Tables_1 /\ Back1[o.name] < Back1[u]
  /\ \A o \in Makes(Up2) : /\ o.name \in Names_2 /\ o.owner \in Names_2 \union Names1
                           /\ o.uses \subseteq Names_2 \union Names1
                           /\ \A u \in o.uses \union {o.owner} :
                                 u # o.name => u \in Names1 \/ Back2[o.name] < Back2[u]
  <1>1. ASSUME NEW o \in Makes(Up1)
        PROVE  \E i \in 1..14 : OfTurn1(o, i)
    BY <1>1, UpgradeTurns1 DEF Makes, Up1, Statements
  <1>2. ASSUME NEW o \in Makes(Up2)
        PROVE  \E i \in 1..10 : OfTurn2(o, i)
    BY <1>2, UpgradeTurns2 DEF Makes, Up2, Statements
  <1>3. \A o \in Makes(Up1) : o.name \in Names1 /\ o.owner \in Names1
    BY PartNames
  <1>4. \A o \in Makes(Up2) : o.name \in Names_2 /\ o.owner \in Names_2 \union Names1
    BY PartNames
  <1>5. QED
    BY <1>1, <1>2, <1>3, <1>4, NamesMade DEF OfTurn1, OfTurn2

-------------------------------------------------------------------------------
(***************************************************************************)
(* Each part of a script, on what it is executed on.                       *)
(***************************************************************************)

\* The version table.
LEMMA VersionTableReady ==
  ASSUME NEW V, NEW E
  PROVE  Ready(V, <<VersionTable>>, E)
  <1>1. PICK s : s = VersionTable
    OBVIOUS
  <1>2. s \in Statement /\ s.lax /\ s.drop = {} /\ s.make = {VersionObject}
        /\ VersionObject.uses = {}
    BY <1>1, VersionTableIs
  <1>3. Ready(V, <<s>>, E)
    BY <1>2, ReadyOne
  <1>4. QED
    BY <1>1, <1>3

\* A row of the version table is replaced, or is the first, or is removed.
LEMMA StampReady ==
  ASSUME NEW V, NEW E, NEW from \in 0..2, NEW to \in 0..2, from # to,
         "alembic_version" \in Names(V),
         from # 0 => Revision(from) \in Names(V),
         to # 0 => Revision(to) \notin Names(V),
         \A o \in V : o.owner \notin Rows /\ o.uses \intersect Rows = {}
  PROVE  Ready(V, <<Stamp(from, to)>>, E)
  <1>1. PICK s : s = Stamp(from, to)
    OBVIOUS
  <1>2. /\ s \in Statement
        /\ s.make = IF to = 0 THEN {} ELSE {Row(to)}
        /\ s.drop = IF from = 0 THEN {} ELSE {Revision(from)}
    BY <1>1, StampIs
  <1>3. Revision(from) \in Rows /\ (to # 0 => Row(to).name = Revision(to))
        /\ (to # 0 => Row(to).owner = "alembic_version" /\ Row(to).uses = {"alembic_version"})
    BY RowsAre DEF Revision, Rows
  <1>4. "alembic_version" \notin Rows
    BY NamesApart
  <1>5. \A o \in V \union s.make : o.owner \notin Rows /\ o.uses \intersect Rows = {}
    BY <1>2, <1>3, <1>4
  <1>6. s.drop \subseteq Names(V) /\ s.drop \subseteq Rows
    BY <1>2, <1>3
  <1>7. \A o \in s.make : o.name \notin Names(V) /\ \A u \in o.uses : u \in Names(V)
    BY <1>2, <1>3
  <1>8. Ready(V, <<s>>, E)
    BY <1>2, <1>5, <1>6, <1>7, ReadyOne
  <1>9. QED
    BY <1>1, <1>8

\* The upgrade of 0001, but for the types of E.
LEMMA Upgrade1Ready ==
  ASSUME NEW E \in SUBSET Left, NEW V \in SUBSET ({VersionObject} \union E)
  PROVE  Ready(V, Upgrade_1, E)
  <1>1. PICK q : q = Upgrade_1
    OBVIOUS
  <1>2. /\ q \in Seq(Statement) /\ DOMAIN q = 1..14 /\ Statements(q) = Up1
        /\ \A i \in 1..14 : q[i] \in Up1 /\ q[i].drop = {}
        /\ \A i \in 1..14 : \A o \in q[i].make : OfTurn1(o, i)
    <2>1. q \in Seq(Statement) /\ DOMAIN q = 1..14 /\ Statements(q) = Up1
      BY <1>1, Upgrade1Is, UpgradeTurns1 DEF Up1
    <2>2. \A s \in Up1 : s.drop = {}
      BY Upgrade1Is DEF MadeBy1, Up1
    <2>3. \A i \in 1..14 : q[i] \in Up1
      BY <2>1 DEF Statements
    <2>4. QED
      BY <1>1, <2>1, <2>2, <2>3, UpgradeTurns1
  <1>3. ASSUME NEW o \in Makes(Up1), o.name \in Names(V)
        PROVE  o \in E
    <2>1. PICK v \in V : v.name = o.name
      BY <1>3 DEF Names
    <2>2. v \in E
      BY <2>1, PartNames
    <2>3. o.name \in LeftNames
      BY <2>1, <2>2, LeftIs
    <2>4. o \in Left
      BY <2>3, MakesUp1, NamesApart
    <2>5. \A x \in Left : x = Type(x.name)
      <3>1. {"letterstatus", "surprisestatus", "nightsessionstatus"} \subseteq Name
        BY NamesApart DEF LeftNames
      <3>2. QED
        BY <3>1, TypeIs DEF Left
    <2>6. QED
      BY <2>1, <2>2, <2>4, <2>5
  <1>4. \A i \in 1..14 : q[i].make \subseteq Makes(Up1)
    BY <1>2 DEF Makes
  <1>5. \A i \in DOMAIN q :
            /\ q[i].drop = {}
            /\ \A o \in q[i].make :
                  /\ o.name \notin Names(V) \/ q[i].lax \/ o \in E
                  /\ Turn1[o.name] = i
                  /\ \A u \in o.uses : \/ u \in Names(V)
                                       \/ u \in Names(Makes(Statements(q))) /\ Turn1[u] <= i
    BY <1>2, <1>3, <1>4, NamesMade DEF OfTurn1
  <1>6. Ready(V, q, E)
    BY <1>2, <1>5, ReadyUp
  <1>7. QED
    BY <1>1, <1>6

\* The upgrade of 0002.
LEMMA Upgrade2Ready ==
  ASSUME NEW E, NEW V, Names(V) \intersect Names_2 = {}, {"couples", "users"} \subseteq Names(V)
  PROVE  Ready(V, Upgrade_2, E)
  <1>1. PICK q : q = Upgrade_2
    OBVIOUS
  <1>2. /\ q \in Seq(Statement) /\ DOMAIN q = 1..10 /\ Statements(q) = Up2
        /\ \A i \in 1..10 : q[i].drop = {}
        /\ \A i \in 1..10 : \A o \in q[i].make : OfTurn2(o, i)
    <2>1. q \in Seq(Statement) /\ DOMAIN q = 1..10 /\ Statements(q) = Up2
      BY <1>1, Upgrade2Is, UpgradeTurns2 DEF Up2
    <2>2. \A s \in Up2 : s.drop = {}
      BY Upgrade2Is DEF MadeBy2, Up2
    <2>3. \A i \in 1..10 : q[i] \in Up2
      BY <2>1 DEF Statements
    <2>4. QED
      BY <1>1, <2>1, <2>2, <2>3, UpgradeTurns2
  <1>3. \A i \in DOMAIN q :
            /\ q[i].drop = {}
            /\ \A o \in q[i].make :
                  /\ o.name \notin Names(V) \/ q[i].lax \/ o \in E
                  /\ Turn2[o.name] = i
                  /\ \A u \in o.uses : \/ u \in Names(V)
                                       \/ u \in Names(Makes(Statements(q))) /\ Turn2[u] <= i
    <2> SUFFICES ASSUME NEW i \in 1..10, NEW o \in q[i].make
                 PROVE  /\ o.name \notin Names(V) /\ Turn2[o.name] = i
                        /\ \A u \in o.uses : \/ u \in Names(V)
                                             \/ u \in Names(Makes(Up2)) /\ Turn2[u] <= i
      BY <1>2
    <2>1. OfTurn2(o, i)
      BY <1>2
    <2>2. QED
      BY <2>1, NamesMade DEF OfTurn2
  <1>4. Ready(V, q, E)
    BY <1>2, <1>3, ReadyUp
  <1>5. QED
    BY <1>1, <1>4

\* The downgrade of 0002.
LEMMA Downgrade2Ready ==
  ASSUME NEW E, NEW V, Names_2 \subseteq Names(V),
         \A o \in V : \/ o \in Makes(Up2)
                      \/ o.owner \notin Names_2 /\ o.uses \intersect Names_2 = {}
  PROVE  Ready(V, Downgrade_2, E)
  <1>1. PICK q : q = Downgrade_2
    OBVIOUS
  <1>2. /\ q \in Seq(Statement) /\ Drops(Statements(q)) = Names_2
        /\ \A i \in DOMAIN q : q[i].make = {} /\ \A n \in q[i].drop : Back2[n] = i
    BY <1>1, Downgrade2Is, DowngradeTurns2
  <1>3. Back2 \in [Names_2 -> Nat]
    <2>1. \A n \in Names_2 : Turn2[n] \in 1..10
      BY Upgrade2Turns
    <2>2. QED
      BY <2>1 DEF Back2
  <1>4. ASSUME NEW o \in V, NEW u \in o.uses \union {o.owner}, u \in Names_2, u # o.name
        PROVE  o.name \in Names_2 /\ Back2[o.name] <= Back2[u]
    <2>1. o \in Makes(Up2) /\ u \notin Names1
      BY <1>4, NamesApart
    <2>2. o.name \in Names_2 /\ Back2[o.name] < Back2[u]
      BY <1>4, <2>1, UsesAre
    <2>3. QED
      BY <1>3, <1>4, <2>2
  <1>5. Ready(V, q, E)
    BY <1>2, <1>4, ReadyDown
  <1>6. QED
    BY <1>1, <1>5

\* The downgrade of 0001.
LEMMA Downgrade1Ready ==
  ASSUME NEW E, NEW V, Dropped1 \subseteq Names(V),
         \A o \in V : \/ o \in Makes(Up1)
                      \/ o.owner \notin Names1 /\ o.uses \intersect Names1 = {}
  PROVE  Ready(V, Downgrade_1, E)
  <1>1. PICK q : q = Downgrade_1
    OBVIOUS
  <1>2. /\ q \in Seq(Statement) /\ Drops(Statements(q)) = Dropped1
        /\ \A i \in DOMAIN q : q[i].make = {} /\ \A n \in q[i].drop : Back1[n] = i
    BY <1>1, Downgrade1Is, DowngradeTurns1
  <1>3. /\ \A n \in Names1 : Back1[n] \in Nat
        /\ Dropped1 \subseteq Names1 /\ Tables_1 \subseteq Dropped1
    <2>1. \A n \in Tables_1 : n \in Names1
      BY DEF Names1
    <2>2. QED
      BY <2>1, TurnsAre1, NamesApart DEF Names1, Dropped1
  <1>4. ASSUME NEW o \in V, NEW u \in o.uses \union {o.owner}, u \in Dropped1, u # o.name
        PROVE  o.name \in Dropped1 /\ Back1[o.name] <= Back1[u]
    <2>1. o \in Makes(Up1)
      BY <1>3, <1>4
    <2>2. o.name \in Tables_1 /\ Back1[o.name] < Back1[u]
      BY <1>4, <2>1, UsesAre
    <2>3. QED
      BY <1>3, <1>4, <2>2
  <1>5. Ready(V, q, E)
    BY <1>2, <1>4, ReadyDown
  <1>6. QED
    BY <1>1, <1>5

-------------------------------------------------------------------------------
(***************************************************************************)
(* The six scripts, each on the catalog of its revision.                   *)
(***************************************************************************)
LEMMA ReadyThen ==
  ASSUME NEW V, NEW E, NEW a, NEW S, NEW M, NEW R, Does(a, S, M, R),
         NEW b, NEW T, NEW N, NEW Q, Does(b, T, N, Q),
         Ready(V, a, E),
         NEW W, W = {o \in V \union M : o.name \notin R}, Ready(W, b, E),
         Names(M) \intersect Names(N) = {}, R \intersect Names(N) = {},
         \A o \in N : o.owner \notin R /\ o.uses \intersect R = {}
  PROVE  Ready(V, a \o b, E) /\ Does(a \o b, S \union T, M \union N, R \union Q)
  <1>1. /\ a \in Seq(Statement) /\ b \in Seq(Statement)
        /\ S = Statements(a) /\ T = Statements(b)
        /\ M = Makes(S) /\ N = Makes(T) /\ R = Drops(S)
    BY DEF Does
  <1>2. After(V, S) = W
    BY <1>1 DEF After
  <1>3. Ready(V, a \o b, E)
    BY <1>1, <1>2, ReadyJoined
  <1>4. Does(a \o b, S \union T, M \union N, R \union Q)
    BY DoesJoined
  <1>5. QED
    BY <1>3, <1>4

LEMMA ReadyThenUp ==
  ASSUME NEW V, NEW E, NEW a, NEW S, NEW M, Does(a, S, M, {}),
         NEW b, NEW T, NEW N, NEW Q, Does(b, T, N, Q),
         Ready(V, a, E), Ready(V \union M, b, E),
         Names(M) \intersect Names(N) = {}
  PROVE  Ready(V, a \o b, E) /\ Does(a \o b, S \union T, M \union N, Q)
  <1>1. PICK W, R : W = V \union M /\ R = {}
    <2>1. PICK W : W = V \union M
      OBVIOUS
    <2>2. QED
      BY <2>1
  <1>2. Does(a, S, M, R) /\ Ready(W, b, E)
    BY <1>1
  <1>3. /\ W = {o \in V \union M : o.name \notin R}
        /\ R \intersect Names(N) = {}
        /\ \A o \in N : o.owner \notin R /\ o.uses \intersect R = {}
    BY <1>1
  <1>4. Ready(V, a \o b, E) /\ Does(a \o b, S \union T, M \union N, R \union Q)
    BY <1>2, <1>3, ReadyThen
  <1>5. R \union Q = Q
    BY <1>1
  <1>6. QED
    BY <1>4, <1>5

\* The objects of the catalogs, by their names.
LEMMA KindsAre ==
  /\ \A o \in Makes(Up1) : o.name \in Names1 /\ o.owner \in Names1 /\ o.uses \subseteq Names1
  /\ \A o \in Makes(Up2) : /\ o.name \in Names_2 /\ o.owner \in Names_2 \union Names1
                           /\ o.uses \subseteq Names_2 \union Names1
  /\ VersionObject.name = "alembic_version" /\ VersionObject.owner = "alembic_version"
  /\ VersionObject.uses = {}
  /\ Row(1).name = "0001" /\ Row(1).owner = "alembic_version"
  /\ Row(2).name = "0002" /\ Row(2).owner = "alembic_version"
  /\ Row(1).uses = {"alembic_version"} /\ Row(2).uses = {"alembic_version"}
  /\ Names1 \intersect Names_2 = {} /\ (Names1 \union Names_2) \intersect Rows = {}
  /\ "alembic_version" \notin Names1 \union Names_2 \union Rows
  /\ Dropped1 \subseteq Names1 /\ Rows = {"0001", "0002"}
  /\ Revision(1) = "0001" /\ Revision(2) = "0002"
  <1>1. Rows = {"0001", "0002"} /\ Revision(1) = "0001" /\ Revision(2) = "0002"
    BY DEF Rows, Revision
  <1>2. QED
    BY <1>1, UsesAre, PartNames, RowsAre, VersionTableIs, NamesApart

\* From the empty schema.
LEMMA FromEmptyReady ==
  ASSUME NEW cat, Empty(cat)
  PROVE  Ready(cat, Script(0, 1), Left \intersect cat) /\ Ready(cat, Script(0, 2), Left \intersect cat)
  <1>1. PICK E, M1, M2 : E = Left \intersect cat /\ M1 = Makes(Up1) /\ M2 = Makes(Up2)
    <2>1. PICK E : E = Left \intersect cat
      OBVIOUS
    <2>2. PICK M1, M2 : M1 = Makes(Up1) /\ M2 = Makes(Up2)
      OBVIOUS
    <2>3. QED
      BY <2>1, <2>2
  <1>2. PICK a, b, c, d, e : /\ a = <<VersionTable>> /\ b = Upgrade_1 /\ c = <<Stamp(0, 1)>>
                             /\ d = Upgrade_2 /\ e = <<Stamp(1, 2)>>
    <2>1. PICK a, b, c : a = <<VersionTable>> /\ b = Upgrade_1 /\ c = <<Stamp(0, 1)>>
      <3>1. PICK a, b : a = <<VersionTable>> /\ b = Upgrade_1
        <4>1. PICK a : a = <<VersionTable>>
          OBVIOUS
        <4>2. QED
          BY <4>1
      <3>2. PICK c : c = <<Stamp(0, 1)>>
        OBVIOUS
      <3>3. QED
        BY <3>1, <3>2
    <2>2. PICK d, e : d = Upgrade_2 /\ e = <<Stamp(1, 2)>>
      <3>1. PICK e : e = <<Stamp(1, 2)>>
        OBVIOUS
      <3>2. QED
        BY <3>1
    <2>3. QED
      BY <2>1, <2>2
  <1>3. PICK A, B, C, D, F : A = {VersionTable} /\ B = Up1 /\ C = {Stamp(0, 1)} /\ D = Up2
                             /\ F = {Stamp(1, 2)}
    <2>1. PICK A, B, C : A = {VersionTable} /\ B = Up1 /\ C = {Stamp(0, 1)}
      <3>1. PICK A : A = {VersionTable}
        OBVIOUS
      <3>2. PICK C : C = {Stamp(0, 1)}
        OBVIOUS
      <3>3. QED
        BY <3>1, <3>2
    <2>2. PICK D, F : D = Up2 /\ F = {Stamp(1, 2)}
      <3>1. PICK F : F = {Stamp(1, 2)}
        OBVIOUS
      <3>2. QED
        BY <3>1
    <2>3. QED
      BY <2>1, <2>2
  <1>4. /\ Does(a, A, {VersionObject}, {}) /\ Does(b, B, M1, {}) /\ Does(c, C, {Row(1)}, {})
        /\ Does(d, D, M2, {}) /\ Does(e, F, {Row(2)}, {"0001"})
    BY <1>1, <1>2, <1>3, PartsAre, StampsAre
  <1>5. /\ Script(0, 1) = a \o b \o c
        /\ Script(0, 2) = a \o b \o c \o d \o e
    BY <1>2 DEF Script
  <1>6. /\ cat \subseteq {VersionObject} \union E /\ E \subseteq Left /\ Left \subseteq M1
        /\ Names(M1) = Names1 /\ Names(M2) = Names_2
    BY <1>1, MakesUp1, NamesMade DEF Empty
  <1>7. Ready(cat, a, E)
    BY <1>2, VersionTableReady
  <1>8. Ready(cat, a \o b, E) /\ Does(a \o b, A \union B, {VersionObject} \union M1, {})
    <2>1. PICK W : W = cat \union {VersionObject}
      OBVIOUS
    <2>3. Ready(W, b, E)
      BY <1>2, <1>6, <2>1, Upgrade1Ready
    <2>4. Names({VersionObject}) \intersect Names(M1) = {}
      BY <1>6, KindsAre DEF Names
    <2>5. QED
      BY <1>4, <1>7, <2>1, <2>3, <2>4, ReadyThenUp
  <1>9. /\ Ready(cat, a \o b \o c, E)
        /\ Does(a \o b \o c, A \union B \union C, {VersionObject} \union M1 \union {Row(1)}, {})
    <2>1. PICK W : W = {VersionObject} \union M1
      OBVIOUS
    <2>2. W = cat \union ({VersionObject} \union M1)
      BY <1>6, <2>1
    <2>3. \A o \in W : /\ o.name \in Names1 \union {"alembic_version"}
                       /\ o.owner \notin Rows /\ o.uses \intersect Rows = {}
      BY <1>1, <2>1, KindsAre
    <2>4. "alembic_version" \in Names(W) /\ "0001" \notin Names(W)
      BY <2>1, <2>3, KindsAre DEF Names
    <2>5. Ready(W, c, E)
      BY <1>2, <2>3, <2>4, KindsAre, StampReady
    <2>6. Names({VersionObject} \union M1) \intersect Names({Row(1)}) = {}
      BY <2>1, <2>4, KindsAre DEF Names
    <2>7. QED
      BY <1>4, <1>8, <2>2, <2>5, <2>6, ReadyThenUp
  <1>10. PICK f, G, H : /\ f = a \o b \o c /\ G = A \union B \union C
                        /\ H = {VersionObject} \union M1 \union {Row(1)}
    <2>1. PICK f : f = a \o b \o c
      OBVIOUS
    <2>2. PICK G, H : G = A \union B \union C /\ H = {VersionObject} \union M1 \union {Row(1)}
      OBVIOUS
    <2>3. QED
      BY <2>1, <2>2
  <1>11. Ready(cat, f, E) /\ Does(f, G, H, {})
    BY <1>9, <1>10
  <1>12. /\ H = cat \union H
         /\ \A o \in H : /\ o.name \in Names1 \union {"alembic_version", "0001"}
                         /\ o.owner \notin Rows /\ o.uses \intersect Rows = {}
         /\ "alembic_version" \in Names(H) /\ "0001" \in Names(H)
         /\ Names1 \subseteq Names(H)
         /\ Names(H) \intersect Names_2 = {}
    <2>1. \A o \in H : /\ o.name \in Names1 \union {"alembic_version", "0001"}
                       /\ o.owner \notin Rows /\ o.uses \intersect Rows = {}
      BY <1>1, <1>10, KindsAre
    <2>2. "alembic_version" \in Names(H) /\ "0001" \in Names(H) /\ Names1 \subseteq Names(H)
      BY <1>6, <1>10, KindsAre DEF Names
    <2>3. Names(H) \intersect Names_2 = {}
      BY <2>1, KindsAre DEF Names
    <2>4. QED
      BY <1>6, <1>10, <2>1, <2>2, <2>3
  <1>13. Ready(cat, f \o d, E) /\ Does(f \o d, G \union D, H \union M2, {})
    <2>1. Ready(H, d, E)
      BY <1>2, <1>12, NamesMade, Upgrade2Ready
    <2>2. Names(H) \intersect Names(M2) = {}
      BY <1>6, <1>12
    <2>3. QED
      BY <1>4, <1>11, <1>12, <2>1, <2>2, ReadyThenUp
  <1>14. Ready(cat, f \o d \o e, E)
    <2>1. PICK W : W = H \union M2
      OBVIOUS
    <2>2. W = cat \union (H \union M2)
      BY <1>6, <1>10, <2>1
    <2>3. \A o \in W : /\ o.name \in Names1 \union Names_2 \union {"alembic_version", "0001"}
                       /\ o.owner \notin Rows /\ o.uses \intersect Rows = {}
      BY <1>1, <1>12, <2>1, KindsAre
    <2>4. "alembic_version" \in Names(W) /\ "0001" \in Names(W) /\ "0002" \notin Names(W)
      BY <1>12, <2>1, <2>3, KindsAre DEF Names
    <2>5. Ready(W, e, E)
      BY <1>2, <2>3, <2>4, KindsAre, StampReady
    <2>6. Names(H \union M2) \intersect Names({Row(2)}) = {}
      BY <2>1, <2>4, KindsAre DEF Names
    <2>7. QED
      BY <1>4, <1>13, <2>2, <2>5, <2>6, ReadyThenUp
  <1>15. QED
    BY <1>1, <1>5, <1>9, <1>10, <1>14

\* After a statement or script that only drops.
LEMMA ReadyThenDrop ==
  ASSUME NEW V, NEW E, NEW a, NEW S, NEW M, NEW R, Does(a, S, M, R),
         NEW b, NEW T, NEW Q, Does(b, T, {}, Q),
         Ready(V, a, E),
         NEW W, \A o : o \in W <=> (o \in V \/ o \in M) /\ o.name \notin R,
         Ready(W, b, E)
  PROVE  Ready(V, a \o b, E) /\ Does(a \o b, S \union T, M, R \union Q)
  <1>1. PICK N : N = {}
    OBVIOUS
  <1>2. /\ Does(b, T, N, Q) /\ Names(M) \intersect Names(N) = {} /\ R \intersect Names(N) = {}
        /\ \A o \in N : o.owner \notin R /\ o.uses \intersect R = {}
        /\ M \union N = M /\ W = {o \in V \union M : o.name \notin R}
    BY <1>1, NamesOfNone
  <1>3. Ready(V, a \o b, E) /\ Does(a \o b, S \union T, M \union N, R \union Q)
    BY <1>2, ReadyThen
  <1>4. QED
    BY <1>2, <1>3

\* From revision 0001, up and down.
LEMMA From1Ready ==
  ASSUME NEW E
  PROVE  Ready(Schema(1), Script(1, 2), E) /\ Ready(Schema(1), Script(1, 0), E)
  <1>1. PICK V, M1, M2 : V = Schema(1) /\ M1 = Makes(Up1) /\ M2 = Makes(Up2)
    <2>1. PICK M1, M2 : M1 = Makes(Up1) /\ M2 = Makes(Up2)
      OBVIOUS
    <2>2. QED
      BY <2>1
  <1>2. PICK d, e, g, h : /\ d = Upgrade_2 /\ e = <<Stamp(1, 2)>>
                          /\ g = Downgrade_1 /\ h = <<Stamp(1, 0)>>
    <2>1. PICK e : e = <<Stamp(1, 2)>>
      OBVIOUS
    <2>2. PICK h : h = <<Stamp(1, 0)>>
      OBVIOUS
    <2>3. PICK d, g : d = Upgrade_2 /\ g = Downgrade_1
      OBVIOUS
    <2>4. QED
      BY <2>1, <2>2, <2>3
  <1>3. PICK F, H : F = {Stamp(1, 2)} /\ H = {Stamp(1, 0)}
    <2>1. PICK F : F = {Stamp(1, 2)}
      OBVIOUS
    <2>2. QED
      BY <2>1
  <1>4. /\ Does(d, Up2, M2, {}) /\ Does(e, F, {Row(2)}, {"0001"})
        /\ Does(g, Down1, {}, Dropped1) /\ Does(h, H, {}, {"0001"})
    BY <1>1, <1>2, <1>3, PartsAre, StampsAre
  <1>5. Script(1, 2) = d \o e /\ Script(1, 0) = g \o h
    BY <1>2 DEF Script
  <1>6. V = {VersionObject} \union M1 \union {Row(1)}
    BY <1>1, SchemaIs
  <1>7. /\ \A o \in V : /\ o.name \in Names1 \union {"alembic_version", "0001"}
                        /\ o.owner \notin Rows /\ o.uses \intersect Rows = {}
                        /\ o \in M1 \/ (o.owner \notin Names1 /\ o.uses \intersect Names1 = {})
        /\ "alembic_version" \in Names(V) /\ "0001" \in Names(V)
        /\ Names1 \subseteq Names(V) /\ Names(V) \intersect Names_2 = {}
    <2>1. ASSUME NEW o \in V
          PROVE  /\ o.name \in Names1 \union {"alembic_version", "0001"}
                 /\ o.owner \notin Rows /\ o.uses \intersect Rows = {}
                 /\ o \in M1 \/ (o.owner \notin Names1 /\ o.uses \intersect Names1 = {})
      <3>1. CASE o \in M1
        BY <1>1, <3>1, KindsAre
      <3>2. CASE o = VersionObject
        BY <3>2, KindsAre
      <3>3. CASE o = Row(1)
        BY <3>3, KindsAre
      <3>4. QED
        BY <1>6, <3>1, <3>2, <3>3
    <2>2. "alembic_version" \in Names(V) /\ "0001" \in Names(V)
      BY <1>6, KindsAre DEF Names
    <2>3. Names1 \subseteq Names(V)
      BY <1>1, <1>6, NamesMade DEF Names
    <2>4. Names(V) \intersect Names_2 = {}
      BY <2>1, KindsAre DEF Names
    <2>5. QED
      BY <2>1, <2>2, <2>3, <2>4
  <1>8. Ready(V, d \o e, E)
    <2>1. Ready(V, d, E)
      BY <1>2, <1>7, NamesMade, Upgrade2Ready
    <2>2. PICK W : W = V \union M2
      OBVIOUS
    <2>3. \A o \in W : /\ o.name \in Names1 \union Names_2 \union {"alembic_version", "0001"}
                       /\ o.owner \notin Rows /\ o.uses \intersect Rows = {}
      BY <1>1, <1>7, <2>2, KindsAre
    <2>4. "alembic_version" \in Names(W) /\ "0001" \in Names(W) /\ "0002" \notin Names(W)
      BY <1>7, <2>2, <2>3, KindsAre DEF Names
    <2>5. Ready(W, e, E)
      BY <1>2, <2>3, <2>4, KindsAre, StampReady
    <2>6. Names(M2) \intersect Names({Row(2)}) = {}
      BY <2>2, <2>4, KindsAre DEF Names
    <2>7. QED
      BY <1>4, <2>1, <2>2, <2>5, <2>6, ReadyThenUp
  <1>9. Ready(V, g \o h, E)
    <2>1. Ready(V, g, E)
      BY <1>1, <1>2, <1>7, KindsAre, Downgrade1Ready
    <2>2. PICK W : W = {o \in V \union {} : o.name \notin Dropped1}
      OBVIOUS
    <2>3. \A o \in W : o.owner \notin Rows /\ o.uses \intersect Rows = {}
      BY <1>7, <2>2
    <2>4. "alembic_version" \in Names(W) /\ "0001" \in Names(W)
      BY <1>7, <2>2, KindsAre DEF Names
    <2>5. Ready(W, h, E)
      BY <1>2, <2>3, <2>4, KindsAre, StampReady
    <2>6. PICK M : M = {}
      OBVIOUS
    <2>7. \A o : o \in W <=> (o \in V \/ o \in M) /\ o.name \notin Dropped1
      BY <2>2, <2>6
    <2>8. Does(g, Down1, M, Dropped1)
      BY <1>4, <2>6
    <2>9. QED
      BY <1>4, <2>1, <2>5, <2>7, <2>8, ReadyThenDrop
  <1>10. QED
    BY <1>1, <1>5, <1>8, <1>9

\* From revision 0002.
LEMMA From2Ready ==
  ASSUME NEW E
  PROVE  Ready(Schema(2), Script(2, 1), E) /\ Ready(Schema(2), Script(2, 0), E)
  <1>1. PICK V, M1, M2, R : V = Schema(2) /\ M1 = Makes(Up1) /\ M2 = Makes(Up2) /\ R = {Row(1)}
    <2>1. PICK M1, M2 : M1 = Makes(Up1) /\ M2 = Makes(Up2)
      OBVIOUS
    <2>2. PICK V, R : V = Schema(2) /\ R = {Row(1)}
      <3>1. PICK R : R = {Row(1)}
        OBVIOUS
      <3>2. QED
        BY <3>1
    <2>3. QED
      BY <2>1, <2>2
  <1>2. PICK a, c, g, h : /\ a = Downgrade_2 /\ c = <<Stamp(2, 1)>>
                          /\ g = Downgrade_1 /\ h = <<Stamp(1, 0)>>
    <2>1. PICK c : c = <<Stamp(2, 1)>>
      OBVIOUS
    <2>2. PICK h : h = <<Stamp(1, 0)>>
      OBVIOUS
    <2>3. PICK a, g : a = Downgrade_2 /\ g = Downgrade_1
      OBVIOUS
    <2>4. QED
      BY <2>1, <2>2, <2>3
  <1>3. PICK F, H : F = {Stamp(2, 1)} /\ H = {Stamp(1, 0)}
    <2>1. PICK F : F = {Stamp(2, 1)}
      OBVIOUS
    <2>2. QED
      BY <2>1
  <1>4. /\ Does(a, Down2, {}, Names_2) /\ Does(c, F, R, {"0002"})
        /\ Does(g, Down1, {}, Dropped1) /\ Does(h, H, {}, {"0001"})
    BY <1>1, <1>2, <1>3, PartsAre, StampsAre
  <1>5. Script(2, 1) = a \o c /\ Script(2, 0) = a \o c \o g \o h
    BY <1>2 DEF Script
  <1>6. V = {VersionObject} \union M1 \union M2 \union {Row(2)}
    BY <1>1, SchemaIs
  <1>7. /\ \A o \in V : /\ o \in M2 \/ o.name \in Names1 \union {"alembic_version", "0002"}
                        /\ o.owner \notin Rows /\ o.uses \intersect Rows = {}
                        /\ o \in M2 \/ (o.owner \notin Names_2 /\ o.uses \intersect Names_2 = {})
                        /\ o \in M1 \union M2 \/ (o.owner \notin Names1 /\ o.uses \intersect Names1 = {})
        /\ "alembic_version" \in Names(V) /\ "0002" \in Names(V)
        /\ Names1 \union Names_2 \subseteq Names(V)
    <2>1. ASSUME NEW o \in V
          PROVE  /\ o \in M2 \/ o.name \in Names1 \union {"alembic_version", "0002"}
                 /\ o.owner \notin Rows /\ o.uses \intersect Rows = {}
      <3>1. CASE o \in M1
        BY <1>1, <3>1, KindsAre
      <3>2. CASE o \in M2
        BY <1>1, <3>2, KindsAre
      <3>3. CASE o \in {VersionObject, Row(2)}
        BY <3>3, KindsAre
      <3>4. QED
        BY <1>6, <3>1, <3>2, <3>3
    <2>2. ASSUME NEW o \in V
          PROVE  /\ o \in M2 \/ (o.owner \notin Names_2 /\ o.uses \intersect Names_2 = {})
                 /\ o \in M1 \union M2 \/ (o.owner \notin Names1 /\ o.uses \intersect Names1 = {})
      <3>1. CASE o \in M1
        BY <1>1, <3>1, KindsAre
      <3>2. CASE o \in M2
        BY <3>2
      <3>3. CASE o \in {VersionObject, Row(2)}
        BY <3>3, KindsAre
      <3>4. QED
        BY <1>6, <3>1, <3>2, <3>3
    <2>3. "alembic_version" \in Names(V) /\ "0002" \in Names(V)
      BY <1>6, KindsAre DEF Names
    <2>4. Names1 \union Names_2 \subseteq Names(V)
      BY <1>1, <1>6, NamesMade DEF Names
    <2>5. QED
      BY <2>1, <2>2, <2>3, <2>4
  <1>8. Ready(V, a, E)
    BY <1>1, <1>2, <1>7, Downgrade2Ready
  <1>9. PICK f : f = a \o c
    OBVIOUS
  <1>10. Ready(V, f, E) /\ Does(f, Down2 \union F, R, Names_2 \union {"0002"})
    <2>1. PICK W : W = {o \in V \union {} : o.name \notin Names_2}
      OBVIOUS
    <2>2. \A o \in W : /\ o.name \in Names1 \union {"alembic_version", "0002"}
                       /\ o.owner \notin Rows /\ o.uses \intersect Rows = {}
      BY <1>1, <1>7, <2>1, KindsAre
    <2>3. "alembic_version" \in Names(W) /\ "0002" \in Names(W) /\ "0001" \notin Names(W)
      BY <1>7, <2>1, <2>2, KindsAre DEF Names
    <2>4. Ready(W, c, E)
      BY <1>2, <2>2, <2>3, KindsAre, StampReady
    <2>5. /\ Names({}) \intersect Names(R) = {} /\ Names_2 \intersect Names(R) = {}
          /\ \A o \in R : o.owner \notin Names_2 /\ o.uses \intersect Names_2 = {}
      BY <1>1, KindsAre, NamesOfNone DEF Names
    <2>6. /\ Ready(V, a \o c, E)
          /\ Does(a \o c, Down2 \union F, {} \union R, Names_2 \union {"0002"})
      BY <1>4, <1>8, <2>1, <2>4, <2>5, ReadyThen
    <2>7. {} \union R = R
      OBVIOUS
    <2>8. QED
      BY <1>9, <2>6, <2>7
  <1>11. PICK k : k = f \o g
    OBVIOUS
  <1>12. /\ Ready(V, k, E)
         /\ Does(k, Down2 \union F \union Down1, R, Names_2 \union {"0002"} \union Dropped1)
    <2>1. PICK W : W = {o \in V \union R : o.name \notin Names_2 \union {"0002"}}
      OBVIOUS
    <2>2. \A o \in W : o \in M1 \/ (o.owner \notin Names1 /\ o.uses \intersect Names1 = {})
      BY <1>1, <1>7, <2>1, KindsAre
    <2>3. Names1 \subseteq Names(W)
      BY <1>7, <2>1, KindsAre DEF Names
    <2>4. Ready(W, g, E)
      BY <1>1, <1>2, <2>2, <2>3, KindsAre, Downgrade1Ready
    <2>5. \A o : o \in W <=> (o \in V \/ o \in R) /\ o.name \notin Names_2 \union {"0002"}
      BY <2>1
    <2>6. QED
      BY <1>4, <1>10, <1>11, <2>4, <2>5, ReadyThenDrop
  <1>13. Ready(V, k \o h, E)
    <2>1. PICK W : W = {o \in V \union R : o.name \notin Names_2 \union {"0002"} \union Dropped1}
      OBVIOUS
    <2>2. \A o \in W : o.owner \notin Rows /\ o.uses \intersect Rows = {}
      BY <1>1, <1>7, <2>1, KindsAre
    <2>3. "alembic_version" \in Names(W) /\ "0001" \in Names(W)
      <3>1. "0001" \in Names(W)
        BY <1>1, <2>1, KindsAre DEF Names
      <3>2. "alembic_version" \in Names(W)
        BY <1>7, <2>1, KindsAre DEF Names
      <3>3. QED
        BY <3>1, <3>2
    <2>4. Ready(W, h, E)
      BY <1>2, <2>2, <2>3, KindsAre, StampReady
    <2>5. \A o : o \in W <=> /\ o \in V \/ o \in R
                             /\ o.name \notin Names_2 \union {"0002"} \union Dropped1
      BY <2>1
    <2>6. QED
      BY <1>4, <1>12, <2>4, <2>5, ReadyThenDrop
  <1>14. QED
    BY <1>1, <1>5, <1>9, <1>10, <1>11, <1>13

\* The objects that may be in the way of a command.
Excused(cat, r) == IF r.from = 0 THEN Left \intersect cat ELSE {}

\* The revision tells which catalog it is.
LEMMA VersionTells ==
  ASSUME CatalogOk(catalog)
  PROVE  /\ Version \in 0..2
         /\ Version = 0 => Empty(catalog)
         /\ Version \in {1, 2} => catalog = Schema(Version)
  <1>1. /\ "0001" \in Names(catalog) <=> catalog = Schema(1)
        /\ "0002" \in Names(catalog) <=> catalog = Schema(2)
    BY CatalogNames
  <1>2. QED
    BY <1>1 DEF CatalogOk, Version

LEMMA ScriptReady ==
  ASSUME CatalogOk(catalog), NEW to \in 0..2, to # Version
  PROVE  Ready(catalog, Script(Version, to),
               IF Version = 0 THEN Left \intersect catalog ELSE {})
  <1>1. PICK v : v = Version
    OBVIOUS
  <1>2. v \in 0..2 /\ (v = 0 => Empty(catalog)) /\ (v \in {1, 2} => catalog = Schema(v))
    BY <1>1, VersionTells
  <1>3. PICK E : E = IF v = 0 THEN Left \intersect catalog ELSE {}
    OBVIOUS
  <1>4. CASE v = 0
    <2>1. to \in {1, 2}
      BY <1>1, <1>4
    <2>2. Ready(catalog, Script(v, to), E)
      BY <1>2, <1>3, <1>4, <2>1, FromEmptyReady
    <2>3. QED
      BY <1>1, <1>3, <2>2
  <1>5. CASE v = 1
    <2>1. to \in {0, 2}
      BY <1>1, <1>5
    <2>2. Ready(catalog, Script(v, to), E)
      BY <1>2, <1>5, <2>1, From1Ready
    <2>3. QED
      BY <1>1, <1>3, <2>2
  <1>6. CASE v = 2
    <2>1. to \in {0, 1}
      BY <1>1, <1>6
    <2>2. Ready(catalog, Script(v, to), E)
      BY <1>2, <1>6, <2>1, From2Ready
    <2>3. QED
      BY <1>1, <1>3, <2>2
  <1>7. QED
    BY <1>2, <1>4, <1>5, <1>6

-------------------------------------------------------------------------------
(***************************************************************************)
(* Every running command is ready, unless another one has committed.       *)
(***************************************************************************)
RunReady(cat, r) ==
    r.busy /\ ~r.passed => Ready(Sees(cat, r), r.todo, Excused(cat, r))

OrderInv ==
    /\ MigrationsInv
    /\ \A p \in Runs : RunReady(catalog, run[p])

LEMMA OthersStayReady ==
  ASSUME OrderInv, NEW p \in Runs, NEW x, catalog' = catalog, run' = [run EXCEPT ![p] = x],
         RunReady(catalog, x), MigrationsInv'
  PROVE  OrderInv'
  <1>1. \A q \in Runs : run'[q] = IF q = p THEN x ELSE run[q]
    BY DEF OrderInv, MigrationsInv, TypeOK
  <1>2. \A q \in Runs : RunReady(catalog, run'[q])
    BY <1>1 DEF OrderInv
  <1>3. QED
    BY <1>2 DEF OrderInv

LEMMA StartIsReady ==
  ASSUME OrderInv, NEW p \in Runs, NEW to \in 0..2, Start(p, to)
  PROVE  OrderInv'
  <1>1. PICK v, s : v = Version /\ s = Script(v, to)
    <2>1. PICK v : v = Version
      OBVIOUS
    <2>2. QED
      BY <2>1
  <1>2. PICK x : x = [busy |-> TRUE, from |-> v, passed |-> FALSE, todo |-> s,
                      made |-> {}, gone |-> {}, locks |-> {}]
    OBVIOUS
  <1>3. run' = [run EXCEPT ![p] = x] /\ catalog' = catalog /\ to # v
    BY <1>1, <1>2 DEF Start
  <1>4. x.from = v /\ x.todo = s /\ x.made = {} /\ x.gone = {}
    BY <1>2
  <1>5. CatalogOk(catalog)
    BY DEF OrderInv, MigrationsInv
  <1>6. Ready(catalog, s, IF v = 0 THEN Left \intersect catalog ELSE {})
    BY <1>1, <1>3, <1>5, ScriptReady
  <1>7. Sees(catalog, x) = catalog
    BY <1>4 DEF Sees
  <1>8. RunReady(catalog, x)
    BY <1>4, <1>6, <1>7 DEF RunReady, Excused
  <1>9. MigrationsInv'
    BY StartKeeps DEF OrderInv
  <1>10. QED
    BY <1>3, <1>8, <1>9, OthersStayReady

LEMMA ExecuteStaysReady ==
  ASSUME OrderInv, NEW p \in Runs, Execute(p)
  PROVE  OrderInv'
  <1>1. PICK r, s, V, X, A : /\ r = run[p] /\ s = Head(r.todo) /\ V = View(p)
                             /\ X = Removed(s, V) /\ A = Added(s, V)
    <2>1. PICK r, V : r = run[p] /\ V = View(p)
      OBVIOUS
    <2>2. PICK s : s = Head(r.todo)
      OBVIOUS
    <2>3. PICK X, A : X = Removed(s, V) /\ A = Added(s, V)
      OBVIOUS
    <2>4. QED
      BY <2>1, <2>2, <2>3
  <1>2. PICK x : x = [busy |-> TRUE, from |-> r.from, passed |-> r.passed, todo |-> Tail(r.todo),
                      made |-> (r.made \ X) \union A, gone |-> r.gone \union X,
                      locks |-> r.locks \union Touched(s, V)]
    OBVIOUS
  <1>3. run' = [run EXCEPT ![p] = x] /\ catalog' = catalog /\ r.todo # <<>>
    BY <1>1, <1>2 DEF Execute
  <1>4. /\ x.from = r.from /\ x.passed = r.passed /\ x.todo = Tail(r.todo)
        /\ x.made = (r.made \ X) \union A /\ x.gone = r.gone \union X
    BY <1>2
  <1>5. V = Sees(catalog, r) /\ Sees(catalog, x) = (V \ X) \union A
    <2>1. V = Sees(catalog, r)
      BY <1>1 DEF View, Sees
    <2>2. QED
      BY <1>4, <2>1 DEF Sees
  <1>6. /\ r.busy \/ r = Idle
        /\ RunOk(catalog, r) /\ RunReady(catalog, r)
    BY <1>1 DEF OrderInv, MigrationsInv, TypeOK
  <1>7. r.busy
    BY <1>3, <1>6, IdleIs
  <1>8. r.todo \in Seq(Statement) /\ OrderOk(r.todo)
    BY <1>6, <1>7 DEF RunOk, Follows
  <1>9. RunReady(catalog, x)
    <2>1. PICK E : E = Excused(catalog, r)
      OBVIOUS
    <2>2. SUFFICES ASSUME ~r.passed
                   PROVE  Ready((V \ X) \union A, Tail(r.todo), E)
      BY <1>4, <1>5, <2>1 DEF RunReady, Excused
    <2>3. Ready(V, r.todo, E)
      BY <1>5, <1>6, <1>7, <2>1, <2>2 DEF RunReady
    <2>4. QED
      BY <1>1, <1>3, <1>8, <2>3, ReadyStep
  <1>10. MigrationsInv'
    BY ExecuteKeeps DEF OrderInv
  <1>11. QED
    BY <1>3, <1>9, <1>10, OthersStayReady

LEMMA EndStaysReady ==
  ASSUME OrderInv, NEW p \in Runs, Fail(p) \/ Abort(p)
  PROVE  OrderInv'
  <1>1. run' = [run EXCEPT ![p] = Idle] /\ catalog' = catalog
    BY DEF Fail, Abort
  <1>2. RunReady(catalog, Idle)
    BY IdleIs DEF RunReady
  <1>3. MigrationsInv'
    BY EndKeeps DEF OrderInv
  <1>4. QED
    BY <1>1, <1>2, <1>3, OthersStayReady

\* Whoever is running has been passed.
LEMMA CommitStaysReady ==
  ASSUME OrderInv, NEW p \in Runs, Commit(p)
  PROVE  OrderInv'
  <1>1. MigrationsInv'
    BY CommitKeeps DEF OrderInv
  <1>2. run' = [q \in Runs |-> IF q = p THEN Idle ELSE [run[q] EXCEPT !.passed = run[q].busy]]
    BY DEF Commit
  <1>3. ASSUME NEW q \in Runs
        PROVE  ~run'[q].busy \/ run'[q].passed
    <2>1. CASE q = p
      BY <1>2, <2>1, IdleIs
    <2>2. CASE q # p
      <3>1. PICK r, x : r = run[q] /\ x = [r EXCEPT !.passed = r.busy]
        <4>1. PICK r : r = run[q]
          OBVIOUS
        <4>2. QED
          BY <4>1
      <3>2. r \in RunType
        BY <3>1 DEF OrderInv, MigrationsInv, TypeOK, RunType
      <3>3. r.busy \in BOOLEAN
        BY <3>2 DEF RunType
      <3>4. x.busy = r.busy /\ x.passed = r.busy
        BY <3>1, <3>2 DEF RunType
      <3>5. run'[q] = x
        BY <1>2, <2>2, <3>1
      <3>6. QED
        BY <3>3, <3>4, <3>5
    <2>3. QED
      BY <2>1, <2>2
  <1>4. QED
    BY <1>1, <1>3 DEF OrderInv, RunReady

LEMMA OrderHolds == Spec => []OrderInv
  <1>1. Init => OrderInv
    <2> SUFFICES ASSUME Init
                 PROVE  OrderInv
      OBVIOUS
    <2>1. \A p \in Runs : run[p] = Idle
      BY DEF Init
    <2>2. \A p \in Runs : RunReady(catalog, run[p])
      BY <2>1, IdleIs DEF RunReady
    <2>3. QED
      BY <2>2, MigrationsBegin DEF OrderInv
  <1>2. OrderInv /\ [Next]_vars => OrderInv'
    <2> SUFFICES ASSUME OrderInv, [Next]_vars
                 PROVE  OrderInv'
      OBVIOUS
    <2>1. ASSUME NEW p \in Runs, NEW to \in 0..2, Start(p, to)
          PROVE  OrderInv'
      BY <2>1, StartIsReady
    <2>2. ASSUME NEW p \in Runs, Execute(p)
          PROVE  OrderInv'
      BY <2>2, ExecuteStaysReady
    <2>3. ASSUME NEW p \in Runs, Commit(p)
          PROVE  OrderInv'
      BY <2>3, CommitStaysReady
    <2>4. ASSUME NEW p \in Runs, Fail(p) \/ Abort(p)
          PROVE  OrderInv'
      BY <2>4, EndStaysReady
    <2>5. CASE UNCHANGED vars
      BY <2>5 DEF vars, OrderInv, MigrationsInv, TypeOK, RunOk, RunReady
    <2>6. QED
      BY <2>1, <2>2, <2>3, <2>4, <2>5 DEF Next
  <1>3. QED
    BY <1>1, <1>2, PTL DEF Spec

\* Unless another command has committed since it began, the statements of a
\* command are never refused, with one exception: an upgrade from the empty schema
\* is refused a table whose type the downgrade of 0001 has left behind.  The order
\* of the statements of both revisions, up and down, is right for every name.
THEOREM RefusedOnlyByLeft == Spec => []RefusedOnlyByLeftTypes
  <1>1. OrderInv => RefusedOnlyByLeftTypes
    <2> SUFFICES ASSUME OrderInv, NEW p \in Runs, run[p].todo # <<>>, ~run[p].passed,
                        Refused(Head(run[p].todo), View(p))
                 PROVE  /\ run[p].from = 0
                        /\ Head(run[p].todo).make \intersect Left \intersect catalog # {}
      BY DEF RefusedOnlyByLeftTypes
    <2>1. PICK r, V, E : r = run[p] /\ V = View(p) /\ E = Excused(catalog, r)
      <3>1. PICK r, V : r = run[p] /\ V = View(p)
        OBVIOUS
      <3>2. QED
        BY <3>1
    <2>2. /\ r \in RunType /\ (r.busy \/ r = Idle) /\ r.todo # <<>> /\ ~r.passed
          /\ RunReady(catalog, r)
      BY <2>1 DEF OrderInv, MigrationsInv, TypeOK, RunType
    <2>3. r.busy /\ r.todo \in Seq(Statement)
      BY <2>2, IdleIs DEF RunType
    <2>4. V = Sees(catalog, r)
      BY <2>1 DEF View, Sees
    <2>5. Ready(V, r.todo, E)
      BY <2>1, <2>2, <2>3, <2>4 DEF RunReady
    <2>6. Head(r.todo).make \intersect E # {}
      BY <2>1, <2>2, <2>3, <2>5, ReadyIsNotRefused
    <2>7. QED
      BY <2>1, <2>6 DEF Excused
  <1>2. QED
    BY <1>1, OrderHolds, PTL

-------------------------------------------------------------------------------
(***************************************************************************)
(* A command that commits has begun at the revision it replaces.           *)
(***************************************************************************)
LEMMA FoundItsRevision ==
  ASSUME NEW cat, CatalogOk(cat), NEW r, NEW from \in 0..2, NEW to \in 0..2, from # to,
         Did(cat, r, Statements(Script(from, to))), Shadows(cat, r)
  PROVE  IF from = 0 THEN Empty(cat) ELSE cat = Schema(from)
  <1>1. PICK V, G, M, m1, m2, r1, r2, v : /\ V = Sees(cat, r) /\ G = r.gone /\ M = r.made
                                          /\ m1 = Makes(Up1) /\ m2 = Makes(Up2)
                                          /\ r1 = Row(1) /\ r2 = Row(2) /\ v = VersionObject
    <2>1. PICK V, G, M : V = Sees(cat, r) /\ G = r.gone /\ M = r.made
      OBVIOUS
    <2>2. PICK m1, m2, r1, r2, v : /\ m1 = Makes(Up1) /\ m2 = Makes(Up2)
                                   /\ r1 = Row(1) /\ r2 = Row(2) /\ v = VersionObject
      OBVIOUS
    <2>3. QED
      BY <2>1, <2>2
  <1>2. PICK S, Mk, Dr : /\ Does(Script(from, to), S, Mk, Dr)
                         /\ from = 0 => /\ Up1 \subseteq S /\ Dr \subseteq Rows
                                        /\ Mk \subseteq {v} \union m1 \union m2 \union {r1, r2}
                         /\ from # 0 => /\ Revision(from) \in Dr
                                        /\ \A o \in Mk : o.name # Revision(from)
    <2>1. \A o \in m2 : o.name \notin Rows
      BY <1>1, KindsAre
    <2>2. /\ r1.name = "0001" /\ r2.name = "0002"
          /\ Revision(1) = "0001" /\ Revision(2) = "0002" /\ Rows = {"0001", "0002"}
      BY <1>1, KindsAre
    <2>3. CASE from = 0 /\ to = 1
      <3>1. Does(Script(from, to), {VersionTable} \union Up1 \union {Stamp(0, 1)},
                 {v} \union m1 \union {r1}, {})
        BY <1>1, <2>3, ScriptsUp
      <3>2. QED
        BY <2>3, <3>1
    <2>4. CASE from = 0 /\ to = 2
      <3>1. Does(Script(from, to),
                 {VersionTable} \union Up1 \union {Stamp(0, 1)} \union Up2 \union {Stamp(1, 2)},
                 {v} \union m1 \union {r1} \union m2 \union {r2}, {"0001"})
        BY <1>1, <2>4, ScriptsUp
      <3>2. QED
        BY <2>2, <2>4, <3>1
    <2>5. CASE from = 1 /\ to = 2
      <3>1. Does(Script(from, to), Up2 \union {Stamp(1, 2)}, m2 \union {r2}, {"0001"})
        BY <1>1, <2>5, ScriptsUp
      <3>2. QED
        BY <2>1, <2>2, <2>5, <3>1
    <2>6. CASE from = 2 /\ to = 1
      <3>1. Does(Script(from, to), Down2 \union {Stamp(2, 1)}, {r1}, Names_2 \union {"0002"})
        BY <1>1, <2>6, ScriptsDown
      <3>2. QED
        BY <2>2, <2>6, <3>1
    <2>7. CASE from = 2 /\ to = 0
      <3>1. Does(Script(from, to), Down2 \union {Stamp(2, 1)} \union Down1 \union {Stamp(1, 0)},
                 {r1}, Names_2 \union {"0002"} \union Dropped1 \union {"0001"})
        BY <1>1, <2>7, ScriptsDown
      <3>2. QED
        BY <2>2, <2>7, <3>1
    <2>8. CASE from = 1 /\ to = 0
      <3>1. Does(Script(from, to), Down1 \union {Stamp(1, 0)}, {}, Dropped1 \union {"0001"})
        BY <2>8, ScriptsDown
      <3>2. QED
        BY <2>2, <2>8, <3>1
    <2>9. QED
      BY <2>3, <2>4, <2>5, <2>6, <2>7, <2>8
  <1>3. Whole(cat, V, G, M, S, Mk, Dr)
    BY <1>1, <1>2, WholeIs
  <1>4. CASE from = 0
    BY <1>1, <1>2, <1>3, <1>4, FoundEmpty
  <1>5. CASE from # 0
    <2>1. from \in {1, 2}
      BY <1>5
    <2>2. cat = Schema(from)
      BY <1>2, <1>3, <1>5, <2>1, FoundSchema
    <2>3. QED
      BY <1>5, <2>2
  <1>6. QED
    BY <1>4, <1>5

LEMMA SchemasApart == Schema(1) # Schema(2)
  <1>1. "0002" \notin Names(Schema(1))
    <2>1. Row(1).name = "0001" /\ "0001" # "0002"
      BY RowsAre
    <2>2. QED
      BY <2>1, KindsAre, SchemaIs DEF Names
  <1>2. "0002" \in Names(Schema(2))
    BY RowsAre, SchemaIs DEF Names
  <1>3. QED
    BY <1>1, <1>2

\* Commands are serial: however many of them overlap, one that commits has begun
\* at the revision that is then committed, so that no upgrade or downgrade is
\* applied to a schema it has not read, or applied twice.
THEOREM CommittedInTurn == Spec => CommandsAreSerial
  <1>1. MigrationsInv /\ [Next]_vars
          => [\A p \in Runs : Commit(p) => run[p].from = Version]_vars
    <2> SUFFICES ASSUME MigrationsInv, NEW p \in Runs, Commit(p)
                 PROVE  run[p].from = Version
      OBVIOUS
    <2>1. PICK r, c : r = run[p] /\ c = catalog
      OBVIOUS
    <2>2. r.busy /\ r.todo = <<>> /\ CatalogOk(c) /\ RunOk(c, r)
      BY <2>1 DEF Commit, MigrationsInv
    <2>3. PICK to, D : Follows(r, to, D) /\ Did(c, r, D)
      BY <2>2 DEF RunOk
    <2>4. Statements(r.todo) = {}
      BY <2>2 DEF Statements
    <2>5. /\ r.from \in 0..2 /\ to \in 0..2 /\ r.from # to
          /\ Did(c, r, Statements(Script(r.from, to))) /\ Shadows(c, r)
      BY <2>2, <2>3, <2>4 DEF Follows, RunOk, Holds
    <2>6. IF r.from = 0 THEN Empty(c) ELSE c = Schema(r.from)
      BY <2>2, <2>5, FoundItsRevision
    <2>7. /\ "0001" \in Names(c) <=> c = Schema(1)
          /\ "0002" \in Names(c) <=> c = Schema(2)
          /\ Empty(c) => c # Schema(1) /\ c # Schema(2)
      BY <2>2, CatalogNames
    <2>8. QED
      BY <2>1, <2>5, <2>6, <2>7, SchemasApart DEF Version
  <1>2. QED
    BY <1>1, MigrationsHold, PTL DEF Spec, CommandsAreSerial

-------------------------------------------------------------------------------
(***************************************************************************)
(* The commands implement a history of whole upgrades and downgrades.      *)
(***************************************************************************)
\* The types that are left behind belong to no table, and no downgrade drops them.
LEMMA LeftAlone ==
  \A o \in Left : /\ o.owner = o.name /\ o.name \notin Dropped1 /\ o.name \notin Names_2
                  /\ o.name \notin Rows
  <1>1. LeftNames \subseteq Name
    BY NamesApart
  <1>2. \A n \in LeftNames : Type(n).name = n /\ Type(n).owner = n
    BY <1>1, TypeIs, ObjIs DEF Type
  <1>3. Left = {Type(n) : n \in LeftNames}
    BY DEF Left, LeftNames
  <1>4. \A n \in LeftNames : n \notin Dropped1 /\ n \notin Names_2 /\ n \notin Rows
    BY NamesApart
  <1>5. QED
    BY <1>2, <1>3, <1>4

\* A command leaves the catalog of its revision: a downgrade to the empty schema
\* with the types that are left behind, and an upgrade from it has found none of
\* them, since it has created them.
LEMMA CommitsItsRevision ==
  ASSUME NEW cat, CatalogOk(cat), NEW r, NEW from \in 0..2, NEW to \in 0..2, from # to,
         Did(cat, r, Statements(Script(from, to))), Shadows(cat, r)
  PROVE  /\ to # 0 => Sees(cat, r) = Schema(to)
         /\ to = 0 => Empty(Sees(cat, r)) /\ Left \subseteq Sees(cat, r)
         /\ from = 0 => Left \intersect cat = {}
  <1>1. PICK V, G, M, D2 : /\ V = Sees(cat, r) /\ G = r.gone /\ M = r.made
                           /\ D2 = Names_2 \union {"0002"} \union Dropped1 \union {"0001"}
    OBVIOUS
  <1>2. Rows = {"0001", "0002"}
    BY KindsAre
  <1>3. ASSUME Left \subseteq cat, NEW S, NEW Mk, NEW Dr, Dr \subseteq D2,
               Whole(cat, V, G, M, S, Mk, Dr)
        PROVE  Left \subseteq V
    BY <1>1, <1>2, <1>3, LeftAlone DEF Whole
  <1>4. ASSUME from # 0
        PROVE  Left \subseteq cat
    <2>1. cat = Schema(from) /\ from \in {1, 2}
      BY <1>4, FoundItsRevision
    <2>2. QED
      BY <2>1, SchemaIs, MakesUp1
  <1>5. ASSUME NEW S, NEW Mk, NEW Dr, Whole(cat, V, G, M, S, Mk, Dr),
               Makes(Up1) \subseteq M, \A o \in G : o.name \in Dr, Dr \subseteq Rows
        PROVE  Left \intersect cat = {}
    <2>1. Left \subseteq M
      BY <1>5, MakesUp1
    <2>2. QED
      BY <1>5, <2>1, LeftAlone DEF Whole
  <1>6. CASE from = 0 /\ to = 1
    <2>1. PICK S, Mk : /\ S = {VersionTable} \union Up1 \union {Stamp(0, 1)}
                       /\ Mk = {VersionObject} \union Makes(Up1) \union {Row(1)}
      OBVIOUS
    <2>2. Whole(cat, V, G, M, S, Mk, {})
      BY <1>1, <1>6, <2>1, ScriptsUp, WholeIs
    <2>3. V = Schema(1)
      BY <2>1, <2>2, Finished01
    <2>4. Makes(Up1) \subseteq M /\ \A o \in G : o.name \in {}
      <3>1. Up1 \subseteq S /\ {} \subseteq Rows
            /\ Mk \subseteq {VersionObject} \union Makes(Up1) \union Makes(Up2) \union {Row(1), Row(2)}
        BY <2>1
      <3>2. QED
        BY <2>2, <3>1, FoundEmpty
    <2>5. Left \intersect cat = {}
      BY <1>5, <2>2, <2>4
    <2>6. QED
      BY <1>1, <1>6, <2>3, <2>5
  <1>7. CASE from = 0 /\ to = 2
    <2>1. PICK S, Mk : /\ S = {VersionTable} \union Up1 \union {Stamp(0, 1)} \union Up2
                                \union {Stamp(1, 2)}
                       /\ Mk = {VersionObject} \union Makes(Up1) \union {Row(1)} \union Makes(Up2)
                                \union {Row(2)}
      OBVIOUS
    <2>2. Whole(cat, V, G, M, S, Mk, {"0001"})
      BY <1>1, <1>7, <2>1, ScriptsUp, WholeIs
    <2>3. V = Schema(2)
      BY <2>1, <2>2, Finished02
    <2>4. Makes(Up1) \subseteq M /\ \A o \in G : o.name \in {"0001"}
      <3>1. Up1 \subseteq S /\ {"0001"} \subseteq Rows
            /\ Mk \subseteq {VersionObject} \union Makes(Up1) \union Makes(Up2) \union {Row(1), Row(2)}
        BY <1>2, <2>1
      <3>2. QED
        BY <2>2, <3>1, FoundEmpty
    <2>5. Left \intersect cat = {}
      BY <1>2, <1>5, <2>2, <2>4
    <2>6. QED
      BY <1>1, <1>7, <2>3, <2>5
  <1>8. CASE from = 1 /\ to = 2
    BY <1>8, ScriptsUp, WholeIs, Finished12
  <1>9. CASE from = 2 /\ to = 1
    BY <1>9, ScriptsDown, WholeIs, Finished21
  <1>10. CASE from = 2 /\ to = 0
    <2>1. Whole(cat, V, G, M, Down2 \union {Stamp(2, 1)} \union Down1 \union {Stamp(1, 0)},
                {Row(1)}, D2)
      BY <1>1, <1>10, ScriptsDown, WholeIs
    <2>2. Empty(V)
      BY <1>1, <2>1, Finished20
    <2>3. Left \subseteq V
      <3>1. Left \subseteq cat /\ D2 \subseteq D2
        BY <1>4, <1>10
      <3>2. QED
        BY <1>3, <2>1, <3>1
    <2>4. QED
      BY <1>1, <1>10, <2>2, <2>3
  <1>11. CASE from = 1 /\ to = 0
    <2>1. PICK Dr : Dr = Dropped1 \union {"0001"}
      OBVIOUS
    <2>2. Whole(cat, V, G, M, Down1 \union {Stamp(1, 0)}, {}, Dr)
      BY <1>1, <1>11, <2>1, ScriptsDown, WholeIs
    <2>3. Empty(V)
      BY <2>1, <2>2, Finished10
    <2>4. Left \subseteq V
      <3>1. Left \subseteq cat /\ Dr \subseteq D2
        BY <1>1, <1>4, <1>11, <2>1
      <3>2. QED
        BY <1>3, <2>2, <3>1
    <2>5. QED
      BY <1>1, <1>11, <2>3, <2>4
  <1>12. QED
    BY <1>6, <1>7, <1>8, <1>9, <1>10, <1>11

\* The revision of a catalog.
LEMMA VersionOf ==
  ASSUME CatalogOk(catalog)
  PROVE  /\ Version \in 0..2
         /\ Version = 0 <=> Empty(catalog)
         /\ \A n \in {1, 2} : Version = n <=> catalog = Schema(n)
  <1>1. /\ "0001" \in Names(catalog) <=> catalog = Schema(1)
        /\ "0002" \in Names(catalog) <=> catalog = Schema(2)
        /\ Empty(catalog) => catalog # Schema(1) /\ catalog # Schema(2)
    BY CatalogNames
  <1>2. QED
    BY <1>1, SchemasApart DEF CatalogOk, Version

\* And of the next one.
LEMMA VersionOfNext ==
  ASSUME CatalogOk(catalog')
  PROVE  /\ Version' \in 0..2
         /\ Version' = 0 <=> Empty(catalog')
         /\ \A n \in {1, 2} : Version' = n <=> catalog' = Schema(n)
  <1>1. /\ "0001" \in Names(catalog') <=> catalog' = Schema(1)
        /\ "0002" \in Names(catalog') <=> catalog' = Schema(2)
        /\ Empty(catalog') => catalog' # Schema(1) /\ catalog' # Schema(2)
    BY CatalogNames
  <1>2. QED
    BY <1>1, SchemasApart DEF CatalogOk, Version

\* What a commit does to the database is one whole upgrade or downgrade.
LEMMA CommitIsOneCommand ==
  ASSUME MigrationsInv, NEW p \in Runs, Commit(p)
  PROVE  History!Next
  <1>1. PICK r, c : r = run[p] /\ c = catalog
    OBVIOUS
  <1>2. r.busy /\ r.todo = <<>> /\ CatalogOk(c) /\ RunOk(c, r) /\ catalog' = Sees(c, r)
    BY <1>1 DEF Commit, MigrationsInv, View, Sees
  <1>3. PICK to, D : Follows(r, to, D) /\ Did(c, r, D)
    BY <1>2 DEF RunOk
  <1>4. Statements(r.todo) = {}
    BY <1>2 DEF Statements
  <1>5. /\ r.from \in 0..2 /\ to \in 0..2 /\ r.from # to
        /\ Did(c, r, Statements(Script(r.from, to))) /\ Shadows(c, r)
    BY <1>2, <1>3, <1>4 DEF Follows, RunOk, Holds
  <1>6. /\ IF r.from = 0 THEN Empty(c) ELSE c = Schema(r.from)
        /\ to # 0 => catalog' = Schema(to)
        /\ to = 0 => Empty(catalog') /\ Left \subseteq catalog'
        /\ r.from = 0 => Left \intersect c = {}
    BY <1>2, <1>5, FoundItsRevision, CommitsItsRevision
  <1>7. Version = r.from
    BY <1>1, <1>2, <1>5, <1>6, VersionOf
  <1>8. Version' = to
    <2>1. CatalogOk(catalog')
      BY <1>5, <1>6 DEF CatalogOk
    <2>2. QED
      BY <1>5, <1>6, <2>1, VersionOfNext
  <1>9. Stray = FALSE
    BY <1>1, <1>6, <1>7 DEF Stray
  <1>10. Stray' = (to = 0)
    <2>1. Left # {}
      BY DEF Left
    <2>2. Stray' <=> to = 0
      BY <1>6, <1>8, <2>1 DEF Stray
    <2>3. QED
      BY <2>2 DEF Stray
  <1>11. CASE to > r.from
    <2>1. Stray' = Stray
      <3>1. (to = 0) = FALSE
        BY <1>5, <1>11
      <3>2. QED
        BY <1>9, <1>10, <3>1
    <2>2. History!Upgrade(to)
      BY <1>7, <1>8, <1>9, <1>11, <2>1 DEF History!Upgrade
    <2>3. QED
      BY <1>5, <2>2 DEF History!Next
  <1>12. CASE to < r.from
    <2>1. History!Downgrade(to)
      BY <1>7, <1>8, <1>10, <1>12 DEF History!Downgrade
    <2>2. QED
      BY <1>5, <2>1 DEF History!Next
  <1>13. QED
    BY <1>5, <1>11, <1>12

\* Overlapping commands implement a series of whole ones: the initial state is the
\* empty database, a commit is an upgrade or a downgrade, and all other steps of
\* the commands (env.py's transaction and the statements in it) change nothing.
THEOREM HistoryHolds == Spec => HistoryIsSerial
  <1>1. Init => History!Init
    <2> SUFFICES ASSUME Init
                 PROVE  History!Init
      OBVIOUS
    <2>1. Version = 0
      BY DEF Init, Version, Names
    <2>2. Stray = FALSE
      BY DEF Init, Stray
    <2>3. QED
      BY <2>1, <2>2 DEF History!Init
  <1>2. MigrationsInv /\ [Next]_vars => [History!Next]_<<Version, Stray>>
    <2> SUFFICES ASSUME MigrationsInv, [Next]_vars
                 PROVE  History!Next \/ UNCHANGED <<Version, Stray>>
      OBVIOUS
    <2>1. ASSUME UNCHANGED catalog
          PROVE  UNCHANGED <<Version, Stray>>
      BY <2>1 DEF Version, Stray
    <2>2. ASSUME NEW p \in Runs, Commit(p)
          PROVE  History!Next
      BY <2>2, CommitIsOneCommand
    <2>3. CASE UNCHANGED vars
      BY <2>1, <2>3 DEF vars
    <2>4. CASE Next
      <3>1. (\E p \in Runs : Commit(p)) \/ UNCHANGED catalog
        BY <2>4 DEF Next, Start, Execute, Fail, Abort
      <3>2. QED
        BY <2>1, <2>2, <3>1
    <2>5. QED
      BY <2>3, <2>4
  <1>3. QED
    BY <1>1, <1>2, MigrationsHold, PTL DEF Spec, HistoryIsSerial, History!Spec

\* A database that keeps types of an earlier schema is never upgraded again: the
\* downgrade of 0001 leaves them, and no command removes them.
THEOREM StrayTypesAreFinal == Spec => [][Stray => Stray']_vars
  <1>1. [History!Next]_<<Version, Stray>> => [Stray => Stray']_vars
    <2> SUFFICES ASSUME [History!Next]_<<Version, Stray>>, Stray
                 PROVE  Stray'
      OBVIOUS
    <2>1. Version = 0
      BY DEF Stray
    <2>2. ASSUME History!Next
          PROVE  FALSE
      <3>1. PICK to \in 0..2 : History!Upgrade(to) \/ History!Downgrade(to)
        BY <2>2 DEF History!Next
      <3>2. ~History!Upgrade(to)
        BY DEF History!Upgrade
      <3>3. ~History!Downgrade(to)
        BY <2>1, <3>1 DEF History!Downgrade
      <3>4. QED
        BY <3>1, <3>2, <3>3
    <2>3. QED
      BY <2>2
  <1>2. QED
    BY <1>1, HistoryHolds, PTL DEF HistoryIsSerial, History!Spec

===============================================================================
