---------------------------- MODULE PresenceProofs ----------------------------
(***************************************************************************)
(* What module Presence guarantees for every number of users, tabs and     *)
(* broadcasts: who is listed, whom a broadcast passes over, what a browser *)
(* shows of users that have gone, and whose key is left behind.            *)
(***************************************************************************)
EXTENDS Presence, TLAPS, WellFoundedInduction, SequenceTheorems

-------------------------------------------------------------------------------
(***************************************************************************)
(* Lists of clients: what append, remove and the loop over the dead        *)
(* clients leave of a list.  The loop is a recursive function; that it is  *)
(* one, and what it computes, is proved by induction over its turns.       *)
(***************************************************************************)
Distinct(r) == \A i, j \in DOMAIN r : r[i] = r[j] => i = j

LEMMA FirstOf ==
  ASSUME NEW S, S \subseteq Nat, S # {}
  PROVE  \E n \in S : \A k \in S : n <= k
  <1> DEFINE Less == OpToRel(<, Nat)
  <1>1. IsWellFoundedOn(Less, Nat)
    BY NatLessThanWellFounded
  <1> HIDE DEF Less
  <1>2. \E n \in S : \A k \in S : ~(<<k, n>> \in Less)
    BY <1>1, WFMin
  <1>3. \A k, n \in Nat : <<k, n>> \in Less <=> k < n
    BY DEF Less, OpToRel
  <1>4. \A k, n \in S : ~(<<k, n>> \in Less) => n <= k
    BY <1>3
  <1>5. QED
    BY <1>2, <1>4

LEMMA TurnInduction ==
  ASSUME NEW S, 0 \in S, \A n \in Nat : n \in S => n + 1 \in S
  PROVE  Nat \subseteq S
  <1> SUFFICES ASSUME Nat \ S # {}
               PROVE  FALSE
    OBVIOUS
  <1>1. PICK n \in Nat \ S : \A k \in Nat \ S : n <= k
    BY FirstOf
  <1>2. n # 0 /\ n - 1 \in Nat
    BY <1>1
  <1>3. n - 1 \in S
    BY <1>1, <1>2
  <1>4. QED
    BY <1>1, <1>2, <1>3

LEMMA SeqIs ==
  ASSUME NEW S, NEW r \in Seq(S)
  PROVE  /\ Len(r) \in Nat /\ DOMAIN r = 1..Len(r)
         /\ \A i \in 1..Len(r) : r[i] \in S
         /\ \A w : w \in ToSet(r) <=> \E i \in 1..Len(r) : r[i] = w
         /\ ToSet(r) \subseteq S
         /\ r = <<>> => ToSet(r) = {}
  <1>1. Len(r) \in Nat /\ DOMAIN r = 1..Len(r) /\ \A i \in 1..Len(r) : r[i] \in S
    OBVIOUS
  <1>2. \A w : w \in ToSet(r) <=> \E i \in 1..Len(r) : r[i] = w
    BY <1>1 DEF ToSet
  <1>3. r = <<>> => Len(r) = 0
    OBVIOUS
  <1>4. QED
    BY <1>1, <1>2, <1>3

LEMMA AppendIs ==
  ASSUME NEW S, NEW r \in Seq(S), NEW t \in S
  PROVE  /\ Append(r, t) \in Seq(S)
         /\ Append(r, t) # <<>>
         /\ Len(Append(r, t)) = Len(r) + 1
         /\ \A i \in 1..Len(r) : Append(r, t)[i] = r[i]
         /\ Append(r, t)[Len(r) + 1] = t
         /\ ToSet(Append(r, t)) = ToSet(r) \union {t}
         /\ Distinct(r) /\ t \notin ToSet(r) => Distinct(Append(r, t))
  <1> DEFINE a == Append(r, t)
  <1>1. /\ a \in Seq(S) /\ Len(a) = Len(r) + 1 /\ Len(r) \in Nat
        /\ \A i \in 1..Len(r) : a[i] = r[i]
        /\ a[Len(r) + 1] = t
    OBVIOUS
  <1> HIDE DEF a
  <1>2. \A i : i \in 1..Len(a) <=> i \in 1..Len(r) \/ i = Len(r) + 1
    BY <1>1
  <1>3. \A w : w \in ToSet(a) <=> w \in ToSet(r) \/ w = t
    <2>1. /\ \A w : w \in ToSet(a) <=> \E i \in 1..Len(a) : a[i] = w
          /\ \A w : w \in ToSet(r) <=> \E i \in 1..Len(r) : r[i] = w
      BY <1>1, SeqIs
    <2>2. QED
      BY <1>1, <1>2, <2>1
  <1>4. ASSUME Distinct(r), t \notin ToSet(r)
        PROVE  Distinct(a)
    <2>1. \A i \in 1..Len(r) : r[i] # t
      BY <1>4, SeqIs
    <2>2. DOMAIN a = 1..Len(a) /\ DOMAIN r = 1..Len(r)
      BY <1>1
    <2>3. \A i, j \in 1..Len(r) : a[i] = a[j] => i = j
      BY <1>1, <1>4, <2>2 DEF Distinct
    <2>4. QED
      BY <1>1, <1>2, <2>1, <2>2, <2>3 DEF Distinct
  <1>5. a # <<>>
    BY <1>1
  <1>6. QED
    BY <1>1, <1>3, <1>4, <1>5 DEF a

\* room.remove(client).
LEMMA RemoveFirstIs ==
  ASSUME NEW S, NEW r \in Seq(S), Distinct(r), NEW t
  PROVE  /\ RemoveFirst(r, t) \in Seq(S)
         /\ Distinct(RemoveFirst(r, t))
         /\ ToSet(RemoveFirst(r, t)) = ToSet(r) \ {t}
         /\ t \notin ToSet(r) => RemoveFirst(r, t) = r
  <1>0. Len(r) \in Nat /\ DOMAIN r = 1..Len(r)
    OBVIOUS
  <1>1. CASE t \notin ToSet(r)
    <2>1. ~ \E i \in 1..Len(r) : r[i] = t
      BY <1>1, SeqIs
    <2>2. RemoveFirst(r, t) = r
      BY <2>1 DEF RemoveFirst
    <2>3. QED
      BY <1>1, <2>2
  <1>2. CASE t \in ToSet(r)
    <2>1. PICK i \in 1..Len(r) : r[i] = t
      BY <1>2, SeqIs
    <2>2. \A j \in 1..Len(r) : r[j] = t => j = i
      BY <1>0, <2>1 DEF Distinct
    <2>3. SelectInSeq(r, LAMBDA v : v = t) = i
      <3> DEFINE I == {j \in 1..Len(r) : r[j] = t}
      <3>1. I = {i}
        BY <2>1, <2>2
      <3>2. Min({i}) = i
        BY <2>1 DEF Min
      <3>3. SelectInSeq(r, LAMBDA v : v = t) = IF I # {} THEN Min(I) ELSE 0
        BY DEF SelectInSeq
      <3>4. QED
        BY <3>1, <3>2, <3>3
    <2> DEFINE a == SubSeq(r, 1, i - 1)
               b == SubSeq(r, i + 1, Len(r))
               c == a \o b
    <2>4. RemoveFirst(r, t) = c
      BY <2>1, <2>3 DEF RemoveFirst, RemoveAt
    <2>5. a \in Seq(S) /\ Len(a) = i - 1 /\ \A j \in 1..(i - 1) : a[j] = r[j]
      BY <1>0, <2>1
    <2>6. b \in Seq(S) /\ Len(b) = Len(r) - i /\ \A j \in 1..(Len(r) - i) : b[j] = r[i + j]
      <3>1. /\ i + 1 \in Int /\ Len(r) \in Int
            /\ \A j \in (i + 1)..Len(r) : r[j] \in S
        BY <1>0, <2>1
      <3>2. /\ b \in Seq(S)
            /\ Len(b) = IF i + 1 <= Len(r) THEN Len(r) - (i + 1) + 1 ELSE 0
            /\ \A j \in 1..(Len(r) - (i + 1) + 1) : b[j] = r[(i + 1) + j - 1]
        BY <3>1, SubSeqProperties
      <3> HIDE DEF b
      <3>4. i \in Int /\ Len(r) \in Int /\ i <= Len(r)
        BY <1>0, <2>1
      <3>5. (IF i + 1 <= Len(r) THEN Len(r) - (i + 1) + 1 ELSE 0) = Len(r) - i
        BY <3>4
      <3>6. Len(b) = Len(r) - i
        <4>1. Len(b) = IF i + 1 <= Len(r) THEN Len(r) - (i + 1) + 1 ELSE 0
          BY <3>2
        <4> DEFINE m == Len(b)
                   n == Len(r)
        <4>2. m = IF i + 1 <= n THEN n - (i + 1) + 1 ELSE 0
          BY <4>1
        <4>3. (IF i + 1 <= n THEN n - (i + 1) + 1 ELSE 0) = n - i
          BY <3>5
        <4> HIDE DEF m, n
        <4>4. m = n - i
          BY <4>2, <4>3
        <4>5. QED
          BY <4>4 DEF m, n
      <3>7. ASSUME NEW j \in 1..(Len(r) - i)
            PROVE  b[j] = r[i + j]
        <4>1. j \in 1..(Len(r) - (i + 1) + 1) /\ (i + 1) + j - 1 = i + j
          BY <3>4
        <4>2. b[j] = r[(i + 1) + j - 1]
          BY <3>2, <4>1, Zenon
        <4>3. QED
          BY <4>1, <4>2, Zenon
      <3>8. QED
        BY <3>2, <3>6, <3>7, Zenon
    <2> HIDE DEF a, b
    <2>7. /\ c \in Seq(S) /\ Len(c) = Len(r) - 1
          /\ \A j \in 1..(Len(r) - 1) : c[j] = IF j < i THEN r[j] ELSE r[j + 1]
      <3>1. /\ c \in Seq(S) /\ Len(c) = Len(a) + Len(b)
            /\ \A j \in 1..(Len(a) + Len(b)) :
                 c[j] = IF j <= Len(a) THEN a[j] ELSE b[j - Len(a)]
        BY <2>5, <2>6, ConcatProperties
      <3> HIDE DEF c
      <3>2. Len(a) + Len(b) = Len(r) - 1 /\ i \in Int /\ Len(r) \in Int
        BY <1>0, <2>1, <2>5, <2>6
      <3> SUFFICES ASSUME NEW j \in 1..(Len(r) - 1)
                   PROVE  c[j] = IF j < i THEN r[j] ELSE r[j + 1]
        BY <3>1, <3>2
      <3>3. c[j] = IF j <= i - 1 THEN a[j] ELSE b[j - (i - 1)]
        BY <2>5, <3>1, <3>2
      <3>4. CASE j < i
        <4>1. j \in 1..(i - 1) /\ j <= i - 1
          BY <3>2, <3>4
        <4>2. QED
          BY <2>5, <3>3, <3>4, <4>1
      <3>5. CASE ~(j < i)
        <4>1. j - (i - 1) \in 1..(Len(r) - i) /\ ~(j <= i - 1) /\ i + (j - (i - 1)) = j + 1
          BY <3>2, <3>5
        <4>2. b[j - (i - 1)] = r[j + 1]
          BY <2>6, <4>1
        <4>3. QED
          BY <3>3, <3>5, <4>1, <4>2
      <3>6. QED
        BY <3>4, <3>5
    <2> HIDE DEF c
    <2>8. ToSet(c) = ToSet(r) \ {t}
      <3>1. \A w \in ToSet(c) : w \in ToSet(r) /\ w # t
        <4> SUFFICES ASSUME NEW j \in 1..Len(c)
                     PROVE  c[j] \in ToSet(r) /\ c[j] # t
          BY <2>7, SeqIs
        <4>1. CASE j < i
          <5>1. c[j] = r[j] /\ j \in 1..Len(r) /\ j # i
            BY <1>0, <2>1, <2>7, <4>1
          <5>2. QED
            BY <2>2, <5>1, SeqIs
        <4>2. CASE ~(j < i)
          <5>1. c[j] = r[j + 1] /\ j + 1 \in 1..Len(r) /\ j + 1 # i
            BY <1>0, <2>1, <2>7, <4>2
          <5>2. QED
            BY <2>2, <5>1, SeqIs
        <4>3. QED
          BY <4>1, <4>2
      <3>2. \A w \in ToSet(r) : w # t => w \in ToSet(c)
        <4> SUFFICES ASSUME NEW j \in 1..Len(r), r[j] # t
                     PROVE  r[j] \in ToSet(c)
          BY SeqIs
        <4>1. j # i
          BY <2>1
        <4>2. CASE j < i
          <5>1. c[j] = r[j] /\ j \in 1..Len(c)
            BY <1>0, <2>1, <2>7, <4>2
          <5>2. QED
            BY <2>7, <5>1, SeqIs
        <4>3. CASE j > i
          <5>1. c[j - 1] = r[j] /\ j - 1 \in 1..Len(c)
            BY <1>0, <2>1, <2>7, <4>3
          <5>2. QED
            BY <2>7, <5>1, SeqIs
        <4>4. QED
          BY <1>0, <2>1, <4>1, <4>2, <4>3
      <3>3. QED
        BY <3>1, <3>2
    <2>9. Distinct(c)
      <3> SUFFICES ASSUME NEW j \in 1..Len(c), NEW k \in 1..Len(c), c[j] = c[k]
                   PROVE  j = k
        BY <2>7 DEF Distinct
      <3> DEFINE at(n) == IF n < i THEN n ELSE n + 1
      <3>1. at(j) \in 1..Len(r) /\ at(k) \in 1..Len(r) /\ c[j] = r[at(j)] /\ c[k] = r[at(k)]
        BY <1>0, <2>1, <2>7
      <3>2. at(j) = at(k)
        <4> HIDE DEF at
        <4>1. QED
          BY <1>0, <3>1 DEF Distinct
      <3>3. QED
        BY <2>1, <2>7, <3>2
    <2>10. QED
      BY <1>2, <2>4, <2>7, <2>8, <2>9
  <1>3. QED
    BY <1>1, <1>2

\* for c in dead: disconnect(c).
LEMMA WithoutIs ==
  ASSUME NEW S, NEW r \in Seq(S), Distinct(r), NEW D
  PROVE  /\ Without(r, D) \in Seq(S)
         /\ Distinct(Without(r, D))
         /\ ToSet(Without(r, D)) = ToSet(r) \ D
         /\ D \intersect ToSet(r) = {} => Without(r, D) = r
  <1> DEFINE L == Len(r)
             Turn(f, n) == IF n = 0 THEN <<>>
                           ELSE IF r[n] \in D THEN f[n - 1]
                           ELSE Append(f[n - 1], r[n])
             Is(b, f) == f = [n \in 0..b |-> Turn(f, n)]
             f == CHOOSE h : Is(L, h)
  <1>0. L \in Nat /\ DOMAIN r = 1..L /\ \A i \in 1..L : r[i] \in S
    OBVIOUS
  <1>1. Without(r, D) = f[L]
    BY Zenon DEF Without
  <1> HIDE DEF L
  <1>2. \A b \in Nat : \E h : Is(b, h)
    <2> DEFINE T == {b \in Nat : \E h : Is(b, h)}
    <2>1. 0 \in T
      <3> DEFINE h == [n \in 0..0 |-> <<>>]
      <3>1. \A n \in 0..0 : Turn(h, n) = <<>>
        OBVIOUS
      <3>2. Is(0, h)
        BY <3>1
      <3>3. QED
        BY <3>2
    <2>2. ASSUME NEW b \in Nat, b \in T
          PROVE  b + 1 \in T
      <3>1. PICK h : Is(b, h)
        BY <2>2
      <3> DEFINE last == Turn(h, b + 1)
                 g == [n \in 0..(b + 1) |-> IF n = b + 1 THEN last ELSE h[n]]
      <3>2. \A n \in 0..b : h[n] = Turn(h, n)
        BY <3>1
      <3> HIDE DEF Is
      <3>3. ASSUME NEW n \in 0..(b + 1)
            PROVE  (IF n = b + 1 THEN last ELSE h[n]) = Turn(g, n)
        <4>1. \A m \in 0..b : g[m] = h[m]
          BY DEF last
        <4>2. n = 0 \/ n - 1 \in 0..b
          BY <2>2
        <4>3. Turn(g, n) = Turn(h, n)
          <5> HIDE DEF g
          <5>1. n # 0 => g[n - 1] = h[n - 1]
            BY <4>1, <4>2
          <5>2. QED
            BY <5>1
        <4>4. QED
          BY <2>2, <3>2, <4>3
      <3>4. g = [n \in 0..(b + 1) |-> Turn(g, n)]
        <4> HIDE DEF Turn, last
        <4>1. QED
          BY <3>3
      <3>5. QED
        <4>1. Is(b + 1, g)
          BY <3>4 DEF Is
        <4>2. QED
          BY <4>1
    <2>3. Nat \subseteq T
      <3> HIDE DEF T
      <3>1. QED
        BY <2>1, <2>2, TurnInduction
    <2>4. QED
      BY <2>3
  <1>3. Is(L, f)
    BY <1>0, <1>2
  <1> HIDE DEF f
  <1>4. \A n \in 0..L : f[n] = Turn(f, n)
    BY <1>3
  <1> HIDE DEF Is
  <1> DEFINE Good(n) ==
               /\ f[n] \in Seq(S)
               /\ Distinct(f[n])
               /\ \A w : w \in ToSet(f[n]) <=> w \notin D /\ \E i \in 1..n : r[i] = w
               /\ D \intersect ToSet(r) = {} =>
                    Len(f[n]) = n /\ \A i \in 1..n : f[n][i] = r[i]
             G == {n \in Nat : n <= L => Good(n)}
  <1>5. 0 \in G
    <2>1. f[0] = <<>>
      BY <1>0, <1>4
    <2>2. <<>> \in Seq(S) /\ Len(<<>>) = 0
      BY EmptySeq
    <2>3. ToSet(<<>>) = {} /\ DOMAIN <<>> = {}
      <3>1. ToSet(<<>>) = {}
        BY <2>2, SeqIs
      <3>2. QED
        BY <3>1
    <2>4. Distinct(<<>>)
      BY <2>3 DEF Distinct
    <2>5. \A i \in 1..0 : FALSE
      OBVIOUS
    <2>6. Good(0)
      BY <2>1, <2>2, <2>3, <2>4, <2>5
    <2>7. QED
      BY <2>6
  <1>6. ASSUME NEW n \in Nat, n \in G
        PROVE  n + 1 \in G
    <2> SUFFICES ASSUME n + 1 <= L
                 PROVE  Good(n + 1)
      OBVIOUS
    <2> DEFINE s == f[n]
               v == r[n + 1]
    <2>1. Good(n)
      BY <1>0, <1>6
    <2>2. v \in S /\ f[n + 1] = IF v \in D THEN s ELSE Append(s, v)
      BY <1>0, <1>4
    <2>3. \A i : i \in 1..(n + 1) <=> i \in 1..n \/ i = n + 1
      OBVIOUS
    <2>4. \A i \in 1..n : r[i] # v
      BY <1>0 DEF Distinct
    <2>5. v \in ToSet(r)
      BY <1>0, SeqIs DEF L
    <2>6. CASE v \in D
      BY <2>1, <2>2, <2>3, <2>5, <2>6
    <2>7. CASE v \notin D
      <3>1. v \notin ToSet(s)
        BY <2>1, <2>4
      <3>2. /\ Append(s, v) \in Seq(S)
            /\ Len(Append(s, v)) = Len(s) + 1
            /\ \A i \in 1..Len(s) : Append(s, v)[i] = s[i]
            /\ Append(s, v)[Len(s) + 1] = v
            /\ ToSet(Append(s, v)) = ToSet(s) \union {v}
            /\ Distinct(Append(s, v))
        BY <2>1, <2>2, <3>1, AppendIs
      <3>3. f[n + 1] = Append(s, v)
        BY <2>2, <2>7
      <3>4. \A w : w \in ToSet(f[n + 1]) <=> w \notin D /\ \E i \in 1..(n + 1) : r[i] = w
        BY <2>1, <2>3, <2>7, <3>2, <3>3
      <3>5. ASSUME D \intersect ToSet(r) = {}
            PROVE  Len(f[n + 1]) = n + 1 /\ \A i \in 1..(n + 1) : f[n + 1][i] = r[i]
        BY <2>1, <2>3, <3>2, <3>3, <3>5
      <3>6. QED
        BY <3>2, <3>3, <3>4, <3>5
    <2>8. QED
      BY <2>6, <2>7
  <1>7. Good(L)
    <2>1. Nat \subseteq G
      <3> HIDE DEF G
      <3>1. QED
        BY <1>5, <1>6, TurnInduction
    <2>2. L \in G
      BY <1>0, <2>1
    <2> HIDE DEF Good
    <2>3. QED
      BY <1>0, <2>2
  <1>8. ToSet(f[L]) = ToSet(r) \ D
    <2>1. \A w : w \in ToSet(r) <=> \E i \in 1..L : r[i] = w
      BY SeqIs DEF L
    <2>2. QED
      BY <1>7, <2>1
  <1>9. D \intersect ToSet(r) = {} => f[L] = r
    BY <1>0, <1>7, SeqEqual DEF L
  <1>10. QED
    BY <1>1, <1>7, <1>8, <1>9

-------------------------------------------------------------------------------
(***************************************************************************)
(* What the steps make of a connection and of a broadcast.                 *)
(***************************************************************************)
Listening == {"joined", "greeting", "open", "sharing"}

Handling == {"greeting", "open", "sharing", "leaving"}

\* The connections that are not Closed.
Running ==
    [pc : {"joined", "greeting", "open", "sharing", "leaving", "parting", "zombie"},
     user : Users, alive : BOOLEAN, seen : SUBSET Users, missed : BOOLEAN]

LEMMA RunningIs ==
  ASSUME NEW c \in Running
  PROVE  /\ c \in Connection
         /\ c.pc \in {"joined", "greeting", "open", "sharing", "leaving", "parting", "zombie"}
         /\ c.user \in Users /\ c.user # None
         /\ c.alive \in BOOLEAN /\ c.seen \subseteq Users /\ c.missed \in BOOLEAN
  BY NoneIsNobody DEF Running, Connection

LEMMA ClosedHas ==
  /\ Closed \in Connection /\ Closed.pc = "closed" /\ Closed.user = None
  /\ Closed.alive = FALSE /\ Closed.seen = {} /\ Closed.missed = FALSE
  BY DEF Closed, Connection

LEMMA ConnectionIs ==
  ASSUME NEW c \in Connection
  PROVE  c = Closed \/ c \in Running
  BY DEF Connection, Running

\* A tab that has just been accepted; one whose browser is taken off the list, or
\* stays on it as a zombie.
LEMMA AcceptedIs ==
  ASSUME NEW u \in Users
  PROVE  LET c == [Closed EXCEPT !.pc = "joined", !.user = u, !.alive = TRUE]
         IN  /\ c \in Running /\ c.pc = "joined" /\ c.user = u /\ c.alive = TRUE
             /\ c.seen = {} /\ c.missed = FALSE
  BY DEF Closed, Running

LEMMA EndedIs ==
  ASSUME NEW u \in Users, NEW p \in {"leaving", "zombie"}
  PROVE  LET c == [Closed EXCEPT !.pc = p, !.user = u]
         IN  /\ c \in Running /\ c.pc = p /\ c.user = u /\ c.alive = FALSE
             /\ c.seen = {} /\ c.missed = FALSE
  BY DEF Closed, Running

LEMMA PcSet ==
  ASSUME NEW c \in Running, NEW p \in {"greeting", "open", "sharing", "parting"}
  PROVE  LET d == [c EXCEPT !.pc = p]
         IN  /\ d \in Running /\ d.pc = p /\ d.user = c.user /\ d.alive = c.alive
             /\ d.seen = c.seen /\ d.missed = c.missed
  BY DEF Running

LEMMA SeenSet ==
  ASSUME NEW c \in Running, NEW s \in SUBSET Users
  PROVE  LET d == [c EXCEPT !.seen = s]
         IN  /\ d \in Running /\ d.pc = c.pc /\ d.user = c.user /\ d.alive = c.alive
             /\ d.seen = s /\ d.missed = c.missed
  BY DEF Running

LEMMA MissedSet ==
  ASSUME NEW c \in Running
  PROVE  LET d == [c EXCEPT !.missed = TRUE]
         IN  /\ d \in Running /\ d.pc = c.pc /\ d.user = c.user /\ d.alive = c.alive
             /\ d.seen = c.seen /\ d.missed = TRUE
  BY DEF Running

LEMMA DroppedIs ==
  ASSUME NEW c \in Running
  PROVE  LET d == [c EXCEPT !.alive = FALSE, !.seen = {}, !.missed = FALSE]
         IN  d \in Running /\ d.pc = c.pc /\ d.user = c.user /\ d.alive = FALSE
  BY DEF Running

\* Where a handler goes on: it is closed or keeps its user and its browser.
LEMMA GoesOn ==
  ASSUME NEW c \in Connection
  PROVE  \/ c.pc = "parting" /\ After(c) = Closed
         \/ c.pc = "closed" /\ After(c) = c
         \/ /\ c.pc # "parting" /\ c \in Running /\ After(c) \in Running
            /\ After(c).pc = IF c.pc \in {"greeting", "sharing"} THEN "open" ELSE c.pc
            /\ After(c).user = c.user /\ After(c).alive = c.alive
            /\ After(c).seen = c.seen /\ After(c).missed = c.missed
  <1>1. CASE c.pc = "parting"
    BY <1>1 DEF After
  <1>2. CASE c.pc \in {"greeting", "sharing"}
    <2>1. c \in Running
      BY <1>2, ConnectionIs, ClosedHas
    <2> DEFINE d == [c EXCEPT !.pc = "open"]
    <2>2. After(c) = d
      BY <1>2 DEF After
    <2>3. /\ d \in Running /\ d.pc = "open" /\ d.user = c.user /\ d.alive = c.alive
          /\ d.seen = c.seen /\ d.missed = c.missed
      BY <2>1, PcSet
    <2> HIDE DEF d
    <2>4. QED
      BY <1>2, <2>1, <2>2, <2>3
  <1>3. CASE c.pc \notin {"greeting", "sharing", "parting"}
    <2>1. After(c) = c
      BY <1>3 DEF After
    <2>2. QED
      BY <1>3, <2>1, ConnectionIs, ClosedHas
  <1>4. QED
    BY <1>1, <1>2, <1>3

LEMMA BroadcastIs ==
  ASSUME NEW c \in Broadcast
  PROVE  /\ c # None
         /\ c.about \in Users \union {None} /\ c.exclude \in Users \union {None}
         /\ c.kind \in {"on", "off", "other"}
         /\ c.at \in Nat /\ c.over \in BOOLEAN /\ c.dead \subseteq Tabs /\ c.due \subseteq Tabs
  BY NoneIsNoBroadcast DEF Broadcast

\* A broadcast that begins owes its event to the whole list less the excluded user.
LEMMA BegunTyped ==
  ASSUME NEW u \in Users \union {None}, NEW kind \in {"on", "off", "other"},
         NEW x \in Users \union {None}, NEW r \in Seq(Tabs)
  PROVE  NewCast(u, kind, x, r) \in Broadcast /\ NewCast(u, kind, x, r).at = 0
  <1> DEFINE d == {w \in ToSet(r) : conn[w].user # x}
             o == (r = <<>>)
  <1>1. d \subseteq Tabs /\ o \in BOOLEAN /\ (o => d = {})
    BY SeqIs
  <1>2. NewCast(u, kind, x, r) =
          [about |-> u, kind |-> kind, exclude |-> x, at |-> 0, over |-> o, dead |-> {}, due |-> d]
    BY DEF NewCast
  <1> HIDE DEF d, o
  <1>3. [about |-> u, kind |-> kind, exclude |-> x, at |-> 0, over |-> o, dead |-> {}, due |-> d]
          \in Broadcast
    BY <1>1 DEF Broadcast
  <1>4. QED
    BY <1>2, <1>3

\* What it says, whom it skips and whom it is still to reach.
LEMMA BegunIs ==
  ASSUME NEW u \in Users \union {None}, NEW kind \in {"on", "off", "other"},
         NEW x \in Users \union {None}, NEW r \in Seq(Tabs),
         NEW c, c = NewCast(u, kind, x, r)
  PROVE  /\ c \in Broadcast /\ c.about = u /\ c.kind = kind /\ c.exclude = x /\ c.at = 0
         /\ c.dead = {} /\ c.due = {w \in ToSet(r) : conn[w].user # x}
         /\ c.over => c.due = {}
  <1>1. c \in Broadcast
    BY BegunTyped
  <1>2. r = <<>> => {w \in ToSet(r) : conn[w].user # x} = {}
    BY SeqIs
  <1>3. QED
    BY <1>1, <1>2 DEF NewCast

\* A send that raised: the client is to be disconnected after the loop.
LEMMA DeadSet ==
  ASSUME NEW c \in Broadcast, NEW s \in SUBSET Tabs
  PROVE  LET d == [c EXCEPT !.dead = s]
         IN  /\ d \in Broadcast /\ d.about = c.about /\ d.kind = c.kind
             /\ d.exclude = c.exclude /\ d.over = c.over /\ d.at = c.at
             /\ d.due = c.due /\ d.dead = s
  BY DEF Broadcast

\* The other broadcasts when the list becomes r: they go on, over what is left.
LEMMA AdjustedIs ==
  ASSUME cast \in [Tabs -> Broadcast \union {None}], NEW r \in Seq(Tabs)
  PROVE  /\ Adjusted(r) \in [Tabs -> Broadcast \union {None}]
         /\ \A k \in Tabs :
              LET c == Adjusted(r)[k]
              IN  /\ cast[k] = None => c = None
                  /\ cast[k] # None =>
                       /\ c \in Broadcast /\ c # None
                       /\ c.about = cast[k].about /\ c.kind = cast[k].kind
                       /\ c.exclude = cast[k].exclude
                       /\ c.dead = cast[k].dead \intersect ToSet(r)
                       /\ c.due = cast[k].due \intersect ToSet(r)
                       /\ c.over => cast[k].over \/ ToSet(r) = {}
                       /\ c.at = IF r = <<>> THEN 0 ELSE cast[k].at
  <1> DEFINE new(k) ==
               IF cast[k] = None THEN None
               ELSE IF r = <<>> THEN [cast[k] EXCEPT !.over = TRUE, !.at = 0, !.dead = {}, !.due = {}]
               ELSE [cast[k] EXCEPT !.dead = @ \intersect ToSet(r), !.due = @ \intersect ToSet(r)]
  <1>1. Adjusted(r) = [k \in Tabs |-> new(k)]
    BY DEF Adjusted
  <1>2. ASSUME NEW k \in Tabs, cast[k] # None
        PROVE  LET c == new(k)
               IN  /\ c \in Broadcast
                   /\ c.about = cast[k].about /\ c.kind = cast[k].kind
                   /\ c.exclude = cast[k].exclude
                   /\ c.dead = cast[k].dead \intersect ToSet(r)
                   /\ c.due = cast[k].due \intersect ToSet(r)
                   /\ c.over => cast[k].over \/ ToSet(r) = {}
                   /\ c.at = IF r = <<>> THEN 0 ELSE cast[k].at
    <2> DEFINE b == cast[k]
    <2>1. b \in Broadcast
      BY <1>2
    <2>2. CASE r = <<>>
      <3> DEFINE c == [b EXCEPT !.over = TRUE, !.at = 0, !.dead = {}, !.due = {}]
      <3> HIDE DEF b
      <3>1. /\ c \in Broadcast /\ c.about = b.about /\ c.kind = b.kind
            /\ c.exclude = b.exclude /\ c.dead = {} /\ c.due = {} /\ c.at = 0
        BY <2>1 DEF Broadcast
      <3>2. new(k) = c
        BY <1>2, <2>2, Zenon DEF b
      <3>3. ToSet(r) = {}
        BY <2>2, SeqIs
      <3> HIDE DEF c, new
      <3>4. QED
        BY <2>2, <3>1, <3>2, <3>3 DEF b
    <2>3. CASE r # <<>>
      <3> DEFINE x == b.dead \intersect ToSet(r)
                 s == b.due \intersect ToSet(r)
                 c == [b EXCEPT !.dead = x, !.due = s]
      <3> HIDE DEF b
      <3>0. x \in SUBSET Tabs /\ s \in SUBSET Tabs
        BY SeqIs
      <3> HIDE DEF x, s
      <3>1. /\ c \in Broadcast /\ c.about = b.about /\ c.kind = b.kind
            /\ c.exclude = b.exclude /\ c.dead = x /\ c.due = s /\ c.at = b.at
            /\ c.over = b.over
        BY <2>1, <3>0 DEF Broadcast
      <3>2. new(k) = c
        <4>1. c = [b EXCEPT !.dead = @ \intersect ToSet(r), !.due = @ \intersect ToSet(r)]
          BY Zenon DEF x, s
        <4> HIDE DEF c
        <4>2. QED
          BY <1>2, <2>3, <4>1, Zenon DEF b
      <3> HIDE DEF c, new
      <3>3. QED
        BY <2>3, <3>1, <3>2 DEF b, x, s
    <2>4. QED
      BY <2>2, <2>3
  <1>3. \A k \in Tabs : cast[k] = None => new(k) = None
    OBVIOUS
  <1> HIDE DEF new
  <1>4. \A k \in Tabs : Adjusted(r)[k] = new(k)
    BY <1>1
  <1>5. \A k \in Tabs : new(k) \in Broadcast \union {None}
    BY <1>2, <1>3
  <1>6. \A k \in Tabs : cast[k] # None => new(k) # None
    BY <1>2, BroadcastIs
  <1>7. Adjusted(r) \in [Tabs -> Broadcast \union {None}]
    BY <1>1, <1>5
  <1>8. QED
    BY <1>2, <1>3, <1>4, <1>6, <1>7

\* The iterator stops at the next client that is not the excluded user's.
LEMMA NextIs ==
  ASSUME room \in Seq(Tabs), NEW c \in Broadcast
  PROVE  /\ NextAt(c) = 0 =>
              c.over \/ \A i \in (c.at + 1)..Len(room) : conn[room[i]].user = c.exclude
         /\ NextAt(c) # 0 =>
              /\ NextAt(c) \in 1..Len(room) /\ c.at < NextAt(c)
              /\ conn[room[NextAt(c)]].user # c.exclude
              /\ \A i \in (c.at + 1)..(NextAt(c) - 1) : conn[room[i]].user = c.exclude
  <1> DEFINE I == {i \in (c.at + 1)..Len(room) : conn[room[i]].user # c.exclude}
  <1>0. c.at \in Nat /\ Len(room) \in Nat
    BY BroadcastIs
  <1>1. NextAt(c) = IF c.over THEN 0 ELSE IF I # {} THEN Min(I) ELSE 0
    BY DEF NextAt, SelectInSubSeq
  <1>2. CASE I = {}
    BY <1>0, <1>1, <1>2
  <1>3. CASE I # {} /\ ~c.over
    <2>1. I \subseteq Nat
      BY <1>0
    <2>2. PICK m \in I : \A i \in I : m <= i
      BY <1>3, <2>1, FirstOf
    <2>3. Min(I) = m
      <3> HIDE DEF I
      <3>1. \A x \in I : (\A y \in I : x <= y) => x = m
        BY <2>1, <2>2
      <3>2. QED
        BY <2>2, <3>1 DEF Min
    <2>4. m # 0 /\ m \in 1..Len(room) /\ c.at < m /\ conn[room[m]].user # c.exclude
      BY <1>0, <2>2
    <2>5. \A i \in (c.at + 1)..(m - 1) : conn[room[i]].user = c.exclude
      <3> SUFFICES ASSUME NEW i \in (c.at + 1)..(m - 1), conn[room[i]].user # c.exclude
                   PROVE  FALSE
        OBVIOUS
      <3>1. i \in I /\ i < m
        BY <1>0, <2>4
      <3>2. QED
        BY <1>0, <2>2, <2>4, <3>1
    <2>6. NextAt(c) = m
      BY <1>1, <1>3, <2>3
    <2> HIDE DEF I
    <2>7. QED
      BY <2>4, <2>5, <2>6
  <1>4. CASE c.over
    BY <1>1, <1>4
  <1>5. QED
    BY <1>2, <1>3, <1>4
-------------------------------------------------------------------------------
(***************************************************************************)
(* The inductive invariant: who is listed, what a broadcast still owes,    *)
(* and who will tell a browser that a user it shows has gone.              *)
(***************************************************************************)

\* Whoever is listed is being served or is a zombie; a browser that is there is
\* served and listed.
ListInv ==
    /\ \A t \in Tabs : t \in InRoom => conn[t].pc \in Listening \union {"zombie"}
    /\ \A t \in Tabs : conn[t].alive => conn[t].pc \in Listening /\ t \in InRoom

\* A broadcast speaks of listed clients only; its kind says what its handler does.
CastInv ==
    \A k \in Tabs : cast[k] # None =>
        /\ cast[k].dead \subseteq InRoom /\ cast[k].due \subseteq InRoom
        /\ \A w \in cast[k].dead : ~conn[w].alive
        /\ \A w \in cast[k].due : conn[w].user # cast[k].exclude
        /\ cast[k].over => cast[k].due = {}
        /\ cast[k].kind = "on" => conn[k].pc = "greeting" /\ conn[k].user = cast[k].about
        /\ cast[k].kind = "off" => conn[k].pc = "parting" /\ conn[k].user = cast[k].about

\* A handler of u is on its way to its "off", or owes that to the client w.
Told(w, u) ==
    \E t \in Tabs :
        /\ conn[t].user = u
        /\ \/ conn[t].pc \in Handling
           \/ /\ conn[t].pc = "parting" /\ cast[t] # None
              /\ cast[t].kind = "off" /\ w \in cast[t].due

SeenInv ==
    \A w \in Tabs, u \in Users :
        conn[w].alive /\ u \in conn[w].seen /\ ~conn[w].missed => Told(w, u)

PresenceInv == TypeOK /\ ListInv /\ CastInv /\ SeenInv

LEMMA InRoomNext == InRoom' = ToSet(room')
  BY DEF InRoom, ToSet

LEMMA TypesAre ==
  ASSUME TypeOK
  PROVE  /\ room \in Seq(Tabs) /\ Distinct(room) /\ InRoom \subseteq Tabs
         /\ conn \in [Tabs -> Connection]
         /\ cast \in [Tabs -> Broadcast \union {None}]
  <1>1. room \in Seq(Tabs) /\ Distinct(room)
    BY DEF TypeOK, Distinct
  <1>2. InRoom \subseteq Tabs
    BY <1>1, SeqIs DEF InRoom
  <1>3. QED
    BY <1>1, <1>2 DEF TypeOK

LEMMA TypesNext ==
  ASSUME room' \in Seq(Tabs), Distinct(room'), conn' \in [Tabs -> Connection],
         cast' \in [Tabs -> Broadcast \union {None}], online' \subseteq Users
  PROVE  TypeOK'
  BY DEF TypeOK, Distinct

\* A step that changes one connection, one broadcast.
LEMMA OneConnection ==
  ASSUME conn \in [Tabs -> Connection], NEW t \in Tabs, NEW c \in Connection,
         conn' = [conn EXCEPT ![t] = c]
  PROVE  /\ conn' \in [Tabs -> Connection]
         /\ conn'[t] = c
         /\ \A w \in Tabs : w # t => conn'[w] = conn[w]
  OBVIOUS

LEMMA OneBroadcast ==
  ASSUME cast \in [Tabs -> Broadcast \union {None}], NEW t \in Tabs,
         NEW c \in Broadcast \union {None}, cast' = [cast EXCEPT ![t] = c]
  PROVE  /\ cast' \in [Tabs -> Broadcast \union {None}]
         /\ cast'[t] = c
         /\ \A k \in Tabs : k # t => cast'[k] = cast[k]
  OBVIOUS

-------------------------------------------------------------------------------
(***************************************************************************)
(* One lemma per step.                                                     *)
(***************************************************************************)
LEMMA AcceptKeeps ==
  ASSUME PresenceInv, NEW t \in Tabs, NEW u \in Users, Accept(t, u)
  PROVE  PresenceInv'
  <1> DEFINE c == [Closed EXCEPT !.pc = "joined", !.user = u, !.alive = TRUE]
  <1>1. /\ conn[t] = Closed /\ conn' = [conn EXCEPT ![t] = c]
        /\ room' = Append(room, t) /\ cast' = cast /\ online' = online
    BY DEF Accept
  <1>2. /\ c \in Running /\ c.pc = "joined" /\ c.user = u /\ c.alive = TRUE
        /\ c.seen = {} /\ c.missed = FALSE
    BY AcceptedIs
  <1> HIDE DEF c
  <1>3. c \in Connection
    BY <1>2, RunningIs
  <1>4. /\ room \in Seq(Tabs) /\ Distinct(room) /\ InRoom \subseteq Tabs
        /\ conn \in [Tabs -> Connection]
        /\ cast \in [Tabs -> Broadcast \union {None}]
    BY TypesAre DEF PresenceInv
  <1>5. /\ conn' \in [Tabs -> Connection] /\ conn'[t] = c
        /\ \A w \in Tabs : w # t => conn'[w] = conn[w]
    BY <1>1, <1>3, <1>4, OneConnection
  <1>6. conn[t].pc = "closed" /\ t \notin InRoom
    BY <1>1, ClosedHas DEF PresenceInv, ListInv, Listening
  <1>7. room' \in Seq(Tabs) /\ Distinct(room') /\ InRoom' = InRoom \union {t}
    <2>1. t \notin ToSet(room)
      BY <1>6 DEF InRoom
    <2>2. /\ Append(room, t) \in Seq(Tabs) /\ Distinct(Append(room, t))
          /\ ToSet(Append(room, t)) = ToSet(room) \union {t}
      BY <1>4, <2>1, AppendIs
    <2>3. Distinct(room')
      BY <1>1, <2>2 DEF Distinct
    <2>4. QED
      BY <1>1, <2>2, <2>3, InRoomNext DEF InRoom
  <1>8. TypeOK'
    BY <1>1, <1>4, <1>5, <1>7, TypesNext DEF PresenceInv, TypeOK
  <1>9. ListInv'
    BY <1>2, <1>5, <1>7 DEF PresenceInv, ListInv, Listening
  <1>10. CastInv'
    BY <1>1, <1>5, <1>6, <1>7 DEF PresenceInv, CastInv
  <1>11. SeenInv'
    <2> SUFFICES ASSUME NEW w \in Tabs, NEW v \in Users,
                        conn'[w].alive, v \in conn'[w].seen, ~conn'[w].missed
                 PROVE  Told(w, v)'
      BY DEF SeenInv
    <2>1. w # t /\ Told(w, v)
      BY <1>2, <1>5 DEF PresenceInv, SeenInv
    <2>2. QED
      BY <1>1, <1>5, <1>6, <2>1 DEF Told, Handling
  <1>12. QED
    BY <1>8, <1>9, <1>10, <1>11 DEF PresenceInv

\* set_online or set_offline, or a message to share, and a broadcast begins.
LEMMA BeginKeeps ==
  ASSUME PresenceInv, NEW t \in Tabs, Greet(t) \/ Share(t) \/ Part(t)
  PROVE  PresenceInv'
  <1>1. PICK p \in {"greeting", "sharing", "parting"},
             kind \in {"on", "other", "off"},
             a \in Users \union {None}, x \in Users \union {None} :
          /\ conn' = [conn EXCEPT ![t].pc = p]
          /\ cast' = [cast EXCEPT ![t] = NewCast(a, kind, x, room)]
          /\ room' = room /\ online' \subseteq online \union {conn[t].user}
          /\ conn[t] \in Running
          /\ \/ conn[t].pc = "joined" /\ p = "greeting" /\ kind = "on" /\ a = conn[t].user
             \/ conn[t].pc = "open" /\ p = "sharing" /\ kind = "other"
             \/ /\ conn[t].pc = "leaving" /\ p = "parting" /\ kind = "off"
                /\ a = conn[t].user /\ x = None
    <2>1. conn[t].pc # "closed" => conn[t] \in Running /\ conn[t].user \in Users
      BY TypesAre, ConnectionIs, ClosedHas, RunningIs DEF PresenceInv
    <2>2. CASE Greet(t)
      BY <2>1, <2>2 DEF Greet
    <2>3. CASE Share(t)
      BY <2>1, <2>3 DEF Share
    <2>4. CASE Part(t)
      BY <2>1, <2>4 DEF Part
    <2>5. QED
      BY <2>2, <2>3, <2>4
  <1> DEFINE c == [conn[t] EXCEPT !.pc = p]
             b == NewCast(a, kind, x, room)
  <1>2. /\ room \in Seq(Tabs) /\ Distinct(room) /\ InRoom \subseteq Tabs
        /\ conn \in [Tabs -> Connection]
        /\ cast \in [Tabs -> Broadcast \union {None}]
    BY TypesAre DEF PresenceInv
  <1>3. conn' = [conn EXCEPT ![t] = c]
    BY <1>1, Zenon
  <1>4. /\ c \in Running /\ c.pc = p /\ c.user = conn[t].user /\ c.alive = conn[t].alive
        /\ c.seen = conn[t].seen /\ c.missed = conn[t].missed
    <2>1. conn[t] \in Running /\ p \in {"greeting", "open", "sharing", "parting"}
      BY <1>1
    <2>2. QED
      BY <2>1, PcSet, Zenon
  <1>5. /\ b \in Broadcast /\ b.about = a /\ b.kind = kind /\ b.exclude = x /\ b.at = 0
        /\ b.dead = {} /\ b.due = {w \in InRoom : conn[w].user # x}
        /\ b.over => b.due = {}
    BY <1>2, BegunIs DEF InRoom
  <1>6. cast' = [cast EXCEPT ![t] = b]
    BY <1>1
  <1> HIDE DEF c, b
  <1>7. /\ conn' \in [Tabs -> Connection] /\ conn'[t] = c
        /\ \A w \in Tabs : w # t => conn'[w] = conn[w]
    BY <1>2, <1>3, <1>4, RunningIs, OneConnection
  <1>8. /\ cast' \in [Tabs -> Broadcast \union {None}] /\ cast'[t] = b
        /\ \A k \in Tabs : k # t => cast'[k] = cast[k]
    BY <1>2, <1>5, <1>6, OneBroadcast
  <1>9. InRoom' = InRoom
    BY <1>1, InRoomNext DEF InRoom
  <1>10. TypeOK'
    <2>1. conn[t].user \in Users
      BY <1>1, RunningIs
    <2>2. online' \subseteq Users
      BY <1>1, <2>1 DEF PresenceInv, TypeOK
    <2>3. Distinct(room') /\ room' \in Seq(Tabs)
      BY <1>1, <1>2 DEF Distinct
    <2>4. QED
      BY <1>7, <1>8, <2>2, <2>3, TypesNext
  <1>11. ListInv'
    <2>1. ASSUME NEW w \in Tabs, w \in InRoom
          PROVE  conn'[w].pc \in Listening \union {"zombie"}
      BY <1>1, <1>4, <1>7, <2>1 DEF PresenceInv, ListInv, Listening
    <2>2. ASSUME NEW w \in Tabs, conn'[w].alive
          PROVE  conn'[w].pc \in Listening /\ w \in InRoom
      BY <1>1, <1>4, <1>7, <2>2 DEF PresenceInv, ListInv, Listening
    <2>3. QED
      BY <1>9, <2>1, <2>2 DEF ListInv
  <1>12. CastInv'
    <2> SUFFICES ASSUME NEW k \in Tabs, cast'[k] # None
                 PROVE  /\ cast'[k].dead \subseteq InRoom /\ cast'[k].due \subseteq InRoom
                        /\ \A w \in cast'[k].dead : ~conn'[w].alive
                        /\ \A w \in cast'[k].due : conn'[w].user # cast'[k].exclude
                        /\ cast'[k].over => cast'[k].due = {}
                        /\ cast'[k].kind = "on" =>
                             conn'[k].pc = "greeting" /\ conn'[k].user = cast'[k].about
                        /\ cast'[k].kind = "off" =>
                             conn'[k].pc = "parting" /\ conn'[k].user = cast'[k].about
      BY <1>9 DEF CastInv
    <2>1. \A w \in Tabs : conn'[w].user = conn[w].user /\ conn'[w].alive = conn[w].alive
      BY <1>4, <1>7
    <2>2. CASE k = t
      BY <1>1, <1>2, <1>4, <1>5, <1>7, <1>8, <2>1, <2>2
    <2>3. CASE k # t
      BY <1>2, <1>7, <1>8, <2>1, <2>3 DEF PresenceInv, CastInv
    <2>4. QED
      BY <2>2, <2>3
  <1>13. SeenInv'
    <2> SUFFICES ASSUME NEW w \in Tabs, NEW v \in Users,
                        conn'[w].alive, v \in conn'[w].seen, ~conn'[w].missed
                 PROVE  Told(w, v)'
      BY DEF SeenInv
    <2>1. conn[w].alive /\ v \in conn[w].seen /\ ~conn[w].missed
      BY <1>4, <1>7
    <2>2. PICK s \in Tabs :
            /\ conn[s].user = v
            /\ \/ conn[s].pc \in Handling
               \/ /\ conn[s].pc = "parting" /\ cast[s] # None
                  /\ cast[s].kind = "off" /\ w \in cast[s].due
      BY <2>1 DEF PresenceInv, SeenInv, Told
    <2>3. CASE s # t
      BY <1>7, <1>8, <2>2, <2>3 DEF Told
    <2>4. CASE s = t /\ p # "parting"
      BY <1>1, <1>4, <1>7, <2>2, <2>4 DEF Told, Handling
    <2>5. CASE s = t /\ p = "parting"
      <3>1. w \in InRoom /\ conn[w].user # None
        <4>1. w \in InRoom /\ conn[w].pc \in Listening
          BY <2>1 DEF PresenceInv, ListInv
        <4>2. conn[w] \in Running
          BY <1>2, <4>1, ConnectionIs, ClosedHas DEF Listening
        <4>3. QED
          BY <4>1, <4>2, RunningIs
      <3>2. w \in b.due /\ b # None /\ b.kind = "off"
        BY <1>1, <1>5, <2>5, <3>1, BroadcastIs
      <3>3. QED
        BY <1>4, <1>7, <1>8, <2>2, <2>5, <3>2 DEF Told
    <2>6. QED
      BY <2>3, <2>4, <2>5
  <1>14. QED
    BY <1>10, <1>11, <1>12, <1>13 DEF PresenceInv

\* A handler that Redis refuses before its try block, a browser that goes away: the
\* client stays listed and nobody is there any more.
LEMMA GoneKeeps ==
  ASSUME PresenceInv, NEW t \in Tabs, GreetFails(t) \/ Drop(t)
  PROVE  PresenceInv'
  <1>1. PICK c \in Running :
          /\ conn' = [conn EXCEPT ![t] = c] /\ UNCHANGED <<room, cast, online>>
          /\ c.user = conn[t].user /\ c.alive = FALSE
          /\ \/ conn[t].pc = "joined" /\ c.pc = "zombie"
             \/ c.pc = conn[t].pc
    <2>1. conn[t].pc # "closed" => conn[t] \in Running /\ conn[t].user \in Users
      BY TypesAre, ConnectionIs, ClosedHas, RunningIs DEF PresenceInv
    <2>2. CASE GreetFails(t)
      <3> DEFINE c == [Closed EXCEPT !.pc = "zombie", !.user = conn[t].user]
      <3>1. /\ conn' = [conn EXCEPT ![t] = c] /\ UNCHANGED <<room, cast, online>>
            /\ conn[t].pc = "joined"
        BY <2>2 DEF GreetFails
      <3>2. c \in Running /\ c.pc = "zombie" /\ c.user = conn[t].user /\ c.alive = FALSE
        BY <2>1, <3>1, EndedIs
      <3> HIDE DEF c
      <3>3. QED
        BY <3>1, <3>2
    <2>3. CASE Drop(t)
      <3> DEFINE c == [conn[t] EXCEPT !.alive = FALSE, !.seen = {}, !.missed = FALSE]
      <3>1. /\ conn' = [conn EXCEPT ![t] = c] /\ UNCHANGED <<room, cast, online>>
            /\ conn[t].alive
        BY <2>3, Zenon DEF Drop
      <3>2. conn[t] \in Running
        BY <2>1, <3>1 DEF PresenceInv, ListInv, Listening
      <3>3. c \in Running /\ c.pc = conn[t].pc /\ c.user = conn[t].user /\ c.alive = FALSE
        BY <3>2, DroppedIs
      <3> HIDE DEF c
      <3>4. QED
        BY <3>1, <3>3
    <2>4. QED
      BY <2>2, <2>3
  <1>2. /\ room \in Seq(Tabs) /\ Distinct(room)
        /\ conn \in [Tabs -> Connection]
        /\ cast \in [Tabs -> Broadcast \union {None}]
    BY TypesAre DEF PresenceInv
  <1>3. /\ conn' \in [Tabs -> Connection] /\ conn'[t] = c
        /\ \A w \in Tabs : w # t => conn'[w] = conn[w]
    BY <1>1, <1>2, RunningIs, OneConnection
  <1>4. InRoom' = InRoom /\ cast' = cast
    BY <1>1, InRoomNext DEF InRoom
  <1>5. TypeOK'
    <2>1. Distinct(room') /\ room' \in Seq(Tabs)
      BY <1>1, <1>2 DEF Distinct
    <2>2. QED
      BY <1>1, <1>2, <1>3, <2>1, TypesNext DEF PresenceInv, TypeOK
  <1>6. ListInv'
    BY <1>1, <1>3, <1>4 DEF PresenceInv, ListInv, Listening
  <1>7. CastInv'
    <2>1. \A w \in Tabs : /\ conn'[w].user = conn[w].user
                          /\ conn'[w].alive => conn[w].alive
                          /\ conn[w].pc \in {"greeting", "parting"} => conn'[w].pc = conn[w].pc
      BY <1>1, <1>3
    <2>2. InRoom \subseteq Tabs
      BY TypesAre DEF PresenceInv
    <2>3. QED
      BY <1>4, <2>1, <2>2 DEF PresenceInv, CastInv
  <1>8. SeenInv'
    <2> SUFFICES ASSUME NEW w \in Tabs, NEW v \in Users,
                        conn'[w].alive, v \in conn'[w].seen, ~conn'[w].missed
                 PROVE  Told(w, v)'
      BY DEF SeenInv
    <2>1. w # t /\ Told(w, v)
      BY <1>1, <1>3 DEF PresenceInv, SeenInv
    <2>2. QED
      BY <1>1, <1>3, <1>4, <2>1 DEF Told, Handling
  <1>9. QED
    BY <1>5, <1>6, <1>7, <1>8 DEF PresenceInv
\* The receive loop ended: the client is taken off the list.
LEMMA LeaveKeeps ==
  ASSUME PresenceInv, NEW t \in Tabs, Leave(t)
  PROVE  PresenceInv'
  <1> DEFINE c == [Closed EXCEPT !.pc = "leaving", !.user = conn[t].user]
  <1>1. /\ conn[t].pc = "open" /\ conn' = [conn EXCEPT ![t] = c]
        /\ room' = RemoveFirst(room, t) /\ cast' = Adjusted(room') /\ online' = online
    BY DEF Leave, RemoveClient
  <1>2. /\ room \in Seq(Tabs) /\ Distinct(room) /\ InRoom \subseteq Tabs
        /\ conn \in [Tabs -> Connection]
        /\ cast \in [Tabs -> Broadcast \union {None}]
    BY TypesAre DEF PresenceInv
  <1>3. c \in Running /\ c.pc = "leaving" /\ c.user = conn[t].user /\ c.alive = FALSE
    <2>1. conn[t] \in Running
      BY <1>1, <1>2, ConnectionIs, ClosedHas
    <2>2. conn[t].user \in Users
      BY <2>1, RunningIs
    <2>3. QED
      BY <2>2, EndedIs
  <1> HIDE DEF c
  <1>4. /\ conn' \in [Tabs -> Connection] /\ conn'[t] = c
        /\ \A w \in Tabs : w # t => conn'[w] = conn[w]
    BY <1>1, <1>2, <1>3, RunningIs, OneConnection
  <1>5. room' \in Seq(Tabs) /\ Distinct(room') /\ InRoom' = InRoom \ {t}
    <2>1. /\ RemoveFirst(room, t) \in Seq(Tabs) /\ Distinct(RemoveFirst(room, t))
          /\ ToSet(RemoveFirst(room, t)) = ToSet(room) \ {t}
      BY <1>2, RemoveFirstIs
    <2>2. Distinct(room')
      BY <1>1, <2>1 DEF Distinct
    <2>3. QED
      BY <1>1, <2>1, <2>2, InRoomNext DEF InRoom
  <1>6. /\ cast' \in [Tabs -> Broadcast \union {None}]
        /\ \A k \in Tabs :
             /\ cast[k] = None => cast'[k] = None
             /\ cast[k] # None =>
                  /\ cast'[k] # None
                  /\ cast'[k].about = cast[k].about /\ cast'[k].kind = cast[k].kind
                  /\ cast'[k].exclude = cast[k].exclude
                  /\ cast'[k].dead = cast[k].dead \intersect InRoom'
                  /\ cast'[k].due = cast[k].due \intersect InRoom'
                  /\ cast'[k].over => cast[k].over \/ InRoom' = {}
    BY <1>1, <1>2, <1>5, AdjustedIs, InRoomNext
  <1>7. TypeOK'
    BY <1>1, <1>4, <1>5, <1>6, TypesNext DEF PresenceInv, TypeOK
  <1>8. ListInv'
    BY <1>1, <1>3, <1>4, <1>5 DEF PresenceInv, ListInv, Listening
  <1>9. CastInv'
    <2> SUFFICES ASSUME NEW k \in Tabs, cast'[k] # None
                 PROVE  /\ cast'[k].dead \subseteq InRoom' /\ cast'[k].due \subseteq InRoom'
                        /\ \A w \in cast'[k].dead : ~conn'[w].alive
                        /\ \A w \in cast'[k].due : conn'[w].user # cast'[k].exclude
                        /\ cast'[k].over => cast'[k].due = {}
                        /\ cast'[k].kind = "on" =>
                             conn'[k].pc = "greeting" /\ conn'[k].user = cast'[k].about
                        /\ cast'[k].kind = "off" =>
                             conn'[k].pc = "parting" /\ conn'[k].user = cast'[k].about
      BY DEF CastInv
    <2>1. cast[k] # None
      BY <1>6
    <2>2. /\ cast'[k].about = cast[k].about /\ cast'[k].kind = cast[k].kind
          /\ cast'[k].exclude = cast[k].exclude
          /\ cast'[k].dead = cast[k].dead \intersect InRoom'
          /\ cast'[k].due = cast[k].due \intersect InRoom'
          /\ cast'[k].over => cast[k].over \/ InRoom' = {}
      BY <1>6, <2>1
    <2>3. \A w \in InRoom' : w # t /\ conn'[w] = conn[w]
      BY <1>2, <1>4, <1>5
    <2>4. conn[k].pc \in {"greeting", "parting"} => conn'[k] = conn[k]
      BY <1>1, <1>4
    <2>5. QED
      BY <2>1, <2>2, <2>3, <2>4 DEF PresenceInv, CastInv
  <1>10. SeenInv'
    <2> SUFFICES ASSUME NEW w \in Tabs, NEW v \in Users,
                        conn'[w].alive, v \in conn'[w].seen, ~conn'[w].missed
                 PROVE  Told(w, v)'
      BY DEF SeenInv
    <2>1. w # t /\ conn[w].alive /\ v \in conn[w].seen /\ ~conn[w].missed
      BY <1>3, <1>4
    <2>2. w \in InRoom'
      BY <1>5, <2>1 DEF PresenceInv, ListInv
    <2>3. PICK s \in Tabs :
            /\ conn[s].user = v
            /\ \/ conn[s].pc \in Handling
               \/ /\ conn[s].pc = "parting" /\ cast[s] # None
                  /\ cast[s].kind = "off" /\ w \in cast[s].due
      BY <2>1 DEF PresenceInv, SeenInv, Told
    <2>4. CASE s = t
      BY <1>3, <1>4, <2>3, <2>4 DEF Told, Handling
    <2>5. CASE s # t
      BY <1>4, <1>6, <2>2, <2>3, <2>5 DEF Told
    <2>6. QED
      BY <2>4, <2>5
  <1>11. QED
    BY <1>7, <1>8, <1>9, <1>10 DEF PresenceInv

\* Redis refuses in the finally block: whoever is there has missed an "off".
LEMMA PartFailsKeeps ==
  ASSUME PresenceInv, NEW t \in Tabs, PartFails(t)
  PROVE  PresenceInv'
  <1> DEFINE new(w) == IF w = t THEN Closed
                       ELSE IF conn[w].alive THEN [conn[w] EXCEPT !.missed = TRUE]
                       ELSE conn[w]
  <1>1. /\ conn[t].pc = "leaving" /\ conn' = [w \in Tabs |-> new(w)]
        /\ room' = room /\ cast' = cast /\ online' = online
    BY DEF PartFails
  <1>2. /\ room \in Seq(Tabs) /\ Distinct(room) /\ InRoom \subseteq Tabs
        /\ conn \in [Tabs -> Connection]
        /\ cast \in [Tabs -> Broadcast \union {None}]
    BY TypesAre DEF PresenceInv
  <1>3. ASSUME NEW w \in Tabs, w # t
        PROVE  /\ new(w) \in Connection
               /\ new(w).pc = conn[w].pc /\ new(w).user = conn[w].user
               /\ new(w).alive = conn[w].alive
               /\ new(w).alive => new(w).missed
    <2> DEFINE c == [conn[w] EXCEPT !.missed = TRUE]
    <2>1. CASE conn[w].alive
      <3>1. conn[w] \in Running
        BY <1>2, <2>1, ConnectionIs, ClosedHas
      <3>2. /\ c \in Running /\ c.pc = conn[w].pc /\ c.user = conn[w].user
            /\ c.alive = conn[w].alive /\ c.missed = TRUE
        BY <3>1, MissedSet
      <3>3. new(w) = c
        BY <1>3, <2>1
      <3> HIDE DEF c, new
      <3>4. QED
        BY <3>2, <3>3, RunningIs
    <2>2. CASE ~conn[w].alive
      BY <1>2, <1>3, <2>2
    <2>3. QED
      BY <2>1, <2>2
  <1>4. new(t) = Closed
    OBVIOUS
  <1> HIDE DEF new
  <1>5. \A w \in Tabs : conn'[w] = new(w)
    BY <1>1
  <1>6. InRoom' = InRoom
    BY <1>1, InRoomNext DEF InRoom
  <1>7. t \notin InRoom
    BY <1>1 DEF PresenceInv, ListInv, Listening
  <1>8. TypeOK'
    <2>1. conn' \in [Tabs -> Connection]
      BY <1>1, <1>3, <1>4, ClosedHas
    <2>2. Distinct(room') /\ room' \in Seq(Tabs)
      BY <1>1, <1>2 DEF Distinct
    <2>3. QED
      BY <1>1, <1>2, <2>1, <2>2, TypesNext DEF PresenceInv, TypeOK
  <1>9. ListInv'
    BY <1>3, <1>4, <1>5, <1>6, <1>7, ClosedHas DEF PresenceInv, ListInv
  <1>10. CastInv'
    <2>1. \A w \in Tabs : w # t => /\ conn'[w].user = conn[w].user
                                   /\ conn'[w].alive = conn[w].alive
                                   /\ conn'[w].pc = conn[w].pc
      BY <1>3, <1>5
    <2>2. conn[t].pc \notin {"greeting", "parting"}
      BY <1>1
    <2>3. QED
      BY <1>1, <1>2, <1>6, <1>7, <2>1, <2>2 DEF PresenceInv, CastInv
  <1>11. SeenInv'
    <2>1. \A w \in Tabs : conn'[w].alive => conn'[w].missed
      BY <1>3, <1>4, <1>5, ClosedHas
    <2>2. QED
      BY <2>1 DEF SeenInv
  <1>12. QED
    BY <1>8, <1>9, <1>10, <1>11 DEF PresenceInv

\* One send of the broadcast of k.
LEMMA SendIs ==
  ASSUME PresenceInv, NEW k \in Tabs, Send(k)
  PROVE  LET n == NextAt(cast[k])
             w == room[n]
         IN  /\ cast[k] \in Broadcast /\ n \in 1..Len(room) /\ cast[k].at < n
             /\ w \in Tabs /\ w \in InRoom
             /\ conn[w].user # cast[k].exclude
             /\ \A i \in (cast[k].at + 1)..(n - 1) : conn[room[i]].user = cast[k].exclude
             /\ room' = room /\ online' = online
             /\ cast' \in [Tabs -> Broadcast \union {None}]
             /\ \A j \in Tabs : j # k => cast'[j] = cast[j]
             /\ cast'[k] \in Broadcast
             /\ cast'[k].about = cast[k].about /\ cast'[k].kind = cast[k].kind
             /\ cast'[k].exclude = cast[k].exclude /\ cast'[k].over = cast[k].over
             /\ cast'[k].at = n /\ cast'[k].due = cast[k].due \ {w}
             /\ conn' \in [Tabs -> Connection]
             /\ \A v \in Tabs : v # w => conn'[v] = conn[v]
             /\ \/ /\ conn[w].alive /\ cast'[k].dead = cast[k].dead
                   /\ conn'[w] \in Running
                   /\ conn'[w].pc = conn[w].pc /\ conn'[w].user = conn[w].user
                   /\ conn'[w].alive = conn[w].alive /\ conn'[w].missed = conn[w].missed
                   /\ conn'[w].seen = Shows(conn[w].seen, cast[k])
                \/ /\ ~conn[w].alive /\ conn' = conn
                   /\ cast'[k].dead \subseteq cast[k].dead \union {w}
  <1> DEFINE n == NextAt(cast[k])
             w == room[n]
             x == cast[k].due \ {w}
             b == cast[k]
             d == [b EXCEPT !.at = n, !.due = x]
             e == [d EXCEPT !.dead = @ \union {w}]
             s == Shows(conn[w].seen, cast[k])
             c == [conn[w] EXCEPT !.seen = s]
  <1>0. /\ room \in Seq(Tabs) /\ Distinct(room) /\ InRoom \subseteq Tabs
        /\ conn \in [Tabs -> Connection]
        /\ cast \in [Tabs -> Broadcast \union {None}]
    BY TypesAre DEF PresenceInv
  <1>1. /\ cast[k] # None /\ n # 0 /\ room' = room /\ online' = online
        /\ \/ /\ conn[w].alive
              /\ conn' = [conn EXCEPT ![w].seen = Shows(@, cast[k])]
              /\ cast' = [cast EXCEPT ![k] = d]
           \/ /\ ~conn[w].alive /\ cast' = [cast EXCEPT ![k] = e] /\ conn' = conn
           \/ /\ ~conn[w].alive /\ cast' = [cast EXCEPT ![k] = d] /\ conn' = conn
    BY Zenon DEF Send
  <1>2. cast[k] \in Broadcast
    BY <1>0, <1>1
  <1>3. /\ n \in 1..Len(room) /\ cast[k].at < n /\ conn[w].user # cast[k].exclude
        /\ \A i \in (cast[k].at + 1)..(n - 1) : conn[room[i]].user = cast[k].exclude
    BY <1>0, <1>1, <1>2, NextIs
  <1>4. w \in Tabs /\ w \in InRoom /\ n \in Nat
    BY <1>0, <1>3, SeqIs DEF InRoom
  <1>5. /\ d \in Broadcast /\ d.about = cast[k].about /\ d.kind = cast[k].kind
        /\ d.exclude = cast[k].exclude /\ d.over = cast[k].over /\ d.at = n
        /\ d.due = cast[k].due \ {w} /\ d.dead = cast[k].dead
        /\ e \in Broadcast /\ e.about = cast[k].about /\ e.kind = cast[k].kind
        /\ e.exclude = cast[k].exclude /\ e.over = cast[k].over /\ e.at = n
        /\ e.due = cast[k].due \ {w} /\ e.dead = cast[k].dead \union {w}
    <2>1. b \in Broadcast /\ x \in SUBSET Tabs
      BY <1>2, BroadcastIs
    <2>2. /\ d \in Broadcast /\ d.about = cast[k].about /\ d.kind = cast[k].kind
          /\ d.exclude = cast[k].exclude /\ d.over = cast[k].over /\ d.at = n
          /\ d.due = cast[k].due \ {w} /\ d.dead = cast[k].dead
      <3> HIDE DEF n, w, x, b
      <3>1. /\ d \in Broadcast /\ d.about = b.about /\ d.kind = b.kind
            /\ d.exclude = b.exclude /\ d.over = b.over /\ d.at = n
            /\ d.due = x /\ d.dead = b.dead
        BY <1>4, <2>1 DEF Broadcast
      <3> HIDE DEF d
      <3>2. QED
        BY <3>1 DEF x, b
    <2> HIDE DEF d
    <2>3. (d.dead \union {w}) \in SUBSET Tabs
      BY <1>4, <2>2, BroadcastIs
    <2>4. /\ e \in Broadcast /\ e.about = d.about /\ e.kind = d.kind
          /\ e.exclude = d.exclude /\ e.over = d.over /\ e.at = d.at
          /\ e.due = d.due /\ e.dead = d.dead \union {w}
      BY <2>2, <2>3, DeadSet, Zenon
    <2> HIDE DEF e
    <2>5. QED
      BY <2>2, <2>4
  <1>6. conn[w].alive =>
          /\ c \in Running /\ c.pc = conn[w].pc /\ c.user = conn[w].user
          /\ c.alive = conn[w].alive /\ c.missed = conn[w].missed
          /\ c.seen = s
    <2> HIDE DEF n, w
    <2>1. SUFFICES ASSUME conn[w].alive
                   PROVE  c \in Running /\ c.pc = conn[w].pc /\ c.user = conn[w].user
                          /\ c.alive = conn[w].alive /\ c.missed = conn[w].missed
                          /\ c.seen = s
      OBVIOUS
    <2>2. conn[w] \in Running
      BY <1>0, <1>4, <2>1, ConnectionIs, ClosedHas
    <2>3. s \in SUBSET Users
      <3>1. conn[w].seen \subseteq Users
        BY <2>2, RunningIs
      <3>2. cast[k].kind = "on" => cast[k].about \in Users
        <4>1. cast[k].kind = "on" => conn[k].user = cast[k].about /\ conn[k].pc = "greeting"
          BY <1>1 DEF PresenceInv, CastInv
        <4>2. conn[k].pc = "greeting" => conn[k] \in Running
          BY <1>0, ConnectionIs, ClosedHas
        <4>3. QED
          BY <4>1, <4>2, RunningIs
      <3>3. QED
        BY <3>1, <3>2 DEF Shows
    <2> HIDE DEF s
    <2>4. QED
      BY <2>2, <2>3, SeenSet, Zenon
  <1>7. [conn EXCEPT ![w].seen = Shows(@, cast[k])] = [conn EXCEPT ![w] = c]
    BY Zenon
  <1> HIDE DEF c, d, e, n, w, s, x, b
  <1>8. \/ cast' = [cast EXCEPT ![k] = d]
        \/ cast' = [cast EXCEPT ![k] = e]
    BY <1>1
  <1>9. /\ cast' \in [Tabs -> Broadcast \union {None}]
        /\ \A j \in Tabs : j # k => cast'[j] = cast[j]
    BY <1>0, <1>5, <1>8, OneBroadcast
  <1>10. CASE conn[w].alive
    <2>1. conn' = [conn EXCEPT ![w] = c] /\ cast' = [cast EXCEPT ![k] = d]
      BY <1>1, <1>7, <1>10
    <2>2. cast'[k] = d
      BY <1>0, <2>1
    <2>3. /\ conn' \in [Tabs -> Connection] /\ conn'[w] = c
          /\ \A v \in Tabs : v # w => conn'[v] = conn[v]
      BY <1>0, <1>4, <1>6, <1>10, <2>1, RunningIs, OneConnection
    <2>4. QED
      BY <1>1, <1>2, <1>3, <1>4, <1>5, <1>6, <1>9, <1>10, <2>2, <2>3 DEF n, w, s
  <1>11. CASE ~conn[w].alive
    <2>1. conn' = conn
      BY <1>1, <1>11
    <2>2. cast'[k] = d \/ cast'[k] = e
      BY <1>0, <1>8
    <2>3. cast'[k] \in Broadcast /\ cast'[k].dead \subseteq cast[k].dead \union {w}
          /\ cast'[k].about = cast[k].about /\ cast'[k].kind = cast[k].kind
          /\ cast'[k].exclude = cast[k].exclude /\ cast'[k].over = cast[k].over
          /\ cast'[k].at = n /\ cast'[k].due = cast[k].due \ {w}
      BY <1>5, <2>2
    <2>4. QED
      BY <1>0, <1>1, <1>2, <1>3, <1>4, <1>9, <1>11, <2>1, <2>3 DEF n, w
  <1>12. QED
    BY <1>10, <1>11

LEMMA SendKeeps ==
  ASSUME PresenceInv, NEW k \in Tabs, Send(k)
  PROVE  PresenceInv'
  <1> DEFINE n == NextAt(cast[k])
             w == room[n]
  <1>1. /\ cast[k] \in Broadcast /\ w \in Tabs /\ w \in InRoom
        /\ room' = room /\ online' = online
        /\ cast' \in [Tabs -> Broadcast \union {None}]
        /\ \A j \in Tabs : j # k => cast'[j] = cast[j]
        /\ cast'[k] \in Broadcast
        /\ cast'[k].about = cast[k].about /\ cast'[k].kind = cast[k].kind
        /\ cast'[k].exclude = cast[k].exclude /\ cast'[k].over = cast[k].over
        /\ cast'[k].due = cast[k].due \ {w}
        /\ conn' \in [Tabs -> Connection]
        /\ \A v \in Tabs : v # w => conn'[v] = conn[v]
    BY SendIs
  <1>2. \/ /\ conn[w].alive /\ cast'[k].dead = cast[k].dead
           /\ conn'[w].pc = conn[w].pc /\ conn'[w].user = conn[w].user
           /\ conn'[w].alive = conn[w].alive /\ conn'[w].missed = conn[w].missed
           /\ conn'[w].seen = Shows(conn[w].seen, cast[k])
        \/ /\ ~conn[w].alive /\ conn' = conn
           /\ cast'[k].dead \subseteq cast[k].dead \union {w}
    BY SendIs
  <1> HIDE DEF n, w
  <1>3. \A v \in Tabs : /\ conn'[v].pc = conn[v].pc /\ conn'[v].user = conn[v].user
                        /\ conn'[v].alive = conn[v].alive /\ conn'[v].missed = conn[v].missed
    BY <1>1, <1>2
  <1>4. cast[k] # None /\ cast'[k] # None
    BY <1>1, BroadcastIs
  <1>5. InRoom' = InRoom /\ InRoom \subseteq Tabs
    BY <1>1, InRoomNext, TypesAre DEF InRoom, PresenceInv
  <1>6. TypeOK'
    <2>1. Distinct(room') /\ room' \in Seq(Tabs)
      BY <1>1, TypesAre DEF Distinct, PresenceInv
    <2>2. QED
      BY <1>1, <2>1, TypesNext DEF PresenceInv, TypeOK
  <1>7. ListInv'
    BY <1>3, <1>5 DEF PresenceInv, ListInv
  <1>8. CastInv'
    <2>1. ASSUME NEW j \in Tabs, cast'[j] # None
          PROVE  /\ cast[j] # None
                 /\ cast'[j].about = cast[j].about /\ cast'[j].kind = cast[j].kind
                 /\ cast'[j].exclude = cast[j].exclude /\ cast'[j].over = cast[j].over
                 /\ cast'[j].due \subseteq cast[j].due
                 /\ cast'[j].dead \subseteq InRoom
                 /\ \A v \in cast'[j].dead : ~conn[v].alive
      <3>1. CASE j = k
        <4>1. /\ cast[k].dead \subseteq InRoom
              /\ \A v \in cast[k].dead : ~conn[v].alive
          BY <1>4 DEF PresenceInv, CastInv
        <4>2. /\ cast'[k].dead \subseteq InRoom
              /\ \A v \in cast'[k].dead : ~conn[v].alive
          BY <1>1, <1>2, <4>1
        <4>3. QED
          BY <1>1, <1>4, <3>1, <4>2
      <3>2. CASE j # k
        BY <1>1, <2>1, <3>2 DEF PresenceInv, CastInv
      <3>3. QED
        BY <3>1, <3>2
    <2> SUFFICES ASSUME NEW j \in Tabs, cast'[j] # None
                 PROVE  /\ cast'[j].dead \subseteq InRoom /\ cast'[j].due \subseteq InRoom
                        /\ \A v \in cast'[j].dead : ~conn'[v].alive
                        /\ \A v \in cast'[j].due : conn'[v].user # cast'[j].exclude
                        /\ cast'[j].over => cast'[j].due = {}
                        /\ cast'[j].kind = "on" =>
                             conn'[j].pc = "greeting" /\ conn'[j].user = cast'[j].about
                        /\ cast'[j].kind = "off" =>
                             conn'[j].pc = "parting" /\ conn'[j].user = cast'[j].about
      BY <1>5 DEF CastInv
    <2>2. /\ cast[j].due \subseteq InRoom
          /\ \A v \in cast[j].due : conn[v].user # cast[j].exclude
          /\ cast[j].over => cast[j].due = {}
          /\ cast[j].kind = "on" => conn[j].pc = "greeting" /\ conn[j].user = cast[j].about
          /\ cast[j].kind = "off" => conn[j].pc = "parting" /\ conn[j].user = cast[j].about
      BY <2>1 DEF PresenceInv, CastInv
    <2>3. QED
      BY <1>3, <1>5, <2>1, <2>2
  <1>9. SeenInv'
    <2> SUFFICES ASSUME NEW v \in Tabs, NEW u \in Users,
                        conn'[v].alive, u \in conn'[v].seen, ~conn'[v].missed
                 PROVE  Told(v, u)'
      BY DEF SeenInv
    <2>1. conn[v].alive /\ ~conn[v].missed
      BY <1>3
    <2>2. CASE u \in conn[v].seen
      <3>1. PICK s \in Tabs :
              /\ conn[s].user = u
              /\ \/ conn[s].pc \in Handling
                 \/ /\ conn[s].pc = "parting" /\ cast[s] # None
                    /\ cast[s].kind = "off" /\ v \in cast[s].due
        BY <2>1, <2>2 DEF PresenceInv, SeenInv, Told
      <3>2. CASE conn[s].pc \in Handling \/ s # k \/ v # w
        BY <1>1, <1>3, <1>4, <3>1, <3>2 DEF Told
      <3>3. CASE conn[s].pc \notin Handling /\ s = k /\ v = w
        <4>1. cast[k].about = u /\ cast[k].kind = "off"
          BY <1>4, <3>1, <3>3 DEF PresenceInv, CastInv
        <4>2. u \notin Shows(conn[w].seen, cast[k])
          BY <4>1 DEF Shows
        <4>3. QED
          BY <1>2, <2>1, <3>3, <4>2
      <3>4. QED
        BY <3>2, <3>3
    <2>3. CASE u \notin conn[v].seen
      <3>1. v = w /\ u \in Shows(conn[w].seen, cast[k]) /\ u \notin conn[w].seen
        BY <1>1, <1>2, <2>3
      <3>2. cast[k].kind = "on" /\ u = cast[k].about
        BY <3>1 DEF Shows
      <3>3. conn[k].pc = "greeting" /\ conn[k].user = u
        BY <1>4, <3>2 DEF PresenceInv, CastInv
      <3>4. QED
        BY <1>3, <3>3 DEF Told, Handling
    <2>4. QED
      BY <2>2, <2>3
  <1>10. QED
    BY <1>6, <1>7, <1>8, <1>9 DEF PresenceInv
\* The end of a broadcast.
LEMMA EndIs ==
  ASSUME PresenceInv, NEW k \in Tabs, End(k)
  PROVE  /\ cast[k] \in Broadcast /\ cast[k] # None /\ NextAt(cast[k]) = 0
         /\ room' = Without(room, cast[k].dead) /\ online' = online
         /\ room' \in Seq(Tabs) /\ Distinct(room') /\ InRoom' = InRoom \ cast[k].dead
         /\ cast' \in [Tabs -> Broadcast \union {None}]
         /\ cast'[k] = None
         /\ \A j \in Tabs : j # k =>
              /\ cast[j] = None => cast'[j] = None
              /\ cast[j] # None =>
                   /\ cast'[j] # None
                   /\ cast'[j].about = cast[j].about /\ cast'[j].kind = cast[j].kind
                   /\ cast'[j].exclude = cast[j].exclude
                   /\ cast'[j].dead = cast[j].dead \intersect InRoom'
                   /\ cast'[j].due = cast[j].due \intersect InRoom'
                   /\ cast'[j].over => cast[j].over \/ InRoom' = {}
                   /\ cast'[j].at = IF room' = <<>> THEN 0 ELSE cast[j].at
         /\ conn' = [w \in Tabs |->
              IF w = k THEN After(conn[w])
              ELSE IF w \in cast[k].dead /\ conn[w].pc = "zombie" THEN Closed
              ELSE IF w \in cast[k].due /\ cast[k].kind = "off" /\ conn[w].alive
                   THEN [conn[w] EXCEPT !.missed = TRUE]
              ELSE conn[w]]
  <1> DEFINE a == Adjusted(room')
  <1>1. /\ room \in Seq(Tabs) /\ Distinct(room)
        /\ cast \in [Tabs -> Broadcast \union {None}]
    BY TypesAre DEF PresenceInv
  <1>2. /\ cast[k] # None /\ NextAt(cast[k]) = 0
        /\ room' = Without(room, cast[k].dead) /\ online' = online
        /\ cast' = [a EXCEPT ![k] = None]
        /\ conn' = [w \in Tabs |->
              IF w = k THEN After(conn[w])
              ELSE IF w \in cast[k].dead /\ conn[w].pc = "zombie" THEN Closed
              ELSE IF w \in cast[k].due /\ cast[k].kind = "off" /\ conn[w].alive
                   THEN [conn[w] EXCEPT !.missed = TRUE]
              ELSE conn[w]]
    BY Zenon DEF End, Settle
  <1>3. cast[k] \in Broadcast
    BY <1>1, <1>2
  <1>4. room' \in Seq(Tabs) /\ Distinct(room') /\ InRoom' = InRoom \ cast[k].dead
    <2>1. /\ Without(room, cast[k].dead) \in Seq(Tabs)
          /\ Distinct(Without(room, cast[k].dead))
          /\ ToSet(Without(room, cast[k].dead)) = ToSet(room) \ cast[k].dead
      BY <1>1, WithoutIs
    <2>2. Distinct(room')
      BY <1>2, <2>1 DEF Distinct
    <2>3. QED
      BY <1>2, <2>1, <2>2, InRoomNext DEF InRoom
  <1>5. /\ a \in [Tabs -> Broadcast \union {None}]
        /\ \A j \in Tabs :
              /\ cast[j] = None => a[j] = None
              /\ cast[j] # None =>
                   /\ a[j] # None
                   /\ a[j].about = cast[j].about /\ a[j].kind = cast[j].kind
                   /\ a[j].exclude = cast[j].exclude
                   /\ a[j].dead = cast[j].dead \intersect InRoom'
                   /\ a[j].due = cast[j].due \intersect InRoom'
                   /\ a[j].over => cast[j].over \/ InRoom' = {}
                   /\ a[j].at = IF room' = <<>> THEN 0 ELSE cast[j].at
    BY <1>1, <1>4, AdjustedIs, InRoomNext
  <1> HIDE DEF a
  <1>6. /\ cast' \in [Tabs -> Broadcast \union {None}] /\ cast'[k] = None
        /\ \A j \in Tabs : j # k => cast'[j] = a[j]
    BY <1>2, <1>5
  <1>7. ASSUME NEW j \in Tabs, j # k
        PROVE  /\ cast[j] = None => cast'[j] = None
               /\ cast[j] # None =>
                   /\ cast'[j] # None
                   /\ cast'[j].about = cast[j].about /\ cast'[j].kind = cast[j].kind
                   /\ cast'[j].exclude = cast[j].exclude
                   /\ cast'[j].dead = cast[j].dead \intersect InRoom'
                   /\ cast'[j].due = cast[j].due \intersect InRoom'
                   /\ cast'[j].over => cast[j].over \/ InRoom' = {}
                   /\ cast'[j].at = IF room' = <<>> THEN 0 ELSE cast[j].at
    <2>1. cast'[j] = a[j]
      BY <1>6, <1>7
    <2>2. QED
      BY <1>5, <2>1
  <1>8. QED
    BY <1>2, <1>3, <1>4, <1>6, <1>7

\* What the end of the broadcast of k makes of each connection.
LEMMA EndTab ==
  ASSUME PresenceInv, NEW k \in Tabs, End(k), NEW w \in Tabs
  PROVE  /\ conn'[w] \in Connection
         /\ w # k /\ w \in cast[k].dead /\ conn[w].pc = "zombie" => conn'[w] = Closed
         /\ w = k /\ conn[w].pc = "parting" => conn'[w] = Closed
         /\ w = k /\ conn[w].pc # "parting" =>
              /\ conn'[w].pc = IF conn[w].pc \in {"greeting", "sharing"} THEN "open" ELSE conn[w].pc
              /\ conn'[w].user = conn[w].user /\ conn'[w].alive = conn[w].alive
              /\ conn'[w].seen = conn[w].seen /\ conn'[w].missed = conn[w].missed
         /\ w # k /\ ~(w \in cast[k].dead /\ conn[w].pc = "zombie") =>
              /\ conn'[w].pc = conn[w].pc /\ conn'[w].user = conn[w].user
              /\ conn'[w].alive = conn[w].alive /\ conn'[w].seen = conn[w].seen
              /\ conn'[w].missed =
                   ((w \in cast[k].due /\ cast[k].kind = "off" /\ conn[w].alive) \/ conn[w].missed)
  <1> DEFINE new(v) ==
               IF v = k THEN After(conn[v])
               ELSE IF v \in cast[k].dead /\ conn[v].pc = "zombie" THEN Closed
               ELSE IF v \in cast[k].due /\ cast[k].kind = "off" /\ conn[v].alive
                    THEN [conn[v] EXCEPT !.missed = TRUE]
               ELSE conn[v]
  <1>0. conn[w] \in Connection
    BY TypesAre DEF PresenceInv
  <1>1. conn'[w] = new(w)
    <2>1. conn' = [v \in Tabs |-> new(v)]
      BY EndIs
    <2> HIDE DEF new
    <2>2. QED
      BY <2>1
  <1>2. CASE w = k
    <2>1. conn'[w] = After(conn[w])
      BY <1>1, <1>2
    <2>2. QED
      BY <1>0, <1>2, <2>1, GoesOn, ClosedHas, RunningIs
  <1>3. CASE w # k /\ w \in cast[k].dead /\ conn[w].pc = "zombie"
    <2>1. conn'[w] = Closed
      BY <1>1, <1>3
    <2>2. QED
      BY <1>3, <2>1, ClosedHas
  <1>4. CASE w # k /\ ~(w \in cast[k].dead /\ conn[w].pc = "zombie")
    <2> DEFINE c == [conn[w] EXCEPT !.missed = TRUE]
    <2>1. conn'[w] = IF w \in cast[k].due /\ cast[k].kind = "off" /\ conn[w].alive
                     THEN c ELSE conn[w]
      BY <1>1, <1>4
    <2>2. CASE w \in cast[k].due /\ cast[k].kind = "off" /\ conn[w].alive
      <3>1. conn[w] \in Running
        BY <1>0, <2>2, ConnectionIs, ClosedHas
      <3>2. /\ c \in Running /\ c.pc = conn[w].pc /\ c.user = conn[w].user
            /\ c.alive = conn[w].alive /\ c.seen = conn[w].seen /\ c.missed = TRUE
        BY <3>1, MissedSet
      <3>3. conn'[w] = c
        BY <2>1, <2>2
      <3> HIDE DEF c
      <3>4. QED
        BY <1>4, <2>2, <3>2, <3>3, RunningIs
    <2>3. CASE ~(w \in cast[k].due /\ cast[k].kind = "off" /\ conn[w].alive)
      <3>1. conn'[w] = conn[w]
        BY <2>1, <2>3
      <3>2. conn[w].missed \in BOOLEAN
        BY <1>0, ConnectionIs, ClosedHas, RunningIs
      <3>3. conn'[w].missed =
              ((w \in cast[k].due /\ cast[k].kind = "off" /\ conn[w].alive) \/ conn[w].missed)
        BY <2>3, <3>1, <3>2
      <3>4. QED
        BY <1>0, <1>4, <3>1, <3>3
    <2>4. QED
      BY <2>2, <2>3
  <1>5. QED
    BY <1>2, <1>3, <1>4

LEMMA EndKeeps ==
  ASSUME PresenceInv, NEW k \in Tabs, End(k)
  PROVE  PresenceInv'
  <1>1. /\ cast[k] # None
        /\ room' \in Seq(Tabs) /\ Distinct(room') /\ InRoom' = InRoom \ cast[k].dead
        /\ cast' \in [Tabs -> Broadcast \union {None}] /\ cast'[k] = None
        /\ online' = online
    BY EndIs
  <1>2. \A j \in Tabs : j # k /\ cast[j] # None =>
          /\ cast'[j] # None
          /\ cast'[j].about = cast[j].about /\ cast'[j].kind = cast[j].kind
          /\ cast'[j].exclude = cast[j].exclude
          /\ cast'[j].dead = cast[j].dead \intersect InRoom'
          /\ cast'[j].due = cast[j].due \intersect InRoom'
          /\ cast'[j].over => cast[j].over \/ InRoom' = {}
    BY EndIs
  <1>3. \A j \in Tabs : j # k /\ cast[j] = None => cast'[j] = None
    BY EndIs
  <1>4. InRoom \subseteq Tabs
    BY TypesAre DEF PresenceInv
  <1>5. /\ cast[k].dead \subseteq InRoom
        /\ \A w \in cast[k].dead : ~conn[w].alive
        /\ cast[k].kind = "on" => conn[k].pc = "greeting" /\ conn[k].user = cast[k].about
        /\ cast[k].kind = "off" => conn[k].pc = "parting" /\ conn[k].user = cast[k].about
    BY <1>1 DEF PresenceInv, CastInv
  <1>6. TypeOK'
    <2>1. \A w \in Tabs : conn'[w] \in Connection
      BY EndTab
    <2>2. conn' = [w \in Tabs |-> conn'[w]]
      <3> DEFINE new(v) ==
                   IF v = k THEN After(conn[v])
                   ELSE IF v \in cast[k].dead /\ conn[v].pc = "zombie" THEN Closed
                   ELSE IF v \in cast[k].due /\ cast[k].kind = "off" /\ conn[v].alive
                        THEN [conn[v] EXCEPT !.missed = TRUE]
                   ELSE conn[v]
      <3>1. conn' = [v \in Tabs |-> new(v)]
        BY EndIs
      <3> HIDE DEF new
      <3>2. QED
        BY <3>1
    <2>3. conn' \in [Tabs -> Connection]
      BY <2>1, <2>2
    <2>4. QED
      BY <1>1, <2>3, TypesNext DEF PresenceInv, TypeOK
  <1>7. ListInv'
    <2>1. ASSUME NEW w \in Tabs, w \in InRoom'
          PROVE  conn'[w].pc \in Listening \union {"zombie"}
      <3>1. w \notin cast[k].dead /\ conn[w].pc \in Listening \union {"zombie"}
        BY <1>1, <2>1 DEF PresenceInv, ListInv
      <3>2. CASE w = k
        BY <3>1, <3>2, EndTab DEF Listening
      <3>3. CASE w # k
        BY <3>1, <3>3, EndTab
      <3>4. QED
        BY <3>2, <3>3
    <2>2. ASSUME NEW w \in Tabs, conn'[w].alive
          PROVE  conn'[w].pc \in Listening /\ w \in InRoom'
      <3>1. CASE w = k
        <4>1. conn[w].pc # "parting" /\ conn[w].alive
          BY <2>2, <3>1, EndTab, ClosedHas
        <4>2. conn[w].pc \in Listening /\ w \in InRoom /\ w \notin cast[k].dead
          BY <1>5, <4>1 DEF PresenceInv, ListInv
        <4>3. QED
          BY <1>1, <3>1, <4>1, <4>2, EndTab DEF Listening
      <3>2. CASE w # k
        <4>1. conn[w].alive /\ conn'[w].pc = conn[w].pc
          BY <2>2, <3>2, EndTab, ClosedHas
        <4>2. conn[w].pc \in Listening /\ w \in InRoom /\ w \notin cast[k].dead
          BY <1>5, <4>1 DEF PresenceInv, ListInv
        <4>3. QED
          BY <1>1, <4>1, <4>2
      <3>3. QED
        BY <3>1, <3>2
    <2>3. QED
      BY <2>1, <2>2 DEF ListInv
  <1>8. CastInv'
    <2> SUFFICES ASSUME NEW j \in Tabs, cast'[j] # None
                 PROVE  /\ cast'[j].dead \subseteq InRoom' /\ cast'[j].due \subseteq InRoom'
                        /\ \A w \in cast'[j].dead : ~conn'[w].alive
                        /\ \A w \in cast'[j].due : conn'[w].user # cast'[j].exclude
                        /\ cast'[j].over => cast'[j].due = {}
                        /\ cast'[j].kind = "on" =>
                             conn'[j].pc = "greeting" /\ conn'[j].user = cast'[j].about
                        /\ cast'[j].kind = "off" =>
                             conn'[j].pc = "parting" /\ conn'[j].user = cast'[j].about
      BY DEF CastInv
    <2>1. j # k /\ cast[j] # None
      BY <1>1, <1>3
    <2>2. /\ cast'[j].about = cast[j].about /\ cast'[j].kind = cast[j].kind
          /\ cast'[j].exclude = cast[j].exclude
          /\ cast'[j].dead = cast[j].dead \intersect InRoom'
          /\ cast'[j].due = cast[j].due \intersect InRoom'
          /\ cast'[j].over => cast[j].over \/ InRoom' = {}
      BY <1>2, <2>1
    <2>3. /\ \A w \in cast[j].dead : ~conn[w].alive
          /\ \A w \in cast[j].due : conn[w].user # cast[j].exclude
          /\ cast[j].over => cast[j].due = {}
          /\ cast[j].kind = "on" => conn[j].pc = "greeting" /\ conn[j].user = cast[j].about
          /\ cast[j].kind = "off" => conn[j].pc = "parting" /\ conn[j].user = cast[j].about
      BY <2>1 DEF PresenceInv, CastInv
    <2>4. ASSUME NEW w \in InRoom'
          PROVE  conn'[w].user = conn[w].user /\ conn'[w].alive = conn[w].alive
      <3>1. w \in Tabs /\ w \notin cast[k].dead /\ conn[w].pc # "parting"
        BY <1>1, <1>4 DEF PresenceInv, ListInv, Listening
      <3>2. QED
        BY <3>1, EndTab
    <2>5. conn[j].pc \in {"greeting", "parting"} =>
            conn'[j].pc = conn[j].pc /\ conn'[j].user = conn[j].user
      BY <2>1, EndTab
    <2>6. QED
      BY <2>2, <2>3, <2>4, <2>5
  <1>9. SeenInv'
    <2> SUFFICES ASSUME NEW w \in Tabs, NEW v \in Users,
                        conn'[w].alive, v \in conn'[w].seen, ~conn'[w].missed
                 PROVE  Told(w, v)'
      BY DEF SeenInv
    <2>1. /\ conn[w].alive /\ v \in conn[w].seen /\ ~conn[w].missed
          /\ ~(w # k /\ w \in cast[k].due /\ cast[k].kind = "off")
      <3>1. CASE w = k
        BY <3>1, EndTab, ClosedHas
      <3>2. CASE w # k
        BY <3>2, EndTab, ClosedHas
      <3>3. QED
        BY <3>1, <3>2
    <2>2. conn[w].pc \in Listening /\ w \in InRoom'
      BY <1>1, <1>5, <2>1 DEF PresenceInv, ListInv
    <2>3. PICK s \in Tabs :
            /\ conn[s].user = v
            /\ \/ conn[s].pc \in Handling
               \/ /\ conn[s].pc = "parting" /\ cast[s] # None
                  /\ cast[s].kind = "off" /\ w \in cast[s].due
      BY <2>1 DEF PresenceInv, SeenInv, Told
    <2>4. CASE conn[s].pc \in Handling
      <3>1. conn'[s].user = v /\ conn'[s].pc \in Handling
        <4>1. conn[s].pc # "zombie" /\ conn[s].pc # "parting"
          BY <2>4 DEF Handling
        <4>2. CASE s = k
          BY <2>3, <2>4, <4>1, <4>2, EndTab DEF Handling
        <4>3. CASE s # k
          BY <2>3, <2>4, <4>1, <4>3, EndTab
        <4>4. QED
          BY <4>2, <4>3
      <3>2. QED
        BY <3>1 DEF Told
    <2>5. CASE conn[s].pc \notin Handling
      <3>1. s # k
        <4>1. s = k => w # k
          BY <2>2, <2>3, <2>5 DEF Listening
        <4>2. QED
          BY <2>1, <2>3, <2>5, <4>1
      <3>2. conn'[s].user = v /\ conn'[s].pc = "parting"
        BY <2>3, <2>5, <3>1, EndTab
      <3>3. cast'[s] # None /\ cast'[s].kind = "off" /\ w \in cast'[s].due
        BY <1>2, <2>2, <2>3, <2>5, <3>1
      <3>4. QED
        BY <3>2, <3>3 DEF Told
    <2>6. QED
      BY <2>4, <2>5
  <1>10. QED
    BY <1>6, <1>7, <1>8, <1>9 DEF PresenceInv

\* The beginning, and the process started again.
LEMMA NobodyIsFine ==
  ASSUME room = <<>>, conn = [t \in Tabs |-> Closed], cast = [k \in Tabs |-> None],
         online \subseteq Users
  PROVE  PresenceInv
  <1>1. room \in Seq(Tabs) /\ InRoom = {} /\ DOMAIN room = {}
    <2>1. <<>> \in Seq(Tabs)
      BY EmptySeq
    <2>2. ToSet(<<>>) = {}
      BY <2>1, SeqIs
    <2>3. QED
      BY <2>1, <2>2 DEF InRoom
  <1>2. \A t \in Tabs : conn[t] = Closed /\ cast[t] = None
    OBVIOUS
  <1>3. TypeOK
    BY <1>1, ClosedHas DEF TypeOK
  <1>4. ListInv
    BY <1>1, <1>2, ClosedHas DEF ListInv
  <1>5. CastInv
    BY <1>2 DEF CastInv
  <1>6. SeenInv
    BY <1>2, ClosedHas DEF SeenInv
  <1>7. QED
    BY <1>3, <1>4, <1>5, <1>6 DEF PresenceInv

LEMMA CrashKeeps ==
  ASSUME PresenceInv, Crash
  PROVE  PresenceInv'
  <1>1. /\ room' = <<>> /\ conn' = [t \in Tabs |-> Closed]
        /\ cast' = [k \in Tabs |-> None] /\ online' \subseteq Users
    BY TypesAre DEF Crash, PresenceInv, TypeOK
  <1>2. room' \in Seq(Tabs) /\ InRoom' = {} /\ DOMAIN room' = {}
    <2>1. <<>> \in Seq(Tabs)
      BY EmptySeq
    <2>2. ToSet(<<>>) = {}
      BY <2>1, SeqIs
    <2>3. QED
      BY <1>1, <2>1, <2>2, InRoomNext
  <1>3. \A t \in Tabs : conn'[t] = Closed /\ cast'[t] = None
    BY <1>1
  <1>4. TypeOK'
    BY <1>1, <1>2, ClosedHas DEF TypeOK
  <1>5. ListInv'
    BY <1>2, <1>3, ClosedHas DEF ListInv
  <1>6. CastInv'
    BY <1>3 DEF CastInv
  <1>7. SeenInv'
    BY <1>3, ClosedHas DEF SeenInv
  <1>8. QED
    BY <1>4, <1>5, <1>6, <1>7 DEF PresenceInv

\* Pings and expiry concern the keys only.
LEMMA KeysKeep ==
  ASSUME PresenceInv, UNCHANGED <<room, conn, cast>>, online' \subseteq Users
  PROVE  PresenceInv'
  <1>1. InRoom' = InRoom
    BY InRoomNext DEF InRoom
  <1>2. TypeOK'
    BY DEF PresenceInv, TypeOK
  <1>3. ListInv' /\ CastInv'
    BY <1>1 DEF PresenceInv, ListInv, CastInv
  <1>4. SeenInv'
    BY DEF PresenceInv, SeenInv, Told
  <1>5. QED
    BY <1>2, <1>3, <1>4 DEF PresenceInv

LEMMA PresenceStays == PresenceInv /\ [Next]_vars => PresenceInv'
  <1> SUFFICES ASSUME PresenceInv, [Next]_vars
               PROVE  PresenceInv'
    OBVIOUS
  <1>0. conn \in [Tabs -> Connection] /\ online \subseteq Users
    BY TypesAre DEF PresenceInv, TypeOK
  <1>1. ASSUME NEW t \in Tabs, NEW u \in Users, Accept(t, u) PROVE PresenceInv'
    BY <1>1, AcceptKeeps
  <1>2. ASSUME NEW t \in Tabs, Greet(t) \/ Share(t) \/ Part(t) PROVE PresenceInv'
    BY <1>2, BeginKeeps
  <1>3. ASSUME NEW t \in Tabs, GreetFails(t) \/ Drop(t) PROVE PresenceInv'
    BY <1>3, GoneKeeps
  <1>4. ASSUME NEW t \in Tabs, Pong(t) PROVE PresenceInv'
    <2>1. conn[t].pc = "open" /\ online' = online \union {conn[t].user}
          /\ UNCHANGED <<room, conn, cast>>
      BY <1>4 DEF Pong
    <2>2. conn[t] \in Running
      BY <1>0, <2>1, ConnectionIs, ClosedHas
    <2>3. online' \subseteq Users
      BY <1>0, <2>1, <2>2, RunningIs
    <2>4. QED
      BY <2>1, <2>3, KeysKeep
  <1>5. ASSUME NEW t \in Tabs, Leave(t) PROVE PresenceInv'
    BY <1>5, LeaveKeeps
  <1>6. ASSUME NEW t \in Tabs, PartFails(t) PROVE PresenceInv'
    BY <1>6, PartFailsKeeps
  <1>7. ASSUME NEW t \in Tabs, Send(t) PROVE PresenceInv'
    BY <1>7, SendKeeps
  <1>8. ASSUME NEW t \in Tabs, End(t) PROVE PresenceInv'
    BY <1>8, EndKeeps
  <1>9. ASSUME NEW u \in Users, Expire(u) PROVE PresenceInv'
    <2>1. UNCHANGED <<room, conn, cast>> /\ online' \subseteq Users
      BY <1>0, <1>9 DEF Expire
    <2>2. QED
      BY <2>1, KeysKeep
  <1>10. CASE Crash
    BY <1>10, CrashKeeps
  <1>11. CASE UNCHANGED vars
    <2>1. UNCHANGED <<room, conn, cast>> /\ online' \subseteq Users
      BY <1>0, <1>11 DEF vars
    <2>2. QED
      BY <2>1, KeysKeep
  <1>12. QED
    BY <1>1, <1>2, <1>3, <1>4, <1>5, <1>6, <1>7, <1>8, <1>9, <1>10, <1>11 DEF Next

LEMMA PresenceHolds == Spec => []PresenceInv
  <1>1. Init => PresenceInv
    BY NobodyIsFine DEF Init
  <1>2. QED
    BY <1>1, PresenceStays, PTL DEF Spec
-------------------------------------------------------------------------------
\* No connection is ever listed twice, a broadcast is only what _rooms and the
\* handlers make it: in every state.
THEOREM PresenceTypesHold == Spec => []TypeOK
  <1>1. PresenceInv => TypeOK
    BY DEF PresenceInv
  <1>2. QED
    BY <1>1, PresenceHolds, PTL

\* A browser that is there and whose handler runs stays in _rooms from connect until
\* its own disconnect: no broadcast's clean-up of dead clients and no other tab of
\* the same user takes it out.
THEOREM PresentStaysListed == Spec => []PresentIsListed
  <1>1. PresenceInv => PresentIsListed
    BY DEF PresenceInv, ListInv, PresentIsListed
  <1>2. QED
    BY <1>1, PresenceHolds, PTL

\* When the last handler of a user has ended, no browser shows the user as online,
\* unless the "offline" never reached that browser: whatever the other tabs of the
\* user did meanwhile and in whatever order the sends came through.
THEOREM GoneStaysGone == Spec => []GoneIsSeenGone
  <1>1. PresenceInv => GoneIsSeenGone
    <2> SUFFICES ASSUME PresenceInv, NEW w \in Tabs, NEW u \in Users,
                        conn[w].alive, u \in conn[w].seen, ~conn[w].missed
                 PROVE  Served(u)
      BY DEF GoneIsSeenGone
    <2>1. Told(w, u)
      BY DEF PresenceInv, SeenInv
    <2>2. QED
      BY <2>1 DEF Told, Handling, Served
  <1>2. QED
    BY <1>1, PresenceHolds, PTL

-------------------------------------------------------------------------------
(***************************************************************************)
(* Whom a broadcast passes over.                                           *)
(***************************************************************************)

\* The broadcast of k in a step in which nobody is taken off the list.
NobodyNewPassed(k) == \A w \in Tabs : PassedOver(k, w)' => PassedOver(k, w)

\* Whoever is owed an event is told or still owed when the broadcast of k ends.
NobodyForgotten(k) ==
    cast'[k] = None => \A w \in cast[k].due \intersect ToSet(room') : PassedOver(k, w)

LEMMA PassedOverNext ==
  ASSUME NEW k, NEW w
  PROVE  PassedOver(k, w)' <=>
           /\ cast'[k] # None
           /\ w \in cast'[k].due
           /\ \E i \in 1..cast'[k].at : i \in DOMAIN room' /\ room'[i] = w
  BY DEF PassedOver

\* A broadcast that a step leaves alone, with the list.
LEMMA SameCast ==
  ASSUME NEW k \in Tabs, cast[k] # None, cast'[k] = cast[k], room' = room
  PROVE  NobodyNewPassed(k) /\ NobodyForgotten(k)
  BY PassedOverNext DEF NobodyNewPassed, NobodyForgotten, PassedOver

\* The others when the list becomes r.
LEMMA OtherCast ==
  ASSUME NEW k \in Tabs, cast[k] # None, cast'[k] # None, room \in Seq(Tabs),
         room' \in Seq(Tabs),
         cast'[k].due = cast[k].due \intersect ToSet(room'),
         cast'[k].at = IF room' = <<>> THEN 0 ELSE cast[k].at,
         InRoom \subseteq ToSet(room') => room' = room
  PROVE  /\ InRoom \subseteq ToSet(room') => NobodyNewPassed(k)
         /\ NobodyForgotten(k)
  <1>1. NobodyForgotten(k)
    BY DEF NobodyForgotten
  <1>2. ASSUME InRoom \subseteq ToSet(room'), NEW w \in Tabs, PassedOver(k, w)'
        PROVE  PassedOver(k, w)
    <2>1. /\ w \in cast'[k].due
          /\ \E i \in 1..cast'[k].at : i \in DOMAIN room' /\ room'[i] = w
      BY <1>2, PassedOverNext
    <2>2. room' = room
      BY <1>2
    <2>3. room' # <<>>
      <3>1. w \in ToSet(room')
        BY <2>1
      <3>2. QED
        BY <3>1, SeqIs
    <2>4. QED
      BY <2>1, <2>2, <2>3 DEF PassedOver
  <1>3. QED
    BY <1>1, <1>2 DEF NobodyNewPassed

LEMMA AcceptPasses ==
  ASSUME PresenceInv, NEW t \in Tabs, NEW u \in Users, Accept(t, u),
         NEW k \in Tabs, cast[k] # None
  PROVE  NobodyNewPassed(k) /\ NobodyForgotten(k)
  <1>1. conn[t] = Closed /\ room' = Append(room, t) /\ cast' = cast
    BY DEF Accept
  <1>2. room \in Seq(Tabs)
    BY TypesAre DEF PresenceInv
  <1>3. t \notin InRoom /\ cast[k].due \subseteq InRoom
    BY <1>1, ClosedHas DEF PresenceInv, ListInv, CastInv, Listening
  <1>4. /\ Len(room) \in Nat /\ DOMAIN room = 1..Len(room)
        /\ DOMAIN room' = 1..(Len(room) + 1)
        /\ \A i \in 1..Len(room) : room'[i] = room[i]
        /\ room'[Len(room) + 1] = t
    BY <1>1, <1>2
  <1>5. ASSUME NEW w \in Tabs, PassedOver(k, w)'
        PROVE  PassedOver(k, w)
    <2>1. PICK i \in 1..cast[k].at : i \in DOMAIN room' /\ room'[i] = w
      BY <1>1, <1>5, PassedOverNext
    <2>2. w \in cast[k].due /\ w # t
      BY <1>1, <1>3, <1>5, PassedOverNext
    <2>3. i \in DOMAIN room /\ room[i] = w
      BY <1>4, <2>1, <2>2
    <2>4. QED
      BY <2>1, <2>2, <2>3 DEF PassedOver
  <1>6. QED
    BY <1>1, <1>5 DEF NobodyNewPassed, NobodyForgotten

LEMMA BeginPasses ==
  ASSUME PresenceInv, NEW t \in Tabs, Greet(t) \/ Share(t) \/ Part(t),
         NEW k \in Tabs, cast[k] # None
  PROVE  NobodyNewPassed(k) /\ NobodyForgotten(k)
  <1>0. /\ room \in Seq(Tabs) /\ cast \in [Tabs -> Broadcast \union {None}]
        /\ conn \in [Tabs -> Connection]
    BY TypesAre DEF PresenceInv
  <1>1. PICK a \in Users \union {None}, kind \in {"on", "off", "other"},
             x \in Users \union {None} :
          cast' = [cast EXCEPT ![t] = NewCast(a, kind, x, room)] /\ room' = room
    <2>1. conn[t].pc # "closed" => conn[t].user \in Users
      BY <1>0, ConnectionIs, ClosedHas, RunningIs
    <2>2. CASE Greet(t)
      BY <2>1, <2>2 DEF Greet
    <2>3. CASE Share(t)
      BY <2>1, <2>3 DEF Share
    <2>4. CASE Part(t)
      BY <2>1, <2>4 DEF Part
    <2>5. QED
      BY <2>2, <2>3, <2>4
  <1> DEFINE b == NewCast(a, kind, x, room)
  <1>2. b \in Broadcast /\ b.at = 0
    <2>1. room \in Seq(Tabs)
      BY <1>0
    <2>2. QED
      BY <2>1, BegunTyped, Zenon
  <1>3. cast' = [cast EXCEPT ![t] = b]
    BY <1>1
  <1> HIDE DEF b
  <1>4. cast'[t] = b /\ \A j \in Tabs : j # t => cast'[j] = cast[j]
    BY <1>0, <1>2, <1>3, OneBroadcast
  <1>5. CASE k # t
    BY <1>1, <1>4, <1>5, SameCast
  <1>6. CASE k = t
    <2>1. cast'[k] # None /\ cast'[k].at = 0
      BY <1>2, <1>4, <1>6, BroadcastIs
    <2>2. \A i \in 1..cast'[k].at : FALSE
      BY <2>1
    <2>3. QED
      BY <2>1, <2>2, PassedOverNext DEF NobodyNewPassed, NobodyForgotten
  <1>7. QED
    BY <1>5, <1>6

LEMMA SendPasses ==
  ASSUME PresenceInv, NEW s \in Tabs, Send(s), NEW k \in Tabs, cast[k] # None
  PROVE  NobodyNewPassed(k) /\ NobodyForgotten(k)
  <1> DEFINE n == NextAt(cast[s])
  <1>1. /\ cast[s] \in Broadcast /\ n \in 1..Len(room) /\ cast[s].at < n
        /\ room' = room /\ \A j \in Tabs : j # s => cast'[j] = cast[j]
        /\ cast'[s] \in Broadcast /\ cast'[s].at = n
        /\ cast'[s].due = cast[s].due \ {room[n]}
    BY SendIs
  <1>2. \A i \in (cast[s].at + 1)..(n - 1) : conn[room[i]].user = cast[s].exclude
    BY SendIs
  <1> HIDE DEF n
  <1>3. CASE k # s
    BY <1>1, <1>3, SameCast
  <1>4. CASE k = s
    <2>1. NobodyForgotten(k)
      BY <1>1, <1>4, BroadcastIs DEF NobodyForgotten
    <2>2. ASSUME NEW w \in Tabs, PassedOver(k, w)'
          PROVE  PassedOver(k, w)
      <3>1. PICK i \in 1..n : i \in DOMAIN room /\ room[i] = w
        BY <1>1, <1>4, <2>2, PassedOverNext
      <3>2. w \in cast[k].due /\ w # room[n]
        BY <1>1, <1>4, <2>2, PassedOverNext
      <3>3. conn[w].user # cast[k].exclude
        BY <3>2 DEF PresenceInv, CastInv
      <3>4. cast[k].at \in Nat /\ n \in Nat
        BY <1>1, <1>4, BroadcastIs
      <3>5. i # n /\ ~(i \in (cast[k].at + 1)..(n - 1))
        BY <1>2, <1>4, <3>1, <3>2, <3>3
      <3>6. i \in 1..cast[k].at
        BY <3>1, <3>4, <3>5
      <3>7. QED
        BY <3>1, <3>2, <3>6 DEF PassedOver
    <2>3. QED
      BY <2>1, <2>2 DEF NobodyNewPassed
  <1>5. QED
    BY <1>3, <1>4

LEMMA LeavePasses ==
  ASSUME PresenceInv, NEW t \in Tabs, Leave(t), NEW k \in Tabs, cast[k] # None
  PROVE  /\ InRoom \subseteq ToSet(room') => NobodyNewPassed(k)
         /\ NobodyForgotten(k)
  <1>1. room' = RemoveFirst(room, t) /\ cast' = Adjusted(room')
    BY DEF Leave, RemoveClient
  <1>2. /\ room \in Seq(Tabs) /\ Distinct(room)
        /\ cast \in [Tabs -> Broadcast \union {None}]
    BY TypesAre DEF PresenceInv
  <1>3. /\ room' \in Seq(Tabs) /\ ToSet(room') = ToSet(room) \ {t}
        /\ t \notin ToSet(room) => room' = room
    BY <1>1, <1>2, RemoveFirstIs
  <1>4. InRoom \subseteq ToSet(room') => room' = room
    BY <1>3 DEF InRoom
  <1>5. /\ cast'[k] # None /\ cast'[k].due = cast[k].due \intersect ToSet(room')
        /\ cast'[k].at = IF room' = <<>> THEN 0 ELSE cast[k].at
    BY <1>1, <1>2, <1>3, AdjustedIs
  <1>6. QED
    BY <1>2, <1>3, <1>4, <1>5, OtherCast

LEMMA EndPasses ==
  ASSUME PresenceInv, NEW s \in Tabs, End(s), NEW k \in Tabs, cast[k] # None
  PROVE  /\ InRoom \subseteq ToSet(room') => NobodyNewPassed(k)
         /\ NobodyForgotten(k)
  <1>1. /\ cast[s] \in Broadcast /\ cast'[s] = None /\ NextAt(cast[s]) = 0
        /\ room' = Without(room, cast[s].dead)
    BY EndIs
  <1>2. room \in Seq(Tabs) /\ Distinct(room)
    BY TypesAre DEF PresenceInv
  <1>3. /\ room' \in Seq(Tabs) /\ ToSet(room') = ToSet(room) \ cast[s].dead
        /\ cast[s].dead \intersect ToSet(room) = {} => room' = room
    BY <1>1, <1>2, WithoutIs
  <1>4. InRoom \subseteq ToSet(room') => room' = room
    BY <1>3 DEF InRoom
  <1>5. CASE k # s
    <2>1. /\ cast'[k] # None /\ cast'[k].due = cast[k].due \intersect ToSet(room')
          /\ cast'[k].at = IF room' = <<>> THEN 0 ELSE cast[k].at
      BY <1>5, EndIs, InRoomNext
    <2>2. QED
      BY <1>2, <1>3, <1>4, <2>1, OtherCast
  <1>6. CASE k = s
    <2>1. NobodyNewPassed(k)
      BY <1>1, <1>6, PassedOverNext DEF NobodyNewPassed
    <2>2. ASSUME NEW w \in cast[k].due
          PROVE  PassedOver(k, w)
      <3>1. w \in InRoom /\ conn[w].user # cast[k].exclude /\ ~cast[k].over
        BY <2>2 DEF PresenceInv, CastInv
      <3>2. PICK i \in 1..Len(room) : room[i] = w
        BY <1>2, <3>1, SeqIs DEF InRoom
      <3>3. \A j \in (cast[k].at + 1)..Len(room) : conn[room[j]].user = cast[k].exclude
        BY <1>1, <1>2, <1>6, <3>1, NextIs
      <3>4. cast[k].at \in Nat /\ Len(room) \in Nat /\ DOMAIN room = 1..Len(room)
        BY <1>1, <1>2, <1>6, BroadcastIs
      <3>5. i \in 1..cast[k].at /\ i \in DOMAIN room
        BY <3>1, <3>2, <3>3, <3>4
      <3>6. QED
        BY <2>2, <3>2, <3>5 DEF PassedOver
    <2>3. QED
      BY <2>1, <2>2 DEF NobodyForgotten
  <1>7. QED
    BY <1>5, <1>6

LEMMA CrashPasses ==
  ASSUME Crash, PresenceInv, NEW k \in Tabs
  PROVE  NobodyNewPassed(k) /\ NobodyForgotten(k)
  <1>1. cast'[k] = None /\ room' = <<>>
    BY TypesAre DEF Crash, PresenceInv
  <1>2. ToSet(room') = {}
    <2>1. <<>> \in Seq(Tabs)
      BY EmptySeq
    <2>2. QED
      BY <1>1, <2>1, SeqIs
  <1>3. QED
    BY <1>1, <1>2, PassedOverNext DEF NobodyNewPassed, NobodyForgotten

\* broadcast_to_couple iterates over the list that connect and disconnect change
\* under it, and yet it passes over a client that is listed from its begin to its
\* end only in a step that takes another client off the list.
THEOREM MissesBesideALeave == Spec => MissesOnlyBesideALeave
  <1> DEFINE Step(k) ==
               cast[k] # None =>
                 /\ \A w \in Tabs : PassedOver(k, w)' /\ ~PassedOver(k, w) =>
                      \E v \in InRoom : v \notin ToSet(room')
                 /\ cast'[k] = None =>
                      \A w \in cast[k].due \intersect ToSet(room') : PassedOver(k, w)
  <1>1. ASSUME PresenceInv, Next, NEW k \in Tabs
        PROVE  Step(k)
    <2> SUFFICES ASSUME cast[k] # None
                 PROVE  /\ InRoom \subseteq ToSet(room') => NobodyNewPassed(k)
                        /\ NobodyForgotten(k)
      BY DEF NobodyNewPassed, NobodyForgotten
    <2>1. ASSUME NEW t \in Tabs, NEW u \in Users, Accept(t, u)
          PROVE  NobodyNewPassed(k) /\ NobodyForgotten(k)
      BY <1>1, <2>1, AcceptPasses
    <2>2. ASSUME NEW t \in Tabs, Greet(t) \/ Share(t) \/ Part(t)
          PROVE  NobodyNewPassed(k) /\ NobodyForgotten(k)
      BY <1>1, <2>2, BeginPasses
    <2>3. ASSUME NEW t \in Tabs, Send(t)
          PROVE  NobodyNewPassed(k) /\ NobodyForgotten(k)
      BY <1>1, <2>3, SendPasses
    <2>4. ASSUME NEW t \in Tabs, GreetFails(t) \/ Drop(t) \/ Pong(t) \/ PartFails(t)
          PROVE  NobodyNewPassed(k) /\ NobodyForgotten(k)
      <3>1. room' = room /\ cast' = cast
        BY <2>4 DEF GreetFails, Drop, Pong, PartFails
      <3>2. QED
        BY <3>1, SameCast
    <2>5. ASSUME NEW u \in Users, Expire(u)
          PROVE  NobodyNewPassed(k) /\ NobodyForgotten(k)
      <3>1. room' = room /\ cast' = cast
        BY <2>5 DEF Expire
      <3>2. QED
        BY <3>1, SameCast
    <2>6. CASE \E t \in Tabs : Leave(t)
      BY <1>1, <2>6, LeavePasses
    <2>7. CASE \E t \in Tabs : End(t)
      BY <1>1, <2>7, EndPasses
    <2>8. CASE Crash
      BY <1>1, <2>8, CrashPasses
    <2>9. QED
      BY <1>1, <2>1, <2>2, <2>3, <2>4, <2>5, <2>6, <2>7, <2>8 DEF Next
  <1>2. ASSUME PresenceInv, [Next]_vars
        PROVE  [\A k \in Tabs : Step(k)]_vars
    <2> HIDE DEF Step
    <2>1. QED
      BY <1>1, <1>2
  <1>3. QED
    BY <1>2, PresenceHolds, PTL DEF Spec, MissesOnlyBesideALeave
-------------------------------------------------------------------------------
(***************************************************************************)
(* The presence keys.  But for the failures each step keeps what will      *)
(* delete a key: whoever is online afterwards was online or is handled     *)
(* now, and the handlers of the users that stay online go on.              *)
(***************************************************************************)

\* The handler of the connection c runs for u and will delete the key of u, or fail
\* to.
Handles(c, u) == c.user = u /\ c.pc \notin {"closed", "zombie", "parting"}

Cares ==
    \A u \in Users : u \in online' =>
        /\ u \in online \/ \E t \in Tabs : Handles(conn'[t], u)
        /\ \A t \in Tabs : Handles(conn[t], u) => Handles(conn'[t], u)

LEMMA TabSteps ==
  ASSUME PresenceInv, NEW t \in Tabs,
         \/ \E u \in Users : Accept(t, u)
         \/ Greet(t) \/ Pong(t) \/ Share(t) \/ Drop(t) \/ Leave(t) \/ Part(t)
  PROVE  Cares
  <1>0. /\ conn \in [Tabs -> Connection]
        /\ conn[t].pc # "closed" => conn[t] \in Running /\ conn[t].user \in Users
    BY TypesAre, ConnectionIs, ClosedHas, RunningIs DEF PresenceInv
  <1>1. CASE \E u \in Users : Accept(t, u)
    <2>1. PICK u \in Users : Accept(t, u)
      BY <1>1
    <2> DEFINE c == [Closed EXCEPT !.pc = "joined", !.user = u, !.alive = TRUE]
    <2>2. conn[t] = Closed /\ conn' = [conn EXCEPT ![t] = c] /\ online' = online
      BY <2>1 DEF Accept
    <2> HIDE DEF c
    <2>3. \A w \in Tabs : w # t => conn'[w] = conn[w]
      BY <1>0, <2>2
    <2>4. QED
      BY <2>2, <2>3, ClosedHas DEF Cares, Handles
  <1>2. CASE Greet(t) \/ Share(t)
    <2>1. PICK p \in {"greeting", "sharing"} :
            /\ conn[t].pc \in {"joined", "open"}
            /\ conn' = [conn EXCEPT ![t].pc = p]
            /\ online' \subseteq online \union {conn[t].user}
      BY <1>2 DEF Greet, Share
    <2> DEFINE c == [conn[t] EXCEPT !.pc = p]
    <2>2. conn[t] \in Running /\ p \in {"greeting", "open", "sharing", "parting"}
      BY <1>0, <2>1
    <2>3. /\ c \in Running /\ c.pc = p /\ c.user = conn[t].user /\ c.alive = conn[t].alive
          /\ c.seen = conn[t].seen /\ c.missed = conn[t].missed
      BY <2>2, PcSet, Zenon
    <2>4. conn' = [conn EXCEPT ![t] = c]
      BY <2>1, Zenon
    <2> HIDE DEF c
    <2>5. conn'[t] = c /\ \A w \in Tabs : w # t => conn'[w] = conn[w]
      BY <1>0, <2>4
    <2>6. QED
      BY <2>1, <2>3, <2>5 DEF Cares, Handles
  <1>3. CASE Pong(t)
    BY <1>3 DEF Pong, Cares, Handles
  <1>4. CASE Drop(t)
    <2> DEFINE c == [conn[t] EXCEPT !.alive = FALSE, !.seen = {}, !.missed = FALSE]
    <2>1. conn' = [conn EXCEPT ![t] = c] /\ online' = online /\ conn[t].alive
      BY <1>4, Zenon DEF Drop
    <2>2. conn[t] \in Running
      BY <1>0, <2>1 DEF PresenceInv, ListInv, Listening
    <2>3. c.pc = conn[t].pc /\ c.user = conn[t].user
      BY <2>2, DroppedIs
    <2> HIDE DEF c
    <2>4. conn'[t] = c /\ \A w \in Tabs : w # t => conn'[w] = conn[w]
      BY <1>0, <2>1
    <2>5. QED
      BY <2>1, <2>3, <2>4 DEF Cares, Handles
  <1>5. CASE Leave(t)
    <2> DEFINE c == [Closed EXCEPT !.pc = "leaving", !.user = conn[t].user]
    <2>1. conn[t].pc = "open" /\ conn' = [conn EXCEPT ![t] = c] /\ online' = online
      BY <1>5 DEF Leave
    <2>2. c.pc = "leaving" /\ c.user = conn[t].user
      BY <1>0, <2>1, EndedIs
    <2> HIDE DEF c
    <2>3. conn'[t] = c /\ \A w \in Tabs : w # t => conn'[w] = conn[w]
      BY <1>0, <2>1
    <2>4. QED
      BY <2>1, <2>2, <2>3 DEF Cares, Handles
  <1>6. CASE Part(t)
    <2>1. /\ \A w \in Tabs : w # t => conn'[w] = conn[w]
          /\ online' = online \ {conn[t].user}
      BY <1>0, <1>6 DEF Part
    <2>2. QED
      BY <2>1 DEF Cares, Handles
  <1>7. QED
    BY <1>1, <1>2, <1>3, <1>4, <1>5, <1>6

\* A broadcast moves no handler; at its end its own goes on.
LEMMA CastSteps ==
  ASSUME PresenceInv, NEW k \in Tabs, Send(k) \/ End(k)
  PROVE  Cares
  <1>1. CASE Send(k)
    <2>1. online' = online /\ \A w \in Tabs : w # room[NextAt(cast[k])] => conn'[w] = conn[w]
      BY <1>1, SendIs
    <2>2. \A w \in Tabs : conn'[w].pc = conn[w].pc /\ conn'[w].user = conn[w].user
      BY <1>1, <2>1, SendIs
    <2>3. QED
      BY <2>1, <2>2 DEF Cares, Handles
  <1>2. CASE End(k)
    <2>1. online' = online
      BY <1>2, EndIs
    <2>2. ASSUME NEW w \in Tabs, NEW u \in Users, Handles(conn[w], u)
          PROVE  Handles(conn'[w], u)
      BY <1>2, <2>2, EndTab DEF Handles
    <2>3. QED
      BY <2>1, <2>2 DEF Cares
  <1>3. QED
    BY <1>1, <1>2

\* A step that cares leaves no key behind that was not left behind before.
LEMMA CareLeavesNoStray ==
  ASSUME Cares, NEW u \in Users, Stray(u)'
  PROVE  Stray(u)
  <1>1. u \in online' /\ \A t \in Tabs : ~Handles(conn'[t], u)
    BY DEF Stray, Handles
  <1>2. u \in online /\ \A t \in Tabs : ~Handles(conn[t], u)
    BY <1>1 DEF Cares
  <1>3. QED
    BY <1>2 DEF Stray, Handles

\* The key online:{user_id} outlives the last handler of its user only when Redis
\* refused set_online or set_offline, or the process died: with any number of tabs
\* and broadcasts, in whatever order tabs connect, answer pings and close.
THEOREM KeysOutliveOnlyFailures == Spec => KeyOutlivesOnlyFailures
  <1>1. ASSUME PresenceInv, [Next]_vars
        PROVE  [\A u \in Users : Stray(u)' /\ ~Stray(u) =>
                  Crash \/ \E t \in Tabs : GreetFails(t) \/ PartFails(t)]_vars
    <2> SUFFICES ASSUME NEW u \in Users, Stray(u)', ~Stray(u), Next,
                        ~Crash, ~ \E t \in Tabs : GreetFails(t) \/ PartFails(t)
                 PROVE  FALSE
      BY <1>1
    <2>1. CASE \E t \in Tabs :
                 \/ \E v \in Users : Accept(t, v)
                 \/ Greet(t) \/ Pong(t) \/ Share(t) \/ Drop(t) \/ Leave(t) \/ Part(t)
      BY <1>1, <2>1, TabSteps, CareLeavesNoStray
    <2>2. CASE \E t \in Tabs : Send(t) \/ End(t)
      BY <1>1, <2>2, CastSteps, CareLeavesNoStray
    <2>3. CASE \E v \in Users : Expire(v)
      <3>1. Cares
        BY <2>3 DEF Expire, Cares
      <3>2. QED
        BY <3>1, CareLeavesNoStray
    <2>4. QED
      BY <2>1, <2>2, <2>3 DEF Next
  <1>2. QED
    BY <1>1, PresenceHolds, PTL DEF Spec, KeyOutlivesOnlyFailures

===============================================================================
