----------------------------- MODULE StreakProofs -----------------------------
(***************************************************************************)
(* The two loops of _recalculate_streaks compute what module RitualBook    *)
(* says, for every set of dates.  The loops are recursive functions; what  *)
(* they compute is proved by induction over the days, in the form          *)
(* SetInduction, which speaks of a set where the library's theorem speaks  *)
(* of a predicate.                                                         *)
(***************************************************************************)
EXTENDS Rituals, TLAPS, WellFoundedInduction

-------------------------------------------------------------------------------
(***************************************************************************)
(* Induction.                                                              *)
(***************************************************************************)

LEMMA SmallestOf ==
  ASSUME NEW S, S \subseteq Nat, S # {}
  PROVE  \E n \in S : \A k \in S : n <= k
  <1> DEFINE Less == OpToRel(<, Nat)
  <1>1. IsWellFoundedOn(Less, Nat)
    BY NatLessThanWellFounded
  <1> HIDE DEF Less
  <1>2. \E n \in S : \A k \in S : ~(<<k, n>> \in Less)
    BY <1>1, WFMin
  <1>3. \A k, n \in Nat : <<k, n>> \in Less <=> k < n
    BY DEF Less, OpToRel
  <1>4. \A k, n \in S : ~(<<k, n>> \in Less) => n <= k
    BY <1>3
  <1>5. QED
    BY <1>2, <1>4

LEMMA SetInduction ==
  ASSUME NEW S, 0 \in S, \A n \in Nat : n \in S => n + 1 \in S
  PROVE  Nat \subseteq S
  <1> SUFFICES ASSUME Nat \ S # {}
               PROVE  FALSE
    OBVIOUS
  <1>1. PICK n \in Nat \ S : \A k \in Nat \ S : n <= k
    BY SmallestOf
  <1>2. n # 0 /\ n - 1 \in Nat
    BY <1>1
  <1>3. n - 1 \in S
    BY <1>1, <1>2
  <1>4. QED
    BY <1>1, <1>2, <1>3

\* A set of numbers up to a bound has a largest one.
LEMMA HasLargest ==
  ASSUME NEW b \in Nat, NEW S, S \subseteq 0..b, S # {}
  PROVE  \E m \in S : \A k \in S : k <= m
  <1> DEFINE Above == {n \in Nat : \A k \in S : k <= n}
  <1>1. b \in Above
    OBVIOUS
  <1>2. PICK m \in Above : \A n \in Above : m <= n
    BY <1>1, SmallestOf
  <1>3. CASE m \in S
    BY <1>2, <1>3
  <1>4. CASE m \notin S
    <2>1. \A k \in S : k <= m - 1
      BY <1>2, <1>4
    <2>2. m - 1 \in Above
      <3>1. PICK k \in S : TRUE
        OBVIOUS
      <3>2. m \in Nat /\ k \in Nat /\ k <= m - 1
        BY <1>2, <2>1, <3>1
      <3>3. QED
        BY <2>1, <3>2
    <2>3. QED
      BY <1>2, <2>2
  <1>5. QED
    BY <1>3, <1>4

LEMMA LargestIs ==
  ASSUME NEW S, S \subseteq Int, NEW m \in S, \A k \in S : k <= m
  PROVE  Book!LargestOf(S) = m /\ LastOf(S) = m
  <1>1. \A n \in S : (\A k \in S : k <= n) => n = m
    OBVIOUS
  <1>2. QED
    BY <1>1 DEF Book!LargestOf, LastOf

-------------------------------------------------------------------------------
(***************************************************************************)
(* The days in a row up to a day.                                          *)
(***************************************************************************)
DaySet(D) == D \subseteq Nat \ {0}

Run(D, d) == Book!DaysUpTo(D, d)

LEMMA RunIs ==
  ASSUME NEW D, NEW d \in Nat
  PROVE  /\ Run(D, d) \in 0..d
         /\ (d - Run(D, d) + 1)..d \subseteq D
         /\ \A n \in 0..d : (d - n + 1)..d \subseteq D => n <= Run(D, d)
  <1> DEFINE S == {n \in 0..d : (d - n + 1)..d \subseteq D}
  <1>1. 0 \in S
    OBVIOUS
  <1>2. PICK m \in S : \A k \in S : k <= m
    BY <1>1, HasLargest
  <1>3. Book!LargestOf(S) = m
    <2>1. S \subseteq Int
      OBVIOUS
    <2> HIDE DEF S
    <2>2. QED
      BY <1>2, <2>1, LargestIs
  <1>4. Run(D, d) = m
    BY <1>3 DEF Run, Book!DaysUpTo
  <1>5. QED
    BY <1>2, <1>4

\* The only candidate that keeps and cannot grow.
LEMMA RunUnique ==
  ASSUME NEW D, NEW d \in Nat, NEW r \in 0..d,
         (d - r + 1)..d \subseteq D,
         r = d \/ d - r \notin D
  PROVE  Run(D, d) = r
  <1>1. r <= Run(D, d)
    BY RunIs
  <1>2. ASSUME r < Run(D, d)
        PROVE  FALSE
    <2>1. r # d /\ d - r \in (d - Run(D, d) + 1)..d
      BY <1>2, RunIs
    <2>2. QED
      BY <2>1, RunIs
  <1>3. QED
    BY <1>1, <1>2, RunIs

LEMMA RunStep ==
  ASSUME NEW D, DaySet(D), NEW d \in Nat
  PROVE  /\ d \notin D => Run(D, d) = 0
         /\ d \in D => Run(D, d) = Run(D, d - 1) + 1 /\ d - 1 \in Nat
  <1>1. CASE d \notin D
    BY <1>1, RunUnique
  <1>2. CASE d \in D
    <2>1. d - 1 \in Nat
      BY <1>2 DEF DaySet
    <2> DEFINE r == Run(D, d - 1)
    <2>2. /\ r \in 0..(d - 1)
          /\ (d - 1 - r + 1)..(d - 1) \subseteq D
          /\ \A n \in 0..(d - 1) : (d - 1 - n + 1)..(d - 1) \subseteq D => n <= r
      BY <2>1, RunIs
    <2> HIDE DEF r
    <2>3. (d - (r + 1) + 1)..d \subseteq D
      BY <1>2, <2>1, <2>2
    <2>4. r + 1 = d \/ d - (r + 1) \notin D
      <3> SUFFICES ASSUME r + 1 # d, d - (r + 1) \in D
                   PROVE  FALSE
        OBVIOUS
      <3>1. r + 1 \in 0..(d - 1)
        BY <2>1, <2>2
      <3>2. (d - 1 - (r + 1) + 1)..(d - 1) \subseteq D
        BY <2>1, <2>2
      <3>3. QED
        BY <2>2, <3>1, <3>2
    <2>5. r + 1 \in 0..d
      BY <2>1, <2>2
    <2>6. Run(D, d) = r + 1
      BY <2>3, <2>4, <2>5, RunUnique
    <2>7. QED
      BY <1>2, <2>1, <2>6 DEF r
  <1>3. QED
    BY <1>1, <1>2

-------------------------------------------------------------------------------
(***************************************************************************)
(* The first loop.                                                         *)
(***************************************************************************)
LEMMA DescendIsRun ==
  ASSUME NEW D, DaySet(D), NEW top \in D, \A e \in D : e <= top
  PROVE  LastOf(D) = top /\ Descend(D) = Run(D, top)
  <1>1. LastOf(D) = top /\ top \in Nat
    <2>1. D \subseteq Int /\ top \in Nat
      BY DEF DaySet
    <2>2. QED
      BY <2>1, LargestIs
  <1> DEFINE Is(f) == f = [d \in 0..top |-> IF d \in D THEN 1 + f[d - 1] ELSE 0]
             f == CHOOSE h : Is(h)
             g == [d \in 0..top |-> Run(D, d)]
  <1>2. Is(g)
    <2>1. \A d \in 0..top : Run(D, d) = IF d \in D THEN 1 + g[d - 1] ELSE 0
      <3> SUFFICES ASSUME NEW d \in 0..top
                   PROVE  Run(D, d) = IF d \in D THEN 1 + g[d - 1] ELSE 0
        OBVIOUS
      <3>1. CASE d \in D
        <4>1. Run(D, d) = Run(D, d - 1) + 1 /\ d - 1 \in Nat
          BY <1>1, <3>1, RunStep
        <4>2. d - 1 \in 0..top /\ Run(D, d - 1) \in Nat
          BY <1>1, <4>1, RunIs
        <4>3. QED
          BY <3>1, <4>1, <4>2
      <3>2. CASE d \notin D
        BY <1>1, <3>2, RunStep
      <3>3. QED
        BY <3>1, <3>2
    <2>2. QED
      BY <2>1
  <1>3. Is(f)
    BY <1>2
  <1>4. Descend(D) = f[top]
    BY <1>1 DEF Descend
  <1> HIDE DEF f, g
  <1>5. \A d \in 0..top : f[d] = IF d \in D THEN 1 + f[d - 1] ELSE 0
    BY <1>3
  <1> HIDE DEF Is
  <1> DEFINE S == {d \in Nat : d <= top => f[d] = Run(D, d)}
  <1>6. 0 \in S
    <2>1. 0 \notin D /\ 0 \in 0..top
      BY <1>1 DEF DaySet
    <2>2. f[0] = 0
      BY <1>5, <2>1
    <2>3. Run(D, 0) = 0
      BY <2>1, RunStep
    <2>4. QED
      BY <2>2, <2>3
  <1>7. ASSUME NEW n \in Nat, n \in S
        PROVE  n + 1 \in S
    <2> SUFFICES ASSUME n + 1 <= top
                 PROVE  f[n + 1] = Run(D, n + 1)
      OBVIOUS
    <2>1. n + 1 \in 0..top /\ (n + 1) - 1 = n /\ f[n] = Run(D, n)
      BY <1>1, <1>7
    <2>2. f[n + 1] = IF n + 1 \in D THEN 1 + f[n] ELSE 0
      BY <1>5, <2>1
    <2>3. /\ n + 1 \notin D => Run(D, n + 1) = 0
          /\ n + 1 \in D => Run(D, n + 1) = Run(D, n) + 1
      BY <2>1, RunStep
    <2>4. Run(D, n) \in Nat
      BY RunIs
    <2>5. QED
      BY <2>1, <2>2, <2>3, <2>4
  <1>8. Nat \subseteq S
    BY <1>6, <1>7, SetInduction
  <1>9. QED
    BY <1>1, <1>4, <1>8

LEMMA CurrentIsRun ==
  ASSUME NEW now \in Nat \ {0}, NEW D \in SUBSET (1..now)
  PROVE  Current(D, now) = Book!CurrentOf(D, now)
  <1>0. DaySet(D) /\ now - 1 \in Nat
    BY DEF DaySet
  <1>1. Book!CurrentOf(D, now) = IF now \in D THEN Run(D, now) ELSE Run(D, now - 1)
    BY DEF Book!CurrentOf, Run
  <1>2. CASE D = {}
    BY <1>0, <1>1, <1>2, RunStep DEF Current
  <1>3. CASE D # {}
    <2>1. PICK top \in D : \A e \in D : e <= top
      <3>1. D \subseteq 0..now /\ now \in Nat
        OBVIOUS
      <3>2. QED
        BY <1>3, <3>1, HasLargest
    <2>2. LastOf(D) = top /\ Descend(D) = Run(D, top)
      BY <1>0, <2>1, DescendIsRun
    <2>3. Current(D, now) = IF top \notin {now, now - 1} THEN 0 ELSE Run(D, top)
      BY <1>3, <2>2 DEF Current
    <2>4. CASE top = now
      BY <1>1, <2>1, <2>3, <2>4
    <2>5. CASE top = now - 1
      <3>1. now \notin D
        BY <1>0, <2>1, <2>5
      <3>2. QED
        BY <1>1, <2>3, <2>5, <3>1
    <2>6. CASE top \notin {now, now - 1}
      <3>1. now \notin D /\ now - 1 \notin D
        <4>1. top <= now
          BY <2>1
        <4>2. QED
          BY <1>0, <2>1, <2>6, <4>1
      <3>2. Run(D, now - 1) = 0
        BY <1>0, <3>1, RunStep
      <3>3. QED
        BY <1>1, <2>3, <2>6, <3>1, <3>2
    <2>7. QED
      BY <2>4, <2>5, <2>6
  <1>4. QED
    BY <1>2, <1>3

-------------------------------------------------------------------------------
(***************************************************************************)
(* The second loop.                                                        *)
(***************************************************************************)
Until(D, d) == D \intersect (1..d)

\* Its two variables after day d: the run that ends at the last marked day, and the
\* longest run.
RunAt(D, d) == IF Until(D, d) = {} THEN 0 ELSE Run(D, LastOf(Until(D, d)))

LongestAt(D, d) == Book!LargestOf({0} \union {Run(D, e) : e \in Until(D, d)})

LEMMA LongestIs ==
  ASSUME NEW D, NEW d \in Nat
  PROVE  /\ LongestAt(D, d) \in 0..d
         /\ \A e \in Until(D, d) : Run(D, e) <= LongestAt(D, d)
         /\ LongestAt(D, d) = 0 \/ \E e \in Until(D, d) : LongestAt(D, d) = Run(D, e)
  <1> DEFINE S == {0} \union {Run(D, e) : e \in Until(D, d)}
  <1>1. S \subseteq 0..d
    <2>1. \A e \in Until(D, d) : e \in Nat /\ e <= d /\ Run(D, e) \in 0..e
      BY RunIs DEF Until
    <2>2. QED
      BY <2>1
  <1>2. PICK m \in S : \A k \in S : k <= m
    BY <1>1, HasLargest
  <1>3. LongestAt(D, d) = m
    <2>1. S \subseteq Int
      BY <1>1
    <2> HIDE DEF S
    <2>2. Book!LargestOf(S) = m
      BY <1>2, <2>1, LargestIs
    <2>3. QED
      BY <2>2 DEF S, LongestAt
  <1>4. QED
    BY <1>1, <1>2, <1>3

LEMMA LongestUnique ==
  ASSUME NEW D, NEW d \in Nat, NEW m \in Nat,
         \A e \in Until(D, d) : Run(D, e) <= m,
         m = 0 \/ \E e \in Until(D, d) : m = Run(D, e)
  PROVE  LongestAt(D, d) = m
  <1>1. m <= LongestAt(D, d)
    BY LongestIs
  <1>2. LongestAt(D, d) <= m
    BY LongestIs
  <1>3. QED
    BY <1>1, <1>2, LongestIs

LEMMA UntilStep ==
  ASSUME NEW D, DaySet(D), NEW d \in Nat \ {0}
  PROVE  /\ d \notin D => Until(D, d) = Until(D, d - 1)
         /\ d \in D => /\ Until(D, d) = Until(D, d - 1) \union {d}
                       /\ LastOf(Until(D, d)) = d
         /\ \A e \in Until(D, d - 1) : e \in D /\ e \in Nat /\ e <= d - 1
  <1>1. d \in D => Until(D, d) = Until(D, d - 1) \union {d}
    BY DEF Until
  <1>2. ASSUME d \in D
        PROVE  LastOf(Until(D, d)) = d
    <2>1. d \in Until(D, d) /\ Until(D, d) \subseteq Int /\ \A k \in Until(D, d) : k <= d
      BY <1>2 DEF Until
    <2>2. QED
      BY <2>1, LargestIs
  <1>3. d \notin D => Until(D, d) = Until(D, d - 1)
    BY DEF Until
  <1>4. \A e \in Until(D, d - 1) : e \in D /\ e \in Nat /\ e <= d - 1
    BY DEF Until
  <1>5. QED
    BY <1>1, <1>2, <1>3, <1>4

\* One turn of the loop.
LEMMA TurnIs ==
  ASSUME NEW D, DaySet(D), NEW d \in Nat \ {0}, d \in D
  PROVE  /\ d - 1 \in D \/ (\A e \in D : d <= e) =>
              /\ RunAt(D, d) = RunAt(D, d - 1) + 1
              /\ LongestAt(D, d) = IF RunAt(D, d) > LongestAt(D, d - 1)
                                   THEN RunAt(D, d) ELSE LongestAt(D, d - 1)
         /\ ~(d - 1 \in D \/ \A e \in D : d <= e) =>
              RunAt(D, d) = 1 /\ LongestAt(D, d) = LongestAt(D, d - 1)
  <1> DEFINE l == LongestAt(D, d - 1)
  <1>0. d - 1 \in Nat
    OBVIOUS
  <1>1. RunAt(D, d) = Run(D, d) /\ Until(D, d) # {}
    BY UntilStep DEF RunAt
  <1>2. Run(D, d) = Run(D, d - 1) + 1
    BY RunStep
  <1>3. l \in Nat /\ Run(D, d) \in Nat /\ Run(D, d - 1) \in Nat
    BY <1>0, LongestIs, RunIs
  <1>4. LongestAt(D, d) = IF Run(D, d) > l THEN Run(D, d) ELSE l
    <2> DEFINE m == IF Run(D, d) > l THEN Run(D, d) ELSE l
    <2>1. m \in Nat /\ Run(D, d) <= m /\ l <= m /\ (m = Run(D, d) \/ m = l)
      BY <1>3
    <2> HIDE DEF m
    <2>2. \A e \in Until(D, d - 1) : Run(D, e) <= l /\ Run(D, e) \in Nat
      BY <1>0, LongestIs, UntilStep, RunIs
    <2>3. \A e \in Until(D, d) : Run(D, e) <= m
      BY <1>3, <2>1, <2>2, UntilStep
    <2>4. m = 0 \/ \E e \in Until(D, d) : m = Run(D, e)
      <3>1. CASE m = Run(D, d)
        BY <3>1, UntilStep
      <3>2. CASE m = l
        <4>1. l = 0 \/ \E e \in Until(D, d - 1) : l = Run(D, e)
          BY <1>0, LongestIs
        <4>2. QED
          BY <3>2, <4>1, UntilStep
      <3>3. QED
        BY <2>1, <3>1, <3>2
    <2>5. LongestAt(D, d) = m
      BY <2>1, <2>3, <2>4, LongestUnique
    <2>6. QED
      BY <2>5 DEF m
  <1>5. CASE d - 1 \in D
    <2>1. Until(D, d - 1) # {} /\ LastOf(Until(D, d - 1)) = d - 1
      <3>1. d - 1 \in Nat \ {0}
        BY <1>5 DEF DaySet
      <3>2. QED
        BY <1>5, <3>1, UntilStep
    <2>2. RunAt(D, d - 1) = Run(D, d - 1)
      BY <2>1 DEF RunAt
    <2>3. QED
      BY <1>1, <1>2, <1>4, <1>5, <2>2
  <1>6. CASE d - 1 \notin D
    <2>1. Run(D, d - 1) = 0
      BY <1>0, <1>6, RunStep
    <2>2. CASE \A e \in D : d <= e
      <3>1. Until(D, d - 1) = {}
        BY <2>2, UntilStep
      <3>2. RunAt(D, d - 1) = 0
        BY <3>1 DEF RunAt
      <3>3. QED
        BY <1>1, <1>2, <1>4, <2>1, <2>2, <3>2
    <2>3. CASE ~ \A e \in D : d <= e
      <3>1. PICK e \in D : ~(d <= e)
        BY <2>3
      <3>2. e \in Until(D, d - 1) /\ e \in Nat
        BY <3>1 DEF Until, DaySet
      <3>3. Run(D, e) >= 1
        <4>1. Run(D, e) = Run(D, e - 1) + 1 /\ e - 1 \in Nat
          BY <3>1, <3>2, RunStep
        <4>2. Run(D, e - 1) \in Nat
          BY <4>1, RunIs
        <4>3. QED
          BY <4>1, <4>2
      <3>4. Run(D, e) <= l /\ Run(D, e) \in Nat
        BY <1>0, <3>2, LongestIs, RunIs
      <3>5. l >= 1
        BY <1>3, <3>3, <3>4
      <3>6. QED
        BY <1>1, <1>2, <1>3, <1>4, <1>6, <2>1, <2>3, <3>5
    <2>4. QED
      BY <2>2, <2>3
  <1>7. QED
    BY <1>5, <1>6

LEMMA AscendIsLongest ==
  ASSUME NEW b \in Nat, NEW D \in SUBSET (1..b)
  PROVE  Ascend(D) = Book!LongestOf(D)
  <1>0. DaySet(D)
    BY DEF DaySet
  <1> DEFINE top == IF D = {} THEN 0 ELSE LastOf(D)
  <1>1. top \in Nat /\ Until(D, top) = D
    <2>1. CASE D = {}
      BY <2>1 DEF Until
    <2>2. CASE D # {}
      <3>1. PICK m \in D : \A e \in D : e <= m
        <4>1. D \subseteq 0..b
          OBVIOUS
        <4>2. QED
          BY <2>2, <4>1, HasLargest
      <3>2. top = m
        <4>1. D \subseteq Int
          OBVIOUS
        <4>2. QED
          BY <2>2, <3>1, <4>1, LargestIs
      <3>3. m \in Nat /\ \A e \in D : e \in 1..m
        BY <3>1
      <3>4. Until(D, m) = D
        BY <3>3 DEF Until
      <3> HIDE DEF top
      <3>5. QED
        BY <3>2, <3>3, <3>4
    <2>3. QED
      BY <2>1, <2>2
  <1> DEFINE First(d) == \A e \in D : d <= e
             Turn(f, d) ==
               IF d = 0 THEN [run |-> 0, longest |-> 0]
               ELSE IF d \notin D THEN f[d - 1]
               ELSE IF d - 1 \in D \/ First(d)
                    THEN LET run == f[d - 1].run + 1
                         IN  [run |-> run,
                              longest |-> IF run > f[d - 1].longest THEN run
                                          ELSE f[d - 1].longest]
               ELSE [run |-> 1, longest |-> f[d - 1].longest]
             Is(f) == f = [d \in 0..top |-> Turn(f, d)]
             f == CHOOSE h : Is(h)
             At(d) == [run |-> RunAt(D, d), longest |-> LongestAt(D, d)]
             g == [d \in 0..top |-> At(d)]
  <1>2. Ascend(D) = f[top].longest
    BY Zenon DEF Ascend
  <1> HIDE DEF top
  <1>3. ASSUME NEW d \in 0..top, NEW h, d # 0 => h[d - 1] = At(d - 1)
        PROVE  Turn(h, d) = At(d)
    <2>1. CASE d = 0
      <3>1. Until(D, 0) = {}
        BY DEF Until
      <3>2. RunAt(D, 0) = 0 /\ LongestAt(D, 0) = 0
        BY <3>1, LongestIs DEF RunAt
      <3>3. QED
        BY <2>1, <3>2
    <2>2. CASE d # 0 /\ d \notin D
      <3>1. d \in Nat \ {0}
        BY <1>1, <2>2
      <3>2. Until(D, d) = Until(D, d - 1)
        BY <1>0, <2>2, <3>1, UntilStep
      <3>3. At(d) = At(d - 1)
        BY <3>2 DEF RunAt, LongestAt
      <3>4. QED
        BY <1>3, <2>2, <3>3
    <2>3. CASE d # 0 /\ d \in D
      <3>1. d \in Nat \ {0}
        BY <1>1, <2>3
      <3>2. h[d - 1].run = RunAt(D, d - 1) /\ h[d - 1].longest = LongestAt(D, d - 1)
        BY <1>3, <2>3
      <3>3. CASE d - 1 \in D \/ First(d)
        <4>1. /\ RunAt(D, d) = RunAt(D, d - 1) + 1
              /\ LongestAt(D, d) = IF RunAt(D, d) > LongestAt(D, d - 1)
                                   THEN RunAt(D, d) ELSE LongestAt(D, d - 1)
          BY <1>0, <2>3, <3>1, <3>3, TurnIs
        <4>2. QED
          BY <2>3, <3>2, <3>3, <4>1
      <3>4. CASE ~(d - 1 \in D \/ First(d))
        <4>1. RunAt(D, d) = 1 /\ LongestAt(D, d) = LongestAt(D, d - 1)
          BY <1>0, <2>3, <3>1, <3>4, TurnIs
        <4>2. QED
          BY <2>3, <3>2, <3>4, <4>1
      <3>5. QED
        BY <3>3, <3>4
    <2>4. QED
      BY <2>1, <2>2, <2>3
  <1> HIDE DEF Turn, At
  <1>4. Is(g)
    <2>1. \A d \in 0..top : At(d) = Turn(g, d)
      <3> SUFFICES ASSUME NEW d \in 0..top
                   PROVE  At(d) = Turn(g, d)
        OBVIOUS
      <3>1. d # 0 => d - 1 \in 0..top
        BY <1>1
      <3>2. QED
        BY <1>3, <3>1
    <2>2. QED
      BY <2>1
  <1>5. Is(f)
    BY <1>4
  <1> HIDE DEF f, g
  <1>6. \A d \in 0..top : f[d] = Turn(f, d)
    BY <1>5
  <1> HIDE DEF Is
  <1> DEFINE S == {d \in Nat : d <= top => f[d] = At(d)}
  <1>7. 0 \in S
    <2>1. 0 \in 0..top
      BY <1>1
    <2>2. QED
      BY <1>3, <1>6, <2>1
  <1>8. ASSUME NEW n \in Nat, n \in S
        PROVE  n + 1 \in S
    <2> SUFFICES ASSUME n + 1 <= top
                 PROVE  f[n + 1] = At(n + 1)
      OBVIOUS
    <2>1. n + 1 \in 0..top /\ (n + 1) - 1 = n /\ f[n] = At(n)
      BY <1>1, <1>8
    <2>2. f[n + 1] = Turn(f, n + 1)
      BY <1>6, <2>1
    <2>3. QED
      BY <1>3, <2>1, <2>2
  <1>9. Nat \subseteq S
    BY <1>7, <1>8, SetInduction
  <1>10. f[top].longest = LongestAt(D, top)
    <2>1. f[top] = At(top)
      BY <1>1, <1>9
    <2>2. QED
      BY <2>1 DEF At
  <1>11. LongestAt(D, top) = Book!LongestOf(D)
    BY <1>1 DEF LongestAt, Book!LongestOf, Run
  <1>12. QED
    BY <1>2, <1>10, <1>11

-------------------------------------------------------------------------------
(***************************************************************************)
(* The theorem.                                                            *)
(***************************************************************************)

LEMMA TodayIsADay == Spec => [](today \in Days)
  <1>1. Init => today \in Days
    BY Bounds DEF Init, Days
  <1>2. today \in Days /\ [Next]_vars => (today \in Days)'
    <2>1. [Next]_vars => today' = today \/ NextDay
      BY Zenon DEF Next, vars, LoadCreate, LoadDelete, LoadUpdate, LoadRecord, Start,
                   CommitCreate, CommitUpdate, CommitDelete, Look, Count, Check, CommitRecord,
                   Refuse, Abort
    <2>2. today \in Days /\ NextDay => today' \in Days
      BY Bounds DEF NextDay, Days
    <2>3. QED
      BY <2>1, <2>2 DEF Days
  <1>3. QED
    BY <1>1, <1>2, PTL DEF Spec

\* The loops of _recalculate_streaks find the days in a row up to today or yesterday and
\* the most in a row, for every set of completed dates and every day, however far.
THEOREM StreaksAreAlwaysRuns == Spec => []StreaksAreRuns
  <1>1. today \in Days => StreaksAreRuns
    <2> SUFFICES ASSUME today \in Days, NEW now \in today..Horizon, NEW D \in SUBSET (1..now)
                 PROVE  /\ Current(D, now) = Book!CurrentOf(D, now)
                        /\ Ascend(D) = Book!LongestOf(D)
      BY DEF StreaksAreRuns
    <2>1. now \in Nat \ {0}
      BY Bounds DEF Days
    <2>2. QED
      BY <2>1, CurrentIsRun, AscendIsLongest
  <1>2. QED
    BY <1>1, TodayIsADay, PTL

===============================================================================
