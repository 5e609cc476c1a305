---------------------------- MODULE ModelProofs ----------------------------
(* Theorems about what the models learn from, and about the models that are    *)
(* served and evaluated.                                                       *)
EXTENDS TrainingData, ModelRegistry, FiniteSetTheorems, SequenceTheorems, WellFoundedInduction, TLAPS

-----------------------------------------------------------------------------
(* Least and greatest numbers, definitions by steps, finite sets in order *)

LEMMA LeastIsThere ==
  ASSUME NEW S, S \subseteq Nat, S # {}
  PROVE  \E x \in S : \A y \in S : x <= y
<1>1. PICK x \in S : \A y \in S : ~ (<<y, x>> \in OpToRel(<, Nat))
  BY NatLessThanWellFounded, WFMin, Zenon
<1>2. ASSUME NEW y \in S  PROVE x <= y
  <2>1. ~(y < x)
    BY <1>1, Zenon DEF OpToRel
  <2> QED  BY <2>1
<1> QED  BY <1>2

\* A set of numbers that holds 0 and with each number the next one holds all of them.
LEMMA NumbersAreReached ==
  ASSUME NEW S, 0 \in S, \A n \in Nat : n \in S => n + 1 \in S
  PROVE  Nat \subseteq S
<1> SUFFICES ASSUME Nat \ S # {}  PROVE FALSE
  OBVIOUS
<1>1. PICK m \in Nat \ S : \A y \in Nat \ S : m <= y
  BY LeastIsThere
<1>2. m # 0 /\ m - 1 \in Nat /\ m - 1 \notin Nat \ S
  BY <1>1
<1> QED  BY <1>1, <1>2

\* A function that is defined step by step from a first value.
Steps(f, a, h, n) == f[0] = a /\ \A k \in 1 .. n : f[k] = h[<<k, f[k - 1]>>]

LEMMA StepsAreDefined ==
  ASSUME NEW A, NEW a \in A, NEW h \in [Nat \X A -> A]
  PROVE  \A n \in Nat : \E f \in [0 .. n -> A] : Steps(f, a, h, n)
<1> DEFINE S == {n \in Nat : \E f \in [0 .. n -> A] : Steps(f, a, h, n)}
<1>1. 0 \in S
  <2>1. Steps([k \in 0 .. 0 |-> a], a, h, 0)
    BY DEF Steps
  <2> QED  BY <2>1
<1>2. ASSUME NEW n \in Nat, n \in S  PROVE n + 1 \in S
  <2>1. PICK f \in [0 .. n -> A] : f[0] = a /\ \A k \in 1 .. n : f[k] = h[<<k, f[k - 1]>>]
    BY <1>2 DEF Steps
  <2> DEFINE g == [k \in 0 .. n + 1 |-> IF k = n + 1 THEN h[<<n + 1, f[n]>>] ELSE f[k]]
  <2>2. f[n] \in A /\ h[<<n + 1, f[n]>>] \in A
    BY <2>1
  <2>3. g \in [0 .. n + 1 -> A]
    BY <2>2
  <2>4. g[0] = a
    BY <2>1
  <2>5. ASSUME NEW k \in 1 .. n + 1  PROVE g[k] = h[<<k, g[k - 1]>>]
    <3>1. CASE k = n + 1
      <4>1. g[k - 1] = f[n]
        BY <3>1
      <4>2. g[k] = h[<<n + 1, f[n]>>]
        BY <3>1
      <4> HIDE DEF g
      <4> QED  BY <3>1, <4>1, <4>2
    <3>2. CASE k # n + 1
      <4>1. k \in 1 .. n /\ g[k] = f[k] /\ g[k - 1] = f[k - 1]
        BY <3>2
      <4> QED  BY <4>1, <2>1
    <3> QED  BY <3>1, <3>2
  <2> HIDE DEF g
  <2>6. Steps(g, a, h, n + 1)
    BY <2>4, <2>5 DEF Steps
  <2> QED  BY <2>3, <2>6
<1>3. Nat \subseteq S
  <2> HIDE DEF S
  <2> QED  BY <1>1, <1>2, NumbersAreReached
<1> QED  BY <1>3

\* What holds at first and is kept by each step holds after every step.
LEMMA StepsStay ==
  ASSUME NEW n \in Nat, NEW A, NEW f, f[0] \in A,
         \A k \in 1 .. n : f[k - 1] \in A => f[k] \in A
  PROVE  \A k \in 0 .. n : f[k] \in A
<1> SUFFICES ASSUME {k \in 0 .. n : f[k] \notin A} # {}  PROVE FALSE
  OBVIOUS
<1> DEFINE S == {k \in 0 .. n : f[k] \notin A}
<1>0. S \subseteq Nat /\ S # {}
  OBVIOUS
<1>1. PICK m \in S : \A y \in S : m <= y
  <2> HIDE DEF S
  <2> QED  BY <1>0, LeastIsThere
<1>2. m # 0 /\ m - 1 \in 0 .. n /\ m \in 1 .. n
  BY <1>1
<1>3. f[m - 1] \in A
  BY <1>1, <1>2
<1> QED  BY <1>1, <1>2, <1>3

LEMMA LargestIsThere ==
  ASSUME NEW S, S \subseteq Int, IsFiniteSet(S), S # {}
  PROVE  Max(S) \in S /\ \A y \in S : y <= Max(S)
<1> DEFINE above == [x \in S |-> Cardinality({y \in S : y > x})]
<1>1. ASSUME NEW x \in S  PROVE IsFiniteSet({y \in S : y > x}) /\ above[x] \in Nat
  BY FS_Subset, FS_CardinalityType
<1>2. PICK n \in {above[x] : x \in S} : \A m \in {above[x] : x \in S} : n <= m
  <2> QED  BY <1>1, LeastIsThere
<1>3. PICK x \in S : above[x] = n
  BY <1>2
<1>4. ASSUME NEW y \in S, y > x  PROVE FALSE
  <2>1. {z \in S : z > y} \subseteq {z \in S : z > x} /\ y \notin {z \in S : z > y} /\ y \in {z \in S : z > x}
    <3>1. x \in Int /\ y \in Int
      OBVIOUS
    <3>2. \A z \in S : z \in Int
      OBVIOUS
    <3>3. ASSUME NEW z \in S, z > y  PROVE z > x
      BY <3>1, <3>2, <3>3, <1>4
    <3>4. ~(y > y)
      BY <3>1
    <3> QED  BY <3>3, <3>4, <1>4
  <2>2. above[y] < above[x]
    <3>1. /\ Cardinality({z \in S : z > y}) <= Cardinality({z \in S : z > x})
          /\ Cardinality({z \in S : z > y}) = Cardinality({z \in S : z > x}) => {z \in S : z > y} = {z \in S : z > x}
      BY <2>1, <1>1, FS_Subset
    <3> QED  BY <2>1, <3>1, <1>1
  <2>3. above[x] <= above[y]
    BY <1>2, <1>3
  <2>4. above[x] \in Nat /\ above[y] \in Nat
    BY <1>1
  <2> HIDE DEF above
  <2> QED  BY <2>2, <2>3, <2>4
<1>5. \A y \in S : y <= x
  BY <1>4
<1> QED  BY <1>5 DEF Max

LEMMA ImageIsFinite ==
  ASSUME NEW S, IsFiniteSet(S), NEW f
  PROVE  /\ IsFiniteSet({f[x] : x \in S})
         /\ Cardinality({f[x] : x \in S}) <= Cardinality(S)
<1> DEFINE T == {f[x] : x \in S}
           g == [x \in S |-> f[x]]
<1>1. g \in Surjection(S, T)
  BY DEF Surjection
<1> HIDE DEF T, g
<1>2. IsFiniteSet(T) /\ Cardinality(T) <= Cardinality(S)
  BY <1>1, FS_Surjection
<1> QED  BY <1>2 DEF T

LEMMA SmallestIsThere ==
  ASSUME NEW S, S \subseteq Int, IsFiniteSet(S), S # {}
  PROVE  Min(S) \in S /\ \A y \in S : Min(S) <= y
<1> DEFINE f == [y \in S |-> 0 - y]
           T == {f[y] : y \in S}
<1>1. f \in [S -> Int]
  OBVIOUS
<1>2. \A y \in S : f[y] = 0 - y
  OBVIOUS
<1> HIDE DEF f
<1>3. T \subseteq Int /\ T # {}
  BY <1>1
<1>4. IsFiniteSet(T)
  BY ImageIsFinite
<1>5. Max(T) \in T /\ \A y \in T : y <= Max(T)
  <2> HIDE DEF T
  <2> QED  BY <1>3, <1>4, LargestIsThere
<1>6. PICK x \in S : Max(T) = f[x]
  BY <1>5
<1>7. ASSUME NEW y \in S  PROVE x <= y
  <2>1. f[y] \in T
    OBVIOUS
  <2>2. f[y] <= f[x]
    <3> HIDE DEF T
    <3> QED  BY <2>1, <1>5, <1>6
  <2>3. x \in Int /\ y \in Int
    OBVIOUS
  <2> QED  BY <2>2, <2>3, <1>2
<1> QED  BY <1>7 DEF Min

\* A relation that puts the members of a set in one line.
Lines(R, S) ==
    /\ \A x \in S : <<x, x>> \notin R
    /\ \A x, y \in S : x # y => <<x, y>> \in R \/ <<y, x>> \in R
    /\ \A x, y, z \in S : <<x, y>> \in R /\ <<y, z>> \in R => <<x, z>> \in R

\* InOrder names every member once, and in the order of the relation.
LEMMA InOrderIs ==
  ASSUME NEW S, IsFiniteSet(S), NEW R, Lines(R, S)
  PROVE  /\ Cardinality(S) \in Nat
         /\ InOrder(S, R) \in [1 .. Cardinality(S) -> S]
         /\ InOrder(S, R) \in Seq(S)
         /\ Len(InOrder(S, R)) = Cardinality(S)
         /\ \A x \in S : \E i \in 1 .. Cardinality(S) : InOrder(S, R)[i] = x
         /\ \A i, j \in 1 .. Cardinality(S) : i < j <=> <<InOrder(S, R)[i], InOrder(S, R)[j]>> \in R
         /\ \A i, j \in 1 .. Cardinality(S) : InOrder(S, R)[i] = InOrder(S, R)[j] => i = j
<1> DEFINE N == Cardinality(S)
           Before(x) == {y \in S : <<y, x>> \in R}
           place == [x \in S |-> Cardinality(Before(x)) + 1]
<1>1. N \in Nat
  BY FS_CardinalityType
<1>2. ASSUME NEW x \in S  PROVE IsFiniteSet(Before(x)) /\ Cardinality(Before(x)) \in Nat
  BY FS_Subset, FS_CardinalityType
<1>3. ASSUME NEW x \in S  PROVE Cardinality(Before(x)) < N
  <2>1. Before(x) \subseteq S /\ x \notin Before(x)
    BY DEF Lines
  <2>2. Cardinality(Before(x)) <= N /\ (Cardinality(Before(x)) = N => Before(x) = S)
    BY <2>1, FS_Subset
  <2> QED  BY <2>1, <2>2, <1>1, <1>2
<1>4. ASSUME NEW x \in S, NEW y \in S, <<x, y>> \in R  PROVE place[x] < place[y]
  <2>1. Before(x) \subseteq Before(y) /\ x \notin Before(x) /\ x \in Before(y)
    BY <1>4 DEF Lines
  <2>2. /\ Cardinality(Before(x)) <= Cardinality(Before(y))
        /\ Cardinality(Before(x)) = Cardinality(Before(y)) => Before(x) = Before(y)
    BY <2>1, <1>2, FS_Subset
  <2>3. Cardinality(Before(x)) < Cardinality(Before(y))
    <3> HIDE DEF Before
    <3> QED  BY <2>1, <2>2, <1>2
  <2> QED  BY <2>3, <1>2
<1>5. place \in [S -> 1 .. N]
  BY <1>1, <1>2, <1>3
<1>6. ASSUME NEW x \in S, NEW y \in S, place[x] = place[y]  PROVE x = y
  <2>1. place[x] \in Int /\ place[y] \in Int
    BY <1>5
  <2>2. ~(place[x] < place[y]) /\ ~(place[y] < place[x])
    BY <1>6, <2>1
  <2> HIDE DEF place
  <2> QED  BY <2>2, <1>4 DEF Lines
<1>7. ASSUME NEW n \in 1 .. N  PROVE \E x \in S : place[x] = n
  <2>1. place \in Injection(S, 1 .. N)
    BY <1>5, <1>6 DEF Injection, IsInjective
  <2>2. IsFiniteSet(1 .. N) /\ Cardinality(1 .. N) = N
    BY <1>1, FS_Interval
  <2>3. place \in Surjection(S, 1 .. N)
    <3> HIDE DEF place
    <3> QED  BY <2>1, <2>2, FS_Injection
  <2> QED  BY <2>3 DEF Surjection
<1> DEFINE s == InOrder(S, R)
<1>8. s = [n \in 1 .. N |-> CHOOSE x \in S : Cardinality(Before(x)) + 1 = n]
  BY DEF InOrder
<1> HIDE DEF s, N
<1>9. ASSUME NEW n \in 1 .. N  PROVE s[n] \in S /\ place[s[n]] = n
  <2>1. \E x \in S : Cardinality(Before(x)) + 1 = n
    BY <1>7
  <2>2. s[n] \in S /\ Cardinality(Before(s[n])) + 1 = n
    <3> HIDE DEF Before, place
    <3> QED  BY <2>1, <1>8
  <2> QED  BY <2>2
<1> HIDE DEF place
<1>10. s \in [1 .. N -> S]
  BY <1>8, <1>9
<1>11. s \in Seq(S) /\ Len(s) = N
  BY <1>1, <1>10
<1>12. ASSUME NEW x \in S  PROVE \E i \in 1 .. N : s[i] = x
  <2>1. place[x] \in 1 .. N
    BY <1>5
  <2> QED  BY <2>1, <1>9, <1>6
<1>13. ASSUME NEW i \in 1 .. N, NEW j \in 1 .. N  PROVE i < j <=> <<s[i], s[j]>> \in R
  <2>1. place[s[i]] = i /\ place[s[j]] = j /\ s[i] \in S /\ s[j] \in S
    BY <1>9
  <2>2. CASE i < j
    <3>1. s[i] # s[j] /\ <<s[j], s[i]>> \notin R
      BY <2>1, <2>2, <1>4, <1>1
    <3> QED  BY <3>1, <2>1, <2>2 DEF Lines
  <2>3. CASE <<s[i], s[j]>> \in R
    BY <2>1, <2>3, <1>4
  <2> QED  BY <2>2, <2>3
<1>14. ASSUME NEW i \in 1 .. N, NEW j \in 1 .. N, s[i] = s[j]  PROVE i = j
  BY <1>9, <1>14
<1> QED  BY <1>1, <1>10, <1>11, <1>12, <1>13, <1>14 DEF s, N

-----------------------------------------------------------------------------
(* Sums over a finite set *)

\* Added up, the sizes of parts that share nothing are the size of the whole.
LEMMA TotalOfParts ==
  ASSUME NEW S, IsFiniteSet(S), NEW f, NEW P,
         \A x \in S : IsFiniteSet(P[x]) /\ f[x] = Cardinality(P[x]),
         \A x, y \in S : x # y => P[x] \cap P[y] = {}
  PROVE  /\ IsFiniteSet(UNION {P[x] : x \in S})
         /\ Total(f, S) = Cardinality(UNION {P[x] : x \in S})
<1> DEFINE Units(s) == UNION {P[x] : x \in s}
           It(s) == CHOOSE x \in s : TRUE
           Defines(g) == g = [s \in SUBSET S |-> IF s = {} THEN 0 ELSE f[It(s)] + g[s \ {It(s)}]]
           iter == CHOOSE g : Defines(g)
<1>1. Total(f, S) = iter[S]
  BY DEF Total, MapThenSumSet, MapThenFoldSet
<1>2. ASSUME NEW s \in SUBSET S  PROVE IsFiniteSet(s)
  BY FS_Subset
<1>3. IsFiniteSet(Units(S))
  <2>1. IsFiniteSet({P[x] : x \in S})
    BY ImageIsFinite
  <2>2. \A T \in {P[x] : x \in S} : IsFiniteSet(T)
    OBVIOUS
  <2> QED  BY <2>1, <2>2, FS_UNION
<1>4. ASSUME NEW s \in SUBSET S  PROVE IsFiniteSet(Units(s)) /\ Cardinality(Units(s)) \in Nat
  <2>1. Units(s) \subseteq Units(S)
    OBVIOUS
  <2> HIDE DEF Units
  <2> QED  BY <2>1, <1>3, FS_Subset, FS_CardinalityType
<1>5. ASSUME NEW s \in SUBSET S, NEW x \in s
      PROVE  Cardinality(Units(s)) = f[x] + Cardinality(Units(s \ {x}))
  <2> DEFINE A == P[x]
             B == Units(s \ {x})
  <2>1. Units(s) = A \cup B /\ A \cap B = {}
    <3>1. Units(s) = A \cup B
      OBVIOUS
    <3>2. A \cap B = {}
      OBVIOUS
    <3> QED  BY <3>1, <3>2
  <2>2. IsFiniteSet(A) /\ Cardinality(A) = f[x]
    OBVIOUS
  <2>3. f[x] \in Nat
    BY <2>2, FS_CardinalityType
  <2>4. IsFiniteSet(B) /\ Cardinality(B) \in Nat
    BY <1>4
  <2> HIDE DEF A, B, Units
  <2>5. Cardinality(A \cup B) = Cardinality(A) + Cardinality(B) - Cardinality(A \cap B)
    BY <2>2, <2>4, FS_Union
  <2>6. Cardinality(A \cap B) = 0
    BY <2>1, FS_EmptySet
  <2>7. Cardinality(Units(s)) = f[x] + Cardinality(B)
    BY <2>1, <2>2, <2>3, <2>4, <2>5, <2>6
  <2> QED  BY <2>7 DEF B
<1>6. Cardinality(Units({})) = 0
  <2>1. Units({}) = {}
    OBVIOUS
  <2> QED  BY <2>1, FS_EmptySet
<1>7. ASSUME NEW s \in SUBSET S, s # {}  PROVE It(s) \in s /\ s \ {It(s)} \in SUBSET S
  BY <1>7
<1> HIDE DEF Units
<1>8. Defines(iter)
  <2> DEFINE g == [s \in SUBSET S |-> Cardinality(Units(s))]
  <2>1. ASSUME NEW s \in SUBSET S
        PROVE  g[s] = IF s = {} THEN 0 ELSE f[It(s)] + g[s \ {It(s)}]
    <3>1. CASE s = {}
      BY <3>1, <1>6
    <3>2. CASE s # {}
      <4>1. It(s) \in s /\ s \ {It(s)} \in SUBSET S
        BY <3>2, <1>7
      <4>2. Cardinality(Units(s)) = f[It(s)] + Cardinality(Units(s \ {It(s)}))
        <5> HIDE DEF It
        <5> QED  BY <4>1, <1>5
      <4> QED  BY <3>2, <4>1, <4>2
    <3> QED  BY <3>1, <3>2
  <2>2. Defines(g)
    <3>1. g = [s \in SUBSET S |-> g[s]]
      OBVIOUS
    <3> HIDE DEF g, It
    <3> QED  BY <3>1, <2>1
  <2> HIDE DEF g, Defines
  <2> QED  BY <2>2
<1> HIDE DEF iter
<1>9. ASSUME NEW s \in SUBSET S
      PROVE  iter[s] = IF s = {} THEN 0 ELSE f[It(s)] + iter[s \ {It(s)}]
  <2> HIDE DEF It
  <2> QED  BY <1>8
<1> HIDE DEF It, Defines
<1> DEFINE Adds(n) == \A s \in SUBSET S : Cardinality(s) = n => iter[s] = Cardinality(Units(s))
           Q == {n \in Nat : Adds(n)}
<1>10. 0 \in Q
  <2>1. ASSUME NEW s \in SUBSET S, Cardinality(s) = 0  PROVE iter[s] = Cardinality(Units(s))
    <3>1. s = {}
      BY <2>1, <1>2, FS_EmptySet
    <3> QED  BY <3>1, <1>6, <1>9
  <2> QED  BY <2>1
<1>11. ASSUME NEW n \in Nat, n \in Q  PROVE n + 1 \in Q
  <2>1. ASSUME NEW s \in SUBSET S, Cardinality(s) = n + 1  PROVE iter[s] = Cardinality(Units(s))
    <3>1. s # {}
      BY <2>1, FS_EmptySet
    <3>2. It(s) \in s /\ s \ {It(s)} \in SUBSET S
      BY <3>1, <1>7
    <3>3. Cardinality(s \ {It(s)}) = n
      <4>1. IsFiniteSet(s)
        BY <1>2
      <4>2. Cardinality(s \ {It(s)}) = Cardinality(s) - 1
        BY <3>2, <4>1, FS_RemoveElement
      <4> QED  BY <4>2, <2>1
    <3>4. iter[s \ {It(s)}] = Cardinality(Units(s \ {It(s)}))
      BY <3>2, <3>3, <1>11
    <3> QED  BY <3>1, <3>2, <3>4, <1>5, <1>9
  <2> QED  BY <2>1
<1>12. Cardinality(S) \in Q
  <2>1. Nat \subseteq Q
    <3> HIDE DEF Q
    <3> QED  BY <1>10, <1>11, NumbersAreReached
  <2> QED  BY <2>1, FS_CardinalityType
<1>13. iter[S] = Cardinality(Units(S))
  BY <1>12
<1> QED  BY <1>1, <1>3, <1>13 DEF Units, iter, It, Defines

-----------------------------------------------------------------------------
(* What a day of the history keeps to: the inductive invariant *)

Event == [start : Int, phase : {"pre", "live", "over", "off"}, began : Int \cup {None}, winners : SUBSET Sides]
SeenEvent == [start : Int, status : EventStatus, cutoff : Int, rest : Int \cup {None}]

\* A match of tennis that has begun did so at its hour or later, and its hour is not moved any more.
WorldInv ==
    /\ sport \in DOMAIN Past /\ clock \in 0 .. MaxClock
    /\ world \in [Live -> Event]
    /\ \A e \in Live : sport = "TENNIS" /\ Present(world[e].began) =>
            world[e].phase # "pre" /\ world[e].start <= world[e].began

RowsInv ==
    /\ snapshots \in Seq(SnapshotRow) /\ features \in Seq(FeatureRow) /\ results \in Seq(ResultRow)
    /\ RowsRefer(snapshots, features)

\* What a run has seen, or saved, of a match of this day is not later than the match is.
SeenInv ==
    /\ DOMAIN seen \subseteq Live
    /\ seen = [e \in DOMAIN seen |-> seen[e]]
    /\ \A e \in DOMAIN seen :
        /\ seen[e] \in SeenEvent /\ seen[e].cutoff <= clock
        /\ sport = "TENNIS" => seen[e].start <= world[e].start
        /\ Present(seen[e].rest) => seen[e].rest > 0

ListedInv ==
    sport = "TENNIS" => \A i \in DOMAIN snapshots :
        snapshots[i].event \in Live => snapshots[i].start \in Int /\ snapshots[i].start <= world[snapshots[i].event].start

\* A result that names a winner is the result of an event that is over.
Happened(e, result) == result \in VALID_RESULTS => world[e].phase = "over" /\ Sole(world[e].winners) = result

ResultsInv ==
    /\ \A i \in DOMAIN results : results[i].event \in Live => Happened(results[i].event, results[i].result)
    /\ sync \in [Syncs -> {None} \cup [event : Live, result : VALID_RESULTS \cup {"POSTPONED"}]]
    /\ \A p \in Syncs : Present(sync[p]) => Happened(sync[p].event, sync[p].result)

\* The synchronisations that are about to record a result of an event count as results.
Pending(e) == {p \in Syncs : Present(sync[p]) /\ sync[p].event = e}
CountInv == \A e \in Live : Cardinality(GetResults(e)) + Cardinality(Pending(e)) <= Cardinality(Syncs)

Apart(b) == b.train \cap b.validation = {} /\ b.validation \cap b.test = {} /\ b.train \cap b.test = {}
ModelsInv ==
    /\ Present(base) => Apart(base)
    /\ Present(calibrated) => Present(base) /\ calibrated \subseteq base.validation

DayInv == WorldInv /\ RowsInv /\ SeenInv /\ ListedInv /\ RestPositive /\ ResultsInv /\ CountInv

LEMMA ResultsAreFinite ==
  ASSUME results \in Seq(ResultRow), NEW e
  PROVE  IsFiniteSet(GetResults(e)) /\ Cardinality(GetResults(e)) \in Nat /\ GetResults(e) \subseteq 1 .. Len(results)
<1>1. DOMAIN results = 1 .. Len(results) /\ Len(results) \in Nat
  OBVIOUS
<1>2. IsFiniteSet(1 .. Len(results))
  BY <1>1, FS_Interval
<1>3. GetResults(e) \subseteq 1 .. Len(results)
  BY <1>1 DEF GetResults
<1> QED  BY <1>2, <1>3, FS_Subset, FS_CardinalityType

LEMMA PendingIsFinite ==
  ASSUME NEW e
  PROVE  IsFiniteSet(Pending(e)) /\ Cardinality(Pending(e)) \in Nat /\ Cardinality(Pending(e)) <= Cardinality(Syncs)
<1>1. Pending(e) \subseteq Syncs
  BY DEF Pending
<1> QED  BY <1>1, TrainingAssumption, FS_Subset, FS_CardinalityType

LEMMA DayStarts == Init => DayInv
<1> SUFFICES ASSUME Init  PROVE DayInv
  OBVIOUS
<1> USE DEF Init
<1>1. sport \in DOMAIN Past /\ sport \in Sports
  BY PastAssumption
<1>2. /\ snapshots \in Seq(SnapshotRow) /\ features \in Seq(FeatureRow) /\ results \in Seq(ResultRow)
      /\ RowsRefer(snapshots, features)
  BY <1>1, PastAssumption
<1>3. WorldInv
  <2>1. world \in [Live -> Event]
    BY TrainingAssumption DEF Event
  <2>2. \A e \in Live : world[e].began = None
    OBVIOUS
  <2> QED  BY <2>1, <2>2, TrainingAssumption DEF WorldInv, Present
<1>4. SeenInv
  <2>1. DOMAIN <<>> = {}
    OBVIOUS
  <2> QED  BY <2>1 DEF SeenInv
<1>5. /\ \A i \in DOMAIN snapshots : snapshots[i].event \notin Live
      /\ \A i \in DOMAIN results : results[i].event \notin Live
  <2>1. \A t \in {"snapshots", "features", "results"} : \A i \in DOMAIN Past[sport][t] : Past[sport][t][i].event \notin Live
    BY <1>1, PastAssumption DEF ToSet
  <2> QED  BY <2>1
<1>6. \A i \in DOMAIN features : Present(features[i].rest) => features[i].rest > 0
  BY <1>1, PastAssumption DEF ToSet
<1>7. ListedInv
  BY <1>5 DEF ListedInv
<1>8. ResultsInv
  BY <1>5 DEF ResultsInv, Present
<1>9. CountInv
  <2> SUFFICES ASSUME NEW e \in Live
               PROVE  Cardinality(GetResults(e)) + Cardinality(Pending(e)) <= Cardinality(Syncs)
    BY DEF CountInv
  <2>1. GetResults(e) = {}
    BY <1>5 DEF GetResults
  <2> QED  BY <2>1, PendingIsFinite, FS_EmptySet, TrainingAssumption, FS_CardinalityType
<1> QED  BY <1>2, <1>3, <1>4, <1>6, <1>7, <1>8, <1>9 DEF DayInv, RowsInv, RestPositive

-----------------------------------------------------------------------------
(* No step breaks it: the events, the runs, the synchronisations *)

\* The previous match began before this one.
LEMMA RestIsPositive ==
  ASSUME RowsInv, NEW w \in Event, NEW e, NEW cutoff \in Int
  PROVE  LET r == Rest(w, e, cutoff) IN r \in Int \cup {None} /\ (Present(r) => r > 0)
<1> DEFINE priors == HistoryIndex(e)
           eligible == {t \in priors : t < cutoff /\ t < w.start}
           match == [start |-> w.start, status |-> Status(w.phase), round |-> None]
           violations == PreeventViolations(match.start, match.status, cutoff, None, None, None)
<1>1. w.start \in Int
  BY DEF Event
<1>2. eligible \subseteq Int /\ IsFiniteSet(eligible)
  <2>1. priors \subseteq Int
    <3>1. ASSUME NEW i \in DOMAIN snapshots  PROVE snapshots[i].start \in Int \cup {None}
      <4>1. snapshots[i] \in SnapshotRow
        BY DEF RowsInv
      <4> QED  BY <4>1 DEF SnapshotRow
    <3> QED  BY <3>1 DEF HistoryIndex
  <2>2. IsFiniteSet({snapshots[i].start : i \in DOMAIN snapshots})
    <3> DEFINE f == [i \in DOMAIN snapshots |-> snapshots[i].start]
    <3>1. DOMAIN snapshots = 1 .. Len(snapshots) /\ Len(snapshots) \in Nat
      BY DEF RowsInv
    <3>2. IsFiniteSet(DOMAIN snapshots)
      BY <3>1, FS_Interval
    <3>3. IsFiniteSet({f[i] : i \in DOMAIN snapshots})
      <4> HIDE DEF f
      <4> QED  BY <3>2, ImageIsFinite
    <3> QED  BY <3>3
  <2>3. eligible \subseteq {snapshots[i].start : i \in DOMAIN snapshots}
    BY DEF HistoryIndex
  <2> HIDE DEF eligible
  <2>4. IsFiniteSet(eligible)
    BY <2>2, <2>3, FS_Subset
  <2> QED  BY <2>1, <2>4 DEF eligible
<1>3. RestDays(w.start, priors, cutoff) = None \/ (RestDays(w.start, priors, cutoff) \in Int /\ RestDays(w.start, priors, cutoff) > 0)
  <2>1. CASE eligible = {}
    BY <2>1 DEF RestDays
  <2>2. CASE eligible # {}
    <3>1. Max(eligible) \in eligible
      <4> HIDE DEF eligible
      <4> QED  BY <1>2, <2>2, LargestIsThere
    <3>2. Max(eligible) \in Int /\ Max(eligible) < w.start
      BY <3>1, <1>2
    <3>3. RestDays(w.start, priors, cutoff) \in {None, w.start - Max(eligible)}
      BY DEF RestDays
    <3> HIDE DEF eligible
    <3> QED  BY <3>2, <3>3, <1>1
  <2> QED  BY <2>1, <2>2
<1>4. Rest(w, e, cutoff) \in {None, RestDays(w.start, priors, cutoff)}
  <2>1. CASE sport = "MLB"
    BY <2>1 DEF Rest
  <2>2. CASE sport # "MLB"
    <3>1. Rest(w, e, cutoff) = ComputeTennisFeatures(match, [side \in Sides |-> priors], cutoff).rest_days["participant_a"]
      BY <2>2 DEF Rest
    <3>2. "participant_a" \in Sides
      BY DEF Sides
    <3>3. ComputeTennisFeatures(match, [side \in Sides |-> priors], cutoff).rest_days["participant_a"]
            = IF violations # {} THEN None ELSE RestDays(w.start, priors, cutoff)
      <4> HIDE DEF priors
      <4> QED  BY <3>2 DEF ComputeTennisFeatures
    <3> HIDE DEF priors, match, violations
    <3> QED  BY <3>1, <3>3
  <2> QED  BY <2>1, <2>2
<1> HIDE DEF priors
<1> QED  BY <1>3, <1>4, MissingAssumption DEF Present

LEMMA NothingRecorded ==
  ASSUME DayInv, UNCHANGED <<results, sync>>
  PROVE  CountInv'
BY DEF DayInv, CountInv, GetResults, Pending

\* The rules of the events change nothing that was written.
LEMMA EventsKeep ==
  ASSUME DayInv, NEW e \in Live, Reschedule(e) \/ Begin(e) \/ End(e) \/ PutOff(e) \/ Resume(e)
  PROVE  DayInv'
<1>1. UNCHANGED <<sport, clock, snapshots, features, results, seen, sync>>
  BY DEF Reschedule, Begin, End, PutOff, Resume, history, models
<1>2. world \in [Live -> Event] /\ world[e] \in Event /\ clock \in Int /\ MaxClock \in Int
  BY TrainingAssumption DEF DayInv, WorldInv
<1> DEFINE Moves(w) ==
        /\ world' = [world EXCEPT ![e] = w]
        /\ world[e].phase # "over"
        /\ sport = "TENNIS" => world[e].start <= w.start
        /\ sport = "TENNIS" /\ Present(w.began) => w.phase # "pre" /\ w.start <= w.began
<1>3. PICK w \in Event : Moves(w)
  <2>1. world[e] = [start |-> world[e].start, phase |-> world[e].phase, began |-> world[e].began, winners |-> world[e].winners]
        /\ world[e].start \in Int /\ world[e].began \in Int \cup {None} /\ world[e].winners \in SUBSET Sides
    BY <1>2 DEF Event
  <2>2. sport = "TENNIS" /\ Present(world[e].began) => world[e].phase # "pre" /\ world[e].start <= world[e].began
    BY DEF DayInv, WorldInv
  <2>3. CASE Reschedule(e)
    <3>1. PICK t \in Starts : t > world[e].start /\ Becomes(e, [world[e] EXCEPT !.start = t])
      BY <2>3 DEF Reschedule
    <3>2. t \in Int /\ world[e].phase = "pre"
      BY <2>3, TrainingAssumption DEF Reschedule
    <3> DEFINE w == [world[e] EXCEPT !.start = t]
    <3>3. w \in Event /\ w.start = t /\ w.began = world[e].began
      BY <2>1, <3>2, <1>2 DEF Event
    <3>4. world' = [world EXCEPT ![e] = w]
      BY <3>1 DEF Becomes
    <3> HIDE DEF w
    <3>5. Moves(w)
      BY <3>1, <3>2, <3>3, <3>4, <2>1, <2>2
    <3> QED  BY <3>3, <3>5
  <2>4. CASE Begin(e)
    <3> DEFINE w == [world[e] EXCEPT !.phase = "live", !.began = clock]
    <3>1. world' = [world EXCEPT ![e] = w] /\ world[e].phase = "pre" /\ clock >= world[e].start
      BY <2>4 DEF Begin, Becomes
    <3>2. w \in Event /\ w.start = world[e].start /\ w.began = clock /\ w.phase = "live"
      BY <2>1, <1>2 DEF Event
    <3> HIDE DEF w
    <3>3. Moves(w)
      BY <3>1, <3>2, <2>1, <1>2
    <3> QED  BY <3>2, <3>3
  <2>5. CASE End(e)
    <3>1. PICK s \in SUBSET Sides : Becomes(e, [world[e] EXCEPT !.phase = "over", !.winners = s])
      BY <2>5 DEF End
    <3> DEFINE w == [world[e] EXCEPT !.phase = "over", !.winners = s]
    <3>2. w \in Event /\ w.start = world[e].start /\ w.began = world[e].began /\ w.phase = "over" /\ world[e].phase = "live"
      BY <2>1, <2>5, <1>2 DEF Event, End
    <3>3. world' = [world EXCEPT ![e] = w]
      BY <3>1 DEF Becomes
    <3> HIDE DEF w
    <3>4. Moves(w)
      BY <3>2, <3>3, <2>1, <2>2
    <3> QED  BY <3>2, <3>4
  <2>6. CASE PutOff(e)
    <3> DEFINE w == [world[e] EXCEPT !.phase = "off"]
    <3>1. world' = [world EXCEPT ![e] = w] /\ world[e].phase # "over"
      BY <2>6 DEF PutOff, Becomes
    <3>2. w \in Event /\ w.start = world[e].start /\ w.began = world[e].began /\ w.phase = "off"
      BY <2>1, <1>2 DEF Event
    <3> HIDE DEF w
    <3>3. Moves(w)
      BY <3>1, <3>2, <2>1, <2>2
    <3> QED  BY <3>2, <3>3
  <2>7. CASE Resume(e)
    <3>1. PICK t \in Starts : Becomes(e, [world[e] EXCEPT !.phase = "pre", !.start = t])
      BY <2>7 DEF Resume
    <3>2. t \in Int /\ world[e].phase = "off" /\ sport = "MLB"
      BY <2>7, TrainingAssumption DEF Resume
    <3> DEFINE w == [world[e] EXCEPT !.phase = "pre", !.start = t]
    <3>3. w \in Event
      BY <2>1, <3>2, <1>2 DEF Event
    <3>4. world' = [world EXCEPT ![e] = w]
      BY <3>1 DEF Becomes
    <3> HIDE DEF w
    <3>5. Moves(w)
      BY <3>2, <3>4
    <3> QED  BY <3>3, <3>5
  <2> QED  BY <2>3, <2>4, <2>5, <2>6, <2>7
<1>4. world' \in [Live -> Event] /\ world'[e] = w /\ \A f \in Live : f # e => world'[f] = world[f]
  BY <1>2, <1>3
<1>5. \A f \in Live : sport = "TENNIS" => world[f].start <= world'[f].start
  BY <1>2, <1>3, <1>4 DEF Event
<1>6. \A f \in Live : world[f].start \in Int /\ world'[f].start \in Int
  BY <1>2, <1>4 DEF Event
<1>7. WorldInv'
  BY <1>1, <1>3, <1>4 DEF DayInv, WorldInv
<1>8. RowsInv' /\ RestPositive' /\ CountInv'
  BY <1>1, NothingRecorded DEF DayInv, RowsInv, RestPositive
<1>9. SeenInv'
  <2>1. \A f \in DOMAIN seen : f \in Live /\ seen[f].start \in Int
    BY DEF DayInv, SeenInv, SeenEvent
  <2> QED  BY <1>1, <1>5, <1>6, <2>1 DEF DayInv, SeenInv
<1>10. ListedInv'
  BY <1>1, <1>5, <1>6 DEF DayInv, ListedInv
<1>11. ResultsInv'
  <2>1. (\A i \in DOMAIN results : results[i].event \in Live => Happened(results[i].event, results[i].result))'
    <3>1. \A i \in DOMAIN results : results[i].event \in Live => Happened(results[i].event, results[i].result)
      BY DEF DayInv, ResultsInv
    <3> QED  BY <1>1, <1>3, <1>4, <3>1 DEF Happened
  <2>2. \A p \in Syncs : Present(sync[p]) => sync[p].event \in Live
    BY DEF DayInv, ResultsInv, Present
  <2>3. (\A p \in Syncs : Present(sync[p]) => Happened(sync[p].event, sync[p].result))'
    <3>1. \A p \in Syncs : Present(sync[p]) => Happened(sync[p].event, sync[p].result)
      BY DEF DayInv, ResultsInv
    <3> QED  BY <1>1, <1>3, <1>4, <2>2, <3>1 DEF Happened, Present
  <2>4. sync' \in [Syncs -> {None} \cup [event : Live, result : VALID_RESULTS \cup {"POSTPONED"}]]
    BY <1>1 DEF DayInv, ResultsInv
  <2> QED  BY <1>1, <2>1, <2>3, <2>4 DEF ResultsInv, Happened
<1> QED  BY <1>7, <1>8, <1>9, <1>10, <1>11 DEF DayInv

\* Time passes.
LEMMA ClockGoes ==
  ASSUME DayInv, Later
  PROVE  clock' \in 0 .. MaxClock /\ clock <= clock' /\ clock \in Int /\ clock' \in Int
<1>1. clock \in 0 .. MaxClock /\ Tick \in Nat /\ MaxClock \in Nat
  BY TrainingAssumption DEF DayInv, WorldInv
<1> QED  BY <1>1 DEF Later

LEMMA WaitKeeps ==
  ASSUME DayInv, Wait
  PROVE  DayInv'
<1>1. UNCHANGED <<sport, world, snapshots, features, results, seen, sync>> /\ Later
  BY DEF Wait, history, models
<1>2. clock' \in 0 .. MaxClock /\ clock <= clock' /\ clock \in Int /\ clock' \in Int
  BY <1>1, ClockGoes
<1>3. WorldInv'
  BY <1>1, <1>2 DEF DayInv, WorldInv
<1>4. RowsInv' /\ ListedInv' /\ RestPositive' /\ CountInv'
  BY <1>1, NothingRecorded DEF DayInv, RowsInv, RestPositive, ListedInv
<1>5. ResultsInv'
  BY <1>1 DEF DayInv, ResultsInv, Happened
<1>6. SeenInv'
  <2>1. \A e \in DOMAIN seen : seen[e].cutoff \in Int
    BY DEF DayInv, SeenInv, SeenEvent
  <2> QED  BY <1>1, <1>2, <2>1 DEF DayInv, SeenInv
<1> QED  BY <1>3, <1>4, <1>5, <1>6 DEF DayInv

LEMMA FetchKeeps ==
  ASSUME DayInv, Fetch
  PROVE  DayInv'
<1>1. UNCHANGED <<sport, world, snapshots, features, results, sync>> /\ Later
  BY DEF Fetch, history, models
<1>2. clock' \in 0 .. MaxClock /\ clock <= clock' /\ clock \in Int /\ clock' \in Int
  BY <1>1, ClockGoes
<1>3. WorldInv'
  BY <1>1, <1>2 DEF DayInv, WorldInv
<1>4. RowsInv' /\ ListedInv' /\ RestPositive' /\ CountInv'
  BY <1>1, NothingRecorded DEF DayInv, RowsInv, RestPositive, ListedInv
<1>5. ResultsInv'
  BY <1>1 DEF DayInv, ResultsInv, Happened
<1>6. SeenInv'
  <2> DEFINE s == [e \in Live |-> [start |-> world[e].start, status |-> Status(world[e].phase),
                                   cutoff |-> clock, rest |-> Rest(world[e], e, clock)]]
  <2>1. seen' = s
    BY DEF Fetch
  <2>2. DOMAIN s = Live /\ s = [e \in DOMAIN s |-> s[e]]
    OBVIOUS
  <2>3. ASSUME NEW e \in Live
        PROVE  /\ s[e] \in SeenEvent /\ s[e].cutoff = clock /\ s[e].start = world[e].start
               /\ Present(s[e].rest) => s[e].rest > 0
    <3>1. world[e] \in Event
      BY DEF DayInv, WorldInv
    <3>2. Rest(world[e], e, clock) \in Int \cup {None} /\ (Present(Rest(world[e], e, clock)) => Rest(world[e], e, clock) > 0)
      BY <1>2, <3>1, RestIsPositive DEF DayInv
    <3>3. world[e].start \in Int
      BY <3>1 DEF Event
    <3>4. Status(world[e].phase) \in EventStatus
      <4>1. world[e].phase \in {"pre", "live", "over", "off"}
        BY <3>1 DEF Event
      <4> QED  BY <4>1 DEF Status, EventStatus
    <3> QED  BY <1>2, <3>2, <3>3, <3>4 DEF SeenEvent
  <2>4. \A e \in Live : world[e].start \in Int
    BY DEF DayInv, WorldInv, Event
  <2> HIDE DEF s
  <2> QED  BY <1>1, <1>2, <2>1, <2>2, <2>3, <2>4 DEF SeenInv
<1> QED  BY <1>3, <1>4, <1>5, <1>6 DEF DayInv

\* A batch is of events that were seen.
LEMMA BatchIsSeen ==
  ASSUME DayInv, seen # <<>>
  PROVE  Batch \in Seq(DOMAIN seen) /\ DOMAIN Batch = 1 .. Len(Batch) /\ Len(Batch) \in Nat
<1> DEFINE B == IF sport = "MLB" THEN {Min(DOMAIN seen)} ELSE DOMAIN seen
           R == {p \in B \X B : p[1] < p[2]}
<1>1. DOMAIN seen \subseteq Live /\ DOMAIN seen # {} /\ DOMAIN seen \subseteq Int /\ IsFiniteSet(DOMAIN seen)
  <2>1. DOMAIN seen \subseteq Live /\ seen = [e \in DOMAIN seen |-> seen[e]]
    BY DEF DayInv, SeenInv
  <2>2. DOMAIN seen # {}
    <3> SUFFICES ASSUME DOMAIN seen = {}  PROVE FALSE
      OBVIOUS
    <3>1. seen = [e \in {} |-> seen[e]]
      BY <2>1
    <3>2. seen = <<>>
      BY <3>1
    <3> QED  BY <3>2
  <2> QED  BY <2>1, <2>2, TrainingAssumption, FS_Subset
<1>2. B \subseteq DOMAIN seen /\ IsFiniteSet(B)
  <2>1. Min(DOMAIN seen) \in DOMAIN seen
    BY <1>1, SmallestIsThere
  <2>2. B \subseteq DOMAIN seen
    BY <2>1
  <2> QED  BY <2>2, <1>1, FS_Subset
<1> HIDE DEF B
<1>3. Lines(R, B)
  BY <1>1, <1>2 DEF Lines
<1>4. Batch = InOrder(B, R)
  BY DEF Batch, Ascending, B
<1> HIDE DEF R
<1>5. Batch \in Seq(B)
  BY <1>2, <1>3, <1>4, InOrderIs
<1> QED  BY <1>5, <1>2

\* What is saved are rows of what was seen, after the rows that were there.
LEMMA SnapshotsAreSaved ==
  ASSUME DayInv, seen # <<>>, SaveEventSnapshots
  PROVE  /\ snapshots' \in Seq(SnapshotRow)
         /\ Len(snapshots') = Len(snapshots) + Len(Batch)
         /\ \A i \in 1 .. Len(snapshots) : snapshots'[i] = snapshots[i]
         /\ \A i \in 1 .. Len(Batch) : Batch[i] \in DOMAIN seen /\ snapshots'[Len(snapshots) + i] = EventSnapshot(Batch[i])
<1>1. Batch \in Seq(DOMAIN seen) /\ DOMAIN Batch = 1 .. Len(Batch) /\ Len(Batch) \in Nat
  BY BatchIsSeen
<1> DEFINE new == [i \in DOMAIN Batch |-> EventSnapshot(Batch[i])]
<1>2. ASSUME NEW e \in DOMAIN seen  PROVE EventSnapshot(e) \in SnapshotRow
  <2>1. seen[e].start \in Int /\ seen[e].status \in EventStatus /\ e \in Int
    BY TrainingAssumption DEF DayInv, SeenInv, SeenEvent
  <2>2. sport \in Sports /\ clock \in Int
    BY TrainingAssumption, PastAssumption DEF DayInv, WorldInv
  <2> QED  BY <2>1, <2>2 DEF EventSnapshot, SnapshotRow
<1>3. \A i \in 1 .. Len(Batch) : Batch[i] \in DOMAIN seen
  BY <1>1
<1>4. new \in Seq(SnapshotRow) /\ Len(new) = Len(Batch)
  <2>1. new \in [1 .. Len(Batch) -> SnapshotRow]
    BY <1>1, <1>2, <1>3
  <2> HIDE DEF new
  <2> QED  BY <1>1, <2>1
<1>5. \A i \in 1 .. Len(Batch) : new[i] = EventSnapshot(Batch[i])
  BY <1>1
<1>6. snapshots' = snapshots \o new /\ snapshots \in Seq(SnapshotRow)
  BY DEF SaveEventSnapshots, DayInv, RowsInv
<1> HIDE DEF new
<1> QED  BY <1>1, <1>3, <1>4, <1>5, <1>6

\* Rows that were saved keep what the rows promise.
LEMMA ListedStays ==
  ASSUME DayInv, seen # <<>>, SaveEventSnapshots, UNCHANGED <<sport, world>>
  PROVE  ListedInv'
<1> SUFFICES ASSUME sport = "TENNIS", NEW i \in DOMAIN snapshots', snapshots'[i].event \in Live
             PROVE  snapshots'[i].start \in Int /\ snapshots'[i].start <= world[snapshots'[i].event].start
  BY DEF ListedInv
<1>1. /\ snapshots' \in Seq(SnapshotRow) /\ Len(Batch) \in Nat
      /\ Len(snapshots') = Len(snapshots) + Len(Batch)
      /\ \A k \in 1 .. Len(snapshots) : snapshots'[k] = snapshots[k]
      /\ \A k \in 1 .. Len(Batch) : Batch[k] \in DOMAIN seen /\ snapshots'[Len(snapshots) + k] = EventSnapshot(Batch[k])
  BY SnapshotsAreSaved, BatchIsSeen
<1>2. snapshots \in Seq(SnapshotRow)
  BY DEF DayInv, RowsInv
<1>3. CASE i \in 1 .. Len(snapshots)
  <2>1. i \in DOMAIN snapshots /\ snapshots'[i] = snapshots[i]
    BY <1>1, <1>2, <1>3
  <2> QED  BY <2>1 DEF DayInv, ListedInv
<1>4. CASE i \notin 1 .. Len(snapshots)
  <2>1. i - Len(snapshots) \in 1 .. Len(Batch) /\ i = Len(snapshots) + (i - Len(snapshots))
    BY <1>1, <1>2, <1>4
  <2>2. PICK e \in DOMAIN seen : snapshots'[i] = EventSnapshot(e)
    BY <1>1, <2>1
  <2> QED  BY <2>2 DEF EventSnapshot, DayInv, SeenInv, SeenEvent
<1> QED  BY <1>3, <1>4

LEMMA SaveKeeps ==
  ASSUME DayInv, Save
  PROVE  DayInv'
<1>1. UNCHANGED <<sport, clock, world, results, sync>> /\ seen # <<>> /\ SaveEventSnapshots
  BY DEF Save
<1>2. WorldInv' /\ CountInv' /\ ListedInv'
  BY <1>1, NothingRecorded, ListedStays DEF DayInv, WorldInv
<1>3. ResultsInv'
  BY <1>1 DEF DayInv, ResultsInv, Happened
<1>4. SeenInv'
  <2>1. seen' = [e \in DOMAIN seen \ ToSet(Batch) |-> seen[e]]
    BY DEF Save, Restrict
  <2>2. DOMAIN seen' \subseteq DOMAIN seen /\ seen' = [e \in DOMAIN seen' |-> seen'[e]]
        /\ \A e \in DOMAIN seen' : seen'[e] = seen[e]
    BY <2>1
  <2> QED  BY <1>1, <2>2 DEF DayInv, SeenInv
<1>5. /\ snapshots' \in Seq(SnapshotRow) /\ Len(Batch) \in Nat /\ DOMAIN Batch = 1 .. Len(Batch)
      /\ Len(snapshots') = Len(snapshots) + Len(Batch)
      /\ \A k \in 1 .. Len(snapshots) : snapshots'[k] = snapshots[k]
      /\ \A k \in 1 .. Len(Batch) : Batch[k] \in DOMAIN seen /\ snapshots'[Len(snapshots) + k] = EventSnapshot(Batch[k])
  BY <1>1, SnapshotsAreSaved, BatchIsSeen
<1>6. snapshots \in Seq(SnapshotRow) /\ features \in Seq(FeatureRow) /\ RowsRefer(snapshots, features)
  BY DEF DayInv, RowsInv
<1> DEFINE new == [i \in DOMAIN Batch |-> FeatureSnapshot(Batch[i], Len(snapshots) + i)]
<1>7. ASSUME NEW k \in 1 .. Len(Batch)
      PROVE  /\ new[k] = FeatureSnapshot(Batch[k], Len(snapshots) + k)
             /\ new[k] \in FeatureRow
             /\ Present(new[k].rest) => new[k].rest > 0
             /\ new[k].snapshot = Len(snapshots) + k /\ new[k].event = Batch[k]
             /\ new[k].cutoff <= new[k].computed_at /\ new[k].computed_at = clock /\ clock \in Int
  <2>1. new[k] = FeatureSnapshot(Batch[k], Len(snapshots) + k) /\ Batch[k] \in DOMAIN seen
    BY <1>5
  <2>2. PICK e \in DOMAIN seen : e = Batch[k]
    BY <2>1
  <2>3. seen[e] \in SeenEvent /\ e \in Int /\ seen[e].cutoff <= clock /\ (Present(seen[e].rest) => seen[e].rest > 0)
    BY TrainingAssumption DEF DayInv, SeenInv
  <2>4. sport \in Sports /\ clock \in Int /\ Len(snapshots) + k \in Nat
    BY <1>6, TrainingAssumption, PastAssumption DEF DayInv, WorldInv
  <2>5. CURRENT_FEATURE_SET_VERSION \in FeatureVersions
    BY TrainingAssumption
  <2> HIDE DEF new
  <2> QED  BY <2>1, <2>2, <2>3, <2>4, <2>5 DEF FeatureSnapshot, FeatureRow, SeenEvent
<1>8. features' = features \o new /\ features \in Seq(FeatureRow)
  BY <1>6 DEF Save
<1>9. new \in Seq(FeatureRow) /\ Len(new) = Len(Batch)
  <2>1. new \in [1 .. Len(Batch) -> FeatureRow]
    BY <1>5, <1>7
  <2> HIDE DEF new
  <2> QED  BY <1>5, <2>1
<1> HIDE DEF new
<1>10. /\ features' \in Seq(FeatureRow) /\ Len(features') = Len(features) + Len(Batch)
       /\ \A k \in 1 .. Len(features) : features'[k] = features[k]
       /\ \A k \in 1 .. Len(Batch) : features'[Len(features) + k] = new[k]
  <2>1. /\ features \o new \in Seq(FeatureRow)
        /\ Len(features \o new) = Len(features) + Len(new)
        /\ \A k \in 1 .. Len(features) : (features \o new)[k] = features[k]
        /\ \A k \in 1 .. Len(new) : (features \o new)[Len(features) + k] = new[k]
    BY <1>8, <1>9, SMT
  <2> QED  BY <1>8, <1>9, <2>1, Zenon
<1>11. ASSUME NEW i \in DOMAIN features'
       PROVE  \/ i \in 1 .. Len(features) /\ features'[i] = features[i]
              \/ \E k \in 1 .. Len(Batch) : features'[i] = new[k]
  <2>1. CASE i \in 1 .. Len(features)
    BY <1>10, <2>1
  <2>2. CASE i \notin 1 .. Len(features)
    <3>1. i - Len(features) \in 1 .. Len(Batch) /\ i = Len(features) + (i - Len(features))
      BY <1>5, <1>6, <1>10, <2>2
    <3> QED  BY <3>1, <1>10
  <2> QED  BY <2>1, <2>2
<1>12. RestPositive'
  <2>1. \A i \in 1 .. Len(features) : Present(features[i].rest) => features[i].rest > 0
    BY <1>6 DEF DayInv, RestPositive
  <2> QED  BY <1>7, <1>11, <2>1 DEF RestPositive
<1>13. RowsRefer(snapshots', features')
  <2> SUFFICES ASSUME NEW i \in DOMAIN features'
               PROVE  /\ features'[i].snapshot \in DOMAIN snapshots'
                      /\ snapshots'[features'[i].snapshot].event = features'[i].event
                      /\ features'[i].cutoff <= features'[i].computed_at
                      /\ snapshots'[features'[i].snapshot].captured_at <= features'[i].computed_at
    BY DEF RowsRefer
  <2>1. DOMAIN snapshots' = 1 .. Len(snapshots) + Len(Batch) /\ DOMAIN snapshots = 1 .. Len(snapshots) /\ Len(snapshots) \in Nat
    BY <1>5, <1>6
  <2>2. CASE i \in 1 .. Len(features) /\ features'[i] = features[i]
    <3>1. i \in DOMAIN features
      BY <1>6, <2>2
    <3>2. /\ features[i].snapshot \in DOMAIN snapshots
          /\ snapshots[features[i].snapshot].event = features[i].event
          /\ features[i].cutoff <= features[i].computed_at
          /\ snapshots[features[i].snapshot].captured_at <= features[i].computed_at
      BY <1>6, <3>1 DEF RowsRefer
    <3>3. features[i].snapshot \in DOMAIN snapshots' /\ snapshots'[features[i].snapshot] = snapshots[features[i].snapshot]
      BY <1>5, <2>1, <3>2
    <3> QED  BY <2>2, <3>2, <3>3
  <2>3. CASE \E k \in 1 .. Len(Batch) : features'[i] = new[k]
    <3>1. PICK k \in 1 .. Len(Batch) : features'[i] = new[k]
      BY <2>3
    <3>2. snapshots'[Len(snapshots) + k] = EventSnapshot(Batch[k]) /\ Len(snapshots) + k \in DOMAIN snapshots'
      BY <1>5, <2>1
    <3> QED  BY <3>1, <3>2, <1>7 DEF EventSnapshot
  <2> QED  BY <1>11, <2>2, <2>3
<1> QED  BY <1>1, <1>2, <1>3, <1>4, <1>5, <1>6, <1>10, <1>12, <1>13 DEF DayInv, RowsInv

LEMMA DieKeeps ==
  ASSUME DayInv, Die
  PROVE  DayInv'
<1>1. UNCHANGED <<sport, clock, world, features, results, sync>> /\ seen # <<>> /\ seen' = <<>>
      /\ (UNCHANGED snapshots \/ SaveEventSnapshots)
  BY DEF Die
<1>2. WorldInv' /\ CountInv' /\ RestPositive'
  BY <1>1, NothingRecorded DEF DayInv, WorldInv, RestPositive
<1>3. ResultsInv'
  BY <1>1 DEF DayInv, ResultsInv, Happened
<1>4. SeenInv'
  <2>1. DOMAIN seen' = {} /\ seen' = [e \in DOMAIN seen' |-> seen'[e]]
    BY <1>1
  <2> QED  BY <2>1 DEF SeenInv
<1>5. snapshots \in Seq(SnapshotRow) /\ features \in Seq(FeatureRow) /\ RowsRefer(snapshots, features)
  BY DEF DayInv, RowsInv
<1>6. CASE UNCHANGED snapshots
  BY <1>1, <1>2, <1>3, <1>4, <1>6 DEF DayInv, RowsInv, ListedInv
<1>7. CASE SaveEventSnapshots
  <2>1. ListedInv'
    BY <1>1, <1>7, ListedStays
  <2>2. /\ snapshots' \in Seq(SnapshotRow) /\ Len(Batch) \in Nat
        /\ Len(snapshots') = Len(snapshots) + Len(Batch)
        /\ \A k \in 1 .. Len(snapshots) : snapshots'[k] = snapshots[k]
    BY <1>1, <1>7, SnapshotsAreSaved, BatchIsSeen
  <2>3. \A k \in DOMAIN snapshots : k \in DOMAIN snapshots' /\ snapshots'[k] = snapshots[k]
    BY <1>5, <2>2
  <2>4. RowsRefer(snapshots', features')
    BY <1>1, <1>5, <2>3 DEF RowsRefer
  <2>5. RowsInv'
    BY <1>1, <2>2, <2>4 DEF DayInv, RowsInv
  <2> QED  BY <1>2, <1>3, <1>4, <2>1, <2>5 DEF DayInv
<1> QED  BY <1>1, <1>6, <1>7

\* Only a sole winner of an event that is over becomes a result.
LEMMA MappedIsTrue ==
  ASSUME DayInv, NEW e \in Live, MapResult(world[e]) # None
  PROVE  MapResult(world[e]) \in VALID_RESULTS \cup {"POSTPONED"} /\ Happened(e, MapResult(world[e]))
<1>1. CASE world[e].phase = "over"
  <2>1. MapResult(world[e]) = Sole(world[e].winners)
    BY <1>1 DEF MapResult
  <2>2. Sole(world[e].winners) \in VALID_RESULTS \cup {None}
    BY DEF Sole, VALID_RESULTS
  <2> QED  BY <1>1, <2>1, <2>2 DEF Happened
<1>2. CASE world[e].phase = "off" /\ sport = "MLB"
  BY <1>2 DEF MapResult, Happened, VALID_RESULTS
<1>3. CASE world[e].phase # "over" /\ ~(world[e].phase = "off" /\ sport = "MLB")
  BY <1>3 DEF MapResult
<1> QED  BY <1>1, <1>2, <1>3

LEMMA LookKeeps ==
  ASSUME DayInv, NEW p \in Syncs, NEW e \in Live, SyncLook(p, e)
  PROVE  DayInv'
<1> DEFINE found == [event |-> e, result |-> MapResult(world[e])]
<1>1. UNCHANGED <<sport, clock, world, snapshots, features, results, seen>> /\ sync' = [sync EXCEPT ![p] = found]
      /\ sync[p] = None /\ MapResult(world[e]) # None /\ GetResults(e) = {}
  BY DEF SyncLook, history, models
<1>2. found.event = e /\ found.result = MapResult(world[e])
      /\ found \in [event : Live, result : VALID_RESULTS \cup {"POSTPONED"}] /\ Happened(found.event, found.result)
  BY <1>1, MappedIsTrue
<1> HIDE DEF found
<1>3. sync \in [Syncs -> {None} \cup [event : Live, result : VALID_RESULTS \cup {"POSTPONED"}]]
  BY DEF DayInv, ResultsInv
<1>4. \A q \in Syncs : sync'[q] = IF q = p THEN found ELSE sync[q]
  BY <1>1, <1>3
<1>5. ResultsInv'
  <2>1. sync' \in [Syncs -> {None} \cup [event : Live, result : VALID_RESULTS \cup {"POSTPONED"}]]
    BY <1>1, <1>2, <1>3
  <2>2. \A i \in DOMAIN results : results[i].event \in Live => Happened(results[i].event, results[i].result)
    BY DEF DayInv, ResultsInv
  <2>3. \A q \in Syncs : Present(sync[q]) => Happened(sync[q].event, sync[q].result)
    BY DEF DayInv, ResultsInv
  <2>4. \A q \in Syncs : Present(sync'[q]) => Happened(sync'[q].event, sync'[q].result)
    BY <1>2, <1>4, <2>3
  <2> QED  BY <1>1, <2>1, <2>2, <2>4 DEF ResultsInv, Happened
<1>6. CountInv'
  <2> SUFFICES ASSUME NEW f \in Live
               PROVE  Cardinality(GetResults(f))' + Cardinality(Pending(f))' <= Cardinality(Syncs)
    BY DEF CountInv
  <2>1. GetResults(f)' = GetResults(f)
    BY <1>1 DEF GetResults
  <2>2. CASE f = e
    <3>1. Cardinality(GetResults(f)') = 0
      BY <1>1, <2>1, <2>2, FS_EmptySet
    <3>2. Pending(f)' \subseteq Syncs
      BY DEF Pending
    <3>3. Cardinality(Pending(f)') \in Nat /\ Cardinality(Pending(f)') <= Cardinality(Syncs) /\ Cardinality(Syncs) \in Nat
      BY <3>2, TrainingAssumption, FS_Subset, FS_CardinalityType
    <3> QED  BY <3>1, <3>3
  <2>3. CASE f # e
    <3>1. Pending(f)' = Pending(f)
      BY <1>1, <1>2, <1>3, <1>4, <2>3 DEF Pending, Present
    <3> QED  BY <2>1, <3>1 DEF DayInv, CountInv
  <2> QED  BY <2>2, <2>3
<1> QED  BY <1>1, <1>5, <1>6 DEF DayInv, WorldInv, RowsInv, SeenInv, ListedInv, RestPositive

LEMMA WriteKeeps ==
  ASSUME DayInv, NEW p \in Syncs, SyncWrite(p)
  PROVE  DayInv'
<1> DEFINE row == [event |-> sync[p].event, sport |-> sport, result |-> sync[p].result, recorded_at |-> clock]
<1>1. UNCHANGED <<sport, clock, world, snapshots, features, seen>> /\ sync' = [sync EXCEPT ![p] = None]
      /\ Present(sync[p]) /\ results' = Append(results, row)
  BY DEF SyncWrite
<1>2. sync \in [Syncs -> {None} \cup [event : Live, result : VALID_RESULTS \cup {"POSTPONED"}]] /\ results \in Seq(ResultRow)
  BY DEF DayInv, ResultsInv, RowsInv
<1>3. sync[p].event \in Live /\ sync[p].result \in VALID_RESULTS \cup {"POSTPONED"} /\ Happened(sync[p].event, sync[p].result)
  BY <1>1, <1>2 DEF DayInv, ResultsInv, Present
<1>4. row.event = sync[p].event /\ row.result = sync[p].result /\ row \in ResultRow
  <2>1. sport \in Sports /\ clock \in Int
    BY TrainingAssumption, PastAssumption DEF DayInv, WorldInv
  <2>2. sync[p].event \in Int
    BY <1>3, TrainingAssumption
  <2> QED  BY <1>3, <2>1, <2>2 DEF ResultRow
<1> HIDE DEF row
<1>5. /\ results' \in Seq(ResultRow) /\ Len(results') = Len(results) + 1 /\ Len(results) \in Nat
      /\ DOMAIN results = 1 .. Len(results) /\ DOMAIN results' = 1 .. Len(results) + 1
      /\ results'[Len(results) + 1] = row
      /\ \A i \in 1 .. Len(results) : results'[i] = results[i]
  BY <1>1, <1>2, <1>4
<1>6. \A q \in Syncs : sync'[q] = IF q = p THEN None ELSE sync[q]
  BY <1>1, <1>2
<1>7. ResultsInv'
  <2>1. sync' \in [Syncs -> {None} \cup [event : Live, result : VALID_RESULTS \cup {"POSTPONED"}]]
    BY <1>1, <1>2
  <2>2. \A i \in DOMAIN results : results[i].event \in Live => Happened(results[i].event, results[i].result)
    BY DEF DayInv, ResultsInv
  <2>3. ASSUME NEW i \in DOMAIN results', results'[i].event \in Live
        PROVE  Happened(results'[i].event, results'[i].result)
    <3>1. CASE i \in 1 .. Len(results)
      BY <1>5, <2>2, <2>3, <3>1
    <3>2. CASE i = Len(results) + 1
      BY <1>3, <1>4, <1>5, <3>2
    <3> QED  BY <1>5, <3>1, <3>2
  <2>4. \A q \in Syncs : Present(sync[q]) => Happened(sync[q].event, sync[q].result)
    BY DEF DayInv, ResultsInv
  <2>5. \A q \in Syncs : Present(sync'[q]) => Happened(sync'[q].event, sync'[q].result)
    BY <1>6, <2>4 DEF Present
  <2> QED  BY <1>1, <2>1, <2>3, <2>5 DEF ResultsInv, Happened
<1>8. CountInv'
  <2> SUFFICES ASSUME NEW e \in Live
               PROVE  Cardinality(GetResults(e))' + Cardinality(Pending(e))' <= Cardinality(Syncs)
    BY DEF CountInv
  <2>1. /\ IsFiniteSet(GetResults(e)) /\ Cardinality(GetResults(e)) \in Nat
        /\ IsFiniteSet(Pending(e)) /\ Cardinality(Pending(e)) \in Nat /\ Cardinality(Syncs) \in Nat
        /\ Cardinality(GetResults(e)) + Cardinality(Pending(e)) <= Cardinality(Syncs)
    BY <1>2, ResultsAreFinite, PendingIsFinite, TrainingAssumption, FS_CardinalityType DEF DayInv, CountInv
  <2>2. CASE row.event = e
    <3>1. GetResults(e)' = GetResults(e) \cup {Len(results) + 1} /\ Len(results) + 1 \notin GetResults(e)
      BY <1>5, <2>2 DEF GetResults
    <3>2. Pending(e)' = Pending(e) \ {p} /\ p \in Pending(e)
      BY <1>1, <1>4, <1>6, <2>2 DEF Pending, Present
    <3>3. Cardinality(GetResults(e)') = Cardinality(GetResults(e)) + 1
      BY <2>1, <3>1, FS_AddElement
    <3>4. Cardinality(Pending(e)') = Cardinality(Pending(e)) - 1
      BY <2>1, <3>2, FS_RemoveElement
    <3> QED  BY <2>1, <3>3, <3>4
  <2>3. CASE row.event # e
    <3>1. GetResults(e)' = GetResults(e)
      BY <1>5, <2>3 DEF GetResults
    <3>2. Pending(e)' = Pending(e)
      BY <1>4, <1>6, <2>3 DEF Pending, Present
    <3> QED  BY <2>1, <3>1, <3>2
  <2> QED  BY <2>2, <2>3
<1> QED  BY <1>1, <1>5, <1>7, <1>8 DEF DayInv, WorldInv, RowsInv, SeenInv, ListedInv, RestPositive

LEMMA DayStays ==
  ASSUME DayInv, [Next]_vars
  PROVE  DayInv'
<1>1. CASE UNCHANGED <<sport, clock, world, history, seen, sync>>
  BY <1>1, NothingRecorded DEF history, DayInv, WorldInv, RowsInv, SeenInv, ListedInv, RestPositive, ResultsInv, Happened
<1>2. CASE \E e \in Live : Reschedule(e) \/ Begin(e) \/ End(e) \/ PutOff(e) \/ Resume(e)
  BY <1>2, EventsKeep
<1>3. CASE \E p \in Syncs : SyncWrite(p) \/ \E e \in Live : SyncLook(p, e)
  BY <1>3, WriteKeeps, LookKeeps
<1>4. CASE TrainTennisBaseline \/ TrainTennisCalibrator
  BY <1>1, <1>4 DEF TrainTennisBaseline, TrainTennisCalibrator
<1> QED  BY <1>1, <1>2, <1>3, <1>4, FetchKeeps, SaveKeeps, DieKeeps, WaitKeeps DEF Next, vars, models

-----------------------------------------------------------------------------
(* What a data set takes in *)

\* The latest result of an event is one of its results.
LEMMA LatestIsRecorded ==
  ASSUME RowsInv, NEW e, Present(LatestResult(e))
  PROVE  \E k \in GetResults(e) : LatestResult(e) = results[k]
<1> DEFINE times == {results[i].recorded_at : i \in GetResults(e)}
           last == {i \in GetResults(e) : results[i].recorded_at = Max(times)}
<1>1. IsFiniteSet(GetResults(e)) /\ GetResults(e) \subseteq 1 .. Len(results) /\ Len(results) \in Nat
      /\ \A i \in GetResults(e) : results[i].recorded_at \in Int
  <2>1. results \in Seq(ResultRow) /\ DOMAIN results = 1 .. Len(results) /\ Len(results) \in Nat
    BY DEF RowsInv
  <2>2. ASSUME NEW i \in GetResults(e)  PROVE results[i].recorded_at \in Int
    <3>1. results[i] \in ResultRow
      BY <2>1 DEF GetResults
    <3> QED  BY <3>1 DEF ResultRow
  <2> QED  BY <2>1, <2>2, ResultsAreFinite
<1>2. times # {}
  BY DEF LatestResult, Present
<1>3. times \subseteq Int /\ IsFiniteSet(times)
  <2> DEFINE f == [i \in GetResults(e) |-> results[i].recorded_at]
  <2>1. IsFiniteSet({f[i] : i \in GetResults(e)})
    <3> HIDE DEF f
    <3> QED  BY <1>1, ImageIsFinite
  <2> QED  BY <1>1, <2>1
<1>4. Max(times) \in times
  <2> HIDE DEF times
  <2> QED  BY <1>2, <1>3, LargestIsThere
<1>5. last # {} /\ last \subseteq GetResults(e)
  BY <1>4
<1>6. last \subseteq Int /\ IsFiniteSet(last)
  <2> HIDE DEF last
  <2>1. IsFiniteSet(last)
    BY <1>1, <1>5, FS_Subset
  <2>2. last \subseteq Int
    BY <1>1, <1>5
  <2> QED  BY <2>1, <2>2
<1>7. Min(last) \in last
  <2> HIDE DEF last
  <2> QED  BY <1>5, <1>6, SmallestIsThere
<1>8. LatestResult(e) = results[Min(last)]
  BY <1>2 DEF LatestResult
<1> HIDE DEF last
<1> QED  BY <1>5, <1>7, <1>8

LEMMA LabelledIsValid ==
  ASSUME RowsInv, NEW i, NEW of, Labelled(i, of) = "valid"
  PROVE  /\ features[i].sport = of /\ features[i].version = CURRENT_FEATURE_SET_VERSION
         /\ Present(LatestResult(features[i].event))
         /\ LatestResult(features[i].event).result \in VALID_RESULTS
         /\ ~(features[i].computed_at >= LatestResult(features[i].event).recorded_at)
<1>1. features[i].sport = of /\ features[i].version = CURRENT_FEATURE_SET_VERSION
  BY DEF Labelled
<1> DEFINE r == LatestResult(features[i].event)
<1>2. "valid" = CASE Missing(r) -> "no_result"
                  [] Present(r) /\ features[i].computed_at >= r.recorded_at -> "leakage"
                  [] OTHER -> IF r.result \in VALID_RESULTS THEN "valid" ELSE "non_binary_result"
  BY <1>1 DEF Labelled
<1> HIDE DEF r
<1>3. ~Missing(r) /\ ~(Present(r) /\ features[i].computed_at >= r.recorded_at)
  BY <1>2 DEF Missing, Present
<1>4. r.result \in VALID_RESULTS
  BY <1>2, <1>3
<1> QED  BY <1>1, <1>3, <1>4 DEF r, Missing, Present

LEMMA SamplesAreValid ==
  ASSUME NEW i \in Samples
  PROVE  /\ i \in DOMAIN features /\ Fate(i) = "valid" /\ Labelled(i, sport) = "valid"
         /\ sport # "MLB" => Preevent(i) = "valid"
<1>1. i \in DOMAIN features /\ Fate(i) = "valid"
  BY DEF Samples, BuildDataset, SelectOneSnapshotPerEvent
<1> QED  BY <1>1 DEF Fate

LEMMA PreeventIsBefore ==
  ASSUME NEW i, Preevent(i) = "valid"
  PROVE  /\ Present(snapshots[features[i].snapshot].start)
         /\ ~(Present(features[i].computed_at) /\ features[i].computed_at >= snapshots[features[i].snapshot].start)
<1> DEFINE v == Violations(i)
<1>1. v = {}
  <2> HIDE DEF v
  <2>1. Preevent(i) =
           CASE v = {} -> IF Present(features[i].rest) /\ features[i].rest < 0 THEN "negative_rest_days" ELSE "valid"
             [] "MISSING_START_TIME" \in v -> "missing_start_time"
             [] "STATUS_NOT_SCHEDULED" \in v -> "status_not_scheduled"
             [] v = {"INSUFFICIENT_LEAD"} -> "insufficient_lead"
             [] OTHER -> "not_before_event_start"
    BY DEF Preevent, v
  <2> QED  BY <2>1
<1> DEFINE start == snapshots[features[i].snapshot].start
<1>2. ~Missing(start)
  BY <1>1 DEF Violations, PreeventViolations
<1> DEFINE Late(t) == Present(t) /\ t >= start
           row == features[i]
           context == snapshots[row.snapshot]
           broken == [STATUS_NOT_SCHEDULED |-> context.status # "SCHEDULED",
                   CUTOFF_NOT_BEFORE_START |-> Late(row.cutoff),
                   COMPUTED_AT_NOT_BEFORE_START |-> Late(row.computed_at),
                   CAPTURED_AT_NOT_BEFORE_START |-> Late(context.captured_at),
                   INSUFFICIENT_LEAD |-> /\ Present(MIN_SNAPSHOT_LEAD_MINUTES) /\ Present(row.computed_at)
                                         /\ ~Late(row.computed_at) /\ start - row.computed_at < MIN_SNAPSHOT_LEAD_MINUTES]
<1>3. v = {w \in DOMAIN broken : broken[w]}
  BY <1>2 DEF Violations, PreeventViolations
<1>4. ~broken["COMPUTED_AT_NOT_BEFORE_START"]
  <2>1. "COMPUTED_AT_NOT_BEFORE_START" \in DOMAIN broken
    OBVIOUS
  <2> HIDE DEF broken, v
  <2> QED  BY <1>1, <1>3, <2>1
<1>5. ~Late(row.computed_at)
  BY <1>4
<1> QED  BY <1>2, <1>5 DEF Missing, Present

LEMMA RowIs ==
  ASSUME RowsInv, NEW i \in DOMAIN features
  PROVE  /\ features[i].event \in Int /\ features[i].computed_at \in Int /\ features[i].cutoff \in Int
         /\ features[i].snapshot \in DOMAIN snapshots
         /\ snapshots[features[i].snapshot].event = features[i].event
         /\ snapshots[features[i].snapshot].captured_at \in Int
         /\ snapshots[features[i].snapshot].captured_at <= features[i].computed_at
         /\ snapshots[features[i].snapshot].start \in Int \cup {None}
<1>1. features[i] \in FeatureRow
  BY DEF RowsInv
<1>2. /\ features[i].snapshot \in DOMAIN snapshots
      /\ snapshots[features[i].snapshot].event = features[i].event
      /\ snapshots[features[i].snapshot].captured_at <= features[i].computed_at
  BY DEF RowsInv, RowsRefer
<1>3. snapshots[features[i].snapshot] \in SnapshotRow
  BY <1>2 DEF RowsInv
<1> QED  BY <1>1, <1>2, <1>3 DEF FeatureRow, SnapshotRow

\* A tennis sample is the only one of its event.
LEMMA TennisSamplesAreOne ==
  ASSUME RowsInv, sport = "TENNIS", NEW i \in Samples, NEW k \in Samples, features[k].event = features[i].event
  PROVE  k = i
<1> DEFINE valid == {n \in DOMAIN features : Fate(n) = "valid"}
<1>1. Samples = SelectOneSnapshotPerEvent(valid)
  BY DEF Samples, BuildDataset
<1>2. i \in DOMAIN features /\ k \in DOMAIN features /\ i \in Int /\ k \in Int
  <2>1. DOMAIN features = 1 .. Len(features)
    BY DEF RowsInv
  <2> QED  BY <2>1, SamplesAreValid
<1>3. features[i].computed_at \in Int /\ features[k].computed_at \in Int
  BY <1>2, RowIs
<1> HIDE DEF valid
<1>4. i \in valid /\ k \in valid
  BY <1>1 DEF SelectOneSnapshotPerEvent
<1>5. \/ features[k].computed_at < features[i].computed_at
      \/ features[k].computed_at = features[i].computed_at /\ k <= i
  BY <1>1, <1>4 DEF SelectOneSnapshotPerEvent
<1>6. \/ features[i].computed_at < features[k].computed_at
      \/ features[i].computed_at = features[k].computed_at /\ i <= k
  BY <1>1, <1>4 DEF SelectOneSnapshotPerEvent
<1> QED  BY <1>2, <1>3, <1>5, <1>6

LEMMA LearningIsBefore ==
  ASSUME DayInv
  PROVE  TennisLearnsFromBefore
<1> SUFFICES ASSUME sport = "TENNIS", NEW i \in Samples
             PROVE  /\ \A k \in Samples : features[k].event = features[i].event => k = i
                    /\ features[i].event \in Live =>
                        Missing(world[features[i].event].began) \/ features[i].computed_at < world[features[i].event].began
  BY DEF TennisLearnsFromBefore
<1>1. RowsInv /\ ListedInv /\ WorldInv
  BY DEF DayInv
<1>2. \A k \in Samples : features[k].event = features[i].event => k = i
  BY <1>1, TennisSamplesAreOne
<1>3. ASSUME features[i].event \in Live, Present(world[features[i].event].began)
      PROVE  features[i].computed_at < world[features[i].event].began
  <2>1. i \in DOMAIN features /\ Preevent(i) = "valid"
    BY SamplesAreValid
  <2>2. PICK s \in DOMAIN snapshots : s = features[i].snapshot /\ snapshots[s].event = features[i].event
    BY <1>1, <2>1, RowIs
  <2>3. features[i].computed_at \in Int
    BY <1>1, <2>1, RowIs
  <2>4. PICK e \in Live : e = features[i].event
    BY <1>3
  <2>5. snapshots[s].start \in Int /\ snapshots[s].start <= world[e].start
    BY <1>1, <2>2, <2>4 DEF ListedInv
  <2>6. features[i].computed_at < snapshots[s].start
    <3>1. ~(Present(features[i].computed_at) /\ features[i].computed_at >= snapshots[s].start)
      BY <2>1, <2>2, PreeventIsBefore
    <3> QED  BY <2>3, <2>5, <3>1, MissingAssumption DEF Present
  <2>7. world[e].start <= world[e].began /\ world[e].start \in Int /\ world[e].began \in Int
    <3>1. world[e] \in Event /\ Present(world[e].began)
      BY <1>1, <1>3, <2>4 DEF WorldInv
    <3>2. world[e].start \in Int /\ world[e].began \in Int
      BY <3>1 DEF Event, Present
    <3> QED  BY <1>1, <3>1, <3>2 DEF WorldInv
  <2> QED  BY <2>3, <2>4, <2>5, <2>6, <2>7
<1> QED  BY <1>2, <1>3 DEF Missing, Present

LEMMA LabelsAreTrue ==
  ASSUME DayInv
  PROVE  LabelsTrue
<1> SUFFICES ASSUME NEW i \in Samples, features[i].event \in Live
             PROVE  world[features[i].event].winners = {IF Label(i) = 1 THEN "participant_a" ELSE "participant_b"}
  BY DEF LabelsTrue
<1>1. RowsInv /\ ResultsInv
  BY DEF DayInv
<1>2. PICK e \in Live : e = features[i].event
  OBVIOUS
<1>3. Labelled(i, sport) = "valid"
  BY SamplesAreValid
<1>4. Present(LatestResult(e)) /\ LatestResult(e).result \in VALID_RESULTS
  BY <1>1, <1>2, <1>3, LabelledIsValid
<1>5. PICK k \in GetResults(e) : LatestResult(e) = results[k]
  BY <1>1, <1>4, LatestIsRecorded
<1>6. Happened(e, LatestResult(e).result)
  BY <1>1, <1>5 DEF ResultsInv, GetResults
<1>7. Sole(world[e].winners) = LatestResult(e).result
  BY <1>4, <1>6 DEF Happened
<1>8. \/ Sole(world[e].winners) = "PARTICIPANT_A_WON" /\ world[e].winners = {"participant_a"}
      \/ Sole(world[e].winners) = "PARTICIPANT_B_WON" /\ world[e].winners = {"participant_b"}
  <2>1. world[e].winners = {"participant_a"} \/ world[e].winners = {"participant_b"}
    <3> SUFFICES ASSUME world[e].winners # {"participant_a"}, world[e].winners # {"participant_b"}  PROVE FALSE
      OBVIOUS
    <3>1. Sole(world[e].winners) = None
      BY DEF Sole
    <3> QED  BY <1>4, <1>7, <3>1, MissingAssumption
  <2> QED  BY <2>1 DEF Sole
<1> QED  BY <1>2, <1>7, <1>8 DEF Label

-----------------------------------------------------------------------------
(* What the reports count *)

\* Neither of the two reasons is given to a row of this sport and of the current version.
LEMMA FateOfCurrent ==
  ASSUME NEW i
  PROVE  Fate(i) \notin {"wrong_sport", "wrong_version"}
            <=> features[i].sport = sport /\ features[i].version = CURRENT_FEATURE_SET_VERSION
<1> DEFINE row == features[i]
           r == LatestResult(row.event)
           current == row.sport = sport /\ row.version = CURRENT_FEATURE_SET_VERSION
           v == Violations(i)
<1>1. ~current => Labelled(i, sport) \in {"wrong_sport", "wrong_version"}
  BY DEF Labelled
<1>2. current => Labelled(i, sport) =
                    CASE Missing(r) -> "no_result"
                      [] Present(r) /\ row.computed_at >= r.recorded_at -> "leakage"
                      [] OTHER -> IF r.result \in VALID_RESULTS THEN "valid" ELSE "non_binary_result"
  BY DEF Labelled
<1>3. current => Labelled(i, sport) \in {"no_result", "leakage", "valid", "non_binary_result"}
  <2> HIDE DEF r, row, current
  <2> QED  BY <1>2 DEF Missing, Present
<1>4. Preevent(i) \in {"negative_rest_days", "valid", "missing_start_time", "status_not_scheduled",
                       "insufficient_lead", "not_before_event_start"}
  <2>1. Preevent(i) =
           CASE v = {} -> IF Present(features[i].rest) /\ features[i].rest < 0 THEN "negative_rest_days" ELSE "valid"
             [] "MISSING_START_TIME" \in v -> "missing_start_time"
             [] "STATUS_NOT_SCHEDULED" \in v -> "status_not_scheduled"
             [] v = {"INSUFFICIENT_LEAD"} -> "insufficient_lead"
             [] OTHER -> "not_before_event_start"
    BY DEF Preevent
  <2> HIDE DEF v
  <2>2. CASE v = {}
    BY <2>1, <2>2
  <2>3. CASE v # {}
    BY <2>1, <2>3
  <2> QED  BY <2>2, <2>3
<1>5. Fate(i) = IF Labelled(i, sport) # "valid" \/ sport = "MLB" THEN Labelled(i, sport) ELSE Preevent(i)
  BY DEF Fate
<1> HIDE DEF current
<1>6. CASE current
  BY <1>3, <1>4, <1>5, <1>6 DEF current
<1>7. CASE ~current
  BY <1>1, <1>5, <1>7 DEF current
<1> QED  BY <1>6, <1>7

LEMMA UpToIsFinite ==
  ASSUME NEW n \in Nat
  PROVE  IsFiniteSet(1 .. n) /\ Cardinality(1 .. n) = n
BY FS_Interval

LEMMA PartsAdd ==
  ASSUME NEW S, NEW T, IsFiniteSet(S), IsFiniteSet(T), S \cap T = {}
  PROVE  /\ IsFiniteSet(S \cup T) /\ Cardinality(S \cup T) = Cardinality(S) + Cardinality(T)
         /\ Cardinality(S) \in Nat /\ Cardinality(T) \in Nat
<1>1. IsFiniteSet(S \cup T) /\ Cardinality(S \cup T) = Cardinality(S) + Cardinality(T) - Cardinality(S \cap T)
  BY FS_Union
<1>2. Cardinality(S \cap T) = 0
  BY FS_EmptySet
<1>3. Cardinality(S) \in Nat /\ Cardinality(T) \in Nat
  BY FS_CardinalityType
<1> QED  BY <1>1, <1>2, <1>3

LEMMA ReportIsBalanced ==
  ASSUME RowsInv
  PROVE  ReportBalances
<1> DEFINE N == DOMAIN features
           valid == {i \in N : Fate(i) = "valid"}
           samples == IF sport = "MLB" THEN valid ELSE SelectOneSnapshotPerEvent(valid)
           Reasons == {Fate(i) : i \in N} \ {"valid"}
           exclusions == [r \in Reasons |-> Cardinality({i \in N : Fate(i) = r})]
           D == Reasons \ {"wrong_sport", "wrong_version"}
           P == [r \in D |-> {i \in N : Fate(i) = r}]
           Out == {i \in N : Fate(i) \notin {"valid", "wrong_sport", "wrong_version"}}
           current == {i \in N : features[i].sport = sport /\ features[i].version = CURRENT_FEATURE_SET_VERSION}
<1>1. IsFiniteSet(N)
  <2>1. N = 1 .. Len(features) /\ Len(features) \in Nat
    BY DEF RowsInv
  <2> HIDE DEF N
  <2> QED  BY <2>1, FS_Interval
<1>2. BuildDataset = [samples |-> samples, exclusions |-> exclusions, superseded_same_event |-> Cardinality(valid \ samples)]
  BY DEF BuildDataset
<1>3. DOMAIN exclusions = Reasons
  OBVIOUS
<1>4. Total(exclusions, D) = Cardinality(Out) /\ IsFiniteSet(Out)
  <2>1. IsFiniteSet(D)
    <3> DEFINE f == [i \in N |-> Fate(i)]
    <3>1. IsFiniteSet({f[i] : i \in N})
      <4> HIDE DEF f, N
      <4> QED  BY <1>1, ImageIsFinite
    <3>2. D \subseteq {f[i] : i \in N}
      OBVIOUS
    <3> HIDE DEF f, N, D
    <3> QED  BY <3>1, <3>2, FS_Subset
  <2>2. ASSUME NEW r \in D  PROVE IsFiniteSet(P[r]) /\ exclusions[r] = Cardinality(P[r])
    <3>1. P[r] = {i \in N : Fate(i) = r} /\ exclusions[r] = Cardinality({i \in N : Fate(i) = r})
      OBVIOUS
    <3>2. {i \in N : Fate(i) = r} \subseteq N
      OBVIOUS
    <3> HIDE DEF P, N, exclusions
    <3> QED  BY <3>1, <3>2, <1>1, FS_Subset
  <2>3. \A r, q \in D : r # q => P[r] \cap P[q] = {}
    OBVIOUS
  <2>4. UNION {P[r] : r \in D} = Out
    <3>1. ASSUME NEW i \in Out  PROVE i \in UNION {P[r] : r \in D}
      <4>1. Fate(i) \in D /\ i \in P[Fate(i)]
        OBVIOUS
      <4> HIDE DEF D, P
      <4> QED  BY <4>1
    <3>2. ASSUME NEW r \in D  PROVE P[r] \subseteq Out
      OBVIOUS
    <3> HIDE DEF D, P, Out
    <3> QED  BY <3>1, <3>2
  <2> HIDE DEF D, P, Out, exclusions
  <2>5. IsFiniteSet(UNION {P[r] : r \in D}) /\ Total(exclusions, D) = Cardinality(UNION {P[r] : r \in D})
    BY <2>1, <2>2, <2>3, TotalOfParts
  <2> QED  BY <2>4, <2>5
<1>5. samples \subseteq valid /\ valid \subseteq N
  BY DEF SelectOneSnapshotPerEvent
<1>6. IsFiniteSet(samples) /\ IsFiniteSet(valid \ samples)
  <2> HIDE DEF samples, valid, N
  <2>1. samples \subseteq N /\ valid \ samples \subseteq N
    BY <1>5
  <2> QED  BY <1>1, <2>1, FS_Subset
<1>7. current = valid \cup Out /\ valid \cap Out = {}
  BY FateOfCurrent
<1> HIDE DEF samples, valid, Out, exclusions, current, N, D, Reasons
<1>8. Cardinality(current) = Cardinality(samples) + Cardinality(valid \ samples) + Cardinality(Out)
  <2>1. valid = samples \cup (valid \ samples) /\ samples \cap (valid \ samples) = {}
    BY <1>5
  <2>2. IsFiniteSet(valid) /\ Cardinality(valid) = Cardinality(samples) + Cardinality(valid \ samples)
    BY <1>6, <2>1, PartsAdd
  <2>3. Cardinality(current) = Cardinality(valid) + Cardinality(Out)
    BY <1>4, <1>7, <2>2, PartsAdd
  <2> QED  BY <2>2, <2>3
<1>9. /\ Cardinality(samples) \in Nat /\ Cardinality(valid \ samples) \in Nat /\ Cardinality(Out) \in Nat
  BY <1>4, <1>6, FS_CardinalityType
<1>10. GateReport.feature_snapshots_total = Cardinality(current) /\ GateReport.coverage_labeled_count = Cardinality(samples)
  BY <1>2 DEF GateReport, current, N
<1> QED  BY <1>2, <1>3, <1>4, <1>8, <1>9, <1>10 DEF ReportBalances, D

\* Where there are more rows than events, two rows are of one event.
LEMMA DuplicatesAreReported ==
  ASSUME RowsInv
  PROVE  DuplicatesReported
<1> DEFINE N == DOMAIN results
           events == {results[i].event : i \in N}
           alike == events \ ConflictingResults
           f == [e \in alike |-> Cardinality(GetResults(e)) - 1]
           P == [e \in alike |-> GetResults(e) \ {Min(GetResults(e))}]
<1> SUFFICES ASSUME Len(results) > Cardinality(events), ConflictingResults = {}
             PROVE  ExactDuplicates > 0
  BY DEF DuplicatesReported
<1>1. N = 1 .. Len(results) /\ Len(results) \in Nat /\ IsFiniteSet(N) /\ Cardinality(N) = Len(results)
  <2>1. N = 1 .. Len(results) /\ Len(results) \in Nat
    BY DEF RowsInv
  <2>2. IsFiniteSet(1 .. Len(results)) /\ Cardinality(1 .. Len(results)) = Len(results)
    BY <2>1, UpToIsFinite
  <2> HIDE DEF N
  <2> QED  BY <2>1, <2>2
<1>2. IsFiniteSet(events)
  <2> DEFINE g == [i \in N |-> results[i].event]
  <2>1. IsFiniteSet({g[i] : i \in N})
    <3> HIDE DEF g, N
    <3> QED  BY <1>1, ImageIsFinite
  <2> QED  BY <2>1
<1>3. alike = events
  OBVIOUS
<1>4. ExactDuplicates = Total(f, alike)
  BY DEF ExactDuplicates
<1>5. PICK i \in N, k \in N : i # k /\ results[i].event = results[k].event
  <2> DEFINE g == [n \in N |-> results[n].event]
  <2>1. g \in [N -> events]
    OBVIOUS
  <2>2. \A n \in N : g[n] = results[n].event
    OBVIOUS
  <2> HIDE DEF N, events, g
  <2>3. \E x, y \in N : x # y /\ g[x] = g[y]
    BY <1>1, <1>2, <2>1, FS_PigeonHole
  <2> QED  BY <2>2, <2>3
<1>6. ASSUME NEW e \in events
      PROVE  /\ IsFiniteSet(GetResults(e)) /\ Min(GetResults(e)) \in GetResults(e)
             /\ IsFiniteSet(P[e]) /\ f[e] = Cardinality(P[e])
  <2>1. IsFiniteSet(GetResults(e)) /\ Cardinality(GetResults(e)) \in Nat /\ GetResults(e) \subseteq 1 .. Len(results)
    BY ResultsAreFinite DEF RowsInv
  <2>2. GetResults(e) # {}
    BY DEF GetResults
  <2>3. GetResults(e) \subseteq Int
    BY <1>1, <2>1
  <2>4. Min(GetResults(e)) \in GetResults(e)
    BY <2>1, <2>2, <2>3, SmallestIsThere
  <2>5. P[e] = GetResults(e) \ {Min(GetResults(e))} /\ f[e] = Cardinality(GetResults(e)) - 1
    BY <1>3
  <2> HIDE DEF P, f
  <2>6. IsFiniteSet(P[e]) /\ Cardinality(P[e]) = Cardinality(GetResults(e)) - 1
    BY <2>1, <2>4, <2>5, FS_RemoveElement
  <2> QED  BY <2>1, <2>4, <2>5, <2>6
<1>7. \A d, e \in events : d # e => P[d] \cap P[e] = {}
  BY DEF GetResults
<1> HIDE DEF P, f, N
<1>8. IsFiniteSet(UNION {P[e] : e \in events}) /\ Total(f, events) = Cardinality(UNION {P[e] : e \in events})
  <2> HIDE DEF events, alike
  <2> QED  BY <1>2, <1>6, <1>7, TotalOfParts
<1>9. UNION {P[e] : e \in events} # {}
  <2>1. PICK e \in events : results[i].event = e /\ results[k].event = e
    BY <1>5
  <2>2. i \in GetResults(e) /\ k \in GetResults(e)
    BY <1>5, <2>1 DEF GetResults, N
  <2>3. i \in P[e] \/ k \in P[e]
    BY <1>3, <1>5, <2>2 DEF P
  <2> HIDE DEF events
  <2> QED  BY <2>3
<1>10. Cardinality(UNION {P[e] : e \in events}) \in Nat /\ Cardinality(UNION {P[e] : e \in events}) # 0
  <2> HIDE DEF events
  <2> QED  BY <1>8, <1>9, FS_CardinalityType, FS_EmptySet
<1> HIDE DEF events, alike
<1> QED  BY <1>3, <1>4, <1>8, <1>10

LEMMA CountedIs ==
  ASSUME DayInv
  PROVE  ResultsCounted
<1>1. OneResultPerSync
  <2> SUFFICES ASSUME NEW e \in Live
               PROVE  Cardinality(GetResults(e)) <= Cardinality(Syncs)
    BY DEF OneResultPerSync
  <2>1. Cardinality(GetResults(e)) \in Nat /\ Cardinality(Pending(e)) \in Nat /\ Cardinality(Syncs) \in Nat
    BY ResultsAreFinite, PendingIsFinite, TrainingAssumption, FS_CardinalityType DEF DayInv, RowsInv
  <2>2. Cardinality(GetResults(e)) + Cardinality(Pending(e)) <= Cardinality(Syncs)
    BY DEF DayInv, CountInv
  <2> QED  BY <2>1, <2>2
<1> QED  BY <1>1, ReportIsBalanced, DuplicatesAreReported DEF ResultsCounted, DayInv

-----------------------------------------------------------------------------
(* Splits: no event on two sides, earlier ones first *)

LEMMA PairIsFinite ==
  ASSUME NEW a, NEW b
  PROVE  IsFiniteSet({a, b})
<1>1. IsFiniteSet({a})
  BY FS_Singleton
<1>2. IsFiniteSet({a} \cup {b})
  BY <1>1, FS_AddElement
<1>3. {a, b} = {a} \cup {b}
  OBVIOUS
<1> QED  BY <1>2, <1>3

LEMMA LargerOfTwo ==
  ASSUME NEW a \in Int, NEW b \in Int
  PROVE  Max({a, b}) \in {a, b} /\ a <= Max({a, b}) /\ b <= Max({a, b})
<1>1. IsFiniteSet({a, b})
  BY PairIsFinite
<1>2. {a, b} \subseteq Int /\ {a, b} # {}
  OBVIOUS
<1>3. Max({a, b}) \in {a, b} /\ \A y \in {a, b} : y <= Max({a, b})
  BY <1>1, <1>2, LargestIsThere
<1> QED  BY <1>3

LEMMA SmallerOfTwo ==
  ASSUME NEW a \in Int, NEW b \in Int
  PROVE  Min({a, b}) \in {a, b} /\ Min({a, b}) <= a /\ Min({a, b}) <= b
<1>1. IsFiniteSet({a, b})
  BY PairIsFinite
<1>2. {a, b} \subseteq Int /\ {a, b} # {}
  OBVIOUS
<1>3. Min({a, b}) \in {a, b} /\ \A y \in {a, b} : Min({a, b}) <= y
  BY <1>1, <1>2, SmallestIsThere
<1> QED  BY <1>3

LEMMA ClipIsBetween ==
  ASSUME NEW x \in Int, NEW lo \in Int, NEW hi \in Int, lo <= hi
  PROVE  Clip(x, lo, hi) \in lo .. hi
<1>1. Min({hi, x}) \in {hi, x} /\ Min({hi, x}) <= hi
  BY SmallerOfTwo
<1>2. PICK m \in Int : m = Min({hi, x})
  BY <1>1
<1>3. Max({lo, m}) \in {lo, m} /\ lo <= Max({lo, m})
  BY LargerOfTwo
<1> QED  BY <1>1, <1>2, <1>3 DEF Clip

LEMMA RoundedIsInt ==
  ASSUME NEW n \in Int, NEW percent \in Int
  PROVE  RoundPercent(n, percent) \in Int
<1>1. n * percent \in Int
  OBVIOUS
<1>2. PICK product \in Int : product = n * percent
  BY <1>1
<1>3. product \div 100 \in Int
  OBVIOUS
<1> QED  BY <1>2, <1>3 DEF RoundPercent

\* The members of a sequence from one place to another.
LEMMA CutIs ==
  ASSUME NEW S, NEW s \in Seq(S), NEW a \in Nat \ {0}, NEW b \in Int, b <= Len(s)
  PROVE  ToSet(SubSeq(s, a, b)) = {s[k] : k \in a .. b}
<1>1. CASE b < a
  <2>1. SubSeq(s, a, b) = <<>>
    BY <1>1
  <2>2. a .. b = {}
    BY <1>1
  <2> QED  BY <2>1, <2>2 DEF ToSet
<1>2. CASE a <= b
  <2>1. /\ DOMAIN SubSeq(s, a, b) = 1 .. (b - a + 1)
        /\ \A i \in 1 .. (b - a + 1) : SubSeq(s, a, b)[i] = s[a + i - 1]
    BY <1>2
  <2>2. ASSUME NEW k \in a .. b  PROVE s[k] \in ToSet(SubSeq(s, a, b))
    <3>1. k - a + 1 \in 1 .. (b - a + 1) /\ a + (k - a + 1) - 1 = k
      OBVIOUS
    <3> QED  BY <2>1, <3>1 DEF ToSet
  <2>3. ASSUME NEW i \in 1 .. (b - a + 1)  PROVE SubSeq(s, a, b)[i] \in {s[k] : k \in a .. b}
    <3>1. a + i - 1 \in a .. b
      OBVIOUS
    <3> QED  BY <2>1, <3>1
  <2> QED  BY <2>1, <2>2, <2>3 DEF ToSet
<1> QED  BY <1>1, <1>2

\* When the first sample of an event was made, or its earliest moment by another key.
FirstOf(samples, key, e) == Min({key[i] : i \in SamplesOf(samples, {e})})

LEMMA FirstIsThere ==
  ASSUME RowsInv, NEW samples \in SUBSET DOMAIN features, NEW key, \A i \in samples : key[i] \in Int,
         NEW e \in EventsOf(samples)
  PROVE  /\ FirstOf(samples, key, e) \in {key[i] : i \in SamplesOf(samples, {e})}
         /\ FirstOf(samples, key, e) \in Int
         /\ \A i \in SamplesOf(samples, {e}) : FirstOf(samples, key, e) <= key[i]
<1> DEFINE S == SamplesOf(samples, {e})
           T == {key[i] : i \in S}
<1>1. S \subseteq DOMAIN features /\ IsFiniteSet(S)
  <2>1. DOMAIN features = 1 .. Len(features) /\ Len(features) \in Nat
    BY DEF RowsInv
  <2>2. IsFiniteSet(DOMAIN features)
    BY <2>1, UpToIsFinite
  <2>3. S \subseteq DOMAIN features
    BY DEF SamplesOf
  <2> HIDE DEF S
  <2> QED  BY <2>2, <2>3, FS_Subset
<1>2. S # {} /\ \A i \in S : key[i] \in Int
  BY DEF SamplesOf, EventsOf
<1> HIDE DEF S
<1>3. IsFiniteSet(T) /\ T # {} /\ T \subseteq Int
  BY <1>1, <1>2, ImageIsFinite
<1>4. Min(T) \in T /\ \A y \in T : Min(T) <= y
  <2> HIDE DEF T
  <2> QED  BY <1>3, SmallestIsThere
<1>5. FirstOf(samples, key, e) = Min(T)
  BY DEF FirstOf, S
<1>6. \A i \in S : key[i] \in T
  OBVIOUS
<1>7. Min(T) \in Int
  <2> HIDE DEF T
  <2> QED  BY <1>3, <1>4
<1> QED  BY <1>4, <1>5, <1>6, <1>7 DEF S

LEMMA EventOrderIs ==
  ASSUME RowsInv, NEW samples \in SUBSET DOMAIN features, NEW key, \A i \in samples : key[i] \in Int
  PROVE  LET order == EventOrder(samples, key)
             n == Cardinality(EventsOf(samples)) IN
         /\ n \in Nat /\ order \in Seq(EventsOf(samples)) /\ Len(order) = n
         /\ \A k \in 1 .. n : order[k] \in EventsOf(samples)
         /\ \A e \in EventsOf(samples) : \E k \in 1 .. n : order[k] = e
         /\ \A j, k \in 1 .. n : order[j] = order[k] => j = k
         /\ \A j, k \in 1 .. n : j < k => FirstOf(samples, key, order[j]) <= FirstOf(samples, key, order[k])
<1> DEFINE events == EventsOf(samples)
           first == [e \in events |-> Min({key[i] : i \in SamplesOf(samples, {e})})]
           R == {p \in events \X events :
                    first[p[1]] < first[p[2]] \/ (first[p[1]] = first[p[2]] /\ p[1] < p[2])}
           order == EventOrder(samples, key)
<1>1. events \subseteq Int /\ IsFiniteSet(events)
  <2>1. DOMAIN features = 1 .. Len(features) /\ Len(features) \in Nat
    BY DEF RowsInv
  <2>2. IsFiniteSet(samples)
    <3>1. IsFiniteSet(DOMAIN features)
      BY <2>1, UpToIsFinite
    <3> QED  BY <3>1, FS_Subset
  <2> DEFINE f == [i \in samples |-> features[i].event]
  <2>3. IsFiniteSet({f[i] : i \in samples})
    <3> HIDE DEF f
    <3> QED  BY <2>2, ImageIsFinite
  <2>4. \A i \in samples : features[i].event \in Int
    BY RowIs
  <2> QED  BY <2>3, <2>4 DEF EventsOf
<1>2. \A e \in events : first[e] = FirstOf(samples, key, e) /\ first[e] \in Int
  BY FirstIsThere DEF FirstOf
<1>3. order = InOrder(events, R)
  BY DEF EventOrder
<1> HIDE DEF first, events, order
<1>4. Lines(R, events)
  <2>1. ASSUME NEW x \in events, NEW y \in events
        PROVE  <<x, y>> \in R <=> first[x] < first[y] \/ (first[x] = first[y] /\ x < y)
    OBVIOUS
  <2>2. \A x \in events : x \in Int /\ first[x] \in Int
    BY <1>1, <1>2
  <2> HIDE DEF R
  <2>3. \A x \in events : <<x, x>> \notin R
    BY <2>1, <2>2
  <2>4. \A x, y \in events : x # y => <<x, y>> \in R \/ <<y, x>> \in R
    BY <2>1, <2>2
  <2>5. \A x, y, z \in events : <<x, y>> \in R /\ <<y, z>> \in R => <<x, z>> \in R
    BY <2>1, <2>2
  <2> QED  BY <2>3, <2>4, <2>5 DEF Lines
<1>5. /\ Cardinality(events) \in Nat
      /\ order \in [1 .. Cardinality(events) -> events]
      /\ order \in Seq(events)
      /\ Len(order) = Cardinality(events)
      /\ \A x \in events : \E i \in 1 .. Cardinality(events) : order[i] = x
      /\ \A i, j \in 1 .. Cardinality(events) : i < j <=> <<order[i], order[j]>> \in R
      /\ \A i, j \in 1 .. Cardinality(events) : order[i] = order[j] => i = j
  <2> HIDE DEF R
  <2> QED  BY <1>1, <1>3, <1>4, InOrderIs
<1>6. ASSUME NEW j \in 1 .. Cardinality(events), NEW k \in 1 .. Cardinality(events), j < k
      PROVE  FirstOf(samples, key, order[j]) <= FirstOf(samples, key, order[k])
  <2>1. <<order[j], order[k]>> \in R /\ order[j] \in events /\ order[k] \in events
    BY <1>5, <1>6
  <2> QED  BY <2>1, <1>2
<1>7. \A k \in 1 .. Cardinality(events) : order[k] \in events
  BY <1>5
<1> QED  BY <1>5, <1>6, <1>7 DEF order, events

\* The samples of some events are samples of these events and of no other.
LEMMA EventsOfSome ==
  ASSUME NEW samples, NEW E \in SUBSET EventsOf(samples)
  PROVE  EventsOf(SamplesOf(samples, E)) = E
BY DEF EventsOf, SamplesOf

LEMMA SplitIsWhole ==
  ASSUME RowsInv
  PROVE  SplitKeepsEventsWhole
<1> DEFINE S == Samples
           order == EventOrder(S, ComputedAt)
           n == Cardinality(EventsOf(S))
           held == IF n > 1 THEN Clip(RoundPercent(n, ValidationFraction), 1, n - 1) ELSE 0
           T == {order[k] : k \in 1 .. n - held}
           V == {order[k] : k \in n - held + 1 .. n}
           train == SamplesOf(S, T)
           validation == SamplesOf(S, V)
<1>1. S \in SUBSET DOMAIN features
  BY SamplesAreValid
<1>2. \A i \in S : ComputedAt[i] \in Int
  BY <1>1, RowIs DEF ComputedAt
<1>3. /\ n \in Nat /\ order \in Seq(EventsOf(S)) /\ Len(order) = n
      /\ \A k \in 1 .. n : order[k] \in EventsOf(S)
      /\ \A e \in EventsOf(S) : \E k \in 1 .. n : order[k] = e
      /\ \A j, k \in 1 .. n : order[j] = order[k] => j = k
      /\ \A j, k \in 1 .. n : j < k => FirstOf(S, ComputedAt, order[j]) <= FirstOf(S, ComputedAt, order[k])
  <2> HIDE DEF S
  <2> QED  BY <1>1, <1>2, EventOrderIs
<1>4. held \in 0 .. n /\ (n > 1 => held \in 1 .. n - 1)
  <2>1. CASE n > 1
    <3>1. RoundPercent(n, ValidationFraction) \in Int
      BY <1>3, TrainingAssumption, RoundedIsInt
    <3>2. Clip(RoundPercent(n, ValidationFraction), 1, n - 1) \in 1 .. n - 1
      <4> DEFINE r == RoundPercent(n, ValidationFraction)
      <4>1. n - 1 \in Int /\ 1 <= n - 1 /\ 1 \in Int
        BY <1>3, <2>1
      <4>2. r \in Int
        BY <3>1
      <4> HIDE DEF r, n
      <4>3. Clip(r, 1, n - 1) \in 1 .. n - 1
        BY <4>1, <4>2, ClipIsBetween
      <4> QED  BY <4>3 DEF r
    <3> QED  BY <1>3, <2>1, <3>2
  <2>2. CASE ~(n > 1)
    BY <1>3, <2>2
  <2> QED  BY <2>1, <2>2
<1>5. SplitDatasetTemporally(S).train = train /\ SplitDatasetTemporally(S).validation = validation
  <2>1. /\ SplitDatasetTemporally(S).train = SamplesOf(S, ToSet(SubSeq(order, 1, n - held)))
        /\ SplitDatasetTemporally(S).validation = SamplesOf(S, ToSet(SubSeq(order, n - held + 1, n)))
    BY <1>3 DEF SplitDatasetTemporally
  <2>2. ToSet(SubSeq(order, 1, n - held)) = T
    <3>1. n - held \in Int /\ n - held <= Len(order) /\ 1 \in Nat \ {0}
      BY <1>3, <1>4
    <3> HIDE DEF order, n, held
    <3> QED  BY <1>3, <3>1, CutIs
  <2>3. ToSet(SubSeq(order, n - held + 1, n)) = V
    <3>1. n - held + 1 \in Nat \ {0} /\ n \in Int /\ n <= Len(order)
      BY <1>3, <1>4
    <3> HIDE DEF order, n, held
    <3> QED  BY <1>3, <3>1, CutIs
  <2> QED  BY <2>1, <2>2, <2>3
<1> HIDE DEF S, order, n, held
<1>6. T \in SUBSET EventsOf(S) /\ V \in SUBSET EventsOf(S)
  <2>1. \A k \in 1 .. n - held : k \in 1 .. n
    BY <1>3, <1>4
  <2>2. \A k \in n - held + 1 .. n : k \in 1 .. n
    BY <1>3, <1>4
  <2> QED  BY <1>3, <2>1, <2>2
<1>7. EventsOf(S) \subseteq T \cup V
  <2> SUFFICES ASSUME NEW e \in EventsOf(S)  PROVE e \in T \cup V
    OBVIOUS
  <2>1. PICK k \in 1 .. n : order[k] = e
    BY <1>3
  <2>2. k \in 1 .. n - held \/ k \in n - held + 1 .. n
    BY <1>3, <1>4
  <2> QED  BY <2>1, <2>2
<1>8. ASSUME NEW d \in T, NEW e \in V
      PROVE  d # e /\ FirstOf(S, ComputedAt, d) <= FirstOf(S, ComputedAt, e)
  <2>1. PICK j \in 1 .. n - held : order[j] = d
    OBVIOUS
  <2>2. PICK k \in n - held + 1 .. n : order[k] = e
    OBVIOUS
  <2>3. j \in 1 .. n /\ k \in 1 .. n /\ j < k
    BY <1>3, <1>4
  <2> QED  BY <1>3, <2>1, <2>2, <2>3
<1>9. n > 1 => T # {} /\ V # {}
  <2> SUFFICES ASSUME n > 1  PROVE T # {} /\ V # {}
    OBVIOUS
  <2>1. 1 \in 1 .. n - held /\ n \in n - held + 1 .. n
    BY <1>3, <1>4
  <2> QED  BY <2>1
<1>10. EventsOf(train) = T /\ EventsOf(validation) = V
  <2> HIDE DEF T, V
  <2> QED  BY <1>6, EventsOfSome
<1> HIDE DEF T, V
<1>11. train \cup validation = S
  BY <1>7 DEF SamplesOf, EventsOf
<1>12. n > 1 => train # {} /\ validation # {}
  <2>1. ASSUME n > 1  PROVE train # {} /\ validation # {}
    BY <1>9, <1>10, <2>1 DEF EventsOf
  <2> QED  BY <2>1
<1> HIDE DEF train, validation
<1>13. EventsOf(train) \cap EventsOf(validation) = {}
  BY <1>8, <1>10
<1> QED  BY <1>5, <1>8, <1>10, <1>11, <1>12, <1>13 DEF SplitKeepsEventsWhole, FirstOf, S, n

\* A tennis sample starts at a known moment, its event with it.
LEMMA TennisStartIsKnown ==
  ASSUME RowsInv, sport = "TENNIS", NEW i \in Samples
  PROVE  EventStart[i] \in Int /\ features[i].event \in EventsOf(Samples)
         /\ FirstOf(Samples, EventStart, features[i].event) = EventStart[i]
<1>1. Samples \in SUBSET DOMAIN features
  BY SamplesAreValid
<1>2. \A k \in Samples : EventStart[k] \in Int
  <2> SUFFICES ASSUME NEW k \in Samples  PROVE EventStart[k] \in Int
    OBVIOUS
  <2>1. Present(snapshots[features[k].snapshot].start)
    BY SamplesAreValid, PreeventIsBefore
  <2>2. snapshots[features[k].snapshot].start \in Int \cup {None}
    BY <1>1, RowIs
  <2> QED  BY <1>1, <2>1, <2>2 DEF EventStart, Present
<1> DEFINE e == features[i].event
<1>3. e \in EventsOf(Samples)
  BY DEF EventsOf
<1>4. FirstOf(Samples, EventStart, e) \in {EventStart[k] : k \in SamplesOf(Samples, {e})}
  <2> HIDE DEF e
  <2> QED  BY <1>1, <1>2, <1>3, FirstIsThere
<1>5. \A k \in SamplesOf(Samples, {e}) : k = i
  BY TennisSamplesAreOne DEF SamplesOf
<1> QED  BY <1>2, <1>3, <1>4, <1>5

LEMMA PartsAreInOrder ==
  ASSUME RowsInv, sport = "TENNIS", SplitPossible(Cardinality(EventsOf(Samples)))
  PROVE  LET split == SplitEventsTemporally(Samples)
             Before(first, second) ==
                /\ EventsOf(first) \cap EventsOf(second) = {}
                /\ \A i \in first, k \in second : EventStart[i] <= EventStart[k] IN
         /\ Before(split.train, split.validation) /\ Before(split.validation, split.test)
         /\ EventsOf(split.train) \cap EventsOf(split.test) = {}
         /\ split.train \cup split.validation \cup split.test = Samples
<1> DEFINE S == Samples
           order == EventOrder(S, EventStart)
           n == Cardinality(EventsOf(S))
           a == Sizes(n).train
           b == Sizes(n).validation
           Cut(x, y) == {order[k] : k \in x .. y}
           Some(x, y) == SamplesOf(S, Cut(x, y))
<1>1. S \in SUBSET DOMAIN features
  BY SamplesAreValid
<1>2. \A i \in S : EventStart[i] \in Int
  BY TennisStartIsKnown
<1>3. /\ n \in Nat /\ order \in Seq(EventsOf(S)) /\ Len(order) = n
      /\ \A k \in 1 .. n : order[k] \in EventsOf(S)
      /\ \A e \in EventsOf(S) : \E k \in 1 .. n : order[k] = e
      /\ \A j, k \in 1 .. n : order[j] = order[k] => j = k
      /\ \A j, k \in 1 .. n : j < k => FirstOf(S, EventStart, order[j]) <= FirstOf(S, EventStart, order[k])
  <2> HIDE DEF S
  <2> QED  BY <1>1, <1>2, EventOrderIs
<1>4. a \in Int /\ b \in Int /\ Sizes(n).test = n - a - b /\ a >= 1 /\ b >= 1 /\ n - a - b >= 1
  <2>1. RoundPercent(n, TrainFraction) \in Int /\ RoundPercent(n, ValidationFraction) \in Int
    <3>1. n \in Int /\ TrainFraction \in Int /\ ValidationFraction \in Int
      BY <1>3, TrainingAssumption
    <3> HIDE DEF n
    <3> QED  BY <3>1, RoundedIsInt
  <2>2. /\ DOMAIN Sizes(n) = {"train", "validation", "test"}
        /\ Sizes(n).train = RoundPercent(n, TrainFraction)
        /\ Sizes(n).validation = RoundPercent(n, ValidationFraction)
        /\ Sizes(n).test = n - RoundPercent(n, TrainFraction) - RoundPercent(n, ValidationFraction)
    BY DEF Sizes
  <2>3. \A part \in DOMAIN Sizes(n) : Sizes(n)[part] >= 1
    BY DEF SplitPossible
  <2> HIDE DEF n
  <2> QED  BY <2>1, <2>2, <2>3
<1> DEFINE split == SplitEventsTemporally(S)
<1>5. /\ split.train = SamplesOf(S, ToSet(SubSeq(order, 1, 1 + a - 1)))
      /\ split.validation = SamplesOf(S, ToSet(SubSeq(order, a + 1, a + 1 + b - 1)))
      /\ split.test = SamplesOf(S, ToSet(SubSeq(order, a + b + 1, a + b + 1 + Sizes(n).test - 1)))
  <2>1. Len(EventOrder(S, EventStart)) = n
    BY <1>3
  <2> HIDE DEF S, n
  <2> QED  BY <2>1 DEF SplitEventsTemporally
<1>6. split.train = Some(1, a) /\ split.validation = Some(a + 1, a + b) /\ split.test = Some(a + b + 1, n)
  <2> HIDE DEF S, order, n, a, b, split
  <2>1. ToSet(SubSeq(order, 1, 1 + a - 1)) = Cut(1, a)
    <3>1. 1 + a - 1 = a /\ a \in Int /\ a <= Len(order) /\ 1 \in Nat \ {0}
      BY <1>3, <1>4
    <3> QED  BY <1>3, <3>1, CutIs
  <2>2. ToSet(SubSeq(order, a + 1, a + 1 + b - 1)) = Cut(a + 1, a + b)
    <3>1. a + 1 + b - 1 = a + b /\ a + b \in Int /\ a + b <= Len(order) /\ a + 1 \in Nat \ {0}
      BY <1>3, <1>4
    <3> QED  BY <1>3, <3>1, CutIs
  <2>3. ToSet(SubSeq(order, a + b + 1, a + b + 1 + Sizes(n).test - 1)) = Cut(a + b + 1, n)
    <3>1. a + b + 1 + Sizes(n).test - 1 = n /\ n \in Int /\ n <= Len(order) /\ a + b + 1 \in Nat \ {0}
      BY <1>3, <1>4
    <3> QED  BY <1>3, <3>1, CutIs
  <2> QED  BY <1>5, <2>1, <2>2, <2>3
<1>7. ASSUME NEW x \in Int, NEW y \in Int, x >= 1, y <= n
      PROVE  EventsOf(Some(x, y)) = Cut(x, y)
  <2>1. \A k \in x .. y : k \in 1 .. n
    BY <1>3, <1>7
  <2>2. Cut(x, y) \in SUBSET EventsOf(S)
    BY <1>3, <2>1
  <2> HIDE DEF S, Cut
  <2> QED  BY <2>2, EventsOfSome
<1>8. ASSUME NEW x \in Int, NEW y \in Int, NEW z \in Int, x >= 1, x <= y, y < z, z <= n, NEW u \in Int, u > y, u <= z
      PROVE  /\ EventsOf(Some(x, y)) \cap EventsOf(Some(u, z)) = {}
             /\ \A i \in Some(x, y), k \in Some(u, z) : EventStart[i] <= EventStart[k]
  <2>0. y <= n /\ u >= 1
    BY <1>3, <1>8
  <2>1. EventsOf(Some(x, y)) = Cut(x, y) /\ EventsOf(Some(u, z)) = Cut(u, z)
    <3> HIDE DEF Some, Cut, n
    <3> QED  BY <1>7, <1>8, <2>0
  <2>2. ASSUME NEW d \in Cut(x, y), NEW e \in Cut(u, z)
        PROVE  d # e /\ FirstOf(S, EventStart, d) <= FirstOf(S, EventStart, e)
    <3>1. PICK j \in x .. y : order[j] = d
      OBVIOUS
    <3>2. PICK k \in u .. z : order[k] = e
      OBVIOUS
    <3> HIDE DEF n, order, S, Cut
    <3>3. j \in 1 .. n /\ k \in 1 .. n /\ j < k
      BY <1>3, <1>8
    <3> QED  BY <1>3, <3>1, <3>2, <3>3
  <2>3. ASSUME NEW i \in Some(x, y), NEW k \in Some(u, z)
        PROVE  EventStart[i] <= EventStart[k]
    <3> HIDE DEF Cut
    <3>1. i \in S /\ k \in S /\ features[i].event \in Cut(x, y) /\ features[k].event \in Cut(u, z)
      BY DEF SamplesOf
    <3>2. FirstOf(S, EventStart, features[i].event) = EventStart[i] /\ FirstOf(S, EventStart, features[k].event) = EventStart[k]
      BY <3>1, TennisStartIsKnown
    <3>3. FirstOf(S, EventStart, features[i].event) <= FirstOf(S, EventStart, features[k].event)
      BY <2>2, <3>1
    <3> QED  BY <3>2, <3>3
  <2>4. Cut(x, y) \cap Cut(u, z) = {}
    <3> HIDE DEF Cut
    <3> QED  BY <2>2
  <2> HIDE DEF Cut, Some
  <2> QED  BY <2>1, <2>3, <2>4
<1>9. Some(1, a) \cup Some(a + 1, a + b) \cup Some(a + b + 1, n) = S
  <2>1. ASSUME NEW i \in S  PROVE i \in Some(1, a) \cup Some(a + 1, a + b) \cup Some(a + b + 1, n)
    <3>1. PICK k \in 1 .. n : order[k] = features[i].event
      <4>1. features[i].event \in EventsOf(S)
        BY DEF EventsOf
      <4> HIDE DEF S, n
      <4> QED  BY <1>3, <4>1
    <3> HIDE DEF n, a, b, order, S
    <3>2. k \in 1 .. a \/ k \in a + 1 .. a + b \/ k \in a + b + 1 .. n
      BY <1>3, <1>4
    <3>3. features[i].event \in Cut(1, a) \/ features[i].event \in Cut(a + 1, a + b) \/ features[i].event \in Cut(a + b + 1, n)
      BY <3>1, <3>2
    <3> HIDE DEF Cut
    <3> QED  BY <3>3 DEF SamplesOf
  <2> QED  BY <2>1 DEF SamplesOf
<1> HIDE DEF Some, n, a, b
<1>10. /\ EventsOf(Some(1, a)) \cap EventsOf(Some(a + 1, a + b)) = {}
       /\ \A i \in Some(1, a), k \in Some(a + 1, a + b) : EventStart[i] <= EventStart[k]
  <2>1. /\ 1 \in Int /\ 1 >= 1 /\ 1 <= a /\ a < a + b /\ a + b <= n /\ a + 1 > a /\ a + 1 <= a + b
        /\ a + b \in Int /\ a + 1 \in Int
    BY <1>3, <1>4
  <2> QED  BY <1>4, <1>8, <2>1
<1>11. /\ EventsOf(Some(a + 1, a + b)) \cap EventsOf(Some(a + b + 1, n)) = {}
       /\ \A i \in Some(a + 1, a + b), k \in Some(a + b + 1, n) : EventStart[i] <= EventStart[k]
  <2>1. /\ a + 1 >= 1 /\ a + 1 <= a + b /\ a + b < n /\ n <= n /\ a + b + 1 > a + b /\ a + b + 1 <= n
        /\ a + b \in Int /\ a + 1 \in Int /\ a + b + 1 \in Int /\ n \in Int
    BY <1>3, <1>4
  <2> QED  BY <1>4, <1>8, <2>1
<1>12. EventsOf(Some(1, a)) \cap EventsOf(Some(a + b + 1, n)) = {}
  <2>1. 1 \in Int /\ 1 >= 1 /\ 1 <= a /\ a < n /\ n <= n /\ a + b + 1 > a /\ a + b + 1 <= n /\ a + b + 1 \in Int /\ n \in Int
    BY <1>3, <1>4
  <2> QED  BY <1>4, <1>8, <2>1
<1> HIDE DEF split
<1> QED  BY <1>6, <1>9, <1>10, <1>11, <1>12 DEF split, S

-----------------------------------------------------------------------------
(* The tennis baseline and its calibrator *)

LEMMA TennisPartsAreInOrder ==
  ASSUME RowsInv
  PROVE  PartsInOrder
BY PartsAreInOrder DEF PartsInOrder

LEMMA BaselineKeeps ==
  ASSUME DayInv, ModelsInv, TrainTennisBaseline
  PROVE  ModelsInv'
<1>1. RowsInv /\ sport = "TENNIS" /\ base = None /\ calibrated = None /\ calibrated' = calibrated
  BY DEF DayInv, ModelsInv, TrainTennisBaseline, Present
<1> DEFINE split == SplitEventsTemporally(Samples)
<1>2. SplitPossible(Cardinality(EventsOf(Samples)))
  BY DEF TrainTennisBaseline, Trainable, Samples
<1>3. /\ EventsOf(split.train) \cap EventsOf(split.validation) = {}
      /\ EventsOf(split.validation) \cap EventsOf(split.test) = {}
      /\ EventsOf(split.train) \cap EventsOf(split.test) = {}
  BY <1>1, <1>2, PartsAreInOrder
<1>4. PICK b \in BOOLEAN :
        base' = [train |-> EventsOf(split.train), validation |-> EventsOf(split.validation),
                 test |-> EventsOf(split.test),
                 candidate_status |-> IF b THEN "PROMOTION_ELIGIBLE" ELSE "REJECTED_CANDIDATE"]
  BY DEF TrainTennisBaseline, Samples
<1> HIDE DEF split
<1>5. /\ base'.train = EventsOf(split.train) /\ base'.validation = EventsOf(split.validation)
      /\ base'.test = EventsOf(split.test)
  BY <1>4
<1>6. Apart(base')
  BY <1>3, <1>5 DEF Apart
<1> QED  BY <1>1, <1>6 DEF ModelsInv, Present

LEMMA CalibratorKeeps ==
  ASSUME ModelsInv, TrainTennisCalibrator
  PROVE  ModelsInv'
<1>1. Present(base) /\ base' = base /\ calibrated' = EventsOf(ValidationSamples)
  BY DEF TrainTennisCalibrator
<1>2. EventsOf(ValidationSamples) \subseteq base.validation
  BY DEF ValidationSamples, EventsOf, SamplesOf
<1> QED  BY <1>1, <1>2 DEF ModelsInv

LEMMA ModelsKeep ==
  ASSUME DayInv, ModelsInv, [Next]_vars
  PROVE  ModelsInv'
<1>1. ASSUME UNCHANGED models  PROVE ModelsInv'
  BY <1>1 DEF ModelsInv, models
<1>2. ASSUME NEW e \in Live, Reschedule(e) \/ Begin(e) \/ End(e) \/ PutOff(e) \/ Resume(e)
      PROVE  UNCHANGED models
  BY <1>2 DEF Reschedule, Begin, End, PutOff, Resume
<1>3. ASSUME Fetch \/ Save \/ Die \/ Wait  PROVE UNCHANGED models
  BY <1>3 DEF Fetch, Save, Die, Wait
<1>4. ASSUME NEW p \in Syncs, SyncWrite(p) \/ \E e \in Live : SyncLook(p, e)  PROVE UNCHANGED models
  BY <1>4 DEF SyncWrite, SyncLook
<1>5. ASSUME UNCHANGED vars  PROVE UNCHANGED models
  BY <1>5 DEF vars
<1> QED  BY <1>1, <1>2, <1>3, <1>4, <1>5, BaselineKeeps, CalibratorKeeps DEF Next

LEMMA CalibratorIsBlind ==
  ASSUME ModelsInv
  PROVE  CalibratorUnseen
BY DEF ModelsInv, CalibratorUnseen, Apart

-----------------------------------------------------------------------------
(* Walk-forward folds *)

LEMMA BacktestRowsAreThere ==
  ASSUME RowsInv
  PROVE  /\ BacktestRows \subseteq DOMAIN features /\ IsFiniteSet(BacktestRows)
         /\ \A i \in BacktestRows : i \in Nat /\ ComputedAt[i] = features[i].computed_at
                                    /\ ComputedAt[i] \in Int /\ features[i].event \in Int
<1>1. DOMAIN features = 1 .. Len(features) /\ Len(features) \in Nat
  BY DEF RowsInv
<1>2. BacktestRows \subseteq DOMAIN features
  BY DEF BacktestRows
<1>3. IsFiniteSet(DOMAIN features)
  BY <1>1, UpToIsFinite
<1>4. ASSUME NEW i \in BacktestRows
      PROVE  i \in Nat /\ ComputedAt[i] = features[i].computed_at /\ ComputedAt[i] \in Int /\ features[i].event \in Int
  <2>1. i \in DOMAIN features
    BY <1>2
  <2>2. features[i].computed_at \in Int /\ features[i].event \in Int
    BY <2>1, RowIs
  <2> QED  BY <1>1, <2>1, <2>2 DEF ComputedAt
<1> QED  BY <1>2, <1>3, <1>4, FS_Subset

\* The rows of a walk come in the order in which they were computed.
LEMMA OrderedIs ==
  ASSUME RowsInv
  PROVE  LET n == Cardinality(BacktestRows) IN
         /\ n \in Nat /\ Ordered \in Seq(BacktestRows) /\ Len(Ordered) = n
         /\ \A i \in 1 .. n : Ordered[i] \in BacktestRows /\ ComputedAt[Ordered[i]] \in Int
         /\ \A i, j \in 1 .. n : i < j => ComputedAt[Ordered[i]] <= ComputedAt[Ordered[j]]
<1> DEFINE S == BacktestRows
           Below(u, v) == u[1] < v[1] \/ (u[1] = v[1] /\ (u[2] < v[2] \/ (u[2] = v[2] /\ u[3] < v[3])))
           Key(i) == <<ComputedAt[i], features[i].event, i>>
           R == {p \in S \X S : Below(Key(p[1]), Key(p[2]))}
<1>1. IsFiniteSet(S) /\ \A i \in S : i \in Nat /\ ComputedAt[i] \in Int /\ features[i].event \in Int
  BY BacktestRowsAreThere
<1>2. Ordered = InOrder(S, R)
  BY DEF Ordered
<1>3. \A i, k \in S : <<i, k>> \in R <=>
        \/ ComputedAt[i] < ComputedAt[k]
        \/ ComputedAt[i] = ComputedAt[k] /\
            (features[i].event < features[k].event \/ (features[i].event = features[k].event /\ i < k))
  <2> HIDE DEF S
  <2> QED  OBVIOUS
<1> HIDE DEF S, R
<1>4. Lines(R, S)
  <2>1. \A x \in S : <<x, x>> \notin R
    BY <1>1, <1>3
  <2>2. \A x, y \in S : x # y => <<x, y>> \in R \/ <<y, x>> \in R
    BY <1>1, <1>3
  <2>3. ASSUME NEW x \in S, NEW y \in S, NEW z \in S, <<x, y>> \in R, <<y, z>> \in R  PROVE <<x, z>> \in R
    BY <1>1, <1>3, <2>3
  <2> QED  BY <2>1, <2>2, <2>3 DEF Lines
<1> DEFINE N == Cardinality(S)
           s == InOrder(S, R)
<1>5. /\ N \in Nat /\ s \in [1 .. N -> S] /\ s \in Seq(S) /\ Len(s) = N
      /\ \A i, j \in 1 .. N : i < j <=> <<s[i], s[j]>> \in R
  BY <1>1, <1>4, InOrderIs
<1> HIDE DEF s, N
<1>6. \A i \in 1 .. N : s[i] \in S /\ ComputedAt[s[i]] \in Int
  BY <1>1, <1>5
<1> HIDE DEF Below, Key
<1>7. ASSUME NEW i \in 1 .. N, NEW j \in 1 .. N, i < j
      PROVE  ComputedAt[s[i]] <= ComputedAt[s[j]]
  <2>1. <<s[i], s[j]>> \in R /\ s[i] \in S /\ s[j] \in S
    BY <1>5, <1>6, <1>7
  <2>2. ComputedAt[s[i]] < ComputedAt[s[j]] \/ ComputedAt[s[i]] = ComputedAt[s[j]]
    BY <1>3, <2>1
  <2> QED  BY <1>6, <2>2
<1> QED  BY <1>2, <1>5, <1>6, <1>7 DEF s, N, S

\* A place between two rows of different moments, or the end.
Edge(rows, w) == w = 0 \/ w >= Len(rows) \/ ComputedAt[rows[w + 1]] # ComputedAt[rows[w]]

LEMMA WidenedIs ==
  ASSUME NEW rows, Len(rows) \in Nat, NEW end \in Nat
  PROVE  /\ Widened(rows, end) \in Nat /\ end <= Widened(rows, end)
         /\ Edge(rows, Widened(rows, end))
         /\ end <= Len(rows) => Widened(rows, end) <= Len(rows)
         /\ end >= Len(rows) => Widened(rows, end) = end
<1> DEFINE n == Len(rows)
<1>1. CASE end = 0 \/ end >= n
  <2>1. Widened(rows, end) = end
    BY <1>1 DEF Widened
  <2> QED  BY <1>1, <2>1 DEF Edge
<1>2. CASE ~(end = 0 \/ end >= n)
  <2> DEFINE Same(k) == ComputedAt[rows[k + 1]] = ComputedAt[rows[k]]
             T == {w \in end .. n : w = n \/ ~Same(w)}
  <2>1. Widened(rows, end) = CHOOSE w \in end .. n : (\A k \in end .. w - 1 : Same(k)) /\ (w = n \/ ~Same(w))
    BY <1>2 DEF Widened
  <2> HIDE DEF n, Same
  <2>2. T \subseteq Nat /\ n \in T /\ n \in Nat
    BY <1>2 DEF n
  <2>3. PICK m \in T : \A y \in T : m <= y
    <3> HIDE DEF T
    <3> QED  BY <2>2, LeastIsThere
  <2>4. ASSUME NEW k \in end .. m - 1  PROVE Same(k)
    <3>1. k \in end .. n /\ k # n /\ ~(m <= k)
      BY <2>2, <2>3
    <3> QED  BY <2>3, <3>1
  <2>5. Widened(rows, end) \in end .. n /\ (Widened(rows, end) = n \/ ~Same(Widened(rows, end)))
    <3>1. m \in end .. n /\ (m = n \/ ~Same(m))
      OBVIOUS
    <3> QED  BY <2>1, <2>4, <3>1
  <2>6. Widened(rows, end) \in Nat /\ end <= Widened(rows, end) /\ Widened(rows, end) <= n
    BY <2>2, <2>5
  <2>7. Widened(rows, end) >= n \/ ~Same(Widened(rows, end))
    BY <2>2, <2>5
  <2> QED  BY <1>2, <2>2, <2>6, <2>7 DEF n, Same, Edge
<1> QED  BY <1>1, <1>2

\* Every fold ends its training at an edge: the rows of one moment are on one side.
LEMMA TrainEndsAreEdges ==
  ASSUME NEW rows, Len(rows) \in Nat, NEW end \in TrainEnds(rows) \ {0}
  PROVE  end \in Nat /\ 0 < end /\ end < Len(rows) /\ Edge(rows, end)
<1> DEFINE n == Len(rows)
           m == Max({n, MinTrain})
           After(w) == IF w >= n THEN n ELSE Widened(rows, Widened(rows, Min({w + TestBlock, n})))
           step[k \in 0 .. n] ==
              IF k = 0 THEN Widened(rows, MinTrain)
              ELSE IF step[k - 1] >= n THEN n
              ELSE Widened(rows, Widened(rows, Min({step[k - 1] + TestBlock, n})))
           A == {w \in Nat : w <= m /\ Edge(rows, w)}
           a == Widened(rows, MinTrain)
           h == [p \in Nat \X A |-> After(p[2])]
<1>1. n \in Nat /\ m \in Nat /\ n <= m /\ MinTrain <= m /\ m \in {n, MinTrain} /\ MinTrain \in Nat /\ TestBlock \in Nat
  <2>1. MinTrain \in Nat /\ TestBlock \in Nat /\ n \in Int
    BY TrainingAssumption
  <2> HIDE DEF n
  <2>2. MinTrain \in Int
    BY <2>1
  <2>3. m \in {n, MinTrain} /\ n <= m /\ MinTrain <= m
    BY <2>1, <2>2, LargerOfTwo
  <2> QED  BY <2>1, <2>3 DEF n
<1>2. TrainEnds(rows) = {step[k] : k \in 0 .. n} \ {w \in 0 .. m : w >= n}
  BY DEF TrainEnds
<1>3. a \in A
  <2>1. a \in Nat /\ Edge(rows, a) /\ (MinTrain <= n => a <= n) /\ (MinTrain >= n => a = MinTrain)
    BY <1>1, WidenedIs
  <2> HIDE DEF a, m, n
  <2> QED  BY <1>1, <2>1
<1>4. ASSUME NEW w \in A  PROVE After(w) \in A
  <2>1. w \in Nat
    OBVIOUS
  <2>2. CASE w >= n
    <3>1. Edge(rows, n)
      BY <1>1 DEF Edge
    <3> QED  BY <1>1, <2>2, <3>1
  <2>3. CASE ~(w >= n)
    <3> DEFINE u == Min({w + TestBlock, n})
    <3>1. u \in {w + TestBlock, n} /\ u <= n
      <4>1. w + TestBlock \in Int /\ n \in Int
        BY <1>1, <2>1
      <4> HIDE DEF n
      <4> QED  BY <4>1, SmallerOfTwo
    <3>2. u \in Nat
      BY <1>1, <2>1, <3>1
    <3> HIDE DEF u
    <3>3. Widened(rows, u) \in Nat /\ Widened(rows, u) <= n
      BY <1>1, <3>1, <3>2, WidenedIs
    <3> DEFINE v == Widened(rows, u)
    <3>4. v \in Nat /\ v <= n
      BY <3>3
    <3> HIDE DEF v
    <3>5. Widened(rows, v) \in Nat /\ Widened(rows, v) <= n /\ Edge(rows, Widened(rows, v))
      BY <1>1, <3>4, WidenedIs
    <3>6. After(w) = Widened(rows, v)
      BY <2>3 DEF u, v
    <3> HIDE DEF After, m, n
    <3> QED  BY <1>1, <3>5, <3>6
  <2> QED  BY <2>2, <2>3
<1>5. h \in [Nat \X A -> A] /\ \A k \in Nat, w \in A : h[<<k, w>>] = After(w)
  <2> HIDE DEF After, A
  <2> QED  BY <1>4
<1> HIDE DEF h, A
<1>6. PICK f \in [0 .. n -> A] : f[0] = a /\ \A k \in 1 .. n : f[k] = h[<<k, f[k - 1]>>]
  <2> HIDE DEF a, n, m, step, After
  <2>1. n \in Nat /\ a \in A /\ h \in [Nat \X A -> A]
    BY <1>1, <1>3, <1>5
  <2>2. \E f \in [0 .. n -> A] : Steps(f, a, h, n)
    BY <2>1, StepsAreDefined, Zenon
  <2> QED  BY <2>2 DEF Steps
<1>7. f = [k \in 0 .. n |-> IF k = 0 THEN a ELSE After(f[k - 1])]
  <2>1. ASSUME NEW k \in 0 .. n, k # 0  PROVE f[k] = After(f[k - 1])
    <3>1. k \in 1 .. n /\ k \in Nat /\ k - 1 \in 0 .. n
      BY <1>1, <2>1
    <3>2. f[k - 1] \in A
      BY <3>1
    <3> HIDE DEF After
    <3> QED  BY <1>5, <1>6, <3>1, <3>2
  <2> HIDE DEF After, a
  <2> QED  BY <1>6, <2>1
<1>8. PICK g : g = step /\ g = [k \in 0 .. n |-> IF k = 0 THEN a ELSE After(g[k - 1])]
  BY <1>7
<1> HIDE DEF step, n, m, a, After
<1>9. \A k \in 0 .. n : g[k] \in A
  <2>1. g[0] \in A
    BY <1>1, <1>3, <1>8
  <2>2. ASSUME NEW k \in 1 .. n, g[k - 1] \in A  PROVE g[k] \in A
    <3>1. k \in 0 .. n /\ k # 0
      BY <1>1
    <3>2. After(g[k - 1]) \in A
      BY <1>4, <2>2
    <3> QED  BY <1>8, <3>1, <3>2
  <2>3. \A k \in 1 .. n : g[k - 1] \in A => g[k] \in A
    BY <2>2
  <2>4. n \in Nat
    BY <1>1
  <2> QED  BY <2>1, <2>3, <2>4, StepsStay
<1>10. PICK k \in 0 .. n : end = step[k]
  BY <1>2
<1>11. end \in A
  BY <1>8, <1>9, <1>10
<1>12. end \notin {w \in 0 .. m : w >= n} /\ end # 0
  BY <1>2
<1>13. end \in Nat /\ end <= m /\ Edge(rows, end)
  BY <1>11 DEF A
<1> QED  BY <1>1, <1>12, <1>13 DEF n

\* What a fold is: rows up to an edge, rows after it.
LEMMA FoldIs ==
  ASSUME RowsInv, NEW fold \in Folds
  PROVE  /\ \A i \in fold.train : i \in BacktestRows /\ ComputedAt[i] <= fold.boundary
         /\ \A i \in fold.test : i \in BacktestRows /\ ComputedAt[i] > fold.boundary
         /\ fold.boundary \in Int
<1> DEFINE rows == Ordered
           n == Len(rows)
<1>1. PICK end \in TrainEnds(rows) \ {0} :
        fold = [train |-> ToSet(SubSeq(rows, 1, end)),
                test |-> ToSet(SubSeq(rows, end + 1, Widened(rows, Min({end + TestBlock, Len(rows)})))),
                boundary |-> ComputedAt[rows[end]]]
  BY DEF Folds
<1> DEFINE u == Widened(rows, Min({end + TestBlock, n}))
<1>2. /\ fold.train = ToSet(SubSeq(rows, 1, end)) /\ fold.test = ToSet(SubSeq(rows, end + 1, u))
      /\ fold.boundary = ComputedAt[rows[end]]
  <2> HIDE DEF rows
  <2> QED  BY <1>1
<1>3. /\ n \in Nat /\ rows \in Seq(BacktestRows)
      /\ \A i \in 1 .. n : rows[i] \in BacktestRows /\ ComputedAt[rows[i]] \in Int
      /\ \A i, j \in 1 .. n : i < j => ComputedAt[rows[i]] <= ComputedAt[rows[j]]
  BY OrderedIs
<1> HIDE DEF rows
<1>4. end \in Nat /\ 0 < end /\ end < n /\ ComputedAt[rows[end + 1]] # ComputedAt[rows[end]]
  <2>1. end \in Nat /\ 0 < end /\ end < n /\ Edge(rows, end)
    BY <1>3, TrainEndsAreEdges
  <2> QED  BY <1>3, <2>1 DEF Edge
<1>5. u \in Nat /\ u <= n
  <2> DEFINE w == Min({end + TestBlock, n})
  <2>1. end + TestBlock \in Nat /\ TestBlock \in Nat
    BY <1>4, TrainingAssumption
  <2> HIDE DEF n
  <2>2. w \in {end + TestBlock, n} /\ w <= n
    <3>1. end + TestBlock \in Int /\ n \in Int
      BY <2>1, <1>3
    <3> QED  BY <3>1, SmallerOfTwo
  <2>3. w \in Nat
    BY <2>1, <2>2, <1>3
  <2> HIDE DEF w
  <2>4. Widened(rows, w) \in Nat /\ Widened(rows, w) <= n
    BY <1>3, <2>2, <2>3, WidenedIs DEF n
  <2> QED  BY <2>4 DEF w, n
<1> HIDE DEF u
<1>6. fold.train = {rows[k] : k \in 1 .. end}
  <2>1. 1 \in Nat \ {0} /\ end \in Int /\ end <= Len(rows)
    BY <1>3, <1>4
  <2> QED  BY <1>2, <1>3, <2>1, CutIs
<1>7. fold.test = {rows[k] : k \in end + 1 .. u}
  <2>1. end + 1 \in Nat \ {0} /\ u \in Int /\ u <= Len(rows)
    BY <1>3, <1>4, <1>5
  <2> QED  BY <1>2, <1>3, <2>1, CutIs
<1> HIDE DEF n
<1>8. end \in 1 .. n /\ end + 1 \in 1 .. n
  BY <1>3, <1>4
<1>9. fold.boundary \in Int
  BY <1>2, <1>3, <1>8
<1>10. ASSUME NEW k \in 1 .. end  PROVE rows[k] \in BacktestRows /\ ComputedAt[rows[k]] <= fold.boundary
  <2>1. k \in 1 .. n /\ (k < end \/ k = end)
    BY <1>3, <1>4
  <2> QED  BY <1>2, <1>3, <1>8, <2>1
<1>11. ASSUME NEW k \in end + 1 .. u  PROVE rows[k] \in BacktestRows /\ ComputedAt[rows[k]] > fold.boundary
  <2>1. k \in 1 .. n /\ (end + 1 < k \/ end + 1 = k)
    BY <1>3, <1>4, <1>5
  <2>2. /\ ComputedAt[rows[k]] \in Int /\ ComputedAt[rows[end]] \in Int /\ ComputedAt[rows[end + 1]] \in Int
        /\ rows[k] \in BacktestRows
    BY <1>3, <1>8, <2>1
  <2>3. ComputedAt[rows[end + 1]] <= ComputedAt[rows[k]]
    BY <1>3, <1>8, <2>1, <2>2
  <2>4. ComputedAt[rows[end]] <= ComputedAt[rows[end + 1]]
    <3>1. end < end + 1
      BY <1>4
    <3> QED  BY <1>3, <1>8, <3>1
  <2> QED  BY <1>2, <1>4, <2>2, <2>3, <2>4
<1> QED  BY <1>6, <1>7, <1>9, <1>10, <1>11

LEMMA FoldIsBlind ==
  ASSUME RowsInv, \A e \in {results[i].event : i \in DOMAIN results} : Cardinality(GetResults(e)) = 1,
         NEW fold \in Folds
  PROVE  /\ fold.test \cap ScopedFeatures(fold.boundary) = {}
         /\ fold.train \subseteq ScopedFeatures(fold.boundary)
         /\ \A i \in ScopedResults(fold.boundary) : results[i].event \notin EventsOf(fold.test)
<1>1. /\ \A i \in fold.train : i \in BacktestRows /\ ComputedAt[i] <= fold.boundary
      /\ \A i \in fold.test : i \in BacktestRows /\ ComputedAt[i] > fold.boundary
      /\ fold.boundary \in Int
  BY FoldIs
<1>2. \A i \in BacktestRows :
        i \in DOMAIN features /\ ComputedAt[i] = features[i].computed_at /\ ComputedAt[i] \in Int
  BY BacktestRowsAreThere
<1>3. ASSUME NEW i \in fold.test  PROVE i \notin ScopedFeatures(fold.boundary)
  <2>1. ~(features[i].computed_at <= fold.boundary)
    BY <1>1, <1>2
  <2> QED  BY <2>1 DEF ScopedFeatures
<1>4. ASSUME NEW i \in fold.train  PROVE i \in ScopedFeatures(fold.boundary)
  <2>1. i \in DOMAIN features /\ features[i].computed_at <= fold.boundary /\ features[i].computed_at \in Int
    BY <1>1, <1>2
  <2>2. /\ features[i].snapshot \in DOMAIN snapshots
        /\ snapshots[features[i].snapshot].captured_at \in Int
        /\ snapshots[features[i].snapshot].captured_at <= features[i].computed_at
    BY <2>1, RowIs
  <2>3. snapshots[features[i].snapshot].captured_at <= fold.boundary
    BY <1>1, <2>1, <2>2
  <2> QED  BY <2>1, <2>2, <2>3 DEF ScopedFeatures, ScopedSnapshots
<1>5. ASSUME NEW i \in ScopedResults(fold.boundary), NEW t \in fold.test, results[i].event = features[t].event
      PROVE  FALSE
  <2> DEFINE e == features[t].event
  <2>1. t \in BacktestRows /\ t \in DOMAIN features /\ features[t].computed_at > fold.boundary
        /\ features[t].computed_at \in Int
    BY <1>1, <1>2
  <2>2. Labelled(t, features[t].sport) = "valid"
    BY <2>1 DEF BacktestRows
  <2>3. /\ Present(LatestResult(e))
        /\ ~(features[t].computed_at >= LatestResult(e).recorded_at)
    BY <2>2, LabelledIsValid
  <2>4. PICK k \in GetResults(e) : LatestResult(e) = results[k]
    BY <2>3, LatestIsRecorded
  <2>5. i \in GetResults(e) /\ i \in DOMAIN results /\ results[i].recorded_at <= fold.boundary
    BY <1>5 DEF ScopedResults, GetResults
  <2>6. i = k
    <3>1. Cardinality(GetResults(e)) = 1
      BY <1>5, <2>5
    <3>2. IsFiniteSet(GetResults(e))
      BY ResultsAreFinite DEF RowsInv
    <3>3. PICK x : GetResults(e) = {x}
      <4> HIDE DEF e
      <4> QED  BY <3>1, <3>2, FS_Singleton
    <3> QED  BY <2>5, <3>3
  <2>7. results[i].recorded_at \in Int
    <3>1. results \in Seq(ResultRow)
      BY DEF RowsInv
    <3>2. results[i] \in ResultRow
      BY <2>5, <3>1
    <3> QED  BY <3>2 DEF ResultRow
  <2> QED  BY <1>1, <2>1, <2>3, <2>4, <2>5, <2>6, <2>7
<1> QED  BY <1>3, <1>4, <1>5 DEF EventsOf

LEMMA FoldsAreBlind ==
  ASSUME RowsInv
  PROVE  FoldsBlind
BY FoldIsBlind DEF FoldsBlind

LEMMA TestedIsNotSeen ==
  ASSUME DayInv, ModelsInv
  PROVE  NothingTestedIsSeen
<1>1. RowsInv
  BY DEF DayInv
<1> QED  BY <1>1, SplitIsWhole, TennisPartsAreInOrder, FoldsAreBlind, CalibratorIsBlind DEF NothingTestedIsSeen

-----------------------------------------------------------------------------
(* Types and ratings *)

LEMMA TrainingTypes ==
  ASSUME DayInv
  PROVE  TrainingTypeOK
<1>1. clock \in 0 .. MaxClock /\ \A e \in Live : world[e].phase \in {"pre", "live", "over", "off"} /\ world[e].winners \subseteq Sides
  <2>1. \A e \in Live : world[e] \in Event
    BY DEF DayInv, WorldInv
  <2> QED  BY <2>1 DEF Event, DayInv, WorldInv
<1>2. RowsRefer(snapshots, features)
  BY DEF DayInv, RowsInv
<1>3. \A i \in DOMAIN results : results[i].result \in VALID_RESULTS \cup {"POSTPONED"}
  <2>1. \A i \in DOMAIN results : results[i] \in ResultRow
    BY DEF DayInv, RowsInv
  <2> QED  BY <2>1 DEF ResultRow
<1>4. \A p \in Syncs : Present(sync[p]) => sync[p].event \in Live
  <2>1. \A p \in Syncs : sync[p] \in {None} \cup [event : Live, result : VALID_RESULTS \cup {"POSTPONED"}]
    BY DEF DayInv, ResultsInv
  <2> QED  BY <2>1 DEF Present
<1> QED  BY <1>1, <1>2, <1>3, <1>4 DEF TrainingTypeOK

\* Ratings that add up to what the teams started with.
Balanced == {r \in [{"x", "y"} -> Int] : r["x"] + r["y"] = 2 * INITIAL_RATING}

LEMMA ExpectedIsInt ==
  ASSUME NEW d \in Int
  PROVE  Expected(d) \in Int
<1> DEFINE reached == {t \in DOMAIN Promise : t <= d}
<1>1. reached \subseteq Int /\ IsFiniteSet(reached) /\ reached \subseteq DOMAIN Promise
  BY TrainingAssumption, FS_Subset
<1>2. Expected(d) = IF reached = {} THEN 0 ELSE Promise[Max(reached)]
  BY DEF Expected
<1> HIDE DEF reached
<1>3. CASE reached = {}
  BY <1>2, <1>3
<1>4. CASE reached # {}
  <2>1. Max(reached) \in DOMAIN Promise
    BY <1>1, <1>4, LargestIsThere
  <2>2. Promise[Max(reached)] \in 0 .. One
    BY <2>1, TrainingAssumption
  <2> QED  BY <1>2, <1>4, <2>2
<1> QED  BY <1>3, <1>4

\* A game takes from one team what it gives to the other.
LEMMA RatedKeepsBalance ==
  ASSUME NEW r \in Balanced, NEW e
  PROVE  Rated(r, e) \in Balanced
<1>1. Away(e) \in {"x", "y"} /\ Home(e) \in {"x", "y"} /\ Away(e) # Home(e)
  BY DEF Away, Home
<1> DEFINE a == Away(e)
           b == Home(e)
           home == r[b] + HOME_ADVANTAGE
           actual == IF LatestResult(e).result = "PARTICIPANT_A_WON" THEN One ELSE 0
           delta == (K * (actual - Expected(r[a] - home))) \div One
<1>2. r \in [{"x", "y"} -> Int] /\ r["x"] + r["y"] = 2 * INITIAL_RATING
  BY DEF Balanced
<1>3. Rated(r, e) = [r EXCEPT ![a] = @ + delta, ![b] = @ - delta]
  BY DEF Rated
<1> HIDE DEF a, b
<1>4. a \in {"x", "y"} /\ b \in {"x", "y"} /\ a # b
  BY <1>1 DEF a, b
<1>5. r[a] \in Int /\ home \in Int /\ r[a] - home \in Int
  BY <1>2, <1>4 DEF HOME_ADVANTAGE
<1>6. actual \in Int
  BY DEF One
<1> HIDE DEF actual, home
<1>7. Expected(r[a] - home) \in Int
  BY <1>5, ExpectedIsInt
<1> DEFINE p == Expected(r[a] - home)
<1>8. delta \in Int
  <2>1. p \in Int
    BY <1>7
  <2>2. delta = (20 * (actual - p)) \div 10000
    BY DEF K, One
  <2> HIDE DEF p, delta
  <2>3. 20 * (actual - p) \in Int
    BY <1>6, <2>1
  <2> QED  BY <2>2, <2>3
<1> HIDE DEF delta
<1> DEFINE q == [r EXCEPT ![a] = @ + delta, ![b] = @ - delta]
<1>9. q \in [{"x", "y"} -> Int] /\ q["x"] + q["y"] = r["x"] + r["y"]
  <2>1. CASE a = "x" /\ b = "y"
    BY <1>2, <1>8, <2>1
  <2>2. CASE a = "y" /\ b = "x"
    BY <1>2, <1>8, <2>2
  <2> QED  BY <1>4, <2>1, <2>2
<1> QED  BY <1>2, <1>3, <1>9 DEF Balanced

LEMMA InOrderIsAsLong ==
  ASSUME NEW S, NEW R, Cardinality(S) \in Nat
  PROVE  Len(InOrder(S, R)) = Cardinality(S)
<1> DEFINE N == Cardinality(S)
           Place(x) == Cardinality({y \in S : <<y, x>> \in R}) + 1
           m(n) == CHOOSE x \in S : Place(x) = n
<1>1. InOrder(S, R) = [n \in 1 .. N |-> m(n)]
  BY DEF InOrder
<1>2. N \in Nat
  OBVIOUS
<1> HIDE DEF N, m
<1>3. Len([n \in 1 .. N |-> m(n)]) = N
  BY <1>2
<1> QED  BY <1>1, <1>3 DEF N

LEMMA GamesAreCounted ==
  ASSUME RowsInv
  PROVE  Len(EloGames) \in Nat
<1> DEFINE listed == {snapshots[i].event : i \in {k \in DOMAIN snapshots : snapshots[k].sport = "MLB"}}
           first == [e \in listed |-> snapshots[Min({i \in DOMAIN snapshots : snapshots[i].event = e})]]
           usable == {e \in DOMAIN first :
                     /\ Present(LatestResult(e)) /\ Present(first[e].start)
                     /\ LatestResult(e).result \in VALID_RESULTS}
           R == {p \in usable \X usable :
                   first[p[1]].start < first[p[2]].start \/ (first[p[1]].start = first[p[2]].start /\ p[1] < p[2])}
<1>1. EloGames = InOrder(usable, R)
  BY DEF EloGames
<1>2. usable \subseteq listed
  OBVIOUS
<1> HIDE DEF usable, R
<1>3. IsFiniteSet(listed)
  <2>1. DOMAIN snapshots = 1 .. Len(snapshots) /\ Len(snapshots) \in Nat
    BY DEF RowsInv
  <2> DEFINE D == {k \in DOMAIN snapshots : snapshots[k].sport = "MLB"}
             f == [k \in D |-> snapshots[k].event]
  <2>2. IsFiniteSet(DOMAIN snapshots)
    BY <2>1, UpToIsFinite
  <2>3. IsFiniteSet(D)
    BY <2>2, FS_Subset
  <2>4. listed = {f[k] : k \in D}
    OBVIOUS
  <2> HIDE DEF f, D, listed
  <2> QED  BY <2>3, <2>4, ImageIsFinite
<1> HIDE DEF listed
<1>4. Cardinality(usable) \in Nat
  BY <1>2, <1>3, FS_Subset, FS_CardinalityType
<1> QED  BY <1>1, <1>4, InOrderIsAsLong

LEMMA RatingsAreBalanced ==
  ASSUME RowsInv
  PROVE  EloZeroSum
<1> DEFINE games == EloGames
           n == Len(games)
           init == [t \in {"x", "y"} |-> INITIAL_RATING]
           after[k \in 0 .. n] == IF k = 0 THEN init ELSE Rated(after[k - 1], games[k])
           h == [p \in Nat \X Balanced |-> Rated(p[2], games[p[1]])]
<1>1. n \in Nat
  BY GamesAreCounted
<1>2. EloRatings = after[n]
  BY DEF EloRatings
<1>3. init \in Balanced
  BY DEF Balanced, INITIAL_RATING
<1>4. h \in [Nat \X Balanced -> Balanced] /\ \A k \in Nat, r \in Balanced : h[<<k, r>>] = Rated(r, games[k])
  <2> HIDE DEF games
  <2> QED  BY RatedKeepsBalance
<1> HIDE DEF h, games, init
<1>5. PICK f \in [0 .. n -> Balanced] : f[0] = init /\ \A k \in 1 .. n : f[k] = h[<<k, f[k - 1]>>]
  <2> HIDE DEF n, after
  <2>1. n \in Nat /\ init \in Balanced /\ h \in [Nat \X Balanced -> Balanced]
    BY <1>1, <1>3, <1>4
  <2>2. \E f \in [0 .. n -> Balanced] : Steps(f, init, h, n)
    BY <2>1, StepsAreDefined, Zenon
  <2> QED  BY <2>2 DEF Steps
<1>6. f = [k \in 0 .. n |-> IF k = 0 THEN init ELSE Rated(f[k - 1], games[k])]
  <2>1. ASSUME NEW k \in 0 .. n, k # 0  PROVE f[k] = Rated(f[k - 1], games[k])
    <3>1. k \in 1 .. n /\ k \in Nat /\ k - 1 \in 0 .. n
      BY <1>1, <2>1
    <3>2. f[k - 1] \in Balanced
      BY <3>1
    <3> QED  BY <1>4, <1>5, <3>1, <3>2
  <2> QED  BY <1>5, <2>1
<1>7. PICK g : g = after /\ g = [k \in 0 .. n |-> IF k = 0 THEN init ELSE Rated(g[k - 1], games[k])]
  BY <1>6
<1> HIDE DEF after, n
<1>8. \A k \in 0 .. n : g[k] \in Balanced
  <2>1. g[0] \in Balanced
    BY <1>1, <1>3, <1>7
  <2>2. ASSUME NEW k \in 1 .. n, g[k - 1] \in Balanced  PROVE g[k] \in Balanced
    <3>1. k \in 0 .. n /\ k # 0
      BY <1>1
    <3>2. Rated(g[k - 1], games[k]) \in Balanced
      BY <2>2, RatedKeepsBalance
    <3> QED  BY <1>7, <3>1, <3>2
  <2>3. \A k \in 1 .. n : g[k - 1] \in Balanced => g[k] \in Balanced
    BY <2>2
  <2> QED  BY <1>1, <2>1, <2>3, StepsStay
<1>9. EloRatings \in Balanced
  BY <1>1, <1>2, <1>7, <1>8
<1> QED  BY <1>9 DEF EloZeroSum, Balanced

-----------------------------------------------------------------------------
(* The form of a pitcher *)

\* A map of the first numbers to themselves that keeps their order moves none.
LEMMA IncreasingIsIdentity ==
  ASSUME NEW n \in Nat, NEW f, \A k \in 1 .. n : f[k] \in 1 .. n,
         \A j, k \in 1 .. n : j < k => f[j] < f[k]
  PROVE  \A k \in 1 .. n : f[k] = k
<1> DEFINE Low == {k \in 1 .. n : f[k] < k}
           High == {k \in 1 .. n : f[k] > k}
<1>1. Low = {}
  <2> SUFFICES ASSUME Low # {}  PROVE FALSE
    OBVIOUS
  <2>1. Low \subseteq Nat
    OBVIOUS
  <2>2. PICK m \in Low : \A y \in Low : m <= y
    <3> HIDE DEF Low
    <3> QED  BY <2>1, LeastIsThere
  <2>3. m \in 1 .. n /\ f[m] < m /\ f[m] \in 1 .. n
    BY <2>2
  <2>4. m - 1 \in 1 .. n /\ m - 1 < m
    BY <2>3
  <2>5. f[m - 1] < f[m] /\ f[m - 1] \in 1 .. n
    BY <2>3, <2>4
  <2>6. m - 1 \in Low
    BY <2>3, <2>4, <2>5
  <2> QED  BY <2>2, <2>3, <2>4, <2>6
<1>2. High = {}
  <2> SUFFICES ASSUME High # {}  PROVE FALSE
    OBVIOUS
  <2>1. High \subseteq Int /\ IsFiniteSet(High)
    <3>1. High \subseteq 1 .. n /\ High \subseteq Int
      OBVIOUS
    <3>2. IsFiniteSet(1 .. n)
      BY UpToIsFinite
    <3> HIDE DEF High
    <3> QED  BY <3>1, <3>2, FS_Subset
  <2>2. Max(High) \in High /\ \A y \in High : y <= Max(High)
    <3> HIDE DEF High
    <3> QED  BY <2>1, LargestIsThere
  <2> DEFINE m == Max(High)
  <2> HIDE DEF m
  <2>3. m \in High /\ \A y \in High : y <= m
    BY <2>2 DEF m
  <2>4. m \in 1 .. n /\ f[m] > m /\ f[m] \in 1 .. n
    BY <2>3
  <2>5. m + 1 \in 1 .. n /\ m < m + 1
    BY <2>4
  <2>6. f[m] < f[m + 1] /\ f[m + 1] \in 1 .. n
    BY <2>4, <2>5
  <2>7. m + 1 \in High
    BY <2>4, <2>5, <2>6
  <2> QED  BY <2>3, <2>4, <2>5, <2>7
<1>3. ASSUME NEW k \in 1 .. n  PROVE f[k] = k
  <2>1. ~(f[k] < k) /\ ~(f[k] > k) /\ f[k] \in 1 .. n
    BY <1>1, <1>2
  <2> QED  BY <2>1
<1> QED  BY <1>3

\* There is one sequence of all members in the order of a relation.
LEMMA OrderIsUnique ==
  ASSUME NEW S, IsFiniteSet(S), NEW R, Lines(R, S), NEW t \in [1 .. Cardinality(S) -> S],
         \A i, j \in 1 .. Cardinality(S) : i < j => <<t[i], t[j]>> \in R
  PROVE  \A n \in 1 .. Cardinality(S) : InOrder(S, R)[n] = t[n]
<1> DEFINE N == Cardinality(S)
           s == InOrder(S, R)
           place == [n \in 1 .. N |-> CHOOSE k \in 1 .. N : s[k] = t[n]]
<1>1. /\ N \in Nat /\ s \in [1 .. N -> S]
      /\ \A x \in S : \E i \in 1 .. N : s[i] = x
      /\ \A i, j \in 1 .. N : i < j <=> <<s[i], s[j]>> \in R
  BY InOrderIs
<1>2. \A i \in 1 .. N : t[i] \in S
  OBVIOUS
<1>3. \A i, j \in 1 .. N : i < j => <<t[i], t[j]>> \in R
  OBVIOUS
<1> HIDE DEF N, s
<1>4. ASSUME NEW n \in 1 .. N  PROVE place[n] \in 1 .. N /\ s[place[n]] = t[n]
  <2>1. \E k \in 1 .. N : s[k] = t[n]
    BY <1>1, <1>2
  <2> QED  BY <2>1
<1> HIDE DEF place
<1>5. ASSUME NEW i \in 1 .. N, NEW j \in 1 .. N, i < j  PROVE place[i] < place[j]
  <2>1. <<s[place[i]], s[place[j]]>> \in R
    BY <1>3, <1>4, <1>5
  <2> QED  BY <2>1, <1>1, <1>4
<1>6. \A n \in 1 .. N : place[n] = n
  <2>1. \A k \in 1 .. N : place[k] \in 1 .. N
    BY <1>4
  <2>2. \A i, j \in 1 .. N : i < j => place[i] < place[j]
    BY <1>5
  <2>3. N \in Nat
    BY <1>1
  <2> QED  BY <2>1, <2>2, <2>3, IncreasingIsIdentity
<1>7. \A n \in 1 .. N : s[n] = t[n]
  BY <1>4, <1>6
<1> QED  BY <1>7 DEF N, s

\* The places of the entries of a log, by date and place.
Order(log, entries) ==
    {p \in entries \X entries :
        \/ log[p[1]].date < log[p[2]].date
        \/ log[p[1]].date = log[p[2]].date /\ p[1] < p[2]}

LEMMA OrderLines ==
  ASSUME NEW log, NEW E, E \subseteq Int, \A i \in E : log[i].date \in Int
  PROVE  Lines(Order(log, E), E)
<1>1. \A i, k \in E : <<i, k>> \in Order(log, E) <=>
        log[i].date < log[k].date \/ (log[i].date = log[k].date /\ i < k)
  BY DEF Order
<1>2. \A i \in E : i \in Int /\ log[i].date \in Int
  OBVIOUS
<1>3. \A x \in E : <<x, x>> \notin Order(log, E)
  BY <1>1, <1>2
<1>4. \A x, y \in E : x # y => <<x, y>> \in Order(log, E) \/ <<y, x>> \in Order(log, E)
  BY <1>1, <1>2
<1>5. \A x, y, z \in E : <<x, y>> \in Order(log, E) /\ <<y, z>> \in Order(log, E) => <<x, z>> \in Order(log, E)
  BY <1>1, <1>2
<1> QED  BY <1>3, <1>4, <1>5 DEF Lines

LEMMA AscendingIs ==
  ASSUME NEW E, E \subseteq Int, IsFiniteSet(E)
  PROVE  LET n == Cardinality(E) kept == Ascending(E) IN
         /\ n \in Nat /\ kept \in [1 .. n -> E] /\ DOMAIN kept = 1 .. n
         /\ \A i, j \in 1 .. n : i < j <=> kept[i] < kept[j]
<1> DEFINE R == {p \in E \X E : p[1] < p[2]}
           kept == Ascending(E)
           n == Cardinality(E)
<1>1. kept = InOrder(E, R)
  BY DEF Ascending
<1>2. \A x, y \in E : <<x, y>> \in R <=> x < y
  OBVIOUS
<1>3. \A x \in E : x \in Int
  OBVIOUS
<1> HIDE DEF R, kept
<1>4. Lines(R, E)
  BY <1>2, <1>3 DEF Lines
<1>5. n \in Nat /\ kept \in [1 .. n -> E] /\ \A i, j \in 1 .. n : i < j <=> <<kept[i], kept[j]>> \in R
  BY <1>1, <1>4, InOrderIs
<1> HIDE DEF n
<1>6. \A i, j \in 1 .. n : i < j <=> kept[i] < kept[j]
  BY <1>2, <1>5
<1> QED  BY <1>5, <1>6 DEF n, kept

\* The entries of a log by date are those of the log of the entries alone by date.
LEMMA ShortLogIsEnough ==
  ASSUME NEW log, NEW E, E \subseteq Int, IsFiniteSet(E), \A i \in E : log[i].date \in Int
  PROVE  LET kept == Ascending(E) short == [n \in DOMAIN kept |-> log[kept[n]]] IN
         ByDate(log, E) = ByDate(short, DOMAIN short)
<1> DEFINE kept == Ascending(E)
           n == Cardinality(E)
           short == [i \in DOMAIN kept |-> log[kept[i]]]
           R == Order(log, E)
           Q == Order(short, DOMAIN short)
           one == InOrder(E, R)
           two == InOrder(DOMAIN short, Q)
           t == [k \in 1 .. n |-> kept[two[k]]]
<1>1. /\ n \in Nat /\ kept \in [1 .. n -> E] /\ DOMAIN kept = 1 .. n
      /\ \A i, j \in 1 .. n : i < j <=> kept[i] < kept[j]
  BY AscendingIs
<1> HIDE DEF kept, n
<1>2. DOMAIN short = 1 .. n /\ \A i \in 1 .. n : short[i] = log[kept[i]] /\ kept[i] \in E /\ short[i].date \in Int
  BY <1>1
<1> HIDE DEF short
<1>3. \A i, j \in 1 .. n : <<i, j>> \in Q <=> <<kept[i], kept[j]>> \in R
  <2>1. \A i, j \in 1 .. n : <<i, j>> \in Q <=>
            short[i].date < short[j].date \/ (short[i].date = short[j].date /\ i < j)
    BY <1>2 DEF Order
  <2>2. \A x, y \in E : <<x, y>> \in R <=>
            log[x].date < log[y].date \/ (log[x].date = log[y].date /\ x < y)
    BY DEF Order
  <2> HIDE DEF Q, R
  <2>3. ASSUME NEW i \in 1 .. n, NEW j \in 1 .. n
        PROVE  <<i, j>> \in Q <=> <<kept[i], kept[j]>> \in R
    <3>1. kept[i] \in E /\ kept[j] \in E /\ short[i] = log[kept[i]] /\ short[j] = log[kept[j]]
      BY <1>2
    <3>2. i < j <=> kept[i] < kept[j]
      BY <1>1
    <3>3. <<kept[i], kept[j]>> \in R <=>
            short[i].date < short[j].date \/ (short[i].date = short[j].date /\ i < j)
      <4> DEFINE x == kept[i]
                 y == kept[j]
      <4>1. x \in E /\ y \in E /\ short[i] = log[x] /\ short[j] = log[y] /\ (i < j <=> x < y)
        BY <3>1, <3>2
      <4> HIDE DEF x, y
      <4>2. <<x, y>> \in R <=> log[x].date < log[y].date \/ (log[x].date = log[y].date /\ x < y)
        BY <2>2, <4>1
      <4>3. <<x, y>> \in R <=> short[i].date < short[j].date \/ (short[i].date = short[j].date /\ i < j)
        BY <4>1, <4>2
      <4> QED  BY <4>3 DEF x, y
    <3> QED  BY <2>1, <3>3
  <2> QED  BY <2>3
<1>4. /\ two \in [1 .. n -> 1 .. n]
      /\ \A i, j \in 1 .. n : i < j <=> <<two[i], two[j]>> \in Q
  <2> DEFINE D == 1 .. n
  <2>1. IsFiniteSet(D) /\ Cardinality(D) = n
    BY <1>1, UpToIsFinite
  <2>2. D \subseteq Int /\ DOMAIN short = D /\ \A i \in D : short[i].date \in Int
    BY <1>2
  <2> HIDE DEF D
  <2>3. Lines(Order(short, D), D)
    BY <2>2, OrderLines
  <2>4. Lines(Q, D) /\ two = InOrder(D, Q)
    BY <2>2, <2>3
  <2> HIDE DEF Q, two
  <2>5. /\ two \in [1 .. n -> D]
        /\ \A i, j \in 1 .. n : i < j <=> <<two[i], two[j]>> \in Q
    BY <2>1, <2>4, InOrderIs
  <2> QED  BY <2>5 DEF D
<1> HIDE DEF Q, two
<1>5. t \in [1 .. n -> E]
  BY <1>1, <1>4
<1>6. ASSUME NEW i \in 1 .. n, NEW j \in 1 .. n, i < j  PROVE <<t[i], t[j]>> \in R
  <2>1. <<two[i], two[j]>> \in Q /\ two[i] \in 1 .. n /\ two[j] \in 1 .. n
    BY <1>4, <1>6
  <2>2. t[i] = kept[two[i]] /\ t[j] = kept[two[j]]
    OBVIOUS
  <2> QED  BY <1>3, <2>1, <2>2
<1>7. Lines(R, E)
  BY OrderLines
<1>8. ASSUME NEW i \in 1 .. n  PROVE one[i] = kept[two[i]]
  <2>1. \A k \in 1 .. Cardinality(E) : InOrder(E, R)[k] = t[k]
    <3> HIDE DEF t, R
    <3>1. t \in [1 .. Cardinality(E) -> E] /\ \A i2, j \in 1 .. Cardinality(E) : i2 < j => <<t[i2], t[j]>> \in R
      BY <1>5, <1>6 DEF n
    <3> QED  BY <3>1, <1>7, OrderIsUnique
  <2>2. one[i] = t[i]
    BY <2>1 DEF n
  <2> QED  BY <2>2
<1>9. DOMAIN one = 1 .. n /\ DOMAIN two = 1 .. n
  <2>1. one \in [1 .. Cardinality(E) -> E]
    <3> HIDE DEF R
    <3> QED  BY <1>7, InOrderIs
  <2> HIDE DEF one
  <2> QED  BY <1>4, <2>1 DEF n
<1>10. ByDate(log, E) = [i \in DOMAIN one |-> log[one[i]]]
  BY DEF ByDate, Order
<1>11. ByDate(short, DOMAIN short) = [i \in DOMAIN two |-> short[two[i]]]
  BY DEF ByDate, Order, Q, two
<1> HIDE DEF one
<1>12. \A i \in 1 .. n : log[one[i]] = short[two[i]]
  BY <1>2, <1>4, <1>8
<1> QED  BY <1>9, <1>10, <1>11, <1>12 DEF short, kept

LEMMA LogIsOfStarts ==
  ASSUME NEW log \in Logs
  PROVE  /\ log \in Seq(PitcherStart) /\ Len(log) \in Nat /\ DOMAIN log = 1 .. Len(log)
         /\ \A i \in DOMAIN log : log[i] \in PitcherStart /\ log[i].date \in Int
<1> DEFINE game == {Start(d, r, 18) : d \in -2 .. 0, r \in {0, 2}}
<1>1. PICK n \in 3 .. 4 : log \in [1 .. n -> game]
  BY DEF Logs
<1>2. game \subseteq PitcherStart
  BY DEF Start, PitcherStart
<1> HIDE DEF game
<1>3. n \in Nat /\ log \in [1 .. n -> PitcherStart]
  BY <1>1, <1>2
<1>4. log \in Seq(PitcherStart) /\ Len(log) = n /\ DOMAIN log = 1 .. n
  BY <1>3
<1>5. \A i \in DOMAIN log : log[i] \in PitcherStart /\ log[i].date \in Int
  <2>1. \A i \in DOMAIN log : log[i] \in PitcherStart
    BY <1>3
  <2> QED  BY <2>1 DEF PitcherStart
<1> QED  BY <1>3, <1>4, <1>5

\* What was captured before the cutoff is used up to the day before it.
LEMMA GameLogIs ==
  ASSUME NEW log \in Seq(PitcherStart)
  PROVE  GameLog(Raw(log, -1), 0) = ByDate(log, {i \in DOMAIN log : log[i].date < 0})
<1>1. Raw(log, -1) \in [payload : Seq(PitcherStart), captured_at : Int]
  BY DEF Raw
<1>2. Raw(log, -1).payload = log /\ Raw(log, -1).captured_at = -1
  BY DEF Raw
<1>3. Usable(Raw(log, -1), 0)
  <2>1. Raw(log, -1) # None /\ log # None /\ -1 # None
    BY <1>1, MissingAssumption
  <2>2. -1 < 0
    OBVIOUS
  <2> QED  BY <1>2, <2>1, <2>2 DEF Usable, Present
<1>4. \A i \in DOMAIN log : log[i].date \in Int /\ Present(log[i].date)
  <2>1. \A i \in DOMAIN log : log[i] \in PitcherStart
    OBVIOUS
  <2>2. \A i \in DOMAIN log : log[i].date \in Int
    BY <2>1 DEF PitcherStart
  <2> QED  BY <2>2, MissingAssumption DEF Present
<1>5. Dated(log) = DOMAIN log
  BY <1>4 DEF Dated
<1>6. 0 \div Day = 0
  BY DEF Day
<1> QED  BY <1>2, <1>3, <1>5, <1>6 DEF GameLog

LEMMA FormIsOfEarlierDays ==
  ASSUME NEW log \in Logs
  PROVE  Form(Raw(log, -1), 0) = Form(Raw(Earlier(log, 0), -1), 0)
<1> DEFINE E == {i \in DOMAIN log : log[i].date < 0}
           kept == Ascending(E)
           short == [n \in DOMAIN kept |-> log[kept[n]]]
<1>1. /\ log \in Seq(PitcherStart) /\ Len(log) \in Nat /\ DOMAIN log = 1 .. Len(log)
      /\ \A i \in DOMAIN log : log[i] \in PitcherStart /\ log[i].date \in Int
  BY LogIsOfStarts
<1>2. E \subseteq Int /\ IsFiniteSet(E) /\ \A i \in E : log[i].date \in Int /\ log[i].date < 0 /\ log[i] \in PitcherStart
  <2>1. IsFiniteSet(DOMAIN log) /\ E \subseteq DOMAIN log
    BY <1>1, UpToIsFinite
  <2>2. IsFiniteSet(E)
    <3> HIDE DEF E
    <3> QED  BY <2>1, FS_Subset
  <2> QED  BY <1>1, <2>2
<1>3. Earlier(log, 0) = short
  BY DEF Earlier
<1> HIDE DEF E
<1>4. /\ Cardinality(E) \in Nat /\ kept \in [1 .. Cardinality(E) -> E] /\ DOMAIN kept = 1 .. Cardinality(E)
  BY <1>2, AscendingIs
<1>5. ByDate(log, E) = ByDate(short, DOMAIN short)
  BY <1>2, ShortLogIsEnough
<1> HIDE DEF kept
<1>6. short \in Seq(PitcherStart) /\ \A i \in DOMAIN short : short[i].date < 0
  <2> DEFINE n == Cardinality(E)
  <2>1. n \in Nat /\ DOMAIN kept = 1 .. n
    BY <1>4
  <2>2. \A i \in 1 .. n : log[kept[i]] \in PitcherStart /\ log[kept[i]].date < 0
    BY <1>2, <1>4
  <2> HIDE DEF n
  <2>3. short \in [1 .. n -> PitcherStart]
    BY <2>1, <2>2
  <2> QED  BY <2>1, <2>2, <2>3
<1> HIDE DEF short
<1>7. {i \in DOMAIN short : short[i].date < 0} = DOMAIN short
  BY <1>6
<1>8. GameLog(Raw(log, -1), 0) = GameLog(Raw(short, -1), 0)
  <2>1. GameLog(Raw(log, -1), 0) = ByDate(log, E)
    BY <1>1, GameLogIs DEF E
  <2>2. GameLog(Raw(short, -1), 0) = ByDate(short, DOMAIN short)
    BY <1>6, <1>7, GameLogIs
  <2> QED  BY <1>5, <2>1, <2>2
<1> QED  BY <1>3, <1>8 DEF Form

LEMMA NothingCounted ==
  Outs(<<>>) = 0
<1> DEFINE log == <<>>
           S == Counted(log)
           It(s) == CHOOSE x \in s : TRUE
           iter == CHOOSE g : g = [s \in SUBSET S |-> IF s = {} THEN 0 ELSE Innings(log[It(s)]) + g[s \ {It(s)}]]
<1>1. S = {}
  <2>1. DOMAIN log = {}
    OBVIOUS
  <2> QED  BY <2>1 DEF Counted
<1>2. Outs(log) = iter[S]
  BY DEF Outs, MapThenSumSet, MapThenFoldSet
<1> HIDE DEF S
<1>3. iter = [s \in SUBSET S |-> IF s = {} THEN 0 ELSE Innings(log[It(s)]) + iter[s \ {It(s)}]]
  <2> DEFINE g == [s \in SUBSET S |-> 0]
  <2>1. g = [s \in SUBSET S |-> IF s = {} THEN 0 ELSE Innings(log[It(s)]) + g[s \ {It(s)}]]
    BY <1>1
  <2> HIDE DEF g
  <2> QED  BY <2>1
<1> HIDE DEF iter
<1>4. iter[S] = 0
  BY <1>1, <1>3
<1> QED  BY <1>2, <1>4

LEMMA NothingFromTheDay ==
  ASSUME NEW log
  PROVE  BullpenEra([r \in {"r"} |-> Raw(log, 0)], 0) = None
<1> DEFINE logs == [r \in {"r"} |-> Raw(log, 0)]
           recent == [p \in DOMAIN logs |-> Latest(GameLog(logs[p], 0), BULLPEN_LOOKBACK_APPEARANCES)]
           runs == MapThenSumSet(LAMBDA p : Runs(recent[p]), DOMAIN logs)
           outs == MapThenSumSet(LAMBDA p : Outs(recent[p]), DOMAIN logs)
<1>1. BullpenEra(logs, 0) = IF outs <= 0 THEN None ELSE PerOuts(27 * runs, outs)
  BY DEF BullpenEra
<1>2. GameLog(Raw(log, 0), 0) = <<>>
  <2>1. ~Usable(Raw(log, 0), 0)
    BY DEF Usable, Raw
  <2> QED  BY <2>1 DEF GameLog
<1>3. Latest(<<>>, BULLPEN_LOOKBACK_APPEARANCES) = <<>>
  <2> DEFINE m == Max({1, -14})
  <2>1. m \in {1, -14} /\ 1 <= m
    <3>1. 1 \in Int /\ -14 \in Int
      OBVIOUS
    <3> QED  BY <3>1, LargerOfTwo
  <2>2. Latest(<<>>, BULLPEN_LOOKBACK_APPEARANCES) = SubSeq(<<>>, m, 0)
    <3>1. Len(<<>>) - BULLPEN_LOOKBACK_APPEARANCES + 1 = -14 /\ Len(<<>>) = 0
      BY DEF BULLPEN_LOOKBACK_APPEARANCES
    <3> QED  BY <3>1 DEF Latest
  <2> HIDE DEF m
  <2>3. m = 1
    BY <2>1
  <2> QED  BY <2>2, <2>3
<1>4. DOMAIN logs = {"r"} /\ recent["r"] = <<>>
  BY <1>2, <1>3
<1>5. outs = 0
  <2> DEFINE D == DOMAIN logs
             It(s) == CHOOSE x \in s : TRUE
             iter == CHOOSE g : g = [s \in SUBSET D |-> IF s = {} THEN 0 ELSE Outs(recent[It(s)]) + g[s \ {It(s)}]]
  <2>1. outs = iter[D]
    BY DEF MapThenSumSet, MapThenFoldSet
  <2>2. D = {"r"} /\ Outs(recent["r"]) = 0
    BY <1>4, NothingCounted
  <2> HIDE DEF D, recent
  <2>3. \A s \in SUBSET D : s # {} => It(s) = "r" /\ s \ {It(s)} = {}
    BY <2>2
  <2>4. iter = [s \in SUBSET D |-> IF s = {} THEN 0 ELSE Outs(recent[It(s)]) + iter[s \ {It(s)}]]
    <3> DEFINE g == [s \in SUBSET D |-> 0]
    <3>1. g = [s \in SUBSET D |-> IF s = {} THEN 0 ELSE Outs(recent[It(s)]) + g[s \ {It(s)}]]
      <4>1. ASSUME NEW s \in SUBSET D, s # {}  PROVE Outs(recent[It(s)]) + g[s \ {It(s)}] = 0
        <5>1. It(s) = "r" /\ g[s \ {It(s)}] = 0
          BY <2>3, <4>1
        <5> HIDE DEF It, g
        <5> QED  BY <2>2, <5>1
      <4> HIDE DEF It
      <4> QED  BY <4>1
    <3> HIDE DEF g, It
    <3> QED  BY <3>1
  <2> HIDE DEF iter
  <2>5. iter[D] = Outs(recent["r"]) + iter[{}] /\ iter[{}] = 0
    <3>1. D \in SUBSET D /\ {} \in SUBSET D /\ D # {}
      BY <2>2
    <3>2. It(D) = "r" /\ D \ {It(D)} = {}
      BY <2>3, <3>1
    <3> HIDE DEF It
    <3> QED  BY <2>4, <3>1, <3>2
  <2> HIDE DEF outs
  <2> QED  BY <2>1, <2>2, <2>5
<1> HIDE DEF outs, runs, logs
<1>6. BullpenEra(logs, 0) = None
  BY <1>1, <1>5
<1> QED  BY <1>6 DEF logs

LEMMA InputsAreSound ==
  ASSUME DayInv
  PROVE  InputsSound
<1>1. FeaturesFromThePast
  BY FormIsOfEarlierDays, NothingFromTheDay DEF FeaturesFromThePast
<1>2. RestPositive /\ RowsInv
  BY DEF DayInv
<1> QED  BY <1>1, <1>2, TrainingTypes, RatingsAreBalanced DEF InputsSound

-----------------------------------------------------------------------------
(* The theorems about the training data *)

LEMMA ModelsStart == Init => ModelsInv
BY DEF Init, ModelsInv, Present

\* The history, what is on its way into it and the models that were trained from it stay as
\* the proofs below need them, whatever the events, the runs and the synchronisations do.
THEOREM DayIsInvariant == Spec => [](DayInv /\ ModelsInv)
<1>1. Init => DayInv /\ ModelsInv
  BY DayStarts, ModelsStart
<1>2. DayInv /\ ModelsInv /\ [Next]_vars => (DayInv /\ ModelsInv)'
  BY DayStays, ModelsKeep
<1> QED  BY <1>1, <1>2, PTL DEF Spec

\* The tables stay what the readers of the history take them for: each row of features
\* refers to a snapshot of its event that was there before it (history_repository.py).
THEOREM TrainingTypesAlways == Spec => []TrainingTypeOK
<1>1. DayInv => TrainingTypeOK
  BY TrainingTypes
<1> QED  BY <1>1, DayIsInvariant, PTL

\* A tennis model learns one sample of an event, computed before the match began, however
\* often the match was moved (build_tennis_training_dataset, preevent_snapshots.py).
THEOREM TennisAlwaysLearnsFromBefore == Spec => []TennisLearnsFromBefore
<1>1. DayInv => TennisLearnsFromBefore
  BY LearningIsBefore
<1> QED  BY <1>1, DayIsInvariant, PTL

\* What a sample is labelled with is what happened, for any number of synchronisations that
\* record without a lock (sync_mlb_results.py, sync_tennis_results.py, both builders).
THEOREM LabelsAlwaysTrue == Spec => []LabelsTrue
<1>1. DayInv => LabelsTrue
  BY LabelsAreTrue
<1> QED  BY <1>1, DayIsInvariant, PTL

\* The reports on the history add up to the rows they read, and find the results that were
\* recorded twice (gate_report.py, label_quality_audit.py).
THEOREM ResultsAlwaysCounted == Spec => []ResultsCounted
<1>1. DayInv => ResultsCounted
  BY CountedIs
<1> QED  BY <1>1, DayIsInvariant, PTL

\* Neither a split, nor a fold, nor the calibrator lets a model be tested on an event it has
\* seen, for any history, percentages and sizes of blocks (split_dataset_temporally,
\* split_events_temporally, walk_forward_splits, _resolve_validation_samples).
THEOREM NothingTestedIsEverSeen == Spec => []NothingTestedIsSeen
<1>1. DayInv /\ ModelsInv => NothingTestedIsSeen
  BY TestedIsNotSeen
<1> QED  BY <1>1, DayIsInvariant, PTL

\* Rest days, the form of a pitcher and the ratings come from earlier days, and a rating only
\* moves points (compute_rest_days, _extract_game_log_entries, compute_mlb_elo_ratings).
THEOREM InputsAlwaysSound == Spec => []InputsSound
<1>1. DayInv => InputsSound
  BY InputsAreSound
<1> QED  BY <1>1, DayIsInvariant, PTL
-----------------------------------------------------------------------------
(* The registry: what loads have found and what is served *)

\* Whatever a policy allows with a hash is in ok.
Vouched(allowed, ok) ==
    \A v \in DOMAIN allowed :
        allowed[v].status = "ALLOWED" /\ allowed[v].artifact_sha256 # None => <<v, allowed[v].artifact_sha256>> \in ok

\* What a load to serve has found was allowed; what one to evaluate has found was trained.
LoadFound(l, ok, written) ==
    l # None =>
        /\ l = [use |-> l.use, policy |-> l.policy, best |-> l.best, meta |-> l.meta, quiet |-> l.quiet, todo |-> l.todo]
        /\ l.best # None =>
              l.best = [base |-> l.best.base, bytes |-> l.best.bytes, metadata |-> l.best.metadata, calibrator |-> None]
        /\ l.use = "serve" =>
              /\ Vouched(l.policy, ok)
              /\ l.best # None => <<l.best.base, l.best.bytes>> \in ok
        /\ l.use # "serve" =>
              /\ \A v \in DOMAIN l.policy : v \in written /\ l.policy[v].artifact_sha256 = "whole"
              /\ l.best # None => l.best.base \in written /\ l.best.bytes = "whole"

Served(s, ok) ==
    s # None =>
        /\ s = [base |-> s.base, bytes |-> s.bytes, metadata |-> s.metadata, calibrator |-> s.calibrator]
        /\ <<s.base, s.bytes>> \in ok
        /\ s.calibrator # None => <<s.calibrator.version, s.calibrator.bytes>> \in ok

\* A calibrator is bound with a policy that was vouched for, and only while nothing is loaded.
BindingInv ==
    binding # None => /\ load = None /\ serving # None
                      /\ Vouched(binding.policy, approved)

ApprovedInv ==
    /\ Vouched(registry, approved)
    /\ LoadFound(load, approved, ledger)
    /\ Served(serving, approved)
    /\ BindingInv
-----------------------------------------------------------------------------
LEMMA VouchedStays ==
  ASSUME NEW allowed, NEW ok, NEW more, ok \subseteq more, Vouched(allowed, ok)
  PROVE  Vouched(allowed, more)
BY DEF Vouched

LEMMA LoadStays ==
  ASSUME NEW l, NEW ok, NEW more, NEW written, NEW later, ok \subseteq more, written \subseteq later,
         LoadFound(l, ok, written)
  PROVE  LoadFound(l, more, later)
BY VouchedStays DEF LoadFound

LEMMA ServedStays ==
  ASSUME NEW s, NEW ok, NEW more, ok \subseteq more, Served(s, ok)
  PROVE  Served(s, more)
BY DEF Served

\* The bytes a policy lets through are bytes it was given.
LEMMA ActivableIsVouched ==
  ASSUME NEW allowed, NEW ok, NEW v, NEW bytes, Vouched(allowed, ok), Activable(allowed, v, bytes)
  PROVE  <<v, bytes>> \in ok
BY DEF Vouched, Activable

\* The registry as it is read, also when it cannot be.
LEMMA PolicyIsVouched ==
  ASSUME NEW ok, Vouched(registry, ok)
  PROVE  Vouched(PolicyNow, ok)
BY DEF Vouched, PolicyNow

\* That the files change under a load takes nothing from what it has found.
LEMMA DisturbedKeeps ==
  ASSUME LoadFound(load, approved, ledger), Disturbed
  PROVE  LoadFound(load', approved, ledger) /\ (load = None => load' = None)
<1>1. CASE load = None
  BY <1>1 DEF Disturbed, LoadFound
<1>2. CASE load # None
  <2>1. load' = [load EXCEPT !.quiet = FALSE]
    BY <1>2 DEF Disturbed
  <2>2. load' = [use |-> load.use, policy |-> load.policy, best |-> load.best, meta |-> load.meta,
                 quiet |-> FALSE, todo |-> load.todo]
    BY <1>2, <2>1 DEF LoadFound
  <2> QED  BY <1>2, <2>2 DEF LoadFound
<1> QED  BY <1>1, <1>2
-----------------------------------------------------------------------------
LEMMA ApprovedAtFirst == RegistryInit => ApprovedInv
BY DEF RegistryInit, ApprovedInv, Vouched, LoadFound, Served, BindingInv

\* Steps that change neither the policy nor a load in progress by more than its quiet.
LEMMA WorldSteps ==
  ASSUME ApprovedInv, approved \subseteq approved', ledger \subseteq ledger', Vouched(registry', approved'),
         Disturbed \/ UNCHANGED load, UNCHANGED loads
  PROVE  ApprovedInv'
<1>1. LoadFound(load', approved, ledger) /\ (load = None => load' = None)
  BY DisturbedKeeps DEF ApprovedInv
<1>2. LoadFound(load', approved', ledger')
  BY <1>1, LoadStays
<1>3. Served(serving', approved')
  BY ServedStays DEF ApprovedInv, loads
<1>4. BindingInv'
  BY <1>1, VouchedStays DEF ApprovedInv, BindingInv, loads
<1> QED  BY <1>2, <1>3, <1>4 DEF ApprovedInv

LEMMA EditVouched ==
  ASSUME ApprovedInv, NEW v \in Versions, EditRegistry(v)
  PROVE  ApprovedInv'
<1>1. approved \subseteq approved'
  BY DEF EditRegistry
<1>2. PICK status \in {"ALLOWED", "INVALID"}, sha \in {artifact[v], None},
           model \in (IF v \in Calibrators THEN Bases ELSE {None}) :
        /\ registry' = [w \in DOMAIN registry \cup {v} |->
              IF w = v THEN [status |-> status, artifact_sha256 |-> sha, metadata_sha256 |-> metadata[v].bytes, base |-> model]
              ELSE registry[w]]
        /\ approved' = IF status = "ALLOWED" THEN approved \cup {<<v, sha>>} ELSE approved
  BY DEF EditRegistry
<1>3. Vouched(registry', approved')
  BY <1>1, <1>2 DEF ApprovedInv, Vouched
<1> QED  BY <1>1, <1>3, WorldSteps DEF EditRegistry, store

\* Steps of a load, each of which looks at one file.
LEMMA LoadSteps ==
  ASSUME ApprovedInv, LoadFound(load', approved, ledger), UNCHANGED <<approved, ledger, registry, loads>>,
         binding = None
  PROVE  ApprovedInv'
BY DEF ApprovedInv, BindingInv, loads

LEMMA ReadBytesFinds ==
  ASSUME ApprovedInv, ReadBytes
  PROVE  ApprovedInv'
<1> DEFINE v == First(load.todo)
           found == [base |-> v, bytes |-> artifact[v], metadata |-> load.meta, calibrator |-> None]
           best == IF Activable(load.policy, v, found.bytes) /\ load.meta.candidate_status # "REJECTED_CANDIDATE"
                   THEN found ELSE load.best
<1>1. load # None /\ load' = [load EXCEPT !.todo = @ \ {v}, !.meta = None, !.best = best]
  BY DEF ReadBytes
<1>2. LoadFound(load, approved, ledger)
  BY DEF ApprovedInv
<1>3. load' = [use |-> load.use, policy |-> load.policy, best |-> best, meta |-> None,
               quiet |-> load.quiet, todo |-> load.todo \ {v}]
  BY <1>1, <1>2 DEF LoadFound
<1>4. best # None => best = [base |-> best.base, bytes |-> best.bytes, metadata |-> best.metadata, calibrator |-> None]
  BY <1>1, <1>2 DEF LoadFound
<1>5. load.use = "serve" /\ best # None => <<best.base, best.bytes>> \in approved
  BY <1>1, <1>2, ActivableIsVouched DEF LoadFound
<1>6. load.use # "serve" /\ best # None => best.base \in ledger /\ best.bytes = "whole"
  BY <1>1, <1>2 DEF LoadFound, Activable
<1> HIDE DEF best
<1>7. LoadFound(load', approved, ledger)
  BY <1>1, <1>2, <1>3, <1>4, <1>5, <1>6 DEF LoadFound
<1>8. binding = None
  BY <1>1 DEF ApprovedInv, BindingInv
<1> QED  BY <1>7, <1>8, LoadSteps DEF ReadBytes, store, policy

LEMMA ReadCalibratorServes ==
  ASSUME ApprovedInv, ReadCalibrator
  PROVE  ApprovedInv'
<1> DEFINE c == binding.version
           calibrator == [version |-> c, bytes |-> artifact[c]]
<1>1. serving # None /\ load = None /\ Vouched(binding.policy, approved)
  BY DEF ReadCalibrator, ApprovedInv, BindingInv
<1>2. Served(serving', approved)
  <2>1. CASE serving' = serving
    BY <2>1 DEF ApprovedInv
  <2>2. CASE serving' = [serving EXCEPT !.calibrator = calibrator] /\ Activable(binding.policy, c, artifact[c])
    <3>1. <<c, artifact[c]>> \in approved
      BY <1>1, <2>2, ActivableIsVouched
    <3>2. serving' = [base |-> serving.base, bytes |-> serving.bytes, metadata |-> serving.metadata,
                      calibrator |-> calibrator]
      BY <1>1, <2>2 DEF ApprovedInv, Served
    <3> QED  BY <1>1, <3>1, <3>2 DEF ApprovedInv, Served
  <2> QED  BY <2>1, <2>2 DEF ReadCalibrator
<1> QED  BY <1>1, <1>2 DEF ReadCalibrator, ApprovedInv, BindingInv, store, policy

LEMMA ApprovedStep ==
  ASSUME ApprovedInv, [RegistryNext]_registryVars
  PROVE  ApprovedInv'
<1>1. ASSUME NEW v \in Versions, StartTraining(v)  PROVE ApprovedInv'
  BY <1>1, WorldSteps DEF StartTraining, policy, ApprovedInv
<1>2. CASE ContinueTraining
  <2>1. ledger \subseteq ledger'
    BY <1>2 DEF ContinueTraining
  <2> QED  BY <1>2, <2>1, WorldSteps DEF ContinueTraining, policy, ApprovedInv
<1>3. CASE KillTraining
  BY <1>3, WorldSteps DEF KillTraining, policy, store, ApprovedInv
<1>4. ASSUME NEW v \in Versions, EditRegistry(v)  PROVE ApprovedInv'
  BY <1>4, EditVouched
<1>5. CASE BreakRegistry
  BY <1>5, WorldSteps DEF BreakRegistry, store, ApprovedInv
<1>6. ASSUME NEW v \in Versions, Damage(v)  PROVE ApprovedInv'
  BY <1>6, WorldSteps DEF Damage, policy, ApprovedInv
<1>7. CASE StartLoad
  <2>1. LoadFound(load', approved, ledger)
    BY <1>7, PolicyIsVouched DEF StartLoad, Loading, LoadFound, ApprovedInv
  <2> QED  BY <1>7, <2>1, LoadSteps DEF StartLoad, store, policy
<1>8. ASSUME NEW v \in Versions, LoadCandidateRegistry(v)  PROVE ApprovedInv'
  <2>1. LoadFound(load', approved, ledger)
    BY <1>8 DEF LoadCandidateRegistry, Loading, LoadFound
  <2> QED  BY <1>8, <2>1, LoadSteps DEF LoadCandidateRegistry, store, policy
<1>9. CASE ReadMetadata
  <2> DEFINE data == metadata[First(load.todo)]
  <2>1. LoadFound(load, approved, ledger) /\ load # None
    BY <1>9 DEF ReadMetadata, ApprovedInv
  <2>2. \/ load' = [load EXCEPT !.meta = data]
        \/ load' = [load EXCEPT !.todo = @ \ {First(@)}]
    BY <1>9 DEF ReadMetadata
  <2>3. \E meta, todo : load' = [use |-> load.use, policy |-> load.policy, best |-> load.best, meta |-> meta,
                                 quiet |-> load.quiet, todo |-> todo]
    BY <2>1, <2>2 DEF LoadFound
  <2>4. LoadFound(load', approved, ledger)
    BY <2>1, <2>3 DEF LoadFound
  <2>5. binding = None
    BY <2>1 DEF ApprovedInv, BindingInv
  <2> QED  BY <1>9, <2>4, <2>5, LoadSteps DEF ReadMetadata, store, policy
<1>10. CASE ReadBytes
  BY <1>10, ReadBytesFinds
<1>11. CASE FinishLoad
  <2>1. load # None /\ load' = None /\ serving' = IF load.use = "serve" THEN load.best ELSE serving
    BY <1>11 DEF FinishLoad, Loaded
  <2>2. Served(serving', approved)
    BY <2>1 DEF ApprovedInv, LoadFound, Served
  <2> QED  BY <1>11, <2>1, <2>2 DEF FinishLoad, ApprovedInv, LoadFound, BindingInv, store, policy
<1>12. CASE BindCalibrator
  BY <1>12, PolicyIsVouched DEF BindCalibrator, ApprovedInv, BindingInv, LoadFound, store, policy
<1>13. CASE ReadCalibrator
  BY <1>13, ReadCalibratorServes
<1>14. CASE UNCHANGED registryVars
  BY <1>14 DEF registryVars, ApprovedInv, BindingInv
<1> QED  BY <1>1, <1>2, <1>3, <1>4, <1>5, <1>6, <1>7, <1>8, <1>9, <1>10, <1>11, <1>12, <1>13, <1>14 DEF RegistryNext

LEMMA ApprovedAlways == RegistrySpec => []ApprovedInv
<1>1. RegistryInit => ApprovedInv
  BY ApprovedAtFirst
<1>2. ApprovedInv /\ [RegistryNext]_registryVars => ApprovedInv'
  BY ApprovedStep
<1> QED  BY <1>1, <1>2, PTL DEF RegistrySpec

\* Whatever is served was allowed under its version with exactly these bytes, the model
\* and the calibrator alike, however trainings, edits, damage and loads interleave.
THEOREM ServedAlwaysApproved == RegistrySpec => []ServedWasApproved
<1>1. ApprovedInv => ServedWasApproved
  BY DEF ApprovedInv, Served, ServedWasApproved
<1> QED  BY <1>1, ApprovedAlways, PTL

\* Whatever is evaluated as a candidate was trained under the governance and is the
\* artifact it wrote (candidate_registry.py).
THEOREM EvaluatedAlwaysTrained == RegistrySpec => []EvaluatesWhatWasTrained
<1>1. ApprovedInv => EvaluatesWhatWasTrained
  BY DEF ApprovedInv, LoadFound, EvaluatesWhatWasTrained, Loaded
<1> QED  BY <1>1, ApprovedAlways, PTL
-----------------------------------------------------------------------------
(* The first and the last of some versions *)

\* Any version numbers have a least one.
LEMMA FirstIsFirst ==
  ASSUME NEW S, S \subseteq Nat, S # {}
  PROVE  First(S) \in S /\ \A w \in S : First(S) <= w
<1>1. PICK x \in S : \A y \in S : x <= y
  BY LeastIsThere
<1> QED  BY <1>1 DEF First

\* Finitely many version numbers have a greatest one.
LEMMA NewestIsNewest ==
  ASSUME NEW S, S \subseteq Nat, S # {}, IsFiniteSet(S)
  PROVE  Newest(S) \in S /\ \A w \in S : w <= Newest(S)
<1>1. S \subseteq Int
  OBVIOUS
<1>2. PICK x \in S : \A y \in S : y <= x
  BY <1>1, LargestIsThere
<1> QED  BY <1>2 DEF Newest
-----------------------------------------------------------------------------
(* What is served fits *)

Told(data, v) == data.bytes = "whole" => trained[v] # None /\ data.candidate_status = trained[v].candidate_status

\* A base model that passed its test, as far as its metadata was not rewritten.
Passed(found) ==
    /\ found.base \in Bases /\ Readable(found.metadata) /\ Told(found.metadata, found.base)
    /\ found.metadata.candidate_status # "REJECTED_CANDIDATE"

Fitted(c, model) ==
    c \in Calibrators /\ trained[c] # None /\ (trained[c].base = model \/ metadata[c].bytes = "other")

\* Only calibrators are bound to a base.
PolicyOK(allowed) == \A v \in DOMAIN allowed : v \in Versions /\ (allowed[v].base # None => v \in Calibrators)

\* What the files say, and how far the training in progress has come.
FilesInv ==
    /\ trained \in [Versions -> Trainings \cup {None}]
    /\ metadata \in [Versions -> Sidecars]
    /\ \A v \in Versions : metadata[v].bytes # None => trained[v] # None
    /\ \A v \in Versions : metadata[v].bytes = "whole" =>
           metadata[v].candidate_status = trained[v].candidate_status /\ metadata[v].base = trained[v].base
    /\ trainer # None =>
           /\ trainer = [version |-> trainer.version, step |-> trainer.step]
           /\ trainer.version \in Versions /\ trained[trainer.version] # None
           /\ \/ trainer.step = 1 /\ metadata[trainer.version].bytes = None
              \/ trainer.step = 2 /\ metadata[trainer.version].bytes = "half"

LoadFits ==
    load # None =>
        /\ load.todo \subseteq Bases /\ \A v \in load.todo : trained[v] # None
        /\ load.meta # None =>
               load.todo # {} /\ Readable(load.meta) /\ Told(load.meta, First(load.todo))
        /\ load.best # None => Passed(load.best)

ServingFits ==
    serving # None =>
        /\ Passed(serving)
        /\ serving.calibrator # None => Fitted(serving.calibrator.version, serving.base)

BindingFits ==
    binding # None => binding.version \in Versions /\ PolicyOK(binding.policy)
                      /\ binding.version \in Calibrators

FitInv ==
    /\ ApprovedInv /\ FilesInv
    /\ PolicyOK(registry) /\ LoadFits /\ ServingFits /\ BindingFits

\* What a step of the world leaves of what was trained.
FilesGrow ==
    /\ \A v \in Versions : trained[v] # None => trained'[v] = trained[v]
    /\ \A v \in Versions : metadata[v].bytes = "other" => metadata'[v].bytes = "other"

LEMMA FilesInitially == RegistryInit => FitInv
<1> SUFFICES ASSUME RegistryInit  PROVE FitInv
  OBVIOUS
<1>1. ApprovedInv
  BY ApprovedAtFirst
<1>2. trained \in [Versions -> Trainings \cup {None}] /\ metadata \in [Versions -> Sidecars]
  BY DEF RegistryInit, Trainings, Sidecars, Eligible, Whole, Absent, Statuses
<1>3. \A v \in Versions : v \in Deployed =>
        /\ trained[v] = Eligible /\ Eligible # None
        /\ metadata[v].bytes = "whole" /\ metadata[v].candidate_status = "PROMOTION_ELIGIBLE" /\ metadata[v].base = None
  <2>1. Eligible \in Trainings
    BY DEF Eligible, Trainings, Statuses
  <2> QED  BY <2>1, NoneAssumption DEF RegistryInit, Whole
<1>4. \A v \in Versions : v \notin Deployed => metadata[v].bytes = None
  BY DEF RegistryInit, Absent
<1>5. FilesInv
  BY <1>2, <1>3, <1>4, NoneAssumption DEF FilesInv, RegistryInit, Eligible
<1>6. PolicyOK(registry)
  BY VersionAssumption DEF PolicyOK, RegistryInit, Versions
<1> QED  BY <1>1, <1>5, <1>6 DEF FitInv, RegistryInit, LoadFits, ServingFits, BindingFits

\* A load, a model that is served and a calibrator that is bound keep what they know
\* while the files grow under them.
LEMMA FitsStay ==
  ASSUME FitInv, FilesGrow, ApprovedInv', FilesInv', PolicyOK(registry'),
         Disturbed \/ UNCHANGED load, UNCHANGED loads
  PROVE  FitInv'
<1>1. ASSUME NEW v \in Versions, NEW data, Told(data, v)
      PROVE  data.bytes = "whole" => trained'[v] # None /\ data.candidate_status = trained'[v].candidate_status
  BY <1>1 DEF Told, FilesGrow
<1>2. Bases \subseteq Versions /\ Calibrators \subseteq Versions
  BY DEF Versions
<1>3. \A found : Passed(found) => Passed(found)'
  BY <1>1, <1>2 DEF Passed, Told
<1>4. \A c, model : Fitted(c, model) => Fitted(c, model)'
  BY <1>2 DEF Fitted, FilesGrow
<1>5. load' # None => /\ load # None /\ load'.todo = load.todo /\ load'.meta = load.meta /\ load'.best = load.best
  <2>1. CASE UNCHANGED load
    BY <2>1
  <2>2. CASE Disturbed
    <3>1. load # None => load' = [load EXCEPT !.quiet = FALSE]
      BY <2>2 DEF Disturbed
    <3>2. load # None => load = [use |-> load.use, policy |-> load.policy, best |-> load.best, meta |-> load.meta,
                                 quiet |-> load.quiet, todo |-> load.todo]
      BY DEF FitInv, ApprovedInv, LoadFound
    <3>3. load = None => load' = None
      BY <2>2 DEF Disturbed
    <3> QED  BY <3>1, <3>2, <3>3
  <2> QED  BY <2>1, <2>2
<1>6. LoadFits'
  <2> SUFFICES ASSUME load' # None  PROVE LoadFits'
    BY DEF LoadFits
  <2>1. /\ load.todo \subseteq Bases /\ \A v \in load.todo : trained[v] # None
        /\ load.meta # None => load.todo # {} /\ Readable(load.meta) /\ Told(load.meta, First(load.todo))
        /\ load.best # None => Passed(load.best)
    BY <1>5 DEF FitInv, LoadFits
  <2>2. \A v \in load.todo : trained'[v] # None
    BY <1>2, <2>1 DEF FilesGrow
  <2>3. load.todo # {} => First(load.todo) \in Versions
    BY <1>2, <2>1, FirstIsFirst, VersionAssumption
  <2>4. load.meta # None => Told(load.meta, First(load.todo))'
    BY <1>1, <1>5, <2>1, <2>3 DEF Told
  <2> QED  BY <1>3, <1>5, <2>1, <2>2, <2>4 DEF LoadFits
<1>7. ServingFits' /\ BindingFits'
  BY <1>3, <1>4 DEF FitInv, ServingFits, BindingFits, loads
<1> QED  BY <1>6, <1>7 DEF FitInv

\* A training is of a version nobody trained, and writes its metadata in two steps.
LEMMA StartTrainingFits ==
  ASSUME FitInv, NEW v \in Versions, StartTraining(v), ApprovedInv'
  PROVE  FitInv'
<1>1. trained[v] = None /\ metadata[v].bytes = None /\ trainer = None
  <2>1. trained[v] = None /\ trainer = None
    BY DEF StartTraining, Untrained
  <2> QED  BY <2>1 DEF FitInv, FilesInv
<1>2. PICK row \in Trainings : trained' = [trained EXCEPT ![v] = row]
  <2>1. CASE \E status \in Statuses : trained' = [trained EXCEPT ![v] = [candidate_status |-> status, base |-> None]]
    <3>1. PICK status \in Statuses : trained' = [trained EXCEPT ![v] = [candidate_status |-> status, base |-> None]]
      BY <2>1
    <3>2. [candidate_status |-> status, base |-> None] \in Trainings
      BY DEF Trainings
    <3> QED  BY <3>1, <3>2
  <2>2. CASE Candidates # {} /\ trained' = [trained EXCEPT ![v] = [candidate_status |-> None, base |-> Newest(Candidates)]]
    <3>1. Candidates \subseteq Bases
      BY DEF Candidates
    <3>2. IsFiniteSet(Candidates) /\ Candidates \subseteq Nat
      <4>1. Candidates \in SUBSET (Bases \cup Calibrators)
        BY <3>1
      <4> HIDE DEF Candidates
      <4> QED  BY <4>1, VersionAssumption, FS_Subset
    <3>3. Newest(Candidates) \in Bases
      BY <2>2, <3>1, <3>2, NewestIsNewest
    <3>4. [candidate_status |-> None, base |-> Newest(Candidates)] \in Trainings
      BY <3>3 DEF Trainings
    <3> QED  BY <2>2, <3>4
  <2> QED  BY <2>1, <2>2 DEF StartTraining
<1>3. row # None
  BY NoneAssumption DEF Trainings
<1>4. /\ trainer' = [version |-> v, step |-> 1] /\ metadata' = metadata
      /\ registry' = registry /\ UNCHANGED loads /\ Disturbed
  BY DEF StartTraining, policy
<1>5. /\ trained \in [Versions -> Trainings \cup {None}] /\ metadata \in [Versions -> Sidecars]
      /\ \A w \in Versions : metadata[w].bytes # None => trained[w] # None
      /\ \A w \in Versions : metadata[w].bytes = "whole" =>
           metadata[w].candidate_status = trained[w].candidate_status /\ metadata[w].base = trained[w].base
  BY DEF FitInv, FilesInv
<1>6. trained' \in [Versions -> Trainings \cup {None}] /\ trained'[v] = row
      /\ \A w \in Versions : w # v => trained'[w] = trained[w]
  BY <1>2, <1>5
<1>7. FilesInv'
  BY <1>1, <1>3, <1>4, <1>5, <1>6, NoneAssumption DEF FilesInv
<1>8. FilesGrow
  BY <1>1, <1>4, <1>6 DEF FilesGrow
<1>9. PolicyOK(registry')
  BY <1>4 DEF FitInv
<1> QED  BY <1>4, <1>7, <1>8, <1>9, FitsStay

LEMMA ContinueTrainingFits ==
  ASSUME FitInv, ContinueTraining, ApprovedInv'
  PROVE  FitInv'
<1> DEFINE v == trainer.version
           row(bytes) == [bytes |-> bytes, candidate_status |-> trained[v].candidate_status, base |-> trained[v].base]
<1>1. /\ trainer # None /\ v \in Versions /\ trained[v] # None
      /\ trainer = [version |-> v, step |-> trainer.step]
      /\ \/ trainer.step = 1 /\ metadata[v].bytes = None
         \/ trainer.step = 2 /\ metadata[v].bytes = "half"
  BY DEF FitInv, FilesInv, ContinueTraining
<1>2. trained[v] \in Trainings
  BY <1>1 DEF FitInv, FilesInv
<1>3. row("half") \in Sidecars /\ row("whole") \in Sidecars
  BY <1>2 DEF Sidecars, Trainings
<1>4. \/ trainer.step = 1 /\ metadata' = [metadata EXCEPT ![v] = row("half")] /\ trainer' = [trainer EXCEPT !.step = 2]
      \/ metadata' = [metadata EXCEPT ![v] = row("whole")] /\ trainer' = None
  BY DEF ContinueTraining
<1>5. trained' = trained /\ registry' = registry /\ UNCHANGED loads /\ Disturbed
  BY DEF ContinueTraining, policy
<1>6. metadata \in [Versions -> Sidecars]
  BY DEF FitInv, FilesInv
<1>7. FilesInv'
  <2>1. CASE trainer.step = 1 /\ metadata' = [metadata EXCEPT ![v] = row("half")] /\ trainer' = [trainer EXCEPT !.step = 2]
    <3>1. trainer' = [version |-> v, step |-> 2]
      BY <1>1, <2>1
    <3>2. /\ metadata' \in [Versions -> Sidecars] /\ metadata'[v] = row("half")
          /\ \A w \in Versions : w # v => metadata'[w] = metadata[w]
      BY <1>1, <1>3, <1>6, <2>1
    <3>3. row("half").bytes = "half"
      OBVIOUS
    <3> HIDE DEF v, row
    <3> QED  BY <1>1, <1>5, <3>1, <3>2, <3>3 DEF FitInv, FilesInv
  <2>2. CASE metadata' = [metadata EXCEPT ![v] = row("whole")] /\ trainer' = None
    <3>2. /\ metadata' \in [Versions -> Sidecars] /\ metadata'[v] = row("whole")
          /\ \A w \in Versions : w # v => metadata'[w] = metadata[w]
      BY <1>1, <1>3, <1>6, <2>2
    <3>3. /\ row("whole").bytes = "whole" /\ row("whole").candidate_status = trained[v].candidate_status
          /\ row("whole").base = trained[v].base
      OBVIOUS
    <3> HIDE DEF v, row
    <3> QED  BY <1>1, <1>5, <2>2, <3>2, <3>3 DEF FitInv, FilesInv
  <2> QED  BY <1>4, <2>1, <2>2
<1>8. FilesGrow
  <2>1. metadata[v].bytes # "other"
    BY <1>1, NoneAssumption
  <2> HIDE DEF v, row
  <2> QED  BY <1>4, <1>5, <1>6, <2>1 DEF FilesGrow
<1>9. PolicyOK(registry')
  BY <1>5 DEF FitInv
<1> QED  BY <1>5, <1>7, <1>8, <1>9, FitsStay

LEMMA EditFits ==
  ASSUME FitInv, NEW v \in Versions, EditRegistry(v), ApprovedInv'
  PROVE  FitInv'
<1>1. PICK status \in {"ALLOWED", "INVALID"}, sha \in {artifact[v], None},
           model \in (IF v \in Calibrators THEN Bases ELSE {None}) :
        registry' = [w \in DOMAIN registry \cup {v} |->
              IF w = v THEN [status |-> status, artifact_sha256 |-> sha, metadata_sha256 |-> metadata[v].bytes, base |-> model]
              ELSE registry[w]]
  BY DEF EditRegistry
<1>2. PolicyOK(registry')
  BY <1>1 DEF FitInv, PolicyOK
<1>3. UNCHANGED <<trained, metadata, trainer>> /\ UNCHANGED loads /\ Disturbed
  BY DEF EditRegistry, store
<1>4. FilesInv' /\ FilesGrow
  BY <1>3 DEF FitInv, FilesInv, FilesGrow
<1> QED  BY <1>2, <1>3, <1>4, FitsStay

\* Metadata is only edited once it is whole, hence no longer in the making.
LEMMA DamageFits ==
  ASSUME FitInv, NEW v \in Versions, Damage(v), ApprovedInv'
  PROVE  FitInv'
<1>1. UNCHANGED <<trained, trainer, registry>> /\ UNCHANGED loads /\ Disturbed /\ trained[v] # None
  BY DEF Damage, policy
<1>2. CASE UNCHANGED metadata
  <2>1. FilesInv' /\ FilesGrow
    BY <1>1, <1>2 DEF FitInv, FilesInv, FilesGrow
  <2> QED  BY <1>1, <2>1, FitsStay DEF FitInv
<1>3. CASE /\ metadata[v].bytes = "whole"
           /\ \E model \in IF v \in Calibrators THEN Bases ELSE {None} :
                metadata' = [metadata EXCEPT ![v] = [bytes |-> "other", candidate_status |-> "PROMOTION_ELIGIBLE", base |-> model]]
  <2>1. PICK model \in (IF v \in Calibrators THEN Bases ELSE {None}) :
            metadata' = [metadata EXCEPT ![v] = [bytes |-> "other", candidate_status |-> "PROMOTION_ELIGIBLE", base |-> model]]
    BY <1>3
  <2>2. [bytes |-> "other", candidate_status |-> "PROMOTION_ELIGIBLE", base |-> model] \in Sidecars
    BY DEF Sidecars, Statuses
  <2>3. metadata \in [Versions -> Sidecars]
    BY DEF FitInv, FilesInv
  <2>4. /\ metadata' \in [Versions -> Sidecars] /\ metadata'[v].bytes = "other"
        /\ \A w \in Versions : w # v => metadata'[w] = metadata[w]
    BY <2>1, <2>2, <2>3
  <2>5. trainer # None => trainer.version # v
    BY <1>3, NoneAssumption DEF FitInv, FilesInv
  <2>6. FilesInv' /\ FilesGrow
    BY <1>1, <2>4, <2>5 DEF FitInv, FilesInv, FilesGrow
  <2> QED  BY <1>1, <2>6, FitsStay DEF FitInv
<1> QED  BY <1>2, <1>3 DEF Damage

\* The steps of a load and of a binding leave the files as they are.
LEMMA LoadingFits ==
  ASSUME FitInv, ApprovedInv', UNCHANGED <<trained, metadata, trainer, registry>>,
         LoadFits', ServingFits', BindingFits'
  PROVE  FitInv'
BY DEF FitInv, FilesInv

LEMMA BeginLoadFits ==
  ASSUME FitInv, ApprovedInv', NEW use, NEW allowed, Loading(use, allowed),
         UNCHANGED <<trained, metadata, trainer, registry>>, UNCHANGED loads
  PROVE  FitInv'
<1>1. /\ load'.todo = {v \in Bases : metadata[v].bytes # None}
      /\ load'.meta = None /\ load'.best = None
  BY DEF Loading
<1>2. LoadFits'
  BY <1>1 DEF LoadFits, FitInv, FilesInv, Versions
<1>3. ServingFits' /\ BindingFits'
  BY DEF FitInv, ServingFits, BindingFits, Passed, Told, Fitted, loads
<1> QED  BY <1>2, <1>3, LoadingFits

LEMMA LoadRecord ==
  ASSUME FitInv, load # None
  PROVE  load = [use |-> load.use, policy |-> load.policy, best |-> load.best, meta |-> load.meta,
                 quiet |-> load.quiet, todo |-> load.todo]
BY DEF FitInv, ApprovedInv, LoadFound

LEMMA ReadMetadataFits ==
  ASSUME FitInv, ApprovedInv', ReadMetadata
  PROVE  FitInv'
<1> DEFINE v == First(load.todo)
           data == metadata[v]
<1>1. load # None /\ load.todo # {} /\ load.meta = None
  BY DEF ReadMetadata
<1>2. /\ load.todo \subseteq Bases /\ \A w \in load.todo : trained[w] # None
      /\ load.best # None => Passed(load.best)
  BY <1>1 DEF FitInv, LoadFits
<1>3. v \in load.todo /\ v \in Versions
  BY <1>1, <1>2, FirstIsFirst, VersionAssumption DEF Versions
<1>4. Told(data, v)
  BY <1>2, <1>3 DEF FitInv, FilesInv, Told
<1>5. \/ /\ Readable(data) /\ load'.meta = data /\ load'.todo = load.todo /\ load'.best = load.best
      \/ /\ load'.meta = None /\ load'.todo = load.todo \ {v} /\ load'.best = load.best
  <2>1. \/ Readable(data) /\ load' = [load EXCEPT !.meta = data]
        \/ load' = [load EXCEPT !.todo = @ \ {v}]
    BY DEF ReadMetadata
  <2> QED  BY <1>1, <2>1, LoadRecord
<1>6. UNCHANGED <<trained, metadata, trainer, registry>> /\ UNCHANGED loads
  BY DEF ReadMetadata, store, policy
<1> HIDE DEF v, data
<1>7. LoadFits'
  <2>1. /\ \A found : Passed(found) => Passed(found)'
        /\ \A d, w : Told(d, w) => Told(d, w)'
    BY <1>6 DEF Passed, Told
  <2>2. CASE /\ Readable(data) /\ load'.meta = data
             /\ load'.todo = load.todo /\ load'.best = load.best
    <3>1. v = First(load'.todo)
      BY <2>2 DEF v
    <3> QED  BY <1>1, <1>2, <1>4, <1>6, <2>1, <2>2, <3>1 DEF LoadFits, Readable
  <2>3. CASE /\ load'.meta = None /\ load'.todo = load.todo \ {v} /\ load'.best = load.best
    BY <1>2, <1>6, <2>1, <2>3 DEF LoadFits
  <2> QED  BY <1>5, <2>2, <2>3
<1>8. ServingFits' /\ BindingFits'
  BY <1>6 DEF FitInv, ServingFits, BindingFits, Passed, Told, Fitted, loads
<1> QED  BY <1>6, <1>7, <1>8, LoadingFits

LEMMA ReadBytesFits ==
  ASSUME FitInv, ApprovedInv', ReadBytes
  PROVE  FitInv'
<1> DEFINE v == First(load.todo)
           found == [base |-> v, bytes |-> artifact[v], metadata |-> load.meta, calibrator |-> None]
<1>1. load # None /\ load.meta # None
  BY DEF ReadBytes
<1>2. /\ load.todo \subseteq Bases /\ \A w \in load.todo : trained[w] # None
      /\ load.best # None => Passed(load.best)
      /\ load.todo # {} /\ Readable(load.meta) /\ Told(load.meta, v)
  BY <1>1 DEF FitInv, LoadFits
<1>3. v \in Bases
  BY <1>2, FirstIsFirst, VersionAssumption
<1>4. /\ load'.todo = load.todo \ {v} /\ load'.meta = None
      /\ \/ load'.best = load.best
         \/ load'.best = found /\ load.meta.candidate_status # "REJECTED_CANDIDATE"
  <2>1. \/ load' = [load EXCEPT !.todo = @ \ {v}, !.meta = None, !.best = @]
        \/ /\ load' = [load EXCEPT !.todo = @ \ {v}, !.meta = None, !.best = found]
           /\ load.meta.candidate_status # "REJECTED_CANDIDATE"
    BY DEF ReadBytes
  <2> QED  BY <1>1, <2>1, LoadRecord
<1>5. UNCHANGED <<trained, metadata, trainer, registry>> /\ UNCHANGED loads
  BY DEF ReadBytes, store, policy
<1>6. load.meta.candidate_status # "REJECTED_CANDIDATE" => Passed(found)
  <2>1. found.base = v /\ found.metadata = load.meta
    OBVIOUS
  <2> HIDE DEF v, found
  <2> QED  BY <1>2, <1>3, <2>1 DEF Passed
<1> HIDE DEF v, found
<1>7. LoadFits'
  <2>1. \A f : Passed(f) => Passed(f)'
    BY <1>5 DEF Passed, Told
  <2>2. load'.best # None => Passed(load.best)'
    BY <1>2, <1>4, <1>6, <2>1
  <2> QED  BY <1>2, <1>4, <1>5, <2>2 DEF LoadFits
<1>8. ServingFits' /\ BindingFits'
  BY <1>5 DEF FitInv, ServingFits, BindingFits, Passed, Told, Fitted, loads
<1> QED  BY <1>5, <1>7, <1>8, LoadingFits

LEMMA FinishLoadFits ==
  ASSUME FitInv, ApprovedInv', FinishLoad
  PROVE  FitInv'
<1>1. load # None /\ load' = None /\ serving' = IF load.use = "serve" THEN load.best ELSE serving
  BY DEF FinishLoad, Loaded
<1>2. UNCHANGED <<trained, metadata, trainer, registry, binding>>
  BY DEF FinishLoad, store, policy
<1>3. load.best # None => Passed(load.best) /\ load.best.calibrator = None
  BY <1>1 DEF FitInv, LoadFits, ApprovedInv, LoadFound
<1>4. ServingFits'
  BY <1>1, <1>2, <1>3 DEF FitInv, ServingFits, Passed, Told, Fitted
<1>5. LoadFits' /\ BindingFits'
  BY <1>1, <1>2 DEF FitInv, LoadFits, BindingFits
<1> QED  BY <1>2, <1>4, <1>5, LoadingFits

\* Only a calibrator can be bound to a base.
LEMMA BindFits ==
  ASSUME FitInv, ApprovedInv', BindCalibrator
  PROVE  FitInv'
<1> DEFINE bound == AllowedCalibrators(PolicyNow, serving.base)
<1>1. /\ load = None /\ binding = None /\ serving # None /\ bound # {}
      /\ binding' = [version |-> Newest(bound), policy |-> PolicyNow]
  BY DEF BindCalibrator
<1>2. UNCHANGED <<trained, metadata, trainer, registry, load, serving>>
  BY DEF BindCalibrator, store, policy
<1>3. PolicyOK(PolicyNow)
  BY DEF FitInv, PolicyOK, PolicyNow
<1>4. serving.base \in Bases /\ serving.base # None
  BY <1>1, VersionAssumption, NoneAssumption DEF FitInv, ServingFits, Passed
<1>5. bound \subseteq Calibrators
  BY <1>3, <1>4 DEF AllowedCalibrators, PolicyOK
<1>6. IsFiniteSet(bound) /\ bound \subseteq Nat
  <2>1. bound \in SUBSET (Bases \cup Calibrators)
    BY <1>5
  <2> HIDE DEF bound
  <2> QED  BY <2>1, VersionAssumption, FS_Subset
<1> HIDE DEF bound
<1>7. Newest(bound) \in Calibrators
  BY <1>1, <1>5, <1>6, NewestIsNewest
<1>8. BindingFits'
  BY <1>1, <1>3, <1>7 DEF BindingFits, Versions
<1>9. LoadFits' /\ ServingFits'
  BY <1>2 DEF FitInv, LoadFits, ServingFits, Passed, Told, Fitted
<1> QED  BY <1>2, <1>8, <1>9, LoadingFits

\* The metadata that was hashed names the base the calibrator was fitted to, or was
\* rewritten before it was hashed.
LEMMA ReadCalibratorFits ==
  ASSUME FitInv, ApprovedInv', ReadCalibrator
  PROVE  FitInv'
<1> DEFINE c == binding.version
           calibrator == [version |-> c, bytes |-> artifact[c]]
<1>1. binding # None /\ binding' = None /\ UNCHANGED <<trained, metadata, trainer, registry, load>>
  BY DEF ReadCalibrator, store, policy
<1>2. c \in Calibrators /\ c \in Versions
  BY <1>1 DEF FitInv, BindingFits
<1>3. serving # None /\ Passed(serving)
      /\ serving = [base |-> serving.base, bytes |-> serving.bytes, metadata |-> serving.metadata,
                    calibrator |-> serving.calibrator]
  BY <1>1 DEF FitInv, ApprovedInv, BindingInv, ServingFits, Served
<1>4. \/ serving' = serving
      \/ /\ serving' = [serving EXCEPT !.calibrator = calibrator]
         /\ Bound(binding.policy[c], metadata[c], serving.base)
  BY DEF ReadCalibrator
<1>5. ServingFits'
  <2>1. CASE serving' = serving
    BY <1>1, <2>1 DEF FitInv, ServingFits, Passed, Told, Fitted
  <2>2. CASE /\ serving' = [serving EXCEPT !.calibrator = calibrator]
             /\ Bound(binding.policy[c], metadata[c], serving.base)
    <3>1. metadata[c].base = serving.base /\ metadata[c].bytes \in {"whole", "other"}
      BY <2>2 DEF Bound, Readable
    <3>2. Fitted(c, serving.base)
      BY <1>2, <3>1, NoneAssumption DEF FitInv, FilesInv, Fitted
    <3>3. /\ serving'.base = serving.base /\ serving'.metadata = serving.metadata
          /\ serving'.calibrator.version = c
      BY <1>3, <2>2
    <3> HIDE DEF c, calibrator
    <3> QED  BY <1>1, <1>3, <3>2, <3>3 DEF ServingFits, Passed, Told, Fitted
  <2> QED  BY <1>4, <2>1, <2>2
<1>6. LoadFits' /\ BindingFits'
  BY <1>1 DEF FitInv, LoadFits, BindingFits, Passed, Told
<1> QED  BY <1>1, <1>5, <1>6, LoadingFits

LEMMA FitStep ==
  ASSUME FitInv, [RegistryNext]_registryVars
  PROVE  FitInv'
<1>0. ApprovedInv'
  BY ApprovedStep DEF FitInv
<1>1. ASSUME NEW v \in Versions, StartTraining(v)  PROVE FitInv'
  BY <1>0, <1>1, StartTrainingFits
<1>2. CASE ContinueTraining
  BY <1>0, <1>2, ContinueTrainingFits
<1>3. CASE KillTraining
  <2>1. UNCHANGED <<trained, metadata, registry, load>> /\ UNCHANGED loads /\ trainer' = None
    BY <1>3 DEF KillTraining, store, policy
  <2>2. FilesInv' /\ FilesGrow
    BY <2>1 DEF FitInv, FilesInv, FilesGrow
  <2> QED  BY <1>0, <2>1, <2>2, FitsStay DEF FitInv
<1>4. ASSUME NEW v \in Versions, EditRegistry(v)  PROVE FitInv'
  BY <1>0, <1>4, EditFits
<1>5. CASE BreakRegistry
  <2>1. UNCHANGED <<trained, metadata, trainer, registry>> /\ UNCHANGED loads /\ Disturbed
    BY <1>5 DEF BreakRegistry, store
  <2>2. FilesInv' /\ FilesGrow
    BY <2>1 DEF FitInv, FilesInv, FilesGrow
  <2> QED  BY <1>0, <2>1, <2>2, FitsStay DEF FitInv
<1>6. ASSUME NEW v \in Versions, Damage(v)  PROVE FitInv'
  BY <1>0, <1>6, DamageFits
<1>7. CASE StartLoad
  BY <1>0, <1>7, BeginLoadFits DEF StartLoad, store, policy
<1>8. ASSUME NEW v \in Versions, LoadCandidateRegistry(v)  PROVE FitInv'
  BY <1>0, <1>8, BeginLoadFits DEF LoadCandidateRegistry, store, policy
<1>9. CASE ReadMetadata
  BY <1>0, <1>9, ReadMetadataFits
<1>10. CASE ReadBytes
  BY <1>0, <1>10, ReadBytesFits
<1>11. CASE FinishLoad
  BY <1>0, <1>11, FinishLoadFits
<1>12. CASE BindCalibrator
  BY <1>0, <1>12, BindFits
<1>13. CASE ReadCalibrator
  BY <1>0, <1>13, ReadCalibratorFits
<1>14. CASE UNCHANGED registryVars
  BY <1>0, <1>14 DEF registryVars, FitInv, FilesInv, LoadFits, ServingFits, BindingFits, Passed, Told, Fitted
<1> QED  BY <1>1, <1>2, <1>3, <1>4, <1>5, <1>6, <1>7, <1>8, <1>9, <1>10, <1>11, <1>12, <1>13, <1>14 DEF RegistryNext

\* What is served belongs together, whatever is trained, edited and damaged meanwhile.
THEOREM ServedAlwaysFits == RegistrySpec => []ServedFits
<1>1. RegistryInit => FitInv
  BY FilesInitially
<1>2. FitInv /\ [RegistryNext]_registryVars => FitInv'
  BY FitStep
<1>3. FitInv => ServedFits
  <2> SUFFICES ASSUME FitInv  PROVE ServedFits
    OBVIOUS
  <2>1. RegistryTypeOK
    BY DEF FitInv, FilesInv, LoadFits, ServingFits, Passed, Fitted, RegistryTypeOK
  <2>2. RejectedNeverServed
    BY DEF FitInv, ServingFits, Passed, Told, RejectedNeverServed
  <2>3. CalibratorFitsModel
    BY DEF FitInv, ServingFits, Fitted, CalibratorFitsModel
  <2> QED  BY <2>1, <2>2, <2>3 DEF ServedFits
<1> QED  BY <1>1, <1>2, <1>3, PTL DEF RegistrySpec
-----------------------------------------------------------------------------
(* A load that nothing disturbed finds the newest model *)

\* What a load has passed is no newer than what it found, and what it has still to read is newer.
QuietFound ==
    /\ load.policy = PolicyNow
    /\ load.meta # None => load.meta = metadata[First(load.todo)]
    /\ load.best # None => load.best.base \in Candidates /\ \A w \in load.todo : load.best.base < w
    /\ \A v \in Candidates : v \notin load.todo => load.best # None /\ v <= load.best.base

QuietInv == (load # None /\ load.use = "serve" /\ load.quiet) => QuietFound

Artifacts == artifact \in [Versions -> {None, "whole", "other"}]

NewestInv == FitInv /\ Artifacts /\ QuietInv

\* What changes under a load that is under way is no longer quiet.
LEMMA DisturbedInv ==
  ASSUME FitInv, Disturbed
  PROVE  QuietInv'
<1>1. load # None => load' = [load EXCEPT !.quiet = FALSE]
  BY DEF Disturbed
<1>2. load # None => ~load'.quiet
  BY <1>1, LoadRecord
<1>3. load = None => load' = None
  BY DEF Disturbed
<1> QED  BY <1>2, <1>3 DEF QuietInv

LEMMA StartQuiet ==
  ASSUME Loading("serve", PolicyNow), UNCHANGED <<store, policy>>
  PROVE  QuietInv'
<1>1. /\ load'.policy = PolicyNow /\ load'.meta = None /\ load'.best = None
      /\ load'.todo = {v \in Bases : metadata[v].bytes # None}
  BY DEF Loading
<1>2. PolicyNow' = PolicyNow /\ Candidates' = Candidates /\ metadata' = metadata
  BY DEF store, policy, PolicyNow, Candidates, Activable, Readable
<1>3. Candidates \subseteq load'.todo
  BY <1>1, NoneAssumption DEF Candidates, Readable
<1> QED  BY <1>1, <1>2, <1>3 DEF QuietInv, QuietFound

LEMMA ReadMetadataQuiet ==
  ASSUME NewestInv, ReadMetadata
  PROVE  QuietInv'
<1> DEFINE v == First(load.todo)
           data == metadata[v]
<1>1. load # None /\ load.todo # {} /\ load.meta = None
  BY DEF ReadMetadata
<1>2. \/ /\ load'.meta = data /\ load'.todo = load.todo
      \/ /\ ~Readable(data) /\ load'.meta = None /\ load'.todo = load.todo \ {v}
  <2>1. \/ load' = [load EXCEPT !.meta = data]
        \/ ~Readable(data) /\ load' = [load EXCEPT !.todo = @ \ {v}]
    BY DEF ReadMetadata
  <2> QED  BY <1>1, <2>1, LoadRecord DEF NewestInv
<1>3. /\ load'.use = load.use /\ load'.quiet = load.quiet /\ load'.policy = load.policy /\ load'.best = load.best
  <2>1. \/ load' = [load EXCEPT !.meta = data]
        \/ load' = [load EXCEPT !.todo = @ \ {v}]
    BY DEF ReadMetadata
  <2> QED  BY <1>1, <2>1, LoadRecord DEF NewestInv
<1>4. PolicyNow' = PolicyNow /\ Candidates' = Candidates /\ metadata' = metadata
  BY DEF ReadMetadata, store, policy, PolicyNow, Candidates, Activable, Readable
<1>5. ~Readable(data) => v \notin Candidates
  BY DEF Candidates
<1> SUFFICES ASSUME load.use = "serve", load.quiet, QuietFound  PROVE QuietFound'
  BY <1>1, <1>3 DEF NewestInv, QuietInv
<1>6. load'.meta # None => load'.meta = metadata[First(load'.todo)]
  BY <1>2
<1> HIDE DEF v, data
<1>7. load'.todo \subseteq load.todo /\ \A w \in Candidates : w \notin load'.todo => w \notin load.todo
  BY <1>2, <1>5
<1> QED  BY <1>3, <1>4, <1>6, <1>7 DEF QuietFound

LEMMA ReadBytesQuiet ==
  ASSUME NewestInv, ReadBytes
  PROVE  QuietInv'
<1> DEFINE v == First(load.todo)
           found == [base |-> v, bytes |-> artifact[v], metadata |-> load.meta, calibrator |-> None]
           activable == /\ Activable(load.policy, v, artifact[v])
                        /\ load.meta.candidate_status # "REJECTED_CANDIDATE"
<1>1. load # None /\ load.meta # None
  BY DEF ReadBytes
<1>2. load.todo \subseteq Bases /\ load.todo # {} /\ Readable(load.meta)
  BY <1>1 DEF NewestInv, FitInv, LoadFits
<1>3. v \in load.todo /\ v \in Bases /\ v \in Nat /\ \A w \in load.todo : w \in Nat /\ v <= w
  <2>1. load.todo \subseteq Nat
    BY <1>2, VersionAssumption
  <2> QED  BY <1>2, <2>1, FirstIsFirst
<1>4. load' = [load EXCEPT !.todo = @ \ {v}, !.meta = None, !.best = IF activable THEN found ELSE @]
  BY DEF ReadBytes
<1>5. /\ load'.use = load.use /\ load'.quiet = load.quiet /\ load'.policy = load.policy
      /\ load'.todo = load.todo \ {v} /\ load'.meta = None
      /\ load'.best = IF activable THEN found ELSE load.best
  BY <1>1, <1>4, LoadRecord DEF NewestInv
<1>6. PolicyNow' = PolicyNow /\ Candidates' = Candidates /\ metadata' = metadata
  BY DEF ReadBytes, store, policy, PolicyNow, Candidates, Activable, Readable
<1> SUFFICES ASSUME load.use = "serve", load.quiet, QuietFound  PROVE QuietFound'
  BY <1>1, <1>5 DEF NewestInv, QuietInv
<1>8. activable <=> v \in Candidates
  <2>1. load.policy = PolicyNow /\ load.meta = metadata[v]
    BY <1>1 DEF QuietFound
  <2> QED  BY <1>2, <1>3, <2>1 DEF Candidates
<1>9. Candidates \subseteq Nat
  BY VersionAssumption DEF Candidates
<1>7. v \in Candidates => found # None /\ found.base = v
  <2> SUFFICES ASSUME v \in Candidates  PROVE found # None
    OBVIOUS
  <2>1. artifact[v] # None /\ artifact[v] \in {None, "whole", "other"} /\ metadata[v] \in Sidecars
    BY <1>3 DEF Candidates, Activable, NewestInv, Artifacts, FitInv, FilesInv, Versions
  <2>2. load.meta = metadata[v]
    BY <1>1 DEF QuietFound
  <2> HIDE DEF v
  <2>3. found \in [base : Bases, bytes : {"whole", "other"}, metadata : Sidecars, calibrator : {None}]
    BY <1>3, <2>1, <2>2
  <2> QED  BY <2>3, NoneAssumption
<1> HIDE DEF v, found, activable
<1>10. CASE v \in Candidates
  <2>1. load'.best = found /\ load'.best.base = v /\ load'.best # None
    BY <1>5, <1>7, <1>8, <1>10
  <2>2. \A w \in load'.todo : v < w
    BY <1>3, <1>5
  <2>3. ASSUME NEW w \in Candidates, w \notin load'.todo  PROVE w <= v
    <3>1. CASE w = v
      BY <1>3, <3>1
    <3>2. CASE w # v
      <4>1. w \notin load.todo
        BY <1>5, <2>3, <3>2
      <4>2. load.best # None /\ w <= load.best.base /\ load.best.base \in Nat /\ load.best.base < v
        BY <1>3, <1>9, <4>1 DEF QuietFound
      <4> QED  BY <1>3, <1>9, <4>2
    <3> QED  BY <3>1, <3>2
  <2> QED  BY <1>5, <1>6, <1>7, <1>10, <2>1, <2>2, <2>3 DEF QuietFound
<1>11. CASE v \notin Candidates
  <2>1. load'.best = load.best
    BY <1>5, <1>8, <1>11
  <2>2. \A w \in Candidates : w \notin load'.todo => w \notin load.todo
    BY <1>5, <1>11
  <2> QED  BY <1>5, <1>6, <2>1, <2>2 DEF QuietFound
<1> QED  BY <1>10, <1>11

LEMMA QuietStep ==
  ASSUME NewestInv, [RegistryNext]_registryVars
  PROVE  QuietInv'
<1>1. CASE Disturbed
  BY <1>1, DisturbedInv DEF NewestInv
<1>2. CASE UNCHANGED <<store, policy, load>>
  <2>1. PolicyNow' = PolicyNow /\ Candidates' = Candidates /\ metadata' = metadata /\ load' = load
    BY <1>2 DEF store, policy, PolicyNow, Candidates, Activable, Readable
  <2> QED  BY <2>1 DEF NewestInv, QuietInv, QuietFound
<1>3. CASE StartLoad
  BY <1>3, StartQuiet DEF StartLoad
<1>4. ASSUME NEW v \in Versions, LoadCandidateRegistry(v)  PROVE QuietInv'
  <2>1. load'.use = "evaluate"
    BY <1>4 DEF LoadCandidateRegistry, Loading
  <2> QED  BY <2>1 DEF QuietInv
<1>5. CASE ReadMetadata
  BY <1>5, ReadMetadataQuiet
<1>6. CASE ReadBytes
  BY <1>6, ReadBytesQuiet
<1>7. CASE FinishLoad
  BY <1>7 DEF FinishLoad, QuietInv
<1>8. ASSUME NEW v \in Versions, StartTraining(v) \/ EditRegistry(v) \/ Damage(v)  PROVE Disturbed
  BY <1>8 DEF StartTraining, EditRegistry, Damage
<1>9. ContinueTraining \/ BreakRegistry => Disturbed
  BY DEF ContinueTraining, BreakRegistry
<1>10. KillTraining \/ BindCalibrator \/ ReadCalibrator \/ UNCHANGED registryVars => UNCHANGED <<store, policy, load>>
  BY DEF KillTraining, BindCalibrator, ReadCalibrator, registryVars, store, policy
<1> QED  BY <1>1, <1>2, <1>3, <1>4, <1>5, <1>6, <1>7, <1>8, <1>9, <1>10 DEF RegistryNext

LEMMA ArtifactsStep ==
  ASSUME NewestInv, [RegistryNext]_registryVars
  PROVE  Artifacts'
<1>1. artifact \in [Versions -> {None, "whole", "other"}]
  BY DEF NewestInv, Artifacts
<1>2. ASSUME NEW v \in Versions, StartTraining(v) \/ Damage(v)  PROVE Artifacts'
  BY <1>1, <1>2 DEF StartTraining, Damage, Artifacts
<1>3. CASE UNCHANGED artifact
  BY <1>1, <1>3 DEF Artifacts
<1>4. ASSUME NEW v \in Versions, EditRegistry(v) \/ LoadCandidateRegistry(v)  PROVE UNCHANGED artifact
  BY <1>4 DEF EditRegistry, LoadCandidateRegistry, store
<1>5. CASE \/ ContinueTraining \/ KillTraining \/ BreakRegistry \/ StartLoad \/ ReadMetadata
           \/ ReadBytes \/ FinishLoad \/ BindCalibrator \/ ReadCalibrator \/ UNCHANGED registryVars
  BY <1>3, <1>5 DEF ContinueTraining, KillTraining, BreakRegistry, StartLoad, ReadMetadata, ReadBytes,
         FinishLoad, BindCalibrator, ReadCalibrator, registryVars, store
<1> HIDE DEF Artifacts
<1> QED  BY <1>2, <1>3, <1>4, <1>5 DEF RegistryNext

\* A load nothing disturbs ends with the newest model that may be activated, however many
\* trainings died half way before it.
THEOREM NewestAlwaysServed == RegistrySpec => []NewestIsServed
<1>1. RegistryInit => NewestInv
  BY FilesInitially DEF NewestInv, Artifacts, QuietInv, RegistryInit
<1>2. NewestInv /\ [RegistryNext]_registryVars => NewestInv'
  BY FitStep, ArtifactsStep, QuietStep DEF NewestInv
<1>3. NewestInv => NewestIsServed
  <2> SUFFICES ASSUME NewestInv, load # None, load.use = "serve", load.quiet, load.todo = {}
               PROVE  IF Candidates = {} THEN load.best = None
                      ELSE load.best # None /\ load.best.base = Newest(Candidates)
    BY DEF NewestIsServed
  <2>1. /\ load.best # None => load.best.base \in Candidates
        /\ \A v \in Candidates : load.best # None /\ v <= load.best.base
    BY DEF NewestInv, QuietInv, QuietFound
  <2>2. Candidates \in SUBSET (Bases \cup Calibrators)
    BY DEF Candidates
  <2>3. Candidates \subseteq Nat /\ IsFiniteSet(Candidates)
    <3> HIDE DEF Candidates
    <3> QED  BY <2>2, VersionAssumption, FS_Subset
  <2>4. CASE Candidates # {}
    <3>1. Newest(Candidates) \in Candidates /\ \A w \in Candidates : w <= Newest(Candidates)
      BY <2>3, <2>4, NewestIsNewest
    <3>2. load.best # None /\ load.best.base \in Candidates /\ Newest(Candidates) <= load.best.base
      BY <2>1, <3>1
    <3>3. \A a, b \in Nat : a <= b /\ b <= a => a = b
      OBVIOUS
    <3>4. load.best.base = Newest(Candidates)
      BY <2>3, <3>1, <3>2, <3>3
    <3> QED  BY <2>4, <3>2, <3>4
  <2> QED  BY <2>1, <2>4
<1> QED  BY <1>1, <1>2, <1>3, PTL DEF RegistrySpec
=============================================================================
