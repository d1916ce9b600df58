------------------------- MODULE WindowEngineProofs -------------------------
(***************************************************************************)
(* For windows of any length: the sort of a window is one, the order of    *)
(* arrival does not change the reasons for its score, and another event    *)
(* takes no reason away that only counts events.                           *)
(***************************************************************************)
EXTENDS MCWindowEngine, FiniteSetTheorems, FunctionTheorems, SequenceTheorems,
        TLAPS

(* The units that TotalOf counts. *)
Units(f) == UNION {{x} \X (1..f[x]) : x \in DOMAIN f}

LEMMA UnitsMember ==
  ASSUME NEW f, NEW u
  PROVE  u \in Units(f) <=> \E x \in DOMAIN f : \E n \in 1..f[x] : u = <<x, n>>
BY DEF Units

LEMMA UnitsFinite ==
  ASSUME NEW f, IsFiniteSet(DOMAIN f), \A x \in DOMAIN f : f[x] \in Nat
  PROVE  IsFiniteSet(Units(f))
<1> DEFINE D == DOMAIN f
           part == [x \in D |-> {x} \X (1..f[x])]
           parts == {{x} \X (1..f[x]) : x \in D}
<1>1. part \in Surjection(D, parts)
  <2>1. part \in [D -> parts]
    OBVIOUS
  <2>2. \A s \in parts : \E x \in D : part[x] = s
    OBVIOUS
  <2>3. QED
    BY <2>1, <2>2, Fun_IsSurj
<1>2. IsFiniteSet(parts)
  BY <1>1, FS_Surjection
<1>3. ASSUME NEW x \in D
      PROVE  IsFiniteSet({x} \X (1..f[x]))
  <2>1. IsFiniteSet({x}) /\ IsFiniteSet(1..f[x])
    <3>1. f[x] \in Nat /\ 1 \in Int
      OBVIOUS
    <3>2. IsFiniteSet(1..f[x])
      BY <3>1, FS_Interval
    <3>3. QED
      BY <3>2, FS_Singleton
  <2>2. QED
    BY <2>1, FS_Product
<1>4. \A s \in parts : IsFiniteSet(s)
  BY <1>3
<1>5. QED
  BY <1>2, <1>4, FS_UNION DEF Units

(* A sum grows with its terms and with their number. *)
LEMMA TotalGrows ==
  ASSUME NEW f, NEW g, IsFiniteSet(DOMAIN g), \A x \in DOMAIN g : g[x] \in Nat,
         DOMAIN f \subseteq DOMAIN g,
         \A x \in DOMAIN f : f[x] \in Nat /\ f[x] <= g[x]
  PROVE  TotalOf(f) \in Nat /\ TotalOf(g) \in Nat /\ TotalOf(f) <= TotalOf(g)
<1>1. Units(f) \subseteq Units(g)
  <2> SUFFICES ASSUME NEW u \in Units(f) PROVE u \in Units(g)
    OBVIOUS
  <2>1. PICK x \in DOMAIN f : \E n \in 1..f[x] : u = <<x, n>>
    BY UnitsMember
  <2>2. PICK n \in 1..f[x] : u = <<x, n>>
    BY <2>1
  <2>3. x \in DOMAIN g /\ n \in 1..g[x]
    OBVIOUS
  <2>4. QED
    BY <2>2, <2>3, UnitsMember
<1>2. IsFiniteSet(Units(g))
  BY UnitsFinite
<1>3. IsFiniteSet(Units(f)) /\ Cardinality(Units(f)) <= Cardinality(Units(g))
  BY <1>1, <1>2, FS_Subset
<1>4. Cardinality(Units(f)) \in Nat /\ Cardinality(Units(g)) \in Nat
  BY <1>2, <1>3, FS_CardinalityType
<1>5. TotalOf(f) = Cardinality(Units(f)) /\ TotalOf(g) = Cardinality(Units(g))
  BY DEF TotalOf, Units
<1>6. QED
  BY <1>3, <1>4, <1>5

(* Neither a sum nor a number of marked places depends on the order. *)
LEMMA TotalShuffled ==
  ASSUME NEW D, IsFiniteSet(D), NEW f \in [D -> Nat], NEW p \in Bijection(D, D)
  PROVE  TotalOf([i \in D |-> f[p[i]]]) = TotalOf(f)
<1> DEFINE g == [i \in D |-> f[p[i]]]
           F == [u \in Units(g) |-> <<p[u[1]], u[2]>>]
<1>1. /\ p \in [D -> D] /\ \A i, j \in D : p[i] = p[j] => i = j
      /\ \A j \in D : \E i \in D : p[i] = j
  BY Fun_BijectionProperties, Fun_SurjectionProperties
<1>2. /\ DOMAIN g = D /\ DOMAIN f = D
      /\ \A i \in D : g[i] = f[p[i]] /\ g[i] \in Nat
  BY <1>1
<1> HIDE DEF g
<1>3. \A u \in Units(g) : \E x \in D : \E n \in 1..f[p[x]] : u = <<x, n>>
  BY <1>2, UnitsMember
<1>4. F \in [Units(g) -> Units(f)]
  <2> SUFFICES ASSUME NEW u \in Units(g)
               PROVE  <<p[u[1]], u[2]>> \in Units(f)
    OBVIOUS
  <2>1. PICK x \in D : \E n \in 1..f[p[x]] : u = <<x, n>>
    BY <1>3
  <2>2. PICK n \in 1..f[p[x]] : u = <<x, n>>
    BY <2>1
  <2>3. <<p[u[1]], u[2]>> = <<p[x], n>> /\ p[x] \in DOMAIN f
    BY <1>1, <1>2, <2>2
  <2>4. QED
    BY <2>3, UnitsMember
<1>5. ASSUME NEW u \in Units(g), NEW v \in Units(g), F[u] = F[v]
      PROVE  u = v
  <2>1. PICK x \in D : \E n \in 1..f[p[x]] : u = <<x, n>>
    BY <1>3
  <2>2. PICK y \in D : \E n \in 1..f[p[y]] : v = <<y, n>>
    BY <1>3
  <2>3. p[u[1]] = p[v[1]] /\ u[2] = v[2]
    BY <1>5
  <2>4. QED
    BY <1>1, <2>1, <2>2, <2>3
<1>6. ASSUME NEW v \in Units(f)
      PROVE  \E u \in Units(g) : F[u] = v
  <2>1. PICK y \in D : \E n \in 1..f[y] : v = <<y, n>>
    BY <1>2, UnitsMember
  <2>2. PICK n \in 1..f[y] : v = <<y, n>>
    BY <2>1
  <2>3. PICK x \in D : p[x] = y
    BY <1>1
  <2>4. <<x, n>> \in Units(g)
    BY <1>2, <2>2, <2>3, UnitsMember
  <2>5. F[<<x, n>>] = v
    BY <2>2, <2>3, <2>4
  <2>6. QED
    BY <2>4, <2>5
<1> HIDE DEF F
<1>7. F \in Bijection(Units(g), Units(f))
  <2>1. F \in Surjection(Units(g), Units(f))
    BY <1>4, <1>6, Fun_IsSurj
  <2>2. F \in Injection(Units(g), Units(f))
    BY <1>4, <1>5, Fun_IsInj
  <2>3. QED
    BY <2>1, <2>2 DEF Bijection
<1>8. IsFiniteSet(Units(g))
  BY <1>2, UnitsFinite
<1>9. Cardinality(Units(f)) = Cardinality(Units(g))
  BY <1>7, <1>8, FS_Bijection DEF ExistsBijection
<1>10. TotalOf(f) = Cardinality(Units(f)) /\ TotalOf(g) = Cardinality(Units(g))
  BY DEF TotalOf, Units
<1>11. QED
  BY <1>9, <1>10 DEF g

LEMMA MarkedShuffled ==
  ASSUME NEW D, IsFiniteSet(D), NEW S \in SUBSET D, NEW p \in Bijection(D, D)
  PROVE  Cardinality({i \in D : p[i] \in S}) = Cardinality(S)
<1> DEFINE R == {i \in D : p[i] \in S}
           F == [i \in R |-> p[i]]
<1>1. /\ p \in [D -> D] /\ \A i, j \in D : p[i] = p[j] => i = j
      /\ \A j \in D : \E i \in D : p[i] = j
  BY Fun_BijectionProperties, Fun_SurjectionProperties
<1>2. F \in [R -> S]
  BY <1>1
<1>3. \A i, j \in R : F[i] = F[j] => i = j
  BY <1>1
<1>4. \A j \in S : \E i \in R : F[i] = j
  <2> SUFFICES ASSUME NEW j \in S PROVE \E i \in R : F[i] = j
    OBVIOUS
  <2>1. PICK i \in D : p[i] = j
    BY <1>1
  <2>2. i \in R /\ F[i] = j
    BY <2>1
  <2>3. QED
    BY <2>2
<1>5. IsFiniteSet(R)
  BY FS_Subset
<1> HIDE DEF R, F
<1>6. F \in Bijection(R, S)
  <2>1. F \in Surjection(R, S)
    BY <1>2, <1>4, Fun_IsSurj
  <2>2. F \in Injection(R, S)
    BY <1>2, <1>3, Fun_IsInj
  <2>3. QED
    BY <2>1, <2>2 DEF Bijection
<1>7. QED
  BY <1>5, <1>6, FS_Bijection DEF ExistsBijection, R
-----------------------------------------------------------------------------
LEMMA RankType ==
  /\ \A k \in EventKey : Rank[k] \in Nat
  /\ \A k, l \in EventKey : Rank[k] = Rank[l] => k = l
<1>1. DOMAIN KeyOrder = 1..10
  BY DEF KeyOrder
<1>2. ASSUME NEW k \in EventKey
      PROVE  Rank[k] \in DOMAIN KeyOrder /\ KeyOrder[Rank[k]] = k
  <2>1. \E i \in DOMAIN KeyOrder : KeyOrder[i] = k
    BY DEF EventKey, ToSet
  <2>2. QED
    BY <2>1 DEF Rank
<1>3. QED
  BY <1>1, <1>2

LEMMA PrecedesOrders ==
  ASSUME NEW a \in Event, NEW b \in Event, NEW c \in Event
  PROVE  /\ ~Precedes(a, a)
         /\ Precedes(a, b) => ~Precedes(b, a)
         /\ Precedes(a, b) /\ Precedes(b, c) => Precedes(a, c)
         /\ Precedes(a, c) => Precedes(a, b) \/ Precedes(b, c)
         /\ ~Precedes(a, b) /\ ~Precedes(b, a) => a.ts = b.ts /\ a.key = b.key
<1>1. \A e \in {a, b, c} : e.ts \in Nat /\ e.key \in EventKey /\ Rank[e.key] \in Nat
  BY RankType DEF Event
<1>2. QED
  BY <1>1, RankType DEF Precedes

LEMMA BeforeOrders ==
  ASSUME NEW w \in Seq(Event),
         NEW i \in DOMAIN w, NEW j \in DOMAIN w, NEW k \in DOMAIN w
  PROVE  /\ ~Before(w, i, i)
         /\ Before(w, i, j) /\ Before(w, j, k) => Before(w, i, k)
         /\ i # j => Before(w, i, j) \/ Before(w, j, i)
<1>1. w[i] \in Event /\ w[j] \in Event /\ w[k] \in Event
  OBVIOUS
<1>2. i \in Nat /\ j \in Nat /\ k \in Nat
  OBVIOUS
<1>3. Precedes(w[i], w[j]) /\ Precedes(w[j], w[k]) => Precedes(w[i], w[k])
  BY <1>1, PrecedesOrders
<1>4. Precedes(w[i], w[j]) => Precedes(w[i], w[k]) \/ Precedes(w[k], w[j])
  BY <1>1, PrecedesOrders
<1>5. Precedes(w[j], w[k]) => Precedes(w[j], w[i]) \/ Precedes(w[i], w[k])
  BY <1>1, PrecedesOrders
<1>6. Precedes(w[k], w[i]) => Precedes(w[k], w[j]) \/ Precedes(w[j], w[i])
  BY <1>1, PrecedesOrders
<1>7. ~Precedes(w[i], w[i]) /\ (Precedes(w[i], w[j]) => ~Precedes(w[j], w[i]))
  BY <1>1, PrecedesOrders
<1>8. QED
  BY <1>2, <1>3, <1>4, <1>5, <1>6, <1>7 DEF Before

(* Of two events the one that comes before has the smaller place. *)
LEMMA PlaceOrders ==
  ASSUME NEW w \in Seq(Event)
  PROVE  /\ \A i \in DOMAIN w : Place(w, i) \in DOMAIN w
         /\ \A i, j \in DOMAIN w : Before(w, i, j) => Place(w, i) < Place(w, j)
         /\ \A i, j \in DOMAIN w : Place(w, i) = Place(w, j) => i = j
<1> DEFINE D == DOMAIN w
           Ahead(i) == {j \in D : Before(w, j, i)}
<1>1. D = 1..Len(w) /\ Len(w) \in Nat /\ IsFiniteSet(D) /\ Cardinality(D) = Len(w)
  <2>1. D = 1..Len(w) /\ Len(w) \in Nat /\ 1 \in Int /\ Len(w) \in Int
    OBVIOUS
  <2>2. IsFiniteSet(1..Len(w))
        /\ Cardinality(1..Len(w)) = IF 1 > Len(w) THEN 0 ELSE Len(w) - 1 + 1
    BY <2>1, FS_Interval
  <2>3. QED
    BY <2>1, <2>2
<1>2. \A i \in D : Place(w, i) = 1 + Cardinality(Ahead(i))
  BY DEF Place
<1>3. ASSUME NEW i \in D
      PROVE  /\ IsFiniteSet(Ahead(i)) /\ Cardinality(Ahead(i)) \in Nat
             /\ Cardinality(Ahead(i)) < Len(w)
  <2>1. Ahead(i) \in SUBSET D /\ i \notin Ahead(i)
    BY BeforeOrders
  <2> HIDE DEF Ahead
  <2>2. /\ IsFiniteSet(Ahead(i)) /\ Cardinality(Ahead(i)) <= Cardinality(D)
        /\ Cardinality(D) = Cardinality(Ahead(i)) => D = Ahead(i)
    BY <1>1, <2>1, FS_Subset
  <2>3. Cardinality(Ahead(i)) \in Nat
    BY <2>2, FS_CardinalityType
  <2>4. QED
    BY <1>1, <2>1, <2>2, <2>3
<1>4. ASSUME NEW i \in D, NEW j \in D, Before(w, i, j)
      PROVE  Place(w, i) < Place(w, j)
  <2>1. Ahead(i) \in SUBSET Ahead(j)
    <3> SUFFICES ASSUME NEW k \in D, Before(w, k, i) PROVE Before(w, k, j)
      OBVIOUS
    <3>1. QED
      BY <1>4, BeforeOrders
  <2>2. i \in Ahead(j) /\ i \notin Ahead(i)
    BY <1>4, BeforeOrders
  <2> HIDE DEF Ahead
  <2>3. /\ IsFiniteSet(Ahead(j)) /\ Cardinality(Ahead(i)) \in Nat
        /\ Cardinality(Ahead(j)) \in Nat
    BY <1>3
  <2>4. /\ Cardinality(Ahead(i)) <= Cardinality(Ahead(j))
        /\ Cardinality(Ahead(j)) = Cardinality(Ahead(i)) => Ahead(j) = Ahead(i)
    BY <2>1, <2>3, FS_Subset
  <2>5. QED
    BY <1>2, <2>2, <2>3, <2>4
<1>5. \A i \in D : Place(w, i) \in 1..Len(w)
  <2> HIDE DEF Ahead
  <2> QED
    BY <1>1, <1>2, <1>3
<1>6. ASSUME NEW i \in D, NEW j \in D, Place(w, i) = Place(w, j)
      PROVE  i = j
  <2>1. Place(w, i) \in Nat /\ Place(w, j) \in Nat
    BY <1>5
  <2>2. ~Before(w, i, j) /\ ~Before(w, j, i)
    BY <1>4, <1>6, <2>1
  <2>3. QED
    BY <2>2, BeforeOrders
<1>7. QED
  BY <1>1, <1>4, <1>5, <1>6

(* The sorted window is the window in another order. *)
LEMMA SortedIsShuffled ==
  ASSUME NEW w \in Seq(Event)
  PROVE  \E q \in Bijection(DOMAIN w, DOMAIN w) :
           /\ SortEvents(w) = [n \in DOMAIN w |-> w[q[n]]]
           /\ \A n \in DOMAIN w : Place(w, q[n]) = n
<1> DEFINE D == DOMAIN w
           place == [i \in D |-> Place(w, i)]
           q == [n \in D |-> CHOOSE i \in D : Place(w, i) = n]
<1>1. IsFiniteSet(D)
  BY FS_Interval
<1>2. place \in Injection(D, D)
  <2>1. place \in [D -> D]
    BY PlaceOrders
  <2>2. \A i, j \in D : place[i] = place[j] => i = j
    BY PlaceOrders
  <2>3. QED
    BY <2>1, <2>2, Fun_IsInj
<1>3. place \in Surjection(D, D)
  BY <1>1, <1>2, FS_Injection
<1>4. \A n \in D : \E i \in D : place[i] = n
  BY <1>3, Fun_SurjectionProperties
<1>5. \A n \in D : q[n] \in D /\ Place(w, q[n]) = n
  <2> SUFFICES ASSUME NEW n \in D PROVE q[n] \in D /\ Place(w, q[n]) = n
    OBVIOUS
  <2>1. \E i \in D : Place(w, i) = n
    BY <1>4
  <2>2. QED
    BY <2>1
<1>6. SortEvents(w) = [n \in D |-> w[q[n]]]
  BY DEF SortEvents
<1> HIDE DEF q
<1>7. q \in Injection(D, D)
  <2>1. q \in [D -> D]
    BY <1>5 DEF q
  <2>2. \A m, n \in D : q[m] = q[n] => m = n
    BY <1>5
  <2>3. QED
    BY <2>1, <2>2, Fun_IsInj
<1>8. q \in Surjection(D, D)
  BY <1>1, <1>7, FS_Injection
<1>9. q \in Bijection(D, D)
  BY <1>7, <1>8 DEF Bijection
<1>10. QED
  BY <1>5, <1>6, <1>9

(* sort_events is a stable sort: the events in another order, none before   *)
(* one that precedes it, and those that tie in the order of arrival.        *)
THEOREM SortEventsSorts ==
  ASSUME NEW w \in Seq(Event)
  PROVE  \E q \in Bijection(DOMAIN w, DOMAIN w) :
           /\ SortEvents(w) = [n \in DOMAIN w |-> w[q[n]]]
           /\ \A m, n \in DOMAIN w : m < n =>
                /\ ~Precedes(w[q[n]], w[q[m]])
                /\ Precedes(w[q[m]], w[q[n]]) \/ q[m] < q[n]
<1>1. PICK q \in Bijection(DOMAIN w, DOMAIN w) :
        /\ SortEvents(w) = [n \in DOMAIN w |-> w[q[n]]]
        /\ \A n \in DOMAIN w : Place(w, q[n]) = n
  BY SortedIsShuffled
<1>2. q \in [DOMAIN w -> DOMAIN w]
  BY Fun_BijectionProperties
<1>3. ASSUME NEW m \in DOMAIN w, NEW n \in DOMAIN w, m < n
      PROVE  /\ ~Precedes(w[q[n]], w[q[m]])
             /\ Precedes(w[q[m]], w[q[n]]) \/ q[m] < q[n]
  <2>1. q[m] \in DOMAIN w /\ q[n] \in DOMAIN w /\ m \in Nat /\ n \in Nat
    BY <1>2
  <2>2. ~Before(w, q[n], q[m])
    BY <1>1, <1>3, <2>1, PlaceOrders
  <2>3. q[m] # q[n]
    BY <1>1, <1>3, <2>1
  <2>4. Before(w, q[m], q[n])
    BY <2>1, <2>2, <2>3, BeforeOrders
  <2>5. QED
    BY <2>2, <2>4 DEF Before
<1>4. QED
  BY <1>1, <1>3
-----------------------------------------------------------------------------
(* A window in another order. *)
Shuffle(w, p) == [i \in DOMAIN w |-> w[p[i]]]

LEMMA ShuffleType ==
  ASSUME NEW w \in Seq(Event), NEW p \in Bijection(DOMAIN w, DOMAIN w)
  PROVE  /\ Shuffle(w, p) \in Seq(Event)
         /\ DOMAIN Shuffle(w, p) = DOMAIN w /\ Len(Shuffle(w, p)) = Len(w)
         /\ \A i \in DOMAIN w : p[i] \in DOMAIN w /\ Shuffle(w, p)[i] = w[p[i]]
<1>1. p \in [DOMAIN w -> DOMAIN w]
  BY Fun_BijectionProperties
<1>2. DOMAIN w = 1..Len(w) /\ Len(w) \in Nat
  OBVIOUS
<1>3. Shuffle(w, p) \in [1..Len(w) -> Event]
  BY <1>1, <1>2 DEF Shuffle
<1>4. QED
  BY <1>1, <1>2, <1>3 DEF Shuffle

LEMMA DomainFinite ==
  ASSUME NEW w \in Seq(Event)
  PROVE  IsFiniteSet(DOMAIN w)
BY FS_Interval

(* The metrics of a window do not depend on its order. *)
LEMMA MetricsShuffled ==
  ASSUME NEW w \in Seq(Event), NEW p \in Bijection(DOMAIN w, DOMAIN w)
  PROVE  LET v == Shuffle(w, p)
         IN  /\ \A k : Count(v, k) = Count(w, k)
             /\ LongNames(v) = LongNames(w)
             /\ RareNames(v) = RareNames(w)
             /\ WriteBytes(v) = WriteBytes(w)
<1> DEFINE v == Shuffle(w, p)
           D == DOMAIN w
<1>1. /\ DOMAIN v = D /\ IsFiniteSet(D)
      /\ \A i \in D : p[i] \in D /\ v[i] = w[p[i]]
  BY ShuffleType, DomainFinite
<1> HIDE DEF v
<1>2. ASSUME NEW k
      PROVE  Count(v, k) = Count(w, k)
  <2> DEFINE S == {i \in D : w[i].key = k}
  <2>1. {i \in DOMAIN v : v[i].key = k} = {i \in D : p[i] \in S}
        /\ S \in SUBSET D
    BY <1>1
  <2> HIDE DEF S
  <2>2. Cardinality({i \in D : p[i] \in S}) = Cardinality(S)
    BY <1>1, <2>1, MarkedShuffled
  <2>3. QED
    BY <2>1, <2>2 DEF Count, S
<1>3. LongNames(v) = LongNames(w)
  <2> DEFINE S == {i \in D : w[i].long}
  <2>1. {i \in DOMAIN v : v[i].long} = {i \in D : p[i] \in S}
        /\ S \in SUBSET D
    BY <1>1
  <2> HIDE DEF S
  <2>2. Cardinality({i \in D : p[i] \in S}) = Cardinality(S)
    BY <1>1, <2>1, MarkedShuffled
  <2>3. QED
    BY <2>1, <2>2 DEF LongNames, S
<1>4. RareNames(v) = RareNames(w)
  <2> DEFINE S == {i \in D : w[i].rare}
  <2>1. {i \in DOMAIN v : v[i].rare} = {i \in D : p[i] \in S}
        /\ S \in SUBSET D
    BY <1>1
  <2> HIDE DEF S
  <2>2. Cardinality({i \in D : p[i] \in S}) = Cardinality(S)
    BY <1>1, <2>1, MarkedShuffled
  <2>3. QED
    BY <2>1, <2>2 DEF RareNames, S
<1>5. WriteBytes(v) = WriteBytes(w)
  <2> DEFINE f == [i \in D |-> w[i].bytes]
  <2>1. f \in [D -> Nat]
    <3>1. \A i \in D : w[i] \in Event
      OBVIOUS
    <3>2. QED
      BY <3>1 DEF Event
  <2>2. [i \in DOMAIN v |-> v[i].bytes] = [i \in D |-> f[p[i]]]
    BY <1>1
  <2> HIDE DEF f
  <2>3. TotalOf([i \in D |-> f[p[i]]]) = TotalOf(f)
    BY <1>1, <2>1, TotalShuffled
  <2>4. QED
    BY <2>2, <2>3 DEF WriteBytes, f
<1>6. QED
  BY <1>2, <1>3, <1>4, <1>5 DEF v

(* The events that precede one with the time and key of e, and those it     *)
(* does not precede.                                                        *)
Ahead(w, e) == {j \in DOMAIN w : Precedes(w[j], e)}
UpTo(w, e) == {j \in DOMAIN w : ~Precedes(e, w[j])}

(* The n-th event of the sorted window is one that fewer than n precede and *)
(* at least n do not follow.                                                *)
LEMMA SortedBounds ==
  ASSUME NEW w \in Seq(Event), NEW n \in DOMAIN w
  PROVE  /\ SortEvents(w)[n] \in Event
         /\ Cardinality(Ahead(w, SortEvents(w)[n])) < n
         /\ n <= Cardinality(UpTo(w, SortEvents(w)[n]))
<1>1. PICK q \in Bijection(DOMAIN w, DOMAIN w) :
        /\ SortEvents(w) = [m \in DOMAIN w |-> w[q[m]]]
        /\ \A m \in DOMAIN w : Place(w, q[m]) = m
  BY SortedIsShuffled
<1> DEFINE i == q[n]
           e == w[i]
           B == {j \in DOMAIN w : Before(w, j, i)}
<1>2. i \in DOMAIN w
  BY Fun_BijectionProperties
<1>3. SortEvents(w)[n] = e /\ Place(w, i) = n /\ e \in Event
  BY <1>1, <1>2
<1>4. n = 1 + Cardinality(B)
  BY <1>3 DEF Place
<1>5. n \in Nat /\ IsFiniteSet(DOMAIN w)
  BY DomainFinite
<1> HIDE DEF i
<1>6. Ahead(w, e) \in SUBSET B
  BY DEF Ahead, Before
<1>7. B \in SUBSET UpTo(w, e) /\ i \in UpTo(w, e) /\ i \notin B
  <2>1. \A j \in DOMAIN w : Precedes(w[j], e) => ~Precedes(e, w[j])
    BY <1>3, PrecedesOrders
  <2>2. B \in SUBSET UpTo(w, e)
    BY <2>1 DEF UpTo, Before
  <2>3. ~Precedes(e, e)
    BY <1>3, PrecedesOrders
  <2>4. QED
    BY <1>2, <2>2, <2>3, BeforeOrders DEF UpTo
<1>8. UpTo(w, e) \in SUBSET DOMAIN w
  BY DEF UpTo
<1> HIDE DEF B, e
<1>9. IsFiniteSet(UpTo(w, e))
  BY <1>5, <1>8, FS_Subset
<1>10. /\ IsFiniteSet(B) /\ Cardinality(B) <= Cardinality(UpTo(w, e))
       /\ Cardinality(UpTo(w, e)) = Cardinality(B) => UpTo(w, e) = B
  BY <1>7, <1>9, FS_Subset
<1>11. Cardinality(Ahead(w, e)) <= Cardinality(B) /\ IsFiniteSet(Ahead(w, e))
  BY <1>6, <1>10, FS_Subset
<1>12. /\ Cardinality(B) \in Nat /\ Cardinality(UpTo(w, e)) \in Nat
       /\ Cardinality(Ahead(w, e)) \in Nat
  BY <1>9, <1>10, <1>11, FS_CardinalityType
<1>13. QED
  BY <1>3, <1>4, <1>7, <1>10, <1>11, <1>12 DEF e

(* How many precede an event, or do not follow it, is a matter of the       *)
(* window and not of its order.                                             *)
LEMMA BoundsShuffled ==
  ASSUME NEW w \in Seq(Event), NEW p \in Bijection(DOMAIN w, DOMAIN w), NEW e
  PROVE  /\ Cardinality(Ahead(Shuffle(w, p), e)) = Cardinality(Ahead(w, e))
         /\ Cardinality(UpTo(Shuffle(w, p), e)) = Cardinality(UpTo(w, e))
<1> DEFINE v == Shuffle(w, p)
           D == DOMAIN w
<1>1. /\ DOMAIN v = D /\ IsFiniteSet(D)
      /\ \A i \in D : p[i] \in D /\ v[i] = w[p[i]]
  BY ShuffleType, DomainFinite
<1> HIDE DEF v
<1>2. Ahead(v, e) = {i \in D : p[i] \in Ahead(w, e)}
  BY <1>1 DEF Ahead
<1>3. UpTo(v, e) = {i \in D : p[i] \in UpTo(w, e)}
  BY <1>1 DEF UpTo
<1>4. Ahead(w, e) \in SUBSET D /\ UpTo(w, e) \in SUBSET D
  BY DEF Ahead, UpTo
<1>5. QED
  BY <1>1, <1>2, <1>3, <1>4, MarkedShuffled DEF v

(* Two events of a window that the same places are between have the same    *)
(* time and key.                                                            *)
LEMMA SamePlaceSameKey ==
  ASSUME NEW w \in Seq(Event), NEW a \in Event, NEW b \in Event, NEW n \in Nat,
         Cardinality(Ahead(w, b)) < n, n <= Cardinality(UpTo(w, a))
  PROVE  ~Precedes(a, b)
<1> SUFFICES ASSUME Precedes(a, b) PROVE FALSE
  OBVIOUS
<1>1. UpTo(w, a) \in SUBSET Ahead(w, b)
  <2> SUFFICES ASSUME NEW j \in DOMAIN w, ~Precedes(a, w[j])
               PROVE  Precedes(w[j], b)
    BY DEF UpTo, Ahead
  <2>1. w[j] \in Event
    OBVIOUS
  <2>2. QED
    BY <2>1, PrecedesOrders
<1>2. Ahead(w, b) \in SUBSET DOMAIN w
  BY DEF Ahead
<1>3. IsFiniteSet(Ahead(w, b))
  BY <1>2, DomainFinite, FS_Subset
<1>4. Cardinality(UpTo(w, a)) <= Cardinality(Ahead(w, b)) /\ IsFiniteSet(UpTo(w, a))
  BY <1>1, <1>3, FS_Subset
<1>5. Cardinality(UpTo(w, a)) \in Nat /\ Cardinality(Ahead(w, b)) \in Nat
  BY <1>3, <1>4, FS_CardinalityType
<1>6. QED
  BY <1>4, <1>5
-----------------------------------------------------------------------------
(* Sorting two orders of one window gives the same times and keys.          *)
LEMMA SortedAlike ==
  ASSUME NEW w \in Seq(Event), NEW p \in Bijection(DOMAIN w, DOMAIN w)
  PROVE  LET s == SortEvents(w)
             t == SortEvents(Shuffle(w, p))
         IN  /\ DOMAIN s = DOMAIN w /\ DOMAIN t = DOMAIN w
             /\ \A n \in DOMAIN w : t[n].ts = s[n].ts /\ t[n].key = s[n].key
<1> DEFINE v == Shuffle(w, p)
           s == SortEvents(w)
           t == SortEvents(v)
<1>1. v \in Seq(Event) /\ DOMAIN v = DOMAIN w
  BY ShuffleType
<1>2. DOMAIN s = DOMAIN w /\ DOMAIN t = DOMAIN w
  BY <1>1 DEF SortEvents
<1>3. ASSUME NEW n \in DOMAIN w
      PROVE  t[n].ts = s[n].ts /\ t[n].key = s[n].key
  <2>1. /\ s[n] \in Event /\ t[n] \in Event
        /\ Cardinality(Ahead(w, s[n])) < n /\ n <= Cardinality(UpTo(w, s[n]))
        /\ Cardinality(Ahead(v, t[n])) < n /\ n <= Cardinality(UpTo(v, t[n]))
    BY <1>1, SortedBounds
  <2>2. /\ Cardinality(Ahead(v, t[n])) = Cardinality(Ahead(w, t[n]))
        /\ Cardinality(UpTo(v, t[n])) = Cardinality(UpTo(w, t[n]))
    BY BoundsShuffled
  <2>3. n \in Nat
    OBVIOUS
  <2> HIDE DEF s, t, v
  <2>4. ~Precedes(s[n], t[n]) /\ ~Precedes(t[n], s[n])
    BY <2>1, <2>2, <2>3, SamePlaceSameKey
  <2>5. QED
    BY <2>1, <2>4, PrecedesOrders
<1>4. QED
  BY <1>2, <1>3

(* The length and the duration of a sorted window and its patterns are a    *)
(* matter of the times and keys.                                            *)
LEMMA TimesAndKeysDecide ==
  ASSUME NEW s \in Seq(Event), NEW t \in Seq(Event), DOMAIN t = DOMAIN s,
         \A n \in DOMAIN s : t[n].ts = s[n].ts /\ t[n].key = s[n].key
  PROVE  Duration(t) = Duration(s) /\ (RansomwareSequence(t) <=> RansomwareSequence(s))
<1>1. Len(t) = Len(s) /\ Len(s) \in Nat /\ DOMAIN s = 1..Len(s)
  OBVIOUS
<1>2. Duration(t) = Duration(s)
  <2>1. CASE s = <<>>
    BY <1>1, <2>1 DEF Duration
  <2>2. CASE s # <<>>
    <3>1. 1 \in DOMAIN s /\ Len(s) \in DOMAIN s /\ t # <<>>
      BY <1>1, <2>2
    <3>2. t[1].ts = s[1].ts /\ t[Len(t)].ts = s[Len(s)].ts
      BY <1>1, <3>1
    <3>3. QED
      BY <2>2, <3>1, <3>2 DEF Duration
  <2>3. QED
    BY <2>1, <2>2
<1>3. ASSUME NEW a, NEW b, NEW c
      PROVE  HasPattern(t, <<a, b, c>>) <=> HasPattern(s, <<a, b, c>>)
  <2> DEFINE pattern == <<a, b, c>>
  <2>1. Len(pattern) = 3 /\ DOMAIN pattern = 1..3
    OBVIOUS
  <2> HIDE DEF pattern
  <2>2. ASSUME NEW i \in 1..(Len(s) - 3 + 1), NEW j \in 1..3
        PROVE  t[i + j - 1].key = s[i + j - 1].key
    <3>1. i + j - 1 \in DOMAIN s
      BY <1>1
    <3>2. QED
      BY <3>1
  <2>3. ASSUME NEW i \in 1..(Len(s) - 3 + 1)
        PROVE  (\A j \in 1..3 : t[i + j - 1].key = pattern[j])
                 <=> (\A j \in 1..3 : s[i + j - 1].key = pattern[j])
    BY <2>2
  <2>4. HasPattern(t, pattern) <=> HasPattern(s, pattern)
    BY <1>1, <2>1, <2>3 DEF HasPattern
  <2>5. QED
    BY <2>4 DEF pattern
<1>4. RansomwareSequence(t) <=> RansomwareSequence(s)
  BY <1>3 DEF RansomwareSequence
<1>5. QED
  BY <1>2, <1>4

(* The seven logs may be drained in any order: the reasons for the score of *)
(* a window are those of its events (extract_window_metrics).               *)
THEOREM ReasonsIgnoreOrder ==
  ASSUME NEW w \in Seq(Event), NEW p \in Bijection(DOMAIN w, DOMAIN w)
  PROVE  Reasons(Shuffle(w, p)) = Reasons(w)
<1> DEFINE v == Shuffle(w, p)
           s == SortEvents(w)
           t == SortEvents(v)
<1>1. v \in Seq(Event) /\ DOMAIN v = DOMAIN w
  BY ShuffleType
<1>2. /\ \A k : Count(v, k) = Count(w, k)
      /\ LongNames(v) = LongNames(w) /\ RareNames(v) = RareNames(w)
      /\ WriteBytes(v) = WriteBytes(w)
  BY MetricsShuffled
<1>3. PICK q \in Bijection(DOMAIN w, DOMAIN w) : s = Shuffle(w, q)
  BY SortedIsShuffled DEF Shuffle
<1>4. PICK r \in Bijection(DOMAIN v, DOMAIN v) : t = Shuffle(v, r)
  BY <1>1, SortedIsShuffled DEF Shuffle
<1>5. /\ DOMAIN t = DOMAIN s
      /\ \A n \in DOMAIN s : t[n].ts = s[n].ts /\ t[n].key = s[n].key
  BY SortedAlike
<1> HIDE DEF v, s, t
<1>6. s \in Seq(Event) /\ t \in Seq(Event)
  BY <1>1, <1>3, <1>4, ShuffleType
<1>7. (\A k : Count(s, k) = Count(w, k)) /\ WriteBytes(s) = WriteBytes(w)
  BY <1>3, MetricsShuffled
<1>8. (\A k : Count(t, k) = Count(v, k)) /\ WriteBytes(t) = WriteBytes(v)
  BY <1>1, <1>4, MetricsShuffled
<1>9. /\ WriteBytes(t) = WriteBytes(s) /\ FileChurn(t) = FileChurn(s)
      /\ Duration(t) = Duration(s)
      /\ RansomwareSequence(t) <=> RansomwareSequence(s)
  BY <1>2, <1>5, <1>6, <1>7, <1>8, TimesAndKeysDecide DEF FileChurn
<1>10. TimedReasons(t) = TimedReasons(s)
  BY <1>9 DEF TimedReasons
<1>11. CountReasons(v) = CountReasons(w)
  <2>1. /\ MemoryExecCombo(v) <=> MemoryExecCombo(w)
        /\ MemoryInjectCombo(v) <=> MemoryInjectCombo(w)
    BY <1>2 DEF MemoryExecCombo, MemoryInjectCombo
  <2>2. \A x : x \in CountReasons(v) <=> x \in CountReasons(w)
    <3> SUFFICES ASSUME NEW x
                 PROVE  x \in CountReasons(v) <=> x \in CountReasons(w)
      OBVIOUS
    <3>1. /\ Count(v, "file.rename") = Count(w, "file.rename")
          /\ Count(v, "file.delete") = Count(w, "file.delete")
          /\ Count(v, "syscall.ptrace") = Count(w, "syscall.ptrace")
          /\ Count(v, "dns.query") = Count(w, "dns.query")
          /\ Count(v, "kmod.load") = Count(w, "kmod.load")
      BY <1>2
    <3>2. CASE x = "rename burst"
      BY <1>2, <3>1, <3>2 DEF CountReasons
    <3>3. CASE x = "delete burst"
      BY <3>1, <3>3 DEF CountReasons
    <3>4. CASE x = "exec memory"
      BY <2>1, <3>4 DEF CountReasons
    <3>5. CASE x = "injection"
      BY <2>1, <3>5 DEF CountReasons
    <3>6. CASE x = "syscalls"
      BY <3>1, <3>6 DEF CountReasons
    <3>7. CASE x = "dns burst"
      BY <1>2, <3>1, <3>7 DEF CountReasons
    <3>8. CASE x = "entropy"
      BY <1>2, <3>8 DEF CountReasons
    <3>9. CASE x = "kmod"
      BY <3>1, <3>9 DEF CountReasons
    <3>10. QED
      BY <3>2, <3>3, <3>4, <3>5, <3>6, <3>7, <3>8, <3>9 DEF CountReasons
  <2>3. QED
    BY <2>2 DEF CountReasons
<1>12. QED
  BY <1>10, <1>11 DEF Reasons, v, s, t

TypeOK == window \in Seq(Event) /\ Len(window) <= MaxWindow

LEMMA FedIsEvent ==
  ASSUME NEW k \in Feed, NEW t \in 0..MaxTs
  PROVE  Event0(k, t) \in Event
<1>1. k \in EventKey
  <2>1. DOMAIN KeyOrder = 1..10 /\ \E i \in 1..10 : KeyOrder[i] = k
    BY DEF KeyOrder, Feed
  <2>2. QED
    BY <2>1 DEF EventKey, ToSet
<1>2. t \in Nat
  BY BoundAssumption
<1>3. QED
  BY <1>1, <1>2 DEF Event0, Event

LEMMA WindowIsTyped == Spec => []TypeOK
<1>1. Init => TypeOK
  BY BoundAssumption DEF Init, TypeOK
<1>2. TypeOK /\ [Arrive]_window => TypeOK'
  <2> SUFFICES ASSUME TypeOK, Arrive PROVE TypeOK'
    BY DEF TypeOK
  <2>1. PICK k \in Feed, t \in 0..MaxTs : window' = Append(window, Event0(k, t))
    BY DEF Arrive
  <2>2. Event0(k, t) \in Event
    BY FedIsEvent
  <2>3. QED
    <3>1. /\ window' \in Seq(Event) /\ Len(window') = Len(window) + 1
          /\ Len(window) \in Nat /\ MaxWindow \in Nat
      BY <2>1, <2>2, BoundAssumption, AppendProperties DEF TypeOK
    <3>2. QED
      BY <3>1 DEF TypeOK, Arrive
<1>3. QED
  BY <1>1, <1>2, PTL DEF Spec

(* The same of every window the model feeds, of whatever length.            *)
THEOREM ArrivalOrderIrrelevantCorrect == Spec => []ArrivalOrderIrrelevant
<1>1. ASSUME TypeOK PROVE ArrivalOrderIrrelevant
  <2> SUFFICES ASSUME NEW v \in Shuffled(window)
               PROVE  Reasons(v) = Reasons(window)
    BY DEF ArrivalOrderIrrelevant
  <2>1. /\ Len(window) \in 0..MaxWindow /\ window \in Seq(Event)
        /\ DOMAIN window = 1..Len(window)
    BY <1>1 DEF TypeOK
  <2>2. PICK p \in Bijection(DOMAIN window, DOMAIN window) :
               v = [i \in DOMAIN window |-> window[p[i]]]
    BY <2>1 DEF Shuffled, Orders
  <2>3. QED
    BY <2>1, <2>2, ReasonsIgnoreOrder DEF Shuffle
<1>2. QED
  BY <1>1, WindowIsTyped, PTL
-----------------------------------------------------------------------------
(* The metrics of a longer window are not smaller. *)
LEMMA MetricsGrow ==
  ASSUME NEW w \in Seq(Event), NEW e \in Event
  PROVE  LET v == Append(w, e)
         IN  /\ \A k : /\ Count(w, k) \in Nat /\ Count(v, k) \in Nat
                       /\ Count(w, k) <= Count(v, k)
             /\ LongNames(w) \in Nat /\ LongNames(v) \in Nat
             /\ LongNames(w) <= LongNames(v)
             /\ RareNames(w) \in Nat /\ RareNames(v) \in Nat
             /\ RareNames(w) <= RareNames(v)
             /\ WriteBytes(w) \in Nat /\ WriteBytes(v) \in Nat
             /\ WriteBytes(w) <= WriteBytes(v)
<1> DEFINE v == Append(w, e)
<1>1. /\ v \in Seq(Event) /\ DOMAIN w \subseteq DOMAIN v
      /\ \A i \in DOMAIN w : v[i] = w[i]
  BY AppendProperties
<1>2. IsFiniteSet(DOMAIN v)
  BY <1>1, DomainFinite
<1> HIDE DEF v
<1>3. ASSUME NEW R \in SUBSET DOMAIN v, NEW S \in SUBSET R
      PROVE  /\ Cardinality(S) \in Nat /\ Cardinality(R) \in Nat
             /\ Cardinality(S) <= Cardinality(R)
  <2>1. IsFiniteSet(R)
    BY <1>2, FS_Subset
  <2>2. IsFiniteSet(S) /\ Cardinality(S) <= Cardinality(R)
    BY <2>1, FS_Subset
  <2>3. QED
    BY <2>1, <2>2, FS_CardinalityType
<1>4. ASSUME NEW k
      PROVE  /\ Count(w, k) \in Nat /\ Count(v, k) \in Nat
             /\ Count(w, k) <= Count(v, k)
  <2> DEFINE R == {i \in DOMAIN v : v[i].key = k}
             S == {i \in DOMAIN w : w[i].key = k}
  <2>1. R \in SUBSET DOMAIN v /\ S \in SUBSET R
    BY <1>1
  <2>2. Count(w, k) = Cardinality(S) /\ Count(v, k) = Cardinality(R)
    BY DEF Count
  <2> HIDE DEF R, S
  <2>3. QED
    BY <1>3, <2>1, <2>2
<1>5. /\ LongNames(w) \in Nat /\ LongNames(v) \in Nat
      /\ LongNames(w) <= LongNames(v)
  <2> DEFINE R == {i \in DOMAIN v : v[i].long}
             S == {i \in DOMAIN w : w[i].long}
  <2>1. R \in SUBSET DOMAIN v /\ S \in SUBSET R
    BY <1>1
  <2>2. LongNames(w) = Cardinality(S) /\ LongNames(v) = Cardinality(R)
    BY DEF LongNames
  <2> HIDE DEF R, S
  <2>3. QED
    BY <1>3, <2>1, <2>2
<1>6. /\ RareNames(w) \in Nat /\ RareNames(v) \in Nat
      /\ RareNames(w) <= RareNames(v)
  <2> DEFINE R == {i \in DOMAIN v : v[i].rare}
             S == {i \in DOMAIN w : w[i].rare}
  <2>1. R \in SUBSET DOMAIN v /\ S \in SUBSET R
    BY <1>1
  <2>2. RareNames(w) = Cardinality(S) /\ RareNames(v) = Cardinality(R)
    BY DEF RareNames
  <2> HIDE DEF R, S
  <2>3. QED
    BY <1>3, <2>1, <2>2
<1>7. /\ WriteBytes(w) \in Nat /\ WriteBytes(v) \in Nat
      /\ WriteBytes(w) <= WriteBytes(v)
  <2> DEFINE f == [i \in DOMAIN w |-> w[i].bytes]
             g == [i \in DOMAIN v |-> v[i].bytes]
  <2>1. \A i \in DOMAIN v : v[i] \in Event
    BY <1>1
  <2>2. /\ DOMAIN f = DOMAIN w /\ DOMAIN g = DOMAIN v
        /\ \A i \in DOMAIN g : g[i] \in Nat
        /\ \A i \in DOMAIN f : f[i] = g[i]
    BY <1>1, <2>1 DEF Event
  <2>3. WriteBytes(w) = TotalOf(f) /\ WriteBytes(v) = TotalOf(g)
    BY DEF WriteBytes
  <2> HIDE DEF f, g
  <2>4. \A i \in DOMAIN f : f[i] \in Nat /\ f[i] <= g[i]
    BY <1>1, <2>2
  <2>5. QED
    BY <1>1, <1>2, <2>2, <2>3, <2>4, TotalGrows
<1>8. QED
  BY <1>4, <1>5, <1>6, <1>7 DEF v

(* Another event takes back no reason that only counts events: what a       *)
(* process has done is not made up for by what it does next                 *)
(* (score_pid_metrics).                                                     *)
THEOREM CountReasonsGrow ==
  ASSUME NEW w \in Seq(Event), NEW e \in Event
  PROVE  CountReasons(w) \subseteq CountReasons(Append(w, e))
<1> DEFINE v == Append(w, e)
<1>1. /\ \A k : /\ Count(w, k) \in Nat /\ Count(v, k) \in Nat
                /\ Count(w, k) <= Count(v, k)
      /\ LongNames(w) \in Nat /\ LongNames(v) \in Nat /\ LongNames(w) <= LongNames(v)
      /\ RareNames(w) \in Nat /\ RareNames(v) \in Nat /\ RareNames(w) <= RareNames(v)
      /\ WriteBytes(w) \in Nat /\ WriteBytes(v) \in Nat
      /\ WriteBytes(w) <= WriteBytes(v)
  BY MetricsGrow
<1> HIDE DEF v
<1>2. /\ MemoryExecCombo(w) => MemoryExecCombo(v)
      /\ MemoryInjectCombo(w) => MemoryInjectCombo(v)
  BY <1>1 DEF MemoryExecCombo, MemoryInjectCombo
<1>3. /\ Count(w, "file.rename") >= RenameBurst => Count(v, "file.rename") >= RenameBurst
      /\ Count(w, "file.delete") >= DeleteBurst => Count(v, "file.delete") >= DeleteBurst
      /\ Count(w, "syscall.ptrace") >= SyscallBurst
           => Count(v, "syscall.ptrace") >= SyscallBurst
      /\ Count(w, "dns.query") >= DnsBurst => Count(v, "dns.query") >= DnsBurst
      /\ Count(w, "kmod.load") > 0 => Count(v, "kmod.load") > 0
  <2>1. ASSUME NEW k, NEW n \in Nat, Count(w, k) >= n
        PROVE  Count(v, k) >= n
    BY <1>1, <2>1
  <2>2. RenameBurst \in Nat /\ DeleteBurst \in Nat /\ SyscallBurst \in Nat
        /\ DnsBurst \in Nat
    BY ThresholdAssumption
  <2>3. Count(w, "kmod.load") > 0 => Count(v, "kmod.load") > 0
    BY <1>1
  <2>4. QED
    BY <2>1, <2>2, <2>3
<1>4. /\ LongNames(w) >= LongDns => LongNames(v) >= LongDns
      /\ RareNames(w) >= RareDns => RareNames(v) >= RareDns
      /\ WriteBytes(w) >= WriteBytesBurst => WriteBytes(v) >= WriteBytesBurst
  <2>1. LongDns \in Nat /\ RareDns \in Nat /\ WriteBytesBurst \in Nat
    BY ThresholdAssumption
  <2>2. QED
    BY <1>1, <2>1
<1>5. ASSUME NEW x \in CountReasons(w)
      PROVE  x \in CountReasons(v)
  <2>1. CASE x = "rename burst"
    BY <1>3, <1>4, <2>1 DEF CountReasons
  <2>2. CASE x = "delete burst"
    BY <1>3, <2>2 DEF CountReasons
  <2>3. CASE x = "exec memory"
    BY <1>2, <2>3 DEF CountReasons
  <2>4. CASE x = "injection"
    BY <1>2, <2>4 DEF CountReasons
  <2>5. CASE x = "syscalls"
    BY <1>3, <2>5 DEF CountReasons
  <2>6. CASE x = "dns burst"
    BY <1>3, <1>4, <2>6 DEF CountReasons
  <2>7. CASE x = "entropy"
    BY <1>4, <2>7 DEF CountReasons
  <2>8. CASE x = "kmod"
    BY <1>3, <2>8 DEF CountReasons
  <2>9. QED
    BY <2>1, <2>2, <2>3, <2>4, <2>5, <2>6, <2>7, <2>8 DEF CountReasons
<1>6. QED
  BY <1>5 DEF v

(* The same of every window the model feeds.                                *)
THEOREM EvidenceStaysCorrect == Spec => EvidenceStays
<1>1. TypeOK /\ [Arrive]_window
        => [CountReasons(window) \subseteq CountReasons(window')]_window
  <2> SUFFICES ASSUME TypeOK, Arrive
               PROVE  CountReasons(window) \subseteq CountReasons(window')
    OBVIOUS
  <2>1. PICK k \in Feed, t \in 0..MaxTs : window' = Append(window, Event0(k, t))
    BY DEF Arrive
  <2>2. Event0(k, t) \in Event
    BY FedIsEvent
  <2>3. QED
    BY <2>1, <2>2, CountReasonsGrow DEF TypeOK
<1>2. QED
  BY <1>1, WindowIsTyped, PTL DEF Spec, EvidenceStays
=============================================================================
