------------------------- MODULE PagedSourceProofs -------------------------
(***************************************************************************)
(* The paging loops reach every item that is there, for every number of      *)
(* items, every page size, every number of failures and every combination of *)
(* the features of a source.                                                *)
(***************************************************************************)
EXTENDS PagedSource, FiniteSetTheorems, TLAPS

\* A non-empty set of numbers up to n has a maximum.
LEMMA MaximumExists ==
  ASSUME NEW n \in Nat, NEW T, T \subseteq 0 .. n, T # {}
  PROVE  \E m \in T : \A t \in T : t <= m
<1> DEFINE Mirror == {n - t : t \in T}
<1>1. \A t \in T : t \in Int /\ n - t \in Nat
  OBVIOUS
<1>2. Mirror \subseteq Nat /\ Mirror # {}
  BY <1>1
<1>3. PICK k \in Mirror : \A j \in Mirror : ~ (<<j, k>> \in OpToRel(<, Nat))
  <2> HIDE DEF Mirror
  <2> QED
    BY <1>2, WFMin, NatLessThanWellFounded
<1>4. PICK m \in T : k = n - m
  OBVIOUS
<1>5. ASSUME NEW t \in T PROVE ~ (n - t < n - m)
  <2>1. n - t \in Mirror
    OBVIOUS
  <2> HIDE DEF Mirror
  <2> QED
    BY <1>1, <1>3, <1>4, <2>1 DEF OpToRel
<1> QED
  BY <1>1, <1>5

\* A non-empty set of naturals has a minimum.
LEMMA MinimumExists ==
  ASSUME NEW T \in SUBSET Nat, T # {}
  PROVE  \E m \in T : \A t \in T : m <= t
<1>1. PICK m \in T : \A t \in T : ~ (<<t, m>> \in OpToRel(<, Nat))
  BY WFMin, NatLessThanWellFounded
<1>2. ASSUME NEW t \in T PROVE ~ (t < m)
  BY <1>1, <1>2 DEF OpToRel
<1> QED
  BY <1>2

LEMMA FeatureType ==
  ASSUME TypeOK
  PROVE  /\ connector.position \in {"offset", "token", "time", "snapshot"}
         /\ connector.order \in {"key", "newest", "asc", "desc"}
         /\ connector.stop \in {"empty", "short", "next", "first", "older", "overlap", "filtered"}
         /\ connector.error \in {"raise", "repeat", "ends", "skips"}
         /\ connector.from \in {"all", "ge", "gt", "live"}
         /\ connector.upto \in {"open", "now", "window"}
         /\ connector.parents \in {"none", "fresh", "reused", "changed"}
         /\ connector.write \in {"merge", "replace"}
BY ConnectorsAssumption DEF TypeOK, Feature

-----------------------------------------------------------------------------
(* Listings: rows <<item, time>> in the order of the connector. *)

Timed == Items \X Int

Listing(S) ==
  S \subseteq Timed /\ IsFiniteSet(S) /\ \A a, b \in S : a[1] = b[1] => a = b

Ordered == connector.order \in {"key", "newest", "asc", "desc"}

LEMMA BeforeOrder ==
  ASSUME Ordered, NEW a \in Timed, NEW b \in Timed, NEW c \in Timed
  PROVE  /\ ~Before(a, a)
         /\ Before(a, b) => ~Before(b, a)
         /\ Before(a, b) /\ Before(b, c) => Before(a, c)
         /\ a[1] # b[1] => Before(a, b) \/ Before(b, a)
<1>0. Items \subseteq Int
  BY BoundsAssumption
<1>1. /\ a[1] \in Int /\ b[1] \in Int /\ c[1] \in Int
      /\ a[2] \in Int /\ b[2] \in Int /\ c[2] \in Int
  BY <1>0 DEF Timed
<1>2. CASE connector.order = "key"
  <2>1. /\ Before(a, b) <=> a[1] < b[1]
        /\ Before(b, a) <=> b[1] < a[1]
        /\ Before(b, c) <=> b[1] < c[1]
        /\ Before(a, c) <=> a[1] < c[1]
        /\ Before(a, a) <=> a[1] < a[1]
    BY <1>2 DEF Before
  <2> QED
    BY <1>1, <2>1
<1>3. CASE connector.order = "newest"
  <2>1. /\ Before(a, b) <=> a[1] > b[1]
        /\ Before(b, a) <=> b[1] > a[1]
        /\ Before(b, c) <=> b[1] > c[1]
        /\ Before(a, c) <=> a[1] > c[1]
        /\ Before(a, a) <=> a[1] > a[1]
    BY <1>3 DEF Before
  <2> QED
    BY <1>1, <2>1
<1>4. CASE connector.order = "asc"
  <2>1. /\ Before(a, b) <=> a[2] < b[2] \/ (a[2] = b[2] /\ a[1] < b[1])
        /\ Before(b, a) <=> b[2] < a[2] \/ (b[2] = a[2] /\ b[1] < a[1])
        /\ Before(b, c) <=> b[2] < c[2] \/ (b[2] = c[2] /\ b[1] < c[1])
        /\ Before(a, c) <=> a[2] < c[2] \/ (a[2] = c[2] /\ a[1] < c[1])
        /\ Before(a, a) <=> a[2] < a[2] \/ (a[2] = a[2] /\ a[1] < a[1])
    BY <1>4 DEF Before
  <2> QED
    BY <1>1, <2>1
<1>5. CASE connector.order = "desc"
  <2>1. /\ Before(a, b) <=> a[2] > b[2] \/ (a[2] = b[2] /\ a[1] < b[1])
        /\ Before(b, a) <=> b[2] > a[2] \/ (b[2] = a[2] /\ b[1] < a[1])
        /\ Before(b, c) <=> b[2] > c[2] \/ (b[2] = c[2] /\ b[1] < c[1])
        /\ Before(a, c) <=> a[2] > c[2] \/ (a[2] = c[2] /\ a[1] < c[1])
        /\ Before(a, a) <=> a[2] > a[2] \/ (a[2] = a[2] /\ a[1] < a[1])
    BY <1>5 DEF Before
  <2> QED
    BY <1>1, <2>1
<1> QED
  BY <1>2, <1>3, <1>4, <1>5 DEF Ordered

\* Part of a listing is one.
LEMMA PartListing ==
  ASSUME NEW S, Listing(S), NEW T \in SUBSET S
  PROVE  Listing(T) /\ Cardinality(T) \in Nat /\ Cardinality(T) <= Cardinality(S)
BY FS_Subset, FS_CardinalityType DEF Listing

Below(a, S) == {b \in S : Before(b, a)}

LEMMA PlaceType ==
  ASSUME NEW S, Listing(S), NEW a
  PROVE  /\ Place(a, S) \in Nat /\ Place(a, S) <= Cardinality(S) /\ Cardinality(S) \in Nat
         /\ Place(a, S) = Cardinality(Below(a, S)) /\ IsFiniteSet(Below(a, S))
<1>1. Below(a, S) \in SUBSET S /\ Place(a, S) = Cardinality(Below(a, S))
  BY DEF Below, Place
<1>2. Listing(Below(a, S)) /\ S \in SUBSET S
  BY <1>1, PartListing
<1> QED
  BY <1>1, <1>2, PartListing DEF Listing

\* Places follow the order.
LEMMA PlaceOrder ==
  ASSUME Ordered, NEW S, Listing(S), NEW a \in S, NEW b \in S
  PROVE  Before(a, b) <=> Place(a, S) < Place(b, S)
<1>1. ASSUME NEW x \in S, NEW y \in S, Before(x, y) PROVE Place(x, S) < Place(y, S)
  <2>1. \A z \in S : Before(z, x) => Before(z, y)
    BY <1>1, BeforeOrder DEF Listing
  <2>2. Below(x, S) \subseteq Below(y, S) /\ x \in Below(y, S) /\ x \notin Below(x, S)
    BY <1>1, <2>1, BeforeOrder DEF Below, Listing
  <2>3. Below(x, S) # Below(y, S)
    BY <2>2
  <2>4. Cardinality(Below(x, S)) < Cardinality(Below(y, S))
    BY <2>2, <2>3, PlaceType, FS_Subset
  <2> QED
    BY <2>4, PlaceType
<1>2. CASE Before(a, b)
  BY <1>1, <1>2
<1>3. CASE Before(b, a)
  <2>1. Place(b, S) < Place(a, S)
    BY <1>1, <1>3
  <2> QED
    BY <1>3, <2>1, PlaceType, BeforeOrder DEF Listing
<1>4. CASE a = b
  BY <1>4, PlaceType, BeforeOrder DEF Listing
<1> QED
  BY <1>2, <1>3, <1>4, BeforeOrder DEF Listing

LEMMA FirstExists ==
  ASSUME Ordered, NEW S, Listing(S), S # {}
  PROVE  \E a \in S : \A b \in S : b = a \/ Before(a, b)
<1> DEFINE T == {Place(a, S) : a \in S}
           n == Cardinality(S)
<1>1. n \in Nat /\ T \subseteq 0 .. n /\ T # {}
  BY PlaceType
<1>2. \E m \in T : \A t \in T : m <= t
  <2> HIDE DEF T, n
  <2> QED
    BY <1>1, MinimumExists
<1>3. PICK a \in S : \A b \in S : Place(a, S) <= Place(b, S)
  BY <1>2
<1>4. ASSUME NEW b \in S, b # a PROVE Before(a, b)
  <2>1. Before(a, b) \/ Before(b, a)
    BY <1>4, BeforeOrder DEF Listing
  <2>2. ~(Place(b, S) < Place(a, S))
    BY <1>3, PlaceType
  <2> QED
    BY <2>1, <2>2, PlaceOrder
<1> QED
  BY <1>4

LEMMA LastExists ==
  ASSUME Ordered, NEW S, Listing(S), S # {}
  PROVE  LastOf(S) \in S /\ \A b \in S : b = LastOf(S) \/ Before(b, LastOf(S))
<1> DEFINE T == {Place(a, S) : a \in S}
           n == Cardinality(S)
<1>1. n \in Nat /\ T \subseteq 0 .. n /\ T # {}
  BY PlaceType
<1>2. \E m \in T : \A t \in T : t <= m
  <2> HIDE DEF T, n
  <2> QED
    BY <1>1, MaximumExists
<1>3. PICK a \in S : \A b \in S : Place(b, S) <= Place(a, S)
  BY <1>2
<1>4. ASSUME NEW b \in S, b # a PROVE Before(b, a)
  <2>1. Before(a, b) \/ Before(b, a)
    BY <1>4, BeforeOrder DEF Listing
  <2>2. ~(Place(a, S) < Place(b, S))
    BY <1>3, PlaceType
  <2> QED
    BY <2>1, <2>2, PlaceOrder
<1> QED
  BY <1>4 DEF LastOf

\* Before what is at place k or later there are k rows at places before k.
LEMMA Preceded ==
  ASSUME Ordered, NEW S, Listing(S), NEW a \in S, NEW k \in Nat, k <= Place(a, S)
  PROVE  /\ k <= Cardinality({b \in S : Place(b, S) < k})
         /\ \A b \in S : Place(b, S) < k => Before(b, a)
<1> DEFINE L == {b \in S : Place(b, S) < k}
           R == {b \in S : k <= Place(b, S)}
<1>1. R \in SUBSET S /\ a \in R /\ L \in SUBSET S
  OBVIOUS
<1>2. Listing(R) /\ Listing(L) /\ Cardinality(L) \in Nat
  BY <1>1, PartListing
<1>3. PICK m \in R : \A b \in R : b = m \/ Before(m, b)
  <2> HIDE DEF R
  <2> QED
    BY <1>1, <1>2, FirstExists
<1>4. ASSUME NEW b \in Below(m, S) PROVE b \in L
  <2>1. b \in S /\ Before(b, m) /\ m \in S
    BY <1>4 DEF Below
  <2>2. b \notin R
    <3>1. ~Before(m, b) /\ b # m
      BY <2>1, BeforeOrder DEF Listing
    <3> QED
      BY <1>3, <3>1
  <2> QED
    BY <2>1, <2>2, PlaceType
<1>5. Cardinality(Below(m, S)) <= Cardinality(L)
  <2>1. Below(m, S) \in SUBSET L
    BY <1>4
  <2> HIDE DEF L
  <2> QED
    BY <1>2, <2>1, PartListing
<1>6. k <= Cardinality(Below(m, S)) /\ Cardinality(Below(m, S)) \in Nat
  BY PlaceType
<1>7. k <= Cardinality(L)
  <2> HIDE DEF L
  <2> QED
    BY <1>2, <1>5, <1>6
<1>8. ASSUME NEW b \in S, Place(b, S) < k PROVE Before(b, a)
  <2>1. Place(b, S) < Place(a, S)
    BY <1>8, PlaceType
  <2> QED
    BY <2>1, PlaceOrder
<1> QED
  BY <1>7, <1>8

-----------------------------------------------------------------------------
(* What a request returns *)

Rows == Items \X (1 .. MaxTime)

\* What makes an item one of the collection.
Standing(i) ==
  /\ Exists(i)
  /\ connector.parents # "none" => ParentOf(i) = parent
  /\ ByParent => AskedFor(parent)
  /\ connector.filter = "server" => InRange(at[i])

LEMMA CollectionRows ==
  ASSUME TypeOK
  PROVE  /\ Collection \subseteq Rows /\ Listing(Collection) /\ Ordered
         /\ \A i \in Items : Standing(i) <=> <<i, at[i]>> \in Collection
         /\ \A a \in Collection : a[1] \in Items /\ Standing(a[1]) /\ a[2] = at[a[1]]
<1>1. Collection = {<<i, at[i]>> : i \in {j \in Items : Standing(j)}}
  BY DEF Collection, Standing
<1>2. ASSUME NEW i \in Items, Standing(i) PROVE at[i] \in 1 .. MaxTime
  <2>1. at[i] \in Gone .. MaxTime /\ at[i] > 0
    BY <1>2 DEF TypeOK, Standing, Exists
  <2> QED
    BY <2>1, BoundsAssumption DEF Gone
<1>3. Collection \subseteq Rows
  BY <1>1, <1>2 DEF Rows
<1>4. IsFiniteSet(Rows)
  <2>1. IsFiniteSet(1 .. MaxTime) /\ IsFiniteSet(Items)
    BY FS_Interval, BoundsAssumption
  <2> QED
    BY <2>1, FS_Product DEF Rows
<1>5. Rows \subseteq Timed
  BY BoundsAssumption DEF Rows, Timed
<1>6. \A a \in Collection : a[1] \in Items /\ Standing(a[1]) /\ a = <<a[1], at[a[1]]>>
  BY <1>1
<1>7. \A i \in Items : Standing(i) => <<i, at[i]>> \in Collection
  BY <1>1
<1>8. \A a, b \in Collection : a[1] = b[1] => a = b
  BY <1>6
<1>9. IsFiniteSet(Collection)
  BY <1>3, <1>4, FS_Subset
<1> QED
  BY <1>3, <1>5, <1>6, <1>7, <1>8, <1>9, FeatureType DEF Listing, Ordered

LEMMA PageRows ==
  ASSUME TypeOK
  PROVE  /\ Rest \subseteq Collection /\ Page \subseteq Rest
         /\ Listing(Rest) /\ Listing(Page) /\ Page \subseteq Rows
<1>1. Rest \subseteq Collection
  BY FeatureType DEF Rest
<1>2. Page \subseteq Rest
  BY DEF Page
<1>3. Collection \subseteq Rows /\ Listing(Collection)
  BY CollectionRows
<1>4. Listing(Rest) /\ Listing(Page)
  BY <1>1, <1>2, <1>3, PartListing
<1> QED
  BY <1>1, <1>2, <1>3, <1>4

LEMMA ContinuedPosition ==
  ASSUME TypeOK
  PROVE  /\ connector.position = "offset" =>
              Continued = [skip |-> pos.skip + PageSize, after |-> {}]
         /\ connector.position # "offset" /\ Page = {} => Continued = pos
         /\ connector.position # "offset" /\ Page # {} =>
              Continued = [skip |-> 0, after |-> {LastOf(Page)}]
         /\ Continued \in [skip : Nat, after : SUBSET Rows]
         /\ Start \in [skip : Nat, after : SUBSET Rows]
<1>1. pos \in [skip : Nat, after : SUBSET Rows] /\ pos.skip \in Nat /\ PageSize \in Nat
  BY BoundsAssumption DEF TypeOK, Rows
<1>2. CASE connector.position = "offset"
  <2>1. Continued = [skip |-> pos.skip + PageSize, after |-> {}]
    BY <1>2 DEF Continued, Start
  <2> QED
    BY <1>1, <1>2, <2>1 DEF Start
<1>3. CASE connector.position # "offset" /\ Page = {}
  BY <1>1, <1>3 DEF Continued, Start
<1>4. CASE connector.position # "offset" /\ Page # {}
  <2>1. Continued = [skip |-> 0, after |-> {LastOf(Page)}]
    BY <1>4 DEF Continued, Start
  <2>2. LastOf(Page) \in Page
    BY <1>4, PageRows, CollectionRows, LastExists
  <2>3. {LastOf(Page)} \in SUBSET Rows
    BY <2>2, PageRows
  <2> QED
    BY <1>4, <2>1, <2>3 DEF Start
<1> QED
  BY <1>2, <1>3, <1>4

LEMMA NewestType ==
  ASSUME TypeOK
  PROVE  /\ Newest \in 0 .. MaxTime /\ low <= Newest /\ Latest \in 0 .. MaxTime
         /\ ~ByParent => /\ Newest = low \/ \E a \in rows : a[2] = Newest
                         /\ \A a \in rows : a[2] <= Newest
         /\ ByParent => /\ Newest = low \/ \E p \in Parents : AskedFor(p) /\ listed[p] = Newest
                        /\ \A p \in Parents : AskedFor(p) => listed[p] <= Newest
<1> DEFINE T == {low} \cup (IF ByParent THEN {listed[p] : p \in {q \in Parents : AskedFor(q)}}
                            ELSE {a[2] : a \in rows})
<1>1. T \subseteq 0 .. MaxTime /\ T # {} /\ low \in T /\ MaxTime \in Nat
  <2>1. low \in 0 .. MaxTime /\ rows \subseteq Items \X (1 .. MaxTime)
        /\ listed \in [Parents -> 1 .. MaxTime] /\ MaxTime \in Nat
    BY BoundsAssumption DEF TypeOK
  <2>2. {a[2] : a \in rows} \subseteq 0 .. MaxTime
    BY <2>1
  <2>3. {listed[p] : p \in {q \in Parents : AskedFor(q)}} \subseteq 0 .. MaxTime
    BY <2>1
  <2> QED
    BY <2>1, <2>2, <2>3
<1>2. PICK m \in T : \A t \in T : t <= m
  <2> HIDE DEF T
  <2> QED
    BY <1>1, MaximumExists
<1>3. Newest \in T /\ \A t \in T : Newest >= t
  <2>1. Newest = CHOOSE x \in T : \A y \in T : x >= y
    BY DEF Newest, Max
  <2>2. \A y \in T : m >= y
    BY <1>1, <1>2
  <2> HIDE DEF T
  <2> QED
    BY <2>1, <2>2
<1>4. Newest \in 0 .. MaxTime /\ low <= Newest
  BY <1>1, <1>3
<1>5. Latest \in 0 .. MaxTime
  BY <1>4 DEF Latest, TypeOK
<1>6. ASSUME ~ByParent
      PROVE  /\ Newest = low \/ \E a \in rows : a[2] = Newest
             /\ \A a \in rows : a[2] <= Newest
  <2>1. T = {low} \cup {a[2] : a \in rows}
    BY <1>6
  <2>2. \A a \in rows : a[2] \in T /\ a[2] \in 0 .. MaxTime
    BY <1>1, <2>1
  <2>3. \A a \in rows : a[2] <= Newest
    BY <1>3, <1>4, <2>2
  <2> QED
    BY <1>3, <2>1, <2>3
<1>7. ASSUME ByParent
      PROVE  /\ Newest = low \/ \E p \in Parents : AskedFor(p) /\ listed[p] = Newest
             /\ \A p \in Parents : AskedFor(p) => listed[p] <= Newest
  <2>1. T = {low} \cup {listed[p] : p \in {q \in Parents : AskedFor(q)}}
    BY <1>7
  <2>2. \A p \in Parents : AskedFor(p) => listed[p] \in T /\ listed[p] \in 0 .. MaxTime
    BY <1>1, <2>1
  <2>3. \A p \in Parents : AskedFor(p) => listed[p] <= Newest
    BY <1>3, <1>4, <2>2
  <2> QED
    BY <1>3, <2>1, <2>3
<1> QED
  BY <1>4, <1>5, <1>6, <1>7

-----------------------------------------------------------------------------
(* Types *)

LEMMA EndRunType ==
  ASSUME TypeOK, EndRun, connector' = connector
  PROVE  /\ pc' = "idle" /\ low' \in 0 .. MaxTime /\ high' \in 0 .. MaxTime
         /\ listed' \in [Parents -> 1 .. MaxTime] /\ parent' \in Parents
         /\ pos' \in [skip : Nat, after : SUBSET Rows] /\ rows' \subseteq Rows
         /\ steady' \subseteq Items
<1>1. MaxTime \in Nat \ {0}
  BY BoundsAssumption
<1>2. Unlisted \in [Parents -> 1 .. MaxTime] /\ 1 \in Parents
  BY <1>1 DEF Unlisted, Parents
<1>3. Start \in [skip : Nat, after : SUBSET Rows]
  BY DEF Start
<1> QED
  BY <1>1, <1>2, <1>3 DEF EndRun

LEMMA EndOfPagesType ==
  ASSUME TypeOK, EndOfPages, pc = "reading"
  PROVE  /\ pc' \in {"reading", "loading"} /\ parent' \in Parents
         /\ pos' \in [skip : Nat, after : SUBSET Rows]
<1>1. pos \in [skip : Nat, after : SUBSET Rows]
  BY DEF TypeOK, Rows
<1>2. Start \in [skip : Nat, after : SUBSET Rows]
  BY DEF Start
<1>3. CASE parent + 1 \in Parents
  BY <1>1, <1>2, <1>3 DEF EndOfPages
<1>4. CASE parent + 1 \notin Parents
  BY <1>1, <1>4 DEF EndOfPages, TypeOK
<1> QED
  BY <1>3, <1>4

LEMMA GoOnType ==
  ASSUME TypeOK, GoOn, pc = "reading"
  PROVE  /\ pc' \in {"reading", "loading"} /\ parent' \in Parents
         /\ pos' \in [skip : Nat, after : SUBSET Rows]
<1>1. CASE LastPage
  BY <1>1, EndOfPagesType DEF GoOn
<1>2. CASE ~LastPage
  <2>1. pos' = Continued /\ pc' = pc /\ parent' = parent
    BY <1>2 DEF GoOn
  <2> QED
    BY <2>1, ContinuedPosition DEF TypeOK
<1> QED
  BY <1>1, <1>2

\* TypeOK in terms of the names used here.
LEMMA TypeParts ==
  TypeOK <=>
    /\ connector \in Connectors
    /\ clock \in 1 .. MaxTime /\ at \in [Items -> Gone .. MaxTime]
    /\ touched \in [Parents -> 1 .. MaxTime] /\ listed \in [Parents -> 1 .. MaxTime]
    /\ table \in [Items -> 0 .. MaxTime] /\ last \in 0 .. MaxTime
    /\ ByParent => seen \subseteq Parents
    /\ ~ByParent => seen \subseteq Items
    /\ pc \in {"idle", "reading", "loading"}
    /\ low \in 0 .. MaxTime /\ high \in 0 .. MaxTime /\ parent \in Parents
    /\ pos \in [skip : Nat, after : SUBSET Rows]
    /\ rows \subseteq Rows
    /\ steady \subseteq Items /\ failures \in 0 .. MaxFailures
BY DEF TypeOK, Rows

\* Every reachable state of every connector has its types.
THEOREM TypeCorrect == Spec => []TypeOK
<1>1. Init => TypeOK
  <2> SUFFICES ASSUME Init PROVE TypeOK
    OBVIOUS
  <2>1. MaxTime \in Nat \ {0} /\ MaxFailures \in Nat
    BY BoundsAssumption
  <2>2. Unlisted \in [Parents -> 1 .. MaxTime] /\ 1 \in Parents
    BY <2>1 DEF Unlisted, Parents
  <2>3. at \in [Items -> Gone .. MaxTime] /\ table \in [Items -> 0 .. MaxTime]
    BY <2>1 DEF Init, NotYet, Gone
  <2>4. Start \in [skip : Nat, after : SUBSET Rows]
    BY DEF Start
  <2>5. /\ connector \in Connectors /\ clock = 1 /\ touched = Unlisted /\ listed = Unlisted
        /\ last = 0 /\ seen = {} /\ pc = "idle" /\ low = 0 /\ high = 0 /\ parent = 1
        /\ pos = Start /\ rows = {} /\ steady = {} /\ failures = 0
    BY DEF Init
  <2> QED
    BY <2>1, <2>2, <2>3, <2>4, <2>5, TypeParts
<1>2. TypeOK /\ [Next]_vars => TypeOK'
  <2> SUFFICES ASSUME TypeOK, [Next]_vars PROVE TypeOK'
    OBVIOUS
  <2> DEFINE Fine ==
        /\ clock' \in 1 .. MaxTime /\ at' \in [Items -> Gone .. MaxTime]
        /\ touched' \in [Parents -> 1 .. MaxTime] /\ listed' \in [Parents -> 1 .. MaxTime]
        /\ table' \in [Items -> 0 .. MaxTime] /\ last' \in 0 .. MaxTime
        /\ ByParent => seen' \subseteq Parents
        /\ ~ByParent => seen' \subseteq Items
        /\ pc' \in {"idle", "reading", "loading"}
        /\ low' \in 0 .. MaxTime /\ high' \in 0 .. MaxTime /\ parent' \in Parents
        /\ pos' \in [skip : Nat, after : SUBSET Rows]
        /\ rows' \subseteq Rows
        /\ steady' \subseteq Items /\ failures' \in 0 .. MaxFailures
  <2>1. connector' = connector
    BY DEF Next, vars
  <2>2. Fine => TypeOK'
    <3>1. Parents' = Parents /\ ByParent' = ByParent
      BY <2>1 DEF Parents, ByParent
    <3>2. connector' \in Connectors
      BY <2>1, TypeParts
    <3> QED
      BY <3>1, <3>2 DEF TypeOK, Rows
  <2>3. MaxTime \in Nat \ {0} /\ MaxFailures \in Nat
    BY BoundsAssumption
  <2>4. CASE Tick
    <3>1. clock' \in 1 .. MaxTime
      BY <2>3, <2>4, TypeParts DEF Tick
    <3> QED
      BY <2>2, <2>4, <3>1, TypeParts DEF Tick, destVars, readVars
  <2>5. ASSUME NEW i \in Items, Create(i) PROVE TypeOK'
    <3>1. at' \in [Items -> Gone .. MaxTime]
      BY <2>3, <2>5, TypeParts DEF Create, Gone
    <3> QED
      BY <2>2, <2>5, <3>1, TypeParts DEF Create, destVars, readVars
  <2>6. ASSUME NEW i \in Items, Update(i) PROVE TypeOK'
    <3>1. at' \in [Items -> Gone .. MaxTime]
      BY <2>3, <2>6, TypeParts DEF Update, Gone
    <3>2. steady' \subseteq Items
      BY <2>6, TypeParts DEF Update, Disturb
    <3> QED
      BY <2>2, <2>6, <3>1, <3>2, TypeParts DEF Update, destVars, readVars
  <2>7. ASSUME NEW i \in Items, Delete(i) PROVE TypeOK'
    <3>1. at' \in [Items -> Gone .. MaxTime]
      BY <2>3, <2>7, TypeParts DEF Delete, Gone
    <3>2. steady' \subseteq Items
      BY <2>7, TypeParts DEF Delete, Disturb
    <3> QED
      BY <2>2, <2>7, <3>1, <3>2, TypeParts DEF Delete, destVars, readVars
  <2>8. ASSUME NEW p \in Parents, Touch(p) PROVE TypeOK'
    <3>1. touched' \in [Parents -> 1 .. MaxTime]
      BY <2>8, TypeParts DEF Touch
    <3> QED
      BY <2>2, <2>8, <3>1, TypeParts DEF Touch, destVars, readVars
  <2>9. CASE StartRun
    <3>1. UpperEnd \in 0 .. MaxTime /\ 1 \in Parents
      BY <2>3, TypeParts DEF UpperEnd, Parents
    <3>2. Start \in [skip : Nat, after : SUBSET Rows] /\ {i \in Items : Exists(i)} \subseteq Items
      BY DEF Start
    <3> QED
      BY <2>2, <2>9, <3>1, <3>2, TypeParts DEF StartRun, serviceVars, destVars
  <2>10. CASE ReadPage
    <3>1. /\ pc' \in {"reading", "loading"} /\ parent' \in Parents
          /\ pos' \in [skip : Nat, after : SUBSET Rows]
      BY <2>10, GoOnType DEF ReadPage
    <3>2. rows' \subseteq Rows
      BY <2>10, PageRows, TypeParts DEF ReadPage
    <3> QED
      BY <2>2, <2>10, <3>1, <3>2, TypeParts DEF ReadPage, serviceVars, destVars
  <2>11. CASE FetchFails
    <3>1. failures' \in 0 .. MaxFailures
      BY <2>3, <2>11, TypeParts DEF FetchFails
    <3>2. UNCHANGED <<serviceVars, destVars>> /\ pc = "reading"
      BY <2>11 DEF FetchFails
    <3>3. CASE EndRun
      BY <2>1, <2>2, <3>1, <3>2, <3>3, EndRunType, TypeParts DEF serviceVars, destVars
    <3>4. CASE UNCHANGED <<pc, readVars, steady>>
      BY <2>2, <3>1, <3>2, <3>4, TypeParts DEF serviceVars, destVars, readVars
    <3>5. CASE (EndOfPages \/ GoOn) /\ UNCHANGED <<low, high, listed, rows, steady>>
      <4>1. /\ pc' \in {"reading", "loading"} /\ parent' \in Parents
            /\ pos' \in [skip : Nat, after : SUBSET Rows]
        BY <3>2, <3>5, GoOnType, EndOfPagesType
      <4> QED
        BY <2>2, <3>1, <3>2, <3>5, <4>1, TypeParts DEF serviceVars, destVars
    <3> QED
      BY <2>11, <3>3, <3>4, <3>5 DEF FetchFails
  <2>12. CASE Load
    <3>1. UNCHANGED <<serviceVars, failures>> /\ EndRun
      BY <2>12 DEF Load
    <3>2. table' \in [Items -> 0 .. MaxTime]
      <4>1. PICK row \in [Read -> 1 .. MaxTime] :
              table' = [i \in Items |->
                          IF i \in Read THEN row[i]
                          ELSE IF connector.write = "merge" THEN table[i] ELSE NotYet]
        BY <2>12 DEF Load
      <4>2. \A i \in Read : row[i] \in 0 .. MaxTime
        BY <4>1
      <4>3. \A i \in Items : table[i] \in 0 .. MaxTime /\ NotYet \in 0 .. MaxTime
        BY <2>3, TypeParts DEF NotYet
      <4> QED
        BY <4>1, <4>2, <4>3
    <3>3. last' \in 0 .. MaxTime
      BY <2>12, NewestType, TypeParts DEF Load
    <3>4. (ByParent => seen' \subseteq Parents) /\ (~ByParent => seen' \subseteq Items)
      <4>1. CASE connector.from = "all"
        BY <2>12, <4>1, TypeParts DEF Load
      <4>2. CASE connector.from # "all"
        <5>1. seen' = (IF ByParent THEN {p \in Parents : AskedFor(p) /\ listed[p] = Latest}
                       ELSE {i \in Items : <<i, Latest>> \in rows})
                         \cup (IF Latest = low THEN seen ELSE {})
          BY <2>12, <4>2 DEF Load
        <5> QED
          BY <5>1, TypeParts
      <4> QED
        BY <4>1, <4>2
    <3> QED
      BY <2>1, <2>2, <3>1, <3>2, <3>3, <3>4, EndRunType, TypeParts DEF serviceVars
  <2>13. CASE LoadFails
    <3>1. failures' \in 0 .. MaxFailures
      BY <2>3, <2>13, TypeParts DEF LoadFails
    <3> QED
      BY <2>1, <2>2, <2>13, <3>1, EndRunType, TypeParts DEF LoadFails, serviceVars, destVars
  <2>14. CASE UNCHANGED vars
    BY <2>2, <2>14, TypeParts DEF vars, serviceVars, destVars, readVars
  <2> QED
    BY <2>4, <2>5, <2>6, <2>7, <2>8, <2>9, <2>10, <2>11, <2>12, <2>13, <2>14
    DEF Next, Service, Run
<1> QED
  BY <1>1, <1>2, PTL DEF Spec

-----------------------------------------------------------------------------
(* What is to come *)

\* The range, where it does not move with what is read.
Within(t) ==
  /\ \/ connector.from = "all" \/ ByParent
     \/ connector.from = "ge" /\ t >= low
     \/ connector.from = "gt" /\ t > low
  /\ connector.upto = "now" => t <= high
  /\ connector.upto = "window" => t < high

LEMMA FixedRange ==
  connector.from # "live" => \A t \in Int : InRange(t) <=> Within(t)
BY DEF InRange, Within

Row(i) == <<i, at[i]>>

LEMMA FirstRest ==
  TypeOK /\ pos = Start /\ connector.position # "time" =>
    \A i \in Items : Standing(i) => Row(i) \in Rest
<1> SUFFICES ASSUME TypeOK, pos = Start, connector.position # "time",
                    NEW i \in Items, Standing(i)
             PROVE  Row(i) \in Rest
  OBVIOUS
<1>1. Row(i) \in Collection /\ Listing(Collection)
  BY CollectionRows DEF Row
<1>2. pos.skip = 0 /\ pos.after = {}
  BY DEF Start
<1>3. Place(Row(i), Collection) \in Nat
  BY <1>1, PlaceType
<1>4. CASE connector.position = "offset"
  <2>1. pos.skip <= Place(Row(i), Collection)
    BY <1>2, <1>3
  <2> QED
    BY <1>1, <1>4, <2>1 DEF Rest
<1>5. CASE connector.position = "token"
  BY <1>1, <1>2, <1>5 DEF Rest
<1>6. CASE connector.position = "snapshot"
  BY <1>1, <1>6 DEF Rest
<1> QED
  BY <1>4, <1>5, <1>6, FeatureType

\* A page has what is first of the rest.
LEMMA PageStarts ==
  ASSUME TypeOK, Rest # {}
  PROVE  Page # {}
<1>1. Ordered /\ Listing(Rest)
  BY CollectionRows, PageRows
<1>2. PICK a \in Rest : \A b \in Rest : b = a \/ Before(a, b)
  BY <1>1, FirstExists
<1>3. Below(a, Rest) = {}
  BY <1>1, <1>2, BeforeOrder DEF Below, Listing
<1>4. Place(a, Rest) = 0
  BY <1>1, <1>3, PlaceType, FS_EmptySet
<1>5. Place(a, Rest) < PageSize
  BY <1>4, BoundsAssumption
<1> QED
  BY <1>2, <1>5 DEF Page

\* What is not on the page comes after it, and the page is full.
LEMMA AfterPage ==
  ASSUME TypeOK, NEW a \in Rest, a \notin Page
  PROVE  /\ connector.position # "snapshot" /\ Page # {}
         /\ \A b \in Page : Before(b, a)
         /\ PageSize <= Place(a, Rest) /\ PageSize <= Cardinality(Page)
<1>1. Ordered /\ Listing(Rest) /\ Listing(Page) /\ PageSize \in Nat
  BY CollectionRows, PageRows, BoundsAssumption
<1>2. connector.position # "snapshot" /\ Page = {b \in Rest : Place(b, Rest) < PageSize}
  BY DEF Page
<1>3. PageSize <= Place(a, Rest)
  BY <1>1, <1>2, PlaceType
<1> QED
  BY <1>1, <1>2, <1>3, Preceded, PageStarts

\* It is in the rest after the next step.
LEMMA NextRest ==
  ASSUME TypeOK, connector.position # "time", NEW a \in Rest, a \notin Page,
         connector' = connector, Collection' = Collection, pos' = Continued
  PROVE  a \in Rest'
<1>1. /\ Ordered /\ Listing(Collection) /\ Listing(Rest) /\ a \in Collection
      /\ pos.skip \in Nat /\ PageSize \in Nat /\ Rest \subseteq Collection
  BY CollectionRows, PageRows, TypeParts, BoundsAssumption
<1>2. CASE connector.position = "offset"
  <2>1. Rest = {b \in Collection : pos.skip <= Place(b, Collection)}
    BY <1>2 DEF Rest
  <2> DEFINE L == {b \in Collection : Place(b, Collection) < pos.skip}
  <2>2. pos.skip <= Cardinality(L) /\ \A b \in L : Before(b, a)
    BY <1>1, <2>1, Preceded
  <2>3. L \subseteq Below(a, Collection) /\ Below(a, Rest) \subseteq Below(a, Collection)
        /\ L \cap Below(a, Rest) = {}
    <3>1. \A b \in Collection : Place(b, Collection) \in Nat
      BY <1>1, PlaceType
    <3>2. L \subseteq Below(a, Collection)
      BY <2>2 DEF Below
    <3>3. Below(a, Rest) \subseteq Below(a, Collection)
      BY <1>1 DEF Below
    <3>4. \A b \in L : b \notin Rest
      BY <1>1, <2>1, <3>1
    <3> QED
      BY <3>2, <3>3, <3>4 DEF Below
  <2> HIDE DEF L
  <2>4. IsFiniteSet(Below(a, Collection)) /\ IsFiniteSet(Below(a, Rest))
        /\ Place(a, Collection) = Cardinality(Below(a, Collection))
        /\ Place(a, Rest) = Cardinality(Below(a, Rest))
        /\ Place(a, Collection) \in Nat /\ Place(a, Rest) \in Nat
    BY <1>1, PlaceType
  <2>5. IsFiniteSet(L) /\ Cardinality(L) \in Nat
    BY <2>3, <2>4, FS_Subset, FS_CardinalityType
  <2>6. IsFiniteSet(L \cup Below(a, Rest))
        /\ Cardinality(L \cup Below(a, Rest)) = Cardinality(L) + Cardinality(Below(a, Rest))
    <3>1. Cardinality(L \cap Below(a, Rest)) = 0
      BY <2>3, FS_EmptySet
    <3>2. Cardinality(L \cup Below(a, Rest))
            = Cardinality(L) + Cardinality(Below(a, Rest)) - Cardinality(L \cap Below(a, Rest))
      BY <2>4, <2>5, FS_Union
    <3> QED
      BY <2>4, <2>5, <3>1, <3>2, FS_Union
  <2>7. Cardinality(L \cup Below(a, Rest)) <= Place(a, Collection)
    <3>1. L \cup Below(a, Rest) \in SUBSET Below(a, Collection)
      BY <2>3
    <3> QED
      BY <2>4, <3>1, FS_Subset
  <2>8. PageSize <= Place(a, Rest)
    BY AfterPage
  <2>9. pos.skip + PageSize <= Place(a, Collection)
    BY <1>1, <2>2, <2>4, <2>5, <2>6, <2>7, <2>8
  <2>10. pos'.skip = pos.skip + PageSize
    BY <1>2, ContinuedPosition
  <2>11. Place(a, Collection)' = Place(a, Collection)
    BY DEF Place, Before
  <2> QED
    BY <1>1, <1>2, <2>9, <2>10, <2>11 DEF Rest
<1>3. CASE connector.position = "token"
  <2>1. pos'.after = {LastOf(Page)}
    BY <1>3, AfterPage, ContinuedPosition
  <2>2. LastOf(Page) \in Page
    BY <1>1, AfterPage, PageRows, LastExists
  <2>3. Before(LastOf(Page), a)
    BY <2>2, AfterPage
  <2>4. \A b \in pos'.after : Before(b, a)'
    <3>1. \A b \in pos'.after : Before(b, a)
      BY <2>1, <2>3
    <3>2. \A b : Before(b, a)' <=> Before(b, a)
      BY DEF Before
    <3> QED
      BY <3>1, <3>2
  <2> QED
    BY <1>1, <1>3, <2>4 DEF Rest
<1>4. connector.position # "snapshot"
  BY AfterPage
<1> QED
  BY <1>2, <1>3, <1>4, FeatureType

\* The facts about requests that are needed in the next state too.
RequestsAsDescribed ==
  /\ Collection \subseteq Rows /\ Listing(Collection)
  /\ \A i \in Items : Standing(i) => Row(i) \in Collection
  /\ pos = Start /\ connector.position # "time" =>
       \A i \in Items : Standing(i) => Row(i) \in Rest
  /\ connector.from # "live" => \A t \in Int : InRange(t) <=> Within(t)

LEMMA RequestsDescribed == TypeOK => RequestsAsDescribed
BY CollectionRows, FirstRest, FixedRange DEF Row, RequestsAsDescribed

\* Writing to the collection leaves in the rest what it does not touch, unless an
\* offset is counted from places that others have left.
LEMMA RestStays ==
  ASSUME TypeOK, RequestsAsDescribed', UNCHANGED <<connector, parent, pos>>,
         connector.position # "time",
         NEW i \in Items, Row(i) \in Rest, at'[i] = at[i], Standing(i)',
         connector.position = "offset" =>
           \A j \in Items : Standing(j) /\ Before(Row(j), Row(i)) =>
             Standing(j)' /\ Before(Row(j), Row(i))'
  PROVE  (Row(i) \in Rest)'
<1> DEFINE C == Collection
           D == Collection'
           a == Row(i)
<1>1. /\ C \subseteq Rows /\ Listing(C) /\ \A b \in C : b[1] \in Items /\ Standing(b[1]) /\ b = Row(b[1])
  <2>1. /\ C \subseteq Rows /\ Listing(C)
        /\ \A b \in C : b[1] \in Items /\ Standing(b[1]) /\ b[2] = at[b[1]]
    BY CollectionRows
  <2> QED
    BY <2>1 DEF Row, Rows
<1>2. /\ D \subseteq Rows /\ Listing(D) /\ \A j \in Items : Standing(j)' => Row(j)' \in D
  BY DEF RequestsAsDescribed, Rows, Listing, Timed
<1>3. a' = a /\ a \in C /\ a \in D
  <2>1. a' = a
    BY DEF Row
  <2>2. a \in C
    BY PageRows
  <2> QED
    BY <1>2, <2>1, <2>2
<1>4. CASE connector.position = "offset"
  <2>1. pos.skip <= Place(a, C) /\ pos.skip \in Nat
    BY <1>4, TypeParts DEF Rest
  <2>2. Place(a, C) <= Place(a, D)
    <3> DEFINE f == [b \in Below(a, C) |-> Row(b[1])']
    <3>1. \A b \in Below(a, C) : f[b] \in Below(a, D) /\ f[b][1] = b[1]
      <4>1. SUFFICES ASSUME NEW b \in Below(a, C)
                     PROVE  Row(b[1])' \in Below(a, D) /\ Row(b[1])'[1] = b[1]
        OBVIOUS
      <4>2. b \in C /\ Before(b, a)
        BY DEF Below
      <4>3. b[1] \in Items /\ Standing(b[1]) /\ Before(Row(b[1]), Row(i))
        BY <1>1, <4>2
      <4>4. Standing(b[1])' /\ Before(Row(b[1]), Row(i))'
        BY <1>4, <4>3
      <4>5. Row(b[1])' \in D
        BY <1>2, <4>3, <4>4
      <4>6. Before(Row(b[1])', a)
        BY <1>3, <4>4 DEF Before
      <4> QED
        BY <4>5, <4>6 DEF Below, Row
    <3>2. f \in [Below(a, C) -> Below(a, D)]
      BY <3>1
    <3>3. \A b, c \in Below(a, C) : f[b] = f[c] => b = c
      <4>1. \A b, c \in Below(a, C) : f[b] = f[c] => b[1] = c[1]
        <5> HIDE DEF f
        <5> QED
          BY <3>1
      <4> QED
        BY <1>1, <4>1 DEF Below, Listing
    <3>4. f \in Injection(Below(a, C), Below(a, D))
      <4> HIDE DEF f
      <4> QED
        BY <3>2, <3>3 DEF Injection, IsInjective
    <3>5. /\ IsFiniteSet(Below(a, D)) /\ Place(a, D) = Cardinality(Below(a, D))
          /\ Place(a, C) = Cardinality(Below(a, C))
      BY <1>1, <1>2, PlaceType
    <3> QED
      BY <3>4, <3>5, FS_Injection
  <2>3. Place(a, D) \in Nat /\ Place(a, C) \in Nat
    BY <1>1, <1>2, PlaceType
  <2>4. pos.skip <= Place(a, D)
    BY <2>1, <2>2, <2>3
  <2>5. Place(a, Collection)' = Place(a, D)
    BY <1>3 DEF Place, Before
  <2>6. pos'.skip <= Place(a, Collection)'
    BY <2>4, <2>5
  <2> QED
    BY <1>3, <1>4, <2>6 DEF Rest
<1>5. CASE connector.position = "token"
  <2>1. \A b \in pos.after : Before(b, a)
    BY <1>5 DEF Rest
  <2>2. \A b \in pos'.after : Before(b, a)'
    BY <1>3, <2>1 DEF Before
  <2> QED
    BY <1>3, <1>5, <2>2 DEF Rest
<1>6. CASE connector.position = "snapshot"
  BY <1>3, <1>6 DEF Rest
<1> QED
  BY <1>4, <1>5, <1>6, FeatureType

-----------------------------------------------------------------------------
(* Every item of the range is read *)

Due(i) ==
  /\ Exists(i) /\ InRange(at[i])
  /\ ByParent => AskedFor(ParentOf(i))

Got(i) == i \in Read \/ Repeated(i, at[i])

ToCome(i) ==
  \/ connector.parents # "none" /\ ParentOf(i) > parent
  \/ Row(i) \in Rest

Reading ==
  /\ \A i \in Items : at[i] <= clock
  /\ \A i \in steady : Exists(i)
  /\ connector.from = "all" => last = 0 /\ low = 0
  /\ pc = "reading" /\ ReadsOn(connector) => \A i \in steady : Due(i) => Got(i) \/ ToCome(i)
  /\ pc = "loading" /\ ReadsOn(connector) => \A i \in steady : Due(i) => Got(i)

\* ReadsOn, for the sources there are
LEMMA ReadsOnParts ==
  ASSUME TypeOK, ReadsOn(connector)
  PROVE  /\ connector.error \in {"raise", "repeat"}
         /\ connector.stop \in {"empty", "short", "next", "older", "overlap"}
         /\ connector.parents # "reused" /\ connector.position # "time"
         /\ connector.from \in {"all", "ge", "gt"}
         /\ connector.stop \in {"older", "overlap"} => connector.order = "desc" /\ ~ByParent
BY FeatureType DEF ReadsOn, ByParent

LEMMA SameRun ==
  ASSUME TypeOK, RequestsAsDescribed', UNCHANGED <<connector, low, high, listed, seen>>,
         connector.from # "live"
  PROVE  /\ \A t \in Int : InRange(t)' <=> InRange(t)
         /\ \A p : AskedFor(p)' <=> AskedFor(p)
         /\ ByParent' <=> ByParent
<1>1. \A t \in Int : InRange(t)' <=> Within(t)'
  BY DEF RequestsAsDescribed
<1>2. \A t \in Int : Within(t)' <=> Within(t)
  BY DEF Within, ByParent
<1>3. \A t \in Int : InRange(t) <=> Within(t)
  BY FixedRange
<1>4. \A p : AskedFor(p)' <=> AskedFor(p)
  BY DEF AskedFor
<1> QED
  BY <1>1, <1>2, <1>3, <1>4 DEF ByParent

LEMMA SameItem ==
  ASSUME TypeOK, RequestsAsDescribed', UNCHANGED <<connector, low, high, listed, seen>>,
         connector.from # "live", NEW i \in Items, at'[i] = at[i]
  PROVE  /\ Due(i)' <=> Due(i)
         /\ parent' = parent => (Standing(i)' <=> Standing(i))
         /\ Row(i)' = Row(i)
         /\ Repeated(i, at[i])' <=> Repeated(i, at[i])
<1>1. at[i] \in Int
  BY BoundsAssumption, TypeParts DEF Gone
<1>2. InRange(at[i])' <=> InRange(at[i])
  <2>1. PICK t \in Int : t = at[i]
    BY <1>1
  <2>2. InRange(at[i])' <=> InRange(t)'
    BY <2>1 DEF InRange
  <2>3. InRange(at[i]) <=> InRange(t)
    BY <2>1
  <2> QED
    BY <2>2, <2>3, SameRun
<1>3. /\ ByParent' <=> ByParent
      /\ \A p : AskedFor(p)' <=> AskedFor(p)
  BY SameRun
<1>4. Exists(i)' <=> Exists(i)
  BY DEF Exists
<1>5. Due(i)' <=> Due(i)
  BY <1>2, <1>3, <1>4 DEF Due
<1>6. ASSUME parent' = parent PROVE Standing(i)' <=> Standing(i)
  BY <1>2, <1>3, <1>4, <1>6 DEF Standing
<1>7. Repeated(i, at[i])' <=> Repeated(i, at[i])
  BY <1>3 DEF Repeated
<1> QED
  BY <1>5, <1>6, <1>7 DEF Row

\* What others write leaves every item read or to come.
LEMMA ServiceReading ==
  ASSUME TypeOK, RequestsAsDescribed', Reading,
         UNCHANGED <<connector, destVars, pc, readVars>>,
         \A i \in Items : at'[i] <= clock',
         steady' \subseteq steady, \A i \in steady' : at'[i] = at[i],
         ReadsOn(connector) /\ connector.position = "offset" =>
           \A i \in steady', j \in Items : Standing(j) /\ Before(Row(j), Row(i)) =>
             Standing(j)' /\ Before(Row(j), Row(i))'
  PROVE  Reading'
<1>1. UNCHANGED <<low, high, listed, seen, parent, pos, rows, last, pc, connector>>
  BY DEF destVars, readVars
<1>2. steady' \subseteq Items /\ \A i \in steady' : Exists(i)'
  BY TypeParts DEF Reading, Exists
<1>3. ReadsOn(connector)' <=> ReadsOn(connector)
  BY DEF ReadsOn
<1>4. ASSUME NEW i \in steady', ReadsOn(connector), pc \in {"reading", "loading"},
             Due(i)', pc = "loading" => Got(i), pc = "reading" => Got(i) \/ ToCome(i)
      PROVE  Got(i)' \/ (pc = "reading" /\ ToCome(i)')
  <2>1. i \in Items /\ at'[i] = at[i] /\ connector.from # "live" /\ connector.position # "time"
    BY <1>2, <1>4, ReadsOnParts
  <2>2. /\ Repeated(i, at[i])' <=> Repeated(i, at[i])
        /\ Standing(i)' <=> Standing(i)
    BY <1>1, <2>1, SameItem
  <2>3. CASE Got(i)
    BY <1>1, <2>2, <2>3 DEF Got, Read
  <2>4. CASE pc = "reading" /\ connector.parents # "none" /\ ParentOf(i) > parent
    BY <1>1, <2>4 DEF ToCome
  <2>5. CASE pc = "reading" /\ Row(i) \in Rest
    <3>1. Standing(i)'
      <4>1. Row(i) \in Collection
        BY <2>5, PageRows
      <4>2. Standing(Row(i)[1])
        BY <4>1, CollectionRows
      <4> QED
        BY <2>2, <4>2 DEF Row
    <3>2. (Row(i) \in Rest)'
      BY <1>1, <1>4, <2>1, <2>5, <3>1, RestStays
    <3> QED
      BY <2>5, <3>2 DEF ToCome
  <2> QED
    BY <1>4, <2>3, <2>4, <2>5 DEF ToCome
<1>5. ASSUME NEW i \in steady', ReadsOn(connector)
      PROVE  Due(i)' <=> Due(i)
  <2>1. i \in Items /\ at'[i] = at[i] /\ connector.from # "live"
    BY <1>2, <1>5, ReadsOnParts
  <2> QED
    BY <1>1, <2>1, SameItem
<1>6. ASSUME pc = "reading", ReadsOn(connector), NEW i \in steady', Due(i)'
      PROVE  Got(i)' \/ ToCome(i)'
  <2>1. Got(i) \/ ToCome(i)
    BY <1>5, <1>6 DEF Reading
  <2> QED
    BY <1>4, <1>6, <2>1
<1>7. ASSUME pc = "loading", ReadsOn(connector), NEW i \in steady', Due(i)'
      PROVE  Got(i)'
  <2>1. Got(i)
    BY <1>5, <1>7 DEF Reading
  <2> QED
    BY <1>4, <1>7, <2>1
<1>8. connector'.from = "all" => last' = 0 /\ low' = 0
  BY <1>1 DEF Reading
<1> QED
  BY <1>1, <1>2, <1>3, <1>6, <1>7, <1>8 DEF Reading

\* The loop is left at no page that leaves an item of the range unread.
LEMMA LastPageIsLast ==
  ASSUME TypeOK, Reading, ReadsOn(connector), LastPage,
         NEW i \in Items, Due(i), Row(i) \in Rest
  PROVE  Row(i) \in Page
<1> SUFFICES ASSUME Row(i) \notin Page PROVE FALSE
  OBVIOUS
<1>1. /\ connector.position # "snapshot" /\ Page # {}
      /\ \A b \in Page : Before(b, Row(i))
      /\ PageSize <= Cardinality(Page)
  BY AfterPage
<1>2. PageSize \in Nat /\ Cardinality(Page) \in Nat /\ Page \subseteq Rows
  BY PageRows, PartListing, BoundsAssumption
<1>3. CASE connector.stop = "empty"
  BY <1>1, <1>3 DEF LastPage
<1>4. CASE connector.stop = "short"
  <2>1. Cardinality(Page) < PageSize
    BY <1>1, <1>4 DEF LastPage
  <2> QED
    BY <1>1, <1>2, <2>1
<1>5. CASE connector.stop = "next"
  BY <1>1, <1>5 DEF LastPage
<1>6. CASE connector.stop \in {"older", "overlap"}
  <2>1. connector.order = "desc" /\ ~ByParent
    BY <1>6, ReadsOnParts
  <2>2. PICK a \in Page : a[2] < low
    <3>1. Page # Rest
      OBVIOUS
    <3>2. CASE connector.stop = "older"
      BY <1>1, <3>1, <3>2 DEF LastPage
    <3>3. CASE connector.stop = "overlap"
      BY <1>1, <3>1, <3>3 DEF LastPage
    <3> QED
      BY <1>6, <3>2, <3>3
  <2>3. a[2] \in 1 .. MaxTime /\ at[i] \in Int /\ low \in 0 .. MaxTime /\ MaxTime \in Nat
    BY <1>2, TypeParts, BoundsAssumption DEF Rows, Gone
  <2>4. a[2] >= at[i]
    <3>1. Before(a, Row(i))
      BY <1>1
    <3>2. a[2] > Row(i)[2] \/ (a[2] = Row(i)[2] /\ a[1] < Row(i)[1])
      BY <2>1, <3>1 DEF Before
    <3> QED
      BY <2>3, <3>2 DEF Row
  <2>5. at[i] >= low
    <3>1. Within(at[i])
      BY <2>3, FixedRange, ReadsOnParts DEF Due
    <3>2. connector.from = "all" => low = 0
      BY DEF Reading
    <3>3. at[i] > 0
      BY DEF Due, Exists
    <3> QED
      BY <2>1, <2>3, <3>1, <3>2, <3>3 DEF Within
  <2> QED
    BY <2>2, <2>3, <2>4, <2>5
<1> QED
  BY <1>3, <1>4, <1>5, <1>6, ReadsOnParts

LEMMA ServiceStepReading ==
  ASSUME TypeOK, RequestsAsDescribed', Reading, Service, connector' = connector
  PROVE  Reading'
<1>1. \A i \in Items : at[i] \in Int /\ at[i] <= clock
  BY BoundsAssumption, TypeParts DEF Gone, Reading
<1>2. clock \in 1 .. MaxTime /\ MaxTime \in Nat
  BY TypeParts, BoundsAssumption
<1>3. CASE Tick
  <2>1. UNCHANGED <<destVars, pc, readVars>> /\ steady' = steady /\ at' = at /\ clock' = clock + 1
    BY <1>3 DEF Tick
  <2>2. \A i \in Items : at'[i] <= clock'
    BY <1>1, <1>2, <2>1
  <2>3. ReadsOn(connector) => \A j \in Items : Standing(j)' <=> Standing(j)
    BY <2>1, SameItem, ReadsOnParts DEF readVars, destVars
  <2>4. \A i, j \in Items : Before(Row(j), Row(i))' <=> Before(Row(j), Row(i))
    BY <2>1 DEF Before, Row
  <2> QED
    BY <2>1, <2>2, <2>3, <2>4, ServiceReading, TypeParts
<1>4. ASSUME NEW n \in Items, Create(n) PROVE Reading'
  <2>1. /\ UNCHANGED <<destVars, pc, readVars>> /\ steady' = steady /\ clock' = clock
        /\ at' = [at EXCEPT ![n] = clock] /\ at[n] = NotYet
    BY <1>4 DEF Create
  <2>2. at'[n] = clock /\ \A i \in Items : i # n => at'[i] = at[i]
    BY <2>1, TypeParts
  <2>3. \A i \in Items : at'[i] <= clock'
    BY <1>1, <1>2, <2>1, <2>2
  <2>4. \A i \in Items : Exists(i) => i # n
    BY <2>1 DEF Exists, NotYet
  <2>5. ReadsOn(connector) => \A j \in Items : Standing(j) => Standing(j)'
    <3>1. \A j \in Items : Standing(j) => at'[j] = at[j]
      BY <2>2, <2>4 DEF Standing
    <3> QED
      BY <2>1, <3>1, SameItem, ReadsOnParts DEF readVars, destVars
  <2>6. \A i, j \in Items : at'[i] = at[i] /\ at'[j] = at[j] =>
          (Before(Row(j), Row(i))' <=> Before(Row(j), Row(i)))
    BY DEF Before, Row
  <2>7. \A j \in Items : Standing(j) => at'[j] = at[j]
    BY <2>2, <2>4 DEF Standing
  <2>8. \A i \in steady' : i \in Items /\ at'[i] = at[i]
    BY <2>1, <2>2, <2>4, TypeParts DEF Reading
  <2> QED
    BY <2>1, <2>3, <2>5, <2>6, <2>7, <2>8, ServiceReading
<1>5. ASSUME NEW n \in Items, Update(n) PROVE Reading'
  <2>1. /\ UNCHANGED <<destVars, pc, readVars>> /\ clock' = clock
        /\ at' = [at EXCEPT ![n] = clock] /\ at[n] # clock /\ Exists(n)
    BY <1>5 DEF Update
  <2>2. at'[n] = clock /\ \A i \in Items : i # n => at'[i] = at[i]
    BY <2>1, TypeParts
  <2>3. \A i \in Items : at'[i] <= clock'
    BY <1>1, <1>2, <2>1, <2>2
  <2>4. steady' \subseteq steady \ {n}
    BY <1>5 DEF Update, Disturb
  <2>5. \A i \in steady' : i \in Items /\ at'[i] = at[i]
    BY <2>2, <2>4, TypeParts
  <2>6. connector.position = "offset" /\ steady' # {} =>
          connector.order # "asc" /\ (connector.filter = "server" => connector.upto = "open")
    BY <1>5 DEF Update, Disturb
  <2>7. ASSUME ReadsOn(connector), connector.position = "offset",
               NEW i \in steady', NEW j \in Items, Standing(j), Before(Row(j), Row(i))
        PROVE  Standing(j)' /\ Before(Row(j), Row(i))'
    <3>1. i \in Items /\ at'[i] = at[i] /\ connector.from # "live"
      BY <2>5, <2>7, ReadsOnParts
    <3>2. CASE j # n
      <4>1. at'[j] = at[j]
        BY <2>2, <3>2
      <4>2. Standing(j)'
        BY <2>1, <2>7, <3>1, <4>1, SameItem DEF readVars, destVars
      <4>3. Before(Row(j), Row(i))'
        BY <2>7, <3>1, <4>1 DEF Before, Row
      <4> QED
        BY <4>2, <4>3
    <3>3. CASE j = n
      <4>1. at[j] < clock /\ at'[j] = clock /\ at[j] \in Int
        BY <1>1, <1>2, <2>1, <2>2, <3>3
      <4>2. Standing(j)'
        <5>1. Exists(j)'
          BY <1>2, <4>1 DEF Exists
        <5>2. /\ \A p : AskedFor(p)' <=> AskedFor(p)
              /\ ByParent' <=> ByParent
              /\ \A t \in Int : InRange(t)' <=> Within(t)'
              /\ \A t \in Int : Within(t)' <=> Within(t)
          <6>1. \A t \in Int : InRange(t)' <=> Within(t)'
            BY <3>1 DEF RequestsAsDescribed
          <6>2. \A t \in Int : Within(t)' <=> Within(t)
            BY <2>1 DEF Within, ByParent, readVars
          <6> QED
            BY <2>1, <3>1, <6>1, <6>2, SameRun DEF readVars, destVars
        <5>3. connector.filter = "server" => InRange(at[j])'
          <6>1. SUFFICES ASSUME connector.filter = "server" PROVE InRange(at[j])'
            OBVIOUS
          <6>2. Within(at[j]) /\ connector.upto = "open"
            BY <2>6, <2>7, <3>1, <4>1, <6>1, FixedRange DEF Standing
          <6>3. Within(clock)
            BY <1>2, <4>1, <6>2, TypeParts DEF Within
          <6>4. InRange(clock)'
            <7>1. PICK t \in Int : t = clock
              BY <1>2
            <7>2. InRange(t)'
              BY <5>2, <6>3, <7>1
            <7> QED
              BY <2>1, <7>1, <7>2 DEF InRange
          <6> QED
            BY <2>1, <4>1, <6>4 DEF InRange
        <5> QED
          BY <2>1, <2>7, <5>1, <5>2, <5>3 DEF Standing, readVars
      <4>3. Before(Row(j), Row(i))'
        <5>1. at[i] \in Int /\ j \in Int /\ i \in Int
          BY <1>1, <3>1, BoundsAssumption
        <5>2. CASE connector.order = "key"
          BY <2>7, <5>2 DEF Before, Row
        <5>3. CASE connector.order = "newest"
          BY <2>7, <5>3 DEF Before, Row
        <5>4. CASE connector.order = "desc"
          <6>1. Before(Row(j), Row(i)) <=> at[j] > at[i] \/ (at[j] = at[i] /\ j < i)
            BY <5>4 DEF Before, Row
          <6>2. Before(Row(j), Row(i))' <=> at'[j] > at'[i] \/ (at'[j] = at'[i] /\ j < i)
            BY <5>4 DEF Before, Row
          <6> QED
            BY <1>2, <2>7, <3>1, <4>1, <5>1, <6>1, <6>2
        <5> QED
          BY <2>6, <2>7, <5>2, <5>3, <5>4, FeatureType
      <4> QED
        BY <4>2, <4>3
    <3> QED
      BY <3>2, <3>3
  <2> QED
    BY <2>1, <2>3, <2>4, <2>5, <2>7, ServiceReading
<1>6. ASSUME NEW n \in Items, Delete(n) PROVE Reading'
  <2>1. /\ UNCHANGED <<destVars, pc, readVars>> /\ clock' = clock
        /\ at' = [at EXCEPT ![n] = Gone]
    BY <1>6 DEF Delete
  <2>2. at'[n] = Gone /\ \A i \in Items : i # n => at'[i] = at[i]
    BY <2>1, TypeParts
  <2>3. \A i \in Items : at'[i] <= clock'
    BY <1>1, <1>2, <2>1, <2>2 DEF Gone
  <2>4. steady' \subseteq steady \ {n} /\ (connector.position = "offset" => steady' = {})
    BY <1>6 DEF Delete, Disturb
  <2>5. \A i \in steady' : at'[i] = at[i]
    BY <2>2, <2>4, TypeParts
  <2> QED
    BY <2>1, <2>3, <2>4, <2>5, ServiceReading
<1>7. ASSUME NEW p \in Parents, Touch(p) PROVE Reading'
  <2>1. UNCHANGED <<destVars, pc, readVars>> /\ steady' = steady /\ at' = at /\ clock' = clock
    BY <1>7 DEF Touch
  <2>2. \A i \in Items : at'[i] <= clock'
    BY <1>1, <2>1
  <2>3. ReadsOn(connector) => \A j \in Items : Standing(j)' <=> Standing(j)
    BY <2>1, SameItem, ReadsOnParts DEF readVars, destVars
  <2>4. \A i, j \in Items : Before(Row(j), Row(i))' <=> Before(Row(j), Row(i))
    BY <2>1 DEF Before, Row
  <2> QED
    BY <2>1, <2>2, <2>3, <2>4, ServiceReading, TypeParts
<1> QED
  BY <1>3, <1>4, <1>5, <1>6, <1>7 DEF Service

\* One page nearer to the end: what is not on the page is still to come.
LEMMA PageStep ==
  ASSUME TypeOK, RequestsAsDescribed', Reading, ReadPage, connector' = connector,
         ReadsOn(connector), NEW i \in Items, Due(i), ToCome(i), Row(i) \notin Page
  PROVE  pc' = "reading" /\ ToCome(i)'
<1>1. /\ UNCHANGED <<at, seen, low, high, listed>>
      /\ pc = "reading" /\ GoOn
  BY DEF ReadPage, serviceVars, destVars
<1>2. /\ connector.from # "live" /\ connector.position # "time"
      /\ connector.parents # "reused"
  BY ReadsOnParts
<1>3. Due(i)' /\ Row(i)' = Row(i)
  BY <1>1, <1>2, SameItem
<1>4. CASE ~LastPage
  <2>1. pos' = Continued /\ pc' = pc /\ parent' = parent
    BY <1>1, <1>4 DEF GoOn
  <2>2. CASE connector.parents # "none" /\ ParentOf(i) > parent
    BY <1>1, <2>1, <2>2 DEF ToCome
  <2>3. CASE Row(i) \in Rest
    <3>1. \A j \in Items : Standing(j)' <=> Standing(j)
      BY <1>1, <1>2, <2>1, SameItem
    <3>2. Collection = {Row(j) : j \in {k \in Items : Standing(k)}}
      BY DEF Collection, Standing, Row
    <3>3. Collection' = {Row(j)' : j \in {k \in Items : Standing(k)'}}
      BY DEF Collection, Standing, Row
    <3>4. \A j : Row(j)' = Row(j)
      BY <1>1 DEF Row
    <3>5. Collection' = Collection
      BY <3>1, <3>2, <3>3, <3>4
    <3>6. Row(i) \in Rest'
      BY <1>2, <2>1, <2>3, <3>5, NextRest
    <3> QED
      BY <1>1, <1>3, <2>1, <3>6 DEF ToCome
  <2> QED
    BY <2>2, <2>3 DEF ToCome
<1>5. CASE LastPage
  <2>1. EndOfPages
    BY <1>1, <1>5 DEF GoOn
  <2>2. Row(i) \notin Rest
    BY <1>5, LastPageIsLast
  <2>3. connector.parents # "none" /\ ParentOf(i) > parent
    BY <2>2 DEF ToCome
  <2>4. Parents = 1 .. 2 /\ parent = 1 /\ ParentOf(i) = 2
    BY <2>3, TypeParts DEF Parents, ParentOf
  <2>5. parent' = 2 /\ pos' = Start /\ pc' = "reading"
    BY <1>1, <1>2, <2>1, <2>4 DEF EndOfPages
  <2>6. Standing(i)'
    BY <1>3, <2>4, <2>5 DEF Due, Standing
  <2>7. (pos = Start /\ connector.position # "time")'
    BY <1>2, <2>5 DEF Start
  <2>8. (\A j \in Items : Standing(j) => Row(j) \in Rest)'
    BY <2>7 DEF RequestsAsDescribed
  <2> QED
    BY <2>5, <2>6, <2>8 DEF ToCome
<1> QED
  BY <1>4, <1>5

LEMMA ReadPageReading ==
  ASSUME TypeOK, RequestsAsDescribed', Reading, ReadPage, connector' = connector
  PROVE  Reading'
<1>1. /\ UNCHANGED <<clock, at, last, seen, low, high, listed, steady, connector>>
      /\ rows' = rows \cup {a \in Page : InRange(a[2]) /\ ~Repeated(a[1], a[2])}
      /\ pc = "reading" /\ GoOn
  BY DEF ReadPage, serviceVars, destVars
<1>2. pc' \in {"reading", "loading"}
  BY <1>1, GoOnType
<1>3. ASSUME ReadsOn(connector), NEW i \in steady, Due(i)'
      PROVE  Got(i)' \/ (pc' = "reading" /\ ToCome(i)')
  <2>1. i \in Items /\ connector.from # "live"
    BY <1>3, ReadsOnParts, TypeParts
  <2>2. Due(i) /\ (Repeated(i, at[i])' <=> Repeated(i, at[i]))
    BY <1>1, <1>3, <2>1, SameItem
  <2>3. CASE Got(i)
    BY <1>1, <2>2, <2>3 DEF Got, Read
  <2>4. CASE Row(i) \in Page
    <3>1. Repeated(i, at[i]) \/ Row(i) \in rows'
      BY <1>1, <2>2, <2>4 DEF Due, Row
    <3>2. Row(i) \in rows' => i \in Read'
      BY DEF Read, Row
    <3> QED
      BY <2>2, <3>1, <3>2 DEF Got
  <2>5. CASE ~Got(i) /\ Row(i) \notin Page
    <3>1. ToCome(i)
      BY <1>1, <1>3, <2>2, <2>5 DEF Reading
    <3> QED
      BY <1>3, <2>1, <2>2, <2>5, <3>1, PageStep
  <2> QED
    BY <2>3, <2>4, <2>5
<1>4. ReadsOn(connector)' <=> ReadsOn(connector)
  BY DEF ReadsOn
<1>5. /\ \A i \in Items : at'[i] <= clock'
      /\ \A i \in steady' : Exists(i)'
      /\ connector'.from = "all" => last' = 0 /\ low' = 0
  BY <1>1 DEF Reading, Exists
<1> QED
  BY <1>1, <1>2, <1>3, <1>4, <1>5 DEF Reading

LEMMA StartStep ==
  ASSUME TypeOK, RequestsAsDescribed', StartRun, connector' = connector,
         ReadsOn(connector), NEW i \in Items, Due(i)'
  PROVE  ToCome(i)'
<1>1. parent' = 1 /\ pos' = Start
  BY DEF StartRun
<1>2. connector.position # "time"
  BY ReadsOnParts
<1>3. CASE connector.parents # "none" /\ ParentOf(i) > 1
  BY <1>1, <1>3 DEF ToCome
<1>4. CASE connector.parents = "none" \/ ParentOf(i) = 1
  <2>1. Standing(i)'
    BY <1>1, <1>4 DEF Due, Standing, ByParent
  <2>2. (pos = Start /\ connector.position # "time")'
    BY <1>1, <1>2 DEF Start
  <2>3. (\A j \in Items : Standing(j) => Row(j) \in Rest)'
    BY <2>2 DEF RequestsAsDescribed
  <2> QED
    BY <2>1, <2>3 DEF ToCome
<1> QED
  BY <1>3, <1>4 DEF ParentOf

LEMMA StartRunReading ==
  ASSUME TypeOK, RequestsAsDescribed', Reading, StartRun, connector' = connector
  PROVE  Reading'
<1>1. /\ UNCHANGED <<clock, at, last>> /\ low' = last
      /\ steady' = {i \in Items : Exists(i)} /\ pc' = "reading"
  BY DEF StartRun, serviceVars, destVars
<1>2. ReadsOn(connector)' <=> ReadsOn(connector)
  BY DEF ReadsOn
<1>3. ASSUME ReadsOn(connector), NEW i \in steady', Due(i)'
      PROVE  ToCome(i)'
  BY <1>1, <1>3, StartStep
<1>4. /\ \A i \in Items : at'[i] <= clock'
      /\ \A i \in steady' : Exists(i)'
      /\ connector'.from = "all" => last' = 0 /\ low' = 0
  BY <1>1 DEF Reading, Exists
<1> QED
  BY <1>1, <1>2, <1>3, <1>4 DEF Reading

LEMMA EndRunReading ==
  ASSUME Reading, EndRun, UNCHANGED <<connector, clock, at>>,
         connector.from = "all" => last' = last
  PROVE  Reading'
BY DEF EndRun, Reading

LEMMA ReadingKept ==
  ASSUME TypeOK, RequestsAsDescribed', Reading, [Next]_vars
  PROVE  Reading'
<1>1. connector' = connector
  BY DEF Next, vars
<1>2. CASE Service
  BY <1>1, <1>2, ServiceStepReading
<1>3. CASE StartRun
  BY <1>1, <1>3, StartRunReading
<1>4. CASE ReadPage
  BY <1>1, <1>4, ReadPageReading
<1>5. CASE Load
  BY <1>1, <1>5, EndRunReading DEF Load, serviceVars
<1>6. CASE LoadFails
  BY <1>1, <1>6, EndRunReading DEF LoadFails, serviceVars, destVars
<1>7. CASE FetchFails
  <2>1. UNCHANGED <<clock, at, touched, table, last, seen>> /\ pc = "reading"
    BY <1>7 DEF FetchFails, serviceVars, destVars
  <2>2. CASE EndRun
    BY <1>1, <2>1, <2>2, EndRunReading
  <2>3. CASE UNCHANGED <<pc, readVars, steady>>
    <3>1. \A i \in Items : /\ Due(i)' <=> Due(i)
                           /\ Got(i)' <=> Got(i)
                           /\ ToCome(i)' <=> ToCome(i)
      BY <1>1, <2>1, <2>3
      DEF Due, Got, ToCome, Rest, Collection, Place, Before, Row, Read, Repeated, Exists, InRange,
          Newest, AskedFor, ByParent, ParentOf, Parents, readVars
    <3> QED
      BY <1>1, <2>1, <2>3, <3>1, TypeParts DEF Reading, ReadsOn, Exists, readVars
  <2>4. CASE (EndOfPages \/ GoOn) /\ connector.error \in {"ends", "skips"}
            /\ UNCHANGED <<low, high, listed, rows, steady>>
    <3>1. ~ReadsOn(connector)'
      BY <1>1, <2>4 DEF ReadsOn
    <3> QED
      BY <1>1, <2>1, <2>4, <3>1 DEF Reading, Exists
  <2> QED
    BY <1>7, <2>2, <2>3, <2>4 DEF FetchFails
<1>8. CASE UNCHANGED vars
  <2>1. \A i \in Items : /\ Due(i)' <=> Due(i)
                         /\ Got(i)' <=> Got(i)
                         /\ ToCome(i)' <=> ToCome(i)
    BY <1>8
    DEF Due, Got, ToCome, Rest, Collection, Place, Before, Row, Read, Repeated, Exists, InRange,
        Newest, AskedFor, ByParent, ParentOf, Parents, readVars, serviceVars, destVars, vars
  <2> QED
    BY <1>8, <2>1, TypeParts DEF Reading, ReadsOn, Exists, readVars, serviceVars, destVars, vars
<1> QED
  BY <1>2, <1>3, <1>4, <1>5, <1>6, <1>7, <1>8 DEF Next, Run

\* Whatever the collection is written to and however often pages are asked for
\* again, a run that gets to its end has handed on all that was there all the time.
THEOREM EveryItemReadCorrect == Spec => []EveryItemRead
<1>1. Init => Reading
  <2> SUFFICES ASSUME Init PROVE Reading
    OBVIOUS
  <2>1. /\ clock = 1 /\ at = [i \in Items |-> NotYet] /\ steady = {} /\ pc = "idle"
        /\ last = 0 /\ low = 0
    BY DEF Init
  <2> QED
    BY <2>1 DEF Reading, NotYet
<1>2. TypeOK => RequestsAsDescribed
  BY RequestsDescribed
<1>3. TypeOK /\ RequestsAsDescribed' /\ Reading /\ [Next]_vars => Reading'
  BY ReadingKept
<1>4. TypeOK /\ Reading => EveryItemRead
  BY TypeParts DEF Reading, EveryItemRead, Due, Got
<1> QED
  BY <1>1, <1>2, <1>3, <1>4, TypeCorrect, PTL DEF Spec

-----------------------------------------------------------------------------
(* Times *)

\* Nothing is newer than the clock, and what was read was there.
Clocked ==
  /\ last <= clock /\ high <= clock /\ low <= last
  /\ pc # "idle" => low = last /\ (connector.upto # "open" => low <= high)
  /\ \A p \in Parents : touched[p] <= clock /\ listed[p] <= touched[p]
  /\ \A a \in rows \cup pos.after : a[2] <= clock /\ at[a[1]] # NotYet
  /\ \A a \in rows : Exists(a[1]) =>
       a[2] <= at[a[1]] /\ (connector.stamp = "created" => a[2] = at[a[1]])
  /\ connector.from # "live" => \A a \in rows : Within(a[2])

\* Items are created one after the other.
Creation ==
  /\ \A i, j \in Items : i < j /\ at[i] = NotYet => at[j] = NotYet
  /\ connector.stamp = "created" =>
       \A i, j \in Items : i < j /\ Exists(i) /\ Exists(j) => at[i] <= at[j]

\* What was handed on with the time of the cursor has not got an older one.
SeenThen ==
  /\ ByParent => \A p \in seen : touched[p] >= last
  /\ ~ByParent => \A i \in seen : at[i] # NotYet /\ (Exists(i) => at[i] >= last)

LEMMA PageItems ==
  ASSUME TypeOK
  PROVE  \A a \in Page : /\ a[1] \in Items /\ a[2] = at[a[1]] /\ a = Row(a[1])
                         /\ Exists(a[1]) /\ Standing(a[1]) /\ a[2] \in 1 .. MaxTime
<1>1. Page \subseteq Collection /\ Page \subseteq Rows
  BY PageRows
<1>2. \A a \in Page : a[1] \in Items /\ a[2] = at[a[1]] /\ Standing(a[1])
  BY <1>1, CollectionRows
<1>3. \A a \in Page : a = <<a[1], a[2]>> /\ a[2] \in 1 .. MaxTime
  BY <1>1 DEF Rows
<1> QED
  BY <1>2, <1>3 DEF Standing, Row

LEMMA NextAfter ==
  ASSUME TypeOK, GoOn \/ EndOfPages
  PROVE  pos'.after \subseteq pos.after \cup Page
<1>1. CASE EndOfPages
  <2>1. Start.after = {}
    BY DEF Start
  <2>2. pos' = pos \/ pos' = Start
    BY <1>1 DEF EndOfPages
  <2> QED
    BY <2>1, <2>2
<1>2. CASE pos' = Continued
  <2>1. CASE connector.position = "offset"
    BY <1>2, <2>1, ContinuedPosition
  <2>2. CASE connector.position # "offset" /\ Page = {}
    BY <1>2, <2>2, ContinuedPosition
  <2>3. CASE connector.position # "offset" /\ Page # {}
    <3>1. LastOf(Page) \in Page
      BY <2>3, PageRows, CollectionRows, LastExists
    <3> QED
      BY <1>2, <2>3, <3>1, ContinuedPosition
  <2> QED
    BY <2>1, <2>2, <2>3
<1> QED
  BY <1>1, <1>2 DEF GoOn

\* A step that leaves the run as it is
LEMMA ClockedService ==
  ASSUME TypeOK, Clocked, UNCHANGED <<connector, destVars, pc, readVars>>,
         clock' \in Int, clock <= clock',
         \A i \in Items : at'[i] = at[i] \/ at'[i] = Gone
                          \/ (at'[i] = clock' /\ (at[i] = NotYet \/ connector.stamp = "updated")),
         touched' \in [Parents -> Int],
         \A p \in Parents : touched[p] <= touched'[p] /\ touched'[p] <= clock'
  PROVE  Clocked'
<1>1. UNCHANGED <<connector, last, high, low, pc, listed, rows, pos>>
  BY DEF destVars, readVars
<1>2. /\ last \in Int /\ high \in Int /\ low \in Int /\ clock \in Int
      /\ \A p \in Parents : touched[p] \in Int /\ listed[p] \in Int
      /\ \A i \in Items : at[i] \in Int
      /\ rows \cup pos.after \subseteq Rows
  BY TypeParts, BoundsAssumption DEF Gone
<1>3. \A a \in rows \cup pos.after : a[1] \in Items /\ a[2] \in Int
  BY <1>2 DEF Rows
<1>4. /\ last' <= clock' /\ high' <= clock' /\ low' <= last'
      /\ pc' # "idle" => low' = last' /\ (connector'.upto # "open" => low' <= high')
  BY <1>1, <1>2 DEF Clocked
<1>5. \A p \in Parents : touched'[p] <= clock' /\ listed'[p] <= touched'[p]
  BY <1>1, <1>2 DEF Clocked
<1>6. \A a \in rows \cup pos.after : a[2] <= clock' /\ at'[a[1]] # NotYet
  <2> SUFFICES ASSUME NEW a \in rows \cup pos.after
               PROVE  a[2] <= clock' /\ at'[a[1]] # NotYet
    OBVIOUS
  <2>1. a[2] <= clock /\ at[a[1]] # NotYet
    BY DEF Clocked
  <2>2. 1 <= a[2]
    BY <1>2 DEF Rows
  <2> QED
    BY <1>2, <1>3, <2>1, <2>2 DEF NotYet, Gone
<1>7. \A a \in rows : at'[a[1]] > 0 =>
        a[2] <= at'[a[1]] /\ (connector.stamp = "created" => a[2] = at'[a[1]])
  <2> SUFFICES ASSUME NEW a \in rows, at'[a[1]] > 0
               PROVE  a[2] <= at'[a[1]] /\ (connector.stamp = "created" => a[2] = at'[a[1]])
    OBVIOUS
  <2>1. a[2] <= clock /\ at[a[1]] # NotYet /\ a[1] \in Items /\ a[2] \in Int
    BY <1>3 DEF Clocked
  <2>2. CASE at'[a[1]] = at[a[1]]
    BY <2>2 DEF Clocked, Exists
  <2>3. CASE at'[a[1]] = clock' /\ connector.stamp = "updated"
    BY <1>2, <2>1, <2>3
  <2> QED
    BY <2>1, <2>2, <2>3 DEF Gone
<1>8. connector'.from # "live" => \A a \in rows' : Within(a[2])'
  <2>1. \A t : Within(t)' <=> Within(t)
    BY <1>1 DEF Within, ByParent
  <2> QED
    BY <1>1, <2>1 DEF Clocked
<1>9. Parents' = Parents
  BY DEF Parents
<1> QED
  BY <1>1, <1>4, <1>5, <1>6, <1>7, <1>8, <1>9 DEF Clocked, Exists

LEMMA ClockedEndRun ==
  ASSUME TypeOK, Clocked, EndRun, connector' = connector, UNCHANGED <<clock, at, touched>>,
         last' \in 0 .. MaxTime, last' <= clock
  PROVE  Clocked'
<1>1. /\ low' = 0 /\ high' = 0 /\ pc' = "idle" /\ rows' = {} /\ pos' = Start
      /\ listed' = Unlisted /\ Start.after = {}
  BY DEF EndRun, Start
<1>2. Parents' = Parents /\ \A p \in Parents : Unlisted[p] = 1
  BY DEF Parents, Unlisted
<1>3. /\ clock \in 1 .. MaxTime /\ MaxTime \in Nat
      /\ \A p \in Parents : touched[p] \in 1 .. MaxTime /\ touched[p] <= clock
  BY TypeParts, BoundsAssumption DEF Clocked
<1>4. last' <= clock' /\ high' <= clock' /\ low' <= last'
  BY <1>1, <1>3
<1>5. \A p \in Parents' : touched'[p] <= clock' /\ listed'[p] <= touched'[p]
  BY <1>1, <1>2, <1>3
<1>6. rows' \cup pos'.after = {}
  BY <1>1
<1> QED
  BY <1>1, <1>4, <1>5, <1>6 DEF Clocked

\* A step on the pages of the run
LEMMA ClockedPages ==
  ASSUME TypeOK, Reading, Clocked, GoOn \/ EndOfPages, pc = "reading",
         UNCHANGED <<connector, serviceVars, destVars, low, high, listed>>,
         rows' \subseteq rows \cup {a \in Page : InRange(a[2])}
  PROVE  Clocked'
<1>1. UNCHANGED <<clock, at, touched, last>>
  BY DEF serviceVars, destVars
<1>2. pos'.after \subseteq pos.after \cup Page
  BY NextAfter
<1>3. \A a \in Page : a[2] <= clock /\ at[a[1]] # NotYet
  BY PageItems DEF Reading, Exists, NotYet
<1>4. \A a \in rows' \cup pos'.after : a[2] <= clock' /\ at'[a[1]] # NotYet
  BY <1>1, <1>2, <1>3 DEF Clocked
<1>5. \A a \in rows' : Exists(a[1])' =>
        a[2] <= at'[a[1]] /\ (connector.stamp = "created" => a[2] = at'[a[1]])
  <2>1. \A a \in Page : a[2] = at[a[1]] /\ a[2] \in Int /\ a[2] <= at[a[1]]
    BY PageItems, BoundsAssumption
  <2> QED
    BY <1>1, <2>1 DEF Clocked, Exists
<1>6. connector'.from # "live" => \A a \in rows' : Within(a[2])'
  <2>1. \A t : Within(t)' <=> Within(t)
    BY DEF Within, ByParent
  <2>2. ASSUME connector.from # "live" PROVE \A a \in Page : InRange(a[2]) => Within(a[2])
    BY <2>2, PageItems, FixedRange, BoundsAssumption
  <2> QED
    BY <2>1, <2>2 DEF Clocked
<1>7. /\ last' <= clock' /\ high' <= clock' /\ low' <= last'
      /\ low' = last' /\ (connector'.upto # "open" => low' <= high')
  BY <1>1 DEF Clocked
<1>8. \A p \in Parents' : touched'[p] <= clock' /\ listed'[p] <= touched'[p]
  BY <1>1 DEF Clocked, Parents
<1> QED
  BY <1>4, <1>5, <1>6, <1>7, <1>8 DEF Clocked

LEMMA LatestPast ==
  ASSUME TypeOK, Clocked
  PROVE  Latest <= clock /\ Newest <= clock
<1>1. Newest = low \/ (\E a \in rows : a[2] = Newest) \/ (\E p \in Parents : listed[p] = Newest)
  BY NewestType
<1>2. /\ low \in Int /\ last \in Int /\ clock \in Int
      /\ \A p \in Parents : touched[p] \in Int /\ listed[p] \in Int
  BY TypeParts, BoundsAssumption
<1>3. low <= clock /\ \A p \in Parents : listed[p] <= clock
  BY <1>2 DEF Clocked
<1>4. Newest <= clock
  BY <1>1, <1>3 DEF Clocked
<1> QED
  BY <1>4 DEF Latest, Clocked

LEMMA ClockedKept ==
  ASSUME TypeOK, TypeOK', Reading, Clocked, [Next]_vars
  PROVE  Clocked'
<1>1. connector' = connector
  BY DEF Next, vars
<1>2. /\ clock \in Int /\ clock' \in Int /\ touched' \in [Parents -> Int]
      /\ \A p \in Parents : touched[p] \in Int /\ touched[p] <= clock
  <2>1. touched' \in [Parents' -> 1 .. MaxTime]
    BY DEF TypeOK
  <2>2. Parents' = Parents
    BY <1>1 DEF Parents
  <2> QED
    BY <2>1, <2>2, TypeParts, BoundsAssumption DEF TypeOK, Clocked
<1>3. CASE Tick
  BY <1>1, <1>2, <1>3, ClockedService DEF Tick
<1>4. ASSUME NEW n \in Items, Create(n) PROVE Clocked'
  <2>1. \A i \in Items : at'[i] = at[i] \/ (at'[i] = clock' /\ at[i] = NotYet)
    BY <1>4, TypeParts DEF Create
  <2> QED
    BY <1>1, <1>2, <1>4, <2>1, ClockedService DEF Create
<1>5. ASSUME NEW n \in Items, Update(n) PROVE Clocked'
  <2>1. \A i \in Items : at'[i] = at[i] \/ (at'[i] = clock' /\ connector.stamp = "updated")
    BY <1>5, TypeParts DEF Update
  <2> QED
    BY <1>1, <1>2, <1>5, <2>1, ClockedService DEF Update
<1>6. ASSUME NEW n \in Items, Delete(n) PROVE Clocked'
  <2>1. \A i \in Items : at'[i] = at[i] \/ at'[i] = Gone
    BY <1>6, TypeParts DEF Delete
  <2> QED
    BY <1>1, <1>2, <1>6, <2>1, ClockedService DEF Delete
<1>7. ASSUME NEW p \in Parents, Touch(p) PROVE Clocked'
  <2>1. \A q \in Parents : touched[q] <= touched'[q] /\ touched'[q] <= clock'
    BY <1>2, <1>7, TypeParts DEF Touch
  <2> QED
    BY <1>1, <1>2, <1>7, <2>1, ClockedService DEF Touch
<1>8. CASE StartRun
  <2>1. /\ UNCHANGED <<clock, at, touched, last>> /\ low' = last /\ high' = UpperEnd
        /\ listed' = touched /\ pos' = Start /\ rows' = {} /\ Start.after = {}
    BY <1>8 DEF StartRun, serviceVars, destVars, Start
  <2>2. high' <= clock /\ (connector.upto # "open" => last <= high') /\ last \in Int
    BY <2>1, TypeParts, BoundsAssumption DEF UpperEnd, Clocked
  <2>3. rows' \cup pos'.after = {}
    BY <2>1
  <2>4. \A p \in Parents' : touched'[p] <= clock' /\ listed'[p] <= touched'[p]
    BY <1>1, <1>2, <2>1 DEF Parents
  <2>5. last' <= clock' /\ high' <= clock' /\ low' <= last' /\ low' = last'
    BY <2>1, <2>2 DEF Clocked
  <2> QED
    BY <1>1, <2>1, <2>2, <2>3, <2>4, <2>5 DEF Clocked
<1>9. CASE ReadPage
  BY <1>1, <1>9, ClockedPages DEF ReadPage
<1>10. CASE Load
  <2>1. last' = last \/ last' = Latest
    BY <1>10 DEF Load
  <2>2. last' <= clock /\ last' \in 0 .. MaxTime
    BY <2>1, LatestPast, TypeOK' DEF Clocked, TypeOK
  <2> QED
    BY <1>1, <1>10, <2>2, ClockedEndRun DEF Load, serviceVars
<1>11. CASE LoadFails
  BY <1>1, <1>11, ClockedEndRun, TypeParts DEF LoadFails, serviceVars, destVars, Clocked
<1>12. CASE FetchFails
  <2>1. UNCHANGED <<serviceVars, destVars>> /\ pc = "reading"
    BY <1>12 DEF FetchFails
  <2>2. CASE EndRun
    BY <1>1, <2>1, <2>2, ClockedEndRun, TypeParts DEF serviceVars, destVars, Clocked
  <2>3. CASE UNCHANGED <<pc, readVars, steady>>
    BY <1>1, <1>2, <2>1, <2>3, ClockedService DEF serviceVars
  <2>4. CASE (EndOfPages \/ GoOn) /\ UNCHANGED <<low, high, listed, rows, steady>>
    BY <1>1, <2>1, <2>4, ClockedPages
  <2> QED
    BY <1>12, <2>2, <2>3, <2>4 DEF FetchFails
<1>13. CASE UNCHANGED vars
  BY <1>2, <1>13, ClockedService DEF vars, serviceVars
<1> QED
  BY <1>3, <1>4, <1>5, <1>6, <1>7, <1>8, <1>9, <1>10, <1>11, <1>12, <1>13 DEF Next, Service, Run

LEMMA CreationKept ==
  ASSUME TypeOK, Reading, Creation, [Next]_vars
  PROVE  Creation'
<1>1. /\ \A i \in Items : at[i] \in Int /\ at[i] <= clock /\ i \in Int
      /\ clock \in 1 .. MaxTime /\ MaxTime \in Nat
  BY TypeParts, BoundsAssumption DEF Gone, Reading
<1>2. ASSUME NEW n \in Items, Create(n) PROVE Creation'
  <2>1. /\ at'[n] = clock /\ \A i \in Items : i # n => at'[i] = at[i]
        /\ at[n] = NotYet /\ \A j \in Items : j < n => at[j] # NotYet
        /\ connector' = connector
    BY <1>2, TypeParts DEF Create, Next, vars
  <2>2. \A j \in Items : n < j => at[j] = NotYet
    BY <2>1 DEF Creation
  <2> QED
    BY <1>1, <2>1, <2>2 DEF Creation, Exists, NotYet
<1>3. ASSUME NEW n \in Items, Update(n) PROVE Creation'
  <2>1. /\ at'[n] = clock /\ \A i \in Items : i # n => at'[i] = at[i]
        /\ at[n] > 0 /\ connector.stamp = "updated" /\ connector' = connector
    BY <1>3, TypeParts DEF Update, Exists, Next, vars
  <2> QED
    BY <1>1, <2>1 DEF Creation, Exists, NotYet
<1>4. ASSUME NEW n \in Items, Delete(n) PROVE Creation'
  <2>1. /\ at'[n] = Gone /\ \A i \in Items : i # n => at'[i] = at[i]
        /\ at[n] > 0 /\ connector' = connector
    BY <1>4, TypeParts DEF Delete, Exists, Next, vars
  <2> QED
    BY <1>1, <2>1 DEF Creation, Exists, NotYet, Gone
<1>5. CASE UNCHANGED <<at, connector>>
  BY <1>5 DEF Creation, Exists
<1> QED
  BY <1>2, <1>3, <1>4, <1>5
  DEF Next, Service, Run, Tick, Touch, StartRun, ReadPage, Load, FetchFails, LoadFails, serviceVars, vars

LEMMA SeenKept ==
  ASSUME TypeOK, Clocked, SeenThen, [Next]_vars
  PROVE  SeenThen'
<1>1. connector' = connector /\ (ByParent' <=> ByParent) /\ Parents' = Parents
  BY DEF Next, vars, ByParent, Parents
<1>2. /\ \A i \in Items : at[i] \in Int
      /\ \A p \in Parents : touched[p] \in Int /\ touched[p] <= clock
      /\ clock \in 1 .. MaxTime /\ last \in 0 .. MaxTime /\ last <= clock
      /\ ByParent => seen \subseteq Parents
      /\ ~ByParent => seen \subseteq Items
  BY TypeParts, BoundsAssumption DEF Gone, Clocked
<1>3. ASSUME NEW n \in Items, Create(n) PROVE SeenThen'
  <2>1. /\ at'[n] = clock /\ \A i \in Items : i # n => at'[i] = at[i]
        /\ UNCHANGED <<touched, last, seen>>
    BY <1>3, TypeParts DEF Create, destVars
  <2> QED
    BY <1>1, <1>2, <2>1 DEF SeenThen, Exists, NotYet
<1>4. ASSUME NEW n \in Items, Update(n) PROVE SeenThen'
  <2>1. /\ at'[n] = clock /\ \A i \in Items : i # n => at'[i] = at[i]
        /\ UNCHANGED <<touched, last, seen>>
    BY <1>4, TypeParts DEF Update, destVars
  <2> QED
    BY <1>1, <1>2, <2>1 DEF SeenThen, Exists, NotYet
<1>5. ASSUME NEW n \in Items, Delete(n) PROVE SeenThen'
  <2>1. /\ at'[n] = Gone /\ \A i \in Items : i # n => at'[i] = at[i]
        /\ UNCHANGED <<touched, last, seen>>
    BY <1>5, TypeParts DEF Delete, destVars
  <2> QED
    BY <1>1, <1>2, <2>1 DEF SeenThen, Exists, NotYet, Gone
<1>6. ASSUME NEW p \in Parents, Touch(p) PROVE SeenThen'
  <2>1. /\ touched'[p] = clock /\ \A q \in Parents : q # p => touched'[q] = touched[q]
        /\ UNCHANGED <<at, last, seen>>
    BY <1>6, TypeParts DEF Touch, destVars
  <2> QED
    BY <1>1, <1>2, <2>1 DEF SeenThen, Exists
<1>7. CASE Load
  <2>1. UNCHANGED <<at, touched>>
    BY <1>7 DEF Load, serviceVars
  <2>2. CASE connector.from = "all"
    <3>1. last' = last /\ seen' = seen
      BY <1>7, <2>2 DEF Load
    <3> QED
      BY <1>1, <2>1, <3>1 DEF SeenThen, Exists
  <2>3. CASE connector.from # "all"
    <3>1. last' = Latest /\ pc = "loading"
      BY <1>7, <2>3 DEF Load
    <3>2. seen' = (IF ByParent THEN {p \in Parents : AskedFor(p) /\ listed[p] = Latest}
                   ELSE {i \in Items : <<i, Latest>> \in rows})
                     \cup (IF Latest = low THEN seen ELSE {})
      BY <1>7, <2>3 DEF Load
    <3>3. low = last
      BY <3>1 DEF Clocked
    <3>4. ASSUME ByParent, NEW p \in seen' PROVE touched'[p] >= last'
      <4>1. CASE p \in Parents /\ listed[p] = Latest
        BY <2>1, <3>1, <4>1, TypeParts DEF Clocked
      <4>2. CASE Latest = low /\ p \in seen
        BY <2>1, <3>1, <3>3, <3>4, <4>2 DEF SeenThen
      <4> QED
        BY <3>2, <3>4, <4>1, <4>2
    <3>5. ASSUME ~ByParent, NEW i \in seen' PROVE at'[i] # NotYet /\ (Exists(i)' => at'[i] >= last')
      <4>1. CASE i \in Items /\ <<i, Latest>> \in rows
        <5>1. at[i] # NotYet
          BY <4>1 DEF Clocked
        <5>2. Exists(i) => Latest <= at[i]
          BY <4>1 DEF Clocked
        <5> QED
          BY <1>2, <2>1, <3>1, <4>1, <5>1, <5>2, NewestType DEF Exists
      <4>2. CASE Latest = low /\ i \in seen
        BY <2>1, <3>1, <3>3, <3>5, <4>2 DEF SeenThen, Exists
      <4> QED
        BY <3>2, <3>5, <4>1, <4>2
    <3> QED
      BY <1>1, <3>4, <3>5 DEF SeenThen
  <2> QED
    BY <2>2, <2>3
<1>8. CASE UNCHANGED <<at, touched, last, seen>>
  BY <1>1, <1>8 DEF SeenThen, Exists
<1> QED
  BY <1>3, <1>4, <1>5, <1>6, <1>7, <1>8
  DEF Next, Service, Run, Tick, StartRun, ReadPage, FetchFails, LoadFails,
      serviceVars, destVars, vars

-----------------------------------------------------------------------------
(* The cursor passes nothing *)

\* A source whose cursor is relied on.
Relied == Dependable(connector) /\ connector.from = "ge"

ParentAsked(p) == touched[p] > last \/ (touched[p] = last /\ p \notin seen)
ItemAsked(i) == at[i] > last \/ (at[i] = last /\ i \notin seen)

\* NothingLost at any time: a load leaves nothing behind, nor does what is written
\* while a run is under way.
Saved ==
  /\ ByParent => \A i \in Items :
       Exists(i) /\ at[i] < touched[ParentOf(i)] => table[i] = at[i] \/ ParentAsked(ParentOf(i))
  /\ ~ByParent => \A i \in Items : Exists(i) => table[i] = at[i] \/ ItemAsked(i)

LEMMA ReliedParts ==
  ASSUME TypeOK, Relied
  PROVE  /\ ReadsOn(connector) /\ connector.write = "merge" /\ connector.from = "ge"
         /\ connector.position \in {"token", "snapshot"}
         /\ connector.upto = "open" /\ ~ByParent => connector.parents = "none"
         /\ connector.position = "token" /\ connector.upto = "open" /\ ~ByParent =>
              connector.stamp = "created" \/ connector.order = "desc"
         /\ connector.position = "token" /\ connector.order = "asc" =>
              connector.stamp = "created"
         /\ connector.stamp \in {"updated", "created"}
<1>1. connector.stamp \in {"updated", "created"}
  BY ConnectorsAssumption DEF TypeOK, Feature
<1> QED
  BY <1>1, FeatureType DEF Relied, Dependable, MeetsOnce, StaysBehind, ByParent

LEMMA SavedService ==
  ASSUME TypeOK, Reading, Clocked, SeenThen, Saved, Service, connector' = connector
  PROVE  Saved'
<1>1. (ByParent' <=> ByParent) /\ Parents' = Parents
  BY DEF ByParent, Parents
<1>2. /\ \A i \in Items : at[i] \in Int /\ at[i] <= clock
      /\ \A p \in Parents : touched[p] \in Int /\ touched[p] <= clock
      /\ clock \in 1 .. MaxTime /\ last \in 0 .. MaxTime /\ last <= clock /\ MaxTime \in Nat
  BY TypeParts, BoundsAssumption DEF Gone, Clocked, Reading
<1>3. ByParent => \A i \in Items : ParentOf(i) \in Parents
  BY DEF ByParent, ParentOf, Parents
<1>4. ASSUME NEW n \in Items, Create(n) \/ Update(n) PROVE Saved'
  <2>1. /\ at'[n] = clock /\ \A i \in Items : i # n => at'[i] = at[i]
        /\ UNCHANGED <<touched, last, seen, table>>
        /\ at[n] = NotYet \/ (Exists(n) /\ at[n] # clock)
    BY <1>4, TypeParts DEF Create, Update, destVars
  <2>2. ASSUME ByParent, NEW i \in Items, Exists(i)', at'[i] < touched'[ParentOf(i)]
        PROVE  table'[i] = at'[i] \/ ParentAsked(ParentOf(i))'
    <3>1. i # n
      BY <1>2, <1>3, <2>1, <2>2
    <3> QED
      BY <2>1, <2>2, <3>1 DEF Saved, ParentAsked, Exists
  <2>3. ASSUME ~ByParent, NEW i \in Items, Exists(i)'
        PROVE  table'[i] = at'[i] \/ ItemAsked(i)'
    <3>1. CASE i # n
      BY <2>1, <2>3, <3>1 DEF Saved, ItemAsked, Exists
    <3>2. CASE i = n
      <4>1. n \in seen => at[n] # NotYet /\ (Exists(n) => at[n] >= last)
        BY <2>3 DEF SeenThen
      <4>2. n \in seen => clock > last
        BY <1>2, <2>1, <4>1
      <4> QED
        BY <1>2, <2>1, <3>2, <4>2 DEF ItemAsked
    <3> QED
      BY <3>1, <3>2
  <2> QED
    BY <1>1, <2>2, <2>3 DEF Saved
<1>5. ASSUME NEW n \in Items, Delete(n) PROVE Saved'
  <2>1. /\ at'[n] = Gone /\ \A i \in Items : i # n => at'[i] = at[i]
        /\ UNCHANGED <<touched, last, seen, table>>
    BY <1>5, TypeParts DEF Delete, destVars
  <2>2. \A i \in Items : Exists(i)' => i # n /\ Exists(i)
    BY <2>1 DEF Exists, Gone
  <2> QED
    BY <1>1, <2>1, <2>2 DEF Saved, ParentAsked, ItemAsked
<1>6. ASSUME NEW p \in Parents, Touch(p) PROVE Saved'
  <2>1. /\ touched'[p] = clock /\ \A q \in Parents : q # p => touched'[q] = touched[q]
        /\ UNCHANGED <<at, last, seen, table>> /\ touched[p] # clock /\ ByParent
    BY <1>6, TypeParts DEF Touch, destVars
  <2>2. ASSUME NEW i \in Items, Exists(i)', at'[i] < touched'[ParentOf(i)]
        PROVE  table'[i] = at'[i] \/ ParentAsked(ParentOf(i))'
    <3>1. CASE ParentOf(i) # p
      BY <1>3, <2>1, <2>2, <3>1 DEF Saved, ParentAsked, Exists
    <3>2. CASE ParentOf(i) = p
      <4>1. p \in seen => touched[p] >= last
        BY <2>1 DEF SeenThen
      <4>2. p \in seen => clock > last
        BY <1>2, <2>1, <4>1
      <4> QED
        BY <1>2, <2>1, <3>2, <4>2 DEF ParentAsked
    <3> QED
      BY <3>1, <3>2
  <2> QED
    BY <1>1, <2>1, <2>2 DEF Saved
<1>7. CASE Tick
  BY <1>1, <1>7 DEF Tick, Saved, ParentAsked, ItemAsked, Exists, destVars
<1> QED
  BY <1>4, <1>5, <1>6, <1>7 DEF Service

(* Where the range is one of parents *)

ParentRun ==
  /\ \A p \in Parents : touched[p] # listed[p] =>
       /\ touched[p] >= low /\ touched[p] >= high
       /\ \A q \in Parents : touched[p] >= listed[q]
  /\ connector.upto # "open" => \A p \in Parents : listed[p] <= high
  /\ \A p \in seen : listed[p] >= low
  /\ \A i \in Items : Exists(i) => i \in steady \/ \A p \in Parents : at[i] >= listed[p]
  /\ \A a \in rows : AskedFor(ParentOf(a[1])) /\ (a[1] \in steady => a[2] = at[a[1]])

LEMMA ParentTimes ==
  ASSUME TypeOK, Reading, Clocked
  PROVE  /\ \A p \in Parents : /\ touched[p] \in Int /\ listed[p] \in Int
                               /\ listed[p] <= touched[p] /\ touched[p] <= clock
         /\ clock \in Int /\ low \in Int /\ high \in Int /\ last \in Int
         /\ low <= clock /\ high <= clock
         /\ \A i \in Items : at[i] \in Int
BY TypeParts, BoundsAssumption DEF Clocked, Gone

LEMMA ParentRunService ==
  ASSUME TypeOK, Reading, Clocked, ParentRun, Relied, ByParent, Service, connector' = connector
  PROVE  ParentRun'
<1>1. (ByParent' <=> ByParent) /\ Parents' = Parents
      /\ connector.position # "offset"
  BY ReliedParts DEF ByParent, Parents
<1>2. UNCHANGED <<low, high, listed, rows, seen>>
  BY DEF Service, Tick, Create, Update, Delete, Touch, readVars, destVars
<1>3. \A p : AskedFor(p)' <=> AskedFor(p)
  BY <1>2 DEF AskedFor
<1>4. ASSUME UNCHANGED touched,
             \A i \in Items : (at'[i] = at[i] /\ (i \in steady' <=> i \in steady))
                              \/ (i \notin steady' /\ (at'[i] = clock \/ at'[i] = Gone))
      PROVE  ParentRun'
  <2>1. \A i \in Items : Exists(i)' => i \in steady' \/ \A p \in Parents : at'[i] >= listed[p]
    <3> SUFFICES ASSUME NEW i \in Items, Exists(i)', i \notin steady', NEW p \in Parents
                 PROVE  at'[i] >= listed[p]
      OBVIOUS
    <3>1. CASE at'[i] = at[i] /\ i \notin steady
      BY <3>1 DEF ParentRun, Exists
    <3>2. CASE at'[i] = clock
      BY <3>2, ParentTimes
    <3> QED
      BY <1>4, <3>1, <3>2 DEF Exists, Gone
  <2>2. \A a \in rows : a[1] \in steady' => a[2] = at'[a[1]]
    <3>1. \A a \in rows : a[1] \in Items
      BY TypeParts DEF Rows
    <3> QED
      BY <1>4, <3>1 DEF ParentRun
  <2> QED
    BY <1>1, <1>2, <1>3, <1>4, <2>1, <2>2 DEF ParentRun
<1>5. ASSUME NEW n \in Items, Create(n) PROVE ParentRun'
  <2>1. UNCHANGED touched /\ steady' = steady /\ at'[n] = clock
        /\ \A i \in Items : i # n => at'[i] = at[i]
    BY <1>5, TypeParts DEF Create
  <2>2. n \notin steady
    BY <1>5 DEF Create, Reading, Exists, NotYet
  <2> QED
    BY <1>4, <2>1, <2>2
<1>6. ASSUME NEW n \in Items, Update(n) \/ Delete(n) PROVE ParentRun'
  <2>1. UNCHANGED touched /\ steady' = steady \ {n} /\ (at'[n] = clock \/ at'[n] = Gone)
        /\ \A i \in Items : i # n => at'[i] = at[i]
    BY <1>1, <1>6, TypeParts DEF Update, Delete, Disturb
  <2> QED
    BY <1>4, <2>1
<1>7. ASSUME NEW n \in Parents, Touch(n) PROVE ParentRun'
  <2>1. UNCHANGED <<at, steady>> /\ touched'[n] = clock
        /\ \A p \in Parents : p # n => touched'[p] = touched[p]
    BY <1>7, TypeParts DEF Touch
  <2>2. ASSUME NEW p \in Parents, touched'[p] # listed[p]
        PROVE  /\ touched'[p] >= low /\ touched'[p] >= high
               /\ \A q \in Parents : touched'[p] >= listed[q]
    <3>1. CASE p = n
      BY <2>1, <3>1, ParentTimes
    <3>2. CASE p # n
      BY <2>1, <2>2, <3>2 DEF ParentRun
    <3> QED
      BY <3>1, <3>2
  <2> QED
    BY <1>1, <1>2, <1>3, <2>1, <2>2 DEF ParentRun, Exists
<1>8. CASE Tick
  BY <1>1, <1>2, <1>3, <1>8 DEF Tick, ParentRun, Exists
<1> QED
  BY <1>5, <1>6, <1>7, <1>8 DEF Service

LEMMA ParentRunStart ==
  ASSUME TypeOK, Reading, Clocked, SeenThen, ByParent, StartRun, connector' = connector
  PROVE  ParentRun'
<1>1. /\ low' = last /\ high' = UpperEnd /\ listed' = touched /\ rows' = {}
      /\ steady' = {i \in Items : Exists(i)} /\ UNCHANGED <<clock, at, touched, seen>>
  BY DEF StartRun, serviceVars, destVars
<1>2. Parents' = Parents
  BY DEF Parents
<1>3. connector.upto # "open" => \A p \in Parents : touched[p] <= UpperEnd
  BY ParentTimes DEF UpperEnd
<1>4. \A p \in seen : touched[p] >= last
  BY DEF SeenThen
<1> QED
  BY <1>1, <1>2, <1>3, <1>4 DEF ParentRun, Exists

LEMMA ParentRunPage ==
  ASSUME TypeOK, ParentRun, ByParent, ReadPage, connector' = connector
  PROVE  ParentRun'
<1>1. /\ UNCHANGED <<at, touched, seen, low, high, listed, steady>>
      /\ rows' \subseteq rows \cup Page
  BY DEF ReadPage, serviceVars, destVars
<1>2. \A a \in Page : AskedFor(ParentOf(a[1])) /\ a[2] = at[a[1]]
  BY PageItems DEF Standing, ByParent
<1>3. Parents' = Parents /\ \A p : AskedFor(p)' <=> AskedFor(p)
  BY <1>1 DEF Parents, AskedFor
<1>4. \A a \in rows' : AskedFor(ParentOf(a[1]))' /\ (a[1] \in steady' => a[2] = at'[a[1]])
  BY <1>1, <1>2, <1>3 DEF ParentRun
<1> QED
  BY <1>1, <1>3, <1>4 DEF ParentRun, Exists

\* What a load leaves behind, by its rows
LEMMA LoadParts ==
  ASSUME TypeOK, Load, Relied
  PROVE  /\ last' = Latest /\ UNCHANGED <<clock, at, touched>> /\ pc = "loading"
         /\ pc' = "idle"
         /\ ByParent => seen' = {p \in Parents : AskedFor(p) /\ listed[p] = Latest}
                                  \cup (IF Latest = low THEN seen ELSE {})
         /\ ~ByParent => seen' = {i \in Items : <<i, Latest>> \in rows}
                                   \cup (IF Latest = low THEN seen ELSE {})
         /\ \A i \in Items : IF i \in Read THEN <<i, table'[i]>> \in rows
                             ELSE table'[i] = table[i]
<1>1. connector.write = "merge" /\ connector.from = "ge"
  BY ReliedParts
<1>2. PICK row \in [Read -> 1 .. MaxTime] :
        /\ \A i \in Read : <<i, row[i]>> \in rows
        /\ table' = [i \in Items |->
                       IF i \in Read THEN row[i]
                       ELSE IF connector.write = "merge" THEN table[i] ELSE NotYet]
  BY DEF Load
<1>3. \A i \in Items : IF i \in Read THEN <<i, table'[i]>> \in rows
                       ELSE table'[i] = table[i]
  BY <1>1, <1>2
<1>4. last' = Latest /\ pc = "loading" /\ pc' = "idle" /\ UNCHANGED <<clock, at, touched>>
  BY <1>1 DEF Load, EndRun, serviceVars
<1>5. seen' = (IF ByParent THEN {p \in Parents : AskedFor(p) /\ listed[p] = Latest}
               ELSE {i \in Items : <<i, Latest>> \in rows})
                 \cup (IF Latest = low THEN seen ELSE {})
  BY <1>1 DEF Load
<1> QED
  BY <1>3, <1>4, <1>5

LEMMA ParentRunLoad ==
  ASSUME TypeOK, Reading, Clocked, SeenThen, Saved, ParentRun, Relied, ByParent, Load,
         connector' = connector
  PROVE  Saved'
<1>1. (ByParent' <=> ByParent) /\ \A i \in Items : ParentOf(i) \in Parents
  BY DEF ByParent, ParentOf, Parents
<1>2. low = last /\ (connector.upto # "open" => low <= high)
  BY LoadParts DEF Clocked
<1> SUFFICES ASSUME NEW i \in Items, Exists(i), at[i] < touched[ParentOf(i)]
             PROVE  table'[i] = at[i] \/ ParentAsked(ParentOf(i))'
  BY <1>1, LoadParts DEF Saved, Exists
<1> DEFINE p == ParentOf(i)
<1>3. /\ p \in Parents /\ touched[p] \in Int /\ listed[p] \in Int /\ at[i] \in Int
      /\ listed[p] <= touched[p] /\ Latest \in Int /\ low \in Int /\ high \in Int
      /\ Newest \in Int
  BY <1>1, ParentTimes, NewestType, BoundsAssumption
<1>4. ParentAsked(p)' <=> touched[p] > Latest \/ (touched[p] = Latest /\ p \notin seen')
  BY LoadParts DEF ParentAsked
<1>5. seen' = {q \in Parents : AskedFor(q) /\ listed[q] = Latest}
                \cup (IF Latest = low THEN seen ELSE {})
  BY LoadParts
<1>6. /\ Newest = low \/ \E q \in Parents : AskedFor(q) /\ listed[q] = Newest
      /\ \A q \in Parents : AskedFor(q) => listed[q] <= Newest
  BY NewestType
<1>7. Latest = Newest \/ Latest = high
  BY DEF Latest
<1>8. CASE touched[p] # listed[p]
  \* the parent was changed during the run: the cursor is not past that
  <2>1. touched[p] >= low /\ touched[p] >= high /\ \A q \in Parents : touched[p] >= listed[q]
    BY <1>3, <1>8 DEF ParentRun
  <2>2. touched[p] >= Latest
    BY <1>6, <1>7, <2>1
  <2>3. touched[p] = Latest => p \notin seen'
    <3> SUFFICES ASSUME touched[p] = Latest, p \in seen' PROVE FALSE
      OBVIOUS
    <3>1. listed[p] < Latest
      BY <1>3, <1>8
    <3>2. Latest = low /\ p \in seen
      BY <1>3, <1>5, <3>1
    <3>3. listed[p] >= low
      BY <3>2 DEF ParentRun
    <3> QED
      BY <1>3, <3>1, <3>2, <3>3
  <2> QED
    BY <1>3, <1>4, <2>2, <2>3
<1>9. CASE touched[p] = listed[p] /\ AskedFor(p)
  \* the items of the parent were read
  <2>1. i \in steady
    BY <1>3, <1>9 DEF ParentRun
  <2>2. InRange(at[i])
    <3>1. connector.upto # "open" => at[i] < high
      BY <1>3, <1>9 DEF ParentRun
    <3>2. Within(at[i])
      BY <1>3, <3>1, FeatureType DEF Within
    <3> QED
      BY <1>3, <3>2, FixedRange, ReliedParts
  <2>3. Got(i)
    BY <1>9, <2>1, <2>2, LoadParts, ReliedParts DEF Reading, Due
  <2>4. i \in Read
    BY <2>3 DEF Got, Repeated
  <2>5. <<i, table'[i]>> \in rows
    BY <2>4, LoadParts
  <2>6. <<i, table'[i]>>[2] = at[<<i, table'[i]>>[1]]
    BY <2>1, <2>5 DEF ParentRun
  <2> QED
    BY <2>6
<1>10. CASE touched[p] = listed[p] /\ ~AskedFor(p)
  \* the table has them from an earlier run
  <2>1. table[i] = at[i]
    BY <1>2, <1>3, <1>10 DEF Saved, ParentAsked, AskedFor
  <2>2. i \notin Read
    BY <1>10 DEF ParentRun, Read
  <2> QED
    BY <2>1, <2>2, LoadParts
<1> QED
  BY <1>8, <1>9, <1>10

(* Where the range is one of items *)

\* What was read of the collection comes before what follows.
InOrder ==
  /\ connector.position = "snapshot" => pos.after = {}
  /\ \A a \in rows :
       /\ connector.parents # "none" => ParentOf(a[1]) <= parent
       /\ connector.parents = "none" \/ ParentOf(a[1]) = parent =>
            pos.after # {} /\ \A b \in pos.after : a = b \/ Before(a, b)

\* An item that the run does not get to any more is newer than the cursor it leaves.
Behind(i) ==
  IF connector.upto # "open" THEN at[i] >= high
  ELSE /\ \A a \in rows : a[2] <= at[i]
       /\ pc = "reading" =>
            /\ pos.after # {}
            /\ \/ connector.order = "desc" /\ \A b \in pos.after : b[2] <= at[i]
               \/ /\ connector.order = "newest" /\ connector.stamp = "created"
                  /\ \A b \in pos.after : b[1] < i

Safe(i) ==
  \/ Row(i) \in rows
  \/ Behind(i)
  \/ i \notin Read /\ (table[i] = at[i] \/ (pc = "reading" /\ ToCome(i)))

ItemRun ==
  /\ pc = "reading" => InOrder
  /\ \A a, b \in rows : a[1] = b[1] => a = b
  /\ \A i \in Items : Exists(i) => Safe(i)

LEMMA ItemTimes ==
  ASSUME TypeOK, Reading, Clocked
  PROVE  /\ \A i \in Items : at[i] \in Int /\ at[i] <= clock /\ i \in Int
         /\ clock \in Int /\ low \in Int /\ high \in Int /\ last \in Int
         /\ clock >= 1 /\ low <= clock /\ high <= clock
         /\ rows \cup pos.after \subseteq Rows /\ Rows \subseteq Timed
         /\ \A a \in rows \cup pos.after : /\ a[1] \in Items /\ a[1] \in Int /\ a[2] \in Int
                                           /\ a[2] <= clock /\ at[a[1]] # NotYet
<1>1. /\ \A i \in Items : at[i] \in Int /\ at[i] <= clock /\ i \in Int
      /\ clock \in Int /\ low \in Int /\ high \in Int /\ last \in Int
      /\ clock >= 1 /\ low <= clock /\ high <= clock
  BY TypeParts, BoundsAssumption DEF Clocked, Gone, Reading
<1>2. rows \cup pos.after \subseteq Rows /\ Rows \subseteq Timed
  BY TypeParts, BoundsAssumption DEF Rows, Timed
<1>3. \A a \in rows \cup pos.after : a[1] \in Items /\ a[2] \in Int
  BY <1>2 DEF Rows
<1> QED
  BY <1>1, <1>2, <1>3 DEF Clocked

\* An item that is created or changed during the run
LEMMA NewSafe ==
  ASSUME TypeOK, RequestsAsDescribed', Reading, Clocked, Creation, ItemRun, Relied, ~ByParent,
         UNCHANGED <<connector, clock, low, high, listed, seen, parent, pos, rows, pc, last>>,
         pc \in {"reading", "loading"},
         NEW n \in Items, at'[n] = clock,
         \A i \in Items : i # n => at'[i] = at[i],
         \/ at[n] = NotYet
         \/ Exists(n) /\ connector.stamp = "updated"
  PROVE  Safe(n)'
<1>1. CASE connector.upto # "open"
  <2>1. Behind(n)'
    BY <1>1, ItemTimes DEF Behind
  <2> QED
    BY <2>1 DEF Safe
<1>2. CASE connector.upto = "open" /\ pc = "loading"
  <2>1. Behind(n)'
    BY <1>2, ItemTimes DEF Behind
  <2> QED
    BY <2>1 DEF Safe
<1>3. CASE connector.upto = "open" /\ pc = "reading" /\ pos.after = {}
  <2>1. connector.parents = "none" /\ connector.from = "ge" /\ connector.position \in {"token", "snapshot"}
    BY <1>3, ReliedParts
  <2>2. rows = {}
    BY <1>3, <2>1 DEF ItemRun, InOrder
  <2>3. InRange(at[n])'
    <3>1. Within(clock)'
      BY <1>3, <2>1, ItemTimes DEF Within, Clocked
    <3>2. PICK t \in Int : t = clock
      BY ItemTimes
    <3>3. InRange(t)'
      BY <2>1, <3>1, <3>2 DEF RequestsAsDescribed, Within
    <3> QED
      BY <3>2, <3>3 DEF InRange
  <2>4. Standing(n)'
    <3>1. Exists(n)'
      BY ItemTimes DEF Exists
    <3> QED
      BY <2>1, <2>3, <3>1 DEF Standing, ByParent
  <2>5. (Row(n) \in Collection)'
    BY <2>4 DEF RequestsAsDescribed
  <2>6. (Row(n) \in Rest)'
    BY <1>3, <2>1, <2>5 DEF Rest
  <2>7. n \notin Read'
    BY <2>2 DEF Read
  <2> QED
    BY <1>3, <2>6, <2>7 DEF Safe, ToCome
<1>4. CASE connector.upto = "open" /\ pc = "reading" /\ pos.after # {}
  <2>1. /\ connector.parents = "none" /\ connector.from = "ge" /\ connector.position = "token"
        /\ connector.stamp = "created" \/ connector.order = "desc"
    BY <1>4, ReliedParts DEF ItemRun, InOrder
  <2>2. CASE connector.order = "desc"
    <3>1. Behind(n)'
      BY <1>4, <2>2, ItemTimes DEF Behind
    <3> QED
      BY <3>1 DEF Safe
  <2>3. CASE connector.order # "desc"
    <3>1. connector.stamp = "created" /\ at[n] = NotYet
      BY <2>1, <2>3
    <3>2. ASSUME NEW b \in pos.after PROVE b[1] < n /\ b[2] <= clock
      <4>1. b[1] \in Items /\ b[1] \in Int /\ n \in Int /\ at[b[1]] # NotYet /\ b[2] <= clock
        BY ItemTimes
      <4>2. ~(n < b[1]) /\ b[1] # n
        BY <3>1, <4>1 DEF Creation
      <4> QED
        BY <4>1, <4>2
    <3>3. CASE connector.order = "newest"
      <4>1. Behind(n)'
        BY <1>4, <3>1, <3>2, <3>3, ItemTimes DEF Behind
      <4> QED
        BY <4>1 DEF Safe
    <3>4. CASE connector.order \in {"key", "asc"}
      <4>1. InRange(at[n])'
        <5>1. Within(clock)'
          BY <1>4, <2>1, ItemTimes DEF Within, Clocked
        <5>2. PICK t \in Int : t = clock
          BY ItemTimes
        <5>3. InRange(t)'
          BY <2>1, <5>1, <5>2 DEF RequestsAsDescribed, Within
        <5> QED
          BY <5>2, <5>3 DEF InRange
      <4>2. Standing(n)'
        <5>1. Exists(n)'
          BY ItemTimes DEF Exists
        <5> QED
          BY <2>1, <4>1, <5>1 DEF Standing, ByParent
      <4>3. (Row(n) \in Collection)'
        BY <4>2 DEF RequestsAsDescribed
      <4>4. \A b \in pos'.after : Before(b, Row(n))'
        <5> SUFFICES ASSUME NEW b \in pos.after PROVE Before(b, Row(n))'
          OBVIOUS
        <5>1. b[1] < n /\ b[2] <= clock /\ b[2] \in Int /\ clock \in Int
          BY <3>2, ItemTimes
        <5>2. CASE connector.order = "key"
          BY <5>1, <5>2 DEF Before, Row
        <5>3. CASE connector.order = "asc"
          <6>1. Before(b, Row(n))' <=> b[2] < clock \/ (b[2] = clock /\ b[1] < n)
            BY <5>3 DEF Before, Row
          <6> QED
            BY <5>1, <6>1
        <5> QED
          BY <3>4, <5>2, <5>3
      <4>5. (Row(n) \in Rest)'
        BY <2>1, <4>3, <4>4 DEF Rest
      <4>6. n \notin Read'
        BY <3>1, ItemTimes DEF Read
      <4> QED
        BY <1>4, <4>5, <4>6 DEF Safe, ToCome
    <3> QED
      BY <2>3, <3>3, <3>4, FeatureType
  <2> QED
    BY <2>2, <2>3
<1> QED
  BY <1>1, <1>2, <1>3, <1>4

\* An item that is left alone
LEMMA OldSafe ==
  ASSUME TypeOK, RequestsAsDescribed', Reading, Clocked, Relied, ~ByParent,
         UNCHANGED <<connector, low, high, listed, seen, parent, pos, rows, pc, table>>,
         NEW i \in Items, at'[i] = at[i], Safe(i)
  PROVE  Safe(i)'
<1>0. UNCHANGED <<low, high, listed, seen, parent, pos, rows, pc, table>>
  OBVIOUS
<1>1. connector.from # "live" /\ connector.position # "time" /\ connector.position # "offset"
  BY ReliedParts
<1>2. Row(i)' = Row(i) /\ (Standing(i)' <=> Standing(i))
  BY <1>0, <1>1, SameItem
<1>3. CASE Row(i) \in rows
  BY <1>0, <1>2, <1>3 DEF Safe
<1>4. CASE Behind(i)
  <2>1. Behind(i)'
    BY <1>0, <1>4 DEF Behind
  <2> QED
    BY <2>1 DEF Safe
<1>5. CASE i \notin Read /\ table[i] = at[i]
  BY <1>0, <1>5 DEF Safe, Read
<1>6. CASE i \notin Read /\ pc = "reading" /\ ToCome(i)
  <2>1. CASE connector.parents # "none" /\ ParentOf(i) > parent
    BY <1>0, <1>6, <2>1 DEF Safe, Read, ToCome
  <2>2. CASE Row(i) \in Rest
    <3>1. Row(i) \in Collection
      BY <2>2, PageRows
    <3>2. Standing(Row(i)[1])
      BY <3>1, CollectionRows
    <3>3. Standing(i)'
      BY <1>2, <3>2 DEF Row
    <3>4. (Row(i) \in Rest)'
      BY <1>0, <1>1, <2>2, <3>3, RestStays
    <3> QED
      BY <1>0, <1>6, <3>4 DEF Safe, Read, ToCome
  <2> QED
    BY <1>6, <2>1, <2>2 DEF ToCome
<1> QED
  BY <1>3, <1>4, <1>5, <1>6 DEF Safe

LEMMA ItemRunService ==
  ASSUME TypeOK, RequestsAsDescribed', Reading, Clocked, Creation, ItemRun, Relied, ~ByParent,
         pc \in {"reading", "loading"}, Service, connector' = connector
  PROVE  ItemRun'
<1>1. UNCHANGED <<low, high, listed, seen, parent, pos, rows, pc, table, last>>
  BY DEF Service, Tick, Create, Update, Delete, Touch, readVars, destVars
<1>2. (pc = "reading" => InOrder)' /\ (\A a, b \in rows : a[1] = b[1] => a = b)'
  BY <1>1 DEF ItemRun, InOrder, Before, ParentOf
<1>3. ASSUME NEW n \in Items, Create(n) \/ Update(n) PROVE ItemRun'
  <2>1. /\ at'[n] = clock /\ \A i \in Items : i # n => at'[i] = at[i]
        /\ UNCHANGED clock
        /\ at[n] = NotYet \/ (Exists(n) /\ connector.stamp = "updated")
    BY <1>3, TypeParts DEF Create, Update
  <2>2. Safe(n)'
    BY <1>1, <2>1, NewSafe
  <2>3. ASSUME NEW i \in Items, i # n, Exists(i)' PROVE Safe(i)'
    <3>1. at'[i] = at[i] /\ Safe(i)
      BY <2>1, <2>3 DEF ItemRun, Exists
    <3> QED
      BY <1>1, <3>1, OldSafe
  <2> QED
    BY <1>2, <2>2, <2>3 DEF ItemRun
<1>4. ASSUME NEW n \in Items, Delete(n) PROVE ItemRun'
  <2>1. at'[n] = Gone /\ \A i \in Items : i # n => at'[i] = at[i]
    BY <1>4, TypeParts DEF Delete
  <2>2. ASSUME NEW i \in Items, Exists(i)' PROVE Safe(i)'
    <3>1. at'[i] = at[i] /\ Safe(i)
      BY <2>1, <2>2 DEF ItemRun, Exists, Gone
    <3> QED
      BY <1>1, <3>1, OldSafe
  <2> QED
    BY <1>2, <2>2 DEF ItemRun
<1>5. CASE UNCHANGED at
  <2>1. ASSUME NEW i \in Items, Exists(i)' PROVE Safe(i)'
    <3>1. at'[i] = at[i] /\ Safe(i)
      BY <1>5, <2>1 DEF ItemRun, Exists
    <3> QED
      BY <1>1, <3>1, OldSafe
  <2> QED
    BY <1>2, <2>1 DEF ItemRun
<1> QED
  BY <1>3, <1>4, <1>5 DEF Service, Tick, Touch

LEMMA ItemRunStart ==
  ASSUME TypeOK, RequestsAsDescribed', Reading, Clocked, Saved, Relied, ~ByParent, StartRun,
         connector' = connector
  PROVE  ItemRun'
<1>1. /\ low' = last /\ high' = UpperEnd /\ rows' = {} /\ pos' = Start /\ Start.after = {}
      /\ UNCHANGED <<clock, at, touched, seen, table, last>> /\ pc' = "reading"
  BY DEF StartRun, serviceVars, destVars, Start
<1>2. (pc = "reading" => InOrder)' /\ (\A a, b \in rows : a[1] = b[1] => a = b)'
  BY <1>1 DEF InOrder
<1>3. ReadsOn(connector) /\ connector.from = "ge"
  BY ReliedParts
<1> SUFFICES ASSUME NEW i \in Items, Exists(i) PROVE Safe(i)'
  BY <1>1, <1>2 DEF ItemRun, Exists
<1>4. i \notin Read'
  BY <1>1 DEF Read
<1>5. CASE table[i] = at[i]
  BY <1>1, <1>4, <1>5 DEF Safe
<1>6. CASE table[i] # at[i]
  <2>1. at[i] >= last
    BY <1>6, ItemTimes DEF Saved, ItemAsked
  <2>2. CASE connector.upto # "open" /\ at[i] >= UpperEnd
    <3>1. Behind(i)'
      BY <1>1, <2>2 DEF Behind
    <3> QED
      BY <3>1 DEF Safe
  <2>3. CASE ~(connector.upto # "open" /\ at[i] >= UpperEnd)
    <3>1. UpperEnd \in Int /\ (connector.upto # "open" => at[i] < UpperEnd)
      BY <2>3, ItemTimes DEF UpperEnd
    <3>2. Within(at[i])'
      BY <1>1, <1>3, <2>1, <3>1, ItemTimes DEF Within
    <3>3. InRange(at[i])'
      <4>1. PICK t \in Int : t = at[i]
        BY ItemTimes
      <4>2. Within(t)'
        BY <1>1, <3>2, <4>1 DEF Within
      <4>3. InRange(t)'
        BY <1>3, <4>2 DEF RequestsAsDescribed
      <4> QED
        BY <1>1, <4>1, <4>3 DEF InRange
    <3>4. Due(i)'
      BY <1>1, <3>3 DEF Due, Exists, ByParent
    <3>5. ToCome(i)'
      BY <1>3, <3>4, StartStep
    <3> QED
      BY <1>1, <1>4, <3>5 DEF Safe
  <2> QED
    BY <2>2, <2>3
<1> QED
  BY <1>5, <1>6

LEMMA PageFollows ==
  ASSUME TypeOK, Relied
  PROVE  \A a \in Page : /\ connector.parents = "none" \/ ParentOf(a[1]) = parent
                         /\ connector.position = "token" =>
                              \A b \in pos.after : Before(b, a)
<1>1. \A a \in Page : connector.parents = "none" \/ ParentOf(a[1]) = parent
  BY PageItems DEF Standing
<1>2. connector.position = "token" =>
        \A a \in Page : \A b \in pos.after : Before(b, a)
  BY PageRows DEF Rest
<1> QED
  BY <1>1, <1>2

\* No item is met a second time in another place.
LEMMA MetOnce ==
  ASSUME TypeOK, Reading, Clocked, InOrder, Relied, ~ByParent,
         NEW a \in rows, NEW c \in Page, a[1] = c[1]
  PROVE  a = c
<1>1. pos.after # {} /\ \A b \in pos.after : a = b \/ Before(a, b)
  BY PageFollows DEF InOrder
<1>2. connector.position = "token"
  BY <1>1, ReliedParts DEF InOrder
<1>3. PICK b \in pos.after : a = b \/ Before(a, b)
  BY <1>1
<1>4. Before(b, c)
  BY <1>2, PageFollows
<1>5. a \in Timed /\ b \in Timed /\ c \in Timed /\ Ordered
  BY ItemTimes, PageRows, CollectionRows
<1>6. Before(a, c)
  BY <1>3, <1>4, <1>5, BeforeOrder
<1>7. a[2] \in Int /\ c[2] \in Int /\ c[1] \in Int
  <2>1. a[1] \in Items /\ c[1] \in Items /\ a[2] \in Int /\ c[2] \in Int
    BY <1>5 DEF Timed
  <2>2. Items \subseteq Int
    BY BoundsAssumption
  <2> QED
    BY <2>1, <2>2
<1>8. a[2] <= c[2] /\ (connector.stamp = "created" => a[2] = c[2])
  <2>1. c[2] = at[c[1]] /\ Exists(c[1]) /\ c[1] \in Items
    BY PageItems
  <2> QED
    BY <2>1 DEF Clocked
<1>9. a[2] = c[2] => a = c
  BY <1>5 DEF Timed
<1>10. CASE connector.order \in {"key", "newest"}
  <2>1. a[1] < c[1] \/ a[1] > c[1]
    BY <1>6, <1>10 DEF Before
  <2> QED
    BY <1>7, <2>1
<1>11. CASE connector.order = "asc"
  BY <1>2, <1>8, <1>9, <1>11, ReliedParts
<1>12. CASE connector.order = "desc"
  <2>1. a[2] > c[2] \/ (a[2] = c[2] /\ a[1] < c[1])
    BY <1>6, <1>12 DEF Before
  <2> QED
    BY <1>7, <1>8, <1>9, <2>1
<1> QED
  BY <1>5, <1>10, <1>11, <1>12 DEF Ordered

LEMMA InOrderPage ==
  ASSUME TypeOK, Reading, Clocked, InOrder, Relied, ~ByParent, ReadPage, connector' = connector,
         pc' = "reading"
  PROVE  InOrder'
<1>1. rows' \subseteq rows \cup Page /\ pc = "reading" /\ GoOn
  BY DEF ReadPage
<1>2. connector.parents # "none" => \A a \in rows' : ParentOf(a[1]) <= parent
  <2>1. parent \in Int
    BY TypeParts DEF Parents
  <2> QED
    BY <1>1, <2>1, PageFollows DEF InOrder
<1>3. Start.after = {} /\ connector.parents # "reused"
  BY ReliedParts, ReadsOnParts DEF Start
<1>4. CASE EndOfPages
  <2>1. parent + 1 \in Parents
    BY <1>1, <1>4 DEF EndOfPages
  <2>2. parent' = parent + 1 /\ pos' = Start /\ parent \in Int
    BY <1>3, <1>4, <2>1, TypeParts DEF EndOfPages, Parents
  <2>3. connector.parents # "none"
    BY <2>1, TypeParts DEF Parents
  <2>4. \A a \in rows' : ParentOf(a[1]) \in Int /\ ParentOf(a[1]) <= parent
    BY <1>2, <2>3 DEF ParentOf
  <2>5. \A a \in rows' : ParentOf(a[1]) <= parent' /\ ParentOf(a[1]) # parent'
    BY <2>2, <2>4
  <2> QED
    BY <1>3, <2>2, <2>3, <2>5 DEF InOrder, ParentOf
<1>5. CASE ~LastPage /\ pos' = Continued /\ parent' = parent
  <2>1. connector.position = "token"
    BY <1>5, ReliedParts DEF LastPage
  <2>2. CASE Page = {}
    <3>1. pos' = pos /\ rows' \subseteq rows
      BY <1>1, <1>5, <2>1, <2>2, ContinuedPosition
    <3> QED
      BY <1>5, <3>1 DEF InOrder, Before, ParentOf
  <2>3. CASE Page # {}
    <3> DEFINE l == LastOf(Page)
    <3>1. pos'.after = {l}
      BY <1>5, <2>1, <2>3, ContinuedPosition
    <3>2. l \in Page /\ \A b \in Page : b = l \/ Before(b, l)
      BY <2>3, PageRows, CollectionRows, LastExists
    <3> HIDE DEF l
    <3>3. ASSUME NEW a \in rows', connector.parents = "none" \/ ParentOf(a[1]) = parent
          PROVE  a = l \/ Before(a, l)
      <4>1. CASE a \in Page
        BY <3>2, <4>1
      <4>2. CASE a \in rows
        <5>1. pos.after # {} /\ \A b \in pos.after : a = b \/ Before(a, b)
          BY <3>3, <4>2 DEF InOrder
        <5>2. PICK b \in pos.after : a = b \/ Before(a, b)
          BY <5>1
        <5>3. Before(b, l)
          BY <2>1, <3>2, PageFollows
        <5>4. a \in Timed /\ b \in Timed /\ l \in Timed /\ Ordered
          BY <3>2, <4>2, ItemTimes, PageRows, CollectionRows
        <5> QED
          BY <5>2, <5>3, <5>4, BeforeOrder
      <4> QED
        BY <1>1, <4>1, <4>2
    <3>4. \A a, b : Before(a, b)' <=> Before(a, b)
      BY DEF Before
    <3> QED
      BY <1>2, <1>5, <2>1, <3>1, <3>3, <3>4 DEF InOrder, ParentOf
  <2> QED
    BY <2>2, <2>3
<1> QED
  BY <1>1, <1>4, <1>5 DEF GoOn

\* An item that is behind the run stays behind it.
LEMMA BehindPage ==
  ASSUME TypeOK, Reading, Clocked, Creation, InOrder, Relied, ~ByParent, ReadPage,
         connector' = connector, NEW i \in Items, Exists(i), Behind(i)
  PROVE  Behind(i)'
<1>1. /\ rows' \subseteq rows \cup Page /\ pc = "reading" /\ GoOn /\ UNCHANGED <<at, high>>
  BY DEF ReadPage, serviceVars, destVars
<1>2. CASE connector.upto # "open"
  BY <1>1, <1>2 DEF Behind
<1>3. CASE connector.upto = "open"
  <2>1. /\ \A a \in rows : a[2] <= at[i]
        /\ pos.after # {}
        /\ \/ connector.order = "desc" /\ \A b \in pos.after : b[2] <= at[i]
           \/ /\ connector.order = "newest" /\ connector.stamp = "created"
              /\ \A b \in pos.after : b[1] < i
    BY <1>1, <1>3 DEF Behind
  <2>2. connector.parents = "none" /\ connector.position = "token"
    BY <1>3, <2>1, ReliedParts DEF InOrder
  <2>3. PICK b \in pos.after : TRUE
    BY <2>1
  <2>4. \A a \in Page : /\ Before(b, a) /\ a[2] = at[a[1]] /\ Exists(a[1])
                        /\ a[1] \in Items /\ a[1] \in Int /\ a[2] \in Int
    BY <2>2, PageFollows, PageItems, BoundsAssumption
  <2>5. b[1] \in Int /\ b[2] \in Int /\ i \in Int /\ at[i] \in Int
    BY ItemTimes
  <2>6. connector.order = "desc" => \A a \in Page : a[2] <= at[i]
    <3> SUFFICES ASSUME connector.order = "desc", NEW a \in Page PROVE a[2] <= at[i]
      OBVIOUS
    <3>1. b[2] > a[2] \/ (b[2] = a[2] /\ b[1] < a[1])
      BY <2>4 DEF Before
    <3>2. b[2] <= at[i]
      BY <2>1
    <3> QED
      BY <2>4, <2>5, <3>1, <3>2
  <2>7. connector.order = "newest" => \A a \in Page : a[1] < i /\ a[2] <= at[i]
    <3> SUFFICES ASSUME connector.order = "newest", NEW a \in Page
                 PROVE  a[1] < i /\ a[2] <= at[i]
      OBVIOUS
    <3>1. b[1] > a[1]
      BY <2>4 DEF Before
    <3>2. b[1] < i /\ connector.stamp = "created"
      BY <2>1
    <3>3. a[1] < i
      BY <2>4, <2>5, <3>1, <3>2
    <3> QED
      BY <2>4, <3>2, <3>3 DEF Creation
  <2>8. \A a \in rows' : a[2] <= at[i]
    BY <1>1, <2>1, <2>6, <2>7
  <2>9. ASSUME pc' = "reading"
        PROVE  pos'.after # {} /\ pos'.after \subseteq pos.after \cup Page
    <3>1. parent + 1 \notin Parents
      BY <2>2, TypeParts DEF Parents
    <3>2. ~LastPage /\ pos' = Continued
      BY <1>1, <2>9, <3>1 DEF GoOn, EndOfPages
    <3>3. pos'.after # {}
      <4>1. CASE Page = {}
        BY <2>1, <2>2, <3>2, <4>1, ContinuedPosition
      <4>2. CASE Page # {}
        BY <2>2, <3>2, <4>2, ContinuedPosition
      <4> QED
        BY <4>1, <4>2
    <3> QED
      BY <1>1, <3>3, NextAfter
  <2>10. ASSUME pc' = "reading"
         PROVE  \/ connector.order = "desc" /\ \A c \in pos'.after : c[2] <= at[i]
                \/ /\ connector.order = "newest" /\ connector.stamp = "created"
                   /\ \A c \in pos'.after : c[1] < i
    BY <2>1, <2>6, <2>7, <2>9, <2>10
  <2> QED
    BY <1>1, <1>3, <2>8, <2>9, <2>10 DEF Behind
<1> QED
  BY <1>2, <1>3

LEMMA ItemRunPage ==
  ASSUME TypeOK, RequestsAsDescribed', Reading, Clocked, Creation, Saved, ItemRun, Relied,
         ~ByParent, ReadPage, connector' = connector
  PROVE  ItemRun'
<1>1. /\ pc = "reading" /\ InOrder /\ UNCHANGED <<at, table, high, low, seen, last>>
      /\ rows' = rows \cup {a \in Page : InRange(a[2]) /\ ~Repeated(a[1], a[2])}
  BY DEF ReadPage, serviceVars, destVars, ItemRun
<1>2. (pc = "reading" => InOrder)'
  BY <1>1, InOrderPage
<1>3. \A a, c \in rows' : a[1] = c[1] => a = c
  <2> SUFFICES ASSUME NEW a \in rows', NEW c \in rows', a[1] = c[1] PROVE a = c
    OBVIOUS
  <2>1. CASE a \in rows /\ c \in rows
    BY <2>1 DEF ItemRun
  <2>2. CASE a \in rows /\ c \in Page
    BY <1>1, <2>2, MetOnce
  <2>3. CASE a \in Page /\ c \in rows
    BY <1>1, <2>3, MetOnce
  <2>4. CASE a \in Page /\ c \in Page
    <3>1. a = Row(a[1]) /\ c = Row(c[1])
      BY <2>4, PageItems
    <3> QED
      BY <3>1
  <2> QED
    BY <1>1, <2>1, <2>2, <2>3, <2>4
<1>4. ASSUME NEW i \in Items, Exists(i) PROVE Safe(i)'
  <2>1. Row(i)' = Row(i) /\ Safe(i)
    BY <1>1, <1>4 DEF Row, ItemRun
  <2>2. CASE Row(i) \in rows'
    BY <2>1, <2>2 DEF Safe
  <2>3. CASE Behind(i)
    BY <1>1, <1>4, <2>3, BehindPage DEF Safe
  <2>4. ASSUME Row(i) \notin rows', i \notin Read PROVE i \notin Read'
    <3>1. \A a \in Page : a[1] = i => a = Row(i)
      BY PageItems
    <3>2. \A a \in rows : a[1] # i
      BY <2>4 DEF Read
    <3>3. \A a \in rows' : a[1] # i
      BY <1>1, <2>4, <3>1, <3>2
    <3> QED
      BY <3>3 DEF Read
  <2>5. CASE i \notin Read /\ table[i] = at[i] /\ Row(i) \notin rows'
    BY <1>1, <2>4, <2>5 DEF Safe
  <2>6. CASE i \notin Read /\ table[i] # at[i] /\ ToCome(i) /\ Row(i) \notin rows' /\ ~Behind(i)
    <3>1. at[i] > last \/ (at[i] = last /\ i \notin seen)
      BY <1>4, <2>6 DEF Saved, ItemAsked
    <3>2. low = last /\ at[i] \in Int /\ low \in Int
      BY <1>1, ItemTimes DEF Clocked
    <3>3. ~Repeated(i, at[i])
      BY <3>1, <3>2 DEF Repeated
    <3>4. Due(i)
      <4>1. connector.upto # "open" => at[i] < high
        BY <2>6, ItemTimes DEF Behind
      <4>2. Within(at[i])
        BY <3>1, <3>2, <4>1, ItemTimes, ReliedParts DEF Within
      <4>3. InRange(at[i])
        BY <3>2, <4>2, FixedRange, ReliedParts
      <4> QED
        BY <1>4, <4>3 DEF Due
    <3>5. Row(i) \notin Page
      BY <1>1, <2>6, <3>3, <3>4 DEF Row, Due
    <3>6. pc' = "reading" /\ ToCome(i)'
      BY <2>6, <3>4, <3>5, PageStep, ReliedParts
    <3> QED
      BY <2>4, <2>6, <3>6 DEF Safe
  <2> QED
    BY <1>1, <2>1, <2>2, <2>3, <2>5, <2>6 DEF Safe
<1> QED
  BY <1>1, <1>2, <1>3, <1>4 DEF ItemRun, Exists

LEMMA ItemRunLoad ==
  ASSUME TypeOK, Reading, Clocked, SeenThen, Saved, ItemRun, Relied, ~ByParent, Load,
         connector' = connector
  PROVE  Saved'
<1>1. /\ low = last /\ pc = "loading" /\ last' = Latest /\ UNCHANGED at
      /\ seen' = {i \in Items : <<i, Latest>> \in rows} \cup (IF Latest = low THEN seen ELSE {})
      /\ \A i \in Items : IF i \in Read THEN <<i, table'[i]>> \in rows
                          ELSE table'[i] = table[i]
  BY LoadParts DEF Clocked
<1>2. ~ByParent'
  BY DEF ByParent
<1> SUFFICES ASSUME NEW i \in Items, Exists(i) PROVE table'[i] = at[i] \/ ItemAsked(i)'
  BY <1>1, <1>2 DEF Saved, Exists
<1>3. /\ at[i] \in Int /\ low \in Int /\ high \in Int /\ Newest \in Int /\ Latest \in Int
      /\ MaxTime \in Nat
  BY ItemTimes, NewestType, BoundsAssumption
<1>4. ItemAsked(i)' <=> at[i] > Latest \/ (at[i] = Latest /\ i \notin seen')
  BY <1>1 DEF ItemAsked
<1>5. \A t : <<i, t>> \in rows => t \in Int /\ low <= t /\ t <= at[i]
  <2> SUFFICES ASSUME NEW t, <<i, t>> \in rows PROVE t \in Int /\ low <= t /\ t <= at[i]
    OBVIOUS
  <2>1. <<i, t>>[1] = i /\ <<i, t>>[2] = t
    OBVIOUS
  <2>2. t \in Int
    BY <2>1, ItemTimes
  <2>3. Within(t) /\ t <= at[i]
    <3>1. Within(<<i, t>>[2])
      BY ReliedParts DEF Clocked
    <3>2. <<i, t>>[2] <= at[<<i, t>>[1]]
      BY <2>1 DEF Clocked
    <3> QED
      BY <2>1, <3>1, <3>2
  <2> QED
    BY <1>3, <2>2, <2>3, ReliedParts DEF Within
<1>6. CASE Row(i) \in rows
  <2>1. i \in Read
    BY <1>6 DEF Read, Row
  <2>2. <<i, table'[i]>> \in rows
    BY <1>1, <2>1
  <2>3. <<i, table'[i]>> = Row(i)
    BY <1>6, <2>2 DEF ItemRun, Row
  <2> QED
    BY <2>3 DEF Row
<1>7. CASE i \notin Read /\ table[i] = at[i]
  BY <1>1, <1>7
<1>8. CASE Row(i) \notin rows /\ ~(i \notin Read /\ table[i] = at[i])
  <2>1. Behind(i)
    BY <1>1, <1>8 DEF ItemRun, Safe
  <2>2. i \in Read => at[i] > low
    <3> SUFFICES ASSUME i \in Read PROVE at[i] > low
      OBVIOUS
    <3>1. PICK a \in rows : a[1] = i
      BY DEF Read
    <3>2. a = <<i, a[2]>>
      BY <3>1, ItemTimes DEF Timed
    <3>3. low <= a[2] /\ a[2] <= at[i] /\ a[2] \in Int
      BY <1>5, <3>2
    <3>4. a[2] # at[i]
      BY <1>8, <3>1, <3>2 DEF Row
    <3> QED
      BY <1>3, <3>3, <3>4
  <2>3. at[i] > low \/ (at[i] = low /\ i \notin seen)
    BY <1>1, <1>8, <2>2 DEF Saved, ItemAsked
  <2>4. at[i] >= Newest
    <3>1. Newest = low \/ \E a \in rows : a[2] = Newest
      BY NewestType
    <3>2. CASE connector.upto = "open"
      BY <1>3, <2>1, <2>3, <3>1, <3>2 DEF Behind
    <3>3. CASE connector.upto # "open"
      <4>1. \A a \in rows : a[2] <= high
        <5>1. \A a \in rows : Within(a[2]) /\ a[2] \in Int
          BY ItemTimes, ReliedParts DEF Clocked
        <5> QED
          BY <1>3, <3>3, <5>1, FeatureType DEF Within
      <4>2. at[i] >= high
        BY <2>1, <3>3 DEF Behind
      <4> QED
        BY <1>3, <2>3, <3>1, <4>1, <4>2
    <3> QED
      BY <3>2, <3>3
  <2>5. at[i] >= Latest
    <3>1. connector.upto = "window" => at[i] >= high
      BY <2>1 DEF Behind
    <3> QED
      BY <2>4, <3>1 DEF Latest
  <2>6. at[i] = Latest => i \notin seen'
    BY <1>1, <1>3, <1>8, <2>3 DEF Row
  <2> QED
    BY <1>3, <1>4, <2>5, <2>6
<1> QED
  BY <1>6, <1>7, <1>8

-----------------------------------------------------------------------------
Saving ==
  Relied =>
    /\ Saved
    /\ pc # "idle" /\ ByParent => ParentRun
    /\ pc # "idle" /\ ~ByParent => ItemRun

LEMMA SavingKept ==
  ASSUME TypeOK, RequestsAsDescribed', Reading, Clocked, Creation, SeenThen, Saving,
         [Next]_vars
  PROVE  Saving'
<1>1. connector' = connector /\ (ByParent' <=> ByParent) /\ (Relied' <=> Relied)
  BY DEF Next, vars, ByParent, Relied, Dependable, ReadsOn, MeetsOnce, StaysBehind
<1> SUFFICES ASSUME Relied
             PROVE  /\ Saved'
                    /\ (pc # "idle" /\ ByParent => ParentRun)'
                    /\ (pc # "idle" /\ ~ByParent => ItemRun)'
  BY <1>1 DEF Saving
<1>2. /\ Saved /\ pc \in {"idle", "reading", "loading"}
      /\ pc # "idle" /\ ByParent => ParentRun
      /\ pc # "idle" /\ ~ByParent => ItemRun
  BY TypeParts DEF Saving
<1>3. UNCHANGED <<at, touched, table, last, seen>> => Saved'
  BY <1>1, <1>2 DEF Saved, ParentAsked, ItemAsked, Exists
<1>4. CASE Service
  <2>1. pc' = pc
    BY <1>4 DEF Service, Tick, Create, Update, Delete, Touch
  <2> QED
    BY <1>1, <1>2, <1>4, <2>1, SavedService, ParentRunService, ItemRunService
<1>5. CASE StartRun
  <2>1. Saved'
    BY <1>3, <1>5 DEF StartRun, serviceVars, destVars
  <2> QED
    BY <1>1, <1>2, <1>5, <2>1, ParentRunStart, ItemRunStart
<1>6. CASE ReadPage
  <2>1. Saved' /\ pc = "reading"
    BY <1>3, <1>6 DEF ReadPage, serviceVars, destVars
  <2> QED
    BY <1>1, <1>2, <1>6, <2>1, ParentRunPage, ItemRunPage
<1>7. CASE Load
  <2>1. pc = "loading" /\ pc' = "idle"
    BY <1>7 DEF Load, EndRun
  <2> QED
    BY <1>1, <1>2, <1>7, <2>1, ParentRunLoad, ItemRunLoad
<1>8. CASE EndRun /\ UNCHANGED <<serviceVars, destVars>>
  BY <1>3, <1>8 DEF EndRun, serviceVars, destVars
<1>9. CASE UNCHANGED <<serviceVars, destVars, pc, readVars, steady>>
  <2>1. Saved'
    BY <1>3, <1>9 DEF serviceVars, destVars
  <2>2. ParentRun => ParentRun'
    BY <1>1, <1>9 DEF ParentRun, Parents, AskedFor, Exists, serviceVars, destVars, readVars
  <2>3. ~ByParent /\ ItemRun => ItemRun'
    <3>1. UNCHANGED <<low, high, listed, seen, parent, pos, rows, pc, table, at>>
      BY <1>9 DEF serviceVars, destVars, readVars
    <3>2. InOrder => InOrder'
      BY <1>1, <3>1 DEF InOrder, Before, ParentOf
    <3>3. ~ByParent => \A i \in Items : Safe(i) => Safe(i)'
      BY <1>1, <3>1, OldSafe
    <3> QED
      BY <1>1, <1>2, <3>1, <3>2, <3>3 DEF ItemRun, Exists
  <2> QED
    BY <1>1, <1>2, <1>9, <2>1, <2>2, <2>3
<1>10. CASE FetchFails
  <2>1. connector.error \in {"raise", "repeat"}
    BY ReliedParts, ReadsOnParts
  <2> QED
    BY <1>8, <1>9, <1>10, <2>1 DEF FetchFails
<1>11. CASE LoadFails
  BY <1>8, <1>11 DEF LoadFails
<1>12. CASE UNCHANGED vars
  BY <1>9, <1>12 DEF vars
<1> QED
  BY <1>4, <1>5, <1>6, <1>7, <1>10, <1>11, <1>12 DEF Next, Run

\* Between runs the table has every item as it is, or the next run asks for it:
\* whenever items are created, changed and deleted, and whatever fails, the cursor
\* passes nothing that is not loaded.
THEOREM NothingLostCorrect == Spec => []NothingLost
<1> DEFINE Inv == Reading /\ Clocked /\ Creation /\ SeenThen /\ Saving
<1>1. Init => Inv
  <2> SUFFICES ASSUME Init PROVE Inv
    OBVIOUS
  <2>1. /\ clock = 1 /\ at = [i \in Items |-> NotYet] /\ steady = {} /\ pc = "idle"
        /\ last = 0 /\ low = 0 /\ high = 0 /\ rows = {} /\ pos = Start /\ Start.after = {}
        /\ touched = Unlisted /\ listed = Unlisted /\ seen = {}
    BY DEF Init, Start
  <2>2. \A p \in Parents : touched[p] = 1 /\ listed[p] = 1
    BY <2>1 DEF Unlisted
  <2>3. \A i \in Items : at[i] = 0
    BY <2>1 DEF NotYet
  <2>4. Reading /\ Creation
    BY <2>1, <2>3 DEF Reading, Creation, Exists, NotYet
  <2>5. rows \cup pos.after = {}
    BY <2>1
  <2>6. Clocked
    BY <2>1, <2>2, <2>5 DEF Clocked
  <2>7. SeenThen
    BY <2>1 DEF SeenThen
  <2>8. Saving
    BY <2>1, <2>3 DEF Saving, Saved, Exists
  <2> QED
    BY <2>4, <2>6, <2>7, <2>8
<1>2. TypeOK => RequestsAsDescribed
  BY RequestsDescribed
<1>3. TypeOK /\ TypeOK' /\ RequestsAsDescribed' /\ Inv /\ [Next]_vars => Inv'
  BY ReadingKept, ClockedKept, CreationKept, SeenKept, SavingKept
<1>4. TypeOK /\ Inv => NothingLost
  <2> SUFFICES ASSUME TypeOK, Inv, pc = "idle", Dependable(connector),
                      NEW i \in Items, Visible(i)
               PROVE  table[i] = at[i] \/ NextRunReads(i)
    BY DEF NothingLost
  <2>1. CASE connector.from = "all"
    BY <2>1 DEF NextRunReads
  <2>2. CASE connector.from = "ge"
    <3>1. Saved
      BY <2>2 DEF Saving, Relied
    <3>2. CASE ByParent
      BY <2>2, <3>1, <3>2 DEF Saved, ParentAsked, NextRunReads, Asked, Visible
    <3>3. CASE ~ByParent
      BY <2>2, <3>1, <3>3 DEF Saved, ItemAsked, NextRunReads, Asked, Visible
    <3> QED
      BY <3>2, <3>3
  <2> QED
    BY <2>1, <2>2 DEF Dependable
<1> HIDE DEF Inv
<1> QED
  BY <1>1, <1>2, <1>3, <1>4, TypeCorrect, PTL DEF Spec
=============================================================================
