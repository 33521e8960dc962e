---------------------------- MODULE ServingProof ----------------------------
(***************************************************************************)
(* Proofs about Serving, for every set of rows, lists, callers, orders and *)
(* page sizes, every table of routes, every set of mounts and every path:  *)
(* what a fetch and a page hold, that a walk misses no row, that a cursor  *)
(* leads to the page next to its own, and that a request gets the answer   *)
(* its path and the routes declare.                                        *)
(***************************************************************************)
EXTENDS Serving, FunctionTheorems, SequenceTheorems, FiniteSetTheorems,
        WellFoundedInduction, TLAPS

-----------------------------------------------------------------------------
(* The order of a list *)

Matching(f) == ToSet(Order[f])

\* Pager extends FiniteSets as this module does.
LEMMA SameCardinality == \A S : P!Cardinality(S) = Cardinality(S)
BY DEF P!Cardinality, Cardinality

LEMMA PlaceIs ==
  ASSUME NEW f \in DOMAIN Order, NEW row \in Matching(f)
  PROVE  row \in Rows /\ P!Place(f, row) \in Nat /\ Order[f][P!Place(f, row)] = row
<1>1. Order[f] \in Seq(Rows)
  BY ServingAssumption
<1>2. DOMAIN Order[f] = 1..Len(Order[f]) /\ Len(Order[f]) \in Nat
  BY <1>1, LenProperties
<1>3. PICK i \in DOMAIN Order[f] : Order[f][i] = row
  BY DEF Matching, ToSet
<1>4. Order[f][i] \in Rows
  BY <1>1, <1>2, ElementOfSeq
<1>5. P!Place(f, row) \in DOMAIN Order[f] /\ Order[f][P!Place(f, row)] = row
  BY <1>3 DEF P!Place
<1> QED BY <1>2, <1>3, <1>4, <1>5

LEMMA MatchingIsFinite ==
  ASSUME NEW f \in DOMAIN Order
  PROVE  Matching(f) \subseteq Rows /\ IsFiniteSet(Matching(f))
<1>1. Matching(f) \subseteq Rows
  BY PlaceIs
<1> QED BY <1>1, ServingAssumption, FS_Subset

\* Of two rows that match, one is nearer to the cursor.
LEMMA NearerIsOrder ==
  ASSUME NEW q, q.filters \in DOMAIN Order,
         NEW a \in Matching(q.filters), NEW b \in Matching(q.filters),
         NEW c \in Matching(q.filters)
  PROVE  /\ ~P!Nearer(q, a, a)
         /\ P!Nearer(q, a, b) /\ P!Nearer(q, b, c) => P!Nearer(q, a, c)
         /\ P!Nearer(q, a, b) \/ P!Nearer(q, b, a) \/ a = b
<1> DEFINE At(row) == P!Place(q.filters, row)
<1>1. At(a) \in Nat /\ At(b) \in Nat /\ At(c) \in Nat
  BY PlaceIs
<1>2. At(a) = At(b) => a = b
  BY PlaceIs
<1> HIDE DEF At
<1>3. /\ P!Nearer(q, a, a) <=> At(a) < At(a)
      /\ P!Nearer(q, a, b) <=> IF q.direction = "Forward" THEN At(a) < At(b) ELSE At(b) < At(a)
      /\ P!Nearer(q, b, a) <=> IF q.direction = "Forward" THEN At(b) < At(a) ELSE At(a) < At(b)
      /\ P!Nearer(q, b, c) <=> IF q.direction = "Forward" THEN At(b) < At(c) ELSE At(c) < At(b)
      /\ P!Nearer(q, a, c) <=> IF q.direction = "Forward" THEN At(a) < At(c) ELSE At(c) < At(a)
  BY DEF P!Nearer, At
<1> QED BY <1>1, <1>2, <1>3

\* Ranks are the numbers from 0 on, and tell who is nearer.
LEMMA RankIs ==
  ASSUME NEW q, q.filters \in DOMAIN Order,
         NEW among \in SUBSET Matching(q.filters)
  PROVE  /\ Cardinality(among) \in Nat
         /\ \A a \in among : P!Rank(q, among, a) \in 0..(Cardinality(among) - 1)
         /\ \A a, b \in among :
              P!Nearer(q, a, b) <=> P!Rank(q, among, a) < P!Rank(q, among, b)
         /\ \A a, b \in among : P!Rank(q, among, a) = P!Rank(q, among, b) => a = b
         /\ \A n \in 0..(Cardinality(among) - 1) : \E a \in among : P!Rank(q, among, a) = n
<1> DEFINE N == Cardinality(among)
           Before(a) == {other \in among : P!Nearer(q, other, a)}
           R(a) == P!Rank(q, among, a)
<1>1. IsFiniteSet(among) /\ N \in Nat
  BY MatchingIsFinite, FS_Subset, FS_CardinalityType
<1>2. \A a : R(a) = Cardinality(Before(a))
  BY SameCardinality DEF P!Rank
<1>3. ASSUME NEW a \in among PROVE IsFiniteSet(Before(a)) /\ R(a) \in 0..(N - 1)
  <2>1. Before(a) \subseteq among \ {a}
    BY NearerIsOrder
  <2>2. IsFiniteSet(among \ {a}) /\ Cardinality(among \ {a}) = N - 1
    BY <1>1, FS_RemoveElement
  <2> HIDE DEF Before
  <2>3. IsFiniteSet(Before(a)) /\ Cardinality(Before(a)) <= N - 1
    BY <2>1, <2>2, FS_Subset
  <2>4. Cardinality(Before(a)) \in Nat
    BY <2>3, FS_CardinalityType
  <2> HIDE DEF R, N
  <2> QED BY <1>1, <1>2, <2>3, <2>4
<1>4. ASSUME NEW a \in among, NEW b \in among, P!Nearer(q, a, b) PROVE R(a) < R(b)
  <2>1. a \notin Before(a) /\ Before(a) \cup {a} \subseteq Before(b)
    BY <1>4, NearerIsOrder
  <2>2. IsFiniteSet(Before(a)) /\ IsFiniteSet(Before(b))
    BY <1>3
  <2> HIDE DEF Before
  <2>3. Cardinality(Before(a) \cup {a}) = Cardinality(Before(a)) + 1
    BY <2>1, <2>2, FS_AddElement
  <2>4. Cardinality(Before(a) \cup {a}) <= Cardinality(Before(b))
    BY <2>1, <2>2, FS_Subset
  <2>5. Cardinality(Before(a)) \in Nat /\ Cardinality(Before(b)) \in Nat
    BY <2>2, FS_CardinalityType
  <2> HIDE DEF R
  <2> QED BY <1>2, <2>3, <2>4, <2>5
<1>5. ASSUME NEW a \in among, NEW b \in among
      PROVE  /\ P!Nearer(q, a, b) <=> R(a) < R(b)
             /\ R(a) = R(b) => a = b
  <2>1. P!Nearer(q, a, b) \/ P!Nearer(q, b, a) \/ a = b
    BY NearerIsOrder
  <2>2. R(a) \in 0..(N - 1) /\ R(b) \in 0..(N - 1)
    BY <1>3
  <2>3. P!Nearer(q, a, b) => R(a) < R(b)
    BY <1>4
  <2>4. P!Nearer(q, b, a) => R(b) < R(a)
    BY <1>4
  <2> HIDE DEF R, N
  <2> QED BY <1>1, <2>1, <2>2, <2>3, <2>4
<1>6. ASSUME NEW n \in 0..(N - 1) PROVE \E a \in among : R(a) = n
  <2> DEFINE F == [a \in among |-> R(a)]
  <2>1. F \in Injection(among, 0..(N - 1))
    <3>1. F \in [among -> 0..(N - 1)]
      BY <1>3
    <3>2. \A a, b \in among : F[a] = F[b] => a = b
      BY <1>5
    <3> QED BY <3>1, <3>2, Fun_IsInj
  <2>2. IsFiniteSet(0..(N - 1)) /\ Cardinality(0..(N - 1)) = N
    BY <1>1, FS_Interval
  <2>3. F \in Surjection(among, 0..(N - 1))
    BY <2>1, <2>2, FS_Injection
  <2> HIDE DEF F, R, N
  <2>4. \E a \in among : F[a] = n
    BY <2>3 DEF Surjection
  <2> QED BY <2>4 DEF F
<1> QED BY <1>1, <1>3, <1>5, <1>6


-----------------------------------------------------------------------------
(* Fetches and pages *)

LEMMA SameLength ==
  ASSUME NEW m \in Nat, NEW n \in Nat, 1..m = 1..n
  PROVE  m = n
<1>1. m \in 1..m \/ m = 0
  OBVIOUS
<1>2. n \in 1..n \/ n = 0
  OBVIOUS
<1> QED BY <1>1, <1>2

LEMMA BeyondIs ==
  ASSUME NEW present, NEW q
  PROVE  P!Beyond(present, q) =
           {row \in present \cap Matching(q.filters) :
              q.after = None \/ P!Nearer(q, q.after, row)}
BY DEF P!Beyond, P!ToSet, ToSet, Matching

\* Rows of the side the query reads, the nearest first, and all of them unless the limit
\* cuts them off.
Fetched(f, beyond, q) ==
  /\ f \in Seq(beyond) /\ Len(f) \in Nat /\ Len(f) <= q.limit
  /\ \A i, j \in 1..Len(f) : i < j => P!Nearer(q, f[i], f[j])
  /\ \A row \in beyond :
       \/ \E i \in 1..Len(f) : f[i] = row
       \/ Len(f) = q.limit /\ \A i \in 1..Len(f) : P!Nearer(q, f[i], row)

LEMMA FetchIs ==
  ASSUME NEW q, q.filters \in DOMAIN Order, q.limit \in Nat, NEW present
  PROVE  Fetched(P!Fetch(present, q), P!Beyond(present, q), q)
<1> DEFINE beyond == P!Beyond(present, q)
           f == P!Fetch(present, q)
<1> DEFINE N == Cardinality(beyond)
           n == IF N < q.limit THEN N ELSE q.limit
           R(row) == P!Rank(q, beyond, row)
           At(i) == CHOOSE row \in beyond : R(row) = i - 1
<1>1. beyond \in SUBSET Matching(q.filters)
  BY BeyondIs
<1>2. /\ N \in Nat
      /\ \A a \in beyond : R(a) \in 0..(N - 1)
      /\ \A a, b \in beyond : P!Nearer(q, a, b) <=> R(a) < R(b)
      /\ \A a, b \in beyond : R(a) = R(b) => a = b
      /\ \A k \in 0..(N - 1) : \E a \in beyond : R(a) = k
  BY <1>1, RankIs
<1>3. f = [i \in 1..n |-> At(i)]
  BY SameCardinality DEF P!Fetch
<1> HIDE DEF N, R, beyond, f
<1>4. ASSUME NEW i \in 1..n PROVE At(i) \in beyond /\ R(At(i)) = i - 1
  <2>1. i - 1 \in 0..(N - 1)
    BY <1>2
  <2>2. \E a \in beyond : R(a) = i - 1
    BY <1>2, <2>1
  <2> QED BY <2>2
<1>5. n \in Nat /\ n <= q.limit /\ n <= N /\ (n < N => n = q.limit)
  BY <1>2
<1> HIDE DEF n, At
<1>6. f \in Seq(beyond)
  BY <1>3, <1>4, <1>5, IsASeq
<1>7. Len(f) = n /\ \A i \in 1..n : f[i] \in beyond /\ R(f[i]) = i - 1
  <2>1. DOMAIN f = 1..Len(f) /\ Len(f) \in Nat /\ DOMAIN f = 1..n
    BY <1>3, <1>6, LenProperties
  <2>2. 1..Len(f) = 1..n
    BY <2>1
  <2>3. Len(f) = n
    BY <1>5, <2>1, <2>2, SameLength
  <2> QED BY <1>3, <1>4, <2>3
<1>8. ASSUME NEW i \in 1..Len(f), NEW j \in 1..Len(f), i < j
      PROVE  P!Nearer(q, f[i], f[j])
  BY <1>2, <1>5, <1>7, <1>8
<1>9. ASSUME NEW row \in beyond
      PROVE  \/ \E i \in 1..Len(f) : f[i] = row
             \/ Len(f) = q.limit /\ \A i \in 1..Len(f) : P!Nearer(q, f[i], row)
  <2>1. R(row) \in 0..(N - 1)
    BY <1>2
  <2>2. CASE R(row) < n
    <3> DEFINE i == R(row) + 1
    <3>1. i \in 1..n /\ i - 1 = R(row)
      BY <1>2, <1>5, <2>1, <2>2
    <3> HIDE DEF i
    <3>2. f[i] = row
      BY <1>2, <1>7, <3>1
    <3> QED BY <1>7, <3>1, <3>2
  <2>3. CASE ~(R(row) < n)
    <3>1. n = q.limit
      BY <1>2, <1>5, <2>1, <2>3
    <3>2. ASSUME NEW i \in 1..n PROVE P!Nearer(q, f[i], row)
      <4>1. R(f[i]) < R(row)
        BY <1>2, <1>5, <1>7, <2>1, <2>3
      <4> QED BY <1>2, <1>7, <4>1
    <3> QED BY <1>7, <3>1, <3>2
  <2> QED BY <2>2, <2>3
<1>10. Fetched(f, beyond, q)
  BY <1>5, <1>6, <1>7, <1>8, <1>9 DEF Fetched
<1> QED BY <1>10 DEF f, beyond

\* What of a fetch a page keeps: a row of that side it does not hold lies behind all it
\* holds, and then the fetch returned one row more than the page's size.
Keeps(kept, f, size, beyond, q) ==
  /\ kept \in Seq(beyond) /\ Len(kept) \in Nat
  /\ \A i, j \in 1..Len(kept) : i < j => P!Nearer(q, kept[i], kept[j])
  /\ Len(f) > size => Len(kept) # 0
  /\ \A row \in beyond :
       \/ \E i \in 1..Len(kept) : kept[i] = row
       \/ Len(f) > size /\ \A i \in 1..Len(kept) : P!Nearer(q, kept[i], row)

LEMMA KeptIs ==
  ASSUME NEW q, NEW size \in Nat \ {0}, q.limit = P!Limit(size),
         NEW beyond, NEW f, Fetched(f, beyond, q),
         NEW m, m = IF Len(f) > size THEN size ELSE Len(f)
  PROVE  Keeps(SubSeq(f, 1, m), f, size, beyond, q)
<1> DEFINE kept == SubSeq(f, 1, m)
<1>1. /\ f \in Seq(beyond) /\ Len(f) \in Nat /\ Len(f) <= size + 1
      /\ \A i, j \in 1..Len(f) : i < j => P!Nearer(q, f[i], f[j])
      /\ \A row \in beyond :
           \/ \E i \in 1..Len(f) : f[i] = row
           \/ Len(f) = size + 1 /\ \A i \in 1..Len(f) : P!Nearer(q, f[i], row)
  BY DEF Fetched, P!Limit
<1>2. m \in Nat /\ m <= Len(f) /\ (Len(f) > size => m = size) /\ (~(Len(f) > size) => m = Len(f))
  BY <1>1
<1>3. kept = SubSeq(f, 1, m)
  OBVIOUS
<1> HIDE DEF kept
<1>4. kept \in Seq(beyond) /\ Len(kept) = m /\ \A i \in 1..m : kept[i] = f[i]
  <2>1. \A i \in 1..m : f[i] \in beyond
    BY <1>1, <1>2, ElementOfSeq
  <2> QED BY <1>2, <1>3, <2>1, SubSeqProperties
<1>5. ASSUME NEW row \in beyond
      PROVE  \/ \E i \in 1..m : kept[i] = row
             \/ Len(f) > size /\ \A i \in 1..m : P!Nearer(q, kept[i], row)
  <2>1. CASE \E i \in 1..Len(f) : f[i] = row
    <3>1. PICK i \in 1..Len(f) : f[i] = row
      BY <2>1
    <3>2. CASE i <= m
      BY <1>2, <1>4, <3>1, <3>2
    <3>3. CASE ~(i <= m)
      <4>1. Len(f) > size
        BY <1>1, <1>2, <3>3
      <4>2. ASSUME NEW j \in 1..m PROVE P!Nearer(q, kept[j], row)
        <5>1. j \in 1..Len(f) /\ j < i
          BY <1>1, <1>2, <3>3
        <5> QED BY <1>1, <1>4, <3>1, <5>1
      <4> QED BY <4>1, <4>2
    <3> QED BY <3>2, <3>3
  <2>2. CASE Len(f) = size + 1 /\ \A i \in 1..Len(f) : P!Nearer(q, f[i], row)
    BY <1>1, <1>2, <1>4, <2>2
  <2> QED BY <1>1, <2>1, <2>2
<1>6. ASSUME NEW i \in 1..m, NEW j \in 1..m, i < j PROVE P!Nearer(q, kept[i], kept[j])
  <2>1. i \in 1..Len(f) /\ j \in 1..Len(f)
    BY <1>1, <1>2
  <2>2. kept[i] = f[i] /\ kept[j] = f[j]
    BY <1>4
  <2> QED BY <1>1, <1>6, <2>1, <2>2
<1>7. Keeps(kept, f, size, beyond, q)
  BY <1>1, <1>2, <1>4, <1>5, <1>6 DEF Keeps
<1> QED BY <1>7 DEF kept


LEMMA InOrderIs ==
  ASSUME NEW S, NEW s \in Seq(S), NEW way, NEW t, t = P!InOrder(way, s)
  PROVE  /\ t \in Seq(S) /\ Len(t) = Len(s) /\ Len(s) \in Nat
         /\ \A i \in 1..Len(s) : t[i] = IF way = "Backward" THEN s[Len(s) - i + 1] ELSE s[i]
<1> DEFINE n == Len(s)
           e(i) == s[n - i + 1]
<1>1. n \in Nat /\ \A i \in 1..n : s[i] \in S
  BY LenProperties, ElementOfSeq
<1>2. CASE way = "Backward"
  <2>1. t = [i \in 1..n |-> e(i)]
    BY <1>2 DEF P!InOrder, P!Reverse
  <2>2. \A i \in 1..n : n - i + 1 \in 1..n
    BY <1>1
  <2>3. \A i \in 1..n : e(i) \in S
    BY <1>1, <2>2
  <2> HIDE DEF e, n
  <2>4. t \in Seq(S)
    BY <1>1, <2>1, <2>3, IsASeq
  <2>5. Len(t) \in Nat /\ 1..Len(t) = 1..n
    BY <2>1, <2>4, LenProperties
  <2>6. Len(t) = n
    BY <1>1, <2>5, SameLength
  <2>7. \A i \in 1..n : t[i] = e(i)
    BY <2>1
  <2> QED BY <1>1, <1>2, <2>4, <2>6, <2>7 DEF e, n
<1>3. CASE way # "Backward"
  BY <1>1, <1>3 DEF P!InOrder
<1> QED BY <1>2, <1>3

\* The rows a cursor leads to; a first page has none.
Ahead(cursor, f, way, row) ==
  \/ cursor = None
  \/ IF way = "Forward" THEN P!Place(f, cursor.key) < P!Place(f, row)
                        ELSE P!Place(f, row) < P!Place(f, cursor.key)

Ascends(f, items) ==
  \A i, j \in 1..Len(items) : i < j => P!Place(f, items[i]) < P!Place(f, items[j])

\* A page has every row at hand that its cursor leads to, but for those behind its far
\* end; and it names the ends with its own cursors.
PageHolds(page, here, cursor, f, way, binding) ==
  LET items == page.items
      At(row) == P!Place(f, row)
  IN  /\ cursor # None => cursor.binding = binding
      /\ items \in Seq(here) /\ Ascends(f, items)
      /\ \A i \in 1..Len(items) : Ahead(cursor, f, way, items[i])
      /\ \A row \in here : Ahead(cursor, f, way, row) =>
           \/ \E i \in 1..Len(items) : items[i] = row
           \/ Len(items) # 0 /\ way = "Forward" /\ page.next # None /\ At(Last(items)) < At(row)
           \/ Len(items) # 0 /\ way = "Backward" /\ At(row) < At(items[1])
      /\ \/ page.next = None
         \/ Len(items) # 0 /\ page.next = P!Mint("Forward", Last(items), f, binding)
      /\ \/ page.previous = None
         \/ Len(items) # 0 /\ page.previous = P!Mint("Backward", items[1], f, binding)

Bindings == [method : {Listing.method}, path : Lists, caller : Walkers]

\* The filters and the direction a request's page is read with.
Leads(cursor, asked, f, way) ==
  \/ cursor = None /\ f = asked /\ way = "Forward"
  \/ /\ cursor # None /\ f = cursor.filters /\ way = cursor.direction
     /\ cursor.key \in Matching(f)

RequestOf(cursor, filters, size) == [cursor |-> cursor, filters |-> filters, size |-> size]

LEMMA PageIs ==
  ASSUME NEW present \in SUBSET Rows, NEW c, NEW asked, NEW requested \in Nat,
         NEW binding \in Bindings,
         NEW f \in DOMAIN Order, NEW way \in {"Forward", "Backward"},
         Leads(c, asked, f, way),
         P!Page(present, RequestOf(c, asked, requested), binding).code = "OK"
  PROVE  PageHolds(P!Page(present, RequestOf(c, asked, requested), binding),
                   present \cap Matching(f), c, f, way, binding)
<1> DEFINE page == P!Page(present, RequestOf(c, asked, requested), binding)
           here == present \cap Matching(f)
           size == P!EffectivePageSize(requested)
           q == [filters |-> f, direction |-> way,
                 after |-> IF c = None THEN None ELSE c.key, limit |-> P!Limit(size)]
           beyond == P!Beyond(present, q)
           rows_ == P!Fetch(present, q)
           hasMore == Len(rows_) > size
           m == IF hasMore THEN size ELSE Len(rows_)
           kept == SubSeq(rows_, 1, m)
           items == P!InOrder(way, kept)
           hasPrevious == IF way = "Forward" THEN c # None ELSE hasMore
           hasNext == IF way = "Forward" THEN hasMore ELSE TRUE
           next == IF items # <<>> /\ hasNext
                   THEN P!Mint("Forward", items[Len(items)], f, binding) ELSE None
           previous == IF items # <<>> /\ hasPrevious
                       THEN P!Mint("Backward", items[1], f, binding) ELSE None
<1>1. size \in Nat \ {0}
  BY ServingAssumption DEF P!EffectivePageSize
<1>0. /\ c = None => f = asked /\ way = "Forward"
      /\ c # None => f = c.filters /\ way = c.direction /\ c.key \in Matching(f)
  BY DEF Leads
<1>2. c # None => c.binding = binding
  BY <1>0 DEF P!Page, P!Refused, P!Opens, RequestOf
<1>3. page = [code |-> "OK", items |-> items, previous |-> previous, next |-> next]
  BY <1>0 DEF P!Page, P!Refused, P!Opens, RequestOf
<1> HIDE DEF page, size, next, previous
<1>4. /\ q.filters = f /\ q.filters \in DOMAIN Order /\ q.limit = P!Limit(size)
      /\ q.direction = way /\ q.after = IF c = None THEN None ELSE c.key
  OBVIOUS
<1> HIDE DEF q
<1>5. beyond = {row \in here : Ahead(c, f, way, row)}
  <2>1. c # None => c.key # None
    BY <1>0, PlaceIs, NoneAssumption
  <2> QED BY <1>0, <1>4, <2>1, BeyondIs DEF P!Nearer, Ahead
<1>6. /\ beyond = P!Beyond(present, q) /\ rows_ = P!Fetch(present, q)
      /\ m = IF Len(rows_) > size THEN size ELSE Len(rows_)
      /\ kept = SubSeq(rows_, 1, m) /\ items = P!InOrder(way, kept)
      /\ hasMore <=> Len(rows_) > size
  OBVIOUS
<1> HIDE DEF beyond, rows_, hasMore, m, kept, items
<1>7. Keeps(kept, rows_, size, beyond, q)
  <2>1. q.limit \in Nat
    BY <1>1, <1>4 DEF P!Limit
  <2>2. Fetched(rows_, beyond, q)
    BY <1>4, <1>6, <2>1, FetchIs
  <2>3. Keeps(SubSeq(rows_, 1, m), rows_, size, beyond, q)
    BY <1>1, <1>4, <1>6, <2>2, KeptIs
  <2> QED BY <1>6, <2>3
<1> DEFINE n == Len(kept)
           At(row) == P!Place(f, row)
           Turned(i) == IF way = "Backward" THEN n - i + 1 ELSE i
<1>8. /\ items \in Seq(beyond) /\ Len(items) = n /\ n \in Nat
      /\ \A i \in 1..n : Turned(i) \in 1..n /\ Turned(Turned(i)) = i
      /\ \A i \in 1..n : items[i] = kept[Turned(i)]
  <2>1. kept \in Seq(beyond) /\ items = P!InOrder(way, kept)
    BY <1>6, <1>7 DEF Keeps
  <2>2. /\ items \in Seq(beyond) /\ Len(items) = n /\ n \in Nat
        /\ \A i \in 1..n : items[i] = IF way = "Backward" THEN kept[n - i + 1] ELSE kept[i]
    BY <2>1, InOrderIs
  <2> QED BY <2>2
<1>9. \A i \in 1..n : items[i] \in here /\ Ahead(c, f, way, items[i])
  <2>1. \A i \in 1..n : items[i] \in beyond
    BY <1>8, ElementOfSeq
  <2> QED BY <1>5, <2>1
<1>10. \A a, b : P!Nearer(q, a, b) <=> IF way = "Forward" THEN At(a) < At(b) ELSE At(b) < At(a)
  BY <1>4 DEF P!Nearer
<1> HIDE DEF At
<1>11. \A i, j \in 1..n : i < j => At(items[i]) < At(items[j])
  <2> SUFFICES ASSUME NEW i \in 1..n, NEW j \in 1..n, i < j
               PROVE  At(items[i]) < At(items[j])
    OBVIOUS
  <2>1. \A k, l \in 1..n : k < l => P!Nearer(q, kept[k], kept[l])
    BY <1>7 DEF Keeps
  <2>2. items[i] = kept[Turned(i)] /\ items[j] = kept[Turned(j)]
    BY <1>8
  <2>3. CASE way = "Forward"
    BY <1>10, <2>1, <2>2, <2>3
  <2>4. CASE way = "Backward"
    <3>1. Turned(j) < Turned(i) /\ Turned(i) \in 1..n /\ Turned(j) \in 1..n
      BY <1>8, <2>4
    <3>2. P!Nearer(q, kept[Turned(j)], kept[Turned(i)])
      BY <2>1, <3>1
    <3> QED BY <1>10, <2>2, <2>4, <3>2
  <2> QED BY <2>3, <2>4
<1>12. items # <<>> <=> n # 0
  BY <1>8, EmptySeq
<1>13. n # 0 => 1 \in 1..n /\ n \in 1..n /\ Turned(1) \in 1..n /\ Turned(n) \in 1..n
  BY <1>8
<1>14. ASSUME n # 0, NEW side \in {"Forward", "Backward"}, NEW key \in here
       PROVE  P!Mint(side, key, f, binding) # None
  BY <1>14, NoneAssumption DEF P!Mint, Bindings
<1>15. /\ \/ next = None
          \/ n # 0 /\ next = P!Mint("Forward", Last(items), f, binding)
       /\ \/ previous = None
          \/ n # 0 /\ previous = P!Mint("Backward", items[1], f, binding)
       /\ way = "Forward" /\ hasMore /\ n # 0 => next # None
  BY <1>8, <1>9, <1>12, <1>13, <1>14 DEF next, previous, Last
<1>16. ASSUME NEW row \in here, Ahead(c, f, way, row)
       PROVE  \/ \E i \in 1..n : items[i] = row
              \/ n # 0 /\ way = "Forward" /\ next # None /\ At(Last(items)) < At(row)
              \/ n # 0 /\ way = "Backward" /\ At(row) < At(items[1])
  <2>1. \/ \E i \in 1..n : kept[i] = row
        \/ hasMore /\ n # 0 /\ \A i \in 1..n : P!Nearer(q, kept[i], row)
    BY <1>5, <1>6, <1>7, <1>16 DEF Keeps
  <2>2. CASE \E i \in 1..n : kept[i] = row
    <3>1. PICK i \in 1..n : kept[i] = row
      BY <2>2
    <3>2. Turned(i) \in 1..n /\ items[Turned(i)] = kept[i]
      BY <1>8
    <3> QED BY <3>1, <3>2
  <2>3. CASE hasMore /\ n # 0 /\ \A i \in 1..n : P!Nearer(q, kept[i], row)
    <3>1. P!Nearer(q, items[1], row) /\ P!Nearer(q, items[n], row)
      BY <1>8, <1>13, <2>3
    <3> QED BY <1>8, <1>10, <1>15, <2>3, <3>1 DEF Last
  <2> QED BY <2>1, <2>2, <2>3
<1>17. items \in Seq(here)
  BY <1>5, <1>8, SeqMonotonic
<1>18. /\ items = page.items /\ next = page.next /\ previous = page.previous
  BY <1>3
<1>19. PageHolds(page, here, c, f, way, binding)
  BY <1>2, <1>8, <1>9, <1>11, <1>15, <1>16, <1>17, <1>18 DEF PageHolds, Ascends, At
<1> QED BY <1>19 DEF page

LEMMA PageOfCursor ==
  ASSUME NEW present \in SUBSET Rows, NEW asked, NEW requested \in Nat,
         NEW binding \in Bindings,
         NEW c, c # None, c.filters \in DOMAIN Order,
         c.direction \in {"Forward", "Backward"}, c.key \in Matching(c.filters),
         NEW page, page.code = "OK",
         page = P!Page(present, RequestOf(c, asked, requested), binding)
  PROVE  PageHolds(page, present \cap Matching(c.filters), c, c.filters, c.direction, binding)
<1> DEFINE f == c.filters
           way == c.direction
<1>1. f \in DOMAIN Order /\ way \in {"Forward", "Backward"} /\ Leads(c, asked, f, way)
  BY DEF Leads
<1> HIDE DEF f, way
<1>2. PageHolds(page, present \cap Matching(f), c, f, way, binding)
  BY <1>1, PageIs
<1> QED BY <1>2 DEF f, way

-----------------------------------------------------------------------------
(* A walk *)

Own(w, s, way, key) == P!Mint(way, key, s.filters, P!Binding(Listing.method, s.path, w))

\* What a walker's client shows is a page of its list, with cursors of its own; and it
\* has seen the rows that last up to the page's end, all of them where no next page is.
Sound(s, w, present) ==
  LET At(row) == P!Place(s.filters, row)
  IN  /\ s.path \in Lists /\ s.filters \in DOMAIN Order
      /\ s.items \in Seq(Matching(s.filters)) /\ Ascends(s.filters, s.items)
      /\ s.lasting \subseteq present \cap Matching(s.filters)
      /\ \/ s.next = None
         \/ Len(s.items) # 0 /\ s.next = Own(w, s, "Forward", Last(s.items))
      /\ \/ s.previous = None
         \/ Len(s.items) # 0 /\ s.previous = Own(w, s, "Backward", s.items[1])
      /\ s.next = None /\ s.by # "Backward" => s.lasting \subseteq s.seen
      /\ Len(s.items) # 0 =>
           \A row \in s.lasting : At(row) <= At(Last(s.items)) => row \in s.seen

WalkInv ==
  /\ rows \in [Lists -> SUBSET Rows]
  /\ walk = [w \in Walkers |-> walk[w]]
  /\ \A w \in Walkers : walk[w] = Idle \/ Sound(walk[w], w, rows[walk[w].path])

\* The ends of a page.
LEMMA PageEnds ==
  ASSUME NEW f \in DOMAIN Order, NEW items \in Seq(Matching(f)), Ascends(f, items),
         Len(items) # 0
  PROVE  /\ 1 \in 1..Len(items) /\ Len(items) \in 1..Len(items) /\ Last(items) = items[Len(items)]
         /\ items[1] \in Matching(f) /\ Last(items) \in Matching(f)
         /\ \A i \in 1..Len(items) :
              /\ items[i] \in Matching(f)
              /\ P!Place(f, items[1]) <= P!Place(f, items[i])
              /\ P!Place(f, items[i]) <= P!Place(f, Last(items))
<1> DEFINE n == Len(items)
           At(i) == P!Place(f, items[i])
<1>1. n \in Nat /\ 1 \in 1..n /\ n \in 1..n /\ Last(items) = items[n]
  BY LenProperties DEF Last
<1>2. \A i \in 1..n : items[i] \in Matching(f) /\ At(i) \in Nat
  BY ElementOfSeq, PlaceIs
<1>3. \A i, j \in 1..n : i < j => At(i) < At(j)
  BY DEF Ascends
<1> HIDE DEF At
<1>4. \A i \in 1..n : At(1) <= At(i) /\ At(i) <= At(n)
  BY <1>1, <1>2, <1>3
<1> QED BY <1>1, <1>2, <1>4 DEF At

LEMMA BeginIsSound ==
  ASSUME NEW w \in Walkers, NEW path \in Lists, NEW f \in DOMAIN Order, NEW size \in Sizes,
         NEW present \in SUBSET Rows, NEW page,
         page = P!Page(present, [cursor |-> None, filters |-> f, size |-> size],
                       P!Binding(Listing.method, path, w)),
         page.code = "OK"
  PROVE  Sound(Shows(page, "Begin", path, f, {}, present \cap Matching(f)), w, present)
<1> DEFINE binding == P!Binding(Listing.method, path, w)
           here == present \cap Matching(f)
           s == Shows(page, "Begin", path, f, {}, here)
           At(row) == P!Place(f, row)
<1>1. binding \in Bindings
  BY DEF P!Binding, Bindings
<1>2. page.code = "OK"
  OBVIOUS
<1>3. size \in Nat
  BY ServingAssumption
<1>4. PageHolds(page, here, None, f, "Forward", binding)
  <2>1. Leads(None, f, f, "Forward")
    BY DEF Leads
  <2>2. page = P!Page(present, RequestOf(None, f, size), binding)
    BY DEF RequestOf
  <2> QED BY <1>1, <1>2, <1>3, <2>1, <2>2, PageIs
<1>5. /\ s.path = path /\ s.filters = f /\ s.by = "Begin" /\ s.items = page.items
      /\ s.next = page.next /\ s.previous = page.previous
      /\ s.seen = {} \cup ToSet(page.items) /\ s.lasting = here
  BY DEF Shows
<1> HIDE DEF s, binding
<1>6. page.items \in Seq(here) /\ Ascends(f, page.items)
  BY <1>4 DEF PageHolds
<1>7. page.items \in Seq(Matching(f)) /\ DOMAIN page.items = 1..Len(page.items)
  BY <1>6, SeqMonotonic, LenProperties
<1>8. /\ \/ s.next = None
         \/ Len(s.items) # 0 /\ s.next = Own(w, s, "Forward", Last(s.items))
      /\ \/ s.previous = None
         \/ Len(s.items) # 0 /\ s.previous = Own(w, s, "Backward", s.items[1])
  BY <1>4, <1>5 DEF PageHolds, Own, binding
<1>9. \A row \in here :
        \/ row \in s.seen
        \/ Len(s.items) # 0 /\ s.next # None /\ At(Last(s.items)) < At(row)
  <2>1. \A row \in here : Ahead(None, f, "Forward", row)
    BY DEF Ahead
  <2> QED BY <1>4, <1>5, <1>7, <2>1 DEF PageHolds, ToSet
<1>10. \A row \in Matching(f) : At(row) \in Nat
  BY PlaceIs
<1>11. Len(s.items) # 0 => Last(s.items) \in Matching(f)
  BY <1>5, <1>6, <1>7, PageEnds
<1>12. Len(s.items) # 0 =>
         \A row \in s.lasting : At(row) <= At(Last(s.items)) => row \in s.seen
  BY <1>5, <1>9, <1>10, <1>11
<1>13. Sound(s, w, present)
  BY <1>5, <1>6, <1>7, <1>8, <1>9, <1>12 DEF Sound
<1> QED BY <1>13 DEF s


\* A page asked for with a cursor of the page shown.
LEMMA TurnIsSound ==
  ASSUME NEW w \in Walkers, NEW present \in SUBSET Rows, NEW old, Sound(old, w, present),
         NEW c \in {old.next, old.previous}, c # None,
         NEW page, PageHolds(page, present \cap Matching(old.filters), c, old.filters,
                             c.direction, P!Binding(Listing.method, old.path, w)),
         NEW new, new = Shows(page, c.direction, old.path, old.filters, old.seen, old.lasting)
  PROVE  /\ Sound(new, w, present)
         /\ Len(old.items) # 0
         /\ Len(new.items) # 0 => Adjoins(old, new, present \cap Matching(old.filters))
<1> DEFINE f == old.filters
           here == present \cap Matching(f)
           At(row) == P!Place(f, row)
           n == Len(new.items)
<1>1. /\ new.path = old.path /\ new.filters = f /\ new.by = c.direction
      /\ new.items = page.items /\ new.next = page.next /\ new.previous = page.previous
      /\ new.seen = old.seen \cup ToSet(page.items) /\ new.lasting = old.lasting
  BY DEF Shows
<1>2. /\ f \in DOMAIN Order /\ old.path \in Lists
      /\ old.items \in Seq(Matching(f)) /\ Ascends(f, old.items) /\ Len(old.items) # 0
      /\ old.lasting \subseteq here
      /\ \A row \in old.lasting : At(row) <= At(Last(old.items)) => row \in old.seen
  BY DEF Sound
<1>3. \/ c.direction = "Forward" /\ c.key = Last(old.items)
      \/ c.direction = "Backward" /\ c.key = old.items[1]
  BY DEF Sound, Own, P!Mint
<1>4. /\ new.items \in Seq(here) /\ Ascends(f, new.items)
      /\ \A i \in 1..n : Ahead(c, f, c.direction, new.items[i])
      /\ \A row \in here : Ahead(c, f, c.direction, row) =>
           \/ \E i \in 1..n : new.items[i] = row
           \/ n # 0 /\ c.direction = "Forward" /\ new.next # None /\ At(Last(new.items)) < At(row)
           \/ n # 0 /\ c.direction = "Backward" /\ At(row) < At(new.items[1])
  BY <1>1 DEF PageHolds
<1>5. /\ \/ new.next = None
         \/ n # 0 /\ new.next = Own(w, new, "Forward", Last(new.items))
      /\ \/ new.previous = None
         \/ n # 0 /\ new.previous = Own(w, new, "Backward", new.items[1])
  BY <1>1 DEF PageHolds, Own
<1>6. /\ new.items \in Seq(Matching(f)) /\ DOMAIN new.items = 1..n /\ n \in Nat
      /\ ToSet(new.items) \subseteq here
      /\ \A i \in 1..n : new.items[i] \in new.seen
  <2>1. DOMAIN new.items = 1..n /\ n \in Nat
    BY <1>4, LenProperties
  <2>2. \A i \in 1..n : new.items[i] \in here
    BY <1>4, ElementOfSeq
  <2> QED BY <1>1, <1>4, <2>1, <2>2, SeqMonotonic DEF ToSet
<1>7. \A row \in Matching(f) : At(row) \in Nat
  BY <1>2, PlaceIs
<1> HIDE DEF f
<1>8. /\ old.items[1] \in Matching(f) /\ Last(old.items) \in Matching(f)
      /\ At(old.items[1]) <= At(Last(old.items))
  BY <1>2, PageEnds
<1>9. n # 0 => /\ 1 \in 1..n /\ n \in 1..n /\ Last(new.items) = new.items[n]
               /\ \A i \in 1..n : /\ new.items[i] \in Matching(f)
                                  /\ At(new.items[1]) <= At(new.items[i])
                                  /\ At(new.items[i]) <= At(Last(new.items))
  BY <1>2, <1>4, <1>6, PageEnds
<1>10. \A i, j \in 1..n : i < j => At(new.items[i]) < At(new.items[j])
  BY <1>4 DEF Ascends
<1>11. CASE c.direction = "Forward" /\ c.key = Last(old.items)
  <2>1. \A row : Ahead(c, f, c.direction, row) <=> At(Last(old.items)) < At(row)
    BY <1>11 DEF Ahead
  <2>2. \A row \in old.lasting :
          \/ row \in new.seen
          \/ n # 0 /\ new.next # None /\ At(Last(new.items)) < At(row)
    <3> SUFFICES ASSUME NEW row \in old.lasting, ~(row \in old.seen)
                 PROVE  \/ row \in new.seen
                        \/ n # 0 /\ new.next # None /\ At(Last(new.items)) < At(row)
      BY <1>1
    <3>1. row \in here /\ At(row) \in Nat /\ At(Last(old.items)) \in Nat
      BY <1>2, <1>7, <1>8
    <3>2. At(Last(old.items)) < At(row)
      BY <1>2, <3>1
    <3> QED BY <1>4, <1>6, <1>11, <2>1, <3>1, <3>2
  <2>3. n # 0 => \A row \in old.lasting : At(row) <= At(Last(new.items)) => row \in new.seen
    BY <1>2, <1>7, <1>9, <2>2
  <2>4. Sound(new, w, present)
    BY <1>1, <1>2, <1>4, <1>5, <1>6, <2>2, <2>3 DEF Sound, f
  <2>5. ASSUME n # 0 PROVE Adjoins(old, new, here)
    <3>1. At(Last(old.items)) < At(new.items[1])
      BY <1>4, <1>9, <2>1, <2>5
    <3>2. ASSUME NEW row \in here, At(Last(old.items)) < At(row), At(row) < At(new.items[1])
          PROVE  FALSE
      <4>1. At(row) \in Nat /\ \A i \in 1..n : At(new.items[i]) \in Nat
        BY <1>7, <1>9, <2>5
      <4>2. \/ \E i \in 1..n : new.items[i] = row
            \/ At(Last(new.items)) < At(row)
        BY <1>4, <1>11, <2>1, <3>2
      <4> QED BY <1>9, <2>5, <3>2, <4>1, <4>2
    <3> QED BY <1>1, <1>6, <1>10, <1>11, <3>1, <3>2 DEF Adjoins, f
  <2> QED BY <1>2, <2>4, <2>5 DEF f
<1>12. CASE c.direction = "Backward" /\ c.key = old.items[1]
  <2>1. \A row : Ahead(c, f, c.direction, row) <=> At(row) < At(old.items[1])
    BY <1>12 DEF Ahead
  <2>2. n # 0 => At(Last(new.items)) < At(old.items[1])
    BY <1>4, <1>9, <2>1
  <2>3. n # 0 => \A row \in old.lasting : At(row) <= At(Last(new.items)) => row \in new.seen
    <3> SUFFICES ASSUME n # 0, NEW row \in old.lasting, At(row) <= At(Last(new.items))
                 PROVE  row \in old.seen
      BY <1>1
    <3>1. /\ At(row) \in Nat /\ At(Last(new.items)) \in Nat
          /\ At(old.items[1]) \in Nat /\ At(Last(old.items)) \in Nat
      BY <1>2, <1>7, <1>8, <1>9
    <3>2. At(row) <= At(Last(old.items))
      BY <1>8, <2>2, <3>1
    <3> QED BY <1>2, <3>2
  <2>4. Sound(new, w, present)
    BY <1>1, <1>2, <1>4, <1>5, <1>6, <1>12, <2>3 DEF Sound, f
  <2>5. ASSUME n # 0 PROVE Adjoins(old, new, here)
    <3>1. ASSUME NEW row \in here, At(Last(new.items)) < At(row), At(row) < At(old.items[1])
          PROVE  FALSE
      <4>1. At(row) \in Nat /\ \A i \in 1..n : At(new.items[i]) \in Nat
        BY <1>7, <1>9, <2>5
      <4>2. \/ \E i \in 1..n : new.items[i] = row
            \/ At(row) < At(new.items[1])
        BY <1>4, <1>12, <2>1, <3>1
      <4> QED BY <1>9, <2>5, <3>1, <4>1, <4>2
    <3> QED BY <1>1, <1>6, <1>10, <1>12, <2>2, <2>5, <3>1 DEF Adjoins, f
  <2> QED BY <1>2, <2>4, <2>5 DEF f
<1> QED BY <1>3, <1>11, <1>12


LEMMA ShowingIsSound ==
  ASSUME WalkInv, NEW w \in Walkers, walk[w].path # None
  PROVE  Sound(walk[w], w, rows[walk[w].path]) /\ rows[walk[w].path] \in SUBSET Rows
<1>1. Sound(walk[w], w, rows[walk[w].path])
  BY DEF WalkInv, Idle
<1> QED BY <1>1 DEF WalkInv, Sound

\* A cursor that is accepted is the walker's own, and the list is the one it shows.
LEMMA TurnKeeps ==
  ASSUME WalkInv, NEW w \in Walkers, NEW path \in Lists, NEW filters \in DOMAIN Order,
         NEW size \in Sizes, NEW cursor \in Cursors, Turn(w, cursor, path, filters, size)
  PROVE  /\ walk' = [walk EXCEPT ![w] = walk'[w]]
         /\ Sound(walk'[w], w, rows[walk[w].path]) /\ walk'[w].path = walk[w].path
         /\ Len(walk'[w].items) # 0 =>
              Adjoins(walk[w], walk'[w], rows[walk[w].path] \cap Matching(walk[w].filters))
<1> DEFINE old == walk[w]
           new == walk'[w]
           binding == P!Binding(Listing.method, path, w)
           page == Listed(w, path, [cursor |-> cursor, filters |-> filters, size |-> size])
           shown == Shows(page, cursor.direction, old.path, old.filters, old.seen, old.lasting)
<1>1. /\ old.path # None /\ cursor # None /\ page.code = "OK"
      /\ walk' = [walk EXCEPT ![w] = shown]
  BY DEF Turn
<1>2. page = P!Page(rows[path], RequestOf(cursor, filters, size), binding)
  BY DEF Listed, RequestOf
<1> HIDE DEF page, shown
<1>3. new = shown
  BY <1>1 DEF WalkInv
<1>4. PICK v \in Walkers : walk[v].path # None /\ cursor \in {walk[v].next, walk[v].previous}
  BY DEF Cursors
<1> DEFINE s == walk[v]
<1>5. Sound(s, v, rows[s.path])
  BY <1>4, ShowingIsSound
<1>6. /\ cursor.binding = P!Binding(Listing.method, s.path, v)
      /\ cursor.filters = s.filters /\ s.filters \in DOMAIN Order
      /\ cursor.direction \in {"Forward", "Backward"}
      /\ cursor.key \in Matching(s.filters)
  <2>1. /\ s.filters \in DOMAIN Order /\ s.items \in Seq(Matching(s.filters))
        /\ Ascends(s.filters, s.items)
        /\ \/ s.next = None
           \/ Len(s.items) # 0 /\ s.next = Own(v, s, "Forward", Last(s.items))
        /\ \/ s.previous = None
           \/ Len(s.items) # 0 /\ s.previous = Own(v, s, "Backward", s.items[1])
    BY <1>5 DEF Sound
  <2>2. Len(s.items) # 0 =>
          Last(s.items) \in Matching(s.filters) /\ s.items[1] \in Matching(s.filters)
    BY <2>1, PageEnds
  <2> QED BY <1>1, <1>4, <2>1, <2>2 DEF Own, P!Mint
<1>7. binding \in Bindings /\ rows[path] \in SUBSET Rows /\ size \in Nat
  BY ServingAssumption DEF P!Binding, Bindings, WalkInv
<1>8. PageHolds(page, rows[path] \cap Matching(s.filters), cursor, s.filters,
                cursor.direction, binding)
  <2> HIDE DEF s, binding
  <2> QED BY <1>1, <1>2, <1>6, <1>7, PageOfCursor
<1>9. v = w /\ path = old.path
  <2>1. cursor.binding = binding
    BY <1>1, <1>8 DEF PageHolds
  <2> QED BY <1>6, <2>1 DEF P!Binding
<1>10. /\ cursor \in {old.next, old.previous} /\ Sound(old, w, rows[old.path])
       /\ PageHolds(page, rows[old.path] \cap Matching(old.filters), cursor, old.filters,
                    cursor.direction, P!Binding(Listing.method, old.path, w))
       /\ rows[old.path] \in SUBSET Rows
  BY <1>4, <1>5, <1>7, <1>8, <1>9
<1>11. /\ Sound(new, w, rows[old.path])
       /\ Len(new.items) # 0 =>
            Adjoins(old, new, rows[old.path] \cap Matching(old.filters))
  BY <1>1, <1>3, <1>10, TurnIsSound DEF shown
<1>12. new.path = old.path
  BY <1>3 DEF shown, Shows
<1> QED BY <1>1, <1>3, <1>11, <1>12

LEMMA WalkInvStep ==
  ASSUME WalkInv, [Next]_vars
  PROVE  WalkInv'
<1>1. CASE UNCHANGED <<rows, walk>>
  BY <1>1 DEF WalkInv, Sound, Own
<1>2. ASSUME NEW list \in Lists, NEW row \in Rows, RowsChange(list, row)
      PROVE  WalkInv'
  <2>1. /\ rows' \in [Lists -> SUBSET Rows]
        /\ \A path \in Lists : path # list => rows'[path] = rows[path]
        /\ rows[list] \ {row} \subseteq rows'[list]
    BY <1>2 DEF RowsChange, WalkInv
  <2>2. /\ walk' = [w \in Walkers |->
                      IF walk[w].path = list THEN [walk[w] EXCEPT !.lasting = @ \ {row}]
                      ELSE walk[w]]
    BY <1>2 DEF RowsChange
  <2>3. ASSUME NEW w \in Walkers
        PROVE  walk'[w] = Idle \/ Sound(walk'[w], w, rows'[walk'[w].path])
    <3>1. CASE walk[w].path # list
      <4>1. walk'[w] = walk[w]
        BY <2>2, <3>1
      <4>2. CASE walk[w] = Idle
        BY <4>1, <4>2
      <4>3. CASE Sound(walk[w], w, rows[walk[w].path])
        <5>1. rows'[walk[w].path] = rows[walk[w].path]
          BY <2>1, <3>1, <4>3 DEF Sound
        <5> QED BY <4>1, <4>3, <5>1
      <4> QED BY <4>2, <4>3 DEF WalkInv
    <3>2. CASE walk[w].path = list
      <4> DEFINE s == walk[w]
                 t == walk'[w]
      <4>1. Sound(s, w, rows[list])
        BY <3>2, NoneAssumption, ShowingIsSound
      <4>2. t = [s EXCEPT !.lasting = @ \ {row}]
        BY <2>2, <3>2
      <4>3. /\ t.path = s.path /\ t.filters = s.filters /\ t.by = s.by /\ t.items = s.items
            /\ t.next = s.next /\ t.previous = s.previous /\ t.seen = s.seen
        BY <4>2
      <4>4. t.lasting = s.lasting \ {row}
        BY <4>2
      <4> HIDE DEF s, t
      <4>5. Sound(t, w, rows'[list])
        BY <2>1, <4>1, <4>3, <4>4 DEF Sound, Own
      <4> QED BY <3>2, <4>3, <4>5 DEF s, t
    <3> QED BY <3>1, <3>2
  <2>4. walk' = [w \in Walkers |-> walk'[w]]
    BY <2>2
  <2> QED BY <2>1, <2>3, <2>4 DEF WalkInv
<1>3. ASSUME NEW w \in Walkers, NEW path \in Lists, NEW f \in DOMAIN Order,
             NEW size \in Sizes, Begin(w, path, f, size)
      PROVE  WalkInv'
  <2> DEFINE page == Listed(w, path, [cursor |-> None, filters |-> f, size |-> size])
             new == Shows(page, "Begin", path, f, {}, rows[path] \cap Matching(f))
  <2>1. walk' = [walk EXCEPT ![w] = new] /\ rows' = rows /\ page.code = "OK"
    BY <1>3 DEF Begin, Matching
  <2>2. rows[path] \in SUBSET Rows
    BY DEF WalkInv
  <2>3. Sound(new, w, rows[path])
    BY <2>1, <2>2, BeginIsSound DEF Listed
  <2>4. new.path = path
    BY DEF Shows
  <2> HIDE DEF new
  <2> QED BY <2>1, <2>3, <2>4 DEF WalkInv
<1>4. ASSUME NEW w \in Walkers, NEW path \in Lists, NEW f \in DOMAIN Order,
             NEW size \in Sizes, NEW cursor \in Cursors, Turn(w, cursor, path, f, size)
      PROVE  WalkInv'
  <2> DEFINE new == walk'[w]
  <2>1. /\ Sound(new, w, rows[walk[w].path]) /\ new.path = walk[w].path
        /\ walk' = [walk EXCEPT ![w] = new]
    BY <1>4, TurnKeeps
  <2>2. rows' = rows
    BY <1>4 DEF Turn
  <2> HIDE DEF new
  <2> QED BY <2>1, <2>2 DEF WalkInv
<1> QED BY <1>1, <1>2, <1>3, <1>4 DEF Next, Walking, Register, vars

LEMMA WalkInvHolds == Spec => []WalkInv
<1>1. Init => WalkInv
  BY ServingAssumption DEF Init, WalkInv
<1> QED BY <1>1, WalkInvStep, PTL DEF Spec

\* For every list, every set of walkers, every order and any changes of the rows: a walk
\* misses no row that was there all along.
THEOREM WalkMissesNothing == Spec => []NothingMissed
<1>1. WalkInv => NothingMissed
  <2> SUFFICES ASSUME WalkInv, NEW w \in Walkers, walk[w].path # None
               PROVE  LET s == walk[w]
                      IN  /\ s.next = None /\ s.by # "Backward" => s.lasting \subseteq s.seen
                          /\ s.items # <<>> => \A row \in s.lasting :
                               P!Place(s.filters, row) <= P!Place(s.filters, Last(s.items))
                               => row \in s.seen
    BY DEF NothingMissed
  <2>1. Sound(walk[w], w, rows[walk[w].path])
    BY ShowingIsSound
  <2>2. walk[w].items # <<>> => Len(walk[w].items) # 0
    BY <2>1, EmptySeq DEF Sound
  <2> QED BY <2>1, <2>2 DEF Sound
<1> QED BY <1>1, WalkInvHolds, PTL

\* For every list, every set of walkers and every order: a cursor leads to the page next
\* to the one it was given with.
THEOREM CursorsAdjoin == Spec => PagesAdjoin
<1> DEFINE A(w) ==
      LET old == walk[w]
          new == walk'[w]
      IN  /\ new # old /\ rows' = rows /\ new.by \in {"Forward", "Backward"}
          /\ old.items # <<>> /\ new.items # <<>>
          => Adjoins(old, new, rows[old.path] \cap Matching(old.filters))
<1>1. WalkInv /\ [Next]_vars => \A w \in Walkers : A(w)
  <2> SUFFICES ASSUME WalkInv, [Next]_vars, NEW w \in Walkers, walk'[w] # walk[w], rows' = rows,
                      walk'[w].by \in {"Forward", "Backward"},
                      walk[w].items # <<>>, walk'[w].items # <<>>
               PROVE  Adjoins(walk[w], walk'[w],
                              rows[walk[w].path] \cap Matching(walk[w].filters))
    OBVIOUS
  <2>1. ASSUME NEW list \in Lists, NEW row \in Rows, RowsChange(list, row) PROVE FALSE
    <3>1. row \in rows'[list] <=> row \notin rows[list]
      BY <2>1 DEF RowsChange, WalkInv
    <3> QED BY <3>1
  <2>2. ASSUME NEW v \in Walkers, NEW path \in Lists, NEW f \in DOMAIN Order,
               NEW size \in Sizes, Begin(v, path, f, size)
        PROVE  FALSE
    <3>1. v = w
      BY <2>2 DEF Begin, WalkInv
    <3>2. walk'[w].by = "Begin"
      BY <2>2, <3>1 DEF Begin, Shows, WalkInv
    <3> QED BY <3>2
  <2>3. ASSUME NEW v \in Walkers, NEW path \in Lists, NEW f \in DOMAIN Order,
               NEW size \in Sizes, NEW cursor \in Cursors, Turn(v, cursor, path, f, size)
        PROVE  Adjoins(walk[w], walk'[w],
                       rows[walk[w].path] \cap Matching(walk[w].filters))
    <3>1. v = w
      <4>1. walk' = [walk EXCEPT ![v] = walk'[v]]
        BY <2>3, TurnKeeps
      <4> QED BY <4>1 DEF WalkInv
    <3>2. Sound(walk'[w], w, rows[walk[w].path])
      BY <2>3, <3>1, TurnKeeps
    <3>3. Len(walk'[w].items) # 0
      BY <3>2, EmptySeq DEF Sound
    <3> QED BY <2>3, <3>1, <3>3, TurnKeeps
  <2> QED BY <2>1, <2>2, <2>3 DEF Next, Walking, Register, vars
<1>2. WalkInv /\ [Next]_vars => [\A w \in Walkers : A(w)]_vars
  BY <1>1
<1> QED BY <1>2, WalkInvHolds, PTL DEF Spec, PagesAdjoin, Matching

-----------------------------------------------------------------------------
(* Numbers and sequences *)

\* A set of natural numbers has a least one: this stands for induction below.
LEMMA Least ==
  ASSUME NEW T, T \subseteq Nat, T # {}
  PROVE  \E x \in T : \A y \in T : x <= y
<1> DEFINE R == OpToRel(<, Nat)
<1>1. IsWellFoundedOn(R, Nat)
  BY NatLessThanWellFounded
<1>2. \A x \in Nat : \A y \in Nat : x < y => <<x, y>> \in R
  BY DEF OpToRel
<1> HIDE DEF R
<1>3. PICK x \in T : \A y \in T : ~(<<y, x>> \in R)
  BY <1>1, WFMin
<1>4. ASSUME NEW y \in T PROVE x <= y
  <2>1. x \in Nat /\ y \in Nat /\ ~(y < x)
    BY <1>2, <1>3
  <2> QED BY <2>1
<1> QED BY <1>4

\* What holds at 0 and goes from each number below n to the next holds up to n.
LEMMA Upwards ==
  ASSUME NEW n \in Nat, NEW Good, 0 \in Good,
         \A k \in 1..n : k - 1 \in Good => k \in Good
  PROVE  0..n \subseteq Good
<1> SUFFICES ASSUME (0..n) \ Good # {} PROVE FALSE
  OBVIOUS
<1>1. (0..n) \ Good \subseteq Nat
  OBVIOUS
<1>2. PICK k \in (0..n) \ Good : \A j \in (0..n) \ Good : k <= j
  BY <1>1, Least
<1>3. k \in 1..n /\ k - 1 \in 0..n
  BY <1>2
<1>4. k - 1 \in Good
  BY <1>2, <1>3
<1> QED BY <1>2, <1>3, <1>4

Iterating(f, n, first, next) == f[0] = first /\ \A i \in 1..n : f[i] = next[i][f[i - 1]]

\* A first value and a next one for each make a function.
LEMMA Iterates ==
  ASSUME NEW n \in Nat, NEW S, NEW first \in S, NEW next \in [1..n -> [S -> S]]
  PROVE  \E f \in [0..n -> S] : Iterating(f, n, first, next)
<1> DEFINE Runs(f, k) == f[0] = first /\ \A i \in 1..k : f[i] = next[i][f[i - 1]]
           Good == {k \in 0..n : \E f \in [0..k -> S] : Runs(f, k)}
<1>1. 0 \in Good
  <2> DEFINE f == [i \in 0..0 |-> first]
  <2>1. f \in [0..0 -> S] /\ Runs(f, 0)
    OBVIOUS
  <2> HIDE DEF f
  <2>2. 0 \in 0..n
    OBVIOUS
  <2> QED BY <2>1, <2>2
<1>2. ASSUME NEW k \in 1..n, k - 1 \in Good PROVE k \in Good
  <2>1. PICK g \in [0..(k - 1) -> S] : Runs(g, k - 1)
    BY <1>2
  <2>2. k \in Nat /\ k - 1 \in 0..(k - 1) /\ k \in 0..n
    OBVIOUS
  <2> DEFINE f == [i \in 0..k |-> IF i = k THEN next[k][g[k - 1]] ELSE g[i]]
  <2>3. next[k][g[k - 1]] \in S
    BY <2>1, <2>2
  <2>4. f \in [0..k -> S]
    BY <2>1, <2>2, <2>3
  <2>5. f[0] = first
    BY <2>1, <2>2
  <2>6. ASSUME NEW i \in 1..k PROVE f[i] = next[i][f[i - 1]]
    <3>1. i - 1 \in 0..k /\ i - 1 # k /\ i \in 0..k
      BY <2>2
    <3>2. f[i - 1] = g[i - 1]
      BY <3>1
    <3>3. CASE i = k
      BY <3>1, <3>2, <3>3
    <3>4. CASE i # k
      <4>1. i \in 1..(k - 1)
        BY <3>4, <2>2
      <4>2. f[i] = g[i]
        BY <3>1, <3>4
      <4> QED BY <2>1, <3>2, <4>1, <4>2
    <3> QED BY <3>3, <3>4
  <2>7. Runs(f, k)
    BY <2>5, <2>6
  <2> QED BY <2>2, <2>4, <2>7
<1> HIDE DEF Good
<1>3. 0..n \subseteq Good
  BY <1>1, <1>2, Upwards
<1>4. n \in Good
  BY <1>3
<1> USE DEF Good
<1> QED BY <1>4 DEF Iterating

LEMMA PrefixIs ==
  ASSUME NEW S, NEW s \in Seq(S), NEW k \in 0..Len(s)
  PROVE  /\ SubSeq(s, 1, k) \in Seq(S) /\ Len(SubSeq(s, 1, k)) = k
         /\ \A i \in 1..k : SubSeq(s, 1, k)[i] = s[i]
<1>1. Len(s) \in Nat /\ k \in Int /\ 1 \in Int
  BY LenProperties
<1>2. \A i \in 1..k : s[i] \in S
  BY <1>1, ElementOfSeq
<1>3. /\ SubSeq(s, 1, k) \in Seq(S)
      /\ Len(SubSeq(s, 1, k)) = IF 1 <= k THEN k - 1 + 1 ELSE 0
      /\ \A i \in 1..(k - 1 + 1) : SubSeq(s, 1, k)[i] = s[1 + i - 1]
  BY <1>1, <1>2, SubSeqProperties
<1>4. \A i \in 1..k : i \in 1..(k - 1 + 1) /\ 1 + i - 1 = i
  BY <1>1
<1> QED BY <1>1, <1>3, <1>4

LEMMA PrefixOfPrefix ==
  ASSUME NEW S, NEW s \in Seq(S), NEW k \in 0..Len(s), NEW j \in 0..k
  PROVE  SubSeq(SubSeq(s, 1, k), 1, j) = SubSeq(s, 1, j)
<1> DEFINE t == SubSeq(s, 1, k)
<1>1. Len(s) \in Nat /\ j \in 0..Len(s)
  BY LenProperties
<1>2. t \in Seq(S) /\ Len(t) = k /\ \A i \in 1..k : t[i] = s[i]
  BY PrefixIs
<1> HIDE DEF t
<1>3. /\ SubSeq(t, 1, j) \in Seq(S) /\ Len(SubSeq(t, 1, j)) = j
      /\ \A i \in 1..j : SubSeq(t, 1, j)[i] = t[i]
  BY <1>2, PrefixIs
<1>4. /\ SubSeq(s, 1, j) \in Seq(S) /\ Len(SubSeq(s, 1, j)) = j
      /\ \A i \in 1..j : SubSeq(s, 1, j)[i] = s[i]
  BY <1>1, PrefixIs
<1>5. \A i \in 1..j : i \in 1..k
  BY <1>1
<1>6. SubSeq(t, 1, j) = SubSeq(s, 1, j)
  BY <1>2, <1>3, <1>4, <1>5, SeqEqual
<1> QED BY <1>6 DEF t

LEMMA PrefixGrows ==
  ASSUME NEW S, NEW s \in Seq(S), NEW k \in 1..Len(s)
  PROVE  SubSeq(s, 1, k) = Append(SubSeq(s, 1, k - 1), s[k])
<1>1. Len(s) \in Nat /\ k \in 0..Len(s) /\ k - 1 \in 0..Len(s) /\ s[k] \in S
  BY LenProperties, ElementOfSeq
<1> DEFINE t == SubSeq(s, 1, k - 1)
           u == SubSeq(s, 1, k)
<1>2. t \in Seq(S) /\ Len(t) = k - 1 /\ \A i \in 1..(k - 1) : t[i] = s[i]
  BY <1>1, PrefixIs
<1>3. u \in Seq(S) /\ Len(u) = k /\ \A i \in 1..k : u[i] = s[i]
  BY <1>1, PrefixIs
<1> HIDE DEF t, u
<1>4. /\ Append(t, s[k]) \in Seq(S) /\ Len(Append(t, s[k])) = Len(t) + 1
      /\ \A i \in 1..Len(t) : Append(t, s[k])[i] = t[i]
      /\ Append(t, s[k])[Len(t) + 1] = s[k]
  BY <1>1, <1>2, AppendProperties
<1>5. ASSUME NEW i \in 1..k PROVE Append(t, s[k])[i] = u[i]
  <2>1. i \in 1..(k - 1) \/ i = k
    BY <1>1
  <2>2. Len(t) + 1 = k
    BY <1>1, <1>2
  <2>3. CASE i = k
    BY <1>3, <1>4, <2>2, <2>3
  <2>4. CASE i \in 1..(k - 1)
    BY <1>2, <1>3, <1>4, <2>4
  <2> QED BY <2>1, <2>3, <2>4
<1>6. Len(Append(t, s[k])) = k
  BY <1>1, <1>2, <1>4
<1>7. u = Append(t, s[k])
  BY <1>3, <1>4, <1>5, <1>6, SeqEqual
<1> QED BY <1>7 DEF t, u

LEMMA ConcatAppend ==
  ASSUME NEW S, NEW s \in Seq(S), NEW t \in Seq(S), NEW x \in S
  PROVE  s \o Append(t, x) = Append(s \o t, x)
<1>1. <<x>> \in Seq(S) /\ s \o t \in Seq(S)
  BY ConcatProperties
<1>2. Append(t, x) = t \o <<x>> /\ Append(s \o t, x) = (s \o t) \o <<x>>
  BY <1>1, AppendIsConcat
<1> QED BY <1>1, <1>2, ConcatAssociative

-----------------------------------------------------------------------------
(* What is left of a sequence of texts *)

Keeping(f, texts, dropped) ==
  /\ f[0] = <<>>
  /\ \A i \in 1..Len(texts) :
       f[i] = IF texts[i] \in dropped THEN f[i - 1] ELSE Append(f[i - 1], texts[i])

LEMMA WithoutIs ==
  ASSUME NEW S, NEW texts \in Seq(S), NEW dropped
  PROVE  \E f \in [0..Len(texts) -> Seq(S)] :
           Keeping(f, texts, dropped) /\ Without(texts, dropped) = f[Len(texts)]
<1> DEFINE n == Len(texts)
           next == [i \in 1..n |-> [t \in Seq(S) |->
                      IF texts[i] \in dropped THEN t ELSE Append(t, texts[i])]]
           Body(f) == [i \in 0..n |->
                         IF i = 0 THEN <<>>
                         ELSE IF texts[i] \in dropped THEN f[i - 1]
                         ELSE Append(f[i - 1], texts[i])]
<1>1. n \in Nat /\ <<>> \in Seq(S) /\ \A i \in 1..n : texts[i] \in S
  BY LenProperties, ElementOfSeq, EmptySeq
<1>2. \A i \in 1..n, t \in Seq(S) : Append(t, texts[i]) \in Seq(S)
  BY <1>1, AppendProperties
<1> HIDE DEF n
<1>3. next \in [1..n -> [Seq(S) -> Seq(S)]]
  BY <1>2
<1>4. \A i \in 1..n, t \in Seq(S) :
        next[i][t] = IF texts[i] \in dropped THEN t ELSE Append(t, texts[i])
  OBVIOUS
<1> HIDE DEF next
<1>5. PICK f \in [0..n -> Seq(S)] : f[0] = <<>> /\ \A i \in 1..n : f[i] = next[i][f[i - 1]]
  <2> DEFINE Q == Seq(S)
             first == <<>>
  <2>1. first \in Q /\ next \in [1..n -> [Q -> Q]]
    BY <1>1, <1>3
  <2> HIDE DEF Q, first
  <2>2. \E f \in [0..n -> Q] : Iterating(f, n, first, next)
    BY <1>1, <2>1, Iterates
  <2> QED BY <2>2 DEF Q, first, Iterating
<1>6. ASSUME NEW i \in 1..n
      PROVE  f[i] = IF texts[i] \in dropped THEN f[i - 1] ELSE Append(f[i - 1], texts[i])
  <2>1. i - 1 \in 0..n
    BY <1>1
  <2> QED BY <2>1, <1>4, <1>5
<1>7. \A i \in 0..n : i = 0 \/ i \in 1..n
  BY <1>1
<1>8. f = Body(f)
  <2>1. \A i \in 0..n : f[i] = Body(f)[i]
    BY <1>5, <1>6, <1>7
  <2> QED BY <1>5, <2>1
<1> DEFINE g == CHOOSE h : h = Body(h)
<1>9. g = Body(g)
  BY <1>8
<1>10. Without(texts, dropped) = g[n]
  BY DEF Without, n
<1> HIDE DEF g
<1>11. /\ g[0] = <<>>
       /\ \A i \in 1..n : g[i] = IF texts[i] \in dropped THEN g[i - 1] ELSE Append(g[i - 1], texts[i])
  <2>1. \A i \in 0..n : g[i] = Body(g)[i]
    BY <1>9
  <2>2. 0 \in 0..n /\ \A i \in 1..n : i \in 0..n /\ i # 0
    BY <1>1
  <2> QED BY <2>1, <2>2
<1> HIDE DEF Body
<1>12. 0..n \subseteq {i \in 0..n : g[i] = f[i]}
  <2> DEFINE Good == {i \in 0..n : g[i] = f[i]}
  <2>1. 0 \in Good
    BY <1>1, <1>5, <1>11
  <2>2. ASSUME NEW k \in 1..n, k - 1 \in Good PROVE k \in Good
    BY <1>6, <1>11, <2>2
  <2> HIDE DEF Good
  <2>3. 0..n \subseteq Good
    BY <1>1, <2>1, <2>2, Upwards
  <2> QED BY <2>3 DEF Good
<1>13. n \in 0..n
  BY <1>1
<1> QED BY <1>5, <1>6, <1>10, <1>12, <1>13 DEF Keeping, n

LEMMA WithoutType ==
  ASSUME NEW S, NEW texts \in Seq(S), NEW dropped
  PROVE  Without(texts, dropped) \in Seq(S)
<1>1. Len(texts) \in Nat
  BY LenProperties
<1>2. Len(texts) \in 0..Len(texts)
  BY <1>1
<1> QED BY <1>2, WithoutIs

\* One text more or less.
LEMMA WithoutAppend ==
  ASSUME NEW S, NEW texts \in Seq(S), NEW text \in S, NEW dropped
  PROVE  Without(Append(texts, text), dropped) =
           IF text \in dropped THEN Without(texts, dropped)
           ELSE Append(Without(texts, dropped), text)
<1> DEFINE n == Len(texts)
           more == Append(texts, text)
<1>1. n \in Nat
  BY LenProperties
<1>2. more \in Seq(S) /\ Len(more) = n + 1 /\ more[n + 1] = text
      /\ \A i \in 1..n : more[i] = texts[i]
  BY <1>1, AppendProperties
<1>3. PICK f \in [0..n -> Seq(S)] :
        Keeping(f, texts, dropped) /\ Without(texts, dropped) = f[n]
  BY WithoutIs
<1> HIDE DEF more
<1>4. PICK g \in [0..Len(more) -> Seq(S)] :
        Keeping(g, more, dropped) /\ Without(more, dropped) = g[Len(more)]
  BY <1>2, WithoutIs
<1> DEFINE Good == {i \in 0..n : g[i] = f[i]}
<1>5. 0 \in Good
  BY <1>1, <1>3, <1>4 DEF Keeping
<1>6. ASSUME NEW k \in 1..n, k - 1 \in Good PROVE k \in Good
  <2>1. k \in 1..Len(more) /\ k \in 0..n /\ more[k] = texts[k]
    BY <1>1, <1>2
  <2> QED BY <1>3, <1>4, <1>6, <2>1 DEF Keeping
<1> HIDE DEF Good
<1>7. 0..n \subseteq Good
  BY <1>1, <1>5, <1>6, Upwards
<1>8. n \in 0..n /\ n + 1 \in 1..Len(more) /\ n + 1 - 1 = n
  BY <1>1, <1>2
<1>9. g[n] = f[n]
  BY <1>7, <1>8 DEF Good
<1>10. g[n + 1] = IF text \in dropped THEN f[n] ELSE Append(f[n], text)
  <2>1. g[n + 1] = IF more[n + 1] \in dropped THEN g[n + 1 - 1]
                   ELSE Append(g[n + 1 - 1], more[n + 1])
    BY <1>4, <1>8 DEF Keeping
  <2> QED BY <2>1, <1>2, <1>8, <1>9
<1> QED BY <1>2, <1>3, <1>4, <1>8, <1>10 DEF more

LEMMA WithoutNothing ==
  ASSUME NEW dropped PROVE Without(<<>>, dropped) = <<>>
<1>1. <<>> \in Seq({}) /\ Len(<<>>) = 0
  BY EmptySeq
<1>2. \E f \in [0..Len(<<>>) -> Seq({})] :
        Keeping(f, <<>>, dropped) /\ Without(<<>>, dropped) = f[Len(<<>>)]
  BY <1>1, WithoutIs
<1> QED BY <1>1, <1>2 DEF Keeping

LEMMA WithoutConcat ==
  ASSUME NEW S, NEW s \in Seq(S), NEW t \in Seq(S), NEW dropped
  PROVE  Without(s \o t, dropped) = Without(s, dropped) \o Without(t, dropped)
<1> DEFINE n == Len(t)
           T(k) == SubSeq(t, 1, k)
           W(x) == Without(x, dropped)
           Good == {k \in 0..n : W(s \o T(k)) = W(s) \o W(T(k))}
<1>1. n \in Nat /\ \A k \in 1..n : t[k] \in S
  BY LenProperties, ElementOfSeq
<1>2. \A x \in Seq(S) : W(x) \in Seq(S)
  BY WithoutType
<1>3. 0 \in Good
  <2>1. T(0) = <<>>
    BY SubSeqEmpty
  <2>2. s \o <<>> = s /\ W(s) \o <<>> = W(s)
    BY <1>2, ConcatEmptySeq
  <2>3. W(<<>>) = <<>>
    BY WithoutNothing
  <2> HIDE DEF W, T
  <2>4. 0 \in 0..n
    BY <1>1
  <2> QED BY <2>1, <2>2, <2>3, <2>4
<1>4. ASSUME NEW k \in 1..n, k - 1 \in Good PROVE k \in Good
  <2> DEFINE u == T(k - 1)
             x == t[k]
  <2>1. u \in Seq(S) /\ x \in S /\ T(k) = Append(u, x)
    BY <1>1, PrefixIs, PrefixGrows
  <2>2. W(s \o u) = W(s) \o W(u)
    BY <1>4
  <2> HIDE DEF u, x, T
  <2>3. s \o Append(u, x) = Append(s \o u, x)
    BY <2>1, ConcatAppend
  <2>4. s \o u \in Seq(S)
    BY <2>1, ConcatProperties
  <2>5. W(Append(s \o u, x)) = IF x \in dropped THEN W(s \o u) ELSE Append(W(s \o u), x)
    BY <2>1, <2>4, WithoutAppend
  <2>6. W(Append(u, x)) = IF x \in dropped THEN W(u) ELSE Append(W(u), x)
    BY <2>1, WithoutAppend
  <2>7. W(s) \in Seq(S) /\ W(u) \in Seq(S)
    BY <1>2, <2>1
  <2>8. W(s) \o Append(W(u), x) = Append(W(s) \o W(u), x)
    BY <2>1, <2>7, ConcatAppend
  <2> HIDE DEF W
  <2>9. W(s \o T(k)) = W(s) \o W(T(k))
    BY <2>1, <2>2, <2>3, <2>5, <2>6, <2>8
  <2> QED BY <2>9, <1>1
<1> HIDE DEF Good
<1>5. 0..n \subseteq Good
  BY <1>1, <1>3, <1>4, Upwards
<1>6. n \in Good
  BY <1>1, <1>5
<1>7. T(n) = t
  BY SubSeqFull
<1> QED BY <1>6, <1>7 DEF Good

LEMMA WithoutAll ==
  ASSUME NEW S, NEW s \in Seq(S), NEW dropped, \A i \in 1..Len(s) : s[i] \in dropped
  PROVE  Without(s, dropped) = <<>>
<1>1. Len(s) \in Nat
  BY LenProperties
<1>2. PICK f \in [0..Len(s) -> Seq(S)] :
        Keeping(f, s, dropped) /\ Without(s, dropped) = f[Len(s)]
  BY WithoutIs
<1> DEFINE Good == {i \in 0..Len(s) : f[i] = <<>>}
<1>3. 0 \in Good
  BY <1>1, <1>2 DEF Keeping
<1>4. ASSUME NEW k \in 1..Len(s), k - 1 \in Good PROVE k \in Good
  BY <1>1, <1>2, <1>4 DEF Keeping
<1> HIDE DEF Good
<1>5. 0..Len(s) \subseteq Good
  BY <1>1, <1>3, <1>4, Upwards
<1>6. Len(s) \in Good
  BY <1>1, <1>5
<1> QED BY <1>2, <1>6 DEF Good

-----------------------------------------------------------------------------
(* The trie of the routes added so far *)

Marks == STRING \cup {Wild}
IsRoute(route) == route.pattern \in Seq([param : BOOLEAN, text : STRING])
Leaf(route) == Edges(route.pattern)
Stem(route, l) == SubSeq(Leaf(route), 1, l)

LEMMA LeafIs ==
  ASSUME NEW r, IsRoute(r)
  PROVE  /\ Len(r.pattern) \in Nat /\ DOMAIN r.pattern = 1..Len(r.pattern)
         /\ Leaf(r) \in Seq(Marks) /\ Len(Leaf(r)) = Len(r.pattern)
         /\ \A i \in 1..Len(r.pattern) :
              /\ r.pattern[i] \in [param : BOOLEAN, text : STRING]
              /\ Leaf(r)[i] = IF r.pattern[i].param THEN Wild ELSE r.pattern[i].text
              /\ Leaf(r)[i] = Wild <=> r.pattern[i].param
<1> DEFINE p == r.pattern
           n == Len(p)
<1>1. n \in Nat /\ DOMAIN p = 1..n /\ p \in [1..n -> [param : BOOLEAN, text : STRING]]
  BY LenProperties DEF IsRoute
<1> HIDE DEF p
<1>2. Leaf(r) = [i \in 1..n |-> IF p[i].param THEN Wild ELSE p[i].text]
  BY <1>1 DEF p, Leaf, Edges, Edge
<1>3. ASSUME NEW i \in 1..n
      PROVE  /\ p[i] \in [param : BOOLEAN, text : STRING]
             /\ Leaf(r)[i] = IF p[i].param THEN Wild ELSE p[i].text
             /\ Leaf(r)[i] = Wild <=> p[i].param
             /\ Leaf(r)[i] \in Marks
  <2>1. p[i] \in [param : BOOLEAN, text : STRING]
    BY <1>1
  <2>2. p[i].param \in BOOLEAN /\ p[i].text \in STRING /\ Wild \notin STRING
    BY <2>1, TextAssumption
  <2>3. Leaf(r)[i] = IF p[i].param THEN Wild ELSE p[i].text
    BY <1>2
  <2> HIDE DEF n
  <2>4. CASE p[i].param
    BY <2>1, <2>2, <2>3, <2>4 DEF Marks
  <2>5. CASE ~p[i].param
    BY <2>1, <2>2, <2>3, <2>5 DEF Marks
  <2> QED BY <2>4, <2>5
<1> HIDE DEF n
<1>4. DOMAIN Leaf(r) = 1..n /\ Leaf(r) \in [1..n -> Marks]
  BY <1>2, <1>3
<1>5. Leaf(r) \in Seq(Marks)
  BY <1>1, <1>4
<1>6. Len(Leaf(r)) = n
  BY <1>1, <1>4, <1>5
<1> QED BY <1>1, <1>3, <1>5, <1>6 DEF n, p

LEMMA StemIs ==
  ASSUME NEW r, IsRoute(r), NEW l \in 0..Len(r.pattern)
  PROVE  /\ Stem(r, l) \in Seq(Marks) /\ Len(Stem(r, l)) = l
         /\ \A i \in 1..l : Stem(r, l)[i] = Leaf(r)[i]
         /\ \A i \in 0..l : SubSeq(Stem(r, l), 1, i) = Stem(r, i)
<1>1. Leaf(r) \in Seq(Marks) /\ Len(Leaf(r)) = Len(r.pattern)
  BY LeafIs
<1> QED BY <1>1, PrefixIs, PrefixOfPrefix DEF Stem

LEMMA StemGrows ==
  ASSUME NEW r, IsRoute(r), NEW l \in 1..Len(r.pattern)
  PROVE  Stem(r, l) = Append(Stem(r, l - 1), Leaf(r)[l])
<1>1. Leaf(r) \in Seq(Marks) /\ Len(Leaf(r)) = Len(r.pattern)
  BY LeafIs
<1> QED BY <1>1, PrefixGrows DEF Stem

LEMMA StemEnds ==
  ASSUME NEW r, IsRoute(r)
  PROVE  Stem(r, 0) = <<>> /\ Stem(r, Len(r.pattern)) = Leaf(r)
<1>1. Leaf(r) \in Seq(Marks) /\ Len(Leaf(r)) = Len(r.pattern)
  BY LeafIs
<1>2. SubSeq(Leaf(r), 1, 0) = <<>>
  BY SubSeqEmpty
<1> QED BY <1>1, <1>2, SubSeqFull DEF Stem

NodesHold(t, added) ==
  /\ \A node \in t.nodes : node = <<>> \/ \E r \in added : \E l \in 0..Len(r.pattern) : node = Stem(r, l)
  /\ <<>> \in t.nodes
  /\ \A r \in added : \A l \in 0..Len(r.pattern) : Stem(r, l) \in t.nodes

HandlersHold(t, added) ==
  /\ \A r \in added : <<Leaf(r), r.method>> \in DOMAIN t.handlers
  /\ \A key \in DOMAIN t.handlers :
       /\ t.handlers[key] \in added
       /\ key = <<Leaf(t.handlers[key]), t.handlers[key].method>>

\* The name of a parameter child is one that some route gave it.
Named(t, node, r) ==
  /\ Len(node) + 1 \in 1..Len(r.pattern) /\ node = Stem(r, Len(node))
  /\ r.pattern[Len(node) + 1].param
  /\ t.names[node] = r.pattern[Len(node) + 1].text

NamesHold(t, added) ==
  /\ \A r \in added : \A i \in 1..Len(r.pattern) : r.pattern[i].param => Stem(r, i - 1) \in DOMAIN t.names
  /\ \A node \in DOMAIN t.names : \E r \in added : Named(t, node, r)

TrieHolds(t, added) ==
  /\ \A r \in added : IsRoute(r)
  /\ NodesHold(t, added) /\ HandlersHold(t, added) /\ NamesHold(t, added)

LEMMA EmptyTrieHolds == TrieHolds(EmptyTrie, {})
<1>1. DOMAIN EmptyTrie.handlers = {} /\ DOMAIN EmptyTrie.names = {} /\ EmptyTrie.nodes = {<<>>}
  BY EmptySeq DEF EmptyTrie
<1> QED BY <1>1 DEF TrieHolds, NodesHold, HandlersHold, NamesHold

LEMMA AddRouteHolds ==
  ASSUME NEW t, NEW added, NEW route, IsRoute(route), TrieHolds(t, added)
  PROVE  TrieHolds(AddRoute(t, route), added \cup {route})
<1> DEFINE new == AddRoute(t, route)
           leaf == Leaf(route)
           params == {i \in DOMAIN route.pattern : route.pattern[i].param}
           forks == {SubSeq(leaf, 1, i - 1) : i \in params}
           all == added \cup {route}
<1>1. /\ new.nodes = t.nodes \cup Prefixes(leaf)
      /\ new.names = [node \in DOMAIN t.names \cup forks |->
                        IF node \in DOMAIN t.names THEN t.names[node]
                        ELSE route.pattern[Len(node) + 1].text]
      /\ new.handlers = Put(t.handlers, <<leaf, route.method>>, route)
  BY DEF AddRoute, Leaf
<1>2. /\ Len(leaf) = Len(route.pattern) /\ Len(route.pattern) \in Nat
      /\ DOMAIN route.pattern = 1..Len(route.pattern)
  BY LeafIs
<1>3. \A r \in all : IsRoute(r)
  BY DEF TrieHolds
<1>4. Prefixes(leaf) = {Stem(route, l) : l \in 0..Len(route.pattern)}
  BY <1>2 DEF Prefixes, Stem
<1>5. forks = {Stem(route, i - 1) : i \in params}
  BY DEF Stem
<1> HIDE DEF new, forks
<1>6. NodesHold(new, all)
  <2>1. NodesHold(t, added)
    BY DEF TrieHolds
  <2>2. \A node \in new.nodes : node = <<>> \/ \E r \in all : \E l \in 0..Len(r.pattern) : node = Stem(r, l)
    BY <1>1, <1>4, <2>1 DEF NodesHold
  <2>3. <<>> \in new.nodes /\ \A r \in all : \A l \in 0..Len(r.pattern) : Stem(r, l) \in new.nodes
    BY <1>1, <1>4, <2>1 DEF NodesHold
  <2> QED BY <2>2, <2>3 DEF NodesHold
<1>7. HandlersHold(new, all)
  <2>1. HandlersHold(t, added)
    BY DEF TrieHolds
  <2>2. DOMAIN new.handlers = DOMAIN t.handlers \cup {<<leaf, route.method>>}
    BY <1>1 DEF Put
  <2>3. \A key \in DOMAIN new.handlers :
          new.handlers[key] = IF key = <<leaf, route.method>> THEN route ELSE t.handlers[key]
    BY <1>1 DEF Put
  <2>4. \A r \in all : <<Leaf(r), r.method>> \in DOMAIN new.handlers
    BY <2>1, <2>2 DEF HandlersHold
  <2>5. ASSUME NEW key \in DOMAIN new.handlers
        PROVE  /\ new.handlers[key] \in all
               /\ key = <<Leaf(new.handlers[key]), new.handlers[key].method>>
    <3>1. CASE key = <<leaf, route.method>>
      BY <2>3, <3>1
    <3>2. CASE key # <<leaf, route.method>>
      <4>1. key \in DOMAIN t.handlers /\ new.handlers[key] = t.handlers[key]
        BY <2>2, <2>3, <3>2
      <4> QED BY <2>1, <4>1 DEF HandlersHold
    <3> QED BY <3>1, <3>2
  <2> QED BY <2>4, <2>5 DEF HandlersHold
<1>8. NamesHold(new, all)
  <2>1. NamesHold(t, added)
    BY DEF TrieHolds
  <2>2. DOMAIN new.names = DOMAIN t.names \cup forks
    BY <1>1
  <2>3. ASSUME NEW r \in all, NEW i \in 1..Len(r.pattern), r.pattern[i].param
        PROVE  Stem(r, i - 1) \in DOMAIN new.names
    <3>1. CASE r \in added
      BY <2>1, <2>2, <2>3, <3>1 DEF NamesHold
    <3>2. CASE r = route
      <4>1. i \in params
        BY <1>2, <2>3, <3>2
      <4> QED BY <1>5, <2>2, <3>2, <4>1
    <3> QED BY <3>1, <3>2
  <2>4. ASSUME NEW node \in DOMAIN new.names PROVE \E r \in all : Named(new, node, r)
    <3>1. CASE node \in DOMAIN t.names
      <4>1. new.names[node] = t.names[node]
        BY <1>1, <2>2, <3>1
      <4>2. PICK r \in added : Named(t, node, r)
        BY <2>1, <3>1 DEF NamesHold
      <4>3. Named(new, node, r)
        BY <4>1, <4>2 DEF Named
      <4> QED BY <4>3
    <3>2. CASE node \notin DOMAIN t.names
      <4>1. PICK i \in params : node = Stem(route, i - 1)
        BY <1>5, <2>2, <3>2
      <4>2. i \in 1..Len(route.pattern) /\ route.pattern[i].param /\ i - 1 \in 0..Len(route.pattern)
        BY <1>2
      <4>3. Len(node) = i - 1 /\ Len(node) + 1 = i
        BY <1>2, <4>1, <4>2, StemIs
      <4>4. new.names[node] = route.pattern[Len(node) + 1].text
        BY <1>1, <2>2, <3>2
      <4>5. Named(new, node, route)
        BY <4>1, <4>2, <4>3, <4>4 DEF Named
      <4> QED BY <4>5
    <3> QED BY <3>1, <3>2
  <2> QED BY <2>3, <2>4 DEF NamesHold
<1> QED BY <1>3, <1>6, <1>7, <1>8 DEF TrieHolds, new

-----------------------------------------------------------------------------
(* The walk *)

ParamMaps == UNION {[D -> STRING] : D \in SUBSET STRING}
Positions(t) == [lost : BOOLEAN, node : t.nodes, params : ParamMaps]
Start == [lost |-> FALSE, node |-> <<>>, params |-> <<>>]

Walks(W, t, s) ==
  W[0] = Start /\ \A i \in 1..Len(s) : W[i] = Step(t, W[i - 1], s[i])

LEMMA NodesAre ==
  ASSUME NEW t, NEW added, TrieHolds(t, added), NEW node \in t.nodes
  PROVE  /\ node \in Seq(Marks)
         /\ \A i \in 0..Len(node) : SubSeq(node, 1, i) \in t.nodes
<1>1. CASE node = <<>>
  <2>1. <<>> \in Seq(Marks) /\ Len(<<>>) = 0
    BY EmptySeq
  <2>2. \A i \in 0..0 : SubSeq(<<>>, 1, i) = <<>>
    BY SubSeqEmpty
  <2> QED BY <1>1, <2>1, <2>2 DEF TrieHolds, NodesHold
<1>2. CASE node # <<>>
  <2>1. PICK r \in added : \E l \in 0..Len(r.pattern) : node = Stem(r, l)
    BY <1>2 DEF TrieHolds, NodesHold
  <2>2. PICK l \in 0..Len(r.pattern) : node = Stem(r, l)
    BY <2>1
  <2>3. IsRoute(r) /\ Len(r.pattern) \in Nat
    BY LeafIs DEF TrieHolds
  <2>4. Stem(r, l) \in Seq(Marks) /\ Len(Stem(r, l)) = l /\ \A i \in 0..l : SubSeq(Stem(r, l), 1, i) = Stem(r, i)
    BY <2>2, <2>3, StemIs
  <2>5. \A i \in 0..l : Stem(r, i) \in t.nodes
    BY <2>2, <2>3 DEF TrieHolds, NodesHold
  <2> QED BY <2>2, <2>4, <2>5
<1> QED BY <1>1, <1>2

\* A node that ends in an edge is the stem of a route that has this edge there.
LEMMA NodeEnds ==
  ASSUME NEW t, NEW added, TrieHolds(t, added), NEW node \in Seq(Marks), NEW mark \in Marks,
         Append(node, mark) \in t.nodes
  PROVE  \E r \in added : /\ Len(node) + 1 \in 1..Len(r.pattern)
                          /\ node = Stem(r, Len(node)) /\ Leaf(r)[Len(node) + 1] = mark
<1>1. Append(node, mark) # <<>>
  BY AppendProperties
<1>2. PICK r \in added : \E l \in 0..Len(r.pattern) : Append(node, mark) = Stem(r, l)
  BY <1>1 DEF TrieHolds, NodesHold
<1>3. PICK l \in 0..Len(r.pattern) : Append(node, mark) = Stem(r, l)
  BY <1>2
<1>4. IsRoute(r) /\ Len(r.pattern) \in Nat
  BY LeafIs DEF TrieHolds
<1>5. Stem(r, 0) = <<>>
  BY <1>4, StemEnds
<1>6. l \in 1..Len(r.pattern) /\ l - 1 \in 0..Len(r.pattern)
  BY <1>1, <1>3, <1>4, <1>5
<1>7. Stem(r, l) = Append(Stem(r, l - 1), Leaf(r)[l])
  BY <1>4, <1>6, StemGrows
<1>8. Stem(r, l - 1) \in Seq(Marks) /\ Len(Stem(r, l - 1)) = l - 1
  BY <1>4, <1>6, StemIs
<1>9. Leaf(r)[l] \in Marks
  BY <1>4, <1>6, LeafIs, ElementOfSeq
<1>10. node = Stem(r, l - 1) /\ mark = Leaf(r)[l]
  BY <1>3, <1>7, <1>8, <1>9, AppendInjective
<1>11. Len(node) = l - 1 /\ Len(node) + 1 = l
  BY <1>6, <1>8, <1>10
<1> QED BY <1>6, <1>10, <1>11

LEMMA ForkIsNamed ==
  ASSUME NEW t, NEW added, TrieHolds(t, added), NEW node \in Seq(Marks),
         Append(node, Wild) \in t.nodes
  PROVE  node \in DOMAIN t.names /\ t.names[node] \in STRING
<1>1. Wild \in Marks
  BY DEF Marks
<1>2. PICK r \in added : /\ Len(node) + 1 \in 1..Len(r.pattern)
                         /\ node = Stem(r, Len(node)) /\ Leaf(r)[Len(node) + 1] = Wild
  BY <1>1, NodeEnds
<1>3. IsRoute(r) /\ Len(node) \in Nat
  BY LenProperties DEF TrieHolds
<1>4. r.pattern[Len(node) + 1].param /\ Len(node) + 1 - 1 = Len(node)
  BY <1>2, <1>3, LeafIs
<1>5. node \in DOMAIN t.names
  BY <1>2, <1>4 DEF TrieHolds, NamesHold
<1>6. PICK q \in added : Named(t, node, q)
  BY <1>5 DEF TrieHolds, NamesHold
<1>7. IsRoute(q) /\ Len(node) + 1 \in 1..Len(q.pattern)
  BY <1>6 DEF TrieHolds, Named
<1>8. q.pattern[Len(node) + 1].text \in STRING
  BY <1>7, LeafIs
<1> QED BY <1>5, <1>6, <1>8 DEF Named

LEMMA PutIs ==
  ASSUME NEW map \in ParamMaps, NEW key \in STRING, NEW value \in STRING
  PROVE  /\ Put(map, key, value) \in ParamMaps
         /\ DOMAIN Put(map, key, value) = DOMAIN map \cup {key}
         /\ \A k \in DOMAIN map \cup {key} :
              Put(map, key, value)[k] = IF k = key THEN value ELSE map[k]
<1>1. PICK D \in SUBSET STRING : map \in [D -> STRING]
  BY DEF ParamMaps
<1>2. Put(map, key, value) \in [D \cup {key} -> STRING]
  BY <1>1 DEF Put
<1>3. D \cup {key} \in SUBSET STRING
  OBVIOUS
<1>4. Put(map, key, value) \in ParamMaps
  BY <1>2, <1>3 DEF ParamMaps
<1> QED BY <1>4 DEF Put

\* One round: by the text, by the parameter, or lost.
LEMMA StepIs ==
  ASSUME NEW t, NEW added, TrieHolds(t, added), NEW at \in Positions(t), NEW text \in STRING
  PROVE  LET next == Step(t, at, text)
             here == Append(at.node, text) \in t.nodes
             fork == Append(at.node, Wild) \in t.nodes
         IN  /\ next \in Positions(t)
             /\ next.lost <=> at.lost \/ (~here /\ ~fork)
             /\ ~at.lost /\ here => next = ToText(at, text)
             /\ ~at.lost /\ ~here /\ fork => next = ToParam(t, at, text)
<1> DEFINE next == Step(t, at, text)
           here == Append(at.node, text) \in t.nodes
           fork == Append(at.node, Wild) \in t.nodes
<1>1. at.lost \in BOOLEAN /\ at.node \in t.nodes /\ at.params \in ParamMaps
  BY DEF Positions
<1>2. at.node \in Seq(Marks)
  BY <1>1, NodesAre
<1>3. CASE ~at.lost /\ here
  <2>1. next = ToText(at, text)
    BY <1>3 DEF Step
  <2>2. ToText(at, text) \in Positions(t) /\ ToText(at, text).lost = at.lost
    BY <1>1, <1>3 DEF ToText, Positions
  <2> QED BY <1>3, <2>1, <2>2
<1>4. CASE ~at.lost /\ ~here /\ fork
  <2>1. next = ToParam(t, at, text)
    BY <1>4 DEF Step
  <2>2. t.names[at.node] \in STRING
    BY <1>2, <1>4, ForkIsNamed
  <2>3. Put(at.params, t.names[at.node], text) \in ParamMaps
    BY <1>1, <2>2, PutIs
  <2>4. ToParam(t, at, text) \in Positions(t) /\ ToParam(t, at, text).lost = at.lost
    BY <1>1, <1>4, <2>3 DEF ToParam, Positions
  <2> QED BY <1>4, <2>1, <2>4
<1>5. CASE at.lost \/ (~here /\ ~fork)
  <2>1. next = [at EXCEPT !.lost = TRUE]
    BY <1>5 DEF Step
  <2>2. [at EXCEPT !.lost = TRUE] \in Positions(t) /\ [at EXCEPT !.lost = TRUE].lost = TRUE
    BY <1>1 DEF Positions
  <2> QED BY <1>5, <2>1, <2>2
<1> QED BY <1>3, <1>4, <1>5

LEMMA WalkIs ==
  ASSUME NEW t, NEW added, TrieHolds(t, added), NEW path \in Seq(STRING)
  PROVE  \E W \in [0..Len(Segments(path)) -> Positions(t)] :
           Walks(W, t, Segments(path)) /\ Walk(t, path) = W[Len(Segments(path))]
<1> DEFINE s == Segments(path)
           n == Len(s)
           S == Positions(t)
           first == Start
           next == [i \in 1..n |-> [at \in S |-> Step(t, at, s[i])]]
           Body(f) == [i \in 0..n |-> IF i = 0 THEN Start ELSE Step(t, f[i - 1], s[i])]
<1>1. n \in Nat /\ \A i \in 1..n : s[i] \in STRING
  BY WithoutType, LenProperties, ElementOfSeq DEF Segments
<1>2. Start \in S
  <2>1. <<>> \in t.nodes
    BY DEF TrieHolds, NodesHold
  <2>2. <<>> \in [{} -> STRING] /\ {} \in SUBSET STRING
    OBVIOUS
  <2>3. <<>> \in ParamMaps
    BY <2>2 DEF ParamMaps
  <2> QED BY <2>1, <2>3 DEF Start, Positions
<1> HIDE DEF s, n
<1>3. \A i \in 1..n : \A at \in S : Step(t, at, s[i]) \in S
  BY <1>1, StepIs
<1> HIDE DEF S
<1>4. next \in [1..n -> [S -> S]] /\ \A i \in 1..n : \A at \in S : next[i][at] = Step(t, at, s[i])
  BY <1>3
<1> HIDE DEF first, next
<1>5. first \in S
  BY <1>2 DEF first
<1>6. PICK f \in [0..n -> S] : Iterating(f, n, first, next)
  BY <1>1, <1>4, <1>5, Iterates
<1>7. \A i \in 0..n : i = 0 \/ (i \in 1..n /\ i - 1 \in 0..n)
  BY <1>1
<1>8. f = Body(f)
  <2>1. f[0] = Start /\ \A i \in 1..n : f[i] = next[i][f[i - 1]]
    BY <1>6 DEF Iterating, first
  <2>2. \A i \in 0..n : f[i] = Body(f)[i]
    BY <1>4, <1>7, <2>1
  <2> QED BY <2>2
<1> DEFINE W == CHOOSE h : h = Body(h)
<1>9. W = Body(W)
  BY <1>8
<1>10. Walk(t, path) = W[n]
  BY DEF Walk, n, s, Start
<1> HIDE DEF W
<1>11. DOMAIN W = 0..n /\ W[0] = Start /\ \A i \in 1..n : W[i] = Step(t, W[i - 1], s[i])
  <2>1. DOMAIN W = 0..n /\ \A i \in 0..n : W[i] = Body(W)[i]
    BY <1>9
  <2>2. 0 \in 0..n /\ \A i \in 1..n : i \in 0..n /\ i # 0
    BY <1>1
  <2> QED BY <2>1, <2>2
<1>12. W = [i \in 0..n |-> W[i]]
  BY <1>9
<1> HIDE DEF Body
<1> DEFINE Good == {i \in 0..n : W[i] \in S}
<1>13. 0 \in Good
  BY <1>1, <1>2, <1>11 DEF S
<1>14. ASSUME NEW k \in 1..n, k - 1 \in Good PROVE k \in Good
  <2>1. W[k] = Step(t, W[k - 1], s[k]) /\ W[k - 1] \in S /\ k \in 0..n
    BY <1>1, <1>11, <1>14
  <2> QED BY <1>3, <2>1
<1> HIDE DEF Good
<1>15. 0..n \subseteq Good
  BY <1>1, <1>13, <1>14, Upwards
<1>16. \A i \in 0..n : W[i] \in S
  BY <1>15 DEF Good
<1>17. W \in [0..n -> S]
  BY <1>12, <1>16
<1>18. Walks(W, t, s)
  BY <1>11 DEF Walks, n
<1> QED BY <1>10, <1>17, <1>18 DEF n, s, S

\* The node k edges down that the first k segments lead to, text before parameter.
On(node, t, s, k) ==
  /\ node \in Seq(Marks) /\ Len(node) = k
  /\ \A j \in 1..k :
       /\ SubSeq(node, 1, j) \in t.nodes
       /\ node[j] = IF Append(SubSeq(node, 1, j - 1), s[j]) \in t.nodes THEN s[j] ELSE Wild

\* The parameters met on the way there.
Met(at, t, s, k) ==
  /\ \A x \in DOMAIN at.params : \E j \in 1..k :
       /\ at.node[j] = Wild /\ x = t.names[SubSeq(at.node, 1, j - 1)]
       /\ at.params[x] = s[j]
  /\ \A j \in 1..k : at.node[j] = Wild => t.names[SubSeq(at.node, 1, j - 1)] \in DOMAIN at.params

WalkedTo(at, t, s, k) ==
  /\ ~at.lost => On(at.node, t, s, k) /\ Met(at, t, s, k)
  /\ \A node \in Seq(Marks) : On(node, t, s, k) => ~at.lost /\ at.node = node

\* `more` is `node` and one mark after it.
Grown(more, node, mark, k) ==
  /\ more \in Seq(Marks) /\ Len(more) = k /\ more[k] = mark
  /\ \A j \in 0..(k - 1) : SubSeq(more, 1, j) = SubSeq(node, 1, j)
  /\ \A j \in 1..(k - 1) : more[j] = node[j]
  /\ SubSeq(more, 1, k) = more /\ SubSeq(more, 1, k - 1) = node

LEMMA AppendIs ==
  ASSUME NEW node \in Seq(Marks), NEW mark \in Marks
  PROVE  Grown(Append(node, mark), node, mark, Len(node) + 1)
<1> DEFINE S == Marks
            more == Append(node, mark)
           k == Len(node) + 1
<1>1. /\ more \in Seq(S) /\ Len(more) = k /\ more[k] = mark /\ Len(node) \in Nat
      /\ node \in Seq(S)
      /\ \A j \in 1..Len(node) : more[j] = node[j]
  BY AppendProperties, LenProperties
<1> HIDE DEF more, S
<1>2. ASSUME NEW j \in 0..Len(node) PROVE SubSeq(more, 1, j) = SubSeq(node, 1, j)
  <2>1. j \in 0..Len(more) /\ \A i \in 1..j : i \in 1..Len(node)
    BY <1>1
  <2>2. /\ SubSeq(more, 1, j) \in Seq(S) /\ Len(SubSeq(more, 1, j)) = j
        /\ \A i \in 1..j : SubSeq(more, 1, j)[i] = more[i]
    BY <1>1, <2>1, PrefixIs
  <2>3. /\ SubSeq(node, 1, j) \in Seq(S) /\ Len(SubSeq(node, 1, j)) = j
        /\ \A i \in 1..j : SubSeq(node, 1, j)[i] = node[i]
    BY <1>1, PrefixIs
  <2>4. \A i \in 1..j : SubSeq(more, 1, j)[i] = SubSeq(node, 1, j)[i]
    BY <1>1, <2>1, <2>2, <2>3
  <2> QED BY <2>2, <2>3, <2>4, SeqEqual
<1>3. SubSeq(more, 1, k) = more
  BY <1>1, SubSeqFull
<1>4. SubSeq(more, 1, k - 1) = node
  <2>1. k - 1 = Len(node) /\ Len(node) \in 0..Len(node)
    BY <1>1
  <2>2. SubSeq(node, 1, Len(node)) = node
    BY SubSeqFull
  <2> QED BY <1>2, <2>1, <2>2
<1>5. k \in Nat /\ k - 1 = Len(node)
  BY <1>1
<1> QED BY <1>1, <1>2, <1>3, <1>4, <1>5 DEF Grown, more

LEMMA OnExtends ==
  ASSUME NEW t, NEW s \in Seq(STRING), NEW k \in 1..Len(s), NEW node, On(node, t, s, k - 1),
         NEW mark \in Marks, Append(node, mark) \in t.nodes,
         mark = IF Append(node, s[k]) \in t.nodes THEN s[k] ELSE Wild
  PROVE  On(Append(node, mark), t, s, k)
<1> DEFINE more == Append(node, mark)
<1>1. node \in Seq(Marks) /\ Len(node) = k - 1 /\ k \in Nat /\ Len(node) + 1 = k
  BY LenProperties DEF On
<1>2. Grown(more, node, mark, k)
  BY <1>1, AppendIs
<1>3. more \in t.nodes
  OBVIOUS
<1> HIDE DEF more
<1>4. ASSUME NEW j \in 1..k
      PROVE  /\ SubSeq(more, 1, j) \in t.nodes
             /\ more[j] = IF Append(SubSeq(more, 1, j - 1), s[j]) \in t.nodes THEN s[j] ELSE Wild
  <2>1. CASE j = k
    BY <1>2, <1>3, <2>1 DEF Grown
  <2>2. CASE j # k
    <3>1. j \in 1..(k - 1) /\ j \in 0..(k - 1) /\ j - 1 \in 0..(k - 1)
      BY <1>1, <2>2
    <3>2. /\ SubSeq(node, 1, j) \in t.nodes
          /\ node[j] = IF Append(SubSeq(node, 1, j - 1), s[j]) \in t.nodes THEN s[j] ELSE Wild
      BY <3>1 DEF On
    <3>3. /\ SubSeq(more, 1, j) = SubSeq(node, 1, j) /\ more[j] = node[j]
          /\ SubSeq(more, 1, j - 1) = SubSeq(node, 1, j - 1)
      BY <1>2, <3>1 DEF Grown
    <3> QED BY <3>2, <3>3
  <2> QED BY <2>1, <2>2
<1>5. more \in Seq(Marks) /\ Len(more) = k
  BY <1>2 DEF Grown
<1> QED BY <1>4, <1>5 DEF On, more

LEMMA OnShrinks ==
  ASSUME NEW t, NEW s \in Seq(STRING), NEW k \in 1..Len(s), NEW node, On(node, t, s, k)
  PROVE  LET before == SubSeq(node, 1, k - 1)
         IN  /\ On(before, t, s, k - 1)
             /\ node = Append(before, node[k]) /\ node \in t.nodes
             /\ node[k] = IF Append(before, s[k]) \in t.nodes THEN s[k] ELSE Wild
<1> DEFINE before == SubSeq(node, 1, k - 1)
<1>1. node \in Seq(Marks) /\ Len(node) = k /\ k \in Nat /\ k - 1 \in 0..k /\ k \in 1..k
  BY LenProperties DEF On
<1>2. /\ before \in Seq(Marks) /\ Len(before) = k - 1
      /\ \A j \in 1..(k - 1) : before[j] = node[j]
      /\ \A j \in 0..(k - 1) : SubSeq(before, 1, j) = SubSeq(node, 1, j)
  BY <1>1, PrefixIs, PrefixOfPrefix
<1>3. SubSeq(node, 1, k) = node
  BY <1>1, SubSeqFull
<1>4. node = Append(before, node[k])
  BY <1>1, <1>3, PrefixGrows
<1>5. /\ SubSeq(node, 1, k) \in t.nodes
      /\ node[k] = IF Append(before, s[k]) \in t.nodes THEN s[k] ELSE Wild
  BY <1>1 DEF On
<1>6. \A j \in 1..(k - 1) : j \in 1..k /\ j \in 0..(k - 1) /\ j - 1 \in 0..(k - 1)
  BY <1>1
<1>7. \A j \in 1..k : /\ SubSeq(node, 1, j) \in t.nodes
                      /\ node[j] = IF Append(SubSeq(node, 1, j - 1), s[j]) \in t.nodes THEN s[j] ELSE Wild
  BY DEF On
<1> HIDE DEF before
<1>8. ASSUME NEW j \in 1..(k - 1)
      PROVE  /\ SubSeq(before, 1, j) \in t.nodes
             /\ before[j] = IF Append(SubSeq(before, 1, j - 1), s[j]) \in t.nodes THEN s[j] ELSE Wild
  <2>1. j \in 1..k /\ j \in 0..(k - 1) /\ j - 1 \in 0..(k - 1)
    BY <1>6
  <2>2. /\ before[j] = node[j] /\ SubSeq(before, 1, j) = SubSeq(node, 1, j)
        /\ SubSeq(before, 1, j - 1) = SubSeq(node, 1, j - 1)
    BY <1>2, <2>1
  <2>3. /\ SubSeq(node, 1, j) \in t.nodes
        /\ node[j] = IF Append(SubSeq(node, 1, j - 1), s[j]) \in t.nodes THEN s[j] ELSE Wild
    BY <1>7, <2>1
  <2> QED BY <2>2, <2>3
<1>9. On(before, t, s, k - 1)
  BY <1>2, <1>8 DEF On
<1> QED BY <1>3, <1>4, <1>5, <1>9 DEF before

LEMMA WalkedOn ==
  ASSUME NEW t, NEW added, TrieHolds(t, added), NEW s \in Seq(STRING), NEW k \in 1..Len(s),
         NEW at \in Positions(t), WalkedTo(at, t, s, k - 1)
  PROVE  WalkedTo(Step(t, at, s[k]), t, s, k)
<1> DEFINE next == Step(t, at, s[k])
           here == Append(at.node, s[k]) \in t.nodes
           fork == Append(at.node, Wild) \in t.nodes
<1>1. /\ k \in Nat /\ s[k] \in STRING /\ s[k] # Wild /\ s[k] \in Marks /\ Wild \in Marks
      /\ Len(s) \in Nat
  <2>1. Len(s) \in Nat /\ s[k] \in STRING
    BY LenProperties, ElementOfSeq
  <2>2. Wild \notin STRING
    BY TextAssumption
  <2>3. k \in Nat
    BY <2>1
  <2> QED BY <2>1, <2>2, <2>3 DEF Marks
<1>2. /\ at.lost \in BOOLEAN /\ at.node \in Seq(Marks) /\ at.params \in ParamMaps
  BY NodesAre DEF Positions
<1>3. /\ next \in Positions(t)
      /\ next.lost <=> at.lost \/ (~here /\ ~fork)
      /\ ~at.lost /\ here => next = ToText(at, s[k])
      /\ ~at.lost /\ ~here /\ fork => next = ToParam(t, at, s[k])
  BY <1>1, StepIs
<1>4. /\ ~at.lost /\ here => /\ next.node = Append(at.node, s[k])
                             /\ next.params = at.params
      /\ ~at.lost /\ ~here /\ fork =>
           /\ next.node = Append(at.node, Wild)
           /\ next.params = Put(at.params, t.names[at.node], s[k])
  BY <1>3 DEF ToText, ToParam, Positions
<1> HIDE DEF next
<1>5. ~at.lost => On(at.node, t, s, k - 1) /\ Met(at, t, s, k - 1) /\ Len(at.node) + 1 = k /\ Len(at.node) = k - 1
  BY <1>1 DEF WalkedTo, On
<1>6. ASSUME ~at.lost, here PROVE On(next.node, t, s, k) /\ Met(next, t, s, k)
  <2>1. On(next.node, t, s, k)
    BY <1>1, <1>4, <1>5, <1>6, OnExtends
  <2>2. /\ next.node[k] = s[k] /\ next.params = at.params
        /\ \A j \in 1..(k - 1) : next.node[j] = at.node[j]
        /\ \A j \in 0..(k - 1) : SubSeq(next.node, 1, j) = SubSeq(at.node, 1, j)
    <3>1. Grown(next.node, at.node, s[k], k)
      BY <1>1, <1>2, <1>4, <1>5, <1>6, AppendIs
    <3> QED BY <1>4, <1>6, <3>1 DEF Grown
  <2>3. \A j \in 1..(k - 1) : j \in 1..k /\ j - 1 \in 0..(k - 1)
    BY <1>1
  <2>4. ASSUME NEW x \in DOMAIN next.params
        PROVE  \E j \in 1..k : /\ next.node[j] = Wild /\ x = t.names[SubSeq(next.node, 1, j - 1)]
                               /\ next.params[x] = s[j]
    <3>1. PICK j \in 1..(k - 1) : /\ at.node[j] = Wild /\ x = t.names[SubSeq(at.node, 1, j - 1)]
                                  /\ at.params[x] = s[j]
      BY <1>5, <1>6, <2>2 DEF Met
    <3> QED BY <2>2, <2>3, <3>1
  <2>5. ASSUME NEW j \in 1..k, next.node[j] = Wild
        PROVE  t.names[SubSeq(next.node, 1, j - 1)] \in DOMAIN next.params
    <3>1. j \in 1..(k - 1)
      BY <1>1, <2>2, <2>5
    <3> QED BY <1>5, <1>6, <2>2, <2>3, <2>5, <3>1 DEF Met
  <2>6. Met(next, t, s, k)
    BY <2>4, <2>5 DEF Met
  <2> QED BY <2>1, <2>6
<1>7. ASSUME ~at.lost, ~here, fork PROVE On(next.node, t, s, k) /\ Met(next, t, s, k)
  <2>1. On(next.node, t, s, k)
    BY <1>1, <1>4, <1>5, <1>7, OnExtends
  <2>2. /\ next.node[k] = Wild
        /\ \A j \in 1..(k - 1) : next.node[j] = at.node[j]
        /\ \A j \in 0..(k - 1) : SubSeq(next.node, 1, j) = SubSeq(at.node, 1, j)
        /\ SubSeq(next.node, 1, k - 1) = at.node
    <3>1. Grown(next.node, at.node, Wild, k)
      BY <1>1, <1>2, <1>4, <1>5, <1>7, AppendIs
    <3> QED BY <3>1 DEF Grown
  <2>3. \A j \in 1..(k - 1) : j \in 1..k /\ j - 1 \in 0..(k - 1)
    BY <1>1
  <2>4. t.names[at.node] \in STRING
    BY <1>2, <1>7, ForkIsNamed
  <2>5. /\ DOMAIN next.params = DOMAIN at.params \cup {t.names[at.node]}
        /\ \A x \in DOMAIN at.params \cup {t.names[at.node]} :
             next.params[x] = IF x = t.names[at.node] THEN s[k] ELSE at.params[x]
    <3> DEFINE name == t.names[at.node]
    <3>1. name \in STRING /\ next.params = Put(at.params, name, s[k])
      BY <1>4, <1>7, <2>4
    <3> HIDE DEF name
    <3>2. /\ DOMAIN Put(at.params, name, s[k]) = DOMAIN at.params \cup {name}
          /\ \A x \in DOMAIN at.params \cup {name} :
               Put(at.params, name, s[k])[x] = IF x = name THEN s[k] ELSE at.params[x]
      BY DEF Put
    <3> QED BY <3>1, <3>2 DEF name
  <2>6. ASSUME NEW x \in DOMAIN next.params
        PROVE  \E j \in 1..k : /\ next.node[j] = Wild /\ x = t.names[SubSeq(next.node, 1, j - 1)]
                               /\ next.params[x] = s[j]
    <3>1. CASE x = t.names[at.node]
      <4>1. k \in 1..k /\ next.params[x] = s[k]
        BY <1>1, <2>5, <3>1
      <4> QED BY <2>2, <3>1, <4>1
    <3>2. CASE x # t.names[at.node]
      <4>1. x \in DOMAIN at.params /\ next.params[x] = at.params[x]
        BY <2>5, <3>2
      <4>2. PICK j \in 1..(k - 1) : /\ at.node[j] = Wild /\ x = t.names[SubSeq(at.node, 1, j - 1)]
                                    /\ at.params[x] = s[j]
        BY <1>5, <1>7, <4>1 DEF Met
      <4> QED BY <2>2, <2>3, <4>1, <4>2
    <3> QED BY <3>1, <3>2
  <2>7. ASSUME NEW j \in 1..k, next.node[j] = Wild
        PROVE  t.names[SubSeq(next.node, 1, j - 1)] \in DOMAIN next.params
    <3>1. CASE j = k
      BY <2>2, <2>5, <3>1
    <3>2. CASE j # k
      <4>1. j \in 1..(k - 1)
        BY <1>1, <3>2
      <4> QED BY <1>5, <1>7, <2>2, <2>3, <2>5, <2>7, <4>1 DEF Met
    <3> QED BY <3>1, <3>2
  <2>8. Met(next, t, s, k)
    BY <2>6, <2>7 DEF Met
  <2> QED BY <2>1, <2>8
<1>8. ~next.lost => On(next.node, t, s, k) /\ Met(next, t, s, k)
  BY <1>3, <1>6, <1>7
<1>9. ASSUME NEW node \in Seq(Marks), On(node, t, s, k) PROVE ~next.lost /\ next.node = node
  <2> DEFINE before == SubSeq(node, 1, k - 1)
  <2>1. /\ On(before, t, s, k - 1)
        /\ node = Append(before, node[k]) /\ node \in t.nodes
        /\ node[k] = IF Append(before, s[k]) \in t.nodes THEN s[k] ELSE Wild
    BY <1>9, OnShrinks
  <2> HIDE DEF before
  <2>2. ~at.lost /\ at.node = before
    BY <2>1 DEF WalkedTo, On
  <2> QED BY <1>3, <1>4, <2>1, <2>2
<1> QED BY <1>8, <1>9 DEF WalkedTo, next

LEMMA SegmentsAre ==
  ASSUME NEW path \in Seq(STRING)
  PROVE  /\ Segments(path) \in Seq(STRING) /\ Len(Segments(path)) \in Nat
         /\ \A i \in 1..Len(Segments(path)) : Segments(path)[i] \in STRING /\ Segments(path)[i] # Wild
<1>1. Segments(path) \in Seq(STRING)
  BY WithoutType DEF Segments
<1>2. Wild \notin STRING
  BY TextAssumption
<1> QED BY <1>1, <1>2, LenProperties, ElementOfSeq

LEMMA WalkHolds ==
  ASSUME NEW t, NEW added, TrieHolds(t, added), NEW path \in Seq(STRING)
  PROVE  WalkedTo(Walk(t, path), t, Segments(path), Len(Segments(path)))
<1> DEFINE s == Segments(path)
           n == Len(s)
<1>1. s \in Seq(STRING) /\ n \in Nat
  BY SegmentsAre
<1>2. PICK W \in [0..n -> Positions(t)] : Walks(W, t, s) /\ Walk(t, path) = W[n]
  BY WalkIs
<1> HIDE DEF s
<1> DEFINE Good == {i \in 0..n : WalkedTo(W[i], t, s, i)}
<1>3. 0 \in Good
  <2>1. <<>> \in Seq(Marks) /\ Len(<<>>) = 0 /\ \A node \in Seq(Marks) : Len(node) = 0 => node = <<>>
    BY EmptySeq
  <2>2. On(<<>>, t, s, 0)
    BY <2>1 DEF On
  <2>3. Met(Start, t, s, 0)
    BY DEF Met, Start
  <2>4. \A node \in Seq(Marks) : On(node, t, s, 0) => node = <<>>
    BY <2>1 DEF On
  <2>5. WalkedTo(Start, t, s, 0)
    <3>1. ~Start.lost /\ Start.node = <<>>
      BY DEF Start
    <3> QED BY <3>1, <2>2, <2>3, <2>4 DEF WalkedTo
  <2>6. W[0] = Start /\ 0 \in 0..n
    BY <1>1, <1>2 DEF Walks
  <2> QED BY <2>5, <2>6
<1>4. ASSUME NEW k \in 1..n, k - 1 \in Good PROVE k \in Good
  <2>1. k - 1 \in 0..n /\ k \in 0..n
    BY <1>1
  <2>2. W[k] = Step(t, W[k - 1], s[k]) /\ W[k - 1] \in Positions(t) /\ WalkedTo(W[k - 1], t, s, k - 1)
    BY <1>2, <1>4, <2>1 DEF Walks
  <2>3. WalkedTo(Step(t, W[k - 1], s[k]), t, s, k)
    BY <1>1, <2>2, WalkedOn
  <2> QED BY <2>1, <2>2, <2>3
<1> HIDE DEF Good
<1>5. 0..n \subseteq Good
  BY <1>1, <1>3, <1>4, Upwards
<1>6. n \in Good
  BY <1>1, <1>5
<1> QED BY <1>2, <1>6 DEF Good, s

\* The walk follows a route that fits, unless one that says more there leads it away.
LEMMA OnIsFit ==
  ASSUME NEW t, NEW added, TrieHolds(t, added), NEW s \in Seq(STRING), NEW r \in added
  PROVE  On(Leaf(r), t, s, Len(s)) <=> Fits(r.pattern, s) /\ ~Shadowed(r.pattern, s, added)
<1> DEFINE n == Len(s)
           p == r.pattern
<1>1. /\ n \in Nat /\ Len(p) \in Nat /\ DOMAIN p = 1..Len(p) /\ IsRoute(r)
      /\ Leaf(r) \in Seq(Marks) /\ Len(Leaf(r)) = Len(p)
  BY LeafIs, LenProperties DEF TrieHolds
<1>2. \A i \in 1..n : s[i] \in STRING /\ s[i] # Wild /\ s[i] \in Marks
  <2>1. Wild \notin STRING
    BY TextAssumption
  <2> QED BY <2>1, ElementOfSeq DEF Marks
<1>3. ASSUME NEW i \in 1..Len(p)
      PROVE  /\ p[i].param \in BOOLEAN /\ p[i].text \in STRING
             /\ Leaf(r)[i] = IF p[i].param THEN Wild ELSE p[i].text
             /\ Leaf(r)[i] = Wild <=> p[i].param
             /\ Stem(r, i) = Append(Stem(r, i - 1), Leaf(r)[i])
             /\ Stem(r, i) \in t.nodes
             /\ Stem(r, i - 1) \in Seq(Marks) /\ Len(Stem(r, i - 1)) = i - 1
  <2>1. i \in 0..Len(p) /\ i - 1 \in 0..Len(p)
    BY <1>1
  <2>2. p[i] \in [param : BOOLEAN, text : STRING]
    BY <1>1, LeafIs
  <2>3. Leaf(r)[i] = (IF p[i].param THEN Wild ELSE p[i].text) /\ (Leaf(r)[i] = Wild <=> p[i].param)
    BY <1>1, LeafIs
  <2>4. Stem(r, i) \in t.nodes
    BY <2>1 DEF TrieHolds, NodesHold
  <2>5. Stem(r, i) = Append(Stem(r, i - 1), Leaf(r)[i])
    BY <1>1, StemGrows
  <2>6. Stem(r, i - 1) \in Seq(Marks) /\ Len(Stem(r, i - 1)) = i - 1
    BY <1>1, <2>1, StemIs
  <2> QED BY <2>2, <2>3, <2>4, <2>5, <2>6
\* Another route has the text here, exactly if the trie has a child for it.
<1>4. ASSUME NEW i \in 1..n, i \in 1..Len(p)
      PROVE  Append(Stem(r, i - 1), s[i]) \in t.nodes
             <=> \E other \in added : /\ i <= Len(other.pattern)
                                      /\ other.pattern[i] = Static(s[i])
                                      /\ Stem(other, i - 1) = Stem(r, i - 1)
  <2>1. Stem(r, i - 1) \in Seq(Marks) /\ Len(Stem(r, i - 1)) = i - 1 /\ i - 1 + 1 = i /\ i \in Nat
    BY <1>1, <1>3, <1>4
  <2>2. ASSUME Append(Stem(r, i - 1), s[i]) \in t.nodes
        PROVE  \E other \in added : /\ i <= Len(other.pattern)
                                    /\ other.pattern[i] = Static(s[i])
                                    /\ Stem(other, i - 1) = Stem(r, i - 1)
    <3>1. PICK other \in added : /\ i \in 1..Len(other.pattern)
                                 /\ Stem(r, i - 1) = Stem(other, i - 1) /\ Leaf(other)[i] = s[i]
      BY <1>2, <2>1, <2>2, NodeEnds
    <3>2. IsRoute(other) /\ Len(other.pattern) \in Nat
      BY LeafIs DEF TrieHolds
    <3>3. /\ other.pattern[i] \in [param : BOOLEAN, text : STRING]
          /\ Leaf(other)[i] = IF other.pattern[i].param THEN Wild ELSE other.pattern[i].text
      BY <3>1, <3>2, LeafIs
    <3>4. other.pattern[i].param = FALSE /\ other.pattern[i].text = s[i]
      BY <1>2, <3>1, <3>3
    <3>5. other.pattern[i] = [param |-> FALSE, text |-> s[i]]
      BY <3>3, <3>4
    <3> QED BY <3>1, <3>2, <3>5 DEF Static
  <2>3. ASSUME NEW other \in added, i <= Len(other.pattern), other.pattern[i] = Static(s[i]),
               Stem(other, i - 1) = Stem(r, i - 1)
        PROVE  Append(Stem(r, i - 1), s[i]) \in t.nodes
    <3>1. IsRoute(other) /\ Len(other.pattern) \in Nat
      BY LeafIs DEF TrieHolds
    <3>2. i \in 1..Len(other.pattern) /\ i \in 0..Len(other.pattern)
      BY <2>1, <2>3, <3>1
    <3>3. Leaf(other)[i] = IF other.pattern[i].param THEN Wild ELSE other.pattern[i].text
      BY <3>1, <3>2, LeafIs
    <3>4. Leaf(other)[i] = s[i]
      BY <2>3, <3>3 DEF Static
    <3>5. Stem(other, i) = Append(Stem(r, i - 1), s[i])
      BY <2>3, <3>1, <3>2, <3>4, StemGrows
    <3>6. Stem(other, i) \in t.nodes
      BY <3>2 DEF TrieHolds, NodesHold
    <3> QED BY <3>5, <3>6
  <2> QED BY <2>2, <2>3
<1>5. Shadowed(p, s, added)
      <=> \E i \in 1..Len(p) : \E other \in added :
            /\ p[i].param /\ i <= Len(other.pattern) /\ other.pattern[i] = Static(s[i])
            /\ Stem(other, i - 1) = Stem(r, i - 1)
  BY <1>1 DEF Shadowed, Stem, Leaf
<1>6. On(Leaf(r), t, s, n)
      <=> /\ Len(p) = n
          /\ \A j \in 1..n :
               /\ Stem(r, j) \in t.nodes
               /\ Leaf(r)[j] = IF Append(Stem(r, j - 1), s[j]) \in t.nodes THEN s[j] ELSE Wild
  BY <1>1 DEF On, Stem
<1>7. ASSUME Len(p) = n
      PROVE  (\A j \in 1..n :
                 Leaf(r)[j] = IF Append(Stem(r, j - 1), s[j]) \in t.nodes THEN s[j] ELSE Wild)
             <=> Fits(p, s) /\ ~Shadowed(p, s, added)
  <2> DEFINE Child(j) == Append(Stem(r, j - 1), s[j]) \in t.nodes
  <2>1. ASSUME NEW j \in 1..n
        PROVE  Leaf(r)[j] = (IF Child(j) THEN s[j] ELSE Wild)
               <=> (p[j].param \/ p[j].text = s[j]) /\ ~(p[j].param /\ Child(j))
    <3>1. /\ p[j].param \in BOOLEAN /\ p[j].text \in STRING
          /\ Leaf(r)[j] = IF p[j].param THEN Wild ELSE p[j].text
          /\ Stem(r, j) = Append(Stem(r, j - 1), Leaf(r)[j]) /\ Stem(r, j) \in t.nodes
      BY <1>3, <1>7
    <3>2. s[j] # Wild /\ Wild \notin STRING
      BY <1>2, TextAssumption
    <3>3. ~p[j].param /\ p[j].text = s[j] => Child(j)
      BY <3>1
    <3> HIDE DEF Child, p
    <3>4. CASE p[j].param
      BY <3>1, <3>2, <3>4
    <3>5. CASE ~p[j].param
      <4>1. Leaf(r)[j] = p[j].text /\ p[j].text # Wild
        BY <3>1, <3>2, <3>5
      <4> QED BY <3>2, <3>3, <3>5, <4>1
    <3> QED BY <3>4, <3>5
  <2>2. Shadowed(p, s, added) <=> \E j \in 1..n : p[j].param /\ Child(j)
    BY <1>4, <1>5, <1>7
  <2>3. Fits(p, s) <=> \A j \in 1..n : p[j].param \/ p[j].text = s[j]
    BY <1>1, <1>7 DEF Fits
  <2> HIDE DEF Child, p
  <2>4. (\A j \in 1..n : Leaf(r)[j] = IF Child(j) THEN s[j] ELSE Wild)
        <=> (\A j \in 1..n : p[j].param \/ p[j].text = s[j])
            /\ ~(\E j \in 1..n : p[j].param /\ Child(j))
    BY <2>1
  <2>5. (\A j \in 1..n : Leaf(r)[j] = IF Child(j) THEN s[j] ELSE Wild)
        <=> Fits(p, s) /\ ~Shadowed(p, s, added)
    BY <2>2, <2>3, <2>4
  <2> QED BY <2>5 DEF Child
<1>8. Fits(p, s) => Len(p) = n
  BY DEF Fits
<1> QED BY <1>3, <1>6, <1>7, <1>8

\* The routes a path leads to are those at the end of the walk.
LEMMA ReachedIs ==
  ASSUME NEW t, NEW added, TrieHolds(t, added), NEW path \in Seq(STRING)
  PROVE  LET at == Walk(t, path)
         IN  Reached(added, path) = {r \in added : ~at.lost /\ Leaf(r) = at.node}
<1> DEFINE at == Walk(t, path)
           s == Segments(path)
<1>1. s \in Seq(STRING)
  BY SegmentsAre
<1>2. WalkedTo(at, t, s, Len(s))
  BY WalkHolds
<1> HIDE DEF at, s
<1>3. ASSUME NEW r \in added
      PROVE  On(Leaf(r), t, s, Len(s)) <=> ~at.lost /\ Leaf(r) = at.node
  <2>1. Leaf(r) \in Seq(Marks)
    BY LeafIs DEF TrieHolds
  <2> QED BY <1>2, <2>1 DEF WalkedTo
<1>4. \A r \in added : On(Leaf(r), t, s, Len(s)) <=> Fits(r.pattern, s) /\ ~Shadowed(r.pattern, s, added)
  BY <1>1, OnIsFit
<1>5. Reached(added, path) = {r \in added : Fits(r.pattern, s) /\ ~Shadowed(r.pattern, s, added)}
  BY DEF Reached, s
<1> QED BY <1>3, <1>4, <1>5 DEF at

LEMMA MatchIs ==
  ASSUME NEW t, NEW added, TrieHolds(t, added), NEW path \in Seq(STRING), NEW method
  PROVE  LET hit == MatchRoute(t, path, method)
             mine == {r \in Reached(added, path) : r.method = method}
         IN  /\ hit.found <=> mine # {}
             /\ hit.found =>
                  /\ hit.route \in mine
                  /\ Range(hit.params) \subseteq ParamsOf(hit.route.pattern, path)
                  /\ NamesApart(added) => Range(hit.params) = ParamsOf(hit.route.pattern, path)
             /\ AllowedMethods(t, path) = {r.method : r \in Reached(added, path)}
<1> DEFINE hit == MatchRoute(t, path, method)
           mine == {r \in Reached(added, path) : r.method = method}
           at == Walk(t, path)
           s == Segments(path)
           n == Len(s)
           key == <<at.node, method>>
<1>1. s \in Seq(STRING) /\ n \in Nat
  BY SegmentsAre
<1>2. WalkedTo(at, t, s, n)
  BY WalkHolds
<1>3. Reached(added, path) = {r \in added : ~at.lost /\ Leaf(r) = at.node}
  BY ReachedIs
<1>4. hit = IF ~at.lost /\ key \in DOMAIN t.handlers
            THEN [found |-> TRUE, route |-> t.handlers[key], params |-> at.params]
            ELSE [found |-> FALSE]
  BY DEF MatchRoute
<1>5. AllowedMethods(t, path) =
        IF at.lost THEN {} ELSE {k[2] : k \in {k \in DOMAIN t.handlers : k[1] = at.node}}
  BY DEF AllowedMethods
<1> HIDE DEF hit, at, s
<1>6. HandlersHold(t, added)
  BY DEF TrieHolds
<1>7. hit.found <=> ~at.lost /\ key \in DOMAIN t.handlers
  BY <1>4
<1>8. hit.found <=> mine # {}
  <2>1. ASSUME ~at.lost, key \in DOMAIN t.handlers PROVE t.handlers[key] \in mine
    <3>1. t.handlers[key] \in added /\ key = <<Leaf(t.handlers[key]), t.handlers[key].method>>
      BY <1>6, <2>1 DEF HandlersHold
    <3> QED BY <1>3, <2>1, <3>1
  <2>2. ASSUME NEW r \in mine PROVE ~at.lost /\ key \in DOMAIN t.handlers
    <3>1. r \in added /\ ~at.lost /\ Leaf(r) = at.node /\ r.method = method
      BY <1>3
    <3> QED BY <1>6, <3>1 DEF HandlersHold
  <2> QED BY <1>7, <2>1, <2>2
<1>9. AllowedMethods(t, path) = {r.method : r \in Reached(added, path)}
  <2>1. ASSUME NEW m \in AllowedMethods(t, path) PROVE m \in {r.method : r \in Reached(added, path)}
    <3>1. ~at.lost /\ m \in {k[2] : k \in {k \in DOMAIN t.handlers : k[1] = at.node}}
      BY <1>5
    <3>2. PICK k \in DOMAIN t.handlers : k[1] = at.node /\ m = k[2]
      BY <3>1
    <3>3. t.handlers[k] \in added /\ k = <<Leaf(t.handlers[k]), t.handlers[k].method>>
      BY <1>6 DEF HandlersHold
    <3>4. Leaf(t.handlers[k]) = at.node /\ t.handlers[k].method = m
      BY <3>2, <3>3
    <3> QED BY <1>3, <3>1, <3>3, <3>4
  <2>2. ASSUME NEW r \in Reached(added, path) PROVE r.method \in AllowedMethods(t, path)
    <3>1. r \in added /\ ~at.lost /\ Leaf(r) = at.node
      BY <1>3
    <3>2. <<at.node, r.method>> \in DOMAIN t.handlers
      BY <1>6, <3>1 DEF HandlersHold
    <3> QED BY <1>5, <3>1, <3>2
  <2> QED BY <2>1, <2>2
<1>10. ASSUME hit.found
       PROVE  /\ hit.route \in mine
              /\ Range(hit.params) \subseteq ParamsOf(hit.route.pattern, path)
              /\ NamesApart(added) => Range(hit.params) = ParamsOf(hit.route.pattern, path)
  <2> DEFINE route == hit.route
             p == route.pattern
  <2>1. ~at.lost /\ route = t.handlers[key] /\ hit.params = at.params /\ key \in DOMAIN t.handlers
    BY <1>4, <1>7, <1>10
  <2> HIDE DEF route
  <2>2. route \in added /\ Leaf(route) = at.node /\ route.method = method
    BY <1>6, <2>1 DEF HandlersHold
  <2>3. route \in mine
    BY <1>3, <2>1, <2>2
  <2>4. On(at.node, t, s, n) /\ Met(at, t, s, n)
    BY <1>2, <2>1 DEF WalkedTo
  <2>5. IsRoute(route) /\ Len(p) = n /\ DOMAIN p = 1..n
    BY <2>2, <2>4, LeafIs DEF TrieHolds, On
  <2>6. \A j \in 1..n : at.node[j] = Wild <=> p[j].param
    BY <2>2, <2>5, LeafIs
  <2>7. ParamsOf(p, path) = {s[j] : j \in {j \in 1..n : p[j].param}}
    BY <2>5 DEF ParamsOf, s
  <2>8. Range(hit.params) = {at.params[x] : x \in DOMAIN at.params}
    BY <2>1 DEF Range
  <2>9. ASSUME NEW value \in Range(hit.params) PROVE value \in ParamsOf(p, path)
    <3>1. PICK x \in DOMAIN at.params : value = at.params[x]
      BY <2>8
    <3>2. PICK j \in 1..n : at.node[j] = Wild /\ at.params[x] = s[j]
      BY <2>4 DEF Met
    <3> QED BY <2>6, <2>7, <3>1, <3>2
  <2>10. ASSUME NamesApart(added), NEW value \in ParamsOf(p, path) PROVE value \in Range(hit.params)
    <3>1. PICK j \in 1..n : p[j].param /\ value = s[j]
      BY <2>7
    <3> DEFINE node == SubSeq(at.node, 1, j - 1)
               x == t.names[node]
    <3>2. at.node[j] = Wild /\ x \in DOMAIN at.params
      BY <2>4, <2>6, <3>1 DEF Met
    <3>3. PICK i \in 1..n : /\ at.node[i] = Wild /\ x = t.names[SubSeq(at.node, 1, i - 1)]
                            /\ at.params[x] = s[i]
      BY <2>4, <3>2 DEF Met
    <3>4. ASSUME NEW k \in 1..n, at.node[k] = Wild
          PROVE  \E q \in added : /\ k \in DOMAIN q.pattern /\ q.pattern[k].param
                                  /\ t.names[SubSeq(at.node, 1, k - 1)] = q.pattern[k].text
      <4> DEFINE here == SubSeq(at.node, 1, k - 1)
      <4>1. here = Stem(route, k - 1)
        BY <2>2 DEF Stem
      <4>2. k \in 1..Len(p) /\ p[k].param /\ k - 1 \in 0..Len(p)
        BY <2>5, <2>6, <3>4
      <4>3. here \in DOMAIN t.names
        BY <2>2, <4>1, <4>2 DEF TrieHolds, NamesHold
      <4>4. Len(here) = k - 1 /\ Len(here) + 1 = k
        BY <2>5, <4>1, <4>2, StemIs
      <4> HIDE DEF here
      <4>5. PICK q \in added : Named(t, here, q)
        BY <4>3 DEF TrieHolds, NamesHold
      <4>6. k \in 1..Len(q.pattern) /\ q.pattern[k].param /\ t.names[here] = q.pattern[k].text
        BY <4>4, <4>5 DEF Named
      <4>7. DOMAIN q.pattern = 1..Len(q.pattern)
        BY LeafIs DEF TrieHolds
      <4> QED BY <4>6, <4>7 DEF here
    <3>5. PICK q \in added : /\ j \in DOMAIN q.pattern /\ q.pattern[j].param
                             /\ x = q.pattern[j].text
      BY <3>2, <3>4
    <3>6. PICK o \in added : /\ i \in DOMAIN o.pattern /\ o.pattern[i].param
                             /\ t.names[SubSeq(at.node, 1, i - 1)] = o.pattern[i].text
      BY <3>3, <3>4
    <3> HIDE DEF x
    <3>7. q.pattern[j].text = o.pattern[i].text
      BY <3>3, <3>5, <3>6
    <3>8. i = j
      BY <2>10, <3>5, <3>6, <3>7 DEF NamesApart
    <3> QED BY <2>8, <3>1, <3>2, <3>3, <3>8
  <2> QED BY <2>3, <2>9, <2>10 DEF route
<1> QED BY <1>8, <1>9, <1>10 DEF hit

-----------------------------------------------------------------------------
(* Static files *)

LEMMA PrefixMeans ==
  ASSUME NEW S, NEW s \in Seq(S), NEW t \in Seq(S)
  PROVE  IsPrefix(s, t) <=> Len(s) <= Len(t) /\ \A i \in 1..Len(s) : s[i] = t[i]
<1>1. Len(s) \in Nat /\ Len(t) \in Nat /\ SubSeq(s, 1, Len(s)) = s
  BY LenProperties, SubSeqFull
<1>2. IsPrefix(s, t) <=> Len(s) <= Len(t) /\ s = SubSeq(t, 1, Len(s))
  BY <1>1 DEF IsPrefix
<1>3. ASSUME Len(s) <= Len(t)
      PROVE  s = SubSeq(t, 1, Len(s)) <=> \A i \in 1..Len(s) : s[i] = t[i]
  <2> DEFINE u == SubSeq(t, 1, Len(s))
  <2>1. u \in Seq(S) /\ Len(u) = Len(s) /\ \A i \in 1..Len(s) : u[i] = t[i]
    BY <1>1, <1>3, PrefixIs
  <2> HIDE DEF u
  <2>2. (\A i \in 1..Len(s) : s[i] = u[i]) => s = u
    BY <2>1, SeqEqual
  <2> QED BY <2>1, <2>2 DEF u
<1> QED BY <1>2, <1>3

LEMMA SanitizeIs ==
  ASSUME NEW s \in Seq(STRING)
  PROVE  /\ Sanitize(s) \in Seq(STRING)
         /\ \A t \in Seq(STRING) : Sanitize(s \o t) = Sanitize(s) \o Sanitize(t)
         /\ (\A i \in 1..Len(s) : s[i] = "") => Sanitize(s) = <<>>
<1> DEFINE dropped == {"", "."}
<1>1. \A t : Sanitize(t) = Without(t, dropped)
  BY DEF Sanitize
<1>2. "" \in dropped
  OBVIOUS
<1> HIDE DEF dropped
<1>3. ASSUME NEW t \in Seq(STRING)
      PROVE  Without(s \o t, dropped) = Without(s, dropped) \o Without(t, dropped)
  BY WithoutConcat
<1>4. (\A i \in 1..Len(s) : s[i] = "") => Without(s, dropped) = <<>>
  BY <1>2, WithoutAll
<1>5. Without(s, dropped) \in Seq(STRING)
  BY WithoutType
<1> QED BY <1>1, <1>3, <1>4, <1>5

\* A path under a mount is the mount and the rest, but for slashes.
Rests(mount, path, rel) ==
  /\ rel \in Seq(STRING)
  /\ Sanitize(path) = Sanitize(mount) \o Sanitize(rel)
  /\ \A p \in Seq(STRING) :
       p # <<>> /\ p[1] # "" /\ IsStrictPrefix(mount \o p, path) => IsStrictPrefix(p, rel)

LEMMA StripIs ==
  ASSUME NEW mount \in Seq(STRING), NEW path \in Seq(STRING), IsUnder(mount, path)
  PROVE  Rests(mount, path, StripMount(mount, path))
<1> DEFINE n == Len(path)
           rel == StripMount(mount, path)
<1>1. n \in Nat /\ \A i \in 1..n : path[i] \in STRING
  BY LenProperties, ElementOfSeq
<1>2. CASE mount # <<>>
  <2> DEFINE m == Len(mount)
  <2>1. m \in Nat /\ m <= n /\ SubSeq(path, 1, m) = mount /\ \A i \in 1..m : mount[i] = path[i]
    <3>1. m \in Nat /\ SubSeq(mount, 1, m) = mount
      BY LenProperties, SubSeqFull
    <3>2. m <= n /\ SubSeq(path, 1, m) = mount
      BY <3>1 DEF IsUnder, IsPrefix
    <3>3. m <= n /\ \A i \in 1..m : mount[i] = path[i]
      BY PrefixMeans DEF IsUnder
    <3> QED BY <3>1, <3>2, <3>3
  <2>2. rel = SubSeq(path, m + 1, n)
    BY <1>2 DEF StripMount
  <2>3. m + 1 \in Int /\ n \in Int /\ \A i \in (m + 1)..n : path[i] \in STRING
    BY <1>1, <2>1
  <2>4. /\ SubSeq(path, m + 1, n) \in Seq(STRING)
        /\ Len(SubSeq(path, m + 1, n)) = IF m + 1 <= n THEN n - (m + 1) + 1 ELSE 0
        /\ \A i \in 1..(n - (m + 1) + 1) : SubSeq(path, m + 1, n)[i] = path[(m + 1) + i - 1]
    BY <2>3, SubSeqProperties
  <2>5. 1 \in 1..(n + 1) /\ m \in (1 - 1)..n /\ n \in m..n
    BY <1>1, <2>1
  <2>6. SubSeq(path, 1, m) \o SubSeq(path, m + 1, n) = SubSeq(path, 1, n)
    BY <2>5, ConcatAdjacentSubSeq
  <2>7. SubSeq(path, 1, n) = path
    BY SubSeqFull
  <2>8. path = mount \o rel
    BY <2>1, <2>2, <2>6, <2>7
  <2>9. /\ rel \in Seq(STRING) /\ Len(rel) = n - m
        /\ \A i \in 1..(n - m) : rel[i] = path[m + i]
    BY <1>1, <2>1, <2>2, <2>4
  <2> HIDE DEF rel, m, n
  <2>10. Sanitize(path) = Sanitize(mount) \o Sanitize(rel)
    BY <2>8, <2>9, SanitizeIs
  <2>11. ASSUME NEW p \in Seq(STRING), IsStrictPrefix(mount \o p, path) PROVE IsStrictPrefix(p, rel)
    <3> DEFINE u == mount \o p
               l == Len(p)
    <3>1. /\ u \in Seq(STRING) /\ Len(u) = m + l /\ l \in Nat
          /\ \A i \in 1..(m + l) : u[i] = IF i <= m THEN mount[i] ELSE p[i - m]
      BY ConcatProperties, LenProperties DEF m
    <3>2. IsPrefix(u, path) /\ u # path
      BY <2>11 DEF IsStrictPrefix
    <3> HIDE DEF u, l
    <3>3. m + l <= n /\ \A i \in 1..(m + l) : u[i] = path[i]
      BY <3>1, <3>2, PrefixMeans DEF n
    <3>4. ASSUME NEW i \in 1..l PROVE p[i] = rel[i]
      <4>1. m + i \in 1..(m + l) /\ ~(m + i <= m) /\ (m + i) - m = i /\ i \in 1..(n - m)
        BY <1>1, <2>1, <3>1, <3>3
      <4>2. u[m + i] = p[i]
        BY <3>1, <4>1
      <4> QED BY <2>9, <3>3, <4>1, <4>2
    <3>5. l <= Len(rel)
      BY <1>1, <2>1, <2>9, <3>1, <3>3
    <3>6. IsPrefix(p, rel)
      BY <2>9, <3>4, <3>5, PrefixMeans DEF l
    <3>7. p # rel
      BY <2>8, <3>2 DEF u
    <3> QED BY <3>6, <3>7 DEF IsStrictPrefix
  <2> QED BY <2>9, <2>10, <2>11 DEF Rests, rel
<1>3. CASE mount = <<>>
  <2> DEFINE Starts(i) == /\ \A j \in 1..(i - 1) : path[j] = ""
                          /\ i <= n => path[i] # ""
             first == CHOOSE i \in 1..(n + 1) : Starts(i)
             T == {i \in 1..(n + 1) : i <= n => path[i] # ""}
  <2>0. rel = SubSeq(path, first, n)
    BY <1>3 DEF StripMount
  <2>13. n \in Nat
    BY <1>1
  <2> HIDE DEF n
  <2>1. \E i \in 1..(n + 1) : Starts(i)
    <3>1. T \subseteq Nat
      <4>1. T \subseteq 1..(n + 1)
        OBVIOUS
      <4> HIDE DEF T
      <4>2. 1..(n + 1) \subseteq Nat
        BY <2>13
      <4> QED BY <4>1, <4>2
    <3>5. n + 1 \in 1..(n + 1) /\ ~(n + 1 <= n)
      BY <1>1
    <3>6. T # {}
      BY <3>5
    <3>2. PICK i \in T : \A j \in T : i <= j
      <4> HIDE DEF T
      <4> QED BY <3>1, <3>6, Least
    <3>3. ASSUME NEW j \in 1..(i - 1) PROVE path[j] = ""
      <4>1. i \in 1..(n + 1)
        BY <3>2
      <4>2. j \in 1..(n + 1) /\ ~(i <= j)
        <5> HIDE DEF T
        <5> QED BY <2>13, <4>1
      <4> QED BY <3>2, <4>2
    <3>4. i \in 1..(n + 1) /\ Starts(i)
      BY <3>2, <3>3
    <3> QED BY <3>4
  <2>2. first \in 1..(n + 1) /\ Starts(first)
    BY <2>1
  <2>3. rel = SubSeq(path, first, n)
    BY <2>0
  <2> HIDE DEF first, T, Starts
  <2>12. first \in Nat /\ 1 <= first /\ first <= n + 1
    BY <1>1, <2>2
  <2> DEFINE head == SubSeq(path, 1, first - 1)
  <2>4. head \o rel = path
    <3>1. 1 \in 1..(n + 1) /\ first - 1 \in (1 - 1)..n /\ n \in (first - 1)..n /\ first - 1 + 1 = first
      BY <1>1, <2>12
    <3>2. SubSeq(path, 1, first - 1) \o SubSeq(path, first - 1 + 1, n) = SubSeq(path, 1, n)
      BY <3>1, ConcatAdjacentSubSeq DEF n
    <3>3. SubSeq(path, 1, n) = path
      BY SubSeqFull DEF n
    <3> QED BY <2>3, <3>1, <3>2, <3>3
  <2>5. first - 1 \in 0..n
    BY <1>1, <2>12
  <2>6. /\ head \in Seq(STRING) /\ Len(head) = first - 1
        /\ \A i \in 1..(first - 1) : head[i] = path[i]
    BY <2>5, PrefixIs DEF n
  <2>7. rel \in Seq(STRING)
    <3>1. first \in Int /\ n \in Int /\ \A i \in first..n : path[i] \in STRING
      BY <1>1, <2>12
    <3> QED BY <2>3, <3>1, SubSeqProperties
  <2> HIDE DEF head
  <2>8. Sanitize(head) = <<>>
    <3>1. \A i \in 1..Len(head) : head[i] = ""
      BY <2>2, <2>6 DEF Starts
    <3> QED BY <2>6, <3>1, SanitizeIs
  <2>9. Sanitize(mount) = <<>>
    BY <1>3, WithoutNothing DEF Sanitize
  <2> HIDE DEF rel
  <2>10. Sanitize(path) = Sanitize(head) \o Sanitize(rel)
    BY <2>4, <2>6, <2>7, SanitizeIs
  <2>11. ASSUME NEW p \in Seq(STRING), p # <<>>, p[1] # "", IsStrictPrefix(mount \o p, path)
         PROVE  IsStrictPrefix(p, rel)
    <3>1. mount \o p = p
      BY <1>3, ConcatEmptySeq
    <3>2. IsPrefix(p, path) /\ IsStrictPrefix(p, path)
      BY <2>11, <3>1 DEF IsStrictPrefix
    <3>3. Len(p) \in Nat \ {0} /\ Len(p) <= n /\ \A i \in 1..Len(p) : p[i] = path[i]
      <4>1. Len(p) \in Nat \ {0}
        BY <2>11, EmptySeq
      <4>2. Len(p) <= n /\ \A i \in 1..Len(p) : p[i] = path[i]
        BY <3>2, PrefixMeans DEF n
      <4> QED BY <4>1, <4>2
    <3>4. 1 \in 1..Len(p)
      BY <3>3
    <3>5. path[1] # ""
      BY <2>11, <3>3, <3>4
    <3>6. first = 1
      <4>1. ~(1 \in 1..(first - 1))
        BY <2>2, <3>5 DEF Starts
      <4> QED BY <1>1, <2>12, <4>1
    <3>7. rel = path
      BY <2>3, <3>6, SubSeqFull DEF n
    <3> QED BY <3>2, <3>7
  <2> QED BY <2>7, <2>8, <2>9, <2>10, <2>11 DEF Rests, rel
<1> QED BY <1>2, <1>3

\* A file a mount may answer a path with.
Offered(mount, path, name) ==
  /\ name \in mount.files
  /\ \/ Sanitize(path) = Sanitize(mount.at) \o name
     \/ /\ name = mount.fallback
        /\ Len(Sanitize(path)) > Len(Sanitize(mount.at)) => Last(Sanitize(path)) \notin Assets
        /\ \A p \in mount.noFallback : ~IsStrictPrefix(mount.at \o p, path)

LEMMA OneMountOffers ==
  ASSUME NEW i \in DOMAIN Mounts, NEW path \in Seq(STRING),
         ServeOne(Mounts[i], path) # NoFile
  PROVE  \E name : /\ ServeOne(Mounts[i], path) = File(Mounts[i], name)
                   /\ Offered(Mounts[i], path, name)
<1> DEFINE mount == Mounts[i]
           at == mount.at
           rel == StripMount(at, path)
           relative == Sanitize(rel)
           reads == relative # <<>> /\ relative \in mount.files
           fallsBack ==
             /\ relative # <<>> => Last(relative) \notin Assets
             /\ \A p \in mount.noFallback : ~IsStrictPrefix(p, rel)
             /\ mount.fallback # None /\ mount.fallback \in mount.files
<1>1. /\ at \in Seq(STRING)
      /\ \A p \in mount.noFallback : p \in Seq(STRING) /\ p # <<>> /\ p[1] # ""
  BY TextAssumption
<1>2. ServeOne(mount, path) =
        IF ~IsUnder(at, path) \/ ~IsSane(rel) THEN NoFile
        ELSE IF reads THEN File(mount, relative)
        ELSE IF fallsBack THEN File(mount, mount.fallback) ELSE NoFile
  BY DEF ServeOne
<1> HIDE DEF reads, fallsBack, rel, mount
<1>3. IsUnder(at, path) /\ (reads \/ fallsBack)
  BY <1>2 DEF mount
<1>4. Rests(at, path, rel)
  BY <1>1, <1>3, StripIs DEF rel
<1>5. rel \in Seq(STRING) /\ Sanitize(path) = Sanitize(at) \o relative
  BY <1>4 DEF Rests
<1>6. relative \in Seq(STRING) /\ Sanitize(at) \in Seq(STRING)
  BY <1>1, <1>5, SanitizeIs
<1>7. CASE reads
  <2>1. ServeOne(mount, path) = File(mount, relative)
    BY <1>2, <1>7 DEF mount
  <2>2. Offered(mount, path, relative)
    BY <1>5, <1>7 DEF Offered, reads
  <2> QED BY <2>1, <2>2 DEF mount
<1>8. CASE ~reads /\ fallsBack
  <2>1. ServeOne(mount, path) = File(mount, mount.fallback)
    BY <1>2, <1>8 DEF mount
  <2>2. ASSUME Len(Sanitize(path)) > Len(Sanitize(at)) PROVE Last(Sanitize(path)) \notin Assets
    <3> DEFINE a == Sanitize(at)
               b == relative
    <3>1. a \in Seq(STRING) /\ b \in Seq(STRING) /\ Sanitize(path) = a \o b
      BY <1>5, <1>6
    <3> HIDE DEF a, b
    <3>2. /\ Len(a) \in Nat /\ Len(b) \in Nat /\ Len(a \o b) = Len(a) + Len(b)
          /\ \A j \in 1..(Len(a) + Len(b)) : (a \o b)[j] = IF j <= Len(a) THEN a[j] ELSE b[j - Len(a)]
      BY <3>1, ConcatProperties, LenProperties
    <3>3. Len(a) + Len(b) > Len(a)
      BY <2>2, <3>1, <3>2 DEF a
    <3>4. Len(b) > 0 /\ Len(a) + Len(b) \in 1..(Len(a) + Len(b)) /\ ~(Len(a) + Len(b) <= Len(a))
          /\ (Len(a) + Len(b)) - Len(a) = Len(b)
      BY <3>2, <3>3
    <3>5. Last(Sanitize(path)) = Last(b)
      BY <3>1, <3>2, <3>4 DEF Last
    <3>6. b # <<>>
      BY <3>4, EmptySeq
    <3> QED BY <1>8, <3>5, <3>6 DEF fallsBack, b
  <2>3. ASSUME NEW p \in mount.noFallback PROVE ~IsStrictPrefix(at \o p, path)
    <3>1. p \in Seq(STRING) /\ p # <<>> /\ p[1] # "" /\ ~IsStrictPrefix(p, rel)
      BY <1>1, <1>8 DEF fallsBack
    <3> QED BY <1>4, <3>1 DEF Rests
  <2>4. mount.fallback \in mount.files
    BY <1>8 DEF fallsBack
  <2>5. Offered(mount, path, mount.fallback)
    BY <2>2, <2>3, <2>4 DEF Offered
  <2> QED BY <2>1, <2>5 DEF mount
<1> QED BY <1>3, <1>7, <1>8

LEMMA ServeIs ==
  ASSUME NEW path \in Seq(STRING)
  PROVE  \/ Serve(path) = NoFile
         \/ \E i \in DOMAIN Mounts : \E name :
              Serve(path) = File(Mounts[i], name) /\ Offered(Mounts[i], path, name)
<1> DEFINE hits == {i \in DOMAIN Mounts : ServeOne(Mounts[i], path) # NoFile}
           first == CHOOSE i \in hits : \A j \in hits : i <= j
<1>1. Serve(path) = IF hits = {} THEN NoFile ELSE ServeOne(Mounts[first], path)
  BY DEF Serve
<1>2. ASSUME hits # {} PROVE first \in hits
  <2>1. DOMAIN Mounts \subseteq Nat
    <3>1. Mounts \in Seq(ToSet(Mounts))
      BY TextAssumption
    <3>2. DOMAIN Mounts = 1..Len(Mounts) /\ Len(Mounts) \in Nat
      BY <3>1, LenProperties
    <3> QED BY <3>2
  <2>2. hits \subseteq Nat
    BY <2>1
  <2>3. \E i \in hits : \A j \in hits : i <= j
    <3> HIDE DEF hits
    <3> QED BY <1>2, <2>2, Least
  <2> QED BY <2>3
<1> HIDE DEF first
<1>3. ASSUME hits # {}
      PROVE  \E i \in DOMAIN Mounts : \E name :
               Serve(path) = File(Mounts[i], name) /\ Offered(Mounts[i], path, name)
  <2>1. first \in DOMAIN Mounts /\ ServeOne(Mounts[first], path) # NoFile
    BY <1>2, <1>3
  <2>2. PICK name : /\ ServeOne(Mounts[first], path) = File(Mounts[first], name)
                    /\ Offered(Mounts[first], path, name)
    BY <2>1, OneMountOffers
  <2> QED BY <1>1, <1>3, <2>1, <2>2
<1> QED BY <1>1, <1>3

-----------------------------------------------------------------------------
(* Answers *)

TrieInv ==
  /\ table \in Tables /\ unrouted \subseteq table
  /\ TrieHolds(trie, table \ unrouted)

LEMMA TrieInvHolds == Spec => []TrieInv
<1>1. Init => TrieInv
  <2> SUFFICES ASSUME Init PROVE TrieInv
    OBVIOUS
  <2>1. table \in Tables /\ unrouted = table /\ trie = EmptyTrie
    BY DEF Init
  <2>2. table \ unrouted = {}
    BY <2>1
  <2> QED BY <2>1, <2>2, EmptyTrieHolds DEF TrieInv
<1>2. TrieInv /\ [Next]_vars => TrieInv'
  <2> SUFFICES ASSUME TrieInv, [Next]_vars PROVE TrieInv'
    OBVIOUS
  <2>1. CASE UNCHANGED <<table, unrouted, trie>>
    BY <2>1 DEF TrieInv
  <2>2. ASSUME NEW route \in unrouted, Register(route) PROVE TrieInv'
    <3>1. /\ table' = table /\ unrouted' = unrouted \ {route} /\ trie' = AddRoute(trie, route)
          /\ route \in table
      BY <2>2 DEF Register, TrieInv
    <3>2. IsRoute(route)
      BY <3>1, TextAssumption DEF TrieInv, IsRoute
    <3>3. table' \ unrouted' = (table \ unrouted) \cup {route}
      BY <2>2, <3>1
    <3>4. TrieHolds(AddRoute(trie, route), (table \ unrouted) \cup {route})
      BY <3>2, AddRouteHolds DEF TrieInv
    <3>5. TrieHolds(trie', table' \ unrouted')
      BY <3>1, <3>3, <3>4
    <3> QED BY <3>1, <3>5 DEF TrieInv
  <2>3. CASE \E list \in Lists, row \in Rows : RowsChange(list, row)
    BY <2>1, <2>3 DEF RowsChange
  <2>4. CASE Walking
    <3>1. PICK w \in Walkers, path \in Lists, filters \in DOMAIN Order, size \in Sizes :
             \/ Begin(w, path, filters, size)
             \/ \E cursor \in Cursors : Turn(w, cursor, path, filters, size)
      BY <2>4 DEF Walking
    <3>2. Begin(w, path, filters, size) => UNCHANGED <<table, unrouted, trie>>
      BY DEF Begin
    <3>3. \A cursor : Turn(w, cursor, path, filters, size) => UNCHANGED <<table, unrouted, trie>>
      BY DEF Turn
    <3> QED BY <2>1, <3>1, <3>2, <3>3
  <2>5. CASE UNCHANGED vars
    BY <2>1, <2>5 DEF vars
  <2> QED BY <2>2, <2>3, <2>4, <2>5 DEF Next
<1> QED BY <1>1, <1>2, PTL DEF Spec

LEMMA AnswerIsDeclared ==
  ASSUME TrieInv, Serves, NEW path \in Seq(STRING), NEW method
  PROVE  LET answer == Dispatch(method, path)
         IN  RouteDeclared(method, path, Reached(table, path), answer) /\ FileDeclared(method, path, answer)
<1> DEFINE hit == MatchRoute(trie, path, method)
           reached == Reached(table, path)
           mine == {r \in reached : r.method = method}
           answer == Dispatch(method, path)
           methods == {r.method : r \in reached}
<1>1. TrieHolds(trie, table)
  <2>1. table \ unrouted = table
    BY DEF Serves
  <2> QED BY <2>1 DEF TrieInv
<1>2. /\ hit.found <=> mine # {}
      /\ hit.found => /\ hit.route \in mine
                      /\ Range(hit.params) \subseteq ParamsOf(hit.route.pattern, path)
                      /\ NamesApart(table) => Range(hit.params) = ParamsOf(hit.route.pattern, path)
      /\ AllowedMethods(trie, path) = methods
  BY <1>1, MatchIs
<1>3. answer = IF IsBuiltIn(method, path) THEN [kind |-> "built in"]
               ELSE IF hit.found
                    THEN [kind |-> "route", route |-> hit.route, params |-> hit.params]
               ELSE IF methods # {} THEN [kind |-> "405", allow |-> methods]
               ELSE IF IsGetOrHead(method) THEN Serve(path) ELSE NoFile
  BY <1>2 DEF Dispatch
<1>4. methods = {} <=> reached = {}
  OBVIOUS
<1> HIDE DEF answer, hit, methods, mine
<1>5. Serve(path).kind \in {"file", "404"}
  BY ServeIs DEF File, NoFile
<1>6. RouteDeclared(method, path, reached, answer)
  <2>1. CASE IsBuiltIn(method, path)
    BY <1>3, <2>1 DEF RouteDeclared, mine
  <2>2. CASE ~IsBuiltIn(method, path) /\ hit.found
    <3>1. answer = [kind |-> "route", route |-> hit.route, params |-> hit.params]
      BY <1>3, <2>2
    <3>2. mine # {}
      BY <1>2, <2>2
    <3> QED BY <1>2, <2>2, <3>1, <3>2 DEF RouteDeclared, mine
  <2>3. CASE ~IsBuiltIn(method, path) /\ ~hit.found /\ methods # {}
    <3>1. answer = [kind |-> "405", allow |-> methods]
      BY <1>3, <2>3
    <3>2. mine = {} /\ reached # {}
      BY <1>2, <1>4, <2>3
    <3> QED BY <2>3, <3>1, <3>2 DEF RouteDeclared, mine, methods
  <2>4. CASE ~IsBuiltIn(method, path) /\ ~hit.found /\ methods = {}
    <3>1. answer.kind \in {"file", "404"}
      BY <1>3, <1>5, <2>4 DEF NoFile
    <3>2. mine = {} /\ reached = {}
      BY <1>2, <1>4, <2>4
    <3> QED BY <3>1, <3>2 DEF RouteDeclared, mine
  <2> QED BY <2>1, <2>2, <2>3, <2>4
<1>7. ASSUME answer.kind = "file" PROVE FileDeclared(method, path, answer)
  <2>1. IsGetOrHead(method) /\ answer = Serve(path)
    BY <1>3, <1>7 DEF NoFile
  <2>2. Serve(path) # NoFile
    BY <1>7, <2>1 DEF NoFile
  <2>3. PICK i \in DOMAIN Mounts :
          \E name : Serve(path) = File(Mounts[i], name) /\ Offered(Mounts[i], path, name)
    BY <2>2, ServeIs
  <2>4. PICK name : Serve(path) = File(Mounts[i], name) /\ Offered(Mounts[i], path, name)
    BY <2>3
  <2>5. answer.mount = Mounts[i] /\ answer.name = name
    BY <2>1, <2>4 DEF File
  <2> QED BY <2>1, <2>4, <2>5 DEF FileDeclared, Offered
<1>8. FileDeclared(method, path, answer)
  BY <1>7 DEF FileDeclared
<1> QED BY <1>6, <1>8 DEF answer

\* Whatever order the routes were added in, a request goes to the route its path leads
\* to, learns which methods others have, or gets the file its path names (add_route,
\* match_route, get_allowed_methods, dispatch, serve_one).
THEOREM AnswersAreDeclared == Spec => []AnswersDeclared
<1>1. TrieInv => AnswersDeclared
  <2> SUFFICES ASSUME TrieInv, Serves, NEW path \in Paths, NEW method \in Methods
               PROVE  LET answer == Dispatch(method, path)
                      IN  RouteDeclared(method, path, Reached(table, path), answer) /\ FileDeclared(method, path, answer)
    BY DEF AnswersDeclared
  <2>1. path \in Seq(STRING)
    BY TextAssumption
  <2> QED BY <2>1, AnswerIsDeclared
<1> QED BY <1>1, TrieInvHolds, PTL

=============================================================================
