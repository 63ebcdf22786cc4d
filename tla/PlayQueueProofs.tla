-------------------------- MODULE PlayQueueProofs --------------------------
(***************************************************************************)
(* PlayQueue for any number of requests at once, rows, deletions of songs  *)
(* and restarts: its types, that the positions are dense, and that the     *)
(* shuffle order holds the whole queue while requests come one at a time.  *)
(*                                                                         *)
(* The invariant has three parts.  Tables: queue_items and queue_shuffle   *)
(* are tables of one queue.  Callers: where each caller is, one operation  *)
(* of the controller at a time.  CoveredSerially: while no two requests    *)
(* overlap, the shuffle order lacks at most the item being added.          *)
(***************************************************************************)
EXTENDS PlayQueue, TLAPS, FunctionTheorems, FiniteSetTheorems

-----------------------------------------------------------------------------
(* ROW_NUMBER() and MAX().                                                 *)

\* Rows with different positions have the numbers 0 to n-1, in order.
Ranked(S, p) ==
    /\ Cardinality(S) \in Nat
    /\ \A x \in S : Rank(p, x) \in Nat /\ Rank(p, x) < Cardinality(S)
    /\ \A x, y \in S : p[x] < p[y] => Rank(p, x) < Rank(p, y)
    /\ \A x, y \in S : Rank(p, x) = Rank(p, y) => x = y
    /\ \A i \in Nat : i < Cardinality(S) => \E x \in S : Rank(p, x) = i

LEMMA RankIs ==
  ASSUME NEW S, IsFiniteSet(S), NEW p \in [S -> Nat],
         \A x, y \in S : p[x] = p[y] => x = y
  PROVE  Ranked(S, p)
<1> DEFINE n == Cardinality(S)
           Less(x) == {y \in S : p[y] < p[x]}
<1>1. n \in Nat
  BY FS_CardinalityType
<1>2. \A x \in S : Rank(p, x) = Cardinality(Less(x))
  BY DEF Rank
<1>3. ASSUME NEW x \in S
      PROVE  /\ IsFiniteSet(Less(x)) /\ Cardinality(Less(x)) \in Nat
             /\ Cardinality(Less(x)) <= n - 1
  <2>1. Less(x) \in SUBSET S /\ x \notin Less(x)
    BY <1>3
  <2> HIDE DEF Less
  <2>2. IsFiniteSet(Less(x)) /\ Cardinality(Less(x)) \in Nat
        /\ Cardinality(Less(x)) <= n /\ Cardinality(Less(x)) # n
    BY <1>3, <2>1, FS_Subset, FS_CardinalityType
  <2> QED
    BY <1>1, <2>2
<1>4. ASSUME NEW x \in S, NEW y \in S, p[x] < p[y]
      PROVE  Cardinality(Less(x)) < Cardinality(Less(y))
  <2>1. Less(x) \in SUBSET Less(y) /\ x \in Less(y) /\ x \notin Less(x)
    BY <1>4
  <2> HIDE DEF Less
  <2>2. Cardinality(Less(x)) <= Cardinality(Less(y))
        /\ Cardinality(Less(x)) # Cardinality(Less(y))
    BY <1>3, <2>1, FS_Subset
  <2> QED
    BY <1>3, <2>2
<1> HIDE DEF Less
<1>5. \A x \in S : Rank(p, x) \in 0 .. n - 1
  BY <1>1, <1>2, <1>3
<1>6. \A x, y \in S : p[x] < p[y] => Rank(p, x) < Rank(p, y)
  BY <1>2, <1>4
<1>7. ASSUME NEW x \in S, NEW y \in S, Rank(p, x) = Rank(p, y)
      PROVE  x = y
  <2>1. ~ (p[x] < p[y]) /\ ~ (p[y] < p[x])
    BY <1>1, <1>5, <1>6, <1>7
  <2> QED
    BY <2>1
<1>8. ASSUME NEW i \in 0 .. n - 1
      PROVE  \E x \in S : Rank(p, x) = i
  <2> DEFINE f == [x \in S |-> Rank(p, x)]
             T == 0 .. n - 1
  <2>1. IsFiniteSet(T) /\ Cardinality(T) = n
    <3> HIDE DEF n
    <3> QED
      BY <1>1, FS_Interval
  <2>2. f \in Injection(S, T)
    BY <1>5, <1>7 DEF Injection, IsInjective
  <2> HIDE DEF f, T
  <2>3. f \in Surjection(S, T)
    BY <2>1, <2>2, FS_Injection
  <2>4. \E x \in S : f[x] = i
    BY <1>8, <2>3 DEF Surjection, T
  <2> QED
    BY <2>4 DEF f
<1>9. \A i \in Nat : i < n => i \in 0 .. n - 1
  BY <1>1
<1> QED
  BY <1>1, <1>5, <1>6, <1>7, <1>8, <1>9 DEF Ranked

\* A bounded set of numbers has a largest one, and After is behind it.
LEMMA LargestIs ==
  ASSUME NEW n \in Nat, NEW S \in SUBSET (0 .. n)
  PROVE  /\ IsFiniteSet(S) /\ Cardinality(S) \in Nat
         /\ S # {} => Largest(S) \in S /\ \A m \in S : m <= Largest(S)
         /\ After(S) \in Nat /\ \A m \in S : m < After(S)
<1>1. IsFiniteSet(S) /\ Cardinality(S) \in Nat
  <2>1. IsFiniteSet(0 .. n)
    BY FS_Interval
  <2> QED
    BY <2>1, FS_Subset, FS_CardinalityType
<1>2. ASSUME S # {}
      PROVE  Largest(S) \in S /\ \A m \in S : m <= Largest(S)
  <2> DEFINE p == [x \in S |-> x]
  <2>1. p \in [S -> Nat] /\ \A x, y \in S : p[x] = p[y] => x = y
    OBVIOUS
  <2>2. Cardinality(S) # 0
    BY <1>1, <1>2, FS_EmptySet
  <2> DEFINE last == Cardinality(S) - 1
  <2>3. last \in Nat /\ last < Cardinality(S) /\ \A k \in Nat : k < Cardinality(S) => k <= last
    BY <1>1, <2>2
  <2>4. \A x \in S : p[x] = x
    OBVIOUS
  <2> HIDE DEF p, last
  <2>5. /\ \A x \in S : Rank(p, x) \in Nat /\ Rank(p, x) < Cardinality(S)
        /\ \A x, y \in S : p[x] < p[y] => Rank(p, x) < Rank(p, y)
        /\ \A i \in Nat : i < Cardinality(S) => \E x \in S : Rank(p, x) = i
    <3>1. Ranked(S, p)
      BY <1>1, <2>1, RankIs
    <3> QED
      BY <3>1 DEF Ranked
  <2>6. PICK x \in S : Rank(p, x) = last
    BY <2>3, <2>5
  <2>7. \A m \in S : ~ (x < m)
    BY <2>3, <2>4, <2>5, <2>6
  <2>8. \A m \in S : m <= x
    BY <2>7
  <2> QED
    BY <2>8 DEF Largest
<1>3. CASE S = {}
  BY <1>1, <1>3 DEF After
<1>4. CASE S # {}
  <2>1. Largest(S) \in S /\ \A m \in S : m <= Largest(S)
    BY <1>2, <1>4
  <2>2. \A m \in S : m \in Nat
    OBVIOUS
  <2>3. After(S) = Largest(S) + 1
    BY <1>4 DEF After
  <2>4. Largest(S) \in Nat
    BY <2>1, <2>2
  <2>5. \A m \in S : m < Largest(S) + 1
    BY <2>1, <2>2, <2>4
  <2>6. After(S) \in Nat /\ \A m \in S : m < After(S)
    BY <2>3, <2>4, <2>5
  <2> QED
    BY <1>1, <2>1, <2>6
<1> QED
  BY <1>3, <1>4

\* r holds what o has of kept, with dense row numbers.
Leaves(o, kept, r) ==
    /\ \E k \in Nat : DOMAIN r = 0 .. k - 1
    /\ r \in [DOMAIN r -> kept]
    /\ \A n \in DOMAIN r : \E i \in DOMAIN o : o[i] \in kept /\ r[n] = o[i]
    /\ \A i \in DOMAIN o : o[i] \in kept => \E n \in DOMAIN r : r[n] = o[i]

LEMMA SurvivingIs ==
  ASSUME NEW m \in Nat, NEW o, DOMAIN o = 0 .. m - 1, NEW kept
  PROVE  Leaves(o, kept, Surviving(o, kept))
<1> DEFINE rows == {i \in DOMAIN o : o[i] \in kept}
           Below(i) == Cardinality({j \in rows : j < i})
           p == [i \in rows |-> i]
           r == Cardinality(rows)
<1>1. IsFiniteSet(rows) /\ p \in [rows -> Nat]
      /\ \A x, y \in rows : p[x] = p[y] => x = y
  <2>1. rows \in SUBSET (0 .. m)
    OBVIOUS
  <2>2. IsFiniteSet(rows)
    BY <2>1, LargestIs
  <2> QED
    BY <2>1, <2>2
<1>2. \A i \in rows : Below(i) = Rank(p, i)
  BY DEF Rank
<1>3. Surviving(o, kept) =
        [n \in {Below(i) : i \in rows} |-> o[CHOOSE i \in rows : Below(i) = n]]
  BY DEF Surviving
<1>4. \A i \in rows : i \in DOMAIN o /\ o[i] \in kept
  OBVIOUS
<1>5. \A i \in DOMAIN o : o[i] \in kept => i \in rows
  OBVIOUS
<1> HIDE DEF rows, p, Below
<1>6. /\ r \in Nat
      /\ \A i \in rows : Below(i) \in 0 .. r - 1
      /\ \A i, j \in rows : Below(i) = Below(j) => i = j
      /\ \A n \in 0 .. r - 1 : \E i \in rows : Below(i) = n
  <2>1. Ranked(rows, p)
    BY <1>1, RankIs
  <2> QED
    BY <1>2, <2>1 DEF Ranked
<1> HIDE DEF r
<1>7. {Below(i) : i \in rows} = 0 .. r - 1
  BY <1>6
<1>8. DOMAIN Surviving(o, kept) = 0 .. r - 1
  BY <1>3, <1>7
<1>9. ASSUME NEW n \in 0 .. r - 1, NEW i \in rows, Below(i) = n
      PROVE  Surviving(o, kept)[n] = o[i]
  <2>1. (CHOOSE k \in rows : Below(k) = n) = i
    BY <1>6, <1>9
  <2> QED
    BY <1>3, <1>7, <2>1
<1>10. Surviving(o, kept) \in [DOMAIN Surviving(o, kept) -> kept]
  <2> DEFINE D      == {Below(i) : i \in rows}
             row(n) == o[CHOOSE i \in rows : Below(i) = n]
  <2>1. Surviving(o, kept) = [n \in D |-> row(n)]
    BY <1>3
  <2>2. D = 0 .. r - 1
    BY <1>7
  <2> HIDE DEF D, row
  <2>3. \A n \in D : Surviving(o, kept)[n] \in kept
    BY <1>4, <1>6, <1>9, <2>2
  <2> QED
    BY <2>1, <2>3
<1> QED
  BY <1>4, <1>5, <1>6, <1>8, <1>9, <1>10 DEF Leaves

-----------------------------------------------------------------------------
(* The two tables.                                                         *)

\* queue_items: ids and positions are unique, and dense unless there are holes.
Table(p, gaps) ==
    /\ DOMAIN p \subseteq 1 .. MaxItem
    /\ p \in [DOMAIN p -> 0 .. MaxItem]
    /\ \A x, y \in DOMAIN p : p[x] = p[y] => x = y
    /\ gaps \/ {p[x] : x \in DOMAIN p} = 0 .. Cardinality(DOMAIN p) - 1

\* queue_shuffle: dense rows that refer to items.
ShuffleRows(o, ids) ==
    /\ \E m \in Nat : DOMAIN o = 0 .. m - 1
    /\ o \in [DOMAIN o -> ids]

Covers(o, ids) == \A x \in ids : \E i \in DOMAIN o : o[i] = x

LEMMA IdsFinite ==
  ASSUME NEW S \in SUBSET (1 .. MaxItem)
  PROVE  IsFiniteSet(S) /\ Cardinality(S) \in 0 .. MaxItem
<1>1. MaxItem \in Nat
  BY PlayQueueAssumption
<1>2. IsFiniteSet(1 .. MaxItem) /\ Cardinality(1 .. MaxItem) = MaxItem
  BY <1>1, FS_Interval
<1>3. IsFiniteSet(S) /\ Cardinality(S) \in Nat /\ Cardinality(S) <= MaxItem
  BY <1>2, FS_Subset, FS_CardinalityType
<1> QED
  BY <1>1, <1>3

\* Whatever rows are taken out, what is left is a table with gaps.
LEMMA RestrictedIs ==
  ASSUME NEW p, NEW gaps, Table(p, gaps), NEW S
  PROVE  Table(Restricted(p, S), TRUE) /\ DOMAIN Restricted(p, S) = DOMAIN p \cap S
  BY DEF Table, Restricted

\* Renumbering makes it dense.
LEMMA RenumberedIs ==
  ASSUME NEW p, Table(p, TRUE)
  PROVE  Table(Renumbered(p), FALSE) /\ DOMAIN Renumbered(p) = DOMAIN p
<1> DEFINE S == DOMAIN p
           n == Cardinality(S)
           q == Renumbered(p)
<1>1. IsFiniteSet(S) /\ n \in 0 .. MaxItem /\ MaxItem \in Nat
  BY IdsFinite, PlayQueueAssumption DEF Table
<1>2. p \in [S -> Nat] /\ \A x, y \in S : p[x] = p[y] => x = y
  BY <1>1 DEF Table
<1>3. q = [x \in S |-> Rank(p, x)]
  BY DEF Renumbered
<1>4. S \subseteq 1 .. MaxItem
  BY DEF Table
<1> HIDE DEF S, q
<1>5. Ranked(S, p)
  BY <1>1, <1>2, RankIs
<1>6. /\ \A x \in S : Rank(p, x) \in Nat /\ Rank(p, x) < n
      /\ \A x, y \in S : Rank(p, x) = Rank(p, y) => x = y
      /\ \A i \in Nat : i < n => \E x \in S : Rank(p, x) = i
  BY <1>5 DEF Ranked
<1> HIDE DEF n
<1>7. q \in [S -> 0 .. MaxItem] /\ DOMAIN q = S
  BY <1>1, <1>3, <1>6
<1>8. \A x, y \in S : q[x] = q[y] => x = y
  BY <1>3, <1>6
<1>9. {q[x] : x \in S} = 0 .. n - 1
  BY <1>1, <1>3, <1>6
<1>10. Table(q, FALSE) /\ DOMAIN q = S
  BY <1>4, <1>7, <1>8, <1>9 DEF Table, n
<1> QED
  BY <1>10 DEF q, S

\* What INSERT ... ORDER BY random() leaves covers the queue.
LEMMA EnumerationsAre ==
  ASSUME NEW S \in SUBSET (1 .. MaxItem), NEW f \in Enumerations(S)
  PROVE  /\ DOMAIN f = 0 .. Cardinality(S) - 1 /\ ShuffleRows(f, S) /\ Covers(f, S)
         /\ \A i, j \in DOMAIN f : f[i] = f[j] => i = j
<1>1. Cardinality(S) \in Nat
  BY IdsFinite, PlayQueueAssumption
<1>2. /\ f \in [0 .. Cardinality(S) - 1 -> S] /\ ~ HasDuplicate(f)
      /\ S = {f[i] : i \in DOMAIN f}
  BY DEF Enumerations
<1>3. DOMAIN f = 0 .. Cardinality(S) - 1
  BY <1>2
<1> QED
  BY <1>1, <1>2, <1>3 DEF ShuffleRows, Covers, HasDuplicate

\* The order that ReorderQueue writes.
LEMMA ReorderedIs ==
  ASSUME NEW S \in SUBSET (1 .. MaxItem), NEW f \in Enumerations(S)
  PROVE  Table([x \in S |-> CHOOSE i \in DOMAIN f : f[i] = x], FALSE)
<1> DEFINE q == [x \in S |-> CHOOSE i \in DOMAIN f : f[i] = x]
           n == Cardinality(S)
<1>1. n \in Nat /\ n <= MaxItem /\ MaxItem \in Nat
  BY IdsFinite, PlayQueueAssumption
<1>2. /\ DOMAIN f = 0 .. n - 1 /\ \A x \in S : \E i \in DOMAIN f : f[i] = x
      /\ \A i, j \in DOMAIN f : f[i] = f[j] => i = j
      /\ \A i \in DOMAIN f : f[i] \in S
  BY EnumerationsAre DEF ShuffleRows, Covers
<1>3. ASSUME NEW x \in S
      PROVE  q[x] \in DOMAIN f /\ f[q[x]] = x
  <2>1. \E i \in DOMAIN f : f[i] = x
    BY <1>2
  <2>2. q[x] = CHOOSE i \in DOMAIN f : f[i] = x
    OBVIOUS
  <2> HIDE DEF q
  <2> QED
    BY <2>1, <2>2
<1>4. q = [x \in S |-> q[x]] /\ DOMAIN q = S
  OBVIOUS
<1> HIDE DEF q, n
<1>5. q \in [S -> 0 .. MaxItem]
  <2>1. \A x \in S : q[x] \in 0 .. MaxItem
    BY <1>1, <1>2, <1>3
  <2> QED
    BY <1>4, <2>1
<1>6. ASSUME NEW i \in 0 .. n - 1
      PROVE  \E x \in S : q[x] = i
  <2>1. i \in DOMAIN f /\ f[i] \in S
    BY <1>2, <1>6
  <2>2. q[f[i]] \in DOMAIN f /\ f[q[f[i]]] = f[i]
    BY <1>3, <2>1
  <2>3. q[f[i]] = i
    BY <1>2, <2>1, <2>2
  <2> QED
    BY <2>1, <2>3
<1>7. {q[x] : x \in S} = 0 .. n - 1
  BY <1>2, <1>3, <1>6
<1>8. \A x, y \in S : q[x] = q[y] => x = y
  BY <1>3
<1>9. Table(q, FALSE)
  BY <1>4, <1>5, <1>7, <1>8 DEF Table, n
<1> QED
  BY <1>9 DEF q

\* INSERT at the end: a new id behind the ids, a position behind the positions.
LEMMA AppendedIs ==
  ASSUME Table(position, holes), NewId <= MaxItem, After(Positions) <= MaxItem
  PROVE  LET q == [x \in Ids \cup {NewId} |-> IF x = NewId THEN After(Positions) ELSE position[x]]
         IN  /\ Table(q, holes) /\ DOMAIN q = Ids \cup {NewId} /\ NewId \notin Ids
             /\ \A x \in Ids : q[x] < q[NewId]
<1> DEFINE id == NewId
           at == After(Positions)
           q  == [x \in Ids \cup {id} |-> IF x = id THEN at ELSE position[x]]
           n  == Cardinality(Ids)
<1>1. /\ MaxItem \in Nat /\ Ids \in SUBSET (1 .. MaxItem) /\ Ids \in SUBSET (0 .. MaxItem)
      /\ IsFiniteSet(Ids) /\ n \in 0 .. MaxItem /\ n \in Nat
      /\ position \in [Ids -> 0 .. MaxItem]
      /\ \A x, y \in Ids : position[x] = position[y] => x = y
  <2>1. MaxItem \in Nat /\ Ids \in SUBSET (1 .. MaxItem)
    BY PlayQueueAssumption DEF Table, Ids
  <2>2. IsFiniteSet(Ids) /\ n \in 0 .. MaxItem
    BY <2>1, IdsFinite
  <2> QED
    BY <2>1, <2>2 DEF Table, Ids
<1>2. id \in 1 .. MaxItem /\ id \notin Ids
  <2>1. CASE Ids = {}
    BY <1>1, <2>1 DEF NewId
  <2>2. CASE Ids # {}
    <3>1. Largest(Ids) \in Ids /\ \A m \in Ids : m <= Largest(Ids)
      BY <1>1, <2>2, LargestIs
    <3>2. NewId = Largest(Ids) + 1
      BY <2>2 DEF NewId
    <3>3. \A m \in Ids : m \in Nat /\ m >= 1
      BY <1>1
    <3> DEFINE l == Largest(Ids)
    <3>4. l \in Nat /\ l >= 1 /\ id = l + 1 /\ id <= MaxItem
      BY <3>1, <3>2, <3>3
    <3>5. \A m \in Ids : m # l + 1
      BY <3>1, <3>3, <3>4
    <3> HIDE DEF id, l
    <3> QED
      BY <1>1, <3>4, <3>5
  <2> QED
    BY <2>1, <2>2
<1>3. Positions \in SUBSET (0 .. MaxItem) /\ \A x \in Ids : position[x] \in Positions
  BY <1>1 DEF Positions
<1>4. at \in 0 .. MaxItem /\ \A m \in Positions : m < at
  <2>1. at \in Nat /\ \A m \in Positions : m < at
    BY <1>1, <1>3, LargestIs
  <2> QED
    BY <1>1, <2>1
<1>5. Positions = 0 .. n - 1 => at = n
  <2> SUFFICES ASSUME Positions = 0 .. n - 1
               PROVE  at = n
    OBVIOUS
  <2>1. CASE n = 0
    <3>1. Positions = {}
      BY <2>1
    <3> QED
      BY <2>1, <3>1 DEF After
  <2>2. CASE n # 0
    <3>1. n - 1 \in Positions /\ Positions # {}
      BY <1>1, <2>2
    <3>2. Largest(Positions) \in Positions /\ \A m \in Positions : m <= Largest(Positions)
      BY <1>1, <1>3, <3>1, LargestIs
    <3> HIDE DEF n
    <3>3. Largest(Positions) = n - 1
      BY <1>1, <3>1, <3>2
    <3>4. After(Positions) = Largest(Positions) + 1
      BY <3>1 DEF After
    <3> QED
      BY <1>1, <3>3, <3>4
  <2> QED
    BY <2>1, <2>2
<1>6. Cardinality(Ids \cup {id}) = n + 1
  BY <1>1, <1>2, FS_AddElement
<1> HIDE DEF id, at, n
<1>7. /\ q \in [Ids \cup {id} -> 0 .. MaxItem] /\ DOMAIN q = Ids \cup {id}
      /\ q[id] = at /\ \A x \in Ids : q[x] = position[x] /\ q[x] \in Positions
  BY <1>1, <1>2, <1>3, <1>4
<1> HIDE DEF q
<1>8. \A x \in Ids : q[x] < q[id]
  BY <1>4, <1>7
<1>9. \A x, y \in DOMAIN q : q[x] = q[y] => x = y
  <2>1. \A x \in Ids : q[x] # q[id]
    BY <1>1, <1>3, <1>4, <1>7
  <2> QED
    BY <1>1, <1>7, <2>1
<1>10. holes \/ {q[x] : x \in DOMAIN q} = 0 .. Cardinality(DOMAIN q) - 1
  <2> SUFFICES ASSUME ~ holes
               PROVE  {q[x] : x \in DOMAIN q} = 0 .. Cardinality(DOMAIN q) - 1
    OBVIOUS
  <2>1. Positions = 0 .. n - 1
    BY DEF Table, Positions, Ids, n
  <2>2. {q[x] : x \in DOMAIN q} = Positions \cup {at}
    BY <1>7 DEF Positions
  <2>3. Positions \cup {at} = 0 .. n
    BY <1>1, <1>5, <2>1
  <2> QED
    BY <1>1, <1>6, <1>7, <2>2, <2>3
<1>11. Table(q, holes)
  BY <1>1, <1>2, <1>7, <1>9, <1>10 DEF Table
<1> QED
  BY <1>2, <1>7, <1>8, <1>11 DEF q, id, at

\* The list of songs that PlaySongs queues.
LEMMA FreshIs ==
  ASSUME NEW n \in 0 .. MaxItem
  PROVE  Table([x \in 1 .. n |-> x - 1], FALSE)
<1> DEFINE q == [x \in 1 .. n |-> x - 1]
<1>1. n \in Nat /\ n <= MaxItem /\ MaxItem \in Nat
  BY PlayQueueAssumption
<1>2. Cardinality(1 .. n) = n
  BY <1>1, FS_Interval
<1>3. DOMAIN q = 1 .. n /\ q \in [1 .. n -> 0 .. MaxItem]
      /\ \A x, y \in 1 .. n : q[x] = q[y] => x = y
  BY <1>1
<1>4. {q[x] : x \in 1 .. n} = 0 .. n - 1
  <2>1. \A i \in 0 .. n - 1 : i + 1 \in 1 .. n /\ q[i + 1] = i
    BY <1>1
  <2>2. \A x \in 1 .. n : q[x] \in 0 .. n - 1
    BY <1>1
  <2> HIDE DEF q
  <2> QED
    BY <2>1, <2>2
<1>5. 1 .. n \subseteq 1 .. MaxItem
  BY <1>1
<1> HIDE DEF q
<1>6. Table(q, FALSE)
  BY <1>2, <1>3, <1>4, <1>5 DEF Table
<1> QED
  BY <1>6 DEF q

\* The rows that a removal leaves.
LEMMA SurvivingRows ==
  ASSUME NEW o, NEW ids, ShuffleRows(o, ids), NEW kept \in SUBSET ids
  PROVE  /\ ShuffleRows(Surviving(o, kept), kept)
         /\ \A S \in SUBSET ids : Covers(o, S) => Covers(Surviving(o, kept), S \cap kept)
<1> DEFINE r == Surviving(o, kept)
<1>1. PICK m \in Nat : DOMAIN o = 0 .. m - 1
  BY DEF ShuffleRows
<1>2. Leaves(o, kept, r)
  BY <1>1, SurvivingIs
<1> HIDE DEF r
<1>4. ShuffleRows(r, kept)
  BY <1>2 DEF ShuffleRows, Leaves
<1>5. ASSUME NEW S \in SUBSET ids, Covers(o, S)
      PROVE  Covers(r, S \cap kept)
  BY <1>2, <1>5 DEF Covers, Leaves
<1> QED
  BY <1>4, <1>5 DEF r

\* One more row at the end.
LEMMA AddedRow ==
  ASSUME NEW o, NEW ids, ShuffleRows(o, ids), NEW x \in ids
  PROVE  LET row == After(DOMAIN o)
             r   == [i \in DOMAIN o \cup {row} |-> IF i = row THEN x ELSE o[i]]
         IN  /\ ShuffleRows(r, ids)
             /\ \A S : Covers(o, S \ {x}) => Covers(r, S)
<1> DEFINE row == After(DOMAIN o)
           r   == [i \in DOMAIN o \cup {row} |-> IF i = row THEN x ELSE o[i]]
<1>1. PICK m \in Nat : DOMAIN o = 0 .. m - 1
  BY DEF ShuffleRows
<1>2. row = m
  <2>1. CASE m = 0
    <3>1. DOMAIN o = {}
      BY <1>1, <2>1
    <3> QED
      BY <2>1, <3>1 DEF After
  <2>2. CASE m # 0
    <3>1. DOMAIN o \in SUBSET (0 .. m) /\ m - 1 \in DOMAIN o /\ DOMAIN o # {}
      BY <1>1, <2>2
    <3>2. Largest(DOMAIN o) \in DOMAIN o /\ \A k \in DOMAIN o : k <= Largest(DOMAIN o)
      BY <3>1, LargestIs
    <3>3. Largest(DOMAIN o) = m - 1
      BY <1>1, <3>1, <3>2
    <3> QED
      BY <3>1, <3>3 DEF After
  <2> QED
    BY <2>1, <2>2
<1> HIDE DEF row
<1>3. DOMAIN o \cup {row} = 0 .. m /\ row \notin DOMAIN o /\ 0 .. m = 0 .. (m + 1) - 1
  BY <1>1, <1>2
<1>4. r \in [DOMAIN r -> ids] /\ DOMAIN r = DOMAIN o \cup {row}
      /\ r[row] = x /\ \A i \in DOMAIN o : r[i] = o[i]
  BY <1>3 DEF ShuffleRows
<1> HIDE DEF r
<1>5. ShuffleRows(r, ids)
  BY <1>3, <1>4 DEF ShuffleRows
<1>6. ASSUME NEW S, Covers(o, S \ {x})
      PROVE  Covers(r, S)
  BY <1>4, <1>6 DEF Covers
<1> QED
  BY <1>5, <1>6 DEF r, row

-----------------------------------------------------------------------------
(* The invariant.                                                          *)

Tables == Table(position, holes) /\ ShuffleRows(order, Ids)

Callers ==
    /\ shuffle \in BOOLEAN /\ holes \in BOOLEAN /\ serial \in BOOLEAN /\ seen \in Nat
    /\ pc \in [Threads -> PCs]
    /\ \A t, u \in Threads : pc[t] \in Locking /\ pc[u] \in Locking => t = u
    /\ pc[EventLoop] \in {"idle", "listed", "mismatch"}

Busy(c) == pc[c] \in Adding \cup Writing

\* While requests come one at a time, the order lacks at most the item that a
\* request is adding, or is about to be drawn again.
CoveredSerially ==
    serial =>
        /\ \A c, d \in Clients : Busy(c) /\ Busy(d) => c = d
        /\ shuffle /\ (\A c \in Clients : ~ Busy(c)) => Covers(order, Ids)
        /\ \A c \in Clients : shuffle /\ pc[c] \in Adding => Covers(order, Ids \ {LastItem})
        /\ \A c \in Clients : pc[c] \in {"rebuilt", "reshuffled"} => Covers(order, Ids)

QueueInv == Tables /\ Callers /\ CoveredSerially

LEMMA QueueInvSays == QueueInv => TypeOK /\ ShuffleCoversQueue /\ PositionsDense
<1> SUFFICES ASSUME QueueInv
             PROVE  TypeOK /\ ShuffleCoversQueue /\ PositionsDense
  OBVIOUS
<1>1. Table(position, holes) /\ ShuffleRows(order, Ids) /\ Callers /\ CoveredSerially
  BY DEF QueueInv, Tables
<1>2. Ids \subseteq 1 .. MaxItem /\ position \in [Ids -> Nat]
  BY <1>1, PlayQueueAssumption DEF Table, Ids
<1>3. DOMAIN order = 0 .. Cardinality(DOMAIN order) - 1
  <2>1. PICK m \in Nat : DOMAIN order = 0 .. m - 1
    BY <1>1 DEF ShuffleRows
  <2>2. Cardinality(0 .. m - 1) = m
    BY FS_Interval
  <2> QED
    BY <2>1, <2>2
<1>4. order \in [DOMAIN order -> Ids]
  BY <1>1 DEF ShuffleRows
<1>5. TypeOK
  BY <1>1, <1>2, <1>3, <1>4 DEF TypeOK, Callers
<1>6. PositionsDense
  BY <1>1 DEF PositionsDense, Table, Positions, Ids
<1>7. ShuffleCoversQueue
  <2> SUFFICES ASSUME shuffle, Resting, serial
               PROVE  Ids \subseteq {order[i] : i \in DOMAIN order}
    BY DEF ShuffleCoversQueue
  <2>1. \A c \in Clients : ~ Busy(c)
    BY DEF Resting, Busy, Threads, Adding, Writing
  <2>2. Covers(order, Ids)
    BY <1>1, <2>1 DEF CoveredSerially
  <2> QED
    BY <2>2 DEF Covers
<1> QED
  BY <1>5, <1>6, <1>7

LEMMA InitQueueInv == Init => QueueInv
<1> SUFFICES ASSUME Init
             PROVE  QueueInv
  OBVIOUS
<1>1. Ids = {} /\ DOMAIN order = {} /\ {} = 0 .. 0 - 1 /\ Cardinality({}) = 0
  BY FS_EmptySet DEF Init, Ids
<1>2. Table(position, holes)
  BY <1>1 DEF Init, Table, Ids
<1>3. ShuffleRows(order, Ids)
  BY <1>1 DEF Init, ShuffleRows
<1>4. Callers
  BY DEF Init, Callers, Threads, PCs, Locking, Writing
<1>5. CoveredSerially
  BY <1>1 DEF Init, CoveredSerially, Busy, Covers, Threads, Adding, Writing
<1> QED
  BY <1>2, <1>3, <1>4, <1>5 DEF QueueInv, Tables

-----------------------------------------------------------------------------
(* The tables, step by step.                                               *)

\* Rows are taken out of both tables and the positions renumbered or not.
LEMMA RemovedRows ==
  ASSUME Tables, NEW gone,
         LET p == Restricted(position, Ids \ gone)
         IN  \/ position' = p /\ holes' = TRUE
             \/ position' = Renumbered(p) /\ holes' = FALSE,
         order' = Surviving(order, Ids \ gone)
  PROVE  /\ Tables' /\ Ids' = Ids \ gone
         /\ \A S \in SUBSET Ids : Covers(order, S) => Covers(order', S \ gone)
<1> DEFINE p == Restricted(position, Ids \ gone)
<1>1. Table(p, TRUE) /\ DOMAIN p = Ids \ gone
  <2>1. Table(position, holes)
    BY DEF Tables
  <2>2. Table(p, TRUE) /\ DOMAIN p = DOMAIN position \cap (Ids \ gone)
    BY <2>1, RestrictedIs
  <2> HIDE DEF p
  <2> QED
    BY <2>2 DEF Ids
<1>2. /\ ShuffleRows(order', Ids \ gone)
      /\ \A S \in SUBSET Ids : Covers(order, S) => Covers(order', S \cap (Ids \ gone))
  BY SurvivingRows DEF Tables
<1> HIDE DEF p
<1>3. Table(Renumbered(p), FALSE) /\ DOMAIN Renumbered(p) = DOMAIN p
  BY <1>1, RenumberedIs
<1>4. Table(position', holes') /\ Ids' = Ids \ gone
  BY <1>1, <1>3 DEF p, Ids
<1>5. \A S \in SUBSET Ids : S \cap (Ids \ gone) = S \ gone
  OBVIOUS
<1> QED
  BY <1>2, <1>4, <1>5 DEF Tables

LEMMA EmptyTables ==
  ASSUME Tables, position' = [x \in {} |-> 0], order' = [i \in {} |-> 0], holes' = FALSE
  PROVE  Tables' /\ Ids' = {}
<1>1. Ids' = {} /\ DOMAIN order' = {} /\ {} = 0 .. 0 - 1 /\ Cardinality({}) = 0
  BY FS_EmptySet DEF Ids
<1>2. Table(position', holes')
  BY <1>1 DEF Table, Ids
<1>3. ShuffleRows(order', Ids')
  BY <1>1 DEF ShuffleRows
<1> QED
  BY <1>1, <1>2, <1>3 DEF Tables

LEMMA DrawnAgain ==
  ASSUME Tables, Rebuild, UNCHANGED <<position, holes>>
  PROVE  Tables' /\ Ids' = Ids /\ Covers(order', Ids')
<1>1. Ids \in SUBSET (1 .. MaxItem) /\ Ids' = Ids
  BY DEF Tables, Table, Ids
<1>2. ShuffleRows(order', Ids) /\ Covers(order', Ids)
  BY <1>1, EnumerationsAre DEF Rebuild
<1> QED
  BY <1>1, <1>2 DEF Tables

LEMMA ReorderTables ==
  ASSUME Tables, NEW c, ReorderQueue(c)
  PROVE  Tables' /\ Ids' = Ids
<1>1. Ids \in SUBSET (1 .. MaxItem)
  BY DEF Tables, Table, Ids
<1>2. PICK ids \in Enumerations(Ids) :
         position' = [x \in Ids |-> CHOOSE i \in DOMAIN ids : ids[i] = x]
  BY DEF ReorderQueue
<1>3. Table(position', FALSE) /\ holes' = FALSE /\ order' = order
  BY <1>1, <1>2, ReorderedIs DEF ReorderQueue
<1>4. Ids' = Ids
  BY <1>2 DEF Ids
<1> QED
  BY <1>3, <1>4 DEF Tables

\* The new item is the last one.
LEMMA InsertTables ==
  ASSUME Tables, NEW c, AddQueueInsert(c)
  PROVE  Tables' /\ Ids' \ {LastItem'} \subseteq Ids
<1> DEFINE q == [x \in Ids \cup {NewId} |-> IF x = NewId THEN After(Positions) ELSE position[x]]
<1>1. /\ Table(q, holes) /\ DOMAIN q = Ids \cup {NewId} /\ NewId \notin Ids
      /\ \A x \in Ids : q[x] < q[NewId]
  BY AppendedIs DEF Tables, AddQueueInsert
<1>2. position' = q /\ holes' = holes /\ order' = order
  BY DEF AddQueueInsert
<1> HIDE DEF q
<1>3. Ids' = Ids \cup {NewId}
  BY <1>1, <1>2 DEF Ids
<1>4. ShuffleRows(order', Ids')
  BY <1>2, <1>3 DEF Tables, ShuffleRows
<1>5. LastItem' = NewId
  <2>1. q \in [DOMAIN q -> 0 .. MaxItem] /\ MaxItem \in Nat
    BY <1>1, PlayQueueAssumption DEF Table
  <2>2. \A x \in DOMAIN q : q[x] \in Nat
    BY <2>1
  <2>3. \A y \in DOMAIN q : q[y] <= q[NewId]
    BY <1>1, <2>2
  <2>4. \A x \in DOMAIN q : (\A y \in DOMAIN q : q[y] <= q[x]) => x = NewId
    BY <1>1, <2>2
  <2>5. LastItem' = CHOOSE x \in DOMAIN q : \A y \in DOMAIN q : q[y] <= q[x]
    BY <1>1, <1>2, <1>3 DEF LastItem
  <2> QED
    BY <1>1, <2>3, <2>4, <2>5
<1> QED
  BY <1>1, <1>2, <1>3, <1>4, <1>5 DEF Tables

\* The last item gets a row of its own; on an empty queue none is written.
LEMMA AddRowTables ==
  ASSUME Tables, NEW c, AddQueueShuffleRow(c)
  PROVE  /\ Tables' /\ Ids' = Ids
         /\ Covers(order, Ids \ {LastItem}) => Covers(order', Ids)
<1>1. Ids' = Ids /\ Table(position', holes') /\ ShuffleRows(order, Ids)
  BY DEF AddQueueShuffleRow, Tables, Ids
<1>2. CASE Ids = {}
  <2>1. order' = order
    BY <1>2 DEF AddQueueShuffleRow
  <2> QED
    BY <1>1, <1>2, <2>1 DEF Tables, Covers
<1>3. CASE Ids # {}
  <2> DEFINE row == After(DOMAIN order)
             r   == [i \in DOMAIN order \cup {row} |-> IF i = row THEN LastItem ELSE order[i]]
  <2>1. LastItem \in Ids
    <3> DEFINE pos == {position[x] : x \in Ids}
    <3>1. MaxItem \in Nat /\ position \in [Ids -> 0 .. MaxItem]
      BY PlayQueueAssumption DEF Tables, Table, Ids
    <3>2. pos \in SUBSET (0 .. MaxItem) /\ pos # {}
      BY <1>3, <3>1
    <3> HIDE DEF pos
    <3>3. Largest(pos) \in pos /\ \A m \in pos : m <= Largest(pos)
      BY <3>1, <3>2, LargestIs
    <3>4. PICK x \in Ids : position[x] = Largest(pos)
      BY <3>3 DEF pos
    <3>5. \A y \in Ids : position[y] <= position[x]
      BY <3>3, <3>4 DEF pos
    <3> QED
      BY <3>5 DEF LastItem
  <2>2. order' = r
    BY <1>3 DEF AddQueueShuffleRow
  <2>3. ShuffleRows(r, Ids) /\ \A S : Covers(order, S \ {LastItem}) => Covers(r, S)
    BY <1>1, <2>1, AddedRow
  <2> HIDE DEF r
  <2> QED
    BY <1>1, <2>2, <2>3 DEF Tables
<1> QED
  BY <1>2, <1>3

LEMMA ReplaceTables ==
  ASSUME Tables, NEW c, NEW n \in 1 .. MaxItem, NEW wanted, PlaySongsReplace(c, n, wanted)
  PROVE  Tables'
<1>1. n \in 0 .. MaxItem
  BY PlayQueueAssumption
<1>2. Table(position', holes')
  BY <1>1, FreshIs DEF PlaySongsReplace
<1>3. DOMAIN order' = {} /\ {} = 0 .. 0 - 1 /\ order' = [i \in {} |-> 0]
  BY DEF PlaySongsReplace
<1>4. ShuffleRows(order', Ids')
  BY <1>3 DEF ShuffleRows
<1> QED
  BY <1>2, <1>4 DEF Tables

-----------------------------------------------------------------------------
(* The callers.                                                            *)

LEMMA GotoCallers ==
  ASSUME Callers, NEW t \in Threads, NEW l \in PCs, Goto(t, l),
         l \in Locking => pc[t] \in Locking \/ ~ Locked,
         t = EventLoop => l \in {"idle", "listed", "mismatch"},
         shuffle' \in BOOLEAN, holes' \in BOOLEAN, serial' \in BOOLEAN, seen' \in Nat
  PROVE  Callers'
<1>1. pc \in [Threads -> PCs] /\ pc' = [pc EXCEPT ![t] = l]
  BY DEF Callers, Goto
<1>2. pc' \in [Threads -> PCs] /\ pc'[t] = l /\ \A u \in Threads \ {t} : pc'[u] = pc[u]
  BY <1>1
<1>3. EventLoop \in Threads /\ pc'[EventLoop] \in {"idle", "listed", "mismatch"}
  BY <1>2 DEF Callers, Threads
<1>4. ASSUME NEW u \in Threads, NEW v \in Threads, pc'[u] \in Locking, pc'[v] \in Locking
      PROVE  u = v
  <2>1. CASE u # t /\ v # t
    BY <1>2, <1>4, <2>1 DEF Callers
  <2>2. CASE u = t /\ v # t
    <3>1. l \in Locking /\ pc[v] \in Locking
      BY <1>2, <1>4, <2>2
    <3> QED
      BY <2>2, <3>1 DEF Callers, Locked
  <2>3. CASE u # t /\ v = t
    <3>1. l \in Locking /\ pc[u] \in Locking
      BY <1>2, <1>4, <2>3
    <3> QED
      BY <2>3, <3>1 DEF Callers, Locked
  <2> QED
    BY <2>1, <2>2, <2>3
<1> QED
  BY <1>2, <1>3, <1>4 DEF Callers

\* What a step that leaves its caller at l must leave covered.
Owes(l) ==
    /\ shuffle' /\ l \notin Adding \cup Writing => Covers(order', Ids')
    /\ shuffle' /\ l \in Adding => Covers(order', Ids' \ {LastItem'})
    /\ l \in {"rebuilt", "reshuffled"} => Covers(order', Ids')

Alone(c) == \A d \in Clients \ {c} : ~ Busy(d)

\* What a caller that is alone finds covered.
LEMMA Found ==
  ASSUME CoveredSerially, serial, NEW c \in Clients, Alone(c)
  PROVE  /\ shuffle /\ ~ Busy(c) => Covers(order, Ids)
         /\ shuffle /\ pc[c] \in Adding => Covers(order, Ids \ {LastItem})
         /\ pc[c] \in {"rebuilt", "reshuffled"} => Covers(order, Ids)
  BY DEF CoveredSerially, Alone

SerialStep(c) ==
    serial' = /\ ~Unfinished(Clients \ {c})
              /\ serial \/ pc'[c] \in {"rebuilt", "reshuffled"}

LEMMA RequestSerial ==
  ASSUME Callers, NEW c \in Clients, NEW l, Goto(c, l), SerialStep(c),
         Alone(c) /\ (serial \/ l \in {"rebuilt", "reshuffled"}) => Owes(l)
  PROVE  CoveredSerially'
<1>1. pc'[c] = l /\ \A d \in Clients \ {c} : pc'[d] = pc[d]
  BY DEF Goto, Callers, Threads
<1> SUFFICES ASSUME serial'
             PROVE  /\ \A d, e \in Clients : Busy(d)' /\ Busy(e)' => d = e
                    /\ shuffle' /\ (\A d \in Clients : ~ Busy(d)') => Covers(order', Ids')
                    /\ \A d \in Clients : shuffle' /\ pc'[d] \in Adding
                          => Covers(order', Ids' \ {LastItem'})
                    /\ \A d \in Clients : pc'[d] \in {"rebuilt", "reshuffled"}
                          => Covers(order', Ids')
  BY DEF CoveredSerially
<1>2. Alone(c) /\ (serial \/ l \in {"rebuilt", "reshuffled"})
  BY <1>1 DEF SerialStep, Unfinished, Alone, Busy
<1>3. Owes(l)
  BY <1>2
<1>4. \A d \in Clients \ {c} : ~ Busy(d)'
  BY <1>1, <1>2 DEF Alone, Busy
<1>5. \A d \in Clients \ {c} : pc'[d] \notin Adding
                               /\ pc'[d] \notin {"rebuilt", "reshuffled"}
  BY <1>4 DEF Busy, Writing
<1>6. Busy(c)' <=> l \in Adding \cup Writing
  BY <1>1 DEF Busy
<1> QED
  BY <1>1, <1>3, <1>4, <1>5, <1>6 DEF Owes

\* A request that stays idle.
LEMMA StaysIdle ==
  ASSUME Callers, NEW c \in Clients, pc[c] = "idle", UNCHANGED pc
  PROVE  Goto(c, "idle")
<1>1. pc \in [Threads -> PCs] /\ c \in Threads
  BY DEF Callers, Threads
<1> QED
  BY <1>1 DEF Goto

\* The two together: a request's step from the tables it leaves.
LEMMA RequestStep ==
  ASSUME QueueInv, NEW c \in Clients, NEW l \in PCs, Goto(c, l), SerialStep(c),
         l \in Locking => pc[c] \in Locking \/ ~ Locked,
         shuffle' \in BOOLEAN, holes' \in BOOLEAN, seen' \in Nat, Tables',
         Alone(c) /\ (serial \/ l \in {"rebuilt", "reshuffled"}) => Owes(l)
  PROVE  QueueInv'
<1>1. c \in Threads /\ c # EventLoop
  BY PlayQueueAssumption DEF Threads
<1>2. serial' \in BOOLEAN
  BY Zenon DEF SerialStep
<1>3. Callers'
  BY <1>1, <1>2, GotoCallers DEF QueueInv
<1>4. CoveredSerially'
  BY RequestSerial DEF QueueInv
<1> QED
  BY <1>3, <1>4 DEF QueueInv

-----------------------------------------------------------------------------
(* The requests, action by action.                                         *)

\* Nothing is asked of what is between two writes or has shuffle off.
LEMMA OwesNothing ==
  ASSUME NEW l, l \notin {"rebuilt", "reshuffled"},
         ~ shuffle' \/ l \in {"replaced", "replacedPlain"}
  PROVE  Owes(l)
  BY DEF Owes, Adding, Writing

LEMMA OwesIdle ==
  ASSUME NEW l \in {"idle", "reading"}, shuffle' => Covers(order', Ids')
  PROVE  Owes(l)
  BY DEF Owes, Adding, Writing

LEMMA OwesAdding ==
  ASSUME NEW l \in Adding, shuffle' => Covers(order', Ids' \ {LastItem'})
  PROVE  Owes(l)
  BY DEF Owes, Adding, Writing

LEMMA OwesWriting ==
  ASSUME NEW l \in {"rebuilt", "reshuffled"}, Covers(order', Ids')
  PROVE  Owes(l)
  BY DEF Owes, Adding, Writing

LEMMA CoversFewer ==
  ASSUME NEW o, NEW S, NEW R \in SUBSET S, Covers(o, S)
  PROVE  Covers(o, R)
  BY DEF Covers

LEMMA InsertKeeps ==
  ASSUME QueueInv, NEW c \in Clients, AddQueueInsert(c), SerialStep(c)
  PROVE  QueueInv'
<1> DEFINE l == "inserted"
<1>1. l \in PCs /\ l \in Adding /\ l \notin Locking /\ l \notin {"rebuilt", "reshuffled"}
  BY DEF PCs, Adding, Locking, Writing
<1>2. /\ Goto(c, l) /\ pc[c] = "idle" /\ order' = order
      /\ shuffle' = shuffle /\ seen' = seen /\ holes' = holes
  BY DEF AddQueueInsert
<1>3. shuffle' \in BOOLEAN /\ holes' \in BOOLEAN /\ seen' \in Nat
  BY <1>2 DEF QueueInv, Callers
<1>4. Tables' /\ Ids' \ {LastItem'} \subseteq Ids
  BY InsertTables DEF QueueInv
<1>5. ASSUME Alone(c), serial \/ l \in {"rebuilt", "reshuffled"}
      PROVE  Owes(l)
  <2>1. shuffle /\ ~ Busy(c) => Covers(order, Ids)
    BY <1>1, <1>5, Found DEF QueueInv
  <2>2. ~ Busy(c)
    BY <1>2 DEF Busy, Adding, Writing
  <2>3. shuffle' => Covers(order', Ids' \ {LastItem'})
    BY <1>2, <1>4, <2>1, <2>2, CoversFewer
  <2> QED
    BY <1>1, <2>3, OwesAdding
<1> HIDE DEF l
<1> QED
  BY <1>1, <1>2, <1>3, <1>4, <1>5, RequestStep

LEMMA ReadFlagKeeps ==
  ASSUME QueueInv, NEW c \in Clients, AddQueueReadFlag(c), SerialStep(c)
  PROVE  QueueInv'
<1> DEFINE l == IF shuffle THEN "flagged" ELSE "idle"
<1>1. l \in PCs /\ l \notin Locking /\ l \notin {"rebuilt", "reshuffled"}
  BY DEF PCs, Adding, Locking, Writing
<1>2. /\ Goto(c, l) /\ pc[c] = "inserted" /\ order' = order /\ position' = position
      /\ shuffle' = shuffle /\ seen' = seen /\ holes' = holes
  BY DEF AddQueueReadFlag
<1>3. shuffle' \in BOOLEAN /\ holes' \in BOOLEAN /\ seen' \in Nat
  BY <1>2 DEF QueueInv, Callers
<1>4. Tables' /\ Ids' = Ids /\ LastItem' = LastItem
  BY <1>2 DEF QueueInv, Tables, Table, Ids, LastItem
<1>5. ASSUME Alone(c), serial \/ l \in {"rebuilt", "reshuffled"}
      PROVE  Owes(l)
  <2>1. CASE shuffle
    <3>1. shuffle /\ pc[c] \in Adding => Covers(order, Ids \ {LastItem})
      BY <1>1, <1>5, Found DEF QueueInv
    <3>2. Covers(order', Ids' \ {LastItem'})
      BY <1>2, <1>4, <2>1, <3>1 DEF Adding
    <3>3. l \in Adding
      BY <2>1 DEF Adding
    <3> QED
      BY <3>2, <3>3, OwesAdding
  <2>2. CASE ~ shuffle
    BY <1>1, <1>2, <2>2, OwesNothing
  <2> QED
    BY <2>1, <2>2
<1> HIDE DEF l
<1> QED
  BY <1>1, <1>2, <1>3, <1>4, <1>5, RequestStep

LEMMA ShuffleRowKeeps ==
  ASSUME QueueInv, NEW c \in Clients, AddQueueShuffleRow(c), SerialStep(c)
  PROVE  QueueInv'
<1>1. "idle" \in PCs /\ "idle" \notin Locking /\ "idle" \notin {"rebuilt", "reshuffled"}
  BY DEF PCs, Adding, Locking, Writing
<1>2. /\ Goto(c, "idle") /\ pc[c] = "flagged"
      /\ shuffle' = shuffle /\ seen' = seen /\ holes' = holes
  BY DEF AddQueueShuffleRow
<1>3. shuffle' \in BOOLEAN /\ holes' \in BOOLEAN /\ seen' \in Nat
  BY <1>2 DEF QueueInv, Callers
<1>4. Tables' /\ Ids' = Ids /\ (Covers(order, Ids \ {LastItem}) => Covers(order', Ids))
  BY AddRowTables DEF QueueInv
<1>5. ASSUME Alone(c), serial \/ "idle" \in {"rebuilt", "reshuffled"}
      PROVE  Owes("idle")
  <2>1. shuffle /\ pc[c] \in Adding => Covers(order, Ids \ {LastItem})
    BY <1>1, <1>5, Found DEF QueueInv
  <2>2. shuffle' => Covers(order', Ids')
    BY <1>2, <1>4, <2>1 DEF Adding
  <2> QED
    BY <2>2, OwesIdle
<1> QED
  BY <1>1, <1>2, <1>3, <1>4, <1>5, RequestStep

\* A request of one statement: it starts idle and ends idle.
LEMMA OneStatement ==
  ASSUME QueueInv, NEW c \in Clients, pc[c] = "idle", UNCHANGED <<pc, seen>>, SerialStep(c),
         shuffle' \in BOOLEAN, holes' \in BOOLEAN, Tables',
         shuffle' => shuffle /\ (Covers(order, Ids) => Covers(order', Ids'))
  PROVE  QueueInv'
<1>1. "idle" \in PCs /\ "idle" \notin Locking /\ "idle" \notin {"rebuilt", "reshuffled"}
  BY DEF PCs, Adding, Locking, Writing
<1>2. Goto(c, "idle")
  BY StaysIdle DEF QueueInv
<1>3. seen' \in Nat
  BY DEF QueueInv, Callers
<1>4. ASSUME Alone(c), serial \/ "idle" \in {"rebuilt", "reshuffled"}
      PROVE  Owes("idle")
  <2>1. shuffle /\ ~ Busy(c) => Covers(order, Ids)
    BY <1>1, <1>4, Found DEF QueueInv
  <2>2. ~ Busy(c)
    BY DEF Busy, Adding, Writing
  <2>3. shuffle' => Covers(order', Ids')
    BY <2>1, <2>2
  <2> QED
    BY <2>3, OwesIdle
<1> QED
  BY <1>1, <1>2, <1>3, <1>4, RequestStep

LEMMA RemovalKeeps ==
  ASSUME QueueInv, NEW c \in Clients, SerialStep(c),
         \/ \E x \in 1 .. MaxItem : RemoveQueue(c, x)
         \/ \E gone \in SUBSET Ids : DeleteSong(c, gone)
  PROVE  QueueInv'
<1>1. PICK gone : /\ LET p == Restricted(position, Ids \ gone)
                     IN  \/ position' = p /\ holes' = TRUE
                         \/ position' = Renumbered(p) /\ holes' = FALSE
                  /\ order' = Surviving(order, Ids \ gone)
                  /\ pc[c] = "idle" /\ UNCHANGED <<shuffle, pc, seen>>
  <2>1. CASE \E x \in 1 .. MaxItem : RemoveQueue(c, x)
    <3>1. PICK x \in 1 .. MaxItem : RemoveQueue(c, x)
      BY <2>1
    <3>2. WITNESS {x}
    <3> QED
      BY <3>1 DEF RemoveQueue
  <2>2. CASE \E gone \in SUBSET Ids : DeleteSong(c, gone)
    <3>1. PICK gone \in SUBSET Ids : DeleteSong(c, gone)
      BY <2>2
    <3>2. WITNESS gone
    <3> QED
      BY <3>1 DEF DeleteSong
  <2> QED
    BY <2>1, <2>2
<1>2. /\ Tables' /\ Ids' = Ids \ gone
      /\ \A S \in SUBSET Ids : Covers(order, S) => Covers(order', S \ gone)
  BY <1>1, RemovedRows DEF QueueInv
<1>3. Covers(order, Ids) => Covers(order', Ids')
  BY <1>2
<1>4. shuffle' \in BOOLEAN /\ holes' \in BOOLEAN /\ shuffle' = shuffle
  BY <1>1 DEF QueueInv, Callers
<1> QED
  BY <1>1, <1>2, <1>3, <1>4, OneStatement

LEMMA ReorderKeeps ==
  ASSUME QueueInv, NEW c \in Clients, ReorderQueue(c), SerialStep(c)
  PROVE  QueueInv'
<1>1. Tables' /\ Ids' = Ids
  BY ReorderTables DEF QueueInv
<1>2. /\ pc[c] = "idle" /\ UNCHANGED <<order, shuffle, pc, seen>>
      /\ holes' \in BOOLEAN /\ shuffle' \in BOOLEAN
  BY DEF ReorderQueue, QueueInv, Callers
<1> QED
  BY <1>1, <1>2, OneStatement

LEMMA ClearKeeps ==
  ASSUME QueueInv, NEW c \in Clients, ClearQueue(c), SerialStep(c)
  PROVE  QueueInv'
<1>1. Tables' /\ Ids' = {}
  BY EmptyTables DEF QueueInv, ClearQueue
<1>2. /\ pc[c] = "idle" /\ UNCHANGED <<shuffle, pc, seen>>
      /\ holes' \in BOOLEAN /\ shuffle' \in BOOLEAN
  BY DEF ClearQueue, QueueInv, Callers
<1>3. Covers(order', Ids')
  BY <1>1 DEF Covers
<1> QED
  BY <1>1, <1>2, <1>3, OneStatement

LEMMA ShuffleOffKeeps ==
  ASSUME QueueInv, NEW c \in Clients, ShuffleOff(c), SerialStep(c)
  PROVE  QueueInv'
<1>1. Tables'
  BY DEF ShuffleOff, QueueInv, Tables, Table, Ids
<1>2. /\ pc[c] = "idle" /\ UNCHANGED <<pc, seen>> /\ ~ shuffle'
      /\ holes' \in BOOLEAN /\ shuffle' \in BOOLEAN
  BY DEF ShuffleOff, QueueInv, Callers
<1> QED
  BY <1>1, <1>2, OneStatement

\* The order is drawn under Controller.mu.
LEMMA RebuildKeeps ==
  ASSUME QueueInv, NEW c \in Clients, SerialStep(c), ShuffleOn(c) \/ PlaySongsRebuild(c)
  PROVE  QueueInv'
<1>1. PICK l \in {"rebuilt", "reshuffled"} :
         /\ Goto(c, l) /\ Rebuild /\ UNCHANGED <<position, shuffle, seen, holes>>
         /\ pc[c] \in Locking \/ ~ Locked
  BY DEF ShuffleOn, PlaySongsRebuild, Locking, Writing
<1>2. l \in PCs
  BY <1>1 DEF PCs, Adding, Locking, Writing
<1>3. shuffle' \in BOOLEAN /\ holes' \in BOOLEAN /\ seen' \in Nat
  BY <1>1 DEF QueueInv, Callers
<1>4. Tables' /\ Covers(order', Ids')
  BY <1>1, DrawnAgain DEF QueueInv
<1>5. Owes(l)
  BY <1>1, <1>4, OwesWriting
<1> QED
  BY <1>1, <1>2, <1>3, <1>4, <1>5, RequestStep

LEMMA ReplaceKeeps ==
  ASSUME QueueInv, NEW c \in Clients, NEW n \in 1 .. MaxItem, NEW wanted \in BOOLEAN,
         PlaySongsReplace(c, n, wanted), SerialStep(c)
  PROVE  QueueInv'
<1> DEFINE l == IF wanted THEN "replaced" ELSE "replacedPlain"
<1>1. l \in PCs /\ l \notin {"rebuilt", "reshuffled"} /\ l \in {"replaced", "replacedPlain"}
  BY DEF PCs, Adding, Locking, Writing
<1>2. /\ Goto(c, l) /\ ~ Locked /\ holes' = FALSE
      /\ shuffle' = shuffle /\ seen' = seen
  BY DEF PlaySongsReplace
<1>3. shuffle' \in BOOLEAN /\ holes' \in BOOLEAN /\ seen' \in Nat
  BY <1>2 DEF QueueInv, Callers
<1>4. Tables'
  BY ReplaceTables DEF QueueInv
<1> HIDE DEF l
<1>5. Owes(l)
  BY <1>1, OwesNothing
<1> QED
  BY <1>1, <1>2, <1>3, <1>4, <1>5, RequestStep

LEMMA SaveFlagKeeps ==
  ASSUME QueueInv, NEW c \in Clients, SaveFlag(c), SerialStep(c)
  PROVE  QueueInv'
<1> DEFINE l == IF pc[c] = "reshuffled" THEN "reading" ELSE "idle"
<1>1. /\ l \in PCs /\ l \in {"idle", "reading"} /\ l \notin {"rebuilt", "reshuffled"}
      /\ l \in Locking => pc[c] \in Locking
  BY DEF PCs, Adding, Locking, Writing
<1>2. /\ Goto(c, l) /\ pc[c] \in {"rebuilt", "reshuffled", "replacedPlain"}
      /\ shuffle' = (pc[c] # "replacedPlain")
      /\ position' = position /\ order' = order /\ seen' = seen /\ holes' = holes
  BY DEF SaveFlag
<1>3. shuffle' \in BOOLEAN /\ holes' \in BOOLEAN /\ seen' \in Nat
  BY <1>2 DEF QueueInv, Callers
<1>4. Tables' /\ Ids' = Ids
  BY <1>2 DEF QueueInv, Tables, Table, Ids
<1> HIDE DEF l
<1>5. ASSUME Alone(c), serial \/ l \in {"rebuilt", "reshuffled"}
      PROVE  Owes(l)
  <2>1. pc[c] \in {"rebuilt", "reshuffled"} => Covers(order, Ids)
    BY <1>1, <1>5, Found DEF QueueInv
  <2>2. shuffle' => Covers(order', Ids')
    BY <1>2, <1>4, <2>1
  <2> QED
    BY <1>1, <2>2, OwesIdle
<1> QED
  BY <1>1, <1>2, <1>3, <1>4, <1>5, RequestStep

LEMMA RequestKeeps ==
  ASSUME QueueInv, NEW c \in Clients, Request(c), SerialStep(c)
  PROVE  QueueInv'
<1>1. CASE AddQueueInsert(c)
  BY <1>1, InsertKeeps
<1>2. CASE AddQueueReadFlag(c)
  BY <1>2, ReadFlagKeeps
<1>3. CASE AddQueueShuffleRow(c)
  BY <1>3, ShuffleRowKeeps
<1>4. CASE \/ \E x \in 1 .. MaxItem : RemoveQueue(c, x)
           \/ \E gone \in SUBSET Ids : DeleteSong(c, gone)
  BY <1>4, RemovalKeeps
<1>5. CASE ReorderQueue(c)
  BY <1>5, ReorderKeeps
<1>6. CASE ClearQueue(c)
  BY <1>6, ClearKeeps
<1>7. CASE ShuffleOff(c)
  BY <1>7, ShuffleOffKeeps
<1>8. CASE ShuffleOn(c) \/ PlaySongsRebuild(c)
  BY <1>8, RebuildKeeps
<1>9. CASE \E n \in 1 .. MaxItem, wanted \in BOOLEAN : PlaySongsReplace(c, n, wanted)
  BY <1>9, ReplaceKeeps
<1>10. CASE SaveFlag(c)
  BY <1>10, SaveFlagKeeps
<1> QED
  BY <1>1, <1>2, <1>3, <1>4, <1>5, <1>6, <1>7, <1>8, <1>9, <1>10 DEF Request

-----------------------------------------------------------------------------
(* QueueForPlayback, a crash, and the whole.                               *)

\* A caller between two reads, or healing, is no request under way.
LEMMA AdvanceStep ==
  ASSUME QueueInv, NEW t \in Threads, NEW l \in {"idle", "listed", "mismatch"},
         pc[t] \notin Adding \cup Writing, Goto(t, l),
         l \in Locking => pc[t] \in Locking \/ ~ Locked,
         shuffle' = shuffle, holes' = holes, seen' \in Nat, serial' \in BOOLEAN,
         Tables', Ids' = Ids, LastItem' = LastItem,
         \/ order' = order
         \/ Covers(order', Ids'),
         \/ serial' = serial
         \/ Covers(order', Ids') /\ \A d \in Clients \ {t} : ~ Busy(d)
  PROVE  QueueInv'
<1>1. l \in PCs /\ l \notin Adding \cup Writing
  BY DEF PCs, Adding, Locking, Writing
<1>2. Callers'
  <2>1. shuffle' \in BOOLEAN /\ holes' \in BOOLEAN
    BY DEF QueueInv, Callers
  <2> QED
    BY <1>1, <2>1, GotoCallers DEF QueueInv
<1>3. pc'[t] = l /\ \A d \in Threads \ {t} : pc'[d] = pc[d]
  BY DEF QueueInv, Callers, Goto
<1>4. \A d \in Clients : pc'[d] = pc[d] \/ (pc'[d] = l /\ d = t)
  BY <1>3 DEF Threads
<1>5. \A d \in Clients : Busy(d)' <=> Busy(d)
  BY <1>1, <1>3, <1>4 DEF Busy
<1>6. \A d \in Clients : /\ pc'[d] \in Adding => pc[d] \in Adding
                         /\ pc'[d] \in {"rebuilt", "reshuffled"}
                               => pc[d] \in {"rebuilt", "reshuffled"}
  BY <1>1, <1>4 DEF Writing
<1>7. \A S \in SUBSET Ids' : Covers(order', Ids') => Covers(order', S)
  BY CoversFewer
<1>8. CoveredSerially'
  <2> SUFFICES ASSUME serial'
               PROVE  /\ \A d, e \in Clients : Busy(d)' /\ Busy(e)' => d = e
                      /\ shuffle' /\ (\A d \in Clients : ~ Busy(d)') => Covers(order', Ids')
                      /\ \A d \in Clients : shuffle' /\ pc'[d] \in Adding
                            => Covers(order', Ids' \ {LastItem'})
                      /\ \A d \in Clients : pc'[d] \in {"rebuilt", "reshuffled"}
                            => Covers(order', Ids')
    BY DEF CoveredSerially
  <2>1. CASE serial
    <3>1. /\ \A d, e \in Clients : Busy(d) /\ Busy(e) => d = e
          /\ shuffle /\ (\A d \in Clients : ~ Busy(d)) => Covers(order, Ids)
          /\ \A d \in Clients : shuffle /\ pc[d] \in Adding => Covers(order, Ids \ {LastItem})
          /\ \A d \in Clients : pc[d] \in {"rebuilt", "reshuffled"} => Covers(order, Ids)
      BY <2>1 DEF QueueInv, CoveredSerially
    <3>2. CASE order' = order
      BY <1>5, <1>6, <3>1, <3>2
    <3>3. CASE Covers(order', Ids')
      BY <1>5, <1>7, <3>1, <3>3
    <3> QED
      BY <3>2, <3>3
  <2>2. CASE ~ serial
    <3>1. Covers(order', Ids') /\ \A d \in Clients \ {t} : ~ Busy(d)
      BY <2>2
    <3>2. \A d \in Clients : ~ Busy(d)
      BY <3>1 DEF Busy
    <3> QED
      BY <1>5, <1>7, <3>1, <3>2
  <2> QED
    BY <2>1, <2>2
<1> QED
  BY <1>2, <1>8 DEF QueueInv

LEMMA AdvanceKeeps ==
  ASSUME QueueInv, NEW t \in Threads, Advance(t),
         serial' = (serial \/ (pc[t] = "mismatch" /\ ~ Unfinished(Clients \ {t})))
  PROVE  QueueInv'
<1>1. shuffle' = shuffle /\ holes' = holes /\ position' = position
  BY DEF Advance, ListQueue, CompareCount, Heal
<1>2. Ids' = Ids /\ LastItem' = LastItem /\ serial \in BOOLEAN
  BY <1>1 DEF QueueInv, Callers, Ids, LastItem
<1>3. serial' \in BOOLEAN
  BY Zenon
<1>4. Cardinality(Ids) \in Nat
  <2>1. IsFiniteSet(Ids)
    BY IdsFinite, PlayQueueAssumption DEF QueueInv, Tables, Table, Ids
  <2> QED
    BY <2>1, FS_CardinalityType
<1>5. CASE ListQueue(t)
  <2>1. /\ Goto(t, "listed") /\ order' = order /\ seen' \in Nat
        /\ pc[t] = "reading" \/ (pc[t] = "idle" /\ ~ Locked)
    BY <1>4, <1>5 DEF ListQueue
  <2>2. pc[t] \notin Adding \cup Writing /\ pc[t] # "mismatch"
        /\ (pc[t] \in Locking \/ ~ Locked)
    BY <2>1 DEF Adding, Locking, Writing
  <2>3. serial' = serial
    BY <1>2, <2>2
  <2>4. Tables'
    BY <1>1, <1>2, <2>1 DEF QueueInv, Tables
  <2> QED
    BY <1>1, <1>2, <1>3, <2>1, <2>2, <2>3, <2>4, AdvanceStep
<1>6. CASE CompareCount(t)
  <2> DEFINE l == IF Cardinality(DOMAIN order) = seen THEN "idle" ELSE "mismatch"
  <2>1. Goto(t, l) /\ order' = order /\ seen' \in Nat /\ pc[t] = "listed"
        /\ l \in {"idle", "listed", "mismatch"}
    BY <1>6 DEF CompareCount
  <2>2. pc[t] \notin Adding \cup Writing /\ pc[t] # "mismatch" /\ pc[t] \in Locking
    BY <2>1 DEF Adding, Locking, Writing
  <2>3. serial' = serial
    BY <1>2, <2>2
  <2>4. Tables'
    BY <1>1, <1>2, <2>1 DEF QueueInv, Tables
  <2> HIDE DEF l
  <2> QED
    BY <1>1, <1>2, <1>3, <2>1, <2>2, <2>3, <2>4, AdvanceStep
<1>7. CASE Heal(t)
  <2>1. Goto(t, "idle") /\ Rebuild /\ seen' \in Nat /\ pc[t] = "mismatch"
        /\ UNCHANGED <<position, holes>>
    BY <1>7 DEF Heal, QueueInv, Callers
  <2>2. pc[t] \notin Adding \cup Writing /\ pc[t] \in Locking
    BY <2>1 DEF Adding, Locking, Writing
  <2>3. Tables' /\ Covers(order', Ids')
    BY <2>1, DrawnAgain DEF QueueInv
  <2>4. serial' = serial \/ \A d \in Clients \ {t} : ~ Busy(d)
    <3>1. CASE Unfinished(Clients \ {t})
      BY <1>2, <3>1
    <3>2. CASE ~ Unfinished(Clients \ {t})
      BY <3>2 DEF Unfinished, Busy
    <3> QED
      BY <3>1, <3>2
  <2> QED
    BY <1>1, <1>2, <1>3, <2>1, <2>2, <2>3, <2>4, AdvanceStep
<1> QED
  BY <1>5, <1>6, <1>7 DEF Advance

\* A crash ends every request; one that was cut short is remembered.
LEMMA RestartKeeps == QueueInv /\ Restart => QueueInv'
<1> SUFFICES ASSUME QueueInv, Restart
             PROVE  QueueInv'
  OBVIOUS
<1>1. /\ pc' = [u \in Threads |-> "idle"] /\ seen' = 0 /\ shuffle' = shuffle
      /\ position' = position /\ order' = order /\ holes' = holes
      /\ serial' = (serial /\ ~ Unfinished(Clients))
  BY DEF Restart
<1>2. Tables' /\ Ids' = Ids
  BY <1>1 DEF QueueInv, Tables, Table, Ids
<1>3. "idle" \in PCs /\ "idle" \notin Locking \cup Adding \cup Writing
  BY DEF PCs, Adding, Locking, Writing
<1>4. serial' \in BOOLEAN
  BY <1>1, Zenon
<1>5. Callers'
  BY <1>1, <1>3, <1>4 DEF QueueInv, Callers, Threads
<1>6. CoveredSerially'
  <2>1. \A d \in Clients : pc'[d] = "idle" /\ ~ Busy(d)'
    BY <1>1, <1>3 DEF Busy, Threads
  <2>2. serial' => serial /\ \A d \in Clients : ~ Busy(d)
    BY <1>1 DEF Unfinished, Busy
  <2>3. serial' /\ shuffle' => Covers(order', Ids')
    BY <1>1, <1>2, <2>2 DEF QueueInv, CoveredSerially
  <2>4. \A d \in Clients : pc'[d] \notin Adding /\ pc'[d] \notin {"rebuilt", "reshuffled"}
    BY <1>3, <2>1
  <2> QED
    BY <2>1, <2>3, <2>4 DEF CoveredSerially
<1> QED
  BY <1>2, <1>5, <1>6 DEF QueueInv

LEMMA NextQueueInv == QueueInv /\ [Next]_vars => QueueInv'
<1> SUFFICES ASSUME QueueInv, [Next]_vars
             PROVE  QueueInv'
  OBVIOUS
<1>1. CASE \E c \in Clients :
              /\ Request(c)
              /\ serial' = /\ ~Unfinished(Clients \ {c})
                           /\ serial \/ pc'[c] \in {"rebuilt", "reshuffled"}
  <2>1. PICK c \in Clients : Request(c) /\ SerialStep(c)
    BY <1>1 DEF SerialStep
  <2> QED
    BY <2>1, RequestKeeps
<1>2. CASE \E t \in Threads :
              /\ Advance(t)
              /\ serial' = \/ serial
                           \/ pc[t] = "mismatch" /\ ~Unfinished(Clients \ {t})
  BY <1>2, AdvanceKeeps
<1>3. CASE Restart
  BY <1>3, RestartKeeps
<1>4. CASE UNCHANGED vars
  <2>1. /\ position' = position /\ order' = order /\ shuffle' = shuffle /\ pc' = pc
        /\ seen' = seen /\ holes' = holes /\ serial' = serial
    BY <1>4 DEF vars
  <2>2. Ids' = Ids /\ LastItem' = LastItem
    BY <2>1 DEF Ids, LastItem
  <2>3. Tables'
    BY <2>1, <2>2 DEF QueueInv, Tables
  <2>4. Callers'
    BY <2>1 DEF QueueInv, Callers
  <2>5. CoveredSerially'
    BY <2>1, <2>2 DEF QueueInv, CoveredSerially, Busy
  <2> QED
    BY <2>3, <2>4, <2>5 DEF QueueInv
<1> QED
  BY <1>1, <1>2, <1>3, <1>4 DEF Next

LEMMA Kept == Spec => []QueueInv
<1> QED
  BY InitQueueInv, NextQueueInv, PTL DEF Spec

-----------------------------------------------------------------------------
(* The theorems.                                                           *)

\* The two tables stay tables of one queue whatever overlaps: row ids and
\* positions within their bounds, shuffle rows numbered from 0 that refer to
\* items of the queue, and one operation of the controller at a time.
THEOREM TypeCorrect == Spec => []TypeOK
<1> QED
  BY Kept, QueueInvSays, PTL

\* Only the deletion of a song leaves a hole in the positions: AddQueue,
\* RemoveQueue, ReorderQueue, ReplaceQueue and ClearQueue, by any number of
\* requests at once and with crashes between their statements, leave 0..n-1.
THEOREM PositionsDenseAlways == Spec => []PositionsDense
<1> QED
  BY Kept, QueueInvSays, PTL

\* As long as requests come one at a time and none is cut short, the persisted
\* shuffle order holds every item of the queue whenever shuffle is on and
\* nothing is under way, although QueueForPlayback (Next, Previous, the end of
\* a song) may draw it anew between two statements of AddQueue.
THEOREM ShuffleCoversQueueAlways == Spec => []ShuffleCoversQueue
<1> QED
  BY Kept, QueueInvSays, PTL
=============================================================================
