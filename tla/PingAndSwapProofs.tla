--------------------------- MODULE PingAndSwapProofs ---------------------------
(***************************************************************************)
(* Proofs about PingAndSwap, for every set of nodes, bucket capacity,      *)
(* placement under old and new ids, limit and number of ticks: the table,  *)
(* its counters and its ticks fit together, and a node that answers its    *)
(* ping stays.                                                             *)
(***************************************************************************)
EXTENDS PingAndSwap, FiniteSetTheorems, TLAPS

--------------------------------------------------------------------------------
(* Orders on finite sets.                                                  *)

\* A relation that orders a set totally.
Orders(R, S) ==
  /\ \A x, y \in S : x = y \/ <<x, y>> \in R \/ <<y, x>> \in R
  /\ \A x, y, z \in S : <<x, y>> \in R /\ <<y, z>> \in R => <<x, z>> \in R

HasLeast(T, R) == \E x \in T : \A y \in T \ {x} : <<x, y>> \in R

\* A finite set that is not empty has a least element, in any total order.
LEMMA LeastElement ==
  ASSUME NEW S, IsFiniteSet(S), S # {}, NEW R, Orders(R, S)
  PROVE  HasLeast(S, R)
<1> DEFINE bad == {T \in FiniteSubsetsOf(S) : T # {} /\ ~HasLeast(T, R)}
           Sub == StrictSubsetOrdering(S)
<1>1. IsWellFoundedOn(Sub, FiniteSubsetsOf(S)) BY FS_StrictSubsetOrderingWellFounded
<1>2. S \in FiniteSubsetsOf(S) BY DEF FiniteSubsetsOf
<1>3. \A T, U \in SUBSET S : T \subseteq U /\ T # U => <<T, U>> \in Sub BY DEF StrictSubsetOrdering
<1> HIDE DEF Sub
<1> SUFFICES ASSUME bad # {} PROVE FALSE BY <1>2
<1>4. bad \subseteq FiniteSubsetsOf(S) OBVIOUS
<1>5. PICK T \in bad : \A U \in bad : ~(<<U, T>> \in Sub) BY <1>1, <1>4, WFMin
<1>6. T \in SUBSET S /\ IsFiniteSet(T) /\ T # {} /\ ~HasLeast(T, R) BY DEF FiniteSubsetsOf
<1>7. PICK x \in T : TRUE BY <1>6
<1> DEFINE U == T \ {x}
<1>8. U \in FiniteSubsetsOf(S) /\ <<U, T>> \in Sub
  <2>1. IsFiniteSet(U) BY <1>6, FS_RemoveElement
  <2>2. U \in SUBSET S /\ U \subseteq T /\ U # T BY <1>6, <1>7
  <2> QED BY <1>3, <1>6, <2>1, <2>2 DEF FiniteSubsetsOf
<1>9. U = {} \/ HasLeast(U, R) BY <1>5, <1>8
<1>10. CASE U = {} BY <1>6, <1>7, <1>10 DEF HasLeast
<1>11. CASE HasLeast(U, R)
  <2>1. PICK y \in U : \A z \in U \ {y} : <<y, z>> \in R BY <1>11 DEF HasLeast
  <2>2. x \in S /\ y \in S /\ y # x /\ T \subseteq S BY <1>6, <1>7, <2>1
  <2>3. CASE <<x, y>> \in R
    <3>1. \A z \in T \ {x} : <<x, z>> \in R BY <2>1, <2>2, <2>3 DEF Orders
    <3> QED BY <1>6, <1>7, <3>1 DEF HasLeast
  <2>4. CASE <<y, x>> \in R
    <3>1. \A z \in T \ {y} : <<y, z>> \in R BY <2>1, <2>4
    <3> QED BY <1>6, <2>1, <3>1 DEF HasLeast
  <2> QED BY <2>2, <2>3, <2>4 DEF Orders
<1> QED BY <1>9, <1>10, <1>11

--------------------------------------------------------------------------------
(* The invariant, of a value that a handler computes.                      *)

Pings == SwapPing \cup CheckPing
Tables == UNION {[T -> Meta] : T \in SUBSET Nodes}
Data == [table : Tables, size : Nat, repinging : Nat, checks : Nat, pings : SUBSET Pings]

Timely(meta) == meta \in Meta /\ meta.seen <= meta.pinged /\ meta.pinged <= tick /\ meta.added <= tick

Of(pp, kind) == {p \in pp : p.kind = kind}

InBucket(t, b) == {m \in DOMAIN t : place[m] = b}
TableFits(t) ==
  \A n \in DOMAIN t : place[n] # Self /\ Cardinality(InBucket(t, place[n])) <= K
Counted(pp, kind, c, limit) == Cardinality(Of(pp, kind)) <= c /\ c <= limit

Good(d) ==
  /\ d \in Data
  /\ d.size = Cardinality(DOMAIN d.table)
  /\ TableFits(d.table)
  /\ \A n \in DOMAIN d.table : Timely(d.table[n])
  /\ IsFiniteSet(d.pings)
  /\ Counted(d.pings, "swap", d.repinging, MaxRepinging)
  /\ Counted(d.pings, "check", d.checks, MaxChecks)
  /\ \A p \in Of(d.pings, "swap") : Timely(p.meta) /\ p.seen < tick

Context == tick \in Nat /\ place \in [Nodes -> Nat]

LEMMA TableShape ==
  ASSUME NEW t
  PROVE  t \in Tables <=> (DOMAIN t \subseteq Nodes /\ t \in [DOMAIN t -> Meta])
BY DEF Tables

LEMMA Domains ==
  ASSUME NEW t \in Tables
  PROVE  /\ DOMAIN t \subseteq Nodes /\ IsFiniteSet(DOMAIN t) /\ Cardinality(DOMAIN t) \in Nat
         /\ \A n \in DOMAIN t : t[n] \in Meta
         /\ \A b : IsFiniteSet(InBucket(t, b)) /\ Cardinality(InBucket(t, b)) \in Nat
<1>1. DOMAIN t \subseteq Nodes /\ \A n \in DOMAIN t : t[n] \in Meta BY TableShape
<1>2. IsFiniteSet(DOMAIN t) /\ Cardinality(DOMAIN t) \in Nat
  BY <1>1, FS_Subset, FS_CardinalityType, TableAssumption
<1>3. ASSUME NEW b
      PROVE  IsFiniteSet(InBucket(t, b)) /\ Cardinality(InBucket(t, b)) \in Nat
  <2>1. InBucket(t, b) \in SUBSET DOMAIN t BY DEF InBucket
  <2> QED BY <1>2, <2>1, FS_Subset, FS_CardinalityType
<1> QED BY <1>1, <1>2, <1>3

\* Taking a node out of a table leaves a table that fits.
LEMMA WithoutFits ==
  ASSUME NEW t \in Tables, TableFits(t), NEW n \in DOMAIN t
  PROVE  /\ Without(t, n) \in Tables /\ TableFits(Without(t, n))
         /\ DOMAIN Without(t, n) = DOMAIN t \ {n}
         /\ \A m \in DOMAIN t \ {n} : Without(t, n)[m] = t[m]
         /\ Cardinality(DOMAIN Without(t, n)) = Cardinality(DOMAIN t) - 1
<1> DEFINE w == Without(t, n)
<1>1. DOMAIN w = DOMAIN t \ {n} /\ \A m \in DOMAIN t \ {n} : w[m] = t[m] BY DEF Without
<1>2. w \in Tables
  <2>1. w \in [DOMAIN t \ {n} -> Meta] BY Domains DEF Without
  <2>2. DOMAIN t \ {n} \in SUBSET Nodes BY Domains
  <2> QED BY <2>1, <2>2 DEF Tables
<1> HIDE DEF w
<1>3. Cardinality(DOMAIN w) = Cardinality(DOMAIN t) - 1 BY <1>1, Domains, FS_RemoveElement
<1>4. ASSUME NEW m \in DOMAIN w
      PROVE  place[m] # Self /\ Cardinality(InBucket(w, place[m])) <= K
  <2>1. InBucket(w, place[m]) \subseteq InBucket(t, place[m]) BY <1>1 DEF InBucket
  <2>2. Cardinality(InBucket(w, place[m])) <= Cardinality(InBucket(t, place[m]))
    BY <2>1, Domains, FS_Subset
  <2>3. place[m] # Self /\ Cardinality(InBucket(t, place[m])) <= K BY <1>1 DEF TableFits
  <2>4. Cardinality(InBucket(w, place[m])) \in Nat
        /\ Cardinality(InBucket(t, place[m])) \in Nat
    BY <1>2, Domains
  <2> QED BY <2>2, <2>3, <2>4, TableAssumption
<1>5. TableFits(w) BY <1>4 DEF TableFits
<1> QED BY <1>1, <1>2, <1>3, <1>5 DEF w

\* A node fits into a bucket that is not full.
LEMMA WithFits ==
  ASSUME NEW t \in Tables, TableFits(t), NEW n \in Nodes, n \notin DOMAIN t, NEW meta \in Meta,
         place[n] # Self, Cardinality(InBucket(t, place[n])) < K
  PROVE  /\ With(t, n, meta) \in Tables /\ TableFits(With(t, n, meta))
         /\ DOMAIN With(t, n, meta) = DOMAIN t \cup {n}
         /\ With(t, n, meta)[n] = meta /\ \A m \in DOMAIN t : With(t, n, meta)[m] = t[m]
         /\ Cardinality(DOMAIN With(t, n, meta)) = Cardinality(DOMAIN t) + 1
<1> DEFINE w == With(t, n, meta)
<1>1. DOMAIN w = DOMAIN t \cup {n} /\ w[n] = meta /\ \A m \in DOMAIN t : w[m] = t[m] BY DEF With
<1>2. w \in Tables
  <2>1. w \in [DOMAIN t \cup {n} -> Meta] BY Domains DEF With
  <2>2. DOMAIN t \cup {n} \in SUBSET Nodes BY Domains
  <2> QED BY <2>1, <2>2 DEF Tables
<1> HIDE DEF w
<1>3. Cardinality(DOMAIN w) = Cardinality(DOMAIN t) + 1 BY <1>1, Domains, FS_AddElement
<1>4. ASSUME NEW m \in DOMAIN w
      PROVE  place[m] # Self /\ Cardinality(InBucket(w, place[m])) <= K
  <2> DEFINE B == InBucket(t, place[m])
  <2>1. IsFiniteSet(B) /\ Cardinality(B) \in Nat BY Domains
  <2>2. CASE place[m] = place[n]
    <3>1. InBucket(w, place[m]) = B \cup {n} BY <1>1, <2>2 DEF InBucket
    <3>2. Cardinality(B) < K
      <4>1. B = InBucket(t, place[n]) BY <2>2
      <4> QED BY <4>1
    <3> HIDE DEF B
    <3>3. Cardinality(B \cup {n}) = IF n \in B THEN Cardinality(B) ELSE Cardinality(B) + 1
      BY <2>1, FS_AddElement
    <3>4. Cardinality(B \cup {n}) <= K BY <2>1, <3>2, <3>3, TableAssumption
    <3> QED BY <2>2, <3>1, <3>4
  <2>3. CASE place[m] # place[n]
    <3>1. InBucket(w, place[m]) = B /\ m \in DOMAIN t BY <1>1, <2>3 DEF InBucket
    <3> QED BY <3>1 DEF TableFits
  <2> QED BY <2>2, <2>3
<1>5. TableFits(w) BY <1>4 DEF TableFits
<1> QED BY <1>1, <1>2, <1>3, <1>5 DEF w

\* A table with other tick fields holds the same nodes.
LEMMA SameDomainFits ==
  ASSUME NEW t \in Tables, TableFits(t), NEW u \in Tables, DOMAIN u = DOMAIN t
  PROVE  TableFits(u) /\ Cardinality(DOMAIN u) = Cardinality(DOMAIN t)
BY DEF TableFits, InBucket

--------------------------------------------------------------------------------
(* Request ids, and the oldest node of a bucket.                           *)

LEMMA KindsCounted ==
  ASSUME NEW pp \in SUBSET Pings, IsFiniteSet(pp)
  PROVE  /\ \A kind : IsFiniteSet(Of(pp, kind)) /\ Cardinality(Of(pp, kind)) \in Nat
         /\ Cardinality(pp) \in Nat
         /\ Cardinality(pp) <= Cardinality(Of(pp, "swap")) + Cardinality(Of(pp, "check"))
<1>1. ASSUME NEW kind PROVE IsFiniteSet(Of(pp, kind)) /\ Cardinality(Of(pp, kind)) \in Nat
  <2>1. Of(pp, kind) \in SUBSET pp BY DEF Of
  <2> QED BY <2>1, FS_Subset, FS_CardinalityType
<1>2. pp = Of(pp, "swap") \cup Of(pp, "check") BY DEF Of, Pings, SwapPing, CheckPing
<1>3. Of(pp, "swap") \cap Of(pp, "check") = {} BY DEF Of
<1>4. Cardinality(Of(pp, "swap") \cup Of(pp, "check"))
        = Cardinality(Of(pp, "swap")) + Cardinality(Of(pp, "check")) - Cardinality({})
  BY <1>1, <1>3, FS_Union
<1>5. Cardinality({}) = 0 BY FS_EmptySet
<1>6. Cardinality(pp) \in Nat BY FS_CardinalityType
<1>7. \A kind : IsFiniteSet(Of(pp, kind)) /\ Cardinality(Of(pp, kind)) \in Nat BY <1>1
<1>8. Cardinality(pp) = Cardinality(Of(pp, "swap")) + Cardinality(Of(pp, "check")) - 0
  BY <1>2, <1>4, <1>5
<1>9. Cardinality(Of(pp, "swap")) \in Nat /\ Cardinality(Of(pp, "check")) \in Nat BY <1>1
<1> QED BY <1>6, <1>7, <1>8, <1>9

\* There are more ids than pings, so a new ping finds one that is not in use.
LEMMA FreshTidExists ==
  ASSUME NEW d, Good(d)
  PROVE  FreshTid(d) \in Nat /\ \A p \in d.pings : p.tid # FreshTid(d)
<1> DEFINE M == MaxRepinging + MaxChecks
           pp == d.pings
           free == {i \in 0 .. M : \A p \in pp : p.tid # i}
<1>1. M \in Nat BY TableAssumption
<1>2. pp \in SUBSET Pings /\ IsFiniteSet(pp) BY DEF Good, Data
<1>3. Cardinality(pp) \in Nat /\ Cardinality(pp) <= M
  <2>1. /\ Cardinality(Of(pp, "swap")) \in Nat /\ Cardinality(Of(pp, "check")) \in Nat /\ Cardinality(pp) \in Nat
        /\ Cardinality(pp) <= Cardinality(Of(pp, "swap")) + Cardinality(Of(pp, "check"))
    BY <1>2, KindsCounted
  <2>2. d.repinging \in Nat /\ d.checks \in Nat BY DEF Good, Data
  <2>3. /\ Cardinality(Of(pp, "swap")) <= d.repinging /\ d.repinging <= MaxRepinging
        /\ Cardinality(Of(pp, "check")) <= d.checks /\ d.checks <= MaxChecks
    BY DEF Good, Counted
  <2> HIDE DEF pp
  <2> QED BY <2>1, <2>2, <2>3, TableAssumption
<1>4. IsFiniteSet(0 .. M) /\ Cardinality(0 .. M) = M + 1
  <2>1. 0 \in Int /\ M \in Int BY <1>1
  <2> HIDE DEF M
  <2>2. IsFiniteSet(0 .. M) /\ Cardinality(0 .. M) = IF 0 > M THEN 0 ELSE M - 0 + 1
    BY <2>1, FS_Interval
  <2> QED BY <1>1, <2>2
<1> HIDE DEF M, pp
<1>5. free # {}
  <2> SUFFICES ASSUME free = {} PROVE FALSE OBVIOUS
  <2> DEFINE f == [i \in 0 .. M |-> CHOOSE p \in pp : p.tid = i]
  <2>1. ASSUME NEW i \in 0 .. M PROVE f[i] \in pp /\ f[i].tid = i
    <3>1. \E p \in pp : p.tid = i OBVIOUS
    <3> QED BY <3>1
  <2>2. f \in [0 .. M -> pp] BY <2>1
  <2>3. Cardinality(pp) < Cardinality(0 .. M) BY <1>1, <1>3, <1>4
  <2> HIDE DEF f
  <2> DEFINE I == 0 .. M
  <2>4. IsFiniteSet(I) /\ Cardinality(pp) < Cardinality(I) /\ f \in [I -> pp] BY <1>4, <2>2, <2>3
  <2> HIDE DEF I
  <2>5. \E i, j \in I : i # j /\ f[i] = f[j] BY <1>2, <2>4, FS_PigeonHole
  <2> QED BY <2>1, <2>5 DEF I
<1> DEFINE R == {x \in (0 .. M) \X (0 .. M) : x[1] < x[2]}
<1>6. \A i, j \in 0 .. M : <<i, j>> \in R <=> i < j OBVIOUS
<1> HIDE DEF R
<1>7. IsFiniteSet(free)
  <2>1. free \in SUBSET (0 .. M) OBVIOUS
  <2> HIDE DEF free
  <2> QED BY <1>4, <2>1, FS_Subset
<1>8. Orders(R, free) BY <1>1, <1>6 DEF Orders
<1>9. PICK i \in free : \A j \in free \ {i} : <<i, j>> \in R BY <1>5, <1>7, <1>8, LeastElement DEF HasLeast
<1>10. \A j \in 0 .. i - 1 : \E p \in pp : p.tid = j
  <2>1. ASSUME NEW j \in 0 .. i - 1, j \in free PROVE FALSE
    <3>1. i \in 0 .. M /\ j \in 0 .. M /\ j < i BY <1>1, <1>9, <2>1
    <3>2. <<i, j>> \in R BY <1>9, <2>1, <3>1
    <3> QED BY <1>6, <3>1, <3>2
  <2> QED BY <1>1, <1>9, <2>1
<1> HIDE DEF free
<1>11. \E k \in 0 .. M : (\A p \in pp : p.tid # k) /\ \A j \in 0 .. k - 1 : \E p \in pp : p.tid = j
  BY <1>9, <1>10 DEF free
<1>12. FreshTid(d) \in 0 .. M /\ \A p \in pp : p.tid # FreshTid(d)
  BY <1>11 DEF FreshTid, M, pp
<1> QED BY <1>1, <1>12 DEF pp

\* The nodes of a bucket have an oldest one: its ticks and its id decide.
LEMMA OldestExists ==
  ASSUME NEW d, Good(d), Context, NEW b, Candidates(d, b) # {}
  PROVE  Oldest(d, b) \in Candidates(d, b)
<1> DEFINE C == Candidates(d, b)
           R == {x \in C \X C : Older(d, x[1], x[2])}
<1>1. C \subseteq DOMAIN d.table BY DEF Candidates, Bucket
<1>2. d.table \in Tables BY DEF Good, Data
<1>3. /\ IsFiniteSet(DOMAIN d.table)
      /\ \A n \in DOMAIN d.table : n \in Nat /\ d.table[n].pinged \in Nat /\ d.table[n].added \in Nat
  BY <1>2, Domains, TableAssumption DEF Meta
<1>4. IsFiniteSet(C) BY <1>1, <1>3, FS_Subset
<1>5. \A m, n \in C : <<m, n>> \in R <=> Older(d, m, n) OBVIOUS
<1>6. C # {} OBVIOUS
<1>7. \A m, n \in C : m = n \/ Older(d, m, n) \/ Older(d, n, m) BY <1>1, <1>3 DEF Older
<1>8. \A k, m, n \in C : Older(d, k, m) /\ Older(d, m, n) => Older(d, k, n) BY <1>1, <1>3 DEF Older
<1> HIDE DEF R, C
<1>9. Orders(R, C) BY <1>5, <1>7, <1>8 DEF Orders
<1>10. \E m \in C : \A n \in C \ {m} : Older(d, m, n) BY <1>4, <1>5, <1>6, <1>9, LeastElement DEF HasLeast
<1> QED BY <1>10 DEF Oldest, C

--------------------------------------------------------------------------------
(* What the operations of the table keep.                                  *)

\* e is d with a table that fits.
Replaces(e, d, t) ==
  /\ t \in Tables /\ TableFits(t) /\ \A n \in DOMAIN t : Timely(t[n])
  /\ e = [d EXCEPT !.table = t, !.size = Cardinality(DOMAIN t)]

LEMMA NewTable ==
  ASSUME NEW d, Good(d), NEW t, NEW e, Replaces(e, d, t)
  PROVE  Good(e) /\ e.table = t /\ e.pings = d.pings /\ e.repinging = d.repinging /\ e.checks = d.checks
<1>1. t \in Tables /\ Cardinality(DOMAIN t) \in Nat BY Domains DEF Replaces
<1>2. /\ e \in Data /\ e.table = t /\ e.size = Cardinality(DOMAIN t) /\ e.pings = d.pings
      /\ e.repinging = d.repinging /\ e.checks = d.checks
  BY <1>1 DEF Good, Data, Replaces
<1> QED BY <1>2 DEF Good, Replaces

LEMMA GoodRemove ==
  ASSUME NEW d, Good(d), NEW n \in Nodes
  PROVE  Good(Remove(d, n)) /\ Remove(d, n).pings = d.pings /\ Remove(d, n).repinging = d.repinging
<1>1. CASE n \notin DOMAIN d.table BY <1>1 DEF Remove
<1>2. CASE n \in DOMAIN d.table
  <2> DEFINE t == Without(d.table, n)
  <2>1. /\ d.table \in Tables /\ TableFits(d.table) /\ d.size = Cardinality(DOMAIN d.table)
        /\ \A m \in DOMAIN d.table : Timely(d.table[m])
    BY DEF Good, Data
  <2>2. /\ t \in Tables /\ TableFits(t) /\ DOMAIN t = DOMAIN d.table \ {n}
        /\ \A m \in DOMAIN d.table \ {n} : t[m] = d.table[m]
        /\ Cardinality(DOMAIN t) = Cardinality(DOMAIN d.table) - 1
    BY <1>2, <2>1, WithoutFits
  <2>3. Remove(d, n) = [d EXCEPT !.table = t, !.size = d.size - 1] BY <1>2 DEF Remove, Good, Data
  <2> HIDE DEF t
  <2>4. \A m \in DOMAIN t : Timely(t[m]) BY <2>1, <2>2
  <2>5. d.size - 1 = Cardinality(DOMAIN t) BY <2>1, <2>2
  <2>6. Replaces(Remove(d, n), d, t) BY <2>2, <2>3, <2>4, <2>5 DEF Replaces
  <2> QED BY <2>6, NewTable
<1> QED BY <1>1, <1>2

\* The ping of a swap: its target was last seen in an earlier tick.
LEMMA GoodReping ==
  ASSUME NEW d, Good(d), Context, d.repinging < MaxRepinging, NEW n \in Nodes, NEW meta, Timely(meta),
         NEW b, NEW old \in Candidates(d, b), NEW ok \in BOOLEAN
  PROVE  /\ Good(RepingAndSwap(d, n, meta, old, ok))
         /\ d.pings \subseteq RepingAndSwap(d, n, meta, old, ok).pings
         /\ DOMAIN RepingAndSwap(d, n, meta, old, ok).table = DOMAIN d.table
<1> DEFINE ping == [tid |-> FreshTid(d), kind |-> "swap", node |-> old,
                    seen |-> d.table[old].seen, new |-> n, meta |-> meta]
           t == MarkPinged(d.table, old)
           pp == IF ok THEN d.pings \cup {ping} ELSE d.pings
           e == RepingAndSwap(d, n, meta, old, ok)
<1>1. /\ d \in Data /\ d.table \in Tables /\ TableFits(d.table) /\ d.size = Cardinality(DOMAIN d.table)
      /\ \A m \in DOMAIN d.table : Timely(d.table[m])
      /\ d.repinging \in Nat /\ d.pings \in SUBSET Pings /\ IsFiniteSet(d.pings)
      /\ tick \in Nat
  BY DEF Good, Data, Context
<1>2. old \in DOMAIN d.table /\ old \in Nodes /\ d.table[old].pinged # tick /\ d.table[old] \in Meta
  BY <1>1, Domains DEF Candidates, Bucket
<1>3. d.table[old].seen \in Nat /\ d.table[old].seen < tick
  BY <1>1, <1>2 DEF Timely, Meta
<1>4. t \in Tables /\ DOMAIN t = DOMAIN d.table /\ \A m \in DOMAIN t : Timely(t[m])
  <2>1. t = [d.table EXCEPT ![old].pinged = tick] BY <1>2 DEF MarkPinged
  <2>2. d.table \in [DOMAIN d.table -> Meta] /\ DOMAIN d.table \in SUBSET Nodes BY <1>1, TableShape
  <2>3. t \in [DOMAIN d.table -> Meta] BY <1>1, <2>1, <2>2 DEF Meta
  <2>4. \A m \in DOMAIN d.table : m # old => t[m] = d.table[m] BY <2>1, <2>2
  <2>5. t[old] = [d.table[old] EXCEPT !.pinged = tick] BY <1>2, <2>1, <2>2
  <2>6. Timely(t[old])
    <3>1. Timely(d.table[old]) BY <1>1, <1>2
    <3> HIDE DEF t
    <3> QED BY <1>1, <2>5, <3>1 DEF Timely, Meta
  <2> HIDE DEF t
  <2>7. t \in Tables /\ DOMAIN t = DOMAIN d.table BY <2>2, <2>3 DEF Tables
  <2> QED BY <1>1, <2>4, <2>6, <2>7
<1>5. TableFits(t) /\ Cardinality(DOMAIN t) = d.size BY <1>1, <1>4, SameDomainFits
<1>6. ping \in SwapPing /\ ping \in Pings
  <2>1. FreshTid(d) \in Nat /\ meta \in Meta BY FreshTidExists DEF Timely
  <2> QED BY <1>2, <1>3, <2>1 DEF SwapPing, Pings
<1>7. ping.kind = "swap" /\ ping.meta = meta /\ ping.seen = d.table[old].seen OBVIOUS
<1>0. e = [d EXCEPT !.table = t, !.repinging = d.repinging + 1, !.pings = pp]
  BY <1>1 DEF RepingAndSwap, Data
<1> HIDE DEF e, t, ping
<1>8. /\ e.table = t /\ e.size = d.size /\ e.repinging = d.repinging + 1 /\ e.checks = d.checks
      /\ e.pings = pp
      /\ e = [table |-> t, size |-> d.size, repinging |-> d.repinging + 1, checks |-> d.checks, pings |-> pp]
  <2> HIDE DEF pp
  <2> QED BY <1>0, <1>1 DEF Data
<1>9. pp \in SUBSET Pings /\ IsFiniteSet(pp) /\ d.pings \subseteq pp /\ pp \subseteq d.pings \cup {ping}
  BY <1>1, <1>6, FS_AddElement
<1> HIDE DEF pp
<1>10. e \in Data BY <1>1, <1>4, <1>8, <1>9 DEF Data
<1>11. Counted(pp, "swap", d.repinging + 1, MaxRepinging)
  <2>1. Of(pp, "swap") \subseteq Of(d.pings, "swap") \cup {ping} BY <1>9 DEF Of
  <2>2. IsFiniteSet(Of(d.pings, "swap")) /\ Cardinality(Of(d.pings, "swap")) \in Nat
        /\ Cardinality(Of(pp, "swap")) \in Nat
    BY <1>1, <1>9, KindsCounted
  <2>0. IsFiniteSet(Of(d.pings, "swap") \cup {ping})
        /\ Cardinality(Of(d.pings, "swap") \cup {ping})
             = IF ping \in Of(d.pings, "swap") THEN Cardinality(Of(d.pings, "swap"))
               ELSE Cardinality(Of(d.pings, "swap")) + 1
    BY <2>2, FS_AddElement
  <2>3. IsFiniteSet(Of(d.pings, "swap") \cup {ping})
        /\ Cardinality(Of(d.pings, "swap") \cup {ping}) \in Nat
        /\ Cardinality(Of(d.pings, "swap") \cup {ping}) <= Cardinality(Of(d.pings, "swap")) + 1
    BY <2>0, <2>2
  <2>4. Cardinality(Of(pp, "swap")) <= Cardinality(Of(d.pings, "swap") \cup {ping})
    BY <2>1, <2>3, FS_Subset
  <2>5. Cardinality(Of(d.pings, "swap")) <= d.repinging BY DEF Good, Counted
  <2> QED BY <1>1, <2>2, <2>3, <2>4, <2>5, TableAssumption DEF Counted
<1>12. Of(pp, "check") = Of(d.pings, "check") BY <1>7, <1>9 DEF Of
<1>13. \A p \in Of(pp, "swap") : Timely(p.meta) /\ p.seen < tick
  BY <1>3, <1>7, <1>9 DEF Of, Good
<1>14. Good(e)
  BY <1>4, <1>5, <1>8, <1>9, <1>10, <1>11, <1>12, <1>13 DEF Good, Counted
<1> QED BY <1>4, <1>8, <1>9, <1>14 DEF e

\* What add keeps besides: the pings in flight, and the nodes in the table.
LEMMA GoodAdd ==
  ASSUME NEW d, Good(d), Context, NEW n \in Nodes, NEW meta, Timely(meta), NEW ok \in BOOLEAN
  PROVE  /\ Good(Add(d, n, meta, ok)) /\ d.pings \subseteq Add(d, n, meta, ok).pings
         /\ DOMAIN d.table \subseteq DOMAIN Add(d, n, meta, ok).table
<1>1. CASE place[n] = Self BY <1>1 DEF Add
<1>2. CASE place[n] # Self /\ n \notin DOMAIN d.table /\ Cardinality(Bucket(d, place[n])) < K
  <2> DEFINE t == With(d.table, n, meta)
  <2>1. /\ d.table \in Tables /\ TableFits(d.table) /\ d.size = Cardinality(DOMAIN d.table)
        /\ \A m \in DOMAIN d.table : Timely(d.table[m])
        /\ meta \in Meta
    BY DEF Good, Data, Timely
  <2>2. /\ t \in Tables /\ TableFits(t) /\ DOMAIN t = DOMAIN d.table \cup {n}
        /\ t[n] = meta /\ \A m \in DOMAIN d.table : t[m] = d.table[m]
        /\ Cardinality(DOMAIN t) = Cardinality(DOMAIN d.table) + 1
    <3>1. Cardinality(InBucket(d.table, place[n])) < K BY <1>2 DEF Bucket, InBucket
    <3> QED BY <1>2, <2>1, <3>1, WithFits
  <2>3. Add(d, n, meta, ok) = [d EXCEPT !.table = t, !.size = d.size + 1] BY <1>2 DEF Add, Good, Data
  <2> HIDE DEF t
  <2>4. \A m \in DOMAIN t : Timely(t[m]) BY <2>1, <2>2
  <2>5. Replaces(Add(d, n, meta, ok), d, t) BY <2>1, <2>2, <2>3, <2>4 DEF Replaces
  <2>6. Good(Add(d, n, meta, ok)) /\ Add(d, n, meta, ok).table = t /\ Add(d, n, meta, ok).pings = d.pings
    BY <2>5, NewTable
  <2> QED BY <2>2, <2>6
<1>3. CASE place[n] # Self /\ ~(n \notin DOMAIN d.table /\ Cardinality(Bucket(d, place[n])) < K)
  <2>1. Add(d, n, meta, ok) = OnBucketFull(d, n, meta, ok) BY <1>3 DEF Add
  <2>2. CASE /\ bootstrapped /\ BelowRepingLimit(d)
             /\ Candidates(d, place[n]) # {} /\ ~Settled(d, Oldest(d, place[n]))
    <3>1. Oldest(d, place[n]) \in Candidates(d, place[n]) BY <2>2, OldestExists
    <3>2. OnBucketFull(d, n, meta, ok) = RepingAndSwap(d, n, meta, Oldest(d, place[n]), ok)
      BY <2>2 DEF OnBucketFull
    <3>3. d.repinging < MaxRepinging BY <2>2 DEF BelowRepingLimit
    <3> QED BY <2>1, <3>1, <3>2, <3>3, GoodReping
  <2>3. CASE ~(/\ bootstrapped /\ BelowRepingLimit(d)
               /\ Candidates(d, place[n]) # {} /\ ~Settled(d, Oldest(d, place[n])))
    BY <2>1, <2>3 DEF OnBucketFull
  <2> QED BY <2>2, <2>3
<1> QED BY <1>1, <1>2, <1>3

\* A node in the table is refreshed, another one is added.
LEMMA GoodHeard ==
  ASSUME NEW d, Good(d), Context, NEW n \in Nodes, NEW ok \in BOOLEAN
  PROVE  /\ Good(Heard(d, n, ok)) /\ d.pings \subseteq Heard(d, n, ok).pings
         /\ DOMAIN d.table \subseteq DOMAIN Heard(d, n, ok).table
         /\ n \in DOMAIN d.table => Heard(d, n, ok).table[n].seen = tick
<1> DEFINE meta == [added |-> tick, pinged |-> tick, seen |-> tick, hinted |-> FALSE]
<1>1. CASE n \notin DOMAIN d.table
  <2>1. Timely(meta) BY DEF Timely, Meta, Context
  <2>2. Heard(d, n, ok) = Add(d, n, meta, ok) BY <1>1 DEF Heard
  <2> HIDE DEF meta
  <2> QED BY <1>1, <2>1, <2>2, GoodAdd
<1>2. CASE n \in DOMAIN d.table
  <2> DEFINE t == [d.table EXCEPT ![n].pinged = tick, ![n].seen = tick]
  <2>1. /\ d.table \in Tables /\ TableFits(d.table) /\ d.size = Cardinality(DOMAIN d.table)
        /\ \A m \in DOMAIN d.table : Timely(d.table[m])
        /\ tick \in Nat /\ d \in Data
    BY DEF Good, Data, Context
  <2>2. d.table \in [DOMAIN d.table -> Meta] /\ DOMAIN d.table \in SUBSET Nodes BY <2>1, TableShape
  <2>3. t \in [DOMAIN d.table -> Meta] BY <1>2, <2>1, <2>2 DEF Meta
  <2>4. \A m \in DOMAIN d.table : m # n => t[m] = d.table[m] BY <2>2
  <2>5. t[n] = [d.table[n] EXCEPT !.pinged = tick, !.seen = tick] BY <1>2, <2>2
  <2>6. Heard(d, n, ok) = [d EXCEPT !.table = t] BY <1>2, <2>1 DEF Heard, Data
  <2> HIDE DEF t
  <2>7. t \in Tables /\ DOMAIN t = DOMAIN d.table BY <2>2, <2>3 DEF Tables
  <2>8. Timely(t[n]) /\ t[n].seen = tick
    <3>1. Timely(d.table[n]) BY <1>2, <2>1
    <3>2. t[n] \in Meta /\ t[n].seen = tick /\ t[n].pinged = tick /\ t[n].added = d.table[n].added
      BY <2>1, <2>5, <3>1 DEF Timely, Meta
    <3> QED BY <2>1, <3>1, <3>2 DEF Timely
  <2>9. \A m \in DOMAIN t : Timely(t[m]) BY <2>1, <2>4, <2>7, <2>8
  <2>10. TableFits(t) /\ Cardinality(DOMAIN t) = d.size BY <2>1, <2>7, SameDomainFits
  <2>11. Heard(d, n, ok) = [d EXCEPT !.table = t, !.size = Cardinality(DOMAIN t)]
    BY <2>1, <2>6, <2>10 DEF Data
  <2>12. Replaces(Heard(d, n, ok), d, t) BY <2>7, <2>9, <2>10, <2>11 DEF Replaces
  <2>13. Good(Heard(d, n, ok)) /\ Heard(d, n, ok).table = t /\ Heard(d, n, ok).pings = d.pings
    BY <2>12, NewTable
  <2> QED BY <2>7, <2>8, <2>13
<1> QED BY <1>1, <1>2

\* A ping that ends leaves its counter at least at the number of those left.
LEMMA GoodDone ==
  ASSUME NEW d, Good(d), NEW p \in d.pings
  PROVE  Good(Done(d, p)) /\ Done(d, p).table = d.table
<1> DEFINE pp == d.pings \ {p}
           e == Done(d, p)
<1>1. /\ d \in Data /\ d.pings \in SUBSET Pings /\ IsFiniteSet(d.pings)
      /\ d.repinging \in Nat /\ d.checks \in Nat
  BY DEF Good, Data
<1>2. pp \in SUBSET Pings /\ IsFiniteSet(pp) BY <1>1, FS_RemoveElement
<1>3. p.kind \in {"swap", "check"} BY <1>1 DEF Pings, SwapPing, CheckPing
<1>4. ASSUME NEW k \in {"swap", "check"}
      PROVE  /\ Of(pp, k) \subseteq Of(d.pings, k)
             /\ Cardinality(Of(d.pings, k)) \in Nat
             /\ Cardinality(Of(pp, k)) = IF p.kind = k THEN Cardinality(Of(d.pings, k)) - 1
                                         ELSE Cardinality(Of(d.pings, k))
  <2>1. IsFiniteSet(Of(d.pings, k)) /\ Cardinality(Of(d.pings, k)) \in Nat BY <1>1, KindsCounted
  <2>2. Of(pp, k) = Of(d.pings, k) \ {p} BY DEF Of
  <2>3. p \in Of(d.pings, k) <=> p.kind = k BY DEF Of
  <2>4. Cardinality(Of(d.pings, k) \ {p})
          = IF p \in Of(d.pings, k) THEN Cardinality(Of(d.pings, k)) - 1 ELSE Cardinality(Of(d.pings, k))
    BY <2>1, FS_RemoveElement
  <2> QED BY <2>1, <2>2, <2>3, <2>4
<1>5. Cardinality(Of(pp, "swap")) \in Nat /\ Cardinality(Of(pp, "check")) \in Nat BY <1>2, KindsCounted
<1>6. /\ Counted(d.pings, "swap", d.repinging, MaxRepinging)
      /\ Counted(d.pings, "check", d.checks, MaxChecks)
      /\ \A q \in Of(d.pings, "swap") : Timely(q.meta) /\ q.seen < tick
  BY DEF Good
<1>7. CASE p.kind = "swap"
  <2>1. e = [d EXCEPT !.pings = pp, !.repinging = d.repinging - 1] BY <1>1, <1>7 DEF Done, Data
  <2> HIDE DEF e, pp
  <2>2. Counted(pp, "swap", d.repinging - 1, MaxRepinging) /\ Counted(pp, "check", d.checks, MaxChecks)
        /\ d.repinging - 1 \in Nat
    BY <1>1, <1>4, <1>5, <1>6, <1>7, TableAssumption DEF Counted
  <2>3. /\ e \in Data /\ e.table = d.table /\ e.size = d.size /\ e.pings = pp
        /\ e.repinging = d.repinging - 1 /\ e.checks = d.checks
    BY <1>1, <1>2, <2>1, <2>2 DEF Data
  <2>4. Good(e) BY <1>2, <1>4, <1>6, <2>2, <2>3 DEF Good
  <2> QED BY <2>3, <2>4 DEF e
<1>8. CASE p.kind = "check"
  <2>1. e = [d EXCEPT !.pings = pp, !.checks = d.checks - 1] BY <1>1, <1>8 DEF Done, Data
  <2> HIDE DEF e, pp
  <2>2. Counted(pp, "swap", d.repinging, MaxRepinging) /\ Counted(pp, "check", d.checks - 1, MaxChecks)
        /\ d.checks - 1 \in Nat
    BY <1>1, <1>4, <1>5, <1>6, <1>8, TableAssumption DEF Counted
  <2>3. /\ e \in Data /\ e.table = d.table /\ e.size = d.size /\ e.pings = pp
        /\ e.repinging = d.repinging /\ e.checks = d.checks - 1
    BY <1>1, <1>2, <2>1, <2>2 DEF Data
  <2>4. Good(e) BY <1>2, <1>4, <1>6, <2>2, <2>3 DEF Good
  <2> QED BY <2>3, <2>4 DEF e
<1> QED BY <1>3, <1>7, <1>8

LEMMA GoodDecide ==
  ASSUME NEW d, Good(d), Context, NEW p \in Pings, p.kind = "swap" => Timely(p.meta), NEW ok \in BOOLEAN
  PROVE  Good(Decide(d, p, ok))
<1>1. p.node \in Nodes BY DEF Pings, SwapPing, CheckPing
<1>2. CASE p.kind = "swap"
  <2>1. p.new \in Nodes BY <1>2 DEF Pings, SwapPing, CheckPing
  <2>2. Good(Remove(d, p.node)) BY <1>1, GoodRemove
  <2> QED BY <1>2, <2>1, <2>2, GoodAdd DEF Decide, Swap
<1>3. CASE p.kind # "swap" BY <1>1, <1>3, GoodRemove DEF Decide
<1> QED BY <1>2, <1>3

--------------------------------------------------------------------------------
(* The state.                                                              *)

Parts ==
  /\ table \in Tables /\ size = Cardinality(DOMAIN table) /\ TableFits(table)
  /\ \A n \in DOMAIN table : Timely(table[n])
  /\ pings \in SUBSET Pings /\ IsFiniteSet(pings) /\ repinging \in Nat /\ checks \in Nat
  /\ Counted(pings, "swap", repinging, MaxRepinging)
  /\ Counted(pings, "check", checks, MaxChecks)
  /\ \A p \in Of(pings, "swap") : Timely(p.meta) /\ p.seen < tick

Whole ==
  Parts /\ tick \in Nat /\ place \in Placements /\ bootstrapped \in BOOLEAN /\ ephemeral \in BOOLEAN

LEMMA WholeIsGood == Whole => Good(Now) /\ Context
<1> SUFFICES ASSUME Whole PROVE Good(Now) /\ Context OBVIOUS
<1>1. size \in Nat BY Domains DEF Whole, Parts
<1>2. Now \in Data BY <1>1 DEF Whole, Parts, Now, Data
<1>3. /\ Now.table = table /\ Now.size = size /\ Now.repinging = repinging /\ Now.checks = checks
      /\ Now.pings = pings
  BY DEF Now
<1>4. Good(Now) BY <1>2, <1>3 DEF Whole, Parts, Good
<1>5. Context BY TableAssumption DEF Whole, Context
<1> QED BY <1>4, <1>5

LEMMA WholeIsTableInv == Whole => TableInv
<1> SUFFICES ASSUME Whole PROVE TableInv OBVIOUS
<1>1. size \in Nat BY Domains DEF Whole, Parts
<1>2. TypeOK BY <1>1, TableShape DEF TypeOK, Whole, Parts, Pings
<1>3. TableExact
  <2>1. \A n \in DOMAIN table : Bucket(Now, place[n]) = InBucket(table, place[n]) BY DEF Bucket, InBucket, Now
  <2> QED BY <2>1 DEF TableExact, Whole, Parts, TableFits
<1>4. \A kind : InFlight(kind) = Of(pings, kind) BY DEF InFlight, Of
<1>5. PingLimits BY <1>4 DEF PingLimits, Whole, Parts, Counted
<1>6. TicksOrdered BY <1>4 DEF TicksOrdered, Whole, Parts, Timely
<1>7. SwapPingIsNews BY <1>4 DEF SwapPingIsNews, Whole, Parts
<1> QED BY <1>2, <1>3, <1>5, <1>6, <1>7 DEF TableInv

LEMMA WholeInit == Init => Whole
<1> SUFFICES ASSUME Init PROVE Whole OBVIOUS
<1>1. table \in [{} -> Meta] /\ DOMAIN table = {} BY DEF Init
<1>2. table \in Tables BY <1>1 DEF Tables
<1>3. IsFiniteSet({}) /\ Cardinality({}) = 0 BY FS_EmptySet
<1>4. Of(pings, "swap") = {} /\ Of(pings, "check") = {} /\ pings = {} BY DEF Of, Init
<1>5. TableFits(table) /\ size = Cardinality(DOMAIN table) BY <1>1, <1>3 DEF TableFits, Init
<1>6. Counted(pings, "swap", repinging, MaxRepinging) /\ Counted(pings, "check", checks, MaxChecks)
  <2>1. Cardinality(Of(pings, "swap")) = 0 /\ Cardinality(Of(pings, "check")) = 0 BY <1>3, <1>4
  <2>2. MaxRepinging \in Nat /\ MaxChecks \in Nat BY TableAssumption
  <2>3. repinging = 0 /\ checks = 0 BY DEF Init
  <2> QED BY <2>1, <2>2, <2>3 DEF Counted
<1>7. Parts BY <1>1, <1>2, <1>3, <1>4, <1>5, <1>6 DEF Parts, Init
<1> QED BY <1>7 DEF Init, Whole

\* A handler that computes a good value leaves a good state.
LEMMA Becoming ==
  ASSUME Whole, NEW d, Good(d), Becomes(d), UNCHANGED <<tick, bootstrapped, ephemeral, place>>
  PROVE  Whole'
<1>1. /\ table' = d.table /\ size' = d.size /\ repinging' = d.repinging /\ checks' = d.checks
      /\ pings' = d.pings
  BY DEF Becomes
<1>2. TableFits(table)' <=> TableFits(d.table) BY <1>1 DEF TableFits, InBucket
<1>3. \A m : Timely(m)' <=> Timely(m) BY DEF Timely
<1>4. Parts' BY <1>1, <1>2, <1>3 DEF Parts, Good, Data
<1> QED BY <1>4 DEF Whole

LEMMA WholeTick ==
  ASSUME Whole, BackgroundTick
  PROVE  Whole'
<1>1. /\ tick' = tick + 1 /\ tick \in Nat
      /\ UNCHANGED <<bootstrapped, ephemeral, place, table, size, repinging, checks, pings>>
  BY DEF BackgroundTick, Whole
<1>2. \A m : Timely(m) => Timely(m)' BY <1>1 DEF Timely, Meta
<1>3. TableFits(table)' <=> TableFits(table) BY <1>1 DEF TableFits, InBucket
<1>4. \A p \in Of(pings, "swap") : p.seen < tick => p.seen < tick'
  <2>1. \A p \in Of(pings, "swap") : p.seen \in Nat BY DEF Whole, Parts, Of, Pings, SwapPing, CheckPing
  <2> QED BY <1>1, <2>1
<1>5. Parts' BY <1>1, <1>2, <1>3, <1>4 DEF Parts, Whole
<1> QED BY <1>1, <1>5 DEF Whole

\* rebuild_with_id: the last node that was put into a bucket found room there.
LEMMA RebuildFits ==
  ASSUME Whole, NEW q \in Placements, NEW b
  PROVE  LET S == {n \in Fitting(q) : q[n] = b} IN IsFiniteSet(S) /\ Cardinality(S) <= K
<1> DEFINE S == {n \in Fitting(q) : q[n] = b}
           R == {x \in S \X S : Before(x[2], x[1])}
<1>1. table \in Tables /\ DOMAIN table \subseteq Nodes /\ IsFiniteSet(DOMAIN table)
  <2>1. table \in Tables BY DEF Whole, Parts
  <2> QED BY <2>1, Domains
<1>2. Fitting(q) \subseteq DOMAIN table BY DEF Fitting
<1>3. S \in SUBSET DOMAIN table BY <1>2
<1>4. IsFiniteSet(S) BY <1>1, <1>3, FS_Subset
<1>5. \A m, n \in S : <<m, n>> \in R <=> Before(n, m) OBVIOUS
<1>6. \A n \in S : n \in Nat /\ place[n] \in Nat BY <1>1, <1>3, TableAssumption DEF Whole
<1>7. \A n \in S : n \in Fitting(q) /\ q[n] = b OBVIOUS
<1> HIDE DEF R, S
<1>8. Orders(R, S) BY <1>5, <1>6 DEF Orders, Before
<1>9. CASE S = {}
  <2>1. Cardinality(S) = 0 BY <1>9, FS_EmptySet
  <2> QED BY <1>4, <2>1, TableAssumption DEF S
<1>10. CASE S # {}
  <2>1. PICK x \in S : \A y \in S \ {x} : Before(y, x)
    BY <1>4, <1>5, <1>8, <1>10, LeastElement DEF HasLeast
  <2> DEFINE P == {m \in DOMAIN table : q[m] = q[x] /\ Before(m, x)}
  <2>2. Cardinality(P) < K BY <1>7, <2>1 DEF Fitting
  <2>3. P \in SUBSET DOMAIN table OBVIOUS
  <2>4. S \ {x} \subseteq P BY <1>3, <1>7, <2>1
  <2> HIDE DEF P
  <2>5. IsFiniteSet(P) /\ Cardinality(P) \in Nat BY <1>1, <2>3, FS_Subset, FS_CardinalityType
  <2>6. Cardinality(S \ {x}) <= Cardinality(P) BY <2>4, <2>5, FS_Subset
  <2>7. Cardinality(S) \in Nat BY <1>4, FS_CardinalityType
  <2>8. Cardinality(S \ {x}) = Cardinality(S) - 1 BY <1>4, <2>1, FS_RemoveElement
  <2>9. Cardinality(S) <= K BY <2>2, <2>5, <2>6, <2>7, <2>8, TableAssumption
  <2> QED BY <1>4, <2>9 DEF S
<1> QED BY <1>9, <1>10

LEMMA WholeRebuild ==
  ASSUME Whole, NEW q \in Placements, BecomePersistent(q)
  PROVE  Whole'
<1>0. /\ UNCHANGED <<tick, bootstrapped, repinging, checks, pings>> /\ place' = q
      /\ tick \in Nat /\ ephemeral' \in BOOLEAN /\ bootstrapped \in BOOLEAN
  BY DEF BecomePersistent, Whole
<1>1. \A m : Timely(m)' <=> Timely(m) BY <1>0 DEF Timely
<1>2. CASE q = place
  <2>1. UNCHANGED <<table, size, place>> BY <1>0, <1>2 DEF BecomePersistent
  <2>2. TableFits(table)' <=> TableFits(table) BY <2>1 DEF TableFits, InBucket
  <2>3. Parts' BY <1>0, <1>1, <2>1, <2>2 DEF Parts, Whole
  <2> QED BY <1>0, <2>3 DEF Whole
<1>3. CASE q # place
  <2> DEFINE F == Fitting(q)
  <2>1. table' = [n \in F |-> table[n]] /\ size' = Cardinality(F) BY <1>3 DEF BecomePersistent, RebuiltSize
  <2>2. table \in Tables /\ \A n \in DOMAIN table : Timely(table[n]) BY DEF Whole, Parts
  <2>3. F \subseteq DOMAIN table /\ \A n \in F : q[n] # Self BY DEF Fitting
  <2>4. \A b : Cardinality({n \in F : q[n] = b}) <= K BY RebuildFits
  <2> HIDE DEF F
  <2>5. DOMAIN table' = F /\ \A n \in F : table'[n] = table[n] BY <2>1
  <2>6. table' \in Tables
    <3>1. table' \in [F -> Meta] BY <2>1, <2>2, <2>3 DEF Timely
    <3>2. F \in SUBSET Nodes BY <2>2, <2>3, Domains
    <3> QED BY <3>1, <3>2 DEF Tables
  <2>7. TableFits(table)'
    <3>1. ASSUME NEW n \in F PROVE InBucket(table, place[n])' = {m \in F : q[m] = q[n]}
      BY <1>0, <2>5 DEF InBucket
    <3>2. ASSUME NEW n \in DOMAIN table' PROVE (place[n] # Self /\ Cardinality(InBucket(table, place[n])) <= K)'
      BY <1>0, <2>3, <2>4, <2>5, <3>1
    <3> QED BY <3>2 DEF TableFits
  <2>8. (\A n \in DOMAIN table : Timely(table[n]))'
    <3>1. \A n \in DOMAIN table' : Timely(table'[n]) BY <2>2, <2>3, <2>5
    <3> QED BY <1>0, <3>1 DEF Timely
  <2>9. Parts' BY <1>0, <1>1, <2>1, <2>5, <2>6, <2>7, <2>8 DEF Parts, Whole
  <2> QED BY <1>0, <2>9 DEF Whole
<1> QED BY <1>2, <1>3

--------------------------------------------------------------------------------
(* The theorems.                                                           *)

LEMMA HintStep ==
  ASSUME Whole, NEW n \in Nodes, NEW ok \in BOOLEAN, DownHint(n, ok)
  PROVE  Whole'
<1> DEFINE ping == [tid |-> FreshTid(Now), kind |-> "check", node |-> n, seen |-> table[n].seen]
<1>0. /\ checks < MaxChecks /\ n \in DOMAIN table
      /\ table' = [table EXCEPT ![n].hinted = TRUE, ![n].pinged = tick]
      /\ checks' = checks + 1 /\ pings' = IF ok THEN pings \cup {ping} ELSE pings
      /\ UNCHANGED <<tick, bootstrapped, ephemeral, place, size, repinging>>
  BY DEF DownHint
<1>1. /\ table \in Tables /\ TableFits(table) /\ size = Cardinality(DOMAIN table)
      /\ \A m \in DOMAIN table : Timely(table[m])
      /\ pings \in SUBSET Pings /\ IsFiniteSet(pings) /\ checks \in Nat /\ tick \in Nat
  BY DEF Whole, Parts
<1>2. table \in [DOMAIN table -> Meta] /\ DOMAIN table \in SUBSET Nodes BY <1>1, TableShape
<1>3. table' \in [DOMAIN table -> Meta] BY <1>0, <1>1, <1>2 DEF Meta
<1>4. table' \in Tables /\ DOMAIN table' = DOMAIN table BY <1>2, <1>3 DEF Tables
<1>5. \A m \in DOMAIN table : Timely(table'[m])
  <2>1. \A m \in DOMAIN table : m # n => table'[m] = table[m] BY <1>0, <1>2
  <2>2. table'[n] = [table[n] EXCEPT !.hinted = TRUE, !.pinged = tick] BY <1>0, <1>2
  <2>3. Timely(table[n]) BY <1>0, <1>1
  <2>4. table'[n] \in Meta /\ table'[n].pinged = tick /\ table'[n].seen = table[n].seen
        /\ table'[n].added = table[n].added
    BY <1>1, <2>2, <2>3 DEF Timely, Meta
  <2>5. Timely(table'[n])
    <3>1. table[n].seen \in Nat /\ table[n].pinged \in Nat BY <2>3 DEF Timely, Meta
    <3> QED BY <1>1, <2>3, <2>4, <3>1 DEF Timely
  <2> QED BY <1>1, <2>1, <2>5
<1>6. ping \in Pings
  <2>1. FreshTid(Now) \in Nat BY WholeIsGood, FreshTidExists
  <2>2. table[n].seen \in Nat BY <1>0, <1>1 DEF Timely, Meta
  <2> QED BY <2>1, <2>2 DEF Pings, CheckPing
<1>7. ping.kind = "check" OBVIOUS
<1> HIDE DEF ping
<1>8. pings' \in SUBSET Pings /\ IsFiniteSet(pings') /\ pings' \subseteq pings \cup {ping} /\ pings \subseteq pings'
  BY <1>0, <1>1, <1>6, FS_AddElement
<1>9. Of(pings', "swap") = Of(pings, "swap") BY <1>7, <1>8 DEF Of
<1>10. Counted(pings', "check", checks', MaxChecks)
  <2> DEFINE C == Of(pings, "check")
  <2>1. Of(pings', "check") \subseteq C \cup {ping} BY <1>8 DEF Of
  <2>2. IsFiniteSet(C) /\ Cardinality(C) \in Nat /\ Cardinality(Of(pings', "check")) \in Nat
    BY <1>1, <1>8, KindsCounted
  <2>3. Cardinality(C) <= checks BY DEF Whole, Parts, Counted
  <2> HIDE DEF C
  <2>4. IsFiniteSet(C \cup {ping})
        /\ Cardinality(C \cup {ping}) = IF ping \in C THEN Cardinality(C) ELSE Cardinality(C) + 1
    BY <2>2, FS_AddElement
  <2>5. Cardinality(Of(pings', "check")) <= Cardinality(C \cup {ping}) BY <2>1, <2>4, FS_Subset
  <2> QED BY <1>0, <1>1, <2>2, <2>3, <2>4, <2>5, TableAssumption DEF Counted
<1>11. TableFits(table)'
  <2>1. TableFits(table') BY <1>1, <1>4, SameDomainFits
  <2> QED BY <1>0, <2>1 DEF TableFits, InBucket
<1>12. (\A m \in DOMAIN table : Timely(table[m]))' BY <1>0, <1>4, <1>5 DEF Timely
<1>13. (\A p \in Of(pings, "swap") : Timely(p.meta) /\ p.seen < tick)'
  BY <1>0, <1>9 DEF Whole, Parts, Timely
<1>14. Counted(pings', "swap", repinging', MaxRepinging) BY <1>0, <1>9 DEF Whole, Parts, Counted
<1>15. size' = Cardinality(DOMAIN table') /\ repinging' \in Nat /\ checks' \in Nat
  BY <1>0, <1>1, <1>4 DEF Whole, Parts
<1>16. Parts' BY <1>4, <1>8, <1>10, <1>11, <1>12, <1>13, <1>14, <1>15 DEF Parts
<1> QED BY <1>0, <1>16 DEF Whole

\* What a ping in flight says.
LEMMA PingKnown ==
  ASSUME Whole, NEW p \in pings
  PROVE  p \in Pings /\ p.node \in Nodes /\ (p.kind = "swap" => Timely(p.meta) /\ p.seen < tick /\ p.seen \in Nat)
<1>1. p \in Pings BY DEF Whole, Parts
<1>2. p.kind = "swap" => Timely(p.meta) /\ p.seen < tick BY DEF Whole, Parts, Of
<1>3. p.node \in Nodes /\ p.seen \in Nat BY <1>1 DEF Pings, SwapPing, CheckPing
<1> QED BY <1>1, <1>2, <1>3

LEMMA AnswerStep ==
  ASSUME Whole, NEW p \in pings, NEW withId \in BOOLEAN, NEW ok \in BOOLEAN, Answer(p, withId, ok)
  PROVE  Whole' /\ (withId /\ p.kind = "swap" /\ p.node \in DOMAIN table => p.node \in DOMAIN table')
<1> DEFINE heard == IF withId THEN Heard(Now, p.node, ok) ELSE Now
           done == Done(heard, p)
           e == IF Unseen(done, p) THEN Decide(done, p, ok) ELSE done
<1>1. Good(Now) /\ Context /\ Now.pings = pings /\ Now.table = table BY WholeIsGood DEF Now
<1>2. p \in Pings /\ p.node \in Nodes /\ (p.kind = "swap" => Timely(p.meta) /\ p.seen < tick /\ p.seen \in Nat)
  BY PingKnown
<1>3. /\ Good(heard) /\ p \in heard.pings
      /\ withId /\ p.node \in DOMAIN table => p.node \in DOMAIN heard.table /\ heard.table[p.node].seen = tick
  <2>1. /\ Good(Heard(Now, p.node, ok)) /\ Now.pings \subseteq Heard(Now, p.node, ok).pings
        /\ DOMAIN Now.table \subseteq DOMAIN Heard(Now, p.node, ok).table
        /\ p.node \in DOMAIN Now.table => Heard(Now, p.node, ok).table[p.node].seen = tick
    BY <1>1, <1>2, GoodHeard
  <2>2. CASE withId
    <3>1. heard = Heard(Now, p.node, ok) BY <2>2
    <3> HIDE DEF heard
    <3> QED BY <1>1, <2>1, <3>1
  <2>3. CASE ~withId
    <3>1. heard = Now BY <2>3
    <3> HIDE DEF heard
    <3> QED BY <1>1, <2>3, <3>1
  <2> QED BY <2>2, <2>3
<1>4. /\ Becomes(e) /\ UNCHANGED <<tick, bootstrapped, ephemeral, place>> BY DEF Answer
<1> HIDE DEF heard
<1>5. Good(done) /\ done.table = heard.table BY <1>3, GoodDone
<1> HIDE DEF done
<1>6. Good(Decide(done, p, ok)) BY <1>1, <1>2, <1>5, GoodDecide
<1>7. Good(e) BY <1>5, <1>6
<1>8. ASSUME withId, p.kind = "swap", p.node \in DOMAIN table PROVE p.node \in DOMAIN table'
  <2>1. p.node \in DOMAIN done.table /\ done.table[p.node].seen = tick BY <1>3, <1>5, <1>8
  <2>2. ~Unseen(done, p) BY <1>1, <1>2, <1>8, <2>1 DEF Unseen, Context
  <2>3. e = done BY <2>2
  <2> HIDE DEF e
  <2> QED BY <1>4, <2>1, <2>3 DEF Becomes
<1> HIDE DEF e
<1>9. Whole' BY <1>4, <1>7, Becoming
<1> QED BY <1>8, <1>9

LEMMA WholeStep == Whole /\ [Next]_vars => Whole'
<1> SUFFICES ASSUME Whole, [Next]_vars PROVE Whole' OBVIOUS
<1>0. Good(Now) /\ Context /\ tick \in Nat /\ Now.pings = pings BY WholeIsGood DEF Now, Whole
<1>1. ASSUME NEW n \in Nodes, NEW ok \in BOOLEAN, Hear(n, ok) PROVE Whole'
  <2>1. Good(Heard(Now, n, ok)) BY <1>0, GoodHeard
  <2> QED BY <1>1, <2>1, Becoming DEF Hear
<1>2. ASSUME NEW n \in Nodes, NEW ok \in BOOLEAN, AddNode(n, ok) PROVE Whole'
  <2> DEFINE meta == [added |-> tick, pinged |-> 0, seen |-> 0, hinted |-> FALSE]
  <2>1. Timely(meta) BY <1>0 DEF Timely, Meta
  <2>2. Becomes(Add(Now, n, meta, ok)) /\ UNCHANGED <<tick, bootstrapped, ephemeral, place>>
    BY <1>2 DEF AddNode
  <2> HIDE DEF meta
  <2>3. Good(Add(Now, n, meta, ok)) BY <1>0, <2>1, GoodAdd
  <2> QED BY <2>2, <2>3, Becoming
<1>3. ASSUME NEW n \in Nodes, NEW ok \in BOOLEAN, DownHint(n, ok) PROVE Whole' BY <1>3, HintStep
<1>4. ASSUME NEW p \in pings, NEW ok \in BOOLEAN, Expire(p, ok) PROVE Whole'
  <2>1. p \in Pings /\ (p.kind = "swap" => Timely(p.meta)) BY PingKnown
  <2>2. Good(Done(Now, p)) BY <1>0, GoodDone
  <2>3. Good(Decide(Done(Now, p), p, ok)) BY <1>0, <2>1, <2>2, GoodDecide
  <2> QED BY <1>4, <2>3, Becoming DEF Expire
<1>5. ASSUME NEW p \in pings, NEW ok \in BOOLEAN, NEW withId \in BOOLEAN, Answer(p, withId, ok) PROVE Whole'
  BY <1>5, AnswerStep
<1>6. CASE BackgroundTick BY <1>6, WholeTick
<1>7. ASSUME UNCHANGED <<tick, place, table, size, repinging, checks, pings>>,
             bootstrapped' \in BOOLEAN, ephemeral' \in BOOLEAN
      PROVE  Whole'
  <2>1. TableFits(table)' <=> TableFits(table) BY <1>7 DEF TableFits, InBucket
  <2>2. \A m : Timely(m)' <=> Timely(m) BY <1>7 DEF Timely
  <2>3. Parts' BY <1>7, <2>1, <2>2 DEF Whole, Parts
  <2> QED BY <1>7, <2>3 DEF Whole
<1>8. CASE Bootstrapped BY <1>7, <1>8 DEF Bootstrapped, Whole
<1>9. ASSUME NEW q \in Placements, BecomePersistent(q) PROVE Whole' BY <1>9, WholeRebuild
<1>10. CASE UNCHANGED vars BY <1>7, <1>10 DEF vars, Whole
<1> QED BY <1>1, <1>2, <1>3, <1>4, <1>5, <1>6, <1>8, <1>9, <1>10 DEF Next

\* The inductive invariant of the routing table with its pings, swaps and down hints
\* (add_node_from_network, the ping-and-swap and the background checks).
THEOREM WholeTheorem == Spec => []Whole
BY WholeInit, WholeStep, PTL DEF Spec

\* The table is exact, its counters bound the pings in flight and stay within their
\* limits, and ticks never wrap, through every interleaving of observations, swaps,
\* checks and a rebuild under another id.
THEOREM TableInvTheorem == Spec => []TableInv
BY WholeTheorem, WholeIsTableInv, PTL

\* Ping-and-swap never evicts a node that answered its ping with its id.
THEOREM SwapSparesAnsweringTheorem == Spec => SwapSparesAnswering
<1>1. Whole /\ [Next]_vars =>
        [\A p \in InFlight("swap"), ok \in BOOLEAN :
           Answer(p, TRUE, ok) /\ p.node \in DOMAIN table => p.node \in DOMAIN table']_vars
  <2> SUFFICES ASSUME Whole, NEW p \in InFlight("swap"), NEW ok \in BOOLEAN, Answer(p, TRUE, ok),
                      p.node \in DOMAIN table
               PROVE  p.node \in DOMAIN table'
    OBVIOUS
  <2>1. p \in pings /\ p.kind = "swap" BY DEF InFlight
  <2> QED BY <2>1, AnswerStep
<1> QED BY <1>1, WholeTheorem, PTL DEF Spec, SwapSparesAnswering
================================================================================
