----------------------- MODULE ColumnCapacity_proofs ------------------------
(***************************************************************************)
(* Proofs about the column capacity gate, for any board and any queue: the *)
(* places that decide who is next agree (OrdersAgree), and the count of    *)
(* blocked entries is exact and stays so (BlockedCountIsExact,             *)
(* BlockedIsStable).  Two facts are proved by counting.  Counting what     *)
(* comes before an entry numbers the entries from 1 to n (ranks), and a    *)
(* sum over a set, which the library computes by recursion, is the number  *)
(* of its units (SumCounts).  Column by column these units are the numbers *)
(* of blocked entries, and there a start or an arrival is arithmetic.      *)
(***************************************************************************)
EXTENDS MCColumnCapacity, FiniteSetTheorems, SequenceTheorems, WellFoundedInduction, TLAPS

(* A queue of tasks that hold no slot, each of them once. *)
BoardOK(v, q) ==
  /\ v \in Views /\ q \in Seq(Tasks)
  /\ \A i, j \in DOMAIN q : q[i] = q[j] => i = j
  /\ \A i \in DOMAIN q : q[i] \notin v.holders

(* What the steps keep; no restart keeps a slot. *)
GateInv == view.kept = {} /\ BoardOK(view, queue)

-----------------------------------------------------------------------------
(* The first of the startable entries. *)
LEMMA Least ==
  ASSUME NEW n \in Nat, NEW S \in SUBSET (1..n), S # {}
  PROVE  \E s \in S : \A t \in S : s <= t
<1> DEFINE D == 1..n
           T == {1..i : i \in S}
<1>1. IsWellFoundedOn(StrictSubsetOrdering(D), FiniteSubsetsOf(D))
  BY FS_StrictSubsetOrderingWellFounded
<1>2. T # {} /\ T \subseteq FiniteSubsetsOf(D)
  <2>1. \A i \in S : i \in Int /\ 1..i \subseteq D /\ IsFiniteSet(1..i)
    BY FS_Interval
  <2> QED  BY <2>1 DEF FiniteSubsetsOf
<1>3. PICK X \in T : \A Y \in T : ~(<<Y, X>> \in StrictSubsetOrdering(D))
  <2> HIDE DEF D, T
  <2> QED  BY <1>1, <1>2, WFMin
<1>4. PICK m \in S : X = 1..m
  OBVIOUS
<1>5. ASSUME NEW y \in S, y < m PROVE FALSE
  <2>1. 1..y \in T /\ 1..y \subseteq 1..m /\ 1..m \subseteq D /\ m \in 1..m /\ m \notin 1..y
    BY <1>5
  <2> QED  BY <1>3, <1>4, <2>1 DEF StrictSubsetOrdering
<1> QED  BY <1>5

(* What the queue starts is the first entry that may start. *)
LEMMA PickIs ==
  ASSUME NEW v, NEW q \in Seq(Tasks)
  PROVE  /\ Pick(v, q) \in {0} \cup DOMAIN q
         /\ Pick(v, q) # 0 => Startable(v, q, Pick(v, q))
<1> DEFINE S == {i \in DOMAIN q : Startable(v, q, i)}
<1>1. CASE S = {}
  BY <1>1 DEF Pick
<1>2. CASE S # {}
  <2>1. S \in SUBSET (1..Len(q)) /\ Len(q) \in Nat
    OBVIOUS
  <2>2. \E i \in S : \A j \in S : i <= j
    <3> HIDE DEF S
    <3> QED  BY <1>2, <2>1, Least
  <2>3. Pick(v, q) = CHOOSE i \in S : \A j \in S : i <= j
    BY <1>2 DEF Pick
  <2>4. Pick(v, q) \in S
    <3> HIDE DEF S
    <3> QED  BY <2>2, <2>3
  <2> QED  BY <2>4
<1> QED  BY <1>1, <1>2

(* The members of a view. *)
LEMMA ViewIs ==
  ASSUME NEW v \in Views
  PROVE  /\ v.holders \subseteq Tasks
         /\ \A t \in Tasks : /\ v.column[t] \in Columns /\ v.entered[t] \in Nat
                             /\ Capped(v, t) => v.maxAgents[v.column[t]] \in Nat
                             /\ Occupants(v, t) \in Nat
<1>1. \A t \in Tasks : /\ v.column[t] \in Columns /\ v.entered[t] \in Nat
                       /\ Capped(v, t) => v.maxAgents[v.column[t]] \in Nat
  BY DEF Views, Capped
<1>2. ASSUME NEW t \in Tasks PROVE Occupants(v, t) \in Nat
  <2>1. {u \in v.holders \ {t} : SameColumn(v, u, t)} \in SUBSET Tasks
    BY DEF Views
  <2> QED  BY <2>1, GateAssumption, FS_Subset, FS_CardinalityType DEF Occupants
<1> QED  BY <1>1, <1>2 DEF Views

-----------------------------------------------------------------------------
(* A new arrival waits exactly when the queue would not start it from its
   end. *)
LEMMA ArrivalWaits ==
  ASSUME NEW v \in Views, v.kept = {}, NEW q \in Seq(Tasks), NEW t \in Tasks,
         \A i \in DOMAIN q : q[i] # t
  PROVE  MustWait(v, q, t) <=> ~Startable(v, Append(q, t), Len(q) + 1)
<1> DEFINE a == Append(q, t)
           n == Len(q) + 1
<1>1. /\ Len(q) \in Nat /\ DOMAIN q = 1..Len(q) /\ DOMAIN a = 1..n /\ a[n] = t
      /\ \A i \in DOMAIN q : a[i] = q[i] /\ q[i] \in Tasks
  OBVIOUS
<1>2. DOMAIN a \ {n} = DOMAIN q
  BY <1>1
<1> HIDE DEF a
<1>3. ASSUME NEW i \in DOMAIN q
      PROVE  /\ EntersFirst(v, t, n, a[i], i) <=> ~EntersFirst(v, q[i], i, t, n)
             /\ SameColumn(v, t, a[i]) <=> SameColumn(v, q[i], t)
  <2>1. v.entered[t] \in Nat /\ v.entered[q[i]] \in Nat /\ i < n /\ a[i] = q[i]
    BY <1>1, ViewIs
  <2> QED  BY <2>1 DEF EntersFirst, SameColumn
<1>4. FirstInLine(v, a, n) <=>
        ~\E i \in DOMAIN q : SameColumn(v, q[i], t) /\ EntersFirst(v, q[i], i, t, n)
  BY <1>1, <1>2, <1>3 DEF FirstInLine
<1>5. Startable(v, a, n) <=> ~Capped(v, t) \/ (FirstInLine(v, a, n) /\ HasRoom(v, t))
  BY <1>1 DEF Startable
<1>6. MustWait(v, q, t) <=> /\ Capped(v, t)
                           /\ \/ ~HasRoom(v, t)
                              \/ \E i \in DOMAIN q : /\ SameColumn(v, q[i], t)
                                                     /\ EntersFirst(v, q[i], i, t, n)
  BY DEF MustWait
<1> QED  BY <1>4, <1>5, <1>6 DEF a

-----------------------------------------------------------------------------
(* Ranks: the number of entries before an entry, plus one, in the order of a
   key and, among equals, of the queue. *)
Before(key, i, j) == key[i] < key[j] \/ (key[i] = key[j] /\ i < j)
Ahead(key, i) == {j \in DOMAIN key : Before(key, j, i)}
Place(key) == [i \in DOMAIN key |-> Cardinality(Ahead(key, i)) + 1]

(* A place is a rank: it follows the order, which is total. *)
LEMMA RanksFollowTheOrder ==
  ASSUME NEW n \in Nat, NEW key \in [1..n -> Nat]
  PROVE  /\ Place(key) \in [1..n -> 1..n]
         /\ \A i, j \in 1..n : Before(key, i, j) => Place(key)[i] < Place(key)[j]
         /\ \A i, j \in 1..n : i = j \/ Before(key, i, j) \/ Before(key, j, i)
<1> DEFINE D == 1..n
<1>1. /\ IsFiniteSet(D) /\ Cardinality(D) = n /\ DOMAIN key = D
      /\ \A i \in D : key[i] \in Nat /\ i \in Nat
  <2>1. IsFiniteSet(1..n) /\ Cardinality(1..n) = IF 1 > n THEN 0 ELSE n - 1 + 1
    BY FS_Interval
  <2> QED  BY <2>1
<1>2. ASSUME NEW i \in D
      PROVE  /\ Ahead(key, i) \in SUBSET D /\ i \notin Ahead(key, i) /\ IsFiniteSet(Ahead(key, i))
             /\ Cardinality(Ahead(key, i)) \in Nat /\ Cardinality(Ahead(key, i)) < n
  <2>1. Ahead(key, i) \in SUBSET D /\ i \notin Ahead(key, i)
    BY <1>1 DEF Ahead, Before
  <2>2. /\ IsFiniteSet(Ahead(key, i)) /\ Cardinality(Ahead(key, i)) <= Cardinality(D)
        /\ Cardinality(Ahead(key, i)) = Cardinality(D) => D = Ahead(key, i)
    BY <1>1, <2>1, FS_Subset
  <2>3. Cardinality(Ahead(key, i)) \in Nat
    BY <2>2, FS_CardinalityType
  <2> HIDE DEF D
  <2> QED  BY <1>1, <2>1, <2>2, <2>3
<1>3. ASSUME NEW i \in D, NEW j \in D, Before(key, i, j)
      PROVE  Cardinality(Ahead(key, i)) < Cardinality(Ahead(key, j))
  <2>1. i \in Ahead(key, j)
    BY <1>1, <1>3 DEF Ahead
  <2>2. Ahead(key, i) \in SUBSET Ahead(key, j)
    BY <1>1, <1>3 DEF Ahead, Before
  <2>3. /\ Cardinality(Ahead(key, i)) <= Cardinality(Ahead(key, j))
        /\ Cardinality(Ahead(key, i)) = Cardinality(Ahead(key, j)) =>
             Ahead(key, i) = Ahead(key, j)
    BY <1>2, <2>2, FS_Subset
  <2> QED  BY <1>2, <2>1, <2>3
<1>4. \A i \in D : Place(key)[i] = Cardinality(Ahead(key, i)) + 1 /\ Place(key)[i] \in 1..n
  BY <1>1, <1>2 DEF Place
<1>5. Place(key) \in [D -> 1..n]
  BY <1>1, <1>4 DEF Place
<1>6. \A i, j \in D : i = j \/ Before(key, i, j) \/ Before(key, j, i)
  BY <1>1 DEF Before
<1>7. ASSUME NEW i \in D, NEW j \in D, Before(key, i, j)
      PROVE  Place(key)[i] < Place(key)[j]
  <2>1. Cardinality(Ahead(key, i)) < Cardinality(Ahead(key, j))
    BY <1>3, <1>7
  <2> QED  BY <1>2, <1>4, <2>1
<1> QED  BY <1>5, <1>6, <1>7

(* ... and they number the entries from 1 to n. *)
LEMMA RanksAreAPermutation ==
  ASSUME NEW n \in Nat, NEW key \in [1..n -> Nat]
  PROVE  /\ \A i, j \in 1..n : Place(key)[i] = Place(key)[j] => i = j
         /\ \A k \in 1..n : \E i \in 1..n : Place(key)[i] = k
<1> DEFINE D == 1..n
           place == Place(key)
<1>1. /\ place \in [D -> D] /\ \A i \in D : place[i] \in Nat
      /\ \A i, j \in D : Before(key, i, j) => place[i] < place[j]
      /\ \A i, j \in D : i = j \/ Before(key, i, j) \/ Before(key, j, i)
  <2> HIDE DEF place
  <2>1. place \in [D -> D]
    BY RanksFollowTheOrder DEF place
  <2>2. /\ \A i, j \in D : Before(key, i, j) => place[i] < place[j]
        /\ \A i, j \in D : i = j \/ Before(key, i, j) \/ Before(key, j, i)
    BY RanksFollowTheOrder DEF place
  <2>3. \A i \in D : place[i] \in D /\ D \subseteq Nat
    BY <2>1
  <2> HIDE DEF D
  <2> QED  BY <2>1, <2>2, <2>3
<1>2. ASSUME NEW i \in D, NEW j \in D, place[i] = place[j] PROVE i = j
  <2>1. ~(place[i] < place[j]) /\ ~(place[j] < place[i])
    <3> HIDE DEF place, D
    <3> QED  BY <1>1, <1>2
  <2> HIDE DEF place, D
  <2> QED  BY <1>1, <2>1
<1>3. IsFiniteSet(D)
  BY FS_Interval
<1> HIDE DEF D, place
<1>4. place \in Injection(D, D)
  BY <1>1, <1>2 DEF Injection, IsInjective
<1>5. place \in Surjection(D, D)
  BY <1>3, <1>4, FS_Injection
<1>6. \A k \in D : \E i \in D : place[i] = k
  BY <1>5 DEF Surjection
<1> QED  BY <1>2, <1>6 DEF D, place

-----------------------------------------------------------------------------
(* The key of a startup's batch. *)
EntryKey(v, q) ==
  [i \in DOMAIN q |-> IF Capped(v, q[i]) THEN v.entered[q[i]] + 1 ELSE 0]

(* The key by which a queue is ordered is a number for each of its entries. *)
LEMMA EntryKeyIs ==
  ASSUME NEW v \in Views, NEW q \in Seq(Tasks)
  PROVE  /\ DOMAIN q = 1..Len(q) /\ Len(q) \in Nat /\ \A i \in DOMAIN q : q[i] \in Tasks
         /\ EntryKey(v, q) \in [1..Len(q) -> Nat]
<1>1. DOMAIN q = 1..Len(q) /\ Len(q) \in Nat /\ \A i \in DOMAIN q : q[i] \in Tasks
  OBVIOUS
<1>2. \A i \in DOMAIN q : v.entered[q[i]] \in Nat
  BY <1>1, ViewIs
<1> QED  BY <1>1, <1>2 DEF EntryKey

(* The k-th of a batch is the entry whose place is k. *)
LEMMA BatchIs ==
  ASSUME NEW v \in Views, NEW q \in Seq(Tasks)
  PROVE  /\ DOMAIN OrderByColumnEntry(v, q) = DOMAIN q
         /\ \A k \in DOMAIN q : \E i \in DOMAIN q :
              Place(EntryKey(v, q))[i] = k /\ OrderByColumnEntry(v, q)[k] = q[i]
<1> DEFINE D == DOMAIN q
           key == EntryKey(v, q)
           rank(t) == IF Capped(v, t) THEN v.entered[t] + 1 ELSE 0
           before(i, j) == rank(q[i]) < rank(q[j]) \/ (rank(q[i]) = rank(q[j]) /\ i < j)
           place(i) == Cardinality({j \in D : before(j, i)}) + 1
           at(k) == CHOOSE i \in D : place(i) = k
<1>1. OrderByColumnEntry(v, q) = [k \in D |-> q[at(k)]]
  BY DEF OrderByColumnEntry
<1>2. DOMAIN key = D /\ \A i \in D : key[i] = rank(q[i])
  BY DEF EntryKey
<1>3. ASSUME NEW i \in D PROVE place(i) = Place(key)[i]
  <2>1. {j \in D : before(j, i)} = Ahead(key, i)
    <3> HIDE DEF rank, D, key
    <3> QED  BY <1>2 DEF Ahead, Before
  <2> HIDE DEF D, before, key
  <2> QED  BY <1>2, <2>1 DEF Place
<1>4. ASSUME NEW k \in D PROVE \E i \in D : Place(key)[i] = k
  <2> DEFINE n == Len(q)
  <2>1. n \in Nat /\ key \in [1..n -> Nat] /\ D = 1..n
    BY EntryKeyIs
  <2> HIDE DEF n, key, D
  <2>2. \A m \in 1..n : \E i \in 1..n : Place(key)[i] = m
    BY <2>1, RanksAreAPermutation
  <2> QED  BY <2>1, <2>2
<1> HIDE DEF key, place, D
<1>5. ASSUME NEW k \in D PROVE at(k) \in D /\ place(at(k)) = k
  <2>1. \E i \in D : place(i) = k
    BY <1>3, <1>4
  <2> QED  BY <2>1
<1>6. ASSUME NEW k \in D PROVE \E i \in D : Place(key)[i] = k /\ OrderByColumnEntry(v, q)[k] = q[i]
  <2> HIDE DEF at
  <2>1. at(k) \in D /\ Place(key)[at(k)] = k
    BY <1>3, <1>5
  <2> QED  BY <1>1, <2>1
<1> QED  BY <1>1, <1>6 DEF key, D

(* A batch keeps every task, and of two tasks in one limited column the
   earlier arrival goes first. *)
LEMMA BatchInOrder ==
  ASSUME NEW v \in Views, NEW q \in Seq(Tasks)
  PROVE  LET b == OrderByColumnEntry(v, q) IN
         /\ ToSet(b) = ToSet(q)
         /\ \A i, j \in DOMAIN b :
              i < j /\ SameColumn(v, b[i], b[j]) => v.entered[b[i]] <= v.entered[b[j]]
<1> DEFINE D == DOMAIN q
           key == EntryKey(v, q)
           b == OrderByColumnEntry(v, q)
<1>1. /\ D = 1..Len(q) /\ Len(q) \in Nat /\ \A i \in D : q[i] \in Tasks
      /\ key \in [1..Len(q) -> Nat]
  BY EntryKeyIs
<1>2. /\ DOMAIN b = D
      /\ \A k \in D : \E i \in D : Place(key)[i] = k /\ b[k] = q[i]
  BY BatchIs
<1> DEFINE n == Len(q)
<1>3. /\ Place(key) \in [1..n -> 1..n]
      /\ \A i, j \in 1..n : Before(key, i, j) => Place(key)[i] < Place(key)[j]
      /\ \A i, j \in 1..n : i = j \/ Before(key, i, j) \/ Before(key, j, i)
  <2> HIDE DEF n, key
  <2> QED  BY <1>1, RanksFollowTheOrder DEF n
<1>4. \A i, j \in D : Place(key)[i] = Place(key)[j] => i = j
  <2>1. n \in Nat /\ key \in [1..n -> Nat] /\ D = 1..n
    BY <1>1
  <2> HIDE DEF n, key, D
  <2>2. \A i, j \in 1..n : Place(key)[i] = Place(key)[j] => i = j
    BY <2>1, RanksAreAPermutation
  <2> QED  BY <2>1, <2>2
<1>5. \A i \in D : key[i] = IF Capped(v, q[i]) THEN v.entered[q[i]] + 1 ELSE 0
  BY DEF EntryKey
<1> HIDE DEF key, b, D
<1>6. ToSet(b) = ToSet(q)
  <2>1. ASSUME NEW i \in D PROVE \E k \in D : b[k] = q[i]
    <3>1. Place(key)[i] \in D
      BY <1>1, <1>3
    <3> QED  BY <1>2, <1>4, <3>1
  <2> QED  BY <1>2, <2>1 DEF ToSet, D
<1>7. ASSUME NEW x \in D, NEW y \in D, x < y, SameColumn(v, b[x], b[y])
      PROVE  v.entered[b[x]] <= v.entered[b[y]]
  <2>1. PICK i \in D : Place(key)[i] = x /\ b[x] = q[i]
    BY <1>2
  <2>2. PICK j \in D : Place(key)[j] = y /\ b[y] = q[j]
    BY <1>2
  <2>3. Before(key, i, j)
    <3>1. i # j /\ ~(y < x) /\ x \in Nat /\ y \in Nat
      BY <1>1, <1>7, <2>1, <2>2
    <3> QED  BY <1>1, <1>3, <2>1, <2>2, <3>1
  <2>4. Capped(v, q[i]) /\ Capped(v, q[j]) /\ v.entered[q[i]] \in Nat /\ v.entered[q[j]] \in Nat
    BY <1>1, <1>7, <2>1, <2>2, ViewIs DEF SameColumn
  <2>5. key[i] = v.entered[q[i]] + 1 /\ key[j] = v.entered[q[j]] + 1
    BY <1>5, <2>4
  <2> QED  BY <2>1, <2>2, <2>3, <2>4, <2>5 DEF Before
<1> QED  BY <1>2, <1>6, <1>7 DEF b

-----------------------------------------------------------------------------
(* The element a sum takes next, and the units it adds up. *)
First(s) == CHOOSE x \in s : TRUE
Units(w, s) == {u \in s \X Nat : u[2] \in 1..w[u[1]]}

(* One element more adds its units. *)
LEMMA UnitsOfOneMore ==
  ASSUME NEW s, NEW x \in s, NEW w, w[x] \in Nat, IsFiniteSet(Units(w, s \ {x}))
  PROVE  /\ IsFiniteSet(Units(w, s))
         /\ Cardinality(Units(w, s)) = w[x] + Cardinality(Units(w, s \ {x}))
<1> DEFINE A == Units(w, s \ {x})
           B == {u \in {x} \X Nat : u[2] \in 1..w[x]}
<1>1. Units(w, s) = A \cup B /\ A \cap B = {}
  BY DEF Units
<1>2. IsFiniteSet(B) /\ Cardinality(B) = w[x]
  <2> DEFINE f == [k \in 1..w[x] |-> <<x, k>>]
  <2>1. f \in Bijection(1..w[x], B)
    <3>1. f \in [1..w[x] -> B]
      OBVIOUS
    <3>2. \A i, j \in 1..w[x] : f[i] = f[j] => i = j
      OBVIOUS
    <3>3. \A u \in B : \E k \in 1..w[x] : f[k] = u
      <4> TAKE u \in B
      <4>1. u[2] \in 1..w[x] /\ u = <<x, u[2]>>
        OBVIOUS
      <4>2. f[u[2]] = u
        BY <4>1
      <4> QED BY <4>1, <4>2
    <3> HIDE DEF B, f
    <3> QED BY <3>1, <3>2, <3>3 DEF Bijection, Injection, Surjection, IsInjective
  <2>2. IsFiniteSet(1..w[x]) /\ Cardinality(1..w[x]) = w[x]
    <3>1. 1 \in Int /\ w[x] \in Int OBVIOUS
    <3>2. IsFiniteSet(1..w[x]) /\ Cardinality(1..w[x]) = IF 1 > w[x] THEN 0 ELSE w[x] - 1 + 1
      BY <3>1, FS_Interval
    <3> QED BY <3>2
  <2> HIDE DEF f, B
  <2> QED BY <2>1, <2>2, FS_Bijection DEF ExistsBijection
<1>3. Cardinality({}) = 0
  BY FS_EmptySet
<1> HIDE DEF A, B
<1>4. IsFiniteSet(A)
  BY DEF A
<1>5. /\ IsFiniteSet(A \cup B)
      /\ Cardinality(A \cup B) = Cardinality(A) + Cardinality(B) - Cardinality(A \cap B)
  BY <1>2, <1>4, FS_Union
<1>6. Cardinality(A \cup B) = w[x] + Cardinality(A)
  <2>1. Cardinality(A \cap B) = 0
    BY <1>1, <1>3, Zenon
  <2>2. Cardinality(A) \in Nat
    BY <1>4, FS_CardinalityType
  <2> QED  BY <1>2, <1>5, <2>1, <2>2
<1>7. /\ IsFiniteSet(Units(w, s))
      /\ Cardinality(Units(w, s)) = w[x] + Cardinality(A)
  BY <1>1, <1>5, <1>6, Zenon
<1> QED BY <1>7, Zenon DEF A

(* Only finitely many units are summed. *)
LEMMA UnitsAreFinite ==
  ASSUME NEW S, IsFiniteSet(S), NEW w, \A x \in S : w[x] \in Nat
  PROVE  \A s \in SUBSET S : IsFiniteSet(Units(w, s))
<1> DEFINE Bad == {s \in SUBSET S : ~IsFiniteSet(Units(w, s))}
<1>1. SUFFICES ASSUME Bad # {} PROVE FALSE
  OBVIOUS
<1>2. /\ IsWellFoundedOn(StrictSubsetOrdering(S), FiniteSubsetsOf(S))
      /\ Bad \subseteq FiniteSubsetsOf(S)
  BY FS_StrictSubsetOrderingWellFounded, FS_FiniteSubsetsOfFinite
<1>3. PICK s \in Bad : \A r \in Bad : ~(<<r, s>> \in StrictSubsetOrdering(S))
  <2> HIDE DEF Bad
  <2> QED  BY <1>1, <1>2, WFMin
<1>4. CASE s = {}
  BY <1>3, <1>4, FS_EmptySet DEF Units
<1>5. CASE s # {}
  <2>1. PICK x \in s : TRUE
    BY <1>5
  <2>2. s \ {x} \in SUBSET S /\ <<s \ {x}, s>> \in StrictSubsetOrdering(S)
    BY <2>1 DEF StrictSubsetOrdering
  <2>3. w[x] \in Nat /\ IsFiniteSet(Units(w, s \ {x}))
    BY <1>3, <2>1, <2>2
  <2> QED  BY <1>3, <2>1, <2>3, UnitsOfOneMore
<1> QED  BY <1>4, <1>5

(* What the recursion of a sum says of the sums of all subsets. *)
AddsUp(g, w, S) ==
  \A s \in SUBSET S : g[s] = IF s = {} THEN 0 ELSE w[First(s)] + g[s \ {First(s)}]

(* A sum over a finite set, by the recursion that computes it. *)
LEMMA SumCounts ==
  ASSUME NEW S, IsFiniteSet(S), NEW w \in [S -> Nat], NEW g,
         AddsUp(g, w, S)
  PROVE  \A s \in SUBSET S : IsFiniteSet(Units(w, s)) /\ g[s] = Cardinality(Units(w, s))
<1> DEFINE Bad == {s \in SUBSET S : ~(IsFiniteSet(Units(w, s)) /\ g[s] = Cardinality(Units(w, s)))}
<1>1. SUFFICES ASSUME Bad # {} PROVE FALSE
  OBVIOUS
<1>2. /\ IsWellFoundedOn(StrictSubsetOrdering(S), FiniteSubsetsOf(S))
      /\ Bad \subseteq FiniteSubsetsOf(S)
  BY FS_StrictSubsetOrderingWellFounded, FS_FiniteSubsetsOfFinite
<1>3. PICK s \in Bad : \A r \in Bad : ~(<<r, s>> \in StrictSubsetOrdering(S))
  <2> HIDE DEF Bad
  <2> QED  BY <1>1, <1>2, WFMin
<1>4. CASE s = {}
  <2>1. Units(w, s) = {}
    BY <1>4 DEF Units
  <2>2. g[s] = 0
    BY <1>3, <1>4 DEF AddsUp
  <2> QED  BY <1>3, <2>1, <2>2, FS_EmptySet
<1>5. CASE s # {}
  <2> DEFINE x == First(s)
             r == s \ {x}
  <2>0. s \in SUBSET S
    BY <1>3
  <2>1. x \in s /\ w[x] \in Nat
    BY <1>5 DEF First
  <2>2. r \in SUBSET S /\ r # s /\ r \subseteq s /\ <<r, s>> \in StrictSubsetOrdering(S)
    BY <2>1 DEF StrictSubsetOrdering
  <2> HIDE DEF x
  <2>3. IsFiniteSet(Units(w, r)) /\ g[r] = Cardinality(Units(w, r))
    BY <1>3, <2>2
  <2>4. /\ IsFiniteSet(Units(w, s))
        /\ Cardinality(Units(w, s)) = w[x] + Cardinality(Units(w, r))
    BY <2>1, <2>3, UnitsOfOneMore
  <2>5. g[s] = w[x] + g[r]
    <3> HIDE DEF Bad, r
    <3>1. g[s] = w[First(s)] + g[s \ {First(s)}]
      BY <2>0, <1>5 DEF AddsUp
    <3> QED  BY <3>1 DEF x, r
  <2> QED  BY <1>3, <2>3, <2>4, <2>5
<1> QED  BY <1>4, <1>5

(* What countBlocked adds up: a term for each entry that speaks for its column. *)
SpeakersOf(v, q) == {i \in DOMAIN q : SpeaksForColumn(v, q, i)}
BlockedAt(v, q, i) ==
  Minus(Cardinality(WaitingWith(v, q, i)), Minus(v.maxAgents[v.column[q[i]]], Occupants(v, q[i])))
BlockedBy(v, q) == [i \in SpeakersOf(v, q) |-> BlockedAt(v, q, i)]

(* The count of blocked entries is the number of their units. *)
LEMMA CountIsUnits ==
  ASSUME NEW v, NEW q, IsFiniteSet(SpeakersOf(v, q)),
         \A i \in SpeakersOf(v, q) : BlockedAt(v, q, i) \in Nat
  PROVE  /\ IsFiniteSet(Units(BlockedBy(v, q), SpeakersOf(v, q)))
         /\ CountBlocked(v, q) = Cardinality(Units(BlockedBy(v, q), SpeakersOf(v, q)))
<1> DEFINE S == SpeakersOf(v, q)
           w == BlockedBy(v, q)
           E(h) == [s \in SUBSET S |-> IF s = {} THEN 0
                                      ELSE BlockedAt(v, q, First(s)) + h[s \ {First(s)}]]
           F(h) == [s \in SUBSET S |-> IF s = {} THEN 0 ELSE w[First(s)] + h[s \ {First(s)}]]
           total == [s \in SUBSET S |-> Cardinality(Units(w, s))]
           iter == CHOOSE h : h = E(h)
<1>1. CountBlocked(v, q) = iter[S]
  BY DEF CountBlocked, MapThenSumSet, MapThenFoldSet, First, SpeakersOf, BlockedAt
<1>2. w \in [S -> Nat] /\ IsFiniteSet(S)
  BY DEF BlockedBy
<1>3. ASSUME NEW h PROVE E(h) = F(h)
  <2>1. \A s \in SUBSET S : s # {} => w[First(s)] = BlockedAt(v, q, First(s))
    BY DEF BlockedBy, First
  <2> HIDE DEF w, S
  <2> QED  BY <2>1
<1> HIDE DEF w, S
<1>4. ASSUME NEW s \in SUBSET S PROVE IsFiniteSet(Units(w, s))
  BY <1>2, <1>4, UnitsAreFinite
<1>5. total = E(total)
  <2>1. total = F(total)
    <3>1. ASSUME NEW s \in SUBSET S, s = {} PROVE total[s] = 0
      BY <3>1, FS_EmptySet DEF Units
    <3>2. ASSUME NEW s \in SUBSET S, s # {}
          PROVE  total[s] = w[First(s)] + total[s \ {First(s)}]
      <4> DEFINE x == First(s)
      <4>1. x \in s /\ w[x] \in Nat
        BY <1>2, <3>2 DEF First
      <4> HIDE DEF x
      <4>2. s \ {x} \in SUBSET S /\ IsFiniteSet(Units(w, s \ {x}))
        BY <1>4
      <4>3. Cardinality(Units(w, s)) = w[x] + Cardinality(Units(w, s \ {x}))
        BY <4>1, <4>2, UnitsOfOneMore
      <4>4. total[s] = w[x] + total[s \ {x}]
        BY <4>2, <4>3
      <4> QED  BY <4>4 DEF x
    <3> QED  BY <3>1, <3>2
  <2> QED  BY <1>3, <2>1
<1>6. iter = E(iter)
  BY <1>5
<1>7. \A s \in SUBSET S : iter[s] = IF s = {} THEN 0 ELSE w[First(s)] + iter[s \ {First(s)}]
  <2> HIDE DEF iter
  <2>1. iter = F(iter)
    BY <1>3, <1>6
  <2>2. \A s \in SUBSET S :
          F(iter)[s] = IF s = {} THEN 0 ELSE w[First(s)] + iter[s \ {First(s)}]
    OBVIOUS
  <2> HIDE DEF F
  <2> QED  BY <2>1, <2>2, Zenon
<1> HIDE DEF iter
<1>8. \A s \in SUBSET S : IsFiniteSet(Units(w, s)) /\ iter[s] = Cardinality(Units(w, s))
  <2>1. AddsUp(iter, w, S)
    BY <1>7 DEF AddsUp
  <2> QED  BY <1>2, <2>1, SumCounts
<1>9. IsFiniteSet(Units(w, S)) /\ CountBlocked(v, q) = Cardinality(Units(w, S))
  BY <1>1, <1>8
<1> QED  BY <1>9 DEF S, w

-----------------------------------------------------------------------------
(* The count, column by column. *)
WaitingIn(v, q, c) == {i \in DOMAIN q : Capped(v, q[i]) /\ v.column[q[i]] = c}
HoldingIn(v, c) == {u \in v.holders : Capped(v, u) /\ v.column[u] = c}
BlockedIn(v, q, c) ==
  Minus(Cardinality(WaitingIn(v, q, c)), Minus(v.maxAgents[c], Cardinality(HoldingIn(v, c))))
BlockedUnits(v, q) ==
  {u \in Columns \X Nat : v.maxAgents[u[1]] # NoLimit /\ u[2] \in 1..BlockedIn(v, q, u[1])}

(* Lines and places of a column are finite, and their numbers are numbers. *)
LEMMA ColumnSets ==
  ASSUME NEW v, NEW q, BoardOK(v, q), NEW c \in Columns
  PROVE  /\ IsFiniteSet(WaitingIn(v, q, c)) /\ Cardinality(WaitingIn(v, q, c)) \in Nat
         /\ IsFiniteSet(HoldingIn(v, c)) /\ Cardinality(HoldingIn(v, c)) \in Nat
         /\ v.maxAgents[c] # NoLimit => v.maxAgents[c] \in Nat /\ BlockedIn(v, q, c) \in Nat
<1>1. IsFiniteSet(DOMAIN q) /\ WaitingIn(v, q, c) \in SUBSET DOMAIN q
  <2>1. Len(q) \in Nat /\ DOMAIN q = 1..Len(q)
    BY DEF BoardOK
  <2> QED  BY <2>1, FS_Interval DEF WaitingIn
<1>2. IsFiniteSet(Tasks) /\ HoldingIn(v, c) \in SUBSET Tasks
  BY GateAssumption DEF BoardOK, Views, HoldingIn
<1>3. /\ IsFiniteSet(WaitingIn(v, q, c)) /\ Cardinality(WaitingIn(v, q, c)) \in Nat
      /\ IsFiniteSet(HoldingIn(v, c)) /\ Cardinality(HoldingIn(v, c)) \in Nat
  BY <1>1, <1>2, FS_Subset, FS_CardinalityType
<1>4. v.maxAgents[c] # NoLimit => v.maxAgents[c] \in Nat
  BY DEF BoardOK, Views
<1> QED  BY <1>3, <1>4 DEF BlockedIn, Minus

(* An entry of a limited column sees that column. *)
LEMMA ColumnOf ==
  ASSUME NEW v, NEW q, BoardOK(v, q), NEW i \in DOMAIN q, Capped(v, q[i])
  PROVE  /\ v.column[q[i]] \in Columns /\ v.maxAgents[v.column[q[i]]] # NoLimit
         /\ WaitingWith(v, q, i) = WaitingIn(v, q, v.column[q[i]])
         /\ Occupants(v, q[i]) = Cardinality(HoldingIn(v, v.column[q[i]]))
         /\ BlockedAt(v, q, i) = BlockedIn(v, q, v.column[q[i]])
<1>1. q[i] \in Tasks /\ q[i] \notin v.holders
  BY DEF BoardOK
<1>2. v.column[q[i]] \in Columns /\ v.maxAgents[v.column[q[i]]] # NoLimit
  BY <1>1 DEF BoardOK, Views, Capped
<1>3. WaitingWith(v, q, i) = WaitingIn(v, q, v.column[q[i]])
  BY DEF WaitingWith, WaitingIn, SameColumn
<1>4. {u \in v.holders \ {q[i]} : SameColumn(v, u, q[i])} = HoldingIn(v, v.column[q[i]])
  BY <1>1 DEF HoldingIn, SameColumn
<1> QED  BY <1>2, <1>3, <1>4 DEF Occupants, BlockedAt, BlockedIn

(* Of each line that is not empty, one entry speaks for the column. *)
LEMMA SpeakerOf ==
  ASSUME NEW v, NEW q, BoardOK(v, q), NEW c \in Columns, WaitingIn(v, q, c) # {}
  PROVE  \E i \in SpeakersOf(v, q) : v.column[q[i]] = c /\ Capped(v, q[i])
<1>1. Len(q) \in Nat /\ WaitingIn(v, q, c) \in SUBSET (1..Len(q))
  BY DEF BoardOK, WaitingIn
<1>2. PICK i \in WaitingIn(v, q, c) : \A j \in WaitingIn(v, q, c) : i <= j
  BY <1>1, Least
<1>3. i \in DOMAIN q /\ Capped(v, q[i]) /\ v.column[q[i]] = c
  BY <1>2 DEF WaitingIn
<1>4. WaitingWith(v, q, i) = WaitingIn(v, q, c)
  BY <1>3, ColumnOf
<1> QED  BY <1>2, <1>3, <1>4 DEF SpeakersOf, SpeaksForColumn

(* So the count may be taken column by column. *)
LEMMA CountIsByColumn ==
  ASSUME NEW v, NEW q, BoardOK(v, q)
  PROVE  /\ IsFiniteSet(BlockedUnits(v, q))
         /\ CountBlocked(v, q) = Cardinality(BlockedUnits(v, q))
<1> DEFINE S == SpeakersOf(v, q)
           w == BlockedBy(v, q)
           U == Units(w, S)
           B == BlockedUnits(v, q)
           f == [u \in U |-> <<v.column[q[u[1]]], u[2]>>]
<1>1. /\ S \subseteq DOMAIN q /\ IsFiniteSet(S)
      /\ \A i \in S : Capped(v, q[i]) /\ \A j \in WaitingWith(v, q, i) : i <= j
  <2>1. Len(q) \in Nat /\ DOMAIN q = 1..Len(q)
    BY DEF BoardOK
  <2>2. IsFiniteSet(DOMAIN q)
    BY <2>1, FS_Interval
  <2>3. S \in SUBSET DOMAIN q
    BY DEF SpeakersOf
  <2>4. IsFiniteSet(S)
    BY <2>2, <2>3, FS_Subset
  <2> QED  BY <2>3, <2>4 DEF SpeakersOf, SpeaksForColumn
<1>2. ASSUME NEW i \in S
      PROVE  /\ v.column[q[i]] \in Columns /\ v.maxAgents[v.column[q[i]]] # NoLimit
             /\ w[i] = BlockedIn(v, q, v.column[q[i]]) /\ w[i] \in Nat
             /\ BlockedAt(v, q, i) \in Nat
  <2>1. /\ v.column[q[i]] \in Columns /\ v.maxAgents[v.column[q[i]]] # NoLimit
        /\ BlockedAt(v, q, i) = BlockedIn(v, q, v.column[q[i]])
    BY <1>1, ColumnOf
  <2>2. BlockedIn(v, q, v.column[q[i]]) \in Nat
    BY <2>1, ColumnSets
  <2>3. w[i] = BlockedAt(v, q, i)
    BY DEF BlockedBy
  <2> QED  BY <2>1, <2>2, <2>3
<1>3. IsFiniteSet(U) /\ CountBlocked(v, q) = Cardinality(U)
  BY <1>1, <1>2, CountIsUnits
<1> HIDE DEF w, S
<1>4. f \in [U -> B]
  <2> SUFFICES ASSUME NEW u \in U PROVE <<v.column[q[u[1]]], u[2]>> \in B
    OBVIOUS
  <2>1. u[1] \in S /\ u[2] \in Nat /\ u[2] \in 1..w[u[1]]
    BY DEF Units
  <2> QED  BY <1>2, <2>1 DEF BlockedUnits
<1>5. ASSUME NEW a \in U, NEW b \in U, f[a] = f[b] PROVE a = b
  <2>1. /\ a[1] \in S /\ b[1] \in S /\ a = <<a[1], a[2]>> /\ b = <<b[1], b[2]>>
        /\ a[2] = b[2] /\ v.column[q[a[1]]] = v.column[q[b[1]]]
    BY <1>5 DEF Units
  <2>2. b[1] \in WaitingWith(v, q, a[1]) /\ a[1] \in WaitingWith(v, q, b[1])
    BY <1>1, <2>1 DEF WaitingWith, SameColumn
  <2>3. a[1] \in Nat /\ b[1] \in Nat /\ a[1] <= b[1] /\ b[1] <= a[1]
    <3>1. DOMAIN q \subseteq Nat
      BY DEF BoardOK
    <3> QED  BY <1>1, <2>1, <2>2, <3>1
  <2> QED  BY <2>1, <2>3
<1>6. ASSUME NEW b \in B PROVE \E u \in U : f[u] = b
  <2>1. /\ b[1] \in Columns /\ b[2] \in Nat /\ b = <<b[1], b[2]>>
        /\ v.maxAgents[b[1]] # NoLimit /\ b[2] \in 1..BlockedIn(v, q, b[1])
    BY DEF BlockedUnits
  <2>2. WaitingIn(v, q, b[1]) # {}
    <3>1. ASSUME WaitingIn(v, q, b[1]) = {} PROVE FALSE
      <4>1. Cardinality(WaitingIn(v, q, b[1])) = 0
        BY <3>1, FS_EmptySet
      <4>2. v.maxAgents[b[1]] \in Nat /\ Cardinality(HoldingIn(v, b[1])) \in Nat
        BY <2>1, ColumnSets
      <4>3. BlockedIn(v, q, b[1]) = 0
        BY <4>1, <4>2 DEF BlockedIn, Minus
      <4> QED  BY <2>1, <4>3
    <3> QED  BY <3>1
  <2>3. PICK i \in S : v.column[q[i]] = b[1] /\ Capped(v, q[i])
    BY <2>1, <2>2, SpeakerOf DEF S
  <2>4. <<i, b[2]>> \in U
    BY <1>2, <2>1, <2>3 DEF Units
  <2>5. f[<<i, b[2]>>] = <<v.column[q[i]], b[2]>>
    BY <2>4
  <2> QED  BY <2>1, <2>3, <2>4, <2>5
<1>7. f \in Bijection(U, B)
  <2> HIDE DEF f, U, B
  <2> QED  BY <1>4, <1>5, <1>6 DEF Bijection, Injection, Surjection, IsInjective
<1>8. IsFiniteSet(B) /\ Cardinality(B) = Cardinality(U)
  <2> HIDE DEF f, U, B
  <2> QED  BY <1>3, <1>7, FS_Bijection DEF ExistsBijection
<1> QED  BY <1>3, <1>8

(* Two queues and boards whose columns have the same numbers block the same. *)
LEMMA SameUnits ==
  ASSUME NEW v, NEW q, NEW u, NEW r, u.maxAgents = v.maxAgents,
         \A c \in Columns : v.maxAgents[c] # NoLimit => BlockedIn(u, r, c) = BlockedIn(v, q, c)
  PROVE  BlockedUnits(u, r) = BlockedUnits(v, q)
BY DEF BlockedUnits

(* Removing an entry moves the later ones up by one. *)
Shift(p) == [k \in Nat |-> IF k < p THEN k ELSE k + 1]

LEMMA RemoveShifts ==
  ASSUME NEW q \in Seq(Tasks), NEW p \in DOMAIN q
  PROVE  /\ RemoveAt(q, p) \in Seq(Tasks)
         /\ DOMAIN RemoveAt(q, p) \subseteq Nat
         /\ \A k \in DOMAIN RemoveAt(q, p) :
              Shift(p)[k] \in DOMAIN q \ {p} /\ RemoveAt(q, p)[k] = q[Shift(p)[k]]
         /\ \A i \in DOMAIN q \ {p} : \E k \in DOMAIN RemoveAt(q, p) : Shift(p)[k] = i
         /\ \A k, l \in DOMAIN RemoveAt(q, p) : Shift(p)[k] = Shift(p)[l] => k = l
<1> DEFINE a == SubSeq(q, 1, p - 1)
           b == SubSeq(q, p + 1, Len(q))
<1>1. Len(q) \in Nat /\ DOMAIN q = 1..Len(q) /\ p \in 1..Len(q)
  OBVIOUS
<1>2. a \in Seq(Tasks) /\ Len(a) = p - 1 /\ \A k \in 1..(p - 1) : a[k] = q[k]
  BY <1>1
<1>3. b \in Seq(Tasks) /\ Len(b) = Len(q) - p /\ \A k \in 1..(Len(q) - p) : b[k] = q[p + k]
  BY <1>1
<1>4. RemoveAt(q, p) = a \o b
  BY DEF RemoveAt
<1> HIDE DEF a, b
<1>5. a \o b \in Seq(Tasks) /\ DOMAIN (a \o b) = 1..(Len(q) - 1)
  <2>1. a \o b \in Seq(Tasks) /\ Len(a \o b) = Len(a) + Len(b)
    BY <1>2, <1>3, ConcatProperties
  <2>2. Len(a) + Len(b) = Len(q) - 1
    BY <1>1, <1>2, <1>3
  <2>3. DOMAIN (a \o b) = 1..Len(a \o b)
    BY <2>1
  <2> QED  BY <2>1, <2>2, <2>3
<1>6. \A k \in 1..(Len(q) - 1) : Shift(p)[k] = IF k < p THEN k ELSE k + 1
  BY <1>1 DEF Shift
<1>7. ASSUME NEW k \in 1..(Len(q) - 1)
      PROVE  Shift(p)[k] \in DOMAIN q \ {p} /\ (a \o b)[k] = q[Shift(p)[k]]
  <2>1. CASE k < p
    <3>1. k \in 1..(p - 1) /\ k \in DOMAIN q \ {p}
      BY <1>1, <2>1
    <3>2. (a \o b)[k] = a[k]
      BY <1>2, <1>3, <3>1, ConcatProperties
    <3> QED  BY <1>2, <1>6, <2>1, <3>1, <3>2
  <2>2. CASE k >= p
    <3>1. (a \o b)[k] = b[k - Len(a)]
      <4>1. k \in 1..(Len(a) + Len(b)) /\ ~(k <= Len(a))
        BY <1>1, <1>2, <1>3, <2>2
      <4> QED  BY <1>2, <1>3, <4>1, ConcatProperties
    <3>2. k - Len(a) \in 1..(Len(q) - p) /\ p + (k - Len(a)) = k + 1 /\ k + 1 \in DOMAIN q \ {p}
      BY <1>1, <1>2, <2>2
    <3>3. Shift(p)[k] = k + 1
      BY <1>1, <1>6, <2>2
    <3> QED  BY <1>3, <3>1, <3>2, <3>3
  <2>3. k < p \/ k >= p
    BY <1>1
  <2> QED  BY <2>1, <2>2, <2>3, Zenon
<1>8. ASSUME NEW i \in DOMAIN q \ {p} PROVE \E k \in 1..(Len(q) - 1) : Shift(p)[k] = i
  <2>1. CASE i < p
    <3>1. i \in 1..(Len(q) - 1) /\ Shift(p)[i] = i
      BY <1>1, <1>6, <2>1
    <3> QED  BY <3>1
  <2>2. CASE i > p
    <3>1. i - 1 \in 1..(Len(q) - 1) /\ Shift(p)[i - 1] = i
      BY <1>1, <1>6, <2>2
    <3> QED  BY <3>1
  <2> QED  BY <1>1, <2>1, <2>2
<1>9. \A k, l \in 1..(Len(q) - 1) : Shift(p)[k] = Shift(p)[l] => k = l
  BY <1>1, <1>6
<1> DEFINE r == a \o b
<1>10. r \in Seq(Tasks) /\ DOMAIN r = 1..(Len(q) - 1) /\ 1..(Len(q) - 1) \subseteq Nat
  BY <1>5
<1>11. RemoveAt(q, p) = r
  BY <1>4
<1>12. \A k \in DOMAIN r : Shift(p)[k] \in DOMAIN q \ {p} /\ r[k] = q[Shift(p)[k]]
  BY <1>7, <1>10
<1> HIDE DEF r
<1> QED  BY <1>8, <1>9, <1>10, <1>11, <1>12, Zenon

(* What a start leaves: the entry p is gone and its task holds its column. *)
Started(v, q, p, u, r) ==
  /\ u = [v EXCEPT !.holders = v.holders \cup {q[p]}]
  /\ r = RemoveAt(q, p)

(* A start keeps a board of tasks that hold no slot, each queued once, *)
LEMMA StartKeepsTheBoard ==
  ASSUME NEW v, NEW q, BoardOK(v, q), NEW p \in DOMAIN q, NEW u, NEW r, Started(v, q, p, u, r)
  PROVE  BoardOK(u, r)
<1>1. v \in Views /\ q \in Seq(Tasks) /\ q[p] \in Tasks
  BY DEF BoardOK
<1>2. u \in Views /\ u.holders = v.holders \cup {q[p]}
  BY <1>1 DEF Started, Views
<1>3. /\ r \in Seq(Tasks)
      /\ \A k \in DOMAIN r : Shift(p)[k] \in DOMAIN q \ {p} /\ r[k] = q[Shift(p)[k]]
      /\ \A k, l \in DOMAIN r : Shift(p)[k] = Shift(p)[l] => k = l
  BY <1>1, RemoveShifts DEF Started
<1> QED  BY <1>2, <1>3 DEF BoardOK

(* ... takes its entry out of its own column's line and leaves the others as
   long as they were, *)
LEMMA StartShortensOneLine ==
  ASSUME NEW v, NEW q, BoardOK(v, q), NEW p \in DOMAIN q, NEW u, NEW r, Started(v, q, p, u, r),
         NEW c \in Columns
  PROVE  Cardinality(WaitingIn(u, r, c)) =
           IF p \in WaitingIn(v, q, c) THEN Cardinality(WaitingIn(v, q, c)) - 1
           ELSE Cardinality(WaitingIn(v, q, c))
<1> DEFINE A == WaitingIn(v, q, c) \ {p}
           B == WaitingIn(u, r, c)
           f == [k \in B |-> Shift(p)[k]]
<1>1. v \in Views /\ q \in Seq(Tasks)
  BY DEF BoardOK
<1>2. u.column = v.column /\ u.maxAgents = v.maxAgents
  BY <1>1 DEF Started, Views
<1>3. /\ \A k \in DOMAIN r : Shift(p)[k] \in DOMAIN q \ {p} /\ r[k] = q[Shift(p)[k]]
      /\ \A i \in DOMAIN q \ {p} : \E k \in DOMAIN r : Shift(p)[k] = i
      /\ \A k, l \in DOMAIN r : Shift(p)[k] = Shift(p)[l] => k = l
  BY <1>1, RemoveShifts DEF Started
<1>4. \A t : Capped(u, t) <=> Capped(v, t)
  BY <1>2 DEF Capped
<1>5. B \subseteq DOMAIN r /\ \A k \in DOMAIN r : k \in B <=> Shift(p)[k] \in A
  BY <1>2, <1>3, <1>4 DEF WaitingIn
<1>6. A \subseteq DOMAIN q \ {p}
  BY DEF WaitingIn
<1> HIDE DEF A, B
<1>7. f \in Bijection(B, A)
  <2>1. f \in [B -> A]
    BY <1>5
  <2>2. \A k, l \in B : f[k] = f[l] => k = l
    BY <1>3, <1>5
  <2>3. \A i \in A : \E k \in B : f[k] = i
    BY <1>3, <1>5, <1>6
  <2> HIDE DEF f
  <2> QED  BY <2>1, <2>2, <2>3 DEF Bijection, Injection, Surjection, IsInjective
<1>8. /\ IsFiniteSet(A)
      /\ Cardinality(A) = IF p \in WaitingIn(v, q, c) THEN Cardinality(WaitingIn(v, q, c)) - 1
                          ELSE Cardinality(WaitingIn(v, q, c))
  BY ColumnSets, FS_RemoveElement DEF A
<1>9. IsFiniteSet(B) /\ Cardinality(B) = Cardinality(A)
  <2>1. BoardOK(u, r)
    BY StartKeepsTheBoard
  <2>2. IsFiniteSet(B)
    BY <2>1, ColumnSets DEF B
  <2> QED  BY <1>7, <2>2, FS_Bijection DEF ExistsBijection
<1> QED  BY <1>8, <1>9 DEF B

(* ... and takes a place in that column. *)
LEMMA StartTakesOnePlace ==
  ASSUME NEW v, NEW q, BoardOK(v, q), NEW p \in DOMAIN q, NEW u, NEW r, Started(v, q, p, u, r),
         NEW c \in Columns
  PROVE  Cardinality(HoldingIn(u, c)) =
           IF p \in WaitingIn(v, q, c) THEN Cardinality(HoldingIn(v, c)) + 1
           ELSE Cardinality(HoldingIn(v, c))
<1>1. v \in Views /\ q[p] \notin v.holders
  BY DEF BoardOK
<1>2. u.column = v.column /\ u.maxAgents = v.maxAgents /\ u.holders = v.holders \cup {q[p]}
  BY <1>1 DEF Started, Views
<1>3. HoldingIn(u, c) = IF p \in WaitingIn(v, q, c) THEN HoldingIn(v, c) \cup {q[p]}
                        ELSE HoldingIn(v, c)
  BY <1>2 DEF HoldingIn, WaitingIn, Capped
<1>4. q[p] \notin HoldingIn(v, c)
  BY <1>1 DEF HoldingIn
<1> QED  BY <1>3, <1>4, ColumnSets, FS_AddElement

(* Starting an entry that may start blocks nothing and unblocks nothing. *)
LEMMA StartLeavesTheCount ==
  ASSUME NEW v, NEW q, BoardOK(v, q), NEW p \in DOMAIN q, Startable(v, q, p), NEW u, NEW r,
         Started(v, q, p, u, r)
  PROVE  CountBlocked(u, r) = CountBlocked(v, q)
<1>1. BoardOK(u, r)
  BY StartKeepsTheBoard
<1>2. u.maxAgents = v.maxAgents
  BY DEF BoardOK, Started, Views
<1>3. ASSUME NEW c \in Columns, v.maxAgents[c] # NoLimit
      PROVE  BlockedIn(u, r, c) = BlockedIn(v, q, c)
  <2> DEFINE W == Cardinality(WaitingIn(v, q, c))
             H == Cardinality(HoldingIn(v, c))
             m == v.maxAgents[c]
  <2>1. W \in Nat /\ H \in Nat /\ m \in Nat
    BY <1>3, ColumnSets
  <2>2. CASE p \notin WaitingIn(v, q, c)
    BY <1>2, <2>2, StartShortensOneLine, StartTakesOnePlace DEF BlockedIn
  <2>3. CASE p \in WaitingIn(v, q, c)
    <3>1. Capped(v, q[p]) /\ v.column[q[p]] = c
      BY <2>3 DEF WaitingIn
    <3>2. H < m
      BY <3>1, ColumnOf DEF Startable, HasRoom
    <3>3. W > 0
      <4>1. W # 0
        BY <2>3, ColumnSets, FS_EmptySet
      <4> QED  BY <2>1, <4>1
    <3>4. /\ Cardinality(WaitingIn(u, r, c)) = W - 1
          /\ Cardinality(HoldingIn(u, c)) = H + 1
      BY <2>3, StartShortensOneLine, StartTakesOnePlace
    <3>5. BlockedIn(u, r, c) = Minus(W - 1, Minus(m, H + 1))
      BY <1>2, <3>4 DEF BlockedIn
    <3>6. BlockedIn(v, q, c) = Minus(W, Minus(m, H))
      BY DEF BlockedIn
    <3> HIDE DEF W, H, m
    <3> QED  BY <2>1, <3>2, <3>3, <3>5, <3>6 DEF Minus
  <2> QED  BY <2>2, <2>3
<1>4. BlockedUnits(u, r) = BlockedUnits(v, q)
  BY <1>2, <1>3, SameUnits
<1> QED  BY <1>1, <1>4, CountIsByColumn

-----------------------------------------------------------------------------
(* The members of a set, numbered within their classes. *)
Class(g, s, c) == {i \in s : g[i] = c}
Tally(g, s) == {u \in Columns \X Nat : u[2] \in 1..Cardinality(Class(g, s, u[1]))}

(* There are as many numbers as members. *)
LEMMA TallyCounts ==
  ASSUME NEW S, IsFiniteSet(S), NEW g \in [S -> Columns]
  PROVE  IsFiniteSet(Tally(g, S)) /\ Cardinality(Tally(g, S)) = Cardinality(S)
<1> DEFINE Fits(s) == IsFiniteSet(Tally(g, s)) /\ Cardinality(Tally(g, s)) = Cardinality(s)
           Bad == {s \in SUBSET S : ~Fits(s)}
<1>1. SUFFICES Bad = {}
  OBVIOUS
<1>2. SUFFICES ASSUME Bad # {} PROVE FALSE
  OBVIOUS
<1>3. /\ IsWellFoundedOn(StrictSubsetOrdering(S), FiniteSubsetsOf(S))
      /\ Bad \subseteq FiniteSubsetsOf(S)
  BY FS_StrictSubsetOrderingWellFounded, FS_FiniteSubsetsOfFinite
<1>4. PICK s \in Bad : \A r \in Bad : ~(<<r, s>> \in StrictSubsetOrdering(S))
  <2> HIDE DEF Bad
  <2> QED  BY <1>2, <1>3, WFMin
<1>5. s \in SUBSET S /\ ~Fits(s) /\ IsFiniteSet(s)
  BY <1>4, FS_Subset
<1>6. CASE s = {}
  <2>1. \A c : Class(g, s, c) = {}
    BY <1>6 DEF Class
  <2>2. Tally(g, s) = {}
    <3>1. \A c : Cardinality(Class(g, s, c)) = 0
      BY <2>1, FS_EmptySet, Zenon
    <3>2. 1..0 = {}
      OBVIOUS
    <3>3. \A c : 1..Cardinality(Class(g, s, c)) = {}
      BY <3>1, <3>2, Zenon
    <3> QED  BY <3>3, Zenon DEF Tally
  <2>3. Fits(s)
    BY <1>6, <2>2, FS_EmptySet
  <2> HIDE DEF Fits, Bad
  <2> QED  BY <1>5, <2>3
<1>7. CASE s # {}
  <2>1. PICK x \in s : TRUE
    BY <1>7
  <2> DEFINE r == s \ {x}
             n == Cardinality(Class(g, s, g[x]))
             last == <<g[x], n>>
  <2>2. r \in SUBSET S /\ <<r, s>> \in StrictSubsetOrdering(S) /\ g[x] \in Columns
    BY <1>5, <2>1 DEF StrictSubsetOrdering
  <2>3. Fits(r)
    <3> HIDE DEF Fits, r
    <3> QED  BY <1>4, <2>2
  <2>4. IsFiniteSet(r) /\ Cardinality(s) = Cardinality(r) + 1 /\ Cardinality(r) \in Nat
    <3>1. IsFiniteSet(r) /\ Cardinality(r) = Cardinality(s) - 1 /\ Cardinality(s) \in Nat
      BY <1>5, <2>1, FS_RemoveElement, FS_CardinalityType
    <3>2. Cardinality(r) \in Nat
      BY <3>1, FS_CardinalityType
    <3> QED  BY <3>1, <3>2
  <2>5. ASSUME NEW c \in Columns, c # g[x]
        PROVE  Class(g, s, c) = Class(g, r, c)
    BY <2>5 DEF Class
  <2>6. /\ Class(g, r, g[x]) = Class(g, s, g[x]) \ {x} /\ x \in Class(g, s, g[x])
        /\ IsFiniteSet(Class(g, s, g[x]))
    <3>1. Class(g, s, g[x]) \in SUBSET s
      BY DEF Class
    <3>2. IsFiniteSet(Class(g, s, g[x]))
      BY <1>5, <3>1, FS_Subset
    <3> QED  BY <2>1, <3>2 DEF Class
  <2>7. n \in Nat /\ n > 0 /\ Cardinality(Class(g, r, g[x])) = n - 1
    <3>1. n \in Nat
      BY <2>6, FS_CardinalityType
    <3> DEFINE K == Class(g, s, g[x])
    <3> HIDE DEF K
    <3>3. Cardinality(K \ {x}) = Cardinality(K) - 1
      BY <2>6, FS_RemoveElement DEF K
    <3>4. Cardinality(Class(g, r, g[x])) = n - 1
      BY <2>6, <3>3 DEF K
    <3>2. n # 0
      BY <2>6, FS_EmptySet
    <3> QED  BY <3>1, <3>2, <3>4
  <2> HIDE DEF n, r
  <2>8. Tally(g, s) = Tally(g, r) \cup {last} /\ last \notin Tally(g, r)
    <3>1. ASSUME NEW u \in Columns \X Nat
          PROVE  u \in Tally(g, s) <=> u \in Tally(g, r) \/ u = last
      <4>1. u = <<u[1], u[2]>> /\ u[1] \in Columns /\ u[2] \in Nat
        OBVIOUS
      <4>2. CASE u[1] = g[x]
        <5>1. u \in Tally(g, s) <=> u[2] \in 1..n
          BY <4>2 DEF Tally, n
        <5>2. u \in Tally(g, r) <=> u[2] \in 1..(n - 1)
          BY <2>7, <4>2 DEF Tally
        <5>3. u = last <=> u[2] = n
          BY <4>1, <4>2
        <5>4. u[2] \in 1..n <=> u[2] \in 1..(n - 1) \/ u[2] = n
          BY <2>7, <4>1
        <5> QED  BY <5>1, <5>2, <5>3, <5>4
      <4>3. CASE u[1] # g[x]
        <5>1. Class(g, s, u[1]) = Class(g, r, u[1])
          BY <2>5, <4>1, <4>3
        <5> QED  BY <4>1, <4>3, <5>1 DEF Tally
      <4> QED  BY <4>2, <4>3
    <3>2. last \in Columns \X Nat
      BY <2>2, <2>7
    <3>3. Tally(g, s) \subseteq Columns \X Nat /\ Tally(g, r) \subseteq Columns \X Nat
      BY DEF Tally
    <3>4. last \notin Tally(g, r)
      <4>1. last[1] = g[x] /\ last[2] = n
        OBVIOUS
      <4> HIDE DEF last
      <4>2. ~(n \in 1..(n - 1))
        BY <2>7
      <4> QED  BY <2>7, <4>1, <4>2 DEF Tally
    <3> HIDE DEF last
    <3> QED  BY <3>1, <3>2, <3>3, <3>4
  <2>9. /\ IsFiniteSet(Tally(g, s))
        /\ Cardinality(Tally(g, s)) = Cardinality(Tally(g, r)) + 1
    <3> HIDE DEF last
    <3> QED  BY <2>3, <2>8, FS_AddElement
  <2> QED  BY <1>5, <2>3, <2>4, <2>9
<1> QED  BY <1>6, <1>7

(* Of a line that is not empty, somebody is the first. *)
LEMMA LineHasAFirst ==
  ASSUME NEW v, NEW q, BoardOK(v, q), NEW p \in DOMAIN q, Capped(v, q[p])
  PROVE  \E i \in WaitingWith(v, q, p) : FirstInLine(v, q, i)
<1> DEFINE n == Len(q)
           key == [i \in 1..n |-> v.entered[q[i]]]
           L == WaitingWith(v, q, p)
           ranks == {Place(key)[i] : i \in L}
<1>1. /\ n \in Nat /\ DOMAIN q = 1..n /\ v \in Views
      /\ \A i \in DOMAIN q : q[i] \in Tasks
  BY DEF BoardOK
<1>2. key \in [1..n -> Nat]
  BY <1>1, ViewIs
<1>3. L \subseteq 1..n /\ p \in L
  BY <1>1 DEF WaitingWith, SameColumn
<1>4. /\ Place(key) \in [1..n -> 1..n]
      /\ \A i, j \in 1..n : Before(key, i, j) => Place(key)[i] < Place(key)[j]
      /\ \A i, j \in 1..n : i = j \/ Before(key, i, j) \/ Before(key, j, i)
  <2> HIDE DEF key
  <2> QED  BY <1>1, <1>2, RanksFollowTheOrder
<1> HIDE DEF L
<1>5. ranks \in SUBSET (1..n) /\ ranks # {}
  BY <1>3, <1>4
<1>6. PICK m \in ranks : \A k \in ranks : m <= k
  <2> HIDE DEF ranks, n
  <2> QED  BY <1>1, <1>5, Least
<1>7. PICK i \in L : m = Place(key)[i]
  BY <1>6
<1>8. ASSUME NEW j \in L, j # i PROVE EntersFirst(v, q[i], i, q[j], j)
  <2>1. i \in 1..n /\ j \in 1..n /\ Place(key)[j] \in ranks
    BY <1>3
  <2>2. Place(key)[i] <= Place(key)[j] /\ Place(key)[i] \in 1..n /\ Place(key)[j] \in 1..n
    BY <1>4, <1>6, <1>7, <2>1
  <2>3. ~(Place(key)[j] < Place(key)[i])
    BY <2>2
  <2>4. Before(key, i, j)
    BY <1>4, <1>8, <2>1, <2>3
  <2> QED  BY <2>1, <2>4 DEF Before, EntersFirst
<1>9. FirstInLine(v, q, i)
  <2>1. \A j \in DOMAIN q : SameColumn(v, q[i], q[j]) => j \in L
    BY <1>3 DEF L, WaitingWith, SameColumn
  <2> QED  BY <1>8, <2>1 DEF FirstInLine
<1> QED  BY <1>9 DEF L

(* When nothing more can start, everything left is blocked. *)
LEMMA WhatIsLeftIsBlocked ==
  ASSUME NEW v, NEW q, BoardOK(v, q), Pick(v, q) = 0
  PROVE  Len(q) = CountBlocked(v, q)
<1> DEFINE D == DOMAIN q
           g == [i \in D |-> v.column[q[i]]]
<1>1. Len(q) \in Nat /\ D = 1..Len(q) /\ IsFiniteSet(D) /\ Cardinality(D) = Len(q)
  <2>1. Len(q) \in Nat /\ D = 1..Len(q)
    BY DEF BoardOK
  <2>2. IsFiniteSet(D) /\ Cardinality(D) = IF 1 > Len(q) THEN 0 ELSE Len(q) - 1 + 1
    BY <2>1, FS_Interval
  <2> QED  BY <2>1, <2>2
<1>2. ASSUME NEW p \in D PROVE ~Startable(v, q, p)
  <2> DEFINE S == {i \in D : Startable(v, q, i)}
  <2>1. SUFFICES ASSUME S # {} PROVE FALSE
    OBVIOUS
  <2>2. S \in SUBSET (1..Len(q))
    BY <1>1
  <2>3. \E i \in S : \A j \in S : i <= j
    <3> HIDE DEF S
    <3> QED  BY <1>1, <2>1, <2>2, Least
  <2>4. Pick(v, q) = CHOOSE i \in S : \A j \in S : i <= j
    BY <2>1 DEF Pick
  <2>5. Pick(v, q) \in S
    <3> HIDE DEF S
    <3> QED  BY <2>3, <2>4
  <2> QED  BY <1>1, <2>2, <2>5
<1>3. \A p \in D : Capped(v, q[p])
  BY <1>2 DEF Startable
<1>4. g \in [D -> Columns]
  BY <1>3, ColumnOf
<1>5. ASSUME NEW c \in Columns
      PROVE  /\ Class(g, D, c) = WaitingIn(v, q, c)
             /\ v.maxAgents[c] = NoLimit => WaitingIn(v, q, c) = {}
  BY <1>3 DEF Class, WaitingIn, Capped
<1>6. ASSUME NEW c \in Columns, v.maxAgents[c] # NoLimit
      PROVE  BlockedIn(v, q, c) = Cardinality(WaitingIn(v, q, c))
  <2> DEFINE W == Cardinality(WaitingIn(v, q, c))
             H == Cardinality(HoldingIn(v, c))
             m == v.maxAgents[c]
  <2>1. W \in Nat /\ H \in Nat /\ m \in Nat /\ BlockedIn(v, q, c) = Minus(W, Minus(m, H))
    BY <1>6, ColumnSets DEF BlockedIn
  <2>2. CASE WaitingIn(v, q, c) = {}
    <3>1. W = 0
      BY <2>2, FS_EmptySet
    <3> HIDE DEF W, H, m
    <3>2. Minus(W, Minus(m, H)) = 0
      BY <2>1, <3>1 DEF Minus
    <3> QED  BY <2>1, <3>1, <3>2 DEF W
  <2>3. CASE WaitingIn(v, q, c) # {}
    <3>1. PICK p \in D : Capped(v, q[p]) /\ v.column[q[p]] = c
      BY <2>3 DEF WaitingIn
    <3>2. PICK i \in WaitingWith(v, q, p) : FirstInLine(v, q, i)
      BY <3>1, LineHasAFirst
    <3>3. i \in D /\ Capped(v, q[i]) /\ v.column[q[i]] = c
      BY <3>1, <3>2 DEF WaitingWith, SameColumn
    <3>4. ~HasRoom(v, q[i])
      BY <1>2, <3>2, <3>3 DEF Startable
    <3>5. ~(H < m)
      BY <3>3, <3>4, ColumnOf DEF HasRoom
    <3> HIDE DEF W, H, m
    <3>6. Minus(W, Minus(m, H)) = W
      BY <2>1, <3>5 DEF Minus
    <3> QED  BY <2>1, <3>6 DEF W
  <2> QED  BY <2>2, <2>3
<1>7. BlockedUnits(v, q) = Tally(g, D)
  <2>1. ASSUME NEW c \in Columns, NEW k \in Nat
        PROVE  (v.maxAgents[c] # NoLimit /\ k \in 1..BlockedIn(v, q, c))
                 <=> k \in 1..Cardinality(Class(g, D, c))
    <3>1. CASE v.maxAgents[c] # NoLimit
      BY <1>5, <1>6, <3>1
    <3>2. CASE v.maxAgents[c] = NoLimit
      <4>1. Cardinality(Class(g, D, c)) = 0
        BY <1>5, <3>2, FS_EmptySet
      <4> QED  BY <3>2, <4>1
    <3> QED  BY <3>1, <3>2
  <2> HIDE DEF g, D
  <2> QED  BY <2>1 DEF BlockedUnits, Tally
<1>8. Cardinality(Tally(g, D)) = Cardinality(D)
  <2> HIDE DEF g, D
  <2> QED  BY <1>1, <1>4, TallyCounts
<1> QED  BY <1>1, <1>7, <1>8, CountIsByColumn

-----------------------------------------------------------------------------
(* A further start of t waits at the end of its column's line, *)
LEMMA ArrivalKeepsTheBoard ==
  ASSUME NEW v, NEW q, BoardOK(v, q), NEW t \in Tasks, t \notin v.holders, t \notin ToSet(q)
  PROVE  BoardOK(v, Append(q, t))
<1> DEFINE a == Append(q, t)
           n == Len(q) + 1
<1>1. /\ Len(q) \in Nat /\ DOMAIN q = 1..Len(q) /\ DOMAIN a = 1..n /\ a[n] = t
      /\ a \in Seq(Tasks) /\ \A i \in DOMAIN q : a[i] = q[i] /\ q[i] \in Tasks
  BY DEF BoardOK
<1>2. \A i \in DOMAIN q : q[i] # t
  BY DEF ToSet
<1>3. \A i \in DOMAIN a : i = n \/ i \in DOMAIN q
  BY <1>1
<1> HIDE DEF a
<1> QED  BY <1>1, <1>2, <1>3 DEF BoardOK, a

(* ... and lengthens that line alone, by one. *)
LEMMA ArrivalLengthensOneLine ==
  ASSUME NEW v, NEW q, BoardOK(v, q), NEW t \in Tasks, Capped(v, t), NEW c \in Columns
  PROVE  Cardinality(WaitingIn(v, Append(q, t), c)) =
           IF c = v.column[t] THEN Cardinality(WaitingIn(v, q, c)) + 1
           ELSE Cardinality(WaitingIn(v, q, c))
<1> DEFINE a == Append(q, t)
           n == Len(q) + 1
<1>1. /\ Len(q) \in Nat /\ DOMAIN q = 1..Len(q) /\ DOMAIN a = 1..n /\ a[n] = t
      /\ \A i \in DOMAIN q : a[i] = q[i]
  BY DEF BoardOK
<1>2. DOMAIN a = DOMAIN q \cup {n} /\ n \notin DOMAIN q
  BY <1>1
<1> HIDE DEF a, n
<1>3. WaitingIn(v, a, c) = IF c = v.column[t] THEN WaitingIn(v, q, c) \cup {n}
                           ELSE WaitingIn(v, q, c)
  BY <1>1, <1>2 DEF WaitingIn
<1>4. n \notin WaitingIn(v, q, c)
  BY <1>2 DEF WaitingIn
<1> QED  BY <1>3, <1>4, ColumnSets, FS_AddElement DEF a

(* The places of a column that are taken: by the agents that hold it and the
   tasks that wait there. *)
LEMMA ClaimedIn ==
  ASSUME NEW v, NEW q, BoardOK(v, q), NEW c \in Columns, v.maxAgents[c] # NoLimit
  PROVE  Cardinality({u \in (v.holders \cup ToSet(q)) \ Exempt : v.column[u] = c}) =
           Cardinality(HoldingIn(v, c)) + Cardinality(WaitingIn(v, q, c))
<1> DEFINE H == HoldingIn(v, c)
           W == WaitingIn(v, q, c)
           T == {q[i] : i \in W}
           f == [i \in W |-> q[i]]
<1>1. /\ IsFiniteSet(W) /\ Cardinality(W) \in Nat /\ IsFiniteSet(H) /\ Cardinality(H) \in Nat
      /\ W \subseteq DOMAIN q
  BY ColumnSets DEF WaitingIn
<1>2. {u \in (v.holders \cup ToSet(q)) \ Exempt : v.column[u] = c} = H \cup T
  BY DEF HoldingIn, WaitingIn, Capped, ToSet
<1>3. H \cap T = {}
  BY DEF HoldingIn, WaitingIn, BoardOK
<1>4. IsFiniteSet(T) /\ Cardinality(T) = Cardinality(W)
  <2>1. f \in [W -> T] /\ \A u \in T : \E i \in W : f[i] = u
    OBVIOUS
  <2>2. \A i, j \in W : f[i] = f[j] => i = j
    BY <1>1 DEF BoardOK
  <2> HIDE DEF f, W, T
  <2>3. f \in Bijection(W, T)
    BY <2>1, <2>2 DEF Bijection, Injection, Surjection, IsInjective
  <2> QED  BY <1>1, <2>3, FS_Bijection DEF ExistsBijection
<1> HIDE DEF H, W, T
<1>5. Cardinality(H \cup T) = Cardinality(H) + Cardinality(T) - Cardinality(H \cap T)
  BY <1>1, <1>4, FS_Union
<1>6. Cardinality(H \cap T) = 0
  BY <1>3, FS_EmptySet
<1>7. Cardinality(H \cup T) = Cardinality(H) + Cardinality(W)
  BY <1>1, <1>4, <1>5, <1>6
<1> QED  BY <1>2, <1>7 DEF H, W

(* A further start in a column ends up blocked exactly when the column
   reported no room. *)
LEMMA RoomDecides ==
  ASSUME NEW v, NEW q, BoardOK(v, q), NEW t \in Tasks, t \notin v.holders, t \notin ToSet(q),
         Capped(v, t)
  PROVE  CountBlocked(v, Append(q, t)) =
           CountBlocked(v, q)
             + (IF ColumnRoom(v, v.column[t], v.holders \cup ToSet(q)) > 0 THEN 0 ELSE 1)
<1> DEFINE a == Append(q, t)
           c == v.column[t]
           W == Cardinality(WaitingIn(v, q, c))
           H == Cardinality(HoldingIn(v, c))
           m == v.maxAgents[c]
           n == BlockedIn(v, q, c)
           room == ColumnRoom(v, c, v.holders \cup ToSet(q))
<1>1. BoardOK(v, a)
  BY ArrivalKeepsTheBoard
<1>2. c \in Columns /\ m # NoLimit
  BY DEF BoardOK, Views, Capped
<1>3. /\ W \in Nat /\ H \in Nat /\ m \in Nat /\ n = Minus(W, Minus(m, H))
      /\ room = Minus(m, H + W)
  BY <1>2, ColumnSets, ClaimedIn DEF BlockedIn, ColumnRoom
<1>4. BlockedIn(v, a, c) = Minus(W + 1, Minus(m, H))
  BY <1>2, ArrivalLengthensOneLine DEF BlockedIn
<1>5. \A d \in Columns : d # c => BlockedIn(v, a, d) = BlockedIn(v, q, d)
  BY ArrivalLengthensOneLine DEF BlockedIn
<1>6. n \in Nat /\ BlockedIn(v, a, c) = n + (IF room > 0 THEN 0 ELSE 1)
  <2> HIDE DEF W, H, m, n, room, c, a
  <2> QED  BY <1>3, <1>4 DEF Minus
<1>7. IsFiniteSet(BlockedUnits(v, q)) /\ Cardinality(BlockedUnits(v, q)) \in Nat
  BY CountIsByColumn, FS_CardinalityType
<1>8. CASE room > 0
  <2>1. \A d \in Columns : BlockedIn(v, a, d) = BlockedIn(v, q, d)
    BY <1>5, <1>6, <1>8
  <2>2. BlockedUnits(v, a) = BlockedUnits(v, q)
    <3> HIDE DEF a
    <3> QED  BY <2>1, SameUnits
  <2> QED  BY <1>1, <1>7, <1>8, <2>2, CountIsByColumn
<1>9. CASE ~(room > 0)
  <2> DEFINE last == <<c, n + 1>>
  <2>1. BlockedIn(v, a, c) = n + 1
    BY <1>6, <1>9
  <2>2. ASSUME NEW u \in Columns \X Nat
        PROVE  u \in BlockedUnits(v, a) <=> u \in BlockedUnits(v, q) \/ u = last
    <3>1. u = <<u[1], u[2]>> /\ u[1] \in Columns /\ u[2] \in Nat
      OBVIOUS
    <3>2. CASE u[1] = c
      <4>1. u \in BlockedUnits(v, a) <=> u[2] \in 1..(n + 1)
        BY <1>2, <2>1, <3>2 DEF BlockedUnits
      <4>2. u \in BlockedUnits(v, q) <=> u[2] \in 1..n
        BY <1>2, <3>2 DEF BlockedUnits
      <4>3. u = last <=> u[2] = n + 1
        BY <3>1, <3>2
      <4>4. u[2] \in 1..(n + 1) <=> u[2] \in 1..n \/ u[2] = n + 1
        BY <1>6, <3>1
      <4> QED  BY <4>1, <4>2, <4>3, <4>4
    <3>3. CASE u[1] # c
      <4>1. BlockedIn(v, a, u[1]) = BlockedIn(v, q, u[1])
        BY <1>5, <3>1, <3>3
      <4> HIDE DEF c, a
      <4> QED  BY <3>1, <3>3, <4>1 DEF BlockedUnits
    <3> QED  BY <3>2, <3>3
  <2>3. last \in Columns \X Nat
    BY <1>2, <1>6
  <2>4. last \notin BlockedUnits(v, q)
    <3>1. last[1] = c /\ last[2] = n + 1 /\ ~(n + 1 \in 1..n)
      BY <1>6
    <3> HIDE DEF last
    <3> QED  BY <3>1 DEF BlockedUnits
  <2>5. BlockedUnits(v, a) \subseteq Columns \X Nat /\ BlockedUnits(v, q) \subseteq Columns \X Nat
    BY DEF BlockedUnits
  <2> HIDE DEF last, a
  <2>6. BlockedUnits(v, a) = BlockedUnits(v, q) \cup {last}
    BY <2>2, <2>3, <2>5
  <2>7. Cardinality(BlockedUnits(v, a)) = Cardinality(BlockedUnits(v, q)) + 1
    BY <1>7, <2>4, <2>6, FS_AddElement
  <2> QED  BY <1>1, <1>7, <1>9, <2>7, CountIsByColumn DEF a
<1> QED  BY <1>8, <1>9

-----------------------------------------------------------------------------
(* The steps. *)
LEMMA GateInit == Init => GateInv
<1> SUFFICES ASSUME Init PROVE GateInv
  OBVIOUS
<1>1. view \in Views /\ view.kept = {}
  BY BoardAssumption DEF Init, Views
<1>2. PICK S \in SUBSET (Tasks \ view.holders) : queue \in SetToSeqs(S)
  BY DEF Init
<1>3. IsFiniteSet(S) /\ Cardinality(S) \in Nat
  BY GateAssumption, FS_Subset, FS_CardinalityType
<1>4. queue \in [1..Cardinality(S) -> S] /\ \A i, j \in DOMAIN queue : queue[i] = queue[j] => i = j
  BY <1>2 DEF SetToSeqs
<1>5. queue \in Seq(Tasks)
  BY <1>3, <1>4
<1>6. /\ \A i, j \in DOMAIN queue : queue[i] = queue[j] => i = j
      /\ \A i \in DOMAIN queue : queue[i] \notin view.holders
  BY <1>4
<1> QED  BY <1>1, <1>5, <1>6 DEF GateInv, BoardOK

(* A start. *)
LEMMA StartIs ==
  ASSUME GateInv, Start
  PROVE  \E p \in DOMAIN queue :
           /\ Startable(view, queue, p) /\ queue[p] \in Tasks
           /\ Started(view, queue, p, view', queue')
<1>1. Pick(view, queue) \in DOMAIN queue /\ Startable(view, queue, Pick(view, queue))
  BY PickIs DEF GateInv, BoardOK, Start
<1>2. \A p \in DOMAIN queue : queue[p] \in Tasks
  BY DEF GateInv, BoardOK
<1> QED  BY <1>1, <1>2 DEF Start, Started

(* Every step keeps the invariant. *)
LEMMA GateNext == GateInv /\ [Next]_vars => GateInv'
<1> SUFFICES ASSUME GateInv, [Next]_vars PROVE GateInv'
  OBVIOUS
<1>1. CASE Start
  <2>1. PICK p \in DOMAIN queue : Started(view, queue, p, view', queue')
    BY <1>1, StartIs
  <2>2. BoardOK(view', queue')
    BY <2>1, StartKeepsTheBoard DEF GateInv
  <2>3. view'.kept = {}
    BY <2>1 DEF Started, GateInv, BoardOK, Views
  <2> QED  BY <2>2, <2>3 DEF GateInv, BoardOK
<1>2. CASE UNCHANGED vars
  BY <1>2 DEF GateInv, BoardOK, vars
<1> QED  BY <1>1, <1>2 DEF Next

-----------------------------------------------------------------------------
(* The queue stays one of tasks that hold no slot, each of them once, and the
   view one of the board. *)
THEOREM GateTypes == Spec => []GateInv
BY GateInit, GateNext, PTL DEF Spec

(* The gate for a new arrival, the pick from the queue and the order of a
   startup's batch agree about who is next, for any board and any queue. *)
THEOREM OrdersAlwaysAgree == Spec => []OrdersAgree
<1>1. GateInv => OrdersAgree
  <2> SUFFICES ASSUME GateInv PROVE OrdersAgree
    OBVIOUS
  <2>1. view \in Views /\ view.kept = {} /\ queue \in Seq(Tasks)
    BY DEF GateInv, BoardOK
  <2>2. AdmissionAgreesWithPick
    BY <2>1, ArrivalWaits DEF AdmissionAgreesWithPick
  <2>3. BatchOrderAgreesWithGate
    BY <2>1, BatchInOrder DEF BatchOrderAgreesWithGate
  <2> QED  BY <2>2, <2>3 DEF OrdersAgree
<1> QED  BY <1>1, GateTypes, PTL

(* What is counted as blocked, and what as room, is what the gate will do with
   it: when nothing more can start, everything left was counted, and a further
   start in a column is counted exactly when the column reported no room.  The
   workflow engine neither plans starts that cannot come nor leaves slots
   unused. *)
THEOREM BlockedIsExact == Spec => []BlockedCountIsExact
<1>1. GateInv => BlockedCountIsExact
  <2> SUFFICES ASSUME GateInv PROVE BlockedCountIsExact
    OBVIOUS
  <2>1. BoardOK(view, queue)
    BY DEF GateInv
  <2>2. DrainEndsBlocked
    BY <2>1, WhatIsLeftIsBlocked DEF DrainEndsBlocked
  <2>3. RoomIsExact
    BY <2>1, RoomDecides DEF RoomIsExact
  <2> QED  BY <2>2, <2>3 DEF BlockedCountIsExact
<1> QED  BY <1>1, GateTypes, PTL

(* Starting an entry that was not counted as blocked leaves the count alone. *)
THEOREM BlockedStaysTheSame == Spec => BlockedIsStable
<1> DEFINE A == CountBlocked(view', queue') = CountBlocked(view, queue)
<1>1. GateInv /\ [Next]_vars => [A]_vars
  <2> SUFFICES ASSUME GateInv, Start PROVE A
    BY DEF Next
  <2>1. PICK p \in DOMAIN queue :
          Startable(view, queue, p) /\ Started(view, queue, p, view', queue')
    BY StartIs
  <2> QED  BY <2>1, StartLeavesTheCount DEF GateInv
<1>2. [][A]_vars <=> BlockedIsStable
  BY DEF BlockedIsStable
<1> QED  BY <1>1, <1>2, GateTypes, PTL DEF Spec
=============================================================================
