--------------------------- MODULE CountersProofs ---------------------------
(***************************************************************************)
(* That counter updates lose no increment and use no clock of a shard      *)
(* twice, for every set of updates, every set of columns and every history *)
(* of the schema.                                                          *)
(***************************************************************************)
EXTENDS Counters, WellFoundedInduction, SequenceTheorems, TLAPS

-----------------------------------------------------------------------------
(* Smallest elements, which take the place of induction. *)

(* A set of natural numbers that is not empty has a smallest element: what Min() chooses, *)
(* and what the lemmas on queues use in place of induction.                               *)
LEMMA LeastNat ==
  ASSUME NEW T \in SUBSET Nat, T # {}
  PROVE  \E m \in T : \A n \in T : m <= n
<1> DEFINE R == OpToRel(<, Nat)
<1>1. IsWellFoundedOn(R, Nat)
  BY NatLessThanWellFounded
<1> HIDE DEF R
<1>2. PICK m \in T : \A n \in T : ~(<<n, m>> \in R)
  BY Zenon, <1>1, WFMin
<1>3. ASSUME NEW n \in T PROVE m <= n
  <2>1. n < m => <<n, m>> \in R
    BY DEF R, OpToRel
  <2>2. ~(n < m)
    BY Zenon, <1>2, <2>1
  <2> QED
    BY <2>2
<1> QED
  BY Zenon, <1>3

(* Min() of a set of columns is its first one. *)
LEMMA MinIsFirst ==
  ASSUME NEW T \in SUBSET Nat, T # {}
  PROVE  Min(T) \in T /\ \A n \in T : Min(T) <= n
BY Zenon, LeastNat DEF Min

-----------------------------------------------------------------------------
(* The queue of a cell without one update. *)
KeptStep(f, q, u, k) ==
  IF k = 0 THEN <<>> ELSE IF q[k] = u THEN f[k - 1] ELSE Append(f[k - 1], q[k])
IsKept(f, q, u, m) == f = [k \in 0..m |-> KeptStep(f, q, u, k)]

(* The recursion of Others() defines a function. *)
LEMMA KeptExists ==
  ASSUME NEW S, NEW q \in Seq(S), NEW u, NEW n \in Nat, n <= Len(q)
  PROVE  \E f : IsKept(f, q, u, n)
<1> DEFINE Bad == {m \in Nat : m <= n /\ ~\E f : IsKept(f, q, u, m)}
<1>1. SUFFICES ASSUME Bad # {} PROVE FALSE
  <2>1. n \notin Bad
    BY Zenon, <1>1
  <2> QED
    BY <2>1
<1>2. PICK m \in Bad : \A k \in Bad : m <= k
  <2>1. Bad \in SUBSET Nat
    OBVIOUS
  <2> HIDE DEF Bad
  <2> QED
    BY Zenon, <1>1, <2>1, LeastNat
<1>3. CASE m = 0
  <2> DEFINE f == [k \in 0..0 |-> <<>>]
  <2>1. IsKept(f, q, u, 0)
    BY DEF IsKept, KeptStep
  <2> QED
    BY Zenon, <1>2, <1>3, <2>1
<1>4. CASE m # 0
  <2>1. m - 1 \in Nat /\ m - 1 <= n /\ m - 1 \notin Bad
    BY SMTT(30), <1>2, <1>4
  <2>2. PICK f : IsKept(f, q, u, m - 1)
    BY Zenon, <2>1
  <2> DEFINE g == [k \in 0..m |-> IF k = m THEN KeptStep(f, q, u, m) ELSE f[k]]
  <2>3. \A k \in 0..m - 1 : f[k] = KeptStep(f, q, u, k)
    BY SMTT(30), <2>2 DEF IsKept
  <2>4. ASSUME NEW k \in 0..m PROVE g[k] = KeptStep(g, q, u, k)
    <3>1. k # 0 => k - 1 \in 0..m /\ k - 1 # m /\ g[k - 1] = f[k - 1]
      BY <1>2
    <3>2. KeptStep(g, q, u, k) = KeptStep(f, q, u, k)
      BY <3>1 DEF KeptStep
    <3>3. k # m => g[k] = f[k] /\ k \in 0..m - 1
      BY <1>2
    <3> QED
      BY <2>3, <3>2, <3>3
  <2>5. IsKept(g, q, u, m)
    <3>1. g = [k \in 0..m |-> g[k]]
      OBVIOUS
    <3> HIDE DEF g
    <3> QED
      BY <2>4, <3>1 DEF IsKept
  <2> QED
    BY Zenon, <1>2, <2>5
<1> QED
  BY Zenon, <1>3, <1>4

(* What is kept of the first k entries of a queue: only others than u, none of them behind *)
(* the place it had, and all of them.                                                      *)
IsRest(r, q, u, k) ==
  /\ Len(r) <= k
  /\ \A j \in 1..Len(r) : r[j] # u /\ \E i \in 1..k : j <= i /\ q[i] = r[j]
  /\ \A i \in 1..k : q[i] # u => \E j \in 1..Len(r) : r[j] = q[i]

(* One more entry of a queue. *)
LEMMA RestGrows ==
  ASSUME NEW S, NEW q \in Seq(S), NEW u, NEW k \in 1..Len(q),
         NEW r \in Seq(S), IsRest(r, q, u, k - 1),
         NEW t, t = IF q[k] = u THEN r ELSE Append(r, q[k])
  PROVE  t \in Seq(S) /\ IsRest(t, q, u, k)
<1>1. CASE q[k] = u
  BY <1>1 DEF IsRest
<1>2. CASE q[k] # u
  <2>1. t = Append(r, q[k]) /\ q[k] \in S
    BY <1>2
  <2>2. t \in Seq(S) /\ Len(t) = Len(r) + 1 /\ t[Len(r) + 1] = q[k]
    BY <2>1
  <2>3. \A j \in 1..Len(r) : t[j] = r[j]
    BY <2>1
  <2>4. Len(t) <= k
    BY <2>2 DEF IsRest
  <2>5. ASSUME NEW j \in 1..Len(t) PROVE t[j] # u /\ \E i \in 1..k : j <= i /\ q[i] = t[j]
    <3>1. CASE j = Len(r) + 1
      BY <1>2, <2>2, <2>4, <3>1
    <3>2. CASE j # Len(r) + 1
      <4>1. j \in 1..Len(r)
        BY <2>2, <3>2
      <4> QED
        BY <2>3, <4>1 DEF IsRest
    <3> QED
      BY Zenon, <3>1, <3>2
  <2>6. ASSUME NEW i \in 1..k, q[i] # u PROVE \E j \in 1..Len(t) : t[j] = q[i]
    <3>1. CASE i = k
      BY <2>2, <3>1
    <3>2. CASE i # k
      <4>1. PICK j \in 1..Len(r) : r[j] = q[i]
        BY <2>6, <3>2 DEF IsRest
      <4> QED
        BY <2>2, <2>3, <4>1
    <3> QED
      BY Zenon, <3>1, <3>2
  <2> QED
    BY Zenon, <2>2, <2>4, <2>5, <2>6 DEF IsRest
<1> QED
  BY Zenon, <1>1, <1>2

(* What the recursion of Others() has kept of the first n entries. *)
LEMMA KeptIsRest ==
  ASSUME NEW S, NEW q \in Seq(S), NEW u, NEW f, IsKept(f, q, u, Len(q)),
         NEW n \in 0..Len(q)
  PROVE  f[n] \in Seq(S) /\ IsRest(f[n], q, u, n)
<1> DEFINE Good(k) == f[k] \in Seq(S) /\ IsRest(f[k], q, u, k)
           Bad == {k \in 0..Len(q) : ~Good(k)}
<1>1. SUFFICES ASSUME Bad # {} PROVE FALSE
  <2>1. n \notin Bad
    BY Zenon, <1>1
  <2> QED
    BY Zenon, <2>1
<1>2. PICK m \in Bad : \A k \in Bad : m <= k
  <2>1. Bad \in SUBSET Nat
    OBVIOUS
  <2> HIDE DEF Bad
  <2> QED
    BY Zenon, <1>1, <2>1, LeastNat
<1>3. f[m] = KeptStep(f, q, u, m)
  BY <1>2 DEF IsKept
<1>4. CASE m = 0
  <2>1. f[m] = <<>>
    BY <1>3, <1>4 DEF KeptStep
  <2>2. <<>> \in Seq(S) /\ IsRest(<<>>, q, u, 0)
    BY DEF IsRest
  <2> QED
    BY Zenon, <1>2, <1>4, <2>1, <2>2
<1>5. CASE m # 0
  <2>1. m - 1 \in 0..Len(q) /\ m \in 1..Len(q) /\ ~(m <= m - 1)
    BY <1>2, <1>5
  <2>2. Good(m - 1)
    BY Zenon, <1>2, <2>1
  <2>3. f[m] = IF q[m] = u THEN f[m - 1] ELSE Append(f[m - 1], q[m])
    BY Zenon, <1>3, <1>5 DEF KeptStep
  <2>4. Good(m)
    BY Zenon, <2>1, <2>2, <2>3, RestGrows
  <2> QED
    BY Zenon, <1>2, <2>4
<1> QED
  BY Zenon, <1>4, <1>5

(* What ~locked_cell() leaves of a queue (Others()). *)
LEMMA OthersIsRest ==
  ASSUME NEW S, NEW q \in Seq(S), NEW u
  PROVE  Others(q, u) \in Seq(S) /\ IsRest(Others(q, u), q, u, Len(q))
<1> DEFINE f == CHOOSE g : IsKept(g, q, u, Len(q))
<1>1. Len(q) \in Nat /\ Len(q) <= Len(q) /\ Len(q) \in 0..Len(q)
  OBVIOUS
<1>2. IsKept(f, q, u, Len(q))
  <2>1. \E g : IsKept(g, q, u, Len(q))
    BY Zenon, <1>1, KeptExists
  <2> QED
    BY Zenon, <2>1
<1>3. Others(q, u) = f[Len(q)]
  BY Zenon DEF Others, IsKept, KeptStep
<1> HIDE DEF f
<1>4. f[Len(q)] \in Seq(S) /\ IsRest(f[Len(q)], q, u, Len(q))
  BY Zenon, <1>1, <1>2, KeptIsRest
<1> QED
  BY Zenon, <1>3, <1>4

-----------------------------------------------------------------------------
(* Being in the queue of a cell, and being in it behind another one. *)
Has(q, w) == \E k \in 1..Len(q) : q[k] = w
Behind(q, w) == \E k \in 2..Len(q) : q[k] = w

(* Two updates that are in one queue and do not wait in it are one update: a cell lock *)
(* excludes.                                                                           *)
LEMMA OneHolder ==
  ASSUME NEW q \in Seq(Updates), NEW w, NEW x,
         Has(q, w), Has(q, x), ~Behind(q, w), ~Behind(q, x)
  PROVE  w = x
<1>1. PICK k \in 1..Len(q) : q[k] = w
  BY Zenon DEF Has
<1>2. PICK j \in 1..Len(q) : q[j] = x
  BY Zenon DEF Has
<1>3. k = 1
  BY <1>1 DEF Behind
<1>4. j = 1
  BY <1>2 DEF Behind
<1> QED
  BY Zenon, <1>1, <1>2, <1>3, <1>4

(* A cell without an entry has no holder. *)
LEMMA EmptyQueue ==
  ASSUME NEW w
  PROVE  ~Has(<<>>, w) /\ ~Behind(<<>>, w)
BY DEF Has, Behind

(* A cell_entry that lock_next() made has one holder. *)
LEMMA NewQueue ==
  ASSUME NEW u \in Updates, NEW w
  PROVE  /\ <<u>> \in Seq(Updates)
         /\ Has(<<u>>, w) <=> w = u
         /\ ~Behind(<<u>>, w)
BY DEF Has, Behind

(* A locker that waits comes last (cell_entry::lock()). *)
LEMMA LongerQueue ==
  ASSUME NEW q \in Seq(Updates), NEW u \in Updates, NEW w
  PROVE  /\ Append(q, u) \in Seq(Updates)
         /\ Has(Append(q, u), w) <=> (w = u \/ Has(q, w))
         /\ w # u => (Behind(Append(q, u), w) => Behind(q, w))
<1>1. /\ Append(q, u) \in Seq(Updates) /\ Len(Append(q, u)) = Len(q) + 1
      /\ Append(q, u)[Len(q) + 1] = u /\ Len(q) \in Nat
  OBVIOUS
<1>2. \A k \in 1..Len(q) : Append(q, u)[k] = q[k]
  OBVIOUS
<1> DEFINE t == Append(q, u)
<1> HIDE DEF t
<1>3. Has(t, w) <=> (w = u \/ Has(q, w))
  BY <1>1, <1>2 DEF Has, t
<1>4. w # u => (Behind(t, w) => Behind(q, w))
  BY <1>1, <1>2 DEF Behind, t
<1> QED
  BY Zenon, <1>1, <1>3, <1>4 DEF t

(* Without u, no one is further back than before (cell_entry::unlock()). *)
LEMMA ShorterQueue ==
  ASSUME NEW q \in Seq(Updates), NEW u, NEW w
  PROVE  /\ Others(q, u) \in Seq(Updates)
         /\ Has(Others(q, u), w) <=> (w # u /\ Has(q, w))
         /\ Behind(Others(q, u), w) => Behind(q, w)
<1>1. PICK r : r = Others(q, u)
  OBVIOUS
<1>2. r \in Seq(Updates) /\ IsRest(r, q, u, Len(q)) /\ Len(q) \in Nat
  BY Zenon, <1>1, OthersIsRest, LenProperties
<1>3. Has(r, w) <=> (w # u /\ Has(q, w))
  BY Zenon, <1>2 DEF Has, IsRest
<1>4. ASSUME Behind(r, w) PROVE Behind(q, w)
  <2>1. PICK k \in 2..Len(r) : r[k] = w
    BY Zenon, <1>4 DEF Behind
  <2>2. k \in 1..Len(r)
    BY <1>2, <2>1
  <2>3. PICK i \in 1..Len(q) : k <= i /\ q[i] = w
    BY Zenon, <1>2, <2>1, <2>2 DEF IsRest
  <2>4. i \in 2..Len(q)
    BY <1>2, <2>1, <2>3
  <2> QED
    BY Zenon, <2>3, <2>4 DEF Behind
<1> QED
  BY Zenon, <1>1, <1>2, <1>3, <1>4

-----------------------------------------------------------------------------
(* The ids of columns, and the two operations on the queues of a partition. *)
LEMMA IdTypes ==
  /\ \A v \in Versions : \A c \in Columns : IdOf[v][c] \in Ids
  /\ \A v \in Versions : \A c, d \in Columns : IdOf[v][c] = IdOf[v][d] => c = d
  /\ \A u \in Updates : CellsOf[u] \in SUBSET Columns
  /\ Columns \in SUBSET Nat
<1>1. Columns \in SUBSET Nat
  BY CountersAssumption
<1>2. \A u \in Updates : CellsOf[u] \in SUBSET Columns
  BY CountersAssumption
<1>3. \A v \in Versions : \A c \in Columns : IdOf[v][c] \in Ids
  <2>1. ASSUME NEW v \in Versions, NEW c \in Columns PROVE IdOf[v][c] \in {IdOf[v][d] : d \in Columns}
    BY Zenon
  <2>2. ASSUME NEW v \in Versions, NEW c \in Columns PROVE IdOf[v][c] \in Ids
    BY <2>1 DEF Ids
  <2> QED
    BY Zenon, <2>2
<1>4. ASSUME NEW v \in Versions, NEW c \in Columns, NEW d \in Columns, IdOf[v][c] = IdOf[v][d]
      PROVE  c = d
  <2>1. IdOf[v] \in [Columns -> Nat]
    BY CountersAssumption DEF Versions
  <2>2. (c < d => IdOf[v][c] < IdOf[v][d]) /\ (d < c => IdOf[v][d] < IdOf[v][c])
    BY Zenon, CountersAssumption
  <2>3. c \in Nat /\ d \in Nat /\ IdOf[v][c] \in Nat /\ IdOf[v][d] \in Nat
    BY Zenon, <1>1, <2>1
  <2> QED
    BY <1>4, <2>2, <2>3
<1> QED
  BY Zenon, <1>1, <1>2, <1>3, <1>4

(* partition_entry::upgrade() gives every column the queue that it had. *)
LEMMA UpgradeKeeps ==
  ASSUME NEW cs \in [Ids -> Seq(Updates)], NEW from \in Versions, NEW to \in Versions
  PROVE  /\ Upgraded(cs, from, to) \in [Ids -> Seq(Updates)]
         /\ \A c \in Columns : Upgraded(cs, from, to)[IdOf[to][c]] = cs[IdOf[from][c]]
         /\ \A i \in Ids : \/ Upgraded(cs, from, to)[i] = <<>>
                          \/ \E j \in Ids : Upgraded(cs, from, to)[i] = cs[j]
<1> DEFINE Col(i) == CHOOSE c \in Columns : IdOf[to][c] = i
           U == Upgraded(cs, from, to)
<1>1. ASSUME NEW c \in Columns PROVE Col(IdOf[to][c]) = c
  BY Zenon, IdTypes
<1>2. ASSUME NEW i \in Ids, \E c \in Columns : IdOf[to][c] = i
      PROVE  U[i] = cs[IdOf[from][Col(i)]] /\ IdOf[from][Col(i)] \in Ids
  <2>1. Col(i) \in Columns
    BY Zenon, <1>2
  <2>2. U[i] = cs[IdOf[from][Col(i)]]
    BY Zenon, <1>2 DEF Upgraded
  <2> HIDE DEF Col
  <2> QED
    BY Zenon, <2>1, <2>2, IdTypes
<1>3. ASSUME NEW i \in Ids, ~\E c \in Columns : IdOf[to][c] = i PROVE U[i] = <<>>
  BY Zenon, <1>3 DEF Upgraded
<1>4. ASSUME NEW i \in Ids PROVE U[i] = <<>> \/ \E j \in Ids : U[i] = cs[j]
  BY Zenon, <1>2, <1>3
<1>5. ASSUME NEW c \in Columns PROVE U[IdOf[to][c]] = cs[IdOf[from][c]]
  <2>1. IdOf[to][c] \in Ids
    BY Zenon, IdTypes
  <2>2. U[IdOf[to][c]] = cs[IdOf[from][Col(IdOf[to][c])]]
    BY Zenon, <1>2, <2>1
  <2> HIDE DEF Col
  <2> QED
    BY Zenon, <1>1, <2>2
<1>6. U \in [Ids -> Seq(Updates)]
  <2>1. ASSUME NEW i \in Ids PROVE U[i] \in Seq(Updates)
    <3>1. <<>> \in Seq(Updates)
      OBVIOUS
    <3> QED
      BY Zenon, <1>4, <3>1
  <2>2. U = [i \in Ids |-> U[i]]
    BY Zenon DEF Upgraded
  <2> HIDE DEF U
  <2> QED
    BY Zenon, <2>1, <2>2
<1> QED
  BY Zenon, <1>4, <1>5, <1>6

(* What lock_next() leaves, if n is what it returns: the others keep their places, and u is *)
(* in the queue of each cell that it came to, as the holder if it came to the last one.     *)
NextOK(cs, u, v, todo, n) ==
  /\ n.cells \in [Ids -> Seq(Updates)] /\ n.left \in SUBSET todo /\ n.pc \in {"locked", "locking"}
  /\ \A i \in Ids : \A w \in Updates :
       /\ Has(cs[i], w) => Has(n.cells[i], w)
       /\ w # u => (Has(n.cells[i], w) => Has(cs[i], w)) /\ (Behind(n.cells[i], w) => Behind(cs[i], w))
  /\ \A c \in todo \ n.left : Has(n.cells[IdOf[v][c]], u)
  /\ n.pc = "locked" => n.left = {} /\ \A i \in Ids : Behind(n.cells[i], u) => Behind(cs[i], u)

(* lock_next() does that. *)
LEMMA LockNextOK ==
  ASSUME NEW cs \in [Ids -> Seq(Updates)], NEW u \in Updates, NEW v \in Versions,
         NEW todo \in SUBSET Columns
  PROVE  NextOK(cs, u, v, todo, LockNext(cs, u, v, todo))
<1> DEFINE found == Found(cs, u, v, todo)
           first == Min(found)
           made  == {c \in todo : found # {} => c < first}
           rest  == {c \in todo : found # {} /\ c > first}
           new   == [i \in Ids |-> IF \E c \in made : IdOf[v][c] = i THEN <<u>>
                                   ELSE IF found # {} /\ IdOf[v][first] = i THEN Append(cs[i], u)
                                   ELSE cs[i]]
           n     == LockNext(cs, u, v, todo)
<1>1. n = [cells |-> new, left |-> rest, pc |-> IF found = {} THEN "locked" ELSE "locking"]
  BY Zenon DEF LockNext
<1>2. n.cells = new /\ n.left = rest /\ n.pc = IF found = {} THEN "locked" ELSE "locking"
  <2> HIDE DEF new, rest, found, n
  <2> QED
    BY <1>1
<1>3. found \in SUBSET todo /\ todo \in SUBSET Nat /\ found \in SUBSET Nat
  BY Zenon, IdTypes DEF Found
<1>4. found # {} => first \in found /\ \A c \in found : first <= c
  <2> HIDE DEF found
  <2> QED
    BY Zenon, <1>3, MinIsFirst
<1>5. ASSUME NEW c \in made PROVE cs[IdOf[v][c]] = <<>>
  <2>1. c \notin found
    <3> HIDE DEF found, first
    <3>1. c \in todo /\ (found # {} => c < first)
      BY Zenon
    <3>2. ASSUME c \in found PROVE FALSE
      <4>1. first <= c /\ c < first /\ first \in found
        BY Zenon, <1>4, <3>1, <3>2
      <4>2. first \in Nat /\ c \in Nat
        BY Zenon, <1>3, <3>2, <4>1
      <4> QED
        BY <4>1, <4>2
    <3> QED
      BY Zenon, <3>2
  <2> QED
    BY Zenon, <2>1 DEF Found
<1>6. ASSUME NEW i \in Ids
      PROVE  \/ new[i] = <<u>> /\ cs[i] = <<>> /\ \E c \in made : IdOf[v][c] = i
             \/ new[i] = Append(cs[i], u) /\ found # {} /\ IdOf[v][first] = i
             \/ new[i] = cs[i]
  <2> HIDE DEF found, first, made
  <2> QED
    BY Zenon, <1>5
<1>7. ASSUME NEW c \in todo \ rest PROVE c \in made \/ (found # {} /\ c = first)
  <2> HIDE DEF found, first
  <2>1. c \in todo /\ (found # {} => ~(c > first))
    BY Zenon
  <2>2. found # {} => c \in Nat /\ first \in Nat
    BY Zenon, <1>3, <1>4, <2>1
  <2>3. (found # {} => c < first) \/ (found # {} /\ c = first)
    BY <2>1, <2>2
  <2> QED
    BY Zenon, <2>1, <2>3
<1>8. ASSUME NEW i \in Ids PROVE (\E c \in made : IdOf[v][c] = i) => new[i] = <<u>>
  <2> HIDE DEF found, first, made
  <2> QED
    BY Zenon
<1>9. ASSUME NEW i \in Ids
      PROVE  (found # {} /\ IdOf[v][first] = i) => new[i] = <<u>> \/ new[i] = Append(cs[i], u)
  <2> HIDE DEF found, first, made
  <2> QED
    BY Zenon
<1>10. found = {} => rest = {}
  <2> HIDE DEF found, first
  <2> QED
    BY Zenon
<1>11. new = [i \in Ids |-> new[i]]
  <2> HIDE DEF found, first, made
  <2> QED
    BY Zenon
<1>12. rest \in SUBSET todo
  <2> HIDE DEF found, first
  <2> QED
    BY Zenon
<1> HIDE DEF found, first, made, rest, new, n
<1>13. n.cells \in [Ids -> Seq(Updates)]
  <2>1. ASSUME NEW i \in Ids PROVE new[i] \in Seq(Updates)
    <3>1. cs[i] \in Seq(Updates)
      BY Zenon
    <3>2. <<u>> \in Seq(Updates) /\ Append(cs[i], u) \in Seq(Updates)
      BY Zenon, <3>1, NewQueue, LongerQueue
    <3> QED
      BY Zenon, <1>6, <3>1, <3>2
  <2> QED
    BY Zenon, <1>2, <1>11, <2>1
<1>14. ASSUME NEW i \in Ids, NEW w \in Updates
       PROVE  /\ Has(cs[i], w) => Has(new[i], w)
              /\ w # u => (Has(new[i], w) => Has(cs[i], w)) /\ (Behind(new[i], w) => Behind(cs[i], w))
  <2>1. CASE new[i] = <<u>> /\ cs[i] = <<>>
    <3>1. ~Has(<<>>, w) /\ (Has(<<u>>, w) <=> w = u) /\ ~Behind(<<u>>, w)
      BY Zenon, NewQueue, EmptyQueue
    <3> QED
      BY Zenon, <2>1, <3>1
  <2>2. CASE new[i] = Append(cs[i], u)
    <3>1. cs[i] \in Seq(Updates)
      BY Zenon
    <3>2. /\ Has(Append(cs[i], u), w) <=> (w = u \/ Has(cs[i], w))
          /\ w # u => (Behind(Append(cs[i], u), w) => Behind(cs[i], w))
      BY Zenon, <3>1, LongerQueue
    <3> QED
      BY Zenon, <2>2, <3>2
  <2>3. CASE new[i] = cs[i]
    BY Zenon, <2>3
  <2> QED
    BY Zenon, <1>6, <2>1, <2>2, <2>3
<1>15. ASSUME NEW c \in todo \ rest PROVE Has(new[IdOf[v][c]], u)
  <2>1. IdOf[v][c] \in Ids /\ cs[IdOf[v][c]] \in Seq(Updates)
    BY Zenon, IdTypes
  <2>2. new[IdOf[v][c]] = <<u>> \/ new[IdOf[v][c]] = Append(cs[IdOf[v][c]], u)
    BY Zenon, <1>7, <1>8, <1>9, <2>1
  <2>3. Has(<<u>>, u) /\ Has(Append(cs[IdOf[v][c]], u), u)
    BY Zenon, <2>1, NewQueue, LongerQueue
  <2> QED
    BY Zenon, <2>2, <2>3
<1>16. ASSUME found = {}, NEW i \in Ids, Behind(new[i], u) PROVE Behind(cs[i], u)
  BY Zenon, <1>6, <1>16, NewQueue
<1>17. n.pc \in {"locked", "locking"} /\ (n.pc = "locked" => found = {})
  BY <1>2
<1> QED
  BY Zenon, <1>2, <1>10, <1>12, <1>13, <1>14, <1>15, <1>16, <1>17 DEF NextOK, n

-----------------------------------------------------------------------------
(* The invariants.  TypeOK comes in two parts, one for the locks and one for the data. *)
Ended == {"idle", "done", "failed"}
Owners == {"locked", "transformed", "logged"}

LockTypes ==
  /\ schema \in Versions /\ entry \in 1..schema
  /\ cells \in [Ids -> Seq(Updates)]
  /\ pc \in [Updates -> Ended \cup Owners \cup {"locking"}]
  /\ ver \in [Updates -> Versions]
  /\ left \in [Updates -> SUBSET Columns]
  /\ stale \in SUBSET Updates
  /\ \A w \in Updates : pc[w] \in Ended => \A i \in Ids : ~Has(cells[i], w)

DataTypes ==
  /\ shards \in [Updates -> [Columns -> Shard]]
  /\ mem \in [Columns -> Shard] /\ log \in [Columns -> Shard]
  /\ sent \in SUBSET (Columns \X Shard)
  /\ faults \in 0..MaxFaults /\ failed \in 0..faults
  /\ acked \in SUBSET Updates /\ hidden \in SUBSET Updates

(* An update is in the queue of every cell that its locker came to, and one that is past *)
(* its locker waits for nothing.                                                         *)
HoldInv(w) ==
  /\ pc[w] \notin Ended =>
       /\ left[w] \in SUBSET CellsOf[w]
       /\ \A c \in CellsOf[w] \ left[w] : Has(cells[IdOf[entry][c]], w)
  /\ pc[w] \in Owners => left[w] = {} /\ \A i \in Ids : ~Behind(cells[i], w)

LockInv == stale = {} => \A w \in Updates : HoldInv(w)

(* What the log holds of a column is as much as the memtable has or more.  Unless an      *)
(* update of it is between the two, its clock is not above the offset for failed updates. *)
ColumnInv(c) ==
  /\ mem[c].value \subseteq log[c].value
  /\ mem[c].clock <= log[c].clock
  /\ mem[c].clock = log[c].clock => mem[c].value = log[c].value
  /\ (\A w \in Updates : pc[w] = "logged" => c \notin CellsOf[w])
       => log[c].clock <= mem[c].clock + failed

(* The shards of an update are what it read with itself added, with clocks above all that *)
(* the log held.                                                                          *)
ShardInv(w) ==
  /\ \A c \in Columns \ CellsOf[w] : shards[w][c] = NoShard
  /\ \A c \in CellsOf[w] :
       /\ shards[w][c].value = mem[c].value \cup {w}
       /\ mem[c].clock < shards[w][c].clock
       /\ shards[w][c].clock <= mem[c].clock + failed + 1
       /\ pc[w] = "transformed" => log[c].clock < shards[w][c].clock
       /\ pc[w] = "logged" => log[c] = shards[w][c]

DataInv ==
  stale = {} /\ hidden = {} =>
    /\ \A c \in Columns : ColumnInv(c)
    /\ \A w \in Updates : pc[w] \in {"transformed", "logged"} => ShardInv(w)

CountersInv ==
  LockTypes /\ DataTypes /\ LockInv /\ DataInv /\ NoUpdateLost /\ ReplicasAgree

(* Two ways to say that an update is in a queue. *)
LEMMA RangeHas ==
  ASSUME NEW q \in Seq(Updates), NEW w
  PROVE  w \in Range(q) <=> Has(q, w)
<1>1. DOMAIN q = 1..Len(q)
  BY Zenon, LenProperties
<1> QED
  BY Zenon, <1>1 DEF Range, Has

(* The two parts are TypeOK. *)
LEMMA TypeParts == TypeOK <=> LockTypes /\ DataTypes
<1>1. ASSUME cells \in [Ids -> Seq(Updates)]
      PROVE  (\A w \in Updates : pc[w] \in Ended => ~\E i \in Ids : w \in Range(cells[i]))
               <=> (\A w \in Updates : pc[w] \in Ended => \A i \in Ids : ~Has(cells[i], w))
  BY Zenon, <1>1, RangeHas
<1>2. Ended \cup Owners \cup {"locking"}
        = {"idle", "locking", "locked", "transformed", "logged", "done", "failed"}
  BY Zenon DEF Ended, Owners
<1>3. Ended = {"idle", "done", "failed"}
  BY Zenon DEF Ended
<1> QED
  BY Zenon, <1>1, <1>2, <1>3 DEF TypeOK, LockTypes, DataTypes

(* A waiting update is behind another one in some queue. *)
LEMMA WaitingIsBehind ==
  ASSUME cells \in [Ids -> Seq(Updates)], NEW w
  PROVE  Waiting(w) <=> \E i \in Ids : Behind(cells[i], w)
<1>1. ASSUME NEW i \in Ids PROVE WaitsAt(w, i) <=> Behind(cells[i], w)
  <2>1. Behind(cells[i], w) => cells[i] # <<>>
    BY Zenon, EmptyQueue
  <2> QED
    BY Zenon, <2>1 DEF WaitsAt, Behind
<1> QED
  BY Zenon, <1>1 DEF Waiting

(* The invariant holds at the start. *)
LEMMA CountersInit == Init => CountersInv
<1> SUFFICES ASSUME Init PROVE CountersInv
  OBVIOUS
<1>1. 1 \in Versions /\ MaxFaults \in Nat
  BY CountersAssumption DEF Versions
<1>2. NoShard \in Shard /\ NoShards \in [Columns -> Shard]
  BY DEF NoShard, NoShards, Shard
<1>3. cells \in [Ids -> Seq(Updates)] /\ \A i \in Ids : cells[i] = <<>>
  BY DEF Init, NoCells
<1>4. \A w \in Updates : pc[w] = "idle"
  BY Zenon DEF Init
<1>5. pc \in [Updates -> Ended \cup Owners \cup {"locking"}]
  BY DEF Init, Ended, Owners
<1>6. LockTypes
  <2>1. schema \in Versions /\ entry \in 1..schema
    BY <1>1 DEF Init
  <2>2. ver \in [Updates -> Versions] /\ left \in [Updates -> SUBSET Columns] /\ stale \in SUBSET Updates
    BY Zenon, <1>1 DEF Init
  <2> QED
    BY Zenon, <1>3, <1>5, <2>1, <2>2, EmptyQueue DEF LockTypes
<1>7. DataTypes
  <2>1. shards \in [Updates -> [Columns -> Shard]] /\ mem \in [Columns -> Shard] /\ log \in [Columns -> Shard]
    BY Zenon, <1>2 DEF Init
  <2>2. faults \in 0..MaxFaults /\ failed \in 0..faults
    BY <1>1 DEF Init
  <2> QED
    BY Zenon, <2>1, <2>2 DEF DataTypes, Init
<1>8. LockInv
  BY <1>4 DEF LockInv, HoldInv, Ended, Owners
<1>9. DataInv
  <2>1. ASSUME NEW c \in Columns PROVE ColumnInv(c)
    <3>1. mem[c] = NoShard /\ log[c] = NoShard /\ failed = 0
      BY Zenon DEF Init, NoShards
    <3> QED
      BY <3>1 DEF ColumnInv, NoShard
  <2>2. \A w \in Updates : pc[w] \notin {"transformed", "logged"}
    BY <1>4
  <2> QED
    BY Zenon, <2>1, <2>2 DEF DataInv
<1>10. NoUpdateLost /\ ReplicasAgree
  BY Zenon DEF Init, NoUpdateLost, ReplicasAgree
<1> QED
  BY Zenon, <1>6, <1>7, <1>8, <1>9, <1>10 DEF CountersInv

-----------------------------------------------------------------------------
(* Steps of the locks. *)

(* The queues cs, keyed by the ids of version e, are those of the partition. *)
Moved(cs, e) ==
  \A w \in Updates :
    /\ \A c \in Columns : Has(cells[IdOf[entry][c]], w) => Has(cs[IdOf[e][c]], w)
    /\ \A i \in Ids : /\ Has(cs[i], w) => \E j \in Ids : Has(cells[j], w)
                      /\ Behind(cs[i], w) => \E j \in Ids : Behind(cells[j], w)

LockStep == LockTypes' /\ LockInv'

(* The versions up to that of the table exist. *)
LEMMA VersionTypes ==
  ASSUME LockTypes
  PROVE  entry \in Versions /\ schema \in Versions /\ 1..schema \in SUBSET Versions
<1>1. Versions = 1..Len(IdOf) /\ Len(IdOf) \in Nat
  BY Zenon, CountersAssumption, LenProperties DEF Versions
<1>2. schema \in Versions /\ entry \in 1..schema
  BY Zenon DEF LockTypes
<1> QED
  BY <1>1, <1>2

(* lock_next() from queues cs: new types, and no one else's locks are lost. *)
LEMMA LockerKeeps ==
  ASSUME LockTypes, LockInv, NEW u \in Updates, pc[u] \in {"idle", "locking"},
         NEW cs \in [Ids -> Seq(Updates)], NEW v \in Versions, NEW todo \in SUBSET Columns,
         Locker(cs, u, v, todo), entry' \in Versions, Moved(cs, entry'),
         schema' = schema, entry' \in 1..schema, ver' \in [Updates -> Versions],
         stale' \in SUBSET Updates,
         stale' = {} => stale = {} /\ todo \in SUBSET CellsOf[u] /\ (todo # {} => v = entry'),
         \A c \in CellsOf[u] \ todo : stale' = {} => Has(cs[IdOf[entry'][c]], u),
         \A i \in Ids : ~Behind(cells[i], u)
  PROVE  LockStep
<1>1. PICK n : n = LockNext(cs, u, v, todo)
  OBVIOUS
<1>4. NextOK(cs, u, v, todo, n)
  BY Zenon, <1>1, LockNextOK
<1>5. /\ n.cells \in [Ids -> Seq(Updates)] /\ n.left \in SUBSET todo /\ n.pc \in {"locked", "locking"}
      /\ \A c \in todo \ n.left : Has(n.cells[IdOf[v][c]], u)
      /\ n.pc = "locked" => n.left = {} /\ \A i \in Ids : Behind(n.cells[i], u) => Behind(cs[i], u)
  BY Zenon, <1>4 DEF NextOK
<1>6. \A i \in Ids : \A w \in Updates :
        /\ Has(cs[i], w) => Has(n.cells[i], w)
        /\ w # u => (Has(n.cells[i], w) => Has(cs[i], w)) /\ (Behind(n.cells[i], w) => Behind(cs[i], w))
  BY Zenon, <1>4 DEF NextOK
<1>7. cells' = n.cells /\ left' = [left EXCEPT ![u] = n.left] /\ pc' = [pc EXCEPT ![u] = n.pc]
  BY Zenon, <1>1 DEF Locker
<1>8. pc \in [Updates -> Ended \cup Owners \cup {"locking"}] /\ left \in [Updates -> SUBSET Columns]
  BY Zenon DEF LockTypes
<1>9. /\ pc'[u] = n.pc /\ left'[u] = n.left
      /\ \A w \in Updates \ {u} : pc'[w] = pc[w] /\ left'[w] = left[w]
  BY Zenon, <1>7, <1>8
<1>10. n.pc \in Owners \cup {"locking"} /\ n.pc \notin Ended /\ (n.pc \in Owners => n.pc = "locked")
  BY <1>5 DEF Owners, Ended
<1>11. LockTypes'
  <2>1. pc' \in [Updates -> Ended \cup Owners \cup {"locking"}]
    BY Zenon, <1>7, <1>8, <1>10
  <2>2. left' \in [Updates -> SUBSET Columns]
    BY Zenon, <1>5, <1>7, <1>8
  <2>3. ASSUME NEW w \in Updates, pc'[w] \in Ended, NEW i \in Ids PROVE ~Has(cells'[i], w)
    <3>1. w # u /\ pc[w] \in Ended
      BY Zenon, <1>9, <1>10, <2>3
    <3>2. \A j \in Ids : ~Has(cells[j], w)
      BY Zenon, <3>1 DEF LockTypes
    <3>3. ~Has(cs[i], w)
      BY Zenon, <3>2 DEF Moved
    <3> QED
      BY Zenon, <1>6, <1>7, <3>1, <3>3
  <2>4. schema' \in Versions /\ entry' \in 1..schema'
    BY Zenon DEF LockTypes
  <2> QED
    BY Zenon, <1>5, <1>7, <2>1, <2>2, <2>3, <2>4 DEF LockTypes
<1>12. ASSUME stale' = {}, NEW w \in Updates PROVE HoldInv(w)'
  <2>1. stale = {} /\ HoldInv(w)
    BY Zenon, <1>12 DEF LockInv
  <2>2. CellsOf[w] \in SUBSET Columns
    BY Zenon, IdTypes
  <2>3. CASE w = u
    <3>1. pc'[w] \in Owners => left'[w] = {} /\ \A i \in Ids : ~Behind(cells'[i], w)
      <4>1. \A i \in Ids : ~Behind(cs[i], u)
        BY Zenon DEF Moved
      <4> QED
        BY Zenon, <1>5, <1>7, <1>9, <1>10, <2>3, <4>1
    <3>2. ASSUME NEW c \in CellsOf[w] \ left'[w] PROVE Has(cells'[IdOf[entry'][c]], w)
      <4>1. CASE c \in todo
        <5>1. v = entry'
          BY Zenon, <1>12, <4>1
        <5> QED
          BY Zenon, <1>5, <1>7, <1>9, <2>3, <3>2, <4>1, <5>1
      <4>2. CASE c \notin todo
        <5>1. Has(cs[IdOf[entry'][c]], u)
          BY Zenon, <1>12, <2>3, <3>2, <4>2
        <5>2. IdOf[entry'][c] \in Ids
          BY Zenon, <2>2, <3>2, IdTypes
        <5> QED
          BY Zenon, <1>6, <1>7, <2>3, <5>1, <5>2
      <4> QED
        BY Zenon, <4>1, <4>2
    <3>3. left'[w] \in SUBSET CellsOf[w]
      BY Zenon, <1>5, <1>9, <1>12, <2>3
    <3> QED
      BY Zenon, <3>1, <3>2, <3>3 DEF HoldInv
  <2>4. CASE w # u
    <3>1. pc'[w] = pc[w] /\ left'[w] = left[w]
      BY Zenon, <1>9, <2>4
    <3>2. ASSUME NEW c \in Columns, Has(cells[IdOf[entry][c]], w) PROVE Has(cells'[IdOf[entry'][c]], w)
      <4>1. Has(cs[IdOf[entry'][c]], w) /\ IdOf[entry'][c] \in Ids
        BY Zenon, <3>2, IdTypes DEF Moved
      <4> QED
        BY Zenon, <1>6, <1>7, <4>1
    <3>3. ASSUME NEW i \in Ids, Behind(cells'[i], w) PROVE \E j \in Ids : Behind(cells[j], w)
      BY Zenon, <1>6, <1>7, <2>4, <3>3 DEF Moved
    <3>4. pc[w] \notin Ended => left[w] \in SUBSET CellsOf[w]
      BY Zenon, <2>1 DEF HoldInv
    <3>5. pc[w] \notin Ended => \A c \in CellsOf[w] \ left[w] : Has(cells[IdOf[entry][c]], w)
      BY Zenon, <2>1 DEF HoldInv
    <3>6. pc[w] \in Owners => left[w] = {} /\ \A i \in Ids : ~Behind(cells[i], w)
      BY Zenon, <2>1 DEF HoldInv
    <3> QED
      BY Zenon, <2>2, <3>1, <3>2, <3>3, <3>4, <3>5, <3>6 DEF HoldInv
  <2> QED
    BY Zenon, <2>3, <2>4
<1> QED
  BY Zenon, <1>11, <1>12 DEF LockStep, LockInv

(* lock_cells(), after the entries are upgraded. *)
LEMMA LockCellsKeeps ==
  ASSUME LockTypes, LockInv, NEW u \in Updates, LockCells(u)
  PROVE  LockStep
<1> DEFINE cs == Upgraded(cells, entry, schema)
<1>1. entry \in Versions /\ schema \in Versions /\ cells \in [Ids -> Seq(Updates)]
  BY Zenon, VersionTypes DEF LockTypes
<1>2. /\ cs \in [Ids -> Seq(Updates)]
      /\ \A c \in Columns : cs[IdOf[schema][c]] = cells[IdOf[entry][c]]
      /\ \A i \in Ids : cs[i] = <<>> \/ \E j \in Ids : cs[i] = cells[j]
  BY Zenon, <1>1, UpgradeKeeps
<1>3. /\ pc[u] = "idle" /\ entry' = schema /\ Locker(cs, u, schema, CellsOf[u])
      /\ ver' = [ver EXCEPT ![u] = schema] /\ schema' = schema /\ stale' = stale
  BY Zenon DEF LockCells
<1> HIDE DEF cs
<1>4. Moved(cs, schema)
  BY Zenon, <1>2, EmptyQueue DEF Moved
<1>5. ver' \in [Updates -> Versions] /\ stale' \in SUBSET Updates
  BY Zenon, <1>1, <1>3 DEF LockTypes
<1>6. schema \in 1..schema
  <2>1. entry \in 1..schema /\ schema \in Nat
    <3>1. Versions = 1..Len(IdOf)
      BY Zenon, CountersAssumption, LenProperties DEF Versions
    <3> QED
      BY <1>1, <3>1 DEF LockTypes
  <2> QED
    BY <2>1
<1>7. \A i \in Ids : ~Behind(cells[i], u)
  <2>1. ASSUME NEW i \in Ids, Behind(cells[i], u) PROVE Has(cells[i], u)
    BY <2>1 DEF Behind, Has
  <2>2. pc[u] \in Ended
    BY Zenon, <1>3 DEF Ended
  <2> QED
    BY Zenon, <2>1, <2>2 DEF LockTypes
<1>8. CellsOf[u] \in SUBSET Columns /\ CellsOf[u] \in SUBSET CellsOf[u] /\ \A c \in CellsOf[u] \ CellsOf[u] : FALSE
  BY Zenon, IdTypes
<1> QED
  BY Zenon, <1>1, <1>2, <1>3, <1>4, <1>5, <1>6, <1>7, <1>8, LockerKeeps

(* A locker that goes on, by the ids that are in use if stale stays empty. *)
LEMMA GrantedKeeps ==
  ASSUME LockTypes, LockInv, NEW u \in Updates, Granted(u)
  PROVE  LockStep
<1>1. entry \in Versions /\ schema \in Versions /\ cells \in [Ids -> Seq(Updates)]
  BY Zenon, VersionTypes DEF LockTypes
<1>2. /\ pc[u] = "locking" /\ ~Waiting(u) /\ Locker(cells, u, ver[u], left[u])
      /\ schema' = schema /\ entry' = entry /\ ver' = ver
      /\ stale' = IF left[u] # {} /\ ver[u] # entry THEN stale \cup {u} ELSE stale
  BY Zenon DEF Granted
<1>3. Moved(cells, entry)
  BY Zenon DEF Moved
<1>4. ver[u] \in Versions /\ stale' \in SUBSET Updates /\ entry \in 1..schema
  BY Zenon, <1>2 DEF LockTypes
<1>5. stale' = {} => stale = {} /\ (left[u] # {} => ver[u] = entry)
  BY Zenon, <1>2
<1>6. \A i \in Ids : ~Behind(cells[i], u)
  BY Zenon, <1>1, <1>2, WaitingIsBehind
<1>7. stale = {} => /\ left[u] \in SUBSET CellsOf[u]
                    /\ \A c \in CellsOf[u] \ left[u] : Has(cells[IdOf[entry][c]], u)
  <2>1. pc[u] \notin Ended
    BY <1>2 DEF Ended
  <2> QED
    BY Zenon, <2>1 DEF LockInv, HoldInv
<1>8. left[u] \in SUBSET Columns /\ ver' \in [Updates -> Versions]
  BY Zenon, <1>2 DEF LockTypes
<1> QED
  BY Zenon, <1>1, <1>2, <1>3, <1>4, <1>5, <1>6, <1>7, <1>8, LockerKeeps

(* An update that ends leaves every queue, and the others move up. *)
LEMMA LeaveKeeps ==
  ASSUME LockTypes, LockInv, NEW u \in Updates, NEW how \in {"done", "failed"}, Leave(u, how)
  PROVE  LockStep
<1>1. /\ cells \in [Ids -> Seq(Updates)] /\ left \in [Updates -> SUBSET Columns]
      /\ pc \in [Updates -> Ended \cup Owners \cup {"locking"}]
  BY Zenon DEF LockTypes
<1>2. /\ pc' = [pc EXCEPT ![u] = how] /\ cells' = [i \in Ids |-> Others(cells[i], u)]
      /\ left' = [left EXCEPT ![u] = {}]
      /\ schema' = schema /\ entry' = entry /\ ver' = ver /\ stale' = stale
  BY Zenon DEF Leave, Unlocked
<1>3. how \in Ended /\ how \notin Owners
  BY DEF Ended, Owners
<1>4. /\ pc'[u] = how /\ left'[u] = {}
      /\ \A w \in Updates \ {u} : pc'[w] = pc[w] /\ left'[w] = left[w]
  BY Zenon, <1>1, <1>2
<1>5. ASSUME NEW i \in Ids
      PROVE  /\ cells'[i] \in Seq(Updates)
             /\ \A w \in Updates : /\ Has(cells'[i], w) <=> (w # u /\ Has(cells[i], w))
                                   /\ Behind(cells'[i], w) => Behind(cells[i], w)
  <2>1. cells[i] \in Seq(Updates) /\ cells'[i] = Others(cells[i], u)
    BY Zenon, <1>1, <1>2
  <2>2. PICK q : q = cells[i]
    OBVIOUS
  <2>3. /\ Others(q, u) \in Seq(Updates)
        /\ \A w : /\ Has(Others(q, u), w) <=> (w # u /\ Has(q, w))
                  /\ Behind(Others(q, u), w) => Behind(q, w)
    <3>1. q \in Seq(Updates)
      BY Zenon, <2>1, <2>2
    <3> HIDE <2>2
    <3> QED
      BY Zenon, <3>1, ShorterQueue
  <2> QED
    BY Zenon, <2>1, <2>2, <2>3
<1>6. LockTypes'
  <2>1. cells' \in [Ids -> Seq(Updates)]
    BY Zenon, <1>2, <1>5
  <2>2. pc' \in [Updates -> Ended \cup Owners \cup {"locking"}] /\ left' \in [Updates -> SUBSET Columns]
    BY Zenon, <1>1, <1>2, <1>3
  <2>3. ASSUME NEW w \in Updates, pc'[w] \in Ended, NEW i \in Ids PROVE ~Has(cells'[i], w)
    BY Zenon, <1>4, <1>5, <2>3 DEF LockTypes
  <2> QED
    BY Zenon, <1>2, <2>1, <2>2, <2>3 DEF LockTypes
<1>7. ASSUME stale' = {}, NEW w \in Updates PROVE HoldInv(w)'
  <2>1. CASE w = u
    BY Zenon, <1>3, <1>4, <2>1 DEF HoldInv
  <2>2. CASE w # u
    <3>1. HoldInv(w) /\ pc'[w] = pc[w] /\ left'[w] = left[w]
      BY Zenon, <1>2, <1>4, <1>7, <2>2 DEF LockInv
    <3>2. ASSUME NEW c \in CellsOf[w], Has(cells[IdOf[entry][c]], w) PROVE Has(cells'[IdOf[entry'][c]], w)
      <4>1. IdOf[entry][c] \in Ids
        BY Zenon, IdTypes, VersionTypes
      <4> QED
        BY Zenon, <1>2, <1>5, <2>2, <3>2, <4>1
    <3> QED
      BY Zenon, <1>5, <3>1, <3>2 DEF HoldInv
  <2> QED
    BY Zenon, <2>1, <2>2
<1> QED
  BY Zenon, <1>6, <1>7 DEF LockStep, LockInv

(* An owner stays one. *)
LEMMA OwnerKeeps ==
  ASSUME LockTypes, LockInv, NEW u \in Updates, pc[u] \in Owners, NEW next \in Owners,
         pc' = [pc EXCEPT ![u] = next], UNCHANGED lockVars
  PROVE  LockStep
<1>1. /\ cells' = cells /\ left' = left /\ schema' = schema /\ entry' = entry /\ ver' = ver /\ stale' = stale
      /\ pc \in [Updates -> Ended \cup Owners \cup {"locking"}]
  BY Zenon DEF LockTypes, lockVars
<1>2. pc'[u] = next /\ \A w \in Updates \ {u} : pc'[w] = pc[w]
  BY Zenon, <1>1
<1>3. pc[u] \notin Ended /\ next \notin Ended
  BY DEF Ended, Owners
<1>4. LockTypes'
  <2>1. pc' \in [Updates -> Ended \cup Owners \cup {"locking"}]
    BY Zenon, <1>1
  <2>2. \A w \in Updates : pc'[w] \in Ended => pc[w] \in Ended
    BY Zenon, <1>2, <1>3
  <2> QED
    BY Zenon, <1>1, <2>1, <2>2 DEF LockTypes
<1>5. ASSUME stale' = {}, NEW w \in Updates PROVE HoldInv(w)'
  <2>1. HoldInv(w)
    BY Zenon, <1>1, <1>5 DEF LockInv
  <2>2. (pc'[w] \notin Ended => pc[w] \notin Ended) /\ (pc'[w] \in Owners => pc[w] \in Owners)
    BY Zenon, <1>2, <1>3
  <2> QED
    BY Zenon, <1>1, <2>1, <2>2 DEF HoldInv
<1> QED
  BY Zenon, <1>4, <1>5 DEF LockStep, LockInv

(* A crash leaves no locks. *)
LEMMA CrashKeeps ==
  ASSUME LockTypes, LockInv, Crash
  PROVE  LockStep
<1>1. /\ pc' = [u \in Updates |-> IF pc[u] \in {"idle", "done"} THEN pc[u] ELSE "failed"]
      /\ cells' = NoCells /\ left' = [u \in Updates |-> {}]
      /\ schema' = schema /\ entry' = entry /\ ver' = ver /\ stale' = stale
  BY Zenon DEF Crash
<1>2. \A w \in Updates : pc'[w] \in Ended /\ pc'[w] \notin Owners
  BY <1>1 DEF Ended, Owners
<1>3. LockTypes'
  <2>1. pc' \in [Updates -> Ended \cup Owners \cup {"locking"}] /\ left' \in [Updates -> SUBSET Columns]
    BY Zenon, <1>1, <1>2
  <2>2. cells' \in [Ids -> Seq(Updates)] /\ \A i \in Ids : cells'[i] = <<>>
    BY <1>1 DEF NoCells
  <2> QED
    BY Zenon, <1>1, <2>1, <2>2, EmptyQueue DEF LockTypes
<1>4. LockInv'
  BY Zenon, <1>2 DEF LockInv, HoldInv
<1> QED
  BY Zenon, <1>3, <1>4 DEF LockStep

(* A new schema touches no locks: the next lock_cells() upgrades them. *)
LEMMA SetSchemaKeeps ==
  ASSUME LockTypes, LockInv, SetSchema
  PROVE  LockStep
<1>1. /\ cells' = cells /\ left' = left /\ entry' = entry /\ ver' = ver /\ stale' = stale /\ pc' = pc
      /\ schema' = schema + 1 /\ schema' \in Versions
  BY Zenon DEF SetSchema
<1>2. entry' \in 1..schema'
  <2>1. Versions = 1..Len(IdOf)
    BY Zenon, CountersAssumption, LenProperties DEF Versions
  <2> QED
    BY <1>1, <2>1 DEF LockTypes
<1>3. LockTypes'
  BY Zenon, <1>1, <1>2 DEF LockTypes
<1>4. LockInv'
  BY Zenon, <1>1 DEF LockInv, HoldInv
<1> QED
  BY Zenon, <1>3, <1>4 DEF LockStep

-----------------------------------------------------------------------------
(* Steps of the data. *)
DataStep == DataTypes' /\ DataInv' /\ NoUpdateLost' /\ ReplicasAgree'

(* Two updates that are past their lockers have no column in common. *)
LEMMA OwnersExclude ==
  ASSUME LockTypes, LockInv, stale = {}, NEW w \in Updates, NEW x \in Updates,
         pc[w] \in Owners, pc[x] \in Owners, NEW c \in CellsOf[w], c \in CellsOf[x]
  PROVE  w = x
<1>1. HoldInv(w) /\ HoldInv(x)
  BY Zenon DEF LockInv
<1>2. pc[w] \notin Ended /\ pc[x] \notin Ended
  BY DEF Owners, Ended
<1>3. PICK i : i = IdOf[entry][c]
  OBVIOUS
<1>4. i \in Ids /\ cells[i] \in Seq(Updates)
  <2>1. c \in Columns /\ entry \in Versions
    BY Zenon, IdTypes, VersionTypes
  <2> QED
    BY Zenon, <1>3, <2>1, IdTypes DEF LockTypes
<1>5. Has(cells[i], w) /\ ~Behind(cells[i], w)
  BY Zenon, <1>1, <1>2, <1>3, <1>4 DEF HoldInv
<1>6. Has(cells[i], x) /\ ~Behind(cells[i], x)
  BY Zenon, <1>1, <1>2, <1>3, <1>4 DEF HoldInv
<1> QED
  BY Zenon, <1>4, <1>5, <1>6, OneHolder

(* Shards, and which of two a merge keeps. *)
LEMMA ShardTypes ==
  /\ NoShard \in Shard /\ NoShards \in [Columns -> Shard] /\ NoShard.clock = 0
  /\ \A x \in Shard : x.value \in SUBSET Updates /\ x.clock \in Nat
  /\ \A x, y \in Shard : x.value = y.value /\ x.clock = y.clock => x = y
  /\ \A x, y \in Shard : Merged(x, y) \in Shard
  /\ \A x \in Shard : Merged(x, NoShard) = x
<1>1. NoShard \in Shard /\ NoShards \in [Columns -> Shard] /\ NoShard.clock = 0
  BY DEF NoShard, NoShards, Shard
<1>2. \A x \in Shard : x.value \in SUBSET Updates /\ x.clock \in Nat
  BY DEF Shard
<1>3. \A x, y \in Shard : x.value = y.value /\ x.clock = y.clock => x = y
  BY DEF Shard
<1>4. \A x, y \in Shard : Merged(x, y) \in Shard
  BY Zenon DEF Merged
<1>5. \A x \in Shard : Merged(x, NoShard) = x
  BY <1>1, <1>2 DEF Merged
<1> QED
  BY Zenon, <1>1, <1>2, <1>3, <1>4, <1>5

(* Steps that change no data, and take no update between its read and its write. *)
LEMMA NoDataKeeps ==
  ASSUME DataTypes, DataInv, NoUpdateLost, ReplicasAgree,
         mem' = mem, log' = log, failed' = failed, sent' = sent, acked' = acked, hidden' = hidden,
         shards' \in [Updates -> [Columns -> Shard]],
         faults' \in 0..MaxFaults, failed \in 0..faults', stale' = {} => stale = {},
         \A w \in Updates : pc'[w] = "logged" <=> pc[w] = "logged",
         \A w \in Updates : pc'[w] = "transformed" => pc[w] = "transformed",
         \A w \in Updates : pc'[w] \in {"transformed", "logged"} => shards'[w] = shards[w]
  PROVE  DataStep
<1>1. DataTypes'
  BY Zenon DEF DataTypes
<1>2. ASSUME stale' = {} /\ hidden' = {}, NEW c \in Columns PROVE ColumnInv(c)'
  <2>1. ColumnInv(c)
    BY Zenon, <1>2 DEF DataInv
  <2> QED
    BY Zenon, <2>1 DEF ColumnInv
<1>3. ASSUME stale' = {} /\ hidden' = {}, NEW w \in Updates, pc'[w] \in {"transformed", "logged"}
      PROVE  ShardInv(w)'
  <2>1. pc[w] \in {"transformed", "logged"}
    BY Zenon, <1>3
  <2>2. ShardInv(w) /\ shards'[w] = shards[w]
    BY Zenon, <1>3, <2>1 DEF DataInv
  <2> QED
    BY Zenon, <2>2 DEF ShardInv
<1>4. DataInv'
  BY Zenon, <1>2, <1>3 DEF DataInv
<1>5. NoUpdateLost'
  BY Zenon DEF NoUpdateLost
<1>6. ReplicasAgree'
  BY Zenon DEF ReplicasAgree
<1> QED
  BY Zenon, <1>1, <1>4, <1>5, <1>6 DEF DataStep

(* The read, under the locks: no entry of these columns is on its way to the memtable, so *)
(* the new clocks are above what is logged.                                               *)
LEMMA TransformKeeps ==
  ASSUME CountersInv, NEW u \in Updates, Transform(u)
  PROVE  DataStep
<1>1. /\ pc[u] = "locked" /\ pc' = [pc EXCEPT ![u] = "transformed"]
      /\ shards' = [shards EXCEPT ![u] = Transformed(u)]
      /\ mem' = mem /\ log' = log /\ failed' = failed /\ sent' = sent /\ acked' = acked
      /\ hidden' = hidden /\ faults' = faults /\ stale' = stale
  BY Zenon DEF Transform, lockVars
<1>2. LockTypes /\ DataTypes /\ LockInv /\ DataInv /\ NoUpdateLost /\ ReplicasAgree
  BY Zenon DEF CountersInv
<1>3. /\ mem \in [Columns -> Shard] /\ log \in [Columns -> Shard] /\ failed \in Nat
      /\ shards \in [Updates -> [Columns -> Shard]]
      /\ pc \in [Updates -> Ended \cup Owners \cup {"locking"}]
  <2>1. failed \in Nat
    BY <1>2 DEF DataTypes
  <2> QED
    BY Zenon, <1>2, <2>1 DEF DataTypes, LockTypes
<1>4. CellsOf[u] \in SUBSET Columns
  BY Zenon, IdTypes
<1>5. Transformed(u) \in [Columns -> Shard]
  <2>1. ASSUME NEW c \in Columns
        PROVE  [value |-> mem[c].value \cup {u}, clock |-> mem[c].clock + failed + 1] \in Shard
    <3>1. mem[c].value \in SUBSET Updates /\ mem[c].clock \in Nat
      BY Zenon, <1>3, ShardTypes
    <3> QED
      BY <1>3, <3>1 DEF Shard
  <2>2. NoShard \in Shard
    BY Zenon, ShardTypes
  <2> QED
    BY Zenon, <2>1, <2>2 DEF Transformed, Clock
<1>6. /\ pc'[u] = "transformed" /\ shards'[u] = Transformed(u)
      /\ \A w \in Updates \ {u} : pc'[w] = pc[w] /\ shards'[w] = shards[w]
  BY Zenon, <1>1, <1>3
<1>7. \A w \in Updates : pc'[w] = "logged" <=> pc[w] = "logged"
  BY <1>1, <1>6
<1>8. DataTypes'
  <2>1. shards' \in [Updates -> [Columns -> Shard]]
    BY Zenon, <1>1, <1>3, <1>5
  <2> QED
    BY Zenon, <1>1, <1>2, <2>1 DEF DataTypes
<1>9. ASSUME stale' = {} /\ hidden' = {}, NEW c \in Columns PROVE ColumnInv(c)'
  <2>1. ColumnInv(c)
    BY Zenon, <1>1, <1>2, <1>9 DEF DataInv
  <2> QED
    BY Zenon, <1>1, <1>7, <2>1 DEF ColumnInv
<1>10. ASSUME stale' = {} /\ hidden' = {} PROVE ShardInv(u)'
  <2>1. ASSUME NEW c \in Columns \ CellsOf[u] PROVE shards'[u][c] = NoShard
    BY Zenon, <1>6, <2>1 DEF Transformed
  <2>2. ASSUME NEW c \in CellsOf[u]
        PROVE  /\ shards'[u][c].value = mem[c].value \cup {u}
               /\ mem[c].clock < shards'[u][c].clock
               /\ shards'[u][c].clock <= mem[c].clock + failed + 1
               /\ log[c].clock < shards'[u][c].clock
    <3>1. shards'[u][c] = [value |-> mem[c].value \cup {u}, clock |-> mem[c].clock + failed + 1]
      BY Zenon, <1>4, <1>6, <2>2 DEF Transformed, Clock
    <3>2. ASSUME NEW w \in Updates, pc[w] = "logged" PROVE c \notin CellsOf[w]
      <4>1. pc[w] \in Owners /\ pc[u] \in Owners /\ pc[w] # pc[u]
        BY <1>1, <3>2 DEF Owners
      <4> QED
        BY Zenon, <1>1, <1>2, <1>10, <4>1, OwnersExclude
    <3>3. c \in Columns
      BY Zenon, <1>4
    <3>4. log[c].clock <= mem[c].clock + failed
      BY Zenon, <1>1, <1>2, <1>10, <3>2, <3>3 DEF DataInv, ColumnInv
    <3>5. mem[c].clock \in Nat /\ log[c].clock \in Nat
      BY Zenon, <1>3, <3>3, ShardTypes
    <3>6. shards'[u][c].value = mem[c].value \cup {u} /\ shards'[u][c].clock = mem[c].clock + failed + 1
      BY <3>1
    <3> QED
      BY <1>3, <3>4, <3>5, <3>6
  <2>3. pc'[u] # "logged"
    BY <1>6
  <2> QED
    BY Zenon, <1>1, <2>1, <2>2, <2>3 DEF ShardInv
<1>11. ASSUME stale' = {} /\ hidden' = {}, NEW w \in Updates, w # u, pc'[w] \in {"transformed", "logged"}
       PROVE  ShardInv(w)'
  <2>1. ShardInv(w) /\ pc'[w] = pc[w] /\ shards'[w] = shards[w]
    BY Zenon, <1>1, <1>2, <1>6, <1>11 DEF DataInv
  <2> QED
    BY Zenon, <1>1, <2>1 DEF ShardInv
<1>12. DataInv'
  BY Zenon, <1>9, <1>10, <1>11 DEF DataInv
<1>13. NoUpdateLost'
  BY Zenon, <1>1, <1>2 DEF NoUpdateLost
<1>14. ReplicasAgree'
  BY Zenon, <1>1, <1>2 DEF ReplicasAgree
<1> QED
  BY Zenon, <1>8, <1>12, <1>13, <1>14 DEF DataStep

(* The commit log takes the shards over: they are above what it had. *)
LEMMA AddEntryKeeps ==
  ASSUME CountersInv, NEW u \in Updates, AddEntry(u)
  PROVE  DataStep
<1>1. /\ pc[u] = "transformed" /\ pc' = [pc EXCEPT ![u] = "logged"]
      /\ log' = [c \in Columns |-> Merged(log[c], shards[u][c])]
      /\ shards' = shards /\ mem' = mem /\ failed' = failed /\ sent' = sent /\ acked' = acked
      /\ hidden' = hidden /\ faults' = faults /\ stale' = stale
  BY Zenon DEF AddEntry, lockVars
<1>2. LockTypes /\ DataTypes /\ LockInv /\ DataInv /\ NoUpdateLost /\ ReplicasAgree
  BY Zenon DEF CountersInv
<1>3. /\ mem \in [Columns -> Shard] /\ log \in [Columns -> Shard]
      /\ shards \in [Updates -> [Columns -> Shard]]
      /\ pc \in [Updates -> Ended \cup Owners \cup {"locking"}]
  BY Zenon, <1>2 DEF DataTypes, LockTypes
<1>4. CellsOf[u] \in SUBSET Columns
  BY Zenon, IdTypes
<1>5. pc'[u] = "logged" /\ \A w \in Updates \ {u} : pc'[w] = pc[w]
  BY Zenon, <1>1, <1>3
<1>6. DataTypes'
  <2>1. log' \in [Columns -> Shard]
    <3>1. ASSUME NEW c \in Columns PROVE Merged(log[c], shards[u][c]) \in Shard
      <4>1. log[c] \in Shard /\ shards[u][c] \in Shard
        BY Zenon, <1>3
      <4> QED
        BY Zenon, <4>1, ShardTypes
    <3> QED
      BY Zenon, <1>1, <3>1
  <2> QED
    BY Zenon, <1>1, <1>2, <2>1 DEF DataTypes
<1>7. ASSUME stale = {} /\ hidden = {} PROVE ShardInv(u)
  BY Zenon, <1>1, <1>2, <1>7 DEF DataInv
<1>8. ASSUME stale = {} /\ hidden = {}, NEW c \in Columns \ CellsOf[u] PROVE log'[c] = log[c]
  BY Zenon, <1>1, <1>3, <1>7, <1>8, ShardTypes DEF ShardInv
<1>9. ASSUME stale = {} /\ hidden = {}, NEW c \in CellsOf[u] PROVE log'[c] = shards[u][c]
  BY Zenon, <1>1, <1>4, <1>7, <1>9 DEF ShardInv, Merged
<1>10. ASSUME stale' = {} /\ hidden' = {}, NEW c \in Columns PROVE ColumnInv(c)'
  <2>1. ColumnInv(c)
    BY Zenon, <1>1, <1>2, <1>10 DEF DataInv
  <2>2. CASE c \in CellsOf[u]
    <3>1. /\ log'[c] = shards[u][c] /\ shards[u][c].value = mem[c].value \cup {u}
          /\ mem[c].clock < shards[u][c].clock
      BY Zenon, <1>1, <1>7, <1>9, <1>10, <2>2 DEF ShardInv
    <3>2. mem[c].clock \in Nat /\ shards[u][c].clock \in Nat
      <4>1. mem[c] \in Shard /\ shards[u][c] \in Shard
        BY Zenon, <1>3
      <4> QED
        BY Zenon, <4>1, ShardTypes
    <3>3. mem[c].clock <= shards[u][c].clock /\ mem[c].clock # shards[u][c].clock
      BY <3>1, <3>2
    <3> QED
      BY Zenon, <1>1, <1>5, <2>2, <3>1, <3>3 DEF ColumnInv
  <2>3. CASE c \notin CellsOf[u]
    <3>1. log'[c] = log[c]
      BY Zenon, <1>1, <1>8, <1>10, <2>3
    <3>2. (\A w \in Updates : pc'[w] = "logged" => c \notin CellsOf[w])
            => (\A w \in Updates : pc[w] = "logged" => c \notin CellsOf[w])
      BY Zenon, <1>5, <2>3
    <3> QED
      BY Zenon, <1>1, <2>1, <3>1, <3>2 DEF ColumnInv
  <2> QED
    BY Zenon, <2>2, <2>3
<1>11. ASSUME stale' = {} /\ hidden' = {} PROVE ShardInv(u)'
  <2>1. pc'[u] # "transformed"
    BY <1>5
  <2> QED
    BY Zenon, <1>1, <1>7, <1>9, <1>11, <2>1 DEF ShardInv
<1>12. ASSUME stale' = {} /\ hidden' = {}, NEW w \in Updates, w # u, pc'[w] \in {"transformed", "logged"}
       PROVE  ShardInv(w)'
  <2>1. ShardInv(w) /\ pc'[w] = pc[w]
    BY Zenon, <1>1, <1>2, <1>5, <1>12 DEF DataInv
  <2>2. pc[w] \in Owners /\ pc[u] \in Owners
    BY Zenon, <1>1, <1>12, <2>1 DEF Owners
  <2>3. ASSUME NEW c \in CellsOf[w] PROVE log'[c] = log[c]
    <3>1. c \notin CellsOf[u] /\ c \in Columns
      BY Zenon, <1>1, <1>2, <1>12, <2>2, OwnersExclude, IdTypes
    <3> QED
      BY Zenon, <1>1, <1>8, <1>12, <3>1
  <2> QED
    BY Zenon, <1>1, <2>1, <2>3 DEF ShardInv
<1>13. DataInv'
  BY Zenon, <1>10, <1>11, <1>12 DEF DataInv
<1>14. NoUpdateLost'
  BY Zenon, <1>1, <1>2 DEF NoUpdateLost
<1>15. ReplicasAgree'
  BY Zenon, <1>1, <1>2 DEF ReplicasAgree
<1> QED
  BY Zenon, <1>6, <1>13, <1>14, <1>15 DEF DataStep

(* The memtable takes the shards over, and has of these columns what the log has. *)
LEMMA ApplyKeeps ==
  ASSUME CountersInv, NEW u \in Updates, ApplyInMemory(u)
  PROVE  DataStep
<1>1. /\ pc[u] = "logged" /\ pc' = [pc EXCEPT ![u] = "done"]
      /\ mem' = [c \in Columns |-> Merged(mem[c], shards[u][c])]
      /\ sent' = sent \cup {<<c, shards[u][c]>> : c \in CellsOf[u]} /\ acked' = acked \cup {u}
      /\ shards' = [shards EXCEPT ![u] = NoShards]
      /\ log' = log /\ failed' = failed /\ hidden' = hidden /\ faults' = faults /\ stale' = stale
  BY Zenon DEF ApplyInMemory, Leave
<1>2. LockTypes /\ DataTypes /\ LockInv /\ DataInv /\ NoUpdateLost /\ ReplicasAgree
  BY Zenon DEF CountersInv
<1>3. /\ mem \in [Columns -> Shard] /\ log \in [Columns -> Shard] /\ failed \in Nat
      /\ shards \in [Updates -> [Columns -> Shard]] /\ sent \in SUBSET (Columns \X Shard)
      /\ pc \in [Updates -> Ended \cup Owners \cup {"locking"}]
  <2>1. failed \in Nat
    BY <1>2 DEF DataTypes
  <2> QED
    BY Zenon, <1>2, <2>1 DEF DataTypes, LockTypes
<1>4. CellsOf[u] \in SUBSET Columns /\ \A c \in Columns : mem[c] \in Shard /\ shards[u][c] \in Shard
  BY Zenon, <1>3, IdTypes
<1>5. /\ pc'[u] = "done" /\ \A w \in Updates \ {u} : pc'[w] = pc[w] /\ shards'[w] = shards[w]
  BY Zenon, <1>1, <1>3
<1>6. DataTypes'
  <2>1. mem' \in [Columns -> Shard]
    <3>1. \A c \in Columns : Merged(mem[c], shards[u][c]) \in Shard
      BY Zenon, <1>4, ShardTypes
    <3> QED
      BY Zenon, <1>1, <3>1
  <2>2. shards' \in [Updates -> [Columns -> Shard]]
    BY Zenon, <1>1, <1>3, ShardTypes
  <2>3. sent' \in SUBSET (Columns \X Shard)
    BY <1>1, <1>3, <1>4
  <2>4. acked' \in SUBSET Updates
    BY Zenon, <1>1, <1>2 DEF DataTypes
  <2> QED
    BY Zenon, <1>1, <1>2, <2>1, <2>2, <2>3, <2>4 DEF DataTypes
<1>7. SUFFICES ASSUME stale = {} /\ hidden = {} PROVE DataInv' /\ NoUpdateLost' /\ ReplicasAgree'
  <2>1. ~(stale' = {} /\ hidden' = {}) => DataInv' /\ NoUpdateLost' /\ ReplicasAgree'
    BY Zenon DEF DataInv, NoUpdateLost, ReplicasAgree
  <2> QED
    BY Zenon, <1>1, <1>6, <1>7, <2>1 DEF DataStep
<1>8. ShardInv(u)
  BY Zenon, <1>1, <1>2, <1>7 DEF DataInv
<1>9. ASSUME NEW c \in Columns \ CellsOf[u] PROVE mem'[c] = mem[c]
  BY Zenon, <1>1, <1>4, <1>8, ShardTypes DEF ShardInv
<1>10. ASSUME NEW c \in CellsOf[u]
       PROVE  /\ mem'[c] = shards[u][c] /\ log[c] = shards[u][c]
              /\ shards[u][c].value = mem[c].value \cup {u}
              /\ mem[c].clock < shards[u][c].clock
  BY Zenon, <1>1, <1>4, <1>8 DEF ShardInv, Merged
<1>11. ASSUME NEW c \in Columns PROVE ColumnInv(c)'
  <2>1. CASE c \in CellsOf[u]
    <3>1. mem'[c] = log'[c] /\ log[c].clock \in Nat
      BY Zenon, <1>1, <1>3, <1>10, <2>1, ShardTypes
    <3>2. log[c].clock <= log[c].clock + failed /\ log[c].clock <= log[c].clock
      BY <1>3, <3>1
    <3> QED
      BY Zenon, <1>1, <3>1, <3>2 DEF ColumnInv
  <2>2. CASE c \notin CellsOf[u]
    <3>1. ColumnInv(c) /\ mem'[c] = mem[c]
      BY Zenon, <1>2, <1>7, <1>9, <2>2 DEF DataInv
    <3>2. (\A w \in Updates : pc'[w] = "logged" => c \notin CellsOf[w])
            => (\A w \in Updates : pc[w] = "logged" => c \notin CellsOf[w])
      BY Zenon, <1>5, <2>2
    <3> QED
      BY Zenon, <1>1, <3>1, <3>2 DEF ColumnInv
  <2> QED
    BY Zenon, <2>1, <2>2
<1>12. ASSUME NEW w \in Updates, pc'[w] \in {"transformed", "logged"} PROVE ShardInv(w)'
  <2>1. w # u
    BY <1>5, <1>12
  <2>2. ShardInv(w) /\ pc'[w] = pc[w] /\ shards'[w] = shards[w]
    BY Zenon, <1>2, <1>5, <1>7, <1>12, <2>1 DEF DataInv
  <2>3. pc[w] \in Owners /\ pc[u] \in Owners
    BY Zenon, <1>1, <1>12, <2>2 DEF Owners
  <2>4. ASSUME NEW c \in CellsOf[w] PROVE mem'[c] = mem[c]
    <3>1. c \notin CellsOf[u] /\ c \in Columns
      BY Zenon, <1>2, <1>7, <2>1, <2>3, OwnersExclude, IdTypes
    <3> QED
      BY Zenon, <1>9, <3>1
  <2> QED
    BY ZenonT(60), <1>1, <2>2, <2>4 DEF ShardInv
<1>13. DataInv'
  BY Zenon, <1>11, <1>12 DEF DataInv
<1>14. NoUpdateLost'
  <2>1. ASSUME NEW w \in acked', NEW c \in CellsOf[w] PROVE w \in mem'[c].value
    <3>1. CASE w = u
      BY Zenon, <1>10, <2>1, <3>1
    <3>2. CASE w # u
      <4>1. w \in acked /\ w \in Updates
        BY Zenon, <1>1, <1>2, <3>2 DEF DataTypes
      <4>2. w \in mem[c].value /\ c \in Columns
        BY Zenon, <1>2, <1>7, <4>1, IdTypes DEF NoUpdateLost
      <4> QED
        BY Zenon, <1>9, <1>10, <4>2
    <3> QED
      BY Zenon, <3>1, <3>2
  <2> QED
    BY Zenon, <2>1 DEF NoUpdateLost
<1>15. ReplicasAgree'
  <2> DEFINE new == {<<c, shards[u][c]>> : c \in CellsOf[u]}
  <2>1. ASSUME NEW s \in new
        PROVE  s[1] \in CellsOf[u] /\ s[1] \in Columns /\ s[2] = shards[u][s[1]] /\ s[2] = mem'[s[1]]
    <3>1. PICK c \in CellsOf[u] : s = <<c, shards[u][c]>>
      BY Zenon, <2>1
    <3>2. s[1] = c /\ s[2] = shards[u][c]
      BY <3>1
    <3> QED
      BY Zenon, <1>4, <1>10, <3>2
  <2>2. ASSUME NEW s \in sent
        PROVE  /\ s[1] \in Columns /\ s[2] \in Shard /\ s[2].clock \in Nat
               /\ s[2].clock <= mem[s[1]].clock
               /\ s[2].clock = mem[s[1]].clock => s[2].value = mem[s[1]].value
               /\ \A t \in sent : s[1] = t[1] /\ s[2].clock = t[2].clock => s[2].value = t[2].value
    <3>1. s \in Columns \X Shard
      BY Zenon, <1>3
    <3>2. s[1] \in Columns /\ s[2] \in Shard
      BY <3>1
    <3> QED
      BY Zenon, <1>2, <1>7, <3>2, ShardTypes DEF ReplicasAgree
  <2>3. ASSUME NEW s \in sent, s[1] \in CellsOf[u] PROVE s[2].clock < mem'[s[1]].clock
    <3>1. mem[s[1]].clock < mem'[s[1]].clock
      BY Zenon, <1>10, <2>3
    <3>2. mem[s[1]].clock \in Nat /\ mem'[s[1]].clock \in Nat
      BY Zenon, <1>4, <1>10, <2>3, ShardTypes
    <3> QED
      BY <2>2, <3>1, <3>2
  <2>4. \A c \in Columns : mem'[c].clock \in Nat
    BY Zenon, <1>6, ShardTypes DEF DataTypes
  <2> HIDE DEF new
  <2>5. ASSUME NEW s \in sent \cup new
        PROVE  /\ s[2].clock <= mem'[s[1]].clock
               /\ s[2].clock = mem'[s[1]].clock => s[2].value = mem'[s[1]].value
    <3>1. CASE s \in new
      BY <2>1, <2>4, <3>1
    <3>2. CASE s \in sent /\ s[1] \in CellsOf[u]
      BY <2>2, <2>3, <2>4, <3>2
    <3>3. CASE s \in sent /\ s[1] \notin CellsOf[u]
      BY Zenon, <1>9, <2>2, <3>3
    <3> QED
      BY Zenon, <3>1, <3>2, <3>3
  <2>6. ASSUME NEW s \in sent \cup new, NEW t \in sent \cup new, s[1] = t[1], s[2].clock = t[2].clock
        PROVE  s[2].value = t[2].value
    <3>1. ASSUME NEW x \in new, NEW y \in sent, x[1] = y[1] PROVE x[2].clock # y[2].clock
      <4>1. y[2].clock < x[2].clock
        BY Zenon, <2>1, <2>3, <3>1
      <4>2. y[2].clock \in Nat
        BY Zenon, <2>2
      <4> QED
        BY <4>1, <4>2
    <3>2. CASE s \in sent /\ t \in sent
      BY Zenon, <2>2, <2>6, <3>2
    <3>3. CASE s \in new /\ t \in new
      BY Zenon, <2>1, <2>6, <3>3
    <3> QED
      BY Zenon, <2>6, <3>1, <3>2, <3>3
  <2>7. sent' = sent \cup new
    BY Zenon, <1>1 DEF new
  <2> QED
    BY Zenon, <2>5, <2>6, <2>7 DEF ReplicasAgree
<1> QED
  BY Zenon, <1>13, <1>14, <1>15

(* The memtable throws: the log is above the memtable by no more than the raised offset. *)
LEMMA ThrowKeeps ==
  ASSUME CountersInv, NEW u \in Updates, ApplyThrows(u)
  PROVE  DataStep
<1>1. /\ pc[u] = "logged" /\ pc' = [pc EXCEPT ![u] = "failed"] /\ failed' = failed + 1
      /\ shards' = [shards EXCEPT ![u] = NoShards] /\ faults < MaxFaults /\ faults' = faults + 1
      /\ mem' = mem /\ log' = log /\ sent' = sent /\ acked' = acked
      /\ hidden' = hidden /\ stale' = stale
  BY Zenon DEF ApplyThrows, Fault, Leave
<1>2. LockTypes /\ DataTypes /\ LockInv /\ DataInv /\ NoUpdateLost /\ ReplicasAgree
  BY Zenon DEF CountersInv
<1>3. /\ mem \in [Columns -> Shard] /\ log \in [Columns -> Shard]
      /\ shards \in [Updates -> [Columns -> Shard]]
      /\ pc \in [Updates -> Ended \cup Owners \cup {"locking"}]
  BY Zenon, <1>2 DEF DataTypes, LockTypes
<1>4. MaxFaults \in Nat /\ failed \in Nat /\ faults' \in 0..MaxFaults /\ failed' \in 0..faults'
  <2>1. MaxFaults \in Nat /\ faults \in 0..MaxFaults /\ failed \in 0..faults
    BY Zenon, <1>2, CountersAssumption DEF DataTypes
  <2> QED
    BY <1>1, <2>1
<1>5. pc'[u] = "failed" /\ \A w \in Updates \ {u} : pc'[w] = pc[w] /\ shards'[w] = shards[w]
  BY Zenon, <1>1, <1>3
<1>6. \A c \in Columns : mem[c].clock \in Nat /\ log[c].clock \in Nat
  BY Zenon, <1>3, ShardTypes
<1>7. DataTypes'
  <2>1. shards' \in [Updates -> [Columns -> Shard]]
    BY Zenon, <1>1, <1>3, ShardTypes
  <2> QED
    BY Zenon, <1>1, <1>2, <1>4, <2>1 DEF DataTypes
<1>8. ASSUME stale' = {} /\ hidden' = {}, NEW c \in Columns PROVE ColumnInv(c)'
  <2>1. ColumnInv(c) /\ ShardInv(u)
    BY Zenon, <1>1, <1>2, <1>8 DEF DataInv
  <2>2. CASE c \in CellsOf[u]
    <3>1. log[c].clock <= mem[c].clock + failed + 1
      BY Zenon, <1>1, <2>1, <2>2 DEF ShardInv
    <3>2. log[c].clock <= mem[c].clock + (failed + 1)
      BY <1>4, <1>6, <3>1
    <3> QED
      BY Zenon, <1>1, <2>1, <3>2 DEF ColumnInv
  <2>3. CASE c \notin CellsOf[u]
    <3>1. (\A w \in Updates : pc'[w] = "logged" => c \notin CellsOf[w])
            => (\A w \in Updates : pc[w] = "logged" => c \notin CellsOf[w])
      BY Zenon, <1>5, <2>3
    <3>2. log[c].clock <= mem[c].clock + failed => log[c].clock <= mem[c].clock + (failed + 1)
      BY <1>4, <1>6
    <3> QED
      BY Zenon, <1>1, <2>1, <3>1, <3>2 DEF ColumnInv
  <2> QED
    BY Zenon, <2>2, <2>3
<1>9. ASSUME stale' = {} /\ hidden' = {}, NEW w \in Updates, pc'[w] \in {"transformed", "logged"}
      PROVE  ShardInv(w)'
  <2>1. w # u
    BY <1>5, <1>9
  <2>2. ShardInv(w) /\ pc'[w] = pc[w] /\ shards'[w] = shards[w]
    BY Zenon, <1>1, <1>2, <1>5, <1>9, <2>1 DEF DataInv
  <2>3. ASSUME NEW c \in CellsOf[w], shards[w][c].clock <= mem[c].clock + failed + 1
        PROVE  shards[w][c].clock <= mem[c].clock + (failed + 1) + 1
    <3>1. c \in Columns
      BY Zenon, IdTypes
    <3>2. shards[w][c] \in Shard
      BY Zenon, <1>3, <3>1
    <3>3. shards[w][c].clock \in Nat
      BY Zenon, <3>2, ShardTypes
    <3> QED
      BY <1>4, <1>6, <2>3, <3>1, <3>3
  <2> QED
    BY Zenon, <1>1, <2>2, <2>3 DEF ShardInv
<1>10. DataInv'
  BY Zenon, <1>8, <1>9 DEF DataInv
<1>11. NoUpdateLost'
  BY Zenon, <1>1, <1>2 DEF NoUpdateLost
<1>12. ReplicasAgree'
  BY Zenon, <1>1, <1>2 DEF ReplicasAgree
<1> QED
  BY Zenon, <1>7, <1>10, <1>11, <1>12 DEF DataStep

(* The timeouts that the properties exclude. *)
LEMMA TimeoutKeeps ==
  ASSUME CountersInv, NEW u \in Updates, SyncTimeout(u) \/ MemoryTimeout(u)
  PROVE  DataStep
<1>1. /\ hidden' = hidden \cup {u} /\ faults < MaxFaults /\ faults' = faults + 1
      /\ shards' = [shards EXCEPT ![u] = NoShards] /\ failed' = failed
      /\ mem' = mem /\ sent' = sent /\ acked' = acked
      /\ log' = log \/ log' = [c \in Columns |-> Merged(log[c], shards[u][c])]
  BY Zenon DEF SyncTimeout, MemoryTimeout, Fault, Leave
<1>2. DataTypes
  BY Zenon DEF CountersInv
<1>3. log' \in [Columns -> Shard]
  <2>1. ASSUME NEW c \in Columns PROVE Merged(log[c], shards[u][c]) \in Shard
    <3>1. log[c] \in Shard /\ shards[u][c] \in Shard
      BY Zenon, <1>2 DEF DataTypes
    <3> QED
      BY Zenon, <3>1, ShardTypes
  <2>2. log \in [Columns -> Shard]
    BY Zenon, <1>2 DEF DataTypes
  <2> QED
    BY Zenon, <1>1, <2>1, <2>2
<1>4. faults' \in 0..MaxFaults /\ failed' \in 0..faults'
  <2>1. MaxFaults \in Nat /\ faults \in 0..MaxFaults /\ failed \in 0..faults
    BY Zenon, <1>2, CountersAssumption DEF DataTypes
  <2> QED
    BY <1>1, <2>1
<1>5. shards' \in [Updates -> [Columns -> Shard]] /\ hidden' \in SUBSET Updates
  BY Zenon, <1>1, <1>2, ShardTypes DEF DataTypes
<1>6. DataTypes'
  BY Zenon, <1>1, <1>2, <1>3, <1>4, <1>5 DEF DataTypes
<1>7. hidden' # {}
  BY Zenon, <1>1
<1> QED
  BY Zenon, <1>6, <1>7 DEF DataStep, DataInv, NoUpdateLost, ReplicasAgree

(* Replay: the log counts all that the memtable counted, under no clock that was used for *)
(* something else.                                                                        *)
LEMMA ReplayKeeps ==
  ASSUME CountersInv, Crash
  PROVE  DataStep
<1>1. /\ pc' = [u \in Updates |-> IF pc[u] \in {"idle", "done"} THEN pc[u] ELSE "failed"]
      /\ shards' = [u \in Updates |-> NoShards] /\ mem' = log /\ failed' = 0
      /\ faults < MaxFaults /\ faults' = faults + 1
      /\ log' = log /\ sent' = sent /\ acked' = acked /\ stale' = stale /\ hidden' = hidden
  BY Zenon DEF Crash, Fault
<1>2. DataTypes /\ DataInv /\ NoUpdateLost /\ ReplicasAgree
  BY Zenon DEF CountersInv
<1>3. faults' \in 0..MaxFaults /\ failed' \in 0..faults'
  <2>1. MaxFaults \in Nat /\ faults \in 0..MaxFaults
    BY Zenon, <1>2, CountersAssumption DEF DataTypes
  <2> QED
    BY <1>1, <2>1
<1>4. DataTypes'
  <2>1. shards' \in [Updates -> [Columns -> Shard]]
    BY Zenon, <1>1, ShardTypes
  <2> QED
    BY Zenon, <1>1, <1>2, <1>3, <2>1 DEF DataTypes
<1>5. \A c \in Columns : mem[c].clock \in Nat /\ log[c].clock \in Nat
  BY Zenon, <1>2, ShardTypes DEF DataTypes
<1>6. DataInv'
  <2>1. ASSUME NEW c \in Columns PROVE ColumnInv(c)'
    <3>1. log[c].clock <= log[c].clock + 0 /\ log[c].clock <= log[c].clock
      BY <1>5
    <3> QED
      BY Zenon, <1>1, <3>1 DEF ColumnInv
  <2>2. \A w \in Updates : pc'[w] \notin {"transformed", "logged"}
    BY <1>1
  <2> QED
    BY Zenon, <2>1, <2>2 DEF DataInv
<1>7. NoUpdateLost'
  <2>1. ASSUME stale = {} /\ hidden = {}, NEW w \in acked, NEW c \in CellsOf[w]
        PROVE  w \in log[c].value
    <3>1. c \in Columns
      BY Zenon, <1>2, IdTypes DEF DataTypes
    <3>2. w \in mem[c].value /\ mem[c].value \subseteq log[c].value
      BY Zenon, <1>2, <2>1, <3>1 DEF NoUpdateLost, DataInv, ColumnInv
    <3> QED
      BY Zenon, <3>2
  <2> QED
    BY Zenon, <1>1, <2>1 DEF NoUpdateLost
<1>8. ReplicasAgree'
  <2>1. ASSUME stale = {} /\ hidden = {}, NEW s \in sent
        PROVE  /\ s[2].clock <= log[s[1]].clock
               /\ s[2].clock = log[s[1]].clock => s[2].value = log[s[1]].value
               /\ \A t \in sent : s[1] = t[1] /\ s[2].clock = t[2].clock => s[2].value = t[2].value
    <3>1. s[1] \in Columns /\ s[2] \in Shard
      <4>1. s \in Columns \X Shard
        BY Zenon, <1>2 DEF DataTypes
      <4> QED
        BY <4>1
    <3>2. ColumnInv(s[1])
      BY Zenon, <1>2, <2>1, <3>1 DEF DataInv
    <3>3. /\ mem[s[1]].clock <= log[s[1]].clock
          /\ mem[s[1]].clock = log[s[1]].clock => mem[s[1]].value = log[s[1]].value
      BY Zenon, <3>2 DEF ColumnInv
    <3>4. /\ s[2].clock <= mem[s[1]].clock
          /\ s[2].clock = mem[s[1]].clock => s[2].value = mem[s[1]].value
          /\ \A t \in sent : s[1] = t[1] /\ s[2].clock = t[2].clock => s[2].value = t[2].value
      BY Zenon, <1>2, <2>1 DEF ReplicasAgree
    <3>5. s[2].clock \in Nat /\ mem[s[1]].clock \in Nat /\ log[s[1]].clock \in Nat
      BY Zenon, <1>5, <3>1, ShardTypes
    <3>6. /\ s[2].clock <= log[s[1]].clock
          /\ s[2].clock = log[s[1]].clock =>
               s[2].clock = mem[s[1]].clock /\ mem[s[1]].clock = log[s[1]].clock
      BY <3>3, <3>4, <3>5
    <3> QED
      BY Zenon, <3>3, <3>4, <3>6
  <2> QED
    BY Zenon, <1>1, <2>1 DEF ReplicasAgree
<1> QED
  BY Zenon, <1>4, <1>6, <1>7, <1>8 DEF DataStep

(* A locker's steps. *)
LEMMA LockerLeavesData ==
  ASSUME CountersInv, NEW u \in Updates, LockCells(u) \/ Granted(u)
  PROVE  DataStep
<1>1. PICK how : pc' = [pc EXCEPT ![u] = how] /\ how \in {"locked", "locking"}
  <2>1. PICK cs, v, todo : Locker(cs, u, v, todo)
    BY Zenon DEF LockCells, Granted
  <2>2. LockNext(cs, u, v, todo).pc \in {"locked", "locking"}
    BY DEF LockNext
  <2> QED
    BY Zenon, <2>1, <2>2 DEF Locker
<1>2. /\ pc[u] \in {"idle", "locking"} /\ UNCHANGED dataVars /\ (stale' = {} => stale = {})
  BY Zenon DEF LockCells, Granted
<1>3. pc \in [Updates -> Ended \cup Owners \cup {"locking"}] /\ DataTypes
  BY Zenon DEF CountersInv, LockTypes
<1>4. pc'[u] = how /\ \A w \in Updates \ {u} : pc'[w] = pc[w]
  BY Zenon, <1>1, <1>3
<1>5. /\ pc[u] # "logged" /\ pc[u] # "transformed" /\ pc'[u] # "logged" /\ pc'[u] # "transformed"
  BY <1>1, <1>2, <1>4
<1>6. /\ \A w \in Updates : pc'[w] = "logged" <=> pc[w] = "logged"
      /\ \A w \in Updates : pc'[w] = "transformed" => pc[w] = "transformed"
  BY Zenon, <1>4, <1>5
<1>7. /\ mem' = mem /\ log' = log /\ failed' = failed /\ sent' = sent /\ acked' = acked
      /\ hidden' = hidden /\ shards' = shards /\ faults' = faults
  BY Zenon, <1>2 DEF dataVars
<1> QED
  BY Zenon, <1>2, <1>3, <1>6, <1>7, NoDataKeeps DEF CountersInv, DataTypes

(* An update that ends before the log has it. *)
LEMMA EarlyEndLeavesData ==
  ASSUME CountersInv, NEW u \in Updates, LockTimeout(u) \/ AddEntryFails(u)
  PROVE  DataStep
<1>1. /\ pc[u] \in {"locking", "transformed"} /\ pc' = [pc EXCEPT ![u] = "failed"]
      /\ shards' = [shards EXCEPT ![u] = NoShards] /\ stale' = stale
      /\ mem' = mem /\ log' = log /\ failed' = failed /\ sent' = sent /\ acked' = acked
      /\ hidden' = hidden /\ (faults' = faults \/ (faults < MaxFaults /\ faults' = faults + 1))
  BY Zenon DEF LockTimeout, AddEntryFails, Fault, Leave
<1>2. pc \in [Updates -> Ended \cup Owners \cup {"locking"}] /\ DataTypes
  BY Zenon DEF CountersInv, LockTypes
<1>3. shards \in [Updates -> [Columns -> Shard]] /\ shards' \in [Updates -> [Columns -> Shard]]
  BY Zenon, <1>1, <1>2, ShardTypes DEF DataTypes
<1>4. pc'[u] = "failed" /\ \A w \in Updates \ {u} : pc'[w] = pc[w] /\ shards'[w] = shards[w]
  BY Zenon, <1>1, <1>2, <1>3
<1>5. pc[u] # "logged" /\ pc'[u] # "logged" /\ pc'[u] # "transformed" /\ pc'[u] \notin {"transformed", "logged"}
  BY <1>1, <1>4
<1>6. /\ \A w \in Updates : pc'[w] = "logged" <=> pc[w] = "logged"
      /\ \A w \in Updates : pc'[w] = "transformed" => pc[w] = "transformed"
      /\ \A w \in Updates : pc'[w] \in {"transformed", "logged"} => shards'[w] = shards[w]
  BY Zenon, <1>4, <1>5
<1>7. faults' \in 0..MaxFaults /\ failed \in 0..faults'
  <2>1. MaxFaults \in Nat /\ faults \in 0..MaxFaults /\ failed \in 0..faults
    BY Zenon, <1>2, CountersAssumption DEF DataTypes
  <2> QED
    BY <1>1, <2>1
<1> QED
  BY Zenon, <1>1, <1>2, <1>3, <1>6, <1>7, NoDataKeeps DEF CountersInv

(* A step that is not an update's. *)
LEMMA SchemaLeavesData ==
  ASSUME CountersInv, UNCHANGED <<pc, stale, dataVars>>
  PROVE  DataStep
<1>1. /\ mem' = mem /\ log' = log /\ failed' = failed /\ sent' = sent /\ acked' = acked
      /\ hidden' = hidden /\ shards' = shards /\ faults' = faults /\ pc' = pc /\ stale' = stale
  BY Zenon DEF dataVars
<1>2. /\ shards' \in [Updates -> [Columns -> Shard]] /\ faults' \in 0..MaxFaults /\ failed \in 0..faults'
  BY Zenon, <1>1 DEF CountersInv, DataTypes
<1> QED
  BY Zenon, <1>1, <1>2, NoDataKeeps DEF CountersInv

-----------------------------------------------------------------------------
(* Every step. *)
LEMMA CountersStep == CountersInv /\ [Next]_vars => CountersInv'
<1> SUFFICES ASSUME CountersInv, [Next]_vars PROVE CountersInv'
  OBVIOUS
<1>1. SUFFICES LockStep /\ DataStep
  BY Zenon, <1>1 DEF CountersInv, LockStep, DataStep
<1>2. LockTypes /\ LockInv
  BY Zenon DEF CountersInv
<1>3. ASSUME NEW u \in Updates, LockCells(u) PROVE LockStep /\ DataStep
  BY Zenon, <1>2, <1>3, LockCellsKeeps, LockerLeavesData
<1>4. ASSUME NEW u \in Updates, Granted(u) PROVE LockStep /\ DataStep
  BY Zenon, <1>2, <1>4, GrantedKeeps, LockerLeavesData
<1>5. ASSUME NEW u \in Updates, Transform(u) PROVE LockStep /\ DataStep
  <2>1. pc[u] \in Owners /\ "transformed" \in Owners
    BY Zenon, <1>5 DEF Transform, Owners
  <2>2. pc' = [pc EXCEPT ![u] = "transformed"] /\ UNCHANGED lockVars
    BY Zenon, <1>5 DEF Transform
  <2>3. LockStep
    BY Zenon, <1>2, <2>1, <2>2, OwnerKeeps
  <2> QED
    BY Zenon, <1>5, <2>3, TransformKeeps
<1>6. ASSUME NEW u \in Updates, AddEntry(u) PROVE LockStep /\ DataStep
  <2>1. pc[u] \in Owners /\ "logged" \in Owners
    BY Zenon, <1>6 DEF AddEntry, Owners
  <2>2. pc' = [pc EXCEPT ![u] = "logged"] /\ UNCHANGED lockVars
    BY Zenon, <1>6 DEF AddEntry
  <2>3. LockStep
    BY Zenon, <1>2, <2>1, <2>2, OwnerKeeps
  <2> QED
    BY Zenon, <1>6, <2>3, AddEntryKeeps
<1>7. ASSUME NEW u \in Updates, NEW how \in {"done", "failed"}, Leave(u, how) PROVE LockStep
  BY Zenon, <1>2, <1>7, LeaveKeeps
<1>8. ASSUME NEW u \in Updates, ApplyInMemory(u) PROVE LockStep /\ DataStep
  BY Zenon, <1>7, <1>8, ApplyKeeps DEF ApplyInMemory
<1>9. ASSUME NEW u \in Updates, LockTimeout(u) PROVE LockStep /\ DataStep
  BY Zenon, <1>7, <1>9, EarlyEndLeavesData DEF LockTimeout
<1>10. ASSUME NEW u \in Updates, AddEntryFails(u) PROVE LockStep /\ DataStep
  BY Zenon, <1>7, <1>10, EarlyEndLeavesData DEF AddEntryFails
<1>11. ASSUME NEW u \in Updates, ApplyThrows(u) PROVE LockStep /\ DataStep
  BY Zenon, <1>7, <1>11, ThrowKeeps DEF ApplyThrows
<1>12. ASSUME NEW u \in Updates, MemoryTimeout(u) PROVE LockStep /\ DataStep
  BY Zenon, <1>7, <1>12, TimeoutKeeps DEF MemoryTimeout
<1>13. ASSUME NEW u \in Updates, SyncTimeout(u) PROVE LockStep /\ DataStep
  BY Zenon, <1>7, <1>13, TimeoutKeeps DEF SyncTimeout
<1>14. CASE Crash
  BY Zenon, <1>2, <1>14, CrashKeeps, ReplayKeeps
<1>15. CASE SetSchema
  <2>1. UNCHANGED <<pc, stale, dataVars>>
    BY Zenon, <1>15 DEF SetSchema
  <2> QED
    BY Zenon, <1>2, <1>15, <2>1, SetSchemaKeeps, SchemaLeavesData
<1>16. CASE UNCHANGED vars
  <2>1. UNCHANGED <<pc, stale, dataVars>> /\ pc' = pc /\ UNCHANGED lockVars
    BY Zenon, <1>16 DEF vars, lockVars
  <2>2. /\ cells' = cells /\ left' = left /\ entry' = entry /\ ver' = ver /\ stale' = stale
        /\ schema' = schema /\ pc' = pc
    BY Zenon, <2>1 DEF lockVars
  <2>3. LockTypes'
    BY Zenon, <1>2, <2>2 DEF LockTypes
  <2>4. LockInv'
    BY Zenon, <1>2, <2>2 DEF LockInv, HoldInv
  <2> QED
    BY Zenon, <2>1, <2>3, <2>4, SchemaLeavesData DEF LockStep
<1> QED
  BY ZenonT(60), <1>3, <1>4, <1>5, <1>6, <1>8, <1>9, <1>10, <1>11, <1>12, <1>13, <1>14, <1>15, <1>16 DEF Next, Update

(* The inductive invariant, of which the theorems below are parts. *)
THEOREM CountersInvariant == Spec => []CountersInv
BY CountersInit, CountersStep, PTL DEF Spec

(* The types of the variables; no update leaves a cell lock behind when it ends *)
(* (~locked_cell()).                                                            *)
THEOREM TypeCorrect == Spec => []TypeOK
<1>1. CountersInv => TypeOK
  BY Zenon, TypeParts DEF CountersInv
<1> QED
  BY <1>1, CountersInvariant, PTL

(* No acknowledged increment is lost, whatever runs beside it, fails or crashes            *)
(* (do_apply_counter_update()), but for the three cases that NoUpdateLost names.           *)
THEOREM IncrementsCount == Spec => []NoUpdateLost
<1>1. CountersInv => NoUpdateLost
  BY Zenon DEF CountersInv
<1> QED
  BY <1>1, CountersInvariant, PTL

(* The leader is never behind a shard that it sent, and no clock of a shard stands for two *)
(* values (transform_counter_updates_to_shards()), but for the same three cases.           *)
THEOREM ClocksAreUsedOnce == Spec => []ReplicasAgree
<1>1. CountersInv => ReplicasAgree
  BY Zenon DEF CountersInv
<1> QED
  BY <1>1, CountersInvariant, PTL
=============================================================================
