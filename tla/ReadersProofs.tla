---------------------------- MODULE ReadersProofs ----------------------------
(***************************************************************************)
(* That the admission of readers loses no resources and no wakeups, evicts *)
(* before it queues and admits in order, for every set of readers and      *)
(* every size of the semaphore.                                            *)
(***************************************************************************)
EXTENDS Readers, WellFoundedInduction, FiniteSetTheorems, TLAPS

-----------------------------------------------------------------------------
(* Smallest elements, which take the place of induction. *)

(* A set of natural numbers that is not empty has a smallest element. *)
LEMMA LeastNat ==
  ASSUME NEW T \in SUBSET Nat, T # {}
  PROVE  \E m \in T : \A n \in T : m <= n
<1> DEFINE R == OpToRel(<, Nat)
<1>1. IsWellFoundedOn(R, Nat)
  BY NatLessThanWellFounded
<1> HIDE DEF R
<1>2. PICK m \in T : \A n \in T : ~(<<n, m>> \in R)
  BY Zenon, <1>1, WFMin
<1>3. ASSUME NEW n \in T PROVE m <= n
  <2>1. n < m => <<n, m>> \in R
    BY DEF R, OpToRel
  <2>2. ~(n < m)
    BY Zenon, <1>2, <2>1
  <2> QED
    BY <2>2
<1> QED
  BY Zenon, <1>3

(* Of some subsets of a finite set, one has no other one inside. *)
LEMMA MinimalSet ==
  ASSUME NEW S, IsFiniteSet(S), NEW Bad \in SUBSET SUBSET S, Bad # {}
  PROVE  \E T \in Bad : \A U \in Bad : U \subseteq T => U = T
<1>1. IsWellFoundedOn(StrictSubsetOrdering(S), FiniteSubsetsOf(S))
  BY Zenon, FS_StrictSubsetOrderingWellFounded
<1>2. \A T \in SUBSET S : IsFiniteSet(T)
  BY Zenon, FS_Subset
<1>3. Bad \subseteq FiniteSubsetsOf(S)
  BY <1>2 DEF FiniteSubsetsOf
<1>4. PICK T \in Bad : \A U \in Bad : ~(<<U, T>> \in StrictSubsetOrdering(S))
  BY Zenon, <1>1, <1>3, WFMin
<1>5. ASSUME NEW U \in Bad, U \subseteq T, U # T PROVE FALSE
  BY Zenon, <1>4, <1>5 DEF StrictSubsetOrdering
<1> QED
  BY Zenon, <1>5

-----------------------------------------------------------------------------
(* Sums over a finite set. *)

Sum(f, S) == SumFunctionOnSet(f, S)
Some(s) == CHOOSE x \in s : TRUE
SumStep(g, f, s) == IF s = {} THEN 0 ELSE f[Some(s)] + g[s \ {Some(s)}]
IsSum(g, f, S) == g = [s \in SUBSET S |-> SumStep(g, f, s)]

(* What SumFunctionOnSet() is made of. *)
LEMMA SumUnfolds ==
  ASSUME NEW f, NEW S
  PROVE  Sum(f, S) = (CHOOSE g : IsSum(g, f, S))[S]
BY Zenon DEF Sum, SumFunctionOnSet, FoldFunctionOnSet, MapThenFoldSet, IsSum, SumStep, Some

(* Two such functions agree. *)
LEMMA SumAgrees ==
  ASSUME NEW f, NEW S, IsFiniteSet(S), NEW T, NEW g, NEW h, IsSum(g, f, S), IsSum(h, f, T),
         NEW U, U \in SUBSET S, U \in SUBSET T
  PROVE  g[U] = h[U]
<1> DEFINE Bad == {V \in SUBSET S : V \in SUBSET T /\ g[V] # h[V]}
<1>1. SUFFICES ASSUME Bad # {} PROVE FALSE
  <2>1. U \notin Bad
    BY Zenon, <1>1
  <2> QED
    BY <2>1
<1>2. PICK V \in Bad : \A W \in Bad : W \subseteq V => W = V
  <2>1. Bad \in SUBSET SUBSET S
    OBVIOUS
  <2> HIDE DEF Bad
  <2> QED
    BY <1>1, <2>1, MinimalSet
<1>3. g[V] = SumStep(g, f, V) /\ h[V] = SumStep(h, f, V)
  <2>1. V \in SUBSET S /\ V \in SUBSET T
    BY <1>2
  <2> QED
    BY Zenon, <2>1 DEF IsSum
<1>4. CASE V = {}
  BY Zenon, <1>2, <1>3, <1>4 DEF SumStep
<1>5. CASE V # {}
  <2>1. Some(V) \in V
    BY Zenon, <1>5 DEF Some
  <2>2. V \ {Some(V)} \notin Bad
    BY <1>2, <2>1
  <2>3. g[V \ {Some(V)}] = h[V \ {Some(V)}]
    BY <1>2, <2>2
  <2> QED
    BY Zenon, <1>2, <1>3, <1>5, <2>3 DEF SumStep
<1> QED
  BY Zenon, <1>4, <1>5

(* The recursion of the sum defines a function. *)
LEMMA SumExists ==
  ASSUME NEW f, NEW S, IsFiniteSet(S)
  PROVE  \E g : IsSum(g, f, S)
<1> DEFINE Bad == {T \in SUBSET S : ~\E g : IsSum(g, f, T)}
<1>1. SUFFICES ASSUME Bad # {} PROVE FALSE
  <2>1. S \notin Bad
    BY Zenon, <1>1
  <2> QED
    BY <2>1
<1>2. PICK T \in Bad : \A U \in Bad : U \subseteq T => U = T
  <2>1. Bad \in SUBSET SUBSET S
    OBVIOUS
  <2> HIDE DEF Bad
  <2> QED
    BY <1>1, <2>1, MinimalSet
<1>3. \A U \in SUBSET T : U # T => \E g : IsSum(g, f, U)
  BY <1>2
<1> DEFINE G(U) == CHOOSE g : IsSum(g, f, U)
           Rest1 == T \ {Some(T)}
           h == [s \in SUBSET T |-> IF s # T THEN G(s)[s]
                                    ELSE IF T = {} THEN 0 ELSE f[Some(T)] + G(Rest1)[Rest1]]
<1>4. \A U \in SUBSET T : U # T => IsSum(G(U), f, U)
  BY Zenon, <1>3
<1>5. \A U \in SUBSET T : IsFiniteSet(U)
  <2>1. T \in SUBSET S
    OBVIOUS
  <2> QED
    BY Zenon, <2>1, FS_Subset
<1> HIDE DEF G, Bad
<1>6. ASSUME NEW s \in SUBSET T PROVE h[s] = SumStep(h, f, s)
  <2> DEFINE r == s \ {Some(s)}
  <2>1. s # {} => Some(s) \in s
    BY Zenon DEF Some
  <2>2. s # {} => r \in SUBSET T /\ r # T /\ r \in SUBSET s /\ r # s
    BY <2>1
  <2>3. s # {} => h[r] = G(r)[r]
    BY Zenon, <2>2
  <2>4. CASE s = T
    BY Zenon, <2>3, <2>4 DEF SumStep
  <2>5. CASE s # T
    <3>1. h[s] = G(s)[s]
      BY Zenon, <2>5
    <3>2. IsSum(G(s), f, s) /\ IsFiniteSet(s) /\ s \in SUBSET s
      BY Zenon, <1>4, <1>5, <2>5
    <3>3. G(s)[s] = SumStep(G(s), f, s)
      BY Zenon, <3>2 DEF IsSum
    <3>4. s # {} => G(s)[r] = G(r)[r]
      <4> HAVE s # {}
      <4>1. IsSum(G(r), f, r) /\ r \in SUBSET r /\ r \in SUBSET s
        BY Zenon, <1>4, <2>2
      <4> HIDE DEF r
      <4> QED
        BY <3>2, <4>1, SumAgrees
    <3> HIDE DEF h
    <3> QED
      BY Zenon, <2>3, <3>1, <3>3, <3>4 DEF SumStep
  <2> QED
    BY Zenon, <2>4, <2>5
<1>7. IsSum(h, f, T)
  <2>1. h = [s \in SUBSET T |-> h[s]]
    BY Zenon
  <2> HIDE DEF h
  <2>2. [s \in SUBSET T |-> h[s]] = [s \in SUBSET T |-> SumStep(h, f, s)]
    BY Zenon, <1>6
  <2> QED
    BY Zenon, <2>1, <2>2 DEF IsSum
<1> QED
  BY Zenon, <1>2, <1>7 DEF Bad

(* A sum: nothing, or some element and the sum of the others. *)
LEMMA SumRecursive ==
  ASSUME NEW f, NEW S, IsFiniteSet(S)
  PROVE  Sum(f, S) = IF S = {} THEN 0 ELSE f[Some(S)] + Sum(f, S \ {Some(S)})
<1> DEFINE T == S \ {Some(S)}
<1>1. PICK g : g = (CHOOSE h : IsSum(h, f, S))
  OBVIOUS
<1>2. PICK h : h = (CHOOSE g1 : IsSum(g1, f, T))
  OBVIOUS
<1>3. IsFiniteSet(T) /\ T \in SUBSET T /\ T \in SUBSET S
  <2>1. T \in SUBSET S
    OBVIOUS
  <2> QED
    BY Zenon, <2>1, FS_Subset
<1> HIDE DEF T
<1>4. IsSum(g, f, S) /\ Sum(f, S) = g[S]
  BY Zenon, <1>1, SumExists, SumUnfolds
<1>5. IsSum(h, f, T) /\ Sum(f, T) = h[T]
  BY Zenon, <1>2, <1>3, SumExists, SumUnfolds
<1>6. g[T] = h[T]
  BY <1>3, <1>4, <1>5, SumAgrees
<1>7. g[S] = SumStep(g, f, S)
  <2>1. S \in SUBSET S
    OBVIOUS
  <2> QED
    BY Zenon, <1>4, <2>1 DEF IsSum
<1>8. Sum(f, S) = IF S = {} THEN 0 ELSE f[Some(S)] + Sum(f, T)
  BY Zenon, <1>4, <1>5, <1>6, <1>7 DEF SumStep, T
<1> QED
  BY Zenon, <1>8 DEF T

(* A sum of natural numbers is one. *)
LEMMA SumNat ==
  ASSUME NEW S, IsFiniteSet(S), NEW f, \A x \in S : f[x] \in Nat
  PROVE  Sum(f, S) \in Nat
<1> DEFINE Bad == {T \in SUBSET S : Sum(f, T) \notin Nat}
<1>1. SUFFICES ASSUME Bad # {} PROVE FALSE
  <2>1. S \notin Bad
    BY Zenon, <1>1
  <2> QED
    BY <2>1
<1>2. PICK T \in Bad : \A U \in Bad : U \subseteq T => U = T
  <2>1. Bad \in SUBSET SUBSET S
    OBVIOUS
  <2> HIDE DEF Bad
  <2> QED
    BY <1>1, <2>1, MinimalSet
<1>3. IsFiniteSet(T) /\ T \in SUBSET S
  <2>1. T \in SUBSET S
    OBVIOUS
  <2> QED
    BY Zenon, <2>1, FS_Subset
<1>4. Sum(f, T) = IF T = {} THEN 0 ELSE f[Some(T)] + Sum(f, T \ {Some(T)})
  BY Zenon, <1>3, SumRecursive
<1>5. T # {}
  BY <1>2, <1>4
<1>6. Some(T) \in T
  BY Zenon, <1>5 DEF Some
<1>7. Sum(f, T \ {Some(T)}) \in Nat
  BY <1>2, <1>6
<1>8. f[Some(T)] \in Nat
  BY Zenon, <1>3, <1>6
<1> QED
  BY <1>2, <1>4, <1>5, <1>7, <1>8

(* Any element may be taken out first. *)
LEMMA SumRemove ==
  ASSUME NEW S, IsFiniteSet(S), NEW f, \A x \in S : f[x] \in Nat, NEW e \in S
  PROVE  Sum(f, S) = f[e] + Sum(f, S \ {e})
<1> DEFINE Bad == {T \in SUBSET S : \E x \in T : Sum(f, T) # f[x] + Sum(f, T \ {x})}
<1>1. SUFFICES ASSUME Bad # {} PROVE FALSE
  <2>1. S \notin Bad
    BY Zenon, <1>1
  <2> QED
    BY Zenon, <2>1
<1>2. PICK T \in Bad : \A U \in Bad : U \subseteq T => U = T
  <2>1. Bad \in SUBSET SUBSET S
    OBVIOUS
  <2> HIDE DEF Bad
  <2> QED
    BY <1>1, <2>1, MinimalSet
<1>3. \A U \in SUBSET T : U \in SUBSET S /\ IsFiniteSet(U) /\ Sum(f, U) \in Nat
  <2> TAKE U \in SUBSET T
  <2>1. U \in SUBSET S
    OBVIOUS
  <2>2. IsFiniteSet(U)
    BY Zenon, <2>1, FS_Subset
  <2>3. \A x \in U : f[x] \in Nat
    BY Zenon, <2>1
  <2> QED
    BY Zenon, <2>1, <2>2, <2>3, SumNat
<1>4. PICK x \in T : Sum(f, T) # f[x] + Sum(f, T \ {x})
  BY <1>2
<1>5. PICK c : c = Some(T)
  OBVIOUS
<1>6. c \in T
  BY Zenon, <1>4, <1>5 DEF Some
<1>7. T \in SUBSET T
  OBVIOUS
<1>8. Sum(f, T) = f[c] + Sum(f, T \ {c})
  BY Zenon, <1>3, <1>4, <1>5, <1>7, SumRecursive
<1>9. c # x
  BY Zenon, <1>4, <1>8
<1>10. T \ {c} \notin Bad /\ T \ {x} \notin Bad
  BY <1>2, <1>4, <1>6
<1>11. T \ {c} \in SUBSET S /\ T \ {x} \in SUBSET S /\ x \in T \ {c} /\ c \in T \ {x}
  BY <1>4, <1>6, <1>9
<1>12. Sum(f, T \ {c}) = f[x] + Sum(f, (T \ {c}) \ {x})
  BY Zenon, <1>10, <1>11
<1>13. Sum(f, T \ {x}) = f[c] + Sum(f, (T \ {x}) \ {c})
  BY Zenon, <1>10, <1>11
<1>14. (T \ {c}) \ {x} = (T \ {x}) \ {c} /\ (T \ {c}) \ {x} \in SUBSET T
  OBVIOUS
<1>15. Sum(f, (T \ {c}) \ {x}) \in Nat
  BY Zenon, <1>3, <1>14
<1>16. f[c] \in Nat /\ f[x] \in Nat
  BY <1>4, <1>6
<1>17. f[c] + (f[x] + Sum(f, (T \ {c}) \ {x})) = f[x] + (f[c] + Sum(f, (T \ {c}) \ {x}))
  BY <1>15, <1>16
<1> QED
  BY Zenon, <1>4, <1>8, <1>12, <1>13, <1>14, <1>17

(* The sum over two sets that have nothing in common. *)
LEMMA SumUnion ==
  ASSUME NEW S, NEW T, IsFiniteSet(S), IsFiniteSet(T), S \cap T = {},
         NEW f, \A x \in S \cup T : f[x] \in Nat
  PROVE  Sum(f, S \cup T) = Sum(f, S) + Sum(f, T)
<1> DEFINE Bad == {U \in SUBSET T : Sum(f, S \cup U) # Sum(f, S) + Sum(f, U)}
<1>1. SUFFICES ASSUME Bad # {} PROVE FALSE
  <2>1. T \notin Bad
    BY Zenon, <1>1
  <2> QED
    BY <2>1
<1>2. PICK U \in Bad : \A V \in Bad : V \subseteq U => V = U
  <2>1. Bad \in SUBSET SUBSET T
    OBVIOUS
  <2> HIDE DEF Bad
  <2> QED
    BY <1>1, <2>1, MinimalSet
<1>3. IsFiniteSet(U) /\ U \in SUBSET T
  <2>1. U \in SUBSET T
    OBVIOUS
  <2> QED
    BY Zenon, <2>1, FS_Subset
<1>4. Sum(f, S) \in Nat
  <2>1. \A x \in S : f[x] \in Nat
    OBVIOUS
  <2> QED
    BY Zenon, <2>1, SumNat
<1>5. CASE U = {}
  <2>1. Sum(f, U) = 0
    BY Zenon, <1>3, <1>5, SumRecursive
  <2>2. S \cup U = S
    BY <1>5
  <2>3. Sum(f, S) = Sum(f, S) + 0
    BY <1>4
  <2> QED
    BY Zenon, <1>2, <2>1, <2>2, <2>3
<1>6. CASE U # {}
  <2>1. PICK x \in U : TRUE
    BY <1>6
  <2> DEFINE V == U \ {x}
  <2>2. V \in SUBSET T /\ V \notin Bad /\ (S \cup U) \ {x} = S \cup V
    <3>1. V \in SUBSET T /\ V \subseteq U /\ V # U
      BY <1>3, <2>1
    <3>2. x \notin S
      BY <1>3, <2>1
    <3>3. (S \cup U) \ {x} = S \cup V
      BY <2>1, <3>2
    <3> QED
      BY Zenon, <1>2, <3>1, <3>3
  <2>3. Sum(f, S \cup V) = Sum(f, S) + Sum(f, V)
    BY Zenon, <2>2
  <2>4. IsFiniteSet(S \cup U) /\ x \in S \cup U /\ \A y \in S \cup U : f[y] \in Nat
    <3>1. IsFiniteSet(S \cup U)
      BY Zenon, <1>3, FS_Union
    <3> QED
      BY <1>3, <2>1, <3>1
  <2>5. Sum(f, S \cup U) = f[x] + Sum(f, S \cup V)
    <3> HIDE DEF V
    <3> QED
      BY <2>2, <2>4, SumRemove
  <2>6. (\A y \in U : f[y] \in Nat) /\ f[x] \in Nat
    BY <1>3, <2>4
  <2>7. Sum(f, U) = f[x] + Sum(f, V)
    BY Zenon, <1>3, <2>1, <2>6, SumRemove
  <2>8. Sum(f, V) \in Nat
    <3>1. IsFiniteSet(V)
      BY Zenon, <2>2, FS_Subset
    <3>2. \A y \in V : f[y] \in Nat
      BY <2>6
    <3> HIDE DEF V
    <3> QED
      BY Zenon, <3>1, <3>2, SumNat
  <2> QED
    BY <1>2, <1>4, <2>3, <2>5, <2>6, <2>7, <2>8
<1> QED
  BY Zenon, <1>5, <1>6

(* A sum depends on the values in its set only. *)
LEMMA SumSame ==
  ASSUME NEW S, IsFiniteSet(S), NEW f, NEW g, \A x \in S : f[x] = g[x]
  PROVE  Sum(f, S) = Sum(g, S)
<1> DEFINE Bad == {T \in SUBSET S : Sum(f, T) # Sum(g, T)}
<1>1. SUFFICES ASSUME Bad # {} PROVE FALSE
  <2>1. S \notin Bad
    BY Zenon, <1>1
  <2> QED
    BY <2>1
<1>2. PICK T \in Bad : \A U \in Bad : U \subseteq T => U = T
  <2>1. Bad \in SUBSET SUBSET S
    OBVIOUS
  <2> HIDE DEF Bad
  <2> QED
    BY <1>1, <2>1, MinimalSet
<1>3. IsFiniteSet(T) /\ T \in SUBSET S
  <2>1. T \in SUBSET S
    OBVIOUS
  <2> QED
    BY Zenon, <2>1, FS_Subset
<1>4. Sum(f, T) = IF T = {} THEN 0 ELSE f[Some(T)] + Sum(f, T \ {Some(T)})
  BY Zenon, <1>3, SumRecursive
<1>5. Sum(g, T) = IF T = {} THEN 0 ELSE g[Some(T)] + Sum(g, T \ {Some(T)})
  BY Zenon, <1>3, SumRecursive
<1>6. T # {}
  BY Zenon, <1>2, <1>4, <1>5
<1>7. Some(T) \in T
  BY Zenon, <1>6 DEF Some
<1>8. Sum(f, T \ {Some(T)}) = Sum(g, T \ {Some(T)})
  BY <1>2, <1>7
<1>9. f[Some(T)] = g[Some(T)]
  BY Zenon, <1>3, <1>7
<1> QED
  BY Zenon, <1>2, <1>4, <1>5, <1>6, <1>8, <1>9

(* The sum of zeros. *)
LEMMA SumZero ==
  ASSUME NEW S, IsFiniteSet(S), NEW f, \A x \in S : f[x] = 0
  PROVE  Sum(f, S) = 0
<1> DEFINE Bad == {T \in SUBSET S : Sum(f, T) # 0}
<1>1. SUFFICES ASSUME Bad # {} PROVE FALSE
  <2>1. S \notin Bad
    BY Zenon, <1>1
  <2> QED
    BY <2>1
<1>2. PICK T \in Bad : \A U \in Bad : U \subseteq T => U = T
  <2>1. Bad \in SUBSET SUBSET S
    OBVIOUS
  <2> HIDE DEF Bad
  <2> QED
    BY <1>1, <2>1, MinimalSet
<1>3. IsFiniteSet(T) /\ T \in SUBSET S
  <2>1. T \in SUBSET S
    OBVIOUS
  <2> QED
    BY Zenon, <2>1, FS_Subset
<1>4. Sum(f, T) = IF T = {} THEN 0 ELSE f[Some(T)] + Sum(f, T \ {Some(T)})
  BY Zenon, <1>3, SumRecursive
<1>5. T # {}
  BY Zenon, <1>2, <1>4
<1>6. Some(T) \in T
  BY Zenon, <1>5 DEF Some
<1>7. Sum(f, T \ {Some(T)}) = 0
  BY <1>2, <1>6
<1>8. f[Some(T)] = 0
  BY Zenon, <1>3, <1>6
<1> QED
  BY <1>2, <1>4, <1>5, <1>7, <1>8

-----------------------------------------------------------------------------
(* The queues: no reader is in one twice. *)

Distinct(q) == \A i, j \in 1..Len(q) : q[i] = q[j] => i = j

LEMMA QueueRange ==
  ASSUME NEW S, NEW q \in Seq(S)
  PROVE  /\ Range(q) = {q[i] : i \in 1..Len(q)}
         /\ Range(q) \in SUBSET S
         /\ \A x : x \in Range(q) <=> \E i \in 1..Len(q) : q[i] = x
         /\ q # <<>> <=> Len(q) # 0
<1>1. DOMAIN q = 1..Len(q) /\ \A i \in 1..Len(q) : q[i] \in S
  OBVIOUS
<1>2. Range(q) = {q[i] : i \in 1..Len(q)}
  BY Zenon, <1>1 DEF Range
<1>3. q # <<>> <=> Len(q) # 0
  OBVIOUS
<1>4. Range(q) \in SUBSET S
  BY <1>1, <1>2
<1>5. \A x : x \in Range(q) <=> \E i \in 1..Len(q) : q[i] = x
  BY <1>2
<1> QED
  BY Zenon, <1>2, <1>3, <1>4, <1>5

(* One more in a queue. *)
LEMMA AppendQueue ==
  ASSUME NEW S, NEW q \in Seq(S), NEW x \in S
  PROVE  /\ Append(q, x) \in Seq(S)
         /\ Range(Append(q, x)) = Range(q) \cup {x}
         /\ Distinct(q) /\ x \notin Range(q) => Distinct(Append(q, x))
         /\ Append(q, x) # <<>>
<1> DEFINE p == Append(q, x)
<1>1. /\ p \in Seq(S) /\ p # <<>> /\ Len(p) = Len(q) + 1 /\ p[Len(q) + 1] = x
      /\ \A i \in 1..Len(q) : p[i] = q[i]
  OBVIOUS
<1>2. \A i \in 1..Len(p) : i \in 1..Len(q) \/ i = Len(q) + 1
  BY <1>1
<1>3. \A i \in 1..Len(q) : i \in 1..Len(p)
  BY <1>1
<1>4. Len(q) + 1 \in 1..Len(p)
  BY <1>1
<1>5. \A y : y \in Range(q) <=> \E i \in 1..Len(q) : q[i] = y
  BY ZenonT(60), QueueRange
<1> HIDE DEF p
<1>6. \A y : y \in Range(p) <=> \E i \in 1..Len(p) : p[i] = y
  BY Zenon, <1>1, QueueRange
<1>7. Range(p) = Range(q) \cup {x}
  <2>1. \A y : y \in Range(p) <=> y \in Range(q) \/ y = x
    BY Zenon, <1>1, <1>2, <1>3, <1>4, <1>5, <1>6
  <2> QED
    BY <2>1
<1>8. ASSUME Distinct(q), x \notin Range(q) PROVE Distinct(p)
  <2>1. ASSUME NEW i \in 1..Len(p), NEW j \in 1..Len(p), p[i] = p[j] PROVE i = j
    <3>1. \A k \in 1..Len(q) : q[k] # x
      BY Zenon, <1>5, <1>8
    <3> QED
      BY Zenon, <1>1, <1>2, <1>8, <2>1, <3>1 DEF Distinct
  <2> QED
    BY Zenon, <2>1 DEF Distinct
<1> QED
  BY Zenon, <1>1, <1>7, <1>8 DEF p

(* A queue without its first ones. *)
LEMMA RestQueue ==
  ASSUME NEW S, NEW q \in Seq(S), NEW k \in 0..Len(q)
  PROVE  /\ Rest(q, k) \in Seq(S)
         /\ FirstOf(q, k) \in SUBSET Range(q)
         /\ Range(Rest(q, k)) \in SUBSET Range(q)
         /\ Range(q) = FirstOf(q, k) \cup Range(Rest(q, k))
         /\ Distinct(q) => Distinct(Rest(q, k)) /\ Range(Rest(q, k)) = Range(q) \ FirstOf(q, k)
         /\ k = Len(q) <=> Rest(q, k) = <<>>
<1> DEFINE p == Rest(q, k)
<1>1. k + 1 \in Int /\ Len(q) \in Int /\ Len(q) \in Nat /\ k \in Nat /\ k <= Len(q)
  OBVIOUS
<1>2. p \in Seq(S)
  BY DEF Rest
<1>3. Len(p) = Len(q) - k
  BY DEF Rest
<1>4. \A i \in 1..Len(q) - k : p[i] = q[k + i]
  BY DEF Rest
<1>5. \A i \in 1..Len(p) : p[i] = q[k + i] /\ k + i \in 1..Len(q)
  BY <1>1, <1>4, <1>3
<1>6. k = Len(q) <=> p = <<>>
  BY <1>1, <1>2, <1>3
<1> HIDE DEF p
<1>7. \A y : y \in Range(q) <=> \E i \in 1..Len(q) : q[i] = y
  BY ZenonT(60), QueueRange
<1>8. \A y : y \in Range(p) <=> \E i \in 1..Len(p) : p[i] = y
  BY ZenonT(60), <1>2, QueueRange
<1>9. \A y : y \in FirstOf(q, k) <=> \E i \in 1..k : q[i] = y
  BY DEF FirstOf
<1>10. \A i \in 1..k : i \in 1..Len(q)
  BY <1>1
<1>11. \A i \in 1..Len(q) : i \in 1..k \/ (i - k \in 1..Len(p) /\ p[i - k] = q[i])
  <2> TAKE i \in 1..Len(q)
  <2>1. i \notin 1..k => i - k \in 1..Len(p) /\ k + (i - k) = i
    BY <1>1, <1>3
  <2> QED
    BY Zenon, <1>5, <2>1
<1>12. Range(q) = FirstOf(q, k) \cup Range(p)
  <2>1. \A y : y \in Range(q) <=> y \in FirstOf(q, k) \/ y \in Range(p)
    BY ZenonT(60), <1>5, <1>7, <1>8, <1>9, <1>10, <1>11
  <2> QED
    BY <2>1
<1>13. ASSUME Distinct(q) PROVE Distinct(p) /\ Range(p) = Range(q) \ FirstOf(q, k)
  <2>1. ASSUME NEW i \in 1..Len(p), NEW j \in 1..Len(p), p[i] = p[j] PROVE i = j
    <3>1. k + i = k + j
      BY Zenon, <1>5, <1>13, <2>1 DEF Distinct
    <3> QED
      BY <1>1, <1>2, <3>1
  <2>2. ASSUME NEW y \in Range(p), y \in FirstOf(q, k) PROVE FALSE
    <3>1. PICK i \in 1..Len(p) : p[i] = y
      BY Zenon, <1>8
    <3>2. PICK j \in 1..k : q[j] = y
      BY Zenon, <1>9, <2>2
    <3>3. k + i = j
      BY Zenon, <1>5, <1>10, <1>13, <3>1, <3>2 DEF Distinct
    <3> QED
      BY <1>1, <3>3
  <2>3. Distinct(p)
    BY Zenon, <2>1 DEF Distinct
  <2> QED
    BY <1>12, <2>2, <2>3
<1>14. FirstOf(q, k) \in SUBSET Range(q) /\ Range(p) \in SUBSET Range(q)
  BY <1>12
<1> QED
  BY Zenon, <1>2, <1>6, <1>12, <1>13, <1>14 DEF p

(* So many are the first ones of a queue. *)
LEMMA FirstCount ==
  ASSUME NEW S, NEW q \in Seq(S), Distinct(q), NEW k \in 0..Len(q)
  PROVE  IsFiniteSet(FirstOf(q, k)) /\ Cardinality(FirstOf(q, k)) = k
<1> DEFINE f == [i \in 1..k |-> q[i]]
<1>1. f \in Injection(1..k, FirstOf(q, k))
  BY DEF Injection, IsInjective, Distinct, FirstOf
<1>2. f \in Surjection(1..k, FirstOf(q, k))
  BY DEF Surjection, FirstOf
<1>3. IsFiniteSet(1..k) /\ Cardinality(1..k) = k
  BY FS_Interval
<1> HIDE DEF f
<1> QED
  BY Zenon, <1>1, <1>2, <1>3, FS_Surjection

(* A queue without some. *)
KeptStep(f, q, T, n) ==
  IF n = 0 THEN <<>> ELSE IF q[n] \in T THEN f[n - 1] ELSE Append(f[n - 1], q[n])
IsKept(f, q, T, m) == f = [n \in 0..m |-> KeptStep(f, q, T, n)]

(* The recursion of Without() defines a function. *)
LEMMA KeptExists ==
  ASSUME NEW S, NEW q \in Seq(S), NEW T, NEW n \in Nat
  PROVE  \E f : IsKept(f, q, T, n)
<1> DEFINE Bad == {m \in Nat : ~\E f : IsKept(f, q, T, m)}
<1>1. SUFFICES ASSUME Bad # {} PROVE FALSE
  <2>1. n \notin Bad
    BY Zenon, <1>1
  <2> QED
    BY <2>1
<1>2. PICK m \in Bad : \A k \in Bad : m <= k
  <2>1. Bad \in SUBSET Nat
    OBVIOUS
  <2> HIDE DEF Bad
  <2> QED
    BY Zenon, <1>1, <2>1, LeastNat
<1>3. CASE m = 0
  <2> DEFINE f == [k \in 0..0 |-> <<>>]
  <2>1. IsKept(f, q, T, 0)
    BY DEF IsKept, KeptStep
  <2> QED
    BY Zenon, <1>2, <1>3, <2>1
<1>4. CASE m # 0
  <2>1. m - 1 \in Nat /\ m - 1 \notin Bad
    BY <1>2, <1>4
  <2>2. PICK f : IsKept(f, q, T, m - 1)
    BY Zenon, <2>1
  <2> DEFINE g == [k \in 0..m |-> IF k = m THEN KeptStep(f, q, T, m) ELSE f[k]]
  <2>3. \A k \in 0..m - 1 : f[k] = KeptStep(f, q, T, k)
    BY SMTT(30), <2>2 DEF IsKept
  <2>4. ASSUME NEW k \in 0..m PROVE g[k] = KeptStep(g, q, T, k)
    <3>1. k # 0 => k - 1 \in 0..m /\ k - 1 # m /\ g[k - 1] = f[k - 1]
      BY <1>2
    <3>2. KeptStep(g, q, T, k) = KeptStep(f, q, T, k)
      BY <3>1 DEF KeptStep
    <3>3. k # m => g[k] = f[k] /\ k \in 0..m - 1
      BY <1>2
    <3> QED
      BY <2>3, <3>2, <3>3
  <2>5. IsKept(g, q, T, m)
    <3>1. g = [k \in 0..m |-> g[k]]
      OBVIOUS
    <3> HIDE DEF g
    <3> QED
      BY <2>4, <3>1 DEF IsKept
  <2> QED
    BY Zenon, <1>2, <2>5
<1> QED
  BY Zenon, <1>3, <1>4

(* What is kept of the first k of a queue. *)
KeptOf(p, S, q, T, k) ==
  /\ p \in Seq(S)
  /\ Range(p) = FirstOf(q, k) \ T
  /\ Distinct(q) => Distinct(p)

(* Without() keeps all the others, each of them once. *)
LEMMA WithoutQueue ==
  ASSUME NEW S, NEW q \in Seq(S), NEW T
  PROVE  /\ Without(q, T) \in Seq(S)
         /\ Range(Without(q, T)) = Range(q) \ T
         /\ Distinct(q) => Distinct(Without(q, T))
<1>1. PICK f : f = (CHOOSE g : IsKept(g, q, T, Len(q)))
  OBVIOUS
<1>2. IsKept(f, q, T, Len(q))
  <2>1. Len(q) \in Nat
    OBVIOUS
  <2> QED
    BY Zenon, <1>1, <2>1, KeptExists
<1>3. Without(q, T) = f[Len(q)]
  BY Zenon, <1>1 DEF Without, IsKept, KeptStep
<1> DEFINE Good(k) == KeptOf(f[k], S, q, T, k)
           Bad == {k \in Nat : k <= Len(q) /\ ~Good(k)}
<1>4. ASSUME Bad # {} PROVE FALSE
  <2>1. PICK m \in Bad : \A k \in Bad : m <= k
    <3>1. Bad \in SUBSET Nat
      OBVIOUS
    <3> HIDE DEF Bad
    <3> QED
      BY Zenon, <1>4, <3>1, LeastNat
  <2>2. f[m] = KeptStep(f, q, T, m)
    BY <1>2, <2>1 DEF IsKept
  <2>3. CASE m = 0
    <3>1. f[m] = <<>>
      BY Zenon, <2>2, <2>3 DEF KeptStep
    <3>2. <<>> \in Seq(S) /\ Distinct(<<>>) /\ FirstOf(q, 0) = {} /\ Len(<<>>) = 0
      BY DEF Distinct, FirstOf
    <3>3. Range(<<>>) = {}
      <4>1. ~\E i \in 1..Len(<<>>) : TRUE
        BY SMTT(30), <3>2
      <4>2. \A x : x \in Range(<<>>) <=> \E i \in 1..Len(<<>>) : <<>>[i] = x
        BY Zenon, <3>2, QueueRange
      <4>3. \A x : x \notin Range(<<>>)
        BY Zenon, <4>1, <4>2
      <4> QED
        BY <4>3
    <3> QED
      BY Zenon, <2>1, <2>3, <3>1, <3>2, <3>3 DEF KeptOf
  <2>4. CASE m # 0
    <3>1. m - 1 \in Nat /\ m - 1 \notin Bad /\ m - 1 <= Len(q) /\ m \in 1..Len(q)
      BY <2>1, <2>4
    <3>2. KeptOf(f[m - 1], S, q, T, m - 1)
      BY Zenon, <3>1
    <3>3. FirstOf(q, m) = FirstOf(q, m - 1) \cup {q[m]}
      <4>1. 1..m = (1..m - 1) \cup {m}
        BY <3>1
      <4> QED
        BY <4>1 DEF FirstOf
    <3>4. q[m] \in S
      BY <3>1
    <3>5. CASE q[m] \in T
      <4>1. f[m] = f[m - 1]
        BY Zenon, <2>2, <2>4, <3>5 DEF KeptStep
      <4>2. FirstOf(q, m) \ T = FirstOf(q, m - 1) \ T
        BY <3>3, <3>5
      <4>3. KeptOf(f[m], S, q, T, m)
        BY Zenon, <3>2, <4>1, <4>2 DEF KeptOf
      <4> QED
        BY Zenon, <2>1, <4>3
    <3>6. CASE q[m] \notin T
      <4>1. f[m] = Append(f[m - 1], q[m])
        BY Zenon, <2>2, <2>4, <3>6 DEF KeptStep
      <4>2. FirstOf(q, m) \ T = (FirstOf(q, m - 1) \ T) \cup {q[m]}
        BY <3>3, <3>6
      <4>3. Distinct(q) => q[m] \notin FirstOf(q, m - 1)
        BY <3>1 DEF Distinct, FirstOf
      <4>4. f[m - 1] \in Seq(S) /\ Range(f[m - 1]) = FirstOf(q, m - 1) \ T
        BY Zenon, <3>2 DEF KeptOf
      <4>5. /\ Append(f[m - 1], q[m]) \in Seq(S)
            /\ Range(Append(f[m - 1], q[m])) = Range(f[m - 1]) \cup {q[m]}
            /\ (Distinct(f[m - 1]) /\ q[m] \notin Range(f[m - 1]) => Distinct(Append(f[m - 1], q[m])))
        BY <3>4, <4>4, AppendQueue
      <4>6. Distinct(q) => q[m] \notin Range(f[m - 1])
        BY <4>3, <4>4
      <4>7. KeptOf(f[m], S, q, T, m)
        BY Zenon, <3>2, <4>1, <4>2, <4>4, <4>5, <4>6 DEF KeptOf
      <4> QED
        BY Zenon, <2>1, <4>7
    <3> QED
      BY Zenon, <3>5, <3>6
  <2> QED
    BY Zenon, <2>3, <2>4
<1>5. Good(Len(q))
  <2>1. Len(q) \in Nat /\ Len(q) <= Len(q)
    OBVIOUS
  <2>2. Len(q) \notin Bad
    BY Zenon, <1>4
  <2> QED
    BY Zenon, <2>1, <2>2
<1>6. FirstOf(q, Len(q)) = Range(q)
  <2>1. Range(q) = {q[i] : i \in 1..Len(q)}
    BY ZenonT(60), QueueRange
  <2> QED
    BY Zenon, <2>1 DEF FirstOf
<1> QED
  BY Zenon, <1>3, <1>5, <1>6 DEF KeptOf

-----------------------------------------------------------------------------
(* Resources: what is available and what permits, files being closed and buffers hold. *)

Resources == [count : Int, memory : Int]
Marked(f) == {r \in All : f[r]}
Held(prm, cls) == Cardinality(Marked(prm)) + Cardinality(Marked(cls))
Balanced(a, prm, cls, mem) ==
  /\ a.count + Held(prm, cls) = Count
  /\ a.memory + Held(prm, cls) + Sum(mem, All) = Memory

LEMMA AddUp == ResourcesAddUp <=> Balanced(avail, permit, closing, units)
BY Zenon DEF ResourcesAddUp, Balanced, Held, Marked, Sum

LEMMA AddUpNext == ResourcesAddUp' <=> Balanced(avail', permit', closing', units')
BY Zenon DEF ResourcesAddUp, Balanced, Held, Marked, Sum

(* The sets of readers are finite. *)
LEMMA FiniteReaders ==
  ASSUME NEW T \in SUBSET All
  PROVE  IsFiniteSet(T) /\ Cardinality(T) \in Nat
<1>1. IsFiniteSet(All)
  BY Zenon, ReadersAssumption
<1>2. IsFiniteSet(T)
  BY Zenon, <1>1, FS_Subset
<1> QED
  BY Zenon, <1>2, FS_CardinalityType

(* Two parts of a set that have nothing in common. *)
LEMMA TwoParts ==
  ASSUME NEW T \in SUBSET All, NEW U \in SUBSET All, T \cap U = {}
  PROVE  Cardinality(T \cup U) = Cardinality(T) + Cardinality(U)
<1>1. IsFiniteSet(T) /\ IsFiniteSet(U) /\ Cardinality(T) \in Nat /\ Cardinality(U) \in Nat
  BY Zenon, FiniteReaders
<1>2. Cardinality(T \cup U) = Cardinality(T) + Cardinality(U) - Cardinality(T \cap U)
  BY Zenon, <1>1, FS_Union
<1>3. Cardinality(T \cap U) = 0
  BY Zenon, FS_EmptySet
<1> QED
  BY <1>1, <1>2, <1>3

LEMMA MarkedType ==
  ASSUME NEW f
  PROVE  Marked(f) \in SUBSET All /\ Cardinality(Marked(f)) \in Nat
<1>1. Marked(f) \in SUBSET All
  BY DEF Marked
<1> QED
  BY Zenon, <1>1, FiniteReaders

(* The types of the state, without those of the inactive reads. *)
PCs == {"idle", "pending", "waiting", "active", "paused"}
Types ==
  /\ avail \in Resources
  /\ wait \in Seq(All)
  /\ pc \in [All -> PCs]
  /\ permit \in [All -> BOOLEAN] /\ closing \in [All -> BOOLEAN]
  /\ units \in [All -> Nat]

(* Destroyed readers give back what they hold, but for the permits that the files keep. *)
LEMMA DropResources ==
  ASSUME Types, Balanced(avail, permit, closing, units),
         NEW S \in SUBSET All, NEW late \in SUBSET MayBeLate(S), Destroyed(S, late)
  PROVE  /\ Returned(avail, S, late) \in Resources
         /\ PermitsWithout(S) \in [All -> BOOLEAN]
         /\ units' \in [All -> Nat] /\ closing' \in [All -> BOOLEAN]
         /\ Balanced(Returned(avail, S, late), PermitsWithout(S), closing', units')
<1> DEFINE back == {r \in S \ late : permit[r]}
           a == Returned(avail, S, late)
           rest == All \ S
<1>1. /\ avail.count \in Int /\ avail.memory \in Int
      /\ permit \in [All -> BOOLEAN] /\ closing \in [All -> BOOLEAN] /\ units \in [All -> Nat]
  BY DEF Types, Resources
<1>2. /\ late \in SUBSET All /\ back \in SUBSET All /\ late \cap back = {}
      /\ \A r \in late : r \in S /\ permit[r] /\ ~closing[r]
  BY DEF MayBeLate
<1>3. units' = [r \in All |-> IF r \in S THEN 0 ELSE units[r]]
      /\ closing' = [r \in All |-> r \in late \/ closing[r]]
  BY Zenon DEF Destroyed
<1>4. units' \in [All -> Nat]
  BY <1>1, <1>3
<1>5. closing' \in [All -> BOOLEAN]
  BY <1>1, <1>3
<1>6. PermitsWithout(S) \in [All -> BOOLEAN]
  BY <1>1 DEF PermitsWithout
<1>7. Cardinality(Marked(closing')) = Cardinality(late) + Cardinality(Marked(closing))
  <2>1. Marked(closing') = late \cup Marked(closing) /\ late \cap Marked(closing) = {}
    BY <1>1, <1>2, <1>3 DEF Marked
  <2>2. Marked(closing) \in SUBSET All
    BY Zenon, MarkedType
  <2> QED
    BY Zenon, <1>2, <2>1, <2>2, TwoParts
<1>8. Cardinality(Marked(permit)) =
        Cardinality(Marked(PermitsWithout(S))) + (Cardinality(late) + Cardinality(back))
  <2>1. /\ Marked(permit) = Marked(PermitsWithout(S)) \cup (late \cup back)
        /\ Marked(PermitsWithout(S)) \cap (late \cup back) = {}
    BY Zenon, <1>1, <1>2 DEF Marked, PermitsWithout
  <2>2. Marked(PermitsWithout(S)) \in SUBSET All /\ late \cup back \in SUBSET All
    BY <1>2 DEF Marked
  <2>3. Cardinality(late \cup back) = Cardinality(late) + Cardinality(back)
    BY Zenon, <1>2, TwoParts
  <2> HIDE DEF back
  <2> QED
    BY ZenonT(60), <2>1, <2>2, <2>3, TwoParts
<1>9. /\ Cardinality(late) \in Nat /\ Cardinality(back) \in Nat
      /\ Cardinality(Marked(closing)) \in Nat /\ Cardinality(Marked(permit)) \in Nat
      /\ Cardinality(Marked(PermitsWithout(S))) \in Nat
  <2> HIDE DEF back
  <2> QED
    BY Zenon, <1>2, FiniteReaders, MarkedType
<1>10. /\ Sum(units, All) = Sum(units', All) + Sum(units, S)
       /\ Sum(units, S) \in Nat /\ Sum(units', All) \in Nat
  <2>1. IsFiniteSet(S) /\ IsFiniteSet(rest) /\ IsFiniteSet(All)
        /\ All = S \cup rest /\ S \cap rest = {}
    <3>1. rest \in SUBSET All /\ All \in SUBSET All /\ All = S \cup rest /\ S \cap rest = {}
      OBVIOUS
    <3> HIDE DEF rest
    <3> QED
      BY Zenon, <3>1, FiniteReaders
  <2>2. \A r \in rest : units'[r] = units[r]
    BY <1>3
  <2>3. \A r \in S : units'[r] = 0
    BY <1>3
  <2>4. (\A r \in S \cup rest : units[r] \in Nat) /\ (\A r \in S \cup rest : units'[r] \in Nat)
        /\ (\A r \in S : units[r] \in Nat) /\ (\A r \in All : units'[r] \in Nat)
        /\ (\A r \in rest : units[r] \in Nat)
    BY <1>1, <1>4
  <2> HIDE DEF rest
  <2>5. Sum(units, All) = Sum(units, S) + Sum(units, rest)
    BY SMTT(30), <2>1, <2>4, SumUnion
  <2>6. Sum(units', All) = Sum(units', S) + Sum(units', rest)
    BY SMTT(30), <2>1, <2>4, SumUnion
  <2>7. Sum(units', rest) = Sum(units, rest)
    BY Zenon, <2>1, <2>2, SumSame
  <2>8. Sum(units', S) = 0
    BY Zenon, <2>1, <2>3, SumZero
  <2>9. Sum(units, S) \in Nat /\ Sum(units', All) \in Nat /\ Sum(units, rest) \in Nat
    BY Zenon, <2>1, <2>4, SumNat
  <2> QED
    BY <2>5, <2>6, <2>7, <2>8, <2>9
<1>11. /\ a.count = avail.count + Cardinality(back)
       /\ a.memory = avail.memory + Cardinality(back) + Sum(units, S)
       /\ a = [count |-> a.count, memory |-> a.memory]
  BY DEF Returned, Sum
<1>12. /\ avail.count + Held(permit, closing) = Count
       /\ avail.memory + Held(permit, closing) + Sum(units, All) = Memory
  BY Zenon DEF Balanced
<1> HIDE DEF back, a
<1>13. a \in Resources
  <2>1. a.count \in Int /\ a.memory \in Int
    BY SMTT(30), <1>1, <1>9, <1>10, <1>11
  <2> QED
    BY <1>11, <2>1 DEF Resources
<1>14. /\ a.count + Held(PermitsWithout(S), closing') = Count
       /\ a.memory + Held(PermitsWithout(S), closing') + Sum(units', All) = Memory
  BY SMTT(30), <1>1, <1>7, <1>8, <1>9, <1>10, <1>11, <1>12 DEF Held
<1> QED
  BY Zenon, <1>4, <1>5, <1>6, <1>13, <1>14 DEF Balanced, a

-----------------------------------------------------------------------------
(* Signals. *)

(* Nobody who waits has a permit. *)
Waiters ==
  /\ Distinct(wait)
  /\ \A r \in Range(wait) : pc[r] = "waiting" /\ ~permit[r]

Admitted == Range(wait) \ Range(wait')

(* What a step leaves that destroys the readers of S and then signals. *)
Settled(S, pcs) ==
  /\ avail' \in Resources /\ wait' \in Seq(All) /\ pc' \in [All -> PCs]
  /\ permit' \in [All -> BOOLEAN]
  /\ Balanced(avail', permit', closing', units')
  /\ wait' # <<>> => ~Fits(avail')
  /\ wait = <<>> => wait' = <<>>
  /\ Distinct(wait') /\ Range(wait') \in SUBSET Range(wait)
  /\ \A r \in All : pc'[r] = IF r \in Admitted THEN "active" ELSE pcs[r]
  /\ \A r \in All : permit'[r] => r \in Admitted \/ (permit[r] /\ r \notin S)
  /\ \A r \in All : permit'[r] /\ ~permit[r] =>
       \A i \in 1..Len(wait) :
         (\A j \in 1..Len(wait) : wait[j] = r => i < j) => wait[i] \notin Range(wait')

(* signal() keeps the balance, admits in order and leaves nobody waiting who fits. *)
LEMMA SignalSettles ==
  ASSUME Types, Waiters, NEW S \in SUBSET All,
         NEW pcs \in [All -> PCs], NEW a \in Resources,
         Balanced(a, PermitsWithout(S), closing', units'),
         closing' \in [All -> BOOLEAN], units' \in [All -> Nat],
         Signal(a, wait, pcs, PermitsWithout(S))
  PROVE  Settled(S, pcs)
<1> DEFINE prm == PermitsWithout(S)
<1>1. PICK k \in 0..Len(wait) :
        /\ k < Len(wait) => ~Fits(Take(a, k))
        /\ avail' = Take(a, k)
        /\ wait' = Rest(wait, k)
        /\ pc' = [r \in All |-> IF r \in FirstOf(wait, k) THEN "active" ELSE pcs[r]]
        /\ permit' = [r \in All |-> r \in FirstOf(wait, k) \/ prm[r]]
  BY Zenon DEF Signal
<1>2. wait \in Seq(All) /\ permit \in [All -> BOOLEAN] /\ Distinct(wait) /\ k \in Nat
      /\ Len(wait) \in Nat /\ k <= Len(wait)
  <2>1. wait \in Seq(All) /\ permit \in [All -> BOOLEAN] /\ Distinct(wait)
    BY Zenon DEF Types, Waiters
  <2> QED
    BY <2>1
<1> DEFINE F == FirstOf(wait, k)
<1>3. /\ wait' \in Seq(All) /\ F \in SUBSET Range(wait)
      /\ Range(wait') \in SUBSET Range(wait)
      /\ Distinct(wait') /\ Range(wait') = Range(wait) \ F
      /\ (k = Len(wait) <=> wait' = <<>>)
  BY Zenon, <1>1, <1>2, RestQueue
<1>4. Range(wait) \in SUBSET All
  BY Zenon, <1>2, QueueRange
<1>5. IsFiniteSet(F) /\ Cardinality(F) = k
  BY Zenon, <1>2, FirstCount
<1>6. Admitted = F
  BY <1>3 DEF Admitted
<1>7. \A r \in All : prm[r] <=> (r \notin S /\ permit[r])
  BY Zenon, <1>2 DEF PermitsWithout
<1>8. prm \in [All -> BOOLEAN]
  BY <1>2 DEF PermitsWithout
<1> HIDE DEF F, prm
<1>9. pc' \in [All -> PCs]
  BY <1>1 DEF PCs, F
<1>10. permit' \in [All -> BOOLEAN] /\ \A r \in All : permit'[r] <=> r \in F \/ prm[r]
  BY Zenon, <1>1, <1>8 DEF F
<1>11. avail' \in Resources /\ avail'.count = a.count - k /\ avail'.memory = a.memory - k
  BY <1>1, <1>2 DEF Take, Resources
<1>12. Cardinality(Marked(permit')) = k + Cardinality(Marked(prm))
  <2>1. Marked(permit') = F \cup Marked(prm)
    BY <1>3, <1>4, <1>10 DEF Marked
  <2>2. F \cap Marked(prm) = {}
    <3>1. \A r \in F : ~permit[r]
      BY Zenon, <1>3 DEF Waiters
    <3> QED
      BY <1>7, <3>1 DEF Marked
  <2>3. F \in SUBSET All /\ Marked(prm) \in SUBSET All
    BY <1>3, <1>4 DEF Marked
  <2> QED
    BY Zenon, <1>5, <2>1, <2>2, <2>3, TwoParts
<1>13. Balanced(avail', permit', closing', units')
  <2>1. Sum(units', All) \in Nat
    <3>1. All \in SUBSET All
      OBVIOUS
    <3>2. \A r \in All : units'[r] \in Nat
      OBVIOUS
    <3> QED
      BY Zenon, <3>1, <3>2, FiniteReaders, SumNat
  <2>2. /\ Cardinality(Marked(prm)) \in Nat /\ Cardinality(Marked(closing')) \in Nat
        /\ a.count \in Int /\ a.memory \in Int
    <3>1. a.count \in Int /\ a.memory \in Int
      BY DEF Resources
    <3> QED
      BY Zenon, <3>1, MarkedType
  <2>3. /\ a.count + Held(prm, closing') = Count
        /\ a.memory + Held(prm, closing') + Sum(units', All) = Memory
    BY Zenon DEF Balanced, prm
  <2>4. /\ avail'.count + Held(permit', closing') = Count
        /\ avail'.memory + Held(permit', closing') + Sum(units', All) = Memory
    <3>1. Held(permit', closing') = k + Held(prm, closing')
      BY SMTT(30), <1>2, <1>12, <2>2 DEF Held
    <3>2. Held(prm, closing') \in Nat
      BY SMTT(30), <2>2 DEF Held
    <3>3. avail'.count = a.count - k /\ avail'.memory = a.memory - k /\ k \in Nat
      BY Zenon, <1>2, <1>11
    <3> QED
      BY SMTT(30), <2>1, <2>2, <2>3, <3>1, <3>2, <3>3
  <2> QED
    BY Zenon, <2>4 DEF Balanced
<1>14. wait' # <<>> => ~Fits(avail')
  <2>1. wait' # <<>> => k < Len(wait)
    BY <1>2, <1>3
  <2> QED
    BY Zenon, <1>1, <2>1
<1>15. wait = <<>> => wait' = <<>>
  <2>1. wait = <<>> => Len(wait) = 0
    OBVIOUS
  <2>2. wait = <<>> => k = Len(wait)
    BY <1>2, <2>1
  <2> QED
    BY Zenon, <1>3, <2>2
<1>16. \A r \in All : pc'[r] = IF r \in Admitted THEN "active" ELSE pcs[r]
  BY Zenon, <1>1, <1>6 DEF F
<1>17. \A r \in All : permit'[r] => r \in Admitted \/ (permit[r] /\ r \notin S)
  BY Zenon, <1>6, <1>7, <1>10
<1>18. ASSUME NEW r \in All, permit'[r], ~permit[r], NEW i \in 1..Len(wait),
              \A j \in 1..Len(wait) : wait[j] = r => i < j
       PROVE  wait[i] \notin Range(wait')
  <2>1. r \in F
    BY Zenon, <1>7, <1>10, <1>18
  <2>2. PICK m \in 1..k : wait[m] = r
    BY <2>1 DEF F, FirstOf
  <2>3. m \in 1..Len(wait) /\ i \in Nat
    BY <1>2
  <2>4. i < m
    BY Zenon, <1>18, <2>2, <2>3
  <2>5. i \in 1..k
    BY <1>2, <2>3, <2>4
  <2>6. wait[i] \in F
    BY <2>5 DEF F, FirstOf
  <2> QED
    BY Zenon, <1>6, <2>6 DEF Admitted
<1> QED
  BY Zenon, <1>3, <1>9, <1>10, <1>11, <1>13, <1>14, <1>15, <1>16, <1>17, <1>18 DEF Settled

(* Drop(): readers are destroyed, and what they give back is signalled. *)
LEMMA DropSettles ==
  ASSUME Types, Waiters, Balanced(avail, permit, closing, units), NEW S \in SUBSET All,
         NEW pcs \in [All -> PCs], Drop(S, pcs)
  PROVE  /\ Settled(S, pcs)
         /\ units' \in [All -> Nat] /\ closing' \in [All -> BOOLEAN]
<1>1. PICK late \in SUBSET MayBeLate(S) :
        Destroyed(S, late) /\ Signal(Returned(avail, S, late), wait, pcs, PermitsWithout(S))
  BY Zenon DEF Drop
<1>2. /\ Returned(avail, S, late) \in Resources
      /\ units' \in [All -> Nat] /\ closing' \in [All -> BOOLEAN]
      /\ Balanced(Returned(avail, S, late), PermitsWithout(S), closing', units')
  BY Zenon, <1>1, DropResources
<1>3. PICK a : a = Returned(avail, S, late)
  OBVIOUS
<1>4. Settled(S, pcs)
  BY Zenon, <1>1, <1>2, <1>3, SignalSettles
<1> QED
  BY Zenon, <1>2, <1>4

-----------------------------------------------------------------------------
(* The inactive reads and the cache. *)

Reads == [id : Nat, reader : All]
Parked(ina, r) == \E i \in Range(ina) : i.reader = r

(* A handle leads to the reader that got it, and only paused readers are registered. *)
Registry(ina, ent, hnd, nid, pcs, prm) ==
  /\ ina \in Seq(Reads) /\ ent \in Seq(Queriers) /\ hnd \in [All -> Nat] /\ nid \in Nat
  /\ Distinct(ina) /\ Distinct(ent)
  /\ \A r \in All : hnd[r] < nid
  /\ \A i \in Range(ina) : i.id # 0
  /\ \A r \in All, i \in Range(ina) : hnd[r] = i.id => i.reader = r
  /\ \A r \in Range(ent) : [id |-> hnd[r], reader |-> r] \in Range(ina)
  /\ \A i \in Range(ina) :
       /\ pcs[i.reader] = "paused" /\ hnd[i.reader] = i.id
       /\ i.reader \in Queriers => i.reader \in Range(ent)
  /\ \A r \in All : prm[r] => pcs[r] = "active" \/ Parked(ina, r)

LEMMA RegisteredReads ==
  ASSUME NEW ina \in Seq(Reads), NEW i \in Range(ina)
  PROVE  i \in Reads /\ i.id \in Nat /\ i.reader \in All /\ i = [id |-> i.id, reader |-> i.reader]
<1>1. i \in Reads
  BY QueueRange
<1> QED
  BY <1>1 DEF Reads

(* The inactive reads, the cached queriers and the handles lose the readers of S. *)
Smaller(ina, ent, hnd, S, ina2, ent2, hnd2) ==
  /\ ina2 \in Seq(Reads) /\ ent2 \in Seq(Queriers) /\ hnd2 \in [All -> Nat]
  /\ Distinct(ina2) /\ Distinct(ent2)
  /\ \A i : i \in Range(ina2) <=> i \in Range(ina) /\ i.reader \notin S
  /\ \A r : r \in Range(ent2) <=> r \in Range(ent) /\ r \notin S
  /\ \A r \in All : hnd2[r] = hnd[r] \/ (r \in S /\ hnd2[r] = 0)

(* Those who stay registered are still paused, and only they have permits without running. *)
Stays(ina, S, pcs2, prm2) ==
  /\ \A r \in All : r \notin S /\ Parked(ina, r) => pcs2[r] = "paused"
  /\ \A r \in All : prm2[r] => pcs2[r] = "active" \/ (r \notin S /\ Parked(ina, r))

(* The readers of S leave, and others change in a way that does not concern those who stay. *)
LEMMA RegistryShrinks ==
  ASSUME NEW ina, NEW ent, NEW hnd, NEW nid, NEW pcs, NEW prm,
         Registry(ina, ent, hnd, nid, pcs, prm),
         NEW S, NEW ina2, NEW ent2, NEW hnd2, Smaller(ina, ent, hnd, S, ina2, ent2, hnd2),
         NEW pcs2, NEW prm2, Stays(ina, S, pcs2, prm2)
  PROVE  Registry(ina2, ent2, hnd2, nid, pcs2, prm2)
<1> USE DEF Smaller, Stays
<1>1. /\ ina \in Seq(Reads) /\ ent \in Seq(Queriers) /\ hnd \in [All -> Nat] /\ nid \in Nat
      /\ \A r \in All : hnd[r] < nid
      /\ \A i \in Range(ina) : i.id # 0
      /\ \A r \in All, i \in Range(ina) : hnd[r] = i.id => i.reader = r
      /\ \A r \in Range(ent) : [id |-> hnd[r], reader |-> r] \in Range(ina)
      /\ \A i \in Range(ina) :
           /\ pcs[i.reader] = "paused" /\ hnd[i.reader] = i.id
           /\ i.reader \in Queriers => i.reader \in Range(ent)
  BY Zenon DEF Registry
<1>2. Range(ent) \in SUBSET All /\ \A r \in Queriers : r \in All
  <2>1. Range(ent) \in SUBSET Queriers
    BY Zenon, <1>1, QueueRange
  <2> QED
    BY <2>1 DEF All
<1>3. \A i \in Range(ina) : i.reader \in All /\ i.id \in Nat
  BY Zenon, <1>1, RegisteredReads
<1>4. \A r \in All : hnd2[r] < nid
  <2> TAKE r \in All
  <2>1. hnd[r] \in Nat /\ hnd[r] < nid /\ nid \in Nat
    BY <1>1
  <2>2. 0 < nid
    BY <2>1
  <2> QED
    BY Zenon, <2>1, <2>2
<1>5. \A i \in Range(ina2) : i.id # 0
  BY Zenon, <1>1
<1>6. ASSUME NEW r \in All, NEW i \in Range(ina2), hnd2[r] = i.id PROVE i.reader = r
  <2>1. i \in Range(ina) /\ i.id # 0
    BY Zenon, <1>5
  <2>2. hnd[r] = i.id
    BY Zenon, <1>6, <2>1
  <2> QED
    BY Zenon, <1>1, <2>1, <2>2
<1>7. \A r \in Range(ent2) : [id |-> hnd2[r], reader |-> r] \in Range(ina2)
  <2> TAKE r \in Range(ent2)
  <2>1. r \in Range(ent) /\ r \notin S /\ r \in All
    BY <1>2
  <2>2. hnd2[r] = hnd[r] /\ [id |-> hnd[r], reader |-> r] \in Range(ina)
    BY Zenon, <1>1, <2>1
  <2>3. [id |-> hnd[r], reader |-> r].reader = r
    OBVIOUS
  <2> QED
    BY Zenon, <2>1, <2>2, <2>3
<1>8. \A i \in Range(ina2) :
           /\ pcs2[i.reader] = "paused" /\ hnd2[i.reader] = i.id
           /\ i.reader \in Queriers => i.reader \in Range(ent2)
  <2> TAKE i \in Range(ina2)
  <2>1. i \in Range(ina) /\ i.reader \notin S /\ i.reader \in All /\ Parked(ina, i.reader)
    BY Zenon, <1>3 DEF Parked
  <2>2. hnd2[i.reader] = hnd[i.reader] /\ pcs2[i.reader] = "paused"
    BY Zenon, <2>1
  <2>3. i.reader \in Queriers => i.reader \in Range(ent2)
    BY Zenon, <1>1, <2>1
  <2>4. hnd[i.reader] = i.id
    BY Zenon, <1>1, <2>1
  <2> QED
    BY Zenon, <2>2, <2>3, <2>4
<1>9. \A r \in All : prm2[r] => pcs2[r] = "active" \/ Parked(ina2, r)
  BY Zenon DEF Parked
<1> QED
  BY Zenon, <1>1, <1>4, <1>5, <1>6, <1>7, <1>8, <1>9 DEF Registry

(* A querier is cached when it is registered. *)
Cached(ent, r, ent2) ==
  \/ r \in Queriers /\ ent2 = Append(ent, r)
  \/ r \notin Queriers /\ ent2 = ent

(* It is paused, and like all that are it may keep its permit. *)
Joins(ina, r, pcs2, prm2) ==
  /\ pcs2[r] = "paused"
  /\ \A x \in All : Parked(ina, x) => pcs2[x] = "paused"
  /\ \A x \in All : prm2[x] => x = r \/ pcs2[x] = "active" \/ Parked(ina, x)

(* A reader is registered. *)
LEMMA RegistryGrows ==
  ASSUME NEW ina, NEW ent, NEW hnd, NEW nid, NEW pcs, NEW prm,
         Registry(ina, ent, hnd, nid, pcs, prm),
         NEW r \in All, ~Parked(ina, r), nid # 0, NEW ent2, Cached(ent, r, ent2),
         NEW pcs2, NEW prm2, Joins(ina, r, pcs2, prm2)
  PROVE  Registry(Append(ina, [id |-> nid, reader |-> r]), ent2, [hnd EXCEPT ![r] = nid],
                  nid + 1, pcs2, prm2)
<1> USE DEF Cached, Joins
<1> DEFINE i0 == [id |-> nid, reader |-> r]
           ina2 == Append(ina, i0)
           hnd2 == [hnd EXCEPT ![r] = nid]
<1>1. /\ ina \in Seq(Reads) /\ ent \in Seq(Queriers) /\ hnd \in [All -> Nat] /\ nid \in Nat
      /\ Distinct(ina) /\ Distinct(ent)
      /\ \A x \in All : hnd[x] < nid
      /\ \A i \in Range(ina) : i.id # 0
      /\ \A x \in All, i \in Range(ina) : hnd[x] = i.id => i.reader = x
      /\ \A x \in Range(ent) : [id |-> hnd[x], reader |-> x] \in Range(ina)
      /\ \A i \in Range(ina) :
           /\ pcs[i.reader] = "paused" /\ hnd[i.reader] = i.id
           /\ i.reader \in Queriers => i.reader \in Range(ent)
  BY Zenon DEF Registry
<1>2. i0 \in Reads /\ i0.id = nid /\ i0.reader = r
  BY <1>1 DEF Reads
<1>3. \A i \in Range(ina) : i.reader \in All /\ i.id \in Nat
  BY Zenon, <1>1, RegisteredReads
<1>4. \A i \in Range(ina) : i.reader # r
  BY Zenon DEF Parked
<1>5. Range(ent) \in SUBSET All /\ r \notin Range(ent)
  <2>1. Range(ent) \in SUBSET Queriers
    BY Zenon, <1>1, QueueRange
  <2>2. ASSUME r \in Range(ent) PROVE FALSE
    <3>1. [id |-> hnd[r], reader |-> r] \in Range(ina)
      BY ZenonT(60), <1>1, <2>2
    <3>2. [id |-> hnd[r], reader |-> r].reader = r
      OBVIOUS
    <3> QED
      BY Zenon, <1>4, <3>1, <3>2
  <2> QED
    BY <2>1, <2>2 DEF All
<1>6. /\ hnd2 \in [All -> Nat] /\ hnd2[r] = nid
      /\ \A x \in All : x # r => hnd2[x] = hnd[x]
  BY <1>1
<1> HIDE DEF i0, hnd2
<1>7. i0 \notin Range(ina)
  BY Zenon, <1>2, <1>4
<1>8. ina2 \in Seq(Reads) /\ Range(ina2) = Range(ina) \cup {i0} /\ Distinct(ina2)
  BY <1>1, <1>2, <1>7, AppendQueue
<1> HIDE DEF ina2
<1>9. /\ ent2 \in Seq(Queriers) /\ Distinct(ent2)
      /\ \A x : x \in Range(ent2) <=> x \in Range(ent) \/ (x = r /\ r \in Queriers)
  <2>1. CASE r \in Queriers /\ ent2 = Append(ent, r)
    <3>1. ent2 \in Seq(Queriers) /\ Distinct(ent2) /\ Range(ent2) = Range(ent) \cup {r}
      BY SMTT(30), <1>1, <1>5, <2>1, AppendQueue
    <3> QED
      BY SMTT(30), <2>1, <3>1
  <2>2. CASE r \notin Queriers /\ ent2 = ent
    BY Zenon, <1>1, <2>2
  <2> QED
    BY ZenonT(60), <2>1, <2>2
<1>10. nid + 1 \in Nat /\ \A x \in All : hnd2[x] < nid + 1
  <2>1. nid \in Nat /\ nid + 1 \in Nat /\ nid < nid + 1
    BY <1>1
  <2>2. ASSUME NEW x \in All PROVE hnd2[x] < nid + 1
    <3>1. hnd[x] \in Nat /\ hnd[x] < nid
      BY SMTT(30), <1>1
    <3>2. hnd[x] < nid + 1
      BY <2>1, <3>1
    <3> QED
      BY Zenon, <1>6, <2>1, <3>2
  <2> QED
    BY Zenon, <2>1, <2>2
<1>11. \A i \in Range(ina2) : i \in Range(ina) \/ i = i0
  BY <1>8
<1>12. \A i \in Range(ina2) : i.id # 0
  BY Zenon, <1>1, <1>2, <1>11
<1>13. \A i \in Range(ina) : i.id # nid
  <2> TAKE i \in Range(ina)
  <2>1. hnd[i.reader] = i.id /\ hnd[i.reader] < nid /\ i.id \in Nat
    BY Zenon, <1>1, <1>3
  <2> QED
    BY <1>1, <2>1
<1>14. \A x \in All : hnd[x] # nid
  <2> TAKE x \in All
  <2>1. hnd[x] \in Nat /\ hnd[x] < nid
    BY <1>1
  <2> QED
    BY <1>1, <2>1
<1>15. ASSUME NEW x \in All, NEW i \in Range(ina2), hnd2[x] = i.id PROVE i.reader = x
  <2>1. CASE i = i0
    BY Zenon, <1>2, <1>6, <1>14, <1>15, <2>1
  <2>2. CASE i \in Range(ina)
    <3>1. x # r
      BY Zenon, <1>6, <1>13, <1>15, <2>2
    <3>2. hnd[x] = i.id
      BY Zenon, <1>6, <1>15, <3>1
    <3> QED
      BY ZenonT(60), <1>1, <2>2, <3>2
  <2> QED
    BY Zenon, <1>11, <2>1, <2>2
<1>16. \A x \in Range(ent2) : [id |-> hnd2[x], reader |-> x] \in Range(ina2)
  <2> TAKE x \in Range(ent2)
  <2>1. CASE x = r
    BY SMTT(30), <1>6, <1>8, <2>1 DEF i0
  <2>2. CASE x # r
    <3>1. x \in Range(ent) /\ x \in All
      BY <1>5, <1>9, <2>2
    <3>2. [id |-> hnd[x], reader |-> x] \in Range(ina) /\ hnd2[x] = hnd[x]
      BY Zenon, <1>1, <1>6, <2>2, <3>1
    <3> QED
      BY SMTT(30), <1>8, <3>2
  <2> QED
    BY Zenon, <2>1, <2>2
<1>17. \A i \in Range(ina2) :
           /\ pcs2[i.reader] = "paused" /\ hnd2[i.reader] = i.id
           /\ i.reader \in Queriers => i.reader \in Range(ent2)
  <2> TAKE i \in Range(ina2)
  <2>1. CASE i = i0
    BY Zenon, <1>2, <1>6, <1>9, <2>1
  <2>2. CASE i \in Range(ina)
    <3>1. i.reader # r /\ i.reader \in All /\ Parked(ina, i.reader)
      BY Zenon, <1>3, <1>4, <2>2 DEF Parked
    <3> QED
      BY Zenon, <1>1, <1>6, <1>9, <2>2, <3>1
  <2> QED
    BY Zenon, <1>11, <2>1, <2>2
<1>18. \A x \in All : prm2[x] => pcs2[x] = "active" \/ Parked(ina2, x)
  <2>1. Parked(ina2, r) /\ \A x : Parked(ina, x) => Parked(ina2, x)
    BY <1>2, <1>8 DEF Parked
  <2> QED
    BY Zenon, <2>1
<1> QED
  BY ZenonT(60), <1>6, <1>8, <1>9, <1>10, <1>12, <1>15, <1>16, <1>17, <1>18 DEF Registry, i0, ina2, hnd2

-----------------------------------------------------------------------------
(* The inductive invariant. *)

Core ==
  /\ Types /\ Waiters
  /\ Balanced(avail, permit, closing, units)
  /\ wait # <<>> => inactive = <<>>
  /\ wait # <<>> => ~Fits(avail)

ReadersInv == Core /\ Registry(inactive, entries, handle, next_id, pc, permit)

(* It holds initially. *)
LEMMA ReadersInit ==
  ASSUME Init
  PROVE  ReadersInv
<1>1. /\ avail = [count |-> Count, memory |-> Memory]
      /\ wait = <<>> /\ inactive = <<>> /\ next_id = 1 /\ entries = <<>>
      /\ pc = [r \in All |-> "idle"] /\ permit = [r \in All |-> FALSE]
      /\ units = [r \in All |-> 0] /\ handle = [r \in All |-> 0]
      /\ closing = [r \in All |-> FALSE]
  BY Zenon DEF Init
<1>2. Count \in Nat /\ Memory \in Nat
  BY ReadersAssumption
<1>3. <<>> \in Seq(All) /\ <<>> \in Seq(Reads) /\ <<>> \in Seq(Queriers) /\ Distinct(<<>>)
      /\ Len(<<>>) = 0
  BY DEF Distinct
<1>4. Range(<<>>) = {}
  <2>1. ~\E i \in 1..Len(<<>>) : TRUE
    BY <1>3
  <2>2. \A x : x \in Range(<<>>) <=> \E i \in 1..Len(<<>>) : <<>>[i] = x
    BY Zenon, <1>3, QueueRange
  <2>3. \A x : x \notin Range(<<>>)
    BY Zenon, <2>1, <2>2
  <2> QED
    BY <2>3
<1>5. Types
  BY <1>1, <1>2, <1>3 DEF Types, Resources, PCs
<1>6. Waiters
  BY <1>1, <1>3, <1>4 DEF Waiters
<1>7. Balanced(avail, permit, closing, units)
  <2>1. Marked(permit) = {} /\ Marked(closing) = {}
    BY <1>1 DEF Marked
  <2>2. Cardinality({}) = 0
    BY Zenon, FS_EmptySet
  <2>3. Sum(units, All) = 0
    <3>1. IsFiniteSet(All)
      BY Zenon, ReadersAssumption
    <3>2. \A r \in All : units[r] = 0
      BY Zenon, <1>1
    <3> QED
      BY Zenon, <3>1, <3>2, SumZero
  <2>4. avail.count = Count /\ avail.memory = Memory
    BY <1>1
  <2> QED
    BY SMTT(30), <1>2, <2>1, <2>2, <2>3, <2>4 DEF Balanced, Held
<1>8. Registry(inactive, entries, handle, next_id, pc, permit)
  <2>1. handle \in [All -> Nat] /\ next_id \in Nat /\ \A r \in All : handle[r] < next_id /\ ~permit[r]
    BY <1>1
  <2> QED
    BY SMTT(30), <1>1, <1>3, <1>4, <2>1 DEF Registry
<1> QED
  BY Zenon, <1>1, <1>5, <1>6, <1>7, <1>8 DEF ReadersInv, Core

(* The facts that every step starts from. *)
Before ==
  /\ Core /\ Types /\ Waiters /\ Balanced(avail, permit, closing, units)
  /\ wait \in Seq(All) /\ inactive \in Seq(Reads) /\ entries \in Seq(Queriers)
  /\ pc \in [All -> PCs] /\ permit \in [All -> BOOLEAN] /\ handle \in [All -> Nat]
  /\ units \in [All -> Nat] /\ closing \in [All -> BOOLEAN] /\ avail \in Resources
  /\ next_id \in Nat
  /\ Range(wait) \in SUBSET All /\ Range(entries) \in SUBSET Queriers
  /\ \A r \in Queriers : r \in All
  /\ \A i \in Range(inactive) : i.reader \in All /\ pc[i.reader] = "paused"
  /\ \A r \in All : Parked(inactive, r) => pc[r] = "paused"
  /\ \A r \in Range(entries) : Parked(inactive, r)
  /\ \A r \in All : permit[r] => pc[r] \in {"active", "paused"}
  /\ \A r \in All : permit[r] => pc[r] = "active" \/ Parked(inactive, r)

LEMMA BeforeStep ==
  ASSUME ReadersInv
  PROVE  Before
<1>1. /\ Core /\ Types /\ Waiters /\ Balanced(avail, permit, closing, units)
      /\ Registry(inactive, entries, handle, next_id, pc, permit)
  BY Zenon DEF ReadersInv, Core
<1>2. /\ wait \in Seq(All) /\ inactive \in Seq(Reads) /\ entries \in Seq(Queriers)
      /\ pc \in [All -> PCs] /\ permit \in [All -> BOOLEAN] /\ handle \in [All -> Nat]
      /\ units \in [All -> Nat] /\ closing \in [All -> BOOLEAN] /\ avail \in Resources
      /\ next_id \in Nat
      /\ \A r \in Range(entries) : [id |-> handle[r], reader |-> r] \in Range(inactive)
      /\ \A i \in Range(inactive) : pc[i.reader] = "paused"
      /\ \A r \in All : permit[r] => pc[r] = "active" \/ Parked(inactive, r)
  BY Zenon, <1>1 DEF Types, Registry
<1>3. Range(wait) \in SUBSET All /\ Range(entries) \in SUBSET Queriers
  BY Zenon, <1>2, QueueRange
<1>4. \A r \in Queriers : r \in All
  BY DEF All
<1>5. \A i \in Range(inactive) : i.reader \in All
  BY Zenon, <1>2, RegisteredReads
<1>6. \A r \in All : Parked(inactive, r) => pc[r] = "paused"
  BY Zenon, <1>2 DEF Parked
<1>7. \A r \in All : permit[r] => pc[r] \in {"active", "paused"}
  BY <1>2, <1>6
<1>8. \A r \in Range(entries) : Parked(inactive, r)
  <2> TAKE r \in Range(entries)
  <2>1. [id |-> handle[r], reader |-> r] \in Range(inactive)
    BY Zenon, <1>2
  <2>2. [id |-> handle[r], reader |-> r].reader = r
    OBVIOUS
  <2> QED
    BY Zenon, <2>1, <2>2 DEF Parked
<1> QED
  BY Zenon, <1>1, <1>2, <1>3, <1>4, <1>5, <1>6, <1>7, <1>8 DEF Before

(* A step that destroys readers and signals leaves the queue and the resources in order. *)
LEMMA SettledCore ==
  ASSUME Before, NEW S \in SUBSET All, NEW pcs \in [All -> PCs], Settled(S, pcs),
         units' \in [All -> Nat], closing' \in [All -> BOOLEAN],
         \A r \in Range(wait) : pcs[r] = "waiting",
         wait' # <<>> => inactive' = <<>>
  PROVE  Core'
<1>1. /\ avail' \in Resources /\ wait' \in Seq(All) /\ pc' \in [All -> PCs]
      /\ permit' \in [All -> BOOLEAN]
      /\ Balanced(avail', permit', closing', units')
      /\ wait' # <<>> => ~Fits(avail')
      /\ Distinct(wait') /\ Range(wait') \in SUBSET Range(wait)
      /\ \A r \in All : pc'[r] = IF r \in Admitted THEN "active" ELSE pcs[r]
      /\ \A r \in All : permit'[r] => r \in Admitted \/ (permit[r] /\ r \notin S)
  BY Zenon DEF Settled
<1>2. Types'
  BY Zenon, <1>1 DEF Types
<1>3. ASSUME NEW r \in Range(wait') PROVE pc'[r] = "waiting" /\ ~permit'[r]
  <2>1. r \in Range(wait) /\ r \notin Admitted /\ r \in All
    BY <1>1 DEF Admitted, Before
  <2>2. pc'[r] = "waiting"
    BY Zenon, <1>1, <2>1
  <2>3. ~permit[r]
    BY Zenon, <2>1 DEF Before, Waiters
  <2> QED
    BY ZenonT(60), <1>1, <2>1, <2>2, <2>3
<1>4. Waiters'
  BY Zenon, <1>1, <1>3 DEF Waiters
<1>5. Balanced(avail, permit, closing, units)'
  BY Zenon, <1>1 DEF Balanced, Held, Marked, Sum
<1> QED
  BY Zenon, <1>1, <1>2, <1>4, <1>5 DEF Core

(* Whoever is admitted waited, so it was not registered. *)
LEMMA AdmittedWaited ==
  ASSUME Before, NEW r \in Admitted
  PROVE  r \in All /\ pc[r] = "waiting" /\ ~Parked(inactive, r) /\ ~permit[r]
<1>1. r \in Range(wait) /\ r \in All
  BY DEF Admitted, Before
<1>2. pc[r] = "waiting" /\ ~permit[r]
  BY Zenon, <1>1 DEF Before, Waiters
<1>3. pc[r] # "paused"
  BY <1>2
<1> QED
  BY Zenon, <1>1, <1>2, <1>3 DEF Before

-----------------------------------------------------------------------------
(* Steps that destroy readers and signal. *)

(* Whoever gets a permit leaves nobody behind who had waited longer. *)
InOrder ==
  \A r \in All : permit'[r] /\ ~permit[r] =>
    \A i \in 1..Len(wait) :
      (\A j \in 1..Len(wait) : wait[j] = r => i < j) => wait[i] \notin Range(wait')

Left(S) == Smaller(inactive, entries, handle, S, inactive', entries', handle')

(* Such a step keeps the invariant if it keeps the places of the others. *)
LEMMA SettledStep ==
  ASSUME ReadersInv, NEW S \in SUBSET All, NEW pcs \in [All -> PCs], Settled(S, pcs),
         units' \in [All -> Nat], closing' \in [All -> BOOLEAN],
         Left(S), next_id' = next_id,
         \A r \in All : pcs[r] = pc[r] \/ (r \in S /\ pc[r] # "waiting")
  PROVE  ReadersInv' /\ InOrder
<1>1. Before
  BY Zenon, BeforeStep
<1>2. /\ Registry(inactive, entries, handle, next_id, pc, permit)
      /\ wait # <<>> => inactive = <<>>
      /\ inactive \in Seq(Reads)
      /\ \A r \in Range(wait) : pc[r] = "waiting"
  BY Zenon, <1>1 DEF ReadersInv, Core, Before, Waiters
<1>3. /\ inactive' \in Seq(Reads) /\ entries' \in Seq(Queriers) /\ handle' \in [All -> Nat]
      /\ Distinct(inactive') /\ Distinct(entries')
      /\ \A i : i \in Range(inactive') <=> i \in Range(inactive) /\ i.reader \notin S
      /\ \A r : r \in Range(entries') <=> r \in Range(entries) /\ r \notin S
      /\ \A r \in All : handle'[r] = handle[r] \/ (r \in S /\ handle'[r] = 0)
  BY Zenon DEF Left, Smaller
<1>4. /\ wait = <<>> => wait' = <<>>
      /\ \A r \in All : pc'[r] = IF r \in Admitted THEN "active" ELSE pcs[r]
      /\ \A r \in All : permit'[r] => r \in Admitted \/ (permit[r] /\ r \notin S)
  BY Zenon DEF Settled
<1>5. \A r \in Range(wait) : pcs[r] = "waiting"
  <2> TAKE r \in Range(wait)
  <2>1. r \in All /\ pc[r] = "waiting"
    BY <1>1, <1>2 DEF Before
  <2> QED
    BY Zenon, <2>1
<1>6. wait' # <<>> => inactive' = <<>>
  <2>1. wait' # <<>> => inactive = <<>>
    BY Zenon, <1>2, <1>4
  <2>2. inactive = <<>> => Range(inactive) = {}
    <3> HAVE inactive = <<>>
    <3>1. \A x : x \in Range(inactive) <=> \E i \in 1..Len(inactive) : inactive[i] = x
      BY Zenon, <1>2, QueueRange
    <3>2. ~\E i \in 1..Len(inactive) : TRUE
      OBVIOUS
    <3>3. \A x : x \notin Range(inactive)
      BY Zenon, <3>1, <3>2
    <3> QED
      BY <3>3
  <2>3. inactive' # <<>> => \E i : i \in Range(inactive')
    <3>1. /\ inactive' # <<>> <=> Len(inactive') # 0
          /\ \A x : x \in Range(inactive') <=> \E i \in 1..Len(inactive') : inactive'[i] = x
      BY Zenon, <1>3, QueueRange
    <3>2. Len(inactive') # 0 => 1 \in 1..Len(inactive')
      BY <1>3
    <3> QED
      BY Zenon, <3>1, <3>2
  <2>4. \A i : i \in Range(inactive') => i \in Range(inactive)
    BY Zenon, <1>3
  <2> QED
    BY SMTT(30), <2>1, <2>2, <2>3, <2>4
<1>7. Core'
  BY Zenon, <1>1, <1>5, <1>6, SettledCore
<1>8. ASSUME NEW r \in All, r \notin S, Parked(inactive, r) PROVE pc'[r] = "paused"
  <2>1. r \notin Admitted
    BY Zenon, <1>1, <1>8, AdmittedWaited
  <2>2. pc[r] = "paused"
    BY Zenon, <1>1, <1>8 DEF Before
  <2> QED
    BY Zenon, <1>4, <1>8, <2>1, <2>2
<1>9. ASSUME NEW r \in All, permit'[r]
      PROVE  pc'[r] = "active" \/ (r \notin S /\ Parked(inactive, r))
  <2>1. CASE r \in Admitted
    BY Zenon, <1>4, <2>1
  <2>2. CASE r \notin Admitted
    <3>1. permit[r] /\ r \notin S
      BY Zenon, <1>4, <1>9, <2>2
    <3>2. pc[r] = "active" \/ Parked(inactive, r)
      BY Zenon, <1>1, <3>1 DEF Before
    <3> QED
      BY Zenon, <1>4, <2>2, <3>1, <3>2
  <2> QED
    BY Zenon, <2>1, <2>2
<1>10. Registry(inactive', entries', handle', next_id, pc', permit')
  <2>1. Stays(inactive, S, pc', permit')
    BY Zenon, <1>8, <1>9 DEF Stays
  <2>2. Smaller(inactive, entries, handle, S, inactive', entries', handle')
    BY Zenon DEF Left
  <2> QED
    BY Zenon, <1>2, <2>1, <2>2, RegistryShrinks
<1>11. Registry(inactive, entries, handle, next_id, pc, permit)'
  BY Zenon, <1>10 DEF Registry, Parked
<1>12. InOrder
  BY Zenon DEF Settled, InOrder
<1> QED
  BY Zenon, <1>7, <1>11, <1>12 DEF ReadersInv

(* Nobody leaves. *)
LEMMA LeftNobody ==
  ASSUME ReadersInv, NEW S \in SUBSET All, \A r \in S : ~Parked(inactive, r),
         inactive' = inactive, entries' = entries, handle' = handle
  PROVE  Left(S)
<1>1. Before
  BY Zenon, BeforeStep
<1>2. /\ inactive \in Seq(Reads) /\ entries \in Seq(Queriers) /\ handle \in [All -> Nat]
      /\ Distinct(inactive) /\ Distinct(entries)
  BY Zenon DEF ReadersInv, Registry
<1>3. \A i \in Range(inactive) : i.reader \notin S
  BY Zenon DEF Parked
<1>4. \A r \in Range(entries) : r \notin S
  BY Zenon, <1>1 DEF Before
<1> QED
  BY Zenon, <1>2, <1>3, <1>4 DEF Left, Smaller

(* The readers of S are evicted. *)
LEMMA EvictedLists ==
  ASSUME ReadersInv, NEW S \in SUBSET All
  PROVE  /\ InactiveWithout(S) \in Seq(Reads) /\ Distinct(InactiveWithout(S))
         /\ \A i : i \in Range(InactiveWithout(S)) <=> i \in Range(inactive) /\ i.reader \notin S
         /\ EntriesWithout(S) \in Seq(Queriers) /\ Distinct(EntriesWithout(S))
         /\ \A r : r \in Range(EntriesWithout(S)) <=> r \in Range(entries) /\ r \notin S
         /\ HandlesWithout(S) \in [All -> Nat]
         /\ \A r \in All : HandlesWithout(S)[r] = handle[r] \/ (r \in S /\ HandlesWithout(S)[r] = 0)
<1>1. /\ inactive \in Seq(Reads) /\ entries \in Seq(Queriers) /\ handle \in [All -> Nat]
      /\ Distinct(inactive) /\ Distinct(entries)
  BY Zenon DEF ReadersInv, Registry
<1> DEFINE T == {i \in Range(inactive) : i.reader \in S}
<1>2. \A i : i \in T <=> i \in Range(inactive) /\ i.reader \in S
  OBVIOUS
<1>3. InactiveWithout(S) = Without(inactive, T)
  BY Zenon DEF InactiveWithout
<1> HIDE DEF T
<1>4. /\ Without(inactive, T) \in Seq(Reads) /\ Distinct(Without(inactive, T))
      /\ Range(Without(inactive, T)) = Range(inactive) \ T
  BY Zenon, <1>1, WithoutQueue
<1>5. /\ Without(entries, S) \in Seq(Queriers) /\ Distinct(Without(entries, S))
      /\ Range(Without(entries, S)) = Range(entries) \ S
  BY Zenon, <1>1, WithoutQueue
<1>6. \A i : i \in Range(InactiveWithout(S)) <=> i \in Range(inactive) /\ i.reader \notin S
  BY <1>2, <1>3, <1>4
<1>7. \A r : r \in Range(EntriesWithout(S)) <=> r \in Range(entries) /\ r \notin S
  BY <1>5 DEF EntriesWithout
<1>8. HandlesWithout(S) \in [All -> Nat]
      /\ \A r \in All : HandlesWithout(S)[r] = handle[r] \/ (r \in S /\ HandlesWithout(S)[r] = 0)
  BY <1>1 DEF HandlesWithout
<1> QED
  BY Zenon, <1>3, <1>4, <1>5, <1>6, <1>7, <1>8 DEF EntriesWithout

(* The inactive read that a handle leads to is the one of its reader. *)
LEMMA FoundOwn ==
  ASSUME ReadersInv, NEW r \in All
  PROVE  /\ \A i : i \in Found(r) <=> i \in Range(inactive) /\ i.reader = r
         /\ Without(inactive, Found(r)) \in Seq(Reads) /\ Distinct(Without(inactive, Found(r)))
         /\ \A i : i \in Range(Without(inactive, Found(r))) <=>
                     i \in Range(inactive) /\ i.reader \notin {r}
<1>1. /\ inactive \in Seq(Reads) /\ Distinct(inactive)
      /\ \A x \in All, i \in Range(inactive) : handle[x] = i.id => i.reader = x
      /\ \A i \in Range(inactive) : handle[i.reader] = i.id
  BY Zenon DEF ReadersInv, Registry
<1>2. \A i : i \in Found(r) <=> i \in Range(inactive) /\ i.id = handle[r]
  BY DEF Found
<1>3. \A i : i \in Found(r) <=> i \in Range(inactive) /\ i.reader = r
  BY Zenon, <1>1, <1>2
<1>4. /\ Without(inactive, Found(r)) \in Seq(Reads) /\ Distinct(Without(inactive, Found(r)))
      /\ Range(Without(inactive, Found(r))) = Range(inactive) \ Found(r)
  BY Zenon, <1>1, WithoutQueue
<1> QED
  BY <1>3, <1>4

(* Steps that neither take nor give resources. *)
LEMMA QuietStep ==
  ASSUME ReadersInv, UNCHANGED <<avail, wait, permit, units, closing, next_id>>,
         NEW S \in SUBSET All, Left(S), pc' \in [All -> PCs],
         \A x \in All : pc'[x] = pc[x] \/ pc[x] # "waiting",
         Stays(inactive, S, pc', permit)
  PROVE  ReadersInv' /\ InOrder
<1>1. Before
  BY Zenon, BeforeStep
<1>2. /\ avail' = avail /\ wait' = wait /\ permit' = permit /\ units' = units
      /\ closing' = closing /\ next_id' = next_id
  BY Zenon
<1>3. Types /\ Waiters /\ Balanced(avail, permit, closing, units)
      /\ (wait # <<>> => inactive = <<>>) /\ (wait # <<>> => ~Fits(avail))
      /\ Registry(inactive, entries, handle, next_id, pc, permit)
      /\ inactive \in Seq(Reads)
  BY Zenon, <1>1 DEF ReadersInv, Core, Before
<1>4. Types'
  BY Zenon, <1>2, <1>3 DEF Types
<1>5. Waiters'
  <2>1. ASSUME NEW x \in Range(wait) PROVE pc'[x] = "waiting" /\ ~permit[x]
    <3>1. x \in All /\ pc[x] = "waiting" /\ ~permit[x]
      BY <1>1, <1>3 DEF Before, Waiters
    <3> QED
      BY ZenonT(60), <3>1
  <2> QED
    BY Zenon, <1>2, <1>3, <2>1 DEF Waiters
<1>6. Balanced(avail, permit, closing, units)'
  BY Zenon, <1>2, <1>3 DEF Balanced, Held, Marked, Sum
<1>7. wait' # <<>> => inactive' = <<>>
  <2>1. ASSUME inactive = <<>> PROVE inactive' = <<>>
    <3>1. /\ inactive' \in Seq(Reads)
          /\ \A i : i \in Range(inactive') => i \in Range(inactive)
      BY Zenon DEF Left, Smaller
    <3>2. \A x : x \in Range(inactive) <=> \E i \in 1..Len(inactive) : inactive[i] = x
      BY Zenon, <1>3, QueueRange
    <3>3. ~\E i \in 1..Len(inactive) : TRUE
      BY <2>1
    <3>4. /\ inactive' # <<>> <=> Len(inactive') # 0
          /\ \A x : x \in Range(inactive') <=> \E i \in 1..Len(inactive') : inactive'[i] = x
      BY Zenon, <3>1, QueueRange
    <3>5. Len(inactive') # 0 => 1 \in 1..Len(inactive')
      BY <3>1
    <3> QED
      BY Zenon, <3>1, <3>2, <3>3, <3>4, <3>5
  <2> QED
    BY Zenon, <1>2, <1>3, <2>1
<1>8. Core'
  BY Zenon, <1>2, <1>3, <1>4, <1>5, <1>6, <1>7 DEF Core
<1>9. Registry(inactive', entries', handle', next_id, pc', permit)
  BY Zenon, <1>3, RegistryShrinks DEF Left
<1>10. Registry(inactive, entries, handle, next_id, pc, permit)'
  <2>1. Registry(inactive', entries', handle', next_id', pc', permit')
    BY <1>2, <1>9
  <2> QED
    BY Zenon, <2>1 DEF Registry, Parked
<1>11. InOrder
  BY Zenon, <1>2 DEF InOrder
<1> QED
  BY Zenon, <1>8, <1>10, <1>11 DEF ReadersInv

(* The cache or the semaphore evicts readers. *)
LEMMA EvictStep ==
  ASSUME ReadersInv, NEW S \in SUBSET All, EvictReads(S)
  PROVE  ReadersInv' /\ InOrder
<1>1. Before
  BY Zenon, BeforeStep
<1>2. pc \in [All -> PCs] /\ Types /\ Waiters /\ Balanced(avail, permit, closing, units)
  BY Zenon, <1>1 DEF Before
<1>3. /\ entries' = EntriesWithout(S) /\ inactive' = InactiveWithout(S)
      /\ handle' = HandlesWithout(S) /\ Drop(S, pc) /\ next_id' = next_id
  BY Zenon DEF EvictReads
<1>4. Settled(S, pc) /\ units' \in [All -> Nat] /\ closing' \in [All -> BOOLEAN]
  BY Zenon, <1>2, <1>3, DropSettles
<1>5. Left(S)
  BY Zenon, <1>3, EvictedLists DEF Left, Smaller
<1> QED
  BY Zenon, <1>2, <1>3, <1>4, <1>5, SettledStep

LEMMA CacheEvicts ==
  ASSUME ReadersInv, ScanCacheEntries \/ EvictOne \/ TryEvictOneInactiveRead
                     \/ \E t \in Tables : EvictAllForTable(t)
  PROVE  ReadersInv' /\ InOrder
<1>1. Before
  BY Zenon, BeforeStep
<1>2. /\ entries \in Seq(Queriers) /\ inactive \in Seq(Reads)
      /\ Range(entries) \in SUBSET Queriers
      /\ \A r \in Queriers : r \in All
  BY Zenon, <1>1 DEF Before
<1>3. Range(entries) \in SUBSET All
  BY <1>2
<1>4. CASE ScanCacheEntries
  <2>1. PICK k \in 1..Len(entries) : EvictReads(FirstOf(entries, k))
    BY Zenon, <1>4 DEF ScanCacheEntries
  <2>2. k \in 0..Len(entries)
    BY <1>2
  <2>3. FirstOf(entries, k) \in SUBSET Range(entries)
    BY Zenon, <1>2, <2>2, RestQueue
  <2>4. FirstOf(entries, k) \in SUBSET All
    BY <1>3, <2>3
  <2> QED
    BY Zenon, <2>1, <2>4, EvictStep
<1>5. CASE EvictOne
  <2>1. entries # <<>> /\ EvictReads({entries[1]})
    BY Zenon, <1>5 DEF EvictOne
  <2>2. {entries[1]} \in SUBSET All
    BY <1>2, <2>1
  <2> QED
    BY Zenon, <2>1, <2>2, EvictStep
<1>6. CASE TryEvictOneInactiveRead
  <2>1. inactive # <<>> /\ EvictReads(Victims(1))
    BY Zenon, <1>6 DEF TryEvictOneInactiveRead
  <2>2. inactive[1] \in Reads
    BY <1>2, <2>1
  <2>3. inactive[1].reader \in All
    BY <2>2 DEF Reads
  <2>4. Victims(1) \in SUBSET All
    BY <2>3 DEF Victims
  <2> QED
    BY Zenon, <2>1, <2>4, EvictStep
<1>7. CASE \E t \in Tables : EvictAllForTable(t)
  <2>1. PICK t \in Tables : EvictAllForTable(t)
    BY Zenon, <1>7
  <2>2. {r \in Range(entries) : TableOf[r] = t} \in SUBSET All
    BY <1>3
  <2> QED
    BY Zenon, <2>1, <2>2, EvictStep DEF EvictAllForTable
<1> QED
  BY Zenon, <1>4, <1>5, <1>6, <1>7

(* The state of one reader changes. *)
LEMMA PcStep ==
  ASSUME NEW f \in [All -> PCs], NEW r \in All, NEW v \in PCs
  PROVE  /\ [f EXCEPT ![r] = v] \in [All -> PCs]
         /\ [f EXCEPT ![r] = v][r] = v
         /\ \A x \in All : x # r => [f EXCEPT ![r] = v][x] = f[x]
OBVIOUS

(* Readers that are not registered change their state only. *)
LEMMA PlainStep ==
  ASSUME ReadersInv, UNCHANGED <<avail, wait, inactive, next_id, entries, permit, units, handle, closing>>,
         NEW r \in All, ~Parked(inactive, r), ~permit[r], pc[r] # "waiting",
         NEW v \in PCs, pc' = [pc EXCEPT ![r] = v]
  PROVE  ReadersInv' /\ InOrder
<1>1. Before
  BY Zenon, BeforeStep
<1>2. pc \in [All -> PCs]
  BY Zenon, <1>1 DEF Before
<1>3. /\ pc' \in [All -> PCs]
      /\ \A x \in All : x # r => pc'[x] = pc[x]
  BY Zenon, <1>2, PcStep
<1>4. {r} \in SUBSET All /\ \A x \in {r} : ~Parked(inactive, x)
  OBVIOUS
<1>5. Left({r})
  BY Zenon, <1>4, LeftNobody
<1>6. Stays(inactive, {r}, pc', permit)
  <2>1. ASSUME NEW x \in All, x \notin {r}, Parked(inactive, x) PROVE pc'[x] = "paused"
    <3>1. pc[x] = "paused"
      BY Zenon, <1>1, <2>1 DEF Before
    <3> QED
      BY <1>3, <2>1, <3>1
  <2>2. ASSUME NEW x \in All, permit[x]
        PROVE pc'[x] = "active" \/ (x \notin {r} /\ Parked(inactive, x))
    <3>1. x # r /\ (pc[x] = "active" \/ Parked(inactive, x))
      BY Zenon, <1>1, <2>2 DEF Before
    <3> QED
      BY <1>3, <3>1
  <2> QED
    BY Zenon, <2>1, <2>2 DEF Stays
<1>7. \A x \in All : pc'[x] = pc[x] \/ pc[x] # "waiting"
  BY Zenon, <1>3
<1>8. UNCHANGED <<avail, wait, permit, units, closing, next_id>>
  OBVIOUS
<1> QED
  BY Zenon, <1>3, <1>4, <1>5, <1>6, <1>7, <1>8, QuietStep

-----------------------------------------------------------------------------
(* The steps of a reader. *)

LEMMA SimpleSteps ==
  ASSUME ReadersInv, NEW r \in All, StartPage(r) \/ RejectAdmission(r) \/ Forget(r)
  PROVE  ReadersInv' /\ InOrder
<1>1. Before
  BY Zenon, BeforeStep
<1>2. /\ UNCHANGED <<avail, wait, inactive, next_id, entries, permit, units, handle, closing>>
      /\ \E v \in PCs : pc' = [pc EXCEPT ![r] = v]
  BY DEF StartPage, RejectAdmission, Forget, PCs
<1>3. pc[r] \in {"idle", "pending"} \/ (pc[r] = "paused" /\ r \in Queriers /\ r \notin Range(entries))
  BY DEF StartPage, RejectAdmission, Forget
<1>4. pc[r] # "waiting" /\ pc[r] # "active"
  BY <1>3
<1>5. ~Parked(inactive, r)
  <2>1. CASE pc[r] \in {"idle", "pending"}
    <3>1. pc[r] # "paused"
      BY <2>1
    <3> QED
      BY Zenon, <1>1, <3>1 DEF Before
  <2>2. CASE r \in Queriers /\ r \notin Range(entries)
    <3>1. \A i \in Range(inactive) : i.reader \in Queriers => i.reader \in Range(entries)
      BY Zenon DEF ReadersInv, Registry
    <3> QED
      BY Zenon, <2>2, <3>1 DEF Parked
  <2> QED
    BY Zenon, <1>3, <2>1, <2>2
<1>6. ~permit[r]
  BY Zenon, <1>1, <1>4, <1>5 DEF Before
<1> QED
  BY Zenon, <1>2, <1>4, <1>5, <1>6, PlainStep

(* The reader is destroyed. *)
LEMMA FinishStep ==
  ASSUME ReadersInv, NEW r \in All, Finish(r)
  PROVE  ReadersInv' /\ InOrder
<1>1. Before
  BY Zenon, BeforeStep
<1>2. /\ pc[r] \in {"pending", "active"} /\ Drop({r}, [pc EXCEPT ![r] = "idle"])
      /\ inactive' = inactive /\ next_id' = next_id /\ entries' = entries /\ handle' = handle
  BY DEF Finish
<1>3. pc \in [All -> PCs] /\ Types /\ Waiters /\ Balanced(avail, permit, closing, units)
  BY Zenon, <1>1 DEF Before
<1>4. PICK pcs : pcs = [pc EXCEPT ![r] = "idle"]
  BY Zenon
<1>5. "idle" \in PCs /\ {r} \in SUBSET All
  BY DEF PCs
<1>6. pcs \in [All -> PCs] /\ \A x \in All : x # r => pcs[x] = pc[x]
  BY Zenon, <1>3, <1>4, <1>5, PcStep
<1>7. Settled({r}, pcs) /\ units' \in [All -> Nat] /\ closing' \in [All -> BOOLEAN]
  BY ZenonT(60), <1>2, <1>3, <1>4, <1>5, <1>6, DropSettles
<1>8. pc[r] # "waiting" /\ pc[r] # "paused"
  BY SMTT(30), <1>2
<1>9. \A x \in {r} : ~Parked(inactive, x)
  BY <1>1, <1>8 DEF Before
<1>10. Left({r})
  BY Zenon, <1>2, <1>5, <1>9, LeftNobody
<1>11. \A x \in All : pcs[x] = pc[x] \/ (x \in {r} /\ pc[x] # "waiting")
  BY <1>6, <1>8
<1> QED
  BY ZenonT(60), <1>2, <1>5, <1>6, <1>7, <1>10, <1>11, SettledStep

(* Resources come back, and nobody leaves. *)
LEMMA BackStep ==
  ASSUME ReadersInv, NEW a \in Resources, Signal(a, wait, pc, permit),
         units' \in [All -> Nat], closing' \in [All -> BOOLEAN],
         Balanced(a, permit, closing', units'),
         inactive' = inactive, next_id' = next_id, entries' = entries, handle' = handle
  PROVE  ReadersInv' /\ InOrder
<1>1. Before
  BY Zenon, BeforeStep
<1>2. pc \in [All -> PCs] /\ Types /\ Waiters /\ permit \in [All -> BOOLEAN]
  BY Zenon, <1>1 DEF Before
<1>3. PermitsWithout({}) = permit
  BY <1>2 DEF PermitsWithout
<1>4. {} \in SUBSET All /\ \A x \in {} : ~Parked(inactive, x)
  OBVIOUS
<1>5. Settled({}, pc)
  BY Zenon, <1>2, <1>3, <1>4, SignalSettles
<1>6. Left({})
  BY Zenon, <1>4, LeftNobody
<1> QED
  BY Zenon, <1>2, <1>4, <1>5, <1>6, SettledStep

(* A file is closed. *)
LEMMA CloseStep ==
  ASSUME ReadersInv, NEW r \in All, Close(r)
  PROVE  ReadersInv' /\ InOrder
<1>1. Before
  BY Zenon, BeforeStep
<1>2. PICK a : a = [count |-> avail.count + 1, memory |-> avail.memory + 1]
  BY Zenon
<1>3. /\ closing[r] /\ closing' = [closing EXCEPT ![r] = FALSE]
      /\ Signal(a, wait, pc, permit)
      /\ inactive' = inactive /\ next_id' = next_id /\ entries' = entries
      /\ units' = units /\ handle' = handle
  BY <1>2 DEF Close
<1>4. /\ closing \in [All -> BOOLEAN] /\ units \in [All -> Nat] /\ avail \in Resources
      /\ Balanced(avail, permit, closing, units)
  BY Zenon, <1>1 DEF Before
<1>5. avail.count \in Int /\ avail.memory \in Int
  BY <1>4 DEF Resources
<1>6. a \in Resources /\ a.count = avail.count + 1 /\ a.memory = avail.memory + 1
  BY SMTT(30), <1>2, <1>5 DEF Resources
<1>7. closing' \in [All -> BOOLEAN]
  BY <1>3, <1>4
<1>8. Cardinality(Marked(closing)) = Cardinality(Marked(closing')) + 1
  <2>1. Marked(closing) = Marked(closing') \cup {r} /\ Marked(closing') \cap {r} = {}
    BY <1>3, <1>4 DEF Marked
  <2>2. Marked(closing') \in SUBSET All /\ {r} \in SUBSET All
    BY DEF Marked
  <2>3. Cardinality({r}) = 1
    BY Zenon, FS_Singleton
  <2> QED
    BY Zenon, <2>1, <2>2, <2>3, TwoParts
<1>9. Cardinality(Marked(closing')) \in Nat /\ Cardinality(Marked(permit)) \in Nat
  BY Zenon, MarkedType
<1>10. Sum(units, All) \in Nat
  <2>1. All \in SUBSET All /\ \A x \in All : units[x] \in Nat
    BY <1>4
  <2> QED
    BY Zenon, <2>1, FiniteReaders, SumNat
<1>11. /\ avail.count + Held(permit, closing) = Count
       /\ avail.memory + Held(permit, closing) + Sum(units, All) = Memory
  BY Zenon, <1>4 DEF Balanced
<1>12. /\ a.count + Held(permit, closing') = Count
       /\ a.memory + Held(permit, closing') + Sum(units, All) = Memory
  BY SMTT(30), <1>5, <1>6, <1>8, <1>9, <1>10, <1>11 DEF Held
<1>13. Balanced(a, permit, closing', units')
  BY Zenon, <1>3, <1>12 DEF Balanced
<1>14. units' \in [All -> Nat]
  BY Zenon, <1>3, <1>4
<1> QED
  BY Zenon, <1>3, <1>6, <1>7, <1>13, <1>14, BackStep

(* The memory of one reader changes. *)
LEMMA SumOther ==
  ASSUME NEW f \in [All -> Nat], NEW g \in [All -> Nat], NEW r \in All,
         \A x \in All : x # r => g[x] = f[x]
  PROVE  Sum(g, All) = Sum(f, All) - f[r] + g[r] /\ Sum(f, All) \in Nat
<1>1. PICK T : T = All \ {r}
  BY Zenon
<1>2. IsFiniteSet(All) /\ IsFiniteSet(T)
  <2>1. All \in SUBSET All /\ T \in SUBSET All
    BY <1>1
  <2> QED
    BY Zenon, <2>1, FiniteReaders
<1>3. (\A x \in All : f[x] \in Nat) /\ (\A x \in All : g[x] \in Nat) /\ (\A x \in T : f[x] \in Nat)
      /\ \A x \in T : g[x] = f[x]
  BY <1>1
<1>4. Sum(f, All) = f[r] + Sum(f, T)
  BY SMTT(30), <1>1, <1>2, <1>3, SumRemove
<1>5. Sum(g, All) = g[r] + Sum(g, T)
  BY SMTT(30), <1>1, <1>2, <1>3, SumRemove
<1>6. Sum(g, T) = Sum(f, T)
  BY Zenon, <1>2, <1>3, SumSame
<1>7. Sum(f, T) \in Nat /\ Sum(f, All) \in Nat
  BY Zenon, <1>2, <1>3, SumNat
<1>8. f[r] \in Nat /\ g[r] \in Nat
  OBVIOUS
<1> QED
  BY SMTT(30), <1>4, <1>5, <1>6, <1>7, <1>8

(* A buffer is freed. *)
LEMMA FreeStep ==
  ASSUME ReadersInv, NEW r \in All, Free(r)
  PROVE  ReadersInv' /\ InOrder
<1>1. Before
  BY Zenon, BeforeStep
<1>2. PICK a : a = [avail EXCEPT !.memory = @ + 1]
  BY Zenon
<1>3. /\ units[r] > 0 /\ units' = [units EXCEPT ![r] = @ - 1]
      /\ Signal(a, wait, pc, permit)
      /\ inactive' = inactive /\ next_id' = next_id /\ entries' = entries
      /\ closing' = closing /\ handle' = handle
  BY SMTT(30), <1>2 DEF Free
<1>4. /\ closing \in [All -> BOOLEAN] /\ units \in [All -> Nat] /\ avail \in Resources
      /\ Balanced(avail, permit, closing, units)
  BY Zenon, <1>1 DEF Before
<1>5. avail.count \in Int /\ avail.memory \in Int
  BY <1>4 DEF Resources
<1>6. a \in Resources /\ a.count = avail.count /\ a.memory = avail.memory + 1
  BY SMTT(30), <1>2, <1>4, <1>5 DEF Resources
<1>7. units[r] \in Nat /\ units[r] - 1 \in Nat /\ units' = [units EXCEPT ![r] = units[r] - 1]
  BY SMTT(30), <1>3, <1>4
<1>8. /\ Sum(units', All) = Sum(units, All) - units[r] + (units[r] - 1)
      /\ Sum(units, All) \in Nat /\ units' \in [All -> Nat]
  <2>1. /\ units' \in [All -> Nat] /\ units'[r] = units[r] - 1
        /\ \A x \in All : x # r => units'[x] = units[x]
    BY <1>4, <1>7
  <2>2. Sum(units', All) = Sum(units, All) - units[r] + units'[r] /\ Sum(units, All) \in Nat
    BY Zenon, <1>4, <2>1, SumOther
  <2> QED
    BY SMTT(30), <2>1, <2>2
<1>9. Cardinality(Marked(closing)) \in Nat /\ Cardinality(Marked(permit)) \in Nat
  BY Zenon, MarkedType
<1>10. /\ avail.count + Held(permit, closing) = Count
       /\ avail.memory + Held(permit, closing) + Sum(units, All) = Memory
  BY Zenon, <1>4 DEF Balanced
<1>11. /\ a.count + Held(permit, closing) = Count
       /\ a.memory + Held(permit, closing) + Sum(units', All) = Memory
  BY SMTT(30), <1>5, <1>6, <1>7, <1>8, <1>9, <1>10 DEF Held
<1>12. Balanced(a, permit, closing', units')
  BY Zenon, <1>3, <1>11 DEF Balanced
<1>13. closing' \in [All -> BOOLEAN]
  BY Zenon, <1>3, <1>4
<1> QED
  BY ZenonT(60), <1>3, <1>6, <1>8, <1>12, <1>13, BackStep

(* The registry does not change. *)
LEMMA SameRegistry ==
  ASSUME ReadersInv, UNCHANGED <<inactive, entries, handle, next_id, permit>>,
         \A x \in All : pc[x] \in {"paused", "active"} => pc'[x] = pc[x]
  PROVE  Registry(inactive, entries, handle, next_id, pc, permit)'
<1>1. Before
  BY Zenon, BeforeStep
<1>2. /\ inactive' = inactive /\ entries' = entries /\ handle' = handle /\ next_id' = next_id
      /\ permit' = permit
  BY Zenon
<1>3. {} \in SUBSET All /\ \A x \in {} : ~Parked(inactive, x)
  OBVIOUS
<1>4. Smaller(inactive, entries, handle, {}, inactive', entries', handle')
  BY Zenon, <1>2, <1>3, LeftNobody DEF Left
<1>5. ASSUME NEW x \in All, Parked(inactive, x) PROVE pc'[x] = "paused"
  <2>1. pc[x] = "paused"
    BY Zenon, <1>1, <1>5 DEF Before
  <2> QED
    BY <2>1
<1>6. ASSUME NEW x \in All, permit'[x] PROVE pc'[x] = "active" \/ Parked(inactive, x)
  <2>1. pc[x] = "active" \/ Parked(inactive, x)
    BY Zenon, <1>1, <1>2, <1>6 DEF Before
  <2> QED
    BY <2>1
<1>7. \A x : x \notin {}
  OBVIOUS
<1>8. Stays(inactive, {}, pc', permit')
  BY Zenon, <1>5, <1>6, <1>7 DEF Stays
<1>9. Registry(inactive, entries, handle, next_id, pc, permit)
  BY Zenon DEF ReadersInv
<1>10. Registry(inactive', entries', handle', next_id, pc', permit')
  BY ZenonT(60), <1>3, <1>4, <1>8, <1>9, RegistryShrinks
<1>11. Registry(inactive', entries', handle', next_id', pc', permit')
  BY <1>2, <1>10
<1> QED
  BY Zenon, <1>11 DEF Registry, Parked

(* A buffer is allocated. *)
LEMMA ConsumeStep ==
  ASSUME ReadersInv, NEW r \in All, Consume(r)
  PROVE  ReadersInv' /\ InOrder
<1>1. Before
  BY Zenon, BeforeStep
<1>2. /\ units' = [units EXCEPT ![r] = @ + 1]
      /\ avail' = [avail EXCEPT !.memory = @ - 1]
      /\ wait' = wait /\ inactive' = inactive /\ next_id' = next_id /\ entries' = entries
      /\ pc' = pc /\ permit' = permit /\ handle' = handle /\ closing' = closing
  BY DEF Consume
<1>3. /\ closing \in [All -> BOOLEAN] /\ units \in [All -> Nat] /\ avail \in Resources
      /\ Balanced(avail, permit, closing, units) /\ Types /\ Waiters
      /\ (wait # <<>> => inactive = <<>>) /\ (wait # <<>> => ~Fits(avail))
  BY Zenon, <1>1 DEF Before, Core
<1>4. avail.count \in Int /\ avail.memory \in Int
  BY <1>3 DEF Resources
<1>5. avail' \in Resources /\ avail'.count = avail.count /\ avail'.memory = avail.memory - 1
  BY <1>2, <1>3, <1>4 DEF Resources
<1>6. units[r] \in Nat /\ units[r] + 1 \in Nat /\ units' = [units EXCEPT ![r] = units[r] + 1]
  BY <1>2, <1>3
<1>7. /\ Sum(units', All) = Sum(units, All) - units[r] + (units[r] + 1)
      /\ Sum(units, All) \in Nat /\ units' \in [All -> Nat]
  <2>1. /\ units' \in [All -> Nat] /\ units'[r] = units[r] + 1
        /\ \A x \in All : x # r => units'[x] = units[x]
    BY <1>3, <1>6
  <2>2. Sum(units', All) = Sum(units, All) - units[r] + units'[r] /\ Sum(units, All) \in Nat
    BY Zenon, <1>3, <2>1, SumOther
  <2> QED
    BY <2>1, <2>2
<1>8. Cardinality(Marked(closing)) \in Nat /\ Cardinality(Marked(permit)) \in Nat
  BY Zenon, MarkedType
<1>9. /\ avail.count + Held(permit, closing) = Count
      /\ avail.memory + Held(permit, closing) + Sum(units, All) = Memory
  BY Zenon, <1>3 DEF Balanced
<1>10. /\ avail'.count + Held(permit, closing) = Count
       /\ avail'.memory + Held(permit, closing) + Sum(units', All) = Memory
  BY SMTT(30), <1>4, <1>5, <1>6, <1>7, <1>8, <1>9 DEF Held
<1>11. Balanced(avail', permit', closing', units')
  BY Zenon, <1>2, <1>10 DEF Balanced
<1>12. ~Fits(avail) => ~Fits(avail')
  BY <1>4, <1>5 DEF Fits
<1>13. Types'
  BY Zenon, <1>2, <1>3, <1>5, <1>7 DEF Types
<1>14. Waiters'
  BY Zenon, <1>2, <1>3 DEF Waiters
<1>15. Balanced(avail, permit, closing, units)'
  BY Zenon, <1>11 DEF Balanced, Held, Marked, Sum
<1>16. Core'
  BY Zenon, <1>2, <1>3, <1>12, <1>13, <1>14, <1>15 DEF Core, Fits
<1>17. Registry(inactive, entries, handle, next_id, pc, permit)'
  BY Zenon, <1>2, SameRegistry
<1>18. InOrder
  BY ZenonT(60), <1>2 DEF InOrder
<1> QED
  BY Zenon, <1>16, <1>17, <1>18 DEF ReadersInv

(* A reader gives up waiting. *)
LEMMA ExpireStep ==
  ASSUME ReadersInv, NEW r \in All, Expire(r)
  PROVE  ReadersInv' /\ InOrder
<1>1. Before
  BY Zenon, BeforeStep
<1>2. /\ pc[r] = "waiting" /\ pc' = [pc EXCEPT ![r] = "idle"] /\ wait' = Without(wait, {r})
      /\ avail' = avail /\ inactive' = inactive /\ next_id' = next_id /\ entries' = entries
      /\ permit' = permit /\ units' = units /\ handle' = handle /\ closing' = closing
  BY DEF Expire
<1>3. /\ wait \in Seq(All) /\ Distinct(wait) /\ pc \in [All -> PCs]
      /\ Balanced(avail, permit, closing, units) /\ Types
      /\ (wait # <<>> => inactive = <<>>) /\ (wait # <<>> => ~Fits(avail))
      /\ \A x \in Range(wait) : pc[x] = "waiting" /\ ~permit[x]
      /\ Range(wait) \in SUBSET All
  BY Zenon, <1>1 DEF Before, Core, Waiters
<1>4. wait' \in Seq(All) /\ Range(wait') = Range(wait) \ {r} /\ Distinct(wait')
  BY Zenon, <1>2, <1>3, WithoutQueue
<1>5. "idle" \in PCs
  BY DEF PCs
<1>6. pc' \in [All -> PCs] /\ \A x \in All : x # r => pc'[x] = pc[x]
  BY Zenon, <1>2, <1>3, <1>5, PcStep
<1>7. wait = <<>> => wait' = <<>>
  <2> HAVE wait = <<>>
  <2>1. \A x : x \in Range(wait) <=> \E i \in 1..Len(wait) : wait[i] = x
    BY Zenon, <1>3, QueueRange
  <2>2. ~\E i \in 1..Len(wait) : TRUE
    OBVIOUS
  <2>3. \A x : x \notin Range(wait')
    BY SMTT(30), <1>4, <2>1, <2>2
  <2>4. /\ wait' # <<>> <=> Len(wait') # 0
        /\ \A x : x \in Range(wait') <=> \E i \in 1..Len(wait') : wait'[i] = x
    BY Zenon, <1>4, QueueRange
  <2>5. Len(wait') # 0 => 1 \in 1..Len(wait')
    BY <1>4
  <2> QED
    BY Zenon, <2>3, <2>4, <2>5
<1>8. Types'
  BY Zenon, <1>2, <1>3, <1>4, <1>6 DEF Types
<1>9. Waiters'
  <2>1. ASSUME NEW x \in Range(wait') PROVE pc'[x] = "waiting" /\ ~permit'[x]
    <3>1. x \in Range(wait) /\ x # r /\ x \in All
      BY <1>3, <1>4
    <3> QED
      BY ZenonT(60), <1>2, <1>3, <1>6, <3>1
  <2> QED
    BY Zenon, <1>4, <2>1 DEF Waiters
<1>10. Balanced(avail, permit, closing, units)'
  BY Zenon, <1>2, <1>3 DEF Balanced, Held, Marked, Sum
<1>11. Core'
  BY ZenonT(60), <1>2, <1>3, <1>7, <1>8, <1>9, <1>10 DEF Core, Fits
<1>12. \A x \in All : pc[x] \in {"paused", "active"} => pc'[x] = pc[x]
  BY SMTT(30), <1>2, <1>6
<1>13. Registry(inactive, entries, handle, next_id, pc, permit)'
  BY Zenon, <1>2, <1>12, SameRegistry
<1>14. InOrder
  BY Zenon, <1>2 DEF InOrder
<1> QED
  BY Zenon, <1>11, <1>13, <1>14 DEF ReadersInv

(* A reader is taken out of the cache and of the inactive reads. *)
LEMMA TakenOut ==
  ASSUME ReadersInv, NEW r \in All, inactive' = Without(inactive, Found(r)),
         handle' = [handle EXCEPT ![r] = 0],
         entries' = Without(entries, {r}) \/ (r \notin Range(entries) /\ entries' = entries)
  PROVE  Left({r})
<1>1. /\ entries \in Seq(Queriers) /\ Distinct(entries) /\ handle \in [All -> Nat]
  BY Zenon DEF ReadersInv, Registry
<1>2. /\ inactive' \in Seq(Reads) /\ Distinct(inactive')
      /\ \A i : i \in Range(inactive') <=> i \in Range(inactive) /\ i.reader \notin {r}
  BY Zenon, FoundOwn
<1>3. /\ entries' \in Seq(Queriers) /\ Distinct(entries')
      /\ \A x : x \in Range(entries') <=> x \in Range(entries) /\ x \notin {r}
  <2>1. CASE entries' = Without(entries, {r})
    <3>1. /\ Without(entries, {r}) \in Seq(Queriers) /\ Distinct(Without(entries, {r}))
          /\ Range(Without(entries, {r})) = Range(entries) \ {r}
      BY Zenon, <1>1, WithoutQueue
    <3> QED
      BY Zenon, <2>1, <3>1
  <2>2. CASE r \notin Range(entries) /\ entries' = entries
    <3>1. \A x : x \in Range(entries) <=> x \in Range(entries) /\ x \notin {r}
      BY <2>2
    <3> QED
      BY Zenon, <1>1, <2>2, <3>1
  <2> QED
    BY Zenon, <2>1, <2>2
<1>4. /\ handle' \in [All -> Nat]
      /\ \A x \in All : handle'[x] = handle[x] \/ (x \in {r} /\ handle'[x] = 0)
  BY <1>1
<1> QED
  BY Zenon, <1>2, <1>3, <1>4 DEF Left, Smaller

(* It goes on with the permit that it has. *)
LEMMA TakenQuietly ==
  ASSUME ReadersInv, UNCHANGED <<avail, wait, permit, units, closing, next_id>>,
         NEW r \in All, Left({r}), pc[r] = "paused",
         NEW v \in PCs, pc' = [pc EXCEPT ![r] = v], permit[r] => v = "active"
  PROVE  ReadersInv' /\ InOrder
<1>1. Before
  BY Zenon, BeforeStep
<1>2. pc \in [All -> PCs]
  BY Zenon, <1>1 DEF Before
<1>3. /\ pc' \in [All -> PCs] /\ pc'[r] = v
      /\ \A x \in All : x # r => pc'[x] = pc[x]
  BY ZenonT(60), <1>2, PcStep
<1>4. ASSUME NEW x \in All, x \notin {r}, Parked(inactive, x) PROVE pc'[x] = "paused"
  <2>1. pc[x] = "paused" /\ x # r
    BY <1>1, <1>4 DEF Before
  <2> QED
    BY Zenon, <1>3, <2>1
<1>5. ASSUME NEW x \in All, permit[x]
      PROVE  pc'[x] = "active" \/ (x \notin {r} /\ Parked(inactive, x))
  <2>1. CASE x = r
    BY Zenon, <1>3, <1>5, <2>1
  <2>2. CASE x # r
    <3>1. pc[x] = "active" \/ Parked(inactive, x)
      BY Zenon, <1>1, <1>5 DEF Before
    <3> QED
      BY <1>3, <2>2, <3>1
  <2> QED
    BY Zenon, <2>1, <2>2
<1>6. Stays(inactive, {r}, pc', permit)
  BY Zenon, <1>4, <1>5 DEF Stays
<1>7. \A x \in All : pc'[x] = pc[x] \/ pc[x] # "waiting"
  BY <1>3
<1>8. {r} \in SUBSET All
  OBVIOUS
<1> QED
  BY Zenon, <1>3, <1>6, <1>7, <1>8, QuietStep

(* It is destroyed. *)
LEMMA TakenDropped ==
  ASSUME ReadersInv, next_id' = next_id,
         NEW r \in All, Left({r}), pc[r] # "waiting",
         NEW v \in PCs, Drop({r}, [pc EXCEPT ![r] = v])
  PROVE  ReadersInv' /\ InOrder
<1>1. Before
  BY Zenon, BeforeStep
<1>2. pc \in [All -> PCs] /\ Types /\ Waiters /\ Balanced(avail, permit, closing, units)
  BY Zenon, <1>1 DEF Before
<1>3. PICK pcs : pcs = [pc EXCEPT ![r] = v]
  OBVIOUS
<1>4. {r} \in SUBSET All
  OBVIOUS
<1>5. pcs \in [All -> PCs] /\ \A x \in All : x # r => pcs[x] = pc[x]
  BY Zenon, <1>2, <1>3, PcStep
<1>6. Settled({r}, pcs) /\ units' \in [All -> Nat] /\ closing' \in [All -> BOOLEAN]
  BY Zenon, <1>2, <1>3, <1>4, <1>5, DropSettles
<1>7. \A x \in All : pcs[x] = pc[x] \/ (x \in {r} /\ pc[x] # "waiting")
  BY <1>5
<1> QED
  BY Zenon, <1>4, <1>5, <1>6, <1>7, SettledStep

(* A reader that is paused and not registered has no permit. *)
LEMMA Gone ==
  ASSUME ReadersInv, NEW r \in All, pc[r] = "paused", r \in Queriers, r \notin Range(entries)
  PROVE  ~Parked(inactive, r) /\ ~permit[r]
<1>1. Before
  BY Zenon, BeforeStep
<1>2. \A i \in Range(inactive) : i.reader \in Queriers => i.reader \in Range(entries)
  BY Zenon DEF ReadersInv, Registry
<1>3. ~Parked(inactive, r)
  BY Zenon, <1>2 DEF Parked
<1>4. pc[r] # "active"
  OBVIOUS
<1> QED
  BY Zenon, <1>1, <1>3, <1>4 DEF Before

(* The next page. *)
LEMMA NextPageStep ==
  ASSUME ReadersInv, NEW r \in All, NextPage(r)
  PROVE  ReadersInv' /\ InOrder
<1>1. r \in Queriers /\ pc[r] = "paused" /\ next_id' = next_id
  BY Zenon DEF NextPage
<1>2. pc[r] # "waiting" /\ "active" \in PCs /\ "pending" \in PCs
  BY <1>1 DEF PCs
<1>3. CASE /\ entries' = Without(entries, {r}) /\ inactive' = Without(inactive, Found(r))
           /\ handle' = [handle EXCEPT ![r] = 0]
           /\ pc' = [pc EXCEPT ![r] = IF permit[r] THEN "active" ELSE "pending"]
           /\ UNCHANGED <<avail, wait, permit, units, closing>>
  <2>1. Left({r})
    BY Zenon, <1>3, TakenOut
  <2>2. PICK v : v = IF permit[r] THEN "active" ELSE "pending"
    OBVIOUS
  <2>3. v \in PCs /\ (permit[r] => v = "active")
    BY Zenon, <1>2, <2>2
  <2>4. UNCHANGED <<avail, wait, permit, units, closing, next_id>> /\ pc' = [pc EXCEPT ![r] = v]
    BY <1>1, <1>3, <2>2
  <2> QED
    BY Zenon, <1>1, <2>1, <2>3, <2>4, TakenQuietly
<1>4. CASE /\ entries' = Without(entries, {r}) /\ inactive' = Without(inactive, Found(r))
           /\ handle' = [handle EXCEPT ![r] = 0]
           /\ Drop({r}, [pc EXCEPT ![r] = "pending"])
  <2>1. Left({r})
    BY Zenon, <1>4, TakenOut
  <2> QED
    BY Zenon, <1>1, <1>2, <1>4, <2>1, TakenDropped
<1>5. CASE /\ r \notin Range(entries) /\ pc' = [pc EXCEPT ![r] = "pending"]
           /\ UNCHANGED <<avail, wait, inactive, entries, permit, units, handle, closing>>
  <2>1. ~Parked(inactive, r) /\ ~permit[r]
    BY Zenon, <1>1, <1>5, Gone
  <2>2. UNCHANGED <<avail, wait, inactive, next_id, entries, permit, units, handle, closing>>
    BY <1>1, <1>5
  <2> QED
    BY Zenon, <1>2, <1>5, <2>1, <2>2, PlainStep
<1> QED
  BY Zenon, <1>3, <1>4, <1>5 DEF NextPage

(* Whether the reader of a handle is still registered. *)
LEMMA FoundParked ==
  ASSUME ReadersInv, NEW r \in All
  PROVE  /\ Parked(inactive, r) <=> Found(r) # {}
         /\ pc[r] = "paused" /\ permit[r] => Parked(inactive, r)
         /\ r \in ShardReaders => r \notin Range(entries)
<1>1. Before
  BY Zenon, BeforeStep
<1>2. \A i : i \in Found(r) <=> i \in Range(inactive) /\ i.reader = r
  BY Zenon, FoundOwn
<1>3. Found(r) # {} <=> \E i : i \in Found(r)
  OBVIOUS
<1>4. Parked(inactive, r) <=> Found(r) # {}
  BY Zenon, <1>2, <1>3 DEF Parked
<1>5. pc[r] = "paused" => pc[r] # "active"
  OBVIOUS
<1>6. pc[r] = "paused" /\ permit[r] => Parked(inactive, r)
  BY ZenonT(60), <1>1, <1>5 DEF Before
<1>7. r \in ShardReaders => r \notin Range(entries)
  BY <1>1, ReadersAssumption DEF Before
<1> QED
  BY Zenon, <1>4, <1>6, <1>7

LEMMA ResumeStep ==
  ASSUME ReadersInv, NEW r \in All, Resume(r)
  PROVE  ReadersInv' /\ InOrder
<1>1. PICK v : v = IF Found(r) # {} /\ permit[r] THEN "active" ELSE "pending"
  OBVIOUS
<1>2. /\ r \in ShardReaders /\ pc[r] = "paused"
      /\ inactive' = Without(inactive, Found(r)) /\ handle' = [handle EXCEPT ![r] = 0]
      /\ pc' = [pc EXCEPT ![r] = v]
      /\ entries' = entries
      /\ UNCHANGED <<avail, wait, permit, units, closing, next_id>>
  BY <1>1 DEF Resume
<1>3. Left({r})
  BY Zenon, <1>2, FoundParked, TakenOut
<1>4. permit[r] => v = "active"
  BY Zenon, <1>1, <1>2, FoundParked
<1>5. v \in PCs
  BY <1>1 DEF PCs
<1> QED
  BY Zenon, <1>2, <1>3, <1>4, <1>5, TakenQuietly

LEMMA StopStep ==
  ASSUME ReadersInv, NEW r \in All, Stop(r)
  PROVE  ReadersInv' /\ InOrder
<1>1. Before
  BY Zenon, BeforeStep
<1>2. /\ pc \in [All -> PCs] /\ Types /\ Waiters /\ Balanced(avail, permit, closing, units)
      /\ permit \in [All -> BOOLEAN]
  BY Zenon, <1>1 DEF Before
<1>3. PICK pcs : pcs = [pc EXCEPT ![r] = "idle"]
  BY Zenon
<1>4. PICK S : S = {i.reader : i \in Found(r)}
  BY Zenon
<1>5. /\ r \in ShardReaders /\ pc[r] = "paused"
      /\ inactive' = Without(inactive, Found(r)) /\ handle' = [handle EXCEPT ![r] = 0]
      /\ Drop(S, pcs) /\ next_id' = next_id /\ entries' = entries
  BY SMTT(30), <1>3, <1>4 DEF Stop
<1>6. Left({r})
  BY Zenon, <1>5, FoundParked, TakenOut
<1>7. \A i : i \in Found(r) <=> i \in Range(inactive) /\ i.reader = r
  BY Zenon, FoundOwn
<1>8. S \in SUBSET {r} /\ (Found(r) # {} => r \in S)
  BY SMTT(30), <1>4, <1>7
<1>9. S \in SUBSET All /\ {r} \in SUBSET All /\ "idle" \in PCs /\ pc[r] # "waiting"
  BY <1>5, <1>8 DEF PCs
<1>10. pcs \in [All -> PCs] /\ \A x \in All : x # r => pcs[x] = pc[x]
  BY Zenon, <1>2, <1>3, <1>9, PcStep
<1>11. Settled(S, pcs) /\ units' \in [All -> Nat] /\ closing' \in [All -> BOOLEAN]
  BY ZenonT(60), <1>2, <1>5, <1>9, <1>10, DropSettles
<1>12. \A x \in {r} : x \in S \/ ~permit[x]
  BY SMTT(30), <1>5, <1>8, FoundParked
<1>13. Settled({r}, pcs)
  <2>1. \A x \in All : permit'[x] => x \in Admitted \/ (permit[x] /\ x \notin S)
    BY Zenon, <1>11 DEF Settled
  <2>2. \A x \in All : permit'[x] => x \in Admitted \/ (permit[x] /\ x \notin {r})
    BY Zenon, <1>12, <2>1
  <2> QED
    BY Zenon, <1>11, <2>2 DEF Settled
<1>14. \A x \in All : pcs[x] = pc[x] \/ (x \in {r} /\ pc[x] # "waiting")
  BY <1>9, <1>10
<1> QED
  BY ZenonT(60), <1>5, <1>6, <1>9, <1>10, <1>11, <1>13, <1>14, SettledStep

(* A reader is registered while nobody waits, and the readers of S are evicted before. *)
LEMMA RegisterStep ==
  ASSUME ReadersInv, NEW r \in All, pc[r] \in {"pending", "active"}, wait = <<>>,
         NEW S \in SUBSET All, NEW pcs, pcs = [pc EXCEPT ![r] = "paused"], Settled(S, pcs),
         units' \in [All -> Nat], closing' \in [All -> BOOLEAN],
         NEW ina, NEW ent, NEW hnd, Smaller(inactive, entries, handle, S, ina, ent, hnd),
         Register(r, ina), handle' = [hnd EXCEPT ![r] = next_id], Cached(ent, r, entries')
  PROVE  ReadersInv' /\ InOrder
<1>1. Before
  BY Zenon, BeforeStep
<1>2. /\ Registry(inactive, entries, handle, next_id, pc, permit)
      /\ pc \in [All -> PCs] /\ permit \in [All -> BOOLEAN]
      /\ handle \in [All -> Nat] /\ next_id \in Nat /\ wait \in Seq(All)
      /\ \A x \in All : handle[x] < next_id
  BY Zenon, <1>1 DEF Before, ReadersInv, Registry
<1>3. pc[r] # "paused" /\ pc[r] # "waiting" /\ "paused" \in PCs
  BY DEF PCs
<1>4. pcs \in [All -> PCs] /\ pcs[r] = "paused" /\ \A x \in All : x # r => pcs[x] = pc[x]
  BY ZenonT(60), <1>2, <1>3, PcStep
<1>5. \A x : x \notin Range(wait)
  <2>1. \A x : x \in Range(wait) <=> \E i \in 1..Len(wait) : wait[i] = x
    BY Zenon, <1>2, QueueRange
  <2>2. ~\E i \in 1..Len(wait) : TRUE
    OBVIOUS
  <2> QED
    BY Zenon, <2>1, <2>2
<1>6. /\ wait' = <<>>
      /\ \A x \in All : pc'[x] = IF x \in Admitted THEN "active" ELSE pcs[x]
      /\ \A x \in All : permit'[x] => x \in Admitted \/ (permit[x] /\ x \notin S)
  BY Zenon DEF Settled
<1>7. \A x : x \notin Admitted
  BY <1>5 DEF Admitted
<1>8. (\A x \in All : pc'[x] = pcs[x]) /\ \A x \in All : permit'[x] => permit[x] /\ x \notin S
  BY Zenon, <1>6, <1>7
<1>9. Core'
  BY Zenon, <1>1, <1>4, <1>5, <1>6, SettledCore
<1>10. Stays(inactive, S, pc, PermitsWithout(S))
  <2>1. \A x \in All : PermitsWithout(S)[x] => permit[x] /\ x \notin S
    BY Zenon, <1>2 DEF PermitsWithout
  <2> QED
    BY Zenon, <1>1, <2>1 DEF Before, Stays
<1>11. Registry(ina, ent, hnd, next_id, pc, PermitsWithout(S))
  BY Zenon, <1>2, <1>10, RegistryShrinks
<1>12. \A x : Parked(ina, x) <=> Parked(inactive, x) /\ x \notin S
  <2>1. \A i : i \in Range(ina) <=> i \in Range(inactive) /\ i.reader \notin S
    BY Zenon DEF Smaller
  <2> QED
    BY Zenon, <2>1 DEF Parked
<1>13. ~Parked(ina, r)
  BY Zenon, <1>1, <1>3, <1>12 DEF Before
<1>14. next_id # 0
  <2>1. handle[r] \in Nat /\ handle[r] < next_id
    BY <1>2
  <2> QED
    BY SMTT(30), <1>2, <2>1
<1>15. Joins(ina, r, pc', permit')
  <2>1. pc'[r] = "paused"
    BY Zenon, <1>4, <1>8
  <2>2. ASSUME NEW x \in All, Parked(ina, x) PROVE pc'[x] = "paused"
    <3>1. pc[x] = "paused"
      BY Zenon, <1>1, <1>12, <2>2 DEF Before
    <3> QED
      BY Zenon, <1>4, <1>8, <3>1
  <2>3. ASSUME NEW x \in All, permit'[x] PROVE x = r \/ pc'[x] = "active" \/ Parked(ina, x)
    <3>1. permit[x] /\ x \notin S
      BY Zenon, <1>8, <2>3
    <3>2. pc[x] = "active" \/ Parked(inactive, x)
      BY ZenonT(60), <1>1, <3>1 DEF Before
    <3> QED
      BY ZenonT(60), <1>4, <1>8, <1>12, <3>1, <3>2
  <2> QED
    BY Zenon, <2>1, <2>2, <2>3 DEF Joins
<1>16. Registry(inactive', entries', handle', next_id', pc', permit')
  <2>1. Registry(Append(ina, [id |-> next_id, reader |-> r]), entries',
                 [hnd EXCEPT ![r] = next_id], next_id + 1, pc', permit')
    BY ZenonT(60), <1>11, <1>13, <1>14, <1>15, RegistryGrows
  <2>2. inactive' = Append(ina, [id |-> next_id, reader |-> r]) /\ next_id' = next_id + 1
    BY Zenon DEF Register
  <2> QED
    BY SMTT(30), <2>1, <2>2
<1>17. Registry(inactive, entries, handle, next_id, pc, permit)'
  BY Zenon, <1>16 DEF Registry, Parked
<1>18. InOrder
  BY Zenon DEF Settled, InOrder
<1> QED
  BY Zenon, <1>9, <1>17, <1>18 DEF ReadersInv

(* pause() *)
LEMMA PauseStep ==
  ASSUME ReadersInv, NEW r \in All, Pause(r)
  PROVE  ReadersInv' /\ InOrder
<1>1. Before
  BY Zenon, BeforeStep
<1>2. /\ r \in ShardReaders /\ pc[r] \in {"pending", "active"} /\ entries' = entries
  BY Zenon DEF Pause
<1>3. pc[r] # "paused" /\ pc[r] # "waiting" /\ "paused" \in PCs
  BY <1>2 DEF PCs
<1>4. ~Parked(inactive, r)
  BY Zenon, <1>1, <1>3 DEF Before
<1>5. r \notin Queriers
  BY <1>2, ReadersAssumption
<1>6. /\ pc \in [All -> PCs] /\ Types /\ Waiters /\ Balanced(avail, permit, closing, units)
      /\ handle \in [All -> Nat] /\ wait \in Seq(All) /\ inactive \in Seq(Reads)
      /\ entries \in Seq(Queriers) /\ Distinct(inactive) /\ Distinct(entries)
      /\ units \in [All -> Nat] /\ closing \in [All -> BOOLEAN]
  BY Zenon, <1>1 DEF Before, ReadersInv, Registry
<1>7. CASE /\ MayRegister /\ Register(r, inactive)
           /\ handle' = [handle EXCEPT ![r] = next_id] /\ pc' = [pc EXCEPT ![r] = "paused"]
           /\ UNCHANGED <<avail, wait, permit, units, closing>>
  <2>1. /\ wait = <<>> /\ wait' = wait /\ avail' = avail /\ permit' = permit /\ units' = units
        /\ closing' = closing
    BY Zenon, <1>7 DEF MayRegister
  <2>2. PICK pcs : pcs = [pc EXCEPT ![r] = "paused"]
    BY Zenon
  <2>3. pcs \in [All -> PCs] /\ pc' = pcs
    BY ZenonT(60), <1>3, <1>6, <1>7, <2>2, PcStep
  <2>4. Admitted = {} /\ {} \in SUBSET All
    BY <2>1 DEF Admitted
  <2>5. Balanced(avail', permit', closing', units')
    BY Zenon, <1>6, <2>1
  <2>6. Settled({}, pcs)
    <3>1. /\ avail \in Resources /\ permit \in [All -> BOOLEAN] /\ Distinct(wait)
      BY Zenon, <1>6 DEF Types, Waiters
    <3>2. /\ \A x \in All : pc'[x] = IF x \in Admitted THEN "active" ELSE pcs[x]
          /\ \A x \in All : permit'[x] => x \in Admitted \/ (permit[x] /\ x \notin {})
          /\ Range(wait') \in SUBSET Range(wait)
      BY SMTT(30), <2>1, <2>3, <2>4
    <3>3. \A x \in All : ~(permit'[x] /\ ~permit[x])
      BY Zenon, <2>1
    <3> QED
      BY ZenonT(60), <1>6, <2>1, <2>3, <2>5, <3>1, <3>2, <3>3 DEF Settled
  <2>7. Smaller(inactive, entries, handle, {}, inactive, entries, handle)
    <3>1. \A x : x \notin {}
      OBVIOUS
    <3> QED
      BY Zenon, <1>6, <3>1 DEF Smaller
  <2>8. Cached(entries, r, entries')
    BY Zenon, <1>2, <1>5 DEF Cached
  <2>9. units' \in [All -> Nat] /\ closing' \in [All -> BOOLEAN]
    BY Zenon, <1>6, <2>1
  <2> QED
    BY ZenonT(60), <1>2, <1>7, <2>1, <2>2, <2>4, <2>6, <2>7, <2>8, <2>9, RegisterStep
<1>8. CASE /\ handle' = [handle EXCEPT ![r] = 0] /\ Drop({r}, [pc EXCEPT ![r] = "paused"])
           /\ UNCHANGED <<inactive, next_id>>
  <2>1. \A i : i \in Found(r) <=> i \in Range(inactive) /\ i.reader = r
    BY Zenon, FoundOwn
  <2>2. /\ handle' \in [All -> Nat]
        /\ \A x \in All : handle'[x] = handle[x] \/ (x \in {r} /\ handle'[x] = 0)
    BY SMTT(30), <1>6, <1>8
  <2>3. /\ \A i : i \in Range(inactive') <=> i \in Range(inactive) /\ i.reader \notin {r}
        /\ \A x : x \in Range(entries') <=> x \in Range(entries) /\ x \notin {r}
    <3>1. r \notin Range(entries)
      BY Zenon, <1>2, FoundParked
    <3>2. inactive' = inactive
      BY Zenon, <1>8
    <3> QED
      BY SMTT(30), <1>2, <1>4, <3>1, <3>2 DEF Parked
  <2>4. Left({r})
    BY ZenonT(60), <1>2, <1>6, <1>8, <2>2, <2>3 DEF Left, Smaller
  <2>5. next_id' = next_id
    BY Zenon, <1>8
  <2> QED
    BY ZenonT(60), <1>3, <1>8, <2>4, <2>5, TakenDropped
<1> QED
  BY Zenon, <1>7, <1>8 DEF Pause

(* insert_querier(): the oldest queriers are evicted. *)
LEMMA EvictedOldest ==
  ASSUME ReadersInv, NEW k \in 0..Len(entries), NEW old, old = FirstOf(entries, k)
  PROVE  /\ old \in SUBSET Range(entries) /\ old \in SUBSET All
         /\ Smaller(inactive, entries, handle, old,
                    InactiveWithout(old), Rest(entries, k), HandlesWithout(old))
<1>1. Before
  BY Zenon, BeforeStep
<1>2. /\ entries \in Seq(Queriers) /\ Distinct(entries) /\ Range(entries) \in SUBSET Queriers
  BY Zenon, <1>1 DEF Before, ReadersInv, Registry
<1>3. /\ old \in SUBSET Range(entries) /\ Rest(entries, k) \in Seq(Queriers)
      /\ Distinct(Rest(entries, k)) /\ Range(Rest(entries, k)) = Range(entries) \ old
  BY ZenonT(60), <1>2, RestQueue
<1>4. old \in SUBSET All
  BY SMTT(30), <1>2, <1>3 DEF All
<1>5. \A x : x \in Range(Rest(entries, k)) <=> x \in Range(entries) /\ x \notin old
  BY <1>3
<1> QED
  BY Zenon, <1>3, <1>4, <1>5, EvictedLists DEF Smaller

LEMMA EndPageStep ==
  ASSUME ReadersInv, NEW r \in All, EndPage(r)
  PROVE  ReadersInv' /\ InOrder
<1>1. Before
  BY Zenon, BeforeStep
<1>2. PICK k \in 0..Len(entries) :
       LET old == FirstOf(entries, k) IN
       \/ /\ MayRegister
          /\ Register(r, InactiveWithout(old))
          /\ entries' = Append(Rest(entries, k), r)
          /\ handle' = [HandlesWithout(old) EXCEPT ![r] = next_id]
          /\ Drop(old, [pc EXCEPT ![r] = "paused"])
       \/ /\ ~MayRegister
          /\ inactive' = InactiveWithout(old)
          /\ entries' = Rest(entries, k)
          /\ handle' = HandlesWithout(old)
          /\ Drop(old \cup {r}, [pc EXCEPT ![r] = "paused"])
          /\ UNCHANGED next_id
  BY Zenon DEF EndPage
<1>3. r \in Queriers /\ pc[r] \in {"pending", "active"}
  BY Zenon DEF EndPage
<1>4. pc[r] # "paused" /\ pc[r] # "waiting" /\ "paused" \in PCs
  BY <1>3 DEF PCs
<1>5. ~Parked(inactive, r)
  BY Zenon, <1>1, <1>4 DEF Before
<1>6. pc \in [All -> PCs] /\ Types /\ Waiters /\ Balanced(avail, permit, closing, units)
  BY Zenon, <1>1 DEF Before
<1>7. PICK old : old = FirstOf(entries, k)
  OBVIOUS
<1>8. /\ old \in SUBSET Range(entries) /\ old \in SUBSET All
      /\ Smaller(inactive, entries, handle, old,
                 InactiveWithout(old), Rest(entries, k), HandlesWithout(old))
  <2>1. k \in 0..Len(entries)
    BY Zenon, <1>2
  <2> QED
    BY SMTT(30), <1>7, <2>1, EvictedOldest
<1>9. PICK pcs : pcs = [pc EXCEPT ![r] = "paused"]
  BY Zenon
<1>10. pcs \in [All -> PCs] /\ \A x \in All : x # r => pcs[x] = pc[x]
  BY Zenon, <1>4, <1>6, <1>9, PcStep
<1>11. CASE /\ MayRegister /\ Register(r, InactiveWithout(old))
            /\ entries' = Append(Rest(entries, k), r)
            /\ handle' = [HandlesWithout(old) EXCEPT ![r] = next_id]
            /\ Drop(old, pcs)
  <2>1. Settled(old, pcs) /\ units' \in [All -> Nat] /\ closing' \in [All -> BOOLEAN]
    BY ZenonT(60), <1>6, <1>8, <1>10, <1>11, DropSettles
  <2>2. wait = <<>>
    BY Zenon, <1>11 DEF MayRegister
  <2>3. Cached(Rest(entries, k), r, entries')
    BY Zenon, <1>3, <1>11 DEF Cached
  <2> QED
    BY ZenonT(60), <1>3, <1>8, <1>9, <1>11, <2>1, <2>2, <2>3, RegisterStep
<1>12. CASE /\ inactive' = InactiveWithout(old) /\ entries' = Rest(entries, k)
            /\ handle' = HandlesWithout(old)
            /\ Drop(old \cup {r}, pcs)
            /\ next_id' = next_id
  <2>1. PICK S : S = old \cup {r}
    BY Zenon
  <2>2. S \in SUBSET All /\ \A x : x \in S <=> x \in old \/ x = r
    BY <1>8, <2>1
  <2>3. Settled(S, pcs) /\ units' \in [All -> Nat] /\ closing' \in [All -> BOOLEAN]
    BY ZenonT(60), <1>6, <1>10, <1>12, <2>1, <2>2, DropSettles
  <2>4. /\ inactive' \in Seq(Reads) /\ entries' \in Seq(Queriers) /\ handle' \in [All -> Nat]
        /\ Distinct(inactive') /\ Distinct(entries')
        /\ \A i : i \in Range(inactive') <=> i \in Range(inactive) /\ i.reader \notin old
        /\ \A x : x \in Range(entries') <=> x \in Range(entries) /\ x \notin old
        /\ \A x \in All : handle'[x] = handle[x] \/ (x \in old /\ handle'[x] = 0)
    BY Zenon, <1>8, <1>12 DEF Smaller
  <2>5. \A i \in Range(inactive) : i.reader # r
    BY Zenon, <1>5 DEF Parked
  <2>6. r \notin Range(entries)
    BY Zenon, <1>1, <1>5 DEF Before
  <2>7. Left(S)
    BY Zenon, <2>2, <2>4, <2>5, <2>6 DEF Left, Smaller
  <2>8. \A x \in All : pcs[x] = pc[x] \/ (x \in S /\ pc[x] # "waiting")
    BY Zenon, <1>4, <1>10, <2>2
  <2> QED
    BY ZenonT(60), <1>10, <1>12, <2>2, <2>3, <2>7, <2>8, SettledStep
<1> QED
  BY ZenonT(60), <1>2, <1>7, <1>9, <1>11, <1>12

(* wait_admission(): the oldest inactive reads are evicted. *)
LEMMA EvictedVictims ==
  ASSUME ReadersInv, NEW n \in 0..Len(inactive), NEW V, V = Victims(n)
  PROVE  /\ V \in SUBSET All /\ \A x \in V : Parked(inactive, x)
         /\ Smaller(inactive, entries, handle, V,
                    Rest(inactive, n), EntriesWithout(V), HandlesWithout(V))
<1>1. /\ inactive \in Seq(Reads) /\ Distinct(inactive)
      /\ \A i \in Range(inactive) : handle[i.reader] = i.id
  BY Zenon DEF ReadersInv, Registry
<1>2. PICK F : F = FirstOf(inactive, n)
  OBVIOUS
<1>3. /\ F \in SUBSET Range(inactive) /\ Rest(inactive, n) \in Seq(Reads)
      /\ Distinct(Rest(inactive, n)) /\ Range(Rest(inactive, n)) = Range(inactive) \ F
  BY ZenonT(60), <1>1, <1>2, RestQueue
<1>4. V = {i.reader : i \in F}
  BY SMTT(30), <1>2 DEF Victims, FirstOf
<1>5. \A i \in Range(inactive) : i.reader \in All /\ i = [id |-> i.id, reader |-> i.reader]
  BY ZenonT(60), <1>1, RegisteredReads
<1>6. V \in SUBSET All
  BY SMTT(30), <1>3, <1>4, <1>5
<1>7. \A x \in V : \E i \in F : i.reader = x
  BY SMTT(30), <1>4
<1>8. \A x \in V : Parked(inactive, x)
  BY <1>3, <1>7 DEF Parked
<1>9. ASSUME NEW i \in Range(inactive), i.reader \in V PROVE i \in F
  <2>1. PICK j \in F : j.reader = i.reader
    BY Zenon, <1>7, <1>9
  <2>2. j \in Range(inactive)
    BY <1>3
  <2>3. j.id = i.id
    BY Zenon, <1>1, <2>1, <2>2
  <2>4. j = [id |-> j.id, reader |-> j.reader] /\ i = [id |-> i.id, reader |-> i.reader]
    BY Zenon, <1>5, <2>2
  <2>5. i = j
    BY SMTT(30), <2>1, <2>3, <2>4
  <2> QED
    BY Zenon, <2>5
<1>10. \A i \in F : i.reader \in V
  BY SMTT(30), <1>4
<1>11. \A i : i \in Range(Rest(inactive, n)) <=> i \in Range(inactive) /\ i.reader \notin V
  BY SMTT(30), <1>3, <1>9, <1>10
<1> QED
  BY ZenonT(60), <1>3, <1>6, <1>8, <1>11, EvictedLists DEF Smaller

(* What readers give back that nobody destroys. *)
LEMMA NothingReturned ==
  ASSUME NEW late \in SUBSET MayBeLate({}), avail \in Resources
  PROVE  Returned(avail, {}, late).count = avail.count /\ Returned(avail, {}, late).memory = avail.memory
<1>1. {x \in {} \ late : permit[x]} = {}
  OBVIOUS
<1>2. Cardinality({}) = 0 /\ IsFiniteSet({})
  BY Zenon, FS_EmptySet
<1>3. Sum(units, {}) = 0
  <2>1. \A x \in {} : units[x] = 0
    OBVIOUS
  <2> QED
    BY Zenon, <1>2, <2>1, SumZero
<1>4. avail.count \in Int /\ avail.memory \in Int
  BY DEF Resources
<1> QED
  BY SMTT(30), <1>1, <1>2, <1>3, <1>4 DEF Returned, Sum

LEMMA WaitAdmissionStep ==
  ASSUME ReadersInv, NEW r \in All, WaitAdmission(r)
  PROVE  ReadersInv' /\ InOrder
<1>1. Before
  BY Zenon, BeforeStep
<1>2. /\ Types /\ Waiters /\ Balanced(avail, permit, closing, units)
      /\ pc \in [All -> PCs] /\ permit \in [All -> BOOLEAN] /\ wait \in Seq(All)
      /\ avail \in Resources /\ inactive \in Seq(Reads) /\ Range(wait) \in SUBSET All
      /\ Distinct(wait) /\ (\A x \in Range(wait) : pc[x] = "waiting" /\ ~permit[x])
      /\ (wait # <<>> => inactive = <<>>) /\ (wait # <<>> => ~Fits(avail))
  BY Zenon, <1>1 DEF Before, Core, Waiters
<1>3. PICK n \in 0..Len(inactive) : \E late \in SUBSET MayBeLate(Victims(n)) :
        LET a == Returned(avail, Victims(n), late) IN
            /\ n < Len(inactive) => MayProceed(a)
            /\ inactive' = Rest(inactive, n)
            /\ entries' = EntriesWithout(Victims(n))
            /\ handle' = HandlesWithout(Victims(n))
            /\ Destroyed(Victims(n), late)
            /\ \/ /\ MayProceed(a)
                  /\ avail' = Take(a, 1)
                  /\ pc' = [pc EXCEPT ![r] = "active"]
                  /\ permit' = [PermitsWithout(Victims(n)) EXCEPT ![r] = TRUE]
                  /\ UNCHANGED wait
               \/ /\ ~MayProceed(a)
                  /\ avail' = a
                  /\ pc' = [pc EXCEPT ![r] = "waiting"]
                  /\ permit' = PermitsWithout(Victims(n))
                  /\ wait' = Append(wait, r)
  BY Zenon DEF WaitAdmission
<1>4. PICK V : V = Victims(n)
  OBVIOUS
<1>5. PICK late \in SUBSET MayBeLate(V) :
        LET a == Returned(avail, V, late) IN
            /\ n < Len(inactive) => MayProceed(a)
            /\ inactive' = Rest(inactive, n)
            /\ entries' = EntriesWithout(V)
            /\ handle' = HandlesWithout(V)
            /\ Destroyed(V, late)
            /\ \/ /\ MayProceed(a)
                  /\ avail' = Take(a, 1)
                  /\ pc' = [pc EXCEPT ![r] = "active"]
                  /\ permit' = [PermitsWithout(V) EXCEPT ![r] = TRUE]
                  /\ UNCHANGED wait
               \/ /\ ~MayProceed(a)
                  /\ avail' = a
                  /\ pc' = [pc EXCEPT ![r] = "waiting"]
                  /\ permit' = PermitsWithout(V)
                  /\ wait' = Append(wait, r)
  BY Zenon, <1>3, <1>4
<1>6. PICK a : a = Returned(avail, V, late)
  OBVIOUS
<1>7. pc[r] = "pending" /\ next_id' = next_id
  BY Zenon DEF WaitAdmission
<1>8. pc[r] # "waiting" /\ pc[r] # "paused" /\ pc[r] # "active" /\ "active" \in PCs /\ "waiting" \in PCs
  BY <1>7 DEF PCs
<1>9. ~Parked(inactive, r)
  BY Zenon, <1>1, <1>8 DEF Before
<1>10. ~permit[r]
  BY Zenon, <1>1, <1>8, <1>9 DEF Before
<1>11. /\ V \in SUBSET All /\ \A x \in V : Parked(inactive, x)
       /\ Smaller(inactive, entries, handle, V,
                  Rest(inactive, n), EntriesWithout(V), HandlesWithout(V))
  <2>1. n \in 0..Len(inactive)
    BY Zenon, <1>3
  <2> QED
    BY Zenon, <1>4, <2>1, EvictedVictims
<1>12. Smaller(inactive, entries, handle, V, inactive', entries', handle')
  BY Zenon, <1>5, <1>11
<1>13. /\ a \in Resources /\ PermitsWithout(V) \in [All -> BOOLEAN]
       /\ units' \in [All -> Nat] /\ closing' \in [All -> BOOLEAN]
       /\ Balanced(a, PermitsWithout(V), closing', units')
  <2>1. late \in SUBSET MayBeLate(V) /\ Destroyed(V, late)
    BY Zenon, <1>5
  <2> QED
    BY ZenonT(60), <1>2, <1>6, <1>11, <2>1, DropResources
<1>14. \A x \in All : PermitsWithout(V)[x] => permit[x] /\ x \notin V
  BY Zenon, <1>2 DEF PermitsWithout
<1>15. ~PermitsWithout(V)[r]
  BY Zenon, <1>10, <1>14
<1>16. r \notin Range(wait)
  BY Zenon, <1>2, <1>8
<1>17. Registry(inactive, entries, handle, next_id, pc, permit)
  BY Zenon DEF ReadersInv
<1>18. ASSUME NEW v \in PCs, pc' = [pc EXCEPT ![r] = v],
              \A x \in All : permit'[x] => (x = r /\ v = "active") \/ PermitsWithout(V)[x]
       PROVE  Registry(inactive, entries, handle, next_id, pc, permit)'
  <2>1. pc'[r] = v /\ \A x \in All : x # r => pc'[x] = pc[x]
    BY ZenonT(60), <1>2, <1>18, PcStep
  <2>2. ASSUME NEW x \in All, x \notin V, Parked(inactive, x) PROVE pc'[x] = "paused"
    BY Zenon, <1>1, <1>9, <2>1, <2>2 DEF Before
  <2>3. ASSUME NEW x \in All, permit'[x]
        PROVE  pc'[x] = "active" \/ (x \notin V /\ Parked(inactive, x))
    <3>1. CASE x = r /\ v = "active"
      BY Zenon, <2>1, <3>1
    <3>2. CASE PermitsWithout(V)[x]
      <4>1. permit[x] /\ x \notin V /\ x # r
        BY Zenon, <1>10, <1>14, <3>2
      <4>2. pc[x] = "active" \/ Parked(inactive, x)
        BY Zenon, <1>1, <4>1 DEF Before
      <4> QED
        BY Zenon, <2>1, <4>1, <4>2
    <3> QED
      BY ZenonT(60), <1>18, <2>3, <3>1, <3>2
  <2>4. Stays(inactive, V, pc', permit')
    BY Zenon, <2>2, <2>3 DEF Stays
  <2>5. Registry(inactive', entries', handle', next_id, pc', permit')
    BY ZenonT(60), <1>12, <1>17, <2>4, RegistryShrinks
  <2>6. Registry(inactive', entries', handle', next_id', pc', permit')
    BY SMTT(30), <1>7, <2>5
  <2> QED
    BY Zenon, <2>6 DEF Registry, Parked
<1>19. CASE /\ MayProceed(a) /\ avail' = Take(a, 1)
            /\ pc' = [pc EXCEPT ![r] = "active"]
            /\ permit' = [PermitsWithout(V) EXCEPT ![r] = TRUE]
            /\ wait' = wait
  <2>1. wait = <<>> /\ wait' = <<>>
    BY Zenon, <1>19 DEF MayProceed
  <2>2. a.count \in Int /\ a.memory \in Int
    BY SMTT(30), <1>13 DEF Resources
  <2>3. avail' \in Resources /\ avail'.count = a.count - 1 /\ avail'.memory = a.memory - 1
    BY SMTT(30), <1>19, <2>2 DEF Take, Resources
  <2>4. /\ permit' \in [All -> BOOLEAN] /\ permit'[r]
        /\ \A x \in All : x # r => permit'[x] = PermitsWithout(V)[x]
    BY SMTT(30), <1>13, <1>19
  <2>5. Balanced(avail', permit', closing', units')
    <3>1. Marked(permit') = Marked(PermitsWithout(V)) \cup {r} /\ Marked(PermitsWithout(V)) \cap {r} = {}
      BY SMTT(30), <1>15, <2>4 DEF Marked
    <3>2. Marked(PermitsWithout(V)) \in SUBSET All /\ {r} \in SUBSET All /\ Cardinality({r}) = 1
      BY ZenonT(60), MarkedType, FS_Singleton
    <3>3. Cardinality(Marked(permit')) = Cardinality(Marked(PermitsWithout(V))) + 1
      BY Zenon, <3>1, <3>2, TwoParts
    <3>4. Cardinality(Marked(PermitsWithout(V))) \in Nat /\ Cardinality(Marked(closing')) \in Nat
      BY Zenon, MarkedType
    <3>5. Sum(units', All) \in Nat
      <4>1. All \in SUBSET All /\ \A x \in All : units'[x] \in Nat
        BY <1>13
      <4> QED
        BY ZenonT(60), <4>1, FiniteReaders, SumNat
    <3>6. /\ a.count + Held(PermitsWithout(V), closing') = Count
          /\ a.memory + Held(PermitsWithout(V), closing') + Sum(units', All) = Memory
      BY Zenon, <1>13 DEF Balanced
    <3>7. /\ Held(permit', closing') = Held(PermitsWithout(V), closing') + 1
          /\ Held(PermitsWithout(V), closing') \in Nat
      BY SMTT(30), <3>3, <3>4 DEF Held
    <3>8. /\ avail'.count + Held(permit', closing') = Count
          /\ avail'.memory + Held(permit', closing') + Sum(units', All) = Memory
      <4>1. PICK x, y, h, m : /\ x = a.count /\ y = a.memory /\ m = Sum(units', All)
                              /\ h = Held(PermitsWithout(V), closing')
        OBVIOUS
      <4>2. /\ x \in Int /\ y \in Int /\ h \in Nat /\ m \in Nat
            /\ x + h = Count /\ y + h + m = Memory
        BY ZenonT(60), <2>2, <3>5, <3>6, <3>7, <4>1
      <4>3. (x - 1) + (h + 1) = Count /\ (y - 1) + (h + 1) + m = Memory
        BY <4>2
      <4> QED
        BY ZenonT(60), <2>3, <3>7, <4>1, <4>3
    <3> QED
      BY Zenon, <3>8 DEF Balanced
  <2>6. pc' \in [All -> PCs]
    BY ZenonT(60), <1>2, <1>8, <1>19, PcStep
  <2>7. Types'
    BY ZenonT(60), <1>2, <1>13, <1>19, <2>3, <2>4, <2>6 DEF Types
  <2>8. \A x : x \notin Range(wait)
    <3>1. \A x : x \in Range(wait) <=> \E i \in 1..Len(wait) : wait[i] = x
      <4>1. wait \in Seq(All)
        BY Zenon, <1>2
      <4> QED
        BY ZenonT(60), <4>1, QueueRange
    <3>2. ~\E i \in 1..Len(wait) : TRUE
      BY <2>1
    <3> QED
      BY ZenonT(60), <3>1, <3>2
  <2>9. Waiters'
    BY Zenon, <1>2, <1>19, <2>8 DEF Waiters
  <2>10. Balanced(avail, permit, closing, units)'
    BY Zenon, <2>5 DEF Balanced, Held, Marked, Sum
  <2>11. Core'
    BY ZenonT(60), <2>1, <2>7, <2>9, <2>10 DEF Core
  <2>12. Registry(inactive, entries, handle, next_id, pc, permit)'
    BY ZenonT(60), <1>8, <1>18, <1>19, <2>4
  <2>13. InOrder
    BY ZenonT(60), <1>19, <2>8 DEF InOrder
  <2> QED
    BY Zenon, <2>11, <2>12, <2>13 DEF ReadersInv
<1>20. CASE /\ ~MayProceed(a) /\ avail' = a
            /\ pc' = [pc EXCEPT ![r] = "waiting"]
            /\ permit' = PermitsWithout(V)
            /\ wait' = Append(wait, r)
  <2>1. n = Len(inactive)
    <3>1. ~(n < Len(inactive))
      BY ZenonT(60), <1>5, <1>6, <1>20
    <3>2. n \in 0..Len(inactive) /\ Len(inactive) \in Nat
      BY SMTT(30), <1>2, <1>3
    <3> QED
      BY SMTT(30), <3>1, <3>2
  <2>2. inactive' = <<>>
    <3>1. n \in 0..Len(inactive) /\ inactive' = Rest(inactive, n)
      BY ZenonT(60), <1>3, <1>5
    <3> QED
      BY ZenonT(60), <1>2, <2>1, <3>1, RestQueue
  <2>3. ~Fits(a)
    <3>1. CASE wait = <<>>
      BY Zenon, <1>20, <3>1 DEF MayProceed
    <3>2. CASE wait # <<>>
      <4>1. Len(inactive) = 0
        BY SMTT(30), <1>2, <3>2
      <4>2. V = {}
        BY SMTT(30), <1>4, <2>1, <4>1 DEF Victims
      <4>3. a.count = avail.count /\ a.memory = avail.memory
        BY ZenonT(60), <1>2, <1>5, <1>6, <4>2, NothingReturned
      <4> QED
        BY ZenonT(60), <1>2, <3>2, <4>3 DEF Fits
    <3> QED
      BY ZenonT(60), <3>1, <3>2
  <2>4. wait' \in Seq(All) /\ Range(wait') = Range(wait) \cup {r} /\ Distinct(wait')
    BY SMTT(30), <1>2, <1>16, <1>20, AppendQueue
  <2>5. pc' \in [All -> PCs] /\ pc'[r] = "waiting" /\ \A x \in All : x # r => pc'[x] = pc[x]
    BY ZenonT(60), <1>2, <1>8, <1>20, PcStep
  <2>6. Types'
    BY Zenon, <1>13, <1>20, <2>4, <2>5 DEF Types
  <2>7. ASSUME NEW x \in Range(wait') PROVE pc'[x] = "waiting" /\ ~permit'[x]
    <3>1. x \in All /\ (x = r \/ (x # r /\ x \in Range(wait)))
      BY SMTT(30), <1>2, <2>4
    <3> QED
      BY ZenonT(60), <1>2, <1>14, <1>15, <1>20, <2>5, <3>1
  <2>8. Waiters'
    BY ZenonT(60), <2>4, <2>7 DEF Waiters
  <2>9. Balanced(avail, permit, closing, units)'
    <3>1. Balanced(avail', permit', closing', units')
      BY Zenon, <1>13, <1>20
    <3> QED
      BY Zenon, <3>1 DEF Balanced, Held, Marked, Sum
  <2>10. ~Fits(avail')
    BY Zenon, <1>20, <2>3
  <2>11. Core'
    BY ZenonT(60), <2>2, <2>6, <2>8, <2>9, <2>10 DEF Core, Fits
  <2>12. Registry(inactive, entries, handle, next_id, pc, permit)'
    BY ZenonT(60), <1>8, <1>18, <1>20
  <2>13. InOrder
    BY Zenon, <1>14, <1>20 DEF InOrder
  <2> QED
    BY Zenon, <2>11, <2>12, <2>13 DEF ReadersInv
<1> QED
  BY ZenonT(60), <1>5, <1>6, <1>19, <1>20

-----------------------------------------------------------------------------
(* The theorems. *)

(* Every step keeps the invariant, and whoever it admits is the first in line. *)
LEMMA ReadersNext ==
  ASSUME ReadersInv, Next
  PROVE  ReadersInv' /\ InOrder
<1>1. ASSUME NEW r \in All, ReaderStep(r) PROVE ReadersInv' /\ InOrder
  BY ZenonT(60), <1>1, SimpleSteps, WaitAdmissionStep, ExpireStep, ConsumeStep, FreeStep, CloseStep,
     FinishStep, EndPageStep, PauseStep, NextPageStep, ResumeStep, StopStep
  DEF ReaderStep, PageEnds
<1> QED
  BY Zenon, <1>1, CacheEvicts DEF Next

LEMMA ReadersStutter ==
  ASSUME ReadersInv, UNCHANGED vars
  PROVE  ReadersInv'
<1>1. /\ avail' = avail /\ wait' = wait /\ inactive' = inactive /\ next_id' = next_id
      /\ entries' = entries /\ pc' = pc /\ permit' = permit /\ units' = units
      /\ handle' = handle /\ closing' = closing
  BY DEF vars
<1> QED
  BY <1>1 DEF ReadersInv, Core, Types, Waiters, Balanced, Held, Marked, Sum, Fits, Registry, Parked

(* The inductive invariant holds in every state: the types, the resources that add up, a    *)
(* wait list of readers without permit that cannot be admitted and that leaves no inactive  *)
(* read, and handles that lead to their own paused reader.                                  *)
THEOREM ReadersInvariant == Spec => []ReadersInv
<1>1. Init => ReadersInv
  BY Zenon, ReadersInit
<1>2. ReadersInv /\ [Next]_vars => ReadersInv'
  BY Zenon, ReadersNext, ReadersStutter
<1> QED
  BY <1>1, <1>2, PTL DEF Spec

(* The types of the state, for every set of readers and every limit. *)
THEOREM ReadersTypeOK == Spec => []TypeOK
<1>1. ReadersInv => TypeOK
  BY Zenon DEF ReadersInv, Core, Types, Registry, TypeOK, Resources, PCs, Reads
<1> QED
  BY <1>1, ReadersInvariant, PTL

(* wait_admission() evicts all inactive reads before a reader is queued, and no reader is   *)
(* registered while one waits: nobody waits for what a read nobody works on holds.          *)
THEOREM EvictsBeforeQueueing == Spec => []NoInactiveWhileWaiting
<1>1. ReadersInv => NoInactiveWhileWaiting
  BY Zenon DEF ReadersInv, Core, NoInactiveWhileWaiting
<1> QED
  BY <1>1, ReadersInvariant, PTL

(* No wakeup is lost: whatever signal() is called for, whoever still waits does not fit.     *)
THEOREM NoLostWakeup == Spec => []WaitersCannotProceed
<1>1. ReadersInv => WaitersCannotProceed
  BY Zenon DEF ReadersInv, Core, WaitersCannotProceed
<1> QED
  BY <1>1, ReadersInvariant, PTL

(* Available resources, permits, files that are being closed and buffers add up to what the *)
(* semaphore started with.                                                                  *)
THEOREM NothingLeaks == Spec => []ResourcesAddUp
<1>1. ReadersInv => ResourcesAddUp
  BY Zenon, AddUp DEF ReadersInv, Core
<1> QED
  BY <1>1, ReadersInvariant, PTL

(* The querier cache and the semaphore agree about which readers are registered.            *)
THEOREM CacheAgrees == Spec => []EntriesAreRegistered
<1>1. ReadersInv => EntriesAreRegistered
  BY Zenon DEF ReadersInv, Registry, Parked, EntriesAreRegistered
<1> QED
  BY <1>1, ReadersInvariant, PTL

(* signal() admits in the order of the wait list: whoever gets a permit leaves nobody       *)
(* behind who had waited longer.                                                            *)
THEOREM FirstComeFirstServed == Spec => AdmittedInOrder
<1>1. ReadersInv /\ [Next]_vars =>
        [\A r \in All : permit'[r] /\ ~permit[r] =>
           \A i \in 1..Len(wait) :
             (\A j \in 1..Len(wait) : wait[j] = r => i < j) => wait[i] \notin Range(wait')]_vars
  BY Zenon, ReadersNext DEF InOrder
<1> QED
  BY <1>1, ReadersInvariant, PTL DEF Spec, AdmittedInOrder

=============================================================================
