---------------------------- MODULE TableProofs ----------------------------
(***************************************************************************)
(* What a sum over a finite set is, and what the operators of HashTable do *)
(* to the set of stored files and to the counter, for any number of paths, *)
(* files and buckets and any hash function.                                *)
(***************************************************************************)
EXTENDS HashTable, ListProofs, FiniteSetTheorems

-----------------------------------------------------------------------------
(* Sums over finite sets: SumFunctionOnSet of the module Functions *)

\* What stands for induction on finite sets.
LEMMA SmallestSet ==
    ASSUME NEW U, IsFiniteSet(U), NEW T, T \subseteq SUBSET U, T # {}
    PROVE  \E s \in T : \A t \in T :
              Cardinality(s) \in Nat /\ Cardinality(t) \in Nat
              /\ Cardinality(s) <= Cardinality(t)
<1> DEFINE C == {Cardinality(t) : t \in T}
<1>1. \A t \in T : Cardinality(t) \in Nat
  BY FS_Subset, FS_CardinalityType
<1>2. C \subseteq Nat /\ C # {}
  BY <1>1
<1>3. \E n \in C : \A m \in C : n <= m
  <2> HIDE DEF C
  <2> QED BY <1>2, Smallest
<1> QED BY <1>1, <1>3

\* The function by which a sum of the Folds is defined.
Picked(s) == CHOOSE x \in s : TRUE
Sums(f, U, g) ==
    g = [s \in SUBSET U |-> IF s = {} THEN 0
                            ELSE f[Picked(s)] + g[s \ {Picked(s)}]]

\* What it is on each set.
LEMMA SumsAt ==
    ASSUME NEW f, NEW U, NEW g, Sums(f, U, g)
    PROVE  /\ g[{}] = 0
           /\ \A s \in SUBSET U : s # {} =>
                 /\ Picked(s) \in s
                 /\ g[s] = f[Picked(s)] + g[s \ {Picked(s)}]
<1>1. \A s \in SUBSET U : g[s] = IF s = {} THEN 0 ELSE f[Picked(s)] + g[s \ {Picked(s)}]
  <2> DEFINE h == [s \in SUBSET U |-> IF s = {} THEN 0
                                      ELSE f[Picked(s)] + g[s \ {Picked(s)}]]
  <2>1. g = h
    BY DEF Sums
  <2>2. \A s \in SUBSET U : h[s] = IF s = {} THEN 0 ELSE f[Picked(s)] + g[s \ {Picked(s)}]
    OBVIOUS
  <2> HIDE DEF h
  <2> QED BY <2>1, <2>2
<1>2. \A s : s # {} => Picked(s) \in s
  BY DEF Picked
<1> QED BY <1>1, <1>2

\* There is one, with integers as values: one for the sets of at most n
\* elements, for each n.
LEMMA SumsExist ==
    ASSUME NEW U, IsFiniteSet(U), NEW f, \A x \in U : f[x] \in Int
    PROVE  \E g \in [SUBSET U -> Int] : Sums(f, U, g)
<1> DEFINE Step(g, s) == IF s = {} THEN 0 ELSE f[Picked(s)] + g[s \ {Picked(s)}]
           UpTo(n) == \E g \in [SUBSET U -> Int] :
                         \A s \in SUBSET U : Cardinality(s) <= n => g[s] = Step(g, s)
           T == {n \in Nat : ~UpTo(n)}
<1>1. \A s \in SUBSET U : /\ Cardinality(s) \in Nat
                          /\ Cardinality(s) = 0 <=> s = {}
                          /\ s # {} => /\ Picked(s) \in s
                                       /\ s \ {Picked(s)} \in SUBSET U
                                       /\ Cardinality(s \ {Picked(s)}) = Cardinality(s) - 1
  BY FS_Subset, FS_CardinalityType, FS_EmptySet, FS_RemoveElement DEF Picked
<1>0. \A s \in SUBSET U : s # {} => f[Picked(s)] \in Int
  BY <1>1
<1>2. UpTo(0)
  <2> DEFINE g == [s \in SUBSET U |-> 0]
  <2>1. g \in [SUBSET U -> Int] /\ \A s \in SUBSET U : g[s] = 0
    OBVIOUS
  <2>2. ASSUME NEW s \in SUBSET U, Cardinality(s) <= 0 PROVE s = {}
    <3>1. Cardinality(s) \in Nat /\ (Cardinality(s) = 0 <=> s = {})
      BY <1>1
    <3> QED BY <2>2, <3>1
  <2> HIDE DEF g
  <2>3. \A s \in SUBSET U : Cardinality(s) <= 0 => g[s] = Step(g, s)
    BY <2>1, <2>2
  <2> QED BY <2>1, <2>3
<1>3. ASSUME NEW n \in Nat, UpTo(n) PROVE UpTo(n + 1)
  <2>1. PICK g \in [SUBSET U -> Int] :
           \A s \in SUBSET U : Cardinality(s) <= n => g[s] = Step(g, s)
    BY <1>3
  <2> DEFINE h == [s \in SUBSET U |-> Step(g, s)]
  <2>2. ASSUME NEW s \in SUBSET U PROVE Step(g, s) \in Int
    <3>1. CASE s = {}
      BY <3>1
    <3>2. CASE s # {}
      <4>1. f[Picked(s)] \in Int /\ g[s \ {Picked(s)}] \in Int
        BY <1>0, <1>1, <3>2
      <4> QED BY <3>2, <4>1
    <3> QED BY <3>1, <3>2
  <2>3. h \in [SUBSET U -> Int] /\ \A s \in SUBSET U : h[s] = Step(g, s)
    BY <2>2
  <2>4. \A s \in SUBSET U : Cardinality(s) <= n => h[s] = g[s]
    BY <2>1, <2>3
  <2>5. ASSUME NEW s \in SUBSET U, Cardinality(s) <= n + 1 PROVE h[s] = Step(h, s)
    <3>1. CASE s = {}
      BY <2>3, <3>1
    <3>2. CASE s # {}
      <4>1. s \ {Picked(s)} \in SUBSET U /\ Cardinality(s \ {Picked(s)}) <= n
        BY <1>1, <2>5, <3>2
      <4>2. h[s \ {Picked(s)}] = g[s \ {Picked(s)}]
        <5> HIDE DEF h
        <5> QED BY <2>4, <4>1
      <4> QED BY <2>3, <3>2, <4>2
    <3> QED BY <3>1, <3>2
  <2> HIDE DEF h
  <2> QED BY <2>3, <2>5
<1>4. T = {}
  <2> SUFFICES ASSUME T # {} PROVE FALSE
    OBVIOUS
  <2>1. T \subseteq Nat /\ \A n \in T : ~UpTo(n)
    OBVIOUS
  <2>2. \A n \in Nat : UpTo(n) \/ n \in T
    OBVIOUS
  <2> HIDE DEF UpTo, T
  <2>3. PICK n \in T : \A m \in T : n <= m
    BY <2>1, Smallest
  <2>4. n \in Nat /\ n # 0
    BY <1>2, <2>1
  <2>5. n - 1 \in Nat /\ UpTo(n - 1)
    BY <2>2, <2>3, <2>4
  <2>6. UpTo((n - 1) + 1)
    BY <1>3, <2>5
  <2> QED BY <2>1, <2>4, <2>6
<1>5. Cardinality(U) \in Nat /\ UpTo(Cardinality(U))
  <2> HIDE DEF UpTo
  <2> QED BY <1>4, FS_CardinalityType
<1>6. PICK g \in [SUBSET U -> Int] :
         \A s \in SUBSET U : Cardinality(s) <= Cardinality(U) => g[s] = Step(g, s)
  BY <1>5
<1>7. \A s \in SUBSET U : g[s] = Step(g, s)
  BY <1>6, FS_Subset
<1>8. g = [s \in SUBSET U |-> Step(g, s)]
  BY <1>7
<1> QED BY <1>8 DEF Sums

\* Sums over a set depend on nothing else.
LEMMA SumsUnique ==
    ASSUME NEW U, IsFiniteSet(U), NEW f, NEW g, Sums(f, U, g),
           NEW V, NEW e, NEW k, Sums(e, V, k),
           NEW s \in SUBSET U, s \subseteq V, \A x \in s : e[x] = f[x]
    PROVE  k[s] = g[s]
<1> DEFINE T == {t \in SUBSET s : k[t] # g[t]}
<1> SUFFICES ASSUME T # {} PROVE FALSE
  BY DEF T
<1>1. IsFiniteSet(s)
  BY FS_Subset
<1>2. T \subseteq SUBSET s
  OBVIOUS
<1>3. PICK t \in T : \A q \in T : Cardinality(t) \in Nat /\ Cardinality(q) \in Nat
                                  /\ Cardinality(t) <= Cardinality(q)
  <2> HIDE DEF T
  <2> QED BY <1>1, <1>2, SmallestSet
<1>4. t # {} /\ t \in SUBSET U /\ t \in SUBSET V /\ k[t] # g[t]
  BY SumsAt
<1>5. /\ Picked(t) \in t
      /\ g[t] = f[Picked(t)] + g[t \ {Picked(t)}]
      /\ k[t] = e[Picked(t)] + k[t \ {Picked(t)}]
  <2>1. Picked(t) \in t /\ g[t] = f[Picked(t)] + g[t \ {Picked(t)}]
    BY <1>4, SumsAt
  <2>2. k[t] = e[Picked(t)] + k[t \ {Picked(t)}]
    BY <1>4, SumsAt
  <2> QED BY <2>1, <2>2
<1>6. t \ {Picked(t)} \notin T
  <2>1. Cardinality(t \ {Picked(t)}) = Cardinality(t) - 1
    BY <1>1, <1>5, FS_Subset, FS_RemoveElement
  <2> HIDE DEF T
  <2> QED BY <1>3, <2>1
<1>7. k[t \ {Picked(t)}] = g[t \ {Picked(t)}]
  BY <1>6
<1> QED BY <1>4, <1>5, <1>7

\* The element that a sum is begun with does not matter.
AnyFirst(f, U, g) == \A s \in SUBSET U : \A a \in s : g[s] = f[a] + g[s \ {a}]

LEMMA SumsRemove ==
    ASSUME NEW U, IsFiniteSet(U), NEW f, \A x \in U : f[x] \in Int,
           NEW g \in [SUBSET U -> Int], Sums(f, U, g)
    PROVE  AnyFirst(f, U, g)
<1> DEFINE T == {t \in SUBSET U : \E b \in t : g[t] # f[b] + g[t \ {b}]}
<1> SUFFICES ASSUME T # {} PROVE FALSE
  BY DEF AnyFirst
<1>1. T \subseteq SUBSET U
  OBVIOUS
<1>2. PICK t \in T : \A q \in T : Cardinality(t) \in Nat /\ Cardinality(q) \in Nat
                                  /\ Cardinality(t) <= Cardinality(q)
  <2> HIDE DEF T
  <2> QED BY <1>1, SmallestSet
<1>3. PICK b \in t : g[t] # f[b] + g[t \ {b}]
  OBVIOUS
<1>4. t \in SUBSET U
  OBVIOUS
<1>5. PICK c : c = Picked(t)
  OBVIOUS
<1>6. c \in t /\ c # b /\ g[t] = f[c] + g[t \ {c}]
  <2>1. t # {}
    BY <1>3
  <2>2. Picked(t) \in t /\ g[t] = f[Picked(t)] + g[t \ {Picked(t)}]
    BY <1>4, <2>1, SumsAt
  <2> QED BY <1>3, <1>5, <2>2
<1>7. ASSUME NEW x \in t PROVE t \ {x} \notin T
  <2>1. Cardinality(t \ {x}) = Cardinality(t) - 1
    BY <1>4, FS_Subset, FS_RemoveElement
  <2> HIDE DEF T
  <2> QED BY <1>2, <2>1
<1>8. \A x \in t, y \in t : x # y => g[t \ {x}] = f[y] + g[(t \ {x}) \ {y}]
  BY <1>4, <1>7
<1>9. PICK r : r = (t \ {b}) \ {c}
  OBVIOUS
<1>10. g[t \ {c}] = f[b] + g[r] /\ g[t \ {b}] = f[c] + g[r]
  <2>1. r = (t \ {c}) \ {b}
    BY <1>9
  <2> QED BY <1>6, <1>8, <1>9, <2>1
<1>11. f[b] \in Int /\ f[c] \in Int /\ g[r] \in Int
  BY <1>4, <1>6, <1>9
<1> HIDE DEF T
<1> QED BY <1>3, <1>6, <1>10, <1>11

\* SumFunctionOnSet is such a sum, on any finite set that includes its own.
LEMMA SumIs ==
    ASSUME NEW U, IsFiniteSet(U), NEW f, \A x \in U : f[x] \in Int,
           NEW g \in [SUBSET U -> Int], Sums(f, U, g)
    PROVE  \A S \in SUBSET U : SumFunctionOnSet(f, S) = g[S]
<1> TAKE S \in SUBSET U
<1> DEFINE P(k) == Sums(f, S, k)
           k == CHOOSE i : P(i)
<1>1. IsFiniteSet(S) /\ \A x \in S : f[x] \in Int
  BY FS_Subset
<1>2. \E i : P(i)
  BY <1>1, SumsExist
<1>3. Sums(f, S, k)
  <2>1. P(k)
    <3> HIDE DEF P
    <3> QED BY <1>2
  <2> QED BY <2>1
<1>4. SumFunctionOnSet(f, S) = k[S]
  BY DEF SumFunctionOnSet, FoldFunctionOnSet, MapThenFoldSet, Sums, Picked
<1> HIDE DEF k, P
<1>5. k[S] = g[S]
  BY <1>3, SumsUnique
<1> QED BY <1>4, <1>5

LEMMA SumType ==
    ASSUME NEW S, IsFiniteSet(S), NEW f, \A x \in S : f[x] \in Int
    PROVE  SumFunctionOnSet(f, S) \in Int
<1>1. PICK g \in [SUBSET S -> Int] : Sums(f, S, g)
  BY SumsExist
<1> QED BY <1>1, SumIs

LEMMA SumOfNone ==
    ASSUME NEW f PROVE SumFunctionOnSet(f, {}) = 0
<1>1. PICK g \in [SUBSET {} -> Int] : Sums(f, {}, g)
  BY SumsExist, FS_EmptySet
<1>2. g[{}] = 0
  BY <1>1, SumsAt
<1> QED BY <1>1, <1>2, SumIs, FS_EmptySet

\* One element more or less.
LEMMA SumRemove ==
    ASSUME NEW S, IsFiniteSet(S), NEW f, \A x \in S : f[x] \in Int, NEW a \in S
    PROVE  SumFunctionOnSet(f, S) = f[a] + SumFunctionOnSet(f, S \ {a})
<1>1. PICK g \in [SUBSET S -> Int] : Sums(f, S, g)
  BY SumsExist
<1>2. g[S] = f[a] + g[S \ {a}]
  <2>1. AnyFirst(f, S, g)
    BY <1>1, SumsRemove
  <2> QED BY <2>1 DEF AnyFirst
<1>3. SumFunctionOnSet(f, S) = g[S] /\ SumFunctionOnSet(f, S \ {a}) = g[S \ {a}]
  BY <1>1, SumIs
<1> QED BY <1>2, <1>3

\* Two functions that agree on the set.
LEMMA SumSame ==
    ASSUME NEW S, IsFiniteSet(S), NEW f, NEW e,
           \A x \in S : f[x] \in Int /\ e[x] = f[x]
    PROVE  SumFunctionOnSet(e, S) = SumFunctionOnSet(f, S)
<1>1. PICK g \in [SUBSET S -> Int] : Sums(f, S, g)
  BY SumsExist
<1>2. \A x \in S : e[x] \in Int
  OBVIOUS
<1>3. PICK k \in [SUBSET S -> Int] : Sums(e, S, k)
  BY <1>2, SumsExist
<1>4. g[S] = k[S]
  BY <1>1, <1>3, SumsUnique
<1>5. SumFunctionOnSet(f, S) = g[S]
  BY <1>1, SumIs
<1>6. SumFunctionOnSet(e, S) = k[S]
  BY <1>2, <1>3, SumIs
<1> QED BY <1>4, <1>5, <1>6

\* A sum of zeros.
LEMMA SumOfZeros ==
    ASSUME NEW S, IsFiniteSet(S), NEW f, \A x \in S : f[x] = 0
    PROVE  SumFunctionOnSet(f, S) = 0
<1> DEFINE T == {t \in SUBSET S : SumFunctionOnSet(f, t) # 0}
<1> SUFFICES ASSUME T # {} PROVE FALSE
  BY DEF T
<1>1. T \subseteq SUBSET S
  OBVIOUS
<1>2. PICK t \in T : \A q \in T : Cardinality(t) \in Nat /\ Cardinality(q) \in Nat
                                  /\ Cardinality(t) <= Cardinality(q)
  <2> HIDE DEF T
  <2> QED BY <1>1, SmallestSet
<1>3. t \in SUBSET S /\ IsFiniteSet(t) /\ SumFunctionOnSet(f, t) # 0
  BY FS_Subset
<1>4. PICK c \in t : TRUE
  BY <1>3, SumOfNone
<1>5. t \ {c} \notin T
  <2>1. Cardinality(t \ {c}) = Cardinality(t) - 1
    BY <1>3, FS_RemoveElement
  <2> HIDE DEF T
  <2> QED BY <1>2, <2>1
<1>6. SumFunctionOnSet(f, t \ {c}) = 0
  BY <1>3, <1>5
<1>7. SumFunctionOnSet(f, t) = f[c] + SumFunctionOnSet(f, t \ {c})
  <2>1. \A x \in t : f[x] \in Int
    BY <1>3
  <2> QED BY <1>3, <2>1, SumRemove
<1> QED BY <1>3, <1>6, <1>7

\* A value that changes changes the sum by as much.
LEMMA SumUpdate ==
    ASSUME NEW S, IsFiniteSet(S), NEW f, NEW e, NEW a \in S,
           \A x \in S : f[x] \in Int /\ e[x] \in Int,
           \A x \in S \ {a} : e[x] = f[x]
    PROVE  SumFunctionOnSet(e, S) = SumFunctionOnSet(f, S) + e[a] - f[a]
<1>1. IsFiniteSet(S \ {a})
  BY FS_Subset
<1>2. SumFunctionOnSet(e, S \ {a}) = SumFunctionOnSet(f, S \ {a})
  BY <1>1, SumSame
<1>3. SumFunctionOnSet(f, S \ {a}) \in Int
  BY <1>1, SumType
<1>4. SumFunctionOnSet(f, S) = f[a] + SumFunctionOnSet(f, S \ {a})
  BY SumRemove
<1>5. SumFunctionOnSet(e, S) = e[a] + SumFunctionOnSet(e, S \ {a})
  BY SumRemove
<1> QED BY <1>2, <1>3, <1>4, <1>5

\* Smaller values, on fewer elements, have a smaller sum.
LEMMA SumMonotone ==
    ASSUME NEW U, IsFiniteSet(U), NEW S \in SUBSET U, NEW f, NEW e,
           \A x \in U : f[x] \in Nat /\ e[x] \in Int,
           \A x \in S : e[x] <= f[x]
    PROVE  SumFunctionOnSet(e, S) <= SumFunctionOnSet(f, U)
<1>0. (\A x \in U : f[x] \in Int) /\ (\A x \in U : e[x] \in Int)
  OBVIOUS
<1>1. PICK g \in [SUBSET U -> Int] : Sums(f, U, g)
  BY <1>0, SumsExist
<1>2. PICK k \in [SUBSET U -> Int] : Sums(e, U, k)
  BY <1>0, SumsExist
<1>7. AnyFirst(f, U, g)
  BY <1>0, <1>1, SumsRemove
<1>8. AnyFirst(e, U, k)
  BY <1>0, <1>2, SumsRemove
<1> DEFINE T == {t \in SUBSET U : ~(k[t \cap S] <= g[t])}
<1>3. T = {}
  <2> SUFFICES ASSUME T # {} PROVE FALSE
    OBVIOUS
  <2>1. T \subseteq SUBSET U
    OBVIOUS
  <2>2. PICK t \in T : \A q \in T : Cardinality(t) \in Nat /\ Cardinality(q) \in Nat
                                    /\ Cardinality(t) <= Cardinality(q)
    <3> HIDE DEF T
    <3> QED BY <2>1, SmallestSet
  <2>3. t \in SUBSET U /\ ~(k[t \cap S] <= g[t])
    OBVIOUS
  <2>4. t # {}
    <3>1. g[{}] = 0
      BY <1>1, SumsAt
    <3>2. k[{}] = 0
      BY <1>2, SumsAt
    <3>3. CASE t = {}
      <4>1. t \cap S = {}
        BY <3>3
      <4> HIDE DEF T
      <4> QED BY <2>3, <3>1, <3>2, <3>3, <4>1
    <3> QED BY <3>3
  <2>5. PICK c \in t : TRUE
    BY <2>4
  <2> DEFINE q == t \ {c}
  <2>6. q \in SUBSET U /\ q \notin T
    <3>1. Cardinality(q) = Cardinality(t) - 1
      BY <2>3, FS_Subset, FS_RemoveElement
    <3> HIDE DEF T
    <3> QED BY <2>2, <2>3, <3>1
  <2>7. k[q \cap S] <= g[q] /\ g[q] \in Int /\ k[q \cap S] \in Int
    BY <2>6
  <2>8. g[t] = f[c] + g[q]
    BY <1>7, <2>3 DEF AnyFirst
  <2>9. f[c] \in Nat /\ e[c] \in Int
    BY <2>3
  <2>10. CASE c \in S
    <3>1. k[t \cap S] = e[c] + k[(t \cap S) \ {c}]
      <4>1. t \cap S \in SUBSET U /\ c \in t \cap S
        BY <2>3, <2>10
      <4> QED BY <1>8, <4>1 DEF AnyFirst
    <3>2. (t \cap S) \ {c} = q \cap S
      OBVIOUS
    <3>3. e[c] <= f[c]
      BY <2>10
    <3>4. e[c] + k[q \cap S] <= f[c] + g[q]
      <4> HIDE DEF q
      <4> QED BY <2>7, <2>9, <3>3
    <3> HIDE DEF q
    <3> QED BY <2>3, <2>8, <3>1, <3>2, <3>4
  <2>11. CASE c \notin S
    <3>1. t \cap S = q \cap S
      BY <2>11
    <3>2. k[q \cap S] <= f[c] + g[q]
      <4> HIDE DEF q
      <4> QED BY <2>7, <2>9
    <3> HIDE DEF q, T
    <3> QED BY <2>3, <2>8, <3>1, <3>2
  <2> QED BY <2>10, <2>11
<1>4. k[S] <= g[U]
  <2>1. U \cap S = S
    OBVIOUS
  <2> QED BY <1>3, <2>1
<1>5. SumFunctionOnSet(f, U) = g[U]
  BY <1>0, <1>1, SumIs
<1>6. SumFunctionOnSet(e, S) = k[S]
  <2>1. \A t \in SUBSET U : SumFunctionOnSet(e, t) = k[t]
    BY <1>0, <1>2, SumIs
  <2> QED BY <2>1
<1> QED BY <1>4, <1>5, <1>6

-----------------------------------------------------------------------------
(* The table *)

LEMMA FilesInNodes ==
    ASSUME NEW l PROVE FilesIn(l) = {n.cont : n \in NodesOf(l)}
BY DEF FilesIn, NodesOf

LEMMA SlotOfPath == \A p \in Paths : funchash[p] \in Slots
BY HashAssumption

\* The table of main() is empty.
LEMMA CreateProperties == h_create \in Tables /\ Stored(h_create) = {}
<1>1. EmptyList \in ListOf(Entry) /\ FilesIn(EmptyList) = {}
  BY EmptySeq DEF EmptyList, ListOf, FilesIn
<1>2. h_create \in Tables
  BY <1>1 DEF h_create, Tables
<1>3. \A s \in Slots : h_create.buckets[s] = EmptyList
  BY DEF h_create
<1> QED BY <1>1, <1>2, <1>3 DEF Stored

\* Buckets are lists, and stored files are files.
LEMMA TableProperties ==
    ASSUME NEW h \in Tables
    PROVE  /\ \A s \in Slots : h.buckets[s] \in ListOf(Entry)
           /\ Stored(h) \subseteq Files
<1>1. \A s \in Slots : h.buckets[s] \in ListOf(Entry)
  BY DEF Tables
<1>2. ASSUME NEW s \in Slots PROVE FilesIn(h.buckets[s]) \subseteq Files
  <2>1. h.buckets[s].nodes \in Seq(Entry)
    BY <1>1 DEF ListOf
  <2>2. \A i \in 1 .. Len(h.buckets[s].nodes) : h.buckets[s].nodes[i] \in Entry
    BY <2>1, ElementOfSeq
  <2> QED BY <2>2 DEF FilesIn, Entry
<1> QED BY <1>1, <1>2 DEF Stored

\* getvalue() of a path that contain() has found is a stored file.
LEMMA GetvalueProperties ==
    ASSUME NEW h \in Tables, NEW p \in Paths, contain(h, p)
    PROVE  getvalue(h, p) \in Stored(h) /\ getvalue(h, p) \in Files
<1>1. funchash[p] \in Slots /\ Bucket(h, p) \in ListOf(Entry)
  BY SlotOfPath, TableProperties DEF Bucket
<1>2. search(Bucket(h, p), p) \in 1 .. Len(Bucket(h, p).nodes)
  BY <1>1, SearchProperties DEF contain
<1>3. getvalue(h, p) \in FilesIn(h.buckets[funchash[p]])
  BY <1>2 DEF getvalue, FilesIn, Bucket
<1> QED BY <1>1, <1>3, TableProperties DEF Stored

\* hashins() stores the file, and no other.
LEMMA HashinsProperties ==
    ASSUME NEW h \in Tables, NEW p \in Paths, NEW a \in Files
    PROVE  /\ hashins(h, p, a) \in Tables
           /\ Stored(hashins(h, p, a)) = Stored(h) \cup {a}
<1> DEFINE k == funchash[p]
           n == [key |-> p, cont |-> a]
           b == insertH(h.buckets[k], n)
           g == hashins(h, p, a)
<1>1. k \in Slots /\ n \in Entry /\ h.buckets[k] \in ListOf(Entry)
  BY SlotOfPath, TableProperties DEF Entry
<1>2. b \in ListOf(Entry) /\ NodesOf(b) = NodesOf(h.buckets[k]) \cup {n}
  BY <1>1, InsertHProperties
<1>3. FilesIn(b) = FilesIn(h.buckets[k]) \cup {a}
  <2>1. n.cont = a
    OBVIOUS
  <2> HIDE DEF b, n
  <2>2. /\ FilesIn(b) = {x.cont : x \in NodesOf(b)}
        /\ FilesIn(h.buckets[k]) = {x.cont : x \in NodesOf(h.buckets[k])}
    BY FilesInNodes
  <2> QED BY <1>2, <2>1, <2>2
<1>4. h.buckets \in [Slots -> ListOf(Entry)] /\ h.nelem \in Int
  BY DEF Tables
<1>5. /\ g.buckets = [h.buckets EXCEPT ![k] = b]
      /\ g = [buckets |-> [h.buckets EXCEPT ![k] = b], nelem |-> h.nelem + 1]
  BY DEF hashins
<1> HIDE DEF b, g, k, n
<1>6. g \in Tables
  BY <1>1, <1>2, <1>4, <1>5 DEF Tables
<1>7. /\ g.buckets[k] = b
      /\ \A s \in Slots \ {k} : g.buckets[s] = h.buckets[s]
  BY <1>1, <1>4, <1>5
<1>8. Stored(g) = Stored(h) \cup {a}
  <2>1. Stored(g) = FilesIn(b) \cup UNION {FilesIn(h.buckets[s]) : s \in Slots \ {k}}
    BY <1>1, <1>7 DEF Stored
  <2>2. Stored(h) = FilesIn(h.buckets[k])
                    \cup UNION {FilesIn(h.buckets[s]) : s \in Slots \ {k}}
    BY <1>1 DEF Stored
  <2> QED BY <1>3, <2>1, <2>2
<1> QED BY <1>6, <1>8 DEF g

\* h_delete() stores nothing new.
LEMMA HdeleteProperties ==
    ASSUME NEW h \in Tables, NEW p \in Paths
    PROVE  /\ h_delete(h, p) \in Tables
           /\ Stored(h_delete(h, p)) \subseteq Stored(h)
<1> DEFINE k == funchash[p]
           b == delete(h.buckets[k], p)
           g == h_delete(h, p)
           m == IF contain(h, p) THEN h.nelem - 1 ELSE h.nelem
<1>1. k \in Slots /\ h.buckets[k] \in ListOf(Entry)
  BY SlotOfPath, TableProperties
<1>2. b \in ListOf(Entry) /\ NodesOf(b) \subseteq NodesOf(h.buckets[k])
  BY <1>1, DeleteProperties
<1>3. FilesIn(b) \subseteq FilesIn(h.buckets[k])
  <2> HIDE DEF b
  <2> QED BY <1>2, FilesInNodes
<1>4. h.buckets \in [Slots -> ListOf(Entry)] /\ h.nelem \in Int
  BY DEF Tables
<1>5. m \in Int
  BY <1>4
<1>6. g = [buckets |-> [h.buckets EXCEPT ![k] = b], nelem |-> m]
  BY DEF h_delete
<1> HIDE DEF b, g, k, m
<1>7. g \in Tables
  BY <1>1, <1>2, <1>4, <1>5, <1>6 DEF Tables
<1>8. /\ g.buckets[k] = b
      /\ \A s \in Slots \ {k} : g.buckets[s] = h.buckets[s]
  BY <1>1, <1>4, <1>6
<1>9. \A s \in Slots : FilesIn(g.buckets[s]) \subseteq FilesIn(h.buckets[s])
  BY <1>3, <1>8
<1>10. Stored(g) \subseteq Stored(h)
  BY <1>9 DEF Stored
<1> QED BY <1>7, <1>10 DEF g

-----------------------------------------------------------------------------
(* Tables that have no path twice *)

DistinctPaths(h) == \A s \in Slots : DistinctKeys(h.buckets[s])

LEMMA ContainsNode ==
    ASSUME NEW h, NEW p
    PROVE  contain(h, p) <=> \E n \in NodesOf(Bucket(h, p)) : n.key = p
BY DEF contain, HasKey, NodesOf

\* hashins() adds one node, to the bucket of the path; a path that is not there
\* may be added.
LEMMA HashinsNodes ==
    ASSUME NEW h \in Tables, NEW p \in Paths, NEW a \in Files
    PROVE  /\ \A s \in Slots : \A n \in NodesOf(hashins(h, p, a).buckets[s]) :
                \/ n \in NodesOf(h.buckets[s])
                \/ s = funchash[p] /\ n = [key |-> p, cont |-> a]
           /\ DistinctPaths(h) /\ ~contain(h, p) => DistinctPaths(hashins(h, p, a))
<1> DEFINE k == funchash[p]
           n == [key |-> p, cont |-> a]
           b == insertH(h.buckets[k], n)
           g == hashins(h, p, a)
<1>1. k \in Slots /\ n \in Entry /\ h.buckets[k] \in ListOf(Entry)
  BY SlotOfPath, TableProperties DEF Entry
<1>2. NodesOf(b) = NodesOf(h.buckets[k]) \cup {n}
  BY <1>1, InsertHProperties
<1>3. g.buckets[k] = b /\ \A s \in Slots \ {k} : g.buckets[s] = h.buckets[s]
  BY <1>1 DEF hashins, Tables
<1>4. DistinctPaths(h) /\ ~contain(h, p) => DistinctKeys(b)
  BY <1>1, InsertHKeepsDistinct DEF DistinctPaths, contain, Bucket
<1> HIDE DEF k, n, b, g
<1> QED BY <1>1, <1>2, <1>3, <1>4 DEF DistinctPaths, k, n, g

\* h_delete() adds no node, and takes the only one with the path.
LEMMA HdeleteNodes ==
    ASSUME NEW h \in Tables, NEW p \in Paths
    PROVE  /\ \A s \in Slots : NodesOf(h_delete(h, p).buckets[s]) \subseteq NodesOf(h.buckets[s])
           /\ DistinctPaths(h) => /\ DistinctPaths(h_delete(h, p))
                                  /\ ~contain(h_delete(h, p), p)
<1> DEFINE k == funchash[p]
           b == delete(h.buckets[k], p)
           g == h_delete(h, p)
<1>1. k \in Slots /\ h.buckets[k] \in ListOf(Entry)
  BY SlotOfPath, TableProperties
<1>2. NodesOf(b) \subseteq NodesOf(h.buckets[k])
  BY <1>1, DeleteProperties
<1>3. g.buckets[k] = b /\ \A s \in Slots \ {k} : g.buckets[s] = h.buckets[s]
  BY <1>1 DEF h_delete, Tables
<1>4. DistinctPaths(h) => DistinctKeys(b) /\ ~HasKey(b, p)
  BY <1>1, DeleteDistinct DEF DistinctPaths
<1>5. contain(g, p) <=> HasKey(g.buckets[k], p)
  BY DEF contain, Bucket
<1> HIDE DEF k, b, g
<1> QED BY <1>1, <1>2, <1>3, <1>4, <1>5 DEF DistinctPaths, g

\* A path that is stored has a node, whose content is what getvalue() returns.
LEMMA ValueNode ==
    ASSUME NEW h \in Tables, NEW p \in Paths, contain(h, p)
    PROVE  \E n \in NodesOf(Bucket(h, p)) : n.key = p /\ n.cont = getvalue(h, p)
<1> DEFINE l == Bucket(h, p)
<1>1. l \in ListOf(Entry)
  BY SlotOfPath, TableProperties DEF Bucket
<1>2. search(l, p) \in 1 .. Len(l.nodes) /\ l.nodes[search(l, p)].key = p
  BY <1>1, SearchProperties DEF contain
<1>3. getvalue(h, p) = l.nodes[search(l, p)].cont
  BY DEF getvalue
<1> HIDE DEF l
<1> QED BY <1>2, <1>3 DEF NodesOf, l

\* There is no other one.
LEMMA OneNode ==
    ASSUME NEW h \in Tables, DistinctPaths(h), NEW p \in Paths,
           NEW n \in NodesOf(Bucket(h, p)), n.key = p
    PROVE  contain(h, p) /\ getvalue(h, p) = n.cont
<1>1. contain(h, p)
  BY ContainsNode
<1>2. PICK m \in NodesOf(Bucket(h, p)) : m.key = p /\ m.cont = getvalue(h, p)
  BY <1>1, ValueNode
<1>3. DistinctKeys(Bucket(h, p))
  BY SlotOfPath DEF DistinctPaths, Bucket
<1>4. m = n
  BY <1>2, <1>3 DEF NodesOf, DistinctKeys
<1> QED BY <1>1, <1>2, <1>4

\* Where two tables have the same nodes with a path they say the same of it.
LEMMA SameNodes ==
    ASSUME NEW h \in Tables, NEW g \in Tables, DistinctPaths(h), DistinctPaths(g),
           NEW q \in Paths,
           \A n : n.key = q => (n \in NodesOf(Bucket(g, q)) <=> n \in NodesOf(Bucket(h, q)))
    PROVE  /\ contain(g, q) <=> contain(h, q)
           /\ contain(h, q) => getvalue(g, q) = getvalue(h, q)
<1>1. contain(g, q) <=> contain(h, q)
  BY ContainsNode
<1>2. ASSUME contain(h, q) PROVE getvalue(g, q) = getvalue(h, q)
  <2>1. PICK n \in NodesOf(Bucket(h, q)) : n.key = q /\ n.cont = getvalue(h, q)
    BY <1>2, ValueNode
  <2>2. n \in NodesOf(Bucket(g, q))
    BY <2>1
  <2> QED BY <2>1, <2>2, OneNode
<1> QED BY <1>1, <1>2

\* hashins() of a new path: it has the file, the others have what they had.
LEMMA HashinsValue ==
    ASSUME NEW h \in Tables, NEW p \in Paths, NEW a \in Files,
           DistinctPaths(h), ~contain(h, p)
    PROVE  LET g == hashins(h, p, a)
           IN  /\ contain(g, p) /\ getvalue(g, p) = a
               /\ \A q \in Paths \ {p} :
                     /\ contain(g, q) <=> contain(h, q)
                     /\ contain(h, q) => getvalue(g, q) = getvalue(h, q)
<1> DEFINE k == funchash[p]
           n == [key |-> p, cont |-> a]
           b == insertH(h.buckets[k], n)
           g == hashins(h, p, a)
<1>1. k \in Slots /\ n \in Entry /\ h.buckets[k] \in ListOf(Entry)
  BY SlotOfPath, TableProperties DEF Entry
<1>2. NodesOf(b) = NodesOf(h.buckets[k]) \cup {n}
  BY <1>1, InsertHProperties
<1>3. g.buckets[k] = b /\ \A s \in Slots \ {k} : g.buckets[s] = h.buckets[s]
  BY <1>1 DEF hashins, Tables
<1>4. g \in Tables /\ DistinctPaths(g)
  BY HashinsProperties, HashinsNodes
<1>5. n.key = p /\ n.cont = a
  OBVIOUS
<1> HIDE DEF k, n, b, g
<1>6. contain(g, p) /\ getvalue(g, p) = a
  <2>1. n \in NodesOf(Bucket(g, p))
    BY <1>2, <1>3 DEF Bucket, k
  <2> QED BY <1>4, <1>5, <2>1, OneNode
<1>7. ASSUME NEW q \in Paths \ {p}
      PROVE  /\ contain(g, q) <=> contain(h, q)
             /\ contain(h, q) => getvalue(g, q) = getvalue(h, q)
  <2>1. ASSUME NEW m, m.key = q
        PROVE  m \in NodesOf(Bucket(g, q)) <=> m \in NodesOf(Bucket(h, q))
    <3>1. m # n /\ funchash[q] \in Slots
      BY <1>5, <2>1, SlotOfPath
    <3> QED BY <1>2, <1>3, <3>1 DEF Bucket
  <2> QED BY <1>4, <2>1, SameNodes
<1> QED BY <1>6, <1>7 DEF g

\* h_delete(): the path has gone, the others have what they had.
LEMMA HdeleteValue ==
    ASSUME NEW h \in Tables, NEW p \in Paths, DistinctPaths(h)
    PROVE  LET g == h_delete(h, p)
           IN  /\ ~contain(g, p)
               /\ \A q \in Paths \ {p} :
                     /\ contain(g, q) <=> contain(h, q)
                     /\ contain(h, q) => getvalue(g, q) = getvalue(h, q)
<1> DEFINE k == funchash[p]
           b == delete(h.buckets[k], p)
           g == h_delete(h, p)
<1>1. k \in Slots /\ h.buckets[k] \in ListOf(Entry)
  BY SlotOfPath, TableProperties
<1>2. g.buckets[k] = b /\ \A s \in Slots \ {k} : g.buckets[s] = h.buckets[s]
  BY <1>1 DEF h_delete, Tables
<1>3. g \in Tables /\ DistinctPaths(g) /\ ~contain(g, p)
  BY HdeleteProperties, HdeleteNodes
<1>4. ASSUME NEW m, m.key # p
      PROVE  m \in NodesOf(b) <=> m \in NodesOf(h.buckets[k])
  BY <1>1, <1>4, DeleteProperties, DeleteKeepsOthers
<1> HIDE DEF k, b, g
<1>5. ASSUME NEW q \in Paths \ {p}
      PROVE  /\ contain(g, q) <=> contain(h, q)
             /\ contain(h, q) => getvalue(g, q) = getvalue(h, q)
  <2>1. ASSUME NEW m, m.key = q
        PROVE  m \in NodesOf(Bucket(g, q)) <=> m \in NodesOf(Bucket(h, q))
    <3>1. m.key # p /\ funchash[q] \in Slots
      BY <2>1, SlotOfPath
    <3> QED BY <1>2, <1>4, <3>1 DEF Bucket
  <2> QED BY <1>3, <2>1, SameNodes
<1> QED BY <1>3, <1>5 DEF g

\* The paths that are stored.
Keys(h) == {p \in Paths : contain(h, p)}

\* The counter is their number: it is h_create() that makes it so,
CountsKeys(h) == IsFiniteSet(Keys(h)) /\ h.nelem = Cardinality(Keys(h))

LEMMA CreateCountsKeys == CountsKeys(h_create)
<1>1. \A p \in Paths : h_create.buckets[funchash[p]] = EmptyList
  BY SlotOfPath DEF h_create
<1>2. Keys(h_create) = {}
  BY <1>1 DEF Keys, contain, Bucket, HasKey, EmptyList
<1> QED BY <1>2, FS_EmptySet DEF CountsKeys, h_create

\* and the others keep it so, if no path is inserted twice.
LEMMA HashinsCountsKeys ==
    ASSUME NEW h \in Tables, NEW p \in Paths, NEW a \in Files,
           DistinctPaths(h), ~contain(h, p), CountsKeys(h)
    PROVE  CountsKeys(hashins(h, p, a))
<1> DEFINE g == hashins(h, p, a)
<1>1. Keys(g) = Keys(h) \cup {p} /\ p \notin Keys(h)
  BY HashinsValue DEF Keys
<1>2. g.nelem = h.nelem + 1
  BY DEF hashins
<1> HIDE DEF g
<1> QED BY <1>1, <1>2, FS_AddElement DEF CountsKeys, g

LEMMA HdeleteCountsKeys ==
    ASSUME NEW h \in Tables, NEW p \in Paths, DistinctPaths(h), CountsKeys(h)
    PROVE  CountsKeys(h_delete(h, p))
<1> DEFINE g == h_delete(h, p)
<1>1. Keys(g) = Keys(h) \ {p}
  BY HdeleteValue DEF Keys
<1>2. g.nelem = IF p \in Keys(h) THEN h.nelem - 1 ELSE h.nelem
  BY DEF h_delete, Keys
<1> HIDE DEF g
<1>3. CASE p \in Keys(h)
  BY <1>1, <1>2, <1>3, FS_RemoveElement DEF CountsKeys, g
<1>4. CASE p \notin Keys(h)
  <2>1. Keys(g) = Keys(h)
    BY <1>1, <1>4
  <2> QED BY <1>2, <1>4, <2>1 DEF CountsKeys, g
<1> QED BY <1>3, <1>4

-----------------------------------------------------------------------------
(* The counter of the table *)

Counted(h) == h.nelem = SumFunction(Lengths(h))

LEMMA LengthsType ==
    ASSUME NEW h \in Tables
    PROVE  \A s \in Slots : Lengths(h)[s] \in Int
BY TableProperties, LenProperties DEF Lengths, ListOf

LEMMA SlotsFinite == IsFiniteSet(Slots)
BY HashAssumption, FS_Interval DEF Slots

\* What one bucket gains or loses the sum does.
LEMMA OneBucketChanges ==
    ASSUME NEW h \in Tables, NEW g \in Tables, NEW k \in Slots,
           \A s \in Slots \ {k} : g.buckets[s] = h.buckets[s]
    PROVE  /\ SumFunction(Lengths(h)) \in Int
           /\ SumFunction(Lengths(g)) = SumFunction(Lengths(h))
                + Len(g.buckets[k].nodes) - Len(h.buckets[k].nodes)
<1> DEFINE f == Lengths(h)
           e == Lengths(g)
<1>1. \A s \in Slots : f[s] \in Int /\ e[s] \in Int
  BY LengthsType
<1>2. \A s \in Slots \ {k} : e[s] = f[s]
  BY DEF Lengths
<1>3. e[k] = Len(g.buckets[k].nodes) /\ f[k] = Len(h.buckets[k].nodes)
  BY DEF Lengths
<1>4. SumFunction(f) = SumFunctionOnSet(f, Slots) /\ SumFunction(e) = SumFunctionOnSet(e, Slots)
  BY DEF SumFunction, Lengths
<1> HIDE DEF f, e
<1>5. SumFunctionOnSet(f, Slots) \in Int
  BY <1>1, SlotsFinite, SumType
<1>6. SumFunctionOnSet(e, Slots) = SumFunctionOnSet(f, Slots) + e[k] - f[k]
  BY <1>1, <1>2, SlotsFinite, SumUpdate
<1> QED BY <1>3, <1>4, <1>5, <1>6 DEF f, e

\* hashins() and h_delete() change the counter by as much as their bucket.
LEMMA HashinsCounts ==
    ASSUME NEW h \in Tables, NEW p \in Paths, NEW a \in Files, Counted(h)
    PROVE  Counted(hashins(h, p, a))
<1> DEFINE k == funchash[p]
           b == insertH(h.buckets[k], [key |-> p, cont |-> a])
           g == hashins(h, p, a)
<1>1. k \in Slots /\ [key |-> p, cont |-> a] \in Entry /\ h.buckets[k] \in ListOf(Entry)
  BY SlotOfPath, TableProperties DEF Entry
<1>2. Len(b.nodes) = 1 + Len(h.buckets[k].nodes) /\ Len(h.buckets[k].nodes) \in Nat
  BY <1>1, InsertHNodes
<1>3. /\ g.buckets[k] = b /\ \A s \in Slots \ {k} : g.buckets[s] = h.buckets[s]
      /\ g.nelem = h.nelem + 1
  BY <1>1 DEF hashins, Tables
<1>4. g \in Tables
  BY HashinsProperties
<1> HIDE DEF k, b, g
<1>5. SumFunction(Lengths(g)) = SumFunction(Lengths(h)) + Len(b.nodes) - Len(h.buckets[k].nodes)
  BY <1>1, <1>3, <1>4, OneBucketChanges
<1>6. SumFunction(Lengths(h)) \in Int
  BY <1>1, OneBucketChanges
<1> QED BY <1>2, <1>3, <1>5, <1>6 DEF Counted, g

LEMMA HdeleteCounts ==
    ASSUME NEW h \in Tables, NEW p \in Paths, Counted(h)
    PROVE  Counted(h_delete(h, p))
<1> DEFINE k == funchash[p]
           b == delete(h.buckets[k], p)
           g == h_delete(h, p)
<1>1. k \in Slots /\ h.buckets[k] \in ListOf(Entry) /\ Len(h.buckets[k].nodes) \in Nat
  BY SlotOfPath, TableProperties, LenProperties DEF ListOf
<1>2. /\ g.buckets[k] = b /\ \A s \in Slots \ {k} : g.buckets[s] = h.buckets[s]
      /\ g.nelem = IF HasKey(h.buckets[k], p) THEN h.nelem - 1 ELSE h.nelem
  BY <1>1 DEF h_delete, Tables, contain, Bucket
<1>3. Len(b.nodes) = IF HasKey(h.buckets[k], p) THEN Len(h.buckets[k].nodes) - 1
                     ELSE Len(h.buckets[k].nodes)
  <2>1. CASE HasKey(h.buckets[k], p)
    BY <1>1, <2>1, DeleteNodes
  <2>2. CASE ~HasKey(h.buckets[k], p)
    BY <2>2 DEF delete
  <2> QED BY <2>1, <2>2
<1>4. g \in Tables
  BY HdeleteProperties
<1> HIDE DEF k, b, g
<1>5. SumFunction(Lengths(g)) = SumFunction(Lengths(h)) + Len(b.nodes) - Len(h.buckets[k].nodes)
  BY <1>1, <1>2, <1>4, OneBucketChanges
<1>6. SumFunction(Lengths(h)) \in Int
  BY <1>1, OneBucketChanges
<1>7. h.nelem = SumFunction(Lengths(h))
  BY DEF Counted
<1>8. g.nelem = SumFunction(Lengths(g))
  <2>1. CASE HasKey(h.buckets[k], p)
    BY <1>1, <1>2, <1>3, <1>5, <1>6, <1>7, <2>1
  <2>2. CASE ~HasKey(h.buckets[k], p)
    BY <1>1, <1>2, <1>3, <1>5, <1>6, <1>7, <2>2
  <2> QED BY <2>1, <2>2
<1> QED BY <1>8 DEF Counted, g

LEMMA CreateCounts == Counted(h_create)
<1> DEFINE f == Lengths(h_create)
<1>1. \A s \in Slots : f[s] = 0
  BY DEF Lengths, h_create, EmptyList
<1>2. h_create.nelem = 0
  BY DEF h_create
<1>3. SumFunction(f) = SumFunctionOnSet(f, Slots)
  BY DEF SumFunction, Lengths
<1> HIDE DEF f
<1>4. SumFunctionOnSet(f, Slots) = 0
  BY <1>1, SlotsFinite, SumOfZeros
<1> QED BY <1>2, <1>3, <1>4 DEF Counted, f
=============================================================================
