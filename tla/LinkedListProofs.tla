-------------------------- MODULE LinkedListProofs --------------------------
(***************************************************************************)
(* Theorems about LinkedList, for any number of nodes, keys and values:    *)
(* the pointers form a doubly linked list, and each call does to it what   *)
(* the operator of ListOps with its name says.                             *)
(***************************************************************************)
EXTENDS LinkedList, ListProofs, FiniteSetTheorems

\* The list is the cells of s, in this order.
Linked(s) ==
    /\ s \in Seq(Cells)
    /\ \A i, j \in 1 .. Len(s) : s[i] = s[j] => i = j
    /\ length = Len(s)
    /\ header = IF Len(s) = 0 THEN NULL ELSE s[1]
    /\ \A i \in 1 .. Len(s) :
          /\ heap[s[i]].live
          /\ heap[s[i]].prev = IF i = 1 THEN NULL ELSE s[i - 1]
          /\ heap[s[i]].next = IF i = Len(s) THEN NULL ELSE s[i + 1]
    /\ tailer \in Cells /\ heap[tailer].live => Len(s) > 0 /\ tailer = s[Len(s)]
    /\ tailer = NULL => Len(s) = 0

LInv == TypeOK /\ Linked(Chain)

\* What the definition of Chain says of the function hop in it.
Hops(hop) == hop = [i \in 0 .. Cardinality(Cells) |->
                       IF i = 0 THEN header
                       ELSE IF hop[i - 1] = NULL THEN NULL
                       ELSE heap[hop[i - 1]].next]

LEMMA CountTo == \A n \in Nat : Cardinality(1 .. n) = n
<1> TAKE n \in Nat
<1>1. Cardinality(1 .. n) = IF 1 > n THEN 0 ELSE n - 1 + 1
  BY FS_Interval
<1> QED BY <1>1

\* No more nodes than cells.
LEMMA NodesFit ==
    ASSUME NEW s, Linked(s)
    PROVE  /\ Len(s) \in Nat /\ Cardinality(Cells) \in Nat
           /\ Len(s) <= Cardinality(Cells)
           /\ \A i \in 1 .. Len(s) : s[i] \in Cells
<1>1. /\ s \in Seq(Cells) /\ Len(s) \in Nat
      /\ \A i, j \in 1 .. Len(s) : s[i] = s[j] => i = j
      /\ \A i \in 1 .. Len(s) : s[i] \in Cells
  BY LenProperties, ElementOfSeq DEF Linked
<1>2. s \in [1 .. Len(s) -> Cells]
  BY <1>1
<1>3. s \in Injection(1 .. Len(s), Cells)
  BY <1>1, <1>2 DEF Injection, IsInjective
<1>4. Cardinality(1 .. Len(s)) <= Cardinality(Cells) /\ Cardinality(Cells) \in Nat
  BY <1>3, ListAssumption, FS_Injection, FS_CardinalityType
<1>5. Cardinality(1 .. Len(s)) = Len(s)
  BY <1>1, CountTo
<1> QED BY <1>1, <1>4, <1>5

\* The walk along next meets the cells of the list, then NULL.
LEMMA HopsAre ==
    ASSUME NEW s, Linked(s), NEW hop, Hops(hop)
    PROVE  \A i \in 0 .. Cardinality(Cells) :
              hop[i] = IF i < Len(s) THEN s[i + 1] ELSE NULL
<1> DEFINE size == Cardinality(Cells)
           T == {i \in 0 .. size : hop[i] # IF i < Len(s) THEN s[i + 1] ELSE NULL}
<1>1. /\ Len(s) \in Nat /\ size \in Nat /\ Len(s) <= size
      /\ \A i \in 1 .. Len(s) : s[i] \in Cells
  BY NodesFit
<1>2. \A i \in 0 .. size : hop[i] = IF i = 0 THEN header
                                    ELSE IF hop[i - 1] = NULL THEN NULL
                                    ELSE heap[hop[i - 1]].next
  <2> DEFINE g == [i \in 0 .. size |-> IF i = 0 THEN header
                                       ELSE IF hop[i - 1] = NULL THEN NULL
                                       ELSE heap[hop[i - 1]].next]
  <2>1. hop = g
    BY DEF Hops
  <2>2. \A i \in 0 .. size : g[i] = IF i = 0 THEN header
                                    ELSE IF hop[i - 1] = NULL THEN NULL
                                    ELSE heap[hop[i - 1]].next
    OBVIOUS
  <2> HIDE DEF g
  <2> QED BY <2>1, <2>2
<1> SUFFICES ASSUME T # {} PROVE FALSE
  OBVIOUS
<1>3. T \subseteq Nat
  OBVIOUS
<1>4. PICK n \in T : \A m \in T : n <= m
  <2> HIDE DEF T
  <2> QED BY <1>3, Smallest
<1>5. n \in 0 .. size /\ hop[n] # IF n < Len(s) THEN s[n + 1] ELSE NULL
  BY <1>4
<1>6. CASE n = 0
  BY <1>1, <1>2, <1>5, <1>6 DEF Linked
<1>7. CASE n # 0
  <2>1. n - 1 \in 0 .. size /\ n - 1 \notin T
    BY <1>1, <1>3, <1>4, <1>5, <1>7
  <2>2. hop[n - 1] = IF n - 1 < Len(s) THEN s[n] ELSE NULL
    BY <2>1
  <2>3. hop[n] = IF hop[n - 1] = NULL THEN NULL ELSE heap[hop[n - 1]].next
    BY <1>2, <1>5, <1>7
  <2>4. CASE n - 1 < Len(s)
    <3>1. n \in 1 .. Len(s)
      BY <1>1, <1>5, <1>7, <2>4
    <3>2. s[n] # NULL /\ heap[s[n]].next = IF n = Len(s) THEN NULL ELSE s[n + 1]
      BY <1>1, <3>1, ListAssumption DEF Linked
    <3> QED BY <1>1, <1>5, <2>2, <2>3, <2>4, <3>1, <3>2
  <2>5. CASE ~(n - 1 < Len(s))
    BY <1>1, <1>5, <2>2, <2>3, <2>5
  <2> QED BY <2>4, <2>5
<1> QED BY <1>6, <1>7

\* Chain is the only such list.
LEMMA ChainIs == \A s : Linked(s) => Chain = s
<1> SUFFICES ASSUME NEW s, Linked(s) PROVE Chain = s
  OBVIOUS
<1> DEFINE size == Cardinality(Cells)
           hop == CHOOSE f : Hops(f)
           met == {i \in 1 .. size : hop[i - 1] # NULL}
<1>1. /\ Len(s) \in Nat /\ size \in Nat /\ Len(s) <= size
      /\ \A i \in 1 .. Len(s) : s[i] \in Cells
  BY NodesFit
<1>2. \E f : Hops(f)
  <2> DEFINE f == [i \in 0 .. size |-> IF i < Len(s) THEN s[i + 1] ELSE NULL]
  <2>1. \A i \in 0 .. size : f[i] = IF i < Len(s) THEN s[i + 1] ELSE NULL
    OBVIOUS
  <2>2. ASSUME NEW i \in 0 .. size
        PROVE  f[i] = IF i = 0 THEN header
                      ELSE IF f[i - 1] = NULL THEN NULL ELSE heap[f[i - 1]].next
    <3> HIDE DEF f
    <3>1. CASE i = 0
      BY <1>1, <2>1, <3>1 DEF Linked
    <3>2. CASE i # 0 /\ i \in 1 .. Len(s)
      <4>1. s[i] # NULL /\ heap[s[i]].next = IF i = Len(s) THEN NULL ELSE s[i + 1]
        BY <1>1, <3>2, ListAssumption DEF Linked
      <4>2. i - 1 \in 0 .. size /\ i - 1 < Len(s) /\ (i - 1) + 1 = i
        BY <1>1, <3>2
      <4>3. f[i - 1] = s[i]
        BY <2>1, <4>2
      <4> QED BY <1>1, <2>1, <3>2, <4>1, <4>3
    <3>3. CASE i \notin 1 .. Len(s) /\ i # 0
      <4>1. i - 1 \in 0 .. size /\ ~(i - 1 < Len(s)) /\ ~(i < Len(s))
        BY <1>1, <3>3
      <4> QED BY <2>1, <3>3, <4>1
    <3> QED BY <3>1, <3>2, <3>3
  <2> DEFINE g == [i \in 0 .. size |-> IF i = 0 THEN header
                                       ELSE IF f[i - 1] = NULL THEN NULL
                                       ELSE heap[f[i - 1]].next]
  <2>3. f = g
    <3>1. \A i \in 0 .. size : f[i] = g[i]
      <4> HIDE DEF f
      <4> QED BY <2>2
    <3> QED BY <3>1
  <2> HIDE DEF f
  <2> QED BY <2>3 DEF Hops
<1>3. Hops(hop)
  BY <1>2
<1>4. Chain = [i \in 1 .. Cardinality(met) |-> hop[i - 1]]
  BY DEF Chain, Hops
<1> HIDE DEF hop
<1>5. \A i \in 0 .. size : hop[i] = IF i < Len(s) THEN s[i + 1] ELSE NULL
  BY <1>3, HopsAre
<1>6. \A i \in 1 .. size : hop[i - 1] = IF i <= Len(s) THEN s[i] ELSE NULL
  BY <1>1, <1>5
<1>7. met = 1 .. Len(s)
  BY <1>1, <1>6, ListAssumption
<1> HIDE DEF met
<1>8. Cardinality(met) = Len(s)
  BY <1>1, <1>7, CountTo
<1>9. Chain = [i \in 1 .. Len(s) |-> hop[i - 1]]
  BY <1>4, <1>8
<1>10. \A i \in 1 .. Len(s) : hop[i - 1] = s[i]
  BY <1>1, <1>6
<1>11. Chain = [i \in 1 .. Len(s) |-> s[i]]
  BY <1>9, <1>10
<1> QED BY <1>11 DEF Linked

LEMMA ChainNext == \A s : Linked(s)' => Chain' = s
<1>1. (\A s : Linked(s) => Chain = s)'
  BY ChainIs, PTL
<1> QED BY <1>1
-----------------------------------------------------------------------------
(* What the calls do to the nodes *)

NodeCell == [live : {TRUE}, key : Keys, cont : Values,
             next : Pointer, prev : Pointer]

\* tailer points to a node that delete() has freed.
Stale == tailer # NULL /\ ~heap[tailer].live

LEMMA CellType ==
    ASSUME TypeOK, NEW q \in Cells
    PROVE  \/ heap[q] = FreeCell /\ ~heap[q].live
           \/ heap[q] \in NodeCell /\ heap[q].live
<1>1. heap[q] \in {FreeCell} \cup NodeCell
  BY DEF TypeOK, NodeCell
<1>2. CASE heap[q] = FreeCell
  <2>1. ~FreeCell.live
    BY DEF FreeCell
  <2> QED BY <1>2, <2>1
<1>3. ASSUME heap[q] \in NodeCell PROVE heap[q].live
  <2>1. \A c \in NodeCell : c.live = TRUE
    BY DEF NodeCell
  <2> QED BY <1>3, <2>1
<1> QED BY <1>1, <1>2, <1>3

\* A node with another prev, and one with another next.
WithPrev(q, x) == [heap[q] EXCEPT !.prev = x]
WithNext(q, x) == [heap[q] EXCEPT !.next = x]

LEMMA NodeUpdate ==
    ASSUME TypeOK, NEW q \in Cells, heap[q].live, NEW x \in Pointer
    PROVE  /\ WithPrev(q, x) \in NodeCell /\ WithPrev(q, x).live
           /\ WithPrev(q, x).key = heap[q].key /\ WithPrev(q, x).cont = heap[q].cont
           /\ WithPrev(q, x).next = heap[q].next /\ WithPrev(q, x).prev = x
           /\ WithNext(q, x) \in NodeCell /\ WithNext(q, x).live
           /\ WithNext(q, x).key = heap[q].key /\ WithNext(q, x).cont = heap[q].cont
           /\ WithNext(q, x).next = x /\ WithNext(q, x).prev = heap[q].prev
<1>1. heap[q] \in NodeCell
  BY CellType
<1> QED BY <1>1 DEF NodeCell, WithPrev, WithNext

LEMMA NewCellIs ==
    ASSUME NEW n \in [key : Keys, cont : Values], NEW x \in Pointer, NEW y \in Pointer
    PROVE  /\ NewCell(n, x, y) \in NodeCell /\ NewCell(n, x, y).live
           /\ NewCell(n, x, y).next = x /\ NewCell(n, x, y).prev = y
           /\ NewCell(n, x, y).key = n.key /\ NewCell(n, x, y).cont = n.cont
BY DEF NewCell, NodeCell

LEMMA LinkedFacts ==
    ASSUME TypeOK, NEW s, Linked(s)
    PROVE  /\ Len(s) \in Nat /\ length = Len(s) /\ NULL \notin Cells
           /\ \A i \in 1 .. Len(s) : s[i] \in Cells /\ heap[s[i]].live
           /\ \A i, j \in 1 .. Len(s) : s[i] = s[j] => i = j
           /\ header = IF Len(s) = 0 THEN NULL ELSE s[1]
           /\ \A i \in 1 .. Len(s) :
                 /\ heap[s[i]].prev = IF i = 1 THEN NULL ELSE s[i - 1]
                 /\ heap[s[i]].next = IF i = Len(s) THEN NULL ELSE s[i + 1]
           /\ tailer \in Cells /\ heap[tailer].live => Len(s) > 0 /\ tailer = s[Len(s)]
           /\ tailer = NULL => Len(s) = 0
           /\ Len(s) > 0 => header \in Cells /\ tailer \in Cells
<1>1. Len(s) \in Nat /\ \A i \in 1 .. Len(s) : s[i] \in Cells
  BY NodesFit
<1> QED BY <1>1, ListAssumption DEF Linked, TypeOK, Pointer

\* What Linked asks of the next state, for cells that are given in order.
LEMMA LinkedNext ==
    ASSUME NEW t, NEW n \in Nat, t \in Seq(Cells), Len(t) = n, length' = n,
           \A i, j \in 1 .. n : t[i] = t[j] => i = j,
           header' = IF n = 0 THEN NULL ELSE t[1],
           \A i \in 1 .. n : /\ heap'[t[i]].live
                             /\ heap'[t[i]].prev = IF i = 1 THEN NULL ELSE t[i - 1]
                             /\ heap'[t[i]].next = IF i = n THEN NULL ELSE t[i + 1],
           tailer' \in Cells /\ heap'[tailer'].live => n > 0 /\ tailer' = t[n],
           tailer' = NULL => n = 0
    PROVE  Linked(t)'
BY DEF Linked

\* insertH() puts a new node before the others.
LEMMA InsertHLinks ==
    ASSUME TypeOK, NEW s, Linked(s), NEW n \in [key : Keys, cont : Values], InsertH(n)
    PROVE  \E t : /\ Linked(t)' /\ Len(t) = Len(s) + 1 /\ TypeOK'
                  /\ Content(t[1])' = n
                  /\ \A i \in 1 .. Len(s) : t[i + 1] = s[i] /\ Content(s[i])' = Content(s[i])
                  /\ Stale' <=> Stale /\ Len(s) > 0
<1>1. PICK p \in Fresh :
         /\ heap' = [q \in Cells |->
                       IF q = p THEN NewCell(n, header, NULL)
                       ELSE IF q = header /\ length # 0
                       THEN [heap[q] EXCEPT !.prev = p]
                       ELSE heap[q]]
         /\ header' = p
         /\ tailer' = IF length = 0 THEN p ELSE tailer
  BY DEF InsertH
<1>2. length' = length + 1 /\ UNCHANGED fault
  BY DEF InsertH
<1>3. /\ Len(s) \in Nat /\ length = Len(s) /\ NULL \notin Cells
      /\ \A i \in 1 .. Len(s) : s[i] \in Cells /\ heap[s[i]].live
      /\ \A i, j \in 1 .. Len(s) : s[i] = s[j] => i = j
      /\ header = IF Len(s) = 0 THEN NULL ELSE s[1]
      /\ \A i \in 1 .. Len(s) :
            /\ heap[s[i]].prev = IF i = 1 THEN NULL ELSE s[i - 1]
            /\ heap[s[i]].next = IF i = Len(s) THEN NULL ELSE s[i + 1]
      /\ tailer \in Cells /\ heap[tailer].live => Len(s) > 0 /\ tailer = s[Len(s)]
      /\ tailer = NULL => Len(s) = 0
  BY LinkedFacts
<1>4. /\ p \in Cells /\ ~heap[p].live /\ p # header /\ p # tailer
      /\ \A i \in 1 .. Len(s) : s[i] # p
  BY <1>3 DEF Fresh
<1>5. p \in Pointer /\ NULL \in Pointer /\ header \in Pointer
  BY <1>4 DEF Pointer, TypeOK
<1>6. /\ heap'[p] \in NodeCell /\ heap'[p].live /\ heap'[p].next = header
      /\ heap'[p].prev = NULL /\ heap'[p].key = n.key /\ heap'[p].cont = n.cont
  <2>1. heap'[p] = NewCell(n, header, NULL)
    BY <1>1, <1>4
  <2> QED BY <1>5, <2>1, NewCellIs
<1>7. Len(s) > 0 =>
      /\ heap'[s[1]] \in NodeCell /\ heap'[s[1]].live /\ heap'[s[1]].prev = p
      /\ heap'[s[1]].next = heap[s[1]].next
      /\ heap'[s[1]].key = heap[s[1]].key /\ heap'[s[1]].cont = heap[s[1]].cont
  <2> SUFFICES ASSUME Len(s) > 0
               PROVE  /\ heap'[s[1]] \in NodeCell /\ heap'[s[1]].live
                      /\ heap'[s[1]].prev = p
                      /\ heap'[s[1]].next = heap[s[1]].next
                      /\ heap'[s[1]].key = heap[s[1]].key
                      /\ heap'[s[1]].cont = heap[s[1]].cont
    OBVIOUS
  <2>1. s[1] \in Cells /\ heap[s[1]].live /\ s[1] # p /\ s[1] = header /\ length # 0
    BY <1>3, <1>4
  <2>2. heap'[s[1]] = WithPrev(s[1], p)
    BY <1>1, <2>1 DEF WithPrev
  <2> QED BY <1>5, <2>1, <2>2, NodeUpdate
<1>8. \A q \in Cells \ {p} : (Len(s) > 0 /\ q = s[1]) \/ heap'[q] = heap[q]
  BY <1>1, <1>3
<1> DEFINE t == [i \in 1 .. Len(s) + 1 |-> IF i = 1 THEN p ELSE s[i - 1]]
<1>9. /\ t \in Seq(Cells) /\ Len(t) = Len(s) + 1 /\ t[1] = p
      /\ \A i \in 1 .. Len(s) : t[i + 1] = s[i]
      /\ \A i \in 1 .. Len(s) + 1 : t[i] = IF i = 1 THEN p ELSE s[i - 1]
  BY <1>3, <1>4
<1> HIDE DEF t
<1>10. heap' \in [Cells -> {FreeCell} \cup NodeCell]
  <2>1. \A q \in Cells : heap'[q] \in {FreeCell} \cup NodeCell
    BY <1>6, <1>7, <1>8, CellType
  <2>2. heap' = [q \in Cells |-> heap'[q]]
    BY <1>1
  <2> QED BY <2>1, <2>2
<1>11. TypeOK'
  <2>1. header' \in Pointer /\ tailer' \in Pointer
    BY <1>1, <1>5 DEF TypeOK
  <2>2. length' \in Int /\ fault' \in {"none", "null", "freed"}
    BY <1>2 DEF TypeOK
  <2> QED BY <1>10, <2>1, <2>2 DEF TypeOK, NodeCell
<1>12. ASSUME NEW i \in 1 .. Len(s) + 1
       PROVE  /\ heap'[t[i]].live
              /\ heap'[t[i]].prev = IF i = 1 THEN NULL ELSE t[i - 1]
              /\ heap'[t[i]].next = IF i = Len(s) + 1 THEN NULL ELSE t[i + 1]
  <2>1. CASE i = 1
    BY <1>3, <1>6, <1>9, <2>1
  <2>2. CASE i = 2
    BY <1>3, <1>4, <1>7, <1>9, <2>2
  <2>3. CASE i > 2
    <3>1. i - 1 \in 1 .. Len(s) /\ i - 2 \in 1 .. Len(s) /\ i - 1 # 1
      BY <1>3, <2>3
    <3>2. heap'[s[i - 1]] = heap[s[i - 1]]
      BY <1>3, <1>4, <1>8, <3>1
    <3>3. /\ heap[s[i - 1]].live /\ heap[s[i - 1]].prev = s[(i - 1) - 1]
          /\ heap[s[i - 1]].next = IF i - 1 = Len(s) THEN NULL ELSE s[(i - 1) + 1]
      BY <1>3, <3>1
    <3>4. t[i - 1] = s[(i - 1) - 1] /\ (i - 1 # Len(s) => t[i + 1] = s[(i - 1) + 1])
      BY <1>3, <1>9, <3>1
    <3>5. /\ heap'[t[i]] = heap[s[i - 1]] /\ i # 1
          /\ (i - 1 = Len(s)) <=> (i = Len(s) + 1)
      BY <1>3, <1>9, <2>3, <3>2
    <3> QED BY <3>3, <3>4, <3>5
  <2> QED BY <1>3, <2>1, <2>2, <2>3
<1>13. \A q \in Cells \ {p} : heap'[q].live <=> heap[q].live
  BY <1>3, <1>7, <1>8, CellType
<1>14. Linked(t)'
  <2>1. \A i, j \in 1 .. Len(s) + 1 : t[i] = t[j] => i = j
    <3> SUFFICES ASSUME NEW i \in 1 .. Len(s) + 1, NEW j \in 1 .. Len(s) + 1,
                        t[i] = t[j], i # 1
                 PROVE  i = j
      BY <1>3
    <3>1. i - 1 \in 1 .. Len(s) /\ t[i] = s[i - 1] /\ t[i] # p
      <4>1. i - 1 \in 1 .. Len(s)
        BY <1>3
      <4> QED BY <1>4, <1>9, <4>1
    <3>2. j # 1
      BY <1>9, <3>1
    <3>3. j - 1 \in 1 .. Len(s) /\ t[j] = s[j - 1]
      <4>1. j - 1 \in 1 .. Len(s)
        BY <1>3, <3>2
      <4> QED BY <1>9, <3>2, <4>1
    <3>4. \A x, y \in 1 .. Len(s) : s[x] = s[y] => x = y
      BY <1>3
    <3>5. i - 1 = j - 1
      BY <3>1, <3>3, <3>4
    <3> QED BY <1>3, <3>5
  <2>2. tailer' \in Cells /\ heap'[tailer'].live => tailer' = t[Len(s) + 1]
    <3>1. CASE Len(s) = 0
      BY <1>1, <1>3, <1>9, <3>1
    <3>2. CASE Len(s) # 0
      <4>1. tailer' = tailer /\ tailer # p /\ t[Len(s) + 1] = s[Len(s)]
        BY <1>1, <1>3, <1>4, <1>9, <3>2
      <4> QED BY <1>3, <1>13, <4>1
    <3> QED BY <3>1, <3>2
  <2>3. tailer' # NULL
    BY <1>1, <1>3, <1>4
  <2>4. PICK m \in Nat : m = Len(s) + 1 /\ m # 0
    BY <1>3
  <2>5. length' = m /\ header' = (IF m = 0 THEN NULL ELSE t[1])
    BY <1>1, <1>2, <1>3, <1>9, <2>4
  <2>6. \A i \in 1 .. m :
           /\ heap'[t[i]].live
           /\ heap'[t[i]].prev = IF i = 1 THEN NULL ELSE t[i - 1]
           /\ heap'[t[i]].next = IF i = m THEN NULL ELSE t[i + 1]
    BY <1>12, <2>4
  <2>7. /\ t \in Seq(Cells) /\ Len(t) = m
        /\ \A i, j \in 1 .. m : t[i] = t[j] => i = j
        /\ tailer' \in Cells /\ heap'[tailer'].live => m > 0 /\ tailer' = t[m]
        /\ tailer' = NULL => m = 0
    BY <1>9, <2>1, <2>2, <2>3, <2>4
  <2> QED BY <2>4, <2>5, <2>6, <2>7, LinkedNext
<1>15. Content(t[1])' = n
  BY <1>6, <1>9 DEF Content
<1>16. \A i \in 1 .. Len(s) : Content(s[i])' = Content(s[i])
  BY <1>3, <1>4, <1>7, <1>8 DEF Content
<1>17. Stale' <=> Stale /\ Len(s) > 0
  BY <1>1, <1>3, <1>4, <1>6, <1>13 DEF Stale, TypeOK, Pointer
<1> QED BY <1>9, <1>11, <1>14, <1>15, <1>16, <1>17

\* insertT() puts a new node after the others, if tailer is not freed.
LEMMA InsertTLinks ==
    ASSUME TypeOK, NEW s, Linked(s), NEW n \in [key : Keys, cont : Values], InsertT(n), ~Stale
    PROVE  \E t : /\ Linked(t)' /\ Len(t) = Len(s) + 1 /\ TypeOK'
                  /\ Content(t[Len(s) + 1])' = n
                  /\ \A i \in 1 .. Len(s) : t[i] = s[i] /\ Content(s[i])' = Content(s[i])
                  /\ ~Stale'
<1>1. tailer = NULL \/ Deref(tailer) = "none"
  BY DEF Stale, Deref
<1>2. PICK p \in Fresh :
         /\ heap' = [q \in Cells |->
                       IF q = p THEN NewCell(n, NULL, tailer)
                       ELSE IF q = tailer THEN [heap[q] EXCEPT !.next = p]
                       ELSE heap[q]]
         /\ header' = IF tailer = NULL THEN p ELSE header
         /\ tailer' = p
  BY <1>1 DEF InsertT
<1>3. length' = length + 1 /\ UNCHANGED fault
  BY <1>1 DEF InsertT
<1>4. /\ Len(s) \in Nat /\ length = Len(s) /\ NULL \notin Cells
      /\ \A i \in 1 .. Len(s) : s[i] \in Cells /\ heap[s[i]].live
      /\ \A i, j \in 1 .. Len(s) : s[i] = s[j] => i = j
      /\ header = IF Len(s) = 0 THEN NULL ELSE s[1]
      /\ \A i \in 1 .. Len(s) :
            /\ heap[s[i]].prev = IF i = 1 THEN NULL ELSE s[i - 1]
            /\ heap[s[i]].next = IF i = Len(s) THEN NULL ELSE s[i + 1]
      /\ tailer \in Cells /\ heap[tailer].live => Len(s) > 0 /\ tailer = s[Len(s)]
      /\ tailer = NULL => Len(s) = 0
  BY LinkedFacts
<1>5. tailer = IF Len(s) = 0 THEN NULL ELSE s[Len(s)]
  BY <1>4 DEF Stale, TypeOK, Pointer
<1>6. p \in Cells /\ ~heap[p].live /\ \A i \in 1 .. Len(s) : s[i] # p
  BY <1>4 DEF Fresh
<1>7. p \in Pointer /\ NULL \in Pointer /\ tailer \in Pointer /\ header \in Pointer
  BY <1>6 DEF Pointer, TypeOK
<1>8. /\ heap'[p] \in NodeCell /\ heap'[p].live /\ heap'[p].next = NULL
      /\ heap'[p].prev = tailer /\ heap'[p].key = n.key /\ heap'[p].cont = n.cont
  <2>1. heap'[p] = NewCell(n, NULL, tailer)
    BY <1>2, <1>6
  <2> QED BY <1>7, <2>1, NewCellIs
<1>9. ASSUME Len(s) > 0, NEW l, l = s[Len(s)]
      PROVE  /\ heap'[l] \in NodeCell /\ heap'[l].live /\ heap'[l].next = p
             /\ heap'[l].prev = heap[l].prev
             /\ heap'[l].key = heap[l].key /\ heap'[l].cont = heap[l].cont
  <2>1. l \in Cells /\ heap[l].live /\ l # p /\ l = tailer
    BY <1>4, <1>5, <1>6, <1>9
  <2>2. heap'[l] = WithNext(l, p)
    BY <1>2, <2>1 DEF WithNext
  <2> QED BY <1>7, <2>1, <2>2, NodeUpdate
<1>10. \A q \in Cells \ {p} : (Len(s) > 0 /\ q = s[Len(s)]) \/ heap'[q] = heap[q]
  BY <1>2, <1>4, <1>5
<1> DEFINE t == [i \in 1 .. Len(s) + 1 |-> IF i = Len(s) + 1 THEN p ELSE s[i]]
<1>11. /\ t \in Seq(Cells) /\ Len(t) = Len(s) + 1 /\ t[Len(s) + 1] = p
       /\ \A i \in 1 .. Len(s) : t[i] = s[i]
  BY <1>4, <1>6
<1> HIDE DEF t
<1>12. TypeOK'
  <2>1. \A q \in Cells : heap'[q] \in {FreeCell} \cup NodeCell
    BY <1>4, <1>8, <1>9, <1>10, CellType
  <2>2. heap' = [q \in Cells |-> heap'[q]]
    BY <1>2
  <2>3. heap' \in [Cells -> {FreeCell} \cup NodeCell]
    BY <2>1, <2>2
  <2>4. header' \in Pointer /\ tailer' \in Pointer
    BY <1>2, <1>7
  <2>5. length' \in Int /\ fault' \in {"none", "null", "freed"}
    BY <1>3 DEF TypeOK
  <2> QED BY <2>3, <2>4, <2>5 DEF TypeOK, NodeCell
<1>13. PICK m \in Nat : m = Len(s) + 1 /\ m # 0
  BY <1>4
<1>14. ASSUME NEW i \in 1 .. m
       PROVE  /\ heap'[t[i]].live
              /\ heap'[t[i]].prev = IF i = 1 THEN NULL ELSE t[i - 1]
              /\ heap'[t[i]].next = IF i = m THEN NULL ELSE t[i + 1]
  <2>1. CASE i = m
    <3>1. t[i] = p /\ i = Len(s) + 1
      BY <1>11, <1>13, <2>1
    <3>2. tailer = IF i = 1 THEN NULL ELSE t[i - 1]
      BY <1>4, <1>5, <1>11, <3>1
    <3> QED BY <1>8, <2>1, <3>1, <3>2
  <2>2. CASE i = Len(s)
    <3>1. t[i] = s[Len(s)] /\ Len(s) > 0 /\ t[i + 1] = p /\ i # m
      BY <1>4, <1>11, <1>13, <2>2
    <3>2. heap[s[i]].prev = IF i = 1 THEN NULL ELSE t[i - 1]
      BY <1>4, <1>11, <2>2
    <3> QED BY <1>9, <2>2, <3>1, <3>2
  <2>3. CASE i < Len(s)
    <3>1. /\ i \in 1 .. Len(s) /\ i + 1 \in 1 .. Len(s) /\ i # m
          /\ t[i] = s[i] /\ t[i + 1] = s[i + 1] /\ (i # 1 => t[i - 1] = s[i - 1])
      BY <1>4, <1>11, <1>13, <2>3
    <3>2. heap'[s[i]] = heap[s[i]]
      BY <1>4, <1>6, <1>10, <2>3, <3>1
    <3>3. /\ heap[s[i]].live /\ heap[s[i]].next = s[i + 1]
          /\ heap[s[i]].prev = IF i = 1 THEN NULL ELSE s[i - 1]
      BY <1>4, <2>3, <3>1
    <3> QED BY <3>1, <3>2, <3>3
  <2> QED BY <1>4, <1>13, <2>1, <2>2, <2>3
<1>15. Linked(t)'
  <2>1. \A i, j \in 1 .. m : t[i] = t[j] => i = j
    BY <1>4, <1>6, <1>11, <1>13
  <2>2. length' = m /\ header' = (IF m = 0 THEN NULL ELSE t[1])
    BY <1>2, <1>3, <1>4, <1>5, <1>11, <1>13
  <2>3. /\ t \in Seq(Cells) /\ Len(t) = m
        /\ tailer' \in Cells /\ heap'[tailer'].live => m > 0 /\ tailer' = t[m]
        /\ tailer' = NULL => m = 0
    BY <1>2, <1>4, <1>6, <1>11, <1>13
  <2> QED BY <1>13, <1>14, <2>1, <2>2, <2>3, LinkedNext
<1>16. Content(t[Len(s) + 1])' = n
  BY <1>8, <1>11 DEF Content
<1>17. \A i \in 1 .. Len(s) : Content(s[i])' = Content(s[i])
  BY <1>4, <1>6, <1>9, <1>10 DEF Content
<1>18. ~Stale'
  BY <1>2, <1>8 DEF Stale
<1> QED BY <1>11, <1>12, <1>15, <1>16, <1>17, <1>18

-----------------------------------------------------------------------------

\* takeHead() and delete(): node k goes, the others stay in order, and tailer
\* is freed if the node was the last.
LEMMA UnlinkLinks ==
    ASSUME TypeOK, NEW s, Linked(s), NEW k \in 1 .. Len(s), UNCHANGED fault,
           heap' = IF k = 1 THEN Beheaded(s[1]) ELSE Unlinked(s[k]),
           header' = IF k = 1 THEN heap[s[1]].next ELSE header,
           length' = length - 1,
           tailer' = tailer \/ (Len(s) = 1 /\ tailer' = NULL)
    PROVE  \E t : /\ Linked(t)' /\ Len(t) = Len(s) - 1 /\ TypeOK'
                  /\ \A i \in 1 .. Len(s) - 1 :
                        /\ t[i] = IF i < k THEN s[i] ELSE s[i + 1]
                        /\ Content(t[i])' = Content(t[i])
                  /\ tailer' = tailer => (Stale' <=> Stale \/ k = Len(s))
<1> DEFINE p == s[k]
<1>1. /\ Len(s) \in Nat /\ length = Len(s) /\ NULL \notin Cells
      /\ \A i \in 1 .. Len(s) : s[i] \in Cells /\ heap[s[i]].live
      /\ \A i, j \in 1 .. Len(s) : s[i] = s[j] => i = j
      /\ header = IF Len(s) = 0 THEN NULL ELSE s[1]
      /\ \A i \in 1 .. Len(s) :
            /\ heap[s[i]].prev = IF i = 1 THEN NULL ELSE s[i - 1]
            /\ heap[s[i]].next = IF i = Len(s) THEN NULL ELSE s[i + 1]
      /\ tailer \in Cells /\ heap[tailer].live => Len(s) > 0 /\ tailer = s[Len(s)]
      /\ tailer = NULL => Len(s) = 0
  BY LinkedFacts
<1>2. /\ p \in Cells /\ heap[p].live
      /\ heap[p].prev = IF k = 1 THEN NULL ELSE s[k - 1]
      /\ heap[p].next = IF k = Len(s) THEN NULL ELSE s[k + 1]
  BY <1>1
<1>3. heap[p].prev \in Pointer /\ heap[p].next \in Pointer
  BY <1>1, <1>2 DEF Pointer
<1>4. ASSUME k > 1 PROVE s[k - 1] \in Cells /\ heap[s[k - 1]].live /\ s[k - 1] # p
  BY <1>1, <1>4
<1>5. ASSUME k < Len(s)
      PROVE  s[k + 1] \in Cells /\ heap[s[k + 1]].live /\ s[k + 1] # p
             /\ (k > 1 => s[k + 1] # s[k - 1])
  BY <1>1, <1>5
<1>19. p # heap[p].next /\ p # heap[p].prev
  BY <1>1, <1>2, <1>4, <1>5
<1>6. /\ heap'[p] = FreeCell
      /\ k > 1 => heap'[s[k - 1]] = WithNext(s[k - 1], heap[p].next)
      /\ k < Len(s) => heap'[s[k + 1]] = WithPrev(s[k + 1], heap[p].prev)
      /\ \A q \in Cells \ {p} : \/ k > 1 /\ q = s[k - 1]
                                \/ k < Len(s) /\ q = s[k + 1]
                                \/ heap'[q] = heap[q]
      /\ heap' = [q \in Cells |-> heap'[q]]
  <2>1. CASE k = 1
    <3>1. heap' = [q \in Cells |->
                     CASE q = p -> FreeCell
                       [] q = heap[p].next -> [heap[q] EXCEPT !.prev = NULL]
                       [] OTHER -> heap[q]]
      BY <2>1 DEF Beheaded
    <3> HIDE DEF p
    <3>2. heap'[p] = FreeCell
      BY <1>19, <1>2, <3>1
    <3>3. ASSUME k < Len(s) PROVE heap'[s[k + 1]] = WithPrev(s[k + 1], heap[p].prev)
      <4>1. s[k + 1] \in Cells /\ s[k + 1] # p /\ s[k + 1] = heap[p].next
        BY <1>1, <1>2, <1>5, <3>3
      <4>2. heap[p].prev = NULL
        BY <1>2, <2>1
      <4> QED BY <3>1, <4>1, <4>2 DEF WithPrev
    <3>4. \A q \in Cells \ {p} : (k < Len(s) /\ q = s[k + 1]) \/ heap'[q] = heap[q]
      <4>1. \A q \in Cells \ {p} : q = heap[p].next \/ heap'[q] = heap[q]
        BY <3>1
      <4> QED BY <1>1, <1>2, <4>1
    <3>5. heap' = [q \in Cells |-> heap'[q]]
      BY <3>1
    <3> QED BY <2>1, <3>2, <3>3, <3>4, <3>5
  <2>2. CASE k # 1
    <3>1. heap' = [q \in Cells |->
                     CASE q = p -> FreeCell
                       [] q = heap[p].prev -> [heap[q] EXCEPT !.next = heap[p].next]
                       [] q = heap[p].next -> [heap[q] EXCEPT !.prev = heap[p].prev]
                       [] OTHER -> heap[q]]
      BY <2>2 DEF Unlinked
    <3> HIDE DEF p
    <3>2. heap'[p] = FreeCell
      BY <1>19, <1>2, <3>1
    <3>3. heap'[s[k - 1]] = WithNext(s[k - 1], heap[p].next)
      <4>1. /\ s[k - 1] \in Cells /\ s[k - 1] # p /\ s[k - 1] = heap[p].prev
            /\ s[k - 1] # heap[p].next
        BY <1>1, <1>2, <1>4, <1>5, <2>2
      <4> QED BY <3>1, <4>1 DEF WithNext
    <3>4. ASSUME k < Len(s) PROVE heap'[s[k + 1]] = WithPrev(s[k + 1], heap[p].prev)
      <4>1. /\ s[k + 1] \in Cells /\ s[k + 1] # p /\ s[k + 1] = heap[p].next
            /\ s[k + 1] # heap[p].prev
        BY <1>1, <1>2, <1>5, <2>2, <3>4
      <4> QED BY <3>1, <4>1 DEF WithPrev
    <3>5. \A q \in Cells \ {p} : \/ q = s[k - 1]
                                 \/ k < Len(s) /\ q = s[k + 1]
                                 \/ heap'[q] = heap[q]
      <4>1. \A q \in Cells \ {p} : \/ q = heap[p].prev \/ q = heap[p].next
                                   \/ heap'[q] = heap[q]
        BY <3>1
      <4> QED BY <1>1, <1>2, <2>2, <4>1
    <3>6. heap' = [q \in Cells |-> heap'[q]] /\ k > 1
      BY <2>2, <3>1
    <3> QED BY <3>2, <3>3, <3>4, <3>5, <3>6
  <2> QED BY <2>1, <2>2
<1> HIDE DEF p
<1>7. ASSUME k > 1, NEW q, q = s[k - 1]
      PROVE  /\ heap'[q] \in NodeCell /\ heap'[q].live
             /\ heap'[q].next = heap[p].next /\ heap'[q].prev = heap[q].prev
             /\ heap'[q].key = heap[q].key /\ heap'[q].cont = heap[q].cont
  BY <1>3, <1>4, <1>6, <1>7, NodeUpdate
<1>8. ASSUME k < Len(s), NEW q, q = s[k + 1]
      PROVE  /\ heap'[q] \in NodeCell /\ heap'[q].live
             /\ heap'[q].prev = heap[p].prev /\ heap'[q].next = heap[q].next
             /\ heap'[q].key = heap[q].key /\ heap'[q].cont = heap[q].cont
  BY <1>3, <1>5, <1>6, <1>8, NodeUpdate
<1>9. \A q \in Cells \ {p} : heap'[q].live <=> heap[q].live
  BY <1>4, <1>5, <1>6, <1>7, <1>8
<1>10. ~heap'[p].live
  <2>1. ~FreeCell.live
    BY DEF FreeCell
  <2> QED BY <1>6, <2>1
<1>11. TypeOK'
  <2>1. \A q \in Cells : heap'[q] \in {FreeCell} \cup NodeCell
    BY <1>6, <1>7, <1>8, CellType
  <2>2. heap' \in [Cells -> {FreeCell} \cup NodeCell]
    BY <1>6, <2>1
  <2>3. header' \in Pointer /\ tailer' \in Pointer /\ NULL \in Pointer
    BY <1>3 DEF TypeOK, Pointer, p
  <2>4. length' \in Int /\ fault' \in {"none", "null", "freed"}
    BY DEF TypeOK
  <2> QED BY <2>2, <2>3, <2>4 DEF TypeOK, NodeCell
<1>12. PICK m \in Nat : m = Len(s) - 1
  BY <1>1
<1> DEFINE t == [i \in 1 .. m |-> IF i < k THEN s[i] ELSE s[i + 1]]
<1>13. /\ t \in Seq(Cells) /\ Len(t) = m
       /\ \A i \in 1 .. m : t[i] = IF i < k THEN s[i] ELSE s[i + 1]
  BY <1>1, <1>12
<1> HIDE DEF t
<1>14. \A i \in 1 .. m : t[i] \in Cells \ {p}
  BY <1>1, <1>12, <1>13 DEF p
<1>15. ASSUME NEW i \in 1 .. m
       PROVE  /\ heap'[t[i]].live
              /\ heap'[t[i]].prev = IF i = 1 THEN NULL ELSE t[i - 1]
              /\ heap'[t[i]].next = IF i = m THEN NULL ELSE t[i + 1]
  <2>1. heap'[t[i]].live
    <3>1. \E j \in 1 .. Len(s) : t[i] = s[j]
      <4>1. i \in 1 .. Len(s) /\ i + 1 \in 1 .. Len(s)
        BY <1>1, <1>12
      <4> QED BY <1>13, <4>1
    <3> QED BY <1>1, <1>9, <1>14, <3>1
  <2>2. CASE i < k - 1
    <3>1. /\ t[i] = s[i] /\ t[i + 1] = s[i + 1] /\ i # m /\ i \in 1 .. Len(s) /\ i # Len(s)
          /\ (i # 1 => t[i - 1] = s[i - 1])
      <4>1. i < k /\ i + 1 < k /\ i + 1 \in 1 .. m /\ i # m /\ i \in 1 .. Len(s) /\ i # Len(s)
        BY <1>1, <1>12, <2>2
      <4>2. i # 1 => i - 1 \in 1 .. m /\ i - 1 < k
        BY <1>12, <4>1
      <4> QED BY <1>13, <4>1, <4>2
    <3>2. heap'[t[i]] = heap[s[i]]
      <4>1. (k > 1 => s[i] # s[k - 1]) /\ (k < Len(s) => s[i] # s[k + 1])
        BY <1>1, <2>2, <3>1
      <4> QED BY <1>6, <1>14, <3>1, <4>1
    <3>3. heap[s[i]].prev = (IF i = 1 THEN NULL ELSE s[i - 1]) /\ heap[s[i]].next = s[i + 1]
      BY <1>1, <3>1
    <3> QED BY <2>1, <3>1, <3>2, <3>3
  <2>3. CASE i = k - 1
    <3>1. /\ t[i] = s[i] /\ (i = m <=> k = Len(s)) /\ (i # m => t[i + 1] = s[k + 1])
          /\ (i # 1 => t[i - 1] = s[i - 1]) /\ i \in 1 .. Len(s) /\ k > 1
      BY <1>1, <1>12, <1>13, <2>3
    <3>2. heap'[t[i]].next = heap[p].next /\ heap'[t[i]].prev = heap[s[i]].prev
      BY <1>7, <2>3, <3>1
    <3>3. heap[s[i]].prev = IF i = 1 THEN NULL ELSE s[i - 1]
      BY <1>1, <3>1
    <3> QED BY <1>2, <2>1, <3>1, <3>2, <3>3
  <2>4. CASE i = k
    <3>1. /\ t[i] = s[k + 1] /\ k < Len(s) /\ (i # 1 => t[i - 1] = s[k - 1])
          /\ (i = m <=> k + 1 = Len(s)) /\ (i # m => t[i + 1] = s[(k + 1) + 1])
          /\ k + 1 \in 1 .. Len(s)
      BY <1>1, <1>12, <1>13, <2>4
    <3>2. heap'[t[i]].prev = heap[p].prev /\ heap'[t[i]].next = heap[s[k + 1]].next
      BY <1>8, <3>1
    <3>3. heap[s[k + 1]].next = IF k + 1 = Len(s) THEN NULL ELSE s[(k + 1) + 1]
      BY <1>1, <3>1
    <3> QED BY <1>2, <2>1, <2>4, <3>1, <3>2, <3>3
  <2>5. CASE i > k
    <3>1. PICK j \in 1 .. Len(s) : j = i + 1
      BY <1>1, <1>12
    <3>2. /\ t[i] = s[j] /\ (i = m <=> j = Len(s)) /\ (i # m => t[i + 1] = s[j + 1])
          /\ t[i - 1] = s[j - 1] /\ i # 1 /\ j # 1 /\ j > k + 1
      BY <1>1, <1>12, <1>13, <2>5, <3>1
    <3>3. heap'[t[i]] = heap[s[j]]
      <4>1. (k > 1 => s[j] # s[k - 1]) /\ (k < Len(s) => s[j] # s[k + 1])
        BY <1>1, <3>2
      <4> QED BY <1>6, <1>14, <3>2, <4>1
    <3>4. heap[s[j]].prev = s[j - 1] /\ heap[s[j]].next = IF j = Len(s) THEN NULL ELSE s[j + 1]
      BY <1>1, <3>2
    <3> QED BY <2>1, <3>2, <3>3, <3>4
  <2> QED BY <1>12, <2>2, <2>3, <2>4, <2>5
<1>16. Linked(t)'
  <2>1. \A i, j \in 1 .. m : t[i] = t[j] => i = j
    <3> SUFFICES ASSUME NEW i \in 1 .. m, NEW j \in 1 .. m, t[i] = t[j] PROVE i = j
      OBVIOUS
    <3> DEFINE at(x) == IF x < k THEN x ELSE x + 1
    <3>1. at(i) \in 1 .. Len(s) /\ at(j) \in 1 .. Len(s) /\ s[at(i)] = s[at(j)]
      <4>1. \A x \in 1 .. m : at(x) \in 1 .. Len(s)
        BY <1>1, <1>12
      <4>2. \A x \in 1 .. m : t[x] = s[at(x)]
        BY <1>13
      <4> HIDE DEF at
      <4> QED BY <4>1, <4>2
    <3>2. at(i) = at(j)
      <4> HIDE DEF at
      <4> QED BY <1>1, <3>1
    <3> QED BY <3>2
  <2>2. length' = m
    BY <1>1, <1>12
  <2>3. header' = IF m = 0 THEN NULL ELSE t[1]
    BY <1>1, <1>2, <1>12, <1>13 DEF p
  <2>4. tailer' \in Cells /\ heap'[tailer'].live => m > 0 /\ tailer' = t[m]
    <3> SUFFICES ASSUME tailer' \in Cells, heap'[tailer'].live PROVE m > 0 /\ tailer' = t[m]
      OBVIOUS
    <3>1. tailer' = tailer /\ tailer # p /\ heap[tailer].live
      BY <1>1, <1>9, <1>10
    <3>2. tailer = s[Len(s)] /\ k # Len(s)
      BY <1>1, <3>1 DEF p
    <3> QED BY <1>1, <1>12, <1>13, <3>1, <3>2
  <2>5. tailer' = NULL => m = 0
    BY <1>1, <1>12
  <2> QED BY <1>12, <1>13, <1>15, <2>1, <2>2, <2>3, <2>4, <2>5, LinkedNext
<1>17. \A i \in 1 .. m : Content(t[i])' = Content(t[i])
  BY <1>6, <1>7, <1>8, <1>14 DEF Content
<1>18. tailer' = tailer => (Stale' <=> Stale \/ k = Len(s))
  <2> SUFFICES ASSUME tailer' = tailer PROVE Stale' <=> Stale \/ k = Len(s)
    OBVIOUS
  <2>1. tailer # NULL /\ tailer \in Cells
    BY <1>1 DEF TypeOK, Pointer
  <2>2. CASE tailer = p
    BY <1>1, <1>2, <1>10, <2>1, <2>2 DEF Stale, p
  <2>3. CASE tailer # p
    BY <1>1, <1>9, <2>1, <2>3 DEF Stale, p
  <2> QED BY <2>2, <2>3
<1> QED BY <1>11, <1>12, <1>13, <1>16, <1>17, <1>18

-----------------------------------------------------------------------------
(* The list as a value *)

Node == [key : Keys, cont : Values]

\* What the refinement mapping gives for the variable list of ListSpec.
Now == [nodes |-> [i \in 1 .. Len(Chain) |-> Content(Chain[i])],
        stale |-> tailer # NULL /\ ~heap[tailer].live]

LEMMA NowIs ==
    \A s : TypeOK /\ Linked(s) =>
        /\ Now.nodes \in Seq(Node) /\ Len(Now.nodes) = Len(s)
        /\ \A i \in 1 .. Len(s) : Now.nodes[i] = Content(s[i])
        /\ Now.stale <=> Stale
        /\ Now \in ListOf(Node)
        /\ Now = [nodes |-> Now.nodes, stale |-> Now.stale]
<1> SUFFICES ASSUME NEW s, TypeOK, Linked(s)
             PROVE  /\ Now.nodes \in Seq(Node) /\ Len(Now.nodes) = Len(s)
                    /\ \A i \in 1 .. Len(s) : Now.nodes[i] = Content(s[i])
                    /\ Now.stale <=> Stale
                    /\ Now \in ListOf(Node)
                    /\ Now = [nodes |-> Now.nodes, stale |-> Now.stale]
  OBVIOUS
<1>1. Chain = s
  BY ChainIs
<1>2. Len(s) \in Nat /\ \A i \in 1 .. Len(s) : s[i] \in Cells /\ heap[s[i]].live
  BY LinkedFacts
<1>3. \A i \in 1 .. Len(s) : Content(s[i]) \in Node
  <2>1. \A c \in NodeCell : [key |-> c.key, cont |-> c.cont] \in Node
    BY DEF NodeCell, Node
  <2> QED BY <1>2, <2>1, CellType DEF Content
<1> DEFINE ns == [i \in 1 .. Len(s) |-> Content(s[i])]
           st == tailer # NULL /\ ~heap[tailer].live
<1>4. Now = [nodes |-> ns, stale |-> st]
  BY <1>1 DEF Now
<1>5. ns \in Seq(Node) /\ Len(ns) = Len(s) /\ \A i \in 1 .. Len(s) : ns[i] = Content(s[i])
  BY <1>2, <1>3
<1>6. st \in BOOLEAN /\ (st <=> Stale)
  BY DEF Stale
<1> HIDE DEF ns, st
<1> QED BY <1>4, <1>5, <1>6 DEF ListOf

LEMMA NowNext ==
    ASSUME NEW t, TypeOK', Linked(t)'
    PROVE  /\ Now'.nodes \in Seq(Node) /\ Len(Now'.nodes) = Len(t)
           /\ \A i \in 1 .. Len(t) : Now'.nodes[i] = Content(t[i])'
           /\ Now'.stale <=> Stale'
           /\ Now'.stale \in BOOLEAN
           /\ Now' = [nodes |-> Now'.nodes, stale |-> Now'.stale]
<1>1. (\A s : TypeOK /\ Linked(s) =>
        /\ Now.nodes \in Seq(Node) /\ Len(Now.nodes) = Len(s)
        /\ \A i \in 1 .. Len(s) : Now.nodes[i] = Content(s[i])
        /\ Now.stale <=> Stale
        /\ Now \in ListOf(Node)
        /\ Now = [nodes |-> Now.nodes, stale |-> Now.stale])'
  BY NowIs, PTL
<1> QED BY <1>1 DEF ListOf

LEMMA SameSeq ==
    ASSUME NEW S, NEW a \in Seq(S), NEW b \in Seq(S), Len(a) = Len(b),
           \A i \in 1 .. Len(a) : a[i] = b[i]
    PROVE  a = b
OBVIOUS

\* The invariant, from any list of cells.
LEMMA LinkedIsInv == ASSUME TypeOK', NEW t, Linked(t)' PROVE LInv'
BY ChainNext DEF LInv

\* insertH() does what the operator insertH says.
LEMMA InsertHRefines ==
    ASSUME LInv, NEW n \in Node, InsertH(n)
    PROVE  LInv' /\ Now' = insertH(Now, n) /\ Len(Now.nodes) < MaxLen
<1>1. PICK s : s = Chain
  OBVIOUS
<1>2. TypeOK /\ Linked(s)
  BY <1>1 DEF LInv
<1>3. PICK t : /\ Linked(t)' /\ Len(t) = Len(s) + 1 /\ TypeOK'
               /\ Content(t[1])' = n
               /\ \A i \in 1 .. Len(s) : t[i + 1] = s[i] /\ Content(s[i])' = Content(s[i])
               /\ Stale' <=> Stale /\ Len(s) > 0
  BY <1>2, InsertHLinks DEF Node
<1>4. /\ Now.nodes \in Seq(Node) /\ Len(Now.nodes) = Len(s)
      /\ \A i \in 1 .. Len(s) : Now.nodes[i] = Content(s[i])
      /\ Now.stale <=> Stale
      /\ Now \in ListOf(Node)
  BY <1>2, NowIs
<1>5. /\ Now'.nodes \in Seq(Node) /\ Len(Now'.nodes) = Len(t)
      /\ \A i \in 1 .. Len(t) : Now'.nodes[i] = Content(t[i])'
      /\ Now'.stale <=> Stale'
      /\ Now'.stale \in BOOLEAN
      /\ Now' = [nodes |-> Now'.nodes, stale |-> Now'.stale]
  BY <1>3, NowNext
<1>6. /\ Len(s) \in Nat /\ insertH(Now, n).nodes \in Seq(Node)
      /\ Len(insertH(Now, n).nodes) = 1 + Len(s)
      /\ \A i \in 1 .. 1 + Len(s) :
            insertH(Now, n).nodes[i] = IF i <= 1 THEN n ELSE Now.nodes[i - 1]
  BY <1>4, InsertHNodes
<1>7. ASSUME NEW i \in 1 .. 1 + Len(s) PROVE Now'.nodes[i] = insertH(Now, n).nodes[i]
  <2>1. CASE i = 1
    BY <1>3, <1>5, <1>6, <2>1
  <2>2. CASE i # 1
    <3>1. PICK j \in 1 .. Len(s) : i = j + 1 /\ i - 1 = j
      BY <1>6, <2>2
    <3>2. Now'.nodes[i] = Content(s[j])
      BY <1>3, <1>5, <3>1
    <3> QED BY <1>4, <1>6, <2>2, <3>1, <3>2
  <2> QED BY <2>1, <2>2
<1>8. Now'.nodes = insertH(Now, n).nodes
  BY <1>3, <1>5, <1>6, <1>7, SameSeq
<1>9. Now'.stale = (Now.stale /\ ~isEmpty(Now))
  <2>1. isEmpty(Now) <=> Len(s) = 0
    BY <1>4, EmptySeq DEF isEmpty
  <2> QED BY <1>3, <1>4, <1>5, <1>6, <2>1
<1>10. Now' = insertH(Now, n)
  BY <1>5, <1>8, <1>9 DEF insertH
<1>11. length = Len(s) /\ length < MaxLen
  BY <1>2, LinkedFacts DEF InsertH
<1> QED BY <1>3, <1>4, <1>10, <1>11, LinkedIsInv

\* insertT() does what the operator insertT says, unless tailer is freed.
LEMMA InsertTRefines ==
    ASSUME LInv, NEW n \in Node, InsertT(n), ~Stale
    PROVE  /\ LInv' /\ Now' = insertT(Now, n) /\ Len(Now.nodes) < MaxLen
           /\ result' = Result("insertT", {}) /\ UNCHANGED fault /\ insertTSafe(Now)
<1>1. PICK s : s = Chain
  OBVIOUS
<1>2. TypeOK /\ Linked(s)
  BY <1>1 DEF LInv
<1>3. PICK t : /\ Linked(t)' /\ Len(t) = Len(s) + 1 /\ TypeOK'
               /\ Content(t[Len(s) + 1])' = n
               /\ \A i \in 1 .. Len(s) : t[i] = s[i] /\ Content(s[i])' = Content(s[i])
               /\ ~Stale'
  BY <1>2, InsertTLinks DEF Node
<1>4. /\ Now.nodes \in Seq(Node) /\ Len(Now.nodes) = Len(s) /\ Len(s) \in Nat
      /\ \A i \in 1 .. Len(s) : Now.nodes[i] = Content(s[i])
      /\ Now.stale \in BOOLEAN /\ ~Now.stale
      /\ Now = [nodes |-> Now.nodes, stale |-> Now.stale]
  BY <1>2, NowIs, LinkedFacts DEF ListOf
<1>5. /\ Now'.nodes \in Seq(Node) /\ Len(Now'.nodes) = Len(t)
      /\ \A i \in 1 .. Len(t) : Now'.nodes[i] = Content(t[i])'
      /\ Now'.stale \in BOOLEAN /\ ~Now'.stale
      /\ Now' = [nodes |-> Now'.nodes, stale |-> Now'.stale]
  BY <1>3, NowNext
<1> DEFINE a == Append(Now.nodes, n)
<1>6. /\ a \in Seq(Node) /\ Len(a) = Len(s) + 1
      /\ a[Len(s) + 1] = n
      /\ \A i \in 1 .. Len(s) : a[i] = Now.nodes[i]
  BY <1>4, AppendProperties
<1> HIDE DEF a
<1>7. ASSUME NEW i \in 1 .. Len(s) + 1 PROVE Now'.nodes[i] = a[i]
  <2>1. CASE i = Len(s) + 1
    BY <1>3, <1>5, <1>6, <2>1
  <2>2. CASE i # Len(s) + 1
    <3>1. i \in 1 .. Len(s)
      BY <1>4, <2>2
    <3>2. Now'.nodes[i] = Content(s[i])
      BY <1>3, <1>5, <3>1
    <3> QED BY <1>4, <1>6, <3>1, <3>2
  <2> QED BY <2>1, <2>2
<1>8. Now'.nodes = a
  BY <1>3, <1>5, <1>6, <1>7, SameSeq
<1>9. insertT(Now, n) = [nodes |-> a, stale |-> Now.stale]
  <2>1. Now \in [nodes : Seq(Node), stale : BOOLEAN]
    BY <1>2, NowIs DEF ListOf
  <2>2. \A l \in [nodes : Seq(Node), stale : BOOLEAN] :
           insertT(l, n) = [nodes |-> Append(l.nodes, n), stale |-> l.stale]
    BY DEF insertT
  <2> QED BY <2>1, <2>2 DEF a
<1>10. Now' = insertT(Now, n)
  BY <1>4, <1>5, <1>8, <1>9
<1>11. length = Len(s) /\ length < MaxLen
  BY <1>2, LinkedFacts DEF InsertT
<1>12. result' = Result("insertT", {}) /\ UNCHANGED fault
  BY DEF InsertT, Stale, Deref
<1> QED BY <1>3, <1>4, <1>10, <1>11, <1>12, LinkedIsInv DEF insertTSafe

\* A call that leaves the nodes and both ends alone leaves the value alone.
LEMMA Unmoved ==
    ASSUME LInv, UNCHANGED <<heap, header, tailer, length>>,
           fault' \in {"none", "null", "freed"}
    PROVE  LInv' /\ Now' = Now
<1>1. PICK s : s = Chain
  OBVIOUS
<1>2. TypeOK /\ Linked(s)
  BY <1>1 DEF LInv
<1>3. Linked(s)'
  BY <1>2 DEF Linked
<1>4. TypeOK'
  BY <1>2 DEF TypeOK
<1>5. Chain' = Chain
  BY <1>1, <1>3, ChainNext
<1>6. Now' = Now
  BY <1>5 DEF Now, Content
<1> QED BY <1>3, <1>4, <1>6, LinkedIsInv

\* The header of a list with nodes can be used; that of an empty list is NULL.
LEMMA HeaderIs ==
    ASSUME TypeOK, NEW s, Linked(s)
    PROVE  /\ Len(s) = 0 => header = NULL /\ Deref(header) = "null"
           /\ Len(s) # 0 => /\ header = s[1] /\ header # NULL
                            /\ Deref(header) = "none" /\ 1 \in 1 .. Len(s)
           /\ isEmpty(Now) <=> Len(s) = 0
<1>1. Len(s) = 0 => header = NULL /\ Deref(header) = "null"
  BY LinkedFacts DEF Deref
<1>2. Len(s) # 0 => /\ header = s[1] /\ header # NULL
                    /\ Deref(header) = "none" /\ 1 \in 1 .. Len(s)
  BY LinkedFacts DEF Deref
<1>3. isEmpty(Now) <=> Len(s) = 0
  BY NowIs, EmptySeq DEF isEmpty
<1> QED BY <1>1, <1>2, <1>3

\* takeHead() does what the operator takeHead says, and returns the first node.
LEMMA TakeHeadRefines ==
    ASSUME LInv, TakeHead, header # NULL
    PROVE  /\ LInv' /\ Now' = takeHead(Now) /\ takeHeadSafe(Now)
           /\ result' = Result("takeHead", {Head(Now.nodes)}) /\ UNCHANGED fault
<1>1. PICK s : s = Chain
  OBVIOUS
<1>2. TypeOK /\ Linked(s)
  BY <1>1 DEF LInv
<1>3. /\ Len(s) \in Nat /\ Len(s) # 0 /\ header = s[1] /\ Deref(header) = "none"
      /\ length = Len(s) /\ 1 \in 1 .. Len(s) /\ ~isEmpty(Now)
  <2>1. Len(s) \in Nat /\ length = Len(s)
    BY <1>2, LinkedFacts
  <2> QED BY <1>2, <2>1, HeaderIs
<1>4. /\ heap' = Beheaded(header) /\ length' = length - 1
      /\ IF length' = 0 THEN header' = NULL /\ tailer' = NULL
         ELSE header' = heap[header].next /\ UNCHANGED tailer
      /\ result' = Result("takeHead", {Content(header)})
      /\ UNCHANGED fault
  BY <1>3 DEF TakeHead
<1>5. length' = 0 <=> Len(s) = 1
  BY <1>3, <1>4
<1>6. /\ heap' = (IF 1 = 1 THEN Beheaded(s[1]) ELSE Unlinked(s[1]))
      /\ header' = (IF 1 = 1 THEN heap[s[1]].next ELSE header)
      /\ tailer' = tailer \/ (Len(s) = 1 /\ tailer' = NULL)
  <2>1. Len(s) = 1 => heap[s[1]].next = NULL
    BY <1>2, LinkedFacts
  <2> QED BY <1>3, <1>4, <1>5, <2>1
<1>7. PICK t : /\ Linked(t)' /\ Len(t) = Len(s) - 1 /\ TypeOK'
               /\ \A i \in 1 .. Len(s) - 1 :
                     /\ t[i] = IF i < 1 THEN s[i] ELSE s[i + 1]
                     /\ Content(t[i])' = Content(t[i])
               /\ tailer' = tailer => (Stale' <=> Stale \/ 1 = Len(s))
  BY <1>2, <1>3, <1>4, <1>6, UnlinkLinks
<1>8. /\ Now.nodes \in Seq(Node) /\ Len(Now.nodes) = Len(s)
      /\ \A i \in 1 .. Len(s) : Now.nodes[i] = Content(s[i])
      /\ Now.stale <=> Stale
  BY <1>2, NowIs
<1>9. /\ Now'.nodes \in Seq(Node) /\ Len(Now'.nodes) = Len(t)
      /\ \A i \in 1 .. Len(t) : Now'.nodes[i] = Content(t[i])'
      /\ Now'.stale <=> Stale'
      /\ Now'.stale \in BOOLEAN
      /\ Now' = [nodes |-> Now'.nodes, stale |-> Now'.stale]
  BY <1>7, NowNext
<1> DEFINE a == Tail(Now.nodes)
<1>10. /\ a \in Seq(Node) /\ Len(a) = Len(s) - 1
       /\ \A i \in 1 .. Len(s) - 1 : a[i] = Now.nodes[i + 1]
       /\ Head(Now.nodes) = Now.nodes[1]
  BY <1>3, <1>8, HeadTailProperties DEF isEmpty
<1> HIDE DEF a
<1>11. ASSUME NEW i \in 1 .. Len(s) - 1 PROVE Now'.nodes[i] = a[i]
  <2>1. i + 1 \in 1 .. Len(s) /\ ~(i < 1)
    BY <1>3
  <2> QED BY <1>7, <1>8, <1>9, <1>10, <2>1
<1>12. Now'.nodes = a
  BY <1>7, <1>9, <1>10, <1>11, SameSeq
<1>13. Now'.stale = (Now.stale /\ Len(Now.nodes) > 1)
  <2>1. CASE Len(s) = 1
    <3>1. tailer' = NULL
      BY <1>4, <1>5, <2>1
    <3> QED BY <1>8, <1>9, <2>1, <3>1 DEF Stale
  <2>2. CASE Len(s) # 1
    <3>1. tailer' = tailer
      BY <1>4, <1>5, <2>2
    <3> QED BY <1>3, <1>7, <1>8, <1>9, <2>2, <3>1
  <2> QED BY <2>1, <2>2
<1>14. Now' = takeHead(Now)
  BY <1>9, <1>12, <1>13 DEF takeHead, a
<1>15. result' = Result("takeHead", {Head(Now.nodes)})
  BY <1>3, <1>4, <1>8, <1>10
<1> QED BY <1>3, <1>4, <1>7, <1>14, <1>15, LinkedIsInv DEF takeHeadSafe

\* The first node with a key, in the pointers and in the value.
LEMMA FirstWithIs ==
    ASSUME TypeOK, NEW s, Linked(s), NEW k
    PROVE  /\ Has(k) <=> HasKey(Now, k)
           /\ HasKey(Now, k) => /\ FirstAt(Now, k) \in 1 .. Len(s)
                               /\ FirstWith(k) = s[FirstAt(Now, k)]
                               /\ Content(FirstWith(k)) = Now.nodes[FirstAt(Now, k)]
<1>1. Chain = s
  BY ChainIs
<1>2. /\ Now \in ListOf(Node) /\ Len(Now.nodes) = Len(s) /\ Len(s) \in Nat
      /\ \A i \in 1 .. Len(s) : Now.nodes[i] = Content(s[i])
  BY NowIs, LinkedFacts
<1>3. \A i \in 1 .. Len(s) : Now.nodes[i].key = heap[s[i]].key
  <2>1. \A i \in 1 .. Len(s) : Content(s[i]).key = heap[s[i]].key
    BY DEF Content
  <2> QED BY <1>2, <2>1
<1>4. Has(k) <=> HasKey(Now, k)
  BY <1>1, <1>2, <1>3 DEF Has, HasKey
<1>5. ASSUME HasKey(Now, k)
      PROVE  /\ FirstAt(Now, k) \in 1 .. Len(s)
             /\ FirstWith(k) = s[FirstAt(Now, k)]
             /\ Content(FirstWith(k)) = Now.nodes[FirstAt(Now, k)]
  <2>1. PICK f : f = FirstAt(Now, k)
    OBVIOUS
  <2>2. /\ f \in 1 .. Len(s) /\ Now.nodes[f].key = k
        /\ \A j \in 1 .. f - 1 : Now.nodes[j].key # k
    BY <1>2, <1>5, <2>1, FirstAtProperties
  <2> DEFINE IsFirst(i) == /\ heap[s[i]].key = k
                           /\ \A m \in 1 .. i - 1 : heap[s[m]].key # k
             c == CHOOSE i \in 1 .. Len(s) : IsFirst(i)
  <2>3. IsFirst(f)
    BY <1>2, <1>3, <2>2
  <2>4. \A i \in 1 .. Len(s) : IsFirst(i) => i = f
    <3> SUFFICES ASSUME NEW i \in 1 .. Len(s), IsFirst(i), i # f PROVE FALSE
      OBVIOUS
    <3>1. CASE i < f
      BY <1>2, <2>2, <2>3, <3>1
    <3>2. CASE f < i
      BY <1>2, <2>2, <2>3, <3>2
    <3> QED BY <1>2, <2>2, <3>1, <3>2
  <2>5. c = f
    <3> HIDE DEF IsFirst
    <3> QED BY <2>2, <2>3, <2>4
  <2>6. FirstWith(k) = s[c]
    BY <1>1 DEF FirstWith
  <2> QED BY <1>2, <2>1, <2>2, <2>5, <2>6
<1> QED BY <1>4, <1>5

\* delete() does what the operator delete says, and returns the node it found.
LEMMA DeleteRefines ==
    ASSUME LInv, NEW k, Delete(k), header # NULL
    PROVE  /\ LInv' /\ Now' = delete(Now, k) /\ deleteSafe(Now) /\ UNCHANGED fault
           /\ result' = IF HasKey(Now, k)
                        THEN Result("delete", {Now.nodes[FirstAt(Now, k)]})
                        ELSE Result("delete", {})
<1>1. PICK s : s = Chain
  OBVIOUS
<1>2. TypeOK /\ Linked(s)
  BY <1>1 DEF LInv
<1>3. /\ Len(s) \in Nat /\ Len(s) # 0 /\ header = s[1] /\ Deref(header) = "none"
      /\ length = Len(s) /\ 1 \in 1 .. Len(s) /\ deleteSafe(Now)
      /\ \A i, j \in 1 .. Len(s) : s[i] = s[j] => i = j
  <2>1. /\ Len(s) \in Nat /\ length = Len(s)
        /\ \A i, j \in 1 .. Len(s) : s[i] = s[j] => i = j
    BY <1>2, LinkedFacts
  <2> QED BY <1>2, <2>1, HeaderIs DEF deleteSafe
<1>4. Has(k) <=> HasKey(Now, k)
  BY <1>2, FirstWithIs
<1>5. CASE ~HasKey(Now, k)
  <2>1. /\ result' = Result("delete", {})
        /\ UNCHANGED <<heap, header, tailer, length, fault>>
    BY <1>3, <1>4, <1>5 DEF Delete
  <2>2. LInv' /\ Now' = Now
    BY <1>2, <2>1, Unmoved DEF TypeOK
  <2> QED BY <1>3, <1>5, <2>1, <2>2 DEF delete
<1>6. CASE HasKey(Now, k)
  <2>1. PICK f : f = FirstAt(Now, k)
    OBVIOUS
  <2>2. /\ f \in 1 .. Len(s) /\ FirstWith(k) = s[f]
        /\ Content(FirstWith(k)) = Now.nodes[f]
    BY <1>2, <1>6, <2>1, FirstWithIs
  <2>3. /\ heap' = IF s[f] = header THEN Beheaded(s[f]) ELSE Unlinked(s[f])
        /\ header' = IF s[f] = header THEN heap[s[f]].next ELSE header
        /\ result' = Result("delete", {Content(s[f])})
        /\ length' = length - 1
        /\ UNCHANGED <<tailer, fault>>
    BY <1>3, <1>4, <1>6, <2>2 DEF Delete
  <2>4. s[f] = header <=> f = 1
    BY <1>3, <2>2
  <2>5. /\ heap' = IF f = 1 THEN Beheaded(s[1]) ELSE Unlinked(s[f])
        /\ header' = IF f = 1 THEN heap[s[1]].next ELSE header
    BY <2>3, <2>4
  <2>6. PICK t : /\ Linked(t)' /\ Len(t) = Len(s) - 1 /\ TypeOK'
                 /\ \A i \in 1 .. Len(s) - 1 :
                       /\ t[i] = IF i < f THEN s[i] ELSE s[i + 1]
                       /\ Content(t[i])' = Content(t[i])
                 /\ tailer' = tailer => (Stale' <=> Stale \/ f = Len(s))
    BY <1>2, <2>2, <2>3, <2>5, UnlinkLinks
  <2>7. /\ Now.nodes \in Seq(Node) /\ Len(Now.nodes) = Len(s)
        /\ \A i \in 1 .. Len(s) : Now.nodes[i] = Content(s[i])
        /\ Now.stale <=> Stale
        /\ Now \in ListOf(Node)
    BY <1>2, NowIs
  <2>8. /\ Now'.nodes \in Seq(Node) /\ Len(Now'.nodes) = Len(t)
        /\ \A i \in 1 .. Len(t) : Now'.nodes[i] = Content(t[i])'
        /\ Now'.stale <=> Stale'
        /\ Now'.stale \in BOOLEAN
        /\ Now' = [nodes |-> Now'.nodes, stale |-> Now'.stale]
    BY <2>6, NowNext
  <2> DEFINE a == delete(Now, k).nodes
  <2>9. /\ a \in Seq(Node) /\ Len(a) = Len(s) - 1
        /\ \A i \in 1 .. Len(s) - 1 :
              a[i] = IF i < f THEN Now.nodes[i] ELSE Now.nodes[i + 1]
    <3>1. LET q == Now.nodes
              i == FirstAt(Now, k)
              d == delete(Now, k).nodes
          IN  /\ d \in Seq(Node) /\ Len(d) = Len(q) - 1
              /\ \A j \in 1 .. Len(q) - 1 : d[j] = IF j < i THEN q[j] ELSE q[j + 1]
      BY <1>6, <2>7, DeleteNodes
    <3> QED BY <2>1, <2>7, <3>1
  <2>10. ASSUME NEW i \in 1 .. Len(s) - 1 PROVE Now'.nodes[i] = a[i]
    <3> HIDE DEF a
    <3>1. i \in 1 .. Len(s) /\ i + 1 \in 1 .. Len(s)
      BY <1>3
    <3>2. Now'.nodes[i] = Content(t[i])
      BY <2>6, <2>8
    <3> QED BY <2>6, <2>7, <2>9, <3>1, <3>2
  <2>11. Now'.nodes = a
    <3> HIDE DEF a
    <3> QED BY <2>6, <2>8, <2>9, <2>10, SameSeq
  <2>12. Now'.stale = (Now.stale \/ f = Len(s))
    BY <2>3, <2>6, <2>7, <2>8
  <2>13. delete(Now, k) = [nodes |-> a, stale |-> Now.stale \/ f = Len(s)]
    BY <1>6, <2>1, <2>7 DEF delete
  <2>14. Now' = delete(Now, k)
    <3> HIDE DEF a
    <3> QED BY <2>8, <2>11, <2>12, <2>13
  <2> QED BY <1>3, <1>6, <2>1, <2>2, <2>3, <2>6, <2>14, LinkedIsInv
<1> QED BY <1>5, <1>6

\* The last node can be used unless delete() has freed the one tailer points to.
LEMMA TailerIs ==
    ASSUME TypeOK, NEW s, Linked(s), Len(s) # 0
    PROVE  /\ Stale => Deref(tailer) = "freed"
           /\ ~Stale => Deref(tailer) = "none" /\ tailer = s[Len(s)] /\ Len(s) \in 1 .. Len(s)
<1>1. /\ Len(s) \in Nat /\ NULL \notin Cells
      /\ tailer \in Cells /\ heap[tailer].live => Len(s) > 0 /\ tailer = s[Len(s)]
      /\ tailer = NULL => Len(s) = 0
  BY LinkedFacts
<1> QED BY <1>1 DEF Stale, Deref, TypeOK, Pointer

\* search() returns the node that the operator search names, or uses the freed
\* tailer exactly when searchSafe says that it would.
LEMMA SearchRefines ==
    ASSUME LInv, NEW k, Search(k)
    PROVE  /\ LInv' /\ Now' = Now
           /\ \/ /\ searchSafe(Now, k)
                 /\ result' = IF HasKey(Now, k)
                              THEN Result("search", {Now.nodes[search(Now, k)]})
                              ELSE Result("search", {})
                 /\ UNCHANGED fault
              \/ ~searchSafe(Now, k) /\ fault' = "freed" /\ UNCHANGED result
<1>1. PICK s : s = Chain
  OBVIOUS
<1>2. TypeOK /\ Linked(s)
  BY <1>1 DEF LInv
<1>3. /\ Now.nodes \in Seq(Node) /\ Len(Now.nodes) = Len(s) /\ Len(s) \in Nat
      /\ \A i \in 1 .. Len(s) : Now.nodes[i] = Content(s[i])
      /\ Now.stale <=> Stale
      /\ Now \in ListOf(Node)
  BY <1>2, NowIs, LinkedFacts
<1>4. \A i \in 1 .. Len(s) : Now.nodes[i].key = heap[s[i]].key
  <2>1. \A i \in 1 .. Len(s) : Content(s[i]).key = heap[s[i]].key
    BY DEF Content
  <2> QED BY <1>3, <2>1
<1>5. UNCHANGED <<heap, header, tailer, length>>
  BY DEF Search
<1>6. ASSUME fault' \in {"none", "null", "freed"} PROVE LInv' /\ Now' = Now
  BY <1>5, <1>6, Unmoved
<1>7. fault \in {"none", "null", "freed"}
  BY <1>2 DEF TypeOK
<1>8. CASE header = NULL
  <2>1. Len(s) = 0 /\ isEmpty(Now)
    BY <1>2, <1>8, HeaderIs
  <2>2. result' = Result("search", {}) /\ UNCHANGED fault
    BY <1>8 DEF Search
  <2>3. ~HasKey(Now, k) /\ searchSafe(Now, k)
    BY <1>3, <2>1 DEF HasKey, searchSafe
  <2> QED BY <1>6, <1>7, <2>2, <2>3
<1>9. CASE header # NULL
  <2>1. Len(s) # 0 /\ header = s[1] /\ 1 \in 1 .. Len(s) /\ ~isEmpty(Now)
    BY <1>2, <1>9, HeaderIs
  <2>2. Head(Now.nodes) = Now.nodes[1]
    BY <1>3, <2>1, HeadTailProperties DEF isEmpty
  <2>3. Head(Now.nodes).key = heap[header].key /\ Content(header) = Now.nodes[1]
    BY <1>3, <1>4, <2>1, <2>2
  <2>4. CASE heap[header].key = k
    <3>1. result' = Result("search", {Content(header)}) /\ UNCHANGED fault
      BY <1>9, <2>4 DEF Search
    <3>2. HasKey(Now, k) /\ searchSafe(Now, k)
      BY <1>3, <2>1, <2>2, <2>3, <2>4 DEF HasKey, searchSafe
    <3>3. FirstAt(Now, k) = 1
      <4>1. PICK f : f = FirstAt(Now, k)
        OBVIOUS
      <4>2. f \in 1 .. Len(s) /\ \A j \in 1 .. f - 1 : Now.nodes[j].key # k
        BY <1>3, <3>2, <4>1, FirstAtProperties
      <4>3. Now.nodes[1].key = k
        BY <2>2, <2>3, <2>4
      <4> QED BY <1>3, <4>1, <4>2, <4>3
    <3>4. search(Now, k) = 1
      BY <2>3, <2>4, <3>3 DEF search
    <3> QED BY <1>6, <1>7, <2>3, <3>1, <3>2, <3>4
  <2>5. CASE heap[header].key # k /\ Stale
    <3>1. Deref(tailer) = "freed"
      BY <1>2, <2>1, <2>5, TailerIs
    <3>2. fault' = "freed" /\ UNCHANGED result
      BY <1>9, <2>5, <3>1 DEF Search
    <3>3. ~searchSafe(Now, k)
      BY <1>3, <2>1, <2>3, <2>5 DEF searchSafe
    <3> QED BY <1>6, <3>2, <3>3
  <2>6. CASE heap[header].key # k /\ ~Stale
    <3>1. Deref(tailer) = "none" /\ tailer = s[Len(s)] /\ Len(s) \in 1 .. Len(s)
      BY <1>2, <2>1, <2>6, TailerIs
    <3>2. /\ result' = CASE heap[tailer].key = k -> Result("search", {Content(tailer)})
                         [] heap[tailer].key # k /\ Has(k)
                              -> Result("search", {Content(FirstWith(k))})
                         [] OTHER -> Result("search", {})
          /\ UNCHANGED fault
      BY <1>9, <2>6, <3>1 DEF Search
    <3>3. searchSafe(Now, k)
      BY <1>3, <2>6 DEF searchSafe
    <3>4. /\ Now.nodes[Len(s)].key = heap[tailer].key
          /\ Now.nodes[Len(s)] = Content(tailer)
      BY <1>3, <1>4, <3>1
    <3>5. CASE heap[tailer].key = k
      <4>1. HasKey(Now, k)
        BY <1>3, <3>1, <3>4, <3>5 DEF HasKey
      <4>2. search(Now, k) = Len(s)
        BY <1>3, <2>3, <2>6, <3>4, <3>5 DEF search
      <4>3. result' = Result("search", {Now.nodes[search(Now, k)]})
        BY <3>2, <3>4, <3>5, <4>2
      <4> QED BY <1>6, <1>7, <3>2, <3>3, <4>1, <4>3
    <3>6. CASE heap[tailer].key # k /\ Has(k)
      <4>1. HasKey(Now, k) /\ Content(FirstWith(k)) = Now.nodes[FirstAt(Now, k)]
        BY <1>2, <3>6, FirstWithIs
      <4>2. search(Now, k) = FirstAt(Now, k)
        BY <1>3, <3>4, <3>6 DEF search
      <4>3. result' = Result("search", {Now.nodes[search(Now, k)]})
        BY <3>2, <3>6, <4>1, <4>2
      <4> QED BY <1>6, <1>7, <3>2, <3>3, <4>1, <4>3
    <3>7. CASE heap[tailer].key # k /\ ~Has(k)
      <4>1. ~HasKey(Now, k)
        BY <1>2, <3>7, FirstWithIs
      <4>2. result' = Result("search", {})
        BY <3>2, <3>7
      <4> QED BY <1>6, <1>7, <3>2, <3>3, <4>1, <4>2
    <3> QED BY <3>5, <3>6, <3>7
  <2> QED BY <2>4, <2>5, <2>6
<1> QED BY <1>8, <1>9

-----------------------------------------------------------------------------
(* The theorems *)

LEMMA InitLinked ==
    ASSUME Init
    PROVE  LInv /\ Now = EmptyList
<1>1. TypeOK
  BY DEF Init, TypeOK, Pointer
<1>2. Linked(<<>>)
  <2>1. NULL \notin Cells
    BY ListAssumption
  <2> QED BY <2>1 DEF Init, Linked
<1>3. Chain = <<>>
  BY <1>2, ChainIs
<1>4. Now.nodes = <<>> /\ (Now.stale <=> FALSE)
  BY <1>1, <1>2, NowIs, EmptySeq DEF Stale, Init
<1>5. Now = [nodes |-> Now.nodes, stale |-> Now.stale] /\ Now.stale \in BOOLEAN
  BY <1>1, <1>2, NowIs DEF ListOf
<1> QED BY <1>1, <1>2, <1>3, <1>4, <1>5 DEF LInv, EmptyList

\* insertT() on a freed tailer, takeHead() and delete() on an empty list.
LEMMA StaleIs == ASSUME LInv PROVE insertTSafe(Now) <=> ~Stale
BY NowIs DEF LInv, insertTSafe

LEMMA EmptyIs == ASSUME LInv PROVE isEmpty(Now) <=> header = NULL
<1>1. PICK s : s = Chain
  OBVIOUS
<1>2. TypeOK /\ Linked(s)
  BY <1>1 DEF LInv
<1> QED BY <1>2, HeaderIs

LEMMA InsertTFaults ==
    ASSUME LInv, NEW n \in Node, InsertT(n), Stale
    PROVE  /\ fault' = "freed" /\ LInv' /\ Now' = Now
           /\ UNCHANGED result /\ ~insertTSafe(Now)
<1>1. Deref(tailer) = "freed"
  BY DEF Stale, Deref
<1>2. Undefined("freed")
  BY <1>1 DEF InsertT, Stale
<1> QED BY <1>2, Unmoved, StaleIs DEF Undefined

LEMMA EmptyFaults ==
    ASSUME LInv, header = NULL, TakeHead \/ \E k \in Keys : Delete(k)
    PROVE  fault' = "null" /\ LInv' /\ Now' = Now /\ UNCHANGED result /\ isEmpty(Now)
<1>1. Deref(header) = "null"
  BY DEF Deref
<1>2. Undefined("null")
  BY <1>1 DEF TakeHead, Delete
<1> QED BY <1>2, Unmoved, EmptyIs DEF Undefined

LEMMA InvNext == LInv /\ [Next]_vars => LInv'
<1> SUFFICES ASSUME LInv, [Next]_vars PROVE LInv'
  OBVIOUS
<1>1. ASSUME NEW n \in Node, InsertH(n) PROVE LInv'
  BY <1>1, InsertHRefines
<1>2. ASSUME NEW n \in Node, InsertT(n) PROVE LInv'
  BY <1>2, InsertTRefines, InsertTFaults
<1>3. ASSUME TakeHead PROVE LInv'
  BY <1>3, TakeHeadRefines, EmptyFaults
<1>4. ASSUME NEW k \in Keys, Delete(k) PROVE LInv'
  BY <1>4, DeleteRefines, EmptyFaults
<1>5. ASSUME NEW k \in Keys, Search(k) PROVE LInv'
  BY <1>5, SearchRefines
<1>6. CASE UNCHANGED vars
  BY <1>6, Unmoved DEF vars, LInv, TypeOK
<1> QED BY <1>1, <1>2, <1>3, <1>4, <1>5, <1>6 DEF Next, Node

\* Whatever calls are made, the cells on the list's way are linked both ways and
\* the list's fields hold what list.h says they hold.
THEOREM Invariance == Spec => []LInv
<1>1. Init => LInv
  BY InitLinked
<1> QED BY <1>1, InvNext, PTL DEF Spec

\* Every pointer of the list and of its nodes is NULL or the address of a node.
THEOREM Typing == Spec => []TypeOK
BY Invariance, PTL DEF LInv

\* The nodes met along next are the nodes met along prev, none is freed, and
\* length counts them: for lists of any length, however the calls come.
THEOREM StaysWellLinked == Spec => []WellLinked
<1>1. LInv => WellLinked
  <2> SUFFICES ASSUME LInv PROVE WellLinked
    OBVIOUS
  <2>1. PICK s : s = Chain
    OBVIOUS
  <2>2. TypeOK /\ Linked(s)
    BY <2>1 DEF LInv
  <2>3. /\ length = Len(s)
        /\ \A i \in 1 .. Len(s) :
              heap[s[i]].live /\ heap[s[i]].prev = IF i = 1 THEN NULL ELSE s[i - 1]
        /\ tailer \in Cells /\ heap[tailer].live => Len(s) > 0 /\ tailer = s[Len(s)]
        /\ tailer = NULL => Len(s) = 0
    BY <2>2, LinkedFacts
  <2> QED BY <2>1, <2>3 DEF WellLinked
<1> QED BY <1>1, Invariance, PTL

\* A call on the pointers is the call on the sequence with its name.
LEMMA StepRefines == LInv /\ [Next]_vars => [Abstract!Next]_Abstract!lvars
<1> SUFFICES ASSUME LInv, [Next]_vars PROVE [Abstract!Next]_Abstract!lvars
  OBVIOUS
<1>1. ASSUME NEW n \in Node, InsertH(n) PROVE Abstract!InsertH(n)
  <2>1. Now' = insertH(Now, n) /\ Len(Now.nodes) < MaxLen
    BY <1>1, InsertHRefines
  <2>2. /\ fault = "none" /\ "insertH" \in Calls
        /\ result' = Result("insertH", {}) /\ UNCHANGED fault
    BY <1>1 DEF InsertH, May
  <2> QED BY <2>1, <2>2
          DEF Abstract!InsertH, Abstract!May, Abstract!Result, Result,
              Abstract!insertH, insertH, Abstract!isEmpty, isEmpty, Now
<1>2. ASSUME NEW n \in Node, InsertT(n) PROVE Abstract!InsertT(n)
  <2>1. fault = "none" /\ "insertT" \in Calls /\ length < MaxLen
    BY <1>2 DEF InsertT, May
  <2>2. Len(Now.nodes) < MaxLen
    <3>1. Len(Now.nodes) = length
      BY NowIs, LinkedFacts DEF LInv
    <3> QED BY <2>1, <3>1
  <2>3. CASE ~Stale
    <3>1. /\ Now' = insertT(Now, n) /\ insertTSafe(Now)
          /\ result' = Result("insertT", {}) /\ UNCHANGED fault
      BY <1>2, <2>3, InsertTRefines
    <3> QED BY <2>1, <2>2, <3>1
            DEF Abstract!InsertT, Abstract!May, Abstract!Result, Result,
                Abstract!insertT, insertT, Abstract!insertTSafe, insertTSafe, Now
  <2>4. CASE Stale
    <3>1. /\ fault' = "freed" /\ Now' = Now
          /\ UNCHANGED result /\ ~insertTSafe(Now)
      BY <1>2, <2>4, InsertTFaults
    <3> QED BY <2>1, <2>2, <3>1
            DEF Abstract!InsertT, Abstract!May, Abstract!Undefined,
                Abstract!insertTSafe, insertTSafe, Now
  <2> QED BY <2>3, <2>4
<1>3. ASSUME TakeHead PROVE Abstract!TakeHead
  <2>1. fault = "none" /\ "takeHead" \in Calls
    BY <1>3 DEF TakeHead, May
  <2>2. CASE header # NULL
    <3>1. /\ Now' = takeHead(Now) /\ takeHeadSafe(Now)
          /\ result' = Result("takeHead", {Head(Now.nodes)}) /\ UNCHANGED fault
      BY <1>3, <2>2, TakeHeadRefines
    <3> QED BY <2>1, <3>1
            DEF Abstract!TakeHead, Abstract!May, Abstract!Result, Result,
                Abstract!takeHead, takeHead, Abstract!takeHeadSafe, takeHeadSafe,
                Abstract!isEmpty, isEmpty, Now
  <2>3. CASE header = NULL
    <3>1. fault' = "null" /\ Now' = Now /\ UNCHANGED result /\ isEmpty(Now)
      BY <1>3, <2>3, EmptyFaults
    <3> QED BY <2>1, <3>1
            DEF Abstract!TakeHead, Abstract!May, Abstract!Undefined,
                Abstract!takeHeadSafe, Abstract!isEmpty, isEmpty, Now
  <2> QED BY <2>2, <2>3
<1>4. ASSUME NEW k \in Keys, Delete(k) PROVE Abstract!Delete(k)
  <2>1. fault = "none" /\ "delete" \in Calls
    BY <1>4 DEF Delete, May
  <2>2. CASE header # NULL
    <3>1. /\ Now' = delete(Now, k) /\ deleteSafe(Now) /\ UNCHANGED fault
          /\ result' = IF HasKey(Now, k)
                       THEN Result("delete", {Now.nodes[FirstAt(Now, k)]})
                       ELSE Result("delete", {})
      BY <1>4, <2>2, DeleteRefines
    <3> QED BY <2>1, <3>1
            DEF Abstract!Delete, Abstract!May, Abstract!Result, Result,
                Abstract!delete, delete, Abstract!deleteSafe, deleteSafe,
                Abstract!HasKey, HasKey, Abstract!FirstAt, FirstAt,
                Abstract!RemoveAt, RemoveAt, Abstract!isEmpty, isEmpty, Now
  <2>3. CASE header = NULL
    <3>1. fault' = "null" /\ Now' = Now /\ UNCHANGED result /\ isEmpty(Now)
      BY <1>4, <2>3, EmptyFaults
    <3> QED BY <2>1, <3>1
            DEF Abstract!Delete, Abstract!May, Abstract!Undefined,
                Abstract!deleteSafe, Abstract!isEmpty, isEmpty, Now
  <2> QED BY <2>2, <2>3
<1>5. ASSUME NEW k \in Keys, Search(k) PROVE Abstract!Search(k)
  <2>1. fault = "none" /\ "search" \in Calls
    BY <1>5 DEF Search, May
  <2>2. /\ Now' = Now
        /\ \/ /\ searchSafe(Now, k)
              /\ result' = IF HasKey(Now, k)
                           THEN Result("search", {Now.nodes[search(Now, k)]})
                           ELSE Result("search", {})
              /\ UNCHANGED fault
           \/ ~searchSafe(Now, k) /\ fault' = "freed" /\ UNCHANGED result
    BY <1>5, SearchRefines
  <2> QED BY <2>1, <2>2
          DEF Abstract!Search, Abstract!May, Abstract!Result, Result, Abstract!Undefined,
              Abstract!search, search, Abstract!searchSafe, searchSafe,
              Abstract!HasKey, HasKey, Abstract!FirstAt, FirstAt,
              Abstract!isEmpty, isEmpty, Now
<1>6. CASE UNCHANGED vars
  <2>1. Now' = Now
    BY <1>6, Unmoved DEF vars, LInv, TypeOK
  <2> QED BY <1>6, <2>1 DEF vars, Abstract!lvars, Now
<1> QED BY <1>1, <1>2, <1>3, <1>4, <1>5, <1>6
        DEF Next, Abstract!Next, Abstract!Node, Node

\* list.c implements the operators of ListOps, which HashTable and the modules
\* above it use in its place: same results, same nodes left, and undefined
\* behaviour exactly where the ...Safe predicates say so.
THEOREM ListImplemented == Spec => ImplementsList
<1>1. Init => Abstract!Init
  <2> SUFFICES ASSUME Init PROVE Abstract!Init
    OBVIOUS
  <2>1. Now = EmptyList
    BY InitLinked
  <2> QED BY <2>1
          DEF Init, Abstract!Init, Abstract!EmptyList, EmptyList, Abstract!Result,
              Result, Now
<1> QED BY <1>1, StepRefines, Invariance, PTL DEF Spec, ImplementsList, Abstract!Spec
=============================================================================
