---------------------------- MODULE ListProofs -----------------------------
(***************************************************************************)
(* What the operators of ListOps return, for lists of any length: each     *)
(* keeps the list well formed, and none invents a node.                    *)
(***************************************************************************)
EXTENDS ListOps, SequenceTheorems, WellFoundedInduction, TLAPS

\* What stands for induction on the naturals.
LEMMA Smallest ==
    ASSUME NEW T, T \subseteq Nat, T # {}
    PROVE  \E n \in T : \A m \in T : n <= m
<1>1. PICK n \in T : \A m \in T : ~(<<m, n>> \in OpToRel(<, Nat))
  BY NatLessThanWellFounded, WFMin
<1>2. \A m \in T : ~(m < n)
  BY <1>1 DEF OpToRel
<1> QED BY <1>2

\* The nodes of a list.
NodesOf(l) == {l.nodes[i] : i \in 1 .. Len(l.nodes)}

\* If some node has the key there is a first one, and FirstAt is its position.
LEMMA FirstAtProperties ==
    ASSUME NEW N, NEW l \in ListOf(N), NEW k, HasKey(l, k)
    PROVE  /\ FirstAt(l, k) \in 1 .. Len(l.nodes)
           /\ l.nodes[FirstAt(l, k)].key = k
           /\ \A j \in 1 .. FirstAt(l, k) - 1 : l.nodes[j].key # k
<1> DEFINE T == {i \in 1 .. Len(l.nodes) : l.nodes[i].key = k}
<1>1. Len(l.nodes) \in Nat
  BY LenProperties DEF ListOf
<1>2. T \subseteq Nat /\ T # {}
  BY <1>1 DEF HasKey
<1>3. PICK i \in T : \A j \in T : ~ (<<j, i>> \in OpToRel(<, Nat))
  <2> HIDE DEF T
  <2> QED BY <1>2, WFMin, NatLessThanWellFounded
<1>4. \A j \in T : ~ (j < i)
  BY <1>2, <1>3 DEF OpToRel
<1>5. \A j \in 1 .. i - 1 : l.nodes[j].key # k
  BY <1>1, <1>4
<1>6. \E m \in 1 .. Len(l.nodes) :
         l.nodes[m].key = k /\ \A j \in 1 .. m - 1 : l.nodes[j].key # k
  BY <1>3, <1>5
<1> QED BY <1>6 DEF FirstAt

\* insertH() puts the node first.
LEMMA InsertHNodes ==
    ASSUME NEW N, NEW l \in ListOf(N), NEW n \in N
    PROVE  /\ Len(l.nodes) \in Nat
           /\ insertH(l, n).nodes \in Seq(N)
           /\ Len(insertH(l, n).nodes) = 1 + Len(l.nodes)
           /\ \A i \in 1 .. 1 + Len(l.nodes) :
                 insertH(l, n).nodes[i] = IF i <= 1 THEN n ELSE l.nodes[i - 1]
<1>1. l.nodes \in Seq(N) /\ Len(l.nodes) \in Nat
  BY LenProperties DEF ListOf
<1>2. <<n>> \in Seq(N) /\ Len(<<n>>) = 1 /\ <<n>>[1] = n
  OBVIOUS
<1> DEFINE s == <<n>> \o l.nodes
<1>3. /\ s \in Seq(N) /\ Len(s) = 1 + Len(l.nodes)
      /\ \A i \in 1 .. 1 + Len(l.nodes) :
            s[i] = IF i <= 1 THEN n ELSE l.nodes[i - 1]
  BY <1>1, <1>2, ConcatProperties
<1>4. insertH(l, n).nodes = s
  BY DEF insertH
<1> HIDE DEF s
<1> QED BY <1>1, <1>3, <1>4

\* insertH() adds one node.
LEMMA InsertHProperties ==
    ASSUME NEW N, NEW l \in ListOf(N), NEW n \in N
    PROVE  /\ insertH(l, n) \in ListOf(N)
           /\ NodesOf(insertH(l, n)) = NodesOf(l) \cup {n}
<1> DEFINE s == insertH(l, n).nodes
<1>1. /\ s \in Seq(N) /\ Len(s) = 1 + Len(l.nodes) /\ Len(l.nodes) \in Nat
      /\ \A i \in 1 .. 1 + Len(l.nodes) :
            s[i] = IF i <= 1 THEN n ELSE l.nodes[i - 1]
  BY InsertHNodes
<1>2. /\ l.stale \in BOOLEAN
      /\ insertH(l, n) = [nodes |-> s, stale |-> l.stale /\ ~isEmpty(l)]
  BY DEF ListOf, insertH
<1> HIDE DEF s
<1>3. {s[i] : i \in 1 .. Len(s)} = NodesOf(l) \cup {n}
  <2>1. ASSUME NEW i \in 1 .. Len(s) PROVE s[i] \in NodesOf(l) \cup {n}
    <3>1. CASE i <= 1
      BY <3>1, <1>1
    <3>2. CASE ~(i <= 1)
      BY <3>2, <1>1 DEF NodesOf
    <3> QED BY <3>1, <3>2
  <2>2. ASSUME NEW x \in NodesOf(l) \cup {n}
        PROVE  \E i \in 1 .. Len(s) : s[i] = x
    <3>1. CASE x = n
      <4>1. 1 \in 1 .. Len(s) /\ s[1] = n
        BY <1>1
      <4> QED BY <3>1, <4>1
    <3>2. CASE x \in NodesOf(l)
      <4>1. PICK j \in 1 .. Len(l.nodes) : x = l.nodes[j]
        BY <3>2 DEF NodesOf
      <4>2. j + 1 \in 1 .. Len(s) /\ s[j + 1] = l.nodes[j]
        BY <1>1
      <4> QED BY <4>1, <4>2
    <3> QED BY <3>1, <3>2
  <2> QED BY <2>1, <2>2
<1>4. NodesOf(insertH(l, n)) = NodesOf(l) \cup {n}
  BY <1>3 DEF NodesOf, s
<1>5. insertH(l, n) \in ListOf(N)
  BY <1>1, <1>2 DEF ListOf
<1> QED BY <1>4, <1>5

\* insertT() adds one node.
LEMMA InsertTProperties ==
    ASSUME NEW N, NEW l \in ListOf(N), NEW n \in N
    PROVE  insertT(l, n) \in ListOf(N)
BY AppendProperties DEF insertT, ListOf

\* takeHead() of a list that has nodes gives one of them.
LEMMA TakeHeadProperties ==
    ASSUME NEW N, NEW l \in ListOf(N), takeHeadSafe(l)
    PROVE  takeHead(l) \in ListOf(N) /\ Head(l.nodes) \in N
BY HeadTailProperties DEF takeHead, takeHeadSafe, isEmpty, ListOf

\* RemoveAt of SequencesExt leaves the element i out and keeps the others in order.
LEMMA RemoveAtProperties ==
    ASSUME NEW N, NEW s \in Seq(N), NEW i \in 1 .. Len(s)
    PROVE  /\ RemoveAt(s, i) \in Seq(N)
           /\ Len(RemoveAt(s, i)) = Len(s) - 1
           /\ \A j \in 1 .. Len(s) - 1 :
                 RemoveAt(s, i)[j] = IF j < i THEN s[j] ELSE s[j + 1]
<1> DEFINE a == SubSeq(s, 1, i - 1)
           b == SubSeq(s, i + 1, Len(s))
<1>1. Len(s) \in Nat /\ \A j \in 1 .. Len(s) : s[j] \in N
  BY LenProperties, ElementOfSeq
<1>2. /\ a \in Seq(N) /\ Len(a) = i - 1
      /\ \A j \in 1 .. i - 1 : a[j] = s[j]
  <2>1. \A j \in 1 .. i - 1 : s[j] \in N
    BY <1>1
  <2>2. /\ a \in Seq(N) /\ Len(a) = IF 1 <= i - 1 THEN i - 1 - 1 + 1 ELSE 0
        /\ \A j \in 1 .. i - 1 - 1 + 1 : a[j] = s[1 + j - 1]
    BY <1>1, <2>1, SubSeqProperties
  <2> HIDE DEF a
  <2> QED BY <1>1, <2>2
<1>3. /\ b \in Seq(N) /\ Len(b) = Len(s) - i
      /\ \A j \in 1 .. Len(s) - i : b[j] = s[i + j]
  <2>1. \A j \in i + 1 .. Len(s) : s[j] \in N
    BY <1>1
  <2>2. /\ b \in Seq(N)
        /\ Len(b) = IF i + 1 <= Len(s) THEN Len(s) - (i + 1) + 1 ELSE 0
        /\ \A j \in 1 .. Len(s) - (i + 1) + 1 : b[j] = s[i + 1 + j - 1]
    BY <1>1, <2>1, SubSeqProperties
  <2> HIDE DEF b
  <2> QED BY <1>1, <2>2
<1>4. RemoveAt(s, i) = a \o b
  BY DEF RemoveAt
<1> HIDE DEF a, b
<1>5. /\ a \o b \in Seq(N) /\ Len(a \o b) = Len(a) + Len(b)
      /\ \A j \in 1 .. Len(a) + Len(b) :
            (a \o b)[j] = IF j <= Len(a) THEN a[j] ELSE b[j - Len(a)]
  BY <1>2, <1>3, ConcatProperties
<1>6. ASSUME NEW j \in 1 .. Len(s) - 1
      PROVE  (a \o b)[j] = IF j < i THEN s[j] ELSE s[j + 1]
  <2>1. CASE j < i
    BY <1>1, <1>2, <1>3, <1>5, <2>1
  <2>2. CASE ~(j < i)
    <3>1. j - Len(a) \in 1 .. Len(s) - i /\ i + (j - Len(a)) = j + 1
      BY <1>1, <1>2, <2>2
    <3>2. (a \o b)[j] = b[j - Len(a)]
      BY <1>1, <1>2, <1>3, <1>5, <2>2
    <3> QED BY <1>3, <2>2, <3>1, <3>2
  <2> QED BY <2>1, <2>2
<1> QED BY <1>1, <1>2, <1>3, <1>4, <1>5, <1>6

\* delete() of a key that is there leaves the first node with it out.
LEMMA DeleteNodes ==
    ASSUME NEW N, NEW l \in ListOf(N), NEW k, HasKey(l, k)
    PROVE  LET s == l.nodes
               i == FirstAt(l, k)
               d == delete(l, k).nodes
           IN  /\ Len(s) \in Nat /\ i \in 1 .. Len(s)
               /\ d \in Seq(N) /\ Len(d) = Len(s) - 1
               /\ \A j \in 1 .. Len(s) - 1 : d[j] = IF j < i THEN s[j] ELSE s[j + 1]
<1>1. l.nodes \in Seq(N) /\ Len(l.nodes) \in Nat
  BY LenProperties DEF ListOf
<1>2. FirstAt(l, k) \in 1 .. Len(l.nodes)
  BY FirstAtProperties
<1>3. delete(l, k).nodes = RemoveAt(l.nodes, FirstAt(l, k))
  BY DEF delete
<1> QED BY <1>1, <1>2, <1>3, RemoveAtProperties

\* delete() keeps only nodes that were there.
LEMMA DeleteProperties ==
    ASSUME NEW N, NEW l \in ListOf(N), NEW k
    PROVE  /\ delete(l, k) \in ListOf(N)
           /\ NodesOf(delete(l, k)) \subseteq NodesOf(l)
<1>1. CASE ~HasKey(l, k)
  BY <1>1 DEF delete
<1>2. CASE HasKey(l, k)
  <2> DEFINE s == l.nodes
             i == FirstAt(l, k)
             d == delete(l, k).nodes
             st == delete(l, k).stale
  <2>1. /\ Len(s) \in Nat /\ i \in 1 .. Len(s)
        /\ d \in Seq(N) /\ Len(d) = Len(s) - 1
        /\ \A j \in 1 .. Len(s) - 1 : d[j] = IF j < i THEN s[j] ELSE s[j + 1]
    BY <1>2, DeleteNodes
  <2>2. delete(l, k) = [nodes |-> d, stale |-> st] /\ st \in BOOLEAN
    BY <1>2 DEF delete, ListOf
  <2> HIDE DEF s, i, d, st
  <2>3. ASSUME NEW j \in 1 .. Len(d) PROVE \E m \in 1 .. Len(s) : d[j] = s[m]
    BY <2>1
  <2>4. NodesOf(delete(l, k)) \subseteq NodesOf(l)
    BY <2>3 DEF NodesOf, s, d
  <2>5. delete(l, k) \in ListOf(N)
    BY <2>1, <2>2 DEF ListOf
  <2> QED BY <2>4, <2>5
<1> QED BY <1>1, <1>2

\* delete() keeps the nodes with other keys.
LEMMA DeleteKeepsOthers ==
    ASSUME NEW N, NEW l \in ListOf(N), NEW k, NEW n \in NodesOf(l), n.key # k
    PROVE  n \in NodesOf(delete(l, k))
<1>1. CASE ~HasKey(l, k)
  BY <1>1 DEF delete
<1>2. CASE HasKey(l, k)
  <2> DEFINE s == l.nodes
             i == FirstAt(l, k)
             d == delete(l, k).nodes
  <2>1. /\ Len(s) \in Nat /\ i \in 1 .. Len(s) /\ Len(d) = Len(s) - 1
        /\ \A j \in 1 .. Len(s) - 1 : d[j] = IF j < i THEN s[j] ELSE s[j + 1]
    BY <1>2, DeleteNodes
  <2>2. s[i].key = k
    BY <1>2, FirstAtProperties
  <2>3. PICK m \in 1 .. Len(s) : s[m] = n
    BY DEF NodesOf
  <2> HIDE DEF s, i, d
  <2>4. m # i
    BY <2>2, <2>3
  <2>5. PICK j \in 1 .. Len(d) : d[j] = n
    <3>1. CASE m < i
      <4>1. m \in 1 .. Len(s) - 1 /\ d[m] = n
        BY <2>1, <2>3, <3>1
      <4> QED BY <2>1, <4>1
    <3>2. CASE ~(m < i)
      <4>1. m - 1 \in 1 .. Len(s) - 1 /\ ~(m - 1 < i) /\ m - 1 + 1 = m
        BY <2>1, <2>3, <2>4, <3>2
      <4>2. d[m - 1] = n
        BY <2>1, <2>3, <4>1
      <4> QED BY <2>1, <4>1, <4>2
    <3> QED BY <3>1, <3>2
  <2> QED BY <2>5 DEF NodesOf, d
<1> QED BY <1>1, <1>2

-----------------------------------------------------------------------------
(* Lists without two nodes of one key *)

DistinctKeys(l) == \A i, j \in 1 .. Len(l.nodes) :
    i # j => l.nodes[i].key # l.nodes[j].key

\* A node with a new key may be inserted.
LEMMA InsertHKeepsDistinct ==
    ASSUME NEW N, NEW l \in ListOf(N), NEW n \in N, DistinctKeys(l), ~HasKey(l, n.key)
    PROVE  DistinctKeys(insertH(l, n))
<1> DEFINE s == l.nodes
           d == insertH(l, n).nodes
<1>1. /\ Len(s) \in Nat /\ Len(d) = 1 + Len(s)
      /\ \A i \in 1 .. 1 + Len(s) : d[i] = IF i <= 1 THEN n ELSE s[i - 1]
  BY InsertHNodes
<1>2. /\ \A i, j \in 1 .. Len(s) : i # j => s[i].key # s[j].key
      /\ \A i \in 1 .. Len(s) : s[i].key # n.key
  BY DEF DistinctKeys, HasKey
<1> HIDE DEF s, d
<1>3. ASSUME NEW i \in 1 .. Len(d), NEW j \in 1 .. Len(d), i # j
      PROVE  d[i].key # d[j].key
  <2>1. CASE i <= 1
    <3>1. d[i] = n /\ d[j] = s[j - 1] /\ j - 1 \in 1 .. Len(s)
      BY <1>1, <1>3, <2>1
    <3> QED BY <1>2, <3>1
  <2>2. CASE j <= 1
    <3>1. d[j] = n /\ d[i] = s[i - 1] /\ i - 1 \in 1 .. Len(s)
      BY <1>1, <1>3, <2>2
    <3> QED BY <1>2, <3>1
  <2>3. CASE ~(i <= 1) /\ ~(j <= 1)
    <3>1. /\ d[i] = s[i - 1] /\ d[j] = s[j - 1]
          /\ i - 1 \in 1 .. Len(s) /\ j - 1 \in 1 .. Len(s) /\ i - 1 # j - 1
      BY <1>1, <1>3, <2>3
    <3> QED BY <1>2, <3>1
  <2> QED BY <2>1, <2>2, <2>3
<1> QED BY <1>3 DEF DistinctKeys, d

\* A key is gone when delete() has removed its one node.
LEMMA DeleteDistinct ==
    ASSUME NEW N, NEW l \in ListOf(N), NEW k, DistinctKeys(l)
    PROVE  DistinctKeys(delete(l, k)) /\ ~HasKey(delete(l, k), k)
<1>1. CASE ~HasKey(l, k)
  BY <1>1 DEF delete
<1>2. CASE HasKey(l, k)
  <2> DEFINE s == l.nodes
             i == FirstAt(l, k)
             d == delete(l, k).nodes
  <2>1. /\ Len(s) \in Nat /\ i \in 1 .. Len(s) /\ Len(d) = Len(s) - 1
        /\ \A j \in 1 .. Len(s) - 1 : d[j] = IF j < i THEN s[j] ELSE s[j + 1]
    BY <1>2, DeleteNodes
  <2>2. s[i].key = k
    BY <1>2, FirstAtProperties
  <2>3. \A m, j \in 1 .. Len(s) : m # j => s[m].key # s[j].key
    BY DEF DistinctKeys
  <2> DEFINE at(j) == IF j < i THEN j ELSE j + 1
  <2> HIDE DEF s, i, d
  <2>4. \A j \in 1 .. Len(d) : at(j) \in 1 .. Len(s) /\ at(j) # i /\ d[j] = s[at(j)]
    BY <2>1
  <2>5. \A m, j \in 1 .. Len(d) : m # j => at(m) # at(j)
    BY <2>1
  <2> HIDE DEF at
  <2>6. \A m, j \in 1 .. Len(d) : m # j => d[m].key # d[j].key
    BY <2>3, <2>4, <2>5
  <2>7. \A j \in 1 .. Len(d) : d[j].key # k
    BY <2>1, <2>2, <2>3, <2>4
  <2> QED BY <2>6, <2>7 DEF DistinctKeys, HasKey, d
<1> QED BY <1>1, <1>2

\* search() of a key that is there gives a node with that key.
LEMMA SearchProperties ==
    ASSUME NEW N, NEW l \in ListOf(N), NEW k, HasKey(l, k)
    PROVE  search(l, k) \in 1 .. Len(l.nodes) /\ l.nodes[search(l, k)].key = k
<1>1. Len(l.nodes) \in Nat
  BY LenProperties DEF ListOf
<1>2. Len(l.nodes) \in 1 .. Len(l.nodes)
  BY <1>1 DEF HasKey
<1> QED BY <1>2, FirstAtProperties DEF search
=============================================================================
