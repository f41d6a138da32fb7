---------------------------- MODULE SingleProofs ----------------------------
(***************************************************************************)
(* Proofs about Workers for a server with one thread (sc.nwork = 1): what  *)
(* the table holds, how many bytes, and that it serves each request as     *)
(* Store says.                                                             *)
(***************************************************************************)
EXTENDS WorkersProofs, WorkersStore

\* sc.nwork is 1.
OneThread == Workers # {} /\ \A v, w \in Workers : v = w

\* A node is in the bucket of its key, and carries a File that is not freed and
\* has this key as its path.
Keyed == \A s \in Slots : \A n \in NodesOf(Hash.buckets[s]) :
    /\ funchash[n.key] = s
    /\ files[n.cont].alive /\ files[n.cont].path = n.key

\* The test of O_CREATE still holds when the file is inserted.
Absent == \A w \in Workers :
    th[w].pc \in {"create", "createFull"} => ~contain(Hash, Path(w))

\* The file that a REMOVE is about to free is not in the table any more.
Unlinked == \A w \in Workers :
    th[w].pc = "removeFifo" => th[w].f \notin Stored(Hash)

SInv == DistinctPaths(Hash) /\ Keyed /\ Absent /\ Unlinked

\* The thread is at a label that says nothing of the table.
Elsewhere(w) == th'[w].pc \notin {"create", "createFull", "removeFifo"}

\* With one thread, the table alone matters at the labels that say nothing of it.
LEMMA TableStep ==
    ASSUME OneThread, NEW w \in Workers, Elsewhere(w), DistinctPaths(Hash'), Keyed'
    PROVE  SInv'
BY DEF OneThread, Elsewhere, SInv, Absent, Unlinked

\* A node of the table carries a stored file.
LEMMA NodeIsStored ==
    ASSUME NEW h, NEW s \in Slots, NEW n \in NodesOf(h.buckets[s])
    PROVE  n.cont \in Stored(h)
BY FilesInNodes DEF Stored

\* A step that leaves the table alone, and the paths of the stored files.
LEMMA SameTable ==
    ASSUME OneThread, IInv, SInv, NEW w \in Workers, Elsewhere(w), UNCHANGED Hash,
           \A a \in Stored(Hash) :
               files'[a].path = files[a].path /\ files'[a].alive = files[a].alive
    PROVE  SInv'
<1>1. Keyed'
  BY NodeIsStored DEF SInv, Keyed
<1> QED BY <1>1, TableStep DEF SInv

\* After h_delete() of its path a live file is not in the table.
LEMMA DeletedIsGone ==
    ASSUME IInv, SInv, NEW a \in Files, files[a].alive,
           Hash' = h_delete(Hash, files[a].path)
    PROVE  /\ DistinctPaths(Hash') /\ a \notin Stored(Hash')
           /\ \A s \in Slots : NodesOf(Hash'.buckets[s]) \subseteq NodesOf(Hash.buckets[s])
<1>1. files[a].path \in Paths /\ Hash \in Tables
  BY DEF IInv, Named, TypeOK
<1>2. PICK h : h = Hash'
  OBVIOUS
<1>3. /\ \A s \in Slots : NodesOf(h.buckets[s]) \subseteq NodesOf(Hash.buckets[s])
      /\ DistinctPaths(h) /\ ~contain(h, files[a].path)
  BY <1>1, <1>2, HdeleteNodes DEF SInv
<1>4. ASSUME a \in Stored(h) PROVE FALSE
  <2>1. PICK s \in Slots : a \in FilesIn(h.buckets[s])
    BY <1>4 DEF Stored
  <2>2. PICK n \in NodesOf(h.buckets[s]) : n.cont = a
    BY <2>1, FilesInNodes
  <2>3. funchash[n.key] = s /\ n.key = files[a].path
    BY <1>3, <2>2 DEF SInv, Keyed
  <2> QED BY <1>3, <2>2, <2>3, ContainsNode DEF Bucket
<1> QED BY <1>2, <1>3, <1>4

\* Undefined behaviour leaves the table as it is.
LEMMA HaltTable == ASSUME SInv, NEW k, Undefined(k) PROVE SInv'
BY DEF SInv, Keyed, Absent, Unlinked, Undefined, Path

\* The types used most.
LEMMA ThreadsType == ASSUME IInv PROVE th \in [Workers -> Thread] /\ files \in [Files -> File]
BY DEF IInv, TypeOK

\* The ways in which an action sets the label of its thread.
LEMMA GoesElsewhere ==
    ASSUME IInv, NEW w \in Workers, NEW l,
           l \notin {"create", "createFull", "removeFifo"},
           \/ Goto(w, l)
           \/ \E a : GotoWith(w, l, a)
           \/ \E s : Send(w, s, l)
           \/ \E t : th' = [th EXCEPT ![w] = t] /\ t.pc = l
    PROVE  Elsewhere(w)
<1>1. th \in [Workers -> Thread] /\ th[w] \in Thread
  BY ThreadsType
<1>2. CASE Goto(w, l)
  BY <1>1, <1>2 DEF Goto, Thread, Elsewhere
<1>3. ASSUME NEW a, GotoWith(w, l, a) PROVE Elsewhere(w)
  <2>1. th'[w] = [th[w] EXCEPT !.pc = l, !.f = a]
    BY <1>1, <1>3 DEF GotoWith
  <2> QED BY <1>1, <2>1 DEF Thread, Elsewhere
<1>4. ASSUME NEW s, Send(w, s, l) PROVE Elsewhere(w)
  <2>1. th'[w] = [th[w] EXCEPT !.pc = l, !.answer = Append(@, s)]
    BY <1>1, <1>4 DEF Send
  <2> QED BY <1>1, <2>1 DEF Thread, Elsewhere
<1>5. ASSUME NEW t, th' = [th EXCEPT ![w] = t], t.pc = l PROVE Elsewhere(w)
  BY <1>1, <1>5 DEF Elsewhere
<1> QED BY <1>2, <1>3, <1>4, <1>5

\* All actions but those of O_CREATE and REMOVE that look at or change the table.
LEMMA OtherLabels ==
    ASSUME IInv, NEW w \in Workers, ~\E k : Undefined(k),
           \/ ExpelHead(w) \/ Lookup(w) \/ AccountAppend(w) \/ FileIsGone(w)
           \/ Read(w) \/ AccountRead(w) \/ Account(w) \/ CheckSpace(w) \/ Enqueue(w)
           \/ EvictBegin(w) \/ EvictTake(w) \/ EvictAccount(w) \/ EvictEnough(w)
           \/ EvictEnd(w) \/ RemoveCheck(w) \/ RemoveBegin(w) \/ ReadN(w)
           \/ CloseBegin(w) \/ CloseWalk(w) \/ CloseEnd(w) \/ Finish(w)
    PROVE  Elsewhere(w)
<1>1. th[w] \in Thread
  BY ThreadsType
<1>2. ASSUME NEW t, th' = [th EXCEPT ![w] = t],
             t.pc \notin {"create", "createFull", "removeFifo"}
      PROVE  Elsewhere(w)
  BY <1>2, GoesElsewhere
<1>3. CASE Read(w) \/ AccountAppend(w) \/ Account(w) \/ CheckSpace(w) \/ Enqueue(w)
           \/ EvictBegin(w) \/ EvictEnough(w) \/ EvictEnd(w)
  <2>1. \E l \in Labels \ {"create", "createFull", "removeFifo"} :
           Goto(w, l) \/ \E s : Send(w, s, l)
    <3>1. CASE Read(w) \/ AccountAppend(w) \/ Account(w)
      BY <3>1 DEF Read, AccountAppend, Account, Answer, Labels
    <3>2. CASE CheckSpace(w) \/ Enqueue(w) \/ EvictBegin(w)
      BY <3>2 DEF CheckSpace, Enqueue, EvictBegin, Answer, Labels
    <3>3. CASE EvictEnough(w) \/ EvictEnd(w)
      BY <3>3 DEF EvictEnough, EvictEnd, Labels
    <3> QED BY <1>3, <3>1, <3>2, <3>3
  <2> QED BY <2>1, GoesElsewhere
<1>4. CASE RemoveCheck(w) \/ ReadN(w) \/ CloseBegin(w)
  <2>1. \E l \in Labels \ {"create", "createFull", "removeFifo"} :
           Goto(w, l) \/ \E s : Send(w, s, l)
    <3>1. CASE RemoveCheck(w)
      BY <3>1 DEF RemoveCheck, Answer, Labels
    <3>2. CASE ReadN(w)
      BY <3>2 DEF ReadN, Answer, Labels
    <3>3. CASE CloseBegin(w)
      BY <3>3 DEF CloseBegin, Labels
    <3> QED BY <1>4, <3>1, <3>2, <3>3
  <2> QED BY <2>1, GoesElsewhere
<1>5. CASE Lookup(w)
  <2>1. CASE \/ GotoWith(w, "file", getvalue(Hash, Path(w)))
             \/ Answer(w, "NOTPRESENT")
    <3>1. \E l \in {"file", "finish"} :
             (\E a : GotoWith(w, l, a)) \/ \E s : Send(w, s, l)
      BY <2>1 DEF Answer
    <3> QED BY <3>1, GoesElsewhere
  <2>2. CASE th' = [th EXCEPT ![w].pc = "accountAppend",
                              ![w].f = getvalue(Hash, Path(w)),
                              ![w].tmp = actual_size]
    <3> DEFINE t == [th[w] EXCEPT !.pc = "accountAppend",
                                  !.f = getvalue(Hash, Path(w)), !.tmp = actual_size]
    <3>1. th' = [th EXCEPT ![w] = t] /\ t.pc = "accountAppend"
      BY <1>1, <2>2 DEF Thread
    <3> HIDE DEF t
    <3> QED BY <1>2, <3>1
  <2> QED BY <1>5, <2>1, <2>2 DEF Lookup
<1>6. CASE ExpelHead(w)
  <2> DEFINE t == [th[w] EXCEPT !.pc = "unlinkExpelled", !.f = Head(fifo.nodes).cont]
  <2>1. th' = [th EXCEPT ![w] = t] /\ t.pc = "unlinkExpelled"
    BY <1>1, <1>6 DEF ExpelHead, Thread
  <2> HIDE DEF t
  <2> QED BY <1>2, <2>1
<1>7. CASE AccountRead(w)
  <2> DEFINE t == [th[w] EXCEPT !.pc = "account", !.tmp = actual_size]
  <2>1. th' = [th EXCEPT ![w] = t] /\ t.pc = "account"
    BY <1>1, <1>7 DEF AccountRead, Thread
  <2> HIDE DEF t
  <2> QED BY <1>2, <2>1
<1>8. CASE EvictTake(w)
  <2> DEFINE t == [th[w] EXCEPT !.pc = "evictAccount",
                                !.victim = Head(fifo.nodes).cont, !.tmp = actual_size]
  <2>1. th' = [th EXCEPT ![w] = t] /\ t.pc = "evictAccount"
    BY <1>1, <1>8 DEF EvictTake, Thread
  <2> HIDE DEF t
  <2> QED BY <1>2, <2>1
<1>9. CASE EvictAccount(w)
  <2> DEFINE t == [th[w] EXCEPT !.pc = "evict", !.victim = NONE,
                                !.ftosend = Append(@, th[w].victim)]
  <2>1. th' = [th EXCEPT ![w] = t] /\ t.pc = "evict"
    BY <1>1, <1>9 DEF EvictAccount, Thread
  <2> HIDE DEF t
  <2> QED BY <1>2, <2>1
<1>10. CASE RemoveBegin(w)
  <2> DEFINE t == [th[w] EXCEPT !.pc = "removeUnlink", !.tmp = actual_size]
  <2>1. th' = [th EXCEPT ![w] = t] /\ t.pc = "removeUnlink"
    BY <1>1, <1>10 DEF RemoveBegin, Thread
  <2> HIDE DEF t
  <2> QED BY <1>2, <2>1
<1>11. CASE CloseWalk(w)
  <2> DEFINE t == [th[w] EXCEPT !.pc = "closing", !.todo = Stored(Hash)]
  <2>1. th' = [th EXCEPT ![w] = t] /\ t.pc = "closing"
    BY <1>1, <1>11 DEF CloseWalk, Thread
  <2> HIDE DEF t
  <2> QED BY <1>2, <2>1
<1>12. CASE CloseEnd(w) \/ Finish(w)
  BY <1>2, <1>12, IdleFacts DEF CloseEnd, Finish
<1>13. ~FileIsGone(w)
  BY DEF FileIsGone
<1> QED BY <1>3, <1>4, <1>5, <1>6, <1>7, <1>8, <1>9, <1>10, <1>11, <1>12, <1>13

\* Steps that change neither the table nor a File.
LEMMA OtherTable ==
    ASSUME OneThread, IInv, SInv, NEW w \in Workers,
           \/ ExpelHead(w) \/ Lookup(w) \/ AccountAppend(w) \/ FileIsGone(w)
           \/ Read(w) \/ AccountRead(w) \/ Account(w) \/ CheckSpace(w) \/ Enqueue(w)
           \/ EvictBegin(w) \/ EvictTake(w) \/ EvictAccount(w) \/ EvictEnough(w)
           \/ EvictEnd(w) \/ RemoveCheck(w) \/ RemoveBegin(w) \/ ReadN(w)
           \/ CloseBegin(w) \/ CloseWalk(w) \/ CloseEnd(w) \/ Finish(w)
    PROVE  SInv'
<1>1. CASE \E k : Undefined(k)
  BY <1>1, HaltTable
<1>2. CASE ~\E k : Undefined(k)
  <2>1. UNCHANGED <<Hash, files>>
    BY <1>2
       DEF ExpelHead, Lookup, AccountAppend, FileIsGone, Read, AccountRead, Account,
           CheckSpace, Enqueue, EvictBegin, EvictTake, EvictAccount, EvictEnough,
           EvictEnd, RemoveCheck, RemoveBegin, ReadN, CloseBegin, CloseWalk, CloseEnd,
           Finish, Store
  <2>2. Elsewhere(w)
    BY <1>2, OtherLabels
  <2> QED BY <2>1, <2>2, SameTable
<1> QED BY <1>1, <1>2

\* Steps that change a File but neither free it nor rename it.
LEMMA FileTable ==
    ASSUME OneThread, IInv, SInv, NEW w \in Workers,
           \/ OpenFile(w) \/ OpenLock(w) \/ Locks(w) \/ Unlocks(w) \/ Close(w)
           \/ Write(w) \/ AppendBegin(w) \/ AppendCopy(w)
           \/ \E a \in Files : CloseUnlock(w, a)
    PROVE  SInv'
<1>1. CASE \E k : Undefined(k)
  BY <1>1, HaltTable
<1>2. CASE ~\E k : Undefined(k)
  <2>1. th \in [Workers -> Thread] /\ files \in [Files -> File] /\ Stored(Hash) \subseteq Files
    BY TableProperties DEF IInv, TypeOK
  <2>2. UNCHANGED Hash
    BY <1>2 DEF OpenFile, OpenLock, Locks, Unlocks, Close, Write, AppendBegin,
                AppendCopy, CloseUnlock, Store
  <2>3. \A a \in Files : files'[a].path = files[a].path /\ files'[a].alive = files[a].alive
    <3>1. CASE OpenFile(w) \/ OpenLock(w) \/ Close(w)
      BY <2>1, <3>1 DEF OpenFile, OpenLock, Close, File
    <3>2. CASE Locks(w) \/ Unlocks(w)
      BY <2>1, <3>2 DEF Locks, Unlocks, File
    <3>3. CASE Write(w) \/ AppendBegin(w)
      BY <1>2, <2>1, <3>3 DEF Write, AppendBegin, File
    <3>4. CASE AppendCopy(w)
      <4>1. files' = [files EXCEPT ![th[w].f].dim = @ + th[w].req.size,
                                  ![th[w].f].cont = "buffer", ![th[w].f].mtxf = NONE]
        BY <1>2, <3>4 DEF AppendCopy
      <4> QED BY <2>1, <4>1 DEF File
    <3>5. ASSUME NEW a \in Files, CloseUnlock(w, a)
          PROVE  \A b \in Files : /\ files'[b].path = files[b].path
                                  /\ files'[b].alive = files[b].alive
      BY <1>2, <2>1, <3>5 DEF CloseUnlock, File
    <3> QED BY <3>1, <3>2, <3>3, <3>4, <3>5
  <2>4. Elsewhere(w)
    <3>1. CASE \E l \in {"finish", "accountRead", "evictBegin", "appendCopy"} :
                 Goto(w, l) \/ \E s : Send(w, s, l)
      BY <3>1, GoesElsewhere
    <3>2. CASE OpenFile(w) \/ OpenLock(w) \/ Locks(w)
      BY <1>2, <3>1, <3>2 DEF OpenFile, OpenLock, Locks, Answer
    <3>3. CASE Unlocks(w) \/ Close(w) \/ Write(w)
      BY <1>2, <3>1, <3>3 DEF Unlocks, Close, Write, Answer
    <3>4. CASE AppendBegin(w) \/ AppendCopy(w)
      BY <1>2, <3>1, <3>4 DEF AppendBegin, AppendCopy, Answer
    <3>5. ASSUME NEW a \in Files, CloseUnlock(w, a) PROVE Elsewhere(w)
      <4> DEFINE t == [th[w] EXCEPT !.todo = @ \ {a}]
      <4>1. th' = [th EXCEPT ![w] = t] /\ t.pc = "closing"
        BY <1>2, <2>1, <3>5 DEF CloseUnlock, At, Thread
      <4> HIDE DEF t
      <4> QED BY <4>1, GoesElsewhere
    <3> QED BY <3>1, <3>2, <3>3, <3>4, <3>5
  <2> QED BY <2>1, <2>2, <2>3, <2>4, SameTable
<1> QED BY <1>1, <1>2

\* O_CREATE: the path that was looked for is still not there when the file is
\* inserted.
LEMMA CreateTable ==
    ASSUME OneThread, IInv, SInv, NEW w \in Workers, CreateCheck(w) \/ CreateInsert(w)
    PROVE  SInv'
<1>1. th \in [Workers -> Thread]
  BY ThreadsType
<1>2. CASE CreateCheck(w)
  <2>1. CASE Undefined("freed")
    BY <2>1, HaltTable
  <2>2. CASE Answer(w, "YESCONTAIN") /\ UNCHANGED <<Store, Outside>>
    <3>1. Elsewhere(w)
      BY <1>1, <2>2 DEF Answer, Send, Elsewhere, Thread
    <3> QED BY <2>2, <3>1, SameTable DEF Store
  <2>3. ASSUME NEW l \in {"create", "createFull"}, Goto(w, l), ~contain(Hash, Path(w)),
               UNCHANGED <<Store, Outside>>
        PROVE  SInv'
    <3>1. /\ UNCHANGED <<Hash, files>> /\ th'[w].pc = l /\ Path(w)' = Path(w)
      BY <1>1, <2>3 DEF Goto, Store, Path, Thread
    <3>2. Absent' /\ Unlinked'
      BY <2>3, <3>1 DEF OneThread, Absent, Unlinked, Path
    <3>3. Keyed' /\ DistinctPaths(Hash')
      BY <3>1 DEF SInv, Keyed
    <3> QED BY <3>2, <3>3 DEF SInv
  <2> QED BY <1>2, <2>1, <2>2, <2>3 DEF CreateCheck
<1>3. CASE CreateInsert(w)
  <2>1. /\ th[w].pc \in {"create", "createFull"} /\ ~contain(Hash, Path(w))
        /\ Path(w) \in Paths /\ Hash \in Tables /\ files \in [Files -> File]
    BY <1>3, ThreadFacts
       DEF CreateInsert, At, LocalOK, PathLabels, Path, SInv, Absent, IInv, TypeOK
  <2>2. PICK a \in Fresh, d \in Uninit, c \in {"null", "wild"} :
           /\ Hash' = hashins(Hash, Path(w), a)
           /\ files' = [files EXCEPT ![a] =
                          Created(Path(w), Client(w),
                                  IF Op(w) = "O_CRLK" THEN 1 ELSE 0, d, c)]
    BY <1>3 DEF CreateInsert
  <2>3. PICK h : h = Hash'
    OBVIOUS
  <2>4. PICK p : p = Path(w)
    OBVIOUS
  <2>5. a \in Files /\ a \notin Stored(Hash)
    BY DEF Fresh
  <2>6. h = hashins(Hash, p, a) /\ ~contain(Hash, p) /\ p \in Paths
    BY <2>1, <2>2, <2>3, <2>4
  <2>7. /\ DistinctPaths(h)
        /\ \A s \in Slots : \A n \in NodesOf(h.buckets[s]) :
              \/ n \in NodesOf(Hash.buckets[s])
              \/ s = funchash[p] /\ n = [key |-> p, cont |-> a]
    BY <2>1, <2>5, <2>6, HashinsNodes DEF SInv
  <2>8. /\ files'[a].alive /\ files'[a].path = p
        /\ \A b \in Files \ {a} : files'[b] = files[b]
    BY <2>1, <2>2, <2>4, <2>5 DEF Created
  <2>9. Stored(Hash) \subseteq Files
    BY <2>1, TableProperties
  <2>10. ASSUME NEW s \in Slots, NEW n \in NodesOf(h.buckets[s])
        PROVE  funchash[n.key] = s /\ files'[n.cont].alive /\ files'[n.cont].path = n.key
    <3>1. CASE n \in NodesOf(Hash.buckets[s])
      BY <2>5, <2>8, <2>9, <3>1, NodeIsStored DEF SInv, Keyed
    <3>2. CASE s = funchash[p] /\ n = [key |-> p, cont |-> a]
      BY <2>8, <3>2
    <3> QED BY <2>7, <3>1, <3>2
  <2>11. Keyed' /\ DistinctPaths(Hash')
    BY <2>3, <2>7, <2>10 DEF Keyed
  <2>12. Elsewhere(w)
    BY <1>1, <1>3 DEF CreateInsert, Answer, Send, Goto, Elsewhere, Thread
  <2> QED BY <2>11, <2>12, TableStep
<1> QED BY <1>2, <1>3

\* The steps that take a file out of the table, and those that free one.
LEMMA DeleteTable ==
    ASSUME OneThread, IInv, SInv, NEW w \in Workers,
           UnlinkExpelled(w) \/ EvictSend(w) \/ RemoveUnlink(w) \/ RemoveFifo(w)
    PROVE  SInv'
<1>1. th[w] \in Thread /\ files \in [Files -> File]
  BY ThreadsType
<1>2. CASE \E k : Undefined(k)
  BY <1>2, HaltTable
<1>3. CASE UnlinkExpelled(w) /\ ~\E k : Undefined(k)
  <2>1. /\ th[w].f \in Files /\ files[th[w].f].alive
        /\ Hash' = h_delete(Hash, files[th[w].f].path) /\ UNCHANGED files
        /\ Answer(w, "TOMUCHFILE")
    BY <1>3, ThreadFacts DEF UnlinkExpelled, At, FileLabels
  <2>2. Keyed' /\ DistinctPaths(Hash')
    BY <2>1, DeletedIsGone DEF SInv, Keyed
  <2>3. Elsewhere(w)
    BY <2>1, GoesElsewhere DEF Answer
  <2> QED BY <2>2, <2>3, TableStep
<1>4. CASE EvictSend(w) /\ ~\E k : Undefined(k)
  <2> DEFINE a == Head(th[w].ftosend)
             t == [th[w] EXCEPT !.ftosend = Tail(@)]
  <2>1. /\ a \in Files /\ files[a].alive /\ th[w].pc = "evictSend"
        /\ Hash' = h_delete(Hash, files[a].path)
        /\ files' = [files EXCEPT ![a] = NoFile]
        /\ th' = [th EXCEPT ![w] = t]
    BY <1>1, <1>4, HeadTailProperties DEF EvictSend, At, Thread
  <2>2. /\ DistinctPaths(Hash') /\ a \notin Stored(Hash')
        /\ \A s \in Slots : NodesOf(Hash'.buckets[s]) \subseteq NodesOf(Hash.buckets[s])
    BY <2>1, DeletedIsGone
  <2>3. \A b \in Files \ {a} : files'[b] = files[b]
    BY <1>1, <2>1
  <2>4. \A s \in Slots : \A n \in NodesOf(Hash'.buckets[s]) : n.cont \in Files \ {a}
    <3>1. Stored(Hash) \subseteq Files
      BY TableProperties DEF IInv, TypeOK
    <3> QED BY <2>2, <3>1, NodeIsStored
  <2>5. Keyed'
    BY <2>2, <2>3, <2>4 DEF SInv, Keyed
  <2>6. t.pc = "evictSend"
    BY <1>1, <2>1 DEF Thread
  <2>7. Elsewhere(w)
    <3> HIDE DEF t
    <3> QED BY <2>1, <2>6, GoesElsewhere
  <2> QED BY <2>2, <2>5, <2>7, TableStep
<1>5. CASE RemoveUnlink(w) /\ ~\E k : Undefined(k)
  <2>1. /\ th[w].f \in Files /\ files[th[w].f].alive
        /\ Hash' = h_delete(Hash, files[th[w].f].path) /\ UNCHANGED files
        /\ Goto(w, "removeFifo")
    BY <1>5, ThreadFacts DEF RemoveUnlink, At, FileLabels
  <2>2. th'[w].pc = "removeFifo" /\ th'[w].f = th[w].f
    BY <1>1, <2>1, ThreadsType DEF Goto, Thread
  <2>3. Keyed' /\ DistinctPaths(Hash') /\ th[w].f \notin Stored(Hash')
    BY <2>1, DeletedIsGone DEF SInv, Keyed
  <2>4. Absent' /\ Unlinked'
    BY <2>2, <2>3 DEF OneThread, Absent, Unlinked
  <2> QED BY <2>3, <2>4 DEF SInv
<1>6. CASE RemoveFifo(w) /\ ~\E k : Undefined(k)
  <2>1. /\ th[w].f \in Files /\ th[w].pc = "removeFifo" /\ UNCHANGED Hash
        /\ files' = [files EXCEPT ![th[w].f] = NoFile] /\ Answer(w, "SUCCESS")
    BY <1>6, ThreadFacts DEF RemoveFifo, At, FileLabels
  <2>2. th[w].f \notin Stored(Hash) /\ Stored(Hash) \subseteq Files
    BY <2>1, TableProperties DEF SInv, Unlinked, IInv, TypeOK
  <2>3. \A b \in Stored(Hash) : files'[b] = files[b]
    BY <1>1, <2>1, <2>2
  <2>4. Elsewhere(w)
    <3>1. Send(w, "SUCCESS", "finish")
      BY <2>1 DEF Answer
    <3> QED BY <3>1, GoesElsewhere
  <2> QED BY <2>1, <2>3, <2>4, SameTable
<1> QED BY <1>2, <1>3, <1>4, <1>5, <1>6

\* The table is empty at first.
LEMMA InitSInv == ASSUME Init PROVE SInv
<1>1. \A s \in Slots : Hash.buckets[s] = EmptyList
  BY DEF Init, h_create
<1>2. DistinctKeys(EmptyList) /\ NodesOf(EmptyList) = {}
  BY DEF DistinctKeys, NodesOf, EmptyList
<1>3. \A w \in Workers : th[w].pc = "idle"
  BY DEF Init, Idle
<1> QED BY <1>1, <1>2, <1>3 DEF SInv, DistinctPaths, Keyed, Absent, Unlinked

\* With one thread the table never has a path twice, and what it refers to is
\* there.
THEOREM TableInvariance == ASSUME OneThread PROVE Spec => []SInv
<1>1. Init => SInv
  BY InitSInv
<1>2. IInv /\ SInv /\ [Next]_vars => SInv'
  <2> SUFFICES ASSUME IInv, SInv, [Next]_vars PROVE SInv'
    OBVIOUS
  <2>1. CASE UNCHANGED <<Hash, files, th>>
    BY <2>1 DEF SInv, Keyed, Absent, Unlinked, Path
  <2>2. ASSUME NEW w \in Workers, NEW r, Begin(w, r), UNCHANGED Store PROVE SInv'
    <3> DEFINE t == [th[w] EXCEPT !.pc = Entrypoint(r.op), !.req = r]
    <3>1. th' = [th EXCEPT ![w] = t] /\ t.pc = Entrypoint(r.op)
      BY <2>2, ThreadsType DEF Begin, Thread
    <3>2. Entrypoint(r.op) \notin {"create", "createFull", "removeFifo"}
      BY DEF Entrypoint
    <3> HIDE DEF t
    <3>3. Elsewhere(w)
      BY <3>1, <3>2, GoesElsewhere
    <3> QED BY <2>2, <3>3, SameTable DEF Store
  <2>3. ASSUME NEW w \in Workers, Serve(w) PROVE SInv'
    BY <2>3, OtherTable, FileTable, CreateTable, DeleteTable DEF Serve
  <2>4. CASE \E c \in Clients : Accept(c)
    BY <2>1, <2>4 DEF Accept, Store
  <2>5. CASE \E w \in Workers, c \in Clients : \E r \in Requests(c) : Take(w, r)
    BY <2>2, <2>5 DEF Take
  <2>6. CASE \E w \in Workers, r \in requeued : TakeRequeued(w, r)
    BY <2>2, <2>6 DEF TakeRequeued
  <2>7. CASE UNCHANGED vars
    BY <2>1, <2>7 DEF vars
  <2> QED BY <2>3, <2>4, <2>5, <2>6, <2>7 DEF Next, Halted
<1> QED BY <1>1, <1>2, Invariance, PTL DEF Spec

\* With one thread no two stored files have the same path: between contain()
\* and hashins() of O_CREATE no other thread can insert it.
THEOREM PathsAreUnique == ASSUME OneThread PROVE Spec => []UniquePaths
<1>1. SInv => UniquePaths
  BY DEF SInv, DistinctPaths, DistinctKeys, UniquePaths
<1> QED BY <1>1, TableInvariance, PTL

LEMMA LiveFiles == SInv => HashLive
<1> SUFFICES ASSUME SInv, NEW s \in Slots, NEW a \in FilesIn(Hash.buckets[s])
             PROVE  files[a].alive
  BY DEF HashLive, Stored
<1>1. PICK n \in NodesOf(Hash.buckets[s]) : n.cont = a
  BY FilesInNodes
<1> QED BY <1>1 DEF SInv, Keyed

\* With one thread no stored file has been freed, although WRITE enters a file
\* in fifo again and eviction and REMOVE unlink by name what they free.
THEOREM StoredFilesAreLive == ASSUME OneThread PROVE Spec => []HashLive
BY LiveFiles, TableInvariance, PTL

-----------------------------------------------------------------------------
(* How many bytes a server with one thread stores *)

\* The bytes of the Files that are not freed, those that are about to be left
\* out: a File that nothing refers to any more counts too.
Weights(fs, gone) ==
    [a \in Files |-> IF fs[a].alive /\ fs[a].cont = "buffer" /\ a \notin gone
                     THEN fs[a].dim ELSE 0]
Bytes(fs, gone) == SumFunctionOnSet(Weights(fs, gone), Files)

\* Files that a thread has subtracted from the count and not freed yet.
Gone(t) == ToSet(t.ftosend) \cup (IF t.pc = "removeFifo" THEN {t.f} ELSE {})

\* fifo may hold a File twice, and Files that are freed since: the thread does
\* not get through a list of victims that is not like this.
Sendable(s, fs) == \A i \in 1 .. Len(s) :
    /\ fs[s[i]].alive
    /\ \A j \in 1 .. Len(s) : i # j => s[i] # s[j]

\* Bytes that are stored and not counted yet, and counted and not stored yet.
Uncounted(t) == IF t.pc \in {"accountRead", "account"} THEN t.req.size ELSE 0
Reserved(t) ==
    IF t.req.op = "APPEND" /\ t.pc \in EvictLabels \cup {"file", "appendCopy"}
    THEN t.req.size ELSE 0

Evicting == {"evict", "evictAccount", "evictSend"}
Unsettled == {"accountRead", "account", "checkSpace", "evictBegin"} \cup Evicting

Filled(f) == f.alive => f.cont = "buffer"

\* What a thread's label says of the count n and the files fs.
Balanced(t, fs, n) ==
    /\ t.pc \in {"accountAppend", "account", "evictAccount", "removeUnlink"} => t.tmp = n
    /\ t.pc \notin Evicting => t.ftosend = <<>>
    /\ Sendable(t.ftosend, fs) => n + Uncounted(t) >= Bytes(fs, Gone(t)) + Reserved(t)
    /\ t.pc \notin Unsettled => Bytes(fs, {}) <= Space
    /\ t.pc \in {"evictSend", "appendCopy"} => n <= Space
    /\ t.pc \in WriteLabels => Filled(fs[t.f])
    /\ t.pc \in EvictLabels /\ t.req.op = "WRITE" => Filled(fs[t.f])
    /\ t.pc = "evictAccount" => Filled(fs[t.victim])
    /\ t.pc \in {"removeBegin", "removeUnlink"} => t.req.op = "REMOVE"

\* REMOVE subtracts dim even if the File was never written: malloc() must have
\* left 0 there.
ZeroFilled == "REMOVE" \in Ops => Uninit \subseteq {0}
Sized(fs) == \A a \in Files :
    /\ fs[a].dim \in Nat
    /\ "REMOVE" \in Ops /\ fs[a].cont # "buffer" => fs[a].dim = 0

AInv == /\ Sized(files)
        /\ \A a \in FilesIn(fifo) : Filled(files[a])
        /\ \A w \in Workers : Balanced(th[w], files, actual_size)

-----------------------------------------------------------------------------

LEMMA WeightsType ==
    ASSUME NEW fs, NEW gone, Sized(fs)
    PROVE  \A a \in Files : Weights(fs, gone)[a] \in Nat
BY DEF Weights, Sized

LEMMA FilesFinite == IsFiniteSet(Files)
BY WorkersAssumption

LEMMA BytesType ==
    ASSUME NEW fs, NEW gone, Sized(fs) PROVE Bytes(fs, gone) \in Int
<1>1. \A a \in Files : Weights(fs, gone)[a] \in Int
  BY WeightsType
<1> QED BY <1>1, FilesFinite, SumType DEF Bytes

\* Files that keep their content have as many bytes.
LEMMA BytesSame ==
    ASSUME NEW fs, NEW gs, NEW gone, NEW went,
           \A a \in Files : Weights(gs, went)[a] = Weights(fs, gone)[a]
    PROVE  Bytes(gs, went) = Bytes(fs, gone)
<1>1. Weights(gs, went) = Weights(fs, gone)
  BY DEF Weights
<1> QED BY <1>1 DEF Bytes

\* One File changes.
LEMMA BytesUpdate ==
    ASSUME NEW fs, NEW gs, NEW gone, NEW went, Sized(fs), Sized(gs), NEW a \in Files,
           \A b \in Files \ {a} : Weights(gs, went)[b] = Weights(fs, gone)[b]
    PROVE  Bytes(gs, went) = Bytes(fs, gone) + Weights(gs, went)[a] - Weights(fs, gone)[a]
<1> DEFINE f == Weights(fs, gone)
           e == Weights(gs, went)
<1>1. \A b \in Files : f[b] \in Int /\ e[b] \in Int
  BY WeightsType
<1>2. \A b \in Files \ {a} : e[b] = f[b]
  OBVIOUS
<1> HIDE DEF f, e
<1>3. SumFunctionOnSet(e, Files) = SumFunctionOnSet(f, Files) + e[a] - f[a]
  BY <1>1, <1>2, FilesFinite, SumUpdate
<1> QED BY <1>3 DEF Bytes, f, e

\* One File is left out.
LEMMA BytesWithout ==
    ASSUME NEW fs, NEW gone, Sized(fs), NEW a \in Files, a \notin gone
    PROVE  Bytes(fs, gone \cup {a}) = Bytes(fs, gone) - Weights(fs, gone)[a]
<1> DEFINE went == gone \cup {a}
<1>1. /\ Weights(fs, went)[a] = 0
      /\ \A b \in Files \ {a} : Weights(fs, went)[b] = Weights(fs, gone)[b]
  BY DEF Weights
<1> HIDE DEF went
<1>2. PICK gs : gs = fs
  OBVIOUS
<1>3. Bytes(gs, went) = Bytes(fs, gone) + Weights(gs, went)[a] - Weights(fs, gone)[a]
  BY <1>1, <1>2, BytesUpdate
<1>4. Bytes(fs, gone) \in Int /\ Weights(fs, gone)[a] \in Int
  BY BytesType, WeightsType
<1> QED BY <1>1, <1>2, <1>3, <1>4 DEF went

\* A thread with no victims may go on.
LEMMA NoVictims ==
    ASSUME NEW fs
    PROVE  Sendable(<<>>, fs) /\ ToSet(<<>>) = {}
BY DEF Sendable, ToSet

\* What a step does to a File: nothing that matters here, or its content is
\* written, or it is freed, or it is a new one.
Changes(a) ==
    \/ /\ files'[a].alive = files[a].alive
       /\ files'[a].cont = files[a].cont /\ files'[a].dim = files[a].dim
    \/ files'[a].cont = "buffer" /\ files'[a].dim \in Nat
    \/ files'[a] = NoFile
    \/ a \in Fresh /\ files'[a].cont \in {"null", "wild"} /\ files'[a].dim \in Uninit

\* A request has a size, when there is one.
LEMMA SizeType ==
    ASSUME IInv, NEW w \in Workers
    PROVE  /\ th[w].pc # "idle" => th[w].req.size \in Nat
           /\ actual_size \in Int /\ files \in [Files -> File]
BY ThreadFacts DEF LocalOK, Request, IInv, TypeOK

LEMMA FilesChange ==
    ASSUME IInv, Sized(files), NEW w \in Workers, Serve(w)
    PROVE  \A b \in Files : Changes(b)
<1>1. files \in [Files -> File]
  BY SizeType
<1>2. CASE UNCHANGED files
  BY <1>2 DEF Changes
<1>3. CASE CreateInsert(w)
  <2>1. PICK a \in Fresh, d \in Uninit, c \in {"null", "wild"}, l \in {0, 1} :
           files' = [files EXCEPT ![a] = Created(Path(w), Client(w), l, d, c)]
    BY <1>3 DEF CreateInsert
  <2>2. files'[a].cont = c /\ files'[a].dim = d /\ \A b \in Files \ {a} : files'[b] = files[b]
    BY <1>1, <2>1 DEF Created, Fresh
  <2> QED BY <2>2 DEF Changes
<1>4. CASE OpenFile(w) \/ OpenLock(w) \/ Locks(w) \/ Unlocks(w) \/ Close(w) \/ AppendBegin(w)
  <2>1. ASSUME NEW b \in Files
        PROVE  /\ files'[b].alive = files[b].alive
               /\ files'[b].cont = files[b].cont /\ files'[b].dim = files[b].dim
    <3>1. CASE OpenFile(w) \/ OpenLock(w) \/ Close(w)
      BY <1>1, <3>1 DEF OpenFile, OpenLock, Close, File
    <3>2. CASE Locks(w) \/ Unlocks(w) \/ AppendBegin(w)
      BY <1>1, <3>2 DEF Locks, Unlocks, AppendBegin, File
    <3> QED BY <1>4, <3>1, <3>2
  <2> QED BY <2>1 DEF Changes
<1>5. CASE Write(w)
  <2>1. th[w].req.size \in Nat
    BY <1>5, SizeType DEF Write, OnFile, At
  <2>2. \/ UNCHANGED files \/ \E k : Undefined(k)
        \/ files' = [files EXCEPT ![th[w].f].dim = th[w].req.size,
                                 ![th[w].f].cont = "buffer"]
    BY <1>5 DEF Write
  <2>3. CASE files' = [files EXCEPT ![th[w].f].dim = th[w].req.size,
                                   ![th[w].f].cont = "buffer"]
    BY <1>1, <2>1, <2>3 DEF File, Changes
  <2> QED BY <1>2, <2>2, <2>3 DEF Undefined
<1>6. CASE AppendCopy(w)
  <2>1. th[w].req.size \in Nat /\ th[w].f \in Files
    BY <1>6, SizeType, ThreadFacts DEF AppendCopy, At, FileLabels
  <2>2. files[th[w].f].dim + th[w].req.size \in Nat
    BY <2>1 DEF Sized
  <2>3. \/ UNCHANGED files
        \/ files' = [files EXCEPT ![th[w].f].dim = @ + th[w].req.size,
                                 ![th[w].f].cont = "buffer", ![th[w].f].mtxf = NONE]
    BY <1>6 DEF AppendCopy, Undefined
  <2>4. CASE files' = [files EXCEPT ![th[w].f].dim = @ + th[w].req.size,
                                   ![th[w].f].cont = "buffer", ![th[w].f].mtxf = NONE]
    <3> DEFINE a == th[w].f
    <3>1. a \in Files /\ files[a] \in File
      BY <1>1, <2>1
    <3>2. /\ files'[a] = [files[a] EXCEPT !.dim = @ + th[w].req.size,
                                          !.cont = "buffer", !.mtxf = NONE]
          /\ \A b \in Files \ {a} : files'[b] = files[b]
      BY <1>1, <2>1, <2>4
    <3>3. files'[a].cont = "buffer" /\ files'[a].dim \in Nat
      BY <2>2, <3>1, <3>2 DEF File
    <3> HIDE DEF a
    <3> QED BY <3>2, <3>3 DEF Changes
  <2> QED BY <1>2, <2>3, <2>4
<1>7. CASE EvictSend(w) \/ RemoveFifo(w)
  <2>1. ASSUME NEW a, files' = [files EXCEPT ![a] = NoFile]
        PROVE  \A b \in Files : Changes(b)
    <3>1. ASSUME NEW b \in Files PROVE files'[b] = NoFile \/ files'[b] = files[b]
      BY <1>1, <2>1
    <3> QED BY <3>1 DEF Changes
  <2> QED BY <1>2, <1>7, <2>1 DEF EvictSend, RemoveFifo, Undefined
<1>8. ASSUME NEW a \in Files, CloseUnlock(w, a) PROVE \A b \in Files : Changes(b)
  BY <1>1, <1>2, <1>8 DEF CloseUnlock, Undefined, File, Changes
<1>9. CASE CreateCheck(w) \/ ExpelHead(w) \/ UnlinkExpelled(w) \/ Lookup(w)
           \/ AccountAppend(w) \/ FileIsGone(w) \/ Read(w) \/ AccountRead(w)
           \/ Account(w) \/ CheckSpace(w) \/ Enqueue(w)
  BY <1>2, <1>9 DEF CreateCheck, ExpelHead, UnlinkExpelled, Lookup, AccountAppend,
     FileIsGone, Read, AccountRead, Account, CheckSpace, Enqueue, Store, Undefined
<1>10. CASE EvictBegin(w) \/ EvictTake(w) \/ EvictAccount(w) \/ EvictEnough(w)
            \/ EvictEnd(w) \/ RemoveCheck(w) \/ RemoveBegin(w) \/ RemoveUnlink(w)
            \/ ReadN(w) \/ CloseBegin(w) \/ CloseWalk(w) \/ CloseEnd(w) \/ Finish(w)
  BY <1>2, <1>10 DEF EvictBegin, EvictTake, EvictAccount, EvictEnough, EvictEnd,
     RemoveCheck, RemoveBegin, RemoveUnlink, ReadN, CloseBegin, CloseWalk, CloseEnd,
     Finish, Store, Undefined
<1> QED BY <1>3, <1>4, <1>5, <1>6, <1>7, <1>8, <1>9, <1>10 DEF Serve

LEMMA SizedStep ==
    ASSUME ZeroFilled, Sized(files), \A a \in Files : Changes(a)
    PROVE  Sized(files')
<1> SUFFICES ASSUME NEW a \in Files
             PROVE  /\ files'[a].dim \in Nat
                    /\ "REMOVE" \in Ops /\ files'[a].cont # "buffer" => files'[a].dim = 0
  BY DEF Sized
<1>1. Uninit \subseteq Nat
  BY WorkersAssumption
<1>2. /\ files[a].dim \in Nat
      /\ "REMOVE" \in Ops /\ files[a].cont # "buffer" => files[a].dim = 0
  BY DEF Sized
<1>3. NoFile.dim = 0
  BY DEF NoFile
<1>4. CASE /\ files'[a].alive = files[a].alive
           /\ files'[a].cont = files[a].cont /\ files'[a].dim = files[a].dim
  BY <1>2, <1>4
<1>5. CASE files'[a].cont = "buffer" /\ files'[a].dim \in Nat
  BY <1>5
<1>6. CASE files'[a] = NoFile
  BY <1>3, <1>6
<1>7. CASE files'[a].dim \in Uninit
  <2>1. "REMOVE" \in Ops => files'[a].dim = 0
    BY <1>7 DEF ZeroFilled
  <2> QED BY <1>1, <1>7, <2>1
<1> QED BY <1>4, <1>5, <1>6, <1>7 DEF Changes

\* An address that some variable holds is not given out again.
LEMMA FilledStep ==
    ASSUME NEW a \in Files, a \notin Fresh, Changes(a), Filled(files[a])
    PROVE  Filled(files'[a])
<1>1. NoFile.alive = FALSE
  BY DEF NoFile
<1>2. CASE files'[a] = NoFile
  BY <1>1, <1>2 DEF Filled
<1>3. CASE files'[a] # NoFile
  BY <1>3 DEF Changes, Filled
<1> QED BY <1>2, <1>3

LEMMA HeldIsNotFresh ==
    ASSUME NEW w \in Workers
    PROVE  th[w].f \notin Fresh /\ th[w].victim \notin Fresh
BY DEF Fresh

LEMMA QueuedIsNotFresh ==
    ASSUME IInv
    PROVE  \A a \in FilesIn(fifo) : a \in Files /\ a \notin Fresh
<1>1. fifo \in ListOf(Entry)
  BY DEF IInv, TypeOK
<1>2. \A n \in NodesOf(fifo) : n \in Entry
  BY <1>1, ElementOfSeq DEF NodesOf, ListOf
<1>3. \A a \in FilesIn(fifo) : \E n \in NodesOf(fifo) : a = n.cont
  BY FilesInNodes
<1> QED BY <1>2, <1>3 DEF Fresh, Entry

\* fifo gains no File but the one that has been written.
LEMMA QueueChange ==
    ASSUME IInv, NEW w \in Workers, Serve(w)
    PROVE  \A a \in FilesIn(fifo') :
              a \in FilesIn(fifo) \/ (th[w].pc = "enqueue" /\ a = th[w].f)
<1>1. fifo \in ListOf(Entry)
  BY DEF IInv, TypeOK
<1>2. CASE UNCHANGED fifo
  BY <1>2
<1>3. CASE fifo' = takeHead(fifo) /\ takeHeadSafe(fifo)
  <2>1. fifo.nodes \in Seq(Entry) /\ fifo.nodes # <<>>
    BY <1>1, <1>3 DEF ListOf, takeHeadSafe, isEmpty
  <2>2. /\ Len(Tail(fifo.nodes)) = Len(fifo.nodes) - 1 /\ Len(fifo.nodes) \in Nat
        /\ \A i \in 1 .. Len(Tail(fifo.nodes)) : Tail(fifo.nodes)[i] = fifo.nodes[i + 1]
    BY <2>1, HeadTailProperties, LenProperties
  <2>3. fifo'.nodes = Tail(fifo.nodes)
    BY <1>3 DEF takeHead
  <2> QED BY <2>2, <2>3 DEF FilesIn
<1>4. CASE Enqueue(w)
  <2>1. CASE fifo' = insertT(fifo, [key |-> files[th[w].f].path, cont |-> th[w].f])
    <3> DEFINE n == [key |-> files[th[w].f].path, cont |-> th[w].f]
    <3>1. fifo.nodes \in Seq(Entry) /\ Len(fifo.nodes) \in Nat
      BY <1>1, LenProperties DEF ListOf
    <3>2. fifo'.nodes = Append(fifo.nodes, n)
      BY <1>1, <2>1 DEF insertT, ListOf
    <3>3. n.cont = th[w].f
      OBVIOUS
    <3> HIDE DEF n
    <3>4. /\ Len(fifo'.nodes) = Len(fifo.nodes) + 1
          /\ \A i \in 1 .. Len(fifo.nodes) + 1 :
                fifo'.nodes[i] = IF i <= Len(fifo.nodes) THEN fifo.nodes[i] ELSE n
      BY <3>1, <3>2
    <3> QED BY <1>4, <3>1, <3>3, <3>4 DEF FilesIn, Enqueue, At
  <2> QED BY <1>2, <1>4, <2>1 DEF Enqueue, Undefined
<1>5. CASE RemoveFifo(w)
  <2>1. ASSUME NEW k, fifo' = delete(fifo, k) PROVE FilesIn(fifo') \subseteq FilesIn(fifo)
    <3>1. NodesOf(delete(fifo, k)) \subseteq NodesOf(fifo)
      BY <1>1, DeleteProperties
    <3> QED BY <2>1, <3>1, FilesInNodes
  <2> QED BY <1>2, <1>5, <2>1 DEF RemoveFifo, Undefined
<1>6. CASE ExpelHead(w) \/ EvictTake(w)
  BY <1>2, <1>3, <1>6 DEF ExpelHead, EvictTake, Undefined
<1>7. CASE CreateCheck(w) \/ CreateInsert(w) \/ UnlinkExpelled(w) \/ Lookup(w)
           \/ AccountAppend(w) \/ FileIsGone(w) \/ OpenFile(w) \/ OpenLock(w)
           \/ Locks(w) \/ Unlocks(w) \/ Close(w) \/ Read(w) \/ Write(w)
  BY <1>2, <1>7 DEF CreateCheck, CreateInsert, UnlinkExpelled, Lookup, AccountAppend,
     FileIsGone, OpenFile, OpenLock, Locks, Unlocks, Close, Read, Write, Store, Undefined
<1>8. CASE AccountRead(w) \/ Account(w) \/ CheckSpace(w) \/ AppendBegin(w)
           \/ AppendCopy(w) \/ EvictBegin(w) \/ EvictAccount(w) \/ EvictEnough(w)
           \/ EvictSend(w) \/ EvictEnd(w)
  BY <1>2, <1>8 DEF AccountRead, Account, CheckSpace, AppendBegin, AppendCopy,
     EvictBegin, EvictAccount, EvictEnough, EvictSend, EvictEnd, Store, Undefined
<1>9. CASE \/ RemoveCheck(w) \/ RemoveBegin(w) \/ RemoveUnlink(w) \/ ReadN(w)
           \/ CloseBegin(w) \/ CloseWalk(w) \/ CloseEnd(w) \/ Finish(w)
           \/ \E a \in Files : CloseUnlock(w, a)
  BY <1>2, <1>9 DEF RemoveCheck, RemoveBegin, RemoveUnlink, ReadN, CloseBegin,
     CloseWalk, CloseEnd, Finish, CloseUnlock, Store, Undefined
<1> QED BY <1>4, <1>5, <1>6, <1>7, <1>8, <1>9 DEF Serve

\* What remains to be shown of a step is what the new label of its thread says.
LEMMA LedgerStep ==
    ASSUME OneThread, ZeroFilled, IInv, AInv, NEW w \in Workers, Serve(w),
           Balanced(th'[w], files', actual_size')
    PROVE  AInv'
<1>1. \A a \in Files : Changes(a)
  BY FilesChange DEF AInv
<1>2. Sized(files')
  BY <1>1, SizedStep DEF AInv
<1>3. ASSUME NEW a \in FilesIn(fifo') PROVE Filled(files'[a])
  <2>1. CASE a \in FilesIn(fifo)
    BY <1>1, <2>1, QueuedIsNotFresh, FilledStep DEF AInv
  <2>2. CASE th[w].pc = "enqueue" /\ a = th[w].f
    <3>1. a \in Files /\ a \notin Fresh
      BY <2>2, ThreadFacts, HeldIsNotFresh DEF FileLabels
    <3>2. Filled(files[a])
      BY <2>2 DEF AInv, Balanced, WriteLabels
    <3> QED BY <1>1, <3>1, <3>2, FilledStep
  <2> QED BY <2>1, <2>2, QueueChange
<1>4. \A v \in Workers : Balanced(th'[v], files', actual_size')
  BY DEF OneThread
<1> QED BY <1>2, <1>3, <1>4 DEF AInv

-----------------------------------------------------------------------------

\* The labels at which nothing is pending.
Resting == {"idle", "check", "create", "createFull", "expel", "unlinkExpelled",
            "lookup", "readFiles", "closeBegin", "closeWalk", "closing", "finish"}

\* What a label without victims says, and what it takes.
LEMMA Settles ==
    ASSUME NEW t, NEW fs, NEW n, Balanced(t, fs, n),
           t.pc \notin Evicting \cup {"removeFifo"}
    PROVE  t.ftosend = <<>> /\ n + Uncounted(t) >= Bytes(fs, {}) + Reserved(t)
<1>1. t.ftosend = <<>>
  BY DEF Balanced
<1>2. Gone(t) = {}
  BY <1>1, NoVictims DEF Gone
<1> QED BY <1>1, <1>2, NoVictims DEF Balanced

LEMMA Settled ==
    ASSUME NEW t, NEW fs, NEW n, t.ftosend = <<>>,
           t.pc \notin Evicting \cup {"removeFifo"},
           n + Uncounted(t) >= Bytes(fs, {}) + Reserved(t),
           t.pc \in {"accountAppend", "account", "removeUnlink"} => t.tmp = n,
           t.pc \notin Unsettled => Bytes(fs, {}) <= Space,
           t.pc = "appendCopy" => n <= Space,
           t.pc \in WriteLabels \/ (t.pc = "evictBegin" /\ t.req.op = "WRITE")
               => Filled(fs[t.f]),
           t.pc \in {"removeBegin", "removeUnlink"} => t.req.op = "REMOVE"
    PROVE  Balanced(t, fs, n)
<1>1. Gone(t) = {}
  BY NoVictims DEF Gone
<1> QED BY <1>1, NoVictims DEF Balanced, Evicting, EvictLabels

\* A step to such a label that counts nothing and writes nothing.
LEMMA PlainMove ==
    ASSUME NEW t, NEW fs, NEW n \in Int, Balanced(t, fs, n), Sized(fs),
           NEW u, NEW gs, Sized(gs), Bytes(gs, {}) <= Bytes(fs, {}),
           t.pc \in Resting \cup {"file", "enqueue"},
           t.pc = "file" => t.req.size \in Nat,
           u.ftosend = t.ftosend,
           \/ u.pc \in Resting
           \/ u.pc = "file" /\ u.req.op # "APPEND"
           \/ u.pc = "removeBegin" /\ u.req.op = "REMOVE"
    PROVE  Balanced(u, gs, n)
<1>1. t.ftosend = <<>> /\ n + Uncounted(t) >= Bytes(fs, {}) + Reserved(t)
  BY Settles DEF Resting, Evicting
<1>2. Uncounted(t) = 0 /\ Reserved(t) \in Nat /\ Bytes(fs, {}) <= Space
  BY DEF Balanced, Uncounted, Reserved, Unsettled, Evicting, EvictLabels, Resting
<1>3. Bytes(fs, {}) \in Int /\ Bytes(gs, {}) \in Int /\ Space \in Nat
  BY BytesType, WorkersAssumption
<1>4. Uncounted(u) = 0 /\ Reserved(u) = 0
  BY DEF Uncounted, Reserved, EvictLabels, Resting
<1>5. n + Uncounted(u) >= Bytes(gs, {}) + Reserved(u) /\ Bytes(gs, {}) <= Space
  BY <1>1, <1>2, <1>3, <1>4
<1> QED BY <1>1, <1>5, Settled DEF Resting, Evicting, WriteLabels

\* How the local state of a thread moves with its label.
LEMMA Moved ==
    ASSUME IInv, NEW w \in Workers, NEW l,
           Goto(w, l) \/ (\E a : GotoWith(w, l, a)) \/ (\E s : Send(w, s, l))
    PROVE  /\ th'[w].pc = l /\ th'[w].req = th[w].req
           /\ th'[w].ftosend = th[w].ftosend /\ th'[w].tmp = th[w].tmp
           /\ th'[w].victim = th[w].victim
           /\ Goto(w, l) \/ (\E s : Send(w, s, l)) => th'[w].f = th[w].f
<1>1. th \in [Workers -> Thread] /\ th[w] \in Thread
  BY ThreadsType
<1>2. ASSUME Goto(w, l)
      PROVE  /\ th'[w].pc = l /\ th'[w].req = th[w].req
             /\ th'[w].ftosend = th[w].ftosend /\ th'[w].tmp = th[w].tmp
             /\ th'[w].victim = th[w].victim /\ th'[w].f = th[w].f
  BY <1>1, <1>2 DEF Goto, Thread
<1>3. ASSUME NEW a, GotoWith(w, l, a)
      PROVE  /\ th'[w].pc = l /\ th'[w].req = th[w].req
             /\ th'[w].ftosend = th[w].ftosend /\ th'[w].tmp = th[w].tmp
             /\ th'[w].victim = th[w].victim
  <2>1. th'[w] = [th[w] EXCEPT !.pc = l, !.f = a]
    BY <1>1, <1>3 DEF GotoWith
  <2> QED BY <1>1, <2>1 DEF Thread
<1>4. ASSUME NEW s, Send(w, s, l)
      PROVE  /\ th'[w].pc = l /\ th'[w].req = th[w].req
             /\ th'[w].ftosend = th[w].ftosend /\ th'[w].tmp = th[w].tmp
             /\ th'[w].victim = th[w].victim /\ th'[w].f = th[w].f
  <2>1. th'[w] = [th[w] EXCEPT !.pc = l, !.answer = Append(@, s)]
    BY <1>1, <1>4 DEF Send
  <2> QED BY <1>1, <2>1 DEF Thread
<1> QED BY <1>2, <1>3, <1>4

\* The same, for the steps of the program.
LEMMA PlainStep ==
    ASSUME OneThread, ZeroFilled, IInv, AInv, NEW w \in Workers, Serve(w),
           Bytes(files', {}) <= Bytes(files, {}), UNCHANGED actual_size,
           th[w].pc \in Resting \cup {"file", "enqueue"},
           th'[w].ftosend = th[w].ftosend,
           \/ th'[w].pc \in Resting
           \/ th'[w].pc = "file" /\ th'[w].req.op # "APPEND"
           \/ th'[w].pc = "removeBegin" /\ th'[w].req.op = "REMOVE"
    PROVE  AInv'
<1>1. Sized(files) /\ Balanced(th[w], files, actual_size) /\ actual_size \in Int
  BY SizeType DEF AInv
<1>2. Sized(files')
  BY <1>1, FilesChange, SizedStep
<1>3. th[w].pc = "file" => th[w].req.size \in Nat
  BY SizeType
<1>4. Balanced(th'[w], files', actual_size)
  BY <1>1, <1>2, <1>3, PlainMove
<1> QED BY <1>4, LedgerStep

\* Undefined behaviour changes nothing.
LEMMA HaltLedger == ASSUME AInv, NEW k, Undefined(k) PROVE AInv'
BY DEF AInv, Undefined

\* Steps that leave the contents alone.
SameContents == \A a \in Files :
    /\ files'[a].alive = files[a].alive
    /\ files'[a].cont = files[a].cont /\ files'[a].dim = files[a].dim

LEMMA SameContentsBytes ==
    ASSUME SameContents, NEW gone PROVE Bytes(files', gone) = Bytes(files, gone)
<1>1. \A a \in Files : Weights(files', gone)[a] = Weights(files, gone)[a]
  BY DEF SameContents, Weights
<1> QED BY <1>1, BytesSame

LEMMA QuietMove ==
    ASSUME OneThread, ZeroFilled, IInv, AInv, NEW w \in Workers, Serve(w),
           SameContents, UNCHANGED actual_size,
           th[w].pc \in Resting \cup {"file", "enqueue"},
           NEW l, Goto(w, l) \/ (\E a : GotoWith(w, l, a)) \/ (\E s : Send(w, s, l)),
           \/ l \in Resting
           \/ l = "file" /\ Op(w) # "APPEND"
           \/ l = "removeBegin" /\ Op(w) = "REMOVE"
    PROVE  AInv'
<1>1. Bytes(files', {}) = Bytes(files, {}) /\ Bytes(files, {}) \in Int
  BY SameContentsBytes, BytesType DEF AInv
<1>2. Bytes(files', {}) <= Bytes(files, {})
  BY <1>1
<1> QED BY <1>2, Moved, PlainStep DEF Op

\* A thread's new local state is t, at a label where nothing is pending.
LEMMA QuietChange ==
    ASSUME OneThread, ZeroFilled, IInv, AInv, NEW w \in Workers, Serve(w),
           SameContents, UNCHANGED actual_size,
           th[w].pc \in Resting \cup {"file", "enqueue"},
           NEW t, th' = [th EXCEPT ![w] = t], t.pc \in Resting,
           t.ftosend = th[w].ftosend
    PROVE  AInv'
<1>1. Bytes(files', {}) = Bytes(files, {}) /\ Bytes(files, {}) \in Int
  BY SameContentsBytes, BytesType DEF AInv
<1>2. Bytes(files', {}) <= Bytes(files, {})
  BY <1>1
<1>3. th'[w] = t
  BY ThreadsType
<1> QED BY <1>2, <1>3, PlainStep

\* Requests that count no bytes.
LEMMA CreateLedger ==
    ASSUME OneThread, ZeroFilled, IInv, AInv, NEW w \in Workers,
           CreateCheck(w) \/ CreateInsert(w) \/ ExpelHead(w) \/ UnlinkExpelled(w)
    PROVE  AInv'
<1>1. th \in [Workers -> Thread] /\ th[w] \in Thread /\ files \in [Files -> File] /\ Serve(w)
  BY ThreadsType DEF Serve
<1>2. CASE \E k : Undefined(k)
  BY <1>2, HaltLedger
<1>3. CASE CreateCheck(w) /\ ~\E k : Undefined(k)
  <2>1. /\ th[w].pc = "check" /\ UNCHANGED <<files, actual_size>>
        /\ \E l \in {"finish", "create", "createFull"} : Goto(w, l) \/ \E s : Send(w, s, l)
    BY <1>3 DEF CreateCheck, At, Answer, Store
  <2> QED BY <1>1, <2>1, QuietMove DEF SameContents, Resting
<1>4. CASE UnlinkExpelled(w) /\ ~\E k : Undefined(k)
  <2>1. /\ th[w].pc = "unlinkExpelled" /\ UNCHANGED <<files, actual_size>>
        /\ \E s : Send(w, s, "finish")
    BY <1>4 DEF UnlinkExpelled, At, Answer
  <2> QED BY <1>1, <2>1, QuietMove DEF SameContents, Resting
<1>5. CASE ExpelHead(w) /\ ~\E k : Undefined(k)
  <2> DEFINE t == [th[w] EXCEPT !.pc = "unlinkExpelled", !.f = Head(fifo.nodes).cont]
  <2>1. /\ th[w].pc = "expel" /\ UNCHANGED <<files, actual_size>>
        /\ th' = [th EXCEPT ![w] = t]
    BY <1>5 DEF ExpelHead, At
  <2>2. t.pc = "unlinkExpelled" /\ t.ftosend = th[w].ftosend
    BY <1>1 DEF Thread
  <2> HIDE DEF t
  <2> QED BY <1>1, <2>1, <2>2, QuietChange DEF SameContents, Resting
<1>6. CASE CreateInsert(w)
  <2>1. PICK a \in Fresh, d \in Uninit, c \in {"null", "wild"}, l \in {0, 1} :
           files' = [files EXCEPT ![a] = Created(Path(w), Client(w), l, d, c)]
    BY <1>6 DEF CreateInsert
  <2>2. a \in Files /\ files'[a].cont # "buffer" /\ \A b \in Files \ {a} : files'[b] = files[b]
    BY <1>1, <2>1 DEF Created, Fresh
  <2>3. Sized(files) /\ Sized(files')
    BY <1>1, FilesChange, SizedStep DEF AInv
  <2>4. /\ Weights(files', {})[a] = 0
        /\ \A b \in Files \ {a} : Weights(files', {})[b] = Weights(files, {})[b]
    BY <2>2 DEF Weights
  <2>5. Bytes(files', {}) = Bytes(files, {}) + Weights(files', {})[a] - Weights(files, {})[a]
    BY <2>2, <2>3, <2>4, BytesUpdate
  <2>6. Weights(files, {})[a] \in Nat /\ Bytes(files, {}) \in Int
    BY <2>2, <2>3, WeightsType, BytesType
  <2>7. Bytes(files', {}) <= Bytes(files, {})
    BY <2>4, <2>5, <2>6
  <2>8. /\ th[w].pc \in {"create", "createFull"} /\ UNCHANGED actual_size
        /\ \E l2 \in {"finish", "expel"} : Goto(w, l2) \/ \E s : Send(w, s, l2)
    BY <1>6 DEF CreateInsert, At, Answer
  <2>9. th'[w].ftosend = th[w].ftosend /\ th'[w].pc \in {"finish", "expel"}
    BY <2>8, Moved
  <2> QED BY <1>1, <2>7, <2>8, <2>9, PlainStep DEF Resting
<1> QED BY <1>2, <1>3, <1>4, <1>5, <1>6

LEMMA FileLedger ==
    ASSUME OneThread, ZeroFilled, IInv, AInv, NEW w \in Workers,
           \/ FileIsGone(w) \/ OpenFile(w) \/ OpenLock(w) \/ Locks(w) \/ Unlocks(w)
           \/ Close(w) \/ Read(w) \/ RemoveCheck(w)
    PROVE  AInv'
<1>1. files \in [Files -> File] /\ Serve(w)
  BY ThreadsType DEF Serve
<1>2. CASE FileIsGone(w)
  BY <1>2, HaltLedger DEF FileIsGone
<1>3. CASE ~FileIsGone(w)
  <2>1. th[w].pc = "file" /\ UNCHANGED actual_size
    BY <1>3 DEF OpenFile, OpenLock, Locks, Unlocks, Close, Read, RemoveCheck, OnFile,
                At, Store
  <2>2. SameContents
    <3>1. CASE OpenFile(w) \/ OpenLock(w) \/ Close(w)
      <4>1. CASE OpenFile(w)
        BY <1>1, <4>1 DEF OpenFile, File, SameContents
      <4>2. CASE OpenLock(w)
        BY <1>1, <4>2 DEF OpenLock, File, SameContents
      <4>3. CASE Close(w)
        BY <1>1, <4>3 DEF Close, File, SameContents
      <4> QED BY <3>1, <4>1, <4>2, <4>3
    <3>2. CASE Locks(w) \/ Unlocks(w)
      BY <1>1, <3>2 DEF Locks, Unlocks, File, SameContents
    <3>3. CASE Read(w) \/ RemoveCheck(w)
      BY <3>3 DEF Read, RemoveCheck, Store, SameContents
    <3> QED BY <1>3, <3>1, <3>2, <3>3
  <2>3. \/ Goto(w, "finish") \/ \E s : Send(w, s, "finish")
        \/ Goto(w, "removeBegin") /\ Op(w) = "REMOVE"
    BY <1>3 DEF OpenFile, OpenLock, Locks, Unlocks, Close, Read, RemoveCheck, OnFile,
                Answer
  <2>4. "finish" \in Resting
    BY DEF Resting
  <2>5. CASE Goto(w, "finish") \/ \E s : Send(w, s, "finish")
    BY <1>1, <2>1, <2>2, <2>4, <2>5, QuietMove
  <2>6. CASE Goto(w, "removeBegin") /\ Op(w) = "REMOVE"
    BY <1>1, <2>1, <2>2, <2>6, QuietMove
  <2> QED BY <2>3, <2>5, <2>6
<1> QED BY <1>2, <1>3

LEMMA CloseLedger ==
    ASSUME OneThread, ZeroFilled, IInv, AInv, NEW w \in Workers,
           \/ ReadN(w) \/ CloseBegin(w) \/ CloseWalk(w) \/ CloseEnd(w) \/ Finish(w)
           \/ Enqueue(w) \/ \E a \in Files : CloseUnlock(w, a)
    PROVE  AInv'
<1>1. th \in [Workers -> Thread] /\ th[w] \in Thread /\ files \in [Files -> File] /\ Serve(w)
  BY ThreadsType DEF Serve
<1>2. CASE \E k : Undefined(k)
  BY <1>2, HaltLedger
<1>3. CASE (ReadN(w) \/ CloseBegin(w) \/ Enqueue(w)) /\ ~\E k : Undefined(k)
  <2>1. th[w].pc \in {"readFiles", "closeBegin", "enqueue"} /\ UNCHANGED <<files, actual_size>>
    BY <1>3 DEF ReadN, CloseBegin, Enqueue, At, Store
  <2>2. \E l \in {"finish", "closeWalk"} : Goto(w, l) \/ \E s : Send(w, s, l)
    BY <1>3 DEF ReadN, CloseBegin, Enqueue, Answer
  <2> QED BY <1>1, <2>1, <2>2, QuietMove DEF SameContents, Resting
<1>4. CASE CloseWalk(w)
  <2> DEFINE t == [th[w] EXCEPT !.pc = "closing", !.todo = Stored(Hash)]
  <2>1. /\ th[w].pc = "closeWalk" /\ UNCHANGED <<files, actual_size>>
        /\ th' = [th EXCEPT ![w] = t]
    BY <1>4 DEF CloseWalk, At
  <2>2. t.pc = "closing" /\ t.ftosend = th[w].ftosend
    BY <1>1 DEF Thread
  <2> HIDE DEF t
  <2> QED BY <1>1, <2>1, <2>2, QuietChange DEF SameContents, Resting
<1>5. ASSUME NEW a \in Files, CloseUnlock(w, a), ~\E k : Undefined(k) PROVE AInv'
  <2> DEFINE t == [th[w] EXCEPT !.todo = @ \ {a}]
  <2>1. /\ th[w].pc = "closing" /\ UNCHANGED actual_size
        /\ th' = [th EXCEPT ![w] = t]
    BY <1>5 DEF CloseUnlock, At
  <2>2. t.pc = "closing" /\ t.ftosend = th[w].ftosend
    BY <1>1, <2>1 DEF Thread
  <2>3. SameContents
    BY <1>1, <1>5 DEF CloseUnlock, File, SameContents
  <2> HIDE DEF t
  <2> QED BY <1>1, <2>1, <2>2, <2>3, QuietChange DEF Resting
<1>6. CASE CloseEnd(w) \/ Finish(w)
  <2>1. /\ th[w].pc \in {"closing", "finish"} /\ UNCHANGED <<files, actual_size>>
        /\ th' = [th EXCEPT ![w] = Idle]
    BY <1>6 DEF CloseEnd, Finish, At, Store
  <2>2. th[w].ftosend = <<>>
    BY <2>1 DEF AInv, Balanced, Evicting
  <2>3. Idle.pc = "idle" /\ Idle.ftosend = <<>>
    BY DEF Idle
  <2> QED BY <1>1, <2>1, <2>2, <2>3, QuietChange DEF SameContents, Resting
<1> QED BY <1>2, <1>3, <1>4, <1>5, <1>6

\* The bytes of an APPEND are counted before anything is known of its file.
LEMMA LookupLedger ==
    ASSUME OneThread, ZeroFilled, IInv, AInv, NEW w \in Workers,
           Lookup(w) \/ AccountAppend(w)
    PROVE  AInv'
<1>1. th \in [Workers -> Thread] /\ th[w] \in Thread /\ Serve(w)
  BY ThreadsType DEF Serve
<1>2. CASE \E k : Undefined(k)
  BY <1>2, HaltLedger
<1>3. Balanced(th[w], files, actual_size) /\ Sized(files) /\ actual_size \in Int
  BY SizeType DEF AInv
<1>4. Bytes(files, {}) \in Int
  BY <1>3, BytesType
<1>5. CASE Lookup(w) /\ ~\E k : Undefined(k)
  <2>1. th[w].pc = "lookup" /\ UNCHANGED <<files, actual_size>>
    BY <1>5 DEF Lookup, At, Store
  <2>2. CASE \/ \E a : GotoWith(w, "file", a) /\ Op(w) # "APPEND"
             \/ \E s : Send(w, s, "finish")
    BY <1>1, <2>1, <2>2, QuietMove DEF SameContents, Resting
  <2>3. ASSUME NEW a, th' = [th EXCEPT ![w].pc = "accountAppend", ![w].f = a,
                                       ![w].tmp = actual_size]
        PROVE  AInv'
    <3> DEFINE t == [th[w] EXCEPT !.pc = "accountAppend", !.f = a, !.tmp = actual_size]
    <3>1. th'[w] = t
      BY <1>1, <2>3
    <3>2. t.pc = "accountAppend" /\ t.tmp = actual_size /\ t.ftosend = th[w].ftosend
      BY <1>1 DEF Thread
    <3> HIDE DEF t
    <3>3. th[w].ftosend = <<>> /\ actual_size >= Bytes(files, {}) /\ Bytes(files, {}) <= Space
      <4>1. /\ th[w].ftosend = <<>>
            /\ actual_size + Uncounted(th[w]) >= Bytes(files, {}) + Reserved(th[w])
        BY <1>3, <2>1, Settles DEF Evicting
      <4>2. Uncounted(th[w]) = 0 /\ Reserved(th[w]) = 0
        BY <2>1 DEF Uncounted, Reserved, EvictLabels
      <4>3. Bytes(files, {}) <= Space
        BY <1>3, <2>1 DEF Balanced, Unsettled, Evicting
      <4> QED BY <1>3, <1>4, <4>1, <4>2, <4>3
    <3>4. Uncounted(t) = 0 /\ Reserved(t) = 0
      BY <3>2 DEF Uncounted, Reserved, EvictLabels
    <3>5. actual_size + Uncounted(t) >= Bytes(files, {}) + Reserved(t)
      BY <1>3, <1>4, <3>3, <3>4
    <3>6. Balanced(t, files, actual_size)
      BY <3>2, <3>3, <3>5, Settled DEF Evicting, WriteLabels
    <3> QED BY <1>1, <2>1, <3>1, <3>6, LedgerStep
  <2> QED BY <1>5, <2>2, <2>3 DEF Lookup, Answer
<1>6. CASE AccountAppend(w)
  <2>1. /\ th[w].pc = "accountAppend" /\ UNCHANGED files
        /\ actual_size' = th[w].tmp + th[w].req.size /\ Goto(w, "file")
    BY <1>6 DEF AccountAppend, At
  <2>2. /\ th'[w].pc = "file" /\ th'[w].req = th[w].req /\ th'[w].ftosend = th[w].ftosend
    BY <2>1, Moved
  <2>3. th[w].req.size \in Nat /\ th[w].tmp = actual_size
    BY <1>3, <2>1, SizeType DEF Balanced
  <2>4. /\ th[w].ftosend = <<>> /\ Bytes(files, {}) <= Space
        /\ actual_size + Uncounted(th[w]) >= Bytes(files, {}) + Reserved(th[w])
    BY <1>3, <2>1, Settles DEF Evicting, Balanced, Unsettled
  <2>5. Uncounted(th[w]) = 0 /\ Reserved(th[w]) = 0
    BY <2>1 DEF Uncounted, Reserved, EvictLabels
  <2>6. Uncounted(th'[w]) = 0 /\ Reserved(th'[w]) \in {0, th[w].req.size}
    BY <2>2 DEF Uncounted, Reserved
  <2>7. actual_size' + Uncounted(th'[w]) >= Bytes(files, {}) + Reserved(th'[w])
    BY <1>3, <1>4, <2>1, <2>3, <2>4, <2>5, <2>6
  <2>8. Balanced(th'[w], files, actual_size')
    BY <2>2, <2>4, <2>7, Settled DEF Evicting, WriteLabels
  <2> QED BY <1>1, <2>1, <2>8, LedgerStep
<1> QED BY <1>2, <1>5, <1>6

\* WRITE stores its bytes before it counts them, and makes room last.
LEMMA WriteLedger ==
    ASSUME OneThread, ZeroFilled, IInv, OInv, AInv, NEW w \in Workers,
           Write(w) \/ AccountRead(w) \/ Account(w) \/ CheckSpace(w)
    PROVE  AInv'
<1>1. th \in [Workers -> Thread] /\ th[w] \in Thread /\ Serve(w)
  BY ThreadsType DEF Serve
<1>2. Balanced(th[w], files, actual_size) /\ Sized(files)
  BY DEF AInv
<1>3. Bytes(files, {}) \in Int /\ actual_size \in Int /\ files \in [Files -> File]
  BY <1>2, SizeType, BytesType
<1>4. th[w].pc \in {"file", "accountRead", "account", "checkSpace"}
  BY DEF Write, AccountRead, Account, CheckSpace, OnFile, At
<1>5. th[w].req.size \in Nat /\ th[w].f \in Files
  BY <1>4, SizeType, ThreadFacts DEF FileLabels
<1>6. /\ th[w].ftosend = <<>>
      /\ actual_size + Uncounted(th[w]) >= Bytes(files, {}) + Reserved(th[w])
  BY <1>2, <1>4, Settles DEF Evicting
<1>7. CASE Write(w)
  <2>1. CASE /\ Answer(w, "NOTOPEN") \/ Answer(w, "NOTPERMISSION")
             /\ UNCHANGED <<files, actual_size>>
    <3>1. \E m : Send(w, m, "finish")
      BY <2>1 DEF Answer
    <3>2. SameContents
      BY <2>1 DEF SameContents
    <3>3. th[w].pc \in {"file"} /\ "finish" \in Resting
      BY <1>7 DEF Write, OnFile, At, Resting
    <3> QED BY <1>1, <2>1, <3>1, <3>2, <3>3, QuietMove
  <2>2. CASE /\ files' = [files EXCEPT ![th[w].f].dim = th[w].req.size,
                                       ![th[w].f].cont = "buffer"]
             /\ Goto(w, "accountRead") /\ UNCHANGED actual_size
    <3> DEFINE a == th[w].f
    <3>1. /\ th'[w].pc = "accountRead" /\ th'[w].req = th[w].req
          /\ th'[w].ftosend = <<>> /\ th'[w].f = a
      BY <1>6, <2>2, Moved
    <3>2. /\ files'[a].alive /\ files'[a].cont = "buffer" /\ files'[a].dim = th[w].req.size
          /\ \A b \in Files \ {a} : files'[b] = files[b]
      <4>1. a \in Files /\ files \in [Files -> File] /\ files[a].alive
        BY <1>3, <1>5, <1>7 DEF Write, OnFile
      <4>2. files' = [files EXCEPT ![a].dim = th[w].req.size, ![a].cont = "buffer"]
        BY <2>2
      <4> HIDE DEF a
      <4>3. /\ files'[a] = [files[a] EXCEPT !.dim = th[w].req.size, !.cont = "buffer"]
            /\ \A b \in Files \ {a} : files'[b] = files[b]
        BY <4>1, <4>2
      <4>4. files[a] \in File
        BY <4>1
      <4> QED BY <4>1, <4>3, <4>4 DEF File
    <3>3. Sized(files')
      BY <1>1, <1>2, FilesChange, SizedStep
    <3>4. /\ Weights(files', {})[a] = th[w].req.size
          /\ \A b \in Files \ {a} : Weights(files', {})[b] = Weights(files, {})[b]
      BY <1>5, <3>2 DEF Weights
    <3>5. Bytes(files', {}) = Bytes(files, {}) + Weights(files', {})[a] - Weights(files, {})[a]
      BY <1>2, <1>5, <3>3, <3>4, BytesUpdate
    <3>6. Weights(files, {})[a] \in Nat
      BY <1>2, <1>5, WeightsType
    <3>7. th[w].pc = "file" /\ th[w].req.op = "WRITE"
      BY <1>7 DEF Write, OnFile, At, Op
    <3>8. Uncounted(th[w]) = 0 /\ Reserved(th[w]) = 0
      BY <3>7 DEF Uncounted, Reserved
    <3>9. Uncounted(th'[w]) = th[w].req.size /\ Reserved(th'[w]) = 0
      BY <3>1, <3>7 DEF Uncounted, Reserved
    <3> HIDE DEF a
    <3>10. actual_size + Uncounted(th'[w]) >= Bytes(files', {}) + Reserved(th'[w])
      BY <1>3, <1>5, <1>6, <3>4, <3>5, <3>6, <3>8, <3>9
    <3>11. Filled(files'[a])
      BY <3>2 DEF Filled
    <3>12. Balanced(th'[w], files', actual_size)
      BY <3>1, <3>10, <3>11, Settled DEF Evicting, Unsettled
    <3> QED BY <1>1, <2>2, <3>12, LedgerStep
  <2> QED BY <1>7, <2>1, <2>2 DEF Write
<1>8. ASSUME th[w].pc \in {"accountRead", "account", "checkSpace"}
      PROVE  /\ th[w].req.op = "WRITE" /\ Reserved(th[w]) = 0 /\ Filled(files[th[w].f])
  BY <1>2, <1>8 DEF OInv, Serves, WriteLabels, Reserved, Balanced
<1>9. CASE AccountRead(w)
  <2> DEFINE t == [th[w] EXCEPT !.pc = "account", !.tmp = actual_size]
  <2>1. /\ th[w].pc = "accountRead" /\ UNCHANGED <<files, actual_size>> /\ th'[w] = t
    BY <1>1, <1>9 DEF AccountRead, At, Store
  <2>2. /\ t.pc = "account" /\ t.tmp = actual_size /\ t.ftosend = th[w].ftosend
        /\ t.req = th[w].req /\ t.f = th[w].f
    BY <1>1 DEF Thread
  <2> HIDE DEF t
  <2>3. Uncounted(t) = Uncounted(th[w]) /\ Reserved(t) = 0
    BY <1>8, <2>1, <2>2 DEF Uncounted, Reserved
  <2>4. actual_size + Uncounted(t) >= Bytes(files, {}) + Reserved(t)
    BY <1>6, <1>8, <2>1, <2>3
  <2>5. Balanced(t, files, actual_size)
    BY <1>6, <1>8, <2>1, <2>2, <2>4, Settled DEF Evicting, Unsettled
  <2> QED BY <1>1, <2>1, <2>5, LedgerStep
<1>10. CASE Account(w)
  <2>1. /\ th[w].pc = "account" /\ UNCHANGED files
        /\ actual_size' = th[w].tmp + th[w].req.size /\ Goto(w, "checkSpace")
    BY <1>10 DEF Account, At
  <2>2. /\ th'[w].pc = "checkSpace" /\ th'[w].req = th[w].req
        /\ th'[w].ftosend = th[w].ftosend /\ th'[w].f = th[w].f
    BY <2>1, Moved
  <2>3. th[w].tmp = actual_size
    BY <1>2, <2>1 DEF Balanced
  <2>4. /\ Uncounted(th[w]) = th[w].req.size /\ Uncounted(th'[w]) = 0
        /\ Reserved(th'[w]) = 0
    BY <1>8, <2>1, <2>2 DEF Uncounted, Reserved, EvictLabels
  <2>5. actual_size' + Uncounted(th'[w]) >= Bytes(files, {}) + Reserved(th'[w])
    BY <1>3, <1>5, <1>6, <1>8, <2>1, <2>3, <2>4
  <2>6. Balanced(th'[w], files, actual_size')
    BY <1>6, <1>8, <2>1, <2>2, <2>5, Settled DEF Evicting, Unsettled
  <2> QED BY <1>1, <2>1, <2>6, LedgerStep
<1>11. CASE CheckSpace(w)
  <2>1. /\ th[w].pc = "checkSpace" /\ UNCHANGED <<files, actual_size>>
        /\ \/ actual_size < Space /\ Send(w, "SUCCESS", "enqueue")
           \/ Send(w, "SERVERFULL", "evictBegin")
    BY <1>11 DEF CheckSpace, At, Store
  <2>2. \A l : (\E s : Send(w, s, l)) =>
            /\ th'[w].pc = l /\ th'[w].req = th[w].req
            /\ th'[w].ftosend = th[w].ftosend /\ th'[w].f = th[w].f
    BY Moved
  <2>3. /\ th'[w].pc \in {"enqueue", "evictBegin"} /\ th'[w].req = th[w].req
        /\ th'[w].ftosend = th[w].ftosend /\ th'[w].f = th[w].f
        /\ th'[w].pc = "enqueue" => actual_size < Space
    BY <2>1, <2>2
  <2>4. Uncounted(th[w]) = 0 /\ Uncounted(th'[w]) = 0 /\ Reserved(th'[w]) = 0
    BY <1>8, <2>1, <2>3 DEF Uncounted, Reserved
  <2>5. /\ actual_size + Uncounted(th'[w]) >= Bytes(files, {}) + Reserved(th'[w])
        /\ actual_size >= Bytes(files, {})
    BY <1>3, <1>6, <1>8, <2>1, <2>4
  <2>6. th'[w].pc = "enqueue" => Bytes(files, {}) <= Space
    BY <1>3, <2>3, <2>5, WorkersAssumption
  <2>7. Balanced(th'[w], files, actual_size)
    BY <1>6, <1>8, <2>1, <2>3, <2>5, <2>6, Settled DEF Evicting, Unsettled
  <2> QED BY <1>1, <2>1, <2>7, LedgerStep
<1> QED BY <1>7, <1>9, <1>10, <1>11

\* APPEND makes room for its bytes before it stores them.
LEMMA AppendLedger ==
    ASSUME OneThread, ZeroFilled, IInv, OInv, AInv, NEW w \in Workers,
           AppendBegin(w) \/ AppendCopy(w)
    PROVE  AInv'
<1>1. th \in [Workers -> Thread] /\ th[w] \in Thread /\ Serve(w)
  BY ThreadsType DEF Serve
<1>2. Balanced(th[w], files, actual_size) /\ Sized(files)
  BY DEF AInv
<1>3. Bytes(files, {}) \in Int /\ actual_size \in Int /\ files \in [Files -> File]
  BY <1>2, SizeType, BytesType
<1>4. th[w].pc \in {"file", "appendCopy"} /\ th[w].req.op = "APPEND"
  BY DEF AppendBegin, AppendCopy, OnFile, At, Op, OInv, Serves, AppendLabels
<1>5. th[w].req.size \in Nat /\ th[w].f \in Files /\ Space \in Nat
  BY <1>4, SizeType, ThreadFacts, WorkersAssumption DEF FileLabels
<1>6. /\ th[w].ftosend = <<>> /\ Bytes(files, {}) <= Space
      /\ actual_size + Uncounted(th[w]) >= Bytes(files, {}) + Reserved(th[w])
  BY <1>2, <1>4, Settles DEF Evicting, Balanced, Unsettled
<1>7. Uncounted(th[w]) = 0 /\ Reserved(th[w]) = th[w].req.size
  BY <1>4 DEF Uncounted, Reserved
<1>8. CASE AppendBegin(w)
  <2>1. SameContents /\ UNCHANGED actual_size /\ th[w].pc = "file"
    BY <1>3, <1>8 DEF AppendBegin, OnFile, At, File, SameContents
  <2>2. CASE Answer(w, "NOTOPEN")
    BY <1>1, <2>1, <2>2, QuietMove DEF Answer, Resting
  <2>3. CASE Send(w, "SERVERFULL", "evictBegin") \/ (actual_size <= Space /\ Goto(w, "appendCopy"))
    <3>1. \A l : Goto(w, l) \/ (\E s : Send(w, s, l)) =>
              /\ th'[w].pc = l /\ th'[w].req = th[w].req
              /\ th'[w].ftosend = th[w].ftosend
      BY Moved
    <3>2. /\ th'[w].pc \in {"evictBegin", "appendCopy"} /\ th'[w].req = th[w].req
          /\ th'[w].ftosend = th[w].ftosend
          /\ th'[w].pc = "appendCopy" => actual_size <= Space
      <4>1. CASE Send(w, "SERVERFULL", "evictBegin")
        BY <3>1, <4>1
      <4>2. CASE actual_size <= Space /\ Goto(w, "appendCopy")
        <5>1. Goto(w, "appendCopy")
          BY <4>2
        <5> QED BY <3>1, <4>2, <5>1
      <4> QED BY <2>3, <4>1, <4>2
    <3>3. Uncounted(th'[w]) = 0 /\ Reserved(th'[w]) = th[w].req.size
      BY <1>4, <3>2 DEF Uncounted, Reserved, EvictLabels
    <3>4. Bytes(files', {}) = Bytes(files, {})
      BY <2>1, SameContentsBytes
    <3>5. /\ actual_size + Uncounted(th'[w]) >= Bytes(files', {}) + Reserved(th'[w])
          /\ Bytes(files', {}) <= Space
      BY <1>6, <1>7, <3>3, <3>4
    <3>6. Balanced(th'[w], files', actual_size)
      BY <1>4, <1>6, <3>2, <3>5, Settled DEF Evicting, WriteLabels
    <3> QED BY <1>1, <2>1, <3>6, LedgerStep
  <2>4. actual_size > Space \/ actual_size <= Space
    BY <1>3, <1>5
  <2> QED BY <1>8, <2>2, <2>3, <2>4 DEF AppendBegin
<1>9. CASE AppendCopy(w) /\ ~\E k : Undefined(k)
  <2> DEFINE a == th[w].f
  <2>1. /\ th[w].pc = "appendCopy" /\ UNCHANGED actual_size /\ Send(w, "SUCCESS", "finish")
        /\ files[a].alive /\ files'[a].alive /\ files'[a].cont = "buffer"
        /\ files'[a].dim = files[a].dim + th[w].req.size
        /\ files[a].cont = "buffer" \/ files[a].dim = 0
        /\ \A b \in Files \ {a} : files'[b] = files[b]
    <3>1. /\ th[w].pc = "appendCopy" /\ UNCHANGED actual_size /\ Send(w, "SUCCESS", "finish")
          /\ files[a].alive
          /\ files[a].cont = "buffer" \/ files[a].dim = 0
          /\ files' = [files EXCEPT ![a].dim = @ + th[w].req.size,
                                   ![a].cont = "buffer", ![a].mtxf = NONE]
      BY <1>9 DEF AppendCopy, At, Answer
    <3>2. a \in Files /\ files \in [Files -> File]
      BY <1>3, <1>5
    <3> HIDE DEF a
    <3>3. /\ files'[a] = [files[a] EXCEPT !.dim = @ + th[w].req.size,
                                          !.cont = "buffer", !.mtxf = NONE]
          /\ \A b \in Files \ {a} : files'[b] = files[b]
      BY <3>1, <3>2
    <3>4. files[a] \in File
      BY <3>2
    <3>5. /\ files'[a].alive = files[a].alive /\ files'[a].cont = "buffer"
          /\ files'[a].dim = files[a].dim + th[w].req.size
      BY <3>3, <3>4 DEF File
    <3> QED BY <3>1, <3>3, <3>5 DEF a
  <2>2. Sized(files')
    BY <1>1, <1>2, FilesChange, SizedStep
  <2>3. /\ Weights(files', {})[a] = Weights(files, {})[a] + th[w].req.size
        /\ \A b \in Files \ {a} : Weights(files', {})[b] = Weights(files, {})[b]
    <3>1. Weights(files, {})[a] = files[a].dim
      BY <1>5, <2>1 DEF Weights
    <3>2. Weights(files', {})[a] = files'[a].dim
      BY <1>5, <2>1 DEF Weights
    <3>3. \A b \in Files \ {a} : Weights(files', {})[b] = Weights(files, {})[b]
      BY <2>1 DEF Weights
    <3> QED BY <2>1, <3>1, <3>2, <3>3
  <2>4. Bytes(files', {}) = Bytes(files, {}) + Weights(files', {})[a] - Weights(files, {})[a]
    BY <1>2, <1>5, <2>2, <2>3, BytesUpdate
  <2>5. Weights(files, {})[a] \in Nat
    BY <1>2, <1>5, WeightsType
  <2>6. /\ th'[w].pc = "finish" /\ th'[w].ftosend = <<>>
    BY <1>6, <2>1, Moved
  <2>7. Uncounted(th'[w]) = 0 /\ Reserved(th'[w]) = 0
    BY <2>6 DEF Uncounted, Reserved, EvictLabels
  <2> HIDE DEF a
  <2>8. actual_size >= Bytes(files', {}) /\ Bytes(files', {}) \in Int
    BY <1>3, <1>5, <1>6, <1>7, <2>3, <2>4, <2>5
  <2>9. actual_size <= Space
    BY <1>2, <2>1 DEF Balanced
  <2>10. /\ actual_size + Uncounted(th'[w]) >= Bytes(files', {}) + Reserved(th'[w])
         /\ Bytes(files', {}) <= Space
    BY <1>3, <1>5, <2>7, <2>8, <2>9
  <2>11. Balanced(th'[w], files', actual_size)
    BY <2>6, <2>10, Settled DEF Evicting, WriteLabels
  <2> QED BY <1>1, <2>1, <2>11, LedgerStep
<1>10. CASE \E k : Undefined(k)
  BY <1>10, HaltLedger
<1> QED BY <1>8, <1>9, <1>10

\* REMOVE subtracts the bytes before it frees them.
LEMMA RemoveLedger ==
    ASSUME OneThread, ZeroFilled, IInv, OInv, AInv, NEW w \in Workers,
           RemoveBegin(w) \/ RemoveUnlink(w) \/ RemoveFifo(w)
    PROVE  AInv'
<1>1. th \in [Workers -> Thread] /\ th[w] \in Thread /\ Serve(w)
  BY ThreadsType DEF Serve
<1>2. Balanced(th[w], files, actual_size) /\ Sized(files)
  BY DEF AInv
<1>3. actual_size \in Int /\ files \in [Files -> File] /\ \A g : Bytes(files, g) \in Int
  BY <1>2, SizeType, BytesType
<1>4. th[w].pc \in {"removeBegin", "removeUnlink", "removeFifo"}
  BY DEF RemoveBegin, RemoveUnlink, RemoveFifo, At
<1>5. th[w].f \in Files /\ Space \in Nat
  BY <1>4, ThreadFacts, WorkersAssumption DEF FileLabels
<1>6. CASE \E k : Undefined(k)
  BY <1>6, HaltLedger
<1>7. ASSUME th[w].pc # "removeFifo"
      PROVE  /\ th[w].ftosend = <<>> /\ actual_size >= Bytes(files, {})
             /\ Bytes(files, {}) <= Space
             /\ th[w].req.op = "REMOVE" /\ "REMOVE" \in Ops
  <2>1. /\ th[w].ftosend = <<>>
        /\ actual_size + Uncounted(th[w]) >= Bytes(files, {}) + Reserved(th[w])
    BY <1>2, <1>4, <1>7, Settles DEF Evicting
  <2>2. Uncounted(th[w]) = 0 /\ Reserved(th[w]) = 0
    BY <1>4 DEF Uncounted, Reserved, EvictLabels
  <2>3. actual_size >= Bytes(files, {})
    BY <1>3, <2>1, <2>2
  <2> QED BY <1>2, <1>4, <1>7, <2>1, <2>3 DEF Balanced, Unsettled, Evicting, OInv, Serves
<1>8. CASE RemoveBegin(w)
  <2> DEFINE t == [th[w] EXCEPT !.pc = "removeUnlink", !.tmp = actual_size]
  <2>1. /\ th[w].pc = "removeBegin" /\ UNCHANGED <<files, actual_size>> /\ th'[w] = t
    BY <1>1, <1>8 DEF RemoveBegin, At
  <2>2. /\ t.pc = "removeUnlink" /\ t.tmp = actual_size /\ t.ftosend = th[w].ftosend
        /\ t.req = th[w].req
    BY <1>1 DEF Thread
  <2> HIDE DEF t
  <2>3. Uncounted(t) = 0 /\ Reserved(t) = 0
    BY <2>2 DEF Uncounted, Reserved, EvictLabels
  <2>4. actual_size + Uncounted(t) >= Bytes(files, {}) + Reserved(t)
    BY <1>3, <1>7, <2>1, <2>3
  <2>5. Balanced(t, files, actual_size)
    BY <1>7, <2>1, <2>2, <2>4, Settled DEF Evicting, WriteLabels
  <2> QED BY <1>1, <2>1, <2>5, LedgerStep
<1>9. CASE RemoveUnlink(w) /\ ~\E k : Undefined(k)
  <2> DEFINE a == th[w].f
  <2>1. /\ th[w].pc = "removeUnlink" /\ UNCHANGED files /\ files[a].alive
        /\ actual_size' = th[w].tmp - files[a].dim /\ Goto(w, "removeFifo")
    BY <1>9 DEF RemoveUnlink, At
  <2>2. th'[w].pc = "removeFifo" /\ th'[w].ftosend = <<>> /\ th'[w].f = a
    BY <1>7, <2>1, Moved
  <2>3. th[w].tmp = actual_size /\ files[a].dim \in Nat
    BY <1>2, <1>5, <2>1 DEF Balanced, Sized
  <2>4. Weights(files, {})[a] = files[a].dim
    <3>1. files[a].cont # "buffer" => files[a].dim = 0
      BY <1>2, <1>5, <1>7, <2>1 DEF Sized
    <3> QED BY <1>5, <2>1, <3>1 DEF Weights
  <2>5. Bytes(files, {a}) = Bytes(files, {}) - Weights(files, {})[a]
    <3>1. a \in Files /\ a \notin {} /\ {} \cup {a} = {a}
      BY <1>5
    <3> HIDE DEF a
    <3>2. Bytes(files, {} \cup {a}) = Bytes(files, {}) - Weights(files, {})[a]
      BY <1>2, <3>1, BytesWithout
    <3> QED BY <3>1, <3>2
  <2>6. Gone(th'[w]) = {a} /\ Uncounted(th'[w]) = 0 /\ Reserved(th'[w]) = 0
    BY <2>2, NoVictims DEF Gone, Uncounted, Reserved, EvictLabels
  <2> HIDE DEF a
  <2>7. actual_size' + Uncounted(th'[w]) >= Bytes(files, Gone(th'[w])) + Reserved(th'[w])
    BY <1>3, <1>7, <2>1, <2>3, <2>4, <2>5, <2>6
  <2>8. Balanced(th'[w], files, actual_size')
    BY <1>7, <2>1, <2>2, <2>7 DEF Balanced, Evicting, WriteLabels, EvictLabels
  <2> QED BY <1>1, <2>1, <2>8, LedgerStep
<1>10. CASE RemoveFifo(w) /\ ~\E k : Undefined(k)
  <2> DEFINE a == th[w].f
  <2>1. /\ th[w].pc = "removeFifo" /\ UNCHANGED actual_size
        /\ files' = [files EXCEPT ![a] = NoFile] /\ Send(w, "SUCCESS", "finish")
    BY <1>10 DEF RemoveFifo, At, Answer
  <2>2. th'[w].pc = "finish" /\ th'[w].ftosend = th[w].ftosend
    BY <2>1, Moved
  <2>3. th[w].ftosend = <<>> /\ Gone(th[w]) = {a} /\ Bytes(files, {}) <= Space
    BY <1>2, <2>1, NoVictims DEF Balanced, Evicting, Unsettled, Gone
  <2>4. actual_size + Uncounted(th[w]) >= Bytes(files, {a}) + Reserved(th[w])
    BY <1>2, <2>3, NoVictims DEF Balanced
  <2>5. Uncounted(th[w]) = 0 /\ Reserved(th[w]) = 0
    BY <2>1 DEF Uncounted, Reserved, EvictLabels
  <2>6. Uncounted(th'[w]) = 0 /\ Reserved(th'[w]) = 0
    BY <2>2 DEF Uncounted, Reserved, EvictLabels
  <2>7. files'[a] = NoFile /\ \A b \in Files \ {a} : files'[b] = files[b]
    BY <1>3, <1>5, <2>1
  <2>8. /\ Weights(files', {})[a] = 0
        /\ \A b \in Files : Weights(files', {})[b] = Weights(files, {a})[b]
        /\ \A b \in Files \ {a} : Weights(files', {})[b] = Weights(files, {})[b]
    BY <1>5, <2>7 DEF Weights, NoFile
  <2>9. Bytes(files', {}) = Bytes(files, {a})
    BY <2>8, BytesSame
  <2>10. Sized(files')
    BY <1>1, <1>2, FilesChange, SizedStep
  <2>11. Bytes(files', {}) = Bytes(files, {}) + Weights(files', {})[a] - Weights(files, {})[a]
    BY <1>2, <1>5, <2>8, <2>10, BytesUpdate
  <2>12. Weights(files, {})[a] \in Nat
    BY <1>2, <1>5, WeightsType
  <2> HIDE DEF a
  <2>13. Bytes(files', {}) <= Space
    BY <1>3, <1>5, <2>3, <2>8, <2>11, <2>12
  <2>14. actual_size + Uncounted(th'[w]) >= Bytes(files', {}) + Reserved(th'[w])
    BY <1>3, <2>4, <2>5, <2>6, <2>9
  <2>15. Balanced(th'[w], files', actual_size)
    BY <2>2, <2>3, <2>13, <2>14, Settled DEF Evicting, WriteLabels
  <2> QED BY <1>1, <2>1, <2>15, LedgerStep
<1> QED BY <1>6, <1>8, <1>9, <1>10

\* The victims of an eviction: one more, and one less.
LEMMA SendableAppend ==
    ASSUME NEW fs, NEW s \in Seq(Files), NEW v \in Files, Sendable(Append(s, v), fs)
    PROVE  Sendable(s, fs) /\ v \notin ToSet(s) /\ fs[v].alive
<1>1. /\ Len(s) \in Nat /\ Len(Append(s, v)) = Len(s) + 1
      /\ \A i \in 1 .. Len(s) : Append(s, v)[i] = s[i]
      /\ Append(s, v)[Len(s) + 1] = v
  BY LenProperties, AppendProperties
<1>2. fs[v].alive /\ \A i \in 1 .. Len(s) : s[i] # v
  BY <1>1 DEF Sendable
<1>3. Sendable(s, fs)
  BY <1>1 DEF Sendable
<1>4. \A x \in ToSet(s) : \E i \in 1 .. Len(s) : x = s[i]
  BY <1>1 DEF ToSet
<1> QED BY <1>2, <1>3, <1>4

LEMMA ToSetAppend ==
    ASSUME NEW s \in Seq(Files), NEW v \in Files
    PROVE  ToSet(Append(s, v)) = ToSet(s) \cup {v}
<1>1. /\ Len(s) \in Nat /\ Append(s, v) \in Seq(Files) /\ Len(Append(s, v)) = Len(s) + 1
      /\ \A i \in 1 .. Len(s) : Append(s, v)[i] = s[i]
      /\ Append(s, v)[Len(s) + 1] = v
  BY LenProperties, AppendProperties
<1>2. /\ ToSet(s) = {s[i] : i \in 1 .. Len(s)}
      /\ ToSet(Append(s, v)) = {Append(s, v)[i] : i \in 1 .. Len(Append(s, v))}
  BY <1>1 DEF ToSet
<1>3. ToSet(Append(s, v)) \subseteq ToSet(s) \cup {v}
  BY <1>1, <1>2
<1>4. ToSet(s) \subseteq ToSet(Append(s, v)) /\ v \in ToSet(Append(s, v))
  BY <1>1, <1>2
<1> QED BY <1>3, <1>4

LEMMA SendableTail ==
    ASSUME NEW fs \in [Files -> File], NEW s \in Seq(Files), s # <<>>, fs[Head(s)].alive,
           Sendable(Tail(s), [fs EXCEPT ![Head(s)] = NoFile])
    PROVE  /\ Sendable(s, fs)
           /\ \A a \in Files \ {Head(s)} : a \in ToSet(s) <=> a \in ToSet(Tail(s))
           /\ Head(s) \in ToSet(s)
<1> DEFINE h == Head(s)
           t == Tail(s)
           gs == [fs EXCEPT ![h] = NoFile]
<1>1. /\ Len(s) \in Nat \ {0} /\ Len(t) = Len(s) - 1 /\ h = s[1] /\ h \in Files
      /\ \A i \in 1 .. Len(t) : t[i] = s[i + 1]
      /\ \A i \in 1 .. Len(s) : s[i] \in Files
  BY HeadTailProperties, LenProperties, ElementOfSeq
<1>2. ~gs[h].alive /\ \A a \in Files \ {h} : gs[a] = fs[a]
  BY <1>1 DEF NoFile
<1>3. \A i \in 1 .. Len(t) : gs[t[i]].alive /\ \A j \in 1 .. Len(t) : i # j => t[i] # t[j]
  BY DEF Sendable
<1> HIDE DEF h, t, gs
<1>4. \A i \in 2 .. Len(s) : i - 1 \in 1 .. Len(t) /\ s[i] = t[i - 1]
  BY <1>1
<1>5. \A i \in 2 .. Len(s) : s[i] # h /\ fs[s[i]].alive
  <2> TAKE i \in 2 .. Len(s)
  <2>1. gs[s[i]].alive /\ s[i] \in Files
    BY <1>1, <1>3, <1>4
  <2> QED BY <1>2, <2>1
<1>6. \A i, j \in 2 .. Len(s) : i # j => s[i] # s[j]
  <2> TAKE i, j \in 2 .. Len(s)
  <2>1. i # j => i - 1 # j - 1
    OBVIOUS
  <2> QED BY <1>3, <1>4, <2>1
<1>7. \A i \in 1 .. Len(s) : i = 1 \/ i \in 2 .. Len(s)
  BY <1>1
<1>8. fs[s[1]].alive
  BY <1>1 DEF h
<1>9. Sendable(s, fs)
  BY <1>1, <1>5, <1>6, <1>7, <1>8 DEF Sendable
<1>10. ToSet(s) = {s[i] : i \in 1 .. Len(s)} /\ ToSet(t) = {t[i] : i \in 1 .. Len(t)}
  BY DEF ToSet
<1>11. \A a \in Files \ {h} : a \in ToSet(s) <=> a \in ToSet(t)
  BY <1>1, <1>4, <1>7, <1>10
<1>12. h \in ToSet(s)
  BY <1>1, <1>10
<1> QED BY <1>9, <1>11, <1>12 DEF h, t

\* What Balanced says at the labels of an eviction.
LEMMA Evicts ==
    ASSUME NEW t, NEW fs, NEW n, t.pc \in Evicting,
           Sendable(t.ftosend, fs) => n >= Bytes(fs, ToSet(t.ftosend)) + Reserved(t),
           t.pc = "evictAccount" => t.tmp = n /\ Filled(fs[t.victim]),
           t.pc = "evictSend" => n <= Space,
           t.req.op = "WRITE" => Filled(fs[t.f]),
           n \in Int
    PROVE  Balanced(t, fs, n)
<1>1. Gone(t) = ToSet(t.ftosend) /\ Uncounted(t) = 0
  BY DEF Gone, Uncounted, Evicting
<1>2. n + Uncounted(t) = n
  BY <1>1
<1> QED BY <1>1, <1>2 DEF Balanced, Evicting, Unsettled, WriteLabels

LEMMA Evicted ==
    ASSUME NEW t, NEW fs, NEW n \in Int, t.pc \in Evicting, Balanced(t, fs, n)
    PROVE  Sendable(t.ftosend, fs) => n >= Bytes(fs, ToSet(t.ftosend)) + Reserved(t)
<1>1. Gone(t) = ToSet(t.ftosend) /\ Uncounted(t) = 0
  BY DEF Gone, Uncounted, Evicting
<1>2. n + Uncounted(t) = n
  BY <1>1
<1> QED BY <1>1, <1>2 DEF Balanced

\* Handlercapacity(): the bytes of a victim are subtracted when it is chosen.
LEMMA EvictLedger ==
    ASSUME OneThread, ZeroFilled, IInv, OInv, AInv, NEW w \in Workers,
           \/ EvictBegin(w) \/ EvictTake(w) \/ EvictAccount(w) \/ EvictEnough(w)
           \/ EvictSend(w) \/ EvictEnd(w)
    PROVE  AInv'
<1>1. th \in [Workers -> Thread] /\ th[w] \in Thread /\ Serve(w)
  BY ThreadsType DEF Serve
<1>2. Balanced(th[w], files, actual_size) /\ Sized(files)
  BY DEF AInv
<1>3. actual_size \in Int /\ files \in [Files -> File] /\ \A g : Bytes(files, g) \in Int
  BY <1>2, SizeType, BytesType
<1>4. th[w].pc \in EvictLabels
  BY DEF EvictBegin, EvictTake, EvictAccount, EvictEnough, EvictSend, EvictEnd, At,
         EvictLabels
<1>5. /\ th[w].req.op \in {"WRITE", "APPEND"} /\ th[w].req.size \in Nat
      /\ th[w].f \in Files /\ th[w].ftosend \in Seq(Files) /\ Space \in Nat
  BY <1>1, <1>4, SizeType, ThreadFacts, WorkersAssumption
     DEF OInv, Serves, EvictLabels, FileLabels, WithContent, Thread
<1>6. th[w].req.op = "WRITE" => Filled(files[th[w].f])
  BY <1>2, <1>4 DEF Balanced
<1>7. CASE \E k : Undefined(k)
  BY <1>7, HaltLedger
<1>8. CASE EvictBegin(w)
  <2>1. th[w].pc = "evictBegin" /\ UNCHANGED <<files, actual_size>> /\ Goto(w, "evict")
    BY <1>8 DEF EvictBegin, At
  <2>2. /\ th[w].ftosend = <<>>
        /\ actual_size + Uncounted(th[w]) >= Bytes(files, {}) + Reserved(th[w])
    BY <1>2, <2>1, Settles DEF Evicting
  <2>3. /\ th'[w].pc = "evict" /\ th'[w].req = th[w].req
        /\ th'[w].ftosend = th[w].ftosend /\ th'[w].f = th[w].f
    BY <2>1, Moved
  <2>4. Uncounted(th[w]) = 0 /\ Reserved(th'[w]) = Reserved(th[w])
    BY <2>1, <2>3 DEF Uncounted, Reserved, EvictLabels
  <2>5. actual_size + Uncounted(th[w]) = actual_size
    BY <1>3, <2>4
  <2>6. actual_size >= Bytes(files, ToSet(th'[w].ftosend)) + Reserved(th'[w])
    BY <2>2, <2>3, <2>4, <2>5, NoVictims
  <2>7. Balanced(th'[w], files, actual_size)
    BY <1>3, <1>6, <2>3, <2>6, Evicts DEF Evicting
  <2> QED BY <1>1, <2>1, <2>7, LedgerStep
<1>9. ASSUME th[w].pc \in Evicting
      PROVE  Sendable(th[w].ftosend, files) =>
                actual_size >= Bytes(files, ToSet(th[w].ftosend)) + Reserved(th[w])
  BY <1>2, <1>3, <1>9, Evicted
<1>10. CASE EvictTake(w) /\ ~\E k : Undefined(k)
  <2> DEFINE v == Head(fifo.nodes).cont
             t == [th[w] EXCEPT !.pc = "evictAccount", !.victim = v, !.tmp = actual_size]
  <2>1. /\ th[w].pc = "evict" /\ UNCHANGED <<files, actual_size>> /\ th'[w] = t
        /\ takeHeadSafe(fifo)
    BY <1>1, <1>10 DEF EvictTake, At
  <2>2. /\ t.pc = "evictAccount" /\ t.victim = v /\ t.tmp = actual_size
        /\ t.ftosend = th[w].ftosend /\ t.req = th[w].req /\ t.f = th[w].f
    BY <1>1 DEF Thread
  <2>3. Filled(files[v])
    <3>1. fifo.nodes \in Seq(Entry) /\ fifo.nodes # <<>>
      BY <2>1 DEF takeHeadSafe, isEmpty, IInv, TypeOK, ListOf
    <3>2. 1 \in 1 .. Len(fifo.nodes) /\ Head(fifo.nodes) = fifo.nodes[1]
      BY <3>1, HeadTailProperties, LenProperties, EmptySeq
    <3>3. v \in FilesIn(fifo)
      BY <3>2 DEF FilesIn
    <3> QED BY <3>3 DEF AInv
  <2> HIDE DEF t, v
  <2>4. Reserved(t) = Reserved(th[w])
    BY <2>1, <2>2 DEF Reserved, EvictLabels
  <2>5. Sendable(t.ftosend, files) =>
           actual_size >= Bytes(files, ToSet(t.ftosend)) + Reserved(t)
    BY <1>9, <2>1, <2>2, <2>4 DEF Evicting
  <2>6. Balanced(t, files, actual_size)
    BY <1>3, <1>6, <2>2, <2>3, <2>5, Evicts DEF Evicting
  <2> QED BY <1>1, <2>1, <2>6, LedgerStep
<1>11. CASE EvictAccount(w) /\ ~\E k : Undefined(k)
  <2> DEFINE v == th[w].victim
             s == th[w].ftosend
             t == [th[w] EXCEPT !.pc = "evict", !.victim = NONE, !.ftosend = Append(@, v)]
  <2>1. /\ th[w].pc = "evictAccount" /\ UNCHANGED files /\ th'[w] = t
        /\ files[v].alive /\ actual_size' = th[w].tmp - files[v].dim
    BY <1>1, <1>11 DEF EvictAccount, At
  <2>2. /\ t.pc = "evict" /\ t.ftosend = Append(s, v)
        /\ t.req = th[w].req /\ t.f = th[w].f
    BY <1>1 DEF Thread
  <2>3. v \in Files /\ files[v].dim \in Nat /\ th[w].tmp = actual_size /\ Filled(files[v])
    BY <1>2, <2>1, ThreadFacts DEF LocalOK, Balanced, Sized
  <2> HIDE DEF t, v, s
  <2>4. s \in Seq(Files)
    BY <1>5 DEF s
  <2>5. Reserved(t) = Reserved(th[w]) /\ Reserved(t) \in Nat
    BY <1>5, <2>1, <2>2 DEF Reserved, EvictLabels
  <2>6. ASSUME Sendable(t.ftosend, files)
        PROVE  actual_size' >= Bytes(files, ToSet(t.ftosend)) + Reserved(t)
    <3>1. Sendable(s, files) /\ v \notin ToSet(s)
      BY <2>2, <2>3, <2>4, <2>6, SendableAppend
    <3>2. actual_size >= Bytes(files, ToSet(s)) + Reserved(th[w])
      BY <1>9, <2>1, <3>1 DEF s, Evicting
    <3>3. ToSet(t.ftosend) = ToSet(s) \cup {v}
      BY <2>2, <2>3, <2>4, ToSetAppend
    <3>4. Weights(files, ToSet(s))[v] = files[v].dim
      BY <2>1, <2>3, <3>1 DEF Weights, Filled
    <3>5. Bytes(files, ToSet(t.ftosend)) = Bytes(files, ToSet(s)) - files[v].dim
      BY <1>2, <2>3, <3>1, <3>3, <3>4, BytesWithout
    <3>6. Bytes(files, ToSet(s)) \in Int
      BY <1>3
    <3> QED BY <1>3, <2>1, <2>3, <2>5, <3>2, <3>5, <3>6
  <2>7. actual_size' \in Int
    BY <1>3, <2>1, <2>3
  <2>8. Balanced(t, files, actual_size')
    <3>1. /\ t.pc \in Evicting /\ t.pc # "evictAccount" /\ t.pc # "evictSend"
          /\ t.req.op = "WRITE" => Filled(files[t.f])
      BY <1>6, <2>2 DEF Evicting
    <3>2. PICK n : n = actual_size'
      OBVIOUS
    <3> QED BY <2>6, <2>7, <3>1, <3>2, Evicts
  <2> QED BY <1>1, <2>1, <2>8, LedgerStep
<1>12. CASE EvictEnough(w)
  <2>1. /\ th[w].pc = "evict" /\ UNCHANGED <<files, actual_size>> /\ Goto(w, "evictSend")
        /\ actual_size <= Space
    BY <1>12 DEF EvictEnough, At, Store
  <2>2. /\ th'[w].pc = "evictSend" /\ th'[w].req = th[w].req
        /\ th'[w].ftosend = th[w].ftosend /\ th'[w].f = th[w].f
    BY <2>1, Moved
  <2>3. Reserved(th'[w]) = Reserved(th[w])
    BY <2>1, <2>2 DEF Reserved, EvictLabels
  <2>4. Sendable(th'[w].ftosend, files) =>
           actual_size >= Bytes(files, ToSet(th'[w].ftosend)) + Reserved(th'[w])
    BY <1>9, <2>1, <2>2, <2>3 DEF Evicting
  <2>5. Balanced(th'[w], files, actual_size)
    BY <1>3, <1>6, <2>1, <2>2, <2>4, Evicts DEF Evicting
  <2> QED BY <1>1, <2>1, <2>5, LedgerStep
<1>13. CASE EvictSend(w) /\ ~\E k : Undefined(k)
  <2> DEFINE s == th[w].ftosend
             h == Head(s)
             t == [th[w] EXCEPT !.ftosend = Tail(@)]
  <2>1. /\ th[w].pc = "evictSend" /\ UNCHANGED actual_size /\ th'[w] = t /\ s # <<>>
        /\ files[h].alive /\ files' = [files EXCEPT ![h] = NoFile]
    BY <1>1, <1>13 DEF EvictSend, At
  <2>2. /\ t.pc = "evictSend" /\ t.ftosend = Tail(s) /\ t.req = th[w].req /\ t.f = th[w].f
    BY <1>1, <2>1 DEF Thread
  <2>3. h \in Files /\ s \in Seq(Files)
    BY <1>5, <2>1, HeadTailProperties
  <2>4. files'[h] = NoFile /\ \A b \in Files \ {h} : files'[b] = files[b]
    BY <1>3, <2>1, <2>3
  <2>5. Reserved(t) = Reserved(th[w])
    BY <2>1, <2>2 DEF Reserved, EvictLabels
  <2>6. ASSUME Sendable(t.ftosend, files')
        PROVE  actual_size >= Bytes(files', ToSet(t.ftosend)) + Reserved(t)
    <3> HIDE DEF t, h, s
    <3>1. /\ Sendable(s, files)
          /\ \A a \in Files \ {h} : a \in ToSet(s) <=> a \in ToSet(t.ftosend)
          /\ h \in ToSet(s)
      BY <1>3, <2>1, <2>2, <2>3, <2>6, SendableTail DEF h
    <3>2. actual_size >= Bytes(files, ToSet(s)) + Reserved(th[w])
      BY <1>9, <2>1, <3>1 DEF s, Evicting
    <3>3. \A a \in Files : Weights(files', ToSet(t.ftosend))[a] = Weights(files, ToSet(s))[a]
      <4>1. NoFile.alive = FALSE
        BY DEF NoFile
      <4>2. Weights(files', ToSet(t.ftosend))[h] = 0 /\ Weights(files, ToSet(s))[h] = 0
        BY <2>3, <2>4, <3>1, <4>1 DEF Weights
      <4>3. \A a \in Files \ {h} :
               Weights(files', ToSet(t.ftosend))[a] = Weights(files, ToSet(s))[a]
        BY <2>4, <3>1 DEF Weights
      <4> QED BY <4>2, <4>3
    <3>4. Bytes(files', ToSet(t.ftosend)) = Bytes(files, ToSet(s))
      BY <3>3, BytesSame
    <3> QED BY <2>5, <3>2, <3>4
  <2>7. actual_size <= Space
    BY <1>2, <2>1 DEF Balanced
  <2>8. th[w].req.op = "WRITE" => Filled(files'[th[w].f])
    <3>1. NoFile.alive = FALSE
      BY DEF NoFile
    <3>2. CASE th[w].f = h
      BY <2>4, <3>1, <3>2 DEF Filled
    <3>3. CASE th[w].f # h
      BY <1>5, <1>6, <2>4, <3>3
    <3> QED BY <3>2, <3>3
  <2> HIDE DEF t, h, s
  <2>9. Balanced(t, files', actual_size)
    <3>1. /\ t.pc \in Evicting /\ t.pc # "evictAccount"
          /\ t.req.op = "WRITE" => Filled(files'[t.f])
      BY <2>2, <2>8 DEF Evicting
    <3>2. PICK fs : fs = files'
      OBVIOUS
    <3> QED BY <1>3, <2>6, <2>7, <3>1, <3>2, Evicts
  <2> QED BY <1>1, <2>1, <2>9, LedgerStep
<1>14. CASE EvictEnd(w)
  <2>1. /\ th[w].pc = "evictSend" /\ UNCHANGED <<files, actual_size>>
        /\ th[w].ftosend = <<>>
        /\ Goto(w, IF Op(w) = "WRITE" THEN "enqueue" ELSE "appendCopy")
    BY <1>14 DEF EvictEnd, At
  <2>2. /\ th'[w].pc = IF th[w].req.op = "WRITE" THEN "enqueue" ELSE "appendCopy"
        /\ th'[w].req = th[w].req
        /\ th'[w].ftosend = <<>> /\ th'[w].f = th[w].f
    BY <2>1, Moved DEF Op
  <2>3. actual_size >= Bytes(files, {}) + Reserved(th[w]) /\ actual_size <= Space
    BY <1>2, <1>9, <2>1, NoVictims DEF Evicting, Balanced
  <2>4. /\ Reserved(th[w]) = IF th[w].req.op = "APPEND" THEN th[w].req.size ELSE 0
        /\ Uncounted(th'[w]) = 0 /\ Reserved(th'[w]) = Reserved(th[w])
    BY <1>5, <2>1, <2>2 DEF Uncounted, Reserved, EvictLabels
  <2>5. /\ actual_size + Uncounted(th'[w]) >= Bytes(files, {}) + Reserved(th'[w])
        /\ Bytes(files, {}) <= Space
    BY <1>3, <1>5, <2>3, <2>4
  <2>6. Balanced(th'[w], files, actual_size)
    BY <1>5, <1>6, <2>2, <2>3, <2>5, Settled DEF Evicting, WriteLabels
  <2> QED BY <1>1, <2>1, <2>6, LedgerStep
<1> QED BY <1>7, <1>8, <1>10, <1>11, <1>12, <1>13, <1>14

\* A thread takes a request: nothing is pending yet.
LEMMA BeginLedger ==
    ASSUME OneThread, IInv, AInv, NEW w \in Workers, NEW r, th[w].pc = "idle",
           Begin(w, r), UNCHANGED Store
    PROVE  AInv'
<1> DEFINE t == [th[w] EXCEPT !.pc = Entrypoint(r.op), !.req = r]
<1>1. th \in [Workers -> Thread] /\ th[w] \in Thread
  BY ThreadsType
<1>2. th'[w] = t /\ UNCHANGED <<files, actual_size, fifo>>
  BY <1>1 DEF Begin, Store
<1>3. t.pc = Entrypoint(r.op) /\ t.ftosend = th[w].ftosend
  BY <1>1 DEF Thread
<1>4. t.pc \in Resting
  BY <1>3 DEF Entrypoint, Resting
<1> HIDE DEF t
<1>5. Balanced(th[w], files, actual_size) /\ Sized(files) /\ actual_size \in Int
  BY SizeType DEF AInv
<1>6. Bytes(files, {}) <= Bytes(files, {})
  BY <1>5, BytesType
<1>7. th[w].pc \in Resting /\ th[w].pc # "file"
  BY DEF Resting
<1>8. Balanced(t, files, actual_size)
  BY <1>3, <1>4, <1>5, <1>6, <1>7, PlainMove
<1>9. \A v \in Workers : Balanced(th'[v], files', actual_size')
  BY <1>2, <1>8 DEF OneThread
<1> QED BY <1>2, <1>9 DEF AInv

LEMMA InitLedger == ASSUME Init PROVE AInv
<1>1. files = [a \in Files |-> NoFile] /\ fifo = EmptyList /\ actual_size = 0
  BY DEF Init
<1>2. Sized(files)
  BY <1>1 DEF Sized, NoFile
<1>3. FilesIn(fifo) = {}
  BY <1>1 DEF FilesIn, EmptyList
<1>4. Bytes(files, {}) = 0
  <2> DEFINE f == Weights(files, {})
  <2>1. \A a \in Files : f[a] = 0
    BY <1>1 DEF Weights, NoFile
  <2> HIDE DEF f
  <2>2. SumFunctionOnSet(f, Files) = 0
    BY <2>1, FilesFinite, SumOfZeros
  <2> QED BY <2>2 DEF Bytes, f
<1>5. ASSUME NEW w \in Workers PROVE Balanced(th[w], files, actual_size)
  <2>1. th[w].pc = "idle" /\ th[w].ftosend = <<>>
    BY DEF Init, Idle
  <2>2. Uncounted(th[w]) = 0 /\ Reserved(th[w]) = 0
    BY <2>1 DEF Uncounted, Reserved, EvictLabels
  <2>3. /\ actual_size + Uncounted(th[w]) >= Bytes(files, {}) + Reserved(th[w])
        /\ Bytes(files, {}) <= Space
    BY <1>1, <1>4, <2>2, WorkersAssumption
  <2> QED BY <2>1, <2>3, Settled DEF Evicting, WriteLabels
<1> QED BY <1>2, <1>3, <1>5 DEF AInv

\* With one thread the byte count is at least the sum of the Files that are not
\* freed, up to what the request being served has pending.
THEOREM LedgerInvariance == ASSUME OneThread, ZeroFilled PROVE Spec => []AInv
<1>1. Init => AInv
  BY InitLedger
<1>2. IInv /\ OInv /\ AInv /\ [Next]_vars => AInv'
  <2> SUFFICES ASSUME IInv, OInv, AInv, [Next]_vars PROVE AInv'
    OBVIOUS
  <2>1. CASE UNCHANGED <<files, fifo, th, actual_size>>
    BY <2>1 DEF AInv
  <2>2. ASSUME NEW w \in Workers, Serve(w) PROVE AInv'
    BY <2>2, CreateLedger, LookupLedger, FileLedger, WriteLedger, AppendLedger,
       EvictLedger, RemoveLedger, CloseLedger DEF Serve
  <2>3. CASE \E c \in Clients : Accept(c)
    BY <2>1, <2>3 DEF Accept, Store
  <2>4. CASE \E w \in Workers, c \in Clients : \E r \in Requests(c) : Take(w, r)
    BY <2>4, BeginLedger DEF Take, At
  <2>5. CASE \E w \in Workers, r \in requeued : TakeRequeued(w, r)
    BY <2>5, BeginLedger DEF TakeRequeued, At
  <2>6. CASE UNCHANGED vars
    BY <2>1, <2>6 DEF vars
  <2> QED BY <2>2, <2>3, <2>4, <2>5, <2>6 DEF Next, Halted
<1> QED BY <1>1, <1>2, Invariance, Protocol, PTL DEF Spec

\* The stored files are among those that are counted.
LEMMA StoredIsCounted ==
    ASSUME IInv, HashLive, Sized(files)
    PROVE  BytesStored <= Bytes(files, {}) /\ BytesStored \in Int /\ Bytes(files, {}) \in Int
<1> DEFINE e == [a \in Files |-> files[a].dim]
           f == Weights(files, {})
<1>1. Written \subseteq Files
  BY TableProperties DEF Written, IInv, TypeOK
<1>2. \A a \in Files : f[a] \in Nat /\ e[a] \in Int
  BY WeightsType DEF Sized
<1>3. \A a \in Written : e[a] <= f[a]
  <2>1. ASSUME NEW a \in Written PROVE f[a] = files[a].dim /\ files[a].dim \in Nat
    BY <1>1 DEF Written, HashLive, Weights, Sized
  <2> QED BY <1>1, <2>1
<1>4. IsFiniteSet(Written)
  BY <1>1, FilesFinite, FS_Subset
<1> HIDE DEF e, f
<1>5. SumFunctionOnSet(e, Written) <= SumFunctionOnSet(f, Files)
  BY <1>1, <1>2, <1>3, FilesFinite, SumMonotone
<1>6. SumFunctionOnSet(e, Written) \in Int
  BY <1>1, <1>2, <1>4, SumType
<1> QED BY <1>5, <1>6, BytesType DEF BytesStored, Bytes, e, f

\* With one thread, between requests, the byte count that WRITE and APPEND are
\* admitted by is not below what is stored, although a WRITE over a file and an
\* expelled file leave bytes in it, eviction subtracts a file once for each WRITE
\* of it, and APPEND counts bytes it may not store. REMOVE needs the field dim
\* of a File that was never written to be 0.
THEOREM CountIsSafe == ASSUME OneThread, ZeroFilled PROVE Spec => []AccountCovers
<1>1. IInv /\ SInv /\ AInv => AccountCovers
  <2> SUFFICES ASSUME IInv, SInv, AInv, Quiet PROVE actual_size >= BytesStored
    BY DEF AccountCovers
  <2>1. PICK w \in Workers : th[w].pc \in {"idle", "finish"}
    BY DEF Quiet, OneThread
  <2>2. Balanced(th[w], files, actual_size) /\ Sized(files) /\ actual_size \in Int
    BY <2>1, SizeType DEF AInv
  <2>3. /\ actual_size + Uncounted(th[w]) >= Bytes(files, {}) + Reserved(th[w])
        /\ Uncounted(th[w]) = 0 /\ Reserved(th[w]) = 0
    BY <2>1, <2>2, Settles DEF Evicting, Uncounted, Reserved, EvictLabels
  <2>4. BytesStored <= Bytes(files, {}) /\ BytesStored \in Int /\ Bytes(files, {}) \in Int
    BY <2>2, LiveFiles, StoredIsCounted
  <2> QED BY <2>2, <2>3, <2>4
<1> QED BY <1>1, Invariance, TableInvariance, LedgerInvariance, PTL

\* With one thread, between requests, the stored files fit in the space that is
\* configured.
THEOREM StoreFits == ASSUME OneThread, ZeroFilled PROVE Spec => []WithinSpace
<1>1. IInv /\ SInv /\ AInv => WithinSpace
  <2> SUFFICES ASSUME IInv, SInv, AInv, Quiet PROVE BytesStored <= Space
    BY DEF WithinSpace
  <2>1. PICK w \in Workers : th[w].pc \in {"idle", "finish"}
    BY DEF Quiet, OneThread
  <2>2. Sized(files) /\ Bytes(files, {}) <= Space
    BY <2>1 DEF AInv, Balanced, Unsettled, Evicting
  <2>3. BytesStored <= Bytes(files, {}) /\ BytesStored \in Int /\ Bytes(files, {}) \in Int
    BY <2>2, LiveFiles, StoredIsCounted
  <2> QED BY <2>2, <2>3, WorkersAssumption
<1> QED BY <1>1, Invariance, TableInvariance, LedgerInvariance, PTL

-----------------------------------------------------------------------------
(* A server with one thread does what Store says *)

\* The requests that create a file.
Creating == {"O_CREATE", "O_CRLK"}

\* The file that the thread has looked up is the one that the table has for the
\* path of its request,
Found(t, h) == /\ t.req.path \in Paths
               /\ contain(h, t.req.path) /\ getvalue(h, t.req.path) = t.f

\* or was: it may have been expelled since.
WasFound(t, h, fs) == /\ t.req.path \in Paths
                      /\ fs[t.f].alive => fs[t.f].path = t.req.path
                      /\ contain(h, t.req.path) => getvalue(h, t.req.path) = t.f

\* The nodes of fifo, those that were taken from it to be expelled, and the one
\* that a WRITE will enter.
Queueing(t, q) == Len(q.nodes) + Len(t.ftosend)
                  + (IF t.pc = "evictAccount" THEN 1 ELSE 0)
                  + (IF t.req.op = "WRITE" /\ t.pc \notin {"idle", "finish"} THEN 1 ELSE 0)

\* What a thread's label says of its request, of the table, of the file it uses
\* and of fifo.
Placed(t, h, fs, q) ==
    /\ t.pc \in {"check", "create", "createFull"} => t.req.op \in Creating
    /\ t.pc = "create" => h.nelem < MaxF
    /\ t.pc = "createFull" => h.nelem >= MaxF
    /\ t.pc = "lookup" => t.req.op \notin Creating \cup WithoutPath
    /\ t.pc = "readFiles" => t.req.op = "READN"
    /\ t.pc \in {"accountAppend", "file", "removeBegin", "removeUnlink"} => Found(t, h)
    /\ t.pc \in {"removeBegin", "removeUnlink"} =>
          t.req.op = "REMOVE" /\ fs[t.f].lock = 1 /\ fs[t.f].fd = t.req.fd
    /\ t.pc \in EvictLabels \cup {"appendCopy"} /\ t.req.op = "APPEND" =>
          WasFound(t, h, fs)
    /\ t.pc \notin Evicting => t.ftosend = <<>>
    /\ Queueing(t, q) <= FifoBound

\* The fields of a File that Store has are written by the clients alone.
Owned == \A a \in Files : files[a].alive => files[a].fd \in Clients

RInv == /\ CountsKeys(Hash) /\ Owned
        /\ \A r \in requeued : r.op = "LOCKS"
        /\ \A w \in Workers : Placed(th[w], Hash, files, fifo)

LEMMA OnlyWorker ==
    ASSUME OneThread PROVE worker \in Workers /\ \A w \in Workers : w = worker
BY DEF OneThread, worker

\* What the table says of a path, and what Store says of it.
LEMMA StoreAt ==
    ASSUME IInv, SInv, Owned, NEW p \in Paths
    PROVE  /\ contain(Hash, p) =>
                 /\ getvalue(Hash, p) \in Files
                 /\ files[getvalue(Hash, p)].alive /\ files[getvalue(Hash, p)].path = p
                 /\ theStore[p] = Seen(files[getvalue(Hash, p)])
                 /\ theStore[p] # Sequential!Absent
           /\ ~contain(Hash, p) => theStore[p] = Sequential!Absent
<1>1. Hash \in Tables /\ files \in [Files -> File]
  BY DEF IInv, TypeOK
<1>2. ASSUME contain(Hash, p)
      PROVE  /\ getvalue(Hash, p) \in Files
             /\ files[getvalue(Hash, p)].alive /\ files[getvalue(Hash, p)].path = p
  <2>1. PICK n \in NodesOf(Bucket(Hash, p)) : n.key = p /\ n.cont = getvalue(Hash, p)
    BY <1>1, <1>2, ValueNode
  <2>2. files[getvalue(Hash, p)].alive /\ files[getvalue(Hash, p)].path = p
    BY <2>1, SlotOfPath DEF SInv, Keyed, Bucket
  <2> QED BY <1>1, <1>2, <2>2, GetvalueProperties
<1>3. ASSUME contain(Hash, p)
      PROVE  /\ theStore[p] = Seen(files[getvalue(Hash, p)])
             /\ theStore[p] # Sequential!Absent
  <2>1. theStore[p] = Seen(files[getvalue(Hash, p)])
    BY <1>3 DEF theStore, FileOf
  <2>2. files[getvalue(Hash, p)].fd \in Clients
    BY <1>2, <1>3 DEF Owned
  <2>3. theStore[p].fd \in Clients
    BY <2>1, <2>2 DEF Seen
  <2> QED BY <2>1, <2>3, WorkersAssumption DEF Sequential!Absent
<1>4. ASSUME ~contain(Hash, p) PROVE theStore[p] = Sequential!Absent
  BY <1>4 DEF theStore, FileOf, Sequential!Absent
<1> QED BY <1>2, <1>3, <1>4

\* Store has the paths of the table.
LEMMA StoredPaths ==
    ASSUME IInv, SInv, Owned PROVE Sequential!stored = Keys(Hash)
BY StoreAt DEF Sequential!stored, Keys

LEMMA StoreType == theStore = [p \in Paths |-> theStore[p]] /\ theStore' = [p \in Paths |-> theStore'[p]]
BY DEF theStore

\* One file changes if all the others are the same.
LEMMA StoreChange ==
    ASSUME NEW p \in Paths, NEW g, theStore'[p] = g,
           \A q \in Paths \ {p} : theStore'[q] = theStore[q]
    PROVE  theStore' = [theStore EXCEPT ![p] = g]
BY StoreType

\* The table has the same files for the paths of P.
SameValues(P) == \A q \in P : /\ contain(Hash', q) <=> contain(Hash, q)
                              /\ contain(Hash, q) =>
                                    /\ getvalue(Hash', q) = getvalue(Hash, q)
                                    /\ Seen(files'[getvalue(Hash, q)])
                                         = Seen(files[getvalue(Hash, q)])
LEMMA SameSeen ==
    ASSUME NEW P \in SUBSET Paths, SameValues(P)
    PROVE  \A q \in P : theStore'[q] = theStore[q]
<1> SUFFICES ASSUME NEW q \in P PROVE theStore'[q] = theStore[q]
  OBVIOUS
<1>1. theStore[q] = FileOf(q) /\ theStore'[q] = FileOf(q)'
  BY DEF theStore
<1>2. FileOf(q)' = FileOf(q)
  BY DEF FileOf, SameValues
<1> QED BY <1>1, <1>2

\* A step that changes nothing that Store has.
LEMMA SameStored ==
    ASSUME SameValues(Paths) PROVE UNCHANGED theStore
<1>1. \A q \in Paths : theStore'[q] = theStore[q]
  BY SameSeen
<1> QED BY <1>1, StoreType

\* A step that changes one stored file.
LEMMA FileChange ==
    ASSUME IInv, SInv, Owned, UNCHANGED Hash, NEW p \in Paths, contain(Hash, p),
           \A b \in Files \ {getvalue(Hash, p)} : files'[b] = files[b]
    PROVE  theStore' = [theStore EXCEPT ![p] = Seen(files'[getvalue(Hash, p)])]
<1>1. \A q \in Paths \ {p} : contain(Hash, q) =>
          getvalue(Hash, q) \in Files \ {getvalue(Hash, p)}
  BY StoreAt
<1>2. SameValues(Paths \ {p})
  BY <1>1 DEF SameValues
<1>3. theStore'[p] = FileOf(p)'
  BY DEF theStore
<1>4. FileOf(p)' = Seen(files'[getvalue(Hash, p)])
  BY DEF FileOf
<1> QED BY <1>2, <1>3, <1>4, SameSeen, StoreChange

\* hashins() gives a file to a path that has none.
LEMMA InsertChange ==
    ASSUME IInv, SInv, Owned, NEW p \in Paths, ~contain(Hash, p),
           NEW a \in Files, a \notin Stored(Hash), Hash' = hashins(Hash, p, a),
           \A b \in Files \ {a} : files'[b] = files[b]
    PROVE  theStore' = [theStore EXCEPT ![p] = Seen(files'[a])]
<1> DEFINE g == hashins(Hash, p, a)
<1>1. Hash \in Tables /\ DistinctPaths(Hash)
  BY DEF IInv, TypeOK, SInv
<1>2. /\ contain(g, p) /\ getvalue(g, p) = a
      /\ \A q \in Paths \ {p} : /\ contain(g, q) <=> contain(Hash, q)
                                /\ contain(Hash, q) => getvalue(g, q) = getvalue(Hash, q)
  BY <1>1, HashinsValue
<1>3. \A q \in Paths : contain(Hash, q) => getvalue(Hash, q) \in Files \ {a}
  BY <1>1, GetvalueProperties
<1>4. Hash' = g
  OBVIOUS
<1> HIDE DEF g
<1>5. SameValues(Paths \ {p})
  BY <1>2, <1>3, <1>4 DEF SameValues
<1>6. theStore'[p] = FileOf(p)'
  BY DEF theStore
<1>7. FileOf(p)' = Seen(files'[a])
  BY <1>2, <1>4 DEF FileOf
<1> QED BY <1>5, <1>6, <1>7, SameSeen, StoreChange

\* h_delete() takes the file of a path out of the table, if there is one. The
\* File of this path may be freed in the same step.
LEMMA DeleteChange ==
    ASSUME IInv, SInv, Owned, NEW p \in Paths, Hash' = h_delete(Hash, p),
           \A b \in Files : files[b].path # p => files'[b] = files[b]
    PROVE  theStore' = [theStore EXCEPT ![p] = Sequential!Absent]
<1> DEFINE g == h_delete(Hash, p)
<1>1. Hash \in Tables /\ DistinctPaths(Hash)
  BY DEF IInv, TypeOK, SInv
<1>2. /\ ~contain(g, p)
      /\ \A q \in Paths \ {p} : /\ contain(g, q) <=> contain(Hash, q)
                                /\ contain(Hash, q) => getvalue(g, q) = getvalue(Hash, q)
  BY <1>1, HdeleteValue
<1>3. \A q \in Paths \ {p} : contain(Hash, q) =>
          /\ getvalue(Hash, q) \in Files
          /\ files[getvalue(Hash, q)].path # p
  BY StoreAt
<1>4. Hash' = g
  OBVIOUS
<1> HIDE DEF g
<1>5. SameValues(Paths \ {p})
  BY <1>2, <1>3, <1>4 DEF SameValues
<1>6. theStore'[p] = FileOf(p)'
  BY DEF theStore
<1>7. FileOf(p)' = Sequential!Absent
  BY <1>2, <1>4 DEF FileOf, Sequential!Absent
<1> QED BY <1>5, <1>6, <1>7, SameSeen, StoreChange

-----------------------------------------------------------------------------
(* How the steps of the thread are steps of Store *)

\* Thread w goes to label l with what it had.
Keeps(w, l) == /\ th'[w].pc = l
               /\ th'[w].req = th[w].req /\ th'[w].f = th[w].f
               /\ th'[w].ftosend = th[w].ftosend

LEMMA GotoKeeps ==
    ASSUME IInv, NEW w \in Workers, NEW l, Goto(w, l)
    PROVE  Keeps(w, l) /\ th'[w].answer = th[w].answer
<1>1. th \in [Workers -> Thread] /\ th[w] \in Thread
  BY ThreadsType
<1> QED BY <1>1 DEF Goto, Keeps, Thread

LEMMA SendKeeps ==
    ASSUME IInv, NEW w \in Workers, NEW s, NEW l, Send(w, s, l)
    PROVE  Keeps(w, l) /\ th'[w].answer = Append(th[w].answer, s)
<1>1. th \in [Workers -> Thread] /\ th[w] \in Thread
  BY ThreadsType
<1>2. th'[w] = [th[w] EXCEPT !.pc = l, !.answer = Append(@, s)]
  BY <1>1 DEF Send
<1> QED BY <1>1, <1>2 DEF Keeps, Thread

\* The state of Store is that of the one thread.
LEMMA AtWorker ==
    ASSUME OneThread, NEW w \in Workers
    PROVE  /\ thePhase = PhaseOf(th[w].pc) /\ theRequest = th[w].req
           /\ theAnswer = th[w].answer
           /\ th[w].pc # "evictSend" => theVictims = <<>>
           /\ thePhase' = PhaseOf(th'[w].pc) /\ theRequest' = th'[w].req
           /\ theAnswer' = th'[w].answer
           /\ th'[w].pc # "evictSend" => theVictims' = <<>>
BY OnlyWorker DEF thePhase, theRequest, theAnswer, theVictims

LEMMA SilentlyGoes ==
    ASSUME OneThread, IInv, NEW w \in Workers, NEW l, Goto(w, l),
           th[w].pc # "evictSend", l # "evictSend"
    PROVE  Sequential!Silently(PhaseOf(l))
<1>1. Keeps(w, l) /\ th'[w].answer = th[w].answer
  BY GotoKeeps
<1> QED BY <1>1, AtWorker DEF Keeps, Sequential!Silently

LEMMA RepliesGoing ==
    ASSUME OneThread, IInv, NEW w \in Workers, NEW s, NEW l, Send(w, s, l),
           th[w].pc # "evictSend", l # "evictSend"
    PROVE  Sequential!Reply(s, PhaseOf(l))
<1>1. Keeps(w, l) /\ th'[w].answer = Append(th[w].answer, s)
  BY SendKeeps
<1> QED BY <1>1, AtWorker DEF Keeps, Sequential!Reply

LEMMA RepliesLast ==
    ASSUME OneThread, IInv, NEW w \in Workers, NEW s, Answer(w, s),
           th[w].pc # "evictSend"
    PROVE  Sequential!Reply(s, "done")
<1>1. Sequential!Reply(s, PhaseOf("finish"))
  BY RepliesGoing DEF Answer
<1> QED BY <1>1 DEF PhaseOf

\* A step of the thread of which Store says nothing.
LEMMA Stutters ==
    ASSUME OneThread, IInv, NEW w \in Workers, UNCHANGED theStore,
           th'[w].req = th[w].req, th'[w].answer = th[w].answer,
           th[w].pc # "evictSend", th'[w].pc # "evictSend",
           PhaseOf(th'[w].pc) = PhaseOf(th[w].pc)
    PROVE  UNCHANGED Sequential!svars
BY AtWorker DEF Sequential!svars

\* The invariant of the only thread is that of all.
LEMMA RInvStep ==
    ASSUME OneThread, NEW w \in Workers, CountsKeys(Hash'), Owned',
           \A r \in requeued' : r.op = "LOCKS",
           Placed(th'[w], Hash', files', fifo')
    PROVE  RInv'
BY DEF OneThread, RInv

\* With the table, fifo and the owners as they were.
LEMMA SameOwned == ASSUME Owned, UNCHANGED files PROVE Owned'
BY DEF Owned

\* The step preserves the invariant, and is one of Store or none.
Refines == RInv' /\ [Sequential!StoreNext]_(Sequential!svars)

\* The labels that say where the request has come from.
FirstLabels == {"check", "create", "createFull", "lookup", "accountAppend",
                "readFiles", "removeBegin", "removeUnlink"}

LEMMA PlacedFacts ==
    ASSUME IInv, RInv, NEW w \in Workers
    PROVE  /\ Placed(th[w], Hash, files, fifo) /\ CountsKeys(Hash) /\ Owned
           /\ \A r \in requeued : r.op = "LOCKS"
           /\ Len(fifo.nodes) \in Nat /\ Len(th[w].ftosend) \in Nat
BY DEF RInv, IInv, TypeOK, ListOf, Thread

\* A thread that goes on with its request.
LEMMA GoesPlaced ==
    ASSUME OneThread, IInv, RInv, NEW w \in Workers, NEW l, Keeps(w, l),
           l \notin FirstLabels,
           CountsKeys(Hash'), Owned', \A r \in requeued' : r.op = "LOCKS",
           l = "file" => Found(th[w], Hash'),
           l \in EvictLabels \cup {"appendCopy"} /\ Op(w) = "APPEND" =>
               WasFound(th[w], Hash', files'),
           l \notin Evicting => th[w].ftosend = <<>>,
           Queueing(th'[w], fifo') <= FifoBound
    PROVE  RInv'
<1>1. Placed(th'[w], Hash', files', fifo')
  BY DEF Placed, Keeps, FirstLabels, Found, WasFound, Op
<1> QED BY <1>1, RInvStep

\* The nodes are where they were, or there are as many.
LEMMA QueueingBound ==
    ASSUME IInv, RInv, NEW w \in Workers
    PROVE  \E n \in Nat, m \in Nat :
              /\ n = Len(fifo.nodes) /\ m = Len(th[w].ftosend)
              /\ n + m + (IF th[w].pc = "evictAccount" THEN 1 ELSE 0)
                   + (IF Op(w) = "WRITE" /\ th[w].pc \notin {"idle", "finish"} THEN 1 ELSE 0)
                   <= FifoBound
BY PlacedFacts DEF Placed, Queueing, Op

LEMMA FifoBoundType == FifoBound \in Nat
BY WorkersAssumption

LEMMA SameQueueing ==
    ASSUME IInv, RInv, NEW w \in Workers, th'[w].pc # "evictAccount",
           th'[w].req = th[w].req, th'[w].ftosend = th[w].ftosend,
           th[w].pc \notin {"idle", "finish"}, UNCHANGED fifo
    PROVE  Queueing(th'[w], fifo') <= FifoBound
<1>1. FifoBound \in Nat
  BY FifoBoundType
<1>2. PICK n \in Nat, m \in Nat :
         /\ n = Len(fifo.nodes) /\ m = Len(th[w].ftosend)
         /\ n + m + (IF th[w].pc = "evictAccount" THEN 1 ELSE 0)
              + (IF Op(w) = "WRITE" /\ th[w].pc \notin {"idle", "finish"} THEN 1 ELSE 0)
                   <= FifoBound
  BY QueueingBound
<1>3. PICK i \in {0, 1}, j \in {0, 1}, k \in {0, 1} :
         /\ i = IF th[w].pc = "evictAccount" THEN 1 ELSE 0
         /\ j = IF Op(w) = "WRITE" /\ th[w].pc \notin {"idle", "finish"} THEN 1 ELSE 0
         /\ k = IF Op(w) = "WRITE" /\ th'[w].pc \notin {"idle", "finish"} THEN 1 ELSE 0
  OBVIOUS
<1>4. Queueing(th'[w], fifo') = n + m + 0 + k
  BY <1>2, <1>3 DEF Queueing, Op
<1>5. n + m + i + j <= FifoBound
  BY <1>1, <1>2, <1>3
<1>6. k <= j
  BY <1>3
<1> QED BY <1>1, <1>4, <1>5, <1>6

\* A thread that is done with its request.
LEMMA EndsPlaced ==
    ASSUME OneThread, IInv, RInv, NEW w \in Workers, Keeps(w, "finish"),
           th[w].pc \notin Evicting \cup {"idle", "finish"}, UNCHANGED fifo,
           CountsKeys(Hash'), Owned', \A r \in requeued' : r.op = "LOCKS"
    PROVE  RInv'
<1>1. Queueing(th'[w], fifo') <= FifoBound
  BY SameQueueing DEF Keeps, Evicting
<1>2. th[w].ftosend = <<>>
  BY PlacedFacts DEF Placed
<1> QED BY <1>1, <1>2, GoesPlaced DEF FirstLabels, EvictLabels

\* The thread has the file that its request names.
LEMMA OnFileIs ==
    ASSUME OneThread, IInv, SInv, RInv, NEW w \in Workers, NEW op, OnFile(w, op)
    PROVE  /\ th[w].pc = "file" /\ th[w].req.op = op /\ th[w].ftosend = <<>>
           /\ Path(w) \in Paths /\ contain(Hash, Path(w))
           /\ getvalue(Hash, Path(w)) = th[w].f
           /\ th[w].f \in Files /\ files[th[w].f] \in File
           /\ Client(w) \in Clients
           /\ theRequest = th[w].req /\ Sequential!Serving(op)
           /\ Sequential!file = Seen(files[th[w].f])
<1>1. /\ th[w].pc = "file" /\ th[w].req.op = op /\ th[w] \in Thread /\ LocalOK(th[w])
      /\ th[w].f \in Files /\ Client(w) \in Clients
  BY ThreadFacts DEF OnFile, At, Op, FileLabels
<1>2. /\ Path(w) \in Paths /\ contain(Hash, Path(w)) /\ getvalue(Hash, Path(w)) = th[w].f
      /\ th[w].ftosend = <<>> /\ Owned
  BY <1>1, PlacedFacts DEF Placed, Found, Path, Evicting
<1>3. files[th[w].f] \in File
  BY <1>1, ThreadsType
<1>4. theRequest = th[w].req /\ thePhase = "begun"
  BY <1>1, AtWorker DEF PhaseOf
<1>5. Path(w) \in Sequential!stored
  BY <1>2, StoredPaths DEF Keys
<1>6. Sequential!Serving(op)
  BY <1>1, <1>4, <1>5 DEF Sequential!Serving, Path
<1>7. Sequential!file = Seen(files[th[w].f])
  BY <1>2, <1>4, StoreAt DEF Sequential!file, Path
<1> QED BY <1>1, <1>2, <1>3, <1>4, <1>6, <1>7

\* A step on the file that the thread has, and on no other.
LEMMA FileBecomes ==
    ASSUME OneThread, IInv, SInv, RInv, NEW w \in Workers, NEW op, OnFile(w, op),
           UNCHANGED Hash, NEW g \in File, g.fd \in Clients,
           files' = [files EXCEPT ![th[w].f] = g]
    PROVE  Owned' /\ CountsKeys(Hash') /\ Sequential!Becomes(Seen(g))
<1>1. /\ th[w].f \in Files /\ Path(w) \in Paths /\ contain(Hash, Path(w))
      /\ getvalue(Hash, Path(w)) = th[w].f /\ theRequest = th[w].req
  BY OnFileIs
<1>2. /\ files'[th[w].f] = g /\ \A b \in Files \ {th[w].f} : files'[b] = files[b]
  BY <1>1, ThreadsType
<1>3. Owned /\ CountsKeys(Hash)
  BY DEF RInv
<1>4. Owned'
  BY <1>2, <1>3 DEF Owned
<1>5. theStore' = [theStore EXCEPT ![Path(w)] = Seen(g)]
  BY <1>1, <1>2, <1>3, FileChange
<1> QED BY <1>1, <1>3, <1>4, <1>5 DEF Sequential!Becomes, Path

\* A step that looks at the file.
LEMMA FileStays ==
    ASSUME RInv, UNCHANGED <<Hash, files>>
    PROVE  Owned' /\ CountsKeys(Hash') /\ UNCHANGED theStore
<1>1. SameValues(Paths)
  BY DEF SameValues
<1> QED BY <1>1, SameStored DEF RInv, Owned

\* A request that changes its file and is answered,
LEMMA FileAnswered ==
    ASSUME OneThread, IInv, SInv, RInv, NEW w \in Workers, NEW op, OnFile(w, op),
           UNCHANGED <<Hash, fifo, requeued>>, NEW g \in File, g.fd \in Clients,
           files' = [files EXCEPT ![th[w].f] = g], NEW s, Answer(w, s)
    PROVE  RInv' /\ Sequential!Becomes(Seen(g)) /\ Sequential!Reply(s, "done")
<1>1. th[w].pc = "file"
  BY OnFileIs
<1>2. Owned' /\ CountsKeys(Hash') /\ Sequential!Becomes(Seen(g))
  BY FileBecomes
<1>3. Sequential!Reply(s, "done") /\ Keeps(w, "finish")
  BY <1>1, RepliesLast, SendKeeps DEF Answer
<1>4. RInv'
  BY <1>1, <1>2, <1>3, EndsPlaced DEF RInv, Evicting
<1> QED BY <1>2, <1>3, <1>4

\* and one that is only answered.
LEMMA FileRefused ==
    ASSUME OneThread, IInv, SInv, RInv, NEW w \in Workers, th[w].pc \notin Evicting,
           UNCHANGED <<Hash, fifo, requeued, files>>, NEW s, Answer(w, s),
           th[w].pc \notin {"idle", "finish"}
    PROVE  RInv' /\ Sequential!Unchanged /\ Sequential!Reply(s, "done")
<1>1. Owned' /\ CountsKeys(Hash') /\ UNCHANGED theStore
  BY FileStays
<1>2. Sequential!Reply(s, "done") /\ Keeps(w, "finish")
  BY RepliesLast, SendKeeps DEF Answer, Evicting
<1>3. RInv'
  BY <1>1, <1>2, EndsPlaced DEF RInv
<1> QED BY <1>1, <1>2, <1>3 DEF Sequential!Unchanged

LEMMA OpenRefines ==
    ASSUME OneThread, IInv, SInv, RInv, NEW w \in Workers, OpenFile(w)
    PROVE  Refines
<1> DEFINE f == files[th[w].f]
           g == [f EXCEPT !.isopen = 1]
<1>1. /\ OnFile(w, "O_OPEN") /\ Answer(w, "SUCCESS") /\ UNCHANGED <<Hash, fifo, requeued>>
      /\ files' = [files EXCEPT ![th[w].f].isopen = 1]
  BY DEF OpenFile, Outside
<1>2. /\ f \in File /\ Sequential!file = Seen(f) /\ Sequential!Serving("O_OPEN")
      /\ f.alive /\ th[w].f \in Files
  BY <1>1, OnFileIs DEF OnFile
<1>3. g \in File /\ g.fd \in Clients /\ files' = [files EXCEPT ![th[w].f] = g]
  BY <1>1, <1>2 DEF File, RInv, Owned
<1>4. Seen(g) = [Seen(f) EXCEPT !.isopen = 1]
  BY <1>2 DEF Seen, File
<1> HIDE DEF g
<1>5. RInv' /\ Sequential!Becomes(Seen(g)) /\ Sequential!Reply("SUCCESS", "done")
  BY <1>1, <1>3, FileAnswered
<1>6. Sequential!Open
  BY <1>2, <1>4, <1>5 DEF Sequential!Open
<1> QED BY <1>5, <1>6 DEF Refines, Sequential!StoreNext, Sequential!Step

\* Setting a flag or the owner of a File sets that of Store.
LEMMA SeenEdited ==
    ASSUME NEW f \in File, NEW x
    PROVE  /\ Seen([f EXCEPT !.isopen = x]) = [Seen(f) EXCEPT !.isopen = x]
           /\ Seen([f EXCEPT !.lock = x]) = [Seen(f) EXCEPT !.lock = x]
           /\ Seen([f EXCEPT !.fd = x]) = [Seen(f) EXCEPT !.fd = x]
<1>1. Seen([f EXCEPT !.isopen = x]) = [Seen(f) EXCEPT !.isopen = x]
  BY DEF Seen, File
<1>2. Seen([f EXCEPT !.lock = x]) = [Seen(f) EXCEPT !.lock = x]
  BY DEF Seen, File
<1>3. Seen([f EXCEPT !.fd = x]) = [Seen(f) EXCEPT !.fd = x]
  BY DEF Seen, File
<1> QED BY <1>1, <1>2, <1>3

LEMMA SeenLocked ==
    ASSUME NEW f \in File, NEW c
    PROVE  Seen([f EXCEPT !.lock = 1, !.fd = c]) = [Seen(f) EXCEPT !.lock = 1, !.fd = c]
<1>1. PICK h : h = [f EXCEPT !.lock = 1]
  OBVIOUS
<1>2. h \in File
  BY <1>1 DEF File
<1>3. Seen(h) = [Seen(f) EXCEPT !.lock = 1]
  BY <1>1, SeenEdited
<1>4. Seen([h EXCEPT !.fd = c]) = [Seen(h) EXCEPT !.fd = c]
  BY <1>2, SeenEdited
<1>5. [f EXCEPT !.lock = 1, !.fd = c] = [h EXCEPT !.fd = c]
  BY <1>1
<1>6. [Seen(f) EXCEPT !.lock = 1, !.fd = c] = [Seen(h) EXCEPT !.fd = c]
  BY <1>3
<1> QED BY <1>4, <1>5, <1>6

LEMMA OpenLockRefines ==
    ASSUME OneThread, IInv, SInv, RInv, NEW w \in Workers, OpenLock(w)
    PROVE  Refines
<1> DEFINE f == files[th[w].f]
           g == [f EXCEPT !.isopen = 1, !.lock = 1, !.fd = Client(w)]
<1>1. /\ OnFile(w, "O_LOCK") /\ Answer(w, "SUCCESS") /\ UNCHANGED <<Hash, fifo, requeued>>
      /\ files' = [files EXCEPT ![th[w].f].isopen = 1, ![th[w].f].lock = 1,
                                ![th[w].f].fd = Client(w)]
  BY DEF OpenLock, Outside
<1>2. /\ f \in File /\ Sequential!file = Seen(f) /\ Sequential!Serving("O_LOCK")
      /\ th[w].f \in Files /\ Client(w) \in Clients /\ theRequest = th[w].req
  BY <1>1, OnFileIs
<1>3. g \in File /\ g.fd \in Clients
  BY <1>2 DEF File
<1>4. files' = [files EXCEPT ![th[w].f] = g]
  BY <1>1, <1>2, ThreadsType DEF File
<1>5. Seen(g) = [Seen(f) EXCEPT !.isopen = 1, !.lock = 1, !.fd = theRequest.fd]
  <2>1. theRequest.fd = Client(w)
    BY <1>2 DEF Client
  <2>2. Seen(g) = [Seen(f) EXCEPT !.isopen = 1, !.lock = 1, !.fd = Client(w)]
    <3> DEFINE h == [f EXCEPT !.isopen = 1]
    <3>1. h \in File /\ g = [h EXCEPT !.lock = 1, !.fd = Client(w)]
      BY <1>2 DEF File
    <3>2. Seen(g) = [Seen(h) EXCEPT !.lock = 1, !.fd = Client(w)]
      BY <3>1, SeenLocked
    <3>3. Seen(h) = [Seen(f) EXCEPT !.isopen = 1]
      BY <1>2, SeenEdited
    <3> HIDE DEF g, h
    <3> QED BY <3>2, <3>3
  <2> QED BY <2>1, <2>2
<1> HIDE DEF g
<1>6. RInv' /\ Sequential!Becomes(Seen(g)) /\ Sequential!Reply("SUCCESS", "done")
  BY <1>1, <1>3, <1>4, FileAnswered
<1>7. Sequential!OpenLocked
  BY <1>2, <1>5, <1>6 DEF Sequential!OpenLocked
<1> QED BY <1>6, <1>7 DEF Refines, Sequential!StoreNext, Sequential!Step

LEMMA CloseRefines ==
    ASSUME OneThread, IInv, SInv, RInv, NEW w \in Workers, Close(w)
    PROVE  Refines
<1> DEFINE f == files[th[w].f]
           g == [f EXCEPT !.isopen = 0]
<1>1. /\ OnFile(w, "CLOSE") /\ Answer(w, "SUCCESS") /\ UNCHANGED <<Hash, fifo, requeued>>
      /\ files' = [files EXCEPT ![th[w].f].isopen = 0]
  BY DEF Close, Outside
<1>2. /\ f \in File /\ Sequential!file = Seen(f) /\ Sequential!Serving("CLOSE")
      /\ f.alive /\ th[w].f \in Files
  BY <1>1, OnFileIs DEF OnFile
<1>3. g \in File /\ g.fd \in Clients /\ files' = [files EXCEPT ![th[w].f] = g]
  BY <1>1, <1>2 DEF File, RInv, Owned
<1>4. Seen(g) = [Seen(f) EXCEPT !.isopen = 0]
  BY <1>2 DEF Seen, File
<1> HIDE DEF g
<1>5. RInv' /\ Sequential!Becomes(Seen(g)) /\ Sequential!Reply("SUCCESS", "done")
  BY <1>1, <1>3, FileAnswered
<1>6. Sequential!CloseFile
  BY <1>2, <1>4, <1>5 DEF Sequential!CloseFile
<1> QED BY <1>5, <1>6 DEF Refines, Sequential!StoreNext, Sequential!Step

LEMMA UnlocksRefines ==
    ASSUME OneThread, IInv, SInv, RInv, NEW w \in Workers, Unlocks(w)
    PROVE  Refines
<1> DEFINE f == files[th[w].f]
           g == [f EXCEPT !.lock = 0]
<1>1. /\ OnFile(w, "UNLOCKS") /\ UNCHANGED <<Hash, fifo, requeued>>
      /\ \/ /\ f.fd = Client(w) /\ files' = [files EXCEPT ![th[w].f].lock = 0]
            /\ Answer(w, "SUCCESS")
         \/ f.fd # Client(w) /\ Answer(w, "NOTPERMISSION") /\ UNCHANGED files
  BY DEF Unlocks, Outside
<1>2. /\ f \in File /\ Sequential!file = Seen(f) /\ Sequential!Serving("UNLOCKS")
      /\ f.alive /\ th[w].f \in Files /\ theRequest = th[w].req /\ th[w].pc = "file"
  BY <1>1, OnFileIs DEF OnFile
<1>3. Sequential!Mine <=> f.fd = Client(w)
  BY <1>2 DEF Sequential!Mine, Seen, Client
<1>4. CASE f.fd = Client(w)
  <2>1. g \in File /\ g.fd \in Clients /\ files' = [files EXCEPT ![th[w].f] = g]
    BY <1>1, <1>2, <1>4 DEF File, RInv, Owned
  <2>2. Seen(g) = [Seen(f) EXCEPT !.lock = 0]
    BY <1>2 DEF Seen, File
  <2> HIDE DEF g
  <2>3. RInv' /\ Sequential!Becomes(Seen(g)) /\ Sequential!Reply("SUCCESS", "done")
    BY <1>1, <1>4, <2>1, FileAnswered
  <2>4. Sequential!UnlockFile
    BY <1>2, <1>3, <1>4, <2>2, <2>3 DEF Sequential!UnlockFile
  <2> QED BY <2>3, <2>4 DEF Refines, Sequential!StoreNext, Sequential!Step
<1>5. CASE f.fd # Client(w)
  <2>1. RInv' /\ Sequential!Unchanged /\ Sequential!Reply("NOTPERMISSION", "done")
    BY <1>1, <1>2, <1>5, FileRefused DEF Evicting
  <2>2. Sequential!UnlockFile
    BY <1>2, <1>3, <1>5, <2>1 DEF Sequential!UnlockFile
  <2> QED BY <2>1, <2>2 DEF Refines, Sequential!StoreNext, Sequential!Step
<1> QED BY <1>4, <1>5

\* The test of the lock is the same.
LEMMA SamePermission ==
    ASSUME OneThread, IInv, SInv, RInv, NEW w \in Workers, NEW op, OnFile(w, op)
    PROVE  LET f == files[th[w].f]
           IN  /\ Sequential!file.isopen = f.isopen /\ f.isopen \in {0, 1}
               /\ Sequential!file.lock = f.lock /\ f.lock \in {0, 1}
               /\ Sequential!Mine <=> f.fd = Client(w)
               /\ Sequential!Permitted <=> Permitted(w, f)
<1>1. /\ files[th[w].f] \in File /\ Sequential!file = Seen(files[th[w].f])
      /\ theRequest.fd = Client(w)
  BY OnFileIs DEF Client
<1> QED BY <1>1 DEF Seen, File, Sequential!Mine, Sequential!Permitted, Permitted

LEMMA LocksRefines ==
    ASSUME OneThread, IInv, SInv, RInv, NEW w \in Workers, Locks(w)
    PROVE  Refines
<1> DEFINE f == files[th[w].f]
           g == [f EXCEPT !.lock = 1, !.fd = Client(w)]
<1>1. OnFile(w, "LOCKS") /\ UNCHANGED <<Hash, fifo>>
  BY DEF Locks
<1>2. /\ f \in File /\ Sequential!file = Seen(f) /\ Sequential!Serving("LOCKS")
      /\ th[w].f \in Files /\ Client(w) \in Clients /\ theRequest.fd = Client(w)
      /\ th[w].pc = "file" /\ Op(w) = "LOCKS"
  BY <1>1, OnFileIs DEF Client, Op
<1>3. /\ Sequential!file.isopen = f.isopen
      /\ Sequential!Permitted <=> Permitted(w, f)
  BY <1>1, SamePermission
<1>4. CASE /\ f.isopen = 1 /\ Permitted(w, f) /\ Answer(w, "SUCCESS") /\ UNCHANGED requeued
           /\ files' = [files EXCEPT ![th[w].f].lock = 1, ![th[w].f].fd = Client(w)]
  <2>1. g \in File /\ g.fd \in Clients
    BY <1>2 DEF File
  <2>2. files' = [files EXCEPT ![th[w].f] = g]
    BY <1>2, <1>4, ThreadsType DEF File
  <2>3. Seen(g) = [Seen(f) EXCEPT !.lock = 1, !.fd = theRequest.fd]
    <3>1. Seen(g) = [Seen(f) EXCEPT !.lock = 1, !.fd = Client(w)]
      BY <1>2, SeenLocked
    <3> QED BY <1>2, <3>1
  <2> HIDE DEF g
  <2>4. RInv' /\ Sequential!Becomes(Seen(g)) /\ Sequential!Reply("SUCCESS", "done")
    BY <1>1, <1>4, <2>1, <2>2, FileAnswered
  <2>5. Sequential!LockFile
    BY <1>2, <1>3, <1>4, <2>3, <2>4 DEF Sequential!LockFile
  <2> QED BY <2>4, <2>5 DEF Refines, Sequential!StoreNext, Sequential!Step
<1>5. CASE /\ f.isopen = 1 /\ ~Permitted(w, f) /\ Goto(w, "finish") /\ UNCHANGED files
           /\ requeued' = requeued \cup {th[w].req}
  <2>1. Owned' /\ CountsKeys(Hash') /\ UNCHANGED theStore
    BY <1>1, <1>5, FileStays
  <2>2. Keeps(w, "finish") /\ Sequential!Silently("done")
    <3>1. Sequential!Silently(PhaseOf("finish"))
      BY <1>2, <1>5, SilentlyGoes
    <3> QED BY <1>5, <3>1, GotoKeeps DEF PhaseOf
  <2>3. \A r \in requeued' : r.op = "LOCKS"
    BY <1>2, <1>5 DEF RInv, Op
  <2>4. RInv'
    BY <1>1, <1>2, <2>1, <2>2, <2>3, EndsPlaced DEF Evicting
  <2>5. Sequential!LockFile
    BY <1>2, <1>3, <1>5, <2>1, <2>2 DEF Sequential!LockFile, Sequential!Unchanged
  <2> QED BY <2>4, <2>5 DEF Refines, Sequential!StoreNext, Sequential!Step
<1>6. CASE f.isopen = 0 /\ Answer(w, "NOTOPEN") /\ UNCHANGED <<files, requeued>>
  <2>1. RInv' /\ Sequential!Unchanged /\ Sequential!Reply("NOTOPEN", "done")
    BY <1>1, <1>2, <1>6, FileRefused DEF Evicting
  <2>2. Sequential!LockFile
    BY <1>2, <1>3, <1>6, <2>1 DEF Sequential!LockFile
  <2> QED BY <2>1, <2>2 DEF Refines, Sequential!StoreNext, Sequential!Step
<1> QED BY <1>4, <1>5, <1>6 DEF Locks

LEMMA ReadRefines ==
    ASSUME OneThread, IInv, SInv, RInv, NEW w \in Workers, Read(w)
    PROVE  Refines
<1> DEFINE f == files[th[w].f]
<1>1. OnFile(w, "READ") /\ UNCHANGED <<Hash, fifo, files, requeued>>
  BY DEF Read, Store, Outside
<1>2. Sequential!Serving("READ") /\ th[w].pc = "file"
  BY <1>1, OnFileIs
<1>3. /\ Sequential!file.isopen = f.isopen /\ f.isopen \in {0, 1}
      /\ Sequential!Permitted <=> Permitted(w, f)
  BY <1>1, SamePermission
<1>4. PICK s : /\ Answer(w, s)
               /\ s = CASE f.isopen = 0 -> "NOTOPEN"
                        [] f.isopen = 1 /\ ~Permitted(w, f) -> "NOTPERMISSION"
                        [] OTHER -> "SUCCESS"
  BY DEF Read
<1>5. RInv' /\ Sequential!Unchanged /\ Sequential!Reply(s, "done")
  BY <1>1, <1>2, <1>4, FileRefused DEF Evicting
<1>6. s = CASE Sequential!file.isopen = 0 -> "NOTOPEN"
            [] Sequential!file.isopen = 1 /\ ~Sequential!Permitted -> "NOTPERMISSION"
            [] OTHER -> "SUCCESS"
  BY <1>3, <1>4
<1>7. Sequential!Read
  BY <1>2, <1>5, <1>6 DEF Sequential!Read
<1> QED BY <1>5, <1>7 DEF Refines, Sequential!StoreNext, Sequential!Step

\* Writing a File is writing what Store has of it.
LEMMA SeenWritten ==
    ASSUME NEW f \in File, NEW x
    PROVE  Seen([f EXCEPT !.dim = x, !.cont = "buffer"])
              = [Seen(f) EXCEPT !.dim = x, !.written = TRUE]
<1>1. PICK u : u = [Seen(f) EXCEPT !.dim = x]
  OBVIOUS
<1>2. u = [isopen |-> f.isopen, lock |-> f.lock, fd |-> f.fd, dim |-> x,
           written |-> f.cont = "buffer"]
  BY <1>1 DEF Seen
<1>3. [Seen(f) EXCEPT !.dim = x, !.written = TRUE] = [u EXCEPT !.written = TRUE]
  BY <1>1
<1>4. [u EXCEPT !.written = TRUE]
         = [isopen |-> f.isopen, lock |-> f.lock, fd |-> f.fd, dim |-> x, written |-> TRUE]
  <2>1. PICK g, h :
          /\ g = [u EXCEPT !.written = TRUE]
          /\ h = [isopen |-> f.isopen, lock |-> f.lock, fd |-> f.fd, dim |-> x,
                  written |-> TRUE]
    OBVIOUS
  <2>2. /\ g = [k \in {"isopen", "lock", "fd", "dim", "written"} |-> g[k]]
        /\ h = [k \in {"isopen", "lock", "fd", "dim", "written"} |-> h[k]]
    BY <1>2, <2>1
  <2>3. \A k \in {"isopen", "lock", "fd", "dim"} : g[k] = u[k]
    BY <1>2, <2>1
  <2>4. \A k \in {"isopen", "lock", "fd", "dim"} : h[k] = u[k]
    BY <1>2, <2>1
  <2>5. g["written"] = h["written"]
    BY <1>2, <2>1
  <2>6. g = h
    BY <2>2, <2>3, <2>4, <2>5
  <2> QED BY <2>1, <2>6
<1>5. Seen([f EXCEPT !.dim = x, !.cont = "buffer"])
         = [isopen |-> f.isopen, lock |-> f.lock, fd |-> f.fd, dim |-> x, written |-> TRUE]
  BY DEF Seen, File
<1> QED BY <1>3, <1>4, <1>5

LEMMA WriteRefines ==
    ASSUME OneThread, IInv, SInv, RInv, NEW w \in Workers, Write(w)
    PROVE  Refines
<1> DEFINE f == files[th[w].f]
           g == [f EXCEPT !.dim = th[w].req.size, !.cont = "buffer"]
<1>1. OnFile(w, "WRITE") /\ UNCHANGED <<Hash, fifo, requeued>>
  BY DEF Write, Outside
<1>2. /\ f \in File /\ Sequential!file = Seen(f) /\ Sequential!Serving("WRITE")
      /\ th[w].f \in Files /\ f.alive /\ theRequest = th[w].req /\ th[w] \in Thread
      /\ th[w].pc = "file" /\ Op(w) = "WRITE" /\ th[w].ftosend = <<>>
  BY <1>1, OnFileIs, ThreadFacts DEF Op, OnFile
<1>3. /\ Sequential!file.isopen = f.isopen
      /\ Sequential!Permitted <=> Permitted(w, f)
  BY <1>1, SamePermission
<1>4. CASE /\ f.isopen = 1 /\ Permitted(w, f) /\ Goto(w, "accountRead")
           /\ files' = [files EXCEPT ![th[w].f].dim = th[w].req.size,
                                     ![th[w].f].cont = "buffer"]
  <2>1. g \in File /\ g.fd \in Clients
    <3>1. th[w].req.size \in Int
      BY <1>2, ThreadFacts DEF LocalOK, Request
    <3> QED BY <1>2, <3>1 DEF File, RInv, Owned
  <2>2. files' = [files EXCEPT ![th[w].f] = g]
    BY <1>2, <1>4, ThreadsType DEF File
  <2>3. Seen(g) = [Seen(f) EXCEPT !.dim = theRequest.size, !.written = TRUE]
    <3>1. Seen(g) = [Seen(f) EXCEPT !.dim = th[w].req.size, !.written = TRUE]
      BY <1>2, SeenWritten
    <3> QED BY <1>2, <3>1
  <2> HIDE DEF g
  <2>4. Owned' /\ CountsKeys(Hash') /\ Sequential!Becomes(Seen(g))
    BY <1>1, <2>1, <2>2, FileBecomes
  <2>5. Keeps(w, "accountRead") /\ Sequential!Silently("written")
    <3>1. Sequential!Silently(PhaseOf("accountRead"))
      BY <1>2, <1>4, SilentlyGoes
    <3> QED BY <1>4, <3>1, GotoKeeps DEF PhaseOf
  <2>6. Queueing(th'[w], fifo') <= FifoBound
    BY <1>1, <1>2, <2>5, SameQueueing DEF Keeps
  <2>7. RInv'
    BY <1>1, <1>2, <2>4, <2>5, <2>6, GoesPlaced DEF RInv, FirstLabels, EvictLabels
  <2>8. Sequential!Write
    BY <1>2, <1>3, <1>4, <2>3, <2>4, <2>5 DEF Sequential!Write
  <2> QED BY <2>7, <2>8 DEF Refines, Sequential!StoreNext, Sequential!Step
<1>5. ASSUME NEW s, Answer(w, s), UNCHANGED files,
             \/ f.isopen = 0 /\ s = "NOTOPEN"
             \/ f.isopen = 1 /\ ~Permitted(w, f) /\ s = "NOTPERMISSION"
      PROVE  Refines
  <2>1. RInv' /\ Sequential!Unchanged /\ Sequential!Reply(s, "done")
    BY <1>1, <1>2, <1>5, FileRefused DEF Evicting
  <2>2. Sequential!Write
    BY <1>2, <1>3, <1>5, <2>1 DEF Sequential!Write
  <2> QED BY <2>1, <2>2 DEF Refines, Sequential!StoreNext, Sequential!Step
<1> QED BY <1>4, <1>5 DEF Write

\* Undefined behaviour, and steps that leave the thread and the files alone.
LEMMA FrozenRefines ==
    ASSUME RInv, UNCHANGED <<Hash, fifo, files, requeued, th>> PROVE Refines
<1>1. RInv'
  BY DEF RInv, Owned
<1>2. UNCHANGED theStore
  BY FileStays
<1>3. UNCHANGED PathsToSend
  BY DEF PathsToSend
<1>4. UNCHANGED <<thePhase, theRequest, theAnswer, theVictims>>
  BY <1>3 DEF thePhase, theRequest, theAnswer, theVictims
<1> QED BY <1>1, <1>2, <1>4 DEF Refines, Sequential!svars

LEMMA FaultRefines == ASSUME RInv, NEW k, Undefined(k) PROVE Refines
BY FrozenRefines DEF Undefined

\* A thread that goes on with its request, in the same phase.
LEMMA PassesOn ==
    ASSUME OneThread, IInv, RInv, NEW w \in Workers, NEW l, Keeps(w, l),
           th'[w].answer = th[w].answer, UNCHANGED <<Hash, files, requeued>>,
           th[w].pc # "evictSend", l # "evictSend", PhaseOf(l) = PhaseOf(th[w].pc),
           l \notin FirstLabels,
           l = "file" => Found(th[w], Hash),
           l \in EvictLabels \cup {"appendCopy"} /\ Op(w) = "APPEND" =>
               WasFound(th[w], Hash, files),
           l \notin Evicting => th[w].ftosend = <<>>,
           Queueing(th'[w], fifo') <= FifoBound
    PROVE  Refines
<1>1. Owned' /\ CountsKeys(Hash') /\ UNCHANGED theStore
  BY FileStays
<1>2. RInv'
  BY <1>1, GoesPlaced DEF RInv
<1>3. UNCHANGED Sequential!svars
  BY <1>1, Stutters DEF Keeps
<1> QED BY <1>2, <1>3 DEF Refines

LEMMA RemoveCheckRefines ==
    ASSUME OneThread, IInv, SInv, RInv, NEW w \in Workers, RemoveCheck(w)
    PROVE  Refines
<1> DEFINE f == files[th[w].f]
<1>1. OnFile(w, "REMOVE") /\ UNCHANGED <<Hash, fifo, files, requeued>>
  BY DEF RemoveCheck, Store, Outside
<1>2. /\ Sequential!Serving("REMOVE") /\ th[w].pc = "file" /\ Op(w) = "REMOVE"
      /\ th[w].ftosend = <<>> /\ Found(th[w], Hash)
  BY <1>1, OnFileIs DEF Op, Found, Path
<1>3. Sequential!file.lock = f.lock /\ (Sequential!Mine <=> f.fd = Client(w))
  BY <1>1, SamePermission
<1>4. ASSUME NEW s, Answer(w, s),
             \/ f.lock = 0 /\ s = "NOTLOCKED"
             \/ f.lock = 1 /\ f.fd # Client(w) /\ s = "NOTPERMISSION"
      PROVE  Refines
  <2>1. RInv' /\ Sequential!Unchanged /\ Sequential!Reply(s, "done")
    BY <1>1, <1>2, <1>4, FileRefused DEF Evicting
  <2>2. Sequential!RemoveFile
    BY <1>2, <1>3, <1>4, <2>1 DEF Sequential!RemoveFile
  <2> QED BY <2>1, <2>2 DEF Refines, Sequential!StoreNext, Sequential!Step
<1>5. CASE f.lock = 1 /\ f.fd = Client(w) /\ Goto(w, "removeBegin")
  <2>1. Keeps(w, "removeBegin") /\ th'[w].answer = th[w].answer
    BY <1>5, GotoKeeps
  <2>2. Queueing(th'[w], fifo') <= FifoBound
    BY <1>1, <1>2, <2>1, SameQueueing DEF Keeps
  <2>3. Owned' /\ CountsKeys(Hash') /\ UNCHANGED theStore
    BY <1>1, FileStays
  <2>4. Placed(th'[w], Hash', files', fifo')
    BY <1>1, <1>2, <1>5, <2>1, <2>2
       DEF Placed, Keeps, Found, Op, Client, Evicting, EvictLabels
  <2>5. RInv'
    BY <1>1, <2>3, <2>4, RInvStep DEF RInv
  <2>6. UNCHANGED Sequential!svars
    BY <1>2, <2>1, <2>3, Stutters DEF Keeps, PhaseOf
  <2> QED BY <2>5, <2>6 DEF Refines
<1> QED BY <1>4, <1>5 DEF RemoveCheck

LEMMA AppendBeginRefines ==
    ASSUME OneThread, IInv, SInv, RInv, NEW w \in Workers, AppendBegin(w)
    PROVE  Refines
<1> DEFINE f == files[th[w].f]
<1>1. OnFile(w, "APPEND") /\ UNCHANGED <<Hash, fifo, requeued>>
  BY DEF AppendBegin, Outside
<1>2. /\ Sequential!Serving("APPEND") /\ th[w].pc = "file" /\ Op(w) = "APPEND"
      /\ th[w].ftosend = <<>> /\ th[w].f \in Files /\ f \in File
      /\ Path(w) \in Paths /\ contain(Hash, Path(w))
      /\ getvalue(Hash, Path(w)) = th[w].f
  BY <1>1, OnFileIs DEF Op
<1>3. Sequential!file.isopen = f.isopen
  BY <1>1, SamePermission
<1>4. f.path = Path(w) /\ Owned
  BY <1>2, StoreAt DEF RInv
<1>5. CASE f.isopen = 0 /\ Answer(w, "NOTOPEN") /\ UNCHANGED files
  <2>1. RInv' /\ Sequential!Unchanged /\ Sequential!Reply("NOTOPEN", "done")
    BY <1>1, <1>2, <1>5, FileRefused DEF Evicting
  <2>2. Sequential!AppendBegin
    BY <1>2, <1>3, <1>5, <2>1 DEF Sequential!AppendBegin
  <2> QED BY <2>1, <2>2 DEF Refines, Sequential!StoreNext, Sequential!Step
<1>6. ASSUME f.isopen = 1, files' = [files EXCEPT ![th[w].f].mtxf = w],
             NEW l \in {"evictBegin", "appendCopy"},
             \/ l = "evictBegin" /\ Send(w, "SERVERFULL", l)
             \/ l = "appendCopy" /\ Goto(w, l)
      PROVE  Refines
  <2>1. \A a \in Files : /\ Seen(files'[a]) = Seen(files[a])
                         /\ files'[a].path = files[a].path
                         /\ files'[a].alive = files[a].alive /\ files'[a].fd = files[a].fd
    BY <1>2, <1>6, ThreadsType DEF Seen, File
  <2>2. Owned' /\ CountsKeys(Hash')
    BY <1>1, <1>4, <2>1 DEF Owned, RInv
  <2>3. SameValues(Paths)
    BY <1>1, <1>4, <2>1, StoreAt DEF SameValues
  <2>4. UNCHANGED theStore
    BY <2>3, SameStored
  <2>5. Keeps(w, l)
    BY <1>6, GotoKeeps, SendKeeps
  <2>6. Queueing(th'[w], fifo') <= FifoBound
    BY <1>1, <1>2, <2>5, SameQueueing DEF Keeps
  <2>7. WasFound(th[w], Hash', files')
    BY <1>1, <1>2, <1>4, <2>1 DEF WasFound, Path
  <2>8. RInv'
    BY <1>1, <1>2, <2>2, <2>5, <2>6, <2>7, GoesPlaced DEF RInv, FirstLabels, Evicting
  <2>9. CASE l = "evictBegin"
    <3>1. Sequential!Reply("SERVERFULL", "full")
      <4>1. Sequential!Reply("SERVERFULL", PhaseOf("evictBegin"))
        BY <1>2, <1>6, <2>9, RepliesGoing
      <4> QED BY <4>1 DEF PhaseOf
    <3>2. Sequential!AppendBegin
      BY <1>2, <1>3, <1>6, <2>4, <3>1 DEF Sequential!AppendBegin, Sequential!Unchanged
    <3> QED BY <2>8, <3>2 DEF Refines, Sequential!StoreNext, Sequential!Step
  <2>10. CASE l = "appendCopy"
    <3>1. Sequential!Silently("append")
      <4>1. Sequential!Silently(PhaseOf("appendCopy"))
        BY <1>2, <1>6, <2>10, SilentlyGoes
      <4> QED BY <4>1 DEF PhaseOf
    <3>2. Sequential!AppendBegin
      BY <1>2, <1>3, <1>6, <2>4, <3>1 DEF Sequential!AppendBegin, Sequential!Unchanged
    <3> QED BY <2>8, <3>2 DEF Refines, Sequential!StoreNext, Sequential!Step
  <2> QED BY <2>9, <2>10
<1> QED BY <1>5, <1>6 DEF AppendBegin

LEMMA LookupRefines ==
    ASSUME OneThread, IInv, SInv, RInv, NEW w \in Workers, Lookup(w)
    PROVE  Refines
<1>1. /\ th[w].pc = "lookup" /\ th[w] \in Thread /\ th \in [Workers -> Thread]
      /\ Path(w) \in Paths
  BY ThreadFacts, ThreadsType DEF Lookup, At, LocalOK, PathLabels, Path
<1>2. /\ th[w].ftosend = <<>> /\ Op(w) \notin Creating \cup WithoutPath
  BY <1>1, PlacedFacts DEF Placed, Evicting, Op
<1>3. CASE Undefined("freed")
  BY <1>3, FaultRefines
<1>4. CASE /\ ~contain(Hash, Path(w)) /\ Answer(w, "NOTPRESENT")
           /\ UNCHANGED <<Store, Outside>>
  <2>1. RInv' /\ Sequential!Unchanged /\ Sequential!Reply("NOTPRESENT", "done")
    BY <1>1, <1>4, FileRefused DEF Evicting, Store, Outside
  <2>2. Path(w) \notin Sequential!stored
    BY <1>4, StoredPaths DEF Keys, RInv
  <2>3. thePhase = "begun" /\ theRequest = th[w].req
    BY <1>1, AtWorker DEF PhaseOf
  <2>4. Sequential!Missing
    BY <1>2, <2>1, <2>2, <2>3
       DEF Sequential!Missing, Path, Op, Creating, WithoutPath
  <2> QED BY <2>1, <2>4 DEF Refines, Sequential!StoreNext, Sequential!Step
<1>5. ASSUME contain(Hash, Path(w)), UNCHANGED <<Hash, fifo, files, requeued>>,
             NEW l \in {"accountAppend", "file"},
             th'[w].pc = l, th'[w].f = getvalue(Hash, Path(w)), th'[w].req = th[w].req,
             th'[w].answer = th[w].answer, th'[w].ftosend = th[w].ftosend
      PROVE  Refines
  <2>1. Owned' /\ CountsKeys(Hash') /\ UNCHANGED theStore
    BY <1>5, FileStays
  <2>2. Queueing(th'[w], fifo') <= FifoBound
    BY <1>1, <1>5, SameQueueing
  <2>3. Placed(th'[w], Hash', files', fifo')
    BY <1>1, <1>2, <1>5, <2>2 DEF Placed, Found, Path, EvictLabels, Evicting
  <2>4. RInv'
    BY <1>5, <2>1, <2>3, RInvStep DEF RInv
  <2>5. PhaseOf(th'[w].pc) = PhaseOf(th[w].pc)
    BY <1>1, <1>5 DEF PhaseOf
  <2>6. UNCHANGED Sequential!svars
    BY <1>1, <1>5, <2>1, <2>5, Stutters
  <2> QED BY <2>4, <2>6 DEF Refines
<1>6. CASE /\ contain(Hash, Path(w)) /\ UNCHANGED <<Hash, fifo, files, requeued>>
           /\ \/ th' = [th EXCEPT ![w].pc = "accountAppend",
                                  ![w].f = getvalue(Hash, Path(w)),
                                  ![w].tmp = actual_size]
              \/ GotoWith(w, "file", getvalue(Hash, Path(w)))
  <2>1. PICK a : a = getvalue(Hash, Path(w))
    OBVIOUS
  <2>2. \/ th' = [th EXCEPT ![w].pc = "accountAppend", ![w].f = a, ![w].tmp = actual_size]
        \/ th' = [th EXCEPT ![w].pc = "file", ![w].f = a]
    BY <1>6, <2>1 DEF GotoWith
  <2>3. /\ th'[w].pc \in {"accountAppend", "file"} /\ th'[w].f = a
        /\ th'[w].req = th[w].req /\ th'[w].answer = th[w].answer
        /\ th'[w].ftosend = th[w].ftosend
    BY <1>1, <2>2 DEF Thread
  <2> QED BY <1>5, <1>6, <2>1, <2>3
<1> QED BY <1>3, <1>4, <1>6 DEF Lookup, Store, Outside

\* A thread that goes to a label and keeps a value to itself.
LEMMA TmpKeeps ==
    ASSUME IInv, NEW w \in Workers, NEW l, NEW x,
           th' = [th EXCEPT ![w].pc = l, ![w].tmp = x]
    PROVE  Keeps(w, l) /\ th'[w].answer = th[w].answer
<1>1. th \in [Workers -> Thread] /\ th[w] \in Thread
  BY ThreadsType
<1>2. th'[w] = [th[w] EXCEPT !.pc = l, !.tmp = x]
  BY <1>1
<1> QED BY <1>1, <1>2 DEF Keeps, Thread

\* The steps that count bytes.
LEMMA AccountRefines ==
    ASSUME OneThread, IInv, RInv, NEW w \in Workers,
           AccountAppend(w) \/ AccountRead(w) \/ Account(w)
    PROVE  Refines
<1>1. PICK l : /\ \/ th[w].pc = "accountAppend" /\ l = "file"
                  \/ th[w].pc = "accountRead" /\ l = "account"
                  \/ th[w].pc = "account" /\ l = "checkSpace"
               /\ Keeps(w, l) /\ th'[w].answer = th[w].answer
  <2>1. CASE AccountAppend(w) \/ Account(w)
    BY <2>1, GotoKeeps DEF AccountAppend, Account, At
  <2>2. CASE AccountRead(w)
    BY <2>2, TmpKeeps DEF AccountRead, At
  <2> QED BY <2>1, <2>2
<1>2. UNCHANGED <<Hash, fifo, files, requeued>>
  BY DEF AccountAppend, AccountRead, Account, Store, Outside
<1>3. /\ th[w].ftosend = <<>>
      /\ l = "file" => Found(th[w], Hash)
  BY <1>1, PlacedFacts DEF Placed, Evicting
<1>4. Queueing(th'[w], fifo') <= FifoBound
  BY <1>1, <1>2, SameQueueing DEF Keeps
<1>5. PhaseOf(l) = PhaseOf(th[w].pc)
  BY <1>1 DEF PhaseOf
<1> QED BY <1>1, <1>2, <1>3, <1>4, <1>5, PassesOn DEF FirstLabels, EvictLabels

LEMMA CheckSpaceRefines ==
    ASSUME OneThread, IInv, OInv, RInv, NEW w \in Workers, CheckSpace(w)
    PROVE  Refines
<1>1. /\ th[w].pc = "checkSpace" /\ Op(w) = "WRITE" /\ th[w].ftosend = <<>>
      /\ UNCHANGED <<Hash, fifo, files, requeued>>
  BY PlacedFacts
     DEF CheckSpace, At, OInv, Serves, WriteLabels, Op, Placed, Evicting, Store, Outside
<1>2. Owned' /\ CountsKeys(Hash') /\ UNCHANGED theStore
  BY <1>1, FileStays
<1>3. thePhase = "written"
  BY <1>1, AtWorker DEF PhaseOf
<1>4. ASSUME NEW s, NEW l \in {"enqueue", "evictBegin"}, Send(w, s, l)
      PROVE  RInv' /\ Sequential!Reply(s, PhaseOf(l))
  <2>1. Keeps(w, l)
    BY <1>4, SendKeeps
  <2>2. Queueing(th'[w], fifo') <= FifoBound
    BY <1>1, <1>4, <2>1, SameQueueing DEF Keeps
  <2>3. RInv'
    BY <1>1, <1>2, <1>4, <2>1, <2>2, GoesPlaced DEF RInv, FirstLabels, Evicting
  <2> QED BY <1>1, <1>4, <2>3, RepliesGoing
<1>5. CASE Send(w, "SUCCESS", "enqueue")
  <2>1. RInv' /\ Sequential!Reply("SUCCESS", "done")
    <3>1. RInv' /\ Sequential!Reply("SUCCESS", PhaseOf("enqueue"))
      BY <1>4, <1>5
    <3> QED BY <3>1 DEF PhaseOf
  <2> QED BY <1>2, <1>3, <2>1
          DEF Refines, Sequential!StoreNext, Sequential!Step, Sequential!Count,
              Sequential!Unchanged
<1>6. CASE Send(w, "SERVERFULL", "evictBegin")
  <2>1. RInv' /\ Sequential!Reply("SERVERFULL", "full")
    <3>1. RInv' /\ Sequential!Reply("SERVERFULL", PhaseOf("evictBegin"))
      BY <1>4, <1>6
    <3> QED BY <3>1 DEF PhaseOf
  <2> QED BY <1>2, <1>3, <2>1
          DEF Refines, Sequential!StoreNext, Sequential!Step, Sequential!Count,
              Sequential!Unchanged
<1> QED BY <1>5, <1>6 DEF CheckSpace

LEMMA EnqueueRefines ==
    ASSUME OneThread, IInv, OInv, RInv, NEW w \in Workers, Enqueue(w)
    PROVE  Refines
<1>1. CASE Undefined("freed")
  BY <1>1, FaultRefines
<1>2. CASE ~Undefined("freed")
  <2>1. /\ fifo' = insertT(fifo, [key |-> files[th[w].f].path, cont |-> th[w].f])
        /\ Goto(w, "finish") /\ UNCHANGED <<Hash, files, requeued>>
    BY <1>2 DEF Enqueue, Outside
  <2>2. th[w].pc = "enqueue" /\ Op(w) = "WRITE" /\ th[w].ftosend = <<>>
    BY PlacedFacts DEF Enqueue, At, OInv, Serves, WriteLabels, Op, Placed, Evicting
  <2>3. Keeps(w, "finish") /\ th'[w].answer = th[w].answer
    BY <2>1, GotoKeeps
  <2>4. Queueing(th'[w], fifo') <= FifoBound
    <3>1. PICK n \in Nat, m \in Nat : n = Len(fifo.nodes) /\ m = Len(th[w].ftosend)
                                      /\ n + m + 1 <= FifoBound
      BY <2>2, QueueingBound
    <3>2. Len(fifo'.nodes) = n + 1
      <4>1. fifo \in ListOf(Entry)
        BY DEF IInv, TypeOK
      <4>2. PICK e : fifo' = insertT(fifo, e)
        BY <2>1
      <4>3. fifo'.nodes = Append(fifo.nodes, e) /\ fifo.nodes \in Seq(Entry)
        BY <4>1, <4>2 DEF insertT, ListOf
      <4> QED BY <3>1, <4>3
    <3>3. Queueing(th'[w], fifo') = n + 1 + m + 0 + 0
      BY <2>3, <3>1, <3>2 DEF Queueing, Keeps
    <3>4. Queueing(th'[w], fifo') = n + m + 1
      BY <3>3
    <3>5. n + m + 1 <= FifoBound
      BY <3>1
    <3> QED BY <3>4, <3>5
  <2>5. PhaseOf("finish") = PhaseOf(th[w].pc)
    BY <2>2 DEF PhaseOf
  <2> QED BY <2>1, <2>2, <2>3, <2>4, <2>5, PassesOn DEF FirstLabels, EvictLabels
<1> QED BY <1>1, <1>2

LEMMA AppendCopyRefines ==
    ASSUME OneThread, IInv, SInv, OInv, RInv, NEW w \in Workers, AppendCopy(w)
    PROVE  Refines
<1> DEFINE f == files[th[w].f]
           size == th[w].req.size
           g == [f EXCEPT !.dim = @ + size, !.cont = "buffer", !.mtxf = NONE]
<1>1. CASE \E k : Undefined(k)
  BY <1>1, FaultRefines
<1>2. CASE ~\E k : Undefined(k)
  <2>1. /\ th[w].pc = "appendCopy" /\ Op(w) = "APPEND" /\ th[w].ftosend = <<>>
        /\ th[w].f \in Files /\ f \in File /\ th[w].req.size \in Int
        /\ WasFound(th[w], Hash, files)
    <3>1. /\ th[w].pc = "appendCopy" /\ th[w] \in Thread /\ LocalOK(th[w])
          /\ th[w].f \in Files
      BY ThreadFacts DEF AppendCopy, At, FileLabels
    <3>2. Op(w) = "APPEND"
      BY <3>1 DEF OInv, Serves, AppendLabels, Op
    <3>3. th[w].ftosend = <<>> /\ WasFound(th[w], Hash, files)
      BY <3>1, <3>2, PlacedFacts DEF Placed, Evicting, Op
    <3>4. f \in File
      BY <3>1, ThreadsType
    <3>5. th[w].req.size \in Int
      BY <3>1 DEF LocalOK, Request
    <3> QED BY <3>1, <3>2, <3>3, <3>4, <3>5
  <2>2. /\ f.alive /\ (f.cont = "buffer" \/ (f.cont = "null" /\ f.dim = 0))
        /\ files' = [files EXCEPT ![th[w].f].dim = @ + size, ![th[w].f].cont = "buffer",
                                  ![th[w].f].mtxf = NONE]
        /\ Answer(w, "SUCCESS") /\ UNCHANGED <<Hash, fifo, requeued>>
    BY <1>2 DEF AppendCopy, Outside
  <2>3. g \in File /\ g.fd = f.fd /\ files' = [files EXCEPT ![th[w].f] = g]
    <3>1. files' = [files EXCEPT ![th[w].f] = g]
      BY <2>1, <2>2, ThreadsType DEF File
    <3>2. f.dim + size \in Int
      BY <2>1 DEF File
    <3>3. g \in File
      BY <2>1, <3>2 DEF File
    <3>4. g.fd = f.fd
      BY <2>1 DEF File
    <3> QED BY <3>1, <3>3, <3>4
  <2>4. Seen(g) = [Seen(f) EXCEPT !.dim = @ + size, !.written = TRUE]
    <3>1. PICK h, x : h = [f EXCEPT !.mtxf = NONE] /\ x = f.dim + size
      OBVIOUS
    <3>2. h \in File /\ Seen(h) = Seen(f) /\ g = [h EXCEPT !.dim = x, !.cont = "buffer"]
      <4>1. h \in File
        BY <2>1, <3>1 DEF File
      <4>2. Seen(h) = Seen(f)
        BY <2>1, <3>1 DEF Seen, File
      <4>3. g = [h EXCEPT !.dim = x, !.cont = "buffer"]
        BY <2>1, <3>1 DEF File
      <4> QED BY <4>1, <4>2, <4>3
    <3>3. Seen(g) = [Seen(f) EXCEPT !.dim = x, !.written = TRUE]
      <4> HIDE DEF g
      <4> QED BY <3>2, SeenWritten
    <3>4. Seen(f).dim = f.dim
      BY <2>2 DEF Seen
    <3> QED BY <3>1, <3>3, <3>4
  <2> HIDE DEF g
  <2>5. files'[th[w].f] = g /\ \A b \in Files \ {th[w].f} : files'[b] = files[b]
    BY <2>1, <2>3, ThreadsType
  <2>6. Owned /\ Owned' /\ CountsKeys(Hash')
    <3>1. Owned /\ CountsKeys(Hash)
      BY DEF RInv
    <3> QED BY <2>1, <2>2, <2>3, <2>5, <3>1 DEF Owned
  <2>7. /\ Sequential!Reply("SUCCESS", "done") /\ Keeps(w, "finish")
        /\ thePhase = "append" /\ theRequest = th[w].req
    <3>1. Sequential!Reply("SUCCESS", "done") /\ Keeps(w, "finish")
      BY <2>1, <2>2, RepliesLast, SendKeeps DEF Answer
    <3> QED BY <2>1, <3>1, AtWorker DEF PhaseOf
  <2>8. RInv'
    BY <2>1, <2>2, <2>6, <2>7, EndsPlaced DEF RInv, Evicting
  <2>9. Path(w) \in Paths /\ f.path = Path(w)
    BY <2>1, <2>2 DEF WasFound, Path
  <2>10. CASE contain(Hash, Path(w))
    <3>1. getvalue(Hash, Path(w)) = th[w].f
      BY <2>1, <2>10 DEF WasFound, Path
    <3>2. theStore' = [theStore EXCEPT ![Path(w)] = Seen(g)]
      BY <2>2, <2>5, <2>6, <2>9, <2>10, <3>1, FileChange
    <3>3. Sequential!file = Seen(f)
      BY <2>6, <2>7, <2>9, <2>10, <3>1, StoreAt DEF Sequential!file, Path
    <3>4. theRequest.path \in Sequential!stored
      BY <2>6, <2>7, <2>9, <2>10, StoredPaths DEF Keys, Path
    <3>5. Sequential!Becomes([Sequential!file EXCEPT !.dim = @ + theRequest.size,
                                                     !.written = TRUE])
      <4>1. size = theRequest.size /\ Path(w) = theRequest.path
        BY <2>7 DEF Path
      <4> QED BY <2>4, <3>2, <3>3, <4>1 DEF Sequential!Becomes
    <3>6. Sequential!AppendEnd
      BY <2>7, <3>4, <3>5 DEF Sequential!AppendEnd
    <3> QED BY <2>8, <3>6 DEF Refines, Sequential!StoreNext, Sequential!Step
  <2>11. CASE ~contain(Hash, Path(w))
    <3>1. \A q \in Paths : contain(Hash, q) => getvalue(Hash, q) \in Files \ {th[w].f}
      BY <2>6, <2>9, <2>11, StoreAt
    <3>2. SameValues(Paths)
      BY <2>2, <2>5, <3>1 DEF SameValues
    <3>3. UNCHANGED theStore
      BY <3>2, SameStored
    <3>4. theRequest.path \notin Sequential!stored
      BY <2>6, <2>7, <2>11, StoredPaths DEF Keys, Path
    <3>5. Sequential!AppendEnd
      BY <2>7, <3>3, <3>4 DEF Sequential!AppendEnd, Sequential!Unchanged
    <3> QED BY <2>8, <3>5 DEF Refines, Sequential!StoreNext, Sequential!Step
  <2> QED BY <2>10, <2>11
<1> QED BY <1>1, <1>2

LEMMA CreateCheckRefines ==
    ASSUME OneThread, IInv, SInv, RInv, NEW w \in Workers, CreateCheck(w)
    PROVE  Refines
<1>1. /\ th[w].pc = "check" /\ Path(w) \in Paths /\ Op(w) \in Creating
      /\ th[w].ftosend = <<>> /\ Owned
  BY ThreadFacts, PlacedFacts
     DEF CreateCheck, At, LocalOK, PathLabels, Path, Placed, Op, Evicting
<1>2. CASE Undefined("freed")
  BY <1>2, FaultRefines
<1>3. CASE /\ contain(Hash, Path(w)) /\ Answer(w, "YESCONTAIN")
           /\ UNCHANGED <<Store, Outside>>
  <2>1. RInv' /\ Sequential!Unchanged /\ Sequential!Reply("YESCONTAIN", "done")
    BY <1>1, <1>3, FileRefused DEF Evicting, Store, Outside
  <2>2. thePhase = "begun" /\ theRequest = th[w].req
    BY <1>1, AtWorker DEF PhaseOf
  <2>3. theRequest.path \in Sequential!stored
    BY <1>1, <1>3, <2>2, StoredPaths DEF Keys, Path
  <2>4. Sequential!Create
    BY <1>1, <2>1, <2>2, <2>3 DEF Sequential!Create, Op, Creating
  <2> QED BY <2>1, <2>4 DEF Refines, Sequential!StoreNext, Sequential!Step
<1>4. ASSUME NEW l \in {"create", "createFull"}, Goto(w, l), UNCHANGED <<Store, Outside>>,
             l = IF Hash.nelem + 1 <= MaxF THEN "create" ELSE "createFull"
      PROVE  Refines
  <2>1. Keeps(w, l) /\ th'[w].answer = th[w].answer
    BY <1>4, GotoKeeps
  <2>2. UNCHANGED <<Hash, fifo, files, requeued>>
    BY <1>4 DEF Store, Outside
  <2>3. Owned' /\ CountsKeys(Hash') /\ UNCHANGED theStore
    BY <2>2, FileStays
  <2>4. Queueing(th'[w], fifo') <= FifoBound
    BY <1>1, <1>4, <2>1, <2>2, SameQueueing DEF Keeps
  <2>5. /\ l = "create" => Hash.nelem < MaxF
        /\ l = "createFull" => Hash.nelem >= MaxF
    BY <1>4, HashAssumption DEF IInv, TypeOK, Tables
  <2>6. Placed(th'[w], Hash', files', fifo')
    BY <1>1, <1>4, <2>1, <2>2, <2>4, <2>5 DEF Placed, Keeps, Op, EvictLabels, Evicting
  <2>7. RInv'
    BY <2>2, <2>3, <2>6, RInvStep DEF RInv
  <2>8. PhaseOf(l) = PhaseOf(th[w].pc)
    BY <1>1, <1>4 DEF PhaseOf
  <2>9. UNCHANGED Sequential!svars
    BY <1>1, <1>4, <2>1, <2>3, <2>8, Stutters DEF Keeps
  <2> QED BY <2>7, <2>9 DEF Refines
<1> QED BY <1>2, <1>3, <1>4 DEF CreateCheck

\* What Store has of a new File.
LEMMA SeenCreated ==
    ASSUME NEW p, NEW c, NEW l, NEW d, NEW garbage \in {"null", "wild"}
    PROVE  Seen(Created(p, c, l, d, garbage))
              = [isopen |-> 1, lock |-> l, fd |-> c, dim |-> 0, written |-> FALSE]
BY DEF Seen, Created

LEMMA SameCardinality == \A S : Sequential!Cardinality(S) = Cardinality(S)
BY DEF Sequential!Cardinality, Cardinality

LEMMA CreateInsertRefines ==
    ASSUME OneThread, IInv, SInv, RInv, NEW w \in Workers, CreateInsert(w)
    PROVE  Refines
<1>1. /\ th[w].pc \in {"create", "createFull"} /\ ~contain(Hash, Path(w))
      /\ Path(w) \in Paths /\ Client(w) \in Clients /\ Hash \in Tables
      /\ DistinctPaths(Hash)
  BY ThreadFacts
     DEF CreateInsert, At, LocalOK, PathLabels, Path, SInv, Absent, IInv, TypeOK
<1>2. /\ Op(w) \in Creating /\ th[w].ftosend = <<>> /\ Owned /\ CountsKeys(Hash)
      /\ th[w].pc = "create" <=> Hash.nelem < MaxF
  <2>1. /\ th[w].pc = "create" => Hash.nelem < MaxF
        /\ th[w].pc = "createFull" => Hash.nelem >= MaxF
    BY PlacedFacts DEF Placed
  <2>2. Op(w) \in Creating /\ th[w].ftosend = <<>> /\ Owned /\ CountsKeys(Hash)
    BY <1>1, PlacedFacts DEF Placed, Op, Evicting
  <2>3. Hash.nelem \in Int /\ MaxF \in Nat
    BY <1>1, HashAssumption DEF Tables
  <2> QED BY <1>1, <2>1, <2>2, <2>3
<1>3. PICK a \in Fresh, d \in Uninit, garbage \in {"null", "wild"} :
         /\ Hash' = hashins(Hash, Path(w), a)
         /\ files' = [files EXCEPT ![a] =
                        Created(Path(w), Client(w),
                                IF Op(w) = "O_CRLK" THEN 1 ELSE 0, d, garbage)]
  BY DEF CreateInsert
<1>4. a \in Files /\ a \notin Stored(Hash)
  BY DEF Fresh
<1>5. PICK l : l = IF Op(w) = "O_CRLK" THEN 1 ELSE 0
  OBVIOUS
<1>6. /\ files'[a] = Created(Path(w), Client(w), l, d, garbage)
      /\ \A b \in Files \ {a} : files'[b] = files[b]
  BY <1>3, <1>4, <1>5, ThreadsType
<1>7. CountsKeys(Hash')
  <2>1. CountsKeys(hashins(Hash, Path(w), a))
    BY <1>1, <1>2, <1>4, HashinsCountsKeys
  <2> QED BY <1>3, <2>1
<1>8. Owned'
  BY <1>1, <1>2, <1>6 DEF Owned, Created
<1>9. theStore' = [theStore EXCEPT ![Path(w)] = Seen(files'[a])]
  BY <1>1, <1>2, <1>3, <1>4, <1>6, InsertChange
<1>10. thePhase = "begun" /\ theRequest = th[w].req
  BY <1>1, AtWorker DEF PhaseOf
<1>11. Sequential!Becomes([isopen |-> 1, lock |-> IF theRequest.op = "O_CRLK" THEN 1 ELSE 0,
                           fd |-> theRequest.fd, dim |-> 0, written |-> FALSE])
  <2>1. Seen(files'[a])
          = [isopen |-> 1, lock |-> l, fd |-> Client(w), dim |-> 0, written |-> FALSE]
    BY <1>6, SeenCreated
  <2>2. l = (IF theRequest.op = "O_CRLK" THEN 1 ELSE 0) /\ Client(w) = theRequest.fd
        /\ Path(w) = theRequest.path
    BY <1>5, <1>10 DEF Op, Client, Path
  <2> QED BY <1>9, <2>1, <2>2 DEF Sequential!Becomes
<1>12. /\ Sequential!stored = Keys(Hash) /\ theRequest.path \notin Sequential!stored
       /\ Sequential!Cardinality(Sequential!stored) = Hash.nelem
  BY <1>1, <1>2, <1>10, StoredPaths, SameCardinality DEF Keys, CountsKeys, Path
<1>13. UNCHANGED <<fifo, requeued>>
  BY DEF CreateInsert, Outside
<1>14. CASE th[w].pc = "create"
  <2>1. Answer(w, "SUCCESS")
    BY <1>14 DEF CreateInsert
  <2>2. Sequential!Reply("SUCCESS", "done") /\ Keeps(w, "finish")
    BY <1>14, <2>1, RepliesLast, SendKeeps DEF Answer
  <2>3. RInv'
    BY <1>7, <1>8, <1>13, <1>14, <2>2, EndsPlaced DEF RInv, Evicting
  <2>4. Sequential!Create
    <3>1. theRequest.op \in {"O_CREATE", "O_CRLK"} /\ Sequential!Cardinality(Sequential!stored) < MaxF
      BY <1>2, <1>10, <1>12, <1>14 DEF Op, Creating
    <3>2. IF Sequential!Cardinality(Sequential!stored) < MaxF THEN Sequential!Reply("SUCCESS", "done")
          ELSE Sequential!Silently("expel")
      BY <2>2, <3>1
    <3> QED BY <1>10, <1>11, <1>12, <3>1, <3>2, Zenon DEF Sequential!Create
  <2> QED BY <2>3, <2>4 DEF Refines, Sequential!StoreNext, Sequential!Step
<1>15. CASE th[w].pc = "createFull"
  <2>1. Goto(w, "expel")
    BY <1>15 DEF CreateInsert
  <2>2. Sequential!Silently("expel") /\ Keeps(w, "expel")
    <3>1. Sequential!Silently(PhaseOf("expel"))
      BY <1>15, <2>1, SilentlyGoes
    <3> QED BY <2>1, <3>1, GotoKeeps DEF PhaseOf
  <2>3. Queueing(th'[w], fifo') <= FifoBound
    BY <1>13, <1>15, <2>2, SameQueueing DEF Keeps
  <2>4. RInv'
    BY <1>2, <1>7, <1>8, <1>13, <2>2, <2>3, GoesPlaced DEF RInv, FirstLabels, EvictLabels
  <2>5. Sequential!Create
    <3>1. theRequest.op \in {"O_CREATE", "O_CRLK"} /\ ~(Sequential!Cardinality(Sequential!stored) < MaxF)
      BY <1>2, <1>10, <1>12, <1>15 DEF Op, Creating
    <3>2. IF Sequential!Cardinality(Sequential!stored) < MaxF THEN Sequential!Reply("SUCCESS", "done")
          ELSE Sequential!Silently("expel")
      BY <2>2, <3>1
    <3> QED BY <1>10, <1>11, <1>12, <3>1, <3>2, Zenon DEF Sequential!Create
  <2> QED BY <2>4, <2>5 DEF Refines, Sequential!StoreNext, Sequential!Step
<1> QED BY <1>1, <1>14, <1>15

LEMMA ExpelHeadRefines ==
    ASSUME OneThread, IInv, RInv, NEW w \in Workers, ExpelHead(w)
    PROVE  Refines
<1>1. CASE Undefined("null")
  BY <1>1, FaultRefines
<1>2. CASE ~Undefined("null")
  <2>1. /\ th[w].pc = "expel" /\ takeHeadSafe(fifo) /\ fifo' = takeHead(fifo)
        /\ th' = [th EXCEPT ![w].pc = "unlinkExpelled", ![w].f = Head(fifo.nodes).cont]
        /\ UNCHANGED <<Hash, files, requeued>>
    BY <1>2 DEF ExpelHead, At, Outside
  <2>2. /\ th'[w].pc = "unlinkExpelled" /\ th'[w].req = th[w].req
        /\ th'[w].answer = th[w].answer /\ th'[w].ftosend = th[w].ftosend
    <3>1. th \in [Workers -> Thread] /\ th[w] \in Thread
      BY ThreadsType
    <3>2. PICK a : th' = [th EXCEPT ![w].pc = "unlinkExpelled", ![w].f = a]
      BY <2>1
    <3> QED BY <3>1, <3>2 DEF Thread
  <2>3. Queueing(th'[w], fifo') <= FifoBound
    <3>1. PICK n \in Nat, m \in Nat, j \in {0, 1} :
             /\ n = Len(fifo.nodes) /\ m = Len(th[w].ftosend) /\ n + m + j <= FifoBound
             /\ j = IF Op(w) = "WRITE" /\ th[w].pc \notin {"idle", "finish"} THEN 1 ELSE 0
      BY <2>1, QueueingBound
    <3>2. Len(fifo'.nodes) = n - 1 /\ n > 0
      <4>1. fifo \in ListOf(Entry)
        BY DEF IInv, TypeOK
      <4>2. fifo'.nodes = Tail(fifo.nodes) /\ fifo.nodes \in Seq(Entry) /\ fifo.nodes # <<>>
        BY <2>1, <4>1 DEF takeHead, takeHeadSafe, isEmpty, ListOf
      <4> QED BY <3>1, <4>2, HeadTailProperties
    <3>3. Queueing(th'[w], fifo') = n - 1 + m + 0 + j
      BY <2>1, <2>2, <3>1, <3>2 DEF Queueing, Op
    <3>4. n + m + j <= FifoBound
      BY <3>1
    <3> QED BY <3>3, <3>4, FifoBoundType
  <2>4. Owned' /\ CountsKeys(Hash') /\ UNCHANGED theStore
    BY <2>1, FileStays
  <2>5. th[w].ftosend = <<>>
    BY <2>1, PlacedFacts DEF Placed, Evicting
  <2>6. Placed(th'[w], Hash', files', fifo')
    BY <2>2, <2>3, <2>5 DEF Placed, EvictLabels, Evicting
  <2>7. RInv'
    BY <2>1, <2>4, <2>6, RInvStep DEF RInv
  <2>8. UNCHANGED Sequential!svars
    BY <2>1, <2>2, <2>4, Stutters DEF PhaseOf
  <2> QED BY <2>7, <2>8 DEF Refines
<1> QED BY <1>1, <1>2

\* The table without a path counts what is left.
LEMMA DeleteCounts ==
    ASSUME IInv, SInv, RInv, NEW p \in Paths, Hash' = h_delete(Hash, p)
    PROVE  CountsKeys(Hash')
<1>1. Hash \in Tables /\ DistinctPaths(Hash) /\ CountsKeys(Hash)
  BY DEF IInv, TypeOK, SInv, RInv
<1>2. CountsKeys(h_delete(Hash, p))
  BY <1>1, HdeleteCountsKeys
<1> QED BY <1>2

LEMMA UnlinkExpelledRefines ==
    ASSUME OneThread, IInv, SInv, RInv, NEW w \in Workers, UnlinkExpelled(w)
    PROVE  Refines
<1> DEFINE p == files[th[w].f].path
<1>1. CASE \E k : Undefined(k)
  BY <1>1, FaultRefines
<1>2. CASE ~\E k : Undefined(k)
  <2>1. /\ th[w].pc = "unlinkExpelled" /\ files[th[w].f].alive /\ th[w].f \in Files
        /\ Hash' = h_delete(Hash, p) /\ UNCHANGED <<fifo, files, requeued>>
        /\ Answer(w, "TOMUCHFILE")
    BY <1>2, ThreadFacts DEF UnlinkExpelled, At, FileLabels, Outside
  <2>2. p \in Paths
    BY <2>1 DEF IInv, Named
  <2> HIDE DEF p
  <2>3. CountsKeys(Hash') /\ Owned /\ Owned'
    BY <2>1, <2>2, DeleteCounts DEF RInv, Owned
  <2>4. theStore' = [theStore EXCEPT ![p] = Sequential!Absent]
    BY <2>1, <2>2, <2>3, DeleteChange
  <2>5. Sequential!Reply("TOMUCHFILE", "done") /\ Keeps(w, "finish")
    BY <2>1, RepliesLast, SendKeeps DEF Answer
  <2>6. RInv'
    BY <2>1, <2>3, <2>5, EndsPlaced DEF RInv, Evicting
  <2>7. thePhase = "expel"
    BY <2>1, AtWorker DEF PhaseOf
  <2>8. Sequential!Expel(p)
    BY <2>4, <2>5, <2>7 DEF Sequential!Expel
  <2> QED BY <2>2, <2>6, <2>8 DEF Refines, Sequential!StoreNext, Sequential!Step
<1> QED BY <1>1, <1>2

LEMMA RemoveBeginRefines ==
    ASSUME OneThread, IInv, RInv, NEW w \in Workers, RemoveBegin(w)
    PROVE  Refines
<1>1. /\ th[w].pc = "removeBegin" /\ UNCHANGED <<Hash, fifo, files, requeued>>
      /\ Keeps(w, "removeUnlink") /\ th'[w].answer = th[w].answer
  BY TmpKeeps DEF RemoveBegin, At, Outside
<1>2. Owned' /\ CountsKeys(Hash') /\ UNCHANGED theStore
  BY <1>1, FileStays
<1>3. Queueing(th'[w], fifo') <= FifoBound
  BY <1>1, SameQueueing DEF Keeps
<1>4. Placed(th[w], Hash, files, fifo)
  BY PlacedFacts
<1>5. Placed(th'[w], Hash', files', fifo')
  BY <1>1, <1>3, <1>4 DEF Placed, Keeps, Found, EvictLabels, Evicting
<1>6. RInv'
  BY <1>1, <1>2, <1>5, RInvStep DEF RInv
<1>7. UNCHANGED Sequential!svars
  BY <1>1, <1>2, Stutters DEF Keeps, PhaseOf
<1> QED BY <1>6, <1>7 DEF Refines

LEMMA RemoveUnlinkRefines ==
    ASSUME OneThread, IInv, SInv, RInv, NEW w \in Workers, RemoveUnlink(w)
    PROVE  Refines
<1> DEFINE f == files[th[w].f]
<1>1. CASE \E k : Undefined(k)
  BY <1>1, FaultRefines
<1>2. CASE ~\E k : Undefined(k)
  <2>1. /\ th[w].pc = "removeUnlink" /\ th[w].f \in Files /\ f \in File
        /\ Hash' = h_delete(Hash, f.path) /\ UNCHANGED <<fifo, files, requeued>>
        /\ Goto(w, "removeFifo")
    BY <1>2, ThreadFacts, ThreadsType DEF RemoveUnlink, At, FileLabels, Outside
  <2>2. /\ Found(th[w], Hash) /\ Op(w) = "REMOVE" /\ f.lock = 1 /\ f.fd = Client(w)
        /\ th[w].ftosend = <<>>
    BY <2>1, PlacedFacts DEF Placed, Op, Client, Evicting
  <2>3. /\ Path(w) \in Paths /\ contain(Hash, Path(w)) /\ getvalue(Hash, Path(w)) = th[w].f
    BY <2>2 DEF Found, Path
  <2>4. f.path = Path(w) /\ theStore[Path(w)] = Seen(f)
    BY <2>3, StoreAt DEF RInv
  <2>5. CountsKeys(Hash') /\ Owned /\ Owned'
    BY <2>1, <2>3, <2>4, DeleteCounts DEF RInv, Owned
  <2>6. theStore' = [theStore EXCEPT ![Path(w)] = Sequential!Absent]
    BY <2>1, <2>3, <2>4, <2>5, DeleteChange
  <2>7. Keeps(w, "removeFifo")
    BY <2>1, GotoKeeps
  <2>8. Sequential!Silently("removed")
    <3>1. Sequential!Silently(PhaseOf("removeFifo"))
      BY <2>1, SilentlyGoes
    <3> QED BY <3>1 DEF PhaseOf
  <2>9. Queueing(th'[w], fifo') <= FifoBound
    BY <2>1, <2>7, SameQueueing DEF Keeps
  <2>10. RInv'
    BY <2>1, <2>2, <2>5, <2>7, <2>9, GoesPlaced DEF RInv, FirstLabels, EvictLabels
  <2>11. /\ thePhase = "begun" /\ theRequest = th[w].req
         /\ Path(w) \in Sequential!stored
    BY <2>1, <2>3, <2>5, AtWorker, StoredPaths DEF PhaseOf, Keys
  <2>12. Sequential!RemoveFile
    <3>1. Sequential!Serving("REMOVE")
      BY <2>2, <2>11 DEF Sequential!Serving, Op, Path
    <3>2. Sequential!file.lock = 1 /\ Sequential!Mine
      BY <2>2, <2>4, <2>11 DEF Sequential!file, Sequential!Mine, Seen, Path, Client
    <3>3. Sequential!Becomes(Sequential!Absent)
      BY <2>6, <2>11 DEF Sequential!Becomes, Path
    <3> QED BY <2>8, <3>1, <3>2, <3>3 DEF Sequential!RemoveFile
  <2> QED BY <2>10, <2>12 DEF Refines, Sequential!StoreNext, Sequential!Step
<1> QED BY <1>1, <1>2

\* delete() never makes the list longer.
LEMMA DeleteShortens ==
    ASSUME NEW q \in ListOf(Entry), NEW k
    PROVE  /\ Len(q.nodes) \in Nat /\ Len(delete(q, k).nodes) \in Nat
           /\ Len(delete(q, k).nodes) <= Len(q.nodes)
<1>1. Len(q.nodes) \in Nat
  BY LenProperties DEF ListOf
<1>2. CASE HasKey(q, k)
  BY <1>1, <1>2, DeleteNodes
<1>3. CASE ~HasKey(q, k)
  BY <1>1, <1>3 DEF delete
<1> QED BY <1>2, <1>3

LEMMA RemoveFifoRefines ==
    ASSUME OneThread, IInv, SInv, RInv, NEW w \in Workers, RemoveFifo(w)
    PROVE  Refines
<1> DEFINE f == files[th[w].f]
<1>1. CASE \E k : Undefined(k)
  BY <1>1, FaultRefines
<1>2. CASE ~\E k : Undefined(k)
  <2>1. /\ th[w].pc = "removeFifo" /\ th[w].f \in Files
        /\ fifo' = delete(fifo, f.path) /\ UNCHANGED <<Hash, requeued>>
        /\ files' = [files EXCEPT ![th[w].f] = NoFile] /\ Answer(w, "SUCCESS")
    BY <1>2, ThreadFacts DEF RemoveFifo, At, FileLabels, Outside
  <2>2. /\ ~files'[th[w].f].alive /\ \A b \in Files \ {th[w].f} : files'[b] = files[b]
    BY <2>1, ThreadsType DEF NoFile
  <2>3. th[w].f \notin Stored(Hash) /\ Hash \in Tables /\ th[w].ftosend = <<>>
    BY <2>1, PlacedFacts DEF SInv, Unlinked, IInv, TypeOK, Placed, Evicting
  <2>4. CountsKeys(Hash') /\ Owned'
    BY <2>1, <2>2 DEF RInv, Owned
  <2>5. SameValues(Paths)
    <3>1. \A p \in Paths : contain(Hash, p) => getvalue(Hash, p) \in Files \ {th[w].f}
      BY <2>3, GetvalueProperties
    <3> QED BY <2>1, <2>2, <3>1 DEF SameValues
  <2>6. UNCHANGED theStore
    BY <2>5, SameStored
  <2>7. Keeps(w, "finish")
    BY <2>1, SendKeeps DEF Answer
  <2>8. Sequential!Reply("SUCCESS", "done")
    BY <2>1, RepliesLast
  <2>9. Queueing(th'[w], fifo') <= FifoBound
    <3>1. PICK n \in Nat, m \in Nat, j \in {0, 1} :
             n = Len(fifo.nodes) /\ m = Len(th[w].ftosend) /\ n + m + j <= FifoBound
      BY <2>1, QueueingBound
    <3>2. PICK k \in Nat : k = Len(fifo'.nodes) /\ k <= n
      BY <2>1, <3>1, DeleteShortens DEF IInv, TypeOK
    <3>3. Queueing(th'[w], fifo') = k + m + 0 + 0
      BY <2>7, <3>1, <3>2 DEF Queueing, Keeps
    <3>4. n + m + j <= FifoBound /\ k <= n
      BY <3>1, <3>2
    <3> QED BY <3>3, <3>4, FifoBoundType
  <2>10. RInv'
    BY <2>1, <2>3, <2>4, <2>7, <2>9, GoesPlaced DEF RInv, FirstLabels, EvictLabels
  <2>11. thePhase = "removed"
    BY <2>1, AtWorker DEF PhaseOf
  <2>12. Sequential!Removed
    BY <2>6, <2>8, <2>11 DEF Sequential!Removed, Sequential!Unchanged
  <2> QED BY <2>10, <2>12 DEF Refines, Sequential!StoreNext, Sequential!Step
<1> QED BY <1>1, <1>2

LEMMA ReadNRefines ==
    ASSUME OneThread, IInv, SInv, RInv, NEW w \in Workers, ReadN(w)
    PROVE  Refines
<1>1. CASE \E k : Undefined(k)
  BY <1>1, FaultRefines
<1>2. CASE ~\E k : Undefined(k)
  <2>1. th[w].pc = "readFiles" /\ UNCHANGED <<Hash, fifo, files, requeued>>
    BY <1>2 DEF ReadN, At, Store, Outside
  <2>2. PICK s : Answer(w, s) /\ s = IF Hash.nelem = 0 THEN "EMPTY" ELSE "SUCCESS"
    BY <1>2 DEF ReadN
  <2>3. RInv' /\ Sequential!Unchanged /\ Sequential!Reply(s, "done")
    BY <2>1, <2>2, FileRefused DEF Evicting
  <2>4. thePhase = "begun" /\ theRequest = th[w].req /\ Op(w) = "READN"
    BY <2>1, AtWorker, PlacedFacts DEF PhaseOf, Placed, Op
  <2>5. s = IF Sequential!stored = {} THEN "EMPTY" ELSE "SUCCESS"
    <3>1. Sequential!stored = Keys(Hash) /\ CountsKeys(Hash)
      BY StoredPaths DEF RInv
    <3>2. Keys(Hash) = {} <=> Hash.nelem = 0
      BY <3>1, FS_EmptySet DEF CountsKeys
    <3> QED BY <2>2, <3>1, <3>2
  <2>6. Sequential!ReadN
    BY <2>3, <2>4, <2>5 DEF Sequential!ReadN, Op
  <2> QED BY <2>3, <2>6 DEF Refines, Sequential!StoreNext, Sequential!Step
<1> QED BY <1>1, <1>2

LEMMA CloseBeginRefines ==
    ASSUME OneThread, IInv, OInv, RInv, NEW w \in Workers, CloseBegin(w)
    PROVE  Refines
<1>1. /\ th[w].pc = "closeBegin" /\ Op(w) = "CLOSECONNECTION"
      /\ UNCHANGED <<Hash, fifo, files, requeued>> /\ Send(w, "SUCCESS", "closeWalk")
  BY DEF CloseBegin, At, OInv, Serves, CloseLabels, Op, Store
<1>2. Owned' /\ CountsKeys(Hash') /\ UNCHANGED theStore
  BY <1>1, FileStays
<1>3. Keeps(w, "closeWalk")
  BY <1>1, SendKeeps
<1>4. Sequential!Reply("SUCCESS", "closing")
  <2>1. Sequential!Reply("SUCCESS", PhaseOf("closeWalk"))
    BY <1>1, RepliesGoing
  <2> QED BY <2>1 DEF PhaseOf
<1>5. Queueing(th'[w], fifo') <= FifoBound /\ th[w].ftosend = <<>>
  BY <1>1, <1>3, SameQueueing, PlacedFacts DEF Keeps, Placed, Evicting
<1>6. RInv'
  BY <1>1, <1>2, <1>3, <1>5, GoesPlaced DEF RInv, FirstLabels, EvictLabels
<1>7. thePhase = "begun" /\ theRequest = th[w].req
  BY <1>1, AtWorker DEF PhaseOf
<1>8. Sequential!CloseConnection
  BY <1>1, <1>2, <1>4, <1>7 DEF Sequential!CloseConnection, Sequential!Unchanged, Op
<1> QED BY <1>6, <1>8 DEF Refines, Sequential!StoreNext, Sequential!Step

\* A thread that visits the files.
LEMMA TodoKeeps ==
    ASSUME IInv, NEW w \in Workers, NEW S,
           \/ th' = [th EXCEPT ![w].pc = "closing", ![w].todo = S]
           \/ th[w].pc = "closing" /\ th' = [th EXCEPT ![w].todo = S]
    PROVE  Keeps(w, "closing") /\ th'[w].answer = th[w].answer
<1>1. th \in [Workers -> Thread] /\ th[w] \in Thread
  BY ThreadsType
<1>2. CASE th' = [th EXCEPT ![w].pc = "closing", ![w].todo = S]
  <2>1. th'[w] = [th[w] EXCEPT !.pc = "closing", !.todo = S]
    BY <1>1, <1>2
  <2> QED BY <1>1, <2>1 DEF Keeps, Thread
<1>3. CASE th[w].pc = "closing" /\ th' = [th EXCEPT ![w].todo = S]
  <2>1. th'[w] = [th[w] EXCEPT !.todo = S]
    BY <1>1, <1>3
  <2> QED BY <1>1, <1>3, <2>1 DEF Keeps, Thread
<1> QED BY <1>2, <1>3

LEMMA CloseWalkRefines ==
    ASSUME OneThread, IInv, RInv, NEW w \in Workers, CloseWalk(w)
    PROVE  Refines
<1>1. /\ th[w].pc = "closeWalk" /\ UNCHANGED <<Hash, fifo, files, requeued>>
      /\ Keeps(w, "closing") /\ th'[w].answer = th[w].answer
  BY TodoKeeps DEF CloseWalk, At, Outside
<1>2. Queueing(th'[w], fifo') <= FifoBound /\ th[w].ftosend = <<>>
  BY <1>1, SameQueueing, PlacedFacts DEF Keeps, Placed, Evicting
<1>3. PhaseOf("closing") = PhaseOf(th[w].pc)
  BY <1>1 DEF PhaseOf
<1> QED BY <1>1, <1>2, <1>3, PassesOn DEF FirstLabels, EvictLabels

LEMMA CloseUnlockRefines ==
    ASSUME OneThread, IInv, SInv, RInv, NEW w \in Workers, NEW a \in Files,
           CloseUnlock(w, a)
    PROVE  Refines
<1> DEFINE g == [files[a] EXCEPT !.lock = 0]
<1>1. CASE Undefined("freed")
  BY <1>1, FaultRefines
<1>2. CASE ~Undefined("freed")
  <2>1. /\ th[w].pc = "closing" /\ UNCHANGED <<Hash, fifo, requeued>>
        /\ files' = [files EXCEPT ![a].lock = IF files[a].fd = Client(w) THEN 0 ELSE @]
        /\ th' = [th EXCEPT ![w].todo = @ \ {a}]
    BY <1>2 DEF CloseUnlock, At, Outside
  <2>2. Keeps(w, "closing") /\ th'[w].answer = th[w].answer
    BY <2>1, TodoKeeps
  <2>3. /\ files \in [Files -> File] /\ files[a] \in File
        /\ \A b \in Files \ {a} : files'[b] = files[b]
    BY <2>1, ThreadsType
  <2>4. /\ files[a].fd = Client(w) => files'[a] = g
        /\ files[a].fd # Client(w) => files'[a] = files[a]
    BY <2>1, <2>3 DEF File
  <2>5. files'[a].alive = files[a].alive /\ files'[a].fd = files[a].fd
    BY <2>3, <2>4 DEF File
  <2>6. CountsKeys(Hash') /\ Owned /\ Owned'
    BY <2>1, <2>3, <2>5 DEF RInv, Owned
  <2>7. Queueing(th'[w], fifo') <= FifoBound /\ th[w].ftosend = <<>>
    BY <2>1, <2>2, SameQueueing, PlacedFacts DEF Keeps, Placed, Evicting
  <2>8. RInv'
    BY <2>1, <2>2, <2>6, <2>7, GoesPlaced DEF RInv, FirstLabels, EvictLabels
  <2>9. CASE files[a].fd = Client(w) /\ \E q \in Paths : contain(Hash, q) /\ getvalue(Hash, q) = a
    <3>1. PICK q \in Paths : contain(Hash, q) /\ getvalue(Hash, q) = a
      BY <2>9
    <3>2. theStore' = [theStore EXCEPT ![q] = Seen(g)]
      BY <2>1, <2>3, <2>4, <2>6, <2>9, <3>1, FileChange
    <3>3. theStore[q] = Seen(files[a]) /\ Seen(g) = [Seen(files[a]) EXCEPT !.lock = 0]
      <4>1. theStore[q] = Seen(files[a])
        BY <2>6, <3>1, StoreAt
      <4>2. Seen(g) = [Seen(files[a]) EXCEPT !.lock = 0]
        BY <2>3, SeenEdited
      <4> QED BY <4>1, <4>2
    <3> HIDE DEF g
    <3>4. theStore' = [theStore EXCEPT ![q].lock = 0]
      BY <3>2, <3>3
    <3>5. theStore[q].fd = theRequest.fd /\ thePhase = "closing"
      BY <2>1, <2>9, <3>3, AtWorker DEF Seen, PhaseOf, Client
    <3>6. UNCHANGED <<thePhase, theRequest, theAnswer, theVictims>>
      BY <2>1, <2>2, AtWorker DEF Keeps
    <3>7. Sequential!Release(q)
      BY <3>4, <3>5, <3>6 DEF Sequential!Release
    <3> QED BY <2>8, <3>7 DEF Refines, Sequential!StoreNext, Sequential!Step
  <2>10. CASE ~(files[a].fd = Client(w) /\ \E q \in Paths : contain(Hash, q) /\ getvalue(Hash, q) = a)
    <3>1. \A q \in Paths : contain(Hash, q) =>
             getvalue(Hash, q) \in Files /\ files'[getvalue(Hash, q)] = files[getvalue(Hash, q)]
      BY <2>3, <2>4, <2>6, <2>10, StoreAt
    <3>2. SameValues(Paths)
      BY <2>1, <3>1 DEF SameValues
    <3>3. UNCHANGED Sequential!svars
      BY <2>1, <2>2, <3>2, SameStored, Stutters DEF Keeps
    <3> QED BY <2>8, <3>3 DEF Refines
  <2> QED BY <2>9, <2>10
<1> QED BY <1>1, <1>2

\* A thread that is ready for the next request.
LEMMA IdleRefines ==
    ASSUME OneThread, IInv, RInv, NEW w \in Workers, th' = [th EXCEPT ![w] = Idle],
           UNCHANGED <<Hash, fifo, files, requeued>>, th[w].pc # "evictSend"
    PROVE  RInv' /\ Sequential!Ready
<1>1. Owned' /\ CountsKeys(Hash') /\ UNCHANGED theStore
  BY FileStays
<1>2. th'[w] = Idle
  BY ThreadsType
<1>3. Queueing(th'[w], fifo') <= FifoBound
  <2>1. PICK n \in Nat, m \in Nat, i \in {0, 1}, j \in {0, 1} :
           n = Len(fifo.nodes) /\ n + m + i + j <= FifoBound
    BY QueueingBound
  <2>2. th'[w].ftosend = <<>> /\ th'[w].pc = "idle" /\ fifo' = fifo
    BY <1>2 DEF Idle
  <2>3. Queueing(th'[w], fifo') = n + 0 + 0 + 0
    BY <2>1, <2>2 DEF Queueing
  <2>4. n + m + i + j <= FifoBound
    BY <2>1
  <2> QED BY <2>3, <2>4, FifoBoundType
<1>4. Placed(th'[w], Hash', files', fifo')
  BY <1>2, <1>3 DEF Placed, Idle, EvictLabels, Evicting
<1>5. RInv'
  BY <1>1, <1>4, RInvStep DEF RInv
<1>6. /\ thePhase' = "idle" /\ theRequest' = NoRequest /\ theAnswer' = <<>>
      /\ UNCHANGED theVictims
  BY <1>2, AtWorker DEF Idle, PhaseOf
<1>7. Sequential!Ready
  BY <1>1, <1>6 DEF Sequential!Ready, Sequential!NoRequest, NoRequest
<1> QED BY <1>5, <1>7

LEMMA CloseEndRefines ==
    ASSUME OneThread, IInv, SInv, RInv, NEW w \in Workers, CloseEnd(w)
    PROVE  Refines
<1>1. /\ th[w].pc = "closing" /\ th[w].todo = {} /\ th' = [th EXCEPT ![w] = Idle]
      /\ UNCHANGED <<Hash, fifo, files, requeued>>
  BY DEF CloseEnd, At
<1>2. RInv' /\ Sequential!Ready
  BY <1>1, IdleRefines
<1>3. thePhase = "closing" /\ theRequest = th[w].req
  BY <1>1, AtWorker DEF PhaseOf
<1>4. ASSUME NEW p \in Paths, theStore[p].fd = theRequest.fd PROVE theStore[p].lock = 0
  <2>1. CASE ~contain(Hash, p)
    BY <2>1, StoreAt DEF RInv, Sequential!Absent
  <2>2. CASE contain(Hash, p)
    <3>1. PICK a : a = getvalue(Hash, p)
      OBVIOUS
    <3>2. a \in Files /\ a \in Stored(Hash) /\ theStore[p] = Seen(files[a])
      BY <2>2, <3>1, StoreAt, GetvalueProperties DEF RInv, IInv, TypeOK
    <3>3. files[a].fd = Client(w) /\ files[a].lock \in {0, 1}
      BY <1>3, <1>4, <3>2, ThreadsType DEF Seen, Client, File
    <3>4. files[a].lock # 1
      BY <1>1, <3>2, <3>3 DEF IInv, StillToRelease
    <3> QED BY <3>2, <3>3, <3>4 DEF Seen
  <2> QED BY <2>1, <2>2
<1>5. Sequential!Finish
  BY <1>2, <1>3, <1>4 DEF Sequential!Finish
<1> QED BY <1>2, <1>5 DEF Refines, Sequential!StoreNext, Sequential!Step

LEMMA FinishRefines ==
    ASSUME OneThread, IInv, RInv, NEW w \in Workers, Finish(w)
    PROVE  Refines
<1>1. /\ th[w].pc = "finish" /\ th' = [th EXCEPT ![w] = Idle]
      /\ UNCHANGED <<Hash, fifo, files, requeued>>
  BY DEF Finish, At, Store, Outside
<1>2. RInv' /\ Sequential!Ready
  BY <1>1, IdleRefines
<1>3. thePhase = "done"
  BY <1>1, AtWorker DEF PhaseOf
<1>4. Sequential!Finish
  BY <1>2, <1>3 DEF Sequential!Finish
<1> QED BY <1>2, <1>4 DEF Refines, Sequential!StoreNext, Sequential!Step

LEMMA FileIsGoneRefines ==
    ASSUME RInv, NEW w \in Workers, FileIsGone(w) PROVE Refines
BY FaultRefines DEF FileIsGone

-----------------------------------------------------------------------------
(* The files that make room *)

\* A file of sent that is neither freed nor sent before, like those before it.
Sends(sent, fs, i) == \A j \in 1 .. i : /\ fs[sent[j]].alive
                                        /\ \A k \in 1 .. j - 1 : sent[k] # sent[j]
Sending(sent, fs) ==
    [i \in {n \in 1 .. Len(sent) : Sends(sent, fs, n)} |-> fs[sent[i]].path]

LEMMA ToSend == /\ PathsToSend = Sending(th[worker].ftosend, files)
                /\ PathsToSend' = Sending(th'[worker].ftosend, files')
BY DEF PathsToSend, Sending, Sends

\* They are the first ones.
LEMMA SendsBefore ==
    ASSUME NEW fs, NEW sent, NEW n \in Nat, NEW m \in Nat, m <= n, Sends(sent, fs, n)
    PROVE  Sends(sent, fs, m)
<1>1. ASSUME NEW j \in 1 .. m PROVE j \in 1 .. n
  OBVIOUS
<1> QED BY <1>1 DEF Sends

LEMMA SendsPrefix ==
    ASSUME NEW fs, NEW sent, Len(sent) \in Nat
    PROVE  \E k \in 0 .. Len(sent) :
              {n \in 1 .. Len(sent) : Sends(sent, fs, n)} = 1 .. k
<1> DEFINE L == Len(sent)
           Bad == {n \in 1 .. L : ~Sends(sent, fs, n)}
           Good == {n \in 1 .. L : Sends(sent, fs, n)}
<1>1. \A n, m \in Nat : m <= n /\ Sends(sent, fs, n) => Sends(sent, fs, m)
  BY SendsBefore
<1>2. CASE Bad = {}
  <2>1. Good = 1 .. L
    BY <1>2
  <2> QED BY <2>1
<1>3. CASE Bad # {}
  <2>1. Bad \subseteq Nat
    OBVIOUS
  <2>2. PICK b \in Bad : \A m \in Bad : b <= m
    <3> HIDE DEF Bad
    <3> QED BY <1>3, <2>1, Smallest
  <2>3. b \in 1 .. L /\ ~Sends(sent, fs, b)
    BY <2>2
  <2>4. ASSUME NEW n \in 1 .. L PROVE n \in Good <=> n \in 1 .. b - 1
    <3>1. CASE n < b
      <4>1. n \notin Bad
        BY <2>2, <2>3, <3>1
      <4> QED BY <2>3, <3>1, <4>1
    <3>2. CASE n >= b
      BY <1>1, <2>3, <3>2
    <3> QED BY <2>3, <3>1, <3>2
  <2>5. Good = 1 .. b - 1
    <3>1. Good \subseteq 1 .. L /\ 1 .. b - 1 \subseteq 1 .. L
      BY <2>3
    <3> HIDE DEF Good
    <3> QED BY <2>4, <3>1
  <2>6. b - 1 \in 0 .. L
    BY <2>3
  <2> QED BY <2>5, <2>6
<1> QED BY <1>2, <1>3

\* Their paths.
LEMMA SendingIsSeq ==
    ASSUME IInv, NEW w \in Workers, NEW sent, sent = th[w].ftosend
    PROVE  \E k \in 0 .. Len(sent) : Sending(sent, files) \in [1 .. k -> Paths]
<1>1. sent \in Seq(Files) /\ Len(sent) \in Nat /\ \A i \in 1 .. Len(sent) : sent[i] \in Files
  BY ThreadsType, LenProperties, ElementOfSeq DEF Thread
<1>2. PICK k \in 0 .. Len(sent) : {n \in 1 .. Len(sent) : Sends(sent, files, n)} = 1 .. k
  BY <1>1, SendsPrefix
<1>3. \A i \in 1 .. k : files[sent[i]].path \in Paths
  <2> TAKE i \in 1 .. k
  <2>1. i \in 1 .. Len(sent) /\ Sends(sent, files, i)
    BY <1>2
  <2>2. files[sent[i]].alive
    BY <2>1 DEF Sends
  <2> QED BY <1>1, <2>1, <2>2 DEF IInv, Named
<1>4. Sending(sent, files) = [i \in 1 .. k |-> files[sent[i]].path]
  BY <1>2 DEF Sending
<1> QED BY <1>3, <1>4

\* When the first is sent and freed, the others are those to send.
LEMMA SendingTail ==
    ASSUME NEW fs \in [Files -> File], NEW sent \in Seq(Files), sent # <<>>,
           fs[Head(sent)].alive
    PROVE  LET ps == Sending(sent, fs)
           IN  /\ ps # <<>> /\ Head(ps) = fs[Head(sent)].path
               /\ Sending(Tail(sent), [fs EXCEPT ![Head(sent)] = NoFile]) = Tail(ps)
<1> DEFINE a == Head(sent)
           t == Tail(sent)
           gs == [fs EXCEPT ![a] = NoFile]
           L == Len(sent)
           ps == Sending(sent, fs)
<1>1. /\ L \in Nat \ {0} /\ Len(t) = L - 1 /\ a = sent[1] /\ a \in Files
      /\ \A i \in 1 .. L - 1 : t[i] = sent[i + 1]
      /\ \A i \in 1 .. L : sent[i] \in Files
  BY HeadTailProperties, LenProperties, ElementOfSeq
<1>2. ~gs[a].alive /\ \A b \in Files \ {a} : gs[b] = fs[b]
  BY <1>1 DEF NoFile
<1>3. fs[a].alive
  OBVIOUS
<1>4. PICK k \in 0 .. L : {n \in 1 .. L : Sends(sent, fs, n)} = 1 .. k
  BY <1>1, SendsPrefix
<1> HIDE DEF a, t, gs
<1>5. PICK d \in 0 .. L - 1 : {n \in 1 .. L - 1 : Sends(t, gs, n)} = 1 .. d
  <2>1. Len(t) \in Nat
    BY <1>1
  <2>2. \E d \in 0 .. Len(t) : {n \in 1 .. Len(t) : Sends(t, gs, n)} = 1 .. d
    BY <2>1, SendsPrefix
  <2> QED BY <1>1, <2>2
<1>6. Sends(sent, fs, 1)
  BY <1>1, <1>3 DEF Sends
<1>7. k >= 1
  <2>1. 1 \in {n \in 1 .. L : Sends(sent, fs, n)}
    BY <1>1, <1>6
  <2> QED BY <1>4, <2>1
<1>8. ASSUME NEW n \in 1 .. L - 1 PROVE Sends(t, gs, n) <=> Sends(sent, fs, n + 1)
  <2>1. ASSUME Sends(sent, fs, n + 1), NEW j \in 1 .. n
        PROVE  gs[t[j]].alive /\ \A i \in 1 .. j - 1 : t[i] # t[j]
    <3>1. /\ j + 1 \in 1 .. n + 1 /\ t[j] = sent[j + 1] /\ sent[j + 1] \in Files
          /\ \A i \in 1 .. j - 1 : t[i] = sent[i + 1] /\ i + 1 \in 1 .. j
      BY <1>1
    <3>2. fs[sent[j + 1]].alive /\ \A i \in 1 .. j : sent[i] # sent[j + 1]
      BY <2>1, <3>1 DEF Sends
    <3>3. sent[j + 1] # a
      BY <1>1, <3>2
    <3> QED BY <1>2, <3>1, <3>2, <3>3
  <2>2. ASSUME Sends(t, gs, n), NEW j \in 1 .. n + 1
        PROVE  fs[sent[j]].alive /\ \A i \in 1 .. j - 1 : sent[i] # sent[j]
    <3>1. CASE j = 1
      BY <1>1, <1>3, <3>1
    <3>2. CASE j # 1
      <4>1. /\ j - 1 \in 1 .. n /\ t[j - 1] = sent[j] /\ sent[j] \in Files
            /\ \A i \in 2 .. j - 1 : t[i - 1] = sent[i] /\ i - 1 \in 1 .. (j - 1) - 1
        <5>1. j \in 2 .. L /\ \A i \in 2 .. j - 1 : i \in 2 .. L
          BY <1>1, <3>2
        <5>2. \A i \in 2 .. L : t[i - 1] = sent[i] /\ sent[i] \in Files
          <6> TAKE i \in 2 .. L
          <6>1. PICK m \in 1 .. L - 1 : m = i - 1 /\ m + 1 = i
            BY <1>1
          <6> QED BY <1>1, <6>1
        <5>3. j - 1 \in 1 .. n /\ \A i \in 2 .. j - 1 : i - 1 \in 1 .. (j - 1) - 1
          BY <3>2
        <5> QED BY <5>1, <5>2, <5>3
      <4>2. gs[t[j - 1]].alive /\ \A i \in 1 .. (j - 1) - 1 : t[i] # t[j - 1]
        BY <2>2, <4>1 DEF Sends
      <4>3. sent[j] # a /\ fs[sent[j]].alive
        BY <1>2, <4>1, <4>2
      <4>4. \A i \in 2 .. j - 1 : sent[i] # sent[j]
        BY <4>1, <4>2
      <4>5. \A i \in 1 .. j - 1 : i = 1 \/ i \in 2 .. j - 1
        BY <4>1
      <4> QED BY <1>1, <4>3, <4>4, <4>5
    <3> QED BY <3>1, <3>2
  <2> QED BY <2>1, <2>2 DEF Sends
<1>9. d = k - 1
  <2>1. \A n \in 1 .. L - 1 : n \in 1 .. d <=> n + 1 \in 1 .. k
    <3> TAKE n \in 1 .. L - 1
    <3>1. n \in 1 .. d <=> Sends(t, gs, n)
      BY <1>5
    <3>2. n + 1 \in 1 .. L
      BY <1>1
    <3>3. n + 1 \in 1 .. k <=> Sends(sent, fs, n + 1)
      BY <1>4, <3>2
    <3> QED BY <1>8, <3>1, <3>3
  <2>2. CASE d < k - 1
    <3>1. d + 1 \in 1 .. L - 1 /\ d + 1 \notin 1 .. d /\ d + 2 \in 1 .. k /\ d + 1 + 1 = d + 2
      BY <1>1, <2>2
    <3> QED BY <2>1, <3>1
  <2>3. CASE d > k - 1
    <3>1. d \in 1 .. L - 1 /\ d \in 1 .. d /\ d + 1 \notin 1 .. k
      BY <1>1, <1>7, <2>3
    <3> QED BY <2>1, <3>1
  <2> QED BY <1>1, <2>2, <2>3
<1>10. ps = [i \in 1 .. k |-> fs[sent[i]].path]
  BY <1>4 DEF Sending
<1>11. Sending(t, gs) = [i \in 1 .. k - 1 |-> gs[t[i]].path]
  BY <1>1, <1>5, <1>9 DEF Sending
<1> HIDE DEF ps
<1>12. /\ ps # <<>> /\ Head(ps) = fs[a].path /\ Len(ps) = k
       /\ Tail(ps) = [i \in 1 .. k - 1 |-> ps[i + 1]]
  <2> DEFINE S == {fs[sent[i]].path : i \in 1 .. k}
  <2>1. ps \in [1 .. k -> S] /\ k \in Nat
    BY <1>10
  <2> HIDE DEF S
  <2>2. ps \in Seq(S) /\ Len(ps) = k
    BY <2>1
  <2>3. ps # <<>>
    BY <1>7, <2>2
  <2>4. /\ Head(ps) = ps[1] /\ Tail(ps) \in Seq(S) /\ Len(Tail(ps)) = k - 1
        /\ \A i \in 1 .. k - 1 : Tail(ps)[i] = ps[i + 1]
    BY <2>2, <2>3, HeadTailProperties
  <2>5. Tail(ps) = [i \in 1 .. k - 1 |-> ps[i + 1]]
    <3>1. PICK u : u = Tail(ps)
      OBVIOUS
    <3>2. u \in [1 .. k - 1 -> S]
      BY <2>4, <3>1, LenProperties
    <3>3. u = [i \in 1 .. k - 1 |-> u[i]]
      BY <3>2
    <3>4. \A i \in 1 .. k - 1 : u[i] = ps[i + 1]
      BY <2>4, <3>1
    <3> QED BY <3>1, <3>3, <3>4
  <2>6. ps[1] = fs[a].path
    BY <1>1, <1>7, <1>10
  <2> QED BY <2>2, <2>3, <2>4, <2>5, <2>6
<1>13. \A i \in 1 .. k - 1 : gs[t[i]].path = ps[i + 1]
  <2> TAKE i \in 1 .. k - 1
  <2>1. /\ i \in 1 .. L - 1 /\ i + 1 \in 1 .. k /\ t[i] = sent[i + 1] /\ sent[i + 1] \in Files
    BY <1>1
  <2>2. ps[i + 1] = fs[sent[i + 1]].path
    BY <1>10, <2>1
  <2>3. i \in 1 .. d
    BY <1>9
  <2>4. Sends(t, gs, i)
    BY <1>5, <2>3
  <2>5. gs[t[i]].alive
    BY <2>1, <2>4 DEF Sends
  <2> QED BY <1>2, <2>1, <2>2, <2>5
<1>14. Sending(t, gs) = Tail(ps)
  BY <1>11, <1>12, <1>13
<1>15. ps # <<>> /\ Head(ps) = fs[a].path
  BY <1>12
<1> QED BY <1>14, <1>15 DEF a, t, gs, ps

\* What the thread has to do with fifo, as numbers.
LEMMA QueueingIs ==
    ASSUME IInv, RInv, NEW w \in Workers
    PROVE  \E n \in Nat, m \in Nat, i \in {0, 1}, j \in {0, 1} :
              /\ n = Len(fifo.nodes) /\ m = Len(th[w].ftosend) /\ n + m + i + j <= FifoBound
              /\ i = IF th[w].pc = "evictAccount" THEN 1 ELSE 0
              /\ j = IF Op(w) = "WRITE" /\ th[w].pc \notin {"idle", "finish"} THEN 1 ELSE 0
BY QueueingBound

\* The file of an APPEND that makes room.
LEMMA EvictingFile ==
    ASSUME IInv, RInv, NEW w \in Workers, th[w].pc \in EvictLabels
    PROVE  Op(w) = "APPEND" => WasFound(th[w], Hash, files)
BY PlacedFacts DEF Placed, Op

LEMMA EvictBeginRefines ==
    ASSUME OneThread, IInv, RInv, NEW w \in Workers, EvictBegin(w)
    PROVE  Refines
<1>1. /\ th[w].pc = "evictBegin" /\ UNCHANGED <<Hash, fifo, files, requeued>>
      /\ Keeps(w, "evict") /\ th'[w].answer = th[w].answer
  BY GotoKeeps DEF EvictBegin, At, Outside
<1>2. Queueing(th'[w], fifo') <= FifoBound
  BY <1>1, SameQueueing DEF Keeps
<1>3. Op(w) = "APPEND" => WasFound(th[w], Hash, files)
  BY <1>1, EvictingFile DEF EvictLabels
<1>4. PhaseOf("evict") = PhaseOf(th[w].pc)
  BY <1>1 DEF PhaseOf
<1> QED BY <1>1, <1>2, <1>3, <1>4, PassesOn DEF FirstLabels, Evicting

LEMMA EvictTakeRefines ==
    ASSUME OneThread, IInv, RInv, NEW w \in Workers, EvictTake(w)
    PROVE  Refines
<1>1. CASE Undefined("null")
  BY <1>1, FaultRefines
<1>2. CASE ~Undefined("null")
  <2>1. /\ th[w].pc = "evict" /\ takeHeadSafe(fifo) /\ fifo' = takeHead(fifo)
        /\ th' = [th EXCEPT ![w].pc = "evictAccount",
                            ![w].victim = Head(fifo.nodes).cont, ![w].tmp = actual_size]
        /\ UNCHANGED <<Hash, files, requeued>>
    BY <1>2 DEF EvictTake, At, Outside
  <2>2. Keeps(w, "evictAccount") /\ th'[w].answer = th[w].answer
    <3>1. th \in [Workers -> Thread] /\ th[w] \in Thread
      BY ThreadsType
    <3>2. PICK a, x : th'[w] = [th[w] EXCEPT !.pc = "evictAccount", !.victim = a, !.tmp = x]
      BY <2>1, <3>1
    <3> QED BY <3>1, <3>2 DEF Keeps, Thread
  <2>3. Queueing(th'[w], fifo') <= FifoBound
    <3>1. PICK n \in Nat, m \in Nat, i \in {0, 1}, j \in {0, 1} :
              /\ n = Len(fifo.nodes) /\ m = Len(th[w].ftosend) /\ n + m + i + j <= FifoBound
              /\ i = IF th[w].pc = "evictAccount" THEN 1 ELSE 0
              /\ j = IF Op(w) = "WRITE" /\ th[w].pc \notin {"idle", "finish"} THEN 1 ELSE 0
      BY QueueingIs
    <3>2. Len(fifo'.nodes) = n - 1 /\ n > 0
      <4>1. fifo \in ListOf(Entry)
        BY DEF IInv, TypeOK
      <4>2. fifo'.nodes = Tail(fifo.nodes) /\ fifo.nodes \in Seq(Entry) /\ fifo.nodes # <<>>
        BY <2>1, <4>1 DEF takeHead, takeHeadSafe, isEmpty, ListOf
      <4> QED BY <3>1, <4>2, HeadTailProperties
    <3>3. i = 0
      BY <2>1, <3>1
    <3>4. Queueing(th'[w], fifo') = n - 1 + m + 1 + j
      BY <2>1, <2>2, <3>1, <3>2 DEF Queueing, Op, Keeps
    <3>5. n + m + i + j <= FifoBound
      BY <3>1
    <3> QED BY <3>3, <3>4, <3>5, FifoBoundType
  <2>4. Op(w) = "APPEND" => WasFound(th[w], Hash, files)
    BY <2>1, EvictingFile DEF EvictLabels
  <2>5. PhaseOf("evictAccount") = PhaseOf(th[w].pc)
    BY <2>1 DEF PhaseOf
  <2> QED BY <2>1, <2>2, <2>3, <2>4, <2>5, PassesOn DEF FirstLabels, Evicting
<1> QED BY <1>1, <1>2

LEMMA EvictAccountRefines ==
    ASSUME OneThread, IInv, RInv, NEW w \in Workers, EvictAccount(w)
    PROVE  Refines
<1>1. CASE Undefined("freed")
  BY <1>1, FaultRefines
<1>2. CASE ~Undefined("freed")
  <2>1. /\ th[w].pc = "evictAccount" /\ UNCHANGED <<Hash, fifo, files, requeued>>
        /\ th' = [th EXCEPT ![w].pc = "evict", ![w].victim = NONE,
                            ![w].ftosend = Append(@, th[w].victim)]
    BY <1>2 DEF EvictAccount, At, Outside
  <2>2. /\ th'[w].pc = "evict" /\ th'[w].req = th[w].req /\ th'[w].f = th[w].f
        /\ th'[w].answer = th[w].answer
        /\ th'[w].ftosend = Append(th[w].ftosend, th[w].victim)
    <3>1. th \in [Workers -> Thread] /\ th[w] \in Thread
      BY ThreadsType
    <3>2. PICK s, x : s = Append(th[w].ftosend, th[w].victim) /\ x = NONE
      OBVIOUS
    <3>3. th'[w] = [th[w] EXCEPT !.pc = "evict", !.victim = x, !.ftosend = s]
      BY <2>1, <3>1, <3>2
    <3> QED BY <3>1, <3>2, <3>3 DEF Thread
  <2>3. Queueing(th'[w], fifo') <= FifoBound
    <3>1. PICK n \in Nat, m \in Nat, i \in {0, 1}, j \in {0, 1} :
              /\ n = Len(fifo.nodes) /\ m = Len(th[w].ftosend) /\ n + m + i + j <= FifoBound
              /\ i = IF th[w].pc = "evictAccount" THEN 1 ELSE 0
              /\ j = IF Op(w) = "WRITE" /\ th[w].pc \notin {"idle", "finish"} THEN 1 ELSE 0
      BY QueueingIs
    <3>2. Len(th'[w].ftosend) = m + 1
      <4>1. th[w].ftosend \in Seq(Files)
        BY ThreadsType DEF Thread
      <4>2. th[w].victim \in Files
        BY <2>1, ThreadFacts DEF LocalOK
      <4> QED BY <2>2, <3>1, <4>1, <4>2, AppendProperties
    <3>3. i = 1
      BY <2>1, <3>1
    <3>4. Queueing(th'[w], fifo') = n + (m + 1) + 0 + j
      BY <2>1, <2>2, <3>1, <3>2 DEF Queueing, Op
    <3>5. n + m + i + j <= FifoBound
      BY <3>1
    <3> QED BY <3>3, <3>4, <3>5, FifoBoundType
  <2>4. Op(w) = "APPEND" => WasFound(th[w], Hash, files)
    BY <2>1, EvictingFile DEF EvictLabels
  <2>5. Owned' /\ CountsKeys(Hash') /\ UNCHANGED theStore
    BY <2>1, FileStays
  <2>6. Placed(th'[w], Hash', files', fifo')
    BY <2>1, <2>2, <2>3, <2>4 DEF Placed, Evicting, WasFound, Op
  <2>7. RInv'
    BY <2>1, <2>5, <2>6, RInvStep DEF RInv
  <2>8. PhaseOf(th'[w].pc) = PhaseOf(th[w].pc)
    BY <2>1, <2>2 DEF PhaseOf
  <2>9. UNCHANGED Sequential!svars
    BY <2>1, <2>2, <2>5, <2>8, Stutters
  <2> QED BY <2>7, <2>9 DEF Refines
<1> QED BY <1>1, <1>2

\* No more than the nodes there were in fifo.
EnoughVictims == MaxVictims \in Nat /\ FifoBound <= MaxVictims

LEMMA EvictEnoughRefines ==
    ASSUME OneThread, EnoughVictims, IInv, RInv, NEW w \in Workers, EvictEnough(w)
    PROVE  Refines
<1> DEFINE sent == th[w].ftosend
           ps == Sending(sent, files)
<1>1. /\ th[w].pc = "evict" /\ UNCHANGED <<Hash, fifo, files, requeued>>
      /\ Goto(w, "evictSend")
  BY DEF EvictEnough, At, Store, Outside
<1>2. Keeps(w, "evictSend") /\ th'[w].answer = th[w].answer
  BY <1>1, GotoKeeps
<1>3. Queueing(th'[w], fifo') <= FifoBound
  BY <1>1, <1>2, SameQueueing DEF Keeps
<1>4. Op(w) = "APPEND" => WasFound(th[w], Hash, files)
  BY <1>1, EvictingFile DEF EvictLabels
<1>5. Owned' /\ CountsKeys(Hash') /\ UNCHANGED theStore
  BY <1>1, FileStays
<1>6. RInv'
  BY <1>1, <1>2, <1>3, <1>4, <1>5, GoesPlaced DEF RInv, FirstLabels, Evicting
<1>7. ps \in Sequential!SeqOf(Paths, MaxVictims)
  <2>1. PICK k \in 0 .. Len(sent) : ps \in [1 .. k -> Paths]
    BY SendingIsSeq
  <2>2. k \in 0 .. MaxVictims
    <3>1. PICK n \in Nat, m \in Nat, i \in {0, 1}, j \in {0, 1} :
              n = Len(fifo.nodes) /\ m = Len(sent) /\ n + m + i + j <= FifoBound
      BY QueueingIs
    <3>2. n + m + i + j <= FifoBound /\ k \in 0 .. m /\ FifoBound <= MaxVictims
      BY <2>1, <3>1 DEF EnoughVictims
    <3> HIDE DEF sent, ps
    <3>3. n + m + i + j <= FifoBound
      BY <3>2
    <3> QED BY <3>2, <3>3, FifoBoundType DEF EnoughVictims
  <2> HIDE DEF ps
  <2> QED BY <2>1, <2>2 DEF Sequential!SeqOf
<1>8. theVictims' = ps
  <2>1. w = worker
    BY OnlyWorker
  <2>2. theVictims' = PathsToSend'
    BY <1>2, <2>1 DEF theVictims, Keeps
  <2>3. PathsToSend' = Sending(th'[w].ftosend, files')
    BY <2>1, ToSend
  <2> QED BY <1>1, <1>2, <2>2, <2>3 DEF Keeps
<1> HIDE DEF ps
<1>9. thePhase = "full" /\ thePhase' = "evict"
  BY <1>1, <1>2, AtWorker DEF PhaseOf, Keeps
<1>10. UNCHANGED <<theRequest, theAnswer>>
  BY <1>2, AtWorker DEF Keeps
<1>11. Sequential!MakeRoom(ps)
  BY <1>5, <1>8, <1>9, <1>10 DEF Sequential!MakeRoom
<1> QED BY <1>6, <1>7, <1>11 DEF Refines, Sequential!StoreNext

LEMMA EvictSendRefines ==
    ASSUME OneThread, IInv, SInv, RInv, NEW w \in Workers, EvictSend(w)
    PROVE  Refines
<1> DEFINE sent == th[w].ftosend
           a == Head(sent)
           p == files[a].path
<1>1. CASE \E k : Undefined(k)
  BY <1>1, FaultRefines
<1>2. CASE ~\E k : Undefined(k)
  <2>1. /\ th[w].pc = "evictSend" /\ sent # <<>> /\ files[a].alive
        /\ Hash' = h_delete(Hash, p) /\ files' = [files EXCEPT ![a] = NoFile]
        /\ th' = [th EXCEPT ![w].ftosend = Tail(@)]
        /\ UNCHANGED <<fifo, requeued>>
    BY <1>2 DEF EvictSend, At, Outside
  <2>2. /\ th \in [Workers -> Thread] /\ th[w] \in Thread /\ files \in [Files -> File]
        /\ sent \in Seq(Files)
    BY ThreadsType DEF Thread
  <2>3. a \in Files
    BY <2>1, <2>2, HeadTailProperties
  <2>4. p \in Paths
    BY <2>1, <2>3 DEF IInv, Named
  <2>5. /\ th'[w].pc = "evictSend" /\ th'[w].req = th[w].req /\ th'[w].f = th[w].f
        /\ th'[w].answer = th[w].answer /\ th'[w].ftosend = Tail(sent)
    <3>1. PICK s : s = Tail(sent)
      OBVIOUS
    <3>2. th'[w] = [th[w] EXCEPT !.ftosend = s]
      BY <2>1, <2>2, <3>1
    <3> QED BY <2>1, <2>2, <3>1, <3>2 DEF Thread
  <2>6. ~files'[a].alive /\ \A b \in Files \ {a} : files'[b] = files[b]
    BY <2>1, <2>2, <2>3 DEF NoFile
  <2> HIDE DEF a, p
  <2>7. CountsKeys(Hash') /\ Owned /\ Owned'
    BY <2>1, <2>4, <2>6, DeleteCounts DEF RInv, Owned
  <2>8. theStore' = [theStore EXCEPT ![p] = Sequential!Absent]
    <3>1. \A b \in Files : files[b].path # p => files'[b] = files[b]
      BY <2>6 DEF p
    <3> QED BY <2>1, <2>4, <2>7, <3>1, DeleteChange
  <2>9. Queueing(th'[w], fifo') <= FifoBound
    <3>1. PICK n \in Nat, m \in Nat, i \in {0, 1}, j \in {0, 1} :
              /\ n = Len(fifo.nodes) /\ m = Len(th[w].ftosend) /\ n + m + i + j <= FifoBound
              /\ i = IF th[w].pc = "evictAccount" THEN 1 ELSE 0
              /\ j = IF Op(w) = "WRITE" /\ th[w].pc \notin {"idle", "finish"} THEN 1 ELSE 0
      BY QueueingIs
    <3>2. Len(th'[w].ftosend) = m - 1 /\ m > 0
      BY <2>1, <2>2, <2>5, <3>1, HeadTailProperties
    <3>3. Queueing(th'[w], fifo') = n + (m - 1) + 0 + j
      BY <2>1, <2>5, <3>1, <3>2 DEF Queueing, Op
    <3>4. n + m + i + j <= FifoBound
      BY <3>1
    <3> QED BY <3>3, <3>4, FifoBoundType
  <2>10. Op(w) = "APPEND" => WasFound(th[w], Hash', files')
    <3> SUFFICES ASSUME Op(w) = "APPEND" PROVE WasFound(th[w], Hash', files')
      OBVIOUS
    <3>1. WasFound(th[w], Hash, files) /\ th[w].f \in Files /\ th[w].req.path \in Paths
      BY <2>1, EvictingFile, ThreadFacts DEF EvictLabels, LocalOK, FileLabels, WasFound
    <3>2. files'[th[w].f].alive => files'[th[w].f].path = th[w].req.path
      BY <2>6, <3>1 DEF WasFound
    <3>3. PICK g : g = Hash'
      OBVIOUS
    <3>4. /\ ~contain(g, p)
          /\ \A q \in Paths \ {p} : /\ contain(g, q) <=> contain(Hash, q)
                                    /\ contain(Hash, q) => getvalue(g, q) = getvalue(Hash, q)
      BY <2>1, <2>4, <3>3, HdeleteValue DEF IInv, TypeOK, SInv
    <3>5. contain(g, th[w].req.path) => getvalue(g, th[w].req.path) = th[w].f
      BY <3>1, <3>4 DEF WasFound
    <3> QED BY <3>1, <3>2, <3>3, <3>5 DEF WasFound
  <2>11. Placed(th'[w], Hash', files', fifo')
    BY <2>5, <2>9, <2>10 DEF Placed, Evicting, WasFound, Op
  <2>12. RInv'
    BY <2>1, <2>7, <2>11, RInvStep DEF RInv
  <2>13. /\ theVictims # <<>> /\ Head(theVictims) = p /\ theVictims' = Tail(theVictims)
    <3>1. w = worker
      BY OnlyWorker
    <3>2. theVictims = Sending(sent, files) /\ theVictims' = Sending(Tail(sent), files')
      BY <2>1, <2>5, <3>1, ToSend DEF theVictims
    <3>3. /\ Sending(sent, files) # <<>> /\ Head(Sending(sent, files)) = p
          /\ Sending(Tail(sent), files') = Tail(Sending(sent, files))
      BY <2>1, <2>2, SendingTail DEF a, p
    <3> QED BY <3>2, <3>3
  <2>14. thePhase = "evict" /\ UNCHANGED <<thePhase, theRequest, theAnswer>>
    BY <2>1, <2>5, AtWorker DEF PhaseOf
  <2>15. Sequential!Evict
    BY <2>8, <2>13, <2>14 DEF Sequential!Evict
  <2> QED BY <2>12, <2>15 DEF Refines, Sequential!StoreNext, Sequential!Step
<1> QED BY <1>1, <1>2

LEMMA EvictEndRefines ==
    ASSUME OneThread, IInv, RInv, NEW w \in Workers, EvictEnd(w)
    PROVE  Refines
<1>1. PICK l : l = IF Op(w) = "WRITE" THEN "enqueue" ELSE "appendCopy"
  OBVIOUS
<1>2. /\ th[w].pc = "evictSend" /\ th[w].ftosend = <<>> /\ Goto(w, l)
      /\ UNCHANGED <<Hash, fifo, files, requeued>>
  BY <1>1 DEF EvictEnd, At, Outside
<1>3. Keeps(w, l) /\ th'[w].answer = th[w].answer
  BY <1>2, GotoKeeps
<1>4. Owned' /\ CountsKeys(Hash') /\ UNCHANGED theStore
  BY <1>2, FileStays
<1>5. Queueing(th'[w], fifo') <= FifoBound
  BY <1>1, <1>2, <1>3, SameQueueing DEF Keeps
<1>6. Op(w) = "APPEND" => WasFound(th[w], Hash, files)
  BY <1>2, EvictingFile DEF EvictLabels
<1>7. RInv'
  BY <1>1, <1>2, <1>3, <1>4, <1>5, <1>6, GoesPlaced DEF RInv, FirstLabels, EvictLabels
<1>8. theVictims = <<>>
  <2>1. theVictims = Sending(<<>>, files)
    BY <1>2, OnlyWorker, ToSend DEF theVictims
  <2>2. {n \in 1 .. Len(<<>>) : Sends(<<>>, files, n)} = {}
    OBVIOUS
  <2>3. Sending(<<>>, files) = [i \in {} |-> files[<<>>[i]].path]
    BY <2>2 DEF Sending
  <2> QED BY <2>1, <2>3
<1>9. theVictims' = <<>>
  BY <1>1, <1>3, AtWorker DEF Keeps
<1>10. /\ thePhase = "evict" /\ theRequest = th[w].req
       /\ thePhase' = IF theRequest.op = "WRITE" THEN "done" ELSE "append"
  BY <1>1, <1>2, <1>3, AtWorker DEF Keeps, PhaseOf, Op
<1>11. UNCHANGED <<theRequest, theAnswer>>
  BY <1>3, AtWorker DEF Keeps
<1>12. Sequential!Evicted
  BY <1>4, <1>8, <1>9, <1>10, <1>11
     DEF Sequential!Evicted, Sequential!Silently, Sequential!Unchanged
<1> QED BY <1>7, <1>12 DEF Refines, Sequential!StoreNext, Sequential!Step

-----------------------------------------------------------------------------
(* The requests, and the whole *)

\* A thread takes a request.
LEMMA BeginRefines ==
    ASSUME OneThread, IInv, OInv, RInv, NEW w \in Workers, th[w].pc = "idle",
           NEW r \in Request, Begin(w, r), UNCHANGED <<Hash, fifo, files>>,
           r.op = "WRITE" => Len(fifo.nodes) < FifoBound,
           \A q \in requeued' : q.op = "LOCKS"
    PROVE  Refines
<1>1. th[w] = Idle /\ th \in [Workers -> Thread] /\ th[w] \in Thread
  BY ThreadFacts, ThreadsType DEF LocalOK
<1>2. PICK l : l = Entrypoint(r.op)
  OBVIOUS
<1>3. /\ th'[w].pc = l /\ th'[w].req = r /\ th'[w].answer = <<>>
      /\ th'[w].ftosend = <<>>
  <2>1. th'[w] = [th[w] EXCEPT !.pc = l, !.req = r]
    BY <1>1, <1>2 DEF Begin
  <2>2. th[w].answer = <<>> /\ th[w].ftosend = <<>>
    BY <1>1 DEF Idle
  <2> QED BY <1>1, <2>1, <2>2 DEF Thread
<1>4. /\ l \in {"check", "lookup", "readFiles", "closeBegin"}
      /\ l = "check" => r.op \in Creating
      /\ l = "lookup" => r.op \notin Creating \cup WithoutPath
      /\ l = "readFiles" => r.op = "READN"
  BY <1>2 DEF Entrypoint, Creating, WithoutPath
<1>5. Owned' /\ CountsKeys(Hash') /\ UNCHANGED theStore
  BY FileStays
<1>6. Queueing(th'[w], fifo') <= FifoBound
  <2>1. PICK n \in Nat, m \in Nat, i \in {0, 1}, j \in {0, 1} :
           n = Len(fifo.nodes) /\ n + m + i + j <= FifoBound
    BY QueueingIs
  <2>2. PICK k \in {0, 1} : k = IF r.op = "WRITE" THEN 1 ELSE 0
    OBVIOUS
  <2>3. th'[w].pc \notin {"evictAccount", "idle", "finish"} /\ fifo' = fifo
    BY <1>3, <1>4
  <2>4. Queueing(th'[w], fifo') = n + 0 + 0 + k
    BY <1>3, <2>1, <2>2, <2>3 DEF Queueing
  <2>5. k = 1 => n < FifoBound
    BY <2>1, <2>2
  <2>6. n + m + i + j <= FifoBound
    BY <2>1
  <2> QED BY <2>4, <2>5, <2>6, FifoBoundType
<1>7. Placed(th'[w], Hash', files', fifo')
  BY <1>3, <1>4, <1>6 DEF Placed, EvictLabels, Evicting
<1>8. RInv'
  BY <1>5, <1>7, RInvStep
<1>9. /\ thePhase = "idle" /\ thePhase' = "begun" /\ theRequest' = r
      /\ theAnswer' = <<>> /\ UNCHANGED theVictims
  BY <1>3, <1>4, AtWorker DEF PhaseOf
<1>10. theRequest' \in Sequential!AnyRequest
  BY <1>9, WorkersAssumption
     DEF Sequential!AnyRequest, Sequential!AllOps, Request, AllOps
<1>11. Sequential!Receive(theRequest')
  BY <1>5, <1>9 DEF Sequential!Receive
<1> QED BY <1>8, <1>10, <1>11 DEF Refines, Sequential!StoreNext

LEMMA ServeRefines ==
    ASSUME OneThread, EnoughVictims, IInv, SInv, OInv, RInv, NEW w \in Workers, Serve(w)
    PROVE  Refines
<1>1. CASE CreateCheck(w) \/ CreateInsert(w) \/ ExpelHead(w) \/ UnlinkExpelled(w)
  BY <1>1, CreateCheckRefines, CreateInsertRefines, ExpelHeadRefines,
     UnlinkExpelledRefines
<1>2. CASE \/ Lookup(w) \/ AccountAppend(w) \/ FileIsGone(w) \/ OpenFile(w)
           \/ OpenLock(w) \/ Locks(w) \/ Unlocks(w) \/ Close(w) \/ Read(w)
  BY <1>2, LookupRefines, AccountRefines, FileIsGoneRefines, OpenRefines,
     OpenLockRefines, LocksRefines, UnlocksRefines, CloseRefines, ReadRefines
<1>3. CASE \/ Write(w) \/ AccountRead(w) \/ Account(w) \/ CheckSpace(w)
           \/ Enqueue(w) \/ AppendBegin(w) \/ AppendCopy(w)
  BY <1>3, WriteRefines, AccountRefines, CheckSpaceRefines, EnqueueRefines,
     AppendBeginRefines, AppendCopyRefines
<1>4. CASE \/ EvictBegin(w) \/ EvictTake(w) \/ EvictAccount(w) \/ EvictEnough(w)
           \/ EvictSend(w) \/ EvictEnd(w)
  BY <1>4, EvictBeginRefines, EvictTakeRefines, EvictAccountRefines,
     EvictEnoughRefines, EvictSendRefines, EvictEndRefines
<1>5. CASE \/ RemoveCheck(w) \/ RemoveBegin(w) \/ RemoveUnlink(w) \/ RemoveFifo(w)
           \/ ReadN(w)
  BY <1>5, RemoveCheckRefines, RemoveBeginRefines, RemoveUnlinkRefines,
     RemoveFifoRefines, ReadNRefines
<1>6. CASE \/ CloseBegin(w) \/ CloseWalk(w) \/ (\E a \in Files : CloseUnlock(w, a))
           \/ CloseEnd(w) \/ Finish(w)
  BY <1>6, CloseBeginRefines, CloseWalkRefines, CloseUnlockRefines,
     CloseEndRefines, FinishRefines
<1> QED BY <1>1, <1>2, <1>3, <1>4, <1>5, <1>6 DEF Serve

LEMMA NextRefines ==
    ASSUME OneThread, EnoughVictims, IInv, SInv, OInv, RInv, [Next]_vars
    PROVE  Refines
<1>1. ASSUME NEW c \in Clients, Accept(c) PROVE Refines
  BY <1>1, FrozenRefines DEF Accept, Store
<1>2. ASSUME NEW w \in Workers, NEW c \in Clients, NEW r \in Requests(c), Take(w, r)
      PROVE  Refines
  <2>1. r \in Request
    BY RequestsAreTyped
  <2>2. /\ th[w].pc = "idle" /\ Begin(w, r) /\ UNCHANGED <<Hash, fifo, files, requeued>>
        /\ r.op = "WRITE" => Len(fifo.nodes) < FifoBound
    BY <1>2 DEF Take, At, WithinBounds, Store, Outside
  <2>3. \A q \in requeued' : q.op = "LOCKS"
    BY <2>2 DEF RInv
  <2> QED BY <2>1, <2>2, <2>3, BeginRefines
<1>3. ASSUME NEW w \in Workers, NEW r \in requeued, TakeRequeued(w, r)
      PROVE  Refines
  <2>1. r \in Request /\ r.op = "LOCKS"
    BY DEF IInv, TypeOK, RInv
  <2>2. /\ th[w].pc = "idle" /\ Begin(w, r) /\ UNCHANGED <<Hash, fifo, files>>
        /\ requeued' = requeued \ {r}
    BY <1>3 DEF TakeRequeued, At, Store
  <2>3. \A q \in requeued' : q.op = "LOCKS"
    BY <2>2 DEF RInv
  <2> QED BY <2>1, <2>2, <2>3, BeginRefines
<1>4. ASSUME NEW w \in Workers, Serve(w) PROVE Refines
  BY <1>4, ServeRefines
<1>5. CASE UNCHANGED vars
  BY <1>5, FrozenRefines DEF vars
<1> QED BY <1>1, <1>2, <1>3, <1>4, <1>5 DEF Next, Halted

LEMMA InitRefines == ASSUME OneThread, Init PROVE RInv /\ Sequential!StoreInit
<1>1. /\ Hash = h_create /\ fifo = EmptyList /\ requeued = {}
      /\ files = [a \in Files |-> NoFile] /\ th = [w \in Workers |-> Idle]
  BY DEF Init
<1>2. CountsKeys(Hash) /\ Owned
  BY <1>1, CreateCountsKeys DEF Owned, NoFile
<1>3. \A w \in Workers : Placed(th[w], Hash, files, fifo)
  <2> TAKE w \in Workers
  <2>1. /\ th[w].pc = "idle" /\ th[w].ftosend = <<>> /\ Len(fifo.nodes) = 0
    BY <1>1 DEF Idle, EmptyList
  <2>2. Queueing(th[w], fifo) = 0
    BY <2>1 DEF Queueing
  <2> QED BY <2>1, <2>2, FifoBoundType DEF Placed, EvictLabels, Evicting
<1>4. \A p \in Paths : theStore[p] = Sequential!Absent
  <2> TAKE p \in Paths
  <2>1. Bucket(Hash, p) = EmptyList
    BY <1>1, SlotOfPath DEF Bucket, h_create
  <2>2. ~contain(Hash, p)
    BY <2>1 DEF contain, HasKey, EmptyList
  <2> QED BY <2>2 DEF theStore, FileOf, Sequential!Absent
<1>5. theStore = [p \in Paths |-> Sequential!Absent]
  BY <1>4 DEF theStore
<1>6. thePhase = "idle" /\ theRequest = NoRequest /\ theAnswer = <<>> /\ theVictims = <<>>
  BY <1>1, OnlyWorker DEF thePhase, theRequest, theAnswer, theVictims, Idle, PhaseOf
<1>7. Sequential!StoreInit
  BY <1>5, <1>6 DEF Sequential!StoreInit, Sequential!NoRequest, NoRequest
<1> QED BY <1>1, <1>2, <1>3, <1>7 DEF RInv

\* What a label says of the request, the file and the table always holds.
THEOREM PlacesHold == ASSUME OneThread, EnoughVictims PROVE Spec => []RInv
<1>1. Init => RInv
  BY InitRefines
<1>2. IInv /\ SInv /\ OInv /\ RInv /\ [Next]_vars => RInv'
  BY NextRefines DEF Refines
<1> QED BY <1>1, <1>2, Invariance, TableInvariance, Protocol, PTL DEF Spec

\* A server with one thread serves each request as the map of Store says: every
\* step of the thread is one of Store on the files of the table, or none.
THEOREM ServedAsTold == ASSUME OneThread, EnoughVictims PROVE Spec => ImplementsStore
<1>1. Init => Sequential!StoreInit
  BY InitRefines
<1>2. IInv /\ SInv /\ OInv /\ RInv /\ [Next]_vars
         => [Sequential!StoreNext]_(Sequential!svars)
  BY NextRefines DEF Refines
<1> QED BY <1>1, <1>2, Invariance, TableInvariance, Protocol, PlacesHold, PTL
        DEF Spec, ImplementsStore, Sequential!StoreSpec
=============================================================================
