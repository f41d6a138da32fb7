--------------------------- MODULE WorkersProofs ---------------------------
(***************************************************************************)
(* Proofs about Workers, for any number of threads, clients, paths, files  *)
(* and buckets: every reachable state is well typed, and every lock on a   *)
(* stored file belongs to a client that is connected; then what the        *)
(* threads say to the clients, which mutexes they wait for, what they do   *)
(* to the locks of others and how the table counts its nodes.              *)
(*                                                                         *)
(* Almost every step is a thread going from one label to the next, with a  *)
(* change of the shared variables that gives a lock to nobody else than    *)
(* its own client.  ThreadStep says that such a step preserves the         *)
(* invariant; the lemma of an action shows that the action is one.         *)
(***************************************************************************)
EXTENDS Workers, TableProofs

\* Thread w goes to state t, with the request it had.
Moves(w, t) == /\ th[w].pc \notin {"idle", "finish", "closing"}
               /\ th' = [th EXCEPT ![w] = t]
               /\ t \in Thread /\ LocalOK(t)
               /\ t.pc \notin {"idle", "closing"}
               /\ t.req = th[w].req

\* mtxhash is taken when it is free and released by its holder.
MutexStep(w, l) == \/ mtxhash' = mtxhash /\ (l \in HoldLabels => th[w].pc \in HoldLabels)
                   \/ mtxhash = NONE /\ mtxhash' = w
                   \/ th[w].pc \in HoldLabels /\ mtxhash' = NONE /\ l \notin HoldLabels

\* A stored file that is locked now was, by the same client, or it is the
\* client of thread w that has locked it.
LocksStep(w) == \A a \in Stored(Hash') :
    files'[a].lock = 1 =>
        \/ files'[a].fd = Client(w)
        \/ a \in Stored(Hash) /\ files[a].lock = 1 /\ files'[a].fd = files[a].fd

RestOK == /\ Hash' \in Tables /\ fifo' \in ListOf(Entry) /\ actual_size' \in Int
          /\ files' \in [Files -> File] /\ Named'
          /\ mtxcon' \in Workers \cup {NONE}
          /\ UNCHANGED <<connected, requeued, fault>>

LEMMA NoneIsNoThread == NONE \notin Workers /\ NONE \notin Files
BY WorkersAssumption

LEMMA ThreadStep ==
    ASSUME IInv, NEW w \in Workers, NEW t, Moves(w, t), MutexStep(w, t.pc),
           LocksStep(w), RestOK
    PROVE  IInv'
<1>1. /\ th \in [Workers -> Thread]
      /\ th'[w] = t
      /\ \A v \in Workers \ {w} : th'[v] = th[v]
  BY DEF IInv, TypeOK, Moves
<1>2. TypeOK'
  BY <1>1, NoneIsNoThread DEF IInv, TypeOK, Moves, MutexStep, RestOK
<1>3. ThreadsOK'
  BY <1>1 DEF IInv, ThreadsOK, Moves
<1>4. Exclusive'
  <2>1. ASSUME NEW v \in Workers, th'[v].pc \in HoldLabels
        PROVE  mtxhash' = v
    <3>1. CASE v = w
      BY <1>1, <2>1, <3>1 DEF IInv, Exclusive, MutexStep
    <3>2. CASE v # w
      BY <1>1, <2>1, <3>2, NoneIsNoThread DEF IInv, Exclusive, MutexStep
    <3> QED BY <3>1, <3>2
  <2> QED BY <2>1 DEF Exclusive
<1>5. Busy(w) /\ \A v \in Workers : Busy(v)' => Busy(v) /\ Client(v)' = Client(v)
  BY <1>1 DEF Busy, PutBack, Client, Moves
<1>6. OneRequest'
  BY <1>5 DEF IInv, OneRequest, RestOK
<1>7. StillToRelease'
  <2> SUFFICES ASSUME NEW v \in Workers, th'[v].pc = "closing",
                      NEW a \in Stored(Hash'),
                      files'[a].lock = 1, files'[a].fd = Client(v)'
               PROVE  a \in th'[v].todo
    BY DEF StillToRelease
  <2>1. v # w /\ th'[v] = th[v]
    BY <1>1 DEF Moves
  <2>2. Client(v) # Client(w)
    <3>1. Busy(v)
      BY <2>1 DEF Busy, PutBack
    <3> QED BY <1>5, <2>1, <3>1 DEF IInv, OneRequest
  <2>3. a \in Stored(Hash) /\ files[a].lock = 1 /\ files[a].fd = Client(v)
    BY <2>1, <2>2 DEF LocksStep, Client
  <2> QED BY <2>1, <2>3 DEF IInv, StillToRelease
<1>8. LocksOwned'
  BY <1>5 DEF IInv, LocksOwned, LocksStep, OneRequest, RestOK
<1> QED BY <1>2, <1>3, <1>4, <1>6, <1>7, <1>8 DEF IInv, RestOK

-----------------------------------------------------------------------------
(* Updates of one thread and of one file *)

LEMMA UndefinedStep ==
    ASSUME IInv, NEW k \in {"null", "freed", "wild"}, Undefined(k)
    PROVE  IInv'
BY DEF IInv, TypeOK, ThreadsOK, Named, Exclusive, OneRequest, Busy, PutBack,
       Client, StillToRelease, LocksOwned, Undefined

\* A thread that only goes to another label.
LEMMA GotoMoves ==
    ASSUME IInv, NEW w \in Workers, NEW l \in Labels \ {"idle", "closing"},
           th[w].pc \notin {"idle", "finish", "closing"},
           l \in PathLabels => th[w].req.path \in Paths,
           l \in FileLabels => th[w].f \in Files,
           l # "evictAccount",
           l \notin {"lookup", "accountAppend"},
           l = "file" => th[w].answer = <<>>,
           Goto(w, l)
    PROVE  \E t : t.pc = l /\ Moves(w, t)
<1> DEFINE t == [th[w] EXCEPT !.pc = l]
<1>1. th[w] \in Thread /\ LocalOK(th[w])
  BY DEF IInv, TypeOK, ThreadsOK
<1>2. t \in Thread /\ t.pc = l /\ t.req = th[w].req /\ t.f = th[w].f
      /\ t.answer = th[w].answer
  BY <1>1 DEF Thread
<1>3. th' = [th EXCEPT ![w] = t]
  BY DEF Goto
<1>4. LocalOK(t)
  BY <1>1, <1>2 DEF LocalOK
<1> HIDE DEF t
<1> QED BY <1>2, <1>3, <1>4 DEF Moves

\* A thread that sends a status and goes on.
LEMMA SendMoves ==
    ASSUME IInv, NEW w \in Workers, NEW s \in Status,
           NEW l \in {"finish", "enqueue", "evictBegin", "closeWalk"},
           th[w].pc \notin {"idle", "finish", "closing"},
           l \in FileLabels => th[w].f \in Files,
           Send(w, s, l)
    PROVE  \E t : t.pc = l /\ Moves(w, t)
<1> DEFINE t == [th[w] EXCEPT !.pc = l, !.answer = Append(@, s)]
<1>1. th[w] \in Thread /\ LocalOK(th[w])
  BY DEF IInv, TypeOK, ThreadsOK
<1>2. Append(th[w].answer, s) \in Seq(Status)
  BY <1>1, AppendProperties DEF Thread
<1>3. t \in Thread /\ t.pc = l /\ t.req = th[w].req /\ t.f = th[w].f
  BY <1>1, <1>2 DEF Thread, Labels
<1>4. th' = [th EXCEPT ![w] = t]
  BY DEF Send
<1>5. LocalOK(t)
  BY <1>1, <1>3 DEF LocalOK, PathLabels
<1> HIDE DEF t
<1> QED BY <1>3, <1>4, <1>5 DEF Moves

\* Facts about a thread that every action uses.
LEMMA ThreadFacts ==
    ASSUME IInv, NEW w \in Workers
    PROVE  /\ th[w] \in Thread /\ LocalOK(th[w])
           /\ th[w].pc # "idle" => Client(w) \in Clients
           /\ th[w].pc \in FileLabels => th[w].f \in Files
BY DEF IInv, TypeOK, ThreadsOK, LocalOK, Thread, Client, Request

\* A File whose flags, owner or content change.
LEMMA FileUpdate ==
    ASSUME IInv, NEW a \in Files, NEW g \in File,
           files' = [files EXCEPT ![a] = g],
           g.path = files[a].path /\ g.alive = files[a].alive
    PROVE  /\ files' \in [Files -> File] /\ Named'
           /\ files'[a] = g
           /\ \A b \in Files \ {a} : files'[b] = files[b]
BY DEF IInv, TypeOK, Named

\* With the table and the files as they were, no lock changes hands.
LEMMA SameStore ==
    ASSUME IInv, NEW w \in Workers, UNCHANGED <<Hash, files>>
    PROVE  LocksStep(w) /\ Hash' \in Tables /\ files' \in [Files -> File] /\ Named'
BY DEF LocksStep, IInv, TypeOK, Named

\* A step that changes nothing but the thread.
LEMMA QuietStep ==
    ASSUME IInv, NEW w \in Workers, UNCHANGED <<Store, Outside>>,
           \E t : Moves(w, t) /\ (t.pc \in HoldLabels => th[w].pc \in HoldLabels)
    PROVE  IInv'
<1>1. PICK t : Moves(w, t) /\ (t.pc \in HoldLabels => th[w].pc \in HoldLabels)
  OBVIOUS
<1>2. MutexStep(w, t.pc) /\ LocksStep(w) /\ RestOK
  BY <1>1, SameStore DEF MutexStep, RestOK, Store, Outside, IInv, TypeOK
<1> QED BY <1>1, <1>2, ThreadStep

-----------------------------------------------------------------------------
(* One lemma per action of a thread *)

LEMMA CreateCheckStep ==
    ASSUME IInv, NEW w \in Workers, CreateCheck(w) PROVE IInv'
<1>1. CASE ~searchBucketSafe(Hash, Path(w))
  BY <1>1, UndefinedStep DEF CreateCheck
<1>2. CASE searchBucketSafe(Hash, Path(w))
  <2>1. th[w].pc = "check" /\ UNCHANGED <<Store, Outside>>
    BY <1>2 DEF CreateCheck, At
  <2>2. CASE Answer(w, "YESCONTAIN")
    BY <2>1, <2>2, SendMoves, QuietStep DEF Answer, Status, FileLabels, HoldLabels
  <2>3. CASE Goto(w, IF Hash.nelem + 1 <= MaxF THEN "create" ELSE "createFull")
    <3> DEFINE l == IF Hash.nelem + 1 <= MaxF THEN "create" ELSE "createFull"
    <3>1. l \in {"create", "createFull"}
      OBVIOUS
    <3>2. th[w].req.path \in Paths
      BY <2>1, ThreadFacts DEF LocalOK, PathLabels
    <3> HIDE DEF l
    <3>3. \E t : t.pc = l /\ Moves(w, t)
      BY <2>1, <2>3, <3>1, <3>2, GotoMoves DEF l, Labels, FileLabels
    <3> QED BY <2>1, <3>1, <3>3, QuietStep DEF HoldLabels
  <2> QED BY <1>2, <2>2, <2>3 DEF CreateCheck
<1> QED BY <1>1, <1>2

LEMMA CreateInsertStep ==
    ASSUME IInv, NEW w \in Workers, CreateInsert(w) PROVE IInv'
<1>1. th[w].pc \in {"create", "createFull"} /\ mtxhash' = mtxhash
  BY DEF CreateInsert, At
<1>2. Path(w) \in Paths /\ Client(w) \in Clients
  BY <1>1, ThreadFacts DEF LocalOK, PathLabels, Path
<1>3. PICK a \in Fresh, d \in Uninit, c \in {"null", "wild"} :
         /\ Hash' = hashins(Hash, Path(w), a)
         /\ files' = [files EXCEPT ![a] =
                        Created(Path(w), Client(w),
                                IF Op(w) = "O_CRLK" THEN 1 ELSE 0, d, c)]
  BY DEF CreateInsert
<1> DEFINE g == Created(Path(w), Client(w), IF Op(w) = "O_CRLK" THEN 1 ELSE 0, d, c)
<1>4. a \in Files /\ Hash \in Tables /\ files \in [Files -> File]
  BY DEF Fresh, IInv, TypeOK
<1>5. g \in File /\ g.path \in Paths /\ g.fd = Client(w)
  BY <1>2, WorkersAssumption DEF Created, File
<1> HIDE DEF g
<1>6. files' = [files EXCEPT ![a] = g]
  BY <1>3 DEF g
<1>7. files' \in [Files -> File] /\ Named'
  BY <1>4, <1>5, <1>6 DEF Named, IInv
<1>8. Hash' \in Tables /\ Stored(Hash') = Stored(Hash) \cup {a}
  BY <1>2, <1>3, <1>4, HashinsProperties
<1>9. LocksStep(w)
  <2>1. Stored(Hash) \subseteq Files
    BY <1>4, TableProperties
  <2> QED BY <1>4, <1>5, <1>6, <1>8, <2>1 DEF LocksStep
<1>10. RestOK
  BY <1>7, <1>8 DEF CreateInsert, RestOK, Outside, IInv, TypeOK
<1>11. \E t : t.pc \notin HoldLabels /\ Moves(w, t)
  <2>1. CASE th[w].pc = "create"
    BY <1>1, <2>1, SendMoves DEF CreateInsert, Answer, Status, FileLabels, HoldLabels
  <2>2. CASE th[w].pc = "createFull"
    <3>1. Goto(w, "expel")
      BY <2>2 DEF CreateInsert
    <3> QED BY <1>1, <3>1, GotoMoves DEF Labels, FileLabels, PathLabels, HoldLabels
  <2> QED BY <1>1, <2>1, <2>2
<1> QED BY <1>1, <1>9, <1>10, <1>11, ThreadStep DEF MutexStep

LEMMA ExpelHeadStep ==
    ASSUME IInv, NEW w \in Workers, ExpelHead(w) PROVE IInv'
<1>1. CASE ~takeHeadSafe(fifo)
  BY <1>1, UndefinedStep DEF ExpelHead
<1>2. CASE takeHeadSafe(fifo)
  <2> DEFINE a == Head(fifo.nodes).cont
             t == [th[w] EXCEPT !.pc = "unlinkExpelled", !.f = a]
  <2>1. /\ th[w].pc = "expel" /\ fifo' = takeHead(fifo)
        /\ th' = [th EXCEPT ![w] = t]
        /\ UNCHANGED <<Hash, actual_size, files, mtxhash, Outside>>
    BY <1>2 DEF ExpelHead, At
  <2>2. fifo' \in ListOf(Entry) /\ a \in Files
    <3>1. fifo \in ListOf(Entry)
      BY DEF IInv, TypeOK
    <3>2. takeHead(fifo) \in ListOf(Entry) /\ Head(fifo.nodes) \in Entry
      BY <1>2, <3>1, TakeHeadProperties
    <3>3. \A e \in Entry : e.cont \in Files
      BY DEF Entry
    <3> QED BY <2>1, <3>2, <3>3
  <2>3. t \in Thread /\ t.pc = "unlinkExpelled" /\ t.req = th[w].req /\ t.f = a
    BY <2>2, ThreadFacts DEF Thread, Labels
  <2> HIDE DEF t, a
  <2>4. Moves(w, t)
    BY <2>1, <2>2, <2>3, ThreadFacts DEF Moves, LocalOK, PathLabels
  <2>5. MutexStep(w, t.pc)
    BY <2>1, <2>3 DEF MutexStep, HoldLabels
  <2>6. LocksStep(w)
    BY <2>1, SameStore
  <2>7. RestOK
    <3>1. actual_size' \in Int /\ mtxcon \in Workers \cup {NONE}
      BY <2>1 DEF IInv, TypeOK
    <3> QED BY <2>1, <2>2, <3>1, SameStore DEF RestOK, Outside
  <2> QED BY <2>4, <2>5, <2>6, <2>7, ThreadStep
<1> QED BY <1>1, <1>2

\* h_delete() of the path of a live file: the table loses nodes, if anything.
LEMMA HdeleteStep ==
    ASSUME IInv, NEW w \in Workers, NEW a \in Files, files[a].alive,
           Hash' = h_delete(Hash, files[a].path), UNCHANGED files
    PROVE  Hash' \in Tables /\ files' \in [Files -> File] /\ Named' /\ LocksStep(w)
<1>1. files[a].path \in Paths /\ Hash \in Tables
  BY DEF IInv, Named, TypeOK
<1>2. Hash' \in Tables /\ Stored(Hash') \subseteq Stored(Hash)
  BY <1>1, HdeleteProperties
<1> QED BY <1>2 DEF LocksStep, IInv, TypeOK, Named

LEMMA UnlinkExpelledStep ==
    ASSUME IInv, NEW w \in Workers, UnlinkExpelled(w) PROVE IInv'
<1> DEFINE f == files[th[w].f]
<1>1. th[w].pc = "unlinkExpelled" /\ th[w].f \in Files
  BY ThreadFacts DEF UnlinkExpelled, At, FileLabels
<1>2. CASE ~f.alive \/ ~h_deleteSafe(Hash, f.path)
  BY <1>2, UndefinedStep DEF UnlinkExpelled
<1>3. CASE f.alive /\ h_deleteSafe(Hash, f.path)
  <2>1. /\ Hash' = h_delete(Hash, f.path) /\ Answer(w, "TOMUCHFILE")
        /\ UNCHANGED <<fifo, actual_size, files, mtxhash, Outside>>
    BY <1>3 DEF UnlinkExpelled
  <2>2. LocksStep(w) /\ RestOK
    BY <1>1, <1>3, <2>1, HdeleteStep DEF RestOK, Outside, IInv, TypeOK
  <2>3. \E t : t.pc = "finish" /\ Moves(w, t)
    BY <1>1, <2>1, SendMoves DEF Answer, Status, FileLabels
  <2> QED BY <2>1, <2>2, <2>3, ThreadStep DEF MutexStep, HoldLabels
<1> QED BY <1>2, <1>3

LEMMA LookupStep ==
    ASSUME IInv, NEW w \in Workers, Lookup(w) PROVE IInv'
<1>1. th[w].pc = "lookup" /\ mtxhash = NONE /\ Path(w) \in Paths
  BY ThreadFacts DEF Lookup, At, LocalOK, PathLabels, Path
<1>2. CASE ~searchBucketSafe(Hash, Path(w))
  BY <1>2, UndefinedStep DEF Lookup
<1>3. CASE searchBucketSafe(Hash, Path(w)) /\ ~contain(Hash, Path(w))
  BY <1>1, <1>3, SendMoves, QuietStep DEF Lookup, Answer, Status, FileLabels, HoldLabels
<1>4. CASE searchBucketSafe(Hash, Path(w)) /\ contain(Hash, Path(w))
  <2> DEFINE a == getvalue(Hash, Path(w))
  <2>1. a \in Files
    BY <1>1, <1>4, GetvalueProperties DEF IInv, TypeOK
  <2>2. UNCHANGED <<Hash, fifo, actual_size, files, Outside>>
    BY <1>4 DEF Lookup
  <2>3. LocksStep(w) /\ RestOK
    BY <2>2, SameStore DEF RestOK, Outside, IInv, TypeOK
  <2>4. CASE Op(w) = "APPEND"
    <3> DEFINE t == [th[w] EXCEPT !.pc = "accountAppend", !.f = a, !.tmp = actual_size]
    <3>1. th' = [th EXCEPT ![w] = t] /\ mtxhash' = w
      BY <1>4, <2>4 DEF Lookup
    <3>2. actual_size \in Int
      BY DEF IInv, TypeOK
    <3>3. /\ t \in Thread /\ t.pc = "accountAppend" /\ t.req = th[w].req
          /\ t.f = a /\ t.answer = th[w].answer
      BY <2>1, <3>2, ThreadFacts DEF Thread, Labels
    <3> HIDE DEF t, a
    <3>4. Moves(w, t)
      BY <1>1, <2>1, <3>1, <3>3, ThreadFacts DEF Moves, LocalOK, PathLabels, Path
    <3> QED BY <1>1, <2>3, <3>1, <3>4, ThreadStep DEF MutexStep
  <2>5. CASE Op(w) # "APPEND"
    <3> DEFINE t == [th[w] EXCEPT !.pc = "file", !.f = a]
    <3>1. th' = [th EXCEPT ![w] = t] /\ mtxhash' = mtxhash
      BY <1>4, <2>5 DEF Lookup, GotoWith
    <3>2. /\ t \in Thread /\ t.pc = "file" /\ t.req = th[w].req
          /\ t.f = a /\ t.answer = th[w].answer
      BY <2>1, ThreadFacts DEF Thread, Labels
    <3> HIDE DEF t, a
    <3>3. Moves(w, t)
      BY <1>1, <2>1, <3>1, <3>2, ThreadFacts DEF Moves, LocalOK, PathLabels, Path
    <3> QED BY <2>3, <3>1, <3>2, <3>3, ThreadStep DEF MutexStep, HoldLabels
  <2> QED BY <2>4, <2>5
<1> QED BY <1>2, <1>3, <1>4

LEMMA AccountAppendStep ==
    ASSUME IInv, NEW w \in Workers, AccountAppend(w) PROVE IInv'
<1>1. th[w].pc = "accountAppend" /\ mtxhash' = NONE
  BY DEF AccountAppend, At
<1>2. /\ th[w].tmp \in Int /\ th[w].req.size \in Nat /\ th[w].f \in Files
      /\ th[w].answer = <<>> /\ th[w].req.path \in Paths
  BY <1>1, ThreadFacts DEF Thread, LocalOK, Request, FileLabels, PathLabels
<1>3. actual_size' \in Int
  BY <1>2 DEF AccountAppend
<1>4. LocksStep(w) /\ RestOK
  BY <1>3, SameStore DEF AccountAppend, RestOK, Outside, IInv, TypeOK
<1>5. \E t : t.pc = "file" /\ Moves(w, t)
  BY <1>1, <1>2, GotoMoves DEF AccountAppend, Labels, PathLabels
<1> QED BY <1>1, <1>4, <1>5, ThreadStep DEF MutexStep, HoldLabels

\* A critical section on the file that the thread has looked up.
LEMMA FileStep ==
    ASSUME IInv, NEW w \in Workers, th[w].f \in Files, NEW g \in File,
           files' = [files EXCEPT ![th[w].f] = g],
           g.path = files[th[w].f].path, g.alive = files[th[w].f].alive,
           g.lock = 1 => \/ g.fd = Client(w)
                         \/ files[th[w].f].lock = 1 /\ g.fd = files[th[w].f].fd,
           UNCHANGED <<Hash, fifo, actual_size, mtxhash, Outside>>,
           \E t : Moves(w, t) /\ t.pc \notin HoldLabels
    PROVE  IInv'
<1>1. PICK t : Moves(w, t) /\ t.pc \notin HoldLabels
  OBVIOUS
<1>2. /\ files' \in [Files -> File] /\ Named'
      /\ files'[th[w].f] = g
      /\ \A b \in Files \ {th[w].f} : files'[b] = files[b]
  BY FileUpdate
<1>3. Stored(Hash) \subseteq Files /\ Hash' = Hash
  BY TableProperties DEF IInv, TypeOK
<1>4. LocksStep(w)
  BY <1>2, <1>3 DEF LocksStep
<1>5. RestOK
  BY <1>2 DEF RestOK, Outside, IInv, TypeOK
<1> QED BY <1>1, <1>4, <1>5, ThreadStep DEF MutexStep

LEMMA OnFileFacts ==
    ASSUME IInv, NEW w \in Workers, NEW op, OnFile(w, op)
    PROVE  /\ th[w].pc = "file" /\ th[w].f \in Files
           /\ files[th[w].f] \in File /\ Client(w) \in Clients
           /\ th[w].answer = <<>> /\ th[w].req.path \in Paths
BY ThreadFacts DEF OnFile, At, FileLabels, PathLabels, IInv, TypeOK, LocalOK

\* The answer is the last thing a critical section does.
LEMMA AnswerMoves ==
    ASSUME IInv, NEW w \in Workers, NEW s \in Status, Answer(w, s),
           th[w].pc \notin {"idle", "finish", "closing"}
    PROVE  \E t : Moves(w, t) /\ t.pc \notin HoldLabels
BY SendMoves DEF Answer, FileLabels, HoldLabels

LEMMA OpenFileStep ==
    ASSUME IInv, NEW w \in Workers, OpenFile(w) PROVE IInv'
<1> DEFINE f == files[th[w].f]
           g == [f EXCEPT !.isopen = 1]
<1>1. th[w].pc = "file" /\ th[w].f \in Files /\ f \in File
  BY OnFileFacts DEF OpenFile
<1>2. /\ g \in File /\ g.path = f.path /\ g.alive = f.alive
      /\ g.lock = f.lock /\ g.fd = f.fd
  BY <1>1 DEF File
<1>3. files' = [files EXCEPT ![th[w].f] = g]
  BY DEF OpenFile
<1> HIDE DEF g
<1>4. \E t : Moves(w, t) /\ t.pc \notin HoldLabels
  BY <1>1, AnswerMoves DEF OpenFile, Status
<1> QED BY <1>1, <1>2, <1>3, <1>4, FileStep DEF OpenFile

LEMMA OpenLockStep ==
    ASSUME IInv, NEW w \in Workers, OpenLock(w) PROVE IInv'
<1> DEFINE f == files[th[w].f]
           g == [f EXCEPT !.isopen = 1, !.lock = 1, !.fd = Client(w)]
<1>1. th[w].pc = "file" /\ th[w].f \in Files /\ f \in File /\ Client(w) \in Clients
  BY OnFileFacts DEF OpenLock
<1>2. /\ g \in File /\ g.path = f.path /\ g.alive = f.alive /\ g.fd = Client(w)
  BY <1>1 DEF File
<1>3. files' = [files EXCEPT ![th[w].f] = g]
  BY DEF OpenLock
<1> HIDE DEF g
<1>4. \E t : Moves(w, t) /\ t.pc \notin HoldLabels
  BY <1>1, AnswerMoves DEF OpenLock, Status
<1> QED BY <1>1, <1>2, <1>3, <1>4, FileStep DEF OpenLock

\* A LOCKS request put back: its client now waits in queueric instead of
\* with the thread.
LEMMA PutBackStep ==
    ASSUME IInv, NEW w \in Workers, th[w].pc = "file", Goto(w, "finish"),
           requeued' = requeued \cup {th[w].req},
           UNCHANGED <<Hash, fifo, actual_size, files, mtxhash, mtxcon, connected, fault>>
    PROVE  IInv'
<1> DEFINE t == [th[w] EXCEPT !.pc = "finish"]
<1>1. /\ th[w] \in Thread /\ LocalOK(th[w]) /\ th[w].answer = <<>>
      /\ th[w].req \in Request /\ th[w].req.path \in Paths
  BY ThreadFacts DEF LocalOK, PathLabels
<1>2. t \in Thread /\ t.pc = "finish" /\ t.req = th[w].req /\ t.answer = <<>>
  BY <1>1 DEF Thread, Labels
<1>3. th' = [th EXCEPT ![w] = t]
  BY DEF Goto
<1> HIDE DEF t
<1>4. /\ th'[w] = t /\ \A v \in Workers \ {w} : th'[v] = th[v]
      /\ th' \in [Workers -> Thread]
  BY <1>2, <1>3 DEF IInv, TypeOK
<1>5. TypeOK'
  BY <1>1, <1>4 DEF IInv, TypeOK
<1>6. ThreadsOK' /\ Named' /\ Exclusive'
  BY <1>1, <1>2, <1>4
     DEF IInv, ThreadsOK, LocalOK, PathLabels, FileLabels, HoldLabels, Named, Exclusive
<1>7. Busy(w) /\ ~Busy(w)' /\ \A v \in Workers \ {w} : Busy(v)' = Busy(v) /\ Client(v)' = Client(v)
  BY <1>2, <1>4 DEF Busy, PutBack, Client
<1>8. OneRequest'
  <2>1. th[w].req.fd = Client(w) /\ th[w].req.path \in Paths /\ Client(w) \in connected
    BY <1>1, <1>7 DEF Client, IInv, OneRequest
  <2>2. \A r \in requeued' : r \in requeued \/ r = th[w].req
    OBVIOUS
  <2>3. \A v \in Workers : Busy(v)' =>
            v # w /\ Busy(v) /\ Client(v)' = Client(v) /\ Client(v) # Client(w)
    BY <1>7 DEF IInv, OneRequest
  <2>4. \A r \in requeued : Client(w) # r.fd
    BY <1>7 DEF IInv, OneRequest
  <2> HIDE <1>7
  <2>5. /\ \A v \in Workers : Busy(v)' => Client(v)' \in connected'
        /\ \A u, v \in Workers : Busy(u)' /\ Busy(v)' /\ u # v => Client(u)' # Client(v)'
    BY <2>3 DEF IInv, OneRequest
  <2>6. /\ \A r \in requeued' : r.fd \in connected' /\ r.path \in Paths
        /\ \A v \in Workers, r \in requeued' : Busy(v)' => Client(v)' # r.fd
        /\ \A q, r \in requeued' : q.fd = r.fd => q = r
    BY <2>1, <2>2, <2>3, <2>4 DEF IInv, OneRequest
  <2> QED BY <2>5, <2>6 DEF OneRequest
<1>9. StillToRelease' /\ LocksOwned'
  BY <1>2, <1>4 DEF IInv, StillToRelease, LocksOwned, Client
<1> QED BY <1>5, <1>6, <1>8, <1>9 DEF IInv

LEMMA LocksRequestStep ==
    ASSUME IInv, NEW w \in Workers, Locks(w) PROVE IInv'
<1> DEFINE f == files[th[w].f]
           g == [f EXCEPT !.lock = 1, !.fd = Client(w)]
<1>1. /\ th[w].pc = "file" /\ th[w].f \in Files /\ f \in File /\ Client(w) \in Clients
      /\ UNCHANGED <<Hash, fifo, actual_size, mtxhash, mtxcon, connected, fault>>
  BY OnFileFacts DEF Locks
<1>2. CASE f.isopen = 1 /\ Permitted(w, f)
  <2>1. /\ g \in File /\ g.path = f.path /\ g.alive = f.alive /\ g.fd = Client(w)
    BY <1>1 DEF File
  <2>2. /\ files' = [files EXCEPT ![th[w].f].lock = 1, ![th[w].f].fd = Client(w)]
        /\ Answer(w, "SUCCESS") /\ UNCHANGED requeued
    BY <1>2 DEF Locks
  <2>4. files \in [Files -> File]
    BY DEF IInv, TypeOK
  <2>5. files' = [files EXCEPT ![th[w].f] = g]
    BY <1>1, <2>2, <2>4
  <2> HIDE DEF g
  <2>3. \E t : Moves(w, t) /\ t.pc \notin HoldLabels
    BY <1>1, <2>2, AnswerMoves DEF Status
  <2> QED BY <1>1, <2>1, <2>2, <2>3, <2>5, FileStep DEF Outside
<1>3. CASE f.isopen = 1 /\ ~Permitted(w, f)
  BY <1>1, <1>3, PutBackStep DEF Locks
<1>4. CASE f.isopen = 0
  <2>1. Answer(w, "NOTOPEN") /\ UNCHANGED <<Store, Outside>>
    BY <1>4 DEF Locks, Store, Outside
  <2> QED BY <1>1, <2>1, AnswerMoves, QuietStep DEF Status
<1> QED BY <1>2, <1>3, <1>4 DEF Locks

LEMMA FileIsGoneStep ==
    ASSUME IInv, NEW w \in Workers, FileIsGone(w) PROVE IInv'
BY UndefinedStep DEF FileIsGone

LEMMA UnlocksStep ==
    ASSUME IInv, NEW w \in Workers, Unlocks(w) PROVE IInv'
<1> DEFINE f == files[th[w].f]
           g == [f EXCEPT !.lock = 0]
<1>1. /\ th[w].pc = "file" /\ th[w].f \in Files /\ f \in File
      /\ UNCHANGED <<Hash, fifo, actual_size, mtxhash, Outside>>
  BY OnFileFacts DEF Unlocks
<1>2. CASE f.fd = Client(w)
  <2>1. /\ g \in File /\ g.path = f.path /\ g.alive = f.alive /\ ~(g.lock = 1)
    BY <1>1 DEF File
  <2>2. files' = [files EXCEPT ![th[w].f] = g] /\ Answer(w, "SUCCESS")
    BY <1>2 DEF Unlocks
  <2> HIDE DEF g
  <2>3. \E t : Moves(w, t) /\ t.pc \notin HoldLabels
    BY <1>1, <2>2, AnswerMoves DEF Status
  <2> QED BY <1>1, <2>1, <2>2, <2>3, FileStep
<1>3. CASE f.fd # Client(w)
  <2>1. Answer(w, "NOTPERMISSION") /\ UNCHANGED <<Store, Outside>>
    BY <1>3 DEF Unlocks, Store
  <2> QED BY <1>1, <2>1, AnswerMoves, QuietStep DEF Status
<1> QED BY <1>2, <1>3

LEMMA CloseStep ==
    ASSUME IInv, NEW w \in Workers, Close(w) PROVE IInv'
<1> DEFINE f == files[th[w].f]
           g == [f EXCEPT !.isopen = 0]
<1>1. /\ th[w].pc = "file" /\ th[w].f \in Files /\ f \in File
      /\ UNCHANGED <<Hash, fifo, actual_size, mtxhash, Outside>>
      /\ files' = [files EXCEPT ![th[w].f] = g] /\ Answer(w, "SUCCESS")
  BY OnFileFacts DEF Close
<1>2. /\ g \in File /\ g.path = f.path /\ g.alive = f.alive
      /\ g.lock = f.lock /\ g.fd = f.fd
  BY <1>1 DEF File
<1> HIDE DEF g
<1>3. \E t : Moves(w, t) /\ t.pc \notin HoldLabels
  BY <1>1, AnswerMoves DEF Status
<1> QED BY <1>1, <1>2, <1>3, FileStep

LEMMA ReadStep ==
    ASSUME IInv, NEW w \in Workers, Read(w) PROVE IInv'
<1> DEFINE f == files[th[w].f]
           s == CASE f.isopen = 0 -> "NOTOPEN"
                  [] f.isopen = 1 /\ ~Permitted(w, f) -> "NOTPERMISSION"
                  [] OTHER -> "SUCCESS"
<1>1. th[w].pc = "file" /\ Answer(w, s) /\ UNCHANGED <<Store, Outside>>
  BY OnFileFacts DEF Read
<1>2. s \in Status
  BY DEF Status
<1> HIDE DEF s
<1> QED BY <1>1, <1>2, AnswerMoves, QuietStep

LEMMA WriteStep ==
    ASSUME IInv, NEW w \in Workers, Write(w) PROVE IInv'
<1> DEFINE f == files[th[w].f]
           g == [f EXCEPT !.dim = th[w].req.size, !.cont = "buffer"]
<1>1. /\ th[w].pc = "file" /\ th[w].f \in Files /\ f \in File
      /\ th[w].req.size \in Nat
      /\ UNCHANGED <<Hash, fifo, actual_size, mtxhash, Outside>>
  BY OnFileFacts, ThreadFacts DEF Write, LocalOK, Request
<1>2. CASE f.isopen = 1 /\ Permitted(w, f)
  <2>1. /\ g \in File /\ g.path = f.path /\ g.alive = f.alive
        /\ g.lock = f.lock /\ g.fd = f.fd
    <3>1. th[w].req.size \in Int
      BY <1>1
    <3> QED BY <1>1, <3>1 DEF File
  <2>2. /\ files' = [files EXCEPT ![th[w].f].dim = th[w].req.size,
                                 ![th[w].f].cont = "buffer"]
        /\ Goto(w, "accountRead")
    BY <1>2 DEF Write
  <2>4. files \in [Files -> File]
    BY DEF IInv, TypeOK
  <2>5. files' = [files EXCEPT ![th[w].f] = g]
    BY <1>1, <2>2, <2>4
  <2> HIDE DEF g
  <2>3. \E t : Moves(w, t) /\ t.pc \notin HoldLabels
    BY <1>1, <2>2, GotoMoves DEF Labels, PathLabels, HoldLabels
  <2> QED BY <1>1, <2>1, <2>2, <2>3, <2>5, FileStep
<1>3. CASE f.isopen = 0 \/ ~Permitted(w, f)
  <2>1. /\ Answer(w, "NOTOPEN") \/ Answer(w, "NOTPERMISSION")
        /\ UNCHANGED <<Store, Outside>>
    BY <1>3 DEF Write, Store
  <2> QED BY <1>1, <2>1, AnswerMoves, QuietStep DEF Status
<1> QED BY <1>1, <1>2, <1>3 DEF File

LEMMA AccountReadStep ==
    ASSUME IInv, NEW w \in Workers, AccountRead(w) PROVE IInv'
<1> DEFINE t == [th[w] EXCEPT !.pc = "account", !.tmp = actual_size]
<1>1. /\ th[w].pc = "accountRead" /\ th[w].f \in Files /\ actual_size \in Int
      /\ th' = [th EXCEPT ![w] = t] /\ UNCHANGED <<Store, Outside>>
  BY ThreadFacts DEF AccountRead, At, FileLabels, IInv, TypeOK
<1>2. t \in Thread /\ t.pc = "account" /\ t.req = th[w].req /\ t.f = th[w].f
  BY <1>1, ThreadFacts DEF Thread, Labels
<1> HIDE DEF t
<1>3. Moves(w, t)
  BY <1>1, <1>2, ThreadFacts DEF Moves, LocalOK, PathLabels
<1> QED BY <1>1, <1>2, <1>3, QuietStep DEF HoldLabels

\* A step that leaves the table and the files alone, and mtxhash.
LEMMA PrivateStep ==
    ASSUME IInv, NEW w \in Workers, fifo' \in ListOf(Entry), actual_size' \in Int,
           UNCHANGED <<Hash, files, mtxhash, Outside>>,
           \E t : Moves(w, t) /\ (t.pc \in HoldLabels => th[w].pc \in HoldLabels)
    PROVE  IInv'
<1>1. PICK t : Moves(w, t) /\ (t.pc \in HoldLabels => th[w].pc \in HoldLabels)
  OBVIOUS
<1>2. MutexStep(w, t.pc) /\ LocksStep(w) /\ RestOK
  BY <1>1, SameStore DEF MutexStep, RestOK, Outside, IInv, TypeOK
<1> QED BY <1>1, <1>2, ThreadStep

LEMMA AccountStep ==
    ASSUME IInv, NEW w \in Workers, Account(w) PROVE IInv'
<1>1. /\ th[w].pc = "account" /\ th[w].f \in Files
      /\ th[w].tmp \in Int /\ th[w].req.size \in Nat
  BY ThreadFacts DEF Account, At, FileLabels, Thread, LocalOK, Request
<1>2. actual_size' \in Int
  BY <1>1 DEF Account
<1>3. \E t : t.pc = "checkSpace" /\ Moves(w, t)
  BY <1>1, GotoMoves DEF Account, Labels, PathLabels
<1> QED BY <1>2, <1>3, PrivateStep DEF Account, HoldLabels, IInv, TypeOK

LEMMA CheckSpaceStep ==
    ASSUME IInv, NEW w \in Workers, CheckSpace(w) PROVE IInv'
<1>1. /\ th[w].pc = "checkSpace" /\ th[w].f \in Files
      /\ UNCHANGED <<Store, Outside>>
  BY ThreadFacts DEF CheckSpace, At, FileLabels
<1>2. CASE Send(w, "SUCCESS", "enqueue")
  BY <1>1, <1>2, SendMoves, QuietStep DEF Status, HoldLabels
<1>3. CASE Send(w, "SERVERFULL", "evictBegin")
  BY <1>1, <1>3, SendMoves, QuietStep DEF Status, HoldLabels
<1> QED BY <1>2, <1>3 DEF CheckSpace

LEMMA EnqueueStep ==
    ASSUME IInv, NEW w \in Workers, Enqueue(w) PROVE IInv'
<1> DEFINE f == files[th[w].f]
           n == [key |-> f.path, cont |-> th[w].f]
<1>1. th[w].pc = "enqueue" /\ th[w].f \in Files
  BY ThreadFacts DEF Enqueue, At, FileLabels
<1>2. CASE ~(f.alive /\ insertTSafe(fifo))
  BY <1>2, UndefinedStep DEF Enqueue
<1>3. CASE f.alive /\ insertTSafe(fifo)
  <2>1. /\ fifo' = insertT(fifo, n) /\ Goto(w, "finish")
        /\ UNCHANGED <<Hash, actual_size, files, mtxhash, Outside>>
    BY <1>3 DEF Enqueue
  <2>2. n \in Entry /\ fifo \in ListOf(Entry)
    BY <1>1, <1>3 DEF Entry, IInv, Named, TypeOK
  <2> HIDE DEF n
  <2>3. fifo' \in ListOf(Entry)
    BY <2>1, <2>2, InsertTProperties
  <2>4. \E t : t.pc = "finish" /\ Moves(w, t)
    BY <1>1, <2>1, GotoMoves DEF Labels, PathLabels, FileLabels
  <2> QED BY <2>1, <2>3, <2>4, PrivateStep DEF HoldLabels, IInv, TypeOK
<1> QED BY <1>2, <1>3

LEMMA AppendBeginStep ==
    ASSUME IInv, NEW w \in Workers, AppendBegin(w) PROVE IInv'
<1> DEFINE f == files[th[w].f]
           g == [f EXCEPT !.mtxf = w]
<1>1. /\ th[w].pc = "file" /\ th[w].f \in Files /\ f \in File
      /\ UNCHANGED <<Hash, fifo, actual_size, mtxhash, Outside>>
  BY OnFileFacts DEF AppendBegin
<1>2. CASE f.isopen = 1
  <2>1. /\ g \in File /\ g.path = f.path /\ g.alive = f.alive
        /\ g.lock = f.lock /\ g.fd = f.fd
    BY <1>1 DEF File
  <2>2. files' = [files EXCEPT ![th[w].f] = g]
    BY <1>2 DEF AppendBegin
  <2> HIDE DEF g
  <2>3. CASE Send(w, "SERVERFULL", "evictBegin")
    <3>1. \E t : Moves(w, t) /\ t.pc \notin HoldLabels
      BY <1>1, <2>3, SendMoves DEF Status, HoldLabels
    <3> QED BY <1>1, <2>1, <2>2, <3>1, FileStep
  <2>4. CASE Goto(w, "appendCopy")
    <3>1. \E t : Moves(w, t) /\ t.pc \notin HoldLabels
      BY <1>1, <2>4, GotoMoves DEF Labels, PathLabels, HoldLabels
    <3> QED BY <1>1, <2>1, <2>2, <3>1, FileStep
  <2> QED BY <1>2, <2>3, <2>4 DEF AppendBegin
<1>3. CASE f.isopen = 0
  <2>1. Answer(w, "NOTOPEN") /\ UNCHANGED <<Store, Outside>>
    BY <1>3 DEF AppendBegin, Store
  <2> QED BY <1>1, <2>1, AnswerMoves, QuietStep DEF Status
<1> QED BY <1>2, <1>3 DEF AppendBegin

LEMMA AppendCopyStep ==
    ASSUME IInv, NEW w \in Workers, AppendCopy(w) PROVE IInv'
<1> DEFINE f == files[th[w].f]
           g == [f EXCEPT !.dim = @ + th[w].req.size, !.cont = "buffer", !.mtxf = NONE]
           copied == f.cont = "buffer" \/ (f.cont = "null" /\ f.dim = 0)
<1>1. /\ th[w].pc = "appendCopy" /\ th[w].f \in Files /\ f \in File
      /\ th[w].req.size \in Nat
  BY ThreadFacts DEF AppendCopy, At, FileLabels, IInv, TypeOK, LocalOK, Request
<1>2. CASE ~f.alive \/ ~copied
  <2>1. \E k \in {"null", "freed", "wild"} : Undefined(k)
    BY <1>1, <1>2 DEF AppendCopy, File
  <2> QED BY <2>1, UndefinedStep
<1>3. CASE f.alive /\ copied
  <2>1. /\ g \in File /\ g.path = f.path /\ g.alive = f.alive
        /\ g.lock = f.lock /\ g.fd = f.fd
    <3>1. f.dim + th[w].req.size \in Int
      BY <1>1 DEF File
    <3> QED BY <1>1, <3>1 DEF File
  <2>2. /\ files' = [files EXCEPT ![th[w].f].dim = @ + th[w].req.size,
                                 ![th[w].f].cont = "buffer",
                                 ![th[w].f].mtxf = NONE]
        /\ Answer(w, "SUCCESS")
        /\ UNCHANGED <<Hash, fifo, actual_size, mtxhash, Outside>>
    BY <1>3 DEF AppendCopy
  <2>3. files \in [Files -> File]
    BY DEF IInv, TypeOK
  <2>4. files' = [files EXCEPT ![th[w].f] = g]
    BY <1>1, <2>2, <2>3
  <2> HIDE DEF g
  <2>5. \E t : Moves(w, t) /\ t.pc \notin HoldLabels
    BY <1>1, <2>2, AnswerMoves DEF Status
  <2> QED BY <1>1, <2>1, <2>2, <2>4, <2>5, FileStep
<1> QED BY <1>2, <1>3

LEMMA EvictBeginStep ==
    ASSUME IInv, NEW w \in Workers, EvictBegin(w) PROVE IInv'
<1>1. /\ th[w].pc = "evictBegin" /\ th[w].f \in Files
      /\ mtxhash = NONE /\ mtxhash' = w
      /\ UNCHANGED <<Hash, fifo, actual_size, files, Outside>>
  BY ThreadFacts DEF EvictBegin, At, FileLabels
<1>2. PICK t : t.pc = "evict" /\ Moves(w, t)
  BY <1>1, GotoMoves DEF EvictBegin, Labels, PathLabels
<1>3. LocksStep(w) /\ RestOK
  BY <1>1, SameStore DEF RestOK, Outside, IInv, TypeOK
<1> QED BY <1>1, <1>2, <1>3, ThreadStep DEF MutexStep

LEMMA EvictTakeStep ==
    ASSUME IInv, NEW w \in Workers, EvictTake(w) PROVE IInv'
<1>1. CASE ~takeHeadSafe(fifo)
  BY <1>1, UndefinedStep DEF EvictTake
<1>2. CASE takeHeadSafe(fifo)
  <2> DEFINE a == Head(fifo.nodes).cont
             t == [th[w] EXCEPT !.pc = "evictAccount", !.victim = a, !.tmp = actual_size]
  <2>1. /\ th[w].pc = "evict" /\ th[w].f \in Files /\ fifo' = takeHead(fifo)
        /\ th' = [th EXCEPT ![w] = t]
        /\ UNCHANGED <<Hash, actual_size, files, mtxhash, Outside>>
    BY <1>2, ThreadFacts DEF EvictTake, At, FileLabels
  <2>2. fifo' \in ListOf(Entry) /\ a \in Files /\ actual_size \in Int
    <3>1. fifo \in ListOf(Entry) /\ actual_size \in Int
      BY DEF IInv, TypeOK
    <3>2. takeHead(fifo) \in ListOf(Entry) /\ Head(fifo.nodes) \in Entry
      BY <1>2, <3>1, TakeHeadProperties
    <3> QED BY <2>1, <3>1, <3>2 DEF Entry
  <2>3. /\ t \in Thread /\ t.pc = "evictAccount" /\ t.req = th[w].req
        /\ t.f = th[w].f /\ t.victim = a
    BY <2>2, ThreadFacts DEF Thread, Labels
  <2> HIDE DEF t, a
  <2>4. Moves(w, t)
    BY <2>1, <2>2, <2>3, ThreadFacts DEF Moves, LocalOK, PathLabels
  <2> QED BY <2>1, <2>2, <2>3, <2>4, PrivateStep DEF HoldLabels
<1> QED BY <1>1, <1>2

LEMMA EvictAccountStep ==
    ASSUME IInv, NEW w \in Workers, EvictAccount(w) PROVE IInv'
<1> DEFINE f == files[th[w].victim]
           s == Append(th[w].ftosend, th[w].victim)
           t == [th[w] EXCEPT !.pc = "evict", !.victim = NONE, !.ftosend = s]
<1>1. /\ th[w].pc = "evictAccount" /\ th[w].f \in Files /\ th[w].victim \in Files
      /\ th[w].tmp \in Int /\ th[w].ftosend \in Seq(Files) /\ f \in File
  BY ThreadFacts DEF EvictAccount, At, FileLabels, LocalOK, Thread, IInv, TypeOK
<1>2. CASE ~f.alive
  BY <1>2, UndefinedStep DEF EvictAccount
<1>3. CASE f.alive
  <2>1. /\ actual_size' = th[w].tmp - f.dim /\ th' = [th EXCEPT ![w] = t]
        /\ UNCHANGED <<Hash, fifo, files, mtxhash, Outside>>
    BY <1>3 DEF EvictAccount
  <2>2. actual_size' \in Int /\ s \in Seq(Files)
    BY <1>1, <2>1, AppendProperties DEF File
  <2> HIDE DEF s
  <2>3. t \in Thread /\ t.pc = "evict" /\ t.req = th[w].req /\ t.f = th[w].f
    BY <2>2, ThreadFacts DEF Thread, Labels
  <2> HIDE DEF t
  <2>4. Moves(w, t)
    BY <1>1, <2>1, <2>3, ThreadFacts DEF Moves, LocalOK, PathLabels
  <2> QED BY <1>1, <2>1, <2>2, <2>3, <2>4, PrivateStep DEF HoldLabels, IInv, TypeOK
<1> QED BY <1>2, <1>3

LEMMA EvictEnoughStep ==
    ASSUME IInv, NEW w \in Workers, EvictEnough(w) PROVE IInv'
<1>1. /\ th[w].pc = "evict" /\ th[w].f \in Files /\ UNCHANGED <<Store, Outside>>
  BY ThreadFacts DEF EvictEnough, At, FileLabels
<1>2. \E t : t.pc = "evictSend" /\ Moves(w, t)
  BY <1>1, GotoMoves DEF EvictEnough, Labels, PathLabels
<1> QED BY <1>1, <1>2, QuietStep DEF HoldLabels

\* A File that is freed has no lock.
LEMMA FreeStep ==
    ASSUME IInv, NEW w \in Workers, NEW a \in Files,
           files' = [files EXCEPT ![a] = NoFile],
           Hash' \in Tables, Stored(Hash') \subseteq Stored(Hash)
    PROVE  files' \in [Files -> File] /\ Named' /\ LocksStep(w)
<1>1. /\ NoFile \in File /\ NoFile.alive = FALSE /\ ~(NoFile.lock = 1)
  BY DEF NoFile, File
<1>2. /\ files' \in [Files -> File] /\ files'[a] = NoFile
      /\ \A b \in Files \ {a} : files'[b] = files[b]
  BY <1>1 DEF IInv, TypeOK
<1>3. Stored(Hash') \subseteq Files
  BY TableProperties
<1> QED BY <1>1, <1>2, <1>3 DEF Named, LocksStep, IInv

LEMMA EvictSendStep ==
    ASSUME IInv, NEW w \in Workers, EvictSend(w) PROVE IInv'
<1> DEFINE a == Head(th[w].ftosend)
           f == files[a]
           t == [th[w] EXCEPT !.ftosend = Tail(@)]
           defined == f.alive /\ f.cont # "wild" /\ h_deleteSafe(Hash, f.path)
<1>1. /\ th[w].pc = "evictSend" /\ th[w].f \in Files
      /\ th[w].ftosend \in Seq(Files) /\ th[w].ftosend # <<>>
  BY ThreadFacts DEF EvictSend, At, FileLabels, Thread
<1>2. a \in Files /\ Tail(th[w].ftosend) \in Seq(Files)
  BY <1>1, HeadTailProperties
<1>3. CASE ~defined
  BY <1>3, UndefinedStep DEF EvictSend
<1>4. CASE defined
  <2>1. /\ Hash' = h_delete(Hash, f.path) /\ files' = [files EXCEPT ![a] = NoFile]
        /\ th' = [th EXCEPT ![w] = t]
        /\ UNCHANGED <<fifo, actual_size, mtxhash, Outside>>
    BY <1>4 DEF EvictSend
  <2>2. f.path \in Paths /\ Hash \in Tables
    BY <1>2, <1>4 DEF IInv, Named, TypeOK
  <2>3. Hash' \in Tables /\ Stored(Hash') \subseteq Stored(Hash)
    BY <2>1, <2>2, HdeleteProperties
  <2>4. LocksStep(w) /\ RestOK
    BY <1>2, <2>1, <2>3, FreeStep DEF RestOK, Outside, IInv, TypeOK
  <2>5. t \in Thread /\ t.pc = "evictSend" /\ t.req = th[w].req /\ t.f = th[w].f
    BY <1>1, <1>2, ThreadFacts DEF Thread
  <2> HIDE DEF t
  <2>6. Moves(w, t)
    BY <1>1, <2>1, <2>5, ThreadFacts DEF Moves, LocalOK, PathLabels
  <2> QED BY <1>1, <2>1, <2>4, <2>5, <2>6, ThreadStep DEF MutexStep, HoldLabels
<1> QED BY <1>3, <1>4

LEMMA EvictEndStep ==
    ASSUME IInv, NEW w \in Workers, EvictEnd(w) PROVE IInv'
<1> DEFINE l == IF Op(w) = "WRITE" THEN "enqueue" ELSE "appendCopy"
<1>1. /\ th[w].pc = "evictSend" /\ th[w].f \in Files /\ mtxhash' = NONE
      /\ Goto(w, l) /\ UNCHANGED <<Hash, fifo, actual_size, files, Outside>>
  BY ThreadFacts DEF EvictEnd, At, FileLabels
<1>2. l \in {"enqueue", "appendCopy"}
  OBVIOUS
<1> HIDE DEF l
<1>3. PICK t : t.pc = l /\ Moves(w, t)
  BY <1>1, <1>2, GotoMoves DEF Labels, PathLabels
<1>4. LocksStep(w) /\ RestOK
  BY <1>1, SameStore DEF RestOK, Outside, IInv, TypeOK
<1> QED BY <1>1, <1>2, <1>3, <1>4, ThreadStep DEF MutexStep, HoldLabels

LEMMA RemoveCheckStep ==
    ASSUME IInv, NEW w \in Workers, RemoveCheck(w) PROVE IInv'
<1>1. /\ th[w].pc = "file" /\ th[w].f \in Files /\ UNCHANGED <<Store, Outside>>
  BY OnFileFacts DEF RemoveCheck
<1>2. CASE Answer(w, "NOTLOCKED") \/ Answer(w, "NOTPERMISSION")
  BY <1>1, <1>2, AnswerMoves, QuietStep DEF Status
<1>3. CASE Goto(w, "removeBegin")
  <2>1. \E t : t.pc = "removeBegin" /\ Moves(w, t)
    BY <1>1, <1>3, GotoMoves DEF Labels, PathLabels
  <2> QED BY <1>1, <2>1, QuietStep DEF HoldLabels
<1> QED BY <1>2, <1>3 DEF RemoveCheck

LEMMA RemoveBeginStep ==
    ASSUME IInv, NEW w \in Workers, RemoveBegin(w) PROVE IInv'
<1> DEFINE t == [th[w] EXCEPT !.pc = "removeUnlink", !.tmp = actual_size]
<1>1. /\ th[w].pc = "removeBegin" /\ th[w].f \in Files /\ actual_size \in Int
      /\ mtxhash = NONE /\ mtxhash' = w /\ th' = [th EXCEPT ![w] = t]
      /\ UNCHANGED <<Hash, fifo, actual_size, files, Outside>>
  BY ThreadFacts DEF RemoveBegin, At, FileLabels, IInv, TypeOK
<1>2. t \in Thread /\ t.pc = "removeUnlink" /\ t.req = th[w].req /\ t.f = th[w].f
  BY <1>1, ThreadFacts DEF Thread, Labels
<1> HIDE DEF t
<1>3. Moves(w, t)
  BY <1>1, <1>2, ThreadFacts DEF Moves, LocalOK, PathLabels
<1>4. LocksStep(w) /\ RestOK
  BY <1>1, SameStore DEF RestOK, Outside, IInv, TypeOK
<1> QED BY <1>1, <1>3, <1>4, ThreadStep DEF MutexStep

LEMMA RemoveUnlinkStep ==
    ASSUME IInv, NEW w \in Workers, RemoveUnlink(w) PROVE IInv'
<1> DEFINE f == files[th[w].f]
<1>1. /\ th[w].pc = "removeUnlink" /\ th[w].f \in Files /\ f \in File
      /\ th[w].tmp \in Int
  BY ThreadFacts DEF RemoveUnlink, At, FileLabels, IInv, TypeOK, Thread
<1>2. CASE ~f.alive \/ ~h_deleteSafe(Hash, f.path)
  BY <1>2, UndefinedStep DEF RemoveUnlink
<1>3. CASE f.alive /\ h_deleteSafe(Hash, f.path)
  <2>1. /\ Hash' = h_delete(Hash, f.path) /\ mtxhash' = NONE
        /\ actual_size' = th[w].tmp - f.dim /\ Goto(w, "removeFifo")
        /\ UNCHANGED <<fifo, files, Outside>>
    BY <1>3 DEF RemoveUnlink
  <2>2. actual_size' \in Int
    BY <1>1, <2>1 DEF File
  <2>3. LocksStep(w) /\ RestOK
    BY <1>1, <1>3, <2>1, <2>2, HdeleteStep DEF RestOK, Outside, IInv, TypeOK
  <2>4. \E t : t.pc = "removeFifo" /\ Moves(w, t)
    BY <1>1, <2>1, GotoMoves DEF Labels, PathLabels
  <2> QED BY <1>1, <2>1, <2>3, <2>4, ThreadStep DEF MutexStep, HoldLabels
<1> QED BY <1>2, <1>3

LEMMA RemoveFifoStep ==
    ASSUME IInv, NEW w \in Workers, RemoveFifo(w) PROVE IInv'
<1> DEFINE f == files[th[w].f]
           defined == f.alive /\ f.cont # "wild" /\ deleteSafe(fifo)
<1>1. th[w].pc = "removeFifo" /\ th[w].f \in Files /\ fifo \in ListOf(Entry)
  BY ThreadFacts DEF RemoveFifo, At, FileLabels, IInv, TypeOK
<1>2. CASE ~defined
  BY <1>2, UndefinedStep DEF RemoveFifo
<1>3. CASE defined
  <2>1. /\ fifo' = delete(fifo, f.path) /\ files' = [files EXCEPT ![th[w].f] = NoFile]
        /\ Answer(w, "SUCCESS") /\ UNCHANGED <<Hash, actual_size, mtxhash, Outside>>
    BY <1>3 DEF RemoveFifo
  <2>2. fifo' \in ListOf(Entry) /\ Hash' \in Tables
    BY <1>1, <2>1, DeleteProperties DEF IInv, TypeOK
  <2>3. LocksStep(w) /\ RestOK
    BY <1>1, <2>1, <2>2, FreeStep DEF RestOK, Outside, IInv, TypeOK
  <2>4. \E t : Moves(w, t) /\ t.pc \notin HoldLabels
    BY <1>1, <2>1, AnswerMoves DEF Status
  <2> QED BY <2>1, <2>3, <2>4, ThreadStep DEF MutexStep
<1> QED BY <1>2, <1>3

LEMMA ReadNStep ==
    ASSUME IInv, NEW w \in Workers, ReadN(w) PROVE IInv'
<1>1. th[w].pc = "readFiles"
  BY DEF ReadN, At
<1>2. CASE Undefined("freed")
  BY <1>2, UndefinedStep
<1>3. CASE ~Undefined("freed")
  <2>1. /\ Answer(w, "EMPTY") \/ Answer(w, "SUCCESS")
        /\ UNCHANGED <<Store, Outside>>
    BY <1>3 DEF ReadN
  <2> QED BY <1>1, <2>1, AnswerMoves, QuietStep DEF Status
<1> QED BY <1>2, <1>3

LEMMA CloseBeginStep ==
    ASSUME IInv, NEW w \in Workers, CloseBegin(w) PROVE IInv'
<1>1. /\ th[w].pc = "closeBegin" /\ mtxcon' = w
      /\ Send(w, "SUCCESS", "closeWalk")
      /\ UNCHANGED <<Hash, fifo, actual_size, files, mtxhash, connected, requeued, fault>>
  BY DEF CloseBegin, At, Store
<1>2. PICK t : t.pc = "closeWalk" /\ Moves(w, t)
  BY <1>1, SendMoves DEF Status, FileLabels
<1>3. LocksStep(w) /\ RestOK
  BY <1>1, SameStore DEF RestOK, IInv, TypeOK
<1> QED BY <1>1, <1>2, <1>3, ThreadStep DEF MutexStep, HoldLabels

-----------------------------------------------------------------------------
(* relaselock(), and the steps between requests *)

LEMMA CloseWalkStep ==
    ASSUME IInv, NEW w \in Workers, CloseWalk(w) PROVE IInv'
<1> DEFINE t == [th[w] EXCEPT !.pc = "closing", !.todo = Stored(Hash)]
<1>1. /\ th[w].pc = "closeWalk" /\ mtxhash = NONE /\ mtxhash' = w
      /\ th' = [th EXCEPT ![w] = t]
      /\ UNCHANGED <<Hash, fifo, actual_size, files, Outside>>
  BY DEF CloseWalk, At
<1>2. Stored(Hash) \subseteq Files
  BY TableProperties DEF IInv, TypeOK
<1>3. /\ t \in Thread /\ t.pc = "closing" /\ t.req = th[w].req
      /\ t.todo = Stored(Hash)
  BY <1>2, ThreadFacts DEF Thread, Labels
<1> HIDE DEF t
<1>4. /\ th'[w] = t /\ \A v \in Workers \ {w} : th'[v] = th[v]
      /\ th' \in [Workers -> Thread]
  BY <1>1, <1>3 DEF IInv, TypeOK
<1>5. TypeOK' /\ Named'
  BY <1>1, <1>4 DEF IInv, TypeOK, Named, Outside
<1>6. ThreadsOK'
  BY <1>1, <1>3, <1>4, ThreadFacts DEF IInv, ThreadsOK, LocalOK, PathLabels, FileLabels
<1>7. Exclusive'
  BY <1>1, <1>4, NoneIsNoThread DEF IInv, Exclusive
<1>8. Busy(w) /\ \A v \in Workers : Busy(v)' => Busy(v) /\ Client(v)' = Client(v)
  BY <1>1, <1>3, <1>4 DEF Busy, PutBack, Client
<1>9. OneRequest'
  BY <1>1, <1>8 DEF IInv, OneRequest, Outside
<1>10. StillToRelease'
  BY <1>1, <1>3, <1>4 DEF IInv, StillToRelease, Client
<1>11. LocksOwned'
  BY <1>1 DEF IInv, LocksOwned, Outside
<1> QED BY <1>5, <1>6, <1>7, <1>9, <1>10, <1>11 DEF IInv

LEMMA CloseUnlockStep ==
    ASSUME IInv, NEW w \in Workers, NEW a \in Files, CloseUnlock(w, a) PROVE IInv'
<1> DEFINE l == IF files[a].fd = Client(w) THEN 0 ELSE files[a].lock
           g == [files[a] EXCEPT !.lock = l]
           t == [th[w] EXCEPT !.todo = @ \ {a}]
<1>1. th[w].pc = "closing" /\ files[a] \in File
  BY DEF CloseUnlock, At, IInv, TypeOK
<1>2. CASE ~files[a].alive
  BY <1>2, UndefinedStep DEF CloseUnlock
<1>3. CASE files[a].alive
  <2>1. /\ files' = [files EXCEPT ![a] = g] /\ th' = [th EXCEPT ![w] = t]
        /\ UNCHANGED <<Hash, fifo, actual_size, mtxhash, Outside>>
    BY <1>3 DEF CloseUnlock
  <2>2. l \in {0, 1} /\ (l = 1 => files[a].lock = 1 /\ files[a].fd # Client(w))
    BY <1>1 DEF File
  <2> HIDE DEF l
  <2>3. /\ g \in File /\ g.path = files[a].path /\ g.alive = files[a].alive
        /\ g.fd = files[a].fd /\ g.lock = l
    BY <1>1, <2>2 DEF File
  <2>4. /\ t \in Thread /\ t.pc = "closing" /\ t.req = th[w].req
        /\ t.todo = th[w].todo \ {a}
    BY <1>1, ThreadFacts DEF Thread
  <2> HIDE DEF t, g
  <2>5. /\ files' \in [Files -> File] /\ Named' /\ files'[a] = g
        /\ \A b \in Files \ {a} : files'[b] = files[b]
    BY <2>1, <2>3, FileUpdate
  <2>6. /\ th'[w] = t /\ \A v \in Workers \ {w} : th'[v] = th[v]
        /\ th' \in [Workers -> Thread]
    BY <2>1, <2>4 DEF IInv, TypeOK
  <2>7. TypeOK'
    BY <2>1, <2>5, <2>6 DEF IInv, TypeOK, Outside
  <2>8. ThreadsOK'
    BY <1>1, <2>4, <2>6, ThreadFacts DEF IInv, ThreadsOK, LocalOK, PathLabels, FileLabels
  <2>9. Exclusive'
    BY <1>1, <2>1, <2>4, <2>6 DEF IInv, Exclusive
  <2>10. \A v \in Workers : Client(v)' = Client(v) /\ (Busy(v)' => Busy(v))
    BY <1>1, <2>4, <2>6 DEF Busy, PutBack, Client
  <2>11. OneRequest'
    BY <2>1, <2>10 DEF IInv, OneRequest, Outside
  <2>12. Stored(Hash) \subseteq Files /\ Hash' = Hash
    BY <2>1, TableProperties DEF IInv, TypeOK
  <2>13. \A b \in Stored(Hash) : files'[b].lock = 1 =>
           /\ files[b].lock = 1 /\ files'[b].fd = files[b].fd
           /\ files[b].fd = Client(w) => b # a
    BY <2>2, <2>3, <2>5, <2>12
  <2>14. StillToRelease'
    <3> SUFFICES ASSUME NEW v \in Workers, th'[v].pc = "closing",
                        NEW b \in Stored(Hash),
                        files'[b].lock = 1, files'[b].fd = Client(v)'
                 PROVE  b \in th'[v].todo
      BY <2>12 DEF StillToRelease
    <3>1. th[v].pc = "closing" /\ files[b].lock = 1 /\ files[b].fd = Client(v)
      BY <1>1, <2>6, <2>10, <2>13
    <3>2. b \in th[v].todo
      BY <3>1 DEF IInv, StillToRelease
    <3>3. CASE v = w
      BY <2>4, <2>6, <2>13, <3>1, <3>2, <3>3
    <3>4. CASE v # w
      BY <2>6, <3>2, <3>4
    <3> QED BY <3>3, <3>4
  <2>15. LocksOwned'
    BY <2>1, <2>12, <2>13 DEF IInv, LocksOwned, Outside
  <2> QED BY <2>5, <2>7, <2>8, <2>9, <2>11, <2>14, <2>15 DEF IInv
<1> QED BY <1>2, <1>3

LEMMA IdleFacts == Idle \in Thread /\ LocalOK(Idle) /\ Idle.pc = "idle"
<1>1. <<>> \in Seq(Files) /\ <<>> \in Seq(Status)
  BY EmptySeq
<1>2. Idle \in Thread /\ Idle.pc = "idle"
  BY <1>1 DEF Idle, Thread, Labels
<1> QED BY <1>2 DEF LocalOK, PathLabels, FileLabels

LEMMA CloseEndStep ==
    ASSUME IInv, NEW w \in Workers, CloseEnd(w) PROVE IInv'
<1>1. /\ th[w].pc = "closing" /\ th[w].todo = {}
      /\ mtxhash' = NONE /\ mtxcon' = NONE
      /\ connected' = connected \ {Client(w)} /\ th' = [th EXCEPT ![w] = Idle]
      /\ UNCHANGED <<Hash, fifo, actual_size, files, requeued, fault>>
  BY DEF CloseEnd, At
<1>2. /\ th'[w] = Idle /\ \A v \in Workers \ {w} : th'[v] = th[v]
      /\ th' \in [Workers -> Thread]
  BY <1>1, IdleFacts DEF IInv, TypeOK
<1>3. TypeOK' /\ Named'
  BY <1>1, <1>2 DEF IInv, TypeOK, Named
<1>4. ThreadsOK'
  BY <1>2, IdleFacts DEF IInv, ThreadsOK
<1>5. \A v \in Workers \ {w} : th[v].pc \notin HoldLabels
  BY <1>1 DEF IInv, Exclusive, HoldLabels
<1>6. Exclusive' /\ StillToRelease'
  <2>1. \A v \in Workers : th'[v].pc \notin HoldLabels
    BY <1>2, <1>5, IdleFacts DEF HoldLabels
  <2> QED BY <2>1 DEF Exclusive, StillToRelease, HoldLabels
<1>7. Busy(w) /\ \A v \in Workers : Busy(v)' => v # w /\ Busy(v) /\ Client(v)' = Client(v)
  BY <1>1, <1>2, IdleFacts DEF Busy, PutBack, Client
<1>8. OneRequest'
  BY <1>1, <1>7 DEF IInv, OneRequest
<1>9. LocksOwned'
  BY <1>1 DEF IInv, LocksOwned, StillToRelease
<1> QED BY <1>3, <1>4, <1>6, <1>8, <1>9 DEF IInv

LEMMA FinishStep ==
    ASSUME IInv, NEW w \in Workers, Finish(w) PROVE IInv'
<1>1. /\ th[w].pc = "finish" /\ th' = [th EXCEPT ![w] = Idle]
      /\ UNCHANGED <<Store, Outside>>
  BY DEF Finish, At
<1>2. /\ th'[w] = Idle /\ \A v \in Workers \ {w} : th'[v] = th[v]
      /\ th' \in [Workers -> Thread]
  BY <1>1, IdleFacts DEF IInv, TypeOK
<1>3. TypeOK' /\ Named' /\ ThreadsOK'
  BY <1>1, <1>2, IdleFacts DEF IInv, TypeOK, Named, ThreadsOK, Store, Outside
<1>4. Exclusive' /\ StillToRelease' /\ LocksOwned'
  BY <1>1, <1>2, IdleFacts
     DEF IInv, Exclusive, HoldLabels, StillToRelease, LocksOwned, Client, Store, Outside
<1>5. \A v \in Workers : Busy(v)' => Busy(v) /\ Client(v)' = Client(v)
  BY <1>2, IdleFacts DEF Busy, PutBack, Client
<1>6. OneRequest'
  BY <1>1, <1>5 DEF IInv, OneRequest, Outside
<1> QED BY <1>3, <1>4, <1>6 DEF IInv

\* A thread takes a request of a client that no other thread serves.
LEMMA BeginStep ==
    ASSUME IInv, NEW w \in Workers, th[w].pc = "idle", NEW r \in Request,
           r.op \in Ops \ WithoutPath => r.path \in Paths,
           r.fd \in connected,
           \A v \in Workers : Busy(v) => Client(v) # r.fd,
           requeued' \subseteq requeued, \A q \in requeued' : q.fd # r.fd,
           Begin(w, r), UNCHANGED <<Store, mtxcon, connected, fault>>
    PROVE  IInv'
<1> DEFINE t == [th[w] EXCEPT !.pc = Entrypoint(r.op), !.req = r]
<1>1. th[w] = Idle /\ th' = [th EXCEPT ![w] = t]
  BY ThreadFacts DEF LocalOK, Begin
<1>2. /\ Entrypoint(r.op) \in {"check", "lookup", "readFiles", "closeBegin"}
      /\ Entrypoint(r.op) \in {"check", "lookup"} => r.op \notin WithoutPath
  BY DEF Entrypoint, WithoutPath
<1>3. r.op \in Ops
  BY DEF Request
<1>4. /\ t \in Thread /\ t.pc = Entrypoint(r.op) /\ t.req = r /\ t.answer = <<>>
  <2>1. Entrypoint(r.op) \in Labels
    BY <1>2 DEF Labels
  <2>2. th[w] \in Thread /\ th[w].answer = <<>>
    BY <1>1, IdleFacts DEF Idle
  <2> QED BY <2>1, <2>2 DEF Thread
<1> HIDE DEF t
<1>5. LocalOK(t)
  BY <1>2, <1>3, <1>4 DEF LocalOK, PathLabels, FileLabels
<1>6. /\ th'[w] = t /\ \A v \in Workers \ {w} : th'[v] = th[v]
      /\ th' \in [Workers -> Thread]
  BY <1>1, <1>4 DEF IInv, TypeOK
<1>7. TypeOK' /\ Named' /\ ThreadsOK'
  BY <1>5, <1>6 DEF IInv, TypeOK, Named, ThreadsOK, Store
<1>8. Exclusive' /\ StillToRelease' /\ LocksOwned'
  BY <1>2, <1>4, <1>6
     DEF IInv, Exclusive, HoldLabels, StillToRelease, LocksOwned, Client, Store
<1>9. /\ Client(w)' = r.fd
      /\ \A v \in Workers \ {w} : Busy(v)' = Busy(v) /\ Client(v)' = Client(v)
  BY <1>4, <1>6 DEF Busy, PutBack, Client
<1>10. OneRequest'
  BY <1>9 DEF IInv, OneRequest
<1> QED BY <1>7, <1>8, <1>10 DEF IInv

\* What a client sends is a request.
LEMMA RequestsAreTyped ==
    ASSUME NEW c \in Clients, NEW r \in Requests(c)
    PROVE  r \in Request /\ (r.op \in Ops \ WithoutPath => r.path \in Paths)
<1>1. CASE r \in [op : Ops \cap WithContent, path : Paths, size : Sizes, fd : {c}]
  BY <1>1, WorkersAssumption DEF Request
<1>2. CASE r \in [op : Ops \ (WithContent \cup WithoutPath), path : Paths,
                  size : {0}, fd : {c}]
  BY <1>2 DEF Request
<1>3. CASE \/ r \in [op : Ops \cap {"READN"}, path : {NONE}, size : {0, 1}, fd : {c}]
           \/ r \in [op : Ops \cap {"CLOSECONNECTION"}, path : {NONE}, size : {0},
                     fd : {c}]
  BY <1>3 DEF Request, WithoutPath
<1> QED BY <1>1, <1>2, <1>3 DEF Requests

LEMMA TakeStep ==
    ASSUME IInv, NEW w \in Workers, NEW c \in Clients, NEW r \in Requests(c),
           Take(w, r)
    PROVE  IInv'
<1>1. r \in Request /\ (r.op \in Ops \ WithoutPath => r.path \in Paths)
  BY RequestsAreTyped
<1>2. /\ th[w].pc = "idle" /\ r.fd \in connected /\ ~Waiting(r.fd)
      /\ Begin(w, r) /\ UNCHANGED <<Store, Outside>>
  BY DEF Take, At
<1>3. \A v \in Workers : Busy(v) => Client(v) # r.fd
  BY <1>2 DEF Waiting, Busy
<1>4. \A q \in requeued : q.fd # r.fd
  BY <1>2 DEF Waiting
<1> QED BY <1>1, <1>2, <1>3, <1>4, BeginStep DEF Outside

LEMMA TakeRequeuedStep ==
    ASSUME IInv, NEW w \in Workers, NEW r \in requeued, TakeRequeued(w, r)
    PROVE  IInv'
<1>1. r \in Request /\ r.path \in Paths /\ r.fd \in connected
  BY DEF IInv, TypeOK, OneRequest
<1>2. \A v \in Workers : Busy(v) => Client(v) # r.fd
  BY DEF IInv, OneRequest
<1>3. \A q \in requeued \ {r} : q.fd # r.fd
  BY DEF IInv, OneRequest
<1> QED BY <1>1, <1>2, <1>3, BeginStep DEF TakeRequeued, At

LEMMA AcceptStep ==
    ASSUME IInv, NEW c \in Clients, Accept(c) PROVE IInv'
<1>1. /\ connected' = connected \cup {c}
      /\ UNCHANGED <<Store, mtxcon, requeued, th, fault>>
  BY DEF Accept
<1> QED BY <1>1 DEF IInv, TypeOK, ThreadsOK, Named, Exclusive, OneRequest, Busy,
                   PutBack, Client, StillToRelease, LocksOwned, Store

LEMMA StutteringStep == ASSUME IInv, UNCHANGED vars PROVE IInv'
BY DEF IInv, TypeOK, ThreadsOK, Named, Exclusive, OneRequest, Busy, PutBack,
       Client, StillToRelease, LocksOwned, vars

-----------------------------------------------------------------------------

LEMMA InitIInv == ASSUME Init PROVE IInv
<1>1. EmptyList \in ListOf(Entry)
  BY EmptySeq DEF EmptyList, ListOf
<1>2. NoFile \in File /\ NoFile.alive = FALSE
  BY DEF NoFile, File
<1>3. \A w \in Workers : th[w] = Idle
  BY DEF Init
<1>4. TypeOK
  BY <1>1, <1>2, CreateProperties, IdleFacts DEF Init, TypeOK
<1>5. ThreadsOK /\ Named
  BY <1>2, <1>3, IdleFacts DEF Init, ThreadsOK, Named
<1>6. Exclusive /\ StillToRelease
  BY <1>3, IdleFacts DEF Exclusive, HoldLabels, StillToRelease
<1>7. OneRequest
  BY <1>3, IdleFacts DEF Init, OneRequest, Busy
<1>8. LocksOwned
  BY CreateProperties DEF Init, LocksOwned
<1> QED BY <1>4, <1>5, <1>6, <1>7, <1>8 DEF IInv

LEMMA ServeStep == ASSUME IInv, NEW w \in Workers, Serve(w) PROVE IInv'
<1>1. CASE CreateCheck(w) \/ CreateInsert(w) \/ ExpelHead(w) \/ UnlinkExpelled(w)
  BY <1>1, CreateCheckStep, CreateInsertStep, ExpelHeadStep, UnlinkExpelledStep
<1>2. CASE Lookup(w) \/ AccountAppend(w) \/ FileIsGone(w) \/ OpenFile(w)
           \/ OpenLock(w) \/ Locks(w) \/ Unlocks(w) \/ Close(w)
  BY <1>2, LookupStep, AccountAppendStep, FileIsGoneStep, OpenFileStep,
     OpenLockStep, LocksRequestStep, UnlocksStep, CloseStep
<1>3. CASE Read(w) \/ Write(w) \/ AccountRead(w) \/ Account(w) \/ CheckSpace(w)
           \/ Enqueue(w) \/ AppendBegin(w) \/ AppendCopy(w)
  BY <1>3, ReadStep, WriteStep, AccountReadStep, AccountStep, CheckSpaceStep,
     EnqueueStep, AppendBeginStep, AppendCopyStep
<1>4. CASE EvictBegin(w) \/ EvictTake(w) \/ EvictAccount(w) \/ EvictEnough(w)
           \/ EvictSend(w) \/ EvictEnd(w)
  BY <1>4, EvictBeginStep, EvictTakeStep, EvictAccountStep, EvictEnoughStep,
     EvictSendStep, EvictEndStep
<1>5. CASE RemoveCheck(w) \/ RemoveBegin(w) \/ RemoveUnlink(w) \/ RemoveFifo(w)
           \/ ReadN(w)
  BY <1>5, RemoveCheckStep, RemoveBeginStep, RemoveUnlinkStep, RemoveFifoStep, ReadNStep
<1>6. CASE CloseBegin(w) \/ CloseWalk(w) \/ (\E a \in Files : CloseUnlock(w, a))
           \/ CloseEnd(w) \/ Finish(w)
  BY <1>6, CloseBeginStep, CloseWalkStep, CloseUnlockStep, CloseEndStep, FinishStep
<1> QED BY <1>1, <1>2, <1>3, <1>4, <1>5, <1>6 DEF Serve

\* In every reachable state, for any number of threads, clients and files, the
\* labels, the holder of mtxhash, the requests in service or put back, and the
\* locks on the stored files are as IInv says.
THEOREM Invariance == Spec => []IInv
<1>1. Init => IInv
  BY InitIInv
<1>2. IInv /\ [Next]_vars => IInv'
  <2> SUFFICES ASSUME IInv, [Next]_vars PROVE IInv'
    OBVIOUS
  <2>1. ASSUME NEW c \in Clients, Accept(c) PROVE IInv'
    BY <2>1, AcceptStep
  <2>2. ASSUME NEW w \in Workers, NEW c \in Clients, NEW r \in Requests(c), Take(w, r)
        PROVE  IInv'
    BY <2>2, TakeStep
  <2>3. ASSUME NEW w \in Workers, NEW r \in requeued, TakeRequeued(w, r) PROVE IInv'
    BY <2>3, TakeRequeuedStep
  <2>4. ASSUME NEW w \in Workers, Serve(w) PROVE IInv'
    BY <2>4, ServeStep
  <2>5. CASE UNCHANGED vars
    BY <2>5, StutteringStep
  <2>6. CASE Halted
    BY <2>6, StutteringStep DEF Halted
  <2> QED BY <2>1, <2>2, <2>3, <2>4, <2>5, <2>6 DEF Next
<1> QED BY <1>1, <1>2, PTL DEF Spec

\* The shared variables and the state of each thread are always well typed: in
\* particular every node of the table and of fifo is a path with a File.
THEOREM Typing == Spec => []TypeOK
<1>1. IInv => TypeOK
  BY DEF IInv
<1> QED BY <1>1, Invariance, PTL

\* relaselock() leaves no lock of a client behind that has gone, whatever the
\* other threads do to the table and the locks meanwhile: a stored file that is
\* locked is locked by a client that is connected.
THEOREM LocksAlwaysOwned == Spec => []LocksOwned
<1>1. IInv => LocksOwned
  BY DEF IInv
<1> QED BY <1>1, Invariance, PTL

-----------------------------------------------------------------------------
(* What the threads say and which mutexes they hold *)

WriteLabels == {"accountRead", "account", "checkSpace", "enqueue"}
AppendLabels == {"accountAppend", "appendCopy"}
EvictLabels == {"evictBegin", "evict", "evictAccount", "evictSend"}
WalkLabels == {"closeWalk", "closing"}
CloseLabels == {"closeBegin", "closeWalk", "closing"}

\* The labels of a thread that has sent its status.
SaidLabels == EvictLabels \cup WalkLabels \cup {"enqueue", "finish"}

\* Only the requests that have it in their code come to a label.
Serves(t) == /\ t.pc # "idle" => t.req.op \in Ops
             /\ t.pc \in WriteLabels => t.req.op = "WRITE"
             /\ t.pc \in AppendLabels => t.req.op = "APPEND"
             /\ t.pc \in EvictLabels => t.req.op \in WithContent
             /\ t.pc \in CloseLabels => t.req.op = "CLOSECONNECTION"

\* Before a thread has sent its status it has sent none, and then one: only a
\* LOCKS that is put back ends without.
Replied(t) ==
    /\ t.pc \notin SaidLabels => t.answer = <<>>
    /\ t.pc \in SaidLabels => \/ Len(t.answer) = 1
                              \/ /\ t.pc = "finish" /\ t.answer = <<>>
                                 /\ t.req.op = "LOCKS"

\* A mutex is held by a thread whose label says so.
Holders == /\ mtxhash # NONE => th[mtxhash].pc \in HoldLabels
           /\ mtxcon # NONE => th[mtxcon].pc \in WalkLabels

\* Between two steps no mtxf is held: only APPEND keeps one.
NotHeld == \A a \in Files : files[a].mtxf = NONE

OInv == /\ \A w \in Workers : Serves(th[w])
        /\ Holders
        /\ "APPEND" \notin Ops => NotHeld /\ \A w \in Workers : Replied(th[w])

-----------------------------------------------------------------------------

HolderStep(w, l) ==
    /\ \/ mtxhash' = mtxhash /\ (th[w].pc \in HoldLabels => l \in HoldLabels)
       \/ mtxhash' = w /\ l \in HoldLabels
       \/ mtxhash' = NONE
    /\ \/ mtxcon' = mtxcon /\ (th[w].pc \in WalkLabels => l \in WalkLabels)
       \/ mtxcon' = w /\ l \in WalkLabels
       \/ mtxcon' = NONE

\* A step of one thread keeps OInv if the thread's new state serves its request
\* and has sent what its label says, and its mutexes go with its labels.
LEMMA ProtocolStep ==
    ASSUME IInv, OInv, NEW w \in Workers, NEW t, th' = [th EXCEPT ![w] = t],
           Serves(t), "APPEND" \notin Ops => NotHeld' /\ Replied(t),
           HolderStep(w, t.pc)
    PROVE  OInv'
<1>1. th'[w] = t /\ \A v \in Workers \ {w} : th'[v] = th[v]
  BY DEF IInv, TypeOK
<1>2. \A v \in Workers : Serves(th'[v])
  BY <1>1 DEF OInv
<1>3. "APPEND" \notin Ops => \A v \in Workers : Replied(th'[v])
  BY <1>1 DEF OInv
<1>4. mtxhash \in Workers \cup {NONE} /\ mtxcon \in Workers \cup {NONE}
  BY DEF IInv, TypeOK
<1>5. Holders'
  BY <1>1, <1>4, NoneIsNoThread DEF OInv, Holders, HolderStep
<1> QED BY <1>2, <1>3, <1>5 DEF OInv

\* What the invariant says of the thread that moves.
LEMMA ProtocolFacts ==
    ASSUME IInv, OInv, NEW w \in Workers
    PROVE  /\ th[w] \in Thread /\ Serves(th[w])
           /\ "APPEND" \notin Ops => Replied(th[w])
BY DEF IInv, TypeOK, OInv

\* A thread that goes on with its request, and sends nothing.
LEMMA SilentStep ==
    ASSUME IInv, OInv, NEW w \in Workers, NEW t, th' = [th EXCEPT ![w] = t],
           t.req = th[w].req, t.answer = th[w].answer,
           th[w].pc \notin {"idle", "finish"}, t.pc # "idle",
           t.pc \in WriteLabels => Op(w) = "WRITE",
           t.pc \in AppendLabels => Op(w) = "APPEND",
           t.pc \in EvictLabels => Op(w) \in WithContent,
           t.pc \in CloseLabels => Op(w) = "CLOSECONNECTION",
           "APPEND" \notin Ops =>
               /\ NotHeld'
               /\ t.pc \in SaidLabels <=> th[w].pc \in SaidLabels,
           HolderStep(w, t.pc)
    PROVE  OInv'
<1>1. Serves(th[w]) /\ ("APPEND" \notin Ops => Replied(th[w]))
  BY ProtocolFacts
<1>2. Serves(t)
  BY <1>1 DEF Serves, Op
<1>3. "APPEND" \notin Ops => Replied(t)
  BY <1>1 DEF Replied
<1> QED BY <1>2, <1>3, ProtocolStep

\* A thread that only goes to another label.
LEMMA GoesOn ==
    ASSUME IInv, OInv, NEW w \in Workers, NEW l, Goto(w, l),
           th[w].pc \notin {"idle", "finish"}, l # "idle",
           l \in WriteLabels => Op(w) = "WRITE",
           l \in AppendLabels => Op(w) = "APPEND",
           l \in EvictLabels => Op(w) \in WithContent,
           l \in CloseLabels => Op(w) = "CLOSECONNECTION",
           "APPEND" \notin Ops =>
               /\ NotHeld'
               /\ l \in SaidLabels <=> th[w].pc \in SaidLabels,
           HolderStep(w, l)
    PROVE  OInv'
<1> DEFINE t == [th[w] EXCEPT !.pc = l]
<1>1. /\ th' = [th EXCEPT ![w] = t] /\ t.pc = l /\ t.req = th[w].req
      /\ t.answer = th[w].answer
  BY ProtocolFacts DEF Goto, Thread
<1> HIDE DEF t
<1> QED BY <1>1, SilentStep

\* A thread that sends its status.
LEMMA StatusStep ==
    ASSUME IInv, OInv, NEW w \in Workers, NEW s,
           NEW l \in {"finish", "enqueue", "evictBegin", "closeWalk"}, Send(w, s, l),
           th[w].pc # "idle",
           l = "enqueue" => Op(w) = "WRITE",
           l = "evictBegin" => Op(w) \in WithContent,
           l = "closeWalk" => Op(w) = "CLOSECONNECTION",
           "APPEND" \notin Ops => NotHeld' /\ th[w].pc \notin SaidLabels,
           HolderStep(w, l)
    PROVE  OInv'
<1> DEFINE t == [th[w] EXCEPT !.pc = l, !.answer = Append(@, s)]
<1>1. /\ th[w] \in Thread /\ Serves(th[w])
      /\ "APPEND" \notin Ops => Replied(th[w])
  BY ProtocolFacts
<1>2. th' = [th EXCEPT ![w] = t]
  BY DEF Send
<1>3. /\ t.pc = l /\ t.req = th[w].req
      /\ t.answer = Append(th[w].answer, s)
  BY <1>1 DEF Thread
<1> HIDE DEF t
<1>4. Serves(t)
  BY <1>1, <1>3 DEF Serves, Op, WriteLabels, AppendLabels, EvictLabels, CloseLabels
<1>5. ASSUME "APPEND" \notin Ops PROVE Replied(t)
  <2>1. th[w].answer = <<>>
    BY <1>1, <1>5 DEF Replied
  <2>2. Len(t.answer) = 1
    BY <1>3, <2>1
  <2>3. l \in SaidLabels
    BY DEF SaidLabels, EvictLabels, WalkLabels
  <2> QED BY <1>3, <2>2, <2>3 DEF Replied
<1> QED BY <1>2, <1>3, <1>4, <1>5, ProtocolStep

-----------------------------------------------------------------------------
(* The actions of a thread *)

\* Undefined behaviour stops everything where it is.
LEMMA HaltStep == ASSUME OInv, NEW k, Undefined(k) PROVE OInv'
BY DEF OInv, Holders, NotHeld, Undefined

\* The answer is the last thing a thread does that holds no mutex.
LEMMA AnswerStep ==
    ASSUME IInv, OInv, NEW w \in Workers, NEW s, Answer(w, s),
           th[w].pc \notin SaidLabels \cup HoldLabels \cup {"idle"},
           UNCHANGED <<mtxhash, mtxcon>>, "APPEND" \notin Ops => NotHeld'
    PROVE  OInv'
<1>1. HolderStep(w, "finish")
  BY DEF HolderStep, SaidLabels
<1> QED BY <1>1, StatusStep DEF Answer

\* No mtxf is taken by a step that leaves the files alone.
LEMMA SameFiles ==
    ASSUME OInv, UNCHANGED files PROVE "APPEND" \notin Ops => NotHeld'
BY DEF OInv, NotHeld

\* A File is given a new value, and is not left locked.
LEMMA OneFile ==
    ASSUME IInv, OInv, NEW a \in Files, NEW g, files' = [files EXCEPT ![a] = g],
           g.mtxf = NONE \/ g.mtxf = files[a].mtxf
    PROVE  "APPEND" \notin Ops => NotHeld'
BY DEF IInv, TypeOK, OInv, NotHeld

\* OPEN with O_CREATE, from the lookup to the file in the table.
LEMMA CreateProtocol ==
    ASSUME IInv, OInv, NEW w \in Workers,
           CreateCheck(w) \/ CreateInsert(w) \/ ExpelHead(w) \/ UnlinkExpelled(w)
    PROVE  OInv'
<1>1. th[w] \in Thread
  BY ProtocolFacts
<1>2. CASE CreateCheck(w)
  <2>1. th[w].pc = "check"
    BY <1>2 DEF CreateCheck, At
  <2>2. CASE Undefined("freed")
    BY <2>2, HaltStep
  <2>3. CASE Answer(w, "YESCONTAIN") /\ UNCHANGED <<Store, Outside>>
    BY <2>1, <2>3, AnswerStep, SameFiles
       DEF SaidLabels, EvictLabels, WalkLabels, HoldLabels, Store, Outside
  <2>4. ASSUME NEW l \in {"create", "createFull"}, Goto(w, l),
               UNCHANGED <<Store, Outside>>
        PROVE  OInv'
    <3>1. HolderStep(w, l) /\ ("APPEND" \notin Ops => NotHeld')
      BY <2>1, <2>4, SameFiles DEF HolderStep, HoldLabels, WalkLabels, Store, Outside
    <3> QED
      BY <2>1, <2>4, <3>1, GoesOn
         DEF WriteLabels, AppendLabels, EvictLabels, WalkLabels, CloseLabels, SaidLabels
  <2> QED BY <1>2, <2>2, <2>3, <2>4 DEF CreateCheck
<1>3. CASE CreateInsert(w)
  <2>1. /\ th[w].pc \in {"create", "createFull"} /\ UNCHANGED <<mtxhash, mtxcon>>
        /\ IF th[w].pc = "create" THEN Answer(w, "SUCCESS") ELSE Goto(w, "expel")
    BY <1>3 DEF CreateInsert, At, Outside
  <2>2. "APPEND" \notin Ops => NotHeld'
    <3>1. PICK a \in Fresh, d \in Uninit, c \in {"null", "wild"} :
            files' = [files EXCEPT ![a] =
                        Created(Path(w), Client(w),
                                IF Op(w) = "O_CRLK" THEN 1 ELSE 0, d, c)]
      BY <1>3 DEF CreateInsert
    <3>2. \A p, q, l : Created(p, q, l, d, c).mtxf = NONE
      BY DEF Created
    <3> QED BY <3>1, <3>2, OneFile DEF Fresh
  <2>3. CASE th[w].pc = "create"
    BY <2>1, <2>2, <2>3, AnswerStep DEF SaidLabels, EvictLabels, WalkLabels, HoldLabels
  <2>4. CASE th[w].pc = "createFull"
    <3>1. HolderStep(w, "expel")
      BY <2>1, <2>4 DEF HolderStep, HoldLabels, WalkLabels
    <3> QED
      BY <2>1, <2>2, <2>4, <3>1, GoesOn
         DEF WriteLabels, AppendLabels, EvictLabels, WalkLabels, CloseLabels, SaidLabels
  <2> QED BY <2>1, <2>3, <2>4
<1>4. CASE ExpelHead(w)
  <2>1. CASE ~takeHeadSafe(fifo)
    BY <1>4, <2>1, HaltStep DEF ExpelHead
  <2>2. CASE takeHeadSafe(fifo)
    <3> DEFINE t == [th[w] EXCEPT !.pc = "unlinkExpelled", !.f = Head(fifo.nodes).cont]
    <3>1. /\ th[w].pc = "expel" /\ th' = [th EXCEPT ![w] = t]
          /\ UNCHANGED <<Hash, actual_size, files, mtxhash, Outside>>
      BY <1>4, <2>2 DEF ExpelHead, At
    <3>2. t.pc = "unlinkExpelled" /\ t.req = th[w].req /\ t.answer = th[w].answer
      BY <1>1 DEF Thread
    <3> HIDE DEF t
    <3>3. HolderStep(w, t.pc) /\ ("APPEND" \notin Ops => NotHeld')
      BY <3>1, <3>2, SameFiles DEF HolderStep, HoldLabels, WalkLabels, Outside
    <3> QED
      BY <3>1, <3>2, <3>3, SilentStep
         DEF WriteLabels, AppendLabels, EvictLabels, WalkLabels, CloseLabels, SaidLabels
  <2> QED BY <2>1, <2>2
<1>5. CASE UnlinkExpelled(w)
  <2>1. th[w].pc = "unlinkExpelled"
    BY <1>5 DEF UnlinkExpelled, At
  <2>2. CASE Undefined("freed") \/ Undefined("null")
    BY <2>2, HaltStep
  <2>3. CASE Answer(w, "TOMUCHFILE") /\ UNCHANGED <<fifo, actual_size, files, mtxhash, Outside>>
    BY <2>1, <2>3, AnswerStep, SameFiles
       DEF SaidLabels, EvictLabels, WalkLabels, HoldLabels, Outside
  <2> QED BY <1>5, <2>2, <2>3 DEF UnlinkExpelled
<1> QED BY <1>2, <1>3, <1>4, <1>5

\* The lookup of a request on a file, and its two ways to fail.
LEMMA LookupProtocol ==
    ASSUME IInv, OInv, NEW w \in Workers,
           Lookup(w) \/ AccountAppend(w) \/ FileIsGone(w)
    PROVE  OInv'
<1>1. th[w] \in Thread
  BY ProtocolFacts
<1>2. CASE Lookup(w)
  <2>1. th[w].pc = "lookup"
    BY <1>2 DEF Lookup, At
  <2>2. CASE Undefined("freed")
    BY <2>2, HaltStep
  <2>3. CASE Answer(w, "NOTPRESENT") /\ UNCHANGED <<Store, Outside>>
    BY <2>1, <2>3, AnswerStep, SameFiles
       DEF SaidLabels, EvictLabels, WalkLabels, HoldLabels, Store, Outside
  <2>4. ASSUME UNCHANGED <<Hash, fifo, actual_size, files, Outside>>,
               Op(w) = "APPEND", mtxhash' = w,
               th' = [th EXCEPT ![w].pc = "accountAppend",
                                ![w].f = getvalue(Hash, Path(w)),
                                ![w].tmp = actual_size]
        PROVE  OInv'
    <3> DEFINE t == [th[w] EXCEPT !.pc = "accountAppend",
                                  !.f = getvalue(Hash, Path(w)), !.tmp = actual_size]
    <3>1. /\ th' = [th EXCEPT ![w] = t] /\ t.pc = "accountAppend"
          /\ t.req = th[w].req /\ t.answer = th[w].answer
      BY <1>1, <2>4 DEF Thread
    <3> HIDE DEF t
    <3>2. HolderStep(w, t.pc) /\ ("APPEND" \notin Ops => NotHeld')
      BY <2>1, <2>4, <3>1, SameFiles DEF HolderStep, HoldLabels, WalkLabels, Outside
    <3> QED
      BY <2>1, <2>4, <3>1, <3>2, SilentStep
         DEF WriteLabels, AppendLabels, EvictLabels, WalkLabels, CloseLabels, SaidLabels
  <2>5. ASSUME UNCHANGED <<Hash, fifo, actual_size, files, mtxhash, Outside>>,
               GotoWith(w, "file", getvalue(Hash, Path(w)))
        PROVE  OInv'
    <3> DEFINE t == [th[w] EXCEPT !.pc = "file", !.f = getvalue(Hash, Path(w))]
    <3>1. /\ th' = [th EXCEPT ![w] = t] /\ t.pc = "file"
          /\ t.req = th[w].req /\ t.answer = th[w].answer
      BY <1>1, <2>5 DEF GotoWith, Thread
    <3> HIDE DEF t
    <3>2. HolderStep(w, t.pc) /\ ("APPEND" \notin Ops => NotHeld')
      BY <2>1, <2>5, <3>1, SameFiles DEF HolderStep, HoldLabels, WalkLabels, Outside
    <3> QED
      BY <2>1, <2>5, <3>1, <3>2, SilentStep
         DEF WriteLabels, AppendLabels, EvictLabels, WalkLabels, CloseLabels, SaidLabels
  <2> QED BY <1>2, <2>2, <2>3, <2>4, <2>5 DEF Lookup
<1>3. CASE AccountAppend(w)
  <2>1. /\ th[w].pc = "accountAppend" /\ mtxhash' = NONE /\ Goto(w, "file")
        /\ UNCHANGED <<Hash, fifo, files, Outside>>
    BY <1>3 DEF AccountAppend, At
  <2>2. HolderStep(w, "file") /\ ("APPEND" \notin Ops => NotHeld')
    BY <2>1, SameFiles DEF HolderStep, HoldLabels, WalkLabels, Outside
  <2> QED
    BY <2>1, <2>2, GoesOn
       DEF WriteLabels, AppendLabels, EvictLabels, WalkLabels, CloseLabels, SaidLabels
<1>4. CASE FileIsGone(w)
  BY <1>4, HaltStep DEF FileIsGone
<1> QED BY <1>2, <1>3, <1>4

\* The critical sections on one file.
LEMMA FileProtocol ==
    ASSUME IInv, OInv, NEW w \in Workers,
           \/ OpenFile(w) \/ OpenLock(w) \/ Locks(w) \/ Unlocks(w) \/ Close(w)
           \/ Read(w) \/ Write(w) \/ AppendBegin(w) \/ RemoveCheck(w)
    PROVE  OInv'
<1> DEFINE f == files[th[w].f]
<1>1. /\ th[w].pc = "file" /\ th[w].f \in Files /\ f \in File
      /\ UNCHANGED <<mtxhash, mtxcon>> /\ files \in [Files -> File]
  BY OnFileFacts
     DEF OpenFile, OpenLock, Locks, Unlocks, Close, Read, Write, AppendBegin,
         RemoveCheck, Store, Outside, IInv, TypeOK
<1>2. \A s : Answer(w, s) /\ ("APPEND" \notin Ops => NotHeld') => OInv'
  BY <1>1, AnswerStep DEF SaidLabels, EvictLabels, WalkLabels, HoldLabels
<1>3. ASSUME "APPEND" \notin Ops, ~AppendBegin(w) PROVE NotHeld'
  <2>1. \A b \in Files : files'[b].mtxf = files[b].mtxf
    <3>1. CASE UNCHANGED files
      BY <3>1
    <3>2. ASSUME NEW g, g.mtxf = f.mtxf, files' = [files EXCEPT ![th[w].f] = g]
          PROVE  \A b \in Files : files'[b].mtxf = files[b].mtxf
      BY <1>1, <3>2
    <3>3. CASE OpenFile(w) \/ Close(w)
      <4>1. PICK i \in {0, 1} : files' = [files EXCEPT ![th[w].f] = [f EXCEPT !.isopen = i]]
        BY <3>3 DEF OpenFile, Close
      <4>2. [f EXCEPT !.isopen = i].mtxf = f.mtxf
        BY <1>1 DEF File
      <4> QED BY <3>2, <4>1, <4>2
    <3>4. CASE OpenLock(w)
      <4> DEFINE g == [f EXCEPT !.isopen = 1, !.lock = 1, !.fd = Client(w)]
      <4>1. files' = [files EXCEPT ![th[w].f] = g] /\ g.mtxf = f.mtxf
        BY <1>1, <3>4 DEF OpenLock, File
      <4> QED BY <3>2, <4>1
    <3>5. CASE Locks(w)
      <4> DEFINE g == [f EXCEPT !.lock = 1, !.fd = Client(w)]
      <4>1. g.mtxf = f.mtxf
        BY <1>1 DEF File
      <4>2. UNCHANGED files \/ files' = [files EXCEPT ![th[w].f] = g]
        BY <1>1, <3>5 DEF Locks
      <4> QED BY <3>2, <4>1, <4>2
    <3>6. CASE Unlocks(w)
      <4> DEFINE g == [f EXCEPT !.lock = 0]
      <4>1. g.mtxf = f.mtxf /\ (UNCHANGED files \/ files' = [files EXCEPT ![th[w].f] = g])
        BY <1>1, <3>6 DEF Unlocks, File
      <4> QED BY <3>2, <4>1
    <3>7. CASE Write(w)
      <4> DEFINE g == [f EXCEPT !.dim = th[w].req.size, !.cont = "buffer"]
      <4>1. g.mtxf = f.mtxf
        BY <1>1 DEF File
      <4>2. UNCHANGED files \/ files' = [files EXCEPT ![th[w].f] = g]
        BY <1>1, <3>7 DEF Write
      <4> QED BY <3>2, <4>1, <4>2
    <3>8. CASE Read(w) \/ RemoveCheck(w)
      BY <3>8 DEF Read, RemoveCheck, Store
    <3> QED BY <1>3, <3>3, <3>4, <3>5, <3>6, <3>7, <3>8
  <2> QED BY <1>3, <2>1 DEF OInv, NotHeld
<1>4. CASE OpenFile(w) \/ OpenLock(w) \/ Unlocks(w) \/ Close(w) \/ Read(w)
  <2>1. (\E s : Answer(w, s)) /\ (AppendBegin(w) => "APPEND" \in Ops)
    <3>1. \E s : Answer(w, s)
      BY <1>4 DEF OpenFile, OpenLock, Unlocks, Close, Read
    <3>2. AppendBegin(w) => "APPEND" \in Ops
      BY <1>1, ProtocolFacts DEF AppendBegin, OnFile, Op, Serves
    <3> QED BY <3>1, <3>2
  <2> QED BY <1>2, <1>3, <2>1
<1>5. AppendBegin(w) => Op(w) = "APPEND" /\ "APPEND" \in Ops
  BY <1>1, ProtocolFacts DEF AppendBegin, OnFile, Op, Serves
<1>6. \A l \in Labels \ WalkLabels : l \notin HoldLabels => HolderStep(w, l)
  BY <1>1 DEF HolderStep, HoldLabels, WalkLabels
<1>7. CASE Locks(w)
  <2>1. CASE \E s : Answer(w, s)
    BY <1>2, <1>3, <1>5, <2>1
  <2>2. CASE Goto(w, "finish")
    <3> DEFINE t == [th[w] EXCEPT !.pc = "finish"]
    <3>1. /\ th' = [th EXCEPT ![w] = t] /\ t.pc = "finish" /\ t.req = th[w].req
          /\ t.answer = th[w].answer
      BY <2>2, ProtocolFacts DEF Goto, Thread
    <3> HIDE DEF t
    <3>2. /\ Op(w) = "LOCKS" /\ Serves(th[w])
          /\ "APPEND" \notin Ops => th[w].answer = <<>>
      BY <1>1, <1>7, ProtocolFacts
         DEF Locks, OnFile, Replied, SaidLabels, EvictLabels, WalkLabels
    <3>3. Serves(t) /\ ("APPEND" \notin Ops => Replied(t))
      BY <1>1, <3>1, <3>2
         DEF Serves, Replied, Op, WriteLabels, AppendLabels, EvictLabels, CloseLabels,
             SaidLabels
    <3>4. HolderStep(w, "finish")
      BY <1>6 DEF Labels, HoldLabels, WalkLabels
    <3> QED BY <1>3, <1>5, <3>1, <3>3, <3>4, ProtocolStep
  <2> QED BY <1>7, <2>1, <2>2 DEF Locks
<1>8. CASE Write(w)
  <2>1. CASE \E s : Answer(w, s)
    BY <1>2, <1>3, <1>5, <2>1
  <2>2. CASE Goto(w, "accountRead")
    <3>1. Op(w) = "WRITE" /\ HolderStep(w, "accountRead")
      BY <1>6, <1>8 DEF Write, OnFile, Labels, HoldLabels, WalkLabels
    <3> QED
      BY <1>1, <1>3, <1>5, <2>2, <3>1, GoesOn
         DEF AppendLabels, EvictLabels, WalkLabels, CloseLabels, SaidLabels
  <2> QED BY <1>8, <2>1, <2>2 DEF Write
<1>9. CASE RemoveCheck(w)
  <2>1. CASE \E s : Answer(w, s)
    BY <1>2, <1>3, <1>5, <2>1
  <2>2. CASE Goto(w, "removeBegin")
    <3>1. HolderStep(w, "removeBegin")
      BY <1>6 DEF Labels, HoldLabels, WalkLabels
    <3> QED
      BY <1>1, <1>3, <1>5, <2>2, <3>1, GoesOn
         DEF WriteLabels, AppendLabels, EvictLabels, WalkLabels, CloseLabels, SaidLabels
  <2> QED BY <1>9, <2>1, <2>2 DEF RemoveCheck
<1>10. CASE AppendBegin(w)
  <2>1. CASE Answer(w, "NOTOPEN")
    BY <1>2, <1>5, <1>10, <2>1
  <2>2. CASE Send(w, "SERVERFULL", "evictBegin")
    <3>1. HolderStep(w, "evictBegin")
      BY <1>6 DEF Labels, HoldLabels, WalkLabels
    <3> QED BY <1>1, <1>5, <1>10, <2>2, <3>1, StatusStep DEF WithContent
  <2>3. CASE Goto(w, "appendCopy")
    <3>1. HolderStep(w, "appendCopy")
      BY <1>6 DEF Labels, HoldLabels, WalkLabels
    <3> QED
      BY <1>1, <1>5, <1>10, <2>3, <3>1, GoesOn
         DEF WriteLabels, AppendLabels, EvictLabels, WalkLabels, CloseLabels, SaidLabels
  <2> QED BY <1>10, <2>1, <2>2, <2>3 DEF AppendBegin
<1> QED BY <1>4, <1>7, <1>8, <1>9, <1>10

\* WRITE and APPEND once their File is found.
LEMMA WriteProtocol ==
    ASSUME IInv, OInv, NEW w \in Workers,
           \/ AccountRead(w) \/ Account(w) \/ CheckSpace(w) \/ Enqueue(w)
           \/ AppendCopy(w)
    PROVE  OInv'
<1>1. th[w] \in Thread /\ Serves(th[w])
  BY ProtocolFacts
<1>2. CASE AccountRead(w)
  <2> DEFINE t == [th[w] EXCEPT !.pc = "account", !.tmp = actual_size]
  <2>1. /\ th[w].pc = "accountRead" /\ th' = [th EXCEPT ![w] = t]
        /\ UNCHANGED <<Store, Outside>>
    BY <1>2 DEF AccountRead, At
  <2>2. t.pc = "account" /\ t.req = th[w].req /\ t.answer = th[w].answer
    BY <1>1 DEF Thread
  <2> HIDE DEF t
  <2>3. HolderStep(w, t.pc) /\ ("APPEND" \notin Ops => NotHeld') /\ Op(w) = "WRITE"
    BY <1>1, <2>1, <2>2, SameFiles
       DEF HolderStep, HoldLabels, WalkLabels, Store, Outside, Serves, WriteLabels, Op
  <2> QED
    BY <2>1, <2>2, <2>3, SilentStep
       DEF AppendLabels, EvictLabels, WalkLabels, CloseLabels, SaidLabels
<1>3. CASE Account(w)
  <2>1. /\ th[w].pc = "account" /\ Goto(w, "checkSpace")
        /\ UNCHANGED <<files, mtxhash, Outside>>
    BY <1>3 DEF Account, At
  <2>2. /\ HolderStep(w, "checkSpace") /\ ("APPEND" \notin Ops => NotHeld')
        /\ Op(w) = "WRITE"
    BY <1>1, <2>1, SameFiles
       DEF HolderStep, HoldLabels, WalkLabels, Outside, Serves, WriteLabels, Op
  <2> QED
    BY <2>1, <2>2, GoesOn
       DEF AppendLabels, EvictLabels, WalkLabels, CloseLabels, SaidLabels
<1>4. CASE CheckSpace(w)
  <2>1. /\ th[w].pc = "checkSpace" /\ UNCHANGED <<Store, Outside>>
        /\ Send(w, "SUCCESS", "enqueue") \/ Send(w, "SERVERFULL", "evictBegin")
    BY <1>4 DEF CheckSpace, At
  <2>2. ("APPEND" \notin Ops => NotHeld') /\ Op(w) = "WRITE"
    BY <1>1, <2>1, SameFiles DEF Store, Serves, WriteLabels, Op
  <2>3. HolderStep(w, "enqueue") /\ HolderStep(w, "evictBegin")
    BY <2>1 DEF HolderStep, HoldLabels, WalkLabels, Store, Outside
  <2> QED
    BY <2>1, <2>2, <2>3, StatusStep DEF WithContent, SaidLabels, EvictLabels, WalkLabels
<1>5. CASE Enqueue(w)
  <2>1. CASE Undefined("freed")
    BY <2>1, HaltStep
  <2>2. CASE ~Undefined("freed")
    <3>1. /\ th[w].pc = "enqueue" /\ Goto(w, "finish")
          /\ UNCHANGED <<Hash, actual_size, files, mtxhash, Outside>>
      BY <1>5, <2>2 DEF Enqueue, At
    <3>2. HolderStep(w, "finish") /\ ("APPEND" \notin Ops => NotHeld')
      BY <3>1, SameFiles DEF HolderStep, HoldLabels, WalkLabels, Outside
    <3> QED
      BY <3>1, <3>2, GoesOn
         DEF WriteLabels, AppendLabels, EvictLabels, WalkLabels, CloseLabels, SaidLabels
  <2> QED BY <2>1, <2>2
<1>6. CASE AppendCopy(w)
  <2>1. th[w].pc = "appendCopy" /\ "APPEND" \in Ops
    BY <1>1, <1>6 DEF AppendCopy, At, Serves, AppendLabels
  <2>2. CASE \E k : Undefined(k)
    BY <2>2, HaltStep
  <2>3. CASE ~\E k : Undefined(k)
    <3>1. Answer(w, "SUCCESS") /\ UNCHANGED <<Hash, fifo, actual_size, mtxhash, Outside>>
      BY <1>6, <2>3 DEF AppendCopy
    <3> QED
      BY <2>1, <3>1, AnswerStep
         DEF SaidLabels, EvictLabels, WalkLabels, HoldLabels, Outside
  <2> QED BY <2>2, <2>3
<1> QED BY <1>2, <1>3, <1>4, <1>5, <1>6

\* Handlercapacity(), after the status.
LEMMA EvictProtocol ==
    ASSUME IInv, OInv, NEW w \in Workers,
           \/ EvictBegin(w) \/ EvictTake(w) \/ EvictAccount(w) \/ EvictEnough(w)
           \/ EvictSend(w) \/ EvictEnd(w)
    PROVE  OInv'
<1>1. th[w] \in Thread /\ Serves(th[w])
  BY ProtocolFacts
<1>2. th[w].pc \in EvictLabels /\ Op(w) \in WithContent
  BY <1>1 DEF EvictBegin, EvictTake, EvictAccount, EvictEnough, EvictSend, EvictEnd, At,
              EvictLabels, Serves, Op
<1>3. ASSUME NEW t, th' = [th EXCEPT ![w] = t], t.pc \in {"evict", "evictAccount", "evictSend"},
             t.req = th[w].req, t.answer = th[w].answer, UNCHANGED mtxcon,
             \/ mtxhash' = w
             \/ mtxhash' = mtxhash
             \/ mtxhash' = NONE,
             "APPEND" \notin Ops => NotHeld'
      PROVE  OInv'
  <2>1. t.pc \in HoldLabels /\ HolderStep(w, t.pc)
    BY <1>2, <1>3 DEF HolderStep, HoldLabels, WalkLabels, EvictLabels
  <2> QED
    BY <1>2, <1>3, <2>1, SilentStep
       DEF WriteLabels, AppendLabels, EvictLabels, WalkLabels, CloseLabels, SaidLabels
<1>4. CASE EvictBegin(w) \/ EvictEnough(w)
  <2>1. PICK l \in {"evict", "evictSend"} : Goto(w, l)
    BY <1>4 DEF EvictBegin, EvictEnough
  <2> DEFINE t == [th[w] EXCEPT !.pc = l]
  <2>2. /\ th' = [th EXCEPT ![w] = t] /\ t.pc = l /\ t.req = th[w].req
        /\ t.answer = th[w].answer
    BY <1>1, <2>1 DEF Goto, Thread
  <2> HIDE DEF t
  <2>3. /\ UNCHANGED <<files, mtxcon>> /\ (mtxhash' = w \/ mtxhash' = mtxhash)
    BY <1>4 DEF EvictBegin, EvictEnough, Store, Outside
  <2> QED BY <1>3, <2>1, <2>2, <2>3, SameFiles
<1>5. CASE EvictTake(w)
  <2>1. CASE Undefined("null")
    BY <2>1, HaltStep
  <2>2. CASE ~Undefined("null")
    <3> DEFINE t == [th[w] EXCEPT !.pc = "evictAccount",
                                  !.victim = Head(fifo.nodes).cont, !.tmp = actual_size]
    <3>1. /\ th' = [th EXCEPT ![w] = t]
          /\ UNCHANGED <<Hash, actual_size, files, mtxhash, Outside>>
      BY <1>5, <2>2 DEF EvictTake
    <3>2. t.pc = "evictAccount" /\ t.req = th[w].req /\ t.answer = th[w].answer
      BY <1>1 DEF Thread
    <3> HIDE DEF t
    <3> QED BY <1>3, <3>1, <3>2, SameFiles DEF Outside
  <2> QED BY <2>1, <2>2
<1>6. CASE EvictAccount(w)
  <2>1. CASE Undefined("freed")
    BY <2>1, HaltStep
  <2>2. CASE ~Undefined("freed")
    <3> DEFINE t == [th[w] EXCEPT !.pc = "evict", !.victim = NONE,
                                  !.ftosend = Append(@, th[w].victim)]
    <3>1. /\ th' = [th EXCEPT ![w] = t]
          /\ UNCHANGED <<Hash, fifo, files, mtxhash, Outside>>
      BY <1>6, <2>2 DEF EvictAccount
    <3>2. t.pc = "evict" /\ t.req = th[w].req /\ t.answer = th[w].answer
      BY <1>1 DEF Thread
    <3> HIDE DEF t
    <3> QED BY <1>3, <3>1, <3>2, SameFiles DEF Outside
  <2> QED BY <2>1, <2>2
<1>7. CASE EvictSend(w)
  <2>1. CASE \E k : Undefined(k)
    BY <2>1, HaltStep
  <2>2. CASE ~\E k : Undefined(k)
    <3> DEFINE t == [th[w] EXCEPT !.ftosend = Tail(@)]
    <3>1. /\ th' = [th EXCEPT ![w] = t] /\ th[w].pc = "evictSend"
          /\ files' = [files EXCEPT ![Head(th[w].ftosend)] = NoFile]
          /\ UNCHANGED <<fifo, actual_size, mtxhash, Outside>>
      BY <1>7, <2>2 DEF EvictSend, At
    <3>2. t.pc = "evictSend" /\ t.req = th[w].req /\ t.answer = th[w].answer
      BY <1>1, <3>1 DEF Thread
    <3>3. Head(th[w].ftosend) \in Files /\ NoFile.mtxf = NONE
      BY <1>1, <1>7, HeadTailProperties DEF EvictSend, Thread, NoFile
    <3> HIDE DEF t
    <3> QED BY <1>3, <3>1, <3>2, <3>3, OneFile DEF Outside
  <2> QED BY <2>1, <2>2
<1>8. CASE EvictEnd(w)
  <2> DEFINE l == IF Op(w) = "WRITE" THEN "enqueue" ELSE "appendCopy"
  <2>1. /\ Goto(w, l) /\ mtxhash' = NONE /\ th[w].pc = "evictSend"
        /\ UNCHANGED <<Hash, fifo, actual_size, files, Outside>>
    BY <1>8 DEF EvictEnd, At
  <2>2. /\ l \in {"enqueue", "appendCopy"}
        /\ l = "enqueue" => Op(w) = "WRITE"
        /\ l = "appendCopy" => Op(w) = "APPEND" /\ "APPEND" \in Ops
    BY <1>1, <1>2, <2>1 DEF WithContent, Serves, Op
  <2> HIDE DEF l
  <2>3. HolderStep(w, l)
    BY <2>1, <2>2 DEF HolderStep, HoldLabels, WalkLabels, Outside
  <2> QED
    BY <2>1, <2>2, <2>3, GoesOn, SameFiles
       DEF WriteLabels, AppendLabels, EvictLabels, WalkLabels, CloseLabels, SaidLabels
<1> QED BY <1>4, <1>5, <1>6, <1>7, <1>8

\* REMOVE once the lock is checked, and READN.
LEMMA RemoveProtocol ==
    ASSUME IInv, OInv, NEW w \in Workers,
           RemoveBegin(w) \/ RemoveUnlink(w) \/ RemoveFifo(w) \/ ReadN(w)
    PROVE  OInv'
<1>1. th[w] \in Thread
  BY ProtocolFacts
<1>2. CASE RemoveBegin(w)
  <2> DEFINE t == [th[w] EXCEPT !.pc = "removeUnlink", !.tmp = actual_size]
  <2>1. /\ th[w].pc = "removeBegin" /\ th' = [th EXCEPT ![w] = t] /\ mtxhash' = w
        /\ UNCHANGED <<files, Outside>>
    BY <1>2 DEF RemoveBegin, At
  <2>2. t.pc = "removeUnlink" /\ t.req = th[w].req /\ t.answer = th[w].answer
    BY <1>1 DEF Thread
  <2> HIDE DEF t
  <2>3. HolderStep(w, t.pc) /\ ("APPEND" \notin Ops => NotHeld')
    BY <2>1, <2>2, SameFiles DEF HolderStep, HoldLabels, WalkLabels, Outside
  <2> QED
    BY <2>1, <2>2, <2>3, SilentStep
       DEF WriteLabels, AppendLabels, EvictLabels, WalkLabels, CloseLabels, SaidLabels
<1>3. CASE RemoveUnlink(w)
  <2>1. CASE \E k : Undefined(k)
    BY <2>1, HaltStep
  <2>2. CASE ~\E k : Undefined(k)
    <3>1. /\ th[w].pc = "removeUnlink" /\ Goto(w, "removeFifo") /\ mtxhash' = NONE
          /\ UNCHANGED <<fifo, files, Outside>>
      BY <1>3, <2>2 DEF RemoveUnlink, At
    <3>2. HolderStep(w, "removeFifo") /\ ("APPEND" \notin Ops => NotHeld')
      BY <3>1, SameFiles DEF HolderStep, HoldLabels, WalkLabels, Outside
    <3> QED
      BY <3>1, <3>2, GoesOn
         DEF WriteLabels, AppendLabels, EvictLabels, WalkLabels, CloseLabels, SaidLabels
  <2> QED BY <2>1, <2>2
<1>4. CASE RemoveFifo(w)
  <2>1. CASE \E k : Undefined(k)
    BY <2>1, HaltStep
  <2>2. CASE ~\E k : Undefined(k)
    <3>1. /\ th[w].pc = "removeFifo" /\ Answer(w, "SUCCESS")
          /\ files' = [files EXCEPT ![th[w].f] = NoFile]
          /\ UNCHANGED <<Hash, actual_size, mtxhash, Outside>>
      BY <1>4, <2>2 DEF RemoveFifo, At
    <3>2. th[w].f \in Files /\ NoFile.mtxf = NONE
      BY <3>1, ThreadFacts DEF FileLabels, NoFile
    <3> QED
      BY <3>1, <3>2, AnswerStep, OneFile
         DEF SaidLabels, EvictLabels, WalkLabels, HoldLabels, Outside
  <2> QED BY <2>1, <2>2
<1>5. CASE ReadN(w)
  <2>1. CASE Undefined("freed")
    BY <2>1, HaltStep
  <2>2. CASE ~Undefined("freed")
    <3>1. /\ th[w].pc = "readFiles" /\ \E s : Answer(w, s)
          /\ UNCHANGED <<Store, Outside>>
      BY <1>5, <2>2 DEF ReadN, At
    <3> QED
      BY <3>1, AnswerStep, SameFiles
         DEF SaidLabels, EvictLabels, WalkLabels, HoldLabels, Store, Outside
  <2> QED BY <2>1, <2>2
<1> QED BY <1>2, <1>3, <1>4, <1>5

\* A thread that starts or ends has nothing to answer.
LEMMA IdleStep ==
    ASSUME IInv, OInv, NEW w \in Workers, th' = [th EXCEPT ![w] = Idle],
           UNCHANGED files,
           \/ UNCHANGED <<mtxhash, mtxcon>> /\ th[w].pc \notin HoldLabels \cup WalkLabels
           \/ mtxhash' = NONE /\ mtxcon' = NONE
    PROVE  OInv'
<1>1. Serves(Idle) /\ Replied(Idle) /\ Idle.pc = "idle"
  BY DEF Idle, Serves, Replied, WriteLabels, AppendLabels, EvictLabels, CloseLabels,
         SaidLabels, WalkLabels
<1>2. HolderStep(w, Idle.pc)
  BY <1>1 DEF HolderStep
<1> QED BY <1>1, <1>2, ProtocolStep, SameFiles

\* CLOSECONNECTION with the walk of relaselock(), and the end of any request.
LEMMA CloseProtocol ==
    ASSUME IInv, OInv, NEW w \in Workers,
           \/ CloseBegin(w) \/ CloseWalk(w) \/ (\E a \in Files : CloseUnlock(w, a))
           \/ CloseEnd(w) \/ Finish(w)
    PROVE  OInv'
<1>1. th[w] \in Thread /\ Serves(th[w])
  BY ProtocolFacts
<1>2. CASE CloseBegin(w)
  <2>1. /\ th[w].pc = "closeBegin" /\ mtxcon' = w /\ Send(w, "SUCCESS", "closeWalk")
        /\ UNCHANGED <<Store, connected, requeued, fault>>
    BY <1>2 DEF CloseBegin, At
  <2>2. /\ HolderStep(w, "closeWalk") /\ ("APPEND" \notin Ops => NotHeld')
        /\ Op(w) = "CLOSECONNECTION"
    BY <1>1, <2>1, SameFiles
       DEF HolderStep, HoldLabels, WalkLabels, Store, Serves, CloseLabels, Op
  <2> QED BY <2>1, <2>2, StatusStep DEF SaidLabels, EvictLabels, WalkLabels
<1>3. CASE CloseWalk(w)
  <2> DEFINE t == [th[w] EXCEPT !.pc = "closing", !.todo = Stored(Hash)]
  <2>1. /\ th[w].pc = "closeWalk" /\ th' = [th EXCEPT ![w] = t] /\ mtxhash' = w
        /\ UNCHANGED <<files, Outside>>
    BY <1>3 DEF CloseWalk, At
  <2>2. t.pc = "closing" /\ t.req = th[w].req /\ t.answer = th[w].answer
    BY <1>1 DEF Thread
  <2> HIDE DEF t
  <2>3. /\ HolderStep(w, t.pc) /\ ("APPEND" \notin Ops => NotHeld')
        /\ Op(w) = "CLOSECONNECTION"
    BY <1>1, <2>1, <2>2, SameFiles
       DEF HolderStep, HoldLabels, WalkLabels, Outside, Serves, CloseLabels, Op
  <2> QED
    BY <2>1, <2>2, <2>3, SilentStep
       DEF WriteLabels, AppendLabels, EvictLabels, WalkLabels, CloseLabels, SaidLabels
<1>4. ASSUME NEW a \in Files, CloseUnlock(w, a) PROVE OInv'
  <2>1. CASE Undefined("freed")
    BY <2>1, HaltStep
  <2>2. CASE ~Undefined("freed")
    <3> DEFINE t == [th[w] EXCEPT !.todo = @ \ {a}]
               g == [files[a] EXCEPT !.lock = IF files[a].fd = Client(w) THEN 0 ELSE @]
    <3>1. /\ th[w].pc = "closing" /\ th' = [th EXCEPT ![w] = t]
          /\ files' = [files EXCEPT ![a] = g] /\ UNCHANGED <<mtxhash, Outside>>
      BY <1>4, <2>2 DEF CloseUnlock, At
    <3>2. /\ t.pc = "closing" /\ t.req = th[w].req /\ t.answer = th[w].answer
          /\ g.mtxf = files[a].mtxf
      BY <1>1, <3>1 DEF Thread, IInv, TypeOK, File
    <3> HIDE DEF t, g
    <3>3. /\ HolderStep(w, t.pc) /\ ("APPEND" \notin Ops => NotHeld')
          /\ Op(w) = "CLOSECONNECTION"
      BY <1>1, <3>1, <3>2, OneFile
         DEF HolderStep, HoldLabels, WalkLabels, Outside, Serves, CloseLabels, Op
    <3> QED
      BY <3>1, <3>2, <3>3, SilentStep
         DEF WriteLabels, AppendLabels, EvictLabels, WalkLabels, CloseLabels, SaidLabels
  <2> QED BY <2>1, <2>2
<1>5. CASE CloseEnd(w)
  BY <1>5, IdleStep DEF CloseEnd
<1>6. CASE Finish(w)
  <2>1. th[w].pc = "finish" /\ th' = [th EXCEPT ![w] = Idle] /\ UNCHANGED <<Store, Outside>>
    BY <1>6 DEF Finish, At
  <2> QED BY <2>1, IdleStep DEF HoldLabels, WalkLabels, Store, Outside
<1> QED BY <1>2, <1>3, <1>4, <1>5, <1>6

\* A request begins, with no status sent for it.
LEMMA BeginProtocol ==
    ASSUME IInv, OInv, NEW w \in Workers, th[w].pc = "idle", NEW r \in Request,
           Begin(w, r), UNCHANGED <<Store, mtxcon>>
    PROVE  OInv'
<1> DEFINE t == [th[w] EXCEPT !.pc = Entrypoint(r.op), !.req = r]
<1>1. th[w] = Idle /\ th' = [th EXCEPT ![w] = t]
  BY ThreadFacts DEF LocalOK, Begin
<1>2. t.pc = Entrypoint(r.op) /\ t.req = r /\ t.answer = <<>>
  BY <1>1, IdleFacts DEF Idle
<1> HIDE DEF t
<1>3. /\ Entrypoint(r.op) \in {"check", "lookup", "readFiles", "closeBegin"}
      /\ Entrypoint(r.op) = "closeBegin" => r.op = "CLOSECONNECTION"
  BY DEF Entrypoint
<1>4. Serves(t) /\ Replied(t)
  BY <1>2, <1>3
     DEF Serves, Replied, Request, WriteLabels, AppendLabels, EvictLabels, CloseLabels,
         SaidLabels, WalkLabels
<1>5. HolderStep(w, t.pc)
  BY <1>1, IdleFacts DEF HolderStep, HoldLabels, WalkLabels, Store
<1> QED BY <1>1, <1>4, <1>5, ProtocolStep, SameFiles DEF Store

\* No request, no mutex, nothing sent.
LEMMA InitOInv == ASSUME Init PROVE OInv
<1>1. \A w \in Workers : th[w] = Idle
  BY DEF Init
<1>2. Serves(Idle) /\ Replied(Idle)
  BY DEF Idle, Serves, Replied, WriteLabels, AppendLabels, EvictLabels, CloseLabels,
         SaidLabels, WalkLabels
<1>3. Holders /\ NotHeld
  BY DEF Init, Holders, NotHeld, NoFile
<1> QED BY <1>1, <1>2, <1>3 DEF OInv

\* In every reachable state the labels, the mutexes and the statuses sent are
\* as OInv says.
THEOREM Protocol == Spec => []OInv
<1>1. Init => OInv
  BY InitOInv
<1>2. IInv /\ OInv /\ [Next]_vars => OInv'
  <2> SUFFICES ASSUME IInv, OInv, [Next]_vars PROVE OInv'
    OBVIOUS
  <2>1. ASSUME NEW c \in Clients, Accept(c) PROVE OInv'
    BY <2>1 DEF Accept, Store, OInv, Holders, NotHeld
  <2>2. ASSUME NEW w \in Workers, NEW c \in Clients, NEW r \in Requests(c), Take(w, r)
        PROVE  OInv'
    BY <2>2, RequestsAreTyped, BeginProtocol DEF Take, At, Outside
  <2>3. ASSUME NEW w \in Workers, NEW r \in requeued, TakeRequeued(w, r) PROVE OInv'
    BY <2>3, BeginProtocol DEF TakeRequeued, At, IInv, TypeOK
  <2>4. ASSUME NEW w \in Workers, Serve(w) PROVE OInv'
    BY <2>4, CreateProtocol, LookupProtocol, FileProtocol, WriteProtocol,
       EvictProtocol, RemoveProtocol, CloseProtocol DEF Serve
  <2>5. CASE UNCHANGED vars
    BY <2>5 DEF vars, OInv, Holders, NotHeld
  <2> QED BY <2>1, <2>2, <2>3, <2>4, <2>5 DEF Next, Halted
<1> QED BY <1>1, <1>2, Invariance, PTL DEF Spec

\* The protocol is request and answer: if no client appends, a thread that is
\* done with a request has sent one status for it, or none if the request is a
\* LOCKS that it has put back. An APPEND that makes room sends two.
THEOREM EachRequestAnswered ==
    ASSUME "APPEND" \notin Ops PROVE Spec => []Answered
<1>1. OInv => Answered
  BY DEF OInv, Answered, Replied, PutBack, Op, SaidLabels
<1> QED BY <1>1, Protocol, PTL

\* Of the threads that wait, one waits for none of the others: the holder of
\* mtxhash waits for nothing, that of mtxcon only for mtxhash.
LEMMA SomeThreadGoesOn ==
    ASSUME "APPEND" \notin Ops, IInv, OInv PROVE NoLockCycle
<1> SUFFICES ASSUME NEW S \in SUBSET Workers, S # {}
             PROVE  \E w \in S : WaitsFor(w) \cap S = {}
  BY DEF NoLockCycle
<1>1. NotHeld /\ Holders /\ ThreadsOK /\ th \in [Workers -> Thread]
  BY DEF OInv, IInv, TypeOK
<1>2. ASSUME NEW w \in S PROVE WaitsFor(w) \subseteq {mtxhash, mtxcon}
  <2>1. th[w].pc = "file" => files[th[w].f].mtxf = NONE
    BY <1>1 DEF ThreadsOK, LocalOK, FileLabels, NotHeld
  <2>2. th[w].pc = "closing" => th[w].todo \subseteq Files
    BY <1>1 DEF Thread
  <2>3. th[w].pc = "closing" => WaitsFor(w) = {}
    BY <1>1, <2>2 DEF WaitsFor, NotHeld
  <2> QED BY <2>1, <2>3 DEF WaitsFor
<1>3. CASE mtxhash \in S
  <2>1. th[mtxhash].pc \in HoldLabels
    BY <1>1, <1>3, NoneIsNoThread DEF Holders
  <2>2. WaitsFor(mtxhash) = {}
    <3>1. th[mtxhash].todo \subseteq Files
      BY <1>1, <1>3 DEF Thread
    <3> QED BY <1>1, <2>1, <3>1 DEF WaitsFor, HoldLabels, NotHeld
  <2> QED BY <1>3, <2>2
<1>4. CASE mtxhash \notin S /\ mtxcon \in S
  <2>1. th[mtxcon].pc \in WalkLabels
    BY <1>1, <1>4, NoneIsNoThread DEF Holders
  <2>2. WaitsFor(mtxcon) \subseteq {mtxhash}
    <3>1. th[mtxcon].todo \subseteq Files
      BY <1>1, <1>4 DEF Thread
    <3> QED BY <1>1, <2>1, <3>1 DEF WaitsFor, WalkLabels, NotHeld
  <2> QED BY <1>4, <2>2
<1>5. CASE mtxhash \notin S /\ mtxcon \notin S
  BY <1>2, <1>5
<1> QED BY <1>3, <1>4, <1>5

\* No threads wait for each other in a circle, if no client appends: APPEND
\* keeps an mtxf while it waits for mtxhash, and relaselock() waits the other
\* way round.
THEOREM NoDeadlock ==
    ASSUME "APPEND" \notin Ops PROVE Spec => []NoLockCycle
<1>1. IInv /\ OInv => NoLockCycle
  BY SomeThreadGoesOn
<1> QED BY <1>1, Invariance, Protocol, PTL

-----------------------------------------------------------------------------
(* Locks are kept *)

\* What a step does to the locks of the stored files: LockStable's action.
KeepsLocks == \A a \in Stored(Hash) :
    files[a].lock = 1 /\ files'[a].alive =>
        \/ files'[a].lock = 1 /\ files'[a].fd = files[a].fd
        \/ \E w \in Workers : /\ Op(w) \in {"UNLOCKS", "CLOSECONNECTION"}
                              /\ Client(w) = files[a].fd

\* A change of one File keeps the locks if it frees the File, if the File was
\* not stored, if it keeps its lock, or if a thread takes the lock off for its
\* own client.
LEMMA OneFileKept ==
    ASSUME IInv, NEW w \in Workers, NEW a \in Files, NEW g,
           files' = [files EXCEPT ![a] = g],
           \/ ~g.alive
           \/ a \notin Stored(Hash)
           \/ files[a].lock = 1 => g.lock = 1 /\ g.fd = files[a].fd
           \/ Op(w) \in {"UNLOCKS", "CLOSECONNECTION"} /\ Client(w) = files[a].fd
    PROVE  KeepsLocks
<1>1. /\ files'[a] = g /\ \A b \in Files \ {a} : files'[b] = files[b]
      /\ Stored(Hash) \subseteq Files
  BY TableProperties DEF IInv, TypeOK
<1> QED BY <1>1 DEF KeepsLocks

\* The handlers that do to one File what file.c says.
LEMMA FileKeepsLocks ==
    ASSUME IInv, NEW w \in Workers,
           \/ OpenFile(w) \/ Locks(w) \/ Unlocks(w) \/ Close(w) \/ Read(w)
           \/ Write(w) \/ AppendBegin(w) \/ RemoveCheck(w)
    PROVE  KeepsLocks
<1> DEFINE f == files[th[w].f]
<1>1. /\ th[w].pc = "file" /\ th[w].f \in Files /\ f \in File
      /\ files \in [Files -> File]
  BY OnFileFacts
     DEF OpenFile, Locks, Unlocks, Close, Read, Write, AppendBegin, RemoveCheck,
         IInv, TypeOK
<1>2. CASE UNCHANGED files
  BY <1>2 DEF KeepsLocks
<1>3. ASSUME NEW g, files' = [files EXCEPT ![th[w].f] = g],
             g.lock = f.lock /\ g.fd = f.fd
      PROVE  KeepsLocks
  BY <1>1, <1>3, OneFileKept
<1>4. CASE OpenFile(w) \/ Close(w)
  <2>1. PICK i \in {0, 1} : files' = [files EXCEPT ![th[w].f] = [f EXCEPT !.isopen = i]]
    BY <1>4 DEF OpenFile, Close
  <2> DEFINE g == [f EXCEPT !.isopen = i]
  <2>2. g.lock = f.lock /\ g.fd = f.fd /\ files' = [files EXCEPT ![th[w].f] = g]
    BY <1>1, <2>1 DEF File
  <2> QED BY <1>3, <2>2
<1>5. CASE Locks(w)
  <2> DEFINE g == [f EXCEPT !.lock = 1, !.fd = Client(w)]
  <2>1. \/ UNCHANGED files
        \/ Permitted(w, f) /\ files' = [files EXCEPT ![th[w].f] = g]
    BY <1>1, <1>5 DEF Locks
  <2>2. g.lock = 1 /\ g.fd = Client(w)
    BY <1>1 DEF File
  <2>3. Permitted(w, f) => (f.lock = 1 => f.fd = Client(w))
    BY DEF Permitted
  <2> HIDE DEF g
  <2> QED BY <1>1, <1>2, <2>1, <2>2, <2>3, OneFileKept
<1>6. CASE Unlocks(w)
  <2> DEFINE g == [f EXCEPT !.lock = 0]
  <2>1. \/ UNCHANGED files
        \/ f.fd = Client(w) /\ files' = [files EXCEPT ![th[w].f] = g]
    BY <1>1, <1>6 DEF Unlocks
  <2>2. Op(w) = "UNLOCKS"
    BY <1>6 DEF Unlocks, OnFile
  <2> HIDE DEF g
  <2> QED BY <1>1, <1>2, <2>1, <2>2, OneFileKept
<1>7. CASE Write(w)
  <2> DEFINE g == [f EXCEPT !.dim = th[w].req.size, !.cont = "buffer"]
  <2>1. UNCHANGED files \/ files' = [files EXCEPT ![th[w].f] = g]
    BY <1>1, <1>7 DEF Write
  <2>2. g.lock = f.lock /\ g.fd = f.fd
    BY <1>1 DEF File
  <2> QED BY <1>2, <1>3, <2>1, <2>2
<1>8. CASE AppendBegin(w)
  <2> DEFINE g == [f EXCEPT !.mtxf = w]
  <2>1. UNCHANGED files \/ files' = [files EXCEPT ![th[w].f] = g]
    BY <1>1, <1>8 DEF AppendBegin
  <2>2. g.lock = f.lock /\ g.fd = f.fd
    BY <1>1 DEF File
  <2> QED BY <1>2, <1>3, <2>1, <2>2
<1>9. CASE Read(w) \/ RemoveCheck(w)
  BY <1>2, <1>9 DEF Read, RemoveCheck, Store
<1> QED BY <1>4, <1>5, <1>6, <1>7, <1>8, <1>9

\* Every step of a handler; only O_LOCK alone would take a lock away.
LEMMA ServeKeepsLocks ==
    ASSUME "O_LOCK" \notin Ops, IInv, OInv, NEW w \in Workers, Serve(w)
    PROVE  KeepsLocks
<1>1. th[w] \in Thread /\ Serves(th[w]) /\ files \in [Files -> File]
  BY ProtocolFacts DEF IInv, TypeOK
<1>2. CASE UNCHANGED files
  BY <1>2 DEF KeepsLocks
<1>3. ~OpenLock(w)
  BY <1>1 DEF OpenLock, OnFile, At, Op, Serves
<1>4. CASE \/ CreateCheck(w) \/ ExpelHead(w) \/ UnlinkExpelled(w) \/ Lookup(w)
           \/ AccountAppend(w) \/ FileIsGone(w) \/ AccountRead(w) \/ Account(w)
           \/ CheckSpace(w) \/ Enqueue(w)
  BY <1>2, <1>4
     DEF CreateCheck, ExpelHead, UnlinkExpelled, Lookup, AccountAppend, FileIsGone,
         AccountRead, Account, CheckSpace, Enqueue, Undefined, Store
<1>5. CASE \/ EvictBegin(w) \/ EvictTake(w) \/ EvictAccount(w) \/ EvictEnough(w)
           \/ EvictEnd(w) \/ RemoveBegin(w) \/ RemoveUnlink(w) \/ ReadN(w)
           \/ CloseBegin(w) \/ CloseWalk(w) \/ CloseEnd(w) \/ Finish(w)
  BY <1>2, <1>5
     DEF EvictBegin, EvictTake, EvictAccount, EvictEnough, EvictEnd, RemoveBegin,
         RemoveUnlink, ReadN, CloseBegin, CloseWalk, CloseEnd, Finish, Undefined, Store
<1>6. CASE \/ OpenFile(w) \/ Locks(w) \/ Unlocks(w) \/ Close(w) \/ Read(w)
           \/ Write(w) \/ AppendBegin(w) \/ RemoveCheck(w)
  BY <1>6, FileKeepsLocks
<1>7. CASE CreateInsert(w)
  <2>1. PICK a \in Fresh : \E g : files' = [files EXCEPT ![a] = g]
    BY <1>7 DEF CreateInsert
  <2>2. PICK g : files' = [files EXCEPT ![a] = g]
    BY <2>1
  <2>3. a \in Files /\ a \notin Stored(Hash)
    BY DEF Fresh
  <2> QED BY <2>2, <2>3, OneFileKept
<1>8. CASE EvictSend(w) \/ RemoveFifo(w)
  <2>1. CASE \E k : Undefined(k)
    BY <1>2, <2>1 DEF Undefined
  <2>2. CASE ~\E k : Undefined(k)
    <3>1. PICK a \in Files : files' = [files EXCEPT ![a] = NoFile]
      <4>1. CASE EvictSend(w)
        BY <1>1, <2>2, <4>1, HeadTailProperties DEF EvictSend, Thread
      <4>2. CASE RemoveFifo(w)
        BY <2>2, <4>2, ThreadFacts DEF RemoveFifo, At, FileLabels
      <4> QED BY <1>8, <4>1, <4>2
    <3> QED BY <3>1, OneFileKept DEF NoFile
  <2> QED BY <2>1, <2>2
<1>9. CASE AppendCopy(w)
  <2>1. CASE \E k : Undefined(k)
    BY <1>2, <2>1 DEF Undefined
  <2>2. CASE ~\E k : Undefined(k)
    <3> DEFINE a == th[w].f
               g == [files[a] EXCEPT !.dim = @ + th[w].req.size, !.cont = "buffer",
                                     !.mtxf = NONE]
    <3>1. a \in Files
      BY <1>9, ThreadFacts DEF AppendCopy, At, FileLabels
    <3>2. files' = [files EXCEPT ![a] = g]
      BY <1>1, <1>9, <2>2, <3>1 DEF AppendCopy
    <3>3. g.lock = files[a].lock /\ g.fd = files[a].fd
      BY <1>1, <3>1 DEF File
    <3> QED BY <3>1, <3>2, <3>3, OneFileKept
  <2> QED BY <2>1, <2>2
<1>10. ASSUME NEW a \in Files, CloseUnlock(w, a) PROVE KeepsLocks
  <2>1. CASE Undefined("freed")
    BY <1>2, <2>1 DEF Undefined
  <2>2. CASE ~Undefined("freed")
    <3> DEFINE l == IF files[a].fd = Client(w) THEN 0 ELSE files[a].lock
               g == [files[a] EXCEPT !.lock = l]
    <3>1. files' = [files EXCEPT ![a] = g]
      BY <1>1, <1>10, <2>2 DEF CloseUnlock
    <3>2. Op(w) = "CLOSECONNECTION"
      BY <1>1, <1>10 DEF CloseUnlock, At, Serves, CloseLabels, Op
    <3>3. files[a].fd # Client(w) => g.lock = files[a].lock /\ g.fd = files[a].fd
      BY <1>1 DEF File
    <3> HIDE DEF g
    <3> QED BY <3>1, <3>2, <3>3, OneFileKept
  <2> QED BY <2>1, <2>2
<1> QED BY <1>3, <1>4, <1>5, <1>6, <1>7, <1>8, <1>9, <1>10 DEF Serve

\* A client that has a file locked loses the lock only by its own UNLOCKS, by
\* the end of its connection, or with the file, if no client opens a file with
\* O_LOCK alone, which ignores the lock there may be.
THEOREM LocksAreKept ==
    ASSUME "O_LOCK" \notin Ops PROVE Spec => LockStable
<1>1. IInv /\ OInv /\ [Next]_vars => [KeepsLocks]_vars
  <2> SUFFICES ASSUME IInv, OInv, Next PROVE KeepsLocks
    OBVIOUS
  <2>1. CASE \E w \in Workers : Serve(w)
    BY <2>1, ServeKeepsLocks
  <2>2. CASE UNCHANGED files
    BY <2>2 DEF KeepsLocks
  <2> QED BY <2>1, <2>2 DEF Next, Accept, Take, TakeRequeued, Halted, vars, Store
<1>2. [][KeepsLocks]_vars => LockStable
  BY DEF KeepsLocks, LockStable
<1> QED BY <1>1, <1>2, Invariance, Protocol, PTL DEF Spec

-----------------------------------------------------------------------------
(* The counter of the table, for any number of threads *)

\* A step leaves the table alone, inserts a file or deletes a path.
LEMMA TableSteps ==
    ASSUME IInv, NEW w \in Workers, Serve(w)
    PROVE  \/ UNCHANGED Hash
           \/ \E p \in Paths, a \in Files : Hash' = hashins(Hash, p, a)
           \/ \E p \in Paths : Hash' = h_delete(Hash, p)
<1>1. th[w] \in Thread /\ LocalOK(th[w])
  BY ThreadFacts
<1>2. \A k : Undefined(k) => UNCHANGED Hash
  BY DEF Undefined
<1>3. \A a \in Files : files[a].alive => files[a].path \in Paths
  BY DEF IInv, Named
<1>4. CASE CreateInsert(w)
  <2>1. Path(w) \in Paths
    BY <1>1, <1>4 DEF CreateInsert, At, LocalOK, PathLabels, Path
  <2> QED BY <1>4, <2>1 DEF CreateInsert, Fresh
<1>5. CASE UnlinkExpelled(w)
  <2>1. th[w].f \in Files
    BY <1>1, <1>5 DEF UnlinkExpelled, At, LocalOK, FileLabels
  <2> QED BY <1>2, <1>3, <1>5, <2>1 DEF UnlinkExpelled
<1>6. CASE EvictSend(w)
  <2>1. Head(th[w].ftosend) \in Files
    BY <1>1, <1>6, HeadTailProperties DEF EvictSend, Thread
  <2> QED BY <1>2, <1>3, <1>6, <2>1 DEF EvictSend
<1>7. CASE RemoveUnlink(w)
  <2>1. th[w].f \in Files
    BY <1>1, <1>7 DEF RemoveUnlink, At, LocalOK, FileLabels
  <2> QED BY <1>2, <1>3, <1>7, <2>1 DEF RemoveUnlink
<1>8. CASE CreateCheck(w) \/ ExpelHead(w) \/ Lookup(w) \/ AccountAppend(w)
           \/ FileIsGone(w) \/ Write(w) \/ AccountRead(w) \/ Account(w)
           \/ CheckSpace(w) \/ Enqueue(w) \/ AppendBegin(w) \/ AppendCopy(w)
  BY <1>2, <1>8 DEF CreateCheck, ExpelHead, Lookup, AccountAppend, FileIsGone,
     Write, AccountRead, Account, CheckSpace, Enqueue, AppendBegin, AppendCopy, Store
<1>9. CASE OpenFile(w) \/ OpenLock(w) \/ Locks(w) \/ Unlocks(w) \/ Close(w) \/ Read(w)
           \/ EvictBegin(w) \/ EvictTake(w) \/ EvictAccount(w) \/ EvictEnough(w)
           \/ EvictEnd(w)
  BY <1>2, <1>9 DEF OpenFile, OpenLock, Locks, Unlocks, Close, Read, EvictBegin,
     EvictTake, EvictAccount, EvictEnough, EvictEnd, Store
<1>10. CASE \/ RemoveCheck(w) \/ RemoveBegin(w) \/ RemoveFifo(w) \/ ReadN(w)
            \/ CloseBegin(w) \/ CloseWalk(w) \/ CloseEnd(w) \/ Finish(w)
            \/ \E a \in Files : CloseUnlock(w, a)
  BY <1>2, <1>10 DEF RemoveCheck, RemoveBegin, RemoveFifo, ReadN, CloseBegin,
     CloseWalk, CloseEnd, Finish, CloseUnlock, Store
<1> QED BY <1>4, <1>5, <1>6, <1>7, <1>8, <1>9, <1>10 DEF Serve

\* The counter that O_CREATE compares with the size of the table, and READN with
\* the number of files asked for, is the number of nodes: for any number of
\* threads, although contain() and hashins() are two critical sections and a
\* path may be inserted twice.
THEOREM CounterIsRight == Spec => []NelemCounts
<1>1. Init => NelemCounts
  BY CreateCounts DEF Init, NelemCounts, Counted
<1>2. IInv /\ NelemCounts /\ [Next]_vars => NelemCounts'
  <2> SUFFICES ASSUME IInv, NelemCounts, [Next]_vars PROVE NelemCounts'
    OBVIOUS
  <2>1. Hash \in Tables /\ Counted(Hash)
    BY DEF IInv, TypeOK, NelemCounts, Counted
  <2>2. CASE UNCHANGED Hash
    BY <2>2 DEF NelemCounts
  <2>3. ASSUME NEW p \in Paths, NEW a \in Files, Hash' = hashins(Hash, p, a)
        PROVE  NelemCounts'
    <3>1. Counted(hashins(Hash, p, a))
      BY <2>1, HashinsCounts
    <3> QED BY <2>3, <3>1 DEF Counted, NelemCounts
  <2>4. ASSUME NEW p \in Paths, Hash' = h_delete(Hash, p) PROVE NelemCounts'
    <3>1. Counted(h_delete(Hash, p))
      BY <2>1, HdeleteCounts
    <3> QED BY <2>4, <3>1 DEF Counted, NelemCounts
  <2>5. ASSUME NEW w \in Workers, Serve(w) PROVE NelemCounts'
    BY <2>2, <2>3, <2>4, <2>5, TableSteps
  <2>6. CASE \/ \E c \in Clients : Accept(c)
             \/ \E w \in Workers, c \in Clients : \E r \in Requests(c) : Take(w, r)
             \/ \E w \in Workers, r \in requeued : TakeRequeued(w, r)
             \/ UNCHANGED vars
    BY <2>2, <2>6 DEF Accept, Take, TakeRequeued, Store, vars
  <2> QED BY <2>5, <2>6 DEF Next, Halted
<1> QED BY <1>1, <1>2, Invariance, PTL DEF Spec
=============================================================================
