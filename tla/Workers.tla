------------------------------ MODULE Workers ------------------------------
(***************************************************************************)
(* The worker threads of source/server.c: what each request does to the    *)
(* shared table, FIFO list, byte count and files, at the granularity of    *)
(* the critical sections.  A step is what a thread does from one point     *)
(* where another thread can intervene to the next: a critical section that *)
(* waits for nothing is one step that needs its mutex free; a mutex that   *)
(* is held while the thread waits for another one is a variable with its   *)
(* holder.  "actual_size = actual_size + x" is a load and a store, because *)
(* WRITE does it without any mutex.                                        *)
(*                                                                         *)
(* Dereferencing NULL, or memory that is freed or was never initialised,   *)
(* ends the run: "fault" says which.  An address is given out again only   *)
(* when no variable of the program holds it, so a use after free is always *)
(* seen.  A client waits for the answer of a request before it sends the   *)
(* next one, as api.c does.                                                *)
(***************************************************************************)
EXTENDS HashTable, FiniteSets, Functions

CONSTANTS Workers,    \* the threads: sc.nwork of them
          Clients,    \* the file descriptors of the clients
          Ops,        \* the kinds of requests the clients make
          Sizes,      \* the sizes of the contents they write and append
          Space,      \* sc.space: SIZE of config.txt
          Uninit,     \* what malloc() may leave in the field dim of a File
          NONE,       \* no file, no client, no thread
          FifoBound,  \* bound: no WRITE is taken with so long a fifo
          SizeBound   \* bound: none that counts bytes with |actual_size| above

\* OPEN is four operations, one per value of its flags.
AllOps == {"O_CREATE", "O_LOCK", "O_CRLK", "O_OPEN", "LOCKS", "UNLOCKS",
           "WRITE", "APPEND", "READ", "READN", "CLOSE", "REMOVE",
           "CLOSECONNECTION"}

ASSUME WorkersAssumption ==
    /\ IsFiniteSet(Workers) /\ IsFiniteSet(Files)
    /\ Ops \subseteq AllOps
    /\ Sizes \subseteq Nat /\ Uninit \subseteq Nat /\ Space \in Nat
    /\ NONE \notin Files \cup Clients \cup Workers \cup Paths
    /\ FifoBound \in Nat /\ SizeBound \in Nat

VARIABLES
    Hash,         \* the table of the stored files
    fifo,         \* the list of the files to expel, oldest first
    actual_size,  \* the bytes the server believes it stores
    files,        \* the File structures, by address
    mtxhash,      \* the thread that holds it, or NONE
    mtxcon,       \* the thread that holds it, or NONE
    connected,    \* the clients whose descriptor is open
    requeued,     \* LOCKS requests put back in queueric
    th,           \* the local state of the threads
    fault         \* "none", or what the first undefined behaviour was

vars == <<Hash, fifo, actual_size, files, mtxhash, mtxcon, connected,
          requeued, th, fault>>

-----------------------------------------------------------------------------

\* A File: isopen and lock are one flag each for all the clients; fd is the
\* client that created it or locked it last; cont is a buffer of dim bytes
\* once the file is written.
File == [alive : BOOLEAN, path : Paths \cup {NONE}, isopen : {0, 1},
         lock : {0, 1}, fd : Clients \cup {NONE}, dim : Int,
         cont : {"null", "wild", "buffer"}, mtxf : Workers \cup {NONE}]

\* Freed, or not allocated yet.
NoFile == [alive |-> FALSE, path |-> NONE, isopen |-> 0, lock |-> 0,
           fd |-> NONE, dim |-> 0, cont |-> "null", mtxf |-> NONE]

\* The size of a request is that of its content, or the n of a READN.
Request == [op : Ops, path : Paths \cup {NONE}, size : Nat, fd : Clients]
NoRequest == [op |-> NONE, path |-> NONE, size |-> 0, fd |-> NONE]

WithContent == {"WRITE", "APPEND"}
WithoutPath == {"READN", "CLOSECONNECTION"}
Requests(c) ==
    [op : Ops \cap WithContent, path : Paths, size : Sizes, fd : {c}]
    \cup [op : Ops \ (WithContent \cup WithoutPath), path : Paths,
          size : {0}, fd : {c}]
    \cup [op : Ops \cap {"READN"}, path : {NONE}, size : {0, 1}, fd : {c}]
    \cup [op : Ops \cap {"CLOSECONNECTION"}, path : {NONE}, size : {0}, fd : {c}]

Status == {"SUCCESS", "NOTPRESENT", "YESCONTAIN", "NOTOPEN", "NOTLOCKED",
           "NOTPERMISSION", "TOMUCHFILE", "SERVERFULL", "EMPTY"}

Labels == {"idle", "check", "create", "createFull", "expel", "unlinkExpelled",
           "lookup", "accountAppend", "file", "accountRead", "account",
           "checkSpace", "evictBegin", "evict", "evictAccount", "evictSend",
           "enqueue", "appendCopy", "removeBegin", "removeUnlink",
           "removeFifo", "readFiles", "closeBegin", "closeWalk", "closing",
           "finish"}

Thread == [pc : Labels, req : Request \cup {NoRequest}, f : Files \cup {NONE},
           victim : Files \cup {NONE}, tmp : Int, ftosend : Seq(Files),
           todo : SUBSET Files, answer : Seq(Status)]

Idle == [pc |-> "idle", req |-> NoRequest, f |-> NONE, victim |-> NONE,
         tmp |-> 0, ftosend |-> <<>>, todo |-> {}, answer |-> <<>>]

TypeOK ==
    /\ Hash \in Tables
    /\ fifo \in ListOf(Entry)
    /\ actual_size \in Int
    /\ files \in [Files -> File]
    /\ mtxhash \in Workers \cup {NONE} /\ mtxcon \in Workers \cup {NONE}
    /\ connected \subseteq Clients
    /\ requeued \subseteq Request
    /\ th \in [Workers -> Thread]
    /\ fault \in {"none", "null", "freed", "wild"}

\* main(): h_create(), create(), and the threads started.
Init == /\ Hash = h_create
        /\ fifo = EmptyList
        /\ actual_size = 0
        /\ files = [a \in Files |-> NoFile]
        /\ mtxhash = NONE /\ mtxcon = NONE
        /\ connected = {} /\ requeued = {}
        /\ th = [w \in Workers |-> Idle]
        /\ fault = "none"

-----------------------------------------------------------------------------

\* Thread w is at one of these labels, in a program with defined behaviour.
At(w, labels) == fault = "none" /\ th[w].pc \in labels
Op(w) == th[w].req.op
Client(w) == th[w].req.fd
Path(w) == th[w].req.path

Goto(w, l) == th' = [th EXCEPT ![w].pc = l]
GotoWith(w, l, a) == th' = [th EXCEPT ![w].pc = l, ![w].f = a]

\* sendMessage(): the status s, after which the thread is at label l.
Send(w, s, l) == th' = [th EXCEPT ![w].pc = l, ![w].answer = Append(@, s)]

\* The thread's last step before the next request, with status s sent.
Answer(w, s) == Send(w, s, "finish")

Undefined(kind) == /\ fault' = kind
                   /\ UNCHANGED <<Hash, fifo, actual_size, files, mtxhash,
                                  mtxcon, connected, requeued, th>>

\* What the handlers of a request never touch, and what a step that only
\* moves its thread leaves alone.
Outside == <<mtxcon, connected, requeued, fault>>
Store == <<Hash, fifo, actual_size, files, mtxhash>>

\* Addresses no variable holds.
Fresh ==
    Files \ (Stored(Hash) \cup FilesIn(fifo)
             \cup UNION {{th[w].f, th[w].victim} \cup th[w].todo
                         \cup ToSet(th[w].ftosend) : w \in Workers})

\* filecreate(): isopen is set by every caller.
Created(p, c, locked, d, garbage) ==
    [alive |-> TRUE, path |-> p, isopen |-> 1, lock |-> locked, fd |-> c,
     dim |-> d, cont |-> garbage, mtxf |-> NONE]

-----------------------------------------------------------------------------
(* Clients and the queue of requests *)

\* dispatcher(): accept(), then activecon++ under mtxcon.
Accept(c) == /\ fault = "none" /\ mtxcon = NONE
             /\ c \notin connected
             /\ connected' = connected \cup {c}
             /\ UNCHANGED <<Store, mtxcon, requeued, th, fault>>

\* The thread has put the request back, and has nothing left to do with it.
PutBack(w) == th[w].pc = "finish" /\ th[w].answer = <<>>

\* c has a request in queueric, or one that a thread is serving.
Waiting(c) == \/ \E w \in Workers : Client(w) = c /\ ~PutBack(w)
              \/ \E r \in requeued : r.fd = c

\* The bounds of the model: on the requests that may make the list longer, the
\* count larger, or use a new address.
WithinBounds(op) ==
    /\ op = "WRITE" => Len(fifo.nodes) < FifoBound
    /\ op \in WithContent \cup {"REMOVE"} => actual_size \in -SizeBound .. SizeBound
    /\ op \in {"O_CREATE", "O_CRLK"} => Cardinality(Fresh) >= Cardinality(Workers)

\* The step of worker() that a request begins with.
Entrypoint(op) ==
    CASE op \in {"O_CREATE", "O_CRLK"} -> "check"
      [] op = "READN"                  -> "readFiles"
      [] op = "CLOSECONNECTION"        -> "closeBegin"
      [] OTHER                         -> "lookup"
Begin(w, r) == th' = [th EXCEPT ![w].pc = Entrypoint(r.op), ![w].req = r]

\* takeHead(queueric): a request that a client has sent,
Take(w, r) == /\ At(w, {"idle"}) /\ WithinBounds(r.op)
              /\ r.fd \in connected /\ ~Waiting(r.fd)
              /\ Begin(w, r)
              /\ UNCHANGED <<Store, Outside>>

\* (Mutant of TakeRequeued: the request is served and stays in the queue.)
TakeRequeuedTwice(w, r) == /\ At(w, {"idle"})
                           /\ r \in requeued
                           /\ Begin(w, r)
                           /\ UNCHANGED <<Store, Outside>>

\* or a LOCKS request that a thread has put back.
TakeRequeued(w, r) == /\ At(w, {"idle"})
                      /\ r \in requeued
                      /\ requeued' = requeued \ {r}
                      /\ Begin(w, r)
                      /\ UNCHANGED <<Store, mtxcon, connected, fault>>

\* The descriptor goes back to the dispatcher through the pipe.
Finish(w) == /\ At(w, {"finish"})
             /\ th' = [th EXCEPT ![w] = Idle]
             /\ UNCHANGED <<Store, Outside>>

-----------------------------------------------------------------------------
(* OPEN with O_CREATE, alone or or-ed with O_LOCK *)

\* (Mutant of CreateCheck: no contain().)
CreateCheckNoContain(w) ==
    /\ At(w, {"check"}) /\ mtxhash = NONE
    /\ Goto(w, IF Hash.nelem + 1 <= MaxF THEN "create" ELSE "createFull")
    /\ UNCHANGED <<Store, Outside>>

\* contain() and the test on nelem; mtxhash is released before the insertion.
CreateCheck(w) ==
    /\ At(w, {"check"}) /\ mtxhash = NONE
    /\ \/ /\ searchBucketSafe(Hash, Path(w)) /\ contain(Hash, Path(w))
          /\ Answer(w, "YESCONTAIN")
          /\ UNCHANGED <<Store, Outside>>
       \/ /\ searchBucketSafe(Hash, Path(w)) /\ ~contain(Hash, Path(w))
          /\ Goto(w, IF Hash.nelem + 1 <= MaxF THEN "create" ELSE "createFull")
          /\ UNCHANGED <<Store, Outside>>
       \/ ~searchBucketSafe(Hash, Path(w)) /\ Undefined("freed")

\* hashins(), without a second look.
CreateInsert(w) ==
    /\ At(w, {"create", "createFull"}) /\ mtxhash = NONE
    /\ \E a \in Fresh, d \in Uninit, garbage \in {"null", "wild"} :
         /\ Hash' = hashins(Hash, Path(w), a)
         /\ files' = [files EXCEPT ![a] =
                        Created(Path(w), Client(w),
                                IF Op(w) = "O_CRLK" THEN 1 ELSE 0, d, garbage)]
    /\ IF th[w].pc = "create" THEN Answer(w, "SUCCESS") ELSE Goto(w, "expel")
    /\ UNCHANGED <<fifo, actual_size, mtxhash, Outside>>

\* TOMUCHFILE: the head of fifo makes room. Its bytes stay in actual_size and
\* its File is not freed.
ExpelHead(w) ==
    /\ At(w, {"expel"})
    /\ \/ /\ takeHeadSafe(fifo)
          /\ fifo' = takeHead(fifo)
          /\ th' = [th EXCEPT ![w].pc = "unlinkExpelled",
                              ![w].f = Head(fifo.nodes).cont]
          /\ UNCHANGED <<Hash, actual_size, files, mtxhash, Outside>>
       \/ ~takeHeadSafe(fifo) /\ Undefined("null")

\* The file is sent, and unlinked by its name.
UnlinkExpelled(w) ==
    LET f == files[th[w].f]
    IN  /\ At(w, {"unlinkExpelled"}) /\ mtxhash = NONE
        /\ \/ /\ f.alive /\ h_deleteSafe(Hash, f.path)
              /\ Hash' = h_delete(Hash, f.path)
              /\ Answer(w, "TOMUCHFILE")
              /\ UNCHANGED <<fifo, actual_size, files, mtxhash, Outside>>
           \/ ~f.alive /\ Undefined("freed")
           \/ f.alive /\ ~h_deleteSafe(Hash, f.path) /\ Undefined("null")

-----------------------------------------------------------------------------
(* The requests on a stored file *)

\* contain() and getvalue(). The File is used after mtxhash is released,
\* except that APPEND first counts its bytes.
Lookup(w) ==
    /\ At(w, {"lookup"}) /\ mtxhash = NONE
    /\ \/ /\ searchBucketSafe(Hash, Path(w)) /\ contain(Hash, Path(w))
          /\ IF Op(w) = "APPEND"
             THEN /\ th' = [th EXCEPT ![w].pc = "accountAppend",
                                      ![w].f = getvalue(Hash, Path(w)),
                                      ![w].tmp = actual_size]
                  /\ mtxhash' = w
             ELSE GotoWith(w, "file", getvalue(Hash, Path(w))) /\ UNCHANGED mtxhash
          /\ UNCHANGED <<Hash, fifo, actual_size, files, Outside>>
       \/ /\ searchBucketSafe(Hash, Path(w)) /\ ~contain(Hash, Path(w))
          /\ Answer(w, "NOTPRESENT")
          /\ UNCHANGED <<Store, Outside>>
       \/ ~searchBucketSafe(Hash, Path(w)) /\ Undefined("freed")

\* (Mutant of AccountAppend: the bytes appended are not counted.)
AccountAppendNothing(w) == /\ At(w, {"accountAppend"})
                           /\ mtxhash' = NONE
                           /\ Goto(w, "file")
                           /\ UNCHANGED <<Hash, fifo, actual_size, files, Outside>>

\* Even if the file turns out not to be open.
AccountAppend(w) ==
    /\ At(w, {"accountAppend"})
    /\ actual_size' = th[w].tmp + th[w].req.size
    /\ mtxhash' = NONE
    /\ Goto(w, "file")
    /\ UNCHANGED <<Hash, fifo, files, Outside>>

\* A critical section on mtxf of the file that thread w has looked up.
OnFile(w, op) == /\ At(w, {"file"}) /\ Op(w) = op
                 /\ files[th[w].f].alive
                 /\ files[th[w].f].mtxf = NONE

\* LOCK(&(f->mtxf)) of a File that was freed since.
FileIsGone(w) == /\ At(w, {"file"})
                 /\ ~files[th[w].f].alive
                 /\ Undefined("freed")

\* The permission test of WRITE and READ.
Permitted(w, f) == f.lock = 0 \/ f.fd = Client(w)

OpenFile(w) == /\ OnFile(w, "O_OPEN")
               /\ files' = [files EXCEPT ![th[w].f].isopen = 1]
               /\ Answer(w, "SUCCESS")
               /\ UNCHANGED <<Hash, fifo, actual_size, mtxhash, Outside>>

\* (Mutant of OpenLock: the flag is used as a counter.)
OpenLockCounts(w) == /\ OnFile(w, "O_LOCK")
                     /\ files' = [files EXCEPT ![th[w].f].isopen = 1,
                                               ![th[w].f].lock = @ + 1,
                                               ![th[w].f].fd = Client(w)]
                     /\ Answer(w, "SUCCESS")
                     /\ UNCHANGED <<Hash, fifo, actual_size, mtxhash, Outside>>

\* O_LOCK does not look at the lock there may be.
OpenLock(w) == /\ OnFile(w, "O_LOCK")
               /\ files' = [files EXCEPT ![th[w].f].isopen = 1,
                                         ![th[w].f].lock = 1,
                                         ![th[w].f].fd = Client(w)]
               /\ Answer(w, "SUCCESS")
               /\ UNCHANGED <<Hash, fifo, actual_size, mtxhash, Outside>>

\* (Mutant of Locks: the owner is not recorded.)
LocksNoOwner(w) ==
    LET f == files[th[w].f]
    IN  /\ OnFile(w, "LOCKS")
        /\ \/ /\ f.isopen = 1 /\ Permitted(w, f)
              /\ files' = [files EXCEPT ![th[w].f].lock = 1]
              /\ Answer(w, "SUCCESS")
              /\ UNCHANGED requeued
           \/ /\ f.isopen = 1 /\ ~Permitted(w, f)
              /\ requeued' = requeued \cup {th[w].req}
              /\ Goto(w, "finish")
              /\ UNCHANGED files
           \/ /\ f.isopen = 0
              /\ Answer(w, "NOTOPEN")
              /\ UNCHANGED <<files, requeued>>
        /\ UNCHANGED <<Hash, fifo, actual_size, mtxhash, mtxcon, connected, fault>>

\* The lock is taken if it is free; the request is put back in queueric if
\* another client has it.
Locks(w) ==
    LET f == files[th[w].f]
    IN  /\ OnFile(w, "LOCKS")
        /\ \/ /\ f.isopen = 1 /\ Permitted(w, f)
              /\ files' = [files EXCEPT ![th[w].f].lock = 1,
                                        ![th[w].f].fd = Client(w)]
              /\ Answer(w, "SUCCESS")
              /\ UNCHANGED requeued
           \/ /\ f.isopen = 1 /\ ~Permitted(w, f)
              /\ requeued' = requeued \cup {th[w].req}
              /\ Goto(w, "finish")
              /\ UNCHANGED files
           \/ /\ f.isopen = 0
              /\ Answer(w, "NOTOPEN")
              /\ UNCHANGED <<files, requeued>>
        /\ UNCHANGED <<Hash, fifo, actual_size, mtxhash, mtxcon, connected, fault>>

\* (Mutant of Unlocks: any client may unlock.)
UnlocksAny(w) == /\ OnFile(w, "UNLOCKS")
                 /\ files' = [files EXCEPT ![th[w].f].lock = 0]
                 /\ Answer(w, "SUCCESS")
                 /\ UNCHANGED <<Hash, fifo, actual_size, mtxhash, Outside>>

\* Only the client in fd may unlock; whether there is a lock is not tested.
Unlocks(w) ==
    LET f == files[th[w].f]
    IN  /\ OnFile(w, "UNLOCKS")
        /\ \/ /\ f.fd = Client(w)
              /\ files' = [files EXCEPT ![th[w].f].lock = 0]
              /\ Answer(w, "SUCCESS")
           \/ /\ f.fd # Client(w)
              /\ Answer(w, "NOTPERMISSION")
              /\ UNCHANGED files
        /\ UNCHANGED <<Hash, fifo, actual_size, mtxhash, Outside>>

\* (Mutant of Close: no answer.)
CloseNoAnswer(w) == /\ OnFile(w, "CLOSE")
                    /\ files' = [files EXCEPT ![th[w].f].isopen = 0]
                    /\ Goto(w, "finish")
                    /\ UNCHANGED <<Hash, fifo, actual_size, mtxhash, Outside>>

\* CLOSE clears the one flag isopen, whoever else has the file open.
Close(w) == /\ OnFile(w, "CLOSE")
            /\ files' = [files EXCEPT ![th[w].f].isopen = 0]
            /\ Answer(w, "SUCCESS")
            /\ UNCHANGED <<Hash, fifo, actual_size, mtxhash, Outside>>

\* The content is sent to the client under mtxf.
Read(w) ==
    LET f == files[th[w].f]
    IN  /\ OnFile(w, "READ")
        /\ Answer(w, CASE f.isopen = 0 -> "NOTOPEN"
                       [] f.isopen = 1 /\ ~Permitted(w, f) -> "NOTPERMISSION"
                       [] OTHER -> "SUCCESS")
        /\ UNCHANGED <<Store, Outside>>

-----------------------------------------------------------------------------
(* WRITE and APPEND *)

\* appendFile() overwrites cont and dim.
Write(w) ==
    LET f == files[th[w].f]
    IN  /\ OnFile(w, "WRITE")
        /\ \/ /\ f.isopen = 1 /\ Permitted(w, f)
              /\ files' = [files EXCEPT ![th[w].f].dim = th[w].req.size,
                                        ![th[w].f].cont = "buffer"]
              /\ Goto(w, "accountRead")
           \/ /\ f.isopen = 0
              /\ Answer(w, "NOTOPEN")
              /\ UNCHANGED files
           \/ /\ f.isopen = 1 /\ ~Permitted(w, f)
              /\ Answer(w, "NOTPERMISSION")
              /\ UNCHANGED files
        /\ UNCHANGED <<Hash, fifo, actual_size, mtxhash, Outside>>

\* actual_size=actual_size+r->size with no mutex held, and the bytes that
\* the file had are not subtracted.
AccountRead(w) == /\ At(w, {"accountRead"})
                  /\ th' = [th EXCEPT ![w].pc = "account",
                                      ![w].tmp = actual_size]
                  /\ UNCHANGED <<Store, Outside>>
Account(w) == /\ At(w, {"account"})
              /\ actual_size' = th[w].tmp + th[w].req.size
              /\ Goto(w, "checkSpace")
              /\ UNCHANGED <<Hash, fifo, files, mtxhash, Outside>>

\* SERVERFULL is sent before the files that make room.
CheckSpace(w) == /\ At(w, {"checkSpace"})
                 /\ IF actual_size < Space THEN Send(w, "SUCCESS", "enqueue")
                    ELSE Send(w, "SERVERFULL", "evictBegin")
                 /\ UNCHANGED <<Store, Outside>>

\* insertT(fifo,...), after every WRITE.
Enqueue(w) ==
    LET f == files[th[w].f]
    IN  /\ At(w, {"enqueue"})
        /\ \/ /\ f.alive /\ insertTSafe(fifo)
              /\ fifo' = insertT(fifo, [key |-> f.path, cont |-> th[w].f])
              /\ Goto(w, "finish")
              /\ UNCHANGED <<Hash, actual_size, files, mtxhash, Outside>>
           \/ ~(f.alive /\ insertTSafe(fifo)) /\ Undefined("freed")

\* (Mutant of AppendBegin: the test is on the total before the request.)
AppendBeginLax(w) ==
    LET f == files[th[w].f]
    IN  /\ OnFile(w, "APPEND")
        /\ \/ /\ f.isopen = 1
              /\ files' = [files EXCEPT ![th[w].f].mtxf = w]
              /\ IF actual_size > Space + th[w].req.size
                 THEN Send(w, "SERVERFULL", "evictBegin")
                 ELSE Goto(w, "appendCopy")
           \/ f.isopen = 0 /\ Answer(w, "NOTOPEN") /\ UNCHANGED files
        /\ UNCHANGED <<Hash, fifo, actual_size, mtxhash, Outside>>

\* mtxf is held from here to AppendCopy. No test of the lock's owner.
AppendBegin(w) ==
    LET f == files[th[w].f]
    IN  /\ OnFile(w, "APPEND")
        /\ \/ /\ f.isopen = 1
              /\ files' = [files EXCEPT ![th[w].f].mtxf = w]
              /\ IF actual_size > Space THEN Send(w, "SERVERFULL", "evictBegin")
                 ELSE Goto(w, "appendCopy")
           \/ /\ f.isopen = 0
              /\ Answer(w, "NOTOPEN")
              /\ UNCHANGED files
        /\ UNCHANGED <<Hash, fifo, actual_size, mtxhash, Outside>>

\* The old content is copied, then freed.
AppendCopy(w) ==
    LET f == files[th[w].f]
        copied == f.cont = "buffer" \/ (f.cont = "null" /\ f.dim = 0)
    IN  /\ At(w, {"appendCopy"})
        /\ \/ /\ f.alive /\ copied
              /\ files' = [files EXCEPT ![th[w].f].dim = @ + th[w].req.size,
                                        ![th[w].f].cont = "buffer",
                                        ![th[w].f].mtxf = NONE]
              /\ Answer(w, "SUCCESS")
              /\ UNCHANGED <<Hash, fifo, actual_size, mtxhash, Outside>>
           \/ ~f.alive /\ Undefined("freed")
           \/ f.alive /\ ~copied /\ Undefined(f.cont)

-----------------------------------------------------------------------------
(* Handlercapacity(), with mtxhash held from EvictBegin to EvictEnd *)

EvictBegin(w) == /\ At(w, {"evictBegin"}) /\ mtxhash = NONE
                 /\ mtxhash' = w
                 /\ Goto(w, "evict")
                 /\ UNCHANGED <<Hash, fifo, actual_size, files, Outside>>

\* The loop: the head of fifo, as long as there are too many bytes.
EvictTake(w) ==
    /\ At(w, {"evict"}) /\ actual_size > Space
    /\ \/ /\ takeHeadSafe(fifo)
          /\ fifo' = takeHead(fifo)
          /\ th' = [th EXCEPT ![w].pc = "evictAccount",
                              ![w].victim = Head(fifo.nodes).cont,
                              ![w].tmp = actual_size]
          /\ UNCHANGED <<Hash, actual_size, files, mtxhash, Outside>>
       \/ ~takeHeadSafe(fifo) /\ Undefined("null")

EvictAccount(w) ==
    LET f == files[th[w].victim]
    IN  /\ At(w, {"evictAccount"})
        /\ \/ /\ f.alive
              /\ actual_size' = th[w].tmp - f.dim
              /\ th' = [th EXCEPT ![w].pc = "evict", ![w].victim = NONE,
                                  ![w].ftosend = Append(@, th[w].victim)]
              /\ UNCHANGED <<Hash, fifo, files, mtxhash, Outside>>
           \/ ~f.alive /\ Undefined("freed")

\* The loop ends.
EvictEnough(w) == /\ At(w, {"evict"}) /\ actual_size <= Space
                  /\ Goto(w, "evictSend")
                  /\ UNCHANGED <<Store, Outside>>

\* (Mutant of EvictSend: the file stays in the table.)
EvictSendNoDelete(w) ==
    /\ At(w, {"evictSend"}) /\ th[w].ftosend # <<>>
    /\ files[Head(th[w].ftosend)].alive
    /\ files' = [files EXCEPT ![Head(th[w].ftosend)] = NoFile]
    /\ th' = [th EXCEPT ![w].ftosend = Tail(@)]
    /\ UNCHANGED <<Hash, fifo, actual_size, mtxhash, Outside>>

\* Each file is sent, unlinked by its name, and freed.
EvictSend(w) ==
    LET a == Head(th[w].ftosend)
        f == files[a]
        defined == f.alive /\ f.cont # "wild" /\ h_deleteSafe(Hash, f.path)
    IN  /\ At(w, {"evictSend"}) /\ th[w].ftosend # <<>>
        /\ \/ /\ defined
              /\ Hash' = h_delete(Hash, f.path)
              /\ files' = [files EXCEPT ![a] = NoFile]
              /\ th' = [th EXCEPT ![w].ftosend = Tail(@)]
              /\ UNCHANGED <<fifo, actual_size, mtxhash, Outside>>
           \/ ~defined /\ Undefined(IF ~f.alive THEN "freed"
                                    ELSE IF ~h_deleteSafe(Hash, f.path)
                                    THEN "null" ELSE "wild")

\* Back in WRITE or APPEND.
EvictEnd(w) == /\ At(w, {"evictSend"}) /\ th[w].ftosend = <<>>
               /\ mtxhash' = NONE
               /\ Goto(w, IF Op(w) = "WRITE" THEN "enqueue" ELSE "appendCopy")
               /\ UNCHANGED <<Hash, fifo, actual_size, files, Outside>>

-----------------------------------------------------------------------------
(* REMOVE, READN, CLOSECONNECTION *)

\* (Mutant of RemoveCheck: mtxf is kept for the removal.)
RemoveCheckKeepsMutex(w) ==
    LET f == files[th[w].f]
    IN  /\ OnFile(w, "REMOVE")
        /\ \/ f.lock = 0 /\ Answer(w, "NOTLOCKED") /\ UNCHANGED files
           \/ /\ f.lock = 1 /\ f.fd = Client(w) /\ Goto(w, "removeBegin")
              /\ files' = [files EXCEPT ![th[w].f].mtxf = w]
           \/ /\ f.lock = 1 /\ f.fd # Client(w) /\ Answer(w, "NOTPERMISSION")
              /\ UNCHANGED files
        /\ UNCHANGED <<Hash, fifo, actual_size, mtxhash, Outside>>

\* The lock is tested under mtxf, which is released before the removal.
RemoveCheck(w) ==
    LET f == files[th[w].f]
    IN  /\ OnFile(w, "REMOVE")
        /\ \/ f.lock = 0 /\ Answer(w, "NOTLOCKED")
           \/ f.lock = 1 /\ f.fd = Client(w) /\ Goto(w, "removeBegin")
           \/ f.lock = 1 /\ f.fd # Client(w) /\ Answer(w, "NOTPERMISSION")
        /\ UNCHANGED <<Store, Outside>>

RemoveBegin(w) == /\ At(w, {"removeBegin"}) /\ mtxhash = NONE
                  /\ mtxhash' = w
                  /\ th' = [th EXCEPT ![w].pc = "removeUnlink",
                                      ![w].tmp = actual_size]
                  /\ UNCHANGED <<Hash, fifo, actual_size, files, Outside>>

RemoveUnlink(w) ==
    LET f == files[th[w].f]
    IN  /\ At(w, {"removeUnlink"})
        /\ \/ /\ f.alive /\ h_deleteSafe(Hash, f.path)
              /\ actual_size' = th[w].tmp - f.dim
              /\ Hash' = h_delete(Hash, f.path)
              /\ mtxhash' = NONE
              /\ Goto(w, "removeFifo")
              /\ UNCHANGED <<fifo, files, Outside>>
           \/ ~f.alive /\ Undefined("freed")
           \/ f.alive /\ ~h_deleteSafe(Hash, f.path) /\ Undefined("null")

\* delete(fifo,...) by name, then the content and the File are freed.
RemoveFifo(w) ==
    LET f == files[th[w].f]
        defined == f.alive /\ f.cont # "wild" /\ deleteSafe(fifo)
    IN  /\ At(w, {"removeFifo"})
        /\ \/ /\ defined
              /\ fifo' = delete(fifo, f.path)
              /\ files' = [files EXCEPT ![th[w].f] = NoFile]
              /\ Answer(w, "SUCCESS")
              /\ UNCHANGED <<Hash, actual_size, mtxhash, Outside>>
           \/ ~defined /\ Undefined(IF ~f.alive THEN "freed"
                                    ELSE IF ~deleteSafe(fifo) THEN "null"
                                    ELSE "wild")

\* readFiles() reads the files it sends without their mtxf.
ReadN(w) ==
    LET sent == FilesSent(Hash, th[w].req.size)
    IN  /\ At(w, {"readFiles"}) /\ mtxhash = NONE
        /\ \/ Hash.nelem = 0 /\ Answer(w, "EMPTY") /\ UNCHANGED <<Store, Outside>>
           \/ /\ Hash.nelem # 0 /\ \A a \in sent : files[a].alive
              /\ Answer(w, "SUCCESS")
              /\ UNCHANGED <<Store, Outside>>
           \/ /\ Hash.nelem # 0 /\ \E a \in sent : ~files[a].alive
              /\ Undefined("freed")

\* The answer is sent before relaselock().
CloseBegin(w) == /\ At(w, {"closeBegin"}) /\ mtxcon = NONE
                 /\ mtxcon' = w
                 /\ Send(w, "SUCCESS", "closeWalk")
                 /\ UNCHANGED <<Store, connected, requeued, fault>>

\* relaselock(): mtxhash is held while the stored files are visited,
CloseWalk(w) == /\ At(w, {"closeWalk"}) /\ mtxhash = NONE
                /\ mtxhash' = w
                /\ th' = [th EXCEPT ![w].pc = "closing",
                                    ![w].todo = Stored(Hash)]
                /\ UNCHANGED <<Hash, fifo, actual_size, files, Outside>>

\* each under its own mtxf; their order in the table is left open.
CloseUnlock(w, a) ==
    /\ At(w, {"closing"}) /\ a \in th[w].todo
    /\ \/ /\ files[a].alive /\ files[a].mtxf = NONE
          /\ files' = [files EXCEPT ![a].lock =
                         IF files[a].fd = Client(w) THEN 0 ELSE @]
          /\ th' = [th EXCEPT ![w].todo = @ \ {a}]
          /\ UNCHANGED <<Hash, fifo, actual_size, mtxhash, Outside>>
       \/ ~files[a].alive /\ Undefined("freed")

\* close(): the descriptor may be given to a new client. It does not go back
\* to the dispatcher.
CloseEnd(w) == /\ At(w, {"closing"}) /\ th[w].todo = {}
               /\ mtxhash' = NONE /\ mtxcon' = NONE
               /\ connected' = connected \ {Client(w)}
               /\ th' = [th EXCEPT ![w] = Idle]
               /\ UNCHANGED <<Hash, fifo, actual_size, files, requeued, fault>>

-----------------------------------------------------------------------------

\* What thread w does for the request it has taken.
Serve(w) ==
    \/ CreateCheck(w) \/ CreateInsert(w) \/ ExpelHead(w) \/ UnlinkExpelled(w)
    \/ Lookup(w) \/ AccountAppend(w) \/ FileIsGone(w)
    \/ OpenFile(w) \/ OpenLock(w) \/ Locks(w) \/ Unlocks(w) \/ Close(w)
    \/ Read(w) \/ Write(w) \/ AccountRead(w) \/ Account(w) \/ CheckSpace(w)
    \/ Enqueue(w) \/ AppendBegin(w) \/ AppendCopy(w)
    \/ EvictBegin(w) \/ EvictTake(w) \/ EvictAccount(w) \/ EvictEnough(w)
    \/ EvictSend(w) \/ EvictEnd(w)
    \/ RemoveCheck(w) \/ RemoveBegin(w) \/ RemoveUnlink(w) \/ RemoveFifo(w)
    \/ ReadN(w) \/ CloseBegin(w) \/ CloseWalk(w)
    \/ \E a \in Files : CloseUnlock(w, a)
    \/ CloseEnd(w) \/ Finish(w)

\* The program has stopped at a fault.
Halted == fault # "none" /\ UNCHANGED vars

Next == \/ \E c \in Clients : Accept(c)
        \/ \E w \in Workers, c \in Clients : \E r \in Requests(c) : Take(w, r)
        \/ \E w \in Workers, r \in requeued : TakeRequeued(w, r)
        \/ \E w \in Workers : Serve(w)
        \/ Halted

Spec == Init /\ [][Next]_vars

-----------------------------------------------------------------------------
(* Properties, for any number of threads *)

\* hashins() and h_delete() keep the counter that O_CREATE and READN test
\* equal to the number of nodes, whatever the threads insert and delete.
NelemCounts == Hash.nelem = SumFunction(Lengths(Hash))

\* A stored file is locked by a client that is connected: relaselock() leaves
\* no lock behind that nobody can release any more, and a later client with
\* the same descriptor inherits none.
LocksOwned == \A a \in Stored(Hash) : files[a].lock = 1 => files[a].fd \in connected

\* The protocol is request and answer (README.md:14, "richiesta-risposta"):
\* when a thread is done with a request it has sent one status, or none if the
\* request is a LOCKS that goes on waiting in queueric.
Answered == \A w \in Workers :
    th[w].pc = "finish" => \/ Len(th[w].answer) = 1
                           \/ PutBack(w) /\ Op(w) = "LOCKS"

\* A client that has a file locked loses it only by its own UNLOCKS, by the end
\* of its connection, or with the file.
LockStable == [][\A a \in Stored(Hash) :
    files[a].lock = 1 /\ files'[a].alive =>
        \/ files'[a].lock = 1 /\ files'[a].fd = files[a].fd
        \/ \E w \in Workers : /\ Op(w) \in {"UNLOCKS", "CLOSECONNECTION"}
                              /\ Client(w) = files[a].fd]_vars

\* What thread w is waiting for: the threads that hold what it needs next.
WaitsFor(w) ==
    LET pc == th[w].pc
        holder == CASE pc \in {"check", "create", "createFull", "unlinkExpelled",
                               "lookup", "evictBegin", "removeBegin",
                               "readFiles", "closeWalk"} -> {mtxhash}
                    [] pc = "closeBegin" -> {mtxcon}
                    [] pc = "file"       -> {files[th[w].f].mtxf}
                    [] pc = "closing"    ->
                         IF \E a \in th[w].todo : files[a].mtxf = NONE THEN {}
                         ELSE {files[a].mtxf : a \in th[w].todo}
                    [] OTHER             -> {}
    IN  holder \ {NONE}

\* No threads wait for each other: mtxcon, mtxhash and mtxf are nested in one
\* order.
NoLockCycle == \A S \in SUBSET Workers :
    S # {} => \E w \in S : WaitsFor(w) \cap S = {}

\* No two stored files have the same path (README.md:14, "Un file e'
\* identificato univocamente dal suo path assoluto").
UniquePaths == \A s \in Slots : \A i, j \in 1 .. Len(Hash.buckets[s].nodes) :
    i # j => Hash.buckets[s].nodes[i].key # Hash.buckets[s].nodes[j].key

\* A File is not freed while a thread still has to use it (README.md:10, "un
\* singolo processo multi-threaded in grado di accettare connessioni da
\* multipli client").
UsedFileIsAlive == \A w \in Workers :
    th[w].pc \in {"file", "enqueue", "appendCopy", "removeUnlink", "removeFifo"}
        => files[th[w].f].alive

-----------------------------------------------------------------------------
(* Why LocksOwned holds: the invariant that the steps preserve *)

PathLabels == {"check", "create", "createFull", "lookup", "accountAppend",
               "file"}
FileLabels == {"unlinkExpelled", "accountAppend", "file", "accountRead",
               "account", "checkSpace", "evictBegin", "evict", "evictAccount",
               "evictSend", "enqueue", "appendCopy", "removeBegin",
               "removeUnlink", "removeFifo"}
HoldLabels == {"accountAppend", "evict", "evictAccount", "evictSend",
               "removeUnlink", "closing"}

\* What a thread's label says of its variables.
LocalOK(t) == /\ t.pc = "idle" => t = Idle
              /\ t.pc # "idle" => t.req \in Request
              /\ t.pc \in PathLabels => t.req.path \in Paths
              /\ t.pc \in FileLabels => t.f \in Files
              /\ t.pc = "evictAccount" => t.victim \in Files
              /\ t.pc \in {"lookup", "accountAppend", "file"} => t.answer = <<>>

ThreadsOK == \A w \in Workers : LocalOK(th[w])
Named == \A a \in Files : files[a].alive => files[a].path \in Paths
Exclusive == \A w \in Workers : th[w].pc \in HoldLabels => mtxhash = w

\* A client that is connected has one request at a time, in one place.
Busy(w) == th[w].pc # "idle" /\ ~PutBack(w)
OneRequest ==
    /\ \A w \in Workers : Busy(w) => Client(w) \in connected
    /\ \A r \in requeued : r.fd \in connected /\ r.path \in Paths
    /\ \A v, w \in Workers : Busy(v) /\ Busy(w) /\ v # w => Client(v) # Client(w)
    /\ \A w \in Workers, r \in requeued : Busy(w) => Client(w) # r.fd
    /\ \A q, r \in requeued : q.fd = r.fd => q = r

\* While relaselock() walks, the locks of its client are those not met yet.
StillToRelease == \A w \in Workers : th[w].pc = "closing" =>
    \A a \in Stored(Hash) :
        files[a].lock = 1 /\ files[a].fd = Client(w) => a \in th[w].todo

IInv == /\ TypeOK /\ ThreadsOK /\ Named /\ Exclusive
        /\ OneRequest /\ StillToRelease /\ LocksOwned

-----------------------------------------------------------------------------
(* Properties of a server with one thread *)

Quiet == fault = "none" /\ \A w \in Workers : th[w].pc \in {"idle", "finish"}

\* The stored files that have been written.
Written == {a \in Stored(Hash) : files[a].cont = "buffer"}
BytesStored == SumFunctionOnSet([a \in Files |-> files[a].dim], Written)

\* The table refers to no file that has been freed.
HashLive == \A a \in Stored(Hash) : files[a].alive

\* The byte count never falls below what is stored, so that the tests on it
\* are on the safe side.
AccountCovers == Quiet => actual_size >= BytesStored

\* Between requests the stored files fit in the space configured
\* (server.c:45, "spazio massimo").
WithinSpace == Quiet => BytesStored <= Space
=============================================================================
