------------------------------- MODULE Client -------------------------------
(***************************************************************************)
(* The programs of source/client.c: each client carries out the options of *)
(* its command line by calls of the API (ClientApi), one after the other,  *)
(* while the other clients do the same. A step is the code between two     *)
(* calls. The delay of -t, between the calls, is left to interleaving.     *)
(***************************************************************************)
EXTENDS ClientApi

CONSTANTS Scripts,    \* the command lines that the clients may be given together
          Entries,    \* the entries of each directory, as readdir() lists them
          Hidden,     \* the directories whose name ends with a dot
          ParseMax    \* N of stringutil.c: the length parse_str() allocates

VARIABLE prog   \* the program of each client

vars == <<apivars, prog>>

\* A command line: is there -p, the folders of -d and -D, and the other options.
Option == [opt : {"W", "w", "r", "a", "l", "u", "c", "R"},
           args : Seq(Paths), dir : DOMAIN Entries \cup {NONE}, n : Nat]
Command == [p : BOOLEAN, d : Folders, D : Folders, opts : Seq(Option)]

ASSUME ClientAssumption == /\ \A s \in Scripts : s \in [Clients -> Command]
                           /\ Entries \in [DOMAIN Entries -> Seq(Paths \cup DOMAIN Entries)]
                           /\ Hidden \subseteq DOMAIN Entries /\ ParseMax \in Nat

\* A program: its command line, the files it still has to treat, what readFile()
\* last returned to letturaFiles() and the buffer it filled, and the walk of -w:
\* what is left of each open directory, nvisit, and the files offered so far.
Program(m) == [cmd |-> m, opts |-> m.opts, at |-> "option", files |-> <<>>,
               result2 |-> 0, buf |-> "none", walk |-> <<>>, nvisit |-> 0,
               offered |-> <<>>]

Init == /\ ApiInit
        /\ prog \in {[c \in Clients |-> Program(s[c])] : s \in Scripts}

-----------------------------------------------------------------------------

opt(c) == Head(prog[c].opts).opt
name(c) == Head(prog[c].files)
result(c) == call[c].ret

\* Client c has come to label "at", in one of the options "os".
At(c, at, os) == /\ Free(c) /\ ~(conn[c] = "failed" /\ prog[c].cmd.p)
                 /\ prog[c].at = at /\ prog[c].opts # <<>> /\ opt(c) \in os
AtFile(c, at, os) == At(c, at, os) /\ prog[c].files # <<>>

Now(c, g) == prog' = [prog EXCEPT ![c] = g]
Goto(c, at) == Now(c, [prog[c] EXCEPT !.at = at])
NextFile(c) == Now(c, [prog[c] EXCEPT !.at = "open", !.files = Tail(@)])
NextOption(c) == Now(c, [prog[c] EXCEPT !.at = "option", !.opts = Tail(@), !.files = <<>>,
                                        !.result2 = 0, !.buf = "none"])
Quietly == UNCHANGED apivars
Stop(c) == Exit(c) /\ UNCHANGED <<server, sent, now, cause, fault, prog>>
Breaks(f) == fault' = f /\ UNCHANGED <<server, sent, sock, conn, now, call, cause, prog>>

\* -f where the server is not: with -p the client ends, without it goes on.
GiveUp(c) == Free(c) /\ conn[c] = "failed" /\ prog[c].cmd.p /\ Stop(c)

\* parse_str() has room for ParseMax names. The realloc() that should make more
\* loses the array: if it moves, or one more name is stored, anything happens.
ParseBreaks(c) ==
    /\ At(c, "option", {"W", "r", "l", "u", "c", "a"})
    /\ Len(Head(prog[c].opts).args) >= ParseMax
    /\ Breaks("wild")
Parsed(c) == Len(Head(prog[c].opts).args) <= ParseMax

BeginFiles(c) ==
    /\ At(c, "option", {"W", "r", "l", "u", "c"}) /\ Parsed(c)
    /\ Now(c, [prog[c] EXCEPT !.at = "open", !.files = Head(prog[c].opts).args])
    /\ Quietly

\* -a <file>,<file with the content>: with fewer names it uses what is not there.
BeginAppend(c) ==
    LET args == Head(prog[c].opts).args
    IN  /\ At(c, "option", {"a"}) /\ Parsed(c)
        /\ \/ Len(args) < 2 /\ Breaks("wild")
           \/ /\ Len(args) > 2 \/ (Len(args) = 2 /\ args[2] \notin Local)
              /\ NextOption(c) /\ Quietly
           \/ /\ Len(args) = 2 /\ args[2] \in Local
              /\ Now(c, [prog[c] EXCEPT !.at = "open", !.files = <<args[1]>>])
              /\ Quietly

\* -w <dir>[,n]
BeginWalk(c) ==
    LET o == Head(prog[c].opts)
    IN  /\ At(c, "option", {"w"})
        /\ \/ o.dir = NONE /\ Stop(c)
           \/ /\ o.dir # NONE
              /\ Now(c, [prog[c] EXCEPT !.at = "walk", !.walk = <<Entries[o.dir]>>,
                                        !.nvisit = IF o.n = 0 THEN -1 ELSE o.n,
                                        !.offered = <<>>])
              /\ Quietly

\* (Mutant of visitaDir: it stops one file early.)
visitaDirLess(c) ==
    LET w == prog[c].walk
        e == Head(Head(w))
        rest == <<Tail(Head(w))>> \o Tail(w)
        step(g) == Now(c, g) /\ Quietly
    IN  /\ At(c, "walk", {"w"})
        /\ \/ w = <<>> /\ NextOption(c) /\ Quietly
           \/ /\ w # <<>> /\ (Head(w) = <<>> \/ prog[c].nvisit = 1)
              /\ step([prog[c] EXCEPT !.walk = Tail(w)])
           \/ /\ w # <<>> /\ Head(w) # <<>> /\ prog[c].nvisit # 1
              /\ step(IF e \notin DOMAIN Entries
                      THEN [prog[c] EXCEPT !.walk = rest, !.nvisit = @ - 1, !.files = <<e>>,
                                           !.at = "open", !.offered = Append(@, e)]
                      ELSE IF e \in Hidden THEN [prog[c] EXCEPT !.walk = rest]
                      ELSE [prog[c] EXCEPT !.walk = <<Entries[e]>> \o rest])

\* The recursion of visitaDir(): one entry of the innermost directory, or its end.
visitaDir(c) ==
    LET w == prog[c].walk
        e == Head(Head(w))
        rest == <<Tail(Head(w))>> \o Tail(w)
        step(g) == Now(c, g) /\ Quietly
    IN  /\ At(c, "walk", {"w"})
        /\ \/ w = <<>> /\ NextOption(c) /\ Quietly
           \/ /\ w # <<>> /\ (Head(w) = <<>> \/ prog[c].nvisit = 0)
              /\ step([prog[c] EXCEPT !.walk = Tail(w)])
           \/ /\ w # <<>> /\ Head(w) # <<>> /\ prog[c].nvisit # 0
              /\ step(IF e \notin DOMAIN Entries
                      THEN [prog[c] EXCEPT !.walk = rest, !.nvisit = @ - 1, !.files = <<e>>,
                                           !.at = "open", !.offered = Append(@, e)]
                      ELSE IF e \in Hidden THEN [prog[c] EXCEPT !.walk = rest]
                      ELSE [prog[c] EXCEPT !.walk = <<Entries[e]>> \o rest])

\* The loop over the files ends.
EndFiles(c) == /\ At(c, "open", {"W", "w", "r", "a", "l", "u", "c"})
               /\ prog[c].files = <<>>
               /\ IF opt(c) = "w" THEN Goto(c, "walk") ELSE NextOption(c)
               /\ Quietly

\* (Mutant of CreateWrite: the file is closed before it is written.)
CreateWriteClosed(c) ==
    \/ AtFile(c, "open", {"W", "w"}) /\ openFile(c, "O_CREATE", name(c)) /\ Goto(c, "opened")
    \/ /\ AtFile(c, "opened", {"W", "w"})
       /\ \/ result(c) = 1 /\ closeFile(c, name(c)) /\ Goto(c, "used")
          \/ result(c) # 1 /\ NextFile(c) /\ Quietly
    \/ /\ AtFile(c, "used", {"W", "w"})
       /\ writeFile(c, name(c), prog[c].cmd.D) /\ NextFile(c)

\* -W, and writeF() of -w: create, write, close.
CreateWrite(c) ==
    \/ AtFile(c, "open", {"W", "w"}) /\ openFile(c, "O_CREATE", name(c)) /\ Goto(c, "opened")
    \/ /\ AtFile(c, "opened", {"W", "w"})
       /\ \/ result(c) = 1 /\ writeFile(c, name(c), prog[c].cmd.D) /\ Goto(c, "used")
          \/ result(c) # 1 /\ NextFile(c) /\ Quietly
    \/ AtFile(c, "used", {"W", "w"}) /\ closeFile(c, name(c)) /\ NextFile(c)

\* -r: result2 is that of the file before where this one cannot be opened.
letturaFiles(c) ==
    \/ AtFile(c, "open", {"r"}) /\ openFile(c, "O_OPEN", name(c)) /\ Goto(c, "opened")
    \/ /\ AtFile(c, "opened", {"r"})
       /\ \/ result(c) = 1 /\ readFile(c, name(c)) /\ Goto(c, "used")
          \/ result(c) # 1 /\ prog[c].result2 = 1 /\ Goto(c, "got") /\ Quietly
          \/ result(c) # 1 /\ prog[c].result2 # 1 /\ NextFile(c) /\ Quietly
    \/ /\ AtFile(c, "used", {"r"})
       /\ IF result(c) = 1
          THEN Now(c, [prog[c] EXCEPT !.at = "got", !.result2 = 1, !.buf = "held"])
          ELSE Now(c, [prog[c] EXCEPT !.at = "open", !.result2 = -1, !.files = Tail(@)])
       /\ Quietly

\* What is done with the file read: an empty one, or a bad folder, ends the
\* option; the file is closed unless the folder is a file.
saveFile(c) ==
    LET d == prog[c].cmd.d
        empty == call[c].op = "READ" /\ call[c].size = 0
    IN  /\ AtFile(c, "got", {"r"})
        /\ \/ d = "none" /\ closeFile(c, name(c)) /\ NextFile(c)
           \/ d = "file" /\ NextFile(c) /\ Quietly
           \/ d = "bad" /\ NextOption(c) /\ Quietly
           \/ d = "dir" /\ prog[c].buf = "freed" /\ Breaks("freed")
           \/ d = "dir" /\ prog[c].buf = "held" /\ empty /\ NextOption(c) /\ Quietly
           \/ /\ d = "dir" /\ prog[c].buf = "held" /\ ~empty
              /\ closeFile(c, name(c))
              /\ Now(c, [prog[c] EXCEPT !.at = "open", !.files = Tail(@), !.buf = "freed"])

\* -a: the file is closed even where it could not be opened.
append(c) ==
    \/ AtFile(c, "open", {"a"}) /\ openFile(c, "O_OPEN", name(c)) /\ Goto(c, "opened")
    \/ /\ AtFile(c, "opened", {"a"})
       /\ \/ result(c) = 1 /\ appendToFile(c, name(c)) /\ Goto(c, "used")
          \/ result(c) # 1 /\ closeFile(c, name(c)) /\ NextFile(c)
    \/ AtFile(c, "used", {"a"}) /\ closeFile(c, name(c)) /\ NextFile(c)

\* -l and -u: open, lock or unlock, close; each if the one before succeeded.
LockFiles(c) ==
    \/ AtFile(c, "open", {"l", "u"}) /\ openFile(c, "O_OPEN", name(c)) /\ Goto(c, "opened")
    \/ /\ AtFile(c, "opened", {"l", "u"}) /\ result(c) = 1
       /\ IF opt(c) = "l" THEN lockFile(c, name(c)) ELSE unlockFile(c, name(c))
       /\ Goto(c, "used")
    \/ /\ AtFile(c, "used", {"l", "u"}) /\ result(c) = 1
       /\ closeFile(c, name(c)) /\ NextFile(c)
    \/ /\ \E at \in {"opened", "used"} : AtFile(c, at, {"l", "u"})
       /\ result(c) # 1 /\ NextFile(c) /\ Quietly

\* -c
RemoveFiles(c) == /\ AtFile(c, "open", {"c"})
                  /\ removeFile(c, name(c)) /\ NextFile(c)

\* -R
letturaRandom(c) == /\ At(c, "option", {"R"})
                    /\ readNFiles(c, Head(prog[c].opts).n, prog[c].cmd.d)
                    /\ NextOption(c)

\* After the last option the connection is closed, and main() returns.
CloseDown(c) == /\ Free(c) /\ ~(conn[c] = "failed" /\ prog[c].cmd.p)
                /\ prog[c].at = "option" /\ prog[c].opts = <<>>
                /\ closeConnection(c) /\ Goto(c, "ended")
Return(c) == Free(c) /\ prog[c].at = "ended" /\ Stop(c)

-----------------------------------------------------------------------------

Main(c) == \/ GiveUp(c) \/ ParseBreaks(c) \/ BeginFiles(c) \/ BeginAppend(c)
           \/ BeginWalk(c) \/ visitaDir(c) \/ EndFiles(c) \/ CreateWrite(c)
           \/ letturaFiles(c) \/ saveFile(c) \/ append(c) \/ LockFiles(c)
           \/ RemoveFiles(c) \/ letturaRandom(c) \/ CloseDown(c) \/ Return(c)

ServerStep == ServerStart \/ Serve \/ ServeFull \/ Push \/ ServerGone
ApiStep(c) == openConnection(c) \/ Reads(c)

Next == \/ ServerStep /\ UNCHANGED prog
        \/ \E c \in Clients : Take(c) /\ UNCHANGED prog
        \/ \E c \in Clients : ApiStep(c) /\ UNCHANGED prog
        \/ \E c \in Clients : Main(c)

Spec == Init /\ [][Next]_vars

\* The worker and each client go on while they can, and the request of a client
\* is taken when the worker stays free: one that sends more comes to its end.
\* Nothing is assumed of ServerStart or ServerGone.
Fairness == /\ WF_vars((Serve \/ ServeFull \/ Push) /\ UNCHANGED prog)
            /\ \A c \in Clients : /\ WF_vars(Take(c) /\ UNCHANGED prog)
                                  /\ WF_vars(ApiStep(c) /\ UNCHANGED prog)
                                  /\ WF_vars(Main(c))
FairSpec == Spec /\ Fairness

-----------------------------------------------------------------------------
(* Properties *)

Statuses == {"SUCCESS", "YESCONTAIN", "NOTPRESENT", "NOTOPEN", "NOTPERMISSION",
             "NOTLOCKED", "TOMUCHFILE", "SERVERFULL", "EMPTY"}
Items == [kind : {"status"}, val : Statuses, op : AllOps]
         \cup [kind : {"number", "file", "body", "torn"}, val : Nat, op : AllOps]

\* Types: the store and the request in hand, the socket within its size, and
\* each client's call and program.
TypeOK ==
    /\ store \in [Paths -> StoredFile] /\ phase \in Phases
    /\ req \in AnyRequest \cup {NoRequest}
    /\ victims \in Seq(Paths) /\ outbox \in Seq(Items)
    /\ up \in {"off", "on", "gone"}
    /\ fault \in {"none", "garbled", "uninit", "freed", "wild"}
    /\ \A c \in Clients :
         /\ sent[c] \in Seq(AnyRequest)
         /\ sock[c] \in Seq(Items) /\ Len(sock[c]) <= SockSize
         /\ conn[c] \in {"none", "up", "failed", "ended"} /\ now[c] \in 0 .. Deadline
         /\ call[c] \in Call /\ cause[c] \in {"none", "append", "buckets", "folder"}
         /\ prog[c].cmd \in Command /\ prog[c].files \in Seq(Paths)
         /\ prog[c].at \in {"option", "open", "opened", "used", "got", "walk", "ended"}

\* Request and answer stay in step (api.c writes a request and reads its answer
\* with nothing that ties them together): when a call has returned, nothing of
\* its answer is left in the socket or still to come, and the status that a call
\* finds is that of its own request. Three causes put them out of step for good:
\* APPEND answers twice (server.c:603, 620), readFiles() sends whole buckets
\* (server.c:1068), and writeFile() leaves in the middle of the files it is sent.
InStep ==
    \A c \in Clients : fault = "none" /\ conn[c] = "up" /\ cause[c] = "none" =>
        /\ call[c].phase = "none" =>
               sock[c] = <<>> /\ sent[c] = <<>> /\ (req.fd = c => outbox = <<>>)
        /\ call[c].phase = "status" /\ sock[c] # <<>> =>
               Head(sock[c]).kind = "status" /\ Head(sock[c]).op = call[c].op

\* What ends a client in undefined behaviour, and nothing else does: reading
\* bytes meant for another read (a cause of InStep, or the size of a file never
\* written), a result that no read has filled (no server, or it is gone), a
\* buffer used after free() (-r and -d with several files), and parse_str()
\* with too many names or -a with too few.
FaultsKnown ==
    /\ fault = "garbled" => \E c \in Clients :
           \/ cause[c] # "none"
           \/ \E i \in 1 .. Len(sock[c]) : sock[c][i].kind = "torn"
    /\ fault = "uninit" => up = "gone" \/ \E c \in Clients : now[c] = Deadline
    /\ fault = "freed" => \E c \in Clients :
           prog[c].cmd.d = "dir" /\ \E o \in ToSet(prog[c].opts) : o.opt = "r" /\ Len(o.args) > 1
    /\ fault = "wild" => \E c \in Clients : \E o \in ToSet(prog[c].opts) :
           Len(o.args) >= ParseMax \/ (o.opt = "a" /\ Len(o.args) < 2)

\* The files that the command of a client names, itself or through a directory.
Named(c) == LET opts == ToSet(prog[c].cmd.opts)
            IN  (UNION {ToSet(o.args) : o \in opts})
                \cup (IF \E o \in opts : o.dir # NONE
                      THEN UNION {ToSet(Entries[d]) : d \in DOMAIN Entries} ELSE {})

\* A file has one isopen for all the clients: what a client has opened stays open
\* for its write, read or close, unless the file is expelled or removed, or
\* another client names it too, and so may close it (server.c:703).
OpenUntilClosed ==
    \A c \in Clients :
        /\ fault = "none" /\ cause[c] = "none" /\ Free(c) /\ conn[c] = "up"
        /\ prog[c].at \in {"opened", "used", "got"} /\ prog[c].files # <<>>
        /\ prog[c].at = "opened" => result(c) = 1
        /\ prog[c].at = "got" => call[c].op = "READ"
        /\ name(c) \in stored
        /\ \A o \in Clients \ {c} : name(c) \notin Named(o)
        => store[name(c)].isopen = 1

\* The files below a directory in the order of readdir(), hidden ones left out.
FilesBelow[d \in DOMAIN Entries] ==
    FlattenSeq([i \in 1 .. Len(Entries[d]) |->
        LET e == Entries[d][i]
        IN  IF e \notin DOMAIN Entries THEN <<e>>
            ELSE IF e \in Hidden THEN <<>> ELSE FilesBelow[e]])

\* client.c:223, "invia tutti i file contenuti in dirname, ne invia al massimo n
\* se n e' specificato": the recursion with its global counter offers to the
\* server exactly the first n files, or all, whatever becomes of each.
WalkAsTold ==
    \A c \in Clients :
        prog[c].at = "walk" /\ prog[c].walk = <<>> =>
            LET o == Head(prog[c].opts)
                all == FilesBelow[o.dir]
            IN  prog[c].offered = IF o.n = 0 \/ o.n > Len(all) THEN all
                                  ELSE SubSeq(all, 1, o.n)

\* Every client that is started ends: it is not kept waiting for bytes that the
\* server does not send, nor the server for room that the client does not make
\* (Handlercapacity() writes with mtxhash held, server.c:1035), and the loops that
\* make room and release locks come to their end (server.c:1009, 1177).
Finishes == <>(fault # "none" \/ \A c \in Clients : conn[c] = "ended")
=============================================================================
