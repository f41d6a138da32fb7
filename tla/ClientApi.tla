----------------------------- MODULE ClientApi -----------------------------
(***************************************************************************)
(* The functions of source/api.c, and the socket between each client and   *)
(* the server of Store.  A call sends one request and reads the items that *)
(* its answer should be made of; the server writes the items of an answer  *)
(* one by one, waiting while the socket is full, and takes the next        *)
(* request when they are written.                                          *)
(*                                                                         *)
(* An item is what one or more readn() read: a status, the number of the   *)
(* files that follow, a file (size, length of its name, name, content), or *)
(* the body of a file (size, content).  It is "torn" when the size of a    *)
(* file that was never written is sent, and no content after it.           *)
(* Undefined behaviour of a client ends the run: "fault" says which.       *)
(***************************************************************************)
EXTENDS Store

CONSTANTS Sizes,      \* the sizes of the files that are written
          Local,      \* the paths of the files on the clients' disk
          SockSize,   \* the items a socket holds
          Deadline    \* how often connect() is retried, 10 s of 1 s each

ASSUME ApiAssumption == /\ Sizes \subseteq Nat /\ SockSize \in Nat \ {0}
                        /\ Local \subseteq Paths /\ Deadline \in Nat
                        /\ NONE \notin AllOps

VARIABLES up,      \* the server: "off", "on" or "gone"
          outbox,  \* the items of the answer in hand, not yet written
          sent,    \* the requests of each client, not yet taken
          sock,    \* the items each client has not read
          conn,    \* the connection of each client, and whether it has ended
          now,     \* the time since each client began
          call,    \* the call each client is in
          cause,   \* why a client and its socket are out of step, or "none"
          fault    \* "none", or what the first undefined behaviour was

apivars == <<svars, up, outbox, sent, sock, conn, now, call, cause, fault>>
server == <<svars, up, outbox>>

Folders == {"none", "dir", "file", "bad"}

\* The call of the last request: what it reads next, the files it still has to
\* read, the folder where it saves them, what it returned and the size it read.
Call == [op : AllOps \cup {NONE}, phase : {"none", "status", "number", "file", "body"},
         left : Nat, folder : Folders, ret : {-1, 0, 1}, size : Nat]
NoCall == [op |-> NONE, phase |-> "none", left |-> 0, folder |-> "none",
           ret |-> 0, size |-> 0]

Status(s) == [kind |-> "status", val |-> s, op |-> req.op]
Item(kind, n) == [kind |-> kind, val |-> n, op |-> req.op]

ApiInit == /\ StoreInit
           /\ up \in {"off", "on"}
           /\ outbox = <<>>
           /\ sent = [c \in Clients |-> <<>>]
           /\ sock = [c \in Clients |-> <<>>]
           /\ conn = [c \in Clients |-> "none"]
           /\ now = [c \in Clients |-> 0]
           /\ call = [c \in Clients |-> NoCall]
           /\ cause = [c \in Clients |-> "none"]
           /\ fault = "none"

-----------------------------------------------------------------------------
(* The server's side of the socket *)

\* A file g as it is sent: what malloc() left in dim may announce a content
\* that the server has not.
Sending(kind, g, torn) == IF g.written THEN Item(kind, g.dim)
                          ELSE IF torn THEN Item("torn", 1) ELSE Item(kind, 0)

\* readFiles(): the number announced, and the files sent: whole buckets of the
\* table, until there are so many.
Announced == IF req.size = 0 \/ req.size > Cardinality(stored)
             THEN Cardinality(stored) ELSE req.size
BucketsSent == {S \in SUBSET stored : Cardinality(S) >= Announced}
Download(S, torn) ==
    <<Item("number", Announced)>>
    \o [i \in 1 .. Cardinality(S) |-> Sending("file", store[SetToSeq(S)[i]], torn)]

\* A file that makes room comes from fifo: it was written, whatever the table has
\* for its name by now. Its size is not told apart.
FromFifo == Item("file", 0)

\* What follows the status of a step of the server.
Content(S, torn) ==
    CASE phase = "expel" \/ (phase = "evict" /\ victims # <<>>) -> <<FromFifo>>
      [] phase = "begun" /\ req.op = "READ" /\ answer' = <<"SUCCESS">> ->
           <<Sending("body", file, torn)>>
      [] phase = "begun" /\ req.op = "READN" /\ answer' = <<"SUCCESS">> ->
           Download(S, torn)
      [] OTHER -> <<>>

\* The status that a step of the server sends, if it does.
NewStatus == IF Len(answer') > Len(answer)
             THEN <<Status(answer'[Len(answer')])>> ELSE <<>>

\* The answers that appendToFile() and readNFiles() do not read to the end.
Unread(items) ==
    CASE req.op = "APPEND" /\ answer' = <<"SERVERFULL">> -> "append"
      [] req.op = "READN" /\ Len(items) > 2 + Announced  -> "buckets"
      [] OTHER                                           -> cause[req.fd]

Live == fault = "none" /\ up = "on" /\ outbox = <<>>

ServerStart == /\ up = "off" /\ up' = "on"
               /\ UNCHANGED <<svars, outbox, sent, sock, conn, now, call, cause, fault>>

\* The process ends, by a signal or otherwise.
ServerGone == /\ fault = "none" /\ up = "on" /\ up' = "gone"
              /\ UNCHANGED <<svars, outbox, sent, sock, conn, now, call, cause, fault>>

Take(c) == /\ Live /\ sent[c] # <<>>
           /\ Receive(Head(sent[c]))
           /\ sent' = [sent EXCEPT ![c] = Tail(@)]
           /\ UNCHANGED <<up, outbox, sock, conn, now, call, cause, fault>>

\* One step of the worker. LOCKS of a file that another client has locked goes
\* back to the queue.
Serve == /\ Live
         /\ Step
         /\ \E S \in BucketsSent, torn \in BOOLEAN :
              LET items == NewStatus \o Content(S, torn)
              IN  /\ outbox' = items
                  /\ cause' = IF req.fd = NONE THEN cause
                              ELSE [cause EXCEPT ![req.fd] = Unread(items)]
         /\ sent' = IF phase = "done" /\ answer = <<>>
                    THEN [sent EXCEPT ![req.fd] = <<req>> \o @] ELSE sent
         /\ UNCHANGED <<up, sock, conn, now, call, fault>>

\* Handlercapacity() counts the files it sends: entries of fifo, whose names may
\* be the same, and may not be stored any more.
ServeFull ==
    /\ Live
    /\ \E ps \in SeqOf(Paths, MaxVictims) :
         /\ MakeRoom(ps)
         /\ outbox' = <<Item("number", Len(ps))>>
    /\ UNCHANGED <<up, sent, sock, conn, now, call, cause, fault>>

\* (Mutant of Push: the server gives up when the socket is full.)
PushNoWait ==
    /\ fault = "none" /\ up = "on" /\ outbox # <<>>
    /\ outbox' = Tail(outbox)
    /\ sock' = IF conn[req.fd] = "ended" \/ Len(sock[req.fd]) >= SockSize THEN sock
               ELSE [sock EXCEPT ![req.fd] = Append(@, Head(outbox))]
    /\ UNCHANGED <<svars, up, sent, conn, now, call, cause, fault>>

\* writen() waits for room in the socket, and fails when the client has ended.
Push ==
    /\ fault = "none" /\ up = "on" /\ outbox # <<>>
    /\ outbox' = Tail(outbox)
    /\ \/ conn[req.fd] = "ended" /\ UNCHANGED sock
       \/ /\ conn[req.fd] = "up" /\ Len(sock[req.fd]) < SockSize
          /\ sock' = [sock EXCEPT ![req.fd] = Append(@, Head(outbox))]
    /\ UNCHANGED <<svars, up, sent, conn, now, call, cause, fault>>

-----------------------------------------------------------------------------
(* The client's side: api.c *)

\* Client c is in its program, or in a read of the kind ph with something to read.
Free(c) == fault = "none" /\ conn[c] \in {"up", "failed"} /\ call[c].phase = "none"
Reading(c, ph) == /\ fault = "none" /\ conn[c] = "up"
                  /\ call[c].phase = ph /\ sock[c] # <<>>

\* (Mutant of openConnection: the deadline is not tested.)
openConnectionAgain(c) ==
    /\ fault = "none" /\ conn[c] = "none"
    /\ \/ up = "on" /\ conn' = [conn EXCEPT ![c] = "up"] /\ UNCHANGED now
       \/ up # "on" /\ now' = [now EXCEPT ![c] = @ + 1] /\ UNCHANGED conn
    /\ UNCHANGED <<server, sent, sock, call, cause, fault>>

\* openConnection(): connect() until it succeeds, or until the clock that was
\* read before it shows the deadline.
openConnection(c) ==
    /\ fault = "none" /\ conn[c] = "none"
    /\ \/ up = "on" /\ conn' = [conn EXCEPT ![c] = "up"] /\ UNCHANGED now
       \/ /\ up # "on" /\ now[c] >= Deadline
          /\ conn' = [conn EXCEPT ![c] = "failed"] /\ UNCHANGED now
       \/ /\ up # "on" /\ now[c] < Deadline
          /\ now' = [now EXCEPT ![c] = @ + 1] /\ UNCHANGED conn
    /\ UNCHANGED <<server, sent, sock, call, cause, fault>>

\* The process of client c ends, and with it its socket.
Exit(c) == /\ conn' = [conn EXCEPT ![c] = "ended"]
           /\ sock' = [sock EXCEPT ![c] = <<>>]
           /\ call' = [call EXCEPT ![c] = NoCall]

\* The request is sent. To a server that is gone it ends the client by SIGPIPE;
\* where there is no connection no answer comes, and "result" is used as it is.
Request(c, op, p, n, folder) ==
    /\ \/ /\ conn[c] = "up" /\ up = "on"
          /\ sent' = [sent EXCEPT ![c] =
                Append(@, [op |-> op, path |-> p, size |-> n, fd |-> c])]
          /\ call' = [call EXCEPT ![c] = [NoCall EXCEPT !.op = op, !.phase = "status",
                                                       !.folder = folder]]
          /\ UNCHANGED <<sock, conn, fault>>
       \/ conn[c] = "up" /\ up = "gone" /\ Exit(c) /\ UNCHANGED <<sent, fault>>
       \/ conn[c] = "failed" /\ fault' = "uninit" /\ UNCHANGED <<sent, sock, conn, call>>
    /\ UNCHANGED <<server, now, cause>>

\* A call that returns -1 before it sends anything.
Refused(c) == /\ call' = [call EXCEPT ![c] = [NoCall EXCEPT !.ret = -1]]
              /\ UNCHANGED <<server, sent, sock, conn, now, cause, fault>>

\* The functions of the API. Those that read a local file fail without it;
\* openFile() refuses the flag O_CRLK.
openFile(c, flag, p) == IF p \in Local THEN Request(c, flag, p, 0, "none")
                        ELSE Refused(c)
writeFile(c, p, dirname) ==
    IF p \in Local THEN \E n \in Sizes : Request(c, "WRITE", p, n, dirname)
    ELSE Refused(c)
appendToFile(c, p) == \E n \in Sizes : Request(c, "APPEND", p, n, "none")
readFile(c, p)   == Request(c, "READ", p, 0, "none")
lockFile(c, p)   == Request(c, "LOCKS", p, 0, "none")
unlockFile(c, p) == Request(c, "UNLOCKS", p, 0, "none")
closeFile(c, p)  == Request(c, "CLOSE", p, 0, "none")
removeFile(c, p) == Request(c, "REMOVE", p, 0, "none")
readNFiles(c, n, dirname) == Request(c, "READN", NONE, n, dirname)
closeConnection(c) == Request(c, "CLOSECONNECTION", NONE, 0, "none")

\* (Mutant of Follows: the file expelled by a create is not read.)
FollowsNoFile(op, s) ==
    CASE op = "READ" /\ s = "SUCCESS"                       -> "body"
      [] op = "READN" /\ s = "SUCCESS"                      -> "number"
      [] op \in {"WRITE", "APPEND"} /\ s = "SERVERFULL"     -> "number"
      [] OTHER                                              -> "none"

\* The switch on the status: what is read next,
Follows(op, s) ==
    CASE op = "O_CREATE" /\ s = "TOMUCHFILE"                -> "file"
      [] op = "READ" /\ s = "SUCCESS"                       -> "body"
      [] op = "READN" /\ s = "SUCCESS"                      -> "number"
      [] op \in {"WRITE", "APPEND"} /\ s = "SERVERFULL"     -> "number"
      [] OTHER                                              -> "none"

\* and what the call returns in the end.
Returns(op, s) == IF \/ s = "SUCCESS"
                     \/ op = "O_CREATE" /\ s = "TOMUCHFILE"
                     \/ op = "WRITE" /\ s = "SERVERFULL"
                  THEN 1 ELSE -1

\* The call goes on to read ph, or returns.
Goes(c, ph, left, ret, n) ==
    call' = [call EXCEPT ![c].phase = ph, ![c].left = left, ![c].ret = ret,
                         ![c].size = n]
Consumed(c) == /\ sock' = [sock EXCEPT ![c] = Tail(@)]
               /\ UNCHANGED <<server, sent, now, fault>>

readStatus(c) ==
    LET i == Head(sock[c])
        op == call[c].op
    IN  /\ Reading(c, "status")
        /\ \/ /\ i.kind = "status"
              /\ Goes(c, Follows(op, i.val), IF Follows(op, i.val) = "file" THEN 1 ELSE 0,
                      Returns(op, i.val), 0)
           \/ i.kind = "number" /\ Goes(c, "none", 0, -1, 0)
        /\ Consumed(c)
        /\ UNCHANGED <<conn, cause>>

\* (Mutant of readNumber: one file less is read.)
readNumberLess(c) ==
    LET n == Head(sock[c]).val
    IN  /\ Reading(c, "number") /\ Head(sock[c]).kind = "number"
        /\ Goes(c, IF n <= 1 THEN "none" ELSE "file", n - 1, call[c].ret, 0)
        /\ Consumed(c)
        /\ UNCHANGED <<conn, cause>>

\* The number of the files that follow.
readNumber(c) ==
    LET n == Head(sock[c]).val
    IN  /\ Reading(c, "number") /\ Head(sock[c]).kind = "number"
        /\ Goes(c, IF n = 0 THEN "none" ELSE "file", n, call[c].ret, 0)
        /\ Consumed(c)
        /\ UNCHANGED <<conn, cause>>

\* A file, which writeFile() and readNFiles() save in their folder. If it cannot
\* be written, writeFile() returns at once, and readNFiles() goes on or ends the
\* process: it tests a structure that stat() has not filled.
readAFile(c) ==
    LET left == call[c].left - 1
        bad == call[c].folder = "bad"
    IN  /\ Reading(c, "file") /\ Head(sock[c]).kind = "file"
        /\ \/ /\ ~(bad /\ call[c].op = "WRITE")
              /\ Goes(c, IF left = 0 THEN "none" ELSE "file", left, call[c].ret, 0)
              /\ UNCHANGED cause
              /\ UNCHANGED conn /\ Consumed(c)
           \/ /\ bad /\ call[c].op = "WRITE"
              /\ Goes(c, "none", 0, -1, 0)
              /\ cause' = [cause EXCEPT ![c] = IF left > 0 THEN "folder" ELSE @]
              /\ UNCHANGED conn /\ Consumed(c)
           \/ /\ bad /\ call[c].op = "READN"
              /\ Exit(c)
              /\ UNCHANGED <<server, sent, now, cause, fault>>

readBody(c) == /\ Reading(c, "body") /\ Head(sock[c]).kind = "body"
               /\ Goes(c, "none", 0, call[c].ret, Head(sock[c]).val)
               /\ Consumed(c)
               /\ UNCHANGED <<conn, cause>>

\* What a read can make sense of.
Expected(ph) == CASE ph = "status" -> {"status", "number"} [] OTHER -> {ph}

\* A read meets bytes that were not meant for it, or waits for some that do not
\* come: lengths and contents are then whatever is found.
Garbled(c) ==
    /\ \E ph \in {"status", "number", "file", "body"} :
          Reading(c, ph) /\ Head(sock[c]).kind \notin Expected(ph)
    /\ fault' = "garbled"
    /\ UNCHANGED <<server, sent, sock, conn, now, call, cause>>

\* readn() returns 0 at end of file, which no function tests: the variable it
\* should have read into is used as it is.
EndOfFile(c) ==
    /\ fault = "none" /\ conn[c] = "up" /\ call[c].phase # "none"
    /\ sock[c] = <<>> /\ up = "gone"
    /\ fault' = "uninit"
    /\ UNCHANGED <<server, sent, sock, conn, now, call, cause>>

Reads(c) == \/ readStatus(c) \/ readNumber(c) \/ readAFile(c) \/ readBody(c)
            \/ Garbled(c) \/ EndOfFile(c)
=============================================================================
