------------------------------- MODULE Server -------------------------------
(***************************************************************************)
(* The threads of source/server.c around the requests: the dispatcher and  *)
(* its select() loop, the queue "queueric" with its condition variable,    *)
(* the pipe on which the workers give descriptors back, CLOSECONNECTION,   *)
(* and signalHandler() with the three ways in which the server stops.      *)
(* What a request does to the files is in module Workers: here it is       *)
(* answered, put back, or it closes its connection.                        *)
(*                                                                         *)
(* "set" is written by the dispatcher and, in CLOSECONNECTION, by workers, *)
(* with no common mutex: FD_SET and FD_CLR are a load and a store.         *)
(* A client waits for the answer to a request before it sends the next     *)
(* one, as api.c does; it may go away at any time if it is in Crashing.    *)
(***************************************************************************)
EXTENDS Integers, Sequences

CONSTANTS Workers,     \* the threads: sc.nwork of them
          Clients,     \* the connections made; each one is made once
          Crashing,    \* those whose end may come without CLOSECONNECTION
          Descriptors, \* the file descriptors accept() may return
          Ops,         \* the kinds of requests clients make
          Signals,     \* the signals the server may get
          PipeSize,    \* the descriptors that the pipe holds
          NONE         \* no client, no thread, no operation

\* The server's own descriptors, in the order main() creates them.
pipefd == 0
pipedisp == 1
fd_skt == 2

\* "lock" is LOCKS, which may be put back; "ask" is any request that is
\* answered by the thread that takes it.
AllOps == {"ask", "lock", "close"}

ASSUME ServerAssumption ==
    /\ Workers # {}
    /\ Crashing \subseteq Clients
    /\ Descriptors \subseteq Nat \ {pipefd, pipedisp, fd_skt}
    /\ Ops \subseteq AllOps
    /\ Signals \subseteq {"SIGINT", "SIGQUIT", "SIGTERM", "SIGHUP"}
    /\ PipeSize \in Nat \ {0}
    /\ NONE \notin Clients \cup Workers \cup AllOps

VARIABLES
    client,      \* what each client is doing
    sent,        \* the request it sent that has not been read
    backlog,     \* the connections accept() has not taken
    conn,        \* the client behind each descriptor, or NONE
    listening,   \* fd_skt is open
    set,         \* the descriptors to watch
    rdset,       \* those select() works on or has found ready
    disp,        \* the dispatcher
    queueric,    \* the requests read and not yet taken
    pipe,        \* the descriptors given back
    wk,          \* the workers
    mtxcon,      \* the thread that holds it, or NONE
    activecon,   \* the number of connections
    terminate, gestore, closesighup,   \* the flags: TRUE until the end begins
    pipesig,     \* pipedisp has something to read
    hand         \* where signalHandler() is

vars == <<client, sent, backlog, conn, listening, set, rdset, disp, queueric,
          pipe, wk, mtxcon, activecon, terminate, gestore, closesighup,
          pipesig, hand>>

-----------------------------------------------------------------------------

Watchable == Descriptors \cup {pipefd, pipedisp, fd_skt}
Given == Descriptors \cup {fd_skt}

\* "from" is the client that sent the request; NONE if nobody did.
Request == [fd : Given, op : AllOps \cup {NONE}, from : Clients \cup {NONE}]
\* A thread's locals are reset when they are dead.
NoRequest == [fd |-> NONE, op |-> NONE, from |-> NONE]

Worker == [pc : {"idle", "waiting", "serve", "token", "clear", "closing",
                 "ended"},
           req : Request \cup {NoRequest}, tmp : SUBSET Watchable]
Idle == [pc |-> "idle", req |-> NoRequest, tmp |-> {}]
Dispatcher == [pc : {"select", "blocked", "scan", "count", "watch", "read",
                     "ended"},
               fd : Given, tmp : SUBSET Watchable]
Selecting == [pc |-> "select", fd |-> fd_skt, tmp |-> {}]

TypeOK ==
    /\ client \in [Clients -> {"out", "idle", "asked", "left"}]
    /\ sent \in [Clients -> Ops \cup {NONE}]
    /\ backlog \in Seq(Clients)
    /\ conn \in [Descriptors -> Clients \cup {NONE}]
    /\ listening \in BOOLEAN
    /\ set \subseteq Watchable /\ rdset \subseteq Watchable
    /\ disp \in Dispatcher
    /\ queueric \in Seq(Request)
    /\ pipe \in Seq(Given) /\ Len(pipe) <= PipeSize
    /\ wk \in [Workers -> Worker]
    /\ mtxcon \in Workers \cup {NONE}
    /\ activecon \in Int
    /\ terminate \in BOOLEAN /\ gestore \in BOOLEAN
    /\ closesighup \in BOOLEAN /\ pipesig \in BOOLEAN
    /\ hand \in {"sigwait", "interrupt", "hup", "condcon", "drained", "wake",
                 "join", "joinWorkers", "free", "freed", "exited"}

\* main(), up to the dispatcher's first select().
Init ==
    /\ client = [c \in Clients |-> "out"]
    /\ sent = [c \in Clients |-> NONE]
    /\ backlog = <<>>
    /\ conn = [d \in Descriptors |-> NONE]
    /\ listening = TRUE
    /\ set = {pipefd, pipedisp, fd_skt}
    /\ rdset = {}
    /\ disp = Selecting
    /\ queueric = <<>>
    /\ pipe = <<>>
    /\ wk = [w \in Workers |-> Idle]
    /\ mtxcon = NONE
    /\ activecon = 0
    /\ terminate = TRUE /\ gestore = TRUE /\ closesighup = TRUE
    /\ pipesig = FALSE
    /\ hand = "sigwait"

Running == hand # "exited"

\* The groups of variables that most steps leave alone.
Flags == <<terminate, gestore, closesighup, pipesig, hand>>
Sockets == <<client, sent, backlog, conn, listening>>
Counted == <<mtxcon, activecon>>

-----------------------------------------------------------------------------
(* Clients *)

\* connect() succeeds before accept() is called.
Connect(c) == /\ Running /\ listening /\ client[c] = "out"
              /\ client' = [client EXCEPT ![c] = "idle"]
              /\ backlog' = Append(backlog, c)
              /\ UNCHANGED <<sent, conn, listening, set, rdset, disp, queueric,
                             pipe, wk, Counted, Flags>>

Ask(c, op) == /\ Running /\ client[c] = "idle"
              /\ client' = [client EXCEPT ![c] = "asked"]
              /\ sent' = [sent EXCEPT ![c] = op]
              /\ UNCHANGED <<backlog, conn, listening, set, rdset, disp,
                             queueric, pipe, wk, Counted, Flags>>

Crash(c) == /\ Running /\ client[c] \in {"idle", "asked"}
            /\ client' = [client EXCEPT ![c] = "left"]
            /\ UNCHANGED <<sent, backlog, conn, listening, set, rdset, disp,
                           queueric, pipe, wk, Counted, Flags>>

-----------------------------------------------------------------------------
(* dispatcher() *)

DispAt(l) == Running /\ disp.pc = l

\* pthread_cond_signal(&condrequest): what the threads may be after it, when
\* they were ths before.
Signalled(ths) ==
    LET waiting == {w \in Workers : ths[w].pc = "waiting"}
    IN  IF waiting = {} THEN {ths}
        ELSE {[ths EXCEPT ![w].pc = "idle"] : w \in waiting}

IsOpen(d) == CASE d = fd_skt         -> listening
               [] d \in Descriptors  -> conn[d] # NONE
               [] OTHER              -> TRUE

\* There are bytes, an end of file, or a connection.
Readable(d) ==
    CASE d = pipefd   -> pipe # <<>>
      [] d = pipedisp -> pipesig
      [] d = fd_skt   -> backlog # <<>>
      [] OTHER        -> /\ conn[d] # NONE
                         /\ sent[conn[d]] # NONE \/ client[conn[d]] = "left"

\* The test on gestore, rdset=set, and the errors of select().
Select == /\ DispAt("select")
          /\ \/ /\ gestore /\ \A d \in set : IsOpen(d)
                /\ rdset' = set
                /\ disp' = [disp EXCEPT !.pc = "blocked"]
             \/ /\ gestore => \E d \in set : ~IsOpen(d)
                /\ disp' = [disp EXCEPT !.pc = "ended"]
                /\ UNCHANGED rdset
          /\ UNCHANGED <<Sockets, set, queueric, pipe, wk, Counted, Flags>>

SelectReturns ==
    LET ready == {d \in rdset : Readable(d)}
    IN  /\ DispAt("blocked") /\ ready # {}
        /\ rdset' = ready
        /\ disp' = [disp EXCEPT !.pc = "scan"]
        /\ UNCHANGED <<Sockets, set, queueric, pipe, wk, Counted, Flags>>

\* The for loop looks at the lowest descriptor first and breaks after it,
\* unless it is pipedisp.
Lowest(d, S) == d \in S /\ \A x \in S : d <= x
Scans(d) == DispAt("scan") /\ Lowest(d, rdset)

ScanNothing == /\ DispAt("scan") /\ rdset = {}
               /\ disp' = [disp EXCEPT !.pc = "select"]
               /\ UNCHANGED <<Sockets, set, rdset, queueric, pipe, wk, Counted,
                              Flags>>

ScanSignal == /\ Scans(pipedisp)
              /\ gestore' = FALSE
              /\ rdset' = rdset \ {pipedisp}
              /\ UNCHANGED <<Sockets, set, disp, queueric, pipe, wk, Counted,
                             terminate, closesighup, pipesig, hand>>

\* readn() of a descriptor, and FD_SET: the load.
ScanToken == /\ Scans(pipefd) /\ pipe # <<>>
             /\ pipe' = Tail(pipe)
             /\ disp' = [pc |-> "watch", fd |-> Head(pipe), tmp |-> set]
             /\ rdset' = {}
             /\ UNCHANGED <<Sockets, set, queueric, wk, Counted, Flags>>

\* accept() returns the lowest free descriptor.
ScanAccept == \E d \in Descriptors :
    /\ Scans(fd_skt) /\ closesighup /\ backlog # <<>>
    /\ Lowest(d, {x \in Descriptors : conn[x] = NONE})
    /\ conn' = [conn EXCEPT ![d] = Head(backlog)]
    /\ backlog' = Tail(backlog)
    /\ disp' = [disp EXCEPT !.pc = "count", !.fd = d]
    /\ rdset' = {}
    /\ UNCHANGED <<client, sent, listening, set, queueric, pipe, wk, Counted,
                   Flags>>

Count == /\ DispAt("count") /\ mtxcon = NONE
         /\ activecon' = activecon + 1
         /\ disp' = [disp EXCEPT !.pc = "watch", !.tmp = set]
         /\ UNCHANGED <<Sockets, set, rdset, queueric, pipe, wk, mtxcon, Flags>>

\* FD_SET: the store.
Watch == /\ DispAt("watch")
         /\ set' = disp.tmp \cup {disp.fd}
         /\ disp' = Selecting
         /\ UNCHANGED <<Sockets, rdset, queueric, pipe, wk, Counted, Flags>>

\* After SIGHUP, fd_skt is taken for a client.
ScanRead == \E d \in Given :
    /\ Scans(d) /\ (d = fd_skt => ~closesighup)
    /\ disp' = [pc |-> "read", fd |-> d, tmp |-> set]
    /\ rdset' = {}
    /\ UNCHANGED <<Sockets, set, queueric, pipe, wk, Counted, Flags>>

\* (Mutant of Enqueue: no SIGNAL.)
EnqueueSilently(r) == queueric' = Append(queueric, r) /\ UNCHANGED wk
Enqueue(r) == /\ queueric' = Append(queueric, r)
              /\ wk' \in Signalled(wk)

\* (Mutant of EndOfFile: the descriptor is closed at once.)
EndOfFileCloses(d) == /\ conn' = [conn EXCEPT ![d] = NONE]
                      /\ wk' \in Signalled(wk)
                      /\ UNCHANGED <<sent, queueric>>
\* readMessage() returns NULL: SIGNAL, and the descriptor stays open.
EndOfFile(d) == /\ wk' \in Signalled(wk)
                /\ UNCHANGED <<sent, queueric, conn>>

\* FD_CLR, readMessage(), insertT(queueric,...). When read() fails, the request
\* is what malloc() returned.
ReadMessage ==
    LET d == disp.fd
    IN  /\ DispAt("read")
        /\ \/ /\ d \in Descriptors /\ conn[d] # NONE /\ sent[conn[d]] # NONE
              /\ Enqueue([fd |-> d, op |-> sent[conn[d]], from |-> conn[d]])
              /\ sent' = [sent EXCEPT ![conn[d]] = NONE]
              /\ UNCHANGED conn
           \/ /\ d \in Descriptors /\ conn[d] # NONE /\ sent[conn[d]] = NONE
              /\ EndOfFile(d)
           \/ /\ d \in Descriptors => conn[d] = NONE
              /\ \E op \in Ops \cup {NONE} :
                    Enqueue([fd |-> d, op |-> op, from |-> NONE])
              /\ UNCHANGED <<sent, conn>>
        /\ set' = disp.tmp \ {d}
        /\ disp' = Selecting
        /\ UNCHANGED <<client, backlog, listening, rdset, pipe, Counted, Flags>>

-----------------------------------------------------------------------------
(* worker() *)

WorkerAt(w, l) == Running /\ wk[w].pc = l
Goto(w, l) == wk' = [wk EXCEPT ![w].pc = l]

\* The rest of the server, for the steps that only touch the queue.
Queues == <<Sockets, set, rdset, disp, pipe, Counted, Flags>>

Take(w) == /\ WorkerAt(w, "idle") /\ terminate /\ queueric # <<>>
           /\ queueric' = Tail(queueric)
           /\ wk' = [wk EXCEPT ![w].pc = "serve", ![w].req = Head(queueric)]
           /\ UNCHANGED Queues

Wait(w) == /\ WorkerAt(w, "idle") /\ terminate /\ queueric = <<>>
           /\ Goto(w, "waiting")
           /\ UNCHANGED <<queueric, Queues>>

Stop(w) == /\ WorkerAt(w, "idle") /\ ~terminate
           /\ Goto(w, "ended")
           /\ UNCHANGED <<queueric, Queues>>

\* The client that waits for the answer to r gets it.
Answer(r, next) == client' = [c \in Clients |->
    IF c = r.from /\ client[c] = "asked" THEN next ELSE client[c]]

\* (Mutant of Serve: the descriptor is not given back.)
ServeKeeps(w) == /\ WorkerAt(w, "serve") /\ wk[w].req.op # "close"
                 /\ Answer(wk[w].req, "idle")
                 /\ wk' = [wk EXCEPT ![w] = Idle]
                 /\ UNCHANGED <<sent, backlog, conn, listening, set, rdset, disp,
                                queueric, pipe, Counted, Flags>>

Serve(w) == /\ WorkerAt(w, "serve") /\ wk[w].req.op # "close"
            /\ Answer(wk[w].req, "idle")
            /\ Goto(w, "token")
            /\ UNCHANGED <<sent, backlog, conn, listening, set, rdset, disp,
                           queueric, pipe, Counted, Flags>>

\* LOCKS of a locked file: back in the queue, and the descriptor is given back
\* as well.
PutBack(w) == /\ WorkerAt(w, "serve")
              /\ wk[w].req.op = "lock" /\ wk[w].req.from # NONE
              /\ queueric' = Append(queueric, wk[w].req)
              /\ wk' \in Signalled([wk EXCEPT ![w].pc = "token"])
              /\ UNCHANGED Queues

\* (Mutant of Token: a full pipe does not block.)
TokenAlways(w) == /\ WorkerAt(w, "token")
                  /\ pipe' = Append(pipe, wk[w].req.fd)
                  /\ wk' = [wk EXCEPT ![w] = Idle]
                  /\ UNCHANGED <<Sockets, set, rdset, disp, queueric, Counted,
                                 Flags>>

\* writen(pipefd[1],...) blocks while the pipe is full.
Token(w) == /\ WorkerAt(w, "token") /\ Len(pipe) < PipeSize
            /\ pipe' = Append(pipe, wk[w].req.fd)
            /\ wk' = [wk EXCEPT ![w] = Idle]
            /\ UNCHANGED <<Sockets, set, rdset, disp, queueric, Counted, Flags>>

CloseBegin(w) == /\ WorkerAt(w, "serve") /\ wk[w].req.op = "close"
                 /\ mtxcon = NONE
                 /\ mtxcon' = w
                 /\ wk' = [wk EXCEPT ![w].pc = "clear", ![w].tmp = set]
                 /\ UNCHANGED <<Sockets, set, rdset, disp, queueric, pipe,
                                activecon, Flags>>

\* (Mutant of CloseClear: no SIGNAL(&condcon).)
CloseClearSilently(w) ==
    /\ WorkerAt(w, "clear")
    /\ set' = wk[w].tmp \ {wk[w].req.fd}
    /\ activecon' = activecon - 1
    /\ wk' = [wk EXCEPT ![w].pc = "closing", ![w].tmp = {}]
    /\ UNCHANGED <<Sockets, rdset, disp, queueric, pipe, mtxcon, Flags>>

\* FD_CLR: the store; then the count, and SIGNAL(&condcon) when it is 0.
CloseClear(w) ==
    /\ WorkerAt(w, "clear")
    /\ set' = wk[w].tmp \ {wk[w].req.fd}
    /\ activecon' = activecon - 1
    /\ hand' = IF activecon' = 0 /\ ~closesighup /\ hand = "condcon"
               THEN "hup" ELSE hand
    /\ wk' = [wk EXCEPT ![w].pc = "closing", ![w].tmp = {}]
    /\ UNCHANGED <<Sockets, rdset, disp, queueric, pipe, mtxcon, terminate,
                   gestore, closesighup, pipesig>>

\* The answer, close(), and no token.
CloseEnd(w) ==
    LET r == wk[w].req
    IN  /\ WorkerAt(w, "closing")
        /\ Answer(r, "left")
        /\ conn' = [d \in Descriptors |-> IF d = r.fd THEN NONE ELSE conn[d]]
        /\ listening' = (listening /\ r.fd # fd_skt)
        /\ mtxcon' = NONE
        /\ wk' = [wk EXCEPT ![w] = Idle]
        /\ UNCHANGED <<sent, backlog, set, rdset, disp, queueric, pipe,
                       activecon, Flags>>

-----------------------------------------------------------------------------
(* signalHandler() *)

\* Everything but the handler and its flags.
Others == <<Sockets, set, rdset, disp, queueric, pipe, Counted>>

HandTo(from, to) == hand = from /\ hand' = to

Interrupt == /\ HandTo("sigwait", "interrupt")
             /\ Signals \cap {"SIGINT", "SIGQUIT"} # {}
             /\ pipesig' = TRUE
             /\ UNCHANGED <<Others, wk, terminate, gestore, closesighup>>
InterruptStop == /\ HandTo("interrupt", "join")
                 /\ terminate' = FALSE
                 /\ UNCHANGED <<Others, wk, gestore, closesighup, pipesig>>

HangUp == /\ HandTo("sigwait", "hup") /\ "SIGHUP" \in Signals
          /\ closesighup' = FALSE
          /\ UNCHANGED <<Others, wk, terminate, gestore, pipesig>>
\* The test of the loop on activecon, under mtxcon.
HangUpTest == /\ mtxcon = NONE
              /\ HandTo("hup", IF activecon = 0 THEN "drained" ELSE "condcon")
              /\ UNCHANGED <<Others, wk, terminate, gestore, closesighup,
                             pipesig>>
HangUpStop == /\ HandTo("drained", "wake")
              /\ terminate' = FALSE
              /\ UNCHANGED <<Others, wk, gestore, closesighup, pipesig>>
HangUpWake == /\ HandTo("wake", "join")
              /\ pipesig' = TRUE
              /\ UNCHANGED <<Others, wk, terminate, gestore, closesighup>>

\* (Mutant of Join: no BCAST.)
JoinSilently == /\ HandTo("join", "joinWorkers") /\ disp.pc = "ended"
                /\ UNCHANGED <<Others, wk, terminate, gestore, closesighup,
                               pipesig>>

\* pthread_join(disp), BCAST(&condrequest).
Join == /\ HandTo("join", "joinWorkers") /\ disp.pc = "ended"
        /\ wk' = [w \in Workers |-> IF wk[w].pc = "waiting"
                                    THEN [wk[w] EXCEPT !.pc = "idle"]
                                    ELSE wk[w]]
        /\ UNCHANGED <<Others, terminate, gestore, closesighup, pipesig>>

\* (Mutant of JoinWorkers: the threads are not waited for.)
JoinNoWorkers == /\ HandTo("joinWorkers", "free")
                 /\ UNCHANGED <<Others, wk, terminate, gestore, closesighup,
                                pipesig>>
JoinWorkers == /\ HandTo("joinWorkers", "free")
               /\ \A w \in Workers : wk[w].pc = "ended"
               /\ UNCHANGED <<Others, wk, terminate, gestore, closesighup,
                              pipesig>>

\* SIGTERM has no case of its own.
Terminate == /\ HandTo("sigwait", "free") /\ "SIGTERM" \in Signals
             /\ UNCHANGED <<Others, wk, terminate, gestore, closesighup,
                            pipesig>>

\* freeStruct().
Free == /\ HandTo("free", "freed")
        /\ UNCHANGED <<Others, wk, terminate, gestore, closesighup, pipesig>>

\* main() joins the handler and returns.
Exit == /\ HandTo("freed", "exited")
        /\ UNCHANGED <<Others, wk, terminate, gestore, closesighup, pipesig>>

-----------------------------------------------------------------------------

ClientStep == \/ \E c \in Clients : Connect(c) \/ \E op \in Ops : Ask(c, op)
              \/ \E c \in Crashing : Crash(c)
DispatcherStep == \/ Select \/ SelectReturns \/ ScanNothing \/ ScanSignal
                  \/ ScanToken \/ ScanAccept \/ Count \/ Watch \/ ScanRead
                  \/ ReadMessage
WorkerStep(w) == \/ Take(w) \/ Wait(w) \/ Stop(w) \/ Serve(w) \/ PutBack(w)
                 \/ Token(w) \/ CloseBegin(w) \/ CloseClear(w) \/ CloseEnd(w)
\* The steps of the handler once a signal has come, and the signals.
HandlerStep == \/ InterruptStop \/ HangUpTest \/ HangUpStop \/ HangUpWake
               \/ Join \/ JoinWorkers \/ Free \/ Exit
SignalStep == Interrupt \/ HangUp \/ Terminate

Next == \/ ClientStep \/ DispatcherStep \/ HandlerStep \/ SignalStep
        \/ \E w \in Workers : WorkerStep(w)

Spec == Init /\ [][Next]_vars

\* Every thread that can run does. Clients and signals need not come.
FairSpec == /\ Spec
            /\ WF_vars(DispatcherStep) /\ WF_vars(HandlerStep)
            /\ \A w \in Workers : WF_vars(WorkerStep(w))

-----------------------------------------------------------------------------

\* No wake-up is lost: while a request is in queueric some worker is neither
\* waiting on condrequest nor ended (server.c:200-206, 226-230, 445-448).
QueueWatched == terminate /\ queueric # <<>> =>
    \E w \in Workers : wk[w].pc \notin {"waiting", "ended"}

\* The requests that are not answered yet.
Serving == {w \in Workers : wk[w].pc \in {"serve", "clear", "closing"}}
Queued == {i \in 1 .. Len(queueric) : queueric[i].from # NONE}

\* An answer goes to the client that asked, and there is one for each request:
\* the descriptor of a request is, until it is answered, that of the client that
\* sent it, even if it is put back or the client goes away; and no client has two
\* such requests (server.c:437-448, 197-206).
RequestsOwned ==
    /\ \A w \in Serving : wk[w].req.from # NONE =>
          /\ conn[wk[w].req.fd] = wk[w].req.from
          /\ \A v \in Serving \ {w} : wk[v].req.from # wk[w].req.from
          /\ \A i \in Queued : queueric[i].from # wk[w].req.from
    /\ \A i \in Queued :
          /\ conn[queueric[i].fd] = queueric[i].from
          /\ \A j \in Queued \ {i} : queueric[j].from # queueric[i].from

\* No client is forgotten: while the dispatcher runs, a connected client is
\* watched, or its descriptor is on its way to be, or it is being served
\* (server.c:86, "tutti i file descriptor attivi").
Attended ==
    gestore /\ disp.pc # "ended" =>
        \A d \in Descriptors :
            conn[d] # NONE /\ client[conn[d]] # "left" =>
                \/ d \in set
                \/ disp.pc \in {"count", "watch", "read"} /\ disp.fd = d
                \/ \E i \in 1 .. Len(pipe) : pipe[i] = d
                \/ \E i \in 1 .. Len(queueric) : queueric[i].fd = d
                \/ \E w \in Workers : /\ wk[w].pc \in {"serve", "token", "clear",
                                                       "closing"}
                                      /\ wk[w].req.fd = d

\* The dispatcher goes on until signalHandler() tells it to stop (README.md:42,
\* "un thread dispatcher che, in più, si occupa di accettare le richieste di
\* connessione dai vari client").
DispatcherLives == disp.pc = "ended" => ~gestore

\* The structures are freed when no thread can use them any more
\* (server.c:937-941, "attendo il dispatcher", "atendo i worker").
NothingFreedInUse == hand = "freed" =>
    disp.pc = "ended" /\ \A w \in Workers : wk[w].pc = "ended"

\* Once the dispatcher has been told to stop, the server ends (server.c:911-946).
StopsWhenTold == pipesig ~> hand = "exited"

\* SIGHUP ends the server when its clients have closed their connections, those
\* that were being accepted when it came included (server.c:928, "aspetto che non
\* ci siano più connessioni attive").
HangUpEnds ==
    ~closesighup /\ (\A c \in Clients : client[c] = "left") ~> hand = "exited"
=============================================================================
