---------------------------- MODULE ServerProofs ----------------------------
(***************************************************************************)
(* Theorems about Server, for any number of threads, clients and           *)
(* descriptors: types, that the dispatcher and the workers lose no         *)
(* wake-up, and that the end frees nothing that a thread can still use;    *)
(* who owns a request, and where a connected client is attended to.        *)
(***************************************************************************)
EXTENDS Server, SequenceTheorems, TLAPS

\* A worker that is past takeHead() has a request.
Holding == \A w \in Workers :
    wk[w].pc \in {"serve", "token", "clear", "closing"} => wk[w].req \in Request

\* No worker ends before the server is told to.
EndsLate == terminate => \A w \in Workers : wk[w].pc # "ended"

WInv == TypeOK /\ Holding /\ EndsLate /\ QueueWatched

Threads == [Workers -> Worker]

-----------------------------------------------------------------------------

\* SIGNAL changes nothing but one thread's label, from "waiting" to "idle".
LEMMA SignalledIs ==
    ASSUME NEW ths \in Threads, NEW t \in Signalled(ths)
    PROVE  /\ t \in Threads
           /\ \A w \in Workers : /\ t[w].req = ths[w].req
                                 /\ \/ t[w] = ths[w]
                                    \/ ths[w].pc = "waiting" /\ t[w].pc = "idle"
           /\ \/ \A w \in Workers : ths[w].pc # "waiting"
              \/ \E w \in Workers : t[w].pc = "idle"
<1>1. CASE \A w \in Workers : ths[w].pc # "waiting"
  <2>1. t = ths BY <1>1 DEF Signalled
  <2> QED BY <1>1, <2>1
<1>2. CASE \E w \in Workers : ths[w].pc = "waiting"
  <2>1. PICK v \in Workers : /\ ths[v].pc = "waiting"
                             /\ t = [ths EXCEPT ![v].pc = "idle"]
    BY <1>2 DEF Signalled
  <2>2. ths[v] \in Worker BY DEF Threads
  <2>3. [ths[v] EXCEPT !.pc = "idle"] \in Worker BY <2>2 DEF Worker
  <2>4. t = [ths EXCEPT ![v] = [ths[v] EXCEPT !.pc = "idle"]] BY <2>1
  <2>5. t \in Threads BY <2>3, <2>4 DEF Threads
  <2>6. t[v].pc = "idle" /\ t[v].req = ths[v].req BY <2>2, <2>4 DEF Threads, Worker
  <2>7. \A w \in Workers \ {v} : t[w] = ths[w] BY <2>4 DEF Threads
  <2> QED BY <2>1, <2>5, <2>6, <2>7
<1> QED BY <1>1, <1>2

\* The thread w moves to t, the others stay.
LEMMA Moved ==
    ASSUME WInv, NEW w \in Workers, NEW t \in Worker,
           wk' = [wk EXCEPT ![w] = t],
           t.pc \in {"serve", "token", "clear", "closing"} => t.req \in Request,
           t.pc # "waiting", t.pc # "ended",
           UNCHANGED terminate
    PROVE  /\ wk' \in Threads /\ Holding' /\ EndsLate' /\ QueueWatched'
<1>1. wk \in Threads BY DEF WInv, TypeOK, Threads
<1>2. wk'[w] = t /\ \A v \in Workers \ {w} : wk'[v] = wk[v] BY <1>1 DEF Threads
<1>3. wk' \in Threads BY <1>1 DEF Threads
<1> QED BY <1>2, <1>3 DEF WInv, Holding, EndsLate, QueueWatched

\* A request has been queued, with a SIGNAL, by a step that left the threads
\* as ths.
LEMMA Woken ==
    ASSUME WInv, NEW ths \in Threads, wk' \in Signalled(ths),
           \A w \in Workers :
              /\ ths[w].pc \in {"serve", "token", "clear", "closing"}
                   => ths[w].req \in Request
              /\ terminate => ths[w].pc # "ended",
           UNCHANGED terminate
    PROVE  wk' \in Threads /\ Holding' /\ EndsLate' /\ QueueWatched'
<1>1. PICK t \in Signalled(ths) : t = wk' OBVIOUS
<1>2. /\ wk' \in Threads
      /\ \A w \in Workers : /\ wk'[w].req = ths[w].req
                            /\ \/ wk'[w] = ths[w]
                               \/ ths[w].pc = "waiting" /\ wk'[w].pc = "idle"
      /\ \/ \A w \in Workers : ths[w].pc # "waiting"
         \/ \E w \in Workers : wk'[w].pc = "idle"
  BY <1>1, SignalledIs
<1>3. Holding' BY <1>2 DEF Holding
<1>4. EndsLate' BY <1>2 DEF EndsLate
<1>5. QueueWatched'
  <2>1. CASE \E w \in Workers : wk'[w].pc = "idle" BY <2>1 DEF QueueWatched
  <2>2. CASE \A w \in Workers : ths[w].pc # "waiting"
    <3>1. PICK w \in Workers : TRUE BY ServerAssumption
    <3>2. terminate => wk'[w].pc \notin {"waiting", "ended"} BY <1>2, <2>2
    <3> QED BY <3>2 DEF QueueWatched
  <2> QED BY <1>2, <2>1, <2>2
<1> QED BY <1>2, <1>3, <1>4, <1>5

\* Neither the threads nor the queue change.
LEMMA Unmoved ==
    ASSUME WInv, UNCHANGED <<wk, queueric>>, terminate' => terminate
    PROVE  Holding' /\ EndsLate' /\ QueueWatched'
BY DEF WInv, Holding, EndsLate, QueueWatched

LEMMA WInvInit == Init => WInv
<1> SUFFICES ASSUME Init PROVE WInv OBVIOUS
<1>1. wk \in [Workers -> Worker]
  BY DEF Init, Idle, Worker
<1>2. TypeOK
  <2>1. Selecting \in Dispatcher BY DEF Selecting, Dispatcher, Given
  <2>2. /\ pipe \in Seq(Given) /\ Len(pipe) <= PipeSize
        /\ backlog \in Seq(Clients) /\ queueric \in Seq(Request)
    BY ServerAssumption DEF Init
  <2>3. /\ sent \in [Clients -> Ops \cup {NONE}]
        /\ conn \in [Descriptors -> Clients \cup {NONE}]
        /\ client \in [Clients -> {"out", "idle", "asked", "left"}]
    BY DEF Init
  <2>4. set \subseteq Watchable /\ rdset \subseteq Watchable
    BY DEF Init, Watchable
  <2>5. /\ mtxcon \in Workers \cup {NONE} /\ activecon \in Int
        /\ hand = "sigwait"
    BY DEF Init
  <2>6. disp = Selecting BY DEF Init
  <2>7. /\ listening \in BOOLEAN /\ terminate \in BOOLEAN
        /\ gestore \in BOOLEAN /\ closesighup \in BOOLEAN
        /\ pipesig \in BOOLEAN
    BY Zenon DEF Init
  <2> QED BY <1>1, <2>1, <2>2, <2>3, <2>4, <2>5, <2>6, <2>7 DEF TypeOK
<1>3. Holding /\ EndsLate /\ QueueWatched
  BY DEF Init, Idle, Holding, EndsLate, QueueWatched
<1> QED BY <1>2, <1>3 DEF WInv

LEMMA ClientStepOK == WInv /\ ClientStep => WInv'
<1> SUFFICES ASSUME WInv, ClientStep PROVE WInv' OBVIOUS
<1> USE DEF Flags, Counted
<1>0. Holding' /\ EndsLate' /\ QueueWatched'
  BY Unmoved DEF ClientStep, Connect, Ask, Crash
<1>1. ASSUME NEW c \in Clients, Connect(c) PROVE TypeOK'
  BY <1>1 DEF Connect, WInv, TypeOK
<1>2. ASSUME NEW c \in Clients, NEW op \in Ops, Ask(c, op) PROVE TypeOK'
  BY <1>2 DEF Ask, WInv, TypeOK
<1>3. ASSUME NEW c \in Clients, Crash(c) PROVE TypeOK'
  BY <1>3 DEF Crash, WInv, TypeOK
<1> QED BY <1>0, <1>1, <1>2, <1>3, ServerAssumption DEF ClientStep, WInv

LEMMA HandlerStepOK == WInv /\ (HandlerStep \/ SignalStep) => WInv'
<1> SUFFICES ASSUME WInv, HandlerStep \/ SignalStep PROVE WInv' OBVIOUS
<1> USE DEF Flags, Sockets, Counted, Others, HandTo
<1>1. CASE Join
  <2>1. \A w \in Workers : wk[w] \in Worker BY DEF WInv, TypeOK
  <2>2. \A w \in Workers : [wk[w] EXCEPT !.pc = "idle"] \in Worker
    BY <2>1 DEF Worker
  <2>3. wk' \in [Workers -> Worker] BY <1>1, <2>1, <2>2 DEF Join
  <2>4. TypeOK' BY <1>1, <2>3 DEF Join, WInv, TypeOK
  <2>5. \A w \in Workers : \/ wk'[w] = wk[w]
                           \/ wk[w].pc = "waiting" /\ wk'[w].pc = "idle"
    BY <1>1, <2>1 DEF Join, Worker
  <2>6. UNCHANGED <<queueric, terminate>> BY <1>1 DEF Join
  <2>7. Holding' /\ EndsLate' /\ QueueWatched'
    BY <2>5, <2>6 DEF WInv, Holding, EndsLate, QueueWatched
  <2> QED BY <2>4, <2>7 DEF WInv
<1>2. CASE ~Join
  <2>1. TypeOK'
    BY <1>2 DEF HandlerStep, SignalStep, InterruptStop, HangUpTest, HangUpStop,
                HangUpWake, JoinWorkers, Free, Exit, Interrupt, HangUp,
                Terminate, WInv, TypeOK
  <2>2. UNCHANGED <<wk, queueric>> /\ (terminate' => terminate)
    BY <1>2 DEF HandlerStep, SignalStep, InterruptStop, HangUpTest, HangUpStop,
                HangUpWake, JoinWorkers, Free, Exit, Interrupt, HangUp,
                Terminate, WInv, TypeOK
  <2> QED BY <2>1, <2>2, Unmoved DEF WInv
<1> QED BY <1>1, <1>2

-----------------------------------------------------------------------------

LEMMA DispatcherStepOK == WInv /\ DispatcherStep => WInv'
<1> SUFFICES ASSUME WInv, DispatcherStep PROVE WInv' OBVIOUS
<1> USE DEF Flags, Sockets, Counted
<1>1. CASE ReadMessage
  <2>1. wk \in Threads BY DEF WInv, TypeOK, Threads
  <2>2. /\ wk' \in Signalled(wk)
        /\ terminate' = terminate
        /\ queueric' \in Seq(Request)
        /\ sent' \in [Clients -> Ops \cup {NONE}]
        /\ conn' = conn
    <3> DEFINE d == disp.fd
    <3>1. d \in Given BY DEF WInv, TypeOK, Dispatcher
    <3>2. CASE d \in Descriptors /\ conn[d] # NONE /\ sent[conn[d]] # NONE
      <4>1. [fd |-> d, op |-> sent[conn[d]], from |-> conn[d]] \in Request
        BY <3>1, <3>2, ServerAssumption DEF WInv, TypeOK, Request
      <4>2. /\ Enqueue([fd |-> d, op |-> sent[conn[d]], from |-> conn[d]])
            /\ sent' = [sent EXCEPT ![conn[d]] = NONE]
            /\ UNCHANGED <<conn, terminate>>
        BY <1>1, <3>2 DEF ReadMessage
      <4>3. sent' \in [Clients -> Ops \cup {NONE}]
        BY <4>2 DEF WInv, TypeOK
      <4> QED BY <4>1, <4>2, <4>3 DEF Enqueue, WInv, TypeOK
    <3>3. CASE d \in Descriptors /\ conn[d] # NONE /\ sent[conn[d]] = NONE
      BY <1>1, <3>3 DEF ReadMessage, EndOfFile, WInv, TypeOK
    <3>4. CASE d \in Descriptors => conn[d] = NONE
      <4>1. \A op \in Ops \cup {NONE} :
               [fd |-> d, op |-> op, from |-> NONE] \in Request
        BY <3>1, ServerAssumption DEF Request
      <4>2. PICK op \in Ops \cup {NONE} :
               Enqueue([fd |-> d, op |-> op, from |-> NONE])
        BY <1>1, <3>4 DEF ReadMessage
      <4>3. UNCHANGED <<sent, conn, terminate>>
        BY <1>1, <3>4 DEF ReadMessage
      <4> QED BY <4>1, <4>2, <4>3 DEF Enqueue, WInv, TypeOK
    <3> QED BY <3>2, <3>3, <3>4
  <2>3. wk' \in Threads /\ Holding' /\ EndsLate' /\ QueueWatched'
    BY <2>1, <2>2, Woken DEF WInv, Holding, EndsLate
  <2>4. disp' \in Dispatcher /\ set' \subseteq Watchable
    BY <1>1 DEF ReadMessage, WInv, TypeOK, Dispatcher, Selecting, Given
  <2>5. TypeOK'
    BY <1>1, <2>2, <2>3, <2>4 DEF ReadMessage, WInv, TypeOK, Threads
  <2> QED BY <2>3, <2>5 DEF WInv
<1>2. CASE ~ReadMessage
  <2>1. UNCHANGED <<wk, queueric, terminate>>
    BY <1>2 DEF DispatcherStep, Select, SelectReturns, ScanNothing, ScanSignal,
                ScanToken, ScanAccept, Count, Watch, ScanRead
  <2>2. ASSUME Select \/ SelectReturns \/ ScanNothing \/ ScanSignal PROVE TypeOK'
    <3>1. disp' \in Dispatcher
      BY <2>2 DEF Select, SelectReturns, ScanNothing, ScanSignal, WInv, TypeOK,
                  Dispatcher
    <3>2. rdset' \subseteq Watchable
      BY <2>2 DEF Select, SelectReturns, ScanNothing, ScanSignal, WInv, TypeOK
    <3>3. /\ gestore' \in BOOLEAN
          /\ UNCHANGED <<Sockets, set, queueric, pipe, wk, Counted, terminate,
                         closesighup, pipesig, hand>>
      BY <2>2 DEF Select, SelectReturns, ScanNothing, ScanSignal, WInv, TypeOK
    <3> QED BY <3>1, <3>2, <3>3 DEF WInv, TypeOK
  <2>3. ASSUME ScanToken PROVE TypeOK'
    <3>1. Head(pipe) \in Given /\ Tail(pipe) \in Seq(Given)
          /\ Len(Tail(pipe)) <= PipeSize
      BY <2>3, ServerAssumption DEF ScanToken, WInv, TypeOK
    <3>2. disp' \in Dispatcher
      BY <2>3, <3>1 DEF ScanToken, WInv, TypeOK, Dispatcher
    <3>3. /\ pipe' = Tail(pipe) /\ rdset' = {}
          /\ UNCHANGED <<Sockets, set, queueric, wk, Counted, Flags>>
      BY <2>3 DEF ScanToken
    <3> QED BY <3>1, <3>2, <3>3 DEF WInv, TypeOK
  <2>4. ASSUME ScanAccept PROVE TypeOK'
    <3>1. Head(backlog) \in Clients /\ Tail(backlog) \in Seq(Clients)
      BY <2>4 DEF ScanAccept, WInv, TypeOK
    <3>2. disp' \in Dispatcher
      BY <2>4 DEF ScanAccept, WInv, TypeOK, Dispatcher, Given
    <3>3. conn' \in [Descriptors -> Clients \cup {NONE}]
      BY <2>4, <3>1 DEF ScanAccept, WInv, TypeOK
    <3>4. /\ backlog' = Tail(backlog) /\ rdset' = {}
          /\ UNCHANGED <<client, sent, listening, set, queueric, pipe, wk,
                         Counted, Flags>>
      BY <2>4 DEF ScanAccept
    <3> QED BY <3>1, <3>2, <3>3, <3>4 DEF WInv, TypeOK
  <2>5. ASSUME Count PROVE TypeOK'
    <3>1. disp' \in Dispatcher BY <2>5 DEF Count, WInv, TypeOK, Dispatcher
    <3>2. /\ activecon' = activecon + 1
          /\ UNCHANGED <<Sockets, set, rdset, queueric, pipe, wk, mtxcon, Flags>>
      BY <2>5 DEF Count
    <3> QED BY <3>1, <3>2 DEF WInv, TypeOK
  <2>6. ASSUME ScanRead PROVE TypeOK'
    <3>1. disp' \in Dispatcher BY <2>6 DEF ScanRead, WInv, TypeOK, Dispatcher
    <3>2. /\ rdset' = {}
          /\ UNCHANGED <<Sockets, set, queueric, pipe, wk, Counted, Flags>>
      BY <2>6 DEF ScanRead
    <3> QED BY <3>1, <3>2 DEF WInv, TypeOK
  <2>7. ASSUME Watch PROVE TypeOK'
    <3>1. disp' \in Dispatcher BY <2>7 DEF Watch, Dispatcher, Selecting, Given
    <3>2. set' \subseteq Watchable
      BY <2>7 DEF Watch, WInv, TypeOK, Dispatcher, Given, Watchable
    <3>3. UNCHANGED <<Sockets, rdset, queueric, pipe, wk, Counted, Flags>>
      BY <2>7 DEF Watch
    <3> QED BY <3>1, <3>2, <3>3 DEF WInv, TypeOK
  <2>8. TypeOK'
    BY <1>2, <2>2, <2>3, <2>4, <2>5, <2>6, <2>7 DEF DispatcherStep
  <2> QED BY <2>1, <2>8, Unmoved DEF WInv
<1> QED BY <1>1, <1>2

-----------------------------------------------------------------------------

LEMMA WorkerStepOK == ASSUME WInv, NEW w \in Workers, WorkerStep(w) PROVE WInv'
<1> USE DEF Flags, Sockets, Counted, Queues
<1>0. /\ wk \in [Workers -> Worker] /\ wk[w] \in Worker
      /\ wk[w].pc \in {"serve", "token", "clear", "closing"}
           => wk[w].req \in Request
  BY DEF WInv, TypeOK, Holding
<1> DEFINE To(l) == [wk[w] EXCEPT !.pc = l]
<1>1. /\ \A l \in {"idle", "waiting", "serve", "token", "clear", "closing",
                   "ended"} : To(l) \in Worker /\ To(l).pc = l
                              /\ To(l).req = wk[w].req
  BY <1>0 DEF Worker
<1>2. Idle \in Worker /\ Idle.pc = "idle" BY DEF Idle, Worker
<1>3. ASSUME Take(w) PROVE WInv'
  <2>1. Head(queueric) \in Request /\ Tail(queueric) \in Seq(Request)
    BY <1>3 DEF Take, WInv, TypeOK
  <2> DEFINE t == [wk[w] EXCEPT !.pc = "serve", !.req = Head(queueric)]
  <2>2. t \in Worker /\ t.pc = "serve" /\ t.req \in Request
    BY <1>0, <2>1 DEF Worker
  <2>3. wk' = [wk EXCEPT ![w] = t] /\ UNCHANGED terminate BY <1>3 DEF Take
  <2>4. wk' \in Threads /\ Holding' /\ EndsLate' /\ QueueWatched'
    <3> HIDE DEF t
    <3> QED BY <2>2, <2>3, Moved
  <2>5. TypeOK' BY <1>3, <2>1, <2>4 DEF Take, WInv, TypeOK, Threads
  <2> QED BY <2>4, <2>5 DEF WInv
<1>4. ASSUME Wait(w) \/ Stop(w) PROVE WInv'
  <2>1. PICK l \in {"waiting", "ended"} : /\ wk' = [wk EXCEPT ![w] = To(l)]
                                          /\ l = "ended" => ~terminate
    BY <1>4 DEF Wait, Stop, Goto
  <2>2. /\ UNCHANGED <<queueric, terminate, Queues>>
        /\ terminate => queueric = <<>>
    BY <1>4 DEF Wait, Stop
  <2>3. /\ wk' \in [Workers -> Worker] /\ wk'[w].pc = l
        /\ \A v \in Workers \ {w} : wk'[v] = wk[v]
    <3>1. To(l) \in Worker /\ To(l).pc = l BY <1>1
    <3> HIDE DEF To
    <3> QED BY <1>0, <2>1, <3>1
  <2>4. Holding' BY <2>3 DEF WInv, Holding
  <2>5. EndsLate'
    <3>1. terminate => l # "ended" BY <2>1
    <3>2. UNCHANGED terminate BY <2>2
    <3> QED BY <2>3, <3>1, <3>2 DEF WInv, EndsLate
  <2>6. QueueWatched' BY <2>2 DEF QueueWatched
  <2>7. TypeOK' BY <2>2, <2>3 DEF WInv, TypeOK
  <2> QED BY <2>4, <2>5, <2>6, <2>7 DEF WInv
<1>5. ASSUME PutBack(w) PROVE WInv'
  <2>1. /\ [wk EXCEPT ![w].pc = "token"] = [wk EXCEPT ![w] = To("token")]
        /\ [wk EXCEPT ![w] = To("token")] \in Threads
    BY <1>0, <1>1 DEF Threads
  <2> DEFINE ths == [wk EXCEPT ![w] = To("token")]
  <2>2. /\ ths[w] = To("token")
        /\ \A v \in Workers \ {w} : ths[v] = wk[v]
    BY <1>0
  <2>3. wk[w].req \in Request BY <1>0, <1>5 DEF PutBack, WorkerAt
  <2>4. \A v \in Workers :
          /\ ths[v].pc \in {"serve", "token", "clear", "closing"}
               => ths[v].req \in Request
          /\ terminate => ths[v].pc # "ended"
    BY <1>1, <2>2, <2>3 DEF WInv, Holding, EndsLate
  <2>5. wk' \in Signalled(ths) /\ UNCHANGED terminate
    BY <1>5, <2>1 DEF PutBack
  <2>6. wk' \in Threads /\ Holding' /\ EndsLate' /\ QueueWatched'
    <3> HIDE DEF ths
    <3>1. ths \in Threads BY <2>1 DEF ths
    <3> QED BY <2>4, <2>5, <3>1, Woken
  <2>7. queueric' \in Seq(Request)
    BY <1>5, <2>3 DEF PutBack, WInv, TypeOK
  <2>8. UNCHANGED Queues BY <1>5 DEF PutBack
  <2>9. TypeOK' BY <2>6, <2>7, <2>8 DEF WInv, TypeOK, Threads
  <2> QED BY <2>6, <2>9 DEF WInv
<1>6. ASSUME Serve(w) PROVE WInv'
  <2>1. wk' = [wk EXCEPT ![w] = To("token")] /\ UNCHANGED terminate
    BY <1>6 DEF Serve, Goto
  <2>2. wk[w].req \in Request BY <1>0, <1>6 DEF Serve, WorkerAt
  <2>3. wk' \in Threads /\ Holding' /\ EndsLate' /\ QueueWatched'
    <3> HIDE DEF To
    <3> QED BY <1>1, <2>1, <2>2, Moved
  <2>4. client' \in [Clients -> {"out", "idle", "asked", "left"}]
    BY <1>6 DEF Serve, Answer, WInv, TypeOK
  <2>5. UNCHANGED <<sent, backlog, conn, listening, set, rdset, disp, queueric,
                    pipe, Counted, Flags>>
    BY <1>6 DEF Serve
  <2>6. TypeOK' BY <2>3, <2>4, <2>5 DEF WInv, TypeOK, Threads
  <2> QED BY <2>3, <2>6 DEF WInv
<1>7. ASSUME Token(w) PROVE WInv'
  <2>1. wk' = [wk EXCEPT ![w] = Idle] /\ UNCHANGED terminate
    BY <1>7 DEF Token
  <2>2. wk' \in Threads /\ Holding' /\ EndsLate' /\ QueueWatched'
    BY <1>2, <2>1, Moved
  <2>3. wk[w].req.fd \in Given
    BY <1>0, <1>7 DEF Token, WorkerAt, Request
  <2>4. pipe' \in Seq(Given) /\ Len(pipe') <= PipeSize
    BY <1>7, <2>3, ServerAssumption DEF Token, WInv, TypeOK
  <2>5. UNCHANGED <<Sockets, set, rdset, disp, queueric, Counted, Flags>>
    BY <1>7 DEF Token
  <2>6. TypeOK' BY <2>2, <2>4, <2>5 DEF WInv, TypeOK, Threads
  <2> QED BY <2>2, <2>6 DEF WInv
<1>8. ASSUME CloseBegin(w) PROVE WInv'
  <2> DEFINE t == [wk[w] EXCEPT !.pc = "clear", !.tmp = set]
  <2>1. t \in Worker /\ t.pc = "clear" /\ t.req \in Request
    BY <1>0, <1>8 DEF CloseBegin, WorkerAt, Worker, WInv, TypeOK
  <2>2. wk' = [wk EXCEPT ![w] = t] /\ UNCHANGED terminate
    BY <1>8 DEF CloseBegin
  <2>3. wk' \in Threads /\ Holding' /\ EndsLate' /\ QueueWatched'
    <3> HIDE DEF t
    <3> QED BY <2>1, <2>2, Moved
  <2>4. /\ mtxcon' = w
        /\ UNCHANGED <<Sockets, set, rdset, disp, queueric, pipe, activecon,
                       Flags>>
    BY <1>8 DEF CloseBegin
  <2>5. TypeOK' BY <2>3, <2>4 DEF WInv, TypeOK, Threads
  <2> QED BY <2>3, <2>5 DEF WInv
<1>9. ASSUME CloseClear(w) PROVE WInv'
  <2> DEFINE t == [wk[w] EXCEPT !.pc = "closing", !.tmp = {}]
  <2>1. t \in Worker /\ t.pc = "closing" /\ t.req \in Request
    BY <1>0, <1>9 DEF CloseClear, WorkerAt, Worker
  <2>2. wk' = [wk EXCEPT ![w] = t] /\ UNCHANGED terminate
    BY <1>9 DEF CloseClear
  <2>3. wk' \in Threads /\ Holding' /\ EndsLate' /\ QueueWatched'
    <3> HIDE DEF t
    <3> QED BY <2>1, <2>2, Moved
  <2>4. set' \subseteq Watchable /\ activecon' \in Int
    BY <1>0, <1>9 DEF CloseClear, Worker, WInv, TypeOK
  <2>5. /\ hand' \in {hand, "hup"}
        /\ UNCHANGED <<Sockets, rdset, disp, queueric, pipe, mtxcon, terminate,
                       gestore, closesighup, pipesig>>
    BY <1>9 DEF CloseClear
  <2>6. TypeOK' BY <2>3, <2>4, <2>5 DEF WInv, TypeOK, Threads
  <2> QED BY <2>3, <2>6 DEF WInv
<1>10. ASSUME CloseEnd(w) PROVE WInv'
  <2>1. wk' = [wk EXCEPT ![w] = Idle] /\ UNCHANGED terminate
    BY <1>10 DEF CloseEnd
  <2>2. wk' \in Threads /\ Holding' /\ EndsLate' /\ QueueWatched'
    BY <1>2, <2>1, Moved
  <2>3. client' \in [Clients -> {"out", "idle", "asked", "left"}]
    BY <1>10 DEF CloseEnd, Answer, WInv, TypeOK
  <2>4. conn' \in [Descriptors -> Clients \cup {NONE}] /\ listening' \in BOOLEAN
    BY <1>10 DEF CloseEnd, WInv, TypeOK
  <2>5. /\ mtxcon' = NONE
        /\ UNCHANGED <<sent, backlog, set, rdset, disp, queueric, pipe,
                       activecon, Flags>>
    BY <1>10 DEF CloseEnd
  <2>6. TypeOK' BY <2>2, <2>3, <2>4, <2>5 DEF WInv, TypeOK, Threads
  <2> QED BY <2>2, <2>6 DEF WInv
<1> QED BY <1>3, <1>4, <1>5, <1>6, <1>7, <1>8, <1>9, <1>10 DEF WorkerStep

-----------------------------------------------------------------------------

LEMMA WInvStep == WInv /\ [Next]_vars => WInv'
<1> SUFFICES ASSUME WInv, [Next]_vars PROVE WInv' OBVIOUS
<1>1. CASE UNCHANGED vars
  <2>1. UNCHANGED <<wk, queueric, terminate>> BY <1>1 DEF vars
  <2>2. TypeOK' BY <1>1 DEF vars, WInv, TypeOK
  <2> QED BY <2>1, <2>2, Unmoved DEF WInv
<1>2. CASE Next
  BY <1>2, ClientStepOK, DispatcherStepOK, HandlerStepOK, WorkerStepOK DEF Next
<1> QED BY <1>1, <1>2

\* The types, what the labels of a worker say, and QueueWatched hold together
\* in every reachable state (server.c:139-235).
THEOREM WInvariance == Spec => []WInv
BY WInvInit, WInvStep, PTL DEF Spec

\* The dispatcher, the workers, the pipe and the queue keep their types: what
\* is read from the pipe or taken from the queue is always a descriptor, or a
\* request, that the server can have, and the pipe never overflows.
THEOREM Typing == Spec => []TypeOK
<1>1. WInv => TypeOK BY DEF WInv
<1> QED BY <1>1, WInvariance, PTL

\* No wake-up is lost (server.c:205, 229, 447): whatever is queued while threads
\* wait on condrequest, some thread is up to take it, until the server stops.
THEOREM NoWakeupIsLost == Spec => []QueueWatched
<1>1. WInv => QueueWatched BY DEF WInv
<1> QED BY <1>1, WInvariance, PTL

-----------------------------------------------------------------------------
(* The order of the end: joins before freeStruct() *)

\* signalHandler() is past pthread_join(disp), past the joins of the workers.
Joined == /\ hand = "joinWorkers" => disp.pc = "ended"
          /\ hand \in {"free", "freed", "exited"} =>
                disp.pc = "ended" /\ \A w \in Workers : wk[w].pc = "ended"

LEMMA JoinedStep ==
    ASSUME "SIGTERM" \notin Signals, TypeOK, Joined, [Next]_vars
    PROVE  Joined'
<1> USE DEF Flags, Sockets, Counted, Others, Queues, HandTo
<1>1. CASE UNCHANGED vars BY <1>1 DEF vars, Joined
<1>2. CASE ClientStep
  <2>1. UNCHANGED <<hand, disp, wk>>
    BY <1>2 DEF ClientStep, Connect, Ask, Crash
  <2> QED BY <2>1 DEF Joined
<1>3. CASE DispatcherStep
  <2>1. disp.pc # "ended" /\ UNCHANGED hand
    BY <1>3 DEF DispatcherStep, DispAt, Scans, Select, SelectReturns,
                ScanNothing, ScanSignal, ScanToken, ScanAccept, Count, Watch,
                ScanRead, ReadMessage
  <2> QED BY <2>1 DEF Joined
<1>4. ASSUME NEW w \in Workers, WorkerStep(w) PROVE Joined'
  <2>1. wk[w].pc # "ended" /\ hand' \in {hand, "hup"} /\ UNCHANGED disp
    BY <1>4 DEF WorkerStep, WorkerAt, Take, Wait, Stop, Serve, PutBack, Token,
                CloseBegin, CloseClear, CloseEnd
  <2> QED BY <2>1 DEF Joined
<1>5. CASE HandlerStep \/ SignalStep
  <2>1. CASE Join
    BY <2>1 DEF Join, Joined
  <2>2. CASE JoinWorkers
    BY <2>2 DEF JoinWorkers, Joined
  <2>3. CASE ~Join /\ ~JoinWorkers
    <3>1. /\ UNCHANGED <<wk, disp>>
          /\ hand' # "joinWorkers"
          /\ hand' \in {"free", "freed", "exited"} => hand \in {"free", "freed"}
      BY <1>5, <2>3
         DEF HandlerStep, SignalStep, InterruptStop, HangUpTest, HangUpStop,
             HangUpWake, Free, Exit, Interrupt, HangUp, Terminate
    <3> QED BY <3>1 DEF Joined
  <2> QED BY <2>1, <2>2, <2>3
<1> QED BY <1>1, <1>2, <1>3, <1>4, <1>5 DEF Next

\* Unless SIGTERM comes, which has no case of its own in signalHandler(), the
\* structures are freed when all the threads have ended (server.c:937-946).
THEOREM FreedAfterUse ==
    ASSUME "SIGTERM" \notin Signals PROVE Spec => []NothingFreedInUse
<1>1. Init => Joined BY DEF Init, Joined
<1>2. TypeOK /\ Joined /\ [Next]_vars => Joined' BY JoinedStep
<1>3. Joined => NothingFreedInUse BY DEF Joined, NothingFreedInUse
<1> QED BY <1>1, <1>2, <1>3, Typing, PTL DEF Spec

-----------------------------------------------------------------------------
(* Who owns a request *)

\* Where there are clients that close their connections, none goes away
\* without closing.
Orderly == "close" \in Ops => Crashing = {}

\* A client is at most once in the backlog or behind a descriptor, and it has
\* called connect().
Apart ==
    /\ \A i, j \in 1 .. Len(backlog) : i # j => backlog[i] # backlog[j]
    /\ \A i \in 1 .. Len(backlog) :
          /\ client[backlog[i]] # "out"
          /\ client[backlog[i]] = "left" => backlog[i] \in Crashing
          /\ \A d \in Descriptors : conn[d] # backlog[i]
    /\ \A d, e \in Descriptors : conn[d] # NONE /\ conn[d] = conn[e] => d = e
    /\ \A d \in Descriptors : conn[d] # NONE =>
          /\ client[conn[d]] # "out"
          /\ client[conn[d]] = "left" => conn[d] \in Crashing

\* A request read from a client's descriptor is the only thing that its client
\* has under way; the others were read from fd_skt.
Asking(c) == client[c] \in {"asked", "left"}
Mine(r) == IF r.fd = fd_skt THEN r.from = NONE
           ELSE /\ r.from # NONE /\ conn[r.fd] = r.from
                /\ Asking(r.from) /\ sent[r.from] = NONE
Requested == /\ \A c \in Clients : sent[c] # NONE => Asking(c)
             /\ \A i \in 1 .. Len(queueric) : Mine(queueric[i])
             /\ \A w \in Serving : Mine(wk[w].req)

\* No client has two requests.
OneEach ==
    /\ \A i, j \in 1 .. Len(queueric) : queueric[i].from # NONE /\ i # j =>
          queueric[i].from # queueric[j].from
    /\ \A v, w \in Serving : wk[v].req.from # NONE /\ v # w =>
          wk[v].req.from # wk[w].req.from
    /\ \A w \in Serving : \A i \in 1 .. Len(queueric) :
          wk[w].req.from # NONE => queueric[i].from # wk[w].req.from

\* Only CLOSECONNECTION closes, and only if some client makes that request.
Closers ==
    /\ \A w \in Workers : wk[w].pc \in {"clear", "closing"} => wk[w].req.op = "close"
    /\ \A i \in 1 .. Len(queueric) : queueric[i].op \in Ops \cup {NONE}
    /\ \A w \in Serving : wk[w].req.op \in Ops \cup {NONE}

\* What the dispatcher reads from has a request or an end of file.
HasInput(d) == d \in Descriptors =>
    conn[d] # NONE /\ (sent[conn[d]] # NONE \/ client[conn[d]] = "left")
ReadsInput ==
    /\ disp.pc = "scan" => \A d \in rdset : HasInput(d)
    /\ disp.pc = "read" => HasInput(disp.fd)

RInv == Apart /\ Requested /\ OneEach /\ Closers /\ ReadsInput

ServeLabels == {"serve", "clear", "closing"}

-----------------------------------------------------------------------------
(* What the steps share *)

LEMMA Own == /\ fd_skt \notin Descriptors /\ pipefd \notin Descriptors
             /\ pipedisp \notin Descriptors
             /\ NONE \notin Clients /\ NONE # "close"
             /\ fd_skt # pipefd /\ fd_skt # pipedisp
BY ServerAssumption DEF fd_skt, pipefd, pipedisp, AllOps

LEMMA RequestTypes ==
    ASSUME WInv
    PROVE  /\ \A i \in 1 .. Len(queueric) : queueric[i] \in Request
           /\ \A w \in Serving : wk[w].req \in Request
           /\ \A r \in Request : r.fd \in Given /\ r.from \in Clients \cup {NONE}
           /\ \A r \in Request : r.fd # fd_skt => r.fd \in Descriptors
<1>1. \A i \in 1 .. Len(queueric) : queueric[i] \in Request
  BY DEF WInv, TypeOK
<1>2. \A w \in Serving : wk[w].req \in Request
  BY DEF WInv, Holding, Serving
<1> QED BY <1>1, <1>2 DEF Request, Given

\* No request that was somebody's is anybody else's, when the clients that ask
\* and are behind a descriptor stay.
LEMMA MineStays ==
    ASSUME WInv, NEW r \in Request, Mine(r),
           r.fd # fd_skt =>
              /\ conn'[r.fd] = conn[r.fd]
              /\ Asking(r.from) => Asking(r.from)'
              /\ sent[r.from] = NONE => sent'[r.from] = NONE
    PROVE  Mine(r)'
BY DEF Mine, Asking

\* The requests are where they were, but for those that have been answered.
LEMMA StayPut ==
    ASSUME WInv, Requested, OneEach, Closers,
           \A i \in 1 .. Len(queueric) : Mine(queueric[i])',
           \A w \in Serving : wk'[w].pc \in ServeLabels => Mine(wk[w].req)',
           \A c \in Clients : sent'[c] # NONE => Asking(c)',
           UNCHANGED queueric,
           \A w \in Workers : wk'[w].pc \in ServeLabels =>
              /\ w \in Serving /\ wk'[w].req = wk[w].req
              /\ wk'[w].pc # "serve" => wk[w].req.op = "close"
    PROVE  Requested' /\ OneEach' /\ Closers'
<1>1. \A w \in Workers : w \in Serving' => w \in Serving /\ wk'[w].req = wk[w].req
  BY DEF Serving, ServeLabels
<1>2. \A w \in Serving' : w \in Workers /\ wk'[w].pc \in ServeLabels
  BY DEF Serving, ServeLabels
<1>3. Requested'
  <2>1. ASSUME NEW w \in Serving' PROVE (Mine(wk[w].req))'
    <3>1. PICK q : q = wk[w].req OBVIOUS
    <3>2. w \in Serving /\ wk'[w].req = q BY <1>1, <1>2, <3>1
    <3>3. Mine(q)' BY <1>2, <3>1, <3>2
    <3> QED BY <3>2, <3>3 DEF Mine, Asking
  <2>2. ASSUME NEW i \in 1 .. Len(queueric') PROVE (Mine(queueric[i]))'
    <3>1. queueric' = queueric OBVIOUS
    <3> QED BY <3>1
  <2> QED BY <2>1, <2>2 DEF Requested
<1>4. OneEach'
  BY <1>1, <1>2 DEF OneEach
<1>5. Closers'
  BY <1>1, <1>2 DEF Closers, ServeLabels
<1> QED BY <1>3, <1>4, <1>5

\* A step after which every client that asked still asks, what it sent still
\* has been read, and it is behind the same descriptor.
Keeps == /\ \A d \in Descriptors : conn[d] # NONE => conn'[d] = conn[d]
         /\ \A c \in Clients : /\ Asking(c) => client'[c] \in {"asked", "left"}
                               /\ Asking(c) /\ sent[c] = NONE => sent'[c] = NONE
                               /\ sent'[c] # NONE => client'[c] \in {"asked", "left"}

LEMMA KeepsMine ==
    ASSUME WInv, Keeps, NEW r \in Request, Mine(r)
    PROVE  Mine(r)'
<1>1. r.fd # fd_skt => r.fd \in Descriptors /\ r.from \in Clients
  BY RequestTypes DEF Mine
<1> QED BY <1>1 DEF Keeps, Mine, Asking

\* The threads serve what they served, or less.
ThreadsStay == \A w \in Workers : wk'[w].pc \in ServeLabels =>
    /\ w \in Serving /\ wk'[w].req = wk[w].req
    /\ wk'[w].pc # "serve" => wk[w].req.op = "close"

LEMMA KeptRequests ==
    ASSUME WInv, Requested, OneEach, Closers, Keeps, ThreadsStay,
           UNCHANGED queueric
    PROVE  Requested' /\ OneEach' /\ Closers'
<1>1. \A i \in 1 .. Len(queueric) : Mine(queueric[i])'
  <2> TAKE i \in 1 .. Len(queueric)
  <2>1. PICK q : q = queueric[i] OBVIOUS
  <2>2. Mine(q) /\ q \in Request BY <2>1, RequestTypes DEF Requested
  <2>3. Mine(q)' BY <2>2, KeepsMine
  <2>4. queueric'[i] = q BY <2>1
  <2> QED BY <2>3, <2>4 DEF Mine, Asking
<1>2. \A w \in Serving : wk'[w].pc \in ServeLabels => Mine(wk[w].req)'
  <2> TAKE w \in Serving
  <2> HAVE wk'[w].pc \in ServeLabels
  <2>1. PICK q : q = wk[w].req OBVIOUS
  <2>2. Mine(q) /\ q \in Request BY <2>1, RequestTypes DEF Requested
  <2>3. Mine(q)' BY <2>2, KeepsMine
  <2>4. wk'[w].req = q BY <2>1 DEF ThreadsStay, Serving
  <2> QED BY <2>3, <2>4 DEF Mine, Asking
<1>3. \A c \in Clients : sent'[c] # NONE => Asking(c)'
  BY DEF Keeps, Asking
<1> QED BY <1>1, <1>2, <1>3, StayPut DEF ThreadsStay

\* None of the clients, the connections and the threads changes.
LEMMA SameSockets ==
    ASSUME WInv, RInv, UNCHANGED <<client, sent, conn>>
    PROVE  /\ Keeps /\ (UNCHANGED backlog => Apart')
           /\ \A d \in Given : HasInput(d) => HasInput(d)'
BY DEF RInv, Requested, Keeps, Apart, HasInput, Asking

LEMMA SameThreads ==
    ASSUME WInv, RInv, UNCHANGED wk PROVE ThreadsStay
BY DEF RInv, Closers, ThreadsStay, ServeLabels, Serving

-----------------------------------------------------------------------------
(* The steps of the clients *)

LEMMA ClientOwned == ASSUME WInv, RInv, ClientStep PROVE RInv'
<1> USE DEF Counted, Flags
<1>1. UNCHANGED <<wk, queueric, disp, rdset, conn>>
  BY DEF ClientStep, Connect, Ask, Crash
<1>2. ThreadsStay BY <1>1, SameThreads
<1>3. /\ client \in [Clients -> {"out", "idle", "asked", "left"}]
      /\ sent \in [Clients -> Ops \cup {NONE}] /\ backlog \in Seq(Clients)
      /\ \A d \in Descriptors : conn[d] \in Clients \cup {NONE}
      /\ Crashing \subseteq Clients
  BY ServerAssumption DEF WInv, TypeOK
<1>4. SUFFICES Keeps /\ Apart' /\ \A d \in Watchable : HasInput(d) => HasInput(d)'
  <2>1. Requested' /\ OneEach' /\ Closers'
    BY <1>1, <1>2, <1>4, KeptRequests DEF RInv
  <2>2. ReadsInput'
    <3>1. disp.fd \in Watchable /\ rdset \subseteq Watchable
      BY DEF WInv, TypeOK, Dispatcher, Given, Watchable
    <3> QED BY <1>1, <1>4, <3>1 DEF RInv, ReadsInput
  <2> QED BY <1>4, <2>1, <2>2 DEF RInv
<1>5. ASSUME NEW c \in Clients, Connect(c) PROVE Keeps /\ Apart'
        /\ \A d \in Watchable : HasInput(d) => HasInput(d)'
  <2>1. /\ client[c] = "out" /\ client' = [client EXCEPT ![c] = "idle"]
        /\ backlog' = Append(backlog, c) /\ UNCHANGED sent
    BY <1>5 DEF Connect
  <2>2. \A i \in 1 .. Len(backlog) : backlog[i] # c
    BY <2>1 DEF RInv, Apart
  <2>3. \A d \in Descriptors : conn[d] # c
    BY <1>3, <2>1, Own DEF RInv, Apart
  <2>4. /\ Len(backlog') = Len(backlog) + 1 /\ backlog'[Len(backlog) + 1] = c
        /\ \A i \in 1 .. Len(backlog) : backlog'[i] = backlog[i]
        /\ Len(backlog) \in Nat
    BY <1>3, <2>1, AppendProperties
  <2>5. Apart'
    <3>1. \A i, j \in 1 .. Len(backlog') : i # j => backlog'[i] # backlog'[j]
      BY <2>2, <2>4 DEF RInv, Apart
    <3>2. \A i \in 1 .. Len(backlog') :
             /\ client'[backlog'[i]] # "out"
             /\ client'[backlog'[i]] = "left" => backlog'[i] \in Crashing
      BY <1>3, <2>1, <2>4 DEF RInv, Apart
    <3>3. \A i \in 1 .. Len(backlog') : \A d \in Descriptors : conn'[d] # backlog'[i]
      BY <1>1, <2>3, <2>4 DEF RInv, Apart
    <3>4. \A d \in Descriptors : conn[d] # NONE => client'[conn[d]] = client[conn[d]]
      BY <1>3, <2>1, <2>3
    <3>5. \A d, e \in Descriptors : conn'[d] # NONE /\ conn'[d] = conn'[e] => d = e
      BY <1>1 DEF RInv, Apart
    <3>6. \A d \in Descriptors : conn'[d] # NONE =>
             /\ client'[conn'[d]] # "out"
             /\ client'[conn'[d]] = "left" => conn'[d] \in Crashing
      BY <1>1, <3>4 DEF RInv, Apart
    <3> QED BY <3>1, <3>2, <3>3, <3>5, <3>6 DEF Apart
  <2>6. Keeps BY <1>1, <1>3, <2>1 DEF RInv, Requested, Keeps, Asking
  <2>7. \A d \in Watchable : HasInput(d) => HasInput(d)'
    BY <1>1, <1>3, <2>1 DEF HasInput
  <2> QED BY <2>5, <2>6, <2>7
<1>6. ASSUME NEW c \in Clients, NEW op \in Ops, Ask(c, op) PROVE Keeps /\ Apart'
        /\ \A d \in Watchable : HasInput(d) => HasInput(d)'
  <2>1. /\ client[c] = "idle" /\ client' = [client EXCEPT ![c] = "asked"]
        /\ sent' = [sent EXCEPT ![c] = op] /\ UNCHANGED backlog
        /\ op # NONE
    BY <1>6, ServerAssumption DEF Ask
  <2>2. Keeps BY <1>1, <1>3, <2>1 DEF RInv, Requested, Keeps, Asking
  <2>3. Apart' BY <1>1, <1>3, <2>1 DEF RInv, Apart
  <2>4. \A d \in Watchable : HasInput(d) => HasInput(d)'
    BY <1>1, <1>3, <2>1 DEF HasInput
  <2> QED BY <2>2, <2>3, <2>4
<1>7. ASSUME NEW c \in Crashing, Crash(c) PROVE Keeps /\ Apart'
        /\ \A d \in Watchable : HasInput(d) => HasInput(d)'
  <2>1. /\ client[c] \in {"idle", "asked"}
        /\ client' = [client EXCEPT ![c] = "left"] /\ UNCHANGED <<backlog, sent>>
    BY <1>7 DEF Crash
  <2>2. Keeps BY <1>1, <1>3, <2>1 DEF RInv, Requested, Keeps, Asking
  <2>3. Apart' BY <1>1, <1>3, <2>1 DEF RInv, Apart
  <2>4. \A d \in Watchable : HasInput(d) => HasInput(d)'
    BY <1>1, <1>3, <2>1 DEF HasInput
  <2> QED BY <2>2, <2>3, <2>4
<1> QED BY <1>5, <1>6, <1>7 DEF ClientStep

-----------------------------------------------------------------------------
(* The steps of the dispatcher *)

\* One request more in queueric: it is its client's only one.
LEMMA OneMore ==
    ASSUME WInv, Requested, OneEach, Closers, Keeps, ThreadsStay,
           NEW r \in Request, queueric' = Append(queueric, r),
           Mine(r)', r.op \in Ops \cup {NONE},
           r.from # NONE => \A i \in 1 .. Len(queueric) : queueric[i].from # r.from,
           r.from # NONE => \A w \in Workers :
              wk'[w].pc \in ServeLabels => wk[w].req.from # r.from
    PROVE  Requested' /\ OneEach' /\ Closers'
<1> DEFINE n == Len(queueric)
<1>1. /\ Len(queueric') = n + 1 /\ queueric'[n + 1] = r /\ n \in Nat
      /\ \A i \in 1 .. n : queueric'[i] = queueric[i]
  BY AppendProperties DEF WInv, TypeOK
<1> HIDE DEF n
<1>2. \A i \in 1 .. Len(queueric') : i \in 1 .. n \/ i = n + 1
  BY <1>1
<1>3. n = Len(queueric) BY DEF n
<1>4. \A w \in Serving' : /\ w \in Workers /\ wk'[w].pc \in ServeLabels
                          /\ w \in Serving /\ wk'[w].req = wk[w].req
  BY DEF ThreadsStay, Serving, ServeLabels
<1>5. Requested'
  <2>1. ASSUME NEW i \in 1 .. Len(queueric') PROVE (Mine(queueric[i]))'
    <3>1. CASE i = n + 1 BY <1>1, <3>1 DEF Mine, Asking
    <3>2. CASE i \in 1 .. n
      <4>1. PICK q : q = queueric[i] OBVIOUS
      <4>2. Mine(q) /\ q \in Request
        BY <1>3, <3>2, <4>1, RequestTypes DEF Requested
      <4>3. Mine(q)' BY <4>2, KeepsMine
      <4>4. queueric'[i] = q BY <1>1, <3>2, <4>1
      <4> QED BY <4>3, <4>4 DEF Mine, Asking
    <3> QED BY <1>2, <3>1, <3>2
  <2>2. ASSUME NEW w \in Serving' PROVE (Mine(wk[w].req))'
    <3>1. PICK q : q = wk[w].req OBVIOUS
    <3>2. Mine(q) /\ q \in Request
      BY <1>4, <3>1, RequestTypes DEF Requested
    <3>3. Mine(q)' BY <3>2, KeepsMine
    <3>4. wk'[w].req = q BY <1>4, <3>1
    <3> QED BY <3>3, <3>4 DEF Mine, Asking
  <2>3. \A c \in Clients : sent'[c] # NONE => Asking(c)'
    BY DEF Keeps, Asking
  <2> QED BY <2>1, <2>2, <2>3 DEF Requested
<1>6. OneEach'
  <2>1. ASSUME NEW i \in 1 .. Len(queueric'), NEW j \in 1 .. Len(queueric'),
               queueric'[i].from # NONE, i # j
        PROVE  queueric'[i].from # queueric'[j].from
    <3>1. CASE i \in 1 .. n /\ j \in 1 .. n BY <1>1, <1>3, <2>1, <3>1 DEF OneEach
    <3>2. CASE i = n + 1 /\ j \in 1 .. n BY <1>1, <1>3, <2>1, <3>2
    <3>3. CASE i \in 1 .. n /\ j = n + 1 BY <1>1, <1>3, <2>1, <3>3
    <3> QED BY <1>2, <2>1, <3>1, <3>2, <3>3
  <2>2. ASSUME NEW v \in Serving', NEW w \in Serving',
               wk'[v].req.from # NONE, v # w
        PROVE  wk'[v].req.from # wk'[w].req.from
    BY <1>4, <2>2 DEF OneEach
  <2>3. ASSUME NEW w \in Serving', NEW i \in 1 .. Len(queueric'),
               wk'[w].req.from # NONE
        PROVE  queueric'[i].from # wk'[w].req.from
    <3>1. CASE i = n + 1 BY <1>1, <1>4, <2>3, <3>1
    <3>2. CASE i \in 1 .. n BY <1>1, <1>3, <1>4, <2>3, <3>2 DEF OneEach
    <3> QED BY <1>2, <3>1, <3>2
  <2> QED BY <2>1, <2>2, <2>3 DEF OneEach
<1>7. Closers'
  <2>1. \A i \in 1 .. Len(queueric') : queueric'[i].op \in Ops \cup {NONE}
    BY <1>1, <1>2, <1>3 DEF Closers
  <2>2. \A w \in Serving' : wk'[w].req.op \in Ops \cup {NONE}
    BY <1>4 DEF Closers
  <2>3. \A w \in Workers : wk'[w].pc \in {"clear", "closing"} => wk'[w].req.op = "close"
    BY DEF ThreadsStay, ServeLabels
  <2> QED BY <2>1, <2>2, <2>3 DEF Closers
<1> QED BY <1>5, <1>6, <1>7

\* SIGNAL wakes a thread that serves nothing.
LEMMA SignalStays ==
    ASSUME WInv, RInv, wk' \in Signalled(wk) PROVE ThreadsStay
<1>1. wk \in Threads BY DEF WInv, TypeOK, Threads
<1>2. \A w \in Workers : /\ wk'[w].req = wk[w].req
                         /\ \/ wk'[w] = wk[w]
                            \/ wk[w].pc = "waiting" /\ wk'[w].pc = "idle"
  BY <1>1, SignalledIs
<1> QED BY <1>2 DEF RInv, Closers, ThreadsStay, ServeLabels, Serving

LEMMA ReadOwned == ASSUME WInv, RInv, ReadMessage PROVE RInv'
<1>0. PICK d : d = disp.fd OBVIOUS
<1>1. /\ d \in Given /\ HasInput(d) /\ (d \notin Descriptors => d = fd_skt)
  BY <1>0 DEF RInv, ReadsInput, ReadMessage, DispAt, WInv, TypeOK, Dispatcher, Given
<1>2. /\ client \in [Clients -> {"out", "idle", "asked", "left"}]
      /\ sent \in [Clients -> Ops \cup {NONE}]
      /\ \A e \in Descriptors : conn[e] \in Clients \cup {NONE}
  BY DEF WInv, TypeOK
<1>3. UNCHANGED <<client, backlog>> /\ disp' = Selecting
  BY DEF ReadMessage
<1>4. ReadsInput' BY <1>3 DEF ReadsInput, Selecting
<1>5. CASE d \in Descriptors /\ sent[conn[d]] # NONE
  <2>1. PICK c \in Clients : c = conn[d] /\ sent[c] \in Ops
    BY <1>1, <1>2, <1>5 DEF HasInput
  <2>2. PICK r : r = [fd |-> d, op |-> sent[c], from |-> c] OBVIOUS
  <2>3. /\ queueric' = Append(queueric, r) /\ wk' \in Signalled(wk)
        /\ sent' = [sent EXCEPT ![c] = NONE] /\ UNCHANGED conn
    BY <1>0, <1>1, <1>5, <2>1, <2>2 DEF ReadMessage, Enqueue, HasInput
  <2>4. r \in Request /\ r.fd = d /\ r.from = c /\ r.op \in Ops
    BY <1>1, <2>1, <2>2, ServerAssumption DEF Request
  <2>5. sent'[c] = NONE /\ client'[c] \in {"asked", "left"} /\ c # NONE
    BY <1>2, <1>3, <1>5, <2>1, <2>3, Own DEF RInv, Requested, Asking
  <2>6. Mine(r)' BY <1>5, <2>1, <2>3, <2>4, <2>5, Own DEF Mine, Asking
  <2>7. \A q : Mine(q) => q.from # c BY <1>5, <2>1, Own DEF Mine
  <2>8. \A i \in 1 .. Len(queueric) : queueric[i].from # c
    BY <2>7 DEF RInv, Requested
  <2>9. ThreadsStay BY <2>3, SignalStays
  <2>10. \A w \in Workers : wk'[w].pc \in ServeLabels => wk[w].req.from # c
    BY <2>7, <2>9 DEF RInv, Requested, ThreadsStay
  <2>11. Keeps BY <1>2, <1>3, <2>1, <2>3 DEF RInv, Requested, Keeps, Asking
  <2>12. Apart' BY <1>3, <2>3 DEF RInv, Apart
  <2>13. Requested' /\ OneEach' /\ Closers'
    BY <2>3, <2>4, <2>6, <2>8, <2>9, <2>10, <2>11, OneMore DEF RInv
  <2> QED BY <1>4, <2>12, <2>13 DEF RInv
<1>6. CASE d \in Descriptors /\ sent[conn[d]] = NONE
  <2>1. wk' \in Signalled(wk) /\ UNCHANGED <<sent, queueric, conn>>
    BY <1>0, <1>1, <1>6 DEF ReadMessage, EndOfFile, HasInput
  <2>2. Keeps /\ Apart' BY <1>3, <2>1, SameSockets
  <2>3. ThreadsStay BY <2>1, SignalStays
  <2>4. Requested' /\ OneEach' /\ Closers'
    BY <2>1, <2>2, <2>3, KeptRequests DEF RInv
  <2> QED BY <1>4, <2>2, <2>4 DEF RInv
<1>7. CASE d = fd_skt
  <2>1. PICK op \in Ops \cup {NONE} :
           Enqueue([fd |-> d, op |-> op, from |-> NONE])
    BY <1>0, <1>7, Own DEF ReadMessage
  <2>2. PICK r : r = [fd |-> d, op |-> op, from |-> NONE] OBVIOUS
  <2>3. UNCHANGED <<sent, conn>> BY <1>0, <1>7, Own DEF ReadMessage
  <2>4. queueric' = Append(queueric, r) /\ wk' \in Signalled(wk)
    BY <2>1, <2>2 DEF Enqueue
  <2>5. r \in Request /\ r.fd = fd_skt /\ r.from = NONE /\ r.op = op
    BY <1>7, <2>2, ServerAssumption DEF Request, Given
  <2>6. Mine(r)' BY <2>5 DEF Mine
  <2>7. Keeps /\ Apart' BY <1>3, <2>3, SameSockets
  <2>8. ThreadsStay BY <2>4, SignalStays
  <2>9. Requested' /\ OneEach' /\ Closers'
    BY <2>4, <2>5, <2>6, <2>7, <2>8, OneMore DEF RInv
  <2> QED BY <1>4, <2>7, <2>9 DEF RInv
<1> QED BY <1>1, <1>5, <1>6, <1>7

LEMMA AcceptOwned == ASSUME WInv, RInv, ScanAccept PROVE RInv'
<1>1. PICK d \in Descriptors :
         /\ conn[d] = NONE /\ backlog # <<>>
         /\ conn' = [conn EXCEPT ![d] = Head(backlog)]
         /\ backlog' = Tail(backlog) /\ disp'.pc = "count"
         /\ UNCHANGED <<client, sent, queueric, wk>>
  BY DEF ScanAccept, Lowest, WInv, TypeOK, Dispatcher
<1>2. /\ backlog \in Seq(Clients)
      /\ \A e \in Descriptors : conn[e] \in Clients \cup {NONE}
      /\ conn \in [Descriptors -> Clients \cup {NONE}]
  BY DEF WInv, TypeOK
<1>3. PICK c \in Clients : c = Head(backlog) /\ c = backlog[1]
  BY <1>1, <1>2
<1>4. /\ Len(backlog) \in Nat \ {0} /\ Len(backlog') = Len(backlog) - 1
      /\ \A i \in 1 .. Len(backlog') : backlog'[i] = backlog[i + 1]
  BY <1>1, <1>2
<1>5. /\ conn'[d] = c /\ c # NONE
      /\ \A e \in Descriptors \ {d} : conn'[e] = conn[e]
  BY <1>1, <1>2, <1>3, Own
<1>6. /\ 1 \in 1 .. Len(backlog)
      /\ \A i \in 1 .. Len(backlog') : i + 1 \in 1 .. Len(backlog) /\ i + 1 # 1
  BY <1>4
<1>7. /\ client[c] # "out" /\ \A e \in Descriptors : conn[e] # c
  BY <1>3, <1>6 DEF RInv, Apart
<1>8. Apart'
  <2>1. \A i, j \in 1 .. Len(backlog') : i # j => backlog'[i] # backlog'[j]
    <3> TAKE i, j \in 1 .. Len(backlog')
    <3>1. i # j => i + 1 # j + 1 OBVIOUS
    <3> QED BY <1>4, <1>6, <3>1 DEF RInv, Apart
  <2>2. \A i \in 1 .. Len(backlog') :
          /\ client'[backlog'[i]] # "out"
          /\ client'[backlog'[i]] = "left" => backlog'[i] \in Crashing
          /\ backlog'[i] # c
          /\ \A e \in Descriptors : conn[e] # backlog'[i]
    BY <1>1, <1>3, <1>4, <1>6 DEF RInv, Apart
  <2>3. \A i \in 1 .. Len(backlog') : \A e \in Descriptors : conn'[e] # backlog'[i]
    BY <1>5, <2>2
  <2>4. \A e, g \in Descriptors : conn'[e] # NONE /\ conn'[e] = conn'[g] => e = g
    BY <1>5, <1>7 DEF RInv, Apart
  <2>5. \A e \in Descriptors : conn'[e] # NONE =>
          /\ client'[conn'[e]] # "out"
          /\ client'[conn'[e]] = "left" => conn'[e] \in Crashing
    <3> SUFFICES client[c] = "left" => c \in Crashing
      BY <1>1, <1>5, <1>7 DEF RInv, Apart
    <3> QED BY <1>3, <1>6 DEF RInv, Apart
  <2> QED BY <2>1, <2>2, <2>3, <2>4, <2>5 DEF Apart
<1>9. Keeps BY <1>1, <1>5 DEF RInv, Requested, Keeps, Asking
<1>10. ThreadsStay BY <1>1, SameThreads
<1>11. Requested' /\ OneEach' /\ Closers'
  BY <1>1, <1>9, <1>10, KeptRequests DEF RInv
<1>12. ReadsInput' BY <1>1 DEF ReadsInput
<1> QED BY <1>8, <1>11, <1>12 DEF RInv

LEMMA DispatcherOwned == ASSUME WInv, RInv, DispatcherStep PROVE RInv'
<1> USE DEF Sockets
<1>1. CASE ReadMessage BY <1>1, ReadOwned
<1>2. CASE ScanAccept BY <1>2, AcceptOwned
<1>3. CASE ~ReadMessage /\ ~ScanAccept
  <2>1. UNCHANGED <<client, sent, backlog, conn, queueric, wk>>
    BY <1>3 DEF DispatcherStep, Select, SelectReturns, ScanNothing, ScanSignal,
                ScanToken, Count, Watch, ScanRead
  <2>2. Keeps /\ Apart' /\ \A d \in Given : HasInput(d) => HasInput(d)'
    BY <2>1, SameSockets
  <2>3. Requested' /\ OneEach' /\ Closers'
    BY <2>1, <2>2, SameThreads, KeptRequests DEF RInv
  <2>4. disp \in Dispatcher /\ disp.fd \in Given
    BY DEF WInv, TypeOK, Dispatcher
  <2>5. ReadsInput'
    <3>1. CASE SelectReturns
      <4>1. disp'.pc = "scan" /\ rdset' = {d \in rdset : Readable(d)}
        BY <2>4, <3>1 DEF SelectReturns, Dispatcher
      <4>2. \A d \in Descriptors : Readable(d) => HasInput(d)
        BY Own DEF Readable, HasInput
      <4> QED BY <2>1, <4>1, <4>2 DEF ReadsInput, HasInput
    <3>2. CASE ScanSignal
      BY <2>1, <3>2 DEF ScanSignal, Scans, DispAt, RInv, ReadsInput, HasInput
    <3>3. CASE ScanRead
      BY <2>1, <3>3 DEF ScanRead, Scans, DispAt, Lowest, RInv, ReadsInput, HasInput
    <3>4. CASE Select \/ ScanNothing \/ ScanToken \/ Count \/ Watch
      <4>1. ScanToken => disp'.pc = "watch" BY DEF ScanToken
      <4>2. Watch => disp'.pc = "select" BY DEF Watch, Selecting
      <4>3. Count => disp'.pc = "watch" BY <2>4 DEF Count, Dispatcher
      <4>4. Select \/ ScanNothing => disp'.pc \in {"blocked", "ended", "select"}
        BY <2>4 DEF Select, ScanNothing, Dispatcher
      <4> QED BY <3>4, <4>1, <4>2, <4>3, <4>4 DEF ReadsInput
    <3> QED BY <1>3, <3>1, <3>2, <3>3, <3>4 DEF DispatcherStep
  <2> QED BY <2>2, <2>3, <2>5 DEF RInv
<1> QED BY <1>1, <1>2, <1>3

-----------------------------------------------------------------------------
(* The steps of signalHandler() *)

LEMMA HandlerOwned ==
    ASSUME WInv, RInv, HandlerStep \/ SignalStep PROVE RInv'
<1> USE DEF Sockets, Others, Counted, HandTo
<1>1. UNCHANGED <<client, sent, backlog, conn, queueric, disp, rdset>>
  BY DEF HandlerStep, SignalStep, InterruptStop, HangUpTest, HangUpStop,
         HangUpWake, Join, JoinWorkers, Free, Exit, Interrupt, HangUp, Terminate
<1>2. ThreadsStay
  <2>1. CASE Join
    <3>1. \A w \in Workers : \/ wk'[w] = wk[w]
                             \/ wk[w].pc = "waiting" /\ wk'[w].pc = "idle"
      BY <2>1 DEF Join, WInv, TypeOK, Worker
    <3> QED BY <3>1 DEF RInv, Closers, ThreadsStay, ServeLabels, Serving
  <2>2. CASE ~Join
    <3>1. UNCHANGED wk
      BY <2>2 DEF HandlerStep, SignalStep, InterruptStop, HangUpTest, HangUpStop,
                  HangUpWake, JoinWorkers, Free, Exit, Interrupt, HangUp, Terminate
    <3> QED BY <3>1, SameThreads
  <2> QED BY <2>1, <2>2
<1>3. Keeps /\ Apart' BY <1>1, SameSockets
<1>4. Requested' /\ OneEach' /\ Closers'
  BY <1>1, <1>2, <1>3, KeptRequests DEF RInv
<1>5. ReadsInput' BY <1>1 DEF RInv, ReadsInput, HasInput
<1> QED BY <1>3, <1>4, <1>5 DEF RInv

-----------------------------------------------------------------------------
(* The steps of the workers *)

LEMMA TakeOwned == ASSUME WInv, RInv, NEW w \in Workers, Take(w) PROVE RInv'
<1> USE DEF Queues, Sockets
<1>1. PICK r : r = Head(queueric) /\ r = queueric[1] OBVIOUS
<1>2. /\ queueric # <<>> /\ queueric' = Tail(queueric)
      /\ wk' = [wk EXCEPT ![w].pc = "serve", ![w].req = r]
      /\ wk[w].pc = "idle"
      /\ UNCHANGED <<client, sent, backlog, conn, disp, rdset>>
  BY <1>1 DEF Take, WorkerAt
<1>3. queueric \in Seq(Request) /\ wk \in [Workers -> Worker]
  BY DEF WInv, TypeOK
<1>4. /\ Len(queueric) \in Nat \ {0} /\ Len(queueric') = Len(queueric) - 1
      /\ \A i \in 1 .. Len(queueric') : queueric'[i] = queueric[i + 1]
  BY <1>2, <1>3
<1>5. /\ 1 \in 1 .. Len(queueric)
      /\ \A i \in 1 .. Len(queueric') : i + 1 \in 1 .. Len(queueric) /\ i + 1 # 1
  BY <1>4
<1>6. /\ wk'[w].pc = "serve" /\ wk'[w].req = r
      /\ \A v \in Workers \ {w} : wk'[v] = wk[v]
  BY <1>2, <1>3 DEF Worker
<1>7. \A v \in Serving' : v \in Workers /\ (v = w \/ (v \in Serving /\ wk'[v] = wk[v]))
  BY <1>6 DEF Serving
<1>8. Mine(r) /\ r.op \in Ops \cup {NONE}
  BY <1>1, <1>5 DEF RInv, Requested, Closers
<1>9. Requested'
  <2>1. ASSUME NEW i \in 1 .. Len(queueric') PROVE (Mine(queueric[i]))'
    BY <1>2, <1>4, <1>5 DEF RInv, Requested, Mine, Asking
  <2>2. ASSUME NEW v \in Serving' PROVE (Mine(wk[v].req))'
    <3>1. PICK q : q = wk'[v].req OBVIOUS
    <3>2. Mine(q) BY <1>6, <1>7, <1>8, <3>1 DEF RInv, Requested
    <3>3. Mine(q)' BY <1>2, <3>2 DEF Mine, Asking
    <3> QED BY <3>1, <3>3 DEF Mine, Asking
  <2>3. \A c \in Clients : sent'[c] # NONE => Asking(c)'
    BY <1>2 DEF RInv, Requested, Asking
  <2> QED BY <2>1, <2>2, <2>3 DEF Requested
<1>10. OneEach'
  <2>1. ASSUME NEW i \in 1 .. Len(queueric'), NEW j \in 1 .. Len(queueric'),
               queueric'[i].from # NONE, i # j
        PROVE  queueric'[i].from # queueric'[j].from
    <3>1. i + 1 # j + 1 BY <2>1
    <3> QED BY <1>4, <1>5, <2>1, <3>1 DEF RInv, OneEach
  <2>2. \A i \in 1 .. Len(queueric') : r.from # NONE => queueric'[i].from # r.from
    BY <1>1, <1>4, <1>5 DEF RInv, OneEach
  <2>3. ASSUME NEW v \in Serving', NEW i \in 1 .. Len(queueric'),
               wk'[v].req.from # NONE
        PROVE  queueric'[i].from # wk'[v].req.from
    BY <1>4, <1>5, <1>6, <1>7, <2>2, <2>3 DEF RInv, OneEach
  <2>4. \A v \in Serving : wk[v].req.from # NONE => r.from # wk[v].req.from
    BY <1>1, <1>5 DEF RInv, OneEach
  <2>5. ASSUME NEW u \in Serving', NEW v \in Serving',
               wk'[u].req.from # NONE, u # v
        PROVE  wk'[u].req.from # wk'[v].req.from
    <3>1. CASE u = w BY <1>6, <1>7, <2>4, <2>5, <3>1
    <3>2. CASE v = w BY <1>6, <1>7, <2>4, <2>5, <3>2
    <3>3. CASE u # w /\ v # w BY <1>7, <2>5, <3>3 DEF RInv, OneEach
    <3> QED BY <3>1, <3>2, <3>3
  <2> QED BY <2>1, <2>3, <2>5 DEF OneEach
<1>11. Closers' BY <1>4, <1>5, <1>6, <1>7, <1>8 DEF RInv, Closers
<1>12. Apart' BY <1>2, SameSockets
<1>13. ReadsInput' BY <1>2 DEF RInv, ReadsInput, HasInput
<1> QED BY <1>9, <1>10, <1>11, <1>12, <1>13 DEF RInv

\* The sockets stay, and w serves what it served or nothing.
LEMMA QuietOwned ==
    ASSUME WInv, RInv, NEW w \in Workers,
           UNCHANGED <<client, sent, backlog, conn, queueric, disp, rdset>>,
           \A v \in Workers \ {w} : wk'[v] = wk[v],
           wk'[w].pc \in ServeLabels =>
              /\ w \in Serving /\ wk'[w].req = wk[w].req
              /\ wk'[w].pc # "serve" => wk[w].req.op = "close"
    PROVE  RInv'
<1>1. Keeps /\ Apart' BY SameSockets
<1>2. ThreadsStay
  <2>1. \A v \in Workers \ {w} : wk[v].pc \in ServeLabels => v \in Serving
    BY DEF Serving, ServeLabels
  <2> QED BY <2>1 DEF ThreadsStay, RInv, Closers, ServeLabels
<1>3. Requested' /\ OneEach' /\ Closers' BY <1>1, <1>2, KeptRequests DEF RInv
<1>4. ReadsInput' BY DEF RInv, ReadsInput, HasInput
<1> QED BY <1>1, <1>3, <1>4 DEF RInv

LEMMA MovesOwned ==
    ASSUME WInv, RInv, NEW w \in Workers,
           \/ Wait(w) \/ Stop(w) \/ Token(w) \/ CloseBegin(w) \/ CloseClear(w)
    PROVE  RInv'
<1> USE DEF Queues, Sockets
<1>1. UNCHANGED <<client, sent, backlog, conn, queueric, disp, rdset>>
  BY DEF Wait, Stop, Token, CloseBegin, CloseClear
<1>2. wk \in [Workers -> Worker] /\ wk[w] \in Worker BY DEF WInv, TypeOK
<1>3. \A v \in Workers \ {w} : wk'[v] = wk[v]
  BY <1>2 DEF Wait, Stop, Goto, Token, CloseBegin, CloseClear
<1>4. wk'[w].pc \in ServeLabels =>
          /\ w \in Serving /\ wk'[w].req = wk[w].req
          /\ wk'[w].pc # "serve" => wk[w].req.op = "close"
  <2>1. Wait(w) \/ Stop(w) => wk'[w].pc \in {"waiting", "ended"}
    BY <1>2 DEF Wait, Stop, Goto, Worker
  <2>2. Token(w) => wk'[w].pc = "idle" BY <1>2 DEF Token, Idle
  <2>3. CASE CloseBegin(w)
    BY <1>2, <2>3 DEF CloseBegin, WorkerAt, Worker, Serving
  <2>4. CASE CloseClear(w)
    <3>1. /\ wk[w].pc = "clear" /\ wk'[w].req = wk[w].req
      BY <1>2, <2>4 DEF CloseClear, WorkerAt, Worker
    <3> QED BY <3>1 DEF RInv, Closers, Serving
  <2> QED BY <2>1, <2>2, <2>3, <2>4 DEF ServeLabels
<1> QED BY <1>1, <1>3, <1>4, QuietOwned

LEMMA PutBackOwned == ASSUME WInv, RInv, NEW w \in Workers, PutBack(w) PROVE RInv'
<1> USE DEF Queues, Sockets
<1>1. PICK r : r = wk[w].req OBVIOUS
<1>2. PICK ths : ths = [wk EXCEPT ![w].pc = "token"] OBVIOUS
<1>3. /\ w \in Serving /\ queueric' = Append(queueric, r)
      /\ wk' \in Signalled(ths)
      /\ UNCHANGED <<client, sent, backlog, conn, disp, rdset>>
  BY <1>1, <1>2 DEF PutBack, WorkerAt, Serving
<1>4. wk \in [Workers -> Worker] /\ wk[w] \in Worker BY DEF WInv, TypeOK
<1>5. /\ ths \in Threads /\ ths[w].pc = "token"
      /\ \A v \in Workers \ {w} : ths[v] = wk[v]
  <2>1. [wk[w] EXCEPT !.pc = "token"] \in Worker BY <1>4 DEF Worker
  <2>2. [wk[w] EXCEPT !.pc = "token"].pc = "token" BY <1>4 DEF Worker
  <2>3. ths = [wk EXCEPT ![w] = [wk[w] EXCEPT !.pc = "token"]] BY <1>2
  <2> QED BY <1>4, <2>1, <2>2, <2>3 DEF Threads
<1>6. \A v \in Workers : /\ wk'[v].req = ths[v].req
                         /\ \/ wk'[v] = ths[v]
                            \/ ths[v].pc = "waiting" /\ wk'[v].pc = "idle"
  BY <1>3, <1>5, SignalledIs
<1>7. \A v \in Workers : wk'[v].pc \in ServeLabels =>
         v # w /\ v \in Serving /\ wk'[v] = wk[v]
  BY <1>5, <1>6 DEF ServeLabels, Serving
<1>8. ThreadsStay
  BY <1>7 DEF ThreadsStay, RInv, Closers, ServeLabels
<1>9. r \in Request /\ Mine(r) /\ r.op \in Ops \cup {NONE}
  BY <1>1, <1>3, RequestTypes DEF RInv, Requested, Closers
<1>10. Mine(r)' BY <1>3, <1>9 DEF Mine, Asking
<1>11. r.from # NONE =>
          /\ \A i \in 1 .. Len(queueric) : queueric[i].from # r.from
          /\ \A v \in Serving \ {w} : wk[v].req.from # r.from
  BY <1>1, <1>3 DEF RInv, OneEach
<1>12. Keeps /\ Apart' BY <1>3, SameSockets
<1>13. Requested' /\ OneEach' /\ Closers'
  BY <1>3, <1>7, <1>8, <1>9, <1>10, <1>11, <1>12, OneMore DEF RInv
<1>14. ReadsInput' BY <1>3 DEF RInv, ReadsInput, HasInput
<1> QED BY <1>12, <1>13, <1>14 DEF RInv

\* A request that is answered is nobody's any more.
LEMMA AnsweredOwned ==
    ASSUME WInv, RInv, NEW w \in Workers, w \in Serving,
           wk'[w].pc \notin ServeLabels,
           \A v \in Workers \ {w} : wk'[v] = wk[v],
           UNCHANGED <<sent, queueric>>,
           \A c \in Clients : c # wk[w].req.from => client'[c] = client[c],
           \A d \in Descriptors : d # wk[w].req.fd => conn'[d] = conn[d],
           conn' = conn \/ wk[w].req.fd \in Descriptors
    PROVE  Requested' /\ OneEach' /\ Closers'
<1>1. PICK r : r = wk[w].req OBVIOUS
<1>2. r \in Request /\ Mine(r) BY <1>1, RequestTypes DEF RInv, Requested
<1>3. \A q \in Request : Mine(q) /\ (r.from # NONE => q.from # r.from) => Mine(q)'
  <2> SUFFICES ASSUME NEW q \in Request, Mine(q), r.from # NONE => q.from # r.from
               PROVE  Mine(q)'
    OBVIOUS
  <2>1. CASE q.fd = fd_skt BY <2>1 DEF Mine
  <2>2. CASE q.fd # fd_skt
    <3>1. q.fd \in Descriptors /\ q.from \in Clients /\ q.from # NONE
      BY <2>2, RequestTypes DEF Mine
    <3>2. q.from # r.from BY <3>1
    <3>3. q.fd # r.fd BY <1>2, <2>2, <3>2 DEF Mine
    <3>4. /\ client'[q.from] = client[q.from] /\ sent'[q.from] = sent[q.from]
          /\ conn'[q.fd] = conn[q.fd]
      BY <1>1, <3>1, <3>2, <3>3
    <3> QED BY <2>2, <3>4 DEF Mine, Asking
  <2> QED BY <2>1, <2>2
<1>4. \A i \in 1 .. Len(queueric) : Mine(queueric[i])'
  <2> TAKE i \in 1 .. Len(queueric)
  <2>1. PICK q : q = queueric[i] OBVIOUS
  <2>2. Mine(q) /\ q \in Request /\ (r.from # NONE => q.from # r.from)
    BY <1>1, <2>1, RequestTypes DEF RInv, Requested, OneEach
  <2>3. Mine(q)' BY <1>3, <2>2
  <2>4. queueric'[i] = q BY <2>1
  <2> QED BY <2>3, <2>4 DEF Mine, Asking
<1>5. \A v \in Serving : wk'[v].pc \in ServeLabels => Mine(wk[v].req)'
  <2> TAKE v \in Serving
  <2> HAVE wk'[v].pc \in ServeLabels
  <2>1. PICK q : q = wk[v].req OBVIOUS
  <2>2. v # w /\ v \in Workers BY DEF Serving
  <2>3. Mine(q) /\ q \in Request /\ (r.from # NONE => q.from # r.from)
    BY <1>1, <2>1, <2>2, RequestTypes DEF RInv, Requested, OneEach
  <2>4. Mine(q)' BY <1>3, <2>3
  <2>5. wk'[v].req = q BY <2>1, <2>2
  <2> QED BY <2>4, <2>5 DEF Mine, Asking
<1>6. \A c \in Clients : sent'[c] # NONE => Asking(c)'
  <2> TAKE c \in Clients
  <2>1. r.from = c => sent[c] = NONE BY <1>2, Own DEF Mine
  <2> QED BY <1>1, <2>1 DEF RInv, Requested, Asking
<1>7. \A v \in Workers : wk'[v].pc \in ServeLabels =>
              /\ v \in Serving /\ wk'[v].req = wk[v].req
              /\ wk'[v].pc # "serve" => wk[v].req.op = "close"
  BY DEF RInv, Closers, ServeLabels, Serving
<1> QED BY <1>4, <1>5, <1>6, <1>7, StayPut DEF RInv

LEMMA ServeOwned == ASSUME WInv, RInv, NEW w \in Workers, Serve(w) PROVE RInv'
<1>1. /\ wk[w].pc = "serve" /\ Answer(wk[w].req, "idle") /\ Goto(w, "token")
      /\ UNCHANGED <<sent, backlog, conn, rdset, disp, queueric>>
  BY DEF Serve, WorkerAt
<1>2. /\ wk \in [Workers -> Worker] /\ wk[w] \in Worker
      /\ client \in [Clients -> {"out", "idle", "asked", "left"}]
      /\ \A d \in Descriptors : conn[d] \in Clients \cup {NONE}
      /\ \A i \in 1 .. Len(backlog) : backlog[i] \in Clients
  BY DEF WInv, TypeOK
<1>3. /\ w \in Serving /\ wk'[w].pc = "token"
      /\ \A v \in Workers \ {w} : wk'[v] = wk[v]
  BY <1>1, <1>2 DEF Goto, Worker, Serving
<1>4. \A c \in Clients : \/ client'[c] = client[c]
                         \/ /\ c = wk[w].req.from
                            /\ client[c] = "asked" /\ client'[c] = "idle"
  BY <1>1 DEF Answer
<1>5. Requested' /\ OneEach' /\ Closers'
  BY <1>1, <1>3, <1>4, AnsweredOwned DEF ServeLabels
<1>6. Apart'
  BY <1>1, <1>2, <1>4 DEF RInv, Apart
<1>7. \A d \in Watchable : HasInput(d) => HasInput(d)'
  BY <1>1, <1>2, <1>4 DEF HasInput
<1>8. disp.fd \in Watchable /\ rdset \subseteq Watchable
  BY DEF WInv, TypeOK, Dispatcher, Given, Watchable
<1>9. ReadsInput' BY <1>1, <1>7, <1>8 DEF RInv, ReadsInput
<1> QED BY <1>5, <1>6, <1>9 DEF RInv

LEMMA CloseOwned ==
    ASSUME Orderly, WInv, RInv, NEW w \in Workers, CloseEnd(w) PROVE RInv'
<1>1. PICK r : r = wk[w].req OBVIOUS
<1>2. /\ wk[w].pc = "closing" /\ Answer(r, "left")
      /\ conn' = [d \in Descriptors |-> IF d = r.fd THEN NONE ELSE conn[d]]
      /\ wk' = [wk EXCEPT ![w] = Idle]
      /\ UNCHANGED <<sent, backlog, rdset, disp, queueric>>
  BY <1>1 DEF CloseEnd, WorkerAt
<1>3. /\ wk \in [Workers -> Worker]
      /\ conn \in [Descriptors -> Clients \cup {NONE}]
      /\ \A i \in 1 .. Len(backlog) : backlog[i] \in Clients
  BY DEF WInv, TypeOK
<1>4. /\ w \in Serving /\ wk'[w].pc = "idle"
      /\ \A v \in Workers \ {w} : wk'[v] = wk[v]
  BY <1>2, <1>3 DEF Idle, Serving
<1>5. r \in Request /\ Mine(r) /\ r.op = "close" /\ r.op \in Ops
  BY <1>1, <1>2, <1>4, RequestTypes, Own DEF RInv, Requested, Closers
<1>6. Crashing = {} BY <1>5 DEF Orderly
<1>7. /\ \A c \in Clients : c # r.from => client'[c] = client[c]
      /\ \A c \in Clients : client[c] # "out" => client'[c] # "out"
  BY <1>2 DEF Answer
<1>8. \A d \in Descriptors : d # r.fd => conn'[d] = conn[d]
  BY <1>2
<1>9. conn' = conn \/ r.fd \in Descriptors
  <2>1. r.fd \notin Descriptors => \A d \in Descriptors : conn'[d] = conn[d]
    BY <1>2
  <2> QED BY <1>2, <1>3, <2>1
<1>10. Requested' /\ OneEach' /\ Closers'
  BY <1>1, <1>2, <1>4, <1>7, <1>8, <1>9, AnsweredOwned DEF ServeLabels
\* The client whose connection ends is behind no other descriptor.
<1>11. \A d \in Descriptors : conn'[d] # NONE =>
          /\ conn'[d] = conn[d] /\ d # r.fd
          /\ conn[d] # r.from /\ conn[d] \in Clients
          /\ client'[conn[d]] = client[conn[d]]
  <2> SUFFICES ASSUME NEW d \in Descriptors, conn'[d] # NONE
               PROVE  /\ conn'[d] = conn[d] /\ d # r.fd
                      /\ conn[d] # r.from /\ conn[d] \in Clients
                      /\ client'[conn[d]] = client[conn[d]]
    OBVIOUS
  <2>1. conn'[d] = conn[d] /\ d # r.fd /\ conn[d] \in Clients /\ conn[d] # NONE
    BY <1>2, <1>3
  <2>2. conn[d] # r.from
    <3>1. CASE r.fd = fd_skt BY <1>5, <2>1, <3>1 DEF Mine
    <3>2. CASE r.fd # fd_skt
      <4>1. r.fd \in Descriptors /\ conn[r.fd] = r.from
        BY <1>5, <3>2, RequestTypes DEF Mine
      <4> QED BY <2>1, <4>1 DEF RInv, Apart
    <3> QED BY <3>1, <3>2
  <2> QED BY <1>7, <2>1, <2>2
<1>12. Apart'
  <2>1. \A i \in 1 .. Len(backlog) :
          /\ backlog[i] # r.from
          /\ \A d \in Descriptors : conn'[d] # backlog[i]
    <3> TAKE i \in 1 .. Len(backlog)
    <3>1. backlog[i] \in Clients /\ backlog[i] # NONE BY <1>3, Own
    <3>2. r.from # NONE => r.fd \in Descriptors /\ conn[r.fd] = r.from
      BY <1>5, RequestTypes DEF Mine
    <3>3. backlog[i] # r.from BY <3>1, <3>2 DEF RInv, Apart
    <3>4. \A d \in Descriptors : conn'[d] # backlog[i]
      BY <1>11, <3>1 DEF RInv, Apart
    <3> QED BY <3>3, <3>4
  <2>2. \A i \in 1 .. Len(backlog') :
          /\ client'[backlog'[i]] # "out"
          /\ client'[backlog'[i]] = "left" => backlog'[i] \in Crashing
          /\ \A d \in Descriptors : conn'[d] # backlog'[i]
    BY <1>2, <1>3, <1>7, <2>1 DEF RInv, Apart
  <2>3. \A d, e \in Descriptors : conn'[d] # NONE /\ conn'[d] = conn'[e] => d = e
    BY <1>11 DEF RInv, Apart
  <2>4. \A d \in Descriptors : conn'[d] # NONE =>
          /\ client'[conn'[d]] # "out"
          /\ client'[conn'[d]] = "left" => conn'[d] \in Crashing
    BY <1>11 DEF RInv, Apart
  <2>5. \A i, j \in 1 .. Len(backlog') : i # j => backlog'[i] # backlog'[j]
    BY <1>2 DEF RInv, Apart
  <2> QED BY <2>2, <2>3, <2>4, <2>5 DEF Apart
<1>13. \A d \in Watchable : HasInput(d) => HasInput(d)'
  <2> SUFFICES ASSUME NEW d \in Descriptors, HasInput(d) PROVE HasInput(d)'
    BY DEF HasInput
  <2>1. conn[d] \in Clients /\ sent[conn[d]] # NONE
    BY <1>3, <1>6 DEF HasInput, RInv, Apart
  <2>2. d # r.fd
    <3>1. d # fd_skt BY Own
    <3> QED BY <1>5, <2>1, <3>1 DEF Mine
  <2>3. conn'[d] = conn[d] BY <1>2, <2>2
  <2> QED BY <1>2, <2>1, <2>3, Own DEF HasInput
<1>14. disp.fd \in Watchable /\ rdset \subseteq Watchable
  BY DEF WInv, TypeOK, Dispatcher, Given, Watchable
<1>15. ReadsInput' BY <1>2, <1>13, <1>14 DEF RInv, ReadsInput
<1> QED BY <1>10, <1>12, <1>15 DEF RInv

-----------------------------------------------------------------------------

LEMMA RInvStep == ASSUME Orderly, WInv, RInv, [Next]_vars PROVE RInv'
<1>1. CASE UNCHANGED vars
  <2>1. UNCHANGED <<client, sent, backlog, conn, queueric, disp, rdset, wk>>
    BY <1>1 DEF vars
  <2>2. Keeps /\ Apart' BY <2>1, SameSockets
  <2>3. Requested' /\ OneEach' /\ Closers'
    BY <2>1, <2>2, SameThreads, KeptRequests DEF RInv
  <2>4. ReadsInput' BY <2>1 DEF RInv, ReadsInput, HasInput
  <2> QED BY <2>2, <2>3, <2>4 DEF RInv
<1>2. ASSUME NEW w \in Workers, WorkerStep(w) PROVE RInv'
  BY <1>2, TakeOwned, MovesOwned, ServeOwned, PutBackOwned, CloseOwned
     DEF WorkerStep
<1> QED BY <1>1, <1>2, ClientOwned, DispatcherOwned, HandlerOwned DEF Next

LEMMA RInvInit == Init => RInv
<1> SUFFICES ASSUME Init PROVE RInv OBVIOUS
<1>1. Serving = {} BY DEF Init, Serving, Idle
<1>2. Apart /\ Requested /\ OneEach
  BY <1>1 DEF Init, Apart, Requested, OneEach
<1>3. Closers BY <1>1 DEF Init, Closers, Idle
<1>4. ReadsInput BY DEF Init, Selecting, ReadsInput
<1> QED BY <1>2, <1>3, <1>4 DEF RInv

LEMMA RInvOwned == WInv /\ RInv => RequestsOwned
<1> SUFFICES ASSUME WInv, RInv PROVE RequestsOwned OBVIOUS
<1>1. \A q \in Request : Mine(q) /\ q.from # NONE => conn[q.fd] = q.from
  BY DEF Mine
<1>2. \A w \in Serving : wk[w].req.from # NONE => conn[wk[w].req.fd] = wk[w].req.from
  BY <1>1, RequestTypes DEF RInv, Requested
<1>3. \A i \in Queued : /\ i \in 1 .. Len(queueric)
                        /\ conn[queueric[i].fd] = queueric[i].from
                        /\ queueric[i].from # NONE
  BY <1>1, RequestTypes DEF Queued, RInv, Requested
<1> QED BY <1>2, <1>3 DEF RInv, OneEach, RequestsOwned

\* A request is answered to the client that sent it, and no client has two
\* requests under way, however they are queued, put back and served
\* (server.c:197-206, 437-448), if either no client closes its connection or
\* none goes away without closing it.
THEOREM AnswersTheAsker == ASSUME Orderly PROVE Spec => []RequestsOwned
<1>1. WInv /\ RInv /\ [Next]_vars => RInv' BY RInvStep
<1> QED BY RInvInit, RInvOwned, <1>1, WInvariance, PTL DEF Spec

-----------------------------------------------------------------------------
(* Where a connected client is, if none asks for CLOSECONNECTION *)

\* What the dispatcher watches, or has been given back, is open; between the
\* load and the store of FD_SET or FD_CLR no worker has written set.
Open(d) == d \in Descriptors => conn[d] # NONE
AllOpen ==
    /\ listening
    /\ \A d \in set : Open(d)
    /\ disp.pc \in {"count", "watch"} => Open(disp.fd)
    /\ disp.pc \in {"watch", "read"} => disp.tmp = set
    /\ \A i \in 1 .. Len(pipe) : Open(pipe[i])
    /\ \A w \in Workers : wk[w].pc = "token" => Open(wk[w].req.fd)

AInv == AllOpen /\ DispatcherLives /\ Attended

\* The places where Attended looks for a descriptor.
GivenBack(d) == \E i \in 1 .. Len(pipe) : pipe[i] = d
Read(d) == \E i \in 1 .. Len(queueric) : queueric[i].fd = d
Served(d) == \E w \in Workers : /\ wk[w].pc \in {"serve", "token", "clear", "closing"}
                                /\ wk[w].req.fd = d
Found(d) == \/ d \in set
            \/ disp.pc \in {"count", "watch", "read"} /\ disp.fd = d
            \/ GivenBack(d) \/ Read(d) \/ Served(d)
Present(d) == conn[d] # NONE /\ client[conn[d]] # "left"

LEMMA AttendedIs ==
    Attended <=> (gestore /\ disp.pc # "ended" =>
                    \A d \in Descriptors : Present(d) => Found(d))
BY DEF Attended, Found, Present, GivenBack, Read, Served

\* No thread executes CLOSECONNECTION.
LEMMA NoneCloses ==
    ASSUME "close" \notin Ops, RInv, NEW w \in Workers
    PROVE  wk[w].pc \notin {"clear", "closing"} /\ ~CloseBegin(w)
<1>1. w \in Serving => wk[w].req.op # "close"
  BY Own DEF RInv, Closers
<1> QED BY <1>1 DEF RInv, Closers, Serving, CloseBegin, WorkerAt

\* A step that is not accept() brings nobody in.
LEMMA PresentBefore ==
    ASSUME WInv, UNCHANGED conn,
           \A c \in Clients : client[c] = "left" => client'[c] = "left",
           NEW d \in Descriptors, Present(d)'
    PROVE  Present(d)
<1>1. conn[d] \in Clients \cup {NONE} BY DEF WInv, TypeOK
<1> QED BY <1>1 DEF Present

LEMMA LeftForGood ==
    ASSUME WInv, [Next]_vars
    PROVE  \A c \in Clients : client[c] = "left" => client'[c] = "left"
<1> USE DEF Sockets, Queues, Others, HandTo
<1>1. client \in [Clients -> {"out", "idle", "asked", "left"}]
  BY DEF WInv, TypeOK
<1>2. CASE UNCHANGED vars BY <1>2 DEF vars
<1>3. CASE ClientStep BY <1>1, <1>3 DEF ClientStep, Connect, Ask, Crash
<1>4. CASE DispatcherStep
  BY <1>4 DEF DispatcherStep, Select, SelectReturns, ScanNothing, ScanSignal,
     ScanToken, ScanAccept, Count, Watch, ScanRead, ReadMessage
<1>5. CASE HandlerStep \/ SignalStep
  BY <1>5 DEF HandlerStep, SignalStep, InterruptStop, HangUpTest, HangUpStop,
     HangUpWake, Join, JoinWorkers, Free, Exit, Interrupt, HangUp, Terminate
<1>6. ASSUME NEW w \in Workers, WorkerStep(w)
      PROVE  \A c \in Clients : client[c] = "left" => client'[c] = "left"
  BY <1>6 DEF WorkerStep, Take, Wait, Stop, Serve, Answer, PutBack, Token,
     CloseBegin, CloseClear, CloseEnd
<1> QED BY <1>2, <1>3, <1>4, <1>5, <1>6 DEF Next

\* A step that changes none of the places.
LEMMA SamePlaces ==
    ASSUME AInv, WInv,
           \A c \in Clients : client[c] = "left" => client'[c] = "left",
           UNCHANGED <<conn, listening, set, disp, pipe, queueric>>,
           gestore' => gestore,
           \A w \in Workers :
              /\ wk'[w].pc = "token" => Open(wk'[w].req.fd)
              /\ wk[w].pc \in {"serve", "token", "clear", "closing"} =>
                   /\ wk'[w].pc \in {"serve", "token", "clear", "closing"}
                   /\ wk'[w].req = wk[w].req
    PROVE  AInv'
<1>1. AllOpen' BY DEF AInv, AllOpen, Open
<1>2. DispatcherLives' BY DEF AInv, DispatcherLives
<1>3. ASSUME gestore', disp'.pc # "ended", NEW d \in Descriptors, Present(d)'
      PROVE  Found(d)'
  <2>1. Present(d) BY <1>3, PresentBefore
  <2>2. Found(d) BY <1>3, <2>1, AttendedIs DEF AInv
  <2>3. Served(d) => Served(d)' BY DEF Served
  <2> QED BY <2>2, <2>3 DEF Found, GivenBack, Read
<1>4. Attended' BY <1>3, AttendedIs DEF Attended, Found, Present, GivenBack, Read, Served
<1> QED BY <1>1, <1>2, <1>4 DEF AInv

\* What is left to show of a step of the dispatcher.
LEMMA StillAttended ==
    ASSUME WInv, AInv, gestore' => gestore, disp.pc # "ended",
           \A d \in Descriptors : gestore /\ Present(d)' =>
              Found(d)' \/ (Present(d) /\ (Found(d) => Found(d)'))
    PROVE  Attended'
<1>1. ASSUME gestore', NEW d \in Descriptors, Present(d)' PROVE Found(d)'
  <2>1. CASE Present(d) /\ (Found(d) => Found(d)')
    BY <1>1, <2>1, AttendedIs DEF AInv
  <2> QED BY <1>1, <2>1
<1> QED BY <1>1 DEF Attended, Found, Present, GivenBack, Read, Served

LEMMA SelectAttended ==
    ASSUME WInv, RInv, AInv,
           Select \/ SelectReturns \/ ScanNothing \/ ScanSignal
    PROVE  AInv'
<1> USE DEF Sockets, Flags
<1>1. disp \in Dispatcher BY DEF WInv, TypeOK
<1>2. /\ disp.pc \in {"select", "blocked", "scan"}
      /\ disp'.pc \in {"select", "blocked", "scan", "ended"}
      /\ gestore' \in {gestore, FALSE}
      /\ UNCHANGED <<client, conn, listening, set, queueric, pipe, wk>>
  BY <1>1 DEF Select, SelectReturns, ScanNothing, ScanSignal, Scans, DispAt,
              Dispatcher
<1>3. AllOpen' BY <1>2 DEF AInv, AllOpen, Open
<1>4. DispatcherLives'
  <2>1. \A d \in set : IsOpen(d)
    BY Own DEF AInv, AllOpen, Open, IsOpen
  <2>2. Select => disp'.pc = "blocked" \/ (~gestore /\ gestore' = gestore)
    BY <1>1, <2>1 DEF Select, Dispatcher
  <2>3. ~Select => disp'.pc # "ended"
    BY <1>1 DEF SelectReturns, ScanNothing, ScanSignal, Scans, DispAt, Dispatcher
  <2> QED BY <2>2, <2>3 DEF DispatcherLives
<1>5. \A d \in Descriptors : Present(d)' => Present(d) /\ (Found(d) => Found(d)')
  BY <1>2 DEF Present, Found, GivenBack, Read, Served
<1>6. Attended'
  <2>1. disp.pc # "ended" BY <1>2
  <2>2. gestore' => gestore
    BY Zenon DEF Select, SelectReturns, ScanNothing, ScanSignal
  <2> QED BY <1>5, <2>1, <2>2, StillAttended
<1> QED BY <1>3, <1>4, <1>6 DEF AInv

LEMMA TokenAttended == ASSUME WInv, RInv, AInv, ScanToken PROVE AInv'
<1> USE DEF Sockets, Flags
<1>1. /\ disp.pc = "scan" /\ pipe # <<>> /\ pipe' = Tail(pipe)
      /\ disp' = [pc |-> "watch", fd |-> Head(pipe), tmp |-> set]
      /\ UNCHANGED <<client, conn, listening, set, queueric, wk, gestore>>
  BY DEF ScanToken, Scans, DispAt
<1>2. pipe \in Seq(Given) BY DEF WInv, TypeOK
<1>3. /\ Len(pipe) \in Nat \ {0} /\ Len(pipe') = Len(pipe) - 1
      /\ \A i \in 1 .. Len(pipe') : pipe'[i] = pipe[i + 1]
      /\ Head(pipe) = pipe[1]
  BY <1>1, <1>2
<1>4. /\ 1 \in 1 .. Len(pipe)
      /\ \A i \in 1 .. Len(pipe') : i + 1 \in 1 .. Len(pipe)
      /\ \A i \in 1 .. Len(pipe) : i = 1 \/ i - 1 \in 1 .. Len(pipe')
      /\ \A i \in 1 .. Len(pipe) : i # 1 => pipe[i] = pipe'[i - 1]
  <2>1. \A i \in 1 .. Len(pipe) : i # 1 => i - 1 \in 1 .. Len(pipe') /\ (i - 1) + 1 = i
    BY <1>3
  <2> QED BY <1>3, <2>1
<1>5. disp'.pc = "watch" /\ disp'.fd = pipe[1] /\ disp'.tmp = set
  BY <1>1, <1>3
<1>6. AllOpen'
  BY <1>1, <1>3, <1>4, <1>5 DEF AInv, AllOpen, Open
<1>7. DispatcherLives' BY <1>5 DEF DispatcherLives
<1>8. ASSUME NEW d \in Descriptors, Found(d) PROVE Found(d)'
  <2>1. GivenBack(d) => pipe[1] = d \/ GivenBack(d)'
    BY <1>4 DEF GivenBack
  <2> QED BY <1>1, <1>5, <1>8, <2>1 DEF Found, Read, Served
<1>9. \A d \in Descriptors : Present(d)' => Present(d)
  BY <1>1 DEF Present
<1>10. disp.pc # "ended" BY <1>1
<1>11. Attended' BY <1>1, <1>8, <1>9, <1>10, StillAttended
<1> QED BY <1>6, <1>7, <1>11 DEF AInv

LEMMA AcceptAttended == ASSUME WInv, RInv, AInv, ScanAccept PROVE AInv'
<1> USE DEF Sockets, Flags
<1>1. PICK d \in Descriptors :
         /\ conn[d] = NONE /\ disp.pc = "scan" /\ backlog # <<>>
         /\ conn' = [conn EXCEPT ![d] = Head(backlog)]
         /\ disp'.pc = "count" /\ disp'.fd = d
         /\ UNCHANGED <<client, listening, set, queueric, pipe, wk, gestore>>
  BY DEF ScanAccept, Scans, DispAt, Lowest, WInv, TypeOK, Dispatcher
<1>2. Head(backlog) \in Clients /\ conn \in [Descriptors -> Clients \cup {NONE}]
  BY <1>1 DEF WInv, TypeOK
<1>3. /\ conn'[d] # NONE /\ \A e \in Descriptors \ {d} : conn'[e] = conn[e]
  BY <1>1, <1>2, Own
<1>4. AllOpen' BY <1>1, <1>3 DEF AInv, AllOpen, Open
<1>5. DispatcherLives' BY <1>1 DEF DispatcherLives
<1>6. \A e \in Descriptors : Present(e)' =>
         Found(e)' \/ (Present(e) /\ (Found(e) => Found(e)'))
  <2> TAKE e \in Descriptors
  <2>1. CASE e = d BY <1>1, <2>1 DEF Found
  <2>2. CASE e # d
    BY <1>1, <1>3, <2>2 DEF Present, Found, GivenBack, Read, Served
  <2> QED BY <2>1, <2>2
<1>7. disp.pc # "ended" BY <1>1
<1>8. Attended' BY <1>1, <1>6, <1>7, StillAttended
<1> QED BY <1>4, <1>5, <1>8 DEF AInv

LEMMA WatchAttended ==
    ASSUME WInv, RInv, AInv, Count \/ Watch \/ ScanRead PROVE AInv'
<1> USE DEF Sockets, Flags
<1>1. disp \in Dispatcher BY DEF WInv, TypeOK
<1>2. UNCHANGED <<client, conn, listening, queueric, pipe, wk, gestore>>
  BY DEF Count, Watch, ScanRead
<1>3. /\ Count => /\ disp.pc = "count" /\ disp'.pc = "watch"
                  /\ disp'.fd = disp.fd /\ disp'.tmp = set /\ set' = set
      /\ Watch => /\ disp.pc = "watch" /\ disp'.pc = "select"
                  /\ set' = disp.tmp \cup {disp.fd}
      /\ ScanRead => /\ disp.pc = "scan" /\ disp'.pc = "read"
                     /\ disp'.tmp = set /\ set' = set
  <2>1. CASE Count BY <1>1, <2>1 DEF Count, DispAt, Dispatcher, Watch, ScanRead, Scans
  <2>2. CASE Watch BY <1>1, <2>2 DEF Count, Watch, DispAt, Selecting, ScanRead, Scans
  <2>3. CASE ScanRead
    <3>1. PICK d : disp' = [pc |-> "read", fd |-> d, tmp |-> set]
      BY <2>3 DEF ScanRead
    <3>2. disp'.pc = "read" /\ disp'.tmp = set BY <3>1
    <3> QED BY <2>3, <3>2 DEF Count, Watch, ScanRead, Scans, DispAt
  <2> QED BY <2>1, <2>2, <2>3
<1>4. AllOpen'
  BY <1>2, <1>3 DEF AInv, AllOpen, Open
<1>5. DispatcherLives' BY <1>3 DEF DispatcherLives
<1>6. \A d \in Descriptors : Found(d) => Found(d)'
  BY <1>2, <1>3 DEF Found, GivenBack, Read, Served, AInv, AllOpen
<1>7. \A d \in Descriptors : Present(d)' => Present(d)
  BY <1>2 DEF Present
<1>8. disp.pc # "ended" BY <1>3
<1>9. Attended' BY <1>2, <1>6, <1>7, <1>8, StillAttended
<1> QED BY <1>4, <1>5, <1>9 DEF AInv

LEMMA ReadAttended == ASSUME WInv, RInv, AInv, ReadMessage PROVE AInv'
<1> USE DEF Sockets, Flags
<1>1. PICK d : d = disp.fd OBVIOUS
<1>2. /\ disp.pc = "read" /\ disp' = Selecting /\ set' = disp.tmp \ {d}
      /\ UNCHANGED <<client, listening, pipe, gestore>>
  BY <1>1 DEF ReadMessage, DispAt
<1>3. HasInput(d) /\ disp.tmp = set
  BY <1>1, <1>2 DEF RInv, ReadsInput, AInv, AllOpen
<1>4. UNCHANGED conn /\ wk' \in Signalled(wk)
  BY DEF ReadMessage, Enqueue, EndOfFile
<1>5. disp'.pc = "select" BY <1>2 DEF Selecting
<1>6. \A w \in Workers : /\ wk'[w].req = wk[w].req
                         /\ \/ wk'[w] = wk[w]
                            \/ wk[w].pc = "waiting" /\ wk'[w].pc = "idle"
  <2>1. wk \in Threads BY DEF WInv, TypeOK, Threads
  <2> QED BY <1>4, <2>1, SignalledIs
<1>7. AllOpen' BY <1>2, <1>3, <1>4, <1>5, <1>6 DEF AInv, AllOpen, Open
<1>8. DispatcherLives' BY <1>5 DEF DispatcherLives
<1>9. \A e \in Descriptors : Present(e)' => Present(e)
  BY <1>2, <1>4 DEF Present
<1>10. \A e \in Descriptors : Served(e) => Served(e)' BY <1>6 DEF Served
\* The queue keeps what it had, and gets what the client of d has sent.
<1>11. /\ \A e \in Descriptors : Read(e) => Read(e)'
       /\ d \in Descriptors /\ Present(d) => Read(d)'
  <2>1. CASE \E op, from : queueric' = Append(queueric, [fd |-> d, op |-> op, from |-> from])
    <3>1. PICK op, from : queueric' = Append(queueric, [fd |-> d, op |-> op, from |-> from])
      BY <2>1
    <3>2. PICK r : r = [fd |-> d, op |-> op, from |-> from] OBVIOUS
    <3>3. /\ Len(queueric') = Len(queueric) + 1 /\ queueric'[Len(queueric) + 1] = r
          /\ \A i \in 1 .. Len(queueric) : queueric'[i] = queueric[i]
          /\ Len(queueric) \in Nat
      BY <3>1, <3>2 DEF WInv, TypeOK
    <3>4. /\ Len(queueric) + 1 \in 1 .. Len(queueric')
          /\ \A i \in 1 .. Len(queueric) : i \in 1 .. Len(queueric')
      BY <3>3
    <3>5. r.fd = d BY <3>2
    <3> QED BY <3>3, <3>4, <3>5 DEF Read
  <2>2. CASE d \in Descriptors /\ sent[conn[d]] = NONE
    <3>1. UNCHANGED queueric BY <1>1, <1>3, <2>2 DEF ReadMessage, EndOfFile, HasInput
    <3>2. ~Present(d) BY <1>3, <2>2 DEF HasInput, Present
    <3> QED BY <3>1, <3>2 DEF Read
  <2>3. \/ \E op, from : queueric' = Append(queueric, [fd |-> d, op |-> op, from |-> from])
        \/ d \in Descriptors /\ sent[conn[d]] = NONE
    BY <1>1 DEF ReadMessage, Enqueue
  <2> QED BY <2>1, <2>2, <2>3
<1>12. \A e \in Descriptors : Present(e) /\ Found(e) => Found(e)'
  BY <1>1, <1>2, <1>3, <1>10, <1>11 DEF Found, GivenBack
<1>13. disp.pc # "ended" BY <1>2
<1>14. Attended' BY <1>2, <1>9, <1>12, <1>13, StillAttended
<1> QED BY <1>7, <1>8, <1>14 DEF AInv

\* What a thread serves came from an open descriptor.
LEMMA ServedOpen ==
    ASSUME WInv, RInv, NEW w \in Serving PROVE Open(wk[w].req.fd)
BY RequestTypes, Own DEF RInv, Requested, Mine, Open

LEMMA TakeAttended ==
    ASSUME WInv, RInv, AInv, NEW w \in Workers, Take(w) PROVE AInv'
<1> USE DEF Queues, Sockets, Flags
<1>1. PICK r : r = Head(queueric) /\ r = queueric[1] OBVIOUS
<1>2. /\ queueric # <<>> /\ queueric' = Tail(queueric)
      /\ wk' = [wk EXCEPT ![w].pc = "serve", ![w].req = r]
      /\ wk[w].pc = "idle"
      /\ UNCHANGED <<client, conn, listening, set, disp, pipe, gestore>>
  BY <1>1 DEF Take, WorkerAt
<1>3. queueric \in Seq(Request) /\ wk \in [Workers -> Worker]
  BY DEF WInv, TypeOK
<1>4. /\ Len(queueric) \in Nat \ {0} /\ Len(queueric') = Len(queueric) - 1
      /\ \A i \in 1 .. Len(queueric') : queueric'[i] = queueric[i + 1]
  BY <1>2, <1>3
<1>5. \A i \in 1 .. Len(queueric) : i # 1 =>
         i - 1 \in 1 .. Len(queueric') /\ queueric[i] = queueric'[i - 1]
  <2>1. \A i \in 1 .. Len(queueric) : i # 1 =>
           i - 1 \in 1 .. Len(queueric') /\ (i - 1) + 1 = i
    BY <1>4
  <2> QED BY <1>4, <2>1
<1>6. /\ wk'[w].pc = "serve" /\ wk'[w].req = r
      /\ \A v \in Workers \ {w} : wk'[v] = wk[v]
  BY <1>2, <1>3 DEF Worker
<1>7. AllOpen' BY <1>2, <1>6 DEF AInv, AllOpen, Open
<1>8. DispatcherLives' BY <1>2 DEF AInv, DispatcherLives
<1>9. \A d \in Descriptors : Read(d) => Read(d)' \/ r.fd = d
  BY <1>1, <1>5 DEF Read
<1>10. \A d \in Descriptors : (Served(d) => Served(d)') /\ (r.fd = d => Served(d)')
  BY <1>2, <1>6 DEF Served
<1>11. \A d \in Descriptors : Found(d) => Found(d)'
  BY <1>2, <1>9, <1>10 DEF Found, GivenBack
<1>12. \A d \in Descriptors : Present(d)' => Present(d) BY <1>2 DEF Present
<1>13. disp'.pc # "ended" => disp.pc # "ended" BY <1>2
<1>14. Attended'
  <2>1. CASE disp.pc = "ended"
    BY <1>2, <2>1 DEF AInv, DispatcherLives, Attended
  <2> QED BY <1>2, <1>11, <1>12, <2>1, StillAttended
<1> QED BY <1>7, <1>8, <1>14 DEF AInv

LEMMA PutBackAttended ==
    ASSUME WInv, RInv, AInv, NEW w \in Workers, PutBack(w) PROVE AInv'
<1> USE DEF Queues, Sockets, Flags
<1>1. PICK ths : ths = [wk EXCEPT ![w].pc = "token"] OBVIOUS
<1>2. /\ w \in Serving /\ queueric' = Append(queueric, wk[w].req)
      /\ wk' \in Signalled(ths)
      /\ UNCHANGED <<client, conn, listening, set, disp, pipe, gestore>>
  BY <1>1 DEF PutBack, WorkerAt, Serving
<1>3. wk \in [Workers -> Worker] /\ wk[w] \in Worker BY DEF WInv, TypeOK
<1>4. /\ ths \in Threads /\ ths[w].pc = "token" /\ ths[w].req = wk[w].req
      /\ \A v \in Workers \ {w} : ths[v] = wk[v]
  <2>1. PICK t : t = [wk[w] EXCEPT !.pc = "token"] OBVIOUS
  <2>2. t \in Worker /\ t.pc = "token" /\ t.req = wk[w].req
    BY <1>3, <2>1 DEF Worker
  <2>3. ths = [wk EXCEPT ![w] = t] BY <1>1, <2>1
  <2> QED BY <1>3, <2>2, <2>3 DEF Threads
<1>5. \A v \in Workers : /\ wk'[v].req = ths[v].req
                         /\ \/ wk'[v] = ths[v]
                            \/ ths[v].pc = "waiting" /\ wk'[v].pc = "idle"
  BY <1>2, <1>4, SignalledIs
<1>6. Open(wk[w].req.fd) BY <1>2, ServedOpen
<1>7. AllOpen' BY <1>2, <1>4, <1>5, <1>6 DEF AInv, AllOpen, Open
<1>8. DispatcherLives' BY <1>2 DEF AInv, DispatcherLives
<1>9. /\ Len(queueric') = Len(queueric) + 1 /\ Len(queueric) \in Nat
      /\ \A i \in 1 .. Len(queueric) : queueric'[i] = queueric[i]
  <2>1. queueric \in Seq(Request) /\ wk[w].req \in Request
    BY <1>2, RequestTypes DEF WInv, TypeOK
  <2> QED BY <1>2, <2>1
<1>10. \A d \in Descriptors : Read(d) => Read(d)'
  <2>1. \A i \in 1 .. Len(queueric) : i \in 1 .. Len(queueric') BY <1>9
  <2> QED BY <1>9, <2>1 DEF Read
<1>11. \A d \in Descriptors : Served(d) => Served(d)'
  BY <1>4, <1>5 DEF Served
<1>12. \A d \in Descriptors : Found(d) => Found(d)'
  BY <1>2, <1>10, <1>11 DEF Found, GivenBack
<1>13. \A d \in Descriptors : Present(d)' => Present(d) BY <1>2 DEF Present
<1>14. Attended'
  <2>1. CASE disp.pc = "ended"
    BY <1>2, <2>1 DEF AInv, DispatcherLives, Attended
  <2> QED BY <1>2, <1>12, <1>13, <2>1, StillAttended
<1> QED BY <1>7, <1>8, <1>14 DEF AInv

LEMMA TokenGiven ==
    ASSUME WInv, RInv, AInv, NEW w \in Workers, Token(w) PROVE AInv'
<1> USE DEF Sockets, Flags
<1>1. PICK x : x = wk[w].req.fd OBVIOUS
<1>2. /\ wk[w].pc = "token" /\ pipe' = Append(pipe, x)
      /\ wk' = [wk EXCEPT ![w] = Idle]
      /\ UNCHANGED <<client, conn, listening, set, disp, queueric, gestore>>
  BY <1>1 DEF Token, WorkerAt
<1>3. /\ wk \in [Workers -> Worker] /\ pipe \in Seq(Given)
      /\ wk[w].req \in Request
  BY <1>2 DEF WInv, TypeOK, Holding
<1>4. x \in Given BY <1>1, <1>3 DEF Request
<1>5. /\ Len(pipe') = Len(pipe) + 1 /\ pipe'[Len(pipe) + 1] = x
      /\ \A i \in 1 .. Len(pipe) : pipe'[i] = pipe[i]
      /\ Len(pipe) \in Nat
  BY <1>2, <1>3, <1>4
<1>6. /\ Len(pipe) + 1 \in 1 .. Len(pipe')
      /\ \A i \in 1 .. Len(pipe) : i \in 1 .. Len(pipe')
      /\ \A i \in 1 .. Len(pipe') : i \in 1 .. Len(pipe) \/ i = Len(pipe) + 1
  BY <1>5
<1>7. wk'[w].pc = "idle" /\ \A v \in Workers \ {w} : wk'[v] = wk[v]
  BY <1>2, <1>3 DEF Idle
<1>8. AllOpen' BY <1>1, <1>2, <1>5, <1>6, <1>7 DEF AInv, AllOpen, Open
<1>9. DispatcherLives' BY <1>2 DEF AInv, DispatcherLives
<1>10. \A d \in Descriptors : Served(d) => Served(d)' \/ d = x
  BY <1>1, <1>7 DEF Served
<1>11. \A d \in Descriptors : (GivenBack(d) => GivenBack(d)') /\ (d = x => GivenBack(d)')
  BY <1>5, <1>6 DEF GivenBack
<1>12. \A d \in Descriptors : Found(d) => Found(d)'
  BY <1>2, <1>10, <1>11 DEF Found, Read
<1>13. \A d \in Descriptors : Present(d)' => Present(d) BY <1>2 DEF Present
<1>14. Attended'
  <2>1. CASE disp.pc = "ended"
    BY <1>2, <2>1 DEF AInv, DispatcherLives, Attended
  <2> QED BY <1>2, <1>12, <1>13, <2>1, StillAttended
<1> QED BY <1>8, <1>9, <1>14 DEF AInv

LEMMA ServeAttended ==
    ASSUME WInv, RInv, AInv, NEW w \in Workers, Serve(w) PROVE AInv'
<1> USE DEF Flags
<1>1. /\ w \in Serving /\ wk[w].pc = "serve" /\ Goto(w, "token")
      /\ UNCHANGED <<conn, listening, set, disp, queueric, pipe, gestore>>
  BY DEF Serve, WorkerAt, Serving
<1>2. wk \in [Workers -> Worker] /\ wk[w] \in Worker BY DEF WInv, TypeOK
<1>3. /\ wk'[w].pc = "token" /\ wk'[w].req = wk[w].req
      /\ \A v \in Workers \ {w} : wk'[v] = wk[v]
  BY <1>1, <1>2 DEF Goto, Worker
<1>4. Open(wk[w].req.fd) BY <1>1, ServedOpen
<1>5. \A v \in Workers :
         /\ wk'[v].pc = "token" => Open(wk'[v].req.fd)
         /\ wk[v].pc \in {"serve", "token", "clear", "closing"} =>
              /\ wk'[v].pc \in {"serve", "token", "clear", "closing"}
              /\ wk'[v].req = wk[v].req
  BY <1>3, <1>4 DEF AInv, AllOpen
<1>6. \A c \in Clients : client[c] = "left" => client'[c] = "left"
  BY DEF Serve, Answer
<1> QED BY <1>1, <1>5, <1>6, SamePlaces

\* The steps that change none of the places: those of clients, of signalHandler()
\* and of a thread that serves nothing.
LEMMA OthersAttended ==
    ASSUME WInv, RInv, AInv, [Next]_vars,
           \/ UNCHANGED vars \/ ClientStep \/ HandlerStep \/ SignalStep
           \/ \E w \in Workers : Wait(w) \/ Stop(w)
    PROVE  AInv'
<1> USE DEF Sockets, Queues, Others, Flags, Counted, HandTo
<1>1. /\ UNCHANGED <<conn, listening, set, disp, pipe, queueric>>
      /\ gestore' = gestore
  <2>1. CASE UNCHANGED vars BY <2>1 DEF vars
  <2>2. CASE ClientStep BY <2>2 DEF ClientStep, Connect, Ask, Crash
  <2>3. CASE HandlerStep \/ SignalStep
    BY <2>3 DEF HandlerStep, SignalStep, InterruptStop, HangUpTest, HangUpStop,
       HangUpWake, Join, JoinWorkers, Free, Exit, Interrupt, HangUp, Terminate
  <2>4. CASE \E w \in Workers : Wait(w) \/ Stop(w)
    BY <2>4 DEF Wait, Stop
  <2> QED BY <2>1, <2>2, <2>3, <2>4
<1>2. \A v \in Workers :
         \/ wk'[v] = wk[v]
         \/ /\ wk[v].pc \in {"idle", "waiting"}
            /\ wk'[v].pc \in {"idle", "waiting", "ended"}
  <2>0. \A v \in Workers : wk[v] \in Worker BY DEF WInv, TypeOK
  <2>1. CASE UNCHANGED vars BY <2>1 DEF vars
  <2>2. CASE ClientStep BY <2>2 DEF ClientStep, Connect, Ask, Crash
  <2>3. CASE Join BY <2>0, <2>3 DEF Join, Worker
  <2>4. CASE (HandlerStep \/ SignalStep) /\ ~Join
    BY <2>4 DEF HandlerStep, SignalStep, InterruptStop, HangUpTest, HangUpStop,
       HangUpWake, JoinWorkers, Free, Exit, Interrupt, HangUp, Terminate
  <2>5. ASSUME NEW w \in Workers, Wait(w) \/ Stop(w)
        PROVE  \A v \in Workers :
                 \/ wk'[v] = wk[v]
                 \/ /\ wk[v].pc \in {"idle", "waiting"}
                    /\ wk'[v].pc \in {"idle", "waiting", "ended"}
    BY <2>0, <2>5 DEF Wait, Stop, Goto, WorkerAt, Worker, WInv, TypeOK
  <2> QED BY <2>1, <2>2, <2>3, <2>4, <2>5
<1>3. \A v \in Workers :
         /\ wk'[v].pc = "token" => Open(wk'[v].req.fd)
         /\ wk[v].pc \in {"serve", "token", "clear", "closing"} =>
              /\ wk'[v].pc \in {"serve", "token", "clear", "closing"}
              /\ wk'[v].req = wk[v].req
  BY <1>2 DEF AInv, AllOpen
<1> QED BY <1>1, <1>3, LeftForGood, SamePlaces

LEMMA AInvStep ==
    ASSUME "close" \notin Ops, WInv, RInv, AInv, [Next]_vars PROVE AInv'
<1>1. CASE DispatcherStep
  BY <1>1, SelectAttended, TokenAttended, AcceptAttended, WatchAttended,
     ReadAttended DEF DispatcherStep
<1>2. ASSUME NEW w \in Workers, WorkerStep(w) PROVE AInv'
  <2>1. ~CloseBegin(w) /\ ~CloseClear(w) /\ ~CloseEnd(w)
    BY NoneCloses DEF CloseClear, CloseEnd, WorkerAt
  <2> QED BY <1>2, <2>1, TakeAttended, PutBackAttended, TokenGiven, ServeAttended,
             OthersAttended DEF WorkerStep
<1> QED BY <1>1, <1>2, OthersAttended DEF Next

LEMMA AInvInit == Init => AInv
<1> SUFFICES ASSUME Init PROVE AInv OBVIOUS
<1>1. AllOpen
  BY Own DEF Init, AllOpen, Open, Selecting, Idle
<1>2. DispatcherLives BY DEF Init, Selecting, DispatcherLives
<1>3. Attended BY DEF Init, Attended
<1> QED BY <1>1, <1>2, <1>3 DEF AInv

LEMMA AInvariance == ASSUME "close" \notin Ops PROVE Spec => []AInv
<1>1. Orderly BY DEF Orderly
<1>2. WInv /\ RInv /\ [Next]_vars => RInv' BY <1>1, RInvStep
<1>3. WInv /\ RInv /\ AInv /\ [Next]_vars => AInv' BY AInvStep
<1> QED BY RInvInit, AInvInit, <1>2, <1>3, WInvariance, PTL DEF Spec

\* As long as no client asks for CLOSECONNECTION, whose FD_CLR may undo what
\* the dispatcher writes, no client is forgotten: one that is connected is
\* watched, or its descriptor is in the hands of the dispatcher, of a worker,
\* of queueric or of the pipe (server.c:86-216).
THEOREM NobodyForgotten == ASSUME "close" \notin Ops PROVE Spec => []Attended
<1>1. AInv => Attended BY DEF AInv
<1> QED BY <1>1, AInvariance, PTL

\* And then select() never fails: the dispatcher goes on until it is told to
\* stop (server.c:122-128).
THEOREM DispatcherGoesOn ==
    ASSUME "close" \notin Ops PROVE Spec => []DispatcherLives
<1>1. AInv => DispatcherLives BY DEF AInv
<1> QED BY <1>1, AInvariance, PTL
=============================================================================
