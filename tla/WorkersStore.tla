---------------------------- MODULE WorkersStore ----------------------------
(***************************************************************************)
(* Workers with one thread implements Store: what a request does in many   *)
(* critical sections, through the table, fifo and the File structures, is  *)
(* what Store says it does.                                                *)
(***************************************************************************)
EXTENDS Workers

CONSTANT MaxVictims   \* bound: the length of fifo, FifoBound in Workers

\* The thread.
worker == CHOOSE w \in Workers : TRUE

\* What Store says of a File.
Seen(f) == LET written == f.cont = "buffer"
           IN  [isopen |-> f.isopen, lock |-> f.lock, fd |-> f.fd,
                dim |-> IF written THEN f.dim ELSE 0, written |-> written]

\* The file that the table has for a path (refinement mapping).
FileOf(p) ==
    IF contain(Hash, p) THEN Seen(files[getvalue(Hash, p)])
    ELSE [isopen |-> 0, lock |-> 0, fd |-> NONE, dim |-> 0, written |-> FALSE]

\* How far a request is when its thread is at this label.
PhaseOf(pc) ==
    CASE pc = "idle"                                       -> "idle"
      [] pc \in {"expel", "unlinkExpelled"}                -> "expel"
      [] pc \in {"accountRead", "account", "checkSpace"}   -> "written"
      [] pc \in {"evictBegin", "evict", "evictAccount"}    -> "full"
      [] pc = "evictSend"                                  -> "evict"
      [] pc = "appendCopy"                                 -> "append"
      [] pc = "removeFifo"                                 -> "removed"
      [] pc \in {"closeWalk", "closing"}                   -> "closing"
      [] pc \in {"enqueue", "finish"}                      -> "done"
      [] OTHER                                             -> "begun"

\* The paths of the files that it still has to send and will: it faults at the
\* first that is freed already, as a file that is twice in ftosend is when it is
\* met again.
PathsToSend ==
    LET sent == th[worker].ftosend
        Good(i) == \A j \in 1 .. i : /\ files[sent[j]].alive
                                     /\ \A k \in 1 .. j - 1 : sent[k] # sent[j]
    IN  [i \in {n \in 1 .. Len(sent) : Good(n)} |-> files[sent[i]].path]

\* The state of Store.
theStore == [p \in Paths |-> FileOf(p)]
thePhase == PhaseOf(th[worker].pc)
theRequest == th[worker].req
theAnswer == th[worker].answer
theVictims == IF th[worker].pc = "evictSend" THEN PathsToSend ELSE <<>>

Sequential == INSTANCE Store WITH
    store <- theStore, phase <- thePhase, req <- theRequest,
    answer <- theAnswer, victims <- theVictims

\* A server with one thread serves each request as the map of Store says:
\* a file appears only by a create, changes only as its requests and its lock
\* allow, goes only by its owner's REMOVE or to make room, and the statuses
\* are those of the state the request found (README.md:14, "ottiene le
\* risposte in accordo al protocollo di comunicazione richiesta-risposta").
ImplementsStore == Sequential!StoreSpec
=============================================================================
