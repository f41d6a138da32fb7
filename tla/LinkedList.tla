----------------------------- MODULE LinkedList -----------------------------
(***************************************************************************)
(* source/list.c with its pointers: nodes on the heap linked by "next" and *)
(* "prev", the list's header, tailer and length.  Each action is one call. *)
(* Checked to implement ListSpec.                                          *)
(*                                                                         *)
(* A freed node keeps its identity while some pointer still refers to it,  *)
(* so that using it is seen as the error it is; malloc() returns any node  *)
(* nothing refers to.                                                      *)
(***************************************************************************)
EXTENDS Integers, Sequences, FiniteSets

CONSTANTS Keys, Values, Calls, MaxLen,   \* as in ListSpec
          Cells,                         \* the addresses of nodes
          NULL

ASSUME ListAssumption == /\ Calls \subseteq {"insertH", "insertT", "takeHead",
                                             "delete", "search"}
                         /\ MaxLen \in Nat \ {0}
                         /\ IsFiniteSet(Cells)
                         /\ NULL \notin Cells

VARIABLES heap,     \* the nodes: [live, key, cont, next, prev]
          header, tailer, length,
          result, fault

vars == <<heap, header, tailer, length, result, fault>>

Pointer == Cells \cup {NULL}
\* What a call returned: one node or none.
Result(call, ns) == [call |-> call, nodes |-> ns]
Content(p) == [key |-> heap[p].key, cont |-> heap[p].cont]

\* A cell that holds no node of the list: freed, or never allocated.
FreeCell == [live |-> FALSE, key |-> NULL, cont |-> NULL,
             next |-> NULL, prev |-> NULL]

TypeOK ==
    /\ heap \in [Cells -> {FreeCell} \cup
                          [live : {TRUE}, key : Keys, cont : Values,
                           next : Pointer, prev : Pointer]]
    /\ header \in Pointer /\ tailer \in Pointer
    /\ length \in Int
    /\ fault \in {"none", "null", "freed"}

\* create()
Init == /\ heap = [p \in Cells |-> FreeCell]
        /\ header = NULL /\ tailer = NULL /\ length = 0
        /\ result = Result("create", {})
        /\ fault = "none"

-----------------------------------------------------------------------------

\* What dereferencing p does: nothing bad, or the fault it is.
Deref(p) == IF p = NULL THEN "null"
            ELSE IF heap[p].live THEN "none" ELSE "freed"
Undefined(kind) == fault' = kind
                   /\ UNCHANGED <<heap, header, tailer, length, result>>

\* The cells that malloc() may return to createnode().
Fresh == {p \in Cells : /\ ~heap[p].live
                        /\ p \notin {header, tailer}
                        /\ \A q \in Cells : p \notin {heap[q].next, heap[q].prev}}

\* The nodes met from header along next.
Chain ==
    LET size == Cardinality(Cells)
        hop[i \in 0 .. size] == IF i = 0 THEN header
                                ELSE IF hop[i - 1] = NULL THEN NULL
                                ELSE heap[hop[i - 1]].next
        met == {i \in 1 .. size : hop[i - 1] # NULL}
    IN  [i \in 1 .. Cardinality(met) |-> hop[i - 1]]

Has(k) == \E i \in 1 .. Len(Chain) : heap[Chain[i]].key = k
FirstWith(k) == LET i == CHOOSE j \in 1 .. Len(Chain) :
                            /\ heap[Chain[j]].key = k
                            /\ \A m \in 1 .. j - 1 : heap[Chain[m]].key # k
                IN  Chain[i]

May(name) == fault = "none" /\ name \in Calls

\* (Mutant of NewCell: createnode() that forgets to assign prev.)
NewCellNoPrev(n, nx, pv) == [live |-> TRUE, key |-> n.key, cont |-> n.cont,
                             next |-> nx, prev |-> "uninitialised"]
NewCell(n, nx, pv) == [live |-> TRUE, key |-> n.key, cont |-> n.cont,
                       next |-> nx, prev |-> pv]

\* The heap once the header, p, has left the list.
Beheaded(p) == [q \in Cells |-> CASE q = p            -> FreeCell
                                  [] q = heap[p].next -> [heap[q] EXCEPT !.prev = NULL]
                                  [] OTHER            -> heap[q]]

\* (Mutant of Unlinked: the next node goes on pointing back to p.)
UnlinkedForward(p) == [q \in Cells |->
    CASE q = p            -> FreeCell
      [] q = heap[p].prev -> [heap[q] EXCEPT !.next = heap[p].next]
      [] OTHER            -> heap[q]]

\* The heap once p, not the header, has left it: tmp->prev->next = tmp->next,
\* and the same backwards if there is a next node.
Unlinked(p) == [q \in Cells |->
    CASE q = p            -> FreeCell
      [] q = heap[p].prev -> [heap[q] EXCEPT !.next = heap[p].next]
      [] q = heap[p].next -> [heap[q] EXCEPT !.prev = heap[p].prev]
      [] OTHER            -> heap[q]]

-----------------------------------------------------------------------------

\* insertH(): tailer is assigned when length is 0.
InsertH(n) ==
    /\ May("insertH") /\ length < MaxLen
    /\ \E p \in Fresh :
         /\ heap' = [q \in Cells |->
                       IF q = p THEN NewCell(n, header, NULL)
                       ELSE IF q = header /\ length # 0
                       THEN [heap[q] EXCEPT !.prev = p]
                       ELSE heap[q]]
         /\ header' = p
         /\ tailer' = IF length = 0 THEN p ELSE tailer
    /\ length' = length + 1
    /\ result' = Result("insertH", {})
    /\ UNCHANGED fault

\* insertT(): the test is on tailer, not on length.
InsertT(n) ==
    /\ May("insertT") /\ length < MaxLen
    /\ \/ /\ tailer = NULL \/ Deref(tailer) = "none"
          /\ \E p \in Fresh :
               /\ heap' = [q \in Cells |->
                             IF q = p THEN NewCell(n, NULL, tailer)
                             ELSE IF q = tailer
                             THEN [heap[q] EXCEPT !.next = p]
                             ELSE heap[q]]
               /\ header' = IF tailer = NULL THEN p ELSE header
               /\ tailer' = p
          /\ length' = length + 1
          /\ result' = Result("insertT", {})
          /\ UNCHANGED fault
       \/ tailer # NULL /\ Deref(tailer) # "none" /\ Undefined(Deref(tailer))

\* (Mutant of TakeHead: tailer is not reset with the last node.)
TakeHeadNoReset ==
    /\ May("takeHead")
    /\ \/ /\ Deref(header) = "none"
          /\ heap' = Beheaded(header)
          /\ length' = length - 1
          /\ header' = heap[header].next
          /\ result' = Result("takeHead", {Content(header)})
          /\ UNCHANGED <<tailer, fault>>
       \/ Deref(header) # "none" /\ Undefined(Deref(header))

\* takeHead(): the node goes to the caller, who frees it.
TakeHead ==
    /\ May("takeHead")
    /\ \/ /\ Deref(header) = "none"
          /\ heap' = Beheaded(header)
          /\ length' = length - 1
          /\ IF length' = 0
             THEN header' = NULL /\ tailer' = NULL
             ELSE header' = heap[header].next /\ UNCHANGED tailer
          /\ result' = Result("takeHead", {Content(header)})
          /\ UNCHANGED fault
       \/ Deref(header) # "none" /\ Undefined(Deref(header))

\* delete(): the header is a case of its own; tailer is never assigned.
Delete(k) ==
    /\ May("delete")
    /\ \/ /\ Deref(header) = "none" /\ Has(k)
          /\ LET p == FirstWith(k)
             IN  /\ heap' = IF p = header THEN Beheaded(p) ELSE Unlinked(p)
                 /\ header' = IF p = header THEN heap[p].next ELSE header
                 /\ result' = Result("delete", {Content(p)})
          /\ length' = length - 1
          /\ UNCHANGED <<tailer, fault>>
       \/ /\ Deref(header) = "none" /\ ~Has(k)
          /\ result' = Result("delete", {})
          /\ UNCHANGED <<heap, header, tailer, length, fault>>
       \/ Deref(header) # "none" /\ Undefined(Deref(header))

\* search(): header, then tailer, then the walk.
Search(k) ==
    /\ May("search")
    /\ \/ /\ header = NULL
          /\ result' = Result("search", {})
          /\ UNCHANGED fault
       \/ /\ header # NULL /\ heap[header].key = k
          /\ result' = Result("search", {Content(header)})
          /\ UNCHANGED fault
       \/ /\ header # NULL /\ heap[header].key # k /\ Deref(tailer) = "none"
          /\ result' = CASE heap[tailer].key = k -> Result("search", {Content(tailer)})
                         [] heap[tailer].key # k /\ Has(k)
                              -> Result("search", {Content(FirstWith(k))})
                         [] OTHER -> Result("search", {})
          /\ UNCHANGED fault
       \/ /\ header # NULL /\ heap[header].key # k /\ Deref(tailer) # "none"
          /\ fault' = Deref(tailer) /\ UNCHANGED result
    /\ UNCHANGED <<heap, header, tailer, length>>

Next == \/ \E n \in [key : Keys, cont : Values] : InsertH(n) \/ InsertT(n)
        \/ TakeHead
        \/ \E k \in Keys : Delete(k) \/ Search(k)

Spec == Init /\ [][Next]_vars

-----------------------------------------------------------------------------

\* The pointers form a list: walking back along prev from the last node meets
\* the nodes met walking forward from header, there are "length" of them, and
\* tailer is the last one unless it is a node delete() has freed.
WellLinked ==
    LET n == Len(Chain)
    IN  /\ length = n
        /\ \A i \in 1 .. n : heap[Chain[i]].live
        /\ \A i \in 1 .. n : heap[Chain[i]].prev = (IF i = 1 THEN NULL
                                                    ELSE Chain[i - 1])
        /\ tailer \in Cells /\ heap[tailer].live => n > 0 /\ tailer = Chain[n]
        /\ tailer = NULL => n = 0

\* What the list is for its owner (refinement mapping).
Abstract == INSTANCE ListSpec WITH
    list <- [nodes |-> [i \in 1 .. Len(Chain) |-> Content(Chain[i])],
             stale |-> tailer # NULL /\ ~heap[tailer].live]

\* list.c implements the sequence its callers rely on: every call returns the
\* node, and leaves the nodes, that the operators of ListOps say.
ImplementsList == Abstract!Spec

\* No call uses a node that has been freed. A bucket of the table is a list with
\* insertH(), delete() and search() (README.md:18, "un Hash map che gestisce le
\* collisioni con concatenamento").
NothingFreedIsUsed == fault # "freed"
=============================================================================
