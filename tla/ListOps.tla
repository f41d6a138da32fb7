------------------------------ MODULE ListOps ------------------------------
(***************************************************************************)
(* The doubly linked list of source/list.c, as a value.                    *)
(*                                                                         *)
(* The list is the sequence of the nodes reachable from "header", each a   *)
(* key with the pointer it carries, and one bit of history: "stale" says   *)
(* that "tailer" still points to a node that delete() has freed, because   *)
(* delete() unlinks a last node without moving "tailer".  An operation     *)
(* that would dereference NULL or the freed tailer has no result; its      *)
(* ...Safe predicate is false there and the callers turn that into a       *)
(* fault.  Module LinkedList has the pointers themselves and is checked    *)
(* to implement these operators.                                           *)
(***************************************************************************)
EXTENDS Integers, Sequences, SequencesExt

\* The lists whose nodes are in the set N of records with a field "key".
ListOf(N) == [nodes : Seq(N), stale : BOOLEAN]

\* create(): header and tailer are NULL, length is 0.
EmptyList == [nodes |-> <<>>, stale |-> FALSE]

isEmpty(l) == l.nodes = <<>>

\* Some node has key k, and the position of the first one.
HasKey(l, k) == \E i \in 1 .. Len(l.nodes) : l.nodes[i].key = k
FirstAt(l, k) == CHOOSE i \in 1 .. Len(l.nodes) :
                    /\ l.nodes[i].key = k
                    /\ \A j \in 1 .. i - 1 : l.nodes[j].key # k

-----------------------------------------------------------------------------

\* insertH() repairs the tailer of an empty list, and of no other.
insertH(l, n) == [nodes |-> <<n>> \o l.nodes,
                  stale |-> l.stale /\ ~isEmpty(l)]

\* insertT() writes to tailer->next whenever tailer is not NULL, and a freed
\* tailer is not NULL even in an empty list.
insertTSafe(l) == ~l.stale
insertT(l, n) == [l EXCEPT !.nodes = Append(@, n)]

\* takeHead() reads header->next, and resets both ends of the list when it
\* takes the last node.
takeHeadSafe(l) == ~isEmpty(l)
takeHead(l) == [nodes |-> Tail(l.nodes),
                stale |-> l.stale /\ Len(l.nodes) > 1]

\* delete() compares header->key before it tests anything for NULL, unlinks
\* the first node with the key and frees it; it never assigns tailer.
deleteSafe(l) == ~isEmpty(l)
delete(l, k) ==
    IF ~HasKey(l, k) THEN l
    ELSE [nodes |-> RemoveAt(l.nodes, FirstAt(l, k)),
          stale |-> l.stale \/ FirstAt(l, k) = Len(l.nodes)]

\* search() tries the header, then the tailer, then walks from the header: it
\* reads tailer->key unless the list is empty or its header matches, and it
\* prefers the tailer to an earlier node with the same key.
searchSafe(l, k) == ~isEmpty(l) /\ l.stale => Head(l.nodes).key = k
search(l, k) ==
    LET last == Len(l.nodes)
    IN  IF Head(l.nodes).key # k /\ l.nodes[last].key = k
        THEN last ELSE FirstAt(l, k)
=============================================================================
