------------------------------ MODULE ListSpec ------------------------------
(***************************************************************************)
(* What the list of source/list.c promises its callers: a sequence of      *)
(* nodes on which each call acts as the operator of ListOps with its name, *)
(* up to the first call that has no defined result.                        *)
(***************************************************************************)
EXTENDS ListOps

CONSTANTS Keys,     \* the path names used as keys
          Values,   \* the pointers stored in the nodes
          Calls,    \* the functions of list.c that the owner of the list calls
          MaxLen    \* bound: no insertion in a list of this length

VARIABLES list,     \* a list of ListOps
          result,   \* what the last call returned
          fault     \* "none" until a call dereferences NULL or freed memory

lvars == <<list, result, fault>>

Node == [key : Keys, cont : Values]
\* What a call returned: one node or none.
Result(call, ns) == [call |-> call, nodes |-> ns]

ListTypeOK == /\ list \in ListOf(Node)
              /\ result \in [call : Calls \cup {"create"},
                              nodes : {{}} \cup {{n} : n \in Node}]
              /\ fault \in {"none", "null", "freed"}

Init == list = EmptyList /\ result = Result("create", {}) /\ fault = "none"

\* A call with no defined result: the list is not looked at again.
Undefined(kind) == fault' = kind /\ UNCHANGED <<list, result>>

\* The call of function "name" may be made.
May(name) == fault = "none" /\ name \in Calls

InsertH(n) == /\ May("insertH")
              /\ Len(list.nodes) < MaxLen
              /\ list' = insertH(list, n)
              /\ result' = Result("insertH", {})
              /\ UNCHANGED fault

InsertT(n) == /\ May("insertT")
              /\ Len(list.nodes) < MaxLen
              /\ \/ /\ insertTSafe(list)
                    /\ list' = insertT(list, n)
                    /\ result' = Result("insertT", {})
                    /\ UNCHANGED fault
                 \/ ~insertTSafe(list) /\ Undefined("freed")

TakeHead == /\ May("takeHead")
            /\ \/ /\ takeHeadSafe(list)
                  /\ list' = takeHead(list)
                  /\ result' = Result("takeHead", {Head(list.nodes)})
                  /\ UNCHANGED fault
                  /\ UNCHANGED fault
               \/ ~takeHeadSafe(list) /\ Undefined("null")

Delete(k) == /\ May("delete")
             /\ \/ /\ deleteSafe(list)
                   /\ list' = delete(list, k)
                   /\ result' = IF HasKey(list, k)
                                THEN Result("delete", {list.nodes[FirstAt(list, k)]})
                                ELSE Result("delete", {})
                   /\ UNCHANGED fault
                \/ ~deleteSafe(list) /\ Undefined("null")

Search(k) == /\ May("search")
             /\ \/ /\ searchSafe(list, k)
                   /\ result' = IF HasKey(list, k)
                                THEN Result("search", {list.nodes[search(list, k)]})
                                ELSE Result("search", {})
                   /\ UNCHANGED <<list, fault>>
                \/ ~searchSafe(list, k) /\ Undefined("freed")

Next == \/ \E n \in Node : InsertH(n) \/ InsertT(n)
        \/ TakeHead
        \/ \E k \in Keys : Delete(k) \/ Search(k)

Spec == Init /\ [][Next]_lvars
=============================================================================
