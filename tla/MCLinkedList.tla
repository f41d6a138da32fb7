---------------------------- MODULE MCLinkedList ----------------------------
(***************************************************************************)
(* Instances of LinkedList for TLC.                                        *)
(***************************************************************************)
EXTENDS LinkedList, TLC

CONSTANTS c1, c2, c3, c4

\* The calls made on any list, and on a bucket of the hash table.
AllCalls == {"insertH", "insertT", "takeHead", "delete", "search"}
BucketCalls == {"insertH", "delete", "search"}  \* a bucket of Hash

CellSymmetry == Permutations(Cells)
=============================================================================
