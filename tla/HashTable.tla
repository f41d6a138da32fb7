----------------------------- MODULE HashTable -----------------------------
(***************************************************************************)
(* The table of source/hash.c, as a value: "nelem" and an array of         *)
(* buckets, each a list of ListOps whose nodes carry the address of a File.*)
(* A bucket pointer that is still NULL and a list with no node behave the  *)
(* same for every operation, so both are EmptyList.                        *)
(***************************************************************************)
EXTENDS ListOps

CONSTANTS Paths,      \* path names
          Files,      \* addresses of File structures
          MaxF,       \* sc.maxf: the size of the array, NFILE of config.txt
          funchash    \* the bucket of each path: djb2 modulo MaxF in the code

Slots == 0 .. MaxF - 1

ASSUME HashAssumption == /\ MaxF \in Nat \ {0}
                         /\ funchash \in [Paths -> Slots]

Entry == [key : Paths, cont : Files]
Tables == [buckets : [Slots -> ListOf(Entry)], nelem : Int]

h_create == [buckets |-> [i \in Slots |-> EmptyList], nelem |-> 0]

Bucket(h, p) == h.buckets[funchash[p]]

\* The files of the table: the contents of the nodes of its buckets.
FilesIn(l) == {l.nodes[i].cont : i \in 1 .. Len(l.nodes)}
Stored(h) == UNION {FilesIn(h.buckets[s]) : s \in Slots}

\* The number of nodes of each bucket.
Lengths(h) == [s \in Slots |-> Len(h.buckets[s].nodes)]

\* contain() and getvalue() both are a search() of the bucket.
searchBucketSafe(h, p) == searchSafe(Bucket(h, p), p)
contain(h, p) == HasKey(Bucket(h, p), p)
getvalue(h, p) == Bucket(h, p).nodes[search(Bucket(h, p), p)].cont

\* (Mutant of hashins: a key that is there already is not counted again.)
hashinsCountsKeys(h, p, a) ==
    [buckets |-> [h.buckets EXCEPT ![funchash[p]] =
                    insertH(@, [key |-> p, cont |-> a])],
     nelem |-> IF contain(h, p) THEN h.nelem ELSE h.nelem + 1]

\* hashins() inserts at the head, and does not look for the key.
hashins(h, p, a) ==
    [buckets |-> [h.buckets EXCEPT ![funchash[p]] =
                    insertH(@, [key |-> p, cont |-> a])],
     nelem |-> h.nelem + 1]

\* h_delete() hands the bucket to delete() without testing it for NULL.
h_deleteSafe(h, p) == deleteSafe(Bucket(h, p))
h_delete(h, p) ==
    [buckets |-> [h.buckets EXCEPT ![funchash[p]] = delete(@, p)],
     nelem |-> IF contain(h, p) THEN h.nelem - 1 ELSE h.nelem]

-----------------------------------------------------------------------------

\* readFiles() announces "number" files: all of them for n <= 0, else n of
\* them if there are so many.
announced(h, n) == IF n <= 0 \/ n > h.nelem THEN h.nelem ELSE n

\* It then sends whole buckets, in order, as long as it has sent fewer: bucket
\* s is sent when those before it do not make up the number.
SlotsSent(h, n) ==
    LET before[s \in 0 .. MaxF] ==
          IF s = 0 THEN 0
          ELSE before[s - 1] + Len(h.buckets[s - 1].nodes)
    IN  {s \in Slots : before[s] < announced(h, n)}
FilesSent(h, n) == UNION {FilesIn(h.buckets[s]) : s \in SlotsSent(h, n)}
=============================================================================
