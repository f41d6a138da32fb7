----------------------------- MODULE MCWorkers -----------------------------
(***************************************************************************)
(* Instances of Workers for TLC.                                           *)
(***************************************************************************)
EXTENDS WorkersStore

\* All the paths in one bucket.
OneBucket == [p \in Paths |-> 0]

\* The identities that may be exchanged: all the paths are in one bucket, and
\* workers only where there are two.
Symmetry1 == Permutations(Clients) \cup Permutations(Files) \cup Permutations(Paths)
Symmetry == Symmetry1 \cup Permutations(Workers)

\* Requests without APPEND, which breaks the order of the mutexes, and O_LOCK,
\* which ignores the lock; READ, READN and O_OPEN change none.
LockOps == AllOps \ {"APPEND", "O_LOCK", "READ", "READN", "O_OPEN"}
=============================================================================
