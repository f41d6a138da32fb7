------------------------------ MODULE MCServer ------------------------------
(***************************************************************************)
(* Instances of Server for TLC.                                            *)
(***************************************************************************)
EXTENDS Server, TLC

\* Threads may be exchanged, and so may the clients that make the same calls.
Symmetry == Permutations(Workers) \cup Permutations(Clients)
=============================================================================
