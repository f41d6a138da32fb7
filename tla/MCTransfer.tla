---------------------------- MODULE MCTransfer ----------------------------
(***************************************************************************)
(* Instances of Transfer for TLC.                                          *)
(***************************************************************************)
EXTENDS Transfer, SequencesExt

CONSTANTS a, b, c, d

\* Streams of distinct bytes, so that any exchange is seen, in three messages or
\* less, empty ones too.
Distinct == {<<a, b>>, <<a, b, c, d>>}
Positions == SeqOf(0 .. 4, 3)
=============================================================================
