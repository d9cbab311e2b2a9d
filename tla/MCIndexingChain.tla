-------------------------- MODULE MCIndexingChain --------------------------
(***************************************************************************)
(* Small instances of IndexingChain.                                       *)
(***************************************************************************)
EXTENDS IndexingChain, TLC

\* Thread states are interchangeable; daemons too.
Symmetry == Permutations(States) \cup Permutations(Daemons)
=============================================================================
