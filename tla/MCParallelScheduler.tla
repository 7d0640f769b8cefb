------------------------ MODULE MCParallelScheduler ------------------------
(***************************************************************************)
(* Model-checking instances of ParallelScheduler.                          *)
(***************************************************************************)
EXTENDS ParallelScheduler, TLC

\* The harts are interchangeable: a hart id only indexes per-hart words.
Symmetry == Permutations(Harts)
=============================================================================
