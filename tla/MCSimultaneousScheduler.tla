---------------------- MODULE MCSimultaneousScheduler ----------------------
(***************************************************************************)
(* Model-checking instances of SimultaneousScheduler.                      *)
(***************************************************************************)
EXTENDS SimultaneousScheduler, TLC

\* All harts but hart 0 are interchangeable.
Symmetry == Permutations(Harts \ {Hart0})
=============================================================================
