------------------------------- MODULE MCEvent -------------------------------
(***************************************************************************)
(* Event for TLC.  The threads do the same things, and only invariants are *)
(* checked, so exchanging threads is a sound symmetry.                     *)
(***************************************************************************)
EXTENDS Event

ThreadSymmetry == Permutations(Threads)
=============================================================================
