---------------------------- MODULE MCWorkingSet ----------------------------
(***************************************************************************)
(* Instances of WorkingSet for TLC.                                        *)
(***************************************************************************)
EXTENDS WorkingSet, TLC

Symmetry == Permutations(Ptrs)
=============================================================================
