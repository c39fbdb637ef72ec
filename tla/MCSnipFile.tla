----------------------------- MODULE MCSnipFile -----------------------------
(***************************************************************************)
(* Instances of SnipFile for TLC.                                          *)
(***************************************************************************)
EXTENDS SnipFile, TLC

\* The processes run the same code, so permuting them changes nothing.
Symmetry == Permutations(Procs)
=============================================================================
