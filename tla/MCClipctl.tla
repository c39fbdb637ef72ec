----------------------------- MODULE MCClipctl ------------------------------
(***************************************************************************)
(* Instances of Clipctl for TLC.                                           *)
(***************************************************************************)
EXTENDS Clipctl, TLC

Symmetry == Permutations(Ctls)
=============================================================================
