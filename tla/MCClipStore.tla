---------------------------- MODULE MCClipStore -----------------------------
(***************************************************************************)
(* Instances of ClipStore for TLC.                                         *)
(***************************************************************************)
EXTENDS ClipStore, TLC

CONSTANTS t1, t2, t3, h1, h2

\* One clip; two clips with different hashes; a third whose hash collides.
OneHash        == t1 :> h1
DistinctHashes == t1 :> h1 @@ t2 :> h2
Colliding      == t1 :> h1 @@ t2 :> h2 @@ t3 :> h1
SameHash       == t1 :> h1 @@ t3 :> h1
=============================================================================
