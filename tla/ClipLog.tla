------------------------------ MODULE ClipLog ------------------------------
(***************************************************************************)
(* What the clip store of src/store.c and store.h promises its users: a    *)
(* log of clips, oldest first, to which a clip is added at the end, of     *)
(* which the newest is replaced, or from which some are removed while the  *)
(* others keep their order.  Each of these happens at one instant.         *)
(***************************************************************************)
EXTENDS Naturals, Sequences

CONSTANT Texts   \* what a clip can hold

VARIABLE log

Init == log = <<>>

\* cs_add()
Add(t) == log' = Append(log, t)

\* cs_replace()
Replace(i, t) == log' = [log EXCEPT ![i] = t]

Increasing(f) == \A i, j \in DOMAIN f : i < j => f[i] < f[j]

\* cs_remove() and cs_trim(): a proper subsequence stays.
Remove ==
  \E n \in 0 .. Len(log) :
    /\ n < Len(log)
    /\ \E f \in [1 .. n -> DOMAIN log] :
         /\ Increasing(f)
         /\ log' = [i \in 1 .. n |-> log[f[i]]]

Next ==
  \/ \E t \in Texts : Add(t) \/ (log # <<>> /\ Replace(Len(log), t))
  \/ Remove

Spec == Init /\ [][Next]_log
=============================================================================
