---------------------------- MODULE MCClipmenud -----------------------------
(***************************************************************************)
(* Instances of Clipmenud for TLC.                                         *)
(***************************************************************************)
EXTENDS Clipmenud, TLC

CONSTANTS foo, fooa, bar, blank, secret

\* One clipserve is like the other.
AnyClipserve == Permutations(Clipserves)

Both    == <<"CLIPBOARD", "PRIMARY">>
Primary == <<"PRIMARY">>
Clipboard == <<"CLIPBOARD">>

\* The defaults, and what "own_clipboard 1" and "oneshot 1" make of them.
Default   == {[own_clipboard |-> FALSE, oneshot |-> FALSE]}
Owning    == {[own_clipboard |-> TRUE, oneshot |-> FALSE]}
EitherSet == Default \union Owning
             \union {[own_clipboard |-> FALSE, oneshot |-> TRUE]}

\* "foo" is a prefix of "fooa"; a text is a prefix of itself; nothing but
\* whitespace is never stored and never compared.
Partials == {<<foo, foo>>, <<fooa, fooa>>, <<bar, bar>>, <<secret, secret>>,
             <<foo, fooa>>, <<fooa, foo>>} \intersect (Texts \X Texts)
=============================================================================
