----------------------------- MODULE MCAdapterKV -----------------------------
(* TLC instances of AdapterKV: int64 cut down to 3 bits, small bodies. *)
EXTENDS AdapterKV, TLC

CONSTANTS c1, c2, c3, k1, text, huge, none, src, m1

NoMirrors == {}
OneMirror == {m1}
AnyClients == Permutations(Client)
OneBody == {text}
Clamped == {huge}
One == {1}
WithTtl == {TRUE}
NoTtl == {FALSE}
EitherTtl == BOOLEAN
=============================================================================
