-------------------------- MODULE MCCompletionPort --------------------------
(* CompletionPort with model values, for TLC. *)
EXTENDS CompletionPort, TLC

CONSTANTS c1, c2, o1, o2, o3

MCClients == {c1, c2}
MCOps == {o1, o2}
MCThreeOps == {o1, o2, o3}

\* Clients and operations are interchangeable.
Symmetry == Permutations(Clients) \cup Permutations(Ops)
=============================================================================
