------------------------------ MODULE MCAccept ------------------------------
(* Accept with model values, for TLC. *)
EXTENDS Accept, TLC

CONSTANTS l1, l2, l3, s1, s2, s3

ThreeListeners == {l1, l2, l3}
ThreeNumbers == {s1, s2, s3}

\* Listeners and numbers are interchangeable.
Symmetry == Permutations(Listeners) \cup Permutations(Numbers)
=============================================================================
