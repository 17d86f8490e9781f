------------------------------ MODULE MCHandle ------------------------------
(* Handle with model values, for TLC. *)
EXTENDS Handle, TLC

CONSTANTS h1, h2, oa, ob, oc

OneHandle == {h1}
TwoHandles == {h1, h2}
TwoOps == {oa, ob}
ThreeOps == {oa, ob, oc}

\* Handles and operations are interchangeable.
Symmetry == Permutations(Handles) \cup Permutations(Ops)
=============================================================================
