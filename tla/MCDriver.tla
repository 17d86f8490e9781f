------------------------------ MODULE MCDriver ------------------------------
(* Driver with model values, for TLC. *)
EXTENDS Driver, TLC

CONSTANTS h1, h2, oa, ob

TwoHandles == {h1, h2}
TwoOps == {oa, ob}
=============================================================================
