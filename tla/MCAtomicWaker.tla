--------------------------- MODULE MCAtomicWaker ----------------------------
(* AtomicWaker with model values, for TLC. *)
EXTENDS AtomicWaker

CONSTANTS t1, w1, w2, w3

OneTask == {t1}
ThreeThreads == {w1, w2, w3}
=============================================================================
