----------------------------- MODULE MCTransfer -----------------------------
(* Transfer with sets for its constants, for TLC. *)
EXTENDS Transfer, TLC

Everything == AllKinds
Streaming == {"poll_read", "poll_write", "connect", "ioctl"}

Symmetric == Permutations(Ops)
=============================================================================
