------------------------------- MODULE MCPipe -------------------------------
(* Pipe with the arguments of its setters, for TLC. *)
EXTENDS Pipe

Customs == {{}, {"OVERLAPPED"}, {"OVERLAPPED", "INBOUND"}}
=============================================================================
