------------------------------ MODULE MCPairing ------------------------------
(* Two concurrent IPC clients, one packet handler.                         *)
EXTENDS Pairing
=============================================================================
