---------------------------- MODULE MCPersistence ----------------------------
(* One daemon, started again and again; or two started together.           *)
EXTENDS Persistence
=============================================================================
