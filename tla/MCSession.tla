------------------------------ MODULE MCSession ------------------------------
(* Two connections: the second replaces the first, or follows it.          *)
EXTENDS Session
=============================================================================
