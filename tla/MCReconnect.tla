----------------------------- MODULE MCReconnect -----------------------------
(* Two goroutines ending sessions one after the other, room for a second   *)
(* reconnect loop that must never be used.                                 *)
EXTENDS Reconnect
=============================================================================
