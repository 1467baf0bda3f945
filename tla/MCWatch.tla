------------------------------- MODULE MCWatch -------------------------------
(* One client that looks while the daemon's state changes.                 *)
EXTENDS Watch
=============================================================================
