----------------------------- MODULE MCBroadcast -----------------------------
(* One device, and the user's pairing window.                              *)
EXTENDS Broadcast
=============================================================================
