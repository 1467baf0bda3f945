--------------------------- MODULE PairingContract ---------------------------
(***************************************************************************)
(* What pairing promises, whatever goroutines run it: trust is reached     *)
(* only through a pending request, a request can replace any state, and    *)
(* anything can fall back to Unpaired.                                     *)
(***************************************************************************)
VARIABLE standing \* "none", "asked" or "trusted"

Init == standing \in {"none", "trusted"}

Ask    == standing' = "asked"
Settle == standing = "asked" /\ standing' = "trusted"
Drop   == standing' = "none"

Next == Ask \/ Settle \/ Drop

Spec == Init /\ [][Next]_standing
=============================================================================
