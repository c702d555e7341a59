------------------------------ MODULE MCPairing ------------------------------
(* Pairing for TLC: two machines, two codes offered, one device revoked, one *)
(* mistake, and a camera that sees our code alone or after a stray one.      *)
EXTENDS Pairing

CONSTANTS m1, m2

MCSights == {<<Ours>>, <<Stray, Ours>>}

(* Bound: once the operator's process has run, codes are typed, not scanned. *)
MCBound == at \in {"aiming", "joining"} => command = NoCommand /\ revoked = {}
=============================================================================
