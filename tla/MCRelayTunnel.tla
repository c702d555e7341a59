---------------------------- MODULE MCRelayTunnel ----------------------------
(* A small instance of RelayTunnel. *)
EXTENDS RelayTunnel
=============================================================================
