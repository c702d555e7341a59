----------------------------- MODULE MCPushLink -----------------------------
(***************************************************************************)
(* Instances of the pushed link for TLC.  Two connections are enough for a *)
(* client that has one at a time to leave frames behind on an abandoned    *)
(* one.  Runs about events have no commands, so that both histories can be *)
(* long; runs about commands publish at most one event, of the type the    *)
(* client confuses with a rejection.                                       *)
(***************************************************************************)
EXTENDS PushLink

CONSTANTS k1, k2, c1

TwoConnections == {k1, k2}
NoCommands == {}
OneCommand == {c1}
Deltas == {"delta"}
Errors == {"error"}
=============================================================================
