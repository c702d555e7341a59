----------------------------- MODULE MCAgentView -----------------------------
(* The first task has a history, the second one is opened once or twice. *)
EXTENDS AgentView, TLC

CONSTANTS s1, s2, First, Second

MCMaxEvents == s1 :> First @@ s2 :> Second
=============================================================================
