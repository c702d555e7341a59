----------------------------- MODULE AgentCall -----------------------------
(***************************************************************************)
(* What the bridge may assume of a call that asks the agent to do          *)
(* something: the asynchronous action() of BridgeApplication's             *)
(* #executeCommand (bridge/src/server.ts).  This is the environment of     *)
(* CommandExecution, one call at a time: a call is fresh, may be carried   *)
(* out, and settles; a success says that it was carried out, a failure     *)
(* does not say whether it was or will be.                                 *)
(***************************************************************************)
CONSTANT Calls

VARIABLE stage   \* per call, how far it is

Init == stage = [c \in Calls |-> "new"]

Move(c, from, to) == stage[c] = from /\ stage'[c] = to

(* The bridge asks, or finds at once that it need not. *)
Ask(c) == Move(c, "new", "fresh") \/ Move(c, "new", "failed")

(* The agent carries the call out, in time or after it was given up. *)
Perform(c) ==
    Move(c, "fresh", "done") \/ Move(c, "adrift", "failed after the effect")

Succeed(c) == Move(c, "done", "succeeded")
Fail(c) == Move(c, "fresh", "failed")
GiveUp(c) == Move(c, "fresh", "adrift")
FailLate(c) == Move(c, "done", "failed after the effect")

(* What was asked in a call given up is lost on its way. *)
Sink(c) == Move(c, "adrift", "failed")

Step(c) ==
    \/ Ask(c) \/ Perform(c) \/ Sink(c)
    \/ Succeed(c) \/ Fail(c) \/ GiveUp(c) \/ FailLate(c)

(* Several calls may move at once: the death of the agent sinks them all.   *)
Next ==
    /\ DOMAIN stage' = Calls
    /\ \A c \in Calls : Step(c) \/ stage'[c] = stage[c]

Asked(c) == stage[c] \in {"fresh", "done"}

(* Every call settles. *)
Spec == Init /\ [][Next]_stage /\ \A c \in Calls : Asked(c) ~> ~Asked(c)
=============================================================================
