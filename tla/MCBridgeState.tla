---------------------------- MODULE MCBridgeState ----------------------------
(***************************************************************************)
(* The bridge's event store and its execution of commands for TLC.  They   *)
(* share no state, so a behaviour moves one of them and the other rests.   *)
(*                                                                         *)
(* Sizes 1, 3 and 4 against a budget of 5 bytes and 3 events make either   *)
(* limit the one that evicts, and make one append evict several events;    *)
(* size 5 is refused.  Two callers can ask for the same command at once;   *)
(* three commands against a registry of two push each other out; four runs *)
(* let a command be forgotten and run again.                               *)
(***************************************************************************)
EXTENDS EventStore, CommandExecution

MCEventSizes == {1, 3, 4, 5}

MCInit == StoreInit /\ Init

MCNext ==
    \/ StoreNext /\ Init /\ UNCHANGED vars
    \/ Next /\ StoreInit /\ UNCHANGED storeVars

MCSpec == MCInit /\ [][MCNext]_<<storeVars, vars>> /\ Fairness
=============================================================================
