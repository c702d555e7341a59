------------------------- MODULE MCClientTransactions -------------------------
(***************************************************************************)
(* The control and the media transaction of the 3DS for TLC.  They share   *)
(* no state, so a behaviour moves one of them and the other rests.         *)
(*                                                                         *)
(* One task, and one that may be started.  A ring of four blocks, a buffer *)
(* of three that is sent from two on, recordings of at most five blocks    *)
(* and a photo of four, so that a chunk is full or not, a ring laps, and a *)
(* photo takes two.                                                        *)
(***************************************************************************)
EXTENDS ClientTasks, MediaStream

CONSTANTS s1, s2

MCSessions == {s1, s2}
MCFirstSessions == <<s1>>

MCInit == Init /\ MediaInit

MCNext ==
    \/ Next /\ MediaInit /\ sock = "none" /\ UNCHANGED mediaVars
    \/ MediaNext /\ Init /\ UNCHANGED vars

MCSpec == MCInit /\ [][MCNext]_<<vars, mediaVars>> /\ Fairness /\ MediaFairness
=============================================================================
