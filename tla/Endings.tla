------------------------------ MODULE Endings ------------------------------
(***************************************************************************)
(* Endings of sequences: a bounded history, whatever it evicts from its    *)
(* front, is the ending of everything that was ever put into it.           *)
(***************************************************************************)
EXTENDS Integers, Sequences

(* The sequence s is the end of the sequence t. *)
EndsWith(t, s) ==
    /\ Len(s) <= Len(t)
    /\ \A i \in 1 .. Len(s) : s[i] = t[Len(t) - Len(s) + i]
=============================================================================
