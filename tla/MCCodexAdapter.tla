--------------------------- MODULE MCCodexAdapter ---------------------------
(* Small instances of CodexAdapter. *)
EXTENDS CodexAdapter

CONSTANTS s1, x1, x2, o1, i1, a1, a2

OneSession == {s1}
OneText == {x1}
TwoTexts == {x1, x2}
OneOpen == {o1}
OneInterrupt == {i1}
TwoApprovals == {a1, a2}
None == {}
=============================================================================
