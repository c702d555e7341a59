----------------------------- MODULE ControlSlot -----------------------------
(***************************************************************************)
(* The one control transaction of the 3DS (client-3ds/source/network.c,    *)
(* control_transaction) with the keep-alive socket it uses, as pure        *)
(* operators on a record                                                   *)
(*   phase     of the transaction; header and body are sent as one,        *)
(*   request   what was asked, answer  what was received,                  *)
(*   open      control_socket >= 0,                                        *)
(*   up, down  requests the bridge has not served and answers not read     *)
(*             on that socket.                                             *)
(* An answer names the request the bridge served: the name is not in the   *)
(* response, it is there for the properties.                               *)
(***************************************************************************)
EXTENDS SequencesExt

NoRequest == [type |-> "none"]
NoAnswer == [to |-> NoRequest]

FreeSlot ==
    [phase |-> "idle", request |-> NoRequest, answer |-> NoAnswer,
     open |-> FALSE, up |-> <<>>, down |-> <<>>]

InProgress(slot) == slot.phase \in {"connecting", "sending", "receiving"}

CloseLine(slot) == [slot EXCEPT !.open = FALSE, !.up = <<>>, !.down = <<>>]

(* memset() of the transaction. *)
Clear(slot) ==
    [slot EXCEPT !.phase = "idle", !.request = NoRequest, !.answer = NoAnswer]

(* A faulty cancel that keeps the socket: the answer to come stays in it. *)
CancelKeepingLine(slot) == Clear(slot)

(* network_control_cancel() *)
Cancel(slot) == Clear(IF InProgress(slot) THEN CloseLine(slot) ELSE slot)

(* network_control_consume() *)
Consume(slot) == IF slot.phase \in {"succeeded", "failed"} THEN Clear(slot) ELSE slot

(* begin_control_request(): refused while the slot is taken; on the socket  *)
(* that is open, or on a new one, whose connect may fail at once.           *)
BeginRequest(slot, r) ==
    IF slot.phase # "idle" THEN {[ok |-> FALSE, slot |-> slot]}
    ELSE LET taken == [slot EXCEPT !.request = r, !.open = TRUE,
                                   !.phase = IF slot.open THEN "sending"
                                             ELSE "connecting"]
         IN  {[ok |-> TRUE, slot |-> taken]} \cup
             (IF slot.open THEN {} ELSE {[ok |-> FALSE, slot |-> slot]})

(* fail_control() *)
Fail(slot) == [CloseLine(slot) EXCEPT !.phase = "failed"]

(* pump_control(): every phase has a deadline and may fail, also because    *)
(* the bridge closed the socket or answered with something unusable.        *)
Sent(slot) ==
    [slot EXCEPT !.phase = "receiving", !.up = Append(@, slot.request)]

(* receive_http_step() and the end of pump_control(): a 2xx answer ends the *)
(* transaction, and the socket stays open if the bridge keeps it alive.     *)
Received(slot) ==
    LET answer == Head(slot.down)
        read == [slot EXCEPT !.down = Tail(@), !.answer = answer]
    IN  IF ~answer.ok THEN Fail(read)
        ELSE [(IF answer.reusable THEN read ELSE CloseLine(read))
                 EXCEPT !.phase = "succeeded"]

Progress(slot) ==
    CASE slot.phase = "connecting" -> {[slot EXCEPT !.phase = "sending"]}
      [] slot.phase = "sending" -> {Sent(slot)}
      [] slot.phase = "receiving" /\ slot.down # <<>> -> {Received(slot)}
      [] OTHER -> {}

(* A faulty pump that has no deadlines and waits for the peer for ever. *)
PumpPatiently(slot) == Progress(slot)

Pump(slot) == Progress(slot) \cup (IF InProgress(slot) THEN {Fail(slot)} ELSE {})

(* The bridge serves a request that reached it. *)
Serve(slot, answer) ==
    [slot EXCEPT !.up = Tail(@), !.down = Append(@, answer)]

(* The bridge closes its end: what it has not answered it never will, what  *)
(* it has answered can still be read.  The client finds out when it reads.  *)
EndOfLine == [to |-> NoRequest, ok |-> FALSE]

Ended(slot) == slot.down # <<>> /\ Last(slot.down) = EndOfLine

EndLine(slot) ==
    IF ~slot.open \/ Ended(slot) THEN slot
    ELSE [slot EXCEPT !.up = <<>>, !.down = Append(@, EndOfLine)]

(* network_reset_connections() *)
Reset(slot) == CloseLine(Cancel(slot))
=============================================================================
