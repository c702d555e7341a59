----------------------------- MODULE PushSocket -----------------------------
(***************************************************************************)
(* One pushed connection as the bridge sees it (class PushConnection in    *)
(* bridge/src/push-server.ts), and the frames both sides exchange, as pure *)
(* operators.  A socket is a record                                        *)
(*   state       "open", "ended" (socket.end() was called) or "closed",    *)
(*   bound       the hello was accepted, the session's events subscribed,  *)
(*   sendCursor  the sequence of the last event written,                   *)
(*   blocked     a write returned false and no drain came since,           *)
(*   reader      the 3DS still reads this connection,                      *)
(*   up, down    frames on their way to the bridge and to the 3DS.         *)
(* Bytes are abstracted to whole frames, and the buffers between the two   *)
(* programs to one queue of HighWater frames in each direction.            *)
(***************************************************************************)
EXTENDS EventLog

CONSTANT HighWater   \* frames in transit at which a write returns false

ASSUME HighWaterAssumption == HighWater \in Nat \ {0}

HelloFrame(after) == [type |-> "connection.hello", after |-> after]
CommandFrame(c) == [type |-> "command", command |-> c]
PingFrame == [type |-> "ping"]

ReadyFrame == [type |-> "connection.ready"]
AckFrame(c) == [type |-> "command.ack", command |-> c]
PongFrame == [type |-> "pong"]

(* A rejection does not name the command it is about.  The run of the       *)
(* bridge an event comes from is not in the frame: it is there for the      *)
(* properties.                                                              *)
ErrorFrame == [type |-> "error"]
EventFrame(event, run) == [type |-> "event", event |-> event, run |-> run]
ResyncFrame(log, run) ==
    [type |-> "resync.required", lastSequence |-> LatestSequence(log),
     run |-> run]

Closed ==
    [state |-> "closed", bound |-> FALSE, sendCursor |-> 0, blocked |-> FALSE,
     reader |-> FALSE, up |-> <<>>, down |-> <<>>]

Accepted == [Closed EXCEPT !.state = "open", !.reader = TRUE]

(* socket.destroy(): what was on its way to the 3DS may still arrive.       *)
Destroy(s) == [Closed EXCEPT !.reader = s.reader, !.down = s.down]

(* #send(): nothing to a closed connection; a peer that is still            *)
(* backpressured is dropped, and so is one written to after end().          *)
Send(s, frame) ==
    IF s.state = "closed" THEN s
    ELSE IF s.blocked \/ s.state = "ended" THEN Destroy(s)
    ELSE LET down == IF s.reader THEN Append(s.down, frame) ELSE <<>>
         IN  [s EXCEPT !.down = down, !.blocked = Len(down) >= HighWater]

(* #fail(error, true) and #sendResync() close after what they write. *)
SendAndEnd(s, frame) ==
    LET sent == Send(s, frame)
    IN  IF sent.state = "open" THEN [sent EXCEPT !.state = "ended"] ELSE sent

(* A faulty #sendEvent() that forgets an event the peer had no room for. *)
SendEventLossy(s, event, run) ==
    IF s.state = "closed" THEN s
    ELSE IF s.blocked THEN [s EXCEPT !.sendCursor = event.sequence]
    ELSE [Send(s, EventFrame(event, run)) EXCEPT !.sendCursor = event.sequence]

(* #sendEvent(), and the loop around it that ends at the first write that   *)
(* is not writable.                                                         *)
SendEvent(s, event, run) ==
    IF s.blocked \/ s.state = "closed" THEN s
    ELSE LET sent == Send(s, EventFrame(event, run))
         IN  IF sent.state = "closed" THEN sent
             ELSE [sent EXCEPT !.sendCursor = event.sequence]

(* The frames of a batch, one after the other. *)
SendEvents(s, events, run) ==
    LET after[n \in 0 .. Len(events)] ==
            IF n = 0 THEN s ELSE SendEvent(after[n - 1], events[n], run)
    IN  after[Len(events)]

(* #flushEvents(): every retained event after the send cursor while the     *)
(* peer is writable, or a resync when the cursor cannot be replayed.        *)
Flush(s, log, run) ==
    IF s.state = "closed" \/ s.blocked \/ ~s.bound THEN s
    ELSE IF CursorCode(log, s.sendCursor) # "OK"
         THEN SendAndEnd(s, ResyncFrame(log, run))
    ELSE SendEvents(s, EventsAfter(log, s.sendCursor, HistoryLimit), run)

(* #handleHello() of a known session and an accepted device: subscribe,     *)
(* then ready and the replay, or a resync.                                  *)
Welcome(s, after, log, run) ==
    LET joined == [s EXCEPT !.bound = TRUE, !.sendCursor = after]
    IN  IF CursorCode(log, after) # "OK"
        THEN SendAndEnd(joined, ResyncFrame(log, run))
        ELSE Flush(Send(joined, ReadyFrame), log, run)

(* A faulty #onDrain() that waits for the next event to be published. *)
DrainedSilently(s, log, run) == [s EXCEPT !.blocked = FALSE]

(* #onDrain() *)
Drained(s, log, run) == Flush([s EXCEPT !.blocked = FALSE], log, run)
=============================================================================
