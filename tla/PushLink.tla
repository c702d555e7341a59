------------------------------ MODULE PushLink ------------------------------
(***************************************************************************)
(* The pushed control link between one 3DS and the bridge: the client's    *)
(* connection state machine (client-3ds/source/network.c, struct           *)
(* push_connection), the handling of its frames (client-3ds/source/main.c, *)
(* handle_push_frame), the bridge's connections (PushSocket), its event    *)
(* log (EventLog) and its execution of commands (CommandExecution).        *)
(*                                                                         *)
(* The client is one thread: each action of it is a part of one            *)
(* network_pump(), one update_push_link() or one key press.  The bridge is *)
(* an event loop: each action of it is one callback, run to completion.    *)
(* The network may cut a connection at any moment, in which case what is   *)
(* in transit arrives in part or not at all, and either side may notice    *)
(* first.  Time is abstracted: a timer may fire whenever it is armed.      *)
(***************************************************************************)
EXTENDS PushSocket

CONSTANTS
    Connections,     \* connections; one is used again once both sides left it
    NoConnection,
    Commands, NoCommand,
    EventTypes,      \* event types; "error" is the one the client confuses
    Capacity,        \* size of the command registry
    MaxSequence,     \* bound: events published per run of the bridge
    MaxStarts,       \* bound: command runs started
    MaxLosses,       \* bound: connections lost, or hellos refused
    MaxResets,       \* bound: links stopped and started again by the user
    MaxRestarts      \* bound: restarts of the bridge

ASSUME LinkAssumption ==
    /\ NoConnection \notin Connections
    /\ NoCommand \notin Commands
    /\ Capacity \in Nat \ {0}

VARIABLES
    link,      \* the client's push_connection
    cursor,    \* event_cursor: the last event applied
    awaiting,  \* push_command_kind is not PUSH_COMMAND_NONE
    submitted, \* command ids used so far
    shown,     \* history: the positions in the event stream the response
               \* area has shown since it was last cleared
    sockets,   \* per connection, the bridge's end and the frames in transit
    log,       \* the session's event log
    registry, inFlight, waiting, fresh, done, adrift,
    performed, accepted, order, excused, acked, starts, restarts,
    losses, resets

clientVars == <<link, cursor, awaiting, submitted, shown>>
execVars == <<registry, inFlight, waiting, fresh, done, adrift, performed,
              accepted, order, excused, acked, starts, restarts>>
vars == <<clientVars, sockets, log, execVars, losses, resets>>

(* The bridge's execution of commands; a caller is a connection. *)
Exec == INSTANCE CommandExecution WITH Callers <- Connections

NoFrame == [type |-> "none"]

(* network_push_start() clears all of push_connection.  "waiting" stands    *)
(* for the retry timer and for a connection attempt under way.              *)
Stopped ==
    [phase |-> "waiting", conn |-> NoConnection, out |-> NoFrame,
     frame |-> NoFrame, command |-> NoCommand, sent |-> FALSE,
     ping |-> FALSE, written |-> FALSE]

Position(run, sequence) == [run |-> run, sequence |-> sequence]

Init ==
    /\ link = Stopped
    /\ cursor = 0
    /\ awaiting = FALSE
    /\ submitted = {}
    /\ shown = <<Position(0, 0)>>
    /\ sockets = [k \in Connections |-> Closed]
    /\ log = EmptyLog
    /\ Exec!Init
    /\ losses = 0
    /\ resets = 0

-----------------------------------------------------------------------------
(* The client leaves its connection: nobody reads what is still coming.     *)
Leave ==
    sockets' = [k \in Connections |->
                   IF k = link.conn
                   THEN [sockets[k] EXCEPT !.reader = FALSE, !.down = <<>>]
                   ELSE sockets[k]]

(* A faulty push_schedule_reconnect() that forgets that the command has to  *)
(* be sent again.                                                           *)
ReconnectAsSent ==
    /\ link' = [link EXCEPT !.phase = "waiting", !.conn = NoConnection,
                            !.out = NoFrame, !.ping = FALSE]
    /\ Leave

(* push_schedule_reconnect(): the buffers go, the pending command and a     *)
(* frame not consumed yet stay.                                             *)
Reconnect ==
    /\ link' = [link EXCEPT !.phase = "waiting", !.conn = NoConnection,
                            !.out = NoFrame, !.sent = FALSE, !.ping = FALSE,
                            !.written = FALSE]
    /\ Leave

(* pump_push(): the connect completes and the hello is built with the       *)
(* cursor of that moment.  The bridge accepts with a new PushConnection; an *)
(* answer to a command of the one that had this name before goes nowhere.   *)
Connect(k) ==
    /\ link.phase = "waiting"
    /\ sockets[k].state = "closed" /\ ~sockets[k].reader
    /\ link' = [link EXCEPT !.phase = "hello", !.conn = k,
                            !.out = HelloFrame(cursor)]
    /\ sockets' = [sockets EXCEPT ![k] = Accepted]
    /\ waiting' = [waiting EXCEPT ![k] = NoCommand]
    /\ UNCHANGED <<cursor, awaiting, submitted, shown, log,
                   registry, inFlight, fresh, done, adrift, performed,
                   accepted, order, excused, acked, starts, restarts, losses, resets>>

(* pump_push(): the output is on its way.  Whatever it was, a pending       *)
(* command now counts as sent on this connection.                           *)
SendOutput ==
    /\ link.conn # NoConnection
    /\ link.out # NoFrame
    /\ sockets' = [sockets EXCEPT ![link.conn].up =
                      IF sockets[link.conn].state = "closed" THEN <<>>
                      ELSE Append(@, link.out)]
    /\ link' = [link EXCEPT
          !.out = NoFrame,
          !.phase = IF @ = "hello" THEN "waiting ready" ELSE @,
          !.sent = @ \/ (link.phase # "hello" /\ link.command # NoCommand),
          !.written = @ \/ link.out = CommandFrame(link.command)]
    /\ UNCHANGED <<cursor, awaiting, submitted, shown, log,
                   execVars, losses, resets>>

(* pump_push(): a pending command that was not sent yet is put into the     *)
(* output buffer.                                                           *)
PrepareCommand ==
    /\ link.phase = "ready"
    /\ link.out = NoFrame
    /\ link.command # NoCommand /\ ~link.sent
    /\ link' = [link EXCEPT !.out = CommandFrame(link.command)]
    /\ UNCHANGED <<cursor, awaiting, submitted, shown, sockets, log,
                   execVars, losses, resets>>

(* pump_push(): a ping after three idle seconds. *)
PreparePing ==
    /\ link.phase = "ready"
    /\ link.out = NoFrame
    /\ link.command = NoCommand \/ link.sent
    /\ ~link.ping
    /\ link' = [link EXCEPT !.out = PingFrame, !.ping = TRUE]
    /\ UNCHANGED <<cursor, awaiting, submitted, shown, sockets, log,
                   execVars, losses, resets>>

(* strstr() for the error type finds it in an event of that type, too.      *)
LooksLikeError(frame) ==
    \/ frame.type = "error"
    \/ frame.type = "event" /\ frame.event.type = "error"

(* push_extract_frame(): the next frame moves into the slot main.c reads,   *)
(* never over one that is still there.  A pump that prepares output reads   *)
(* before the next pump sends it.                                           *)
Extract ==
    /\ link.phase \in {"waiting ready", "ready"}
    /\ link.frame = NoFrame
    /\ sockets[link.conn].down # <<>>
    /\ LET frame == Head(sockets[link.conn].down)
           drops == LooksLikeError(frame) /\ link.phase = "ready" /\ link.sent
       IN  /\ link' = [link EXCEPT
              !.frame = frame,
              !.ping = FALSE,
              !.phase = IF frame.type = "connection.ready" THEN "ready" ELSE @,
              !.command = IF drops THEN NoCommand ELSE @,
              !.sent = @ /\ ~drops,
              !.written = @ /\ ~drops]
    /\ sockets' = [sockets EXCEPT ![link.conn].down = Tail(@)]
    /\ UNCHANGED <<cursor, awaiting, submitted, shown, log, execVars, losses,
                   resets>>

(* recv() returns 0: the bridge ended the connection and all of it was read. *)
ReadEnd ==
    /\ link.phase \in {"waiting ready", "ready"}
    /\ link.frame = NoFrame
    /\ sockets[link.conn].down = <<>>
    /\ sockets[link.conn].state # "open"
    /\ Reconnect
    /\ UNCHANGED <<cursor, awaiting, submitted, shown, log,
                   execVars, losses, resets>>

(* A socket error, the connect deadline or eight seconds without a frame.   *)
LoseConnection ==
    /\ link.conn # NoConnection
    /\ IF sockets[link.conn].state = "closed" THEN UNCHANGED losses
       ELSE losses < MaxLosses /\ losses' = losses + 1
    /\ Reconnect
    /\ UNCHANGED <<cursor, awaiting, submitted, shown, log,
                   execVars, resets>>

-----------------------------------------------------------------------------
(* A faulty handle_protocol_event() that trusts whatever is pushed. *)
HandleEventAlways(frame) ==
    /\ frame.type = "event"
    /\ cursor' = frame.event.sequence
    /\ shown' = Append(shown, Position(frame.run, frame.event.sequence))
    /\ link' = [link EXCEPT !.frame = NoFrame]
    /\ UNCHANGED awaiting

(* handle_protocol_event(): an event the cursor has passed is ignored.      *)
HandleEvent(frame) ==
    /\ frame.type = "event"
    /\ IF frame.event.sequence <= cursor
       THEN UNCHANGED <<cursor, shown>>
       ELSE /\ cursor' = frame.event.sequence
            /\ shown' = Append(shown,
                               Position(frame.run, frame.event.sequence))
    /\ link' = [link EXCEPT !.frame = NoFrame]
    /\ UNCHANGED awaiting

(* command.ack: network_push_acknowledge() frees the slot of its command.   *)
HandleAck(frame) ==
    /\ frame.type = "command.ack"
    /\ IF frame.command = link.command
       THEN /\ link' = [link EXCEPT !.frame = NoFrame, !.command = NoCommand,
                                    !.sent = FALSE, !.written = FALSE]
            /\ awaiting' = FALSE
       ELSE /\ link' = [link EXCEPT !.frame = NoFrame]
            /\ UNCHANGED awaiting
    /\ UNCHANGED <<cursor, shown>>

(* resync.required: apply_session_snapshot() clears the response, shows the *)
(* marker and moves the cursor.                                             *)
HandleResync(frame) ==
    /\ frame.type = "resync.required"
    /\ cursor' = frame.lastSequence
    /\ shown' = <<Position(frame.run, frame.lastSequence)>>
    /\ link' = [link EXCEPT !.frame = NoFrame]
    /\ UNCHANGED awaiting

(* error: no command is awaited any more; the rest is words on the screen.  *)
HandleOther(frame) ==
    /\ frame.type \in {"connection.ready", "pong", "error"}
    /\ awaiting' = (awaiting /\ frame.type # "error")
    /\ link' = [link EXCEPT !.frame = NoFrame]
    /\ UNCHANGED <<cursor, shown>>

(* update_push_link(): handle the frame in the slot, then free the slot.    *)
HandleFrame ==
    /\ link.frame # NoFrame
    /\ \/ HandleEvent(link.frame)
       \/ HandleAck(link.frame)
       \/ HandleResync(link.frame)
       \/ HandleOther(link.frame)
    /\ UNCHANGED <<submitted, sockets, log, execVars, losses,
                   resets>>

(* A text, an approval or an interrupt: push_queue_command() under a new    *)
(* command id.  With one pending it refuses and changes nothing.            *)
Submit(c) ==
    /\ link.command = NoCommand
    /\ c \notin submitted
    /\ submitted' = submitted \cup {c}
    /\ link' = [link EXCEPT !.command = c, !.sent = FALSE, !.written = FALSE]
    /\ awaiting' = TRUE
    /\ UNCHANGED <<cursor, shown, sockets, log, execVars, losses,
                   resets>>

(* The software keyboard and a failed task switch stop the link and start   *)
(* it again at the cursor, without the pending command.                     *)
RestartLink ==
    /\ resets < MaxResets
    /\ resets' = resets + 1
    /\ link' = Stopped
    /\ Leave
    /\ UNCHANGED <<cursor, awaiting, submitted, shown, log,
                   execVars, losses>>

(* attach_to_current_session(): the session is opened anew, from its first  *)
(* event.                                                                   *)
Attach ==
    /\ resets < MaxResets
    /\ resets' = resets + 1
    /\ link' = Stopped
    /\ Leave
    /\ cursor' = 0
    /\ shown' = <<Position(restarts, 0)>>
    /\ UNCHANGED <<awaiting, submitted, log, execVars, losses>>

-----------------------------------------------------------------------------
(* The frame #processInput() handles next on k; a paused socket has none.   *)
Readable(k, type) ==
    /\ sockets[k].state # "closed"
    /\ ~sockets[k].blocked
    /\ sockets[k].up # <<>>
    /\ Head(sockets[k].up).type = type

Read(k) == [sockets[k] EXCEPT !.up = Tail(@)]

(* #handleHello() *)
ReadHello(k) ==
    /\ Readable(k, "connection.hello")
    /\ sockets' = [sockets EXCEPT ![k] =
          Welcome(Read(k), Head(sockets[k].up).after, log, restarts)]
    /\ UNCHANGED <<clientVars, log, execVars, losses, resets>>

(* #handleHello() of a device or a session the bridge does not know.        *)
RefuseHello(k) ==
    /\ losses < MaxLosses
    /\ losses' = losses + 1
    /\ Readable(k, "connection.hello")
    /\ sockets' = [sockets EXCEPT
          ![k] = SendAndEnd(Read(k), ErrorFrame)]
    /\ UNCHANGED <<clientVars, log, execVars, resets>>

(* #handlePing() *)
ReadPing(k) ==
    /\ Readable(k, "ping")
    /\ sockets' = [sockets EXCEPT ![k] = Send(Read(k), PongFrame)]
    /\ UNCHANGED <<clientVars, log, execVars, losses, resets>>

(* A faulty #handleCommand() that acknowledges before it executes. *)
ReadCommandEarly(k) ==
    /\ Readable(k, "command")
    /\ LET c == Head(sockets[k].up).command
       IN  /\ \/ Exec!AnswerFromRegistry(k, c)
              \/ Exec!JoinInFlight(k, c)
              \/ Exec!Start(k, c)
           /\ sockets' = [sockets EXCEPT ![k] = Send(Read(k), AckFrame(c))]
    /\ UNCHANGED <<clientVars, log, losses, resets>>

(* #handleLine() and #handleCommand(): refused while the previous command   *)
(* of this connection is processing, answered from the registry, or         *)
(* executed.                                                                *)
ReadCommand(k) ==
    /\ Readable(k, "command")
    /\ LET c == Head(sockets[k].up).command
       IN  \/ /\ waiting[k] # NoCommand
              /\ sockets' = [sockets EXCEPT
                    ![k] = Send(Read(k), ErrorFrame)]
              /\ UNCHANGED execVars
           \/ /\ Exec!AnswerFromRegistry(k, c)
              /\ sockets' = [sockets EXCEPT ![k] = Send(Read(k), AckFrame(c))]
           \/ /\ Exec!JoinInFlight(k, c) \/ Exec!Start(k, c)
              /\ sockets' = [sockets EXCEPT ![k] = Read(k)]
    /\ UNCHANGED <<clientVars, log, losses, resets>>

(* Every connection that awaits c gets the answer. *)
Answer(c, frame) ==
    sockets' = [k \in Connections |->
                   IF waiting[k] = c THEN Send(sockets[k], frame)
                   ELSE sockets[k]]

(* The agent works on a command and its promise settles. *)
Execute(c) ==
    /\ \/ Exec!Perform(c) /\ UNCHANGED sockets
       \/ Exec!Succeed(c) /\ Answer(c, AckFrame(c))
       \/ /\ Exec!Fail(c) \/ Exec!GiveUp(c) \/ Exec!FailLate(c)
          /\ Answer(c, ErrorFrame)
    /\ UNCHANGED <<clientVars, log, losses, resets>>

(* The agent gets to what it was asked in a call given up since.            *)
ExecuteAdrift(c) ==
    /\ Exec!PerformAdrift(c)
    /\ UNCHANGED <<clientVars, sockets, log, losses, resets>>

(* EventStore.append() tells every subscriber before it returns.            *)
Publish(type) ==
    /\ LatestSequence(log) < MaxSequence
    /\ log' = AppendEvent(log, type, 1)
    /\ sockets' = [k \in Connections |-> Flush(sockets[k], log', restarts)]
    /\ UNCHANGED <<clientVars, execVars, losses, resets>>

(* #onDrain(): the peer took enough for the buffer to empty. *)
Drain(k) ==
    /\ sockets[k].blocked
    /\ Len(sockets[k].down) < HighWater
    /\ sockets' = [sockets EXCEPT ![k] = Drained(sockets[k], log, restarts)]
    /\ UNCHANGED <<clientVars, log, execVars, losses, resets>>

(* The bridge learns that the 3DS left, from its FIN, an error or the idle  *)
(* timer.                                                                   *)
NoticeLeft(k) ==
    /\ sockets[k].state # "closed" /\ ~sockets[k].reader
    /\ sockets' = [sockets EXCEPT ![k] = Destroy(sockets[k])]
    /\ UNCHANGED <<clientVars, log, execVars, losses, resets>>

(* The bridge loses a connection the 3DS still believes in. *)
DropPeer(k) ==
    /\ losses < MaxLosses
    /\ losses' = losses + 1
    /\ sockets[k].state # "closed" /\ sockets[k].reader
    /\ sockets' = [sockets EXCEPT ![k] = Destroy(sockets[k])]
    /\ UNCHANGED <<clientVars, log, execVars, resets>>

(* The bridge process restarts.  Its events, connections and commands were  *)
(* in its memory; the session comes back under the same id.                 *)
RestartBridge ==
    /\ Exec!Restart
    /\ log' = EmptyLog
    /\ sockets' = [k \in Connections |-> Destroy(sockets[k])]
    /\ UNCHANGED <<clientVars, losses, resets>>

-----------------------------------------------------------------------------
Pump ==
    \/ \E k \in Connections : Connect(k)
    \/ SendOutput \/ PrepareCommand \/ Extract \/ ReadEnd

Serve(k) ==
    \/ ReadHello(k) \/ ReadPing(k) \/ ReadCommand(k)
    \/ Drain(k) \/ NoticeLeft(k)

Next ==
    \/ Pump \/ PreparePing \/ LoseConnection \/ HandleFrame
    \/ \E c \in Commands : Submit(c) \/ Execute(c) \/ ExecuteAdrift(c)
    \/ RestartLink \/ Attach \/ RestartBridge
    \/ \E k \in Connections : Serve(k) \/ RefuseHello(k) \/ DropPeer(k)
    \/ \E type \in EventTypes : Publish(type)

(* The client's loop keeps running, its idle timer included, the bridge     *)
(* serves every socket that has something for it, and the agent's calls     *)
(* settle.  Nothing has to be submitted, published or lost.                 *)
Fairness ==
    /\ WF_vars(Pump) /\ WF_vars(PreparePing) /\ WF_vars(HandleFrame)
    /\ \A k \in Connections : WF_vars(Serve(k))
    /\ \A c \in Commands : WF_vars(Execute(c))

Spec == Init /\ [][Next]_vars /\ Fairness

-----------------------------------------------------------------------------
Frames ==
    [type : {"none", "connection.ready", "pong", "ping", "error"}]
        \cup [type : {"connection.hello"}, after : Nat]
        \cup [type : {"command", "command.ack"}, command : Commands]
        \cup [type : {"resync.required"}, lastSequence : Nat, run : Nat]
        \cup [type : {"event"}, run : Nat,
              event : [sequence : Nat, type : EventTypes, bytes : Nat]]

(* The type invariant of the link's own state. *)
TypeOK ==
    /\ link \in [phase : {"waiting", "hello", "waiting ready", "ready"},
                 conn : Connections \cup {NoConnection}, out : Frames,
                 frame : Frames, command : Commands \cup {NoCommand},
                 sent : BOOLEAN, ping : BOOLEAN, written : BOOLEAN]
    /\ link.phase = "waiting" <=> link.conn = NoConnection
    /\ cursor \in Nat /\ awaiting \in BOOLEAN
    /\ submitted \subseteq Commands
    /\ \A k \in Connections :
          /\ sockets[k].state \in {"open", "ended", "closed"}
          /\ sockets[k].reader <=> k = link.conn
          /\ sockets[k].bound \in BOOLEAN /\ sockets[k].blocked \in BOOLEAN
          /\ sockets[k].sendCursor \in Nat
          /\ \A i \in 1 .. Len(sockets[k].up) : sockets[k].up[i] \in Frames
          /\ \A i \in 1 .. Len(sockets[k].down) : sockets[k].down[i] \in Frames

(* What the client has received and not applied, and what is on its way.    *)
Coming ==
    LET held == IF link.frame = NoFrame THEN <<>> ELSE <<link.frame>>
    IN  IF link.conn = NoConnection THEN held
        ELSE held \o sockets[link.conn].down

(* However connections were lost and resumed: the events the client has not *)
(* applied yet, in its slot and in transit, continue at its cursor without  *)
(* a gap, and reach as far as the bridge believes it has sent.              *)
TransitIsContiguous ==
    LET ahead == {Coming[i].event.sequence :
                     i \in {j \in 1 .. Len(Coming) :
                               /\ Coming[j].type = "event"
                               /\ Coming[j].event.sequence > cursor}}
        sent  == IF link.conn = NoConnection THEN 0
                 ELSE sockets[link.conn].sendCursor
    IN  \E last \in cursor .. LatestSequence(log) :
            ahead = cursor + 1 .. last /\ (sent <= last \/ sent <= cursor)

(* The reader of the response area never misses an event unknowingly: what  *)
(* is shown after the session was opened, or after a resync marker, is the  *)
(* run of events that follows, in order, each once.                         *)
NoSilentGap ==
    \A i \in 1 .. Len(shown) - 1 :
        /\ shown[i + 1].sequence = shown[i].sequence + 1
        /\ shown[i + 1].run = shown[i].run \/ shown[i].sequence = 0

(* No acknowledgement on its way, on whichever connection, is for a command *)
(* that did not take effect; so the client never gives up on one for that.  *)
AcksAreTrue ==
    /\ \A i \in 1 .. Len(Coming) :
          Coming[i].type = "command.ack" => performed[Coming[i].command] > 0

(* Once nothing more is lost or published, the 3DS has every event.         *)
EventsArrive == <>[](cursor = LatestSequence(log))

(* A command that was really written is settled in the end, whatever is     *)
(* lost; one that waits is written, unless the client took another frame    *)
(* for it.                                                                  *)
WrittenIsResolved ==
    \A c \in Commands :
        link.command = c ~> link.command # c \/ (link.sent /\ ~link.written)

-----------------------------------------------------------------------------
(* What docs/PROTOCOL.md says of the command slot: the 3DS retries the      *)
(* exact command until it is acknowledged.  So every command is settled in  *)
(* the end.                                                                 *)
EveryCommandIsResolved ==
    \A c \in Commands : link.command = c ~> link.command # c
=============================================================================
